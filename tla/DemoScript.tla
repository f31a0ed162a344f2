------------------------------ MODULE DemoScript ------------------------------
(***************************************************************************)
(* scripts/devnet-web2-demo.ts, run from several machines on one devnet.   *)
(* The tenants' names carry the run id, by default the second the run was  *)
(* started in, so two runs may be given the same tenants.  Each tenant has *)
(* an organization, a role and a key of its own, whose accounts are those  *)
(* of a BaseRuntime.  One step per await; any await may throw, after its   *)
(* transaction took effect too, and the run is over then.                  *)
(*                                                                         *)
(* Beside the runs is everybody else on the devnet: consume_request and    *)
(* initialize_gateway ask for nobody's authority.  What needs the          *)
(* signature of a tenant's authority is sent by the runs alone.            *)
(*                                                                         *)
(* A tick of the clock is the minute that both tenants' windows last.      *)
(***************************************************************************)
EXTENDS RuntimeOps, FiniteSets

CONSTANTS
  Runs,        \* the runs with this run id
  Wallets,     \* the wallets they, and those who are no run, may have
  NoWallet,
  NoRun,       \* whoever else makes a request
  MaxOutside,  \* bound: the requests of others than the runs
  MaxTime      \* bound: the clock stops here

ASSUME WalletAssumption == NoWallet \notin Wallets
ASSUME RunAssumption == NoRun \notin Runs

\* The quotas buildTenant asks for are numbers, and the clock is a timestamp.
ASSUME WidthAssumption == 5 <= MaxU64 /\ MaxTime \in 1..MaxI64

VARIABLES
  clock,
  gateway,      \* the gateway's authority
  authority,    \* of each tenant's organization
  created,      \* which of organization, role and api_key each tenant has
  acme_active, acme_mask, acme_policy, acme_runtime, acme_checkpoint,
  acme_settlements,
  globex_active, globex_mask, globex_policy, globex_runtime,
  globex_checkpoint, globex_settlements,
  wallet,       \* of each run
  at,           \* the line of Scenario each run is at
  creating,     \* did fetchMaybe answer null there
  cleared,      \* was the audit fetched after the settlement empty
  outcome,      \* of each run
  asked         \* history: who made each tenant's requests, in order

acmeVars == <<acme_active, acme_mask, acme_policy, acme_runtime,
              acme_checkpoint, acme_settlements>>
globexVars == <<globex_active, globex_mask, globex_policy, globex_runtime,
                globex_checkpoint, globex_settlements>>
controlVars == <<gateway, authority, created>>
runVars == <<wallet, at, creating, cleared, outcome>>
demoVars == <<clock, controlVars, acmeVars, globexVars, runVars, asked>>

acme == INSTANCE BaseRuntime WITH
  active <- acme_active, policy_mask <- acme_mask,
  quota_policy <- acme_policy, runtime <- acme_runtime,
  checkpoint <- acme_checkpoint, settlement_count <- acme_settlements,
  MaskInputs <- {{0}, {4}}, ActionInputs <- {0, 3},
  MaxRequestsInputs <- {2, 5}, WindowInputs <- {1}
globex == INSTANCE BaseRuntime WITH
  active <- globex_active, policy_mask <- globex_mask,
  quota_policy <- globex_policy, runtime <- globex_runtime,
  checkpoint <- globex_checkpoint, settlement_count <- globex_settlements,
  MaskInputs <- {{0}, {4}}, ActionInputs <- {0, 3},
  MaxRequestsInputs <- {2, 5}, WindowInputs <- {1}

Tenants == {"acme", "globex"}

\* buildTenant: what the two tenants are given.
PermissionMask(tenant) == IF tenant = "acme" THEN {0} ELSE {4}
MaxRequests(tenant)    == IF tenant = "acme" THEN 2 ELSE 5

Ensured == {"gateway", "organization", "role", "api_key", "runtime"}
RequestAction(does) == IF does = "metrics:read" THEN 0 ELSE 3

Line(tenant, does) == [tenant |-> tenant, does |-> does]

EnsureTenant(tenant) ==
  << Line(tenant, "organization"), Line(tenant, "role"),
     Line(tenant, "attach_policy"), Line(tenant, "api_key"),
     Line(tenant, "quota_policy"), Line(tenant, "runtime") >>

Scenario ==
  << Line("both", "gateway") >>
  \o EnsureTenant("acme") \o EnsureTenant("globex")
  \o << Line("acme", "metrics:read"), Line("acme", "users:write"),
        Line("acme", "check_rbac"),
        Line("acme", "metrics:read"), Line("acme", "metrics:read"),
        Line("acme", "check_quota"),
        Line("globex", "users:write"), Line("globex", "check_isolation"),
        Line("acme", "settle"), Line("acme", "fetch_settled"),
        Line("acme", "check_settled"),
        Line("acme", "revoke"), Line("acme", "metrics:read"),
        Line("acme", "check_revoked") >>

DemoInit ==
  /\ gateway \in Wallets \cup {NoWallet}
  /\ authority = [tenant \in Tenants |-> NoWallet]
  /\ created = [tenant \in Tenants |-> {}]
  /\ acme!Init
  /\ globex!Init
  /\ wallet \in [Runs -> Wallets]
  /\ at = [r \in Runs |-> 1]
  /\ creating = [r \in Runs |-> FALSE]
  /\ cleared = [r \in Runs |-> FALSE]
  /\ outcome = [r \in Runs |-> "running"]
  /\ asked = [tenant \in Tenants |-> << >>]

(***************************************************************************)
(* One step of a run.                                                      *)
(***************************************************************************)
Does(r, does) == outcome[r] = "running" /\ Scenario[at[r]].does = does
Tenant(r)     == Scenario[at[r]].tenant

EndsAs(r, result) ==
  /\ outcome' = [outcome EXCEPT ![r] = result]
  /\ UNCHANGED <<at, creating>>

\* The await answered: on to the next line, or to the report after the last.
Goes(r) ==
  IF at[r] = Len(Scenario) THEN EndsAs(r, "reported")
  ELSE /\ at' = [at EXCEPT ![r] = @ + 1]
       /\ creating' = [creating EXCEPT ![r] = FALSE]
       /\ UNCHANGED outcome

\* The transaction took effect; its confirmation may be lost all the same.
Sent(r) == (Goes(r) \/ EndsAs(r, "failed")) /\ UNCHANGED <<wallet, cleared>>

\* A transaction on the hot path of the run's tenant.
OnTenant(r, acme_step, globex_step) ==
  /\ \/ Tenant(r) = "acme" /\ acme_step /\ UNCHANGED globexVars
     \/ Tenant(r) = "globex" /\ globex_step /\ UNCHANGED acmeVars
  /\ UNCHANGED controlVars
  /\ Sent(r)

\* Any wallet will do.
FaultySignedByAny(r) == authority[Tenant(r)] # NoWallet

\* has_one = authority
SignedFor(r) == authority[Tenant(r)] = wallet[r]

Throws(r) ==
  /\ outcome[r] = "running"
  /\ EndsAs(r, "failed")
  /\ UNCHANGED <<clock, controlVars, acmeVars, globexVars, wallet, cleared, asked>>

(***************************************************************************)
(* ensureGateway and ensureTenant.                                         *)
(***************************************************************************)
Found(r) ==
  CASE Scenario[at[r]].does = "gateway" -> gateway # NoWallet
    [] Scenario[at[r]].does = "runtime" ->
         (IF Tenant(r) = "acme" THEN acme_runtime ELSE globex_runtime).initialized
    [] OTHER -> Scenario[at[r]].does \in created[Tenant(r)]

\* fetchMaybe answers null for an account that is there, too.
FetchMaybe(r) ==
  /\ \E does \in Ensured : Does(r, does)
  /\ ~creating[r]
  /\ \/ Found(r) /\ Goes(r)
     \/ creating' = [creating EXCEPT ![r] = TRUE] /\ UNCHANGED <<at, outcome>>
  /\ UNCHANGED <<clock, controlVars, acmeVars, globexVars, wallet, cleared, asked>>

InitializeGateway(r) ==
  /\ Does(r, "gateway") /\ creating[r]
  /\ gateway = NoWallet
  /\ gateway' = wallet[r]
  /\ UNCHANGED <<clock, authority, created, acmeVars, globexVars, asked>>
  /\ Sent(r)

CreateOrganization(r) ==
  /\ Does(r, "organization") /\ creating[r]
  /\ gateway = wallet[r]
  /\ "organization" \notin created[Tenant(r)]
  /\ created' = [created EXCEPT ![Tenant(r)] = @ \cup {"organization"}]
  /\ authority' = [authority EXCEPT ![Tenant(r)] = wallet[r]]
  /\ UNCHANGED <<clock, gateway, acmeVars, globexVars, asked>>
  /\ Sent(r)

\* The gateway belongs to another wallet.
OrganizationRefused(r) ==
  /\ Does(r, "organization") /\ creating[r]
  /\ gateway # wallet[r]
  /\ EndsAs(r, "refused")
  /\ UNCHANGED <<clock, controlVars, acmeVars, globexVars, wallet, cleared, asked>>

\* create_role and create_api_key; a key is created active.
CreateForTenant(r, what) ==
  /\ Does(r, what) /\ creating[r]
  /\ SignedFor(r)
  /\ what = "api_key" => "role" \in created[Tenant(r)]
  /\ what \notin created[Tenant(r)]
  /\ created' = [created EXCEPT ![Tenant(r)] = @ \cup {what}]
  /\ UNCHANGED <<clock, gateway, authority, acmeVars, globexVars, asked>>
  /\ Sent(r)

AttachPolicy(r) ==
  /\ Does(r, "attach_policy")
  /\ SignedFor(r)
  /\ "role" \in created[Tenant(r)]
  /\ OnTenant(r, acme!AttachPolicyToRole(PermissionMask("acme")),
                 globex!AttachPolicyToRole(PermissionMask("globex")))
  /\ UNCHANGED asked

CreateQuotaPolicy(r) ==
  /\ Does(r, "quota_policy")
  /\ SignedFor(r)
  /\ "api_key" \in created[Tenant(r)]
  /\ OnTenant(r, acme!CreateQuotaPolicy(MaxRequests("acme"), 1),
                 globex!CreateQuotaPolicy(MaxRequests("globex"), 1))
  /\ UNCHANGED asked

InitializeRuntime(r) ==
  /\ Does(r, "runtime") /\ creating[r]
  /\ SignedFor(r)
  /\ OnTenant(r, acme!InitializeQuotaRuntime, globex!InitializeQuotaRuntime)
  /\ UNCHANGED asked

(***************************************************************************)
(* The scenarios: requests by base RPC, and what is checked after them.    *)
(***************************************************************************)
Request(r, does) ==
  /\ Does(r, does)
  /\ OnTenant(r, acme!ConsumeRequest(RequestAction(does)),
                 globex!ConsumeRequest(RequestAction(does)))
  /\ asked' = [asked EXCEPT ![Tenant(r)] = Append(@, r)]

Settle(r) ==
  /\ Does(r, "settle")
  /\ SignedFor(r)
  /\ OnTenant(r, acme!SettleRuntimeCheckpoint, globex!SettleRuntimeCheckpoint)
  /\ UNCHANGED asked

Revoke(r) ==
  /\ Does(r, "revoke")
  /\ SignedFor(r)
  /\ OnTenant(r, acme!RevokeApiKey, globex!RevokeApiKey)
  /\ UNCHANGED asked

\* The runtime is fetched before the checkpoint it is compared with.
FetchSettled(r) ==
  /\ Does(r, "fetch_settled")
  /\ cleared' = [cleared EXCEPT ![r] = acme_runtime.rolling_audit = << >>]
  /\ Goes(r)
  /\ UNCHANGED <<clock, controlVars, acmeVars, globexVars, wallet, asked>>

AuditReason(rt, index, reason) ==
  Len(rt.rolling_audit) >= index /\ rt.rolling_audit[index].reason = reason

\* Other requests than the run's own are taken for noise.
FaultyExpected(r) ==
  CASE Does(r, "check_rbac") ->
         /\ acme_runtime.total_allowed >= 1
         /\ acme_runtime.total_rejected >= 1
         /\ AuditReason(acme_runtime, 2, "Unauthorized")
    [] Does(r, "check_quota") ->
         /\ acme_runtime.total_allowed >= 2
         /\ acme_runtime.total_rejected >= 2
    [] Does(r, "check_isolation") -> globex_runtime.total_allowed >= 1
    [] Does(r, "check_settled") -> acme_checkpoint.settled_sequence >= 4
    [] Does(r, "check_revoked") -> acme_runtime.total_rejected >= 3

Expected(r) ==
  CASE Does(r, "check_rbac") ->
         /\ acme_runtime.total_allowed = 1
         /\ acme_runtime.total_rejected = 1
         /\ AuditReason(acme_runtime, 2, "Unauthorized")
    [] Does(r, "check_quota") ->
         /\ acme_runtime.current_window_used = 2
         /\ acme_runtime.total_allowed = 2
         /\ acme_runtime.total_rejected = 2
         /\ AuditReason(acme_runtime, 4, "QuotaExceeded")
    [] Does(r, "check_isolation") ->
         /\ globex_runtime.total_allowed = 1
         /\ globex_runtime.total_rejected = 0
    [] Does(r, "check_settled") ->
         /\ cleared[r]
         /\ acme_checkpoint.settled_sequence = 4
         /\ acme_checkpoint.total_allowed = 2
         /\ acme_checkpoint.total_rejected = 2
    [] Does(r, "check_revoked") ->
         /\ acme_runtime.total_rejected = 3
         /\ AuditReason(acme_runtime, 1, "KeyRevoked")

Check(r) ==
  /\ \E does \in {"check_rbac", "check_quota", "check_isolation",
                  "check_settled", "check_revoked"} : Does(r, does)
  /\ IF Expected(r) THEN Goes(r) ELSE EndsAs(r, "unexpected")
  /\ UNCHANGED <<clock, controlVars, acmeVars, globexVars, wallet, cleared, asked>>

(***************************************************************************)
(* Everybody else: the two instructions that ask for nobody's authority.   *)
(***************************************************************************)
Outside(tenant) ==
  Cardinality({i \in DOMAIN asked[tenant] : asked[tenant][i] = NoRun})

\* Any payer may consume requests of a tenant's key.
OutsideRequest(tenant, action) ==
  /\ Outside("acme") + Outside("globex") < MaxOutside
  /\ \/ tenant = "acme" /\ acme!ConsumeRequest(action) /\ UNCHANGED globexVars
     \/ tenant = "globex" /\ globex!ConsumeRequest(action) /\ UNCHANGED acmeVars
  /\ asked' = [asked EXCEPT ![tenant] = Append(@, NoRun)]
  /\ UNCHANGED <<controlVars, runVars>>

\* Whoever initializes the gateway is its authority.
OutsideGateway ==
  /\ gateway = NoWallet
  /\ gateway' \in Wallets
  /\ UNCHANGED <<clock, authority, created, acmeVars, globexVars, runVars, asked>>

Tick ==
  /\ clock < MaxTime
  /\ clock' = clock + 1
  /\ UNCHANGED <<controlVars, acmeVars, globexVars, runVars, asked>>

DemoNext ==
  \/ \E r \in Runs :
       \/ Throws(r)
       \/ FetchMaybe(r)
       \/ InitializeGateway(r)
       \/ CreateOrganization(r)
       \/ OrganizationRefused(r)
       \/ \E what \in {"role", "api_key"} : CreateForTenant(r, what)
       \/ AttachPolicy(r)
       \/ CreateQuotaPolicy(r)
       \/ InitializeRuntime(r)
       \/ \E does \in {"metrics:read", "users:write"} : Request(r, does)
       \/ Settle(r)
       \/ Revoke(r)
       \/ FetchSettled(r)
       \/ Check(r)
  \/ \E tenant \in Tenants, action \in {0, 3} : OutsideRequest(tenant, action)
  \/ OutsideGateway
  \/ Tick

DemoSpec == DemoInit /\ [][DemoNext]_demoVars

(***************************************************************************)
(* Properties.                                                             *)
(***************************************************************************)

\* A report is worth what it says: the decisions that its steps call "passed"
\* were the run's own, all of them and no others, although a second run with
\* the same run id, a resumed one say, works on the same tenants, anybody at all
\* may request of them too, the window may expire half-way and the runtime is
\* fetched long after the requests.
ReportIsOwn ==
  \A r \in Runs : outcome[r] = "reported" =>
    /\ \A i \in 1..5 : asked["acme"][i] = r
    /\ asked["globex"][1] = r

\* fetchMaybe takes any failure for an absence and what is taken to be absent is
\* created: yet no set-up, of a later run either, sets a tenant back.  Decisions
\* made and settled stay, and an organization keeps its authority.
SetUpKeepsWhatIsThere ==
  [][/\ acme_runtime.rolling_sequence' >= acme_runtime.rolling_sequence
     /\ globex_runtime.rolling_sequence' >= globex_runtime.rolling_sequence
     /\ acme_checkpoint.settled_sequence' >= acme_checkpoint.settled_sequence
     /\ \A tenant \in Tenants :
          authority[tenant] \in {NoWallet, authority'[tenant]}]_demoVars

\* A run that gets through the set-up owns both tenants, whatever fetchMaybe
\* answered and whoever created what it found: the accounts it found existing
\* are another wallet's only if one of the instructions it sends anyway was
\* refused.
SetUpUnderOwnWallet ==
  \A r \in Runs : at[r] > 13 =>
    \A tenant \in Tenants : authority[tenant] = wallet[r]

\* README: the demo "provisions fresh tenant state under their own wallet" for
\* reviewers.  So a reviewer's own wallet is enough to create an organization
\* that does not exist yet.
OwnWalletSuffices ==
  \A r \in Runs : outcome[r] = "refused" =>
    "organization" \in created[Tenant(r)]
=============================================================================
