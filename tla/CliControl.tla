------------------------------ MODULE CliControl ------------------------------
(***************************************************************************)
(* The commands of cli/gatekeeper.ts that set a tenant up, beside any      *)
(* other client of the control plane: from what is typed to the accounts   *)
(* an instruction is sent with.  A value typed is a text; a flag may also  *)
(* be left out, or be given without a value.  sha256 and the derivation of *)
(* addresses are injective: an address is the seeds it is derived from.    *)
(***************************************************************************)
EXTENDS ControlPlane

CONSTANTS
  Materials,    \* key materials an operator may type
  PolicyInputs, \* texts for --policy, as PolicyText below
  Persistent    \* <<name, role, material>> of the bring-ups tried until done

Missing == "(absent)"
NoValue == "(no value)"

\* Neither is a text that could be typed.
ASSUME TypedAssumption ==
  {Missing, NoValue} \cap (Principals \cup OrgNames \cup RoleNames \cup Materials) = {}

ASSUME PersistentAssumption == Persistent \subseteq OrgNames \X RoleNames \X Materials

\* parseArgs: a flag followed by nothing, or by another flag, is "true".
Flag(typed) == IF typed = NoValue THEN "true" ELSE typed

\* requireFlag
Required(typed) == typed # Missing

\* What may be typed for a flag whose texts of interest are these.
Typed(texts) ==
  texts \cup {Missing} \cup (IF "true" \in texts THEN {NoValue} ELSE {})

(***************************************************************************)
(* client/gatekeeper.ts: addresses and masks.                              *)
(***************************************************************************)
DeriveOrganizationPda(name) == name
DeriveRolePda(organization, name) == <<organization, name>>

DeriveKeyId(material) == <<"sha256", material>>

DeriveApiKeyPda(organization, key_id) == <<organization, key_id>>

ASSUME KeyIdAssumption ==
  /\ {"true"} \cup Materials \subseteq STRING
  /\ \A material \in Materials : DeriveKeyId(material) \in KeyIds

\* policy, runtime and checkpoint have the key as seed: ControlPlane keeps
\* each of them under the key's address.
ResolveAddresses(org_name, material) ==
  LET organization == DeriveOrganizationPda(org_name)
      api_key == DeriveApiKeyPda(organization, DeriveKeyId(material))
  IN  [organization |-> organization, api_key |-> api_key,
       quota_policy |-> api_key, quota_runtime |-> api_key,
       audit_checkpoint |-> api_key]

Permissions == [label \in {"metrics:read", "metrics:write", "users:read",
                           "users:write", "admin"} |->
  CASE label = "metrics:read"  -> 0
    [] label = "metrics:write" -> 1
    [] label = "users:read"    -> 2
    [] label = "users:write"   -> 3
    [] label = "admin"         -> 4]

\* --policy is a number, taken as it is, or labels with commas in between.
PolicyText == [number : SUBSET Nat] \cup [labels : SUBSET STRING]

\* maskFromPolicyInput throws at a label it does not know.
KnownPolicy(input) ==
  "labels" \in DOMAIN input => input.labels \subseteq DOMAIN Permissions

MaskFromPolicyInput(input) ==
  IF "number" \in DOMAIN input THEN input.number
  ELSE {Permissions[label] : label \in input.labels}

(***************************************************************************)
(* The commands.  The wallet signs: signer' is whoever runs the command.   *)
(***************************************************************************)
CreateOrg(name, org_authority) ==
  /\ Required(name)
  /\ org_authority # NoValue  \* "true" is no public key
  /\ CreateOrganization(DeriveOrganizationPda(Flag(name)),
       IF org_authority = Missing THEN signer' ELSE org_authority)

CreateRoleCommand(org_name, role_name) ==
  /\ Required(org_name) /\ Required(role_name)
  /\ CreateRole(DeriveOrganizationPda(Flag(org_name)), Flag(role_name))

AttachPolicy(org_name, role_name, policy) ==
  LET organization == DeriveOrganizationPda(Flag(org_name))
  IN  /\ Required(org_name) /\ Required(role_name)
      /\ KnownPolicy(policy)
      /\ AttachPolicyToRole(organization,
           DeriveRolePda(organization, Flag(role_name)),
           MaskFromPolicyInput(policy))

CreateKey(org_name, role_name, material) ==
  LET organization == DeriveOrganizationPda(Flag(org_name))
  IN  /\ Required(org_name) /\ Required(role_name) /\ Required(material)
      /\ CreateApiKey(organization,
           DeriveRolePda(organization, Flag(role_name)),
           DeriveKeyId(Flag(material)))

\* The flags the other commands have in common, as resolveAddresses of
\* scripts/common.ts takes them.
Resolved(org_name, material) ==
  ResolveAddresses(Flag(org_name), Flag(material))

CreateQuota(org_name, material) ==
  LET to == Resolved(org_name, material)
  IN  /\ Required(org_name) /\ Required(material)
      /\ CreateQuotaPolicy(to.organization, to.api_key)

InitRuntime(org_name, material) ==
  LET to == Resolved(org_name, material)
  IN  /\ Required(org_name) /\ Required(material)
      /\ InitializeQuotaRuntime(to.organization, to.api_key, to.quota_policy)

RevokeKey(org_name, material) ==
  LET to == Resolved(org_name, material)
  IN  /\ Required(org_name) /\ Required(material)
      /\ RevokeApiKey(to.organization, to.api_key)

CliNext ==
  /\ signer' \in Principals
  /\ \/ InitializeGateway
     \/ \E name \in Typed(OrgNames),
           org_authority \in Principals \cup {Missing, NoValue} :
          CreateOrg(name, org_authority)
     \/ \E org_name \in Typed(OrgNames) :
          \/ \E role_name \in Typed(RoleNames) :
               \/ CreateRoleCommand(org_name, role_name)
               \/ \E policy \in PolicyInputs :
                    AttachPolicy(org_name, role_name, policy)
               \/ \E material \in Typed(Materials) :
                    CreateKey(org_name, role_name, material)
          \/ \E material \in Typed(Materials) :
               \/ CreateQuota(org_name, material)
               \/ InitRuntime(org_name, material)
               \/ RevokeKey(org_name, material)

\* In a persistent bring-up the tenant's authority runs each of the commands
\* until it is accepted.  Everybody else does as they like.
Tries(command) == signer' \in Principals /\ command

BringUp(name, role_name, material) ==
  /\ WF_cpVars(Tries(CreateRoleCommand(name, role_name)))
  /\ WF_cpVars(Tries(CreateKey(name, role_name, material)))
  /\ WF_cpVars(Tries(CreateQuota(name, material)))
  /\ WF_cpVars(Tries(InitRuntime(name, material)))

CliSpec ==
  /\ Init /\ [][Next \/ CliNext]_cpVars
  /\ \A tenant \in Persistent : BringUp(tenant[1], tenant[2], tenant[3])

(***************************************************************************)
(* The account constraints of the rest of what the CLI sends.              *)
(***************************************************************************)
DelegateAccounts(organization, key, policy, runtime) ==
  /\ organizations[organization].initialized /\ api_keys[key].initialized
  /\ policies[policy].initialized /\ runtimes[runtime].initialized
  /\ runtime = key   \* seeds
  /\ api_keys[key].organization = organization
  /\ policies[policy].organization = organization
  /\ policies[policy].api_key = key
  /\ runtimes[runtime].organization = organization
  /\ runtimes[runtime].api_key = key
  /\ runtimes[runtime].quota_policy = policy

\* commit and commit_and_undelegate
CommitAccounts(organization, key, runtime) ==
  /\ organizations[organization].initialized /\ api_keys[key].initialized
  /\ runtimes[runtime].initialized
  /\ runtime = key   \* seeds
  /\ api_keys[key].organization = organization
  /\ runtimes[runtime].organization = organization
  /\ runtimes[runtime].api_key = key

\* What the commands on a runtime send, accepted or not.
CallEndpoint(to) ==
  ConsumeAccounts(to.organization, api_keys[to.api_key].role, to.api_key,
                  to.quota_policy, to.quota_runtime)

DelegateRuntime(to) ==
  DelegateAccounts(to.organization, to.api_key, to.quota_policy, to.quota_runtime)

CommitRuntime(to) == CommitAccounts(to.organization, to.api_key, to.quota_runtime)

UndelegateRuntime(to) == CommitAccounts(to.organization, to.api_key, to.quota_runtime)

SettleCheckpoint(to) ==
  SettleAccounts(to.organization, to.api_key, to.quota_runtime, to.audit_checkpoint)

(***************************************************************************)
(* Properties.                                                             *)
(***************************************************************************)

\* call-endpoint, delegate-runtime, commit-runtime, undelegate-runtime and
\* settle-checkpoint take a tenant's name and a key's material, call-endpoint
\* the role from the key account.  Whoever created the accounts, in whatever
\* order and with whatever client, that is enough: the addresses derived from
\* the two pass every constraint of every one of the instructions, so that a
\* runtime that exists can be used, sent to a rollup, brought back and settled.
CliReachesEveryRuntime ==
  \A name \in OrgNames, material \in Materials :
    LET to == ResolveAddresses(name, material)
    IN  runtimes[to.quota_runtime].initialized =>
          /\ CallEndpoint(to)
          /\ DelegateRuntime(to)
          /\ CommitRuntime(to)
          /\ UndelegateRuntime(to)
          /\ SettleCheckpoint(to)

\* Nothing that other clients do to a tenant, before, between or after its
\* authority's commands (a key revoked before its runtime exists, a role
\* rewritten, an account created by somebody else first), leaves it stuck
\* half-way: a key whose bring-up is persistent comes to have its runtime.
BringUpCompletes ==
  \A tenant \in Persistent :
    organizations[tenant[1]].initialized
      ~> runtimes[<<tenant[1], DeriveKeyId(tenant[3])>>].initialized
=============================================================================
