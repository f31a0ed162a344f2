----------------------------- MODULE ControlPlane -----------------------------
(***************************************************************************)
(* The accounts of several organizations and the instructions that create, *)
(* bind and revoke them.  An account is stored at its PDA, modelled by the *)
(* seeds it is derived from; the bindings between accounts are the Pubkey  *)
(* fields the handlers write, and an instruction sees of its accounts only *)
(* those fields: a caller may pass any account that exists.                *)
(*                                                                         *)
(* What a request does to a runtime is BaseRuntime's subject; here it is   *)
(* which accounts one request, or one settlement, may combine.             *)
(***************************************************************************)
EXTENDS Integers, FiniteSets

CONSTANTS
  Principals,     \* signers: gateway authority, organization authorities, anyone
  OrgNames, RoleNames, KeyIds,
  MaskInputs,     \* masks an authority may ask for, as in BaseRuntime
  DefaultPubkey,  \* the zeroed Pubkey
  MaxU64

ASSUME PubkeyAssumption ==
  DefaultPubkey \notin Principals \cup OrgNames
ASSUME CountAssumption == MaxU64 \in Nat \ {0}

VARIABLES
  gateway,        \* the one Gateway account
  organizations,  \* at ["organization", gateway, name]
  roles,          \* at ["role", organization, name]
  api_keys,       \* at ["api_key", organization, key_id]
  policies,       \* at ["quota_policy", api_key]
  runtimes,       \* at ["quota_runtime", api_key]
  checkpoints,    \* at ["audit_checkpoint", api_key]
  signer          \* history: who signed the last instruction

cpVars == <<gateway, organizations, roles, api_keys, policies, runtimes,
            checkpoints, signer>>

RoleAddress == OrgNames \X RoleNames
KeyAddress  == OrgNames \X KeyIds

ALL_PERMISSIONS == 0..4

NoOrganization == [initialized |-> FALSE, authority |-> DefaultPubkey,
                   role_count |-> 0, api_key_count |-> 0]
NoRole   == [initialized |-> FALSE, organization |-> DefaultPubkey,
             policy_mask |-> {}]
NoKey    == [initialized |-> FALSE, organization |-> DefaultPubkey,
             role |-> DefaultPubkey, active |-> FALSE]
NoPolicy == [initialized |-> FALSE, organization |-> DefaultPubkey,
             api_key |-> DefaultPubkey]
NoRuntime == [initialized |-> FALSE, organization |-> DefaultPubkey,
              api_key |-> DefaultPubkey, quota_policy |-> DefaultPubkey]

Init ==
  /\ gateway = [initialized |-> FALSE, authority |-> DefaultPubkey,
                organization_count |-> 0]
  /\ organizations = [name \in OrgNames |-> NoOrganization]
  /\ roles = [address \in RoleAddress |-> NoRole]
  /\ api_keys = [address \in KeyAddress |-> NoKey]
  /\ policies = [address \in KeyAddress |-> NoPolicy]
  /\ runtimes = [address \in KeyAddress |-> NoRuntime]
  /\ checkpoints = [address \in KeyAddress |-> NoRuntime]
  /\ signer = DefaultPubkey

\* `init` fails on an existing account; the first caller becomes authority.
InitializeGateway ==
  /\ ~gateway.initialized
  /\ gateway' = [initialized |-> TRUE, authority |-> signer',
                 organization_count |-> 0]
  /\ UNCHANGED <<organizations, roles, api_keys, policies, runtimes, checkpoints>>

CreateOrganization(name, organization_authority) ==
  /\ gateway.initialized
  /\ gateway.authority = signer'
  /\ ~organizations[name].initialized
  /\ gateway.organization_count < MaxU64
  /\ organizations' = [organizations EXCEPT ![name] =
       [initialized |-> TRUE, authority |-> organization_authority,
        role_count |-> 0, api_key_count |-> 0]]
  /\ gateway' = [gateway EXCEPT !.organization_count = @ + 1]
  /\ UNCHANGED <<roles, api_keys, policies, runtimes, checkpoints>>

\* The signer is not compared with the authority.
FaultySignedByAnyone(organization) == organizations[organization].initialized

\* has_one = authority, on every instruction an organization is in charge of.
SignedFor(organization) ==
  /\ organizations[organization].initialized
  /\ organizations[organization].authority = signer'

\* A role that exists may be created again.
FaultyCreateRoleAgain(organization, name) ==
  LET role == <<organization, name>>
  IN  /\ SignedFor(organization)
      /\ organizations[organization].role_count < MaxU64
      /\ roles' = [roles EXCEPT ![role] =
           [initialized |-> TRUE, organization |-> organization,
            policy_mask |-> {}]]
      /\ organizations' = [organizations EXCEPT ![organization].role_count = @ + 1]
      /\ UNCHANGED <<gateway, api_keys, policies, runtimes, checkpoints>>

CreateRole(organization, name) ==
  LET role == <<organization, name>>
  IN  /\ SignedFor(organization)
      /\ ~roles[role].initialized
      /\ organizations[organization].role_count < MaxU64
      /\ roles' = [roles EXCEPT ![role] =
           [initialized |-> TRUE, organization |-> organization,
            policy_mask |-> {}]]
      /\ organizations' = [organizations EXCEPT ![organization].role_count = @ + 1]
      /\ UNCHANGED <<gateway, api_keys, policies, runtimes, checkpoints>>

\* The mask is not validated.
FaultyAttachAnyMask(organization, role, mask) ==
  /\ SignedFor(organization)
  /\ roles[role].initialized
  /\ roles[role].organization = organization
  /\ roles' = [roles EXCEPT ![role].policy_mask = mask]
  /\ UNCHANGED <<gateway, organizations, api_keys, policies, runtimes, checkpoints>>

AttachPolicyToRole(organization, role, mask) ==
  /\ SignedFor(organization)
  /\ roles[role].initialized
  /\ roles[role].organization = organization
  /\ mask \subseteq ALL_PERMISSIONS
  /\ roles' = [roles EXCEPT ![role].policy_mask = mask]
  /\ UNCHANGED <<gateway, organizations, api_keys, policies, runtimes, checkpoints>>

\* The key may be given another organization's role.
FaultyKeyForeignRole(organization, role, key_id) ==
  LET key == <<organization, key_id>>
  IN  /\ SignedFor(organization)
      /\ roles[role].initialized
      /\ ~api_keys[key].initialized
      /\ organizations[organization].api_key_count < MaxU64
      /\ api_keys' = [api_keys EXCEPT ![key] =
           [initialized |-> TRUE, organization |-> organization,
            role |-> role, active |-> TRUE]]
      /\ organizations' =
           [organizations EXCEPT ![organization].api_key_count = @ + 1]
      /\ UNCHANGED <<gateway, roles, policies, runtimes, checkpoints>>

\* A key that exists may be created again.
FaultyKeyReborn(organization, role, key_id) ==
  LET key == <<organization, key_id>>
  IN  /\ SignedFor(organization)
      /\ roles[role].initialized
      /\ roles[role].organization = organization
      /\ organizations[organization].api_key_count < MaxU64
      /\ api_keys' = [api_keys EXCEPT ![key] =
           [initialized |-> TRUE, organization |-> organization,
            role |-> role, active |-> TRUE]]
      /\ organizations' =
           [organizations EXCEPT ![organization].api_key_count = @ + 1]
      /\ UNCHANGED <<gateway, roles, policies, runtimes, checkpoints>>

CreateApiKey(organization, role, key_id) ==
  LET key == <<organization, key_id>>
  IN  /\ SignedFor(organization)
      /\ roles[role].initialized
      /\ roles[role].organization = organization
      /\ ~api_keys[key].initialized
      /\ organizations[organization].api_key_count < MaxU64
      /\ api_keys' = [api_keys EXCEPT ![key] =
           [initialized |-> TRUE, organization |-> organization,
            role |-> role, active |-> TRUE]]
      /\ organizations' =
           [organizations EXCEPT ![organization].api_key_count = @ + 1]
      /\ UNCHANGED <<gateway, roles, policies, runtimes, checkpoints>>

RevokeApiKey(organization, key) ==
  /\ SignedFor(organization)
  /\ api_keys[key].initialized
  /\ api_keys[key].organization = organization
  /\ api_keys[key].active
  /\ api_keys' = [api_keys EXCEPT ![key].active = FALSE]
  /\ UNCHANGED <<gateway, organizations, roles, policies, runtimes, checkpoints>>

CreateQuotaPolicy(organization, key) ==
  /\ SignedFor(organization)
  /\ api_keys[key].initialized
  /\ api_keys[key].organization = organization
  /\ policies' = [policies EXCEPT ![key] =
       [initialized |-> TRUE, organization |-> organization, api_key |-> key]]
  /\ UNCHANGED <<gateway, organizations, roles, api_keys, runtimes, checkpoints>>

\* The policy may be that of another key of the organization.
FaultyInitializeForeignPolicy(organization, key, policy) ==
  LET fresh == [initialized |-> TRUE, organization |-> organization,
                api_key |-> key, quota_policy |-> policy]
  IN  /\ SignedFor(organization)
      /\ api_keys[key].initialized
      /\ api_keys[key].organization = organization
      /\ policies[policy].initialized
      /\ policies[policy].organization = organization
      /\ ~runtimes[key].initialized
      /\ runtimes' = [runtimes EXCEPT ![key] = fresh]
      /\ checkpoints' = IF checkpoints[key].initialized THEN checkpoints
                        ELSE [checkpoints EXCEPT ![key] = fresh]
      /\ UNCHANGED <<gateway, organizations, roles, api_keys, policies>>

\* The key must not have been revoked.
FaultyInitializeActive(organization, key, policy) ==
  LET fresh == [initialized |-> TRUE, organization |-> organization,
                api_key |-> key, quota_policy |-> policy]
  IN  /\ SignedFor(organization)
      /\ api_keys[key].active
      /\ api_keys[key].organization = organization
      /\ policies[policy].initialized
      /\ policies[policy].organization = organization
      /\ policies[policy].api_key = key
      /\ ~runtimes[key].initialized
      /\ runtimes' = [runtimes EXCEPT ![key] = fresh]
      /\ checkpoints' = IF checkpoints[key].initialized THEN checkpoints
                        ELSE [checkpoints EXCEPT ![key] = fresh]
      /\ UNCHANGED <<gateway, organizations, roles, api_keys, policies>>

\* The policy account is not pinned by seeds here: it is any one that exists
\* and names the organization and the key.
InitializeQuotaRuntime(organization, key, policy) ==
  LET fresh == [initialized |-> TRUE, organization |-> organization,
                api_key |-> key, quota_policy |-> policy]
  IN  /\ SignedFor(organization)
      /\ api_keys[key].initialized
      /\ api_keys[key].organization = organization
      /\ policies[policy].initialized
      /\ policies[policy].organization = organization
      /\ policies[policy].api_key = key
      /\ ~runtimes[key].initialized
      /\ runtimes' = [runtimes EXCEPT ![key] = fresh]
      /\ checkpoints' = IF checkpoints[key].initialized THEN checkpoints
                        ELSE [checkpoints EXCEPT ![key] = fresh]
      /\ UNCHANGED <<gateway, organizations, roles, api_keys, policies>>

Next ==
  /\ signer' \in Principals
  /\ \/ InitializeGateway
     \/ \E name \in OrgNames, authority \in Principals :
          CreateOrganization(name, authority)
     \/ \E organization \in OrgNames :
          \/ \E name \in RoleNames : CreateRole(organization, name)
          \/ \E role \in RoleAddress, mask \in MaskInputs :
               AttachPolicyToRole(organization, role, mask)
          \/ \E role \in RoleAddress, key_id \in KeyIds :
               CreateApiKey(organization, role, key_id)
          \/ \E key \in KeyAddress :
               \/ RevokeApiKey(organization, key)
               \/ CreateQuotaPolicy(organization, key)
               \/ \E policy \in KeyAddress :
                    InitializeQuotaRuntime(organization, key, policy)

Spec == Init /\ [][Next]_cpVars

(***************************************************************************)
(* The account constraints of the two instructions that touch a runtime on *)
(* base and are not pinned by seeds throughout.                            *)
(***************************************************************************)
ConsumeAccounts(organization, role, key, policy, runtime) ==
  /\ organizations[organization].initialized /\ roles[role].initialized
  /\ api_keys[key].initialized /\ policies[policy].initialized
  /\ runtimes[runtime].initialized
  /\ roles[role].organization = organization
  /\ api_keys[key].organization = organization
  /\ api_keys[key].role = role
  /\ policies[policy].organization = organization
  /\ policies[policy].api_key = key
  /\ runtimes[runtime].organization = organization
  /\ runtimes[runtime].api_key = key
  /\ runtimes[runtime].quota_policy = policy

SettleAccounts(organization, key, runtime, checkpoint) ==
  /\ organizations[organization].initialized /\ api_keys[key].initialized
  /\ runtime = key /\ checkpoint = key   \* seeds
  /\ runtimes[runtime].initialized /\ checkpoints[checkpoint].initialized
  /\ api_keys[key].organization = organization
  /\ runtimes[runtime].organization = organization
  /\ runtimes[runtime].api_key = key
  /\ checkpoints[checkpoint].organization = organization
  /\ checkpoints[checkpoint].api_key = key
  /\ checkpoints[checkpoint].quota_policy = runtimes[runtime].quota_policy

(***************************************************************************)
(* Properties.                                                             *)
(***************************************************************************)
TypeOK ==
  /\ gateway \in [initialized : BOOLEAN, organization_count : 0..MaxU64,
                  authority : Principals \cup {DefaultPubkey}]
  /\ organizations \in [OrgNames ->
       [initialized : BOOLEAN, authority : Principals \cup {DefaultPubkey},
        role_count : 0..MaxU64, api_key_count : 0..MaxU64]]
  /\ roles \in [RoleAddress ->
       [initialized : BOOLEAN, organization : OrgNames \cup {DefaultPubkey},
        policy_mask : SUBSET ALL_PERMISSIONS]]
  /\ api_keys \in [KeyAddress ->
       [initialized : BOOLEAN, organization : OrgNames \cup {DefaultPubkey},
        role : RoleAddress \cup {DefaultPubkey}, active : BOOLEAN]]
  /\ policies \in [KeyAddress ->
       [initialized : BOOLEAN, organization : OrgNames \cup {DefaultPubkey},
        api_key : KeyAddress \cup {DefaultPubkey}]]
  /\ \A accounts \in {runtimes, checkpoints} : accounts \in [KeyAddress ->
       [initialized : BOOLEAN, organization : OrgNames \cup {DefaultPubkey},
        api_key : KeyAddress \cup {DefaultPubkey},
        quota_policy : KeyAddress \cup {DefaultPubkey}]]
  /\ signer \in Principals \cup {DefaultPubkey}

\* Every counter of the gateway and of an organization is the number of
\* accounts created under it: a create that hits an existing account counts
\* nothing.
CountsMatchAccounts ==
  /\ gateway.organization_count =
       Cardinality({name \in OrgNames : organizations[name].initialized})
  /\ \A name \in OrgNames :
       /\ organizations[name].role_count =
            Cardinality({role \in RoleAddress :
              roles[role].initialized /\ roles[role].organization = name})
       /\ organizations[name].api_key_count =
            Cardinality({key \in KeyAddress :
              api_keys[key].initialized /\ api_keys[key].organization = name})

\* Whatever accounts a caller combines, consume_request accepts exactly one
\* tuple per runtime, the key's own: a request cannot borrow another tenant's
\* role, key or quota, nor another key's of the same tenant, and no sequence of
\* instructions leaves a runtime that no request can reach.
OneTuplePerRuntime ==
  \A runtime \in KeyAddress : runtimes[runtime].initialized =>
    /\ api_keys[runtime].role \in RoleAddress
    /\ \A organization \in OrgNames, role \in RoleAddress,
          key \in KeyAddress, policy \in KeyAddress :
         ConsumeAccounts(organization, role, key, policy, runtime) <=>
           /\ organization = runtime[1] /\ role = api_keys[runtime].role
           /\ key = runtime /\ policy = runtime

TenantOf(name) ==
  <<organizations[name],
    [role \in {r \in RoleAddress : r[1] = name} |-> roles[role]],
    [key \in {k \in KeyAddress : k[1] = name} |->
       <<api_keys[key], policies[key], runtimes[key], checkpoints[key]>>]>>

\* An organization's accounts change by its own authority's signature, or once,
\* by the gateway authority's, when it is created.
OnlyAuthorityChangesTenant ==
  [][\A name \in OrgNames : TenantOf(name)' # TenantOf(name) =>
       signer' = IF organizations[name].initialized
                 THEN organizations[name].authority
                 ELSE gateway.authority]_cpVars

\* A key is bound to its role once: no later instruction, a second create of
\* the same key_id included, rebinds it or revives it once revoked.
KeyBindingPermanent ==
  [][\A key \in KeyAddress : api_keys[key].initialized =>
       /\ api_keys'[key].role = api_keys[key].role
       /\ api_keys'[key].organization = api_keys[key].organization
       /\ ~api_keys[key].active => ~api_keys'[key].active]_cpVars
=============================================================================
