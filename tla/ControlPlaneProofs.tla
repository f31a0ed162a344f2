-------------------------- MODULE ControlPlaneProofs --------------------------
(***************************************************************************)
(* The control plane for any number of tenants, roles, keys and signers,   *)
(* with the CLI's commands among its clients.                              *)
(***************************************************************************)
EXTENDS CliControl, FiniteSetTheorems, TLAPS

\* Each account's Pubkey fields name what its seeds are derived from, and what
\* they name exists.  A checkpoint is bound as its runtime is.
RolesBound ==
  \A role \in RoleAddress : roles[role].initialized =>
    /\ roles[role].organization = role[1]
    /\ organizations[role[1]].initialized

KeysBound ==
  \A key \in KeyAddress : api_keys[key].initialized =>
    /\ api_keys[key].organization = key[1]
    /\ api_keys[key].role \in RoleAddress
    /\ roles[api_keys[key].role].initialized
    /\ roles[api_keys[key].role].organization = key[1]

PoliciesBound ==
  \A key \in KeyAddress : policies[key].initialized =>
    /\ policies[key].organization = key[1]
    /\ policies[key].api_key = key
    /\ api_keys[key].initialized

RuntimesBound ==
  /\ checkpoints = runtimes
  /\ \A key \in KeyAddress : runtimes[key].initialized =>
       /\ runtimes[key].organization = key[1]
       /\ runtimes[key].api_key = key
       /\ runtimes[key].quota_policy = key
       /\ policies[key].initialized

Bound == RolesBound /\ KeysBound /\ PoliciesBound /\ RuntimesBound

\* The inductive invariant, but for the counters.
CpInv == TypeOK /\ Bound

\* One instruction of any client: the CLI's masks need not be among MaskInputs.
Instruction ==
  /\ signer' \in Principals
  /\ \/ InitializeGateway
     \/ \E name \in OrgNames, authority \in Principals :
          CreateOrganization(name, authority)
     \/ \E organization \in OrgNames, name \in RoleNames :
          CreateRole(organization, name)
     \/ \E organization \in OrgNames, role \in RoleAddress : \E mask :
          AttachPolicyToRole(organization, role, mask)
     \/ \E organization \in OrgNames, role \in RoleAddress, key_id \in KeyIds :
          CreateApiKey(organization, role, key_id)
     \/ \E organization \in OrgNames, key \in KeyAddress :
          RevokeApiKey(organization, key)
     \/ \E organization \in OrgNames, key \in KeyAddress :
          CreateQuotaPolicy(organization, key)
     \/ \E organization \in OrgNames, key \in KeyAddress, policy \in KeyAddress :
          InitializeQuotaRuntime(organization, key, policy)

LEMMA Addresses ==
  /\ \A organization \in OrgNames, name \in RoleNames :
       /\ <<organization, name>> \in RoleAddress
       /\ <<organization, name>>[1] = organization
  /\ \A organization \in OrgNames, key_id \in KeyIds :
       /\ <<organization, key_id>> \in KeyAddress
       /\ <<organization, key_id>>[1] = organization
  /\ \A role \in RoleAddress : role[1] \in OrgNames
  /\ \A key \in KeyAddress : key[1] \in OrgNames
  BY DEF RoleAddress, KeyAddress

\* What is typed and accepted by requireFlag is one of the names.
LEMMA FlagIsName ==
  ASSUME NEW texts, {Missing, NoValue} \cap texts = {},
         NEW typed \in Typed(texts), Required(typed)
  PROVE  Flag(typed) \in texts
<1>1. CASE typed \in texts
  BY <1>1 DEF Flag
<1>2. CASE typed = NoValue
  BY <1>2 DEF Typed, Flag, Missing, NoValue
<1> QED
  BY <1>1, <1>2 DEF Typed, Required, Missing, NoValue

LEMMA NextIsInstruction == Next => Instruction
  BY DEF Next, Instruction

LEMMA CliNextIsInstruction == CliNext => Instruction
<1> SUFFICES ASSUME CliNext PROVE Instruction
  OBVIOUS
<1>s. signer' \in Principals
  BY DEF CliNext
<1>o. \A name \in Typed(OrgNames) : Required(name) => Flag(name) \in OrgNames
  BY TypedAssumption, FlagIsName
<1>r. \A name \in Typed(RoleNames) : Required(name) => Flag(name) \in RoleNames
  BY TypedAssumption, FlagIsName
<1>m. \A material \in Typed(Materials) :
        Required(material) => DeriveKeyId(Flag(material)) \in KeyIds
  BY TypedAssumption, FlagIsName, KeyIdAssumption
<1>a. \A org_name \in Typed(OrgNames), material \in Typed(Materials) :
        Required(org_name) /\ Required(material) =>
          LET to == Resolved(org_name, material)
          IN  /\ to.organization \in OrgNames
              /\ to.api_key \in KeyAddress /\ to.quota_policy = to.api_key
  BY <1>o, <1>m, Addresses
  DEF Resolved, ResolveAddresses, DeriveOrganizationPda, DeriveApiKeyPda
<1>1. CASE InitializeGateway
  BY <1>1, <1>s DEF Instruction
<1>2. ASSUME NEW name \in Typed(OrgNames),
             NEW org_authority \in Principals \cup {Missing, NoValue},
             CreateOrg(name, org_authority)
      PROVE  Instruction
  <2> DEFINE authority == IF org_authority = Missing THEN signer' ELSE org_authority
  <2>1. CreateOrganization(Flag(name), authority) /\ Required(name)
    BY <1>2 DEF CreateOrg, DeriveOrganizationPda
  <2>2. authority \in Principals
    BY <1>2, <1>s DEF CreateOrg
  <2> HIDE DEF authority
  <2> QED
    BY <1>s, <1>o, <2>1, <2>2 DEF Instruction
<1>3. ASSUME NEW org_name \in Typed(OrgNames), NEW role_name \in Typed(RoleNames),
             CreateRoleCommand(org_name, role_name)
      PROVE  Instruction
  BY <1>3, <1>s, <1>o, <1>r
  DEF CreateRoleCommand, DeriveOrganizationPda, Instruction
<1>4. ASSUME NEW org_name \in Typed(OrgNames), NEW role_name \in Typed(RoleNames),
             NEW policy \in PolicyInputs, AttachPolicy(org_name, role_name, policy)
      PROVE  Instruction
  <2> DEFINE mask == MaskFromPolicyInput(policy)
  <2>1. /\ AttachPolicyToRole(Flag(org_name), <<Flag(org_name), Flag(role_name)>>, mask)
        /\ Flag(org_name) \in OrgNames
        /\ <<Flag(org_name), Flag(role_name)>> \in RoleAddress
    BY <1>4, <1>o, <1>r, Addresses
    DEF AttachPolicy, DeriveOrganizationPda, DeriveRolePda
  <2> HIDE DEF mask
  <2> QED
    BY <1>s, <2>1 DEF Instruction
<1>5. ASSUME NEW org_name \in Typed(OrgNames), NEW role_name \in Typed(RoleNames),
             NEW material \in Typed(Materials),
             CreateKey(org_name, role_name, material)
      PROVE  Instruction
  BY <1>5, <1>s, <1>o, <1>r, <1>m, Addresses
  DEF CreateKey, DeriveOrganizationPda, DeriveRolePda, Instruction
<1>6. ASSUME NEW org_name \in Typed(OrgNames), NEW material \in Typed(Materials),
             \/ CreateQuota(org_name, material)
             \/ InitRuntime(org_name, material)
             \/ RevokeKey(org_name, material)
      PROVE  Instruction
  BY <1>6, <1>s, <1>a DEF CreateQuota, InitRuntime, RevokeKey, Instruction
<1> QED
  BY <1>1, <1>2, <1>3, <1>4, <1>5, <1>6 DEF CliNext

(***************************************************************************)
(* The invariant, action by action.                                        *)
(***************************************************************************)
LEMMA InitBound == Init => CpInv
<1> SUFFICES ASSUME Init PROVE CpInv
  OBVIOUS
<1>1. 0 \in 0..MaxU64
  BY CountAssumption
<1>2. TypeOK
  BY <1>1 DEF Init, TypeOK, NoOrganization, NoRole, NoKey, NoPolicy, NoRuntime,
              ALL_PERMISSIONS
<1>3. Bound
  BY DEF Init, Bound, RolesBound, KeysBound, PoliciesBound, RuntimesBound,
         NoRole, NoKey, NoPolicy, NoRuntime
<1> QED
  BY <1>2, <1>3 DEF CpInv

\* The parts of TypeOK by name.
Organization == [initialized : BOOLEAN, authority : Principals \cup {DefaultPubkey},
                 role_count : 0..MaxU64, api_key_count : 0..MaxU64]
Role == [initialized : BOOLEAN, organization : OrgNames \cup {DefaultPubkey},
         policy_mask : SUBSET ALL_PERMISSIONS]
Key == [initialized : BOOLEAN, organization : OrgNames \cup {DefaultPubkey},
        role : RoleAddress \cup {DefaultPubkey}, active : BOOLEAN]
Policy == [initialized : BOOLEAN, organization : OrgNames \cup {DefaultPubkey},
           api_key : KeyAddress \cup {DefaultPubkey}]
Runtime == [initialized : BOOLEAN, organization : OrgNames \cup {DefaultPubkey},
            api_key : KeyAddress \cup {DefaultPubkey},
            quota_policy : KeyAddress \cup {DefaultPubkey}]

Gateway == [initialized : BOOLEAN, organization_count : 0..MaxU64,
            authority : Principals \cup {DefaultPubkey}]

AccountsTyped ==
  /\ gateway \in Gateway
  /\ organizations \in [OrgNames -> Organization]
  /\ roles \in [RoleAddress -> Role]
  /\ api_keys \in [KeyAddress -> Key]
  /\ policies \in [KeyAddress -> Policy]
  /\ runtimes \in [KeyAddress -> Runtime]
  /\ checkpoints \in [KeyAddress -> Runtime]
  /\ signer \in Principals \cup {DefaultPubkey}

LEMMA Types == (TypeOK <=> AccountsTyped) /\ (TypeOK' <=> AccountsTyped')
  BY DEF TypeOK, AccountsTyped, Gateway, Organization, Role, Key, Policy, Runtime

LEMMA InitializeGatewayStep ==
  ASSUME CpInv, signer' \in Principals, InitializeGateway
  PROVE  CpInv'
<1>1. /\ gateway' = [initialized |-> TRUE, authority |-> signer',
                     organization_count |-> 0]
      /\ UNCHANGED <<organizations, roles, api_keys, policies, runtimes, checkpoints>>
  BY DEF InitializeGateway
<1>2. TypeOK'
  BY <1>1, CountAssumption, Types DEF CpInv, AccountsTyped, Gateway
<1> QED
  BY <1>1, <1>2
  DEF CpInv, Bound, RolesBound, KeysBound, PoliciesBound, RuntimesBound

LEMMA CreateOrganizationStep ==
  ASSUME CpInv, signer' \in Principals, NEW name \in OrgNames,
         NEW authority \in Principals, CreateOrganization(name, authority)
  PROVE  CpInv'
<1> DEFINE organization == [initialized |-> TRUE, authority |-> authority,
                            role_count |-> 0, api_key_count |-> 0]
<1>1. /\ gateway.organization_count < MaxU64
      /\ gateway' = [gateway EXCEPT !.organization_count = @ + 1]
      /\ organizations' = [organizations EXCEPT ![name] = organization]
      /\ UNCHANGED <<roles, api_keys, policies, runtimes, checkpoints>>
  BY DEF CreateOrganization
<1>2. organization \in Organization /\ organization.initialized
  BY CountAssumption DEF Organization
<1> HIDE DEF organization
<1>t. AccountsTyped
  BY Types DEF CpInv
<1>3. gateway' \in Gateway
  BY <1>1, <1>t, CountAssumption DEF AccountsTyped, Gateway
<1>4. organizations' \in [OrgNames -> Organization]
  BY <1>1, <1>2, <1>t DEF AccountsTyped
<1>5. TypeOK'
  BY <1>1, <1>3, <1>4, <1>t, Types DEF AccountsTyped
<1>6. \A other \in OrgNames :
        organizations[other].initialized => organizations'[other].initialized
  BY <1>1, <1>2, <1>t DEF AccountsTyped
<1>7. RolesBound'
  BY <1>1, <1>6, Addresses DEF CpInv, Bound, RolesBound
<1> QED
  BY <1>1, <1>5, <1>7
  DEF CpInv, Bound, KeysBound, PoliciesBound, RuntimesBound

LEMMA CreateRoleStep ==
  ASSUME CpInv, signer' \in Principals, NEW organization \in OrgNames,
         NEW name \in RoleNames, CreateRole(organization, name)
  PROVE  CpInv'
<1> DEFINE role == <<organization, name>>
           fresh == [initialized |-> TRUE, organization |-> organization,
                     policy_mask |-> {}]
<1>1. /\ organizations[organization].initialized
      /\ ~roles[role].initialized
      /\ organizations[organization].role_count < MaxU64
      /\ roles' = [roles EXCEPT ![role] = fresh]
      /\ organizations' = [organizations EXCEPT ![organization].role_count = @ + 1]
      /\ UNCHANGED <<gateway, api_keys, policies, runtimes, checkpoints>>
  BY DEF CreateRole, SignedFor
<1>2. /\ fresh \in Role /\ fresh.initialized
      /\ fresh.organization = role[1] /\ role \in RoleAddress
      /\ role[1] = organization
  BY Addresses DEF Role
<1> HIDE DEF fresh, role
<1>t. AccountsTyped
  BY Types DEF CpInv
<1>3. /\ organizations' \in [OrgNames -> Organization]
      /\ \A other \in OrgNames :
           organizations[other].initialized => organizations'[other].initialized
  BY <1>1, <1>t, CountAssumption DEF AccountsTyped, Organization
<1>4. roles' \in [RoleAddress -> Role]
  BY <1>1, <1>2, <1>t DEF AccountsTyped
<1>5. TypeOK'
  BY <1>1, <1>3, <1>4, <1>t, Types DEF AccountsTyped
<1>6. RolesBound'
  BY <1>1, <1>2, <1>3, <1>t, Addresses DEF CpInv, Bound, RolesBound, AccountsTyped
<1>7. KeysBound'
  BY <1>1, <1>t DEF CpInv, Bound, KeysBound, AccountsTyped
<1> QED
  BY <1>1, <1>5, <1>6, <1>7 DEF CpInv, Bound, PoliciesBound, RuntimesBound

LEMMA AttachPolicyToRoleStep ==
  ASSUME CpInv, signer' \in Principals, NEW organization \in OrgNames,
         NEW role \in RoleAddress, NEW mask,
         AttachPolicyToRole(organization, role, mask)
  PROVE  CpInv'
<1>1. /\ mask \subseteq ALL_PERMISSIONS
      /\ roles' = [roles EXCEPT ![role].policy_mask = mask]
      /\ UNCHANGED <<gateway, organizations, api_keys, policies, runtimes, checkpoints>>
  BY DEF AttachPolicyToRole
<1>t. AccountsTyped
  BY Types DEF CpInv
<1>2. /\ roles' \in [RoleAddress -> Role]
      /\ \A other \in RoleAddress :
           /\ roles'[other].initialized = roles[other].initialized
           /\ roles'[other].organization = roles[other].organization
  BY <1>1, <1>t DEF AccountsTyped, Role
<1>3. TypeOK'
  BY <1>1, <1>2, <1>t, Types DEF AccountsTyped
<1>4. RolesBound' /\ KeysBound'
  BY <1>1, <1>2 DEF CpInv, Bound, RolesBound, KeysBound
<1> QED
  BY <1>1, <1>3, <1>4 DEF CpInv, Bound, PoliciesBound, RuntimesBound

LEMMA CreateApiKeyStep ==
  ASSUME CpInv, signer' \in Principals, NEW organization \in OrgNames,
         NEW role \in RoleAddress, NEW key_id \in KeyIds,
         CreateApiKey(organization, role, key_id)
  PROVE  CpInv'
<1> DEFINE key == <<organization, key_id>>
           fresh == [initialized |-> TRUE, organization |-> organization,
                     role |-> role, active |-> TRUE]
<1>1. /\ roles[role].initialized
      /\ roles[role].organization = organization
      /\ ~api_keys[key].initialized
      /\ organizations[organization].api_key_count < MaxU64
      /\ api_keys' = [api_keys EXCEPT ![key] = fresh]
      /\ organizations' =
           [organizations EXCEPT ![organization].api_key_count = @ + 1]
      /\ UNCHANGED <<gateway, roles, policies, runtimes, checkpoints>>
  BY DEF CreateApiKey
<1>2. /\ fresh \in Key /\ fresh.initialized /\ fresh.role = role
      /\ fresh.organization = organization /\ key \in KeyAddress
      /\ key[1] = organization
  BY Addresses DEF Key
<1> HIDE DEF fresh, key
<1>t. AccountsTyped
  BY Types DEF CpInv
<1>3. /\ organizations' \in [OrgNames -> Organization]
      /\ \A other \in OrgNames :
           organizations[other].initialized => organizations'[other].initialized
  BY <1>1, <1>t, CountAssumption DEF AccountsTyped, Organization
<1>4. api_keys' \in [KeyAddress -> Key]
  BY <1>1, <1>2, <1>t DEF AccountsTyped
<1>5. TypeOK'
  BY <1>1, <1>3, <1>4, <1>t, Types DEF AccountsTyped
<1>6. RolesBound'
  BY <1>1, <1>3, Addresses DEF CpInv, Bound, RolesBound
<1>7. KeysBound'
  BY <1>1, <1>2, <1>t DEF CpInv, Bound, KeysBound, AccountsTyped
<1>8. PoliciesBound'
  BY <1>1, <1>2, <1>t DEF CpInv, Bound, PoliciesBound, AccountsTyped
<1> QED
  BY <1>1, <1>5, <1>6, <1>7, <1>8 DEF CpInv, Bound, RuntimesBound

LEMMA RevokeApiKeyStep ==
  ASSUME CpInv, signer' \in Principals, NEW organization \in OrgNames,
         NEW key \in KeyAddress, RevokeApiKey(organization, key)
  PROVE  CpInv'
<1>1. /\ api_keys' = [api_keys EXCEPT ![key].active = FALSE]
      /\ UNCHANGED <<gateway, organizations, roles, policies, runtimes, checkpoints>>
  BY DEF RevokeApiKey
<1>t. AccountsTyped
  BY Types DEF CpInv
<1>2. /\ api_keys' \in [KeyAddress -> Key]
      /\ \A other \in KeyAddress :
           /\ api_keys'[other].initialized = api_keys[other].initialized
           /\ api_keys'[other].organization = api_keys[other].organization
           /\ api_keys'[other].role = api_keys[other].role
  BY <1>1, <1>t DEF AccountsTyped, Key
<1>3. TypeOK'
  BY <1>1, <1>2, <1>t, Types DEF AccountsTyped
<1>4. KeysBound' /\ PoliciesBound'
  BY <1>1, <1>2 DEF CpInv, Bound, KeysBound, PoliciesBound
<1> QED
  BY <1>1, <1>3, <1>4 DEF CpInv, Bound, RolesBound, RuntimesBound

LEMMA CreateQuotaPolicyStep ==
  ASSUME CpInv, signer' \in Principals, NEW organization \in OrgNames,
         NEW key \in KeyAddress, CreateQuotaPolicy(organization, key)
  PROVE  CpInv'
<1> DEFINE fresh == [initialized |-> TRUE, organization |-> organization,
                     api_key |-> key]
<1>1. /\ api_keys[key].initialized
      /\ api_keys[key].organization = organization
      /\ policies' = [policies EXCEPT ![key] = fresh]
      /\ UNCHANGED <<gateway, organizations, roles, api_keys, runtimes, checkpoints>>
  BY DEF CreateQuotaPolicy
<1>2. /\ fresh \in Policy /\ fresh.initialized /\ fresh.api_key = key
      /\ fresh.organization = organization /\ key[1] = organization
  BY <1>1 DEF Policy, CpInv, Bound, KeysBound
<1> HIDE DEF fresh
<1>t. AccountsTyped
  BY Types DEF CpInv
<1>3. policies' \in [KeyAddress -> Policy]
  BY <1>1, <1>2, <1>t DEF AccountsTyped
<1>4. TypeOK'
  BY <1>1, <1>3, <1>t, Types DEF AccountsTyped
<1>5. PoliciesBound'
  BY <1>1, <1>2, <1>t DEF CpInv, Bound, PoliciesBound, AccountsTyped
<1>6. RuntimesBound'
  BY <1>1, <1>2, <1>t DEF CpInv, Bound, RuntimesBound, AccountsTyped
<1> QED
  BY <1>1, <1>4, <1>5, <1>6 DEF CpInv, Bound, RolesBound, KeysBound

LEMMA InitializeQuotaRuntimeStep ==
  ASSUME CpInv, signer' \in Principals, NEW organization \in OrgNames,
         NEW key \in KeyAddress, NEW policy \in KeyAddress,
         InitializeQuotaRuntime(organization, key, policy)
  PROVE  CpInv'
<1> DEFINE fresh == [initialized |-> TRUE, organization |-> organization,
                     api_key |-> key, quota_policy |-> policy]
<1>1. /\ api_keys[key].initialized
      /\ api_keys[key].organization = organization
      /\ policies[policy].initialized
      /\ policies[policy].api_key = key
      /\ ~runtimes[key].initialized
      /\ runtimes' = [runtimes EXCEPT ![key] = fresh]
      /\ checkpoints' = IF checkpoints[key].initialized THEN checkpoints
                        ELSE [checkpoints EXCEPT ![key] = fresh]
      /\ UNCHANGED <<gateway, organizations, roles, api_keys, policies>>
  BY DEF InitializeQuotaRuntime
<1>2. /\ fresh \in Runtime /\ fresh.initialized /\ fresh.api_key = key
      /\ fresh.organization = organization /\ fresh.quota_policy = policy
  BY DEF Runtime
<1>3. key[1] = organization /\ policy = key
  BY <1>1 DEF CpInv, Bound, KeysBound, PoliciesBound
<1> HIDE DEF fresh
<1>4. checkpoints' = runtimes'
  BY <1>1 DEF CpInv, Bound, RuntimesBound
<1>t. AccountsTyped
  BY Types DEF CpInv
<1>5. runtimes' \in [KeyAddress -> Runtime]
  BY <1>1, <1>2, <1>t DEF AccountsTyped
<1>6. TypeOK'
  BY <1>1, <1>4, <1>5, <1>t, Types DEF AccountsTyped
<1>7. RuntimesBound'
  BY <1>1, <1>2, <1>3, <1>4, <1>t DEF CpInv, Bound, RuntimesBound, AccountsTyped
<1> QED
  BY <1>1, <1>6, <1>7 DEF CpInv, Bound, RolesBound, KeysBound, PoliciesBound

LEMMA InstructionStep == CpInv /\ [Instruction]_cpVars => CpInv'
<1> SUFFICES ASSUME CpInv, [Instruction]_cpVars PROVE CpInv'
  OBVIOUS
<1>1. CASE UNCHANGED cpVars
  BY <1>1
  DEF cpVars, CpInv, TypeOK, Bound, RolesBound, KeysBound, PoliciesBound,
      RuntimesBound
<1>2. CASE Instruction
  BY <1>2, InitializeGatewayStep, CreateOrganizationStep, CreateRoleStep,
     AttachPolicyToRoleStep, CreateApiKeyStep, RevokeApiKeyStep,
     CreateQuotaPolicyStep, InitializeQuotaRuntimeStep
  DEF Instruction
<1> QED
  BY <1>1, <1>2

(***************************************************************************)
(* What follows from the invariant, and from an instruction under it.      *)
(***************************************************************************)
LEMMA BoundGivesOneTuple == CpInv => OneTuplePerRuntime
<1> SUFFICES ASSUME CpInv, NEW runtime \in KeyAddress,
                    runtimes[runtime].initialized
             PROVE  /\ api_keys[runtime].role \in RoleAddress
                    /\ \A organization \in OrgNames, role \in RoleAddress,
                          key \in KeyAddress, policy \in KeyAddress :
                         ConsumeAccounts(organization, role, key, policy, runtime) <=>
                           /\ organization = runtime[1]
                           /\ role = api_keys[runtime].role
                           /\ key = runtime /\ policy = runtime
  BY DEF OneTuplePerRuntime
<1>1. /\ runtimes[runtime].organization = runtime[1]
      /\ runtimes[runtime].api_key = runtime
      /\ runtimes[runtime].quota_policy = runtime
      /\ policies[runtime].initialized
      /\ policies[runtime].organization = runtime[1]
      /\ policies[runtime].api_key = runtime
      /\ api_keys[runtime].initialized
      /\ api_keys[runtime].organization = runtime[1]
      /\ api_keys[runtime].role \in RoleAddress
  BY DEF CpInv, Bound, RuntimesBound, PoliciesBound, KeysBound
<1>2. /\ roles[api_keys[runtime].role].initialized
      /\ roles[api_keys[runtime].role].organization = runtime[1]
      /\ organizations[runtime[1]].initialized
  BY <1>1 DEF CpInv, Bound, KeysBound, RolesBound
<1> QED
  BY <1>1, <1>2 DEF ConsumeAccounts

LEMMA BoundReaches == CpInv => CliReachesEveryRuntime
<1> SUFFICES ASSUME CpInv, NEW name \in OrgNames, NEW material \in Materials,
                    runtimes[<<name, DeriveKeyId(material)>>].initialized
             PROVE  LET to == ResolveAddresses(name, material)
                    IN  /\ CallEndpoint(to) /\ DelegateRuntime(to)
                        /\ CommitRuntime(to) /\ UndelegateRuntime(to)
                        /\ SettleCheckpoint(to)
  BY DEF CliReachesEveryRuntime, ResolveAddresses, DeriveOrganizationPda,
         DeriveApiKeyPda
<1> DEFINE key == <<name, DeriveKeyId(material)>>
<1>1. key \in KeyAddress /\ key[1] = name
  BY KeyIdAssumption, Addresses
<1>2. runtimes[key].initialized
  OBVIOUS
<1>3. ResolveAddresses(name, material) =
        [organization |-> name, api_key |-> key, quota_policy |-> key,
         quota_runtime |-> key, audit_checkpoint |-> key]
  BY DEF ResolveAddresses, DeriveOrganizationPda, DeriveApiKeyPda
<1> HIDE DEF key
<1>4. /\ runtimes[key].organization = name /\ runtimes[key].api_key = key
      /\ runtimes[key].quota_policy = key /\ policies[key].initialized
      /\ policies[key].organization = name /\ policies[key].api_key = key
      /\ api_keys[key].initialized /\ api_keys[key].organization = name
      /\ checkpoints = runtimes /\ api_keys[key].role \in RoleAddress
  BY <1>1, <1>2 DEF CpInv, Bound, RuntimesBound, PoliciesBound, KeysBound
<1>5. /\ roles[api_keys[key].role].initialized
      /\ roles[api_keys[key].role].organization = name
      /\ organizations[name].initialized
  BY <1>1, <1>4 DEF CpInv, Bound, KeysBound, RolesBound
<1> QED
  BY <1>2, <1>3, <1>4, <1>5
  DEF CallEndpoint, DelegateRuntime, CommitRuntime, UndelegateRuntime,
      SettleCheckpoint, ConsumeAccounts, DelegateAccounts, CommitAccounts,
      SettleAccounts

KeyKept ==
  \A key \in KeyAddress : api_keys[key].initialized =>
    /\ api_keys'[key].role = api_keys[key].role
    /\ api_keys'[key].organization = api_keys[key].organization
    /\ ~api_keys[key].active => ~api_keys'[key].active

LEMMA KeyKeptStep == CpInv /\ [Instruction]_cpVars => KeyKept
<1> SUFFICES ASSUME CpInv, [Instruction]_cpVars PROVE KeyKept
  OBVIOUS
<1>t. AccountsTyped
  BY Types DEF CpInv
<1>1. ASSUME UNCHANGED api_keys PROVE KeyKept
  BY <1>1 DEF KeyKept
<1>2. ASSUME NEW organization \in OrgNames, NEW role, NEW key_id \in KeyIds,
             CreateApiKey(organization, role, key_id)
      PROVE  KeyKept
  BY <1>2, <1>t DEF CreateApiKey, KeyKept, AccountsTyped
<1>3. ASSUME NEW organization, NEW key \in KeyAddress,
             RevokeApiKey(organization, key)
      PROVE  KeyKept
  BY <1>3, <1>t DEF RevokeApiKey, KeyKept, AccountsTyped, Key
<1> QED
  BY <1>1, <1>2, <1>3
  DEF Instruction, cpVars, InitializeGateway, CreateOrganization, CreateRole,
      AttachPolicyToRole, CreateQuotaPolicy, InitializeQuotaRuntime

\* A signer may change the one tenant it is the authority of.
SignerMayChange(name) ==
  signer' = IF organizations[name].initialized THEN organizations[name].authority
            ELSE gateway.authority

TenantKept ==
  \A name \in OrgNames : TenantOf(name)' # TenantOf(name) => SignerMayChange(name)

\* An instruction writes only below the tenant whose authority signs it.
LEMMA WritesOneTenant ==
  ASSUME NEW organization \in OrgNames, SignerMayChange(organization),
         \A name \in OrgNames \ {organization} :
           organizations'[name] = organizations[name],
         \A role \in RoleAddress : role[1] # organization => roles'[role] = roles[role],
         \A key \in KeyAddress : key[1] # organization =>
           /\ api_keys'[key] = api_keys[key] /\ policies'[key] = policies[key]
           /\ runtimes'[key] = runtimes[key] /\ checkpoints'[key] = checkpoints[key]
  PROVE  TenantKept
<1> SUFFICES ASSUME NEW name \in OrgNames, name # organization
             PROVE  TenantOf(name)' = TenantOf(name)
  BY DEF TenantKept
<1>1. organizations'[name] = organizations[name]
  OBVIOUS
<1>2. [role \in {r \in RoleAddress : r[1] = name} |-> roles'[role]] =
        [role \in {r \in RoleAddress : r[1] = name} |-> roles[role]]
  OBVIOUS
<1>3. [key \in {k \in KeyAddress : k[1] = name} |->
         <<api_keys'[key], policies'[key], runtimes'[key], checkpoints'[key]>>] =
        [key \in {k \in KeyAddress : k[1] = name} |->
         <<api_keys[key], policies[key], runtimes[key], checkpoints[key]>>]
  OBVIOUS
<1> QED
  BY <1>1, <1>2, <1>3 DEF TenantOf

LEMMA TenantKeptStep == CpInv /\ [Instruction]_cpVars => TenantKept
<1> SUFFICES ASSUME CpInv, [Instruction]_cpVars PROVE TenantKept
  OBVIOUS
<1>t. AccountsTyped
  BY Types DEF CpInv
<1>0. ASSUME UNCHANGED <<organizations, roles, api_keys, policies, runtimes, checkpoints>>
      PROVE  TenantKept
  BY <1>0 DEF TenantKept, TenantOf
<1>1. ASSUME NEW name \in OrgNames, NEW authority \in Principals,
             CreateOrganization(name, authority)
      PROVE  TenantKept
  <2>1. SignerMayChange(name)
    BY <1>1 DEF CreateOrganization, SignerMayChange
  <2>2. \A other \in OrgNames \ {name} : organizations'[other] = organizations[other]
    BY <1>1, <1>t DEF CreateOrganization, AccountsTyped
  <2> QED
    BY <1>1, <2>1, <2>2, WritesOneTenant DEF CreateOrganization
<1>2. ASSUME NEW organization \in OrgNames, NEW name \in RoleNames,
             CreateRole(organization, name)
      PROVE  TenantKept
  <2>1. SignerMayChange(organization)
    BY <1>2 DEF CreateRole, SignedFor, SignerMayChange
  <2>2. /\ \A other \in OrgNames \ {organization} :
             organizations'[other] = organizations[other]
        /\ \A role \in RoleAddress :
             role[1] # organization => roles'[role] = roles[role]
    BY <1>2, <1>t, Addresses DEF CreateRole, AccountsTyped
  <2> QED
    BY <1>2, <2>1, <2>2, WritesOneTenant DEF CreateRole
<1>3. ASSUME NEW organization \in OrgNames, NEW role \in RoleAddress, NEW mask,
             AttachPolicyToRole(organization, role, mask)
      PROVE  TenantKept
  <2>1. SignerMayChange(organization)
    BY <1>3 DEF AttachPolicyToRole, SignedFor, SignerMayChange
  <2>2. role[1] = organization
    BY <1>3 DEF AttachPolicyToRole, CpInv, Bound, RolesBound
  <2>3. \A other \in RoleAddress :
          other[1] # organization => roles'[other] = roles[other]
    BY <1>3, <1>t, <2>2 DEF AttachPolicyToRole, AccountsTyped
  <2> QED
    BY <1>3, <2>1, <2>3, WritesOneTenant DEF AttachPolicyToRole
<1>4. ASSUME NEW organization \in OrgNames, NEW role, NEW key_id \in KeyIds,
             CreateApiKey(organization, role, key_id)
      PROVE  TenantKept
  <2>1. SignerMayChange(organization)
    BY <1>4 DEF CreateApiKey, SignedFor, SignerMayChange
  <2>2. /\ \A other \in OrgNames \ {organization} :
             organizations'[other] = organizations[other]
        /\ \A key \in KeyAddress :
             key[1] # organization => api_keys'[key] = api_keys[key]
    BY <1>4, <1>t, Addresses DEF CreateApiKey, AccountsTyped
  <2> QED
    BY <1>4, <2>1, <2>2, WritesOneTenant DEF CreateApiKey
<1>5. ASSUME NEW organization \in OrgNames, NEW key \in KeyAddress,
             RevokeApiKey(organization, key)
      PROVE  TenantKept
  <2>1. SignerMayChange(organization)
    BY <1>5 DEF RevokeApiKey, SignedFor, SignerMayChange
  <2>2. key[1] = organization
    BY <1>5 DEF RevokeApiKey, CpInv, Bound, KeysBound
  <2>3. \A other \in KeyAddress :
          other[1] # organization => api_keys'[other] = api_keys[other]
    BY <1>5, <1>t, <2>2 DEF RevokeApiKey, AccountsTyped
  <2> QED
    BY <1>5, <2>1, <2>3, WritesOneTenant DEF RevokeApiKey
<1>6. ASSUME NEW organization \in OrgNames, NEW key \in KeyAddress,
             CreateQuotaPolicy(organization, key)
      PROVE  TenantKept
  <2>1. SignerMayChange(organization)
    BY <1>6 DEF CreateQuotaPolicy, SignedFor, SignerMayChange
  <2>2. key[1] = organization
    BY <1>6 DEF CreateQuotaPolicy, CpInv, Bound, KeysBound
  <2>3. \A other \in KeyAddress :
          other[1] # organization => policies'[other] = policies[other]
    BY <1>6, <1>t, <2>2 DEF CreateQuotaPolicy, AccountsTyped
  <2> QED
    BY <1>6, <2>1, <2>3, WritesOneTenant DEF CreateQuotaPolicy
<1>7. ASSUME NEW organization \in OrgNames, NEW key \in KeyAddress,
             NEW policy \in KeyAddress,
             InitializeQuotaRuntime(organization, key, policy)
      PROVE  TenantKept
  <2>1. SignerMayChange(organization)
    BY <1>7 DEF InitializeQuotaRuntime, SignedFor, SignerMayChange
  <2>2. key[1] = organization
    BY <1>7 DEF InitializeQuotaRuntime, CpInv, Bound, KeysBound
  <2>3. \A other \in KeyAddress : other[1] # organization =>
          /\ runtimes'[other] = runtimes[other]
          /\ checkpoints'[other] = checkpoints[other]
    BY <1>7, <1>t, <2>2 DEF InitializeQuotaRuntime, AccountsTyped
  <2> QED
    BY <1>7, <2>1, <2>3, WritesOneTenant DEF InitializeQuotaRuntime
<1>8. CASE UNCHANGED cpVars
  BY <1>8, <1>0 DEF cpVars
<1>9. CASE InitializeGateway
  BY <1>9, <1>0 DEF InitializeGateway
<1> QED
  BY <1>1, <1>2, <1>3, <1>4, <1>5, <1>6, <1>7, <1>8, <1>9 DEF Instruction

(***************************************************************************)
(* The counters.  They start at nothing and go up with the accounts they   *)
(* count: of how many names there are nothing need be known.               *)
(***************************************************************************)
Organizations == {name \in OrgNames : organizations[name].initialized}

RolesOf(name) ==
  {role \in RoleAddress : roles[role].initialized /\ roles[role].organization = name}

KeysOf(name) ==
  {key \in KeyAddress : api_keys[key].initialized /\ api_keys[key].organization = name}

GatewayCounts ==
  /\ IsFiniteSet(Organizations)
  /\ gateway.organization_count = Cardinality(Organizations)
  /\ ~gateway.initialized => gateway.organization_count = 0

RolesCounted(name) ==
  /\ IsFiniteSet(RolesOf(name))
  /\ organizations[name].role_count = Cardinality(RolesOf(name))

KeysCounted(name) ==
  /\ IsFiniteSet(KeysOf(name))
  /\ organizations[name].api_key_count = Cardinality(KeysOf(name))

Counted ==
  GatewayCounts /\ \A name \in OrgNames : RolesCounted(name) /\ KeysCounted(name)

LEMMA CountedMatches == Counted => CountsMatchAccounts
  BY DEF Counted, CountsMatchAccounts, GatewayCounts, RolesCounted, KeysCounted,
         Organizations, RolesOf, KeysOf

LEMMA OneMore ==
  ASSUME NEW S, IsFiniteSet(S), NEW x, x \notin S
  PROVE  IsFiniteSet(S \cup {x}) /\ Cardinality(S \cup {x}) = Cardinality(S) + 1
  BY FS_AddElement

LEMMA InitCounted == Init => Counted
<1> SUFFICES ASSUME Init PROVE Counted
  OBVIOUS
<1>1. IsFiniteSet({}) /\ Cardinality({}) = 0
  BY FS_EmptySet
<1>2. /\ Organizations = {}
      /\ \A name \in OrgNames : RolesOf(name) = {} /\ KeysOf(name) = {}
  BY DEF Init, Organizations, RolesOf, KeysOf, NoOrganization, NoRole, NoKey
<1>3. /\ gateway.organization_count = 0
      /\ \A name \in OrgNames : /\ organizations[name].role_count = 0
                                /\ organizations[name].api_key_count = 0
  BY DEF Init, NoOrganization
<1> QED
  BY <1>1, <1>2, <1>3 DEF Counted, GatewayCounts, RolesCounted, KeysCounted

LEMMA CountedFrame ==
  ASSUME Counted, UNCHANGED <<gateway, organizations>>,
         \A name \in OrgNames : UNCHANGED <<RolesOf(name), KeysOf(name)>>
  PROVE  Counted'
<1>1. UNCHANGED Organizations
  BY DEF Organizations
<1> QED
  BY <1>1 DEF Counted, GatewayCounts, RolesCounted, KeysCounted

LEMMA CountedStep == CpInv /\ Counted /\ [Instruction]_cpVars => Counted'
<1> SUFFICES ASSUME CpInv, Counted, [Instruction]_cpVars PROVE Counted'
  OBVIOUS
<1>t. AccountsTyped
  BY Types DEF CpInv
<1>0. ASSUME UNCHANGED <<gateway, organizations, roles, api_keys>> PROVE Counted'
  BY <1>0, CountedFrame DEF RolesOf, KeysOf
<1>1. CASE InitializeGateway
  <2>1. /\ ~gateway.initialized /\ gateway'.organization_count = 0
        /\ gateway'.initialized
        /\ UNCHANGED <<organizations, roles, api_keys>>
    BY <1>1 DEF InitializeGateway
  <2>2. UNCHANGED Organizations
    BY <2>1 DEF Organizations
  <2>3. \A name \in OrgNames : UNCHANGED <<RolesOf(name), KeysOf(name)>>
    BY <2>1 DEF RolesOf, KeysOf
  <2> QED
    BY <2>1, <2>2, <2>3 DEF Counted, GatewayCounts, RolesCounted, KeysCounted
<1>2. ASSUME NEW name \in OrgNames, NEW authority \in Principals,
             CreateOrganization(name, authority)
      PROVE  Counted'
  <2>1. /\ ~organizations[name].initialized
        /\ organizations' = [organizations EXCEPT ![name] =
             [initialized |-> TRUE, authority |-> authority,
              role_count |-> 0, api_key_count |-> 0]]
        /\ gateway' = [gateway EXCEPT !.organization_count = @ + 1]
        /\ gateway.initialized
        /\ UNCHANGED <<roles, api_keys>>
    BY <1>2 DEF CreateOrganization
  <2>2. /\ organizations'[name].initialized
        /\ organizations'[name].role_count = 0
        /\ organizations'[name].api_key_count = 0
        /\ \A other \in OrgNames \ {name} : organizations'[other] = organizations[other]
    BY <2>1, <1>t DEF AccountsTyped
  <2>3. /\ gateway'.organization_count = gateway.organization_count + 1
        /\ gateway'.initialized
    BY <2>1, <1>t DEF AccountsTyped, Gateway
  <2>4. Organizations' = Organizations \cup {name} /\ name \notin Organizations
    BY <2>1, <2>2 DEF Organizations
  <2>5. GatewayCounts'
    BY <2>3, <2>4, OneMore DEF Counted, GatewayCounts
  <2>6. RolesOf(name) = {}
    BY <2>1 DEF RolesOf, CpInv, Bound, RolesBound
  <2>7. KeysOf(name) = {}
    BY <2>1 DEF KeysOf, CpInv, Bound, RolesBound, KeysBound
  <2>8. \A other \in OrgNames : UNCHANGED <<RolesOf(other), KeysOf(other)>>
    BY <2>1 DEF RolesOf, KeysOf
  <2>9. RolesCounted(name)' /\ KeysCounted(name)'
    BY <2>2, <2>6, <2>7, <2>8, FS_EmptySet DEF RolesCounted, KeysCounted
  <2>10. \A other \in OrgNames \ {name} : RolesCounted(other)' /\ KeysCounted(other)'
    BY <2>2, <2>8 DEF Counted, RolesCounted, KeysCounted
  <2> QED
    BY <2>5, <2>9, <2>10 DEF Counted
<1>3. ASSUME NEW organization \in OrgNames, NEW name \in RoleNames,
             CreateRole(organization, name)
      PROVE  Counted'
  <2> DEFINE role == <<organization, name>>
  <2>1. /\ ~roles[role].initialized /\ organizations[organization].initialized
        /\ roles' = [roles EXCEPT ![role] =
             [initialized |-> TRUE, organization |-> organization, policy_mask |-> {}]]
        /\ organizations' = [organizations EXCEPT ![organization].role_count = @ + 1]
        /\ UNCHANGED <<gateway, api_keys>>
    BY <1>3 DEF CreateRole, SignedFor
  <2>2. role \in RoleAddress
    BY Addresses
  <2> HIDE DEF role
  <2>3. /\ organizations'[organization].role_count =
             organizations[organization].role_count + 1
        /\ \A other \in OrgNames :
             /\ organizations'[other].initialized = organizations[other].initialized
             /\ organizations'[other].api_key_count = organizations[other].api_key_count
        /\ \A other \in OrgNames \ {organization} :
             organizations'[other].role_count = organizations[other].role_count
    BY <2>1, <1>t DEF AccountsTyped, Organization
  <2>4. /\ RolesOf(organization)' = RolesOf(organization) \cup {role}
        /\ role \notin RolesOf(organization)
        /\ \A other \in OrgNames \ {organization} : RolesOf(other)' = RolesOf(other)
    BY <2>1, <2>2, <1>t DEF RolesOf, AccountsTyped
  <2>5. UNCHANGED Organizations /\ \A other \in OrgNames : UNCHANGED KeysOf(other)
    BY <2>1, <2>3 DEF Organizations, KeysOf
  <2>6. RolesCounted(organization)'
    BY <2>3, <2>4, OneMore DEF Counted, RolesCounted
  <2>7. \A other \in OrgNames : KeysCounted(other)'
    BY <2>3, <2>5 DEF Counted, KeysCounted
  <2>8. \A other \in OrgNames \ {organization} : RolesCounted(other)'
    BY <2>3, <2>4 DEF Counted, RolesCounted
  <2>9. GatewayCounts'
    BY <2>1, <2>5 DEF Counted, GatewayCounts
  <2> QED
    BY <2>6, <2>7, <2>8, <2>9 DEF Counted
<1>4. ASSUME NEW organization, NEW role \in RoleAddress, NEW mask,
             AttachPolicyToRole(organization, role, mask)
      PROVE  Counted'
  <2>1. /\ roles' = [roles EXCEPT ![role].policy_mask = mask]
        /\ UNCHANGED <<gateway, organizations, api_keys>>
    BY <1>4 DEF AttachPolicyToRole
  <2>2. \A other \in RoleAddress :
          /\ roles'[other].initialized = roles[other].initialized
          /\ roles'[other].organization = roles[other].organization
    BY <2>1, <1>t DEF AccountsTyped, Role
  <2> QED
    BY <2>1, <2>2, CountedFrame DEF RolesOf, KeysOf
<1>5. ASSUME NEW organization \in OrgNames, NEW role, NEW key_id \in KeyIds,
             CreateApiKey(organization, role, key_id)
      PROVE  Counted'
  <2> DEFINE key == <<organization, key_id>>
  <2>1. /\ ~api_keys[key].initialized
        /\ api_keys' = [api_keys EXCEPT ![key] =
             [initialized |-> TRUE, organization |-> organization,
              role |-> role, active |-> TRUE]]
        /\ organizations' =
             [organizations EXCEPT ![organization].api_key_count = @ + 1]
        /\ UNCHANGED <<gateway, roles>>
    BY <1>5 DEF CreateApiKey
  <2>2. key \in KeyAddress
    BY Addresses
  <2> HIDE DEF key
  <2>3. /\ organizations'[organization].api_key_count =
             organizations[organization].api_key_count + 1
        /\ \A other \in OrgNames :
             /\ organizations'[other].initialized = organizations[other].initialized
             /\ organizations'[other].role_count = organizations[other].role_count
        /\ \A other \in OrgNames \ {organization} :
             organizations'[other].api_key_count = organizations[other].api_key_count
    BY <2>1, <1>t DEF AccountsTyped, Organization
  <2>4. /\ KeysOf(organization)' = KeysOf(organization) \cup {key}
        /\ key \notin KeysOf(organization)
        /\ \A other \in OrgNames \ {organization} : KeysOf(other)' = KeysOf(other)
    BY <2>1, <2>2, <1>t DEF KeysOf, AccountsTyped
  <2>5. UNCHANGED Organizations /\ \A other \in OrgNames : UNCHANGED RolesOf(other)
    BY <2>1, <2>3 DEF Organizations, RolesOf
  <2>6. KeysCounted(organization)'
    BY <2>3, <2>4, OneMore DEF Counted, KeysCounted
  <2>7. \A other \in OrgNames : RolesCounted(other)'
    BY <2>3, <2>5 DEF Counted, RolesCounted
  <2>8. \A other \in OrgNames \ {organization} : KeysCounted(other)'
    BY <2>3, <2>4 DEF Counted, KeysCounted
  <2>9. GatewayCounts'
    BY <2>1, <2>5 DEF Counted, GatewayCounts
  <2> QED
    BY <2>6, <2>7, <2>8, <2>9 DEF Counted
<1>6. ASSUME NEW organization, NEW key \in KeyAddress,
             RevokeApiKey(organization, key)
      PROVE  Counted'
  <2>1. /\ api_keys' = [api_keys EXCEPT ![key].active = FALSE]
        /\ UNCHANGED <<gateway, organizations, roles>>
    BY <1>6 DEF RevokeApiKey
  <2>2. \A other \in KeyAddress :
          /\ api_keys'[other].initialized = api_keys[other].initialized
          /\ api_keys'[other].organization = api_keys[other].organization
    BY <2>1, <1>t DEF AccountsTyped, Key
  <2> QED
    BY <2>1, <2>2, CountedFrame DEF RolesOf, KeysOf
<1> QED
  BY <1>0, <1>1, <1>2, <1>3, <1>4, <1>5, <1>6
  DEF Instruction, cpVars, CreateQuotaPolicy, InitializeQuotaRuntime

(***************************************************************************)
(* The theorems: what holds of every client's instructions, the CLI's      *)
(* commands among them.                                                    *)
(***************************************************************************)

\* The accounts stay bound as they were created: each names what its address
\* is derived from, and what it names exists.
THEOREM ControlPlaneInvariant == CliSpec => []CpInv
<1>1. CpInv /\ [Next \/ CliNext]_cpVars => CpInv'
  BY InstructionStep, NextIsInstruction, CliNextIsInstruction
<1> QED
  BY InitBound, <1>1, PTL DEF CliSpec

\* The accounts have the types of their structs in state.rs.
THEOREM ControlPlaneTypeCorrect == CliSpec => []TypeOK
<1>1. CpInv => TypeOK
  BY DEF CpInv
<1> QED
  BY ControlPlaneInvariant, <1>1, PTL

\* consume_request accepts, for every runtime, exactly the key's own accounts.
THEOREM OneTuple == CliSpec => []OneTuplePerRuntime
  BY ControlPlaneInvariant, BoundGivesOneTuple, PTL

\* A tenant's name and a key's material are enough for every command on a
\* runtime that exists.
THEOREM CliReaches == CliSpec => []CliReachesEveryRuntime
  BY ControlPlaneInvariant, BoundReaches, PTL

\* A key is bound once and revoked once.
THEOREM KeyBindingKept == CliSpec => KeyBindingPermanent
<1>1. CpInv /\ [Next \/ CliNext]_cpVars => [KeyKept]_cpVars
  BY KeyKeptStep, NextIsInstruction, CliNextIsInstruction
<1> QED
  BY ControlPlaneInvariant, <1>1, PTL DEF CliSpec, KeyBindingPermanent, KeyKept

\* A tenant's accounts change by its authority's signature only.
THEOREM TenantIsolation == CliSpec => OnlyAuthorityChangesTenant
<1>1. CpInv /\ [Next \/ CliNext]_cpVars => [TenantKept]_cpVars
  BY TenantKeptStep, NextIsInstruction, CliNextIsInstruction
<1> QED
  BY ControlPlaneInvariant, <1>1, PTL
  DEF CliSpec, OnlyAuthorityChangesTenant, TenantKept, SignerMayChange

\* Every counter is the number of accounts created under it.
THEOREM CountersMatch == CliSpec => []CountsMatchAccounts
<1>1. CpInv /\ Counted /\ [Next \/ CliNext]_cpVars => Counted'
  BY CountedStep, NextIsInstruction, CliNextIsInstruction
<1> QED
  BY ControlPlaneInvariant, InitCounted, <1>1, CountedMatches, PTL DEF CliSpec

(***************************************************************************)
(* A persistent bring-up comes to its end: each command is accepted in the *)
(* end, and what it created stays.                                         *)
(***************************************************************************)
RoleOf(tenant) == <<tenant[1], tenant[2]>>
KeyOf(tenant)  == <<tenant[1], DeriveKeyId(tenant[3])>>

\* There are no more names than a counter can count.
Room ==
  /\ IsFiniteSet(RoleNames) /\ Cardinality(RoleNames) <= MaxU64
  /\ IsFiniteSet(KeyIds) /\ Cardinality(KeyIds) <= MaxU64

LEMMA TenantNames ==
  ASSUME NEW tenant \in Persistent
  PROVE  /\ tenant[1] \in OrgNames /\ tenant[2] \in RoleNames
         /\ tenant[3] \in Materials
         /\ RoleOf(tenant) \in RoleAddress /\ KeyOf(tenant) \in KeyAddress
         /\ RoleOf(tenant)[1] = tenant[1] /\ KeyOf(tenant)[1] = tenant[1]
<1>1. /\ tenant[1] \in OrgNames /\ tenant[2] \in RoleNames
      /\ tenant[3] \in Materials
  BY PersistentAssumption
<1>2. DeriveKeyId(tenant[3]) \in KeyIds
  BY <1>1, KeyIdAssumption
<1> QED
  BY <1>1, <1>2 DEF RoleOf, KeyOf, RoleAddress, KeyAddress

\* Of the accounts of one parent at most as many exist as there are names, and
\* one less if one does not.
LEMMA RoomForOneMore ==
  ASSUME NEW Names, IsFiniteSet(Names), Cardinality(Names) <= MaxU64,
         NEW parent, NEW S \in SUBSET ({parent} \X Names), IsFiniteSet(S),
         NEW x \in ({parent} \X Names) \ S
  PROVE  Cardinality(S) < MaxU64
<1> DEFINE T == S \cup {x}
           name == [a \in T |-> a[2]]
<1>1. name \in Injection(T, Names)
  BY DEF Injection, IsInjective
<1>2. IsFiniteSet(T) /\ Cardinality(T) = Cardinality(S) + 1
  BY OneMore
<1>3. Cardinality(T) <= Cardinality(Names)
  BY <1>1, FS_Injection
<1>4. /\ Cardinality(S) \in Nat /\ Cardinality(T) \in Nat
      /\ Cardinality(Names) \in Nat /\ MaxU64 \in Nat
  BY <1>2, FS_CardinalityType, CountAssumption
<1> HIDE DEF T
<1> QED
  BY <1>2, <1>3, <1>4

\* Organizations have an authority that can sign.
AuthoritiesSign ==
  \A name \in OrgNames : organizations[name].initialized =>
    organizations[name].authority \in Principals

\* What an instruction does to the accounts there are: none goes away, and no
\* organization changes hands.
AccountsStay ==
  /\ \A name \in OrgNames :
       /\ organizations[name].initialized => organizations'[name].initialized
       /\ organizations'[name].initialized =>
            \/ organizations'[name].authority \in Principals
            \/ /\ organizations[name].initialized
               /\ organizations'[name].authority = organizations[name].authority
  /\ \A role \in RoleAddress :
       roles[role].initialized => roles'[role].initialized
  /\ \A key \in KeyAddress :
       /\ api_keys[key].initialized => api_keys'[key].initialized
       /\ policies[key].initialized => policies'[key].initialized
       /\ runtimes[key].initialized => runtimes'[key].initialized

LEMMA AccountsStayStep == CpInv /\ [Instruction]_cpVars => AccountsStay
<1> SUFFICES ASSUME CpInv, [Instruction]_cpVars PROVE AccountsStay
  OBVIOUS
<1>t. AccountsTyped
  BY Types DEF CpInv
<1>o. /\ organizations \in [OrgNames -> Organization]
      /\ roles \in [RoleAddress -> Role] /\ api_keys \in [KeyAddress -> Key]
      /\ policies \in [KeyAddress -> Policy] /\ runtimes \in [KeyAddress -> Runtime]
  BY <1>t DEF AccountsTyped
<1>0. ASSUME UNCHANGED <<organizations, roles, api_keys, policies, runtimes>>
      PROVE  AccountsStay
  BY <1>0 DEF AccountsStay
<1>1. CASE InitializeGateway
  BY <1>0, <1>1 DEF InitializeGateway
<1>2. ASSUME NEW name \in OrgNames, NEW authority \in Principals,
             CreateOrganization(name, authority)
      PROVE  AccountsStay
  BY <1>o, <1>2 DEF CreateOrganization, AccountsStay
<1>3. ASSUME NEW organization \in OrgNames, NEW name \in RoleNames,
             CreateRole(organization, name)
      PROVE  AccountsStay
  BY <1>o, <1>3 DEF CreateRole, AccountsStay, Organization
<1>4. ASSUME NEW organization \in OrgNames, NEW role \in RoleAddress, NEW mask,
             AttachPolicyToRole(organization, role, mask)
      PROVE  AccountsStay
  BY <1>o, <1>4 DEF AttachPolicyToRole, AccountsStay, Role
<1>5. ASSUME NEW organization \in OrgNames, NEW role \in RoleAddress,
             NEW key_id \in KeyIds, CreateApiKey(organization, role, key_id)
      PROVE  AccountsStay
  BY <1>o, <1>5 DEF CreateApiKey, AccountsStay, Organization
<1>6. ASSUME NEW organization \in OrgNames, NEW key \in KeyAddress,
             RevokeApiKey(organization, key)
      PROVE  AccountsStay
  BY <1>o, <1>6 DEF RevokeApiKey, AccountsStay, Key
<1>7. ASSUME NEW organization \in OrgNames, NEW key \in KeyAddress,
             CreateQuotaPolicy(organization, key)
      PROVE  AccountsStay
  BY <1>o, <1>7 DEF CreateQuotaPolicy, AccountsStay
<1>8. ASSUME NEW organization \in OrgNames, NEW key \in KeyAddress,
             NEW policy \in KeyAddress,
             InitializeQuotaRuntime(organization, key, policy)
      PROVE  AccountsStay
  BY <1>o, <1>8 DEF InitializeQuotaRuntime, AccountsStay
<1>9. CASE UNCHANGED cpVars
  BY <1>0, <1>9 DEF cpVars
<1> QED
  BY <1>1, <1>2, <1>3, <1>4, <1>5, <1>6, <1>7, <1>8, <1>9 DEF Instruction

\* The guards of the four commands of a bring-up, for as long as each has yet
\* to be accepted.
MaySign(name) ==
  /\ TypeOK
  /\ organizations[name].initialized
  /\ organizations[name].authority \in Principals

RoleGuard(tenant) ==
  /\ MaySign(tenant[1])
  /\ ~roles[RoleOf(tenant)].initialized
  /\ organizations[tenant[1]].role_count < MaxU64

KeyGuard(tenant) ==
  /\ MaySign(tenant[1])
  /\ roles[RoleOf(tenant)].initialized
  /\ roles[RoleOf(tenant)].organization = tenant[1]
  /\ ~api_keys[KeyOf(tenant)].initialized
  /\ organizations[tenant[1]].api_key_count < MaxU64

QuotaGuard(tenant) ==
  /\ MaySign(tenant[1])
  /\ api_keys[KeyOf(tenant)].initialized
  /\ api_keys[KeyOf(tenant)].organization = tenant[1]
  /\ ~policies[KeyOf(tenant)].initialized

RuntimeGuard(tenant) ==
  /\ MaySign(tenant[1])
  /\ api_keys[KeyOf(tenant)].initialized
  /\ api_keys[KeyOf(tenant)].organization = tenant[1]
  /\ policies[KeyOf(tenant)].initialized
  /\ policies[KeyOf(tenant)].organization = tenant[1]
  /\ policies[KeyOf(tenant)].api_key = KeyOf(tenant)
  /\ ~runtimes[KeyOf(tenant)].initialized

\* They are all that can refuse the commands.
GuardsSuffice(tenant) ==
  /\ RoleGuard(tenant) =>
       ENABLED <<Tries(CreateRoleCommand(tenant[1], tenant[2]))>>_cpVars
  /\ KeyGuard(tenant) =>
       ENABLED <<Tries(CreateKey(tenant[1], tenant[2], tenant[3]))>>_cpVars
  /\ QuotaGuard(tenant) =>
       ENABLED <<Tries(CreateQuota(tenant[1], tenant[3]))>>_cpVars
  /\ RuntimeGuard(tenant) =>
       ENABLED <<Tries(InitRuntime(tenant[1], tenant[3]))>>_cpVars

\* What is accepted is there.
LEMMA CommandsCreate ==
  ASSUME CpInv, NEW tenant \in Persistent
  PROVE  /\ CreateRoleCommand(tenant[1], tenant[2]) =>
              roles'[RoleOf(tenant)].initialized
         /\ CreateKey(tenant[1], tenant[2], tenant[3]) =>
              api_keys'[KeyOf(tenant)].initialized
         /\ CreateQuota(tenant[1], tenant[3]) =>
              policies'[KeyOf(tenant)].initialized
         /\ InitRuntime(tenant[1], tenant[3]) =>
              runtimes'[KeyOf(tenant)].initialized
<1>1. /\ tenant[1] # NoValue /\ tenant[2] # NoValue /\ tenant[3] # NoValue
  BY TenantNames, TypedAssumption
<1>2. Flag(tenant[1]) = tenant[1] /\ Flag(tenant[2]) = tenant[2] /\ Flag(tenant[3]) = tenant[3]
  BY <1>1 DEF Flag
<1>3. /\ RoleOf(tenant) \in RoleAddress /\ KeyOf(tenant) \in KeyAddress
  BY TenantNames
<1>4. /\ roles \in [RoleAddress -> Role] /\ api_keys \in [KeyAddress -> Key]
      /\ policies \in [KeyAddress -> Policy] /\ runtimes \in [KeyAddress -> Runtime]
  BY Types DEF CpInv, AccountsTyped
<1>5. CreateRoleCommand(tenant[1], tenant[2]) => roles'[RoleOf(tenant)].initialized
  BY <1>2, <1>3, <1>4
  DEF CreateRoleCommand, DeriveOrganizationPda, CreateRole, RoleOf
<1>6. CreateKey(tenant[1], tenant[2], tenant[3]) => api_keys'[KeyOf(tenant)].initialized
  BY <1>2, <1>3, <1>4
  DEF CreateKey, DeriveOrganizationPda, DeriveRolePda, CreateApiKey, KeyOf
<1>7. Resolved(tenant[1], tenant[3]).api_key = KeyOf(tenant)
  BY <1>2 DEF Resolved, ResolveAddresses, DeriveOrganizationPda, DeriveApiKeyPda, KeyOf
<1>8. CreateQuota(tenant[1], tenant[3]) => policies'[KeyOf(tenant)].initialized
  BY <1>3, <1>4, <1>7 DEF CreateQuota, CreateQuotaPolicy
<1>9. InitRuntime(tenant[1], tenant[3]) => runtimes'[KeyOf(tenant)].initialized
  BY <1>3, <1>4, <1>7 DEF InitRuntime, InitializeQuotaRuntime
<1> QED
  BY <1>5, <1>6, <1>8, <1>9

\* What is not there yet can be created, once the command before was accepted.
LEMMA NotYetIsGuard ==
  ASSUME CpInv, Counted, AuthoritiesSign, Room, NEW tenant \in Persistent,
         organizations[tenant[1]].initialized
  PROVE  /\ ~roles[RoleOf(tenant)].initialized => RoleGuard(tenant)
         /\ roles[RoleOf(tenant)].initialized
              /\ ~api_keys[KeyOf(tenant)].initialized => KeyGuard(tenant)
         /\ api_keys[KeyOf(tenant)].initialized
              /\ ~policies[KeyOf(tenant)].initialized => QuotaGuard(tenant)
         /\ policies[KeyOf(tenant)].initialized
              /\ ~runtimes[KeyOf(tenant)].initialized => RuntimeGuard(tenant)
<1>1. MaySign(tenant[1])
  BY TenantNames DEF CpInv, AuthoritiesSign, MaySign
<1>2. ASSUME ~roles[RoleOf(tenant)].initialized
      PROVE  organizations[tenant[1]].role_count < MaxU64
  <2>1. /\ RolesOf(tenant[1]) \in SUBSET ({tenant[1]} \X RoleNames)
        /\ RoleOf(tenant) \in ({tenant[1]} \X RoleNames) \ RolesOf(tenant[1])
    BY <1>2, TenantNames
    DEF RolesOf, RoleOf, RoleAddress, CpInv, Bound, RolesBound
  <2>2. RolesCounted(tenant[1])
    BY TenantNames DEF Counted
  <2> QED
    BY <2>1, <2>2, RoomForOneMore DEF RolesCounted, Room
<1>3. ASSUME ~api_keys[KeyOf(tenant)].initialized
      PROVE  organizations[tenant[1]].api_key_count < MaxU64
  <2>1. /\ KeysOf(tenant[1]) \in SUBSET ({tenant[1]} \X KeyIds)
        /\ KeyOf(tenant) \in ({tenant[1]} \X KeyIds) \ KeysOf(tenant[1])
    BY <1>3, TenantNames
    DEF KeysOf, KeyOf, KeyAddress, CpInv, Bound, KeysBound
  <2>2. KeysCounted(tenant[1])
    BY TenantNames DEF Counted
  <2> QED
    BY <2>1, <2>2, RoomForOneMore DEF KeysCounted, Room
<1>4. /\ roles[RoleOf(tenant)].initialized =>
           roles[RoleOf(tenant)].organization = tenant[1]
      /\ api_keys[KeyOf(tenant)].initialized =>
           api_keys[KeyOf(tenant)].organization = tenant[1]
      /\ policies[KeyOf(tenant)].initialized =>
           /\ policies[KeyOf(tenant)].organization = tenant[1]
           /\ policies[KeyOf(tenant)].api_key = KeyOf(tenant)
           /\ api_keys[KeyOf(tenant)].initialized
  BY TenantNames DEF CpInv, Bound, RolesBound, KeysBound, PoliciesBound
<1> QED
  BY <1>1, <1>2, <1>3, <1>4 DEF RoleGuard, KeyGuard, QuotaGuard, RuntimeGuard

\* One persistent bring-up, beside everybody else.
LEMMA OneBringUp ==
  ASSUME Room, NEW tenant \in Persistent
  PROVE  CliSpec /\ []GuardsSuffice(tenant) =>
           (organizations[tenant[1]].initialized
              ~> runtimes[KeyOf(tenant)].initialized)
<1> DEFINE O == organizations[tenant[1]].initialized
           R == roles[RoleOf(tenant)].initialized
           K == api_keys[KeyOf(tenant)].initialized
           P == policies[KeyOf(tenant)].initialized
           G == runtimes[KeyOf(tenant)].initialized
           Inv == CpInv /\ Counted /\ AuthoritiesSign
           NextStep == [Next \/ CliNext]_cpVars
           MakesRole == Tries(CreateRoleCommand(tenant[1], tenant[2]))
           MakesKey == Tries(CreateKey(tenant[1], tenant[2], tenant[3]))
           MakesQuota == Tries(CreateQuota(tenant[1], tenant[3]))
           MakesRuntime == Tries(InitRuntime(tenant[1], tenant[3]))
<1>i. CpInv /\ NextStep => [Instruction]_cpVars
  BY NextIsInstruction, CliNextIsInstruction
<1>s. CpInv /\ NextStep => AccountsStay
  BY <1>i, AccountsStayStep
<1>1. Init => Inv
  BY InitBound, InitCounted DEF Init, NoOrganization, AuthoritiesSign
<1>2. Inv /\ NextStep => Inv'
  <2>1. CpInv /\ Counted /\ NextStep => CpInv' /\ Counted'
    BY <1>i, InstructionStep, CountedStep
  <2>2. CpInv /\ AuthoritiesSign /\ NextStep => AuthoritiesSign'
    BY <1>s DEF AccountsStay, AuthoritiesSign
  <2> QED
    BY <2>1, <2>2
<1>3. Inv /\ NextStep => /\ O => O'
                         /\ R => R'
                         /\ K => K'
                         /\ P => P'
                         /\ G => G'
  BY <1>s, TenantNames DEF AccountsStay
<1>4. Inv => /\ <<MakesRole>>_cpVars => R'
             /\ <<MakesKey>>_cpVars => K'
             /\ <<MakesQuota>>_cpVars => P'
             /\ <<MakesRuntime>>_cpVars => G'
  BY CommandsCreate DEF Tries
<1>5. Inv /\ O => /\ ~R => RoleGuard(tenant)
                  /\ R /\ ~K => KeyGuard(tenant)
                  /\ K /\ ~P => QuotaGuard(tenant)
                  /\ P /\ ~G => RuntimeGuard(tenant)
  BY NotYetIsGuard
<1>6. CliSpec => BringUp(tenant[1], tenant[2], tenant[3])
  BY DEF CliSpec
<1> QED
  BY <1>1, <1>2, <1>3, <1>4, <1>5, <1>6, PTL DEF CliSpec, GuardsSuffice, BringUp

\* A key whose bring-up is persistent comes to have its runtime, whatever other
\* clients do before, between and after: for any number of tenants, as long as
\* there are no more names than a counter can count.
THEOREM BringUpsComplete ==
  ASSUME Room
  PROVE  CliSpec /\ (\A tenant \in Persistent : []GuardsSuffice(tenant))
           => BringUpCompletes
  BY OneBringUp DEF BringUpCompletes, KeyOf
=============================================================================
