SPECIFICATION CliSpec
CONSTANTS
  DefaultPubkey = DefaultPubkey
  Principals = {"alice", "bob"}
  OrgNames = {"acme", "true"}
  RoleNames = {"reader"}
  KeyIds <- MCKeyIds
  Materials = {"acme-key-1", "true"}
  MaskInputs <- MCMasks
  PolicyInputs <- MCPolicyInputs
  Persistent <- MCPersistent
  MaxU64 = 2
INVARIANTS
  TypeOK
  CountsMatchAccounts
  OneTuplePerRuntime
  CliReachesEveryRuntime
PROPERTIES
  OnlyAuthorityChangesTenant
  KeyBindingPermanent
  BringUpCompletes
