----------------------------- MODULE DemoProofs -----------------------------
(***************************************************************************)
(* What a run of the demo may claim, for any number of runs, wallets and   *)
(* requests of other people, every audit capacity, integer width and time  *)
(* bound.  To each tenant's accounts the script is one more client of the  *)
(* program, so all that BaseRuntimeProofs says of them holds here; the     *)
(* rest is about who made the requests that a run counts.                  *)
(***************************************************************************)
EXTENDS DemoScript, TLAPS

acmeP == INSTANCE BaseRuntimeProofs WITH
  active <- acme_active, policy_mask <- acme_mask,
  quota_policy <- acme_policy, runtime <- acme_runtime,
  checkpoint <- acme_checkpoint, settlement_count <- acme_settlements,
  MaskInputs <- {{0}, {4}}, ActionInputs <- {0, 3},
  MaxRequestsInputs <- {2, 5}, WindowInputs <- {1}
globexP == INSTANCE BaseRuntimeProofs WITH
  active <- globex_active, policy_mask <- globex_mask,
  quota_policy <- globex_policy, runtime <- globex_runtime,
  checkpoint <- globex_checkpoint, settlement_count <- globex_settlements,
  MaskInputs <- {{0}, {4}}, ActionInputs <- {0, 3},
  MaxRequestsInputs <- {2, 5}, WindowInputs <- {1}

(***************************************************************************)
(* The tenants are runs of the program.                                    *)
(***************************************************************************)
\* The assumptions of BaseRuntime, of what the demo asks for.
LEMMA DemoInputs ==
  /\ \A mask \in {{0}, {4}} : mask \subseteq Nat
  /\ {0, 3} \subseteq Nat
  /\ {2, 5} \subseteq acmeP!U64 /\ {2, 5} \subseteq globexP!U64
  /\ {1} \subseteq acmeP!Timestamp /\ {1} \subseteq globexP!Timestamp
<1>1. {2, 5} \subseteq acmeP!U64 /\ {2, 5} \subseteq globexP!U64
  BY WidthAssumption, MaxU64Assumption DEF acmeP!U64, globexP!U64
<1>2. {1} \subseteq acmeP!Timestamp /\ {1} \subseteq globexP!Timestamp
  BY MaxI64Assumption DEF acmeP!Timestamp, globexP!Timestamp
<1> QED
  BY <1>1, <1>2

\* The program's names for what a tenant's instructions do.
LEMMA AcmeSame ==
  /\ acme!Init <=> acmeP!Init
  /\ \A mask : acme!AttachPolicyToRole(mask) <=> acmeP!AttachPolicyToRole(mask)
  /\ acme!RevokeApiKey <=> acmeP!RevokeApiKey
  /\ \A quota, window : acme!CreateQuotaPolicy(quota, window)
                          <=> acmeP!CreateQuotaPolicy(quota, window)
  /\ acme!InitializeQuotaRuntime <=> acmeP!InitializeQuotaRuntime
  /\ \A action : acme!ConsumeRequest(action) <=> acmeP!ConsumeRequest(action)
  /\ acme!SettleRuntimeCheckpoint <=> acmeP!SettleRuntimeCheckpoint
  /\ acme!Tick <=> acmeP!Tick
<1>1. acme!Init <=> acmeP!Init
  BY DEF acme!Init, acmeP!Init, acme!ZeroedPolicy, acmeP!ZeroedPolicy,
     acme!ZeroedRuntime, acmeP!ZeroedRuntime, acme!ZeroedCheckpoint,
     acmeP!ZeroedCheckpoint
<1>2. ASSUME NEW mask
      PROVE  acme!AttachPolicyToRole(mask) <=> acmeP!AttachPolicyToRole(mask)
  BY DEF acme!AttachPolicyToRole, acmeP!AttachPolicyToRole,
     acme!ValidPolicyMask, acmeP!ValidPolicyMask, acme!ALL_PERMISSIONS,
     acmeP!ALL_PERMISSIONS
<1>3. acme!RevokeApiKey <=> acmeP!RevokeApiKey
  BY DEF acme!RevokeApiKey, acmeP!RevokeApiKey
<1>4. ASSUME NEW quota, NEW window
      PROVE  acme!CreateQuotaPolicy(quota, window)
               <=> acmeP!CreateQuotaPolicy(quota, window)
  BY DEF acme!CreateQuotaPolicy, acmeP!CreateQuotaPolicy,
     acme!ValidQuotaConfig, acmeP!ValidQuotaConfig
<1>5. acme!InitializeQuotaRuntime <=> acmeP!InitializeQuotaRuntime
  BY DEF acme!InitializeQuotaRuntime, acmeP!InitializeQuotaRuntime,
     acme!FreshRuntime, acmeP!FreshRuntime, acme!ZeroedRuntime,
     acmeP!ZeroedRuntime, acme!FreshCheckpoint, acmeP!FreshCheckpoint,
     acme!ZeroedCheckpoint, acmeP!ZeroedCheckpoint
<1>6. ASSUME NEW action
      PROVE  acme!ConsumeRequest(action) <=> acmeP!ConsumeRequest(action)
  BY DEF acme!ConsumeRequest, acmeP!ConsumeRequest, acme!Consume,
     acmeP!Consume, acme!RejectRevoked, acmeP!RejectRevoked,
     acme!RejectInvalidAction, acmeP!RejectInvalidAction,
     acme!RejectUnauthorized, acmeP!RejectUnauthorized,
     acme!RejectOverQuota, acmeP!RejectOverQuota, acme!AllowRequest,
     acmeP!AllowRequest, acme!AppendRuntimeAudit, acmeP!AppendRuntimeAudit,
     acme!AuditPushed, acmeP!AuditPushed, acme!ResetIfExpired,
     acmeP!ResetIfExpired, acme!QuotaStage, acmeP!QuotaStage,
     acme!WindowEnd, acmeP!WindowEnd, acme!RoleAllows, acmeP!RoleAllows,
     acme!ValidActions, acmeP!ValidActions, acme!AdminBit, acmeP!AdminBit
<1>7. acme!SettleRuntimeCheckpoint <=> acmeP!SettleRuntimeCheckpoint
  BY DEF acme!SettleRuntimeCheckpoint, acmeP!SettleRuntimeCheckpoint,
     acme!SettledCheckpoint, acmeP!SettledCheckpoint, acme!SettledRuntime,
     acmeP!SettledRuntime
<1>8. acme!Tick <=> acmeP!Tick
  BY DEF acme!Tick, acmeP!Tick
<1> QED
  BY <1>1, <1>2, <1>3, <1>4, <1>5, <1>6, <1>7, <1>8

LEMMA GlobexSame ==
  /\ globex!Init <=> globexP!Init
  /\ \A mask : globex!AttachPolicyToRole(mask) <=> globexP!AttachPolicyToRole(mask)
  /\ globex!RevokeApiKey <=> globexP!RevokeApiKey
  /\ \A quota, window : globex!CreateQuotaPolicy(quota, window)
                          <=> globexP!CreateQuotaPolicy(quota, window)
  /\ globex!InitializeQuotaRuntime <=> globexP!InitializeQuotaRuntime
  /\ \A action : globex!ConsumeRequest(action) <=> globexP!ConsumeRequest(action)
  /\ globex!SettleRuntimeCheckpoint <=> globexP!SettleRuntimeCheckpoint
  /\ globex!Tick <=> globexP!Tick
<1>1. globex!Init <=> globexP!Init
  BY DEF globex!Init, globexP!Init, globex!ZeroedPolicy, globexP!ZeroedPolicy,
     globex!ZeroedRuntime, globexP!ZeroedRuntime, globex!ZeroedCheckpoint,
     globexP!ZeroedCheckpoint
<1>2. ASSUME NEW mask
      PROVE  globex!AttachPolicyToRole(mask) <=> globexP!AttachPolicyToRole(mask)
  BY DEF globex!AttachPolicyToRole, globexP!AttachPolicyToRole,
     globex!ValidPolicyMask, globexP!ValidPolicyMask, globex!ALL_PERMISSIONS,
     globexP!ALL_PERMISSIONS
<1>3. globex!RevokeApiKey <=> globexP!RevokeApiKey
  BY DEF globex!RevokeApiKey, globexP!RevokeApiKey
<1>4. ASSUME NEW quota, NEW window
      PROVE  globex!CreateQuotaPolicy(quota, window)
               <=> globexP!CreateQuotaPolicy(quota, window)
  BY DEF globex!CreateQuotaPolicy, globexP!CreateQuotaPolicy,
     globex!ValidQuotaConfig, globexP!ValidQuotaConfig
<1>5. globex!InitializeQuotaRuntime <=> globexP!InitializeQuotaRuntime
  BY DEF globex!InitializeQuotaRuntime, globexP!InitializeQuotaRuntime,
     globex!FreshRuntime, globexP!FreshRuntime, globex!ZeroedRuntime,
     globexP!ZeroedRuntime, globex!FreshCheckpoint, globexP!FreshCheckpoint,
     globex!ZeroedCheckpoint, globexP!ZeroedCheckpoint
<1>6. ASSUME NEW action
      PROVE  globex!ConsumeRequest(action) <=> globexP!ConsumeRequest(action)
  BY DEF globex!ConsumeRequest, globexP!ConsumeRequest, globex!Consume,
     globexP!Consume, globex!RejectRevoked, globexP!RejectRevoked,
     globex!RejectInvalidAction, globexP!RejectInvalidAction,
     globex!RejectUnauthorized, globexP!RejectUnauthorized,
     globex!RejectOverQuota, globexP!RejectOverQuota, globex!AllowRequest,
     globexP!AllowRequest, globex!AppendRuntimeAudit, globexP!AppendRuntimeAudit,
     globex!AuditPushed, globexP!AuditPushed, globex!ResetIfExpired,
     globexP!ResetIfExpired, globex!QuotaStage, globexP!QuotaStage,
     globex!WindowEnd, globexP!WindowEnd, globex!RoleAllows, globexP!RoleAllows,
     globex!ValidActions, globexP!ValidActions, globex!AdminBit, globexP!AdminBit
<1>7. globex!SettleRuntimeCheckpoint <=> globexP!SettleRuntimeCheckpoint
  BY DEF globex!SettleRuntimeCheckpoint, globexP!SettleRuntimeCheckpoint,
     globex!SettledCheckpoint, globexP!SettledCheckpoint, globex!SettledRuntime,
     globexP!SettledRuntime
<1>8. globex!Tick <=> globexP!Tick
  BY DEF globex!Tick, globexP!Tick
<1> QED
  BY <1>1, <1>2, <1>3, <1>4, <1>5, <1>6, <1>7, <1>8


(***************************************************************************)
(* What a tenant's instructions do to its decisions.                       *)
(***************************************************************************)
LEMMA AcmeNumbers ==
  ASSUME acmeP!IInv
  PROVE  /\ acme_runtime.rolling_sequence \in Nat
         /\ acme_runtime.total_allowed \in Nat /\ acme_runtime.total_rejected \in Nat
         /\ acme_runtime.rolling_sequence
              = acme_runtime.total_allowed + acme_runtime.total_rejected
         /\ acme_checkpoint.settled_sequence \in Nat
         /\ acme_checkpoint.total_rejected \in Nat
         /\ acme_checkpoint.total_rejected <= acme_runtime.total_rejected
         /\ acme_checkpoint.settled_sequence <= acme_runtime.rolling_sequence
         /\ Len(acme_runtime.rolling_audit) \in Nat
         /\ Len(acme_runtime.rolling_audit)
              \in {MAX_RUNTIME_AUDIT_ITEMS,
                   acme_runtime.rolling_sequence
                     - acme_checkpoint.settled_sequence}
         /\ Len(acme_runtime.rolling_audit) <= MAX_RUNTIME_AUDIT_ITEMS
<1>1. /\ acme_runtime \in acmeP!QuotaRuntime
      /\ acme_checkpoint \in acmeP!AuditCheckpoint
      /\ acmeP!EverySequenceCounted(acme_runtime)
      /\ acmeP!Mirrors(acme_runtime, acme_checkpoint)
      /\ acmeP!AuditIsSuffix(acme_runtime)
  BY DEF acmeP!IInv, acmeP!TypeOK, acmeP!CheckpointMirrorsRuntime,
         acmeP!AuditIsUnsettledSuffix
<1>2. /\ acme_runtime.rolling_sequence \in Nat
      /\ acme_runtime.total_allowed \in Nat /\ acme_runtime.total_rejected \in Nat
      /\ acme_checkpoint.settled_sequence \in Nat
      /\ acme_checkpoint.total_allowed \in Nat
      /\ acme_checkpoint.total_rejected \in Nat
  BY <1>1, MaxU64Assumption DEF acmeP!QuotaRuntime, acmeP!AuditCheckpoint, acmeP!U64
<1>3. Len(acme_runtime.rolling_audit) \in Nat
  BY <1>1 DEF acmeP!QuotaRuntime
<1> QED
  BY <1>1, <1>2, <1>3
  DEF acmeP!EverySequenceCounted, acmeP!Mirrors, acmeP!AuditIsSuffix, acmeP!Unsettled


LEMMA GlobexNumbers ==
  ASSUME globexP!IInv
  PROVE  /\ globex_runtime.rolling_sequence \in Nat
         /\ globex_runtime.rolling_sequence
              = globex_runtime.total_allowed + globex_runtime.total_rejected
<1>1. /\ globex_runtime \in globexP!QuotaRuntime
      /\ globexP!EverySequenceCounted(globex_runtime)
  BY DEF globexP!IInv, globexP!TypeOK, globexP!CheckpointMirrorsRuntime
<1> QED
  BY <1>1, MaxU64Assumption
  DEF globexP!EverySequenceCounted, globexP!QuotaRuntime, globexP!U64

\* A request is one decision more, at the end of the audit.
LEMMA AcmeConsumed ==
  ASSUME acmeP!IInv, NEW action, acme!ConsumeRequest(action)
  PROVE  /\ acme_runtime'.rolling_sequence = acme_runtime.rolling_sequence + 1
         /\ \/ acme_runtime'.total_rejected = acme_runtime.total_rejected + 1
            \/ /\ acme_runtime'.total_rejected = acme_runtime.total_rejected
               /\ acme_active
               /\ acme_runtime'.rolling_audit[Len(acme_runtime'.rolling_audit)].reason
                    = "Allowed"
         /\ \A i \in 1..Len(acme_runtime'.rolling_audit) - 1 :
              \E j \in 1..Len(acme_runtime.rolling_audit) :
                acme_runtime'.rolling_audit[i] = acme_runtime.rolling_audit[j]
         /\ UNCHANGED <<acme_active, acme_checkpoint>>
<1> DEFINE audit == acme_runtime.rolling_audit
<1>k. /\ acme_runtime \in acmeP!QuotaRuntime /\ acme_active \in BOOLEAN
      /\ acme_policy \in acmeP!QuotaPolicy /\ clock \in acmeP!Timestamp
      /\ Len(audit) <= MAX_RUNTIME_AUDIT_ITEMS
  BY WidthAssumption, MaxI64Assumption
  DEF acmeP!IInv, acmeP!TypeOK, acmeP!Timestamp, acmeP!AuditIsUnsettledSuffix,
      acmeP!AuditIsSuffix
<1>1. /\ acmeP!Consume(acme_runtime, acme_active, acme_mask, acme_policy, action,
                       clock, acme_runtime')
      /\ UNCHANGED <<acme_active, acme_checkpoint>>
  BY AcmeSame DEF acmeP!ConsumeRequest
<1>2. /\ acmeP!CountedOnce(acme_runtime, acme_runtime')
      /\ ~acme_active => acmeP!RefusedUnchanged(acme_runtime, acme_runtime')
  BY <1>k, <1>1, acmeP!ConsumeEffect, DemoInputs, WidthAssumption,
     AuditCapAssumption, MaxU64Assumption, MaxI64Assumption
<1>3. PICK record \in acmeP!RuntimeAuditRecord :
        /\ record.reason = acme_runtime'.last_reason
        /\ acme_runtime'.rolling_audit = acmeP!AuditPushed(audit, record)
  BY <1>2 DEF acmeP!CountedOnce
<1>4. audit \in Seq(acmeP!RuntimeAuditRecord) /\ Len(audit) \in Nat
  BY <1>k DEF acmeP!QuotaRuntime
<1> DEFINE pushed == acmeP!AuditPushed(audit, record)
<1>5. \/ /\ Len(pushed) = Len(audit) + 1
         /\ \A i \in 1..Len(audit) : pushed[i] = audit[i]
         /\ pushed[Len(pushed)] = record
      \/ /\ Len(pushed) = Len(audit)
         /\ \A i \in 1..Len(audit) - 1 : pushed[i] = audit[i + 1]
         /\ pushed[Len(pushed)] = record
  BY <1>k, <1>4, acmeP!AuditPushedElements, DemoInputs, WidthAssumption,
     AuditCapAssumption, MaxU64Assumption, MaxI64Assumption
<1>6. \A i \in 1..Len(pushed) - 1 : \E j \in 1..Len(audit) : pushed[i] = audit[j]
  <2>1. CASE Len(pushed) = Len(audit) + 1
             /\ \A i \in 1..Len(audit) : pushed[i] = audit[i]
    BY <1>4, <2>1
  <2>2. CASE Len(pushed) = Len(audit)
             /\ \A i \in 1..Len(audit) - 1 : pushed[i] = audit[i + 1]
    <3> SUFFICES ASSUME NEW i \in 1..Len(pushed) - 1
                 PROVE  \E j \in 1..Len(audit) : pushed[i] = audit[j]
      OBVIOUS
    <3>1. i + 1 \in 1..Len(audit) /\ pushed[i] = audit[i + 1]
      BY <1>4, <2>2
    <3> QED
      BY <3>1
  <2> QED
    BY <1>5, <2>1, <2>2
<1>7. pushed[Len(pushed)].reason = acme_runtime'.last_reason
  BY <1>3, <1>5
<1>8. acme_runtime'.rolling_audit = pushed
  BY <1>3
<1>9. acme_runtime.total_allowed \in Nat
  BY <1>k, MaxU64Assumption DEF acmeP!QuotaRuntime, acmeP!U64
<1> HIDE DEF pushed
<1> QED
  BY <1>1, <1>2, <1>6, <1>7, <1>8, <1>9 DEF acmeP!CountedOnce, acmeP!RefusedUnchanged

LEMMA GlobexConsumed ==
  ASSUME globexP!IInv, NEW action, globex!ConsumeRequest(action)
  PROVE  globex_runtime'.rolling_sequence = globex_runtime.rolling_sequence + 1
<1>1. /\ globex_runtime \in globexP!QuotaRuntime /\ globex_active \in BOOLEAN
      /\ globex_policy \in globexP!QuotaPolicy /\ clock \in globexP!Timestamp
  BY WidthAssumption, MaxI64Assumption
  DEF globexP!IInv, globexP!TypeOK, globexP!Timestamp
<1>2. globexP!Consume(globex_runtime, globex_active, globex_mask, globex_policy,
                      action, clock, globex_runtime')
  BY GlobexSame DEF globexP!ConsumeRequest
<1>3. globexP!CountedOnce(globex_runtime, globex_runtime')
  BY <1>1, <1>2, globexP!ConsumeEffect, DemoInputs, WidthAssumption,
     AuditCapAssumption, MaxU64Assumption, MaxI64Assumption
<1> QED
  BY <1>3 DEF globexP!CountedOnce

\* No other instruction decides a request, and only a settlement moves what is
\* settled: all of it, then, and the audit is empty.
LEMMA AcmeOtherwise ==
  ASSUME acmeP!IInv
  PROVE  /\ \A mask : acme!AttachPolicyToRole(mask) =>
              UNCHANGED <<acme_active, acme_runtime, acme_checkpoint>>
         /\ \A quota, window : acme!CreateQuotaPolicy(quota, window) =>
              UNCHANGED <<acme_active, acme_runtime, acme_checkpoint>>
         /\ acme!RevokeApiKey =>
              ~acme_active' /\ UNCHANGED <<acme_runtime, acme_checkpoint>>
         /\ acme!InitializeQuotaRuntime =>
              /\ acme_runtime.rolling_sequence = 0
              /\ acme_checkpoint.settled_sequence = 0
              /\ acme_runtime'.rolling_sequence = 0
              /\ acme_checkpoint'.settled_sequence = 0
              /\ acme_runtime'.rolling_audit = << >>
              /\ UNCHANGED acme_active
         /\ acme!SettleRuntimeCheckpoint =>
              /\ acme_runtime'.rolling_sequence = acme_runtime.rolling_sequence
              /\ acme_runtime'.total_rejected = acme_runtime.total_rejected
              /\ acme_runtime'.rolling_audit = << >>
              /\ acme_checkpoint'.settled_sequence = acme_runtime.rolling_sequence
              /\ acme_checkpoint'.total_rejected = acme_runtime.total_rejected
              /\ UNCHANGED acme_active
<1>1. \A mask : acme!AttachPolicyToRole(mask) =>
        UNCHANGED <<acme_active, acme_runtime, acme_checkpoint>>
  BY DEF acme!AttachPolicyToRole
<1>2. \A quota, window : acme!CreateQuotaPolicy(quota, window) =>
        UNCHANGED <<acme_active, acme_runtime, acme_checkpoint>>
  BY DEF acme!CreateQuotaPolicy
<1>3. acme!RevokeApiKey =>
        ~acme_active' /\ UNCHANGED <<acme_runtime, acme_checkpoint>>
  BY DEF acme!RevokeApiKey
<1>4. ASSUME acme!InitializeQuotaRuntime
      PROVE  /\ acme_runtime.rolling_sequence = 0
             /\ acme_checkpoint.settled_sequence = 0
             /\ acme_runtime'.rolling_sequence = 0
             /\ acme_checkpoint'.settled_sequence = 0
             /\ acme_runtime'.rolling_audit = << >>
             /\ UNCHANGED acme_active
  <2>1. /\ acme_runtime = acmeP!ZeroedRuntime
        /\ acme_checkpoint = acmeP!ZeroedCheckpoint
        /\ acme_runtime' = acmeP!FreshRuntime(clock)
        /\ acme_checkpoint' = acmeP!FreshCheckpoint(acme_checkpoint, clock)
        /\ UNCHANGED acme_active
    BY <1>4, AcmeSame DEF acmeP!InitializeQuotaRuntime, acmeP!IInv, acmeP!SetupOrder
  <2> QED
    BY <2>1 DEF acmeP!ZeroedRuntime, acmeP!ZeroedCheckpoint, acmeP!FreshRuntime,
                acmeP!FreshCheckpoint
<1>5. ASSUME acme!SettleRuntimeCheckpoint
      PROVE  /\ acme_runtime'.rolling_sequence = acme_runtime.rolling_sequence
             /\ acme_runtime'.total_rejected = acme_runtime.total_rejected
             /\ acme_runtime'.rolling_audit = << >>
             /\ acme_checkpoint'.settled_sequence = acme_runtime.rolling_sequence
             /\ acme_checkpoint'.total_rejected = acme_runtime.total_rejected
             /\ UNCHANGED acme_active
  <2>1. /\ acme_runtime \in acmeP!QuotaRuntime
        /\ acme_checkpoint \in acmeP!AuditCheckpoint
    BY DEF acmeP!IInv, acmeP!TypeOK
  <2>2. /\ acme_runtime' = acmeP!SettledRuntime(acme_runtime, clock)
        /\ acme_checkpoint'
             = acmeP!SettledCheckpoint(acme_checkpoint, acme_runtime, clock)
        /\ UNCHANGED acme_active
    BY <1>5, AcmeSame DEF acmeP!SettleRuntimeCheckpoint
  <2> QED
    BY <2>1, <2>2 DEF acmeP!SettledRuntime, acmeP!SettledCheckpoint,
                      acmeP!QuotaRuntime, acmeP!AuditCheckpoint
<1> QED
  BY <1>1, <1>2, <1>3, <1>4, <1>5

LEMMA GlobexOtherwise ==
  ASSUME globexP!IInv
  PROVE  /\ \A mask : globex!AttachPolicyToRole(mask) => UNCHANGED globex_runtime
         /\ \A quota, window :
              globex!CreateQuotaPolicy(quota, window) => UNCHANGED globex_runtime
         /\ globex!RevokeApiKey => UNCHANGED globex_runtime
         /\ globex!InitializeQuotaRuntime \/ globex!SettleRuntimeCheckpoint =>
              globex_runtime'.rolling_sequence = globex_runtime.rolling_sequence
<1>1. ASSUME globex!InitializeQuotaRuntime
      PROVE  globex_runtime'.rolling_sequence = globex_runtime.rolling_sequence
  <2>1. /\ globex_runtime = globexP!ZeroedRuntime
        /\ globex_runtime' = globexP!FreshRuntime(clock)
    BY <1>1, GlobexSame
    DEF globexP!InitializeQuotaRuntime, globexP!IInv, globexP!SetupOrder
  <2> QED
    BY <2>1 DEF globexP!ZeroedRuntime, globexP!FreshRuntime
<1>2. ASSUME globex!SettleRuntimeCheckpoint
      PROVE  globex_runtime'.rolling_sequence = globex_runtime.rolling_sequence
  <2>1. /\ globex_runtime \in globexP!QuotaRuntime
        /\ globex_runtime' = globexP!SettledRuntime(globex_runtime, clock)
    BY <1>2, GlobexSame
    DEF globexP!IInv, globexP!TypeOK, globexP!SettleRuntimeCheckpoint
  <2> QED
    BY <2>1 DEF globexP!SettledRuntime, globexP!QuotaRuntime
<1> QED
  BY <1>1, <1>2
  DEF globex!AttachPolicyToRole, globex!CreateQuotaPolicy, globex!RevokeApiKey

(***************************************************************************)
(* The lines of the scenario.                                              *)
(***************************************************************************)
LEMMA TheLines ==
  /\ Len(Scenario) = 27
  /\ Scenario[1] = Line("both", "gateway")
  /\ Scenario[2] = Line("acme", "organization")
  /\ Scenario[3] = Line("acme", "role")
  /\ Scenario[4] = Line("acme", "attach_policy")
  /\ Scenario[5] = Line("acme", "api_key")
  /\ Scenario[6] = Line("acme", "quota_policy")
  /\ Scenario[7] = Line("acme", "runtime")
  /\ Scenario[8] = Line("globex", "organization")
  /\ Scenario[9] = Line("globex", "role")
  /\ Scenario[10] = Line("globex", "attach_policy")
  /\ Scenario[11] = Line("globex", "api_key")
  /\ Scenario[12] = Line("globex", "quota_policy")
  /\ Scenario[13] = Line("globex", "runtime")
  /\ Scenario[14] = Line("acme", "metrics:read")
  /\ Scenario[15] = Line("acme", "users:write")
  /\ Scenario[16] = Line("acme", "check_rbac")
  /\ Scenario[17] = Line("acme", "metrics:read")
  /\ Scenario[18] = Line("acme", "metrics:read")
  /\ Scenario[19] = Line("acme", "check_quota")
  /\ Scenario[20] = Line("globex", "users:write")
  /\ Scenario[21] = Line("globex", "check_isolation")
  /\ Scenario[22] = Line("acme", "settle")
  /\ Scenario[23] = Line("acme", "fetch_settled")
  /\ Scenario[24] = Line("acme", "check_settled")
  /\ Scenario[25] = Line("acme", "revoke")
  /\ Scenario[26] = Line("acme", "metrics:read")
  /\ Scenario[27] = Line("acme", "check_revoked")
  BY DEF Scenario, EnsureTenant

\* The lines at which a run does something.
LinesOf(does) == {i \in 1..27 : Scenario[i].does = does}

LEMMA LinesThatDo ==
  /\ LinesOf("gateway") = {1}
  /\ LinesOf("organization") = {2, 8}
  /\ LinesOf("role") = {3, 9}
  /\ LinesOf("attach_policy") = {4, 10}
  /\ LinesOf("api_key") = {5, 11}
  /\ LinesOf("quota_policy") = {6, 12}
  /\ LinesOf("runtime") = {7, 13}
  /\ LinesOf("metrics:read") = {14, 17, 18, 26}
  /\ LinesOf("users:write") = {15, 20}
  /\ LinesOf("check_rbac") = {16}
  /\ LinesOf("check_quota") = {19}
  /\ LinesOf("check_isolation") = {21}
  /\ LinesOf("settle") = {22}
  /\ LinesOf("fetch_settled") = {23}
  /\ LinesOf("check_settled") = {24}
  /\ LinesOf("revoke") = {25}
  /\ LinesOf("check_revoked") = {27}
  BY TheLines DEF LinesOf, Line
LEMMA TenantsOfLines ==
  /\ \A i \in 2..7 : Scenario[i].tenant = "acme"
  /\ \A i \in 8..13 : Scenario[i].tenant = "globex"
  /\ \A i \in {20, 21} : Scenario[i].tenant = "globex"
  /\ \A i \in 14..19 \cup 22..27 : Scenario[i].tenant = "acme"
  BY TheLines DEF Line

(***************************************************************************)
(* Whatever is sent, by a run or by anybody, is an instruction of one      *)
(* tenant's, so each tenant is a BaseRuntime.                              *)
(***************************************************************************)
LEMMA SameNext ==
  /\ [acme!Next]_(acme!vars) <=> [acmeP!Next]_(acmeP!vars)
  /\ [globex!Next]_(globex!vars) <=> [globexP!Next]_(globexP!vars)
<1>1. acme!Next <=> acmeP!Next
  BY AcmeSame DEF acme!Next, acmeP!Next
<1>2. globex!Next <=> globexP!Next
  BY GlobexSame DEF globex!Next, globexP!Next
<1> QED
  BY <1>1, <1>2 DEF acme!vars, acmeP!vars, globex!vars, globexP!vars

LEMMA ClientStep ==
  ASSUME [DemoNext]_demoVars
  PROVE  [acme!Next]_(acme!vars) /\ [globex!Next]_(globex!vars)
<1> USE DEF acmeVars, globexVars, acme!vars, globex!vars
<1>1. CASE UNCHANGED <<clock, acmeVars, globexVars>>
  BY <1>1
<1>2. CASE \E r \in Runs : AttachPolicy(r)
  BY <1>2 DEF AttachPolicy, OnTenant, PermissionMask, acme!Next, globex!Next,
              acme!AttachPolicyToRole, globex!AttachPolicyToRole
<1>3. CASE \E r \in Runs : CreateQuotaPolicy(r)
  BY <1>3 DEF CreateQuotaPolicy, OnTenant, MaxRequests, acme!Next, globex!Next,
              acme!CreateQuotaPolicy, globex!CreateQuotaPolicy
<1>4. CASE \E r \in Runs : InitializeRuntime(r)
  BY <1>4 DEF InitializeRuntime, OnTenant, acme!Next, globex!Next,
              acme!InitializeQuotaRuntime, globex!InitializeQuotaRuntime
<1>5. CASE \E r \in Runs, does \in {"metrics:read", "users:write"} : Request(r, does)
  BY <1>5 DEF Request, RequestAction, OnTenant, acme!Next, globex!Next,
              acme!ConsumeRequest, globex!ConsumeRequest
<1>6. CASE \E r \in Runs : Settle(r)
  BY <1>6 DEF Settle, OnTenant, acme!Next, globex!Next,
              acme!SettleRuntimeCheckpoint, globex!SettleRuntimeCheckpoint
<1>7. CASE \E r \in Runs : Revoke(r)
  BY <1>7 DEF Revoke, OnTenant, acme!Next, globex!Next,
              acme!RevokeApiKey, globex!RevokeApiKey
<1>8. CASE Tick
  BY <1>8 DEF Tick, acme!Next, globex!Next, acme!Tick, globex!Tick
<1>9. CASE \E tenant \in Tenants, action \in {0, 3} : OutsideRequest(tenant, action)
  BY <1>9 DEF OutsideRequest, acme!Next, globex!Next, acme!ConsumeRequest,
              globex!ConsumeRequest
<1>10. CASE UNCHANGED demoVars
  BY <1>10 DEF demoVars
<1> QED
  BY <1>1, <1>2, <1>3, <1>4, <1>5, <1>6, <1>7, <1>8, <1>9, <1>10
  DEF DemoNext, Throws, FetchMaybe, InitializeGateway, CreateOrganization,
      OrganizationRefused, CreateForTenant, FetchSettled, Check, OutsideGateway

\* Both tenants' accounts are BaseRuntimes, whatever is sent.
TenantsInv == acmeP!IInv /\ globexP!IInv

LEMMA TenantsInit == DemoInit => TenantsInv
<1> SUFFICES ASSUME DemoInit PROVE TenantsInv
  OBVIOUS
<1>1. acmeP!Init /\ globexP!Init
  BY AcmeSame, GlobexSame DEF DemoInit
<1>2. acmeP!IInv
  BY <1>1, acmeP!InitInvariant, DemoInputs, WidthAssumption, AuditCapAssumption,
     MaxU64Assumption, MaxI64Assumption
<1>3. globexP!IInv
  BY <1>1, globexP!InitInvariant, DemoInputs, WidthAssumption,
     AuditCapAssumption, MaxU64Assumption, MaxI64Assumption
<1> QED
  BY <1>2, <1>3 DEF TenantsInv

LEMMA TenantsStep == TenantsInv /\ [DemoNext]_demoVars => TenantsInv'
<1> SUFFICES ASSUME TenantsInv, [DemoNext]_demoVars PROVE TenantsInv'
  OBVIOUS
<1>1. [acmeP!Next]_(acmeP!vars) /\ [globexP!Next]_(globexP!vars)
  BY ClientStep, SameNext
<1>2. acmeP!IInv /\ globexP!IInv
  BY DEF TenantsInv
<1>3. acmeP!IInv'
  BY <1>1, <1>2, acmeP!StepInvariant, DemoInputs, WidthAssumption,
     AuditCapAssumption, MaxU64Assumption, MaxI64Assumption
<1>4. globexP!IInv'
  BY <1>1, <1>2, globexP!StepInvariant, DemoInputs, WidthAssumption,
     AuditCapAssumption, MaxU64Assumption, MaxI64Assumption
<1> QED
  BY <1>3, <1>4 DEF TenantsInv

\* To the program every run is one more client: whatever several runs of the
\* demo do at once, whatever they do wrong and whoever else requests meanwhile,
\* each tenant's accounts behave as BaseRuntime says.
THEOREM DemoIsClient == DemoSpec => acme!Spec /\ globex!Spec
<1>1. DemoInit => acme!Init /\ globex!Init
  BY DEF DemoInit
<1>2. [DemoNext]_demoVars => [acme!Next]_(acme!vars) /\ [globex!Next]_(globex!vars)
  BY ClientStep
<1> QED
  BY <1>1, <1>2, PTL DEF DemoSpec, acme!Spec, globex!Spec

(***************************************************************************)
(* Where the runs are.                                                     *)
(***************************************************************************)
Requesters == Runs \cup {NoRun}
Outcomes == {"running", "reported", "failed", "refused", "unexpected"}
Creatable == {"organization", "role", "api_key"}

DemoTypeOK ==
  /\ wallet \in [Runs -> Wallets]
  /\ at \in [Runs -> 1..27]
  /\ outcome \in [Runs -> Outcomes]
  /\ authority \in [Tenants -> Wallets \cup {NoWallet}]
  /\ created \in [Tenants -> SUBSET Creatable]
  /\ asked \in [Tenants -> Seq(Requesters)]

\* The three ways a step leaves the run that takes it.
Stays(s) ==
  at' = at /\ \E result \in Outcomes \ {"reported"} :
                outcome' = [outcome EXCEPT ![s] = result]
Advances(s) ==
  at[s] # 27 /\ at' = [at EXCEPT ![s] = @ + 1] /\ outcome' = outcome
Reports(s) ==
  at[s] = 27 /\ at' = at /\ outcome' = [outcome EXCEPT ![s] = "reported"]

LEMMA RunMoves ==
  ASSUME DemoTypeOK, NEW s \in Runs
  PROVE  /\ Goes(s) => Advances(s) \/ Reports(s)
         /\ \A result \in Outcomes \ {"reported"} : EndsAs(s, result) => Stays(s)
         /\ Sent(s) => \/ Stays(s) \/ Advances(s) \/ Reports(s)
         /\ at' = at /\ outcome' = outcome /\ outcome[s] = "running" => Stays(s)
<1>1. Goes(s) => Advances(s) \/ Reports(s)
  BY TheLines DEF Goes, EndsAs, Advances, Reports
<1>2. \A result \in Outcomes \ {"reported"} : EndsAs(s, result) => Stays(s)
  BY DEF EndsAs, Stays
<1>3. at' = at /\ outcome' = outcome /\ outcome[s] = "running" => Stays(s)
  BY DEF Stays, DemoTypeOK, Outcomes
<1> QED
  BY <1>1, <1>2, <1>3 DEF Sent, Outcomes

\* Whichever way, no other run is moved.
LEMMA MovesOnlyOne ==
  ASSUME DemoTypeOK, NEW s \in Runs, Stays(s) \/ Advances(s) \/ Reports(s)
  PROVE  /\ at' \in [Runs -> 1..27] /\ outcome' \in [Runs -> Outcomes]
         /\ \A r \in Runs \ {s} : at'[r] = at[r] /\ outcome'[r] = outcome[r]
         /\ at'[s] = IF Advances(s) THEN at[s] + 1 ELSE at[s]
         /\ outcome'[s] = "reported" => Reports(s) \/ outcome[s] = "reported"
<1>1. CASE Stays(s)
  BY <1>1 DEF Stays, Advances, Reports, DemoTypeOK, Outcomes
<1>2. CASE Advances(s)
  <2>1. at[s] \in 1..27 /\ at[s] # 27
    BY <1>2 DEF Advances, DemoTypeOK
  <2>2. at[s] + 1 \in 1..27
    BY <2>1
  <2>3. at' = [at EXCEPT ![s] = at[s] + 1] /\ outcome' = outcome
    BY <1>2 DEF Advances
  <2>4. at'[s] = at[s] + 1 /\ at' \in [Runs -> 1..27]
    BY <2>2, <2>3 DEF DemoTypeOK
  <2>5. \A r \in Runs \ {s} : at'[r] = at[r]
    BY <2>3 DEF DemoTypeOK
  <2> QED
    BY <1>2, <2>3, <2>4, <2>5 DEF DemoTypeOK
<1>3. CASE Reports(s)
  BY <1>3 DEF Stays, Advances, Reports, DemoTypeOK, Outcomes
<1> QED
  BY <1>1, <1>2, <1>3

\* What the run s may do next.
RunStep(s) ==
  \/ Throws(s) \/ FetchMaybe(s) \/ InitializeGateway(s)
  \/ CreateOrganization(s) \/ OrganizationRefused(s)
  \/ \E what \in {"role", "api_key"} : CreateForTenant(s, what)
  \/ AttachPolicy(s) \/ CreateQuotaPolicy(s) \/ InitializeRuntime(s)
  \/ \E does \in {"metrics:read", "users:write"} : Request(s, does)
  \/ Settle(s) \/ Revoke(s) \/ FetchSettled(s) \/ Check(s)

\* And everybody else.
OutsideStep ==
  \/ \E tenant \in Tenants, action \in {0, 3} : OutsideRequest(tenant, action)
  \/ OutsideGateway

StepBy(who) == IF who \in Runs THEN RunStep(who) ELSE OutsideStep

LEMMA WhoSteps ==
  ASSUME [DemoNext]_demoVars
  PROVE  /\ (\E s \in Runs : RunStep(s)) \/ OutsideStep \/ Tick \/ UNCHANGED demoVars
         /\ (\E who \in Requesters : StepBy(who)) \/ Tick \/ UNCHANGED demoVars
<1>1. (\E s \in Runs : RunStep(s)) \/ OutsideStep \/ Tick \/ UNCHANGED demoVars
  BY DEF DemoNext, RunStep, OutsideStep
<1> QED
  BY <1>1, RunAssumption DEF StepBy, Requesters

\* Who is no run moves none, and creates no account of a tenant's.
LEMMA OutsideMovesNone ==
  ASSUME OutsideStep
  PROVE  UNCHANGED <<authority, created, wallet, at, outcome>>
  BY DEF OutsideStep, OutsideRequest, OutsideGateway, controlVars, runVars

LEMMA StepMoves ==
  ASSUME DemoTypeOK, NEW s \in Runs, RunStep(s)
  PROVE  Stays(s) \/ Advances(s) \/ Reports(s)
<1> USE RunMoves
<1>1. CASE \/ Throws(s) \/ OrganizationRefused(s) \/ FetchMaybe(s) \/ Check(s)
           \/ FetchSettled(s)
  BY <1>1 DEF Throws, OrganizationRefused, FetchMaybe, Does, Check,
              FetchSettled, Outcomes
<1>2. CASE \/ InitializeGateway(s) \/ CreateOrganization(s)
           \/ \E what \in {"role", "api_key"} : CreateForTenant(s, what)
           \/ AttachPolicy(s) \/ CreateQuotaPolicy(s) \/ InitializeRuntime(s)
           \/ \E does \in {"metrics:read", "users:write"} : Request(s, does)
           \/ Settle(s) \/ Revoke(s)
  BY <1>2 DEF InitializeGateway, CreateOrganization, CreateForTenant,
              AttachPolicy, CreateQuotaPolicy, InitializeRuntime, Request,
              Settle, Revoke, OnTenant
<1> QED
  BY <1>1, <1>2 DEF RunStep

\* A run is one of those who make requests.
LEMMA RunIsRequester ==
  ASSUME NEW s \in Runs
  PROVE  s \in Requesters /\ (StepBy(s) <=> RunStep(s))
  BY DEF Requesters, StepBy

\* Only the run that moves on leaves its line, and only a report reports.
LEMMA RequesterMoves ==
  ASSUME DemoTypeOK, NEW who \in Requesters, StepBy(who), NEW r \in Runs
  PROVE  /\ r # who \/ ~Advances(who) => at'[r] = at[r]
         /\ r # who \/ ~Reports(who) =>
              (outcome'[r] = "reported" => outcome[r] = "reported")
<1>1. CASE who \in Runs
  BY <1>1, StepMoves, MovesOnlyOne DEF StepBy
<1>2. CASE who \notin Runs
  BY <1>2, OutsideMovesNone DEF StepBy
<1> QED
  BY <1>1, <1>2

LEMMA DoesAt ==
  ASSUME DemoTypeOK, NEW s \in Runs, NEW does, Does(s, does)
  PROVE  at[s] \in LinesOf(does) /\ outcome[s] = "running"
  BY DEF DemoTypeOK, Does, LinesOf

\* For whom a line asks for what it asks for.
LEMMA TenantAt ==
  ASSUME DemoTypeOK, NEW s \in Runs, at[s] # 1
  PROVE  /\ Tenant(s) \in Tenants
         /\ Tenant(s) = "globex" <=> at[s] \in 8..13 \cup {20, 21}
<1>1. at[s] \in 2..27
  BY DEF DemoTypeOK
<1>2. CASE at[s] \in 8..13 \cup {20, 21}
  BY <1>2, TenantsOfLines DEF Tenant, Tenants
<1>3. CASE at[s] \in 2..7 \cup 14..19 \cup 22..27
  BY <1>3, TenantsOfLines DEF Tenant, Tenants
<1> QED
  BY <1>1, <1>2, <1>3

\* A request is put down for the run that made it.
LEMMA RequestedBy ==
  ASSUME DemoTypeOK, NEW s \in Runs, NEW does \in {"metrics:read", "users:write"},
         Request(s, does)
  PROVE  /\ at[s] \in {14, 15, 17, 18, 20, 26}
         /\ \/ /\ at[s] # 20
               /\ \E action : acme!ConsumeRequest(action)
               /\ asked' = [asked EXCEPT !["acme"] = Append(@, s)]
               /\ UNCHANGED globexVars
            \/ /\ at[s] = 20
               /\ \E action : globex!ConsumeRequest(action)
               /\ asked' = [asked EXCEPT !["globex"] = Append(@, s)]
               /\ UNCHANGED acmeVars
         /\ UNCHANGED <<controlVars, wallet>>
         /\ Stays(s) \/ Advances(s)
<1>1. at[s] \in {14, 15, 17, 18, 20, 26}
  BY DoesAt, LinesThatDo DEF Request
<1>2. Tenant(s) = "globex" <=> at[s] = 20
  BY <1>1, TenantAt
<1>3. Stays(s) \/ Advances(s)
  BY <1>1, RunMoves DEF Request, OnTenant, Reports
<1> QED
  BY <1>1, <1>2, <1>3 DEF Request, OnTenant, Sent

LEMMA DemoTypeStep ==
  ASSUME DemoTypeOK, [DemoNext]_demoVars
  PROVE  DemoTypeOK'
<1>1. at' \in [Runs -> 1..27] /\ outcome' \in [Runs -> Outcomes]
  <2>1. CASE \E s \in Runs : RunStep(s)
    BY <2>1, StepMoves, MovesOnlyOne
  <2>2. CASE OutsideStep
    BY <2>2, OutsideMovesNone DEF DemoTypeOK
  <2>3. CASE Tick \/ UNCHANGED demoVars
    BY <2>3 DEF Tick, demoVars, runVars, DemoTypeOK
  <2> QED
    BY <2>1, <2>2, <2>3, WhoSteps
<1>2. wallet' = wallet
  BY OutsideMovesNone DEF OutsideStep, DemoNext, demoVars, runVars, Throws, OrganizationRefused, FetchMaybe,
         Check, FetchSettled, InitializeGateway, CreateOrganization,
         CreateForTenant, AttachPolicy, CreateQuotaPolicy, InitializeRuntime,
         Request, Settle, Revoke, OnTenant, Sent, Tick
<1>3. authority' \in [Tenants -> Wallets \cup {NoWallet}]
      /\ created' \in [Tenants -> SUBSET Creatable]
  <2>1. CASE \E s \in Runs : CreateOrganization(s)
    <3>1. PICK s \in Runs : CreateOrganization(s)
      BY <2>1
    <3>2. Tenant(s) \in Tenants
      BY <3>1, DoesAt, LinesThatDo, TenantAt DEF CreateOrganization
    <3> QED
      BY <3>1, <3>2 DEF CreateOrganization, DemoTypeOK, Creatable
  <2>2. CASE \E s \in Runs, what \in {"role", "api_key"} : CreateForTenant(s, what)
    <3>1. PICK s \in Runs, what \in {"role", "api_key"} : CreateForTenant(s, what)
      BY <2>2
    <3>2. Tenant(s) \in Tenants
      BY <3>1, DoesAt, LinesThatDo, TenantAt DEF CreateForTenant
    <3> QED
      BY <3>1, <3>2 DEF CreateForTenant, DemoTypeOK, Creatable
  <2>3. CASE UNCHANGED <<authority, created>>
    BY <2>3 DEF DemoTypeOK
  <2> QED
    BY <2>1, <2>2, <2>3, OutsideMovesNone
    DEF OutsideStep, DemoNext, demoVars, controlVars, Throws, OrganizationRefused, FetchMaybe,
        Check, FetchSettled, InitializeGateway, AttachPolicy, CreateQuotaPolicy,
        InitializeRuntime, Request, Settle, Revoke, OnTenant, Tick
<1>4. asked' \in [Tenants -> Seq(Requesters)]
  <2>0. ASSUME NEW tenant \in Tenants, NEW who \in Requesters,
               asked' = [asked EXCEPT ![tenant] = Append(@, who)]
        PROVE  asked' \in [Tenants -> Seq(Requesters)]
    <3>1. asked[tenant] \in Seq(Requesters)
      BY DEF DemoTypeOK
    <3>2. Append(asked[tenant], who) \in Seq(Requesters)
      BY <3>1
    <3> QED
      BY <2>0, <3>2 DEF DemoTypeOK
  <2>1. CASE \E s \in Runs, does \in {"metrics:read", "users:write"} : Request(s, does)
    <3>1. PICK s \in Runs, tenant \in Tenants :
            asked' = [asked EXCEPT ![tenant] = Append(@, s)]
      BY <2>1, RequestedBy DEF Tenants
    <3> QED
      BY <2>0, <3>1 DEF Requesters
  <2>2. CASE \E tenant \in Tenants, action \in {0, 3} : OutsideRequest(tenant, action)
    BY <2>0, <2>2 DEF OutsideRequest, Requesters
  <2>3. CASE UNCHANGED asked
    BY <2>3 DEF DemoTypeOK
  <2> QED
    BY <2>1, <2>2, <2>3
    DEF DemoNext, demoVars, Throws, OrganizationRefused, FetchMaybe, Check,
        FetchSettled, InitializeGateway, CreateOrganization, CreateForTenant,
        AttachPolicy, CreateQuotaPolicy, InitializeRuntime, Settle, Revoke, Tick,
        OutsideGateway
<1> QED
  BY <1>1, <1>2, <1>3, <1>4 DEF DemoTypeOK

(***************************************************************************)
(* Whose tenants they are.  The gates are attach_policy's two lines, which *)
(* every run passes and whose transaction only the authority can sign.     *)
(***************************************************************************)
SetUpInv ==
  /\ \A tenant \in Tenants :
       authority[tenant] # NoWallet => "organization" \in created[tenant]
  /\ \A r \in Runs : /\ at[r] > 4 => authority["acme"] = wallet[r]
                     /\ at[r] > 10 => authority["globex"] = wallet[r]

\* An organization's authority is set once.
LEMMA AuthorityKept ==
  ASSUME DemoTypeOK, SetUpInv, [DemoNext]_demoVars
  PROVE  /\ \A tenant \in Tenants :
              /\ authority[tenant] \in {NoWallet, authority'[tenant]}
              /\ authority'[tenant] # NoWallet => "organization" \in created'[tenant]
         /\ wallet' = wallet
<1>1. CASE \E s \in Runs : CreateOrganization(s)
  BY <1>1, DoesAt, LinesThatDo, TenantAt
  DEF CreateOrganization, DemoTypeOK, SetUpInv, Creatable, Sent
<1>2. CASE \E s \in Runs, what \in {"role", "api_key"} : CreateForTenant(s, what)
  BY <1>2, DoesAt, LinesThatDo, TenantAt
  DEF CreateForTenant, DemoTypeOK, SetUpInv, Creatable, Sent
<1>3. CASE UNCHANGED <<authority, created, wallet>>
  BY <1>3 DEF SetUpInv
<1> QED
  BY <1>1, <1>2, <1>3, OutsideMovesNone
  DEF OutsideStep, DemoNext, demoVars, runVars, controlVars, Throws, OrganizationRefused,
      FetchMaybe, Check, FetchSettled, InitializeGateway, AttachPolicy,
      CreateQuotaPolicy, InitializeRuntime, Request, Settle, Revoke, OnTenant,
      Tick, Sent

\* A line is left by the action that does what it says.
LEMMA LineTaken ==
  ASSUME DemoTypeOK, NEW s \in Runs, RunStep(s), Advances(s) \/ Reports(s)
  PROVE  /\ at[s] \in {4, 10} => AttachPolicy(s)
         /\ at[s] \in {14, 17, 18, 26} => Request(s, "metrics:read")
         /\ at[s] \in {15, 20} => Request(s, "users:write")
         /\ at[s] = 22 => Settle(s)
         /\ at[s] = 25 => Revoke(s)
         /\ at[s] \in {16, 19, 21, 24, 27} => Check(s) /\ Expected(s)
<1>0. \A result \in Outcomes \ {"reported"} : ~EndsAs(s, result)
  <2>1. ASSUME Advances(s) PROVE at' # at
    <3>1. at'[s] = at[s] + 1 /\ at[s] \in 1..27
      BY <2>1, MovesOnlyOne DEF DemoTypeOK
    <3> QED
      BY <3>1
  <2>2. ASSUME Reports(s) PROVE outcome'[s] = "reported"
    BY <2>2 DEF Reports, DemoTypeOK
  <2>3. ASSUME NEW result \in Outcomes \ {"reported"}, EndsAs(s, result)
        PROVE  at' = at /\ outcome'[s] # "reported"
    BY <2>3 DEF EndsAs, DemoTypeOK
  <2> QED
    BY <2>1, <2>2, <2>3
<1>1. ~Throws(s) /\ ~OrganizationRefused(s)
  BY <1>0 DEF Throws, OrganizationRefused, Outcomes
<1>2. /\ FetchMaybe(s) => at[s] \in {1, 2, 8, 3, 9, 5, 11, 7, 13}
      /\ InitializeGateway(s) => at[s] = 1
      /\ CreateOrganization(s) => at[s] \in {2, 8}
      /\ \A what \in {"role", "api_key"} : CreateForTenant(s, what) =>
           at[s] \in {3, 9, 5, 11}
      /\ AttachPolicy(s) => at[s] \in {4, 10}
      /\ CreateQuotaPolicy(s) => at[s] \in {6, 12}
      /\ InitializeRuntime(s) => at[s] \in {7, 13}
  BY DoesAt, LinesThatDo
  DEF FetchMaybe, Ensured, InitializeGateway, CreateOrganization,
      CreateForTenant, AttachPolicy, CreateQuotaPolicy, InitializeRuntime
<1>3. /\ Request(s, "metrics:read") => at[s] \in {14, 17, 18, 26}
      /\ Request(s, "users:write") => at[s] \in {15, 20}
      /\ Settle(s) => at[s] = 22
      /\ Revoke(s) => at[s] = 25
      /\ FetchSettled(s) => at[s] = 23
      /\ Check(s) => at[s] \in {16, 19, 21, 24, 27}
  BY DoesAt, LinesThatDo DEF Request, Settle, Revoke, FetchSettled, Check
<1>4. Check(s) => Expected(s)
  BY <1>0 DEF Check, Outcomes
<1> QED
  BY <1>1, <1>2, <1>3, <1>4 DEF RunStep

LEMMA SetUpStep ==
  ASSUME DemoTypeOK, SetUpInv, [DemoNext]_demoVars
  PROVE  SetUpInv'
<1>1. ASSUME NEW r \in Runs, NEW tenant \in Tenants, authority[tenant] = wallet[r]
      PROVE  authority'[tenant] = wallet'[r]
  BY <1>1, AuthorityKept, WalletAssumption DEF DemoTypeOK
<1>2. CASE \E s \in Runs : RunStep(s)
  <2>1. PICK s \in Runs : RunStep(s)
    BY <1>2
  <2>2. \A r \in Runs \ {s} : at'[r] = at[r]
    BY <2>1, StepMoves, MovesOnlyOne
  <2>3. /\ at'[s] > 4 => authority["acme"] = wallet[s]
        /\ at'[s] > 10 => authority["globex"] = wallet[s]
    <3>1. CASE ~Advances(s)
      BY <2>1, <3>1, StepMoves, MovesOnlyOne DEF SetUpInv
    <3>2. CASE Advances(s) /\ at[s] \notin {4, 10}
      <4>1. at'[s] = at[s] + 1 /\ at[s] \in 1..27
        BY <3>2, MovesOnlyOne DEF DemoTypeOK
      <4>2. /\ at'[s] > 4 => at[s] > 4
            /\ at'[s] > 10 => at[s] > 10
        BY <3>2, <4>1
      <4> QED
        BY <4>2 DEF SetUpInv
    <3>3. CASE Advances(s) /\ at[s] \in {4, 10}
      <4>1. SignedFor(s) /\ at'[s] = at[s] + 1
        BY <2>1, <3>3, LineTaken, MovesOnlyOne DEF AttachPolicy
      <4>2. Tenant(s) = IF at[s] = 4 THEN "acme" ELSE "globex"
        BY <3>3, TenantAt DEF Tenants
      <4> QED
        BY <3>3, <4>1, <4>2 DEF SetUpInv, SignedFor
    <3> QED
      BY <3>1, <3>2, <3>3
  <2>4. \A r \in Runs : /\ at'[r] > 4 => authority["acme"] = wallet[r]
                        /\ at'[r] > 10 => authority["globex"] = wallet[r]
    BY <2>2, <2>3 DEF SetUpInv
  <2> QED
    BY <1>1, <2>4, AuthorityKept DEF SetUpInv, Tenants
<1>3. CASE OutsideStep
  BY <1>1, <1>3, AuthorityKept, OutsideMovesNone DEF SetUpInv, Tenants
<1>4. CASE Tick \/ UNCHANGED demoVars
  BY <1>1, <1>4, AuthorityKept DEF Tick, demoVars, runVars, SetUpInv, Tenants
<1> QED
  BY <1>2, <1>3, <1>4, WhoSteps

(***************************************************************************)
(* What a step does to the decisions, and to who asked for them.           *)
(***************************************************************************)
AcmeQuiet ==
  /\ UNCHANGED <<acme_active, acme_runtime, acme_checkpoint>>
  /\ asked'["acme"] = asked["acme"]

AcmeFresh ==
  /\ acme_runtime.rolling_sequence = 0 /\ acme_runtime'.rolling_sequence = 0
  /\ acme_checkpoint.settled_sequence = 0 /\ acme_checkpoint'.settled_sequence = 0
  /\ acme_runtime'.rolling_audit = << >>
  /\ acme_active' = acme_active
  /\ asked'["acme"] = asked["acme"]

AcmeRequested(who) ==
  /\ acme_runtime'.rolling_sequence = acme_runtime.rolling_sequence + 1
  /\ \/ acme_runtime'.total_rejected = acme_runtime.total_rejected + 1
     \/ /\ acme_runtime'.total_rejected = acme_runtime.total_rejected
        /\ acme_active
        /\ acme_runtime'.rolling_audit[Len(acme_runtime'.rolling_audit)].reason
             = "Allowed"
  /\ \A i \in 1..Len(acme_runtime'.rolling_audit) - 1 :
       \E j \in 1..Len(acme_runtime.rolling_audit) :
         acme_runtime'.rolling_audit[i] = acme_runtime.rolling_audit[j]
  /\ UNCHANGED <<acme_active, acme_checkpoint>>
  /\ asked'["acme"] = Append(asked["acme"], who)
  /\ who \in Runs => at[who] \in {14, 15, 17, 18, 26}

AcmeSettled(who) ==
  /\ acme_runtime'.rolling_sequence = acme_runtime.rolling_sequence
  /\ acme_runtime'.total_rejected = acme_runtime.total_rejected
  /\ acme_runtime'.rolling_audit = << >>
  /\ acme_checkpoint'.settled_sequence = acme_runtime.rolling_sequence
  /\ acme_checkpoint'.total_rejected = acme_runtime.total_rejected
  /\ acme_active' = acme_active
  /\ asked'["acme"] = asked["acme"]
  /\ who \in Runs /\ at[who] = 22

AcmeRevoked(who) ==
  /\ ~acme_active' /\ UNCHANGED <<acme_runtime, acme_checkpoint>>
  /\ asked'["acme"] = asked["acme"]
  /\ who \in Runs /\ at[who] = 25

LEMMA AcmeRunStep ==
  ASSUME DemoTypeOK, TenantsInv, NEW s \in Runs, RunStep(s)
  PROVE  \/ AcmeQuiet \/ AcmeFresh
         \/ AcmeRequested(s) \/ AcmeSettled(s) \/ AcmeRevoked(s)
<1> USE DEF TenantsInv
<1>1. CASE AttachPolicy(s) \/ CreateQuotaPolicy(s)
  BY <1>1, AcmeOtherwise
  DEF AttachPolicy, CreateQuotaPolicy, OnTenant, acmeVars, AcmeQuiet
<1>2. CASE InitializeRuntime(s)
  BY <1>2, AcmeOtherwise DEF InitializeRuntime, OnTenant, acmeVars, AcmeQuiet, AcmeFresh
<1>3. ASSUME NEW does \in {"metrics:read", "users:write"}, Request(s, does)
      PROVE  AcmeQuiet \/ AcmeRequested(s)
  <2>1. CASE at[s] = 20
    BY <1>3, <2>1, RequestedBy DEF acmeVars, AcmeQuiet, DemoTypeOK, Tenants
  <2>2. CASE at[s] # 20
    <3>1. /\ \E action : acme!ConsumeRequest(action)
          /\ asked' = [asked EXCEPT !["acme"] = Append(@, s)]
          /\ at[s] \in {14, 15, 17, 18, 26}
      BY <1>3, <2>2, RequestedBy
    <3>2. asked'["acme"] = Append(asked["acme"], s)
      BY <3>1 DEF DemoTypeOK, Tenants
    <3> QED
      BY <3>1, <3>2, AcmeConsumed DEF AcmeRequested
  <2> QED
    BY <2>1, <2>2
<1>4. CASE Settle(s)
  <2>1. at[s] = 22 /\ Tenant(s) = "acme"
    BY <1>4, DoesAt, LinesThatDo, TenantAt DEF Settle, Tenants
  <2> QED
    BY <1>4, <2>1, AcmeOtherwise DEF Settle, OnTenant, AcmeSettled
<1>5. CASE Revoke(s)
  <2>1. at[s] = 25 /\ Tenant(s) = "acme"
    BY <1>5, DoesAt, LinesThatDo, TenantAt DEF Revoke, Tenants
  <2> QED
    BY <1>5, <2>1, AcmeOtherwise DEF Revoke, OnTenant, AcmeRevoked
<1>6. CASE UNCHANGED <<acmeVars, asked>>
  BY <1>6 DEF acmeVars, AcmeQuiet
<1> QED
  BY <1>1, <1>2, <1>3, <1>4, <1>5, <1>6
  DEF RunStep, Throws, OrganizationRefused, FetchMaybe, Check, FetchSettled,
      InitializeGateway, CreateOrganization, CreateForTenant

LEMMA AcmeStep ==
  ASSUME DemoTypeOK, TenantsInv, NEW who \in Requesters, StepBy(who)
  PROVE  \/ AcmeQuiet \/ AcmeFresh
         \/ AcmeRequested(who) \/ AcmeSettled(who) \/ AcmeRevoked(who)
<1>1. CASE who \in Runs
  BY <1>1, AcmeRunStep DEF StepBy
<1>2. CASE who \notin Runs
  <2>1. who = NoRun /\ OutsideStep
    BY <1>2 DEF StepBy, Requesters
  <2>2. CASE OutsideGateway
    BY <2>2 DEF OutsideGateway, acmeVars, AcmeQuiet
  <2>3. CASE \E action : OutsideRequest("globex", action)
    BY <2>3 DEF OutsideRequest, acmeVars, AcmeQuiet, DemoTypeOK, Tenants
  <2>4. CASE \E action : OutsideRequest("acme", action)
    <3>1. /\ \E action : acme!ConsumeRequest(action)
          /\ asked' = [asked EXCEPT !["acme"] = Append(@, NoRun)]
      BY <2>4 DEF OutsideRequest
    <3>2. asked'["acme"] = Append(asked["acme"], NoRun)
      BY <3>1 DEF DemoTypeOK, Tenants
    <3> QED
      BY <1>2, <2>1, <3>1, <3>2, AcmeConsumed DEF AcmeRequested, TenantsInv
  <2> QED
    BY <2>1, <2>2, <2>3, <2>4 DEF OutsideStep, Tenants
<1> QED
  BY <1>1, <1>2

GlobexQuiet ==
  /\ globex_runtime'.rolling_sequence = globex_runtime.rolling_sequence
  /\ asked'["globex"] = asked["globex"]

GlobexRequested(who) ==
  /\ globex_runtime'.rolling_sequence = globex_runtime.rolling_sequence + 1
  /\ asked'["globex"] = Append(asked["globex"], who)

LEMMA GlobexRunStep ==
  ASSUME DemoTypeOK, TenantsInv, NEW s \in Runs, RunStep(s)
  PROVE  GlobexQuiet \/ GlobexRequested(s)
<1> USE DEF TenantsInv
<1>1. CASE \/ AttachPolicy(s) \/ CreateQuotaPolicy(s) \/ InitializeRuntime(s)
           \/ Settle(s) \/ Revoke(s)
  BY <1>1, GlobexOtherwise
  DEF AttachPolicy, CreateQuotaPolicy, InitializeRuntime, Settle, Revoke,
      OnTenant, globexVars, GlobexQuiet
<1>2. ASSUME NEW does \in {"metrics:read", "users:write"}, Request(s, does)
      PROVE  GlobexQuiet \/ GlobexRequested(s)
  <2>1. CASE at[s] # 20
    BY <1>2, <2>1, RequestedBy DEF globexVars, GlobexQuiet, DemoTypeOK, Tenants
  <2>2. CASE at[s] = 20
    <3>1. /\ \E action : globex!ConsumeRequest(action)
          /\ asked' = [asked EXCEPT !["globex"] = Append(@, s)]
      BY <1>2, <2>2, RequestedBy
    <3>2. asked'["globex"] = Append(asked["globex"], s)
      BY <3>1 DEF DemoTypeOK, Tenants
    <3> QED
      BY <3>1, <3>2, GlobexConsumed DEF GlobexRequested
  <2> QED
    BY <2>1, <2>2
<1>3. CASE UNCHANGED <<globexVars, asked>>
  BY <1>3 DEF globexVars, GlobexQuiet
<1> QED
  BY <1>1, <1>2, <1>3
  DEF RunStep, Throws, OrganizationRefused, FetchMaybe, Check, FetchSettled,
      InitializeGateway, CreateOrganization, CreateForTenant

LEMMA GlobexStep ==
  ASSUME DemoTypeOK, TenantsInv, NEW who \in Requesters, StepBy(who)
  PROVE  GlobexQuiet \/ GlobexRequested(who)
<1>1. CASE who \in Runs
  BY <1>1, GlobexRunStep DEF StepBy
<1>2. CASE who \notin Runs
  <2>1. who = NoRun /\ OutsideStep
    BY <1>2 DEF StepBy, Requesters
  <2>2. CASE OutsideGateway
    BY <2>2 DEF OutsideGateway, globexVars, GlobexQuiet
  <2>3. CASE \E action : OutsideRequest("acme", action)
    BY <2>3 DEF OutsideRequest, globexVars, GlobexQuiet, DemoTypeOK, Tenants
  <2>4. CASE \E action : OutsideRequest("globex", action)
    <3>1. /\ \E action : globex!ConsumeRequest(action)
          /\ asked' = [asked EXCEPT !["globex"] = Append(@, NoRun)]
      BY <2>4 DEF OutsideRequest
    <3>2. asked'["globex"] = Append(asked["globex"], NoRun)
      BY <3>1 DEF DemoTypeOK, Tenants
    <3> QED
      BY <2>1, <3>1, <3>2, GlobexConsumed DEF GlobexRequested, TenantsInv
  <2> QED
    BY <2>1, <2>2, <2>3, <2>4 DEF OutsideStep, Tenants
<1> QED
  BY <1>1, <1>2

\* Every decision was asked for by somebody, and as long as nothing was refused
\* since the settlement the audit holds admissions only.
DecidedInv ==
  /\ Len(asked["acme"]) = acme_runtime.rolling_sequence
  /\ Len(asked["globex"]) = globex_runtime.rolling_sequence
  /\ acme_runtime.total_rejected = acme_checkpoint.total_rejected =>
       \A i \in 1..Len(acme_runtime.rolling_audit) :
         acme_runtime.rolling_audit[i].reason = "Allowed"

LEMMA DecidedStep ==
  ASSUME DemoTypeOK, TenantsInv, TenantsInv', DecidedInv, [DemoNext]_demoVars
  PROVE  DecidedInv'
<1>0. /\ asked["acme"] \in Seq(Requesters) /\ asked["globex"] \in Seq(Requesters)
  BY DEF DemoTypeOK, Tenants
<1>1. /\ acme_runtime.total_rejected \in Nat /\ acme_checkpoint.total_rejected \in Nat
      /\ acme_checkpoint.total_rejected <= acme_runtime.total_rejected
      /\ Len(acme_runtime.rolling_audit) \in Nat
      /\ Len(acme_runtime'.rolling_audit) \in Nat
  <2>1. Len(acme_runtime.rolling_audit)' \in Nat
    BY AcmeNumbers DEF TenantsInv
  <2> QED
    BY <2>1, AcmeNumbers DEF TenantsInv
<1>2. CASE \E s \in Requesters : StepBy(s)
  <2>1. PICK s \in Requesters : StepBy(s)
    BY <1>2
  <2>2. Len(asked'["globex"]) = globex_runtime'.rolling_sequence
    BY <1>0, <2>1, GlobexStep DEF GlobexQuiet, GlobexRequested, DecidedInv
  <2>3. Len(asked'["acme"]) = acme_runtime'.rolling_sequence
    BY <1>0, <2>1, AcmeStep
    DEF AcmeQuiet, AcmeFresh, AcmeRequested, AcmeSettled, AcmeRevoked, DecidedInv
  <2>4. ASSUME acme_runtime'.total_rejected = acme_checkpoint'.total_rejected,
               NEW i \in 1..Len(acme_runtime'.rolling_audit)
        PROVE  acme_runtime'.rolling_audit[i].reason = "Allowed"
    <3>1. CASE AcmeQuiet \/ AcmeRevoked(s)
      BY <2>4, <3>1 DEF AcmeQuiet, AcmeRevoked, DecidedInv
    <3>2. CASE AcmeFresh \/ AcmeSettled(s)
      BY <3>2 DEF AcmeFresh, AcmeSettled
    <3>3. CASE AcmeRequested(s)
      <4>1. /\ acme_runtime'.total_rejected = acme_runtime.total_rejected
            /\ acme_checkpoint' = acme_checkpoint
            /\ acme_runtime'.rolling_audit[Len(acme_runtime'.rolling_audit)].reason
                 = "Allowed"
        BY <1>1, <2>4, <3>3 DEF AcmeRequested
      <4>2. \A k \in 1..Len(acme_runtime.rolling_audit) :
              acme_runtime.rolling_audit[k].reason = "Allowed"
        BY <2>4, <4>1 DEF DecidedInv
      <4>3. CASE i = Len(acme_runtime'.rolling_audit)
        BY <4>1, <4>3
      <4>4. CASE i \in 1..Len(acme_runtime'.rolling_audit) - 1
        BY <3>3, <4>2, <4>4 DEF AcmeRequested
      <4> QED
        BY <1>1, <4>3, <4>4
    <3> QED
      BY <2>1, <3>1, <3>2, <3>3, AcmeStep
  <2> QED
    BY <2>2, <2>3, <2>4 DEF DecidedInv
<1>3. CASE Tick \/ UNCHANGED demoVars
  BY <1>3 DEF Tick, demoVars, acmeVars, globexVars, DecidedInv
<1> QED
  BY <1>2, <1>3, WhoSteps

(***************************************************************************)
(* What a run may claim.  A check passes only when the totals say how many *)
(* requests there were at all; those the run is known to have made then    *)
(* are all of them, and stay the first ones for good.                      *)
(***************************************************************************)
OneAfter(r, a, k) == \E i \in k + 1..Len(a) : a[i] = r
TwoAfter(r, a, k) ==
  \E i \in k + 1..Len(a), j \in k + 1..Len(a) : i < j /\ a[i] = r /\ a[j] = r
FirstAre(r, a, n) == Len(a) >= n /\ \A i \in 1..n : a[i] = r

\* A run at this line has made these requests to acme, a, and to globex, g.
Claim(r, line, a, g) ==
  /\ line = 15 => OneAfter(r, a, 0)
  /\ line = 16 => TwoAfter(r, a, 0)
  /\ line >= 17 => FirstAre(r, a, 2) /\ MAX_RUNTIME_AUDIT_ITEMS >= 2
  /\ line = 18 => OneAfter(r, a, 2)
  /\ line = 19 => TwoAfter(r, a, 2)
  /\ line >= 20 => FirstAre(r, a, 4)
  /\ line = 21 => OneAfter(r, g, 0)
  /\ line >= 22 => FirstAre(r, g, 1)

\* The requests of a tenant's only grow in number.
Grown(a, a2) ==
  Len(a) <= Len(a2) /\ \A i \in 1..Len(a) : a2[i] = a[i]

LEMMA AppendGrows ==
  ASSUME NEW a \in Seq(Requesters), NEW s \in Requesters
  PROVE  /\ Append(a, s) \in Seq(Requesters)
         /\ Grown(a, a) /\ Grown(a, Append(a, s))
         /\ Len(Append(a, s)) = Len(a) + 1
         /\ Append(a, s)[Len(a) + 1] = s
  BY DEF Grown

LEMMA GrownKeeps ==
  ASSUME NEW a \in Seq(Requesters), NEW a2 \in Seq(Requesters), Grown(a, a2), NEW r \in Runs,
         NEW k \in Nat
  PROVE  /\ OneAfter(r, a, k) => OneAfter(r, a2, k)
         /\ TwoAfter(r, a, k) => TwoAfter(r, a2, k)
         /\ FirstAre(r, a, k) => FirstAre(r, a2, k)
<1>1. Len(a) \in Nat /\ Len(a2) \in Nat
  OBVIOUS
<1>2. \A i \in k + 1..Len(a) : i \in k + 1..Len(a2) /\ i \in 1..Len(a) /\ a2[i] = a[i]
  BY <1>1 DEF Grown
<1>3. OneAfter(r, a, k) => OneAfter(r, a2, k)
  BY <1>2 DEF OneAfter
<1>4. TwoAfter(r, a, k) => TwoAfter(r, a2, k)
  <2>1. SUFFICES ASSUME NEW i \in k + 1..Len(a), NEW j \in k + 1..Len(a),
                        i < j, a[i] = r, a[j] = r
                 PROVE  TwoAfter(r, a2, k)
    BY DEF TwoAfter
  <2>2. /\ i \in k + 1..Len(a2) /\ a2[i] = r
        /\ j \in k + 1..Len(a2) /\ a2[j] = r
    BY <1>2, <2>1
  <2> QED
    BY <2>1, <2>2 DEF TwoAfter
<1>5. FirstAre(r, a, k) => FirstAre(r, a2, k)
  BY <1>1 DEF FirstAre, Grown
<1> QED
  BY <1>3, <1>4, <1>5

LEMMA GrownClaim ==
  ASSUME NEW a \in Seq(Requesters), NEW a2 \in Seq(Requesters), Grown(a, a2),
         NEW g \in Seq(Requesters), NEW g2 \in Seq(Requesters), Grown(g, g2),
         NEW r \in Runs, NEW line \in 1..27, Claim(r, line, a, g)
  PROVE  Claim(r, line, a2, g2)
<1>1. \A k \in {0, 1, 2, 4} :
        /\ OneAfter(r, a, k) => OneAfter(r, a2, k)
        /\ TwoAfter(r, a, k) => TwoAfter(r, a2, k)
        /\ FirstAre(r, a, k) => FirstAre(r, a2, k)
        /\ OneAfter(r, g, k) => OneAfter(r, g2, k)
        /\ FirstAre(r, g, k) => FirstAre(r, g2, k)
  BY GrownKeeps
<1> QED
  BY <1>1 DEF Claim

\* One more request of the run's own.
LEMMA RequestCounts ==
  ASSUME NEW a \in Seq(Requesters), NEW s \in Requesters, NEW k \in Nat
  PROVE  /\ Len(a) >= k => OneAfter(s, Append(a, s), k)
         /\ OneAfter(s, a, k) => TwoAfter(s, Append(a, s), k)
<1>1. Len(a) \in Nat /\ Len(Append(a, s)) = Len(a) + 1
      /\ Append(a, s)[Len(a) + 1] = s
      /\ \A i \in 1..Len(a) : Append(a, s)[i] = a[i]
  OBVIOUS
<1>2. Len(a) >= k => Len(a) + 1 \in k + 1..Len(Append(a, s))
  BY <1>1
<1>3. ASSUME NEW i \in k + 1..Len(a), a[i] = s
      PROVE  TwoAfter(s, Append(a, s), k)
  <2>1. /\ i \in k + 1..Len(Append(a, s)) /\ Append(a, s)[i] = s
        /\ i < Len(a) + 1
        /\ Len(a) + 1 \in k + 1..Len(Append(a, s))
    BY <1>1, <1>3
  <2> QED
    BY <1>1, <2>1 DEF TwoAfter
<1> QED
  BY <1>1, <1>2, <1>3 DEF OneAfter

\* All there are, when there are no more than the run is known to have made.
LEMMA AllItsOwn ==
  ASSUME NEW a \in Seq(Requesters), NEW s \in Runs
  PROVE  /\ Len(a) = 2 /\ TwoAfter(s, a, 0) => FirstAre(s, a, 2)
         /\ Len(a) = 4 /\ FirstAre(s, a, 2) /\ TwoAfter(s, a, 2) => FirstAre(s, a, 4)
         /\ Len(a) = 1 /\ OneAfter(s, a, 0) => FirstAre(s, a, 1)
<1>1. Len(a) = 2 /\ TwoAfter(s, a, 0) => FirstAre(s, a, 2)
  BY DEF TwoAfter, FirstAre
<1>2. Len(a) = 4 /\ FirstAre(s, a, 2) /\ TwoAfter(s, a, 2) => FirstAre(s, a, 4)
  <2>1. SUFFICES ASSUME Len(a) = 4, FirstAre(s, a, 2), TwoAfter(s, a, 2)
                 PROVE  FirstAre(s, a, 4)
    OBVIOUS
  <2>2. PICK i \in 3..4, j \in 3..4 : i < j /\ a[i] = s /\ a[j] = s
    BY <2>1 DEF TwoAfter
  <2>3. i = 3 /\ j = 4
    BY <2>2
  <2> QED
    BY <2>1, <2>2, <2>3 DEF FirstAre
<1>3. Len(a) = 1 /\ OneAfter(s, a, 0) => FirstAre(s, a, 1)
  BY DEF OneAfter, FirstAre
<1> QED
  BY <1>1, <1>2, <1>3

\* What a check tells that passes.
LEMMA CheckedAt ==
  ASSUME DemoTypeOK, NEW s \in Runs, Check(s), Expected(s)
  PROVE  /\ at[s] = 16 => /\ acme_runtime.total_allowed = 1
                          /\ acme_runtime.total_rejected = 1
                          /\ Len(acme_runtime.rolling_audit) >= 2
         /\ at[s] = 19 => /\ acme_runtime.total_allowed = 2
                          /\ acme_runtime.total_rejected = 2
         /\ at[s] = 21 => /\ globex_runtime.total_allowed = 1
                          /\ globex_runtime.total_rejected = 0
         /\ at[s] = 24 => /\ acme_checkpoint.settled_sequence = 4
                          /\ acme_checkpoint.total_rejected = 2
         /\ at[s] = 27 => /\ acme_runtime.total_rejected = 3
                          /\ AuditReason(acme_runtime, 1, "KeyRevoked")
<1>1. outcome[s] = "running"
  BY DEF Check, Does
<1>2. CASE at[s] = 16
  <2>1. Scenario[at[s]].does = "check_rbac"
    BY <1>2, TheLines DEF Line
  <2> QED
    BY <1>1, <1>2, <2>1 DEF Expected, Does, AuditReason
<1>3. CASE at[s] = 19
  <2>1. Scenario[at[s]].does = "check_quota"
    BY <1>3, TheLines DEF Line
  <2> QED
    BY <1>1, <1>3, <2>1 DEF Expected, Does
<1>4. CASE at[s] = 21
  <2>1. Scenario[at[s]].does = "check_isolation"
    BY <1>4, TheLines DEF Line
  <2> QED
    BY <1>1, <1>4, <2>1 DEF Expected, Does
<1>5. CASE at[s] = 24
  <2>1. Scenario[at[s]].does = "check_settled"
    BY <1>5, TheLines DEF Line
  <2> QED
    BY <1>1, <1>5, <2>1 DEF Expected, Does
<1>6. CASE at[s] = 27
  <2>1. Scenario[at[s]].does = "check_revoked"
    BY <1>6, TheLines DEF Line
  <2> QED
    BY <1>1, <1>6, <2>1 DEF Expected, Does
<1> QED
  BY <1>2, <1>3, <1>4, <1>5, <1>6

ClaimInv == \A r \in Runs : Claim(r, at[r], asked["acme"], asked["globex"])

\* Only one run gets past the first check.
LEMMA OnlyOne ==
  ASSUME ClaimInv, NEW r \in Runs, NEW s \in Runs, at[r] >= 17, at[s] >= 17
  PROVE  r = s
  BY DEF ClaimInv, Claim, FirstAre

LEMMA AskedGrows ==
  ASSUME DemoTypeOK, TenantsInv, NEW s \in Requesters, StepBy(s)
  PROVE  /\ asked["acme"] \in Seq(Requesters) /\ asked'["acme"] \in Seq(Requesters)
         /\ asked["globex"] \in Seq(Requesters) /\ asked'["globex"] \in Seq(Requesters)
         /\ Grown(asked["acme"], asked'["acme"])
         /\ Grown(asked["globex"], asked'["globex"])
<1>1. asked["acme"] \in Seq(Requesters) /\ asked["globex"] \in Seq(Requesters)
  BY DEF DemoTypeOK, Tenants
<1>2. \/ asked'["acme"] = asked["acme"]
      \/ asked'["acme"] = Append(asked["acme"], s)
  BY AcmeStep DEF AcmeQuiet, AcmeFresh, AcmeRequested, AcmeSettled, AcmeRevoked
<1>3. \/ asked'["globex"] = asked["globex"]
      \/ asked'["globex"] = Append(asked["globex"], s)
  BY GlobexStep DEF GlobexQuiet, GlobexRequested
<1>a. \A a \in Seq(Requesters) : /\ Grown(a, a) /\ Grown(a, Append(a, s))
                           /\ Append(a, s) \in Seq(Requesters)
  BY AppendGrows
<1>4. asked'["acme"] \in Seq(Requesters) /\ Grown(asked["acme"], asked'["acme"])
  BY <1>1, <1>2, <1>a
<1>5. asked'["globex"] \in Seq(Requesters) /\ Grown(asked["globex"], asked'["globex"])
  BY <1>1, <1>3, <1>a
<1> QED
  BY <1>1, <1>4, <1>5

\* A run that gets past a line that asks has asked.
LEMMA AskedOnAdvance ==
  ASSUME DemoTypeOK, NEW s \in Runs, RunStep(s), Advances(s)
  PROVE  /\ at[s] \in {14, 15, 17, 18, 26} =>
              asked'["acme"] = Append(asked["acme"], s)
         /\ at[s] = 20 => asked'["globex"] = Append(asked["globex"], s)
<1>1. ASSUME at[s] \in {14, 15, 17, 18, 26}
      PROVE  asked' = [asked EXCEPT !["acme"] = Append(@, s)]
  BY <1>1, LineTaken, RequestedBy
<1>2. ASSUME at[s] = 20
      PROVE  asked' = [asked EXCEPT !["globex"] = Append(@, s)]
  BY <1>2, LineTaken, RequestedBy
<1> QED
  BY <1>1, <1>2 DEF DemoTypeOK, Tenants

\* The run that moves on has earned the claim of its new line.
LEMMA ClaimEarned ==
  ASSUME DemoTypeOK, TenantsInv, DecidedInv, NEW s \in Runs, RunStep(s), Advances(s),
         Claim(s, at[s], asked["acme"], asked["globex"])
  PROVE  Claim(s, at[s] + 1, asked'["acme"], asked'["globex"])
<1> DEFINE a == asked["acme"]
           g == asked["globex"]
           a2 == asked'["acme"]
           g2 == asked'["globex"]
<1>1. /\ a \in Seq(Requesters) /\ a2 \in Seq(Requesters) /\ Grown(a, a2)
      /\ g \in Seq(Requesters) /\ g2 \in Seq(Requesters) /\ Grown(g, g2)
  BY RunIsRequester, AskedGrows
<1>2. /\ at[s] \in {14, 15, 17, 18} => a2 = Append(a, s)
      /\ at[s] = 20 => g2 = Append(g, s)
  BY AskedOnAdvance
<1>3. at[s] \in 1..26 /\ at[s] + 1 \in 1..27
  <2>1. at[s] \in 1..27 /\ at[s] # 27
    BY DEF DemoTypeOK, Advances
  <2> QED
    BY <2>1
<1>n. /\ Len(a) = acme_runtime.total_allowed + acme_runtime.total_rejected
      /\ Len(g) = globex_runtime.total_allowed + globex_runtime.total_rejected
      /\ Len(acme_runtime.rolling_audit) <= MAX_RUNTIME_AUDIT_ITEMS
      /\ Len(acme_runtime.rolling_audit) \in Nat
  BY AcmeNumbers, GlobexNumbers DEF TenantsInv, DecidedInv
<1>c. Claim(s, at[s], a2, g2)
  <2>1. at[s] \in 1..27
    BY <1>3
  <2> QED
    BY <1>1, <2>1, GrownClaim
<1>l. Len(a) \in Nat /\ Len(g) \in Nat
  BY <1>1
<1> HIDE DEF a, g, a2, g2
<1>4. CASE at[s] \in {14, 15}
  <2>1. a2 = Append(a, s) /\ Len(a) >= 0 /\ 0 \in Nat
    BY <1>2, <1>4, <1>l
  <2>2. OneAfter(s, a2, 0)
    BY <1>1, <2>1, RunIsRequester, RequestCounts
  <2>3. at[s] = 15 => TwoAfter(s, a2, 0)
    BY <1>1, <2>1, RunIsRequester, RequestCounts DEF Claim, a
  <2> QED
    BY <1>4, <2>2, <2>3 DEF Claim, a2
<1>5. CASE at[s] = 16
  <2>1. Len(a) = 2 /\ MAX_RUNTIME_AUDIT_ITEMS >= 2
    BY <1>5, <1>n, LineTaken, CheckedAt, AuditCapAssumption
  <2>2. FirstAre(s, a, 2)
    BY <1>1, <1>5, <2>1, AllItsOwn DEF Claim, a
  <2>3. FirstAre(s, a2, 2)
    BY <1>1, <2>2, GrownKeeps
  <2> QED
    BY <1>5, <2>1, <2>3 DEF Claim, a2
<1>6. CASE at[s] \in {17, 18}
  <2>1. Len(a) >= 2
    BY <1>6 DEF Claim, FirstAre, a
  <2> QED
    <3>1. a2 = Append(a, s) /\ 2 \in Nat
      BY <1>2, <1>6
    <3>2. OneAfter(s, a2, 2)
      BY <1>1, <2>1, <3>1, RunIsRequester, RequestCounts
    <3>3. at[s] = 18 => TwoAfter(s, a2, 2)
      BY <1>1, <3>1, RunIsRequester, RequestCounts DEF Claim, a
    <3> QED
      BY <1>c, <1>6, <3>2, <3>3 DEF Claim, a2
<1>7. CASE at[s] = 19
  <2>1. Len(a) = 4
    BY <1>7, <1>n, LineTaken, CheckedAt
  <2>2. FirstAre(s, a, 4)
    BY <1>1, <1>7, <2>1, AllItsOwn DEF Claim, a
  <2>3. FirstAre(s, a2, 4)
    BY <1>1, <2>2, GrownKeeps
  <2> QED
    BY <1>c, <1>7, <2>3 DEF Claim, a2, g2
<1>8. CASE at[s] = 20
  <2>1. g2 = Append(g, s) /\ Len(g) >= 0 /\ 0 \in Nat
    BY <1>2, <1>8, <1>l
  <2>2. OneAfter(s, g2, 0)
    BY <1>1, <2>1, RunIsRequester, RequestCounts
  <2> QED
    BY <1>c, <1>8, <2>2 DEF Claim, a2, g2
<1>9. CASE at[s] = 21
  <2>1. Len(g) = 1
    BY <1>9, <1>n, LineTaken, CheckedAt
  <2>2. FirstAre(s, g, 1)
    BY <1>1, <1>9, <2>1, AllItsOwn DEF Claim, g
  <2>3. FirstAre(s, g2, 1)
    BY <1>1, <2>2, GrownKeeps
  <2> QED
    BY <1>c, <1>9, <2>3 DEF Claim, a2, g2
<1>10. CASE at[s] \in 1..13 \cup 22..26
  BY <1>c, <1>10 DEF Claim, a2, g2
<1> QED
  BY <1>3, <1>4, <1>5, <1>6, <1>7, <1>8, <1>9, <1>10

LEMMA ClaimStep ==
  ASSUME DemoTypeOK, TenantsInv, DecidedInv, ClaimInv, [DemoNext]_demoVars
  PROVE  ClaimInv'
<1>1. CASE \E who \in Requesters : StepBy(who)
  <2>1. PICK who \in Requesters : StepBy(who)
    BY <1>1
  <2>2. \A r \in Runs : at[r] \in 1..27
    BY DEF DemoTypeOK
  <2>3. \A r \in Runs : Claim(r, at[r], asked'["acme"], asked'["globex"])
    BY <2>1, <2>2, AskedGrows, GrownClaim DEF ClaimInv
  <2>4. ASSUME who \in Runs, Advances(who)
        PROVE  Claim(who, at'[who], asked'["acme"], asked'["globex"])
    BY <2>1, <2>4, MovesOnlyOne, ClaimEarned DEF ClaimInv, StepBy
  <2>5. \A r \in Runs : r # who \/ ~Advances(who) => at'[r] = at[r]
    BY <2>1, RequesterMoves
  <2> QED
    BY <2>3, <2>4, <2>5 DEF ClaimInv
<1>2. CASE Tick \/ UNCHANGED demoVars
  BY <1>2 DEF Tick, demoVars, runVars, ClaimInv
<1> QED
  BY <1>1, <1>2, WhoSteps

(***************************************************************************)
(* The last lines.  What was settled is the run's four requests and stays  *)
(* that; a refusal by anybody else after it makes the total too large, and *)
(* an admission takes the first place in the audit.                        *)
(***************************************************************************)
Finish(r) ==
  /\ at[r] >= 25 => /\ acme_checkpoint.settled_sequence = 4
                    /\ acme_checkpoint.total_rejected = 2
  /\ at[r] >= 26 => ~acme_active
  /\ at[r] = 27 =>
       /\ acme_runtime.total_rejected >= 3
       /\ acme_runtime.total_rejected = 3 =>
            /\ asked["acme"][Len(asked["acme"])] = r
            /\ \A i \in 1..Len(acme_runtime.rolling_audit) - 1 :
                 acme_runtime.rolling_audit[i].reason = "Allowed"
  /\ outcome[r] = "reported" => /\ FirstAre(r, asked["acme"], 5)
                                /\ FirstAre(r, asked["globex"], 1)

FinishInv == \A r \in Runs : Finish(r)

LEMMA ReportKept ==
  ASSUME DemoTypeOK, TenantsInv, NEW s \in Requesters, StepBy(s), NEW r \in Runs,
         FirstAre(r, asked["acme"], 5), FirstAre(r, asked["globex"], 1)
  PROVE  FirstAre(r, asked'["acme"], 5) /\ FirstAre(r, asked'["globex"], 1)
<1>1. /\ asked["acme"] \in Seq(Requesters) /\ asked'["acme"] \in Seq(Requesters)
      /\ asked["globex"] \in Seq(Requesters) /\ asked'["globex"] \in Seq(Requesters)
      /\ Grown(asked["acme"], asked'["acme"])
      /\ Grown(asked["globex"], asked'["globex"])
  BY AskedGrows
<1>2. FirstAre(r, asked'["acme"], 5)
  BY <1>1, GrownKeeps
<1>3. FirstAre(r, asked'["globex"], 1)
  BY <1>1, GrownKeeps
<1> QED
  BY <1>2, <1>3

\* What a step of another run's, or of anybody's, may do to one near its end.
LEMMA FinishKept ==
  ASSUME DemoTypeOK, TenantsInv, DecidedInv, ClaimInv, NEW s \in Requesters, StepBy(s),
         NEW r \in Runs, Finish(r), r = s => ~Advances(s) /\ ~Reports(s)
  PROVE  Finish(r)'
<1>1. /\ at'[r] = at[r] /\ at[r] \in 1..27 /\ (s \in Runs => at[s] \in 1..27)
      /\ outcome'[r] = "reported" => outcome[r] = "reported"
  BY RequesterMoves DEF DemoTypeOK
<1>2. /\ AcmeQuiet \/ AcmeFresh \/ AcmeRequested(s) \/ AcmeSettled(s) \/ AcmeRevoked(s)
      /\ acme_runtime.total_rejected \in Nat
  BY AcmeStep, AcmeNumbers DEF TenantsInv
<1>3. at[r] >= 25 /\ s \in Runs \ {r} => at[s] < 17
  BY <1>1, OnlyOne
<1>4. at[r] >= 25 => AcmeQuiet \/ AcmeRequested(s) \/ AcmeRevoked(s)
  <2>1. at[r] >= 25 /\ s \in Runs => at[s] # 22
    BY <1>1, <1>3
  <2>2. at[r] >= 25 => ~AcmeFresh
    BY DEF AcmeFresh, Finish
  <2> QED
    BY <1>2, <2>1, <2>2 DEF AcmeSettled
<1>5. at[r] >= 25 => acme_checkpoint' = acme_checkpoint
  BY <1>4 DEF AcmeQuiet, AcmeRequested, AcmeRevoked
<1>6. at[r] >= 26 => ~acme_active'
  <2>1. at[r] >= 26 => at[r] >= 25
    BY <1>1
  <2>2. at[r] >= 26 => ~acme_active
    BY DEF Finish
  <2>3. AcmeQuiet \/ AcmeRequested(s) => acme_active' = acme_active
    BY DEF AcmeQuiet, AcmeRequested
  <2>4. AcmeRevoked(s) => ~acme_active'
    BY DEF AcmeRevoked
  <2> QED
    BY <1>4, <2>1, <2>2, <2>3, <2>4
<1>7. ASSUME at[r] = 27
      PROVE  /\ acme_runtime'.total_rejected >= 3
             /\ acme_runtime'.total_rejected = 3 =>
                  /\ asked'["acme"][Len(asked'["acme"])] = r
                  /\ \A i \in 1..Len(acme_runtime'.rolling_audit) - 1 :
                       acme_runtime'.rolling_audit[i].reason = "Allowed"
  <2>1. CASE AcmeRequested(s)
    <3>1. ~acme_active /\ acme_runtime.total_rejected >= 3
      BY <1>7 DEF Finish
    <3>2. acme_runtime'.total_rejected = acme_runtime.total_rejected + 1
      BY <2>1, <3>1 DEF AcmeRequested
    <3> QED
      BY <1>2, <3>1, <3>2
  <2>2. CASE AcmeQuiet \/ AcmeRevoked(s)
    BY <1>7, <2>2 DEF AcmeQuiet, AcmeRevoked, Finish
  <2> QED
    BY <1>4, <1>7, <2>1, <2>2
<1>8. outcome[r] = "reported" => /\ FirstAre(r, asked'["acme"], 5)
                                 /\ FirstAre(r, asked'["globex"], 1)
  BY ReportKept DEF Finish
<1> QED
  BY <1>1, <1>5, <1>6, <1>7, <1>8 DEF Finish

\* And what its own does.
LEMMA FinishEarned ==
  ASSUME DemoTypeOK, TenantsInv, DecidedInv, ClaimInv, NEW s \in Runs, RunStep(s),
         Finish(s), Advances(s)
  PROVE  Finish(s)'
<1>1. /\ at'[s] = at[s] + 1 /\ outcome'[s] = outcome[s] /\ at[s] \in 1..26
  <2>1. at[s] \in 1..27 /\ at[s] # 27 /\ at'[s] = at[s] + 1
    BY MovesOnlyOne DEF DemoTypeOK, Advances
  <2>2. outcome'[s] = outcome[s]
    BY DEF Advances
  <2> QED
    BY <2>1, <2>2
<1>2. /\ AcmeQuiet \/ AcmeFresh \/ AcmeRequested(s) \/ AcmeSettled(s) \/ AcmeRevoked(s)
      /\ acme_runtime.total_rejected \in Nat /\ acme_checkpoint.total_rejected \in Nat
      /\ acme_checkpoint.total_rejected <= acme_runtime.total_rejected
      /\ asked["acme"] \in Seq(Requesters)
  BY AcmeRunStep, AcmeNumbers DEF TenantsInv, DemoTypeOK, Tenants
<1>3. outcome[s] = "reported" => /\ FirstAre(s, asked'["acme"], 5)
                                 /\ FirstAre(s, asked'["globex"], 1)
  BY RunIsRequester, ReportKept DEF Finish
<1>4. CASE at[s] < 24
  <2>1. ~(at'[s] >= 25) /\ ~(at'[s] >= 26) /\ at'[s] # 27
    BY <1>1, <1>4
  <2> QED
    BY <1>1, <1>3, <2>1 DEF Finish
<1>5. CASE at[s] = 24
  <2>1. /\ acme_checkpoint.settled_sequence = 4
        /\ acme_checkpoint.total_rejected = 2
    BY <1>5, LineTaken, CheckedAt
  <2>2. acme_checkpoint' = acme_checkpoint
    BY <1>2, <1>5, <2>1
    DEF AcmeQuiet, AcmeFresh, AcmeRequested, AcmeSettled, AcmeRevoked
  <2> QED
    BY <1>1, <1>3, <1>5, <2>1, <2>2 DEF Finish
<1>6. CASE at[s] = 25
  <2>1. ~acme_active' /\ acme_checkpoint' = acme_checkpoint
    <3>1. Revoke(s) /\ Tenant(s) = "acme"
      BY <1>6, LineTaken, TenantAt DEF Tenants
    <3> QED
      BY <3>1, AcmeOtherwise DEF Revoke, OnTenant, TenantsInv
  <2> QED
    BY <1>1, <1>3, <1>6, <2>1 DEF Finish
<1>7. CASE at[s] = 26
  <2>1. asked'["acme"] = Append(asked["acme"], s)
    BY <1>7, AskedOnAdvance
  <2>2. AcmeRequested(s)
    <3>1. Len(asked'["acme"]) # Len(asked["acme"])
      BY <1>2, <2>1
    <3> QED
      BY <1>2, <1>7, <3>1 DEF AcmeQuiet, AcmeFresh, AcmeSettled, AcmeRevoked
  <2>3. /\ acme_runtime'.total_rejected = acme_runtime.total_rejected + 1
        /\ UNCHANGED <<acme_active, acme_checkpoint>>
        /\ acme_checkpoint.settled_sequence = 4
        /\ acme_checkpoint.total_rejected = 2 /\ ~acme_active
    BY <1>7, <2>2 DEF AcmeRequested, Finish
  <2>4. acme_runtime'.total_rejected >= 3
    BY <1>2, <2>3
  <2>5. asked'["acme"][Len(asked'["acme"])] = s
    BY <1>2, <2>1
  <2>6. ASSUME acme_runtime'.total_rejected = 3,
               NEW i \in 1..Len(acme_runtime'.rolling_audit) - 1
        PROVE  acme_runtime'.rolling_audit[i].reason = "Allowed"
    <3>1. acme_runtime.total_rejected = acme_checkpoint.total_rejected
      BY <1>2, <2>3, <2>6
    <3> QED
      BY <2>2, <2>6, <3>1 DEF AcmeRequested, DecidedInv
  <2> QED
    BY <1>1, <1>3, <1>7, <2>3, <2>4, <2>5, <2>6 DEF Finish
<1> QED
  BY <1>1, <1>4, <1>5, <1>6, <1>7

\* The report: the audit's first record is the refusal of a revoked key, so it
\* is the only one, and the run's fifth request the only one since the settlement.
LEMMA FinishReported ==
  ASSUME DemoTypeOK, TenantsInv, DecidedInv, ClaimInv, NEW s \in Runs, RunStep(s),
         Finish(s), Reports(s)
  PROVE  Finish(s)'
<1> DEFINE a == asked["acme"]
           audit == acme_runtime.rolling_audit
<1>1. at[s] = 27 /\ at' = at
  BY DEF Reports
<1>2. Check(s) /\ Expected(s)
  BY <1>1, LineTaken
<1>3. UNCHANGED <<acmeVars, asked>>
  BY <1>2 DEF Check
<1>4. /\ acme_runtime.total_rejected = 3
      /\ Len(audit) >= 1 /\ audit[1].reason = "KeyRevoked"
  BY <1>1, <1>2, CheckedAt DEF AuditReason
<1>5. /\ Len(audit) \in Nat
      /\ Len(audit) \in {MAX_RUNTIME_AUDIT_ITEMS,
                         acme_runtime.rolling_sequence
                           - acme_checkpoint.settled_sequence}
      /\ acme_runtime.rolling_sequence \in Nat
      /\ Len(a) = acme_runtime.rolling_sequence
  BY AcmeNumbers DEF TenantsInv, DecidedInv
<1>6. /\ acme_checkpoint.settled_sequence = 4
      /\ a[Len(a)] = s
      /\ \A i \in 1..Len(audit) - 1 : audit[i].reason = "Allowed"
  BY <1>1, <1>4 DEF Finish
<1>7. /\ FirstAre(s, a, 4) /\ FirstAre(s, asked["globex"], 1)
      /\ MAX_RUNTIME_AUDIT_ITEMS >= 2
  BY <1>1 DEF ClaimInv, Claim
<1> HIDE DEF a, audit
<1>8. Len(audit) = 1
  <2>1. Len(audit) \in Nat /\ Len(audit) >= 1
    BY <1>4, <1>5
  <2>2. 1 \in 1..Len(audit) - 1 => audit[1].reason = "Allowed"
    BY <1>6
  <2>3. ~(1 \in 1..Len(audit) - 1)
    BY <1>4, <2>2
  <2>4. \A n \in Nat : n >= 1 /\ 1 \notin 1..n - 1 => n = 1
    OBVIOUS
  <2> QED
    BY <2>1, <2>3, <2>4
<1>9. Len(a) = 5
  BY <1>5, <1>6, <1>7, <1>8, AuditCapAssumption
<1>10. FirstAre(s, a, 5)
  BY <1>6, <1>7, <1>9 DEF FirstAre
<1> QED
  BY <1>1, <1>3, <1>7, <1>10 DEF acmeVars, Finish, a

LEMMA FinishStep ==
  ASSUME DemoTypeOK, TenantsInv, DecidedInv, ClaimInv, FinishInv, [DemoNext]_demoVars
  PROVE  FinishInv'
<1>1. CASE \E s \in Requesters : StepBy(s)
  <2>1. PICK s \in Requesters : StepBy(s)
    BY <1>1
  <2>2. \A r \in Runs : Finish(r)'
    BY <2>1, FinishKept, FinishEarned, FinishReported DEF FinishInv, StepBy
  <2> QED
    BY <2>2 DEF FinishInv
<1>2. CASE Tick \/ UNCHANGED demoVars
  BY <1>2 DEF Tick, demoVars, runVars, acmeVars, FinishInv, Finish
<1> QED
  BY <1>1, <1>2, WhoSteps

(***************************************************************************)
(* The theorems.                                                           *)
(***************************************************************************)
DemoInv ==
  /\ DemoTypeOK
  /\ TenantsInv
  /\ SetUpInv
  /\ DecidedInv
  /\ ClaimInv
  /\ FinishInv

LEMMA DemoInitInvariant == DemoInit => DemoInv
<1> SUFFICES ASSUME DemoInit PROVE DemoInv
  OBVIOUS
<1>1. DemoTypeOK
  <2>1. << >> \in Seq(Requesters)
    OBVIOUS
  <2> QED
    BY <2>1 DEF DemoInit, DemoTypeOK, Outcomes
<1>2. TenantsInv
  BY TenantsInit
<1>3. SetUpInv
  BY DEF DemoInit, SetUpInv
<1>4. DecidedInv
  BY DEF DemoInit, DecidedInv, Tenants, acme!Init, globex!Init,
         acme!ZeroedRuntime, globex!ZeroedRuntime
<1>5. ClaimInv
  BY DEF DemoInit, ClaimInv, Claim
<1>6. FinishInv
  BY DEF DemoInit, FinishInv, Finish
<1> QED
  BY <1>1, <1>2, <1>3, <1>4, <1>5, <1>6 DEF DemoInv

LEMMA DemoStepInvariant == DemoInv /\ [DemoNext]_demoVars => DemoInv'
<1> SUFFICES ASSUME DemoInv, [DemoNext]_demoVars PROVE DemoInv'
  OBVIOUS
<1> USE DEF DemoInv
<1>1. DemoTypeOK' /\ TenantsInv'
  BY DemoTypeStep, TenantsStep
<1>2. SetUpInv'
  BY SetUpStep
<1>3. DecidedInv'
  BY <1>1, DecidedStep
<1>4. ClaimInv'
  BY ClaimStep
<1>5. FinishInv'
  BY FinishStep
<1> QED
  BY <1>1, <1>2, <1>3, <1>4, <1>5

\* Every reachable state satisfies the inductive invariant.
THEOREM DemoInvariant == DemoSpec => []DemoInv
  BY DemoInitInvariant, DemoStepInvariant, PTL DEF DemoSpec

\* What a report calls passed was the reporting run's own doing, however many
\* runs share its tenants and whoever else makes requests of them.
THEOREM ReportsAreOwn == DemoSpec => []ReportIsOwn
<1>1. DemoInv => ReportIsOwn
  BY DEF DemoInv, FinishInv, Finish, FirstAre, ReportIsOwn
<1> QED
  BY <1>1, DemoInvariant, PTL

\* Who is past the set-up owns both tenants.
THEOREM SetUpIsOwn == DemoSpec => []SetUpUnderOwnWallet
<1>1. ASSUME DemoInv PROVE SetUpUnderOwnWallet
  <2>1. \A r \in Runs : at[r] \in 1..27
    BY <1>1 DEF DemoInv, DemoTypeOK
  <2> QED
    BY <1>1, <2>1 DEF DemoInv, SetUpInv, SetUpUnderOwnWallet, Tenants
<1> QED
  BY <1>1, DemoInvariant, PTL

\* No set-up sets a tenant back, whatever fetchMaybe took for absent.
THEOREM SetUpKeeps == DemoSpec => SetUpKeepsWhatIsThere
<1> DEFINE Kept ==
      /\ acme_runtime.rolling_sequence' >= acme_runtime.rolling_sequence
      /\ globex_runtime.rolling_sequence' >= globex_runtime.rolling_sequence
      /\ acme_checkpoint.settled_sequence' >= acme_checkpoint.settled_sequence
      /\ \A tenant \in Tenants :
           authority[tenant] \in {NoWallet, authority'[tenant]}
<1>1. DemoInv /\ [DemoNext]_demoVars => [Kept]_demoVars
  <2> SUFFICES ASSUME DemoInv, DemoNext PROVE Kept
    OBVIOUS
  <2>1. /\ acme_runtime.rolling_sequence \in Nat
        /\ acme_checkpoint.settled_sequence \in Nat
        /\ acme_checkpoint.settled_sequence <= acme_runtime.rolling_sequence
        /\ globex_runtime.rolling_sequence \in Nat
    BY AcmeNumbers, GlobexNumbers DEF DemoInv, TenantsInv
  <2>2. \A tenant \in Tenants : authority[tenant] \in {NoWallet, authority'[tenant]}
    BY AuthorityKept DEF DemoInv
  <2>3. CASE \E s \in Requesters : StepBy(s)
    <3>1. PICK s \in Requesters : StepBy(s)
      BY <2>3
    <3>2. /\ AcmeQuiet \/ AcmeFresh
             \/ AcmeRequested(s) \/ AcmeSettled(s) \/ AcmeRevoked(s)
          /\ GlobexQuiet \/ GlobexRequested(s)
      BY <3>1, AcmeStep, GlobexStep DEF DemoInv
    <3>3. /\ acme_runtime'.rolling_sequence >= acme_runtime.rolling_sequence
          /\ acme_checkpoint'.settled_sequence >= acme_checkpoint.settled_sequence
      BY <2>1, <3>2
      DEF AcmeQuiet, AcmeFresh, AcmeRequested, AcmeSettled, AcmeRevoked
    <3>4. globex_runtime'.rolling_sequence >= globex_runtime.rolling_sequence
      BY <2>1, <3>2 DEF GlobexQuiet, GlobexRequested
    <3> QED
      BY <2>2, <3>3, <3>4
  <2>4. CASE Tick
    BY <2>1, <2>2, <2>4 DEF Tick, acmeVars, globexVars
  <2> QED
    <3>1. ~UNCHANGED demoVars => (\E s \in Requesters : StepBy(s)) \/ Tick
      BY WhoSteps
    <3>2. UNCHANGED demoVars => Kept
      BY <2>1, <2>2 DEF demoVars, acmeVars, globexVars
    <3> QED
      BY <2>3, <2>4, <3>1, <3>2
<1> QED
  BY <1>1, DemoInvariant, PTL DEF DemoSpec, SetUpKeepsWhatIsThere
=============================================================================
