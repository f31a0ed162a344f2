-------------------------- MODULE BaseRuntimeProofs --------------------------
(***************************************************************************)
(* BaseRuntime for every capacity, integer width, set of inputs and time   *)
(* bound: the inductive invariant, the two safety invariants in it, the    *)
(* two action properties, and the refinement of AuditLedger.               *)
(***************************************************************************)
EXTENDS BaseRuntime, RuntimeOpsProofs

\* The order in which the accounts come to exist.  Without it nothing says
\* that the runtime created beside a checkpoint starts from the same zero, or
\* that the window consume_request tests is longer than nothing.
SetupOrder ==
  /\ ~runtime.initialized => /\ runtime = ZeroedRuntime
                             /\ checkpoint = ZeroedCheckpoint
  /\ runtime.initialized => quota_policy.initialized
  /\ quota_policy.initialized => ValidQuotaConfig(quota_policy.max_requests,
                                                  quota_policy.window_seconds)

\* The inductive invariant.
IInv ==
  /\ TypeOK
  /\ SetupOrder
  /\ AuditIsUnsettledSuffix
  /\ CheckpointMirrorsRuntime

LEMMA ClockIsTimestamp ==
  ASSUME TypeOK
  PROVE  clock \in Timestamp
  BY MaxTimeAssumption, MaxI64Assumption DEF TypeOK, Timestamp

\* The fresh accounts: nothing decided, nothing settled.
LEMMA InitInvariant == Init => IInv
<1> SUFFICES ASSUME Init PROVE IInv
  OBVIOUS
<1>1. TypeOK
  BY ZeroedTypes, MaxTimeAssumption, MaxU64Assumption
  DEF Init, TypeOK, ALL_PERMISSIONS, U64
<1>2. SetupOrder
  BY DEF Init, SetupOrder, ZeroedRuntime, ZeroedPolicy
<1>3. AuditIsUnsettledSuffix
  BY AuditCapAssumption
  DEF Init, AuditIsUnsettledSuffix, AuditIsSuffix, Unsettled, ZeroedRuntime
<1>4. CheckpointMirrorsRuntime
  BY DEF Init, CheckpointMirrorsRuntime, EverySequenceCounted, Mirrors,
         ZeroedRuntime, ZeroedCheckpoint
<1> QED
  BY <1>1, <1>2, <1>3, <1>4 DEF IInv

\* A decision against the checkpoint: the settled part stays behind, the
\* totals only grow.
LEMMA CountedOnceKeepsMirror ==
  ASSUME NEW rt \in QuotaRuntime, NEW rt2 \in QuotaRuntime,
         NEW ckpt \in AuditCheckpoint,
         CountedOnce(rt, rt2), Mirrors(rt, ckpt)
  PROVE  Mirrors(rt2, ckpt)
<1>1. /\ rt.total_allowed \in Int /\ rt.total_rejected \in Int
      /\ ckpt.total_allowed \in Int /\ ckpt.total_rejected \in Int
  BY DEF QuotaRuntime, AuditCheckpoint, U64
<1> QED
  BY <1>1 DEF CountedOnce, Mirrors

\* One step per action, under it one per conjunct the action can disturb.
LEMMA StepInvariant == IInv /\ [Next]_vars => IInv'
<1> SUFFICES ASSUME IInv, [Next]_vars PROVE IInv'
  OBVIOUS
<1> USE DEF IInv
<1>t. clock \in Timestamp
  BY ClockIsTimestamp
<1>a. ASSUME UNCHANGED <<runtime, checkpoint>>
      PROVE  AuditIsUnsettledSuffix' /\ CheckpointMirrorsRuntime'
  BY <1>a DEF AuditIsUnsettledSuffix, CheckpointMirrorsRuntime
<1>1. ASSUME NEW mask \in MaskInputs, AttachPolicyToRole(mask)
      PROVE  IInv'
  <2>1. TypeOK'
    BY <1>1 DEF AttachPolicyToRole, ValidPolicyMask, TypeOK
  <2>2. SetupOrder'
    BY <1>1 DEF AttachPolicyToRole, SetupOrder
  <2> QED
    BY <1>1, <1>a, <2>1, <2>2 DEF AttachPolicyToRole
<1>2. ASSUME RevokeApiKey
      PROVE  IInv'
  <2>1. TypeOK'
    BY <1>2 DEF RevokeApiKey, TypeOK
  <2>2. SetupOrder'
    BY <1>2 DEF RevokeApiKey, SetupOrder
  <2> QED
    BY <1>2, <1>a, <2>1, <2>2 DEF RevokeApiKey
<1>3. ASSUME NEW max_requests \in MaxRequestsInputs,
             NEW window_seconds \in WindowInputs,
             CreateQuotaPolicy(max_requests, window_seconds)
      PROVE  IInv'
  <2>1. TypeOK'
    BY <1>3, InputsAssumption DEF CreateQuotaPolicy, TypeOK, QuotaPolicy
  <2>2. SetupOrder'
    BY <1>3 DEF CreateQuotaPolicy, SetupOrder
  <2> QED
    BY <1>3, <1>a, <2>1, <2>2 DEF CreateQuotaPolicy
<1>4. ASSUME InitializeQuotaRuntime
      PROVE  IInv'
  <2>1. /\ ~runtime.initialized /\ quota_policy.initialized
        /\ checkpoint = ZeroedCheckpoint
        /\ runtime' = FreshRuntime(clock)
        /\ checkpoint' = FreshCheckpoint(ZeroedCheckpoint, clock)
        /\ UNCHANGED <<clock, active, policy_mask, quota_policy,
                       settlement_count>>
    BY <1>4 DEF InitializeQuotaRuntime, SetupOrder
  <2>2. /\ runtime' \in QuotaRuntime /\ checkpoint' \in AuditCheckpoint
        /\ runtime'.initialized
        /\ AuditIsSuffix(runtime') /\ EverySequenceCounted(runtime')
        /\ Mirrors(runtime', checkpoint')
    BY <1>t, <2>1, FreshEffect
  <2>3. TypeOK'
    BY <2>1, <2>2 DEF TypeOK
  <2>4. SetupOrder'
    BY <2>1, <2>2 DEF SetupOrder
  <2>5. AuditIsUnsettledSuffix' /\ CheckpointMirrorsRuntime'
    BY <2>2 DEF AuditIsUnsettledSuffix, CheckpointMirrorsRuntime
  <2> QED
    BY <2>3, <2>4, <2>5
<1>5. ASSUME NEW action \in ActionInputs, ConsumeRequest(action)
      PROVE  IInv'
  <2>1. /\ runtime.initialized
        /\ UNCHANGED <<clock, active, policy_mask, quota_policy, checkpoint,
                       settlement_count>>
    BY <1>5 DEF ConsumeRequest
  <2>2. /\ runtime \in QuotaRuntime /\ active \in BOOLEAN
        /\ quota_policy \in QuotaPolicy /\ checkpoint \in AuditCheckpoint
    BY DEF TypeOK
  <2>3. runtime' \in QuotaRuntime /\ CountedOnce(runtime, runtime')
    BY <1>5, <1>t, <2>2, ConsumeEffect DEF ConsumeRequest
  <2>4. TypeOK'
    BY <2>1, <2>3 DEF TypeOK
  <2>5. SetupOrder'
    BY <2>1, <2>3 DEF SetupOrder, CountedOnce
  <2>6. AuditIsUnsettledSuffix' /\ EverySequenceCounted(runtime')
    BY <2>2, <2>3, CountedOnceKeepsAudit
    DEF AuditIsUnsettledSuffix, CheckpointMirrorsRuntime
  <2>7. Mirrors(runtime', checkpoint')
    BY <2>1, <2>2, <2>3, CountedOnceKeepsMirror DEF CheckpointMirrorsRuntime
  <2> QED
    BY <2>4, <2>5, <2>6, <2>7 DEF CheckpointMirrorsRuntime
<1>6. ASSUME SettleRuntimeCheckpoint
      PROVE  IInv'
  <2>1. /\ runtime.initialized /\ settlement_count < MaxU64
        /\ checkpoint' = SettledCheckpoint(checkpoint, runtime, clock)
        /\ runtime' = SettledRuntime(runtime, clock)
        /\ settlement_count' = settlement_count + 1
        /\ UNCHANGED <<clock, active, policy_mask, quota_policy>>
    BY <1>6 DEF SettleRuntimeCheckpoint
  <2>2. /\ runtime \in QuotaRuntime /\ checkpoint \in AuditCheckpoint
        /\ EverySequenceCounted(runtime)
    BY DEF TypeOK, CheckpointMirrorsRuntime
  <2>3. /\ runtime' \in QuotaRuntime /\ checkpoint' \in AuditCheckpoint
        /\ runtime'.initialized = runtime.initialized
        /\ AuditIsSuffix(runtime') /\ EverySequenceCounted(runtime')
        /\ Mirrors(runtime', checkpoint')
    BY <1>t, <2>1, <2>2, SettleEffect
  <2>4. TypeOK'
    BY <2>1, <2>3, MaxU64Assumption DEF TypeOK, U64
  <2>5. SetupOrder'
    BY <2>1, <2>3 DEF SetupOrder
  <2>6. AuditIsUnsettledSuffix' /\ CheckpointMirrorsRuntime'
    BY <2>3 DEF AuditIsUnsettledSuffix, CheckpointMirrorsRuntime
  <2> QED
    BY <2>4, <2>5, <2>6
<1>7. ASSUME Tick
      PROVE  IInv'
  <2>1. TypeOK'
    BY <1>7, MaxTimeAssumption DEF Tick, TypeOK
  <2>2. SetupOrder'
    BY <1>7 DEF Tick, SetupOrder
  <2> QED
    BY <1>7, <1>a, <2>1, <2>2 DEF Tick
<1>8. ASSUME UNCHANGED vars
      PROVE  IInv'
  <2>1. TypeOK'
    BY <1>8 DEF vars, TypeOK
  <2>2. SetupOrder'
    BY <1>8 DEF vars, SetupOrder
  <2> QED
    BY <1>8, <1>a, <2>1, <2>2 DEF vars
<1> QED
  BY <1>1, <1>2, <1>3, <1>4, <1>5, <1>6, <1>7, <1>8 DEF Next

\* Every reachable state satisfies the inductive invariant.
THEOREM Invariant == Spec => []IInv
  BY InitInvariant, StepInvariant, PTL DEF Spec

\* Type correctness: no checked counter or timestamp leaves its width.
THEOREM TypeCorrect == Spec => []TypeOK
<1>1. IInv => TypeOK
  BY DEF IInv
<1> QED
  BY <1>1, Invariant, PTL

\* The rolling audit is the unsettled suffix of the decisions, whatever the
\* capacity and however consumption and settlement interleave.
THEOREM AuditSuffixCorrect == Spec => []AuditIsUnsettledSuffix
<1>1. IInv => AuditIsUnsettledSuffix
  BY DEF IInv
<1> QED
  BY <1>1, Invariant, PTL

\* The checkpoint is the totals as of the last settled sequence number.
THEOREM MirrorCorrect == Spec => []CheckpointMirrorsRuntime
<1>1. IInv => CheckpointMirrorsRuntime
  BY DEF IInv
<1> QED
  BY <1>1, Invariant, PTL

(***************************************************************************)
(* What one step does to a key's quota and totals, as lemmas: the theorems *)
(* below and those of DelegatedRuntimeProofs cite them.                    *)
(***************************************************************************)
LEMMA TypedAccounts ==
  ASSUME IInv
  PROVE  /\ runtime \in QuotaRuntime /\ checkpoint \in AuditCheckpoint
         /\ quota_policy \in QuotaPolicy /\ active \in BOOLEAN
         /\ clock \in Timestamp
         /\ EverySequenceCounted(runtime)
  BY ClockIsTimestamp DEF IInv, TypeOK, CheckpointMirrorsRuntime

\* A revoked key stays revoked and is admitted nothing.
LEMMA FrozenStep ==
  ASSUME IInv, Next, ~active
  PROVE  /\ ~active'
         /\ runtime'.total_allowed = runtime.total_allowed
         /\ runtime'.current_window_used = runtime.current_window_used
<1>k. /\ runtime \in QuotaRuntime /\ checkpoint \in AuditCheckpoint
      /\ quota_policy \in QuotaPolicy /\ active \in BOOLEAN
      /\ clock \in Timestamp
      /\ EverySequenceCounted(runtime)
  BY TypedAccounts
<1>1. CASE \E mask \in MaskInputs : AttachPolicyToRole(mask)
  BY <1>1 DEF AttachPolicyToRole
<1>2. CASE RevokeApiKey
  BY <1>2 DEF RevokeApiKey
<1>3. CASE \E max_requests \in MaxRequestsInputs,
              window_seconds \in WindowInputs :
             CreateQuotaPolicy(max_requests, window_seconds)
  BY <1>3 DEF CreateQuotaPolicy
<1>4. CASE InitializeQuotaRuntime
  BY <1>4 DEF InitializeQuotaRuntime, FreshRuntime, ZeroedRuntime, IInv,
              SetupOrder
<1>5. CASE \E action \in ActionInputs : ConsumeRequest(action)
  <2>1. RefusedUnchanged(runtime, runtime')
    BY <1>5, <1>k, ConsumeEffect DEF ConsumeRequest
  <2> QED
    BY <1>5, <2>1 DEF ConsumeRequest, RefusedUnchanged
<1>6. CASE SettleRuntimeCheckpoint
  BY <1>6, <1>k, SettleEffect DEF SettleRuntimeCheckpoint
<1>7. CASE Tick
  BY <1>7 DEF Tick
<1> QED
  BY <1>1, <1>2, <1>3, <1>4, <1>5, <1>6, <1>7 DEF Next

\* rt2's window opened later than rt's, or is rt's and has not lost a count.
Forward(rt, rt2) ==
  \/ rt2.current_window_started_at > rt.current_window_started_at
  \/ /\ rt2.current_window_started_at = rt.current_window_started_at
     /\ rt2.current_window_used >= rt.current_window_used

\* A decision moves a runtime's window forward under any policy whose window is
\* longer than nothing.
LEMMA ConsumedForward ==
  ASSUME NEW rt \in QuotaRuntime, NEW rt2 \in QuotaRuntime,
         NEW policy \in QuotaPolicy, NEW now \in Timestamp,
         ValidQuotaConfig(policy.max_requests, policy.window_seconds),
         WindowMoved(rt, rt2, policy, now)
  PROVE  Forward(rt, rt2)
<1>1. /\ rt.current_window_started_at \in Int /\ now \in Int
      /\ policy.window_seconds \in Int /\ policy.window_seconds > 0
  BY DEF QuotaRuntime, QuotaPolicy, Timestamp, ValidQuotaConfig
<1> QED
  BY <1>1 DEF WindowMoved, WindowEnd, Forward

\* A runtime whose window did not change has not moved back.
LEMMA UnmovedForward ==
  ASSUME NEW rt \in QuotaRuntime, NEW rt2,
         rt2.current_window_started_at = rt.current_window_started_at,
         rt2.current_window_used = rt.current_window_used
  PROVE  Forward(rt, rt2)
  BY DEF QuotaRuntime, U64, Forward

LEMMA ForwardStep ==
  ASSUME IInv, Next, runtime.initialized
  PROVE  Forward(runtime, runtime')
<1>k. /\ runtime \in QuotaRuntime /\ checkpoint \in AuditCheckpoint
      /\ quota_policy \in QuotaPolicy /\ active \in BOOLEAN
      /\ clock \in Timestamp
      /\ EverySequenceCounted(runtime)
  BY TypedAccounts
<1>1. CASE UNCHANGED runtime
  BY <1>1, <1>k, UnmovedForward
<1>2. CASE \E action \in ActionInputs : ConsumeRequest(action)
  <2>1. /\ runtime' \in QuotaRuntime
        /\ WindowMoved(runtime, runtime', quota_policy, clock)
    BY <1>2, <1>k, ConsumeEffect DEF ConsumeRequest
  <2>2. ValidQuotaConfig(quota_policy.max_requests, quota_policy.window_seconds)
    BY DEF IInv, SetupOrder
  <2> QED
    BY <1>k, <2>1, <2>2, ConsumedForward
<1>3. CASE SettleRuntimeCheckpoint
  <2>1. /\ runtime'.current_window_used = runtime.current_window_used
        /\ runtime'.current_window_started_at = runtime.current_window_started_at
    BY <1>3, <1>k, SettleEffect DEF SettleRuntimeCheckpoint
  <2> QED
    BY <1>k, <2>1, UnmovedForward
<1> QED
  BY <1>1, <1>2, <1>3
  DEF Next, AttachPolicyToRole, RevokeApiKey, CreateQuotaPolicy,
      InitializeQuotaRuntime, Tick

\* From one pair of totals to another by one admission, one refusal, one
\* settlement of everything, or not at all.
LedgerMove(rt, ckpt, rt2, ckpt2) ==
  LET SameDecided == /\ rt2.total_allowed = rt.total_allowed
                     /\ rt2.total_rejected = rt.total_rejected
      SameSettled == /\ ckpt2.total_allowed = ckpt.total_allowed
                     /\ ckpt2.total_rejected = ckpt.total_rejected
  IN  \/ SameDecided /\ SameSettled
      \/ /\ rt2.total_allowed = rt.total_allowed + 1
         /\ rt2.total_rejected = rt.total_rejected
         /\ SameSettled
      \/ /\ rt2.total_allowed = rt.total_allowed
         /\ rt2.total_rejected = rt.total_rejected + 1
         /\ SameSettled
      \/ /\ SameDecided
         /\ ckpt2.total_allowed = rt.total_allowed
         /\ ckpt2.total_rejected = rt.total_rejected

LEMMA LedgerStep ==
  ASSUME IInv, Next
  PROVE  LedgerMove(runtime, checkpoint, runtime', checkpoint')
<1> USE DEF LedgerMove
<1>k. /\ runtime \in QuotaRuntime /\ checkpoint \in AuditCheckpoint
      /\ quota_policy \in QuotaPolicy /\ active \in BOOLEAN
      /\ clock \in Timestamp
      /\ EverySequenceCounted(runtime)
  BY TypedAccounts
<1>1. CASE UNCHANGED <<runtime, checkpoint>>
  BY <1>1
<1>2. CASE InitializeQuotaRuntime
  <2>1. /\ runtime'.total_allowed = 0 /\ runtime'.total_rejected = 0
        /\ checkpoint'.total_allowed = 0 /\ checkpoint'.total_rejected = 0
    BY <1>2, <1>k, FreshEffect DEF InitializeQuotaRuntime, IInv, SetupOrder
  <2>2. /\ runtime.total_allowed = 0 /\ runtime.total_rejected = 0
        /\ checkpoint.total_allowed = 0 /\ checkpoint.total_rejected = 0
    BY <1>2 DEF InitializeQuotaRuntime, IInv, SetupOrder, ZeroedRuntime,
                ZeroedCheckpoint
  <2> QED
    BY <2>1, <2>2
<1>3. CASE \E action \in ActionInputs : ConsumeRequest(action)
  <2>1. CountedOnce(runtime, runtime') /\ UNCHANGED checkpoint
    BY <1>3, <1>k, ConsumeEffect DEF ConsumeRequest
  <2> QED
    BY <2>1 DEF CountedOnce
<1>4. CASE SettleRuntimeCheckpoint
  BY <1>4, <1>k, SettleEffect DEF SettleRuntimeCheckpoint
<1> QED
  BY <1>1, <1>2, <1>3, <1>4
  DEF Next, AttachPolicyToRole, RevokeApiKey, CreateQuotaPolicy, Tick

\* A revoked key is never active again and gets no admission.
THEOREM RevocationFinal == Spec => RevokedKeyAdmitsNothing
<1> DEFINE Frozen == ~active => /\ ~active'
                                /\ runtime'.total_allowed = runtime.total_allowed
                                /\ runtime'.current_window_used
                                     = runtime.current_window_used
<1>1. IInv /\ [Next]_vars => [Frozen]_vars
  BY FrozenStep
<1> QED
  BY <1>1, Invariant, PTL DEF Spec, RevokedKeyAdmitsNothing

\* No step gives quota back: the window opens later or its counter stands,
\* because a policy's window is longer than nothing (SetupOrder).
THEOREM NoRefund == Spec => WindowNeverRefunds
<1> DEFINE NotBack ==
      runtime.initialized =>
       \/ runtime'.current_window_started_at > runtime.current_window_started_at
       \/ /\ runtime'.current_window_started_at = runtime.current_window_started_at
          /\ runtime'.current_window_used >= runtime.current_window_used
<1>1. IInv /\ [Next]_vars => [NotBack]_vars
  BY ForwardStep DEF Forward
<1> QED
  BY <1>1, Invariant, PTL DEF Spec, WindowNeverRefunds

\* The accounts implement the ledger: each instruction admits one request,
\* refuses one, settles everything decided, or touches neither column.
THEOREM LedgerImplemented == Spec => ImplementsLedger
<1>1. Init => Ledger!Init
  BY DEF Init, Ledger!Init, Ledger!Nothing, ZeroedRuntime, ZeroedCheckpoint
<1>2. IInv /\ [Next]_vars => [Ledger!Next]_(Ledger!ledgerVars)
  <2>1. CASE UNCHANGED vars
    BY <2>1 DEF vars, Ledger!ledgerVars
  <2>2. ASSUME IInv, Next PROVE Ledger!Next \/ UNCHANGED Ledger!ledgerVars
    <3>1. LedgerMove(runtime, checkpoint, runtime', checkpoint')
      BY <2>2, LedgerStep
    <3> QED
      BY <3>1 DEF LedgerMove, Ledger!Next, Ledger!Admit, Ledger!Refuse,
                  Ledger!Settle, Ledger!ledgerVars
  <2> QED
    BY <2>1, <2>2
<1> QED
  BY <1>1, <1>2, Invariant, PTL DEF Spec, ImplementsLedger, Ledger!Spec
=============================================================================
