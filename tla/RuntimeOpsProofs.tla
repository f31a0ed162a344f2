--------------------------- MODULE RuntimeOpsProofs ---------------------------
(***************************************************************************)
(* Facts about the record operators of RuntimeOps, for every capacity and  *)
(* every integer width.  A lemma about Consume is proved from one about    *)
(* AppendRuntimeAudit, the step all five outcomes end with.                *)
(***************************************************************************)
EXTENDS RuntimeOps, TLAPS

(***************************************************************************)
(* The shapes the lemmas speak of.                                         *)
(***************************************************************************)

\* The two runtimes agree on every field but the two of the window.
SameButWindow(rt, rt2) ==
  /\ rt2.initialized = rt.initialized
  /\ rt2.is_delegated = rt.is_delegated
  /\ rt2.commit_frequency_ms = rt.commit_frequency_ms
  /\ rt2.total_allowed = rt.total_allowed
  /\ rt2.total_rejected = rt.total_rejected
  /\ rt2.rolling_sequence = rt.rolling_sequence
  /\ rt2.last_settled_sequence = rt.last_settled_sequence
  /\ rt2.last_settled_at = rt.last_settled_at
  /\ rt2.rolling_audit = rt.rolling_audit

\* rt2 is rt after one more decision, counted once and recorded once.
CountedOnce(rt, rt2) ==
  /\ rt2.initialized = rt.initialized
  /\ rt2.is_delegated = rt.is_delegated
  /\ rt2.commit_frequency_ms = rt.commit_frequency_ms
  /\ rt2.rolling_sequence = rt.rolling_sequence + 1
  /\ \/ /\ rt2.last_reason = "Allowed"
        /\ rt2.total_allowed = rt.total_allowed + 1
        /\ rt2.total_rejected = rt.total_rejected
     \/ /\ rt2.last_reason # "Allowed"
        /\ rt2.total_allowed = rt.total_allowed
        /\ rt2.total_rejected = rt.total_rejected + 1
  /\ rt2.last_settled_sequence = rt.last_settled_sequence
  /\ rt2.last_settled_at = rt.last_settled_at
  /\ \E record \in RuntimeAuditRecord :
       /\ record.sequence = rt.rolling_sequence + 1
       /\ record.reason = rt2.last_reason
       /\ rt2.rolling_audit = AuditPushed(rt.rolling_audit, record)

\* The window of rt2 is rt's with a counter that has not fallen, or one that
\* opened now, after rt's had ended.
WindowMoved(rt, rt2, policy, now) ==
  \/ /\ rt2.current_window_started_at = rt.current_window_started_at
     /\ rt2.current_window_used >= rt.current_window_used
  \/ /\ rt2.current_window_started_at = now
     /\ now >= WindowEnd(rt, policy)

\* rt2 is rt after a refusal that left the quota alone.
RefusedUnchanged(rt, rt2) ==
  /\ rt2.total_allowed = rt.total_allowed
  /\ rt2.current_window_used = rt.current_window_used
  /\ rt2.current_window_started_at = rt.current_window_started_at

\* The zeroed accounts, and the ones initialize_quota_runtime writes, are of
\* their types.
LEMMA ZeroedTypes ==
  /\ ZeroedPolicy \in QuotaPolicy
  /\ ZeroedRuntime \in QuotaRuntime
  /\ ZeroedCheckpoint \in AuditCheckpoint
  BY MaxU64Assumption, MaxI64Assumption
  DEF ZeroedPolicy, QuotaPolicy, ZeroedRuntime, QuotaRuntime,
      ZeroedCheckpoint, AuditCheckpoint, U64, Timestamp, DecisionReason

\* append_runtime_audit's push and remove(0) keep a sequence of records within
\* the capacity, and keep every element a record.
LEMMA AuditPushedType ==
  ASSUME NEW audit \in Seq(RuntimeAuditRecord), NEW record \in RuntimeAuditRecord
  PROVE  AuditPushed(audit, record) \in Seq(RuntimeAuditRecord)
<1>1. Append(audit, record) \in Seq(RuntimeAuditRecord)
  OBVIOUS
<1>2. Append(audit, record) # << >>
  <2>1. Len(Append(audit, record)) = Len(audit) + 1 /\ Len(audit) \in Nat
    OBVIOUS
  <2> QED
    BY <2>1
<1> QED
  BY <1>1, <1>2 DEF AuditPushed

\* What the pushed buffer holds: one record more up to the capacity, the new
\* one last, and the earlier ones unmoved or moved down by one.
LEMMA AuditPushedElements ==
  ASSUME NEW audit \in Seq(RuntimeAuditRecord), NEW record \in RuntimeAuditRecord,
         Len(audit) <= MAX_RUNTIME_AUDIT_ITEMS
  PROVE  LET pushed == AuditPushed(audit, record)
         IN  \/ /\ Len(audit) < MAX_RUNTIME_AUDIT_ITEMS
                /\ Len(pushed) = Len(audit) + 1
                /\ \A i \in 1..Len(audit) : pushed[i] = audit[i]
                /\ pushed[Len(pushed)] = record
             \/ /\ Len(audit) = MAX_RUNTIME_AUDIT_ITEMS
                /\ Len(pushed) = Len(audit)
                /\ \A i \in 1..Len(audit) - 1 : pushed[i] = audit[i + 1]
                /\ pushed[Len(pushed)] = record
<1> DEFINE a == Append(audit, record)
<1>1. /\ a \in Seq(RuntimeAuditRecord) /\ Len(a) = Len(audit) + 1
      /\ \A i \in 1..Len(audit) : a[i] = audit[i]
      /\ a[Len(audit) + 1] = record
  OBVIOUS
<1>2. CASE Len(audit) < MAX_RUNTIME_AUDIT_ITEMS
  BY <1>1, <1>2, AuditCapAssumption DEF AuditPushed
<1>3. CASE Len(audit) = MAX_RUNTIME_AUDIT_ITEMS
  <2>1. AuditPushed(audit, record) = Tail(a)
    BY <1>1, <1>3, AuditCapAssumption DEF AuditPushed
  <2>2. /\ Len(Tail(a)) = Len(audit)
        /\ \A i \in 1..Len(audit) : Tail(a)[i] = a[i + 1]
    BY <1>1
  <2>3. Len(audit) \in Nat /\ Len(audit) >= 1
    BY <1>3, AuditCapAssumption
  <2> HIDE DEF a
  <2>4. \A i \in 1..Len(audit) - 1 : Tail(a)[i] = audit[i + 1]
    BY <1>1, <2>2, <2>3
  <2>5. Tail(a)[Len(Tail(a))] = record
    BY <1>1, <2>2, <2>3
  <2> QED
    BY <1>3, <2>1, <2>2, <2>4, <2>5
<1> QED
  BY <1>2, <1>3, AuditCapAssumption

\* One appended decision, field by field.
LEMMA AppendEffect ==
  ASSUME NEW rt \in QuotaRuntime, NEW reason \in DecisionReason,
         NEW now \in Timestamp, NEW rt2,
         AppendRuntimeAudit(rt, reason, now, rt2)
  PROVE  /\ rt2 \in QuotaRuntime
         /\ rt2.initialized = rt.initialized
         /\ rt2.is_delegated = rt.is_delegated
         /\ rt2.commit_frequency_ms = rt.commit_frequency_ms
         /\ rt2.current_window_used = rt.current_window_used
         /\ rt2.current_window_started_at = rt.current_window_started_at
         /\ rt2.rolling_sequence = rt.rolling_sequence + 1
         /\ rt2.last_reason = reason
         /\ IF reason = "Allowed"
            THEN /\ rt2.total_allowed = rt.total_allowed + 1
                 /\ rt2.total_rejected = rt.total_rejected
            ELSE /\ rt2.total_allowed = rt.total_allowed
                 /\ rt2.total_rejected = rt.total_rejected + 1
         /\ rt2.last_settled_sequence = rt.last_settled_sequence
         /\ rt2.last_settled_at = rt.last_settled_at
         /\ \E record \in RuntimeAuditRecord :
              /\ record.sequence = rt.rolling_sequence + 1
              /\ record.reason = rt2.last_reason
              /\ rt2.rolling_audit = AuditPushed(rt.rolling_audit, record)
<1> DEFINE record == [sequence |-> rt.rolling_sequence + 1, reason |-> reason,
                      timestamp |-> now,
                      quota_used_after |-> rt.current_window_used]
<1>1. /\ record \in RuntimeAuditRecord
      /\ record.sequence = rt.rolling_sequence + 1
      /\ record.reason = reason
  BY MaxU64Assumption
  DEF AppendRuntimeAudit, QuotaRuntime, RuntimeAuditRecord, U64
<1>2. rt.rolling_audit \in Seq(RuntimeAuditRecord)
  BY DEF QuotaRuntime
<1> DEFINE pushed == AuditPushed(rt.rolling_audit, record)
<1>3. pushed \in Seq(RuntimeAuditRecord)
  BY <1>1, <1>2, AuditPushedType
<1>4. rt2 = [rt EXCEPT
         !.rolling_sequence = @ + 1,
         !.total_allowed  = IF reason = "Allowed" THEN @ + 1 ELSE @,
         !.total_rejected = IF reason = "Allowed" THEN @ ELSE @ + 1,
         !.last_reason = reason,
         !.last_request_at = now,
         !.rolling_audit = pushed]
  BY DEF AppendRuntimeAudit
<1>5. /\ rt.rolling_sequence < MaxU64
      /\ IF reason = "Allowed" THEN rt.total_allowed < MaxU64
                               ELSE rt.total_rejected < MaxU64
  BY DEF AppendRuntimeAudit
<1>6. rt2.rolling_audit = pushed /\ rt2.last_reason = reason
  BY <1>4 DEF QuotaRuntime
<1> HIDE DEF record, pushed
<1>7. rt2 \in QuotaRuntime
  <2>1. /\ rt.rolling_sequence + 1 \in U64
        /\ (IF reason = "Allowed" THEN rt.total_allowed + 1
                                  ELSE rt.total_allowed) \in U64
        /\ (IF reason = "Allowed" THEN rt.total_rejected
                                  ELSE rt.total_rejected + 1) \in U64
    BY <1>5, MaxU64Assumption DEF QuotaRuntime, U64
  <2> QED
    BY <1>3, <1>4, <2>1 DEF QuotaRuntime
<1>8. /\ rt2.initialized = rt.initialized
      /\ rt2.is_delegated = rt.is_delegated
      /\ rt2.commit_frequency_ms = rt.commit_frequency_ms
      /\ rt2.current_window_used = rt.current_window_used
      /\ rt2.current_window_started_at = rt.current_window_started_at
      /\ rt2.rolling_sequence = rt.rolling_sequence + 1
      /\ rt2.last_settled_sequence = rt.last_settled_sequence
      /\ rt2.last_settled_at = rt.last_settled_at
  BY <1>4 DEF QuotaRuntime
<1>9. IF reason = "Allowed"
      THEN /\ rt2.total_allowed = rt.total_allowed + 1
           /\ rt2.total_rejected = rt.total_rejected
      ELSE /\ rt2.total_allowed = rt.total_allowed
           /\ rt2.total_rejected = rt.total_rejected + 1
  BY <1>4 DEF QuotaRuntime
<1> QED
  BY <1>1, <1>6, <1>7, <1>8, <1>9 DEF pushed

\* reset_runtime_if_expired changes the window fields and nothing else, and
\* only forward: to an empty window that starts now, or not at all.
LEMMA ResetEffect ==
  ASSUME NEW rt \in QuotaRuntime, NEW policy, NEW now \in Timestamp
  PROVE  LET reset == ResetIfExpired(rt, policy, now)
         IN  /\ reset \in QuotaRuntime
             /\ SameButWindow(rt, reset)
             /\ \/ /\ now >= WindowEnd(rt, policy)
                   /\ reset.current_window_used = 0
                   /\ reset.current_window_started_at = now
                \/ reset = rt
<1>1. CASE now >= WindowEnd(rt, policy)
  <2> DEFINE reset == [rt EXCEPT !.current_window_used = 0,
                                 !.current_window_started_at = now]
  <2>1. 0 \in U64
    BY MaxU64Assumption DEF U64
  <2>2. reset \in QuotaRuntime
    BY <2>1 DEF QuotaRuntime
  <2>3. /\ SameButWindow(rt, reset)
        /\ reset.current_window_used = 0
        /\ reset.current_window_started_at = now
    BY DEF QuotaRuntime, SameButWindow
  <2> QED
    BY <1>1, <2>2, <2>3 DEF ResetIfExpired
<1>2. CASE ~(now >= WindowEnd(rt, policy))
  BY <1>2 DEF ResetIfExpired, SameButWindow
<1> QED
  BY <1>1, <1>2

\* consume_request, whatever it decides: the request takes the next sequence
\* number, one total grows by one, one record is pushed, nothing settled moves,
\* and the window only advances.  An admission needs an active key.
LEMMA ConsumeEffect ==
  ASSUME NEW rt \in QuotaRuntime, NEW active \in BOOLEAN, NEW policy_mask,
         NEW policy \in QuotaPolicy, NEW action, NEW now \in Timestamp, NEW rt2,
         Consume(rt, active, policy_mask, policy, action, now, rt2)
  PROVE  /\ rt2 \in QuotaRuntime
         /\ CountedOnce(rt, rt2)
         /\ WindowMoved(rt, rt2, policy, now)
         /\ ~active => RefusedUnchanged(rt, rt2)
<1> DEFINE reset == ResetIfExpired(rt, policy, now)
<1>r. /\ reset \in QuotaRuntime
      /\ SameButWindow(rt, reset)
      /\ \/ /\ now >= WindowEnd(rt, policy)
            /\ reset.current_window_used = 0
            /\ reset.current_window_started_at = now
         \/ reset = rt
  BY ResetEffect
<1>d. DecisionReason = {"Allowed", "Unauthorized", "KeyRevoked",
                        "QuotaExceeded", "InvalidAction"}
  BY DEF DecisionReason
<1>t. rt.current_window_used \in Nat
  BY MaxU64Assumption DEF QuotaRuntime, U64
<1> HIDE DEF reset
\* Every outcome is one append to a runtime that differs from rt in the
\* window fields at most; before the quota stage, in none.
<1>1. ASSUME NEW reason \in DecisionReason \ {"Allowed"},
             AppendRuntimeAudit(rt, reason, now, rt2)
      PROVE  /\ rt2 \in QuotaRuntime
             /\ CountedOnce(rt, rt2)
             /\ WindowMoved(rt, rt2, policy, now)
             /\ RefusedUnchanged(rt, rt2)
  BY <1>1, <1>t, AppendEffect
  DEF CountedOnce, WindowMoved, RefusedUnchanged
<1>2. CASE RejectRevoked(rt, active, now, rt2)
  BY <1>1, <1>2, <1>d DEF RejectRevoked
<1>3. CASE RejectInvalidAction(rt, active, action, now, rt2)
  BY <1>1, <1>3, <1>d DEF RejectInvalidAction
<1>4. CASE RejectUnauthorized(rt, active, policy_mask, action, now, rt2)
  BY <1>1, <1>4, <1>d DEF RejectUnauthorized
<1>5. CASE RejectOverQuota(rt, active, policy_mask, policy, action, now, rt2)
  <2>1. active /\ AppendRuntimeAudit(reset, "QuotaExceeded", now, rt2)
    BY <1>5 DEF RejectOverQuota, QuotaStage, reset
  <2> QED
    BY <1>r, <1>d, <1>t, <2>1, AppendEffect
    DEF CountedOnce, WindowMoved, SameButWindow
<1>6. CASE AllowRequest(rt, active, policy_mask, policy, action, now, rt2)
  <2> DEFINE counted == [reset EXCEPT !.current_window_used = @ + 1]
  <2>1. /\ active
        /\ reset.current_window_used < MaxU64
        /\ AppendRuntimeAudit(counted, "Allowed", now, rt2)
    BY <1>6 DEF AllowRequest, QuotaStage, reset
  <2>2. reset.current_window_used + 1 \in U64
    BY <1>r, <2>1, MaxU64Assumption DEF QuotaRuntime, U64
  <2>3. counted \in QuotaRuntime
    BY <1>r, <2>2 DEF QuotaRuntime
  <2>4. /\ SameButWindow(reset, counted)
        /\ counted.current_window_used = reset.current_window_used + 1
        /\ counted.current_window_started_at = reset.current_window_started_at
    BY <1>r DEF QuotaRuntime, SameButWindow
  <2> HIDE DEF counted
  <2> QED
    BY <1>r, <1>d, <1>t, <2>1, <2>3, <2>4, AppendEffect
    DEF CountedOnce, WindowMoved, SameButWindow
<1> QED
  BY <1>2, <1>3, <1>4, <1>5, <1>6 DEF Consume

\* One more decision keeps the totals exact and the audit the newest unsettled
\* suffix, eviction at the capacity included.
LEMMA CountedOnceKeepsAudit ==
  ASSUME NEW rt \in QuotaRuntime, NEW rt2 \in QuotaRuntime,
         CountedOnce(rt, rt2), AuditIsSuffix(rt), EverySequenceCounted(rt)
  PROVE  AuditIsSuffix(rt2) /\ EverySequenceCounted(rt2)
<1> DEFINE audit == rt.rolling_audit
           n     == rt.rolling_sequence
<1>1. PICK record \in RuntimeAuditRecord :
        /\ record.sequence = n + 1
        /\ rt2.rolling_audit = AuditPushed(audit, record)
  BY DEF CountedOnce
<1> DEFINE pushed == AuditPushed(audit, record)
<1>2. /\ audit \in Seq(RuntimeAuditRecord) /\ Len(audit) \in Nat
      /\ n \in Int /\ rt.last_settled_sequence \in Int
      /\ rt.total_allowed \in Int /\ rt.total_rejected \in Int
  BY DEF QuotaRuntime, U64
<1>3. /\ Len(audit) <= MAX_RUNTIME_AUDIT_ITEMS
      /\ Len(audit) <= n - rt.last_settled_sequence
      /\ \/ Len(audit) = MAX_RUNTIME_AUDIT_ITEMS
         \/ Len(audit) = n - rt.last_settled_sequence
      /\ \A i \in 1..Len(audit) : audit[i].sequence = n - Len(audit) + i
  BY DEF AuditIsSuffix, Unsettled
<1>4. \/ /\ Len(audit) < MAX_RUNTIME_AUDIT_ITEMS
         /\ Len(pushed) = Len(audit) + 1
         /\ \A i \in 1..Len(audit) : pushed[i] = audit[i]
         /\ pushed[Len(pushed)] = record
      \/ /\ Len(audit) = MAX_RUNTIME_AUDIT_ITEMS
         /\ Len(pushed) = Len(audit)
         /\ \A i \in 1..Len(audit) - 1 : pushed[i] = audit[i + 1]
         /\ pushed[Len(pushed)] = record
  BY <1>2, <1>3, AuditPushedElements
<1>5. /\ rt2.rolling_sequence = n + 1
      /\ rt2.last_settled_sequence = rt.last_settled_sequence
      /\ rt2.rolling_audit = pushed
  BY <1>1 DEF CountedOnce
<1>6. EverySequenceCounted(rt2)
  BY <1>2 DEF EverySequenceCounted, CountedOnce
<1> HIDE DEF audit, n, pushed
<1>7. /\ Len(pushed) \in Int
      /\ Len(pushed) <= MAX_RUNTIME_AUDIT_ITEMS
      /\ Len(pushed) <= n + 1 - rt.last_settled_sequence
      /\ \/ Len(pushed) = MAX_RUNTIME_AUDIT_ITEMS
         \/ Len(pushed) = n + 1 - rt.last_settled_sequence
  BY <1>2, <1>3, <1>4, AuditCapAssumption
<1>8. ASSUME NEW i \in 1..Len(pushed)
      PROVE  pushed[i].sequence = n + 1 - Len(pushed) + i
  <2>1. CASE i = Len(pushed)
    <3>1. pushed[i].sequence = n + 1
      BY <1>1, <1>4, <2>1
    <3>2. Len(pushed) \in Int
      BY <1>2, <1>4
    <3> QED
      BY <1>2, <2>1, <3>1, <3>2
  <2>2. CASE i # Len(pushed) /\ Len(audit) < MAX_RUNTIME_AUDIT_ITEMS
    <3>1. /\ i \in 1..Len(audit) /\ pushed[i] = audit[i]
          /\ Len(pushed) = Len(audit) + 1
      BY <1>2, <1>4, <2>2
    <3>2. pushed[i].sequence = n - Len(audit) + i
      BY <1>3, <3>1
    <3> QED
      BY <1>2, <3>1, <3>2
  <2>3. CASE i # Len(pushed) /\ Len(audit) = MAX_RUNTIME_AUDIT_ITEMS
    <3>1. /\ i + 1 \in 1..Len(audit) /\ pushed[i] = audit[i + 1]
          /\ Len(pushed) = Len(audit)
      BY <1>2, <1>4, <2>3
    <3>2. pushed[i].sequence = n - Len(audit) + (i + 1)
      BY <1>3, <3>1
    <3> QED
      BY <1>2, <3>1, <3>2
  <2> QED
    BY <1>4, <2>1, <2>2, <2>3
<1>9. AuditIsSuffix(rt2)
  <2> DEFINE audit2 == rt2.rolling_audit
  <2>1. /\ Len(audit2) <= MAX_RUNTIME_AUDIT_ITEMS
        /\ Len(audit2) <= Unsettled(rt2)
        /\ Len(audit2) \in {MAX_RUNTIME_AUDIT_ITEMS, Unsettled(rt2)}
    BY <1>2, <1>5, <1>7, AuditCapAssumption DEF Unsettled
  <2>2. \A i \in 1..Len(audit2) :
          audit2[i].sequence = rt2.rolling_sequence - Len(audit2) + i
    <3>1. audit2 = pushed /\ rt2.rolling_sequence = n + 1
      BY <1>5
    <3> HIDE DEF audit2
    <3> QED
      BY <1>2, <1>7, <1>8, <3>1
  <2> QED
    BY <2>1, <2>2 DEF AuditIsSuffix
<1> QED
  BY <1>6, <1>9

\* A settled runtime has an empty audit, keeps its totals, and is mirrored by
\* the checkpoint the same instruction writes.
LEMMA SettleEffect ==
  ASSUME NEW rt \in QuotaRuntime, NEW ckpt \in AuditCheckpoint,
         NEW now \in Timestamp, EverySequenceCounted(rt)
  PROVE  LET rt2   == SettledRuntime(rt, now)
             ckpt2 == SettledCheckpoint(ckpt, rt, now)
         IN  /\ rt2 \in QuotaRuntime /\ ckpt2 \in AuditCheckpoint
             /\ rt2.initialized = rt.initialized
             /\ rt2.is_delegated = rt.is_delegated
             /\ rt2.commit_frequency_ms = rt.commit_frequency_ms
             /\ rt2.rolling_sequence = rt.rolling_sequence
             /\ rt2.total_allowed = rt.total_allowed
             /\ rt2.total_rejected = rt.total_rejected
             /\ rt2.current_window_used = rt.current_window_used
             /\ rt2.current_window_started_at = rt.current_window_started_at
             /\ ckpt2.initialized = ckpt.initialized
             /\ ckpt2.total_allowed = rt.total_allowed
             /\ ckpt2.total_rejected = rt.total_rejected
             /\ AuditIsSuffix(rt2)
             /\ EverySequenceCounted(rt2)
             /\ Mirrors(rt2, ckpt2)
<1> DEFINE rt2   == SettledRuntime(rt, now)
           ckpt2 == SettledCheckpoint(ckpt, rt, now)
<1>0. << >> \in Seq(RuntimeAuditRecord)
  OBVIOUS
<1>1. /\ rt2 \in QuotaRuntime
      /\ rt2.initialized = rt.initialized
      /\ rt2.is_delegated = rt.is_delegated
      /\ rt2.commit_frequency_ms = rt.commit_frequency_ms
      /\ rt2.rolling_sequence = rt.rolling_sequence
      /\ rt2.total_allowed = rt.total_allowed
      /\ rt2.total_rejected = rt.total_rejected
      /\ rt2.current_window_used = rt.current_window_used
      /\ rt2.current_window_started_at = rt.current_window_started_at
      /\ rt2.last_settled_sequence = rt.rolling_sequence
      /\ rt2.last_settled_at = now
      /\ rt2.rolling_audit = << >>
  BY <1>0 DEF SettledRuntime, QuotaRuntime
<1>2. /\ ckpt2 \in AuditCheckpoint
      /\ ckpt2.initialized = ckpt.initialized
      /\ ckpt2.settled_sequence = rt.rolling_sequence
      /\ ckpt2.total_allowed = rt.total_allowed
      /\ ckpt2.total_rejected = rt.total_rejected
      /\ ckpt2.last_settled_at = now
  BY DEF SettledCheckpoint, AuditCheckpoint, QuotaRuntime
<1>3. /\ rt.rolling_sequence \in Int
      /\ rt.total_allowed \in Int /\ rt.total_rejected \in Int
  BY DEF QuotaRuntime, U64
<1> HIDE DEF rt2, ckpt2
<1>4. AuditIsSuffix(rt2)
  BY <1>1, <1>3, AuditCapAssumption DEF AuditIsSuffix, Unsettled
<1>5. EverySequenceCounted(rt2) /\ Mirrors(rt2, ckpt2)
  BY <1>1, <1>2, <1>3 DEF EverySequenceCounted, Mirrors
<1> QED
  BY <1>1, <1>2, <1>4, <1>5 DEF rt2, ckpt2

\* A fresh runtime and a zeroed or fresh checkpoint agree that nothing has
\* happened.
LEMMA FreshEffect ==
  ASSUME NEW now \in Timestamp
  PROVE  LET rt2   == FreshRuntime(now)
             ckpt2 == FreshCheckpoint(ZeroedCheckpoint, now)
         IN  /\ rt2 \in QuotaRuntime /\ ckpt2 \in AuditCheckpoint
             /\ rt2.initialized /\ ckpt2.initialized
             /\ ~rt2.is_delegated /\ rt2.commit_frequency_ms = 0
             /\ rt2.total_allowed = 0 /\ rt2.total_rejected = 0
             /\ ckpt2.total_allowed = 0 /\ ckpt2.total_rejected = 0
             /\ AuditIsSuffix(rt2)
             /\ EverySequenceCounted(rt2)
             /\ Mirrors(rt2, ckpt2)
<1> DEFINE rt2   == FreshRuntime(now)
           ckpt2 == FreshCheckpoint(ZeroedCheckpoint, now)
<1>1. /\ rt2 \in QuotaRuntime /\ ckpt2 \in AuditCheckpoint
  BY ZeroedTypes
  DEF FreshRuntime, FreshCheckpoint, QuotaRuntime, AuditCheckpoint,
      ZeroedCheckpoint
<1>2. /\ rt2.initialized /\ ~rt2.is_delegated /\ rt2.commit_frequency_ms = 0
      /\ rt2.total_allowed = 0 /\ rt2.total_rejected = 0
      /\ rt2.rolling_sequence = 0 /\ rt2.last_settled_sequence = 0
      /\ rt2.last_settled_at = 0 /\ rt2.rolling_audit = << >>
  BY DEF FreshRuntime, ZeroedRuntime
<1>3. /\ ckpt2.initialized /\ ckpt2.settled_sequence = 0
      /\ ckpt2.total_allowed = 0 /\ ckpt2.total_rejected = 0
      /\ ckpt2.last_settled_at = 0
  BY DEF FreshCheckpoint, ZeroedCheckpoint
<1> HIDE DEF rt2, ckpt2
<1>4. AuditIsSuffix(rt2) /\ EverySequenceCounted(rt2) /\ Mirrors(rt2, ckpt2)
  BY <1>2, <1>3, AuditCapAssumption
  DEF AuditIsSuffix, Unsettled, EverySequenceCounted, Mirrors
<1> QED
  BY <1>1, <1>2, <1>3, <1>4 DEF rt2, ckpt2

\* rt2 is rt with another delegation flag and commit frequency.
SameButFlag(rt, rt2) ==
  /\ SameButWindow([rt EXCEPT !.is_delegated = rt2.is_delegated,
                              !.commit_frequency_ms = rt2.commit_frequency_ms],
                   rt2)
  /\ rt2.current_window_used = rt.current_window_used
  /\ rt2.current_window_started_at = rt.current_window_started_at

\* Delegation and undelegation write the flag and the frequency only.
LEMMA MarkEffect ==
  ASSUME NEW rt \in QuotaRuntime, NEW commit_frequency_ms \in Nat
  PROVE  /\ MarkedDelegated(rt, commit_frequency_ms) \in QuotaRuntime
         /\ MarkedDelegated(rt, commit_frequency_ms).is_delegated
         /\ SameButFlag(rt, MarkedDelegated(rt, commit_frequency_ms))
         /\ MarkedUndelegated(rt) \in QuotaRuntime
         /\ ~MarkedUndelegated(rt).is_delegated
         /\ SameButFlag(rt, MarkedUndelegated(rt))
  BY DEF MarkedDelegated, MarkedUndelegated, QuotaRuntime, SameButFlag,
         SameButWindow

\* What is well formed stays so when only the flag changes.
LEMMA SameButFlagKeeps ==
  ASSUME NEW rt \in QuotaRuntime, NEW rt2 \in QuotaRuntime, NEW ckpt,
         SameButFlag(rt, rt2)
  PROVE  /\ rt2.initialized = rt.initialized
         /\ rt2.total_allowed = rt.total_allowed
         /\ rt2.total_rejected = rt.total_rejected
         /\ rt2.rolling_sequence = rt.rolling_sequence
         /\ rt2.last_settled_sequence = rt.last_settled_sequence
         /\ rt2.last_settled_at = rt.last_settled_at
         /\ rt2.current_window_used = rt.current_window_used
         /\ rt2.current_window_started_at = rt.current_window_started_at
         /\ AuditIsSuffix(rt) => AuditIsSuffix(rt2)
         /\ EverySequenceCounted(rt) => EverySequenceCounted(rt2)
         /\ Mirrors(rt, ckpt) => Mirrors(rt2, ckpt)
<1>1. /\ rt2.initialized = rt.initialized
      /\ rt2.total_allowed = rt.total_allowed
      /\ rt2.total_rejected = rt.total_rejected
      /\ rt2.rolling_sequence = rt.rolling_sequence
      /\ rt2.last_settled_sequence = rt.last_settled_sequence
      /\ rt2.last_settled_at = rt.last_settled_at
      /\ rt2.rolling_audit = rt.rolling_audit
  BY DEF SameButFlag, SameButWindow, QuotaRuntime
<1>2. AuditIsSuffix(rt) => AuditIsSuffix(rt2)
  BY <1>1 DEF AuditIsSuffix, Unsettled
<1>3. EverySequenceCounted(rt) => EverySequenceCounted(rt2)
  BY <1>1 DEF EverySequenceCounted
<1>4. Mirrors(rt, ckpt) => Mirrors(rt2, ckpt)
  BY <1>1 DEF Mirrors
<1> QED
  BY <1>1, <1>2, <1>3, <1>4 DEF SameButFlag
=============================================================================
