----------------------------- MODULE RuntimeOps -----------------------------
(***************************************************************************)
(* The accounts of one API key's hot path and the pure part of every       *)
(* handler that reads or writes them (state.rs, utils.rs, the bodies of    *)
(* instructions/*.rs).  The operators take and return account records; the *)
(* modules that EXTEND this one say which copy of an account a transaction *)
(* works on, and when.  An operator whose name begins with Faulty is the   *)
(* one after it with a bug put in: the README tells which property each    *)
(* of them breaks.                                                         *)
(*                                                                         *)
(* Field names are those of state.rs.  Left out, because no property tells *)
(* their values apart: bumps, the Pubkeys that bind an account to its key  *)
(* (each key has PDAs of its own), delegated_validator and last_action.    *)
(* `allowed` of an audit record is reason = "Allowed": consume_request     *)
(* sets the two together.                                                  *)
(***************************************************************************)
EXTENDS Integers, Sequences

CONSTANTS
  MAX_RUNTIME_AUDIT_ITEMS,  \* capacity of rolling_audit
  MaxU64,                   \* largest u64: every counter is checked_add'ed
  MaxI64                    \* largest i64: every timestamp and time span

ASSUME AuditCapAssumption == MAX_RUNTIME_AUDIT_ITEMS \in Nat \ {0}
ASSUME MaxU64Assumption   == MaxU64 \in Nat \ {0}
ASSUME MaxI64Assumption   == MaxI64 \in Nat \ {0}

(***************************************************************************)
(* Types.                                                                  *)
(***************************************************************************)
U64       == 0..MaxU64
Timestamp == 0..MaxI64

\* A permission mask is the set of its bits; action a is granted by bit a.
ValidActions    == 0..4
AdminBit        == 4
ALL_PERMISSIONS == 0..4

DecisionReason ==
  {"Allowed", "Unauthorized", "KeyRevoked", "QuotaExceeded", "InvalidAction"}

RuntimeAuditRecord ==
  [sequence : U64, reason : DecisionReason, timestamp : Timestamp,
   quota_used_after : U64]

QuotaPolicy ==
  [initialized : BOOLEAN, max_requests : U64, window_seconds : Timestamp]

QuotaRuntime ==
  [initialized : BOOLEAN, is_delegated : BOOLEAN, commit_frequency_ms : Nat,
   total_allowed : U64, total_rejected : U64,
   current_window_used : U64, current_window_started_at : Timestamp,
   rolling_sequence : U64, last_reason : DecisionReason,
   last_request_at : Timestamp,
   last_settled_sequence : U64, last_settled_at : Timestamp,
   rolling_audit : Seq(RuntimeAuditRecord)]

AuditCheckpoint ==
  [initialized : BOOLEAN, settled_sequence : U64,
   total_allowed : U64, total_rejected : U64,
   current_window_used : U64, current_window_started_at : Timestamp,
   last_reason : DecisionReason, last_request_at : Timestamp,
   last_settled_at : Timestamp]

(***************************************************************************)
(* What init_if_needed leaves before a handler writes: zeroed accounts     *)
(* (reason code 0 is Allowed).                                             *)
(***************************************************************************)
ZeroedPolicy == [initialized |-> FALSE, max_requests |-> 0, window_seconds |-> 0]

ZeroedRuntime ==
  [initialized |-> FALSE, is_delegated |-> FALSE, commit_frequency_ms |-> 0,
   total_allowed |-> 0, total_rejected |-> 0,
   current_window_used |-> 0, current_window_started_at |-> 0,
   rolling_sequence |-> 0, last_reason |-> "Allowed", last_request_at |-> 0,
   last_settled_sequence |-> 0, last_settled_at |-> 0, rolling_audit |-> << >>]

ZeroedCheckpoint ==
  [initialized |-> FALSE, settled_sequence |-> 0,
   total_allowed |-> 0, total_rejected |-> 0,
   current_window_used |-> 0, current_window_started_at |-> 0,
   last_reason |-> "Allowed", last_request_at |-> 0, last_settled_at |-> 0]

(***************************************************************************)
(* initialize_quota_runtime                                                *)
(***************************************************************************)
FreshRuntime(now) ==
  [ZeroedRuntime EXCEPT !.initialized = TRUE, !.current_window_started_at = now]

FreshCheckpoint(checkpoint, now) ==
  IF checkpoint.initialized THEN checkpoint
  ELSE [ZeroedCheckpoint EXCEPT !.initialized = TRUE,
                                !.current_window_started_at = now]

(***************************************************************************)
(* create_quota_policy and attach_policy_to_role: the argument checks.     *)
(***************************************************************************)
ValidQuotaConfig(max_requests, window_seconds) ==
  max_requests > 0 /\ window_seconds > 0

FaultyAnyMask(mask) == TRUE

ValidPolicyMask(mask) == mask \subseteq ALL_PERMISSIONS

(***************************************************************************)
(* consume_request.  role_allows, reset_runtime_if_expired and             *)
(* append_runtime_audit are operators of their own; a checked_add that     *)
(* overflows fails the transaction, so it is a guard here.                 *)
(***************************************************************************)
RoleAllows(policy_mask, action) == AdminBit \in policy_mask \/ action \in policy_mask

WindowEnd(rt, policy) == rt.current_window_started_at + policy.window_seconds

\* The counter is cleared but the window is not moved.
FaultyResetInPlace(rt, policy, now) ==
  IF now >= WindowEnd(rt, policy)
  THEN [rt EXCEPT !.current_window_used = 0] ELSE rt

\* The age of the window is an unsigned difference: to a clock behind the one
\* that opened it, the window looks long over.
FaultyResetUnsignedAge(rt, policy, now) ==
  IF now >= WindowEnd(rt, policy) \/ now < rt.current_window_started_at
  THEN [rt EXCEPT !.current_window_used = 0, !.current_window_started_at = now]
  ELSE rt

\* The window is moved but the counter is not cleared.
FaultyResetKeepsUsed(rt, policy, now) ==
  IF now >= WindowEnd(rt, policy)
  THEN [rt EXCEPT !.current_window_started_at = now] ELSE rt

ResetIfExpired(rt, policy, now) ==
  IF now >= WindowEnd(rt, policy)
  THEN [rt EXCEPT !.current_window_used = 0, !.current_window_started_at = now]
  ELSE rt

AuditPushed(audit, record) ==
  LET pushed == Append(audit, record)
  IN  IF Len(pushed) > MAX_RUNTIME_AUDIT_ITEMS THEN Tail(pushed) ELSE pushed

\* A refusal is counted as an admission.
FaultyAppendCountsAllowed(rt, reason, now, rt2) ==
  /\ rt.rolling_sequence < MaxU64
  /\ rt.total_allowed < MaxU64
  /\ rt2 = [rt EXCEPT
       !.rolling_sequence = @ + 1,
       !.total_allowed = @ + 1,
       !.last_reason = reason,
       !.last_request_at = now,
       !.rolling_audit = AuditPushed(@,
          [sequence |-> rt.rolling_sequence + 1, reason |-> reason,
           timestamp |-> now, quota_used_after |-> rt.current_window_used])]

\* The additions are not checked.
FaultyAppendUnchecked(rt, reason, now, rt2) ==
  rt2 = [rt EXCEPT
       !.rolling_sequence = @ + 1,
       !.total_allowed  = IF reason = "Allowed" THEN @ + 1 ELSE @,
       !.total_rejected = IF reason = "Allowed" THEN @ ELSE @ + 1,
       !.last_reason = reason,
       !.last_request_at = now,
       !.rolling_audit = AuditPushed(@,
          [sequence |-> rt.rolling_sequence + 1, reason |-> reason,
           timestamp |-> now, quota_used_after |-> rt.current_window_used])]

AppendRuntimeAudit(rt, reason, now, rt2) ==
  /\ rt.rolling_sequence < MaxU64
  /\ IF reason = "Allowed" THEN rt.total_allowed < MaxU64
                           ELSE rt.total_rejected < MaxU64
  /\ rt2 = [rt EXCEPT
       !.rolling_sequence = @ + 1,
       !.total_allowed  = IF reason = "Allowed" THEN @ + 1 ELSE @,
       !.total_rejected = IF reason = "Allowed" THEN @ ELSE @ + 1,
       !.last_reason = reason,
       !.last_request_at = now,
       !.rolling_audit = AuditPushed(@,
          [sequence |-> rt.rolling_sequence + 1, reason |-> reason,
           timestamp |-> now, quota_used_after |-> rt.current_window_used])]

RejectRevoked(rt, active, now, rt2) ==
  /\ ~active
  /\ AppendRuntimeAudit(rt, "KeyRevoked", now, rt2)

RejectInvalidAction(rt, active, action, now, rt2) ==
  /\ active
  /\ action \notin ValidActions
  /\ AppendRuntimeAudit(rt, "InvalidAction", now, rt2)

RejectUnauthorized(rt, active, policy_mask, action, now, rt2) ==
  /\ active
  /\ action \in ValidActions
  /\ ~RoleAllows(policy_mask, action)
  /\ AppendRuntimeAudit(rt, "Unauthorized", now, rt2)

\* Reached by a revoked key too.
FaultyQuotaStageRevoked(rt, active, policy_mask, policy, action) ==
  /\ action \in ValidActions
  /\ RoleAllows(policy_mask, action)
  /\ WindowEnd(rt, policy) <= MaxI64

\* The quota stage: reached by an active key's authorised action, and it
\* fails outright when the end of the window is not an i64.
QuotaStage(rt, active, policy_mask, policy, action) ==
  /\ active
  /\ action \in ValidActions
  /\ RoleAllows(policy_mask, action)
  /\ WindowEnd(rt, policy) <= MaxI64

RejectOverQuota(rt, active, policy_mask, policy, action, now, rt2) ==
  LET reset == ResetIfExpired(rt, policy, now)
  IN  /\ QuotaStage(rt, active, policy_mask, policy, action)
      /\ reset.current_window_used >= policy.max_requests
      /\ AppendRuntimeAudit(reset, "QuotaExceeded", now, rt2)

AllowRequest(rt, active, policy_mask, policy, action, now, rt2) ==
  LET reset == ResetIfExpired(rt, policy, now)
  IN  /\ QuotaStage(rt, active, policy_mask, policy, action)
      /\ reset.current_window_used < policy.max_requests
      /\ reset.current_window_used < MaxU64
      /\ AppendRuntimeAudit([reset EXCEPT !.current_window_used = @ + 1],
                            "Allowed", now, rt2)

Consume(rt, active, policy_mask, policy, action, now, rt2) ==
  \/ RejectRevoked(rt, active, now, rt2)
  \/ RejectInvalidAction(rt, active, action, now, rt2)
  \/ RejectUnauthorized(rt, active, policy_mask, action, now, rt2)
  \/ RejectOverQuota(rt, active, policy_mask, policy, action, now, rt2)
  \/ AllowRequest(rt, active, policy_mask, policy, action, now, rt2)

(***************************************************************************)
(* settle_runtime_checkpoint                                               *)
(***************************************************************************)
\* The rejected total is forgotten.
FaultySettledPartially(checkpoint, rt, now) ==
  [checkpoint EXCEPT
     !.settled_sequence = rt.rolling_sequence,
     !.total_allowed = rt.total_allowed,
     !.last_settled_at = now]

SettledCheckpoint(checkpoint, rt, now) ==
  [checkpoint EXCEPT
     !.settled_sequence = rt.rolling_sequence,
     !.total_allowed = rt.total_allowed,
     !.total_rejected = rt.total_rejected,
     !.current_window_used = rt.current_window_used,
     !.current_window_started_at = rt.current_window_started_at,
     !.last_reason = rt.last_reason,
     !.last_request_at = rt.last_request_at,
     !.last_settled_at = now]

\* The drained records are not cleared.
FaultySettledKeepsAudit(rt, now) ==
  [rt EXCEPT !.last_settled_sequence = rt.rolling_sequence,
             !.last_settled_at = now]

SettledRuntime(rt, now) ==
  [rt EXCEPT !.last_settled_sequence = rt.rolling_sequence,
             !.last_settled_at = now,
             !.rolling_audit = << >>]

(***************************************************************************)
(* delegate_quota_runtime and commit_and_undelegate_quota_runtime          *)
(***************************************************************************)
MarkedDelegated(rt, commit_frequency_ms) ==
  [rt EXCEPT !.is_delegated = TRUE, !.commit_frequency_ms = commit_frequency_ms]

MarkedUndelegated(rt) ==
  [rt EXCEPT !.is_delegated = FALSE, !.commit_frequency_ms = 0]

(***************************************************************************)
(* What a runtime record, and a runtime next to its checkpoint, should     *)
(* look like between any two instructions.                                 *)
(***************************************************************************)
Unsettled(rt) == rt.rolling_sequence - rt.last_settled_sequence

AuditIsSuffix(rt) ==
  LET audit == rt.rolling_audit
  IN  /\ Len(audit) <= MAX_RUNTIME_AUDIT_ITEMS
      /\ Len(audit) <= Unsettled(rt)
      /\ Len(audit) \in {MAX_RUNTIME_AUDIT_ITEMS, Unsettled(rt)}
      /\ \A i \in 1..Len(audit) :
           audit[i].sequence = rt.rolling_sequence - Len(audit) + i

EverySequenceCounted(rt) ==
  rt.rolling_sequence = rt.total_allowed + rt.total_rejected

Mirrors(rt, checkpoint) ==
  /\ checkpoint.settled_sequence =
       checkpoint.total_allowed + checkpoint.total_rejected
  /\ checkpoint.settled_sequence = rt.last_settled_sequence
  /\ checkpoint.last_settled_at = rt.last_settled_at
  /\ checkpoint.total_allowed <= rt.total_allowed
  /\ checkpoint.total_rejected <= rt.total_rejected
=============================================================================
