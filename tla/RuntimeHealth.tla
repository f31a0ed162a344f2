---------------------------- MODULE RuntimeHealth ----------------------------
(***************************************************************************)
(* What an operator is told: summarizeRuntimeHealth of client/gatekeeper.ts *)
(* over the accounts fetchRuntimeAccount (scripts/common.ts and            *)
(* cli/gatekeeper.ts) may return.  It asks the router first and silently   *)
(* falls back to base RPC, so during a session the answer is computed from *)
(* the ER's copy or from the base copy, and its reader cannot tell which.  *)
(* The checkpoint always comes from base.                                  *)
(***************************************************************************)
EXTENDS DelegatedRuntime

\* What a fetch of the runtime account may return.
RuntimeViews == {runtime} \cup (IF owner = "delegation" THEN {er_runtime} ELSE {})

Drift(rt, ckpt) ==
  IF rt.rolling_sequence >= ckpt.settled_sequence
  THEN rt.rolling_sequence - ckpt.settled_sequence ELSE 0

\* The flag is not consulted.
FaultyRecommendByDrift(rt, ckpt) ==
  IF Drift(rt, ckpt) > 0 THEN "settle" ELSE "none"

RecommendedAction(rt, ckpt) ==
  CASE rt.is_delegated /\ Drift(rt, ckpt) > 0  -> "undelegate_and_settle"
    [] rt.is_delegated /\ Drift(rt, ckpt) = 0  -> "commit"
    [] ~rt.is_delegated /\ Drift(rt, ckpt) > 0 -> "settle"
    [] OTHER                                   -> "none"

\* "Rolling audit buffer is full; older runtime-only entries have been
\* evicted."  The client's 8 is MAX_RUNTIME_AUDIT_ITEMS written again.
NotesEviction(rt) == Len(rt.rolling_audit) >= MAX_RUNTIME_AUDIT_ITEMS

(***************************************************************************)
(* Properties.                                                             *)
(***************************************************************************)

\* Whichever copy was read, "none" is said only when every decision made on
\* either layer is settled: the fall-back never hides unsettled work, because
\* the base copy of an open session is flagged as delegated.
NoFalseAllClear ==
  runtime.initialized =>
    \A view \in RuntimeViews :
      RecommendedAction(view, checkpoint) = "none" => Unsettled(Live) = 0

\* Drift may lag behind the session but never exceeds what is unsettled, and
\* the clamp at zero never hides a checkpoint ahead of the runtime.
DriftIsLowerBound ==
  runtime.initialized =>
    \A view \in RuntimeViews :
      /\ view.rolling_sequence >= checkpoint.settled_sequence
      /\ Drift(view, checkpoint) <= Unsettled(Live)

\* What the note says when it recommends "settle": the unsettled changes are
\* on base (client/gatekeeper.ts:245).  Read from the ER after an undelegation
\* was scheduled, the flag is down while base still waits for the data.
SettleAdviceHolds ==
  runtime.initialized =>
    \A view \in RuntimeViews :
      RecommendedAction(view, checkpoint) = "settle" => owner = "program"

\* What the eviction note says: records that were never settled are gone from
\* the runtime.  A buffer that is exactly full has lost none.
EvictionNoteTrue ==
  NotesEviction(runtime) => Unsettled(runtime) > Len(runtime.rolling_audit)
=============================================================================
