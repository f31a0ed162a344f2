------------------------------ MODULE Reconcile ------------------------------
(***************************************************************************)
(* scripts/reconcile-runtime.ts as a process beside everything that        *)
(* DelegatedRuntime lets happen: an operator runs it in one of its modes,  *)
(* it dies or is refused, and is run again.  One step per await; what the  *)
(* script does between two awaits belongs to the step before.              *)
(***************************************************************************)
EXTENDS RuntimeHealth

CONSTANTS
  ModeInputs,  \* the modes operators run it in
  MaxKills     \* bound: how often the process dies between two steps

Modes == {"status", "commit-only", "undelegate-and-settle", "settle-if-safe"}

ASSUME ModeAssumption == ModeInputs \subseteq Modes
ASSUME MaxKillsAssumption == MaxKills \in Nat

VARIABLES
  pc,           \* the await the script is at
  mode,         \* its --mode
  seen,         \* the runtime last fetched: its flag and its sequence
  kills,        \* how often it has died
  undelegated,  \* history: this run's own undelegation was accepted
  started_at    \* history: decisions made when this run started

scriptVars == <<pc, mode, seen, kills, undelegated, started_at>>
reconcileVars == <<delegatedVars, scriptVars>>

ScriptSteps ==
  {"before_runtime", "before_checkpoint", "commit", "undelegate",
   "again_runtime", "again_checkpoint", "settle",
   "after_runtime", "after_checkpoint"}

ReconcileTypeOK ==
  /\ pc \in ScriptSteps \cup {"idle", "done", "failed"}
  /\ mode \in Modes
  /\ seen \in [rolling_sequence : U64, is_delegated : BOOLEAN]
  /\ kills \in 0..MaxKills
  /\ undelegated \in BOOLEAN
  /\ started_at \in U64

ReconcileInit ==
  /\ DelegatedInit
  /\ pc = "idle"
  /\ mode = "status"
  /\ seen = [rolling_sequence |-> 0, is_delegated |-> FALSE]
  /\ kills = 0
  /\ undelegated = FALSE
  /\ started_at = 0

Start(m) ==
  /\ pc \notin ScriptSteps
  /\ pc' = "before_runtime"
  /\ mode' = m
  /\ undelegated' = FALSE
  /\ started_at' = Live.rolling_sequence
  /\ seen' = [rolling_sequence |-> 0, is_delegated |-> FALSE]
  /\ UNCHANGED <<delegatedVars, kills>>

\* loadHealth, first await.  A fetch of an account that is not there throws.
FetchRuntime ==
  /\ pc \in {"before_runtime", "again_runtime", "after_runtime"}
  /\ \E view \in RuntimeViews :
       /\ view.initialized
       /\ seen' = [rolling_sequence |-> view.rolling_sequence,
                   is_delegated |-> view.is_delegated]
  /\ pc' = CASE pc = "before_runtime" -> "before_checkpoint"
             [] pc = "again_runtime"  -> "again_checkpoint"
             [] pc = "after_runtime"  -> "after_checkpoint"
  /\ UNCHANGED <<delegatedVars, mode, kills, undelegated, started_at>>

\* A runtime that is not delegated is taken to need nothing more.
FaultyAfterBefore(delegated, drift) ==
  CASE mode = "status" -> "after_runtime"
    [] mode = "commit-only" -> IF delegated THEN "commit" ELSE "failed"
    [] mode = "undelegate-and-settle" ->
         IF delegated THEN "undelegate" ELSE "after_runtime"
    [] mode = "settle-if-safe" ->
         IF delegated THEN "failed"
         ELSE IF drift = 0 THEN "after_runtime" ELSE "settle"

\* Where the switch over the mode goes with the health before it.
AfterBefore(delegated, drift) ==
  CASE mode = "status" -> "after_runtime"
    [] mode = "commit-only" -> IF delegated THEN "commit" ELSE "failed"
    [] mode = "undelegate-and-settle" ->
         IF delegated THEN "undelegate" ELSE "again_runtime"
    [] mode = "settle-if-safe" ->
         IF delegated THEN "failed"
         ELSE IF drift = 0 THEN "after_runtime" ELSE "settle"

\* The flag after the undelegation is not looked at.
FaultyAfterAgain(delegated, drift) ==
  IF drift > 0 THEN "settle" ELSE "after_runtime"

\* Where undelegate-and-settle goes with the health after the undelegation.
AfterAgain(delegated, drift) ==
  IF delegated THEN "failed"
  ELSE IF drift > 0 THEN "settle" ELSE "after_runtime"

\* loadHealth, second await, and the code up to the next one.
FetchCheckpoint ==
  LET drift == Drift(seen, checkpoint)
  IN  /\ pc \in {"before_checkpoint", "again_checkpoint", "after_checkpoint"}
      /\ pc' = CASE pc = "before_checkpoint" -> AfterBefore(seen.is_delegated, drift)
                 [] pc = "again_checkpoint"  -> AfterAgain(seen.is_delegated, drift)
                 [] pc = "after_checkpoint"  -> "done"
      /\ UNCHANGED <<delegatedVars, mode, seen, kills, undelegated, started_at>>

\* A transaction takes effect; the script goes on, or loses the answer (a
\* timeout while confirming throws) and ends.
SendCommit ==
  /\ pc = "commit"
  /\ CommitQuotaRuntime
  /\ pc' \in {"after_runtime", "failed"}
  /\ UNCHANGED <<mode, seen, kills, undelegated, started_at>>

SendUndelegate ==
  /\ pc = "undelegate"
  /\ CommitAndUndelegateQuotaRuntime
  /\ pc' \in {"again_runtime", "failed"}
  /\ undelegated' = TRUE
  /\ UNCHANGED <<mode, seen, kills, started_at>>

SendSettle ==
  /\ pc = "settle"
  /\ owner = "program"
  /\ SettleRuntimeCheckpoint
  /\ pc' \in {"after_runtime", "failed"}
  /\ UNCHANGED <<owner, erVars, er_clock, commits, mode, seen, kills,
                 undelegated, started_at>>

\* The await throws: no such account, or the instruction is refused.
Refused ==
  /\ \/ pc = "before_runtime" /\ ~runtime.initialized
     \/ pc = "commit" /\ ~(Writable /\ er_runtime.is_delegated)
     \/ pc = "undelegate" /\ ~(Writable /\ er_runtime.is_delegated)
     \/ pc = "settle" /\ ~(owner = "program" /\ settlement_count < MaxU64)
  /\ pc' = "failed"
  /\ UNCHANGED <<delegatedVars, mode, seen, kills, undelegated, started_at>>

Killed ==
  /\ pc \in ScriptSteps
  /\ kills < MaxKills
  /\ kills' = kills + 1
  /\ pc' = "failed"
  /\ UNCHANGED <<delegatedVars, mode, seen, undelegated, started_at>>

Script ==
  \/ FetchRuntime
  \/ FetchCheckpoint
  \/ SendCommit
  \/ SendUndelegate
  \/ SendSettle
  \/ Refused

ReconcileNext ==
  \/ \E m \in ModeInputs : Start(m)
  \/ Script
  \/ Killed
  \/ DelegatedNext /\ UNCHANGED scriptVars

ReconcileSpec == ReconcileInit /\ [][ReconcileNext]_reconcileVars

\* An operator who follows the runbook: a run goes on to its end, and after
\* a run that ended another undelegate-and-settle is started, again and again.
PersistentSpec ==
  /\ ReconcileSpec
  /\ WF_reconcileVars(Finalize /\ UNCHANGED scriptVars)
  /\ WF_reconcileVars(Script)
  /\ SF_reconcileVars(Start("undelegate-and-settle"))

(***************************************************************************)
(* Properties.                                                             *)
(***************************************************************************)

\* A settling run that ends without an error has settled every decision that
\* had been made, on either layer, when it started: whichever copies it was
\* shown, whoever else settled, delegated or undelegated meanwhile, and
\* although runtime and checkpoint were read at different times.
DoneMeansSettled ==
  pc = "done" /\ mode \in {"undelegate-and-settle", "settle-if-safe"} =>
    checkpoint.settled_sequence >= started_at

\* Work left by a run that was killed, refused or lost an answer at any point
\* is picked up by the runs after it, unless the authority goes on opening
\* sessions for ever.
RunsRecover ==
  <>[][owner' = "delegation" => owner = "delegation"]_reconcileVars =>
    \A n \in U64 \ {0} :
      Live.rolling_sequence = n
        ~> (checkpoint.settled_sequence >= n \/ settlement_count = MaxU64)

\* The check between undelegation and settlement (reconcile-runtime.ts:84-86)
\* is there to settle only an account that is back.  Asked through the router,
\* the ER's copy says so while the undelegation is still under way.
SettlesOnlyWhenBack ==
  pc = "settle" /\ undelegated => ~er_locked
=============================================================================
