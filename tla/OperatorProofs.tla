---------------------------- MODULE OperatorProofs ----------------------------
(***************************************************************************)
(* What the commands and the reconcile script claim, for every capacity,   *)
(* integer width and number of sessions, runs and deaths: DelegatedRuntime *)
(* beside them keeps its inductive invariant and only moves forward, and   *)
(* what they hold from an earlier await is a bound that stays true; and    *)
(* runs of the script that are repeated come to settle everything.         *)
(***************************************************************************)
EXTENDS Operator, DelegatedRuntimeProofs

(***************************************************************************)
(* What the health summary says that reconcile and runtime-status read:    *)
(* facts of DelegatedRuntime's inductive invariant, whichever copy the     *)
(* router or its fall-back returned.                                       *)
(***************************************************************************)
\* Every view is a well-formed copy of the runtime in use, not ahead of it; a
\* view that does not show the flag is the runtime in use itself.
LEMMA ViewFacts ==
  ASSUME DInv, NEW view \in RuntimeViews
  PROVE  /\ view \in QuotaRuntime /\ WellFormed(view)
         /\ view.rolling_sequence <= Live.rolling_sequence
         /\ view.last_settled_sequence = Live.last_settled_sequence
         /\ ~view.is_delegated => view = Live
<1>f. /\ runtime \in QuotaRuntime /\ er_runtime \in QuotaRuntime
      /\ owner \in {"program", "delegation"}
      /\ WellFormed(runtime)
  BY DInvFacts
<1>1. CASE owner = "program"
  <2>1. view = runtime /\ Live = runtime
    BY <1>1 DEF RuntimeViews, Live
  <2>2. runtime.rolling_sequence <= runtime.rolling_sequence
    BY <1>f DEF QuotaRuntime, U64
  <2> QED
    BY <1>f, <2>1, <2>2
<1>2. CASE owner = "delegation"
  <2>1. view \in {runtime, er_runtime} /\ Live = er_runtime
    BY <1>2 DEF RuntimeViews, Live
  <2>2. WellFormed(er_runtime)
    BY <1>2 DEF DInv, SessionWellFormed
  <2>3. NotAhead(runtime, er_runtime) /\ runtime.is_delegated
    BY <1>2 DEF DInv, CopiesNotAhead, FlagMatchesOwner
  <2>4. er_runtime.rolling_sequence <= er_runtime.rolling_sequence
    BY <1>f DEF QuotaRuntime, U64
  <2> QED
    BY <1>f, <2>1, <2>2, <2>3, <2>4 DEF NotAhead
<1> QED
  BY <1>f, <1>1, <1>2

\* The numbers of a well-formed copy.
LEMMA WellFormedNumbers ==
  ASSUME NEW rt \in QuotaRuntime, checkpoint \in AuditCheckpoint, WellFormed(rt)
  PROVE  /\ rt.rolling_sequence \in Nat /\ rt.last_settled_sequence \in Nat
         /\ checkpoint.settled_sequence = rt.last_settled_sequence
         /\ checkpoint.settled_sequence <= rt.rolling_sequence
         /\ Len(rt.rolling_audit) \in Nat
         /\ \/ Len(rt.rolling_audit) = MAX_RUNTIME_AUDIT_ITEMS
            \/ rt.rolling_sequence - Len(rt.rolling_audit) = checkpoint.settled_sequence
<1>1. /\ rt.rolling_sequence \in Nat /\ rt.last_settled_sequence \in Nat
      /\ rt.total_allowed \in Nat /\ rt.total_rejected \in Nat
      /\ checkpoint.total_allowed \in Nat /\ checkpoint.total_rejected \in Nat
  BY MaxU64Assumption DEF QuotaRuntime, AuditCheckpoint, U64
<1>2. Len(rt.rolling_audit) \in Nat
  BY DEF QuotaRuntime
<1>3. /\ checkpoint.settled_sequence = rt.last_settled_sequence
      /\ checkpoint.settled_sequence =
           checkpoint.total_allowed + checkpoint.total_rejected
      /\ checkpoint.total_allowed <= rt.total_allowed
      /\ checkpoint.total_rejected <= rt.total_rejected
      /\ rt.rolling_sequence = rt.total_allowed + rt.total_rejected
  BY DEF WellFormed, Mirrors, EverySequenceCounted
<1>4. \/ Len(rt.rolling_audit) = MAX_RUNTIME_AUDIT_ITEMS
      \/ Len(rt.rolling_audit) = rt.rolling_sequence - rt.last_settled_sequence
  BY DEF WellFormed, AuditIsSuffix, Unsettled
<1>5. checkpoint.settled_sequence <= rt.rolling_sequence
  BY <1>1, <1>3
<1>6. ASSUME Len(rt.rolling_audit) = rt.rolling_sequence - rt.last_settled_sequence
      PROVE  rt.rolling_sequence - Len(rt.rolling_audit) = checkpoint.settled_sequence
  <2>1. \A n, k \in Nat : n - (n - k) = k
    OBVIOUS
  <2>2. rt.rolling_sequence - (rt.rolling_sequence - rt.last_settled_sequence)
          = rt.last_settled_sequence
    BY <1>1, <2>1
  <2> QED
    BY <1>3, <1>6, <2>2, Zenon
<1> QED
  BY <1>1, <1>2, <1>3, <1>4, <1>5, <1>6

\* Whatever the capacity and however many sessions: "none" is only ever said
\* when no decision on any layer is unsettled.
THEOREM AllClearTrue == DelegatedSpec => []NoFalseAllClear
<1>1. DInv => NoFalseAllClear
  <2> SUFFICES ASSUME DInv, NEW view \in RuntimeViews,
                      RecommendedAction(view, checkpoint) = "none"
               PROVE  Unsettled(Live) = 0
    BY DEF NoFalseAllClear
  <2>1. /\ view \in QuotaRuntime /\ WellFormed(view)
        /\ checkpoint \in AuditCheckpoint
        /\ ~view.is_delegated => view = Live
    BY ViewFacts, DInvFacts
  <2>2. ~view.is_delegated /\ ~(Drift(view, checkpoint) > 0)
    <3>1. view.is_delegated \in BOOLEAN
      BY <2>1 DEF QuotaRuntime
    <3>2. Drift(view, checkpoint) \in Nat
      BY <2>1, WellFormedNumbers DEF Drift
    <3> QED
      BY <3>1, <3>2 DEF RecommendedAction
  <2>3. /\ view.rolling_sequence \in Nat /\ view.last_settled_sequence \in Nat
        /\ view.last_settled_sequence <= view.rolling_sequence
        /\ checkpoint.settled_sequence = view.last_settled_sequence
    BY <2>1, WellFormedNumbers
  <2>4. view.rolling_sequence = view.last_settled_sequence
    BY <2>2, <2>3 DEF Drift
  <2> QED
    BY <2>1, <2>2, <2>3, <2>4 DEF Unsettled
<1> QED
  BY <1>1, DelegatedInvariant, PTL

\* Whatever copy was read, the drift printed is never more than what is
\* unsettled and the checkpoint is never ahead of it.
THEOREM DriftCorrect == DelegatedSpec => []DriftIsLowerBound
<1>1. DInv => DriftIsLowerBound
  <2> SUFFICES ASSUME DInv, NEW view \in RuntimeViews
               PROVE  /\ view.rolling_sequence >= checkpoint.settled_sequence
                      /\ Drift(view, checkpoint) <= Unsettled(Live)
    BY DEF DriftIsLowerBound
  <2>1. /\ view \in QuotaRuntime /\ WellFormed(view)
        /\ checkpoint \in AuditCheckpoint
        /\ view.rolling_sequence <= Live.rolling_sequence
        /\ view.last_settled_sequence = Live.last_settled_sequence
    BY ViewFacts, DInvFacts
  <2>2. /\ view.rolling_sequence \in Nat /\ view.last_settled_sequence \in Nat
        /\ checkpoint.settled_sequence = view.last_settled_sequence
        /\ checkpoint.settled_sequence <= view.rolling_sequence
    BY <2>1, WellFormedNumbers
  <2>3. Live.rolling_sequence \in Nat
    BY LiveFacts, MaxU64Assumption DEF QuotaRuntime, U64
  <2> QED
    BY <2>1, <2>2, <2>3 DEF Drift, Unsettled
<1> QED
  BY <1>1, DelegatedInvariant, PTL

(***************************************************************************)
(* What the commands and the script rely on.                               *)
(***************************************************************************)

\* Everything a fetch can return now or later without another decision.
Copies ==
  {runtime} \cup (IF owner = "delegation"
                  THEN {er_runtime} \cup {commit.rt : commit \in commits} ELSE {})

\* rt2 holds the decisions of rt, and of its records all or none.
SameDecisions(rt, rt2) ==
  /\ rt2.rolling_sequence = rt.rolling_sequence
  /\ rt2.rolling_audit \in {rt.rolling_audit, << >>}

\* Every copy is an old one, or the one that has just decided a request.
CopiesFollow ==
  \A rt2 \in Copies' :
    \/ \E rt \in Copies : SameDecisions(rt, rt2)
    \/ rt2 = Live' /\ CountedOnce(Live, rt2)

\* All that the commands rely on of a step of the system.
Onward ==
  /\ Live'.rolling_sequence >= Live.rolling_sequence
  /\ checkpoint'.settled_sequence >= checkpoint.settled_sequence
  /\ CopiesFollow

\* The numbers the claims are about.
LiveNumbers ==
  /\ Live \in QuotaRuntime
  /\ checkpoint \in AuditCheckpoint
  /\ Live.rolling_sequence \in Nat
  /\ checkpoint.settled_sequence \in Nat
  /\ checkpoint.settled_sequence <= Live.rolling_sequence
  /\ \A rt \in Copies : /\ rt \in QuotaRuntime
                        /\ rt.rolling_sequence \in Nat
                        /\ rt.rolling_sequence <= Live.rolling_sequence
  /\ Live.total_allowed \in Nat /\ Live.total_rejected \in Nat
  /\ checkpoint.total_allowed \in Nat /\ checkpoint.total_rejected \in Nat
  /\ Live.rolling_sequence = Live.total_allowed + Live.total_rejected
  /\ checkpoint.settled_sequence =
       checkpoint.total_allowed + checkpoint.total_rejected
  /\ checkpoint.total_allowed <= Live.total_allowed
  /\ checkpoint.total_rejected <= Live.total_rejected

LEMMA Numbers == DInv => LiveNumbers
<1> SUFFICES ASSUME DInv PROVE LiveNumbers
  OBVIOUS
<1>1. /\ Live \in QuotaRuntime /\ WellFormed(Live)
      /\ checkpoint \in AuditCheckpoint
  BY LiveFacts, DInvFacts
<1>2. /\ Live.rolling_sequence \in Nat
      /\ Live.total_allowed \in Nat /\ Live.total_rejected \in Nat
      /\ checkpoint.total_allowed \in Nat /\ checkpoint.total_rejected \in Nat
      /\ checkpoint.settled_sequence \in Nat
  BY <1>1, MaxU64Assumption DEF QuotaRuntime, AuditCheckpoint, U64
<1>3. /\ Live.rolling_sequence = Live.total_allowed + Live.total_rejected
      /\ checkpoint.settled_sequence =
           checkpoint.total_allowed + checkpoint.total_rejected
      /\ checkpoint.total_allowed <= Live.total_allowed
      /\ checkpoint.total_rejected <= Live.total_rejected
      /\ checkpoint.settled_sequence <= Live.rolling_sequence
  BY <1>1, WellFormedNumbers DEF WellFormed, Mirrors, EverySequenceCounted
<1>4. ASSUME NEW rt \in Copies
      PROVE  rt \in QuotaRuntime /\ rt.rolling_sequence <= Live.rolling_sequence
  <2>1. CASE owner = "delegation"
    <3>1. Live = er_runtime /\ er_runtime.rolling_sequence <= er_runtime.rolling_sequence
      BY <1>2, <2>1 DEF Live
    <3>2. \/ rt = er_runtime
          \/ rt \in {runtime} \cup {commit.rt : commit \in commits}
      BY <1>4, <2>1 DEF Copies
    <3>3. CopiesNotAhead
      BY DEF DInv
    <3>4. rt \in QuotaRuntime
      BY <3>2, DInvFacts
    <3> QED
      BY <2>1, <3>1, <3>2, <3>3, <3>4 DEF CopiesNotAhead, NotAhead
  <2>2. CASE owner # "delegation"
    <3>1. rt = runtime /\ Live = runtime
      BY <1>4, <2>2 DEF Copies, Live
    <3> QED
      BY <1>1, <1>2, <3>1
  <2> QED
    BY <2>1, <2>2
<1>5. \A rt \in Copies : rt.rolling_sequence \in Nat
  BY <1>4, MaxU64Assumption DEF QuotaRuntime, U64
<1> QED
  BY <1>1, <1>2, <1>3, <1>4, <1>5 DEF LiveNumbers

LEMMA CopiesStep ==
  ASSUME DInv, DelegatedNext
  PROVE  CopiesFollow
<1> USE DEF SameDecisions
<1>f. /\ runtime \in QuotaRuntime /\ er_runtime \in QuotaRuntime
      /\ checkpoint \in AuditCheckpoint
      /\ quota_policy \in QuotaPolicy /\ active \in BOOLEAN
      /\ clock \in Timestamp
  BY DInvFacts, TypedAccounts DEF DInv
<1>s. ASSUME Copies' \subseteq Copies PROVE CopiesFollow
  BY <1>s DEF CopiesFollow
\* Outside a session there is one copy.
<1>p. owner = "program" => Copies = {runtime} /\ Live = runtime
  BY DEF Copies, Live
<1>1. CASE Administration
  <2>1. UNCHANGED <<runtime, owner, er_runtime, commits>>
    BY <1>1 DEF Administration, erVars, AttachPolicyToRole, RevokeApiKey,
                CreateQuotaPolicy, Tick
  <2> QED
    BY <1>s, <2>1 DEF Copies
<1>2. CASE BaseInstruction
  <2>1. owner = "program" /\ owner' = "program"
    BY <1>2 DEF BaseInstruction
  <2>2. /\ Copies = {runtime} /\ Copies' = {runtime'}
        /\ Live = runtime /\ Live' = runtime'
    BY <2>1 DEF Copies, Live
  <2>3. SameDecisions(runtime, runtime') \/ CountedOnce(runtime, runtime')
    <3>1. CASE InitializeQuotaRuntime
      <4>1. runtime = ZeroedRuntime /\ runtime' = FreshRuntime(clock)
        BY <3>1 DEF InitializeQuotaRuntime, DInv, IInv, SetupOrder
      <4> QED
        BY <4>1 DEF ZeroedRuntime, FreshRuntime
    <3>2. CASE \E action \in ActionInputs : ConsumeRequest(action)
      BY <3>2, <1>f, ConsumeEffect DEF ConsumeRequest
    <3>3. CASE SettleRuntimeCheckpoint
      <4>1. runtime' = SettledRuntime(runtime, clock)
        BY <3>3 DEF SettleRuntimeCheckpoint
      <4> QED
        BY <4>1, <1>f DEF SettledRuntime, QuotaRuntime
    <3> QED
      BY <1>2, <3>1, <3>2, <3>3 DEF BaseInstruction
  <2> QED
    BY <2>2, <2>3 DEF CopiesFollow
<1>3. CASE \E commit_frequency_ms \in {0, 1} :
             DelegateQuotaRuntime(commit_frequency_ms)
  <2> PICK commit_frequency_ms \in {0, 1} :
             DelegateQuotaRuntime(commit_frequency_ms)
    BY <1>3
  <2>1. /\ owner = "program" /\ commits' = commits
        /\ runtime' = MarkedDelegated(runtime, commit_frequency_ms)
        /\ er_runtime' = runtime'
    BY DEF DelegateQuotaRuntime
  <2>2. commits = {}
    BY <2>1 DEF DInv, FlagMatchesOwner
  <2>3. Copies' \subseteq {runtime'}
    BY <2>1, <2>2 DEF Copies
  <2>4. SameDecisions(runtime, runtime')
    BY <1>f, <2>1 DEF MarkedDelegated, QuotaRuntime
  <2> QED
    BY <1>p, <2>1, <2>3, <2>4 DEF CopiesFollow
<1>4. CASE \E action \in ActionInputs : ErConsumeRequest(action)
  <2> PICK action \in ActionInputs : ErConsumeRequest(action)
    BY <1>4
  <2>1. /\ owner = "delegation"
        /\ Live = er_runtime /\ Live' = er_runtime'
        /\ UNCHANGED <<runtime, owner, commits>>
    BY DEF ErConsumeRequest, Writable, vars, Live
  <2>2. Copies' \subseteq Copies \cup {er_runtime'}
    BY <2>1 DEF Copies
  <2>3. CountedOnce(Live, er_runtime')
    BY <2>1, ErDecision
  <2> QED
    BY <2>1, <2>2, <2>3 DEF CopiesFollow
<1>5. CASE CommitQuotaRuntime
  <2>1. /\ owner = "delegation"
        /\ UNCHANGED <<runtime, owner, er_runtime>>
        /\ commits' = commits \cup {[rt |-> er_runtime, undelegate |-> FALSE]}
    BY <1>5 DEF CommitQuotaRuntime, Writable, vars, erVars
  <2> QED
    BY <1>s, <2>1 DEF Copies
<1>6. CASE CommitAndUndelegateQuotaRuntime
  <2>1. /\ owner = "delegation"
        /\ UNCHANGED <<runtime, owner>>
        /\ er_runtime' = MarkedUndelegated(er_runtime)
        /\ commits' = commits \cup {[rt |-> er_runtime', undelegate |-> TRUE]}
    BY <1>6 DEF CommitAndUndelegateQuotaRuntime, Writable, vars
  <2>2. er_runtime \in Copies /\ Copies' \subseteq Copies \cup {er_runtime'}
    BY <2>1 DEF Copies
  <2>3. SameDecisions(er_runtime, er_runtime')
    BY <1>f, <2>1 DEF MarkedUndelegated, QuotaRuntime
  <2> QED
    BY <2>2, <2>3 DEF CopiesFollow
<1>7. CASE RefreshClone \/ ErTick
  <2>1. UNCHANGED <<runtime, owner, er_runtime, commits>>
    BY <1>7 DEF RefreshClone, ErTick, vars, erVars
  <2> QED
    BY <1>s, <2>1 DEF Copies
<1>8. CASE \E commit \in commits : LandCommit(commit) \/ LoseCommit(commit)
  <2> PICK commit \in commits : LandCommit(commit) \/ LoseCommit(commit)
    BY <1>8
  <2>1. owner = "delegation"
    BY DInvFacts DEF DInv, FlagMatchesOwner
  <2>2. /\ UNCHANGED <<owner, er_runtime>>
        /\ runtime' \in {runtime, commit.rt}
        /\ commits' \subseteq commits
    BY DEF LandCommit, LoseCommit, erVars, vars
  <2> QED
    BY <1>s, <2>1, <2>2 DEF Copies
<1>9. CASE Finalize
  <2> PICK commit \in commits : FinalizeUndelegation(commit)
    BY <1>9 DEF Finalize
  <2>1. owner = "delegation" /\ owner' = "program" /\ runtime' = er_runtime
    BY FinalCopy
  <2> QED
    BY <1>s, <2>1 DEF Copies
<1> QED
  BY <1>1, <1>2, <1>3, <1>4, <1>5, <1>6, <1>7, <1>8, <1>9 DEF DelegatedNext

\* The smoke script's mask need not be among the authority's inputs.
LEMMA AttachStep ==
  ASSUME DInv, AttachPolicyToRole({0}),
         UNCHANGED <<owner, erVars, er_clock, commits>>
  PROVE  /\ DInv'
         /\ UNCHANGED <<runtime, checkpoint, owner, er_runtime, commits>>
<1>1. /\ policy_mask' = {0}
      /\ UNCHANGED <<clock, active, quota_policy, runtime, checkpoint,
                     settlement_count, owner, er_runtime, er_locked, er_active,
                     er_policy_mask, er_quota_policy, er_clock, commits>>
  BY DEF AttachPolicyToRole, erVars
<1>2. policy_mask' \in SUBSET ALL_PERMISSIONS
  BY <1>1 DEF ALL_PERMISSIONS
<1>3. TypeOK'
  BY <1>1, <1>2 DEF DInv, IInv, TypeOK
<1>4. IInv'
  BY <1>1, <1>3 DEF DInv, IInv, SetupOrder, AuditIsUnsettledSuffix,
                    CheckpointMirrorsRuntime
<1>5. DelegatedTypeOK'
  BY <1>1, <1>3 DEF DInv, DelegatedTypeOK
<1>6. SessionOrder'
  BY <1>1 DEF DInv, SessionOrder
<1> QED
  BY <1>1, <1>4, <1>5, <1>6, CopiesUntouched DEF DInv

\* A step of the system, as the commands take part in it.
AnyStep ==
  \/ DelegatedNext
  \/ UNCHANGED delegatedVars
  \/ AttachPolicyToRole({0}) /\ UNCHANGED <<owner, erVars, er_clock, commits>>

LEMMA AnyStepOnward ==
  ASSUME DInv, AnyStep
  PROVE  DInv' /\ LiveNumbers /\ LiveNumbers' /\ Onward
<1>1. DInv'
  BY StepDInv, AttachStep DEF AnyStep
<1>2. DInv' => LiveNumbers'
  BY Numbers, PTL
<1>3. LiveNumbers /\ LiveNumbers'
  BY <1>1, <1>2, Numbers
<1>4. ASSUME UNCHANGED <<runtime, checkpoint, owner, er_runtime, commits>>
      PROVE  Onward
  <2>1. Live' = Live /\ checkpoint' = checkpoint /\ Copies' = Copies
    BY <1>4 DEF Live, Copies
  <2> QED
    BY <1>3, <2>1 DEF Onward, CopiesFollow, SameDecisions, LiveNumbers
<1>5. ASSUME DelegatedNext PROVE Onward
  <2>1. LedgerMove(Live, checkpoint, Live', checkpoint')
    BY <1>5, LiveLedgerMove
  <2>2. /\ Live'.rolling_sequence >= Live.rolling_sequence
        /\ checkpoint'.settled_sequence >= checkpoint.settled_sequence
    BY <1>3, <2>1 DEF LedgerMove, LiveNumbers
  <2> QED
    BY <1>5, <2>2, CopiesStep DEF Onward
<1>6. UNCHANGED delegatedVars
        => UNCHANGED <<runtime, checkpoint, owner, er_runtime, commits>>
  BY DEF delegatedVars, vars
<1>7. AttachPolicyToRole({0}) /\ UNCHANGED <<owner, erVars, er_clock, commits>>
        => UNCHANGED <<runtime, checkpoint, owner, er_runtime, commits>>
  BY AttachStep
<1> QED
  BY <1>1, <1>3, <1>4, <1>5, <1>6, <1>7 DEF AnyStep

(***************************************************************************)
(* The reconcile script.                                                   *)
(***************************************************************************)
SettlingModes == {"undelegate-and-settle", "settle-if-safe"}

\* A runtime fetched without the flag was the one in use, so its drift counts
\* what was decided before the run; past the settlement, or past a drift of
\* zero, the checkpoint has it.
ScriptInv ==
  /\ ReconcileTypeOK
  /\ started_at <= Live.rolling_sequence
  /\ pc \in {"before_checkpoint", "again_checkpoint"} /\ ~seen.is_delegated =>
       seen.rolling_sequence >= started_at
  /\ pc = "commit" => mode = "commit-only"
  /\ pc \in {"after_runtime", "after_checkpoint", "done"} /\ mode \in SettlingModes =>
       checkpoint.settled_sequence >= started_at

LEMMA ScriptKept ==
  ASSUME ScriptInv, LiveNumbers, LiveNumbers', Onward, UNCHANGED scriptVars
  PROVE  ScriptInv'
<1>1. UNCHANGED <<pc, mode, seen, kills, undelegated, started_at>>
  BY DEF scriptVars
<1>2. ReconcileTypeOK'
  BY <1>1 DEF ScriptInv, ReconcileTypeOK
<1>3. started_at \in Nat
  BY MaxU64Assumption DEF ScriptInv, ReconcileTypeOK, U64
<1>4. /\ started_at' <= Live'.rolling_sequence
      /\ checkpoint.settled_sequence >= started_at
           => checkpoint'.settled_sequence >= started_at'
  BY <1>1, <1>3 DEF ScriptInv, Onward, LiveNumbers
<1> QED
  BY <1>1, <1>2, <1>4 DEF ScriptInv

\* What a view is worth when its flag is down.
LEMMA ViewNumbers ==
  ASSUME DInv, NEW view \in RuntimeViews
  PROVE  /\ view.rolling_sequence \in U64
         /\ view.is_delegated \in BOOLEAN
         /\ Len(view.rolling_audit) \in 0..MAX_RUNTIME_AUDIT_ITEMS
         /\ ~view.is_delegated => view.rolling_sequence = Live.rolling_sequence
         /\ \/ Len(view.rolling_audit) = MAX_RUNTIME_AUDIT_ITEMS
            \/ view.rolling_sequence - Len(view.rolling_audit)
                 = checkpoint.settled_sequence
<1>1. /\ view \in QuotaRuntime /\ WellFormed(view)
      /\ checkpoint \in AuditCheckpoint
      /\ ~view.is_delegated => view = Live
  BY ViewFacts, DInvFacts
<1>2. Len(view.rolling_audit) \in 0..MAX_RUNTIME_AUDIT_ITEMS
  BY <1>1, WellFormedNumbers, AuditCapAssumption DEF WellFormed, AuditIsSuffix
<1> QED
  BY <1>1, <1>2, WellFormedNumbers DEF QuotaRuntime

LEMMA ScriptStep ==
  ASSUME DInv, ScriptInv, AnyStep,
         \/ \E m \in ModeInputs : Start(m)
         \/ Script
         \/ Killed
  PROVE  ScriptInv'
<1>n. LiveNumbers /\ LiveNumbers' /\ Onward
  BY AnyStepOnward
<1>t. /\ pc \in ScriptSteps \cup {"idle", "done", "failed"} /\ mode \in Modes
      /\ seen \in [rolling_sequence : U64, is_delegated : BOOLEAN]
      /\ kills \in 0..MaxKills /\ undelegated \in BOOLEAN
      /\ started_at \in U64 /\ started_at \in Nat
      /\ seen.rolling_sequence \in Nat /\ seen.is_delegated \in BOOLEAN
  BY MaxU64Assumption DEF ScriptInv, ReconcileTypeOK, U64
<1>u. 0 \in U64
  BY MaxU64Assumption DEF U64
\* started_at is kept, and stays behind.
<1>k. ASSUME started_at' = started_at
      PROVE  /\ started_at' <= Live'.rolling_sequence
             /\ checkpoint.settled_sequence >= started_at
                  => checkpoint'.settled_sequence >= started_at'
  BY <1>k, <1>n, <1>t DEF ScriptInv, Onward, LiveNumbers
<1>1. CASE \E m \in ModeInputs : Start(m)
  <2> PICK m \in ModeInputs : Start(m)
    BY <1>1
  <2>1. /\ pc' = "before_runtime" /\ mode' = m /\ undelegated' = FALSE
        /\ started_at' = Live.rolling_sequence
        /\ seen' = [rolling_sequence |-> 0, is_delegated |-> FALSE]
        /\ kills' = kills
    BY DEF Start
  <2>2. Live.rolling_sequence \in U64
    BY <1>n DEF LiveNumbers, QuotaRuntime
  <2>3. ReconcileTypeOK'
    BY <1>t, <1>u, <2>1, <2>2, ModeAssumption DEF ReconcileTypeOK, ScriptSteps
  <2>4. started_at' <= Live'.rolling_sequence
    BY <1>n, <2>1 DEF Onward, LiveNumbers
  <2> QED
    BY <2>1, <2>3, <2>4 DEF ScriptInv
<1>2. CASE FetchRuntime
  <2> PICK view \in RuntimeViews :
        seen' = [rolling_sequence |-> view.rolling_sequence,
                 is_delegated |-> view.is_delegated]
    BY <1>2 DEF FetchRuntime
  <2>1. /\ pc \in {"before_runtime", "again_runtime", "after_runtime"}
        /\ pc' = CASE pc = "before_runtime" -> "before_checkpoint"
                   [] pc = "again_runtime"  -> "again_checkpoint"
                   [] pc = "after_runtime"  -> "after_checkpoint"
        /\ UNCHANGED <<mode, kills, undelegated, started_at>>
    BY <1>2 DEF FetchRuntime
  <2>2. \/ pc = "before_runtime" /\ pc' = "before_checkpoint"
        \/ pc = "again_runtime" /\ pc' = "again_checkpoint"
        \/ pc = "after_runtime" /\ pc' = "after_checkpoint"
    BY <2>1
  <2>3. ReconcileTypeOK'
    BY <1>t, <2>1, <2>2, ViewNumbers DEF ReconcileTypeOK, ScriptSteps
  <2>4. ~seen'.is_delegated => seen'.rolling_sequence >= started_at'
    BY <1>t, <2>1, ViewNumbers DEF ScriptInv
  <2> QED
    BY <1>k, <2>1, <2>2, <2>3, <2>4 DEF ScriptInv
<1>3. CASE FetchCheckpoint
  <2> DEFINE drift == Drift(seen, checkpoint)
  <2>1. /\ pc \in {"before_checkpoint", "again_checkpoint", "after_checkpoint"}
        /\ pc = "before_checkpoint" => pc' = AfterBefore(seen.is_delegated, drift)
        /\ pc = "again_checkpoint" => pc' = AfterAgain(seen.is_delegated, drift)
        /\ pc = "after_checkpoint" => pc' = "done"
        /\ UNCHANGED <<mode, seen, kills, undelegated, started_at>>
    BY <1>3 DEF FetchCheckpoint
  <2>2. drift \in Nat /\ (drift = 0 => checkpoint.settled_sequence >= seen.rolling_sequence)
    BY <1>n, <1>t DEF Drift, LiveNumbers
  <2> HIDE DEF drift
  \* With the flag down and no drift the checkpoint has all of it.
  <2>3. ASSUME pc \in {"before_checkpoint", "again_checkpoint"},
               ~seen.is_delegated, ~(drift > 0)
        PROVE  checkpoint.settled_sequence >= started_at
    <3>1. drift = 0
      BY <2>2, <2>3
    <3>2. seen.rolling_sequence >= started_at
      BY <2>3 DEF ScriptInv
    <3> QED
      BY <1>n, <1>t, <2>2, <3>1, <3>2 DEF LiveNumbers
  <2>4. CASE pc = "before_checkpoint"
    <3>1. pc' = AfterBefore(seen.is_delegated, drift)
      BY <2>1, <2>4
    <3>2. /\ pc' \in ScriptSteps \cup {"failed"}
          /\ pc' \notin {"before_checkpoint", "again_checkpoint",
                         "after_checkpoint", "done"}
          /\ pc' = "commit" => mode = "commit-only"
          /\ pc' = "after_runtime" /\ mode \in SettlingModes =>
               ~seen.is_delegated /\ drift = 0
      BY <1>t, <3>1 DEF AfterBefore, Modes, SettlingModes, ScriptSteps
    <3>3. ReconcileTypeOK'
      BY <1>t, <2>1, <3>2 DEF ReconcileTypeOK
    <3>4. pc' = "after_runtime" /\ mode \in SettlingModes =>
            checkpoint.settled_sequence >= started_at
      BY <2>3, <2>4, <3>2
    <3> QED
      BY <1>k, <2>1, <3>2, <3>3, <3>4 DEF ScriptInv
  <2>5. CASE pc = "again_checkpoint"
    <3>1. pc' = AfterAgain(seen.is_delegated, drift)
      BY <2>1, <2>5
    <3>2. /\ pc' \in {"failed", "settle", "after_runtime"}
          /\ pc' = "after_runtime" => ~seen.is_delegated /\ ~(drift > 0)
      BY <3>1 DEF AfterAgain
    <3>3. ReconcileTypeOK'
      BY <1>t, <2>1, <3>2 DEF ReconcileTypeOK, ScriptSteps
    <3>4. pc' = "after_runtime" => checkpoint.settled_sequence >= started_at
      BY <2>3, <2>5, <3>2
    <3> QED
      BY <1>k, <2>1, <3>2, <3>3, <3>4 DEF ScriptInv
  <2>6. CASE pc = "after_checkpoint"
    <3>1. pc' = "done"
      BY <2>1, <2>6
    <3>2. ReconcileTypeOK'
      BY <1>t, <2>1, <3>1 DEF ReconcileTypeOK
    <3>3. mode \in SettlingModes => checkpoint.settled_sequence >= started_at
      BY <2>6 DEF ScriptInv
    <3> QED
      BY <1>k, <2>1, <3>1, <3>2, <3>3 DEF ScriptInv
  <2> QED
    BY <2>1, <2>4, <2>5, <2>6
<1>4. CASE SendCommit
  <2>1. /\ pc = "commit" /\ pc' \in {"after_runtime", "failed"}
        /\ UNCHANGED <<mode, seen, kills, undelegated, started_at>>
    BY <1>4 DEF SendCommit
  <2>2. mode' = "commit-only"
    BY <2>1 DEF ScriptInv
  <2>3. ReconcileTypeOK'
    BY <1>t, <2>1 DEF ReconcileTypeOK, ScriptSteps
  <2> QED
    BY <1>k, <2>1, <2>2, <2>3 DEF ScriptInv, SettlingModes
<1>5. CASE SendUndelegate
  <2>1. /\ pc' \in {"again_runtime", "failed"} /\ undelegated' = TRUE
        /\ UNCHANGED <<mode, seen, kills, started_at>>
    BY <1>5 DEF SendUndelegate
  <2>2. ReconcileTypeOK'
    BY <1>t, <2>1 DEF ReconcileTypeOK, ScriptSteps
  <2> QED
    BY <1>k, <2>1, <2>2 DEF ScriptInv
\* It settles the runtime in use.
<1>6. CASE SendSettle
  <2>1. /\ owner = "program"
        /\ checkpoint' = SettledCheckpoint(checkpoint, runtime, clock)
        /\ pc' \in {"after_runtime", "failed"}
        /\ UNCHANGED <<mode, seen, kills, undelegated, started_at>>
    BY <1>6 DEF SendSettle, SettleRuntimeCheckpoint
  <2>2. checkpoint'.settled_sequence = Live.rolling_sequence
    BY <1>n, <2>1 DEF SettledCheckpoint, AuditCheckpoint, LiveNumbers, Live
  <2>3. checkpoint'.settled_sequence >= started_at'
    BY <1>n, <1>t, <2>1, <2>2 DEF ScriptInv, LiveNumbers
  <2>4. ReconcileTypeOK'
    BY <1>t, <2>1 DEF ReconcileTypeOK, ScriptSteps
  <2> QED
    BY <1>k, <2>1, <2>3, <2>4 DEF ScriptInv
<1>7. CASE Refused \/ Killed
  <2>1. /\ pc' = "failed" /\ kills' \in 0..MaxKills
        /\ UNCHANGED <<mode, seen, undelegated, started_at>>
    BY <1>7, <1>t, MaxKillsAssumption DEF Refused, Killed
  <2>2. ReconcileTypeOK'
    BY <1>t, <2>1 DEF ReconcileTypeOK
  <2> QED
    BY <1>k, <2>1, <2>2 DEF ScriptInv
<1> QED
  BY <1>1, <1>2, <1>3, <1>4, <1>5, <1>6, <1>7 DEF Script

(***************************************************************************)
(* The commands.                                                           *)
(***************************************************************************)
\* No decision leaves a gap between what was seen and what is settled.
GapFree(at_least) ==
  \/ glance.entries = MAX_RUNTIME_AUDIT_ITEMS
  \/ glance.rolling_sequence - glance.entries <= at_least

\* A view without the flag had everything decided before the command; its
\* gap to the checkpoint only closes; a copy either is older than the
\* command's own decision, or has it last, or is newer.
CommandInv ==
  /\ OperatorTypeOK
  /\ begun_at <= Live.rolling_sequence
  /\ own.sequence <= Live.rolling_sequence
  /\ at = "idle" => own = NoDecision
  /\ at \in {"inspect_checkpoint", "print"} =>
       /\ ~glance.is_delegated => glance.rolling_sequence >= begun_at
       /\ GapFree(checkpoint.settled_sequence)
  /\ at = "print" => GapFree(settled)
  /\ own # NoDecision /\ at \in InspectSteps =>
       checkpoint.settled_sequence >= own.sequence
  /\ at = "call_report" =>
       \A rt \in Copies :
         /\ rt.rolling_sequence = own.sequence => LatestRecord(rt) \in {own, NoDecision}
         /\ ~use_router => rt.rolling_sequence >= own.sequence

\* The newest record is of the newest decision.
LEMMA LatestIsLast ==
  ASSUME NEW rt \in QuotaRuntime, NEW rt2 \in QuotaRuntime, CountedOnce(rt, rt2),
         Len(rt.rolling_audit) <= MAX_RUNTIME_AUDIT_ITEMS
  PROVE  LatestRecord(rt2) = [sequence |-> rt2.rolling_sequence,
                              reason |-> rt2.last_reason]
<1> DEFINE audit == rt.rolling_audit
<1>1. PICK record \in RuntimeAuditRecord :
        /\ record.sequence = rt.rolling_sequence + 1
        /\ record.reason = rt2.last_reason
        /\ rt2.rolling_audit = AuditPushed(audit, record)
  BY DEF CountedOnce
<1>2. audit \in Seq(RuntimeAuditRecord) /\ Len(audit) \in Nat
  BY DEF QuotaRuntime
<1>3. /\ rt2.rolling_audit[Len(rt2.rolling_audit)] = record
      /\ Len(rt2.rolling_audit) # 0
  BY <1>1, <1>2, AuditPushedElements, AuditCapAssumption
<1>4. rt2.rolling_audit # << >>
  BY <1>3
<1>5. rt2.rolling_sequence = rt.rolling_sequence + 1
  BY DEF CountedOnce
<1> QED
  BY <1>1, <1>3, <1>4, <1>5 DEF LatestRecord

LEMMA CommandKept ==
  ASSUME CommandInv, LiveNumbers, LiveNumbers', Onward,
         UNCHANGED opVars, ReconcileTypeOK'
  PROVE  CommandInv'
<1>1. UNCHANGED <<at, router, use_router, glance, settled, own, begun_at>>
  BY DEF opVars
<1>t. /\ begun_at \in Nat /\ own.sequence \in Nat
      /\ glance.rolling_sequence \in Nat /\ glance.entries \in Int
  BY MaxU64Assumption, AuditCapAssumption DEF CommandInv, OperatorTypeOK, U64
<1>2. OperatorTypeOK'
  BY <1>1 DEF CommandInv, OperatorTypeOK
<1>3. /\ begun_at' <= Live'.rolling_sequence
      /\ own'.sequence <= Live'.rolling_sequence
      /\ checkpoint.settled_sequence >= own.sequence
           => checkpoint'.settled_sequence >= own'.sequence
  BY <1>1, <1>t DEF CommandInv, Onward, LiveNumbers
<1>4. /\ GapFree(checkpoint.settled_sequence)
           => GapFree(checkpoint.settled_sequence)'
      /\ GapFree(settled) => GapFree(settled)'
  BY <1>1, <1>t DEF GapFree, Onward, LiveNumbers
<1>5. ASSUME at = "call_report", NEW rt2 \in Copies'
      PROVE  /\ rt2.rolling_sequence = own.sequence
                  => LatestRecord(rt2) \in {own, NoDecision}
             /\ ~use_router => rt2.rolling_sequence >= own.sequence
  <2>1. CASE \E rt \in Copies : SameDecisions(rt, rt2)
    <3> PICK rt \in Copies : SameDecisions(rt, rt2)
      BY <2>1
    <3>1. /\ rt.rolling_sequence = own.sequence
               => LatestRecord(rt) \in {own, NoDecision}
          /\ ~use_router => rt.rolling_sequence >= own.sequence
      BY <1>5 DEF CommandInv
    <3>2. /\ rt2.rolling_sequence = rt.rolling_sequence
          /\ LatestRecord(rt2) \in {LatestRecord(rt), NoDecision}
      BY DEF SameDecisions, LatestRecord
    <3> QED
      BY <3>1, <3>2
  <2>2. CASE CountedOnce(Live, rt2)
    <3>1. rt2.rolling_sequence = Live.rolling_sequence + 1
      BY <2>2 DEF CountedOnce
    <3>2. own.sequence < rt2.rolling_sequence
      BY <1>t, <3>1 DEF CommandInv, LiveNumbers
    <3> QED
      BY <1>t, <3>1, <3>2 DEF LiveNumbers
  <2> QED
    BY <1>5, <2>1, <2>2 DEF Onward, CopiesFollow
<1>6. at' = "call_report" =>
       \A rt \in Copies' :
         /\ rt.rolling_sequence = own'.sequence
              => LatestRecord(rt) \in {own', NoDecision}
         /\ ~use_router' => rt.rolling_sequence >= own'.sequence
  BY <1>1, <1>5
<1> QED
  BY <1>1, <1>2, <1>3, <1>4, <1>6 DEF CommandInv, LatestRecord

\* What a command's request leaves.
LEMMA Consumed ==
  ASSUME DInv, NEW action \in ActionInputs, NEW through_router,
         ConsumedThrough(through_router, action)
  PROVE  /\ DelegatedNext
         /\ Live' \in QuotaRuntime
         /\ CountedOnce(Live, Live')
         /\ LatestRecord(Live') = Decided
         /\ through_router \/ Copies' = {Live'}
<1>1. CASE through_router /\ ErConsumeRequest(action)
  <2>1. Live = er_runtime /\ Live' = er_runtime'
    BY <1>1 DEF ErConsumeRequest, Writable, Live
  <2>2. Live' \in QuotaRuntime /\ CountedOnce(Live, Live')
    BY <1>1, <2>1, ErDecision
  <2>3. Live \in QuotaRuntime /\ Len(Live.rolling_audit) <= MAX_RUNTIME_AUDIT_ITEMS
    BY LiveFacts DEF WellFormed, AuditIsSuffix
  <2> QED
    BY <1>1, <2>2, <2>3, LatestIsLast DEF Decided, DelegatedNext
<1>2. CASE /\ owner = "program" /\ ConsumeRequest(action)
           /\ UNCHANGED <<owner, erVars, er_clock, commits>>
  <2>1. Live = runtime /\ Live' = runtime' /\ Copies' = {runtime'}
    BY <1>2 DEF Live, Copies
  <2>2. /\ runtime \in QuotaRuntime /\ quota_policy \in QuotaPolicy
        /\ active \in BOOLEAN /\ clock \in Timestamp
    BY TypedAccounts DEF DInv
  <2>3. Live' \in QuotaRuntime /\ CountedOnce(Live, Live')
    BY <1>2, <2>1, <2>2, ConsumeEffect DEF ConsumeRequest
  <2>4. Live \in QuotaRuntime /\ Len(Live.rolling_audit) <= MAX_RUNTIME_AUDIT_ITEMS
    BY LiveFacts DEF WellFormed, AuditIsSuffix
  <2>5. DelegatedNext
    BY <1>2 DEF DelegatedNext, BaseInstruction
  <2> QED
    BY <2>1, <2>3, <2>4, <2>5, LatestIsLast DEF Decided
<1> QED
  BY <1>1, <1>2 DEF ConsumedThrough

LEMMA ScriptTakesPart ==
  ASSUME \/ \E m \in ModeInputs : Start(m)
         \/ Script
         \/ Killed
  PROVE  AnyStep
<1>1. CASE SendSettle
  BY <1>1 DEF SendSettle, AnyStep, DelegatedNext, BaseInstruction
<1>2. CASE SendCommit \/ SendUndelegate
  BY <1>2 DEF SendCommit, SendUndelegate, AnyStep, DelegatedNext
<1>3. CASE \/ \E m \in ModeInputs : Start(m)
           \/ FetchRuntime \/ FetchCheckpoint \/ Refused \/ Killed
  <2>1. UNCHANGED delegatedVars
    BY <1>3 DEF Start, FetchRuntime, FetchCheckpoint, Refused, Killed
  <2> QED
    BY <2>1 DEF AnyStep
<1> QED
  BY <1>1, <1>2, <1>3 DEF Script

LEMMA CommandTakesPart ==
  ASSUME DInv, Command
  PROVE  AnyStep
<1>1. CASE \E action \in ActionInputs : CallSend(action)
  BY <1>1, Consumed DEF CallSend, AnyStep
<1>2. CASE SmokeConsume
  BY <1>2, Consumed, SmokeActionAssumption DEF SmokeConsume, AnyStep
<1>3. CASE SmokeAttachPolicy
  BY <1>3 DEF SmokeAttachPolicy, AnyStep
<1>4. CASE \E max_requests \in MaxRequestsInputs, window_seconds \in WindowInputs :
             SmokeQuotaPolicy(max_requests, window_seconds)
  BY <1>4 DEF SmokeQuotaPolicy, AnyStep, DelegatedNext, Administration
<1>5. CASE SmokeInitialize \/ SmokeSettle
  BY <1>5 DEF SmokeInitialize, SmokeSettle, AnyStep, DelegatedNext,
              BaseInstruction
<1>6. CASE SmokeDelegate
  BY <1>6 DEF SmokeDelegate, AnyStep, DelegatedNext
<1>7. CASE SmokeCommit \/ SmokeUndelegate
  BY <1>7 DEF SmokeCommit, SmokeUndelegate, AnyStep, DelegatedNext
<1>8. CASE \/ \E first \in {"call_fetch", "inspect_runtime", "ensure_control_plane"} :
                Begin(first)
           \/ CallFetch \/ CallReport \/ Inspect \/ PrintReport \/ Throws
           \/ FoundControlPlane \/ SmokeFetchMaybe \/ SmokeFetch
  <2>1. UNCHANGED delegatedVars
    BY <1>8 DEF Begin, CallFetch, CallReport, Inspect, PrintReport, Throws, Ends,
                FoundControlPlane, SmokeFetchMaybe, SmokeFetch
  <2> QED
    BY <2>1 DEF AnyStep
<1> QED
  BY <1>1, <1>2, <1>3, <1>4, <1>5, <1>6, <1>7, <1>8 DEF Command, Smoke

\* A step of the smoke script up to its settlement, as far as its claim goes.
SmokeMoves ==
  /\ at \in SmokeSteps
  /\ at' \in SmokeSteps
  /\ UNCHANGED <<router, use_router, settled, begun_at, glance>>

LEMMA SmokeStep ==
  ASSUME Smoke
  PROVE  \/ SmokeMoves /\ own' = own
         \/ SmokeMoves /\ SmokeConsume
         \/ SmokeSettle
<1> USE DEF Goto, SmokeMoves, SmokeSteps
<1>1. CASE SmokeConsume
  BY <1>1 DEF SmokeConsume
<1>2. CASE FoundControlPlane \/ SmokeAttachPolicy \/ SmokeFetchMaybe
  BY <1>2 DEF FoundControlPlane, SmokeAttachPolicy, SmokeFetchMaybe
<1>3. CASE \E max_requests \in MaxRequestsInputs, window_seconds \in WindowInputs :
             SmokeQuotaPolicy(max_requests, window_seconds)
  BY <1>3 DEF SmokeQuotaPolicy
<1>4. CASE SmokeInitialize \/ SmokeFetch \/ SmokeDelegate
  BY <1>4 DEF SmokeInitialize, SmokeFetch, SmokeDelegate
<1>5. CASE SmokeCommit \/ SmokeUndelegate
  BY <1>5 DEF SmokeCommit, SmokeUndelegate
<1> QED
  BY <1>1, <1>2, <1>3, <1>4, <1>5 DEF Smoke

LEMMA CommandStep ==
  ASSUME DInv, CommandInv, ReconcileTypeOK', Command
  PROVE  CommandInv'
<1>n. LiveNumbers /\ LiveNumbers' /\ Onward
  BY AnyStepOnward, CommandTakesPart
<1>t. /\ at \in CallSteps \cup InspectSteps \cup SmokeSteps \cup {"idle", "reconcile"}
      /\ router \in BOOLEAN /\ use_router \in BOOLEAN
      /\ glance \in [rolling_sequence : U64, is_delegated : BOOLEAN,
                     entries : 0..MAX_RUNTIME_AUDIT_ITEMS]
      /\ settled \in U64
      /\ own \in [sequence : U64, reason : DecisionReason]
      /\ begun_at \in U64
      /\ own.sequence \in Nat /\ begun_at \in Nat
  BY MaxU64Assumption DEF CommandInv, OperatorTypeOK, U64
<1>l. Live.rolling_sequence \in U64
  BY <1>n DEF LiveNumbers, QuotaRuntime
<1>g. NoGlance \in [rolling_sequence : U64, is_delegated : BOOLEAN,
                    entries : 0..MAX_RUNTIME_AUDIT_ITEMS]
      /\ NoDecision \in [sequence : U64, reason : DecisionReason]
      /\ 0 \in U64 /\ NoDecision.sequence = 0
  <2>1. 0 \in U64 /\ 0 \in 0..MAX_RUNTIME_AUDIT_ITEMS /\ Len(<< >>) = 0
    BY MaxU64Assumption, AuditCapAssumption DEF U64
  <2> QED
    BY <2>1 DEF NoGlance, Glance, ZeroedRuntime, NoDecision, DecisionReason
\* What is kept from before stays a bound.
<1>b. begun_at' = begun_at => begun_at' <= Live'.rolling_sequence
  BY <1>n, <1>t DEF CommandInv, Onward, LiveNumbers
<1>o. own' = own => /\ own'.sequence <= Live'.rolling_sequence
                    /\ checkpoint.settled_sequence >= own.sequence
                         => checkpoint'.settled_sequence >= own'.sequence
  BY <1>n, <1>t DEF CommandInv, Onward, LiveNumbers
<1>1. CASE \E first \in {"call_fetch", "inspect_runtime", "ensure_control_plane"} :
             Begin(first)
  <2>1. /\ at = "idle"
        /\ at' \in {"call_fetch", "inspect_runtime", "ensure_control_plane"}
        /\ router' \in BOOLEAN
        /\ begun_at' = Live.rolling_sequence
        /\ UNCHANGED <<delegatedVars, use_router, glance, settled, own>>
    BY <1>1 DEF Begin
  <2>2. own' = own /\ own = NoDecision
    BY <2>1 DEF CommandInv
  <2>3. OperatorTypeOK'
    BY <1>t, <1>l, <2>1
    DEF OperatorTypeOK, CallSteps, InspectSteps, SmokeSteps
  <2>4. begun_at' <= Live'.rolling_sequence
    BY <1>n, <2>1 DEF Onward, LiveNumbers
  <2> QED
    BY <1>o, <2>1, <2>2, <2>3, <2>4 DEF CommandInv
<1>2. CASE CallReport \/ PrintReport \/ Throws
  <2>1. /\ at' = "idle" /\ router' = FALSE /\ use_router' = FALSE
        /\ glance' = NoGlance /\ settled' = 0 /\ own' = NoDecision
        /\ begun_at' = 0
    BY <1>2 DEF CallReport, PrintReport, Throws, Ends
  <2>2. OperatorTypeOK'
    BY <1>t, <1>g, <2>1 DEF OperatorTypeOK
  <2>3. begun_at' <= Live'.rolling_sequence /\ own'.sequence <= Live'.rolling_sequence
    BY <1>n, <1>g, <2>1 DEF LiveNumbers
  <2> QED
    BY <2>1, <2>2, <2>3 DEF CommandInv, InspectSteps
<1>3. CASE CallFetch
  <2>1. /\ at' = "call_send" /\ use_router' \in BOOLEAN
        /\ UNCHANGED <<router, glance, settled, own, begun_at>>
    <3>1. \A view \in Fetched : view.is_delegated \in BOOLEAN
      BY DInvFacts DEF Fetched, RuntimeViews, QuotaRuntime
    <3> QED
      BY <1>3, <1>t, <3>1 DEF CallFetch
  <2>2. OperatorTypeOK'
    BY <1>t, <2>1 DEF OperatorTypeOK, CallSteps
  <2> QED
    BY <1>b, <1>o, <2>1, <2>2 DEF CommandInv, InspectSteps
<1>4. CASE \E action \in ActionInputs : CallSend(action)
  <2> PICK action \in ActionInputs : CallSend(action)
    BY <1>4
  <2>1. /\ at' = "call_report" /\ own' = Decided
        /\ UNCHANGED <<router, use_router, glance, settled, begun_at>>
        /\ ConsumedThrough(use_router, action)
    BY DEF CallSend
  <2>2. /\ Live' \in QuotaRuntime /\ CountedOnce(Live, Live')
        /\ LatestRecord(Live') = Decided
        /\ use_router \/ Copies' = {Live'}
    BY <2>1, Consumed
  <2>3. /\ own' \in [sequence : U64, reason : DecisionReason]
        /\ own'.sequence = Live'.rolling_sequence
        /\ own'.sequence = Live.rolling_sequence + 1
    BY <2>1, <2>2 DEF Decided, QuotaRuntime, CountedOnce
  <2>4. OperatorTypeOK'
    BY <1>t, <2>1, <2>3 DEF OperatorTypeOK, CallSteps
  <2>5. ASSUME NEW rt2 \in Copies'
        PROVE  /\ rt2.rolling_sequence = own'.sequence => LatestRecord(rt2) = own'
               /\ ~use_router => rt2.rolling_sequence >= own'.sequence
    <3>1. CASE \E rt \in Copies : SameDecisions(rt, rt2)
      <4>1. rt2.rolling_sequence < own'.sequence
        BY <1>n, <2>3, <3>1 DEF LiveNumbers, SameDecisions
      <4>2. rt2.rolling_sequence \in Nat
        BY <1>n, <2>5 DEF LiveNumbers
      <4>3. ~use_router => rt2 = Live'
        BY <2>2, <2>5
      <4> QED
        BY <1>n, <2>3, <4>1, <4>2, <4>3 DEF LiveNumbers
    <3>2. CASE rt2 = Live'
      BY <1>n, <2>1, <2>2, <2>3, <3>2 DEF LiveNumbers
    <3> QED
      BY <1>n, <2>5, <3>1, <3>2 DEF Onward, CopiesFollow
  <2>6. own'.sequence <= Live'.rolling_sequence
    BY <1>n, <2>3 DEF LiveNumbers
  <2>7. (\A rt \in Copies :
           /\ rt.rolling_sequence = own.sequence => LatestRecord(rt) \in {own, NoDecision}
           /\ ~use_router => rt.rolling_sequence >= own.sequence)'
    BY <2>1, <2>5 DEF LatestRecord
  <2> QED
    BY <1>b, <2>1, <2>4, <2>6, <2>7 DEF CommandInv, InspectSteps
<1>5. CASE Inspect
  <2>1. /\ UNCHANGED <<router, use_router, own, begun_at>>
        /\ checkpoint' = checkpoint
    BY <1>5 DEF Inspect, delegatedVars, vars
  <2>2. CASE at = "inspect_runtime"
    <3>1. PICK view \in RuntimeViews : glance' = Glance(view)
      BY <1>5, <2>2 DEF Inspect, Fetched, RuntimeViews
    <3>2. at' = "inspect_checkpoint" /\ settled' = settled
      BY <1>5, <2>2 DEF Inspect
    <3>3. /\ glance'.rolling_sequence = view.rolling_sequence
          /\ glance'.is_delegated = view.is_delegated
          /\ glance'.entries = Len(view.rolling_audit)
          /\ glance' \in [rolling_sequence : U64, is_delegated : BOOLEAN,
                          entries : 0..MAX_RUNTIME_AUDIT_ITEMS]
      BY <3>1, ViewNumbers DEF Glance
    <3>4. OperatorTypeOK'
      BY <1>t, <2>1, <3>2, <3>3 DEF OperatorTypeOK, InspectSteps
    <3>5. ~glance'.is_delegated => glance'.rolling_sequence >= begun_at'
      BY <1>t, <2>1, <3>3, ViewNumbers DEF CommandInv
    <3>6. GapFree(checkpoint.settled_sequence)'
      BY <1>n, <2>1, <3>3, ViewNumbers DEF GapFree, LiveNumbers
    <3>7. own' # NoDecision => checkpoint'.settled_sequence >= own'.sequence
      BY <1>o, <2>1, <2>2 DEF CommandInv, InspectSteps
    <3> QED
      BY <1>b, <1>o, <2>1, <3>2, <3>4, <3>5, <3>6, <3>7 DEF CommandInv
  <2>3. CASE at = "inspect_checkpoint"
    <3>1. /\ at' = "print" /\ glance' = glance
          /\ settled' = checkpoint.settled_sequence
      BY <1>5, <2>3 DEF Inspect
    <3>2. settled' \in U64
      BY <1>n, <3>1 DEF LiveNumbers, AuditCheckpoint
    <3>3. OperatorTypeOK'
      BY <1>t, <2>1, <3>1, <3>2 DEF OperatorTypeOK, InspectSteps
    <3>4. /\ ~glance.is_delegated => glance.rolling_sequence >= begun_at
          /\ GapFree(checkpoint.settled_sequence)
      BY <2>3 DEF CommandInv
    <3>5. GapFree(checkpoint.settled_sequence)' /\ GapFree(settled)'
      BY <2>1, <3>1, <3>4 DEF GapFree
    <3>6. own' # NoDecision => checkpoint'.settled_sequence >= own'.sequence
      BY <1>o, <2>1, <2>3 DEF CommandInv, InspectSteps
    <3> QED
      BY <1>b, <1>o, <2>1, <3>1, <3>3, <3>4, <3>5, <3>6 DEF CommandInv
  <2> QED
    BY <1>5, <2>2, <2>3 DEF Inspect
<1>6. CASE SmokeMoves /\ own' = own
  <2>1. OperatorTypeOK'
    BY <1>6, <1>t DEF OperatorTypeOK, SmokeMoves
  <2> QED
    BY <1>6, <1>b, <1>o, <2>1 DEF CommandInv, SmokeMoves, SmokeSteps, InspectSteps
<1>7. CASE SmokeMoves /\ SmokeConsume
  <2>1. own' = Decided /\ ConsumedThrough(TRUE, 0)
    BY <1>7 DEF SmokeConsume
  <2>2. Live' \in QuotaRuntime
    BY <2>1, Consumed, SmokeActionAssumption
  <2>3. /\ own' \in [sequence : U64, reason : DecisionReason]
        /\ own'.sequence = Live'.rolling_sequence
    BY <2>1, <2>2 DEF Decided, QuotaRuntime
  <2>4. OperatorTypeOK'
    BY <1>7, <1>t, <2>3 DEF OperatorTypeOK, SmokeMoves
  <2>5. own'.sequence <= Live'.rolling_sequence
    BY <1>n, <2>3 DEF LiveNumbers
  <2> QED
    BY <1>7, <1>b, <2>4, <2>5 DEF CommandInv, SmokeMoves, SmokeSteps, InspectSteps
\* It settles the runtime in use, or is refused.
<1>8. CASE SmokeSettle
  <2>1. /\ at' = "inspect_runtime"
        /\ owner = "program"
        /\ checkpoint' = SettledCheckpoint(checkpoint, runtime, clock)
        /\ UNCHANGED <<router, use_router, settled, begun_at, glance, own>>
    BY <1>8 DEF SmokeSettle, Goto, SettleRuntimeCheckpoint
  <2>2. checkpoint'.settled_sequence = Live.rolling_sequence
    BY <1>n, <2>1 DEF SettledCheckpoint, AuditCheckpoint, LiveNumbers, Live
  <2>3. checkpoint'.settled_sequence >= own'.sequence
    BY <1>n, <1>t, <2>1, <2>2 DEF CommandInv, LiveNumbers
  <2>4. OperatorTypeOK'
    BY <1>t, <2>1 DEF OperatorTypeOK, InspectSteps
  <2> QED
    BY <1>b, <1>o, <2>1, <2>3, <2>4 DEF CommandInv
<1> QED
  BY <1>1, <1>2, <1>3, <1>4, <1>5, <1>6, <1>7, <1>8, SmokeStep DEF Command

(***************************************************************************)
(* The invariant of the whole, and the claims.                             *)
(***************************************************************************)
OperatorInv == DInv /\ ScriptInv /\ CommandInv

LEMMA OperatorInitInvariant == OperatorInit => OperatorInv
<1> SUFFICES ASSUME OperatorInit PROVE OperatorInv
  OBVIOUS
<1>1. DInv
  BY DelegatedInitInvariant DEF OperatorInit, ReconcileInit
<1>2. LiveNumbers
  BY <1>1, Numbers
<1>3. 0 \in U64 /\ 0 \in 0..MAX_RUNTIME_AUDIT_ITEMS /\ 0 \in 0..MaxKills
  BY MaxU64Assumption, AuditCapAssumption, MaxKillsAssumption DEF U64
<1>4. ReconcileTypeOK
  BY <1>3 DEF OperatorInit, ReconcileInit, ReconcileTypeOK, Modes
<1>5. ScriptInv
  BY <1>2, <1>4 DEF OperatorInit, ReconcileInit, ScriptInv, LiveNumbers
<1>6. OperatorTypeOK
  <2>1. NoGlance \in [rolling_sequence : U64, is_delegated : BOOLEAN,
                      entries : 0..MAX_RUNTIME_AUDIT_ITEMS]
    BY <1>3 DEF NoGlance, Glance, ZeroedRuntime
  <2>2. NoDecision \in [sequence : U64, reason : DecisionReason]
    BY <1>3 DEF NoDecision, DecisionReason
  <2> QED
    BY <1>3, <1>4, <2>1, <2>2 DEF OperatorInit, OperatorTypeOK
<1>7. CommandInv
  <2>1. own.sequence = 0 /\ begun_at = 0
    BY DEF OperatorInit, NoDecision
  <2> QED
    BY <1>2, <1>6, <2>1 DEF OperatorInit, CommandInv, LiveNumbers, InspectSteps
<1> QED
  BY <1>1, <1>5, <1>7 DEF OperatorInv

LEMMA OperatorStepInvariant ==
  OperatorInv /\ [OperatorNext]_operatorVars => OperatorInv'
<1> SUFFICES ASSUME OperatorInv, [OperatorNext]_operatorVars PROVE OperatorInv'
  OBVIOUS
<1> USE DEF OperatorInv
\* The system's own steps, and none at all.
<1>1. ASSUME DelegatedNext \/ UNCHANGED delegatedVars, UNCHANGED <<scriptVars, opVars>>
      PROVE  OperatorInv'
  <2>1. DInv' /\ LiveNumbers /\ LiveNumbers' /\ Onward
    BY <1>1, AnyStepOnward DEF AnyStep
  <2>2. ScriptInv'
    BY <1>1, <2>1, ScriptKept
  <2> QED
    BY <1>1, <2>1, <2>2, CommandKept DEF ScriptInv
<1>2. ASSUME UNCHANGED opVars,
             \/ \E m \in ModeInputs : Start(m)
             \/ Script
             \/ Killed
      PROVE  OperatorInv'
  <2>1. AnyStep
    BY <1>2, ScriptTakesPart
  <2>2. DInv' /\ LiveNumbers /\ LiveNumbers' /\ Onward
    BY <2>1, AnyStepOnward
  <2>3. ScriptInv'
    BY <1>2, <2>1, ScriptStep
  <2> QED
    BY <1>2, <2>2, <2>3, CommandKept DEF ScriptInv
<1>3. ASSUME Command, UNCHANGED scriptVars
      PROVE  OperatorInv'
  <2>1. DInv' /\ LiveNumbers /\ LiveNumbers' /\ Onward
    BY <1>3, CommandTakesPart, AnyStepOnward
  <2>2. ScriptInv'
    BY <1>3, <2>1, ScriptKept
  <2> QED
    BY <1>3, <2>1, <2>2, CommandStep DEF ScriptInv
<1> QED
  BY <1>1, <1>2, <1>3 DEF OperatorNext, operatorVars, reconcileVars

THEOREM OperatorInvariant == OperatorSpec => []OperatorInv
  BY OperatorInitInvariant, OperatorStepInvariant, PTL DEF OperatorSpec

\* No command and no run of the script leaves its types, whatever the widths.
THEOREM OperatorTypeCorrect == OperatorSpec => []OperatorTypeOK
<1>1. OperatorInv => OperatorTypeOK
  BY DEF OperatorInv, CommandInv
<1> QED
  BY <1>1, OperatorInvariant, PTL

\* A settling run that ends without an error has settled all that was decided
\* before it, however many others settle, open sessions and end them meanwhile.
THEOREM DoneIsSettled == OperatorSpec => []DoneMeansSettled
<1>1. OperatorInv => DoneMeansSettled
  BY DEF OperatorInv, ScriptInv, SettlingModes, DoneMeansSettled
<1> QED
  BY <1>1, OperatorInvariant, PTL

\* Next to the number that its own request got, call-endpoint prints its own
\* decision or none, and after a base request no lower number, for every capacity
\* of the buffer and any number of other callers.
THEOREM ReportIsOwn == OperatorSpec => []CallReportsOwn
<1>1. OperatorInv => CallReportsOwn
  <2>1. \A view \in Fetched : view \in Copies
    BY DEF Fetched, RuntimeViews, Copies
  <2> QED
    BY <2>1 DEF OperatorInv, CommandInv, CallReportsOwn
<1> QED
  BY <1>1, OperatorInvariant, PTL

\* The audit and the checkpoint printed side by side leave no decision out.
THEOREM ViewHasNoGap == OperatorSpec => []NoGapInView
<1>1. OperatorInv => NoGapInView
  BY DEF OperatorInv, CommandInv, GapFree, NoGapInView
<1> QED
  BY <1>1, OperatorInvariant, PTL

\* A status that recommends nothing had everything settled when it was asked.
THEOREM NoneIsSettled == OperatorSpec => []NoneMeansSettled
<1>1. OperatorInv => NoneMeansSettled
  <2> DEFINE ckpt == [settled_sequence |-> settled]
  <2> SUFFICES ASSUME OperatorInv, at = "print",
                      RecommendedAction(glance, ckpt) = "none"
               PROVE  settled >= begun_at
    BY DEF NoneMeansSettled
  <2>1. /\ glance.rolling_sequence \in Nat /\ glance.is_delegated \in BOOLEAN
        /\ settled \in Nat /\ begun_at \in Nat
    BY MaxU64Assumption DEF OperatorInv, CommandInv, OperatorTypeOK, U64
  <2>2. Drift(glance, ckpt) \in Nat
    BY <2>1 DEF Drift
  <2>3. ~glance.is_delegated /\ Drift(glance, ckpt) = 0
    BY <2>1, <2>2 DEF RecommendedAction
  <2>4. settled >= glance.rolling_sequence
    BY <2>1, <2>3 DEF Drift
  <2>5. glance.rolling_sequence >= begun_at
    BY <2>3 DEF OperatorInv, CommandInv
  <2> QED
    BY <2>1, <2>4, <2>5
<1> QED
  BY <1>1, OperatorInvariant, PTL

\* A smoke run that reaches its report has settled its own request.
THEOREM SmokeIsSettled == OperatorSpec => []SmokeSettlesItsRequest
<1>1. OperatorInv => SmokeSettlesItsRequest
  BY DEF OperatorInv, CommandInv, SmokeSettlesItsRequest
<1> QED
  BY <1>1, OperatorInvariant, PTL

(***************************************************************************)
(* Runs that are repeated settle everything.  A run that is left alone     *)
(* ends; one more is started; once nobody opens sessions any more, a run   *)
(* that begins in a session ends it, and one that begins outside settles.  *)
(***************************************************************************)

\* Past its first await a run has seen the runtime, which never goes away.
RunInv ==
  /\ DInv
  /\ ScriptInv
  /\ pc \in ScriptSteps \ {"before_runtime"} => runtime.initialized

LEMMA StaysInitialized ==
  ASSUME DInv, DelegatedNext \/ UNCHANGED delegatedVars, runtime.initialized
  PROVE  runtime'.initialized
<1>f. /\ runtime \in QuotaRuntime /\ checkpoint \in AuditCheckpoint
      /\ quota_policy \in QuotaPolicy /\ active \in BOOLEAN
      /\ clock \in Timestamp
  BY TypedAccounts DEF DInv
<1>0. CASE UNCHANGED runtime
  BY <1>0
<1>1. CASE Administration \/ UNCHANGED delegatedVars
  BY <1>0, <1>1 DEF Administration, AttachPolicyToRole, RevokeApiKey,
                    CreateQuotaPolicy, Tick, delegatedVars, vars
<1>2. CASE BaseInstruction
  <2>1. CASE InitializeQuotaRuntime
    BY <2>1 DEF InitializeQuotaRuntime
  <2>2. CASE \E action \in ActionInputs : ConsumeRequest(action)
    BY <2>2, <1>f, ConsumeEffect DEF ConsumeRequest, CountedOnce
  <2>3. CASE SettleRuntimeCheckpoint
    BY <2>3, <1>f DEF SettleRuntimeCheckpoint, SettledRuntime, QuotaRuntime
  <2> QED
    BY <1>2, <2>1, <2>2, <2>3 DEF BaseInstruction
<1>3. CASE \E commit_frequency_ms \in {0, 1} :
             DelegateQuotaRuntime(commit_frequency_ms)
  BY <1>3, <1>f DEF DelegateQuotaRuntime, MarkedDelegated, QuotaRuntime
<1>4. CASE \/ \E action \in ActionInputs : ErConsumeRequest(action)
           \/ CommitQuotaRuntime \/ CommitAndUndelegateQuotaRuntime
           \/ RefreshClone \/ ErTick
  BY <1>0, <1>4
  DEF ErConsumeRequest, CommitQuotaRuntime, CommitAndUndelegateQuotaRuntime,
      RefreshClone, ErTick, vars
<1>5. CASE \E commit \in commits : LandCommit(commit) \/ LoseCommit(commit)
  <2>1. owner = "delegation"
    BY <1>5, DInvFacts DEF DInv, FlagMatchesOwner
  <2>2. \A commit \in commits : commit.rt.initialized
    BY <2>1 DEF DInv, SessionOrder
  <2> QED
    BY <1>0, <1>5, <2>2 DEF LandCommit, LoseCommit, vars
<1>6. CASE Finalize
  BY <1>6, FinalCopy DEF Finalize
<1> QED
  BY <1>1, <1>2, <1>3, <1>4, <1>5, <1>6 DEF DelegatedNext

\* Every step of the script and beside it is a step of the system or none.
LEMMA RunTakesPart ==
  ASSUME [ReconcileNext]_reconcileVars
  PROVE  DelegatedNext \/ UNCHANGED delegatedVars
<1>1. CASE SendSettle
  BY <1>1 DEF SendSettle, DelegatedNext, BaseInstruction
<1>2. CASE SendCommit \/ SendUndelegate
  BY <1>2 DEF SendCommit, SendUndelegate, DelegatedNext
<1>3. CASE \/ \E m \in ModeInputs : Start(m)
           \/ FetchRuntime \/ FetchCheckpoint \/ Refused \/ Killed
  BY <1>3 DEF Start, FetchRuntime, FetchCheckpoint, Refused, Killed
<1> QED
  BY <1>1, <1>2, <1>3 DEF ReconcileNext, Script, reconcileVars

LEMMA RunInvInit == ReconcileInit => RunInv
<1> SUFFICES ASSUME ReconcileInit PROVE RunInv
  OBVIOUS
<1>1. DInv
  BY DelegatedInitInvariant DEF ReconcileInit
<1>2. LiveNumbers
  BY <1>1, Numbers
<1>3. 0 \in U64 /\ 0 \in 0..MaxKills
  BY MaxU64Assumption, MaxKillsAssumption DEF U64
<1>4. ReconcileTypeOK
  BY <1>3 DEF ReconcileInit, ReconcileTypeOK, Modes
<1>5. ScriptInv
  BY <1>2, <1>4 DEF ReconcileInit, ScriptInv, LiveNumbers
<1> QED
  BY <1>1, <1>5 DEF RunInv, ReconcileInit, ScriptSteps

LEMMA RunInvStep == RunInv /\ [ReconcileNext]_reconcileVars => RunInv'
<1> SUFFICES ASSUME RunInv, [ReconcileNext]_reconcileVars PROVE RunInv'
  OBVIOUS
<1>1. AnyStep /\ (DelegatedNext \/ UNCHANGED delegatedVars)
  BY RunTakesPart DEF AnyStep
<1>2. DInv' /\ LiveNumbers /\ LiveNumbers' /\ Onward
  BY <1>1, AnyStepOnward DEF RunInv
<1>3. runtime.initialized => runtime'.initialized
  BY <1>1, StaysInitialized DEF RunInv
<1>4. ScriptInv'
  <2>1. CASE \/ \E m \in ModeInputs : Start(m)
             \/ Script
             \/ Killed
    BY <1>1, <2>1, ScriptStep DEF RunInv
  <2>2. CASE UNCHANGED scriptVars
    BY <1>2, <2>2, ScriptKept DEF RunInv
  <2> QED
    BY <2>1, <2>2 DEF ReconcileNext, reconcileVars
<1>5. pc' \in ScriptSteps \ {"before_runtime"} =>
        \/ pc \in ScriptSteps \ {"before_runtime"}
        \/ runtime'.initialized
  <2>1. CASE FetchRuntime /\ pc = "before_runtime"
    <3>1. PICK view \in RuntimeViews : view.initialized
      BY <2>1 DEF FetchRuntime
    <3>2. owner = "delegation" => runtime.initialized
      BY DEF RunInv, DInv, SessionOrder
    <3> QED
      BY <1>3, <3>1, <3>2 DEF RuntimeViews
  <2>2. CASE Refused \/ Killed \/ \E m \in ModeInputs : Start(m)
    BY <2>2 DEF Refused, Killed, Start, ScriptSteps
  <2>3. CASE FetchCheckpoint \/ SendCommit \/ SendUndelegate \/ SendSettle
    BY <2>3 DEF FetchCheckpoint, SendCommit, SendUndelegate, SendSettle,
                ScriptSteps
  <2>4. CASE UNCHANGED scriptVars
    BY <2>4 DEF scriptVars
  <2>5. CASE FetchRuntime /\ pc # "before_runtime"
    BY <2>5 DEF FetchRuntime, ScriptSteps
  <2> QED
    BY <2>1, <2>2, <2>3, <2>4, <2>5 DEF ReconcileNext, reconcileVars, Script
<1> QED
  BY <1>2, <1>3, <1>4, <1>5 DEF RunInv

\* How many awaits a run has ahead of it, at most.
Ahead ==
  CASE pc = "before_runtime"         -> 8
    [] pc = "before_checkpoint"      -> 7
    [] pc \in {"commit", "undelegate"} -> 6
    [] pc = "again_runtime"          -> 5
    [] pc = "again_checkpoint"       -> 4
    [] pc = "settle"                 -> 3
    [] pc = "after_runtime"          -> 2
    [] pc = "after_checkpoint"       -> 1
    [] OTHER                         -> 0

LEMMA AheadRange ==
  /\ Ahead \in 0..8
  /\ Ahead = 0 <=> pc \notin ScriptSteps
  BY DEF Ahead, ScriptSteps

\* A step of the script leads to a later await, or to its end.
LEMMA ScriptGoesOn ==
  ASSUME RunInv, Script
  PROVE  Ahead' < Ahead
<1>m. mode \in Modes
  BY DEF RunInv, ScriptInv, ReconcileTypeOK
<1>1. CASE FetchRuntime
  BY <1>1 DEF FetchRuntime, Ahead
<1>2. CASE FetchCheckpoint
  <2>1. CASE pc = "before_checkpoint"
    <3>1. PICK drift : pc' = AfterBefore(seen.is_delegated, drift)
      BY <1>2, <2>1 DEF FetchCheckpoint
    <3>2. pc' \in {"after_runtime", "commit", "failed", "undelegate",
                   "again_runtime", "settle"}
      BY <1>m, <3>1 DEF AfterBefore, Modes
    <3> QED
      BY <2>1, <3>2 DEF Ahead
  <2>2. CASE pc = "again_checkpoint"
    <3>1. PICK drift : pc' = AfterAgain(seen.is_delegated, drift)
      BY <1>2, <2>2 DEF FetchCheckpoint
    <3>2. pc' \in {"failed", "settle", "after_runtime"}
      BY <3>1 DEF AfterAgain
    <3> QED
      BY <2>2, <3>2 DEF Ahead
  <2>3. CASE pc = "after_checkpoint"
    BY <1>2, <2>3 DEF FetchCheckpoint, Ahead
  <2> QED
    BY <1>2, <2>1, <2>2, <2>3 DEF FetchCheckpoint
<1>3. CASE SendCommit \/ SendUndelegate \/ SendSettle
  BY <1>3 DEF SendCommit, SendUndelegate, SendSettle, Ahead
<1>4. CASE Refused
  BY <1>4 DEF Refused, Ahead
<1> QED
  BY <1>1, <1>2, <1>3, <1>4 DEF Script

\* While a run is under way and none dies, only its own steps move it.
LEMMA RunUndisturbed ==
  ASSUME RunInv, [ReconcileNext]_reconcileVars, [kills' = kills]_reconcileVars,
         pc \in ScriptSteps
  PROVE  Script \/ UNCHANGED scriptVars
<1>1. ~\E m \in ModeInputs : Start(m)
  BY DEF Start
<1>2. ASSUME Killed PROVE FALSE
  <2>1. kills' = kills
    BY <1>2 DEF reconcileVars, scriptVars
  <2>2. kills \in Int
    BY MaxKillsAssumption DEF RunInv, ScriptInv, ReconcileTypeOK
  <2> QED
    BY <1>2, <2>1, <2>2 DEF Killed
<1> QED
  BY <1>1, <1>2 DEF ReconcileNext, reconcileVars

\* What each await needs, whatever the rest of the state, for the script to go
\* on from it or to be refused.
ScriptGuard ==
  /\ pc \in ScriptSteps
  /\ mode \in Modes
  /\ DelegatedTypeOK
  /\ pc # "before_runtime" => runtime.initialized
  /\ pc = "settle" /\ owner = "program" => ~runtime.is_delegated

\* The guards are all that can stop the steps with a fairness.
RunGuardsSuffice ==
  /\ ScriptGuard => ENABLED <<Script>>_reconcileVars
  /\ pc \notin ScriptSteps =>
       ENABLED <<Start("undelegate-and-settle")>>_reconcileVars
  /\ FinalizeGuard =>
       ENABLED <<Finalize /\ UNCHANGED scriptVars>>_reconcileVars

LEMMA ScriptGuarded ==
  ASSUME RunInv, pc \in ScriptSteps
  PROVE  ScriptGuard
<1>1. mode \in Modes
  BY DEF RunInv, ScriptInv, ReconcileTypeOK
<1>2. owner = "program" => ~runtime.is_delegated
  BY DEF RunInv, DInv, FlagMatchesOwner
<1> QED
  BY <1>1, <1>2 DEF ScriptGuard, RunInv, DInv

NoSessionOpens == owner' = "delegation" => owner = "delegation"

\* A time at which no run dies any more and nobody opens a session.
Quiet ==
  /\ [](RunInv /\ RunGuardsSuffice)
  /\ [][ReconcileNext]_reconcileVars
  /\ [][kills' = kills]_reconcileVars
  /\ [][NoSessionOpens]_reconcileVars
  /\ WF_reconcileVars(Finalize /\ UNCHANGED scriptVars)
  /\ WF_reconcileVars(Script)
  /\ SF_reconcileVars(Start("undelegate-and-settle"))

\* From any await the run gets further.
GetsOn(k) == Ahead <= k ~> Ahead < k

LEMMA RunGetsOn ==
  ASSUME NEW k \in Nat \ {0}
  PROVE  Quiet => GetsOn(k)
<1> DEFINE Here == Ahead = k
           Further == Ahead < k
           QuietStep == /\ [ReconcileNext]_reconcileVars
                        /\ [kills' = kills]_reconcileVars
<1>1. RunInv /\ Here => pc \in ScriptSteps
  BY AheadRange
<1>2. RunInv /\ Here /\ Script => Further'
  BY ScriptGoesOn
<1>3. RunInv /\ Here /\ QuietStep => Here' \/ Further'
  <2>1. UNCHANGED scriptVars => Ahead' = Ahead
    BY DEF scriptVars, Ahead
  <2> QED
    BY <1>1, <1>2, <2>1, RunUndisturbed
<1>4. RunInv /\ Here /\ <<Script>>_reconcileVars => Further'
  BY <1>2
<1>5. RunInv /\ Here => ScriptGuard
  BY <1>1, ScriptGuarded
<1>6. Ahead <= k => Here \/ Further
  BY AheadRange
<1> QED
  BY <1>3, <1>4, <1>5, <1>6, PTL DEF Quiet, RunGuardsSuffice, GetsOn

\* So it ends, and another one is started, again and again.
LEMMA RunsAreStarted ==
  Quiet => []<>(pc = "before_runtime" /\ mode = "undelegate-and-settle")
<1>1. Quiet => /\ GetsOn(8) /\ GetsOn(7) /\ GetsOn(6) /\ GetsOn(5)
               /\ GetsOn(4) /\ GetsOn(3) /\ GetsOn(2) /\ GetsOn(1)
  BY RunGetsOn
<1>2. /\ Ahead <= 8
      /\ Ahead < 8 => Ahead <= 7
      /\ Ahead < 7 => Ahead <= 6
      /\ Ahead < 6 => Ahead <= 5
      /\ Ahead < 5 => Ahead <= 4
      /\ Ahead < 4 => Ahead <= 3
      /\ Ahead < 3 => Ahead <= 2
      /\ Ahead < 2 => Ahead <= 1
      /\ Ahead < 1 => pc \notin ScriptSteps
  BY AheadRange
<1>3. Quiet => []<>(pc \notin ScriptSteps)
  BY <1>1, <1>2, PTL DEF GetsOn
<1>4. <<Start("undelegate-and-settle")>>_reconcileVars =>
        (pc = "before_runtime" /\ mode = "undelegate-and-settle")'
  BY DEF Start
<1> QED
  BY <1>3, <1>4, PTL DEF Quiet, RunGuardsSuffice

\* What decides which way a run of undelegate-and-settle takes.
Settling == mode = "undelegate-and-settle"
InSession == owner = "delegation" /\ ~er_locked

\* A session ends with the lock, and the lock with the account back home.
LEMMA SessionsEnd ==
  ASSUME DInv, DelegatedNext \/ UNCHANGED delegatedVars
  PROVE  /\ InSession => InSession' \/ er_locked'
         /\ er_locked => er_locked' \/ owner' = "program"
         /\ er_locked /\ Finalize => owner' = "program"
<1>1. Finalize => owner' = "program" /\ er_locked
  BY FinalCopy DEF Finalize, DInv, FlagMatchesOwner
<1>2. InSession /\ ~Finalize => owner' = "delegation"
  BY DEF InSession, DelegatedNext, Administration, BaseInstruction,
         DelegateQuotaRuntime, ErConsumeRequest, CommitQuotaRuntime,
         CommitAndUndelegateQuotaRuntime, RefreshClone, ErTick, LandCommit,
         LoseCommit, delegatedVars
<1>3. er_locked' \in BOOLEAN
  <2>1. DInv'
    BY StepDInv
  <2> QED
    BY <2>1 DEF DInv, DelegatedTypeOK
<1> QED
  BY <1>1, <1>2, <1>3, LockHolds DEF InSession

\* One step of a run that begins in a session: the flag is up whichever copy
\* it is shown, and so it undelegates, if nobody else has.
LEMMA RunInSession ==
  ASSUME RunInv, [ReconcileNext]_reconcileVars, [kills' = kills]_reconcileVars,
         InSession, Settling,
         \/ pc = "before_runtime"
         \/ pc = "before_checkpoint" /\ seen.is_delegated
         \/ pc = "undelegate"
  PROVE  \/ er_locked'
         \/ InSession' /\ UNCHANGED <<pc, mode, seen>> /\ ~Script
         \/ /\ InSession' /\ Settling'
            /\ \/ pc = "before_runtime" /\ pc' = "before_checkpoint" /\ seen'.is_delegated
               \/ pc = "before_checkpoint" /\ pc' = "undelegate"
<1>1. pc \in ScriptSteps
  BY DEF ScriptSteps
<1>2. InSession' \/ er_locked'
  BY SessionsEnd, RunTakesPart DEF RunInv
<1>3. /\ runtime.initialized
      /\ \A view \in RuntimeViews : view.is_delegated
  BY DEF RunInv, DInv, SessionOrder, FlagMatchesOwner, InSession, RuntimeViews
<1>4. CASE ~Script
  BY <1>1, <1>2, <1>4, RunUndisturbed DEF scriptVars
<1>5. CASE FetchRuntime
  BY <1>2, <1>3, <1>5 DEF FetchRuntime, Settling
<1>6. CASE FetchCheckpoint
  <2>1. PICK drift : pc' = AfterBefore(seen.is_delegated, drift)
    BY <1>6 DEF FetchCheckpoint
  <2> QED
    BY <1>2, <1>6, <2>1 DEF FetchCheckpoint, AfterBefore, Settling
<1>7. CASE SendUndelegate
  BY <1>7 DEF SendUndelegate, CommitAndUndelegateQuotaRuntime
<1>8. ~Refused
  <2>1. Writable /\ er_runtime.is_delegated
    BY DEF RunInv, DInv, FlagMatchesOwner, InSession, Writable
  <2> QED
    BY <1>3, <2>1 DEF Refused
<1>9. ~SendCommit /\ ~SendSettle
  BY DEF SendCommit, SendSettle
<1> QED
  BY <1>4, <1>5, <1>6, <1>7, <1>8, <1>9 DEF Script

LEMMA SessionIsEnded == Quiet => (InSession ~> er_locked)
<1> DEFINE QuietStep == /\ [ReconcileNext]_reconcileVars
                        /\ [kills' = kills]_reconcileVars
           Begins == pc = "before_runtime" /\ mode = "undelegate-and-settle"
           B1 == InSession /\ Settling /\ pc = "before_runtime"
           B2 == InSession /\ Settling /\ pc = "before_checkpoint" /\ seen.is_delegated
           B3 == InSession /\ Settling /\ pc = "undelegate"
<1>1. RunInv /\ QuietStep => /\ B1 => \/ B1' /\ ~Script
                                      \/ B2' \/ er_locked'
                             /\ B2 => \/ B2' /\ ~Script
                                      \/ B3' \/ er_locked'
                             /\ B3 => \/ B3' /\ ~Script
                                      \/ er_locked'
  BY RunInSession DEF Settling
<1>2. RunInv /\ (B1 \/ B2 \/ B3) => ScriptGuard
  BY ScriptGuarded DEF ScriptSteps
<1>3. RunInv /\ QuietStep /\ InSession => InSession' \/ er_locked'
  BY SessionsEnd, RunTakesPart DEF RunInv
<1>4. InSession /\ Begins => B1
  BY DEF Settling
<1> HIDE DEF B1, B2, B3
<1>5. Quiet => (B1 ~> B2 \/ er_locked)
  BY <1>1, <1>2, PTL DEF Quiet, RunGuardsSuffice
<1>6. Quiet => (B2 ~> B3 \/ er_locked)
  BY <1>1, <1>2, PTL DEF Quiet, RunGuardsSuffice
<1>7. Quiet => (B3 ~> er_locked)
  BY <1>1, <1>2, PTL DEF Quiet, RunGuardsSuffice
<1>8. Quiet => (InSession ~> B1 \/ er_locked)
  BY <1>3, <1>4, RunsAreStarted, PTL DEF Quiet
<1> QED
  BY <1>5, <1>6, <1>7, <1>8, PTL

\* The platform completes what it accepted.
LEMMA LockIsLifted == Quiet => (er_locked ~> owner = "program")
<1> DEFINE Completes == Finalize /\ UNCHANGED scriptVars
<1>1. RunInv /\ er_locked /\ [ReconcileNext]_reconcileVars
        => er_locked' \/ (owner = "program")'
  BY SessionsEnd, RunTakesPart DEF RunInv
<1>2. RunInv /\ er_locked /\ <<Completes>>_reconcileVars => (owner = "program")'
  BY SessionsEnd DEF RunInv, DelegatedNext
<1>3. RunInv /\ er_locked => FinalizeGuard
  BY DInvFacts DEF RunInv, DInv, FlagMatchesOwner, FinalizeGuard
<1> QED
  BY <1>1, <1>2, <1>3, PTL DEF Quiet, RunGuardsSuffice

(***************************************************************************)
(* Outside sessions.                                                       *)
(***************************************************************************)
Home(n) == owner = "program" /\ Live.rolling_sequence >= n
SettledTo(n) == checkpoint.settled_sequence >= n \/ settlement_count = MaxU64

\* What a run that begins outside sessions knows at each of its awaits.
SettlesNext(n) ==
  \/ Settling /\ pc = "before_runtime"
  \/ Settling /\ pc = "before_checkpoint" /\ ~seen.is_delegated
  \/ Settling /\ pc = "again_runtime"
  \/ /\ Settling /\ pc = "again_checkpoint" /\ ~seen.is_delegated
     /\ seen.rolling_sequence >= n
  \/ pc = "settle"

LEMMA DecisionsStay ==
  ASSUME RunInv, [ReconcileNext]_reconcileVars, NEW n \in Nat
  PROVE  /\ Live.rolling_sequence \in Nat
         /\ Live.rolling_sequence >= n => Live'.rolling_sequence >= n
<1>1. LiveNumbers /\ LiveNumbers' /\ Onward
  BY RunTakesPart, AnyStepOnward DEF RunInv, AnyStep
<1> QED
  BY <1>1 DEF LiveNumbers, Onward

LEMMA HomeStays ==
  ASSUME RunInv, [ReconcileNext]_reconcileVars, [NoSessionOpens]_reconcileVars,
         NEW n \in Nat, Home(n)
  PROVE  Home(n)'
<1>1. RunInv'
  BY RunInvStep
<1>2. owner' = "delegation" => owner = "delegation"
  BY DEF NoSessionOpens, reconcileVars, delegatedVars
<1>3. owner' = "program"
  BY <1>1, <1>2 DEF RunInv, DInv, DelegatedTypeOK, Home
<1> QED
  BY <1>3, DecisionsStay DEF Home

\* One step of a run that begins outside sessions: the runtime it is shown is
\* the one in use, and what drift it has is settled, if nobody else has.
LEMMA RunAtHome ==
  ASSUME RunInv, [ReconcileNext]_reconcileVars, [kills' = kills]_reconcileVars,
         [NoSessionOpens]_reconcileVars,
         NEW n \in Nat \ {0}, Home(n), SettlesNext(n)
  PROVE  \/ SettledTo(n) \/ SettledTo(n)'
         \/ /\ Home(n)' /\ ~Script /\ UNCHANGED <<pc, mode, seen>>
         \/ /\ Home(n)'
            /\ \/ /\ pc = "before_runtime" /\ pc' = "before_checkpoint"
                  /\ mode' = mode /\ ~seen'.is_delegated
               \/ pc = "before_checkpoint" /\ pc' = "again_runtime" /\ mode' = mode
               \/ /\ pc = "again_runtime" /\ pc' = "again_checkpoint"
                  /\ mode' = mode
                  /\ ~seen'.is_delegated /\ seen'.rolling_sequence >= n
               \/ pc = "again_checkpoint" /\ pc' = "settle"
<1>1. pc \in ScriptSteps
  BY DEF ScriptSteps, SettlesNext
<1>2. /\ Live = runtime /\ Live' = runtime'
      /\ RuntimeViews = {runtime}
      /\ Home(n)'
  BY HomeStays DEF Home, Live, RuntimeViews
<1>3. runtime.initialized /\ ~runtime.is_delegated /\ runtime.rolling_sequence >= n
  <2>1. ZeroedRuntime.rolling_sequence = 0
    BY DEF ZeroedRuntime
  <2> QED
    BY <1>2, <2>1 DEF Home, RunInv, DInv, FlagMatchesOwner, IInv, SetupOrder
<1>n. /\ seen.rolling_sequence \in Nat /\ checkpoint.settled_sequence \in Nat
      /\ runtime.rolling_sequence \in Nat /\ runtime \in QuotaRuntime
      /\ settlement_count \in Nat /\ settlement_count <= MaxU64
      /\ checkpoint \in AuditCheckpoint
  BY DInvFacts, MaxU64Assumption
  DEF RunInv, ScriptInv, ReconcileTypeOK, DInv, DelegatedTypeOK, TypeOK,
      QuotaRuntime, AuditCheckpoint, U64
<1>4. CASE ~Script
  BY <1>1, <1>2, <1>4, RunUndisturbed DEF scriptVars
<1>5. CASE FetchRuntime
  BY <1>2, <1>3, <1>5 DEF FetchRuntime, SettlesNext
<1>6. CASE FetchCheckpoint /\ pc = "before_checkpoint"
  BY <1>2, <1>6 DEF FetchCheckpoint, AfterBefore, SettlesNext, Settling
<1>7. CASE FetchCheckpoint /\ pc = "again_checkpoint"
  <2>1. /\ pc' = AfterAgain(seen.is_delegated, Drift(seen, checkpoint))
        /\ ~seen.is_delegated
    BY <1>7 DEF FetchCheckpoint, SettlesNext
  <2>2. CASE Drift(seen, checkpoint) > 0
    BY <1>2, <1>7, <2>1, <2>2 DEF AfterAgain
  <2>3. CASE ~(Drift(seen, checkpoint) > 0)
    BY <1>7, <1>n, <2>3 DEF Drift, SettlesNext, SettledTo
  <2> QED
    BY <2>2, <2>3
<1>8. CASE SendSettle
  <2>1. checkpoint'.settled_sequence = runtime.rolling_sequence
    BY <1>8, <1>n DEF SendSettle, SettleRuntimeCheckpoint, SettledCheckpoint,
                      AuditCheckpoint
  <2> QED
    BY <1>3, <2>1 DEF SettledTo
<1>9. CASE Refused
  <2>1. settlement_count = MaxU64
    BY <1>3, <1>9, <1>n, MaxU64Assumption DEF Refused, SettlesNext, Home
  <2> QED
    BY <2>1 DEF SettledTo
<1>10. ~SendCommit /\ ~SendUndelegate /\ ~(FetchCheckpoint /\ pc = "after_checkpoint")
  BY DEF SendCommit, SendUndelegate, SettlesNext
<1> QED
  BY <1>4, <1>5, <1>6, <1>7, <1>8, <1>9, <1>10 DEF Script, FetchCheckpoint

LEMMA HomeIsSettled ==
  ASSUME NEW n \in Nat \ {0}
  PROVE  Quiet => (Home(n) ~> SettledTo(n))
<1> DEFINE QuietStep == /\ [ReconcileNext]_reconcileVars
                        /\ [kills' = kills]_reconcileVars
                        /\ [NoSessionOpens]_reconcileVars
           Begins == pc = "before_runtime" /\ mode = "undelegate-and-settle"
           H == Home(n)
           S == SettledTo(n)
           H1 == H /\ Settling /\ pc = "before_runtime"
           H2 == H /\ Settling /\ pc = "before_checkpoint" /\ ~seen.is_delegated
           H3 == H /\ Settling /\ pc = "again_runtime"
           H4 == /\ H /\ Settling /\ pc = "again_checkpoint" /\ ~seen.is_delegated
                 /\ seen.rolling_sequence >= n
           H5 == H /\ pc = "settle"
<1>1. RunInv /\ QuietStep => /\ H1 => S \/ S' \/ (H1' /\ ~Script) \/ H2'
                             /\ H2 => S \/ S' \/ (H2' /\ ~Script) \/ H3'
                             /\ H3 => S \/ S' \/ (H3' /\ ~Script) \/ H4'
                             /\ H4 => S \/ S' \/ (H4' /\ ~Script) \/ H5'
                             /\ H5 => S \/ S' \/ (H5' /\ ~Script)
  BY RunAtHome DEF Settling, SettlesNext
<1>2. RunInv /\ (H1 \/ H2 \/ H3 \/ H4 \/ H5) => ScriptGuard
  BY ScriptGuarded DEF ScriptSteps
<1>3. RunInv /\ QuietStep /\ H => H'
  BY HomeStays
<1>4. H /\ Begins => H1
  BY DEF Settling
<1> HIDE DEF H, S, H1, H2, H3, H4, H5
<1>5. Quiet => (H1 ~> H2 \/ S)
  BY <1>1, <1>2, PTL DEF Quiet, RunGuardsSuffice
<1>6. Quiet => (H2 ~> H3 \/ S)
  BY <1>1, <1>2, PTL DEF Quiet, RunGuardsSuffice
<1>7. Quiet => (H3 ~> H4 \/ S)
  BY <1>1, <1>2, PTL DEF Quiet, RunGuardsSuffice
<1>8. Quiet => (H4 ~> H5 \/ S)
  BY <1>1, <1>2, PTL DEF Quiet, RunGuardsSuffice
<1>9. Quiet => (H5 ~> S)
  BY <1>1, <1>2, PTL DEF Quiet, RunGuardsSuffice
<1>10. Quiet => (H ~> H1)
  BY <1>3, <1>4, RunsAreStarted, PTL DEF Quiet
<1> QED
  BY <1>5, <1>6, <1>7, <1>8, <1>9, <1>10, PTL DEF H, S

\* Whatever a killed, refused or unanswered run left undone is done by the runs
\* after it, for any number of decisions, sessions and runs, once runs stop
\* dying and sessions stop being opened.
THEOREM RepeatedRunsRecover ==
  PersistentSpec /\ []RunGuardsSuffice /\ <>[][kills' = kills]_reconcileVars
    => RunsRecover
<1> SUFFICES ASSUME NEW n \in U64 \ {0}
             PROVE  PersistentSpec /\ []RunGuardsSuffice
                      /\ <>[][kills' = kills]_reconcileVars
                      /\ <>[][NoSessionOpens]_reconcileVars
                    => (Live.rolling_sequence = n ~> SettledTo(n))
  BY DEF RunsRecover, NoSessionOpens, SettledTo
<1> DEFINE Made == Live.rolling_sequence >= n
<1>n. n \in Nat \ {0}
  BY MaxU64Assumption DEF U64
<1>1. RunInv /\ [ReconcileNext]_reconcileVars /\ Made => Made'
  BY <1>n, DecisionsStay
<1>2. RunInv /\ Made => InSession \/ er_locked \/ Home(n)
  BY DEF RunInv, DInv, DelegatedTypeOK, InSession, Home
<1>3. RunInv /\ Made /\ owner = "program" => Home(n)
  BY DEF Home
<1>4. Live.rolling_sequence = n => Made
  BY <1>n
<1>5. Quiet => (Home(n) ~> SettledTo(n))
  BY <1>n, HomeIsSettled
<1> HIDE DEF Made
<1>6. Quiet => (Made ~> SettledTo(n))
  BY <1>1, <1>2, <1>3, <1>5, SessionIsEnded, LockIsLifted, PTL DEF Quiet
<1>7. PersistentSpec => []RunInv
  BY RunInvInit, RunInvStep, PTL DEF PersistentSpec, ReconcileSpec
<1>8. PersistentSpec /\ []RunGuardsSuffice
        /\ <>[][kills' = kills]_reconcileVars
        /\ <>[][NoSessionOpens]_reconcileVars
      => <>Quiet
  BY <1>7, PTL DEF Quiet, PersistentSpec, ReconcileSpec
<1> QED
  BY <1>1, <1>4, <1>6, <1>7, <1>8, PTL DEF PersistentSpec, ReconcileSpec
=============================================================================
