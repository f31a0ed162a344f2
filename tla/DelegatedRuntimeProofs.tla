----------------------- MODULE DelegatedRuntimeProofs -----------------------
(***************************************************************************)
(* DelegatedRuntime for every capacity, integer width, set of inputs and   *)
(* time bound.  The base copy of the runtime goes on satisfying            *)
(* BaseRuntime's inductive invariant whatever commits land, because every  *)
(* copy that exists outside base is a well-formed runtime of the same      *)
(* session, and no session overlaps a settlement.                          *)
(***************************************************************************)
EXTENDS DelegatedRuntime, BaseRuntimeProofs

\* A copy that could replace the base account's data.
WellFormed(rt) ==
  AuditIsSuffix(rt) /\ EverySequenceCounted(rt) /\ Mirrors(rt, checkpoint)

\* A session exists for an initialised runtime only, and its copies and its
\* clone of the policy are of that runtime.
SessionOrder ==
  owner = "delegation" =>
    /\ runtime.initialized
    /\ er_runtime.initialized
    /\ \A commit \in commits : commit.rt.initialized
    /\ ValidQuotaConfig(er_quota_policy.max_requests,
                        er_quota_policy.window_seconds)

SessionWellFormed ==
  owner = "delegation" =>
    /\ WellFormed(er_runtime)
    /\ \A commit \in commits : WellFormed(commit.rt)

\* The inductive invariant.
DInv ==
  /\ DelegatedTypeOK
  /\ IInv
  /\ FlagMatchesOwner
  /\ SessionOrder
  /\ SessionWellFormed
  /\ CopiesNotAhead

LEMMA DInvFacts ==
  ASSUME DInv
  PROVE  /\ runtime \in QuotaRuntime /\ er_runtime \in QuotaRuntime
         /\ checkpoint \in AuditCheckpoint
         /\ er_quota_policy \in QuotaPolicy
         /\ er_active \in BOOLEAN /\ er_locked \in BOOLEAN
         /\ owner \in {"program", "delegation"}
         /\ er_clock \in Timestamp
         /\ \A commit \in commits : /\ commit.rt \in QuotaRuntime
                                    /\ commit.undelegate \in BOOLEAN
         /\ WellFormed(runtime)
<1>1. er_clock \in Timestamp
  BY MaxTimeAssumption, MaxI64Assumption DEF DInv, DelegatedTypeOK, Timestamp
<1>2. \A commit \in commits : /\ commit.rt \in QuotaRuntime
                              /\ commit.undelegate \in BOOLEAN
  BY DEF DInv, DelegatedTypeOK, Commit
<1>3. WellFormed(runtime)
  BY DEF DInv, IInv, AuditIsUnsettledSuffix, CheckpointMirrorsRuntime, WellFormed
<1> QED
  BY <1>1, <1>2, <1>3 DEF DInv, DelegatedTypeOK, TypeOK

LEMMA DelegatedInitInvariant == DelegatedInit => DInv
<1> SUFFICES ASSUME DelegatedInit PROVE DInv
  OBVIOUS
<1>1. IInv
  BY InitInvariant DEF DelegatedInit
<1>2. DelegatedTypeOK
  <2>1. TypeOK
    BY <1>1 DEF IInv
  <2>2. er_clock \in 1..MaxTime
    BY MaxTimeAssumption DEF DelegatedInit
  <2>3. er_runtime \in QuotaRuntime /\ er_quota_policy \in QuotaPolicy
    BY ZeroedTypes DEF DelegatedInit
  <2>4. /\ owner \in {"program", "delegation"}
        /\ er_locked \in BOOLEAN /\ er_active \in BOOLEAN
        /\ er_policy_mask \in SUBSET ALL_PERMISSIONS
        /\ commits \in SUBSET Commit
    BY DEF DelegatedInit
  <2> QED
    BY <2>1, <2>2, <2>3, <2>4 DEF DelegatedTypeOK
<1>3. FlagMatchesOwner
  BY DEF DelegatedInit, Init, FlagMatchesOwner, ZeroedRuntime
<1>4. owner # "delegation"
  BY DEF DelegatedInit
<1> QED
  BY <1>1, <1>2, <1>3, <1>4
  DEF DInv, SessionOrder, SessionWellFormed, CopiesNotAhead

(***************************************************************************)
(* Base layer.                                                             *)
(***************************************************************************)

\* A step that leaves the copies alone leaves what is said about them.
LEMMA CopiesUntouched ==
  ASSUME DInv,
         UNCHANGED <<runtime, checkpoint, owner, er_runtime, er_locked, commits>>
  PROVE  FlagMatchesOwner' /\ SessionWellFormed' /\ CopiesNotAhead'
<1>1. FlagMatchesOwner'
  BY DEF DInv, FlagMatchesOwner
<1>2. SessionWellFormed'
  BY DEF DInv, SessionWellFormed, WellFormed
<1>3. CopiesNotAhead'
  BY DEF DInv, CopiesNotAhead
<1> QED
  BY <1>1, <1>2, <1>3

LEMMA AdministrationStep ==
  ASSUME DInv, Administration
  PROVE  DInv'
<1>1. /\ Next
      /\ UNCHANGED <<runtime, checkpoint, owner, er_runtime, er_locked, er_active,
                     er_policy_mask, er_quota_policy, er_clock, commits>>
  BY DEF Administration, Next, erVars, AttachPolicyToRole, RevokeApiKey,
         CreateQuotaPolicy, Tick
<1>2. IInv'
  BY <1>1, StepInvariant DEF DInv
<1>3. DelegatedTypeOK'
  BY <1>1, <1>2 DEF DInv, DelegatedTypeOK, IInv
<1>4. SessionOrder'
  BY <1>1 DEF DInv, SessionOrder
<1> QED
  BY <1>1, <1>2, <1>3, <1>4, CopiesUntouched DEF DInv

\* On base the instructions never raise the flag.
LEMMA BaseKeepsFlagDown ==
  ASSUME IInv, ~runtime.is_delegated,
         \/ InitializeQuotaRuntime
         \/ \E action \in ActionInputs : ConsumeRequest(action)
         \/ SettleRuntimeCheckpoint
  PROVE  ~runtime'.is_delegated
<1>k. /\ runtime \in QuotaRuntime /\ checkpoint \in AuditCheckpoint
      /\ quota_policy \in QuotaPolicy /\ active \in BOOLEAN
      /\ clock \in Timestamp
      /\ EverySequenceCounted(runtime)
  BY TypedAccounts
<1>1. CASE InitializeQuotaRuntime
  BY <1>1, <1>k, FreshEffect DEF InitializeQuotaRuntime
<1>2. CASE \E action \in ActionInputs : ConsumeRequest(action)
  <2>1. CountedOnce(runtime, runtime')
    BY <1>2, <1>k, ConsumeEffect DEF ConsumeRequest
  <2> QED
    BY <2>1 DEF CountedOnce
<1>3. CASE SettleRuntimeCheckpoint
  BY <1>3, <1>k, SettleEffect DEF SettleRuntimeCheckpoint
<1> QED
  BY <1>1, <1>2, <1>3

LEMMA BaseInstructionStep ==
  ASSUME DInv, BaseInstruction
  PROVE  DInv'
<1>1. /\ Next /\ owner = "program"
      /\ UNCHANGED <<owner, er_runtime, er_locked, er_active, er_policy_mask,
                     er_quota_policy, er_clock, commits>>
  BY DEF BaseInstruction, Next, erVars
<1>2. IInv'
  BY <1>1, StepInvariant DEF DInv
<1>3. DelegatedTypeOK'
  BY <1>1, <1>2 DEF DInv, DelegatedTypeOK, IInv
<1>4. ~runtime.is_delegated /\ commits = {} /\ ~er_locked
  BY <1>1 DEF DInv, FlagMatchesOwner
<1>5. ~runtime'.is_delegated
  BY <1>4, BaseKeepsFlagDown DEF DInv, BaseInstruction
<1>6. FlagMatchesOwner'
  BY <1>1, <1>4, <1>5 DEF FlagMatchesOwner
<1> QED
  BY <1>1, <1>2, <1>3, <1>6
  DEF DInv, SessionOrder, SessionWellFormed, CopiesNotAhead

\* A copy is not ahead of itself.
LEMMA NotAheadOfItself ==
  ASSUME NEW rt \in QuotaRuntime
  PROVE  NotAhead(rt, rt)
  BY DEF QuotaRuntime, U64, NotAhead

\* A copy that is not ahead of a runtime is not ahead of it one decision later.
LEMMA CountedOnceLeavesBehind ==
  ASSUME NEW copy \in QuotaRuntime, NEW rt \in QuotaRuntime,
         NEW rt2 \in QuotaRuntime, NotAhead(copy, rt), CountedOnce(rt, rt2)
  PROVE  NotAhead(copy, rt2)
<1>1. /\ copy.rolling_sequence \in Int /\ rt.rolling_sequence \in Int
      /\ copy.total_allowed \in Int /\ rt.total_allowed \in Int
      /\ copy.total_rejected \in Int /\ rt.total_rejected \in Int
  BY DEF QuotaRuntime, U64
<1> QED
  BY <1>1 DEF NotAhead, CountedOnce

LEMMA DelegateStep ==
  ASSUME DInv, NEW commit_frequency_ms \in Nat,
         DelegateQuotaRuntime(commit_frequency_ms)
  PROVE  DInv'
<1> DEFINE rt2 == MarkedDelegated(runtime, commit_frequency_ms)
<1>1. /\ owner = "program" /\ owner' = "delegation"
      /\ runtime.initialized
      /\ runtime' = rt2 /\ er_runtime' = rt2
      /\ er_locked' = FALSE
      /\ er_active' = active /\ er_policy_mask' = policy_mask
      /\ er_quota_policy' = quota_policy
      /\ UNCHANGED <<clock, active, policy_mask, quota_policy, checkpoint,
                     settlement_count, er_clock, commits>>
  BY DEF DelegateQuotaRuntime
<1>2. commits = {}
  BY <1>1 DEF DInv, FlagMatchesOwner
<1>3. runtime \in QuotaRuntime /\ WellFormed(runtime)
  BY DInvFacts
<1>4. rt2 \in QuotaRuntime /\ rt2.is_delegated /\ SameButFlag(runtime, rt2)
  BY <1>3, MarkEffect
<1> HIDE DEF rt2
<1>5. /\ rt2.initialized /\ AuditIsSuffix(rt2) /\ EverySequenceCounted(rt2)
      /\ Mirrors(rt2, checkpoint)
  BY <1>1, <1>3, <1>4, SameButFlagKeeps DEF WellFormed
<1>6. IInv'
  <2>1. TypeOK'
    BY <1>1, <1>4 DEF DInv, IInv, TypeOK
  <2>2. SetupOrder'
    BY <1>1, <1>5 DEF DInv, IInv, SetupOrder
  <2>3. AuditIsUnsettledSuffix' /\ CheckpointMirrorsRuntime'
    BY <1>1, <1>5 DEF AuditIsUnsettledSuffix, CheckpointMirrorsRuntime
  <2> QED
    BY <2>1, <2>2, <2>3 DEF IInv
<1>7. DelegatedTypeOK'
  BY <1>1, <1>4, <1>6 DEF DInv, IInv, TypeOK, DelegatedTypeOK
<1>8. FlagMatchesOwner'
  BY <1>1, <1>2, <1>4 DEF FlagMatchesOwner
<1>9. SessionOrder'
  BY <1>1, <1>2, <1>5 DEF DInv, IInv, SetupOrder, SessionOrder
<1>10. SessionWellFormed'
  BY <1>1, <1>2, <1>5 DEF SessionWellFormed, WellFormed
<1>11. CopiesNotAhead'
  BY <1>1, <1>2, <1>4, <1>5, NotAheadOfItself DEF CopiesNotAhead
<1> QED
  BY <1>6, <1>7, <1>8, <1>9, <1>10, <1>11 DEF DInv

(***************************************************************************)
(* Rollup.                                                                 *)
(***************************************************************************)

\* What one decision on the ER does to its copy.
LEMMA ErDecision ==
  ASSUME DInv, NEW action \in ActionInputs, ErConsumeRequest(action)
  PROVE  /\ er_runtime' \in QuotaRuntime
         /\ CountedOnce(er_runtime, er_runtime')
         /\ WindowMoved(er_runtime, er_runtime', er_quota_policy, er_clock)
         /\ ~er_active => RefusedUnchanged(er_runtime, er_runtime')
  BY DInvFacts, ConsumeEffect DEF ErConsumeRequest

LEMMA ErConsumeStep ==
  ASSUME DInv, NEW action \in ActionInputs, ErConsumeRequest(action)
  PROVE  DInv'
<1>1. /\ owner = "delegation" /\ ~er_locked
      /\ UNCHANGED <<clock, active, policy_mask, quota_policy, runtime, checkpoint,
                     settlement_count, owner, er_locked, er_active,
                     er_policy_mask, er_quota_policy, er_clock, commits>>
  BY DEF ErConsumeRequest, Writable, vars, cloneVars
<1>2. er_runtime' \in QuotaRuntime /\ CountedOnce(er_runtime, er_runtime')
  BY ErDecision
<1>3. er_runtime \in QuotaRuntime /\ checkpoint \in AuditCheckpoint
  BY DInvFacts
<1>4. WellFormed(er_runtime)
  BY <1>1 DEF DInv, SessionWellFormed
<1>5. IInv'
  <2>1. TypeOK'
    BY <1>1 DEF DInv, IInv, TypeOK
  <2>2. SetupOrder' /\ AuditIsUnsettledSuffix' /\ CheckpointMirrorsRuntime'
    BY <1>1 DEF DInv, IInv, SetupOrder, AuditIsUnsettledSuffix,
                CheckpointMirrorsRuntime
  <2> QED
    BY <2>1, <2>2 DEF IInv
<1>6. DelegatedTypeOK'
  BY <1>1, <1>2, <1>5 DEF DInv, DelegatedTypeOK, IInv
<1>7. FlagMatchesOwner'
  BY <1>1, <1>2 DEF DInv, FlagMatchesOwner, CountedOnce
<1>8. SessionOrder'
  BY <1>1, <1>2 DEF DInv, SessionOrder, CountedOnce
<1>9. SessionWellFormed'
  <2>1. AuditIsSuffix(er_runtime') /\ EverySequenceCounted(er_runtime')
    BY <1>2, <1>3, <1>4, CountedOnceKeepsAudit DEF WellFormed
  <2>2. Mirrors(er_runtime', checkpoint)
    BY <1>2, <1>3, <1>4, CountedOnceKeepsMirror DEF WellFormed
  <2> QED
    BY <1>1, <2>1, <2>2 DEF DInv, SessionWellFormed, WellFormed
<1>10. CopiesNotAhead'
  <2> SUFFICES ASSUME NEW copy \in {runtime} \cup {commit.rt : commit \in commits}
               PROVE  NotAhead(copy, er_runtime') /\ EverySequenceCounted(copy)
    BY <1>1 DEF CopiesNotAhead
  <2>1. NotAhead(copy, er_runtime) /\ EverySequenceCounted(copy)
    BY <1>1 DEF DInv, CopiesNotAhead
  <2>2. copy \in QuotaRuntime
    BY DInvFacts
  <2>3. NotAhead(copy, er_runtime')
    BY <1>2, <1>3, <2>1, <2>2, CountedOnceLeavesBehind
  <2> QED
    BY <2>1, <2>3
<1> QED
  BY <1>5, <1>6, <1>7, <1>8, <1>9, <1>10 DEF DInv

\* Steps that touch nothing of the base layer leave its invariant.
LEMMA BaseUntouched ==
  ASSUME DInv, UNCHANGED vars
  PROVE  IInv' /\ TypeOK'
<1>1. IInv /\ [Next]_vars
  BY DEF DInv
<1> QED
  BY <1>1, StepInvariant DEF IInv

LEMMA CommitStep ==
  ASSUME DInv, CommitQuotaRuntime
  PROVE  DInv'
<1> DEFINE commit == [rt |-> er_runtime, undelegate |-> FALSE]
<1>1. /\ owner = "delegation" /\ ~er_locked /\ er_runtime.is_delegated
      /\ commits' = commits \cup {commit}
      /\ UNCHANGED <<vars, owner, er_runtime, er_locked, er_active, er_policy_mask,
                     er_quota_policy, er_clock>>
  BY DEF CommitQuotaRuntime, Writable, erVars
<1>2. IInv' /\ TypeOK'
  BY <1>1, BaseUntouched
<1>3. er_runtime \in QuotaRuntime
  BY DInvFacts
<1>4. commit.rt = er_runtime /\ commit.undelegate = FALSE
  OBVIOUS
<1>5. DelegatedTypeOK'
  <2>1. commit \in Commit
    BY <1>3 DEF Commit
  <2> QED
    BY <1>1, <1>2, <2>1 DEF DInv, DelegatedTypeOK
<1> HIDE DEF commit
<1>6. /\ UNCHANGED <<runtime, checkpoint, quota_policy>>
  BY <1>1 DEF vars
<1>7. FlagMatchesOwner'
  BY <1>1, <1>4, <1>6 DEF DInv, FlagMatchesOwner
<1>8. SessionOrder'
  BY <1>1, <1>4, <1>6 DEF DInv, SessionOrder
<1>9. SessionWellFormed'
  BY <1>1, <1>4, <1>6 DEF DInv, SessionWellFormed, WellFormed
<1>10. CopiesNotAhead'
  <2>1. NotAhead(er_runtime, er_runtime) /\ EverySequenceCounted(er_runtime)
    BY <1>1, <1>3, NotAheadOfItself DEF DInv, SessionWellFormed, WellFormed
  <2> QED
    BY <1>1, <1>4, <1>6, <2>1 DEF DInv, CopiesNotAhead
<1> QED
  BY <1>2, <1>5, <1>7, <1>8, <1>9, <1>10 DEF DInv

LEMMA CommitAndUndelegateStep ==
  ASSUME DInv, CommitAndUndelegateQuotaRuntime
  PROVE  DInv'
<1> DEFINE rt2    == MarkedUndelegated(er_runtime)
           commit == [rt |-> rt2, undelegate |-> TRUE]
<1>1. /\ owner = "delegation" /\ ~er_locked /\ er_runtime.is_delegated
      /\ er_runtime' = rt2 /\ er_locked' = TRUE
      /\ commits' = commits \cup {commit}
      /\ UNCHANGED <<vars, owner, er_active, er_policy_mask, er_quota_policy,
                     er_clock>>
  BY DEF CommitAndUndelegateQuotaRuntime, Writable, cloneVars
<1>2. IInv' /\ TypeOK'
  BY <1>1, BaseUntouched
<1>3. er_runtime \in QuotaRuntime
  BY DInvFacts
<1>4. rt2 \in QuotaRuntime /\ ~rt2.is_delegated /\ SameButFlag(er_runtime, rt2)
  BY <1>3, MarkEffect
<1>5. commit.rt = rt2 /\ commit.undelegate = TRUE
  OBVIOUS
<1> HIDE DEF rt2
<1>6. DelegatedTypeOK'
  <2>1. commit \in Commit
    BY <1>4 DEF Commit
  <2> QED
    BY <1>1, <1>2, <1>4, <2>1 DEF DInv, DelegatedTypeOK
<1> HIDE DEF commit
<1>7. /\ UNCHANGED <<runtime, checkpoint, quota_policy>>
  BY <1>1 DEF vars
<1>8. FlagMatchesOwner'
  BY <1>1, <1>4, <1>5, <1>7 DEF DInv, FlagMatchesOwner
<1>9. /\ rt2.initialized = er_runtime.initialized
      /\ WellFormed(er_runtime) => WellFormed(rt2)
      /\ \A copy : NotAhead(copy, er_runtime) => NotAhead(copy, rt2)
  BY <1>3, <1>4, SameButFlagKeeps DEF WellFormed, NotAhead
<1>10. SessionOrder'
  BY <1>1, <1>5, <1>7, <1>9 DEF DInv, SessionOrder
<1>11. SessionWellFormed'
  BY <1>1, <1>5, <1>7, <1>9 DEF DInv, SessionWellFormed, WellFormed
<1>12. CopiesNotAhead'
  <2>1. NotAhead(rt2, rt2) /\ EverySequenceCounted(rt2)
    BY <1>1, <1>4, <1>9, NotAheadOfItself DEF DInv, SessionWellFormed, WellFormed
  <2> QED
    BY <1>1, <1>5, <1>7, <1>9, <2>1 DEF DInv, CopiesNotAhead
<1> QED
  BY <1>2, <1>6, <1>8, <1>10, <1>11, <1>12 DEF DInv

(***************************************************************************)
(* Platform.                                                               *)
(***************************************************************************)
LEMMA RefreshCloneStep ==
  ASSUME DInv, RefreshClone
  PROVE  DInv'
<1>1. /\ owner = "delegation"
      /\ er_active' \in {active, er_active}
      /\ er_policy_mask' \in {policy_mask, er_policy_mask}
      /\ er_quota_policy' \in {quota_policy, er_quota_policy}
      /\ UNCHANGED <<vars, owner, er_runtime, er_locked, er_clock, commits>>
  BY DEF RefreshClone
<1>2. IInv' /\ TypeOK'
  BY <1>1, BaseUntouched
<1>3. UNCHANGED <<runtime, checkpoint>>
  BY <1>1 DEF vars
<1>4. /\ active \in BOOLEAN /\ policy_mask \in SUBSET ALL_PERMISSIONS
      /\ quota_policy \in QuotaPolicy
  BY DEF DInv, IInv, TypeOK
<1>5. DelegatedTypeOK'
  BY <1>1, <1>2, <1>4 DEF DInv, DelegatedTypeOK
<1>6. SessionOrder'
  <2>1. ValidQuotaConfig(quota_policy.max_requests, quota_policy.window_seconds)
    BY <1>1 DEF DInv, IInv, SetupOrder, SessionOrder
  <2> QED
    BY <1>1, <1>3, <2>1 DEF DInv, SessionOrder
<1> QED
  BY <1>1, <1>2, <1>3, <1>5, <1>6, CopiesUntouched DEF DInv

LEMMA ErTickStep ==
  ASSUME DInv, ErTick
  PROVE  DInv'
<1>1. /\ er_clock < MaxTime /\ er_clock' = er_clock + 1
      /\ UNCHANGED <<vars, owner, er_runtime, er_locked, er_active, er_policy_mask,
                     er_quota_policy, commits>>
  BY DEF ErTick, erVars
<1>2. IInv' /\ TypeOK'
  BY <1>1, BaseUntouched
<1>3. UNCHANGED <<runtime, checkpoint>>
  BY <1>1 DEF vars
<1>4. er_clock' \in 1..MaxTime
  BY <1>1, MaxTimeAssumption DEF DInv, DelegatedTypeOK
<1>5. DelegatedTypeOK'
  BY <1>1, <1>2, <1>4 DEF DInv, DelegatedTypeOK
<1>6. SessionOrder'
  BY <1>1, <1>3 DEF DInv, SessionOrder
<1> QED
  BY <1>1, <1>2, <1>3, <1>5, <1>6, CopiesUntouched DEF DInv

\* The base account's data become a well-formed copy of the session's runtime:
\* the base layer's invariant does not notice.
LEMMA LandedData ==
  ASSUME DInv, NEW rt \in QuotaRuntime, rt.initialized, runtime.initialized,
         WellFormed(rt), runtime' = rt,
         UNCHANGED <<clock, active, policy_mask, quota_policy, checkpoint,
                     settlement_count>>
  PROVE  IInv' /\ TypeOK'
<1>1. TypeOK'
  BY DEF DInv, IInv, TypeOK
<1>2. SetupOrder'
  BY DEF DInv, IInv, SetupOrder
<1>3. AuditIsUnsettledSuffix' /\ CheckpointMirrorsRuntime'
  BY DEF WellFormed, AuditIsUnsettledSuffix, CheckpointMirrorsRuntime
<1> QED
  BY <1>1, <1>2, <1>3 DEF IInv

LEMMA LandCommitStep ==
  ASSUME DInv, NEW commit \in commits, LandCommit(commit)
  PROVE  DInv'
<1>1. /\ ~commit.undelegate
      /\ runtime' = commit.rt
      /\ commits' = commits \ {commit}
      /\ UNCHANGED <<clock, active, policy_mask, quota_policy, checkpoint,
                     settlement_count, owner, er_runtime, er_locked, er_active,
                     er_policy_mask, er_quota_policy, er_clock>>
  BY DEF LandCommit, erVars
\* A commit is under way only while the delegation program owns the account.
<1>2. owner = "delegation"
  BY DInvFacts DEF DInv, FlagMatchesOwner
<1>3. commit.rt \in QuotaRuntime /\ commit.rt.is_delegated
  BY <1>1, DInvFacts DEF DInv, FlagMatchesOwner
<1>4. /\ runtime.initialized /\ commit.rt.initialized /\ WellFormed(commit.rt)
  BY <1>2 DEF DInv, SessionOrder, SessionWellFormed
<1>5. IInv' /\ TypeOK'
  BY <1>1, <1>3, <1>4, LandedData
<1>6. DelegatedTypeOK'
  BY <1>1, <1>5 DEF DInv, DelegatedTypeOK
<1>7. FlagMatchesOwner'
  BY <1>1, <1>2, <1>3 DEF DInv, FlagMatchesOwner
<1>8. SessionOrder'
  BY <1>1, <1>4 DEF DInv, SessionOrder
<1>9. SessionWellFormed'
  BY <1>1 DEF DInv, SessionWellFormed, WellFormed
<1>10. CopiesNotAhead'
  BY <1>1 DEF DInv, CopiesNotAhead
<1> QED
  BY <1>5, <1>6, <1>7, <1>8, <1>9, <1>10 DEF DInv

LEMMA LoseCommitStep ==
  ASSUME DInv, NEW commit \in commits, LoseCommit(commit)
  PROVE  DInv'
<1>1. /\ ~commit.undelegate
      /\ commits' = commits \ {commit}
      /\ UNCHANGED <<vars, owner, er_runtime, er_locked, er_active, er_policy_mask,
                     er_quota_policy, er_clock>>
  BY DEF LoseCommit, erVars
<1>2. IInv' /\ TypeOK'
  BY <1>1, BaseUntouched
<1>3. UNCHANGED <<runtime, checkpoint>>
  BY <1>1 DEF vars
<1>4. DelegatedTypeOK'
  BY <1>1, <1>2 DEF DInv, DelegatedTypeOK
<1>5. owner = "delegation"
  BY DInvFacts DEF DInv, FlagMatchesOwner
<1>6. FlagMatchesOwner'
  BY <1>1, <1>3, <1>5 DEF DInv, FlagMatchesOwner
<1>7. SessionOrder'
  BY <1>1, <1>3 DEF DInv, SessionOrder
<1>8. SessionWellFormed'
  BY <1>1, <1>3 DEF DInv, SessionWellFormed, WellFormed
<1>9. CopiesNotAhead'
  BY <1>1, <1>3 DEF DInv, CopiesNotAhead
<1> QED
  BY <1>2, <1>4, <1>6, <1>7, <1>8, <1>9 DEF DInv

\* What an undelegation brings home is the ER's runtime as it stands.
LEMMA FinalCopy ==
  ASSUME DInv, NEW commit \in commits, FinalizeUndelegation(commit)
  PROVE  /\ owner = "delegation" /\ owner' = "program"
         /\ runtime' = er_runtime
         /\ ~er_runtime.is_delegated
         /\ er_runtime.initialized /\ runtime.initialized
         /\ WellFormed(er_runtime)
<1>1. commit.undelegate /\ runtime' = commit.rt /\ owner' = "program"
  BY DEF FinalizeUndelegation
<1>2. owner = "delegation"
  BY DInvFacts DEF DInv, FlagMatchesOwner
<1>3. commit.rt = er_runtime /\ ~er_runtime.is_delegated
  BY <1>1, <1>2 DEF DInv, FlagMatchesOwner
<1> QED
  BY <1>1, <1>2, <1>3 DEF DInv, SessionOrder, SessionWellFormed

LEMMA FinalizeStep ==
  ASSUME DInv, NEW commit \in commits, FinalizeUndelegation(commit)
  PROVE  DInv'
<1>1. /\ runtime' = er_runtime /\ owner' = "program" /\ commits' = {}
      /\ er_runtime' = ZeroedRuntime /\ er_locked' = FALSE
      /\ UNCHANGED <<clock, active, policy_mask, quota_policy, checkpoint,
                     settlement_count, er_active, er_policy_mask,
                     er_quota_policy, er_clock>>
  BY FinalCopy DEF FinalizeUndelegation, cloneVars
<1>2. /\ ~er_runtime.is_delegated /\ er_runtime.initialized
      /\ runtime.initialized /\ WellFormed(er_runtime)
      /\ er_runtime \in QuotaRuntime
  BY FinalCopy, DInvFacts
<1>3. IInv' /\ TypeOK'
  BY <1>1, <1>2, LandedData
<1>4. DelegatedTypeOK'
  BY <1>1, <1>3, ZeroedTypes DEF DInv, DelegatedTypeOK
<1>5. FlagMatchesOwner'
  BY <1>1, <1>2 DEF FlagMatchesOwner
<1> QED
  BY <1>1, <1>3, <1>4, <1>5
  DEF DInv, SessionOrder, SessionWellFormed, CopiesNotAhead

LEMMA StepDInv == DInv /\ [DelegatedNext]_delegatedVars => DInv'
<1> SUFFICES ASSUME DInv, [DelegatedNext]_delegatedVars PROVE DInv'
  OBVIOUS
<1>1. CASE UNCHANGED delegatedVars
  <2>1. /\ UNCHANGED <<vars, owner, er_runtime, er_locked, er_active,
                       er_policy_mask, er_quota_policy, er_clock, commits>>
    BY <1>1 DEF delegatedVars
  <2>2. IInv' /\ TypeOK'
    BY <2>1, BaseUntouched
  <2>3. UNCHANGED <<runtime, checkpoint>>
    BY <2>1 DEF vars
  <2>4. DelegatedTypeOK'
    BY <2>1, <2>2 DEF DInv, DelegatedTypeOK
  <2>5. SessionOrder'
    BY <2>1, <2>3 DEF DInv, SessionOrder
  <2> QED
    BY <2>1, <2>2, <2>3, <2>4, <2>5, CopiesUntouched DEF DInv
<1>2. CASE Administration
  BY <1>2, AdministrationStep
<1>3. CASE BaseInstruction
  BY <1>3, BaseInstructionStep
<1>4. CASE \E commit_frequency_ms \in {0, 1} :
             DelegateQuotaRuntime(commit_frequency_ms)
  BY <1>4, DelegateStep
<1>5. CASE \E action \in ActionInputs : ErConsumeRequest(action)
  BY <1>5, ErConsumeStep
<1>6. CASE CommitQuotaRuntime
  BY <1>6, CommitStep
<1>7. CASE CommitAndUndelegateQuotaRuntime
  BY <1>7, CommitAndUndelegateStep
<1>8. CASE RefreshClone
  BY <1>8, RefreshCloneStep
<1>9. CASE ErTick
  BY <1>9, ErTickStep
<1>10. CASE \E commit \in commits : LandCommit(commit) \/ LoseCommit(commit)
  BY <1>10, LandCommitStep, LoseCommitStep
<1>11. CASE Finalize
  BY <1>11, FinalizeStep DEF Finalize
<1> QED
  BY <1>1, <1>2, <1>3, <1>4, <1>5, <1>6, <1>7, <1>8, <1>9, <1>10, <1>11
  DEF DelegatedNext

\* Every reachable state of the two layers satisfies the inductive invariant.
THEOREM DelegatedInvariant == DelegatedSpec => []DInv
  BY DelegatedInitInvariant, StepDInv, PTL DEF DelegatedSpec

\* Type correctness of both layers, whatever lands on the base account.
THEOREM DelegatedTypeCorrect == DelegatedSpec => []DelegatedTypeOK
<1>1. DInv => DelegatedTypeOK
  BY DEF DInv
<1> QED
  BY <1>1, DelegatedInvariant, PTL

\* The program's flag and Solana's ownership agree on base, and the ER's flag
\* with its lock, for any number of sessions and commits.
THEOREM FlagCorrect == DelegatedSpec => []FlagMatchesOwner
<1>1. DInv => FlagMatchesOwner
  BY DEF DInv
<1> QED
  BY <1>1, DelegatedInvariant, PTL

\* No copy on base or under way has anything the ER has not, and none is from
\* before the last settlement.
THEOREM CopiesCorrect == DelegatedSpec => []CopiesNotAhead
<1>1. DInv => CopiesNotAhead
  BY DEF DInv
<1> QED
  BY <1>1, DelegatedInvariant, PTL

LEMMA LiveFacts ==
  ASSUME DInv
  PROVE  Live \in QuotaRuntime /\ WellFormed(Live)
<1>1. CASE owner = "delegation"
  BY <1>1, DInvFacts DEF DInv, SessionWellFormed, Live
<1>2. CASE owner # "delegation"
  BY <1>2, DInvFacts DEF Live
<1> QED
  BY <1>1, <1>2

\* The runtime in use is well formed against the checkpoint on either layer.
THEOREM LiveCorrect == DelegatedSpec => []LiveWellFormed
<1>1. DInv => LiveWellFormed
  BY LiveFacts DEF WellFormed, LiveWellFormed
<1> QED
  BY <1>1, DelegatedInvariant, PTL

(***************************************************************************)
(* What a step does to the runtime in use: a step of BaseRuntime outside   *)
(* sessions, a decision on the ER in one, and across the border and in the *)
(* platform's steps nothing but the flag.                                  *)
(***************************************************************************)
LEMMA SameButFlagItself ==
  ASSUME NEW rt \in QuotaRuntime
  PROVE  SameButFlag(rt, rt)
  BY DEF QuotaRuntime, SameButFlag, SameButWindow

LEMMA LiveStep ==
  ASSUME DInv, DelegatedNext
  PROVE  \/ Next /\ Live = runtime /\ Live' = runtime'
         \/ /\ \E action \in ActionInputs : ErConsumeRequest(action)
            /\ Live = er_runtime /\ Live' = er_runtime'
         \/ SameButFlag(Live, Live') /\ UNCHANGED <<active, checkpoint>>
         \/ RevokeApiKey /\ Live' = Live
<1>k. runtime \in QuotaRuntime /\ er_runtime \in QuotaRuntime
  BY DInvFacts
<1>u. ASSUME UNCHANGED <<vars, owner, er_runtime>>
      PROVE  SameButFlag(Live, Live') /\ UNCHANGED <<active, checkpoint>>
  <2>1. UNCHANGED <<Live, active, checkpoint>>
    BY <1>u DEF vars, Live
  <2> QED
    BY <2>1, LiveFacts, SameButFlagItself
<1>1. CASE Administration
  <2>1. UNCHANGED <<runtime, checkpoint, owner, er_runtime>>
    BY <1>1 DEF Administration, erVars, AttachPolicyToRole, RevokeApiKey,
                CreateQuotaPolicy, Tick
  <2>2. RevokeApiKey \/ UNCHANGED active
    BY <1>1 DEF Administration, AttachPolicyToRole, CreateQuotaPolicy, Tick
  <2>3. Live' = Live
    BY <2>1 DEF Live
  <2> QED
    BY <2>1, <2>2, <2>3, LiveFacts, SameButFlagItself
<1>2. CASE BaseInstruction
  BY <1>2 DEF BaseInstruction, Next, Live
<1>3. CASE \E commit_frequency_ms \in {0, 1} :
             DelegateQuotaRuntime(commit_frequency_ms)
  <2> PICK commit_frequency_ms \in {0, 1} :
             DelegateQuotaRuntime(commit_frequency_ms)
    BY <1>3
  <2>1. /\ Live = runtime
        /\ Live' = MarkedDelegated(runtime, commit_frequency_ms)
        /\ UNCHANGED <<active, checkpoint>>
    BY DEF DelegateQuotaRuntime, Live
  <2> QED
    BY <1>k, <2>1, MarkEffect
<1>4. CASE \E action \in ActionInputs : ErConsumeRequest(action)
  BY <1>4 DEF ErConsumeRequest, Writable, Live
<1>5. CASE CommitQuotaRuntime
  BY <1>5, <1>u DEF CommitQuotaRuntime, erVars
<1>6. CASE CommitAndUndelegateQuotaRuntime
  <2>1. /\ Live = er_runtime
        /\ Live' = MarkedUndelegated(er_runtime)
        /\ UNCHANGED <<active, checkpoint>>
    BY <1>6 DEF CommitAndUndelegateQuotaRuntime, Writable, Live, vars
  <2>2. 0 \in Nat
    OBVIOUS
  <2> QED
    BY <1>k, <2>1, <2>2, MarkEffect
<1>7. CASE RefreshClone
  BY <1>7, <1>u DEF RefreshClone
<1>8. CASE ErTick
  BY <1>8, <1>u DEF ErTick, erVars
<1>9. CASE \E commit \in commits : LandCommit(commit) \/ LoseCommit(commit)
  <2>1. owner = "delegation"
    BY <1>9, DInvFacts DEF DInv, FlagMatchesOwner
  <2>2. UNCHANGED <<owner, er_runtime, active, checkpoint>>
    BY <1>9 DEF LandCommit, LoseCommit, erVars, vars
  <2>3. Live' = Live
    BY <2>1, <2>2 DEF Live
  <2> QED
    BY <2>2, <2>3, LiveFacts, SameButFlagItself
<1>10. CASE Finalize
  <2> PICK commit \in commits : FinalizeUndelegation(commit)
    BY <1>10 DEF Finalize
  <2>1. Live = er_runtime /\ Live' = er_runtime
    BY FinalCopy DEF Live
  <2>2. UNCHANGED <<active, checkpoint>>
    BY DEF FinalizeUndelegation
  <2> QED
    BY <1>k, <2>1, <2>2, SameButFlagItself
<1> QED
  BY <1>1, <1>2, <1>3, <1>4, <1>5, <1>6, <1>7, <1>8, <1>9, <1>10
  DEF DelegatedNext

\* Delegation, commits and two clocks that disagree refund no quota.
LEMMA LiveForward ==
  ASSUME DInv, DelegatedNext, Live.initialized
  PROVE  Forward(Live, Live')
<1>1. CASE Next /\ Live = runtime /\ Live' = runtime'
  BY <1>1, ForwardStep DEF DInv
<1>2. CASE /\ \E action \in ActionInputs : ErConsumeRequest(action)
           /\ Live = er_runtime /\ Live' = er_runtime'
  <2> PICK action \in ActionInputs : ErConsumeRequest(action)
    BY <1>2
  <2>1. /\ er_runtime' \in QuotaRuntime
        /\ WindowMoved(er_runtime, er_runtime', er_quota_policy, er_clock)
    BY ErDecision
  <2>2. ValidQuotaConfig(er_quota_policy.max_requests,
                         er_quota_policy.window_seconds)
    BY DEF DInv, SessionOrder, ErConsumeRequest, Writable
  <2>3. /\ er_runtime \in QuotaRuntime /\ er_quota_policy \in QuotaPolicy
        /\ er_clock \in Timestamp
    BY DInvFacts
  <2> QED
    BY <1>2, <2>1, <2>2, <2>3, ConsumedForward
<1>3. CASE SameButFlag(Live, Live') \/ Live' = Live
  <2>1. /\ Live'.current_window_started_at = Live.current_window_started_at
        /\ Live'.current_window_used = Live.current_window_used
    BY <1>3 DEF SameButFlag
  <2> QED
    BY <2>1, LiveFacts, UnmovedForward
<1> QED
  BY <1>1, <1>2, <1>3, LiveStep

\* Quota is refunded on neither layer and across no border, for every policy,
\* window and pair of clocks.
THEOREM LiveNoRefund == DelegatedSpec => LiveWindowNeverRefunds
<1> DEFINE NotBack ==
      Live.initialized =>
       \/ Live'.current_window_started_at > Live.current_window_started_at
       \/ /\ Live'.current_window_started_at = Live.current_window_started_at
          /\ Live'.current_window_used >= Live.current_window_used
<1>1. DInv /\ [DelegatedNext]_delegatedVars => [NotBack]_delegatedVars
  BY LiveForward DEF Forward
<1> QED
  BY <1>1, DelegatedInvariant, PTL DEF DelegatedSpec, LiveWindowNeverRefunds

\* The ER learns of a revocation from a clone or from the next session, and
\* never unlearns it.
LEMMA RevocationKept ==
  ASSUME DInv, DelegatedNext, ~active, ~active',
         owner = "delegation" => ~er_active
  PROVE  owner' = "delegation" => ~er_active'
<1>1. CASE Administration \/ BaseInstruction
  BY <1>1 DEF Administration, BaseInstruction, erVars
<1>2. CASE \E commit_frequency_ms \in {0, 1} :
             DelegateQuotaRuntime(commit_frequency_ms)
  BY <1>2 DEF DelegateQuotaRuntime
<1>3. CASE \E action \in ActionInputs : ErConsumeRequest(action)
  BY <1>3 DEF ErConsumeRequest, cloneVars
<1>4. CASE CommitQuotaRuntime \/ CommitAndUndelegateQuotaRuntime
  BY <1>4 DEF CommitQuotaRuntime, CommitAndUndelegateQuotaRuntime, erVars,
              cloneVars
<1>5. CASE RefreshClone
  BY <1>5 DEF RefreshClone
<1>6. CASE ErTick \/ \E commit \in commits : LandCommit(commit) \/ LoseCommit(commit)
  BY <1>6 DEF ErTick, LandCommit, LoseCommit, erVars
<1>7. CASE Finalize
  BY <1>7 DEF Finalize, FinalizeUndelegation
<1> QED
  BY <1>1, <1>2, <1>3, <1>4, <1>5, <1>6, <1>7 DEF DelegatedNext

LEMMA LiveFrozen ==
  ASSUME DInv, DelegatedNext, ~active, owner = "delegation" => ~er_active
  PROVE  ~active' /\ Live'.total_allowed = Live.total_allowed
<1>1. CASE Next /\ Live = runtime /\ Live' = runtime'
  BY <1>1, FrozenStep DEF DInv
<1>2. CASE /\ \E action \in ActionInputs : ErConsumeRequest(action)
           /\ Live = er_runtime /\ Live' = er_runtime'
  <2> PICK action \in ActionInputs : ErConsumeRequest(action)
    BY <1>2
  <2>1. ~er_active /\ UNCHANGED active
    BY DEF ErConsumeRequest, Writable, vars
  <2>2. RefusedUnchanged(er_runtime, er_runtime')
    BY <2>1, ErDecision
  <2> QED
    BY <1>2, <2>1, <2>2 DEF RefusedUnchanged
<1>3. CASE SameButFlag(Live, Live') /\ UNCHANGED <<active, checkpoint>>
  BY <1>3, LiveFacts DEF SameButFlag, SameButWindow, QuotaRuntime
<1>4. ~RevokeApiKey
  BY DEF RevokeApiKey
<1> QED
  BY <1>1, <1>2, <1>3, <1>4, LiveStep

\* Once the ER's clone of the key shows the revocation, or no session is open,
\* the key is admitted nothing more on any layer, in any later session.
THEOREM RevocationReachesAll == DelegatedSpec => RevocationHolds
<1> DEFINE Frozen ==
      ~active /\ (owner = "delegation" => ~er_active) =>
       /\ ~active' /\ (owner' = "delegation" => ~er_active')
       /\ Live'.total_allowed = Live.total_allowed
<1>1. DInv /\ [DelegatedNext]_delegatedVars => [Frozen]_delegatedVars
  BY LiveFrozen, RevocationKept
<1> QED
  BY <1>1, DelegatedInvariant, PTL DEF DelegatedSpec, RevocationHolds

LEMMA LiveLedgerMove ==
  ASSUME DInv, DelegatedNext
  PROVE  LedgerMove(Live, checkpoint, Live', checkpoint')
<1>1. CASE Next /\ Live = runtime /\ Live' = runtime'
  BY <1>1, LedgerStep DEF DInv
<1>2. CASE /\ \E action \in ActionInputs : ErConsumeRequest(action)
           /\ Live = er_runtime /\ Live' = er_runtime'
  <2> PICK action \in ActionInputs : ErConsumeRequest(action)
    BY <1>2
  <2>1. CountedOnce(er_runtime, er_runtime') /\ UNCHANGED checkpoint
    BY ErDecision DEF ErConsumeRequest, vars
  <2> QED
    BY <1>2, <2>1 DEF CountedOnce, LedgerMove
<1>3. CASE SameButFlag(Live, Live') /\ UNCHANGED <<active, checkpoint>>
  <2>1. /\ Live'.total_allowed = Live.total_allowed
        /\ Live'.total_rejected = Live.total_rejected
    BY <1>3, LiveFacts DEF SameButFlag, SameButWindow, QuotaRuntime
  <2> QED
    BY <1>3, <2>1 DEF LedgerMove
<1>4. CASE RevokeApiKey /\ Live' = Live
  BY <1>4 DEF RevokeApiKey, LedgerMove
<1> QED
  BY <1>1, <1>2, <1>3, <1>4, LiveStep

\* The two layers together implement the ledger: no commit, undelegation or
\* settlement loses, doubles or half-settles a decision.
THEOREM LiveLedgerImplemented == DelegatedSpec => ImplementsLiveLedger
<1>1. DelegatedInit => LiveLedger!Init
  BY DEF DelegatedInit, Init, Live, LiveLedger!Init, LiveLedger!Nothing,
         ZeroedRuntime, ZeroedCheckpoint
<1>2. DInv /\ [DelegatedNext]_delegatedVars
        => [LiveLedger!Next]_(LiveLedger!ledgerVars)
  <2>1. CASE UNCHANGED delegatedVars
    BY <2>1 DEF delegatedVars, vars, Live, LiveLedger!ledgerVars
  <2>2. ASSUME DInv, DelegatedNext
        PROVE  LiveLedger!Next \/ UNCHANGED LiveLedger!ledgerVars
    <3>1. LedgerMove(Live, checkpoint, Live', checkpoint')
      BY <2>2, LiveLedgerMove
    <3> QED
      BY <3>1 DEF LedgerMove, LiveLedger!Next, LiveLedger!Admit,
                  LiveLedger!Refuse, LiveLedger!Settle, LiveLedger!ledgerVars
  <2> QED
    BY <2>1, <2>2
<1> QED
  BY <1>1, <1>2, DelegatedInvariant, PTL
  DEF DelegatedSpec, ImplementsLiveLedger, LiveLedger!Spec

(***************************************************************************)
(* The undelegation arrives.  Until then nothing but its arrival touches   *)
(* what the ER is locked with.                                             *)
(***************************************************************************)
LEMMA LockHolds ==
  ASSUME DInv, er_locked, [DelegatedNext]_delegatedVars
  PROVE  Finalize \/ UNCHANGED <<er_locked, er_runtime>>
<1>1. owner = "delegation" /\ ~Writable
  BY DInvFacts DEF DInv, FlagMatchesOwner, Writable
<1>2. CASE UNCHANGED delegatedVars
  BY <1>2 DEF delegatedVars
<1>3. CASE Administration
  BY <1>3 DEF Administration, erVars
<1>4. CASE BaseInstruction \/ \E commit_frequency_ms \in {0, 1} :
             DelegateQuotaRuntime(commit_frequency_ms)
  BY <1>1, <1>4 DEF BaseInstruction, DelegateQuotaRuntime
<1>5. CASE \/ \E action \in ActionInputs : ErConsumeRequest(action)
           \/ CommitQuotaRuntime
           \/ CommitAndUndelegateQuotaRuntime
  BY <1>1, <1>5
  DEF ErConsumeRequest, CommitQuotaRuntime, CommitAndUndelegateQuotaRuntime
<1>6. CASE RefreshClone \/ ErTick
  BY <1>6 DEF RefreshClone, ErTick, erVars
<1>7. CASE \E commit \in commits : LandCommit(commit) \/ LoseCommit(commit)
  BY <1>7 DEF LandCommit, LoseCommit, erVars
<1> QED
  BY <1>2, <1>3, <1>4, <1>5, <1>6, <1>7 DEF DelegatedNext

\* The guard of FinalizeUndelegation, in a session.
FinalizeGuard ==
  owner = "delegation" /\ \E commit \in commits : commit.undelegate

\* An accepted undelegation brings back every decision, for any number of
\* commits late, lost or out of order.  That the guard of Finalize is all that
\* can stop it, which ENABLED says of the guard of any action that assigns
\* each variable once, is left to be seen from its definition.
THEOREM UndelegationReturns ==
  DelegatedSpec /\ [](FinalizeGuard => ENABLED <<Finalize>>_delegatedVars)
    => UndelegationDelivers
<1> SUFFICES ASSUME NEW n \in U64 \ {0}
             PROVE  DelegatedSpec
                      /\ [](FinalizeGuard => ENABLED <<Finalize>>_delegatedVars)
                    => ((er_locked /\ er_runtime.rolling_sequence = n)
                         ~> (owner = "program" /\ runtime.rolling_sequence >= n))
  BY DEF UndelegationDelivers
<1> DEFINE Locked == er_locked /\ er_runtime.rolling_sequence = n
           Back == owner = "program" /\ runtime.rolling_sequence >= n
<1>1. ASSUME DInv, Locked, Finalize PROVE Back'
  <2> PICK commit \in commits : FinalizeUndelegation(commit)
    BY <1>1 DEF Finalize
  <2>1. owner' = "program" /\ runtime' = er_runtime
    BY <1>1, FinalCopy
  <2>2. n >= n
    BY MaxU64Assumption DEF U64
  <2> QED
    BY <1>1, <2>1, <2>2
<1>2. DInv /\ Locked /\ [DelegatedNext]_delegatedVars => Locked' \/ Back'
  BY <1>1, LockHolds
<1>3. DInv /\ Locked /\ <<Finalize>>_delegatedVars => Back'
  BY <1>1
<1>4. DInv /\ Locked => FinalizeGuard
  BY DInvFacts DEF DInv, FlagMatchesOwner, FinalizeGuard
<1> QED
  BY <1>2, <1>3, <1>4, DelegatedInvariant, PTL DEF DelegatedSpec
=============================================================================
