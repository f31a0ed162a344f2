--------------------------- MODULE DelegatedRuntime ---------------------------
(***************************************************************************)
(* BaseRuntime with the MagicBlock lifecycle around it: the authority      *)
(* delegates the runtime account, a rollup validator (ER) answers the      *)
(* requests on a copy of its own, commits travel back to the base layer    *)
(* asynchronously, and an undelegation returns the account.                *)
(*                                                                         *)
(* What runs on which layer.  While the delegation program owns the base   *)
(* account, Anchor's owner check on Account<QuotaRuntime> fails every      *)
(* instruction of BaseRuntime that touches it; the rest of the             *)
(* administration goes on.  On the ER only the runtime is writable, so of  *)
(* the program's instructions consume_request, commit and                  *)
(* commit_and_undelegate can succeed there.  The validator, the delegation *)
(* program and the account cloning are outside the repository: their       *)
(* actions below are what its calls and its docs rely on.                  *)
(***************************************************************************)
EXTENDS BaseRuntime

VARIABLES
  owner,            \* who owns the base account: "program" or "delegation"
  er_runtime,       \* the ER's copy of the runtime, while a session lasts
  er_locked,        \* the ER takes no more writes: undelegation scheduled
  er_active,        \* the ER's clone of ApiKey.active ...
  er_policy_mask,   \* ... of Role.policy_mask ...
  er_quota_policy,  \* ... and of the QuotaPolicy, each as old as it may be
  er_clock,         \* Clock sysvar on the ER, not synchronised with `clock`
  commits           \* in flight to the base layer, in no order

cloneVars == <<er_active, er_policy_mask, er_quota_policy>>
erVars == <<er_runtime, er_locked, er_active, er_policy_mask, er_quota_policy>>
delegatedVars == <<vars, owner, er_runtime, er_locked, er_active,
                   er_policy_mask, er_quota_policy, er_clock, commits>>

Commit == [rt : QuotaRuntime, undelegate : BOOLEAN]

DelegatedTypeOK ==
  /\ TypeOK
  /\ owner \in {"program", "delegation"}
  /\ er_runtime \in QuotaRuntime
  /\ er_locked \in BOOLEAN
  /\ er_active \in BOOLEAN
  /\ er_policy_mask \in SUBSET ALL_PERMISSIONS
  /\ er_quota_policy \in QuotaPolicy
  /\ er_clock \in 1..MaxTime
  /\ commits \in SUBSET Commit

DelegatedInit ==
  /\ Init
  /\ owner = "program"
  /\ er_runtime = ZeroedRuntime
  /\ er_locked = FALSE
  /\ er_active = TRUE
  /\ er_policy_mask = {}
  /\ er_quota_policy = ZeroedPolicy
  /\ er_clock = 1
  /\ commits = {}

(***************************************************************************)
(* Base layer.                                                             *)
(***************************************************************************)

\* Instructions without the runtime account: no owner check stands in their
\* way, and the clones on the ER do not follow at once.
Administration ==
  /\ \/ \E mask \in MaskInputs : AttachPolicyToRole(mask)
     \/ RevokeApiKey
     \/ \E max_requests \in MaxRequestsInputs, window_seconds \in WindowInputs :
          CreateQuotaPolicy(max_requests, window_seconds)
     \/ Tick
  /\ UNCHANGED <<owner, erVars, er_clock, commits>>

\* No owner check on the account.
FaultyBaseUnowned ==
  /\ \/ InitializeQuotaRuntime
     \/ \E action \in ActionInputs : ConsumeRequest(action)
     \/ SettleRuntimeCheckpoint
  /\ UNCHANGED <<owner, erVars, er_clock, commits>>

\* Instructions with the runtime account: only while the program owns it.
BaseInstruction ==
  /\ owner = "program"
  /\ \/ InitializeQuotaRuntime
     \/ \E action \in ActionInputs : ConsumeRequest(action)
     \/ SettleRuntimeCheckpoint
  /\ UNCHANGED <<owner, erVars, er_clock, commits>>

\* The flag is not flushed before the account is handed over.
FaultyDelegateUnflushed(commit_frequency_ms) ==
  /\ owner = "program"
  /\ runtime.initialized
  /\ ~runtime.is_delegated
  /\ commit_frequency_ms > 0
  /\ owner' = "delegation"
  /\ er_runtime' = MarkedDelegated(runtime, commit_frequency_ms)
  /\ er_locked' = FALSE
  /\ er_active' = active
  /\ er_policy_mask' = policy_mask
  /\ er_quota_policy' = quota_policy
  /\ UNCHANGED <<vars, er_clock, commits>>

\* A session starts with the clones of the one before.
FaultyDelegateOldClones(commit_frequency_ms) ==
  /\ owner = "program"
  /\ runtime.initialized
  /\ ~runtime.is_delegated
  /\ commit_frequency_ms > 0
  /\ runtime' = MarkedDelegated(runtime, commit_frequency_ms)
  /\ owner' = "delegation"
  /\ er_runtime' = runtime'
  /\ er_locked' = FALSE
  /\ UNCHANGED <<clock, active, policy_mask, quota_policy, checkpoint,
                 settlement_count, cloneVars, er_clock, commits>>

\* The flag is written and flushed (exit) before the CPI hands the account
\* over, so both layers see it set.  The ER's clones start fresh.
DelegateQuotaRuntime(commit_frequency_ms) ==
  /\ owner = "program"
  /\ runtime.initialized
  /\ ~runtime.is_delegated
  /\ commit_frequency_ms > 0
  /\ runtime' = MarkedDelegated(runtime, commit_frequency_ms)
  /\ owner' = "delegation"
  /\ er_runtime' = runtime'
  /\ er_locked' = FALSE
  /\ er_active' = active
  /\ er_policy_mask' = policy_mask
  /\ er_quota_policy' = quota_policy
  /\ UNCHANGED <<clock, active, policy_mask, quota_policy, checkpoint,
                 settlement_count, er_clock, commits>>

(***************************************************************************)
(* Rollup.                                                                 *)
(***************************************************************************)
Writable == owner = "delegation" /\ ~er_locked

\* consume_request does not read is_delegated: the lock is all that stops it.
ErConsumeRequest(action) ==
  /\ Writable
  /\ Consume(er_runtime, er_active, er_policy_mask, er_quota_policy, action,
             er_clock, er_runtime')
  /\ UNCHANGED <<vars, owner, er_locked, cloneVars, er_clock, commits>>

\* By the authority, or by the validator every commit_frequency_ms.
CommitQuotaRuntime ==
  /\ Writable
  /\ er_runtime.is_delegated
  /\ commits' = commits \cup {[rt |-> er_runtime, undelegate |-> FALSE]}
  /\ UNCHANGED <<vars, owner, erVars, er_clock>>

\* The flag is flushed, the undelegation is never scheduled.
FaultyUndelegateUnscheduled ==
  /\ Writable
  /\ er_runtime.is_delegated
  /\ er_runtime' = MarkedUndelegated(er_runtime)
  /\ er_locked' = TRUE
  /\ UNCHANGED <<vars, owner, cloneVars, er_clock, commits>>

CommitAndUndelegateQuotaRuntime ==
  /\ Writable
  /\ er_runtime.is_delegated
  /\ er_runtime' = MarkedUndelegated(er_runtime)
  /\ er_locked' = TRUE
  /\ commits' = commits \cup {[rt |-> er_runtime', undelegate |-> TRUE]}
  /\ UNCHANGED <<vars, owner, cloneVars, er_clock>>

(***************************************************************************)
(* Platform.                                                               *)
(***************************************************************************)

\* Each account is cloned on its own: a request may meet a new role and an
\* old key.
RefreshClone ==
  /\ owner = "delegation"
  /\ \/ er_active' = active /\ UNCHANGED <<er_policy_mask, er_quota_policy>>
     \/ er_policy_mask' = policy_mask /\ UNCHANGED <<er_active, er_quota_policy>>
     \/ er_quota_policy' = quota_policy /\ UNCHANGED <<er_active, er_policy_mask>>
  /\ UNCHANGED <<vars, owner, er_runtime, er_locked, er_clock, commits>>

ErTick ==
  /\ er_clock < MaxTime
  /\ er_clock' = er_clock + 1
  /\ UNCHANGED <<vars, owner, erVars, commits>>

\* A commit overwrites the data of the base account, late or out of order.
LandCommit(commit) ==
  /\ ~commit.undelegate
  /\ runtime' = commit.rt
  /\ commits' = commits \ {commit}
  /\ UNCHANGED <<clock, active, policy_mask, quota_policy, checkpoint,
                 settlement_count, owner, erVars, er_clock>>

LoseCommit(commit) ==
  /\ ~commit.undelegate
  /\ commits' = commits \ {commit}
  /\ UNCHANGED <<vars, owner, erVars, er_clock>>

\* The final copy and the ownership arrive together, and close the delegation
\* record that commits still under way would need.  The ER forgets its copy.
FinalizeUndelegation(commit) ==
  /\ commit.undelegate
  /\ runtime' = commit.rt
  /\ owner' = "program"
  /\ commits' = {}
  /\ er_runtime' = ZeroedRuntime
  /\ er_locked' = FALSE
  /\ UNCHANGED <<clock, active, policy_mask, quota_policy, checkpoint,
                 settlement_count, cloneVars, er_clock>>

Finalize == \E commit \in commits : FinalizeUndelegation(commit)

DelegatedNext ==
  \/ Administration
  \/ BaseInstruction
  \/ \E commit_frequency_ms \in {0, 1} : DelegateQuotaRuntime(commit_frequency_ms)
  \/ \E action \in ActionInputs : ErConsumeRequest(action)
  \/ CommitQuotaRuntime
  \/ CommitAndUndelegateQuotaRuntime
  \/ RefreshClone
  \/ ErTick
  \/ \E commit \in commits : LandCommit(commit) \/ LoseCommit(commit)
  \/ Finalize

\* The only fairness: the platform completes an undelegation it accepted.
DelegatedSpec ==
  DelegatedInit /\ [][DelegatedNext]_delegatedVars /\ WF_delegatedVars(Finalize)

(***************************************************************************)
(* Properties.                                                             *)
(***************************************************************************)

\* The runtime that requests are answered on.
Live == IF owner = "delegation" THEN er_runtime ELSE runtime

\* The flag the program keeps and the ownership Solana keeps never disagree on
\* the base layer, whatever commits land: so settle_runtime_checkpoint's guard
\* and delegate_quota_runtime's mean what they say.  On the ER the flag falls
\* exactly when the lock does, and then one undelegation is under way, with
\* the final copy.
FlagMatchesOwner ==
  /\ runtime.is_delegated <=> owner = "delegation"
  /\ owner = "program" => commits = {} /\ ~er_locked
  /\ owner = "delegation" => (er_runtime.is_delegated <=> ~er_locked)
  /\ er_locked <=> \E commit \in commits : commit.undelegate
  /\ \A commit \in commits : commit.undelegate => commit.rt = er_runtime
  /\ \A commit \in commits : commit.rt.is_delegated <=> ~commit.undelegate

NotAhead(copy, rt) ==
  /\ copy.rolling_sequence <= rt.rolling_sequence
  /\ copy.total_allowed <= rt.total_allowed
  /\ copy.total_rejected <= rt.total_rejected
  /\ copy.last_settled_sequence = rt.last_settled_sequence
  /\ copy.last_settled_at = rt.last_settled_at

\* What the base layer shows or will be shown of a session is a past state of
\* the ER's copy, never one the ER has not been in: no commit can undo a
\* settlement or invent a decision.
CopiesNotAhead ==
  owner = "delegation" =>
    \A copy \in {runtime} \cup {commit.rt : commit \in commits} :
      NotAhead(copy, er_runtime) /\ EverySequenceCounted(copy)

\* On either layer the runtime in use is well formed against the checkpoint,
\* which only the base layer writes.
LiveWellFormed ==
  /\ AuditIsSuffix(Live)
  /\ EverySequenceCounted(Live)
  /\ Mirrors(Live, checkpoint)

\* Once the ER has seen the revocation (or no session is open) the key admits
\* nothing more, on any layer, in this session or a later one.  Until then the
\* ER may admit: revoke_api_key reaches it only with the next clone.
RevocationHolds ==
  [][~active /\ (owner = "delegation" => ~er_active) =>
       /\ ~active' /\ (owner' = "delegation" => ~er_active')
       /\ Live'.total_allowed = Live.total_allowed]_delegatedVars

\* Quota is not refunded by delegation, by commits, or by two clocks that
\* disagree: the window in use only moves forward.
LiveWindowNeverRefunds ==
  [][Live.initialized =>
       \/ Live'.current_window_started_at > Live.current_window_started_at
       \/ /\ Live'.current_window_started_at = Live.current_window_started_at
          /\ Live'.current_window_used >= Live.current_window_used]_delegatedVars

\* Neither layer, no commit and no undelegation loses, doubles or half-settles
\* a decision: the two-layer system implements the same ledger.
LiveLedger == INSTANCE AuditLedger WITH
  decided <- [admitted |-> Live.total_allowed,
              refused  |-> Live.total_rejected],
  settled <- [admitted |-> checkpoint.total_allowed,
              refused  |-> checkpoint.total_rejected]

ImplementsLiveLedger == LiveLedger!Spec

\* An undelegation that was accepted brings back the account with every
\* decision the ER had made, whatever commits were under way or lost.
UndelegationDelivers ==
  \A n \in U64 \ {0} :
    (er_locked /\ er_runtime.rolling_sequence = n)
      ~> (owner = "program" /\ runtime.rolling_sequence >= n)
=============================================================================
