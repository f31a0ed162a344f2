------------------------------- MODULE Operator -------------------------------
(***************************************************************************)
(* An operator's terminal beside all that DelegatedRuntime lets happen:    *)
(* call-endpoint, view-audit and runtime-status of cli/gatekeeper.ts,      *)
(* scripts/runtime-health.ts and scripts/devnet-er-smoke.ts.  One step per *)
(* await; what the code does between two awaits belongs to the step before *)
(* the second.  Any await may throw, after its transaction took effect     *)
(* too (a confirmation that times out); main().catch then ends the run.    *)
(*                                                                         *)
(* At another terminal reconcile-runtime.ts is run, again and again.       *)
(*                                                                         *)
(* The commands that send one transaction and read nothing (delegate,      *)
(* commit, undelegate, settle, revoke, ...) are DelegatedNext's own        *)
(* actions here; CliControl has the accounts they are sent with.           *)
(***************************************************************************)
EXTENDS Reconcile

\* Anyone may send the action that the smoke script sends.
ASSUME SmokeActionAssumption == 0 \in ActionInputs

VARIABLES
  at,          \* the await the command is at
  router,      \* is a router configured (--magic-router, MAGIC_ROUTER_URL)
  use_router,  \* call-endpoint's useMagicRouter
  glance,      \* what the last fetch of the runtime left: see Glance
  settled,     \* settledSequence of the checkpoint fetched
  own,         \* history: this command's own decision
  begun_at     \* history: decisions made when its reads began

opVars == <<at, router, use_router, glance, settled, own, begun_at>>
operatorVars == <<reconcileVars, opVars>>

CallSteps    == {"call_fetch", "call_send", "call_report"}
InspectSteps == {"inspect_runtime", "inspect_checkpoint", "print"}
SmokeSteps   == {"ensure_control_plane", "attach_policy", "quota_policy",
                 "ensure_runtime", "initialize", "fetch", "delegate",
                 "consume", "commit", "undelegate", "settle"}

\* The part of a fetched runtime that is used after a later await.
Glance(rt) == [rolling_sequence |-> rt.rolling_sequence,
               is_delegated |-> rt.is_delegated,
               entries |-> Len(rt.rolling_audit)]
NoGlance   == Glance(ZeroedRuntime)
NoDecision == [sequence |-> 0, reason |-> "Allowed"]

OperatorTypeOK ==
  /\ ReconcileTypeOK
  /\ at \in CallSteps \cup InspectSteps \cup SmokeSteps
         \cup {"idle", "reconcile"}
  /\ router \in BOOLEAN
  /\ use_router \in BOOLEAN
  /\ glance \in [rolling_sequence : U64, is_delegated : BOOLEAN,
               entries : 0..MAX_RUNTIME_AUDIT_ITEMS]
  /\ settled \in U64
  /\ own \in [sequence : U64, reason : DecisionReason]
  /\ begun_at \in U64

OperatorInit ==
  /\ ReconcileInit
  /\ at \in {"idle", "reconcile"}
  /\ router = FALSE
  /\ use_router = FALSE
  /\ glance = NoGlance
  /\ settled = 0
  /\ own = NoDecision
  /\ begun_at = 0

\* smoke refuses to run without a router; the other commands do without.
Begin(first) ==
  /\ at = "idle"
  /\ at' = first
  /\ router' \in IF first = "ensure_control_plane" THEN {TRUE} ELSE BOOLEAN
  /\ begun_at' = Live.rolling_sequence
  /\ UNCHANGED <<delegatedVars, use_router, glance, settled, own>>

\* The command ends, or an await throws: nothing is kept.
Ends ==
  /\ at' = "idle"
  /\ router' = FALSE
  /\ use_router' = FALSE
  /\ glance' = NoGlance
  /\ settled' = 0
  /\ own' = NoDecision
  /\ begun_at' = 0
  /\ UNCHANGED delegatedVars

Throws == at \notin {"idle", "reconcile"} /\ Ends

\* fetchRuntimeAccount: the router first, base when it fails or is not there.
Fetched == IF router THEN RuntimeViews ELSE {runtime}

\* sendMagicTransaction goes to the ER or to base as the account really is.
ConsumedThrough(through_router, action) ==
  \/ /\ through_router
     /\ ErConsumeRequest(action)
  \/ /\ owner = "program"
     /\ ConsumeRequest(action)
     /\ UNCHANGED <<owner, erVars, er_clock, commits>>

Decided == [sequence |-> Live'.rolling_sequence, reason |-> Live'.last_reason]

(***************************************************************************)
(* call-endpoint.  The key is fetched first, for its role, which never     *)
(* changes.                                                                *)
(***************************************************************************)
CallFetch ==
  /\ at = "call_fetch"
  /\ \E view \in Fetched :
       /\ view.initialized
       /\ use_router' = (router /\ view.is_delegated)
  /\ at' = "call_send"
  /\ UNCHANGED <<delegatedVars, router, glance, settled, own, begun_at>>

CallSend(action) ==
  /\ at = "call_send"
  /\ ConsumedThrough(use_router, action)
  /\ own' = Decided
  /\ at' = "call_report"
  /\ UNCHANGED <<router, use_router, glance, settled, begun_at>>

\* The second fetch and what is printed from it: see CallReportsOwn.
CallReport ==
  /\ at = "call_report"
  /\ \E view \in Fetched : view.initialized
  /\ Ends

\* The oldest record of the audit is taken for the newest.
FaultyLatestRecord(rt) ==
  IF rt.rolling_audit = << >> THEN NoDecision
  ELSE [sequence |-> Head(rt.rolling_audit).sequence,
        reason |-> Head(rt.rolling_audit).reason]

\* updatedRuntime.rollingAudit.at(-1); none prints as a refusal that does not
\* set the exit code.
LatestRecord(rt) ==
  IF rt.rolling_audit = << >> THEN NoDecision
  ELSE LET last == rt.rolling_audit[Len(rt.rolling_audit)]
       IN  [sequence |-> last.sequence, reason |-> last.reason]

(***************************************************************************)
(* view-audit, runtime-status, runtime-health.ts, and the end of the smoke *)
(* script: the runtime is fetched, then the checkpoint from base.          *)
(***************************************************************************)
\* The checkpoint is fetched before the runtime.
FaultyInspect ==
  /\ \/ /\ at = "inspect_runtime"
        /\ checkpoint.initialized
        /\ settled' = checkpoint.settled_sequence
        /\ at' = "inspect_checkpoint"
        /\ UNCHANGED glance
     \/ /\ at = "inspect_checkpoint"
        /\ \E view \in Fetched : view.initialized /\ glance' = Glance(view)
        /\ at' = "print"
        /\ UNCHANGED settled
  /\ UNCHANGED <<delegatedVars, router, use_router, own, begun_at>>

Inspect ==
  /\ \/ /\ at = "inspect_runtime"
        /\ \E view \in Fetched : view.initialized /\ glance' = Glance(view)
        /\ at' = "inspect_checkpoint"
        /\ UNCHANGED settled
     \/ /\ at = "inspect_checkpoint"
        /\ checkpoint.initialized
        /\ settled' = checkpoint.settled_sequence
        /\ at' = "print"
        /\ UNCHANGED glance
  /\ UNCHANGED <<delegatedVars, router, use_router, own, begun_at>>

PrintReport == at = "print" /\ Ends

(***************************************************************************)
(* devnet-er-smoke.ts.  Gateway, organization, role and key exist in this  *)
(* model: each is found, or fetchMaybe takes a failed fetch for an absence *)
(* and the creation is refused.                                            *)
(***************************************************************************)
Goto(here, next) ==
  /\ at = here
  /\ at' = next
  /\ UNCHANGED <<router, use_router, settled, begun_at>>

FoundControlPlane ==
  /\ Goto("ensure_control_plane", "attach_policy")
  /\ UNCHANGED <<delegatedVars, glance, own>>

\* Sent on every run, whatever is there.
SmokeAttachPolicy ==
  /\ Goto("attach_policy", "quota_policy")
  /\ AttachPolicyToRole({0})
  /\ UNCHANGED <<owner, erVars, er_clock, commits, glance, own>>

SmokeQuotaPolicy(max_requests, window_seconds) ==
  /\ Goto("quota_policy", "ensure_runtime")
  /\ CreateQuotaPolicy(max_requests, window_seconds)
  /\ UNCHANGED <<owner, erVars, er_clock, commits, glance, own>>

\* fetchMaybe answers null for an account that is there, too.
SmokeFetchMaybe ==
  /\ \/ runtime.initialized /\ Goto("ensure_runtime", "fetch")
     \/ Goto("ensure_runtime", "initialize")
  /\ UNCHANGED <<delegatedVars, glance, own>>

SmokeInitialize ==
  /\ Goto("initialize", "fetch")
  /\ owner = "program"
  /\ InitializeQuotaRuntime
  /\ UNCHANGED <<owner, erVars, er_clock, commits, glance, own>>

SmokeFetch ==
  /\ \E view \in Fetched :
       /\ view.initialized
       /\ Goto("fetch", IF view.is_delegated THEN "consume" ELSE "delegate")
  /\ UNCHANGED <<delegatedVars, glance, own>>

SmokeDelegate ==
  /\ Goto("delegate", "consume")
  /\ DelegateQuotaRuntime(1)
  /\ UNCHANGED <<glance, own>>

SmokeConsume ==
  /\ Goto("consume", "commit")
  /\ ConsumedThrough(TRUE, 0)
  /\ own' = Decided
  /\ UNCHANGED glance

SmokeCommit ==
  /\ Goto("commit", "undelegate")
  /\ CommitQuotaRuntime
  /\ UNCHANGED <<glance, own>>

SmokeUndelegate ==
  /\ Goto("undelegate", "settle")
  /\ CommitAndUndelegateQuotaRuntime
  /\ UNCHANGED <<glance, own>>

\* The answer to the settlement is not awaited: refused or not, on it goes.
FaultySmokeSettle ==
  /\ Goto("settle", "inspect_runtime")
  /\ \/ owner = "program" /\ SettleRuntimeCheckpoint
     \/ UNCHANGED vars
  /\ UNCHANGED <<owner, erVars, er_clock, commits, glance, own>>

\* Sent as soon as the undelegation was accepted: refused unless the account
\* happens to be back.
SmokeSettle ==
  /\ Goto("settle", "inspect_runtime")
  /\ owner = "program"
  /\ SettleRuntimeCheckpoint
  /\ UNCHANGED <<owner, erVars, er_clock, commits, glance, own>>

Smoke ==
  \/ FoundControlPlane
  \/ SmokeAttachPolicy
  \/ \E max_requests \in MaxRequestsInputs, window_seconds \in WindowInputs :
       SmokeQuotaPolicy(max_requests, window_seconds)
  \/ SmokeFetchMaybe
  \/ SmokeInitialize
  \/ SmokeFetch
  \/ SmokeDelegate
  \/ SmokeConsume
  \/ SmokeCommit
  \/ SmokeUndelegate
  \/ SmokeSettle

Command ==
  \/ \E first \in {"call_fetch", "inspect_runtime", "ensure_control_plane"} :
       Begin(first)
  \/ CallFetch
  \/ \E action \in ActionInputs : CallSend(action)
  \/ CallReport
  \/ Inspect
  \/ PrintReport
  \/ Smoke
  \/ Throws

OperatorNext ==
  \/ Command /\ UNCHANGED scriptVars
  \/ /\ at = "reconcile"
     /\ \/ \E m \in ModeInputs : Start(m)
        \/ Script
        \/ Killed
     /\ UNCHANGED opVars
  \/ DelegatedNext /\ UNCHANGED <<scriptVars, opVars>>

OperatorSpec == OperatorInit /\ [][OperatorNext]_operatorVars

(***************************************************************************)
(* Properties.                                                             *)
(***************************************************************************)

\* What call-endpoint prints belongs together.  If the rolling_sequence printed
\* is the number that its own request got (which the command does not print: the
\* transaction's events have it), allowed and reason are its own decision (or
\* the audit was settled away meanwhile), whichever copy was fetched: no two
\* decisions ever share a number.  A request sent by base RPC is never hidden
\* by an older copy, although commits of a later session may land in between.
CallReportsOwn ==
  at = "call_report" =>
    \A view \in Fetched :
      /\ view.rolling_sequence = own.sequence =>
           LatestRecord(view) \in {own, NoDecision}
      /\ ~use_router => view.rolling_sequence >= own.sequence

\* Read side by side, the audit entries and the checkpoint that view-audit
\* prints leave no decision out, unless the buffer is full: runtime and
\* checkpoint are read at different times, maybe from different layers, and a
\* settlement may empty the audit in between.
NoGapInView ==
  at = "print" =>
    \/ glance.entries = MAX_RUNTIME_AUDIT_ITEMS
    \/ glance.rolling_sequence - glance.entries <= settled

\* Nothing left to do, says the status: then every decision made before the
\* command started is settled.
NoneMeansSettled ==
  at = "print" /\ RecommendedAction(glance, [settled_sequence |-> settled]) = "none"
    => settled >= begun_at

\* A smoke run that reaches its report has settled its own request, whatever
\* state its runtime was found in, though it settles without waiting for the
\* account to come back: an early settlement is refused, never recorded from
\* the copy that base still holds.
SmokeSettlesItsRequest ==
  own # NoDecision /\ at \in InspectSteps => checkpoint.settled_sequence >= own.sequence
=============================================================================
