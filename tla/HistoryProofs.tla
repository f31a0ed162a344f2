---------------------------- MODULE HistoryProofs ----------------------------
(***************************************************************************)
(* What the quota counters and the rolling audit say about the admissions  *)
(* that were really made, for every capacity, integer width, set of inputs *)
(* and time bound.                                                         *)
(***************************************************************************)
EXTENDS AdmissionHistory, BaseRuntimeProofs, FiniteSetTheorems,
        WellFoundedInduction

used   == runtime.current_window_used
opened == runtime.current_window_started_at

PolicyIsInput ==
  quota_policy.initialized =>
    /\ quota_policy.max_requests \in MaxRequestsInputs
    /\ quota_policy.window_seconds \in WindowInputs \ {0}

\* No admission before there is a runtime, nor one that the clock has not seen.
AdmissionsPast ==
  /\ admissions \in Seq(Timestamp)
  /\ ~runtime.initialized => admissions = << >>
  /\ \A i \in 1..Len(admissions) : admissions[i] <= clock
  /\ opened <= clock
  /\ used <= Len(admissions)

QuotaKept == runtime.initialized => used <= LargestQuota

\* The window before the present one took a quota at most: what is older than
\* that is a whole window older than the present one.
WindowsApart ==
  runtime.initialized =>
    \A i \in 1..Len(admissions) :
      i <= Len(admissions) - used - LargestQuota =>
        admissions[i] + ShortestWindow <= opened

\* Of two admissions two quotas apart the later is a whole window later.
AdmissionsApart ==
  runtime.initialized =>
    \A i, j \in 1..Len(admissions) :
      j >= i + 2 * LargestQuota => admissions[j] >= admissions[i] + ShortestWindow

HInv ==
  /\ IInv
  /\ PolicyIsInput
  /\ AdmissionsPast
  /\ CountersAgreeWithHistory
  /\ QuotaKept
  /\ WindowsApart
  /\ AdmissionsApart

(***************************************************************************)
(* The bounds the policies give.                                           *)
(***************************************************************************)
LEMMA LeastNatural ==
  ASSUME NEW T \in SUBSET Nat, T # {}
  PROVE  \E x \in T : \A y \in T : x <= y
<1>1. PICK x \in T : \A y \in T : ~(<<y, x>> \in OpToRel(<, Nat))
  BY NatLessThanWellFounded, WFMin
<1>2. \A y \in T : ~(y < x)
  BY <1>1 DEF OpToRel
<1> QED
  BY <1>2

LEMMA LargestQuotaBounds ==
  ASSUME NEW quota \in MaxRequestsInputs
  PROVE  LargestQuota \in Nat /\ quota <= LargestQuota
<1> DEFINE slack == {MaxU64 - q : q \in MaxRequestsInputs}
<1>1. \A q \in MaxRequestsInputs : q \in 0..MaxU64
  BY InputsAssumption DEF U64
<1>2. slack \in SUBSET Nat /\ slack # {}
  BY <1>1, MaxU64Assumption
<1>3. PICK least \in slack : \A other \in slack : least <= other
  BY <1>2, LeastNatural
<1>4. PICK most \in MaxRequestsInputs : least = MaxU64 - most
  OBVIOUS
<1>5. \A r \in MaxRequestsInputs : r <= most
  <2> SUFFICES ASSUME NEW r \in MaxRequestsInputs PROVE r <= most
    OBVIOUS
  <2>1. MaxU64 - most <= MaxU64 - r
    BY <1>3, <1>4
  <2> QED
    BY <1>1, <2>1, MaxU64Assumption
<1>6. /\ LargestQuota \in MaxRequestsInputs
      /\ \A r \in MaxRequestsInputs : r <= LargestQuota
  BY <1>5 DEF LargestQuota
<1> QED
  BY <1>1, <1>6

LEMMA ShortestWindowBounds ==
  ASSUME NEW window \in WindowInputs \ {0}
  PROVE  ShortestWindow \in Nat /\ ShortestWindow <= window
<1>1. WindowInputs \ {0} \in SUBSET Nat /\ WindowInputs \ {0} # {}
  BY InputsAssumption DEF Timestamp
<1>2. PICK w \in WindowInputs \ {0} : \A v \in WindowInputs \ {0} : w <= v
  BY <1>1, LeastNatural
<1>3. /\ ShortestWindow \in WindowInputs \ {0}
      /\ \A v \in WindowInputs \ {0} : ShortestWindow <= v
  BY <1>2 DEF ShortestWindow
<1> QED
  BY <1>1, <1>3

(***************************************************************************)
(* One decision, to the last counter.                                      *)
(***************************************************************************)
\* The window a request is decided in: the present one, or a new one after
\* the present one has ended.
DecidedIn(rt, policy, now, used0, opened0) ==
  \/ used0 = rt.current_window_used /\ opened0 = rt.current_window_started_at
  \/ /\ now >= WindowEnd(rt, policy)
     /\ used0 = 0 /\ opened0 = now

AdmittedIn(rt, rt2, policy, now) ==
  /\ rt2.total_allowed = rt.total_allowed + 1
  /\ rt2.last_reason = "Allowed"
  /\ \E used0 \in Nat : \E opened0 \in Int :
       /\ DecidedIn(rt, policy, now, used0, opened0)
       /\ rt2.current_window_used = used0 + 1
       /\ used0 < policy.max_requests
       /\ rt2.current_window_started_at = opened0

RefusedIn(rt, rt2, policy, now) ==
  /\ rt2.total_allowed = rt.total_allowed
  /\ rt2.last_reason # "Allowed"
  /\ \E used0 \in Nat : \E opened0 \in Int :
       /\ DecidedIn(rt, policy, now, used0, opened0)
       /\ rt2.current_window_used = used0
       /\ rt2.current_window_started_at = opened0

LEMMA DecisionEffect ==
  ASSUME NEW rt \in QuotaRuntime, NEW is_active \in BOOLEAN, NEW mask,
         NEW policy \in QuotaPolicy, NEW action, NEW now \in Timestamp, NEW rt2,
         Consume(rt, is_active, mask, policy, action, now, rt2)
  PROVE  AdmittedIn(rt, rt2, policy, now) \/ RefusedIn(rt, rt2, policy, now)
<1> DEFINE reset == ResetIfExpired(rt, policy, now)
<1>r. /\ reset \in QuotaRuntime
      /\ SameButWindow(rt, reset)
      /\ \/ /\ now >= WindowEnd(rt, policy)
            /\ reset.current_window_used = 0
            /\ reset.current_window_started_at = now
         \/ reset = rt
  BY ResetEffect
<1> HIDE DEF reset
<1>n. /\ rt.current_window_used \in Nat /\ rt.current_window_started_at \in Int
      /\ reset.current_window_used \in Nat
      /\ reset.current_window_started_at \in Int
  BY <1>r, MaxU64Assumption, MaxI64Assumption DEF QuotaRuntime, U64, Timestamp
<1>d. DecidedIn(rt, policy, now, reset.current_window_used,
                reset.current_window_started_at)
  BY <1>r DEF DecidedIn
<1>a. ASSUME NEW before \in QuotaRuntime, NEW reason \in DecisionReason,
             AppendRuntimeAudit(before, reason, now, rt2)
      PROVE  /\ rt2.last_reason = reason
             /\ rt2.current_window_used = before.current_window_used
             /\ rt2.current_window_started_at = before.current_window_started_at
             /\ rt2.total_allowed = IF reason = "Allowed" THEN before.total_allowed + 1
                                    ELSE before.total_allowed
  BY <1>a DEF AppendRuntimeAudit, QuotaRuntime
<1>1. ASSUME NEW reason \in DecisionReason \ {"Allowed"},
             AppendRuntimeAudit(rt, reason, now, rt2)
      PROVE  RefusedIn(rt, rt2, policy, now)
  BY <1>1, <1>a, <1>n DEF RefusedIn, DecidedIn
<1>2. CASE RejectOverQuota(rt, is_active, mask, policy, action, now, rt2)
  <2>1. AppendRuntimeAudit(reset, "QuotaExceeded", now, rt2)
    BY <1>2 DEF RejectOverQuota, reset
  <2> QED
    BY <1>a, <1>d, <1>n, <1>r, <2>1 DEF RefusedIn, SameButWindow, DecisionReason
<1>3. CASE AllowRequest(rt, is_active, mask, policy, action, now, rt2)
  <2> DEFINE counted == [reset EXCEPT !.current_window_used = @ + 1]
  <2>1. /\ reset.current_window_used < policy.max_requests
        /\ reset.current_window_used < MaxU64
        /\ AppendRuntimeAudit(counted, "Allowed", now, rt2)
    BY <1>3 DEF AllowRequest, reset
  <2>2. reset.current_window_used + 1 \in U64
    BY <1>n, <2>1, MaxU64Assumption DEF U64
  <2>3. /\ counted \in QuotaRuntime
        /\ counted.total_allowed = rt.total_allowed
        /\ counted.current_window_used = reset.current_window_used + 1
        /\ counted.current_window_started_at = reset.current_window_started_at
    BY <1>r, <2>2 DEF QuotaRuntime, SameButWindow
  <2> HIDE DEF counted
  <2> QED
    BY <1>a, <1>d, <1>n, <2>1, <2>3 DEF AdmittedIn, DecisionReason
<1>4. /\ "KeyRevoked" \in DecisionReason \ {"Allowed"}
      /\ "InvalidAction" \in DecisionReason \ {"Allowed"}
      /\ "Unauthorized" \in DecisionReason \ {"Allowed"}
  BY DEF DecisionReason
<1> QED
  BY <1>1, <1>2, <1>3, <1>4
  DEF Consume, RejectRevoked, RejectInvalidAction, RejectUnauthorized

(***************************************************************************)
(* The invariant, step by step.                                            *)
(***************************************************************************)
LEMMA InitHistory == HistoryInit => HInv
<1> SUFFICES ASSUME HistoryInit PROVE HInv
  OBVIOUS
<1>1. IInv
  BY InitInvariant DEF HistoryInit
<1>2. /\ admissions = << >> /\ Len(admissions) = 0
      /\ ~quota_policy.initialized /\ ~runtime.initialized
      /\ used = 0 /\ opened = 0 /\ runtime.total_allowed = 0 /\ clock = 1
  BY DEF HistoryInit, Init, ZeroedPolicy, ZeroedRuntime, used, opened
<1>3. CountersAgreeWithHistory /\ AdmissionsPast
  BY <1>2 DEF CountersAgreeWithHistory, AdmissionsPast, used, opened
<1> QED
  BY <1>1, <1>2, <1>3 DEF HInv, PolicyIsInput, QuotaKept, WindowsApart,
                          AdmissionsApart

\* The numbers a step computes with.
LEMMA HistoryTypes ==
  ASSUME HInv
  PROVE  /\ used \in Nat /\ opened \in Int /\ clock \in Timestamp /\ clock \in Int
         /\ runtime.total_allowed \in Int
         /\ admissions \in Seq(Timestamp) /\ Len(admissions) \in Nat
         /\ \A i \in 1..Len(admissions) : admissions[i] \in Int
         /\ runtime.initialized => /\ quota_policy.max_requests <= LargestQuota
                                   /\ quota_policy.max_requests \in Int
                                   /\ quota_policy.window_seconds \in Int
                                   /\ LargestQuota \in Nat \ {0}
                                   /\ ShortestWindow \in Nat
                                   /\ ShortestWindow <= quota_policy.window_seconds
<1>1. /\ used \in Nat /\ opened \in Int /\ clock \in Timestamp /\ clock \in Int
      /\ runtime.total_allowed \in Int
  BY TypedAccounts, MaxU64Assumption, MaxI64Assumption
  DEF HInv, QuotaRuntime, U64, Timestamp, used, opened
<1>2. /\ admissions \in Seq(Timestamp) /\ Len(admissions) \in Nat
      /\ \A i \in 1..Len(admissions) : admissions[i] \in Int
  <2>1. admissions \in Seq(Timestamp) /\ Len(admissions) \in Nat
    BY DEF HInv, AdmissionsPast
  <2>2. \A i \in 1..Len(admissions) : admissions[i] \in Timestamp
    BY <2>1
  <2> QED
    BY <2>1, <2>2, MaxI64Assumption DEF Timestamp
<1>3. ASSUME runtime.initialized
      PROVE  /\ quota_policy.max_requests \in MaxRequestsInputs
             /\ quota_policy.window_seconds \in WindowInputs \ {0}
             /\ quota_policy.max_requests > 0
             /\ quota_policy.max_requests \in Int
             /\ quota_policy.window_seconds \in Int
  <2>1. /\ quota_policy.max_requests \in MaxRequestsInputs
        /\ quota_policy.window_seconds \in WindowInputs \ {0}
        /\ quota_policy.max_requests > 0
    BY <1>3 DEF HInv, IInv, SetupOrder, PolicyIsInput, ValidQuotaConfig
  <2>2. /\ quota_policy.max_requests \in Int
        /\ quota_policy.window_seconds \in Int
    BY TypedAccounts, MaxU64Assumption, MaxI64Assumption
    DEF HInv, QuotaPolicy, U64, Timestamp
  <2> QED
    BY <2>1, <2>2
<1> QED
  BY <1>1, <1>2, <1>3, LargestQuotaBounds, ShortestWindowBounds

\* What a step leaves alone, if it decides nothing and moves no window.
LEMMA HistoryFrame ==
  ASSUME HInv, clock' \in Int, clock' >= clock, UNCHANGED <<used, opened, admissions>>,
         runtime'.total_allowed = runtime.total_allowed,
         runtime'.initialized = runtime.initialized
  PROVE  /\ AdmissionsPast' /\ CountersAgreeWithHistory' /\ QuotaKept'
         /\ WindowsApart' /\ AdmissionsApart'
<1>1. AdmissionsPast'
  BY HistoryTypes DEF HInv, AdmissionsPast
<1>2. CountersAgreeWithHistory'
  BY DEF HInv, CountersAgreeWithHistory, used, opened
<1>3. QuotaKept' /\ WindowsApart' /\ AdmissionsApart'
  BY DEF HInv, QuotaKept, WindowsApart, AdmissionsApart
<1> QED
  BY <1>1, <1>2, <1>3

\* A decision: the window it is made in, and the admission if it is one.
LEMMA HistoryDecision ==
  ASSUME HInv, runtime.initialized, runtime'.initialized, UNCHANGED clock,
         NEW used0 \in Nat, NEW opened0 \in Int,
         DecidedIn(runtime, quota_policy, clock, used0, opened0),
         opened' = opened0,
         \/ /\ runtime'.total_allowed = runtime.total_allowed
            /\ used' = used0 /\ admissions' = admissions
         \/ /\ runtime'.total_allowed = runtime.total_allowed + 1
            /\ used' = used0 + 1 /\ used0 < quota_policy.max_requests
            /\ admissions' = Append(admissions, clock)
  PROVE  /\ AdmissionsPast' /\ CountersAgreeWithHistory' /\ QuotaKept'
         /\ WindowsApart' /\ AdmissionsApart'
<1> DEFINE n == Len(admissions)
<1>t. /\ used \in Nat /\ opened \in Int /\ clock \in Timestamp /\ clock \in Int
      /\ runtime.total_allowed \in Int
      /\ admissions \in Seq(Timestamp) /\ n \in Nat
      /\ \A i \in 1..n : admissions[i] \in Int
      /\ quota_policy.max_requests <= LargestQuota /\ quota_policy.max_requests \in Int
      /\ quota_policy.window_seconds \in Int
      /\ LargestQuota \in Nat \ {0} /\ ShortestWindow \in Nat /\ ShortestWindow <= quota_policy.window_seconds
  BY HistoryTypes
<1>h. /\ runtime.total_allowed = n /\ used <= n /\ used <= LargestQuota
      /\ opened <= clock
      /\ \A i \in 1..n : admissions[i] <= clock
      /\ \A i \in 1..n : i > n - used => admissions[i] >= opened
      /\ \A i \in 1..n : admissions[i] > opened => i > n - used
      /\ \A i \in 1..n : i <= n - used - LargestQuota => admissions[i] + ShortestWindow <= opened
      /\ \A i, j \in 1..n : j >= i + 2 * LargestQuota => admissions[j] >= admissions[i] + ShortestWindow
  BY DEF HInv, AdmissionsPast, CountersAgreeWithHistory, QuotaKept, WindowsApart,
         AdmissionsApart, used, opened
<1> HIDE DEF n
\* The window decided in, before the admission is counted.
<1>d. /\ used0 <= n /\ used0 <= LargestQuota /\ opened0 <= clock
      /\ \A i \in 1..n : i > n - used0 => admissions[i] >= opened0
      /\ \A i \in 1..n : admissions[i] > opened0 => i > n - used0
      /\ \A i \in 1..n : i <= n - used0 - LargestQuota => admissions[i] + ShortestWindow <= opened0
  <2>1. CASE used0 = used /\ opened0 = opened
    BY <1>h, <2>1
  <2>2. CASE /\ clock >= opened + quota_policy.window_seconds
             /\ used0 = 0 /\ opened0 = clock
    <3>1. \A i \in 1..n : i <= n - LargestQuota => admissions[i] <= opened
      BY <1>h, <1>t
    <3>2. \A i \in 1..n : i <= n - LargestQuota => admissions[i] + ShortestWindow <= opened0
      BY <1>t, <2>2, <3>1
    <3> QED
      BY <1>h, <1>t, <2>2, <3>2
  <2> QED
    BY <2>1, <2>2 DEF DecidedIn, WindowEnd, used, opened
<1>1. CASE /\ runtime'.total_allowed = runtime.total_allowed
           /\ used' = used0 /\ admissions' = admissions
  <2>1. AdmissionsPast'
    BY <1>1, <1>d, <1>h, <1>t DEF AdmissionsPast, n
  <2>2. CountersAgreeWithHistory'
    BY <1>1, <1>d, <1>h DEF CountersAgreeWithHistory, used, opened, n
  <2>3. QuotaKept' /\ WindowsApart'
    BY <1>1, <1>d DEF QuotaKept, WindowsApart, n
  <2>4. AdmissionsApart'
    BY <1>1, <1>h DEF AdmissionsApart, n
  <2> QED
    BY <2>1, <2>2, <2>3, <2>4
<1>2. CASE /\ runtime'.total_allowed = runtime.total_allowed + 1
           /\ used' = used0 + 1 /\ used0 < quota_policy.max_requests
           /\ admissions' = Append(admissions, clock)
  <2>a. /\ admissions' \in Seq(Timestamp)
        /\ Len(admissions') = n + 1
        /\ \A i \in 1..n : admissions'[i] = admissions[i]
        /\ admissions'[n + 1] = clock
        /\ \A i \in 1..n + 1 : i \in 1..n \/ i = n + 1
    BY <1>2, <1>t DEF n
  <2>1. AdmissionsPast'
    <3>1. \A i \in 1..n + 1 : admissions'[i] <= clock
      BY <1>h, <1>t, <2>a
    <3>2. used' <= n + 1
      BY <1>2, <1>d, <1>t
    <3> QED
      BY <1>d, <2>a, <3>1, <3>2 DEF AdmissionsPast
  <2>2. CountersAgreeWithHistory'
    <3>1. \A i \in 1..n + 1 : i > n + 1 - used' => admissions'[i] >= opened'
      BY <1>2, <1>d, <1>t, <2>a
    <3>2. \A i \in 1..n + 1 : admissions'[i] > opened' => i > n + 1 - used'
      BY <1>2, <1>d, <1>t, <2>a
    <3>3. runtime'.total_allowed = Len(admissions')
      BY <1>2, <1>h, <2>a
    <3> QED
      BY <1>2, <1>t, <2>a, <3>1, <3>2, <3>3
      DEF CountersAgreeWithHistory, used, opened
  <2>3. QuotaKept'
    BY <1>2, <1>t DEF QuotaKept
  <2>4. \A i \in 1..n + 1 : i <= n + 1 - used' - LargestQuota => admissions'[i] + ShortestWindow <= opened'
    <3>1. \A i \in 1..n + 1 : i <= n + 1 - used' - LargestQuota => i \in 1..n /\ i <= n - used0 - LargestQuota
      BY <1>2, <1>t
    <3> QED
      BY <1>d, <2>a, <3>1
  <2>5. WindowsApart'
    BY <1>2, <1>t, <2>4, <2>a DEF WindowsApart
  <2>6. \A i, j \in 1..n + 1 : j >= i + 2 * LargestQuota => admissions'[j] >= admissions'[i] + ShortestWindow
    <3> SUFFICES ASSUME NEW i \in 1..n + 1, NEW j \in 1..n + 1, j >= i + 2 * LargestQuota
                 PROVE  admissions'[j] >= admissions'[i] + ShortestWindow
      OBVIOUS
    <3>1. i \in 1..n
      BY <1>t
    <3>2. CASE j \in 1..n
      BY <1>h, <2>a, <3>1, <3>2
    <3>3. CASE j = n + 1
      <4>1. i <= n - used0 - LargestQuota
        BY <1>2, <1>t, <3>3
      <4>2. admissions[i] + ShortestWindow <= opened0
        BY <1>d, <3>1, <4>1
      <4> QED
        BY <1>d, <1>t, <2>a, <3>1, <3>3, <4>2
    <3> QED
      BY <2>a, <3>2, <3>3
  <2>7. AdmissionsApart'
    BY <2>6, <2>a DEF AdmissionsApart
  <2> QED
    BY <2>1, <2>2, <2>3, <2>5, <2>7
<1> QED
  BY <1>1, <1>2

LEMMA HistoryStep == HInv /\ [HistoryNext]_historyVars => HInv'
<1> SUFFICES ASSUME HInv, [HistoryNext]_historyVars PROVE HInv'
  OBVIOUS
<1>i. IInv'
  BY StepInvariant DEF HInv, HistoryNext, historyVars
<1>t. /\ used \in Nat /\ opened \in Int /\ clock \in Int
      /\ runtime.total_allowed \in Int /\ admissions \in Seq(Timestamp)
  BY HistoryTypes
<1>k. /\ runtime \in QuotaRuntime /\ checkpoint \in AuditCheckpoint
      /\ quota_policy \in QuotaPolicy /\ active \in BOOLEAN
      /\ clock \in Timestamp
      /\ EverySequenceCounted(runtime)
  BY TypedAccounts DEF HInv
\* A step that leaves the runtime alone.
<1>a. ASSUME UNCHANGED runtime, UNCHANGED admissions, clock' \in {clock, clock + 1}
      PROVE  /\ AdmissionsPast' /\ CountersAgreeWithHistory' /\ QuotaKept'
             /\ WindowsApart' /\ AdmissionsApart'
  BY <1>a, <1>t, HistoryFrame DEF used, opened
<1>b. ASSUME HistoryNext, runtime'.total_allowed = runtime.total_allowed
      PROVE  UNCHANGED admissions
  BY <1>b, <1>t DEF HistoryNext
<1>c. ASSUME HistoryNext, runtime'.total_allowed = runtime.total_allowed + 1
      PROVE  admissions' = Append(admissions, clock)
  BY <1>c, <1>t DEF HistoryNext
<1>1. CASE UNCHANGED historyVars
  BY <1>1, <1>a, <1>i DEF historyVars, vars, HInv, PolicyIsInput
<1>2. ASSUME HistoryNext, NEW mask \in MaskInputs, AttachPolicyToRole(mask)
      PROVE  HInv'
  BY <1>2, <1>a, <1>b, <1>i DEF AttachPolicyToRole, HInv, PolicyIsInput
<1>3. ASSUME HistoryNext, RevokeApiKey PROVE HInv'
  BY <1>3, <1>a, <1>b, <1>i DEF RevokeApiKey, HInv, PolicyIsInput
<1>4. ASSUME HistoryNext, NEW max_requests \in MaxRequestsInputs,
             NEW window_seconds \in WindowInputs,
             CreateQuotaPolicy(max_requests, window_seconds)
      PROVE  HInv'
  <2>1. PolicyIsInput'
    BY <1>4 DEF CreateQuotaPolicy, ValidQuotaConfig, PolicyIsInput
  <2> QED
    BY <1>4, <1>a, <1>b, <1>i, <2>1 DEF CreateQuotaPolicy, HInv
<1>5. ASSUME HistoryNext, InitializeQuotaRuntime PROVE HInv'
  <2>1. /\ ~runtime.initialized /\ quota_policy.initialized
        /\ runtime' = FreshRuntime(clock) /\ UNCHANGED <<clock, quota_policy>>
    BY <1>5 DEF InitializeQuotaRuntime
  <2>2. /\ runtime'.total_allowed = 0 /\ used' = 0 /\ opened' = clock
        /\ runtime'.initialized
    BY <2>1 DEF FreshRuntime, ZeroedRuntime, used, opened
  <2>3. /\ runtime.total_allowed = 0 /\ admissions = << >>
    BY <2>1 DEF HInv, IInv, SetupOrder, ZeroedRuntime, AdmissionsPast
  <2>4. admissions' = << >> /\ Len(admissions') = 0
    BY <1>5, <1>b, <2>2, <2>3
  <2>5. PolicyIsInput'
    BY <2>1 DEF HInv, PolicyIsInput
  <2>6. quota_policy.max_requests \in MaxRequestsInputs
    BY <2>1 DEF HInv, PolicyIsInput
  <2>7. QuotaKept'
    BY <2>2, <2>6, LargestQuotaBounds DEF QuotaKept
  <2>8. AdmissionsPast' /\ CountersAgreeWithHistory'
    BY <1>t, <2>1, <2>2, <2>4
    DEF AdmissionsPast, CountersAgreeWithHistory, used, opened
  <2>9. WindowsApart' /\ AdmissionsApart'
    BY <2>4 DEF WindowsApart, AdmissionsApart
  <2> QED
    BY <1>i, <2>5, <2>7, <2>8, <2>9 DEF HInv
<1>6. ASSUME HistoryNext, NEW action \in ActionInputs, ConsumeRequest(action)
      PROVE  HInv'
  <2>1. /\ runtime.initialized /\ UNCHANGED <<clock, quota_policy>>
        /\ Consume(runtime, active, policy_mask, quota_policy, action, clock, runtime')
    BY <1>6 DEF ConsumeRequest
  <2>2. runtime'.initialized
    BY <1>k, <2>1, ConsumeEffect DEF CountedOnce
  <2>3. \/ AdmittedIn(runtime, runtime', quota_policy, clock)
        \/ RefusedIn(runtime, runtime', quota_policy, clock)
    BY <1>k, <2>1, DecisionEffect
  <2>4. /\ AdmissionsPast' /\ CountersAgreeWithHistory' /\ QuotaKept'
        /\ WindowsApart' /\ AdmissionsApart'
    <3>1. CASE AdmittedIn(runtime, runtime', quota_policy, clock)
      <4>1. PICK used0 \in Nat : \E opened0 \in Int :
              /\ DecidedIn(runtime, quota_policy, clock, used0, opened0)
              /\ runtime'.current_window_used = used0 + 1
              /\ used0 < quota_policy.max_requests
              /\ runtime'.current_window_started_at = opened0
        BY <3>1 DEF AdmittedIn
      <4>2. PICK opened0 \in Int :
              /\ DecidedIn(runtime, quota_policy, clock, used0, opened0)
              /\ used' = used0 + 1 /\ used0 < quota_policy.max_requests
              /\ opened' = opened0
        BY <4>1 DEF used, opened
      <4>3. /\ runtime'.total_allowed = runtime.total_allowed + 1
            /\ admissions' = Append(admissions, clock)
        BY <1>6, <1>c, <3>1 DEF AdmittedIn
      <4> QED
        BY <2>1, <2>2, <4>2, <4>3, HistoryDecision
    <3>2. CASE RefusedIn(runtime, runtime', quota_policy, clock)
      <4>1. PICK used0 \in Nat : \E opened0 \in Int :
              /\ DecidedIn(runtime, quota_policy, clock, used0, opened0)
              /\ runtime'.current_window_used = used0
              /\ runtime'.current_window_started_at = opened0
        BY <3>2 DEF RefusedIn
      <4>2. PICK opened0 \in Int :
              /\ DecidedIn(runtime, quota_policy, clock, used0, opened0)
              /\ used' = used0 /\ opened' = opened0
        BY <4>1 DEF used, opened
      <4>3. /\ runtime'.total_allowed = runtime.total_allowed
            /\ admissions' = admissions
        BY <1>6, <1>b, <3>2 DEF RefusedIn
      <4> QED
        BY <2>1, <2>2, <4>2, <4>3, HistoryDecision
    <3> QED
      BY <2>3, <3>1, <3>2
  <2>5. PolicyIsInput'
    BY <2>1 DEF HInv, PolicyIsInput
  <2> QED
    BY <1>i, <2>4, <2>5 DEF HInv
<1>7. ASSUME HistoryNext, SettleRuntimeCheckpoint PROVE HInv'
  <2>0. /\ runtime' = SettledRuntime(runtime, clock)
        /\ UNCHANGED <<clock, quota_policy>>
    BY <1>7 DEF SettleRuntimeCheckpoint
  <2>1. /\ runtime'.total_allowed = runtime.total_allowed
        /\ runtime'.initialized = runtime.initialized
        /\ UNCHANGED <<used, opened, clock, quota_policy>>
    BY <1>k, <2>0, SettleEffect DEF used, opened
  <2>2. UNCHANGED admissions
    BY <1>7, <1>b, <2>1
  <2>3. PolicyIsInput'
    BY <2>1 DEF HInv, PolicyIsInput
  <2> QED
    BY <1>i, <1>t, <2>1, <2>2, <2>3, HistoryFrame DEF HInv
<1>8. ASSUME HistoryNext, Tick PROVE HInv'
  BY <1>8, <1>a, <1>b, <1>i DEF Tick, HInv, PolicyIsInput
<1> QED
  BY <1>1, <1>2, <1>3, <1>4, <1>5, <1>6, <1>7, <1>8 DEF HistoryNext, Next

\* Any interval a window long begins at an admission; two quotas further on the
\* interval is over.
LEMMA ApartBounds == HInv => SlidingWindowBound
<1> SUFFICES ASSUME HInv, NEW i \in DOMAIN admissions
             PROVE  Cardinality({j \in DOMAIN admissions :
                      /\ admissions[j] >= admissions[i]
                      /\ admissions[j] < admissions[i] + ShortestWindow})
                      <= 2 * LargestQuota
  BY DEF SlidingWindowBound
<1> DEFINE T == {j \in DOMAIN admissions :
                   /\ admissions[j] >= admissions[i]
                   /\ admissions[j] < admissions[i] + ShortestWindow}
           Q == LargestQuota
<1>1. runtime.initialized /\ DOMAIN admissions = 1..Len(admissions)
  BY HistoryTypes DEF HInv, AdmissionsPast
<1>2. /\ Q \in Nat /\ ShortestWindow \in Nat /\ Len(admissions) \in Nat
      /\ \A j \in 1..Len(admissions) : admissions[j] \in Int
      /\ \A j, k \in 1..Len(admissions) :
           k >= j + 2 * Q => admissions[k] >= admissions[j] + ShortestWindow
  BY <1>1, HistoryTypes DEF HInv, AdmissionsApart
<1>3. CASE T = {}
  <2>1. Cardinality(T) = 0
    BY <1>3, FS_EmptySet
  <2> QED
    BY <1>2, <2>1
<1>4. CASE T # {}
  <2>0. T \in SUBSET Nat
    BY <1>1, <1>2
  <2>1. PICK first \in T : \A j \in T : first <= j
    BY <1>4, <2>0, LeastNatural
  <2> DEFINE last == first + 2 * Q - 1
  <2>2. first \in Nat /\ last \in Int /\ last - first + 1 = 2 * Q
    BY <1>2, <2>0, <2>1
  <2>3. T \in SUBSET (first..last)
    BY <1>1, <1>2, <2>1
  <2> HIDE DEF last, T
  <2>4. /\ IsFiniteSet(first..last)
        /\ Cardinality(first..last) = IF first > last THEN 0 ELSE last - first + 1
    BY <2>2, FS_Interval
  <2>5. Cardinality(T) <= Cardinality(first..last)
    BY <2>3, <2>4, FS_Subset
  <2>6. Cardinality(T) \in Nat
    BY <2>3, <2>4, FS_Subset, FS_CardinalityType
  <2>7. Cardinality(T) <= 2 * Q
    BY <1>2, <2>2, <2>4, <2>5, <2>6
  <2> QED
    BY <2>7 DEF T
<1> QED
  BY <1>3, <1>4

(***************************************************************************)
(* Theorems about the history.                                             *)
(***************************************************************************)

\* The inductive invariant of the accounts and their history.
THEOREM HistoryInvariant == HistorySpec => []HInv
  BY InitHistory, HistoryStep, PTL DEF HistorySpec

\* The accounts' counters are the admissions that were made.
THEOREM CountersCorrect == HistorySpec => []CountersAgreeWithHistory
<1>1. HInv => CountersAgreeWithHistory
  BY DEF HInv
<1> QED
  BY HistoryInvariant, <1>1, PTL

\* No interval a window long sees more than two quotas, whatever was done to
\* the policy.
THEOREM SlidingWindowCorrect == HistorySpec => []SlidingWindowBound
  BY HistoryInvariant, ApartBounds, PTL

(***************************************************************************)
(* What the rolling audit says about the totals.                           *)
(***************************************************************************)
LEMMA AllowedFinite ==
  ASSUME NEW audit \in Seq(RuntimeAuditRecord)
  PROVE  /\ AllowedIn(audit) \subseteq 1..Len(audit)
         /\ IsFiniteSet(AllowedIn(audit)) /\ Cardinality(AllowedIn(audit)) \in Nat
<1>1. AllowedIn(audit) \in SUBSET (1..Len(audit)) /\ Len(audit) \in Int
  BY DEF AllowedIn
<1>2. IsFiniteSet(1..Len(audit))
  BY <1>1, FS_Interval
<1>3. IsFiniteSet(AllowedIn(audit))
  BY <1>1, <1>2, FS_Subset
<1> QED
  BY <1>1, <1>3, FS_CardinalityType

\* The records kept count no more admissions than before, and one more if the
\* pushed one is; they count all of them as long as none is pushed out.
LEMMA AllowedPushed ==
  ASSUME NEW audit \in Seq(RuntimeAuditRecord), NEW record \in RuntimeAuditRecord,
         Len(audit) <= MAX_RUNTIME_AUDIT_ITEMS
  PROVE  LET before == Cardinality(AllowedIn(audit))
             after  == Cardinality(AllowedIn(AuditPushed(audit, record)))
             more   == IF record.reason = "Allowed" THEN before + 1 ELSE before
         IN  /\ after <= more
             /\ Len(audit) < MAX_RUNTIME_AUDIT_ITEMS => after = more
<1> DEFINE pushed == AuditPushed(audit, record)
           old == AllowedIn(audit)
           new == AllowedIn(pushed)
           kept == new \ {Len(pushed)}
<1>1. pushed \in Seq(RuntimeAuditRecord)
  BY AuditPushedType
<1>2. \/ /\ Len(audit) < MAX_RUNTIME_AUDIT_ITEMS
         /\ Len(pushed) = Len(audit) + 1
         /\ \A i \in 1..Len(audit) : pushed[i] = audit[i]
         /\ pushed[Len(pushed)] = record
      \/ /\ Len(audit) = MAX_RUNTIME_AUDIT_ITEMS
         /\ Len(pushed) = Len(audit)
         /\ \A i \in 1..Len(audit) - 1 : pushed[i] = audit[i + 1]
         /\ pushed[Len(pushed)] = record
  BY AuditPushedElements
<1>f. /\ IsFiniteSet(old) /\ Cardinality(old) \in Nat
      /\ IsFiniteSet(new) /\ Cardinality(new) \in Nat
  BY <1>1, AllowedFinite
<1>o. old = {i \in 1..Len(audit) : audit[i].reason = "Allowed"}
  <2>1. DOMAIN audit = 1..Len(audit)
    OBVIOUS
  <2> QED
    BY <2>1 DEF AllowedIn
<1>n. new = {i \in 1..Len(pushed) : pushed[i].reason = "Allowed"}
  <2> HIDE DEF pushed
  <2>1. DOMAIN pushed = 1..Len(pushed)
    BY <1>1
  <2> QED
    BY <2>1 DEF AllowedIn
<1> HIDE DEF pushed, old, new
<1>3. /\ IsFiniteSet(old) /\ Cardinality(old) \in Nat
      /\ IsFiniteSet(new) /\ Cardinality(new) \in Nat
      /\ old = {i \in 1..Len(audit) : audit[i].reason = "Allowed"}
      /\ new = {i \in 1..Len(pushed) : pushed[i].reason = "Allowed"}
  BY <1>f, <1>o, <1>n
<1>4. Len(audit) \in Nat /\ Len(pushed) \in Nat /\ Len(pushed) >= 1
  BY <1>1, <1>2, AuditCapAssumption
<1>5. Len(pushed) \in new <=> record.reason = "Allowed"
  BY <1>2, <1>3, <1>4
<1>6. /\ IsFiniteSet(kept)
      /\ Cardinality(kept) = IF Len(pushed) \in new THEN Cardinality(new) - 1
                             ELSE Cardinality(new)
  BY <1>3, FS_RemoveElement
<1>c. Cardinality(kept) \in Nat
  BY <1>6, FS_CardinalityType
<1>7. CASE Len(audit) < MAX_RUNTIME_AUDIT_ITEMS
  <2>1. /\ Len(pushed) = Len(audit) + 1
        /\ \A i \in 1..Len(audit) : pushed[i] = audit[i]
    BY <1>2, <1>7
  <2>2. kept = old
    BY <1>3, <1>4, <2>1
  <2> HIDE DEF kept
  <2>3. Cardinality(new) = IF record.reason = "Allowed" THEN Cardinality(old) + 1
                           ELSE Cardinality(old)
    BY <1>3, <1>5, <1>6, <1>c, <2>2
  <2> QED
    BY <1>3, <2>3 DEF pushed, old, new
<1>8. CASE Len(audit) = MAX_RUNTIME_AUDIT_ITEMS
  <2> DEFINE moved == [i \in kept |-> i + 1]
  <2>1. /\ Len(pushed) = Len(audit)
        /\ \A i \in 1..Len(audit) - 1 : pushed[i] = audit[i + 1]
    BY <1>2, <1>8, AuditCapAssumption
  <2>2. \A i \in kept : i \in Nat /\ i + 1 \in old
    BY <1>3, <1>4, <2>1
  <2>3. moved \in Injection(kept, old)
    BY <2>2 DEF Injection, IsInjective
  <2>4. Cardinality(kept) <= Cardinality(old)
    BY <1>3, <2>3, FS_Injection
  <2> HIDE DEF kept
  <2>5. Cardinality(new) <= IF record.reason = "Allowed" THEN Cardinality(old) + 1
                            ELSE Cardinality(old)
    BY <1>3, <1>5, <1>6, <1>c, <2>4
  <2>6. ~(Len(audit) < MAX_RUNTIME_AUDIT_ITEMS)
    BY <1>8, AuditCapAssumption
  <2> QED
    BY <2>5, <2>6 DEF pushed, old, new
<1> QED
  BY <1>4, <1>7, <1>8, AuditCapAssumption

LEMMA ExplainsStep ==
  IInv /\ AuditExplainsTotals /\ [Next]_vars => AuditExplainsTotals'
<1> SUFFICES ASSUME IInv, AuditExplainsTotals, [Next]_vars
             PROVE  AuditExplainsTotals'
  OBVIOUS
<1>k. /\ runtime \in QuotaRuntime /\ checkpoint \in AuditCheckpoint
      /\ quota_policy \in QuotaPolicy /\ active \in BOOLEAN
      /\ clock \in Timestamp
      /\ EverySequenceCounted(runtime)
  BY TypedAccounts
<1>0. ASSUME UNCHANGED <<runtime, checkpoint>> PROVE AuditExplainsTotals'
  BY <1>0 DEF AuditExplainsTotals
<1>e. AllowedIn(<< >>) = {} /\ Cardinality({}) = 0 /\ Len(<< >>) = 0
  BY FS_EmptySet DEF AllowedIn
<1>1. CASE InitializeQuotaRuntime
  <2>1. /\ runtime' = FreshRuntime(clock) /\ checkpoint = ZeroedCheckpoint
        /\ checkpoint' = FreshCheckpoint(checkpoint, clock)
    BY <1>1 DEF InitializeQuotaRuntime, IInv, SetupOrder
  <2>2. /\ runtime'.rolling_audit = << >> /\ runtime'.total_allowed = 0
        /\ checkpoint'.total_allowed = 0
    BY <2>1 DEF FreshRuntime, ZeroedRuntime, FreshCheckpoint, ZeroedCheckpoint
  <2>3. Cardinality(AllowedIn(runtime'.rolling_audit)) = 0
    BY <1>e, <2>2
  <2> QED
    BY <2>2, <2>3 DEF AuditExplainsTotals
<1>2. ASSUME NEW action \in ActionInputs, ConsumeRequest(action)
      PROVE  AuditExplainsTotals'
  <2> DEFINE audit == runtime.rolling_audit
             before == Cardinality(AllowedIn(audit))
             after == Cardinality(AllowedIn(runtime'.rolling_audit))
             admitted == runtime.total_allowed - checkpoint.total_allowed
  <2>1. /\ Consume(runtime, active, policy_mask, quota_policy, action, clock, runtime')
        /\ UNCHANGED checkpoint
    BY <1>2 DEF ConsumeRequest
  <2>2. /\ runtime' \in QuotaRuntime /\ CountedOnce(runtime, runtime')
    BY <1>k, <2>1, ConsumeEffect
  <2>3. PICK record \in RuntimeAuditRecord :
          /\ record.reason = runtime'.last_reason
          /\ runtime'.rolling_audit = AuditPushed(audit, record)
    BY <2>2 DEF CountedOnce
  <2>4. /\ runtime'.rolling_sequence = runtime.rolling_sequence + 1
        /\ runtime'.last_settled_sequence = runtime.last_settled_sequence
    BY <2>2 DEF CountedOnce
  <2>5. runtime'.total_allowed = IF record.reason = "Allowed"
                                 THEN runtime.total_allowed + 1
                                 ELSE runtime.total_allowed
    BY <1>k, <2>1, <2>3, DecisionEffect DEF AdmittedIn, RefusedIn
  <2>6. /\ audit \in Seq(RuntimeAuditRecord)
        /\ Len(audit) \in Nat /\ Len(audit) <= MAX_RUNTIME_AUDIT_ITEMS
        /\ runtime.rolling_sequence \in Int /\ runtime.last_settled_sequence \in Int
        /\ Len(audit) <= Unsettled(runtime)
    BY <1>k DEF QuotaRuntime, U64, IInv, AuditIsUnsettledSuffix, AuditIsSuffix
  <2>7. before <= admitted /\ (Len(audit) = Unsettled(runtime) => before = admitted)
    BY DEF AuditExplainsTotals
  <2>8. LET more == IF record.reason = "Allowed" THEN before + 1 ELSE before
        IN  /\ after <= more
            /\ Len(audit) < MAX_RUNTIME_AUDIT_ITEMS => after = more
    BY <2>3, <2>6, AllowedPushed
  <2>9. /\ before \in Nat /\ after \in Nat
    BY <2>2, <2>6, AllowedFinite DEF QuotaRuntime
  <2>10. admitted \in Int /\ runtime.total_allowed \in Int
         /\ checkpoint.total_allowed \in Int
    BY <1>k DEF QuotaRuntime, AuditCheckpoint, U64
  <2>11. Unsettled(runtime') = Unsettled(runtime) + 1
         /\ Unsettled(runtime) \in Int
    BY <2>4, <2>6 DEF Unsettled
  <2>12. \/ /\ Len(audit) < MAX_RUNTIME_AUDIT_ITEMS
            /\ Len(runtime'.rolling_audit) = Len(audit) + 1
         \/ /\ Len(audit) = MAX_RUNTIME_AUDIT_ITEMS
            /\ Len(runtime'.rolling_audit) = Len(audit)
    BY <2>3, <2>6, AuditPushedElements
  <2> HIDE DEF before, after
  <2>13. after <= runtime'.total_allowed - checkpoint.total_allowed
    BY <2>5, <2>7, <2>8, <2>9, <2>10
  <2>14. ASSUME Len(runtime'.rolling_audit) = Unsettled(runtime')
         PROVE  after = runtime'.total_allowed - checkpoint.total_allowed
    <3>1. Len(audit) = Unsettled(runtime) /\ Len(audit) < MAX_RUNTIME_AUDIT_ITEMS
      BY <2>6, <2>11, <2>12, <2>14
    <3> QED
      BY <2>5, <2>7, <2>8, <2>9, <2>10, <3>1
  <2> QED
    BY <2>1, <2>13, <2>14 DEF AuditExplainsTotals, after
<1>3. CASE SettleRuntimeCheckpoint
  <2>1. /\ runtime' = SettledRuntime(runtime, clock)
        /\ checkpoint' = SettledCheckpoint(checkpoint, runtime, clock)
    BY <1>3 DEF SettleRuntimeCheckpoint
  <2>2. /\ runtime'.rolling_audit = << >>
        /\ runtime'.total_allowed = runtime.total_allowed
        /\ checkpoint'.total_allowed = runtime.total_allowed
        /\ runtime.total_allowed \in Int
    BY <1>k, <2>1
    DEF SettledRuntime, SettledCheckpoint, QuotaRuntime, AuditCheckpoint, U64
  <2>3. Cardinality(AllowedIn(runtime'.rolling_audit)) = 0
    BY <1>e, <2>2
  <2> QED
    BY <2>2, <2>3 DEF AuditExplainsTotals
<1> QED
  BY <1>0, <1>1, <1>2, <1>3
  DEF Next, vars, AttachPolicyToRole, RevokeApiKey, CreateQuotaPolicy, Tick

\* The rolling audit accounts for the admissions made since the last settlement,
\* for all of them unless some record was pushed out.
THEOREM AuditExplained == Spec => []AuditExplainsTotals
<1>1. Init => AuditExplainsTotals
  BY FS_EmptySet
  DEF Init, AuditExplainsTotals, AllowedIn, ZeroedRuntime, ZeroedCheckpoint
<1> QED
  BY Invariant, ExplainsStep, <1>1, PTL DEF Spec
=============================================================================
