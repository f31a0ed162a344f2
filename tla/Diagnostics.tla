----------------------------- MODULE Diagnostics -----------------------------
(***************************************************************************)
(* scripts/local-transport-doctor.ts and scripts/router-capability.ts,     *)
(* with the probes of scripts/router-diagnostics.ts and the command line   *)
(* of scripts/common.ts: one step per await.  A probe never throws; any    *)
(* other call to the base RPC may.                                         *)
(*                                                                         *)
(* The transfer that the doctor sends lands, on chain and confirmed, at    *)
(* any time after it was sent, the report's deadline or not, or never.     *)
(***************************************************************************)
EXTENDS Naturals, Sequences

CONSTANTS
  Deadline,   \* the 30 seconds the doctor waits, in units of its 1 s sleep
  MaxTokens   \* bound: the longest command line

ASSUME DeadlineAssumption == Deadline \in Nat \ {0}

VARIABLES
  script,    \* "doctor" or "capability"
  argv,      \* the command line
  router,    \* is a router endpoint configured
  at,        \* the await the script is at, or how it ended
  probed,    \* the probes that answered ok
  sent,      \* the transfer: "no", "in_flight", "in_time" or "late"
  elapsed,   \* time since the deadline was set; more than Deadline is the same
  slept_at,  \* when the last sleep began
  observed,  \* observedBalanceLamports > 0
  js_ok      \* jsTransfer.ok

diagVars == <<script, argv, router, at, probed, sent, elapsed, slept_at,
              observed, js_ok>>

(***************************************************************************)
(* common.ts parseArgs, and its use.                                       *)
(***************************************************************************)
Keys   == {"--strict", "--lamports"}
Words  == {"true", "0"}
Argvs  == UNION {[1..n -> Keys \cup Words] : n \in 0..MaxTokens}

\* The value of the flag at i: the next token, unless that is a flag or not there.
ValueAt(tokens, i) ==
  IF i < Len(tokens) /\ tokens[i + 1] \in Words THEN tokens[i + 1] ELSE "true"

NoFlags == [key \in {} |-> "true"]

\* flags[key] = value, after all that is in flags, and before it.
Assigned(flags, key, value) ==
  [other \in DOMAIN flags \cup {key} |-> IF other = key THEN value ELSE flags[other]]
AssignedBefore(flags, key, value) ==
  [other \in DOMAIN flags \cup {key} |->
     IF other \in DOMAIN flags THEN flags[other] ELSE value]

\* The loop takes the value of a flag along with the flag.
FlagsOf(tokens) ==
  LET from[i \in 1..(Len(tokens) + 2)] ==
        IF i > Len(tokens) THEN NoFlags
        ELSE IF tokens[i] \notin Keys THEN from[i + 1]
        ELSE AssignedBefore(
               IF i < Len(tokens) /\ tokens[i + 1] \in Words THEN from[i + 2]
               ELSE from[i + 1],
               tokens[i], ValueAt(tokens, i))
  IN  from[1]

\* A first token that is a flag is not even looked at.
FaultyParseArgs(tokens) ==
  IF tokens = << >> THEN NoFlags ELSE FlagsOf(Tail(tokens))

\* The first token is taken for a command; when it is a flag, it is put back.
ParseArgs(tokens) ==
  IF tokens = << >> THEN NoFlags
  ELSE IF Head(tokens) \in Keys
       THEN Assigned(FlagsOf(Tail(tokens)), Head(tokens), ValueAt(tokens, 1))
       ELSE FlagsOf(Tail(tokens))

Flags  == ParseArgs(argv)
Strict == "--strict" \in DOMAIN Flags /\ Flags["--strict"] = "true"

\* Number(flags.lamports ?? 1_000); "true" is no number.
Lamports ==
  IF "--lamports" \notin DOMAIN Flags THEN "some"
  ELSE IF Flags["--lamports"] = "0" THEN "none" ELSE "NaN"

RouterProbes == {"getIdentity", "getBlockhashForAccounts", "getDelegationStatus"}

DiagInit ==
  /\ script \in {"doctor", "capability"}
  /\ argv \in Argvs
  /\ router \in IF script = "doctor" THEN BOOLEAN ELSE {TRUE}
  /\ at = IF script = "doctor" THEN "getHealth" ELSE "getIdentity"
  /\ probed = {}
  /\ sent = "no"
  /\ elapsed = 0
  /\ slept_at = 0
  /\ observed = FALSE
  /\ js_ok = FALSE

(***************************************************************************)
(* The probes, one after the other.                                        *)
(***************************************************************************)
AfterProbe ==
  CASE at = "getHealth" -> "getLatestBlockhash"
    [] at = "getLatestBlockhash" -> IF router THEN "getIdentity" ELSE "send"
    [] at = "getIdentity" -> "getBlockhashForAccounts"
    [] at = "getBlockhashForAccounts" -> "getDelegationStatus"
    [] at = "getDelegationStatus" ->
         IF script = "doctor" THEN "send" ELSE "report"

Probe ==
  /\ at \in RouterProbes \cup {"getHealth", "getLatestBlockhash"}
  /\ probed' \in {probed, probed \cup {at}}
  /\ at' = AfterProbe
  /\ UNCHANGED <<script, argv, router, sent, elapsed, slept_at, observed, js_ok>>

CapabilityReport ==
  /\ at = "report" /\ script = "capability"
  /\ at' = IF Strict /\ ~(RouterProbes \subseteq probed) THEN "exit_1" ELSE "exit_0"
  /\ UNCHANGED <<script, argv, router, probed, sent, elapsed, slept_at,
                 observed, js_ok>>

(***************************************************************************)
(* probeJsTransfer.                                                        *)
(***************************************************************************)
\* What fails before the transaction is sent is in the report; an answer that
\* is lost, too, although the transfer may land.
Send ==
  /\ at = "send"
  /\ Lamports # "NaN"   \* the transfer cannot be built: see Throws
  /\ \/ at' = "report" /\ UNCHANGED sent
     \/ at' = "report" /\ sent' = "in_flight"
     \/ at' = "getBalance" /\ sent' = "in_flight"
  /\ UNCHANGED <<script, argv, router, probed, elapsed, slept_at, observed, js_ok>>

Landed == sent \in {"in_time", "late"}

\* What the recipient's balance must reach is compared with >=.
GetBalance ==
  /\ at = "getBalance"
  /\ IF Landed \/ Lamports = "none"
     THEN /\ at' = "getSignatureStatuses"
          /\ observed' = (Landed /\ Lamports = "some")
          /\ UNCHANGED slept_at
     ELSE /\ at' = "sleep"
          /\ slept_at' = elapsed
          /\ UNCHANGED observed
  /\ UNCHANGED <<script, argv, router, probed, sent, elapsed, js_ok>>

GetSignatureStatuses ==
  /\ at = "getSignatureStatuses"
  /\ js_ok' = TRUE
  /\ at' = "report"
  /\ UNCHANGED <<script, argv, router, probed, sent, elapsed, slept_at, observed>>

\* Polls once more after the deadline, and so on for ever.
FaultyWakeUp ==
  /\ at = "sleep"
  /\ elapsed > slept_at \/ elapsed = Deadline
  /\ at' = "getBalance"
  /\ UNCHANGED <<script, argv, router, probed, sent, elapsed, slept_at,
                 observed, js_ok>>

\* setTimeout, then the condition of the loop.
WakeUp ==
  /\ at = "sleep"
  /\ elapsed > slept_at \/ elapsed = Deadline
  /\ at' = IF elapsed < Deadline THEN "getBalance" ELSE "final_status"
  /\ UNCHANGED <<script, argv, router, probed, sent, elapsed, slept_at,
                 observed, js_ok>>

\* The balance reported is the one polled last.
FaultyFinalReads ==
  /\ \/ at = "final_status" /\ at' = "final_balance"
     \/ at = "final_balance" /\ at' = "report"
  /\ UNCHANGED <<script, argv, router, probed, sent, elapsed, slept_at,
                 observed, js_ok>>

FinalReads ==
  /\ \/ at = "final_status" /\ at' = "final_balance" /\ UNCHANGED observed
     \/ at = "final_balance" /\ at' = "report" /\ observed' = Landed
  /\ UNCHANGED <<script, argv, router, probed, sent, elapsed, slept_at, js_ok>>

\* That the transfer was sent is enough.
FaultyDoctorReport ==
  /\ at = "report" /\ script = "doctor"
  /\ at' = IF "getHealth" \in probed /\ sent # "no" THEN "exit_0" ELSE "exit_1"
  /\ UNCHANGED <<script, argv, router, probed, sent, elapsed, slept_at,
                 observed, js_ok>>

\* The report is printed, then judged: the router is not.
DoctorReport ==
  /\ at = "report" /\ script = "doctor"
  /\ at' = IF "getHealth" \in probed /\ js_ok THEN "exit_0" ELSE "exit_1"
  /\ UNCHANGED <<script, argv, router, probed, sent, elapsed, slept_at,
                 observed, js_ok>>

\* Nothing is reported.
Throws ==
  /\ \/ at = "send" /\ Lamports = "NaN"
     \/ at \in {"getBalance", "getSignatureStatuses", "final_status", "final_balance"}
  /\ at' = "threw"
  /\ UNCHANGED <<script, argv, router, probed, sent, elapsed, slept_at,
                 observed, js_ok>>

Land ==
  /\ sent = "in_flight"
  /\ sent' = IF elapsed < Deadline THEN "in_time" ELSE "late"
  /\ UNCHANGED <<script, argv, router, at, probed, elapsed, slept_at, observed, js_ok>>

Tick ==
  /\ at \in {"getBalance", "getSignatureStatuses", "sleep"}
  /\ elapsed < Deadline
  /\ elapsed' = elapsed + 1
  /\ UNCHANGED <<script, argv, router, at, probed, sent, slept_at, observed, js_ok>>

Step ==
  \/ Probe
  \/ CapabilityReport
  \/ Send
  \/ GetBalance
  \/ GetSignatureStatuses
  \/ WakeUp
  \/ FinalReads
  \/ DoctorReport
  \/ Throws

\* Calls answer, and time passes.
DiagSpec ==
  /\ DiagInit /\ [][Step \/ Land \/ Tick]_diagVars
  /\ WF_diagVars(Step)
  /\ WF_diagVars(Tick)

(***************************************************************************)
(* Properties.                                                             *)
(***************************************************************************)
Occurrences(key) == {i \in DOMAIN argv : argv[i] = key}

\* A flag may be given several times.  The value that counts is the one of the
\* line's first token, if that is the flag, and of the last occurrence otherwise:
\* "--strict 0 --strict true" is not strict, "--lamports 0 --strict 0 --strict" is.
Decides(key, i) ==
  /\ i \in Occurrences(key)
  /\ \/ i = 1
     \/ 1 \notin Occurrences(key) /\ \A j \in Occurrences(key) : j <= i

\* LOCAL_ER_RUNBOOK: the strict form "should succeed only if all three methods
\* are available".  On every command line on which the --strict that counts is
\* not given a value other than true, whatever else is on it and however often
\* --strict is, a success means that each of the three was answered when it was
\* probed.
StrictMeansComplete ==
  /\ script = "capability" /\ at = "exit_0"
  /\ \E i \in DOMAIN argv : Decides("--strict", i) /\ ValueAt(argv, i) = "true"
  => RouterProbes \subseteq probed

\* A doctor that is content saw a healthy base and the money of its transfer,
\* whenever the transfer landed and whatever was slow, unless it was told to
\* send nothing.
ContentMeansLanded ==
  script = "doctor" /\ at = "exit_0" /\ Lamports = "some"
    => Landed /\ observed /\ "getHealth" \in probed

\* "did not materialize on-chain within 30 seconds" may be said of a transfer
\* that did, between the last poll and the deadline; the balance in the same
\* report then shows it.
TimeoutShowsArrival ==
  /\ at \in {"report", "exit_1"} /\ script = "doctor"
  /\ elapsed = Deadline /\ ~js_ok /\ Lamports = "some" /\ sent = "in_time"
  => observed

\* Slow answers, sleeps that wake late and a transfer that never lands cannot
\* keep a diagnosis from ending.
DiagnosisEnds == <>(at \in {"exit_0", "exit_1", "threw"})
=============================================================================
