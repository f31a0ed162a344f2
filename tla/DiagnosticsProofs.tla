-------------------------- MODULE DiagnosticsProofs --------------------------
(***************************************************************************)
(* The doctor's verdict and the strict capability check, for every         *)
(* deadline and every command line.                                        *)
(***************************************************************************)
EXTENDS Diagnostics, WellFoundedInduction, TLAPS

Probes == RouterProbes \cup {"getHealth", "getLatestBlockhash"}

\* Time passes while the doctor waits, and the loop is left when it is over.
Timing ==
  /\ elapsed \in 0..Deadline
  /\ at \in Probes \cup {"send"} => elapsed = 0
  /\ at \in {"final_status", "final_balance"} => elapsed = Deadline

\* The loop is left by a balance that was seen.
BalanceSeen ==
  /\ (at = "getSignatureStatuses" \/ js_ok) /\ Lamports = "some" =>
       Landed /\ observed
  /\ js_ok => at \in {"report", "exit_0", "exit_1"}

\* A transfer that landed by the deadline is in a report made after it.
ArrivalSeen ==
  /\ at \in {"report", "exit_0", "exit_1"} /\ script = "doctor"
  /\ elapsed = Deadline /\ ~js_ok /\ Lamports = "some" /\ sent = "in_time"
  => observed

Verdict ==
  script = "doctor" /\ at = "exit_0" => "getHealth" \in probed /\ js_ok

DoctorInv == Timing /\ BalanceSeen /\ ArrivalSeen /\ Verdict

LEMMA InitDoctor == DiagInit => DoctorInv
<1> SUFFICES ASSUME DiagInit PROVE DoctorInv
  OBVIOUS
<1>1. /\ elapsed = 0 /\ ~js_ok /\ at \in {"getHealth", "getIdentity"}
  BY DEF DiagInit
<1> QED
  BY <1>1, DeadlineAssumption
  DEF DoctorInv, Timing, BalanceSeen, ArrivalSeen, Verdict

LEMMA DoctorStep == DoctorInv /\ [Step \/ Land \/ Tick]_diagVars => DoctorInv'
<1> SUFFICES ASSUME DoctorInv, [Step \/ Land \/ Tick]_diagVars PROVE DoctorInv'
  OBVIOUS
<1> USE DEF DoctorInv
<1>l. ASSUME UNCHANGED argv PROVE Lamports' = Lamports
  BY <1>l DEF Lamports, Flags
<1>d. Deadline \in Nat /\ Deadline > 0 /\ elapsed \in Nat
  BY DeadlineAssumption DEF Timing
<1>0. CASE UNCHANGED diagVars
  BY <1>0, <1>l DEF diagVars, Timing, BalanceSeen, ArrivalSeen, Verdict, Landed
<1>1. CASE Probe
  <2>1. /\ at \in Probes /\ elapsed = 0 /\ ~js_ok
        /\ UNCHANGED <<script, argv, sent, elapsed, observed, js_ok>>
    BY <1>1 DEF Probe, Probes, Timing, BalanceSeen, RouterProbes
  <2>2. at' \in Probes \cup {"send", "report"}
    BY <1>1 DEF Probe, AfterProbe, Probes, RouterProbes
  <2> QED
    BY <1>d, <2>1, <2>2
    DEF Timing, BalanceSeen, ArrivalSeen, Verdict, Probes, RouterProbes
<1>2. CASE CapabilityReport
  <2>1. /\ script' = "capability" /\ at = "report" /\ at' \in {"exit_0", "exit_1"}
        /\ UNCHANGED <<argv, sent, elapsed, observed, js_ok>>
    BY <1>2 DEF CapabilityReport
  <2> QED
    BY <1>l, <2>1
    DEF Timing, BalanceSeen, ArrivalSeen, Verdict, Probes, RouterProbes, Landed
<1>3. CASE Send
  <2>1. /\ at = "send" /\ elapsed = 0 /\ ~js_ok /\ at' \in {"report", "getBalance"}
        /\ UNCHANGED <<script, argv, elapsed, observed, js_ok>>
    BY <1>3 DEF Send, Timing, BalanceSeen
  <2> QED
    BY <1>d, <2>1
    DEF Timing, BalanceSeen, ArrivalSeen, Verdict, Probes, RouterProbes
<1>4. CASE GetBalance
  <2>1. /\ at = "getBalance" /\ ~js_ok
        /\ UNCHANGED <<script, argv, sent, elapsed, js_ok>>
        /\ at' \in {"getSignatureStatuses", "sleep"}
        /\ at' = "getSignatureStatuses" =>
             /\ Landed \/ Lamports = "none"
             /\ observed' = (Landed /\ Lamports = "some")
    BY <1>4 DEF GetBalance, BalanceSeen
  <2>2. at' = "getSignatureStatuses" /\ Lamports' = "some" => Landed' /\ observed'
    BY <1>l, <2>1 DEF Landed
  <2> QED
    BY <2>1, <2>2 DEF Timing, BalanceSeen, ArrivalSeen, Verdict, Probes, RouterProbes
<1>5. CASE GetSignatureStatuses
  <2>1. /\ at = "getSignatureStatuses" /\ js_ok' /\ at' = "report"
        /\ UNCHANGED <<script, argv, sent, elapsed, observed>>
    BY <1>5 DEF GetSignatureStatuses
  <2> QED
    BY <1>l, <2>1
    DEF Timing, BalanceSeen, ArrivalSeen, Verdict, Probes, RouterProbes, Landed
<1>6. CASE WakeUp
  <2>1. /\ at = "sleep" /\ ~js_ok
        /\ at' \in {"getBalance", "final_status"}
        /\ at' = "final_status" => elapsed = Deadline
        /\ UNCHANGED <<script, argv, sent, elapsed, observed, js_ok>>
    BY <1>6, <1>d DEF WakeUp, Timing, BalanceSeen
  <2> QED
    BY <2>1 DEF Timing, BalanceSeen, ArrivalSeen, Verdict, Probes, RouterProbes
<1>7. CASE FinalReads
  <2>1. /\ at \in {"final_status", "final_balance"} /\ ~js_ok /\ elapsed = Deadline
        /\ \/ at' = "final_balance"
           \/ at' = "report" /\ observed' = Landed
        /\ UNCHANGED <<script, argv, sent, elapsed, js_ok>>
    BY <1>7 DEF FinalReads, Timing, BalanceSeen
  <2> QED
    BY <2>1
    DEF Timing, BalanceSeen, ArrivalSeen, Verdict, Probes, RouterProbes, Landed
<1>8. CASE DoctorReport
  <2>1. /\ at = "report" /\ at' \in {"exit_0", "exit_1"}
        /\ at' = "exit_0" => "getHealth" \in probed' /\ js_ok'
        /\ UNCHANGED <<script, argv, sent, elapsed, observed, js_ok>>
    BY <1>8 DEF DoctorReport
  <2> QED
    BY <1>l, <2>1
    DEF Timing, BalanceSeen, ArrivalSeen, Verdict, Probes, RouterProbes, Landed
<1>9. CASE Throws
  <2>1. /\ at \notin {"report", "exit_0", "exit_1"} /\ at' = "threw"
        /\ UNCHANGED <<elapsed, js_ok>>
    BY <1>9 DEF Throws
  <2> QED
    BY <2>1 DEF Timing, BalanceSeen, ArrivalSeen, Verdict, Probes, RouterProbes
<1>10. CASE Land
  <2>1. /\ sent = "in_flight" /\ ~Landed
        /\ sent' = IF elapsed < Deadline THEN "in_time" ELSE "late"
        /\ UNCHANGED <<script, argv, at, probed, elapsed, observed, js_ok>>
    BY <1>10 DEF Land, Landed
  <2>2. ArrivalSeen'
    BY <1>d, <2>1 DEF ArrivalSeen
  <2>3. BalanceSeen'
    BY <1>l, <2>1 DEF BalanceSeen
  <2> QED
    BY <2>1, <2>2, <2>3 DEF Timing, Verdict
<1>11. CASE Tick
  <2>1. /\ at \in {"getBalance", "getSignatureStatuses", "sleep"}
        /\ elapsed < Deadline /\ elapsed' = elapsed + 1
        /\ UNCHANGED <<script, argv, at, sent, observed, js_ok>>
    BY <1>11 DEF Tick
  <2>2. Timing'
    BY <1>d, <2>1 DEF Timing, Probes, RouterProbes
  <2> QED
    BY <1>l, <2>1, <2>2 DEF BalanceSeen, ArrivalSeen, Verdict, Landed
<1> QED
  BY <1>0, <1>1, <1>2, <1>3, <1>4, <1>5, <1>6, <1>7, <1>8, <1>9, <1>10, <1>11
  DEF Step

\* What the doctor knows at each of its awaits.
THEOREM DoctorInvariant == DiagSpec => []DoctorInv
  BY InitDoctor, DoctorStep, PTL DEF DiagSpec

\* A doctor that is content saw a healthy base and the transfer's money.
THEOREM ContentCorrect == DiagSpec => []ContentMeansLanded
<1>1. DoctorInv => ContentMeansLanded
  BY DEF DoctorInv, Verdict, BalanceSeen, ContentMeansLanded
<1> QED
  BY DoctorInvariant, <1>1, PTL

\* A report that a transfer did not materialize in time shows it if it did.
THEOREM TimeoutCorrect == DiagSpec => []TimeoutShowsArrival
<1>1. DoctorInv => TimeoutShowsArrival
  BY DEF DoctorInv, ArrivalSeen, TimeoutShowsArrival
<1> QED
  BY DoctorInvariant, <1>1, PTL

(***************************************************************************)
(* The command line.  That the loop of parseArgs can be followed to its    *)
(* end, and what it then holds, is proved by a least counterexample.       *)
(***************************************************************************)
LEMMA LeastNatural ==
  ASSUME NEW T \in SUBSET Nat, T # {}
  PROVE  \E x \in T : \A y \in T : x <= y
<1>1. PICK x \in T : \A y \in T : ~(<<y, x>> \in OpToRel(<, Nat))
  BY NatLessThanWellFounded, WFMin
<1>2. \A y \in T : ~(y < x)
  BY <1>1 DEF OpToRel
<1> QED
  BY <1>2

\* What the loop assigns from token i on, given what it does from later ones.
Scanned(tokens, from, i) ==
  IF i > Len(tokens) THEN NoFlags
  ELSE IF tokens[i] \notin Keys THEN from[i + 1]
  ELSE AssignedBefore(
         IF i < Len(tokens) /\ tokens[i + 1] \in Words THEN from[i + 2]
         ELSE from[i + 1],
         tokens[i], ValueAt(tokens, i))

Scan(tokens) ==
  CHOOSE from : from = [i \in 1..(Len(tokens) + 2) |-> Scanned(tokens, from, i)]

\* The loop from token k on.
ScansFrom(tokens, from, k) ==
  from = [i \in k..(Len(tokens) + 2) |-> Scanned(tokens, from, i)]

LEMMA ScanExists ==
  ASSUME NEW tokens \in Seq(Keys \cup Words)
  PROVE  \E from : ScansFrom(tokens, from, 1)
<1> DEFINE last == Len(tokens) + 2
           missing == {n \in 0..last - 1 : ~\E from : ScansFrom(tokens, from, last - n)}
<1>1. last \in Nat /\ last >= 2 /\ Len(tokens) \in Nat
  OBVIOUS
<1>2. 0 \notin missing
  <2>1. last > Len(tokens)
    BY <1>1
  <2>2. [i \in {last} |-> NoFlags] = [i \in last..last |-> NoFlags]
    BY <1>1
  <2>3. ScansFrom(tokens, [i \in last..last |-> NoFlags], last)
    BY <1>1 DEF ScansFrom, Scanned
  <2>4. last - 0 = last
    BY <1>1
  <2> QED
    BY <2>3, <2>4
<1>3. ASSUME NEW n \in 1..last - 1, n - 1 \notin missing
      PROVE  n \notin missing
  <2> DEFINE k == last - n
  <2>1. /\ k \in 1..last - 1 /\ last - (n - 1) = k + 1 /\ n - 1 \in 0..last - 1
    BY <1>1
  <2>2. PICK from : ScansFrom(tokens, from, k + 1)
    BY <1>3, <2>1
  <2> HIDE DEF k, last
  <2> DEFINE longer == [i \in k..last |-> IF i = k THEN Scanned(tokens, from, k)
                                          ELSE from[i]]
  <2>3. ASSUME NEW i \in k..last
        PROVE  longer[i] = Scanned(tokens, longer, i)
    <3>1. Scanned(tokens, longer, i) = Scanned(tokens, from, i)
      <4>1. CASE i > Len(tokens)
        BY <4>1 DEF Scanned
      <4>2. CASE i <= Len(tokens)
        <5>1. /\ i + 1 \in k..last /\ i + 2 \in k..last /\ i + 1 # k /\ i + 2 # k
          BY <1>1, <2>1, <4>2 DEF last
        <5>2. longer[i + 1] = from[i + 1] /\ longer[i + 2] = from[i + 2]
          BY <5>1
        <5> HIDE DEF longer
        <5> QED
          BY <5>2 DEF Scanned
      <4> QED
        BY <1>1, <2>1, <4>1, <4>2
    <3>2. i # k => from[i] = Scanned(tokens, from, i)
      <4>1. i # k => i \in (k + 1)..last
        BY <1>1, <2>1
      <4>2. from = [j \in (k + 1)..last |-> Scanned(tokens, from, j)]
        BY <2>2 DEF ScansFrom, last
      <4> QED
        BY <4>1, <4>2
    <3> QED
      BY <3>1, <3>2
  <2>4. ScansFrom(tokens, longer, k)
    <3>1. longer = [i \in k..last |-> longer[i]]
      OBVIOUS
    <3>2. longer = [i \in k..last |-> Scanned(tokens, longer, i)]
      <4> HIDE DEF longer
      <4> QED
        BY <2>3, <3>1
    <3> QED
      BY <3>2 DEF ScansFrom, last
  <2> QED
    BY <2>4 DEF k, last
<1>4. missing = {}
  <2> SUFFICES ASSUME missing # {} PROVE FALSE
    OBVIOUS
  <2>1. PICK n \in missing : \A m \in missing : n <= m
    <3>1. missing \in SUBSET Nat
      BY <1>1
    <3> HIDE DEF missing
    <3> QED
      BY <3>1, LeastNatural
  <2>2. n \in 0..last - 1 /\ n # 0
    BY <1>2, <2>1
  <2>3. n \in 1..last - 1 /\ n - 1 \notin missing
    <3>1. n \in 1..last - 1 /\ ~(n <= n - 1)
      BY <1>1, <2>2
    <3> HIDE DEF missing
    <3> QED
      BY <2>1, <3>1
  <2> QED
    BY <1>3, <2>1, <2>3
<1>5. last - 1 \in 0..last - 1 /\ last - (last - 1) = 1
  BY <1>1
<1> QED
  BY <1>4, <1>5

LEMMA FlagsAreScanned ==
  ASSUME NEW tokens \in Seq(Keys \cup Words)
  PROVE  /\ FlagsOf(tokens) = Scan(tokens)[1]
         /\ \A i \in 1..(Len(tokens) + 2) :
              Scan(tokens)[i] = Scanned(tokens, Scan(tokens), i)
<1>1. FlagsOf(tokens) = Scan(tokens)[1]
  BY DEF FlagsOf, Scan, Scanned
<1>2. Scan(tokens) = [i \in 1..(Len(tokens) + 2) |-> Scanned(tokens, Scan(tokens), i)]
  BY ScanExists DEF ScansFrom, Scan
<1> QED
  BY <1>1, <1>2

\* The last of the tokens from k on that is this key, if there is one.
LastFrom(tokens, key, k, i) ==
  /\ i \in k..Len(tokens) /\ tokens[i] = key
  /\ \A j \in i + 1..Len(tokens) : tokens[j] # key

\* flags has a key's last value, and none of a key that is not there.
LastWins(tokens, flags, key, k) ==
  /\ \A i \in k..Len(tokens) : LastFrom(tokens, key, k, i) =>
       key \in DOMAIN flags /\ flags[key] = ValueAt(tokens, i)
  /\ (\A i \in k..Len(tokens) : tokens[i] # key) => key \notin DOMAIN flags

\* A token that is no key, a value say, can be passed over.
LEMMA OtherToken ==
  ASSUME NEW tokens \in Seq(Keys \cup Words), NEW key, NEW flags,
         NEW k \in 1..Len(tokens), tokens[k] # key,
         LastWins(tokens, flags, key, k + 1)
  PROVE  LastWins(tokens, flags, key, k)
<1>1. \A i \in k..Len(tokens) : i = k \/ i \in k + 1..Len(tokens)
  OBVIOUS
<1> QED
  BY <1>1 DEF LastWins, LastFrom

\* An assignment before those of the later tokens.
LEMMA KeyToken ==
  ASSUME NEW tokens \in Seq(Keys \cup Words), NEW key, NEW flags,
         NEW k \in 1..Len(tokens), tokens[k] = key,
         LastWins(tokens, flags, key, k + 1)
  PROVE  LastWins(tokens, AssignedBefore(flags, key, ValueAt(tokens, k)), key, k)
<1> DEFINE more == AssignedBefore(flags, key, ValueAt(tokens, k))
<1>1. /\ key \in DOMAIN more
      /\ key \in DOMAIN flags => more[key] = flags[key]
      /\ key \notin DOMAIN flags => more[key] = ValueAt(tokens, k)
  BY DEF AssignedBefore
<1>2. k \in k..Len(tokens)
  OBVIOUS
<1> HIDE DEF more
<1>3. ASSUME NEW i \in k..Len(tokens), LastFrom(tokens, key, k, i)
      PROVE  more[key] = ValueAt(tokens, i)
  <2>1. CASE i = k
    <3>1. key \notin DOMAIN flags
      BY <1>3, <2>1 DEF LastWins, LastFrom
    <3> QED
      BY <1>1, <2>1, <3>1
  <2>2. CASE i \in k + 1..Len(tokens)
    <3>1. LastFrom(tokens, key, k + 1, i)
      BY <1>3, <2>2 DEF LastFrom
    <3> QED
      BY <1>1, <2>2, <3>1 DEF LastWins
  <2> QED
    BY <2>1, <2>2
<1> QED
  BY <1>1, <1>2, <1>3 DEF LastWins, more

LEMMA OtherKey ==
  ASSUME NEW tokens, NEW key, NEW other, NEW value, NEW flags, NEW k,
         key # other, LastWins(tokens, flags, key, k)
  PROVE  LastWins(tokens, AssignedBefore(flags, other, value), key, k)
<1>1. LET more == AssignedBefore(flags, other, value)
      IN  /\ key \in DOMAIN more <=> key \in DOMAIN flags
          /\ key \in DOMAIN flags => more[key] = flags[key]
  BY DEF AssignedBefore
<1> QED
  BY <1>1 DEF LastWins

\* The flag's last value is what counts, wherever it stands and whatever
\* stands between: the loop never takes a flag for a value.
THEOREM LastFlagWins ==
  ASSUME NEW tokens \in Seq(Keys \cup Words), NEW key \in Keys
  PROVE  LastWins(tokens, FlagsOf(tokens), key, 1)
<1> DEFINE last == Len(tokens) + 2
           scan == Scan(tokens)
           wrong == {n \in 0..last - 1 : ~LastWins(tokens, scan[last - n], key, last - n)}
<1>1. /\ last \in Nat /\ last >= 2 /\ Len(tokens) \in Nat
      /\ last = Len(tokens) + 2
      /\ \A i \in 1..Len(tokens) : tokens[i] \in Keys \cup Words
  OBVIOUS
<1>2. \A i \in 1..last : scan[i] = Scanned(tokens, scan, i)
  BY FlagsAreScanned
<1> HIDE DEF scan, last
\* Nothing is behind the last token.
<1>3. \A k \in 1..last : k > Len(tokens) => LastWins(tokens, scan[k], key, k)
  <2> SUFFICES ASSUME NEW k \in 1..last, k > Len(tokens)
               PROVE  LastWins(tokens, scan[k], key, k)
    OBVIOUS
  <2>1. scan[k] = NoFlags
    BY <1>2 DEF Scanned
  <2>2. k..Len(tokens) = {}
    BY <1>1
  <2> QED
    BY <2>1, <2>2 DEF LastWins, NoFlags
<1>4. ASSUME NEW k \in 1..Len(tokens),
             LastWins(tokens, scan[k + 1], key, k + 1),
             LastWins(tokens, scan[k + 2], key, k + 2)
      PROVE  LastWins(tokens, scan[k], key, k)
  <2>k. k \in 1..last /\ ~(k > Len(tokens))
    BY <1>1
  <2>1. CASE tokens[k] \notin Keys
    <3>1. scan[k] = scan[k + 1]
      BY <1>2, <2>k, <2>1 DEF Scanned
    <3> QED
      BY <1>4, <2>1, <3>1, OtherToken
  <2>2. CASE tokens[k] \in Keys
    <3> DEFINE taken == k < Len(tokens) /\ tokens[k + 1] \in Words
               rest == IF taken THEN scan[k + 2] ELSE scan[k + 1]
    <3>1. scan[k] = AssignedBefore(rest, tokens[k], ValueAt(tokens, k))
      BY <1>2, <2>k, <2>2 DEF Scanned
    <3>2. LastWins(tokens, rest, key, k + 1)
      <4>1. CASE taken
        <5>1. k + 1 \in 1..Len(tokens) /\ tokens[k + 1] # key
          BY <1>1, <4>1 DEF Keys, Words
        <5>2. (k + 1) + 1 = k + 2
          OBVIOUS
        <5> QED
          BY <1>4, <4>1, <5>1, <5>2, OtherToken
      <4>2. CASE ~taken
        BY <1>4, <4>2
      <4> QED
        BY <4>1, <4>2
    <3> HIDE DEF rest
    <3>3. CASE tokens[k] = key
      BY <3>1, <3>2, <3>3, KeyToken
    <3>4. CASE tokens[k] # key
      <4>1. LastWins(tokens, rest, key, k)
        BY <3>2, <3>4, OtherToken
      <4> QED
        BY <3>1, <3>4, <4>1, OtherKey
    <3> QED
      BY <3>3, <3>4
  <2> QED
    BY <2>1, <2>2
<1>5. wrong = {}
  <2> SUFFICES ASSUME wrong # {} PROVE FALSE
    OBVIOUS
  <2>1. PICK n \in wrong : \A m \in wrong : n <= m
    <3>1. wrong \in SUBSET Nat
      BY <1>1
    <3> HIDE DEF wrong
    <3> QED
      BY <3>1, LeastNatural
  <2> DEFINE k == last - n
  <2>2. n \in 0..last - 1 /\ k \in 1..last /\ ~LastWins(tokens, scan[k], key, k)
    BY <1>1, <2>1
  <2>3. k \in 1..Len(tokens)
    BY <1>1, <1>3, <2>2
  <2>4. ASSUME NEW d \in {1, 2}
        PROVE  LastWins(tokens, scan[k + d], key, k + d)
    <3>1. n - d \in 0..last - 1 /\ last - (n - d) = k + d /\ ~(n <= n - d)
      BY <1>1, <2>2, <2>3
    <3>2. n - d \notin wrong
      <4> HIDE DEF wrong
      <4> QED
        BY <2>1, <3>1
    <3> QED
      BY <3>1, <3>2
  <2> HIDE DEF k, wrong
  <2> QED
    BY <1>4, <2>2, <2>3, <2>4
<1>6. last - 1 \in 0..last - 1 /\ last - (last - 1) = 1
  BY <1>1
<1>7. LastWins(tokens, scan[1], key, 1)
  BY <1>5, <1>6
<1> QED
  BY <1>7, FlagsAreScanned DEF scan

\* A command line, seen with and without its first token.
LEMMA TailFacts ==
  ASSUME NEW tokens \in Seq(Keys \cup Words), tokens # << >>
  PROVE  /\ Len(tokens) \in Nat /\ Len(tokens) >= 1
         /\ Tail(tokens) \in Seq(Keys \cup Words)
         /\ Len(Tail(tokens)) = Len(tokens) - 1
         /\ Head(tokens) = tokens[1]
         /\ \A i \in 1..Len(tokens) - 1 : Tail(tokens)[i] = tokens[i + 1]
         /\ \A i \in 1..Len(tokens) - 1 :
              ValueAt(Tail(tokens), i) = ValueAt(tokens, i + 1)
<1>1. /\ Len(tokens) \in Nat /\ Len(tokens) >= 1
      /\ Tail(tokens) \in Seq(Keys \cup Words)
      /\ Len(Tail(tokens)) = Len(tokens) - 1
      /\ Head(tokens) = tokens[1]
      /\ \A i \in 1..Len(tokens) - 1 : Tail(tokens)[i] = tokens[i + 1]
  OBVIOUS
<1>2. ASSUME NEW i \in 1..Len(tokens) - 1
      PROVE  ValueAt(Tail(tokens), i) = ValueAt(tokens, i + 1)
  <2>1. i < Len(Tail(tokens)) <=> i + 1 < Len(tokens)
    BY <1>1
  <2>2. i < Len(Tail(tokens)) => Tail(tokens)[i + 1] = tokens[(i + 1) + 1]
    <3>1. i < Len(Tail(tokens)) => i + 1 \in 1..Len(tokens) - 1
      BY <1>1
    <3> QED
      BY <1>1, <3>1
  <2> QED
    BY <2>1, <2>2 DEF ValueAt
<1> QED
  BY <1>1, <1>2

\* A flag that is given has the value that the first token gives it, or else
\* its last occurrence, however often it is given.
LEMMA DecidingValue ==
  ASSUME NEW tokens \in Seq(Keys \cup Words), NEW key \in Keys,
         NEW i \in 1..Len(tokens), tokens[i] = key,
         \/ i = 1
         \/ tokens[1] # key /\ \A j \in i + 1..Len(tokens) : tokens[j] # key
  PROVE  /\ key \in DOMAIN ParseArgs(tokens)
         /\ ParseArgs(tokens)[key] = ValueAt(tokens, i)
<1> DEFINE rest == Tail(tokens)
           flags == FlagsOf(rest)
<1>1. tokens # << >>
  OBVIOUS
<1>2. /\ Len(tokens) \in Nat /\ Len(tokens) >= 1
      /\ rest \in Seq(Keys \cup Words)
      /\ Len(rest) = Len(tokens) - 1
      /\ Head(tokens) = tokens[1]
      /\ \A j \in 1..Len(tokens) - 1 : rest[j] = tokens[j + 1]
      /\ \A j \in 1..Len(tokens) - 1 : ValueAt(rest, j) = ValueAt(tokens, j + 1)
  BY <1>1, TailFacts
<1>3. LastWins(rest, flags, key, 1)
  BY <1>2, LastFlagWins
<1>4. ParseArgs(tokens) = IF tokens[1] \in Keys
                          THEN Assigned(flags, tokens[1], ValueAt(tokens, 1))
                          ELSE flags
  BY <1>1, <1>2 DEF ParseArgs
<1> HIDE DEF rest, flags
<1>5. CASE i = 1
  BY <1>4, <1>5 DEF Assigned
<1>6. CASE i # 1
  <2>1. i - 1 \in 1..Len(rest) /\ (i - 1) + 1 = i
    BY <1>2, <1>6
  <2>2. rest[i - 1] = key /\ ValueAt(rest, i - 1) = ValueAt(tokens, i)
    BY <1>2, <2>1
  <2>3. ASSUME NEW j \in (i - 1) + 1..Len(rest) PROVE rest[j] # key
    <3>1. j \in 1..Len(tokens) - 1 /\ j + 1 \in i + 1..Len(tokens)
      BY <1>2, <2>1
    <3>2. tokens[j + 1] # key
      BY <1>6, <3>1
    <3> QED
      BY <1>2, <3>1, <3>2
  <2>4. key \in DOMAIN flags /\ flags[key] = ValueAt(tokens, i)
    BY <1>3, <2>1, <2>2, <2>3 DEF LastWins, LastFrom
  <2>5. tokens[1] # key
    BY <1>6
  <2> QED
    BY <1>4, <2>4, <2>5 DEF Assigned
<1> QED
  BY <1>5, <1>6

(***************************************************************************)
(* The strict capability check.                                            *)
(***************************************************************************)
CapabilityInv ==
  /\ argv \in Seq(Keys \cup Words)
  /\ script = "capability" /\ at = "exit_0" /\ Strict => RouterProbes \subseteq probed

LEMMA InitCapability == DiagInit => CapabilityInv
<1> SUFFICES ASSUME DiagInit PROVE CapabilityInv
  OBVIOUS
<1>1. argv \in Seq(Keys \cup Words)
  <2>1. PICK n \in 0..MaxTokens : argv \in [1..n -> Keys \cup Words]
    BY DEF DiagInit, Argvs
  <2>2. n \in Nat
    OBVIOUS
  <2> QED
    BY <2>1, <2>2
<1>2. at # "exit_0"
  BY DEF DiagInit
<1> QED
  BY <1>1, <1>2 DEF CapabilityInv

LEMMA CapabilityStep ==
  CapabilityInv /\ [Step \/ Land \/ Tick]_diagVars => CapabilityInv'
<1> SUFFICES ASSUME CapabilityInv, [Step \/ Land \/ Tick]_diagVars
             PROVE  CapabilityInv'
  OBVIOUS
<1>1. UNCHANGED <<argv, script>>
  BY DEF diagVars, Step, Land, Tick, Probe, CapabilityReport, Send, GetBalance,
         GetSignatureStatuses, WakeUp, FinalReads, DoctorReport, Throws
<1>2. Strict' = Strict
  BY <1>1 DEF Strict, Flags
<1>3. CASE CapabilityReport
  BY <1>1, <1>2, <1>3 DEF CapabilityReport, CapabilityInv
<1>4. CASE DoctorReport
  BY <1>1, <1>4 DEF DoctorReport, CapabilityInv
<1>5. CASE at' # "exit_0"
  BY <1>1, <1>5 DEF CapabilityInv
<1>6. CASE UNCHANGED <<at, probed>>
  BY <1>1, <1>2, <1>6 DEF CapabilityInv
<1> QED
  BY <1>3, <1>4, <1>5, <1>6
  DEF diagVars, Step, Land, Tick, Probe, AfterProbe, RouterProbes, Send, GetBalance,
      GetSignatureStatuses, WakeUp, FinalReads, Throws

\* A success means that each of the router's three methods answered, on every
\* command line of whatever length whose --strict that counts, the first token
\* or else the last occurrence, is not given another value than true.
THEOREM StrictCorrect == DiagSpec => []StrictMeansComplete
<1>1. ASSUME CapabilityInv PROVE StrictMeansComplete
  <2> SUFFICES ASSUME script = "capability", at = "exit_0",
                      NEW i \in DOMAIN argv,
                      Decides("--strict", i), ValueAt(argv, i) = "true"
               PROVE  RouterProbes \subseteq probed
    BY DEF StrictMeansComplete
  <2>1. argv \in Seq(Keys \cup Words) /\ "--strict" \in Keys
    BY <1>1 DEF CapabilityInv, Keys
  <2>2. DOMAIN argv = 1..Len(argv)
    BY <2>1
  <2>3. /\ i \in 1..Len(argv) /\ argv[i] = "--strict"
        /\ \/ i = 1
           \/ /\ argv[1] # "--strict"
              /\ \A j \in i + 1..Len(argv) : argv[j] # "--strict"
    BY <2>2 DEF Decides, Occurrences
  <2>4. Strict
    BY <2>1, <2>3, DecidingValue DEF Strict, Flags
  <2> QED
    BY <1>1, <2>4 DEF CapabilityInv
<1> QED
  BY <1>1, InitCapability, CapabilityStep, PTL DEF DiagSpec
(***************************************************************************)
(* Termination.                                                            *)
(***************************************************************************)
Ended == {"exit_0", "exit_1", "threw"}

\* The awaits in the order in which they come.
InOrder ==
  [getHealth |-> 11, getLatestBlockhash |-> 10, getIdentity |-> 9,
   getBlockhashForAccounts |-> 8, getDelegationStatus |-> 7, send |-> 6,
   getBalance |-> 5, sleep |-> 4, final_status |-> 3, getSignatureStatuses |-> 2,
   final_balance |-> 2, report |-> 1, exit_0 |-> 0, exit_1 |-> 0, threw |-> 0]

Polling == {"getBalance", "sleep", "getSignatureStatuses"}

\* A poll is two awaits and a tick; a sleep whose time has come is over.
AwaitsLeft ==
  InOrder[at] +
  (IF at \in Probes \cup {"send"} \cup Polling THEN 3 * (Deadline - elapsed) ELSE 0) +
  (IF at = "sleep" /\ slept_at < elapsed THEN 2 ELSE 0)

\* An await, or a tick, counts for two: one of them sends the transfer.
StepsLeft == 2 * AwaitsLeft + (IF sent = "in_flight" THEN 1 ELSE 0)

Awaits == Probes \cup Ended \cup
  {"send", "getBalance", "sleep", "getSignatureStatuses", "final_status",
   "final_balance", "report"}

\* A sleep does not begin in the future.
SleepInv ==
  /\ at \in Awaits
  /\ slept_at \in Nat
  /\ slept_at <= elapsed

LEMMA SleepStep ==
  ASSUME DoctorInv, SleepInv, [Step \/ Land \/ Tick]_diagVars
  PROVE  SleepInv'
<1>d. Deadline \in Nat /\ elapsed \in Nat
  BY DeadlineAssumption DEF DoctorInv, Timing
<1>1. at' \in Awaits
  BY DEF Step, Probe, CapabilityReport, Send, GetBalance, GetSignatureStatuses,
         WakeUp, FinalReads, DoctorReport, Throws, Land, Tick, diagVars,
         SleepInv, AfterProbe, Awaits, Ended, Probes, RouterProbes
<1>2. slept_at' \in Nat /\ slept_at' <= elapsed'
  BY <1>d
  DEF Step, Probe, CapabilityReport, Send, GetBalance, GetSignatureStatuses,
      WakeUp, FinalReads, DoctorReport, Throws, Land, Tick, diagVars, SleepInv
<1> QED
  BY <1>1, <1>2 DEF SleepInv

LEMMA OrderOfAwaits ==
  /\ InOrder["getHealth"] = 11 /\ InOrder["getLatestBlockhash"] = 10
  /\ InOrder["getIdentity"] = 9 /\ InOrder["getBlockhashForAccounts"] = 8
  /\ InOrder["getDelegationStatus"] = 7 /\ InOrder["send"] = 6
  /\ InOrder["getBalance"] = 5 /\ InOrder["sleep"] = 4
  /\ InOrder["final_status"] = 3 /\ InOrder["getSignatureStatuses"] = 2
  /\ InOrder["final_balance"] = 2 /\ InOrder["report"] = 1
  /\ InOrder["exit_0"] = 0 /\ InOrder["exit_1"] = 0 /\ InOrder["threw"] = 0
  BY DEF InOrder

LEMMA AwaitsLeftBound ==
  ASSUME DoctorInv, SleepInv
  PROVE  AwaitsLeft \in 0..3 * Deadline + 11
<1>1. Deadline \in Nat /\ elapsed \in 0..Deadline
  BY DeadlineAssumption DEF DoctorInv, Timing
<1>2. /\ 3 * (Deadline - elapsed) \in Nat
      /\ 3 * (Deadline - elapsed) <= 3 * Deadline
      /\ 3 * Deadline \in Nat
  BY <1>1
<1> QED
  BY OrderOfAwaits, <1>2
  DEF AwaitsLeft, SleepInv, Awaits, Probes, RouterProbes, Ended, Polling

\* Every await that is answered, and every tick, leaves fewer.
LEMMA AwaitsDecrease ==
  ASSUME DoctorInv, SleepInv, Step \/ Tick
  PROVE  AwaitsLeft' < AwaitsLeft
<1>1. Deadline \in Nat /\ elapsed \in 0..Deadline /\ slept_at \in Nat /\ slept_at <= elapsed
  BY DeadlineAssumption DEF DoctorInv, Timing, SleepInv
<1>2. at \in Probes \cup {"send"} => elapsed = 0
  BY DEF DoctorInv, Timing
<1>3. CASE Probe
  BY OrderOfAwaits, <1>1, <1>3 DEF Probe, AfterProbe, AwaitsLeft, Probes, RouterProbes, Polling
<1>4. CASE CapabilityReport \/ DoctorReport
  BY OrderOfAwaits, <1>4 DEF CapabilityReport, DoctorReport, AwaitsLeft, Probes, RouterProbes, Polling
<1>5. CASE Send
  BY OrderOfAwaits, <1>1, <1>2, <1>5 DEF Send, AwaitsLeft, Probes, RouterProbes, Polling
<1>6. CASE GetBalance
  BY OrderOfAwaits, <1>1, <1>6 DEF GetBalance, AwaitsLeft, Probes, RouterProbes, Polling
<1>7. CASE GetSignatureStatuses
  BY OrderOfAwaits, <1>1, <1>7 DEF GetSignatureStatuses, AwaitsLeft, Probes, RouterProbes, Polling
<1>8. CASE WakeUp
  BY OrderOfAwaits, <1>1, <1>8 DEF WakeUp, AwaitsLeft, Probes, RouterProbes, Polling
<1>9. CASE FinalReads
  BY OrderOfAwaits, <1>1, <1>9 DEF FinalReads, AwaitsLeft, Probes, RouterProbes, Polling
<1>10. CASE Throws
  BY OrderOfAwaits, <1>1, <1>10 DEF Throws, AwaitsLeft, Probes, RouterProbes, Polling
<1>11. CASE Tick
  BY OrderOfAwaits, <1>1, <1>11 DEF Tick, AwaitsLeft, Probes, RouterProbes, Polling
<1> QED
  BY <1>3, <1>4, <1>5, <1>6, <1>7, <1>8, <1>9, <1>10, <1>11 DEF Step

\* However slow the answers and the sleeps, and whenever the transfer lands, a
\* diagnosis is over after so many steps: every step leaves fewer.
THEOREM DiagnosisIsBounded ==
  DiagSpec => /\ [](StepsLeft \in 0..6 * Deadline + 23)
              /\ [][StepsLeft' < StepsLeft]_diagVars
<1> DEFINE Inv == DoctorInv /\ SleepInv
           Limited == AwaitsLeft \in 0..3 * Deadline + 11
           Bounded == StepsLeft \in 0..6 * Deadline + 23
<1>1. DiagInit => Inv
  <2> SUFFICES ASSUME DiagInit PROVE Inv
    OBVIOUS
  <2>1. /\ at \in {"getHealth", "getIdentity"} /\ slept_at = 0 /\ elapsed = 0
    BY DEF DiagInit
  <2>2. SleepInv
    BY <2>1 DEF SleepInv, Awaits, Probes, RouterProbes
  <2> QED
    BY <2>2, InitDoctor
<1>2. Inv /\ [Step \/ Land \/ Tick]_diagVars => Inv'
  BY DoctorStep, SleepStep
<1>3. Inv => Limited
  BY AwaitsLeftBound
<1>4. Inv' => Limited'
  <2> HIDE DEF Inv, Limited
  <2> QED
    BY <1>3, PTL
<1>5. Limited => Bounded
  <2> SUFFICES ASSUME Limited PROVE Bounded
    OBVIOUS
  <2>1. Deadline \in Nat
    BY DeadlineAssumption
  <2> QED
    BY <2>1 DEF StepsLeft
<1>6. Inv /\ [Step \/ Land \/ Tick]_diagVars => [StepsLeft' < StepsLeft]_diagVars
  <2> SUFFICES ASSUME Inv, Step \/ Land \/ Tick
               PROVE  StepsLeft' < StepsLeft
    OBVIOUS
  <2>1. AwaitsLeft \in Nat /\ AwaitsLeft' \in Nat
    BY <1>2, <1>3, <1>4, DeadlineAssumption
  <2>2. CASE Step \/ Tick
    <3>1. AwaitsLeft' < AwaitsLeft
      BY <2>2, AwaitsDecrease
    <3>2. \A few, more \in Nat, p, q \in {0, 1} :
            few < more => 2 * few + p < 2 * more + q
      OBVIOUS
    <3> HIDE DEF Inv
    <3> QED
      BY <2>1, <3>1, <3>2 DEF StepsLeft
  <2>3. CASE Land
    <3>1. AwaitsLeft' = AwaitsLeft
      BY <2>3 DEF Land, AwaitsLeft
    <3>2. sent = "in_flight" /\ sent' # "in_flight"
      BY <2>3 DEF Land
    <3> QED
      BY <2>1, <3>1, <3>2 DEF StepsLeft
  <2> QED
    BY <2>2, <2>3
<1> QED
  BY <1>1, <1>2, <1>3, <1>5, <1>6, PTL DEF DiagSpec
=============================================================================
