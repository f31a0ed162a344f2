--------------------------- MODULE AdmissionHistory ---------------------------
(***************************************************************************)
(* BaseRuntime with a history variable that no account keeps: the times of *)
(* all admissions, in order.  It lets us say what the fixed window of      *)
(* reset_runtime_if_expired means for a caller's request rate.             *)
(***************************************************************************)
EXTENDS BaseRuntime

VARIABLE admissions  \* Seq of clock values, one per admitted request

historyVars == <<vars, admissions>>

HistoryInit == Init /\ admissions = << >>

HistoryNext ==
  /\ Next
  /\ admissions' = IF runtime'.total_allowed > runtime.total_allowed
                   THEN Append(admissions, clock) ELSE admissions

HistorySpec == HistoryInit /\ [][HistoryNext]_historyVars

LargestQuota   == CHOOSE q \in MaxRequestsInputs :
                    \A r \in MaxRequestsInputs : r <= q
ShortestWindow == CHOOSE w \in WindowInputs \ {0} :
                    \A v \in WindowInputs \ {0} : w <= v

\* The rate a fixed window really enforces: any interval as long as the
\* shortest window ever configured sees at most two windows' worth of
\* admissions (the end of one window and the start of the next), whatever the
\* policy was rewritten to in between.  The one-window bound does not hold.
SlidingWindowBound ==
  \A i \in DOMAIN admissions :
    Cardinality({j \in DOMAIN admissions :
                   /\ admissions[j] >= admissions[i]
                   /\ admissions[j] < admissions[i] + ShortestWindow})
      <= 2 * LargestQuota

\* The accounts' own counters agree with what was really admitted: the total
\* with the whole history, the window counter with the admissions since the
\* window opened (a later admission in the tick of the reset included).
CountersAgreeWithHistory ==
  /\ runtime.total_allowed = Len(admissions)
  /\ \A n \in 1..Len(admissions) :
       n > Len(admissions) - runtime.current_window_used
         => admissions[n] >= runtime.current_window_started_at
  /\ \A n \in 1..Len(admissions) :
       admissions[n] > runtime.current_window_started_at
         => n > Len(admissions) - runtime.current_window_used
=============================================================================
