----------------------------- MODULE AuditLedger -----------------------------
(***************************************************************************)
(* What the quota runtime and its checkpoint promise together, whatever    *)
(* layer a request is answered on: a ledger of decisions in which every    *)
(* answered request is counted exactly once, as admitted or as refused,    *)
(* and whose settled part is only ever brought to an exact copy of the     *)
(* whole.  No decision is lost, counted twice or settled partially.        *)
(***************************************************************************)
EXTENDS Naturals

VARIABLES
  decided,  \* [admitted, refused]: every request answered so far
  settled   \* [admitted, refused]: what the checkpoint records durably

ledgerVars == <<decided, settled>>

Nothing == [admitted |-> 0, refused |-> 0]

Init == decided = Nothing /\ settled = Nothing

Admit == /\ decided' = [decided EXCEPT !.admitted = @ + 1]
         /\ UNCHANGED settled

Refuse == /\ decided' = [decided EXCEPT !.refused = @ + 1]
          /\ UNCHANGED settled

Settle == /\ settled' = decided
          /\ UNCHANGED decided

Next == Admit \/ Refuse \/ Settle

Spec == Init /\ [][Next]_ledgerVars
=============================================================================
