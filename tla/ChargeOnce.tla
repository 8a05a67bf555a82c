----------------------------- MODULE ChargeOnce -----------------------------
(***************************************************************************)
(* What the scheduler promises of repeating expenses (the header of         *)
(* put__claim_due_scheduled_expenses.sql): an occurrence that is due is     *)
(* claimed by one run, which charges it once or not at all; it is never     *)
(* claimed again, nor charged before its day.                               *)
(***************************************************************************)
EXTENDS Integers

CONSTANTS Schedule, Day

Occurrence == Schedule \X Day

VARIABLES
    today,
    claimed,   \* occurrences some run has taken
    open,      \* those of them the run has not dealt with yet
    charged    \* how often the expense of an occurrence was recorded

vars == <<today, claimed, open, charged>>

Init ==
    /\ today \in Day
    /\ claimed = {} /\ open = {}
    /\ charged = [o \in Occurrence |-> 0]

NextDay ==
    /\ today' > today
    /\ UNCHANGED <<claimed, open, charged>>

\* the answer of a claim may be lost: then nobody will deal with it
Claim ==
    /\ claimed \subseteq claimed'
    /\ \A o \in claimed' \ claimed : o[2] <= today
    /\ open \subseteq open' /\ open' \subseteq open \cup (claimed' \ claimed)
    /\ UNCHANGED <<today, charged>>

\* a run deals with some of its occurrences, or is killed
Finish ==
    /\ open' \subseteq open
    /\ \A o \in Occurrence :
          \/ charged'[o] = charged[o]
          \/ o \in open \ open' /\ charged[o] = 0 /\ charged'[o] = 1
    /\ UNCHANGED <<today, claimed>>

Next == NextDay \/ Claim \/ Finish

Spec == Init /\ [][Next]_vars
=============================================================================
