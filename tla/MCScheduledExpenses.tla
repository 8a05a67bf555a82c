------------------------ MODULE MCScheduledExpenses ------------------------
(* Short weeks of two days and months of 3, 2, 3, 2, ... days. *)
EXTENDS ScheduledExpenses, TLC

CONSTANTS rent, gym

Frequencies == (rent :> "monthly") @@ (gym :> "weekly")
DaysOf      == (rent :> 3) @@ (gym :> 2)
Months      == <<3, 2, 3, 2, 3>>
=============================================================================
