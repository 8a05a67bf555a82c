--------------------------- MODULE MCClientStart ---------------------------
(***************************************************************************)
(* Two tabs and two users with a session each.  The tabs are alike, and so *)
(* are the users when their sessions are exchanged with them.              *)
(***************************************************************************)
EXTENDS ClientStart, TLC

CONSTANTS anna, boris, a1, b1, here, there

Owners == [l \in {a1, b1} |-> IF l = b1 THEN boris ELSE anna]

\* The browser alone; inside Telegram one step less.
Steps == [inTelegram \in BOOLEAN |-> IF inTelegram THEN 2 ELSE 3]

Same == [x \in {anna, boris, a1, b1} |-> x]
Exchanged == anna :> boris @@ boris :> anna @@ a1 :> b1 @@ b1 :> a1
Alike == {tabs @@ people : tabs \in Permutations({here, there}), people \in {Same, Exchanged}}
=============================================================================
