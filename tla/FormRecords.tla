---------------------------- MODULE FormRecords ----------------------------
(***************************************************************************)
(* How the forms of the web client and the calls they make are written     *)
(* down: the words of the modules *Forms, which describe the client, and   *)
(* of ClientForms, which runs them.                                        *)
(***************************************************************************)
EXTENDS Integers, Sequences, FiniteSets, TLC

CONSTANT None

Nothing == [n \in {} |-> 0]
Quantity == 1..2

\* A call is one transaction of the server: the amounts it needs, how it moves
\* them, and whether it knows a request key it has carried out before.
Call(needs, moves) == [needs |-> needs, moves |-> moves, once |-> FALSE, spent |-> None]
Once(call) == [call EXCEPT !.once = TRUE]
Takes(from, n) == Call(from :> n, from :> -n)
Gives(to, n) == Call(Nothing, to :> n)
Moves(from, n, to, m) == Call(from :> n, from :> -n @@ to :> m)
With(call, needs, moves) == [call EXCEPT !.needs = needs @@ @, !.moves = moves @@ @]

\* A call for something that is there once: where it is gone already, the answer is
\* a success without effect.
Spends(thing) == [Takes(thing, 1) EXCEPT !.spent = thing]

\* A submission a form lets through: what the user asks for, what the form must
\* show for it, the calls its handler makes one after another, and the call
\* that undoes the first one when a later one fails.
Offer(payload, asks, calls) == [payload |-> payload, asks |-> asks, calls |-> calls, undo |-> None]

\* Most forms: a sheet of its own over a page, with a busy flag of its own,
\* which locks the sheet.  Its success closes the sheet and the page loads all
\* it shows anew.  What a form does otherwise is written with EXCEPT:
\*   door     the state of the page that holds the sheet open
\*   closes   the doors that the page shuts when the form has succeeded
\*   reads    what it offers comes from the "page", from what the page showed when it
\*            opened the "door", or is loaded by the "sheet"
\*   final    a failure leaves nothing but to close the sheet
\*   flag     its busy state: in the sheet, or in the page as slot
\*   locked   the sheet cannot be closed while the form is busy
\*   frees    a success ends the busy state, not only a failure
\*   scope    the scope of its request key, None for a form without
\*   after    a success makes the page "reload", or reload and wait for it before the
\*            busy state ends ("awaited"), or "patch" what it shows, or "nothing"
\*   guarded  the page numbers its loads and takes only the last one
\*   facts    amounts of the server it begins with, where they are not two
Sheet(door) ==
    [door |-> door, closes |-> {door}, final |-> FALSE, reads |-> "page", flag |-> door, slot |-> None,
     locked |-> TRUE, frees |-> TRUE, scope |-> None, after |-> "reload", guarded |-> FALSE,
     facts |-> Nothing, offers |-> {}]
=============================================================================
