--------------------------- MODULE MCLedgerLocks ---------------------------
(***************************************************************************)
(* Instances of LedgerLocks: three cash accounts, one of them a family's,   *)
(* and a card; one regular category, archived by some of the calls; one     *)
(* operation of the past that can still be cancelled, an income of 2.       *)
(***************************************************************************)
EXTENDS LedgerLocks

CONSTANTS home, office, joint, card, food, unalloc, fx, income

Accounts   == {home, office, joint, card}
Cards      == [a \in Accounts |-> a = card]
Personal   == [a \in Accounts |-> a \in {home, office, card}]
Limits     == [a \in Accounts |-> IF a = card THEN 3 ELSE 0]
Categories == {food, unalloc, fx}
Ids        == [c \in Categories |-> CASE c = unalloc -> 1 [] c = fx -> 2 [] c = food -> 3]
PastOps    == [k \in {income} |-> [account |-> home, amount |-> 2, category |-> unalloc]]

\* The rows: balances given, every category active, nothing reversed.  The
\* card's debt is as much as its balance is below zero.
Rows(bank, budget) ==
    [r \in Row |->
        CASE r[1] = "bank"   -> bank[r[2]]
          [] r[1] = "budget" -> budget[r[2]]
          [] r[1] = "debt"   -> Greater(0, -bank[r[2]])
          [] OTHER           -> 1]

Bank(h, o, j, c) ==
    [a \in Accounts |-> CASE a = home -> h [] a = office -> o [] a = joint -> j [] a = card -> c]
Budget(f, u, x) ==
    [c \in Categories |-> CASE c = food -> f [] c = unalloc -> u [] c = fx -> x]

SpendStart    == Rows(Bank(3, 0, 0, -1), Budget(1, 2, 0))
CircleStart   == Rows(Bank(2, 2, 2, 0), Budget(4, 2, 0))
NewCardStart  == Rows(Bank(2, 0, 0, 0), Budget(0, 2, 0))
DebtStart     == Rows(Bank(2, 2, 0, -2), Budget(0, 4, 0))

Spend(a, x)     == [call |-> "expense", account |-> a, category |-> food, amount |-> x]
Receive(a, x)   == [call |-> "income", account |-> a, amount |-> x]
Move(a, t, x)   == [call |-> "transfer", account |-> a, target |-> t, amount |-> x]
Assign(f, t, x) == [call |-> "allocate", source |-> f, category |-> t, amount |-> x]
Cancel(k)       == [call |-> "reverse", operation |-> k]
Archive(c)      == [call |-> "archive", category |-> c]

SpendRequests ==
    {Spend(home, 2), Spend(card, 2), Spend(joint, 1), Receive(home, 1),
     Move(home, card, 1), Move(card, home, 2), Cancel(income), Archive(food)}
CircleRequests ==
    {Move(home, office, 1), Move(office, joint, 1), Move(joint, home, 2),
     Assign(unalloc, food, 2), Assign(food, unalloc, 1)}
CardRequests     == {Spend(card, 2)}
RepayRequests    == {Move(home, card, 2), Move(office, card, 2)}
=============================================================================
