-------------------------- MODULE FamilyDissolution --------------------------
(***************************************************************************)
(* set__dissolve_family beside the operations of BudgetLedger.  Money has   *)
(* moved between the family's accounts and its members'; the function       *)
(* deletes by the owner of operations, accounts and categories, and what it *)
(* deletes cascades to rows of others.  A deleted row keeps its place in    *)
(* the sequences, empty.                                                    *)
(***************************************************************************)
EXTENDS BudgetLedger

VARIABLE dissolved   \* families that are gone

dissolutionVars == <<vars, dissolved>>

AccountsOf(f)   == {a \in Account : AccountOwner[a] = f}
CategoriesOf(f) == {c \in Category : CategoryOwner(c) = f}

\* fx_lots.opened_by_operation_id refers to operations without CASCADE, and
\* step 2 deletes the lots of the family's accounts only: once foreign money
\* has gone from the family to a member, step 3 raises.  It raises too while a
\* portfolio event is linked to an operation of the family, for the positions
\* go in step 9 only (portfolio_events.linked_operation_id): a family that has
\* had a position is never dissolved.  BudgetLedger has no positions, so the
\* families here are those without one.
Dissolvable(s, f) ==
    \A i \in DOMAIN s.lots :
        s.operations[s.lots[i].openedBy].owner = f => AccountOwner[s.lots[i].account] = f

\* steps 3, 4, 7: the family's operations with all their rows, and the rows
\* others have on its accounts and categories
RowsLeft(s, f, k) ==
    LET op == s.operations[k]
        gone(owner) == op.owner = f \/ owner = f
        keep(i) == ~gone(AccountOwner[s.lots[i].account])
    IN  [op EXCEPT
            !.bank = [b \in Balance |-> IF gone(AccountOwner[b[1]]) THEN 0 ELSE @[b]],
            !.from = [c \in Category |-> IF gone(CategoryOwner(c)) THEN 0 ELSE @[c]],
            !.to   = [c \in Category |-> IF gone(CategoryOwner(c)) THEN 0 ELSE @[c]],
            !.used     = [i \in DOMAIN @ |-> IF keep(i) THEN @[i] ELSE 0],
            !.usedCost = [i \in DOMAIN @ |-> IF keep(i) THEN @[i] ELSE 0]]

\* current_bank_balances and current_budget_balances cascade from accounts
\* and categories; those of the members stay as they are
Dissolution(s, f) ==
    [operations |-> [k \in DOMAIN s.operations |-> RowsLeft(s, f, k)],
     lots   |-> Emptied(s.lots, {i \in DOMAIN s.lots : AccountOwner[s.lots[i].account] = f}),
     amount |-> [b \in Balance |-> IF AccountOwner[b[1]] = f THEN 0 ELSE s.amount[b]],
     cost   |-> [b \in Balance |-> IF AccountOwner[b[1]] = f THEN 0 ELSE s.cost[b]],
     budget |-> [c \in Category |-> IF CategoryOwner(c) = f THEN 0 ELSE s.budget[c]]]

DissolveFamily(f) ==
    /\ f \in FamilyOwner \ dissolved
    /\ Dissolvable(ledger, f)
    /\ ledger' = Dissolution(ledger, f)
    /\ activeAccounts' = activeAccounts \ AccountsOf(f)
    /\ activeCategories' = activeCategories \ CategoriesOf(f)
    /\ dissolved' = dissolved \cup {f}
    /\ UNCHANGED creditLimit

\* a call of the ledger; a family that is gone has no operations any more
LedgerCall ==
    /\ Next
    /\ \A k \in DOMAIN ledger'.operations \ DOMAIN ledger.operations :
          ledger'.operations[k].owner \notin dissolved
    /\ UNCHANGED dissolved

DissolutionInit == Init /\ dissolved = {}
DissolutionNext == LedgerCall \/ \E f \in FamilyOwner : DissolveFamily(f)
DissolutionSpec == DissolutionInit /\ [][DissolutionNext]_dissolutionVars

\* set__dissolve_family: "Members' personal accounts and data are not
\* affected": what a person's account holds is still what its entries say.
PersonalMoneyHasItsEntries ==
    \A b \in Balance : AccountOwner[b[1]] \notin FamilyOwner =>
        ledger.amount[b] = EntriesOn(ledger, b)
=============================================================================
