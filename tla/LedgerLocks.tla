---------------------------- MODULE LedgerLocks ----------------------------
(***************************************************************************)
(* The SQL functions of the ledger, statement by statement, on several      *)
(* connections at once.                                                     *)
(*                                                                         *)
(* storage/databases.py runs every call as one autocommit SELECT, so each   *)
(* function is a READ COMMITTED transaction: a statement sees what others   *)
(* have committed before it and the transaction's own writes; a row written *)
(* or selected FOR UPDATE stays locked to the end.  SELECT ... FOR UPDATE   *)
(* locks the rows it finds, and put__apply_current_*_delta deletes a        *)
(* balance row that reaches zero, so a zero balance has no row to lock.     *)
(*                                                                         *)
(* A function is the list of its statements that touch shared rows.  Rows   *)
(* are the base-currency balances of accounts, the balances of categories,  *)
(* categories themselves (1 while active), past operations (1, less their   *)
(* reversals) and the budget debt of cards, which is a sum over operations  *)
(* and so can never be locked.                                              *)
(***************************************************************************)
EXTENDS RowSums, Sequences, SequencesExt

CONSTANTS
    Proc,                    \* connections of the pool
    Account, IsCard, IsPersonal, CreditLimit,
    Category, CategoryId, Unallocated, FxResult,
    Past,                    \* operations that may be reversed
    InitialValue,            \* what the rows hold at the start
    Requests,                \* the calls clients may make
    MaxCalls,                \* bound: calls made on one connection
    Nobody

BankRow(a)   == <<"bank", a>>
BudgetRow(c) == <<"budget", c>>
ActiveRow(c) == <<"category", c>>
OpRow(k)     == <<"operation", k>>
DebtRow(a)   == <<"debt", a>>

BankRows   == {BankRow(a) : a \in Account}
BudgetRows == {BudgetRow(c) : c \in Category}
ActiveRows == {ActiveRow(c) : c \in Category}
OpRows     == {OpRow(k) : k \in DOMAIN Past}
DebtRows   == {DebtRow(a) : a \in {x \in Account : IsCard[x]}}
Row        == BankRows \cup BudgetRows \cup ActiveRows \cup OpRows \cup DebtRows

ASSUME LocksAssumption ==
    /\ IsFiniteSet(Account) /\ IsFiniteSet(Category)
    /\ IsCard \in [Account -> BOOLEAN] /\ IsPersonal \in [Account -> BOOLEAN]
    /\ CreditLimit \in [Account -> Nat]
    /\ {Unallocated, FxResult} \subseteq Category /\ Unallocated # FxResult
    /\ CategoryId \in [Category -> Nat]
    /\ InitialValue \in [Row -> Int]
    /\ Nobody \notin Proc
    /\ MaxCalls \in Nat

\* the calls name accounts, categories and operations there are
ASSUME RequestsAssumption ==
    /\ \A k \in DOMAIN Past : /\ Past[k].account \in Account /\ Past[k].category \in Category
                             /\ Past[k].amount \in Int
    /\ \A req \in Requests :
          /\ req.call \in {"expense", "income", "transfer", "allocate", "reverse", "archive"}
          /\ req.call \in {"expense", "income", "transfer"} => req.account \in Account
          /\ req.call = "transfer" => req.target \in Account
          /\ req.call \in {"expense", "allocate", "archive"} => req.category \in Category
          /\ req.call = "archive" => req.category \notin {Unallocated, FxResult}
          /\ req.call = "allocate" => req.source \in Category
          /\ req.call = "reverse" => req.operation \in DOMAIN Past
          /\ req.call \in {"expense", "income", "transfer", "allocate"} => req.amount \in Nat \ {0}

(***************************************************************************)
(* Statements.  A write adds to its row an amount given by the call, or one *)
(* that depends on what the function has read before: all of it, the part   *)
(* of x it covers, or the part of x beyond it.                              *)
(***************************************************************************)
Lock(rows)         == [do |-> "lock", rows |-> rows]
Check(rows, least) == [do |-> "check", rows |-> rows, least |-> least]
Read(row)          == [do |-> "read", rows |-> <<row>>]
Add(row, x)        == [do |-> "write", rows |-> <<row>>, what |-> "given", sign |-> 1, x |-> x]
AddSeen(row, sign) == [do |-> "write", rows |-> <<row>>, what |-> "seen", sign |-> sign, x |-> 0]
AddCovered(row, sign, x) ==
    [do |-> "write", rows |-> <<row>>, what |-> "covered", sign |-> sign, x |-> x]
AddBeyond(row, x) ==
    [do |-> "write", rows |-> <<row>>, what |-> "beyond", sign |-> 1, x |-> x]
Clear(row)         == [do |-> "write", rows |-> <<row>>, what |-> "itself", sign |-> -1, x |-> 0]

\* the least the account may hold after a withdrawal: what the code compares
Floor(a) == IF IsCard[a] THEN -CreditLimit[a] ELSE 0

\* put__record_expense: a family's cash is not checked
Expense(a, c, x) ==
       <<Check(<<ActiveRow(c)>>, 1), Lock(<<BankRow(a)>>)>>
    \o (IF IsCard[a] \/ IsPersonal[a]
        THEN <<Check(<<BankRow(a)>>, Floor(a) + x)>> ELSE <<>>)
    \o <<Lock(<<BudgetRow(c)>>), Add(BankRow(a), -x), Add(BudgetRow(c), -x)>>

\* put__record_income
Income(a, x) == <<Add(BankRow(a), x), Add(BudgetRow(Unallocated), x)>>

\* the debt recorded for the whole payment
TransferRepaysInFull(a, t, x) ==
       <<Lock(<<BankRow(a)>>), Check(<<BankRow(a)>>, Floor(a) + x),
         Read(IF IsCard[t] THEN DebtRow(t) ELSE BankRow(a)), Add(BankRow(a), -x), Add(BankRow(t), x)>>
    \o (IF IsCard[t]
        THEN <<AddCovered(BudgetRow(Unallocated), -1, x), Add(DebtRow(t), -x)>>
        ELSE <<AddBeyond(BudgetRow(Unallocated), x), AddBeyond(DebtRow(a), x)>>)

\* put__transfer_between_accounts.  Only the source row is locked; the debt
\* of a card that is paid back is read without any lock.
Transfer(a, t, x) ==
       <<Lock(<<BankRow(a)>>), Check(<<BankRow(a)>>, Floor(a) + x),
         Read(IF IsCard[t] THEN DebtRow(t) ELSE BankRow(a)),
         Add(BankRow(a), -x), Add(BankRow(t), x)>>
    \o CASE IsCard[t] /\ ~IsCard[a] ->
               <<AddCovered(BudgetRow(Unallocated), -1, x), AddCovered(DebtRow(t), -1, x)>>
         [] IsCard[a] /\ ~IsCard[t] ->
               <<AddBeyond(BudgetRow(Unallocated), x), AddBeyond(DebtRow(a), x)>>
         [] ~IsCard[a] /\ ~IsCard[t] ->
               <<Add(BudgetRow(Unallocated), -x), Add(BudgetRow(Unallocated), x)>>
         [] OTHER -> <<>>

\* put__allocate_budget: every row locked in category order, then compared
InIdOrder(cs) ==
    LET upTo(c) == {d \in cs : CategoryId[d] <= CategoryId[c]}
    IN  [n \in 1..Cardinality(cs) |-> BudgetRow(CHOOSE c \in cs : Cardinality(upTo(c)) = n)]

Allocate(f, t, x) ==
       <<Check(<<ActiveRow(f)>>, 1), Check(<<ActiveRow(t)>>, 1),
         Lock(InIdOrder({f, t} \cup (IF f = Unallocated THEN {FxResult} ELSE {})))>>
    \o (IF f = Unallocated
        THEN <<Check(<<BudgetRow(f), BudgetRow(FxResult)>>, x)>> ELSE <<>>)
    \o <<Add(BudgetRow(f), -x), Add(BudgetRow(t), x)>>

\* two cancels of one operation not serialised
ReverseWithoutLock(k) ==
    LET op == Past[k]
    IN  <<Check(<<OpRow(k)>>, 1), Check(<<BankRow(op.account)>>, op.amount),
          Add(OpRow(k), -1), Add(BankRow(op.account), -op.amount),
          Add(BudgetRow(op.category), -op.amount)>>

\* put__reverse_operation: locks the operation, but reads the balances bare
ReverseOperation(k) ==
    LET op == Past[k]
    IN     <<Lock(<<OpRow(k)>>), Check(<<OpRow(k)>>, 1)>>
        \o (IF op.amount > 0
            THEN <<Check(<<BankRow(op.account)>>, Floor(op.account) + op.amount)>>
            ELSE <<>>)
        \o (IF op.amount > 0 /\ op.category = Unallocated
            THEN <<Check(<<BudgetRow(Unallocated), BudgetRow(FxResult)>>, op.amount)>>
            ELSE <<>>)
        \o <<Add(OpRow(k), -1), Add(BankRow(op.account), -op.amount),
             Add(BudgetRow(op.category), -op.amount)>>

\* set__archive_category: moves the balance it has read bare
ArchiveCategory(c) ==
    <<Check(<<ActiveRow(c)>>, 1), Read(BudgetRow(c)),
      AddSeen(BudgetRow(c), -1), AddSeen(BudgetRow(Unallocated), 1),
      Clear(ActiveRow(c))>>

Program(req) ==
    CASE req.call = "expense"  -> Expense(req.account, req.category, req.amount)
      [] req.call = "income"   -> Income(req.account, req.amount)
      [] req.call = "transfer" -> Transfer(req.account, req.target, req.amount)
      [] req.call = "allocate" -> Allocate(req.source, req.category, req.amount)
      [] req.call = "reverse"  -> ReverseOperation(req.operation)
      [] req.call = "archive"  -> ArchiveCategory(req.category)

\* The rows at the start are such as calls one at a time leave behind
\* (BudgetLedger): nothing overdrawn, the budget is the money, a category
\* active or not, an operation undone once at most.
ASSUME StartAssumption ==
    /\ \A c \in Category : InitialValue[ActiveRow(c)] \in {0, 1}
    /\ \A k \in DOMAIN Past : InitialValue[OpRow(k)] \in {0, 1}
    /\ \A a \in Account : IsCard[a] \/ IsPersonal[a] => InitialValue[BankRow(a)] >= Floor(a)
    /\ SumFunctionOnSet(InitialValue, BudgetRows)
          = SumFunctionOnSet(InitialValue, BankRows \cup DebtRows)

(***************************************************************************)
(* State: the committed rows, the locks, and what each open transaction has *)
(* read and written so far.                                                 *)
(***************************************************************************)
VARIABLES
    committed,   \* the rows as others see them
    holder,      \* which transaction has locked the row
    program,     \* statements still to execute on the connection
    queue,       \* rows the current FOR UPDATE has found and not locked yet
    written,     \* uncommitted changes of the open transaction
    seen,        \* the value its last Read returned
    calls,       \* calls made on the connection
    unlocked     \* rows some function has decided on without holding the lock

vars == <<committed, holder, program, queue, written, seen, calls, unlocked>>

NoWrites == [r \in Row |-> 0]

Init ==
    /\ committed = InitialValue
    /\ holder  = [r \in Row |-> Nobody]
    /\ program = [p \in Proc |-> <<>>]
    /\ queue   = [p \in Proc |-> <<>>]
    /\ written = [p \in Proc |-> NoWrites]
    /\ seen    = [p \in Proc |-> 0]
    /\ calls   = [p \in Proc |-> 0]
    /\ unlocked = {}

\* a balance that is zero has no row; operations and categories always do
Present(r) == r \in BankRows \cup BudgetRows => committed[r] # 0

\* those of the rows that are there, in their order
Found(rows) ==
    LET at == {n \in DOMAIN rows : Present(rows[n])}
    IN  [m \in 1..Cardinality(at) |-> rows[CHOOSE n \in at : Cardinality(at \cap 1..n) = m]]

Busy(p) == program[p] # <<>>
Current(p) == Head(program[p])

\* what a statement of p reads: the committed value and p's own changes
Visible(p, r) == committed[r] + written[p][r]
VisibleSum(p, rows) == SumFunctionOnSet([r \in Row |-> Visible(p, r)], ToSet(rows))

Release(p) == holder' = [r \in Row |-> IF holder[r] = p THEN Nobody ELSE holder[r]]

\* a connection given back to the pool with its transaction open
EndWithoutRelease(p) ==
    /\ program' = [program EXCEPT ![p] = <<>>]
    /\ queue'   = [queue EXCEPT ![p] = <<>>]
    /\ written' = [written EXCEPT ![p] = NoWrites]
    /\ seen'    = [seen EXCEPT ![p] = 0]
    /\ holder'  = holder

EndTransaction(p) ==
    /\ program' = [program EXCEPT ![p] = <<>>]
    /\ queue'   = [queue EXCEPT ![p] = <<>>]
    /\ written' = [written EXCEPT ![p] = NoWrites]
    /\ seen'    = [seen EXCEPT ![p] = 0]
    /\ Release(p)

Begin(p, req) ==
    /\ ~Busy(p) /\ calls[p] < MaxCalls
    /\ program' = [program EXCEPT ![p] = Append(Program(req), [do |-> "commit"])]
    /\ calls' = [calls EXCEPT ![p] = @ + 1]
    /\ UNCHANGED <<committed, holder, queue, written, seen, unlocked>>

Advance(p) == program' = [program EXCEPT ![p] = Tail(@)]

\* FOR UPDATE starts: its snapshot decides which rows it is going to lock
StartLocking(p) ==
    LET found == Found(Current(p).rows)
    IN  /\ Busy(p) /\ Current(p).do = "lock" /\ queue[p] = <<>>
        /\ IF found = <<>>
           THEN Advance(p) /\ UNCHANGED queue
           ELSE queue' = [queue EXCEPT ![p] = found] /\ UNCHANGED program
        /\ UNCHANGED <<committed, holder, written, seen, calls, unlocked>>

\* FOR SHARE in place of FOR UPDATE: others may hold the row as well
LockRowShared(p) ==
    /\ Busy(p) /\ queue[p] # <<>>
    /\ holder' = [holder EXCEPT ![Head(queue[p])] = p]
    /\ queue' = [queue EXCEPT ![p] = Tail(@)]
    /\ IF Len(queue[p]) = 1 THEN Advance(p) ELSE UNCHANGED program
    /\ UNCHANGED <<committed, written, seen, calls, unlocked>>

\* the next row is free: it is locked, unless its last holder deleted it
LockRow(p) ==
    LET r == Head(queue[p])
    IN  /\ Busy(p) /\ queue[p] # <<>>
        /\ holder[r] \in {Nobody, p}
        /\ holder' = IF Present(r) THEN [holder EXCEPT ![r] = p] ELSE holder
        /\ queue' = [queue EXCEPT ![p] = Tail(@)]
        /\ IF Len(queue[p]) = 1 THEN Advance(p) ELSE UNCHANGED program
        /\ UNCHANGED <<committed, written, seen, calls, unlocked>>

Passes(p) == VisibleSum(p, Current(p).rows) >= Current(p).least

\* the balance is compared: the function goes on, or raises and is undone
CheckBalance(p) ==
    /\ Busy(p) /\ Current(p).do = "check"
    /\ IF Passes(p)
       THEN /\ Advance(p)
            /\ unlocked' = unlocked \cup
                   {r \in ToSet(Current(p).rows) \cap (BankRows \cup BudgetRows) : holder[r] # p}
            /\ UNCHANGED <<holder, queue, written, seen>>
       ELSE EndTransaction(p) /\ UNCHANGED unlocked
    /\ UNCHANGED <<committed, calls>>

ReadValue(p) ==
    /\ Busy(p) /\ Current(p).do = "read"
    /\ seen' = [seen EXCEPT ![p] = Visible(p, Current(p).rows[1])]
    /\ Advance(p)
    /\ UNCHANGED <<committed, holder, queue, written, calls, unlocked>>

Delta(p) ==
    LET st == Current(p)
        covered == Greater(0, Lesser(st.x, seen[p]))
    IN  st.sign * CASE st.what = "given"   -> st.x
                    [] st.what = "seen"    -> seen[p]
                    [] st.what = "covered" -> covered
                    [] st.what = "beyond"  -> st.x - covered
                    [] st.what = "itself"  -> Visible(p, st.rows[1])

Writes(p) == Busy(p) /\ Current(p).do = "write" /\ Delta(p) # 0

\* an update that does not wait for the row
ApplyDeltaUnlocked(p) ==
    /\ Writes(p)
    /\ written' = [written EXCEPT ![p][Current(p).rows[1]] = @ + Delta(p)]
    /\ Advance(p)
    /\ UNCHANGED <<committed, holder, queue, seen, calls, unlocked>>

\* put__apply_current_*_delta: INSERT ... ON CONFLICT DO UPDATE waits for the
\* key, present or not, and adds to what is committed then.  The entries that
\* make up a debt are only inserted.
ApplyDelta(p) ==
    LET r == Current(p).rows[1]
    IN  /\ Writes(p)
        /\ r \in DebtRows \/ holder[r] \in {Nobody, p}
        /\ holder' = IF r \in DebtRows THEN holder ELSE [holder EXCEPT ![r] = p]
        /\ written' = [written EXCEPT ![p][r] = @ + Delta(p)]
        /\ Advance(p)
        /\ UNCHANGED <<committed, queue, seen, calls, unlocked>>

\* IF _budget_debit_base > 0, IF _category_balance <> 0
SkipZero(p) ==
    /\ Busy(p) /\ Current(p).do = "write" /\ ~Writes(p)
    /\ Advance(p)
    /\ UNCHANGED <<committed, holder, queue, written, seen, calls, unlocked>>

Commit(p) ==
    /\ Busy(p) /\ Current(p).do = "commit"
    /\ committed' = [r \in Row |-> committed[r] + written[p][r]]
    /\ EndTransaction(p)
    /\ UNCHANGED <<calls, unlocked>>

(***************************************************************************)
(* Waiting.  PostgreSQL undoes a transaction of a cycle of waiting ones.    *)
(***************************************************************************)
WantedRow(p) == IF queue[p] # <<>> THEN Head(queue[p]) ELSE Current(p).rows[1]

Waits(p) ==
    /\ Busy(p)
    /\ queue[p] # <<>> \/ (Writes(p) /\ WantedRow(p) \notin DebtRows)
    /\ holder[WantedRow(p)] \notin {Nobody, p}

WaitsWithin(S) == \A p \in S : Waits(p) /\ holder[WantedRow(p)] \in S

InCycle(p) ==
    \E S \in SUBSET Proc :
        /\ p \in S /\ WaitsWithin(S)
        /\ \A R \in SUBSET S : R \notin {{}, S} => ~WaitsWithin(R)

AbortDeadlocked(p) ==
    /\ InCycle(p)
    /\ EndTransaction(p)
    /\ UNCHANGED <<committed, calls, unlocked>>

Step(p) ==
    \/ StartLocking(p) \/ LockRow(p) \/ CheckBalance(p) \/ ReadValue(p)
    \/ ApplyDelta(p) \/ SkipZero(p) \/ Commit(p) \/ AbortDeadlocked(p)

Next ==
    \/ \E p \in Proc, req \in Requests : Begin(p, req)
    \/ \E p \in Proc : Step(p)

Spec == Init /\ [][Next]_vars

\* a call that has begun is executed as far as its locks let it, and a
\* deadlock is broken: no fairness for clients, who need not call
FairSpec == Spec /\ \A p \in Proc : WF_vars(Step(p))

(***************************************************************************)
(* Properties.                                                              *)
(***************************************************************************)
\* Rows hold integers, a category is active or not, and a connection between
\* two calls (storage/databases.py returns it to the pool) holds no lock and
\* no uncommitted write.
TypeOK ==
    /\ committed \in [Row -> Int]
    /\ holder \in [Row -> Proc \cup {Nobody}]
    /\ seen \in [Proc -> Int]
    /\ calls \in [Proc -> 0..MaxCalls]
    /\ unlocked \subseteq BankRows \cup BudgetRows
    /\ \A c \in Category : committed[ActiveRow(c)] \in {0, 1}
    /\ \A p \in Proc : ~Busy(p) =>
           written[p] = NoWrites /\ queue[p] = <<>> /\ \A r \in Row : holder[r] # p

\* While a function holds a row no other one changes it: what it has compared
\* after FOR UPDATE is still so when it writes (DEVELOPMENT_GUIDELINES 1).  The
\* debt of a card is no row but a sum over entries, which nobody locks.
LockedBalanceIsStable ==
    [][\A r \in Row \ DebtRows : holder[r] \in Proc /\ holder'[r] = holder[r]
           => committed'[r] = committed[r]]_vars

\* Personal cash falls below zero, or a card below its limit, only after some
\* function has accepted the balance without holding its row: the row was
\* absent when it was to be locked, or the function does not lock.
OverdraftNeedsUnlockedCheck ==
    \A a \in Account :
        /\ IsCard[a] \/ IsPersonal[a]
        /\ BankRow(a) \notin unlocked
        => committed[BankRow(a)] >= Floor(a)

\* Allocations overdraw the free budget, Unallocated with FX Result, only by
\* such a decision too.
FreeBudgetNeedsUnlockedCheck ==
    BudgetRow(Unallocated) \notin unlocked =>
        committed[BudgetRow(Unallocated)] + committed[BudgetRow(FxResult)] >= 0

\* The lock of put__reverse_operation "serialises two cancels of the same
\* operation": none is undone twice.
OperationsReversedOnce == \A k \in DOMAIN Past : committed[OpRow(k)] \in {0, 1}

\* Money in the budget is the money on the accounts and the debt the cards
\* have brought in, however the functions interleave: races may overdraw, but
\* no update is lost.
BudgetIsMoney ==
    SumFunctionOnSet(committed, BudgetRows) = SumFunctionOnSet(committed, BankRows \cup DebtRows)

\* Every call ends, by its commit, an exception or the deadlock detector.
EveryCallEnds == \A p \in Proc : Busy(p) ~> ~Busy(p)

(***************************************************************************)
(* What comments and guidelines say of the code and interleavings refute.   *)
(***************************************************************************)
\* put__record_expense: "Lock the balance row to prevent concurrent
\* over-spend": no card is ever past its credit limit.
CardWithinLimit ==
    \A a \in Account : IsCard[a] => committed[BankRow(a)] >= Floor(a)

\* docs/2026-11-02-cc-overpayment.md: paying a card back takes the lesser of
\* the payment and the debt from the budget, so a debt is never paid twice.
DebtNeverOverpaid == \A r \in DebtRows : committed[r] >= 0
=============================================================================
