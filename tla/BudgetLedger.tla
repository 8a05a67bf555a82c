---------------------------- MODULE BudgetLedger ----------------------------
(***************************************************************************)
(* The bank and budget ledger of src/infra/db/Scripts/budgeting/func.       *)
(*                                                                         *)
(* Every action is one SQL function called in a transaction of its own: it  *)
(* either commits all its rows or raises and leaves nothing.  (What happens  *)
(* between the statements of two such functions is the subject of           *)
(* LedgerLocks.)  The tables a function writes together are the fields of   *)
(* the variable ledger:                                                     *)
(*   operations  operations with its bank_entries, budget_entries and       *)
(*               lot_consumptions; the id of an operation is its index      *)
(*   lots        fx_lots, in (created_at, id) order                         *)
(*   amount      current_bank_balances.amount (an absent row is 0)          *)
(*   cost        current_bank_balances.historical_cost_in_base              *)
(*   budget      current_budget_balances.amount                             *)
(* Money on accounts is counted in ticks, the finest unit the columns hold; *)
(* budgets and costs in cents of the base currency.                         *)
(***************************************************************************)
EXTENDS Integers, Sequences, FiniteSetsExt, SequencesExt, RowSums

CONSTANTS
    Owner, FamilyOwner,       \* budget owners; those that are families
    Account, AccountOwner,    \* bank accounts and whose they are
    AccountKind,              \* "cash", "credit_card" or "investment"
    Currency, OwnerBase,      \* currencies and each owner's base currency
    Regular, RegularOwner,    \* regular categories and whose they are
    GroupPlans,               \* leaf members of the groups, in id order: their
                              \* category and share
    TicksPerCent,             \* resolution of account amounts
    Amounts, Costs,           \* amounts a caller may pass
    TaxPercents, Limits,      \* income taxes and credit limits
    MaxOperations             \* bound on the length of the history

ASSUME OwnershipAssumption ==
    /\ IsFiniteSet(Owner) /\ IsFiniteSet(Regular)
    /\ IsFiniteSet(Account) /\ IsFiniteSet(Currency)
    /\ FamilyOwner \subseteq Owner
    /\ AccountOwner \in [Account -> Owner]
    /\ AccountKind \in [Account -> {"cash", "credit_card", "investment"}]
    /\ OwnerBase \in [Owner -> Currency]
    /\ RegularOwner \in [Regular -> Owner]

\* The members of a group, in the order of their ids: Unallocated is made with
\* its owner, before any regular category.
ASSUME PlansAssumption ==
    \A plan \in GroupPlans :
        /\ DOMAIN plan = 1..Len(plan) /\ Len(plan) \in Nat
        /\ \A k \in DOMAIN plan : /\ plan[k].share \in Nat
                                  /\ plan[k].category \notin Regular => k = 1

ASSUME AmountAssumption ==
    /\ TicksPerCent \in Nat \ {0}
    /\ Amounts \subseteq Nat \ {0}
    /\ Costs \subseteq Nat \ {0}
    /\ TaxPercents \subseteq 0..99
    /\ Limits \subseteq Nat \ {0}
    /\ MaxOperations \in Nat

VARIABLES ledger, creditLimit, activeAccounts, activeCategories

vars == <<ledger, creditLimit, activeAccounts, activeCategories>>

(***************************************************************************)
(* Accounts, categories and the values of rows.                             *)
(***************************************************************************)
Balance == Account \X Currency

Unallocated(o) == <<o, "Unallocated">>
FxResult(o)    == <<o, "FX Result">>
SystemCategory == Owner \X {"Unallocated", "FX Result"}
Category       == Regular \cup SystemCategory

ASSUME CategoryAssumption == Regular \cap SystemCategory = {}

CategoryOwner(c) == IF c \in Regular THEN RegularOwner[c] ELSE c[1]

IsCash(a)   == AccountKind[a] = "cash"
IsCredit(a) == AccountKind[a] = "credit_card"
BaseOf(a)   == OwnerBase[AccountOwner[a]]
IsBase(b)   == b[2] = BaseOf(b[1])

(* round(amount, 2) of an amount in the base currency. *)
InBase(amount) == RoundDiv(amount, TicksPerCent)

OperationType == {"income", "expense", "exchange", "account_transfer",
                  "allocate", "group_allocate", "reversal"}

Operation ==
    [type : OperationType, owner : Owner,
     reverses : Nat,                        \* reversal_of_operation_id, or 0
     bank : [Balance -> Int],               \* bank_entries, 0 for no row
     from : [Category -> Int],              \* budget_entries of the source
     to : [Category -> Int],                \* budget_entries of the targets
     used : Seq(Int), usedCost : Seq(Int)]  \* lot_consumptions, per lot

Lot == [account : Account, currency : Currency,
        initial : Nat \ {0}, remaining : Nat,
        costInitial : Nat \ {0}, cost : Nat, openedBy : Nat \ {0}]

Ledger == [operations : Seq(Operation), lots : Seq(Lot),
           amount : [Balance -> Int], cost : [Balance -> Int],
           budget : [Category -> Int]]

TypeOK ==
    /\ ledger \in Ledger
    /\ creditLimit \in [Account -> Nat]
    /\ activeAccounts \subseteq Account
    /\ activeCategories \subseteq Regular

NoBank   == [b \in Balance |-> 0]
NoBudget == [c \in Category |-> 0]
On(key, x) == [b \in Balance |-> IF b = key THEN x ELSE 0]
In(key, x) == [c \in Category |-> IF c = key THEN x ELSE 0]

Plus(f, g)  == [x \in DOMAIN f |-> f[x] + g[x]]
Minus(f, g) == [x \in DOMAIN f |-> f[x] - g[x]]
Negated(f)  == [x \in DOMAIN f |-> -f[x]]

(***************************************************************************)
(* FX lots.  A withdrawal of a foreign currency consumes the account's lots *)
(* oldest first; the cost of a part of a lot is rounded, the last part      *)
(* takes what is left.  A withdrawal of base currency uses no lot.          *)
(***************************************************************************)
OnBalance(lot, b) == lot.account = b[1] /\ lot.currency = b[2]

\* amount_remaining of the account's lots, row by row
Remaining(lots, b) ==
    [i \in DOMAIN lots |-> IF OnBalance(lots[i], b) THEN lots[i].remaining ELSE 0]

\* variant for mutation: the oldest lot gives everything
TakenFromOldest(lots, b, amount) ==
    [i \in DOMAIN lots |->
        IF OnBalance(lots[i], b) /\ SumTo(Remaining(lots, b), i - 1) = 0
           /\ lots[i].remaining > 0
        THEN amount ELSE 0]

\* LEAST(_remaining_to_consume, amount_remaining) when the loop reaches lot i
Taken(lots, b, amount) ==
    [i \in DOMAIN lots |->
        IF OnBalance(lots[i], b)
        THEN Lesser(lots[i].remaining,
                    Greater(0, amount - SumTo(Remaining(lots, b), i - 1)))
        ELSE 0]

\* variant for mutation: the price of the whole lot, rounded on every part
CostAtOpeningRate(lot, part) == RoundDiv(lot.costInitial * part, lot.initial)

CostOfPart(lot, part) ==
    IF part = lot.remaining THEN lot.cost
                            ELSE RoundDiv(lot.cost * part, lot.remaining)

CostTaken(lots, taken) == [i \in DOMAIN lots |-> CostOfPart(lots[i], taken[i])]

Unused(lots) == [i \in DOMAIN lots |-> 0]

\* what a withdrawal does to the lots, and its historical cost
Withdrawal(s, b, amount) ==
    IF IsBase(b)
    THEN [used |-> Unused(s.lots), usedCost |-> Unused(s.lots),
          cost |-> InBase(amount)]
    ELSE LET taken == Taken(s.lots, b, amount)
             costs == CostTaken(s.lots, taken)
         IN  [used |-> taken,
              usedCost |-> [i \in DOMAIN s.lots |->
                               IF taken[i] > 0 THEN costs[i] ELSE 0],
              cost |-> SumTo([i \in DOMAIN s.lots |->
                               IF taken[i] > 0 THEN costs[i] ELSE 0],
                             Len(s.lots))]

LotsSuffice(s, b, amount) ==
    IsBase(b) \/ SumTo(Remaining(s.lots, b), Len(s.lots)) >= amount

AfterUse(lots, used, usedCost) ==
    [i \in DOMAIN lots |->
        [lots[i] EXCEPT !.remaining = @ - used[i], !.cost = @ - usedCost[i]]]

NewLot(s, b, amount, cost) ==
    [account |-> b[1], currency |-> b[2], initial |-> amount,
     remaining |-> amount, costInitial |-> cost, cost |-> cost,
     openedBy |-> Len(s.operations) + 1]

\* fx_lots CHECK (buy_rate_in_base > 0): a lot cannot be opened at no cost
LotAllowed(b, cost) == IsBase(b) \/ cost > 0

(***************************************************************************)
(* One operation and everything it writes: its rows, the lots it used and   *)
(* opened, and the two current_* projections moved by the deltas.           *)
(***************************************************************************)
Posted(s, op, costDelta, opened) ==
    [operations |-> Append(s.operations, op),
     lots   |-> AfterUse(s.lots, op.used, op.usedCost) \o opened,
     amount |-> Plus(s.amount, op.bank),
     cost   |-> Plus(s.cost, costDelta),
     budget |-> Minus(Plus(s.budget, op.to), op.from)]

Op(type, owner, bank, from, to, w) ==
    [type |-> type, owner |-> owner, reverses |-> 0, bank |-> bank,
     from |-> from, to |-> to, used |-> w.used, usedCost |-> w.usedCost]

NoUse(s) == [used |-> Unused(s.lots), usedCost |-> Unused(s.lots), cost |-> 0]

\* the UI's free budget: Unallocated and FX Result as one envelope
FreeBudget(s, o) == s.budget[Unallocated(o)] + s.budget[FxResult(o)]

Init ==
    /\ ledger = [operations |-> <<>>, lots |-> <<>>, amount |-> NoBank,
                 cost |-> NoBank, budget |-> NoBudget]
    /\ creditLimit \in [Account -> Limits \cup {0}]
    /\ \A a \in Account : creditLimit[a] > 0 <=> IsCredit(a)
    /\ activeAccounts = Account
    /\ activeCategories = Regular

Room(n) == Len(ledger.operations) + n <= MaxOperations

LedgerOnly == UNCHANGED <<creditLimit, activeAccounts, activeCategories>>

(***************************************************************************)
(* put__record_income and the put__record_income_tax it may call: the tax   *)
(* is withheld from the account the income has just been paid to, by FIFO   *)
(* over all its lots, and from the free budget.                             *)
(***************************************************************************)
IncomePosted(s, a, c, amount, value) ==
    LET o == AccountOwner[a]  b == <<a, c>>
    IN  Posted(s,
               Op("income", o, On(b, amount), NoBudget,
                  In(Unallocated(o), value), NoUse(s)),
               On(b, value),
               IF IsBase(b) THEN <<>> ELSE <<NewLot(s, b, amount, value)>>)

TaxAllowed(s, a, c, tax) ==
    LET b == <<a, c>>
    IN  /\ s.amount[b] >= tax
        /\ LotsSuffice(s, b, tax)
        /\ FreeBudget(s, AccountOwner[a]) >= Withdrawal(s, b, tax).cost

TaxPosted(s, a, c, tax) ==
    LET o == AccountOwner[a]  b == <<a, c>>  w == Withdrawal(s, b, tax)
    IN  Posted(s,
               Op("expense", o, On(b, -tax), In(Unallocated(o), w.cost),
                  NoBudget, w),
               On(b, -w.cost), <<>>)

RecordIncome(a, c, amount, budgetAmount, percent) ==
    LET value == IF c = BaseOf(a) THEN InBase(amount) ELSE budgetAmount
        tax   == RoundDiv(amount * percent, 100)
        gross == IncomePosted(ledger, a, c, amount, value)
        taxCost == RoundDiv(value * percent, 100)
    IN  /\ a \in activeAccounts
        /\ IsCash(a)
        /\ \/ /\ percent = 0
              /\ Room(1)
              /\ ledger' = gross
           \/ /\ percent > 0
              /\ Room(2)
              /\ 0 < tax /\ tax < amount
              /\ 0 < taxCost /\ taxCost < value
              /\ TaxAllowed(gross, a, c, tax)
              /\ ledger' = TaxPosted(gross, a, c, tax)
        /\ LedgerOnly

(***************************************************************************)
(* put__record_expense: limited by the account, never by the category.  A   *)
(* family's cash may be overdrawn, a card down to its credit limit.         *)
(***************************************************************************)
RecordExpense(a, category, c, amount) ==
    LET b == <<a, c>>  w == Withdrawal(ledger, b, amount)
    IN  /\ Room(1)
        /\ a \in activeAccounts /\ category \in activeCategories
        /\ IsCash(a) \/ IsCredit(a)
        /\ RegularOwner[category] = AccountOwner[a]
        /\ IF IsCredit(a)
           THEN /\ IsBase(b)
                /\ ledger.amount[b] - amount >= -creditLimit[a]
           ELSE \/ ledger.amount[b] >= amount
                \/ AccountOwner[a] \in FamilyOwner
        /\ LotsSuffice(ledger, b, amount)
        /\ ledger' = Posted(ledger,
                            Op("expense", AccountOwner[a], On(b, -amount),
                               In(category, w.cost), NoBudget, w),
                            On(b, -w.cost), <<>>)
        /\ LedgerOnly

(***************************************************************************)
(* put__exchange_currency: the cost of what is given becomes the cost of    *)
(* what is bought; coming back to the base currency realises the FX result. *)
(***************************************************************************)
\* variant for mutation: gains and losses stay out of the budget
ExchangeResultIgnored(t, received, cost) == 0

ExchangeResult(t, received, cost) ==
    IF IsBase(t) THEN InBase(received) - cost ELSE 0

ExchangeCurrency(a, c, given, d, received) ==
    LET b == <<a, c>>  t == <<a, d>>  o == AccountOwner[a]
        w == Withdrawal(ledger, b, given)
        newCost == IF IsBase(t) THEN InBase(received) ELSE w.cost
        result  == ExchangeResult(t, received, w.cost)
    IN  /\ Room(1)
        /\ c # d
        /\ a \in activeAccounts /\ IsCash(a)
        /\ ledger.amount[b] >= given
        /\ LotsSuffice(ledger, b, given)
        /\ LotAllowed(t, newCost)
        /\ ledger' = Posted(ledger,
                            Op("exchange", o,
                               Plus(On(b, -given), On(t, received)),
                               NoBudget, In(FxResult(o), result), w),
                            Plus(On(b, -w.cost), On(t, newCost)),
                            IF IsBase(t) THEN <<>>
                            ELSE <<NewLot(ledger, t, received, newCost)>>)
        /\ LedgerOnly

(***************************************************************************)
(* put__transfer_between_accounts.  Money moves with its cost, and cash     *)
(* with its free budget.  A card is no part of the budget: what is drawn    *)
(* from it below zero becomes the card's budget debt, and only that debt is *)
(* charged to the budget when the card is paid back.                        *)
(***************************************************************************)
IsReversed(s, k) ==
    \E r \in DOMAIN s.operations : s.operations[r].reverses = k

\* sum of the budget rows of one operation
BudgetEffect(op) == SumFunctionOnSet(Minus(op.to, op.from), Category)

\* variant for mutation: a cancelled transfer still counts, as it once did
TransferEffectsOfAll(s, card) ==
    [k \in DOMAIN s.operations |->
        IF /\ s.operations[k].type = "account_transfer"
           /\ s.operations[k].bank[<<card, BaseOf(card)>>] # 0
        THEN BudgetEffect(s.operations[k]) ELSE 0]

TransferEffects(s, card) ==
    [k \in DOMAIN s.operations |->
        IF /\ s.operations[k].type = "account_transfer"
           /\ s.operations[k].bank[<<card, BaseOf(card)>>] # 0
           /\ ~IsReversed(s, k)
        THEN BudgetEffect(s.operations[k]) ELSE 0]

\* sum of the budget rows of the live transfers that touch the card
TransferDebt(s, card) == SumTo(TransferEffects(s, card), Len(s.operations))

CardBudgetDebt(s, card) == Greater(0, TransferDebt(s, card))

\* variant for mutation: repaying a card is charged in full
BudgetDebitInFull(s, a, t, cost) == IF IsCash(a) THEN cost ELSE 0

BudgetDebit(s, a, t, cost) ==
    IF ~IsCash(a) THEN 0
    ELSE IF IsCredit(t) THEN Lesser(cost, CardBudgetDebt(s, t)) ELSE cost

\* variant for mutation: everything drawn from a card is new money
BudgetCreditInFull(s, a, t, b, amount, cost) == IF IsCash(t) THEN cost ELSE 0

\* an overpayment on the source card is own money already in the budget
BudgetCredit(s, a, t, b, amount, cost) ==
    IF ~IsCash(t) THEN 0
    ELSE IF IsCredit(a)
         THEN InBase(amount - Greater(0, Lesser(amount, s.amount[b])))
         ELSE cost

TransferBetweenAccounts(a, t, c, amount) ==
    LET b == <<a, c>>  w == Withdrawal(ledger, b, amount)
        debit  == BudgetDebit(ledger, a, t, w.cost)
        credit == BudgetCredit(ledger, a, t, b, amount, w.cost)
    IN  /\ Room(1)
        /\ a # t /\ {a, t} \subseteq activeAccounts
        /\ BaseOf(a) = BaseOf(t)
        /\ IsCredit(a) \/ IsCredit(t) => IsBase(b)
        /\ ~(IsCredit(a) /\ AccountKind[t] = "investment")
        /\ ~(AccountKind[a] = "investment" /\ IsCredit(t))
        /\ IF IsCredit(a) THEN ledger.amount[b] - amount >= -creditLimit[a]
                          ELSE ledger.amount[b] >= amount
        /\ LotsSuffice(ledger, b, amount)
        /\ LotAllowed(b, w.cost)
        /\ ledger' = Posted(ledger,
                            Op("account_transfer", AccountOwner[a],
                               Plus(On(b, -amount), On(<<t, c>>, amount)),
                               In(Unallocated(AccountOwner[a]), debit),
                               In(Unallocated(AccountOwner[t]), credit), w),
                            Plus(On(b, -w.cost), On(<<t, c>>, w.cost)),
                            IF IsBase(b) THEN <<>>
                            ELSE <<NewLot(ledger, <<t, c>>, amount, w.cost)>>)
        /\ LedgerOnly

(***************************************************************************)
(* put__allocate_budget and put__allocate_group_budget.  Only the free      *)
(* budget has to cover what leaves it; a regular category may go negative.  *)
(***************************************************************************)
Allocatable(c) == c \in activeCategories \/ c \in Owner \X {"Unallocated"}

\* variant for mutation: the losses of exchanges are left out
CanGiveUnallocated(s, c, amount) ==
    c \in Regular \/ s.budget[Unallocated(CategoryOwner(c))] >= amount

CanGive(s, c, amount) == c \in Regular \/ FreeBudget(s, CategoryOwner(c)) >= amount

AllocateBudget(f, t, amount) ==
    /\ Room(1)
    /\ f # t /\ Allocatable(f) /\ Allocatable(t)
    /\ CategoryOwner(f) = CategoryOwner(t)
    /\ CanGive(ledger, f, amount)
    /\ ledger' = Posted(ledger,
                        Op("allocate", CategoryOwner(f), NoBank,
                           In(f, amount), In(t, amount), NoUse(ledger)),
                        NoBank, <<>>)
    /\ LedgerOnly

\* every member gets its rounded share, the last one what is left
GroupLine(plan, amount) ==
    LET share == [k \in DOMAIN plan |-> RoundDiv(amount * plan[k].share, 100)]
    IN  [k \in DOMAIN plan |->
            IF k < Len(plan) THEN share[k]
                             ELSE amount - SumTo(share, Len(plan) - 1)]

MemberCredit(plan, amount) ==
    [c \in Category |->
        SumTo([k \in DOMAIN plan |->
                 IF plan[k].category = c THEN GroupLine(plan, amount)[k] ELSE 0],
              Len(plan))]

AllocateGroupBudget(f, plan, amount) ==
    LET credit == MemberCredit(plan, amount)
    IN  /\ Room(1)
        /\ Len(plan) > 0
        /\ Allocatable(f)
        /\ \A k \in DOMAIN plan : /\ Allocatable(plan[k].category)
                                  /\ CategoryOwner(plan[k].category) = CategoryOwner(f)
        /\ CanGive(ledger, f, amount - credit[f])
        /\ ledger' = Posted(ledger,
                            Op("group_allocate", CategoryOwner(f), NoBank,
                               In(f, amount), credit, NoUse(ledger)),
                            NoBank, <<>>)
        /\ LedgerOnly

(***************************************************************************)
(* put__reverse_operation: the entries mirrored, the lots used given back,  *)
(* the lots opened emptied.                                                 *)
(***************************************************************************)
OpenedBy(s, k) == {i \in DOMAIN s.lots : s.lots[i].openedBy = k}

\* variant for mutation: only an exhausted lot stops a reversal
NotExhausted(lot) == lot.remaining > 0

Untouched(lot) == lot.remaining = lot.initial /\ lot.cost = lot.costInitial

\* the account can give back what the operation brought it
BankCovers(s, limits, op) ==
    \A b \in Balance : op.bank[b] > 0 =>
        IF IsCredit(b[1]) THEN s.amount[b] - op.bank[b] >= -limits[b[1]]
                          ELSE s.amount[b] >= op.bank[b]

\* variant for mutation: the free budget is not asked
BudgetCoversResultOnly(s, op) ==
    \A o \in Owner :
        op.to[FxResult(o)] > 0 => s.budget[FxResult(o)] >= op.to[FxResult(o)]

\* a system category can; Unallocated together with FX Result
BudgetCovers(s, op) ==
    \A o \in Owner :
        /\ op.to[Unallocated(o)] > 0 => FreeBudget(s, o) >= op.to[Unallocated(o)]
        /\ op.to[FxResult(o)] > 0 => s.budget[FxResult(o)] >= op.to[FxResult(o)]

\* variant for mutation: the second cancel of an operation is not noticed
ReversibleAgain(s, limits, k) ==
    /\ s.operations[k].type # "reversal"
    /\ \A i \in OpenedBy(s, k) : Untouched(s.lots[i])
    /\ BankCovers(s, limits, s.operations[k])
    /\ BudgetCovers(s, s.operations[k])

Reversible(s, limits, k) ==
    /\ s.operations[k].type # "reversal"
    /\ ~IsReversed(s, k)
    /\ \A i \in OpenedBy(s, k) : Untouched(s.lots[i])
    /\ BankCovers(s, limits, s.operations[k])
    /\ BudgetCovers(s, s.operations[k])

\* used lots of the operation, padded to the lots there are now
UsedNow(s, row) ==
    [i \in DOMAIN s.lots |-> IF i \in DOMAIN row THEN row[i] ELSE 0]

ReversalOf(s, k) ==
    LET op == s.operations[k]
    IN  [type |-> "reversal", owner |-> op.owner, reverses |-> k,
         bank |-> Negated(op.bank),
         from |-> Negated(op.from), to |-> Negated(op.to),
         used |-> Negated(UsedNow(s, op.used)),
         usedCost |-> Negated(UsedNow(s, op.usedCost))]

\* variant for mutation: every currency costed like the base currency
ReversalCostAtPar(s, k) ==
    [b \in Balance |-> -InBase(s.operations[k].bank[b])]

\* -cost_base_initial of the lots opened, or cost_base of the lots used
ReversalCost(s, k) ==
    LET op == s.operations[k]
        opened(c) == SumTo([i \in DOMAIN s.lots |->
                        IF i \in OpenedBy(s, k) /\ s.lots[i].currency = c
                        THEN s.lots[i].costInitial ELSE 0], Len(s.lots))
        usedOf(c) == SumTo([i \in DOMAIN s.lots |->
                        IF s.lots[i].currency = c
                        THEN UsedNow(s, op.usedCost)[i] ELSE 0], Len(s.lots))
    IN  [b \in Balance |->
            IF op.bank[b] = 0 THEN 0
            ELSE IF b[2] = OwnerBase[op.owner] THEN -InBase(op.bank[b])
            ELSE IF op.bank[b] > 0 THEN -opened(b[2]) ELSE usedOf(b[2])]

\* variant for mutation: the opened lots survive the reversal
NotEmptied(lots, ids) == lots

Emptied(lots, ids) ==
    [i \in DOMAIN lots |->
        IF i \in ids THEN [lots[i] EXCEPT !.remaining = 0, !.cost = 0]
                     ELSE lots[i]]

ReverseOperation(k) ==
    LET posted == Posted(ledger, ReversalOf(ledger, k), ReversalCost(ledger, k), <<>>)
    IN  /\ Room(1)
        /\ Reversible(ledger, creditLimit, k)
        /\ ledger' = [posted EXCEPT !.lots = Emptied(@, OpenedBy(ledger, k))]
        /\ LedgerOnly

(***************************************************************************)
(* rebuild_current_balances: the projections computed anew from the rows.   *)
(***************************************************************************)
EntriesOn(s, b) ==
    SumTo([k \in DOMAIN s.operations |-> s.operations[k].bank[b]],
          Len(s.operations))

EntriesIn(s, c) ==
    SumTo([k \in DOMAIN s.operations |->
              s.operations[k].to[c] - s.operations[k].from[c]],
          Len(s.operations))

LotCost(s, b) ==
    SumTo([i \in DOMAIN s.lots |->
              IF OnBalance(s.lots[i], b) /\ s.lots[i].remaining > 0
              THEN s.lots[i].cost ELSE 0], Len(s.lots))

Rebuilt(s) ==
    [s EXCEPT !.amount = [b \in Balance |-> EntriesOn(s, b)],
              !.cost   = [b \in Balance |-> IF IsBase(b) THEN InBase(EntriesOn(s, b))
                                                         ELSE LotCost(s, b)],
              !.budget = [c \in Category |-> EntriesIn(s, c)]]

RebuildCurrentBalances ==
    /\ ledger' = Rebuilt(ledger)
    /\ LedgerOnly

(***************************************************************************)
(* set__update_credit_account, set__archive_credit_account and              *)
(* set__archive_category.                                                   *)
(***************************************************************************)
\* variant for mutation: the limit may be set below the debt
UpdateCreditLimitFreely(a, limit) ==
    /\ a \in activeAccounts /\ IsCredit(a)
    /\ creditLimit' = [creditLimit EXCEPT ![a] = limit]
    /\ UNCHANGED <<ledger, activeAccounts, activeCategories>>

UpdateCreditLimit(a, limit) ==
    /\ a \in activeAccounts /\ IsCredit(a)
    /\ limit >= Greater(0, -ledger.amount[<<a, BaseOf(a)>>])
    /\ creditLimit' = [creditLimit EXCEPT ![a] = limit]
    /\ UNCHANGED <<ledger, activeAccounts, activeCategories>>

ArchiveCreditAccount(a) ==
    /\ a \in activeAccounts /\ IsCredit(a)
    /\ MapThenSumSet(LAMBDA c : ledger.cost[<<a, c>>], Currency) = 0
    /\ activeAccounts' = activeAccounts \ {a}
    /\ UNCHANGED <<ledger, creditLimit, activeCategories>>

\* a category still in a group cannot be archived; its balance, of either
\* sign, goes to Unallocated first
InGroup(c) == \E plan \in GroupPlans : \E k \in DOMAIN plan : plan[k].category = c

ArchiveCategory(c) ==
    LET left == ledger.budget[c]  o == RegularOwner[c]
    IN  /\ c \in activeCategories
        /\ ~InGroup(c)
        /\ \/ left = 0 /\ UNCHANGED ledger
           \/ /\ left # 0
              /\ Room(1)
              /\ ledger' = Posted(ledger,
                                  Op("allocate", o, NoBank, In(c, left),
                                     In(Unallocated(o), left), NoUse(ledger)),
                                  NoBank, <<>>)
        /\ activeCategories' = activeCategories \ {c}
        /\ UNCHANGED <<creditLimit, activeAccounts>>

Next ==
    \/ \E a \in Account, c \in Currency, amount \in Amounts, v \in Costs, p \in TaxPercents :
          RecordIncome(a, c, amount, v, p)
    \/ \E a \in Account, g \in Regular, c \in Currency, amount \in Amounts :
          RecordExpense(a, g, c, amount)
    \/ \E a \in Account, c, d \in Currency, given, received \in Amounts :
          ExchangeCurrency(a, c, given, d, received)
    \/ \E a, t \in Account, c \in Currency, amount \in Amounts :
          TransferBetweenAccounts(a, t, c, amount)
    \/ \E f, t \in Category, amount \in Amounts : AllocateBudget(f, t, amount)
    \/ \E f \in Category, plan \in GroupPlans, amount \in Amounts :
          AllocateGroupBudget(f, plan, amount)
    \/ \E k \in DOMAIN ledger.operations : ReverseOperation(k)
    \/ RebuildCurrentBalances
    \/ \E a \in Account, limit \in Limits : UpdateCreditLimit(a, limit)
    \/ \E a \in Account : ArchiveCreditAccount(a)
    \/ \E c \in Regular : ArchiveCategory(c)

Spec == Init /\ [][Next]_vars

(***************************************************************************)
(* Properties                                                               *)
(***************************************************************************)
\* What BUSINESS_LOGIC.md promises of the current_* tables: after any history
\* of incomes, exchanges, transfers, reversals, ... rebuild_current_balances
\* would write exactly what the incremental deltas have left there.
RebuildChangesNothing == Rebuilt(ledger) = ledger

\* The money on a foreign-currency balance is the money left in its FX lots,
\* so a withdrawal that passes the balance check never runs out of lots.
LotsBackBalances ==
    \A b \in Balance : ~IsBase(b) =>
        SumTo(Remaining(ledger.lots, b), Len(ledger.lots)) = ledger.amount[b]

\* What was ever consumed from a lot, by operations not taken back, is what is
\* missing from it, in money and in cost; a lot whose operation was reversed
\* is empty and no live consumption is left on it.
UsedOf(i) ==
    SumTo([k \in DOMAIN ledger.operations |->
              UsedNow(ledger, ledger.operations[k].used)[i]], Len(ledger.operations))
UsedCostOf(i) ==
    SumTo([k \in DOMAIN ledger.operations |->
              UsedNow(ledger, ledger.operations[k].usedCost)[i]], Len(ledger.operations))
LotsMatchConsumptions ==
    \A i \in DOMAIN ledger.lots :
        LET lot == ledger.lots[i]
        IN  IF IsReversed(ledger, lot.openedBy)
            THEN lot.remaining = 0 /\ lot.cost = 0 /\ UsedOf(i) = 0
            ELSE /\ lot.remaining = lot.initial - UsedOf(i)
                 /\ lot.cost = lot.costInitial - UsedCostOf(i)

\* No lot keeps a cost without money: rounding the cost of partial uses never
\* strands a cent, so no cost escapes rebuild's "amount_remaining > 0".
NoStrandedCost ==
    \A i \in DOMAIN ledger.lots :
        /\ ledger.lots[i].remaining >= 0 /\ ledger.lots[i].cost >= 0
        /\ ledger.lots[i].remaining = 0 => ledger.lots[i].cost = 0

\* Personal cash and investment accounts are never overdrawn and no card goes
\* past its limit, whatever is spent, reversed or re-limited.
AccountsSolvent ==
    \A b \in Balance :
        /\ IsCredit(b[1]) => ledger.amount[b] >= -creditLimit[b[1]]
        /\ ~IsCredit(b[1]) /\ AccountOwner[b[1]] \notin FamilyOwner => ledger.amount[b] >= 0

\* An operation is taken back at most once, and a reversal never.
ReversedAtMostOnce ==
    \A r, q \in DOMAIN ledger.operations :
        LET k == ledger.operations[r].reverses
        IN  k # 0 => /\ k < r
                     /\ ledger.operations[k].type # "reversal"
                     /\ ledger.operations[q].reverses = k => q = r

\* The model agreed for cards (docs/2026-11-02-cc-overpayment.md): the budget
\* is the cash, plus the card balances, plus the cards' budget debt.
InBudget(cost) == [b \in Balance |-> IF AccountKind[b[1]] # "investment" THEN cost[b] ELSE 0]
DebtOfCards(s) == [a \in Account |-> IF IsCredit(a) THEN TransferDebt(s, a) ELSE 0]
BudgetIsMoney ==
    SumFunctionOnSet(ledger.budget, Category) =
      SumFunctionOnSet(InBudget(ledger.cost), Balance)
      + SumFunctionOnSet(DebtOfCards(ledger), Account)

\* Paying a card back is charged to the budget once: however often a card is
\* drawn on, overpaid, paid back and spent from, its budget debt stays between
\* nothing and what the card really owes.  A reversal out of order may break
\* this (docs/2026-11-02-cc-repay-after-reversal.md, limitations), and so does
\* paying one card with another, which writes no budget entries: the first is
\* owed no more and keeps its debt, the second owes it and has none.
BetweenCards(op) ==
    \E b, d \in Balance : /\ IsCredit(b[1]) /\ op.bank[b] < 0
                         /\ IsCredit(d[1]) /\ op.bank[d] > 0

CardDebtIsOwed ==
    \A a \in Account :
        LET b == <<a, BaseOf(a)>>
        IN  /\ IsCredit(a)
            /\ \A k \in DOMAIN ledger.operations :
                  LET op == ledger.operations[k]
                  IN  op.bank[b] # 0 => op.reverses = 0 /\ ~BetweenCards(op)
            => /\ TransferDebt(ledger, a) >= 0
               /\ TransferDebt(ledger, a) <= Greater(0, -ledger.amount[b])

\* A tax, an allocation or a reversal never takes the free budget below zero.
\* What may: money leaving the budget with a transfer, a loss realised by an
\* exchange (or an exchange's gain taken back), an overspent category archived.
LastOperation == ledger.operations[Len(ledger.operations)]
FreeBudgetDrawn(o) == /\ FreeBudget(ledger, o)' < 0
                      /\ FreeBudget(ledger, o)' < FreeBudget(ledger, o)
MayOverdrawFreeBudget(op) ==
    \/ op.type \in {"account_transfer", "exchange"}
    \/ op.reverses # 0 /\ ledger.operations[op.reverses].type = "exchange"
FreeBudgetGuarded ==
    [][\A o \in Owner : FreeBudgetDrawn(o) =>
          MayOverdrawFreeBudget(LastOperation') \/ activeCategories' # activeCategories]_vars

\* set__archive_credit_account: "An archived account accepts no transfers, so
\* an overpayment would be lost": no money of the owner is on an archived card.
ArchivedCardHoldsNoMoney ==
    \A a \in Account \ activeAccounts :
        \A c \in Currency : ledger.amount[<<a, c>>] <= 0
=============================================================================
