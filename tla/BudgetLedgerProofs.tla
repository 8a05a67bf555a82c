------------------------- MODULE BudgetLedgerProofs -------------------------
(***************************************************************************)
(* Proofs about BudgetLedger, for any owners, accounts, currencies, amounts *)
(* and length of history: its types (which include that no lot is used      *)
(* beyond what it holds), that no cost is stranded on an empty lot, and     *)
(* what the history of operations says of the balances: the projections are *)
(* the sums of the entries, an operation is taken back once, and no account *)
(* that must not be overdrawn ever is.  Last, who may draw on an overdrawn  *)
(* free budget.                                                             *)
(***************************************************************************)
EXTENDS BudgetLedger, RowSumsProofs, SequenceTheorems, FiniteSetTheorems

(***************************************************************************)
(* Arithmetic.                                                              *)
(***************************************************************************)
LEMMA DivBounds ==
    ASSUME NEW n \in Int, NEW d \in Nat \ {0}
    PROVE  n \div d \in Int /\ d * (n \div d) <= n /\ n < d * (n \div d) + d
BY SMT

LEMMA RoundDivInt ==
    ASSUME NEW n \in Int, NEW d \in Nat \ {0}
    PROVE  RoundDiv(n, d) \in Int
<1>1. 2 * d \in Nat \ {0} /\ 2 * n + d \in Int /\ 2 * (-n) + d \in Int
  BY SMT
<1>2. (2 * n + d) \div (2 * d) \in Int /\ (2 * (-n) + d) \div (2 * d) \in Int
  BY <1>1, DivBounds
<1> QED BY <1>2, SMT DEF RoundDiv

\* Rounding the price of a part never exceeds the price of the whole.
LEMMA RoundDivPart ==
    ASSUME NEW c \in Nat, NEW p \in Nat, NEW r \in Nat \ {0}, p <= r
    PROVE  RoundDiv(c * p, r) \in Nat /\ RoundDiv(c * p, r) <= c
<1> DEFINE x == c * p
           y == c * r
           q == (2 * x + r) \div (2 * r)
<1>1. x \in Nat /\ y \in Nat /\ x <= y
  BY SMT
<1>2. 2 * r \in Nat \ {0} /\ 2 * x + r \in Int
  BY <1>1, SMT
<1>3. q \in Int /\ (2 * r) * q <= 2 * x + r /\ 2 * x + r < (2 * r) * q + 2 * r
  BY <1>2, DivBounds
<1>4. q >= 0
  <2> SUFFICES ASSUME q <= -1 PROVE FALSE
    BY <1>3, SMT
  <2>1. (2 * r) * q <= (2 * r) * (-1)
    <3> HIDE DEF q
    <3> QED BY <1>2, <1>3, SMT
  <2> HIDE DEF q, x
  <2> QED BY <1>1, <1>2, <1>3, <2>1, SMT
<1>5. q <= c
  <2> SUFFICES ASSUME q >= c + 1 PROVE FALSE
    BY <1>3, SMT
  <2>1. (2 * r) * q >= (2 * r) * (c + 1)
    <3> HIDE DEF q
    <3> QED BY <1>2, <1>3, SMT
  <2>2. (2 * r) * (c + 1) = 2 * y + 2 * r
    BY SMT
  <2> HIDE DEF q, x, y
  <2> QED BY <1>1, <1>2, <1>3, <2>1, <2>2, SMT
<1>6. RoundDiv(c * p, r) = q
  BY <1>1, SMT DEF RoundDiv
<1> QED BY <1>3, <1>4, <1>5, <1>6, SMT

(***************************************************************************)
(* The fields of rows.                                                      *)
(***************************************************************************)
LEMMA LedgerFields ==
    ASSUME NEW s \in Ledger
    PROVE  /\ s.operations \in Seq(Operation) /\ s.lots \in Seq(Lot)
           /\ s.amount \in [Balance -> Int] /\ s.cost \in [Balance -> Int]
           /\ s.budget \in [Category -> Int]
           /\ Len(s.operations) \in Nat /\ DOMAIN s.operations = 1..Len(s.operations)
           /\ Len(s.lots) \in Nat /\ DOMAIN s.lots = 1..Len(s.lots)
           /\ \A k \in DOMAIN s.operations : s.operations[k] \in Operation
           /\ \A i \in DOMAIN s.lots : s.lots[i] \in Lot
<1>1. /\ s.operations \in Seq(Operation) /\ s.lots \in Seq(Lot)
      /\ s.amount \in [Balance -> Int] /\ s.cost \in [Balance -> Int]
      /\ s.budget \in [Category -> Int]
  BY SMT DEF Ledger
<1> QED BY <1>1, LenProperties, ElementOfSeq

LEMMA OperationFields ==
    ASSUME NEW op \in Operation
    PROVE  /\ op.type \in OperationType /\ op.owner \in Owner /\ op.reverses \in Nat
           /\ op.bank \in [Balance -> Int]
           /\ op.from \in [Category -> Int] /\ op.to \in [Category -> Int]
           /\ op.used \in Seq(Int) /\ op.usedCost \in Seq(Int)
BY SMT DEF Operation

LEMMA LotFields ==
    ASSUME NEW lot \in Lot
    PROVE  /\ lot.account \in Account /\ lot.currency \in Currency
           /\ lot.initial \in Nat \ {0} /\ lot.remaining \in Nat
           /\ lot.costInitial \in Nat \ {0} /\ lot.cost \in Nat
           /\ lot.openedBy \in Nat \ {0}
BY SMT DEF Lot

\* A row of numbers, one per lot.
LEMMA RowOfLots ==
    ASSUME NEW S, NEW n \in Nat, NEW f \in [1..n -> S]
    PROVE  f \in Seq(S) /\ Len(f) = n /\ DOMAIN f = 1..n
BY SeqDef, SMT

LEMMA BalanceParts ==
    ASSUME NEW b \in Balance
    PROVE  /\ b[1] \in Account /\ b[2] \in Currency
           /\ AccountOwner[b[1]] \in Owner /\ BaseOf(b[1]) \in Currency
BY OwnershipAssumption, SMT DEF Balance, BaseOf

LEMMA InBaseInt == ASSUME NEW x \in Int PROVE InBase(x) \in Int
BY AmountAssumption, RoundDivInt DEF InBase

LEMMA RowValues ==
    /\ NoBank \in [Balance -> Int] /\ NoBudget \in [Category -> Int]
    /\ \A key : \A x \in Int : On(key, x) \in [Balance -> Int]
    /\ \A key : \A x \in Int : In(key, x) \in [Category -> Int]
BY SMT DEF NoBank, NoBudget, On, In

LEMMA PlusMinus ==
    ASSUME NEW S, NEW f \in [S -> Int], NEW g \in [S -> Int]
    PROVE  /\ Plus(f, g) \in [S -> Int] /\ Minus(f, g) \in [S -> Int]
           /\ Negated(f) \in [S -> Int]
           /\ \A x \in S : Plus(f, g)[x] = f[x] + g[x]
           /\ \A x \in S : Negated(f)[x] = -f[x]
BY SMT DEF Plus, Minus, Negated

(***************************************************************************)
(* The budget rows of an operation.                                         *)
(***************************************************************************)
LEMMA CategoryFinite == IsFiniteSet(Category)
<1>1. IsFiniteSet({"Unallocated", "FX Result"})
  <2>1. {"Unallocated", "FX Result"} = {"Unallocated"} \cup {"FX Result"}
    OBVIOUS
  <2>2. IsFiniteSet({"Unallocated"})
    BY FS_Singleton
  <2> QED BY <2>1, <2>2, FS_AddElement
<1>2. IsFiniteSet(SystemCategory)
  BY <1>1, OwnershipAssumption, FS_Product DEF SystemCategory
<1> QED BY <1>2, OwnershipAssumption, FS_Union DEF Category

LEMMA BudgetEffectInt == ASSUME NEW op \in Operation PROVE BudgetEffect(op) \in Int
<1>1. op.from \in [Category -> Int] /\ op.to \in [Category -> Int]
  BY OperationFields
<1> DEFINE rows == Minus(op.to, op.from)
<1>2. rows \in [Category -> Int]
  BY <1>1, PlusMinus
<1> HIDE DEF rows
<1>3. \A c \in Category : rows[c] \in Int
  BY <1>2
<1>4. SumFunctionOnSet(rows, Category) \in Int
  BY <1>3, CategoryFinite, SumOverInt
<1> QED BY <1>4 DEF BudgetEffect, rows

(***************************************************************************)
(* What is invariant of a ledger.  No lot is used beyond what it holds, nor *)
(* its last part without the rest of its cost; a reversal can give back     *)
(* what an operation used because no other operation uses less than nothing.*)
(***************************************************************************)
Uses(op) ==
    /\ DOMAIN op.usedCost = DOMAIN op.used
    /\ \A i \in DOMAIN op.used :
          /\ op.used[i] >= 0 /\ op.usedCost[i] >= 0
          /\ op.used[i] = 0 => op.usedCost[i] = 0

LedgerInv(s) ==
    /\ s \in Ledger
    /\ \A k \in DOMAIN s.operations :
          s.operations[k].type # "reversal" => Uses(s.operations[k])
    /\ \A i \in DOMAIN s.lots : s.lots[i].remaining = 0 => s.lots[i].cost = 0

\* the rows an operation uses leave every lot with something, or with nothing
LeavesLots(s, op) ==
    /\ DOMAIN op.used = DOMAIN s.lots /\ DOMAIN op.usedCost = DOMAIN s.lots
    /\ \A i \in DOMAIN s.lots :
          /\ s.lots[i].remaining - op.used[i] >= 0
          /\ s.lots[i].cost - op.usedCost[i] >= 0
          /\ s.lots[i].remaining - op.used[i] = 0 => s.lots[i].cost - op.usedCost[i] = 0

LEMMA AfterUseLots ==
    ASSUME NEW s, LedgerInv(s), NEW op \in Operation, LeavesLots(s, op)
    PROVE  LET lots == AfterUse(s.lots, op.used, op.usedCost)
           IN  /\ lots \in Seq(Lot) /\ Len(lots) = Len(s.lots)
               /\ \A i \in 1..Len(s.lots) :
                     /\ lots[i].remaining = s.lots[i].remaining - op.used[i]
                     /\ lots[i].openedBy = s.lots[i].openedBy
                     /\ lots[i].remaining = 0 => lots[i].cost = 0
<1> DEFINE n == Len(s.lots)
           lots == AfterUse(s.lots, op.used, op.usedCost)
<1>1. /\ n \in Nat /\ DOMAIN s.lots = 1..n /\ s.lots \in Seq(Lot)
      /\ \A i \in 1..n : s.lots[i] \in Lot
  BY LedgerFields DEF LedgerInv
<1>2. \A i \in 1..n : op.used[i] \in Int /\ op.usedCost[i] \in Int
  <2>1. op.used \in Seq(Int) /\ op.usedCost \in Seq(Int)
    BY OperationFields
  <2>2. 1..Len(op.used) = 1..n /\ 1..Len(op.usedCost) = 1..n
    BY <1>1, <2>1, LenProperties DEF LeavesLots
  <2> QED BY <2>1, <2>2, ElementOfSeq
<1>3. ASSUME NEW i \in 1..n
      PROVE  /\ lots[i] \in Lot
             /\ lots[i].remaining = s.lots[i].remaining - op.used[i]
             /\ lots[i].cost = s.lots[i].cost - op.usedCost[i]
             /\ lots[i].openedBy = s.lots[i].openedBy
  <2>1. lots[i] = [s.lots[i] EXCEPT !.remaining = @ - op.used[i], !.cost = @ - op.usedCost[i]]
    BY <1>1 DEF AfterUse
  <2>2. s.lots[i] \in Lot /\ op.used[i] \in Int /\ op.usedCost[i] \in Int
        /\ s.lots[i].remaining - op.used[i] >= 0 /\ s.lots[i].cost - op.usedCost[i] >= 0
    BY <1>1, <1>2 DEF LeavesLots
  <2> HIDE DEF lots
  <2> DEFINE lot == s.lots[i]
             u == op.used[i]
             c == op.usedCost[i]
             new == lots[i]
  <2>3. /\ lot \in Lot /\ u \in Int /\ c \in Int /\ lot.remaining - u >= 0 /\ lot.cost - c >= 0
        /\ new = [lot EXCEPT !.remaining = @ - u, !.cost = @ - c]
    BY <2>1, <2>2
  <2> HIDE DEF lot, u, c, new
  <2>4. lot.remaining - u \in Nat /\ lot.cost - c \in Nat
    BY <2>3, LotFields, SMT
  <2>5. \A x, y \in Nat : [lot EXCEPT !.remaining = x, !.cost = y] \in Lot
    BY <2>3, Zenon DEF Lot
  <2>6. new \in Lot
    BY <2>3, <2>4, <2>5
  <2>7. new.remaining = lot.remaining - u /\ new.cost = lot.cost - c
        /\ new.openedBy = lot.openedBy
    BY <2>3, SMT DEF Lot
  <2> QED BY <2>6, <2>7 DEF lot, u, c, new
<1>4. lots \in [1..n -> Lot]
  <2>1. lots = [i \in 1..n |-> lots[i]]
    BY <1>1 DEF AfterUse
  <2> QED BY <1>3, <2>1
<1>5. lots \in Seq(Lot) /\ Len(lots) = n
  BY <1>1, <1>4, RowOfLots
<1>6. \A i \in 1..n : lots[i].remaining = 0 => lots[i].cost = 0
  BY <1>1, <1>3 DEF LeavesLots
<1> HIDE DEF lots
<1> QED BY <1>3, <1>5, <1>6 DEF lots

\* One operation with all its rows keeps the invariant.
LEMMA PostedInv ==
    ASSUME NEW s, LedgerInv(s), NEW op \in Operation, LeavesLots(s, op),
           op.type # "reversal" => Uses(op),
           NEW costDelta \in [Balance -> Int],
           NEW opened \in Seq(Lot), \A i \in 1..Len(opened) : opened[i].remaining # 0
    PROVE  LedgerInv(Posted(s, op, costDelta, opened))
<1> DEFINE t == Posted(s, op, costDelta, opened)
           used == AfterUse(s.lots, op.used, op.usedCost)
<1>1. /\ t.operations = Append(s.operations, op) /\ t.lots = used \o opened
      /\ t.amount = Plus(s.amount, op.bank) /\ t.cost = Plus(s.cost, costDelta)
      /\ t.budget = Minus(Plus(s.budget, op.to), op.from)
  BY SMT DEF Posted
<1>2. /\ s.operations \in Seq(Operation) /\ s.amount \in [Balance -> Int]
      /\ s.cost \in [Balance -> Int] /\ s.budget \in [Category -> Int]
  BY LedgerFields DEF LedgerInv
<1>3. t.operations \in Seq(Operation)
  BY <1>1, <1>2, SMT
<1>4. t.amount \in [Balance -> Int] /\ t.cost \in [Balance -> Int]
      /\ t.budget \in [Category -> Int]
  <2>1. /\ op.bank \in [Balance -> Int]
        /\ op.from \in [Category -> Int] /\ op.to \in [Category -> Int]
    BY OperationFields
  <2>2. Plus(s.amount, op.bank) \in [Balance -> Int] /\ Plus(s.cost, costDelta) \in [Balance -> Int]
    BY <1>2, <2>1, PlusMinus
  <2>3. Plus(s.budget, op.to) \in [Category -> Int]
    BY <1>2, <2>1, PlusMinus
  <2>4. Minus(Plus(s.budget, op.to), op.from) \in [Category -> Int]
    BY <2>1, <2>3, PlusMinus
  <2> HIDE DEF t
  <2> QED BY <1>1, <2>2, <2>4
<1>5. /\ used \in Seq(Lot)
      /\ \A i \in 1..Len(used) : used[i].remaining = 0 => used[i].cost = 0
  BY AfterUseLots
<1>6. /\ t.lots \in Seq(Lot)
      /\ \A i \in DOMAIN t.lots : t.lots[i].remaining = 0 => t.lots[i].cost = 0
  <2> HIDE DEF used, t
  <2>1. /\ t.lots \in Seq(Lot) /\ Len(t.lots) = Len(used) + Len(opened)
        /\ \A i \in 1..(Len(used) + Len(opened)) :
              t.lots[i] = IF i <= Len(used) THEN used[i] ELSE opened[i - Len(used)]
    BY <1>1, <1>5, ConcatProperties
  <2>2. DOMAIN t.lots = 1..(Len(used) + Len(opened)) /\ Len(used) \in Nat /\ Len(opened) \in Nat
    BY <2>1, <1>5, LenProperties
  <2>3. ASSUME NEW i \in DOMAIN t.lots, t.lots[i].remaining = 0 PROVE t.lots[i].cost = 0
    <3>1. CASE i <= Len(used)
      <4>1. i \in 1..Len(used) /\ t.lots[i] = used[i]
        BY <2>1, <2>2, <3>1, SMT
      <4> QED BY <1>5, <2>3, <4>1
    <3>2. CASE ~(i <= Len(used))
      <4>1. i - Len(used) \in 1..Len(opened) /\ t.lots[i] = opened[i - Len(used)]
        BY <2>1, <2>2, <3>2, SMT
      <4> QED BY <2>3, <4>1
    <3> QED BY <3>1, <3>2
  <2> QED BY <2>1, <2>3
<1>7. t \in Ledger
  <2>1. t = [operations |-> t.operations, lots |-> t.lots, amount |-> t.amount,
             cost |-> t.cost, budget |-> t.budget]
    BY SMT DEF Posted
  <2> HIDE DEF t
  <2> QED BY <1>3, <1>4, <1>6, <2>1, SMT DEF Ledger
<1>8. \A k \in DOMAIN t.operations : t.operations[k].type # "reversal" => Uses(t.operations[k])
  <2> SUFFICES ASSUME NEW k \in DOMAIN t.operations, t.operations[k].type # "reversal"
               PROVE  Uses(t.operations[k])
    OBVIOUS
  <2> HIDE DEF t
  <2>1. \/ k \in DOMAIN s.operations /\ t.operations[k] = s.operations[k]
        \/ t.operations[k] = op
    BY <1>1, <1>2, SMT
  <2> QED BY <2>1 DEF LedgerInv
<1> HIDE DEF t
<1>9. LedgerInv(t)
  BY <1>6, <1>7, <1>8 DEF LedgerInv
<1> QED BY <1>9 DEF t

(***************************************************************************)
(* Withdrawals.                                                             *)
(***************************************************************************)
FitsLots(s, w) ==
    /\ w.cost \in Int
    /\ w.used \in Seq(Int) /\ w.usedCost \in Seq(Int)
    /\ DOMAIN w.used = DOMAIN s.lots /\ DOMAIN w.usedCost = DOMAIN s.lots
    /\ \A i \in DOMAIN s.lots :
          /\ 0 <= w.used[i] /\ w.used[i] <= s.lots[i].remaining
          /\ 0 <= w.usedCost[i] /\ w.usedCost[i] <= s.lots[i].cost
          /\ w.used[i] = 0 => w.usedCost[i] = 0
          /\ w.used[i] = s.lots[i].remaining => w.usedCost[i] = s.lots[i].cost

LEMMA NothingFits ==
    ASSUME NEW s, LedgerInv(s), NEW cost \in Int
    PROVE  FitsLots(s, [used |-> Unused(s.lots), usedCost |-> Unused(s.lots), cost |-> cost])
<1> DEFINE n == Len(s.lots)
           row == Unused(s.lots)
<1>1. n \in Nat /\ DOMAIN s.lots = 1..n /\ \A i \in 1..n : s.lots[i] \in Lot
  BY LedgerFields DEF LedgerInv
<1>2. row \in [1..n -> Int] /\ \A i \in 1..n : row[i] = 0
  BY <1>1, SMT DEF Unused
<1>3. row \in Seq(Int) /\ DOMAIN row = 1..n
  BY <1>1, <1>2, RowOfLots
<1>4. \A i \in 1..n : s.lots[i].remaining \in Nat /\ s.lots[i].cost \in Nat
         /\ (s.lots[i].remaining = 0 => s.lots[i].cost = 0)
  BY <1>1, LotFields DEF LedgerInv
<1> HIDE DEF row
<1> QED BY <1>1, <1>2, <1>3, <1>4, SMT DEF FitsLots, row

\* LEAST(what is still wanted, what the lot holds), at a rounded price
LEMMA PartFits ==
    ASSUME NEW lot \in Lot, NEW part \in Nat, part <= lot.remaining,
           lot.remaining = 0 => lot.cost = 0
    PROVE  LET price == IF part > 0 THEN CostOfPart(lot, part) ELSE 0
           IN  /\ price \in Nat /\ price <= lot.cost
               /\ part = 0 => price = 0
               /\ part = lot.remaining => price = lot.cost
<1>1. lot.remaining \in Nat /\ lot.cost \in Nat
  BY LotFields
<1>2. CASE part = 0
  BY <1>1, <1>2, SMT
<1>3. CASE part > 0 /\ part = lot.remaining
  BY <1>1, <1>3, SMT DEF CostOfPart
<1>4. CASE part > 0 /\ part # lot.remaining
  <2>1. RoundDiv(lot.cost * part, lot.remaining) \in Nat
        /\ RoundDiv(lot.cost * part, lot.remaining) <= lot.cost
    <3>1. lot.remaining \in Nat \ {0}
      BY <1>1, <1>4, SMT
    <3> QED BY <1>1, <3>1, RoundDivPart
  <2> QED BY <1>4, <2>1, SMT DEF CostOfPart
<1> QED BY <1>2, <1>3, <1>4, SMT

LEMMA RemainingNatural ==
    ASSUME NEW s, LedgerInv(s), NEW b, NEW n \in 0..Len(s.lots)
    PROVE  SumTo(Remaining(s.lots, b), n) \in Nat
<1>1. Len(s.lots) \in Nat /\ DOMAIN s.lots = 1..Len(s.lots)
      /\ \A i \in 1..Len(s.lots) : s.lots[i] \in Lot
  BY LedgerFields DEF LedgerInv
<1>2. \A k \in 1..n : Remaining(s.lots, b)[k] \in Nat
  BY <1>1, LotFields, SMT DEF Remaining
<1> QED BY <1>1, <1>2, SumToNatural, SMT

LEMMA TakenFits ==
    ASSUME NEW s, LedgerInv(s), NEW b, NEW amount \in Nat, NEW i \in DOMAIN s.lots
    PROVE  /\ Taken(s.lots, b, amount)[i] \in Nat
           /\ Taken(s.lots, b, amount)[i] <= s.lots[i].remaining
<1>1. Len(s.lots) \in Nat /\ i \in 1..Len(s.lots) /\ s.lots[i].remaining \in Nat
  BY LedgerFields, LotFields DEF LedgerInv
<1>2. SumTo(Remaining(s.lots, b), i - 1) \in Nat
  <2>1. i - 1 \in 0..Len(s.lots)
    BY <1>1, SMT
  <2> QED BY <2>1, RemainingNatural
<1> QED BY <1>1, <1>2, SMT DEF Taken, Lesser, Greater

LEMMA WithdrawalFits ==
    ASSUME NEW s, LedgerInv(s), NEW b \in Balance, NEW amount \in Nat
    PROVE  FitsLots(s, Withdrawal(s, b, amount))
<1>1. CASE IsBase(b)
  BY <1>1, InBaseInt, NothingFits, SMT DEF Withdrawal
<1>2. CASE ~IsBase(b)
  <2> DEFINE n == Len(s.lots)
             taken == Taken(s.lots, b, amount)
             price == [i \in DOMAIN s.lots |->
                          IF taken[i] > 0 THEN CostOfPart(s.lots[i], taken[i]) ELSE 0]
             w == Withdrawal(s, b, amount)
  <2>1. n \in Nat /\ DOMAIN s.lots = 1..n /\ \A i \in 1..n : s.lots[i] \in Lot
    BY LedgerFields DEF LedgerInv
  <2>2. w.used = taken /\ w.usedCost = price /\ w.cost = SumTo(price, n)
    <3>1. price = [i \in DOMAIN s.lots |->
                      IF taken[i] > 0 THEN CostTaken(s.lots, taken)[i] ELSE 0]
      BY SMT DEF CostTaken
    <3> HIDE DEF taken, price
    <3> QED BY <1>2, <3>1, SMT DEF Withdrawal, taken
  <2>3. ASSUME NEW i \in 1..n
        PROVE  /\ taken[i] \in Nat /\ taken[i] <= s.lots[i].remaining
               /\ price[i] \in Nat /\ price[i] <= s.lots[i].cost
               /\ taken[i] = 0 => price[i] = 0
               /\ taken[i] = s.lots[i].remaining => price[i] = s.lots[i].cost
    <3>1. taken[i] \in Nat /\ taken[i] <= s.lots[i].remaining
      BY <2>1, TakenFits
    <3>2. s.lots[i] \in Lot /\ (s.lots[i].remaining = 0 => s.lots[i].cost = 0)
      BY <2>1 DEF LedgerInv
    <3> HIDE DEF taken
    <3>3. price[i] = IF taken[i] > 0 THEN CostOfPart(s.lots[i], taken[i]) ELSE 0
      BY <2>1
    <3> HIDE DEF price
    <3> QED BY <3>1, <3>2, <3>3, PartFits
  <2>4. taken \in [1..n -> Int] /\ price \in [1..n -> Int]
    <3>1. taken = [i \in 1..n |-> taken[i]] /\ price = [i \in 1..n |-> price[i]]
      BY <2>1 DEF Taken
    <3>2. \A i \in 1..n : taken[i] \in Nat /\ price[i] \in Nat
      BY <2>3
    <3> HIDE DEF taken, price
    <3>3. \A i \in 1..n : taken[i] \in Int /\ price[i] \in Int
      BY <3>2, SMT
    <3> QED BY <3>1, <3>3
  <2>5. taken \in Seq(Int) /\ price \in Seq(Int) /\ DOMAIN taken = 1..n /\ DOMAIN price = 1..n
    BY <2>1, <2>4, RowOfLots
  <2>6. w.cost \in Int
    <3>1. \A i \in 1..n : price[i] \in Nat
      BY <2>3
    <3> HIDE DEF price
    <3>2. SumTo(price, n) \in Nat
      BY <2>1, <3>1, SumToNatural
    <3> QED BY <2>2, <3>2, SMT
  <2> HIDE DEF taken, price, w
  <2>7. FitsLots(s, w)
    BY <2>1, <2>2, <2>3, <2>5, <2>6, SMT DEF FitsLots
  <2> QED BY <2>7 DEF w
<1> QED BY <1>1, <1>2

\* An operation that withdraws w, and may open a lot.
LEMMA OpInv ==
    ASSUME NEW s, LedgerInv(s), NEW w, FitsLots(s, w),
           NEW type \in OperationType \ {"reversal"}, NEW owner \in Owner,
           NEW bank \in [Balance -> Int],
           NEW from \in [Category -> Int], NEW to \in [Category -> Int],
           NEW costDelta \in [Balance -> Int],
           NEW opened \in Seq(Lot), \A i \in 1..Len(opened) : opened[i].remaining # 0
    PROVE  LedgerInv(Posted(s, Op(type, owner, bank, from, to, w), costDelta, opened))
<1> DEFINE op == Op(type, owner, bank, from, to, w)
<1>1. /\ op.type = type /\ op.bank = bank /\ op.used = w.used /\ op.usedCost = w.usedCost
      /\ op \in Operation
  BY SMT DEF Op, Operation, FitsLots
<1>2. ASSUME NEW i \in DOMAIN s.lots
      PROVE  s.lots[i].remaining \in Nat /\ s.lots[i].cost \in Nat
             /\ w.used[i] \in Int /\ w.usedCost[i] \in Int
  <2>1. s.lots[i].remaining \in Nat /\ s.lots[i].cost \in Nat
    BY LedgerFields, LotFields DEF LedgerInv
  <2>2. i \in DOMAIN w.used /\ i \in DOMAIN w.usedCost /\ w.used \in Seq(Int) /\ w.usedCost \in Seq(Int)
    BY DEF FitsLots
  <2> QED BY <2>1, <2>2, LenProperties, ElementOfSeq
<1> HIDE DEF op
<1>3. LeavesLots(s, op)
  BY <1>1, <1>2, SMT DEF LeavesLots, FitsLots
<1>4. Uses(op)
  BY <1>1, <1>2, SMT DEF Uses, FitsLots
<1>5. LedgerInv(Posted(s, op, costDelta, opened))
  BY <1>1, <1>3, <1>4, PostedInv
<1> QED BY <1>5 DEF op

LEMMA NewLotOpens ==
    ASSUME NEW s, LedgerInv(s), NEW b \in Balance,
           NEW amount \in Nat \ {0}, NEW cost \in Nat \ {0}
    PROVE  /\ <<NewLot(s, b, amount, cost)>> \in Seq(Lot)
           /\ \A i \in 1..Len(<<NewLot(s, b, amount, cost)>>) :
                 <<NewLot(s, b, amount, cost)>>[i].remaining # 0
<1>1. Len(s.operations) \in Nat
  BY LedgerFields DEF LedgerInv
<1>2. NewLot(s, b, amount, cost) \in Lot /\ NewLot(s, b, amount, cost).remaining = amount
  BY <1>1, BalanceParts, SMT DEF NewLot, Lot
<1> QED BY <1>2, SMT

LEMMA NoLotOpens ==
    <<>> \in Seq(Lot) /\ \A i \in 1..Len(<<>>) : <<>>[i].remaining # 0
BY SMT

(***************************************************************************)
(* Every action keeps the invariant.                                        *)
(***************************************************************************)
LEMMA OwnCategories ==
    ASSUME NEW o \in Owner
    PROVE  Unallocated(o) \in Category /\ FxResult(o) \in Category
BY DEF Unallocated, FxResult, Category, SystemCategory

LEMMA NoUseFits == ASSUME NEW s, LedgerInv(s) PROVE FitsLots(s, NoUse(s))
BY NothingFits DEF NoUse

LEMMA IncomeInv ==
    ASSUME NEW s, LedgerInv(s), NEW a \in Account, NEW c \in Currency,
           NEW amount \in Nat \ {0}, NEW value \in Int,
           c # BaseOf(a) => value \in Nat \ {0}
    PROVE  LedgerInv(IncomePosted(s, a, c, amount, value))
<1> DEFINE b == <<a, c>>
           o == AccountOwner[a]
           opened == IF IsBase(b) THEN <<>> ELSE <<NewLot(s, b, amount, value)>>
<1>1. b \in Balance /\ o \in Owner
  BY OwnershipAssumption DEF Balance
<1>2. opened \in Seq(Lot) /\ \A i \in 1..Len(opened) : opened[i].remaining # 0
  <2>1. CASE IsBase(b)
    BY <2>1, NoLotOpens
  <2>2. CASE ~IsBase(b)
    <3>1. value \in Nat \ {0}
      BY <2>2 DEF IsBase
    <3> QED BY <1>1, <2>2, <3>1, NewLotOpens
  <2> QED BY <2>1, <2>2
<1>3. /\ On(b, amount) \in [Balance -> Int] /\ On(b, value) \in [Balance -> Int]
      /\ NoBudget \in [Category -> Int] /\ In(Unallocated(o), value) \in [Category -> Int]
  BY RowValues, SMT
<1>4. FitsLots(s, NoUse(s)) /\ "income" \in OperationType \ {"reversal"}
  BY NoUseFits, SMT DEF OperationType
<1> HIDE DEF opened
<1>5. LedgerInv(Posted(s, Op("income", o, On(b, amount), NoBudget,
                             In(Unallocated(o), value), NoUse(s)), On(b, value), opened))
  BY <1>1, <1>2, <1>3, <1>4, OpInv
<1> QED BY <1>5 DEF IncomePosted, opened

LEMMA TaxInv ==
    ASSUME NEW s, LedgerInv(s), NEW a \in Account, NEW c \in Currency, NEW tax \in Nat
    PROVE  LedgerInv(TaxPosted(s, a, c, tax))
<1> DEFINE b == <<a, c>>
           o == AccountOwner[a]
           w == Withdrawal(s, b, tax)
<1>1. b \in Balance /\ o \in Owner
  BY OwnershipAssumption DEF Balance
<1>2. FitsLots(s, w)
  BY <1>1, WithdrawalFits
<1> HIDE DEF w
<1>3. w.cost \in Int /\ -w.cost \in Int /\ -tax \in Int
  BY <1>2, SMT DEF FitsLots
<1>4. /\ On(b, -tax) \in [Balance -> Int] /\ On(b, -w.cost) \in [Balance -> Int]
      /\ NoBudget \in [Category -> Int] /\ In(Unallocated(o), w.cost) \in [Category -> Int]
  BY <1>3, RowValues
<1>5. "expense" \in OperationType \ {"reversal"}
  BY SMT DEF OperationType
<1>6. LedgerInv(Posted(s, Op("expense", o, On(b, -tax), In(Unallocated(o), w.cost),
                             NoBudget, w), On(b, -w.cost), <<>>))
  BY <1>1, <1>2, <1>4, <1>5, NoLotOpens, OpInv
<1> QED BY <1>6 DEF TaxPosted, w

LEMMA RecordIncomeInv ==
    ASSUME NEW a \in Account, NEW c \in Currency, NEW amount \in Amounts, NEW v \in Costs,
           NEW p \in TaxPercents, LedgerInv(ledger), RecordIncome(a, c, amount, v, p)
    PROVE  LedgerInv(ledger')
<1> DEFINE value == IF c = BaseOf(a) THEN InBase(amount) ELSE v
           tax == RoundDiv(amount * p, 100)
           gross == IncomePosted(ledger, a, c, amount, value)
<1>1. amount \in Nat \ {0} /\ v \in Nat \ {0} /\ p \in Nat
  BY AmountAssumption, SMT
<1>2. value \in Int /\ (c # BaseOf(a) => value \in Nat \ {0})
  <2>1. InBase(amount) \in Int
    BY <1>1, InBaseInt, SMT
  <2> QED BY <1>1, <2>1, SMT
<1> HIDE DEF value
<1>3. LedgerInv(gross)
  BY <1>1, <1>2, IncomeInv
<1>4. tax \in Int
  <2>1. amount * p \in Int /\ 100 \in Nat \ {0}
    BY <1>1, SMT
  <2> QED BY <2>1, RoundDivInt
<1>5. ledger' = gross \/ (0 < tax /\ ledger' = TaxPosted(gross, a, c, tax))
  BY DEF RecordIncome, value
<1>6. CASE ledger' = gross
  BY <1>3, <1>6
<1>7. CASE 0 < tax /\ ledger' = TaxPosted(gross, a, c, tax)
  <2> HIDE DEF gross, tax
  <2>1. tax \in Nat
    BY <1>4, <1>7, SMT
  <2>2. LedgerInv(TaxPosted(gross, a, c, tax))
    BY <1>3, <2>1, TaxInv
  <2> QED BY <1>7, <2>2
<1> QED BY <1>5, <1>6, <1>7

LEMMA RecordExpenseInv ==
    ASSUME NEW a \in Account, NEW g \in Regular, NEW c \in Currency, NEW amount \in Amounts,
           LedgerInv(ledger), RecordExpense(a, g, c, amount)
    PROVE  LedgerInv(ledger')
<1> DEFINE b == <<a, c>>
           o == AccountOwner[a]
           w == Withdrawal(ledger, b, amount)
<1>1. b \in Balance /\ o \in Owner /\ amount \in Nat /\ g \in Category
  BY OwnershipAssumption, AmountAssumption, SMT DEF Balance, Category
<1>2. FitsLots(ledger, w)
  BY <1>1, WithdrawalFits
<1>0. ledger' = Posted(ledger, Op("expense", o, On(b, -amount), In(g, w.cost), NoBudget, w),
                       On(b, -w.cost), <<>>)
  BY DEF RecordExpense
<1> HIDE DEF w
<1>3. w.cost \in Int /\ -w.cost \in Int /\ -amount \in Int
  BY <1>1, <1>2, SMT DEF FitsLots
<1>4. /\ On(b, -amount) \in [Balance -> Int] /\ On(b, -w.cost) \in [Balance -> Int]
      /\ NoBudget \in [Category -> Int] /\ In(g, w.cost) \in [Category -> Int]
  BY <1>3, RowValues
<1>5. "expense" \in OperationType \ {"reversal"}
  BY SMT DEF OperationType
<1> QED BY <1>0, <1>1, <1>2, <1>4, <1>5, NoLotOpens, OpInv

LEMMA ExchangeCurrencyInv ==
    ASSUME NEW a \in Account, NEW c \in Currency, NEW d \in Currency,
           NEW given \in Amounts, NEW received \in Amounts,
           LedgerInv(ledger), ExchangeCurrency(a, c, given, d, received)
    PROVE  LedgerInv(ledger')
<1> DEFINE b == <<a, c>>
           t == <<a, d>>
           o == AccountOwner[a]
           w == Withdrawal(ledger, b, given)
           newCost == IF IsBase(t) THEN InBase(received) ELSE w.cost
           result == ExchangeResult(t, received, w.cost)
           opened == IF IsBase(t) THEN <<>> ELSE <<NewLot(ledger, t, received, newCost)>>
<1>1. /\ b \in Balance /\ t \in Balance /\ o \in Owner
      /\ given \in Nat /\ received \in Nat \ {0}
  BY OwnershipAssumption, AmountAssumption, SMT DEF Balance
<1>2. FitsLots(ledger, w)
  BY <1>1, WithdrawalFits
<1>3. /\ LotAllowed(t, newCost)
      /\ ledger' = Posted(ledger, Op("exchange", o, Plus(On(b, -given), On(t, received)),
                                     NoBudget, In(FxResult(o), result), w),
                          Plus(On(b, -w.cost), On(t, newCost)), opened)
  BY DEF ExchangeCurrency
<1> HIDE DEF w
<1>4. w.cost \in Int /\ -w.cost \in Int /\ -given \in Int /\ received \in Int
  BY <1>1, <1>2, SMT DEF FitsLots
<1>5. newCost \in Int /\ result \in Int
  <2>1. InBase(received) \in Int
    BY <1>4, InBaseInt
  <2> QED BY <1>4, <2>1, SMT DEF ExchangeResult
<1>6. opened \in Seq(Lot) /\ \A i \in 1..Len(opened) : opened[i].remaining # 0
  <2>1. CASE IsBase(t)
    BY <2>1, NoLotOpens
  <2>2. CASE ~IsBase(t)
    <3> HIDE DEF newCost
    <3>1. newCost \in Nat \ {0}
      BY <1>3, <1>5, <2>2, SMT DEF LotAllowed
    <3> QED BY <1>1, <2>2, <3>1, NewLotOpens
  <2> QED BY <2>1, <2>2
<1> HIDE DEF newCost, result, opened
<1>7. /\ On(b, -given) \in [Balance -> Int] /\ On(t, received) \in [Balance -> Int]
      /\ On(b, -w.cost) \in [Balance -> Int] /\ On(t, newCost) \in [Balance -> Int]
      /\ NoBudget \in [Category -> Int] /\ In(FxResult(o), result) \in [Category -> Int]
  BY <1>4, <1>5, RowValues
<1>8. /\ Plus(On(b, -given), On(t, received)) \in [Balance -> Int]
      /\ Plus(On(b, -w.cost), On(t, newCost)) \in [Balance -> Int]
  BY <1>7, PlusMinus
<1>9. "exchange" \in OperationType \ {"reversal"}
  BY SMT DEF OperationType
<1> QED BY <1>1, <1>2, <1>3, <1>6, <1>7, <1>8, <1>9, OpInv

LEMMA TransferDebtInt ==
    ASSUME NEW s, LedgerInv(s), NEW card PROVE TransferDebt(s, card) \in Int
<1>1. Len(s.operations) \in Nat /\ DOMAIN s.operations = 1..Len(s.operations)
      /\ \A k \in 1..Len(s.operations) : BudgetEffect(s.operations[k]) \in Int
  BY LedgerFields, BudgetEffectInt DEF LedgerInv
<1>2. \A k \in 1..Len(s.operations) : TransferEffects(s, card)[k] \in Int
  BY <1>1, SMT DEF TransferEffects
<1> QED BY <1>1, <1>2, SumToInt DEF TransferDebt

LEMMA TransferInv ==
    ASSUME NEW a \in Account, NEW t \in Account, NEW c \in Currency, NEW amount \in Amounts,
           LedgerInv(ledger), TransferBetweenAccounts(a, t, c, amount)
    PROVE  LedgerInv(ledger')
<1> DEFINE b == <<a, c>>
           d == <<t, c>>
           w == Withdrawal(ledger, b, amount)
           debit  == BudgetDebit(ledger, a, t, w.cost)
           credit == BudgetCredit(ledger, a, t, b, amount, w.cost)
           from == In(Unallocated(AccountOwner[a]), debit)
           to == In(Unallocated(AccountOwner[t]), credit)
           opened == IF IsBase(b) THEN <<>> ELSE <<NewLot(ledger, d, amount, w.cost)>>
<1>1. /\ b \in Balance /\ d \in Balance /\ AccountOwner[a] \in Owner
      /\ amount \in Nat \ {0} /\ amount \in Nat
  BY OwnershipAssumption, AmountAssumption, SMT DEF Balance
<1>2. FitsLots(ledger, w)
  BY <1>1, WithdrawalFits
<1>3. /\ LotAllowed(b, w.cost)
      /\ ledger' = Posted(ledger, Op("account_transfer", AccountOwner[a],
                                     Plus(On(b, -amount), On(d, amount)), from, to, w),
                          Plus(On(b, -w.cost), On(d, w.cost)), opened)
  BY DEF TransferBetweenAccounts
<1> HIDE DEF w
<1>4. w.cost \in Int /\ -w.cost \in Int /\ -amount \in Int /\ amount \in Int
  BY <1>1, <1>2, SMT DEF FitsLots
<1>5. debit \in Int
  <2>1. TransferDebt(ledger, t) \in Int
    BY TransferDebtInt
  <2> QED BY <1>4, <2>1, SMT DEF BudgetDebit, CardBudgetDebt, Lesser, Greater
<1>6. credit \in Int
  <2>1. ledger.amount[b] \in Int
    BY <1>1, LedgerFields DEF LedgerInv
  <2>2. amount - Greater(0, Lesser(amount, ledger.amount[b])) \in Int
    BY <1>4, <2>1, SMT DEF Lesser, Greater
  <2>3. InBase(amount - Greater(0, Lesser(amount, ledger.amount[b]))) \in Int
    BY <2>2, InBaseInt
  <2> QED BY <1>4, <2>3, SMT DEF BudgetCredit
<1>7. opened \in Seq(Lot) /\ \A i \in 1..Len(opened) : opened[i].remaining # 0
  <2>1. CASE IsBase(b)
    BY <2>1, NoLotOpens
  <2>2. CASE ~IsBase(b)
    <3>1. w.cost \in Nat \ {0}
      BY <1>3, <1>4, <2>2, SMT DEF LotAllowed
    <3> QED BY <1>1, <2>2, <3>1, NewLotOpens
  <2> QED BY <2>1, <2>2
<1> HIDE DEF debit, credit, opened
<1>8. /\ On(b, -amount) \in [Balance -> Int] /\ On(d, amount) \in [Balance -> Int]
      /\ On(b, -w.cost) \in [Balance -> Int] /\ On(d, w.cost) \in [Balance -> Int]
      /\ from \in [Category -> Int] /\ to \in [Category -> Int]
  BY <1>4, <1>5, <1>6, RowValues
<1>9. /\ Plus(On(b, -amount), On(d, amount)) \in [Balance -> Int]
      /\ Plus(On(b, -w.cost), On(d, w.cost)) \in [Balance -> Int]
  BY <1>8, PlusMinus
<1>10. "account_transfer" \in OperationType \ {"reversal"}
  BY SMT DEF OperationType
<1> HIDE DEF from, to
<1> QED BY <1>1, <1>2, <1>3, <1>7, <1>8, <1>9, <1>10, OpInv

\* Operations that touch the budget alone.
LEMMA BudgetOnlyInv ==
    ASSUME NEW type \in {"allocate", "group_allocate"}, NEW owner \in Owner,
           NEW from \in [Category -> Int], NEW to \in [Category -> Int], LedgerInv(ledger),
           ledger' = Posted(ledger, Op(type, owner, NoBank, from, to, NoUse(ledger)), NoBank, <<>>)
    PROVE  LedgerInv(ledger')
<1>1. type \in OperationType \ {"reversal"}
  BY SMT DEF OperationType
<1>2. NoBank \in [Balance -> Int] /\ FitsLots(ledger, NoUse(ledger))
  BY RowValues, NoUseFits
<1> QED BY <1>1, <1>2, NoLotOpens, OpInv

LEMMA CategoryOwned == ASSUME NEW c \in Category PROVE CategoryOwner(c) \in Owner
<1>1. CASE c \in Regular
  BY <1>1, OwnershipAssumption DEF CategoryOwner
<1>2. CASE c \notin Regular
  <2>1. c \in Owner \X {"Unallocated", "FX Result"}
    BY <1>2 DEF Category, SystemCategory
  <2>2. c[1] \in Owner
    BY <2>1
  <2> QED BY <1>2, <2>2 DEF CategoryOwner
<1> QED BY <1>1, <1>2

LEMMA AllocateBudgetInv ==
    ASSUME NEW f \in Category, NEW t \in Category, NEW amount \in Amounts,
           LedgerInv(ledger), AllocateBudget(f, t, amount)
    PROVE  LedgerInv(ledger')
<1>1. CategoryOwner(f) \in Owner /\ amount \in Int
  BY CategoryOwned, AmountAssumption, SMT
<1>2. In(f, amount) \in [Category -> Int] /\ In(t, amount) \in [Category -> Int]
  BY <1>1, RowValues
<1>3. ledger' = Posted(ledger, Op("allocate", CategoryOwner(f), NoBank, In(f, amount),
                                  In(t, amount), NoUse(ledger)), NoBank, <<>>)
  BY DEF AllocateBudget
<1> QED BY <1>1, <1>2, <1>3, BudgetOnlyInv

LEMMA MemberCreditInt ==
    ASSUME NEW plan \in GroupPlans, NEW amount \in Int
    PROVE  MemberCredit(plan, amount) \in [Category -> Int]
<1> DEFINE n == Len(plan)
           share == [k \in DOMAIN plan |-> RoundDiv(amount * plan[k].share, 100)]
<1>1. n \in Nat /\ DOMAIN plan = 1..n /\ \A k \in 1..n : plan[k].share \in Nat
  BY PlansAssumption
<1>2. \A k \in 1..n : share[k] \in Int
  <2> SUFFICES ASSUME NEW k \in 1..n PROVE RoundDiv(amount * plan[k].share, 100) \in Int
    BY <1>1
  <2>1. amount * plan[k].share \in Int /\ 100 \in Nat \ {0}
    BY <1>1, SMT
  <2> QED BY <2>1, RoundDivInt
<1> HIDE DEF share
<1>3. \A k \in 1..n : GroupLine(plan, amount)[k] \in Int
  <2> SUFFICES ASSUME NEW k \in 1..n PROVE GroupLine(plan, amount)[k] \in Int
    OBVIOUS
  <2>1. SumTo(share, n - 1) \in Int
    <3>1. n - 1 \in Nat /\ \A j \in 1..(n - 1) : share[j] \in Int
      BY <1>1, <1>2, SMT
    <3> QED BY <3>1, SumToInt
  <2>2. GroupLine(plan, amount)[k] = IF k < n THEN share[k] ELSE amount - SumTo(share, n - 1)
    BY <1>1, SMT DEF GroupLine, share
  <2> QED BY <1>2, <2>1, <2>2, SMT
<1>4. ASSUME NEW c \in Category PROVE MemberCredit(plan, amount)[c] \in Int
  <2> DEFINE row == [k \in DOMAIN plan |->
                        IF plan[k].category = c THEN GroupLine(plan, amount)[k] ELSE 0]
  <2>1. \A k \in 1..n : row[k] \in Int
    BY <1>1, <1>3, SMT
  <2> HIDE DEF row
  <2>2. SumTo(row, n) \in Int
    BY <1>1, <2>1, SumToInt
  <2> QED BY <2>2 DEF MemberCredit, row
<1>5. MemberCredit(plan, amount) = [c \in Category |-> MemberCredit(plan, amount)[c]]
  BY DEF MemberCredit
<1> QED BY <1>4, <1>5

LEMMA AllocateGroupBudgetInv ==
    ASSUME NEW f \in Category, NEW plan \in GroupPlans, NEW amount \in Amounts,
           LedgerInv(ledger), AllocateGroupBudget(f, plan, amount)
    PROVE  LedgerInv(ledger')
<1>1. CategoryOwner(f) \in Owner /\ amount \in Int
  BY CategoryOwned, AmountAssumption, SMT
<1>2. In(f, amount) \in [Category -> Int] /\ MemberCredit(plan, amount) \in [Category -> Int]
  BY <1>1, RowValues, MemberCreditInt
<1>3. ledger' = Posted(ledger, Op("group_allocate", CategoryOwner(f), NoBank, In(f, amount),
                                  MemberCredit(plan, amount), NoUse(ledger)), NoBank, <<>>)
  BY DEF AllocateGroupBudget
<1> QED BY <1>1, <1>2, <1>3, BudgetOnlyInv

(***************************************************************************)
(* A reversal gives back to the lots what the operation used, which no      *)
(* other operation could have taken, and empties those it opened.           *)
(***************************************************************************)
LEMMA UsedNowRow ==
    ASSUME NEW s, LedgerInv(s), NEW row \in Seq(Int)
    PROVE  /\ UsedNow(s, row) \in [1..Len(s.lots) -> Int]
           /\ Negated(UsedNow(s, row)) \in Seq(Int)
           /\ DOMAIN Negated(UsedNow(s, row)) = DOMAIN s.lots
           /\ \A i \in DOMAIN s.lots :
                 /\ UsedNow(s, row)[i] = IF i \in DOMAIN row THEN row[i] ELSE 0
                 /\ Negated(UsedNow(s, row))[i] = -UsedNow(s, row)[i]
<1> DEFINE n == Len(s.lots)
           now == UsedNow(s, row)
<1>1. n \in Nat /\ DOMAIN s.lots = 1..n
  BY LedgerFields DEF LedgerInv
<1>2. \A i \in DOMAIN row : row[i] \in Int
  BY LenProperties, ElementOfSeq
<1>3. /\ now = [i \in 1..n |-> IF i \in DOMAIN row THEN row[i] ELSE 0]
      /\ \A i \in 1..n : (IF i \in DOMAIN row THEN row[i] ELSE 0) \in Int
  BY <1>1, <1>2, SMT DEF UsedNow
<1>4. now \in [1..n -> Int] /\ \A i \in 1..n : now[i] = IF i \in DOMAIN row THEN row[i] ELSE 0
  BY <1>3
<1> HIDE DEF now
<1>5. Negated(now) \in [1..n -> Int] /\ \A i \in 1..n : Negated(now)[i] = -now[i]
  BY <1>4, PlusMinus
<1>6. Negated(now) \in Seq(Int) /\ DOMAIN Negated(now) = 1..n
  BY <1>1, <1>5, RowOfLots
<1> QED BY <1>1, <1>4, <1>5, <1>6 DEF now

LEMMA ReversalRows ==
    ASSUME NEW s, LedgerInv(s), NEW k \in DOMAIN s.operations,
           s.operations[k].type # "reversal"
    PROVE  /\ ReversalOf(s, k) \in Operation
           /\ ReversalOf(s, k).type = "reversal"
           /\ ReversalOf(s, k).bank = Negated(s.operations[k].bank)
           /\ LeavesLots(s, ReversalOf(s, k))
<1> DEFINE op == s.operations[k]
           used == Negated(UsedNow(s, op.used))
           usedCost == Negated(UsedNow(s, op.usedCost))
           r == ReversalOf(s, k)
<1>1. /\ op \in Operation /\ k \in Nat /\ Uses(op)
      /\ DOMAIN s.lots = 1..Len(s.lots) /\ \A i \in DOMAIN s.lots : s.lots[i] \in Lot
  <2>1. DOMAIN s.operations = 1..Len(s.operations) /\ Len(s.operations) \in Nat
    BY LedgerFields DEF LedgerInv
  <2>2. k \in Nat
    BY <2>1, SMT
  <2> QED BY <2>2, LedgerFields DEF LedgerInv
<1>2. /\ op.owner \in Owner /\ op.bank \in [Balance -> Int]
      /\ op.from \in [Category -> Int] /\ op.to \in [Category -> Int]
      /\ op.used \in Seq(Int) /\ op.usedCost \in Seq(Int)
  BY <1>1, OperationFields
<1>3. /\ used \in Seq(Int) /\ usedCost \in Seq(Int)
      /\ DOMAIN used = DOMAIN s.lots /\ DOMAIN usedCost = DOMAIN s.lots
  BY <1>2, UsedNowRow
<1>4. ASSUME NEW i \in DOMAIN s.lots
      PROVE  \E u, c \in Nat : used[i] = -u /\ usedCost[i] = -c /\ (u = 0 => c = 0)
  <2> DEFINE u == UsedNow(s, op.used)[i]
             c == UsedNow(s, op.usedCost)[i]
  <2>1. used[i] = -u /\ usedCost[i] = -c
    BY <1>2, UsedNowRow
  <2>2. /\ u = IF i \in DOMAIN op.used THEN op.used[i] ELSE 0
        /\ c = IF i \in DOMAIN op.used THEN op.usedCost[i] ELSE 0
    BY <1>1, <1>2, UsedNowRow DEF Uses
  <2>3. i \in DOMAIN op.used => op.used[i] \in Int /\ op.usedCost[i] \in Int
    BY <1>1, <1>2, LenProperties, ElementOfSeq DEF Uses
  <2> HIDE DEF u, c
  <2>4. u \in Nat /\ c \in Nat /\ (u = 0 => c = 0)
    <3>1. CASE i \in DOMAIN op.used
      BY <1>1, <2>2, <2>3, <3>1, SMT DEF Uses
    <3>2. CASE i \notin DOMAIN op.used
      BY <2>2, <3>2, SMT
    <3> QED BY <3>1, <3>2
  <2> QED BY <2>1, <2>4
<1> HIDE DEF used, usedCost
<1>5. /\ r.type = "reversal" /\ r.bank = Negated(op.bank)
      /\ r.used = used /\ r.usedCost = usedCost
  BY SMT DEF ReversalOf, used, usedCost
<1>6. r \in Operation
  <2>1. /\ Negated(op.bank) \in [Balance -> Int] /\ Negated(op.from) \in [Category -> Int]
        /\ Negated(op.to) \in [Category -> Int] /\ "reversal" \in OperationType
    BY <1>2, PlusMinus DEF OperationType
  <2>2. r = [type |-> "reversal", owner |-> op.owner, reverses |-> k,
             bank |-> Negated(op.bank), from |-> Negated(op.from), to |-> Negated(op.to),
             used |-> used, usedCost |-> usedCost]
    BY DEF ReversalOf, used, usedCost
  <2> HIDE DEF op, r
  <2> QED BY <1>1, <1>2, <1>3, <2>1, <2>2, SMT DEF Operation
<1>7. LeavesLots(s, r)
  <2> SUFFICES ASSUME NEW i \in DOMAIN s.lots
               PROVE  /\ s.lots[i].remaining - used[i] >= 0
                      /\ s.lots[i].cost - usedCost[i] >= 0
                      /\ s.lots[i].remaining - used[i] = 0 => s.lots[i].cost - usedCost[i] = 0
    BY <1>3, <1>5 DEF LeavesLots
  <2>1. PICK u, c \in Nat : used[i] = -u /\ usedCost[i] = -c /\ (u = 0 => c = 0)
    BY <1>4
  <2>2. /\ s.lots[i].remaining \in Nat /\ s.lots[i].cost \in Nat
        /\ (s.lots[i].remaining = 0 => s.lots[i].cost = 0)
    BY <1>1, LotFields DEF LedgerInv
  <2> QED BY <2>1, <2>2, SMT
<1> QED BY <1>5, <1>6, <1>7

LEMMA ReversalCostInt ==
    ASSUME NEW s, LedgerInv(s), NEW k \in DOMAIN s.operations
    PROVE  ReversalCost(s, k) \in [Balance -> Int]
<1> DEFINE op == s.operations[k]
           n == Len(s.lots)
           opened(c) == SumTo([i \in DOMAIN s.lots |->
                           IF i \in OpenedBy(s, k) /\ s.lots[i].currency = c
                           THEN s.lots[i].costInitial ELSE 0], n)
           usedOf(c) == SumTo([i \in DOMAIN s.lots |->
                           IF s.lots[i].currency = c
                           THEN UsedNow(s, op.usedCost)[i] ELSE 0], n)
<1>1. /\ op \in Operation /\ n \in Nat /\ DOMAIN s.lots = 1..n
      /\ \A i \in 1..n : s.lots[i].costInitial \in Int
  <2>1. op \in Operation /\ n \in Nat /\ DOMAIN s.lots = 1..n
        /\ \A i \in 1..n : s.lots[i] \in Lot
    BY LedgerFields DEF LedgerInv
  <2> QED BY <2>1, LotFields, SMT
<1>2. \A i \in 1..n : UsedNow(s, op.usedCost)[i] \in Int
  <2>1. op.usedCost \in Seq(Int)
    BY <1>1, OperationFields
  <2> QED BY <2>1, UsedNowRow
<1>3. ASSUME NEW c PROVE opened(c) \in Int /\ usedOf(c) \in Int
  <2> DEFINE f == [i \in DOMAIN s.lots |->
                      IF i \in OpenedBy(s, k) /\ s.lots[i].currency = c
                      THEN s.lots[i].costInitial ELSE 0]
             g == [i \in DOMAIN s.lots |->
                      IF s.lots[i].currency = c THEN UsedNow(s, op.usedCost)[i] ELSE 0]
  <2>1. \A i \in 1..n : f[i] \in Int /\ g[i] \in Int
    <3> HIDE DEF op
    <3> QED BY <1>1, <1>2, SMT
  <2> HIDE DEF f, g
  <2>2. SumTo(f, n) \in Int /\ SumTo(g, n) \in Int
    BY <1>1, <2>1, SumToInt
  <2> QED BY <2>2 DEF f, g
<1>4. ASSUME NEW b \in Balance PROVE InBase(op.bank[b]) \in Int /\ op.bank[b] \in Int
  <2>1. op.bank[b] \in Int
    BY <1>1, OperationFields
  <2> QED BY <2>1, InBaseInt
<1> DEFINE delta(b) == IF op.bank[b] = 0 THEN 0
                       ELSE IF b[2] = OwnerBase[op.owner] THEN -InBase(op.bank[b])
                       ELSE IF op.bank[b] > 0 THEN -opened(b[2]) ELSE usedOf(b[2])
<1>5. ReversalCost(s, k) = [b \in Balance |-> delta(b)]
  BY DEF ReversalCost
<1>6. ASSUME NEW b \in Balance PROVE delta(b) \in Int
  <2> HIDE DEF opened, usedOf, op
  <2>1. opened(b[2]) \in Int /\ usedOf(b[2]) \in Int /\ InBase(op.bank[b]) \in Int
    BY <1>3, <1>4
  <2> QED BY <2>1, SMT
<1> HIDE DEF delta
<1> QED BY <1>5, <1>6

\* Emptying some lots of a ledger keeps the invariant.
LEMMA EmptiedInv ==
    ASSUME NEW s, LedgerInv(s), NEW ids,
           NEW t, t = [s EXCEPT !.lots = Emptied(@, ids)]
    PROVE  LedgerInv(t)
<1> DEFINE n == Len(s.lots)
           lots == Emptied(s.lots, ids)
<1>1. n \in Nat /\ DOMAIN s.lots = 1..n /\ \A i \in 1..n : s.lots[i] \in Lot
  BY LedgerFields DEF LedgerInv
<1>2. ASSUME NEW i \in 1..n
      PROVE  lots[i] \in Lot /\ (lots[i].remaining = 0 => lots[i].cost = 0)
  <2>1. lots[i] = IF i \in ids THEN [s.lots[i] EXCEPT !.remaining = 0, !.cost = 0] ELSE s.lots[i]
    BY <1>1 DEF Emptied
  <2> DEFINE lot == s.lots[i]
             new == lots[i]
  <2>2. lot \in Lot /\ (lot.remaining = 0 => lot.cost = 0)
    BY <1>1 DEF LedgerInv
  <2> HIDE DEF lot, lots
  <2>3. CASE i \in ids
    <3>1. new = [lot EXCEPT !.remaining = 0, !.cost = 0]
      BY <2>1, <2>3 DEF lot
    <3> HIDE DEF new
    <3>2. \A x, y \in Nat : [lot EXCEPT !.remaining = x, !.cost = y] \in Lot
      BY <2>2, Zenon DEF Lot
    <3>3. 0 \in Nat
      BY SMT
    <3>4. new \in Lot
      BY <3>1, <3>2, <3>3
    <3>5. new.cost = 0
      BY <2>2, <3>1, SMT DEF Lot
    <3> QED BY <3>4, <3>5 DEF new
  <2>4. CASE i \notin ids
    BY <2>1, <2>2, <2>4 DEF lot
  <2> QED BY <2>3, <2>4
<1>3. lots \in [1..n -> Lot]
  <2>1. lots = [i \in 1..n |-> lots[i]]
    BY <1>1 DEF Emptied
  <2> QED BY <1>2, <2>1
<1>4. lots \in Seq(Lot) /\ DOMAIN lots = 1..n
  BY <1>1, <1>3, RowOfLots
<1> HIDE DEF lots
<1>5. t = [s EXCEPT !.lots = lots] /\ s \in Ledger
  BY DEF LedgerInv, lots
<1>6. t \in Ledger
  <2>1. \A x \in Seq(Lot) : [s EXCEPT !.lots = x] \in Ledger
    BY <1>5, Zenon DEF Ledger
  <2> QED BY <1>4, <1>5, <2>1
<1>7. t.lots = lots /\ t.operations = s.operations
  BY <1>5, SMT DEF Ledger
<1> QED BY <1>2, <1>4, <1>6, <1>7 DEF LedgerInv

LEMMA ReverseOperationInv ==
    ASSUME NEW k \in DOMAIN ledger.operations, LedgerInv(ledger), ReverseOperation(k)
    PROVE  LedgerInv(ledger')
<1> DEFINE posted == Posted(ledger, ReversalOf(ledger, k), ReversalCost(ledger, k), <<>>)
<1>1. /\ ledger.operations[k].type # "reversal"
      /\ ledger' = [posted EXCEPT !.lots = Emptied(@, OpenedBy(ledger, k))]
  BY DEF ReverseOperation, Reversible
<1>2. LedgerInv(posted)
  BY <1>1, ReversalRows, ReversalCostInt, NoLotOpens, PostedInv
<1> HIDE DEF posted
<1> QED BY <1>1, <1>2, EmptiedInv

LEMMA RebuiltInv ==
    ASSUME NEW s, LedgerInv(s)
    PROVE  LedgerInv(Rebuilt(s))
<1> DEFINE n == Len(s.operations)
           amount == [b \in Balance |-> EntriesOn(s, b)]
           cost == [b \in Balance |-> IF IsBase(b) THEN InBase(EntriesOn(s, b)) ELSE LotCost(s, b)]
           budget == [c \in Category |-> EntriesIn(s, c)]
           t == Rebuilt(s)
<1>1. /\ s \in Ledger /\ n \in Nat /\ DOMAIN s.operations = 1..n
      /\ \A k \in 1..n : s.operations[k] \in Operation
  BY LedgerFields DEF LedgerInv
<1>2. \A b \in Balance : EntriesOn(s, b) \in Int
  <2> SUFFICES ASSUME NEW b \in Balance PROVE EntriesOn(s, b) \in Int
    OBVIOUS
  <2> DEFINE v == [k \in DOMAIN s.operations |-> s.operations[k].bank[b]]
  <2>1. \A k \in 1..n : v[k] \in Int
    BY <1>1, OperationFields
  <2> HIDE DEF v
  <2>2. SumTo(v, n) \in Int
    BY <1>1, <2>1, SumToInt
  <2> QED BY <2>2 DEF EntriesOn, v
<1>3. \A c \in Category : EntriesIn(s, c) \in Int
  <2> SUFFICES ASSUME NEW c \in Category PROVE EntriesIn(s, c) \in Int
    OBVIOUS
  <2> DEFINE v == [k \in DOMAIN s.operations |-> s.operations[k].to[c] - s.operations[k].from[c]]
  <2>1. \A k \in 1..n : s.operations[k].to[c] \in Int /\ s.operations[k].from[c] \in Int
    BY <1>1, OperationFields
  <2>2. \A k \in 1..n : v[k] \in Int
    BY <1>1, <2>1, SMT
  <2> HIDE DEF v
  <2>3. SumTo(v, n) \in Int
    BY <1>1, <2>2, SumToInt
  <2> QED BY <2>3 DEF EntriesIn, v
<1>4. \A b \in Balance : LotCost(s, b) \in Int
  <2> SUFFICES ASSUME NEW b \in Balance PROVE LotCost(s, b) \in Int
    OBVIOUS
  <2> DEFINE v == [i \in DOMAIN s.lots |->
                     IF OnBalance(s.lots[i], b) /\ s.lots[i].remaining > 0
                     THEN s.lots[i].cost ELSE 0]
  <2>1. DOMAIN s.lots = 1..Len(s.lots) /\ Len(s.lots) \in Nat
        /\ \A i \in 1..Len(s.lots) : s.lots[i].cost \in Nat
    BY LedgerFields, LotFields DEF LedgerInv
  <2>2. \A i \in 1..Len(s.lots) : v[i] \in Int
    BY <2>1, SMT
  <2> HIDE DEF v
  <2>3. SumTo(v, Len(s.lots)) \in Int
    BY <2>1, <2>2, SumToInt
  <2> QED BY <2>3 DEF LotCost, v
<1>5. amount \in [Balance -> Int] /\ cost \in [Balance -> Int] /\ budget \in [Category -> Int]
  <2>1. \A b \in Balance : InBase(EntriesOn(s, b)) \in Int
    BY <1>2, InBaseInt
  <2>2. \A b \in Balance : (IF IsBase(b) THEN InBase(EntriesOn(s, b)) ELSE LotCost(s, b)) \in Int
    BY <1>4, <2>1
  <2> QED BY <1>2, <1>3, <2>2
<1> HIDE DEF amount, cost, budget
<1>6. t = [s EXCEPT !.amount = amount, !.cost = cost, !.budget = budget]
  BY DEF Rebuilt, amount, cost, budget
<1> HIDE DEF t
<1>7. t \in Ledger
  <2>1. \A x, y \in [Balance -> Int], z \in [Category -> Int] :
           [s EXCEPT !.amount = x, !.cost = y, !.budget = z] \in Ledger
    BY <1>1, Zenon DEF Ledger
  <2> QED BY <1>5, <1>6, <2>1
<1>8. t.operations = s.operations /\ t.lots = s.lots
  BY <1>1, <1>6, SMT DEF Ledger
<1>9. LedgerInv(t)
  BY <1>7, <1>8 DEF LedgerInv
<1> QED BY <1>9 DEF t

LEMMA ArchiveCategoryInv ==
    ASSUME NEW c \in Regular, LedgerInv(ledger), ArchiveCategory(c)
    PROVE  LedgerInv(ledger')
<1> DEFINE left == ledger.budget[c]
           o == RegularOwner[c]
<1>1. c \in Category /\ o \in Owner /\ Unallocated(o) \in Category
  BY OwnershipAssumption, OwnCategories DEF Category
<1>2. left \in Int
  BY <1>1, LedgerFields DEF LedgerInv
<1>3. In(c, left) \in [Category -> Int] /\ In(Unallocated(o), left) \in [Category -> Int]
  BY <1>2, RowValues
<1>4. \/ UNCHANGED ledger
      \/ ledger' = Posted(ledger, Op("allocate", o, NoBank, In(c, left),
                                     In(Unallocated(o), left), NoUse(ledger)), NoBank, <<>>)
  BY DEF ArchiveCategory
<1> HIDE DEF left, o
<1> QED BY <1>1, <1>3, <1>4, BudgetOnlyInv

IInv == TypeOK /\ LedgerInv(ledger)

LEMMA InitIInv == Init => IInv
<1> SUFFICES ASSUME Init PROVE IInv
  OBVIOUS
<1>1. NoBank \in [Balance -> Int] /\ NoBudget \in [Category -> Int]
  BY RowValues
<1>2. ledger \in Ledger /\ ledger.operations = <<>> /\ ledger.lots = <<>>
  BY <1>1, SMT DEF Init, Ledger
<1>3. LedgerInv(ledger)
  BY <1>2, SMT DEF LedgerInv
<1>4. creditLimit \in [Account -> Nat]
  <2>1. Limits \cup {0} \subseteq Nat
    BY AmountAssumption, SMT
  <2> QED BY <2>1 DEF Init
<1> QED BY <1>2, <1>3, <1>4 DEF IInv, TypeOK, Init

LEMMA StepIInv == IInv /\ [Next]_vars => IInv'
<1> SUFFICES ASSUME IInv, [Next]_vars PROVE IInv'
  OBVIOUS
<1>1. LedgerInv(ledger)
  BY DEF IInv
<1>2. ASSUME LedgerInv(ledger'), LedgerOnly PROVE IInv'
  BY <1>2 DEF IInv, TypeOK, LedgerInv, LedgerOnly
<1>3. ASSUME NEW a \in Account, NEW c \in Currency, NEW amount \in Amounts, NEW v \in Costs,
             NEW p \in TaxPercents, RecordIncome(a, c, amount, v, p)
      PROVE  IInv'
  BY <1>1, <1>2, <1>3, RecordIncomeInv DEF RecordIncome
<1>4. ASSUME NEW a \in Account, NEW g \in Regular, NEW c \in Currency, NEW amount \in Amounts,
             RecordExpense(a, g, c, amount)
      PROVE  IInv'
  BY <1>1, <1>2, <1>4, RecordExpenseInv DEF RecordExpense
<1>5. ASSUME NEW a \in Account, NEW c \in Currency, NEW d \in Currency,
             NEW given \in Amounts, NEW received \in Amounts,
             ExchangeCurrency(a, c, given, d, received)
      PROVE  IInv'
  BY <1>1, <1>2, <1>5, ExchangeCurrencyInv DEF ExchangeCurrency
<1>6. ASSUME NEW a \in Account, NEW t \in Account, NEW c \in Currency, NEW amount \in Amounts,
             TransferBetweenAccounts(a, t, c, amount)
      PROVE  IInv'
  BY <1>1, <1>2, <1>6, TransferInv DEF TransferBetweenAccounts
<1>7. ASSUME NEW f \in Category, NEW t \in Category, NEW amount \in Amounts,
             AllocateBudget(f, t, amount)
      PROVE  IInv'
  BY <1>1, <1>2, <1>7, AllocateBudgetInv DEF AllocateBudget
<1>8. ASSUME NEW f \in Category, NEW plan \in GroupPlans, NEW amount \in Amounts,
             AllocateGroupBudget(f, plan, amount)
      PROVE  IInv'
  BY <1>1, <1>2, <1>8, AllocateGroupBudgetInv DEF AllocateGroupBudget
<1>9. ASSUME NEW k \in DOMAIN ledger.operations, ReverseOperation(k)
      PROVE  IInv'
  BY <1>1, <1>2, <1>9, ReverseOperationInv DEF ReverseOperation
<1>10. CASE RebuildCurrentBalances
  BY <1>1, <1>2, <1>10, RebuiltInv DEF RebuildCurrentBalances
<1>11. ASSUME NEW a \in Account, NEW limit \in Limits, UpdateCreditLimit(a, limit)
       PROVE  IInv'
  <2>1. limit \in Nat
    BY AmountAssumption
  <2>2. creditLimit' \in [Account -> Nat]
    BY <1>11, <2>1 DEF UpdateCreditLimit, IInv, TypeOK
  <2> QED BY <1>1, <1>11, <2>2 DEF UpdateCreditLimit, IInv, TypeOK
<1>12. ASSUME NEW a \in Account, ArchiveCreditAccount(a)
       PROVE  IInv'
  BY <1>1, <1>12 DEF ArchiveCreditAccount, IInv, TypeOK
<1>13. ASSUME NEW c \in Regular, ArchiveCategory(c)
       PROVE  IInv'
  <2>1. LedgerInv(ledger')
    BY <1>1, <1>13, ArchiveCategoryInv
  <2> QED BY <1>13, <2>1 DEF ArchiveCategory, IInv, TypeOK, LedgerInv
<1>14. CASE UNCHANGED vars
  BY <1>1, <1>14 DEF vars, IInv, TypeOK
<1> QED BY <1>3, <1>4, <1>5, <1>6, <1>7, <1>8, <1>9, <1>10, <1>11, <1>12, <1>13, <1>14 DEF Next

\* Every row that any history of calls writes has its type: no lot is taken
\* below zero, in money or in cost, by a withdrawal or by a reversal.
THEOREM TypeCorrect == Spec => []TypeOK
<1>1. IInv => TypeOK
  BY DEF IInv
<1> QED BY InitIInv, StepIInv, <1>1, PTL DEF Spec

\* The FIFO loops round the cost of every partial use, and yet an emptied lot
\* never keeps a cost that rebuild_current_balances would then lose.
THEOREM NothingStranded == Spec => []NoStrandedCost
<1>1. IInv => NoStrandedCost
  <2> SUFFICES ASSUME IInv, NEW i \in DOMAIN ledger.lots
               PROVE  /\ ledger.lots[i].remaining >= 0 /\ ledger.lots[i].cost >= 0
                      /\ ledger.lots[i].remaining = 0 => ledger.lots[i].cost = 0
    BY DEF NoStrandedCost
  <2>1. ledger.lots[i].remaining \in Nat /\ ledger.lots[i].cost \in Nat
    BY LedgerFields, LotFields DEF IInv, LedgerInv
  <2> QED BY <2>1, SMT DEF IInv, LedgerInv
<1> QED BY InitIInv, StepIInv, <1>1, PTL DEF Spec

(***************************************************************************)
(* One operation more.                                                      *)
(***************************************************************************)
\* t is s with one operation more: its rows, and the deltas of its entries.
Recorded(s, t, op) ==
    /\ t.operations = Append(s.operations, op)
    /\ t.amount = Plus(s.amount, op.bank)
    /\ t.budget = Minus(Plus(s.budget, op.to), op.from)

LEMMA PostedRecords ==
    ASSUME NEW s, NEW op, NEW costDelta, NEW opened
    PROVE  Recorded(s, Posted(s, op, costDelta, opened), op)
  BY DEF Recorded, Posted

\* The history of t, row by row.
LEMMA RecordedRows ==
    ASSUME NEW s \in Ledger, NEW t \in Ledger, NEW op, Recorded(s, t, op)
    PROVE  LET n == Len(s.operations)
           IN  /\ n \in Nat /\ Len(t.operations) = n + 1
               /\ DOMAIN s.operations = 1..n /\ DOMAIN t.operations = 1..(n + 1)
               /\ \A k \in 1..n : t.operations[k] = s.operations[k]
               /\ t.operations[n + 1] = op /\ op \in Operation
               /\ \A b \in Balance : t.amount[b] = s.amount[b] + op.bank[b]
               /\ \A c \in Category : t.budget[c] = s.budget[c] + (op.to[c] - op.from[c])
<1> DEFINE n == Len(s.operations)
<1>1. /\ s.operations \in Seq(Operation) /\ t.operations \in Seq(Operation)
      /\ n \in Nat /\ DOMAIN s.operations = 1..n
      /\ s.amount \in [Balance -> Int] /\ s.budget \in [Category -> Int]
  BY LedgerFields
<1>2. t.operations = Append(s.operations, op)
  BY DEF Recorded
<1>3. DOMAIN t.operations = 1..(n + 1) /\ Len(t.operations) = n + 1
  <2>1. Len(Append(s.operations, op)) = n + 1
    BY <1>1
  <2> QED BY <1>1, <1>2, <2>1, LedgerFields
<1>4. (\A k \in 1..n : t.operations[k] = s.operations[k]) /\ t.operations[n + 1] = op
  BY <1>1, <1>2
<1>5. op \in Operation
  <2>1. n + 1 \in DOMAIN t.operations
    BY <1>1, <1>3, SMT
  <2> QED BY <1>4, <2>1, LedgerFields
<1>6. op.bank \in [Balance -> Int] /\ op.from \in [Category -> Int] /\ op.to \in [Category -> Int]
  BY <1>5, OperationFields
<1>7. \A b \in Balance : t.amount[b] = s.amount[b] + op.bank[b]
  BY <1>1, <1>6 DEF Recorded, Plus
<1>8. \A c \in Category : t.budget[c] = s.budget[c] + (op.to[c] - op.from[c])
  <2> SUFFICES ASSUME NEW c \in Category
               PROVE  t.budget[c] = s.budget[c] + (op.to[c] - op.from[c])
    OBVIOUS
  <2>1. t.budget[c] = (s.budget[c] + op.to[c]) - op.from[c]
    BY <1>1, <1>6 DEF Recorded, Plus, Minus
  <2>2. s.budget[c] \in Int /\ op.to[c] \in Int /\ op.from[c] \in Int
    BY <1>1, <1>6
  <2> QED BY <2>1, <2>2, SMT
<1> QED BY <1>1, <1>3, <1>4, <1>5, <1>7, <1>8

(***************************************************************************)
(* The projections are the sums of the entries.                             *)
(***************************************************************************)
EntriesInv(s) ==
    /\ \A b \in Balance : s.amount[b] = EntriesOn(s, b)
    /\ \A c \in Category : s.budget[c] = EntriesIn(s, c)

LEMMA RecordedEntries ==
    ASSUME NEW s \in Ledger, NEW t \in Ledger, NEW op, Recorded(s, t, op), EntriesInv(s)
    PROVE  EntriesInv(t)
<1> DEFINE n == Len(s.operations)
<1>1. /\ n \in Nat /\ Len(t.operations) = n + 1
      /\ DOMAIN s.operations = 1..n /\ DOMAIN t.operations = 1..(n + 1)
      /\ \A k \in 1..n : t.operations[k] = s.operations[k]
      /\ t.operations[n + 1] = op
      /\ \A b \in Balance : t.amount[b] = s.amount[b] + op.bank[b]
      /\ \A c \in Category : t.budget[c] = s.budget[c] + (op.to[c] - op.from[c])
  BY RecordedRows
<1> HIDE DEF n
<1>2. \A k \in 1..n : k \in 1..(n + 1)
  BY <1>1, SMT
<1>3. n + 1 \in 1..(n + 1)
  BY <1>1, SMT
<1>4. ASSUME NEW b \in Balance PROVE t.amount[b] = EntriesOn(t, b)
  <2> DEFINE v == [k \in DOMAIN s.operations |-> s.operations[k].bank[b]]
             w == [k \in DOMAIN t.operations |-> t.operations[k].bank[b]]
  <2>1. \A k \in 1..n : v[k] = w[k]
    BY <1>1, <1>2
  <2>2. w[n + 1] = op.bank[b]
    BY <1>1, <1>3
  <2>3. EntriesOn(s, b) = SumTo(v, n) /\ EntriesOn(t, b) = SumTo(w, n + 1)
    BY <1>1 DEF EntriesOn, n
  <2> HIDE DEF v, w
  <2>4. SumTo(w, n + 1) = SumTo(w, n) + w[n + 1] /\ SumTo(v, n) = SumTo(w, n)
    BY <1>1, <2>1, SumToNext, SumToSame
  <2> QED BY <1>1, <2>2, <2>3, <2>4 DEF EntriesInv
<1>5. ASSUME NEW c \in Category PROVE t.budget[c] = EntriesIn(t, c)
  <2> DEFINE v == [k \in DOMAIN s.operations |-> s.operations[k].to[c] - s.operations[k].from[c]]
             w == [k \in DOMAIN t.operations |-> t.operations[k].to[c] - t.operations[k].from[c]]
  <2>1. \A k \in 1..n : v[k] = w[k]
    BY <1>1, <1>2
  <2>2. w[n + 1] = op.to[c] - op.from[c]
    BY <1>1, <1>3
  <2>3. EntriesIn(s, c) = SumTo(v, n) /\ EntriesIn(t, c) = SumTo(w, n + 1)
    BY <1>1 DEF EntriesIn, n
  <2> HIDE DEF v, w
  <2>4. SumTo(w, n + 1) = SumTo(w, n) + w[n + 1] /\ SumTo(v, n) = SumTo(w, n)
    BY <1>1, <2>1, SumToNext, SumToSame
  <2> QED BY <1>1, <2>2, <2>3, <2>4 DEF EntriesInv
<1> QED BY <1>4, <1>5 DEF EntriesInv

(***************************************************************************)
(* An operation is taken back at most once.                                 *)
(***************************************************************************)
ReversedOnce(s) ==
    \A r, q \in DOMAIN s.operations :
        LET k == s.operations[r].reverses
        IN  k # 0 => /\ k < r /\ k \in DOMAIN s.operations
                     /\ s.operations[k].type # "reversal"
                     /\ s.operations[q].reverses = k => q = r

\* A new operation takes back nothing, or an older one nobody has taken back.
TakesBackOnce(s, op) ==
    \/ op.reverses = 0
    \/ /\ op.reverses \in DOMAIN s.operations
       /\ s.operations[op.reverses].type # "reversal"
       /\ ~IsReversed(s, op.reverses)

LEMMA RecordedReversals ==
    ASSUME NEW s \in Ledger, NEW t \in Ledger, NEW op, Recorded(s, t, op),
           ReversedOnce(s), TakesBackOnce(s, op)
    PROVE  ReversedOnce(t)
<1> DEFINE n == Len(s.operations)
<1>1. /\ n \in Nat
      /\ DOMAIN s.operations = 1..n /\ DOMAIN t.operations = 1..(n + 1)
      /\ \A k \in 1..n : t.operations[k] = s.operations[k]
      /\ t.operations[n + 1] = op /\ op \in Operation
  BY RecordedRows
<1>2. op.reverses \in Nat /\ \A k \in 1..n : s.operations[k].reverses \in Nat
  BY <1>1, LedgerFields, OperationFields
<1> HIDE DEF n
<1> SUFFICES ASSUME NEW r \in 1..(n + 1), NEW q \in 1..(n + 1), t.operations[r].reverses # 0
             PROVE  LET k == t.operations[r].reverses
                    IN  /\ k < r /\ k \in 1..(n + 1)
                        /\ t.operations[k].type # "reversal"
                        /\ t.operations[q].reverses = k => q = r
  BY <1>1, Zenon DEF ReversedOnce
<1> DEFINE k == t.operations[r].reverses
<1>3. CASE r \in 1..n
  <2>1. k = s.operations[r].reverses
    BY <1>1, <1>3
  <2>2. k < r /\ k \in 1..n /\ s.operations[k].type # "reversal"
    BY <1>1, <1>3, <2>1 DEF ReversedOnce
  <2>3. CASE q \in 1..n
    <3>1. s.operations[q].reverses = k => q = r
      BY <1>1, <1>3, <2>1, <2>3 DEF ReversedOnce
    <3> QED BY <1>1, <2>2, <2>3, <3>1, SMT
  <2>4. CASE q = n + 1
    <3>1. IsReversed(s, k)
      BY <1>1, <1>3, <2>1 DEF IsReversed
    <3>2. op.reverses # k
      BY <2>1, <3>1 DEF TakesBackOnce
    <3> QED BY <1>1, <2>2, <2>4, <3>2, SMT
  <2> QED BY <1>1, <2>3, <2>4, SMT
<1>4. CASE r = n + 1
  <2>1. k = op.reverses
    BY <1>1, <1>4
  <2>2. k \in 1..n /\ s.operations[k].type # "reversal" /\ ~IsReversed(s, k)
    BY <1>1, <2>1 DEF TakesBackOnce
  <2>3. CASE q \in 1..n
    <3>1. s.operations[q].reverses # k
      BY <1>1, <2>2, <2>3 DEF IsReversed
    <3> QED BY <1>1, <1>4, <2>2, <2>3, <3>1, SMT
  <2>4. CASE q = n + 1
    BY <1>1, <1>4, <2>2, <2>4, SMT
  <2> QED BY <1>1, <2>3, <2>4, SMT
<1> QED BY <1>1, <1>3, <1>4, SMT

(***************************************************************************)
(* No account is overdrawn that must not be; a card holds its base currency *)
(* only, so that its limit is all it has to keep.                           *)
(***************************************************************************)
Solvent(s, limits) ==
    \A b \in Balance :
        /\ IsCredit(b[1]) => s.amount[b] >= -limits[b[1]]
        /\ ~IsCredit(b[1]) /\ AccountOwner[b[1]] \notin FamilyOwner => s.amount[b] >= 0

ForeignOnCard(b) == IsCredit(b[1]) /\ ~IsBase(b)

CardsInBase(s) ==
    \A b \in Balance : ForeignOnCard(b) =>
        s.amount[b] = 0 /\ \A k \in DOMAIN s.operations : s.operations[k].bank[b] = 0

\* What an operation takes from an account is there.
Affordable(s, limits, op) ==
    /\ \A b \in Balance : ForeignOnCard(b) => op.bank[b] = 0
    /\ \A b \in Balance : op.bank[b] < 0 =>
          IF IsCredit(b[1]) THEN s.amount[b] + op.bank[b] >= -limits[b[1]]
          ELSE AccountOwner[b[1]] \in FamilyOwner \/ s.amount[b] + op.bank[b] >= 0

LEMMA RecordedSolvent ==
    ASSUME NEW s \in Ledger, NEW t \in Ledger, NEW op, Recorded(s, t, op),
           NEW limits \in [Account -> Nat],
           Solvent(s, limits), CardsInBase(s), Affordable(s, limits, op)
    PROVE  Solvent(t, limits) /\ CardsInBase(t)
<1> DEFINE n == Len(s.operations)
<1>1. /\ n \in Nat
      /\ DOMAIN s.operations = 1..n /\ DOMAIN t.operations = 1..(n + 1)
      /\ \A k \in 1..n : t.operations[k] = s.operations[k]
      /\ t.operations[n + 1] = op /\ op \in Operation
      /\ \A b \in Balance : t.amount[b] = s.amount[b] + op.bank[b]
  BY RecordedRows
<1> HIDE DEF n
<1>2. ASSUME NEW b \in Balance PROVE s.amount[b] \in Int /\ op.bank[b] \in Int /\ limits[b[1]] \in Nat
  <2>1. s.amount \in [Balance -> Int] /\ op.bank \in [Balance -> Int]
    BY <1>1, LedgerFields, OperationFields
  <2> QED BY <2>1, BalanceParts
<1>3. ASSUME NEW b \in Balance
      PROVE  /\ IsCredit(b[1]) => t.amount[b] >= -limits[b[1]]
             /\ ~IsCredit(b[1]) /\ AccountOwner[b[1]] \notin FamilyOwner => t.amount[b] >= 0
  <2>1. t.amount[b] = s.amount[b] + op.bank[b]
    BY <1>1
  <2>2. /\ IsCredit(b[1]) => s.amount[b] >= -limits[b[1]]
        /\ ~IsCredit(b[1]) /\ AccountOwner[b[1]] \notin FamilyOwner => s.amount[b] >= 0
    BY DEF Solvent
  <2>3. CASE op.bank[b] < 0
    BY <2>1, <2>3 DEF Affordable
  <2>4. CASE ~(op.bank[b] < 0)
    <3>1. t.amount[b] >= s.amount[b] /\ t.amount[b] \in Int
      BY <1>2, <2>1, <2>4, SMT
    <3> QED BY <1>2, <2>2, <3>1, SMT
  <2> QED BY <2>3, <2>4
<1>4. ASSUME NEW b \in Balance, ForeignOnCard(b)
      PROVE  t.amount[b] = 0 /\ \A k \in DOMAIN t.operations : t.operations[k].bank[b] = 0
  <2>1. op.bank[b] = 0 /\ s.amount[b] = 0
    BY <1>4 DEF Affordable, CardsInBase
  <2>2. t.amount[b] = 0
    BY <1>1, <2>1, SMT
  <2>3. ASSUME NEW k \in DOMAIN t.operations PROVE t.operations[k].bank[b] = 0
    <3>1. CASE k \in 1..n
      BY <1>1, <1>4, <3>1 DEF CardsInBase
    <3>2. CASE k = n + 1
      BY <1>1, <2>1, <3>2
    <3> QED BY <1>1, <3>1, <3>2, SMT
  <2> QED BY <2>2, <2>3
<1> QED BY <1>3, <1>4 DEF Solvent, CardsInBase

HistoryInv(s, limits) == EntriesInv(s) /\ ReversedOnce(s) /\ Solvent(s, limits) /\ CardsInBase(s)

LEMMA RecordedHistory ==
    ASSUME NEW s \in Ledger, NEW t \in Ledger, NEW op, Recorded(s, t, op),
           NEW limits \in [Account -> Nat], HistoryInv(s, limits),
           TakesBackOnce(s, op), Affordable(s, limits, op)
    PROVE  HistoryInv(t, limits)
  BY RecordedEntries, RecordedReversals, RecordedSolvent DEF HistoryInv

(***************************************************************************)
(* What every action records.                                               *)
(***************************************************************************)
LEMMA OpRows ==
    ASSUME NEW s, NEW type, NEW owner, NEW bank, NEW from, NEW to, NEW w
    PROVE  /\ Op(type, owner, bank, from, to, w).bank = bank
           /\ TakesBackOnce(s, Op(type, owner, bank, from, to, w))
  BY DEF Op, TakesBackOnce

\* An operation without bank entries, or with money coming in, can be afforded.
LEMMA GivingIsAffordable ==
    ASSUME NEW s, NEW limits, NEW op,
           \A b \in Balance : /\ op.bank[b] \in Int /\ op.bank[b] >= 0
                              /\ ForeignOnCard(b) => op.bank[b] = 0
    PROVE  Affordable(s, limits, op)
<1>1. \A b \in Balance : ~(op.bank[b] < 0)
  BY SMT
<1> QED BY <1>1 DEF Affordable

LEMMA OnValue ==
    ASSUME NEW b \in Balance, NEW key, NEW x
    PROVE  On(key, x)[b] = IF b = key THEN x ELSE 0
  BY DEF On

LEMMA KindsDiffer == ASSUME NEW a PROVE ~(IsCash(a) /\ IsCredit(a))
  BY DEF IsCash, IsCredit

LEMMA RecordIncomeHistory ==
    ASSUME NEW a \in Account, NEW c \in Currency, NEW amount \in Amounts, NEW v \in Costs,
           NEW p \in TaxPercents, LedgerInv(ledger), LedgerInv(ledger'),
           creditLimit \in [Account -> Nat], HistoryInv(ledger, creditLimit),
           RecordIncome(a, c, amount, v, p)
    PROVE  HistoryInv(ledger', creditLimit)
<1> DEFINE b == <<a, c>>
           o == AccountOwner[a]
           value == IF c = BaseOf(a) THEN InBase(amount) ELSE v
           tax   == RoundDiv(amount * p, 100)
           gross == IncomePosted(ledger, a, c, amount, value)
           paid  == Op("income", o, On(b, amount), NoBudget, In(Unallocated(o), value), NoUse(ledger))
           w     == Withdrawal(gross, b, tax)
           kept  == Op("expense", o, On(b, -tax), In(Unallocated(o), w.cost), NoBudget, w)
<1>1. amount \in Nat \ {0} /\ v \in Nat \ {0} /\ p \in Nat /\ b \in Balance /\ IsCash(a)
  BY AmountAssumption, SMT DEF RecordIncome, Balance
<1>2. value \in Int /\ (c # BaseOf(a) => value \in Nat \ {0})
  BY <1>1, InBaseInt
<1>3. LedgerInv(gross)
  BY <1>1, <1>2, IncomeInv
<1>4. Recorded(ledger, gross, paid)
  BY PostedRecords DEF IncomePosted
<1>5. Affordable(ledger, creditLimit, paid)
  <2>1. paid.bank = On(b, amount)
    BY OpRows
  <2>2. ASSUME NEW d \in Balance
        PROVE /\ paid.bank[d] \in Int /\ paid.bank[d] >= 0
              /\ ForeignOnCard(d) => paid.bank[d] = 0
    BY <1>1, <2>1, OnValue, KindsDiffer, SMT DEF ForeignOnCard
  <2> HIDE DEF paid
  <2> QED BY <2>2, GivingIsAffordable
<1>6. TakesBackOnce(ledger, paid)
  BY OpRows
<1> HIDE DEF paid
<1>7. HistoryInv(gross, creditLimit)
  BY <1>3, <1>4, <1>5, <1>6, RecordedHistory DEF LedgerInv
<1>8. \/ ledger' = gross
      \/ TaxAllowed(gross, a, c, tax) /\ ledger' = TaxPosted(gross, a, c, tax) /\ 0 < tax
  BY DEF RecordIncome
<1> HIDE DEF gross
<1>9. ASSUME TaxAllowed(gross, a, c, tax), ledger' = TaxPosted(gross, a, c, tax)
      PROVE  HistoryInv(ledger', creditLimit)
  <2>1. Recorded(gross, ledger', kept)
    BY <1>9, PostedRecords DEF TaxPosted
  <2>2. TakesBackOnce(gross, kept) /\ kept.bank = On(b, -tax)
    BY OpRows
  <2>3. gross.amount[b] >= tax
    BY <1>9 DEF TaxAllowed
  <2>4. tax \in Int
    BY <1>1, RoundDivInt, SMT
  <2>5. gross.amount \in [Balance -> Int]
    BY <1>3, LedgerFields DEF LedgerInv
  <2> HIDE DEF kept, tax
  <2>6. Affordable(gross, creditLimit, kept)
    <3>1. ASSUME NEW d \in Balance, d # b PROVE kept.bank[d] = 0
      BY <2>2, <3>1, OnValue
    <3>2. kept.bank[b] = -tax /\ ~IsCredit(a) /\ b[1] = a
      BY <1>1, <2>2, OnValue, KindsDiffer
    <3>3. gross.amount[b] + kept.bank[b] >= 0
      BY <1>1, <2>3, <2>4, <2>5, <3>2, SMT
    <3> HIDE DEF b
    <3> QED BY <3>1, <3>2, <3>3, SMT DEF Affordable, ForeignOnCard
  <2> QED BY <1>3, <1>7, <2>1, <2>2, <2>6, RecordedHistory DEF LedgerInv
<1> QED BY <1>7, <1>8, <1>9

\* An operation that takes money from one account can be afforded by it.
LEMMA TakingIsAffordable ==
    ASSUME NEW s, NEW limits, NEW op, NEW b \in Balance,
           \A d \in Balance : /\ op.bank[d] \in Int
                              /\ d # b => op.bank[d] >= 0
                              /\ ForeignOnCard(d) => op.bank[d] = 0,
           IF IsCredit(b[1]) THEN s.amount[b] + op.bank[b] >= -limits[b[1]]
           ELSE AccountOwner[b[1]] \in FamilyOwner \/ s.amount[b] + op.bank[b] >= 0
    PROVE  Affordable(s, limits, op)
<1>1. \A d \in Balance : op.bank[d] < 0 => d = b
  BY SMT
<1> QED BY <1>1 DEF Affordable

LEMMA RecordExpenseHistory ==
    ASSUME NEW a \in Account, NEW g \in Regular, NEW c \in Currency, NEW amount \in Amounts,
           LedgerInv(ledger), LedgerInv(ledger'),
           creditLimit \in [Account -> Nat], HistoryInv(ledger, creditLimit),
           RecordExpense(a, g, c, amount)
    PROVE  HistoryInv(ledger', creditLimit)
<1> DEFINE b == <<a, c>>
           w == Withdrawal(ledger, b, amount)
           op == Op("expense", AccountOwner[a], On(b, -amount), In(g, w.cost), NoBudget, w)
<1>1. amount \in Nat \ {0} /\ b \in Balance /\ b[1] = a
  BY AmountAssumption DEF Balance
<1>2. Recorded(ledger, ledger', op)
  BY PostedRecords DEF RecordExpense
<1>3. TakesBackOnce(ledger, op) /\ op.bank = On(b, -amount)
  BY OpRows
<1>4. ledger.amount[b] \in Int /\ creditLimit[a] \in Nat
  <2>1. ledger.amount \in [Balance -> Int]
    BY LedgerFields DEF LedgerInv
  <2> QED BY <1>1, <2>1
<1> HIDE DEF op
<1>5. \A d \in Balance : op.bank[d] = IF d = b THEN -amount ELSE 0
  BY <1>3, OnValue
<1>6. IsCredit(a) => IsBase(b)
  BY DEF RecordExpense
<1>7. IF IsCredit(a) THEN ledger.amount[b] - amount >= -creditLimit[a]
      ELSE ledger.amount[b] >= amount \/ AccountOwner[a] \in FamilyOwner
  BY DEF RecordExpense
<1> HIDE DEF b
<1>8. Affordable(ledger, creditLimit, op)
  <2>1. \A d \in Balance : /\ op.bank[d] \in Int
                           /\ d # b => op.bank[d] >= 0
                           /\ ForeignOnCard(d) => op.bank[d] = 0
    BY <1>1, <1>5, <1>6, SMT DEF ForeignOnCard
  <2>2. IF IsCredit(b[1]) THEN ledger.amount[b] + op.bank[b] >= -creditLimit[b[1]]
        ELSE AccountOwner[b[1]] \in FamilyOwner \/ ledger.amount[b] + op.bank[b] >= 0
    BY <1>1, <1>4, <1>5, <1>7, SMT
  <2> QED BY <1>1, <2>1, <2>2, TakingIsAffordable
<1> QED BY <1>2, <1>3, <1>8, RecordedHistory DEF LedgerInv

LEMMA PlusValue ==
    ASSUME NEW d \in Balance, NEW x, NEW y, NEW u \in Int, NEW v \in Int
    PROVE  Plus(On(x, u), On(y, v))[d] = (IF d = x THEN u ELSE 0) + (IF d = y THEN v ELSE 0)
  BY DEF Plus, On

LEMMA ExchangeCurrencyHistory ==
    ASSUME NEW a \in Account, NEW c \in Currency, NEW d \in Currency,
           NEW given \in Amounts, NEW received \in Amounts,
           LedgerInv(ledger), LedgerInv(ledger'),
           creditLimit \in [Account -> Nat], HistoryInv(ledger, creditLimit),
           ExchangeCurrency(a, c, given, d, received)
    PROVE  HistoryInv(ledger', creditLimit)
<1> DEFINE b == <<a, c>>
           t == <<a, d>>
           w == Withdrawal(ledger, b, given)
           op == Op("exchange", AccountOwner[a], Plus(On(b, -given), On(t, received)),
                    NoBudget, In(FxResult(AccountOwner[a]), ExchangeResult(t, received, w.cost)), w)
<1>1. /\ given \in Nat \ {0} /\ received \in Nat \ {0}
      /\ b \in Balance /\ b[1] = a /\ t \in Balance /\ t[1] = a
  BY AmountAssumption DEF Balance
<1>2. Recorded(ledger, ledger', op)
  BY PostedRecords DEF ExchangeCurrency
<1>3. TakesBackOnce(ledger, op) /\ op.bank = Plus(On(b, -given), On(t, received))
  BY OpRows
<1>4. ledger.amount[b] \in Int
  <2>1. ledger.amount \in [Balance -> Int]
    BY LedgerFields DEF LedgerInv
  <2> QED BY <1>1, <2>1
<1> HIDE DEF op
<1>5. b # t /\ ~IsCredit(a) /\ ledger.amount[b] >= given
  BY KindsDiffer DEF ExchangeCurrency
<1> HIDE DEF b, t
<1>6. \A e \in Balance : op.bank[e] = (IF e = b THEN -given ELSE 0) + (IF e = t THEN received ELSE 0)
  <2>1. -given \in Int /\ received \in Int
    BY <1>1, SMT
  <2> QED BY <1>3, <2>1, PlusValue
<1>7. ASSUME NEW e \in Balance
      PROVE  /\ op.bank[e] \in Int
             /\ e # b => op.bank[e] >= 0
             /\ ForeignOnCard(e) => op.bank[e] = 0
  <2>1. op.bank[e] \in Int /\ (e # b => op.bank[e] >= 0)
    BY <1>1, <1>6, SMT
  <2>2. ForeignOnCard(e) => e # b /\ e # t
    BY <1>1, <1>5 DEF ForeignOnCard
  <2> QED BY <1>6, <2>1, <2>2, SMT
<1>8. ledger.amount[b] + op.bank[b] >= 0
  BY <1>1, <1>4, <1>5, <1>6, SMT
<1>9. Affordable(ledger, creditLimit, op)
  BY <1>1, <1>5, <1>7, <1>8, TakingIsAffordable
<1> QED BY <1>2, <1>3, <1>9, RecordedHistory DEF LedgerInv

LEMMA TransferHistory ==
    ASSUME NEW a \in Account, NEW t \in Account, NEW c \in Currency, NEW amount \in Amounts,
           LedgerInv(ledger), LedgerInv(ledger'),
           creditLimit \in [Account -> Nat], HistoryInv(ledger, creditLimit),
           TransferBetweenAccounts(a, t, c, amount)
    PROVE  HistoryInv(ledger', creditLimit)
<1> DEFINE b == <<a, c>>
           d == <<t, c>>
           w == Withdrawal(ledger, b, amount)
           op == Op("account_transfer", AccountOwner[a], Plus(On(b, -amount), On(d, amount)),
                    In(Unallocated(AccountOwner[a]), BudgetDebit(ledger, a, t, w.cost)),
                    In(Unallocated(AccountOwner[t]), BudgetCredit(ledger, a, t, b, amount, w.cost)), w)
<1>1. /\ amount \in Nat \ {0} /\ b \in Balance /\ b[1] = a /\ d \in Balance /\ d[1] = t
      /\ b[2] = c /\ d[2] = c
  BY AmountAssumption DEF Balance
<1>2. Recorded(ledger, ledger', op)
  BY PostedRecords DEF TransferBetweenAccounts
<1>3. TakesBackOnce(ledger, op) /\ op.bank = Plus(On(b, -amount), On(d, amount))
  BY OpRows
<1>4. ledger.amount[b] \in Int /\ creditLimit[a] \in Nat
  <2>1. ledger.amount \in [Balance -> Int]
    BY LedgerFields DEF LedgerInv
  <2> QED BY <1>1, <2>1
<1> HIDE DEF op
<1>5. b # d /\ (IsCredit(a) \/ IsCredit(t) => IsBase(b)) /\ BaseOf(a) = BaseOf(t)
  BY DEF TransferBetweenAccounts
<1>6. IF IsCredit(a) THEN ledger.amount[b] - amount >= -creditLimit[a] ELSE ledger.amount[b] >= amount
  BY DEF TransferBetweenAccounts
<1>7. \A e \in Balance : op.bank[e] = (IF e = b THEN -amount ELSE 0) + (IF e = d THEN amount ELSE 0)
  <2>1. -amount \in Int /\ amount \in Int
    BY <1>1, SMT
  <2> HIDE DEF b, d
  <2> QED BY <1>3, <2>1, PlusValue
<1> HIDE DEF b, d
<1>8. ASSUME NEW e \in Balance
      PROVE  /\ op.bank[e] \in Int
             /\ e # b => op.bank[e] >= 0
             /\ ForeignOnCard(e) => op.bank[e] = 0
  <2>1. op.bank[e] \in Int /\ (e # b => op.bank[e] >= 0)
    BY <1>1, <1>7, SMT
  <2>2. ForeignOnCard(e) => e # b /\ e # d
    BY <1>1, <1>5 DEF ForeignOnCard, IsBase
  <2> QED BY <1>7, <2>1, <2>2, SMT
<1>9. IF IsCredit(a) THEN ledger.amount[b] + op.bank[b] >= -creditLimit[a]
      ELSE ledger.amount[b] + op.bank[b] >= 0
  BY <1>1, <1>4, <1>5, <1>6, <1>7, SMT
<1>10. Affordable(ledger, creditLimit, op)
  BY <1>1, <1>8, <1>9, TakingIsAffordable
<1> QED BY <1>2, <1>3, <1>10, RecordedHistory DEF LedgerInv

\* Allocations move nothing on accounts.
LEMMA BudgetOnlyHistory ==
    ASSUME NEW type, NEW owner, NEW from, NEW to, LedgerInv(ledger), LedgerInv(ledger'),
           creditLimit \in [Account -> Nat], HistoryInv(ledger, creditLimit),
           ledger' = Posted(ledger, Op(type, owner, NoBank, from, to, NoUse(ledger)), NoBank, <<>>)
    PROVE  HistoryInv(ledger', creditLimit)
<1> DEFINE op == Op(type, owner, NoBank, from, to, NoUse(ledger))
<1>1. Recorded(ledger, ledger', op)
  BY PostedRecords
<1>2. TakesBackOnce(ledger, op) /\ op.bank = NoBank
  BY OpRows
<1> HIDE DEF op
<1>3. \A d \in Balance : op.bank[d] = 0
  BY <1>2 DEF NoBank
<1>4. Affordable(ledger, creditLimit, op)
  BY <1>3, GivingIsAffordable, SMT
<1> QED BY <1>1, <1>2, <1>4, RecordedHistory DEF LedgerInv

\* A reversal takes back what the account still has.
LEMMA ReverseOperationHistory ==
    ASSUME NEW k \in DOMAIN ledger.operations, LedgerInv(ledger), LedgerInv(ledger'),
           creditLimit \in [Account -> Nat], HistoryInv(ledger, creditLimit), ReverseOperation(k)
    PROVE  HistoryInv(ledger', creditLimit)
<1> DEFINE op == ledger.operations[k]
           back == ReversalOf(ledger, k)
           posted == Posted(ledger, back, ReversalCost(ledger, k), <<>>)
<1>1. /\ op.type # "reversal" /\ ~IsReversed(ledger, k) /\ BankCovers(ledger, creditLimit, op)
      /\ ledger' = [posted EXCEPT !.lots = Emptied(@, OpenedBy(ledger, k))]
  BY DEF ReverseOperation, Reversible
<1>2. LedgerInv(posted)
  BY <1>1, ReversalRows, ReversalCostInt, NoLotOpens, PostedInv
<1>3. Recorded(ledger, posted, back)
  BY PostedRecords
<1> HIDE DEF posted
<1>4. Recorded(ledger, ledger', back)
  <2>1. ledger'.operations = posted.operations /\ ledger'.amount = posted.amount
        /\ ledger'.budget = posted.budget
    BY <1>1, <1>2, SMT DEF LedgerInv, Ledger
  <2> QED BY <1>3, <2>1 DEF Recorded
<1>5. back.reverses = k /\ back.bank = Negated(op.bank)
  BY DEF ReversalOf
<1>6. TakesBackOnce(ledger, back)
  BY <1>1, <1>5 DEF TakesBackOnce
<1>7. op.bank \in [Balance -> Int] /\ ledger.amount \in [Balance -> Int]
  BY LedgerFields, OperationFields DEF LedgerInv
<1> HIDE DEF back
<1>8. \A d \in Balance : back.bank[d] = -op.bank[d] /\ op.bank[d] \in Int /\ ledger.amount[d] \in Int
  BY <1>5, <1>7 DEF Negated
<1>9. Affordable(ledger, creditLimit, back)
  <2>1. ASSUME NEW d \in Balance, ForeignOnCard(d) PROVE back.bank[d] = 0
    <3>1. op.bank[d] = 0
      BY <2>1 DEF HistoryInv, CardsInBase
    <3> QED BY <1>8, <3>1, SMT
  <2>2. ASSUME NEW d \in Balance, back.bank[d] < 0
        PROVE  IF IsCredit(d[1]) THEN ledger.amount[d] + back.bank[d] >= -creditLimit[d[1]]
               ELSE AccountOwner[d[1]] \in FamilyOwner \/ ledger.amount[d] + back.bank[d] >= 0
    <3>1. op.bank[d] > 0
      BY <1>8, <2>2, SMT
    <3>2. IF IsCredit(d[1]) THEN ledger.amount[d] - op.bank[d] >= -creditLimit[d[1]]
          ELSE ledger.amount[d] >= op.bank[d]
      BY <1>1, <3>1 DEF BankCovers
    <3>3. creditLimit[d[1]] \in Nat
      BY BalanceParts
    <3> QED BY <1>8, <3>2, <3>3, SMT
  <2> QED BY <2>1, <2>2 DEF Affordable
<1> QED BY <1>4, <1>6, <1>9, RecordedHistory DEF LedgerInv

\* A rebuild finds the projections as they are.
LEMMA SameHistory ==
    ASSUME NEW s, NEW t, NEW limits, HistoryInv(s, limits), t.operations = s.operations,
           \A b \in Balance : t.amount[b] = s.amount[b],
           \A c \in Category : t.budget[c] = s.budget[c]
    PROVE  HistoryInv(t, limits)
<1>1. \A b : EntriesOn(t, b) = EntriesOn(s, b)
  BY DEF EntriesOn
<1>2. \A c : EntriesIn(t, c) = EntriesIn(s, c)
  BY DEF EntriesIn
<1>3. EntriesInv(t)
  BY <1>1, <1>2 DEF HistoryInv, EntriesInv
<1>4. ReversedOnce(t)
  BY DEF HistoryInv, ReversedOnce
<1>5. Solvent(t, limits) /\ CardsInBase(t)
  BY DEF HistoryInv, Solvent, CardsInBase
<1> QED BY <1>3, <1>4, <1>5 DEF HistoryInv

LEMMA RebuiltRows ==
    ASSUME NEW s, LedgerInv(s), EntriesInv(s)
    PROVE  /\ Rebuilt(s).operations = s.operations
           /\ Rebuilt(s).amount = s.amount /\ Rebuilt(s).budget = s.budget
<1> DEFINE amount == [b \in Balance |-> EntriesOn(s, b)]
           cost == [b \in Balance |-> IF IsBase(b) THEN InBase(EntriesOn(s, b)) ELSE LotCost(s, b)]
           budget == [c \in Category |-> EntriesIn(s, c)]
<1>1. s.amount \in [Balance -> Int] /\ s.budget \in [Category -> Int] /\ s \in Ledger
  BY LedgerFields DEF LedgerInv
<1>2. amount = s.amount /\ budget = s.budget
  BY <1>1 DEF EntriesInv
<1>3. Rebuilt(s) = [s EXCEPT !.amount = amount, !.cost = cost, !.budget = budget]
  BY DEF Rebuilt
<1> HIDE DEF amount, cost, budget
<1>4. /\ Rebuilt(s).operations = s.operations
      /\ Rebuilt(s).amount = amount /\ Rebuilt(s).budget = budget
  BY <1>1, <1>3, SMT DEF Ledger
<1> QED BY <1>2, <1>4

\* A limit is not lowered below what the card owes.
LEMMA UpdateCreditLimitHistory ==
    ASSUME NEW a \in Account, NEW limit \in Limits, LedgerInv(ledger),
           creditLimit \in [Account -> Nat], HistoryInv(ledger, creditLimit),
           UpdateCreditLimit(a, limit)
    PROVE  HistoryInv(ledger', creditLimit')
<1>1. limit \in Nat /\ ledger' = ledger /\ creditLimit' = [creditLimit EXCEPT ![a] = limit]
      /\ limit >= Greater(0, -ledger.amount[<<a, BaseOf(a)>>])
  BY AmountAssumption DEF UpdateCreditLimit
<1>2. ledger.amount \in [Balance -> Int]
  BY LedgerFields DEF LedgerInv
<1>3. ASSUME NEW b \in Balance, IsCredit(b[1]) PROVE ledger.amount[b] >= -creditLimit'[b[1]]
  <2>1. b[1] \in Account /\ ledger.amount[b] \in Int
    BY <1>2, BalanceParts
  <2>2. CASE b[1] # a
    <3>1. creditLimit'[b[1]] = creditLimit[b[1]]
      BY <1>1, <2>1, <2>2
    <3> QED BY <1>3, <3>1 DEF HistoryInv, Solvent
  <2>3. CASE b[1] = a /\ IsBase(b)
    <3>1. b = <<a, BaseOf(a)>>
      BY <2>3 DEF IsBase, Balance
    <3>2. creditLimit'[b[1]] = limit
      BY <1>1, <2>1, <2>3
    <3>3. limit >= -ledger.amount[b]
      BY <1>1, <2>1, <3>1, SMT DEF Greater
    <3> QED BY <1>1, <2>1, <3>2, <3>3, SMT
  <2>4. CASE b[1] = a /\ ~IsBase(b)
    <3>1. ledger.amount[b] = 0
      BY <1>3, <2>4 DEF HistoryInv, CardsInBase, ForeignOnCard
    <3>2. creditLimit'[b[1]] = limit
      BY <1>1, <2>1, <2>4
    <3> QED BY <1>1, <3>1, <3>2, SMT
  <2> QED BY <2>2, <2>3, <2>4
<1>4. Solvent(ledger', creditLimit')
  BY <1>1, <1>3 DEF Solvent, HistoryInv
<1> QED BY <1>1, <1>4 DEF HistoryInv

(***************************************************************************)
(* The invariant and the theorems.                                          *)
(***************************************************************************)
HInv == IInv /\ HistoryInv(ledger, creditLimit)

LEMMA InitHInv == Init => HInv
<1> SUFFICES ASSUME Init PROVE HInv
  OBVIOUS
<1>1. /\ ledger.operations = <<>> /\ ledger.amount = NoBank /\ ledger.budget = NoBudget
      /\ DOMAIN ledger.operations = {} /\ Len(ledger.operations) = 0
  BY SMT DEF Init
<1>2. IInv
  BY InitIInv
<1>3. EntriesInv(ledger)
  <2>1. \A b \in Balance : EntriesOn(ledger, b) = 0
    BY <1>1, SumToZero DEF EntriesOn
  <2>2. \A c \in Category : EntriesIn(ledger, c) = 0
    BY <1>1, SumToZero DEF EntriesIn
  <2> QED BY <1>1, <2>1, <2>2 DEF EntriesInv, NoBank, NoBudget
<1>4. ReversedOnce(ledger)
  BY <1>1 DEF ReversedOnce
<1>5. \A b \in Balance : ledger.amount[b] = 0 /\ creditLimit[b[1]] \in Nat
  BY <1>1, <1>2, BalanceParts DEF NoBank, IInv, TypeOK
<1>6. Solvent(ledger, creditLimit)
  BY <1>5, SMT DEF Solvent
<1>7. CardsInBase(ledger)
  BY <1>1, <1>5 DEF CardsInBase
<1> QED BY <1>2, <1>3, <1>4, <1>6, <1>7 DEF HInv, HistoryInv

LEMMA StepHInv == HInv /\ [Next]_vars => HInv'
<1> SUFFICES ASSUME HInv, [Next]_vars PROVE HInv'
  OBVIOUS
<1>1. /\ IInv /\ IInv' /\ LedgerInv(ledger) /\ LedgerInv(ledger')
      /\ creditLimit \in [Account -> Nat] /\ HistoryInv(ledger, creditLimit)
  BY StepIInv DEF HInv, IInv, TypeOK, LedgerInv
<1> SUFFICES HistoryInv(ledger', creditLimit')
  BY <1>1 DEF HInv
<1>2. ASSUME NEW a \in Account, NEW c \in Currency, NEW amount \in Amounts, NEW v \in Costs,
             NEW p \in TaxPercents, RecordIncome(a, c, amount, v, p)
      PROVE  HistoryInv(ledger', creditLimit')
  <2>1. creditLimit' = creditLimit
    BY <1>2 DEF RecordIncome, LedgerOnly
  <2> QED BY <1>1, <1>2, <2>1, RecordIncomeHistory
<1>3. ASSUME NEW a \in Account, NEW g \in Regular, NEW c \in Currency, NEW amount \in Amounts,
             RecordExpense(a, g, c, amount)
      PROVE  HistoryInv(ledger', creditLimit')
  <2>1. creditLimit' = creditLimit
    BY <1>3 DEF RecordExpense, LedgerOnly
  <2> QED BY <1>1, <1>3, <2>1, RecordExpenseHistory
<1>4. ASSUME NEW a \in Account, NEW c \in Currency, NEW d \in Currency,
             NEW given \in Amounts, NEW received \in Amounts,
             ExchangeCurrency(a, c, given, d, received)
      PROVE  HistoryInv(ledger', creditLimit')
  <2>1. creditLimit' = creditLimit
    BY <1>4 DEF ExchangeCurrency, LedgerOnly
  <2> QED BY <1>1, <1>4, <2>1, ExchangeCurrencyHistory
<1>5. ASSUME NEW a \in Account, NEW t \in Account, NEW c \in Currency, NEW amount \in Amounts,
             TransferBetweenAccounts(a, t, c, amount)
      PROVE  HistoryInv(ledger', creditLimit')
  <2>1. creditLimit' = creditLimit
    BY <1>5 DEF TransferBetweenAccounts, LedgerOnly
  <2> QED BY <1>1, <1>5, <2>1, TransferHistory
<1>6. ASSUME NEW f \in Category, NEW t \in Category, NEW amount \in Amounts,
             AllocateBudget(f, t, amount)
      PROVE  HistoryInv(ledger', creditLimit')
  <2>1. creditLimit' = creditLimit
    BY <1>6 DEF AllocateBudget, LedgerOnly
  <2> QED BY <1>1, <1>6, <2>1, BudgetOnlyHistory DEF AllocateBudget
<1>7. ASSUME NEW f \in Category, NEW plan \in GroupPlans, NEW amount \in Amounts,
             AllocateGroupBudget(f, plan, amount)
      PROVE  HistoryInv(ledger', creditLimit')
  <2>1. creditLimit' = creditLimit
    BY <1>7 DEF AllocateGroupBudget, LedgerOnly
  <2> QED BY <1>1, <1>7, <2>1, BudgetOnlyHistory DEF AllocateGroupBudget
<1>8. ASSUME NEW k \in DOMAIN ledger.operations, ReverseOperation(k)
      PROVE  HistoryInv(ledger', creditLimit')
  <2>1. creditLimit' = creditLimit
    BY <1>8 DEF ReverseOperation, LedgerOnly
  <2> QED BY <1>1, <1>8, <2>1, ReverseOperationHistory
<1>9. CASE RebuildCurrentBalances
  <2>1. ledger' = Rebuilt(ledger) /\ creditLimit' = creditLimit
    BY <1>9 DEF RebuildCurrentBalances, LedgerOnly
  <2>2. /\ ledger'.operations = ledger.operations
        /\ ledger'.amount = ledger.amount /\ ledger'.budget = ledger.budget
    BY <1>1, <2>1, RebuiltRows DEF HistoryInv
  <2> QED BY <1>1, <2>1, <2>2, SameHistory
<1>10. ASSUME NEW a \in Account, NEW limit \in Limits, UpdateCreditLimit(a, limit)
       PROVE  HistoryInv(ledger', creditLimit')
  BY <1>1, <1>10, UpdateCreditLimitHistory
<1>11. ASSUME NEW a \in Account, ArchiveCreditAccount(a)
       PROVE  HistoryInv(ledger', creditLimit')
  BY <1>1, <1>11 DEF ArchiveCreditAccount
<1>12. ASSUME NEW c \in Regular, ArchiveCategory(c)
       PROVE  HistoryInv(ledger', creditLimit')
  <2>1. creditLimit' = creditLimit
    BY <1>12 DEF ArchiveCategory
  <2>2. CASE UNCHANGED ledger
    BY <1>1, <2>1, <2>2
  <2>3. CASE ~UNCHANGED ledger
    BY <1>1, <1>12, <2>1, <2>3, BudgetOnlyHistory DEF ArchiveCategory
  <2> QED BY <2>2, <2>3
<1>13. CASE UNCHANGED vars
  BY <1>1, <1>13 DEF vars
<1> QED BY <1>2, <1>3, <1>4, <1>5, <1>6, <1>7, <1>8, <1>9, <1>10, <1>11, <1>12, <1>13 DEF Next

LEMMA HInvAlways == Spec => []HInv
  BY InitHInv, StepHInv, PTL DEF Spec

\* The row lock of put__reverse_operation and its search for an earlier
\* reversal: no operation is taken back twice, a reversal never.
THEOREM TakenBackOnce == Spec => []ReversedAtMostOnce
<1>1. HInv => ReversedAtMostOnce
  BY DEF HInv, HistoryInv, ReversedOnce, ReversedAtMostOnce
<1> QED BY HInvAlways, <1>1, PTL

\* The checks of every function together: a person's cash and investments
\* never fall below zero and a card never below its limit, in any history of
\* spending, exchanging, repaying, reversing, rebuilding and lowering limits.
THEOREM NeverOverdrawn == Spec => []AccountsSolvent
<1>1. HInv => AccountsSolvent
  BY DEF HInv, HistoryInv, Solvent, AccountsSolvent
<1> QED BY HInvAlways, <1>1, PTL

\* What put__apply_current_*_delta leaves in the projections of amounts and
\* budgets is what rebuild_current_balances sums from the entries.
ProjectionsAreEntries ==
    Rebuilt(ledger).amount = ledger.amount /\ Rebuilt(ledger).budget = ledger.budget

THEOREM RebuildKeepsAmounts == Spec => []ProjectionsAreEntries
<1>1. HInv => ProjectionsAreEntries
  BY RebuiltRows DEF HInv, HistoryInv, IInv, ProjectionsAreEntries
<1> QED BY HInvAlways, <1>1, PTL

(***************************************************************************)
(* The free budget.  Functions that take from it ask for it; the exceptions *)
(* are those MayOverdrawFreeBudget names.  That taking back an operation is *)
(* safe rests on what its entries are: only an exchange writes FX Result,   *)
(* and none but a reversal gives back to Unallocated what it takes there.   *)
(***************************************************************************)
Plain(op) ==
    \A o \in Owner : /\ op.to[FxResult(o)] = 0 /\ op.from[FxResult(o)] = 0
                     /\ op.from[Unallocated(o)] >= 0

FreeInv(s) ==
    \A k \in DOMAIN s.operations :
        s.operations[k].type \notin {"reversal", "exchange"} => Plain(s.operations[k])

\* the step to t does not draw on an overdrawn free budget
Guards(s, t) == \A o \in Owner : FreeBudget(t, o) >= 0 \/ FreeBudget(t, o) >= FreeBudget(s, o)

LEMMA SystemCategories ==
    ASSUME NEW o \in Owner, NEW p \in Owner
    PROVE  /\ Unallocated(o) \in Category \ Regular /\ FxResult(o) \in Category \ Regular
           /\ Unallocated(o) # FxResult(p)
           /\ Unallocated(o) = Unallocated(p) => o = p
           /\ CategoryOwner(Unallocated(o)) = o /\ CategoryOwner(FxResult(o)) = o
<1>1. Unallocated(o) \in SystemCategory /\ FxResult(o) \in SystemCategory
  BY DEF Unallocated, FxResult, SystemCategory
<1>2. Unallocated(o) \in Category \ Regular /\ FxResult(o) \in Category \ Regular
  BY <1>1, CategoryAssumption DEF Category
<1>3. "Unallocated" # "FX Result"
  OBVIOUS
<1>4. Unallocated(o) # FxResult(p) /\ (Unallocated(o) = Unallocated(p) => o = p)
  <2>1. Unallocated(o)[2] = "Unallocated" /\ FxResult(p)[2] = "FX Result"
    BY DEF Unallocated, FxResult
  <2>2. Unallocated(o)[1] = o /\ Unallocated(p)[1] = p
    BY DEF Unallocated
  <2> QED BY <1>3, <2>1, <2>2
<1>5. CategoryOwner(Unallocated(o)) = o /\ CategoryOwner(FxResult(o)) = o
  <2>1. Unallocated(o)[1] = o /\ FxResult(o)[1] = o
    BY DEF Unallocated, FxResult
  <2> QED BY <1>2, <2>1 DEF CategoryOwner
<1> QED BY <1>2, <1>4, <1>5

LEMMA InValue ==
    ASSUME NEW key, NEW x, NEW c \in Category
    PROVE  In(key, x)[c] = (IF c = key THEN x ELSE 0) /\ NoBudget[c] = 0
  BY DEF In, NoBudget

LEMMA FreeAfter ==
    ASSUME NEW s \in Ledger, NEW t \in Ledger, NEW op, Recorded(s, t, op), NEW o \in Owner
    PROVE  /\ FreeBudget(s, o) \in Int
           /\ FreeBudget(t, o) = FreeBudget(s, o) + (op.to[Unallocated(o)] - op.from[Unallocated(o)])
                                 + (op.to[FxResult(o)] - op.from[FxResult(o)])
           /\ op.to[Unallocated(o)] \in Int /\ op.from[Unallocated(o)] \in Int
           /\ op.to[FxResult(o)] \in Int /\ op.from[FxResult(o)] \in Int
<1> DEFINE u == Unallocated(o)
           x == FxResult(o)
<1>1. u \in Category /\ x \in Category
  BY SystemCategories
<1> HIDE DEF u, x
<1>2. /\ op \in Operation
      /\ t.budget[u] = s.budget[u] + (op.to[u] - op.from[u])
      /\ t.budget[x] = s.budget[x] + (op.to[x] - op.from[x])
  BY <1>1, RecordedRows
<1>3. /\ op.to[u] \in Int /\ op.from[u] \in Int /\ op.to[x] \in Int /\ op.from[x] \in Int
      /\ s.budget[u] \in Int /\ s.budget[x] \in Int
  BY <1>1, <1>2, OperationFields, LedgerFields
<1>4. FreeBudget(s, o) = s.budget[u] + s.budget[x] /\ FreeBudget(t, o) = t.budget[u] + t.budget[x]
  BY DEF FreeBudget, u, x
<1>5. FreeBudget(t, o) = FreeBudget(s, o) + (op.to[u] - op.from[u]) + (op.to[x] - op.from[x])
      /\ FreeBudget(s, o) \in Int
  BY <1>2, <1>3, <1>4, SMT
<1> QED BY <1>3, <1>5 DEF u, x

LEMMA FreeRecorded ==
    ASSUME NEW s \in Ledger, NEW t \in Ledger, NEW op, Recorded(s, t, op), FreeInv(s),
           op.type \notin {"reversal", "exchange"} => Plain(op)
    PROVE  FreeInv(t)
<1> DEFINE n == Len(s.operations)
<1>1. /\ n \in Nat /\ DOMAIN s.operations = 1..n /\ DOMAIN t.operations = 1..(n + 1)
      /\ \A k \in 1..n : t.operations[k] = s.operations[k]
      /\ t.operations[n + 1] = op
  BY RecordedRows
<1> HIDE DEF n
<1> SUFFICES ASSUME NEW k \in DOMAIN t.operations,
                    t.operations[k].type \notin {"reversal", "exchange"}
             PROVE  Plain(t.operations[k])
  BY DEF FreeInv
<1>2. CASE k \in 1..n
  BY <1>1, <1>2 DEF FreeInv
<1>3. CASE k = n + 1
  BY <1>1, <1>3
<1> QED BY <1>1, <1>2, <1>3, SMT

\* Nothing is taken from it.
LEMMA FreeGiven ==
    ASSUME NEW s \in Ledger, NEW t \in Ledger, NEW op, Recorded(s, t, op),
           \A o \in Owner : /\ op.to[FxResult(o)] = 0 /\ op.from[FxResult(o)] = 0
                            /\ op.from[Unallocated(o)] = 0 /\ op.to[Unallocated(o)] >= 0
    PROVE  Plain(op) /\ Guards(s, t)
<1>1. Plain(op)
  BY DEF Plain
<1>2. ASSUME NEW o \in Owner PROVE FreeBudget(t, o) >= FreeBudget(s, o)
  BY FreeAfter, SMT
<1> QED BY <1>1, <1>2 DEF Guards

\* What is taken, at one owner's, is there.
LEMMA FreeTaken ==
    ASSUME NEW s \in Ledger, NEW t \in Ledger, NEW op, Recorded(s, t, op), NEW owner \in Owner,
           \A o \in Owner : /\ op.to[FxResult(o)] = 0 /\ op.from[FxResult(o)] = 0
                            /\ op.from[Unallocated(o)] >= 0
                            /\ o # owner => op.from[Unallocated(o)] = 0
                                            /\ op.to[Unallocated(o)] >= 0,
           FreeBudget(s, owner) >= op.from[Unallocated(owner)] - op.to[Unallocated(owner)]
    PROVE  Plain(op) /\ Guards(s, t)
<1>1. Plain(op)
  BY DEF Plain
<1>2. ASSUME NEW o \in Owner, o # owner PROVE FreeBudget(t, o) >= FreeBudget(s, o)
  BY <1>2, FreeAfter, SMT
<1>3. FreeBudget(t, owner) >= 0
  BY FreeAfter, SMT
<1> QED BY <1>1, <1>2, <1>3 DEF Guards

(***************************************************************************)
(* Every action.                                                            *)
(***************************************************************************)
LEMMA OpFree ==
    ASSUME NEW type, NEW owner, NEW bank, NEW from, NEW to, NEW w
    PROVE  LET op == Op(type, owner, bank, from, to, w)
           IN  op.type = type /\ op.from = from /\ op.to = to /\ op.reverses = 0
  BY DEF Op

LEMMA RoundDivNatural ==
    ASSUME NEW n \in Nat, NEW d \in Nat \ {0} PROVE RoundDiv(n, d) \in Nat
<1>1. 1 \in Nat /\ 1 <= d /\ n * 1 = n
  BY SMT
<1>2. RoundDiv(n * 1, d) \in Nat
  BY <1>1, RoundDivPart
<1> QED BY <1>1, <1>2

\* a withdrawal costs no less than nothing
LEMMA WithdrawalCosts ==
    ASSUME NEW s, LedgerInv(s), NEW b \in Balance, NEW amount \in Nat
    PROVE  Withdrawal(s, b, amount).cost \in Nat
<1>1. CASE IsBase(b)
  <2>1. InBase(amount) \in Nat
    BY AmountAssumption, RoundDivNatural DEF InBase
  <2> QED BY <1>1, <2>1 DEF Withdrawal
<1>2. CASE ~IsBase(b)
  <2> DEFINE w == Withdrawal(s, b, amount)
             row == w.usedCost
             n == Len(s.lots)
  <2>1. FitsLots(s, w) /\ n \in Nat /\ DOMAIN s.lots = 1..n
    BY WithdrawalFits, LedgerFields DEF LedgerInv
  <2>2. w.cost = SumTo(w.usedCost, n)
    BY <1>2 DEF Withdrawal
  <2> HIDE DEF w
  <2>3. row \in Seq(Int) /\ \A i \in 1..n : 0 <= row[i] /\ i \in DOMAIN row
    BY <2>1 DEF FitsLots
  <2> HIDE DEF row
  <2>4. \A i \in 1..n : row[i] \in Nat
    <3> SUFFICES ASSUME NEW i \in 1..n PROVE row[i] \in Nat
      OBVIOUS
    <3>1. row[i] \in Int /\ 0 <= row[i]
      BY <2>3
    <3> QED BY <3>1, SMT
  <2>5. SumTo(row, n) \in Nat
    BY <2>1, <2>4, SumToNatural
  <2> QED BY <2>2, <2>5 DEF w, row
<1> QED BY <1>1, <1>2

LEMMA RecordIncomeFree ==
    ASSUME NEW a \in Account, NEW c \in Currency, NEW amount \in Amounts, NEW v \in Costs,
           NEW p \in TaxPercents, LedgerInv(ledger), FreeInv(ledger),
           RecordIncome(a, c, amount, v, p)
    PROVE  FreeInv(ledger') /\ Guards(ledger, ledger')
<1> DEFINE value == IF c = BaseOf(a) THEN InBase(amount) ELSE v
           tax == RoundDiv(amount * p, 100)
           b == <<a, c>>
           o == AccountOwner[a]
           gross == IncomePosted(ledger, a, c, amount, value)
           w == Withdrawal(gross, b, tax)
           paid == Op("income", o, On(b, amount), NoBudget, In(Unallocated(o), value), NoUse(ledger))
           held == Op("expense", o, On(b, -tax), In(Unallocated(o), w.cost), NoBudget, w)
<1>1. amount \in Nat \ {0} /\ v \in Nat \ {0} /\ p \in Nat /\ b \in Balance /\ o \in Owner
  BY AmountAssumption, OwnershipAssumption, SMT DEF Balance
<1>2. value \in Nat /\ (c # BaseOf(a) => value \in Nat \ {0})
  <2>1. InBase(amount) \in Nat
    BY <1>1, AmountAssumption, RoundDivNatural DEF InBase
  <2> QED BY <1>1, <2>1
<1>3. LedgerInv(gross)
  BY <1>1, <1>2, IncomeInv
<1>4. Recorded(ledger, gross, paid)
  BY PostedRecords DEF IncomePosted
<1>5. paid.type = "income" /\ paid.from = NoBudget /\ paid.to = In(Unallocated(o), value)
  BY OpFree
<1>6. /\ ledger' = gross \/ (0 < tax /\ TaxAllowed(gross, a, c, tax) /\ ledger' = TaxPosted(gross, a, c, tax))
  BY DEF RecordIncome
<1>7. Recorded(gross, TaxPosted(gross, a, c, tax), held)
  BY PostedRecords DEF TaxPosted
<1>8. held.type = "expense" /\ held.to = NoBudget /\ held.from = In(Unallocated(o), w.cost)
  BY OpFree
<1>9. tax \in Nat
  <2>1. amount * p \in Nat /\ 100 \in Nat \ {0}
    BY <1>1, SMT
  <2> QED BY <2>1, RoundDivNatural
<1>10. TaxAllowed(gross, a, c, tax) => FreeBudget(gross, o) >= w.cost
  BY DEF TaxAllowed
<1> HIDE DEF paid, held, tax, value, o, b
<1>11. w.cost \in Nat /\ LedgerInv(TaxPosted(gross, a, c, tax))
  BY <1>1, <1>3, <1>9, WithdrawalCosts, TaxInv
<1> HIDE DEF gross, w
<1>12. Plain(paid) /\ Guards(ledger, gross)
  <2>1. \A e \in Owner : /\ paid.to[FxResult(e)] = 0 /\ paid.from[FxResult(e)] = 0
                         /\ paid.from[Unallocated(e)] = 0 /\ paid.to[Unallocated(e)] >= 0
    <3> SUFFICES ASSUME NEW e \in Owner
                 PROVE  /\ paid.to[FxResult(e)] = 0 /\ paid.from[FxResult(e)] = 0
                        /\ paid.from[Unallocated(e)] = 0 /\ paid.to[Unallocated(e)] >= 0
      OBVIOUS
    <3> QED BY <1>1, <1>2, <1>5, SystemCategories, InValue
  <2>2. ledger \in Ledger /\ gross \in Ledger
    BY <1>3 DEF LedgerInv
  <2> QED BY <1>4, <2>1, <2>2, FreeGiven
<1>13. FreeInv(gross)
  BY <1>3, <1>4, <1>12, FreeRecorded DEF LedgerInv
<1>14. CASE ledger' = gross
  BY <1>12, <1>13, <1>14
<1>15. CASE TaxAllowed(gross, a, c, tax) /\ ledger' = TaxPosted(gross, a, c, tax)
  <2>1. \A e \in Owner : /\ held.to[FxResult(e)] = 0 /\ held.from[FxResult(e)] = 0
                         /\ held.from[Unallocated(e)] >= 0
                         /\ e # o => held.from[Unallocated(e)] = 0
                                     /\ held.to[Unallocated(e)] >= 0
    <3> SUFFICES ASSUME NEW e \in Owner
                 PROVE  /\ held.to[FxResult(e)] = 0 /\ held.from[FxResult(e)] = 0
                        /\ held.from[Unallocated(e)] >= 0
                        /\ e # o => held.from[Unallocated(e)] = 0
                                    /\ held.to[Unallocated(e)] >= 0
      OBVIOUS
    <3>1. Unallocated(e) \in Category /\ FxResult(e) \in Category /\ FxResult(e) # Unallocated(o)
          /\ (e # o => Unallocated(e) # Unallocated(o))
      BY <1>1, SystemCategories
    <3> QED BY <1>8, <1>11, <3>1, InValue, SMT
  <2>2. Unallocated(o) \in Category
    BY <1>1, SystemCategories
  <2>3. held.from[Unallocated(o)] = w.cost /\ held.to[Unallocated(o)] = 0
    BY <1>8, <2>2, InValue
  <2>4. FreeBudget(gross, o) >= held.from[Unallocated(o)] - held.to[Unallocated(o)]
    BY <1>10, <1>11, <1>15, <2>3, SMT
  <2>5. gross \in Ledger /\ ledger' \in Ledger /\ Recorded(gross, ledger', held)
    BY <1>3, <1>7, <1>11, <1>15 DEF LedgerInv
  <2>6. Plain(held) /\ Guards(gross, ledger')
    BY <1>1, <2>1, <2>4, <2>5, FreeTaken
  <2>7. FreeInv(ledger')
    BY <1>13, <2>5, <2>6, FreeRecorded
  <2>8. ASSUME NEW e \in Owner
        PROVE  FreeBudget(ledger', e) >= 0 \/ FreeBudget(ledger', e) >= FreeBudget(ledger, e)
    <3>1. CASE e = o
      <4>1. FreeBudget(ledger', o) = FreeBudget(gross, o) + (0 - w.cost) + (0 - 0)
            /\ FreeBudget(gross, o) \in Int
        BY <1>1, <2>1, <2>3, <2>5, FreeAfter
      <4> QED BY <1>10, <1>11, <1>15, <3>1, <4>1, SMT
    <3>2. CASE e # o
      <4>1. FreeBudget(ledger', e) >= FreeBudget(gross, e)
        BY <3>2, <2>1, <2>5, FreeAfter, SMT
      <4>2. /\ FreeBudget(ledger, e) \in Int /\ FreeBudget(gross, e) \in Int
            /\ FreeBudget(ledger', e) \in Int
        BY <1>4, <2>5, FreeAfter, SMT DEF LedgerInv
      <4>3. FreeBudget(gross, e) >= 0 \/ FreeBudget(gross, e) >= FreeBudget(ledger, e)
        BY <1>12 DEF Guards
      <4> QED BY <4>1, <4>2, <4>3, SMT
    <3> QED BY <3>1, <3>2
  <2> QED BY <2>7, <2>8 DEF Guards
<1> QED BY <1>6, <1>14, <1>15

LEMMA RecordExpenseFree ==
    ASSUME NEW a \in Account, NEW g \in Regular, NEW c \in Currency, NEW amount \in Amounts,
           LedgerInv(ledger), LedgerInv(ledger'), FreeInv(ledger), RecordExpense(a, g, c, amount)
    PROVE  FreeInv(ledger') /\ Guards(ledger, ledger')
<1> DEFINE b == <<a, c>>
           w == Withdrawal(ledger, b, amount)
           op == Op("expense", AccountOwner[a], On(b, -amount), In(g, w.cost), NoBudget, w)
<1>1. Recorded(ledger, ledger', op)
  BY PostedRecords DEF RecordExpense
<1>2. op.from = In(g, w.cost) /\ op.to = NoBudget
  BY OpFree
<1> HIDE DEF op, w
<1>3. ASSUME NEW o \in Owner
      PROVE  /\ op.to[FxResult(o)] = 0 /\ op.from[FxResult(o)] = 0
             /\ op.from[Unallocated(o)] = 0 /\ op.to[Unallocated(o)] >= 0
  <2>1. /\ Unallocated(o) \in Category /\ FxResult(o) \in Category
        /\ Unallocated(o) # g /\ FxResult(o) # g
    BY SystemCategories
  <2> QED BY <1>2, <2>1, InValue, SMT
<1>4. Plain(op) /\ Guards(ledger, ledger')
  BY <1>1, <1>3, FreeGiven DEF LedgerInv
<1> QED BY <1>1, <1>4, FreeRecorded DEF LedgerInv

\* Exchanges and transfers may draw on an overdrawn free budget.
LEMMA ExchangeFree ==
    ASSUME NEW a \in Account, NEW c \in Currency, NEW d \in Currency,
           NEW given \in Amounts, NEW received \in Amounts,
           LedgerInv(ledger), LedgerInv(ledger'), FreeInv(ledger),
           ExchangeCurrency(a, c, given, d, received)
    PROVE  FreeInv(ledger') /\ MayOverdrawFreeBudget(LastOperation')
<1> DEFINE b == <<a, c>>
           t == <<a, d>>
           w == Withdrawal(ledger, b, given)
           op == Op("exchange", AccountOwner[a], Plus(On(b, -given), On(t, received)), NoBudget,
                    In(FxResult(AccountOwner[a]), ExchangeResult(t, received, w.cost)), w)
<1>1. Recorded(ledger, ledger', op)
  BY PostedRecords DEF ExchangeCurrency
<1>2. op.type = "exchange"
  BY OpFree
<1> HIDE DEF op
<1>3. LastOperation' = op
  BY <1>1, RecordedRows DEF LastOperation, LedgerInv
<1>4. FreeInv(ledger')
  BY <1>1, <1>2, FreeRecorded DEF LedgerInv
<1> QED BY <1>2, <1>3, <1>4 DEF MayOverdrawFreeBudget

LEMMA TransferFree ==
    ASSUME NEW a \in Account, NEW t \in Account, NEW c \in Currency, NEW amount \in Amounts,
           LedgerInv(ledger), LedgerInv(ledger'), FreeInv(ledger),
           TransferBetweenAccounts(a, t, c, amount)
    PROVE  FreeInv(ledger') /\ MayOverdrawFreeBudget(LastOperation')
<1> DEFINE b == <<a, c>>
           w == Withdrawal(ledger, b, amount)
           from == Unallocated(AccountOwner[a])
           to == Unallocated(AccountOwner[t])
           debit == BudgetDebit(ledger, a, t, w.cost)
           credit == BudgetCredit(ledger, a, t, b, amount, w.cost)
           op == Op("account_transfer", AccountOwner[a], Plus(On(b, -amount), On(<<t, c>>, amount)),
                    In(from, debit), In(to, credit), w)
<1>1. Recorded(ledger, ledger', op)
  BY PostedRecords DEF TransferBetweenAccounts
<1>2. op.type = "account_transfer" /\ op.from = In(from, debit) /\ op.to = In(to, credit)
  BY OpFree
<1>3. debit >= 0
  <2>1. w.cost \in Nat
    BY AmountAssumption, WithdrawalCosts DEF Balance
  <2>2. TransferDebt(ledger, t) \in Int
    BY TransferDebtInt
  <2> HIDE DEF w
  <2> QED BY <2>1, <2>2, SMT DEF BudgetDebit, CardBudgetDebt, Lesser, Greater
<1> HIDE DEF op, debit, credit
<1>4. AccountOwner[a] \in Owner /\ AccountOwner[t] \in Owner
  BY OwnershipAssumption
<1>5. ASSUME NEW o \in Owner
      PROVE  /\ op.to[FxResult(o)] = 0 /\ op.from[FxResult(o)] = 0
             /\ op.from[Unallocated(o)] >= 0
  <2>1. /\ Unallocated(o) \in Category /\ FxResult(o) \in Category
        /\ FxResult(o) # from /\ FxResult(o) # to
    BY <1>4, SystemCategories
  <2> HIDE DEF from, to
  <2> QED BY <1>2, <1>3, <2>1, InValue
<1>6. Plain(op)
  BY <1>5 DEF Plain
<1>7. LastOperation' = op
  BY <1>1, RecordedRows DEF LastOperation, LedgerInv
<1>8. FreeInv(ledger')
  BY <1>1, <1>6, FreeRecorded DEF LedgerInv
<1> QED BY <1>2, <1>7, <1>8 DEF MayOverdrawFreeBudget

LEMMA AllocatableSystem ==
    ASSUME NEW c \in Category, Allocatable(c), activeCategories \subseteq Regular
    PROVE  \/ c \in Regular
           \/ \E o \in Owner : c = Unallocated(o) /\ o = CategoryOwner(c)
<1>1. CASE c \in activeCategories
  BY <1>1
<1>2. CASE c \in Owner \X {"Unallocated"}
  <2>1. PICK o \in Owner : c = <<o, "Unallocated">>
    BY <1>2
  <2> QED BY <2>1, SystemCategories DEF Unallocated
<1> QED BY <1>1, <1>2 DEF Allocatable

LEMMA AllocateFree ==
    ASSUME NEW f \in Category, NEW t \in Category, NEW amount \in Amounts,
           LedgerInv(ledger), LedgerInv(ledger'), FreeInv(ledger),
           activeCategories \subseteq Regular, AllocateBudget(f, t, amount)
    PROVE  FreeInv(ledger') /\ Guards(ledger, ledger')
<1> DEFINE owner == CategoryOwner(f)
           op == Op("allocate", owner, NoBank, In(f, amount), In(t, amount), NoUse(ledger))
<1>1. Recorded(ledger, ledger', op)
  BY PostedRecords DEF AllocateBudget
<1>2. op.from = In(f, amount) /\ op.to = In(t, amount)
  BY OpFree
<1>3. /\ amount \in Nat \ {0} /\ Allocatable(f) /\ Allocatable(t)
      /\ f \in Regular \/ FreeBudget(ledger, owner) >= amount
  BY AmountAssumption DEF AllocateBudget, CanGive
<1>4. owner \in Owner
  BY CategoryOwned
<1> HIDE DEF op, owner
<1>5. ASSUME NEW o \in Owner
      PROVE  /\ op.to[FxResult(o)] = 0 /\ op.from[FxResult(o)] = 0
             /\ op.from[Unallocated(o)] >= 0 /\ op.to[Unallocated(o)] >= 0
             /\ op.from[Unallocated(o)] # 0 => f \notin Regular /\ o = owner
             /\ op.from[Unallocated(o)] <= amount
  <2>1. /\ Unallocated(o) \in Category \ Regular /\ FxResult(o) \in Category \ Regular
        /\ CategoryOwner(Unallocated(o)) = o
    BY SystemCategories
  <2>2. FxResult(o) # f /\ FxResult(o) # t
    BY <1>3, <2>1, AllocatableSystem, SystemCategories
  <2>3. Unallocated(o) = f => f \notin Regular /\ o = owner
    BY <2>1 DEF owner
  <2> QED BY <1>2, <1>3, <2>1, <2>2, <2>3, InValue, SMT
<1>6. CASE f \in Regular
  <2>1. \A o \in Owner : /\ op.to[FxResult(o)] = 0 /\ op.from[FxResult(o)] = 0
                         /\ op.from[Unallocated(o)] = 0 /\ op.to[Unallocated(o)] >= 0
    BY <1>5, <1>6
  <2>2. Plain(op) /\ Guards(ledger, ledger')
    BY <1>1, <2>1, FreeGiven DEF LedgerInv
  <2> QED BY <1>1, <2>2, FreeRecorded DEF LedgerInv
<1>7. CASE f \notin Regular
  <2>1. \A o \in Owner : /\ op.to[FxResult(o)] = 0 /\ op.from[FxResult(o)] = 0
                         /\ op.from[Unallocated(o)] >= 0
                         /\ o # owner => op.from[Unallocated(o)] = 0
                                         /\ op.to[Unallocated(o)] >= 0
    BY <1>5
  <2>2. FreeBudget(ledger, owner) >= op.from[Unallocated(owner)] - op.to[Unallocated(owner)]
    <3>1. /\ FreeBudget(ledger, owner) \in Int
          /\ op.from[Unallocated(owner)] \in Int /\ op.to[Unallocated(owner)] \in Int
      BY <1>1, <1>4, FreeAfter DEF LedgerInv
    <3>2. op.from[Unallocated(owner)] <= amount /\ op.to[Unallocated(owner)] >= 0
      BY <1>4, <1>5
    <3>3. FreeBudget(ledger, owner) >= amount
      BY <1>3, <1>7
    <3> QED BY <1>3, <3>1, <3>2, <3>3, SMT
  <2>3. Plain(op) /\ Guards(ledger, ledger')
    BY <1>1, <1>4, <2>1, <2>2, FreeTaken DEF LedgerInv
  <2> QED BY <1>1, <2>3, FreeRecorded DEF LedgerInv
<1> QED BY <1>6, <1>7

\* Only the last share of a group may round to less than nothing, and
\* Unallocated comes first.
LEMMA SharesOfFree ==
    ASSUME NEW plan \in GroupPlans, NEW amount \in Nat, NEW o \in Owner,
           \A k \in DOMAIN plan : plan[k].category # FxResult(o)
    PROVE  /\ MemberCredit(plan, amount)[FxResult(o)] = 0
           /\ MemberCredit(plan, amount)[Unallocated(o)] \in Nat
<1> DEFINE n == Len(plan)
           share == [k \in DOMAIN plan |-> RoundDiv(amount * plan[k].share, 100)]
           line == GroupLine(plan, amount)
           u == Unallocated(o)
           x == FxResult(o)
           ofU == [k \in DOMAIN plan |-> IF plan[k].category = u THEN GroupLine(plan, amount)[k] ELSE 0]
           ofX == [k \in DOMAIN plan |-> IF plan[k].category = x THEN GroupLine(plan, amount)[k] ELSE 0]
<1>1. /\ n \in Nat /\ DOMAIN plan = 1..n
      /\ \A k \in 1..n : plan[k].share \in Nat /\ (plan[k].category \notin Regular => k = 1)
  BY PlansAssumption
<1>2. u \in Category \ Regular /\ x \in Category
  BY SystemCategories
<1>3. MemberCredit(plan, amount)[u] = SumTo(ofU, n) /\ MemberCredit(plan, amount)[x] = SumTo(ofX, n)
  BY <1>2 DEF MemberCredit
<1>4. \A k \in 1..n : ofX[k] = 0
  BY <1>1
<1>5. ASSUME NEW k \in 1..n PROVE ofU[k] \in Nat
  <2>1. CASE plan[k].category # u
    BY <1>1, <2>1
  <2>2. CASE plan[k].category = u
    <3>1. k = 1
      BY <1>1, <1>2, <2>2
    <3>2. ofU[k] = line[k]
      BY <1>1, <2>2
    <3>3. line[k] = IF k < n THEN share[k] ELSE amount - SumTo(share, n - 1)
      BY <1>1, SMT DEF GroupLine
    <3>4. share[k] \in Nat
      <4>1. amount * plan[k].share \in Nat /\ 100 \in Nat \ {0}
        BY <1>1, SMT
      <4>2. RoundDiv(amount * plan[k].share, 100) \in Nat
        BY <4>1, RoundDivNatural
      <4> QED BY <1>1, <4>2
    <3> HIDE DEF share, line, ofU
    <3>5. ~(k < n) => n - 1 = 0
      BY <1>1, <3>1, SMT
    <3>6. SumTo(share, 0) = 0
      BY SumToZero
    <3> QED BY <3>2, <3>3, <3>4, <3>5, <3>6, SMT
  <2> QED BY <2>1, <2>2
<1> HIDE DEF ofU, ofX, n
<1>6. SumTo(ofX, n) = 0 /\ SumTo(ofU, n) \in Nat
  BY <1>1, <1>4, <1>5, SumToZeros, SumToNatural
<1> QED BY <1>3, <1>6 DEF u, x

LEMMA AllocateGroupFree ==
    ASSUME NEW f \in Category, NEW plan \in GroupPlans, NEW amount \in Amounts,
           LedgerInv(ledger), LedgerInv(ledger'), FreeInv(ledger),
           activeCategories \subseteq Regular, AllocateGroupBudget(f, plan, amount)
    PROVE  FreeInv(ledger') /\ Guards(ledger, ledger')
<1> DEFINE owner == CategoryOwner(f)
           credit == MemberCredit(plan, amount)
           op == Op("group_allocate", owner, NoBank, In(f, amount), credit, NoUse(ledger))
<1>1. Recorded(ledger, ledger', op)
  BY PostedRecords DEF AllocateGroupBudget
<1>2. op.from = In(f, amount) /\ op.to = credit
  BY OpFree
<1>3. /\ amount \in Nat \ {0} /\ Allocatable(f)
      /\ \A k \in DOMAIN plan : Allocatable(plan[k].category)
      /\ f \in Regular \/ FreeBudget(ledger, owner) >= amount - credit[f]
  BY AmountAssumption DEF AllocateGroupBudget, CanGive
<1>4. owner \in Owner
  BY CategoryOwned
<1> HIDE DEF op, owner, credit
<1>5. ASSUME NEW o \in Owner
      PROVE  /\ op.to[FxResult(o)] = 0 /\ op.from[FxResult(o)] = 0
             /\ op.from[Unallocated(o)] >= 0 /\ op.to[Unallocated(o)] >= 0
             /\ op.from[Unallocated(o)] # 0 => f = Unallocated(o) /\ o = owner
             /\ op.from[Unallocated(o)] <= amount
  <2>1. /\ Unallocated(o) \in Category \ Regular /\ FxResult(o) \in Category \ Regular
        /\ CategoryOwner(Unallocated(o)) = o
    BY SystemCategories
  <2>2. FxResult(o) # f
    BY <1>3, <2>1, AllocatableSystem, SystemCategories
  <2>3. ASSUME NEW k \in DOMAIN plan PROVE plan[k].category # FxResult(o)
    <3>1. Allocatable(plan[k].category)
      BY <1>3
    <3> SUFFICES ASSUME plan[k].category = FxResult(o) PROVE FALSE
      OBVIOUS
    <3>2. Allocatable(FxResult(o))
      BY <3>1
    <3> QED BY <2>1, <3>2, AllocatableSystem, SystemCategories
  <2>4. credit[FxResult(o)] = 0 /\ credit[Unallocated(o)] \in Nat
    BY <1>3, <2>3, SharesOfFree DEF credit
  <2>5. Unallocated(o) = f => o = owner
    BY <2>1 DEF owner
  <2>6. In(f, amount)[FxResult(o)] = 0
        /\ In(f, amount)[Unallocated(o)] = IF Unallocated(o) = f THEN amount ELSE 0
    BY <2>1, <2>2, InValue
  <2> QED BY <1>2, <1>3, <2>4, <2>5, <2>6, SMT
<1>6. CASE f \in Regular
  <2>1. \A o \in Owner : f # Unallocated(o)
    BY <1>6, SystemCategories
  <2>2. \A o \in Owner : /\ op.to[FxResult(o)] = 0 /\ op.from[FxResult(o)] = 0
                         /\ op.from[Unallocated(o)] = 0 /\ op.to[Unallocated(o)] >= 0
    BY <1>5, <2>1
  <2>3. Plain(op) /\ Guards(ledger, ledger')
    BY <1>1, <2>2, FreeGiven DEF LedgerInv
  <2> QED BY <1>1, <2>3, FreeRecorded DEF LedgerInv
<1>7. CASE f \notin Regular
  <2>1. \A o \in Owner : /\ op.to[FxResult(o)] = 0 /\ op.from[FxResult(o)] = 0
                         /\ op.from[Unallocated(o)] >= 0
                         /\ o # owner => op.from[Unallocated(o)] = 0
                                         /\ op.to[Unallocated(o)] >= 0
    BY <1>5
  <2>2. f = Unallocated(owner)
    BY <1>3, <1>7, AllocatableSystem DEF owner
  <2>3. FreeBudget(ledger, owner) >= op.from[Unallocated(owner)] - op.to[Unallocated(owner)]
    <3>1. /\ FreeBudget(ledger, owner) \in Int
          /\ op.from[Unallocated(owner)] \in Int /\ op.to[Unallocated(owner)] \in Int
      BY <1>1, <1>4, FreeAfter DEF LedgerInv
    <3>2. op.from[Unallocated(owner)] <= amount
      BY <1>4, <1>5
    <3>3. FreeBudget(ledger, owner) >= amount - op.to[Unallocated(owner)]
      BY <1>2, <1>3, <1>7, <2>2
    <3> QED BY <1>3, <3>1, <3>2, <3>3, SMT
  <2>4. Plain(op) /\ Guards(ledger, ledger')
    BY <1>1, <1>4, <2>1, <2>3, FreeTaken DEF LedgerInv
  <2> QED BY <1>1, <2>4, FreeRecorded DEF LedgerInv
<1> QED BY <1>6, <1>7

\* A reversal asks for what it takes out of the free budget, unless the
\* operation was an exchange whose loss it also takes back.
LEMMA ReverseFree ==
    ASSUME NEW k \in DOMAIN ledger.operations, LedgerInv(ledger), LedgerInv(ledger'),
           FreeInv(ledger), ReverseOperation(k)
    PROVE  /\ FreeInv(ledger')
           /\ MayOverdrawFreeBudget(LastOperation') \/ Guards(ledger, ledger')
<1> DEFINE op == ledger.operations[k]
           back == ReversalOf(ledger, k)
           posted == Posted(ledger, back, ReversalCost(ledger, k), <<>>)
<1>1. /\ op.type # "reversal" /\ BudgetCovers(ledger, op)
      /\ ledger' = [posted EXCEPT !.lots = Emptied(@, OpenedBy(ledger, k))]
  BY DEF ReverseOperation, Reversible
<1>2. LedgerInv(posted)
  BY <1>1, ReversalRows, ReversalCostInt, NoLotOpens, PostedInv
<1>3. Recorded(ledger, posted, back)
  BY PostedRecords
<1> HIDE DEF posted
<1>4. Recorded(ledger, ledger', back)
  <2>1. ledger'.operations = posted.operations /\ ledger'.amount = posted.amount
        /\ ledger'.budget = posted.budget
    BY <1>1, <1>2, SMT DEF LedgerInv, Ledger
  <2> QED BY <1>3, <2>1 DEF Recorded
<1>5. /\ back.reverses = k /\ back.type = "reversal"
      /\ back.from = Negated(op.from) /\ back.to = Negated(op.to)
  BY DEF ReversalOf
<1> HIDE DEF back
<1>6. FreeInv(ledger')
  BY <1>4, <1>5, FreeRecorded DEF LedgerInv
<1>7. LastOperation' = back
  BY <1>4, RecordedRows DEF LastOperation, LedgerInv
<1>8. CASE op.type = "exchange"
  <2>1. k # 0
    BY LedgerFields, SMT DEF LedgerInv
  <2> QED BY <1>5, <1>6, <1>7, <1>8, <2>1 DEF MayOverdrawFreeBudget
<1>9. CASE op.type # "exchange"
  <2>1. Plain(op)
    BY <1>1, <1>9 DEF FreeInv
  <2>2. ASSUME NEW o \in Owner
        PROVE  FreeBudget(ledger', o) >= 0 \/ FreeBudget(ledger', o) >= FreeBudget(ledger, o)
    <3> DEFINE u == Unallocated(o)
               x == FxResult(o)
    <3>1. u \in Category /\ x \in Category
      BY SystemCategories
    <3>2. /\ op.from \in [Category -> Int] /\ op.to \in [Category -> Int]
      BY LedgerFields, OperationFields DEF LedgerInv
    <3>3. /\ back.from[u] = -op.from[u] /\ back.to[u] = -op.to[u]
          /\ back.from[x] = -op.from[x] /\ back.to[x] = -op.to[x]
          /\ op.from[u] \in Int /\ op.to[u] \in Int
      BY <1>5, <3>1, <3>2 DEF Negated
    <3>4. op.from[x] = 0 /\ op.to[x] = 0 /\ op.from[u] >= 0
      BY <2>1 DEF Plain
    <3>5. op.to[u] > 0 => FreeBudget(ledger, o) >= op.to[u]
      BY <1>1 DEF BudgetCovers
    <3>6. /\ FreeBudget(ledger, o) \in Int
          /\ FreeBudget(ledger', o) = FreeBudget(ledger, o) + (back.to[u] - back.from[u])
                                      + (back.to[x] - back.from[x])
      BY <1>4, FreeAfter DEF LedgerInv
    <3> HIDE DEF u, x, op
    <3> QED BY <3>3, <3>4, <3>5, <3>6, SMT
  <2> QED BY <1>6, <2>2 DEF Guards
<1> QED BY <1>8, <1>9

LEMMA ArchiveFree ==
    ASSUME NEW c \in Regular, LedgerInv(ledger), LedgerInv(ledger'), FreeInv(ledger),
           ArchiveCategory(c)
    PROVE  FreeInv(ledger') /\ activeCategories' # activeCategories
<1> DEFINE o == RegularOwner[c]
           left == ledger.budget[c]
           op == Op("allocate", o, NoBank, In(c, left), In(Unallocated(o), left), NoUse(ledger))
<1>1. c \in activeCategories /\ activeCategories' = activeCategories \ {c}
  BY DEF ArchiveCategory
<1>2. UNCHANGED ledger \/ Recorded(ledger, ledger', op)
  BY PostedRecords DEF ArchiveCategory
<1>3. op.from = In(c, left) /\ op.to = In(Unallocated(o), left) /\ o \in Owner
  BY OpFree, OwnershipAssumption
<1> HIDE DEF op, o, left
<1>4. Plain(op)
  <2> SUFFICES ASSUME NEW e \in Owner
               PROVE  /\ op.to[FxResult(e)] = 0 /\ op.from[FxResult(e)] = 0
                      /\ op.from[Unallocated(e)] >= 0
    BY DEF Plain
  <2>1. /\ Unallocated(e) \in Category \ Regular /\ FxResult(e) \in Category \ Regular
        /\ FxResult(e) # Unallocated(o)
    BY <1>3, SystemCategories
  <2> QED BY <1>3, <2>1, InValue, SMT
<1>5. CASE Recorded(ledger, ledger', op)
  BY <1>1, <1>4, <1>5, FreeRecorded DEF LedgerInv
<1>6. CASE UNCHANGED ledger
  BY <1>1, <1>6
<1> QED BY <1>2, <1>5, <1>6

GInv == HInv /\ FreeInv(ledger)

LEMMA InitGInv == Init => GInv
<1> SUFFICES ASSUME Init PROVE GInv
  OBVIOUS
<1>1. DOMAIN ledger.operations = {}
  BY SMT DEF Init
<1> QED BY <1>1, InitHInv DEF GInv, FreeInv

LEMMA SameFree ==
    ASSUME NEW s, NEW t, FreeInv(s), t.operations = s.operations, s \in Ledger,
           \A c \in Category : t.budget[c] = s.budget[c]
    PROVE  FreeInv(t) /\ Guards(s, t)
<1>1. FreeInv(t)
  BY DEF FreeInv
<1>2. ASSUME NEW o \in Owner PROVE FreeBudget(t, o) >= FreeBudget(s, o)
  <2>1. Unallocated(o) \in Category /\ FxResult(o) \in Category
    BY SystemCategories
  <2>2. FreeBudget(t, o) = FreeBudget(s, o)
    BY <2>1 DEF FreeBudget
  <2>3. s.budget[Unallocated(o)] \in Int /\ s.budget[FxResult(o)] \in Int
    BY <2>1, LedgerFields
  <2> QED BY <2>2, <2>3, SMT DEF FreeBudget
<1> QED BY <1>1, <1>2 DEF Guards

\* what FreeBudgetGuarded says of a step
FreeGuarded ==
    \A o \in Owner : FreeBudgetDrawn(o) =>
        MayOverdrawFreeBudget(LastOperation') \/ activeCategories' # activeCategories

LEMMA GuardsFree ==
    ASSUME LedgerInv(ledger), LedgerInv(ledger'),
           \/ Guards(ledger, ledger')
           \/ MayOverdrawFreeBudget(LastOperation') \/ activeCategories' # activeCategories
    PROVE  FreeGuarded
<1> SUFFICES ASSUME Guards(ledger, ledger'), NEW o \in Owner, FreeBudgetDrawn(o)
             PROVE  FALSE
  BY DEF FreeGuarded
<1>1. FreeBudget(ledger', o) < 0 /\ FreeBudget(ledger', o) < FreeBudget(ledger, o)
  BY DEF FreeBudgetDrawn, FreeBudget
<1>2. FreeBudget(ledger', o) \in Int /\ FreeBudget(ledger, o) \in Int
  <2>1. Unallocated(o) \in Category /\ FxResult(o) \in Category
    BY SystemCategories
  <2>2. ledger.budget \in [Category -> Int] /\ ledger'.budget \in [Category -> Int]
    BY LedgerFields DEF LedgerInv
  <2>3. /\ ledger.budget[Unallocated(o)] \in Int /\ ledger.budget[FxResult(o)] \in Int
        /\ ledger'.budget[Unallocated(o)] \in Int /\ ledger'.budget[FxResult(o)] \in Int
    BY <2>1, <2>2
  <2> QED BY <2>3, SMT DEF FreeBudget
<1>3. FreeBudget(ledger', o) >= 0 \/ FreeBudget(ledger', o) >= FreeBudget(ledger, o)
  BY DEF Guards
<1> QED BY <1>1, <1>2, <1>3, SMT

LEMMA StepFree ==
    ASSUME GInv, [Next]_vars PROVE FreeInv(ledger') /\ FreeGuarded
<1>1. /\ LedgerInv(ledger) /\ LedgerInv(ledger') /\ FreeInv(ledger)
      /\ HistoryInv(ledger, creditLimit) /\ activeCategories \subseteq Regular
  BY StepHInv DEF GInv, HInv, IInv, TypeOK
<1> SUFFICES /\ FreeInv(ledger')
             /\ \/ Guards(ledger, ledger')
                \/ MayOverdrawFreeBudget(LastOperation') \/ activeCategories' # activeCategories
  BY <1>1, GuardsFree
<1>2. ASSUME NEW a \in Account, NEW c \in Currency, NEW amount \in Amounts, NEW v \in Costs,
             NEW p \in TaxPercents, RecordIncome(a, c, amount, v, p)
      PROVE  FreeInv(ledger') /\ Guards(ledger, ledger')
  BY <1>1, <1>2, RecordIncomeFree
<1>3. ASSUME NEW a \in Account, NEW g \in Regular, NEW c \in Currency, NEW amount \in Amounts,
             RecordExpense(a, g, c, amount)
      PROVE  FreeInv(ledger') /\ Guards(ledger, ledger')
  BY <1>1, <1>3, RecordExpenseFree
<1>4. ASSUME NEW a \in Account, NEW c \in Currency, NEW d \in Currency,
             NEW given \in Amounts, NEW received \in Amounts,
             ExchangeCurrency(a, c, given, d, received)
      PROVE  FreeInv(ledger') /\ MayOverdrawFreeBudget(LastOperation')
  BY <1>1, <1>4, ExchangeFree
<1>5. ASSUME NEW a \in Account, NEW t \in Account, NEW c \in Currency, NEW amount \in Amounts,
             TransferBetweenAccounts(a, t, c, amount)
      PROVE  FreeInv(ledger') /\ MayOverdrawFreeBudget(LastOperation')
  BY <1>1, <1>5, TransferFree
<1>6. ASSUME NEW f \in Category, NEW t \in Category, NEW amount \in Amounts,
             AllocateBudget(f, t, amount)
      PROVE  FreeInv(ledger') /\ Guards(ledger, ledger')
  BY <1>1, <1>6, AllocateFree
<1>7. ASSUME NEW f \in Category, NEW plan \in GroupPlans, NEW amount \in Amounts,
             AllocateGroupBudget(f, plan, amount)
      PROVE  FreeInv(ledger') /\ Guards(ledger, ledger')
  BY <1>1, <1>7, AllocateGroupFree
<1>8. ASSUME NEW k \in DOMAIN ledger.operations, ReverseOperation(k)
      PROVE  FreeInv(ledger') /\ (MayOverdrawFreeBudget(LastOperation') \/ Guards(ledger, ledger'))
  BY <1>1, <1>8, ReverseFree
<1>9. CASE RebuildCurrentBalances
  <2>1. ledger' = Rebuilt(ledger)
    BY <1>9 DEF RebuildCurrentBalances
  <2>2. ledger'.operations = ledger.operations /\ ledger'.budget = ledger.budget
    BY <1>1, <2>1, RebuiltRows DEF HistoryInv
  <2> QED BY <1>1, <2>2, SameFree DEF LedgerInv
<1>10. ASSUME NEW c \in Regular, ArchiveCategory(c)
       PROVE  FreeInv(ledger') /\ activeCategories' # activeCategories
  BY <1>1, <1>10, ArchiveFree
<1>11. CASE UNCHANGED ledger
  BY <1>1, <1>11, SameFree DEF LedgerInv
<1>12. /\ \A a \in Account, limit \in Limits : UpdateCreditLimit(a, limit) => UNCHANGED ledger
       /\ \A a \in Account : ArchiveCreditAccount(a) => UNCHANGED ledger
       /\ UNCHANGED vars => UNCHANGED ledger
  BY DEF UpdateCreditLimit, ArchiveCreditAccount, vars
<1> QED BY <1>2, <1>3, <1>4, <1>5, <1>6, <1>7, <1>8, <1>9, <1>10, <1>11, <1>12 DEF Next

\* Unallocated and FX Result are one envelope of two rows which put__allocate_budget,
\* put__allocate_group_budget, put__record_income_tax and put__reverse_operation check each
\* in its own way; in any history none of them takes out of it what is not there.
\* Only an exchange, its cancellation, a transfer and an archived category do.
THEOREM FreeBudgetIsGuarded == Spec => FreeBudgetGuarded
<1>1. GInv /\ [Next]_vars => GInv'
  BY StepHInv, StepFree DEF GInv
<1>2. Spec => []GInv
  BY InitGInv, <1>1, PTL DEF Spec
<1>3. GInv /\ [Next]_vars =>
        [\A o \in Owner : FreeBudgetDrawn(o) =>
            MayOverdrawFreeBudget(LastOperation') \/ activeCategories' # activeCategories]_vars
  BY StepFree DEF FreeGuarded
<1> QED BY <1>2, <1>3, PTL DEF Spec, FreeBudgetGuarded
=============================================================================
