------------------------ MODULE BudgetLedgerLotsProofs ------------------------
(***************************************************************************)
(* The FX lots of the ledger: what is left in a lot is what its live uses    *)
(* have left, the money on a foreign-currency balance is the money of its   *)
(* lots, and rebuild_current_balances finds every projection as the deltas  *)
(* of the operations have left it.                                          *)
(* Then the money of the ledger, which rests on the lots: what the           *)
(* categories hold is what the accounts hold and the cards have brought in,  *)
(* and no card has brought in more than is owed on it.                       *)
(***************************************************************************)
EXTENDS BudgetLedgerProofs

(***************************************************************************)
(* The rows of lot_consumptions, whatever lots there are now.               *)
(***************************************************************************)
RowAt(row, i) == IF i \in DOMAIN row THEN row[i] ELSE 0

\* an operation that is neither a reversal nor reversed
Live(s, k) == s.operations[k].type # "reversal" /\ ~IsReversed(s, k)

UsesOf(s, i)     == [k \in DOMAIN s.operations |-> RowAt(s.operations[k].used, i)]
UseCostsOf(s, i) == [k \in DOMAIN s.operations |-> RowAt(s.operations[k].usedCost, i)]
LiveUsesOf(s, i) == [k \in DOMAIN s.operations |->
                        IF Live(s, k) THEN RowAt(s.operations[k].used, i) ELSE 0]

BalanceOf(lot) == <<lot.account, lot.currency>>

\* what an operation brings to the lots of a balance, less what it uses of them
FlowOn(s, k, b) ==
    [i \in DOMAIN s.lots |->
        IF OnBalance(s.lots[i], b)
        THEN (IF s.lots[i].openedBy = k THEN s.lots[i].initial ELSE 0)
             - RowAt(s.operations[k].used, i)
        ELSE 0]

\* and to their cost
CostFlowOn(s, k, b) ==
    [i \in DOMAIN s.lots |->
        IF OnBalance(s.lots[i], b)
        THEN (IF s.lots[i].openedBy = k THEN s.lots[i].costInitial ELSE 0)
             - RowAt(s.operations[k].usedCost, i)
        ELSE 0]

CostsOn(s, b) == [i \in DOMAIN s.lots |-> IF OnBalance(s.lots[i], b) THEN s.lots[i].cost ELSE 0]

(***************************************************************************)
(* The invariant.                                                           *)
(***************************************************************************)
\* an operation uses lots that were there before it
LotsInOrder(s) ==
    /\ \A i \in DOMAIN s.lots : s.lots[i].openedBy \in DOMAIN s.operations
    /\ \A k \in DOMAIN s.operations :
          LET op == s.operations[k]
          IN  /\ DOMAIN op.usedCost = DOMAIN op.used
              /\ \A i \in DOMAIN op.used : i \in DOMAIN s.lots /\ s.lots[i].openedBy < k

\* a lot holds what its live uses have left, of money and of cost
LotsLeft(s) ==
    \A i \in DOMAIN s.lots :
        LET lot  == s.lots[i]
            used == SumTo(UsesOf(s, i), Len(s.operations))
        IN  /\ used = SumTo(LiveUsesOf(s, i), Len(s.operations))
            /\ IF IsReversed(s, lot.openedBy)
               THEN lot.remaining = 0 /\ lot.cost = 0 /\ used = 0
               ELSE /\ lot.remaining = lot.initial - used
                    /\ lot.cost = lot.costInitial
                                  - SumTo(UseCostsOf(s, i), Len(s.operations))

\* an operation takes from one balance, and from its lots only, and gives to
\* one balance, where the lot it opens lies
OneToOne(op) ==
    \A b, d \in Balance :
        /\ op.bank[b] < 0 /\ op.bank[d] < 0 => b = d
        /\ op.bank[b] > 0 /\ op.bank[d] > 0 => b = d
MovesLots(s, k) ==
    LET op == s.operations[k]
    IN  /\ OneToOne(op)
        /\ \A b \in Balance : op.bank[b] # 0 => BaseOf(b[1]) = OwnerBase[op.owner]
        /\ \A b \in Balance : ~IsBase(b) =>
              op.bank[b] = SumTo(FlowOn(s, k, b), Len(s.lots))
        /\ \A i \in DOMAIN s.lots :
              /\ s.lots[i].openedBy = k => op.bank[BalanceOf(s.lots[i])] > 0
              /\ RowAt(op.used, i) # 0 => op.bank[BalanceOf(s.lots[i])] < 0

\* foreign money is the money of its lots, at their cost
LotsHold(s) ==
    \A b \in Balance : ~IsBase(b) =>
        /\ s.amount[b] = SumTo(Remaining(s.lots, b), Len(s.lots))
        /\ s.cost[b] = SumTo(CostsOn(s, b), Len(s.lots))

\* money of the base currency costs what it is
BaseCosts(s) ==
    TicksPerCent = 1 => \A b \in Balance : IsBase(b) => s.cost[b] = s.amount[b]

LotsInv(s) ==
    /\ LotsInOrder(s)
    /\ LotsLeft(s)
    /\ \A k \in DOMAIN s.operations :
          s.operations[k].type # "reversal" => MovesLots(s, k)
    /\ LotsHold(s)
    /\ BaseCosts(s)

(***************************************************************************)
(* Rows and lots one operation later.                                       *)
(***************************************************************************)
LEMMA RowAtInt ==
    ASSUME NEW row \in Seq(Int), NEW i
    PROVE  RowAt(row, i) \in Int
<1>1. CASE i \in DOMAIN row
  <2>1. row[i] \in Int
    BY <1>1, LenProperties, ElementOfSeq
  <2> QED BY <1>1, <2>1 DEF RowAt
<1>2. CASE i \notin DOMAIN row
  BY <1>2, SMT DEF RowAt
<1> QED BY <1>1, <1>2

LEMMA OperationRows ==
    ASSUME NEW s \in Ledger, NEW k \in DOMAIN s.operations, NEW i
    PROVE  /\ RowAt(s.operations[k].used, i) \in Int
           /\ RowAt(s.operations[k].usedCost, i) \in Int
<1>1. s.operations[k].used \in Seq(Int) /\ s.operations[k].usedCost \in Seq(Int)
  BY LedgerFields, OperationFields
<1> QED BY <1>1, RowAtInt

\* What an operation other than a reversal uses is not negative, nor is its
\* cost; no money, no cost.
LEMMA UsesNatural ==
    ASSUME NEW s, LedgerInv(s), NEW k \in DOMAIN s.operations,
           s.operations[k].type # "reversal", NEW i
    PROVE  LET op == s.operations[k]
           IN  /\ RowAt(op.used, i) \in Nat /\ RowAt(op.usedCost, i) \in Nat
               /\ RowAt(op.used, i) = 0 => RowAt(op.usedCost, i) = 0
<1> DEFINE op == s.operations[k]
<1>1. RowAt(op.used, i) \in Int /\ RowAt(op.usedCost, i) \in Int
  BY OperationRows DEF LedgerInv
<1>2. Uses(op)
  BY DEF LedgerInv
<1> HIDE DEF op
<1>3. /\ RowAt(op.used, i) \in Nat /\ RowAt(op.usedCost, i) \in Nat
      /\ RowAt(op.used, i) = 0 => RowAt(op.usedCost, i) = 0
  <2>1. CASE i \in DOMAIN op.used
    <3>1. op.used[i] >= 0 /\ op.usedCost[i] >= 0 /\ (op.used[i] = 0 => op.usedCost[i] = 0)
      BY <1>2, <2>1 DEF Uses
    <3>2. RowAt(op.used, i) = op.used[i] /\ RowAt(op.usedCost, i) = op.usedCost[i]
      BY <1>2, <2>1 DEF Uses, RowAt
    <3> QED BY <1>1, <3>1, <3>2, SMT
  <2>2. CASE i \notin DOMAIN op.used
    <3>1. RowAt(op.used, i) = 0 /\ RowAt(op.usedCost, i) = 0
      BY <1>2, <2>2 DEF Uses, RowAt
    <3> QED BY <3>1, SMT
  <2> QED BY <2>1, <2>2
<1> QED BY <1>3 DEF op

\* Only what is left in a lot changes.
Kept(x, y) ==
    /\ y.account = x.account /\ y.currency = x.currency
    /\ y.initial = x.initial /\ y.costInitial = x.costInitial /\ y.openedBy = x.openedBy

\* t has the lots of s and p more.
LotsKept(s, t, p) ==
    /\ Len(s.lots) \in Nat /\ p \in {0, 1}
    /\ Len(t.lots) = Len(s.lots) + p
    /\ DOMAIN s.lots = 1..Len(s.lots) /\ DOMAIN t.lots = 1..(Len(s.lots) + p)
    /\ \A i \in 1..Len(s.lots) : Kept(s.lots[i], t.lots[i])

LEMMA LotsAppended ==
    ASSUME NEW before \in Seq(Lot), NEW more \in Seq(Lot)
    PROVE  /\ Len(before \o more) = Len(before) + Len(more)
           /\ \A i \in 1..(Len(before) + Len(more)) :
                 (before \o more)[i] = IF i <= Len(before) THEN before[i]
                                                            ELSE more[i - Len(before)]
  BY ConcatProperties

LEMMA AfterPosting ==
    ASSUME NEW s, LedgerInv(s), NEW op \in Operation, LeavesLots(s, op), NEW costDelta,
           NEW opened \in Seq(Lot), Len(opened) \in {0, 1}
    PROVE  LET t == Posted(s, op, costDelta, opened)
           IN  /\ LotsKept(s, t, Len(opened))
               /\ \A i \in 1..Len(s.lots) :
                     /\ t.lots[i].remaining = s.lots[i].remaining - RowAt(op.used, i)
                     /\ t.lots[i].cost = s.lots[i].cost - RowAt(op.usedCost, i)
               /\ Len(opened) = 1 => t.lots[Len(s.lots) + 1] = opened[1]
<1> DEFINE n == Len(s.lots)
           p == Len(opened)
           t == Posted(s, op, costDelta, opened)
           used == AfterUse(s.lots, op.used, op.usedCost)
<1>1. /\ n \in Nat /\ DOMAIN s.lots = 1..n
      /\ \A i \in 1..n : s.lots[i] \in Lot
  BY LedgerFields DEF LedgerInv
<1>2. used \in Seq(Lot) /\ Len(used) = n
  BY AfterUseLots
<1>3. /\ Len(t.lots) = n + p
      /\ \A i \in 1..(n + p) : t.lots[i] = IF i <= n THEN used[i] ELSE opened[i - n]
  <2>1. t.lots = used \o opened
    BY SMT DEF Posted
  <2> HIDE DEF used, t
  <2>2. /\ Len(t.lots) = Len(used) + Len(opened)
        /\ \A i \in 1..(Len(used) + Len(opened)) :
              t.lots[i] = IF i <= Len(used) THEN used[i] ELSE opened[i - Len(used)]
    <3> DEFINE all == used \o opened
    <3>1. /\ Len(all) = Len(used) + Len(opened)
          /\ \A i \in 1..(Len(used) + Len(opened)) :
                all[i] = IF i <= Len(used) THEN used[i] ELSE opened[i - Len(used)]
      BY <1>2, LotsAppended
    <3>2. t.lots = all
      BY <2>1
    <3> HIDE DEF all
    <3>3. Len(t.lots) = Len(used) + Len(opened)
      BY <3>1, <3>2
    <3>4. \A i \in 1..(Len(used) + Len(opened)) :
             t.lots[i] = IF i <= Len(used) THEN used[i] ELSE opened[i - Len(used)]
      BY <3>1, <3>2
    <3> QED BY <3>3, <3>4
  <2>3. Len(used) = n
    BY <1>2
  <2> HIDE DEF n, p
  <2>4. \A i \in 1..(n + p) : t.lots[i] = IF i <= n THEN used[i] ELSE opened[i - n]
    BY <2>2, <2>3 DEF p
  <2> QED BY <2>2, <2>3, <2>4 DEF p
<1>4. DOMAIN t.lots = 1..(n + p)
  <2>1. t.lots \in Seq(Lot)
    <3>1. t.lots = used \o opened
      BY SMT DEF Posted
    <3> HIDE DEF used, t
    <3> QED BY <1>2, <3>1, ConcatProperties
  <2> HIDE DEF t
  <2> QED BY <1>3, <2>1, LenProperties
<1>5. ASSUME NEW i \in 1..n
      PROVE  /\ t.lots[i].remaining = s.lots[i].remaining - RowAt(op.used, i)
             /\ t.lots[i].cost = s.lots[i].cost - RowAt(op.usedCost, i)
             /\ Kept(s.lots[i], t.lots[i])
  <2>1. t.lots[i] = used[i]
    <3>1. i \in 1..(n + p) /\ i <= n
      BY <1>1, SMT
    <3> HIDE DEF t, used
    <3> QED BY <1>3, <3>1
  <2>2. used[i] = [s.lots[i] EXCEPT !.remaining = @ - op.used[i], !.cost = @ - op.usedCost[i]]
    BY <1>1 DEF AfterUse
  <2>3. RowAt(op.used, i) = op.used[i] /\ RowAt(op.usedCost, i) = op.usedCost[i]
    BY <1>1 DEF LeavesLots, RowAt
  <2> DEFINE lot == s.lots[i]
             new == t.lots[i]
             u == op.used[i]
             c == op.usedCost[i]
  <2>4. lot \in Lot /\ new = [lot EXCEPT !.remaining = @ - u, !.cost = @ - c]
    BY <1>1, <2>1, <2>2
  <2> HIDE DEF lot, new, u, c
  <2>5. /\ new.remaining = lot.remaining - u /\ new.cost = lot.cost - c
        /\ Kept(lot, new)
    BY <2>4, SMT DEF Lot, Kept
  <2> QED BY <2>3, <2>5 DEF lot, new, u, c
<1>6. p = 1 => t.lots[n + 1] = opened[1]
  <2> SUFFICES ASSUME p = 1 PROVE t.lots[n + 1] = opened[1]
    OBVIOUS
  <2>1. n + 1 \in 1..(n + p) /\ ~(n + 1 <= n) /\ (n + 1) - n = 1
    BY <1>1, SMT
  <2> HIDE DEF t, used
  <2> QED BY <1>3, <2>1
<1> HIDE DEF t
<1>7. LotsKept(s, t, p)
  BY <1>1, <1>3, <1>4, <1>5 DEF LotsKept
<1> QED BY <1>5, <1>6, <1>7 DEF t

LEMMA AfterPostingNoLot ==
    ASSUME NEW s, LedgerInv(s), NEW op \in Operation, LeavesLots(s, op), NEW costDelta
    PROVE  LET t == Posted(s, op, costDelta, <<>>)
           IN  /\ LotsKept(s, t, 0)
               /\ \A i \in 1..Len(s.lots) :
                     /\ t.lots[i].remaining = s.lots[i].remaining - RowAt(op.used, i)
                     /\ t.lots[i].cost = s.lots[i].cost - RowAt(op.usedCost, i)
<1> DEFINE none == <<>>
           t == Posted(s, op, costDelta, none)
<1>1. none \in Seq(Lot) /\ Len(none) \in {0, 1} /\ Len(none) = 0
  BY EmptySeq, SMT
<1> HIDE DEF none
<1>2. /\ LotsKept(s, t, Len(none))
      /\ \A i \in 1..Len(s.lots) :
            /\ t.lots[i].remaining = s.lots[i].remaining - RowAt(op.used, i)
            /\ t.lots[i].cost = s.lots[i].cost - RowAt(op.usedCost, i)
      /\ Len(none) = 1 => t.lots[Len(s.lots) + 1] = none[1]
  BY <1>1, AfterPosting, ZenonT(20)
<1> HIDE DEF t
<1>3. LotsKept(s, t, 0)
  BY <1>1, <1>2
<1> QED BY <1>2, <1>3 DEF t, none

LEMMA ReversedThen ==
    ASSUME NEW s \in Ledger, NEW t \in Ledger, NEW op, Recorded(s, t, op), NEW q
    PROVE  IsReversed(t, q) <=> IsReversed(s, q) \/ op.reverses = q
<1> DEFINE n == Len(s.operations)
<1>1. /\ n \in Nat /\ DOMAIN s.operations = 1..n /\ DOMAIN t.operations = 1..(n + 1)
      /\ \A k \in 1..n : t.operations[k] = s.operations[k]
      /\ t.operations[n + 1] = op
  BY RecordedRows
<1> HIDE DEF n
<1>2. (\A k \in 1..n : k \in 1..(n + 1)) /\ n + 1 \in 1..(n + 1)
      /\ (\A k \in 1..(n + 1) : k \in 1..n \/ k = n + 1)
  BY <1>1, SMT
<1> QED BY <1>1, <1>2 DEF IsReversed

\* The sums over the history with one operation more.
LEMMA UsesThen ==
    ASSUME NEW s \in Ledger, NEW t \in Ledger, NEW op, Recorded(s, t, op), NEW i
    PROVE  LET n == Len(s.operations)
           IN  /\ SumTo(UsesOf(s, i), n) \in Int /\ SumTo(UseCostsOf(s, i), n) \in Int
               /\ SumTo(UsesOf(t, i), n + 1) = SumTo(UsesOf(s, i), n) + RowAt(op.used, i)
               /\ SumTo(UseCostsOf(t, i), n + 1) = SumTo(UseCostsOf(s, i), n) + RowAt(op.usedCost, i)
<1> DEFINE n == Len(s.operations)
<1>1. /\ n \in Nat /\ DOMAIN s.operations = 1..n /\ DOMAIN t.operations = 1..(n + 1)
      /\ \A k \in 1..n : t.operations[k] = s.operations[k]
      /\ t.operations[n + 1] = op /\ op \in Operation
  BY RecordedRows
<1>2. \A k \in 1..n : RowAt(s.operations[k].used, i) \in Int /\ RowAt(s.operations[k].usedCost, i) \in Int
  BY <1>1, OperationRows
<1>3. RowAt(op.used, i) \in Int /\ RowAt(op.usedCost, i) \in Int
  BY <1>1, OperationFields, RowAtInt
<1> HIDE DEF n
<1>4. (\A k \in 1..n : k \in 1..(n + 1)) /\ n + 1 \in 1..(n + 1)
  BY <1>1, SMT
<1>5. ASSUME NEW k \in 1..n
      PROVE  /\ UsesOf(s, i)[k] \in Int /\ UsesOf(t, i)[k] = UsesOf(s, i)[k]
             /\ UseCostsOf(s, i)[k] \in Int /\ UseCostsOf(t, i)[k] = UseCostsOf(s, i)[k]
  <2>1. /\ UsesOf(s, i)[k] = RowAt(s.operations[k].used, i)
        /\ UseCostsOf(s, i)[k] = RowAt(s.operations[k].usedCost, i)
    BY <1>1 DEF UsesOf, UseCostsOf
  <2>2. /\ UsesOf(t, i)[k] = RowAt(t.operations[k].used, i)
        /\ UseCostsOf(t, i)[k] = RowAt(t.operations[k].usedCost, i)
    BY <1>1, <1>4 DEF UsesOf, UseCostsOf
  <2>3. t.operations[k] = s.operations[k]
    BY <1>1
  <2>4. RowAt(s.operations[k].used, i) \in Int /\ RowAt(s.operations[k].usedCost, i) \in Int
    BY <1>2
  <2> QED BY <2>1, <2>2, <2>3, <2>4
<1>6. /\ UsesOf(t, i)[n + 1] = RowAt(op.used, i)
      /\ UseCostsOf(t, i)[n + 1] = RowAt(op.usedCost, i)
  <2>1. /\ UsesOf(t, i)[n + 1] = RowAt(t.operations[n + 1].used, i)
        /\ UseCostsOf(t, i)[n + 1] = RowAt(t.operations[n + 1].usedCost, i)
    BY <1>1, <1>4 DEF UsesOf, UseCostsOf
  <2> QED BY <2>1, <1>1
<1>7. SumTo(UsesOf(s, i), n) \in Int /\ SumTo(UsesOf(t, i), n + 1) = SumTo(UsesOf(s, i), n) + RowAt(op.used, i)
  <2> DEFINE v == UsesOf(s, i)
             w == UsesOf(t, i)
             x == RowAt(op.used, i)
  <2>1. n \in Nat /\ (\A k \in 1..n : v[k] \in Int /\ w[k] = v[k]) /\ w[n + 1] = x
    BY <1>1, <1>5, <1>6
  <2> HIDE DEF v, w, x
  <2>2. SumTo(v, n) \in Int /\ SumTo(w, n + 1) = SumTo(v, n) + x
    BY <2>1, SumToOneMore
  <2> QED BY <2>2 DEF v, w, x
<1>8. /\ SumTo(UseCostsOf(s, i), n) \in Int
      /\ SumTo(UseCostsOf(t, i), n + 1) = SumTo(UseCostsOf(s, i), n) + RowAt(op.usedCost, i)
  <2> DEFINE v == UseCostsOf(s, i)
             w == UseCostsOf(t, i)
             x == RowAt(op.usedCost, i)
  <2>1. n \in Nat /\ (\A k \in 1..n : v[k] \in Int /\ w[k] = v[k]) /\ w[n + 1] = x
    BY <1>1, <1>5, <1>6
  <2> HIDE DEF v, w, x
  <2>2. SumTo(v, n) \in Int /\ SumTo(w, n + 1) = SumTo(v, n) + x
    BY <2>1, SumToOneMore
  <2> QED BY <2>2 DEF v, w, x
<1> QED BY <1>7, <1>8 DEF n

\* A lot no operation knew of has not been used.
LEMMA UnknownLotUnused ==
    ASSUME NEW s \in Ledger, NEW i, \A k \in DOMAIN s.operations :
              i \notin DOMAIN s.operations[k].used /\ i \notin DOMAIN s.operations[k].usedCost
    PROVE  LET n == Len(s.operations)
           IN  /\ SumTo(UsesOf(s, i), n) = 0 /\ SumTo(UseCostsOf(s, i), n) = 0
               /\ SumTo(LiveUsesOf(s, i), n) = 0
<1> DEFINE n == Len(s.operations)
<1>1. n \in Nat /\ DOMAIN s.operations = 1..n
  BY LedgerFields
<1> HIDE DEF n
<1>2. \A k \in 1..n : UsesOf(s, i)[k] = 0 /\ UseCostsOf(s, i)[k] = 0 /\ LiveUsesOf(s, i)[k] = 0
  BY <1>1 DEF UsesOf, UseCostsOf, LiveUsesOf, RowAt
<1>3. SumTo(UsesOf(s, i), n) = 0 /\ SumTo(UseCostsOf(s, i), n) = 0 /\ SumTo(LiveUsesOf(s, i), n) = 0
  BY <1>1, <1>2, SumToZeros
<1> QED BY <1>3 DEF n

\* An operation counts from when it is recorded until it is taken back.
LEMMA LiveUsesThen ==
    ASSUME NEW s \in Ledger, NEW t \in Ledger, NEW op, Recorded(s, t, op),
           ReversedOnce(t), op.type # "reversal", op.reverses = 0, NEW i
    PROVE  LET n == Len(s.operations)
           IN  SumTo(LiveUsesOf(t, i), n + 1) = SumTo(LiveUsesOf(s, i), n) + RowAt(op.used, i)
<1> DEFINE n == Len(s.operations)
<1>1. /\ n \in Nat /\ DOMAIN s.operations = 1..n /\ DOMAIN t.operations = 1..(n + 1)
      /\ \A k \in 1..n : t.operations[k] = s.operations[k]
      /\ t.operations[n + 1] = op /\ op \in Operation
  BY RecordedRows
<1>2. \A k \in 1..n : RowAt(s.operations[k].used, i) \in Int
  BY <1>1, OperationRows
<1>3. RowAt(op.used, i) \in Int
  BY <1>1, OperationFields, RowAtInt
<1> HIDE DEF n
<1>4. /\ \A k \in 1..n : k \in 1..(n + 1) /\ k # 0
      /\ n + 1 \in 1..(n + 1) /\ n + 1 # 0
  BY <1>1, SMT
<1>5. \A k \in 1..n : IsReversed(t, k) <=> IsReversed(s, k)
  BY <1>4, ReversedThen
<1>6. ~IsReversed(t, n + 1)
  <2> SUFFICES ASSUME NEW r \in 1..(n + 1), t.operations[r].reverses = n + 1 PROVE FALSE
    BY <1>1 DEF IsReversed
  <2>1. n + 1 < r
    BY <1>1, <1>4 DEF ReversedOnce
  <2> QED BY <1>1, <2>1, SMT
<1>7. /\ \A k \in 1..n : LiveUsesOf(s, i)[k] \in Int /\ LiveUsesOf(t, i)[k] = LiveUsesOf(s, i)[k]
      /\ LiveUsesOf(t, i)[n + 1] = RowAt(op.used, i)
  <2>1. \A k \in 1..n : Live(t, k) <=> Live(s, k)
    BY <1>1, <1>5 DEF Live
  <2>2. Live(t, n + 1)
    BY <1>1, <1>6 DEF Live
  <2> QED BY <1>1, <1>2, <1>4, <2>1, <2>2, SMT DEF LiveUsesOf
<1>8. SumTo(LiveUsesOf(t, i), n + 1) = SumTo(LiveUsesOf(s, i), n) + RowAt(op.used, i)
  BY <1>1, <1>3, <1>7, SumToOneMore
<1> QED BY <1>8 DEF n

LEMMA LiveUsesTakenBack ==
    ASSUME NEW s \in Ledger, NEW t \in Ledger, NEW op, Recorded(s, t, op),
           op.type = "reversal", NEW k \in DOMAIN s.operations, op.reverses = k,
           Live(s, k), NEW i
    PROVE  LET n == Len(s.operations)
           IN  SumTo(LiveUsesOf(t, i), n + 1)
                 = SumTo(LiveUsesOf(s, i), n) - RowAt(s.operations[k].used, i)
<1> DEFINE n == Len(s.operations)
           d == RowAt(s.operations[k].used, i)
<1>1. /\ n \in Nat /\ DOMAIN s.operations = 1..n /\ DOMAIN t.operations = 1..(n + 1)
      /\ \A j \in 1..n : t.operations[j] = s.operations[j]
      /\ t.operations[n + 1] = op
  BY RecordedRows
<1>2. \A j \in 1..n : RowAt(s.operations[j].used, i) \in Int
  BY <1>1, OperationRows
<1> HIDE DEF n
<1>3. (\A j \in 1..n : j \in 1..(n + 1)) /\ n + 1 \in 1..(n + 1)
  BY <1>1, SMT
<1>4. \A j \in 1..n : Live(t, j) <=> Live(s, j) /\ j # k
  BY <1>1, ReversedThen DEF Live
<1>5. ~Live(t, n + 1)
  BY <1>1 DEF Live
<1>6. /\ \A j \in 1..n : /\ LiveUsesOf(s, i)[j] \in Int
                         /\ LiveUsesOf(t, i)[j] = IF j = k THEN 0 ELSE LiveUsesOf(s, i)[j]
      /\ LiveUsesOf(s, i)[k] = d /\ LiveUsesOf(t, i)[n + 1] = 0
  BY <1>1, <1>2, <1>3, <1>4, <1>5, SMT DEF LiveUsesOf
<1>7. d \in Int /\ -d \in Int /\ k \in 1..n
  BY <1>1, <1>2, SMT
<1> HIDE DEF d
<1>8. \A j \in 1..n : /\ LiveUsesOf(s, i)[j] \in Int
                      /\ LiveUsesOf(t, i)[j] = IF j = k THEN LiveUsesOf(s, i)[j] + (-d)
                                                        ELSE LiveUsesOf(s, i)[j]
  BY <1>6, <1>7, SMT
<1>9. SumTo(LiveUsesOf(s, i), n) \in Int
      /\ SumTo(LiveUsesOf(t, i), n) = SumTo(LiveUsesOf(s, i), n) + (-d)
  <2> DEFINE v == LiveUsesOf(s, i)
             u == LiveUsesOf(t, i)
             e == -d
  <2>1. /\ n \in Nat /\ k \in 1..n /\ e \in Int
        /\ (\A j \in 1..n : v[j] \in Int) /\ u[k] = v[k] + e
        /\ \A j \in 1..n : j # k => u[j] = v[j]
    BY <1>1, <1>7, <1>8
  <2> HIDE DEF v, u, e
  <2>2. SumTo(v, n) \in Int /\ SumTo(u, n) = SumTo(v, n) + e
    BY <2>1, SumToOneChanged
  <2> QED BY <2>2 DEF v, u, e
<1>10. SumTo(LiveUsesOf(t, i), n + 1) = SumTo(LiveUsesOf(t, i), n) + 0
  BY <1>1, <1>6, SumToNext
<1>11. SumTo(LiveUsesOf(t, i), n + 1) = SumTo(LiveUsesOf(s, i), n) - d
  BY <1>7, <1>9, <1>10, SMT
<1> QED BY <1>11 DEF n, d

(***************************************************************************)
(* The history before a step stays as it was.                               *)
(***************************************************************************)
LEMMA LotBalance ==
    ASSUME NEW lot \in Lot
    PROVE  /\ BalanceOf(lot) \in Balance
           /\ \A b \in Balance : OnBalance(lot, b) <=> b = BalanceOf(lot)
<1>1. lot.account \in Account /\ lot.currency \in Currency
  BY LotFields
<1> QED BY <1>1, SMT DEF BalanceOf, Balance, OnBalance

LEMMA KeptBalance ==
    ASSUME NEW x, NEW y, Kept(x, y)
    PROVE  /\ BalanceOf(y) = BalanceOf(x)
           /\ \A b : OnBalance(y, b) <=> OnBalance(x, b)
BY DEF Kept, BalanceOf, OnBalance

LEMMA OrderThen ==
    ASSUME NEW s \in Ledger, NEW t \in Ledger, NEW op, Recorded(s, t, op), NEW p,
           LotsKept(s, t, p), LotsInOrder(s),
           p = 1 => t.lots[Len(s.lots) + 1].openedBy = Len(s.operations) + 1,
           DOMAIN op.used = DOMAIN s.lots, DOMAIN op.usedCost = DOMAIN s.lots
    PROVE  LotsInOrder(t)
<1> DEFINE n == Len(s.operations)
           m == Len(s.lots)
<1>1. /\ n \in Nat /\ DOMAIN s.operations = 1..n /\ DOMAIN t.operations = 1..(n + 1)
      /\ \A k \in 1..n : t.operations[k] = s.operations[k]
      /\ t.operations[n + 1] = op
  BY RecordedRows
<1>2. /\ m \in Nat /\ p \in {0, 1} /\ DOMAIN s.lots = 1..m /\ DOMAIN t.lots = 1..(m + p)
      /\ \A i \in 1..m : t.lots[i].openedBy = s.lots[i].openedBy
      /\ p = 1 => t.lots[m + 1].openedBy = n + 1
  BY DEF LotsKept, Kept
<1> HIDE DEF n, m
<1>3. \A i \in 1..m : s.lots[i].openedBy \in 1..n
  BY <1>1, <1>2 DEF LotsInOrder
<1>4. ASSUME NEW i \in 1..(m + p) PROVE t.lots[i].openedBy \in 1..(n + 1)
  <2>1. CASE i \in 1..m
    BY <1>1, <1>2, <1>3, <2>1, SMT
  <2>2. CASE i \notin 1..m
    <3>1. p = 1 /\ i = m + 1
      BY <1>2, <2>2, SMT
    <3> QED BY <1>1, <1>2, <3>1, SMT
  <2> QED BY <2>1, <2>2
<1>5. ASSUME NEW k \in 1..(n + 1)
      PROVE  /\ DOMAIN t.operations[k].usedCost = DOMAIN t.operations[k].used
             /\ \A i \in DOMAIN t.operations[k].used : i \in 1..(m + p) /\ t.lots[i].openedBy < k
  <2>1. CASE k \in 1..n
    <3>1. /\ DOMAIN s.operations[k].usedCost = DOMAIN s.operations[k].used
          /\ \A i \in DOMAIN s.operations[k].used : i \in 1..m /\ s.lots[i].openedBy < k
      BY <1>1, <1>2, <2>1 DEF LotsInOrder
    <3>2. 1..m \subseteq 1..(m + p)
      BY <1>2, SMT
    <3> QED BY <1>1, <1>2, <2>1, <3>1, <3>2
  <2>2. CASE k = n + 1
    <3>1. ASSUME NEW i \in 1..m PROVE i \in 1..(m + p) /\ t.lots[i].openedBy < n + 1
      <4>1. \A j \in 1..n : j < n + 1
        BY <1>1, SMT
      <4>2. i \in 1..(m + p)
        BY <1>2, SMT
      <4> QED BY <1>2, <1>3, <4>1, <4>2
    <3> QED BY <1>1, <1>2, <2>2, <3>1
  <2>3. k \in 1..n \/ k = n + 1
    BY <1>1, SMT
  <2> QED BY <2>1, <2>2, <2>3
<1> QED BY <1>1, <1>2, <1>4, <1>5 DEF LotsInOrder

\* What an operation moved does not change.
LEMMA MovesThen ==
    ASSUME NEW s \in Ledger, NEW t \in Ledger, NEW op, Recorded(s, t, op), NEW p,
           LotsKept(s, t, p), LotsInOrder(s),
           p = 1 => t.lots[Len(s.lots) + 1].openedBy = Len(s.operations) + 1,
           NEW k \in DOMAIN s.operations, MovesLots(s, k)
    PROVE  MovesLots(t, k)
<1> DEFINE n == Len(s.operations)
           m == Len(s.lots)
           old == s.operations[k]
<1>1. /\ n \in Nat /\ k \in 1..n /\ t.operations[k] = old
  BY RecordedRows
<1>2. /\ m \in Nat /\ p \in {0, 1} /\ DOMAIN s.lots = 1..m /\ DOMAIN t.lots = 1..(m + p)
      /\ Len(t.lots) = m + p
      /\ \A i \in 1..m : Kept(s.lots[i], t.lots[i]) /\ s.lots[i] \in Lot
      /\ p = 1 => t.lots[m + 1].openedBy = n + 1
  BY LedgerFields DEF LotsKept
<1>3. \A i : i \notin 1..m => RowAt(old.used, i) = 0
  BY <1>2 DEF LotsInOrder, RowAt
<1>4. \A i \in 1..m : RowAt(old.used, i) \in Int /\ s.lots[i].initial \in Int
  <2>1. old.used \in Seq(Int)
    BY LedgerFields, OperationFields
  <2>2. \A i \in 1..m : s.lots[i].initial \in Int
    BY <1>2, LotFields, SMT
  <2> QED BY <2>1, <2>2, RowAtInt
<1>5. p = 1 => m + 1 \in 1..(m + p) /\ m + 1 \notin 1..m /\ n + 1 # k
  BY <1>1, <1>2, SMT
<1>6. \A i \in 1..(m + p) : i \in 1..m \/ (p = 1 /\ i = m + 1)
  BY <1>2, SMT
<1>7. ASSUME NEW b \in Balance
      PROVE  SumTo(FlowOn(t, k, b), m + p) = SumTo(FlowOn(s, k, b), m)
  <2> DEFINE v == FlowOn(s, k, b)
             w == FlowOn(t, k, b)
  <2>1. ASSUME NEW i \in 1..m PROVE v[i] \in Int /\ w[i] = v[i]
    <3>1. i \in 1..(m + p)
      BY <1>2, SMT
    <3>2. /\ OnBalance(t.lots[i], b) <=> OnBalance(s.lots[i], b)
          /\ t.lots[i].openedBy = s.lots[i].openedBy /\ t.lots[i].initial = s.lots[i].initial
      BY <1>2, KeptBalance DEF Kept
    <3>3. v[i] = IF OnBalance(s.lots[i], b)
                 THEN (IF s.lots[i].openedBy = k THEN s.lots[i].initial ELSE 0) - RowAt(old.used, i)
                 ELSE 0
      BY <1>2 DEF FlowOn
    <3>4. w[i] = v[i]
      BY <1>1, <1>2, <3>1, <3>2, <3>3 DEF FlowOn
    <3>5. v[i] \in Int
      <4> HIDE DEF old, v
      <4> QED BY <1>4, <3>3, SMT
    <3> QED BY <3>4, <3>5
  <2>2. p = 1 => w[m + 1] = 0
    <3> SUFFICES ASSUME p = 1 PROVE w[m + 1] = 0
      OBVIOUS
    <3>1. w[m + 1] = IF OnBalance(t.lots[m + 1], b)
                     THEN (IF t.lots[m + 1].openedBy = k THEN t.lots[m + 1].initial ELSE 0)
                          - RowAt(old.used, m + 1)
                     ELSE 0
      BY <1>1, <1>2, <1>5 DEF FlowOn
    <3>2. RowAt(old.used, m + 1) = 0 /\ t.lots[m + 1].openedBy # k
      BY <1>2, <1>3, <1>5
    <3> HIDE DEF w, old
    <3> QED BY <3>1, <3>2, SMT
  <2> HIDE DEF v, w, m
  <2>3. SumTo(v, m) \in Int /\ SumTo(w, m + p) = SumTo(v, m) + 0
    <3> DEFINE z == 0
    <3>1. /\ m \in Nat
          /\ \A i \in 1..m : v[i] \in Int /\ w[i] = v[i]
          /\ (p = 0 /\ z = 0) \/ (p = 1 /\ w[m + 1] = z)
      BY <1>2, <2>1, <2>2
    <3> HIDE DEF z
    <3>2. SumTo(v, m) \in Int /\ SumTo(w, m + p) = SumTo(v, m) + z
      BY <3>1, SumToAdded
    <3> QED BY <3>2 DEF z
  <2>4. SumTo(w, m + p) = SumTo(v, m)
    BY <2>3, SMT
  <2> QED BY <2>4 DEF v, w
<1>8. /\ OneToOne(old)
      /\ \A b \in Balance : old.bank[b] # 0 => BaseOf(b[1]) = OwnerBase[old.owner]
      /\ \A b \in Balance : ~IsBase(b) => old.bank[b] = SumTo(FlowOn(s, k, b), m)
      /\ \A i \in 1..m : /\ s.lots[i].openedBy = k => old.bank[BalanceOf(s.lots[i])] > 0
                         /\ RowAt(old.used, i) # 0 => old.bank[BalanceOf(s.lots[i])] < 0
  BY <1>2 DEF MovesLots
<1> HIDE DEF old, m, n
<1>9. ASSUME NEW i \in 1..(m + p)
      PROVE  /\ t.lots[i].openedBy = k => old.bank[BalanceOf(t.lots[i])] > 0
             /\ RowAt(old.used, i) # 0 => old.bank[BalanceOf(t.lots[i])] < 0
  <2>1. CASE i \in 1..m
    BY <1>2, <1>8, <2>1, KeptBalance DEF Kept
  <2>2. CASE p = 1 /\ i = m + 1
    BY <1>2, <1>3, <1>5, <2>2
  <2> QED BY <1>6, <2>1, <2>2
<1>10. \A b \in Balance : ~IsBase(b) => old.bank[b] = SumTo(FlowOn(t, k, b), Len(t.lots))
  BY <1>2, <1>7, <1>8
<1> QED BY <1>1, <1>2, <1>8, <1>9, <1>10 DEF MovesLots

(***************************************************************************)
(* An operation that takes x, at cost xc, from the balance b, and gives y,  *)
(* at cost yc, to the balance d: every operation but a reversal is one.     *)
(***************************************************************************)
\* what a row of consumptions takes from the lots of a balance
TakenOn(s, row, b) ==
    [i \in DOMAIN s.lots |-> IF OnBalance(s.lots[i], b) THEN RowAt(row, i) ELSE 0]

Taking(s, op, b, x, xc) ==
    /\ x \in Nat /\ xc \in Int
    /\ x > 0 => b \in Balance /\ BaseOf(b[1]) = OwnerBase[op.owner]
    /\ x = 0 => xc = 0
    /\ TicksPerCent = 1 /\ x > 0 /\ IsBase(b) => xc = x
    /\ \A i \in DOMAIN s.lots : RowAt(op.used, i) # 0 => x > 0 /\ OnBalance(s.lots[i], b)
    /\ \A e \in Balance : ~IsBase(e) =>
          /\ SumTo(TakenOn(s, op.used, e), Len(s.lots)) = IF e = b THEN x ELSE 0
          /\ SumTo(TakenOn(s, op.usedCost, e), Len(s.lots)) = IF e = b THEN xc ELSE 0

Giving(s, op, opened, d, y, yc) ==
    /\ y \in Nat /\ yc \in Int
    /\ y > 0 => d \in Balance /\ BaseOf(d[1]) = OwnerBase[op.owner]
    /\ y = 0 => yc = 0
    /\ TicksPerCent = 1 /\ y > 0 /\ IsBase(d) => yc = y
    /\ IF y = 0 \/ IsBase(d) THEN opened = <<>>
                             ELSE yc > 0 /\ opened = <<NewLot(s, d, y, yc)>>

Between(row, b, x, d, y) ==
    \A e \in Balance : row[e] = (IF e = b THEN -x ELSE 0) + (IF e = d THEN y ELSE 0)

Moves(s, op, costDelta, opened, b, x, xc, d, y, yc) ==
    /\ Taking(s, op, b, x, xc) /\ Giving(s, op, opened, d, y, yc)
    /\ x > 0 /\ y > 0 => b # d
    /\ Between(op.bank, b, x, d, y) /\ Between(costDelta, b, xc, d, yc)

\* The lot an operation opens.
LEMMA OpenedLot ==
    ASSUME NEW s, LedgerInv(s), NEW op, NEW opened, NEW d, NEW y, NEW yc,
           Giving(s, op, opened, d, y, yc)
    PROVE  /\ opened \in Seq(Lot) /\ Len(opened) \in {0, 1}
           /\ Len(opened) = 0 => y = 0 \/ IsBase(d)
           /\ Len(opened) = 1 => /\ y > 0 /\ ~IsBase(d) /\ d \in Balance
                                 /\ opened[1] \in Lot /\ BalanceOf(opened[1]) = d
                                 /\ opened[1].initial = y /\ opened[1].remaining = y
                                 /\ opened[1].costInitial = yc /\ opened[1].cost = yc
                                 /\ opened[1].openedBy = Len(s.operations) + 1
<1>1. CASE y = 0 \/ IsBase(d)
  <2>1. opened = <<>>
    BY <1>1 DEF Giving
  <2> QED BY <1>1, <2>1, SMT
<1>2. CASE ~(y = 0 \/ IsBase(d))
  <2> DEFINE lot == NewLot(s, d, y, yc)
  <2>1. /\ opened = <<lot>> /\ y \in Nat \ {0} /\ yc \in Nat \ {0} /\ y > 0 /\ d \in Balance
    BY <1>2, SMT DEF Giving
  <2>2. Len(s.operations) \in Nat
    BY LedgerFields DEF LedgerInv
  <2>3. lot \in Lot
    BY <2>1, <2>2, BalanceParts, SMT DEF NewLot, Lot
  <2>4. BalanceOf(lot) = d
    BY <2>1, SMT DEF NewLot, BalanceOf, Balance
  <2>5. /\ lot.initial = y /\ lot.remaining = y /\ lot.costInitial = yc /\ lot.cost = yc
        /\ lot.openedBy = Len(s.operations) + 1
    BY SMT DEF NewLot
  <2> HIDE DEF lot
  <2>6. opened \in Seq(Lot) /\ Len(opened) = 1 /\ opened[1] = lot
    BY <2>1, <2>3, SMT
  <2> QED BY <1>2, <2>1, <2>3, <2>4, <2>5, <2>6
<1> QED BY <1>1, <1>2

LEMMA TakenRow ==
    ASSUME NEW s \in Ledger, NEW row \in Seq(Int), NEW b, NEW i \in DOMAIN s.lots
    PROVE  /\ TakenOn(s, row, b)[i] \in Int
           /\ TakenOn(s, row, b)[i] = IF OnBalance(s.lots[i], b) THEN RowAt(row, i) ELSE 0
<1>1. RowAt(row, i) \in Int
  BY RowAtInt
<1> QED BY <1>1, SMT DEF TakenOn

\* t's lots are those of s less a row of consumptions; p lots are added, which
\* hold y on the balance b, at cost yc.
LotsTaken(s, t, used, usedCost) ==
    \A i \in 1..Len(s.lots) :
        /\ t.lots[i].remaining = s.lots[i].remaining - RowAt(used, i)
        /\ t.lots[i].cost = s.lots[i].cost - RowAt(usedCost, i)
LotsAdded(s, t, p, b, y, yc) ==
    \/ p = 0 /\ y = 0 /\ yc = 0
    \/ LET new == t.lots[Len(s.lots) + 1]
       IN  /\ p = 1
           /\ y = IF OnBalance(new, b) THEN new.remaining ELSE 0
           /\ yc = IF OnBalance(new, b) THEN new.cost ELSE 0

LEMMA LotsThen ==
    ASSUME NEW s \in Ledger, NEW t \in Ledger, NEW p, LotsKept(s, t, p), NEW b \in Balance,
           NEW used \in Seq(Int), NEW usedCost \in Seq(Int), LotsTaken(s, t, used, usedCost),
           NEW y, NEW yc, LotsAdded(s, t, p, b, y, yc)
    PROVE  LET m == Len(s.lots)
           IN  /\ SumTo(Remaining(t.lots, b), m + p)
                    = SumTo(Remaining(s.lots, b), m) - SumTo(TakenOn(s, used, b), m) + y
               /\ SumTo(CostsOn(t, b), m + p)
                    = SumTo(CostsOn(s, b), m) - SumTo(TakenOn(s, usedCost, b), m) + yc
<1> DEFINE m == Len(s.lots)
<1>1. /\ m \in Nat /\ p \in {0, 1} /\ DOMAIN s.lots = 1..m /\ DOMAIN t.lots = 1..(m + p)
      /\ \A i \in 1..m : Kept(s.lots[i], t.lots[i]) /\ s.lots[i] \in Lot
  BY LedgerFields DEF LotsKept
<1>2. \A i \in 1..m : s.lots[i].remaining \in Int /\ s.lots[i].cost \in Int
  BY <1>1, LotFields, SMT
<1>3. 1..m \subseteq 1..(m + p)
  BY <1>1, SMT
<1>4. p = 1 => m + 1 \in 1..(m + p)
  BY <1>1, SMT
<1> HIDE DEF m
<1>5. SumTo(Remaining(t.lots, b), m + p)
        = SumTo(Remaining(s.lots, b), m) - SumTo(TakenOn(s, used, b), m) + y
  <2> DEFINE v == Remaining(s.lots, b)
             w == Remaining(t.lots, b)
             x == TakenOn(s, used, b)
  <2>1. ASSUME NEW i \in 1..m PROVE v[i] \in Int /\ x[i] \in Int /\ w[i] = v[i] - x[i] /\ w[i] \in Int
    <3>1. OnBalance(t.lots[i], b) <=> OnBalance(s.lots[i], b)
      BY <1>1, KeptBalance
    <3>2. v[i] = IF OnBalance(s.lots[i], b) THEN s.lots[i].remaining ELSE 0
      BY <1>1 DEF Remaining
    <3>3. w[i] = IF OnBalance(t.lots[i], b) THEN t.lots[i].remaining ELSE 0
      BY <1>1, <1>3 DEF Remaining
    <3>4. x[i] \in Int /\ x[i] = IF OnBalance(s.lots[i], b) THEN RowAt(used, i) ELSE 0
      BY <1>1, TakenRow
    <3>5. t.lots[i].remaining = s.lots[i].remaining - RowAt(used, i) /\ s.lots[i].remaining \in Int
      BY <1>1, <1>2 DEF m, LotsTaken
    <3> HIDE DEF v, w, x
    <3> QED BY <3>1, <3>2, <3>3, <3>4, <3>5, SMT
  <2>2. (p = 0 /\ y = 0) \/ (p = 1 /\ w[m + 1] = y)
    BY <1>1, <1>4 DEF LotsAdded, Remaining, m
  <2> HIDE DEF v, w, x
  <2>5. m \in Nat /\ (\A i \in 1..m : v[i] \in Int) /\ (\A i \in 1..m : x[i] \in Int)
        /\ (\A i \in 1..m : w[i] = v[i] - x[i]) /\ (\A i \in 1..m : w[i] \in Int)
    BY <1>1, <2>1
  <2>3. SumTo(w, m) = SumTo(v, m) - SumTo(x, m)
    BY <2>5, SumToMinus
  <2>4. SumTo(w, m + p) = SumTo(w, m) + y
    BY <2>2, <2>5, SumToAdded
  <2> QED BY <2>3, <2>4 DEF v, w, x
<1>6. SumTo(CostsOn(t, b), m + p)
        = SumTo(CostsOn(s, b), m) - SumTo(TakenOn(s, usedCost, b), m) + yc
  <2> DEFINE v == CostsOn(s, b)
             w == CostsOn(t, b)
             x == TakenOn(s, usedCost, b)
  <2>1. ASSUME NEW i \in 1..m PROVE v[i] \in Int /\ x[i] \in Int /\ w[i] = v[i] - x[i] /\ w[i] \in Int
    <3>1. OnBalance(t.lots[i], b) <=> OnBalance(s.lots[i], b)
      BY <1>1, KeptBalance
    <3>2. v[i] = IF OnBalance(s.lots[i], b) THEN s.lots[i].cost ELSE 0
      BY <1>1 DEF CostsOn
    <3>3. w[i] = IF OnBalance(t.lots[i], b) THEN t.lots[i].cost ELSE 0
      BY <1>1, <1>3 DEF CostsOn
    <3>4. x[i] \in Int /\ x[i] = IF OnBalance(s.lots[i], b) THEN RowAt(usedCost, i) ELSE 0
      BY <1>1, TakenRow
    <3>5. t.lots[i].cost = s.lots[i].cost - RowAt(usedCost, i) /\ s.lots[i].cost \in Int
      BY <1>1, <1>2 DEF m, LotsTaken
    <3> HIDE DEF v, w, x
    <3> QED BY <3>1, <3>2, <3>3, <3>4, <3>5, SMT
  <2>2. (p = 0 /\ yc = 0) \/ (p = 1 /\ w[m + 1] = yc)
    BY <1>1, <1>4 DEF LotsAdded, CostsOn, m
  <2> HIDE DEF v, w, x
  <2>5. m \in Nat /\ (\A i \in 1..m : v[i] \in Int) /\ (\A i \in 1..m : x[i] \in Int)
        /\ (\A i \in 1..m : w[i] = v[i] - x[i]) /\ (\A i \in 1..m : w[i] \in Int)
    BY <1>1, <2>1
  <2>3. SumTo(w, m) = SumTo(v, m) - SumTo(x, m)
    BY <2>5, SumToMinus
  <2>4. SumTo(w, m + p) = SumTo(w, m) + yc
    BY <2>2, <2>5, SumToAdded
  <2> QED BY <2>3, <2>4 DEF v, w, x
<1> QED BY <1>5, <1>6 DEF m

(***************************************************************************)
(* Such an operation keeps the invariant.                                   *)
(***************************************************************************)
\* t is s with an operation that is no reversal, as Posted writes it
Step(s, t, op, costDelta, opened) ==
    /\ LedgerInv(s) /\ LedgerInv(t) /\ t = Posted(s, op, costDelta, opened)
    /\ op \in Operation /\ op.type # "reversal" /\ op.reverses = 0
    /\ LeavesLots(s, op) /\ costDelta \in [Balance -> Int]

LEMMA MovesRows ==
    ASSUME NEW s, NEW t, NEW op, NEW costDelta, NEW opened,
           NEW b, NEW x, NEW xc, NEW d, NEW y, NEW yc,
           Step(s, t, op, costDelta, opened), Moves(s, op, costDelta, opened, b, x, xc, d, y, yc)
    PROVE  LET m == Len(s.lots)
               p == Len(opened)
           IN  /\ s \in Ledger /\ t \in Ledger /\ Recorded(s, t, op) /\ LotsKept(s, t, p)
               /\ op.used \in Seq(Int) /\ op.usedCost \in Seq(Int)
               /\ DOMAIN op.used = 1..m /\ DOMAIN op.usedCost = 1..m
               /\ LotsTaken(s, t, op.used, op.usedCost)
               /\ \/ p = 0 /\ (y = 0 \/ IsBase(d))
                  \/ /\ p = 1 /\ y > 0 /\ ~IsBase(d) /\ d \in Balance
                     /\ t.lots[m + 1] \in Lot /\ BalanceOf(t.lots[m + 1]) = d
                     /\ t.lots[m + 1].initial = y /\ t.lots[m + 1].remaining = y
                     /\ t.lots[m + 1].costInitial = yc /\ t.lots[m + 1].cost = yc
                     /\ t.lots[m + 1].openedBy = Len(s.operations) + 1
<1> DEFINE m == Len(s.lots)
           p == Len(opened)
<1>1. /\ LedgerInv(s) /\ LedgerInv(t) /\ t = Posted(s, op, costDelta, opened)
      /\ op \in Operation /\ LeavesLots(s, op)
  BY DEF Step
<1>2. s \in Ledger /\ t \in Ledger
  BY <1>1 DEF LedgerInv
<1>3. Recorded(s, t, op)
  BY <1>1, PostedRecords
<1>4. Giving(s, op, opened, d, y, yc)
  BY DEF Moves
<1>5. /\ opened \in Seq(Lot) /\ p \in {0, 1}
      /\ p = 0 => y = 0 \/ IsBase(d)
      /\ p = 1 => /\ y > 0 /\ ~IsBase(d) /\ d \in Balance
                  /\ opened[1] \in Lot /\ BalanceOf(opened[1]) = d
                  /\ opened[1].initial = y /\ opened[1].remaining = y
                  /\ opened[1].costInitial = yc /\ opened[1].cost = yc
                  /\ opened[1].openedBy = Len(s.operations) + 1
  BY <1>1, <1>4, OpenedLot
<1>6. /\ LotsKept(s, t, p)
      /\ \A i \in 1..m :
            /\ t.lots[i].remaining = s.lots[i].remaining - RowAt(op.used, i)
            /\ t.lots[i].cost = s.lots[i].cost - RowAt(op.usedCost, i)
      /\ p = 1 => t.lots[m + 1] = opened[1]
  BY <1>1, <1>5, AfterPosting
<1>9. LotsTaken(s, t, op.used, op.usedCost)
  BY <1>6 DEF LotsTaken
<1>7. op.used \in Seq(Int) /\ op.usedCost \in Seq(Int)
  BY <1>1, OperationFields
<1>8. DOMAIN op.used = 1..m /\ DOMAIN op.usedCost = 1..m
  BY <1>1, <1>6 DEF LeavesLots, LotsKept
<1> QED BY <1>2, <1>3, <1>5, <1>6, <1>7, <1>8, <1>9

LEMMA MovesHold ==
    ASSUME NEW s, NEW t, NEW op, NEW costDelta, NEW opened,
           NEW b, NEW x, NEW xc, NEW d, NEW y, NEW yc,
           Step(s, t, op, costDelta, opened), Moves(s, op, costDelta, opened, b, x, xc, d, y, yc),
           LotsHold(s), BaseCosts(s)
    PROVE  LotsHold(t) /\ BaseCosts(t)
<1> DEFINE m == Len(s.lots)
           p == Len(opened)
<1>1. /\ s \in Ledger /\ t \in Ledger /\ Recorded(s, t, op) /\ LotsKept(s, t, p)
      /\ op.used \in Seq(Int) /\ op.usedCost \in Seq(Int)
      /\ LotsTaken(s, t, op.used, op.usedCost)
      /\ \/ p = 0 /\ (y = 0 \/ IsBase(d))
         \/ /\ p = 1 /\ y > 0 /\ ~IsBase(d) /\ d \in Balance
            /\ t.lots[m + 1] \in Lot /\ BalanceOf(t.lots[m + 1]) = d
            /\ t.lots[m + 1].remaining = y /\ t.lots[m + 1].cost = yc
  BY MovesRows
<1>2. /\ x \in Nat /\ xc \in Int /\ y \in Nat /\ yc \in Int
      /\ x = 0 => xc = 0
      /\ y = 0 => yc = 0
      /\ TicksPerCent = 1 /\ x > 0 /\ IsBase(b) => xc = x
      /\ TicksPerCent = 1 /\ y > 0 /\ IsBase(d) => yc = y
  BY DEF Moves, Taking, Giving
<1>3. \A e \in Balance :
         /\ op.bank[e] = (IF e = b THEN -x ELSE 0) + (IF e = d THEN y ELSE 0)
         /\ costDelta[e] = (IF e = b THEN -xc ELSE 0) + (IF e = d THEN yc ELSE 0)
  BY DEF Moves, Between
<1>4. \A e \in Balance : /\ t.amount[e] = s.amount[e] + op.bank[e]
                         /\ t.cost[e] = s.cost[e] + costDelta[e]
                         /\ s.amount[e] \in Int /\ s.cost[e] \in Int
  <2>1. /\ s.amount \in [Balance -> Int] /\ s.cost \in [Balance -> Int]
        /\ costDelta \in [Balance -> Int]
    BY <1>1, LedgerFields DEF Step
  <2>2. t.cost = Plus(s.cost, costDelta)
    BY SMT DEF Step, Posted
  <2>3. \A e \in Balance : t.cost[e] = s.cost[e] + costDelta[e]
    BY <2>1, <2>2 DEF Plus
  <2> QED BY <1>1, <2>1, <2>3, RecordedRows
<1>5. Len(t.lots) = m + p
  BY <1>1 DEF LotsKept
<1> HIDE DEF m, p
<1>6. ASSUME NEW e \in Balance, ~IsBase(e)
      PROVE  /\ t.amount[e] = SumTo(Remaining(t.lots, e), m + p)
             /\ t.cost[e] = SumTo(CostsOn(t, e), m + p)
  <2> DEFINE z  == IF e = d THEN y ELSE 0
             zc == IF e = d THEN yc ELSE 0
             u  == SumTo(TakenOn(s, op.used, e), m)
             uc == SumTo(TakenOn(s, op.usedCost, e), m)
             r  == SumTo(Remaining(s.lots, e), m)
             rc == SumTo(CostsOn(s, e), m)
  <2>1. LotsAdded(s, t, p, e, z, zc)
    <3>1. CASE p = 0 /\ (y = 0 \/ IsBase(d))
      BY <1>2, <1>6, <3>1 DEF LotsAdded
    <3>2. CASE /\ p = 1 /\ d \in Balance
               /\ t.lots[m + 1] \in Lot /\ BalanceOf(t.lots[m + 1]) = d
               /\ t.lots[m + 1].remaining = y /\ t.lots[m + 1].cost = yc
      <4>1. OnBalance(t.lots[m + 1], e) <=> e = d
        BY <3>2, LotBalance
      <4> QED BY <3>2, <4>1 DEF LotsAdded, m
    <3> QED BY <1>1, <3>1, <3>2
  <2>2. /\ u = IF e = b THEN x ELSE 0
        /\ uc = IF e = b THEN xc ELSE 0
    BY <1>6 DEF Moves, Taking, m
  <2>3. r = s.amount[e] /\ rc = s.cost[e]
    BY <1>6 DEF LotsHold, m
  <2>4. /\ SumTo(Remaining(t.lots, e), m + p) = r - u + z
        /\ SumTo(CostsOn(t, e), m + p) = rc - uc + zc
    <3> HIDE DEF z, zc
    <3> QED BY <1>1, <2>1, LotsThen DEF m
  <2>7. /\ op.bank[e] = (IF e = b THEN -x ELSE 0) + (IF e = d THEN y ELSE 0)
        /\ costDelta[e] = (IF e = b THEN -xc ELSE 0) + (IF e = d THEN yc ELSE 0)
        /\ s.amount[e] \in Int /\ s.cost[e] \in Int
    BY <1>3, <1>4
  <2> HIDE DEF u, uc, r, rc
  <2>5. r - u + z = s.amount[e] + op.bank[e]
    BY <1>2, <2>2, <2>3, <2>7, SMT
  <2>6. rc - uc + zc = s.cost[e] + costDelta[e]
    BY <1>2, <2>2, <2>3, <2>7, SMT
  <2> QED BY <1>4, <2>4, <2>5, <2>6
<1>7. LotsHold(t)
  BY <1>5, <1>6 DEF LotsHold
<1>8. BaseCosts(t)
  <2> SUFFICES ASSUME TicksPerCent = 1, NEW e \in Balance, IsBase(e)
               PROVE  t.cost[e] = t.amount[e]
    BY DEF BaseCosts
  <2>1. s.cost[e] = s.amount[e]
    BY DEF BaseCosts
  <2>2. op.bank[e] = costDelta[e]
    <3>1. e = b => xc = x
      BY <1>2, SMT
    <3>2. e = d => yc = y
      BY <1>2, SMT
    <3> QED BY <1>3, <3>1, <3>2
  <2> QED BY <1>4, <2>1, <2>2
<1> QED BY <1>7, <1>8

LEMMA MovesNew ==
    ASSUME NEW s, NEW t, NEW op, NEW costDelta, NEW opened,
           NEW b, NEW x, NEW xc, NEW d, NEW y, NEW yc,
           Step(s, t, op, costDelta, opened), Moves(s, op, costDelta, opened, b, x, xc, d, y, yc),
           LotsInOrder(s)
    PROVE  MovesLots(t, Len(s.operations) + 1)
<1> DEFINE m == Len(s.lots)
           n == Len(s.operations)
           p == Len(opened)
<1>1. /\ s \in Ledger /\ t \in Ledger /\ Recorded(s, t, op) /\ LotsKept(s, t, p)
      /\ op.used \in Seq(Int) /\ DOMAIN op.used = 1..m
      /\ \/ p = 0 /\ (y = 0 \/ IsBase(d))
         \/ /\ p = 1 /\ y > 0 /\ ~IsBase(d) /\ d \in Balance
            /\ t.lots[m + 1] \in Lot /\ BalanceOf(t.lots[m + 1]) = d
            /\ t.lots[m + 1].initial = y /\ t.lots[m + 1].openedBy = n + 1
  BY MovesRows
<1>2. /\ n \in Nat /\ DOMAIN s.operations = 1..n /\ t.operations[n + 1] = op
  BY <1>1, RecordedRows
<1>3. /\ m \in Nat /\ p \in {0, 1} /\ DOMAIN s.lots = 1..m /\ DOMAIN t.lots = 1..(m + p)
      /\ Len(t.lots) = m + p
      /\ \A i \in 1..m : Kept(s.lots[i], t.lots[i]) /\ s.lots[i] \in Lot
  BY <1>1, LedgerFields DEF LotsKept
<1>4. /\ x \in Nat /\ y \in Nat
      /\ x > 0 => b \in Balance /\ BaseOf(b[1]) = OwnerBase[op.owner]
      /\ y > 0 => d \in Balance /\ BaseOf(d[1]) = OwnerBase[op.owner]
      /\ x > 0 /\ y > 0 => b # d
      /\ \A i \in 1..m : RowAt(op.used, i) # 0 => x > 0 /\ OnBalance(s.lots[i], b)
      /\ \A e \in Balance : op.bank[e] = (IF e = b THEN -x ELSE 0) + (IF e = d THEN y ELSE 0)
      /\ \A e \in Balance : ~IsBase(e) =>
            SumTo(TakenOn(s, op.used, e), m) = IF e = b THEN x ELSE 0
  BY <1>3 DEF Moves, Taking, Giving, Between
<1> HIDE DEF m, n, p
<1>5. \A i \in 1..m : t.lots[i].openedBy # n + 1
  <2>1. \A i \in 1..m : s.lots[i].openedBy \in 1..n
    BY <1>2, <1>3 DEF LotsInOrder
  <2>2. n + 1 \notin 1..n
    BY <1>2, SMT
  <2> QED BY <1>3, <2>1, <2>2 DEF Kept
<1>6. 1..m \subseteq 1..(m + p) /\ (p = 1 => m + 1 \in 1..(m + p)) /\ m + 1 \notin 1..m
      /\ \A i \in 1..(m + p) : i \in 1..m \/ (p = 1 /\ i = m + 1)
  <2>1. m \in Nat /\ p \in {0, 1}
    BY <1>3
  <2> QED BY <2>1, SMT
<1>7. OneToOne(op)
  <2> SUFFICES ASSUME NEW e \in Balance, NEW f \in Balance
               PROVE  /\ op.bank[e] < 0 /\ op.bank[f] < 0 => e = f
                      /\ op.bank[e] > 0 /\ op.bank[f] > 0 => e = f
    BY DEF OneToOne
  <2>1. /\ op.bank[e] = (IF e = b THEN -x ELSE 0) + (IF e = d THEN y ELSE 0)
        /\ op.bank[f] = (IF f = b THEN -x ELSE 0) + (IF f = d THEN y ELSE 0)
    BY <1>4
  <2> QED BY <1>4, <2>1, SMT
<1>8. ASSUME NEW e \in Balance, op.bank[e] # 0 PROVE BaseOf(e[1]) = OwnerBase[op.owner]
  <2>1. op.bank[e] = (IF e = b THEN -x ELSE 0) + (IF e = d THEN y ELSE 0)
    BY <1>4
  <2>2. (e = b /\ x > 0) \/ (e = d /\ y > 0)
    BY <1>4, <1>8, <2>1, SMT
  <2> QED BY <1>4, <2>2
<1>9. x > 0 => op.bank[b] < 0
  <2> SUFFICES ASSUME x > 0 PROVE op.bank[b] < 0
    OBVIOUS
  <2>1. op.bank[b] = -x + (IF b = d THEN y ELSE 0)
    BY <1>4
  <2> QED BY <1>4, <2>1, SMT
<1>10. y > 0 => op.bank[d] > 0
  <2> SUFFICES ASSUME y > 0 PROVE op.bank[d] > 0
    OBVIOUS
  <2>1. op.bank[d] = (IF d = b THEN -x ELSE 0) + y
    BY <1>4
  <2> QED BY <1>4, <2>1, SMT
<1>11. ASSUME NEW i \in 1..(m + p)
       PROVE  /\ t.lots[i].openedBy = n + 1 => op.bank[BalanceOf(t.lots[i])] > 0
              /\ RowAt(op.used, i) # 0 => op.bank[BalanceOf(t.lots[i])] < 0
  <2>1. CASE i \in 1..m
    <3>1. BalanceOf(t.lots[i]) = BalanceOf(s.lots[i])
      BY <1>3, <2>1, KeptBalance
    <3>2. RowAt(op.used, i) # 0 => x > 0 /\ b = BalanceOf(s.lots[i])
      BY <1>3, <1>4, <2>1, LotBalance
    <3> QED BY <1>5, <1>9, <2>1, <3>1, <3>2
  <2>2. CASE p = 1 /\ i = m + 1
    <3>1. y > 0 /\ BalanceOf(t.lots[i]) = d
      <4>1. p # 0
        BY <2>2
      <4> QED BY <1>1, <2>2, <4>1 DEF m
    <3>2. RowAt(op.used, i) = 0
      BY <1>1, <1>6, <2>2 DEF RowAt, m
    <3> QED BY <1>10, <3>1, <3>2
  <2> QED BY <1>6, <2>1, <2>2
<1>12. ASSUME NEW e \in Balance, ~IsBase(e)
       PROVE  op.bank[e] = SumTo(FlowOn(t, n + 1, e), m + p)
  <2> DEFINE w == FlowOn(t, n + 1, e)
             v == [i \in 1..m |-> 0]
             u == TakenOn(s, op.used, e)
             z == IF e = d THEN y ELSE 0
  <2>1. ASSUME NEW i \in 1..m PROVE v[i] = 0 /\ v[i] \in Int /\ u[i] \in Int /\ w[i] = v[i] - u[i] /\ w[i] \in Int
    <3>1. OnBalance(t.lots[i], e) <=> OnBalance(s.lots[i], e)
      BY <1>3, KeptBalance
    <3>2. u[i] \in Int /\ u[i] = IF OnBalance(s.lots[i], e) THEN RowAt(op.used, i) ELSE 0
      BY <1>1, <1>3, TakenRow
    <3>3. w[i] = IF OnBalance(t.lots[i], e)
                 THEN (IF t.lots[i].openedBy = n + 1 THEN t.lots[i].initial ELSE 0) - RowAt(op.used, i)
                 ELSE 0
      BY <1>2, <1>3, <1>6 DEF FlowOn
    <3>4. t.lots[i].openedBy # n + 1 /\ v[i] = 0
      BY <1>5
    <3> HIDE DEF u, v, w
    <3> QED BY <3>1, <3>2, <3>3, <3>4, SMT
  <2>2. (p = 0 /\ z = 0) \/ (p = 1 /\ w[m + 1] = z)
    <3>1. CASE p = 0 /\ (y = 0 \/ IsBase(d))
      BY <1>12, <3>1
    <3>2. CASE /\ p = 1 /\ t.lots[m + 1] \in Lot /\ BalanceOf(t.lots[m + 1]) = d
               /\ t.lots[m + 1].initial = y /\ t.lots[m + 1].openedBy = n + 1
      <4>1. OnBalance(t.lots[m + 1], e) <=> e = d
        BY <3>2, LotBalance
      <4>2. RowAt(op.used, m + 1) = 0
        BY <1>1, <1>6 DEF RowAt, m
      <4>3. w[m + 1] = IF OnBalance(t.lots[m + 1], e) THEN y - 0 ELSE 0
        BY <1>2, <1>3, <1>6, <3>2, <4>2 DEF FlowOn
      <4>4. w[m + 1] = z
        <5> HIDE DEF w
        <5> QED BY <1>4, <4>1, <4>3, SMT
      <4> QED BY <3>2, <4>4
    <3> QED BY <1>1, <3>1, <3>2 DEF m, n
  <2>3. SumTo(u, m) = IF e = b THEN x ELSE 0
    BY <1>4, <1>12
  <2> HIDE DEF u, v, w
  <2>4. m \in Nat /\ (\A i \in 1..m : v[i] \in Int) /\ (\A i \in 1..m : u[i] \in Int)
        /\ (\A i \in 1..m : w[i] = v[i] - u[i]) /\ (\A i \in 1..m : w[i] \in Int)
        /\ (\A i \in 1..m : v[i] = 0)
    BY <1>3, <2>1
  <2>5. SumTo(w, m) = SumTo(v, m) - SumTo(u, m)
    BY <2>4, SumToMinus
  <2>6. SumTo(v, m) = 0
    BY <2>4, SumToZeros
  <2>7. SumTo(w, m + p) = SumTo(w, m) + z
    <3> HIDE DEF z
    <3> QED BY <2>2, <2>4, SumToAdded
  <2>8. op.bank[e] = (IF e = b THEN -x ELSE 0) + (IF e = d THEN y ELSE 0)
    BY <1>4
  <2>9. SumTo(w, m + p) = op.bank[e]
    BY <1>4, <2>3, <2>5, <2>6, <2>7, <2>8, SMT
  <2> QED BY <2>9 DEF w
<1>13. MovesLots(t, n + 1)
  BY <1>2, <1>3, <1>7, <1>8, <1>11, <1>12 DEF MovesLots
<1> QED BY <1>13 DEF n

LEMMA MovesLeft ==
    ASSUME NEW s, NEW t, NEW op, NEW costDelta, NEW opened,
           NEW b, NEW x, NEW xc, NEW d, NEW y, NEW yc,
           Step(s, t, op, costDelta, opened), Moves(s, op, costDelta, opened, b, x, xc, d, y, yc),
           LotsInOrder(s), LotsLeft(s), ReversedOnce(t)
    PROVE  LotsLeft(t)
<1> DEFINE m == Len(s.lots)
           n == Len(s.operations)
           p == Len(opened)
<1>1. /\ s \in Ledger /\ t \in Ledger /\ Recorded(s, t, op) /\ LotsKept(s, t, p)
      /\ op.used \in Seq(Int) /\ DOMAIN op.used = 1..m /\ DOMAIN op.usedCost = 1..m
      /\ LotsTaken(s, t, op.used, op.usedCost)
      /\ \/ p = 0
         \/ /\ p = 1
            /\ t.lots[m + 1].initial = y /\ t.lots[m + 1].remaining = y
            /\ t.lots[m + 1].costInitial = yc /\ t.lots[m + 1].cost = yc
            /\ t.lots[m + 1].openedBy = n + 1
  BY MovesRows
<1>2. /\ n \in Nat /\ DOMAIN s.operations = 1..n /\ DOMAIN t.operations = 1..(n + 1)
      /\ \A k \in 1..n : t.operations[k] = s.operations[k]
      /\ t.operations[n + 1] = op /\ Len(t.operations) = n + 1
  BY <1>1, RecordedRows
<1>3. /\ m \in Nat /\ p \in {0, 1} /\ DOMAIN s.lots = 1..m /\ DOMAIN t.lots = 1..(m + p)
      /\ \A i \in 1..m : Kept(s.lots[i], t.lots[i]) /\ s.lots[i] \in Lot
      /\ \A i \in 1..(m + p) : t.lots[i] \in Lot
  BY <1>1, LedgerFields DEF LotsKept
<1>4. op.type # "reversal" /\ op.reverses = 0 /\ LedgerInv(t)
  BY DEF Step
<1> HIDE DEF m, n, p
<1>5. 1..m \subseteq 1..(m + p) /\ (p = 1 => m + 1 \in 1..(m + p)) /\ m + 1 \notin 1..m
      /\ (\A i \in 1..(m + p) : i \in 1..m \/ (p = 1 /\ i = m + 1))
      /\ n + 1 \in 1..(n + 1) /\ (\A k \in 1..(n + 1) : k \in 1..n \/ k = n + 1)
  BY <1>2, <1>3, SMT
<1>6. ASSUME NEW i \in 1..m
      PROVE  LET used == SumTo(UsesOf(t, i), n + 1)
             IN  /\ used = SumTo(LiveUsesOf(t, i), n + 1)
                 /\ IF IsReversed(t, t.lots[i].openedBy)
                    THEN t.lots[i].remaining = 0 /\ t.lots[i].cost = 0 /\ used = 0
                    ELSE /\ t.lots[i].remaining = t.lots[i].initial - used
                         /\ t.lots[i].cost = t.lots[i].costInitial - SumTo(UseCostsOf(t, i), n + 1)
  <2> DEFINE used  == SumTo(UsesOf(t, i), n + 1)
             live  == SumTo(LiveUsesOf(t, i), n + 1)
             costs == SumTo(UseCostsOf(t, i), n + 1)
             used0 == SumTo(UsesOf(s, i), n)
             live0 == SumTo(LiveUsesOf(s, i), n)
             costs0 == SumTo(UseCostsOf(s, i), n)
             u == RowAt(op.used, i)
             c == RowAt(op.usedCost, i)
             lot == s.lots[i]
             new == t.lots[i]
  <2>1. used0 \in Int /\ costs0 \in Int /\ used = used0 + u /\ costs = costs0 + c
    BY <1>1, UsesThen DEF n
  <2>2. live = live0 + u
    BY <1>1, <1>4, LiveUsesThen DEF n
  <2>3. u \in Nat /\ c \in Nat /\ (u = 0 => c = 0)
    <3>1. n + 1 \in DOMAIN t.operations
      BY <1>2, <1>5
    <3> QED BY <1>2, <1>4, <3>1, UsesNatural
  <2>4. new.remaining = lot.remaining - u /\ new.cost = lot.cost - c
    BY <1>1 DEF LotsTaken, m
  <2>5. /\ new.initial = lot.initial /\ new.costInitial = lot.costInitial
        /\ new.openedBy = lot.openedBy
    BY <1>3 DEF Kept
  <2>6. new.remaining \in Nat /\ new.cost \in Nat /\ lot.initial \in Nat /\ lot.costInitial \in Nat
        /\ lot.openedBy # 0
    BY <1>3, <1>5, LotFields
  <2>7. IsReversed(t, new.openedBy) <=> IsReversed(s, lot.openedBy)
    BY <1>1, <1>4, <2>5, <2>6, ReversedThen
  <2>8. /\ used0 = live0
        /\ IF IsReversed(s, lot.openedBy)
           THEN lot.remaining = 0 /\ lot.cost = 0 /\ used0 = 0
           ELSE lot.remaining = lot.initial - used0 /\ lot.cost = lot.costInitial - costs0
    BY <1>3 DEF LotsLeft, n
  <2> HIDE DEF used, live, costs, used0, live0, costs0, u, c, lot, new
  <2>9. /\ used = live
        /\ IF IsReversed(t, new.openedBy)
           THEN new.remaining = 0 /\ new.cost = 0 /\ used = 0
           ELSE new.remaining = new.initial - used /\ new.cost = new.costInitial - costs
    <3>1. CASE IsReversed(s, lot.openedBy)
      <4>1. u = 0 /\ c = 0
        BY <2>3, <2>4, <2>6, <2>8, <3>1, SMT
      <4> QED BY <2>1, <2>2, <2>4, <2>7, <2>8, <3>1, <4>1, SMT
    <3>2. CASE ~IsReversed(s, lot.openedBy)
      BY <2>1, <2>2, <2>3, <2>4, <2>5, <2>6, <2>7, <2>8, <3>2, SMT
    <3> QED BY <3>1, <3>2
  <2> QED BY <2>9 DEF used, live, costs, new
<1>7. ASSUME p = 1
      PROVE  LET i == m + 1
                 used == SumTo(UsesOf(t, i), n + 1)
             IN  /\ used = SumTo(LiveUsesOf(t, i), n + 1)
                 /\ ~IsReversed(t, t.lots[i].openedBy)
                 /\ t.lots[i].remaining = t.lots[i].initial - used
                 /\ t.lots[i].cost = t.lots[i].costInitial - SumTo(UseCostsOf(t, i), n + 1)
  <2>1. \A k \in DOMAIN t.operations :
           m + 1 \notin DOMAIN t.operations[k].used /\ m + 1 \notin DOMAIN t.operations[k].usedCost
    <3> SUFFICES ASSUME NEW k \in 1..(n + 1)
                 PROVE  m + 1 \notin DOMAIN t.operations[k].used
                        /\ m + 1 \notin DOMAIN t.operations[k].usedCost
      BY <1>2
    <3>1. CASE k \in 1..n
      <4>1. /\ DOMAIN s.operations[k].usedCost = DOMAIN s.operations[k].used
            /\ \A i \in DOMAIN s.operations[k].used : i \in 1..m
        BY <1>2, <1>3, <3>1 DEF LotsInOrder
      <4> QED BY <1>2, <1>5, <3>1, <4>1
    <3>2. CASE k = n + 1
      BY <1>1, <1>2, <1>5, <3>2 DEF m
    <3> QED BY <1>5, <3>1, <3>2
  <2>2. /\ SumTo(UsesOf(t, m + 1), n + 1) = 0 /\ SumTo(UseCostsOf(t, m + 1), n + 1) = 0
        /\ SumTo(LiveUsesOf(t, m + 1), n + 1) = 0
    BY <1>1, <1>2, <2>1, UnknownLotUnused
  <2>3. /\ t.lots[m + 1].remaining = t.lots[m + 1].initial
        /\ t.lots[m + 1].cost = t.lots[m + 1].costInitial
        /\ t.lots[m + 1].openedBy = n + 1
    <3>1. p # 0
      BY <1>7
    <3> QED BY <1>1, <3>1 DEF m, n
  <2>4. ~IsReversed(t, n + 1)
    <3> SUFFICES ASSUME NEW r \in 1..(n + 1), t.operations[r].reverses = n + 1 PROVE FALSE
      BY <1>2 DEF IsReversed
    <3>1. n + 1 # 0
      BY <1>2, SMT
    <3>2. n + 1 < r
      BY <1>2, <1>5, <3>1 DEF ReversedOnce
    <3> QED BY <1>2, <3>2, SMT
  <2>5. t.lots[m + 1].initial \in Nat /\ t.lots[m + 1].costInitial \in Nat
    BY <1>3, <1>5, <1>7, LotFields
  <2> DEFINE new == t.lots[m + 1]
  <2>6. new.remaining = new.initial - 0 /\ new.cost = new.costInitial - 0
    BY <2>3, <2>5, SMT
  <2> QED BY <2>2, <2>3, <2>4, <2>6
<1>8. \A i \in 1..(m + p) :
         LET used == SumTo(UsesOf(t, i), n + 1)
         IN  /\ used = SumTo(LiveUsesOf(t, i), n + 1)
             /\ IF IsReversed(t, t.lots[i].openedBy)
                THEN t.lots[i].remaining = 0 /\ t.lots[i].cost = 0 /\ used = 0
                ELSE /\ t.lots[i].remaining = t.lots[i].initial - used
                     /\ t.lots[i].cost = t.lots[i].costInitial - SumTo(UseCostsOf(t, i), n + 1)
  BY <1>5, <1>6, <1>7
<1> QED BY <1>2, <1>3, <1>8 DEF LotsLeft

\* A lemma for all the operations that are no reversals.
LEMMA MovesKeep ==
    ASSUME NEW s, NEW t, NEW op, NEW costDelta, NEW opened,
           NEW b, NEW x, NEW xc, NEW d, NEW y, NEW yc,
           Step(s, t, op, costDelta, opened), Moves(s, op, costDelta, opened, b, x, xc, d, y, yc),
           LotsInv(s), ReversedOnce(t)
    PROVE  LotsInv(t)
<1> DEFINE n == Len(s.operations)
           p == Len(opened)
<1>0. LotsInOrder(s) /\ LotsLeft(s) /\ LotsHold(s) /\ BaseCosts(s)
      /\ \A k \in DOMAIN s.operations : s.operations[k].type # "reversal" => MovesLots(s, k)
  BY DEF LotsInv
<1>1. /\ s \in Ledger /\ t \in Ledger /\ Recorded(s, t, op) /\ LotsKept(s, t, p)
      /\ DOMAIN op.used = DOMAIN s.lots /\ DOMAIN op.usedCost = DOMAIN s.lots
      /\ p = 1 => t.lots[Len(s.lots) + 1].openedBy = n + 1
  <2>1. /\ s \in Ledger /\ t \in Ledger /\ Recorded(s, t, op) /\ LotsKept(s, t, p)
        /\ DOMAIN op.used = 1..Len(s.lots) /\ DOMAIN op.usedCost = 1..Len(s.lots)
        /\ p = 0 \/ t.lots[Len(s.lots) + 1].openedBy = n + 1
    BY MovesRows
  <2>2. DOMAIN s.lots = 1..Len(s.lots)
    BY <2>1, LedgerFields
  <2>3. ~(p = 0 /\ p = 1)
    BY SMT
  <2> QED BY <2>1, <2>2, <2>3
<1>2. /\ n \in Nat /\ DOMAIN s.operations = 1..n /\ DOMAIN t.operations = 1..(n + 1)
      /\ \A k \in 1..n : t.operations[k] = s.operations[k]
  BY <1>1, RecordedRows
<1>3. LotsInOrder(t)
  BY <1>0, <1>1, OrderThen
<1>4. LotsLeft(t)
  BY <1>0, MovesLeft
<1>5. ASSUME NEW k \in DOMAIN t.operations, t.operations[k].type # "reversal"
      PROVE  MovesLots(t, k)
  <2>1. CASE k \in 1..n
    BY <1>0, <1>1, <1>2, <1>5, <2>1, MovesThen
  <2>2. CASE k = n + 1
    BY <1>0, <2>2, MovesNew
  <2>3. k \in 1..n \/ k = n + 1
    BY <1>2, SMT
  <2> QED BY <2>1, <2>2, <2>3
<1>6. LotsHold(t) /\ BaseCosts(t)
  BY <1>0, MovesHold
<1> QED BY <1>3, <1>4, <1>5, <1>6 DEF LotsInv

(***************************************************************************)
(* A reversal gives the lots back what the operation used, and empties the  *)
(* lots it opened, which nobody has used.                                   *)
(***************************************************************************)
LEMMA InCents == ASSUME TicksPerCent = 1, NEW x \in Int PROVE InBase(x) = x
<1>1. InBase(x) = RoundDiv(x, 1)
  BY DEF InBase
<1>2. CASE x >= 0
  <2>1. (2 * x + 1) \div 2 = x
    BY <1>2, SMT
  <2> QED BY <1>1, <1>2, <2>1, SMT DEF RoundDiv
<1>3. CASE ~(x >= 0)
  <2>1. (2 * (-x) + 1) \div 2 = -x
    BY <1>3, SMT
  <2> QED BY <1>1, <1>3, <2>1, SMT DEF RoundDiv
<1> QED BY <1>2, <1>3

\* t is s with its operation k taken back
TakenBack(s, t, k) ==
    /\ LedgerInv(s) /\ LedgerInv(t)
    /\ k \in DOMAIN s.operations /\ s.operations[k].type # "reversal" /\ ~IsReversed(s, k)
    /\ \A i \in OpenedBy(s, k) : Untouched(s.lots[i])
    /\ t = [Posted(s, ReversalOf(s, k), ReversalCost(s, k), <<>>)
              EXCEPT !.lots = Emptied(@, OpenedBy(s, k))]

LEMMA TakenBackRows ==
    ASSUME NEW s, NEW t, NEW k, TakenBack(s, t, k)
    PROVE  LET m == Len(s.lots)
               op == s.operations[k]
               back == ReversalOf(s, k)
           IN  /\ s \in Ledger /\ t \in Ledger /\ Recorded(s, t, back)
               /\ back.type = "reversal" /\ back.reverses = k
               /\ \A b \in Balance : back.bank[b] = -op.bank[b]
               /\ DOMAIN back.used = 1..m /\ DOMAIN back.usedCost = 1..m
               /\ \A i \in 1..m : /\ RowAt(back.used, i) = -RowAt(op.used, i)
                                  /\ RowAt(back.usedCost, i) = -RowAt(op.usedCost, i)
               /\ LotsKept(s, t, 0)
               /\ \A i \in 1..m :
                     IF s.lots[i].openedBy = k
                     THEN t.lots[i].remaining = 0 /\ t.lots[i].cost = 0
                     ELSE /\ t.lots[i].remaining = s.lots[i].remaining + RowAt(op.used, i)
                          /\ t.lots[i].cost = s.lots[i].cost + RowAt(op.usedCost, i)
               /\ \A b \in Balance : t.cost[b] = s.cost[b] + ReversalCost(s, k)[b]
<1> DEFINE m == Len(s.lots)
           op == s.operations[k]
           back == ReversalOf(s, k)
           mid == Posted(s, back, ReversalCost(s, k), <<>>)
<1>1. /\ LedgerInv(s) /\ LedgerInv(t) /\ k \in DOMAIN s.operations /\ op.type # "reversal"
      /\ t = [mid EXCEPT !.lots = Emptied(@, OpenedBy(s, k))]
      /\ s \in Ledger /\ t \in Ledger
  BY DEF TakenBack, LedgerInv
<1>2. /\ m \in Nat /\ DOMAIN s.lots = 1..m /\ op \in Operation
      /\ s.cost \in [Balance -> Int]
  BY <1>1, LedgerFields
<1>3. /\ op.bank \in [Balance -> Int] /\ op.used \in Seq(Int) /\ op.usedCost \in Seq(Int)
  BY <1>2, OperationFields
<1>4. /\ back \in Operation /\ back.type = "reversal" /\ back.bank = Negated(op.bank)
      /\ LeavesLots(s, back)
  BY <1>1, ReversalRows
<1>5. /\ back.reverses = k /\ back.used = Negated(UsedNow(s, op.used))
      /\ back.usedCost = Negated(UsedNow(s, op.usedCost))
  BY DEF ReversalOf
<1>6. ReversalCost(s, k) \in [Balance -> Int]
  BY <1>1, ReversalCostInt
<1>7. LedgerInv(mid)
  BY <1>1, <1>4, <1>6, NoLotOpens, PostedInv
<1>8. Recorded(s, mid, back)
  BY PostedRecords
<1>9. mid.cost = Plus(s.cost, ReversalCost(s, k))
  BY SMT DEF Posted
<1>10. /\ LotsKept(s, mid, 0)
       /\ \A i \in 1..m : /\ mid.lots[i].remaining = s.lots[i].remaining - RowAt(back.used, i)
                          /\ mid.lots[i].cost = s.lots[i].cost - RowAt(back.usedCost, i)
  <2> DEFINE delta == ReversalCost(s, k)
  <2>1. LedgerInv(s) /\ back \in Operation /\ LeavesLots(s, back)
    BY <1>1, <1>4
  <2> HIDE DEF back, delta
  <2> QED BY <2>1, AfterPostingNoLot
<1> HIDE DEF mid
<1>11. /\ t.operations = mid.operations /\ t.amount = mid.amount /\ t.cost = mid.cost
       /\ t.budget = mid.budget /\ t.lots = Emptied(mid.lots, OpenedBy(s, k))
  <2>1. mid \in Ledger
    BY <1>7 DEF LedgerInv
  <2> DEFINE lots == Emptied(mid.lots, OpenedBy(s, k))
  <2>2. t = [mid EXCEPT !.lots = lots]
    BY <1>1
  <2> HIDE DEF lots
  <2>3. /\ t.operations = mid.operations /\ t.amount = mid.amount /\ t.cost = mid.cost
        /\ t.budget = mid.budget /\ t.lots = lots
    BY <2>1, <2>2, SMT DEF Ledger
  <2> QED BY <2>3 DEF lots
<1>12. Recorded(s, t, back)
  BY <1>8, <1>11 DEF Recorded
<1>13. \A b \in Balance : back.bank[b] = -op.bank[b]
  BY <1>3, <1>4 DEF Negated
<1>14. /\ DOMAIN back.used = 1..m /\ DOMAIN back.usedCost = 1..m
       /\ \A i \in 1..m : /\ RowAt(back.used, i) = -RowAt(op.used, i)
                          /\ RowAt(back.usedCost, i) = -RowAt(op.usedCost, i)
  <2>0. /\ DOMAIN Negated(UsedNow(s, op.used)) = DOMAIN s.lots
        /\ DOMAIN Negated(UsedNow(s, op.usedCost)) = DOMAIN s.lots
        /\ \A i \in DOMAIN s.lots :
              /\ UsedNow(s, op.used)[i] = RowAt(op.used, i)
              /\ Negated(UsedNow(s, op.used))[i] = -UsedNow(s, op.used)[i]
              /\ UsedNow(s, op.usedCost)[i] = RowAt(op.usedCost, i)
              /\ Negated(UsedNow(s, op.usedCost))[i] = -UsedNow(s, op.usedCost)[i]
    <3> HIDE DEF op
    <3>1. LedgerInv(s) /\ op.used \in Seq(Int) /\ op.usedCost \in Seq(Int)
      BY <1>1, <1>3
    <3> QED BY <3>1, UsedNowRow DEF RowAt
  <2> HIDE DEF back, op
  <2>1. /\ DOMAIN back.used = 1..m
        /\ \A i \in 1..m : back.used[i] = -RowAt(op.used, i)
    BY <1>2, <1>5, <2>0
  <2>2. /\ DOMAIN back.usedCost = 1..m
        /\ \A i \in 1..m : back.usedCost[i] = -RowAt(op.usedCost, i)
    BY <1>2, <1>5, <2>0
  <2> QED BY <2>1, <2>2 DEF RowAt
<1>15. \A b \in Balance : t.cost[b] = s.cost[b] + ReversalCost(s, k)[b]
  BY <1>2, <1>6, <1>9, <1>11 DEF Plus
<1>16. mid.lots \in Seq(Lot) /\ Len(mid.lots) = m /\ DOMAIN mid.lots = 1..m
       /\ \A i \in 1..m : Kept(s.lots[i], mid.lots[i]) /\ mid.lots[i] \in Lot
  <2>1. mid \in Ledger
    BY <1>7 DEF LedgerInv
  <2>2. Len(mid.lots) = m + 0 /\ \A i \in 1..m : Kept(s.lots[i], mid.lots[i])
    BY <1>10 DEF LotsKept
  <2>3. Len(mid.lots) = m
    BY <1>2, <2>2, SMT
  <2> QED BY <2>1, <2>2, <2>3, LedgerFields
<1>17. ASSUME NEW i \in 1..m
       PROVE  /\ Kept(s.lots[i], t.lots[i])
              /\ IF s.lots[i].openedBy = k
                 THEN t.lots[i].remaining = 0 /\ t.lots[i].cost = 0
                 ELSE t.lots[i] = mid.lots[i]
  <2>1. t.lots[i] = IF i \in OpenedBy(s, k) THEN [mid.lots[i] EXCEPT !.remaining = 0, !.cost = 0]
                                            ELSE mid.lots[i]
    BY <1>11, <1>16 DEF Emptied
  <2>2. i \in OpenedBy(s, k) <=> s.lots[i].openedBy = k
    BY <1>2 DEF OpenedBy
  <2>3. CASE i \in OpenedBy(s, k)
    <3> DEFINE x == mid.lots[i]
               y == t.lots[i]
    <3>1. x \in Lot /\ y = [x EXCEPT !.remaining = 0, !.cost = 0]
      BY <1>16, <2>1, <2>3
    <3> HIDE DEF x, y
    <3>2. y.remaining = 0 /\ y.cost = 0 /\ Kept(x, y)
      BY <3>1, SMT DEF Lot, Kept
    <3>3. Kept(s.lots[i], t.lots[i])
      BY <1>16, <3>2 DEF Kept, x, y
    <3> QED BY <2>2, <2>3, <3>2, <3>3 DEF x, y
  <2>4. CASE i \notin OpenedBy(s, k)
    BY <1>16, <2>1, <2>2, <2>4
  <2> QED BY <2>3, <2>4
<1>18. LotsKept(s, t, 0)
  <2>1. DOMAIN t.lots = 1..m
    BY <1>11, <1>16 DEF Emptied
  <2>2. Len(t.lots) = m
    <3>1. t.lots \in Seq(Lot)
      BY <1>1, LedgerFields
    <3>2. DOMAIN t.lots = 1..Len(t.lots) /\ Len(t.lots) \in Nat
      BY <3>1, LenProperties
    <3> QED BY <1>2, <2>1, <3>2, SMT
  <2>3. m + 0 = m /\ 0 \in {0, 1}
    BY <1>2, SMT
  <2> QED BY <1>2, <1>17, <2>1, <2>2, <2>3 DEF LotsKept
<1>19. ASSUME NEW i \in 1..m
       PROVE  IF s.lots[i].openedBy = k
              THEN t.lots[i].remaining = 0 /\ t.lots[i].cost = 0
              ELSE /\ t.lots[i].remaining = s.lots[i].remaining + RowAt(op.used, i)
                   /\ t.lots[i].cost = s.lots[i].cost + RowAt(op.usedCost, i)
  <2>1. CASE s.lots[i].openedBy = k
    BY <1>17, <2>1
  <2>2. CASE s.lots[i].openedBy # k
    <3>1. RowAt(op.used, i) \in Int /\ RowAt(op.usedCost, i) \in Int
      BY <1>3, RowAtInt
    <3>2. s.lots[i].remaining \in Int /\ s.lots[i].cost \in Int
      <4>1. s.lots[i] \in Lot
        BY <1>1, <1>2, LedgerFields
      <4> QED BY <4>1, LotFields, SMT
    <3>3. t.lots[i] = mid.lots[i]
      BY <1>17, <2>2
    <3>4. /\ t.lots[i].remaining = s.lots[i].remaining - (-RowAt(op.used, i))
          /\ t.lots[i].cost = s.lots[i].cost - (-RowAt(op.usedCost, i))
      BY <1>10, <1>14, <3>3
    <3> DEFINE u == RowAt(op.used, i)
               c == RowAt(op.usedCost, i)
               x == s.lots[i].remaining
               y == s.lots[i].cost
    <3>5. /\ u \in Int /\ c \in Int /\ x \in Int /\ y \in Int
          /\ t.lots[i].remaining = x - (-u) /\ t.lots[i].cost = y - (-c)
      BY <3>1, <3>2, <3>4
    <3> HIDE DEF u, c, x, y
    <3>6. t.lots[i].remaining = x + u /\ t.lots[i].cost = y + c
      BY <3>5, SMT
    <3> QED BY <2>2, <3>6 DEF u, c, x, y
  <2> QED BY <2>1, <2>2
<1> QED BY <1>1, <1>4, <1>5, <1>12, <1>13, <1>14, <1>15, <1>18, <1>19

LEMMA ReversalLeft ==
    ASSUME NEW s, NEW t, NEW k, TakenBack(s, t, k), LotsInOrder(s), LotsLeft(s)
    PROVE  LotsLeft(t)
<1> DEFINE m == Len(s.lots)
           n == Len(s.operations)
           op == s.operations[k]
           back == ReversalOf(s, k)
<1>1. /\ s \in Ledger /\ t \in Ledger /\ Recorded(s, t, back)
      /\ back.type = "reversal" /\ back.reverses = k
      /\ \A i \in 1..m : /\ RowAt(back.used, i) = -RowAt(op.used, i)
                         /\ RowAt(back.usedCost, i) = -RowAt(op.usedCost, i)
      /\ LotsKept(s, t, 0)
      /\ \A i \in 1..m :
            IF s.lots[i].openedBy = k
            THEN t.lots[i].remaining = 0 /\ t.lots[i].cost = 0
            ELSE /\ t.lots[i].remaining = s.lots[i].remaining + RowAt(op.used, i)
                 /\ t.lots[i].cost = s.lots[i].cost + RowAt(op.usedCost, i)
  BY TakenBackRows
<1>2. /\ LedgerInv(s) /\ k \in DOMAIN s.operations /\ Live(s, k) /\ ~IsReversed(s, k)
      /\ op.type # "reversal" /\ \A i \in OpenedBy(s, k) : Untouched(s.lots[i])
  BY DEF TakenBack, Live
<1>3. /\ n \in Nat /\ DOMAIN s.operations = 1..n /\ Len(t.operations) = n + 1
  BY <1>1, RecordedRows
<1>4. /\ m \in Nat /\ DOMAIN s.lots = 1..m /\ DOMAIN t.lots = 1..m
      /\ \A i \in 1..m : Kept(s.lots[i], t.lots[i]) /\ s.lots[i] \in Lot
  <2>1. m \in Nat /\ DOMAIN s.lots = 1..m /\ DOMAIN t.lots = 1..(m + 0)
        /\ \A i \in 1..m : Kept(s.lots[i], t.lots[i])
    BY <1>1 DEF LotsKept
  <2>2. m + 0 = m
    BY <2>1, SMT
  <2> QED BY <1>1, <2>1, <2>2, LedgerFields
<1> SUFFICES ASSUME NEW i \in 1..m
             PROVE  LET used == SumTo(UsesOf(t, i), n + 1)
                    IN  /\ used = SumTo(LiveUsesOf(t, i), n + 1)
                        /\ IF IsReversed(t, t.lots[i].openedBy)
                           THEN t.lots[i].remaining = 0 /\ t.lots[i].cost = 0 /\ used = 0
                           ELSE /\ t.lots[i].remaining = t.lots[i].initial - used
                                /\ t.lots[i].cost = t.lots[i].costInitial
                                                    - SumTo(UseCostsOf(t, i), n + 1)
  BY <1>3, <1>4 DEF LotsLeft
<1> DEFINE used  == SumTo(UsesOf(t, i), n + 1)
           live  == SumTo(LiveUsesOf(t, i), n + 1)
           costs == SumTo(UseCostsOf(t, i), n + 1)
           used0 == SumTo(UsesOf(s, i), n)
           live0 == SumTo(LiveUsesOf(s, i), n)
           costs0 == SumTo(UseCostsOf(s, i), n)
           u == RowAt(op.used, i)
           c == RowAt(op.usedCost, i)
           lot == s.lots[i]
           new == t.lots[i]
<1>5. u \in Nat /\ c \in Nat /\ (u = 0 => c = 0)
  BY <1>2, UsesNatural
<1>6. /\ used0 \in Int /\ costs0 \in Int
      /\ used = used0 - u /\ costs = costs0 - c
  <2>1. /\ used0 \in Int /\ costs0 \in Int
        /\ used = used0 + RowAt(back.used, i) /\ costs = costs0 + RowAt(back.usedCost, i)
    BY <1>1, UsesThen
  <2>2. RowAt(back.used, i) = -u /\ RowAt(back.usedCost, i) = -c
    BY <1>1
  <2> HIDE DEF used, costs, used0, costs0, u, c, back
  <2> QED BY <1>5, <2>1, <2>2, SMT
<1>7. live = live0 - u
  BY <1>1, <1>2, LiveUsesTakenBack
<1>8. /\ new.initial = lot.initial /\ new.costInitial = lot.costInitial
      /\ new.openedBy = lot.openedBy
  BY <1>4 DEF Kept
<1>9. lot.remaining \in Nat /\ lot.cost \in Nat /\ lot.initial \in Nat /\ lot.costInitial \in Nat
  BY <1>4, LotFields
<1>10. IsReversed(t, lot.openedBy) <=> IsReversed(s, lot.openedBy) \/ lot.openedBy = k
  BY <1>1, ReversedThen
<1>11. /\ used0 = live0
       /\ IF IsReversed(s, lot.openedBy)
          THEN lot.remaining = 0 /\ lot.cost = 0 /\ used0 = 0
          ELSE lot.remaining = lot.initial - used0 /\ lot.cost = lot.costInitial - costs0
  BY <1>4 DEF LotsLeft
<1>12. IF lot.openedBy = k
       THEN new.remaining = 0 /\ new.cost = 0
       ELSE new.remaining = lot.remaining + u /\ new.cost = lot.cost + c
  BY <1>1
<1>13. /\ used = live
       /\ IF IsReversed(t, new.openedBy)
          THEN new.remaining = 0 /\ new.cost = 0 /\ used = 0
          ELSE new.remaining = new.initial - used /\ new.cost = new.costInitial - costs
  <2>1. CASE lot.openedBy = k
    <3>1. u = 0
      <4>1. ~(k < k)
        BY <1>2, <1>3, SMT
      <4>2. \A j \in DOMAIN op.used : j \in DOMAIN s.lots /\ s.lots[j].openedBy < k
        BY <1>2 DEF LotsInOrder
      <4>3. i \notin DOMAIN op.used
        BY <2>1, <4>1, <4>2
      <4> QED BY <4>3 DEF RowAt
    <3>2. lot.remaining = lot.initial
      <4>1. i \in OpenedBy(s, k)
        BY <1>4, <2>1 DEF OpenedBy
      <4> QED BY <1>2, <4>1 DEF Untouched
    <3>3. IsReversed(t, new.openedBy) /\ ~IsReversed(s, lot.openedBy)
      BY <1>2, <1>8, <1>10, <2>1
    <3> HIDE DEF used, live, costs, used0, live0, costs0, u, c, lot, new
    <3> QED BY <1>5, <1>6, <1>7, <1>9, <1>11, <1>12, <2>1, <3>1, <3>2, <3>3, SMT
  <2>2. CASE lot.openedBy # k /\ IsReversed(s, lot.openedBy)
    <3>1. u = 0
      <4> DEFINE v == LiveUsesOf(s, i)
      <4>1. \A j \in 1..n : v[j] \in Nat
        <5>1. \A j \in 1..n : s.operations[j].type # "reversal" => RowAt(s.operations[j].used, i) \in Nat
          BY <1>2, <1>3, UsesNatural
        <5> QED BY <1>3, <5>1, SMT DEF LiveUsesOf, Live
      <4>2. v[k] = u
        BY <1>2 DEF LiveUsesOf
      <4>3. SumTo(v, n) = 0
        BY <1>11, <2>2
      <4> HIDE DEF v, n
      <4>4. \A j \in 1..n : v[j] = 0
        BY <1>3, <4>1, <4>3, SumToNothing
      <4> QED BY <1>2, <1>3, <4>2, <4>4
    <3>2. IsReversed(t, new.openedBy)
      BY <1>8, <1>10, <2>2
    <3> HIDE DEF used, live, costs, used0, live0, costs0, u, c, lot, new
    <3>3. lot.remaining = 0 /\ lot.cost = 0 /\ used0 = 0 /\ c = 0
      BY <1>5, <1>11, <2>2, <3>1
    <3>4. used = 0 /\ live = 0
      BY <1>6, <1>7, <1>11, <3>1, <3>3, SMT
    <3>5. new.remaining = 0 /\ new.cost = 0
      BY <1>12, <2>2, <3>1, <3>3, SMT
    <3> QED BY <3>2, <3>4, <3>5
  <2>3. CASE lot.openedBy # k /\ ~IsReversed(s, lot.openedBy)
    <3>1. ~IsReversed(t, new.openedBy)
      BY <1>8, <1>10, <2>3
    <3>2. /\ used0 = live0 /\ lot.remaining = lot.initial - used0
          /\ lot.cost = lot.costInitial - costs0
      BY <1>11, <2>3
    <3>3. new.remaining = lot.remaining + u /\ new.cost = lot.cost + c
      BY <1>12, <2>3
    <3> HIDE DEF used, live, costs, used0, live0, costs0, u, c, lot, new
    <3>4. used = live
      BY <1>6, <1>7, <3>2
    <3>5. new.remaining = new.initial - used
      BY <1>5, <1>6, <1>8, <1>9, <3>2, <3>3, SMT
    <3>6. new.cost = new.costInitial - costs
      BY <1>5, <1>6, <1>8, <1>9, <3>2, <3>3, SMT
    <3> QED BY <3>1, <3>4, <3>5, <3>6
  <2> QED BY <2>1, <2>2, <2>3
<1> QED BY <1>13

LEMMA NoneTaken == ASSUME NEW x, NEW y, x = 0, y = 0 PROVE y = -x
<1>1. x \in Int /\ y \in Int /\ x <= 0 /\ x >= 0 /\ y <= 0 /\ y >= 0
  BY SMT
<1>2. \A i, j \in Int : i <= 0 /\ i >= 0 /\ j <= 0 /\ j >= 0 => j = -i
  BY SMT
<1> QED BY <1>1, <1>2, Zenon

\* The lots give back their money and their cost.
LEMMA CostGoesBack ==
    ASSUME NEW s, LedgerInv(s), NEW k \in DOMAIN s.operations, s.operations[k].type # "reversal",
           MovesLots(s, k), NEW e \in Balance, ~IsBase(e)
    PROVE  /\ SumTo(CostFlowOn(s, k, e), Len(s.lots)) \in Int
           /\ SumTo(CostFlowOn(s, k, e), Len(s.lots)) = -ReversalCost(s, k)[e]
<1> DEFINE m == Len(s.lots)
           op == s.operations[k]
           f == CostFlowOn(s, k, e)
<1>1. s \in Ledger /\ m \in Nat /\ DOMAIN s.lots = 1..m /\ \A i \in 1..m : s.lots[i] \in Lot
  BY LedgerFields DEF LedgerInv
<1>2. op \in Operation /\ op.bank \in [Balance -> Int] /\ op.usedCost \in Seq(Int)
  BY <1>1, LedgerFields, OperationFields
<1>3. /\ OneToOne(op) /\ op.bank[e] \in Int
      /\ op.bank[e] # 0 => BaseOf(e[1]) = OwnerBase[op.owner]
      /\ \A i \in 1..m : /\ s.lots[i].openedBy = k => op.bank[BalanceOf(s.lots[i])] > 0
                         /\ RowAt(op.used, i) # 0 => op.bank[BalanceOf(s.lots[i])] < 0
  BY <1>1, <1>2 DEF MovesLots
<1>4. \A i : /\ RowAt(op.used, i) \in Nat /\ RowAt(op.usedCost, i) \in Nat
             /\ RowAt(op.used, i) = 0 => RowAt(op.usedCost, i) = 0
  BY UsesNatural
<1>5. \A i \in 1..m : /\ s.lots[i].costInitial \in Nat /\ BalanceOf(s.lots[i]) \in Balance
                      /\ OnBalance(s.lots[i], e) <=> e = BalanceOf(s.lots[i])
  BY <1>1, LotFields, LotBalance
<1> HIDE DEF m, op
<1>6. ASSUME NEW i \in 1..m
      PROVE  /\ f[i] \in Int
             /\ f[i] = IF OnBalance(s.lots[i], e)
                       THEN (IF s.lots[i].openedBy = k THEN s.lots[i].costInitial ELSE 0)
                            - RowAt(op.usedCost, i)
                       ELSE 0
  <2>1. f[i] = IF OnBalance(s.lots[i], e)
               THEN (IF s.lots[i].openedBy = k THEN s.lots[i].costInitial ELSE 0)
                    - RowAt(op.usedCost, i)
               ELSE 0
    BY <1>1 DEF CostFlowOn, op
  <2>2. s.lots[i].costInitial \in Nat /\ RowAt(op.usedCost, i) \in Nat
    BY <1>4, <1>5
  <2> HIDE DEF f
  <2> QED BY <2>1, <2>2, SMT
<1> HIDE DEF f
<1>7. SumTo(f, m) \in Int
  BY <1>1, <1>6, SumToInt
<1> SUFFICES SumTo(f, m) = -ReversalCost(s, k)[e]
  BY <1>7 DEF f, m
<1>8. CASE op.bank[e] = 0
  <2>1. ASSUME NEW i \in 1..m PROVE f[i] = 0
    <3>1. OnBalance(s.lots[i], e) => /\ s.lots[i].openedBy # k /\ RowAt(op.used, i) = 0
                                     /\ RowAt(op.usedCost, i) = 0
      <4> SUFFICES ASSUME OnBalance(s.lots[i], e)
                   PROVE  s.lots[i].openedBy # k /\ RowAt(op.used, i) = 0
        BY <1>4
      <4>1. ~(op.bank[e] > 0) /\ ~(op.bank[e] < 0) /\ e = BalanceOf(s.lots[i])
        BY <1>5, <1>8, SMT
      <4> QED BY <1>3, <4>1
    <3>2. f[i] = IF OnBalance(s.lots[i], e)
                 THEN (IF s.lots[i].openedBy = k THEN s.lots[i].costInitial ELSE 0)
                      - RowAt(op.usedCost, i)
                 ELSE 0
      BY <1>6
    <3> QED BY <3>1, <3>2, SMT
  <2>2. SumTo(f, m) = 0
    BY <1>1, <2>1, SumToZeros
  <2>3. ReversalCost(s, k)[e] = 0
    BY <1>8 DEF ReversalCost, op
  <2> DEFINE x == ReversalCost(s, k)[e]
             y == SumTo(f, m)
  <2>4. x = 0 /\ y = 0
    BY <2>2, <2>3
  <2> HIDE DEF x, y
  <2>5. y = -x
    BY <2>4, NoneTaken
  <2> QED BY <2>5 DEF x, y
<1>9. CASE op.bank[e] > 0
  <2>1. e[2] # OwnerBase[op.owner] /\ op.bank[e] # 0
    BY <1>3, <1>9, SMT DEF IsBase
  <2> DEFINE g == [i \in DOMAIN s.lots |->
                     IF i \in OpenedBy(s, k) /\ s.lots[i].currency = e[2]
                     THEN s.lots[i].costInitial ELSE 0]
  <2>2. ReversalCost(s, k)[e] = -SumTo(g, m)
    BY <1>9, <2>1 DEF ReversalCost, op, m
  <2>3. ASSUME NEW i \in 1..m PROVE f[i] = g[i] /\ f[i] \in Int
    <3>1. s.lots[i].openedBy = k => OnBalance(s.lots[i], e)
      BY <1>3, <1>5, <1>9 DEF OneToOne
    <3>2. OnBalance(s.lots[i], e) => RowAt(op.usedCost, i) = 0 /\ s.lots[i].currency = e[2]
      <4> SUFFICES ASSUME OnBalance(s.lots[i], e) PROVE RowAt(op.usedCost, i) = 0
        BY DEF OnBalance
      <4>1. ~(op.bank[e] < 0) /\ e = BalanceOf(s.lots[i])
        BY <1>5, <1>3, <1>9, SMT
      <4> QED BY <1>3, <1>4, <4>1
    <3>3. f[i] \in Int /\ f[i] = IF OnBalance(s.lots[i], e)
                                  THEN (IF s.lots[i].openedBy = k THEN s.lots[i].costInitial ELSE 0)
                                       - RowAt(op.usedCost, i)
                                  ELSE 0
      BY <1>6
    <3>4. g[i] = IF s.lots[i].openedBy = k /\ s.lots[i].currency = e[2]
                 THEN s.lots[i].costInitial ELSE 0
      BY <1>1 DEF OpenedBy
    <3>5. s.lots[i].costInitial \in Nat
      BY <1>5
    <3> HIDE DEF g
    <3> QED BY <3>1, <3>2, <3>3, <3>4, <3>5, SMT
  <2> HIDE DEF g
  <2>4. SumTo(f, m) = SumTo(g, m) /\ SumTo(f, m) \in Int
    BY <1>1, <2>3, SumToSame, SumToInt
  <2> QED BY <2>2, <2>4, SMT
<1>10. CASE op.bank[e] < 0
  <2>1. e[2] # OwnerBase[op.owner] /\ op.bank[e] # 0 /\ ~(op.bank[e] > 0)
    BY <1>3, <1>10, SMT DEF IsBase
  <2> DEFINE g == [i \in DOMAIN s.lots |->
                     IF s.lots[i].currency = e[2] THEN UsedNow(s, op.usedCost)[i] ELSE 0]
             o == [i \in 1..m |-> 0]
  <2>2. ReversalCost(s, k)[e] = SumTo(g, m)
    BY <2>1 DEF ReversalCost, op, m
  <2>3. ASSUME NEW i \in 1..m PROVE g[i] \in Int /\ f[i] = o[i] - g[i] /\ o[i] = 0
    <3>1. s.lots[i].openedBy = k => ~OnBalance(s.lots[i], e)
      BY <1>3, <1>5, <2>1
    <3>2. ~OnBalance(s.lots[i], e) => RowAt(op.usedCost, i) = 0
      BY <1>3, <1>4, <1>5, <1>10 DEF OneToOne
    <3>3. f[i] \in Int /\ f[i] = IF OnBalance(s.lots[i], e)
                                  THEN (IF s.lots[i].openedBy = k THEN s.lots[i].costInitial ELSE 0)
                                       - RowAt(op.usedCost, i)
                                  ELSE 0
      BY <1>6
    <3>4. g[i] = IF s.lots[i].currency = e[2] THEN RowAt(op.usedCost, i) ELSE 0
      BY <1>1, <1>2, UsedNowRow DEF RowAt
    <3>5. RowAt(op.usedCost, i) \in Nat /\ (OnBalance(s.lots[i], e) => s.lots[i].currency = e[2])
      BY <1>4 DEF OnBalance
    <3>6. o[i] = 0
      OBVIOUS
    <3> HIDE DEF g, o
    <3> QED BY <3>1, <3>2, <3>3, <3>4, <3>5, <3>6, SMT
  <2>4. \A i \in 1..m : o[i] = 0
    OBVIOUS
  <2> HIDE DEF g, o
  <2>5. m \in Nat /\ (\A i \in 1..m : o[i] \in Int) /\ (\A i \in 1..m : g[i] \in Int)
        /\ (\A i \in 1..m : f[i] = o[i] - g[i])
    BY <1>1, <2>3, <2>4, SMT
  <2>6. SumTo(f, m) = SumTo(o, m) - SumTo(g, m)
    BY <2>5, SumToMinus
  <2>7. SumTo(o, m) = 0 /\ SumTo(g, m) \in Int
    BY <2>4, <2>5, SumToZeros, SumToInt
  <2> QED BY <2>2, <2>6, <2>7, SMT
<1>11. op.bank[e] = 0 \/ op.bank[e] > 0 \/ op.bank[e] < 0
  BY <1>3, SMT
<1> QED BY <1>8, <1>9, <1>10, <1>11

\* what it takes to undo the last operation is what it cost
UndoneAt(t, costDelta) ==
    \A b \in Balance : ReversalCost(t, Len(t.operations))[b] = -costDelta[b]

LEMMA MovesCost ==
    ASSUME NEW s, NEW t, NEW op, NEW costDelta, NEW opened,
           NEW b, NEW x, NEW xc, NEW d, NEW y, NEW yc,
           Step(s, t, op, costDelta, opened), Moves(s, op, costDelta, opened, b, x, xc, d, y, yc),
           LotsInOrder(s), NEW e \in Balance, ~IsBase(e)
    PROVE  SumTo(CostFlowOn(t, Len(s.operations) + 1, e), Len(t.lots)) = costDelta[e]
<1> DEFINE m == Len(s.lots)
           n == Len(s.operations)
           p == Len(opened)
           w == CostFlowOn(t, n + 1, e)
           v == [i \in 1..m |-> 0]
           u == TakenOn(s, op.usedCost, e)
           z == IF e = d THEN yc ELSE 0
<1>1. /\ s \in Ledger /\ t \in Ledger /\ Recorded(s, t, op) /\ LotsKept(s, t, p)
      /\ op.usedCost \in Seq(Int) /\ DOMAIN op.usedCost = 1..m
      /\ \/ p = 0 /\ (y = 0 \/ IsBase(d))
         \/ /\ p = 1 /\ y > 0 /\ ~IsBase(d) /\ d \in Balance
            /\ t.lots[m + 1] \in Lot /\ BalanceOf(t.lots[m + 1]) = d
            /\ t.lots[m + 1].costInitial = yc /\ t.lots[m + 1].openedBy = n + 1
  BY MovesRows
<1>2. /\ n \in Nat /\ DOMAIN s.operations = 1..n /\ t.operations[n + 1] = op
  BY <1>1, RecordedRows
<1>3. /\ m \in Nat /\ p \in {0, 1} /\ DOMAIN s.lots = 1..m /\ DOMAIN t.lots = 1..(m + p)
      /\ Len(t.lots) = m + p
      /\ \A i \in 1..m : Kept(s.lots[i], t.lots[i]) /\ s.lots[i] \in Lot
  BY <1>1, LedgerFields DEF LotsKept
<1>4. /\ xc \in Int /\ yc \in Int /\ (y = 0 => yc = 0)
      /\ costDelta[e] = (IF e = b THEN -xc ELSE 0) + (IF e = d THEN yc ELSE 0)
      /\ SumTo(TakenOn(s, op.usedCost, e), m) = IF e = b THEN xc ELSE 0
  BY <1>3 DEF Moves, Taking, Giving, Between
<1> HIDE DEF m, n, p
<1>5. \A i \in 1..m : t.lots[i].openedBy # n + 1
  <2>1. \A i \in 1..m : s.lots[i].openedBy \in 1..n
    BY <1>2, <1>3 DEF LotsInOrder
  <2>2. n + 1 \notin 1..n
    BY <1>2, SMT
  <2> QED BY <1>3, <2>1, <2>2 DEF Kept
<1>6. 1..m \subseteq 1..(m + p) /\ (p = 1 => m + 1 \in 1..(m + p)) /\ m + 1 \notin 1..m
  <2>1. m \in Nat /\ p \in {0, 1}
    BY <1>3
  <2> QED BY <2>1, SMT
<1>7. ASSUME NEW i \in 1..m PROVE v[i] = 0 /\ v[i] \in Int /\ u[i] \in Int /\ w[i] = v[i] - u[i] /\ w[i] \in Int
  <2>1. OnBalance(t.lots[i], e) <=> OnBalance(s.lots[i], e)
    BY <1>3, KeptBalance
  <2>2. u[i] \in Int /\ u[i] = IF OnBalance(s.lots[i], e) THEN RowAt(op.usedCost, i) ELSE 0
    BY <1>1, <1>3, TakenRow
  <2>3. w[i] = IF OnBalance(t.lots[i], e)
               THEN (IF t.lots[i].openedBy = n + 1 THEN t.lots[i].costInitial ELSE 0)
                    - RowAt(op.usedCost, i)
               ELSE 0
    BY <1>2, <1>3, <1>6 DEF CostFlowOn
  <2>4. t.lots[i].openedBy # n + 1 /\ v[i] = 0
    BY <1>5
  <2> HIDE DEF u, v, w
  <2> QED BY <2>1, <2>2, <2>3, <2>4, SMT
<1>8. (p = 0 /\ z = 0) \/ (p = 1 /\ w[m + 1] = z)
  <2>1. CASE p = 0 /\ (y = 0 \/ IsBase(d))
    <3>1. e = d => yc = 0
      BY <1>4, <2>1
    <3> QED BY <2>1, <3>1
  <2>2. CASE /\ p = 1 /\ t.lots[m + 1] \in Lot /\ BalanceOf(t.lots[m + 1]) = d
             /\ t.lots[m + 1].costInitial = yc /\ t.lots[m + 1].openedBy = n + 1
    <3>1. OnBalance(t.lots[m + 1], e) <=> e = d
      BY <2>2, LotBalance
    <3>2. RowAt(op.usedCost, m + 1) = 0
      BY <1>1, <1>6 DEF RowAt, m
    <3>3. w[m + 1] = IF OnBalance(t.lots[m + 1], e) THEN yc - 0 ELSE 0
      BY <1>2, <1>3, <1>6, <2>2, <3>2 DEF CostFlowOn
    <3>4. w[m + 1] = z
      <4> HIDE DEF w
      <4> QED BY <1>4, <3>1, <3>3, SMT
    <3> QED BY <2>2, <3>4
  <2> QED BY <1>1, <2>1, <2>2 DEF m, n
<1>9. SumTo(u, m) = IF e = b THEN xc ELSE 0
  BY <1>4
<1> HIDE DEF u, v, w
<1>10. m \in Nat /\ (\A i \in 1..m : v[i] \in Int) /\ (\A i \in 1..m : u[i] \in Int)
       /\ (\A i \in 1..m : w[i] = v[i] - u[i]) /\ (\A i \in 1..m : w[i] \in Int)
       /\ (\A i \in 1..m : v[i] = 0)
  BY <1>3, <1>7
<1>11. SumTo(w, m) = SumTo(v, m) - SumTo(u, m)
  BY <1>10, SumToMinus
<1>12. SumTo(v, m) = 0
  BY <1>10, SumToZeros
<1>13. SumTo(w, m + p) = SumTo(w, m) + z
  <2> HIDE DEF z
  <2> QED BY <1>8, <1>10, SumToAdded
<1>14. SumTo(w, m + p) = costDelta[e]
  BY <1>4, <1>9, <1>11, <1>12, <1>13, SMT
<1> QED BY <1>3, <1>14 DEF w, n

LEMMA MovesUndone ==
    ASSUME NEW s, NEW t, NEW op, NEW costDelta, NEW opened,
           NEW b, NEW x, NEW xc, NEW d, NEW y, NEW yc,
           Step(s, t, op, costDelta, opened), Moves(s, op, costDelta, opened, b, x, xc, d, y, yc),
           LotsInOrder(s), TicksPerCent = 1
    PROVE  UndoneAt(t, costDelta)
<1> DEFINE n == Len(s.operations)
           k == n + 1
<1>1. /\ s \in Ledger /\ t \in Ledger /\ Recorded(s, t, op)
  BY MovesRows
<1>2. /\ n \in Nat /\ DOMAIN t.operations = 1..(n + 1) /\ t.operations[k] = op
      /\ Len(t.operations) = k
  BY <1>1, RecordedRows
<1>3. MovesLots(t, k) /\ LedgerInv(t) /\ op.type # "reversal"
  BY MovesNew DEF Step, LotsInv
<1>4. k \in DOMAIN t.operations
  BY <1>2, SMT
<1> SUFFICES ASSUME NEW e \in Balance PROVE ReversalCost(t, k)[e] = -costDelta[e]
  BY <1>2 DEF UndoneAt
<1>5. CASE ~IsBase(e)
  <2>1. SumTo(CostFlowOn(t, k, e), Len(t.lots)) = costDelta[e]
    BY <1>5, MovesCost
  <2>2. SumTo(CostFlowOn(t, k, e), Len(t.lots)) = -ReversalCost(t, k)[e]
    BY <1>2, <1>3, <1>4, <1>5, CostGoesBack
  <2>3. ReversalCost(t, k)[e] \in Int
    BY <1>2, <1>3, <1>4, ReversalCostInt
  <2> HIDE DEF k
  <2> QED BY <2>1, <2>2, <2>3, SMT
<1>6. CASE IsBase(e)
  <2>1. op.bank[e] \in Int
    BY <1>2, <1>4, LedgerFields, OperationFields, <1>1
  <2>2. op.bank[e] # 0 => BaseOf(e[1]) = OwnerBase[op.owner]
    BY <1>2, <1>3 DEF MovesLots
  <2>3. ReversalCost(t, k)[e] = IF op.bank[e] = 0 THEN 0 ELSE -op.bank[e]
    <3>1. InBase(op.bank[e]) = op.bank[e]
      BY <2>1, InCents
    <3> HIDE DEF k
    <3> QED BY <1>2, <1>6, <2>2, <3>1 DEF ReversalCost, IsBase
  <2>4. costDelta[e] = op.bank[e]
    <3>1. /\ op.bank[e] = (IF e = b THEN -x ELSE 0) + (IF e = d THEN y ELSE 0)
          /\ costDelta[e] = (IF e = b THEN -xc ELSE 0) + (IF e = d THEN yc ELSE 0)
          /\ x \in Nat /\ y \in Nat /\ (x = 0 => xc = 0) /\ (y = 0 => yc = 0)
          /\ x > 0 /\ IsBase(b) => xc = x
          /\ y > 0 /\ IsBase(d) => yc = y
      BY DEF Moves, Taking, Giving, Between
    <3>2. /\ e = b => x = xc
          /\ e = d => y = yc
      BY <1>6, <3>1, SMT
    <3> QED BY <3>1, <3>2
  <2> HIDE DEF k
  <2> QED BY <2>1, <2>3, <2>4, SMT
<1> QED BY <1>5, <1>6

\* What it takes to undo an operation does not change.
LEMMA UndoThen ==
    ASSUME NEW s, NEW t, LedgerInv(s), LedgerInv(t), NEW op, Recorded(s, t, op), NEW p,
           LotsKept(s, t, p), LotsInOrder(s),
           p = 1 => t.lots[Len(s.lots) + 1].openedBy = Len(s.operations) + 1,
           NEW k \in DOMAIN s.operations, s.operations[k].type # "reversal", MovesLots(s, k),
           NEW e \in Balance
    PROVE  ReversalCost(t, k)[e] = ReversalCost(s, k)[e]
<1> DEFINE n == Len(s.operations)
           m == Len(s.lots)
           old == s.operations[k]
<1>1. s \in Ledger /\ t \in Ledger /\ MovesLots(t, k)
  <2>1. s \in Ledger /\ t \in Ledger
    BY DEF LedgerInv
  <2> QED BY <2>1, MovesThen
<1>2. /\ n \in Nat /\ k \in 1..n /\ t.operations[k] = old /\ k \in DOMAIN t.operations
  <2>1. /\ n \in Nat /\ k \in 1..n /\ t.operations[k] = old /\ DOMAIN t.operations = 1..(n + 1)
    BY <1>1, RecordedRows
  <2> QED BY <2>1, SMT
<1>3. CASE IsBase(e)
  <2>1. old.bank[e] # 0 => BaseOf(e[1]) = OwnerBase[old.owner]
    BY DEF MovesLots
  <2> QED BY <1>2, <1>3, <2>1 DEF ReversalCost, IsBase
<1>4. CASE ~IsBase(e)
  <2> DEFINE v == CostFlowOn(s, k, e)
             w == CostFlowOn(t, k, e)
  <2>1. /\ m \in Nat /\ p \in {0, 1} /\ DOMAIN s.lots = 1..m /\ DOMAIN t.lots = 1..(m + p)
        /\ Len(t.lots) = m + p
        /\ \A i \in 1..m : Kept(s.lots[i], t.lots[i]) /\ s.lots[i] \in Lot
        /\ p = 1 => t.lots[m + 1].openedBy = n + 1
    BY <1>1, LedgerFields DEF LotsKept
  <2>2. \A i : i \notin 1..m => RowAt(old.usedCost, i) = 0
    BY <2>1 DEF LotsInOrder, RowAt
  <2>3. \A i \in 1..m : RowAt(old.usedCost, i) \in Int /\ s.lots[i].costInitial \in Int
    <3>1. old.usedCost \in Seq(Int)
      BY <1>1, LedgerFields, OperationFields
    <3>2. \A i \in 1..m : s.lots[i].costInitial \in Int
      BY <2>1, LotFields, SMT
    <3> QED BY <3>1, <3>2, RowAtInt
  <2>4. p = 1 => m + 1 \in 1..(m + p) /\ m + 1 \notin 1..m /\ n + 1 # k
    BY <1>2, <2>1, SMT
  <2>5. ASSUME NEW i \in 1..m PROVE v[i] \in Int /\ w[i] = v[i]
    <3>1. i \in 1..(m + p)
      BY <2>1, SMT
    <3>2. /\ OnBalance(t.lots[i], e) <=> OnBalance(s.lots[i], e)
          /\ t.lots[i].openedBy = s.lots[i].openedBy /\ t.lots[i].costInitial = s.lots[i].costInitial
      BY <2>1, KeptBalance DEF Kept
    <3>3. v[i] = IF OnBalance(s.lots[i], e)
                 THEN (IF s.lots[i].openedBy = k THEN s.lots[i].costInitial ELSE 0)
                      - RowAt(old.usedCost, i)
                 ELSE 0
      BY <2>1 DEF CostFlowOn
    <3>4. w[i] = v[i]
      BY <1>2, <2>1, <3>1, <3>2, <3>3 DEF CostFlowOn
    <3>5. v[i] \in Int
      <4> HIDE DEF old, v
      <4> QED BY <2>3, <3>3, SMT
    <3> QED BY <3>4, <3>5
  <2>6. p = 1 => w[m + 1] = 0
    <3> SUFFICES ASSUME p = 1 PROVE w[m + 1] = 0
      OBVIOUS
    <3>1. w[m + 1] = IF OnBalance(t.lots[m + 1], e)
                     THEN (IF t.lots[m + 1].openedBy = k THEN t.lots[m + 1].costInitial ELSE 0)
                          - RowAt(old.usedCost, m + 1)
                     ELSE 0
      BY <1>2, <2>1, <2>4 DEF CostFlowOn
    <3>2. RowAt(old.usedCost, m + 1) = 0 /\ t.lots[m + 1].openedBy # k
      BY <2>1, <2>2, <2>4
    <3> HIDE DEF w, old
    <3> QED BY <3>1, <3>2, SMT
  <2> HIDE DEF v, w, m
  <2>7. /\ m \in Nat /\ p \in {0, 1}
        /\ \A i \in 1..m : v[i] \in Int /\ w[i] = v[i]
        /\ p = 1 => w[m + 1] = 0
    BY <2>1, <2>5, <2>6
  <2>8. SumTo(w, m + p) = SumTo(v, m)
    BY <2>7, SumToEmptyRow
  <2>9. SumTo(v, m) = -ReversalCost(s, k)[e] /\ ReversalCost(s, k)[e] \in Int
    <3>1. ReversalCost(s, k)[e] \in Int
      BY ReversalCostInt
    <3> QED BY <1>4, <3>1, CostGoesBack DEF v, m
  <2>10. SumTo(w, m + p) = -ReversalCost(t, k)[e] /\ ReversalCost(t, k)[e] \in Int
    <3>1. ReversalCost(t, k)[e] \in Int
      BY <1>2, ReversalCostInt
    <3> QED BY <1>1, <1>2, <1>4, <2>1, <3>1, CostGoesBack DEF w
  <2> QED BY <2>8, <2>9, <2>10, SMT
<1> QED BY <1>3, <1>4

LEMMA ReversalHold ==
    ASSUME NEW s, NEW t, NEW k, TakenBack(s, t, k), LotsInOrder(s), LotsLeft(s),
           MovesLots(s, k), LotsHold(s), BaseCosts(s)
    PROVE  LotsHold(t) /\ BaseCosts(t)
<1> DEFINE m == Len(s.lots)
           op == s.operations[k]
           back == ReversalOf(s, k)
<1>1. /\ s \in Ledger /\ t \in Ledger /\ Recorded(s, t, back)
      /\ \A b \in Balance : back.bank[b] = -op.bank[b]
      /\ LotsKept(s, t, 0)
      /\ \A i \in 1..m :
            IF s.lots[i].openedBy = k
            THEN t.lots[i].remaining = 0 /\ t.lots[i].cost = 0
            ELSE /\ t.lots[i].remaining = s.lots[i].remaining + RowAt(op.used, i)
                 /\ t.lots[i].cost = s.lots[i].cost + RowAt(op.usedCost, i)
      /\ \A b \in Balance : t.cost[b] = s.cost[b] + ReversalCost(s, k)[b]
  BY TakenBackRows
<1>2. /\ LedgerInv(s) /\ k \in DOMAIN s.operations /\ op.type # "reversal"
      /\ \A i \in OpenedBy(s, k) : Untouched(s.lots[i])
  BY DEF TakenBack
<1>3. op \in Operation /\ op.bank \in [Balance -> Int] /\ op.used \in Seq(Int)
      /\ op.usedCost \in Seq(Int)
  BY <1>1, <1>2, LedgerFields, OperationFields
<1>4. /\ m \in Nat /\ DOMAIN s.lots = 1..m /\ DOMAIN t.lots = 1..m /\ Len(t.lots) = m
      /\ \A i \in 1..m : Kept(s.lots[i], t.lots[i]) /\ s.lots[i] \in Lot
  <2>1. m \in Nat /\ DOMAIN s.lots = 1..m /\ DOMAIN t.lots = 1..(m + 0) /\ Len(t.lots) = m + 0
        /\ \A i \in 1..m : Kept(s.lots[i], t.lots[i])
    BY <1>1 DEF LotsKept
  <2>2. m + 0 = m
    BY <2>1, SMT
  <2> QED BY <1>1, <2>1, <2>2, LedgerFields
<1>5. /\ OneToOne(op)
      /\ \A b \in Balance : op.bank[b] # 0 => BaseOf(b[1]) = OwnerBase[op.owner]
      /\ \A b \in Balance : ~IsBase(b) => op.bank[b] = SumTo(FlowOn(s, k, b), m)
      /\ \A i \in 1..m : /\ s.lots[i].openedBy = k => op.bank[BalanceOf(s.lots[i])] > 0
                         /\ RowAt(op.used, i) # 0 => op.bank[BalanceOf(s.lots[i])] < 0
  BY <1>4 DEF MovesLots
<1>6. \A i : /\ RowAt(op.used, i) \in Nat /\ RowAt(op.usedCost, i) \in Nat
             /\ RowAt(op.used, i) = 0 => RowAt(op.usedCost, i) = 0
  BY <1>2, UsesNatural
<1>7. \A i \in 1..m : /\ s.lots[i].remaining \in Nat /\ s.lots[i].cost \in Nat
                      /\ s.lots[i].initial \in Nat /\ s.lots[i].costInitial \in Nat
                      /\ BalanceOf(s.lots[i]) \in Balance
                      /\ \A b \in Balance : OnBalance(s.lots[i], b) <=> b = BalanceOf(s.lots[i])
  <2> SUFFICES ASSUME NEW i \in 1..m
               PROVE  /\ s.lots[i].remaining \in Nat /\ s.lots[i].cost \in Nat
                      /\ s.lots[i].initial \in Nat /\ s.lots[i].costInitial \in Nat
                      /\ BalanceOf(s.lots[i]) \in Balance
                      /\ \A b \in Balance : OnBalance(s.lots[i], b) <=> b = BalanceOf(s.lots[i])
    OBVIOUS
  <2> DEFINE lot == s.lots[i]
  <2>1. lot \in Lot
    BY <1>4
  <2> HIDE DEF lot
  <2>2. lot.remaining \in Nat /\ lot.cost \in Nat /\ lot.initial \in Nat /\ lot.costInitial \in Nat
    BY <2>1, LotFields
  <2>3. /\ BalanceOf(lot) \in Balance
        /\ \A b \in Balance : OnBalance(lot, b) <=> b = BalanceOf(lot)
    BY <2>1, LotBalance
  <2> QED BY <2>2, <2>3 DEF lot
\* a lot the operation opened holds all it was opened with
<1>8. \A i \in 1..m : s.lots[i].openedBy = k =>
         /\ s.lots[i].remaining = s.lots[i].initial /\ s.lots[i].cost = s.lots[i].costInitial
         /\ RowAt(op.used, i) = 0 /\ RowAt(op.usedCost, i) = 0
  <2> SUFFICES ASSUME NEW i \in 1..m, s.lots[i].openedBy = k
               PROVE  /\ s.lots[i].remaining = s.lots[i].initial
                      /\ s.lots[i].cost = s.lots[i].costInitial
                      /\ RowAt(op.used, i) = 0 /\ RowAt(op.usedCost, i) = 0
    OBVIOUS
  <2>1. i \in OpenedBy(s, k)
    BY <1>4 DEF OpenedBy
  <2>2. op.bank[BalanceOf(s.lots[i])] > 0 /\ op.bank[BalanceOf(s.lots[i])] \in Int
    BY <1>3, <1>5, <1>7
  <2>3. ~(op.bank[BalanceOf(s.lots[i])] < 0)
    BY <2>2, SMT
  <2> QED BY <1>2, <1>5, <1>6, <2>1, <2>3 DEF Untouched
<1>9. \A e \in Balance : /\ s.amount[e] \in Int /\ s.cost[e] \in Int /\ op.bank[e] \in Int
                         /\ t.amount[e] = s.amount[e] - op.bank[e]
  <2> SUFFICES ASSUME NEW e \in Balance
               PROVE  /\ s.amount[e] \in Int /\ s.cost[e] \in Int /\ op.bank[e] \in Int
                      /\ t.amount[e] = s.amount[e] - op.bank[e]
    OBVIOUS
  <2>1. s.amount[e] \in Int /\ s.cost[e] \in Int /\ op.bank[e] \in Int
    BY <1>1, <1>3, LedgerFields
  <2>2. t.amount[e] = s.amount[e] + (-op.bank[e])
    <3>1. t.amount[e] = s.amount[e] + back.bank[e]
      BY <1>1, RecordedRows
    <3> QED BY <1>1, <3>1
  <2> DEFINE y == op.bank[e]
             x == s.amount[e]
  <2> HIDE DEF x, y
  <2>3. x + (-y) = x - y
    BY <2>1, SMT DEF x, y
  <2> QED BY <2>1, <2>2, <2>3 DEF x, y
<1> HIDE DEF m, op, back
<1>10. ASSUME NEW e \in Balance, ~IsBase(e) PROVE t.amount[e] = SumTo(Remaining(t.lots, e), m)
  <2> DEFINE v == Remaining(s.lots, e)
             w == Remaining(t.lots, e)
             f == FlowOn(s, k, e)
  <2>1. ASSUME NEW i \in 1..m PROVE v[i] \in Int /\ f[i] \in Int /\ w[i] = v[i] - f[i]
    <3>1. OnBalance(t.lots[i], e) <=> OnBalance(s.lots[i], e)
      BY <1>4, KeptBalance
    <3>2. v[i] = IF OnBalance(s.lots[i], e) THEN s.lots[i].remaining ELSE 0
      BY <1>4 DEF Remaining
    <3>3. w[i] = IF OnBalance(t.lots[i], e) THEN t.lots[i].remaining ELSE 0
      BY <1>4 DEF Remaining
    <3>4. f[i] = IF OnBalance(s.lots[i], e)
                 THEN (IF s.lots[i].openedBy = k THEN s.lots[i].initial ELSE 0) - RowAt(op.used, i)
                 ELSE 0
      BY <1>4 DEF FlowOn, op
    <3>5. /\ s.lots[i].remaining \in Nat /\ s.lots[i].initial \in Nat /\ RowAt(op.used, i) \in Nat
          /\ s.lots[i].openedBy = k => s.lots[i].remaining = s.lots[i].initial /\ RowAt(op.used, i) = 0
          /\ IF s.lots[i].openedBy = k THEN t.lots[i].remaining = 0
             ELSE t.lots[i].remaining = s.lots[i].remaining + RowAt(op.used, i)
      BY <1>1, <1>6, <1>7, <1>8 DEF m, op
    <3> HIDE DEF v, w, f
    <3> QED BY <3>1, <3>2, <3>3, <3>4, <3>5, SMT
  <2> HIDE DEF v, w, f
  <2>2. m \in Nat /\ (\A i \in 1..m : v[i] \in Int) /\ (\A i \in 1..m : f[i] \in Int)
        /\ (\A i \in 1..m : w[i] = v[i] - f[i])
    BY <1>4, <2>1
  <2>3. SumTo(w, m) = SumTo(v, m) - SumTo(f, m)
    BY <2>2, SumToMinus
  <2>4. SumTo(v, m) = s.amount[e] /\ SumTo(f, m) = op.bank[e]
    BY <1>5, <1>10 DEF LotsHold, m, v, f
  <2> QED BY <1>9, <2>3, <2>4 DEF w
\* the cost goes the way of the money
<1>11. MovesLots(s, k)
  OBVIOUS
<1>12. ASSUME NEW e \in Balance, ~IsBase(e) PROVE t.cost[e] = SumTo(CostsOn(t, e), m)
  <2> DEFINE v == CostsOn(s, e)
             w == CostsOn(t, e)
             f == CostFlowOn(s, k, e)
  <2>1. ASSUME NEW i \in 1..m PROVE v[i] \in Int /\ f[i] \in Int /\ w[i] = v[i] - f[i]
    <3>1. OnBalance(t.lots[i], e) <=> OnBalance(s.lots[i], e)
      BY <1>4, KeptBalance
    <3>2. v[i] = IF OnBalance(s.lots[i], e) THEN s.lots[i].cost ELSE 0
      BY <1>4 DEF CostsOn
    <3>3. w[i] = IF OnBalance(t.lots[i], e) THEN t.lots[i].cost ELSE 0
      BY <1>4 DEF CostsOn
    <3>4. f[i] = IF OnBalance(s.lots[i], e)
                 THEN (IF s.lots[i].openedBy = k THEN s.lots[i].costInitial ELSE 0)
                      - RowAt(op.usedCost, i)
                 ELSE 0
      BY <1>4 DEF CostFlowOn, op
    <3>5. /\ s.lots[i].cost \in Nat /\ s.lots[i].costInitial \in Nat /\ RowAt(op.usedCost, i) \in Nat
          /\ s.lots[i].openedBy = k => s.lots[i].cost = s.lots[i].costInitial /\ RowAt(op.usedCost, i) = 0
          /\ IF s.lots[i].openedBy = k THEN t.lots[i].cost = 0
             ELSE t.lots[i].cost = s.lots[i].cost + RowAt(op.usedCost, i)
      BY <1>1, <1>6, <1>7, <1>8 DEF m, op
    <3> HIDE DEF v, w, f
    <3> QED BY <3>1, <3>2, <3>3, <3>4, <3>5, SMT
  <2>2. SumTo(f, m) = -ReversalCost(s, k)[e]
    BY <1>2, <1>11, <1>12, CostGoesBack DEF m, op
  <2> HIDE DEF v, w, f
  <2>3. m \in Nat /\ (\A i \in 1..m : v[i] \in Int) /\ (\A i \in 1..m : f[i] \in Int)
        /\ (\A i \in 1..m : w[i] = v[i] - f[i])
    BY <1>4, <2>1
  <2>4. SumTo(w, m) = SumTo(v, m) - SumTo(f, m)
    BY <2>3, SumToMinus
  <2>5. SumTo(v, m) = s.cost[e] /\ s.cost[e] \in Int
    BY <1>9, <1>12 DEF LotsHold, m, v
  <2>6. ReversalCost(s, k)[e] \in Int
    BY <1>2, ReversalCostInt
  <2>7. t.cost[e] = s.cost[e] + ReversalCost(s, k)[e]
    BY <1>1
  <2>8. t.cost[e] = SumTo(w, m)
    BY <2>2, <2>4, <2>5, <2>6, <2>7, SMT
  <2> QED BY <2>8 DEF w
<1>13. LotsHold(t)
  BY <1>4, <1>10, <1>12 DEF LotsHold
<1>14. BaseCosts(t)
  <2> SUFFICES ASSUME TicksPerCent = 1, NEW e \in Balance, IsBase(e)
               PROVE  t.cost[e] = t.amount[e]
    BY DEF BaseCosts
  <2>1. s.cost[e] = s.amount[e]
    BY DEF BaseCosts
  <2>2. ReversalCost(s, k)[e] = -op.bank[e]
    <3>1. CASE op.bank[e] = 0
      <4>1. ReversalCost(s, k)[e] = 0
        BY <3>1 DEF ReversalCost, op
      <4> DEFINE x == op.bank[e]
                 y == ReversalCost(s, k)[e]
      <4>2. x = 0 /\ y = 0
        BY <3>1, <4>1
      <4> HIDE DEF x, y
      <4>3. y = -x
        BY <4>2, NoneTaken
      <4> QED BY <4>3 DEF x, y
    <3>2. CASE op.bank[e] # 0
      <4>1. ReversalCost(s, k)[e] = -InBase(op.bank[e])
        BY <1>5, <3>2 DEF ReversalCost, op, IsBase
      <4> QED BY <1>9, <4>1, InCents
    <3> QED BY <3>1, <3>2
  <2>3. /\ t.cost[e] = s.cost[e] + (-op.bank[e]) /\ t.amount[e] = s.amount[e] - op.bank[e]
        /\ s.amount[e] \in Int /\ op.bank[e] \in Int
    BY <1>1, <1>9, <2>2
  <2> QED BY <2>1, <2>3, SMT
<1> QED BY <1>13, <1>14

LEMMA ReversalKeeps ==
    ASSUME NEW s, NEW t, NEW k, TakenBack(s, t, k), LotsInv(s)
    PROVE  LotsInv(t)
<1> DEFINE n == Len(s.operations)
           back == ReversalOf(s, k)
<1>1. LotsInOrder(s) /\ LotsLeft(s) /\ LotsHold(s) /\ BaseCosts(s) /\ MovesLots(s, k)
      /\ \A j \in DOMAIN s.operations : s.operations[j].type # "reversal" => MovesLots(s, j)
  BY DEF LotsInv, TakenBack
<1>2. /\ s \in Ledger /\ t \in Ledger /\ Recorded(s, t, back) /\ back.type = "reversal"
      /\ DOMAIN back.used = DOMAIN s.lots /\ DOMAIN back.usedCost = DOMAIN s.lots
      /\ LotsKept(s, t, 0)
  <2>1. /\ s \in Ledger /\ t \in Ledger /\ Recorded(s, t, back) /\ back.type = "reversal"
        /\ DOMAIN back.used = 1..Len(s.lots) /\ DOMAIN back.usedCost = 1..Len(s.lots)
        /\ LotsKept(s, t, 0)
    BY TakenBackRows
  <2> QED BY <2>1, LedgerFields
<1>3. /\ n \in Nat /\ DOMAIN s.operations = 1..n /\ DOMAIN t.operations = 1..(n + 1)
      /\ \A j \in 1..n : t.operations[j] = s.operations[j]
      /\ t.operations[n + 1] = back
  BY <1>2, RecordedRows
<1> DEFINE p == 0
<1>4. /\ s \in Ledger /\ t \in Ledger /\ Recorded(s, t, back) /\ LotsKept(s, t, p)
      /\ LotsInOrder(s)
      /\ p = 1 => t.lots[Len(s.lots) + 1].openedBy = Len(s.operations) + 1
      /\ DOMAIN back.used = DOMAIN s.lots /\ DOMAIN back.usedCost = DOMAIN s.lots
  <2>1. ~(p = 1)
    BY SMT
  <2> QED BY <1>1, <1>2, <2>1
<1> HIDE DEF p, back
<1>5. LotsInOrder(t)
  BY <1>4, OrderThen
<1>6. LotsLeft(t)
  BY <1>1, ReversalLeft
<1>7. ASSUME NEW j \in DOMAIN t.operations, t.operations[j].type # "reversal"
      PROVE  MovesLots(t, j)
  <2>1. j \in 1..n
    <3>1. j \in 1..n \/ j = n + 1
      BY <1>3, SMT
    <3> QED BY <1>2, <1>3, <1>7, <3>1
  <2>2. MovesLots(s, j)
    BY <1>1, <1>3, <1>7, <2>1
  <2> QED BY <1>3, <1>4, <2>1, <2>2, MovesThen
<1>8. LotsHold(t) /\ BaseCosts(t)
  BY <1>1, ReversalHold
<1> QED BY <1>5, <1>6, <1>7, <1>8 DEF LotsInv

(***************************************************************************)
(* Every action takes and gives in this way.                                *)
(***************************************************************************)
\* Nothing is taken where no lot is used.
LEMMA UnusedRow ==
    ASSUME NEW s, LedgerInv(s)
    PROVE  /\ \A i : RowAt(Unused(s.lots), i) = 0
           /\ \A e : SumTo(TakenOn(s, Unused(s.lots), e), Len(s.lots)) = 0
<1> DEFINE m == Len(s.lots)
           row == Unused(s.lots)
<1>1. m \in Nat /\ DOMAIN s.lots = 1..m
  BY LedgerFields DEF LedgerInv
<1>2. \A i : RowAt(row, i) = 0
  BY DEF Unused, RowAt
<1>3. ASSUME NEW e PROVE SumTo(TakenOn(s, row, e), m) = 0
  <2>1. \A i \in 1..m : TakenOn(s, row, e)[i] = 0
    BY <1>1, <1>2 DEF TakenOn
  <2> QED BY <1>1, <2>1, SumToZeros
<1> QED BY <1>2, <1>3

LEMMA NothingTaken ==
    ASSUME NEW s, LedgerInv(s), NEW op, op.used = Unused(s.lots), op.usedCost = Unused(s.lots),
           NEW b
    PROVE  Taking(s, op, b, 0, 0)
<1>1. /\ \A i : RowAt(op.used, i) = 0
      /\ \A e : SumTo(TakenOn(s, op.used, e), Len(s.lots)) = 0
      /\ \A e : SumTo(TakenOn(s, op.usedCost, e), Len(s.lots)) = 0
  BY UnusedRow
<1>2. 0 \in Nat /\ 0 \in Int /\ ~(0 > 0)
  BY SMT
<1> QED BY <1>1, <1>2 DEF Taking

\* FIFO takes the whole amount from the lots of the balance, at their cost.
LEMMA WithdrawalTakes ==
    ASSUME NEW s, LedgerInv(s), NEW b \in Balance, NEW x \in Nat \ {0}, LotsSuffice(s, b, x),
           NEW op, op.used = Withdrawal(s, b, x).used, op.usedCost = Withdrawal(s, b, x).usedCost,
           BaseOf(b[1]) = OwnerBase[op.owner]
    PROVE  Taking(s, op, b, x, Withdrawal(s, b, x).cost)
<1> DEFINE m == Len(s.lots)
           xc == Withdrawal(s, b, x).cost
<1>1. /\ m \in Nat /\ DOMAIN s.lots = 1..m /\ (\A i \in 1..m : s.lots[i] \in Lot) /\ s \in Ledger
  BY LedgerFields DEF LedgerInv
<1>2. x \in Nat /\ x \in Int /\ x > 0 /\ x # 0
  BY SMT
<1>3. /\ xc \in Int
      /\ op.used \in Seq(Int) /\ op.usedCost \in Seq(Int)
      /\ DOMAIN op.used = 1..m /\ DOMAIN op.usedCost = 1..m
  BY <1>1, <1>2, WithdrawalFits DEF FitsLots
<1>4. CASE IsBase(b)
  <2>1. op.used = Unused(s.lots) /\ op.usedCost = Unused(s.lots) /\ xc = InBase(x)
    BY <1>4 DEF Withdrawal
  <2>2. /\ \A i : RowAt(op.used, i) = 0
        /\ \A e : SumTo(TakenOn(s, op.used, e), m) = 0
        /\ \A e : SumTo(TakenOn(s, op.usedCost, e), m) = 0
    BY <2>1, UnusedRow
  <2>3. TicksPerCent = 1 => xc = x
    BY <1>2, <2>1, InCents
  <2>4. \A e \in Balance : ~IsBase(e) => e # b
    BY <1>4
  <2> QED BY <1>2, <1>3, <2>2, <2>3, <2>4 DEF Taking
<1>5. CASE ~IsBase(b)
  <2> DEFINE taken == Taken(s.lots, b, x)
             price == [i \in DOMAIN s.lots |->
                          IF taken[i] > 0 THEN CostTaken(s.lots, taken)[i] ELSE 0]
             v == Remaining(s.lots, b)
  <2>1. op.used = taken /\ op.usedCost = price /\ xc = SumTo(price, m)
    <3> HIDE DEF taken, price
    <3> QED BY <1>5, SMT DEF Withdrawal, taken, price
  <2>2. ASSUME NEW i \in 1..m
        PROVE  /\ v[i] \in Nat
               /\ taken[i] = Lesser(v[i], Greater(0, x - SumTo(v, i - 1)))
               /\ ~OnBalance(s.lots[i], b) => taken[i] = 0
    <3>1. s.lots[i].remaining \in Nat
      BY <1>1, LotFields
    <3>2. SumTo(v, i - 1) \in Nat
      <4>1. i - 1 \in 0..m
        BY <1>1, SMT
      <4> QED BY <4>1, RemainingNatural
    <3>3. v[i] = IF OnBalance(s.lots[i], b) THEN s.lots[i].remaining ELSE 0
      BY <1>1 DEF Remaining
    <3>4. taken[i] = IF OnBalance(s.lots[i], b)
                     THEN Lesser(s.lots[i].remaining, Greater(0, x - SumTo(v, i - 1)))
                     ELSE 0
      BY <1>1 DEF Taken
    <3> HIDE DEF v, taken
    <3>5. CASE OnBalance(s.lots[i], b)
      BY <3>1, <3>3, <3>4, <3>5
    <3>6. CASE ~OnBalance(s.lots[i], b)
      <4>1. Lesser(0, Greater(0, x - SumTo(v, i - 1))) = 0
        BY <1>2, <3>2, SMT DEF Lesser, Greater
      <4>2. v[i] = 0 /\ taken[i] = 0
        BY <3>3, <3>4, <3>6
      <4> QED BY <4>1, <4>2, SMT
    <3> QED BY <3>5, <3>6
  <2>3. \A i \in 1..m : taken[i] = 0 => price[i] = 0
    <3> HIDE DEF taken
    <3> QED BY <1>1, SMT
  <2>4. SumTo(v, m) >= x
    BY <1>5 DEF LotsSuffice
  <2>5. /\ \A i \in 1..m : RowAt(op.used, i) = taken[i] /\ RowAt(op.usedCost, i) = price[i]
    BY <1>3, <2>1 DEF RowAt
  <2>6. ASSUME NEW i, RowAt(op.used, i) # 0 PROVE i \in 1..m
    BY <1>3, <2>6 DEF RowAt
  <2> HIDE DEF taken, price, v
  <2>7. \A i \in 1..m : RowAt(op.used, i) # 0 => x > 0 /\ OnBalance(s.lots[i], b)
    BY <1>2, <2>2, <2>5
  <2>8. SumTo(taken, m) = x
    <3>1. /\ m \in Nat /\ x \in Nat
          /\ \A k \in 1..m : /\ v[k] \in Nat
                             /\ taken[k] = Lesser(v[k], Greater(0, x - SumTo(v, k - 1)))
      BY <1>1, <1>2, <2>2
    <3>2. SumTo(taken, m) = Lesser(x, SumTo(v, m))
      <4> HIDE DEF m
      <4> QED BY <3>1, SumToParts
    <3>3. SumTo(v, m) \in Nat
      BY <3>1, SumToNatural
    <3> QED BY <1>2, <2>4, <3>2, <3>3, SMT DEF Lesser
  <2>9. ASSUME NEW e \in Balance, ~IsBase(e)
        PROVE  /\ SumTo(TakenOn(s, op.used, e), m) = IF e = b THEN x ELSE 0
               /\ SumTo(TakenOn(s, op.usedCost, e), m) = IF e = b THEN xc ELSE 0
    <3>1. ASSUME NEW i \in 1..m
          PROVE  /\ TakenOn(s, op.used, e)[i] = IF e = b THEN taken[i] ELSE 0
                 /\ TakenOn(s, op.usedCost, e)[i] = IF e = b THEN price[i] ELSE 0
      <4>1. /\ TakenOn(s, op.used, e)[i] = IF OnBalance(s.lots[i], e) THEN taken[i] ELSE 0
            /\ TakenOn(s, op.usedCost, e)[i] = IF OnBalance(s.lots[i], e) THEN price[i] ELSE 0
        BY <1>1, <2>5 DEF TakenOn
      <4>2. OnBalance(s.lots[i], e) /\ e # b => ~OnBalance(s.lots[i], b)
        BY <1>1, LotBalance
      <4>3. ~OnBalance(s.lots[i], b) => taken[i] = 0 /\ price[i] = 0
        BY <2>2, <2>3
      <4> QED BY <4>1, <4>2, <4>3
    <3>2. CASE e = b
      <4>1. SumTo(TakenOn(s, op.used, e), m) = SumTo(taken, m)
        BY <1>1, <3>1, <3>2, SumToSame
      <4>2. SumTo(TakenOn(s, op.usedCost, e), m) = SumTo(price, m)
        BY <1>1, <3>1, <3>2, SumToSame
      <4> QED BY <2>1, <2>8, <3>2, <4>1, <4>2
    <3>3. CASE e # b
      <4>1. SumTo(TakenOn(s, op.used, e), m) = 0
        BY <1>1, <3>1, <3>3, SumToZeros
      <4>2. SumTo(TakenOn(s, op.usedCost, e), m) = 0
        BY <1>1, <3>1, <3>3, SumToZeros
      <4> QED BY <3>3, <4>1, <4>2
    <3> QED BY <3>2, <3>3
  <2> QED BY <1>1, <1>2, <1>3, <1>5, <2>7, <2>9 DEF Taking
<1> QED BY <1>4, <1>5

\* t is s with an operation that is no reversal: its entries, its cost, and
\* what it takes to undo it and the operations before it
Booked(s, t, op, costDelta) ==
    /\ LedgerInv(t) /\ Recorded(s, t, op)
    /\ op.type # "reversal" /\ op.reverses = 0
    /\ costDelta \in [Balance -> Int] /\ t.cost = Plus(s.cost, costDelta)
    /\ \A k \in DOMAIN s.operations : s.operations[k].type # "reversal" =>
          \A e \in Balance : ReversalCost(t, k)[e] = ReversalCost(s, k)[e]
    /\ TicksPerCent = 1 => UndoneAt(t, costDelta)

LEMMA MovesBooked ==
    ASSUME NEW s, NEW t, NEW op, NEW costDelta, NEW opened,
           NEW b, NEW x, NEW xc, NEW d, NEW y, NEW yc,
           Step(s, t, op, costDelta, opened), Moves(s, op, costDelta, opened, b, x, xc, d, y, yc),
           LotsInv(s)
    PROVE  Booked(s, t, op, costDelta)
<1> DEFINE p == Len(opened)
<1>1. /\ LedgerInv(s) /\ LedgerInv(t) /\ op.type # "reversal" /\ op.reverses = 0
      /\ costDelta \in [Balance -> Int] /\ t = Posted(s, op, costDelta, opened)
  BY DEF Step
<1>2. Recorded(s, t, op) /\ t.cost = Plus(s.cost, costDelta)
  <2>1. Recorded(s, t, op)
    BY <1>1, PostedRecords
  <2>2. t.cost = Plus(s.cost, costDelta)
    BY <1>1 DEF Posted
  <2> QED BY <2>1, <2>2
<1>3. LotsKept(s, t, p) /\ (p = 1 => t.lots[Len(s.lots) + 1].openedBy = Len(s.operations) + 1)
  <2>1. LotsKept(s, t, p)
        /\ (p = 0 \/ t.lots[Len(s.lots) + 1].openedBy = Len(s.operations) + 1)
    BY MovesRows
  <2>2. ~(p = 0 /\ p = 1)
    BY SMT
  <2> QED BY <2>1, <2>2
<1> HIDE DEF p
<1>4. LotsInOrder(s) /\ \A k \in DOMAIN s.operations : s.operations[k].type # "reversal" => MovesLots(s, k)
  BY DEF LotsInv
<1>5. ASSUME NEW k \in DOMAIN s.operations, s.operations[k].type # "reversal", NEW e \in Balance
      PROVE  ReversalCost(t, k)[e] = ReversalCost(s, k)[e]
  <2>1. MovesLots(s, k)
    BY <1>4, <1>5
  <2> QED BY <1>1, <1>2, <1>3, <1>4, <1>5, <2>1, UndoThen
<1>6. TicksPerCent = 1 => UndoneAt(t, costDelta)
  BY <1>4, MovesUndone
<1> QED BY <1>1, <1>2, <1>5, <1>6 DEF Booked

\* An operation that withdraws w, and may open a lot.
LEMMA OpLots ==
    ASSUME NEW s, LedgerInv(s), NEW w, FitsLots(s, w),
           NEW type \in OperationType \ {"reversal"}, NEW owner \in Owner,
           NEW bank \in [Balance -> Int],
           NEW from \in [Category -> Int], NEW to \in [Category -> Int],
           NEW costDelta \in [Balance -> Int], NEW opened,
           NEW b, NEW x, NEW xc, NEW d, NEW y, NEW yc,
           Moves(s, Op(type, owner, bank, from, to, w), costDelta, opened, b, x, xc, d, y, yc),
           LotsInv(s), ReversedOnce(s)
    PROVE  /\ LotsInv(Posted(s, Op(type, owner, bank, from, to, w), costDelta, opened))
           /\ ReversedOnce(Posted(s, Op(type, owner, bank, from, to, w), costDelta, opened))
           /\ Booked(s, Posted(s, Op(type, owner, bank, from, to, w), costDelta, opened),
                     Op(type, owner, bank, from, to, w), costDelta)
<1> DEFINE op == Op(type, owner, bank, from, to, w)
           t == Posted(s, op, costDelta, opened)
<1>1. /\ op.type = type /\ op.reverses = 0 /\ op.used = w.used /\ op.usedCost = w.usedCost
      /\ op \in Operation
  BY SMT DEF Op, Operation, FitsLots
<1>2. ASSUME NEW i \in DOMAIN s.lots
      PROVE  s.lots[i].remaining \in Nat /\ s.lots[i].cost \in Nat
             /\ w.used[i] \in Int /\ w.usedCost[i] \in Int
  <2>1. s.lots[i].remaining \in Nat /\ s.lots[i].cost \in Nat
    BY LedgerFields, LotFields DEF LedgerInv
  <2>2. i \in DOMAIN w.used /\ i \in DOMAIN w.usedCost /\ w.used \in Seq(Int) /\ w.usedCost \in Seq(Int)
    BY DEF FitsLots
  <2> QED BY <2>1, <2>2, LenProperties, ElementOfSeq
<1>3. Giving(s, op, opened, d, y, yc)
  BY DEF Moves
<1>4. opened \in Seq(Lot) /\ \A i \in 1..Len(opened) : opened[i].remaining # 0
  <2>1. /\ opened \in Seq(Lot) /\ Len(opened) \in {0, 1}
        /\ Len(opened) = 1 => y > 0 /\ opened[1].remaining = y
    <3> HIDE DEF op
    <3> QED BY <1>3, OpenedLot
  <2>2. y > 0 => y # 0
    <3>1. y \in Nat
      BY <1>3 DEF Giving
    <3> QED BY <3>1, SMT
  <2>3. \A i \in 1..Len(opened) : Len(opened) = 1 /\ i = 1
    <3> DEFINE p == Len(opened)
    <3>1. p \in {0, 1}
      BY <2>1
    <3> HIDE DEF p
    <3>2. \A i \in 1..p : p = 1 /\ i = 1
      BY <3>1, SMT
    <3> QED BY <3>2 DEF p
  <2> QED BY <2>1, <2>2, <2>3
<1>5. LedgerInv(t)
  BY <1>4, OpInv
<1> HIDE DEF op
<1>6. LeavesLots(s, op)
  BY <1>1, <1>2, SMT DEF LeavesLots, FitsLots
<1>7. Step(s, t, op, costDelta, opened)
  <2>1. op.type # "reversal"
    BY <1>1
  <2> QED BY <1>1, <1>5, <1>6, <2>1 DEF Step
<1>8. Moves(s, op, costDelta, opened, b, x, xc, d, y, yc)
  BY DEF op
<1>9. ReversedOnce(t)
  <2>1. Recorded(s, t, op) /\ s \in Ledger /\ t \in Ledger /\ TakesBackOnce(s, op)
    BY <1>1, <1>5, PostedRecords DEF LedgerInv, TakesBackOnce
  <2> HIDE DEF t
  <2> QED BY <2>1, RecordedReversals
<1> HIDE DEF t
<1>10. LotsInv(t)
  BY <1>7, <1>8, <1>9, MovesKeep
<1>11. Booked(s, t, op, costDelta)
  BY <1>7, <1>8, MovesBooked
<1> QED BY <1>9, <1>10, <1>11 DEF t, op

LEMMA TakesOnly ==
    ASSUME NEW b \in Balance, NEW x \in Int
    PROVE  Between(On(b, -x), b, x, b, 0)
<1> SUFFICES ASSUME NEW e \in Balance
             PROVE  On(b, -x)[e] = (IF e = b THEN -x ELSE 0) + (IF e = b THEN 0 ELSE 0)
  BY DEF Between
<1> DEFINE u == -x
<1>1. On(b, u)[e] = IF e = b THEN u ELSE 0
  BY OnValue
<1>2. u \in Int
  BY SMT
<1> HIDE DEF u
<1>3. On(b, u)[e] = (IF e = b THEN u ELSE 0) + (IF e = b THEN 0 ELSE 0)
  BY <1>1, <1>2, SMT
<1> QED BY <1>3 DEF u

LEMMA GivesOnly ==
    ASSUME NEW d, NEW y \in Int, NEW z, z = 0
    PROVE  Between(On(d, y), d, z, d, y)
<1> SUFFICES ASSUME NEW e \in Balance
             PROVE  On(d, y)[e] = (IF e = d THEN -z ELSE 0) + (IF e = d THEN y ELSE 0)
  BY DEF Between
<1> DEFINE u == -z
<1>1. On(d, y)[e] = IF e = d THEN y ELSE 0
  BY OnValue
<1>2. u = 0
  <2> DEFINE none == 0
  <2>1. none = 0
    OBVIOUS
  <2> HIDE DEF none
  <2>2. none = -z
    BY <2>1, NoneTaken
  <2> QED BY <2>1, <2>2
<1> HIDE DEF u
<1>3. On(d, y)[e] = (IF e = d THEN u ELSE 0) + (IF e = d THEN y ELSE 0)
  BY <1>1, <1>2, SMT
<1> QED BY <1>3 DEF u

LEMMA NothingBetween ==
    ASSUME NEW b, NEW z, z = 0
    PROVE  Between(NoBank, b, z, b, z)
<1>1. Between(On(b, z), b, z, b, z)
  <2>1. z \in Int
    BY SMT
  <2> QED BY <2>1, GivesOnly
<1>2. On(b, z) = NoBank
  BY DEF On, NoBank
<1> QED BY <1>1, <1>2

LEMMA MovesBetween ==
    ASSUME NEW b \in Balance, NEW d \in Balance, NEW x \in Int, NEW y \in Int
    PROVE  Between(Plus(On(b, -x), On(d, y)), b, x, d, y)
<1> SUFFICES ASSUME NEW e \in Balance
             PROVE  Plus(On(b, -x), On(d, y))[e] = (IF e = b THEN -x ELSE 0) + (IF e = d THEN y ELSE 0)
  BY DEF Between
<1> DEFINE u == -x
<1>1. u \in Int
  BY SMT
<1> HIDE DEF u
<1>2. Plus(On(b, u), On(d, y))[e] = (IF e = b THEN u ELSE 0) + (IF e = d THEN y ELSE 0)
  BY <1>1, PlusValue
<1> QED BY <1>2 DEF u

\* What is received opens a lot where the currency is foreign.
LEMMA Received ==
    ASSUME NEW s, NEW op, NEW d \in Balance, NEW y \in Nat \ {0}, NEW yc \in Int,
           BaseOf(d[1]) = OwnerBase[op.owner],
           IsBase(d) => yc = InBase(y), ~IsBase(d) => yc > 0
    PROVE  Giving(s, op, IF IsBase(d) THEN <<>> ELSE <<NewLot(s, d, y, yc)>>, d, y, yc)
<1>1. y \in Nat /\ y \in Int /\ y # 0 /\ y > 0
  BY SMT
<1>2. TicksPerCent = 1 /\ IsBase(d) => yc = y
  BY <1>1, InCents
<1> QED BY <1>1, <1>2 DEF Giving

\* Nothing is received.
LEMMA NothingReceived == ASSUME NEW s, NEW op, NEW d PROVE Giving(s, op, <<>>, d, 0, 0)
<1>1. 0 \in Nat /\ 0 \in Int /\ ~(0 > 0)
  BY SMT
<1> QED BY <1>1 DEF Giving

LEMMA OpOwner ==
    ASSUME NEW type, NEW owner, NEW bank, NEW from, NEW to, NEW w
    PROVE  /\ Op(type, owner, bank, from, to, w).owner = owner
           /\ Op(type, owner, bank, from, to, w).bank = bank
           /\ Op(type, owner, bank, from, to, w).used = w.used
           /\ Op(type, owner, bank, from, to, w).usedCost = w.usedCost
BY SMT DEF Op

LEMMA IncomeLots ==
    ASSUME NEW s, LedgerInv(s), NEW a \in Account, NEW c \in Currency,
           NEW amount \in Nat \ {0}, NEW value \in Int,
           IsBase(<<a, c>>) => value = InBase(amount), ~IsBase(<<a, c>>) => value > 0,
           LotsInv(s), ReversedOnce(s)
    PROVE  LotsInv(IncomePosted(s, a, c, amount, value))
           /\ ReversedOnce(IncomePosted(s, a, c, amount, value))
           /\ Booked(s, IncomePosted(s, a, c, amount, value),
                     Op("income", AccountOwner[a], On(<<a, c>>, amount), NoBudget,
                        In(Unallocated(AccountOwner[a]), value), NoUse(s)),
                     On(<<a, c>>, value))
<1> DEFINE b == <<a, c>>
           o == AccountOwner[a]
           w == NoUse(s)
           bank == On(b, amount)
           to == In(Unallocated(o), value)
           costDelta == On(b, value)
           opened == IF IsBase(b) THEN <<>> ELSE <<NewLot(s, b, amount, value)>>
           op == Op("income", o, bank, NoBudget, to, w)
<1>1. b \in Balance /\ o \in Owner /\ BaseOf(b[1]) = OwnerBase[o] /\ amount \in Int
  BY OwnershipAssumption, SMT DEF Balance, BaseOf
<1>2. /\ bank \in [Balance -> Int] /\ costDelta \in [Balance -> Int]
      /\ NoBudget \in [Category -> Int] /\ to \in [Category -> Int]
  BY <1>1, RowValues
<1>3. FitsLots(s, w) /\ "income" \in OperationType \ {"reversal"}
  BY NoUseFits, SMT DEF OperationType
<1>4. op.owner = o /\ op.bank = bank /\ op.used = Unused(s.lots) /\ op.usedCost = Unused(s.lots)
  <2>1. w.used = Unused(s.lots) /\ w.usedCost = Unused(s.lots)
    BY DEF NoUse
  <2> QED BY <2>1, OpOwner
<1>5. Between(bank, b, 0, b, amount) /\ Between(costDelta, b, 0, b, value)
  BY <1>1, GivesOnly
<1>6. Moves(s, op, costDelta, opened, b, 0, 0, b, amount, value)
  <2> HIDE DEF op, b, bank, costDelta
  <2>1. Taking(s, op, b, 0, 0)
    BY <1>4, NothingTaken
  <2>2. Giving(s, op, opened, b, amount, value)
    BY <1>1, <1>4, Received DEF b
  <2>3. ~(0 > 0)
    BY SMT
  <2> QED BY <1>4, <1>5, <2>1, <2>2, <2>3 DEF Moves
<1> HIDE DEF op, w, bank, to, costDelta, opened
<1>7. LotsInv(Posted(s, op, costDelta, opened)) /\ ReversedOnce(Posted(s, op, costDelta, opened))
      /\ Booked(s, Posted(s, op, costDelta, opened), op, costDelta)
  <2> DEFINE none == 0
  <2>1. Moves(s, Op("income", o, bank, NoBudget, to, w), costDelta, opened, b, none, none, b, amount, value)
    BY <1>6 DEF op
  <2> HIDE DEF none, b, o
  <2> QED BY <1>1, <1>2, <1>3, <2>1, OpLots DEF op
<1> QED BY <1>7 DEF IncomePosted, op, w, bank, to, costDelta, opened

\* An operation that withdraws an amount and gives nothing to an account.
LEMMA WithdrawalLots ==
    ASSUME NEW s, LedgerInv(s), NEW a \in Account, NEW c \in Currency, NEW amount \in Nat \ {0},
           LotsSuffice(s, <<a, c>>, amount), LotsInv(s), ReversedOnce(s),
           NEW from \in [Category -> Int],
           NEW t, t = Posted(s, Op("expense", AccountOwner[a], On(<<a, c>>, -amount), from, NoBudget,
                                   Withdrawal(s, <<a, c>>, amount)),
                             On(<<a, c>>, -Withdrawal(s, <<a, c>>, amount).cost), <<>>)
    PROVE  /\ LotsInv(t)
           /\ Booked(s, t, Op("expense", AccountOwner[a], On(<<a, c>>, -amount), from, NoBudget,
                              Withdrawal(s, <<a, c>>, amount)),
                     On(<<a, c>>, -Withdrawal(s, <<a, c>>, amount).cost))
<1> DEFINE b == <<a, c>>
           o == AccountOwner[a]
           w == Withdrawal(s, b, amount)
           bank == On(b, -amount)
           costDelta == On(b, -w.cost)
           opened == <<>>
           op == Op("expense", o, bank, from, NoBudget, w)
<1>1. b \in Balance /\ o \in Owner /\ BaseOf(b[1]) = OwnerBase[o] /\ amount \in Int /\ amount \in Nat
      /\ -amount \in Int
  BY OwnershipAssumption, SMT DEF Balance, BaseOf
<1>2. FitsLots(s, w) /\ "expense" \in OperationType \ {"reversal"}
  BY <1>1, WithdrawalFits, SMT DEF OperationType
<1>3. w.cost \in Int /\ -w.cost \in Int
  <2> HIDE DEF w
  <2> QED BY <1>2, SMT DEF FitsLots
<1>4. op.owner = o /\ op.bank = bank /\ op.used = w.used /\ op.usedCost = w.usedCost
  BY OpOwner
<1>5. Taking(s, op, b, amount, w.cost)
  <2> HIDE DEF op, b, o
  <2> QED BY <1>1, <1>4, WithdrawalTakes DEF b
<1> HIDE DEF w
<1>6. /\ bank \in [Balance -> Int] /\ costDelta \in [Balance -> Int]
      /\ NoBudget \in [Category -> Int]
  BY <1>1, <1>3, RowValues
<1>7. Between(bank, b, amount, b, 0) /\ Between(costDelta, b, w.cost, b, 0)
  BY <1>1, <1>3, TakesOnly
<1>8. Moves(s, op, costDelta, opened, b, amount, w.cost, b, 0, 0)
  <2> HIDE DEF op, b, bank, costDelta
  <2>1. Giving(s, op, opened, b, 0, 0)
    BY NothingReceived
  <2>2. ~(0 > 0)
    BY SMT
  <2> QED BY <1>4, <1>5, <1>7, <2>1, <2>2 DEF Moves
<1> HIDE DEF op, bank, costDelta, opened
<1>9. LotsInv(Posted(s, op, costDelta, opened)) /\ Booked(s, Posted(s, op, costDelta, opened), op, costDelta)
  <2> DEFINE none == 0
  <2>1. Moves(s, Op("expense", o, bank, from, NoBudget, w), costDelta, opened, b, amount, w.cost, b, none, none)
    BY <1>8 DEF op
  <2> HIDE DEF none, b, o
  <2> QED BY <1>1, <1>2, <1>6, <2>1, OpLots DEF op
<1> QED BY <1>9 DEF op, w, bank, costDelta, opened

LEMMA RecordIncomeLots ==
    ASSUME NEW a \in Account, NEW c \in Currency, NEW amount \in Amounts, NEW v \in Costs,
           NEW p \in TaxPercents, LedgerInv(ledger), LotsInv(ledger), ReversedOnce(ledger),
           RecordIncome(a, c, amount, v, p)
    PROVE  LotsInv(ledger')
<1> DEFINE b == <<a, c>>
           value == IF c = BaseOf(a) THEN InBase(amount) ELSE v
           tax == RoundDiv(amount * p, 100)
           gross == IncomePosted(ledger, a, c, amount, value)
           w == Withdrawal(gross, b, tax)
<1>1. amount \in Nat \ {0} /\ v \in Nat \ {0} /\ p \in Nat /\ v > 0
  BY AmountAssumption, SMT
<1>2. /\ value \in Int /\ (c # BaseOf(a) => value \in Nat \ {0})
      /\ IsBase(b) => value = InBase(amount)
      /\ ~IsBase(b) => value > 0
  <2>1. InBase(amount) \in Int
    BY <1>1, InBaseInt, SMT
  <2>2. IsBase(b) <=> c = BaseOf(a)
    BY DEF IsBase
  <2> QED BY <1>1, <2>1, <2>2, SMT
<1> HIDE DEF value
<1>3. LedgerInv(gross)
  BY <1>1, <1>2, IncomeInv
<1>4. LotsInv(gross) /\ ReversedOnce(gross)
  BY <1>1, <1>2, IncomeLots
<1>5. \/ ledger' = gross
      \/ 0 < tax /\ TaxAllowed(gross, a, c, tax) /\ ledger' = TaxPosted(gross, a, c, tax)
  BY DEF RecordIncome, value
<1>6. CASE 0 < tax /\ TaxAllowed(gross, a, c, tax) /\ ledger' = TaxPosted(gross, a, c, tax)
  <2>1. tax \in Nat \ {0}
    <3>1. tax \in Int
      <4>1. amount * p \in Int /\ 100 \in Nat \ {0}
        BY <1>1, SMT
      <4> QED BY <4>1, RoundDivInt
    <3> HIDE DEF tax
    <3> QED BY <1>6, <3>1, SMT
  <2> HIDE DEF gross, tax
  <2> DEFINE from == In(Unallocated(AccountOwner[a]), w.cost)
  <2>2. LotsSuffice(gross, <<a, c>>, tax)
    BY <1>6 DEF TaxAllowed
  <2>3. from \in [Category -> Int]
    <3>1. w.cost \in Int
      <4>1. b \in Balance /\ tax \in Nat
        BY <2>1, SMT DEF Balance
      <4> QED BY <1>3, <4>1, WithdrawalFits DEF FitsLots
    <3> QED BY <3>1, RowValues
  <2>4. ledger' = Posted(gross, Op("expense", AccountOwner[a], On(<<a, c>>, -tax), from, NoBudget,
                                   Withdrawal(gross, <<a, c>>, tax)),
                         On(<<a, c>>, -Withdrawal(gross, <<a, c>>, tax).cost), <<>>)
    BY <1>6 DEF TaxPosted
  <2> HIDE DEF from
  <2> QED BY <1>3, <1>4, <2>1, <2>2, <2>3, <2>4, WithdrawalLots
<1> QED BY <1>4, <1>5, <1>6

LEMMA RecordExpenseLots ==
    ASSUME NEW a \in Account, NEW g \in Regular, NEW c \in Currency, NEW amount \in Amounts,
           LedgerInv(ledger), LotsInv(ledger), ReversedOnce(ledger), RecordExpense(a, g, c, amount)
    PROVE  LotsInv(ledger')
<1> DEFINE from == In(g, Withdrawal(ledger, <<a, c>>, amount).cost)
<1>1. amount \in Nat \ {0} /\ amount \in Nat /\ <<a, c>> \in Balance
  BY AmountAssumption, SMT DEF Balance
<1>2. from \in [Category -> Int]
  <2>1. Withdrawal(ledger, <<a, c>>, amount).cost \in Int
    BY <1>1, WithdrawalFits DEF FitsLots
  <2> QED BY <2>1, RowValues
<1>3. LotsSuffice(ledger, <<a, c>>, amount)
  BY DEF RecordExpense
<1>4. ledger' = Posted(ledger, Op("expense", AccountOwner[a], On(<<a, c>>, -amount), from, NoBudget,
                                  Withdrawal(ledger, <<a, c>>, amount)),
                       On(<<a, c>>, -Withdrawal(ledger, <<a, c>>, amount).cost), <<>>)
  BY DEF RecordExpense
<1> HIDE DEF from
<1> QED BY <1>1, <1>2, <1>3, <1>4, WithdrawalLots

\* Money withdrawn from one balance and put on another, at a cost.
LEMMA MovedLots ==
    ASSUME NEW s, LedgerInv(s), NEW b \in Balance, NEW d \in Balance, b # d,
           NEW x \in Nat \ {0}, NEW y \in Nat \ {0}, NEW yc \in Int, NEW w, w = Withdrawal(s, b, x),
           LotsSuffice(s, b, x), NEW type \in OperationType \ {"reversal"}, NEW owner \in Owner,
           BaseOf(b[1]) = OwnerBase[owner], BaseOf(d[1]) = OwnerBase[owner],
           IsBase(d) => yc = InBase(y), ~IsBase(d) => yc > 0,
           NEW from \in [Category -> Int], NEW to \in [Category -> Int],
           LotsInv(s), ReversedOnce(s),
           NEW t, t = Posted(s, Op(type, owner, Plus(On(b, -x), On(d, y)), from, to, w),
                             Plus(On(b, -w.cost), On(d, yc)),
                             IF IsBase(d) THEN <<>> ELSE <<NewLot(s, d, y, yc)>>)
    PROVE  /\ LotsInv(t)
           /\ Booked(s, t, Op(type, owner, Plus(On(b, -x), On(d, y)), from, to, w),
                     Plus(On(b, -w.cost), On(d, yc)))
<1> DEFINE bank == Plus(On(b, -x), On(d, y))
           costDelta == Plus(On(b, -w.cost), On(d, yc))
           opened == IF IsBase(d) THEN <<>> ELSE <<NewLot(s, d, y, yc)>>
           op == Op(type, owner, bank, from, to, w)
<1>1. x \in Int /\ x \in Nat /\ y \in Int /\ -x \in Int
  BY SMT
<1>2. FitsLots(s, w)
  BY <1>1, WithdrawalFits
<1>3. w.cost \in Int /\ -w.cost \in Int
  <2>1. w.cost \in Int
    BY <1>2 DEF FitsLots
  <2> QED BY <2>1, SMT
<1>4. op.owner = owner /\ op.bank = bank /\ op.used = w.used /\ op.usedCost = w.usedCost
  BY OpOwner
<1>5. bank \in [Balance -> Int] /\ costDelta \in [Balance -> Int]
  <2>1. /\ On(b, -x) \in [Balance -> Int] /\ On(d, y) \in [Balance -> Int]
        /\ On(b, -w.cost) \in [Balance -> Int] /\ On(d, yc) \in [Balance -> Int]
    BY <1>1, <1>3, RowValues
  <2> QED BY <2>1, PlusMinus
<1>6. Between(bank, b, x, d, y) /\ Between(costDelta, b, w.cost, d, yc)
  BY <1>1, <1>3, MovesBetween
<1> HIDE DEF op, bank, costDelta
<1>7. Moves(s, op, costDelta, opened, b, x, w.cost, d, y, yc)
  <2>1. Taking(s, op, b, x, w.cost)
    <3>1. /\ op.used = Withdrawal(s, b, x).used /\ op.usedCost = Withdrawal(s, b, x).usedCost
          /\ BaseOf(b[1]) = OwnerBase[op.owner]
      BY <1>4
    <3>2. Taking(s, op, b, x, Withdrawal(s, b, x).cost)
      BY <3>1, WithdrawalTakes
    <3> QED BY <3>2
  <2>2. Giving(s, op, opened, d, y, yc)
    BY <1>4, Received
  <2> HIDE DEF opened
  <2> QED BY <1>4, <1>6, <2>1, <2>2 DEF Moves
<1> HIDE DEF opened
<1>8. LotsInv(Posted(s, op, costDelta, opened)) /\ Booked(s, Posted(s, op, costDelta, opened), op, costDelta)
  BY <1>2, <1>5, <1>7, OpLots DEF op
<1> QED BY <1>8 DEF op, bank, costDelta, opened

LEMMA ExchangeCurrencyLots ==
    ASSUME NEW a \in Account, NEW c \in Currency, NEW d \in Currency,
           NEW given \in Amounts, NEW received \in Amounts,
           LedgerInv(ledger), LotsInv(ledger), ReversedOnce(ledger),
           ExchangeCurrency(a, c, given, d, received)
    PROVE  LET b == <<a, c>>
               t == <<a, d>>
               o == AccountOwner[a]
               w == Withdrawal(ledger, b, given)
               yc == IF IsBase(t) THEN InBase(received) ELSE w.cost
               to == In(FxResult(o), ExchangeResult(t, received, w.cost))
           IN  /\ LotsInv(ledger')
               /\ Booked(ledger, ledger',
                         Op("exchange", o, Plus(On(b, -given), On(t, received)), NoBudget, to, w),
                         Plus(On(b, -w.cost), On(t, yc)))
<1> DEFINE b == <<a, c>>
           t == <<a, d>>
           o == AccountOwner[a]
           w == Withdrawal(ledger, b, given)
           yc == IF IsBase(t) THEN InBase(received) ELSE w.cost
           result == ExchangeResult(t, received, w.cost)
           to == In(FxResult(o), result)
<1>1. /\ b \in Balance /\ t \in Balance /\ o \in Owner /\ BaseOf(b[1]) = OwnerBase[o]
      /\ BaseOf(t[1]) = OwnerBase[o] /\ given \in Nat \ {0} /\ given \in Nat
      /\ received \in Nat \ {0} /\ received \in Int
  BY OwnershipAssumption, AmountAssumption, SMT DEF Balance, BaseOf
<1>2. b # t
  BY DEF ExchangeCurrency
<1>3. /\ LotAllowed(t, yc) /\ LotsSuffice(ledger, b, given)
      /\ ledger' = Posted(ledger, Op("exchange", o, Plus(On(b, -given), On(t, received)),
                                     NoBudget, to, w),
                          Plus(On(b, -w.cost), On(t, yc)),
                          IF IsBase(t) THEN <<>> ELSE <<NewLot(ledger, t, received, yc)>>)
  BY DEF ExchangeCurrency
<1>4. w.cost \in Int /\ InBase(received) \in Int
  BY <1>1, WithdrawalFits, InBaseInt DEF FitsLots
<1>5. yc \in Int /\ (IsBase(t) => yc = InBase(received)) /\ (~IsBase(t) => yc > 0)
  BY <1>3, <1>4 DEF LotAllowed
<1>6. NoBudget \in [Category -> Int] /\ to \in [Category -> Int]
  <2>1. result \in Int
    <3> HIDE DEF w
    <3> QED BY <1>4, SMT DEF ExchangeResult
  <2> HIDE DEF result
  <2> QED BY <2>1, RowValues
<1>7. "exchange" \in OperationType \ {"reversal"} /\ w = Withdrawal(ledger, b, given)
  BY SMT DEF OperationType
<1> HIDE DEF b, t, o, w, yc, to
<1>8. /\ LotsInv(ledger')
      /\ Booked(ledger, ledger',
                Op("exchange", o, Plus(On(b, -given), On(t, received)), NoBudget, to, w),
                Plus(On(b, -w.cost), On(t, yc)))
  BY <1>1, <1>2, <1>3, <1>5, <1>6, <1>7, MovedLots
<1> QED BY <1>8 DEF b, t, o, w, yc, to

LEMMA TransferLots ==
    ASSUME NEW a \in Account, NEW r \in Account, NEW c \in Currency, NEW amount \in Amounts,
           LedgerInv(ledger), LotsInv(ledger), ReversedOnce(ledger),
           TransferBetweenAccounts(a, r, c, amount)
    PROVE  LET b == <<a, c>>
               d == <<r, c>>
               w == Withdrawal(ledger, b, amount)
               from == In(Unallocated(AccountOwner[a]), BudgetDebit(ledger, a, r, w.cost))
               to == In(Unallocated(AccountOwner[r]), BudgetCredit(ledger, a, r, b, amount, w.cost))
           IN  /\ LotsInv(ledger')
               /\ from \in [Category -> Int] /\ to \in [Category -> Int]
               /\ Booked(ledger, ledger',
                         Op("account_transfer", AccountOwner[a], Plus(On(b, -amount), On(d, amount)),
                            from, to, w),
                         Plus(On(b, -w.cost), On(d, w.cost)))
<1> DEFINE b == <<a, c>>
           d == <<r, c>>
           o == AccountOwner[a]
           w == Withdrawal(ledger, b, amount)
           yc == w.cost
           debit  == BudgetDebit(ledger, a, r, w.cost)
           credit == BudgetCredit(ledger, a, r, b, amount, w.cost)
           from == In(Unallocated(AccountOwner[a]), debit)
           to == In(Unallocated(AccountOwner[r]), credit)
<1>1. /\ b \in Balance /\ d \in Balance /\ o \in Owner /\ BaseOf(b[1]) = OwnerBase[o]
      /\ amount \in Nat \ {0} /\ amount \in Nat /\ amount \in Int
  BY OwnershipAssumption, AmountAssumption, SMT DEF Balance, BaseOf
<1>2. b # d /\ BaseOf(d[1]) = BaseOf(b[1]) /\ (IsBase(d) <=> IsBase(b))
  BY DEF TransferBetweenAccounts, IsBase
<1>3. /\ LotAllowed(b, yc) /\ LotsSuffice(ledger, b, amount)
      /\ ledger' = Posted(ledger, Op("account_transfer", o, Plus(On(b, -amount), On(d, amount)),
                                     from, to, w),
                          Plus(On(b, -w.cost), On(d, yc)),
                          IF IsBase(b) THEN <<>> ELSE <<NewLot(ledger, d, amount, yc)>>)
  BY DEF TransferBetweenAccounts
<1>4. w.cost \in Int
  BY <1>1, WithdrawalFits DEF FitsLots
<1>5. yc \in Int /\ (IsBase(d) => yc = InBase(amount)) /\ (~IsBase(d) => yc > 0)
  <2>1. IsBase(b) => w.cost = InBase(amount)
    BY DEF Withdrawal
  <2> HIDE DEF w
  <2> QED BY <1>2, <1>3, <1>4, <2>1 DEF LotAllowed
<1>6. from \in [Category -> Int] /\ to \in [Category -> Int]
  <2> HIDE DEF w, b
  <2>1. debit \in Int
    <3>1. TransferDebt(ledger, r) \in Int
      BY TransferDebtInt
    <3> QED BY <1>4, <3>1, SMT DEF BudgetDebit, CardBudgetDebt, Lesser, Greater
  <2>2. credit \in Int
    <3>1. ledger.amount[b] \in Int
      BY <1>1, LedgerFields DEF LedgerInv
    <3>2. amount - Greater(0, Lesser(amount, ledger.amount[b])) \in Int
      BY <1>1, <3>1, SMT DEF Lesser, Greater
    <3>3. InBase(amount - Greater(0, Lesser(amount, ledger.amount[b]))) \in Int
      BY <3>2, InBaseInt
    <3> QED BY <1>4, <3>3, SMT DEF BudgetCredit
  <2> HIDE DEF debit, credit
  <2> QED BY <2>1, <2>2, RowValues
<1>7. "account_transfer" \in OperationType \ {"reversal"} /\ w = Withdrawal(ledger, b, amount)
  BY SMT DEF OperationType
<1>8. ledger' = Posted(ledger, Op("account_transfer", o, Plus(On(b, -amount), On(d, amount)),
                                  from, to, w),
                       Plus(On(b, -w.cost), On(d, yc)),
                       IF IsBase(d) THEN <<>> ELSE <<NewLot(ledger, d, amount, yc)>>)
  <2> DEFINE op == Op("account_transfer", o, Plus(On(b, -amount), On(d, amount)), from, to, w)
             delta == Plus(On(b, -w.cost), On(d, yc))
             none == <<>>
             opened == <<NewLot(ledger, d, amount, yc)>>
  <2>1. ledger' = Posted(ledger, op, delta, IF IsBase(b) THEN none ELSE opened)
    BY <1>3
  <2> HIDE DEF op, delta, none, opened, b, d
  <2>2. (IF IsBase(b) THEN none ELSE opened) = (IF IsBase(d) THEN none ELSE opened)
    BY <1>2
  <2>3. ledger' = Posted(ledger, op, delta, IF IsBase(d) THEN none ELSE opened)
    BY <2>1, <2>2
  <2> HIDE DEF w, o, yc, from, to
  <2> QED BY <2>3 DEF op, delta, none, opened
<1>9. BaseOf(d[1]) = OwnerBase[o]
  BY <1>1, <1>2
<1> HIDE DEF b, d, o, w, yc, from, to
<1>10. /\ b \in Balance /\ d \in Balance /\ b # d /\ amount \in Nat \ {0} /\ yc \in Int
       /\ LotsSuffice(ledger, b, amount) /\ o \in Owner
       /\ BaseOf(b[1]) = OwnerBase[o] /\ (IsBase(d) => yc = InBase(amount)) /\ (~IsBase(d) => yc > 0)
  BY <1>1, <1>2, <1>3, <1>5
<1>11. /\ LotsInv(ledger')
       /\ Booked(ledger, ledger',
                 Op("account_transfer", o, Plus(On(b, -amount), On(d, amount)), from, to, w),
                 Plus(On(b, -w.cost), On(d, yc)))
  BY <1>6, <1>7, <1>8, <1>9, <1>10, MovedLots
<1> QED BY <1>6, <1>11 DEF b, d, o, w, yc, from, to

\* Operations that touch the budget alone.
LEMMA BudgetOnlyLots ==
    ASSUME NEW type \in {"allocate", "group_allocate"}, NEW owner \in Owner,
           NEW from \in [Category -> Int], NEW to \in [Category -> Int], LedgerInv(ledger),
           LotsInv(ledger), ReversedOnce(ledger),
           ledger' = Posted(ledger, Op(type, owner, NoBank, from, to, NoUse(ledger)), NoBank, <<>>)
    PROVE  /\ LotsInv(ledger')
           /\ Booked(ledger, ledger', Op(type, owner, NoBank, from, to, NoUse(ledger)), NoBank)
<1> DEFINE none == 0
           w == NoUse(ledger)
           b == owner
           opened == <<>>
           op == Op(type, owner, NoBank, from, to, w)
<1>1. type \in OperationType \ {"reversal"}
  BY SMT DEF OperationType
<1>2. NoBank \in [Balance -> Int] /\ FitsLots(ledger, w)
  BY RowValues, NoUseFits
<1>4. op.bank = NoBank /\ op.used = Unused(ledger.lots) /\ op.usedCost = Unused(ledger.lots)
  <2>1. w.used = Unused(ledger.lots) /\ w.usedCost = Unused(ledger.lots)
    BY DEF NoUse
  <2> QED BY <2>1, OpOwner
<1>5. Between(NoBank, b, none, b, none)
  BY NothingBetween
<1>6. Moves(ledger, op, NoBank, opened, b, none, none, b, none, none)
  <2> HIDE DEF op
  <2>1. Taking(ledger, op, b, none, none)
    BY <1>4, NothingTaken
  <2>2. Giving(ledger, op, opened, b, none, none)
    BY NothingReceived
  <2>3. ~(none > 0)
    BY SMT
  <2> HIDE DEF none, opened, b
  <2> QED BY <1>4, <1>5, <2>1, <2>2, <2>3 DEF Moves
<1> HIDE DEF none, w, b, opened, op
<1>7. LotsInv(Posted(ledger, op, NoBank, opened))
      /\ Booked(ledger, Posted(ledger, op, NoBank, opened), op, NoBank)
  BY <1>1, <1>2, <1>6, OpLots DEF op
<1> QED BY <1>7 DEF w, opened, op

LEMMA ReverseOperationLots ==
    ASSUME NEW k \in DOMAIN ledger.operations, LedgerInv(ledger), LedgerInv(ledger'),
           LotsInv(ledger), ReverseOperation(k)
    PROVE  LotsInv(ledger')
<1>1. /\ ledger.operations[k].type # "reversal" /\ ~IsReversed(ledger, k)
      /\ \A i \in OpenedBy(ledger, k) : Untouched(ledger.lots[i])
      /\ ledger' = [Posted(ledger, ReversalOf(ledger, k), ReversalCost(ledger, k), <<>>)
                      EXCEPT !.lots = Emptied(@, OpenedBy(ledger, k))]
  BY DEF ReverseOperation, Reversible
<1>2. TakenBack(ledger, ledger', k)
  BY <1>1 DEF TakenBack
<1> QED BY <1>2, ReversalKeeps

\* A rebuild sums the cost of the lots that hold something: of all of them.
LEMMA RebuiltCosts ==
    ASSUME NEW s, LedgerInv(s), EntriesInv(s), LotsInv(s)
    PROVE  /\ Rebuilt(s).lots = s.lots
           /\ Rebuilt(s).cost \in [Balance -> Int]
           /\ \A b \in Balance : ~IsBase(b) => Rebuilt(s).cost[b] = s.cost[b]
           /\ TicksPerCent = 1 => Rebuilt(s).cost = s.cost
<1> DEFINE m == Len(s.lots)
           amount == [b \in Balance |-> EntriesOn(s, b)]
           cost == [b \in Balance |-> IF IsBase(b) THEN InBase(EntriesOn(s, b)) ELSE LotCost(s, b)]
           budget == [c \in Category |-> EntriesIn(s, c)]
<1>1. /\ s \in Ledger /\ s.cost \in [Balance -> Int] /\ s.amount \in [Balance -> Int]
      /\ m \in Nat /\ DOMAIN s.lots = 1..m /\ \A i \in 1..m : s.lots[i] \in Lot
  BY LedgerFields DEF LedgerInv
<1>2. Rebuilt(s) = [s EXCEPT !.amount = amount, !.cost = cost, !.budget = budget]
  BY DEF Rebuilt
<1>3. ASSUME NEW b \in Balance PROVE LotCost(s, b) = SumTo(CostsOn(s, b), m) /\ LotCost(s, b) \in Int
  <2> DEFINE v == CostsOn(s, b)
             w == [i \in DOMAIN s.lots |->
                     IF OnBalance(s.lots[i], b) /\ s.lots[i].remaining > 0
                     THEN s.lots[i].cost ELSE 0]
  <2>1. ASSUME NEW i \in 1..m PROVE w[i] = v[i] /\ v[i] \in Int
    <3>1. /\ s.lots[i].remaining \in Nat /\ s.lots[i].cost \in Nat
          /\ s.lots[i].remaining = 0 => s.lots[i].cost = 0
      BY <1>1, LotFields DEF LedgerInv
    <3>2. /\ v[i] = IF OnBalance(s.lots[i], b) THEN s.lots[i].cost ELSE 0
          /\ w[i] = IF OnBalance(s.lots[i], b) /\ s.lots[i].remaining > 0 THEN s.lots[i].cost ELSE 0
      BY <1>1 DEF CostsOn
    <3> HIDE DEF v, w
    <3> QED BY <3>1, <3>2, SMT
  <2> HIDE DEF v, w
  <2>2. SumTo(w, m) = SumTo(v, m) /\ SumTo(v, m) \in Int
    BY <1>1, <2>1, SumToSame, SumToInt
  <2> QED BY <2>2 DEF LotCost, v, w
<1>4. \A b \in Balance : EntriesOn(s, b) = s.amount[b]
  BY DEF EntriesInv
<1>5. cost \in [Balance -> Int]
  <2> SUFFICES ASSUME NEW b \in Balance
               PROVE  (IF IsBase(b) THEN InBase(EntriesOn(s, b)) ELSE LotCost(s, b)) \in Int
    OBVIOUS
  <2> QED BY <1>1, <1>3, <1>4, InBaseInt
<1>6. \A b \in Balance : ~IsBase(b) => cost[b] = s.cost[b]
  BY <1>3 DEF LotsInv, LotsHold
<1>7. TicksPerCent = 1 => cost = s.cost
  <2> SUFFICES ASSUME TicksPerCent = 1 PROVE \A b \in Balance : cost[b] = s.cost[b]
    BY <1>1, <1>5
  <2>1. ASSUME NEW b \in Balance, IsBase(b) PROVE cost[b] = s.cost[b]
    <3>1. s.cost[b] = s.amount[b] /\ s.amount[b] \in Int
      BY <1>1, <2>1 DEF LotsInv, BaseCosts
    <3>2. InBase(s.amount[b]) = s.amount[b]
      BY <3>1, InCents
    <3> QED BY <1>4, <2>1, <3>1, <3>2
  <2> QED BY <1>6, <2>1
<1> HIDE DEF amount, cost, budget
<1>8. Rebuilt(s).lots = s.lots /\ Rebuilt(s).cost = cost
  BY <1>1, <1>2, SMT DEF Ledger
<1> QED BY <1>5, <1>6, <1>7, <1>8

LEMMA SameLots ==
    ASSUME NEW s, NEW t, LotsInv(s), t.operations = s.operations, t.lots = s.lots,
           t.amount = s.amount, \A b \in Balance : ~IsBase(b) => t.cost[b] = s.cost[b],
           TicksPerCent = 1 => t.cost = s.cost
    PROVE  LotsInv(t)
<1>1. LotsInOrder(s) /\ LotsLeft(s) /\ LotsHold(s) /\ BaseCosts(s)
      /\ \A k \in DOMAIN s.operations : s.operations[k].type # "reversal" => MovesLots(s, k)
  BY DEF LotsInv
<1>2. LotsInOrder(t)
  BY <1>1 DEF LotsInOrder
<1>3. LotsLeft(t)
  <2>1. \A k : IsReversed(t, k) <=> IsReversed(s, k)
    BY DEF IsReversed
  <2>2. \A i : UsesOf(t, i) = UsesOf(s, i) /\ UseCostsOf(t, i) = UseCostsOf(s, i)
    BY DEF UsesOf, UseCostsOf
  <2>3. \A i : LiveUsesOf(t, i) = LiveUsesOf(s, i)
    BY <2>1 DEF LiveUsesOf, Live
  <2> QED BY <1>1, <2>1, <2>2, <2>3 DEF LotsLeft
<1>4. ASSUME NEW k \in DOMAIN t.operations, t.operations[k].type # "reversal" PROVE MovesLots(t, k)
  <2>1. \A b : FlowOn(t, k, b) = FlowOn(s, k, b)
    BY DEF FlowOn
  <2>2. MovesLots(s, k)
    BY <1>1, <1>4
  <2> QED BY <2>1, <2>2 DEF MovesLots
<1>5. LotsHold(t)
  <2>1. \A b : CostsOn(t, b) = CostsOn(s, b)
    BY DEF CostsOn
  <2> QED BY <1>1, <2>1 DEF LotsHold
<1>6. BaseCosts(t)
  BY <1>1 DEF BaseCosts
<1> QED BY <1>2, <1>3, <1>4, <1>5, <1>6 DEF LotsInv

LEMMA ArchiveCategoryLots ==
    ASSUME NEW c \in Regular, LedgerInv(ledger), LotsInv(ledger), ReversedOnce(ledger),
           ArchiveCategory(c)
    PROVE  LotsInv(ledger')
<1> DEFINE left == ledger.budget[c]
           o == RegularOwner[c]
           from == In(c, left)
           to == In(Unallocated(o), left)
<1>1. CASE UNCHANGED ledger
  BY <1>1
<1>2. CASE ledger' = Posted(ledger, Op("allocate", o, NoBank, from, to, NoUse(ledger)), NoBank, <<>>)
  <2>1. left \in Int /\ o \in Owner
    BY LedgerFields, OwnershipAssumption DEF LedgerInv, Category
  <2> HIDE DEF left, o
  <2>2. from \in [Category -> Int] /\ to \in [Category -> Int]
    BY <2>1, RowValues
  <2> HIDE DEF from, to
  <2> QED BY <1>2, <2>1, <2>2, BudgetOnlyLots
<1> QED BY <1>1, <1>2 DEF ArchiveCategory

(***************************************************************************)
(* The invariant and the theorems.                                          *)
(***************************************************************************)
LInv == HInv /\ LotsInv(ledger)

LEMMA LedgerParts ==
    ASSUME NEW s \in Ledger, NEW t \in Ledger,
           t.operations = s.operations, t.lots = s.lots,
           t.amount = s.amount, t.cost = s.cost, t.budget = s.budget
    PROVE  t = s
<1>1. \A x \in Ledger : x = [operations |-> x.operations, lots |-> x.lots, amount |-> x.amount,
                             cost |-> x.cost, budget |-> x.budget]
  BY DEF Ledger
<1> QED BY <1>1

LEMMA InitLInv == Init => LInv
<1> SUFFICES ASSUME Init PROVE LInv
  OBVIOUS
<1>1. /\ ledger.operations = <<>> /\ ledger.lots = <<>> /\ ledger.amount = NoBank
      /\ ledger.cost = NoBank
      /\ DOMAIN ledger.operations = {} /\ DOMAIN ledger.lots = {} /\ Len(ledger.lots) = 0
  BY SMT DEF Init
<1>2. LotsInOrder(ledger) /\ LotsLeft(ledger)
  BY <1>1 DEF LotsInOrder, LotsLeft
<1>3. LotsHold(ledger) /\ BaseCosts(ledger)
  BY <1>1, SumToZero DEF LotsHold, BaseCosts, NoBank
<1>4. LotsInv(ledger)
  BY <1>1, <1>2, <1>3 DEF LotsInv
<1> QED BY <1>4, InitHInv DEF LInv

LEMMA StepLInv == LInv /\ [Next]_vars => LInv'
<1> SUFFICES ASSUME LInv, [Next]_vars PROVE LInv'
  OBVIOUS
<1>1. /\ HInv /\ HInv' /\ LedgerInv(ledger) /\ LedgerInv(ledger')
      /\ ReversedOnce(ledger) /\ EntriesInv(ledger) /\ LotsInv(ledger)
  BY StepHInv DEF LInv, HInv, IInv, HistoryInv, LedgerInv
<1> SUFFICES LotsInv(ledger')
  BY <1>1 DEF LInv
<1>2. ASSUME NEW a \in Account, NEW c \in Currency, NEW amount \in Amounts, NEW v \in Costs,
             NEW p \in TaxPercents, RecordIncome(a, c, amount, v, p)
      PROVE  LotsInv(ledger')
  BY <1>1, <1>2, RecordIncomeLots
<1>3. ASSUME NEW a \in Account, NEW g \in Regular, NEW c \in Currency, NEW amount \in Amounts,
             RecordExpense(a, g, c, amount)
      PROVE  LotsInv(ledger')
  BY <1>1, <1>3, RecordExpenseLots
<1>4. ASSUME NEW a \in Account, NEW c \in Currency, NEW d \in Currency,
             NEW given \in Amounts, NEW received \in Amounts,
             ExchangeCurrency(a, c, given, d, received)
      PROVE  LotsInv(ledger')
  BY <1>1, <1>4, ExchangeCurrencyLots
<1>5. ASSUME NEW a \in Account, NEW t \in Account, NEW c \in Currency, NEW amount \in Amounts,
             TransferBetweenAccounts(a, t, c, amount)
      PROVE  LotsInv(ledger')
  BY <1>1, <1>5, TransferLots
<1>6. ASSUME NEW f \in Category, NEW t \in Category, NEW amount \in Amounts,
             AllocateBudget(f, t, amount)
      PROVE  LotsInv(ledger')
  <2>1. CategoryOwner(f) \in Owner /\ amount \in Int
    BY CategoryOwned, AmountAssumption, SMT
  <2>2. In(f, amount) \in [Category -> Int] /\ In(t, amount) \in [Category -> Int]
    BY <2>1, RowValues
  <2>3. ledger' = Posted(ledger, Op("allocate", CategoryOwner(f), NoBank, In(f, amount),
                                    In(t, amount), NoUse(ledger)), NoBank, <<>>)
    BY <1>6 DEF AllocateBudget
  <2> QED BY <1>1, <2>1, <2>2, <2>3, BudgetOnlyLots
<1>7. ASSUME NEW f \in Category, NEW plan \in GroupPlans, NEW amount \in Amounts,
             AllocateGroupBudget(f, plan, amount)
      PROVE  LotsInv(ledger')
  <2>1. CategoryOwner(f) \in Owner /\ amount \in Int
    BY CategoryOwned, AmountAssumption, SMT
  <2>2. In(f, amount) \in [Category -> Int] /\ MemberCredit(plan, amount) \in [Category -> Int]
    BY <2>1, RowValues, MemberCreditInt
  <2>3. ledger' = Posted(ledger, Op("group_allocate", CategoryOwner(f), NoBank, In(f, amount),
                                    MemberCredit(plan, amount), NoUse(ledger)), NoBank, <<>>)
    BY <1>7 DEF AllocateGroupBudget
  <2> QED BY <1>1, <2>1, <2>2, <2>3, BudgetOnlyLots
<1>8. ASSUME NEW k \in DOMAIN ledger.operations, ReverseOperation(k)
      PROVE  LotsInv(ledger')
  BY <1>1, <1>8, ReverseOperationLots
<1>9. CASE RebuildCurrentBalances
  <2>1. ledger' = Rebuilt(ledger)
    BY <1>9 DEF RebuildCurrentBalances
  <2> DEFINE t == Rebuilt(ledger)
  <2>2. /\ t.operations = ledger.operations /\ t.amount = ledger.amount /\ t.lots = ledger.lots
        /\ \A b \in Balance : ~IsBase(b) => t.cost[b] = ledger.cost[b]
        /\ TicksPerCent = 1 => t.cost = ledger.cost
    BY <1>1, RebuiltRows, RebuiltCosts
  <2> HIDE DEF t
  <2>3. LotsInv(t)
    BY <1>1, <2>2, SameLots
  <2> QED BY <2>1, <2>3 DEF t
<1>10. ASSUME NEW c \in Regular, ArchiveCategory(c)
       PROVE  LotsInv(ledger')
  BY <1>1, <1>10, ArchiveCategoryLots
<1>11. CASE UNCHANGED ledger
  BY <1>1, <1>11
<1>12. /\ \A a \in Account, limit \in Limits : UpdateCreditLimit(a, limit) => UNCHANGED ledger
       /\ \A a \in Account : ArchiveCreditAccount(a) => UNCHANGED ledger
       /\ UNCHANGED vars => UNCHANGED ledger
  BY DEF UpdateCreditLimit, ArchiveCreditAccount, vars
<1> QED BY <1>2, <1>3, <1>4, <1>5, <1>6, <1>7, <1>8, <1>9, <1>10, <1>11, <1>12 DEF Next

LEMMA LInvAlways == Spec => []LInv
  BY InitLInv, StepLInv, PTL DEF Spec

\* FIFO, its rounding, and reversals together: what is missing from a lot, in
\* money and in cost, is what live operations consumed of it; the lots of a
\* reversed operation are empty and nothing live was taken from them.
THEOREM LotsMatch == Spec => []LotsMatchConsumptions
<1>1. LInv => LotsMatchConsumptions
  <2> SUFFICES ASSUME LInv PROVE LotsMatchConsumptions
    OBVIOUS
  <2>1. LotsLeft(ledger)
    BY DEF LInv, LotsInv
  <2>2. ASSUME NEW i \in DOMAIN ledger.lots
        PROVE  /\ UsedOf(i) = SumTo(UsesOf(ledger, i), Len(ledger.operations))
               /\ UsedCostOf(i) = SumTo(UseCostsOf(ledger, i), Len(ledger.operations))
    <3>1. \A row : UsedNow(ledger, row)[i] = RowAt(row, i)
      BY DEF UsedNow, RowAt
    <3> QED BY <3>1 DEF UsedOf, UsedCostOf, UsesOf, UseCostsOf
  <2> QED BY <2>1, <2>2 DEF LotsLeft, LotsMatchConsumptions
<1> QED BY LInvAlways, <1>1, PTL

\* put__consume_fifo_lots raises when the lots do not cover an amount that
\* passed the balance check: they always do.
THEOREM LotsBack == Spec => []LotsBackBalances
<1>1. LInv => LotsBackBalances
  BY DEF LInv, LotsInv, LotsHold, LotsBackBalances
<1> QED BY LInvAlways, <1>1, PTL

\* rebuild_current_balances finds the historical cost of every foreign-currency
\* balance as put__apply_current_bank_delta has left it, whatever was rounded.
ForeignCostsAreLots ==
    \A b \in Balance : ~IsBase(b) => Rebuilt(ledger).cost[b] = ledger.cost[b]

THEOREM RebuildKeepsForeignCosts == Spec => []ForeignCostsAreLots
<1>1. LInv => ForeignCostsAreLots
  BY RebuiltCosts DEF LInv, HInv, IInv, HistoryInv, ForeignCostsAreLots
<1> QED BY LInvAlways, <1>1, PTL

\* Where accounts hold whole cents, a rebuild changes nothing at all.
THEOREM RebuildFindsTheSame ==
    ASSUME TicksPerCent = 1
    PROVE  Spec => []RebuildChangesNothing
<1>1. LInv => RebuildChangesNothing
  <2> SUFFICES ASSUME LInv PROVE Rebuilt(ledger) = ledger
    BY DEF RebuildChangesNothing
  <2> DEFINE t == Rebuilt(ledger)
  <2>1. LedgerInv(ledger) /\ EntriesInv(ledger) /\ LotsInv(ledger)
    BY DEF LInv, HInv, IInv, HistoryInv
  <2>2. /\ t.operations = ledger.operations /\ t.lots = ledger.lots
        /\ t.amount = ledger.amount /\ t.cost = ledger.cost /\ t.budget = ledger.budget
    BY <2>1, RebuiltRows, RebuiltCosts
  <2>3. ledger \in Ledger /\ t \in Ledger
    BY <2>1, RebuiltInv DEF LedgerInv
  <2> HIDE DEF t
  <2>4. t = ledger
    BY <2>2, <2>3, LedgerParts
  <2> QED BY <2>4 DEF t
<1> QED BY LInvAlways, <1>1, PTL

(***************************************************************************)
(* The budget debt of a card, one operation later.                          *)
(***************************************************************************)
BaseBalance(a) == <<a, BaseOf(a)>>

\* what an operation adds to the debt of a card until it is taken back
EffectOn(op, a) ==
    IF op.type = "account_transfer" /\ op.bank[BaseBalance(a)] # 0 THEN BudgetEffect(op) ELSE 0

LEMMA BaseIsBalance ==
    ASSUME NEW a \in Account
    PROVE  /\ BaseBalance(a) \in Balance /\ IsBase(BaseBalance(a))
           /\ \A b \in Balance : b[1] = a /\ IsBase(b) => b = BaseBalance(a)
<1>1. AccountOwner[a] \in Owner /\ OwnerBase[AccountOwner[a]] \in Currency
  BY OwnershipAssumption
<1>2. BaseOf(a) \in Currency
  BY <1>1 DEF BaseOf
<1> QED BY <1>2, BalanceParts, SMT DEF BaseBalance, IsBase, Balance

LEMMA EffectInt ==
    ASSUME NEW op \in Operation, NEW a
    PROVE  EffectOn(op, a) \in Int
<1>1. BudgetEffect(op) \in Int
  BY BudgetEffectInt
<1> QED BY <1>1, SMT DEF EffectOn

LEMMA EffectRows ==
    ASSUME NEW s \in Ledger, NEW a, NEW k \in DOMAIN s.operations
    PROVE  TransferEffects(s, a)[k] = IF IsReversed(s, k) THEN 0 ELSE EffectOn(s.operations[k], a)
BY DEF TransferEffects, EffectOn, BaseBalance

\* An operation that takes nothing back adds its effect.
LEMMA DebtThen ==
    ASSUME NEW s \in Ledger, NEW t \in Ledger, NEW op, Recorded(s, t, op),
           ReversedOnce(s), op.reverses = 0, NEW a
    PROVE  /\ TransferDebt(s, a) \in Int
           /\ TransferDebt(t, a) = TransferDebt(s, a) + EffectOn(op, a)
<1> DEFINE n == Len(s.operations)
           v == TransferEffects(s, a)
           w == TransferEffects(t, a)
           x == EffectOn(op, a)
<1>1. /\ n \in Nat /\ Len(t.operations) = n + 1
      /\ DOMAIN s.operations = 1..n /\ DOMAIN t.operations = 1..(n + 1)
      /\ \A k \in 1..n : t.operations[k] = s.operations[k]
      /\ t.operations[n + 1] = op /\ op \in Operation
  BY RecordedRows
<1>2. \A k \in 1..n : s.operations[k] \in Operation
  BY <1>1, LedgerFields
<1>3. TransferDebt(s, a) = SumTo(v, n) /\ TransferDebt(t, a) = SumTo(w, n + 1)
  BY <1>1 DEF TransferDebt
<1> HIDE DEF n
<1>4. /\ \A k \in 1..n : k \in 1..(n + 1) /\ k # 0
      /\ n + 1 \in 1..(n + 1) /\ n + 1 # 0 /\ n + 1 \notin 1..n
  BY <1>1, SMT
<1>5. \A k \in 1..n : IsReversed(t, k) <=> IsReversed(s, k)
  BY <1>4, ReversedThen
<1>6. ~IsReversed(t, n + 1)
  <2>1. ~IsReversed(s, n + 1)
    <3> SUFFICES ASSUME NEW r \in DOMAIN s.operations, s.operations[r].reverses = n + 1 PROVE FALSE
      BY DEF IsReversed
    <3> QED BY <1>1, <1>4 DEF ReversedOnce
  <2> QED BY <1>4, <2>1, ReversedThen
<1>7. ASSUME NEW k \in 1..n PROVE v[k] \in Int /\ w[k] = v[k]
  <2>1. v[k] = IF IsReversed(s, k) THEN 0 ELSE EffectOn(s.operations[k], a)
    BY <1>1, EffectRows
  <2>2. w[k] = IF IsReversed(t, k) THEN 0 ELSE EffectOn(t.operations[k], a)
    BY <1>1, <1>4, EffectRows
  <2>3. EffectOn(s.operations[k], a) \in Int
    BY <1>2, EffectInt
  <2>4. (IF IsReversed(s, k) THEN 0 ELSE EffectOn(s.operations[k], a)) \in Int
    BY <2>3
  <2> QED BY <1>1, <1>5, <2>1, <2>2, <2>4
<1>8. w[n + 1] = x
  <2>1. w[n + 1] = IF IsReversed(t, n + 1) THEN 0 ELSE EffectOn(t.operations[n + 1], a)
    BY <1>1, <1>4, EffectRows
  <2> QED BY <1>1, <1>6, <2>1
<1>9. x \in Int
  BY <1>1, EffectInt
<1> HIDE DEF v, w, x
<1>10. SumTo(v, n) \in Int /\ SumTo(w, n + 1) = SumTo(v, n) + x
  BY <1>1, <1>7, <1>8, SumToOneMore
<1> QED BY <1>3, <1>10 DEF x

\* An operation that takes k back takes the effect of k back.
LEMMA DebtTakenBack ==
    ASSUME NEW s \in Ledger, NEW t \in Ledger, NEW op, Recorded(s, t, op),
           op.type = "reversal", NEW k \in DOMAIN s.operations, op.reverses = k,
           ~IsReversed(s, k), NEW a
    PROVE  /\ TransferDebt(s, a) \in Int
           /\ TransferDebt(t, a) = TransferDebt(s, a) - EffectOn(s.operations[k], a)
<1> DEFINE n == Len(s.operations)
           v == TransferEffects(s, a)
           w == TransferEffects(t, a)
           d == EffectOn(s.operations[k], a)
<1>1. /\ n \in Nat /\ Len(t.operations) = n + 1
      /\ DOMAIN s.operations = 1..n /\ DOMAIN t.operations = 1..(n + 1)
      /\ \A j \in 1..n : t.operations[j] = s.operations[j]
      /\ t.operations[n + 1] = op /\ op \in Operation
  BY RecordedRows
<1>2. \A j \in 1..n : s.operations[j] \in Operation
  BY <1>1, LedgerFields
<1>3. TransferDebt(s, a) = SumTo(v, n) /\ TransferDebt(t, a) = SumTo(w, n + 1)
  BY <1>1 DEF TransferDebt
<1> HIDE DEF n
<1>4. (\A j \in 1..n : j \in 1..(n + 1)) /\ n + 1 \in 1..(n + 1)
  BY <1>1, SMT
<1>5. \A j \in 1..n : IsReversed(t, j) <=> IsReversed(s, j) \/ j = k
  BY <1>4, ReversedThen
<1>6. d \in Int /\ -d \in Int /\ k \in 1..n
  <2>1. d \in Int
    BY <1>1, <1>2, EffectInt
  <2> QED BY <1>1, <2>1, SMT
<1>7. ASSUME NEW j \in 1..n
      PROVE  /\ v[j] \in Int /\ (j # k => w[j] = v[j]) /\ (j = k => v[j] = d /\ w[j] = 0)
  <2>1. v[j] = IF IsReversed(s, j) THEN 0 ELSE EffectOn(s.operations[j], a)
    BY <1>1, EffectRows
  <2>2. w[j] = IF IsReversed(t, j) THEN 0 ELSE EffectOn(t.operations[j], a)
    BY <1>1, <1>4, EffectRows
  <2>3. EffectOn(s.operations[j], a) \in Int
    BY <1>2, EffectInt
  <2>4. (IF IsReversed(s, j) THEN 0 ELSE EffectOn(s.operations[j], a)) \in Int
    BY <2>3
  <2> QED BY <1>1, <1>5, <2>1, <2>2, <2>4
<1>8. w[n + 1] = 0
  <2>1. w[n + 1] = IF IsReversed(t, n + 1) THEN 0 ELSE EffectOn(t.operations[n + 1], a)
    BY <1>1, <1>4, EffectRows
  <2>2. EffectOn(op, a) = 0
    BY DEF EffectOn
  <2> QED BY <1>1, <2>1, <2>2
<1> HIDE DEF v, w, d
<1>9. v[k] = d /\ w[k] = 0
  BY <1>6, <1>7
<1>10. SumTo(v, n) \in Int /\ SumTo(w, n) = SumTo(v, n) - v[k]
  <2>1. /\ n \in Nat /\ k \in 1..n /\ w[k] = 0
        /\ \A j \in 1..n : v[j] \in Int /\ (j # k => w[j] = v[j])
    BY <1>1, <1>6, <1>7, <1>9
  <2> QED BY <2>1, SumToRowGone
<1>11. SumTo(w, n + 1) = SumTo(w, n) + w[n + 1]
  BY <1>1, SumToNext
<1>12. SumTo(w, n + 1) = SumTo(v, n) - d
  BY <1>6, <1>8, <1>9, <1>10, <1>11, SMT
<1> QED BY <1>3, <1>10, <1>12 DEF d


(***************************************************************************)
(* The budget rows of an operation, summed.                                 *)
(***************************************************************************)
InAll(row) == SumFunctionOnSet(row, Category)

LEMMA InAllInt == ASSUME NEW row \in [Category -> Int] PROVE InAll(row) \in Int
  BY CategoryFinite, SumOverInt DEF InAll

LEMMA InAllDifference ==
    ASSUME NEW from \in [Category -> Int], NEW to \in [Category -> Int]
    PROVE  InAll(Minus(to, from)) = InAll(to) - InAll(from)
<1> DEFINE d == Minus(to, from)
<1>1. \A c \in Category : d[c] \in Int /\ from[c] \in Int /\ to[c] = d[c] + from[c]
  BY SMT DEF Minus
<1> HIDE DEF d
<1>2. SumFunctionOnSet(to, Category) = SumFunctionOnSet(d, Category) + SumFunctionOnSet(from, Category)
  BY <1>1, CategoryFinite, SumOverPlus
<1>3. SumFunctionOnSet(d, Category) \in Int /\ SumFunctionOnSet(from, Category) \in Int
  BY <1>1, CategoryFinite, SumOverInt
<1>4. SumFunctionOnSet(d, Category) = SumFunctionOnSet(to, Category) - SumFunctionOnSet(from, Category)
  BY <1>2, <1>3, SMT
<1> QED BY <1>4 DEF d, InAll

LEMMA InAllOfOne ==
    ASSUME NEW c \in Category, NEW x \in Int
    PROVE  InAll(In(c, x)) = x
<1> DEFINE v == In(c, x)
<1>1. \A e \in Category : v[e] = IF e = c THEN x ELSE 0
  BY DEF In
<1> HIDE DEF v
<1>2. SumFunctionOnSet(v, Category) = x
  BY <1>1, CategoryFinite, SumOverOne
<1> QED BY <1>2 DEF v, InAll

LEMMA InAllOfNone == InAll(NoBudget) = 0
<1>1. \A e \in Category : NoBudget[e] = 0
  BY DEF NoBudget
<1> QED BY <1>1, CategoryFinite, SumOverZeros DEF InAll

LEMMA EffectOfOp ==
    ASSUME NEW type, NEW owner, NEW bank, NEW w,
           NEW from \in [Category -> Int], NEW to \in [Category -> Int]
    PROVE  BudgetEffect(Op(type, owner, bank, from, to, w)) = InAll(to) - InAll(from)
<1>1. BudgetEffect(Op(type, owner, bank, from, to, w)) = InAll(Minus(to, from))
  BY DEF BudgetEffect, Op, InAll
<1> QED BY <1>1, InAllDifference

(***************************************************************************)
(* No card has brought more into the budget than is owed on it.             *)
(***************************************************************************)
Owes(amount, debt) == 0 <= debt /\ debt <= Greater(0, -amount)

\* only operations that are no reversals, and not between two cards
Ordinary(op) == op.reverses = 0 /\ ~BetweenCards(op)
OrdinaryOn(s, b) ==
    \A k \in DOMAIN s.operations : s.operations[k].bank[b] # 0 => Ordinary(s.operations[k])

DebtOwed(s) ==
    \A a \in Account :
        IsCredit(a) /\ OrdinaryOn(s, BaseBalance(a))
        => Owes(s.amount[BaseBalance(a)], TransferDebt(s, a))

\* what an operation has to see to
KeepsOwed(s, op) ==
    \A a \in Account :
        LET b == BaseBalance(a)
        IN  IsCredit(a) /\ op.bank[b] # 0 /\ ~BetweenCards(op)
            => (Owes(s.amount[b], TransferDebt(s, a))
                => Owes(s.amount[b] + op.bank[b], TransferDebt(s, a) + EffectOn(op, a)))

LEMMA OrdinaryBefore ==
    ASSUME NEW s \in Ledger, NEW t \in Ledger, NEW op, Recorded(s, t, op), NEW b,
           OrdinaryOn(t, b)
    PROVE  OrdinaryOn(s, b) /\ (op.bank[b] # 0 => Ordinary(op))
<1> DEFINE n == Len(s.operations)
<1>1. /\ n \in Nat /\ DOMAIN s.operations = 1..n /\ DOMAIN t.operations = 1..(n + 1)
      /\ \A k \in 1..n : t.operations[k] = s.operations[k]
      /\ t.operations[n + 1] = op
  BY RecordedRows
<1> HIDE DEF n
<1>2. (\A k \in 1..n : k \in 1..(n + 1)) /\ n + 1 \in 1..(n + 1)
  BY <1>1, SMT
<1> QED BY <1>1, <1>2 DEF OrdinaryOn

LEMMA OwedThen ==
    ASSUME NEW s \in Ledger, NEW t \in Ledger, NEW op, Recorded(s, t, op),
           ReversedOnce(s), op.reverses = 0, DebtOwed(s), KeepsOwed(s, op)
    PROVE  DebtOwed(t)
<1> SUFFICES ASSUME NEW a \in Account, IsCredit(a), OrdinaryOn(t, BaseBalance(a))
             PROVE  Owes(t.amount[BaseBalance(a)], TransferDebt(t, a))
  BY DEF DebtOwed
<1> DEFINE b == BaseBalance(a)
<1>1. b \in Balance /\ OrdinaryOn(s, b) /\ (op.bank[b] # 0 => Ordinary(op))
  BY BaseIsBalance, OrdinaryBefore
<1>2. t.amount[b] = s.amount[b] + op.bank[b] /\ s.amount[b] \in Int
  <2>1. \A d \in Balance : t.amount[d] = s.amount[d] + op.bank[d]
    BY RecordedRows
  <2>2. s.amount \in [Balance -> Int]
    BY LedgerFields
  <2> QED BY <1>1, <2>1, <2>2
<1>3. TransferDebt(s, a) \in Int /\ TransferDebt(t, a) = TransferDebt(s, a) + EffectOn(op, a)
  BY DebtThen
<1>4. Owes(s.amount[b], TransferDebt(s, a))
  BY <1>1 DEF DebtOwed
<1>5. CASE op.bank[b] # 0
  <2>1. Owes(s.amount[b] + op.bank[b], TransferDebt(s, a) + EffectOn(op, a))
    BY <1>1, <1>4, <1>5 DEF KeepsOwed, Ordinary
  <2> QED BY <1>2, <1>3, <2>1
<1>6. CASE op.bank[b] = 0
  <2>1. EffectOn(op, a) = 0
    BY <1>6 DEF EffectOn
  <2>2. t.amount[b] = s.amount[b] /\ TransferDebt(t, a) = TransferDebt(s, a)
    BY <1>2, <1>3, <1>6, <2>1, SMT
  <2> QED BY <1>4, <2>2
<1> QED BY <1>5, <1>6

LEMMA OwedTakenBack ==
    ASSUME NEW s \in Ledger, NEW t \in Ledger, NEW op, Recorded(s, t, op),
           op.type = "reversal", NEW k \in DOMAIN s.operations, op.reverses = k, k # 0,
           \A b \in Balance : op.bank[b] = -s.operations[k].bank[b],
           ~IsReversed(s, k), DebtOwed(s)
    PROVE  DebtOwed(t)
<1> SUFFICES ASSUME NEW a \in Account, IsCredit(a), OrdinaryOn(t, BaseBalance(a))
             PROVE  Owes(t.amount[BaseBalance(a)], TransferDebt(t, a))
  BY DEF DebtOwed
<1> DEFINE b == BaseBalance(a)
           old == s.operations[k]
<1>1. b \in Balance /\ OrdinaryOn(s, b) /\ (op.bank[b] # 0 => Ordinary(op))
  BY BaseIsBalance, OrdinaryBefore
<1>2. op.bank[b] = 0
  BY <1>1 DEF Ordinary
<1>3. old.bank[b] = 0
  <2>1. old.bank \in [Balance -> Int]
    BY LedgerFields, OperationFields
  <2>2. old.bank[b] \in Int /\ op.bank[b] = -old.bank[b]
    BY <1>1, <2>1
  <2> QED BY <1>2, <2>2, SMT
<1>4. EffectOn(old, a) = 0
  BY <1>3 DEF EffectOn
<1>5. TransferDebt(s, a) \in Int /\ TransferDebt(t, a) = TransferDebt(s, a) - EffectOn(old, a)
  BY DebtTakenBack
<1>6. t.amount[b] = s.amount[b] + op.bank[b] /\ s.amount[b] \in Int
  <2>1. \A d \in Balance : t.amount[d] = s.amount[d] + op.bank[d]
    BY RecordedRows
  <2>2. s.amount \in [Balance -> Int]
    BY LedgerFields
  <2> QED BY <1>1, <2>1, <2>2
<1>7. Owes(s.amount[b], TransferDebt(s, a))
  BY <1>1 DEF DebtOwed
<1>8. t.amount[b] = s.amount[b] /\ TransferDebt(t, a) = TransferDebt(s, a)
  <2> HIDE DEF b, old
  <2> QED BY <1>2, <1>4, <1>5, <1>6, SMT
<1> QED BY <1>7, <1>8

(***************************************************************************)
(* The budget is the money on the accounts, plus what the cards brought in. *)
(***************************************************************************)
InAccounts(cost) == SumFunctionOnSet(InBudget(cost), Balance)
CardsBrought(s) == SumFunctionOnSet(DebtOfCards(s), Account)

\* what an operation adds to the debt of all cards
CardEffects(op) == [a \in Account |-> IF IsCredit(a) THEN EffectOn(op, a) ELSE 0]
OnCards(op) == SumFunctionOnSet(CardEffects(op), Account)

MoneyInv(s) == InAll(s.budget) = InAccounts(s.cost) + CardsBrought(s)

\* an operation and the change of costs it makes leave that so, and so does
\* taking it back at whatever the reversal costs
Balanced(op, costDelta) == BudgetEffect(op) = InAccounts(costDelta) + OnCards(op)
Undoable(s) ==
    \A k \in DOMAIN s.operations : s.operations[k].type # "reversal" =>
        BudgetEffect(s.operations[k]) = OnCards(s.operations[k]) - InAccounts(ReversalCost(s, k))

MoneyHolds(s) == DebtOwed(s) /\ MoneyInv(s) /\ Undoable(s)

LEMMA FiniteKeys == IsFiniteSet(Balance) /\ IsFiniteSet(Account) /\ IsFiniteSet(Category)
<1>1. IsFiniteSet(Account) /\ IsFiniteSet(Currency)
  BY OwnershipAssumption
<1> QED BY <1>1, FS_Product, CategoryFinite DEF Balance

LEMMA InAccountsInt == ASSUME NEW cost \in [Balance -> Int] PROVE InAccounts(cost) \in Int
<1> DEFINE v == InBudget(cost)
<1>1. \A b \in Balance : v[b] \in Int
  BY DEF InBudget
<1> HIDE DEF v
<1>2. SumFunctionOnSet(v, Balance) \in Int
  BY <1>1, FiniteKeys, SumOverInt
<1> QED BY <1>2 DEF InAccounts, v

LEMMA InAccountsPlus ==
    ASSUME NEW f \in [Balance -> Int], NEW g \in [Balance -> Int], NEW h,
           \A b \in Balance : h[b] = f[b] + g[b]
    PROVE  InAccounts(h) = InAccounts(f) + InAccounts(g)
<1> DEFINE u == InBudget(h)
           v == InBudget(f)
           w == InBudget(g)
<1>1. \A b \in Balance : v[b] \in Int /\ w[b] \in Int /\ u[b] = v[b] + w[b]
  BY SMT DEF InBudget
<1> HIDE DEF u, v, w
<1>2. SumFunctionOnSet(u, Balance) = SumFunctionOnSet(v, Balance) + SumFunctionOnSet(w, Balance)
  BY <1>1, FiniteKeys, SumOverPlus
<1> QED BY <1>2 DEF InAccounts, u, v, w

LEMMA InAccountsSame ==
    ASSUME NEW f, NEW g, \A b \in Balance : f[b] = g[b]
    PROVE  InAccounts(f) = InAccounts(g)
<1>1. InBudget(f) = InBudget(g)
  BY DEF InBudget
<1> QED BY <1>1 DEF InAccounts

LEMMA NothingInAccounts == InAccounts(NoBank) = 0
<1> DEFINE v == InBudget(NoBank)
<1>1. \A b \in Balance : v[b] = 0
  BY DEF InBudget, NoBank
<1> HIDE DEF v
<1>2. SumFunctionOnSet(v, Balance) = 0
  BY <1>1, FiniteKeys, SumOverZeros
<1> QED BY <1>2 DEF InAccounts, v

LEMMA InAccountsOpposite ==
    ASSUME NEW f \in [Balance -> Int], NEW g, \A b \in Balance : g[b] = -f[b]
    PROVE  InAccounts(g) = -InAccounts(f)
<1> DEFINE h == [b \in Balance |-> -f[b]]
<1>1. h \in [Balance -> Int] /\ \A b \in Balance : h[b] = -f[b]
  BY SMT
<1>2. \A b \in Balance : NoBank[b] = f[b] + h[b]
  BY <1>1, SMT DEF NoBank
<1> HIDE DEF h
<1>3. InAccounts(NoBank) = InAccounts(f) + InAccounts(h)
  BY <1>1, <1>2, InAccountsPlus
<1>4. InAccounts(f) \in Int /\ InAccounts(h) \in Int
  BY <1>1, InAccountsInt
<1>5. InAccounts(h) = -InAccounts(f)
  BY <1>3, <1>4, NothingInAccounts, SMT
<1>6. InAccounts(g) = InAccounts(h)
  BY <1>1, InAccountsSame
<1> QED BY <1>5, <1>6

LEMMA InAccountsOfOne ==
    ASSUME NEW b \in Balance, NEW x \in Int
    PROVE  InAccounts(On(b, x)) = IF AccountKind[b[1]] # "investment" THEN x ELSE 0
<1> DEFINE v == InBudget(On(b, x))
           y == IF AccountKind[b[1]] # "investment" THEN x ELSE 0
<1>1. \A d \in Balance : v[d] = IF d = b THEN y ELSE 0
  BY DEF InBudget, On
<1>2. y \in Int
  BY SMT
<1> HIDE DEF v, y
<1>3. SumFunctionOnSet(v, Balance) = y
  BY <1>1, <1>2, FiniteKeys, SumOverOne
<1> QED BY <1>3 DEF InAccounts, v, y

LEMMA OnCardsInt == ASSUME NEW op \in Operation PROVE OnCards(op) \in Int
<1> DEFINE v == CardEffects(op)
<1>1. \A a \in Account : v[a] \in Int
  <2>1. \A a \in Account : EffectOn(op, a) \in Int
    BY EffectInt
  <2> QED BY <2>1, SMT DEF CardEffects
<1> HIDE DEF v
<1>2. SumFunctionOnSet(v, Account) \in Int
  BY <1>1, FiniteKeys, SumOverInt
<1> QED BY <1>2 DEF OnCards, v

LEMMA OnNoCard ==
    ASSUME NEW op, \A a \in Account : IsCredit(a) => EffectOn(op, a) = 0
    PROVE  OnCards(op) = 0
<1> DEFINE v == CardEffects(op)
<1>1. \A a \in Account : v[a] = 0
  BY DEF CardEffects
<1> HIDE DEF v
<1>2. SumFunctionOnSet(v, Account) = 0
  BY <1>1, FiniteKeys, SumOverZeros
<1> QED BY <1>2 DEF OnCards, v

LEMMA OnOneCard ==
    ASSUME NEW op \in Operation, NEW r \in Account, IsCredit(r),
           \A a \in Account : IsCredit(a) /\ a # r => EffectOn(op, a) = 0
    PROVE  OnCards(op) = EffectOn(op, r)
<1> DEFINE v == CardEffects(op)
           x == EffectOn(op, r)
<1>1. \A a \in Account : v[a] = IF a = r THEN x ELSE 0
  BY DEF CardEffects
<1>2. x \in Int
  BY EffectInt
<1> HIDE DEF v, x
<1>3. SumFunctionOnSet(v, Account) = x
  BY <1>1, <1>2, FiniteKeys, SumOverOne
<1> QED BY <1>3 DEF OnCards, v, x

\* The debt of all cards, when that of each changes by a multiple of an effect.
LEMMA CardsThen ==
    ASSUME NEW s, NEW t, NEW op \in Operation,
           \A a \in Account : /\ TransferDebt(s, a) \in Int
                              /\ TransferDebt(t, a) = TransferDebt(s, a) + EffectOn(op, a)
    PROVE  CardsBrought(s) \in Int /\ CardsBrought(t) = CardsBrought(s) + OnCards(op)
<1> DEFINE u == DebtOfCards(t)
           v == DebtOfCards(s)
           w == CardEffects(op)
<1>1. \A a \in Account : v[a] \in Int /\ w[a] \in Int /\ u[a] = v[a] + w[a]
  <2>1. \A a \in Account : EffectOn(op, a) \in Int
    BY EffectInt
  <2> QED BY <2>1, SMT DEF CardEffects, DebtOfCards
<1> HIDE DEF u, v, w
<1>2. SumFunctionOnSet(u, Account) = SumFunctionOnSet(v, Account) + SumFunctionOnSet(w, Account)
  BY <1>1, FiniteKeys, SumOverPlus
<1>3. SumFunctionOnSet(v, Account) \in Int
  BY <1>1, FiniteKeys, SumOverInt
<1> QED BY <1>2, <1>3 DEF CardsBrought, OnCards, u, v, w

\* The budget after an operation.
LEMMA InAllThen ==
    ASSUME NEW s \in Ledger, NEW t \in Ledger, NEW op, Recorded(s, t, op)
    PROVE  /\ InAll(s.budget) \in Int /\ BudgetEffect(op) \in Int /\ op \in Operation
           /\ InAll(t.budget) = InAll(s.budget) + BudgetEffect(op)
<1> DEFINE u == t.budget
           v == s.budget
           w == Minus(op.to, op.from)
<1>1. op \in Operation /\ \A c \in Category : t.budget[c] = s.budget[c] + (op.to[c] - op.from[c])
  BY RecordedRows
<1>2. op.from \in [Category -> Int] /\ op.to \in [Category -> Int] /\ s.budget \in [Category -> Int]
  BY <1>1, OperationFields, LedgerFields
<1>3. \A c \in Category : v[c] \in Int /\ w[c] \in Int /\ u[c] = v[c] + w[c]
  BY <1>1, <1>2, SMT DEF Minus
<1>4. InAll(s.budget) \in Int /\ BudgetEffect(op) \in Int
  BY <1>1, <1>2, InAllInt, BudgetEffectInt
<1> HIDE DEF u, v, w
<1>5. SumFunctionOnSet(u, Category) = SumFunctionOnSet(v, Category) + SumFunctionOnSet(w, Category)
  BY <1>3, FiniteKeys, SumOverPlus
<1> QED BY <1>1, <1>4, <1>5 DEF u, v, w, InAll, BudgetEffect

LEMMA MoneyThen ==
    ASSUME NEW s, NEW t, NEW op, NEW costDelta, LedgerInv(s), ReversedOnce(s),
           Booked(s, t, op, costDelta), Balanced(op, costDelta), MoneyInv(s)
    PROVE  MoneyInv(t)
<1>1. /\ s \in Ledger /\ t \in Ledger /\ Recorded(s, t, op) /\ op.reverses = 0
      /\ costDelta \in [Balance -> Int] /\ t.cost = Plus(s.cost, costDelta)
  BY DEF Booked, LedgerInv
<1>2. /\ InAll(s.budget) \in Int /\ BudgetEffect(op) \in Int /\ op \in Operation
      /\ InAll(t.budget) = InAll(s.budget) + BudgetEffect(op)
  BY <1>1, InAllThen
<1>3. CardsBrought(s) \in Int /\ CardsBrought(t) = CardsBrought(s) + OnCards(op)
  <2>1. \A a \in Account : /\ TransferDebt(s, a) \in Int
                           /\ TransferDebt(t, a) = TransferDebt(s, a) + EffectOn(op, a)
    BY <1>1, DebtThen
  <2> QED BY <1>2, <2>1, CardsThen
<1>4. s.cost \in [Balance -> Int]
  BY <1>1, LedgerFields
<1>5. InAccounts(t.cost) = InAccounts(s.cost) + InAccounts(costDelta)
  <2>1. \A b \in Balance : t.cost[b] = s.cost[b] + costDelta[b]
    BY <1>1, <1>4 DEF Plus
  <2> QED BY <1>1, <1>4, <2>1, InAccountsPlus
<1>6. /\ InAccounts(s.cost) \in Int /\ InAccounts(costDelta) \in Int /\ OnCards(op) \in Int
  BY <1>1, <1>2, <1>4, InAccountsInt, OnCardsInt
<1>7. /\ InAll(s.budget) = InAccounts(s.cost) + CardsBrought(s)
      /\ BudgetEffect(op) = InAccounts(costDelta) + OnCards(op)
  BY DEF MoneyInv, Balanced
<1>8. InAll(t.budget) = InAccounts(t.cost) + CardsBrought(t)
  BY <1>2, <1>3, <1>5, <1>6, <1>7, SMT
<1> QED BY <1>8 DEF MoneyInv

LEMMA UndoableThen ==
    ASSUME NEW s, NEW t, NEW op, NEW costDelta, LedgerInv(s),
           Booked(s, t, op, costDelta), Balanced(op, costDelta), Undoable(s), TicksPerCent = 1
    PROVE  Undoable(t)
<1> DEFINE n == Len(s.operations)
<1>1. /\ s \in Ledger /\ t \in Ledger /\ LedgerInv(t) /\ Recorded(s, t, op)
      /\ op.type # "reversal" /\ costDelta \in [Balance -> Int] /\ UndoneAt(t, costDelta)
      /\ \A k \in DOMAIN s.operations : s.operations[k].type # "reversal" =>
           \A e \in Balance : ReversalCost(t, k)[e] = ReversalCost(s, k)[e]
  BY DEF Booked, LedgerInv
<1>2. /\ n \in Nat /\ Len(t.operations) = n + 1 /\ op \in Operation
      /\ DOMAIN s.operations = 1..n /\ DOMAIN t.operations = 1..(n + 1)
      /\ \A k \in 1..n : t.operations[k] = s.operations[k]
      /\ t.operations[n + 1] = op
  BY <1>1, RecordedRows
<1>3. \A k \in 1..(n + 1) : k \in 1..n \/ k = n + 1
  BY <1>2, SMT
<1> SUFFICES ASSUME NEW k \in 1..(n + 1), t.operations[k].type # "reversal"
             PROVE  BudgetEffect(t.operations[k]) = OnCards(t.operations[k]) - InAccounts(ReversalCost(t, k))
  BY <1>2 DEF Undoable
<1> HIDE DEF n
<1>4. CASE k \in 1..n
  <2>1. \A e \in Balance : ReversalCost(t, k)[e] = ReversalCost(s, k)[e]
    BY <1>1, <1>2, <1>4
  <2>2. InAccounts(ReversalCost(t, k)) = InAccounts(ReversalCost(s, k))
    BY <2>1, InAccountsSame
  <2>3. BudgetEffect(s.operations[k]) = OnCards(s.operations[k]) - InAccounts(ReversalCost(s, k))
    BY <1>2, <1>4 DEF Undoable
  <2> QED BY <1>2, <1>4, <2>2, <2>3
<1>5. CASE k = n + 1
  <2>1. \A e \in Balance : ReversalCost(t, k)[e] = -costDelta[e]
    BY <1>1, <1>2, <1>5 DEF UndoneAt
  <2>2. InAccounts(ReversalCost(t, k)) = -InAccounts(costDelta)
    BY <1>1, <2>1, InAccountsOpposite
  <2>3. InAccounts(costDelta) \in Int /\ OnCards(op) \in Int
    BY <1>1, <1>2, InAccountsInt, OnCardsInt
  <2>4. BudgetEffect(op) = InAccounts(costDelta) + OnCards(op)
    BY DEF Balanced
  <2>5. BudgetEffect(op) = OnCards(op) - InAccounts(ReversalCost(t, k))
    BY <2>2, <2>3, <2>4, SMT
  <2> QED BY <1>2, <1>5, <2>5
<1> QED BY <1>3, <1>4, <1>5

\* What an operation has to see to, for the money to hold after it.
LEMMA BookedKeeps ==
    ASSUME NEW s, NEW t, NEW op, NEW costDelta, LedgerInv(s), ReversedOnce(s),
           MoneyHolds(s), Booked(s, t, op, costDelta),
           KeepsOwed(s, op), Balanced(op, costDelta), TicksPerCent = 1
    PROVE  MoneyHolds(t)
<1>1. s \in Ledger /\ t \in Ledger /\ Recorded(s, t, op) /\ op.reverses = 0
  BY DEF Booked, LedgerInv
<1>2. DebtOwed(t)
  BY <1>1, OwedThen DEF MoneyHolds
<1>3. MoneyInv(t)
  BY MoneyThen DEF MoneyHolds
<1>4. Undoable(t)
  BY UndoableThen DEF MoneyHolds
<1> QED BY <1>2, <1>3, <1>4 DEF MoneyHolds

LEMMA EffectTakenBack ==
    ASSUME NEW s, LedgerInv(s), NEW k \in DOMAIN s.operations
    PROVE  BudgetEffect(ReversalOf(s, k)) = -BudgetEffect(s.operations[k])
<1> DEFINE op == s.operations[k]
           back == ReversalOf(s, k)
           v == Minus(op.to, op.from)
           w == Minus(back.to, back.from)
           z == NoBudget
<1>1. op \in Operation
  BY LedgerFields DEF LedgerInv
<1>2. op.from \in [Category -> Int] /\ op.to \in [Category -> Int]
  BY <1>1, OperationFields
<1>3. back.from = Negated(op.from) /\ back.to = Negated(op.to)
  BY DEF ReversalOf
<1> HIDE DEF op, back
<1>4. \A c \in Category : v[c] \in Int /\ w[c] \in Int /\ z[c] = 0 /\ z[c] = v[c] + w[c]
  BY <1>2, <1>3, SMT DEF Minus, Negated, NoBudget
<1>5. SumFunctionOnSet(z, Category) = 0
  BY FiniteKeys, SumOverZeros DEF NoBudget
<1> HIDE DEF v, w, z
<1>6. SumFunctionOnSet(z, Category) = SumFunctionOnSet(v, Category) + SumFunctionOnSet(w, Category)
  BY <1>4, FiniteKeys, SumOverPlus
<1>7. SumFunctionOnSet(v, Category) \in Int /\ SumFunctionOnSet(w, Category) \in Int
  BY <1>4, FiniteKeys, SumOverInt
<1>8. SumFunctionOnSet(w, Category) = -SumFunctionOnSet(v, Category)
  BY <1>5, <1>6, <1>7, SMT
<1> QED BY <1>8 DEF BudgetEffect, op, back, v, w

\* Taking an operation back takes all it did to the money back.
LEMMA MoneyTakenBack ==
    ASSUME NEW s, NEW t, NEW k, TakenBack(s, t, k), MoneyInv(s), Undoable(s)
    PROVE  MoneyInv(t)
<1> DEFINE op == s.operations[k]
           back == ReversalOf(s, k)
           cost == ReversalCost(s, k)
<1>1. /\ LedgerInv(s) /\ k \in DOMAIN s.operations /\ op.type # "reversal" /\ ~IsReversed(s, k)
  BY DEF TakenBack
<1>2. /\ s \in Ledger /\ t \in Ledger /\ Recorded(s, t, back)
      /\ back.type = "reversal" /\ back.reverses = k
      /\ \A b \in Balance : t.cost[b] = s.cost[b] + cost[b]
  BY TakenBackRows
<1>3. op \in Operation /\ s.cost \in [Balance -> Int] /\ cost \in [Balance -> Int]
  BY <1>1, <1>2, LedgerFields, ReversalCostInt
<1>4. BudgetEffect(back) = -BudgetEffect(op)
  BY <1>1, EffectTakenBack
<1>5. BudgetEffect(op) = OnCards(op) - InAccounts(cost)
  BY <1>1 DEF Undoable
<1> HIDE DEF op, back, cost
<1>6. /\ InAll(s.budget) \in Int /\ InAll(t.budget) = InAll(s.budget) + BudgetEffect(back)
  BY <1>2, InAllThen
<1>7. InAccounts(t.cost) = InAccounts(s.cost) + InAccounts(cost)
  BY <1>2, <1>3, InAccountsPlus
<1>8. CardsBrought(t) \in Int /\ CardsBrought(s) = CardsBrought(t) + OnCards(op)
  <2>1. ASSUME NEW a \in Account
        PROVE  /\ TransferDebt(t, a) \in Int
               /\ TransferDebt(s, a) = TransferDebt(t, a) + EffectOn(op, a)
    <3>1. TransferDebt(s, a) \in Int /\ TransferDebt(t, a) = TransferDebt(s, a) - EffectOn(op, a)
      BY <1>1, <1>2, DebtTakenBack DEF op
    <3>2. EffectOn(op, a) \in Int
      BY <1>3, EffectInt
    <3> QED BY <3>1, <3>2, SMT
  <2> QED BY <1>3, <2>1, CardsThen
<1>9. InAccounts(s.cost) \in Int /\ InAccounts(cost) \in Int /\ OnCards(op) \in Int /\ BudgetEffect(op) \in Int
  BY <1>3, InAccountsInt, OnCardsInt, BudgetEffectInt
<1>10. InAll(s.budget) = InAccounts(s.cost) + CardsBrought(s)
  BY DEF MoneyInv
<1>11. InAll(t.budget) = InAccounts(t.cost) + CardsBrought(t)
  BY <1>4, <1>5, <1>6, <1>7, <1>8, <1>9, <1>10, SMT
<1> QED BY <1>11 DEF MoneyInv

LEMMA UndoableTakenBack ==
    ASSUME NEW s, NEW t, NEW k, TakenBack(s, t, k), LotsInv(s), Undoable(s)
    PROVE  Undoable(t)
<1> DEFINE n == Len(s.operations)
           back == ReversalOf(s, k)
           p == 0
<1>1. /\ LedgerInv(s) /\ LedgerInv(t) /\ LotsInOrder(s)
      /\ \A j \in DOMAIN s.operations : s.operations[j].type # "reversal" => MovesLots(s, j)
  BY DEF LotsInv, TakenBack
<1>2. /\ s \in Ledger /\ t \in Ledger /\ Recorded(s, t, back) /\ back.type = "reversal"
      /\ LotsKept(s, t, p)
  BY TakenBackRows
<1>3. /\ n \in Nat /\ DOMAIN s.operations = 1..n /\ DOMAIN t.operations = 1..(n + 1)
      /\ \A j \in 1..n : t.operations[j] = s.operations[j]
      /\ t.operations[n + 1] = back
  BY <1>2, RecordedRows
<1>4. \A j \in 1..(n + 1) : j \in 1..n \/ j = n + 1
  BY <1>3, SMT
<1>5. p = 1 => t.lots[Len(s.lots) + 1].openedBy = Len(s.operations) + 1
  BY SMT
<1> SUFFICES ASSUME NEW j \in 1..(n + 1), t.operations[j].type # "reversal"
             PROVE  BudgetEffect(t.operations[j]) = OnCards(t.operations[j]) - InAccounts(ReversalCost(t, j))
  BY <1>3 DEF Undoable
<1> HIDE DEF p, back
<1>6. j \in 1..n
  BY <1>2, <1>3, <1>4
<1>7. s.operations[j].type # "reversal" /\ MovesLots(s, j) /\ j \in DOMAIN s.operations
  BY <1>1, <1>3, <1>6
<1>8. \A e \in Balance : ReversalCost(t, j)[e] = ReversalCost(s, j)[e]
  BY <1>1, <1>2, <1>5, <1>7, UndoThen
<1>9. InAccounts(ReversalCost(t, j)) = InAccounts(ReversalCost(s, j))
  BY <1>8, InAccountsSame
<1>10. BudgetEffect(s.operations[j]) = OnCards(s.operations[j]) - InAccounts(ReversalCost(s, j))
  BY <1>7 DEF Undoable
<1> QED BY <1>3, <1>6, <1>9, <1>10

LEMMA TakenBackKeeps ==
    ASSUME NEW s, NEW t, NEW k, TakenBack(s, t, k), LotsInv(s), ReversedOnce(s), MoneyHolds(s)
    PROVE  MoneyHolds(t)
<1> DEFINE op == ReversalOf(s, k)
<1>1. /\ k \in DOMAIN s.operations /\ ~IsReversed(s, k) /\ LedgerInv(s)
      /\ DebtOwed(s) /\ MoneyInv(s) /\ Undoable(s)
  BY DEF TakenBack, MoneyHolds
<1>2. /\ s \in Ledger /\ t \in Ledger /\ Recorded(s, t, op)
      /\ op.type = "reversal" /\ op.reverses = k
      /\ \A b \in Balance : op.bank[b] = -s.operations[k].bank[b]
  BY TakenBackRows
<1>3. k # 0
  <2>1. DOMAIN s.operations = 1..Len(s.operations) /\ Len(s.operations) \in Nat
    BY <1>2, LedgerFields
  <2> QED BY <1>1, <2>1, SMT
<1> HIDE DEF op
<1>4. DebtOwed(t)
  BY <1>1, <1>2, <1>3, OwedTakenBack
<1>5. MoneyInv(t)
  BY <1>1, MoneyTakenBack
<1>6. Undoable(t)
  BY <1>1, UndoableTakenBack
<1> QED BY <1>4, <1>5, <1>6 DEF MoneyHolds

(***************************************************************************)
(* Operations that are no transfers.                                        *)
(***************************************************************************)
LEMMA DebtsInt == ASSUME NEW s, LedgerInv(s), NEW a PROVE TransferDebt(s, a) \in Int
  BY TransferDebtInt

LEMMA OtherKeepsOwed ==
    ASSUME NEW s, LedgerInv(s), NEW op \in Operation, op.type # "account_transfer",
           \A a \in Account : IsCredit(a) => op.bank[BaseBalance(a)] <= 0
    PROVE  KeepsOwed(s, op)
<1> SUFFICES ASSUME NEW a \in Account, IsCredit(a), Owes(s.amount[BaseBalance(a)], TransferDebt(s, a))
             PROVE  Owes(s.amount[BaseBalance(a)] + op.bank[BaseBalance(a)],
                         TransferDebt(s, a) + EffectOn(op, a))
  BY DEF KeepsOwed
<1> DEFINE b == BaseBalance(a)
<1>1. b \in Balance
  BY BaseIsBalance
<1>2. op.bank \in [Balance -> Int] /\ s.amount \in [Balance -> Int]
  BY OperationFields, LedgerFields DEF LedgerInv
<1>3. op.bank[b] \in Int /\ s.amount[b] \in Int /\ op.bank[b] <= 0
  BY <1>1, <1>2
<1>4. TransferDebt(s, a) \in Int
  BY DebtsInt
<1>5. EffectOn(op, a) = 0
  BY DEF EffectOn
<1> HIDE DEF b
<1>6. Owes(s.amount[b], TransferDebt(s, a))
  BY DEF b
<1>7. Owes(s.amount[b] + op.bank[b], TransferDebt(s, a) + 0)
  BY <1>3, <1>4, <1>6, SMT DEF Owes, Greater
<1> QED BY <1>5, <1>7 DEF b

LEMMA OtherKeeps ==
    ASSUME NEW s, NEW t, NEW op, NEW costDelta, LedgerInv(s), ReversedOnce(s),
           MoneyHolds(s), Booked(s, t, op, costDelta), op.type # "account_transfer",
           \A a \in Account : IsCredit(a) => op.bank[BaseBalance(a)] <= 0,
           BudgetEffect(op) = InAccounts(costDelta), TicksPerCent = 1
    PROVE  MoneyHolds(t)
<1>1. op \in Operation
  <2>1. s \in Ledger /\ t \in Ledger /\ Recorded(s, t, op)
    BY DEF Booked, LedgerInv
  <2> QED BY <2>1, RecordedRows
<1>2. KeepsOwed(s, op)
  BY <1>1, OtherKeepsOwed
<1>3. OnCards(op) = 0
  <2>1. \A a \in Account : IsCredit(a) => EffectOn(op, a) = 0
    BY DEF EffectOn
  <2> QED BY <2>1, OnNoCard
<1>4. Balanced(op, costDelta)
  <2>1. InAccounts(costDelta) \in Int
    BY InAccountsInt DEF Booked
  <2> QED BY <1>3, <2>1, SMT DEF Balanced
<1> QED BY <1>2, <1>4, BookedKeeps

\* Money that comes to a person's cash comes to a category.
LEMMA IncomeMoney ==
    ASSUME NEW s, LedgerInv(s), NEW a \in Account, NEW c \in Currency,
           NEW amount \in Nat \ {0}, NEW value \in Int, IsCash(a),
           IsBase(<<a, c>>) => value = InBase(amount), ~IsBase(<<a, c>>) => value > 0,
           LotsInv(s), ReversedOnce(s), MoneyHolds(s), TicksPerCent = 1
    PROVE  MoneyHolds(IncomePosted(s, a, c, amount, value))
<1> DEFINE b == <<a, c>>
           o == AccountOwner[a]
           to == In(Unallocated(o), value)
           bank == On(b, amount)
           costDelta == On(b, value)
           w == NoUse(s)
           op == Op("income", o, bank, NoBudget, to, w)
           t == IncomePosted(s, a, c, amount, value)
<1>1. b \in Balance /\ b[1] = a /\ Unallocated(o) \in Category
  BY OwnershipAssumption, OwnCategories DEF Balance
<1>2. Booked(s, t, op, costDelta)
  BY IncomeLots
<1>3. NoBudget \in [Category -> Int] /\ to \in [Category -> Int]
  BY RowValues
<1>4. AccountKind[a] # "investment" /\ ~IsCredit(a)
  BY DEF IsCash, IsCredit
<1>5. InAccounts(costDelta) = value
  <2> HIDE DEF b
  <2> QED BY <1>1, <1>4, InAccountsOfOne
<1>6. InAll(to) = value
  BY <1>1, InAllOfOne
<1>7. op.type # "account_transfer" /\ op.bank = bank
  BY DEF Op
<1>8. BudgetEffect(op) = InAll(to) - InAll(NoBudget)
  <2> HIDE DEF to, bank, w
  <2> QED BY <1>3, EffectOfOp
<1>9. ASSUME NEW x \in Account, IsCredit(x) PROVE bank[BaseBalance(x)] <= 0
  <2>1. BaseBalance(x) \in Balance /\ BaseBalance(x) # b
    BY <1>4, <1>9, BaseIsBalance DEF BaseBalance
  <2>2. bank[BaseBalance(x)] = 0
    BY <2>1 DEF On
  <2> QED BY <2>2, SMT
<1> HIDE DEF op, t, to, bank, costDelta
<1>10. BudgetEffect(op) = InAccounts(costDelta)
  BY <1>5, <1>6, <1>8, InAllOfNone, SMT
<1>11. MoneyHolds(t)
  BY <1>2, <1>7, <1>9, <1>10, OtherKeeps
<1> QED BY <1>11 DEF t

\* Money that leaves cash or a card, as a tax or an expense, leaves a category.
LEMMA WithdrawalMoney ==
    ASSUME NEW s, LedgerInv(s), NEW a \in Account, NEW c \in Currency, NEW amount \in Nat \ {0},
           AccountKind[a] # "investment",
           LotsSuffice(s, <<a, c>>, amount), LotsInv(s), ReversedOnce(s),
           NEW g \in Category, MoneyHolds(s), TicksPerCent = 1,
           NEW t, t = Posted(s, Op("expense", AccountOwner[a], On(<<a, c>>, -amount),
                                   In(g, Withdrawal(s, <<a, c>>, amount).cost), NoBudget,
                                   Withdrawal(s, <<a, c>>, amount)),
                             On(<<a, c>>, -Withdrawal(s, <<a, c>>, amount).cost), <<>>)
    PROVE  MoneyHolds(t)
<1> DEFINE b == <<a, c>>
           w == Withdrawal(s, b, amount)
           cost == w.cost
           from == In(g, cost)
           bank == On(b, -amount)
           costDelta == On(b, -cost)
           op == Op("expense", AccountOwner[a], bank, from, NoBudget, w)
<1>1. b \in Balance /\ b[1] = a /\ amount \in Nat
  BY SMT DEF Balance
<1>2. cost \in Int /\ -cost \in Int
  <2>1. cost \in Int
    BY <1>1, WithdrawalFits DEF FitsLots
  <2> HIDE DEF cost
  <2> QED BY <2>1, SMT
<1>3. from \in [Category -> Int] /\ NoBudget \in [Category -> Int]
  BY <1>2, RowValues
<1>4. Booked(s, t, op, costDelta)
  BY <1>3, WithdrawalLots
<1>5. InAccounts(costDelta) = -cost
  <2> HIDE DEF b, cost
  <2> QED BY <1>1, <1>2, InAccountsOfOne
<1>6. InAll(from) = cost
  BY <1>2, InAllOfOne
<1>7. op.type # "account_transfer" /\ op.bank = bank
  BY DEF Op
<1>8. BudgetEffect(op) = InAll(NoBudget) - InAll(from)
  <2> HIDE DEF from, bank, w
  <2> QED BY <1>3, EffectOfOp
<1>9. ASSUME NEW x \in Account PROVE bank[BaseBalance(x)] <= 0
  <2>1. BaseBalance(x) \in Balance
    BY BaseIsBalance
  <2>2. bank[BaseBalance(x)] = IF BaseBalance(x) = b THEN -amount ELSE 0
    BY <2>1 DEF On
  <2> HIDE DEF bank
  <2> QED BY <2>2, SMT
<1> HIDE DEF op, from, bank, costDelta, cost
<1>10. BudgetEffect(op) = InAccounts(costDelta)
  BY <1>2, <1>5, <1>6, <1>8, InAllOfNone, SMT
<1> QED BY <1>4, <1>7, <1>9, <1>10, OtherKeeps

LEMMA RecordIncomeMoney ==
    ASSUME NEW a \in Account, NEW c \in Currency, NEW amount \in Amounts, NEW v \in Costs,
           NEW p \in TaxPercents, LedgerInv(ledger), LotsInv(ledger), ReversedOnce(ledger),
           MoneyHolds(ledger), TicksPerCent = 1, RecordIncome(a, c, amount, v, p)
    PROVE  MoneyHolds(ledger')
<1> DEFINE b == <<a, c>>
           value == IF c = BaseOf(a) THEN InBase(amount) ELSE v
           tax == RoundDiv(amount * p, 100)
           gross == IncomePosted(ledger, a, c, amount, value)
           g == Unallocated(AccountOwner[a])
<1>1. amount \in Nat \ {0} /\ v \in Nat \ {0} /\ p \in Nat /\ v > 0 /\ IsCash(a)
  BY AmountAssumption, SMT DEF RecordIncome
<1>2. /\ value \in Int /\ (c # BaseOf(a) => value \in Nat \ {0})
      /\ IsBase(b) => value = InBase(amount)
      /\ ~IsBase(b) => value > 0
  <2>1. InBase(amount) \in Int
    BY <1>1, InBaseInt, SMT
  <2>2. IsBase(b) <=> c = BaseOf(a)
    BY DEF IsBase
  <2> QED BY <1>1, <2>1, <2>2, SMT
<1>3. \/ ledger' = gross
      \/ 0 < tax /\ TaxAllowed(gross, a, c, tax) /\ ledger' = TaxPosted(gross, a, c, tax)
  BY DEF RecordIncome
<1> HIDE DEF value
<1>4. LedgerInv(gross)
  BY <1>1, <1>2, IncomeInv
<1>5. LotsInv(gross) /\ ReversedOnce(gross)
  BY <1>1, <1>2, IncomeLots
<1>6. MoneyHolds(gross)
  BY <1>1, <1>2, IncomeMoney
<1>7. CASE 0 < tax /\ TaxAllowed(gross, a, c, tax) /\ ledger' = TaxPosted(gross, a, c, tax)
  <2>1. tax \in Nat \ {0}
    <3>1. tax \in Int
      <4>1. amount * p \in Int /\ 100 \in Nat \ {0}
        BY <1>1, SMT
      <4> QED BY <4>1, RoundDivInt
    <3> HIDE DEF tax
    <3> QED BY <1>7, <3>1, SMT
  <2> HIDE DEF gross, tax
  <2>2. LotsSuffice(gross, <<a, c>>, tax)
    BY <1>7 DEF TaxAllowed
  <2>3. g \in Category /\ AccountKind[a] # "investment"
    <3>1. AccountOwner[a] \in Owner
      BY OwnershipAssumption
    <3> QED BY <1>1, <3>1, OwnCategories DEF IsCash
  <2>4. ledger' = Posted(gross, Op("expense", AccountOwner[a], On(<<a, c>>, -tax),
                                   In(g, Withdrawal(gross, <<a, c>>, tax).cost), NoBudget,
                                   Withdrawal(gross, <<a, c>>, tax)),
                         On(<<a, c>>, -Withdrawal(gross, <<a, c>>, tax).cost), <<>>)
    BY <1>7 DEF TaxPosted
  <2> HIDE DEF g
  <2> QED BY <1>4, <1>5, <1>6, <2>1, <2>2, <2>3, <2>4, WithdrawalMoney
<1> QED BY <1>3, <1>6, <1>7

LEMMA RecordExpenseMoney ==
    ASSUME NEW a \in Account, NEW g \in Regular, NEW c \in Currency, NEW amount \in Amounts,
           LedgerInv(ledger), LotsInv(ledger), ReversedOnce(ledger),
           MoneyHolds(ledger), TicksPerCent = 1, RecordExpense(a, g, c, amount)
    PROVE  MoneyHolds(ledger')
<1>1. amount \in Nat \ {0} /\ g \in Category
  BY AmountAssumption DEF Category
<1>2. LotsSuffice(ledger, <<a, c>>, amount) /\ AccountKind[a] # "investment"
  BY DEF RecordExpense, IsCash, IsCredit
<1>3. ledger' = Posted(ledger, Op("expense", AccountOwner[a], On(<<a, c>>, -amount),
                                  In(g, Withdrawal(ledger, <<a, c>>, amount).cost), NoBudget,
                                  Withdrawal(ledger, <<a, c>>, amount)),
                       On(<<a, c>>, -Withdrawal(ledger, <<a, c>>, amount).cost), <<>>)
  BY DEF RecordExpense
<1> QED BY <1>1, <1>2, <1>3, WithdrawalMoney

LEMMA ExchangeCurrencyMoney ==
    ASSUME NEW a \in Account, NEW c \in Currency, NEW d \in Currency,
           NEW given \in Amounts, NEW received \in Amounts,
           LedgerInv(ledger), LotsInv(ledger), ReversedOnce(ledger),
           MoneyHolds(ledger), TicksPerCent = 1, ExchangeCurrency(a, c, given, d, received)
    PROVE  MoneyHolds(ledger')
<1> DEFINE b == <<a, c>>
           t == <<a, d>>
           o == AccountOwner[a]
           w == Withdrawal(ledger, b, given)
           yc == IF IsBase(t) THEN InBase(received) ELSE w.cost
           result == ExchangeResult(t, received, w.cost)
           to == In(FxResult(o), result)
           bank == Plus(On(b, -given), On(t, received))
           out == On(b, -w.cost)
           in == On(t, yc)
           costDelta == Plus(out, in)
           op == Op("exchange", o, bank, NoBudget, to, w)
<1>1. /\ b \in Balance /\ b[1] = a /\ t \in Balance /\ t[1] = a /\ o \in Owner
      /\ given \in Nat /\ received \in Nat /\ received \in Int /\ -given \in Int
      /\ FxResult(o) \in Category /\ IsCash(a)
  BY OwnershipAssumption, AmountAssumption, OwnCategories, SMT DEF Balance, ExchangeCurrency
<1>2. Booked(ledger, ledger', op, costDelta)
  BY ExchangeCurrencyLots
<1>3. w.cost \in Int /\ InBase(received) \in Int
  BY <1>1, WithdrawalFits, InBaseInt DEF FitsLots
<1>4. w.cost \in Int /\ -w.cost \in Int /\ yc \in Int /\ result \in Int /\ result = yc - w.cost
  <2> HIDE DEF w
  <2> QED BY <1>3, SMT DEF ExchangeResult
<1>5. op.type # "account_transfer" /\ op.bank = bank
  BY DEF Op
<1>6. NoBudget \in [Category -> Int] /\ to \in [Category -> Int]
      /\ out \in [Balance -> Int] /\ in \in [Balance -> Int]
  <2> HIDE DEF result, yc, w
  <2> QED BY <1>4, RowValues
<1>7. BudgetEffect(op) = InAll(to) - InAll(NoBudget)
  <2> HIDE DEF to, bank, w
  <2> QED BY <1>6, EffectOfOp
<1>8. InAll(to) = result
  <2> HIDE DEF result
  <2> QED BY <1>1, <1>4, InAllOfOne
<1>9. AccountKind[a] # "investment" /\ ~IsCredit(a)
  BY <1>1 DEF IsCash, IsCredit
<1>10. InAccounts(out) = -w.cost /\ InAccounts(in) = yc
  <2> HIDE DEF w, yc, b, t
  <2> QED BY <1>1, <1>4, <1>9, InAccountsOfOne
<1>11. InAccounts(costDelta) = InAccounts(out) + InAccounts(in)
  <2> HIDE DEF out, in
  <2>1. \A e \in Balance : costDelta[e] = out[e] + in[e]
    BY <1>6 DEF Plus
  <2> HIDE DEF costDelta
  <2> QED BY <1>6, <2>1, InAccountsPlus
<1>12. ASSUME NEW x \in Account, IsCredit(x) PROVE bank[BaseBalance(x)] <= 0
  <2>1. BaseBalance(x) \in Balance /\ BaseBalance(x) # b /\ BaseBalance(x) # t
    BY <1>9, <1>12, BaseIsBalance DEF BaseBalance
  <2>2. bank[BaseBalance(x)] = 0 + 0
    <3> HIDE DEF b, t
    <3> QED BY <1>1, <2>1, PlusValue
  <2> QED BY <2>2, SMT
<1> HIDE DEF op, to, bank, costDelta, out, in, result, yc, w
<1>13. BudgetEffect(op) = InAccounts(costDelta)
  BY <1>4, <1>7, <1>8, <1>10, <1>11, InAllOfNone, SMT
<1> QED BY <1>2, <1>5, <1>12, <1>13, OtherKeeps

(***************************************************************************)
(* Operations on the budget alone: what is taken is given.                  *)
(***************************************************************************)
LEMMA BudgetOnlyMoney ==
    ASSUME NEW type \in {"allocate", "group_allocate"}, NEW owner \in Owner,
           NEW from \in [Category -> Int], NEW to \in [Category -> Int], InAll(from) = InAll(to),
           LedgerInv(ledger), LotsInv(ledger), ReversedOnce(ledger),
           MoneyHolds(ledger), TicksPerCent = 1,
           ledger' = Posted(ledger, Op(type, owner, NoBank, from, to, NoUse(ledger)), NoBank, <<>>)
    PROVE  MoneyHolds(ledger')
<1> DEFINE w == NoUse(ledger)
           op == Op(type, owner, NoBank, from, to, w)
<1>1. Booked(ledger, ledger', op, NoBank)
  BY BudgetOnlyLots
<1>2. op.type # "account_transfer" /\ op.bank = NoBank
  BY SMT DEF Op
<1>3. \A a \in Account : op.bank[BaseBalance(a)] = 0
  BY <1>2, BaseIsBalance DEF NoBank
<1>4. BudgetEffect(op) = InAll(to) - InAll(from)
  <2> HIDE DEF w
  <2> QED BY EffectOfOp
<1>5. InAll(to) \in Int
  BY InAllInt
<1> HIDE DEF op
<1>6. BudgetEffect(op) = InAccounts(NoBank)
  BY <1>4, <1>5, NothingInAccounts, SMT
<1>7. \A a \in Account : IsCredit(a) => op.bank[BaseBalance(a)] <= 0
  BY <1>3, SMT
<1> QED BY <1>1, <1>2, <1>6, <1>7, OtherKeeps

LEMMA AllocateBudgetMoney ==
    ASSUME NEW f \in Category, NEW t \in Category, NEW amount \in Amounts,
           LedgerInv(ledger), LotsInv(ledger), ReversedOnce(ledger),
           MoneyHolds(ledger), TicksPerCent = 1, AllocateBudget(f, t, amount)
    PROVE  MoneyHolds(ledger')
<1>1. CategoryOwner(f) \in Owner /\ amount \in Int
  BY CategoryOwned, AmountAssumption, SMT
<1>2. In(f, amount) \in [Category -> Int] /\ In(t, amount) \in [Category -> Int]
  BY <1>1, RowValues
<1>3. InAll(In(f, amount)) = InAll(In(t, amount))
  BY <1>1, InAllOfOne
<1>4. ledger' = Posted(ledger, Op("allocate", CategoryOwner(f), NoBank, In(f, amount),
                                  In(t, amount), NoUse(ledger)), NoBank, <<>>)
  BY DEF AllocateBudget
<1> QED BY <1>1, <1>2, <1>3, <1>4, BudgetOnlyMoney

LEMMA ArchiveCategoryMoney ==
    ASSUME NEW c \in Regular, LedgerInv(ledger), LotsInv(ledger), ReversedOnce(ledger),
           MoneyHolds(ledger), TicksPerCent = 1, ArchiveCategory(c)
    PROVE  MoneyHolds(ledger')
<1> DEFINE left == ledger.budget[c]
           o == RegularOwner[c]
           from == In(c, left)
           to == In(Unallocated(o), left)
<1>1. CASE UNCHANGED ledger
  BY <1>1
<1>2. CASE ledger' = Posted(ledger, Op("allocate", o, NoBank, from, to, NoUse(ledger)), NoBank, <<>>)
  <2>1. left \in Int /\ o \in Owner /\ c \in Category
    BY LedgerFields, OwnershipAssumption DEF LedgerInv, Category
  <2>2. Unallocated(o) \in Category
    BY <2>1, OwnCategories
  <2> HIDE DEF left, o
  <2>3. from \in [Category -> Int] /\ to \in [Category -> Int]
    BY <2>1, RowValues
  <2>4. InAll(from) = InAll(to)
    BY <2>1, <2>2, InAllOfOne
  <2> HIDE DEF from, to
  <2> QED BY <1>2, <2>1, <2>3, <2>4, BudgetOnlyMoney
<1> QED BY <1>1, <1>2 DEF ArchiveCategory

LEMMA ReverseOperationMoney ==
    ASSUME NEW k \in DOMAIN ledger.operations, LedgerInv(ledger), LedgerInv(ledger'),
           LotsInv(ledger), ReversedOnce(ledger), MoneyHolds(ledger), ReverseOperation(k)
    PROVE  MoneyHolds(ledger')
<1>1. TakenBack(ledger, ledger', k)
  BY DEF ReverseOperation, Reversible, TakenBack
<1> QED BY <1>1, TakenBackKeeps

\* the rows of one category, and what the first m rows add to each category
RowsOf(key, line, n, c) == [k \in 1..n |-> IF key[k] = c THEN line[k] ELSE 0]
ByCategory(key, line, n, m) == [c \in Category |-> SumTo(RowsOf(key, line, n, c), m)]

\* Adding up rows category by category finds each row once.
LEMMA ByCategoryAddsUp ==
    ASSUME NEW n \in Nat, NEW key, NEW line,
           \A k \in 1..n : key[k] \in Category /\ line[k] \in Int
    PROVE  InAll(ByCategory(key, line, n, n)) = SumTo(line, n)
<1> DEFINE S == {m \in Nat : m <= n => InAll(ByCategory(key, line, n, m)) = SumTo(line, m)}
<1>1. 0 \in S
  <2> DEFINE v == ByCategory(key, line, n, 0)
  <2>1. \A c \in Category : v[c] = 0
    BY SumToZero DEF ByCategory
  <2> HIDE DEF v
  <2>2. SumFunctionOnSet(v, Category) = 0
    BY <2>1, FiniteKeys, SumOverZeros
  <2>3. SumTo(line, 0) = 0
    BY SumToZero
  <2>4. InAll(ByCategory(key, line, n, 0)) = SumTo(line, 0)
    BY <2>2, <2>3 DEF InAll, v
  <2> QED BY <2>4, SMT
<1>2. ASSUME NEW m \in Nat, m \in S PROVE m + 1 \in S
  <2> SUFFICES ASSUME m + 1 <= n
               PROVE  InAll(ByCategory(key, line, n, m + 1)) = SumTo(line, m + 1)
    BY <1>2
  <2> DEFINE v == ByCategory(key, line, n, m)
             u == ByCategory(key, line, n, m + 1)
             r == key[m + 1]
             d == line[m + 1]
  <2>1. m + 1 \in 1..n /\ m <= n /\ \A k \in 1..m : k \in 1..n
    BY SMT
  <2>2. r \in Category /\ d \in Int
    BY <2>1
  <2>3. ASSUME NEW c \in Category
        PROVE  v[c] \in Int /\ u[c] = IF c = r THEN v[c] + d ELSE v[c]
    <3> DEFINE row == RowsOf(key, line, n, c)
    <3>1. v[c] = SumTo(row, m) /\ u[c] = SumTo(row, m + 1)
      BY DEF ByCategory
    <3>2. \A k \in 1..m : row[k] \in Int
      <4>1. 0 \in Int
        BY SMT
      <4> QED BY <2>1, <4>1 DEF RowsOf
    <3>3. row[m + 1] = IF r = c THEN d ELSE 0
      BY <2>1 DEF RowsOf
    <3> HIDE DEF row, r, d, v, u
    <3>4. SumTo(row, m) \in Int /\ SumTo(row, m + 1) = SumTo(row, m) + row[m + 1]
      BY <3>2, SumToInt, SumToNext
    <3> QED BY <2>2, <3>1, <3>3, <3>4, SMT
  <2>4. InAll(v) = SumTo(line, m)
    BY <1>2, <2>1
  <2>5. SumTo(line, m + 1) = SumTo(line, m) + d
    BY SumToNext
  <2> HIDE DEF u, v, r, d
  <2>6. SumFunctionOnSet(u, Category) = SumFunctionOnSet(v, Category) + (IF r \in Category THEN d ELSE 0)
    BY <2>2, <2>3, FiniteKeys, SumOverChange
  <2>7. InAll(u) = SumTo(line, m + 1)
    BY <2>2, <2>4, <2>5, <2>6 DEF InAll
  <2> QED BY <2>7 DEF u
<1> HIDE DEF S
<1>3. Nat \subseteq S
  BY <1>1, <1>2, InductionOnSet
<1> QED BY <1>3, SMT DEF S

\* Rounded shares, and what is left for the last member: the whole amount.
LEMMA LinesAddUp ==
    ASSUME NEW plan \in GroupPlans, NEW amount \in Int, Len(plan) > 0
    PROVE  /\ \A k \in 1..Len(plan) : GroupLine(plan, amount)[k] \in Int
           /\ SumTo(GroupLine(plan, amount), Len(plan)) = amount
<1> DEFINE n == Len(plan)
           share == [k \in DOMAIN plan |-> RoundDiv(amount * plan[k].share, 100)]
           line == GroupLine(plan, amount)
           m == n - 1
<1>1. n \in Nat /\ DOMAIN plan = 1..n /\ \A k \in 1..n : plan[k].share \in Nat
  BY PlansAssumption
<1>2. m \in Nat /\ n = m + 1 /\ n \in 1..n /\ \A k \in 1..m : k \in 1..n /\ k < n
  <2> HIDE DEF n
  <2> QED BY <1>1, SMT DEF n
<1>3. \A k \in 1..n : share[k] \in Int
  <2> SUFFICES ASSUME NEW k \in 1..n PROVE RoundDiv(amount * plan[k].share, 100) \in Int
    BY <1>1
  <2>1. amount * plan[k].share \in Int /\ 100 \in Nat \ {0}
    BY <1>1, SMT
  <2> QED BY <2>1, RoundDivInt
<1>4. \A k \in 1..n : line[k] = IF k < n THEN share[k] ELSE amount - SumTo(share, m)
  BY <1>1 DEF GroupLine
<1> HIDE DEF share, line, m, n
<1>5. SumTo(share, m) \in Int
  BY <1>2, <1>3, SumToInt
<1>6. \A k \in 1..n : line[k] \in Int
  BY <1>3, <1>4, <1>5, SMT
<1>7. SumTo(line, m) = SumTo(share, m)
  <2>1. \A k \in 1..m : line[k] = share[k]
    BY <1>2, <1>4
  <2> QED BY <1>2, <2>1, SumToSame
<1>8. line[n] = amount - SumTo(share, m)
  <2>1. ~(n < n)
    BY <1>1, SMT
  <2> QED BY <1>2, <1>4, <2>1
<1>9. SumTo(line, m + 1) = SumTo(line, m) + line[m + 1]
  BY <1>2, SumToNext
<1>10. SumTo(line, n) = amount
  BY <1>2, <1>5, <1>7, <1>8, <1>9, SMT
<1> QED BY <1>6, <1>10 DEF line, n

LEMMA MembersGetAll ==
    ASSUME NEW plan \in GroupPlans, NEW amount \in Int, Len(plan) > 0,
           \A k \in DOMAIN plan : plan[k].category \in Category
    PROVE  InAll(MemberCredit(plan, amount)) = amount
<1> DEFINE n == Len(plan)
           line == GroupLine(plan, amount)
           key == [k \in 1..n |-> plan[k].category]
<1>1. n \in Nat /\ DOMAIN plan = 1..n
  BY PlansAssumption
<1>2. /\ \A k \in 1..n : line[k] \in Int
      /\ SumTo(line, n) = amount
  BY LinesAddUp
<1>3. \A k \in 1..n : key[k] \in Category
  BY <1>1
<1>4. MemberCredit(plan, amount) = ByCategory(key, line, n, n)
  <2>1. ASSUME NEW c
        PROVE  RowsOf(key, line, n, c) =
                 [k \in DOMAIN plan |->
                    IF plan[k].category = c THEN GroupLine(plan, amount)[k] ELSE 0]
    BY <1>1 DEF RowsOf
  <2> QED BY <2>1 DEF MemberCredit, ByCategory
<1> HIDE DEF n, line, key
<1>5. InAll(ByCategory(key, line, n, n)) = SumTo(line, n)
  BY <1>1, <1>2, <1>3, ByCategoryAddsUp
<1> QED BY <1>2, <1>4, <1>5

LEMMA AllocateGroupBudgetMoney ==
    ASSUME NEW f \in Category, NEW plan \in GroupPlans, NEW amount \in Amounts,
           activeCategories \subseteq Regular,
           LedgerInv(ledger), LotsInv(ledger), ReversedOnce(ledger),
           MoneyHolds(ledger), TicksPerCent = 1, AllocateGroupBudget(f, plan, amount)
    PROVE  MoneyHolds(ledger')
<1> DEFINE from == In(f, amount)
           to == MemberCredit(plan, amount)
<1>1. CategoryOwner(f) \in Owner /\ amount \in Int
  BY CategoryOwned, AmountAssumption, SMT
<1>2. from \in [Category -> Int] /\ to \in [Category -> Int]
  BY <1>1, RowValues, MemberCreditInt
<1>3. \A k \in DOMAIN plan : plan[k].category \in Category
  <2>1. \A c : Allocatable(c) => c \in Category
    BY DEF Allocatable, Category, SystemCategory
  <2> QED BY <2>1 DEF AllocateGroupBudget
<1>4. InAll(to) = amount
  BY <1>1, <1>3, MembersGetAll DEF AllocateGroupBudget
<1>5. InAll(from) = amount
  BY <1>1, InAllOfOne
<1>6. ledger' = Posted(ledger, Op("group_allocate", CategoryOwner(f), NoBank, from, to,
                                  NoUse(ledger)), NoBank, <<>>)
  BY DEF AllocateGroupBudget
<1>7. InAll(from) = InAll(to)
  BY <1>4, <1>5
<1> HIDE DEF from, to
<1> QED BY <1>1, <1>2, <1>6, <1>7, BudgetOnlyMoney

(***************************************************************************)
(* Transfers, by the kinds of the two accounts.                             *)
(***************************************************************************)

\* Money drawn from a card that holds some comes out of what it holds first.
LEMMA DrawnIsOwed ==
    ASSUME NEW amount \in Int, amount > 0, NEW own \in Int, NEW debt \in Int, Owes(own, debt)
    PROVE  Owes(own - amount, debt + (amount - Greater(0, Lesser(amount, own))))
BY SMT DEF Owes, Greater, Lesser

\* What is paid back is charged up to the debt.
LEMMA RepaidIsOwed ==
    ASSUME NEW amount \in Int, amount > 0, NEW own \in Int, NEW debt \in Int, Owes(own, debt)
    PROVE  Owes(own + amount, debt - Lesser(amount, Greater(0, debt)))
BY SMT DEF Owes, Greater, Lesser

LEMMA TransferMoney ==
    ASSUME NEW a \in Account, NEW r \in Account, NEW c \in Currency, NEW amount \in Amounts,
           LedgerInv(ledger), LotsInv(ledger), ReversedOnce(ledger),
           MoneyHolds(ledger), TicksPerCent = 1, TransferBetweenAccounts(a, r, c, amount)
    PROVE  MoneyHolds(ledger')
<1> DEFINE b == <<a, c>>
           d == <<r, c>>
           w == Withdrawal(ledger, b, amount)
           cost == w.cost
           debit == BudgetDebit(ledger, a, r, w.cost)
           credit == BudgetCredit(ledger, a, r, b, amount, w.cost)
           from == In(Unallocated(AccountOwner[a]), debit)
           to == In(Unallocated(AccountOwner[r]), credit)
           bank == Plus(On(b, -amount), On(d, amount))
           out == On(b, -cost)
           in == On(d, cost)
           costDelta == Plus(out, in)
           op == Op("account_transfer", AccountOwner[a], bank, from, to, w)
           effect == credit - debit
<1>1. /\ b \in Balance /\ b[1] = a /\ d \in Balance /\ d[1] = r /\ b[2] = c /\ d[2] = c
      /\ amount \in Nat /\ amount > 0 /\ amount \in Int /\ -amount \in Int
      /\ Unallocated(AccountOwner[a]) \in Category /\ Unallocated(AccountOwner[r]) \in Category
  BY OwnershipAssumption, AmountAssumption, OwnCategories, SMT DEF Balance
<1>2. /\ a # r /\ BaseOf(a) = BaseOf(r) /\ (IsCredit(a) \/ IsCredit(r) => IsBase(b))
      /\ ~(IsCredit(a) /\ AccountKind[r] = "investment")
      /\ ~(AccountKind[a] = "investment" /\ IsCredit(r))
  BY DEF TransferBetweenAccounts
<1>3. /\ from \in [Category -> Int] /\ to \in [Category -> Int]
      /\ Booked(ledger, ledger', op, costDelta)
  BY TransferLots
<1>4. cost \in Int /\ -cost \in Int /\ (IsBase(b) => cost = amount)
  <2>1. w.cost \in Int
    BY <1>1, WithdrawalFits DEF FitsLots
  <2>2. IsBase(b) => w.cost = InBase(amount)
    BY DEF Withdrawal
  <2> HIDE DEF w
  <2>3. InBase(amount) = amount
    BY <1>1, InCents
  <2> QED BY <2>1, <2>2, <2>3, SMT
<1>5. TransferDebt(ledger, a) \in Int /\ TransferDebt(ledger, r) \in Int /\ ledger.amount[b] \in Int
      /\ ledger.amount[d] \in Int
  <2>1. ledger.amount \in [Balance -> Int]
    BY LedgerFields DEF LedgerInv
  <2> QED BY <1>1, <2>1, DebtsInt
<1>6. AccountKind[a] \in {"cash", "credit_card", "investment"}
      /\ AccountKind[r] \in {"cash", "credit_card", "investment"}
  BY OwnershipAssumption
\* what the transfer takes from the budget and gives to it
<1>7. debit = IF ~IsCash(a) THEN 0
              ELSE IF IsCredit(r) THEN Lesser(cost, Greater(0, TransferDebt(ledger, r))) ELSE cost
  BY DEF BudgetDebit, CardBudgetDebt
<1>8. credit = IF ~IsCash(r) THEN 0
               ELSE IF IsCredit(a) THEN amount - Greater(0, Lesser(amount, ledger.amount[b]))
               ELSE cost
  <2> DEFINE x == amount - Greater(0, Lesser(amount, ledger.amount[b]))
  <2>1. x \in Int
    BY <1>1, <1>5, SMT DEF Greater, Lesser
  <2>2. InBase(x) = x
    <3> HIDE DEF x
    <3> QED BY <2>1, InCents
  <2> QED BY <2>2 DEF BudgetCredit
<1> HIDE DEF cost, debit, credit
<1>9. debit \in Int /\ credit \in Int /\ effect \in Int
  <2>1. debit \in Int
    BY <1>4, <1>5, <1>7, SMT DEF Greater, Lesser
  <2>2. credit \in Int
    BY <1>1, <1>4, <1>5, <1>8, SMT DEF Greater, Lesser
  <2> QED BY <2>1, <2>2, SMT
<1>10. BudgetEffect(op) = effect
  <2>1. InAll(from) = debit /\ InAll(to) = credit
    BY <1>1, <1>9, InAllOfOne
  <2> HIDE DEF from, to, bank, w
  <2>2. BudgetEffect(op) = InAll(to) - InAll(from)
    BY <1>3, EffectOfOp
  <2> QED BY <2>1, <2>2
<1>11. op.type = "account_transfer" /\ op.bank = bank
  BY DEF Op
<1> HIDE DEF op, from, to, w, effect
<1>12. op \in Operation
  <2>1. ledger \in Ledger /\ ledger' \in Ledger /\ Recorded(ledger, ledger', op)
    BY <1>3 DEF Booked, LedgerInv
  <2> QED BY <2>1, RecordedRows
\* which rows it has on the accounts
<1>13. b # d
  BY <1>2
<1>14. \A x \in Account : \A e \in Balance : e[1] = x /\ x # a /\ x # r => op.bank[e] = 0
  <2>1. ASSUME NEW e \in Balance
        PROVE  op.bank[e] = (IF e = b THEN -amount ELSE 0) + (IF e = d THEN amount ELSE 0)
    <3> HIDE DEF b, d
    <3> QED BY <1>1, <1>11, PlusValue
  <2> SUFFICES ASSUME NEW e \in Balance, e[1] # a, e[1] # r PROVE op.bank[e] = 0
    OBVIOUS
  <2>2. e # b /\ e # d
    OBVIOUS
  <2> QED BY <2>1, <2>2, SMT
<1>15. op.bank[b] = -amount /\ op.bank[d] = amount
  <2> HIDE DEF b, d
  <2>1. op.bank[b] = (IF b = b THEN -amount ELSE 0) + (IF b = d THEN amount ELSE 0)
    BY <1>1, <1>11, PlusValue
  <2>2. op.bank[d] = (IF d = b THEN -amount ELSE 0) + (IF d = d THEN amount ELSE 0)
    BY <1>1, <1>11, PlusValue
  <2> QED BY <1>1, <1>13, <2>1, <2>2, SMT
<1>16. (IsCredit(a) => BaseBalance(a) = b) /\ (IsCredit(r) => BaseBalance(r) = d)
  BY <1>2 DEF BaseBalance, IsBase
<1>17. \A x \in Account : BaseBalance(x) \in Balance /\ BaseBalance(x)[1] = x
  BY BaseIsBalance DEF BaseBalance
<1> HIDE DEF b, d, bank
<1>18. /\ IsCredit(a) => EffectOn(op, a) = effect
       /\ IsCredit(r) => EffectOn(op, r) = effect
       /\ \A x \in Account : x # a /\ x # r => EffectOn(op, x) = 0
  <2>1. -amount # 0 /\ amount # 0
    BY <1>1, SMT
  <2> QED BY <1>10, <1>11, <1>14, <1>15, <1>16, <1>17, <2>1 DEF EffectOn
<1>19. InAccounts(costDelta) = (IF AccountKind[a] # "investment" THEN -cost ELSE 0)
                              + (IF AccountKind[r] # "investment" THEN cost ELSE 0)
  <2>1. /\ InAccounts(out) = (IF AccountKind[a] # "investment" THEN -cost ELSE 0)
        /\ InAccounts(in) = (IF AccountKind[r] # "investment" THEN cost ELSE 0)
    BY <1>1, <1>4, InAccountsOfOne
  <2>2. out \in [Balance -> Int] /\ in \in [Balance -> Int]
    BY <1>4, RowValues
  <2> HIDE DEF out, in
  <2>3. \A e \in Balance : costDelta[e] = out[e] + in[e]
    BY <2>2 DEF Plus
  <2> HIDE DEF costDelta
  <2> QED BY <2>1, <2>2, <2>3, InAccountsPlus
<1> HIDE DEF costDelta, out, in
<1>20. Balanced(op, costDelta)
  <2>1. CASE ~IsCredit(a) /\ ~IsCredit(r)
    <3>1. OnCards(op) = 0
      <4>1. \A x \in Account : IsCredit(x) => EffectOn(op, x) = 0
        BY <1>18, <2>1
      <4> QED BY <4>1, OnNoCard
    <3>2. effect = (IF IsCash(r) THEN cost ELSE 0) - (IF IsCash(a) THEN cost ELSE 0)
      BY <1>4, <1>7, <1>8, <2>1, SMT DEF effect
    <3>3. (IsCash(a) <=> AccountKind[a] # "investment") /\ (IsCash(r) <=> AccountKind[r] # "investment")
      BY <1>6, <2>1 DEF IsCash, IsCredit
    <3>4. effect = InAccounts(costDelta) + 0
      BY <1>4, <1>19, <3>2, <3>3, SMT
    <3> QED BY <1>10, <3>1, <3>4 DEF Balanced
  <2>2. CASE IsCredit(a) /\ ~IsCredit(r)
    <3>1. OnCards(op) = effect
      <4>1. \A x \in Account : IsCredit(x) /\ x # a => EffectOn(op, x) = 0
        BY <1>18, <2>2
      <4>2. OnCards(op) = EffectOn(op, a)
        BY <1>12, <2>2, <4>1, OnOneCard
      <4> QED BY <1>18, <2>2, <4>2
    <3>2. AccountKind[a] # "investment" /\ AccountKind[r] # "investment"
      BY <1>2, <2>2 DEF IsCredit
    <3>3. effect = InAccounts(costDelta) + effect
      BY <1>4, <1>9, <1>19, <3>2, SMT
    <3> QED BY <1>10, <3>1, <3>3 DEF Balanced
  <2>3. CASE ~IsCredit(a) /\ IsCredit(r)
    <3>1. OnCards(op) = effect
      <4>1. \A x \in Account : IsCredit(x) /\ x # r => EffectOn(op, x) = 0
        BY <1>18, <2>3
      <4>2. OnCards(op) = EffectOn(op, r)
        BY <1>12, <2>3, <4>1, OnOneCard
      <4> QED BY <1>18, <2>3, <4>2
    <3>2. AccountKind[a] # "investment" /\ AccountKind[r] # "investment"
      BY <1>2, <2>3 DEF IsCredit
    <3>3. effect = InAccounts(costDelta) + effect
      BY <1>4, <1>9, <1>19, <3>2, SMT
    <3> QED BY <1>10, <3>1, <3>3 DEF Balanced
  <2>4. CASE IsCredit(a) /\ IsCredit(r)
    <3>1. effect = 0
      BY <1>7, <1>8, <2>4, KindsDiffer, SMT DEF effect
    <3>2. OnCards(op) = 0
      <4>1. \A x \in Account : IsCredit(x) => EffectOn(op, x) = 0
        BY <1>18, <3>1
      <4> QED BY <4>1, OnNoCard
    <3>3. AccountKind[a] # "investment" /\ AccountKind[r] # "investment"
      BY <2>4 DEF IsCredit
    <3>4. effect = InAccounts(costDelta) + 0
      BY <1>4, <1>19, <3>1, <3>3, SMT
    <3> QED BY <1>10, <3>2, <3>4 DEF Balanced
  <2> QED BY <2>1, <2>2, <2>3, <2>4
<1>21. KeepsOwed(ledger, op)
  <2> SUFFICES ASSUME NEW x \in Account, IsCredit(x), op.bank[BaseBalance(x)] # 0, ~BetweenCards(op),
                      Owes(ledger.amount[BaseBalance(x)], TransferDebt(ledger, x))
               PROVE  Owes(ledger.amount[BaseBalance(x)] + op.bank[BaseBalance(x)],
                           TransferDebt(ledger, x) + EffectOn(op, x))
    BY DEF KeepsOwed
  <2>1. x = a \/ x = r
    BY <1>14, <1>17
  <2>2. ~(IsCredit(a) /\ IsCredit(r))
    <3>1. -amount < 0 /\ amount > 0
      BY <1>1, SMT
    <3> QED BY <1>1, <1>15, <3>1 DEF BetweenCards
  <2>3. CASE x = a
    <3>1. IsCash(r) /\ ~IsCash(a) /\ BaseBalance(x) = b
      BY <1>2, <1>6, <1>16, <2>2, <2>3 DEF IsCash, IsCredit
    <3>2. EffectOn(op, x) = amount - Greater(0, Lesser(amount, ledger.amount[b]))
      <4>1. EffectOn(op, x) = effect /\ debit = 0
            /\ credit = amount - Greater(0, Lesser(amount, ledger.amount[b]))
        BY <1>7, <1>8, <1>18, <2>3, <3>1
      <4> QED BY <1>9, <4>1, SMT DEF effect
    <3>3. Owes(ledger.amount[b] - amount,
               TransferDebt(ledger, a) + (amount - Greater(0, Lesser(amount, ledger.amount[b]))))
      BY <1>1, <1>5, <2>3, <3>1, DrawnIsOwed
    <3>4. ledger.amount[b] + op.bank[b] = ledger.amount[b] - amount
      BY <1>1, <1>5, <1>15, SMT
    <3> QED BY <2>3, <3>1, <3>2, <3>3, <3>4
  <2>4. CASE x = r
    <3>1. IsCash(a) /\ ~IsCash(r) /\ BaseBalance(x) = d /\ IsBase(b)
      BY <1>2, <1>6, <1>16, <2>2, <2>4 DEF IsCash, IsCredit
    <3>2. TransferDebt(ledger, r) + EffectOn(op, x)
            = TransferDebt(ledger, r) - Lesser(amount, Greater(0, TransferDebt(ledger, r)))
      <4>1. EffectOn(op, x) = effect /\ credit = 0
            /\ debit = Lesser(amount, Greater(0, TransferDebt(ledger, r)))
        BY <1>4, <1>7, <1>8, <1>18, <2>4, <3>1
      <4> QED BY <1>5, <1>9, <4>1, SMT DEF effect
    <3>3. Owes(ledger.amount[d] + amount,
               TransferDebt(ledger, r) - Lesser(amount, Greater(0, TransferDebt(ledger, r))))
      BY <1>1, <1>5, <2>4, <3>1, RepaidIsOwed
    <3>4. ledger.amount[d] + op.bank[d] = ledger.amount[d] + amount
      BY <1>15
    <3> QED BY <2>4, <3>1, <3>2, <3>3, <3>4
  <2> QED BY <2>1, <2>3, <2>4
<1> QED BY <1>3, <1>20, <1>21, BookedKeeps

(***************************************************************************)
(* The invariant and the theorems, where accounts hold whole cents.         *)
(***************************************************************************)
MInv == LInv /\ MoneyHolds(ledger)

LEMMA InitMInv == Init => MInv
<1> SUFFICES ASSUME Init PROVE MInv
  OBVIOUS
<1>1. /\ ledger.operations = <<>> /\ ledger.amount = NoBank /\ ledger.cost = NoBank
      /\ ledger.budget = NoBudget
      /\ DOMAIN ledger.operations = {} /\ Len(ledger.operations) = 0
  BY SMT DEF Init
<1>2. \A a : TransferDebt(ledger, a) = 0
  BY <1>1, SumToZero DEF TransferDebt
<1>3. DebtOwed(ledger)
  <2>1. \A a \in Account : ledger.amount[BaseBalance(a)] = 0
    BY <1>1, BaseIsBalance DEF NoBank
  <2>2. Owes(0, 0)
    BY SMT DEF Owes, Greater
  <2> QED BY <1>2, <2>1, <2>2 DEF DebtOwed
<1>4. MoneyInv(ledger)
  <2>1. InAll(ledger.budget) = 0 /\ InAccounts(ledger.cost) = 0
    BY <1>1, InAllOfNone, NothingInAccounts
  <2>2. CardsBrought(ledger) = 0
    <3> DEFINE v == DebtOfCards(ledger)
    <3>1. \A a \in Account : v[a] = 0
      BY <1>2 DEF DebtOfCards
    <3> HIDE DEF v
    <3>2. SumFunctionOnSet(v, Account) = 0
      BY <3>1, FiniteKeys, SumOverZeros
    <3> QED BY <3>2 DEF CardsBrought, v
  <2>3. 0 = 0 + 0
    BY SMT
  <2> QED BY <2>1, <2>2, <2>3 DEF MoneyInv
<1>5. Undoable(ledger)
  BY <1>1 DEF Undoable
<1> QED BY <1>3, <1>4, <1>5, InitLInv DEF MInv, MoneyHolds

LEMMA StepMInv ==
    ASSUME TicksPerCent = 1
    PROVE  MInv /\ [Next]_vars => MInv'
<1> SUFFICES ASSUME MInv, [Next]_vars PROVE MInv'
  OBVIOUS
<1>1. /\ LInv /\ LInv' /\ LedgerInv(ledger) /\ LedgerInv(ledger') /\ TypeOK
      /\ ReversedOnce(ledger) /\ EntriesInv(ledger) /\ LotsInv(ledger) /\ MoneyHolds(ledger)
  BY StepLInv DEF MInv, LInv, HInv, IInv, HistoryInv, LedgerInv
<1> SUFFICES MoneyHolds(ledger')
  BY <1>1 DEF MInv
<1>2. ASSUME NEW a \in Account, NEW c \in Currency, NEW amount \in Amounts, NEW v \in Costs,
             NEW p \in TaxPercents, RecordIncome(a, c, amount, v, p)
      PROVE  MoneyHolds(ledger')
  BY <1>1, <1>2, RecordIncomeMoney
<1>3. ASSUME NEW a \in Account, NEW g \in Regular, NEW c \in Currency, NEW amount \in Amounts,
             RecordExpense(a, g, c, amount)
      PROVE  MoneyHolds(ledger')
  BY <1>1, <1>3, RecordExpenseMoney
<1>4. ASSUME NEW a \in Account, NEW c \in Currency, NEW d \in Currency,
             NEW given \in Amounts, NEW received \in Amounts,
             ExchangeCurrency(a, c, given, d, received)
      PROVE  MoneyHolds(ledger')
  BY <1>1, <1>4, ExchangeCurrencyMoney
<1>5. ASSUME NEW a \in Account, NEW t \in Account, NEW c \in Currency, NEW amount \in Amounts,
             TransferBetweenAccounts(a, t, c, amount)
      PROVE  MoneyHolds(ledger')
  BY <1>1, <1>5, TransferMoney
<1>6. ASSUME NEW f \in Category, NEW t \in Category, NEW amount \in Amounts,
             AllocateBudget(f, t, amount)
      PROVE  MoneyHolds(ledger')
  BY <1>1, <1>6, AllocateBudgetMoney
<1>7. ASSUME NEW f \in Category, NEW plan \in GroupPlans, NEW amount \in Amounts,
             AllocateGroupBudget(f, plan, amount)
      PROVE  MoneyHolds(ledger')
  BY <1>1, <1>7, AllocateGroupBudgetMoney DEF TypeOK
<1>8. ASSUME NEW k \in DOMAIN ledger.operations, ReverseOperation(k)
      PROVE  MoneyHolds(ledger')
  BY <1>1, <1>8, ReverseOperationMoney
<1>9. CASE RebuildCurrentBalances
  <2>1. ledger' = Rebuilt(ledger)
    BY <1>9 DEF RebuildCurrentBalances
  <2> DEFINE t == Rebuilt(ledger)
  <2>2. /\ t.operations = ledger.operations /\ t.lots = ledger.lots
        /\ t.amount = ledger.amount /\ t.cost = ledger.cost /\ t.budget = ledger.budget
    BY <1>1, RebuiltRows, RebuiltCosts
  <2>3. ledger \in Ledger /\ t \in Ledger
    BY <1>1, RebuiltInv DEF LedgerInv
  <2> HIDE DEF t
  <2>4. t = ledger
    BY <2>2, <2>3, LedgerParts
  <2> QED BY <1>1, <2>1, <2>4 DEF t
<1>10. ASSUME NEW c \in Regular, ArchiveCategory(c)
       PROVE  MoneyHolds(ledger')
  BY <1>1, <1>10, ArchiveCategoryMoney
<1>11. CASE UNCHANGED ledger
  BY <1>1, <1>11
<1>12. /\ \A a \in Account, limit \in Limits : UpdateCreditLimit(a, limit) => UNCHANGED ledger
       /\ \A a \in Account : ArchiveCreditAccount(a) => UNCHANGED ledger
       /\ UNCHANGED vars => UNCHANGED ledger
  BY DEF UpdateCreditLimit, ArchiveCreditAccount, vars
<1> QED BY <1>2, <1>3, <1>4, <1>5, <1>6, <1>7, <1>8, <1>9, <1>10, <1>11, <1>12 DEF Next

LEMMA MInvAlways == ASSUME TicksPerCent = 1 PROVE Spec => []MInv
  BY InitMInv, StepMInv, PTL DEF Spec

\* The model of docs/2026-11-02-cc-overpayment.md, whatever is earned, spent,
\* exchanged, drawn from cards, paid back, shared out, archived and reversed,
\* in any order: the budgets are the cash at its historical cost, the card
\* balances and the cards' budget debt, to the cent.
THEOREM MoneyIsBudget ==
    ASSUME TicksPerCent = 1
    PROVE  Spec => []BudgetIsMoney
<1>1. MInv => BudgetIsMoney
  BY DEF MInv, MoneyHolds, MoneyInv, InAll, InAccounts, CardsBrought, BudgetIsMoney
<1> QED BY MInvAlways, <1>1, PTL

\* What a card has brought into the budget is never negative and never more
\* than is owed on it, as long as nothing on it was reversed and it was not
\* paid from another card.
THEOREM CardsOweTheirDebt ==
    ASSUME TicksPerCent = 1
    PROVE  Spec => []CardDebtIsOwed
<1>1. MInv => CardDebtIsOwed
  <2> SUFFICES ASSUME MInv PROVE CardDebtIsOwed
    OBVIOUS
  <2> SUFFICES ASSUME NEW a \in Account, IsCredit(a),
                      \A k \in DOMAIN ledger.operations :
                         ledger.operations[k].bank[BaseBalance(a)] # 0 =>
                            ledger.operations[k].reverses = 0 /\ ~BetweenCards(ledger.operations[k])
               PROVE  /\ TransferDebt(ledger, a) >= 0
                      /\ TransferDebt(ledger, a) <= Greater(0, -ledger.amount[BaseBalance(a)])
    BY DEF CardDebtIsOwed, BaseBalance
  <2>1. OrdinaryOn(ledger, BaseBalance(a))
    BY DEF OrdinaryOn, Ordinary
  <2>2. Owes(ledger.amount[BaseBalance(a)], TransferDebt(ledger, a))
    BY <2>1 DEF MInv, MoneyHolds, DebtOwed
  <2>3. TransferDebt(ledger, a) \in Int
    BY DebtsInt DEF MInv, LInv, HInv, IInv
  <2> QED BY <2>2, <2>3, SMT DEF Owes
<1> QED BY MInvAlways, <1>1, PTL
=============================================================================
