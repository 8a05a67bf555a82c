------------------------- MODULE LedgerLocksProofs -------------------------
(***************************************************************************)
(* What the row locks guarantee for any number of connections, accounts,    *)
(* categories and calls: who holds a row is the only one with changes to it *)
(* that others do not see, so what was compared under the lock stays so.    *)
(***************************************************************************)
EXTENDS LedgerLocks, RowSumsProofs, SequenceTheorems

(***************************************************************************)
(* The statements of the calls: what they read and write are rows, what     *)
(* they add are integers, and only a category is cleared.                   *)
(***************************************************************************)
Sound(st) ==
    /\ st.do \in {"lock", "check", "read", "write"}
    /\ st.do = "lock" => \E U : st.rows \in Seq(U)
    /\ st.do \in {"read", "write"} => st.rows[1] \in Row
    /\ st.do = "write" => /\ st.sign \in {1, -1} /\ st.x \in Int
                          /\ st.what \in {"given", "seen", "covered", "beyond", "itself"}
                          /\ st.what = "itself" <=> st.rows[1] \in ActiveRows
                          /\ st.what = "itself" => st.sign = -1

IsProgram(s) == \E T : s \in Seq(T) /\ \A st \in T : Sound(st)

LEMMA ProgramFromSet ==
    ASSUME NEW T, NEW s \in Seq(T), \A st \in T : Sound(st)
    PROVE  IsProgram(s)
  BY Zenon DEF IsProgram

LEMMA EmptyProgram == IsProgram(<<>>)
<1> DEFINE T == {}  s == <<>>
<1>1. s \in Seq(T)
  OBVIOUS
<1>2. \A st \in T : Sound(st)
  BY Zenon
<1> HIDE DEF T, s
<1>3. IsProgram(s)
  BY <1>1, <1>2, ProgramFromSet
<1> QED BY <1>3 DEF s

LEMMA ProgramOfOne == ASSUME NEW a, Sound(a) PROVE IsProgram(<<a>>)
<1> DEFINE T == {a}  s == <<a>>
<1>1. s \in Seq(T)
  OBVIOUS
<1>2. \A st \in T : Sound(st)
  BY Zenon
<1> HIDE DEF T, s
<1>3. IsProgram(s)
  BY <1>1, <1>2, ProgramFromSet
<1> QED BY <1>3 DEF s

LEMMA ProgramsJoin ==
    ASSUME NEW s, NEW t, IsProgram(s), IsProgram(t)
    PROVE  IsProgram(s \o t)
<1>1. PICK S : s \in Seq(S) /\ \A st \in S : Sound(st)
  BY DEF IsProgram
<1>2. PICK T : t \in Seq(T) /\ \A st \in T : Sound(st)
  BY DEF IsProgram
<1>3. s \in Seq(S \cup T) /\ t \in Seq(S \cup T)
  BY <1>1, <1>2
<1>4. s \o t \in Seq(S \cup T)
  BY <1>3
<1> QED BY <1>1, <1>2, <1>4 DEF IsProgram

LEMMA ProgramOfTwo == ASSUME NEW a, NEW b, Sound(a), Sound(b) PROVE IsProgram(<<a, b>>)
<1> DEFINE T == {a, b}  s == <<a, b>>
<1>1. s \in Seq(T)
  OBVIOUS
<1>2. \A st \in T : Sound(st)
  BY Zenon
<1> HIDE DEF T, s
<1>3. IsProgram(s)
  BY <1>1, <1>2, ProgramFromSet
<1> QED BY <1>3 DEF s

LEMMA ProgramOfThree ==
    ASSUME NEW a, NEW b, NEW c, Sound(a), Sound(b), Sound(c) PROVE IsProgram(<<a, b, c>>)
<1> DEFINE T == {a, b, c}  s == <<a, b, c>>
<1>1. s \in Seq(T)
  OBVIOUS
<1>2. \A st \in T : Sound(st)
  BY Zenon
<1> HIDE DEF T, s
<1>3. IsProgram(s)
  BY <1>1, <1>2, ProgramFromSet
<1> QED BY <1>3 DEF s

LEMMA ProgramOfFive ==
    ASSUME NEW a, NEW b, NEW c, NEW d, NEW e, Sound(a), Sound(b), Sound(c), Sound(d), Sound(e)
    PROVE  IsProgram(<<a, b, c, d, e>>)
<1> DEFINE T == {a, b, c, d, e}  s == <<a, b, c, d, e>>
<1>1. s \in Seq(T)
  OBVIOUS
<1>2. \A st \in T : Sound(st)
  BY Zenon
<1> HIDE DEF T, s
<1>3. IsProgram(s)
  BY <1>1, <1>2, ProgramFromSet
<1> QED BY <1>3 DEF s

LEMMA StatementsSound ==
    /\ \A row : Sound(Lock(<<row>>))
    /\ \A rows, least : Sound(Check(rows, least))
    /\ \A row \in Row : Sound(Read(row))
    /\ \A row \in ActiveRows : Sound(Clear(row))
    /\ \A row \in Row \ ActiveRows, x \in Int :
          /\ Sound(Add(row, x)) /\ Sound(AddBeyond(row, x))
          /\ \A sign \in {1, -1} : Sound(AddSeen(row, sign)) /\ Sound(AddCovered(row, sign, x))
<1>1. \A row : <<row>> \in Seq({row})
  OBVIOUS
<1>2. \A row : Sound(Lock(<<row>>))
  BY <1>1 DEF Sound, Lock
<1>3. \A row \in ActiveRows : row \in Row
  BY DEF Row
<1> QED BY <1>2, <1>3 DEF Sound, Check, Read, Clear, Add, AddBeyond, AddSeen, AddCovered

LEMMA RowsAreRows ==
    /\ \A a \in Account : /\ BankRow(a) \in Row \ ActiveRows
                          /\ IsCard[a] => DebtRow(a) \in Row \ ActiveRows
    /\ \A c \in Category : /\ BudgetRow(c) \in Row \ ActiveRows
                           /\ ActiveRow(c) \in Row /\ ActiveRow(c) \in ActiveRows
    /\ \A k \in DOMAIN Past : OpRow(k) \in Row \ ActiveRows
    /\ BudgetRow(Unallocated) \in Row \ ActiveRows
  BY LocksAssumption DEF Row, BankRows, BudgetRows, ActiveRows, OpRows, DebtRows,
                         BankRow, BudgetRow, ActiveRow, OpRow, DebtRow

\* the list of the rows an allocation locks is a list
LEMMA OrderedRowsSound ==
    ASSUME NEW cs \in SUBSET Category
    PROVE  Sound(Lock(InIdOrder(cs)))
<1>1. Cardinality(cs) \in Nat
  BY LocksAssumption, FS_Subset, FS_CardinalityType
<1> DEFINE upTo(c) == {d \in cs : CategoryId[d] <= CategoryId[c]}
           at(n) == BudgetRow(CHOOSE c \in cs : Cardinality(upTo(c)) = n)
<1>2. InIdOrder(cs) = [n \in 1..Cardinality(cs) |-> at(n)]
  BY DEF InIdOrder
<1> HIDE DEF at
<1>3. InIdOrder(cs) \in Seq({at(n) : n \in 1..Cardinality(cs)})
  BY <1>1, <1>2
<1> QED BY <1>3 DEF Sound, Lock

LEMMA ExpenseProgram ==
    ASSUME NEW a \in Account, NEW c \in Category, NEW x \in Int
    PROVE  IsProgram(Expense(a, c, x))
<1>1. -x \in Int
  OBVIOUS
<1>2. IsProgram(<<Check(<<ActiveRow(c)>>, 1), Lock(<<BankRow(a)>>)>>)
  BY StatementsSound, ProgramOfTwo
<1>3. IsProgram(IF IsCard[a] \/ IsPersonal[a]
                THEN <<Check(<<BankRow(a)>>, Floor(a) + x)>> ELSE <<>>)
  BY StatementsSound, ProgramOfOne, EmptyProgram
<1>4. IsProgram(<<Lock(<<BudgetRow(c)>>), Add(BankRow(a), -x), Add(BudgetRow(c), -x)>>)
  BY <1>1, StatementsSound, RowsAreRows, ProgramOfThree
<1> QED BY <1>2, <1>3, <1>4, ProgramsJoin DEF Expense

LEMMA IncomeProgram ==
    ASSUME NEW a \in Account, NEW x \in Int
    PROVE  IsProgram(Income(a, x))
  BY StatementsSound, RowsAreRows, ProgramOfTwo DEF Income

LEMMA TransferProgram ==
    ASSUME NEW a \in Account, NEW t \in Account, NEW x \in Int
    PROVE  IsProgram(Transfer(a, t, x))
<1> DEFINE debt == IF IsCard[t] THEN DebtRow(t) ELSE BankRow(a)
           ending == CASE IsCard[t] /\ ~IsCard[a] ->
                            <<AddCovered(BudgetRow(Unallocated), -1, x), AddCovered(DebtRow(t), -1, x)>>
                       [] IsCard[a] /\ ~IsCard[t] ->
                            <<AddBeyond(BudgetRow(Unallocated), x), AddBeyond(DebtRow(a), x)>>
                       [] ~IsCard[a] /\ ~IsCard[t] ->
                            <<Add(BudgetRow(Unallocated), -x), Add(BudgetRow(Unallocated), x)>>
                       [] OTHER -> <<>>
<1>1. -x \in Int /\ IsCard[a] \in BOOLEAN /\ IsCard[t] \in BOOLEAN
  BY LocksAssumption
<1>2. debt \in Row
  BY RowsAreRows
<1>3. IsProgram(<<Lock(<<BankRow(a)>>), Check(<<BankRow(a)>>, Floor(a) + x), Read(debt),
                  Add(BankRow(a), -x), Add(BankRow(t), x)>>)
  BY <1>1, <1>2, StatementsSound, RowsAreRows, ProgramOfFive
<1>4. IsProgram(ending)
  <2>1. CASE IsCard[t] /\ ~IsCard[a]
    <3>1. ending = <<AddCovered(BudgetRow(Unallocated), -1, x), AddCovered(DebtRow(t), -1, x)>>
      BY <2>1
    <3>2. Sound(AddCovered(BudgetRow(Unallocated), -1, x)) /\ Sound(AddCovered(DebtRow(t), -1, x))
      BY <2>1, StatementsSound, RowsAreRows
    <3> QED BY <3>1, <3>2, ProgramOfTwo
  <2>2. CASE IsCard[a] /\ ~IsCard[t]
    <3>1. ending = <<AddBeyond(BudgetRow(Unallocated), x), AddBeyond(DebtRow(a), x)>>
      BY <2>2
    <3>2. Sound(AddBeyond(BudgetRow(Unallocated), x)) /\ Sound(AddBeyond(DebtRow(a), x))
      BY <2>2, StatementsSound, RowsAreRows
    <3> QED BY <3>1, <3>2, ProgramOfTwo
  <2>3. CASE ~IsCard[a] /\ ~IsCard[t]
    <3>1. ending = <<Add(BudgetRow(Unallocated), -x), Add(BudgetRow(Unallocated), x)>>
      BY <2>3
    <3>2. Sound(Add(BudgetRow(Unallocated), -x)) /\ Sound(Add(BudgetRow(Unallocated), x))
      BY <1>1, StatementsSound, RowsAreRows
    <3> QED BY <3>1, <3>2, ProgramOfTwo
  <2>4. CASE IsCard[a] /\ IsCard[t]
    <3>1. ending = <<>>
      BY <2>4
    <3> QED BY <3>1, EmptyProgram
  <2> QED BY <1>1, <2>1, <2>2, <2>3, <2>4
<1> QED BY <1>3, <1>4, ProgramsJoin DEF Transfer

LEMMA AllocateProgram ==
    ASSUME NEW f \in Category, NEW t \in Category, NEW x \in Int
    PROVE  IsProgram(Allocate(f, t, x))
<1>1. -x \in Int
  OBVIOUS
<1>2. IsProgram(<<Check(<<ActiveRow(f)>>, 1), Check(<<ActiveRow(t)>>, 1),
                  Lock(InIdOrder({f, t} \cup (IF f = Unallocated THEN {FxResult} ELSE {})))>>)
  <2>1. {f, t} \cup (IF f = Unallocated THEN {FxResult} ELSE {}) \in SUBSET Category
    BY LocksAssumption
  <2> QED BY <2>1, OrderedRowsSound, StatementsSound, ProgramOfThree
<1>3. IsProgram(IF f = Unallocated
                THEN <<Check(<<BudgetRow(f), BudgetRow(FxResult)>>, x)>> ELSE <<>>)
  BY StatementsSound, ProgramOfOne, EmptyProgram
<1>4. IsProgram(<<Add(BudgetRow(f), -x), Add(BudgetRow(t), x)>>)
  BY <1>1, StatementsSound, RowsAreRows, ProgramOfTwo
<1> QED BY <1>2, <1>3, <1>4, ProgramsJoin DEF Allocate

LEMMA ReverseProgram ==
    ASSUME NEW k \in DOMAIN Past
    PROVE  IsProgram(ReverseOperation(k))
<1> DEFINE op == Past[k]
<1>1. /\ op.account \in Account /\ op.category \in Category /\ op.amount \in Int
      /\ -op.amount \in Int /\ -1 \in Int
  BY RequestsAssumption
<1> HIDE DEF op
<1>2. IsProgram(<<Lock(<<OpRow(k)>>), Check(<<OpRow(k)>>, 1)>>)
  BY StatementsSound, ProgramOfTwo
<1>3. IsProgram(IF op.amount > 0
                THEN <<Check(<<BankRow(op.account)>>, Floor(op.account) + op.amount)>>
                ELSE <<>>)
  BY StatementsSound, ProgramOfOne, EmptyProgram
<1>4. IsProgram(IF op.amount > 0 /\ op.category = Unallocated
                THEN <<Check(<<BudgetRow(Unallocated), BudgetRow(FxResult)>>, op.amount)>>
                ELSE <<>>)
  BY StatementsSound, ProgramOfOne, EmptyProgram
<1>5. IsProgram(<<Add(OpRow(k), -1), Add(BankRow(op.account), -op.amount),
                  Add(BudgetRow(op.category), -op.amount)>>)
  BY <1>1, StatementsSound, RowsAreRows, ProgramOfThree
<1> QED BY <1>2, <1>3, <1>4, <1>5, ProgramsJoin DEF ReverseOperation, op

LEMMA ArchiveProgram ==
    ASSUME NEW c \in Category
    PROVE  IsProgram(ArchiveCategory(c))
  BY StatementsSound, RowsAreRows, ProgramOfFive DEF ArchiveCategory

LEMMA ProgramSound ==
    ASSUME NEW req \in Requests
    PROVE  IsProgram(Program(req))
<1> USE RequestsAssumption DEF Program
<1>1. CASE req.call = "expense"
  BY <1>1, ExpenseProgram
<1>2. CASE req.call = "income"
  BY <1>2, IncomeProgram
<1>3. CASE req.call = "transfer"
  BY <1>3, TransferProgram
<1>4. CASE req.call = "allocate"
  BY <1>4, AllocateProgram
<1>5. CASE req.call = "reverse"
  BY <1>5, ReverseProgram
<1>6. CASE req.call = "archive"
  BY <1>6, ArchiveProgram
<1> QED BY <1>1, <1>2, <1>3, <1>4, <1>5, <1>6

(***************************************************************************)
(* What is left of a call: sound statements, and the commit at its end.     *)
(***************************************************************************)
IsRunning(s) ==
    /\ \E T : s \in Seq(T) /\ \A st \in T : Sound(st) \/ st.do = "commit"
    /\ \A i \in 1..Len(s) : s[i].do = "commit" <=> i = Len(s)

LEMMA NothingRuns == IsRunning(<<>>)
<1> DEFINE T == {}  s == <<>>
<1>1. s \in Seq(T) /\ Len(s) = 0
  OBVIOUS
<1>2. \A st \in T : Sound(st) \/ st.do = "commit"
  BY Zenon
<1> HIDE DEF T, s
<1>3. IsRunning(s)
  BY <1>1, <1>2 DEF IsRunning
<1> QED BY <1>3 DEF s

\* what is left after the first statement
LEMMA AfterTheFirst ==
    ASSUME NEW T, NEW s \in Seq(T), s # <<>>
    PROVE  /\ Head(s) \in T /\ Head(s) = s[1] /\ Tail(s) \in Seq(T)
           /\ Len(s) \in Nat /\ Len(s) # 0 /\ Len(Tail(s)) = Len(s) - 1
           /\ \A i \in 1..Len(Tail(s)) : Tail(s)[i] = s[i + 1]
           /\ Tail(s) = <<>> <=> Len(s) = 1
<1>1. Len(s) \in Nat /\ Len(s) # 0
  BY EmptySeq
<1>2. Head(s) \in T /\ Head(s) = s[1] /\ Tail(s) \in Seq(T) /\ Len(Tail(s)) = Len(s) - 1
  BY <1>1
<1>3. \A i \in 1..Len(Tail(s)) : Tail(s)[i] = s[i + 1]
  BY <1>1, <1>2
<1>4. Tail(s) = <<>> <=> Len(Tail(s)) = 0
  BY <1>2, EmptySeq
<1> QED BY <1>1, <1>2, <1>3, <1>4

LEMMA HeadAndTail ==
    ASSUME NEW s, IsRunning(s), s # <<>>
    PROVE  /\ Sound(Head(s)) \/ Head(s).do = "commit"
           /\ IsRunning(Tail(s))
           /\ Tail(s) = <<>> <=> Head(s).do = "commit"
<1>1. PICK T : s \in Seq(T) /\ \A st \in T : Sound(st) \/ st.do = "commit"
  BY DEF IsRunning
<1>2. /\ Head(s) \in T /\ Head(s) = s[1] /\ Tail(s) \in Seq(T)
      /\ Len(s) \in Nat /\ Len(s) # 0 /\ Len(Tail(s)) = Len(s) - 1
      /\ \A i \in 1..Len(Tail(s)) : Tail(s)[i] = s[i + 1]
      /\ Tail(s) = <<>> <=> Len(s) = 1
  BY <1>1, AfterTheFirst
<1>3. \A i \in 1..Len(s) : s[i].do = "commit" <=> i = Len(s)
  BY DEF IsRunning
<1>4. \A i \in 1..Len(Tail(s)) : Tail(s)[i].do = "commit" <=> i = Len(Tail(s))
  <2> SUFFICES ASSUME NEW i \in 1..Len(Tail(s))
               PROVE  Tail(s)[i].do = "commit" <=> i = Len(Tail(s))
    OBVIOUS
  <2>0. Len(s) \in Nat /\ Len(Tail(s)) = Len(s) - 1 /\ Tail(s)[i] = s[i + 1]
    BY <1>2
  <2>1. i + 1 \in 1..Len(s)
    BY <2>0
  <2>2. s[i + 1].do = "commit" <=> i + 1 = Len(s)
    BY <2>1, <1>3
  <2>3. i = Len(Tail(s)) <=> i + 1 = Len(s)
    BY <2>0
  <2>4. Tail(s)[i].do = s[i + 1].do
    BY <2>0
  <2> QED BY <2>2, <2>3, <2>4
<1>5. Head(s).do = "commit" <=> Len(s) = 1
  <2>1. Head(s) = s[1] /\ 1 \in 1..Len(s)
    BY <1>2
  <2> QED BY <2>1, <1>3
<1>6. Sound(Head(s)) \/ Head(s).do = "commit"
  BY <1>1, <1>2
<1>7. IsRunning(Tail(s))
  BY <1>1, <1>2, <1>4 DEF IsRunning
<1>8. Tail(s) = <<>> <=> Head(s).do = "commit"
  BY <1>2, <1>5
<1> QED BY <1>6, <1>7, <1>8

\* a call that begins: its statements and the commit
Started(req) == Append(Program(req), [do |-> "commit"])

LEMMA StartedRuns ==
    ASSUME NEW req \in Requests
    PROVE  /\ IsRunning(Started(req)) /\ Started(req) # <<>>
           /\ Len(Started(req)) = Len(Program(req)) + 1 /\ Len(Program(req)) \in Nat
           /\ \A i \in 1..Len(Program(req)) : Started(req)[i] = Program(req)[i]
           /\ Started(req)[Len(Started(req))].do = "commit"
<1> DEFINE c == [do |-> "commit"]  s == Program(req)
<1>1. PICK T : s \in Seq(T) /\ \A st \in T : Sound(st)
  BY ProgramSound DEF IsProgram
<1>2. \A st \in T : st.do # "commit"
  BY <1>1 DEF Sound
<1>3. c.do = "commit"
  OBVIOUS
<1> HIDE DEF c, s
<1>4. /\ Append(s, c) \in Seq(T \cup {c}) /\ Len(s) \in Nat /\ Len(Append(s, c)) = Len(s) + 1
      /\ \A i \in 1..Len(s) : Append(s, c)[i] = s[i] /\ s[i] \in T
      /\ Append(s, c)[Len(s) + 1] = c
  BY <1>1
<1>5. \A i \in 1..Len(Append(s, c)) :
         Append(s, c)[i].do = "commit" <=> i = Len(Append(s, c))
  BY <1>2, <1>3, <1>4
<1>6. \A st \in T \cup {c} : Sound(st) \/ st.do = "commit"
  BY <1>1, <1>3
<1>7. IsRunning(Append(s, c))
  BY <1>4, <1>5, <1>6 DEF IsRunning
<1>8. Started(req) = Append(s, c)
  BY DEF Started, c, s
<1>9. Started(req) # <<>>
  BY <1>4, <1>8
<1> QED BY <1>3, <1>4, <1>7, <1>8, <1>9 DEF s

(***************************************************************************)
(* Uncommitted changes belong to the holder of the row, except those to a   *)
(* debt, which are entries of their own.                                    *)
(***************************************************************************)
WritesAreHeld ==
    \A p \in Proc, r \in Row \ DebtRows : written[p][r] # 0 => holder[r] = p

LocksInv ==
    /\ committed \in [Row -> Int]
    /\ holder \in [Row -> Proc \cup {Nobody}]
    /\ DOMAIN program = Proc /\ \A p \in Proc : IsRunning(program[p])
    /\ written \in [Proc -> [Row -> Int]]
    /\ seen \in [Proc -> Int]
    /\ WritesAreHeld

LEMMA InitLocks == Init => LocksInv
<1> SUFFICES ASSUME Init PROVE LocksInv
  OBVIOUS
<1>1. \A p \in Proc : program[p] = <<>> /\ written[p] = NoWrites
  BY DEF Init
<1>2. NoWrites \in [Row -> Int] /\ \A r \in Row : NoWrites[r] = 0
  BY DEF NoWrites
<1> QED BY <1>1, <1>2, NothingRuns, LocksAssumption DEF Init, LocksInv, WritesAreHeld

LEMMA AdvanceKeeps ==
    ASSUME LocksInv, NEW p \in Proc, Busy(p), Advance(p)
    PROVE  DOMAIN program' = Proc /\ \A q \in Proc : IsRunning(program'[q])
<1>1. IsRunning(Tail(program[p]))
  BY HeadAndTail DEF LocksInv, Busy
<1>2. /\ DOMAIN program' = Proc /\ program'[p] = Tail(program[p])
      /\ \A q \in Proc \ {p} : program'[q] = program[q]
  BY DEF LocksInv, Advance
<1> QED BY <1>1, <1>2 DEF LocksInv

LEMMA EndKeeps ==
    ASSUME LocksInv, NEW p \in Proc, EndTransaction(p), committed' \in [Row -> Int]
    PROVE  LocksInv'
<1>1. /\ DOMAIN program' = Proc /\ program'[p] = <<>>
      /\ \A q \in Proc \ {p} : program'[q] = program[q]
  BY DEF LocksInv, EndTransaction
<1>2. NoWrites \in [Row -> Int] /\ \A r \in Row : NoWrites[r] = 0
  BY DEF NoWrites
<1>3. /\ written' \in [Proc -> [Row -> Int]] /\ written'[p] = NoWrites
      /\ \A q \in Proc \ {p} : written'[q] = written[q]
  BY <1>2 DEF LocksInv, EndTransaction
<1>4. /\ holder' \in [Row -> Proc \cup {Nobody}]
      /\ \A r \in Row : holder[r] # p => holder'[r] = holder[r]
  BY DEF LocksInv, EndTransaction, Release
<1>5. seen' \in [Proc -> Int]
  BY DEF LocksInv, EndTransaction
<1>6. \A q \in Proc : IsRunning(program'[q])
  BY <1>1, NothingRuns DEF LocksInv
<1>7. WritesAreHeld'
  BY <1>2, <1>3, <1>4 DEF LocksInv, WritesAreHeld
<1> QED BY <1>1, <1>3, <1>4, <1>5, <1>6, <1>7 DEF LocksInv

LEMMA CommitTyped ==
    ASSUME LocksInv, NEW p \in Proc, Commit(p)
    PROVE  committed' \in [Row -> Int]
  BY DEF LocksInv, Commit

LEMMA DeltaIsInt ==
    ASSUME LocksInv, NEW p \in Proc, Busy(p), Current(p).do = "write"
    PROVE  Delta(p) \in Int /\ Current(p).rows[1] \in Row
<1> DEFINE st == Current(p)
           covered == Greater(0, Lesser(st.x, seen[p]))
           amount == CASE st.what = "given"   -> st.x
                       [] st.what = "seen"    -> seen[p]
                       [] st.what = "covered" -> covered
                       [] st.what = "beyond"  -> st.x - covered
                       [] st.what = "itself"  -> Visible(p, st.rows[1])
<1>1. Sound(st)
  <2>1. Sound(st) \/ st.do = "commit"
    BY HeadAndTail DEF LocksInv, Busy, Current
  <2> QED BY <2>1
<1>2. /\ st.rows[1] \in Row /\ st.sign \in {1, -1} /\ st.x \in Int
      /\ st.what \in {"given", "seen", "covered", "beyond", "itself"}
  BY <1>1 DEF Sound
<1>3. covered \in Int /\ seen[p] \in Int /\ Visible(p, st.rows[1]) \in Int
  BY <1>2 DEF LocksInv, Greater, Lesser, Visible
<1> HIDE DEF covered, st
<1>4. amount \in Int
  BY <1>2, <1>3
<1>5. Delta(p) = st.sign * amount
  BY DEF Delta, st, covered
<1> HIDE DEF amount
<1>6. Delta(p) \in Int
  BY <1>2, <1>4, <1>5
<1> QED BY <1>2, <1>6 DEF st

LEMMA BeginKeeps ==
    ASSUME LocksInv, NEW p \in Proc, NEW req \in Requests, Begin(p, req)
    PROVE  LocksInv'
<1>1. IsRunning(Started(req))
  BY StartedRuns
<1>2. /\ DOMAIN program' = Proc /\ program'[p] = Started(req)
      /\ \A q \in Proc \ {p} : program'[q] = program[q]
  BY DEF LocksInv, Begin, Started
<1>3. \A q \in Proc : IsRunning(program'[q])
  BY <1>1, <1>2 DEF LocksInv
<1> QED BY <1>2, <1>3 DEF LocksInv, WritesAreHeld, Begin

LEMMA LockKeeps ==
    ASSUME LocksInv, NEW p \in Proc, StartLocking(p) \/ LockRow(p)
    PROVE  LocksInv'
<1>1. Busy(p) /\ UNCHANGED <<committed, written, seen>>
  BY DEF StartLocking, LockRow
<1>2. Advance(p) \/ UNCHANGED program
  BY DEF StartLocking, LockRow
<1>3. DOMAIN program' = Proc /\ \A q \in Proc : IsRunning(program'[q])
  BY <1>1, <1>2, AdvanceKeeps DEF LocksInv
<1>4. /\ holder' \in [Row -> Proc \cup {Nobody}]
      /\ \A r \in Row : holder[r] \in Proc => holder'[r] = holder[r]
  <2>1. CASE StartLocking(p)
    BY <2>1 DEF StartLocking, LocksInv
  <2>2. CASE LockRow(p)
    <3> DEFINE h == Head(queue[p])
    <3> HIDE DEF h
    <3>1. \/ holder' = holder
          \/ holder[h] \in {Nobody, p} /\ holder' = [holder EXCEPT ![h] = p]
      BY <2>2 DEF LockRow, h
    <3> QED BY <3>1, LocksAssumption DEF LocksInv
  <2> QED BY <2>1, <2>2
<1> QED BY <1>1, <1>3, <1>4 DEF LocksInv, WritesAreHeld

LEMMA CheckKeeps ==
    ASSUME LocksInv, NEW p \in Proc, CheckBalance(p)
    PROVE  LocksInv'
<1>1. CASE Passes(p)
  <2>1. Busy(p) /\ Advance(p) /\ UNCHANGED <<committed, holder, written, seen>>
    BY <1>1 DEF CheckBalance
  <2> QED BY <2>1, AdvanceKeeps DEF LocksInv, WritesAreHeld
<1>2. CASE ~Passes(p)
  BY <1>2, EndKeeps DEF CheckBalance, LocksInv
<1> QED BY <1>1, <1>2

LEMMA ReadKeeps ==
    ASSUME LocksInv, NEW p \in Proc, ReadValue(p)
    PROVE  LocksInv'
<1>1. Busy(p) /\ Advance(p) /\ UNCHANGED <<committed, holder, written>>
  BY DEF ReadValue
<1>2. Sound(Current(p)) \/ Current(p).do = "commit"
  BY <1>1, HeadAndTail DEF LocksInv, Busy, Current
<1>3. Current(p).rows[1] \in Row
  BY <1>2 DEF ReadValue, Sound
<1>4. Visible(p, Current(p).rows[1]) \in Int
  BY <1>3 DEF Visible, LocksInv
<1>5. seen' \in [Proc -> Int]
  BY <1>4 DEF ReadValue, LocksInv
<1> QED BY <1>1, <1>5, AdvanceKeeps DEF LocksInv, WritesAreHeld

LEMMA ApplyKeeps ==
    ASSUME LocksInv, NEW p \in Proc, ApplyDelta(p)
    PROVE  LocksInv'
<1> DEFINE row == Current(p).rows[1]
           d == Delta(p)
<1>1. Busy(p) /\ Advance(p) /\ UNCHANGED <<committed, seen>>
  BY DEF ApplyDelta, Writes
<1>2. d \in Int /\ row \in Row
  BY DeltaIsInt DEF ApplyDelta, Writes
<1>3. /\ row \in DebtRows \/ holder[row] \in {Nobody, p}
      /\ holder' = IF row \in DebtRows THEN holder ELSE [holder EXCEPT ![row] = p]
      /\ written' = [written EXCEPT ![p][row] = @ + d]
  BY DEF ApplyDelta
<1> HIDE DEF row, d
<1>4. /\ written' \in [Proc -> [Row -> Int]]
      /\ \A q \in Proc, r \in Row : q # p \/ r # row => written'[q][r] = written[q][r]
  BY <1>2, <1>3 DEF LocksInv
<1>5. /\ holder' \in [Row -> Proc \cup {Nobody}]
      /\ \A r \in Row : holder[r] \in Proc => holder'[r] = holder[r]
      /\ row \notin DebtRows => holder'[row] = p
  BY <1>2, <1>3, LocksAssumption DEF LocksInv
<1>6. WritesAreHeld'
  BY <1>4, <1>5 DEF LocksInv, WritesAreHeld
<1> QED BY <1>1, <1>4, <1>5, <1>6, AdvanceKeeps DEF LocksInv

LEMMA NextLocks == LocksInv /\ [Next]_vars => LocksInv'
<1> SUFFICES ASSUME LocksInv, [Next]_vars PROVE LocksInv'
  OBVIOUS
<1>1. ASSUME NEW p \in Proc, NEW req \in Requests, Begin(p, req) PROVE LocksInv'
  BY <1>1, BeginKeeps
<1>2. ASSUME NEW p \in Proc, Step(p) PROVE LocksInv'
  <2>1. CASE StartLocking(p) \/ LockRow(p)
    BY <2>1, LockKeeps
  <2>2. CASE CheckBalance(p)
    BY <2>2, CheckKeeps
  <2>3. CASE ReadValue(p)
    BY <2>3, ReadKeeps
  <2>4. CASE ApplyDelta(p)
    BY <2>4, ApplyKeeps
  <2>5. CASE SkipZero(p)
    BY <2>5, AdvanceKeeps DEF SkipZero, LocksInv, WritesAreHeld
  <2>6. CASE Commit(p)
    BY <2>6, CommitTyped, EndKeeps DEF Commit
  <2>7. CASE AbortDeadlocked(p)
    BY <2>7, EndKeeps DEF AbortDeadlocked, LocksInv
  <2> QED BY <1>2, <2>1, <2>2, <2>3, <2>4, <2>5, <2>6, <2>7 DEF Step
<1>3. CASE UNCHANGED vars
  BY <1>3 DEF vars, LocksInv, WritesAreHeld
<1> QED BY <1>1, <1>2, <1>3 DEF Next

(***************************************************************************)
(* Only a commit changes what others see, and it gives up every row it has  *)
(* changed: a row that keeps its holder keeps its value.                    *)
(***************************************************************************)
KeptRowsKeepValues ==
    \A r \in Row \ DebtRows : holder[r] \in Proc /\ holder'[r] = holder[r]
        => committed'[r] = committed[r]

LEMMA StepKeepsHeldRows == LocksInv /\ [Next]_vars => KeptRowsKeepValues
<1> SUFFICES ASSUME LocksInv, [Next]_vars,
                    NEW r \in Row \ DebtRows, holder[r] \in Proc, holder'[r] = holder[r]
             PROVE  committed'[r] = committed[r]
  BY DEF KeptRowsKeepValues
<1>1. ASSUME NEW p \in Proc, Commit(p) PROVE committed'[r] = committed[r]
  <2>1. holder[r] # p
    BY <1>1, LocksAssumption DEF Commit, EndTransaction, Release, LocksInv
  <2>2. written[p][r] = 0
    BY <2>1 DEF LocksInv, WritesAreHeld
  <2> QED BY <1>1, <2>2 DEF Commit, LocksInv
<1>2. ASSUME NEW p \in Proc, NEW req \in Requests, Begin(p, req) PROVE UNCHANGED committed
  BY <1>2 DEF Begin
<1>3. ASSUME NEW p \in Proc, Step(p), ~Commit(p) PROVE UNCHANGED committed
  BY <1>3 DEF Step, StartLocking, LockRow, CheckBalance, ReadValue, ApplyDelta, SkipZero,
              AbortDeadlocked
<1>4. CASE UNCHANGED vars
  BY <1>4 DEF vars
<1> QED BY <1>1, <1>2, <1>3, <1>4 DEF Next

\* While a function of the ledger holds a row, no other one changes it, on any
\* number of connections: what was compared after FOR UPDATE still holds when
\* the function writes.
THEOREM HeldRowsStable == Spec => LockedBalanceIsStable
<1>1. Spec => []LocksInv
  BY InitLocks, NextLocks, PTL DEF Spec
<1>2. LocksInv /\ [Next]_vars => [KeptRowsKeepValues]_vars
  BY StepKeepsHeldRows
<1>3. Spec => [][KeptRowsKeepValues]_vars
  BY <1>1, <1>2, PTL DEF Spec
<1> QED BY <1>3 DEF LockedBalanceIsStable, KeptRowsKeepValues

(***************************************************************************)
(* Lists of statements, put together from parts.                            *)
(***************************************************************************)
IsList(s) == \E T : s \in Seq(T)

LEMMA ListFacts ==
    ASSUME NEW s, IsList(s)
    PROVE  Len(s) \in Nat
  BY DEF IsList

LEMMA JoinFacts ==
    ASSUME NEW s, NEW t, IsList(s), IsList(t)
    PROVE  /\ IsList(s \o t) /\ Len(s) \in Nat /\ Len(t) \in Nat
           /\ Len(s \o t) = Len(s) + Len(t)
           /\ \A i \in 1..Len(s) : (s \o t)[i] = s[i]
           /\ \A i \in 1..Len(t) : (s \o t)[Len(s) + i] = t[i]
           /\ \A i \in 1..Len(s \o t) :
                 i \in 1..Len(s) \/ (i - Len(s) \in 1..Len(t) /\ (s \o t)[i] = t[i - Len(s)])
<1>1. PICK S : s \in Seq(S)
  BY DEF IsList
<1>2. PICK T : t \in Seq(T)
  BY DEF IsList
<1>3. s \in Seq(S \cup T) /\ t \in Seq(S \cup T)
  BY <1>1, <1>2
<1>4. /\ s \o t \in Seq(S \cup T) /\ Len(s \o t) = Len(s) + Len(t)
      /\ \A i \in 1 .. Len(s) + Len(t) : (s \o t)[i] =
            IF i <= Len(s) THEN s[i] ELSE t[i - Len(s)]
  BY <1>3, ConcatProperties
<1>5. Len(s) \in Nat /\ Len(t) \in Nat
  BY <1>3
<1>6. IsList(s \o t)
  BY <1>4 DEF IsList
<1>7. \A i \in 1..Len(s) : (s \o t)[i] = s[i]
  BY <1>4, <1>5
<1>8. \A i \in 1..Len(t) : (s \o t)[Len(s) + i] = t[i]
  <2> SUFFICES ASSUME NEW i \in 1..Len(t) PROVE (s \o t)[Len(s) + i] = t[i]
    OBVIOUS
  <2>1. /\ Len(s) + i \in 1..(Len(s) + Len(t)) /\ ~(Len(s) + i <= Len(s))
        /\ Len(s) + i - Len(s) = i
    BY <1>5
  <2> QED BY <2>1, <1>4
<1>9. \A i \in 1..Len(s \o t) :
         i \in 1..Len(s) \/ (i - Len(s) \in 1..Len(t) /\ (s \o t)[i] = t[i - Len(s)])
  BY <1>4, <1>5
<1> QED BY <1>4, <1>5, <1>6, <1>7, <1>8, <1>9

LEMMA TuplesAreLists ==
    ASSUME NEW a, NEW b, NEW c, NEW d, NEW e
    PROVE  /\ IsList(<<a>>) /\ Len(<<a>>) = 1
           /\ IsList(<<a, b>>) /\ Len(<<a, b>>) = 2
           /\ IsList(<<a, b, c>>) /\ Len(<<a, b, c>>) = 3
           /\ IsList(<<a, b, c, d, e>>) /\ Len(<<a, b, c, d, e>>) = 5
<1>1. <<a>> \in Seq({a})
  OBVIOUS
<1>2. <<a, b>> \in Seq({a, b})
  OBVIOUS
<1>3. <<a, b, c>> \in Seq({a, b, c})
  OBVIOUS
<1>4. <<a, b, c, d, e>> \in Seq({a, b, c, d, e})
  OBVIOUS
<1> QED BY <1>1, <1>2, <1>3, <1>4 DEF IsList

(***************************************************************************)
(* What a statement moves between the budget and the money, once the        *)
(* function has read v.                                                     *)
(***************************************************************************)
MoneyRows == BankRows \cup DebtRows

Added(st, v) ==
    st.sign * CASE st.what = "given"   -> st.x
                [] st.what = "seen"    -> v
                [] st.what = "covered" -> Greater(0, Lesser(st.x, v))
                [] st.what = "beyond"  -> st.x - Greater(0, Lesser(st.x, v))
                [] st.what = "itself"  -> 0

Effect(st, v) ==
    IF st.do # "write" THEN 0
    ELSE IF st.rows[1] \in BudgetRows THEN Added(st, v)
    ELSE IF st.rows[1] \in MoneyRows THEN -Added(st, v)
    ELSE 0

\* the statements of s change the budget, less the money, by b
Moves(s, v, b) ==
    \E w : /\ w \in [1..(Len(s) + 1) -> Int]
           /\ w[1] = b /\ w[Len(s) + 1] = 0
           /\ \A i \in 1..Len(s) : w[i] = Effect(s[i], v) + w[i + 1]

LEMMA MovesJoin ==
    ASSUME NEW s, NEW t, IsList(s), IsList(t), NEW v,
           Moves(s, v, 0), Moves(t, v, 0)
    PROVE  Moves(s \o t, v, 0)
<1> DEFINE n == Len(s)  m == Len(t)  u == s \o t
<1>1. PICK w1 : /\ w1 \in [1..(n + 1) -> Int] /\ w1[1] = 0 /\ w1[n + 1] = 0
                /\ \A i \in 1..n : w1[i] = Effect(s[i], v) + w1[i + 1]
  BY DEF Moves
<1>2. PICK w2 : /\ w2 \in [1..(m + 1) -> Int] /\ w2[1] = 0 /\ w2[m + 1] = 0
                /\ \A i \in 1..m : w2[i] = Effect(t[i], v) + w2[i + 1]
  BY DEF Moves
<1>3. /\ n \in Nat /\ m \in Nat /\ Len(u) = n + m
      /\ \A i \in 1..n : u[i] = s[i]
      /\ \A i \in 1..(n + m) : i \in 1..n \/ (i - n \in 1..m /\ u[i] = t[i - n])
  BY JoinFacts
<1> HIDE DEF n, m, u
<1> DEFINE w == [i \in 1..(n + m + 1) |-> IF i <= n THEN w1[i] ELSE w2[i - n]]
<1>4. w \in [1..(n + m + 1) -> Int]
  BY <1>1, <1>2, <1>3
<1>5. w[1] = 0 /\ w[n + m + 1] = 0
  BY <1>1, <1>2, <1>3
<1>6. \A i \in 1..(n + m) : w[i] = Effect(u[i], v) + w[i + 1]
  <2> SUFFICES ASSUME NEW i \in 1..(n + m) PROVE w[i] = Effect(u[i], v) + w[i + 1]
    OBVIOUS
  <2>1. CASE i < n
    BY <1>1, <1>3, <2>1
  <2>2. CASE i = n
    <3>1. w[i] = w1[n] /\ w[i + 1] = w2[1] /\ u[i] = s[n] /\ n \in 1..n
      BY <1>3, <2>2
    <3> QED BY <1>1, <1>2, <3>1
  <2>3. CASE i > n
    <3>1. /\ w[i] = w2[i - n] /\ w[i + 1] = w2[(i - n) + 1] /\ u[i] = t[i - n] /\ i - n \in 1..m
      BY <1>3, <2>3
    <3> QED BY <1>2, <3>1
  <2> QED BY <1>3, <2>1, <2>2, <2>3
<1> HIDE DEF w
<1>7. Moves(u, v, 0)
  BY <1>3, <1>4, <1>5, <1>6 DEF Moves
<1> QED BY <1>7 DEF u

LEMMA MovesNothing ==
    ASSUME NEW v
    PROVE  Moves(<<>>, v, 0) /\ \A b : Moves(<<>>, v, b) => b = 0
<1> DEFINE w == [i \in 1..1 |-> 0]
<1>1. Len(<<>>) = 0
  BY EmptySeq
<1>2. w \in [1..(0 + 1) -> Int] /\ w[1] = 0 /\ w[0 + 1] = 0
  OBVIOUS
<1> HIDE DEF w
<1> QED BY <1>1, <1>2 DEF Moves

LEMMA MovesOne ==
    ASSUME NEW a, NEW v, Effect(a, v) = 0
    PROVE  Moves(<<a>>, v, 0)
<1> DEFINE w == [i \in 1..2 |-> 0]  s == <<a>>
<1>1. /\ Len(s) = 1 /\ s[1] = a
      /\ w \in [1..(1 + 1) -> Int] /\ w[1] = 0 /\ w[1 + 1] = 0
  OBVIOUS
<1> HIDE DEF w, s
<1>2. \A i \in 1..1 : w[i] = Effect(s[i], v) + w[i + 1]
  BY <1>1
<1>3. Moves(s, v, 0)
  BY <1>1, <1>2 DEF Moves
<1> QED BY <1>3 DEF s

LEMMA MovesTwo ==
    ASSUME NEW a, NEW b, NEW v, Effect(a, v) \in Int, Effect(b, v) \in Int,
           Effect(a, v) + Effect(b, v) = 0
    PROVE  Moves(<<a, b>>, v, 0)
<1> DEFINE s == <<a, b>>
           w == [i \in 1..3 |-> IF i = 2 THEN Effect(b, v) ELSE 0]
<1>1. /\ Len(s) = 2 /\ s[1] = a /\ s[2] = b
      /\ w \in [1..(2 + 1) -> Int] /\ w[1] = 0 /\ w[2] = Effect(b, v) /\ w[3] = 0 /\ w[2 + 1] = 0
  OBVIOUS
<1> HIDE DEF w, s
<1>2. \A i \in 1..2 : w[i] = Effect(s[i], v) + w[i + 1]
  <2>1. /\ w[1] = Effect(s[1], v) + w[1 + 1]
        /\ w[2] = Effect(s[2], v) + w[2 + 1]
    BY <1>1
  <2>2. 1..2 = {1, 2}
    OBVIOUS
  <2> QED BY <2>1, <2>2
<1>3. Moves(s, v, 0)
  BY <1>1, <1>2 DEF Moves
<1> QED BY <1>3 DEF s

LEMMA MovesThree ==
    ASSUME NEW a, NEW b, NEW c, NEW v,
           Effect(a, v) = 0, Effect(b, v) \in Int, Effect(c, v) \in Int,
           Effect(b, v) + Effect(c, v) = 0
    PROVE  Moves(<<a, b, c>>, v, 0)
<1> DEFINE s == <<a, b, c>>
           w == [i \in 1..4 |-> IF i = 3 THEN Effect(c, v) ELSE 0]
<1>1. /\ Len(s) = 3 /\ s[1] = a /\ s[2] = b /\ s[3] = c
      /\ w \in [1..(3 + 1) -> Int] /\ w[1] = 0 /\ w[2] = 0 /\ w[3] = Effect(c, v) /\ w[4] = 0
      /\ w[3 + 1] = 0
  OBVIOUS
<1> HIDE DEF w, s
<1>2. \A i \in 1..3 : w[i] = Effect(s[i], v) + w[i + 1]
  <2>1. /\ w[1] = Effect(s[1], v) + w[1 + 1]
        /\ w[2] = Effect(s[2], v) + w[2 + 1]
        /\ w[3] = Effect(s[3], v) + w[3 + 1]
    BY <1>1
  <2>2. 1..3 = {1, 2, 3}
    OBVIOUS
  <2> QED BY <2>1, <2>2
<1>3. Moves(s, v, 0)
  BY <1>1, <1>2 DEF Moves
<1> QED BY <1>3 DEF s

\* a list of five of which two that follow each other move money
LEMMA MovesFive ==
    ASSUME NEW a, NEW b, NEW c, NEW d, NEW e, NEW v,
           Effect(a, v) = 0, Effect(b, v) = 0, Effect(c, v) \in Int, Effect(d, v) \in Int,
           Effect(e, v) \in Int, Effect(c, v) + Effect(d, v) + Effect(e, v) = 0
    PROVE  Moves(<<a, b, c, d, e>>, v, 0)
<1> DEFINE s == <<a, b, c, d, e>>
           w == [i \in 1..6 |-> IF i = 4 THEN Effect(d, v) + Effect(e, v)
                                ELSE IF i = 5 THEN Effect(e, v) ELSE 0]
<1>1. /\ Len(s) = 5 /\ s[1] = a /\ s[2] = b /\ s[3] = c /\ s[4] = d /\ s[5] = e
      /\ w \in [1..(5 + 1) -> Int] /\ w[1] = 0 /\ w[2] = 0 /\ w[3] = 0
      /\ w[4] = Effect(d, v) + Effect(e, v) /\ w[5] = Effect(e, v) /\ w[6] = 0
      /\ w[5 + 1] = 0
  OBVIOUS
<1> HIDE DEF w, s
<1>2. \A i \in 1..5 : w[i] = Effect(s[i], v) + w[i + 1]
  <2>1. /\ w[1] = Effect(s[1], v) + w[1 + 1]
        /\ w[2] = Effect(s[2], v) + w[2 + 1]
        /\ w[3] = Effect(s[3], v) + w[3 + 1]
        /\ w[4] = Effect(s[4], v) + w[4 + 1]
        /\ w[5] = Effect(s[5], v) + w[5 + 1]
    BY <1>1
  <2>2. 1..5 = {1, 2, 3, 4, 5}
    OBVIOUS
  <2> QED BY <2>1, <2>2
<1>3. Moves(s, v, 0)
  BY <1>1, <1>2 DEF Moves
<1> QED BY <1>3 DEF s

LEMMA MovesTail ==
    ASSUME NEW s, IsList(s), s # <<>>, NEW v, NEW b, Moves(s, v, b)
    PROVE  \E c \in Int : b = Effect(Head(s), v) + c /\ Moves(Tail(s), v, c)
<1> DEFINE n == Len(s)
<1>1. PICK T : s \in Seq(T)
  BY DEF IsList
<1>2. /\ Head(s) = s[1] /\ n \in Nat /\ n # 0 /\ Len(Tail(s)) = n - 1
      /\ \A i \in 1..Len(Tail(s)) : Tail(s)[i] = s[i + 1]
  BY <1>1, AfterTheFirst
<1>3. PICK w : /\ w \in [1..(n + 1) -> Int] /\ w[1] = b /\ w[n + 1] = 0
               /\ \A i \in 1..n : w[i] = Effect(s[i], v) + w[i + 1]
  BY DEF Moves
<1> HIDE DEF n
<1> DEFINE u == [i \in 1..n |-> w[i + 1]]
<1>4. w[2] \in Int /\ b = Effect(Head(s), v) + w[2]
  BY <1>2, <1>3
<1>5. u \in [1..((n - 1) + 1) -> Int] /\ u[1] = w[2] /\ u[(n - 1) + 1] = 0
  BY <1>2, <1>3
<1>6. \A i \in 1..(n - 1) : u[i] = Effect(Tail(s)[i], v) + u[i + 1]
  <2> SUFFICES ASSUME NEW i \in 1..(n - 1) PROVE u[i] = Effect(Tail(s)[i], v) + u[i + 1]
    OBVIOUS
  <2>1. /\ i + 1 \in 1..n /\ u[i] = w[i + 1] /\ u[i + 1] = w[(i + 1) + 1]
        /\ Tail(s)[i] = s[i + 1]
    BY <1>2
  <2> QED BY <2>1, <1>3
<1> HIDE DEF u
<1>7. Moves(Tail(s), v, w[2])
  BY <1>2, <1>5, <1>6 DEF Moves
<1> QED BY <1>4, <1>7

Covered(x, v) == Greater(0, Lesser(x, v))

LEMMA Statements ==
    /\ \A rows : Lock(rows).do = "lock" /\ Lock(rows).rows = rows
    /\ \A rows, least : /\ Check(rows, least).do = "check" /\ Check(rows, least).rows = rows
                        /\ Check(rows, least).least = least
    /\ \A row : Read(row).do = "read" /\ Read(row).rows[1] = row
    /\ \A row : /\ Clear(row).do = "write" /\ Clear(row).rows[1] = row
                /\ Clear(row).what = "itself" /\ Clear(row).sign = -1
    /\ \A row, x : /\ Add(row, x).do = "write" /\ Add(row, x).rows[1] = row
                   /\ Add(row, x).what = "given" /\ Add(row, x).sign = 1 /\ Add(row, x).x = x
    /\ \A row, sign : /\ AddSeen(row, sign).do = "write" /\ AddSeen(row, sign).rows[1] = row
                      /\ AddSeen(row, sign).what = "seen" /\ AddSeen(row, sign).sign = sign
    /\ \A row, sign, x :
          /\ AddCovered(row, sign, x).do = "write" /\ AddCovered(row, sign, x).rows[1] = row
          /\ AddCovered(row, sign, x).what = "covered" /\ AddCovered(row, sign, x).sign = sign
          /\ AddCovered(row, sign, x).x = x
    /\ \A row, x :
          /\ AddBeyond(row, x).do = "write" /\ AddBeyond(row, x).rows[1] = row
          /\ AddBeyond(row, x).what = "beyond" /\ AddBeyond(row, x).sign = 1
          /\ AddBeyond(row, x).x = x
  BY DEF Lock, Check, Read, Clear, Add, AddSeen, AddCovered, AddBeyond

LEMMA CoveredInt == \A x, v \in Int : Covered(x, v) \in Int
  BY DEF Covered, Greater, Lesser

LEMMA EffectOf ==
    ASSUME NEW v \in Int
    PROVE  /\ \A rows : Effect(Lock(rows), v) = 0
           /\ \A rows, least : Effect(Check(rows, least), v) = 0
           /\ \A row : Effect(Read(row), v) = 0 /\ Effect(Clear(row), v) = 0
           /\ \A x \in Int, sign \in {1, -1}, row \in BudgetRows :
                 /\ Effect(Add(row, x), v) = x
                 /\ Effect(AddSeen(row, sign), v) = sign * v
                 /\ Effect(AddCovered(row, -1, x), v) = -Covered(x, v)
                 /\ Effect(AddBeyond(row, x), v) = x - Covered(x, v)
           /\ \A x \in Int, sign \in {1, -1}, row \in MoneyRows \ BudgetRows :
                 /\ Effect(Add(row, x), v) = -x
                 /\ Effect(AddCovered(row, -1, x), v) = Covered(x, v)
                 /\ Effect(AddBeyond(row, x), v) = -(x - Covered(x, v))
           /\ \A row : \A x \in Int :
                 row \notin MoneyRows /\ row \notin BudgetRows => Effect(Add(row, x), v) = 0
<1>1. \A rows : Effect(Lock(rows), v) = 0
  BY Statements DEF Effect
<1>2. \A rows, least : Effect(Check(rows, least), v) = 0
  BY Statements DEF Effect
<1>3. \A row : Effect(Read(row), v) = 0
  BY Statements DEF Effect
<1>4. \A row : Added(Clear(row), v) = 0
  BY Statements DEF Added
<1>5. \A row : Effect(Clear(row), v) = 0
  BY <1>4 DEF Effect
<1>6. \A row : \A x \in Int : Added(Add(row, x), v) = x
  BY Statements DEF Added
<1>7. \A row : \A sign \in {1, -1} : Added(AddSeen(row, sign), v) = sign * v
  BY Statements DEF Added
<1>8. \A row : \A x \in Int : Added(AddCovered(row, -1, x), v) = -Covered(x, v)
  BY Statements, CoveredInt DEF Added, Covered
<1>9. \A row : \A x \in Int : Added(AddBeyond(row, x), v) = x - Covered(x, v)
  BY Statements, CoveredInt DEF Added, Covered
<1>10. \A row : \A x \in Int :
          /\ row \in BudgetRows => Effect(Add(row, x), v) = x
          /\ row \in MoneyRows \ BudgetRows => Effect(Add(row, x), v) = -x
          /\ row \notin MoneyRows /\ row \notin BudgetRows => Effect(Add(row, x), v) = 0
  BY <1>6, Statements DEF Effect
<1>11. \A sign \in {1, -1}, row \in BudgetRows : Effect(AddSeen(row, sign), v) = sign * v
  BY <1>7, Statements DEF Effect
<1>12. \A row : \A x \in Int :
         /\ row \in BudgetRows => Effect(AddCovered(row, -1, x), v) = -Covered(x, v)
         /\ row \in MoneyRows \ BudgetRows
               => Effect(AddCovered(row, -1, x), v) = Covered(x, v)
  <2> TAKE row
  <2> TAKE x \in Int
  <2>1. /\ row \in BudgetRows => Effect(AddCovered(row, -1, x), v) = Added(AddCovered(row, -1, x), v)
        /\ row \in MoneyRows \ BudgetRows
              => Effect(AddCovered(row, -1, x), v) = -Added(AddCovered(row, -1, x), v)
    BY Statements DEF Effect
  <2>2. Covered(x, v) \in Int /\ Added(AddCovered(row, -1, x), v) = -Covered(x, v)
    BY <1>8, CoveredInt
  <2> HIDE DEF Covered
  <2> QED BY <2>1, <2>2
<1>13. \A row : \A x \in Int :
         /\ row \in BudgetRows => Effect(AddBeyond(row, x), v) = x - Covered(x, v)
         /\ row \in MoneyRows \ BudgetRows => Effect(AddBeyond(row, x), v) = -(x - Covered(x, v))
  BY <1>9, Statements DEF Effect
<1>14. \A x \in Int, sign \in {1, -1}, row \in BudgetRows :
          /\ Effect(Add(row, x), v) = x
          /\ Effect(AddSeen(row, sign), v) = sign * v
          /\ Effect(AddCovered(row, -1, x), v) = -Covered(x, v)
          /\ Effect(AddBeyond(row, x), v) = x - Covered(x, v)
  BY <1>10, <1>11, <1>12, <1>13
<1>15. \A x \in Int, sign \in {1, -1}, row \in MoneyRows \ BudgetRows :
          /\ Effect(Add(row, x), v) = -x
          /\ Effect(AddCovered(row, -1, x), v) = Covered(x, v)
          /\ Effect(AddBeyond(row, x), v) = -(x - Covered(x, v))
  BY <1>10, <1>12, <1>13
<1> QED BY <1>1, <1>2, <1>3, <1>5, <1>10, <1>14, <1>15

LEMMA RowsOfMoney ==
    /\ \A a \in Account : /\ BankRow(a) \in MoneyRows \ BudgetRows
                          /\ IsCard[a] => DebtRow(a) \in MoneyRows \ BudgetRows
    /\ \A c \in Category : BudgetRow(c) \in BudgetRows
    /\ \A k : OpRow(k) \notin MoneyRows \cup BudgetRows
    /\ BudgetRow(Unallocated) \in BudgetRows
  BY LocksAssumption DEF MoneyRows, BankRows, BudgetRows, DebtRows,
                         BankRow, BudgetRow, OpRow, DebtRow

\* A part of a call that moves nothing in all, and reads nothing on its own; a
\* beginning of a call may read a value, but before it writes.
Part(s) ==
    /\ IsList(s) /\ \A i \in 1..Len(s) : s[i].do # "read"
    /\ \A v \in Int : Moves(s, v, 0)

Beginning(s) ==
    /\ IsList(s) /\ \A i, j \in 1..Len(s) : s[i].do = "write" /\ s[j].do = "read" => j < i
    /\ \A v \in Int : Moves(s, v, 0)

LEMMA PartsJoin ==
    ASSUME NEW s, NEW t, Part(t)
    PROVE  /\ Part(s) => Part(s \o t) /\ Beginning(s)
           /\ Beginning(s) => Beginning(s \o t)
<1>1. ASSUME Part(s) PROVE Part(s \o t) /\ Beginning(s)
  BY <1>1, JoinFacts, MovesJoin DEF Part, Beginning
<1>2. ASSUME Beginning(s) PROVE Beginning(s \o t)
  <2>1. IsList(s) /\ IsList(t) /\ \A v \in Int : Moves(s \o t, v, 0)
    BY <1>2, MovesJoin DEF Part, Beginning
  <2>2. ASSUME NEW i \in 1..Len(s \o t), NEW j \in 1..Len(s \o t),
               (s \o t)[i].do = "write", (s \o t)[j].do = "read"
        PROVE  j < i
    <3>1. Len(s) \in Nat /\ Len(t) \in Nat /\ Len(s \o t) = Len(s) + Len(t)
      BY <2>1, JoinFacts
    <3>2. j \in 1..Len(s) /\ (s \o t)[j] = s[j]
      BY <2>1, <2>2, JoinFacts DEF Part
    <3>3. CASE i \in 1..Len(s)
      BY <1>2, <2>1, <2>2, <3>2, <3>3, JoinFacts DEF Beginning
    <3>4. CASE i \notin 1..Len(s)
      BY <3>1, <3>2, <3>4
    <3> QED BY <3>3, <3>4
  <2>3. IsList(s \o t)
    BY <2>1, JoinFacts
  <2> QED BY <2>1, <2>2, <2>3 DEF Beginning
<1> QED BY <1>1, <1>2

LEMMA PartOfNone == Part(<<>>)
<1>1. Len(<<>>) = 0 /\ <<>> \in Seq({})
  BY EmptySeq
<1> QED BY <1>1, MovesNothing DEF Part, IsList

LEMMA PartOfOne ==
    ASSUME NEW a, a.do # "read", \A v \in Int : Effect(a, v) = 0
    PROVE  Part(<<a>>)
<1> DEFINE s == <<a>>
<1>1. IsList(s) /\ Len(s) = 1 /\ s[1] = a
  BY TuplesAreLists
<1>2. \A v \in Int : Moves(s, v, 0)
  BY MovesOne
<1> HIDE DEF s
<1>3. Part(s)
  BY <1>1, <1>2 DEF Part
<1> QED BY <1>3 DEF s

LEMMA PartOfTwo ==
    ASSUME NEW a, NEW b, a.do # "read", b.do # "read",
           \A v \in Int : /\ Effect(a, v) \in Int /\ Effect(b, v) \in Int
                          /\ Effect(a, v) + Effect(b, v) = 0
    PROVE  Part(<<a, b>>)
<1> DEFINE s == <<a, b>>
<1>1. IsList(s) /\ Len(s) = 2 /\ s[1] = a /\ s[2] = b
  BY TuplesAreLists
<1>2. \A v \in Int : Moves(s, v, 0)
  BY MovesTwo
<1> HIDE DEF s
<1>3. Part(s)
  BY <1>1, <1>2 DEF Part
<1> QED BY <1>3 DEF s

LEMMA PartOfThree ==
    ASSUME NEW a, NEW b, NEW c, a.do # "read", b.do # "read", c.do # "read",
           \A v \in Int : /\ Effect(a, v) = 0 /\ Effect(b, v) \in Int /\ Effect(c, v) \in Int
                          /\ Effect(b, v) + Effect(c, v) = 0
    PROVE  Part(<<a, b, c>>)
<1> DEFINE s == <<a, b, c>>
<1>1. IsList(s) /\ Len(s) = 3 /\ s[1] = a /\ s[2] = b /\ s[3] = c
  BY TuplesAreLists
<1>2. \A v \in Int : Moves(s, v, 0)
  BY MovesThree
<1> HIDE DEF s
<1>3. Part(s)
  BY <1>1, <1>2 DEF Part
<1> QED BY <1>3 DEF s

LEMMA BeginningOfFive ==
    ASSUME NEW a, NEW b, NEW c, NEW d, NEW e,
           a.do # "write", b.do # "write", d.do # "read", e.do # "read",
           \A v \in Int : /\ Effect(a, v) = 0 /\ Effect(b, v) = 0 /\ Effect(c, v) \in Int
                          /\ Effect(d, v) \in Int /\ Effect(e, v) \in Int
                          /\ Effect(c, v) + Effect(d, v) + Effect(e, v) = 0
    PROVE  Beginning(<<a, b, c, d, e>>)
<1> DEFINE s == <<a, b, c, d, e>>
<1>1. IsList(s) /\ Len(s) = 5 /\ s[1] = a /\ s[2] = b /\ s[3] = c /\ s[4] = d /\ s[5] = e
  BY TuplesAreLists
<1>2. \A v \in Int : Moves(s, v, 0)
  <2> TAKE v \in Int
  <2>1. /\ Effect(a, v) = 0 /\ Effect(b, v) = 0 /\ Effect(c, v) \in Int
        /\ Effect(d, v) \in Int /\ Effect(e, v) \in Int
        /\ Effect(c, v) + Effect(d, v) + Effect(e, v) = 0
    OBVIOUS
  <2> QED BY <2>1, MovesFive
<1> HIDE DEF s
<1>3. \A i, j \in 1..5 : s[i].do = "write" /\ s[j].do = "read" => j < i
  BY <1>1
<1>4. Beginning(s)
  BY <1>1, <1>2, <1>3 DEF Beginning
<1> QED BY <1>4 DEF s

LEMMA CheckIsPart == \A rows, least : Part(<<Check(rows, least)>>)
<1> TAKE rows, least
<1> DEFINE p == Check(rows, least)
<1>1. p.do # "read" /\ \A v \in Int : Effect(p, v) = 0
  BY Statements, EffectOf
<1> HIDE DEF p
<1>2. Part(<<p>>)
  BY <1>1, PartOfOne
<1> QED BY <1>2 DEF p

LEMMA ExpenseBalanced ==
    ASSUME NEW a \in Account, NEW c \in Category, NEW x \in Int
    PROVE  Beginning(Expense(a, c, x))
<1> DEFINE s1 == <<Check(<<ActiveRow(c)>>, 1), Lock(<<BankRow(a)>>)>>
           s2 == IF IsCard[a] \/ IsPersonal[a]
                 THEN <<Check(<<BankRow(a)>>, Floor(a) + x)>> ELSE <<>>
           s3 == <<Lock(<<BudgetRow(c)>>), Add(BankRow(a), -x), Add(BudgetRow(c), -x)>>
<1>1. Part(s1)
  <2>1. \A v \in Int : /\ Effect(Check(<<ActiveRow(c)>>, 1), v) = 0
                       /\ Effect(Lock(<<BankRow(a)>>), v) = 0
    BY EffectOf
  <2> QED BY <2>1, Statements, PartOfTwo
<1>2. Part(s2)
  BY CheckIsPart, PartOfNone
<1>3. Part(s3)
  <2>1. -x \in Int /\ -(-x) = x
    OBVIOUS
  <2>2. \A v \in Int : /\ Effect(Add(BankRow(a), -x), v) = x
                       /\ Effect(Add(BudgetRow(c), -x), v) = -x
                       /\ Effect(Lock(<<BudgetRow(c)>>), v) = 0
    BY <2>1, EffectOf, RowsOfMoney
  <2> QED BY <2>1, <2>2, Statements, PartOfThree
<1>4. Expense(a, c, x) = s1 \o s2 \o s3
  BY DEF Expense
<1> HIDE DEF s1, s2, s3
<1> QED BY <1>1, <1>2, <1>3, <1>4, PartsJoin

LEMMA IncomeBalanced ==
    ASSUME NEW a \in Account, NEW x \in Int
    PROVE  Beginning(Income(a, x))
<1>1. \A v \in Int : /\ Effect(Add(BankRow(a), x), v) = -x
                     /\ Effect(Add(BudgetRow(Unallocated), x), v) = x
  BY EffectOf, RowsOfMoney
<1>2. Part(Income(a, x))
  BY <1>1, Statements, PartOfTwo DEF Income
<1>3. Income(a, x) = Income(a, x) \o <<>>
  <2>1. PICK T : Income(a, x) \in Seq(T)
    BY <1>2 DEF Part, IsList
  <2> QED BY <2>1, ConcatEmptySeq
<1> QED BY <1>2, <1>3, PartOfNone, PartsJoin

LEMMA TransferBalanced ==
    ASSUME NEW a \in Account, NEW t \in Account, NEW x \in Int
    PROVE  Beginning(Transfer(a, t, x))
<1> DEFINE s1 == <<Lock(<<BankRow(a)>>), Check(<<BankRow(a)>>, Floor(a) + x),
                   Read(IF IsCard[t] THEN DebtRow(t) ELSE BankRow(a)),
                   Add(BankRow(a), -x), Add(BankRow(t), x)>>
           s2 == CASE IsCard[t] /\ ~IsCard[a] ->
                         <<AddCovered(BudgetRow(Unallocated), -1, x), AddCovered(DebtRow(t), -1, x)>>
                   [] IsCard[a] /\ ~IsCard[t] ->
                         <<AddBeyond(BudgetRow(Unallocated), x), AddBeyond(DebtRow(a), x)>>
                   [] ~IsCard[a] /\ ~IsCard[t] ->
                         <<Add(BudgetRow(Unallocated), -x), Add(BudgetRow(Unallocated), x)>>
                   [] OTHER -> <<>>
<1>1. Beginning(s1)
  <2>1. -x \in Int /\ -(-x) = x
    OBVIOUS
  <2>2. \A v \in Int : /\ Effect(Add(BankRow(a), -x), v) = x
                       /\ Effect(Add(BankRow(t), x), v) = -x
    BY <2>1, EffectOf, RowsOfMoney
  <2> DEFINE row == IF IsCard[t] THEN DebtRow(t) ELSE BankRow(a)
             p1 == Lock(<<BankRow(a)>>)  p2 == Check(<<BankRow(a)>>, Floor(a) + x)
             p3 == Read(row)  p4 == Add(BankRow(a), -x)  p5 == Add(BankRow(t), x)
  <2>3. p1.do # "write" /\ p2.do # "write" /\ p4.do # "read" /\ p5.do # "read"
    BY Statements
  <2>4. \A v \in Int : Effect(p1, v) = 0 /\ Effect(p2, v) = 0 /\ Effect(p3, v) = 0
    BY EffectOf
  <2>5. s1 = <<p1, p2, p3, p4, p5>>
    OBVIOUS
  <2> HIDE DEF p1, p2, p3, p4, p5, s1
  <2>6. \A v \in Int : Effect(p4, v) = x /\ Effect(p5, v) = -x
    BY <2>2 DEF p4, p5
  <2>7. \A v \in Int : Effect(p4, v) \in Int /\ Effect(p5, v) \in Int
                      /\ Effect(p3, v) \in Int /\ Effect(p3, v) + Effect(p4, v) + Effect(p5, v) = 0
    BY <2>1, <2>4, <2>6
  <2> QED BY <2>3, <2>4, <2>5, <2>7, BeginningOfFive
<1>2. Part(s2)
  <2>1. CASE IsCard[t] /\ ~IsCard[a]
    <3> DEFINE p == AddCovered(BudgetRow(Unallocated), -1, x)  q == AddCovered(DebtRow(t), -1, x)
    <3>0. DebtRow(t) \in MoneyRows \ BudgetRows /\ BudgetRow(Unallocated) \in BudgetRows
      BY <2>1, RowsOfMoney
    <3>1. \A v \in Int : /\ Covered(x, v) \in Int /\ Effect(p, v) = -Covered(x, v)
                         /\ Effect(q, v) = Covered(x, v)
      BY <3>0, EffectOf, CoveredInt
    <3>2. p.do # "read" /\ q.do # "read"
      BY Statements
    <3> HIDE DEF p, q
    <3>3. \A v \in Int : Effect(p, v) \in Int /\ Effect(q, v) \in Int /\ Effect(p, v) + Effect(q, v) = 0
      BY <3>1
    <3>4. Part(<<p, q>>)
      BY <3>2, <3>3, PartOfTwo
    <3>5. s2 = <<p, q>>
      BY <2>1 DEF p, q
    <3> QED BY <3>4, <3>5
  <2>2. CASE IsCard[a] /\ ~IsCard[t]
    <3> DEFINE p == AddBeyond(BudgetRow(Unallocated), x)  q == AddBeyond(DebtRow(a), x)
    <3>1. \A v \in Int : /\ Covered(x, v) \in Int /\ Effect(p, v) = x - Covered(x, v)
                         /\ Effect(q, v) = -(x - Covered(x, v))
      BY <2>2, EffectOf, RowsOfMoney, CoveredInt
    <3>2. p.do # "read" /\ q.do # "read"
      BY Statements
    <3> HIDE DEF p, q
    <3>3. \A v \in Int : Effect(p, v) \in Int /\ Effect(q, v) \in Int /\ Effect(p, v) + Effect(q, v) = 0
      BY <3>1
    <3>4. Part(<<p, q>>)
      BY <3>2, <3>3, PartOfTwo
    <3>5. s2 = <<p, q>>
      BY <2>2 DEF p, q
    <3> QED BY <3>4, <3>5
  <2>3. CASE ~IsCard[a] /\ ~IsCard[t]
    <3> DEFINE p == Add(BudgetRow(Unallocated), -x)  q == Add(BudgetRow(Unallocated), x)
    <3>1. -x \in Int /\ \A v \in Int : Effect(p, v) = -x /\ Effect(q, v) = x
      BY EffectOf, RowsOfMoney
    <3>2. p.do # "read" /\ q.do # "read"
      BY Statements
    <3> HIDE DEF p, q
    <3>3. \A v \in Int : Effect(p, v) \in Int /\ Effect(q, v) \in Int /\ Effect(p, v) + Effect(q, v) = 0
      BY <3>1
    <3>4. Part(<<p, q>>)
      BY <3>2, <3>3, PartOfTwo
    <3>5. s2 = <<p, q>>
      BY <2>3 DEF p, q
    <3> QED BY <3>4, <3>5
  <2>4. CASE IsCard[a] /\ IsCard[t]
    <3>1. s2 = <<>>
      BY <2>4
    <3> QED BY <3>1, PartOfNone
  <2>5. IsCard[a] \in BOOLEAN /\ IsCard[t] \in BOOLEAN
    BY LocksAssumption
  <2> QED BY <2>1, <2>2, <2>3, <2>4, <2>5
<1>3. Transfer(a, t, x) = s1 \o s2
  BY DEF Transfer
<1> HIDE DEF s1, s2
<1> QED BY <1>1, <1>2, <1>3, PartsJoin

LEMMA AllocateBalanced ==
    ASSUME NEW f \in Category, NEW t \in Category, NEW x \in Int
    PROVE  Beginning(Allocate(f, t, x))
<1> DEFINE s1 == <<Check(<<ActiveRow(f)>>, 1), Check(<<ActiveRow(t)>>, 1),
                   Lock(InIdOrder({f, t} \cup (IF f = Unallocated THEN {FxResult} ELSE {})))>>
           s2 == IF f = Unallocated
                 THEN <<Check(<<BudgetRow(f), BudgetRow(FxResult)>>, x)>> ELSE <<>>
           s3 == <<Add(BudgetRow(f), -x), Add(BudgetRow(t), x)>>
<1>1. Part(s1)
  BY Statements, EffectOf, PartOfThree
<1>2. Part(s2)
  BY CheckIsPart, PartOfNone
<1>3. Part(s3)
  <2>1. -x \in Int
    OBVIOUS
  <2>2. \A v \in Int : /\ Effect(Add(BudgetRow(f), -x), v) = -x
                       /\ Effect(Add(BudgetRow(t), x), v) = x
    BY <2>1, EffectOf, RowsOfMoney
  <2> QED BY <2>2, Statements, PartOfTwo
<1>4. Allocate(f, t, x) = s1 \o s2 \o s3
  BY DEF Allocate
<1> HIDE DEF s1, s2, s3
<1> QED BY <1>1, <1>2, <1>3, <1>4, PartsJoin

LEMMA ReverseBalanced ==
    ASSUME NEW k \in DOMAIN Past
    PROVE  Beginning(ReverseOperation(k))
<1> DEFINE op == Past[k]
<1>0. op.account \in Account /\ op.category \in Category /\ op.amount \in Int
  BY RequestsAssumption
<1> HIDE DEF op
<1> DEFINE s1 == <<Lock(<<OpRow(k)>>), Check(<<OpRow(k)>>, 1)>>
           s2 == IF op.amount > 0
                 THEN <<Check(<<BankRow(op.account)>>, Floor(op.account) + op.amount)>> ELSE <<>>
           s3 == IF op.amount > 0 /\ op.category = Unallocated
                 THEN <<Check(<<BudgetRow(Unallocated), BudgetRow(FxResult)>>, op.amount)>>
                 ELSE <<>>
           s4 == <<Add(OpRow(k), -1), Add(BankRow(op.account), -op.amount),
                   Add(BudgetRow(op.category), -op.amount)>>
<1>1. Part(s1)
  BY Statements, EffectOf, PartOfTwo
<1>2. Part(s2)
  BY CheckIsPart, PartOfNone
<1>3. Part(s3)
  BY CheckIsPart, PartOfNone
<1>4. Part(s4)
  <2>1. \A v \in Int : /\ Effect(Add(OpRow(k), -1), v) = 0
                       /\ Effect(Add(BankRow(op.account), -op.amount), v) = op.amount
                       /\ Effect(Add(BudgetRow(op.category), -op.amount), v) = -op.amount
    <3>1. -op.amount \in Int /\ -(-op.amount) = op.amount /\ -1 \in Int
      BY <1>0
    <3> QED BY <1>0, <3>1, EffectOf, RowsOfMoney
  <2> QED BY <1>0, <2>1, Statements, PartOfThree
<1>5. ReverseOperation(k) = s1 \o s2 \o s3 \o s4
  BY DEF ReverseOperation, op
<1> HIDE DEF s1, s2, s3, s4
<1> QED BY <1>1, <1>2, <1>3, <1>4, <1>5, PartsJoin

LEMMA ArchiveBalanced ==
    ASSUME NEW c \in Category
    PROVE  Beginning(ArchiveCategory(c))
<1>1. \A v \in Int : /\ Effect(AddSeen(BudgetRow(c), -1), v) = -1 * v
                     /\ Effect(AddSeen(BudgetRow(Unallocated), 1), v) = 1 * v
  BY EffectOf, RowsOfMoney
<1>2. \A v \in Int : /\ Effect(AddSeen(BudgetRow(c), -1), v) = -v
                     /\ Effect(AddSeen(BudgetRow(Unallocated), 1), v) = v
                     /\ Effect(Clear(ActiveRow(c)), v) = 0
  BY <1>1, EffectOf
<1> DEFINE p1 == Check(<<ActiveRow(c)>>, 1)  p2 == Read(BudgetRow(c))
           p3 == AddSeen(BudgetRow(c), -1)  p4 == AddSeen(BudgetRow(Unallocated), 1)
           p5 == Clear(ActiveRow(c))
<1>3. p1.do # "write" /\ p2.do # "write" /\ p4.do # "read" /\ p5.do # "read"
  BY Statements
<1>4. \A v \in Int : Effect(p1, v) = 0 /\ Effect(p2, v) = 0
  BY EffectOf
<1>5. ArchiveCategory(c) = <<p1, p2, p3, p4, p5>>
  BY DEF ArchiveCategory
<1>6. \A v \in Int : Effect(p3, v) = -v /\ Effect(p4, v) = v /\ Effect(p5, v) = 0
  BY <1>2
<1> HIDE DEF p1, p2, p3, p4, p5
<1>7. \A v \in Int : /\ Effect(p3, v) \in Int /\ Effect(p4, v) \in Int /\ Effect(p5, v) \in Int
                     /\ Effect(p3, v) + Effect(p4, v) + Effect(p5, v) = 0
  BY <1>6
<1> QED BY <1>3, <1>4, <1>5, <1>7, BeginningOfFive

LEMMA CallBalanced ==
    ASSUME NEW req \in Requests
    PROVE  Beginning(Program(req))
<1> USE RequestsAssumption DEF Program
<1>1. CASE req.call = "expense"
  BY <1>1, ExpenseBalanced
<1>2. CASE req.call = "income"
  BY <1>2, IncomeBalanced
<1>3. CASE req.call = "transfer"
  BY <1>3, TransferBalanced
<1>4. CASE req.call = "allocate"
  BY <1>4, AllocateBalanced
<1>5. CASE req.call = "reverse"
  BY <1>5, ReverseBalanced
<1>6. CASE req.call = "archive"
  BY <1>6, ArchiveBalanced
<1> QED BY <1>1, <1>2, <1>3, <1>4, <1>5, <1>6

(***************************************************************************)
(* A connection between two calls is as good as new, and rows are waited    *)
(* for one by one only while a SELECT ... FOR UPDATE is at work.            *)
(***************************************************************************)
IdleInv ==
    \A p \in Proc : ~Busy(p) =>
        written[p] = NoWrites /\ queue[p] = <<>> /\ \A r \in Row : holder[r] # p

QueueInv ==
    /\ DOMAIN queue = Proc
    /\ \A p \in Proc : IsList(queue[p])
    /\ \A p \in Proc : queue[p] # <<>> => Busy(p) /\ Current(p).do = "lock"

TidyInv == LocksInv /\ IdleInv /\ QueueInv

LEMMA FoundIsList == \A rows : IsList(rows) => IsList(Found(rows))
<1> SUFFICES ASSUME NEW rows, IsList(rows) PROVE IsList(Found(rows))
  OBVIOUS
<1> DEFINE at == {n \in DOMAIN rows : Present(rows[n])}
           nth(m) == rows[CHOOSE n \in at : Cardinality(at \cap 1..n) = m]
<1>1. PICK T : rows \in Seq(T)
  BY DEF IsList
<1>2. IsFiniteSet(at) /\ Cardinality(at) \in Nat
  <2>1. DOMAIN rows = 1..Len(rows) /\ Len(rows) \in Nat
    BY <1>1
  <2>2. IsFiniteSet(1..Len(rows)) /\ at \subseteq 1..Len(rows)
    BY <2>1, FS_Interval
  <2> QED BY <2>2, FS_Subset, FS_CardinalityType
<1>3. Found(rows) = [m \in 1..Cardinality(at) |-> nth(m)]
  BY DEF Found
<1> HIDE DEF nth, at
<1>4. Found(rows) \in Seq({nth(m) : m \in 1..Cardinality(at)})
  BY <1>2, <1>3
<1> QED BY <1>4 DEF IsList

LEMMA OwnQueue ==
    ASSUME QueueInv, NEW p \in Proc
    PROVE  IsList(queue[p]) /\ (queue[p] # <<>> => Busy(p) /\ Current(p).do = "lock")
<1>1. IsList(queue[p])
  BY Zenon DEF QueueInv
<1>2. queue[p] # <<>> => Busy(p) /\ Current(p).do = "lock"
  BY Zenon DEF QueueInv
<1> QED BY <1>1, <1>2

LEMMA NoList == IsList(<<>>)
<1>1. <<>> \in Seq({})
  OBVIOUS
<1> QED BY <1>1 DEF IsList

LEMMA InitTidy == Init => TidyInv
<1> SUFFICES ASSUME Init PROVE TidyInv
  OBVIOUS
<1>1. LocksInv
  BY InitLocks
<1>2. IdleInv
  BY LocksAssumption DEF Init, IdleInv
<1>3. QueueInv
  BY NoList DEF Init, QueueInv
<1> QED BY <1>1, <1>2, <1>3 DEF TidyInv

\* a step of p leaves the other connections alone
Aside(p) ==
    \A q \in Proc \ {p} :
        /\ program'[q] = program[q] /\ queue'[q] = queue[q] /\ written'[q] = written[q]
        /\ seen'[q] = seen[q]
        /\ \A r \in Row : holder'[r] = q <=> holder[r] = q

LEMMA AdvanceAside ==
    ASSUME LocksInv, NEW p \in Proc, Advance(p)
    PROVE  program'[p] = Tail(program[p]) /\ \A q \in Proc \ {p} : program'[q] = program[q]
  BY DEF LocksInv, Advance

LEMMA EndAside ==
    ASSUME TidyInv, NEW p \in Proc, EndTransaction(p)
    PROVE  /\ Aside(p)
           /\ program'[p] = <<>> /\ queue'[p] = <<>> /\ written'[p] = NoWrites
           /\ \A r \in Row : holder'[r] # p
<1>1. /\ \A q \in Proc \ {p} : /\ program'[q] = program[q] /\ queue'[q] = queue[q]
                               /\ written'[q] = written[q] /\ seen'[q] = seen[q]
      /\ program'[p] = <<>> /\ queue'[p] = <<>> /\ written'[p] = NoWrites
  BY DEF TidyInv, LocksInv, QueueInv, EndTransaction
<1>2. /\ \A r \in Row : holder'[r] # p
      /\ \A q \in Proc \ {p} : \A r \in Row : holder'[r] = q <=> holder[r] = q
  BY LocksAssumption DEF EndTransaction, Release
<1> QED BY <1>1, <1>2 DEF Aside

LEMMA LockRowShape ==
    ASSUME TidyInv, NEW p \in Proc, LockRow(p)
    PROVE  /\ Aside(p)
           /\ Busy(p) /\ Current(p).do = "lock" /\ queue'[p] = Tail(queue[p])
           /\ IsList(Tail(queue[p]))
           /\ IF Tail(queue[p]) = <<>> THEN Advance(p) ELSE UNCHANGED program
<1> DEFINE h == Head(queue[p])
<1>1. PICK T : queue[p] \in Seq(T)
  BY OwnQueue DEF TidyInv, IsList
<1>2. Tail(queue[p]) \in Seq(T) /\ (Tail(queue[p]) = <<>> <=> Len(queue[p]) = 1)
  BY <1>1, AfterTheFirst DEF LockRow
<1>3. /\ Busy(p) /\ Current(p).do = "lock" /\ queue'[p] = Tail(queue[p])
      /\ \A q \in Proc \ {p} : queue'[q] = queue[q]
  <2>1. Busy(p) /\ queue[p] # <<>> /\ queue' = [queue EXCEPT ![p] = Tail(@)]
    BY DEF LockRow
  <2>2. DOMAIN queue = Proc
    BY DEF TidyInv, QueueInv
  <2> QED BY <2>1, <2>2, OwnQueue DEF TidyInv
<1>4. \A q \in Proc \ {p} : program'[q] = program[q]
  BY AdvanceAside DEF LockRow, TidyInv
<1>5. \A q \in Proc \ {p} : \A r \in Row : holder'[r] = q <=> holder[r] = q
  <2> HIDE DEF h
  <2>1. \/ holder' = holder
        \/ holder[h] \in {Nobody, p} /\ holder' = [holder EXCEPT ![h] = p]
    BY DEF LockRow, h
  <2> QED BY <2>1, LocksAssumption DEF TidyInv, LocksInv
<1>6. Aside(p)
  BY <1>3, <1>4, <1>5 DEF Aside, LockRow
<1> QED BY <1>2, <1>3, <1>6 DEF IsList, LockRow

LEMMA ApplyAside ==
    ASSUME TidyInv, NEW p \in Proc, ApplyDelta(p)
    PROVE  /\ Aside(p) /\ UNCHANGED queue /\ UNCHANGED seen
           /\ \A r \in Row : written'[p][r] =
                IF r = Current(p).rows[1] THEN written[p][r] + Delta(p) ELSE written[p][r]
<1> DEFINE row == Current(p).rows[1]  d == Delta(p)
<1>1. /\ Advance(p) /\ UNCHANGED <<queue, seen>>
      /\ row \in DebtRows \/ holder[row] \in {Nobody, p}
      /\ holder' = IF row \in DebtRows THEN holder ELSE [holder EXCEPT ![row] = p]
      /\ written' = [written EXCEPT ![p][row] = @ + d]
  BY DEF ApplyDelta
<1> HIDE DEF row, d
<1>2. /\ \A q \in Proc \ {p} : written'[q] = written[q]
      /\ \A r \in Row : written'[p][r] = IF r = row THEN written[p][r] + d ELSE written[p][r]
  BY <1>1 DEF TidyInv, LocksInv
<1>3. \A q \in Proc \ {p} : \A r \in Row : holder'[r] = q <=> holder[r] = q
  BY <1>1, LocksAssumption DEF TidyInv, LocksInv
<1>4. \A q \in Proc \ {p} : program'[q] = program[q]
  BY <1>1, AdvanceAside DEF TidyInv
<1>5. Aside(p)
  BY <1>1, <1>2, <1>3, <1>4 DEF Aside
<1> QED BY <1>1, <1>2, <1>5 DEF row, d

\* what the connection that makes a step may do to itself
OwnTidy(p) ==
    /\ ~Busy(p) =>
        written[p] = NoWrites /\ queue[p] = <<>> /\ \A r \in Row : holder[r] # p
    /\ IsList(queue[p])
    /\ queue[p] # <<>> => Busy(p) /\ Current(p).do = "lock"

\* a statement other than the commit is not the last one
LEMMA AdvanceTidy ==
    ASSUME TidyInv, NEW p \in Proc, Busy(p), Advance(p), Current(p).do # "commit",
           queue'[p] = <<>>
    PROVE  OwnTidy(p)'
<1>1. program'[p] = Tail(program[p])
  BY AdvanceAside DEF TidyInv
<1>2. Tail(program[p]) # <<>>
  BY HeadAndTail DEF TidyInv, LocksInv, Busy, Current
<1>3. Busy(p)'
  BY <1>1, <1>2 DEF Busy
<1> QED BY <1>3, NoList DEF OwnTidy

LEMMA StepTidy ==
    ASSUME TidyInv, NEW p \in Proc, Step(p)
    PROVE  Aside(p) /\ OwnTidy(p)'
<1>0. LocksInv
  BY DEF TidyInv
<1>1. CASE StartLocking(p)
  <2> DEFINE found == Found(Current(p).rows)
  <2>1. /\ Busy(p) /\ Current(p).do = "lock" /\ queue[p] = <<>>
        /\ IF found = <<>> THEN Advance(p) /\ UNCHANGED queue
           ELSE queue' = [queue EXCEPT ![p] = found] /\ UNCHANGED program
        /\ UNCHANGED <<holder, written, seen>>
    BY <1>1 DEF StartLocking
  <2>2. IsList(found)
    <3>1. Sound(Current(p))
      BY <2>1, HeadAndTail DEF TidyInv, LocksInv, Busy, Current
    <3> QED BY <2>1, <3>1, FoundIsList DEF Sound, IsList
  <2> HIDE DEF found
  <2>3. CASE found = <<>>
    <3>1. Aside(p)
      BY <1>0, <2>1, <2>3, AdvanceAside DEF Aside
    <3> QED BY <2>1, <2>3, <3>1, AdvanceTidy
  <2>4. CASE found # <<>>
    <3>1. queue'[p] = found /\ program' = program /\ \A q \in Proc \ {p} : queue'[q] = queue[q]
      BY <2>1, <2>4 DEF TidyInv, QueueInv
    <3>2. Busy(p)' /\ Current(p)' = Current(p)
      BY <2>1, <3>1 DEF Busy, Current
    <3> QED BY <2>1, <2>2, <3>1, <3>2 DEF Aside, OwnTidy
  <2> QED BY <2>3, <2>4
<1>2. CASE LockRow(p)
  <2>1. /\ Aside(p)
        /\ Busy(p) /\ Current(p).do = "lock" /\ queue'[p] = Tail(queue[p])
        /\ IsList(Tail(queue[p]))
        /\ IF Tail(queue[p]) = <<>> THEN Advance(p) ELSE UNCHANGED program
    BY <1>2, LockRowShape
  <2>2. CASE Tail(queue[p]) = <<>>
    BY <2>1, <2>2, AdvanceTidy
  <2>3. CASE Tail(queue[p]) # <<>>
    <3>1. Busy(p)' /\ Current(p)' = Current(p)
      BY <2>1, <2>3 DEF Busy, Current
    <3> QED BY <2>1, <2>3, <3>1 DEF OwnTidy
  <2> QED BY <2>2, <2>3
<1>3. ASSUME Current(p).do # "lock" PROVE queue[p] = <<>>
  BY <1>3, OwnQueue DEF TidyInv
<1>4. CASE CheckBalance(p)
  <2>1. CASE Passes(p)
    <3>1. /\ Busy(p) /\ Advance(p) /\ Current(p).do = "check"
          /\ UNCHANGED <<holder, queue, written, seen>>
      BY <1>4, <2>1 DEF CheckBalance
    <3>2. Aside(p)
      BY <1>0, <3>1, AdvanceAside DEF Aside
    <3> QED BY <1>3, <3>1, <3>2, AdvanceTidy
  <2>2. CASE ~Passes(p)
    <3>1. EndTransaction(p)
      BY <1>4, <2>2 DEF CheckBalance
    <3> QED BY <3>1, EndAside, NoList DEF OwnTidy
  <2> QED BY <2>1, <2>2
<1>5. CASE ReadValue(p)
  <2>1. /\ Busy(p) /\ Advance(p) /\ Current(p).do = "read"
        /\ UNCHANGED <<holder, queue, written>>
        /\ \A q \in Proc \ {p} : seen'[q] = seen[q]
    BY <1>0, <1>5 DEF ReadValue, LocksInv
  <2>2. Aside(p)
    BY <1>0, <2>1, AdvanceAside DEF Aside
  <2> QED BY <1>3, <2>1, <2>2, AdvanceTidy
<1>6. CASE ApplyDelta(p)
  <2>1. Busy(p) /\ Advance(p) /\ Current(p).do = "write"
    BY <1>6 DEF ApplyDelta, Writes
  <2>2. Aside(p) /\ UNCHANGED queue
    BY <1>6, ApplyAside
  <2> QED BY <1>3, <2>1, <2>2, AdvanceTidy
<1>7. CASE SkipZero(p)
  <2>1. /\ Busy(p) /\ Advance(p) /\ Current(p).do = "write"
        /\ UNCHANGED <<holder, queue, written, seen>>
    BY <1>7 DEF SkipZero
  <2>2. Aside(p)
    BY <1>0, <2>1, AdvanceAside DEF Aside
  <2> QED BY <1>3, <2>1, <2>2, AdvanceTidy
<1>8. ASSUME EndTransaction(p) PROVE Aside(p) /\ OwnTidy(p)'
  BY <1>8, EndAside, NoList DEF OwnTidy
<1> QED BY <1>1, <1>2, <1>4, <1>5, <1>6, <1>7, <1>8 DEF Step, Commit, AbortDeadlocked

LEMMA QueueTyped ==
    ASSUME TidyInv, [Next]_vars
    PROVE  DOMAIN queue' = Proc
<1>1. ASSUME NEW p \in Proc, Step(p) PROVE DOMAIN queue' = Proc
  BY <1>1 DEF TidyInv, QueueInv, Step, StartLocking, LockRow, CheckBalance, ReadValue, ApplyDelta,
              SkipZero, Commit, AbortDeadlocked, EndTransaction
<1>2. ASSUME NEW p \in Proc, NEW req \in Requests, Begin(p, req) PROVE DOMAIN queue' = Proc
  BY <1>2 DEF TidyInv, QueueInv, Begin
<1> QED BY <1>1, <1>2 DEF Next, vars, TidyInv, QueueInv

LEMMA BeginAside ==
    ASSUME TidyInv, NEW p \in Proc, NEW req \in Requests, Begin(p, req)
    PROVE  /\ program'[p] = Started(req) /\ program'[p] # <<>>
           /\ written'[p] = NoWrites /\ queue'[p] = <<>>
           /\ Aside(p) /\ UNCHANGED <<committed, holder, queue, written, seen, unlocked>>
<1>1. program'[p] = Started(req) /\ \A q \in Proc \ {p} : program'[q] = program[q]
  BY DEF TidyInv, LocksInv, Begin, Started
<1>2. written[p] = NoWrites /\ queue[p] = <<>>
  BY DEF TidyInv, IdleInv, Begin
<1>3. Started(req) # <<>>
  BY StartedRuns
<1> QED BY <1>1, <1>2, <1>3 DEF Begin, Aside

LEMMA NextTidy == TidyInv /\ [Next]_vars => TidyInv'
<1> SUFFICES ASSUME TidyInv, [Next]_vars PROVE TidyInv'
  OBVIOUS
<1>0. LocksInv' /\ DOMAIN queue' = Proc
  BY NextLocks, QueueTyped DEF TidyInv
<1>1. ASSUME NEW p \in Proc, Aside(p), OwnTidy(p)' PROVE TidyInv'
  <2>1. ASSUME NEW q \in Proc PROVE OwnTidy(q)'
    <3>1. CASE q = p
      BY <1>1, <3>1
    <3>2. CASE q # p
      <4>1. /\ program'[q] = program[q] /\ queue'[q] = queue[q] /\ written'[q] = written[q]
            /\ \A r \in Row : holder'[r] = q <=> holder[r] = q
        BY <1>1, <3>2 DEF Aside
      <4>2. OwnTidy(q)
        BY OwnQueue DEF TidyInv, IdleInv, OwnTidy
      <4>3. (Busy(q)' <=> Busy(q)) /\ Current(q)' = Current(q)
        BY <4>1 DEF Busy, Current
      <4> QED BY <4>1, <4>2, <4>3 DEF OwnTidy
    <3> QED BY <3>1, <3>2
  <2> QED BY <1>0, <2>1 DEF TidyInv, IdleInv, QueueInv, OwnTidy
<1>2. ASSUME NEW p \in Proc, NEW req \in Requests, Begin(p, req) PROVE TidyInv'
  <2>1. Aside(p) /\ program'[p] # <<>> /\ queue'[p] = <<>>
    BY <1>2, BeginAside
  <2>2. OwnTidy(p)'
    BY <2>1, NoList DEF OwnTidy, Busy
  <2> QED BY <1>1, <2>1, <2>2
<1>3. ASSUME NEW p \in Proc, Step(p) PROVE TidyInv'
  BY <1>1, <1>3, StepTidy
<1>4. CASE UNCHANGED vars
  BY <1>0, <1>4 DEF vars, TidyInv, IdleInv, QueueInv, Busy, Current
<1> QED BY <1>2, <1>3, <1>4 DEF Next

(***************************************************************************)
(* Budget and money.  Between two statements of a call the budget and the   *)
(* money may differ in what the call has written so far, and then by what   *)
(* its remaining statements move: invisible to others till the commit.      *)
(***************************************************************************)
\* what s still moves is b, also if it reads another value than the last one
Rest(s, v, b) ==
    /\ Moves(s, v, b)
    /\ \A i, j \in 1..Len(s) : s[i].do = "write" /\ s[j].do = "read" => j < i
    /\ (\E j \in 1..Len(s) : s[j].do = "read") => \A u \in Int : Moves(s, u, b)

OwnBooksInv(p) ==
    \E b \in Int :
        /\ Rest(program[p], seen[p], b)
        /\ SumFunctionOnSet(written[p], BudgetRows) + b = SumFunctionOnSet(written[p], MoneyRows)

BooksInv ==
    /\ TidyInv
    /\ \A p \in Proc : OwnBooksInv(p)
    /\ SumFunctionOnSet(committed, BudgetRows) = SumFunctionOnSet(committed, MoneyRows)

LEMMA RowsAreFinite == /\ IsFiniteSet(BudgetRows) /\ IsFiniteSet(MoneyRows)
                       /\ BudgetRows \subseteq Row /\ MoneyRows \subseteq Row
                       /\ BudgetRows \cap MoneyRows = {} /\ ActiveRows \cap MoneyRows = {}
                       /\ ActiveRows \cap BudgetRows = {}
<1> DEFINE Cards == {x \in Account : IsCard[x]}
<1>1. IsFiniteSet(Account) /\ IsFiniteSet(Category) /\ IsFiniteSet(Cards)
  BY LocksAssumption, FS_Subset
<1>2. IsFiniteSet(BudgetRows)
  <2> DEFINE f == [c \in Category |-> BudgetRow(c)]
  <2>1. f \in Surjection(Category, BudgetRows)
    BY DEF Surjection, BudgetRows
  <2> QED BY <1>1, <2>1, FS_Surjection
<1>3. IsFiniteSet(BankRows)
  <2> DEFINE f == [a \in Account |-> BankRow(a)]
  <2>1. f \in Surjection(Account, BankRows)
    BY DEF Surjection, BankRows
  <2> QED BY <1>1, <2>1, FS_Surjection
<1>4. IsFiniteSet(DebtRows)
  <2> DEFINE f == [a \in Cards |-> DebtRow(a)]
  <2>1. f \in Surjection(Cards, DebtRows)
    BY DEF Surjection, DebtRows
  <2> QED BY <1>1, <2>1, FS_Surjection
<1>5. IsFiniteSet(MoneyRows)
  BY <1>3, <1>4, FS_Union DEF MoneyRows
<1>6. BudgetRows \subseteq Row /\ MoneyRows \subseteq Row
  BY DEF Row, MoneyRows
<1>7. /\ BudgetRows \cap MoneyRows = {} /\ ActiveRows \cap MoneyRows = {}
      /\ ActiveRows \cap BudgetRows = {}
  BY DEF BudgetRows, MoneyRows, ActiveRows, BankRows, DebtRows, BankRow, BudgetRow, DebtRow,
         ActiveRow
<1> QED BY <1>2, <1>5, <1>6, <1>7

LEMMA SumsOfRows ==
    ASSUME NEW f \in [Row -> Int]
    PROVE  SumFunctionOnSet(f, BudgetRows) \in Int /\ SumFunctionOnSet(f, MoneyRows) \in Int
  BY RowsAreFinite, SumOverInt

LEMMA NoWritesSum ==
    SumFunctionOnSet(NoWrites, BudgetRows) = 0 /\ SumFunctionOnSet(NoWrites, MoneyRows) = 0
<1>1. \A r \in BudgetRows \cup MoneyRows : NoWrites[r] = 0
  BY RowsAreFinite DEF NoWrites
<1> QED BY <1>1, RowsAreFinite, SumOverZeros

LEMMA NothingLeft == \A v : Rest(<<>>, v, 0) /\ \A b : Rest(<<>>, v, b) => b = 0
<1> TAKE v
<1> DEFINE s == <<>>
<1>1. Len(s) = 0
  BY EmptySeq
<1>2. \A u : Moves(s, u, 0) /\ \A b : Moves(s, u, b) => b = 0
  BY MovesNothing
<1> HIDE DEF s
<1>3. Rest(s, v, 0)
  BY <1>1, <1>2 DEF Rest
<1>4. \A b : Rest(s, v, b) => b = 0
  BY <1>2 DEF Rest
<1> QED BY <1>3, <1>4 DEF s

LEMMA RunningIsList == \A s : IsRunning(s) => IsList(s)
  BY DEF IsRunning, IsList

\* a call that begins moves nothing in all, whatever it will read
LEMMA StartedRest ==
    ASSUME NEW req \in Requests, NEW v \in Int
    PROVE  Rest(Started(req), v, 0)
<1> DEFINE c == [do |-> "commit"]  s == Program(req)
<1>1. Part(<<c>>)
  <2>1. c.do = "commit"
    OBVIOUS
  <2> HIDE DEF c
  <2>2. \A u \in Int : Effect(c, u) = 0
    BY <2>1 DEF Effect
  <2> QED BY <2>1, <2>2, PartOfOne
<1>2. Beginning(s)
  BY CallBalanced
<1>3. Started(req) = s \o <<c>>
  <2>1. PICK T : s \in Seq(T)
    BY ProgramSound DEF IsProgram
  <2> HIDE DEF s, c
  <2>2. Append(s, c) = s \o <<c>>
    <3>1. s \in Seq(T \cup {c}) /\ c \in T \cup {c}
      BY <2>1
    <3> QED BY <3>1
  <2> QED BY <2>2 DEF Started, s, c
<1> HIDE DEF s, c
<1>4. Beginning(Started(req))
  BY <1>1, <1>2, <1>3, PartsJoin
<1> QED BY <1>4 DEF Beginning, Rest

\* what is left after one more statement
LEMMA RestTail ==
    ASSUME NEW s, IsList(s), s # <<>>, NEW v \in Int, NEW b \in Int, Rest(s, v, b)
    PROVE  /\ Head(s).do = "write" =>
                 \E c \in Int : b = Effect(Head(s), v) + c /\ Rest(Tail(s), v, c)
           /\ Head(s).do # "write" => Rest(Tail(s), v, b)
           /\ Head(s).do = "read" => \A u \in Int : Rest(Tail(s), u, b)
<1>1. PICK T : s \in Seq(T)
  BY DEF IsList
<1>2. /\ Head(s) = s[1] /\ Len(s) \in Nat /\ Len(s) # 0 /\ Len(Tail(s)) = Len(s) - 1
      /\ \A i \in 1..Len(Tail(s)) : Tail(s)[i] = s[i + 1]
  BY <1>1, AfterTheFirst
<1>3. \A i \in 1..Len(Tail(s)) : i + 1 \in 1..Len(s) /\ Tail(s)[i] = s[i + 1]
  BY <1>2
<1>4. \A i, j \in 1..Len(Tail(s)) :
         Tail(s)[i].do = "write" /\ Tail(s)[j].do = "read" => j < i
  <2> SUFFICES ASSUME NEW i \in 1..Len(Tail(s)), NEW j \in 1..Len(Tail(s)),
                      Tail(s)[i].do = "write", Tail(s)[j].do = "read"
               PROVE  j < i
    OBVIOUS
  <2>1. j + 1 < i + 1
    BY <1>3 DEF Rest
  <2> QED BY <1>2, <2>1
<1>5. (\E j \in 1..Len(Tail(s)) : Tail(s)[j].do = "read") => \A u \in Int : Moves(s, u, b)
  BY <1>3 DEF Rest
<1>6. \A u \in Int : Moves(s, u, b) /\ Head(s).do # "write" => Moves(Tail(s), u, b)
  <2> SUFFICES ASSUME NEW u \in Int, Moves(s, u, b), Head(s).do # "write"
               PROVE  Moves(Tail(s), u, b)
    OBVIOUS
  <2>1. PICK c \in Int : b = Effect(Head(s), u) + c /\ Moves(Tail(s), u, c)
    BY MovesTail
  <2>2. Effect(Head(s), u) = 0
    BY DEF Effect
  <2>3. b = c
    BY <2>1, <2>2
  <2> QED BY <2>1, <2>3
<1>7. ASSUME Head(s).do # "write" PROVE Rest(Tail(s), v, b)
  BY <1>4, <1>5, <1>6, <1>7 DEF Rest
<1>8. ASSUME Head(s).do = "read", NEW u \in Int PROVE Rest(Tail(s), u, b)
  <2>1. 1 \in 1..Len(s) /\ s[1].do = "read"
    BY <1>2, <1>8
  <2>2. \A w \in Int : Moves(s, w, b)
    BY <2>1 DEF Rest
  <2> QED BY <1>4, <1>6, <1>8, <2>2 DEF Rest
<1>9. ASSUME Head(s).do = "write"
      PROVE  \E c \in Int : b = Effect(Head(s), v) + c /\ Rest(Tail(s), v, c)
  <2>1. PICK c \in Int : b = Effect(Head(s), v) + c /\ Moves(Tail(s), v, c)
    BY MovesTail DEF Rest
  <2>2. \A j \in 1..Len(Tail(s)) : Tail(s)[j].do # "read"
    <3> SUFFICES ASSUME NEW j \in 1..Len(Tail(s)), Tail(s)[j].do = "read" PROVE FALSE
      OBVIOUS
    <3>1. 1 \in 1..Len(s) /\ s[1].do = "write" /\ j + 1 \in 1..Len(s) /\ s[j + 1].do = "read"
      BY <1>2, <1>3, <1>9
    <3>2. j + 1 < 1
      BY <3>1 DEF Rest
    <3> QED BY <3>2
  <2> QED BY <1>4, <2>1, <2>2 DEF Rest
<1> QED BY <1>7, <1>8, <1>9

(***************************************************************************)
(* The steps.                                                               *)
(***************************************************************************)
LEMMA InitBooks == Init => BooksInv
<1> SUFFICES ASSUME Init PROVE BooksInv
  OBVIOUS
<1>1. SumFunctionOnSet(committed, BudgetRows) = SumFunctionOnSet(committed, MoneyRows)
  BY StartAssumption DEF Init, MoneyRows
<1>2. ASSUME NEW p \in Proc PROVE OwnBooksInv(p)
  <2>1. program[p] = <<>> /\ written[p] = NoWrites
    BY DEF Init
  <2>2. Rest(program[p], seen[p], 0)
    BY <2>1, NothingLeft
  <2> QED BY <2>1, <2>2, NoWritesSum DEF OwnBooksInv
<1> QED BY <1>1, <1>2, InitTidy DEF BooksInv

LEMMA EndBalances ==
    ASSUME LocksInv, NEW p \in Proc, EndTransaction(p)
    PROVE  OwnBooksInv(p)'
<1>1. program'[p] = <<>> /\ written'[p] = NoWrites
  BY DEF EndTransaction, LocksInv
<1>2. Rest(program'[p], seen'[p], 0)
  BY <1>1, NothingLeft
<1> QED BY <1>1, <1>2, NoWritesSum DEF OwnBooksInv

\* a statement that writes nothing
LEMMA PassingBalances ==
    ASSUME LocksInv, NEW p \in Proc, OwnBooksInv(p), Busy(p), Advance(p),
           written'[p] = written[p],
           \/ Current(p).do # "write" /\ seen'[p] = seen[p]
           \/ Current(p).do = "read" /\ seen'[p] \in Int
    PROVE  OwnBooksInv(p)'
<1>1. PICK b \in Int :
        /\ Rest(program[p], seen[p], b)
        /\ SumFunctionOnSet(written[p], BudgetRows) + b = SumFunctionOnSet(written[p], MoneyRows)
  BY DEF OwnBooksInv
<1>2. IsList(program[p]) /\ program[p] # <<>> /\ seen[p] \in Int
  BY RunningIsList DEF LocksInv, Busy
<1>3. program'[p] = Tail(program[p])
  BY DEF LocksInv, Advance
<1>4. Rest(program'[p], seen'[p], b)
  BY <1>1, <1>2, <1>3, RestTail DEF Current
<1> QED BY <1>1, <1>4 DEF OwnBooksInv

LEMMA DeltaIsAdded ==
    ASSUME LocksInv, NEW p \in Proc, Busy(p), Current(p).do = "write"
    PROVE  LET row == Current(p).rows[1]
           IN  Effect(Current(p), seen[p]) = IF row \in BudgetRows THEN Delta(p)
                                            ELSE IF row \in MoneyRows THEN -Delta(p) ELSE 0
<1> DEFINE st == Current(p)
<1>1. Sound(st)
  BY HeadAndTail DEF LocksInv, Busy, Current
<1>2. /\ st.what \in {"given", "seen", "covered", "beyond", "itself"}
      /\ st.what = "itself" <=> st.rows[1] \in ActiveRows
  BY <1>1 DEF Sound
<1>3. st.what # "itself" => Delta(p) = Added(st, seen[p])
  BY <1>2 DEF Delta, Added
<1>4. st.rows[1] \in BudgetRows \cup MoneyRows => st.what # "itself"
  BY <1>2, RowsAreFinite
<1> HIDE DEF st
<1>5. Effect(st, seen[p]) = IF st.rows[1] \in BudgetRows THEN Delta(p)
                            ELSE IF st.rows[1] \in MoneyRows THEN -Delta(p) ELSE 0
  BY <1>3, <1>4 DEF Effect, st
<1> QED BY <1>5 DEF st

LEMMA WritingBalances ==
    ASSUME LocksInv, NEW p \in Proc, OwnBooksInv(p), Busy(p), Current(p).do = "write",
           Advance(p), seen'[p] = seen[p], written' \in [Proc -> [Row -> Int]],
           \A r \in Row : written'[p][r] =
               IF r = Current(p).rows[1] THEN written[p][r] + Delta(p) ELSE written[p][r]
    PROVE  OwnBooksInv(p)'
<1> DEFINE row == Current(p).rows[1]  d == Delta(p)  e == Effect(Current(p), seen[p])
<1>1. PICK b \in Int :
        /\ Rest(program[p], seen[p], b)
        /\ SumFunctionOnSet(written[p], BudgetRows) + b = SumFunctionOnSet(written[p], MoneyRows)
  BY DEF OwnBooksInv
<1>2. IsList(program[p]) /\ program[p] # <<>> /\ seen[p] \in Int
  BY RunningIsList DEF LocksInv, Busy
<1>3. program'[p] = Tail(program[p])
  BY DEF LocksInv, Advance
<1>4. PICK c \in Int : b = e + c /\ Rest(program'[p], seen'[p], c)
  BY <1>1, <1>2, <1>3, RestTail DEF Current
<1>5. d \in Int /\ row \in Row
  BY DeltaIsInt
<1>6. e = IF row \in BudgetRows THEN d ELSE IF row \in MoneyRows THEN -d ELSE 0
  BY DeltaIsAdded
<1>7. \A r \in Row : /\ written[p][r] \in Int
                     /\ written'[p][r] = IF r = row THEN written[p][r] + d ELSE written[p][r]
  BY DEF LocksInv
<1> HIDE DEF row, d, e
<1>8. /\ SumFunctionOnSet(written'[p], BudgetRows)
            = SumFunctionOnSet(written[p], BudgetRows) + (IF row \in BudgetRows THEN d ELSE 0)
      /\ SumFunctionOnSet(written'[p], MoneyRows)
            = SumFunctionOnSet(written[p], MoneyRows) + (IF row \in MoneyRows THEN d ELSE 0)
  <2>1. \A S \in SUBSET Row : IsFiniteSet(S) =>
           SumFunctionOnSet(written'[p], S)
              = SumFunctionOnSet(written[p], S) + (IF row \in S THEN d ELSE 0)
    <3> DEFINE u == written'[p]  w == written[p]
    <3> SUFFICES ASSUME NEW S \in SUBSET Row, IsFiniteSet(S)
                 PROVE  SumFunctionOnSet(u, S) = SumFunctionOnSet(w, S) + (IF row \in S THEN d ELSE 0)
      OBVIOUS
    <3>1. \A r \in S : w[r] \in Int
      BY <1>7
    <3>2. \A r \in S : u[r] = IF r = row THEN w[r] + d ELSE w[r]
      BY <1>7
    <3>4. d \in Int
      BY <1>5
    <3> HIDE DEF u, w
    <3> QED BY <3>1, <3>2, <3>4, SumOverChange
  <2>2. /\ BudgetRows \in SUBSET Row /\ IsFiniteSet(BudgetRows)
        /\ MoneyRows \in SUBSET Row /\ IsFiniteSet(MoneyRows)
    BY RowsAreFinite
  <2> QED BY <2>1, <2>2, Zenon
<1>9. /\ SumFunctionOnSet(written[p], BudgetRows) \in Int
      /\ SumFunctionOnSet(written[p], MoneyRows) \in Int
      /\ row \notin BudgetRows \/ row \notin MoneyRows
  BY SumsOfRows, RowsAreFinite DEF LocksInv
<1>10. SumFunctionOnSet(written'[p], BudgetRows) + c = SumFunctionOnSet(written'[p], MoneyRows)
  BY <1>1, <1>4, <1>5, <1>6, <1>8, <1>9
<1> QED BY <1>4, <1>10 DEF OwnBooksInv

LEMMA OthersBalance ==
    ASSUME NEW q \in Proc, OwnBooksInv(q), program'[q] = program[q], written'[q] = written[q],
           seen'[q] = seen[q]
    PROVE  OwnBooksInv(q)'
  BY DEF OwnBooksInv

LEMMA CommitBalances ==
    ASSUME BooksInv, NEW p \in Proc, Commit(p)
    PROVE  SumFunctionOnSet(committed', BudgetRows) = SumFunctionOnSet(committed', MoneyRows)
<1>1. PICK b \in Int :
        /\ Rest(program[p], seen[p], b)
        /\ SumFunctionOnSet(written[p], BudgetRows) + b = SumFunctionOnSet(written[p], MoneyRows)
  BY DEF BooksInv, OwnBooksInv
<1>2. /\ IsList(program[p]) /\ IsRunning(program[p]) /\ program[p] # <<>> /\ seen[p] \in Int
      /\ Head(program[p]).do = "commit"
  BY RunningIsList DEF BooksInv, TidyInv, LocksInv, Commit, Busy, Current
<1>3. Tail(program[p]) = <<>>
  BY <1>2, HeadAndTail
<1>4. b = 0
  <2>1. Head(program[p]).do # "write"
    BY <1>2
  <2>2. Rest(Tail(program[p]), seen[p], b)
    BY <1>1, <1>2, <2>1, RestTail
  <2> QED BY <1>3, <2>2, NothingLeft
<1>5. \A r \in Row : committed[r] \in Int /\ written[p][r] \in Int
                    /\ committed'[r] = committed[r] + written[p][r]
  BY DEF BooksInv, TidyInv, LocksInv, Commit
<1>6. /\ SumFunctionOnSet(committed', BudgetRows)
            = SumFunctionOnSet(committed, BudgetRows) + SumFunctionOnSet(written[p], BudgetRows)
      /\ SumFunctionOnSet(committed', MoneyRows)
            = SumFunctionOnSet(committed, MoneyRows) + SumFunctionOnSet(written[p], MoneyRows)
  BY <1>5, RowsAreFinite, SumOverPlus
<1>7. /\ SumFunctionOnSet(written[p], BudgetRows) \in Int
      /\ SumFunctionOnSet(written[p], MoneyRows) \in Int
  BY SumsOfRows DEF BooksInv, TidyInv, LocksInv
<1> QED BY <1>1, <1>4, <1>6, <1>7 DEF BooksInv

LEMMA StepBalances ==
    ASSUME BooksInv, NEW p \in Proc, Step(p)
    PROVE  OwnBooksInv(p)' /\ (~Commit(p) => committed' = committed)
<1>1. LocksInv /\ TidyInv /\ OwnBooksInv(p)
  BY DEF BooksInv, TidyInv
<1>2. ASSUME Busy(p), UNCHANGED <<written, seen, committed>>, Current(p).do # "write", Advance(p)
      PROVE  OwnBooksInv(p)'
  BY <1>1, <1>2, PassingBalances
<1>4. CASE StartLocking(p) \/ LockRow(p)
  <2>1. Busy(p) /\ Current(p).do = "lock" /\ UNCHANGED <<written, seen, committed>>
    BY <1>1, <1>4, LockRowShape DEF StartLocking, LockRow
  <2>2. CASE UNCHANGED program
    BY <1>1, <2>1, <2>2, OthersBalance
  <2>3. CASE Advance(p)
    BY <1>2, <2>1, <2>3
  <2> QED BY <1>4, <2>1, <2>2, <2>3 DEF StartLocking, LockRow
<1>5. CASE CheckBalance(p)
  <2>1. CASE Passes(p)
    <3>1. /\ Busy(p) /\ Advance(p) /\ Current(p).do # "write"
          /\ UNCHANGED <<written, seen, committed>>
      BY <1>5, <2>1 DEF CheckBalance
    <3> QED BY <1>2, <3>1
  <2>2. CASE ~Passes(p)
    BY <1>1, <1>5, <2>2, EndBalances DEF CheckBalance
  <2> QED BY <2>1, <2>2
<1>6. CASE ReadValue(p)
  <2>1. /\ Busy(p) /\ Advance(p) /\ Current(p).do = "read"
        /\ UNCHANGED <<written, committed>>
    BY <1>6 DEF ReadValue
  <2>2. seen'[p] \in Int
    BY <1>1, <1>6, ReadKeeps DEF LocksInv
  <2> QED BY <1>1, <2>1, <2>2, PassingBalances
<1>7. CASE ApplyDelta(p)
  <2>1. Busy(p) /\ Advance(p) /\ Current(p).do = "write" /\ UNCHANGED <<seen, committed>>
    BY <1>7 DEF ApplyDelta, Writes
  <2>2. written' \in [Proc -> [Row -> Int]]
    BY <1>1, <1>7, ApplyKeeps DEF LocksInv
  <2>3. \A r \in Row : written'[p][r] =
              IF r = Current(p).rows[1] THEN written[p][r] + Delta(p) ELSE written[p][r]
    BY <1>1, <1>7, ApplyAside
  <2> QED BY <1>1, <2>1, <2>2, <2>3, WritingBalances
<1>8. CASE SkipZero(p)
  <2>1. /\ Busy(p) /\ Advance(p) /\ Current(p).do = "write" /\ Delta(p) = 0
        /\ UNCHANGED <<seen, committed, written>>
    BY <1>8 DEF SkipZero, Writes
  <2>2. /\ written' \in [Proc -> [Row -> Int]]
        /\ \A r \in Row : written'[p][r] =
               IF r = Current(p).rows[1] THEN written[p][r] + Delta(p) ELSE written[p][r]
    BY <1>1, <2>1 DEF LocksInv
  <2> QED BY <1>1, <2>1, <2>2, WritingBalances
<1>9. CASE Commit(p)
  BY <1>1, <1>9, EndBalances DEF Commit
<1>10. CASE AbortDeadlocked(p)
  BY <1>1, <1>10, EndBalances DEF AbortDeadlocked
<1> QED BY <1>4, <1>5, <1>6, <1>7, <1>8, <1>9, <1>10 DEF Step

LEMMA NextBooks == BooksInv /\ [Next]_vars => BooksInv'
<1> SUFFICES ASSUME BooksInv, [Next]_vars PROVE BooksInv'
  OBVIOUS
<1>0. TidyInv /\ TidyInv'
  BY NextTidy DEF BooksInv
<1>1. ASSUME NEW p \in Proc, Aside(p), OwnBooksInv(p)' PROVE \A q \in Proc : OwnBooksInv(q)'
  <2>1. \A q \in Proc \ {p} : OwnBooksInv(q)'
    BY <1>1, OthersBalance DEF Aside, BooksInv
  <2> QED BY <1>1, <2>1
<1>2. ASSUME NEW p \in Proc, NEW req \in Requests, Begin(p, req) PROVE BooksInv'
  <2>1. /\ program'[p] = Started(req) /\ written'[p] = NoWrites
        /\ Aside(p) /\ UNCHANGED <<committed, seen>>
    BY <1>0, <1>2, BeginAside
  <2>2. Rest(program'[p], seen'[p], 0)
    BY <1>0, <2>1, StartedRest DEF TidyInv, LocksInv
  <2>3. OwnBooksInv(p)'
    BY <2>1, <2>2, NoWritesSum DEF OwnBooksInv
  <2> QED BY <1>0, <1>1, <2>1, <2>3 DEF BooksInv
<1>3. ASSUME NEW p \in Proc, Step(p) PROVE BooksInv'
  <2>1. Aside(p) /\ OwnBooksInv(p)'
    BY <1>0, <1>3, StepTidy, StepBalances
  <2>2. SumFunctionOnSet(committed', BudgetRows) = SumFunctionOnSet(committed', MoneyRows)
    BY <1>3, StepBalances, CommitBalances DEF BooksInv
  <2> QED BY <1>0, <1>1, <2>1, <2>2 DEF BooksInv
<1>4. CASE UNCHANGED vars
  <2>1. \A q \in Proc : OwnBooksInv(q)'
    BY <1>4, OthersBalance DEF vars, BooksInv
  <2> QED BY <1>0, <1>4, <2>1 DEF BooksInv, vars
<1> QED BY <1>2, <1>3, <1>4 DEF Next

\* Whatever calls run on whatever connections and in whatever order their
\* statements interleave, what categories hold is what accounts hold and the
\* debt the cards have brought in: no function loses or repeats an update.
THEOREM BudgetStaysMoney == Spec => []BudgetIsMoney
<1>1. Spec => []BooksInv
  BY InitBooks, NextBooks, PTL DEF Spec
<1>2. BooksInv => BudgetIsMoney
  BY DEF BooksInv, BudgetIsMoney, MoneyRows
<1> QED BY <1>1, <1>2, PTL

(***************************************************************************)
(* Types.  A category is cleared by what the transaction sees of it, and no *)
(* other one writes the row before that is committed or undone.             *)
(***************************************************************************)
ActiveInv ==
    \A r \in ActiveRows :
        /\ committed[r] \in {0, 1}
        /\ \A p \in Proc : written[p][r] \in {0, -committed[r]}

TypeInv ==
    /\ TidyInv /\ ActiveInv
    /\ calls \in [Proc -> 0..MaxCalls]
    /\ unlocked \subseteq BankRows \cup BudgetRows

LEMMA ActiveAreRows == ActiveRows \subseteq Row \ DebtRows
  BY DEF ActiveRows, DebtRows, Row, ActiveRow, DebtRow

LEMMA InitTypes == Init => TypeInv
<1> SUFFICES ASSUME Init PROVE TypeInv
  OBVIOUS
<1>1. ActiveInv
  BY StartAssumption, ActiveAreRows DEF Init, ActiveInv, NoWrites, ActiveRows
<1>2. calls \in [Proc -> 0..MaxCalls]
  BY LocksAssumption DEF Init
<1> QED BY <1>1, <1>2, InitTidy DEF Init, TypeInv

LEMMA ApplyActive ==
    ASSUME TypeInv, NEW p \in Proc, ApplyDelta(p), NEW r \in ActiveRows
    PROVE  written'[p][r] \in {0, -committed[r]}
<1>1. r \in Row /\ written[p][r] \in {0, -committed[r]} /\ committed[r] \in {0, 1}
  BY ActiveAreRows DEF TypeInv, ActiveInv
<1>2. CASE r # Current(p).rows[1]
  BY <1>1, <1>2, ApplyAside DEF TypeInv
<1>3. CASE r = Current(p).rows[1]
  <2>1. Sound(Current(p)) /\ Current(p).do = "write"
    BY HeadAndTail DEF ApplyDelta, Writes, Busy, Current, TypeInv, TidyInv, LocksInv
  <2>2. Current(p).what = "itself" /\ Current(p).sign = -1
    BY <1>3, <2>1 DEF Sound
  <2>3. Delta(p) = -1 * (committed[r] + written[p][r])
    <3>1. Delta(p) = Current(p).sign * Visible(p, Current(p).rows[1])
      BY <2>2 DEF Delta
    <3> QED BY <1>1, <1>3, <2>2, <3>1 DEF Visible
  <2>4. written'[p][r] = written[p][r] + Delta(p)
    BY <1>1, <1>3, ApplyAside DEF TypeInv
  <2> QED BY <1>1, <2>3, <2>4
<1> QED BY <1>2, <1>3

LEMMA StepActive ==
    ASSUME TypeInv, NEW p \in Proc, Step(p)
    PROVE  ActiveInv'
<1> SUFFICES ASSUME NEW r \in ActiveRows
             PROVE  committed'[r] \in {0, 1} /\ \A q \in Proc : written'[q][r] \in {0, -committed'[r]}
  BY DEF ActiveInv
<1>0. TidyInv /\ LocksInv /\ WritesAreHeld
  BY DEF TypeInv, TidyInv, LocksInv
<1>1. /\ r \in Row \ DebtRows /\ committed[r] \in {0, 1}
      /\ \A q \in Proc : written[q][r] \in {0, -committed[r]}
  BY ActiveAreRows DEF TypeInv, ActiveInv
<1>2. \A q \in Proc \ {p} : written'[q] = written[q]
  BY <1>0, StepTidy DEF Aside
<1>3. NoWrites[r] = 0
  BY <1>1 DEF NoWrites
<1>4. CASE Commit(p)
  <2>1. committed'[r] = committed[r] + written[p][r]
    BY <1>1, <1>4 DEF Commit
  <2>2. written'[p][r] = 0
    BY <1>0, <1>3, <1>4, EndAside DEF Commit
  <2>3. \A q \in Proc \ {p} : written[p][r] # 0 => written[q][r] = 0
    BY <1>0, <1>1 DEF WritesAreHeld
  <2>4. committed'[r] \in {0, 1}
    BY <1>1, <2>1
  <2>5. ASSUME NEW q \in Proc PROVE written'[q][r] \in {0, -committed'[r]}
    <3>1. CASE q = p
      BY <2>2, <3>1
    <3>2. CASE q # p
      <4>1. written'[q][r] = written[q][r] /\ written[q][r] \in {0, -committed[r]}
        BY <1>1, <1>2, <3>2
      <4>2. written[p][r] # 0 => written[q][r] = 0
        BY <2>3, <3>2
      <4>3. written[p][r] = 0 => committed'[r] = committed[r]
        BY <1>1, <2>1
      <4> QED BY <4>1, <4>2, <4>3
    <3> QED BY <3>1, <3>2
  <2> QED BY <2>4, <2>5
<1>5. CASE ~Commit(p)
  <2>1. committed' = committed
    BY <1>5 DEF Step, StartLocking, LockRow, CheckBalance, ReadValue, ApplyDelta, SkipZero,
                AbortDeadlocked
  <2>2. written'[p][r] \in {0, -committed[r]}
    <3>1. CASE ApplyDelta(p)
      BY <3>1, ApplyActive
    <3>2. CASE EndTransaction(p)
      BY <1>0, <1>3, <3>2, EndAside
    <3>3. CASE UNCHANGED written
      BY <1>1, <3>3
    <3> QED BY <1>5, <3>1, <3>2, <3>3 DEF Step, StartLocking, LockRow, CheckBalance, ReadValue,
                                        SkipZero, AbortDeadlocked
  <2>3. ASSUME NEW q \in Proc PROVE written'[q][r] \in {0, -committed'[r]}
    BY <1>1, <1>2, <2>1, <2>2
  <2> QED BY <1>1, <2>1, <2>3
<1> QED BY <1>4, <1>5

LEMMA NextTypes == TypeInv /\ [Next]_vars => TypeInv'
<1> SUFFICES ASSUME TypeInv, [Next]_vars PROVE TypeInv'
  OBVIOUS
<1>0. TidyInv /\ TidyInv'
  BY NextTidy DEF TypeInv
<1>1. ASSUME NEW p \in Proc, NEW req \in Requests, Begin(p, req) PROVE TypeInv'
  <2>1. UNCHANGED <<committed, written, unlocked>>
    BY <1>0, <1>1, BeginAside
  <2>2. calls' \in [Proc -> 0..MaxCalls]
    BY <1>1, LocksAssumption DEF Begin, TypeInv
  <2> QED BY <1>0, <2>1, <2>2 DEF TypeInv, ActiveInv
<1>2. ASSUME NEW p \in Proc, Step(p) PROVE TypeInv'
  <2>1. UNCHANGED calls
    BY <1>2 DEF Step, StartLocking, LockRow, CheckBalance, ReadValue, ApplyDelta, SkipZero,
                Commit, AbortDeadlocked
  <2>2. unlocked' \subseteq BankRows \cup BudgetRows
    BY <1>2 DEF TypeInv, Step, StartLocking, LockRow, CheckBalance, ReadValue, ApplyDelta,
                SkipZero, Commit, AbortDeadlocked
  <2> QED BY <1>0, <1>2, <2>1, <2>2, StepActive DEF TypeInv
<1>3. CASE UNCHANGED vars
  BY <1>0, <1>3 DEF vars, TypeInv, ActiveInv
<1> QED BY <1>1, <1>2, <1>3 DEF Next

\* Rows hold integers, a category stays active or not however its archivings
\* race, and a connection handed back to the pool holds no row, no write and no
\* wait: a commit, an exception and the deadlock detector release everything.
THEOREM LocksTyped == Spec => []TypeOK
<1>1. Spec => []TypeInv
  BY InitTypes, NextTypes, PTL DEF Spec
<1>2. TypeInv => TypeOK
  BY ActiveAreRows DEF TypeInv, ActiveInv, ActiveRows, TidyInv, LocksInv, IdleInv, TypeOK
<1> QED BY <1>1, <1>2, PTL

(***************************************************************************)
(* Nothing is taken from a row that is not there, unless some function has  *)
(* decided on the row without holding it.  Each call compares a row before  *)
(* it takes from it; between the comparison and the withdrawal the          *)
(* transaction holds the row, so no other one changes it.                   *)
(*                                                                          *)
(* Withdrawals from the rows that must not fall below a least value: the    *)
(* cash of a person, the account of a card, and an operation that is undone *)
(* once.  Every call compares the row before it takes from it, takes from   *)
(* it once, and locks an operation before it looks at it.                   *)
(***************************************************************************)
Guarded == OpRows \cup {BankRow(a) : a \in {x \in Account : IsCard[x] \/ IsPersonal[x]}}
Least(r) == IF r \in OpRows THEN 0 ELSE Floor(r[2])

Given(st)   == st.what = "given" /\ st.sign = 1 /\ st.x \in Int
Deposits(st) == Given(st) /\ st.x >= 0 /\ st.rows[1] \notin OpRows
Takes(st)   == st.do = "write" /\ st.rows[1] \in Guarded /\ ~Deposits(st)

Covers(c, st) ==
    /\ c.do = "check" /\ c.rows = <<st.rows[1]>> /\ c.least \in Int
    /\ c.least + st.x >= Least(st.rows[1])

ChecksOp(st, k) == st.do = "check" /\ st.rows = <<OpRow(k)>>
LocksOp(st, k)  == st.do = "lock" /\ st.rows = <<OpRow(k)>>

Careful(s) ==
    /\ IsList(s)
    /\ \A i \in 1..Len(s) : Takes(s[i]) =>
          /\ Given(s[i]) /\ s[i].x < 0
          /\ \E j \in 1..Len(s) : j < i /\ Covers(s[j], s[i])
    /\ \A i, j \in 1..Len(s) :
          Takes(s[i]) /\ Takes(s[j]) /\ s[i].rows[1] = s[j].rows[1] => i = j
    /\ \A i \in 1..Len(s), k \in DOMAIN Past : ChecksOp(s[i], k) =>
          \E j \in 1..Len(s) : j < i /\ LocksOp(s[j], k)

Harmless(s) ==
    /\ IsList(s)
    /\ \A i \in 1..Len(s) : ~Takes(s[i]) /\ \A k \in DOMAIN Past : ~ChecksOp(s[i], k)

LEMMA HarmlessIsCareful == \A s : Harmless(s) => Careful(s)
  BY DEF Harmless, Careful

LEMMA HarmlessJoin ==
    ASSUME NEW s, NEW t, Harmless(s), Harmless(t)
    PROVE  Harmless(s \o t)
  BY JoinFacts DEF Harmless

LEMMA HarmlessNone == Harmless(<<>>)
<1>1. Len(<<>>) = 0
  BY EmptySeq
<1> QED BY <1>1, NoList DEF Harmless

\* what is joined to statements that take nothing may lean on their checks
LEMMA CarefulJoin ==
    ASSUME NEW s, NEW t, Careful(s), IsList(t), \A i \in 1..Len(s) : ~Takes(s[i]),
           \A i \in 1..Len(t) : Takes(t[i]) =>
               /\ Given(t[i]) /\ t[i].x < 0
               /\ \E j \in 1..Len(s) : Covers(s[j], t[i]),
           \A i, j \in 1..Len(t) :
               Takes(t[i]) /\ Takes(t[j]) /\ t[i].rows[1] = t[j].rows[1] => i = j,
           \A i \in 1..Len(t), k \in DOMAIN Past : ~ChecksOp(t[i], k)
    PROVE  Careful(s \o t)
<1> DEFINE u == s \o t
<1>1. /\ IsList(u) /\ Len(s) \in Nat /\ Len(t) \in Nat /\ Len(u) = Len(s) + Len(t)
      /\ \A i \in 1..Len(s) : u[i] = s[i]
      /\ \A i \in 1..Len(u) :
            i \in 1..Len(s) \/ (i - Len(s) \in 1..Len(t) /\ u[i] = t[i - Len(s)])
  BY JoinFacts DEF Careful
<1> HIDE DEF u
<1>2. \A i \in 1..Len(u) : Takes(u[i]) => i - Len(s) \in 1..Len(t) /\ u[i] = t[i - Len(s)]
  BY <1>1
<1>3. \A i \in 1..Len(u) : Takes(u[i]) =>
          /\ Given(u[i]) /\ u[i].x < 0
          /\ \E j \in 1..Len(u) : j < i /\ Covers(u[j], u[i])
  <2> SUFFICES ASSUME NEW i \in 1..Len(u), Takes(u[i])
               PROVE  /\ Given(u[i]) /\ u[i].x < 0
                      /\ \E j \in 1..Len(u) : j < i /\ Covers(u[j], u[i])
    OBVIOUS
  <2>1. i - Len(s) \in 1..Len(t) /\ u[i] = t[i - Len(s)]
    BY <1>2
  <2>2. PICK j \in 1..Len(s) : Covers(s[j], u[i])
    BY <2>1
  <2>3. j \in 1..Len(u) /\ j < i /\ u[j] = s[j]
    BY <1>1, <2>1
  <2> QED BY <2>1, <2>2, <2>3
<1>4. \A i, j \in 1..Len(u) :
          Takes(u[i]) /\ Takes(u[j]) /\ u[i].rows[1] = u[j].rows[1] => i = j
  <2> SUFFICES ASSUME NEW i \in 1..Len(u), NEW j \in 1..Len(u), Takes(u[i]), Takes(u[j]),
                      u[i].rows[1] = u[j].rows[1]
               PROVE  i = j
    OBVIOUS
  <2>1. /\ i - Len(s) \in 1..Len(t) /\ u[i] = t[i - Len(s)]
        /\ j - Len(s) \in 1..Len(t) /\ u[j] = t[j - Len(s)]
    BY <1>2
  <2>2. i - Len(s) = j - Len(s)
    BY <2>1
  <2> QED BY <1>1, <2>2
<1>5. \A i \in 1..Len(u), k \in DOMAIN Past : ChecksOp(u[i], k) =>
          \E j \in 1..Len(u) : j < i /\ LocksOp(u[j], k)
  <2> SUFFICES ASSUME NEW i \in 1..Len(u), NEW k \in DOMAIN Past, ChecksOp(u[i], k)
               PROVE  \E j \in 1..Len(u) : j < i /\ LocksOp(u[j], k)
    OBVIOUS
  <2>1. i \in 1..Len(s) /\ u[i] = s[i]
    BY <1>1
  <2>2. PICK j \in 1..Len(s) : j < i /\ LocksOp(s[j], k)
    BY <2>1 DEF Careful
  <2> QED BY <1>1, <2>2
<1>6. Careful(u)
  BY <1>1, <1>3, <1>4, <1>5 DEF Careful
<1> QED BY <1>6 DEF u

LEMMA CarefulMore ==
    ASSUME NEW s, NEW t, Careful(s), Harmless(t)
    PROVE  Careful(s \o t)
<1> DEFINE u == s \o t
<1>1. /\ IsList(u) /\ Len(s) \in Nat /\ Len(t) \in Nat /\ Len(u) = Len(s) + Len(t)
      /\ \A i \in 1..Len(s) : u[i] = s[i]
      /\ \A i \in 1..Len(u) :
            i \in 1..Len(s) \/ (i - Len(s) \in 1..Len(t) /\ u[i] = t[i - Len(s)])
  BY JoinFacts DEF Careful, Harmless
<1> HIDE DEF u
<1>2. \A i \in 1..Len(u) : Takes(u[i]) \/ (\E k \in DOMAIN Past : ChecksOp(u[i], k)) =>
          i \in 1..Len(s) /\ u[i] = s[i]
  BY <1>1 DEF Harmless
<1>3. \A i \in 1..Len(u) : Takes(u[i]) =>
          /\ Given(u[i]) /\ u[i].x < 0
          /\ \E j \in 1..Len(u) : j < i /\ Covers(u[j], u[i])
  <2> SUFFICES ASSUME NEW i \in 1..Len(u), Takes(u[i])
               PROVE  /\ Given(u[i]) /\ u[i].x < 0
                      /\ \E j \in 1..Len(u) : j < i /\ Covers(u[j], u[i])
    OBVIOUS
  <2>1. i \in 1..Len(s) /\ u[i] = s[i]
    BY <1>2
  <2>2. Given(s[i]) /\ s[i].x < 0 /\ \E j \in 1..Len(s) : j < i /\ Covers(s[j], s[i])
    BY <2>1 DEF Careful
  <2>3. \A j \in 1..Len(s) : j \in 1..Len(u) /\ u[j] = s[j]
    BY <1>1
  <2> QED BY <2>1, <2>2, <2>3
<1>4. \A i, j \in 1..Len(u) :
          Takes(u[i]) /\ Takes(u[j]) /\ u[i].rows[1] = u[j].rows[1] => i = j
  BY <1>2 DEF Careful
<1>5. \A i \in 1..Len(u), k \in DOMAIN Past : ChecksOp(u[i], k) =>
          \E j \in 1..Len(u) : j < i /\ LocksOp(u[j], k)
  <2> SUFFICES ASSUME NEW i \in 1..Len(u), NEW k \in DOMAIN Past, ChecksOp(u[i], k)
               PROVE  \E j \in 1..Len(u) : j < i /\ LocksOp(u[j], k)
    OBVIOUS
  <2>1. i \in 1..Len(s) /\ u[i] = s[i]
    BY <1>2
  <2>2. PICK j \in 1..Len(s) : j < i /\ LocksOp(s[j], k)
    BY <2>1 DEF Careful
  <2> QED BY <1>1, <2>2
<1>6. Careful(u)
  BY <1>1, <1>3, <1>4, <1>5 DEF Careful
<1> QED BY <1>6 DEF u

(***************************************************************************)
(* Statements that do no harm.                                              *)
(***************************************************************************)
LEMMA GuardedRows ==
    /\ \A k \in DOMAIN Past : OpRow(k) \in OpRows /\ OpRow(k) \in Guarded /\ Least(OpRow(k)) = 0
    /\ \A a \in Account : /\ BankRow(a) \notin OpRows /\ Least(BankRow(a)) = Floor(a)
                          /\ Floor(a) \in Int
                          /\ BankRow(a) \in Guarded <=> IsCard[a] \/ IsPersonal[a]
    /\ \A c : BudgetRow(c) \notin Guarded /\ ActiveRow(c) \notin Guarded
    /\ \A a : DebtRow(a) \notin Guarded
    /\ \A k, a, c : OpRow(k) # BankRow(a) /\ OpRow(k) # BudgetRow(c) /\ OpRow(k) # ActiveRow(c)
    /\ Guarded \subseteq Row \ DebtRows /\ OpRows \subseteq Guarded
<1>1. \A k \in DOMAIN Past : OpRow(k) \in OpRows /\ OpRow(k) \in Guarded /\ Least(OpRow(k)) = 0
  BY DEF OpRows, Guarded, Least
<1>2. \A a : BankRow(a) \notin OpRows /\ BankRow(a)[2] = a
  BY DEF OpRows, OpRow, BankRow
<1>3. \A a \in Account : Least(BankRow(a)) = Floor(a) /\ Floor(a) \in Int
  BY <1>2, LocksAssumption DEF Least, Floor
<1>4. \A a \in Account : BankRow(a) \in Guarded <=> IsCard[a] \/ IsPersonal[a]
  BY <1>2 DEF Guarded
<1>5. \A c : BudgetRow(c) \notin Guarded /\ ActiveRow(c) \notin Guarded
  BY DEF Guarded, OpRows, OpRow, BankRow, BudgetRow, ActiveRow
<1>6. \A a : DebtRow(a) \notin Guarded
  BY DEF Guarded, OpRows, OpRow, BankRow, DebtRow
<1>7. \A k, a, c : OpRow(k) # BankRow(a) /\ OpRow(k) # BudgetRow(c) /\ OpRow(k) # ActiveRow(c)
  BY DEF OpRow, BankRow, BudgetRow, ActiveRow
<1>8. Guarded \subseteq Row /\ OpRows \subseteq Guarded
  BY DEF Guarded, Row, BankRows
<1>9. Guarded \cap DebtRows = {}
  BY <1>6 DEF DebtRows
<1> QED BY <1>1, <1>2, <1>3, <1>4, <1>5, <1>6, <1>7, <1>8, <1>9

NoHarm(st) == ~Takes(st) /\ \A k \in DOMAIN Past : ~ChecksOp(st, k)

LEMMA HarmlessOne == ASSUME NEW a, NoHarm(a) PROVE Harmless(<<a>>)
<1> DEFINE s == <<a>>
<1>1. IsList(s) /\ Len(s) = 1 /\ s[1] = a
  BY TuplesAreLists
<1> HIDE DEF s
<1>2. Harmless(s)
  BY <1>1 DEF Harmless, NoHarm
<1> QED BY <1>2 DEF s

LEMMA HarmlessTwo == ASSUME NEW a, NEW b, NoHarm(a), NoHarm(b) PROVE Harmless(<<a, b>>)
<1> DEFINE s == <<a, b>>
<1>1. IsList(s) /\ Len(s) = 2 /\ s[1] = a /\ s[2] = b
  BY TuplesAreLists
<1> HIDE DEF s
<1>2. Harmless(s)
  BY <1>1 DEF Harmless, NoHarm
<1> QED BY <1>2 DEF s

LEMMA HarmlessThree ==
    ASSUME NEW a, NEW b, NEW c, NoHarm(a), NoHarm(b), NoHarm(c)
    PROVE  Harmless(<<a, b, c>>)
<1> DEFINE s == <<a, b, c>>
<1>1. IsList(s) /\ Len(s) = 3 /\ s[1] = a /\ s[2] = b /\ s[3] = c
  BY TuplesAreLists
<1> HIDE DEF s
<1>2. Harmless(s)
  BY <1>1 DEF Harmless, NoHarm
<1> QED BY <1>2 DEF s

LEMMA HarmlessFive ==
    ASSUME NEW a, NEW b, NEW c, NEW d, NEW e,
           NoHarm(a), NoHarm(b), NoHarm(c), NoHarm(d), NoHarm(e)
    PROVE  Harmless(<<a, b, c, d, e>>)
<1> DEFINE s == <<a, b, c, d, e>>
<1>1. IsList(s) /\ Len(s) = 5 /\ s[1] = a /\ s[2] = b /\ s[3] = c /\ s[4] = d /\ s[5] = e
  BY TuplesAreLists
<1> HIDE DEF s
<1>2. Harmless(s)
  BY <1>1 DEF Harmless, NoHarm
<1> QED BY <1>2 DEF s

LEMMA NoHarmStatements ==
    /\ \A rows : NoHarm(Lock(rows))
    /\ \A row : NoHarm(Read(row))
    /\ \A rows, least : (\A k \in DOMAIN Past : rows # <<OpRow(k)>>) => NoHarm(Check(rows, least))
    /\ \A row, x : row \notin Guarded =>
          /\ NoHarm(Add(row, x)) /\ NoHarm(AddBeyond(row, x)) /\ NoHarm(Clear(row))
          /\ \A sign : NoHarm(AddSeen(row, sign)) /\ NoHarm(AddCovered(row, sign, x))
    /\ \A row : \A x \in Nat : row \notin OpRows => NoHarm(Add(row, x))
<1>1. \A rows : NoHarm(Lock(rows))
  BY Statements DEF NoHarm, Takes, ChecksOp
<1>2. \A row : NoHarm(Read(row))
  BY Statements DEF NoHarm, Takes, ChecksOp
<1>3. \A rows, least : (\A k \in DOMAIN Past : rows # <<OpRow(k)>>) => NoHarm(Check(rows, least))
  <2> TAKE rows, least
  <2> DEFINE st == Check(rows, least)
  <2>1. st.do = "check" /\ st.rows = rows
    BY Statements
  <2> HIDE DEF st
  <2>2. (\A k \in DOMAIN Past : rows # <<OpRow(k)>>) => NoHarm(st)
    BY <2>1 DEF NoHarm, Takes, ChecksOp
  <2> QED BY <2>2 DEF st
<1>4. \A row, x : row \notin Guarded =>
          NoHarm(Add(row, x)) /\ NoHarm(AddBeyond(row, x)) /\ NoHarm(Clear(row))
  BY Statements DEF NoHarm, Takes, ChecksOp
<1>5. \A row, x, sign : row \notin Guarded =>
          NoHarm(AddSeen(row, sign)) /\ NoHarm(AddCovered(row, sign, x))
  BY Statements DEF NoHarm, Takes, ChecksOp
<1>6. \A row : \A x \in Nat : row \notin OpRows => NoHarm(Add(row, x))
  BY Statements DEF NoHarm, Takes, ChecksOp, Deposits, Given
<1> QED BY <1>1, <1>2, <1>3, <1>4, <1>5, <1>6

\* rows compared together, or rows that are no operations
LEMMA OtherChecks ==
    /\ \A least, a : NoHarm(Check(<<BankRow(a)>>, least))
    /\ \A least, c : NoHarm(Check(<<ActiveRow(c)>>, least))
    /\ \A least, r, s : NoHarm(Check(<<r, s>>, least))
<1>1. \A k, a : <<BankRow(a)>> # <<OpRow(k)>>
  BY GuardedRows
<1>2. \A k, c : <<ActiveRow(c)>> # <<OpRow(k)>>
  BY GuardedRows
<1>3. \A k, r, s : <<r, s>> # <<OpRow(k)>>
  <2> TAKE k, r, s
  <2> DEFINE two == <<r, s>>  one == <<OpRow(k)>>
  <2>1. Len(two) = 2 /\ Len(one) = 1
    OBVIOUS
  <2> HIDE DEF two, one
  <2>2. two # one
    BY <2>1
  <2> QED BY <2>2 DEF two, one
<1> QED BY <1>1, <1>2, <1>3, NoHarmStatements

LEMMA ExpenseCareful ==
    ASSUME NEW a \in Account, NEW c \in Category, NEW x \in Nat
    PROVE  Careful(Expense(a, c, x))
<1> DEFINE s1 == <<Check(<<ActiveRow(c)>>, 1), Lock(<<BankRow(a)>>)>>
           s2 == IF IsCard[a] \/ IsPersonal[a]
                 THEN <<Check(<<BankRow(a)>>, Floor(a) + x)>> ELSE <<>>
           p1 == Lock(<<BudgetRow(c)>>)  p2 == Add(BankRow(a), -x)  p3 == Add(BudgetRow(c), -x)
           s3 == <<p1, p2, p3>>
<1>1. Harmless(s1)
  BY NoHarmStatements, OtherChecks, HarmlessTwo
<1>2. Harmless(s2)
  BY OtherChecks, HarmlessOne, HarmlessNone
<1>3. Harmless(s1 \o s2)
  BY <1>1, <1>2, HarmlessJoin
<1>4. NoHarm(p1) /\ NoHarm(p3)
  BY NoHarmStatements, GuardedRows
<1>5. /\ p2.do = "write" /\ p2.rows[1] = BankRow(a) /\ p2.what = "given" /\ p2.sign = 1
      /\ p2.x = -x
  BY Statements
<1>6. IsList(s3) /\ Len(s3) = 3 /\ s3[1] = p1 /\ s3[2] = p2 /\ s3[3] = p3
  BY TuplesAreLists
<1>7. Takes(p2) => /\ Given(p2) /\ p2.x < 0
                   /\ \E j \in 1..Len(s1 \o s2) : Covers((s1 \o s2)[j], p2)
  <2> SUFFICES ASSUME Takes(p2)
               PROVE  /\ Given(p2) /\ p2.x < 0
                      /\ \E j \in 1..Len(s1 \o s2) : Covers((s1 \o s2)[j], p2)
    OBVIOUS
  <2>1. IsCard[a] \/ IsPersonal[a]
    BY <1>5, GuardedRows DEF Takes
  <2>2. Given(p2) /\ p2.x < 0
    <3>1. Given(p2)
      BY <1>5 DEF Given
    <3> QED BY <1>5, <3>1, GuardedRows DEF Takes, Deposits
  <2> DEFINE ch == Check(<<BankRow(a)>>, Floor(a) + x)
  <2>3. s2 = <<ch>>
    BY <2>1
  <2>4. ch.do = "check" /\ ch.rows = <<BankRow(a)>> /\ ch.least = Floor(a) + x
    BY Statements
  <2>5. Floor(a) \in Int /\ Least(BankRow(a)) = Floor(a)
    BY GuardedRows
  <2>6. Covers(ch, p2)
    <3> HIDE DEF ch, p2
    <3> QED BY <1>5, <2>4, <2>5 DEF Covers
  <2>7. Len(s2) = 1 /\ s2[1] = ch
    BY <2>3, TuplesAreLists
  <2> HIDE DEF s1, s2, ch, p2
  <2>8. /\ Len(s1) \in Nat /\ Len(s1 \o s2) = Len(s1) + Len(s2)
        /\ \A i \in 1..Len(s2) : (s1 \o s2)[Len(s1) + i] = s2[i]
    BY <1>1, <1>2, JoinFacts DEF Harmless
  <2>9. (s1 \o s2)[Len(s1) + 1] = ch /\ Len(s1) + 1 \in 1..Len(s1 \o s2)
    BY <2>7, <2>8
  <2> QED BY <2>2, <2>6, <2>9
<1>8. Expense(a, c, x) = (s1 \o s2) \o s3
  <2>1. Expense(a, c, x) = s1 \o s2 \o s3
    BY DEF Expense
  <2> QED BY <2>1
<1> DEFINE s12 == s1 \o s2
<1> HIDE DEF p1, p2, p3, s3, s12
<1>9. Careful(s12 \o s3)
  <2>1. /\ Careful(s12) /\ \A i \in 1..Len(s12) : ~Takes(s12[i])
    BY <1>3, HarmlessIsCareful DEF s12, Harmless
  <2>2. \A i \in 1..Len(s3) : /\ Takes(s3[i]) => s3[i] = p2 /\ i = 2
                              /\ \A k \in DOMAIN Past : ~ChecksOp(s3[i], k)
    <3>1. \A k \in DOMAIN Past : ~ChecksOp(p2, k)
      BY <1>5 DEF ChecksOp
    <3> QED BY <1>4, <1>6, <3>1 DEF NoHarm
  <2>3. Takes(p2) => Given(p2) /\ p2.x < 0 /\ \E j \in 1..Len(s12) : Covers(s12[j], p2)
    BY <1>7 DEF s12
  <2> QED BY <1>6, <2>1, <2>2, <2>3, CarefulJoin
<1> QED BY <1>8, <1>9 DEF s12

LEMMA IncomeCareful ==
    ASSUME NEW a \in Account, NEW x \in Nat
    PROVE  Careful(Income(a, x))
<1>1. NoHarm(Add(BankRow(a), x)) /\ NoHarm(Add(BudgetRow(Unallocated), x))
  BY NoHarmStatements, GuardedRows
<1> QED BY <1>1, HarmlessTwo, HarmlessIsCareful DEF Income

LEMMA TransferCareful ==
    ASSUME NEW a \in Account, NEW t \in Account, NEW x \in Nat
    PROVE  Careful(Transfer(a, t, x))
<1> DEFINE row == IF IsCard[t] THEN DebtRow(t) ELSE BankRow(a)
           p1 == Lock(<<BankRow(a)>>)  p2 == Check(<<BankRow(a)>>, Floor(a) + x)  p3 == Read(row)
           p4 == Add(BankRow(a), -x)  p5 == Add(BankRow(t), x)
           s1 == <<p1, p2, p3, p4, p5>>
           s2 == CASE IsCard[t] /\ ~IsCard[a] ->
                         <<AddCovered(BudgetRow(Unallocated), -1, x), AddCovered(DebtRow(t), -1, x)>>
                   [] IsCard[a] /\ ~IsCard[t] ->
                         <<AddBeyond(BudgetRow(Unallocated), x), AddBeyond(DebtRow(a), x)>>
                   [] ~IsCard[a] /\ ~IsCard[t] ->
                         <<Add(BudgetRow(Unallocated), -x), Add(BudgetRow(Unallocated), x)>>
                   [] OTHER -> <<>>
<1>1. NoHarm(p1) /\ NoHarm(p2) /\ NoHarm(p3) /\ NoHarm(p5)
  BY NoHarmStatements, OtherChecks, GuardedRows
<1>2. /\ p4.do = "write" /\ p4.rows[1] = BankRow(a) /\ p4.what = "given" /\ p4.sign = 1
      /\ p4.x = -x
  BY Statements
<1>3. Takes(p4) => Given(p4) /\ p4.x < 0
  <2>1. Given(p4)
    BY <1>2 DEF Given
  <2> QED BY <1>2, <2>1, GuardedRows DEF Takes, Deposits
<1>4. Covers(p2, p4)
  <2>1. p2.do = "check" /\ p2.rows = <<BankRow(a)>> /\ p2.least = Floor(a) + x
    BY Statements
  <2>2. Floor(a) \in Int /\ Least(BankRow(a)) = Floor(a)
    BY GuardedRows
  <2> HIDE DEF p2, p4
  <2> QED BY <1>2, <2>1, <2>2 DEF Covers
<1>5. /\ IsList(s1) /\ Len(s1) = 5 /\ s1[1] = p1 /\ s1[2] = p2 /\ s1[3] = p3 /\ s1[4] = p4
      /\ s1[5] = p5
  BY TuplesAreLists
<1>6. \A k \in DOMAIN Past : ~ChecksOp(p4, k)
  BY <1>2 DEF ChecksOp
<1>7. Transfer(a, t, x) = s1 \o s2
  BY DEF Transfer
<1>8. Harmless(s2)
  <2>1. /\ NoHarm(AddCovered(BudgetRow(Unallocated), -1, x)) /\ NoHarm(AddCovered(DebtRow(t), -1, x))
        /\ NoHarm(AddBeyond(BudgetRow(Unallocated), x)) /\ NoHarm(AddBeyond(DebtRow(a), x))
        /\ NoHarm(Add(BudgetRow(Unallocated), -x)) /\ NoHarm(Add(BudgetRow(Unallocated), x))
    BY NoHarmStatements, GuardedRows
  <2>2. /\ Harmless(<<AddCovered(BudgetRow(Unallocated), -1, x), AddCovered(DebtRow(t), -1, x)>>)
        /\ Harmless(<<AddBeyond(BudgetRow(Unallocated), x), AddBeyond(DebtRow(a), x)>>)
        /\ Harmless(<<Add(BudgetRow(Unallocated), -x), Add(BudgetRow(Unallocated), x)>>)
    BY <2>1, HarmlessTwo
  <2>3. IsCard[a] \in BOOLEAN /\ IsCard[t] \in BOOLEAN
    BY LocksAssumption
  <2> QED BY <2>2, <2>3, HarmlessNone
<1> HIDE DEF p1, p2, p3, p4, p5, s1, s2
<1>9. Careful(s1)
  <2>1. 1..5 = {1, 2, 3, 4, 5}
    OBVIOUS
  <2>2. \A i \in 1..5 : /\ Takes(s1[i]) => i = 4
                        /\ \A k \in DOMAIN Past : ~ChecksOp(s1[i], k)
    BY <1>1, <1>5, <1>6, <2>1 DEF NoHarm
  <2>3. \A i \in 1..5 : Takes(s1[i]) =>
           Given(s1[i]) /\ s1[i].x < 0 /\ \E j \in 1..5 : j < i /\ Covers(s1[j], s1[i])
    <3>1. 2 \in 1..5 /\ 2 < 4 /\ Covers(s1[2], s1[4])
      BY <1>4, <1>5
    <3> QED BY <1>3, <1>5, <2>2, <3>1
  <2> QED BY <1>5, <2>2, <2>3 DEF Careful
<1> QED BY <1>7, <1>8, <1>9, CarefulMore

LEMMA AllocateCareful ==
    ASSUME NEW f \in Category, NEW t \in Category, NEW x \in Nat
    PROVE  Careful(Allocate(f, t, x))
<1> DEFINE s1 == <<Check(<<ActiveRow(f)>>, 1), Check(<<ActiveRow(t)>>, 1),
                   Lock(InIdOrder({f, t} \cup (IF f = Unallocated THEN {FxResult} ELSE {})))>>
           s2 == IF f = Unallocated
                 THEN <<Check(<<BudgetRow(f), BudgetRow(FxResult)>>, x)>> ELSE <<>>
           s3 == <<Add(BudgetRow(f), -x), Add(BudgetRow(t), x)>>
<1>1. Harmless(s1)
  BY NoHarmStatements, OtherChecks, HarmlessThree
<1>2. Harmless(s2)
  BY OtherChecks, HarmlessOne, HarmlessNone
<1>3. Harmless(s3)
  <2>1. NoHarm(Add(BudgetRow(f), -x)) /\ NoHarm(Add(BudgetRow(t), x))
    BY NoHarmStatements, GuardedRows
  <2> QED BY <2>1, HarmlessTwo
<1>4. Allocate(f, t, x) = s1 \o s2 \o s3
  BY DEF Allocate
<1> HIDE DEF s1, s2, s3
<1> QED BY <1>1, <1>2, <1>3, <1>4, HarmlessJoin, HarmlessIsCareful

LEMMA ReverseCareful ==
    ASSUME NEW k \in DOMAIN Past
    PROVE  Careful(ReverseOperation(k))
<1> DEFINE op == Past[k]
<1>0. op.account \in Account /\ op.category \in Category /\ op.amount \in Int
  BY RequestsAssumption
<1> HIDE DEF op
<1> DEFINE q1 == Lock(<<OpRow(k)>>)  q2 == Check(<<OpRow(k)>>, 1)
           ch == Check(<<BankRow(op.account)>>, Floor(op.account) + op.amount)
           s1 == <<q1, q2>>
           s2 == IF op.amount > 0 THEN <<ch>> ELSE <<>>
           s3 == IF op.amount > 0 /\ op.category = Unallocated
                 THEN <<Check(<<BudgetRow(Unallocated), BudgetRow(FxResult)>>, op.amount)>>
                 ELSE <<>>
           p1 == Add(OpRow(k), -1)  p2 == Add(BankRow(op.account), -op.amount)
           p3 == Add(BudgetRow(op.category), -op.amount)
           s4 == <<p1, p2, p3>>
<1>1. Careful(s1) /\ \A i \in 1..Len(s1) : ~Takes(s1[i])
  <2>1. IsList(s1) /\ Len(s1) = 2 /\ s1[1] = q1 /\ s1[2] = q2
    BY TuplesAreLists
  <2>2. ~Takes(q1) /\ ~Takes(q2) /\ \A m : ~ChecksOp(q1, m)
    BY Statements DEF Takes, ChecksOp
  <2>3. \A m : ChecksOp(q2, m) => LocksOp(q1, m)
    BY Statements DEF ChecksOp, LocksOp
  <2> HIDE DEF s1, q1, q2
  <2>4. \A i \in 1..2 : ~Takes(s1[i]) /\ \A m : ChecksOp(s1[i], m) =>
            \E j \in 1..2 : j < i /\ LocksOp(s1[j], m)
    <3>1. 1..2 = {1, 2}
      OBVIOUS
    <3> QED BY <2>1, <2>2, <2>3, <3>1
  <2> QED BY <2>1, <2>4 DEF Careful
<1>2. Harmless(s2)
  BY OtherChecks, HarmlessOne, HarmlessNone
<1>3. Harmless(s3)
  BY OtherChecks, HarmlessOne, HarmlessNone
<1>4. IsList(s4) /\ Len(s4) = 3 /\ s4[1] = p1 /\ s4[2] = p2 /\ s4[3] = p3
  BY TuplesAreLists
<1>5. /\ p1.do = "write" /\ p1.rows[1] = OpRow(k) /\ p1.what = "given" /\ p1.sign = 1 /\ p1.x = -1
      /\ p2.do = "write" /\ p2.rows[1] = BankRow(op.account) /\ p2.what = "given" /\ p2.sign = 1
      /\ p2.x = -op.amount
  BY Statements
<1>6. NoHarm(p3)
  BY NoHarmStatements, GuardedRows
<1> DEFINE s23 == s2 \o s3  s == s1 \o s23
<1>7. Harmless(s23)
  BY <1>2, <1>3, HarmlessJoin
<1>8. ReverseOperation(k) = s \o s4
  <2>1. ReverseOperation(k) = s1 \o s2 \o s3 \o s4
    BY DEF ReverseOperation, op
  <2>2. (s1 \o s2) \o s3 = s1 \o (s2 \o s3)
    <3>1. PICK T1 : s1 \in Seq(T1)
      BY <1>1 DEF Careful, IsList
    <3>2. PICK T2 : s2 \in Seq(T2)
      BY <1>2 DEF Harmless, IsList
    <3>3. PICK T3 : s3 \in Seq(T3)
      BY <1>3 DEF Harmless, IsList
    <3> HIDE DEF s1, s2, s3
    <3>4. /\ s1 \in Seq(T1 \cup T2 \cup T3) /\ s2 \in Seq(T1 \cup T2 \cup T3)
          /\ s3 \in Seq(T1 \cup T2 \cup T3)
      BY <3>1, <3>2, <3>3
    <3> QED BY <3>4, ConcatAssociative
  <2> QED BY <2>1, <2>2
<1>9. Len(s1) = 2 /\ s1[2] = q2
  BY TuplesAreLists
<1> HIDE DEF s1, s2, s3, s23, p1, p2, p3, s4, q1, q2, ch
<1>10. /\ Careful(s) /\ \A i \in 1..Len(s) : ~Takes(s[i])
  <2>1. Careful(s)
    BY <1>1, <1>7, CarefulMore
  <2>2. \A i \in 1..Len(s) : ~Takes(s[i])
    BY <1>1, <1>7, JoinFacts DEF Careful, Harmless
  <2> QED BY <2>1, <2>2
<1>11. /\ Len(s) \in Nat /\ 2 \in 1..Len(s) /\ s[2] = q2
       /\ op.amount > 0 => \E j \in 1..Len(s) : s[j] = ch
  <2>1. /\ IsList(s1) /\ IsList(s23) /\ IsList(s2) /\ IsList(s3)
    BY <1>1, <1>2, <1>3, <1>7 DEF Careful, Harmless
  <2>2. /\ Len(s23) \in Nat /\ Len(s) = Len(s1) + Len(s23)
        /\ \A i \in 1..Len(s1) : s[i] = s1[i]
        /\ \A i \in 1..Len(s23) : s[Len(s1) + i] = s23[i]
    BY <2>1, JoinFacts
  <2>3. Len(s) \in Nat /\ 2 \in 1..Len(s) /\ s[2] = q2
    BY <1>9, <2>2
  <2>4. ASSUME op.amount > 0 PROVE \E j \in 1..Len(s) : s[j] = ch
    <3>1. s2 = <<ch>>
      BY <2>4 DEF s2
    <3>2. Len(s2) = 1 /\ s2[1] = ch
      BY <3>1, TuplesAreLists
    <3>3. /\ Len(s3) \in Nat /\ Len(s23) = Len(s2) + Len(s3)
          /\ \A i \in 1..Len(s2) : s23[i] = s2[i]
      BY <2>1, JoinFacts DEF s23
    <3>4. 1 \in 1..Len(s23) /\ s23[1] = ch
      BY <3>2, <3>3
    <3>5. s[2 + 1] = ch /\ 2 + 1 \in 1..Len(s)
      BY <1>9, <2>2, <3>4
    <3> QED BY <3>5
  <2> QED BY <2>3, <2>4
<1> HIDE DEF s
<1>12. Given(p1) /\ p1.x < 0 /\ Covers(q2, p1)
  <2>1. q2.do = "check" /\ q2.rows = <<OpRow(k)>> /\ q2.least = 1
    BY Statements DEF q2
  <2>2. Given(p1) /\ p1.x = -1 /\ p1.rows[1] = OpRow(k) /\ Least(OpRow(k)) = 0
    BY <1>5, GuardedRows DEF Given
  <2> QED BY <2>1, <2>2 DEF Covers
<1>13. Takes(p2) => Given(p2) /\ p2.x < 0 /\ op.amount > 0 /\ Covers(ch, p2)
  <2>1. Given(p2) /\ p2.x = -op.amount /\ p2.rows[1] = BankRow(op.account)
    BY <1>0, <1>5 DEF Given
  <2>2. /\ BankRow(op.account) \notin OpRows /\ Floor(op.account) \in Int
        /\ Least(BankRow(op.account)) = Floor(op.account)
    BY <1>0, GuardedRows
  <2>3. Takes(p2) => op.amount > 0
    BY <1>0, <2>1, <2>2 DEF Takes, Deposits
  <2>4. ch.do = "check" /\ ch.rows = <<BankRow(op.account)>> /\ ch.least = Floor(op.account) + op.amount
    BY Statements DEF ch
  <2>5. Covers(ch, p2)
    BY <1>0, <2>1, <2>2, <2>4 DEF Covers
  <2> QED BY <1>0, <2>1, <2>3, <2>5
<1>14. \A i \in 1..3 : /\ Takes(s4[i]) => (s4[i] = p1 /\ i = 1) \/ (s4[i] = p2 /\ i = 2)
                       /\ \A m : m \in DOMAIN Past => ~ChecksOp(s4[i], m)
  <2>1. 1..3 = {1, 2, 3}
    OBVIOUS
  <2>2. \A m : ~ChecksOp(p1, m) /\ ~ChecksOp(p2, m)
    BY <1>5 DEF ChecksOp
  <2> QED BY <1>4, <1>6, <2>1, <2>2 DEF NoHarm
<1>15. Careful(s \o s4)
  <2>1. ASSUME NEW i \in 1..Len(s4), Takes(s4[i])
        PROVE  /\ Given(s4[i]) /\ s4[i].x < 0
               /\ \E j \in 1..Len(s) : Covers(s[j], s4[i])
    <3>1. CASE s4[i] = p1
      BY <1>11, <1>12, <3>1
    <3>2. CASE s4[i] = p2
      BY <1>11, <1>13, <2>1, <3>2
    <3> QED BY <1>4, <1>14, <2>1, <3>1, <3>2
  <2>2. \A i, j \in 1..Len(s4) :
            Takes(s4[i]) /\ Takes(s4[j]) /\ s4[i].rows[1] = s4[j].rows[1] => i = j
    <3>1. p1.rows[1] # p2.rows[1]
      BY <1>5, GuardedRows
    <3> QED BY <1>4, <1>14, <3>1
  <2>3. \A i \in 1..Len(s4), m \in DOMAIN Past : ~ChecksOp(s4[i], m)
    BY <1>4, <1>14
  <2> QED BY <1>4, <1>10, <2>1, <2>2, <2>3, CarefulJoin
<1> QED BY <1>8, <1>15

LEMMA ArchiveCareful ==
    ASSUME NEW c \in Category
    PROVE  Careful(ArchiveCategory(c))
<1> DEFINE p1 == Check(<<ActiveRow(c)>>, 1)  p2 == Read(BudgetRow(c))
           p3 == AddSeen(BudgetRow(c), -1)  p4 == AddSeen(BudgetRow(Unallocated), 1)
           p5 == Clear(ActiveRow(c))
<1>1. NoHarm(p1) /\ NoHarm(p2) /\ NoHarm(p3) /\ NoHarm(p4) /\ NoHarm(p5)
  BY NoHarmStatements, OtherChecks, GuardedRows
<1>2. ArchiveCategory(c) = <<p1, p2, p3, p4, p5>>
  BY DEF ArchiveCategory
<1> HIDE DEF p1, p2, p3, p4, p5
<1> QED BY <1>1, <1>2, HarmlessFive, HarmlessIsCareful

LEMMA CallCareful ==
    ASSUME NEW req \in Requests
    PROVE  Careful(Program(req))
<1> USE RequestsAssumption DEF Program
<1>1. CASE req.call = "expense"
  BY <1>1, ExpenseCareful
<1>2. CASE req.call = "income"
  BY <1>2, IncomeCareful
<1>3. CASE req.call = "transfer"
  BY <1>3, TransferCareful
<1>4. CASE req.call = "allocate"
  BY <1>4, AllocateCareful
<1>5. CASE req.call = "reverse"
  BY <1>5, ReverseCareful
<1>6. CASE req.call = "archive"
  BY <1>6, ArchiveCareful
<1> QED BY <1>1, <1>2, <1>3, <1>4, <1>5, <1>6

LEMMA StartedCareful ==
    ASSUME NEW req \in Requests
    PROVE  Careful(Started(req))
<1> DEFINE c == [do |-> "commit"]  s == Program(req)
<1>1. NoHarm(c)
  <2>1. c.do = "commit"
    OBVIOUS
  <2> HIDE DEF c
  <2> QED BY <2>1 DEF NoHarm, Takes, ChecksOp
<1>2. Careful(s)
  BY CallCareful
<1>3. Started(req) = s \o <<c>>
  <2>1. PICK T : s \in Seq(T)
    BY ProgramSound DEF IsProgram
  <2> HIDE DEF s, c
  <2>2. Append(s, c) = s \o <<c>>
    <3>1. s \in Seq(T \cup {c}) /\ c \in T \cup {c}
      BY <2>1
    <3> QED BY <3>1
  <2> QED BY <2>2 DEF Started, s, c
<1> HIDE DEF s, c
<1> QED BY <1>1, <1>2, <1>3, HarmlessOne, CarefulMore

(***************************************************************************)
(* What is still to be taken is covered: by a check still to come, or by    *)
(* what the transaction, which holds the row, has compared.                 *)
(***************************************************************************)
SafeTakes(p) ==
    LET s == program[p]
    IN  /\ \A i \in 1..Len(s) : Takes(s[i]) =>
              /\ Given(s[i]) /\ s[i].x < 0
              /\ \/ s[i].rows[1] \in unlocked
                 \/ \E j \in 1..Len(s) : j < i /\ Covers(s[j], s[i])
                 \/ /\ holder[s[i].rows[1]] = p
                    /\ Visible(p, s[i].rows[1]) + s[i].x >= Least(s[i].rows[1])
        /\ \A i, j \in 1..Len(s) :
              Takes(s[i]) /\ Takes(s[j]) /\ s[i].rows[1] = s[j].rows[1] => i = j

\* an operation is compared by who has locked it
SafeChecks(p) ==
    LET s == program[p]
    IN  /\ \A i \in 1..Len(s), k \in DOMAIN Past : ChecksOp(s[i], k) =>
              \/ \E j \in 1..Len(s) : j < i /\ LocksOp(s[j], k)
              \/ holder[OpRow(k)] = p
        /\ \A k \in DOMAIN Past :
              queue[p] # <<>> /\ LocksOp(Current(p), k) => queue[p] = <<OpRow(k)>>

\* and nothing has been taken that was not there
SafeRows(p) ==
    /\ \A r \in Guarded \ unlocked : written[p][r] >= 0 \/ Visible(p, r) >= Least(r)
    /\ \A k \in DOMAIN Past : written[p][OpRow(k)] <= 0

SafeInv ==
    /\ TypeInv
    /\ \A p \in Proc : SafeTakes(p) /\ SafeChecks(p) /\ SafeRows(p)
    /\ \A r \in Guarded \ unlocked : committed[r] >= Least(r)
    /\ \A k \in DOMAIN Past : committed[OpRow(k)] <= 1

LEMMA LeastInt == \A r \in Guarded : Least(r) \in Int
<1> SUFFICES ASSUME NEW r \in Guarded PROVE Least(r) \in Int
  OBVIOUS
<1>1. CASE r \in OpRows
  BY <1>1 DEF Least
<1>2. CASE r \notin OpRows
  <2>1. PICK a \in Account : r = BankRow(a)
    BY <1>2 DEF Guarded
  <2> QED BY <2>1, GuardedRows
<1> QED BY <1>1, <1>2

LEMMA NothingSafe ==
    ASSUME NEW p \in Proc, program[p] = <<>>, written[p] = NoWrites, queue[p] = <<>>
    PROVE  SafeTakes(p) /\ SafeChecks(p) /\ SafeRows(p)
<1>1. Len(program[p]) = 0
  BY EmptySeq
<1>2. \A r \in Guarded : NoWrites[r] = 0
  BY GuardedRows DEF NoWrites
<1>3. SafeRows(p)
  BY <1>2, GuardedRows DEF SafeRows
<1> QED BY <1>1, <1>3 DEF SafeTakes, SafeChecks

LEMMA InitSafe == Init => SafeInv
<1> SUFFICES ASSUME Init PROVE SafeInv
  OBVIOUS
<1>1. \A p \in Proc : SafeTakes(p) /\ SafeChecks(p) /\ SafeRows(p)
  BY NothingSafe DEF Init
<1>2. \A r \in Guarded : committed[r] >= Least(r)
  <2> SUFFICES ASSUME NEW r \in Guarded PROVE committed[r] >= Least(r)
    OBVIOUS
  <2>1. CASE r \in OpRows
    <3>1. PICK k \in DOMAIN Past : r = OpRow(k)
      BY <2>1 DEF OpRows
    <3> QED BY <3>1, GuardedRows, StartAssumption DEF Init
  <2>2. CASE r \notin OpRows
    <3>1. PICK a \in Account : r = BankRow(a) /\ (IsCard[a] \/ IsPersonal[a])
      BY <2>2 DEF Guarded
    <3> QED BY <3>1, GuardedRows, StartAssumption DEF Init
  <2> QED BY <2>1, <2>2
<1>3. \A k \in DOMAIN Past : committed[OpRow(k)] <= 1
  BY StartAssumption DEF Init
<1> QED BY <1>1, <1>2, <1>3, InitTypes DEF SafeInv

\* where the statements that are left were
LEMMA Shifted ==
    ASSUME NEW s, IsList(s), s # <<>>
    PROVE  /\ Head(s) = s[1] /\ 1 \in 1..Len(s) /\ Len(Tail(s)) \in Nat
           /\ \A i \in 1..Len(Tail(s)) :
                 /\ Tail(s)[i] = s[i + 1] /\ i + 1 \in 1..Len(s)
                 /\ \A j \in 1..Len(s) : j < i + 1 =>
                       \/ j = 1
                       \/ j - 1 \in 1..Len(Tail(s)) /\ j - 1 < i /\ s[j] = Tail(s)[j - 1]
<1>1. PICK T : s \in Seq(T)
  BY DEF IsList
<1>2. /\ Head(s) = s[1] /\ Len(s) \in Nat /\ Len(s) # 0 /\ Len(Tail(s)) = Len(s) - 1
      /\ \A i \in 1..Len(Tail(s)) : Tail(s)[i] = s[i + 1]
  BY <1>1, AfterTheFirst
<1> DEFINE n == Len(s)  t == Tail(s)
<1> HIDE DEF n, t
<1>3. n \in Nat /\ n # 0 /\ Len(t) = n - 1 /\ \A i \in 1..Len(t) : t[i] = s[i + 1]
  BY <1>2 DEF n, t
<1>4. \A i \in 1..Len(t) : i + 1 \in 1..n
  BY <1>3
<1>5. ASSUME NEW i \in 1..Len(t), NEW j \in 1..n, j < i + 1, j # 1
      PROVE  j - 1 \in 1..Len(t) /\ j - 1 < i /\ s[j] = t[j - 1]
  <2>1. j - 1 \in 1..Len(t) /\ j - 1 < i /\ (j - 1) + 1 = j
    BY <1>3, <1>5
  <2>2. t[j - 1] = s[(j - 1) + 1]
    BY <1>3, <2>1
  <2> QED BY <2>1, <2>2
<1>6. 1 \in 1..n /\ Len(t) \in Nat
  BY <1>3
<1> QED BY <1>2, <1>3, <1>4, <1>5, <1>6 DEF n, t

\* one more statement is done that takes nothing: the check that covered a
\* withdrawal has found it covered, the lock has been had
LEMMA AdvanceSafe ==
    ASSUME TypeInv, NEW p \in Proc, SafeTakes(p), SafeChecks(p), SafeRows(p),
           Busy(p), Advance(p), committed' = committed, written'[p] = written[p], queue'[p] = <<>>,
           unlocked \subseteq unlocked',
           \A r \in Row : holder[r] = p => holder'[r] = p,
           \A st : Takes(st) /\ Given(st) /\ Covers(Current(p), st) =>
               \/ st.rows[1] \in unlocked'
               \/ /\ holder[st.rows[1]] = p
                  /\ Visible(p, st.rows[1]) + st.x >= Least(st.rows[1]),
           \A k \in DOMAIN Past : LocksOp(Current(p), k) => holder'[OpRow(k)] = p
    PROVE  SafeTakes(p)' /\ SafeChecks(p)' /\ SafeRows(p)'
<1> DEFINE s == program[p]  t == Tail(program[p])
<1>1. program'[p] = t
  BY AdvanceAside DEF TypeInv, TidyInv
<1>2. IsList(s) /\ s # <<>> /\ Current(p) = Head(s)
  BY RunningIsList DEF TypeInv, TidyInv, LocksInv, Busy, Current
<1>3. /\ Head(s) = s[1] /\ 1 \in 1..Len(s) /\ Len(t) \in Nat
      /\ \A i \in 1..Len(t) :
            /\ t[i] = s[i + 1] /\ i + 1 \in 1..Len(s)
            /\ \A j \in 1..Len(s) : j < i + 1 =>
                  \/ j = 1
                  \/ j - 1 \in 1..Len(t) /\ j - 1 < i /\ s[j] = t[j - 1]
  BY <1>2, Shifted
<1>4. \A r \in Row : committed'[r] + written'[p][r] = Visible(p, r)
  BY DEF Visible
<1>11. /\ \A i \in 1..Len(s) : Takes(s[i]) =>
              /\ Given(s[i]) /\ s[i].x < 0
              /\ \/ s[i].rows[1] \in unlocked
                 \/ \E j \in 1..Len(s) : j < i /\ Covers(s[j], s[i])
                 \/ /\ holder[s[i].rows[1]] = p
                    /\ Visible(p, s[i].rows[1]) + s[i].x >= Least(s[i].rows[1])
       /\ \A i, j \in 1..Len(s) :
              Takes(s[i]) /\ Takes(s[j]) /\ s[i].rows[1] = s[j].rows[1] => i = j
  BY DEF SafeTakes
<1>12. \A i \in 1..Len(s), k \in DOMAIN Past : ChecksOp(s[i], k) =>
              \/ \E j \in 1..Len(s) : j < i /\ LocksOp(s[j], k)
              \/ holder[OpRow(k)] = p
  BY DEF SafeChecks
<1> HIDE DEF s, t
<1>5. \A i \in 1..Len(t) : Takes(t[i]) =>
          /\ Given(t[i]) /\ t[i].x < 0
          /\ \/ t[i].rows[1] \in unlocked'
             \/ \E j \in 1..Len(t) : j < i /\ Covers(t[j], t[i])
             \/ /\ holder'[t[i].rows[1]] = p
                /\ committed'[t[i].rows[1]] + written'[p][t[i].rows[1]] + t[i].x >= Least(t[i].rows[1])
  <2> SUFFICES ASSUME NEW i \in 1..Len(t), Takes(t[i])
               PROVE  /\ Given(t[i]) /\ t[i].x < 0
                      /\ \/ t[i].rows[1] \in unlocked'
                         \/ \E j \in 1..Len(t) : j < i /\ Covers(t[j], t[i])
                         \/ /\ holder'[t[i].rows[1]] = p
                            /\ committed'[t[i].rows[1]] + written'[p][t[i].rows[1]] + t[i].x >= Least(t[i].rows[1])
    OBVIOUS
  <2> DEFINE r == t[i].rows[1]
  <2>1. t[i] = s[i + 1] /\ i + 1 \in 1..Len(s)
    BY <1>3
  <2>2. /\ Given(t[i]) /\ t[i].x < 0
        /\ \/ r \in unlocked
           \/ \E j \in 1..Len(s) : j < i + 1 /\ Covers(s[j], t[i])
           \/ holder[r] = p /\ Visible(p, r) + t[i].x >= Least(r)
    <3>1. Takes(s[i + 1])
      BY <2>1
    <3>2. /\ Given(s[i + 1]) /\ s[i + 1].x < 0
          /\ \/ s[i + 1].rows[1] \in unlocked
             \/ \E j \in 1..Len(s) : j < i + 1 /\ Covers(s[j], s[i + 1])
             \/ /\ holder[s[i + 1].rows[1]] = p
                /\ Visible(p, s[i + 1].rows[1]) + s[i + 1].x >= Least(s[i + 1].rows[1])
      BY <1>11, <2>1, <3>1
    <3> QED BY <2>1, <3>2
  <2>3. r \in Row
    BY GuardedRows DEF Takes
  <2> HIDE DEF r
  <2>4. CASE r \in unlocked
    BY <2>2, <2>4 DEF r
  <2>5. CASE holder[r] = p /\ Visible(p, r) + t[i].x >= Least(r)
    BY <1>4, <2>2, <2>3, <2>5 DEF r
  <2>6. ASSUME NEW j \in 1..Len(s), j < i + 1, Covers(s[j], t[i])
        PROVE  \/ r \in unlocked'
               \/ \E m \in 1..Len(t) : m < i /\ Covers(t[m], t[i])
               \/ holder'[r] = p /\ committed'[r] + written'[p][r] + t[i].x >= Least(r)
    <3>1. CASE j = 1
      <4>1. Covers(Current(p), t[i])
        BY <1>2, <1>3, <2>6, <3>1
      <4>2. r \in unlocked' \/ (holder[r] = p /\ Visible(p, r) + t[i].x >= Least(r))
        BY <2>2, <4>1 DEF r
      <4> QED BY <1>4, <2>3, <4>2
    <3>2. CASE j # 1
      <4>1. j - 1 \in 1..Len(t) /\ j - 1 < i /\ s[j] = t[j - 1]
        BY <1>3, <2>6, <3>2
      <4> QED BY <2>6, <4>1
    <3> QED BY <3>1, <3>2
  <2> QED BY <2>2, <2>4, <2>5, <2>6 DEF r
<1>6. \A i, j \in 1..Len(t) :
          Takes(t[i]) /\ Takes(t[j]) /\ t[i].rows[1] = t[j].rows[1] => i = j
  <2> SUFFICES ASSUME NEW i \in 1..Len(t), NEW j \in 1..Len(t), Takes(t[i]), Takes(t[j]),
                      t[i].rows[1] = t[j].rows[1]
               PROVE  i = j
    OBVIOUS
  <2>1. /\ t[i] = s[i + 1] /\ i + 1 \in 1..Len(s)
        /\ t[j] = s[j + 1] /\ j + 1 \in 1..Len(s)
    BY <1>3
  <2>2. i + 1 = j + 1
    BY <1>11, <2>1
  <2> QED BY <1>3, <2>2
<1>7. SafeTakes(p)'
  BY <1>1, <1>5, <1>6 DEF SafeTakes, Visible
<1>8. \A i \in 1..Len(t), k \in DOMAIN Past : ChecksOp(t[i], k) =>
          \/ \E j \in 1..Len(t) : j < i /\ LocksOp(t[j], k)
          \/ holder'[OpRow(k)] = p
  <2> SUFFICES ASSUME NEW i \in 1..Len(t), NEW k \in DOMAIN Past, ChecksOp(t[i], k)
               PROVE  \/ \E j \in 1..Len(t) : j < i /\ LocksOp(t[j], k)
                      \/ holder'[OpRow(k)] = p
    OBVIOUS
  <2>1. t[i] = s[i + 1] /\ i + 1 \in 1..Len(s)
    BY <1>3
  <2>2. \/ \E j \in 1..Len(s) : j < i + 1 /\ LocksOp(s[j], k)
        \/ holder[OpRow(k)] = p
    BY <1>12, <2>1
  <2>3. OpRow(k) \in Row
    BY GuardedRows
  <2>4. ASSUME NEW j \in 1..Len(s), j < i + 1, LocksOp(s[j], k)
        PROVE  \/ \E m \in 1..Len(t) : m < i /\ LocksOp(t[m], k)
               \/ holder'[OpRow(k)] = p
    <3>1. CASE j = 1
      BY <1>2, <1>3, <2>4, <3>1
    <3>2. CASE j # 1
      <4>1. j - 1 \in 1..Len(t) /\ j - 1 < i /\ s[j] = t[j - 1]
        BY <1>3, <2>4, <3>2
      <4> QED BY <2>4, <4>1
    <3> QED BY <3>1, <3>2
  <2> QED BY <2>2, <2>3, <2>4
<1>9. SafeChecks(p)'
  BY <1>1, <1>8 DEF SafeChecks
<1>10. SafeRows(p)'
  <2>1. \A r \in Guarded : r \in Row
    BY GuardedRows
  <2>2. unlocked \subseteq unlocked'
    OBVIOUS
  <2> QED BY <2>1, <2>2 DEF SafeRows, Visible
<1> QED BY <1>7, <1>9, <1>10

\* a plain amount is added as it is
LEMMA DeltaOfGiven ==
    ASSUME NEW p \in Proc, Given(Current(p))
    PROVE  Delta(p) = Current(p).x
<1>1. Delta(p) = 1 * Current(p).x
  BY DEF Delta, Given
<1> QED BY <1>1 DEF Given

\* a write takes from a row what the transaction has compared, or adds to it
LEMMA WriteSafe ==
    ASSUME TypeInv, NEW p \in Proc, SafeTakes(p), SafeChecks(p), SafeRows(p), ApplyDelta(p)
    PROVE  SafeTakes(p)' /\ SafeChecks(p)' /\ SafeRows(p)'
<1> DEFINE s == program[p]  t == Tail(program[p])  row == Current(p).rows[1]  d == Delta(p)
<1>0. TidyInv /\ LocksInv
  BY DEF TypeInv, TidyInv
<1>1. /\ Busy(p) /\ Advance(p) /\ Current(p).do = "write" /\ UNCHANGED <<committed, unlocked, queue>>
      /\ row \in DebtRows \/ holder[row] \in {Nobody, p}
      /\ holder' = IF row \in DebtRows THEN holder ELSE [holder EXCEPT ![row] = p]
      /\ written' \in [Proc -> [Row -> Int]]
  BY <1>0, ApplyKeeps DEF ApplyDelta, Writes, LocksInv
<1>2. /\ program'[p] = t /\ queue'[p] = <<>>
      /\ \A r \in Row : written'[p][r] = IF r = row THEN written[p][r] + d ELSE written[p][r]
  BY <1>0, <1>1, AdvanceAside, ApplyAside, OwnQueue DEF TidyInv
<1>3. IsList(s) /\ s # <<>> /\ Current(p) = Head(s)
  BY <1>0, <1>1, RunningIsList DEF LocksInv, Busy, Current
<1>4. /\ Head(s) = s[1] /\ 1 \in 1..Len(s) /\ Len(t) \in Nat
      /\ \A i \in 1..Len(t) :
            /\ t[i] = s[i + 1] /\ i + 1 \in 1..Len(s)
            /\ \A j \in 1..Len(s) : j < i + 1 =>
                  \/ j = 1
                  \/ j - 1 \in 1..Len(t) /\ j - 1 < i /\ s[j] = t[j - 1]
  BY <1>3, Shifted
<1>5. /\ \A i \in 1..Len(s) : Takes(s[i]) =>
              /\ Given(s[i]) /\ s[i].x < 0
              /\ \/ s[i].rows[1] \in unlocked
                 \/ \E j \in 1..Len(s) : j < i /\ Covers(s[j], s[i])
                 \/ /\ holder[s[i].rows[1]] = p
                    /\ Visible(p, s[i].rows[1]) + s[i].x >= Least(s[i].rows[1])
      /\ \A i, j \in 1..Len(s) :
              Takes(s[i]) /\ Takes(s[j]) /\ s[i].rows[1] = s[j].rows[1] => i = j
  BY DEF SafeTakes
<1>6. \A i \in 1..Len(s), k \in DOMAIN Past : ChecksOp(s[i], k) =>
              \/ \E j \in 1..Len(s) : j < i /\ LocksOp(s[j], k)
              \/ holder[OpRow(k)] = p
  BY DEF SafeChecks
<1>7. \A r \in Row : committed[r] \in Int /\ written[p][r] \in Int
  BY <1>0 DEF LocksInv
<1>8. d \in Int /\ row \in Row
  BY <1>0, <1>1, DeltaIsInt
<1>9. \A r \in Row : holder[r] = p => holder'[r] = p
  BY <1>0, <1>1 DEF LocksInv
\* what the write adds to a guarded row
<1>10. row \in Guarded =>
          \/ d >= 0 /\ row \notin OpRows
          \/ /\ Takes(s[1]) /\ d < 0
             /\ row \in unlocked \/ Visible(p, row) + d >= Least(row)
  <2> SUFFICES ASSUME row \in Guarded
               PROVE  \/ d >= 0 /\ row \notin OpRows
                      \/ /\ Takes(s[1]) /\ d < 0
                         /\ row \in unlocked \/ Visible(p, row) + d >= Least(row)
    OBVIOUS
  <2>1. s[1] = Current(p) /\ s[1].rows[1] = row /\ s[1].do = "write"
    BY <1>1, <1>3, <1>4
  <2>2. CASE Deposits(Current(p))
    <3>1. d = Current(p).x /\ Current(p).x >= 0 /\ row \notin OpRows
      BY <2>2, DeltaOfGiven DEF Deposits
    <3> QED BY <3>1
  <2>3. CASE ~Deposits(Current(p))
    <3>1. Takes(s[1])
      BY <2>1, <2>3 DEF Takes
    <3>2. /\ Given(s[1]) /\ s[1].x < 0
          /\ \/ s[1].rows[1] \in unlocked
             \/ \E j \in 1..Len(s) : j < 1 /\ Covers(s[j], s[1])
             \/ /\ holder[s[1].rows[1]] = p
                /\ Visible(p, s[1].rows[1]) + s[1].x >= Least(s[1].rows[1])
      BY <1>4, <1>5, <3>1
    <3>3. d = s[1].x
      BY <2>1, <3>2, DeltaOfGiven
    <3>4. row \in unlocked \/ Visible(p, row) + d >= Least(row)
      BY <2>1, <3>2, <3>3
    <3> QED BY <3>1, <3>2, <3>3, <3>4
  <2> QED BY <2>2, <2>3
<1>11. \A i \in 1..Len(t) : Takes(t[i]) /\ t[i].rows[1] = row => d >= 0
  <2> SUFFICES ASSUME NEW i \in 1..Len(t), Takes(t[i]), t[i].rows[1] = row PROVE d >= 0
    OBVIOUS
  <2>1. t[i] = s[i + 1] /\ i + 1 \in 1..Len(s) /\ s[1].rows[1] = row
    BY <1>3, <1>4
  <2>2. ~Takes(s[1])
    <3>1. ASSUME Takes(s[1]) PROVE i + 1 = 1
      BY <1>4, <1>5, <2>1, <3>1
    <3> QED BY <3>1
  <2> QED BY <1>10, <2>2 DEF Takes
<1> HIDE DEF s, t, row, d
<1>12. ASSUME NEW i \in 1..Len(t), Takes(t[i])
       PROVE  /\ Given(t[i]) /\ t[i].x < 0
              /\ \/ t[i].rows[1] \in unlocked
                 \/ \E j \in 1..Len(t) : j < i /\ Covers(t[j], t[i])
                 \/ /\ holder'[t[i].rows[1]] = p
                    /\ committed[t[i].rows[1]] + written'[p][t[i].rows[1]] + t[i].x
                          >= Least(t[i].rows[1])
  <2> DEFINE r == t[i].rows[1]
  <2>1. t[i] = s[i + 1] /\ i + 1 \in 1..Len(s) /\ Takes(s[i + 1])
    BY <1>4, <1>12
  <2>2. /\ Given(t[i]) /\ t[i].x < 0
        /\ \/ r \in unlocked
           \/ \E j \in 1..Len(s) : j < i + 1 /\ Covers(s[j], t[i])
           \/ holder[r] = p /\ Visible(p, r) + t[i].x >= Least(r)
    <3>1. /\ Given(s[i + 1]) /\ s[i + 1].x < 0
          /\ \/ s[i + 1].rows[1] \in unlocked
             \/ \E j \in 1..Len(s) : j < i + 1 /\ Covers(s[j], s[i + 1])
             \/ /\ holder[s[i + 1].rows[1]] = p
                /\ Visible(p, s[i + 1].rows[1]) + s[i + 1].x >= Least(s[i + 1].rows[1])
      BY <1>5, <2>1
    <3> QED BY <2>1, <3>1
  <2>3. r \in Row /\ r \in Guarded
    BY <1>12, GuardedRows DEF Takes
  <2>4. t[i].x \in Int /\ Least(r) \in Int
    BY <2>2, <2>3, LeastInt DEF Given
  <2>5. r = row => d >= 0
    BY <1>11, <1>12
  <2> HIDE DEF r
  <2>6. ASSUME holder[r] = p, Visible(p, r) + t[i].x >= Least(r)
        PROVE  holder'[r] = p /\ committed[r] + written'[p][r] + t[i].x >= Least(r)
    <3>1. written'[p][r] \in Int /\ written'[p][r] >= written[p][r]
      BY <1>2, <1>7, <1>8, <2>3, <2>5
    <3> QED BY <1>7, <1>9, <2>3, <2>4, <2>6, <3>1 DEF Visible
  <2>7. ASSUME NEW j \in 1..Len(s), j < i + 1, Covers(s[j], t[i])
        PROVE  \E m \in 1..Len(t) : m < i /\ Covers(t[m], t[i])
    <3>1. j # 1
      BY <1>1, <1>3, <1>4, <2>7 DEF Covers
    <3>2. j - 1 \in 1..Len(t) /\ j - 1 < i /\ s[j] = t[j - 1]
      BY <1>4, <2>7, <3>1
    <3> QED BY <2>7, <3>2
  <2> QED BY <2>2, <2>6, <2>7 DEF r
<1>13. \A i, j \in 1..Len(t) :
          Takes(t[i]) /\ Takes(t[j]) /\ t[i].rows[1] = t[j].rows[1] => i = j
  <2> SUFFICES ASSUME NEW i \in 1..Len(t), NEW j \in 1..Len(t), Takes(t[i]), Takes(t[j]),
                      t[i].rows[1] = t[j].rows[1]
               PROVE  i = j
    OBVIOUS
  <2>1. /\ t[i] = s[i + 1] /\ i + 1 \in 1..Len(s)
        /\ t[j] = s[j + 1] /\ j + 1 \in 1..Len(s)
    BY <1>4
  <2>2. i + 1 = j + 1
    BY <1>5, <2>1
  <2> QED BY <1>4, <2>2
<1>14. SafeTakes(p)'
  BY <1>1, <1>2, <1>12, <1>13 DEF SafeTakes, Visible
<1>15. ASSUME NEW i \in 1..Len(t), NEW k \in DOMAIN Past, ChecksOp(t[i], k)
       PROVE  (\E j \in 1..Len(t) : j < i /\ LocksOp(t[j], k)) \/ holder'[OpRow(k)] = p
  <2>1. t[i] = s[i + 1] /\ i + 1 \in 1..Len(s)
    BY <1>4
  <2>2. (\E j \in 1..Len(s) : j < i + 1 /\ LocksOp(s[j], k)) \/ holder[OpRow(k)] = p
    BY <1>6, <1>15, <2>1
  <2>3. ASSUME NEW j \in 1..Len(s), j < i + 1, LocksOp(s[j], k)
        PROVE  \E m \in 1..Len(t) : m < i /\ LocksOp(t[m], k)
    <3>1. j # 1
      BY <1>1, <1>3, <1>4, <2>3 DEF LocksOp
    <3>2. j - 1 \in 1..Len(t) /\ j - 1 < i /\ s[j] = t[j - 1]
      BY <1>4, <2>3, <3>1
    <3> QED BY <2>3, <3>2
  <2>4. OpRow(k) \in Row
    BY GuardedRows
  <2> QED BY <1>9, <2>2, <2>3, <2>4
<1>16. SafeChecks(p)'
  BY <1>2, <1>15 DEF SafeChecks
<1>17. ASSUME NEW r \in Guarded, r \notin unlocked
       PROVE  written'[p][r] >= 0 \/ committed[r] + written'[p][r] >= Least(r)
  <2>1. r \in Row /\ Least(r) \in Int
    BY GuardedRows, LeastInt
  <2>2. written[p][r] >= 0 \/ Visible(p, r) >= Least(r)
    BY <1>17 DEF SafeRows
  <2>3. CASE r # row
    BY <1>2, <2>1, <2>2, <2>3 DEF Visible
  <2>4. CASE r = row
    <3>1. written'[p][r] = written[p][r] + d
      BY <1>2, <2>1, <2>4
    <3>2. d >= 0 \/ Visible(p, r) + d >= Least(r)
      BY <1>10, <1>17, <2>4
    <3> QED BY <1>7, <1>8, <2>1, <2>2, <3>1, <3>2 DEF Visible
  <2> QED BY <2>3, <2>4
<1>18. ASSUME NEW k \in DOMAIN Past PROVE written'[p][OpRow(k)] <= 0
  <2>1. OpRow(k) \in Row /\ OpRow(k) \in OpRows /\ OpRow(k) \in Guarded
    BY GuardedRows
  <2>2. written[p][OpRow(k)] <= 0
    BY DEF SafeRows
  <2>3. OpRow(k) = row => d < 0
    BY <1>10, <2>1
  <2> QED BY <1>2, <1>7, <1>8, <2>1, <2>2, <2>3
<1>19. SafeRows(p)'
  BY <1>1, <1>17, <1>18 DEF SafeRows, Visible
<1> QED BY <1>14, <1>16, <1>19

\* a connection that does nothing: another one commits, but no row it holds
LEMMA OthersSafe ==
    ASSUME TypeInv, NEW q \in Proc, SafeTakes(q), SafeChecks(q), SafeRows(q),
           program'[q] = program[q], written'[q] = written[q], queue'[q] = queue[q],
           \A r \in Row : holder'[r] = q <=> holder[r] = q,
           unlocked \subseteq unlocked',
           \A r \in Row \ DebtRows : holder[r] = q => committed'[r] = committed[r]
    PROVE  SafeTakes(q)' /\ SafeChecks(q)' /\ SafeRows(q)'
<1> DEFINE s == program[q]
<1>1. \A i \in 1..Len(s) : Takes(s[i]) => s[i].rows[1] \in Row \ DebtRows
  BY GuardedRows DEF Takes
<1>2. SafeTakes(q)'
  <2>1. ASSUME NEW i \in 1..Len(s), Takes(s[i])
        PROVE  /\ Given(s[i]) /\ s[i].x < 0
               /\ \/ s[i].rows[1] \in unlocked'
                  \/ \E j \in 1..Len(s) : j < i /\ Covers(s[j], s[i])
                  \/ /\ holder'[s[i].rows[1]] = q
                     /\ committed'[s[i].rows[1]] + written'[q][s[i].rows[1]] + s[i].x
                           >= Least(s[i].rows[1])
    <3> DEFINE r == s[i].rows[1]
    <3>1. /\ Given(s[i]) /\ s[i].x < 0
          /\ \/ r \in unlocked
             \/ \E j \in 1..Len(s) : j < i /\ Covers(s[j], s[i])
             \/ holder[r] = q /\ Visible(q, r) + s[i].x >= Least(r)
      BY <2>1 DEF SafeTakes
    <3>2. r \in Row \ DebtRows
      BY <1>1, <2>1
    <3> HIDE DEF r, s
    <3>3. ASSUME holder[r] = q, Visible(q, r) + s[i].x >= Least(r)
          PROVE  holder'[r] = q /\ committed'[r] + written'[q][r] + s[i].x >= Least(r)
      BY <3>2, <3>3 DEF Visible
    <3> QED BY <3>1, <3>3 DEF r
  <2>2. \A i, j \in 1..Len(s) :
            Takes(s[i]) /\ Takes(s[j]) /\ s[i].rows[1] = s[j].rows[1] => i = j
    BY DEF SafeTakes
  <2>3. program'[q] = s
    OBVIOUS
  <2> HIDE DEF s
  <2> QED BY <2>1, <2>2, <2>3 DEF SafeTakes, Visible
<1>3. SafeChecks(q)'
  <2>1. \A k \in DOMAIN Past : holder'[OpRow(k)] = q <=> holder[OpRow(k)] = q
    BY GuardedRows
  <2>2. Current(q)' = Current(q)
    BY DEF Current
  <2> QED BY <2>1, <2>2 DEF SafeChecks
<1>4. SafeRows(q)'
  <2>1. ASSUME NEW r \in Guarded, r \notin unlocked'
        PROVE  written'[q][r] >= 0 \/ committed'[r] + written'[q][r] >= Least(r)
    <3>1. r \in Row \ DebtRows /\ r \notin unlocked
      BY <2>1, GuardedRows
    <3>2. written[q][r] >= 0 \/ Visible(q, r) >= Least(r)
      BY <2>1, <3>1 DEF SafeRows
    <3>3. written[q][r] # 0 => committed'[r] = committed[r]
      BY <3>1 DEF TypeInv, TidyInv, LocksInv, WritesAreHeld
    <3> QED BY <3>2, <3>3 DEF Visible
  <2>2. \A k \in DOMAIN Past : written'[q][OpRow(k)] <= 0
    BY DEF SafeRows
  <2> QED BY <2>1, <2>2 DEF SafeRows, Visible
<1> QED BY <1>2, <1>3, <1>4

(***************************************************************************)
(* A check that passes: the row is the holder's own, or counts as decided   *)
(* on without its lock from now on.                                         *)
(***************************************************************************)
LEMMA RowIsFinite == IsFiniteSet({}) /\ \A r : IsFiniteSet({r})
  BY FS_EmptySet, FS_Singleton

LEMMA VisibleOne ==
    ASSUME TypeInv, NEW p \in Proc, NEW r \in Row
    PROVE  VisibleSum(p, <<r>>) = Visible(p, r) /\ Visible(p, r) \in Int
<1> DEFINE v == [x \in Row |-> Visible(p, x)]
<1>1. Visible(p, r) \in Int
  BY DEF TypeInv, TidyInv, LocksInv, Visible
<1>2. ToSet(<<r>>) = {r}
  BY DEF ToSet
<1>3. v[r] = Visible(p, r)
  OBVIOUS
<1>4. VisibleSum(p, <<r>>) = SumFunctionOnSet(v, {r})
  BY <1>2 DEF VisibleSum
<1> HIDE DEF v
<1>5. \A x \in {r} : v[x] = IF x = r THEN Visible(p, r) ELSE 0
  BY <1>3
<1>6. SumFunctionOnSet(v, {r}) = Visible(p, r)
  BY <1>1, <1>5, RowIsFinite, SumOverOne
<1> QED BY <1>1, <1>4, <1>6

LEMMA PassedCheck ==
    ASSUME TypeInv, NEW p \in Proc, SafeChecks(p), CheckBalance(p), Passes(p),
           NEW st, Takes(st), Given(st), Covers(Current(p), st)
    PROVE  \/ st.rows[1] \in unlocked'
           \/ /\ holder[st.rows[1]] = p
              /\ Visible(p, st.rows[1]) + st.x >= Least(st.rows[1])
<1> DEFINE r == st.rows[1]
<1>1. r \in Guarded /\ r \in Row
  BY GuardedRows DEF Takes
<1>2. Busy(p) /\ Current(p).rows = <<r>> /\ Current(p).least \in Int /\ Current(p).do = "check"
      /\ Current(p).least + st.x >= Least(r)
  BY DEF Covers, CheckBalance
<1> HIDE DEF r
<1>3. Visible(p, r) + st.x >= Least(r)
  <2>1. Visible(p, r) >= Current(p).least /\ Visible(p, r) \in Int
    BY <1>1, <1>2, VisibleOne DEF Passes
  <2>2. st.x \in Int /\ Least(r) \in Int
    BY <1>1, LeastInt DEF Given
  <2> QED BY <1>2, <2>1, <2>2
<1>4. CASE r \in OpRows
  <2>1. PICK k \in DOMAIN Past : r = OpRow(k)
    BY <1>4 DEF OpRows
  <2>2. IsList(program[p]) /\ program[p] # <<>>
    BY <1>2, RunningIsList DEF TypeInv, TidyInv, LocksInv, Busy
  <2>3. Current(p) = program[p][1] /\ 1 \in 1..Len(program[p])
    BY <2>2, Shifted DEF Current
  <2>4. ChecksOp(program[p][1], k)
    BY <1>2, <2>1, <2>3 DEF ChecksOp
  <2>5. (\E j \in 1..Len(program[p]) : j < 1 /\ LocksOp(program[p][j], k)) \/ holder[OpRow(k)] = p
    BY <2>3, <2>4 DEF SafeChecks
  <2>6. holder[r] = p
    BY <2>1, <2>5
  <2> QED BY <1>3, <2>6 DEF r
<1>5. CASE r \notin OpRows
  <2>1. r \in BankRows
    BY <1>1, <1>5 DEF Guarded, BankRows
  <2>2. ToSet(<<r>>) = {r}
    BY DEF ToSet
  <2>3. holder[r] # p => r \in unlocked'
    BY <1>2, <2>1, <2>2 DEF CheckBalance
  <2> QED BY <1>3, <2>3 DEF r
<1> QED BY <1>4, <1>5

(***************************************************************************)
(* SELECT ... FOR UPDATE of an operation finds it and locks it.             *)
(***************************************************************************)
LEMMA FoundOperation ==
    ASSUME NEW k \in DOMAIN Past
    PROVE  Found(<<OpRow(k)>>) = <<OpRow(k)>> /\ Present(OpRow(k))
<1> DEFINE r == OpRow(k)  rows == <<r>>
           at == {n \in DOMAIN rows : Present(rows[n])}
           nth(m) == rows[CHOOSE n \in at : Cardinality(at \cap 1..n) = m]
<1>1. Present(r)
  BY DEF Present, OpRow, BankRows, BudgetRows, BankRow, BudgetRow
<1>2. DOMAIN rows = 1..1 /\ rows[1] = r
  OBVIOUS
<1> HIDE DEF r, rows
<1>3. at = {1}
  BY <1>1, <1>2
<1>4. Cardinality({1}) = 1 /\ {1} \cap 1..1 = {1}
  BY FS_Singleton
<1>5. (CHOOSE n \in at : Cardinality(at \cap 1..n) = 1) = 1
  BY <1>3, <1>4
<1>6. Found(rows) = [m \in 1..Cardinality(at) |-> nth(m)]
  BY DEF Found
<1>7. nth(1) = r
  BY <1>2, <1>5
<1> HIDE DEF nth
<1>8. Found(rows) = [m \in 1..1 |-> nth(m)]
  BY <1>3, <1>4, <1>6
<1>9. [m \in 1..1 |-> nth(m)] = <<nth(1)>>
  OBVIOUS
<1> QED BY <1>1, <1>7, <1>8, <1>9 DEF r, rows

LEMMA LockSafe ==
    ASSUME TypeInv, NEW p \in Proc, SafeTakes(p), SafeChecks(p), SafeRows(p),
           StartLocking(p) \/ LockRow(p)
    PROVE  SafeTakes(p)' /\ SafeChecks(p)' /\ SafeRows(p)'
<1>0. TidyInv /\ LocksInv
  BY DEF TypeInv, TidyInv
<1>1. /\ Busy(p) /\ Current(p).do = "lock" /\ UNCHANGED <<committed, written, unlocked>>
      /\ \A r \in Row : holder[r] = p => holder'[r] = p
  <2>1. CASE StartLocking(p)
    BY <2>1 DEF StartLocking
  <2>2. CASE LockRow(p)
    <3> DEFINE h == Head(queue[p])
    <3> HIDE DEF h
    <3>1. holder' = holder \/ holder' = [holder EXCEPT ![h] = p]
      BY <2>2 DEF LockRow, h
    <3>2. \A r \in Row : holder[r] = p => holder'[r] = p
      BY <1>0, <3>1 DEF LocksInv
    <3>3. Busy(p) /\ Current(p).do = "lock"
      BY <1>0, <2>2, LockRowShape
    <3> QED BY <2>2, <3>2, <3>3 DEF LockRow
  <2> QED BY <2>1, <2>2
<1>2. ASSUME NEW k \in DOMAIN Past, LocksOp(Current(p), k)
      PROVE  /\ StartLocking(p) => queue'[p] = <<OpRow(k)>> /\ program' = program
             /\ LockRow(p) => /\ queue'[p] = <<>> /\ Advance(p) /\ holder'[OpRow(k)] = p
  <2>1. Current(p).rows = <<OpRow(k)>>
    BY <1>2 DEF LocksOp
  <2>2. ASSUME StartLocking(p) PROVE queue'[p] = <<OpRow(k)>> /\ program' = program
    <3>1. Found(Current(p).rows) = <<OpRow(k)>> /\ <<OpRow(k)>> # <<>>
      BY <2>1, FoundOperation
    <3>2. DOMAIN queue = Proc
      BY <1>0 DEF TidyInv, QueueInv
    <3> QED BY <2>2, <3>1, <3>2 DEF StartLocking
  <2>3. ASSUME LockRow(p) PROVE queue'[p] = <<>> /\ Advance(p) /\ holder'[OpRow(k)] = p
    <3>1. queue[p] # <<>>
      BY <2>3 DEF LockRow
    <3>2. queue[p] = <<OpRow(k)>>
      BY <1>2, <3>1 DEF SafeChecks
    <3>3. Head(queue[p]) = OpRow(k) /\ Tail(queue[p]) = <<>> /\ OpRow(k) \in Row
      BY <3>2, GuardedRows
    <3>4. Present(OpRow(k))
      BY FoundOperation
    <3>5. holder' = [holder EXCEPT ![OpRow(k)] = p]
      BY <2>3, <3>3, <3>4 DEF LockRow
    <3>6. holder'[OpRow(k)] = p
      BY <1>0, <3>3, <3>5 DEF LocksInv
    <3>7. queue'[p] = <<>> /\ Advance(p)
      BY <1>0, <2>3, <3>3, LockRowShape
    <3> QED BY <3>6, <3>7
  <2> QED BY <2>2, <2>3
<1>3. CASE Advance(p) /\ queue'[p] = <<>>
  <2>1. \A st : ~Covers(Current(p), st)
    BY <1>1 DEF Covers
  <2>2. \A k \in DOMAIN Past : LocksOp(Current(p), k) => holder'[OpRow(k)] = p
    <3> SUFFICES ASSUME NEW k \in DOMAIN Past, LocksOp(Current(p), k) PROVE holder'[OpRow(k)] = p
      OBVIOUS
    <3>1. StartLocking(p) => <<OpRow(k)>> = <<>>
      BY <1>2, <1>3
    <3>2. <<OpRow(k)>> # <<>>
      OBVIOUS
    <3> QED BY <1>2, <3>1, <3>2
  <2> QED BY <1>1, <1>3, <2>1, <2>2, AdvanceSafe
<1>4. CASE program' = program /\ (queue'[p] # <<>> \/ ~Advance(p))
  <2>1. \A k \in DOMAIN Past :
           queue'[p] # <<>> /\ LocksOp(Current(p), k) => queue'[p] = <<OpRow(k)>>
    BY <1>2
  <2>2. Current(p)' = Current(p)
    BY <1>4 DEF Current
  <2>3. SafeTakes(p)'
    <3> DEFINE s == program[p]
    <3>1. \A i \in 1..Len(s) : Takes(s[i]) => s[i].rows[1] \in Row
      BY GuardedRows DEF Takes
    <3> QED BY <1>1, <1>4, <3>1 DEF SafeTakes, Visible
  <2>4. SafeChecks(p)'
    <3>1. \A k \in DOMAIN Past : OpRow(k) \in Row
      BY GuardedRows
    <3> QED BY <1>1, <1>4, <2>1, <2>2, <3>1 DEF SafeChecks
  <2>5. SafeRows(p)'
    BY <1>1 DEF SafeRows, Visible
  <2> QED BY <2>3, <2>4, <2>5
<1>5. (Advance(p) /\ queue'[p] = <<>>) \/ (program' = program /\ (queue'[p] # <<>> \/ ~Advance(p)))
  <2>1. CASE StartLocking(p)
    <3>1. DOMAIN queue = Proc
      BY <1>0 DEF TidyInv, QueueInv
    <3>2. CASE Found(Current(p).rows) = <<>>
      BY <2>1, <3>2 DEF StartLocking
    <3>3. CASE Found(Current(p).rows) # <<>>
      BY <2>1, <3>1, <3>3 DEF StartLocking
    <3> QED BY <3>2, <3>3
  <2>2. CASE LockRow(p)
    BY <1>0, <2>2, LockRowShape
  <2> QED BY <2>1, <2>2
<1> QED BY <1>3, <1>4, <1>5

LEMMA EndSafe ==
    ASSUME NEW p \in Proc, program'[p] = <<>>, written'[p] = NoWrites, queue'[p] = <<>>
    PROVE  SafeTakes(p)' /\ SafeChecks(p)' /\ SafeRows(p)'
<1>1. Len(program'[p]) = 0
  BY EmptySeq
<1>2. \A r \in Guarded : NoWrites[r] = 0
  BY GuardedRows DEF NoWrites
<1>3. SafeRows(p)'
  BY <1>2, GuardedRows DEF SafeRows
<1>4. SafeTakes(p)'
  BY <1>1 DEF SafeTakes
<1>5. SafeChecks(p)'
  BY <1>1 DEF SafeChecks
<1> QED BY <1>3, <1>4, <1>5

LEMMA StepSafe ==
    ASSUME SafeInv, NEW p \in Proc, Step(p)
    PROVE  SafeTakes(p)' /\ SafeChecks(p)' /\ SafeRows(p)'
<1>0. /\ TypeInv /\ TidyInv /\ LocksInv /\ SafeTakes(p) /\ SafeChecks(p) /\ SafeRows(p)
  BY DEF SafeInv, TypeInv, TidyInv
<1>1. CASE StartLocking(p) \/ LockRow(p)
  BY <1>0, <1>1, LockSafe
<1>2. ASSUME EndTransaction(p) PROVE SafeTakes(p)' /\ SafeChecks(p)' /\ SafeRows(p)'
  <2>1. program'[p] = <<>> /\ written'[p] = NoWrites /\ queue'[p] = <<>>
    BY <1>0, <1>2, EndAside
  <2> QED BY <2>1, EndSafe
<1>3. CASE CheckBalance(p)
  <2>1. CASE Passes(p)
    <3>1. /\ Busy(p) /\ Advance(p) /\ Current(p).do = "check"
          /\ UNCHANGED <<committed, holder, queue, written>> /\ unlocked \subseteq unlocked'
      BY <1>3, <2>1 DEF CheckBalance
    <3>2. queue'[p] = <<>>
      BY <1>0, <3>1, OwnQueue DEF TidyInv
    <3>3. \A k \in DOMAIN Past : ~LocksOp(Current(p), k)
      BY <3>1 DEF LocksOp
    <3> QED BY <1>0, <1>3, <2>1, <3>1, <3>2, <3>3, PassedCheck, AdvanceSafe
  <2>2. CASE ~Passes(p)
    BY <1>2, <1>3, <2>2 DEF CheckBalance
  <2> QED BY <2>1, <2>2
<1>4. CASE ReadValue(p) \/ SkipZero(p)
  <2>1. /\ Busy(p) /\ Advance(p) /\ Current(p).do \in {"read", "write"}
        /\ UNCHANGED <<committed, holder, queue, written, unlocked>>
    BY <1>4 DEF ReadValue, SkipZero
  <2>2. queue'[p] = <<>>
    BY <1>0, <2>1, OwnQueue DEF TidyInv
  <2>3. (\A k \in DOMAIN Past : ~LocksOp(Current(p), k)) /\ \A st : ~Covers(Current(p), st)
    BY <2>1 DEF LocksOp, Covers
  <2> QED BY <1>0, <2>1, <2>2, <2>3, AdvanceSafe
<1>5. CASE ApplyDelta(p)
  BY <1>0, <1>5, WriteSafe
<1> QED BY <1>1, <1>2, <1>3, <1>4, <1>5 DEF Step, Commit, AbortDeadlocked

LEMMA BeginSafe ==
    ASSUME SafeInv, NEW p \in Proc, NEW req \in Requests, Begin(p, req)
    PROVE  SafeTakes(p)' /\ SafeChecks(p)' /\ SafeRows(p)'
<1> DEFINE s == Started(req)
<1>1. /\ program'[p] = s /\ written'[p] = NoWrites /\ queue'[p] = <<>>
  BY BeginAside DEF SafeInv, TypeInv
<1>2. Careful(s)
  BY StartedCareful
<1> HIDE DEF s
<1>3. SafeTakes(p)'
  BY <1>1, <1>2 DEF SafeTakes, Careful
<1>4. SafeChecks(p)'
  BY <1>1, <1>2 DEF SafeChecks, Careful
<1>5. \A r \in Guarded : NoWrites[r] = 0
  BY GuardedRows DEF NoWrites
<1>6. SafeRows(p)'
  BY <1>1, <1>5, GuardedRows DEF SafeRows
<1> QED BY <1>3, <1>4, <1>6

\* what is committed is what the transaction has made sure of
LEMMA CommittedSafe ==
    ASSUME SafeInv, NEW p \in Proc, Commit(p)
    PROVE  /\ \A r \in Guarded \ unlocked' : committed'[r] >= Least(r)
           /\ \A k \in DOMAIN Past : committed'[OpRow(k)] <= 1
<1>1. committed' = [r \in Row |-> committed[r] + written[p][r]] /\ unlocked' = unlocked
  BY DEF Commit
<1>2. SafeRows(p)
  BY DEF SafeInv
<1>3. committed \in [Row -> Int] /\ written[p] \in [Row -> Int]
  BY DEF SafeInv, TypeInv, TidyInv, LocksInv
<1>4. ASSUME NEW r \in Guarded \ unlocked PROVE committed'[r] >= Least(r)
  <2>1. r \in Row /\ Least(r) \in Int /\ committed[r] \in Int /\ written[p][r] \in Int
    BY <1>3, GuardedRows, LeastInt
  <2>2. committed[r] >= Least(r) /\ (written[p][r] >= 0 \/ committed[r] + written[p][r] >= Least(r))
    BY <1>2 DEF SafeInv, SafeRows, Visible
  <2> QED BY <1>1, <2>1, <2>2
<1>5. ASSUME NEW k \in DOMAIN Past PROVE committed'[OpRow(k)] <= 1
  <2>1. OpRow(k) \in Row
    BY GuardedRows
  <2>2. committed[OpRow(k)] <= 1 /\ written[p][OpRow(k)] <= 0
    BY <1>2 DEF SafeInv, SafeRows
  <2> QED BY <1>1, <1>3, <2>1, <2>2
<1> QED BY <1>1, <1>4, <1>5

LEMMA NextSafe == SafeInv /\ [Next]_vars => SafeInv'
<1> SUFFICES ASSUME SafeInv, [Next]_vars PROVE SafeInv'
  OBVIOUS
<1>0. TypeInv /\ TypeInv' /\ TidyInv /\ LocksInv
  BY NextTypes DEF SafeInv, TypeInv, TidyInv
<1>1. ASSUME NEW p \in Proc, Aside(p), unlocked \subseteq unlocked',
             \A q \in Proc \ {p} : \A r \in Row \ DebtRows : holder[r] = q => committed'[r] = committed[r],
             SafeTakes(p)' /\ SafeChecks(p)' /\ SafeRows(p)'
      PROVE  \A q \in Proc : SafeTakes(q)' /\ SafeChecks(q)' /\ SafeRows(q)'
  <2> TAKE q \in Proc
  <2>1. CASE q = p
    BY <1>1, <2>1
  <2>2. CASE q # p
    <3>1. /\ program'[q] = program[q] /\ queue'[q] = queue[q] /\ written'[q] = written[q]
          /\ \A r \in Row : holder'[r] = q <=> holder[r] = q
      BY <1>1, <2>2 DEF Aside
    <3>2. SafeTakes(q) /\ SafeChecks(q) /\ SafeRows(q)
      BY DEF SafeInv
    <3> QED BY <1>0, <1>1, <2>2, <3>1, <3>2, OthersSafe
  <2> QED BY <2>1, <2>2
<1>2. ASSUME NEW p \in Proc, NEW req \in Requests, Begin(p, req) PROVE SafeInv'
  <2>1. Aside(p) /\ UNCHANGED <<committed, unlocked>>
    BY <1>0, <1>2, BeginAside
  <2>2. \A q \in Proc : SafeTakes(q)' /\ SafeChecks(q)' /\ SafeRows(q)'
    BY <1>1, <1>2, <2>1, BeginSafe
  <2> QED BY <1>0, <2>1, <2>2 DEF SafeInv
<1>3. ASSUME NEW p \in Proc, Commit(p) PROVE SafeInv'
  <2>1. Step(p) /\ unlocked' = unlocked
    BY <1>3 DEF Step, Commit
  <2>2. Aside(p)
    BY <1>0, <2>1, StepTidy
  <2>3. ASSUME NEW q \in Proc \ {p}, NEW r \in Row \ DebtRows, holder[r] = q
        PROVE  committed'[r] = committed[r]
    <3>1. written[p][r] = 0
      BY <1>0, <2>3 DEF LocksInv, WritesAreHeld
    <3>2. committed'[r] = committed[r] + written[p][r] /\ committed[r] \in Int
      BY <1>0, <1>3 DEF Commit, LocksInv
    <3> QED BY <3>1, <3>2
  <2>4. \A q \in Proc : SafeTakes(q)' /\ SafeChecks(q)' /\ SafeRows(q)'
    BY <1>1, <2>1, <2>2, <2>3, StepSafe
  <2> QED BY <1>0, <1>3, <2>4, CommittedSafe DEF SafeInv
<1>4. ASSUME NEW p \in Proc, Step(p), ~Commit(p) PROVE SafeInv'
  <2>1. committed' = committed /\ unlocked \subseteq unlocked'
    BY <1>4 DEF Step, StartLocking, LockRow, CheckBalance, ReadValue, ApplyDelta, SkipZero,
                AbortDeadlocked
  <2>2. Aside(p)
    BY <1>0, <1>4, StepTidy
  <2>3. \A q \in Proc : SafeTakes(q)' /\ SafeChecks(q)' /\ SafeRows(q)'
    BY <1>1, <1>4, <2>1, <2>2, StepSafe
  <2> QED BY <1>0, <2>1, <2>3 DEF SafeInv
<1>5. CASE UNCHANGED vars
  <2>1. /\ \A q \in Proc : SafeTakes(q) /\ SafeChecks(q) /\ SafeRows(q)
        /\ \A r \in Guarded \ unlocked : committed[r] >= Least(r)
        /\ \A k \in DOMAIN Past : committed[OpRow(k)] <= 1
    BY DEF SafeInv
  <2>2. \A q \in Proc : SafeTakes(q)' /\ SafeChecks(q)' /\ SafeRows(q)'
    BY <1>5, <2>1 DEF vars, SafeTakes, SafeChecks, SafeRows, Visible, Current
  <2> QED BY <1>0, <1>5, <2>1, <2>2 DEF vars, SafeInv
<1> QED BY <1>2, <1>3, <1>4, <1>5 DEF Next

LEMMA AlwaysSafe == Spec => []SafeInv
  BY InitSafe, NextSafe, PTL DEF Spec

\* A card goes past its limit and a person's cash below zero only where some
\* function has compared the balance without holding its row: FOR UPDATE on the
\* row, the comparison and the withdrawal leave no other way, whatever calls
\* run at once and however they interleave.
THEOREM OverdraftOnlyUnlocked == Spec => []OverdraftNeedsUnlockedCheck
<1>1. SafeInv => OverdraftNeedsUnlockedCheck
  BY GuardedRows DEF SafeInv, OverdraftNeedsUnlockedCheck
<1> QED BY <1>1, AlwaysSafe, PTL

\* However many cancels of an operation run at once, one of them undoes it: the
\* row of the operation is always there to be locked, so the check that follows
\* sees what the cancel before has committed.
THEOREM ReversedOnce == Spec => []OperationsReversedOnce
<1>1. SafeInv => OperationsReversedOnce
  <2> SUFFICES ASSUME SafeInv, NEW k \in DOMAIN Past PROVE committed[OpRow(k)] \in {0, 1}
    BY DEF OperationsReversedOnce
  <2>1. OpRow(k) \in Row /\ committed[OpRow(k)] \in Int
    BY GuardedRows DEF SafeInv, TypeInv, TidyInv, LocksInv
  <2>2. OpRow(k) \notin unlocked
    BY DEF SafeInv, TypeInv, BankRows, BudgetRows, BankRow, BudgetRow, OpRow
  <2>3. committed[OpRow(k)] >= 0 /\ committed[OpRow(k)] <= 1
    BY <2>2, GuardedRows DEF SafeInv
  <2> QED BY <2>1, <2>3
<1> QED BY <1>1, AlwaysSafe, PTL

(***************************************************************************)
(* The free budget, Unallocated with FX Result.  Every call that takes from *)
(* it compares it first, except a repayment of a card and an archiving,     *)
(* which take what a debt or another category holds.                        *)
(***************************************************************************)
FreeRow   == BudgetRow(Unallocated)
ResultRow == BudgetRow(FxResult)

\* Nobody repays a card or archives a category.  An expense falls on a regular
\* category (put__record_expense) and no allocation takes from FX Result
\* (put__allocate_budget); no entry of FX Result is there to be cancelled, and
\* the free budget is not overdrawn at the start.
FreeBudgetCalls ==
    /\ \A req \in Requests :
          /\ req.call # "archive"
          /\ req.call = "transfer" => IsCard[req.account] \/ ~IsCard[req.target]
          /\ req.call = "expense" => req.category \notin {Unallocated, FxResult}
          /\ req.call = "allocate" => req.source # FxResult
    /\ \A k \in DOMAIN Past : Past[k].category # FxResult
    /\ InitialValue[FreeRow] + InitialValue[ResultRow] >= 0

\* st may be executed where the free budget changes by b at least, if after it
\* it changes by e at least; a check makes sure of e
Spares(st, b, e) ==
    IF st.do = "check" /\ st.rows = <<FreeRow, ResultRow>>
    THEN st.least \in Int /\ -st.least <= e
    ELSE IF st.do = "write" /\ st.rows[1] \in {FreeRow, ResultRow}
    THEN \/ Given(st) /\ b <= st.x + e /\ (st.rows[1] = ResultRow => st.x >= 0)
         \/ st.what = "beyond" /\ st.sign = 1 /\ st.x \in Nat /\ st.rows[1] = FreeRow /\ b <= e
    ELSE b <= e

SparesAll(s, b, e) ==
    \E w : /\ w \in [1..(Len(s) + 1) -> Int]
           /\ w[1] = b /\ w[Len(s) + 1] = e
           /\ \A i \in 1..Len(s) : Spares(s[i], w[i], w[i + 1])

LEMMA SparesJoin ==
    ASSUME NEW s, NEW t, IsList(s), IsList(t), NEW b, NEW c, NEW e,
           SparesAll(s, b, c), SparesAll(t, c, e)
    PROVE  SparesAll(s \o t, b, e)
<1> DEFINE n == Len(s)  m == Len(t)  u == s \o t
<1>1. PICK w1 : /\ w1 \in [1..(n + 1) -> Int] /\ w1[1] = b /\ w1[n + 1] = c
                /\ \A i \in 1..n : Spares(s[i], w1[i], w1[i + 1])
  BY DEF SparesAll
<1>2. PICK w2 : /\ w2 \in [1..(m + 1) -> Int] /\ w2[1] = c /\ w2[m + 1] = e
                /\ \A i \in 1..m : Spares(t[i], w2[i], w2[i + 1])
  BY DEF SparesAll
<1>3. /\ n \in Nat /\ m \in Nat /\ Len(u) = n + m
      /\ \A i \in 1..n : u[i] = s[i]
      /\ \A i \in 1..(n + m) : i \in 1..n \/ (i - n \in 1..m /\ u[i] = t[i - n])
  BY JoinFacts
<1> HIDE DEF n, m, u
<1> DEFINE w == [i \in 1..(n + m + 1) |-> IF i <= n THEN w1[i] ELSE w2[i - n]]
<1>4. w \in [1..(n + m + 1) -> Int]
  BY <1>1, <1>2, <1>3
<1>5. w[1] = b /\ w[n + m + 1] = e
  BY <1>1, <1>2, <1>3
<1>6. \A i \in 1..(n + m) : Spares(u[i], w[i], w[i + 1])
  <2> SUFFICES ASSUME NEW i \in 1..(n + m) PROVE Spares(u[i], w[i], w[i + 1])
    OBVIOUS
  <2>1. CASE i < n
    <3>1. w[i] = w1[i] /\ w[i + 1] = w1[i + 1] /\ u[i] = s[i] /\ i \in 1..n
      BY <1>3, <2>1
    <3> QED BY <1>1, <3>1
  <2>2. CASE i = n
    <3>1. w[i] = w1[n] /\ w[i + 1] = w2[1] /\ u[i] = s[n] /\ n \in 1..n
      BY <1>3, <2>2
    <3>2. w[i + 1] = w1[n + 1]
      BY <1>1, <1>2, <3>1
    <3> QED BY <1>1, <3>1, <3>2
  <2>3. CASE i > n
    <3>1. /\ w[i] = w2[i - n] /\ w[i + 1] = w2[(i - n) + 1] /\ u[i] = t[i - n] /\ i - n \in 1..m
      BY <1>3, <2>3
    <3> QED BY <1>2, <3>1
  <2> QED BY <1>3, <2>1, <2>2, <2>3
<1> HIDE DEF w
<1>7. SparesAll(u, b, e)
  BY <1>3, <1>4, <1>5, <1>6 DEF SparesAll
<1> QED BY <1>7 DEF u

LEMMA SparesTail ==
    ASSUME NEW s, IsList(s), s # <<>>, NEW b, NEW e, SparesAll(s, b, e)
    PROVE  \E c \in Int : b \in Int /\ Spares(Head(s), b, c) /\ SparesAll(Tail(s), c, e)
<1> DEFINE n == Len(s)
<1>1. PICK T : s \in Seq(T)
  BY DEF IsList
<1>2. /\ Head(s) = s[1] /\ n \in Nat /\ n # 0 /\ Len(Tail(s)) = n - 1
      /\ \A i \in 1..Len(Tail(s)) : Tail(s)[i] = s[i + 1]
  BY <1>1, AfterTheFirst
<1>3. PICK w : /\ w \in [1..(n + 1) -> Int] /\ w[1] = b /\ w[n + 1] = e
               /\ \A i \in 1..n : Spares(s[i], w[i], w[i + 1])
  BY DEF SparesAll
<1> HIDE DEF n
<1> DEFINE u == [i \in 1..n |-> w[i + 1]]
<1>4. b \in Int /\ w[2] \in Int /\ Spares(Head(s), b, w[2])
  <2>1. 1 \in 1..n /\ 1 + 1 = 2 /\ 1 \in 1..(n + 1) /\ 2 \in 1..(n + 1)
    BY <1>2
  <2>2. w[1] \in Int /\ w[2] \in Int
    BY <1>3, <2>1
  <2>3. Spares(s[1], w[1], w[1 + 1])
    BY <1>3, <2>1
  <2>4. Spares(s[1], w[1], w[2])
    BY <2>1, <2>3
  <2> QED BY <1>2, <1>3, <2>2, <2>4
<1>5. u \in [1..((n - 1) + 1) -> Int] /\ u[1] = w[2] /\ u[(n - 1) + 1] = e
  BY <1>2, <1>3
<1>6. \A i \in 1..(n - 1) : Spares(Tail(s)[i], u[i], u[i + 1])
  <2> SUFFICES ASSUME NEW i \in 1..(n - 1) PROVE Spares(Tail(s)[i], u[i], u[i + 1])
    OBVIOUS
  <2>1. /\ i + 1 \in 1..n /\ u[i] = w[i + 1] /\ u[i + 1] = w[(i + 1) + 1]
        /\ Tail(s)[i] = s[i + 1]
    BY <1>2
  <2> QED BY <2>1, <1>3
<1> HIDE DEF u
<1>7. SparesAll(Tail(s), w[2], e)
  BY <1>2, <1>5, <1>6 DEF SparesAll
<1> QED BY <1>4, <1>7

LEMMA SparesNothing ==
    /\ \A b \in Int : SparesAll(<<>>, b, b)
    /\ \A b, e : SparesAll(<<>>, b, e) => b = e
<1> DEFINE s == <<>>
<1>1. Len(s) = 0
  BY EmptySeq
<1> HIDE DEF s
<1>2. ASSUME NEW b \in Int PROVE SparesAll(s, b, b)
  <2> DEFINE w == [i \in 1..1 |-> b]
  <2>1. w \in [1..(0 + 1) -> Int] /\ w[1] = b /\ w[0 + 1] = b
    OBVIOUS
  <2> HIDE DEF w
  <2> QED BY <1>1, <2>1 DEF SparesAll
<1>3. \A b, e : SparesAll(s, b, e) => b = e
  BY <1>1 DEF SparesAll
<1> QED BY <1>2, <1>3 DEF s

LEMMA SparesOne ==
    ASSUME NEW a, NEW b \in Int, NEW e \in Int, Spares(a, b, e)
    PROVE  SparesAll(<<a>>, b, e)
<1> DEFINE w == [i \in 1..2 |-> IF i = 1 THEN b ELSE e]  s == <<a>>
<1>1. /\ Len(s) = 1 /\ s[1] = a
      /\ w \in [1..(1 + 1) -> Int] /\ w[1] = b /\ w[1 + 1] = e
  OBVIOUS
<1> HIDE DEF w, s
<1>2. \A i \in 1..1 : Spares(s[i], w[i], w[i + 1])
  <2>1. 1..1 = {1}
    OBVIOUS
  <2>2. Spares(s[1], w[1], w[1 + 1])
    BY <1>1
  <2> QED BY <2>1, <2>2
<1>3. SparesAll(s, b, e)
  BY <1>1, <1>2 DEF SparesAll
<1> QED BY <1>3 DEF s

LEMMA SparesTwo ==
    ASSUME NEW a1, NEW a2, NEW b \in Int, NEW c \in Int, NEW e \in Int,
           Spares(a1, b, c), Spares(a2, c, e)
    PROVE  SparesAll(<<a1, a2>>, b, e)
<1> DEFINE w == [i \in 1..3 |-> IF i = 1 THEN b ELSE IF i = 2 THEN c ELSE e]  s == <<a1, a2>>
<1>1. /\ Len(s) = 2 /\ s[1] = a1 /\ s[2] = a2
      /\ w \in [1..(2 + 1) -> Int] /\ w[1] = b /\ w[1 + 1] = c /\ w[2] = c /\ w[2 + 1] = e
  OBVIOUS
<1> HIDE DEF w, s
<1>2. \A i \in 1..2 : Spares(s[i], w[i], w[i + 1])
  <2>1. 1..2 = {1, 2}
    OBVIOUS
  <2>2. Spares(s[1], w[1], w[1 + 1]) /\ Spares(s[2], w[2], w[2 + 1])
    BY <1>1
  <2> QED BY <2>1, <2>2
<1>3. SparesAll(s, b, e)
  BY <1>1, <1>2 DEF SparesAll
<1> QED BY <1>3 DEF s

LEMMA SparesThree ==
    ASSUME NEW a1, NEW a2, NEW a3, NEW b \in Int, NEW c \in Int, NEW d \in Int, NEW e \in Int,
           Spares(a1, b, c), Spares(a2, c, d), Spares(a3, d, e)
    PROVE  SparesAll(<<a1, a2, a3>>, b, e)
<1> DEFINE w == [i \in 1..4 |-> IF i = 1 THEN b ELSE IF i = 2 THEN c ELSE IF i = 3 THEN d ELSE e]
           s == <<a1, a2, a3>>
<1>1. /\ Len(s) = 3 /\ s[1] = a1 /\ s[2] = a2 /\ s[3] = a3
      /\ w \in [1..(3 + 1) -> Int] /\ w[1] = b /\ w[1 + 1] = c /\ w[2] = c /\ w[2 + 1] = d
      /\ w[3] = d /\ w[3 + 1] = e
  OBVIOUS
<1> HIDE DEF w, s
<1>2. \A i \in 1..3 : Spares(s[i], w[i], w[i + 1])
  <2>1. 1..3 = {1, 2, 3}
    OBVIOUS
  <2>2. /\ Spares(s[1], w[1], w[1 + 1]) /\ Spares(s[2], w[2], w[2 + 1])
        /\ Spares(s[3], w[3], w[3 + 1])
    BY <1>1
  <2> QED BY <2>1, <2>2
<1>3. SparesAll(s, b, e)
  BY <1>1, <1>2 DEF SparesAll
<1> QED BY <1>3 DEF s

(***************************************************************************)
(* A statement that takes nothing from the free budget.                     *)
(***************************************************************************)
Plain(st) == Spares(st, 0, 0)
PlainList(s) == IsList(s) /\ \A i \in 1..Len(s) : Plain(s[i])

LEMMA PlainSpares == \A s : PlainList(s) => IsList(s) /\ SparesAll(s, 0, 0)
<1> SUFFICES ASSUME NEW s, PlainList(s) PROVE IsList(s) /\ SparesAll(s, 0, 0)
  OBVIOUS
<1> DEFINE n == Len(s)  w == [i \in 1..(n + 1) |-> 0]
<1>1. n \in Nat /\ IsList(s) /\ \A i \in 1..n : Spares(s[i], 0, 0)
  BY ListFacts DEF PlainList, Plain
<1> HIDE DEF n
<1>2. w \in [1..(n + 1) -> Int] /\ w[1] = 0 /\ w[n + 1] = 0
  BY <1>1
<1>3. \A i \in 1..n : w[i] = 0 /\ w[i + 1] = 0
  BY <1>1
<1> HIDE DEF w
<1>4. \A i \in 1..n : Spares(s[i], w[i], w[i + 1])
  BY <1>1, <1>3
<1> QED BY <1>1, <1>2, <1>4 DEF SparesAll, n

LEMMA PlainJoin == \A s, t : PlainList(s) /\ PlainList(t) => PlainList(s \o t)
<1> SUFFICES ASSUME NEW s, NEW t, PlainList(s), PlainList(t) PROVE PlainList(s \o t)
  OBVIOUS
<1>1. IsList(s) /\ IsList(t)
  BY DEF PlainList
<1> DEFINE u == s \o t
<1>2. /\ IsList(u)
      /\ \A i \in 1..Len(s) : u[i] = s[i]
      /\ \A i \in 1..Len(u) : i \in 1..Len(s) \/ (i - Len(s) \in 1..Len(t) /\ u[i] = t[i - Len(s)])
  BY <1>1, JoinFacts
<1> HIDE DEF u
<1>3. PlainList(u)
  BY <1>2 DEF PlainList
<1> QED BY <1>3 DEF u

LEMMA PlainNone == PlainList(<<>>)
<1> DEFINE s == <<>>
<1>1. IsList(s) /\ Len(s) = 0
  BY NoList, EmptySeq
<1> HIDE DEF s
<1>2. PlainList(s)
  BY <1>1 DEF PlainList
<1> QED BY <1>2 DEF s

LEMMA PlainTuples ==
    ASSUME NEW a, Plain(a), NEW b, Plain(b), NEW c, Plain(c), NEW d, Plain(d), NEW e, Plain(e)
    PROVE  /\ PlainList(<<a>>) /\ PlainList(<<a, b>>) /\ PlainList(<<a, b, c>>)
           /\ PlainList(<<a, b, c, d, e>>)
<1>1. PlainList(<<a>>)
  <2> DEFINE s == <<a>>
  <2>1. IsList(s) /\ Len(s) = 1 /\ s[1] = a
    BY TuplesAreLists
  <2> HIDE DEF s
  <2>2. PlainList(s)
    BY <2>1 DEF PlainList
  <2> QED BY <2>2 DEF s
<1>2. PlainList(<<a, b>>)
  <2> DEFINE s == <<a, b>>
  <2>1. IsList(s) /\ Len(s) = 2 /\ s[1] = a /\ s[2] = b
    BY TuplesAreLists
  <2> HIDE DEF s
  <2>2. PlainList(s)
    BY <2>1 DEF PlainList
  <2> QED BY <2>2 DEF s
<1>3. PlainList(<<a, b, c>>)
  <2> DEFINE s == <<a, b, c>>
  <2>1. IsList(s) /\ Len(s) = 3 /\ s[1] = a /\ s[2] = b /\ s[3] = c
    BY TuplesAreLists
  <2> HIDE DEF s
  <2>2. PlainList(s)
    BY <2>1 DEF PlainList
  <2> QED BY <2>2 DEF s
<1>4. PlainList(<<a, b, c, d, e>>)
  <2> DEFINE s == <<a, b, c, d, e>>
  <2>1. IsList(s) /\ Len(s) = 5 /\ s[1] = a /\ s[2] = b /\ s[3] = c /\ s[4] = d /\ s[5] = e
    BY TuplesAreLists
  <2> HIDE DEF s
  <2>2. PlainList(s)
    BY <2>1 DEF PlainList
  <2> QED BY <2>2 DEF s
<1> QED BY <1>1, <1>2, <1>3, <1>4

\* rows of another kind, and of another category
LEMMA FreeRows ==
    /\ FreeRow # ResultRow /\ FreeRow \in BudgetRows /\ ResultRow \in BudgetRows
    /\ FreeRow \in Row \ DebtRows /\ ResultRow \in Row \ DebtRows
    /\ \A a : BankRow(a) \notin {FreeRow, ResultRow} /\ DebtRow(a) \notin {FreeRow, ResultRow}
    /\ \A c : ActiveRow(c) \notin {FreeRow, ResultRow}
    /\ \A c : c # Unallocated => BudgetRow(c) # FreeRow
    /\ \A c : c # FxResult => BudgetRow(c) # ResultRow
    /\ \A k : OpRow(k) \notin {FreeRow, ResultRow}
  BY LocksAssumption DEF FreeRow, ResultRow, Row, BankRow, BudgetRow, ActiveRow, OpRow, DebtRow,
                         BudgetRows, DebtRows

LEMMA PlainStatements ==
    /\ \A rows : Plain(Lock(rows))
    /\ \A row : Plain(Read(row))
    /\ \A row, least : Plain(Check(<<row>>, least))
    /\ \A row : \A x \in Nat : Plain(Add(row, x))
    /\ \A row, x : row \notin {FreeRow, ResultRow} =>
          /\ \A b \in Int : Spares(Add(row, x), b, b)
          /\ Plain(Add(row, x)) /\ Plain(AddBeyond(row, x))
    /\ \A x \in Nat : Plain(AddBeyond(FreeRow, x))
    /\ \A st : st.do = "commit" => Plain(st)
<1>1. \A rows : Plain(Lock(rows))
  BY Statements DEF Plain, Spares
<1>2. \A row : Plain(Read(row))
  BY Statements DEF Plain, Spares
<1>3. \A row, least : Plain(Check(<<row>>, least))
  <2> TAKE row, least
  <2> DEFINE st == Check(<<row>>, least)
  <2>1. st.do = "check" /\ st.rows = <<row>>
    BY Statements
  <2>2. <<row>> # <<FreeRow, ResultRow>>
    <3> DEFINE one == <<row>>  two == <<FreeRow, ResultRow>>
    <3>1. Len(one) = 1 /\ Len(two) = 2
      OBVIOUS
    <3> HIDE DEF one, two
    <3>2. one # two
      BY <3>1
    <3> QED BY <3>2 DEF one, two
  <2> HIDE DEF st
  <2>3. Plain(st)
    BY <2>1, <2>2 DEF Plain, Spares
  <2> QED BY <2>3 DEF st
<1>4. \A row : \A x \in Nat : Plain(Add(row, x))
  BY Statements DEF Plain, Spares, Given
<1>5. \A row, x : row \notin {FreeRow, ResultRow} => \A b \in Int : Spares(Add(row, x), b, b)
  BY Statements DEF Spares
<1>6. \A row, x : row \notin {FreeRow, ResultRow} => Plain(AddBeyond(row, x))
  BY Statements DEF Plain, Spares
<1>7. \A x \in Nat : Plain(AddBeyond(FreeRow, x))
  BY Statements, FreeRows DEF Plain, Spares
<1>8. \A st : st.do = "commit" => Plain(st)
  BY DEF Plain, Spares
<1>9. \A row, x : row \notin {FreeRow, ResultRow} => Plain(Add(row, x))
  BY <1>5 DEF Plain
<1> QED BY <1>1, <1>2, <1>3, <1>4, <1>5, <1>6, <1>7, <1>8, <1>9

\* what is compared may be taken, what has been given may be taken back
LEMMA TakingStatements ==
    /\ \A x \in Int : Spares(Check(<<FreeRow, ResultRow>>, x), 0, -x)
    /\ \A x \in Int : Spares(Add(FreeRow, -x), -x, 0) /\ Spares(Add(FreeRow, -x), 0, x)
    /\ \A x \in Int : Spares(Add(FreeRow, x), x, 0)
<1>1. ASSUME NEW x \in Int PROVE Spares(Check(<<FreeRow, ResultRow>>, x), 0, -x)
  <2> DEFINE st == Check(<<FreeRow, ResultRow>>, x)
  <2>1. st.do = "check" /\ st.rows = <<FreeRow, ResultRow>> /\ st.least = x
    BY Statements
  <2> HIDE DEF st
  <2>2. Spares(st, 0, -x)
    BY <2>1 DEF Spares
  <2> QED BY <2>2 DEF st
<1>2. ASSUME NEW x \in Int, NEW b \in Int, NEW e \in Int, b <= x + e
      PROVE  Spares(Add(FreeRow, x), b, e)
  <2> DEFINE st == Add(FreeRow, x)
  <2>1. /\ st.do = "write" /\ st.rows[1] = FreeRow /\ st.what = "given" /\ st.sign = 1 /\ st.x = x
    BY Statements
  <2> HIDE DEF st
  <2>2. Spares(st, b, e)
    BY <1>2, <2>1, FreeRows DEF Spares, Given
  <2> QED BY <2>2 DEF st
<1>3. ASSUME NEW x \in Int
      PROVE  /\ -x \in Int /\ -x <= -x + 0 /\ 0 <= -x + x /\ x <= x + 0
  OBVIOUS
<1> QED BY <1>1, <1>2, <1>3

(***************************************************************************)
(* The calls.                                                               *)
(***************************************************************************)
SparesCall(s) == IsList(s) /\ SparesAll(s, 0, 0)

LEMMA ExpenseSpares ==
    ASSUME NEW a \in Account, NEW c \in Category \ {Unallocated, FxResult}, NEW x \in Nat
    PROVE  SparesCall(Expense(a, c, x))
<1> DEFINE s1 == <<Check(<<ActiveRow(c)>>, 1), Lock(<<BankRow(a)>>)>>
           s2 == IF IsCard[a] \/ IsPersonal[a]
                 THEN <<Check(<<BankRow(a)>>, Floor(a) + x)>> ELSE <<>>
           s3 == <<Lock(<<BudgetRow(c)>>), Add(BankRow(a), -x), Add(BudgetRow(c), -x)>>
<1>1. PlainList(s1)
  BY PlainStatements, PlainTuples
<1>2. PlainList(s2)
  BY PlainStatements, PlainTuples, PlainNone
<1>3. PlainList(s3)
  <2>1. Plain(Lock(<<BudgetRow(c)>>)) /\ Plain(Add(BankRow(a), -x)) /\ Plain(Add(BudgetRow(c), -x))
    BY PlainStatements, FreeRows
  <2> QED BY <2>1, PlainTuples
<1>4. Expense(a, c, x) = s1 \o s2 \o s3
  BY DEF Expense
<1> HIDE DEF s1, s2, s3
<1> QED BY <1>1, <1>2, <1>3, <1>4, PlainJoin, PlainSpares DEF SparesCall

LEMMA IncomeSpares ==
    ASSUME NEW a \in Account, NEW x \in Nat
    PROVE  SparesCall(Income(a, x))
<1>1. Plain(Add(BankRow(a), x)) /\ Plain(Add(BudgetRow(Unallocated), x))
  BY PlainStatements
<1> QED BY <1>1, PlainTuples, PlainSpares DEF Income, SparesCall

LEMMA TransferSpares ==
    ASSUME NEW a \in Account, NEW t \in Account, NEW x \in Nat, IsCard[a] \/ ~IsCard[t]
    PROVE  SparesCall(Transfer(a, t, x))
<1> DEFINE row == IF IsCard[t] THEN DebtRow(t) ELSE BankRow(a)
           p1 == Lock(<<BankRow(a)>>)  p2 == Check(<<BankRow(a)>>, Floor(a) + x)  p3 == Read(row)
           p4 == Add(BankRow(a), -x)  p5 == Add(BankRow(t), x)
           s1 == <<p1, p2, p3, p4, p5>>
           r2 == <<AddBeyond(BudgetRow(Unallocated), x), AddBeyond(DebtRow(a), x)>>
           r3 == <<Add(BudgetRow(Unallocated), -x), Add(BudgetRow(Unallocated), x)>>
           s2 == CASE IsCard[t] /\ ~IsCard[a] ->
                         <<AddCovered(BudgetRow(Unallocated), -1, x), AddCovered(DebtRow(t), -1, x)>>
                   [] IsCard[a] /\ ~IsCard[t] ->
                         <<AddBeyond(BudgetRow(Unallocated), x), AddBeyond(DebtRow(a), x)>>
                   [] ~IsCard[a] /\ ~IsCard[t] ->
                         <<Add(BudgetRow(Unallocated), -x), Add(BudgetRow(Unallocated), x)>>
                   [] OTHER -> <<>>
<1>1. Plain(p1) /\ Plain(p2) /\ Plain(p3) /\ Plain(p4) /\ Plain(p5)
  BY PlainStatements, FreeRows
<1>2. SparesCall(s1)
  <2> HIDE DEF p1, p2, p3, p4, p5
  <2> QED BY <1>1, PlainTuples, PlainSpares DEF SparesCall
<1>3. Transfer(a, t, x) = s1 \o s2
  BY DEF Transfer
<1>4. SparesCall(r2)
  <2>1. Plain(AddBeyond(FreeRow, x)) /\ Plain(AddBeyond(DebtRow(a), x))
    BY PlainStatements, FreeRows
  <2>2. Plain(AddBeyond(BudgetRow(Unallocated), x))
    BY <2>1 DEF FreeRow
  <2> QED BY <2>1, <2>2, PlainTuples, PlainSpares DEF SparesCall
<1>5. SparesCall(r3)
  <2> DEFINE q1 == Add(BudgetRow(Unallocated), -x)  q2 == Add(BudgetRow(Unallocated), x)
  <2>1. Spares(q1, 0, x) /\ Spares(q2, x, 0) /\ x \in Int
    BY TakingStatements DEF FreeRow
  <2>2. IsList(<<q1, q2>>)
    BY TuplesAreLists
  <2> HIDE DEF q1, q2
  <2>3. SparesAll(<<q1, q2>>, 0, 0)
    BY <2>1, SparesTwo
  <2> QED BY <2>2, <2>3 DEF SparesCall, q1, q2
<1>6. SparesCall(<<>>)
  BY PlainNone, PlainSpares DEF SparesCall
<1>7. s2 \in {r2, r3, <<>>}
  <2>1. IsCard[a] \in BOOLEAN /\ IsCard[t] \in BOOLEAN
    BY LocksAssumption
  <2> QED BY <2>1
<1> HIDE DEF s1, s2, r2, r3
<1>8. SparesCall(s2)
  BY <1>4, <1>5, <1>6, <1>7
<1>9. IsList(s1 \o s2)
  BY <1>2, <1>8, JoinFacts DEF SparesCall
<1> QED BY <1>2, <1>3, <1>8, <1>9, SparesJoin DEF SparesCall

LEMMA AllocateSpares ==
    ASSUME NEW f \in Category \ {FxResult}, NEW t \in Category, NEW x \in Nat
    PROVE  SparesCall(Allocate(f, t, x))
<1> DEFINE s1 == <<Check(<<ActiveRow(f)>>, 1), Check(<<ActiveRow(t)>>, 1),
                   Lock(InIdOrder({f, t} \cup (IF f = Unallocated THEN {FxResult} ELSE {})))>>
           s2 == IF f = Unallocated
                 THEN <<Check(<<BudgetRow(f), BudgetRow(FxResult)>>, x)>> ELSE <<>>
           q1 == Add(BudgetRow(f), -x)  q2 == Add(BudgetRow(t), x)
           s3 == <<q1, q2>>
           need == IF f = Unallocated THEN -x ELSE 0
<1>1. SparesCall(s1)
  BY PlainStatements, PlainTuples, PlainSpares DEF SparesCall
<1>2. IsList(s2) /\ SparesAll(s2, 0, need) /\ need \in Int
  <2>1. CASE f = Unallocated
    <3> DEFINE ch == Check(<<BudgetRow(f), BudgetRow(FxResult)>>, x)
    <3>1. Spares(ch, 0, -x) /\ -x \in Int
      BY <2>1, TakingStatements DEF FreeRow, ResultRow
    <3>2. s2 = <<ch>> /\ need = -x
      BY <2>1
    <3> HIDE DEF ch, s2, need
    <3>3. SparesAll(<<ch>>, 0, -x)
      BY <3>1, SparesOne
    <3>4. IsList(<<ch>>)
      BY TuplesAreLists
    <3> QED BY <3>1, <3>2, <3>3, <3>4
  <2>2. CASE f # Unallocated
    <3>1. s2 = <<>> /\ need = 0
      BY <2>2
    <3> HIDE DEF s2, need
    <3> QED BY <3>1, NoList, SparesNothing
  <2> QED BY <2>1, <2>2
<1>3. SparesAll(s3, need, 0) /\ IsList(s3)
  <2>1. Spares(q2, 0, 0)
    BY PlainStatements DEF Plain
  <2>2. Spares(q1, need, 0)
    <3>1. CASE f = Unallocated
      BY <3>1, TakingStatements DEF FreeRow
    <3>2. CASE f # Unallocated
      BY <3>2, PlainStatements, FreeRows DEF Plain
    <3> QED BY <3>1, <3>2
  <2> HIDE DEF q1, q2, need
  <2>3. need \in Int
    BY <1>2
  <2>4. SparesAll(<<q1, q2>>, need, 0)
    BY <2>1, <2>2, <2>3, SparesTwo
  <2>5. IsList(<<q1, q2>>)
    BY TuplesAreLists
  <2> QED BY <2>4, <2>5
<1>4. Allocate(f, t, x) = (s1 \o s2) \o s3
  <2>1. Allocate(f, t, x) = s1 \o s2 \o s3
    BY DEF Allocate
  <2> QED BY <2>1
<1> HIDE DEF s1, s2, s3, need
<1>5. SparesAll(s1 \o s2, 0, need) /\ IsList(s1 \o s2)
  BY <1>1, <1>2, SparesJoin, JoinFacts DEF SparesCall
<1>6. SparesAll((s1 \o s2) \o s3, 0, 0) /\ IsList((s1 \o s2) \o s3)
  BY <1>3, <1>5, SparesJoin, JoinFacts
<1> QED BY <1>4, <1>6 DEF SparesCall

LEMMA ReverseSpares ==
    ASSUME NEW k \in DOMAIN Past, Past[k].category # FxResult
    PROVE  SparesCall(ReverseOperation(k))
<1> DEFINE op == Past[k]
<1>0. op.account \in Account /\ op.category \in Category /\ op.amount \in Int /\ op.category # FxResult
  BY RequestsAssumption
<1>00. op = Past[k]
  OBVIOUS
<1> HIDE DEF op
<1> DEFINE taken == op.amount > 0 /\ op.category = Unallocated
           s1 == <<Lock(<<OpRow(k)>>), Check(<<OpRow(k)>>, 1)>>
           s2 == IF op.amount > 0
                 THEN <<Check(<<BankRow(op.account)>>, Floor(op.account) + op.amount)>> ELSE <<>>
           s3 == IF op.amount > 0 /\ op.category = Unallocated
                 THEN <<Check(<<BudgetRow(Unallocated), BudgetRow(FxResult)>>, op.amount)>>
                 ELSE <<>>
           p1 == Add(OpRow(k), -1)  p2 == Add(BankRow(op.account), -op.amount)
           p3 == Add(BudgetRow(op.category), -op.amount)
           s4 == <<p1, p2, p3>>
           need == IF taken THEN -op.amount ELSE 0
<1>1. PlainList(s1)
  BY PlainStatements, PlainTuples
<1>2. PlainList(s2)
  BY PlainStatements, PlainTuples, PlainNone
<1>3. IsList(s3) /\ SparesAll(s3, 0, need) /\ need \in Int
  <2>1. CASE taken
    <3> DEFINE ch == Check(<<BudgetRow(Unallocated), BudgetRow(FxResult)>>, op.amount)
    <3>1. Spares(ch, 0, -op.amount) /\ -op.amount \in Int
      BY <1>0, TakingStatements DEF FreeRow, ResultRow
    <3>2. s3 = <<ch>> /\ need = -op.amount
      BY <2>1
    <3> HIDE DEF ch, s3, need, taken
    <3>3. SparesAll(<<ch>>, 0, -op.amount)
      BY <3>1, SparesOne
    <3>4. IsList(<<ch>>)
      BY TuplesAreLists
    <3> QED BY <3>1, <3>2, <3>3, <3>4
  <2>2. CASE ~taken
    <3>1. s3 = <<>> /\ need = 0
      BY <2>2
    <3> HIDE DEF s3, need, taken
    <3> QED BY <3>1, NoList, SparesNothing
  <2> QED BY <2>1, <2>2
<1>4. IsList(s4) /\ SparesAll(s4, need, 0)
  <2>0. need \in Int
    BY <1>3
  <2>1. Spares(p1, need, need) /\ Spares(p2, need, need)
    <3> HIDE DEF need
    <3> QED BY <2>0, PlainStatements, FreeRows
  <2>2. Spares(p3, need, 0)
    <3>1. CASE taken
      BY <1>0, <3>1, TakingStatements DEF FreeRow
    <3>2. CASE ~taken /\ op.category = Unallocated
      <4>1. -op.amount \in Nat
        BY <1>0, <3>2
      <4> QED BY <3>2, <4>1, PlainStatements DEF Plain
    <3>3. CASE op.category # Unallocated
      BY <1>0, <3>3, PlainStatements, FreeRows DEF Plain
    <3> QED BY <3>1, <3>2, <3>3
  <2> HIDE DEF p1, p2, p3, need
  <2>3. SparesAll(<<p1, p2, p3>>, need, 0)
    BY <2>0, <2>1, <2>2, SparesThree
  <2>4. IsList(<<p1, p2, p3>>)
    BY TuplesAreLists
  <2> QED BY <2>3, <2>4
<1>5. ReverseOperation(k) = ((s1 \o s2) \o s3) \o s4
  BY <1>00 DEF ReverseOperation
<1> HIDE DEF s1, s2, s3, s4, need, taken
<1>6. SparesCall(s1 \o s2)
  BY <1>1, <1>2, PlainJoin, PlainSpares DEF SparesCall
<1>7. SparesAll((s1 \o s2) \o s3, 0, need) /\ IsList((s1 \o s2) \o s3)
  BY <1>3, <1>6, SparesJoin, JoinFacts DEF SparesCall
<1>8. SparesAll(((s1 \o s2) \o s3) \o s4, 0, 0) /\ IsList(((s1 \o s2) \o s3) \o s4)
  BY <1>4, <1>7, SparesJoin, JoinFacts
<1> QED BY <1>5, <1>8 DEF SparesCall

LEMMA CallSpares ==
    ASSUME FreeBudgetCalls, NEW req \in Requests
    PROVE  SparesCall(Program(req))
<1> USE RequestsAssumption DEF Program, FreeBudgetCalls
<1>1. CASE req.call = "expense"
  BY <1>1, ExpenseSpares
<1>2. CASE req.call = "income"
  BY <1>2, IncomeSpares
<1>3. CASE req.call = "transfer"
  BY <1>3, TransferSpares
<1>4. CASE req.call = "allocate"
  BY <1>4, AllocateSpares
<1>5. CASE req.call = "reverse"
  BY <1>5, ReverseSpares
<1> QED BY <1>1, <1>2, <1>3, <1>4, <1>5

LEMMA StartedSpares ==
    ASSUME FreeBudgetCalls, NEW req \in Requests
    PROVE  SparesAll(Started(req), 0, 0)
<1> DEFINE c == [do |-> "commit"]  s == Program(req)
<1>1. Plain(c)
  <2>1. c.do = "commit"
    OBVIOUS
  <2> HIDE DEF c
  <2> QED BY <2>1, PlainStatements
<1>2. SparesCall(s)
  BY CallSpares
<1>3. Started(req) = s \o <<c>>
  <2>1. PICK T : s \in Seq(T)
    BY ProgramSound DEF IsProgram
  <2> HIDE DEF s, c
  <2>2. Append(s, c) = s \o <<c>>
    <3>1. s \in Seq(T \cup {c}) /\ c \in T \cup {c}
      BY <2>1
    <3> QED BY <3>1
  <2> QED BY <2>2 DEF Started, s, c
<1> HIDE DEF s, c
<1>4. IsList(<<c>>) /\ SparesAll(<<c>>, 0, 0)
  BY <1>1, PlainTuples, PlainSpares
<1> QED BY <1>2, <1>3, <1>4, SparesJoin DEF SparesCall

(***************************************************************************)
(* A connection has taken from the free budget no more than it has given,   *)
(* or it holds the row and has found there what it takes.                   *)
(***************************************************************************)
FreeWritten(p) == written[p][FreeRow] + written[p][ResultRow]
FreeCommitted  == committed[FreeRow] + committed[ResultRow]

OwnFree(p) ==
    /\ written[p][ResultRow] >= 0
    /\ \E b \in Int :
          /\ SparesAll(program[p], b, 0)
          /\ \/ FreeWritten(p) + b >= 0
             \/ /\ holder[FreeRow] = p
                /\ FreeCommitted + FreeWritten(p) + b >= 0

FreeInv ==
    /\ TypeInv
    /\ FreeRow \notin unlocked => FreeCommitted >= 0 /\ \A p \in Proc : OwnFree(p)

LEMMA FreeTyped ==
    ASSUME TypeInv
    PROVE  /\ committed[FreeRow] \in Int /\ committed[ResultRow] \in Int
           /\ \A p \in Proc : written[p][FreeRow] \in Int /\ written[p][ResultRow] \in Int
  BY FreeRows DEF TypeInv, TidyInv, LocksInv

LEMMA NothingTaken ==
    /\ NoWrites[FreeRow] = 0 /\ NoWrites[ResultRow] = 0
    /\ SparesAll(<<>>, 0, 0)
  BY FreeRows, SparesNothing DEF NoWrites

LEMMA InitFree == FreeBudgetCalls /\ Init => FreeInv
<1> SUFFICES ASSUME FreeBudgetCalls, Init PROVE FreeInv
  OBVIOUS
<1>1. FreeCommitted >= 0
  BY DEF FreeBudgetCalls, FreeCommitted, Init
<1>2. ASSUME NEW p \in Proc PROVE OwnFree(p)
  <2>1. program[p] = <<>> /\ written[p] = NoWrites
    BY DEF Init
  <2>2. FreeWritten(p) + 0 >= 0 /\ written[p][ResultRow] >= 0
    BY <2>1, NothingTaken DEF FreeWritten
  <2>3. SparesAll(program[p], 0, 0) /\ 0 \in Int
    BY <2>1, NothingTaken
  <2> QED BY <2>2, <2>3 DEF OwnFree
<1> QED BY <1>1, <1>2, InitTypes DEF FreeInv

\* a call begins, a transaction is undone or has been committed
LEMMA FreshFree ==
    ASSUME NEW p \in Proc, written'[p] = NoWrites, SparesAll(program'[p], 0, 0)
    PROVE  OwnFree(p)'
<1>1. FreeWritten(p)' + 0 >= 0 /\ written'[p][ResultRow] >= 0
  BY NothingTaken DEF FreeWritten
<1>2. 0 \in Int
  OBVIOUS
<1> QED BY <1>1, <1>2 DEF OwnFree

\* another connection has made a step
LEMMA OthersFree ==
    ASSUME TypeInv, TypeInv', NEW q \in Proc, OwnFree(q),
           program'[q] = program[q], written'[q] = written[q],
           holder'[FreeRow] = q <=> holder[FreeRow] = q,
           holder[FreeRow] = q => FreeCommitted' >= FreeCommitted
    PROVE  OwnFree(q)'
<1>1. PICK b \in Int :
          /\ SparesAll(program[q], b, 0)
          /\ \/ FreeWritten(q) + b >= 0
             \/ /\ holder[FreeRow] = q
                /\ FreeCommitted + FreeWritten(q) + b >= 0
  BY DEF OwnFree
<1>2. FreeWritten(q)' = FreeWritten(q) /\ FreeWritten(q) \in Int
  BY FreeTyped DEF FreeWritten
<1>3. FreeCommitted \in Int /\ FreeCommitted' \in Int
  <2>1. committed'[FreeRow] \in Int /\ committed'[ResultRow] \in Int
    BY FreeRows DEF TypeInv, TidyInv, LocksInv
  <2> QED BY <2>1, FreeTyped DEF FreeCommitted
<1> DEFINE C == FreeCommitted  D == FreeCommitted'  W == FreeWritten(q)
<1>4. W + b >= 0 \/ (holder'[FreeRow] = q /\ D + W + b >= 0)
  <2>1. C \in Int /\ D \in Int /\ W \in Int /\ (holder[FreeRow] = q => D >= C)
    BY <1>2, <1>3
  <2>2. W + b >= 0 \/ (holder[FreeRow] = q /\ C + W + b >= 0)
    BY <1>1
  <2> HIDE DEF C, D, W
  <2> QED BY <2>1, <2>2
<1> QED BY <1>1, <1>2, <1>4 DEF OwnFree

\* a statement is done that has added d to Unallocated and e to FX Result
LEMMA AdvanceFree ==
    ASSUME TypeInv, NEW p \in Proc, OwnFree(p), Busy(p), Advance(p), committed' = committed,
           NEW d \in Int, NEW e \in Nat,
           written'[p][FreeRow] = written[p][FreeRow] + d,
           written'[p][ResultRow] = written[p][ResultRow] + e,
           holder[FreeRow] = p => holder'[FreeRow] = p,
           \A b, c \in Int : Spares(Current(p), b, c) =>
               \/ b <= d + e + c
               \/ /\ d = 0 /\ e = 0 /\ holder'[FreeRow] = p
                  /\ FreeCommitted + FreeWritten(p) + c >= 0
    PROVE  OwnFree(p)'
<1>0. LocksInv
  BY DEF TypeInv, TidyInv
<1>1. PICK b \in Int :
          /\ SparesAll(program[p], b, 0)
          /\ \/ FreeWritten(p) + b >= 0
             \/ /\ holder[FreeRow] = p
                /\ FreeCommitted + FreeWritten(p) + b >= 0
  BY DEF OwnFree
<1>2. IsList(program[p]) /\ program[p] # <<>>
  BY <1>0, RunningIsList DEF LocksInv, Busy
<1>3. PICK c \in Int : Spares(Current(p), b, c) /\ SparesAll(Tail(program[p]), c, 0)
  BY <1>1, <1>2, SparesTail DEF Current
<1>4. program'[p] = Tail(program[p])
  BY <1>0, AdvanceAside
<1>5. /\ written[p][FreeRow] \in Int /\ written[p][ResultRow] \in Int
      /\ FreeWritten(p) \in Int /\ FreeCommitted \in Int
      /\ FreeWritten(p)' = FreeWritten(p) + d + e /\ FreeCommitted' = FreeCommitted
  BY FreeTyped DEF FreeWritten, FreeCommitted
<1>6. \/ b <= d + e + c
      \/ /\ d = 0 /\ e = 0 /\ holder'[FreeRow] = p
         /\ FreeCommitted + FreeWritten(p) + c >= 0
  BY <1>3
<1> DEFINE W == FreeWritten(p)  C == FreeCommitted  V == FreeWritten(p)'  mine == holder'[FreeRow] = p
<1>7. V + c >= 0 \/ (mine /\ C + V + c >= 0)
  <2>1. /\ W + b >= 0 \/ (mine /\ C + W + b >= 0)
        /\ b <= d + e + c \/ (d = 0 /\ e = 0 /\ mine /\ C + W + c >= 0)
        /\ V = W + d + e /\ W \in Int /\ C \in Int
    BY <1>1, <1>5, <1>6
  <2> HIDE DEF W, C, V, mine
  <2> QED BY <2>1
<1>8. written'[p][ResultRow] >= 0
  BY <1>5 DEF OwnFree
<1>9. SparesAll(program'[p], c, 0)
  BY <1>3, <1>4
<1> QED BY <1>5, <1>7, <1>8, <1>9 DEF OwnFree

\* a statement other than the comparison and than a write
LEMMA PassingFree ==
    ASSUME TypeInv, NEW p \in Proc, OwnFree(p), Busy(p), Advance(p), committed' = committed,
           written'[p] = written[p], holder[FreeRow] = p => holder'[FreeRow] = p,
           Current(p).do # "write",
           Current(p).do = "check" => Current(p).rows # <<FreeRow, ResultRow>>
    PROVE  OwnFree(p)'
<1> DEFINE none == 0
<1>1. \A b, c \in Int : Spares(Current(p), b, c) => b <= none + none + c
  BY DEF Spares
<1>2. /\ written'[p][FreeRow] = written[p][FreeRow] + none
      /\ written'[p][ResultRow] = written[p][ResultRow] + none
  BY FreeTyped
<1>3. none \in Int /\ none \in Nat
  OBVIOUS
<1> HIDE DEF none
<1> QED BY <1>1, <1>2, <1>3, AdvanceFree

LEMMA VisiblePair ==
    ASSUME TypeInv, NEW p \in Proc
    PROVE  VisibleSum(p, <<FreeRow, ResultRow>>) = FreeCommitted + FreeWritten(p)
<1> DEFINE v == [x \in Row |-> Visible(p, x)]  S == {FreeRow, ResultRow}
           f == Visible(p, FreeRow)  g == Visible(p, ResultRow)
           v1 == [x \in Row |-> IF x = FreeRow THEN f ELSE 0]
           v2 == [x \in Row |-> IF x = ResultRow THEN g ELSE 0]
<1>1. f \in Int /\ g \in Int /\ f + g = FreeCommitted + FreeWritten(p)
  BY FreeTyped DEF Visible, FreeCommitted, FreeWritten
<1>2. ToSet(<<FreeRow, ResultRow>>) = S
  <2> DEFINE two == <<FreeRow, ResultRow>>
  <2>1. DOMAIN two = {1, 2} /\ two[1] = FreeRow /\ two[2] = ResultRow
    OBVIOUS
  <2> HIDE DEF two
  <2>2. ToSet(two) = S
    BY <2>1 DEF ToSet
  <2> QED BY <2>2 DEF two
<1>3. VisibleSum(p, <<FreeRow, ResultRow>>) = SumFunctionOnSet(v, S)
  BY <1>2 DEF VisibleSum
<1>4. IsFiniteSet(S)
  <2>1. S = {FreeRow} \cup {ResultRow}
    OBVIOUS
  <2>2. IsFiniteSet({FreeRow}) /\ IsFiniteSet({ResultRow})
    BY RowIsFinite
  <2>3. IsFiniteSet({FreeRow} \cup {ResultRow})
    BY <2>2, FS_Union
  <2> QED BY <2>1, <2>3
<1>5. v[FreeRow] = f /\ v[ResultRow] = g
  BY FreeRows
<1>6. \A x \in S : /\ v1[x] = IF x = FreeRow THEN f ELSE 0
                   /\ v2[x] = IF x = ResultRow THEN g ELSE 0
  BY FreeRows
<1> HIDE DEF f, g, v, v1, v2
<1>7. \A x \in S : v1[x] \in Int /\ v2[x] \in Int /\ v[x] = v1[x] + v2[x]
  BY <1>1, <1>5, <1>6, FreeRows
<1>8. SumFunctionOnSet(v, S) = SumFunctionOnSet(v1, S) + SumFunctionOnSet(v2, S)
  BY <1>4, <1>7, SumOverPlus
<1>9. SumFunctionOnSet(v1, S) = f
  <2>1. FreeRow \in S
    OBVIOUS
  <2> HIDE DEF S
  <2> QED BY <1>1, <1>4, <1>6, <2>1, SumOverOne
<1>10. SumFunctionOnSet(v2, S) = g
  <2>1. ResultRow \in S
    OBVIOUS
  <2> HIDE DEF S
  <2> QED BY <1>1, <1>4, <1>6, <2>1, SumOverOne
<1> QED BY <1>1, <1>3, <1>8, <1>9, <1>10

\* the comparison, made on a row the transaction holds
LEMMA ComparedFree ==
    ASSUME TypeInv, NEW p \in Proc, OwnFree(p), CheckBalance(p), Passes(p), FreeRow \notin unlocked',
           Current(p).rows = <<FreeRow, ResultRow>>
    PROVE  OwnFree(p)'
<1>1. /\ Busy(p) /\ Advance(p) /\ UNCHANGED <<committed, holder, written>>
      /\ Current(p).do = "check"
      /\ unlocked' = unlocked \cup
             {r \in ToSet(Current(p).rows) \cap (BankRows \cup BudgetRows) : holder[r] # p}
  BY DEF CheckBalance
<1>2. FreeRow \in ToSet(Current(p).rows)
  <2> DEFINE two == <<FreeRow, ResultRow>>
  <2>1. DOMAIN two = {1, 2} /\ two[1] = FreeRow
    OBVIOUS
  <2> HIDE DEF two
  <2>2. FreeRow \in ToSet(two)
    BY <2>1 DEF ToSet
  <2> QED BY <2>2 DEF two
<1>3. holder'[FreeRow] = p
  BY <1>1, <1>2, FreeRows
<1>4. FreeCommitted + FreeWritten(p) >= Current(p).least
  BY VisiblePair DEF Passes
<1>5. ASSUME NEW b \in Int, NEW c \in Int, Spares(Current(p), b, c)
      PROVE  FreeCommitted + FreeWritten(p) + c >= 0
  <2>1. Current(p).least \in Int /\ -Current(p).least <= c
    BY <1>1, <1>5 DEF Spares
  <2>2. FreeCommitted \in Int /\ FreeWritten(p) \in Int
    BY FreeTyped DEF FreeCommitted, FreeWritten
  <2> QED BY <1>4, <2>1, <2>2
<1> DEFINE none == 0
<1>6. /\ written'[p][FreeRow] = written[p][FreeRow] + none
      /\ written'[p][ResultRow] = written[p][ResultRow] + none
  BY <1>1, FreeTyped
<1>7. none \in Int /\ none \in Nat /\ none = 0
  OBVIOUS
<1> HIDE DEF none
<1> QED BY <1>1, <1>3, <1>5, <1>6, <1>7, AdvanceFree

\* a write gives to the free budget, or takes what Spares allows it to take
LEMMA WritingFree ==
    ASSUME TypeInv, NEW p \in Proc, OwnFree(p), Busy(p), Current(p).do = "write", Advance(p),
           committed' = committed, holder[FreeRow] = p => holder'[FreeRow] = p,
           \A r \in Row : written'[p][r] =
               IF r = Current(p).rows[1] THEN written[p][r] + Delta(p) ELSE written[p][r]
    PROVE  OwnFree(p)'
<1> DEFINE st == Current(p)  row == Current(p).rows[1]
           d == IF row = FreeRow THEN Delta(p) ELSE 0
           g == IF row = ResultRow THEN Delta(p) ELSE 0
<1>1. Delta(p) \in Int
  BY DeltaIsInt DEF TypeInv, TidyInv
<1>2. /\ written'[p][FreeRow] = written[p][FreeRow] + d
      /\ written'[p][ResultRow] = written[p][ResultRow] + g
  BY FreeRows, FreeTyped
<1>3. st.what = "beyond" /\ st.sign = 1 /\ st.x \in Nat => Delta(p) >= 0
  <2> SUFFICES ASSUME st.what = "beyond", st.sign = 1, st.x \in Nat PROVE Delta(p) >= 0
    OBVIOUS
  <2>1. Delta(p) = 1 * (st.x - Greater(0, Lesser(st.x, seen[p])))
    BY DEF Delta
  <2>2. seen[p] \in Int
    BY DEF TypeInv, TidyInv, LocksInv
  <2> HIDE DEF st
  <2> QED BY <2>1, <2>2 DEF Greater, Lesser
<1>4. Given(st) => Delta(p) = st.x
  BY DeltaOfGiven
<1>5. PICK b0 \in Int, c0 \in Int : Spares(st, b0, c0)
  <2>1. PICK b \in Int : SparesAll(program[p], b, 0)
    BY DEF OwnFree
  <2>2. IsList(program[p]) /\ program[p] # <<>>
    BY RunningIsList DEF TypeInv, TidyInv, LocksInv, Busy
  <2> QED BY <2>1, <2>2, SparesTail DEF Current
<1>6. row = ResultRow => Delta(p) >= 0
  BY <1>4, <1>5, FreeRows DEF Spares
<1>7. d \in Int /\ g \in Nat
  BY <1>1, <1>6
<1>8. ASSUME NEW b \in Int, NEW c \in Int, Spares(st, b, c) PROVE b <= d + g + c
  <2>1. CASE row = FreeRow
    <3>1. d = Delta(p) /\ g = 0
      BY <2>1, FreeRows
    <3>2. (Given(st) /\ b <= st.x + c) \/ (st.what = "beyond" /\ st.sign = 1 /\ st.x \in Nat /\ b <= c)
      BY <1>8, <2>1 DEF Spares
    <3> HIDE DEF st, d, g
    <3> QED BY <1>1, <1>3, <1>4, <3>1, <3>2
  <2>2. CASE row = ResultRow
    <3>1. d = 0 /\ g = Delta(p)
      BY <2>2, FreeRows
    <3>2. Given(st) /\ b <= st.x + c
      BY <1>8, <2>2, FreeRows DEF Spares
    <3> HIDE DEF st, d, g
    <3> QED BY <1>1, <1>4, <3>1, <3>2
  <2>3. CASE row \notin {FreeRow, ResultRow}
    <3>1. d = 0 /\ g = 0 /\ b <= c
      BY <1>8, <2>3 DEF Spares
    <3> QED BY <3>1
  <2> QED BY <2>1, <2>2, <2>3
<1> HIDE DEF d, g
<1> QED BY <1>2, <1>7, <1>8, AdvanceFree

LEMMA StepFree ==
    ASSUME FreeInv, NEW p \in Proc, Step(p), FreeRow \notin unlocked'
    PROVE  OwnFree(p)'
<1>0. FreeRow \notin unlocked
  BY DEF Step, StartLocking, LockRow, CheckBalance, ReadValue, ApplyDelta, SkipZero, Commit,
         AbortDeadlocked
<1>1. TypeInv /\ TidyInv /\ LocksInv /\ OwnFree(p)
  BY <1>0 DEF FreeInv, TypeInv, TidyInv
<1>2. ASSUME EndTransaction(p) PROVE OwnFree(p)'
  <2>1. program'[p] = <<>> /\ written'[p] = NoWrites
    BY <1>1, <1>2, EndAside
  <2> QED BY <2>1, NothingTaken, FreshFree
<1>3. ASSUME Busy(p), Advance(p), UNCHANGED <<committed, written>>, Current(p).do \in {"lock", "read"},
             holder[FreeRow] = p => holder'[FreeRow] = p
      PROVE  OwnFree(p)'
  BY <1>1, <1>3, PassingFree
<1>4. CASE StartLocking(p) \/ LockRow(p)
  <2>1. /\ Busy(p) /\ Current(p).do = "lock" /\ UNCHANGED <<written, committed>>
        /\ \A r \in Row : holder[r] = p => holder'[r] = p
    <3>1. CASE StartLocking(p)
      BY <3>1 DEF StartLocking
    <3>2. CASE LockRow(p)
      <4> DEFINE h == Head(queue[p])
      <4>1. holder' = holder \/ holder' = [holder EXCEPT ![h] = p]
        BY <3>2 DEF LockRow
      <4> HIDE DEF h
      <4>2. \A r \in Row : holder[r] = p => holder'[r] = p
        BY <1>1, <4>1 DEF LocksInv
      <4> QED BY <1>1, <3>2, <4>2, LockRowShape DEF LockRow
    <3> QED BY <1>4, <3>1, <3>2
  <2>2. CASE UNCHANGED program
    <3>1. PICK b \in Int :
              /\ SparesAll(program[p], b, 0)
              /\ \/ FreeWritten(p) + b >= 0
                 \/ /\ holder[FreeRow] = p
                    /\ FreeCommitted + FreeWritten(p) + b >= 0
      BY <1>1 DEF OwnFree
    <3>2. FreeWritten(p)' = FreeWritten(p) /\ FreeCommitted' = FreeCommitted
      BY <2>1 DEF FreeWritten, FreeCommitted
    <3>3. holder[FreeRow] = p => holder'[FreeRow] = p
      BY <2>1, FreeRows
    <3>4. written'[p][ResultRow] >= 0
      BY <1>1, <2>1 DEF OwnFree
    <3> QED BY <2>2, <3>1, <3>2, <3>3, <3>4 DEF OwnFree
  <2>3. CASE Advance(p)
    BY <1>3, <2>1, <2>3, FreeRows
  <2> QED BY <1>4, <2>2, <2>3 DEF StartLocking, LockRow
<1>5. CASE CheckBalance(p)
  <2>1. CASE Passes(p) /\ Current(p).rows = <<FreeRow, ResultRow>>
    BY <1>1, <1>5, <2>1, ComparedFree
  <2>2. CASE Passes(p) /\ Current(p).rows # <<FreeRow, ResultRow>>
    <3>1. /\ Busy(p) /\ Advance(p) /\ Current(p).do = "check"
          /\ UNCHANGED <<committed, holder, written>>
      BY <1>5, <2>2 DEF CheckBalance
    <3> QED BY <1>1, <2>2, <3>1, PassingFree
  <2>3. CASE ~Passes(p)
    BY <1>2, <1>5, <2>3 DEF CheckBalance
  <2> QED BY <2>1, <2>2, <2>3
<1>6. CASE ReadValue(p)
  BY <1>3, <1>6 DEF ReadValue
<1>7. CASE ApplyDelta(p)
  <2>1. Busy(p) /\ Advance(p) /\ Current(p).do = "write" /\ committed' = committed
    BY <1>7 DEF ApplyDelta, Writes
  <2>2. \A r \in Row : written'[p][r] =
              IF r = Current(p).rows[1] THEN written[p][r] + Delta(p) ELSE written[p][r]
    BY <1>1, <1>7, ApplyAside
  <2>3. holder[FreeRow] = p => holder'[FreeRow] = p
    <3> DEFINE row == Current(p).rows[1]
    <3>1. holder' = holder \/ holder' = [holder EXCEPT ![row] = p]
      BY <1>7 DEF ApplyDelta
    <3> HIDE DEF row
    <3> QED BY <1>1, <3>1, FreeRows DEF LocksInv
  <2> QED BY <1>1, <2>1, <2>2, <2>3, WritingFree
<1>8. CASE SkipZero(p)
  <2>1. /\ Busy(p) /\ Advance(p) /\ Current(p).do = "write" /\ Delta(p) = 0
        /\ UNCHANGED <<committed, written, holder>>
    BY <1>8 DEF SkipZero, Writes
  <2>2. \A r \in Row : written'[p][r] =
              IF r = Current(p).rows[1] THEN written[p][r] + Delta(p) ELSE written[p][r]
    BY <1>1, <2>1 DEF LocksInv
  <2> QED BY <1>1, <2>1, <2>2, WritingFree
<1> QED BY <1>2, <1>4, <1>5, <1>6, <1>7, <1>8 DEF Step, Commit, AbortDeadlocked

\* what is committed leaves the free budget where it was or covers what it took
LEMMA CommitFree ==
    ASSUME FreeInv, NEW p \in Proc, Commit(p), FreeRow \notin unlocked
    PROVE  /\ FreeCommitted' >= 0
           /\ holder[FreeRow] # p => FreeCommitted' >= FreeCommitted
<1>1. TypeInv /\ LocksInv /\ OwnFree(p) /\ FreeCommitted >= 0
  BY DEF FreeInv, TypeInv, TidyInv
<1>2. PICK b \in Int :
          /\ SparesAll(program[p], b, 0)
          /\ \/ FreeWritten(p) + b >= 0
             \/ /\ holder[FreeRow] = p
                /\ FreeCommitted + FreeWritten(p) + b >= 0
  BY <1>1 DEF OwnFree
<1>3. /\ IsList(program[p]) /\ IsRunning(program[p]) /\ program[p] # <<>>
      /\ Head(program[p]).do = "commit"
  BY <1>1, RunningIsList DEF LocksInv, Commit, Busy, Current
<1>4. PICK c \in Int : Spares(Head(program[p]), b, c) /\ SparesAll(Tail(program[p]), c, 0)
  BY <1>2, <1>3, SparesTail
<1>5. c = 0
  <2>1. Tail(program[p]) = <<>>
    BY <1>3, HeadAndTail
  <2>2. SparesAll(<<>>, c, 0)
    BY <1>4, <2>1
  <2> QED BY <2>2, SparesNothing
<1>6. b <= 0
  BY <1>3, <1>4, <1>5 DEF Spares
<1>7. /\ committed'[FreeRow] = committed[FreeRow] + written[p][FreeRow]
      /\ committed'[ResultRow] = committed[ResultRow] + written[p][ResultRow]
  BY FreeRows DEF Commit
<1>8. FreeCommitted' = FreeCommitted + FreeWritten(p) /\ FreeCommitted \in Int /\ FreeWritten(p) \in Int
  BY <1>1, <1>7, FreeTyped DEF FreeCommitted, FreeWritten
<1>9. FreeCommitted' >= 0
  <2> DEFINE C == FreeCommitted  D == FreeCommitted'  W == FreeWritten(p)
  <2>1. /\ D = C + W /\ C \in Int /\ W \in Int /\ C >= 0 /\ (W + b >= 0 \/ C + W + b >= 0)
    BY <1>1, <1>2, <1>8
  <2> HIDE DEF C, D, W
  <2>2. D >= 0
    BY <1>6, <2>1
  <2> QED BY <2>2 DEF D
<1>10. ASSUME holder[FreeRow] # p PROVE FreeCommitted' >= FreeCommitted
  <2>1. written[p][FreeRow] = 0
    BY <1>1, <1>10, FreeRows DEF LocksInv, WritesAreHeld
  <2>2. FreeWritten(p) >= 0
    BY <1>1, <2>1, FreeTyped DEF FreeWritten, OwnFree
  <2> QED BY <1>8, <2>2
<1> QED BY <1>9, <1>10

LEMMA NextFree == FreeBudgetCalls /\ FreeInv /\ [Next]_vars => FreeInv'
<1> SUFFICES ASSUME FreeBudgetCalls, FreeInv, [Next]_vars PROVE FreeInv'
  OBVIOUS
<1>0. TypeInv /\ TypeInv' /\ TidyInv /\ LocksInv
  BY NextTypes DEF FreeInv, TypeInv, TidyInv
<1>1. ASSUME NEW p \in Proc, Aside(p), FreeRow \notin unlocked, OwnFree(p)',
             holder[FreeRow] # p => FreeCommitted' >= FreeCommitted
      PROVE  \A q \in Proc : OwnFree(q)'
  <2> TAKE q \in Proc
  <2>1. CASE q = p
    BY <1>1, <2>1
  <2>2. CASE q # p
    <3>1. /\ program'[q] = program[q] /\ written'[q] = written[q]
          /\ holder'[FreeRow] = q <=> holder[FreeRow] = q
      BY <1>1, <2>2, FreeRows DEF Aside
    <3>2. OwnFree(q)
      BY <1>1 DEF FreeInv
    <3>3. holder[FreeRow] = q => FreeCommitted' >= FreeCommitted
      BY <1>1, <2>2
    <3> QED BY <1>0, <3>1, <3>2, <3>3, OthersFree
  <2> QED BY <2>1, <2>2
<1>2. FreeCommitted \in Int
  BY <1>0, FreeTyped DEF FreeCommitted
<1>3. ASSUME NEW p \in Proc, NEW req \in Requests, Begin(p, req) PROVE FreeInv'
  <2>1. /\ program'[p] = Started(req) /\ written'[p] = NoWrites
        /\ Aside(p) /\ UNCHANGED <<committed, unlocked>>
    BY <1>0, <1>3, BeginAside
  <2>2. OwnFree(p)'
    BY <2>1, StartedSpares, FreshFree
  <2>3. FreeCommitted' = FreeCommitted
    BY <2>1 DEF FreeCommitted
  <2>4. FreeRow \notin unlocked' => \A q \in Proc : OwnFree(q)'
    BY <1>1, <1>2, <2>1, <2>2, <2>3
  <2> QED BY <1>0, <2>1, <2>3, <2>4 DEF FreeInv
<1>4. ASSUME NEW p \in Proc, Step(p) PROVE FreeInv'
  <2> SUFFICES ASSUME FreeRow \notin unlocked'
               PROVE  FreeCommitted' >= 0 /\ \A q \in Proc : OwnFree(q)'
    BY <1>0 DEF FreeInv
  <2>1. FreeRow \notin unlocked
    BY <1>4 DEF Step, StartLocking, LockRow, CheckBalance, ReadValue, ApplyDelta, SkipZero, Commit,
                AbortDeadlocked
  <2>2. FreeCommitted >= 0
    BY <2>1 DEF FreeInv
  <2>3. ~Commit(p) => committed' = committed
    BY <1>4 DEF Step, StartLocking, LockRow, CheckBalance, ReadValue, ApplyDelta, SkipZero,
                AbortDeadlocked
  <2>4. /\ FreeCommitted' >= 0
        /\ holder[FreeRow] # p => FreeCommitted' >= FreeCommitted
    <3>1. CASE Commit(p)
      BY <2>1, <3>1, CommitFree
    <3>2. CASE ~Commit(p)
      <4>1. FreeCommitted' = FreeCommitted
        BY <2>3, <3>2 DEF FreeCommitted
      <4> QED BY <1>2, <2>2, <4>1
    <3> QED BY <3>1, <3>2
  <2>5. Aside(p) /\ OwnFree(p)'
    BY <1>0, <1>4, StepTidy, StepFree
  <2> QED BY <1>1, <2>1, <2>4, <2>5
<1>5. CASE UNCHANGED vars
  <2>1. FreeRow \notin unlocked => FreeCommitted >= 0 /\ \A p \in Proc : OwnFree(p)
    BY DEF FreeInv
  <2>2. FreeCommitted' = FreeCommitted /\ \A p \in Proc : OwnFree(p)' <=> OwnFree(p)
    BY <1>5 DEF vars, OwnFree, FreeCommitted, FreeWritten
  <2>3. unlocked' = unlocked
    BY <1>5 DEF vars
  <2> QED BY <1>0, <2>1, <2>2, <2>3 DEF FreeInv
<1> QED BY <1>3, <1>4, <1>5 DEF Next

\* Where nobody repays a card or archives a category, the free budget is below
\* zero only after some function has compared it without holding the row of
\* Unallocated: expenses, incomes, transfers, allocations and cancels that run
\* at once leave no other way, whatever others add to FX Result meanwhile.
THEOREM FreeBudgetOnlyUnlocked ==
    FreeBudgetCalls => (Spec => []FreeBudgetNeedsUnlockedCheck)
<1> SUFFICES ASSUME FreeBudgetCalls PROVE Spec => []FreeBudgetNeedsUnlockedCheck
  OBVIOUS
<1>1. Init => FreeInv
  BY InitFree
<1>2. FreeInv /\ [Next]_vars => FreeInv'
  BY NextFree
<1>3. FreeInv => FreeBudgetNeedsUnlockedCheck
  BY DEF FreeInv, FreeCommitted, FreeRow, ResultRow, FreeBudgetNeedsUnlockedCheck
<1> QED BY <1>1, <1>2, <1>3, PTL DEF Spec
=============================================================================
