---------------------- MODULE ScheduledExpensesProofs ----------------------
(***************************************************************************)
(* Proofs about ScheduledExpenses, for any number of processes, schedules   *)
(* and stops and any calendar: its types, that no occurrence is charged     *)
(* twice, that it implements ChargeOnce, that the next date is always one   *)
(* of the schedule's own days and that no date is passed over.              *)
(***************************************************************************)
EXTENDS ScheduledExpenses, RowSumsProofs

(***************************************************************************)
(* The calendar.                                                            *)
(***************************************************************************)
LEMMA MonthStartNatural ==
    ASSUME NEW m \in Month
    PROVE  /\ MonthStart(m) \in Nat \ {0}
           /\ MonthLengths[m] \in Nat \ {0}
           /\ MonthStart(m + 1) = MonthStart(m) + MonthLengths[m]
<1>1. m \in Nat /\ m >= 1 /\ m <= Len(MonthLengths) /\ Len(MonthLengths) \in Nat
  BY ScheduleAssumption, SMT DEF Month
<1>2. \A k \in 1..m : MonthLengths[k] \in Nat \ {0}
  BY <1>1, ScheduleAssumption, SMT
<1>3. SumTo(MonthLengths, m - 1) \in Nat
  <2>1. m - 1 \in Nat /\ \A k \in 1..(m - 1) : MonthLengths[k] \in Nat
    BY <1>1, <1>2, SMT
  <2> QED BY <2>1, SumToNatural
<1>4. SumTo(MonthLengths, m) = SumTo(MonthLengths, m - 1) + MonthLengths[m]
  <2>1. m - 1 \in Nat /\ (m - 1) + 1 = m
    BY <1>1, SMT
  <2> QED BY <2>1, SumToNext
<1>5. (m + 1) - 1 = m
  BY <1>1, SMT
<1> QED BY <1>1, <1>2, <1>3, <1>4, <1>5, SMT DEF MonthStart

LEMMA MonthOfDay ==
    ASSUME NEW d \in Day
    PROVE  /\ MonthOf(d) \in Month /\ MonthOf(d) + 1 \in Month
           /\ MonthStart(MonthOf(d)) <= d
           /\ d < MonthStart(MonthOf(d) + 1)
<1>1. MonthOf(d) \in Month /\ InMonth(d, MonthOf(d))
  BY CalendarAssumption DEF MonthOf
<1>2. MonthOf(d) + 1 \in Month
  BY <1>1, CalendarAssumption
<1> QED BY <1>1, <1>2, MonthStartNatural DEF InMonth

LEMMA DayInMonth ==
    ASSUME NEW m \in Month, NEW n \in Nat \ {0}
    PROVE  /\ DayIn(m, n) \in Nat \ {0}
           /\ MonthStart(m) <= DayIn(m, n) /\ DayIn(m, n) < MonthStart(m + 1)
<1>1. MonthStart(m) \in Nat \ {0} /\ MonthLengths[m] \in Nat \ {0}
      /\ MonthStart(m + 1) = MonthStart(m) + MonthLengths[m]
  BY MonthStartNatural
<1> QED BY <1>1, SMT DEF DayIn, Lesser

\* The next date of a schedule is later than the one it follows.
LEMMA FollowingIsLater ==
    ASSUME NEW s \in Schedule, NEW d \in Day
    PROVE  Following(s, d) \in Nat /\ Following(s, d) > d
<1>1. d \in Nat /\ WeekLength \in Nat \ {0} /\ DayOf[s] \in Nat \ {0}
  BY ScheduleAssumption, SMT DEF Day
<1>2. CASE Frequency[s] = "weekly"
  BY <1>1, <1>2, SMT DEF Following
<1>3. CASE Frequency[s] # "weekly"
  <2> DEFINE m == MonthOf(d)
  <2>1. m \in Month /\ m + 1 \in Month /\ d < MonthStart(m + 1)
    BY MonthOfDay
  <2>2. /\ DayIn(m + 1, DayOf[s]) \in Nat \ {0}
        /\ MonthStart(m + 1) <= DayIn(m + 1, DayOf[s])
        /\ MonthStart(m + 1) \in Nat
    BY <2>1, <1>1, DayInMonth, MonthStartNatural
  <2> HIDE DEF m
  <2>3. Following(s, d) = DayIn(m + 1, DayOf[s])
    BY <1>3 DEF Following, m
  <2> QED BY <1>1, <2>1, <2>2, <2>3, SMT
<1> QED BY <1>2, <1>3

\* The first date of a schedule is later than the day it is created.
LEMMA FirstRunIsLater ==
    ASSUME NEW s \in Schedule, NEW d \in Day
    PROVE  FirstRun(s, d) \in Nat \ {0}
<1>1. d \in Nat /\ d >= 1 /\ WeekLength \in Nat \ {0} /\ DayOf[s] \in Nat \ {0}
  BY ScheduleAssumption, SMT DEF Day
<1>2. CASE Frequency[s] = "weekly"
  <2>1. DayOfWeek(d + 1) \in Int
    BY <1>1, SMT DEF DayOfWeek
  <2>2. (DayOf[s] - DayOfWeek(d + 1) + WeekLength) % WeekLength \in Nat
    BY <1>1, <2>1, SMT
  <2> QED BY <1>1, <1>2, <2>2, SMT DEF FirstRun
<1>3. CASE Frequency[s] # "weekly"
  <2>1. MonthOf(d) \in Month /\ MonthOf(d) + 1 \in Month
    BY MonthOfDay
  <2>2. /\ DayIn(MonthOf(d), DayOf[s]) \in Nat \ {0}
        /\ DayIn(MonthOf(d) + 1, DayOf[s]) \in Nat \ {0}
    BY <2>1, <1>1, DayInMonth
  <2> QED BY <1>3, <2>2 DEF FirstRun
<1> QED BY <1>2, <1>3

(***************************************************************************)
(* The inductive invariant.  A row some claim holds is due by that claim's  *)
(* date, for whoever would change it has to wait; so what the claim takes   *)
(* lies at the row's next date, and everything taken before lies earlier.   *)
(***************************************************************************)
RowsInv ==
    /\ \A s \in Schedule : state[s] = "live" => next[s] # 0
    /\ \A s \in Schedule : locked[s] # Nobody => Due(s, day[locked[s]])
    /\ \A i \in Instance : day[i] <= today

ClaimedInv ==
    \A o \in claimed : /\ state[o[1]] # "new"
                       /\ o[2] < next[o[1]] /\ o[2] <= today

ItemsInv ==
    /\ \A i \in Instance : \A x \in items[i] :
          OccurrenceOf(x) \in claimed /\ charged[OccurrenceOf(x)] = 0
    /\ \A i, j \in Instance : \A x \in items[i], y \in items[j] :
          OccurrenceOf(x) = OccurrenceOf(y) => i = j /\ x = y

ChargedInv ==
    \A o \in Occurrence : charged[o] <= 1 /\ (charged[o] = 1 => o \in claimed)

IInv == TypeOK /\ RowsInv /\ ClaimedInv /\ ItemsInv /\ ChargedInv

LEMMA InitInv == Init => IInv
<1> SUFFICES ASSUME Init PROVE IInv
  OBVIOUS
<1> USE DEF Init
<1>1. FirstDay \in Day /\ 0 \in 0..LastDay /\ 0 \in 0..MaxStops /\ FirstDay >= 1
  BY ScheduleAssumption, SMT DEF Day
<1>2. TypeOK
  BY <1>1, SMT DEF TypeOK
<1>3. RowsInv
  BY <1>1, SMT DEF RowsInv, Day
<1>4. ClaimedInv /\ ItemsInv /\ ChargedInv
  BY SMT DEF ClaimedInv, ItemsInv, ChargedInv
<1> QED BY <1>2, <1>3, <1>4 DEF IInv

LEMMA NextDayInv == IInv /\ NextDay => IInv'
<1> SUFFICES ASSUME IInv, NextDay PROVE IInv'
  OBVIOUS
<1> USE DEF NextDay, table, process, history
<1>1. TypeOK'
  BY ScheduleAssumption, SMT DEF IInv, TypeOK, Day
<1>2. RowsInv'
  BY SMT DEF IInv, TypeOK, RowsInv, Due, Day
<1>3. ClaimedInv' /\ ItemsInv' /\ ChargedInv'
  BY SMT DEF IInv, TypeOK, ClaimedInv, ItemsInv, ChargedInv, Day, OccurrenceOf, Occurrence
<1> QED BY <1>1, <1>2, <1>3 DEF IInv

LEMMA CreateInv == ASSUME NEW s \in Schedule PROVE IInv /\ Create(s) => IInv'
<1> SUFFICES ASSUME IInv, Create(s) PROVE IInv'
  OBVIOUS
<1> USE DEF Create, table, process, history
<1>1. FirstRun(s, today) \in Nat \ {0}
  BY FirstRunIsLater DEF IInv, TypeOK
<1>2. TypeOK'
  BY <1>1, SMT DEF IInv, TypeOK
<1>3. RowsInv'
  BY <1>1, SMT DEF IInv, TypeOK, RowsInv, Due
<1>4. \A o \in claimed : o[1] \in Schedule /\ o[1] # s
  BY SMT DEF IInv, TypeOK, ClaimedInv, Occurrence
<1>5. ClaimedInv' /\ ItemsInv' /\ ChargedInv'
  BY <1>4, SMT DEF IInv, TypeOK, ClaimedInv, ItemsInv, ChargedInv, OccurrenceOf
<1> QED BY <1>2, <1>3, <1>5 DEF IInv

LEMMA DeleteInv == ASSUME NEW s \in Schedule PROVE IInv /\ Delete(s) => IInv'
<1> SUFFICES ASSUME IInv, Delete(s) PROVE IInv'
  OBVIOUS
<1> USE DEF Delete, table, process, history
<1>1. TypeOK'
  BY SMT DEF IInv, TypeOK
<1>2. RowsInv'
  BY SMT DEF IInv, TypeOK, RowsInv, Due
<1>3. ClaimedInv' /\ ItemsInv' /\ ChargedInv'
  BY SMT DEF IInv, TypeOK, ClaimedInv, ItemsInv, ChargedInv, OccurrenceOf, Occurrence
<1> QED BY <1>1, <1>2, <1>3 DEF IInv

LEMMA StartClaimInv == ASSUME NEW i \in Instance PROVE IInv /\ StartClaim(i) => IInv'
<1> SUFFICES ASSUME IInv, StartClaim(i) PROVE IInv'
  OBVIOUS
<1> USE DEF StartClaim, table, process, history
<1>1. TypeOK'
  BY SMT DEF IInv, TypeOK
<1>2. \A s \in Schedule : locked[s] # i
  <2>1. i # Nobody /\ at[i] = "asleep"
    BY ScheduleAssumption
  <2>2. \A s \in Schedule : locked[s] # Nobody => at[locked[s]] = "claiming"
    BY DEF IInv, TypeOK
  <2> QED BY <2>1, <2>2, SMT
<1>3. RowsInv'
  BY <1>2, SMT DEF IInv, TypeOK, RowsInv, Due, Day
<1>4. ClaimedInv' /\ ItemsInv' /\ ChargedInv'
  BY SMT DEF IInv, TypeOK, ClaimedInv, ItemsInv, ChargedInv, OccurrenceOf
<1> QED BY <1>1, <1>3, <1>4 DEF IInv

LEMMA LockOrSkipInv == ASSUME NEW i \in Instance PROVE IInv /\ LockOrSkip(i) => IInv'
<1> SUFFICES ASSUME IInv, LockOrSkip(i) PROVE IInv'
  OBVIOUS
<1> USE DEF LockOrSkip, table, process, history
<1>1. TypeOK'
  BY SMT DEF IInv, TypeOK
<1>2. RowsInv'
  BY ScheduleAssumption, SMT DEF IInv, TypeOK, RowsInv, Due
<1>3. ClaimedInv' /\ ItemsInv' /\ ChargedInv'
  BY SMT DEF IInv, TypeOK, ClaimedInv, ItemsInv, ChargedInv, OccurrenceOf
<1> QED BY <1>1, <1>2, <1>3 DEF IInv

(***************************************************************************)
(* The shift, whoever takes its answer: it claims occurrences nobody has    *)
(* claimed, and leaves the rows past them.                                  *)
(***************************************************************************)
New(i) == {<<s, next[s]>> : s \in Held(i)}

LEMMA HeldIsDue ==
    ASSUME IInv, NEW i \in Instance, NEW s \in Held(i)
    PROVE  /\ s \in Schedule /\ state[s] = "live"
           /\ next[s] \in Day /\ next[s] <= day[i] /\ next[s] <= today
           /\ Following(s, next[s]) \in Nat /\ Following(s, next[s]) > next[s]
<1>1. s \in Schedule /\ locked[s] = i
  BY DEF Held
<1>2. state[s] = "live" /\ next[s] <= day[i] /\ next[s] \in Nat /\ next[s] # 0
  BY <1>1, ScheduleAssumption, SMT DEF IInv, TypeOK, RowsInv, Due
<1>3. next[s] \in Day /\ next[s] <= today
  BY <1>2, ScheduleAssumption, SMT DEF IInv, TypeOK, RowsInv, Day
<1> QED BY <1>1, <1>2, <1>3, FollowingIsLater

LEMMA NewIsUnclaimed ==
    ASSUME IInv, NEW i \in Instance
    PROVE  /\ New(i) \subseteq Occurrence
           /\ \A o \in New(i) : o \notin claimed /\ charged[o] = 0 /\ o[2] <= today
<1> SUFFICES ASSUME NEW s \in Held(i)
             PROVE  /\ <<s, next[s]>> \in Occurrence
                    /\ <<s, next[s]>> \notin claimed
                    /\ charged[<<s, next[s]>>] = 0
                    /\ next[s] <= today
  BY SMT DEF New
<1>1. s \in Schedule /\ next[s] \in Day /\ next[s] <= today
  BY HeldIsDue
<1>2. <<s, next[s]>> \in Occurrence
  BY <1>1 DEF Occurrence
<1>3. <<s, next[s]>> \notin claimed
  BY <1>1, SMT DEF IInv, ClaimedInv, Day
<1>4. charged[<<s, next[s]>>] = 0
  BY <1>2, <1>3, SMT DEF IInv, TypeOK, ChargedInv
<1> QED BY <1>1, <1>2, <1>3, <1>4

LEMMA ShiftInv ==
    ASSUME IInv, NEW i \in Instance, Shift(i), Release(i), UNCHANGED <<today, day>>
    PROVE  /\ next' \in [Schedule -> Nat] /\ last' \in [Schedule -> 0..LastDay]
           /\ locked' \in [Schedule -> Instance \cup {Nobody}]
           /\ \A s \in Schedule : locked'[s] # Nobody =>
                 locked'[s] # i /\ locked'[s] = locked[s]
           /\ claimed' = claimed \cup New(i) /\ claimed' \subseteq Occurrence
           /\ RowsInv' /\ ClaimedInv'
<1>1. /\ next' = [s \in Schedule |-> IF s \in Held(i) THEN Following(s, next[s]) ELSE next[s]]
      /\ state' = state /\ today' = today /\ day' = day
  BY SMT DEF Shift
<1>2. /\ \A s \in Held(i) : next'[s] = Following(s, next[s]) /\ next'[s] \in Nat
                            /\ next[s] < next'[s] /\ state[s] = "live"
      /\ \A s \in Schedule \ Held(i) : next'[s] = next[s]
  BY <1>1, HeldIsDue DEF Held
<1>3. next' \in [Schedule -> Nat] /\ \A s \in Schedule : next[s] <= next'[s]
  <2>1. \A s \in Schedule : next'[s] \in Nat /\ next[s] <= next'[s]
    BY <1>2, SMT DEF IInv, TypeOK
  <2> QED BY <1>1, <2>1, SMT
<1>4. last' \in [Schedule -> 0..LastDay]
  <2>1. day[i] \in 0..LastDay
    BY SMT DEF IInv, TypeOK, Day
  <2> QED BY <2>1, SMT DEF Shift, IInv, TypeOK
<1>5. /\ locked' \in [Schedule -> Instance \cup {Nobody}]
      /\ \A s \in Schedule : locked'[s] # Nobody => locked'[s] # i /\ locked'[s] = locked[s]
  BY ScheduleAssumption, SMT DEF Release, IInv, TypeOK
<1>6. claimed' = claimed \cup New(i) /\ claimed' \subseteq Occurrence
  BY NewIsUnclaimed DEF Shift, New, IInv, TypeOK
<1>7. RowsInv'
  <2>1. \A s \in Schedule : state'[s] = "live" => next'[s] # 0
    BY <1>1, <1>3, SMT DEF IInv, TypeOK, RowsInv
  <2>2. \A s \in Schedule : locked'[s] # Nobody => Due(s, day[locked[s]])'
    <3> SUFFICES ASSUME NEW s \in Schedule, locked'[s] # Nobody
                 PROVE  state[s] = "live" /\ next'[s] <= day[locked'[s]]
      BY <1>1 DEF Due
    <3>1. s \notin Held(i) /\ locked'[s] = locked[s]
      BY <1>5 DEF Held
    <3>2. Due(s, day[locked[s]])
      BY <3>1 DEF IInv, RowsInv
    <3> QED BY <1>2, <3>1, <3>2 DEF Due
  <2>3. \A j \in Instance : day'[j] <= today'
    BY <1>1 DEF IInv, RowsInv
  <2> QED BY <2>1, <2>2, <2>3 DEF RowsInv
<1>8. ClaimedInv'
  <2> SUFFICES ASSUME NEW o \in claimed'
               PROVE  state[o[1]] # "new" /\ o[2] < next'[o[1]] /\ o[2] <= today
    BY <1>1 DEF ClaimedInv
  <2>1. CASE o \in claimed
    <3>1. o[1] \in Schedule /\ o[2] \in Nat
      BY <2>1, SMT DEF IInv, TypeOK, Occurrence, Day
    <3>2. state[o[1]] # "new" /\ o[2] < next[o[1]] /\ o[2] <= today
      BY <2>1 DEF IInv, ClaimedInv
    <3>3. next[o[1]] \in Nat /\ next'[o[1]] \in Nat /\ next[o[1]] <= next'[o[1]]
      BY <3>1, <1>3 DEF IInv, TypeOK
    <3> QED BY <3>1, <3>2, <3>3, SMT
  <2>2. CASE o \in New(i)
    <3>1. PICK s \in Held(i) : o = <<s, next[s]>>
      BY <2>2 DEF New
    <3> QED BY <3>1, <1>2, HeldIsDue
  <2> QED BY <1>6, <2>1, <2>2
<1> QED BY <1>3, <1>4, <1>5, <1>6, <1>7, <1>8

LEMMA CommitClaimInv == ASSUME NEW i \in Instance PROVE IInv /\ CommitClaim(i) => IInv'
<1> SUFFICES ASSUME IInv, CommitClaim(i) PROVE IInv'
  OBVIOUS
<1>1. /\ Shift(i) /\ Release(i) /\ at[i] = "claiming"
      /\ UNCHANGED <<today, found, day, failed, stops, charged>>
  BY DEF CommitClaim
<1>2. PICK account \in [Held(i) -> BOOLEAN] :
         items' = [items EXCEPT ![i] = {[schedule |-> s, due |-> next[s],
                                         account |-> account[s]] : s \in Held(i)}]
  BY DEF CommitClaim
<1>3. at' = [at EXCEPT ![i] = IF Held(i) = {} THEN "asleep" ELSE "working"]
  BY DEF CommitClaim
<1>4. /\ next' \in [Schedule -> Nat] /\ last' \in [Schedule -> 0..LastDay]
      /\ locked' \in [Schedule -> Instance \cup {Nobody}]
      /\ \A s \in Schedule : locked'[s] # Nobody => locked'[s] # i /\ locked'[s] = locked[s]
      /\ claimed' = claimed \cup New(i) /\ claimed' \subseteq Occurrence
      /\ RowsInv' /\ ClaimedInv'
  BY <1>1, ShiftInv, SMT
<1>5. \A x \in items'[i] : /\ x \in Item /\ OccurrenceOf(x) \in New(i)
                           /\ x.account = account[x.schedule]
  <2>1. items'[i] = {[schedule |-> s, due |-> next[s], account |-> account[s]] : s \in Held(i)}
    BY <1>2, SMT DEF IInv, TypeOK
  <2> SUFFICES ASSUME NEW s \in Held(i),
                      NEW x, x = [schedule |-> s, due |-> next[s], account |-> account[s]]
               PROVE  x \in Item /\ OccurrenceOf(x) \in New(i) /\ x.account = account[x.schedule]
    BY <2>1, SMT
  <2>2. s \in Schedule /\ next[s] \in Day /\ account[s] \in BOOLEAN
    BY HeldIsDue
  <2>3. x \in Item /\ x.schedule = s /\ x.due = next[s] /\ x.account = account[s]
    BY <2>2, SMT DEF Item
  <2>4. OccurrenceOf(x) = <<s, next[s]>>
    BY <2>3, SMT DEF OccurrenceOf
  <2> QED BY <2>3, <2>4 DEF New
<1>6. \A j \in Instance : j # i => items'[j] = items[j] /\ at'[j] = at[j]
  BY <1>2, <1>3, SMT DEF IInv, TypeOK
<1>7. items[i] = {} /\ (at'[i] = "asleep" => items'[i] = {}) /\ at'[i] \in {"asleep", "working"}
  <2>1. items[i] = {}
    BY <1>1, SMT DEF IInv, TypeOK
  <2>2. at'[i] = IF Held(i) = {} THEN "asleep" ELSE "working"
    BY <1>3, SMT DEF IInv, TypeOK
  <2>3. Held(i) = {} => items'[i] = {}
    BY <1>2, SMT DEF IInv, TypeOK
  <2> QED BY <2>1, <2>2, <2>3, SMT
<1>8. TypeOK'
  <2>1. items' \in [Instance -> SUBSET Item]
    BY <1>2, <1>5, <1>6, SMT DEF IInv, TypeOK
  <2>2. at' \in [Instance -> {"asleep", "claiming", "working", "storing"}]
    BY <1>3, SMT DEF IInv, TypeOK
  <2>3. \A s \in Schedule : locked'[s] # Nobody => at'[locked'[s]] = "claiming"
    <3> SUFFICES ASSUME NEW s \in Schedule, locked'[s] # Nobody
                 PROVE  at'[locked'[s]] = "claiming"
      OBVIOUS
    <3>1. locked'[s] \in Instance /\ locked'[s] # i /\ locked'[s] = locked[s]
      BY <1>4, SMT
    <3> QED BY <3>1, <1>6, SMT DEF IInv, TypeOK
  <2>4. \A j \in Instance : at'[j] \in {"asleep", "claiming"} => items'[j] = {}
    BY <1>6, <1>7, SMT DEF IInv, TypeOK
  <2> QED BY <1>1, <1>4, <2>1, <2>2, <2>3, <2>4, SMT DEF Shift, IInv, TypeOK
<1>9. ItemsInv'
  <2>1. \A j \in Instance : \A x \in items'[j] :
           OccurrenceOf(x) \in claimed' /\ charged'[OccurrenceOf(x)] = 0
    <3> SUFFICES ASSUME NEW j \in Instance, NEW x \in items'[j]
                 PROVE  OccurrenceOf(x) \in claimed' /\ charged[OccurrenceOf(x)] = 0
      BY <1>1, SMT
    <3>1. CASE j = i
      BY <3>1, <1>4, <1>5, NewIsUnclaimed
    <3>2. CASE j # i
      BY <3>2, <1>4, <1>6 DEF IInv, ItemsInv
    <3> QED BY <3>1, <3>2
  <2>2. ASSUME NEW j \in Instance, NEW k \in Instance,
               NEW x \in items'[j], NEW y \in items'[k], OccurrenceOf(x) = OccurrenceOf(y)
        PROVE  j = k /\ x = y
    <3>1. CASE j = i /\ k = i
      <4>1. x \in Item /\ y \in Item /\ x.account = account[x.schedule]
            /\ y.account = account[y.schedule]
        BY <3>1, <1>5
      <4>2. x.schedule = y.schedule /\ x.due = y.due
        BY <2>2, SMT DEF OccurrenceOf
      <4>3. x = y
        BY <4>1, <4>2, SMT DEF Item
      <4> QED BY <3>1, <4>3
    <3>2. CASE j = i /\ k # i
      <4>1. OccurrenceOf(x) \notin claimed
        BY <3>2, <1>5, NewIsUnclaimed
      <4>2. OccurrenceOf(y) \in claimed
        BY <3>2, <1>6 DEF IInv, ItemsInv
      <4> QED BY <2>2, <4>1, <4>2
    <3>3. CASE j # i /\ k = i
      <4>1. OccurrenceOf(y) \notin claimed
        BY <3>3, <1>5, NewIsUnclaimed
      <4>2. OccurrenceOf(x) \in claimed
        BY <3>3, <1>6 DEF IInv, ItemsInv
      <4> QED BY <2>2, <4>1, <4>2
    <3>4. CASE j # i /\ k # i
      BY <2>2, <3>4, <1>6 DEF IInv, ItemsInv
    <3> QED BY <3>1, <3>2, <3>3, <3>4
  <2> QED BY <2>1, <2>2 DEF ItemsInv
<1>10. ChargedInv'
  BY <1>1, <1>4, SMT DEF IInv, ChargedInv
<1> QED BY <1>4, <1>8, <1>9, <1>10 DEF IInv

(***************************************************************************)
(* An expense is recorded for an item that then leaves the process's hands. *)
(***************************************************************************)
LEMMA ChargeInv ==
    ASSUME IInv, NEW i \in Instance, NEW item \in items[i],
           NEW rest \in SUBSET (items[i] \ {item}),
           items' = [items EXCEPT ![i] = rest],
           claimed' = claimed,
           Charge(item) \/ charged' = charged
    PROVE  /\ charged' \in [Occurrence -> Nat]
           /\ items' \in [Instance -> SUBSET Item]
           /\ ItemsInv' /\ ChargedInv'
           /\ \A o \in Occurrence : charged'[o] = charged[o]
                 \/ (o = OccurrenceOf(item) /\ charged[o] = 0 /\ charged'[o] = 1)
<1> DEFINE new == OccurrenceOf(item)
<1>1. new \in claimed /\ new \in Occurrence /\ charged[new] = 0
  BY DEF IInv, ItemsInv, TypeOK
<1>2. /\ charged' \in [Occurrence -> Nat]
      /\ \A o \in Occurrence : charged'[o] = charged[o]
            \/ (o = new /\ charged[o] = 0 /\ charged'[o] = 1)
  <2> HIDE DEF new
  <2>0. charged \in [Occurrence -> Nat]
    BY DEF IInv, TypeOK
  <2>1. CASE charged' = charged
    BY <2>0, <2>1
  <2>2. CASE charged' = [charged EXCEPT ![new] = @ + 1]
    <3>1. charged' \in [Occurrence -> Nat]
      BY <1>1, <2>0, <2>2, SMT
    <3>2. charged'[new] = 1
      BY <1>1, <2>0, <2>2, SMT
    <3>3. \A o \in Occurrence : o # new => charged'[o] = charged[o]
      BY <2>0, <2>2, SMT
    <3> QED BY <1>1, <3>1, <3>2, <3>3
  <2> QED BY <2>1, <2>2 DEF Charge, new
<1>3. /\ items' \in [Instance -> SUBSET Item]
      /\ \A j \in Instance : items'[j] \subseteq items[j]
      /\ item \notin items'[i]
  BY SMT DEF IInv, TypeOK
<1>4. \A j \in Instance : \A x \in items'[j] : x \in items[j] /\ OccurrenceOf(x) # new
  <2> SUFFICES ASSUME NEW j \in Instance, NEW x \in items'[j], OccurrenceOf(x) = new
               PROVE  FALSE
    BY <1>3
  <2>1. j = i /\ x = item
    BY <1>3 DEF IInv, ItemsInv
  <2> QED BY <2>1, <1>3
<1>5. ItemsInv'
  <2> HIDE DEF new
  <2>1. \A j \in Instance : \A x \in items'[j] :
           OccurrenceOf(x) \in claimed' /\ charged'[OccurrenceOf(x)] = 0
    <3> SUFFICES ASSUME NEW j \in Instance, NEW x \in items'[j]
                 PROVE  OccurrenceOf(x) \in claimed /\ charged'[OccurrenceOf(x)] = 0
      OBVIOUS
    <3>1. OccurrenceOf(x) \in claimed /\ charged[OccurrenceOf(x)] = 0
      BY <1>4 DEF IInv, ItemsInv
    <3>2. OccurrenceOf(x) \in Occurrence /\ OccurrenceOf(x) # new
      BY <1>4, <3>1 DEF IInv, TypeOK
    <3> QED BY <1>2, <3>1, <3>2
  <2> QED BY <2>1, <1>4 DEF IInv, ItemsInv
<1>6. ChargedInv'
  <2> HIDE DEF new
  <2> QED BY <1>1, <1>2, SMT DEF IInv, TypeOK, ChargedInv
<1> QED BY <1>2, <1>3, <1>5, <1>6

LEMMA RecordExpenseInv == ASSUME NEW i \in Instance PROVE IInv /\ RecordExpense(i) => IInv'
<1> SUFFICES ASSUME IInv, RecordExpense(i) PROVE IInv'
  OBVIOUS
<1>1. PICK item \in items[i] :
         /\ items' = [items EXCEPT ![i] = items[i] \ {item}]
         /\ found' = [found EXCEPT ![i] = {item.schedule}]
         /\ Charge(item) \/ charged' = charged
         /\ failed' = [failed EXCEPT ![i] = TRUE] \/ failed' = [failed EXCEPT ![i] = FALSE]
  BY DEF RecordExpense
<1>2. /\ at[i] = "working" /\ at' = [at EXCEPT ![i] = "storing"]
      /\ UNCHANGED <<today, state, next, last, error, locked, day, stops, claimed>>
  BY SMT DEF RecordExpense, table
<1>3. /\ charged' \in [Occurrence -> Nat] /\ items' \in [Instance -> SUBSET Item]
      /\ ItemsInv' /\ ChargedInv'
  <2>1. items[i] \ {item} \in SUBSET (items[i] \ {item}) /\ claimed' = claimed
    BY <1>2, SMT
  <2> QED BY <1>1, <2>1, ChargeInv
<1>4. TypeOK'
  <2>1. item.schedule \in Schedule
    BY SMT DEF IInv, TypeOK, Item
  <2>2. found' \in [Instance -> SUBSET Schedule]
    BY <1>1, <2>1, SMT DEF IInv, TypeOK
  <2>5. failed' \in [Instance -> BOOLEAN]
    <3>1. failed \in [Instance -> BOOLEAN] /\ TRUE \in BOOLEAN /\ FALSE \in BOOLEAN
      BY DEF IInv, TypeOK
    <3>2. \A b \in BOOLEAN : [failed EXCEPT ![i] = b] \in [Instance -> BOOLEAN]
      BY <3>1, Zenon
    <3> QED BY <1>1, <3>1, <3>2
  <2>3. \A s \in Schedule : locked'[s] # Nobody => at'[locked'[s]] = "claiming"
    BY <1>2, SMT DEF IInv, TypeOK
  <2>4. \A j \in Instance : at'[j] \in {"asleep", "claiming"} => items'[j] = {}
    BY <1>1, <1>2, SMT DEF IInv, TypeOK
  <2>6. /\ today' \in Day /\ stops' \in 0..MaxStops /\ claimed' \subseteq Occurrence
        /\ state' \in [Schedule -> {"new", "live", "deleted"}]
        /\ next' \in [Schedule -> Nat] /\ last' \in [Schedule -> 0..LastDay]
        /\ error' \in [Schedule -> BOOLEAN]
        /\ locked' \in [Schedule -> Instance \cup {Nobody}] /\ day' \in [Instance -> Day]
    BY <1>2, SMT DEF IInv, TypeOK
  <2>7. at' \in [Instance -> {"asleep", "claiming", "working", "storing"}]
    BY <1>2, SMT DEF IInv, TypeOK
  <2> QED BY <1>3, <2>2, <2>3, <2>4, <2>5, <2>6, <2>7 DEF TypeOK
<1>5. RowsInv' /\ ClaimedInv'
  BY <1>2, SMT DEF IInv, RowsInv, ClaimedInv, Due
<1> QED BY <1>3, <1>4, <1>5 DEF IInv

LEMMA StoreResultInv == ASSUME NEW i \in Instance PROVE IInv /\ StoreResult(i) => IInv'
<1> SUFFICES ASSUME IInv, StoreResult(i) PROVE IInv'
  OBVIOUS
<1> USE DEF StoreResult, history
<1>1. TypeOK'
  BY SMT DEF IInv, TypeOK
<1>2. RowsInv' /\ ClaimedInv'
  BY SMT DEF IInv, RowsInv, ClaimedInv, Due
<1>3. ItemsInv' /\ ChargedInv'
  BY SMT DEF IInv, ItemsInv, ChargedInv, OccurrenceOf
<1> QED BY <1>1, <1>2, <1>3 DEF IInv

\* what a process that stops leaves behind, whatever became of its statement
Stopped(i) ==
    /\ at' = [at EXCEPT ![i] = "asleep"]
    /\ found' = [found EXCEPT ![i] = {}]
    /\ items' = [items EXCEPT ![i] = {}]
    /\ Release(i)
    /\ stops' \in 0..MaxStops
    /\ UNCHANGED <<today, day, failed>>

LEMMA StoppedInv ==
    ASSUME IInv, NEW i \in Instance, Stopped(i)
    PROVE  /\ at' \in [Instance -> {"asleep", "claiming", "working", "storing"}]
           /\ found' \in [Instance -> SUBSET Schedule]
           /\ items' \in [Instance -> SUBSET Item]
           /\ locked' \in [Schedule -> Instance \cup {Nobody}]
           /\ \A s \in Schedule : locked'[s] # Nobody => locked'[s] = locked[s]
           /\ \A s \in Schedule : locked'[s] # Nobody => at'[locked'[s]] = "claiming"
           /\ \A j \in Instance : at'[j] \in {"asleep", "claiming"} => items'[j] = {}
           /\ \A j \in Instance : items'[j] \subseteq items[j]
<1>1. at' \in [Instance -> {"asleep", "claiming", "working", "storing"}]
  BY SMT DEF Stopped, IInv, TypeOK
<1>2. found' \in [Instance -> SUBSET Schedule] /\ items' \in [Instance -> SUBSET Item]
  BY SMT DEF Stopped, IInv, TypeOK
<1>3. /\ locked' \in [Schedule -> Instance \cup {Nobody}]
      /\ \A s \in Schedule : locked'[s] # Nobody => locked'[s] = locked[s] /\ locked'[s] # i
  BY ScheduleAssumption, SMT DEF Stopped, Release, IInv, TypeOK
<1>4. \A s \in Schedule : locked'[s] # Nobody => at'[locked'[s]] = "claiming"
  <2> SUFFICES ASSUME NEW s \in Schedule, locked'[s] # Nobody
               PROVE  at'[locked'[s]] = "claiming"
    OBVIOUS
  <2>1. locked'[s] \in Instance /\ locked'[s] # i /\ locked'[s] = locked[s]
    BY <1>3, SMT
  <2> QED BY <2>1, SMT DEF Stopped, IInv, TypeOK
<1>5. /\ \A j \in Instance : at'[j] \in {"asleep", "claiming"} => items'[j] = {}
      /\ \A j \in Instance : items'[j] \subseteq items[j]
  BY SMT DEF Stopped, IInv, TypeOK
<1> QED BY <1>1, <1>2, <1>3, <1>4, <1>5

LEMMA StopInv == ASSUME NEW i \in Instance PROVE IInv /\ Stop(i) => IInv'
<1> SUFFICES ASSUME IInv, Stop(i) PROVE IInv'
  OBVIOUS
<1>1. Stopped(i)
  <2>1. stops' \in 0..MaxStops
    BY ScheduleAssumption, SMT DEF Stop, IInv, TypeOK
  <2> QED BY <2>1 DEF Stop, Stopped
<1>2. /\ at' \in [Instance -> {"asleep", "claiming", "working", "storing"}]
      /\ found' \in [Instance -> SUBSET Schedule]
      /\ items' \in [Instance -> SUBSET Item]
      /\ locked' \in [Schedule -> Instance \cup {Nobody}]
      /\ \A s \in Schedule : locked'[s] # Nobody => locked'[s] = locked[s]
      /\ \A s \in Schedule : locked'[s] # Nobody => at'[locked'[s]] = "claiming"
      /\ \A j \in Instance : at'[j] \in {"asleep", "claiming"} => items'[j] = {}
      /\ \A j \in Instance : items'[j] \subseteq items[j]
  BY <1>1, StoppedInv
<1>3. UNCHANGED <<today, day, failed>> /\ stops' \in 0..MaxStops
  BY <1>1 DEF Stopped
<1>4. CASE UNCHANGED <<table, history>>
  <2> USE DEF table, history
  <2>1. TypeOK'
    BY <1>2, <1>3, <1>4, SMT DEF IInv, TypeOK
  <2>2. RowsInv' /\ ClaimedInv'
    BY <1>2, <1>3, <1>4, SMT DEF IInv, RowsInv, ClaimedInv, Due
  <2>3. ItemsInv' /\ ChargedInv'
    BY <1>2, <1>4, SMT DEF IInv, ItemsInv, ChargedInv, OccurrenceOf
  <2> QED BY <2>1, <2>2, <2>3 DEF IInv
<1>5. CASE Shift(i) /\ UNCHANGED charged
  <2>1. /\ next' \in [Schedule -> Nat] /\ last' \in [Schedule -> 0..LastDay]
        /\ claimed' = claimed \cup New(i) /\ claimed' \subseteq Occurrence
        /\ RowsInv' /\ ClaimedInv'
    BY <1>1, <1>3, <1>5, ShiftInv, SMT DEF Stopped
  <2>2. TypeOK'
    BY <1>2, <1>3, <1>5, <2>1, SMT DEF Shift, IInv, TypeOK
  <2>3. ItemsInv' /\ ChargedInv'
    BY <1>2, <1>5, <2>1, SMT DEF IInv, ItemsInv, ChargedInv, OccurrenceOf
  <2> QED BY <2>1, <2>2, <2>3 DEF IInv
<1>6. CASE UNCHANGED <<table, claimed>> /\ \E item \in items[i] : Charge(item)
  <2> USE DEF table
  <2>1. PICK item \in items[i] : Charge(item)
    BY <1>6
  <2>2. items' = [items EXCEPT ![i] = {}] /\ claimed' = claimed
    BY <1>1, <1>6, SMT DEF Stopped
  <2>3. charged' \in [Occurrence -> Nat] /\ ItemsInv' /\ ChargedInv'
    <3>1. {} \in SUBSET (items[i] \ {item})
      OBVIOUS
    <3> QED BY <2>1, <2>2, <3>1, ChargeInv
  <2>4. TypeOK'
    BY <1>2, <1>3, <1>6, <2>3, SMT DEF IInv, TypeOK
  <2>5. RowsInv' /\ ClaimedInv'
    BY <1>2, <1>3, <1>6, SMT DEF IInv, RowsInv, ClaimedInv, Due
  <2> QED BY <2>3, <2>4, <2>5 DEF IInv
<1> QED BY <1>4, <1>5, <1>6 DEF Stop

LEMMA StepInv == IInv /\ [Next]_vars => IInv'
<1> SUFFICES ASSUME IInv, [Next]_vars PROVE IInv'
  OBVIOUS
<1>1. CASE NextDay
  BY <1>1, NextDayInv
<1>2. ASSUME NEW s \in Schedule, Create(s) \/ Delete(s) PROVE IInv'
  BY <1>2, CreateInv, DeleteInv
<1>3. ASSUME NEW i \in Instance, Work(i) \/ Stop(i) PROVE IInv'
  BY <1>3, StartClaimInv, LockOrSkipInv, CommitClaimInv, RecordExpenseInv, StoreResultInv,
     StopInv DEF Work
<1>4. CASE UNCHANGED vars
  <2> USE <1>4 DEF vars, table, process, history
  <2>1. TypeOK'
    BY SMT DEF IInv, TypeOK
  <2>2. RowsInv' /\ ClaimedInv'
    BY SMT DEF IInv, RowsInv, ClaimedInv, Due
  <2>3. ItemsInv' /\ ChargedInv'
    BY SMT DEF IInv, ItemsInv, ChargedInv, OccurrenceOf
  <2> QED BY <2>1, <2>2, <2>3 DEF IInv
<1> QED BY <1>1, <1>2, <1>3, <1>4 DEF Next

\* Every reachable state has the types declared: dates, holders, items.
THEOREM TypeCorrect == Spec => []TypeOK
<1>1. IInv => TypeOK
  BY DEF IInv
<1> QED BY InitInv, StepInv, <1>1, PTL DEF Spec

\* "The same row is got neither by two instances of the API nor by another
\* pass after a restart" (scheduler.py): no occurrence is charged twice, none
\* before its day, and no two runs hold the same one.
THEOREM ChargedOnce == Spec => []ChargedAtMostOnce
<1>1. IInv => ChargedAtMostOnce
  <2> SUFFICES ASSUME IInv PROVE ChargedAtMostOnce
    OBVIOUS
  <2>1. \A o \in Occurrence : charged[o] = 1 => o \in claimed /\ o[2] <= today
    BY DEF IInv, ChargedInv, ClaimedInv
  <2> QED BY <2>1 DEF ChargedAtMostOnce, IInv, ChargedInv, ItemsInv
<1> QED BY InitInv, StepInv, <1>1, PTL DEF Spec

(***************************************************************************)
(* Refinement: the processes, their rows and their locks implement the      *)
(* contract of ChargeOnce.                                                  *)
(***************************************************************************)
LEMMA InitContract == Init => Contract!Init
<1> SUFFICES ASSUME Init PROVE Contract!Init
  OBVIOUS
<1>1. today \in Day
  BY ScheduleAssumption, SMT DEF Init, Day
<1>2. Open = {}
  BY DEF Init, Open
<1> QED BY <1>1, <1>2 DEF Init, Contract!Init, Contract!Occurrence, Occurrence

\* a step that leaves the items with their processes keeps Open
LEMMA OpenSame == items' = items => Open' = Open
  BY DEF Open, OccurrenceOf

LEMMA ClaimStep ==
    ASSUME IInv, NEW i \in Instance, Shift(i), UNCHANGED <<today, charged>>,
           Open \subseteq Open', Open' \subseteq Open \cup New(i)
    PROVE  Contract!Claim
<1>1. claimed' = claimed \cup New(i)
  BY DEF Shift, New
<1>2. \A o \in New(i) : o \notin claimed /\ o[2] <= today
  BY NewIsUnclaimed
<1> QED BY <1>1, <1>2, SMT DEF Contract!Claim

LEMMA CommitClaimStep ==
    ASSUME IInv, NEW i \in Instance, CommitClaim(i)
    PROVE  Contract!Claim
<1>1. PICK account \in [Held(i) -> BOOLEAN] :
         items' = [items EXCEPT ![i] = {[schedule |-> s, due |-> next[s],
                                         account |-> account[s]] : s \in Held(i)}]
  BY DEF CommitClaim
<1>2. items[i] = {}
  BY SMT DEF CommitClaim, IInv, TypeOK
<1>3. \A j \in Instance : j # i => items'[j] = items[j]
  BY <1>1, SMT DEF IInv, TypeOK
<1>4. \A x \in items'[i] : OccurrenceOf(x) \in New(i)
  <2>1. items'[i] = {[schedule |-> s, due |-> next[s], account |-> account[s]] : s \in Held(i)}
    BY <1>1, SMT DEF IInv, TypeOK
  <2> QED BY <2>1, SMT DEF OccurrenceOf, New
<1>5. Open \subseteq Open'
  <2> SUFFICES ASSUME NEW j \in Instance, NEW x \in items[j]
               PROVE  x \in UNION {items'[k] : k \in Instance}
    BY DEF Open, OccurrenceOf
  <2> QED BY <1>2, <1>3
<1>6. Open' \subseteq Open \cup New(i)
  <2> SUFFICES ASSUME NEW j \in Instance, NEW x \in items'[j]
               PROVE  OccurrenceOf(x) \in Open \cup New(i)
    BY DEF Open, OccurrenceOf
  <2>1. CASE j = i
    BY <2>1, <1>4
  <2>2. CASE j # i
    <3>1. x \in UNION {items[k] : k \in Instance}
      BY <2>2, <1>3
    <3> QED BY <3>1 DEF Open
  <2> QED BY <2>1, <2>2
<1> QED BY <1>5, <1>6, ClaimStep, SMT DEF CommitClaim

LEMMA ChargeStep ==
    ASSUME IInv, NEW i \in Instance, NEW item \in items[i],
           NEW rest \in SUBSET (items[i] \ {item}),
           items' = [items EXCEPT ![i] = rest],
           UNCHANGED <<today, claimed>>,
           Charge(item) \/ charged' = charged
    PROVE  Contract!Finish
<1>1. /\ \A j \in Instance : items'[j] \subseteq items[j]
      /\ item \notin items'[i] /\ claimed' = claimed
  BY SMT DEF IInv, TypeOK
<1>2. Open' \subseteq Open
  <2> SUFFICES ASSUME NEW j \in Instance, NEW x \in items'[j]
               PROVE  x \in UNION {items[k] : k \in Instance}
    BY DEF Open, OccurrenceOf
  <2> QED BY <1>1
<1>3. OccurrenceOf(item) \in Open
  BY DEF Open
<1>4. OccurrenceOf(item) \notin Open'
  <2> SUFFICES ASSUME NEW j \in Instance, NEW x \in items'[j],
                      OccurrenceOf(x) = OccurrenceOf(item)
               PROVE  FALSE
    BY DEF Open, OccurrenceOf
  <2>1. j = i /\ x = item
    BY <1>1 DEF IInv, ItemsInv
  <2> QED BY <2>1, <1>1
<1>5. \A o \in Occurrence : charged'[o] = charged[o]
         \/ (o = OccurrenceOf(item) /\ charged[o] = 0 /\ charged'[o] = 1)
  BY <1>1, ChargeInv
<1> QED BY <1>2, <1>3, <1>4, <1>5 DEF Contract!Finish, Contract!Occurrence, Occurrence

LEMMA StopStep ==
    ASSUME IInv, NEW i \in Instance, Stop(i)
    PROVE  Contract!Claim \/ Contract!Finish
<1>1. items' = [items EXCEPT ![i] = {}] /\ today' = today
  BY SMT DEF Stop
<1>2. Open' \subseteq Open
  <2>1. \A j \in Instance : items'[j] \subseteq items[j]
    BY <1>1, SMT DEF IInv, TypeOK
  <2> SUFFICES ASSUME NEW j \in Instance, NEW x \in items'[j]
               PROVE  x \in UNION {items[k] : k \in Instance}
    BY DEF Open, OccurrenceOf
  <2> QED BY <2>1
<1>3. CASE UNCHANGED <<table, history>>
  BY <1>1, <1>2, <1>3, SMT DEF history, Contract!Finish
<1>4. CASE at[i] = "claiming" /\ Shift(i) /\ UNCHANGED charged
  <2>1. items' = items
    BY <1>1, <1>4, SMT DEF IInv, TypeOK
  <2>2. Open' = Open
    BY <2>1, OpenSame
  <2> QED BY <1>1, <1>4, <2>2, ClaimStep
<1>5. CASE UNCHANGED <<table, claimed>> /\ \E item \in items[i] : Charge(item)
  <2>1. PICK item \in items[i] : Charge(item)
    BY <1>5
  <2>2. {} \in SUBSET (items[i] \ {item})
    OBVIOUS
  <2>3. UNCHANGED <<today, claimed>>
    BY <1>1, <1>5
  <2> QED BY <1>1, <2>1, <2>2, <2>3, ChargeStep
<1> QED BY <1>3, <1>4, <1>5 DEF Stop

LEMMA StepContract == IInv /\ [Next]_vars => [Contract!Next]_Contract!vars
<1> SUFFICES ASSUME IInv, [Next]_vars PROVE [Contract!Next]_Contract!vars
  OBVIOUS
<1> USE DEF Contract!Next, Contract!vars
<1>1. CASE NextDay
  <2>1. today' > today /\ UNCHANGED <<claimed, items, charged>>
    BY <1>1, SMT DEF NextDay, process, history, IInv, TypeOK, Day
  <2>2. Open' = Open
    BY <2>1, OpenSame, SMT
  <2> QED BY <2>1, <2>2, SMT DEF Contract!NextDay
<1>2. ASSUME NEW s \in Schedule, Create(s) \/ Delete(s)
      PROVE  UNCHANGED <<today, claimed, items, charged>>
  BY <1>2, SMT DEF Create, Delete, process, history
<1>3. ASSUME NEW i \in Instance, StartClaim(i) \/ LockOrSkip(i) \/ StoreResult(i)
      PROVE  UNCHANGED <<today, claimed, items, charged>>
  BY <1>3, SMT DEF StartClaim, LockOrSkip, StoreResult, history
<1>4. CASE UNCHANGED <<today, claimed, items, charged>>
  <2>1. Open' = Open
    BY <1>4, OpenSame, SMT
  <2> QED BY <1>4, <2>1, SMT
<1>5. ASSUME NEW i \in Instance, CommitClaim(i) PROVE Contract!Claim
  BY <1>5, CommitClaimStep
<1>6. ASSUME NEW i \in Instance, RecordExpense(i) PROVE Contract!Finish
  <2>1. PICK item \in items[i] :
           /\ items' = [items EXCEPT ![i] = items[i] \ {item}]
           /\ Charge(item) \/ charged' = charged
    BY <1>6 DEF RecordExpense
  <2>2. items[i] \ {item} \in SUBSET (items[i] \ {item}) /\ UNCHANGED <<today, claimed>>
    BY <1>6, SMT DEF RecordExpense
  <2> QED BY <2>1, <2>2, ChargeStep
<1>7. ASSUME NEW i \in Instance, Stop(i) PROVE Contract!Claim \/ Contract!Finish
  BY <1>7, StopStep
<1>8. CASE UNCHANGED vars
  BY <1>4, <1>8, SMT DEF vars, process, history
<1> QED BY <1>1, <1>2, <1>3, <1>4, <1>5, <1>6, <1>7, <1>8 DEF Next, Work

\* Whatever the processes do, wherever they stop, they keep the promise of
\* put__claim_due_scheduled_expenses: each occurrence claimed by one run that
\* charges it once or not at all.
THEOREM Refinement == Spec => ChargesOnce
<1>1. Spec => []IInv
  BY InitInv, StepInv, PTL DEF Spec
<1> QED BY <1>1, InitContract, StepContract, PTL DEF Spec, ChargesOnce, Contract!Spec

(***************************************************************************)
(* Days of the week.                                                        *)
(***************************************************************************)
LEMMA MultiplesApart ==
    ASSUME NEW w \in Nat \ {0}, NEW p \in Int, NEW q \in Int, p < q
    PROVE  p * w + w <= q * w
<1>1. (q - p - 1) \in Nat
  BY SMT
<1>2. (q - p - 1) * w >= 0
  BY <1>1, SMT
<1>3. (q - p - 1) * w = q * w - p * w - w
  BY SMT
<1> QED BY <1>2, <1>3, SMT

LEMMA RemainderIs ==
    ASSUME NEW w \in Nat \ {0}, NEW q \in Int, NEW r \in 0..(w - 1)
    PROVE  (q * w + r) % w = r
<1> DEFINE x == q * w + r
           p == x \div w
           s == x % w
<1>1. q * w \in Int /\ x \in Int
  BY SMT
<1>2. s \in 0..(w - 1) /\ p \in Int /\ p * w \in Int /\ x = p * w + s
  BY <1>1, SMT
<1>3. x = q * w + r
  OBVIOUS
<1> HIDE DEF x, p, s
<1>4. CASE p < q
  <2>1. p * w + w <= q * w
    BY <1>2, <1>4, MultiplesApart
  <2> QED BY <1>1, <1>2, <1>3, <2>1, SMT
<1>5. CASE q < p
  <2>1. q * w + w <= p * w
    BY <1>2, <1>5, MultiplesApart
  <2> QED BY <1>1, <1>2, <1>3, <2>1, SMT
<1>6. CASE p = q
  <2>1. s = r
    BY <1>1, <1>2, <1>3, <1>6, SMT
  <2> QED BY <2>1 DEF s, x
<1> QED BY <1>2, <1>4, <1>5, <1>6, SMT

LEMMA WeekLater ==
    ASSUME NEW d \in Nat, NEW w \in Nat \ {0}
    PROVE  ((d + w) - 1) % w = (d - 1) % w
<1> DEFINE q == (d - 1) \div w
           r == (d - 1) % w
<1>1. q \in Int /\ r \in 0..(w - 1) /\ d - 1 = q * w + r
  BY SMT
<1> HIDE DEF q
<1>2. r = (d - 1) % w
  OBVIOUS
<1> HIDE DEF r
<1>3. (d + w) - 1 = (q + 1) * w + r
  BY <1>1, SMT
<1>4. ((q + 1) * w + r) % w = r
  BY <1>1, RemainderIs, q + 1 \in Int
<1> QED BY <1>2, <1>3, <1>4

\* The next day with number n in the week, from tomorrow on.
LEMMA NextWeekday ==
    ASSUME NEW d \in Nat, NEW w \in Nat \ {0}, NEW n \in 1..w
    PROVE  LET k == (n - ((d % w) + 1) + w) % w
           IN  ((d + 1 + k) - 1) % w = n - 1
<1> DEFINE q == d \div w
           r == d % w
           k == (n - (r + 1) + w) % w
<1>1. q \in Int /\ r \in 0..(w - 1) /\ d = q * w + r /\ q * w \in Int
  BY SMT
<1> HIDE DEF q, r
<1>2. CASE n - 1 >= r
  <2>1. n - 1 - r \in 0..(w - 1) /\ n - (r + 1) + w = 1 * w + (n - 1 - r)
    BY <1>1, <1>2, SMT
  <2>2. k = n - 1 - r
    BY <2>1, RemainderIs, 1 \in Int
  <2>3. (d + 1 + k) - 1 = q * w + (n - 1)
    BY <1>1, <2>2, SMT
  <2>4. n - 1 \in 0..(w - 1)
    BY SMT
  <2>5. (q * w + (n - 1)) % w = n - 1
    BY <1>1, <2>4, RemainderIs
  <2> QED BY <2>3, <2>5 DEF r
<1>3. CASE ~(n - 1 >= r)
  <2>1. n - (r + 1) + w \in 0..(w - 1) /\ n - (r + 1) + w = 0 * w + (n - (r + 1) + w)
    BY <1>1, <1>3, SMT
  <2>2. k = n - (r + 1) + w
    BY <2>1, RemainderIs, 0 \in Int
  <2>3. (d + 1 + k) - 1 = (q + 1) * w + (n - 1)
    BY <1>1, <2>2, SMT
  <2>4. n - 1 \in 0..(w - 1) /\ q + 1 \in Int
    BY <1>1, SMT
  <2>5. ((q + 1) * w + (n - 1)) % w = n - 1
    BY <2>4, RemainderIs
  <2> QED BY <2>3, <2>5 DEF r
<1> QED BY <1>2, <1>3

(***************************************************************************)
(* Months: a day lies in one of them.                                       *)
(***************************************************************************)
LEMMA MonthsInOrder ==
    ASSUME NEW m \in Month, NEW k \in Month, m < k
    PROVE  MonthStart(m + 1) <= MonthStart(k)
<1> DEFINE S == {n \in Nat : (m + 1) + n \in Month => MonthStart(m + 1) <= MonthStart((m + 1) + n)}
<1>1. m \in Nat /\ k \in Nat /\ m + 1 \in Month
  BY ScheduleAssumption, SMT DEF Month
<1>2. 0 \in S
  <2>1. (m + 1) + 0 = m + 1 /\ MonthStart(m + 1) \in Nat
    BY <1>1, MonthStartNatural
  <2> QED BY <2>1, SMT
<1>3. ASSUME NEW n \in Nat, n \in S PROVE n + 1 \in S
  <2> SUFFICES ASSUME (m + 1) + (n + 1) \in Month
               PROVE  MonthStart(m + 1) <= MonthStart((m + 1) + (n + 1))
    BY SMT
  <2>1. (m + 1) + n \in Month /\ (m + 1) + (n + 1) = ((m + 1) + n) + 1
    <3>1. Month = 1..Len(MonthLengths) /\ Len(MonthLengths) \in Nat
      BY ScheduleAssumption, SMT DEF Month
    <3>2. (m + 1) + (n + 1) \in 1..Len(MonthLengths)
      BY <3>1
    <3> HIDE DEF S
    <3> QED BY <1>1, <3>1, <3>2, SMT
  <2>2. MonthStart((m + 1) + (n + 1)) = MonthStart((m + 1) + n) + MonthLengths[(m + 1) + n]
    BY <2>1, MonthStartNatural
  <2>3. /\ MonthStart((m + 1) + n) \in Nat /\ MonthLengths[(m + 1) + n] \in Nat
        /\ MonthStart(m + 1) \in Nat
    BY <1>1, <2>1, MonthStartNatural
  <2>4. MonthStart(m + 1) <= MonthStart((m + 1) + n)
    BY <1>3, <2>1
  <2> QED BY <2>2, <2>3, <2>4, SMT
<1>4. Nat \subseteq S
  <2> HIDE DEF S
  <2> QED BY <1>2, <1>3, InductionOnSet
<1>5. k - (m + 1) \in Nat /\ (m + 1) + (k - (m + 1)) = k
  BY <1>1, SMT
<1>6. k - (m + 1) \in S
  BY <1>4, <1>5
<1> QED BY <1>5, <1>6

LEMMA OneMonth ==
    ASSUME NEW m \in Month, NEW k \in Month, NEW d \in Int, InMonth(d, m), InMonth(d, k)
    PROVE  m = k
<1>1. /\ MonthStart(m) \in Nat /\ MonthStart(k) \in Nat
      /\ MonthStart(m + 1) = MonthStart(m) + MonthLengths[m]
      /\ MonthStart(k + 1) = MonthStart(k) + MonthLengths[k]
      /\ MonthLengths[m] \in Nat /\ MonthLengths[k] \in Nat
  BY MonthStartNatural
<1>2. m \in Int /\ k \in Int
  BY ScheduleAssumption, SMT DEF Month
<1>3. ~(m < k)
  <2> SUFFICES ASSUME m < k PROVE FALSE
    OBVIOUS
  <2>1. MonthStart(m + 1) <= MonthStart(k)
    BY MonthsInOrder
  <2> QED BY <1>1, <2>1, SMT DEF InMonth
<1>4. ~(k < m)
  <2> SUFFICES ASSUME k < m PROVE FALSE
    OBVIOUS
  <2>1. MonthStart(k + 1) <= MonthStart(m)
    BY MonthsInOrder
  <2> QED BY <1>1, <2>1, SMT DEF InMonth
<1> QED BY <1>2, <1>3, <1>4, SMT

LEMMA MonthOfDayIn ==
    ASSUME NEW m \in Month, NEW n \in Nat \ {0}
    PROVE  MonthOf(DayIn(m, n)) = m
<1>1. DayIn(m, n) \in Int /\ InMonth(DayIn(m, n), m)
  BY DayInMonth, MonthStartNatural, SMT DEF InMonth
<1>2. \A k \in Month : InMonth(DayIn(m, n), k) => k = m
  BY <1>1, OneMonth
<1> QED BY <1>1, <1>2 DEF MonthOf

(***************************************************************************)
(* The first date and the following one are days of the schedule.           *)
(***************************************************************************)
OwnDay(s, d) ==
    IF Frequency[s] = "weekly" THEN DayOfWeek(d) = DayOf[s]
    ELSE d = DayIn(MonthOf(d), DayOf[s])

LEMMA FirstRunIsOwn ==
    ASSUME NEW s \in Schedule, NEW d \in Day
    PROVE  OwnDay(s, FirstRun(s, d))
<1>1. d \in Nat /\ WeekLength \in Nat \ {0} /\ DayOf[s] \in Nat \ {0}
  BY ScheduleAssumption, SMT DEF Day
<1>2. CASE Frequency[s] = "weekly"
  <2> DEFINE k == (DayOf[s] - ((d % WeekLength) + 1) + WeekLength) % WeekLength
  <2>1. DayOf[s] \in 1..WeekLength
    BY <1>1, <1>2, ScheduleAssumption, SMT
  <2>2. ((d + 1 + k) - 1) % WeekLength = DayOf[s] - 1
    BY <1>1, <2>1, NextWeekday
  <2>3. (d + 1) - 1 = d
    BY <1>1, SMT
  <2>4. FirstRun(s, d) = d + 1 + k
    BY <1>2, <2>3 DEF FirstRun, DayOfWeek
  <2> HIDE DEF k
  <2>5. DayOfWeek(FirstRun(s, d)) = (DayOf[s] - 1) + 1
    BY <2>2, <2>4 DEF DayOfWeek
  <2> QED BY <1>1, <1>2, <2>5, SMT DEF OwnDay
<1>3. CASE Frequency[s] # "weekly"
  <2>1. MonthOf(d) \in Month /\ MonthOf(d) + 1 \in Month
    BY MonthOfDay
  <2>2. PICK m \in Month : FirstRun(s, d) = DayIn(m, DayOf[s])
    BY <1>3, <2>1 DEF FirstRun
  <2>3. MonthOf(FirstRun(s, d)) = m
    BY <1>1, <2>2, MonthOfDayIn
  <2> QED BY <1>3, <2>2, <2>3 DEF OwnDay
<1> QED BY <1>2, <1>3

LEMMA FollowingIsOwn ==
    ASSUME NEW s \in Schedule, NEW d \in Day, OwnDay(s, d)
    PROVE  /\ OwnDay(s, Following(s, d))
           /\ IF Frequency[s] = "weekly" THEN Following(s, d) = d + WeekLength
              ELSE MonthOf(Following(s, d)) = MonthOf(d) + 1
<1>1. d \in Nat /\ WeekLength \in Nat \ {0} /\ DayOf[s] \in Nat \ {0}
  BY ScheduleAssumption, SMT DEF Day
<1>2. CASE Frequency[s] = "weekly"
  <2>1. Following(s, d) = d + WeekLength
    BY <1>2 DEF Following
  <2>2. ((d + WeekLength) - 1) % WeekLength = (d - 1) % WeekLength
    BY <1>1, WeekLater
  <2> QED BY <1>2, <2>1, <2>2 DEF OwnDay, DayOfWeek
<1>3. CASE Frequency[s] # "weekly"
  <2>1. MonthOf(d) + 1 \in Month
    BY MonthOfDay
  <2>2. Following(s, d) = DayIn(MonthOf(d) + 1, DayOf[s])
    BY <1>3 DEF Following
  <2>3. MonthOf(Following(s, d)) = MonthOf(d) + 1
    BY <1>1, <2>1, <2>2, MonthOfDayIn
  <2> QED BY <1>3, <2>2, <2>3 DEF OwnDay
<1> QED BY <1>2, <1>3

(***************************************************************************)
(* Every step leaves the rows at days of their own.                         *)
(***************************************************************************)
LEMMA InitOnItsDay == Init => OnItsDay
  BY SMT DEF Init, OnItsDay

LEMMA RowsStay ==
    ASSUME OnItsDay, next' = next, \A s \in Schedule : state'[s] # "new" => state[s] # "new"
    PROVE  OnItsDay'
  BY DEF OnItsDay

\* A row moves only past an occurrence that has been claimed, and by one period.
Moved(s) ==
    /\ <<s, next[s]>> \in claimed'
    /\ next[s] < next'[s]
    /\ IF Frequency[s] = "weekly" THEN next'[s] = next[s] + WeekLength
       ELSE MonthOf(next'[s]) = MonthOf(next[s]) + 1

LEMMA ShiftMoves ==
    ASSUME IInv, OnItsDay, NEW i \in Instance, Shift(i)
    PROVE  /\ OnItsDay'
           /\ \A s \in Schedule : next'[s] # next[s] => Moved(s)
<1>1. /\ next' = [s \in Schedule |-> IF s \in Held(i) THEN Following(s, next[s]) ELSE next[s]]
      /\ claimed' = claimed \cup {<<s, next[s]>> : s \in Held(i)} /\ state' = state
  BY DEF Shift
<1>2. ASSUME NEW s \in Held(i)
      PROVE  OwnDay(s, Following(s, next[s])) /\ next'[s] = Following(s, next[s]) /\ Moved(s)
  <2>1. /\ s \in Schedule /\ state[s] = "live" /\ next[s] \in Day
        /\ Following(s, next[s]) > next[s] /\ Following(s, next[s]) \in Nat
    BY HeldIsDue
  <2>2. OwnDay(s, next[s])
    BY <2>1 DEF OnItsDay, OwnDay
  <2>3. next'[s] = Following(s, next[s])
    BY <1>1, <2>1
  <2>4. next[s] < next'[s]
    BY <2>1, <2>3, SMT DEF Day
  <2>5. <<s, next[s]>> \in claimed'
    BY <1>1
  <2> QED BY <2>1, <2>2, <2>3, <2>4, <2>5, FollowingIsOwn DEF Moved
<1>3. ASSUME NEW s \in Schedule, s \notin Held(i) PROVE next'[s] = next[s]
  BY <1>1, <1>3
<1>4. OnItsDay'
  <2> SUFFICES ASSUME NEW s \in Schedule, state[s] # "new" PROVE OwnDay(s, next'[s])
    BY <1>1 DEF OnItsDay, OwnDay
  <2>1. CASE s \in Held(i)
    BY <1>2, <2>1
  <2>2. CASE s \notin Held(i)
    BY <1>3, <2>2 DEF OnItsDay, OwnDay
  <2> QED BY <2>1, <2>2
<1> QED BY <1>2, <1>3, <1>4

LEMMA StepDates ==
    ASSUME IInv, OnItsDay, [Next]_vars
    PROVE  /\ OnItsDay'
           /\ \A s \in Schedule : next'[s] # next[s] /\ state[s] = "live" => Moved(s)
<1> USE DEF table, process, history
<1>1. CASE NextDay
  BY <1>1, RowsStay DEF NextDay
<1>2. ASSUME NEW s \in Schedule, Create(s)
      PROVE  /\ OnItsDay'
             /\ \A t \in Schedule : next'[t] # next[t] /\ state[t] = "live" => Moved(t)
  <2>1. /\ state[s] = "new" /\ state \in [Schedule -> {"new", "live", "deleted"}]
        /\ next \in [Schedule -> Nat] /\ today \in Day
        /\ state' = [state EXCEPT ![s] = "live"]
        /\ next' = [next EXCEPT ![s] = FirstRun(s, today)]
    BY <1>2 DEF Create, IInv, TypeOK
  <2>2. /\ next'[s] = FirstRun(s, today)
        /\ \A t \in Schedule \ {s} : next'[t] = next[t] /\ state'[t] = state[t]
    BY <2>1
  <2>3. OwnDay(s, FirstRun(s, today))
    BY <2>1, FirstRunIsOwn
  <2>4. OnItsDay'
    <3> SUFFICES ASSUME NEW t \in Schedule, state'[t] # "new" PROVE OwnDay(t, next'[t])
      BY DEF OnItsDay, OwnDay
    <3>1. CASE t = s
      BY <2>2, <2>3, <3>1
    <3>2. CASE t # s
      BY <2>2, <3>2 DEF OnItsDay, OwnDay
    <3> QED BY <3>1, <3>2
  <2>5. ASSUME NEW t \in Schedule, next'[t] # next[t], state[t] = "live" PROVE FALSE
    BY <2>1, <2>2, <2>5
  <2> QED BY <2>4, <2>5
<1>3. ASSUME NEW s \in Schedule, Delete(s) PROVE OnItsDay' /\ next' = next
  <2>1. \A t \in Schedule : state'[t] # "new" => state[t] # "new"
    BY <1>3, SMT DEF Delete, IInv, TypeOK
  <2> QED BY <1>3, <2>1, RowsStay DEF Delete
<1>4. ASSUME NEW i \in Instance, Work(i) \/ Stop(i)
      PROVE  /\ OnItsDay'
             /\ \A s \in Schedule : next'[s] # next[s] => Moved(s)
  <2>1. CASE UNCHANGED <<state, next>>
    BY <2>1, RowsStay
  <2>2. CASE Shift(i)
    BY <2>2, ShiftMoves
  <2>3. UNCHANGED <<state, next>> \/ Shift(i)
    BY <1>4 DEF Work, Stop, StartClaim, LockOrSkip, CommitClaim, RecordExpense, StoreResult
  <2> QED BY <2>1, <2>2, <2>3
<1>5. CASE UNCHANGED vars
  BY <1>5, RowsStay DEF vars
<1>6. \/ NextDay \/ (\E s \in Schedule : Create(s)) \/ (\E s \in Schedule : Delete(s))
      \/ (\E i \in Instance : Work(i) \/ Stop(i)) \/ UNCHANGED vars
  BY DEF Next
<1>7. CASE NextDay \/ UNCHANGED vars
  <2>1. next' = next
    BY <1>7 DEF NextDay, vars
  <2> QED BY <1>1, <1>5, <1>7, <2>1
<1> QED BY <1>2, <1>3, <1>4, <1>6, <1>7

\* The CASE of put__claim_due_scheduled_expenses: whatever months a row has been
\* through, a monthly expense comes on its day, or on the last day of a shorter
\* month, and a weekly one on its weekday.
THEOREM DatesKept == Spec => []OnItsDay
<1>1. IInv /\ OnItsDay /\ [Next]_vars => OnItsDay'
  BY StepDates
<1> QED BY InitInv, StepInv, InitOnItsDay, <1>1, PTL DEF Spec

\* Catching up after the processes have been down: a row goes from one date to
\* the next one in its calendar, and only as that date is claimed.
THEOREM EveryDateClaimed == Spec => NoDateSkipped
<1> DEFINE Step == \A s \in Schedule : next'[s] # next[s] /\ state[s] = "live" =>
                      /\ <<s, next[s]>> \in claimed'
                      /\ next[s] < next'[s]
                      /\ IF Frequency[s] = "weekly" THEN next'[s] = next[s] + WeekLength
                         ELSE MonthOf(next'[s]) = MonthOf(next[s]) + 1
<1>1. IInv /\ OnItsDay /\ [Next]_vars => OnItsDay' /\ Step
  BY StepDates DEF Moved
<1>2. IInv /\ OnItsDay /\ [Next]_vars => [Step]_vars
  BY <1>1
<1>3. Spec => [][Step]_vars
  BY InitInv, StepInv, InitOnItsDay, <1>1, <1>2, PTL DEF Spec
<1> QED BY <1>3 DEF NoDateSkipped
=============================================================================
