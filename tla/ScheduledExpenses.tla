------------------------- MODULE ScheduledExpenses -------------------------
(***************************************************************************)
(* Repeating expenses.  Every API process runs scheduler_loop of            *)
(* backend/app/scheduler.py: each minute it claims the rows that are due,   *)
(* which moves them to their next date in the same statement, records an    *)
(* expense for each, and stores the outcome in the row.  Processes stop at  *)
(* any await (a crash, or task.cancel() on shutdown), and the answer of a   *)
(* statement may be lost after it has committed.                            *)
(*                                                                         *)
(* Dates are day numbers.  The calendar is a constant, so that small        *)
(* instances can have short weeks and months.                               *)
(***************************************************************************)
EXTENDS RowSums, Sequences, FiniteSets

CONSTANTS
    Instance,            \* API processes
    Schedule,            \* ids of scheduled_expenses
    Frequency, DayOf,    \* "weekly" with day_of_week, "monthly" with day_of_month
    WeekLength, MonthLengths,
    FirstDay, LastDay,   \* the days during which the system is watched
    MaxStops,            \* bound: how often processes stop
    Nobody

Day == 1..LastDay
Occurrence == Schedule \X Day

ASSUME ScheduleAssumption ==
    /\ Frequency \in [Schedule -> {"weekly", "monthly"}]
    /\ DayOf \in [Schedule -> Nat \ {0}]
    /\ \A s \in Schedule : Frequency[s] = "weekly" => DayOf[s] <= WeekLength
    /\ WeekLength \in Nat \ {0}
    /\ MonthLengths \in Seq(Nat \ {0})
    /\ FirstDay \in Nat \ {0} /\ LastDay \in Nat /\ FirstDay <= LastDay
    /\ MaxStops \in Nat
    /\ Nobody \notin Instance

(***************************************************************************)
(* The calendar.                                                            *)
(***************************************************************************)
Month == DOMAIN MonthLengths
MonthStart(m) == 1 + SumTo(MonthLengths, m - 1)
InMonth(d, m) == MonthStart(m) <= d /\ d < MonthStart(m) + MonthLengths[m]
MonthOf(d) == CHOOSE m \in Month : InMonth(d, m)

\* the calendar knows the days watched, and the month after each of them
ASSUME CalendarAssumption ==
    \A d \in Day : /\ \E m \in Month : InMonth(d, m)
                  /\ \A m \in Month : InMonth(d, m) => m + 1 \in Month

DayOfMonth(d) == d - MonthStart(MonthOf(d)) + 1
DayOfWeek(d) == ((d - 1) % WeekLength) + 1

\* that day of the month, but not after its last day
DayIn(m, day) == MonthStart(m) + Lesser(day, MonthLengths[m]) - 1

\* put__create_scheduled_expense: the first date after today
FirstRun(s, d) ==
    IF Frequency[s] = "weekly"
    THEN d + 1 + ((DayOf[s] - DayOfWeek(d + 1) + WeekLength) % WeekLength)
    ELSE LET m == MonthOf(d)
         IN  IF DayOfMonth(d) < Lesser(DayOf[s], MonthLengths[m])
             THEN DayIn(m, DayOf[s]) ELSE DayIn(m + 1, DayOf[s])

\* variant for mutation: a month from the date, day_of_month forgotten
FollowingByDate(s, d) ==
    IF Frequency[s] = "weekly" THEN d + WeekLength
                               ELSE DayIn(MonthOf(d) + 1, DayOfMonth(d))

\* the CASE of put__claim_due_scheduled_expenses
Following(s, d) ==
    IF Frequency[s] = "weekly" THEN d + WeekLength
                               ELSE DayIn(MonthOf(d) + 1, DayOf[s])

(***************************************************************************)
(* State.                                                                   *)
(***************************************************************************)
VARIABLES
    today,
    state, next, last, error,       \* the table: next_run_at, last_run_at, last_error
    locked,                         \* whose claim holds the row
    at, found, day, items, failed,  \* each process's run of the scheduler
    stops,
    claimed,                        \* history: occurrences that have been claimed
    charged                         \* history: expenses recorded for an occurrence

table   == <<state, next, last, error>>
process == <<at, found, day, items, failed>>
history == <<claimed, charged>>
vars == <<today, table, locked, process, stops, history>>

Item == [schedule : Schedule, due : Day, account : BOOLEAN]

TypeOK ==
    /\ today \in Day
    /\ state \in [Schedule -> {"new", "live", "deleted"}]
    /\ next \in [Schedule -> Nat] /\ last \in [Schedule -> 0..LastDay]
    /\ error \in [Schedule -> BOOLEAN]
    /\ locked \in [Schedule -> Instance \cup {Nobody}]
    /\ at \in [Instance -> {"asleep", "claiming", "working", "storing"}]
    /\ found \in [Instance -> SUBSET Schedule] /\ day \in [Instance -> Day]
    /\ items \in [Instance -> SUBSET Item] /\ failed \in [Instance -> BOOLEAN]
    /\ \A s \in Schedule : locked[s] # Nobody => at[locked[s]] = "claiming"
    /\ \A i \in Instance : at[i] \in {"asleep", "claiming"} => items[i] = {}
    /\ stops \in 0..MaxStops
    /\ claimed \subseteq Occurrence
    /\ charged \in [Occurrence -> Nat]

Init ==
    /\ today = FirstDay
    /\ state = [s \in Schedule |-> "new"]
    /\ next = [s \in Schedule |-> 0] /\ last = [s \in Schedule |-> 0]
    /\ error = [s \in Schedule |-> FALSE]
    /\ locked = [s \in Schedule |-> Nobody]
    /\ at = [i \in Instance |-> "asleep"]
    /\ found = [i \in Instance |-> {}] /\ day = [i \in Instance |-> FirstDay]
    /\ items = [i \in Instance |-> {}] /\ failed = [i \in Instance |-> FALSE]
    /\ stops = 0
    /\ claimed = {}
    /\ charged = [o \in Occurrence |-> 0]

Due(s, d) == state[s] = "live" /\ next[s] <= d

NextDay ==
    /\ today < LastDay
    /\ today' = today + 1
    /\ UNCHANGED <<table, locked, process, stops, history>>

\* put__create_scheduled_expense
Create(s) ==
    /\ state[s] = "new"
    /\ state' = [state EXCEPT ![s] = "live"]
    /\ next' = [next EXCEPT ![s] = FirstRun(s, today)]
    /\ UNCHANGED <<today, last, error, locked, process, stops, history>>

\* put__delete_scheduled_expense waits for the claim that holds the row
Delete(s) ==
    /\ state[s] = "live" /\ locked[s] = Nobody
    /\ state' = [state EXCEPT ![s] = "deleted"]
    /\ UNCHANGED <<today, next, last, error, locked, process, stops, history>>

(***************************************************************************)
(* put__claim_due_scheduled_expenses.  Its snapshot finds the rows that are *)
(* due; each is then locked, or skipped when somebody else holds it or has  *)
(* changed it since; the locked ones are moved to their next date.          *)
(***************************************************************************)
StartClaim(i) ==
    /\ at[i] = "asleep"
    /\ at' = [at EXCEPT ![i] = "claiming"]
    /\ day' = [day EXCEPT ![i] = today]
    /\ found' = [found EXCEPT ![i] = {s \in Schedule : Due(s, today)}]
    /\ UNCHANGED <<today, table, locked, items, failed, stops, history>>

\* variant for mutation: the list is read without locks or a second look
LockOrSkipUnlocked(i) ==
    \E s \in found[i] :
        /\ at[i] = "claiming"
        /\ found' = [found EXCEPT ![i] = @ \ {s}]
        /\ locked' = [locked EXCEPT ![s] = i]
        /\ UNCHANGED <<today, table, at, day, items, failed, stops, history>>

LockOrSkip(i) ==
    \E s \in found[i] :
        /\ at[i] = "claiming"
        /\ found' = [found EXCEPT ![i] = @ \ {s}]
        /\ locked' = IF locked[s] = Nobody /\ Due(s, day[i])
                     THEN [locked EXCEPT ![s] = i] ELSE locked
        /\ UNCHANGED <<today, table, at, day, items, failed, stops, history>>

Held(i) == {s \in Schedule : locked[s] = i}
Release(i) == locked' = [s \in Schedule |-> IF locked[s] = i THEN Nobody ELSE locked[s]]

\* variant for mutation: the next period counted from today
ShiftFromToday(i) ==
    /\ next' = [s \in Schedule |-> IF s \in Held(i) THEN Following(s, day[i]) ELSE next[s]]
    /\ last' = [s \in Schedule |-> IF s \in Held(i) THEN day[i] ELSE last[s]]
    /\ claimed' = claimed \cup {<<s, next[s]>> : s \in Held(i)}
    /\ UNCHANGED <<state, error>>

Shift(i) ==
    /\ next' = [s \in Schedule |-> IF s \in Held(i) THEN Following(s, next[s]) ELSE next[s]]
    /\ last' = [s \in Schedule |-> IF s \in Held(i) THEN day[i] ELSE last[s]]
    /\ claimed' = claimed \cup {<<s, next[s]>> : s \in Held(i)}
    /\ UNCHANGED <<state, error>>

\* variant for mutation: the transaction is left open
CommitClaimOpen(i) ==
    /\ at[i] = "claiming" /\ found[i] = {}
    /\ at' = [at EXCEPT ![i] = "asleep"]
    /\ Shift(i)
    /\ UNCHANGED <<today, locked, found, day, items, failed, stops, charged>>

\* variant for mutation: rows without a primary account stay out of the claim
CommitClaimInnerJoin(i) ==
    /\ at[i] = "claiming" /\ found[i] = {}
    /\ \E paid \in SUBSET Held(i) :
          /\ items' = [items EXCEPT ![i] = {[schedule |-> s, due |-> next[s],
                                             account |-> TRUE] : s \in paid}]
          /\ at' = [at EXCEPT ![i] = IF paid = {} THEN "asleep" ELSE "working"]
          /\ next' = [s \in Schedule |-> IF s \in paid THEN Following(s, next[s]) ELSE next[s]]
          /\ claimed' = claimed \cup {<<s, next[s]>> : s \in paid}
    /\ Release(i)
    /\ UNCHANGED <<today, state, last, error, found, day, failed, stops, charged>>

\* the owner may have no active primary cash account: LEFT JOIN bank_accounts
CommitClaim(i) ==
    /\ at[i] = "claiming" /\ found[i] = {}
    /\ \E account \in [Held(i) -> BOOLEAN] :
          items' = [items EXCEPT ![i] = {[schedule |-> s, due |-> next[s],
                                          account |-> account[s]] : s \in Held(i)}]
    /\ at' = [at EXCEPT ![i] = IF Held(i) = {} THEN "asleep" ELSE "working"]
    /\ Shift(i)
    /\ Release(i)
    /\ UNCHANGED <<today, found, day, failed, stops, charged>>

(***************************************************************************)
(* run_scheduled_expenses, one claimed item at a time.                      *)
(***************************************************************************)
OccurrenceOf(item) == <<item.schedule, item.due>>
Charge(item) == charged' = [charged EXCEPT ![OccurrenceOf(item)] = @ + 1]

\* found is from here on the row whose outcome is to be stored; items come in
\* id order, but which is first makes no difference
RecordExpense(i) ==
    /\ at[i] = "working"
    /\ \E item \in items[i] :
          /\ items' = [items EXCEPT ![i] = @ \ {item}]
          /\ found' = [found EXCEPT ![i] = {item.schedule}]
          /\ \/ item.account /\ Charge(item) /\ failed' = [failed EXCEPT ![i] = FALSE]
             \/ item.account /\ Charge(item) /\ failed' = [failed EXCEPT ![i] = TRUE]
             \/ UNCHANGED charged /\ failed' = [failed EXCEPT ![i] = TRUE]
    /\ at' = [at EXCEPT ![i] = "storing"]
    /\ UNCHANGED <<today, table, locked, day, stops, claimed>>

\* set__scheduled_expense_run_result; an exception here is only logged
StoreResult(i) ==
    /\ at[i] = "storing"
    /\ \A s \in found[i] : locked[s] = Nobody
    /\ at' = [at EXCEPT ![i] = IF items[i] = {} THEN "asleep" ELSE "working"]
    /\ found' = [found EXCEPT ![i] = {}]
    /\ \/ UNCHANGED error
       \/ error' = [s \in Schedule |-> IF s \in found[i] /\ state[s] = "live"
                                       THEN failed[i] ELSE error[s]]
    /\ UNCHANGED <<today, state, next, last, locked, day, items, failed, stops, history>>

(***************************************************************************)
(* A process stops and starts again.  The statement it was waiting for is   *)
(* undone, or commits without anyone to take the answer.  A claim that      *)
(* raises after it has committed looks the same: "failed to claim".         *)
(***************************************************************************)
Stop(i) ==
    /\ at[i] # "asleep"
    /\ stops < MaxStops /\ stops' = stops + 1
    /\ at' = [at EXCEPT ![i] = "asleep"]
    /\ found' = [found EXCEPT ![i] = {}]
    /\ items' = [items EXCEPT ![i] = {}]
    /\ Release(i)
    /\ \/ UNCHANGED <<table, history>>
       \/ at[i] = "claiming" /\ found[i] = {} /\ Shift(i) /\ UNCHANGED charged
       \/ /\ at[i] = "working"
          /\ \E item \in items[i] : item.account /\ Charge(item)
          /\ UNCHANGED <<table, claimed>>
    /\ UNCHANGED <<today, day, failed>>

Work(i) == StartClaim(i) \/ LockOrSkip(i) \/ CommitClaim(i) \/ RecordExpense(i) \/ StoreResult(i)

Next ==
    \/ NextDay
    \/ \E s \in Schedule : Create(s) \/ Delete(s)
    \/ \E i \in Instance : Work(i) \/ Stop(i)

Spec == Init /\ [][Next]_vars

\* the loop of every process that runs goes on
FairSpec == Spec /\ \A i \in Instance : WF_vars(Work(i))

(***************************************************************************)
(* Properties.                                                              *)
(***************************************************************************)
\* "the same row is got neither by two instances of the API nor by another
\* pass after a restart" (scheduler.py): an occurrence is in the hands of one
\* process at most and is charged at most once, on its day or later.
ChargedAtMostOnce ==
    /\ \A o \in Occurrence : charged[o] <= 1
    /\ \A o \in Occurrence : charged[o] = 1 => o \in claimed /\ o[2] <= today
    /\ \A i, j \in Instance : \A x \in items[i], y \in items[j] :
          OccurrenceOf(x) = OccurrenceOf(y) => i = j /\ x = y

\* A monthly expense comes on its day, or on the last day of a month that is
\* shorter, whatever months it has been through; a weekly one on its weekday.
OnItsDay ==
    \A s \in Schedule : state[s] # "new" =>
        IF Frequency[s] = "weekly" THEN DayOfWeek(next[s]) = DayOf[s]
        ELSE next[s] = DayIn(MonthOf(next[s]), DayOf[s])

\* No date is passed over: what lies before the next date, from the day the
\* schedule was created, has been claimed.
NoDateSkipped ==
    [][\A s \in Schedule : next'[s] # next[s] /\ state[s] = "live" =>
          /\ <<s, next[s]>> \in claimed'
          /\ next[s] < next'[s]
          /\ IF Frequency[s] = "weekly" THEN next'[s] = next[s] + WeekLength
             ELSE MonthOf(next'[s]) = MonthOf(next[s]) + 1]_vars

\* A row that is due does not stay overdue (it once did, when the owner had no
\* primary account): some run moves it on, unless it is deleted.
EveryDueRowIsClaimed == \A s \in Schedule : Due(s, today) ~> ~Due(s, today)

\* the processes together behave as one run that charges once
Open == {OccurrenceOf(x) : x \in UNION {items[i] : i \in Instance}}
Contract == INSTANCE ChargeOnce WITH open <- Open
ChargesOnce == Contract!Spec
=============================================================================
