-------------------------- MODULE FamiliesProofs --------------------------
(***************************************************************************)
(* For any number of connections, users, families and calls:                *)
(*   - a connection comes back from its call without a lock or a change     *)
(*     (TypeCorrect), and a row that another transaction refers to stays    *)
(*     until that transaction ends (ReferredRowsAreKept): invariant FInv;   *)
(*   - families are whole (FamiliesAreWhole): WInv, what a call has         *)
(*     written, refers to and still has to lock, statement by statement;    *)
(*   - members have joined, schedules have an author in the family          *)
(*     (MembersHaveJoined, SchedulesKeepAuthors): HInv, what a call has     *)
(*     read and may rely on, given the calls that ran beside it;            *)
(*   - a call that runs alone meets no constraint of the rows of people,    *)
(*     families, invitations and schedules (LoneCallsMeetNoFamilyRow):      *)
(*     AInv and the rest.                                                   *)
(***************************************************************************)
EXTENDS FamiliesInvariant, SequenceTheorems, FiniteSetTheorems, TLAPS

(***************************************************************************)
(* The statements of a call end with its commit.                            *)
(***************************************************************************)
LEMMA ProgramIsSeq ==
    ASSUME NEW c \in Calls PROVE Program(c) \in Seq(Statement)
<1>1. c.call \in {"create", "invite", "answer", "leave", "dissolve", "delete", "schedule",
             "journal"}
  BY FamiliesAssumption
<1>2. CreateFamily \in Seq(Statement) /\ InviteFamilyMember \in Seq(Statement)
  BY DEF CreateFamily, InviteFamilyMember, Statement, Reads
<1>3. LeaveFamily \in Seq(Statement) /\ CreateScheduledExpense \in Seq(Statement)
      /\ CryptoSourceEvent \in Seq(Statement)
  BY DEF LeaveFamily, CreateScheduledExpense, CryptoSourceEvent, Statement, Reads
<1>4. DissolveFamily \in Seq(Statement)
  BY DEF DissolveFamily, Statement, Reads
<1>5. DeleteUserAccount \in Seq(Statement)
  BY DEF DeleteUserAccount, Statement, Reads
<1>6. RespondFamilyInvitation(c) \in Seq(Statement)
  <2>1. <<"pending-invitation", "no-family", "add-member", "answer">> \in Seq(Statement)
    BY DEF Statement, Reads
  <2>2. <<"pending-invitation", "answer">> \in Seq(Statement)
    BY DEF Statement, Reads
  <2> QED BY <2>1, <2>2, Zenon DEF RespondFamilyInvitation
<1> QED BY <1>1, <1>2, <1>3, <1>4, <1>5, <1>6 DEF Program

LEMMA BegunProgram ==
    ASSUME NEW c \in Calls
    PROVE  EndsWithCommit(Program(c) \o <<"commit">>) /\ Program(c) \o <<"commit">> # <<>>
<1> DEFINE s == Program(c)
<1>1. s \in Seq(Statement) /\ "commit" \in Statement
  BY ProgramIsSeq DEF Statement
<1> DEFINE t == s \o <<"commit">>
<1> HIDE DEF s
<1>2. t \in Seq(Statement) /\ Len(t) = Len(s) + 1 /\ t[Len(t)] = "commit"
  BY <1>1
<1>3. Len(t) # 0
  BY <1>1, <1>2
<1> HIDE DEF t
<1>4. EndsWithCommit(t) /\ t # <<>>
  BY <1>2, <1>3, EmptySeq DEF EndsWithCommit
<1> QED BY <1>4 DEF t, s

LEMMA AdvancedProgram ==
    ASSUME NEW s, EndsWithCommit(s), s # <<>>, Head(s) # "commit"
    PROVE  EndsWithCommit(Tail(s)) /\ Tail(s) # <<>>
<1>1. s \in Seq(Statement) /\ s[Len(s)] = "commit"
  BY DEF EndsWithCommit
<1>2. Len(s) \in Nat /\ Len(s) # 0 /\ Len(s) # 1
  BY <1>1
<1>3. Tail(s) \in Seq(Statement) /\ Len(Tail(s)) = Len(s) - 1
  BY <1>1
<1>4. Tail(s) # <<>>
  <2>1. Len(Tail(s)) # 0
    BY <1>2, <1>3
  <2> QED BY <2>1, <1>3, EmptySeq
<1>5. Tail(s)[Len(Tail(s))] = "commit"
  BY <1>1, <1>2, <1>3
<1> QED BY <1>3, <1>4, <1>5 DEF EndsWithCommit

(***************************************************************************)
(* The invariant of the locks.                                              *)
(***************************************************************************)
LEMMA TableRows == Table \subseteq Row
  BY DEF Row

LEMMA InitFInv == Init => FInv
<1> SUFFICES ASSUME Init PROVE FInv
  OBVIOUS
<1> USE DEF Init
<1>1. TypeOK
  BY FamiliesAssumption, StartsAssumption DEF TypeOK, NoWrites, Busy
<1>2. Shapes
  BY DEF Shapes
<1>3. ASSUME NEW p \in Proc PROVE Connected(p)
  BY FamiliesAssumption DEF Connected, EndsWithCommit, Busy, NoWrites, DeletedIsAlone
<1> QED BY <1>1, <1>2, <1>3 DEF FInv

(***************************************************************************)
(* A transaction that ends.                                                 *)
(***************************************************************************)
LEMMA EndKeepsFInv ==
    ASSUME FInv, NEW p \in Proc, EndTransaction(p),
           DOMAIN committed' = Table, calls' = calls
    PROVE  FInv'
<1> USE DEF EndTransaction
<1>1. Shapes'
  BY DEF FInv, Shapes
<1>2. ASSUME NEW q \in Proc, q # p
      PROVE  /\ program'[q] = program[q] /\ queue'[q] = queue[q]
             /\ written'[q] = written[q] /\ call'[q] = call[q]
  BY <1>2 DEF FInv, Shapes
<1>3. program'[p] = <<>> /\ queue'[p] = <<>> /\ written'[p] = NoWrites
  BY DEF FInv, Shapes
<1>4. holder' \in [Row -> Proc \cup {Nobody}] /\ sharers' \in [Row -> SUBSET Proc]
  BY DEF FInv, TypeOK
<1>5. \A r \in Row : holder'[r] # p /\ p \notin sharers'[r]
  BY FamiliesAssumption
<1>6. ASSUME NEW q \in Proc
      PROVE  /\ DOMAIN written'[q] = Table
             /\ Busy(q)' => call'[q] \in Calls
             /\ ~Busy(q)' => Clean(q)'
  <2>1. CASE q = p
    <3>1. Clean(q)' /\ ~(Busy(q))'
      BY <2>1, <1>3, <1>5 DEF Busy, Clean
    <3>2. DOMAIN written'[q] = Table
      BY <2>1, <1>3 DEF NoWrites
    <3> QED BY <3>1, <3>2
  <2>2. CASE q # p
    <3>1. \A r \in Row : /\ holder'[r] = q => holder[r] = q
                         /\ q \in sharers'[r] => q \in sharers[r]
      BY <2>2, FamiliesAssumption DEF FInv, TypeOK
    <3> QED BY <2>2, <1>2, <3>1 DEF FInv, TypeOK, Busy, Clean
  <2> QED BY <2>1, <2>2
<1>7. TypeOK'
  BY <1>4, <1>6 DEF FInv, TypeOK, Clean
<1>8. ASSUME NEW q \in Proc PROVE Connected(q)'
  <2>1. CASE q = p
    <3>0. EndsWithCommit(<<>>)
      BY DEF EndsWithCommit
    <3>1. EndsWithCommit(program'[q]) /\ ~(Busy(q))'
      BY <2>1, <1>3, <3>0, Zenon DEF Busy
    <3>2. \A r \in Table : written'[q][r] # Absent
      BY <2>1, <1>3, FamiliesAssumption DEF NoWrites
    <3> QED BY <3>1, <3>2 DEF Connected, DeletedIsAlone
  <2>2. CASE q # p
    <3>1. ASSUME NEW r \in Table, IsParent(r) PROVE DeletedIsAlone(q, r)'
      <4>1. DeletedIsAlone(q, r) /\ r \in Row
        BY <3>1, TableRows DEF FInv, Connected
      <4> QED BY <4>1, <2>2, <1>2 DEF FInv, TypeOK, DeletedIsAlone
    <3> QED BY <2>2, <1>2, <3>1 DEF FInv, Connected, Busy, Current
  <2> QED BY <2>1, <2>2
<1> QED BY <1>1, <1>7, <1>8 DEF FInv

LEMMA RollbackKeepsFInv ==
    ASSUME FInv, NEW p \in Proc, Rollback(p) PROVE FInv'
<1>1. DOMAIN committed' = Table /\ calls' = calls
  BY DEF Rollback, FInv, TypeOK
<1> QED BY <1>1, EndKeepsFInv DEF Rollback

(***************************************************************************)
(* The other steps, of which each changes one connection.                   *)
(***************************************************************************)
LEMMA BeginKeepsFInv ==
    ASSUME FInv, NEW p \in Proc, NEW c \in Calls, Begin(p, c) PROVE FInv'
<1> USE DEF Begin
<1>1. /\ program' = [program EXCEPT ![p] = Program(c) \o <<"commit">>]
      /\ call' = [call EXCEPT ![p] = c]
      /\ UNCHANGED <<committed, holder, sharers, queue, written>>
      /\ ~Busy(p) /\ calls < MaxCalls /\ calls' = calls + 1
  OBVIOUS
<1>2. Shapes'
  BY <1>1 DEF FInv, Shapes
<1>3. program'[p] = Program(c) \o <<"commit">> /\ call'[p] = c
  BY <1>1 DEF FInv, Shapes
<1>4. ASSUME NEW q \in Proc, q # p PROVE program'[q] = program[q] /\ call'[q] = call[q]
  BY <1>1, <1>4 DEF FInv, Shapes
<1>5. EndsWithCommit(program'[p]) /\ Busy(p)'
  BY <1>3, BegunProgram DEF Busy
<1>6. queue[p] = <<>>
  BY <1>1 DEF FInv, TypeOK
<1>7. TypeOK'
  <2>1. calls' \in 0..MaxCalls
    BY <1>1, FamiliesAssumption DEF FInv, TypeOK
  <2>2. ASSUME NEW q \in Proc
        PROVE  /\ DOMAIN written'[q] = Table
               /\ (Busy(q))' => call'[q] \in Calls
               /\ ~(Busy(q))' => (Clean(q))'
    <3>1. CASE q = p
      BY <3>1, <1>1, <1>3, <1>5 DEF FInv, TypeOK
    <3>2. CASE q # p
      BY <3>2, <1>1, <1>4 DEF FInv, TypeOK, Busy, Clean
    <3> QED BY <3>1, <3>2
  <2> QED BY <1>1, <2>1, <2>2 DEF FInv, TypeOK, Clean
<1>8. ASSUME NEW q \in Proc PROVE Connected(q)'
  <2>1. \A r \in Table : IsParent(r) => DeletedIsAlone(q, r)'
    BY <1>1 DEF FInv, Connected, DeletedIsAlone
  <2>2. CASE q = p
    BY <2>1, <2>2, <1>1, <1>5, <1>6 DEF Connected
  <2>3. CASE q # p
    BY <2>1, <2>3, <1>1, <1>4 DEF FInv, Connected, Busy, Current
  <2> QED BY <2>2, <2>3
<1> QED BY <1>2, <1>7, <1>8 DEF FInv

LEMMA ReadKeepsFInv ==
    ASSUME FInv, NEW p \in Proc, Read(p) PROVE FInv'
<1>1. CASE ~Passes(p) /\ Rollback(p)
  BY <1>1, RollbackKeepsFInv
<1>2. CASE /\ Advance(p)
           /\ UNCHANGED <<committed, holder, sharers, call, new, queue, written, history>>
  <2>1. Busy(p) /\ Current(p) \in Reads /\ Current(p) # "commit"
    BY DEF Read, Reads
  <2>2. program' = [program EXCEPT ![p] = Tail(program[p])]
    BY <1>2 DEF Advance
  <2>3. /\ UNCHANGED <<committed, holder, sharers, call, queue, written, calls>>
    BY <1>2 DEF history
  <2>4. EndsWithCommit(program'[p]) /\ (Busy(p))' /\ queue[p] = <<>>
    BY <2>1, <2>2, AdvancedProgram DEF FInv, Shapes, Connected, Busy, Current
  <2>5. ASSUME NEW q \in Proc, q # p PROVE program'[q] = program[q]
    BY <2>2, <2>5 DEF FInv, Shapes
  <2>6. Shapes'
    BY <2>2, <2>3 DEF FInv, Shapes
  <2>7. TypeOK'
    <3>1. ASSUME NEW q \in Proc
          PROVE  /\ DOMAIN written'[q] = Table
                 /\ (Busy(q))' => call'[q] \in Calls
                 /\ ~(Busy(q))' => (Clean(q))'
      <4>1. CASE q = p
        BY <4>1, <2>1, <2>3, <2>4 DEF FInv, TypeOK
      <4>2. CASE q # p
        BY <4>2, <2>3, <2>5 DEF FInv, TypeOK, Busy, Clean
      <4> QED BY <4>1, <4>2
    <3> QED BY <2>3, <3>1 DEF FInv, TypeOK, Clean
  <2>8. ASSUME NEW q \in Proc PROVE Connected(q)'
    <3>1. \A r \in Table : IsParent(r) => DeletedIsAlone(q, r)'
      BY <2>3 DEF FInv, Connected, DeletedIsAlone
    <3>2. CASE q = p
      BY <3>1, <3>2, <2>3, <2>4 DEF Connected
    <3>3. CASE q # p
      BY <3>1, <3>3, <2>3, <2>5 DEF FInv, Connected, Busy, Current
    <3> QED BY <3>2, <3>3
  <2> QED BY <2>6, <2>7, <2>8 DEF FInv
<1> QED BY <1>1, <1>2, Zenon DEF Read

LEMMA FindRowsKeepsFInv ==
    ASSUME FInv, NEW p \in Proc, FindRows(p) PROVE FInv'
<1>1. /\ Busy(p) /\ Current(p) \notin Reads \cup {"commit"}
      /\ UNCHANGED <<committed, holder, sharers, call, program, written, calls>>
      /\ queue' = [queue EXCEPT ![p] = Append(Locks(p), Done)]
  BY DEF FindRows, connection, history
<1>2. ASSUME NEW q \in Proc, q # p PROVE queue'[q] = queue[q]
  BY <1>1, <1>2 DEF FInv, Shapes
<1>3. Shapes'
  BY <1>1 DEF FInv, Shapes
<1>4. TypeOK'
  <2>1. ASSUME NEW q \in Proc PROVE ~(Busy(q))' => (Clean(q))'
    BY <1>1, <1>2 DEF FInv, TypeOK, Busy, Clean
  <2> QED BY <1>1, <2>1 DEF FInv, TypeOK, Busy, Clean
<1>5. ASSUME NEW q \in Proc PROVE Connected(q)'
  BY <1>1, <1>2 DEF FInv, Connected, Busy, Current, DeletedIsAlone
<1> QED BY <1>3, <1>4, <1>5 DEF FInv

\* what an INSERT adds for a user, family, category or account is no deletion
LEMMA AddedParents ==
    ASSUME FInv, NEW p \in Proc, Busy(p), NEW r \in Table, IsParent(r), r \in DOMAIN Added(p)
    PROVE  Added(p)[r] # Absent
<1>1. call[p].user \in User
  BY FamiliesAssumption DEF FInv, TypeOK
<1>2. CASE Current(p) = "add-family"
  <2>1. Added(p) = [x \in {FamilyRow(family[p])} |-> Doer(p)]
    BY <1>2 DEF Added
  <2>2. r[1] = "family"
    BY <2>1 DEF FamilyRow
  <2>3. Absent \notin User
    BY <2>2, FamiliesAssumption DEF Values
  <2> QED BY <2>1, <2>3, <1>1 DEF Doer
<1>3. CASE Current(p) \in {"add-owner", "add-member"}
  <2>1. DOMAIN Added(p) = {MemberRow(Doer(p))}
    BY <1>3 DEF Added
  <2> QED BY <2>1 DEF IsParent, MemberRow
<1>4. CASE Current(p) = "add-invitation"
  <2>1. DOMAIN Added(p) = {InvitationRow(new[p])}
    BY <1>4 DEF Added
  <2> QED BY <2>1 DEF IsParent, InvitationRow
<1>5. CASE Current(p) = "add-schedule"
  <2>1. DOMAIN Added(p) = {ScheduleRow(new[p])}
    BY <1>5 DEF Added
  <2> QED BY <2>1 DEF IsParent, ScheduleRow
<1>6. CASE Current(p) = "add-source"
  <2>1. DOMAIN Added(p) = {SourceRow(new[p])}
    BY <1>6 DEF Added
  <2> QED BY <2>1 DEF IsParent, SourceRow
<1>7. CASE Current(p) \notin {"add-family", "add-owner", "add-member", "add-invitation",
                              "add-schedule", "add-source"}
  <2>1. DOMAIN Added(p) = {}
    BY <1>7 DEF Added
  <2> QED BY <2>1
<1> QED BY <1>2, <1>3, <1>4, <1>5, <1>6, <1>7

LEMMA EndStatementKeepsFInv ==
    ASSUME FInv, NEW p \in Proc, EndStatement(p) PROVE FInv'
<1>1. /\ Busy(p) /\ queue[p] # <<>>
      /\ written' = [written EXCEPT ![p] = [r \in Table |->
                        IF r \in DOMAIN Added(p) THEN Added(p)[r] ELSE written[p][r]]]
      /\ queue' = [queue EXCEPT ![p] = <<>>]
      /\ program' = [program EXCEPT ![p] = Tail(program[p])]
      /\ UNCHANGED <<committed, holder, sharers, call, calls>>
  <2>1. <<Done>> # <<>>
    OBVIOUS
  <2> QED BY <2>1 DEF EndStatement, Advance, connection, history
<1>2. Shapes'
  BY <1>1 DEF FInv, Shapes
<1>3. ASSUME NEW q \in Proc, q # p
      PROVE  program'[q] = program[q] /\ queue'[q] = queue[q] /\ written'[q] = written[q]
  BY <1>1, <1>3 DEF FInv, Shapes
<1>4. /\ program'[p] = Tail(program[p]) /\ queue'[p] = <<>>
      /\ written'[p] = [r \in Table |->
                          IF r \in DOMAIN Added(p) THEN Added(p)[r] ELSE written[p][r]]
  BY <1>1 DEF FInv, Shapes
<1>5. EndsWithCommit(program'[p]) /\ (Busy(p))'
  BY <1>1, <1>4, AdvancedProgram DEF FInv, Connected, Busy, Current
<1>6. TypeOK'
  <2>1. ASSUME NEW q \in Proc
        PROVE  /\ DOMAIN written'[q] = Table
               /\ (Busy(q))' => call'[q] \in Calls
               /\ ~(Busy(q))' => (Clean(q))'
    <3>1. CASE q = p
      BY <3>1, <1>1, <1>4, <1>5 DEF FInv, TypeOK
    <3>2. CASE q # p
      BY <3>2, <1>1, <1>3 DEF FInv, TypeOK, Busy, Clean
    <3> QED BY <3>1, <3>2
  <2> QED BY <1>1, <2>1 DEF FInv, TypeOK, Clean
<1>7. ASSUME NEW q \in Proc PROVE Connected(q)'
  <2>1. CASE q = p
    <3>1. ASSUME NEW r \in Table, IsParent(r) PROVE DeletedIsAlone(p, r)'
      <4>1. written'[p][r] = Absent => written[p][r] = Absent
        BY <1>1, <1>4, <3>1, AddedParents
      <4> QED BY <4>1, <3>1, <1>1 DEF FInv, Connected, DeletedIsAlone
    <3> QED BY <2>1, <3>1, <1>4, <1>5 DEF Connected
  <2>2. CASE q # p
    BY <2>2, <1>1, <1>3 DEF FInv, Connected, Busy, Current, DeletedIsAlone
  <2> QED BY <2>1, <2>2
<1> QED BY <1>2, <1>6, <1>7 DEF FInv

(***************************************************************************)
(* A row is locked only when nobody stands in the way.                      *)
(***************************************************************************)
LEMMA WriterBlocks ==
    ASSUME FInv, NEW p \in Proc, NEW q \in Proc, q # p, queue[p] # <<>>,
           Wanted(p).mode # "done", NEW r \in Table, r = Wanted(p).row, IsParent(r),
           written[q][r] = Absent
    PROVE  Blockers(p) # {}
<1>1. r \in DOMAIN holder /\ holder[r] = q /\ q # Nobody
  BY TableRows, FamiliesAssumption DEF FInv, TypeOK, Connected, DeletedIsAlone
<1>2. Visible(q, r) = Absent
  BY FamiliesAssumption DEF Visible
<1> QED BY <1>1, <1>2 DEF Blockers, IsThere

LEMMA SharersBlock ==
    ASSUME FInv, NEW p \in Proc, queue[p] # <<>>, Wanted(p).mode = "delete", Blockers(p) = {},
           NEW r, r = Wanted(p).row
    PROVE  sharers[r] \subseteq {p}
  BY DEF Blockers

\* an UPDATE changes no user, family, category or account
LEMMA UpdatesNoParent ==
    ASSUME NEW p \in Proc, NEW r \in Table, IsParent(r), Matches(p, r)
    PROVE  Mode(p) # "update"
<1>1. CASE Current(p) = "answer"
  BY <1>1 DEF Matches, IsParent, InvitationRow
<1>2. CASE Current(p) = "reassign-schedules"
  BY <1>2 DEF Matches, IsParent
<1> QED BY <1>1, <1>2 DEF Mode

LEMMA LockRowKeepsFInv ==
    ASSUME FInv, NEW p \in Proc, LockRow(p) PROVE FInv'
<1> DEFINE l == Wanted(p)
           changes == l.mode = Mode(p) /\ l.mode # "none-left" /\ Matches(p, l.row)
<1>1. /\ Busy(p) /\ queue[p] # <<>> /\ l.mode # "done" /\ Blockers(p) = {}
      /\ sharers' = IF l.mode = "refer"
                    THEN [sharers EXCEPT ![l.row] = @ \cup {p}] ELSE sharers
      /\ holder' = IF l.mode = "insert" \/ changes
                   THEN [holder EXCEPT ![l.row] = p] ELSE holder
      /\ written' = IF changes
                    THEN [written EXCEPT ![p][l.row] = Changed(p, l.row)] ELSE written
      /\ queue' = [queue EXCEPT ![p] = Tail(queue[p])]
      /\ UNCHANGED <<committed, call, program, calls>>
  BY DEF LockRow, connection, history
<1> HIDE DEF l, changes
<1>2. Shapes'
  BY <1>1 DEF FInv, Shapes
<1>3. ASSUME NEW q \in Proc, q # p
      PROVE  queue'[q] = queue[q] /\ written'[q] = written[q]
  BY <1>1, <1>3 DEF FInv, Shapes
<1>4. DOMAIN written'[p] = Table
  <2>1. DOMAIN written[p] = Table
    BY DEF FInv, TypeOK
  <2>2. ASSUME changes PROVE written'[p] = [written[p] EXCEPT ![l.row] = Changed(p, l.row)]
    <3>1. written = [o \in Proc |-> written[o]]
      BY DEF FInv, Shapes
    <3> QED BY <1>1, <2>2, <3>1
  <2> QED BY <1>1, <2>1, <2>2
<1>5. holder' \in [Row -> Proc \cup {Nobody}] /\ sharers' \in [Row -> SUBSET Proc]
  <2>1. holder \in [Row -> Proc \cup {Nobody}] /\ sharers \in [Row -> SUBSET Proc]
    BY DEF FInv, TypeOK
  <2>2. [holder EXCEPT ![l.row] = p] \in [Row -> Proc \cup {Nobody}]
    BY <2>1
  <2>3. [sharers EXCEPT ![l.row] = @ \cup {p}] \in [Row -> SUBSET Proc]
    BY <2>1
  <2> QED BY <1>1, <2>1, <2>2, <2>3
<1>6. ASSUME NEW q \in Proc, q # p, NEW r \in Row
      PROVE  /\ holder[r] # q => holder'[r] # q
             /\ q \notin sharers[r] => q \notin sharers'[r]
  BY <1>1, <1>6 DEF FInv, TypeOK
<1>7. TypeOK'
  <2>1. ASSUME NEW q \in Proc
        PROVE  /\ DOMAIN written'[q] = Table
               /\ (Busy(q))' => call'[q] \in Calls
               /\ ~(Busy(q))' => (Clean(q))'
    <3>1. CASE q = p
      BY <3>1, <1>1, <1>4 DEF FInv, TypeOK, Busy
    <3>2. CASE q # p
      BY <3>2, <1>1, <1>3, <1>6 DEF FInv, TypeOK, Busy, Clean
    <3> QED BY <3>1, <3>2
  <2> QED BY <1>1, <1>5, <2>1 DEF FInv, TypeOK, Clean
<1>8. ASSUME NEW q \in Proc, q # p, NEW r \in Table, IsParent(r), written[q][r] = Absent
      PROVE  r # l.row
  BY <1>1, <1>8, WriterBlocks DEF l
<1>9. ASSUME NEW q \in Proc, NEW r \in Table, IsParent(r) PROVE DeletedIsAlone(q, r)'
  <2>1. DeletedIsAlone(q, r) /\ r \in Row
    BY <1>9, TableRows DEF FInv, Connected
  <2>2. CASE q # p
    <3>1. written[q][r] = Absent => holder'[r] = holder[r] /\ sharers'[r] = sharers[r]
      BY <2>2, <1>9, <1>8, <1>1 DEF FInv, TypeOK
    <3> QED BY <2>1, <2>2, <3>1, <1>3 DEF DeletedIsAlone
  <2>3. CASE q = p /\ changes /\ r = l.row
    <3>1. l.mode = "delete"
      BY <2>3, <1>9, <1>1, UpdatesNoParent DEF changes, Mode
    <3>2. sharers[r] \subseteq {p}
      BY <3>1, <2>3, <1>1, SharersBlock DEF l
    <3>3. holder'[r] = p /\ sharers'[r] = sharers[r]
      BY <3>1, <2>1, <2>3, <1>1 DEF FInv, TypeOK
    <3> QED BY <2>3, <3>2, <3>3 DEF DeletedIsAlone
  <2>4. CASE q = p /\ ~(changes /\ r = l.row)
    <3>1. written'[p][r] = written[p][r]
      BY <2>4, <1>9, <1>1 DEF FInv, Shapes, TypeOK
    <3>2. holder[r] = p => holder'[r] = p
      BY <2>1, <1>1 DEF FInv, TypeOK
    <3>3. sharers[r] \subseteq {p} => sharers'[r] \subseteq {p}
      BY <2>1, <1>1 DEF FInv, TypeOK
    <3> QED BY <2>1, <2>4, <3>1, <3>2, <3>3 DEF DeletedIsAlone
  <2> QED BY <2>2, <2>3, <2>4
<1>10. ASSUME NEW q \in Proc PROVE Connected(q)'
  <2>1. EndsWithCommit(program[q]) /\ (Busy(q) /\ queue[q] # <<>>
                                       => Current(q) \notin Reads \cup {"commit"})
    BY DEF FInv, Connected
  <2>2. queue'[q] # <<>> => queue[q] # <<>>
    BY <1>1, <1>3
  <2> QED BY <2>1, <2>2, <1>1, <1>9 DEF Connected, Busy, Current
<1> QED BY <1>2, <1>7, <1>10 DEF FInv

(***************************************************************************)
(* The theorems.                                                            *)
(***************************************************************************)
LEMMA CommitKeepsFInv ==
    ASSUME FInv, NEW p \in Proc, CommitTransaction(p) PROVE FInv'
<1>1. DOMAIN committed' = Table /\ calls' = calls /\ EndTransaction(p)
  BY DEF CommitTransaction
<1> QED BY <1>1, EndKeepsFInv

LEMMA StepKeepsFInv == FInv /\ [Next]_vars => FInv'
<1> SUFFICES ASSUME FInv, [Next]_vars PROVE FInv'
  OBVIOUS
<1>1. ASSUME NEW p \in Proc, NEW c \in Calls, Begin(p, c) PROVE FInv'
  BY <1>1, BeginKeepsFInv
<1>2. ASSUME NEW p \in Proc, Step(p) PROVE FInv'
  <2>1. CASE Read(p)
    BY <2>1, ReadKeepsFInv
  <2>2. CASE FindRows(p)
    BY <2>2, FindRowsKeepsFInv
  <2>3. CASE LockRow(p)
    BY <2>3, LockRowKeepsFInv
  <2>4. CASE ConstraintError(p)
    BY <2>4, RollbackKeepsFInv DEF ConstraintError
  <2>8. CASE LedgerRefuses(p)
    BY <2>8, RollbackKeepsFInv DEF LedgerRefuses
  <2>5. CASE EndStatement(p)
    BY <2>5, EndStatementKeepsFInv
  <2>6. CASE CommitTransaction(p)
    BY <2>6, CommitKeepsFInv
  <2>7. CASE AbortDeadlocked(p)
    BY <2>7, RollbackKeepsFInv DEF AbortDeadlocked
  <2> QED BY <1>2, <2>1, <2>2, <2>3, <2>4, <2>5, <2>6, <2>7, <2>8 DEF Step
<1>3. CASE UNCHANGED vars
  BY <1>3 DEF vars, connection, history, FInv, TypeOK, Shapes, Connected, Busy, Current,
              DeletedIsAlone
<1> QED BY <1>1, <1>2, <1>3 DEF Next

\* Whatever calls cross on however many connections, a connection that comes
\* back from its call (Database.call_function) holds no lock and no change.
THEOREM TypeCorrect == Spec => []TypeOK
<1>1. FInv => TypeOK
  BY DEF FInv
<1> QED BY <1>1, InitFInv, StepKeepsFInv, PTL DEF Spec

LEMMA CommitLeavesReferred ==
    ASSUME FInv, NEW p \in Proc, CommitTransaction(p),
           NEW r \in Table, NEW q \in Proc, IsParent(r), q \in sharers[r], q \in sharers'[r],
           committed[r] # Absent
    PROVE  committed'[r] # Absent
<1>1. r \in Row
  BY TableRows
<1>2. q # p
  BY <1>1 DEF CommitTransaction, EndTransaction
<1>3. written[p][r] # Absent
  BY <1>2 DEF FInv, Connected, DeletedIsAlone
<1>4. committed'[r] = Visible(p, r)
  BY DEF CommitTransaction
<1> QED BY <1>3, <1>4 DEF Visible

LEMMA StepLeavesReferred == FInv /\ [Next]_vars =>
    [\A r \in Table, q \in Proc :
        /\ r[1] \in {"user", "family", "category", "account"}
        /\ q \in sharers[r] /\ q \in sharers'[r]
        /\ committed[r] # Absent
        => committed'[r] # Absent]_vars
<1> SUFFICES ASSUME FInv, [Next]_vars, NEW r \in Table, NEW q \in Proc, IsParent(r),
                    q \in sharers[r], q \in sharers'[r], committed[r] # Absent
             PROVE  committed'[r] # Absent
  BY DEF IsParent
<1>1. ASSUME NEW p \in Proc, CommitTransaction(p) PROVE committed'[r] # Absent
  BY <1>1, CommitLeavesReferred
<1>2. ASSUME NEW p \in Proc, Step(p), ~CommitTransaction(p) PROVE committed' = committed
  BY <1>2 DEF Step, Read, FindRows, LockRow, ConstraintError, LedgerRefuses, EndStatement, AbortDeadlocked,
              Rollback
<1>3. ASSUME NEW p \in Proc, NEW c \in Calls, Begin(p, c) PROVE committed' = committed
  BY <1>3 DEF Begin
<1>4. CASE UNCHANGED vars
  BY <1>4 DEF vars
<1> QED BY <1>1, <1>2, <1>3, <1>4 DEF Next

\* The foreign keys hold between transactions as well: while a call refers to a
\* user, a family, a category or an account, no set__dissolve_family and no
\* set__delete_user_account of another commits the deletion of it.
THEOREM ReferredRowsAreKept == Spec => ReferredRowsStay
<1>1. Spec => []FInv
  BY InitFInv, StepKeepsFInv, PTL DEF Spec
<1> QED BY <1>1, StepLeavesReferred, PTL DEF Spec, ReferredRowsStay

(***************************************************************************)
(* Programs.                                                                *)
(***************************************************************************)
LEMMA FullIsSeq ==
    ASSUME NEW c \in Calls
    PROVE  /\ Full(c) \in Seq(Statement) /\ Len(Full(c)) = Len(Program(c)) + 1
           /\ Len(Program(c)) \in Nat
           /\ \A k \in 1..Len(Program(c)) : Full(c)[k] = Program(c)[k]
           /\ Full(c)[Len(Full(c))] = "commit"
<1> DEFINE s == Program(c)
<1>1. s \in Seq(Statement) /\ "commit" \in Statement
  BY ProgramIsSeq DEF Statement
<1> HIDE DEF s
<1>2. s \o <<"commit">> \in Seq(Statement) /\ Len(s \o <<"commit">>) = Len(s) + 1
      /\ Len(s) \in Nat
      /\ (\A k \in 1..Len(s) : (s \o <<"commit">>)[k] = s[k])
      /\ (s \o <<"commit">>)[Len(s) + 1] = "commit"
  BY <1>1
<1> QED BY <1>2 DEF s, Full

LEMMA FullOf ==
    ASSUME NEW c \in Calls, NEW n \in Nat, Len(Program(c)) = n
    PROVE  /\ Len(Full(c)) = n + 1 /\ Full(c)[n + 1] = "commit"
           /\ \A k \in 1..n : Full(c)[k] = Program(c)[k]
  BY FullIsSeq

LEMMA FullDissolve ==
    ASSUME NEW c \in Calls, c.call = "dissolve"
    PROVE  /\ Len(Full(c)) = 12
           /\ Full(c)[1] = "owns-a-family" /\ Full(c)[2] = "delete-ledger" /\ Full(c)[3] = "delete-schedules"
           /\ Full(c)[4] = "delete-category" /\ Full(c)[5] = "schedules-left"
           /\ Full(c)[6] = "delete-account" /\ Full(c)[7] = "sources-left"
           /\ Full(c)[8] = "delete-invitations" /\ Full(c)[9] = "delete-members"
           /\ Full(c)[10] = "delete-family" /\ Full(c)[11] = "cascade-family"
           /\ Full(c)[12] = "commit"
<1>1. Program(c) = DissolveFamily
  BY DEF Program
<1>2. Len(DissolveFamily) = 11
  BY DEF DissolveFamily
<1>3. /\ Program(c)[1] = "owns-a-family" /\ Program(c)[2] = "delete-ledger" /\ Program(c)[3] = "delete-schedules"
      /\ Program(c)[4] = "delete-category" /\ Program(c)[5] = "schedules-left"
      /\ Program(c)[6] = "delete-account" /\ Program(c)[7] = "sources-left"
      /\ Program(c)[8] = "delete-invitations" /\ Program(c)[9] = "delete-members"
      /\ Program(c)[10] = "delete-family" /\ Program(c)[11] = "cascade-family"
  BY <1>1 DEF DissolveFamily
<1>4. /\ Len(Full(c)) = 11 + 1 /\ Full(c)[11 + 1] = "commit"
      /\ \A k \in 1..11 : Full(c)[k] = Program(c)[k]
  BY <1>1, <1>2, FullOf
<1> QED BY <1>3, <1>4

LEMMA FullDelete ==
    ASSUME NEW c \in Calls, c.call = "delete"
    PROVE  /\ Len(Full(c)) = 9
           /\ Full(c)[1] = "known-user" /\ Full(c)[2] = "no-family"
           /\ Full(c)[3] = "reassign-schedules" /\ Full(c)[4] = "delete-invitations"
           /\ Full(c)[5] = "delete-ledger" /\ Full(c)[6] = "delete-user" /\ Full(c)[7] = "rows-left"
           /\ Full(c)[8] = "cascade-user" /\ Full(c)[9] = "commit"
<1>1. Program(c) = DeleteUserAccount
  BY DEF Program
<1>2. Len(DeleteUserAccount) = 8
  BY DEF DeleteUserAccount
<1>3. /\ Program(c)[1] = "known-user" /\ Program(c)[2] = "no-family"
      /\ Program(c)[3] = "reassign-schedules" /\ Program(c)[4] = "delete-invitations"
      /\ Program(c)[5] = "delete-ledger" /\ Program(c)[6] = "delete-user" /\ Program(c)[7] = "rows-left"
      /\ Program(c)[8] = "cascade-user"
  BY <1>1 DEF DeleteUserAccount
<1>4. /\ Len(Full(c)) = 8 + 1 /\ Full(c)[8 + 1] = "commit"
      /\ \A k \in 1..8 : Full(c)[k] = Program(c)[k]
  BY <1>1, <1>2, FullOf
<1> QED BY <1>3, <1>4

LEMMA FullLeave ==
    ASSUME NEW c \in Calls, c.call = "leave"
    PROVE  /\ Len(Full(c)) = 4
           /\ Full(c)[1] = "member-of-a-family" /\ Full(c)[2] = "reassign-schedules"
           /\ Full(c)[3] = "delete-membership" /\ Full(c)[4] = "commit"
<1>1. Program(c) = LeaveFamily
  BY DEF Program
<1>2. Len(LeaveFamily) = 3
  BY DEF LeaveFamily
<1>3. /\ Program(c)[1] = "member-of-a-family" /\ Program(c)[2] = "reassign-schedules"
      /\ Program(c)[3] = "delete-membership"
  BY <1>1 DEF LeaveFamily
<1>4. /\ Len(Full(c)) = 3 + 1 /\ Full(c)[3 + 1] = "commit"
      /\ \A k \in 1..3 : Full(c)[k] = Program(c)[k]
  BY <1>1, <1>2, FullOf
<1> QED BY <1>3, <1>4

LEMMA FullCreate ==
    ASSUME NEW c \in Calls, c.call = "create"
    PROVE  /\ Len(Full(c)) = 5
           /\ Full(c)[1] = "no-family" /\ Full(c)[2] = "known-user"
           /\ Full(c)[3] = "add-family" /\ Full(c)[4] = "add-owner" /\ Full(c)[5] = "commit"
<1>1. Program(c) = CreateFamily
  BY DEF Program
<1>2. Len(CreateFamily) = 4
  BY DEF CreateFamily
<1>3. /\ Program(c)[1] = "no-family" /\ Program(c)[2] = "known-user"
      /\ Program(c)[3] = "add-family" /\ Program(c)[4] = "add-owner"
  BY <1>1 DEF CreateFamily
<1>4. /\ Len(Full(c)) = 4 + 1 /\ Full(c)[4 + 1] = "commit"
      /\ \A k \in 1..4 : Full(c)[k] = Program(c)[k]
  BY <1>1, <1>2, FullOf
<1> QED BY <1>3, <1>4

LEMMA FullInvite ==
    ASSUME NEW c \in Calls, c.call = "invite"
    PROVE  /\ Len(Full(c)) = 5
           /\ Full(c)[1] = "owns-a-family" /\ Full(c)[2] = "invited-is-free"
           /\ Full(c)[3] = "not-invited-yet" /\ Full(c)[4] = "add-invitation"
           /\ Full(c)[5] = "commit"
<1>1. Program(c) = InviteFamilyMember
  BY DEF Program
<1>2. Len(InviteFamilyMember) = 4
  BY DEF InviteFamilyMember
<1>3. /\ Program(c)[1] = "owns-a-family" /\ Program(c)[2] = "invited-is-free"
      /\ Program(c)[3] = "not-invited-yet" /\ Program(c)[4] = "add-invitation"
  BY <1>1 DEF InviteFamilyMember
<1>4. /\ Len(Full(c)) = 4 + 1 /\ Full(c)[4 + 1] = "commit"
      /\ \A k \in 1..4 : Full(c)[k] = Program(c)[k]
  BY <1>1, <1>2, FullOf
<1> QED BY <1>3, <1>4

LEMMA FullAccept ==
    ASSUME NEW c \in Calls, c.call = "answer", c.accept
    PROVE  /\ Len(Full(c)) = 5
           /\ Full(c)[1] = "pending-invitation" /\ Full(c)[2] = "no-family"
           /\ Full(c)[3] = "add-member" /\ Full(c)[4] = "answer" /\ Full(c)[5] = "commit"
<1>1. Program(c) = <<"pending-invitation", "no-family", "add-member", "answer">>
  BY DEF Program, RespondFamilyInvitation
<1>2. Len(Program(c)) = 4
  BY <1>1
<1>3. /\ Program(c)[1] = "pending-invitation" /\ Program(c)[2] = "no-family"
      /\ Program(c)[3] = "add-member" /\ Program(c)[4] = "answer"
  BY <1>1
<1>4. /\ Len(Full(c)) = 4 + 1 /\ Full(c)[4 + 1] = "commit"
      /\ \A k \in 1..4 : Full(c)[k] = Program(c)[k]
  BY <1>1, <1>2, FullOf
<1> QED BY <1>3, <1>4

LEMMA FullDecline ==
    ASSUME NEW c \in Calls, c.call = "answer", ~c.accept
    PROVE  /\ Len(Full(c)) = 3
           /\ Full(c)[1] = "pending-invitation" /\ Full(c)[2] = "answer"
           /\ Full(c)[3] = "commit"
<1>1. Program(c) = <<"pending-invitation", "answer">>
  BY DEF Program, RespondFamilyInvitation
<1>2. Len(Program(c)) = 2
  BY <1>1
<1>3. /\ Program(c)[1] = "pending-invitation" /\ Program(c)[2] = "answer"
  BY <1>1
<1>4. /\ Len(Full(c)) = 2 + 1 /\ Full(c)[2 + 1] = "commit"
      /\ \A k \in 1..2 : Full(c)[k] = Program(c)[k]
  BY <1>1, <1>2, FullOf
<1> QED BY <1>3, <1>4

LEMMA FullSchedule ==
    ASSUME NEW c \in Calls, c.call = "schedule"
    PROVE  /\ Len(Full(c)) = 4
           /\ Full(c)[1] = "category" /\ Full(c)[2] = "access"
           /\ Full(c)[3] = "add-schedule" /\ Full(c)[4] = "commit"
<1>1. Program(c) = CreateScheduledExpense
  BY DEF Program
<1>2. Len(CreateScheduledExpense) = 3
  BY DEF CreateScheduledExpense
<1>3. /\ Program(c)[1] = "category" /\ Program(c)[2] = "access"
      /\ Program(c)[3] = "add-schedule"
  BY <1>1 DEF CreateScheduledExpense
<1>4. /\ Len(Full(c)) = 3 + 1 /\ Full(c)[3 + 1] = "commit"
      /\ \A k \in 1..3 : Full(c)[k] = Program(c)[k]
  BY <1>1, <1>2, FullOf
<1> QED BY <1>3, <1>4

LEMMA FullJournal ==
    ASSUME NEW c \in Calls, c.call = "journal"
    PROVE  /\ Len(Full(c)) = 4
           /\ Full(c)[1] = "account" /\ Full(c)[2] = "access"
           /\ Full(c)[3] = "add-source" /\ Full(c)[4] = "commit"
<1>1. Program(c) = CryptoSourceEvent
  BY DEF Program
<1>2. Len(CryptoSourceEvent) = 3
  BY DEF CryptoSourceEvent
<1>3. /\ Program(c)[1] = "account" /\ Program(c)[2] = "access"
      /\ Program(c)[3] = "add-source"
  BY <1>1 DEF CryptoSourceEvent
<1>4. /\ Len(Full(c)) = 3 + 1 /\ Full(c)[3 + 1] = "commit"
      /\ \A k \in 1..3 : Full(c)[k] = Program(c)[k]
  BY <1>1, <1>2, FullOf
<1> QED BY <1>3, <1>4

LEMMA Kinds == ASSUME NEW c \in Calls
    PROVE  c.call \in {"create", "invite", "answer", "leave", "dissolve", "delete", "schedule",
                       "journal"}
  BY FamiliesAssumption

\* where a call is in its program
LEMMA Position ==
    ASSUME FInv, NEW p \in Proc, Busy(p), OnTrack(p)
    PROVE  \E i \in 1..Len(Full(call[p])) :
              /\ Current(p) = Full(call[p])[i]
              /\ Left(p) = {Full(call[p])[j] : j \in i..Len(Full(call[p]))}
<1> DEFINE s == program[p]  all == Full(call[p])  n == Len(s)  i == Len(all) - n + 1
<1>1. call[p] \in Calls /\ s \in Seq(Statement) /\ s # <<>>
  BY DEF FInv, TypeOK, Connected, EndsWithCommit, Busy
<1>2. all \in Seq(Statement) /\ Len(all) \in Nat
  BY <1>1, FullIsSeq
<1>3. n \in Nat /\ n # 0 /\ n <= Len(all) /\ \A k \in 1..n : s[k] = all[Len(all) - n + k]
  BY <1>1, EmptySeq DEF OnTrack
<1> HIDE DEF s, all, n
<1>4. i \in 1..Len(all) /\ Head(s) = all[i]
  <2>1. Head(s) = s[1]
    BY <1>1
  <2> QED BY <2>1, <1>2, <1>3
<1>5. ASSUME NEW x PROVE (\E k \in 1..n : x = s[k]) <=> (\E j \in i..Len(all) : x = all[j])
  <2>1. ASSUME NEW k \in 1..n, x = s[k] PROVE \E j \in i..Len(all) : x = all[j]
    <3>1. Len(all) - n + k \in i..Len(all) /\ x = all[Len(all) - n + k]
      BY <2>1, <1>2, <1>3
    <3> QED BY <3>1
  <2>2. ASSUME NEW j \in i..Len(all), x = all[j] PROVE \E k \in 1..n : x = s[k]
    <3>1. j - Len(all) + n \in 1..n /\ Len(all) - n + (j - Len(all) + n) = j
      BY <1>2, <1>3
    <3>2. x = s[j - Len(all) + n]
      BY <2>2, <3>1, <1>3
    <3> QED BY <3>1, <3>2
  <2> QED BY <2>1, <2>2
<1>6. {s[k] : k \in 1..n} = {all[j] : j \in i..Len(all)}
  BY <1>5
<1> QED BY <1>4, <1>6 DEF s, all, n, Current, Left

\* the order of the statements, as far as what follows relies on it
Before(a, b, p) == (Current(p) = b \/ b \notin Left(p)) => a \notin Left(p)

LEMMA DissolveOrder ==
    ASSUME FInv, NEW p \in Proc, Busy(p), OnTrack(p), call[p].call = "dissolve"
    PROVE  /\ Before("delete-category", "schedules-left", p)
           /\ Before("delete-account", "sources-left", p)
           /\ Before("delete-family", "cascade-family", p)
           /\ Current(p) \notin Choosing => Choosing \cap Left(p) = {}
           /\ Current(p) = "commit" => Left(p) = {"commit"}
           /\ Current(p) \in {"owns-a-family", "delete-ledger", "delete-schedules", "delete-category",
                  "schedules-left", "delete-account", "sources-left", "delete-invitations",
                  "delete-members", "delete-family", "cascade-family", "commit"}
<1>1. call[p] \in Calls
  BY DEF FInv, TypeOK
<1> DEFINE F == Full(call[p])
<1>2. PICK i \in 1..Len(F) : Current(p) = F[i] /\ Left(p) = {F[j] : j \in i..Len(F)}
  BY Position
<1>3. /\ Len(F) = 12
      /\ F[1] = "owns-a-family" /\ F[2] = "delete-ledger" /\ F[3] = "delete-schedules"
      /\ F[4] = "delete-category" /\ F[5] = "schedules-left"
      /\ F[6] = "delete-account" /\ F[7] = "sources-left"
      /\ F[8] = "delete-invitations" /\ F[9] = "delete-members"
      /\ F[10] = "delete-family" /\ F[11] = "cascade-family" /\ F[12] = "commit"
  BY <1>1, FullDissolve
<1> HIDE DEF F
<1>4. Before("delete-category", "schedules-left", p)
  BY <1>2, <1>3 DEF Before
<1>5. Before("delete-account", "sources-left", p)
  BY <1>2, <1>3 DEF Before
<1>6. Before("delete-family", "cascade-family", p)
  BY <1>2, <1>3 DEF Before
<1>7. Current(p) \notin Choosing => Choosing \cap Left(p) = {}
  BY <1>2, <1>3 DEF Choosing
<1>8. Current(p) = "commit" => Left(p) = {"commit"}
  <2>0. i = 1 \/ i = 2 \/ i = 3 \/ i = 4 \/ i = 5 \/ i = 6 \/ i = 7 \/ i = 8 \/ i = 9 \/ i = 10 \/ i = 11 \/ i = 12
    BY <1>2, <1>3
  <2>1. Current(p) = "commit" => i = 12
    BY <2>0, <1>2, <1>3
  <2> QED BY <2>1, <1>2, <1>3
<1>9. Current(p) \in {"owns-a-family", "delete-ledger", "delete-schedules", "delete-category",
                  "schedules-left", "delete-account", "sources-left", "delete-invitations",
                  "delete-members", "delete-family", "cascade-family", "commit"}
  BY <1>2, <1>3
<1> QED BY <1>4, <1>5, <1>6, <1>7, <1>8, <1>9

LEMMA DeleteOrder ==
    ASSUME FInv, NEW p \in Proc, Busy(p), OnTrack(p), call[p].call = "delete"
    PROVE  /\ Before("delete-user", "rows-left", p) /\ Before("delete-user", "cascade-user", p)
           /\ Current(p) = "commit" => Left(p) = {"commit"}
           /\ Current(p) \in {"known-user", "no-family", "reassign-schedules",
                  "delete-invitations", "delete-ledger", "delete-user", "rows-left", "cascade-user", "commit"}
           /\ Choosing \cap Left(p) = {}
<1>1. call[p] \in Calls
  BY DEF FInv, TypeOK
<1> DEFINE F == Full(call[p])
<1>2. PICK i \in 1..Len(F) : Current(p) = F[i] /\ Left(p) = {F[j] : j \in i..Len(F)}
  BY Position
<1>3. /\ Len(F) = 9 /\ F[1] = "known-user" /\ F[2] = "no-family"
      /\ F[3] = "reassign-schedules" /\ F[4] = "delete-invitations"
      /\ F[5] = "delete-ledger" /\ F[6] = "delete-user" /\ F[7] = "rows-left" /\ F[8] = "cascade-user" /\ F[9] = "commit"
  BY <1>1, FullDelete
<1> HIDE DEF F
<1>4. Before("delete-user", "rows-left", p) /\ Before("delete-user", "cascade-user", p)
  BY <1>2, <1>3 DEF Before
<1>5. Current(p) = "commit" => Left(p) = {"commit"}
  <2>0. i = 1 \/ i = 2 \/ i = 3 \/ i = 4 \/ i = 5 \/ i = 6 \/ i = 7 \/ i = 8 \/ i = 9
    BY <1>2, <1>3
  <2>1. Current(p) = "commit" => i = 9
    BY <2>0, <1>2, <1>3
  <2> QED BY <2>1, <1>2, <1>3
<1>6. Current(p) \in {"known-user", "no-family", "reassign-schedules",
                  "delete-invitations", "delete-ledger", "delete-user", "rows-left", "cascade-user", "commit"}
  BY <1>2, <1>3
<1>7. Choosing \cap Left(p) = {}
  BY <1>2, <1>3 DEF Choosing
<1> QED BY <1>4, <1>5, <1>6, <1>7

LEMMA LeaveOrder ==
    ASSUME FInv, NEW p \in Proc, Busy(p), OnTrack(p), call[p].call = "leave"
    PROVE  /\ Current(p) \notin Choosing => Choosing \cap Left(p) = {}
           /\ Current(p) \in {"member-of-a-family", "reassign-schedules", "delete-membership", "commit"}
<1>1. call[p] \in Calls
  BY DEF FInv, TypeOK
<1> DEFINE F == Full(call[p])
<1>2. PICK i \in 1..Len(F) : Current(p) = F[i] /\ Left(p) = {F[j] : j \in i..Len(F)}
  BY Position
<1>3. /\ Len(F) = 4 /\ F[1] = "member-of-a-family" /\ F[2] = "reassign-schedules"
      /\ F[3] = "delete-membership" /\ F[4] = "commit"
  BY <1>1, FullLeave
<1> HIDE DEF F
<1> QED BY <1>2, <1>3 DEF Choosing

LEMMA CreateOrder ==
    ASSUME FInv, NEW p \in Proc, Busy(p), OnTrack(p), call[p].call = "create"
    PROVE  /\ Current(p) = "commit" => Left(p) = {"commit"}
           /\ Current(p) \in {"no-family", "known-user", "add-family", "add-owner", "commit"}
           /\ Choosing \cap Left(p) = {}
<1>1. call[p] \in Calls
  BY DEF FInv, TypeOK
<1> DEFINE F == Full(call[p])
<1>2. PICK i \in 1..Len(F) : Current(p) = F[i] /\ Left(p) = {F[j] : j \in i..Len(F)}
  BY Position
<1>3. /\ Len(F) = 5 /\ F[1] = "no-family" /\ F[2] = "known-user"
      /\ F[3] = "add-family" /\ F[4] = "add-owner" /\ F[5] = "commit"
  BY <1>1, FullCreate
<1> HIDE DEF F
<1> QED BY <1>2, <1>3 DEF Choosing

LEMMA InviteOrder ==
    ASSUME FInv, NEW p \in Proc, Busy(p), OnTrack(p), call[p].call = "invite"
    PROVE  /\ Current(p) \notin Choosing => Choosing \cap Left(p) = {}
           /\ Current(p) \in {"owns-a-family", "invited-is-free", "not-invited-yet",
                              "add-invitation", "commit"}
<1>1. call[p] \in Calls
  BY DEF FInv, TypeOK
<1> DEFINE F == Full(call[p])
<1>2. PICK i \in 1..Len(F) : Current(p) = F[i] /\ Left(p) = {F[j] : j \in i..Len(F)}
  BY Position
<1>3. /\ Len(F) = 5 /\ F[1] = "owns-a-family" /\ F[2] = "invited-is-free"
      /\ F[3] = "not-invited-yet" /\ F[4] = "add-invitation" /\ F[5] = "commit"
  BY <1>1, FullInvite
<1> HIDE DEF F
<1> QED BY <1>2, <1>3 DEF Choosing

LEMMA AnswerOrder ==
    ASSUME FInv, NEW p \in Proc, Busy(p), OnTrack(p), call[p].call = "answer"
    PROVE  /\ Current(p) \notin Choosing => Choosing \cap Left(p) = {}
           /\ Current(p) = "commit" => Left(p) = {"commit"}
           /\ Current(p) \in {"pending-invitation", "no-family", "add-member", "answer", "commit"}
<1>1. call[p] \in Calls
  BY DEF FInv, TypeOK
<1> DEFINE F == Full(call[p])
<1>2. PICK i \in 1..Len(F) : Current(p) = F[i] /\ Left(p) = {F[j] : j \in i..Len(F)}
  BY Position
<1>3. CASE call[p].accept
  <2>1. /\ Len(F) = 5 /\ F[1] = "pending-invitation" /\ F[2] = "no-family"
        /\ F[3] = "add-member" /\ F[4] = "answer" /\ F[5] = "commit"
    BY <1>1, <1>3, FullAccept
  <2> HIDE DEF F
  <2> QED BY <1>2, <2>1 DEF Choosing
<1>4. CASE ~call[p].accept
  <2>1. /\ Len(F) = 3 /\ F[1] = "pending-invitation" /\ F[2] = "answer" /\ F[3] = "commit"
    BY <1>1, <1>4, FullDecline
  <2> HIDE DEF F
  <2> QED BY <1>2, <2>1 DEF Choosing
<1> QED BY <1>3, <1>4

LEMMA AddOrder ==
    ASSUME FInv, NEW p \in Proc, Busy(p), OnTrack(p)
    PROVE  /\ call[p].call = "schedule" =>
                  /\ Current(p) \in {"category", "access", "add-schedule", "commit"}
                  /\ Choosing \cap Left(p) = {}
           /\ call[p].call = "journal" =>
                  /\ Current(p) \in {"account", "access", "add-source", "commit"}
                  /\ Choosing \cap Left(p) = {}
<1>1. call[p] \in Calls
  BY DEF FInv, TypeOK
<1> DEFINE F == Full(call[p])
<1>2. PICK i \in 1..Len(F) : Current(p) = F[i] /\ Left(p) = {F[j] : j \in i..Len(F)}
  BY Position
<1>3. CASE call[p].call = "schedule"
  <2>1. /\ Len(F) = 4 /\ F[1] = "category" /\ F[2] = "access" /\ F[3] = "add-schedule"
        /\ F[4] = "commit"
    BY <1>1, <1>3, FullSchedule
  <2> HIDE DEF F
  <2> QED BY <1>2, <1>3, <2>1 DEF Choosing
<1>4. CASE call[p].call = "journal"
  <2>1. /\ Len(F) = 4 /\ F[1] = "account" /\ F[2] = "access" /\ F[3] = "add-source"
        /\ F[4] = "commit"
    BY <1>1, <1>4, FullJournal
  <2> HIDE DEF F
  <2> QED BY <1>2, <1>4, <2>1 DEF Choosing
<1> QED BY <1>3, <1>4

\* who writes has chosen the family
LEMMA ChosenBefore ==
    ASSUME FInv, NEW p \in Proc, Busy(p), OnTrack(p), Current(p) \notin Choosing
    PROVE  Choosing \cap Left(p) = {}
<1>1. call[p].call \in {"create", "invite", "answer", "leave", "dissolve", "delete", "schedule",
                       "journal"}
  BY Kinds DEF FInv, TypeOK
<1> QED BY <1>1, DissolveOrder, DeleteOrder, LeaveOrder, CreateOrder, InviteOrder, AnswerOrder,
          AddOrder

(***************************************************************************)
(* Rows.                                                                    *)
(***************************************************************************)
LEMMA RowKinds ==
    ASSUME NEW r \in Table
    PROVE  /\ r[1] \in {"user", "family", "category", "account", "member", "invitation",
                        "schedule", "source"}
           /\ r[1] = "user"       => r[2] \in User       /\ r = UserRow(r[2])
           /\ r[1] = "family"     => r[2] \in Family     /\ r = FamilyRow(r[2])
           /\ r[1] = "category"   => r[2] \in Family     /\ r = CategoryRow(r[2])
           /\ r[1] = "account"    => r[2] \in Family     /\ r = AccountRow(r[2])
           /\ r[1] = "member"     => r[2] \in User       /\ r = MemberRow(r[2])
           /\ r[1] = "invitation" => r[2] \in Invitation /\ r = InvitationRow(r[2])
           /\ r[1] = "schedule"   => r[2] \in Schedule   /\ r = ScheduleRow(r[2])
           /\ r[1] = "source"     => r[2] \in Source     /\ r = SourceRow(r[2])
  BY DEF Table, UserRow, FamilyRow, CategoryRow, AccountRow, MemberRow, InvitationRow,
         ScheduleRow, SourceRow

LEMMA UserRows == ASSUME NEW u \in User
    PROVE  /\ UserRow(u) \in Table /\ UserRow(u)[1] = "user" /\ UserRow(u)[2] = u
           /\ MemberRow(u) \in Table /\ MemberRow(u)[1] = "member" /\ MemberRow(u)[2] = u
  BY DEF Table, UserRow, MemberRow

LEMMA FamilyRows == ASSUME NEW f \in Family
    PROVE  /\ FamilyRow(f) \in Table /\ FamilyRow(f)[1] = "family" /\ FamilyRow(f)[2] = f
           /\ CategoryRow(f) \in Table /\ CategoryRow(f)[1] = "category" /\ CategoryRow(f)[2] = f
           /\ AccountRow(f) \in Table /\ AccountRow(f)[1] = "account" /\ AccountRow(f)[2] = f
  BY DEF Table, FamilyRow, CategoryRow, AccountRow

LEMMA InvitationRows == ASSUME NEW i \in Invitation
    PROVE  InvitationRow(i) \in Table /\ InvitationRow(i)[1] = "invitation" /\ InvitationRow(i)[2] = i
  BY DEF Table, InvitationRow

LEMMA ScheduleRows == ASSUME NEW s \in Schedule
    PROVE  ScheduleRow(s) \in Table /\ ScheduleRow(s)[1] = "schedule" /\ ScheduleRow(s)[2] = s
  BY DEF Table, ScheduleRow

LEMMA SourceRows == ASSUME NEW s \in Source
    PROVE  SourceRow(s) \in Table /\ SourceRow(s)[1] = "source" /\ SourceRow(s)[2] = s
  BY DEF Table, SourceRow

LEMMA KindValues ==
    ASSUME NEW r \in Table
    PROVE  /\ r[1] = "family"     => Values(r) = User
           /\ r[1] = "member"     => Values(r) = Membership
           /\ r[1] = "invitation" => Values(r) = Invite
           /\ r[1] \in {"schedule", "source"} => Values(r) = Entry
           /\ r[1] \in {"user", "category", "account"} => Values(r) = {TRUE}
           /\ Absent \notin Values(r) /\ Same \notin Values(r)
<1>1. Absent \notin Values(r) /\ Same \notin Values(r)
  BY FamiliesAssumption
<1> QED BY <1>1 DEF Values

\* what a row refers to is a row of a user, a family, a category or an account
LEMMA ParentRows ==
    ASSUME NEW r \in Table, NEW v \in Values(r), NEW parent \in Parents(r, v)
    PROVE  parent \in Table /\ IsParent(parent)
<1>1. CASE r[1] = "user"
  BY <1>1 DEF Parents
<1>2. CASE r[1] = "family"
  <2>1. v \in User /\ parent = UserRow(v)
    BY <1>2, KindValues DEF Parents
  <2> QED BY <2>1, UserRows DEF IsParent
<1>3. CASE r[1] \in {"category", "account"}
  <2>1. r[2] \in Family /\ parent = FamilyRow(r[2])
    BY <1>3, RowKinds DEF Parents
  <2> QED BY <2>1, FamilyRows DEF IsParent
<1>4. CASE r[1] = "member"
  <2>1. r[2] \in User /\ v \in Membership
    BY <1>4, RowKinds, KindValues
  <2>2. v.family \in Family
    BY <2>1 DEF Membership
  <2>3. parent \in {UserRow(r[2]), FamilyRow(v.family)}
    BY <1>4 DEF Parents
  <2> QED BY <2>1, <2>2, <2>3, UserRows, FamilyRows DEF IsParent
<1>5. CASE r[1] = "invitation"
  <2>1. v \in Invite
    BY <1>5, KindValues
  <2>2. v.family \in Family /\ v.invited \in User /\ v.by \in User
    BY <2>1 DEF Invite
  <2>3. parent \in {FamilyRow(v.family), UserRow(v.invited), UserRow(v.by)}
    BY <1>5 DEF Parents
  <2> QED BY <2>2, <2>3, UserRows, FamilyRows DEF IsParent
<1>6. CASE r[1] = "schedule"
  <2>1. v \in Entry
    BY <1>6, KindValues
  <2>2. v.family \in Family /\ v.by \in User
    BY <2>1 DEF Entry
  <2>3. parent \in {CategoryRow(v.family), FamilyRow(v.family), UserRow(v.by)}
    BY <1>6 DEF Parents
  <2> QED BY <2>2, <2>3, UserRows, FamilyRows DEF IsParent
<1>7. CASE r[1] = "source"
  <2>1. v \in Entry
    BY <1>7, KindValues
  <2>2. v.family \in Family /\ v.by \in User
    BY <2>1 DEF Entry
  <2>3. parent \in {AccountRow(v.family), UserRow(v.by)}
    BY <1>7 DEF Parents
  <2> QED BY <2>2, <2>3, UserRows, FamilyRows DEF IsParent
<1> QED BY <1>1, <1>2, <1>3, <1>4, <1>5, <1>6, <1>7, RowKinds

LEMMA TableFinite == IsFiniteSet(Table)
<1> DEFINE kinds == {"user", "family", "category", "account", "member", "invitation",
                     "schedule", "source"}
           ids == User \cup Family \cup Invitation \cup Schedule \cup Source
<1>1. IsFiniteSet(User) /\ IsFiniteSet(Family) /\ IsFiniteSet(Invitation)
      /\ IsFiniteSet(Schedule) /\ IsFiniteSet(Source)
  BY FamiliesAssumption
<1>2. IsFiniteSet(ids)
  BY <1>1, FS_Union
<1>3. IsFiniteSet(kinds)
  <2>1. /\ IsFiniteSet({"user"}) /\ IsFiniteSet({"family"}) /\ IsFiniteSet({"category"})
        /\ IsFiniteSet({"account"}) /\ IsFiniteSet({"member"}) /\ IsFiniteSet({"invitation"})
        /\ IsFiniteSet({"schedule"}) /\ IsFiniteSet({"source"})
    BY FS_Singleton
  <2>2. IsFiniteSet({"user"} \cup {"family"} \cup {"category"} \cup {"account"})
    BY <2>1, FS_Union
  <2>3. IsFiniteSet({"member"} \cup {"invitation"} \cup {"schedule"} \cup {"source"})
    BY <2>1, FS_Union
  <2>4. IsFiniteSet(({"user"} \cup {"family"} \cup {"category"} \cup {"account"})
                    \cup ({"member"} \cup {"invitation"} \cup {"schedule"} \cup {"source"}))
    BY <2>2, <2>3, FS_Union
  <2>5. kinds = ({"user"} \cup {"family"} \cup {"category"} \cup {"account"})
                \cup ({"member"} \cup {"invitation"} \cup {"schedule"} \cup {"source"})
    OBVIOUS
  <2> QED BY <2>4, <2>5
<1>4. IsFiniteSet(kinds \X ids)
  BY <1>2, <1>3, FS_Product
<1>5. Table \subseteq kinds \X ids
  BY DEF Table, UserRow, FamilyRow, CategoryRow, AccountRow, MemberRow, InvitationRow,
         ScheduleRow, SourceRow
<1> QED BY <1>4, <1>5, FS_Subset

\* a set of rows in some order is a sequence of all of them
LEMMA RowsInOrder ==
    ASSUME NEW S \in SUBSET Table
    PROVE  /\ SetToSeq(S) \in Seq(S)
           /\ \A x \in S : \E k \in 1..Len(SetToSeq(S)) : SetToSeq(S)[k] = x
<1> DEFINE n == Cardinality(S)  s == SetToSeq(S)
<1>1. IsFiniteSet(S)
  BY TableFinite, FS_Subset
<1>2. n \in Nat /\ ExistsBijection(1..n, S)
  BY <1>1, FS_CardinalityType
<1>3. \E f \in [1..n -> S] : IsInjective(f)
  BY <1>2 DEF ExistsBijection, Bijection, Injection
<1>4. s \in [1..n -> S] /\ IsInjective(s)
  BY <1>3 DEF SetToSeq
<1> HIDE DEF s
<1>5. s \in Injection(1..n, S)
  BY <1>4 DEF Injection
<1>6. IsFiniteSet(1..n) /\ Cardinality(1..n) = n
  BY <1>2, FS_CountingElements, FS_NatBijection, FS_Interval
<1> HIDE DEF n
<1>7. s \in Surjection(1..n, S)
  BY <1>1, <1>5, <1>6, FS_Injection DEF n
<1>8. s \in Seq(S) /\ Len(s) = n
  BY <1>2, <1>4
<1> QED BY <1>7, <1>8 DEF s, Surjection

(***************************************************************************)
(* What a connection knows.                                                 *)
(***************************************************************************)
LEMMA Calling ==
    ASSUME FInv, NEW p \in Proc, Busy(p)
    PROVE  /\ call[p] \in Calls /\ Doer(p) \in User /\ Doer(p) = call[p].user
           /\ call[p].call \in {"create", "invite", "answer", "leave", "dissolve", "delete",
                                "schedule", "journal"}
           /\ call[p].call = "invite" => call[p].invited \in User /\ call[p].invited # Doer(p)
           /\ call[p].call = "answer" => call[p].invitation \in Invitation
           /\ call[p].call \in {"schedule", "journal"} => call[p].family \in Family
<1>1. call[p] \in Calls
  BY DEF FInv, TypeOK
<1> QED BY <1>1, FamiliesAssumption DEF Doer

LEMMA Running == ASSUME WInv, NEW p \in Proc, Busy(p) PROVE Runs(p)
  BY DEF WInv

LEMMA NewRows ==
    ASSUME FInv, NEW p \in Proc, Busy(p), Fresh(p)
    PROVE  /\ NewRow(p)[1] = NewKind(call[p]) /\ NewRow(p)[2] = new[p]
           /\ NewKind(call[p]) # "none" => NewRow(p) \in Table /\ NewKind(call[p]) \in Serial
           /\ call[p].call = "create"   => new[p] \in Family /\ NewRow(p) = FamilyRow(new[p])
           /\ call[p].call = "invite"   => NewRow(p) = InvitationRow(new[p])
           /\ call[p].call = "schedule" => NewRow(p) = ScheduleRow(new[p])
           /\ call[p].call = "journal"  => NewRow(p) = SourceRow(new[p])
           /\ call[p].call \in {"create", "invite", "schedule", "journal"}
                  <=> NewKind(call[p]) # "none"
<1>1. call[p].call \in {"create", "invite", "answer", "leave", "dissolve", "delete",
                                "schedule", "journal"}
  BY Calling
<1>2. NewRow(p)[1] = NewKind(call[p]) /\ NewRow(p)[2] = new[p]
  BY DEF NewRow
<1>3. CASE call[p].call = "create"
  <2>1. new[p] \in Family /\ NewKind(call[p]) = "family"
    BY <1>3 DEF Fresh, NewKind, NewIds
  <2> QED BY <1>2, <1>3, <2>1, FamilyRows DEF NewRow, FamilyRow, Serial
<1>4. CASE call[p].call = "invite"
  <2>1. new[p] \in Invitation /\ NewKind(call[p]) = "invitation"
    BY <1>4 DEF Fresh, NewKind, NewIds
  <2> QED BY <1>2, <1>4, <2>1, InvitationRows DEF NewRow, InvitationRow, Serial
<1>5. CASE call[p].call = "schedule"
  <2>1. new[p] \in Schedule /\ NewKind(call[p]) = "schedule"
    BY <1>5 DEF Fresh, NewKind, NewIds
  <2> QED BY <1>2, <1>5, <2>1, ScheduleRows DEF NewRow, ScheduleRow, Serial
<1>6. CASE call[p].call = "journal"
  <2>1. new[p] \in Source /\ NewKind(call[p]) = "source"
    BY <1>6 DEF Fresh, NewKind, NewIds
  <2> QED BY <1>2, <1>6, <2>1, SourceRows DEF NewRow, SourceRow, Serial
<1>7. CASE call[p].call \in {"answer", "leave", "dissolve", "delete"}
  <2>1. NewKind(call[p]) = "none"
    BY <1>7 DEF NewKind
  <2> QED BY <1>2, <1>7, <2>1
<1> QED BY <1>1, <1>3, <1>4, <1>5, <1>6, <1>7

LEMMA ChosenFamily ==
    ASSUME FInv, NEW p \in Proc, Busy(p), Fresh(p), Chose(p), Choosing \cap Left(p) = {},
           call[p].call # "delete"
    PROVE  family[p] \in Family
<1>1. CASE call[p].call \in {"invite", "dissolve", "leave", "answer"}
  BY <1>1 DEF Chose
<1>2. CASE call[p].call = "create"
  BY <1>2, NewRows DEF Fresh, NewKind
<1>3. CASE call[p].call \in {"schedule", "journal"}
  BY <1>3, Calling DEF Fresh, NewKind
<1> QED BY <1>1, <1>2, <1>3, Calling

LEMMA EntryReferences ==
    ASSUME WInv, NEW r \in Table, committed[r] # Absent, r[1] = "schedule"
    PROVE  /\ committed[r] \in Entry /\ committed[r].family \in Family /\ committed[r].by \in User
           /\ committed[FamilyRow(committed[r].family)] \in User
           /\ committed[FamilyRow(committed[r].family)] # Absent
<1>1. committed[r] \in Entry
  BY KindValues DEF WInv, TypedRows
<1>2. committed[r].family \in Family /\ committed[r].by \in User
  BY <1>1 DEF Entry
<1>3. FamilyRow(committed[r].family) \in Parents(r, committed[r])
  BY DEF Parents
<1>4. committed[FamilyRow(committed[r].family)] # Absent
  BY <1>3 DEF WInv, FamilyIsWhole, References
<1>5. committed[FamilyRow(committed[r].family)] \in User
  <2>1. FamilyRow(committed[r].family) \in Table /\ Values(FamilyRow(committed[r].family)) = User
    BY <1>2, FamilyRows, KindValues
  <2> QED BY <1>4, <2>1 DEF WInv, TypedRows
<1> QED BY <1>1, <1>2, <1>4, <1>5

LEMMA ValuesAreRows ==
    ASSUME NEW r \in Table, NEW v \in Values(r) PROVE v \in Values(r) \cup {Absent} /\ v # Same
<1>1. Same \notin Values(r)
  BY KindValues
<1> QED BY <1>1

LEMMA WrittenValues ==
    ASSUME FInv, WInv, NEW p \in Proc, Busy(p), Fresh(p), Chose(p), Choosing \cap Left(p) = {},
           NEW r \in Table, NEW v, Writes(p, r, v)
    PROVE  v \in Values(r) \cup {Absent} /\ v # Same
<1> DEFINE c == call[p]  u == Doer(p)  f == family[p]  old == committed[r]
<1>0. u \in User /\ (c.call # "delete" => f \in Family)
  BY Calling, ChosenFamily
<1>1. CASE c.call = "create" /\ r = FamilyRow(f) /\ v = u
  <2>1. r[1] = "family"
    BY <1>0, <1>1, FamilyRows
  <2>2. Values(r) = User
    BY <2>1, KindValues
  <2> QED BY <1>0, <1>1, <2>2, ValuesAreRows
<1>2. CASE r = MemberRow(u) /\ (v = [family |-> f, role |-> "owner"]
                               \/ v = [family |-> f, role |-> "member"]) /\ c.call # "delete"
  <2>1. r[1] = "member" /\ v \in Membership
    BY <1>0, <1>2, UserRows DEF Membership
  <2>2. Values(r) = Membership
    BY <2>1, KindValues
  <2> QED BY <2>1, <2>2, ValuesAreRows
<1>3. CASE /\ c.call = "answer" /\ r = InvitationRow(c.invitation) /\ old # Absent
           /\ v = [old EXCEPT !.status = IF c.accept THEN "accepted" ELSE "declined"]
  <2>1. r[1] = "invitation"
    BY <1>3, Calling, InvitationRows
  <2>2. old \in Invite
    BY <1>3, <2>1, KindValues DEF WInv, TypedRows
  <2>3. v \in Invite
    BY <1>3, <2>2 DEF Invite
  <2>4. Values(r) = Invite
    BY <2>1, KindValues
  <2> QED BY <2>3, <2>4, ValuesAreRows
<1>4. CASE /\ c.call = "invite" /\ r = NewRow(p)
           /\ v = [family |-> f, invited |-> c.invited, by |-> u, status |-> "pending"]
  <2>1. r[1] = "invitation"
    BY <1>4, NewRows DEF NewKind
  <2>2. v \in Invite
    BY <1>0, <1>4, Calling DEF Invite
  <2>3. Values(r) = Invite
    BY <2>1, KindValues
  <2> QED BY <2>2, <2>3, ValuesAreRows
<1>5. CASE c.call \in {"schedule", "journal"} /\ r = NewRow(p) /\ v = [family |-> f, by |-> u]
  <2>1. r[1] \in {"schedule", "source"}
    BY <1>5, NewRows DEF NewKind
  <2>2. v \in Entry
    BY <1>0, <1>5 DEF Entry
  <2>3. Values(r) = Entry
    BY <2>1, KindValues
  <2> QED BY <2>2, <2>3, ValuesAreRows
<1>6. CASE /\ r[1] = "schedule" /\ old # Absent
           /\ v = [old EXCEPT !.by = committed[FamilyRow(old.family)]]
  <2>1. old \in Entry /\ committed[FamilyRow(old.family)] \in User
    BY <1>6, EntryReferences
  <2>2. v \in Entry
    BY <1>6, <2>1 DEF Entry
  <2>3. Values(r) = Entry
    BY <1>6, KindValues
  <2> QED BY <2>2, <2>3, ValuesAreRows
<1>7. CASE v = Absent
  BY <1>7, FamiliesAssumption
<1> QED BY <1>1, <1>2, <1>3, <1>4, <1>5, <1>6, <1>7 DEF Writes

(***************************************************************************)
(* A connection while another one takes a step.                             *)
(***************************************************************************)
Kept(q) ==
    /\ call'[q] = call[q] /\ program'[q] = program[q] /\ family'[q] = family[q]
    /\ new'[q] = new[q] /\ queue'[q] = queue[q] /\ written'[q] = written[q]
    /\ \A r \in Row : /\ holder[r] = q => holder'[r] = q
                      /\ q \in sharers'[r] <=> q \in sharers[r]

\* the id a connection has drawn, if any, is the one it had, or a new one
Drew(o) == \/ Busy(o) /\ NewRow(o)' = NewRow(o)
           \/ NewKind(call'[o]) = "none"
           \/ new'[o] \notin drawn

LEMMA KeptState ==
    ASSUME NEW q \in Proc, Kept(q)
    PROVE  /\ Busy(q)' <=> Busy(q)
           /\ Current(q)' = Current(q) /\ Left(q)' = Left(q) /\ Ahead(q)' = Ahead(q)
           /\ Doer(q)' = Doer(q) /\ NewRow(q)' = NewRow(q)
           /\ Mode(q)' = Mode(q) /\ Clearing(q)' = Clearing(q)
<1> USE DEF Kept
<1>1. (Busy(q)' <=> Busy(q)) /\ Current(q)' = Current(q) /\ Doer(q)' = Doer(q)
  BY DEF Busy, Current, Doer
<1>2. Left(q)' = Left(q)
  BY DEF Left
<1>3. Ahead(q)' = Ahead(q)
  BY DEF Ahead
<1>4. NewRow(q)' = NewRow(q)
  BY DEF NewRow, NewKind
<1>5. Mode(q)' = Mode(q)
  BY <1>1 DEF Mode
<1>6. Clearing(q)' = Clearing(q)
  BY DEF Clearing
<1> QED BY <1>1, <1>2, <1>3, <1>4, <1>5, <1>6

LEMMA KeptRefers ==
    ASSUME NEW q \in Proc, Kept(q), NEW r \in Row
    PROVE  Refers(q, r)' <=> Refers(q, r)
<1>1. Ahead(q)' = Ahead(q)
  BY KeptState
<1>2. q \in sharers'[r] <=> q \in sharers[r]
  BY DEF Kept
<1> QED BY <1>1, <1>2 DEF Refers

\* an INSERT locks its key and what the new row refers to
LEMMA LocksInAll ==
    ASSUME NEW S, NEW m \in S, NEW t \in Seq(S)
    PROVE  LocksIn(<<m>> \o t) = {m} \cup LocksIn(t)
<1>1. Len(t) \in Nat /\ Len(<<m>> \o t) = Len(t) + 1 /\ (<<m>> \o t)[1] = m
      /\ \A k \in 1..Len(t) : (<<m>> \o t)[k + 1] = t[k]
  OBVIOUS
<1>2. ASSUME NEW k \in 1..Len(<<m>> \o t), k # 1 PROVE (<<m>> \o t)[k] \in LocksIn(t)
  <2>1. k - 1 \in 1..Len(t) /\ (k - 1) + 1 = k
    BY <1>1, <1>2
  <2>2. (<<m>> \o t)[k] = t[k - 1]
    BY <1>1, <2>1
  <2> QED BY <2>1, <2>2 DEF LocksIn
<1>3. 1 \in 1..Len(<<m>> \o t) /\ \A k \in 1..Len(t) : k + 1 \in 1..Len(<<m>> \o t)
  BY <1>1
<1> DEFINE w == <<m>> \o t
<1>4. \A k \in 1..Len(w) : w[k] \in {m} \cup LocksIn(t)
  BY <1>1, <1>2
<1>5. \A k \in 1..Len(t) : \E j \in 1..Len(w) : t[k] = w[j]
  BY <1>1, <1>3
<1>6. 1 \in 1..Len(w) /\ w[1] = m
  BY <1>1, <1>3
<1> HIDE DEF w
<1>7. {w[k] : k \in 1..Len(w)} \subseteq {m} \cup LocksIn(t)
  BY <1>4
<1>8. LocksIn(t) \subseteq {w[k] : k \in 1..Len(w)}
  BY <1>5 DEF LocksIn
<1>9. {w[k] : k \in 1..Len(w)} = {m} \cup LocksIn(t)
  BY <1>6, <1>7, <1>8
<1> QED BY <1>9 DEF LocksIn, w

LEMMA TwoReferred ==
    ASSUME NEW x, NEW y
    PROVE  /\ LocksIn(RefersTo(<<x, y>>)) = {Lock("refer", x), Lock("refer", y)}
           /\ RefersTo(<<x, y>>) \in Seq({Lock("refer", x), Lock("refer", y)})
<1> DEFINE rows == <<x, y>>  s == RefersTo(rows)  S == {Lock("refer", x), Lock("refer", y)}
<1>a. rows \in Seq({x, y}) /\ DOMAIN rows = 1..2 /\ rows[1] = x /\ rows[2] = y
  OBVIOUS
<1> HIDE DEF rows
<1>1. s = [k \in 1..2 |-> Lock("refer", rows[k])]
  BY <1>a DEF RefersTo
<1>b. \A k \in 1..2 : k = 1 \/ k = 2
  OBVIOUS
<1>c. \A k \in 1..2 : Lock("refer", rows[k]) \in S
  BY <1>a, <1>b
<1>d. s \in [1..2 -> S]
  BY <1>1, <1>c
<1>2. /\ Len(s) = 2 /\ s \in Seq(S)
      /\ s[1] = Lock("refer", x)
      /\ s[2] = Lock("refer", y)
  BY <1>1, <1>a, <1>d
<1>3. 1..2 = {1, 2}
  OBVIOUS
<1>4. {s[k] : k \in 1..2} = S
  BY <1>2, <1>3
<1> QED BY <1>2, <1>4 DEF LocksIn, rows

LEMMA ThreeReferred ==
    ASSUME NEW x, NEW y, NEW z
    PROVE  /\ LocksIn(RefersTo(<<x, y, z>>))
                = {Lock("refer", x), Lock("refer", y), Lock("refer", z)}
           /\ RefersTo(<<x, y, z>>) \in Seq({Lock("refer", x), Lock("refer", y), Lock("refer", z)})
<1> DEFINE rows == <<x, y, z>>  s == RefersTo(rows)  S == {Lock("refer", x), Lock("refer", y), Lock("refer", z)}
<1>a. rows \in Seq({x, y, z}) /\ DOMAIN rows = 1..3 /\ rows[1] = x /\ rows[2] = y /\ rows[3] = z
  OBVIOUS
<1> HIDE DEF rows
<1>1. s = [k \in 1..3 |-> Lock("refer", rows[k])]
  BY <1>a DEF RefersTo
<1>b. \A k \in 1..3 : k = 1 \/ k = 2 \/ k = 3
  OBVIOUS
<1>c. \A k \in 1..3 : Lock("refer", rows[k]) \in S
  BY <1>a, <1>b
<1>d. s \in [1..3 -> S]
  BY <1>1, <1>c
<1>2. /\ Len(s) = 3 /\ s \in Seq(S)
      /\ s[1] = Lock("refer", x)
      /\ s[2] = Lock("refer", y)
      /\ s[3] = Lock("refer", z)
  BY <1>1, <1>a, <1>d
<1>3. 1..3 = {1, 2, 3}
  OBVIOUS
<1>4. {s[k] : k \in 1..3} = S
  BY <1>2, <1>3
<1> QED BY <1>2, <1>4 DEF LocksIn, rows

LEMMA InsertLocks ==
    ASSUME NEW p \in Proc, Current(p) \in Inserting
    PROVE  /\ Locks(p) \in Seq(LocksIn(Locks(p)))
           /\ LocksIn(Locks(p)) =
             CASE Current(p) = "add-family" -> {Lock("refer", UserRow(Doer(p)))}
               [] Current(p) \in {"add-owner", "add-member"} ->
                    {Lock("insert", MemberRow(Doer(p))), Lock("refer", FamilyRow(family[p])),
                     Lock("refer", UserRow(Doer(p)))}
               [] Current(p) = "add-invitation" ->
                    {Lock("insert", PendingKey(family[p], call[p].invited)),
                     Lock("refer", FamilyRow(family[p])), Lock("refer", UserRow(call[p].invited)),
                     Lock("refer", UserRow(Doer(p)))}
               [] Current(p) = "add-schedule" ->
                    {Lock("refer", CategoryRow(family[p])), Lock("refer", FamilyRow(family[p])),
                     Lock("refer", UserRow(Doer(p)))}
               [] Current(p) = "add-source" ->
                    {Lock("refer", AccountRow(family[p])), Lock("refer", UserRow(Doer(p)))}
<1>1. CASE Current(p) = "add-family"
  <2> DEFINE x == UserRow(Doer(p))
  <2>1. Locks(p) = RefersTo(<<x>>)
    BY <1>1 DEF Locks
  <2> HIDE DEF x
  <2>2. /\ Len(RefersTo(<<x>>)) = 1 /\ RefersTo(<<x>>)[1] = Lock("refer", x)
        /\ RefersTo(<<x>>) \in Seq({Lock("refer", x)})
    BY DEF RefersTo
  <2>3. 1..1 = {1}
    OBVIOUS
  <2>4. LocksIn(Locks(p)) = {Lock("refer", x)}
    BY <2>1, <2>2, <2>3 DEF LocksIn
  <2> QED BY <1>1, <2>1, <2>2, <2>4 DEF x
<1>2. CASE Current(p) \in {"add-owner", "add-member"}
  <2> DEFINE x == FamilyRow(family[p])  y == UserRow(Doer(p))  m == Lock("insert", MemberRow(Doer(p)))
  <2>1. Locks(p) = <<m>> \o RefersTo(<<x, y>>)
    BY <1>2 DEF Locks, MemberLocks
  <2> DEFINE t == RefersTo(<<x, y>>)  S == {m, Lock("refer", x), Lock("refer", y)}
  <2> HIDE DEF x, y, m
  <2>2. LocksIn(t) = {Lock("refer", x), Lock("refer", y)} /\ t \in Seq(S) /\ m \in S
    <3>1. t \in Seq({Lock("refer", x), Lock("refer", y)})
      BY TwoReferred
    <3>2. {Lock("refer", x), Lock("refer", y)} \subseteq S
      OBVIOUS
    <3> QED BY <3>1, <3>2, TwoReferred
  <2> HIDE DEF t
  <2>3. LocksIn(<<m>> \o t) = S
    <3>1. LocksIn(<<m>> \o t) = {m} \cup LocksIn(t)
      BY <2>2, LocksInAll
    <3> QED BY <2>2, <3>1
  <2>4. <<m>> \o t \in Seq(S)
    BY <2>2
  <2> QED BY <1>2, <2>1, <2>3, <2>4 DEF x, y, m, t
<1>3. CASE Current(p) = "add-invitation"
  <2> DEFINE x == FamilyRow(family[p])  y == UserRow(call[p].invited)  z == UserRow(Doer(p))
             m == Lock("insert", PendingKey(family[p], call[p].invited))
  <2>1. Locks(p) = <<m>> \o RefersTo(<<x, y, z>>)
    BY <1>3 DEF Locks
  <2> DEFINE t == RefersTo(<<x, y, z>>)
             S == {m, Lock("refer", x), Lock("refer", y), Lock("refer", z)}
  <2> HIDE DEF x, y, z, m
  <2>2. LocksIn(t) = {Lock("refer", x), Lock("refer", y), Lock("refer", z)} /\ t \in Seq(S) /\ m \in S
    <3>1. t \in Seq({Lock("refer", x), Lock("refer", y), Lock("refer", z)})
      BY ThreeReferred
    <3>2. {Lock("refer", x), Lock("refer", y), Lock("refer", z)} \subseteq S
      OBVIOUS
    <3> QED BY <3>1, <3>2, ThreeReferred
  <2> HIDE DEF t
  <2>3. LocksIn(<<m>> \o t) = S
    <3>1. LocksIn(<<m>> \o t) = {m} \cup LocksIn(t)
      BY <2>2, LocksInAll
    <3> QED BY <2>2, <3>1
  <2>4. <<m>> \o t \in Seq(S)
    BY <2>2
  <2> QED BY <1>3, <2>1, <2>3, <2>4 DEF x, y, z, m, t
<1>4. CASE Current(p) = "add-schedule"
  <2> DEFINE x == CategoryRow(family[p])  y == FamilyRow(family[p])  z == UserRow(Doer(p))
  <2>1. Locks(p) = RefersTo(<<x, y, z>>)
    BY <1>4 DEF Locks
  <2> HIDE DEF x, y, z
  <2>2. LocksIn(Locks(p)) = {Lock("refer", x), Lock("refer", y), Lock("refer", z)}
    BY <2>1, ThreeReferred
  <2>3. Locks(p) \in Seq({Lock("refer", x), Lock("refer", y), Lock("refer", z)})
    BY <2>1, ThreeReferred
  <2> QED BY <1>4, <2>2, <2>3 DEF x, y, z
<1>5. CASE Current(p) = "add-source"
  <2> DEFINE x == AccountRow(family[p])  y == UserRow(Doer(p))
  <2>1. Locks(p) = RefersTo(<<x, y>>)
    BY <1>5 DEF Locks
  <2> HIDE DEF x, y
  <2>2. LocksIn(Locks(p)) = {Lock("refer", x), Lock("refer", y)}
    BY <2>1, TwoReferred
  <2>3. Locks(p) \in Seq({Lock("refer", x), Lock("refer", y)})
    BY <2>1, TwoReferred
  <2> QED BY <1>5, <2>2, <2>3 DEF x, y
<1> QED BY <1>1, <1>2, <1>3, <1>4, <1>5 DEF Inserting

LEMMA KeptLocks ==
    ASSUME NEW q \in Proc, Kept(q), Current(q) \in Inserting
    PROVE  LocksIn(Locks(q))' = LocksIn(Locks(q))
<1>1. Current(q)' = Current(q) /\ Doer(q)' = Doer(q)
  BY KeptState
<1>2. call'[q] = call[q] /\ family'[q] = family[q]
  BY DEF Kept
<1>3. Locks(q)' = Locks(q)
  <2>1. CASE Current(q) = "add-family"
    BY <2>1, <1>1, <1>2 DEF Locks
  <2>2. CASE Current(q) \in {"add-owner", "add-member"}
    BY <2>2, <1>1, <1>2 DEF Locks, MemberLocks
  <2>3. CASE Current(q) = "add-invitation"
    BY <2>3, <1>1, <1>2 DEF Locks
  <2>4. CASE Current(q) = "add-schedule"
    BY <2>4, <1>1, <1>2 DEF Locks
  <2>5. CASE Current(q) = "add-source"
    BY <2>5, <1>1, <1>2 DEF Locks
  <2> QED BY <2>1, <2>2, <2>3, <2>4, <2>5 DEF Inserting
<1> QED BY <1>3 DEF LocksIn

(***************************************************************************)
(* Whose statement it is.                                                   *)
(***************************************************************************)
LEMMA CallOf ==
    ASSUME FInv, NEW p \in Proc, Busy(p), OnTrack(p)
    PROVE  /\ Current(p) \in {"add-family", "add-owner"} => call[p].call = "create"
           /\ Current(p) = "add-member"     => call[p].call = "answer"
           /\ Current(p) = "add-invitation" => call[p].call = "invite"
           /\ Current(p) = "add-schedule"   => call[p].call = "schedule"
           /\ Current(p) = "add-source"     => call[p].call = "journal"
           /\ Current(p) \in {"answer", "pending-invitation"} => call[p].call = "answer"
           /\ Current(p) = "owns-a-family"  => call[p].call \in {"invite", "dissolve"}
           /\ Current(p) \in {"member-of-a-family", "delete-membership"} => call[p].call = "leave"
           /\ Current(p) = "reassign-schedules" => call[p].call \in {"leave", "delete"}
           /\ Current(p) \in {"delete-schedules", "delete-category", "schedules-left",
                  "delete-account", "sources-left", "delete-members", "delete-family",
                  "cascade-family"} => call[p].call = "dissolve"
           /\ Current(p) \in {"delete-invitations", "delete-ledger"} => call[p].call \in {"dissolve", "delete"}
           /\ Current(p) \in {"delete-user", "rows-left", "cascade-user"} => call[p].call = "delete"
<1>1. call[p].call \in {"create", "invite", "answer", "leave", "dissolve", "delete", "schedule",
                       "journal"}
  BY Kinds DEF FInv, TypeOK
<1>2. CASE call[p].call = "dissolve"
  BY <1>2, DissolveOrder
<1>3. CASE call[p].call = "delete"
  BY <1>3, DeleteOrder
<1>4. CASE call[p].call = "leave"
  BY <1>4, LeaveOrder
<1>5. CASE call[p].call = "create"
  BY <1>5, CreateOrder
<1>6. CASE call[p].call = "invite"
  BY <1>6, InviteOrder
<1>7. CASE call[p].call = "answer"
  BY <1>7, AnswerOrder
<1>8. CASE call[p].call \in {"schedule", "journal"}
  BY <1>8, AddOrder
<1> QED BY <1>1, <1>2, <1>3, <1>4, <1>5, <1>6, <1>7, <1>8

LEMMA InsertingFamily ==
    ASSUME FInv, NEW p \in Proc, Busy(p), OnTrack(p), Fresh(p), Chose(p), Current(p) \in Inserting
    PROVE  /\ family[p] \in Family /\ Doer(p) \in User
           /\ Current(p) = "add-invitation" => call[p].invited \in User
<1>1. Choosing \cap Left(p) = {}
  BY ChosenBefore DEF Inserting, Choosing
<1>2. call[p].call # "delete"
  BY CallOf DEF Inserting
<1> QED BY <1>1, <1>2, ChosenFamily, Calling, CallOf

\* an INSERT locks rows, and a key; it refers to users, families, categories and accounts
LEMMA InsertRows ==
    ASSUME FInv, NEW p \in Proc, Busy(p), OnTrack(p), Fresh(p), Chose(p), Current(p) \in Inserting,
           NEW l \in LocksIn(Locks(p))
    PROVE  /\ l.row \in Row /\ l = Lock(l.mode, l.row) /\ l.mode \in {"insert", "refer"}
           /\ l.mode = "refer" => l.row \in Table /\ IsParent(l.row)
           /\ l.mode = "insert" /\ l.row \in Table => l.row = MemberRow(Doer(p))
<1>1. /\ family[p] \in Family /\ Doer(p) \in User
      /\ Current(p) = "add-invitation" => call[p].invited \in User
  BY InsertingFamily
<1> DEFINE Good(m) == /\ m.row \in Row /\ m = Lock(m.mode, m.row) /\ m.mode \in {"insert", "refer"}
                      /\ m.mode = "refer" => m.row \in Table /\ IsParent(m.row)
                      /\ m.mode = "insert" /\ m.row \in Table => m.row = MemberRow(Doer(p))
<1>2. ASSUME NEW r \in Table, IsParent(r) PROVE Good(Lock("refer", r))
  BY <1>2, TableRows DEF Lock
<1>3. Good(Lock("insert", MemberRow(Doer(p))))
  BY <1>1, UserRows, TableRows DEF Lock
<1>4. ASSUME NEW f \in Family, NEW u \in User PROVE Good(Lock("insert", PendingKey(f, u)))
  <2>1. PendingKey(f, u) \in Row
    BY DEF Row
  <2>2. PendingKey(f, u)[1] = "pending"
    BY DEF PendingKey
  <2>3. PendingKey(f, u) \notin Table
    BY <2>2, RowKinds
  <2> QED BY <2>1, <2>3 DEF Lock
<1>5. /\ Good(Lock("refer", UserRow(Doer(p))))
      /\ Good(Lock("refer", FamilyRow(family[p]))) /\ Good(Lock("refer", CategoryRow(family[p])))
      /\ Good(Lock("refer", AccountRow(family[p])))
  BY <1>1, <1>2, UserRows, FamilyRows DEF IsParent
<1>6. Current(p) = "add-invitation" =>
         /\ Good(Lock("refer", UserRow(call[p].invited)))
         /\ Good(Lock("insert", PendingKey(family[p], call[p].invited)))
  BY <1>1, <1>2, <1>4, UserRows DEF IsParent
<1> HIDE DEF Good
<1>7. Good(l)
  BY <1>3, <1>5, <1>6, InsertLocks DEF Inserting
<1> QED BY <1>7 DEF Good

\* who changes the author of a schedule, or is to, deletes no family
LEMMA CreatorIsUser ==
    ASSUME FInv, WInv, NEW q \in Proc, Busy(q), call[q].call \in {"leave", "delete", "answer"},
           NEW r \in Table, r[1] = "schedule", IsThere(q, r)
    PROVE  /\ committed[r] # Absent /\ committed[r] \in Entry /\ Visible(q, r) \in Entry
           /\ Visible(q, r).family = committed[r].family /\ committed[r].family \in Family
           /\ Creator(q, Visible(q, r).family) = committed[FamilyRow(committed[r].family)]
           /\ committed[FamilyRow(committed[r].family)] \in User
<1> DEFINE old == committed[r]
<1>1. Runs(q)
  BY Running
<1>2. \A x \in Table : written[q][x] # Same => Choosing \cap Left(q) = {} /\ Writes(q, x, written[q][x])
  BY <1>1 DEF Runs, Wrote
<1>4. ASSUME NEW f \in Family PROVE Visible(q, FamilyRow(f)) = committed[FamilyRow(f)]
  <2>1. FamilyRow(f) \in Table /\ FamilyRow(f)[1] = "family"
    BY FamilyRows
  <2>2. SUFFICES ASSUME written[q][FamilyRow(f)] # Same PROVE FALSE
    BY DEF Visible
  <2>3. Writes(q, FamilyRow(f), written[q][FamilyRow(f)])
    BY <2>1, <2>2, <1>2
  <2>4. Doer(q) \in User /\ (call[q].call = "answer" => call[q].invitation \in Invitation)
    BY Calling
  <2>5. /\ FamilyRow(f) # MemberRow(Doer(q)) /\ FamilyRow(f) # UserRow(Doer(q))
        /\ call[q].call = "answer" => FamilyRow(f) # InvitationRow(call[q].invitation)
    BY <2>1, <2>4, UserRows, InvitationRows
  <2> QED BY <2>1, <2>3, <2>5 DEF Writes
<1>3. CASE written[q][r] = Same
  <2>1. Visible(q, r) = old /\ old # Absent
    BY <1>3 DEF Visible, IsThere
  <2> QED BY <2>1, <1>4, EntryReferences DEF Creator
<1>5. CASE written[q][r] # Same
  <2>1. Writes(q, r, written[q][r]) /\ written[q][r] # Absent /\ Visible(q, r) = written[q][r]
    BY <1>2, <1>5 DEF Visible, IsThere
  <2>2. r # MemberRow(Doer(q)) /\ (call[q].call = "answer" => r # InvitationRow(call[q].invitation))
    BY Calling, UserRows, InvitationRows
  <2>3. old # Absent /\ Visible(q, r) = [old EXCEPT !.by = committed[FamilyRow(old.family)]]
    BY <2>1, <2>2 DEF Writes
  <2>4. old \in Entry /\ committed[FamilyRow(old.family)] \in User /\ old.family \in Family
    BY <2>3, EntryReferences
  <2>5. Visible(q, r) \in Entry /\ Visible(q, r).family = old.family
    BY <2>3, <2>4 DEF Entry
  <2> QED BY <2>3, <2>4, <2>5, <1>4 DEF Creator
<1> QED BY <1>3, <1>5

LEMMA UpdatingCall ==
    ASSUME FInv, NEW q \in Proc, Busy(q), OnTrack(q), Fresh(q), Chose(q), Queued(q), NEW r,
           Lock("update", r) \in Ahead(q)
    PROVE  Mode(q) = "update" /\ call[q].call \in {"leave", "delete", "answer"} /\ queue[q] # <<>>
<1>1. queue[q] # <<>>
  BY DEF Ahead
<1>2. Lock("update", r) # Done /\ Lock("update", r).mode = "update"
  BY DEF Lock, Done
<1>3. Current(q) \notin Inserting
  <2>1. SUFFICES ASSUME Current(q) \in Inserting PROVE FALSE
    OBVIOUS
  <2>2. Lock("update", r) \in LocksIn(Locks(q))
    BY <1>1, <1>2, <2>1 DEF Queued
  <2> QED BY <1>2, <2>1, <2>2, InsertRows
<1>4. Mode(q) = "update"
  BY <1>1, <1>2, <1>3 DEF Queued
<1>5. Current(q) \in {"answer", "reassign-schedules"}
  BY <1>4 DEF Mode
<1> QED BY <1>1, <1>4, <1>5, CallOf

\* a row whose id has been drawn is not what another connection is about to add
LEMMA NotNew ==
    ASSUME NEW o \in Proc, Drew(o), Busy(o)', NEW x, x[1] \in Serial, x[2] \in drawn,
           Busy(o) => NewRow(o) # x
    PROVE  NewRow(o)' # x
<1>1. NewRow(o)' = <<NewKind(call'[o]), new'[o]>>
  BY DEF NewRow, NewKind
<1>2. "none" \notin Serial
  BY DEF Serial
<1>3. CASE Busy(o) /\ NewRow(o)' = NewRow(o)
  BY <1>3
<1>4. CASE NewKind(call'[o]) = "none"
  BY <1>1, <1>2, <1>4
<1>5. CASE new'[o] \notin drawn
  BY <1>1, <1>5
<1> QED BY <1>3, <1>4, <1>5 DEF Drew

\* what changes for a connection when another one takes a step that commits nothing
LEMMA Elsewhere ==
    ASSUME FInv, WInv, NEW q \in Proc, Busy(q), Kept(q), committed' = committed,
           drawn \subseteq drawn', \A o \in Proc \ {q} : Busy(o)' => Drew(o)
    PROVE  Runs(q)'
<1>1. Runs(q)
  BY Running
<1>2. /\ Current(q)' = Current(q) /\ Left(q)' = Left(q) /\ Ahead(q)' = Ahead(q)
      /\ Doer(q)' = Doer(q) /\ NewRow(q)' = NewRow(q)
      /\ Mode(q)' = Mode(q) /\ Clearing(q)' = Clearing(q)
  BY KeptState
<1>3. /\ call'[q] = call[q] /\ program'[q] = program[q] /\ family'[q] = family[q]
      /\ new'[q] = new[q] /\ queue'[q] = queue[q] /\ written'[q] = written[q]
  BY DEF Kept
<1>4. \A r \in Row : (holder[r] = q => holder'[r] = q) /\ (q \in sharers'[r] <=> q \in sharers[r])
  BY DEF Kept
<1>5. \A r : Visible(q, r)' = Visible(q, r) /\ (IsThere(q, r)' <=> IsThere(q, r))
  BY <1>3 DEF Visible, IsThere
<1>6. \A r \in Row : Refers(q, r)' <=> Refers(q, r)
  BY KeptRefers
<1>7. ASSUME NEW x, x[1] \in Serial, x[2] \in drawn, \A o \in Proc \ {q} : Busy(o) => NewRow(o) # x
      PROVE  \A o \in Proc \ {q} : Busy(o)' => NewRow(o)' # x
  BY <1>7, NotNew
<1>10. OnTrack(q)'
  BY <1>1, <1>3 DEF Runs, OnTrack, Full, Program, RespondFamilyInvitation
<1>11. Fresh(q)'
  <2>1. NewKind(call'[q]) = NewKind(call[q]) /\ NewIds(call'[q]) = NewIds(call[q])
    BY <1>3
  <2>2. CASE NewKind(call[q]) # "none"
    <3>1. Fresh(q)
      BY <1>1 DEF Runs
    <3>2. NewRow(q)[1] \in Serial /\ NewRow(q)[2] \in drawn
      BY <2>2, <3>1, NewRows DEF Fresh
    <3>3. \A o \in Proc \ {q} : Busy(o)' => NewRow(o)' # NewRow(q)
      BY <2>2, <3>1, <3>2, <1>7 DEF Fresh
    <3> QED BY <2>1, <2>2, <3>1, <3>3, <1>2, <1>3 DEF Fresh
  <2> QED BY <2>1, <2>2 DEF Fresh
<1>12. Chose(q)'
  <2>1. CASE call[q].call \in {"invite", "dissolve", "leave", "answer"} /\ Choosing \cap Left(q) = {}
    <3>1. /\ family[q] \in Family /\ family[q] \in drawn
          /\ \A o \in Proc : Busy(o) => NewRow(o) # FamilyRow(family[q])
          /\ committed[FamilyRow(family[q])] # Absent =>
              (committed[FamilyRow(family[q])] = Doer(q)
                   <=> call[q].call \in {"invite", "dissolve"})
      BY <1>1, <2>1 DEF Runs, Chose
    <3>2. FamilyRow(family[q])[1] \in Serial /\ FamilyRow(family[q])[2] \in drawn
      BY <3>1, FamilyRows DEF Serial
    <3>3. \A o \in Proc : Busy(o)' => NewRow(o)' # FamilyRow(family[q])
      <4>1. \A o \in Proc \ {q} : Busy(o)' => NewRow(o)' # FamilyRow(family[q])
        BY <3>1, <3>2, <1>7
      <4> QED BY <4>1, <3>1, <1>2
    <3> QED BY <3>1, <3>3, <1>2, <1>3 DEF Chose
  <2> QED BY <2>1, <1>2, <1>3 DEF Chose
<1>13. Wrote(q)'
  <2>1. ASSUME NEW r \in Table, written[q][r] # Same
        PROVE  /\ Choosing \cap Left(q) = {} /\ Writes(q, r, written[q][r])'
               /\ r = NewRow(q) \/ holder'[r] = q
    <3>1. /\ Choosing \cap Left(q) = {} /\ Writes(q, r, written[q][r])
          /\ r = NewRow(q) \/ holder[r] = q
      BY <1>1, <2>1 DEF Runs, Wrote
    <3>2. Writes(q, r, written[q][r])'
      BY <3>1, <1>2, <1>3 DEF Writes
    <3> QED BY <3>1, <3>2, <1>4, TableRows
  <2> QED BY <2>1, <1>2, <1>3 DEF Wrote
<1>14. Shares(q)'
  BY <1>1, <1>4, <1>5 DEF Runs, Shares
<1>15. DeletesNoParent(q)'
  <2>1. DeletesNoParent(q)
    BY <1>1 DEF Runs
  <2> QED BY <2>1, <1>2, <1>3, <1>6 DEF DeletesNoParent
<1>16. Covered(q)'
  <2>1. ASSUME NEW r \in Table, written[q][r] \notin {Same, Absent},
               NEW parent \in Parents(r, written[q][r])
        PROVE  \/ committed[r] # Absent /\ parent \in Parents(r, committed[r])
               \/ Refers(q, parent)'
    <3>1. \/ committed[r] # Absent /\ parent \in Parents(r, committed[r])
          \/ Refers(q, parent)
      BY <1>1, <2>1 DEF Runs, Covered
    <3>2. written[q][r] \in Values(r)
      <4>1. Choosing \cap Left(q) = {} /\ Writes(q, r, written[q][r])
        BY <1>1, <2>1 DEF Runs, Wrote
      <4> QED BY <4>1, <1>1, <2>1, WrittenValues DEF Runs
    <3>3. parent \in Row
      BY <2>1, <3>2, ParentRows, TableRows
    <3> QED BY <3>1, <3>3, <1>6
  <2>2. \A r \in Table : Parents(r, written[q][r])' = Parents(r, written[q][r])
                          /\ Parents(r, committed[r])' = Parents(r, committed[r])
    BY <1>3 DEF Parents, UserRow, FamilyRow, CategoryRow, AccountRow
  <2> QED BY <2>1, <2>2, <1>3 DEF Covered
<1>17. Inserted(q)'
  BY <1>1, <1>2, <1>3 DEF Runs, Inserted
<1>18. Queued(q)'
  <2>1. CASE queue[q] # <<>> /\ Current(q) \in Inserting
    <3>1. LocksIn(Locks(q))' = LocksIn(Locks(q))
      BY <2>1, KeptLocks
    <3> QED BY <2>1, <3>1, <1>1, <1>2, <1>3 DEF Runs, Queued
  <2>2. CASE queue[q] # <<>> /\ Current(q) \notin Inserting
    BY <2>2, <1>1, <1>2, <1>3 DEF Runs, Queued
  <2> QED BY <2>1, <2>2, <1>3 DEF Queued
<1>19. Acquired(q)'
  <2>1. CASE queue[q] # <<>> /\ Current(q) \in Inserting
    <3>1. LocksIn(Locks(q))' = LocksIn(Locks(q))
      BY <2>1, KeptLocks
    <3>2. ASSUME NEW l \in LocksIn(Locks(q))
          PROVE  \/ l \in Ahead(q)
                 \/ l.mode = "refer" /\ q \in sharers'[l.row]
                 \/ l.mode = "insert" /\ (l.row \in Table => holder'[l.row] = q /\ committed[l.row] = Absent)
      <4>1. \/ l \in Ahead(q)
            \/ l.mode = "refer" /\ q \in sharers[l.row]
            \/ l.mode = "insert" /\ (l.row \in Table => holder[l.row] = q /\ committed[l.row] = Absent)
        BY <1>1, <2>1, <3>2 DEF Runs, Acquired
      <4>2. l.mode = "refer" => l.row \in Row
        BY <2>1, <3>2, <1>1, InsertRows DEF Runs
      <4> QED BY <4>1, <4>2, <1>4, TableRows
    <3> QED BY <2>1, <3>1, <3>2, <1>2, <1>3 DEF Acquired
  <2> QED BY <2>1, <1>2, <1>3 DEF Acquired
<1>20. Reassigns(q)'
  <2>1. ASSUME NEW r \in Table, r[1] = "schedule", Lock("update", r) \in Ahead(q)
        PROVE  /\ r[2] \in drawn'
               /\ \A o \in Proc : Busy(o)' => r # NewRow(o)'
               /\ IsThere(q, r) => Refers(q, UserRow(Creator(q, Visible(q, r).family)))'
    <3>1. /\ r[2] \in drawn
          /\ \A o \in Proc : Busy(o) => r # NewRow(o)
          /\ IsThere(q, r) => Refers(q, UserRow(Creator(q, Visible(q, r).family)))
      BY <1>1, <2>1 DEF Runs, Reassigns
    <3>2. \A o \in Proc \ {q} : Busy(o)' => NewRow(o)' # r
      BY <3>1, <2>1, <1>7 DEF Serial
    <3>3. Creator(q, Visible(q, r).family)' = Creator(q, Visible(q, r).family)
      BY <1>5 DEF Creator
    <3>4. IsThere(q, r) => UserRow(Creator(q, Visible(q, r).family)) \in Row
      BY <2>1, <1>1, UpdatingCall, CreatorIsUser, UserRows, TableRows DEF Runs
    <3> QED BY <3>1, <3>2, <3>3, <3>4, <1>2, <1>6
  <2> QED BY <2>1, <1>2, <1>5 DEF Reassigns, Lock
<1>21. Cleared(q)'
  <2>1. \A s, r : Target(q, s, r)' <=> Target(q, s, r)
    BY <1>2, <1>3, <1>5 DEF Target, Swept
  <2>2. \A s : Clear(q, s)' <=> Clear(q, s)
    BY <2>1 DEF Clear
  <2> QED BY <2>1, <2>2, <1>1, <1>2, <1>3 DEF Runs, Cleared, Lock
<1> QED BY <1>10, <1>11, <1>12, <1>13, <1>14, <1>15, <1>16, <1>17, <1>18, <1>19, <1>20, <1>21 DEF Runs

\* a step of p that commits nothing keeps the invariant if p does
LEMMA StepTogether ==
    ASSUME FInv, WInv, NEW p \in Proc, committed' = committed, drawn \subseteq drawn', Domains',
           \A q \in Proc \ {p} : Kept(q), Busy(p)' => Drew(p) /\ Runs(p)'
    PROVE  WInv'
<1>1. \A o \in Proc : Busy(o)' => Drew(o)
  <2>1. ASSUME NEW o \in Proc \ {p}, Busy(o)' PROVE Drew(o)
    BY <2>1, KeptState DEF Drew
  <2> QED BY <2>1
<1>2. ASSUME NEW q \in Proc \ {p}, Busy(q)' PROVE Runs(q)'
  <2>1. Busy(q) /\ Kept(q)
    BY <1>2, KeptState
  <2> QED BY <2>1, <1>1, Elsewhere
<1>3. TypedRows' /\ DrawnIds' /\ FamilyIsWhole'
  <2>1. TypedRows' /\ DrawnIds'
    BY DEF WInv, TypedRows, DrawnIds
  <2>2. References(committed)' /\ OwnedByCreators(committed)'
    BY DEF WInv, FamilyIsWhole, References, OwnedByCreators
  <2> QED BY <2>1, <2>2 DEF FamilyIsWhole
<1> QED BY <1>2, <1>3 DEF WInv

LEMMA EndKeeps ==
    ASSUME FInv, WInv, NEW p \in Proc, EndTransaction(p)
    PROVE  Domains' /\ ~Busy(p)' /\ \A q \in Proc \ {p} : Kept(q)
<1> USE DEF EndTransaction
<1>1. Domains'
  BY DEF WInv, Domains
<1>2. ~Busy(p)'
  BY DEF FInv, Shapes, Busy
<1>3. ASSUME NEW q \in Proc \ {p} PROVE Kept(q)
  <2>1. /\ call'[q] = call[q] /\ program'[q] = program[q] /\ queue'[q] = queue[q]
        /\ written'[q] = written[q]
    BY <1>3 DEF FInv, Shapes
  <2>2. family'[q] = family[q] /\ new'[q] = new[q]
    BY <1>3 DEF WInv, Domains
  <2>3. \A r \in Row : /\ holder[r] = q => holder'[r] = q
                       /\ q \in sharers'[r] <=> q \in sharers[r]
    BY <1>3
  <2> QED BY <2>1, <2>2, <2>3 DEF Kept
<1> QED BY <1>1, <1>2, <1>3

LEMMA RollbackKeepsWInv ==
    ASSUME FInv, WInv, NEW p \in Proc, Rollback(p) PROVE WInv'
<1>1. EndTransaction(p) /\ committed' = committed /\ drawn' = drawn
  BY DEF Rollback
<1> QED BY <1>1, EndKeeps, StepTogether

LEMMA InitWInv == Init => WInv
<1> SUFFICES ASSUME Init PROVE WInv
  OBVIOUS
<1>1. Domains
  BY DEF Init, Domains
<1>2. TypedRows /\ References(committed) /\ OwnedByCreators(committed)
  BY StartsAssumption DEF Init, TypedRows
<1>3. DrawnIds
  <2>1. ASSUME NEW r \in Table, r[1] \in Serial PROVE r[2] \in Id
    BY <2>1, RowKinds DEF Serial, Id
  <2> QED BY <2>1 DEF Init, DrawnIds
<1>4. \A p \in Proc : ~Busy(p)
  BY DEF Init, Busy
<1> QED BY <1>1, <1>2, <1>3, <1>4 DEF WInv, FamilyIsWhole

(***************************************************************************)
(* A call begins.                                                           *)
(***************************************************************************)
LEMMA BeginKeepsWInv ==
    ASSUME FInv, WInv, NEW p \in Proc, NEW c \in Calls, Begin(p, c) PROVE WInv'
<1>1. /\ ~Busy(p)
      /\ program' = [program EXCEPT ![p] = Full(c)] /\ call' = [call EXCEPT ![p] = c]
      /\ UNCHANGED <<committed, holder, sharers, queue, written>>
      /\ family' = [family EXCEPT ![p] = IF c.call \in {"schedule", "journal"} THEN c.family
                                         ELSE IF c.call = "create" THEN new'[p] ELSE Absent]
      /\ \/ c.call \in {"answer", "leave", "dissolve", "delete"} /\ UNCHANGED <<new, drawn>>
         \/ \E id \in NewIds(c) \ drawn : new' = [new EXCEPT ![p] = id] /\ drawn' = drawn \cup {id}
  BY DEF Begin, Full
<1>2. Domains'
  BY <1>1 DEF WInv, Domains
<1>3. ASSUME NEW q \in Proc \ {p} PROVE Kept(q)
  <2>1. /\ call'[q] = call[q] /\ program'[q] = program[q] /\ queue'[q] = queue[q]
        /\ written'[q] = written[q]
    BY <1>1, <1>3 DEF FInv, Shapes
  <2>2. family'[q] = family[q] /\ new'[q] = new[q]
    BY <1>1, <1>3 DEF WInv, Domains
  <2> QED BY <1>1, <2>1, <2>2 DEF Kept
<1>4. /\ program'[p] = Full(c) /\ call'[p] = c /\ queue'[p] = <<>> /\ written'[p] = NoWrites
      /\ family'[p] = (IF c.call \in {"schedule", "journal"} THEN c.family
                       ELSE IF c.call = "create" THEN new'[p] ELSE Absent)
      /\ \A r \in Row : p \notin sharers'[r]
  BY <1>1 DEF FInv, Shapes, TypeOK, WInv, Domains
<1>5. drawn \subseteq drawn' /\ (NewKind(c) # "none" =>
         new'[p] \in NewIds(c) /\ new'[p] \notin drawn /\ new'[p] \in drawn')
  <2>1. CASE c.call \in {"answer", "leave", "dissolve", "delete"} /\ UNCHANGED <<new, drawn>>
    BY <2>1 DEF NewKind
  <2>2. CASE \E id \in NewIds(c) \ drawn : new' = [new EXCEPT ![p] = id] /\ drawn' = drawn \cup {id}
    BY <2>2 DEF WInv, Domains
  <2> QED BY <1>1, <2>1, <2>2
<1>6. Drew(p)
  BY <1>4, <1>5 DEF Drew
<1>7. c.call \in {"create", "invite", "answer", "leave", "dissolve", "delete", "schedule", "journal"}
  BY Kinds
<1>8. Fresh(p)'
  <2>1. CASE NewKind(c) = "none"
    BY <2>1, <1>4 DEF Fresh
  <2>2. CASE NewKind(c) # "none"
    <3>1. c.call \in {"create", "invite", "schedule", "journal"}
      BY <2>2, <1>7 DEF NewKind
    <3>2. NewRow(p)' = <<NewKind(c), new'[p]>> /\ NewKind(c) \in Serial /\ NewRow(p)' \in Table
      <4>1. NewRow(p)' = <<NewKind(c), new'[p]>>
        BY <1>4 DEF NewRow
      <4>2. CASE c.call = "create"
        <5>1. NewKind(c) = "family" /\ new'[p] \in Family
          BY <4>2, <1>5, <2>2 DEF NewKind, NewIds
        <5> QED BY <4>1, <5>1, FamilyRows DEF FamilyRow, Serial
      <4>3. CASE c.call = "invite"
        <5>1. NewKind(c) = "invitation" /\ new'[p] \in Invitation
          BY <4>3, <1>5, <2>2 DEF NewKind, NewIds
        <5> QED BY <4>1, <5>1, InvitationRows DEF InvitationRow, Serial
      <4>4. CASE c.call = "schedule"
        <5>1. NewKind(c) = "schedule" /\ new'[p] \in Schedule
          BY <4>4, <1>5, <2>2 DEF NewKind, NewIds
        <5> QED BY <4>1, <5>1, ScheduleRows DEF ScheduleRow, Serial
      <4>5. CASE c.call = "journal"
        <5>1. NewKind(c) = "source" /\ new'[p] \in Source
          BY <4>5, <1>5, <2>2 DEF NewKind, NewIds
        <5> QED BY <4>1, <5>1, SourceRows DEF SourceRow, Serial
      <4> QED BY <3>1, <4>2, <4>3, <4>4, <4>5
    <3>3. committed[NewRow(p)'] = Absent
      <4>1. NewRow(p)'[1] \in Serial /\ NewRow(p)'[2] \notin drawn
        BY <3>2, <1>5, <2>2
      <4> QED BY <3>2, <4>1 DEF WInv, DrawnIds
    <3>4. ASSUME NEW q \in Proc \ {p}, Busy(q)' PROVE NewRow(q)' # NewRow(p)'
      <4>1. Busy(q) /\ NewRow(q)' = NewRow(q)
        BY <3>4, <1>3, KeptState
      <4>2. NewRow(q)[1] = NewKind(call[q]) /\ NewRow(q)[2] = new[q]
        BY DEF NewRow
      <4>3. NewKind(call[q]) # "none" => new[q] \in drawn
        BY <4>1, Running DEF Runs, Fresh
      <4>4. NewKind(call[q]) = "none" => NewRow(q) # NewRow(p)'
        BY <4>2, <3>2 DEF Serial
      <4>5. new[q] \in drawn => NewRow(q) # NewRow(p)'
        BY <4>2, <3>2, <1>5, <2>2
      <4> QED BY <4>1, <4>3, <4>4, <4>5
    <3>5. /\ c.call = "create" => family'[p] = new'[p]
          /\ c.call \in {"schedule", "journal"} => family'[p] = c.family
      BY <1>4
    <3>6. committed' = committed
      BY <1>1
    <3> QED BY <2>2, <1>4, <1>5, <3>3, <3>4, <3>5, <3>6 DEF Fresh
  <2> QED BY <2>1, <2>2
<1>9. OnTrack(p)' /\ Left(p)' = {Full(c)[k] : k \in 1..Len(Full(c))}
  <2>1. Len(Full(c)) \in Nat
    BY FullIsSeq
  <2>2. \A k \in 1..Len(Full(c)) : Len(Full(c)) - Len(Full(c)) + k = k
    BY <2>1
  <2>3. OnTrack(p)'
    <3>1. Len(Full(c)) <= Len(Full(c))
      BY <2>1
    <3>2. Full(call[p])' = Full(c)
      BY <1>4 DEF Full, Program, RespondFamilyInvitation
    <3> QED BY <2>2, <3>1, <3>2, <1>4 DEF OnTrack
  <2> QED BY <2>3, <1>4 DEF Left
<1>10. \A r \in Table : written'[p][r] = Same
  BY <1>4 DEF NoWrites
<1>11. Ahead(p)' = {} /\ queue'[p] = <<>>
  <2>1. 1..Len(<<>>) = {}
    OBVIOUS
  <2> QED BY <1>4, <2>1 DEF Ahead
<1>12. Wrote(p)' /\ Covered(p)'
  BY <1>10 DEF Wrote, Covered
<1>13. Shares(p)' /\ DeletesNoParent(p)' /\ Queued(p)' /\ Acquired(p)' /\ Reassigns(p)'
  BY <1>4, <1>11 DEF Shares, DeletesNoParent, Refers, Queued, Acquired, Reassigns
<1>14. /\ c.call \in {"invite", "dissolve", "leave", "answer"} => Choosing \cap Left(p)' # {}
       /\ c.call = "create" => "add-family" \in Left(p)' /\ "add-owner" \in Left(p)'
       /\ c.call = "dissolve" => {"delete-category", "schedules-left", "delete-account",
                                  "sources-left", "delete-family", "cascade-family"} \subseteq Left(p)'
       /\ c.call = "delete" => {"delete-user", "rows-left", "cascade-user"} \subseteq Left(p)'
  <2> DEFINE F == Full(c)
  <2>0. \A k \in 1..Len(F) : F[k] \in Left(p)'
    BY <1>9
  <2>1. CASE c.call = "dissolve"
    <3>1. /\ Len(F) = 12 /\ F[1] = "owns-a-family" /\ F[4] = "delete-category" /\ F[5] = "schedules-left"
          /\ F[6] = "delete-account" /\ F[7] = "sources-left"
          /\ F[10] = "delete-family" /\ F[11] = "cascade-family"
      BY <2>1, FullDissolve
    <3> HIDE DEF F
    <3> QED BY <2>0, <2>1, <3>1 DEF Choosing
  <2>2. CASE c.call = "delete"
    <3>1. /\ Len(F) = 9 /\ F[5] = "delete-ledger" /\ F[6] = "delete-user" /\ F[7] = "rows-left" /\ F[8] = "cascade-user"
      BY <2>2, FullDelete
    <3> HIDE DEF F
    <3> QED BY <2>0, <2>2, <3>1
  <2>3. CASE c.call = "create"
    <3>1. /\ Len(F) = 5 /\ F[3] = "add-family" /\ F[4] = "add-owner"
      BY <2>3, FullCreate
    <3> HIDE DEF F
    <3> QED BY <2>0, <2>3, <3>1
  <2>4. CASE c.call = "invite"
    <3>1. Len(F) = 5 /\ F[1] = "owns-a-family"
      BY <2>4, FullInvite
    <3> HIDE DEF F
    <3> QED BY <2>0, <2>4, <3>1 DEF Choosing
  <2>5. CASE c.call = "leave"
    <3>1. Len(F) = 4 /\ F[1] = "member-of-a-family"
      BY <2>5, FullLeave
    <3> HIDE DEF F
    <3> QED BY <2>0, <2>5, <3>1 DEF Choosing
  <2>6. CASE c.call = "answer"
    <3>1. Len(F) # 0 /\ Len(F) \in Nat /\ F[1] = "pending-invitation"
      BY <2>6, FullAccept, FullDecline
    <3> HIDE DEF F
    <3> QED BY <2>0, <2>6, <3>1 DEF Choosing
  <2>7. CASE c.call \in {"schedule", "journal"}
    BY <2>7
  <2> QED BY <1>7, <2>1, <2>2, <2>3, <2>4, <2>5, <2>6, <2>7
<1>15. Chose(p)'
  BY <1>4, <1>14 DEF Chose
<1>16. Inserted(p)'
  BY <1>4, <1>14 DEF Inserted
<1>17. Cleared(p)'
  <2>1. Clearing(p)' = (IF c.call = "dissolve"
                        THEN {"delete-category", "schedules-left", "delete-account",
                              "sources-left", "delete-family", "cascade-family"}
                        ELSE IF c.call = "delete" THEN {"delete-user", "rows-left", "cascade-user"}
                        ELSE {})
    BY <1>4 DEF Clearing
  <2>2. Clearing(p)' \subseteq Left(p)'
    BY <2>1, <1>14
  <2> QED BY <2>2, <1>11 DEF Cleared
<1>18. Runs(p)'
  BY <1>8, <1>9, <1>12, <1>13, <1>15, <1>16, <1>17 DEF Runs
<1> QED BY <1>1, <1>2, <1>3, <1>5, <1>6, <1>18, StepTogether

(***************************************************************************)
(* A statement is behind p.                                                 *)
(***************************************************************************)
LEMMA Advanced ==
    ASSUME FInv, NEW p \in Proc, Busy(p), OnTrack(p), Current(p) # "commit",
           program'[p] = Tail(program[p]), call'[p] = call[p]
    PROVE  /\ OnTrack(p)' /\ Left(p)' \subseteq Left(p) /\ Current(p) \in Left(p)
           /\ \A s \in Left(p) : s # Current(p) => s \in Left(p)'
<1> DEFINE s == program[p]  t == Tail(s)  all == Full(call[p])
<1>1. s \in Seq(Statement) /\ s # <<>> /\ call[p] \in Calls
  BY DEF FInv, TypeOK, Connected, EndsWithCommit, Busy
<1>2. Len(all) \in Nat
  BY <1>1, FullIsSeq
<1>3. Len(s) \in Nat /\ Len(s) # 0 /\ Head(s) = s[1]
  BY <1>1, EmptySeq
<1>4. Len(t) = Len(s) - 1 /\ \A k \in 1..Len(t) : t[k] = s[k + 1]
  BY <1>1, <1>3
<1>5. Len(s) <= Len(all) /\ \A k \in 1..Len(s) : s[k] = all[Len(all) - Len(s) + k]
  BY DEF OnTrack
<1>6. program'[p] = t /\ Current(p) = Head(s) /\ Left(p) = {s[k] : k \in 1..Len(s)}
      /\ Left(p)' = {t[k] : k \in 1..Len(t)}
  BY DEF Current, Left
<1>7. Full(call[p])' = all
  BY DEF Full, Program, RespondFamilyInvitation
<1> HIDE DEF s, t, all
<1>8. OnTrack(p)'
  <2>1. Len(t) <= Len(all)
    BY <1>2, <1>3, <1>4, <1>5
  <2>2. ASSUME NEW k \in 1..Len(t) PROVE t[k] = all[Len(all) - Len(t) + k]
    <3>1. k + 1 \in 1..Len(s) /\ Len(all) - Len(s) + (k + 1) = Len(all) - Len(t) + k
      BY <2>2, <1>2, <1>3, <1>4
    <3> QED BY <2>2, <3>1, <1>4, <1>5
  <2> QED BY <2>1, <2>2, <1>6, <1>7 DEF OnTrack
<1>9. Left(p)' \subseteq Left(p)
  <2>1. \A k \in 1..Len(t) : k + 1 \in 1..Len(s)
    BY <1>3, <1>4
  <2> QED BY <2>1, <1>4, <1>6
<1>10. 1 \in 1..Len(s) /\ Current(p) \in Left(p)
  BY <1>3, <1>6
<1>11. ASSUME NEW x \in Left(p), x # Current(p) PROVE x \in Left(p)'
  <2>1. PICK k \in 1..Len(s) : x = s[k]
    BY <1>11, <1>6
  <2>2. k # 1
    BY <2>1, <1>11, <1>3, <1>6
  <2>3. k - 1 \in 1..Len(t) /\ (k - 1) + 1 = k
    BY <2>1, <2>2, <1>3, <1>4
  <2> QED BY <2>1, <2>3, <1>4, <1>6
<1> QED BY <1>8, <1>9, <1>10, <1>11

LEMMA StillToClear ==
    ASSUME FInv, NEW p \in Proc, Busy(p), OnTrack(p), Current(p) \in Choosing
    PROVE  /\ Clearing(p) \subseteq Left(p)
           /\ call[p].call \in {"invite", "dissolve", "leave", "answer"}
<1>1. call[p].call \in {"invite", "dissolve", "leave", "answer"}
  BY CallOf DEF Choosing
<1>2. CASE call[p].call = "dissolve"
  <2> DEFINE F == Full(call[p])
  <2>1. PICK i \in 1..Len(F) : Current(p) = F[i] /\ Left(p) = {F[j] : j \in i..Len(F)}
    BY Position
  <2>2. /\ Len(F) = 12
        /\ F[1] = "owns-a-family" /\ F[2] = "delete-ledger" /\ F[3] = "delete-schedules"
        /\ F[4] = "delete-category" /\ F[5] = "schedules-left"
        /\ F[6] = "delete-account" /\ F[7] = "sources-left"
        /\ F[8] = "delete-invitations" /\ F[9] = "delete-members"
        /\ F[10] = "delete-family" /\ F[11] = "cascade-family" /\ F[12] = "commit"
    BY <1>2, FullDissolve DEF FInv, TypeOK
  <2> HIDE DEF F
  <2>3. i = 1 \/ i = 2 \/ i = 3 \/ i = 4 \/ i = 5 \/ i = 6 \/ i = 7 \/ i = 8 \/ i = 9 \/ i = 10 \/ i = 11 \/ i = 12
    BY <2>1, <2>2
  <2>4. i = 1
    BY <2>1, <2>2, <2>3 DEF Choosing
  <2>5. \A j \in 1..12 : F[j] \in Left(p)
    BY <2>1, <2>2, <2>4
  <2>6. {"delete-category", "schedules-left", "delete-account", "sources-left",
         "delete-family", "cascade-family"} \subseteq Left(p)
    BY <2>2, <2>5
  <2> QED BY <1>1, <1>2, <2>6 DEF Clearing
<1>3. CASE call[p].call # "dissolve"
  BY <1>1, <1>3 DEF Clearing
<1> QED BY <1>1, <1>2, <1>3

(***************************************************************************)
(* A read that goes on.                                                     *)
(***************************************************************************)
\* nobody is creating a family that is there
LEMMA NobodyCreates ==
    ASSUME FInv, WInv, NEW f \in Family, committed[FamilyRow(f)] # Absent
    PROVE  f \in drawn /\ \A q \in Proc : Busy(q) => NewRow(q) # FamilyRow(f)
<1>1. FamilyRow(f) \in Table /\ FamilyRow(f)[1] = "family" /\ FamilyRow(f)[2] = f
  BY FamilyRows
<1>2. f \in drawn
  BY <1>1 DEF WInv, DrawnIds, Serial
<1>3. ASSUME NEW q \in Proc, Busy(q) PROVE NewRow(q) # FamilyRow(f)
  <2>1. Fresh(q)
    BY <1>3, Running DEF Runs
  <2>2. NewRow(q)[1] = NewKind(call[q])
    BY DEF NewRow
  <2>3. NewKind(call[q]) # "none" => committed[NewRow(q)] = Absent
    BY <2>1 DEF Fresh
  <2> QED BY <1>1, <2>2, <2>3
<1> QED BY <1>2, <1>3

\* what a call may choose: the owner's family, or another's
LEMMA ReadChooses ==
    ASSUME FInv, WInv, NEW p \in Proc, Busy(p), OnTrack(p), Current(p) \in Choosing, Passes(p),
           \A r \in Table : written[p][r] = Same
    PROVE  /\ Selected(p) \in Family /\ committed[FamilyRow(Selected(p))] # Absent
           /\ committed[FamilyRow(Selected(p))] = Doer(p)
                <=> call[p].call \in {"invite", "dissolve"}
<1> DEFINE u == Doer(p)
<1>1. u \in User /\ \A r \in Table : Visible(p, r) = committed[r]
  BY Calling DEF Visible
<1>2. ASSUME committed[MemberRow(u)] # Absent
      PROVE  LET row == committed[MemberRow(u)]
             IN  /\ row \in Membership /\ row.family \in Family
                 /\ committed[FamilyRow(row.family)] # Absent
                 /\ row.role = "owner" <=> committed[FamilyRow(row.family)] = u
  <2> DEFINE row == committed[MemberRow(u)]
  <2>1. MemberRow(u) \in Table /\ MemberRow(u)[1] = "member"
    BY <1>1, UserRows
  <2>2. row \in Membership
    BY <2>1, <1>2, KindValues DEF WInv, TypedRows
  <2>3. row.family \in Family
    BY <2>2 DEF Membership
  <2>4. FamilyRow(row.family) \in Parents(MemberRow(u), row)
    BY <2>1 DEF Parents
  <2>5. committed[FamilyRow(row.family)] # Absent
    BY <2>1, <2>4, <1>2 DEF WInv, FamilyIsWhole, References
  <2>6. row.role = "owner" <=> committed[FamilyRow(row.family)] = u
    BY <1>1, <1>2 DEF WInv, FamilyIsWhole, OwnedByCreators
  <2> QED BY <2>2, <2>3, <2>5, <2>6
<1>3. CASE Current(p) = "owns-a-family"
  <2>1. Visible(p, MemberRow(u)) # Absent /\ Visible(p, MemberRow(u)).role = "owner"
    BY <1>3 DEF Passes, HasRole, IsThere
  <2>2. Visible(p, MemberRow(u)) = committed[MemberRow(u)]
    BY <1>1, UserRows
  <2>3. Selected(p) = committed[MemberRow(u)].family
    BY <2>2, <1>3 DEF Selected
  <2>4. call[p].call \in {"invite", "dissolve"}
    BY <1>3, CallOf
  <2> QED BY <2>1, <2>2, <2>3, <2>4, <1>2
<1>4. CASE Current(p) = "member-of-a-family"
  <2>1. Visible(p, MemberRow(u)) # Absent /\ Visible(p, MemberRow(u)).role = "member"
    BY <1>4 DEF Passes, HasRole, IsThere
  <2>2. Visible(p, MemberRow(u)) = committed[MemberRow(u)]
    BY <1>1, UserRows
  <2>3. Selected(p) = committed[MemberRow(u)].family
    BY <2>2, <1>4 DEF Selected
  <2>4. call[p].call = "leave"
    BY <1>4, CallOf
  <2> QED BY <2>1, <2>2, <2>3, <2>4, <1>2
<1>5. CASE Current(p) = "pending-invitation"
  <2> DEFINE i == call[p].invitation  row == committed[InvitationRow(i)]
  <2>1. call[p].call = "answer" /\ i \in Invitation
    BY <1>5, CallOf, Calling
  <2>2. InvitationRow(i) \in Table /\ InvitationRow(i)[1] = "invitation"
    BY <2>1, InvitationRows
  <2>3. Visible(p, InvitationRow(i)) = row
    BY <2>2, <1>1
  <2>4. row # Absent /\ row.invited = u
    BY <2>3, <1>5 DEF Passes, CanAnswer, IsPending, IsThere
  <2>5. row \in Invite
    BY <2>2, <2>4, KindValues DEF WInv, TypedRows
  <2>6. row.family \in Family /\ Selected(p) = row.family
    BY <2>3, <2>5, <1>5 DEF Invite, Selected
  <2>7. FamilyRow(row.family) \in Parents(InvitationRow(i), row)
    BY <2>2 DEF Parents
  <2>8. committed[FamilyRow(row.family)] # Absent
    BY <2>2, <2>4, <2>7 DEF WInv, FamilyIsWhole, References
  <2>9. committed[FamilyRow(row.family)] = row.by /\ row.invited # row.by
    BY <2>1, <2>4 DEF WInv, FamilyIsWhole, OwnedByCreators
  <2> QED BY <2>1, <2>4, <2>6, <2>8, <2>9
<1> QED BY <1>3, <1>4, <1>5 DEF Choosing

\* the two ways a read goes on: the family is chosen, or it was before
LEMMA ReadKeepsRuns ==
    ASSUME FInv, WInv, NEW p \in Proc, Busy(p), Current(p) \in Reads, Passes(p),
           program'[p] = Tail(program[p]), family'[p] = Selected(p),
           UNCHANGED <<committed, holder, sharers, call, new, queue, written, drawn>>,
           \A q \in Proc \ {p} : Kept(q)
    PROVE  Runs(p)' /\ NewRow(p)' = NewRow(p)
<1>0. Runs(p)
  BY Running
<1>1. /\ OnTrack(p)' /\ Left(p)' \subseteq Left(p) /\ Current(p) \in Left(p)
      /\ \A s \in Left(p) : s # Current(p) => s \in Left(p)'
  BY <1>0, Advanced DEF Runs, Reads
<1>2. queue[p] = <<>> /\ Ahead(p) = {} /\ Ahead(p)' = {}
  <2>1. queue[p] = <<>>
    BY DEF FInv, Connected
  <2>2. 1..Len(<<>>) = {}
    OBVIOUS
  <2> QED BY <2>1, <2>2 DEF Ahead
<1>3. /\ Doer(p)' = Doer(p) /\ NewRow(p)' = NewRow(p) /\ Clearing(p)' = Clearing(p)
      /\ \A r : Visible(p, r)' = Visible(p, r) /\ (IsThere(p, r)' <=> IsThere(p, r))
      /\ \A r : Refers(p, r)' <=> Refers(p, r)
  BY <1>2 DEF Doer, NewRow, NewKind, Clearing, Visible, IsThere, Refers
<1>4. \A q \in Proc : Busy(q)' => Busy(q) /\ NewRow(q)' = NewRow(q)
  <2>1. ASSUME NEW q \in Proc \ {p}, Busy(q)' PROVE Busy(q) /\ NewRow(q)' = NewRow(q)
    BY <2>1, KeptState
  <2> QED BY <2>1, <1>3
<1>5. Clearing(p) \cap Reads = {}
  BY DEF Clearing, Reads
<1>6. Shares(p)' /\ DeletesNoParent(p)' /\ Queued(p)' /\ Acquired(p)' /\ Reassigns(p)'
  <2>1. Shares(p)'
    BY <1>0, <1>3 DEF Runs, Shares
  <2>2. DeletesNoParent(p)'
    BY <1>0, <1>3 DEF Runs, DeletesNoParent
  <2>3. Queued(p)' /\ Acquired(p)'
    BY <1>2 DEF Queued, Acquired
  <2>4. Reassigns(p)'
    BY <1>2 DEF Reassigns
  <2> QED BY <2>1, <2>2, <2>3, <2>4
<1>7. \A r \in Table : Parents(r, written[p][r])' = Parents(r, written[p][r])
                       /\ Parents(r, committed[r])' = Parents(r, committed[r])
  BY DEF Parents, UserRow, FamilyRow, CategoryRow, AccountRow
<1>8. Covered(p)'
  BY <1>0, <1>3, <1>7 DEF Runs, Covered
<1>9. CASE Current(p) \notin Choosing
  <2>1. family'[p] = family[p]
    BY <1>9 DEF Selected, Choosing
  <2>2. Choosing \cap Left(p)' = {} <=> Choosing \cap Left(p) = {}
    BY <1>1, <1>9
  <2>3. Fresh(p)'
    <3>1. Fresh(p)
      BY <1>0 DEF Runs
    <3> QED BY <3>1, <2>1, <1>3, <1>4 DEF Fresh
  <2>4. Chose(p)'
    <3>1. Chose(p)
      BY <1>0 DEF Runs
    <3> QED BY <3>1, <2>1, <2>2, <1>3, <1>4 DEF Chose
  <2>5. Wrote(p)'
    <3>1. ASSUME NEW r \in Table, written[p][r] # Same
          PROVE  /\ Choosing \cap Left(p)' = {} /\ Writes(p, r, written[p][r])'
                 /\ r = NewRow(p) \/ holder[r] = p
      <4>1. /\ Choosing \cap Left(p) = {} /\ Writes(p, r, written[p][r])
            /\ r = NewRow(p) \/ holder[r] = p
        BY <1>0, <3>1 DEF Runs, Wrote
      <4>2. Writes(p, r, written[p][r])'
        BY <4>1, <2>1, <1>3 DEF Writes
      <4> QED BY <4>1, <4>2, <2>2
    <3> QED BY <3>1, <1>3 DEF Wrote
  <2>6. Inserted(p)'
    <3>1. /\ "add-family" \notin Left(p)' => "add-family" \notin Left(p)
          /\ "add-owner" \notin Left(p)' => "add-owner" \notin Left(p)
      BY <1>1 DEF Reads
    <3> QED BY <3>1, <2>1, <1>0, <1>3 DEF Runs, Inserted
  <2>7. Cleared(p)'
    <3>1. \A s \in Clearing(p) : s \notin Left(p)' => s \notin Left(p)
      BY <1>1, <1>5
    <3>2. \A s, r : Target(p, s, r)' <=> Target(p, s, r)
      BY <2>1, <1>3 DEF Target, Swept
    <3>3. \A s : Clear(p, s)' <=> Clear(p, s)
      BY <3>2 DEF Clear
    <3> QED BY <3>1, <3>3, <1>0, <1>2, <1>3 DEF Runs, Cleared
  <2> QED BY <2>3, <2>4, <2>5, <2>6, <2>7, <1>1, <1>3, <1>6, <1>8 DEF Runs
<1>10. CASE Current(p) \in Choosing
  <2>1. \A r \in Table : written[p][r] = Same
    BY <1>0, <1>1, <1>10 DEF Runs, Wrote
  <2>2. Clearing(p) \subseteq Left(p)'
    BY <1>0, <1>1, <1>5, <1>10, StillToClear DEF Runs
  <2>3. call[p].call \in {"invite", "dissolve", "leave", "answer"}
    BY <1>0, <1>10, StillToClear DEF Runs
  <2>4. Fresh(p)'
    <3>1. Fresh(p)
      BY <1>0 DEF Runs
    <3> QED BY <3>1, <2>3, <1>3, <1>4 DEF Fresh
  <2>5. Chose(p)'
    <3>1. /\ Selected(p) \in Family /\ committed[FamilyRow(Selected(p))] # Absent
          /\ committed[FamilyRow(Selected(p))] = Doer(p)
                <=> call[p].call \in {"invite", "dissolve"}
      BY <1>0, <1>10, <2>1, ReadChooses DEF Runs
    <3>2. Selected(p) \in drawn /\ \A q \in Proc : Busy(q) => NewRow(q) # FamilyRow(Selected(p))
      BY <3>1, NobodyCreates
    <3> QED BY <3>1, <3>2, <1>3, <1>4 DEF Chose
  <2>6. Wrote(p)' /\ Inserted(p)'
    BY <2>1, <2>3 DEF Wrote, Inserted
  <2>7. Cleared(p)'
    BY <2>2, <1>2, <1>3 DEF Cleared
  <2> QED BY <2>4, <2>5, <2>6, <2>7, <1>1, <1>3, <1>6, <1>8 DEF Runs
<1> QED BY <1>9, <1>10

LEMMA ReadKeepsWInv ==
    ASSUME FInv, WInv, NEW p \in Proc, Read(p) PROVE WInv'
<1>1. CASE ~Passes(p) /\ Rollback(p)
  BY <1>1, RollbackKeepsWInv
<1>2. CASE /\ Passes(p) /\ Advance(p)
           /\ family' = [family EXCEPT ![p] = Selected(p)]
           /\ UNCHANGED <<committed, holder, sharers, call, new, queue, written, history>>
  <2>1. Busy(p) /\ Current(p) \in Reads
    BY DEF Read
  <2>2. /\ program' = [program EXCEPT ![p] = Tail(program[p])]
        /\ UNCHANGED <<committed, holder, sharers, call, new, queue, written, drawn>>
    BY <1>2 DEF Advance, history
  <2>3. \A q \in Proc \ {p} : Kept(q)
    BY <1>2, <2>2 DEF Kept, FInv, Shapes, WInv, Domains
  <2>4. program'[p] = Tail(program[p]) /\ family'[p] = Selected(p)
    BY <1>2, <2>2 DEF FInv, Shapes, WInv, Domains
  <2>5. Runs(p)' /\ NewRow(p)' = NewRow(p)
    BY <1>2, <2>1, <2>2, <2>3, <2>4, ReadKeepsRuns
  <2>6. Domains'
    BY <1>2, <2>2 DEF WInv, Domains
  <2>7. Drew(p)
    BY <2>1, <2>5 DEF Drew
  <2> QED BY <2>2, <2>3, <2>5, <2>6, <2>7, StepTogether
<1> QED BY <1>1, <1>2, Zenon DEF Read

(***************************************************************************)
(* A statement finds its rows.                                              *)
(***************************************************************************)
LEMMA LocksInBoth ==
    ASSUME NEW S, NEW s \in Seq(S), NEW t \in Seq(S)
    PROVE  s \o t \in Seq(S) /\ LocksIn(s \o t) = LocksIn(s) \cup LocksIn(t)
<1> DEFINE w == s \o t
<1>1. /\ w \in Seq(S) /\ Len(s) \in Nat /\ Len(t) \in Nat /\ Len(w) = Len(s) + Len(t)
      /\ \A k \in 1..Len(s) : w[k] = s[k]
      /\ \A k \in 1..Len(t) : w[Len(s) + k] = t[k]
  OBVIOUS
<1> HIDE DEF w
<1>2. ASSUME NEW k \in 1..Len(w) PROVE w[k] \in LocksIn(s) \cup LocksIn(t)
  <2>1. CASE k \in 1..Len(s)
    BY <2>1, <1>1 DEF LocksIn
  <2>2. CASE k \notin 1..Len(s)
    <3>1. k - Len(s) \in 1..Len(t) /\ Len(s) + (k - Len(s)) = k
      BY <1>1, <1>2, <2>2
    <3> QED BY <3>1, <1>1 DEF LocksIn
  <2> QED BY <2>1, <2>2
<1>3. ASSUME NEW k \in 1..Len(s) PROVE s[k] \in LocksIn(w)
  <2>1. k \in 1..Len(w)
    BY <1>1, <1>3
  <2> QED BY <2>1, <1>1, <1>3 DEF LocksIn
<1>4. ASSUME NEW k \in 1..Len(t) PROVE t[k] \in LocksIn(w)
  <2>1. Len(s) + k \in 1..Len(w)
    BY <1>1, <1>4
  <2> QED BY <2>1, <1>1, <1>4 DEF LocksIn
<1>5. LocksIn(w) = LocksIn(s) \cup LocksIn(t)
  <2>1. LocksIn(w) \subseteq LocksIn(s) \cup LocksIn(t)
    BY <1>2 DEF LocksIn
  <2>2. LocksIn(s) \subseteq LocksIn(w)
    BY <1>3 DEF LocksIn
  <2>3. LocksIn(t) \subseteq LocksIn(w)
    BY <1>4 DEF LocksIn
  <2> QED BY <2>1, <2>2, <2>3
<1> QED BY <1>1, <1>5 DEF w

\* the locks of a set of rows
LEMMA LocksOf ==
    ASSUME NEW S \in SUBSET Table, NEW mode
    PROVE  LET s == [k \in DOMAIN SetToSeq(S) |-> Lock(mode, SetToSeq(S)[k])]
           IN  /\ s \in Seq({Lock(mode, x) : x \in S})
               /\ LocksIn(s) = {Lock(mode, x) : x \in S}
<1> DEFINE rows == SetToSeq(S)  s == [k \in DOMAIN rows |-> Lock(mode, rows[k])]
<1>1. rows \in Seq(S) /\ \A x \in S : \E k \in 1..Len(rows) : rows[k] = x
  BY RowsInOrder
<1> HIDE DEF rows
<1>2. DOMAIN rows = 1..Len(rows) /\ Len(rows) \in Nat /\ \A k \in 1..Len(rows) : rows[k] \in S
  BY <1>1
<1>3. s \in Seq({Lock(mode, x) : x \in S}) /\ Len(s) = Len(rows)
      /\ \A k \in 1..Len(rows) : s[k] = Lock(mode, rows[k])
  BY <1>2
<1> HIDE DEF s
<1>4. LocksIn(s) \subseteq {Lock(mode, x) : x \in S}
  BY <1>2, <1>3 DEF LocksIn
<1>5. {Lock(mode, x) : x \in S} \subseteq LocksIn(s)
  <2>1. SUFFICES ASSUME NEW x \in S PROVE Lock(mode, x) \in LocksIn(s)
    OBVIOUS
  <2>2. PICK k \in 1..Len(rows) : rows[k] = x
    BY <1>1
  <2> QED BY <2>2, <1>3 DEF LocksIn
<1> QED BY <1>3, <1>4, <1>5 DEF s, rows

\* the authors that are referred to anew are users
LEMMA AuthorsAreUsers ==
    ASSUME FInv, WInv, NEW p \in Proc, Busy(p), Current(p) = "reassign-schedules"
    PROVE  \A r \in Found(p) :
              /\ r \in Table /\ r[1] = "schedule" /\ committed[r] # Absent
              /\ Creator(p, Visible(p, r).family) \in User
              /\ call[p].call = "delete" => Creator(p, Visible(p, r).family) # Doer(p)
<1>1. call[p].call \in {"leave", "delete"}
  BY CallOf, Running DEF Runs
<1>2. ASSUME NEW r \in Found(p)
      PROVE  /\ r \in Table /\ r[1] = "schedule" /\ IsThere(p, r)
             /\ call[p].call = "delete" => Creator(p, Visible(p, r).family) # Doer(p)
  BY DEF Found, Matches, IsThere
<1>3. ASSUME NEW r \in Found(p)
      PROVE  committed[r] # Absent /\ Creator(p, Visible(p, r).family) \in User
  BY <1>1, <1>2, CreatorIsUser
<1> QED BY <1>2, <1>3

LEMMA FoundLocks ==
    ASSUME FInv, WInv, NEW p \in Proc, Busy(p), Current(p) \notin Inserting
    PROVE  /\ Locks(p) \in Seq(LocksIn(Locks(p)))
           /\ LocksIn(Locks(p)) =
                {Lock(Mode(p), r) : r \in Found(p)}
                \cup (IF Current(p) = "reassign-schedules"
                      THEN {Lock("refer", a) : a \in Authors(p)} ELSE {})
<1> DEFINE s == [k \in DOMAIN SetToSeq(Found(p)) |-> Lock(Mode(p), SetToSeq(Found(p))[k])]
           F == {Lock(Mode(p), r) : r \in Found(p)}
           A == {Lock("refer", a) : a \in Authors(p)}
           t == RefersTo(SetToSeq(Authors(p)))
<1>1. Locks(p) = s \o (IF Current(p) = "reassign-schedules" THEN t ELSE <<>>)
  BY DEF Locks, Inserting
<1>2. s \in Seq(F) /\ LocksIn(s) = F
  <2>1. Found(p) \in SUBSET Table
    BY DEF Found
  <2> QED BY <2>1, LocksOf
<1>3. CASE Current(p) = "reassign-schedules"
  <2>1. Authors(p) \in SUBSET Table
    BY <1>3, AuthorsAreUsers, UserRows DEF Authors
  <2>2. t = [k \in DOMAIN SetToSeq(Authors(p)) |-> Lock("refer", SetToSeq(Authors(p))[k])]
    BY DEF RefersTo
  <2>3. t \in Seq(A) /\ LocksIn(t) = A
    BY <2>1, <2>2, LocksOf
  <2> HIDE DEF s, t, F, A
  <2>4. s \in Seq(F \cup A) /\ t \in Seq(F \cup A)
    BY <1>2, <2>3
  <2>5. s \o t \in Seq(F \cup A) /\ LocksIn(s \o t) = F \cup A
    BY <1>2, <2>3, <2>4, LocksInBoth
  <2> QED BY <1>1, <1>3, <2>5 DEF F, A
<1>4. CASE Current(p) # "reassign-schedules"
  <2> HIDE DEF s, F
  <2>1. s \o <<>> = s
    BY <1>2
  <2> QED BY <1>1, <1>2, <1>4, <2>1 DEF F
<1> QED BY <1>3, <1>4

LEMMA FindRowsAhead ==
    ASSUME FInv, WInv, NEW p \in Proc, Busy(p), queue'[p] = Append(Locks(p), Done)
    PROVE  /\ Ahead(p)' = LocksIn(Locks(p)) \cup {Done} /\ queue'[p] # <<>>
           /\ queue'[p] \in Seq(LocksIn(Locks(p)) \cup {Done})
<1> DEFINE s == Locks(p)  S == LocksIn(s) \cup {Done}
<1>1. s \in Seq(LocksIn(s))
  BY InsertLocks, FoundLocks
<1> HIDE DEF s
<1>2. s \in Seq(S) /\ <<Done>> \in Seq(S) /\ Append(s, Done) = s \o <<Done>>
  BY <1>1
<1>3. LocksIn(<<Done>>) = {Done}
  <2>1. Len(<<Done>>) = 1 /\ <<Done>>[1] = Done /\ 1..1 = {1}
    OBVIOUS
  <2> QED BY <2>1 DEF LocksIn
<1>4. LocksIn(Append(s, Done)) = S
  <2> DEFINE d == <<Done>>
  <2>1. d \in Seq(S) /\ LocksIn(d) = {Done}
    BY <1>2, <1>3
  <2> HIDE DEF d, S
  <2>2. LocksIn(s \o d) = LocksIn(s) \cup LocksIn(d)
    BY <1>2, <2>1, LocksInBoth
  <2> QED BY <1>2, <2>1, <2>2 DEF d, S
<1>5. Ahead(p)' = LocksIn(Append(s, Done))
  BY DEF Ahead, LocksIn, s
<1>6. Append(s, Done) # <<>>
  <2>1. LocksIn(<<>>) = {}
    BY DEF LocksIn
  <2> QED BY <2>1, <1>4
<1> QED BY <1>2, <1>4, <1>5, <1>6 DEF s

\* what a statement that deletes or checks finds is what it has to leave nothing of
LEMMA TargetMatches ==
    ASSUME FInv, WInv, NEW p \in Proc, Busy(p), Current(p) \in Clearing(p), NEW r \in Table
    PROVE  Target(p, Current(p), r) <=> Matches(p, r)
<1> DEFINE s == Current(p)  row == Visible(p, r)  u == Doer(p)  f == family[p]
<1>0. Runs(p)
  BY Running
<1>1. CASE s = "delete-category"
  BY <1>1 DEF Target, Swept, Sweeping, Matches, IsThere
<1>2. CASE s = "delete-account"
  BY <1>2 DEF Target, Swept, Sweeping, Matches, IsThere
<1>3. CASE s = "delete-family"
  BY <1>3 DEF Target, Swept, Sweeping, Matches, IsThere
<1>4. CASE s = "delete-user"
  BY <1>4 DEF Target, Swept, Sweeping, Matches, IsThere
<1>5. CASE s = "schedules-left"
  <2>1. r[1] = "schedule" => (CategoryRow(f) \in Parents(r, row) <=> row.family = f)
    BY DEF Parents, CategoryRow, FamilyRow, UserRow
  <2> QED BY <2>1, <1>5 DEF Target, Swept, Sweeping, SweptKinds, Matches, IsThere
<1>6. CASE s = "sources-left"
  <2>1. r[1] = "source" => (AccountRow(f) \in Parents(r, row) <=> row.family = f)
    BY DEF Parents, AccountRow, UserRow
  <2> QED BY <2>1, <1>6 DEF Target, Swept, Sweeping, SweptKinds, Matches, IsThere
<1>7. CASE s = "cascade-family"
  <2>1. r[1] \in {"member", "invitation", "schedule"}
           => (FamilyRow(f) \in Parents(r, row) <=> row.family = f)
    BY DEF Parents, CategoryRow, FamilyRow, UserRow
  <2> QED BY <2>1, <1>7 DEF Target, Swept, Sweeping, SweptKinds, Matches, IsThere
<1>8. CASE s = "rows-left"
  <2>1. r[1] = "family" => (UserRow(u) \in Parents(r, row) <=> row = u)
    BY DEF Parents, UserRow
  <2>2. r[1] \in {"schedule", "source"} => (UserRow(u) \in Parents(r, row) <=> row.by = u)
    BY DEF Parents, CategoryRow, AccountRow, FamilyRow, UserRow
  <2> QED BY <2>1, <2>2, <1>8 DEF Target, Swept, Sweeping, SweptKinds, Matches, IsThere
<1>9. CASE s = "cascade-user"
  <2>1. r[1] = "member" => (UserRow(u) \in Parents(r, row) <=> r = MemberRow(u))
    <3>1. r[1] = "member" => r = MemberRow(r[2])
      BY RowKinds
    <3> QED BY <3>1 DEF Parents, UserRow, FamilyRow, MemberRow
  <2>2. r[1] = "invitation" => (UserRow(u) \in Parents(r, row) <=> u \in {row.invited, row.by})
    BY DEF Parents, FamilyRow, UserRow
  <2>3. MemberRow(u)[1] = "member"
    BY DEF MemberRow
  <2> QED BY <2>1, <2>2, <2>3, <1>9 DEF Target, Swept, Sweeping, SweptKinds, Matches, IsThere
<1> QED BY <1>1, <1>2, <1>3, <1>4, <1>5, <1>6, <1>7, <1>8, <1>9 DEF Clearing

LEMMA FindRowsKeepsRuns ==
    ASSUME FInv, WInv, NEW p \in Proc, Busy(p), Current(p) \notin Reads \cup {"commit"},
           queue[p] = <<>>, queue'[p] = Append(Locks(p), Done),
           UNCHANGED <<committed, holder, sharers, call, family, new, program, written, drawn>>
    PROVE  Runs(p)' /\ NewRow(p)' = NewRow(p)
<1>0. Runs(p)
  BY Running
<1>1. /\ Left(p)' = Left(p) /\ Doer(p)' = Doer(p) /\ NewRow(p)' = NewRow(p) /\ Mode(p)' = Mode(p)
      /\ Clearing(p)' = Clearing(p) /\ Current(p)' = Current(p)
      /\ \A r : Visible(p, r)' = Visible(p, r) /\ (IsThere(p, r)' <=> IsThere(p, r))
  BY DEF Left, Doer, NewRow, NewKind, Mode, Clearing, Current, Visible, IsThere
<1>2. Ahead(p) = {}
  <2>1. 1..Len(<<>>) = {}
    OBVIOUS
  <2> QED BY <2>1 DEF Ahead
<1>3. Ahead(p)' = LocksIn(Locks(p)) \cup {Done} /\ queue'[p] # <<>>
      /\ queue'[p] \in Seq(Ahead(p)')
  BY FindRowsAhead
<1>4. \A q \in Proc : (Busy(q)' <=> Busy(q)) /\ NewRow(q)' = NewRow(q)
  BY DEF Busy, NewRow, NewKind
<1>5. \A r : Refers(p, r) => Refers(p, r)'
  BY <1>2 DEF Refers
<1>6. \A m, r : Lock(m, r).mode = m /\ Lock(m, r).row = r
  BY DEF Lock
<1>7. OnTrack(p)' /\ Fresh(p)' /\ Chose(p)' /\ Shares(p)' /\ Inserted(p)'
  <2>1. OnTrack(p)'
    BY <1>0 DEF Runs, OnTrack, Full, Program, RespondFamilyInvitation
  <2>2. Fresh(p)'
    BY <1>0, <1>1, <1>4 DEF Runs, Fresh
  <2>3. Chose(p)'
    BY <1>0, <1>1, <1>4 DEF Runs, Chose
  <2>4. Shares(p)'
    BY <1>0, <1>1 DEF Runs, Shares
  <2>5. Inserted(p)'
    BY <1>0, <1>1 DEF Runs, Inserted
  <2> QED BY <2>1, <2>2, <2>3, <2>4, <2>5
<1>8. Wrote(p)'
  <2>1. \A r \in Table : Writes(p, r, written[p][r])' <=> Writes(p, r, written[p][r])
    BY <1>1 DEF Writes
  <2> QED BY <2>1, <1>0, <1>1 DEF Runs, Wrote
<1>9. Covered(p)'
  <2>1. \A r \in Table : Parents(r, written[p][r])' = Parents(r, written[p][r])
                         /\ Parents(r, committed[r])' = Parents(r, committed[r])
    BY DEF Parents, UserRow, FamilyRow, CategoryRow, AccountRow
  <2> QED BY <2>1, <1>0, <1>5 DEF Runs, Covered
<1>10. DeletesNoParent(p)'
  <2>1. ASSUME call[p].call \in {"dissolve", "delete"}, NEW r \in Row, Refers(p, r)'
        PROVE  r[1] = "user" /\ r # UserRow(Doer(p))
    <3>1. CASE p \in sharers[r]
      BY <3>1, <2>1, <1>0 DEF Runs, DeletesNoParent, Refers
    <3>2. CASE p \notin sharers[r]
      <4>1. Lock("refer", r) \in LocksIn(Locks(p))
        BY <3>2, <2>1, <1>3, <1>6 DEF Refers, Done
      <4>2. Current(p) \notin Inserting
        BY <2>1, <1>0, CallOf DEF Runs, Inserting
      <4>3. Mode(p) # "refer"
        BY DEF Mode
      <4>4. Current(p) = "reassign-schedules" /\ r \in Authors(p)
        BY <4>1, <4>2, <4>3, <1>6, FoundLocks
      <4>5. call[p].call = "delete"
        BY <4>4, <2>1, <1>0, CallOf DEF Runs
      <4>6. PICK x \in Found(p) : r = UserRow(Creator(p, Visible(p, x).family))
        BY <4>4 DEF Authors
      <4>7. Creator(p, Visible(p, x).family) # Doer(p)
        BY <4>4, <4>5, <4>6, AuthorsAreUsers
      <4> QED BY <4>6, <4>7 DEF UserRow
    <3> QED BY <3>1, <3>2
  <2> QED BY <2>1, <1>1 DEF DeletesNoParent
<1>11. ASSUME Current(p) \in Inserting PROVE LocksIn(Locks(p))' = LocksIn(Locks(p))
  <2>1. Locks(p)' = Locks(p)
    BY <1>11, <1>1 DEF Locks, MemberLocks, Inserting
  <2> QED BY <2>1 DEF LocksIn
<1>12. Queued(p)'
  <2>1. queue'[p] \in Seq(Ahead(p)') /\ Done \in Ahead(p)' /\ \A l \in Ahead(p)' \ {Done} : l \in LocksIn(Locks(p))
    BY <1>3
  <2>2. CASE Current(p) \in Inserting
    <3>1. \A l \in LocksIn(Locks(p)) : l.row \in Row /\ l.mode # "done" /\ l = Lock(l.mode, l.row)
      BY <2>2, <1>0, InsertRows DEF Runs
    <3> QED BY <2>1, <2>2, <3>1, <1>1, <1>11 DEF Queued, Lock
  <2>3. CASE Current(p) \notin Inserting
    <3>1. ASSUME NEW l \in LocksIn(Locks(p))
          PROVE  /\ l.row \in Table /\ l.mode # "done" /\ l = Lock(l.mode, l.row)
                 /\ l.mode = Mode(p) \/ (l.mode = "refer" /\ l.row[1] = "user"
                                         /\ Current(p) = "reassign-schedules")
      <4>1. CASE l \in {Lock(Mode(p), r) : r \in Found(p)}
        <5>1. PICK r \in Found(p) : l = Lock(Mode(p), r)
          BY <4>1
        <5>2. Mode(p) # "done" /\ r \in Table
          BY DEF Mode, Found
        <5> QED BY <5>1, <5>2, <1>6
      <4>2. CASE Current(p) = "reassign-schedules" /\ l \in {Lock("refer", a) : a \in Authors(p)}
        <5>1. PICK a \in Authors(p) : l = Lock("refer", a)
          BY <4>2
        <5>2. PICK x \in Found(p) : a = UserRow(Creator(p, Visible(p, x).family))
          BY DEF Authors
        <5>3. Creator(p, Visible(p, x).family) \in User
          BY <4>2, AuthorsAreUsers
        <5>4. a \in Table /\ a[1] = "user"
          BY <5>2, <5>3, UserRows
        <5> QED BY <4>2, <5>1, <5>4, <1>6
      <4> QED BY <2>3, <3>1, <4>1, <4>2, FoundLocks
    <3> QED BY <2>1, <2>3, <3>1, <1>1, TableRows DEF Queued, Lock
  <2> QED BY <2>2, <2>3
<1>13. Acquired(p)'
  BY <1>1, <1>3, <1>11 DEF Acquired
<1>14. Reassigns(p)'
  <2>2. \A r : Creator(p, Visible(p, r).family)' = Creator(p, Visible(p, r).family)
    BY <1>1 DEF Creator
  <2>1. ASSUME NEW r \in Table, r[1] = "schedule", Lock("update", r) \in Ahead(p)'
        PROVE  /\ r[2] \in drawn
               /\ \A q \in Proc : Busy(q) => r # NewRow(q)
               /\ IsThere(p, r) => Refers(p, UserRow(Creator(p, Visible(p, r).family)))'
    <3>1. Lock("update", r) \in LocksIn(Locks(p))
      BY <2>1, <1>3, <1>6 DEF Done
    <3>2. Current(p) \notin Inserting
      BY <3>1, <1>0, <1>6, InsertRows DEF Runs
    <3>3. r \in Found(p) /\ Mode(p) = "update"
      BY <3>1, <3>2, <1>6, FoundLocks
    <3>4. Current(p) = "reassign-schedules"
      <4>1. Current(p) \in {"answer", "reassign-schedules"}
        BY <3>3 DEF Mode
      <4>2. Current(p) # "answer"
        BY <2>1, <3>3 DEF Found, Matches, InvitationRow
      <4> QED BY <4>1, <4>2
    <3>5. committed[r] # Absent
      BY <3>3, <3>4, AuthorsAreUsers
    <3>6. r[2] \in drawn
      BY <2>1, <3>5 DEF WInv, DrawnIds, Serial
    <3>7. ASSUME NEW q \in Proc, Busy(q) PROVE r # NewRow(q)
      <4>1. Fresh(q)
        BY <3>7, Running DEF Runs
      <4>2. NewRow(q)[1] = NewKind(call[q])
        BY DEF NewRow
      <4>3. NewKind(call[q]) # "none" => committed[NewRow(q)] = Absent
        BY <4>1 DEF Fresh
      <4> QED BY <2>1, <3>5, <4>2, <4>3
    <3>8. Lock("refer", UserRow(Creator(p, Visible(p, r).family))) \in Ahead(p)'
      BY <3>2, <3>3, <3>4, <1>3, FoundLocks DEF Authors
    <3> QED BY <2>2, <3>6, <3>7, <3>8 DEF Refers, Lock
  <2> QED BY <2>1, <2>2, <1>1, <1>4 DEF Reassigns, Lock
<1>15. Cleared(p)'
  <2>1. \A s, r : Target(p, s, r)' <=> Target(p, s, r)
    BY <1>1 DEF Target, Swept
  <2>2. \A s : Clear(p, s)' <=> Clear(p, s)
    BY <2>1 DEF Clear
  <2>3. ASSUME Current(p) \in Clearing(p), NEW r \in Table, Target(p, Current(p), r)
        PROVE  Lock(Mode(p), r) \in Ahead(p)'
    <3>1. r \in Found(p)
      BY <2>3, TargetMatches DEF Found
    <3>2. Current(p) \notin Inserting
      BY <2>3 DEF Clearing, Inserting
    <3> QED BY <3>1, <3>2, <1>3, FoundLocks
  <2> QED BY <2>1, <2>2, <2>3, <1>0, <1>1 DEF Runs, Cleared, Lock
<1> QED BY <1>1, <1>7, <1>8, <1>9, <1>10, <1>12, <1>13, <1>14, <1>15 DEF Runs

LEMMA FindRowsKeepsWInv ==
    ASSUME FInv, WInv, NEW p \in Proc, FindRows(p) PROVE WInv'
<1>1. /\ Busy(p) /\ Current(p) \notin Reads \cup {"commit"} /\ queue[p] = <<>>
      /\ queue' = [queue EXCEPT ![p] = Append(Locks(p), Done)]
      /\ UNCHANGED <<committed, holder, sharers, call, family, new, program, written, drawn>>
  BY DEF FindRows, connection, history
<1>2. queue'[p] = Append(Locks(p), Done)
  BY <1>1 DEF FInv, Shapes
<1>3. \A q \in Proc \ {p} : Kept(q)
  BY <1>1 DEF Kept, FInv, Shapes
<1>4. Runs(p)' /\ NewRow(p)' = NewRow(p)
  BY <1>1, <1>2, FindRowsKeepsRuns
<1>5. Domains' /\ Drew(p)
  BY <1>1, <1>4 DEF WInv, Domains, Drew
<1> QED BY <1>1, <1>3, <1>4, <1>5, StepTogether

(***************************************************************************)
(* A row is locked.                                                         *)
(***************************************************************************)
\* A call deletes rows as they are committed: it has changed none of them.
LEMMA DeletesCommitted ==
    ASSUME FInv, WInv, NEW p \in Proc, Busy(p), NEW r \in Table, IsThere(p, r),
           \/ call[p].call = "dissolve"
           \/ call[p].call \in {"leave", "delete"} /\ r[1] # "schedule"
    PROVE  Visible(p, r) = committed[r]
<1>1. SUFFICES ASSUME written[p][r] # Same PROVE FALSE
  BY DEF Visible
<1>2. Writes(p, r, written[p][r])
  BY <1>1, Running DEF Runs, Wrote
<1>3. written[p][r] # Absent
  BY <1>1 DEF IsThere, Visible
<1>4. CASE call[p].call = "dissolve"
  BY <1>2, <1>3, <1>4 DEF Writes
<1>5. CASE call[p].call \in {"leave", "delete"} /\ r[1] # "schedule"
  BY <1>2, <1>3, <1>5 DEF Writes
<1> QED BY <1>4, <1>5

LEMMA AnswerChanges ==
    ASSUME FInv, WInv, NEW p \in Proc, Busy(p), Current(p) = "answer", NEW r \in Table, Matches(p, r)
    PROVE  /\ r = InvitationRow(call[p].invitation) /\ r[1] = "invitation"
           /\ committed[r] # Absent /\ committed[r] \in Invite
           /\ Changed(p, r) = [committed[r] EXCEPT !.status =
                                  IF call[p].accept THEN "accepted" ELSE "declined"]
<1> DEFINE c == call[p]  old == committed[r]
<1>0. Runs(p)
  BY Running
<1>1. c.call = "answer" /\ c.invitation \in Invitation
  BY <1>0, CallOf, Calling DEF Runs
<1>2. r = InvitationRow(c.invitation) /\ Visible(p, r) # Absent
  BY DEF Matches
<1>3. r[1] = "invitation"
  BY <1>1, <1>2, InvitationRows
<1>4. r # MemberRow(Doer(p))
  BY <1>3 DEF MemberRow
<1>5. CASE written[p][r] = Same
  <2>1. Visible(p, r) = old /\ old # Absent
    BY <1>2, <1>5 DEF Visible
  <2>2. old \in Invite
    BY <1>3, <2>1, KindValues DEF WInv, TypedRows
  <2> QED BY <1>2, <1>3, <2>1, <2>2 DEF Changed
<1>6. CASE written[p][r] # Same
  <2>1. Visible(p, r) = written[p][r] /\ Writes(p, r, written[p][r]) /\ written[p][r] # Absent
    BY <1>0, <1>2, <1>6 DEF Visible, Runs, Wrote
  <2>2. old # Absent /\ Visible(p, r) = [old EXCEPT !.status = IF c.accept THEN "accepted" ELSE "declined"]
    BY <1>1, <1>4, <2>1 DEF Writes
  <2>3. old \in Invite
    BY <1>3, <2>2, KindValues DEF WInv, TypedRows
  <2>4. Changed(p, r) = [Visible(p, r) EXCEPT !.status = IF c.accept THEN "accepted" ELSE "declined"]
    BY DEF Changed
  <2>5. Changed(p, r) = [old EXCEPT !.status = IF c.accept THEN "accepted" ELSE "declined"]
    BY <2>2, <2>3, <2>4 DEF Invite
  <2> QED BY <1>2, <1>3, <2>2, <2>3, <2>5
<1> QED BY <1>5, <1>6

LEMMA ReassignChanges ==
    ASSUME FInv, WInv, NEW p \in Proc, Busy(p), Current(p) = "reassign-schedules",
           NEW r \in Table, Matches(p, r)
    PROVE  /\ r[1] = "schedule" /\ IsThere(p, r) /\ call[p].call \in {"leave", "delete"}
           /\ committed[r] # Absent /\ committed[r] \in Entry /\ Changed(p, r) \in Entry
           /\ Changed(p, r) = [committed[r] EXCEPT !.by = committed[FamilyRow(committed[r].family)]]
           /\ Changed(p, r).family = Visible(p, r).family
           /\ Visible(p, r).family = committed[r].family
           /\ Changed(p, r).by = Creator(p, Visible(p, r).family)
           /\ call[p].call = "delete" => Changed(p, r).by # Doer(p)
<1> DEFINE old == committed[r]  new0 == committed[FamilyRow(old.family)]
<1>1. call[p].call \in {"leave", "delete"}
  BY CallOf, Running DEF Runs
<1>2. r[1] = "schedule" /\ IsThere(p, r)
      /\ (call[p].call = "delete" => Creator(p, Visible(p, r).family) # Doer(p))
  BY DEF Matches, IsThere
<1>3. /\ old # Absent /\ old \in Entry /\ Visible(p, r) \in Entry
      /\ Visible(p, r).family = old.family /\ old.family \in Family
      /\ Creator(p, Visible(p, r).family) = new0 /\ new0 \in User
  BY <1>1, <1>2, CreatorIsUser
<1>4. Changed(p, r) = [Visible(p, r) EXCEPT !.by = new0]
  BY <1>3 DEF Changed
<1> HIDE DEF new0
<1>5. Changed(p, r) = [old EXCEPT !.by = new0]
  BY <1>3, <1>4 DEF Entry
<1>6. Changed(p, r) \in Entry /\ Changed(p, r).family = old.family /\ Changed(p, r).by = new0
  BY <1>3, <1>5 DEF Entry
<1> QED BY <1>1, <1>2, <1>3, <1>5, <1>6 DEF new0

LEMMA DeleteChanges ==
    ASSUME FInv, WInv, NEW p \in Proc, Busy(p), Current(p) \notin Inserting, Mode(p) = "delete",
           NEW r \in Table, Matches(p, r)
    PROVE  /\ Changed(p, r) = Absent /\ Writes(p, r, Absent)
           /\ IsParent(r) => \/ call[p].call = "dissolve" /\ r[1] # "user"
                             \/ call[p].call = "delete" /\ r = UserRow(Doer(p))
<1> DEFINE c == call[p]  u == Doer(p)  f == family[p]  old == committed[r]
<1>0. Runs(p)
  BY Running
<1>1. Current(p) \notin {"answer", "reassign-schedules"}
  BY DEF Mode
<1>2. Changed(p, r) = Absent
  BY <1>1 DEF Changed
<1>3. IsThere(p, r)
  BY DEF Matches, IsThere
<1>4. CASE Current(p) = "delete-membership"
  <2>1. c.call = "leave" /\ r = MemberRow(u)
    BY <1>0, <1>4, CallOf DEF Runs, Matches
  <2>2. r[1] = "member"
    BY <2>1 DEF MemberRow
  <2>3. Visible(p, r) = old
    BY <1>3, <2>1, <2>2, DeletesCommitted
  <2>4. old # Absent /\ old.family = f
    BY <1>3, <1>4, <2>1, <2>3 DEF Matches, IsThere
  <2>5. Writes(p, r, Absent)
    BY <2>1, <2>4 DEF Writes
  <2> QED BY <1>2, <2>2, <2>5 DEF IsParent
<1>5. CASE c.call = "dissolve"
  <2>1. Visible(p, r) = old /\ old # Absent
    BY <1>3, <1>5, DeletesCommitted DEF IsThere
  <2>2. \/ r \in {CategoryRow(f), AccountRow(f), FamilyRow(f)}
        \/ r[1] \in {"member", "invitation", "schedule"} /\ old.family = f
    <3>1. Current(p) \in {"delete-schedules", "delete-category", "schedules-left",
              "delete-account", "sources-left", "delete-invitations",
              "delete-members", "delete-family", "cascade-family"}
      BY <1>0, <1>5, DissolveOrder DEF Runs, Matches
    <3>2. Current(p) \notin {"schedules-left", "sources-left"}
      BY DEF Mode
    <3> QED BY <2>1, <3>1, <3>2, <1>5 DEF Matches
  <2>3. Writes(p, r, Absent)
    BY <1>5, <2>1, <2>2 DEF Writes
  <2>4. r[1] # "user"
    BY <2>2 DEF CategoryRow, AccountRow, FamilyRow
  <2> QED BY <1>2, <1>5, <2>3, <2>4
<1>6. CASE c.call = "delete"
  <2>1. Current(p) \in {"delete-invitations", "delete-user", "cascade-user"}
    <3>1. Current(p) \in {"delete-invitations", "delete-user", "rows-left", "cascade-user"}
      BY <1>0, <1>1, <1>6, DeleteOrder DEF Runs, Matches
    <3>2. Current(p) # "rows-left"
      BY DEF Mode
    <3> QED BY <3>1, <3>2
  <2>2. \/ r \in {UserRow(u), MemberRow(u)}
        \/ r[1] = "invitation" /\ u \in {Visible(p, r).invited, Visible(p, r).by}
    BY <2>1, <1>6 DEF Matches
  <2>3. r[1] # "schedule"
    BY <2>2 DEF UserRow, MemberRow
  <2>4. Visible(p, r) = old /\ old # Absent
    BY <1>3, <1>6, <2>3, DeletesCommitted DEF IsThere
  <2>5. Writes(p, r, Absent)
    BY <1>6, <2>2, <2>4 DEF Writes
  <2>6. IsParent(r) => r = UserRow(u)
    BY <2>2 DEF IsParent, MemberRow
  <2> QED BY <1>2, <1>6, <2>5, <2>6
<1>7. \/ Current(p) = "delete-membership" \/ c.call = "dissolve" \/ c.call = "delete"
  <2>1. Current(p) \in {"delete-membership", "delete-schedules", "delete-category",
             "delete-account", "delete-invitations", "delete-members", "delete-family",
             "cascade-family", "delete-user", "cascade-user"}
    BY <1>1 DEF Matches, Mode
  <2> QED BY <2>1, <1>0, CallOf DEF Runs
<1> QED BY <1>4, <1>5, <1>6, <1>7

\* what a statement writes is what its call may write
LEMMA ChangesWrite ==
    ASSUME FInv, WInv, NEW p \in Proc, Busy(p), Current(p) \notin Inserting, Mode(p) # "none-left",
           NEW r \in Table, Matches(p, r)
    PROVE  Writes(p, r, Changed(p, r))
<1>0. Runs(p)
  BY Running
<1>1. CASE Current(p) = "answer"
  <2>1. call[p].call = "answer"
    BY <1>0, <1>1, CallOf DEF Runs
  <2> QED BY <1>1, <2>1, AnswerChanges DEF Writes
<1>2. CASE Current(p) = "reassign-schedules"
  BY <1>2, ReassignChanges DEF Writes
<1>3. CASE Current(p) \notin {"answer", "reassign-schedules"}
  <2>1. Mode(p) = "delete"
    BY <1>3 DEF Mode
  <2> QED BY <2>1, DeleteChanges
<1> QED BY <1>1, <1>2, <1>3

LEMMA QueueAdvanced ==
    ASSUME NEW p \in Proc, queue[p] # <<>>, Queued(p), queue'[p] = Tail(queue[p]),
           Wanted(p).mode # "done"
    PROVE  /\ Wanted(p) \in Ahead(p) \ {Done} /\ Ahead(p)' \subseteq Ahead(p)
           /\ \A l \in Ahead(p) : l # Wanted(p) => l \in Ahead(p)'
           /\ queue'[p] \in Seq(Ahead(p)')
<1> DEFINE s == queue[p]  t == Tail(s)
<1>1. s \in Seq(Ahead(p)) /\ Ahead(p) = {s[k] : k \in 1..Len(s)} /\ Wanted(p) = Head(s)
  BY DEF Queued, Ahead, Wanted
<1>2. Ahead(p)' = {t[k] : k \in 1..Len(t)}
  BY DEF Ahead
<1>3. s # <<>> /\ queue'[p] = t
  OBVIOUS
<1> HIDE DEF s
<1>4. Len(s) \in Nat /\ Len(s) # 0 /\ Head(s) = s[1]
  BY <1>1, <1>3, EmptySeq
<1>5. t \in Seq(Ahead(p)) /\ Len(t) = Len(s) - 1 /\ \A k \in 1..Len(t) : t[k] = s[k + 1]
  BY <1>1, <1>3, <1>4
<1> HIDE DEF t
<1>6. Wanted(p) \in Ahead(p) /\ Wanted(p) # Done
  <2>1. 1 \in 1..Len(s)
    BY <1>4
  <2>2. Done.mode = "done"
    BY DEF Done, Lock
  <2> QED BY <2>1, <2>2, <1>1, <1>4
<1>7. Ahead(p)' \subseteq Ahead(p)
  <2>1. \A k \in 1..Len(t) : k + 1 \in 1..Len(s)
    BY <1>4, <1>5
  <2> QED BY <2>1, <1>1, <1>2, <1>5
<1>8. ASSUME NEW l \in Ahead(p), l # Wanted(p) PROVE l \in Ahead(p)'
  <2>1. PICK k \in 1..Len(s) : l = s[k]
    BY <1>8, <1>1
  <2>2. k # 1
    BY <2>1, <1>8, <1>1, <1>4
  <2>3. k - 1 \in 1..Len(t) /\ (k - 1) + 1 = k
    BY <2>1, <2>2, <1>4, <1>5
  <2> QED BY <2>1, <2>3, <1>2, <1>5
<1>9. t \in Seq(Ahead(p)')
  <2>1. \A k \in 1..Len(t) : t[k] \in Ahead(p)'
    BY <1>2
  <2>2. Len(t) \in Nat /\ DOMAIN t = 1..Len(t) /\ t = [k \in 1..Len(t) |-> t[k]]
    BY <1>5
  <2> QED BY <2>1, <2>2
<1> QED BY <1>3, <1>6, <1>7, <1>8, <1>9

\* what p does to the row it locks
Changes(p) == Wanted(p).mode = Mode(p) /\ Mode(p) # "none-left" /\ Matches(p, Wanted(p).row)

LEMMA LockedRow ==
    ASSUME FInv, WInv, NEW p \in Proc, LockRow(p)
    PROVE  /\ Busy(p) /\ queue[p] # <<>> /\ Wanted(p).mode # "done" /\ Blockers(p) = {}
           /\ ~Violates(p, Wanted(p)) /\ Wanted(p) \in Ahead(p) \ {Done}
           /\ Wanted(p).row \in Row /\ Wanted(p) = Lock(Wanted(p).mode, Wanted(p).row)
           /\ UNCHANGED <<committed, call, family, new, program, drawn>>
           /\ queue' = [queue EXCEPT ![p] = Tail(queue[p])]
           /\ sharers' = IF Wanted(p).mode = "refer"
                         THEN [sharers EXCEPT ![Wanted(p).row] = @ \cup {p}] ELSE sharers
           /\ holder' = IF Wanted(p).mode = "insert" \/ Changes(p)
                        THEN [holder EXCEPT ![Wanted(p).row] = p] ELSE holder
           /\ written' = IF Changes(p)
                         THEN [written EXCEPT ![p][Wanted(p).row] = Changed(p, Wanted(p).row)]
                         ELSE written
           /\ Changes(p) => Wanted(p).row \in Table /\ Current(p) \notin Inserting
           /\ Current(p) \notin Reads \cup {"commit"}
<1>0. Runs(p)
  BY Running DEF LockRow
<1>1. /\ Busy(p) /\ queue[p] # <<>> /\ Wanted(p).mode # "done" /\ Blockers(p) = {}
      /\ ~Violates(p, Wanted(p))
      /\ UNCHANGED <<committed, call, family, new, program, drawn>>
      /\ queue' = [queue EXCEPT ![p] = Tail(queue[p])]
      /\ sharers' = IF Wanted(p).mode = "refer"
                    THEN [sharers EXCEPT ![Wanted(p).row] = @ \cup {p}] ELSE sharers
  BY DEF LockRow, connection, history
<1>2. Changes(p) <=> (Wanted(p).mode = Mode(p) /\ Wanted(p).mode # "none-left"
                      /\ Matches(p, Wanted(p).row))
  BY DEF Changes
<1>3. /\ holder' = IF Wanted(p).mode = "insert" \/ Changes(p)
                   THEN [holder EXCEPT ![Wanted(p).row] = p] ELSE holder
      /\ written' = IF Changes(p)
                    THEN [written EXCEPT ![p][Wanted(p).row] = Changed(p, Wanted(p).row)]
                    ELSE written
  BY <1>2 DEF LockRow
<1>4. queue'[p] = Tail(queue[p])
  BY <1>1 DEF FInv, Shapes
<1>5. Wanted(p) \in Ahead(p) \ {Done}
  BY <1>0, <1>1, <1>4, QueueAdvanced DEF Runs
<1>6. Wanted(p).row \in Row /\ Wanted(p) = Lock(Wanted(p).mode, Wanted(p).row)
  BY <1>0, <1>1, <1>5 DEF Runs, Queued
<1>7. ASSUME Changes(p) PROVE Wanted(p).row \in Table /\ Current(p) \notin Inserting
  <2>1. Current(p) \notin Inserting
    <3>1. SUFFICES ASSUME Current(p) \in Inserting PROVE FALSE
      OBVIOUS
    <3>2. Mode(p) = "delete"
      BY <3>1 DEF Mode, Inserting
    <3>3. Wanted(p) \in LocksIn(Locks(p))
      BY <3>1, <1>0, <1>1, <1>5 DEF Runs, Queued
    <3>4. Wanted(p).mode \in {"insert", "refer"}
      BY <3>1, <3>3, <1>0, <1>1, InsertRows DEF Runs
    <3> QED BY <3>2, <3>4, <1>7 DEF Changes
  <2>2. Wanted(p).row \in Table
    BY <2>1, <1>0, <1>1, <1>5 DEF Runs, Queued
  <2> QED BY <2>1, <2>2
<1>8. Current(p) \notin Reads \cup {"commit"}
  BY <1>1 DEF FInv, Connected
<1> QED BY <1>1, <1>3, <1>5, <1>6, <1>7, <1>8

LEMMA LockRowKept ==
    ASSUME FInv, WInv, NEW p \in Proc, LockRow(p)
    PROVE  \A q \in Proc \ {p} : Kept(q)
<1> DEFINE l == Wanted(p)
<1>1. /\ Busy(p) /\ queue[p] # <<>> /\ l.mode # "done" /\ Blockers(p) = {} /\ l.row \in Row
      /\ UNCHANGED <<call, family, new, program>>
      /\ queue' = [queue EXCEPT ![p] = Tail(queue[p])]
      /\ sharers' = IF l.mode = "refer" THEN [sharers EXCEPT ![l.row] = @ \cup {p}] ELSE sharers
      /\ holder' = IF l.mode = "insert" \/ Changes(p)
                   THEN [holder EXCEPT ![l.row] = p] ELSE holder
      /\ written' = IF Changes(p)
                    THEN [written EXCEPT ![p][l.row] = Changed(p, l.row)] ELSE written
  BY LockedRow
<1>2. Changes(p) => l.mode \in {"update", "delete"}
  BY DEF Changes, Mode
<1>3. ASSUME NEW q \in Proc \ {p}, l.mode \in {"insert", "update", "delete"}
      PROVE  holder[l.row] # q
  <2>1. {holder[l.row]} \ {Nobody, p} = {}
    BY <1>1, <1>3 DEF Blockers, FInv, TypeOK
  <2> QED BY <2>1, <1>3, FamiliesAssumption
<1>4. ASSUME NEW q \in Proc \ {p} PROVE Kept(q)
  <2>1. queue'[q] = queue[q] /\ written'[q] = written[q]
    BY <1>1, <1>4 DEF FInv, Shapes
  <2>2. ASSUME NEW r \in Row
        PROVE  (holder[r] = q => holder'[r] = q) /\ (q \in sharers'[r] <=> q \in sharers[r])
    BY <1>1, <1>2, <1>3, <1>4 DEF FInv, TypeOK
  <2> QED BY <1>1, <2>1, <2>2 DEF Kept
<1> QED BY <1>4

LEMMA LockRowKeepsRuns ==
    ASSUME FInv, WInv, NEW p \in Proc, LockRow(p)
    PROVE  Runs(p)' /\ NewRow(p)' = NewRow(p)
<1> DEFINE l == Wanted(p)
<1>0. Runs(p)
  BY Running DEF LockRow
<1>1. /\ Busy(p) /\ queue[p] # <<>> /\ l.mode # "done" /\ Blockers(p) = {}
      /\ ~Violates(p, l) /\ l \in Ahead(p) \ {Done}
      /\ l.row \in Row /\ l = Lock(l.mode, l.row)
      /\ UNCHANGED <<committed, call, family, new, program, drawn>>
      /\ queue' = [queue EXCEPT ![p] = Tail(queue[p])]
      /\ sharers' = IF l.mode = "refer" THEN [sharers EXCEPT ![l.row] = @ \cup {p}] ELSE sharers
      /\ holder' = IF l.mode = "insert" \/ Changes(p)
                   THEN [holder EXCEPT ![l.row] = p] ELSE holder
      /\ written' = IF Changes(p)
                    THEN [written EXCEPT ![p][l.row] = Changed(p, l.row)] ELSE written
      /\ Changes(p) => l.row \in Table /\ Current(p) \notin Inserting
      /\ Current(p) \notin Reads \cup {"commit"}
  BY LockedRow
<1>2. Changes(p) => l.mode \in {"update", "delete"} /\ l.mode = Mode(p) /\ Matches(p, l.row)
                    /\ Mode(p) # "none-left"
  BY DEF Changes, Mode
<1>3. /\ queue'[p] = Tail(queue[p])
      /\ DOMAIN written[p] = Table
      /\ \A r \in Row : p \in sharers[r] => p \in sharers'[r]
      /\ \A r \in Row : p \in sharers'[r] => p \in sharers[r] \/ (l.mode = "refer" /\ r = l.row)
      /\ l.mode = "refer" => p \in sharers'[l.row]
      /\ \A r \in Row : holder[r] = p => holder'[r] = p
      /\ l.mode = "insert" \/ Changes(p) => holder'[l.row] = p
  BY <1>1 DEF FInv, Shapes, TypeOK
<1>4. /\ \A r \in Table : ~(Changes(p) /\ r = l.row) => written'[p][r] = written[p][r]
      /\ Changes(p) => written'[p][l.row] = Changed(p, l.row)
  BY <1>1, <1>3 DEF FInv, Shapes, TypeOK
<1>5. /\ Left(p)' = Left(p) /\ Doer(p)' = Doer(p) /\ NewRow(p)' = NewRow(p) /\ Mode(p)' = Mode(p)
      /\ Clearing(p)' = Clearing(p) /\ Current(p)' = Current(p)
  BY <1>1 DEF Left, Doer, NewRow, NewKind, Mode, Clearing, Current
<1>6. /\ Ahead(p)' \subseteq Ahead(p)
      /\ \A x \in Ahead(p) : x # l => x \in Ahead(p)'
      /\ queue'[p] \in Seq(Ahead(p)')
  BY <1>0, <1>1, <1>3, QueueAdvanced DEF Runs
<1>7. \A q \in Proc : (Busy(q)' <=> Busy(q)) /\ NewRow(q)' = NewRow(q)
  BY <1>1 DEF Busy, NewRow, NewKind
<1>8. \A m, r : Lock(m, r).mode = m /\ Lock(m, r).row = r
  BY DEF Lock
<1>9. \A r \in Row : Refers(p, r)' <=> Refers(p, r)
  <2>1. ASSUME NEW r \in Row, Refers(p, r) PROVE Refers(p, r)'
    <3>1. CASE Lock("refer", r) = l
      BY <3>1, <1>3, <1>8 DEF Refers
    <3>2. CASE Lock("refer", r) # l
      BY <2>1, <3>2, <1>3, <1>6 DEF Refers, Lock
    <3> QED BY <3>1, <3>2
  <2>2. ASSUME NEW r \in Row, Refers(p, r)' PROVE Refers(p, r)
    <3>1. p \in sharers'[r] \/ Lock("refer", r) \in Ahead(p)
      BY <2>2, <1>6 DEF Refers, Lock
    <3>2. p \in sharers'[r] => p \in sharers[r] \/ Lock("refer", r) = l
      BY <2>2, <1>1, <1>3
    <3> QED BY <3>1, <3>2, <1>1 DEF Refers
  <2> QED BY <2>1, <2>2
<1>10. /\ \A r \in Table : ~(Changes(p) /\ r = l.row) => Visible(p, r)' = Visible(p, r)
       /\ \A r \in Table : Visible(p, r)' = IF written'[p][r] = Same THEN committed[r] ELSE written'[p][r]
  BY <1>1, <1>4 DEF Visible
<1>11. Changes(p) => /\ Writes(p, l.row, Changed(p, l.row)) /\ Choosing \cap Left(p) = {}
                     /\ Changed(p, l.row) \in Values(l.row) \cup {Absent}
                     /\ Changed(p, l.row) # Same
  <2>1. SUFFICES ASSUME Changes(p)
                 PROVE  /\ Writes(p, l.row, Changed(p, l.row)) /\ Choosing \cap Left(p) = {}
                        /\ Changed(p, l.row) \in Values(l.row) \cup {Absent}
                        /\ Changed(p, l.row) # Same
    OBVIOUS
  <2>2. l.row \in Table /\ Current(p) \notin Inserting /\ Mode(p) # "none-left" /\ Matches(p, l.row)
    BY <2>1, <1>1, <1>2
  <2>3. Writes(p, l.row, Changed(p, l.row))
    BY <2>2, <1>1, ChangesWrite
  <2>4. Choosing \cap Left(p) = {}
    BY <1>0, <1>1, ChosenBefore DEF Runs, Reads, Choosing
  <2> QED BY <2>2, <2>3, <2>4, <1>0, <1>1, WrittenValues DEF Runs
<1>20. OnTrack(p)' /\ Fresh(p)' /\ Chose(p)'
  <2>1. OnTrack(p)'
    BY <1>0, <1>1 DEF Runs, OnTrack, Full, Program, RespondFamilyInvitation
  <2>2. Fresh(p)'
    BY <1>0, <1>1, <1>5, <1>7 DEF Runs, Fresh
  <2>3. Chose(p)'
    BY <1>0, <1>1, <1>5, <1>7 DEF Runs, Chose
  <2> QED BY <2>1, <2>2, <2>3
<1>21. Wrote(p)'
  <2>1. ASSUME NEW r \in Table, written'[p][r] # Same
        PROVE  /\ Choosing \cap Left(p) = {}
               /\ Writes(p, r, written'[p][r])
               /\ r = NewRow(p) \/ holder'[r] = p
    <3>1. CASE Changes(p) /\ r = l.row
      BY <3>1, <1>3, <1>4, <1>11
    <3>2. CASE ~(Changes(p) /\ r = l.row)
      BY <2>1, <3>2, <1>0, <1>3, <1>4, TableRows DEF Runs, Wrote
    <3> QED BY <3>1, <3>2
  <2>2. \A r, v : Writes(p, r, v)' <=> Writes(p, r, v)
    BY <1>1, <1>5 DEF Writes
  <2>3. \A r \in Table : Writes(p, r, written[p][r])' <=> Writes(p, r, written'[p][r])
    BY <1>1, <1>5 DEF Writes
  <2> QED BY <2>1, <2>3, <1>5 DEF Wrote
<1>22. Shares(p)'
  <2>1. ASSUME NEW r \in Row, p \in sharers'[r] PROVE r \in Table /\ IsParent(r) /\ IsThere(p, r)'
    <3>1. r \in Table /\ IsParent(r) /\ IsThere(p, r)
      <4>1. CASE p \in sharers[r]
        BY <4>1, <1>0 DEF Runs, Shares
      <4>2. CASE p \notin sharers[r]
        <5>1. l.mode = "refer" /\ r = l.row
          BY <4>2, <2>1, <1>3
        <5>2. IsThere(p, r)
          BY <5>1, <1>1 DEF Violates
        <5>3. CASE Current(p) \in Inserting
          <6>1. l \in LocksIn(Locks(p))
            BY <5>3, <1>0, <1>1 DEF Runs, Queued
          <6> QED BY <5>1, <5>2, <5>3, <6>1, <1>0, <1>1, InsertRows DEF Runs
        <5>4. CASE Current(p) \notin Inserting
          <6>1. Mode(p) # "refer"
            BY DEF Mode
          <6>2. l.row \in Table /\ l.row[1] = "user"
            BY <5>1, <5>4, <6>1, <1>0, <1>1 DEF Runs, Queued
          <6> QED BY <5>1, <5>2, <6>2 DEF IsParent
        <5> QED BY <5>3, <5>4
      <4> QED BY <4>1, <4>2
    <3>2. CASE ~(Changes(p) /\ r = l.row)
      BY <3>1, <3>2, <1>10 DEF IsThere
    <3>3. CASE Changes(p) /\ r = l.row
      <4>1. Mode(p) = "delete" /\ Matches(p, r) /\ Current(p) \notin Inserting
        BY <3>1, <3>3, <1>1, <1>2, UpdatesNoParent
      <4>2. \/ call[p].call = "dissolve" /\ r[1] # "user"
            \/ call[p].call = "delete" /\ r = UserRow(Doer(p))
        BY <3>1, <4>1, <1>1, DeleteChanges
      <4>3. p \in sharers[r]
        <5>1. l.mode # "refer"
          BY <3>3, <1>2
        <5> QED BY <5>1, <2>1, <1>3
      <4> QED BY <4>2, <4>3, <1>0 DEF Runs, DeletesNoParent, Refers
    <3> QED BY <3>1, <3>2, <3>3
  <2> QED BY <2>1 DEF Shares
<1>23. DeletesNoParent(p)'
  BY <1>0, <1>1, <1>5, <1>9 DEF Runs, DeletesNoParent
<1>24. Covered(p)'
  <2>1. ASSUME NEW r \in Table, written'[p][r] \notin {Same, Absent},
               NEW parent \in Parents(r, written'[p][r])
        PROVE  \/ committed[r] # Absent /\ parent \in Parents(r, committed[r])
               \/ Refers(p, parent)'
    <3>1. CASE ~(Changes(p) /\ r = l.row)
      <4>1. written'[p][r] = written[p][r]
        BY <3>1, <1>4
      <4>2. \/ committed[r] # Absent /\ parent \in Parents(r, committed[r])
            \/ Refers(p, parent)
        BY <2>1, <4>1, <1>0 DEF Runs, Covered
      <4>3. written[p][r] \in Values(r)
        <5>1. Choosing \cap Left(p) = {} /\ Writes(p, r, written[p][r])
          BY <2>1, <4>1, <1>0 DEF Runs, Wrote
        <5> QED BY <5>1, <2>1, <4>1, <1>0, <1>1, WrittenValues DEF Runs
      <4>4. parent \in Row
        BY <2>1, <4>1, <4>3, ParentRows, TableRows
      <4> QED BY <4>2, <4>4, <1>9
    <3>2. CASE Changes(p) /\ r = l.row /\ Current(p) = "answer"
      <4>1. /\ r[1] = "invitation" /\ committed[r] # Absent /\ committed[r] \in Invite
            /\ written'[p][r] = [committed[r] EXCEPT !.status =
                                  IF call[p].accept THEN "accepted" ELSE "declined"]
        BY <3>2, <1>1, <1>2, <1>4, AnswerChanges
      <4>2. Parents(r, written'[p][r]) = Parents(r, committed[r])
        <5> DEFINE v == written'[p][r]  old == committed[r]
        <5>1. v.family = old.family /\ v.invited = old.invited /\ v.by = old.by
          BY <4>1 DEF Invite
        <5> HIDE DEF v, old
        <5>2. Parents(r, v) = Parents(r, old)
          BY <4>1, <5>1 DEF Parents
        <5> QED BY <5>2 DEF v, old
      <4> QED BY <2>1, <4>1, <4>2
    <3>3. CASE Changes(p) /\ r = l.row /\ Current(p) = "reassign-schedules"
      <4> DEFINE v == Changed(p, r)  old == committed[r]
      <4>1. /\ r[1] = "schedule" /\ IsThere(p, r) /\ old # Absent
            /\ v.family = old.family /\ v.by = Creator(p, Visible(p, r).family) /\ v \in Entry
            /\ written'[p][r] = v
        BY <3>3, <1>1, <1>2, <1>4, ReassignChanges
      <4>2. Refers(p, UserRow(Creator(p, Visible(p, r).family)))
        <5>1. l = Lock("update", r)
          BY <3>3, <1>1, <1>2 DEF Mode
        <5> QED BY <4>1, <5>1, <1>0, <1>1 DEF Runs, Reassigns
      <4>3. v.by \in User
        BY <4>1 DEF Entry
      <4> HIDE DEF v
      <4>4. parent \in Parents(r, old) \/ parent = UserRow(v.by)
        BY <2>1, <4>1 DEF Parents
      <4> QED BY <4>1, <4>2, <4>3, <4>4, <1>9, UserRows, TableRows
    <3>4. CASE Changes(p) /\ r = l.row /\ Current(p) \notin {"answer", "reassign-schedules"}
      <4>1. Changed(p, r) = Absent
        BY <3>4 DEF Changed
      <4> QED BY <2>1, <3>4, <4>1, <1>4
    <3> QED BY <3>1, <3>2, <3>3, <3>4
  <2>2. \A r \in Table : /\ Parents(r, written[p][r])' = Parents(r, written'[p][r])
                         /\ Parents(r, committed[r])' = Parents(r, committed[r])
    BY <1>1 DEF Parents, UserRow, FamilyRow, CategoryRow, AccountRow
  <2> QED BY <2>1, <2>2, <1>1 DEF Covered
<1>25. Inserted(p)'
  <2>1. CASE call[p].call = "create"
    <3>1. Current(p) \in {"add-family", "add-owner"}
      BY <2>1, <1>0, <1>1, CreateOrder DEF Runs, Reads
    <3>2. ~Changes(p)
      BY <3>1, <1>1 DEF Inserting
    <3>3. written' = written
      BY <3>2, <1>1
    <3> QED BY <3>3, <1>0, <1>1, <1>5 DEF Runs, Inserted
  <2> QED BY <2>1, <1>1 DEF Inserted
<1>26. ASSUME Current(p) \in Inserting PROVE LocksIn(Locks(p))' = LocksIn(Locks(p))
  <2>1. Locks(p)' = Locks(p)
    BY <1>26, <1>1, <1>5 DEF Locks, MemberLocks, Inserting
  <2> QED BY <2>1 DEF LocksIn
<1>27. Queued(p)'
  <2>1. Done \in Ahead(p)
    BY <1>0, <1>1 DEF Runs, Queued
  <2>2. Done \in Ahead(p)'
    BY <2>1, <1>1, <1>6
  <2>3. CASE Current(p) \in Inserting
    BY <2>2, <2>3, <1>0, <1>1, <1>5, <1>6, <1>26 DEF Runs, Queued, Done, Lock
  <2>4. CASE Current(p) \notin Inserting
    BY <2>2, <2>4, <1>0, <1>1, <1>5, <1>6 DEF Runs, Queued, Done, Lock
  <2> QED BY <2>3, <2>4
<1>28. Acquired(p)'
  <2>1. ASSUME Current(p) \in Inserting, NEW x \in LocksIn(Locks(p))
        PROVE  \/ x \in Ahead(p)'
               \/ x.mode = "refer" /\ p \in sharers'[x.row]
               \/ x.mode = "insert" /\ (x.row \in Table => holder'[x.row] = p /\ committed[x.row] = Absent)
    <3>1. x.row \in Row /\ x.mode \in {"insert", "refer"}
          /\ (x.mode = "insert" /\ x.row \in Table => x.row = MemberRow(Doer(p)))
      BY <2>1, <1>0, <1>1, InsertRows DEF Runs
    <3>2. CASE x = l
      <4>1. CASE x.mode = "refer"
        BY <3>2, <4>1, <1>3
      <4>2. CASE x.mode = "insert" /\ x.row \in Table
        <5>1. x.row = MemberRow(Doer(p)) /\ x.row[1] = "member"
          BY <3>1, <4>2 DEF MemberRow
        <5>2. ~IsThere(p, x.row)
          BY <3>2, <4>2, <5>1, <1>1 DEF Violates, KeyTaken
        <5>3. written[p][x.row] # Absent
          <6>1. SUFFICES ASSUME written[p][x.row] = Absent PROVE FALSE
            OBVIOUS
          <6>2. Writes(p, x.row, written[p][x.row])
            BY <6>1, <4>2, <1>0, FamiliesAssumption DEF Runs, Wrote
          <6>3. call[p].call \in {"create", "answer", "invite", "schedule", "journal"}
            BY <2>1, <1>0, <1>1, CallOf DEF Runs, Inserting
          <6>4. written[p][x.row] # Absent
            <7>1. Choosing \cap Left(p) = {}
              BY <1>0, <1>1, ChosenBefore DEF Runs, Reads, Choosing
            <7>2. family[p] \in Family /\ Doer(p) \in User
              BY <2>1, <1>0, <1>1, InsertingFamily DEF Runs
            <7>3. Absent \notin Membership
              BY <4>2, <5>1, KindValues
            <7>4. NewRow(p) # x.row
              BY <5>1 DEF NewRow, NewKind
            <7>5. /\ [family |-> family[p], role |-> "owner"] \in Membership
                  /\ [family |-> family[p], role |-> "member"] \in Membership
              BY <7>2 DEF Membership
            <7>6. x.row # FamilyRow(family[p])
                  /\ (call[p].call = "answer" => x.row # InvitationRow(call[p].invitation))
              BY <5>1 DEF FamilyRow, InvitationRow
            <7> QED BY <5>1, <6>2, <6>3, <7>3, <7>4, <7>5, <7>6 DEF Writes
          <6> QED BY <6>1, <6>4
        <5>4. committed[x.row] = Absent
          BY <5>2, <5>3 DEF IsThere, Visible
        <5> QED BY <3>2, <4>2, <5>4, <1>3
      <4>3. CASE x.mode = "insert" /\ x.row \notin Table
        BY <4>3
      <4> QED BY <3>1, <4>1, <4>2, <4>3
    <3>3. CASE x # l
      <4>1. \/ x \in Ahead(p)
            \/ x.mode = "refer" /\ p \in sharers[x.row]
            \/ x.mode = "insert" /\ (x.row \in Table => holder[x.row] = p /\ committed[x.row] = Absent)
        BY <2>1, <1>0, <1>1 DEF Runs, Acquired
      <4> QED BY <3>1, <3>3, <4>1, <1>3, <1>6
    <3> QED BY <3>2, <3>3
  <2> QED BY <2>1, <1>1, <1>5, <1>26 DEF Acquired
<1>29. Reassigns(p)'
  <2>1. ASSUME NEW r \in Table, r[1] = "schedule", Lock("update", r) \in Ahead(p)'
        PROVE  /\ r[2] \in drawn
               /\ \A q \in Proc : Busy(q) => r # NewRow(q)
               /\ IsThere(p, r)' => Refers(p, UserRow(Creator(p, Visible(p, r).family)))'
    <3>1. Lock("update", r) \in Ahead(p)
      BY <2>1, <1>6
    <3>2. /\ r[2] \in drawn
          /\ \A q \in Proc : Busy(q) => r # NewRow(q)
          /\ IsThere(p, r) => Refers(p, UserRow(Creator(p, Visible(p, r).family)))
      BY <2>1, <3>1, <1>0 DEF Runs, Reassigns
    <3>3. Mode(p) = "update" /\ call[p].call \in {"leave", "delete", "answer"}
      BY <3>1, <1>0, <1>1, UpdatingCall DEF Runs
    <3>4. Current(p) \in {"answer", "reassign-schedules"}
      BY <3>3 DEF Mode
    <3>5. IsThere(p, r)' => IsThere(p, r) /\ Visible(p, r)'.family = Visible(p, r).family
      <4>1. CASE ~(Changes(p) /\ r = l.row)
        BY <2>1, <4>1, <1>10 DEF IsThere
      <4>2. CASE Changes(p) /\ r = l.row
        <5>1. Current(p) = "reassign-schedules"
          BY <2>1, <3>4, <4>2, <1>1, <1>2, AnswerChanges
        <5>2. Changed(p, r).family = Visible(p, r).family /\ IsThere(p, r)
          BY <4>2, <5>1, <1>1, <1>2, ReassignChanges
        <5>3. Visible(p, r)' = Changed(p, r)
          BY <2>1, <4>2, <1>4, <1>10, <1>11
        <5> QED BY <5>2, <5>3
      <4> QED BY <4>1, <4>2
    <3>6. ASSUME IsThere(p, r)
          PROVE  /\ UserRow(Creator(p, Visible(p, r).family)) \in Row
                 /\ FamilyRow(Visible(p, r).family) \in Table
                 /\ FamilyRow(Visible(p, r).family)[1] = "family"
      <4>1. Creator(p, Visible(p, r).family) \in User /\ Visible(p, r).family \in Family
        BY <2>1, <3>3, <3>6, <1>1, CreatorIsUser
      <4> QED BY <4>1, UserRows, TableRows, FamilyRows
    <3>7. Changes(p) => l.row[1] # "family"
      <4>1. Changes(p) /\ Current(p) = "answer" => l.row[1] = "invitation"
        BY <1>1, <1>2, AnswerChanges
      <4>2. Changes(p) /\ Current(p) = "reassign-schedules" => l.row[1] = "schedule"
        BY <1>1, <1>2, ReassignChanges
      <4> QED BY <3>4, <4>1, <4>2
    <3>8. ASSUME IsThere(p, r)'
          PROVE  Creator(p, Visible(p, r).family)' = Creator(p, Visible(p, r).family)
      <4> DEFINE f == Visible(p, r).family
      <4>1. IsThere(p, r) /\ f' = f
        BY <3>5, <3>8
      <4>2. FamilyRow(f) \in Table /\ ~(Changes(p) /\ FamilyRow(f) = l.row)
        BY <3>6, <3>7, <4>1
      <4> HIDE DEF f
      <4>3. FamilyRow(f)' = FamilyRow(f)
        BY <4>1 DEF FamilyRow
      <4>4. \A x \in Table : ~(Changes(p) /\ x = l.row) => Visible(p, x)' = Visible(p, x)
        BY <1>10
      <4>5. Creator(p, f)' = Creator(p, f)
        BY <4>1, <4>2, <4>3, <4>4 DEF Creator
      <4> QED BY <4>5 DEF f
    <3>9. ASSUME IsThere(p, r)' PROVE Refers(p, UserRow(Creator(p, Visible(p, r).family)))'
      <4> DEFINE a == UserRow(Creator(p, Visible(p, r).family))
      <4>1. Refers(p, a) /\ a \in Row
        BY <3>2, <3>5, <3>6, <3>9
      <4>2. a' = a
        BY <3>8, <3>9 DEF UserRow
      <4> HIDE DEF a
      <4>3. Refers(p, a)'
        BY <4>1, <4>2, <1>9 DEF Refers, Lock
      <4> QED BY <4>3 DEF a
    <3> QED BY <3>2, <3>9
  <2> QED BY <2>1, <1>1, <1>5, <1>7 DEF Reassigns, Lock
<1>30. Cleared(p)'
  <2>1. ASSUME NEW s \in Clearing(p), NEW r \in Table, Target(p, s, r)'
        PROVE  Target(p, s, r) /\ ~(Changes(p) /\ r = l.row)
    <3>1. ~(Changes(p) /\ r = l.row)
      <4>1. SUFFICES ASSUME Changes(p), r = l.row PROVE FALSE
        OBVIOUS
      <4>2. IsThere(p, r)'
        BY <2>1 DEF Target
      <4>3. Visible(p, r)' = Changed(p, r) /\ Changed(p, r) # Absent
        BY <4>1, <4>2, <1>4, <1>10, <1>11 DEF IsThere
      <4>4. call[p].call \in {"dissolve", "delete"}
        BY <2>1 DEF Clearing
      <4>5. Current(p) \in {"answer", "reassign-schedules"}
        BY <4>3 DEF Changed
      <4>6. Current(p) = "reassign-schedules" /\ call[p].call = "delete"
        BY <4>4, <4>5, <1>0, <1>1, CallOf DEF Runs
      <4>7. r[1] = "schedule" /\ Changed(p, r).by # Doer(p)
        BY <4>1, <4>6, <1>1, <1>2, ReassignChanges
      <4>8. s \in {"delete-user", "rows-left", "cascade-user"}
        BY <4>6, <2>1 DEF Clearing
      <4>9. Parents(r, Visible(p, r))' = {CategoryRow(Changed(p, r).family),
                   FamilyRow(Changed(p, r).family), UserRow(Changed(p, r).by)}
        <5> DEFINE v == Visible(p, r)
        <5>1. v' = Changed(p, r)
          BY <4>3
        <5> HIDE DEF v
        <5>2. Parents(r, v)' = {CategoryRow(v'.family), FamilyRow(v'.family), UserRow(v'.by)}
          BY <4>7 DEF Parents, CategoryRow, FamilyRow, UserRow
        <5> QED BY <5>1, <5>2 DEF v
      <4>10. Swept(p, s)' = UserRow(Doer(p))
        BY <4>8, <1>5 DEF Swept, UserRow
      <4>11. UserRow(Doer(p)) \notin {CategoryRow(Changed(p, r).family),
                   FamilyRow(Changed(p, r).family), UserRow(Changed(p, r).by)}
        BY <4>7 DEF UserRow, CategoryRow, FamilyRow
      <4>12. r # UserRow(Doer(p))
        BY <4>7 DEF UserRow
      <4>13. s = "rows-left" => FALSE
        BY <2>1, <4>9, <4>10, <4>11 DEF Target, Sweeping
      <4>14. s = "cascade-user" => FALSE
        BY <2>1, <4>7 DEF Target, Sweeping, SweptKinds
      <4>15. s = "delete-user" => FALSE
        BY <2>1, <4>10, <4>12 DEF Target, Sweeping
      <4> QED BY <4>8, <4>13, <4>14, <4>15
    <3>2. Visible(p, r)' = Visible(p, r)
      BY <3>1, <1>10
    <3>3. Swept(p, s)' = Swept(p, s)
      BY <1>1, <1>5 DEF Swept, CategoryRow, AccountRow, FamilyRow, UserRow
    <3>4. Parents(r, Visible(p, r))' = Parents(r, Visible(p, r))
      BY <3>2 DEF Parents, UserRow, FamilyRow, CategoryRow, AccountRow
    <3> QED BY <2>1, <3>1, <3>2, <3>3, <3>4 DEF Target, IsThere
  <2>2. ASSUME NEW s \in Clearing(p), s \notin Left(p) PROVE Clear(p, s)'
    <3>1. Clear(p, s)
      BY <2>2, <1>0 DEF Runs, Cleared
    <3> QED BY <2>2, <3>1, <2>1 DEF Clear
  <2>3. ASSUME NEW s \in Clearing(p), Current(p) = s, NEW r \in Table, Target(p, s, r)'
        PROVE  Lock(Mode(p), r) \in Ahead(p)'
    <3>1. Target(p, s, r) /\ ~(Changes(p) /\ r = l.row)
      BY <2>3, <2>1
    <3>2. Matches(p, r)
      BY <2>3, <3>1, <1>1, TargetMatches
    <3>3. Lock(Mode(p), r) \in Ahead(p)
      BY <2>3, <3>1, <1>0, <1>1 DEF Runs, Cleared
    <3>4. Lock(Mode(p), r) # l
      <4>1. SUFFICES ASSUME Lock(Mode(p), r) = l PROVE FALSE
        OBVIOUS
      <4>2. l.mode = Mode(p) /\ l.row = r
        BY <4>1, <1>8
      <4>3. CASE Mode(p) = "none-left"
        BY <3>2, <4>2, <4>3, <1>1 DEF Violates
      <4>4. CASE Mode(p) # "none-left"
        BY <3>1, <3>2, <4>2, <4>4 DEF Changes
      <4> QED BY <4>3, <4>4
    <3> QED BY <3>3, <3>4, <1>6
  <2> QED BY <2>2, <2>3, <1>5 DEF Cleared, Lock
<1> QED BY <1>5, <1>20, <1>21, <1>22, <1>23, <1>24, <1>25, <1>27, <1>28, <1>29, <1>30 DEF Runs

LEMMA LockRowKeepsWInv ==
    ASSUME FInv, WInv, NEW p \in Proc, LockRow(p) PROVE WInv'
<1>1. UNCHANGED <<committed, family, new, program, drawn>> /\ Busy(p)
  BY LockedRow
<1>2. \A q \in Proc \ {p} : Kept(q)
  BY LockRowKept
<1>3. Runs(p)' /\ NewRow(p)' = NewRow(p)
  BY LockRowKeepsRuns
<1>4. Domains' /\ Drew(p)
  BY <1>1, <1>3 DEF WInv, Domains, Drew
<1> QED BY <1>1, <1>2, <1>3, <1>4, StepTogether

(***************************************************************************)
(* A statement ends: what it inserts is there.                              *)
(***************************************************************************)
AddsRow(p, r, v) ==
    /\ Added(p) = [x \in {r} |-> v]
    /\ r \in Table /\ v \in Values(r)
    /\ r = NewRow(p) \/ Lock("insert", r) \in LocksIn(Locks(p))
    /\ \A parent \in Parents(r, v) : Lock("refer", parent) \in LocksIn(Locks(p))
    /\ committed[r] = Absent => Writes(p, r, v)
    /\ Current(p) = "add-family" => r = FamilyRow(family[p]) /\ v = Doer(p)
    /\ Current(p) = "add-owner" => /\ r = MemberRow(Doer(p))
                                   /\ v = [family |-> family[p], role |-> "owner"]

LEMMA AddedRow ==
    ASSUME FInv, WInv, NEW p \in Proc, Busy(p), Current(p) \in Inserting
    PROVE  \E r, v : AddsRow(p, r, v)
<1> DEFINE u == Doer(p)  f == family[p]
<1>0. Runs(p)
  BY Running
<1>1. f \in Family /\ u \in User /\ (Current(p) = "add-invitation" => call[p].invited \in User)
  BY <1>0, InsertingFamily DEF Runs
<1>2. CASE Current(p) = "add-family"
  <2>1. call[p].call = "create" /\ NewRow(p) = FamilyRow(f) /\ f = new[p]
    BY <1>0, <1>2, CallOf, NewRows DEF Runs, Fresh, NewKind
  <2>2. Added(p) = [x \in {FamilyRow(f)} |-> u]
    BY <1>2 DEF Added
  <2>3. FamilyRow(f) \in Table /\ FamilyRow(f)[1] = "family"
    BY <1>1, FamilyRows
  <2>4. u \in Values(FamilyRow(f))
    BY <1>1, <2>3, KindValues
  <2>5. Parents(FamilyRow(f), u) = {UserRow(u)} /\ Lock("refer", UserRow(u)) \in LocksIn(Locks(p))
    BY <1>2, <2>3, InsertLocks DEF Parents, Inserting
  <2>6. committed[FamilyRow(f)] = Absent => Writes(p, FamilyRow(f), u)
    BY <2>1 DEF Writes
  <2>7. AddsRow(p, FamilyRow(f), u)
    BY <1>2, <2>1, <2>2, <2>3, <2>4, <2>5, <2>6 DEF AddsRow
  <2> QED BY <2>7
<1>3. CASE Current(p) \in {"add-owner", "add-member"}
  <2> DEFINE v == [family |-> f, role |-> IF Current(p) = "add-owner" THEN "owner" ELSE "member"]
             r == MemberRow(u)
  <2>1. Added(p) = [x \in {r} |-> v]
    BY <1>3 DEF Added
  <2>2. r \in Table /\ r[1] = "member" /\ r[2] = u
    BY <1>1, UserRows
  <2>3. v \in Membership /\ v.family = f
    BY <1>1 DEF Membership
  <2>4. v \in Values(r)
    <3>1. Values(r) = Membership
      BY <2>2, KindValues
    <3> QED BY <2>3, <3>1
  <2>5. LocksIn(Locks(p)) = {Lock("insert", r), Lock("refer", FamilyRow(f)), Lock("refer", UserRow(u))}
    BY <1>3, InsertLocks DEF Inserting
  <2>6. Parents(r, v) = {UserRow(u), FamilyRow(f)}
    BY <2>2, <2>3 DEF Parents
  <2>7. committed[r] = Absent => Writes(p, r, v)
    <3>1. /\ Current(p) = "add-owner" => call[p].call = "create"
          /\ Current(p) = "add-member" => call[p].call = "answer"
      BY <1>0, CallOf DEF Runs
    <3> QED BY <3>1, <1>3 DEF Writes
  <2>8. AddsRow(p, r, v)
    BY <1>3, <2>1, <2>2, <2>4, <2>5, <2>6, <2>7 DEF AddsRow
  <2> QED BY <2>8
<1>4. CASE Current(p) = "add-invitation"
  <2> DEFINE v == [family |-> f, invited |-> call[p].invited, by |-> u, status |-> "pending"]
             r == InvitationRow(new[p])
  <2>0. call[p].call = "invite" /\ r = NewRow(p) /\ new[p] \in Invitation
    BY <1>0, <1>4, CallOf, NewRows DEF Runs, Fresh, NewKind, NewIds
  <2>1. Added(p) = [x \in {r} |-> v]
    BY <1>4 DEF Added
  <2>2. r \in Table /\ r[1] = "invitation"
    BY <2>0, InvitationRows
  <2>3. v \in Invite /\ v.family = f /\ v.invited = call[p].invited /\ v.by = u
    BY <1>1, <1>4 DEF Invite
  <2>4. v \in Values(r)
    <3>1. Values(r) = Invite
      BY <2>2, KindValues
    <3> QED BY <2>3, <3>1
  <2>5. {Lock("refer", FamilyRow(f)), Lock("refer", UserRow(call[p].invited)),
         Lock("refer", UserRow(u))} \subseteq LocksIn(Locks(p))
    BY <1>4, InsertLocks DEF Inserting
  <2>6. Parents(r, v) = {FamilyRow(f), UserRow(call[p].invited), UserRow(u)}
    BY <2>2, <2>3 DEF Parents
  <2>7. Writes(p, r, v)
    BY <2>0 DEF Writes
  <2>8. AddsRow(p, r, v)
    BY <1>4, <2>0, <2>1, <2>2, <2>4, <2>5, <2>6, <2>7 DEF AddsRow
  <2> QED BY <2>8
<1>5. CASE Current(p) = "add-schedule"
  <2> DEFINE v == [family |-> f, by |-> u]  r == ScheduleRow(new[p])
  <2>0. call[p].call = "schedule" /\ r = NewRow(p) /\ new[p] \in Schedule
    BY <1>0, <1>5, CallOf, NewRows DEF Runs, Fresh, NewKind, NewIds
  <2>1. Added(p) = [x \in {r} |-> v]
    BY <1>5 DEF Added
  <2>2. r \in Table /\ r[1] = "schedule"
    BY <2>0, ScheduleRows
  <2>3. v \in Entry /\ v.family = f /\ v.by = u
    BY <1>1 DEF Entry
  <2>4. v \in Values(r)
    <3>1. Values(r) = Entry
      BY <2>2, KindValues
    <3> QED BY <2>3, <3>1
  <2>5. {Lock("refer", CategoryRow(f)), Lock("refer", FamilyRow(f)),
         Lock("refer", UserRow(u))} \subseteq LocksIn(Locks(p))
    BY <1>5, InsertLocks DEF Inserting
  <2>6. Parents(r, v) = {CategoryRow(f), FamilyRow(f), UserRow(u)}
    BY <2>2, <2>3 DEF Parents
  <2>7. Writes(p, r, v)
    BY <2>0 DEF Writes
  <2>8. AddsRow(p, r, v)
    BY <1>5, <2>0, <2>1, <2>2, <2>4, <2>5, <2>6, <2>7 DEF AddsRow
  <2> QED BY <2>8
<1>6. CASE Current(p) = "add-source"
  <2> DEFINE v == [family |-> f, by |-> u]  r == SourceRow(new[p])
  <2>0. call[p].call = "journal" /\ r = NewRow(p) /\ new[p] \in Source
    BY <1>0, <1>6, CallOf, NewRows DEF Runs, Fresh, NewKind, NewIds
  <2>1. Added(p) = [x \in {r} |-> v]
    BY <1>6 DEF Added
  <2>2. r \in Table /\ r[1] = "source"
    BY <2>0, SourceRows
  <2>3. v \in Entry /\ v.family = f /\ v.by = u
    BY <1>1 DEF Entry
  <2>4. v \in Values(r)
    <3>1. Values(r) = Entry
      BY <2>2, KindValues
    <3> QED BY <2>3, <3>1
  <2>5. {Lock("refer", AccountRow(f)), Lock("refer", UserRow(u))} \subseteq LocksIn(Locks(p))
    BY <1>6, InsertLocks DEF Inserting
  <2>6. Parents(r, v) = {AccountRow(f), UserRow(u)}
    BY <2>2, <2>3 DEF Parents
  <2>7. Writes(p, r, v)
    BY <2>0 DEF Writes
  <2>8. AddsRow(p, r, v)
    BY <1>6, <2>0, <2>1, <2>2, <2>4, <2>5, <2>6, <2>7 DEF AddsRow
  <2> QED BY <2>8
<1> QED BY <1>2, <1>3, <1>4, <1>5, <1>6 DEF Inserting

LEMMA AddsNothing ==
    ASSUME NEW p \in Proc, Current(p) \notin Inserting
    PROVE  DOMAIN Added(p) = {}
<1>1. Added(p) = [r \in {} |-> Absent]
  BY DEF Added, Inserting
<1> QED BY <1>1

LEMMA EndStatementKeepsRuns ==
    ASSUME FInv, WInv, NEW p \in Proc, EndStatement(p)
    PROVE  Runs(p)' /\ NewRow(p)' = NewRow(p)
<1>1. /\ Busy(p) /\ queue[p] = <<Done>> /\ queue[p] # <<>>
      /\ queue' = [queue EXCEPT ![p] = <<>>] /\ program' = [program EXCEPT ![p] = Tail(program[p])]
      /\ written' = [written EXCEPT ![p] = [r \in Table |->
                        IF r \in DOMAIN Added(p) THEN Added(p)[r] ELSE written[p][r]]]
      /\ UNCHANGED <<committed, holder, sharers, call, family, new, drawn>>
  <2>1. <<Done>> # <<>>
    OBVIOUS
  <2> QED BY <2>1 DEF EndStatement, Advance, connection, history
<1>2. /\ queue'[p] = <<>> /\ program'[p] = Tail(program[p])
      /\ \A r \in Table : written'[p][r] = IF r \in DOMAIN Added(p) THEN Added(p)[r]
                                           ELSE written[p][r]
  BY <1>1 DEF FInv, Shapes
<1>0. Runs(p)
  BY <1>1, Running
<1>3. Current(p) \notin Reads \cup {"commit"} /\ Choosing \cap Left(p) = {}
  <2>1. Current(p) \notin Reads \cup {"commit"}
    BY <1>1 DEF FInv, Connected
  <2> QED BY <2>1, <1>0, <1>1, ChosenBefore DEF Runs, Reads, Choosing
<1>4. /\ OnTrack(p)' /\ Left(p)' \subseteq Left(p)
      /\ \A s \in Left(p) : s # Current(p) => s \in Left(p)'
  BY <1>0, <1>1, <1>2, <1>3, Advanced DEF Runs
<1>5. Ahead(p) = {Done} /\ Ahead(p)' = {}
  <2>1. Len(<<Done>>) = 1 /\ <<Done>>[1] = Done /\ 1..1 = {1} /\ 1..Len(<<>>) = {}
    OBVIOUS
  <2> QED BY <2>1, <1>1, <1>2 DEF Ahead
<1>6. /\ Doer(p)' = Doer(p) /\ NewRow(p)' = NewRow(p) /\ Clearing(p)' = Clearing(p)
  BY <1>1 DEF Doer, NewRow, NewKind, Clearing
<1>7. \A q \in Proc : Busy(q)' => Busy(q) /\ NewRow(q)' = NewRow(q)
  <2>1. \A q \in Proc \ {p} : program'[q] = program[q]
    BY <1>1 DEF FInv, Shapes
  <2> QED BY <2>1, <1>1, <1>6 DEF Busy, NewRow, NewKind
<1>8. \A m, r : Lock(m, r).mode = m /\ Lock(m, r).row = r /\ (m # "done" => Lock(m, r) # Done)
  BY DEF Lock, Done
<1>9. ASSUME Current(p) \in Inserting
      PROVE  /\ \A r : Lock("refer", r) \in LocksIn(Locks(p)) => p \in sharers[r]
             /\ \A r \in Table : Lock("insert", r) \in LocksIn(Locks(p))
                                  => holder[r] = p /\ committed[r] = Absent
  <2>1. \A l \in LocksIn(Locks(p)) :
            \/ l \in Ahead(p)
            \/ l.mode = "refer" /\ p \in sharers[l.row]
            \/ l.mode = "insert" /\ (l.row \in Table => holder[l.row] = p /\ committed[l.row] = Absent)
    BY <1>0, <1>1, <1>9 DEF Runs, Acquired
  <2> QED BY <2>1, <1>5, <1>8
<1>10. \A r : Refers(p, r)' <=> p \in sharers[r]
  BY <1>1, <1>5 DEF Refers, Lock
<1>11. \A r : Refers(p, r) <=> p \in sharers[r]
  BY <1>5, <1>8 DEF Refers
<1>12. ASSUME Current(p) \in Inserting, NEW r, NEW v, AddsRow(p, r, v)
       PROVE  /\ written'[p][r] = v /\ DOMAIN Added(p) = {r} /\ r \in Table /\ v \notin {Same, Absent}
              /\ Writes(p, r, v) /\ (r = NewRow(p) \/ holder[r] = p)
              /\ \A parent \in Parents(r, v) : p \in sharers[parent]
  <2>1. Added(p) = [x \in {r} |-> v] /\ r \in Table /\ v \in Values(r)
    BY <1>12 DEF AddsRow
  <2>2. v \notin {Same, Absent}
    BY <2>1, KindValues
  <2>3. written'[p][r] = v /\ DOMAIN Added(p) = {r}
    BY <2>1, <1>2
  <2>4. r = NewRow(p) \/ holder[r] = p
    BY <1>9, <1>12 DEF AddsRow
  <2>5. committed[r] = Absent
    <3>1. CASE Lock("insert", r) \in LocksIn(Locks(p))
      BY <3>1, <2>1, <1>9, <1>12
    <3>2. CASE r = NewRow(p)
      <4>1. NewKind(call[p]) # "none"
        BY <2>1, <3>2, RowKinds DEF NewRow
      <4> QED BY <4>1, <3>2, <1>0 DEF Runs, Fresh
    <3> QED BY <3>1, <3>2, <1>12 DEF AddsRow
  <2>6. Writes(p, r, v) /\ \A parent \in Parents(r, v) : p \in sharers[parent]
    BY <2>5, <1>9, <1>12 DEF AddsRow
  <2> QED BY <2>1, <2>2, <2>3, <2>4, <2>6
<1>13. Current(p) \notin Inserting => \A r \in Table : written'[p][r] = written[p][r]
  BY <1>2, AddsNothing
<1>20. Fresh(p)' /\ Chose(p)'
  <2>1. Fresh(p)'
    <3>1. Fresh(p)
      BY <1>0 DEF Runs
    <3> QED BY <3>1, <1>1, <1>6, <1>7 DEF Fresh
  <2>2. Chose(p)'
    <3>1. Chose(p)
      BY <1>0 DEF Runs
    <3> QED BY <3>1, <1>1, <1>3, <1>6, <1>7 DEF Chose
  <2> QED BY <2>1, <2>2
<1>21. Wrote(p)'
  <2>1. ASSUME NEW r \in Table, written'[p][r] # Same
        PROVE  /\ Choosing \cap Left(p)' = {}
               /\ Writes(p, r, written'[p][r])
               /\ r = NewRow(p) \/ holder[r] = p
    <3>1. CASE written'[p][r] = written[p][r]
      BY <2>1, <3>1, <1>0, <1>3, <1>4 DEF Runs, Wrote
    <3>2. CASE written'[p][r] # written[p][r]
      <4>1. Current(p) \in Inserting /\ r \in DOMAIN Added(p)
        BY <2>1, <3>2, <1>2, <1>13
      <4>2. PICK r0, v : AddsRow(p, r0, v)
        BY <4>1, <1>0, <1>1, AddedRow
      <4>3. /\ written'[p][r0] = v /\ DOMAIN Added(p) = {r0}
            /\ Writes(p, r0, v) /\ (r0 = NewRow(p) \/ holder[r0] = p)
        BY <4>1, <4>2, <1>12
      <4>4. r = r0
        BY <4>1, <4>3
      <4>5. Choosing \cap Left(p)' = {}
        BY <1>3, <1>4
      <4> QED BY <4>3, <4>4, <4>5
    <3> QED BY <3>1, <3>2
  <2>2. \A r \in Table : Writes(p, r, written[p][r])' <=> Writes(p, r, written'[p][r])
    BY <1>1, <1>6 DEF Writes
  <2> QED BY <2>1, <2>2, <1>1, <1>6 DEF Wrote
<1>22. Shares(p)'
  <2>1. ASSUME NEW r \in Row, p \in sharers[r] PROVE r \in Table /\ IsParent(r) /\ IsThere(p, r)'
    <3>1. r \in Table /\ IsParent(r) /\ IsThere(p, r)
      BY <2>1, <1>0 DEF Runs, Shares
    <3>2. r \in DOMAIN Added(p) => Added(p)[r] # Absent
      BY <3>1, <1>1, AddedParents
    <3>3. CASE r \in DOMAIN Added(p)
      <4>1. written'[p][r] # Absent /\ written'[p][r] = Added(p)[r] /\ Current(p) \in Inserting
        BY <3>1, <3>2, <3>3, <1>2, AddsNothing
      <4>2. PICK r0, v : AddsRow(p, r0, v)
        BY <4>1, <1>0, <1>1, AddedRow
      <4>3. written'[p][r0] = v /\ DOMAIN Added(p) = {r0} /\ v # Same
        BY <4>1, <4>2, <1>12
      <4>4. written'[p][r] # Same
        BY <3>3, <4>3
      <4> QED BY <3>1, <4>1, <4>4 DEF IsThere, Visible
    <3>4. CASE r \notin DOMAIN Added(p)
      BY <3>1, <3>4, <1>1, <1>2 DEF IsThere, Visible
    <3> QED BY <3>1, <3>3, <3>4
  <2> QED BY <2>1, <1>1 DEF Shares
<1>23. DeletesNoParent(p)'
  BY <1>0, <1>1, <1>6, <1>10, <1>11 DEF Runs, DeletesNoParent
<1>24. Covered(p)'
  <2>1. ASSUME NEW r \in Table, written'[p][r] \notin {Same, Absent},
               NEW parent \in Parents(r, written'[p][r])
        PROVE  \/ committed[r] # Absent /\ parent \in Parents(r, committed[r])
               \/ Refers(p, parent)'
    <3>1. CASE written'[p][r] = written[p][r]
      BY <2>1, <3>1, <1>0, <1>10, <1>11 DEF Runs, Covered
    <3>2. CASE written'[p][r] # written[p][r]
      <4>1. Current(p) \in Inserting /\ r \in DOMAIN Added(p)
        BY <2>1, <3>2, <1>2, <1>13
      <4>2. PICK r0, v : AddsRow(p, r0, v)
        BY <4>1, <1>0, <1>1, AddedRow
      <4>3. /\ written'[p][r0] = v /\ DOMAIN Added(p) = {r0}
            /\ \A x \in Parents(r0, v) : p \in sharers[x]
        BY <4>1, <4>2, <1>12
      <4>4. r = r0
        BY <4>1, <4>3
      <4> QED BY <2>1, <4>3, <4>4, <1>10
    <3> QED BY <3>1, <3>2
  <2>2. \A r \in Table : /\ Parents(r, written[p][r])' = Parents(r, written'[p][r])
                         /\ Parents(r, committed[r])' = Parents(r, committed[r])
    BY <1>1 DEF Parents, UserRow, FamilyRow, CategoryRow, AccountRow
  <2> QED BY <2>1, <2>2, <1>1 DEF Covered
<1>25. Inserted(p)'
  <2>1. ASSUME call[p].call = "create"
        PROVE  /\ "add-family" \notin Left(p)' => written'[p][FamilyRow(family[p])] = Doer(p)
               /\ "add-owner" \notin Left(p)' =>
                    written'[p][MemberRow(Doer(p))] = [family |-> family[p], role |-> "owner"]
    <3>1. Current(p) \in {"add-family", "add-owner"} /\ Current(p) \in Inserting
      BY <2>1, <1>0, <1>1, <1>3, CreateOrder DEF Runs, Reads, Inserting
    <3>2. PICK r, v : AddsRow(p, r, v)
      BY <3>1, <1>1, AddedRow
    <3>3. written'[p][r] = v /\ DOMAIN Added(p) = {r}
      BY <3>1, <3>2, <1>12
    <3>4. family[p] \in Family /\ Doer(p) \in User
      BY <3>1, <1>0, <1>1, InsertingFamily DEF Runs
    <3>5. FamilyRow(family[p]) \in Table /\ MemberRow(Doer(p)) \in Table
          /\ FamilyRow(family[p]) # MemberRow(Doer(p))
      BY <3>4, FamilyRows, UserRows
    <3>6. /\ "add-family" \notin Left(p) => written[p][FamilyRow(family[p])] = Doer(p)
          /\ "add-owner" \notin Left(p) =>
                written[p][MemberRow(Doer(p))] = [family |-> family[p], role |-> "owner"]
      BY <2>1, <1>0 DEF Runs, Inserted
    <3>7. CASE Current(p) = "add-family"
      <4>1. r = FamilyRow(family[p]) /\ v = Doer(p)
        BY <3>2, <3>7 DEF AddsRow
      <4>2. written'[p][MemberRow(Doer(p))] = written[p][MemberRow(Doer(p))]
        BY <4>1, <3>3, <3>5, <1>2
      <4>3. "add-owner" \notin Left(p)' => "add-owner" \notin Left(p)
        BY <3>7, <1>4
      <4> QED BY <4>1, <4>2, <4>3, <3>3, <3>6
    <3>8. CASE Current(p) = "add-owner"
      <4>1. r = MemberRow(Doer(p)) /\ v = [family |-> family[p], role |-> "owner"]
        BY <3>2, <3>8 DEF AddsRow
      <4>2. written'[p][FamilyRow(family[p])] = written[p][FamilyRow(family[p])]
        BY <4>1, <3>3, <3>5, <1>2
      <4>3. "add-family" \notin Left(p)' => "add-family" \notin Left(p)
        BY <3>8, <1>4
      <4> QED BY <4>1, <4>2, <4>3, <3>3, <3>6
    <3> QED BY <3>1, <3>7, <3>8
  <2>2. \A x : FamilyRow(x)' = FamilyRow(x) /\ MemberRow(x)' = MemberRow(x)
    BY DEF FamilyRow, MemberRow
  <2> QED BY <2>1, <1>1, <1>6 DEF Inserted, FamilyRow, MemberRow
<1>26. Queued(p)' /\ Acquired(p)' /\ Reassigns(p)'
  BY <1>2, <1>5 DEF Queued, Acquired, Reassigns
<1>27. Cleared(p)'
  <2>1. ASSUME NEW s \in Clearing(p), s \notin Left(p)' PROVE Clear(p, s)'
    <3>1. call[p].call \in {"dissolve", "delete"}
      BY <2>1 DEF Clearing
    <3>2. Current(p) \notin Inserting
      BY <3>1, <1>0, <1>1, CallOf DEF Runs, Inserting
    <3>3. Clear(p, s)
      <4>1. CASE s \notin Left(p)
        BY <4>1, <2>1, <1>0 DEF Runs, Cleared
      <4>2. CASE s = Current(p)
        <5>1. \A r \in Table : Target(p, s, r) => Lock(Mode(p), r) \in Ahead(p)
          BY <4>2, <2>1, <1>0, <1>1 DEF Runs, Cleared
        <5>2. Mode(p) # "done"
          BY DEF Mode
        <5> QED BY <5>1, <5>2, <1>5, <1>8 DEF Clear
      <4> QED BY <4>1, <4>2, <2>1, <1>4
    <3>4. \A r \in Table : Visible(p, r)' = Visible(p, r)
      BY <3>2, <1>1, <1>13 DEF Visible
    <3>5. Swept(p, s)' = Swept(p, s)
      BY <1>1, <1>6 DEF Swept, CategoryRow, AccountRow, FamilyRow, UserRow
    <3>6. \A r \in Table : Target(p, s, r)' <=> Target(p, s, r)
      <4>1. \A r \in Table : Parents(r, Visible(p, r))' = Parents(r, Visible(p, r))
        BY <3>4 DEF Parents, UserRow, FamilyRow, CategoryRow, AccountRow
      <4> QED BY <3>4, <3>5, <4>1 DEF Target, IsThere
    <3> QED BY <3>3, <3>6 DEF Clear
  <2> QED BY <2>1, <1>2, <1>6 DEF Cleared
<1> QED BY <1>4, <1>6, <1>20, <1>21, <1>22, <1>23, <1>24, <1>25, <1>26, <1>27 DEF Runs

LEMMA EndStatementKeepsWInv ==
    ASSUME FInv, WInv, NEW p \in Proc, EndStatement(p) PROVE WInv'
<1>1. /\ Busy(p) /\ UNCHANGED <<committed, holder, sharers, call, family, new, drawn>>
      /\ queue' = [queue EXCEPT ![p] = <<>>] /\ program' = [program EXCEPT ![p] = Tail(program[p])]
      /\ written' = [written EXCEPT ![p] = [r \in Table |->
                        IF r \in DOMAIN Added(p) THEN Added(p)[r] ELSE written[p][r]]]
  BY DEF EndStatement, Advance, connection, history
<1>2. \A q \in Proc \ {p} : Kept(q)
  BY <1>1 DEF Kept, FInv, Shapes
<1>3. Runs(p)' /\ NewRow(p)' = NewRow(p)
  BY EndStatementKeepsRuns
<1>4. Domains' /\ Drew(p)
  BY <1>1, <1>3 DEF WInv, Domains, Drew
<1> QED BY <1>1, <1>2, <1>3, <1>4, StepTogether

(***************************************************************************)
(* A call commits.                                                          *)
(***************************************************************************)
LEMMA CommitState ==
    ASSUME FInv, WInv, NEW p \in Proc, CommitTransaction(p)
    PROVE  /\ Busy(p) /\ Runs(p) /\ Current(p) = "commit" /\ EndTransaction(p) /\ drawn' = drawn
           /\ \A r \in Table : committed'[r] = Visible(p, r)
           /\ \A r : Refers(p, r) => p \in sharers[r]
           /\ Choosing \cap Left(p) = {}
           /\ call[p].call \in {"dissolve", "delete", "create", "answer"} => Left(p) = {"commit"}
           /\ Doer(p) \in User /\ (call[p].call # "delete" => family[p] \in Family)
<1>1. /\ Busy(p) /\ Runs(p) /\ Current(p) = "commit" /\ EndTransaction(p) /\ drawn' = drawn
      /\ \A r \in Table : committed'[r] = Visible(p, r)
  BY Running DEF CommitTransaction
<1>2. \A r : Refers(p, r) => p \in sharers[r]
  <2>1. queue[p] = <<>>
    BY <1>1 DEF FInv, Connected
  <2>2. 1..Len(<<>>) = {}
    OBVIOUS
  <2> QED BY <2>1, <2>2 DEF Refers, Ahead
<1>3. Choosing \cap Left(p) = {}
  BY <1>1, ChosenBefore DEF Runs, Choosing
<1>4. call[p].call \in {"dissolve", "delete", "create", "answer"} => Left(p) = {"commit"}
  BY <1>1, DissolveOrder, DeleteOrder, CreateOrder, AnswerOrder DEF Runs
<1>5. Doer(p) \in User /\ (call[p].call # "delete" => family[p] \in Family)
  BY <1>1, <1>3, Calling, ChosenFamily DEF Runs
<1> QED BY <1>1, <1>2, <1>3, <1>4, <1>5

\* what is committed is what was there, or what p wrote
LEMMA CommitWrites ==
    ASSUME FInv, WInv, NEW p \in Proc, CommitTransaction(p), NEW r \in Table
    PROVE  /\ committed'[r] \in Values(r) \cup {Absent}
           /\ written[p][r] = Same => committed'[r] = committed[r]
           /\ written[p][r] # Same =>
                /\ committed'[r] = written[p][r]
                /\ Writes(p, r, committed'[r])
                /\ r = NewRow(p) \/ holder[r] = p
<1>1. Runs(p) /\ committed'[r] = Visible(p, r) /\ Busy(p) /\ Choosing \cap Left(p) = {}
  BY CommitState
<1>2. CASE written[p][r] = Same
  BY <1>1, <1>2 DEF Visible, WInv, TypedRows
<1>3. CASE written[p][r] # Same
  <2>1. committed'[r] = written[p][r]
    BY <1>1, <1>3 DEF Visible
  <2>2. Writes(p, r, written[p][r]) /\ (r = NewRow(p) \/ holder[r] = p)
    BY <1>1, <1>3 DEF Runs, Wrote
  <2>3. written[p][r] \in Values(r) \cup {Absent}
    BY <2>2, <1>1, WrittenValues DEF Runs
  <2> QED BY <1>3, <2>1, <2>2, <2>3
<1> QED BY <1>2, <1>3

\* What a call writes where there is nothing is the row of its id or a membership.
LEMMA WritesNew ==
    ASSUME FInv, WInv, NEW p \in Proc, Busy(p), NEW r \in Table, NEW v,
           Writes(p, r, v), committed[r] = Absent
    PROVE  /\ r = NewRow(p) \/ r = MemberRow(Doer(p))
           /\ r[1] = "member" \/ (r[1] \in Serial /\ r = NewRow(p) /\ r[2] = new[p] /\ new[p] \in drawn)
<1>0. Runs(p)
  BY Running
<1>1. CASE r = MemberRow(Doer(p))
  BY <1>1 DEF MemberRow
<1>2. CASE call[p].call = "create" /\ r = FamilyRow(family[p])
  <2>1. r = NewRow(p)
    BY <1>0, <1>2, NewRows DEF Runs, Fresh, NewKind
  <2>2. r[2] = new[p] /\ new[p] \in drawn
    BY <2>1, <1>0, <1>2 DEF NewRow, NewKind, Runs, Fresh
  <2>3. r[1] \in Serial
    BY <1>2 DEF FamilyRow, Serial
  <2> QED BY <2>1, <2>2, <2>3
<1>3. CASE call[p].call \in {"invite", "schedule", "journal"} /\ r = NewRow(p)
  BY <1>0, <1>3, NewRows DEF Runs, Fresh, NewKind
<1> QED BY <1>1, <1>2, <1>3 DEF Writes

\* a row of a user, family, category or account is only written to be created or deleted
LEMMA WritesParent ==
    ASSUME FInv, WInv, NEW p \in Proc, Busy(p), NEW r \in Table, NEW v, IsParent(r), Writes(p, r, v)
    PROVE  \/ call[p].call = "create" /\ r = FamilyRow(family[p]) /\ v = Doer(p) /\ committed[r] = Absent
              /\ r = NewRow(p)
           \/ /\ v = Absent /\ committed[r] # Absent
              /\ \/ call[p].call = "dissolve"
                    /\ r \in {CategoryRow(family[p]), AccountRow(family[p]), FamilyRow(family[p])}
                 \/ call[p].call = "delete" /\ r = UserRow(Doer(p))
<1>0. Runs(p)
  BY Running
<1>1. r # MemberRow(Doer(p)) /\ r[1] # "schedule" /\ r[1] # "member" /\ r[1] # "invitation"
  BY DEF IsParent, MemberRow
<1>2. call[p].call = "answer" => r # InvitationRow(call[p].invitation)
  BY DEF IsParent, InvitationRow
<1>3. call[p].call \in {"invite", "schedule", "journal"} => r # NewRow(p)
  BY DEF IsParent, NewRow, NewKind
<1>4. call[p].call = "create" => FamilyRow(family[p]) = NewRow(p)
  BY <1>0, NewRows DEF Runs, Fresh, NewKind
<1> QED BY <1>1, <1>2, <1>3, <1>4 DEF Writes

LEMMA FamilyStays ==
    ASSUME FInv, WInv, NEW p \in Proc, CommitTransaction(p), NEW f \in Family,
           committed[FamilyRow(f)] # Absent, committed'[FamilyRow(f)] # Absent
    PROVE  committed'[FamilyRow(f)] = committed[FamilyRow(f)]
<1>1. FamilyRow(f) \in Table /\ IsParent(FamilyRow(f))
  BY FamilyRows DEF IsParent
<1>2. SUFFICES ASSUME written[p][FamilyRow(f)] # Same PROVE FALSE
  BY <1>1, CommitWrites
<1>3. Writes(p, FamilyRow(f), committed'[FamilyRow(f)]) /\ Busy(p)
  BY <1>1, <1>2, CommitWrites, CommitState
<1> QED BY <1>1, <1>3, WritesParent

LEMMA CommitTyped ==
    ASSUME FInv, WInv, NEW p \in Proc, CommitTransaction(p)
    PROVE  TypedRows' /\ DrawnIds'
<1>1. \A r \in Table : committed'[r] \in Values(r) \cup {Absent}
  BY CommitWrites
<1>2. TypedRows'
  BY <1>1 DEF TypedRows
<1>3. ASSUME NEW r \in Table, r[1] \in Serial, committed'[r] # Absent PROVE r[2] \in drawn
  <2>1. CASE committed[r] # Absent
    BY <2>1, <1>3 DEF WInv, DrawnIds
  <2>2. CASE committed[r] = Absent
    <3>1. Writes(p, r, committed'[r]) /\ Busy(p)
      BY <2>2, <1>3, CommitWrites, CommitState
    <3> QED BY <3>1, <2>2, <1>3, WritesNew DEF Serial
  <2> QED BY <2>1, <2>2
<1>4. drawn' = drawn
  BY CommitState
<1>5. DrawnIds'
  BY <1>3, <1>4 DEF DrawnIds
<1> QED BY <1>2, <1>5

\* everything that was to be cleared is
LEMMA CommitCleared ==
    ASSUME FInv, WInv, NEW p \in Proc, CommitTransaction(p), NEW s \in Clearing(p), NEW r \in Table
    PROVE  ~Target(p, s, r)
<1>1. Runs(p) /\ Left(p) = {"commit"}
  BY CommitState DEF Clearing
<1>2. s \notin Left(p)
  BY <1>1 DEF Clearing
<1> QED BY <1>1, <1>2 DEF Runs, Cleared, Clear

LEMMA CommitReferences ==
    ASSUME FInv, WInv, NEW p \in Proc, CommitTransaction(p)
    PROVE  References(committed)'
<1>1. Busy(p) /\ Runs(p) /\ \A r \in Table : committed'[r] = Visible(p, r)
  BY CommitState
<1>2. ASSUME NEW r \in Table, committed'[r] # Absent, NEW parent \in Parents(r, committed'[r]),
             committed'[parent] = Absent
      PROVE  FALSE
  <2>1. committed'[r] \in Values(r)
    BY <1>2, CommitWrites
  <2>2. parent \in Table /\ IsParent(parent) /\ parent \in Row
    BY <1>2, <2>1, ParentRows, TableRows
  <2>3. ~IsThere(p, parent)
    BY <1>1, <1>2, <2>2 DEF IsThere
  <2>4. p \notin sharers[parent]
    BY <2>2, <2>3, <1>1 DEF Runs, Shares
  <2>5. committed[r] # Absent /\ parent \in Parents(r, committed[r])
    <3>1. CASE written[p][r] = Same
      BY <3>1, <1>2, CommitWrites
    <3>2. CASE written[p][r] # Same
      <4>1. committed'[r] = written[p][r]
        BY <3>2, CommitWrites
      <4>2. ~Refers(p, parent)
        BY <2>4, CommitState
      <4> QED BY <3>2, <4>1, <4>2, <1>1, <1>2 DEF Runs, Covered
    <3> QED BY <3>1, <3>2
  <2>6. committed[parent] # Absent
    BY <1>2, <2>5 DEF WInv, FamilyIsWhole, References
  <2>7. Writes(p, parent, Absent)
    BY <1>2, <2>2, <2>6, CommitWrites
  <2>8. \/ call[p].call = "dissolve"
           /\ parent \in {CategoryRow(family[p]), AccountRow(family[p]), FamilyRow(family[p])}
        \/ call[p].call = "delete" /\ parent = UserRow(Doer(p))
    BY <2>2, <2>6, <2>7, <1>1, WritesParent
  <2>9. IsThere(p, r) /\ parent \in Parents(r, Visible(p, r))
    BY <1>1, <1>2 DEF IsThere
  <2>10. \A s \in Clearing(p) : ~Target(p, s, r)
    BY CommitCleared
  <2> DEFINE f == family[p]  u == Doer(p)  v == Visible(p, r)
  <2>11. CASE call[p].call = "dissolve" /\ parent = CategoryRow(f)
    <3>1. r[1] = "schedule"
      BY <2>9, <2>11, RowKinds DEF Parents, CategoryRow, UserRow, FamilyRow, AccountRow
    <3>2. Target(p, "schedules-left", r) /\ "schedules-left" \in Clearing(p)
      BY <2>9, <2>11, <3>1 DEF Target, Sweeping, SweptKinds, Swept, Clearing
    <3> QED BY <3>2, <2>10
  <2>12. CASE call[p].call = "dissolve" /\ parent = AccountRow(f)
    <3>1. r[1] = "source"
      BY <2>9, <2>12, RowKinds DEF Parents, CategoryRow, UserRow, FamilyRow, AccountRow
    <3>2. Target(p, "sources-left", r) /\ "sources-left" \in Clearing(p)
      BY <2>9, <2>12, <3>1 DEF Target, Sweeping, SweptKinds, Swept, Clearing
    <3> QED BY <3>2, <2>10
  <2>13. CASE call[p].call = "dissolve" /\ parent = FamilyRow(f)
    <3>1. r[1] \in {"category", "account", "member", "invitation", "schedule"}
      BY <2>9, <2>13, RowKinds DEF Parents, CategoryRow, UserRow, FamilyRow, AccountRow
    <3>2. CASE r[1] \in {"category", "account"}
      <4>1. r[2] = f
        BY <2>9, <2>13, <3>2 DEF Parents, FamilyRow
      <4>2. r = CategoryRow(f) \/ r = AccountRow(f)
        BY <4>1, <3>2, RowKinds
      <4>3. \/ Target(p, "delete-category", r) /\ "delete-category" \in Clearing(p)
            \/ Target(p, "delete-account", r) /\ "delete-account" \in Clearing(p)
        BY <4>2, <2>9, <2>13 DEF Target, Sweeping, Swept, Clearing
      <4> QED BY <4>3, <2>10
    <3>3. CASE r[1] \in {"member", "invitation", "schedule"}
      <4>1. Target(p, "cascade-family", r) /\ "cascade-family" \in Clearing(p)
        BY <2>9, <2>13, <3>3 DEF Target, Sweeping, SweptKinds, Swept, Clearing
      <4> QED BY <4>1, <2>10
    <3> QED BY <3>1, <3>2, <3>3
  <2>14. CASE call[p].call = "delete" /\ parent = UserRow(u)
    <3>1. r[1] \in {"family", "member", "invitation", "schedule", "source"}
      BY <2>9, <2>14, RowKinds DEF Parents, CategoryRow, UserRow, FamilyRow, AccountRow
    <3>2. CASE r[1] \in {"family", "schedule", "source"}
      <4>1. Target(p, "rows-left", r) /\ "rows-left" \in Clearing(p)
        BY <2>9, <2>14, <3>2 DEF Target, Sweeping, SweptKinds, Swept, Clearing
      <4> QED BY <4>1, <2>10
    <3>3. CASE r[1] \in {"member", "invitation"}
      <4>1. Target(p, "cascade-user", r) /\ "cascade-user" \in Clearing(p)
        BY <2>9, <2>14, <3>3 DEF Target, Sweeping, SweptKinds, Swept, Clearing
      <4> QED BY <4>1, <2>10
    <3> QED BY <3>1, <3>2, <3>3
  <2> QED BY <2>8, <2>11, <2>12, <2>13, <2>14
<1>3. \A r \in Table : Parents(r, committed[r])' = Parents(r, committed'[r])
  BY DEF Parents, UserRow, FamilyRow, CategoryRow, AccountRow
<1> QED BY <1>2, <1>3 DEF References

(***************************************************************************)
(* What a commit leaves is owned by who created it.                         *)
(***************************************************************************)
\* what a call may write in the row of a membership
LEMMA WritesMember ==
    ASSUME FInv, WInv, NEW p \in Proc, Busy(p), NEW o \in User, NEW v, Writes(p, MemberRow(o), v)
    PROVE  \/ /\ call[p].call = "create" /\ o = Doer(p) /\ committed[MemberRow(o)] = Absent
              /\ v = [family |-> family[p], role |-> "owner"]
           \/ /\ call[p].call = "answer" /\ o = Doer(p) /\ committed[MemberRow(o)] = Absent
              /\ v = [family |-> family[p], role |-> "member"]
           \/ /\ v = Absent /\ committed[MemberRow(o)] # Absent
              /\ \/ /\ call[p].call = "leave" /\ o = Doer(p)
                    /\ committed[MemberRow(o)].family = family[p]
                 \/ call[p].call = "dissolve" /\ committed[MemberRow(o)].family = family[p]
                 \/ call[p].call = "delete" /\ o = Doer(p)
<1> DEFINE r == MemberRow(o)
<1>1. r[1] = "member" /\ r[2] = o
  BY UserRows
<1>2. r # FamilyRow(family[p]) /\ r # CategoryRow(family[p]) /\ r # AccountRow(family[p])
      /\ r # UserRow(Doer(p)) /\ (r = MemberRow(Doer(p)) => o = Doer(p))
  BY DEF FamilyRow, CategoryRow, AccountRow, UserRow, MemberRow
<1>3. call[p].call = "answer" => r # InvitationRow(call[p].invitation)
  BY DEF InvitationRow, MemberRow
<1>4. call[p].call \in {"invite", "schedule", "journal"} => r # NewRow(p)
  BY DEF MemberRow, NewRow, NewKind
<1>5. Writes(p, r, v)
  OBVIOUS
<1> HIDE DEF r
<1>6. \/ /\ call[p].call = "create" /\ o = Doer(p) /\ committed[r] = Absent
         /\ v = [family |-> family[p], role |-> "owner"]
      \/ /\ call[p].call = "answer" /\ o = Doer(p) /\ committed[r] = Absent
         /\ v = [family |-> family[p], role |-> "member"]
      \/ /\ v = Absent /\ committed[r] # Absent
         /\ \/ /\ call[p].call = "leave" /\ o = Doer(p)
               /\ committed[r].family = family[p]
            \/ call[p].call = "dissolve" /\ committed[r].family = family[p]
            \/ call[p].call = "delete" /\ o = Doer(p)
  BY <1>1, <1>2, <1>3, <1>4, <1>5 DEF Writes
<1> QED BY <1>6 DEF r

LEMMA CommitOwners ==
    ASSUME FInv, WInv, NEW p \in Proc, CommitTransaction(p), NEW f \in Family,
           committed'[FamilyRow(f)] # Absent
    PROVE  /\ committed'[FamilyRow(f)] \in User
           /\ committed'[MemberRow(committed'[FamilyRow(f)])] = [family |-> f, role |-> "owner"]
<1>1. Busy(p) /\ Runs(p) /\ \A r \in Table : committed'[r] = Visible(p, r)
  BY CommitState
<1>2. FamilyRow(f) \in Table /\ IsParent(FamilyRow(f)) /\ FamilyRow(f)[1] = "family"
  BY FamilyRows DEF IsParent
<1>3. committed'[FamilyRow(f)] \in User
  <2>1. Values(FamilyRow(f)) = User
    BY <1>2, KindValues
  <2> QED BY <2>1, <1>2, CommitWrites
<1>4. CASE committed[FamilyRow(f)] = Absent
  <2>1. Writes(p, FamilyRow(f), committed'[FamilyRow(f)])
    BY <1>2, <1>4, CommitWrites
  <2>2. call[p].call = "create" /\ FamilyRow(f) = FamilyRow(family[p])
        /\ committed'[FamilyRow(f)] = Doer(p)
    BY <2>1, <1>1, <1>2, WritesParent
  <2>3. f = family[p] /\ Left(p) = {"commit"} /\ Doer(p) \in User
    BY <2>2, CommitState DEF FamilyRow
  <2>4. written[p][MemberRow(Doer(p))] = [family |-> f, role |-> "owner"]
    BY <2>2, <2>3, <1>1 DEF Runs, Inserted
  <2>5. MemberRow(Doer(p)) \in Table /\ MemberRow(Doer(p))[1] = "member"
    BY <2>3, UserRows
  <2>6. Values(MemberRow(Doer(p))) = Membership /\ Same \notin Values(MemberRow(Doer(p)))
    BY <2>5, KindValues
  <2>7. [family |-> f, role |-> "owner"] \in Membership
    BY DEF Membership
  <2>8. written[p][MemberRow(Doer(p))] # Same
    BY <2>4, <2>6, <2>7
  <2>9. committed'[MemberRow(Doer(p))] = [family |-> f, role |-> "owner"]
    BY <2>4, <2>5, <2>8, CommitWrites
  <2> QED BY <2>2, <2>9, <1>3
<1>5. CASE committed[FamilyRow(f)] # Absent
  <2>1. PICK o : o = committed[FamilyRow(f)]
    OBVIOUS
  <2>2. committed'[FamilyRow(f)] = o /\ o \in User
    BY <1>3, <1>5, <2>1, FamilyStays
  <2>3. committed[MemberRow(o)] = [family |-> f, role |-> "owner"]
    BY <1>5, <2>1 DEF WInv, FamilyIsWhole, OwnedByCreators
  <2>4. MemberRow(o) \in Table
    BY <2>2, UserRows
  <2>5. SUFFICES ASSUME written[p][MemberRow(o)] # Same PROVE FALSE
    BY <2>2, <2>3, <2>4, CommitWrites
  <2>6. Writes(p, MemberRow(o), committed'[MemberRow(o)])
    BY <2>4, <2>5, CommitWrites
  <2>7. committed[MemberRow(o)] # Absent
    <3>1. Values(MemberRow(o)) = Membership /\ Absent \notin Values(MemberRow(o))
      BY <2>2, UserRows, KindValues
    <3>2. [family |-> f, role |-> "owner"] \in Membership
      BY DEF Membership
    <3> QED BY <3>1, <3>2, <2>3
  <2>8. \/ call[p].call \in {"leave", "dissolve"} /\ family[p] = f
           /\ (call[p].call = "leave" => o = Doer(p))
        \/ call[p].call = "delete" /\ o = Doer(p)
    BY <1>1, <2>2, <2>3, <2>6, <2>7, WritesMember
  <2>9. IsThere(p, FamilyRow(f)) /\ Visible(p, FamilyRow(f)) = o
    BY <1>1, <1>2, <2>2 DEF IsThere
  <2>10. CASE call[p].call = "leave" /\ family[p] = f /\ o = Doer(p)
    <3>1. Choosing \cap Left(p) = {}
      BY CommitState
    <3> QED BY <3>1, <1>1, <1>5, <2>1, <2>10 DEF Runs, Chose
  <2>11. CASE call[p].call = "dissolve" /\ family[p] = f
    <3>1. "delete-family" \in Clearing(p)
      BY <2>11 DEF Clearing
    <3>2. Target(p, "delete-family", FamilyRow(f))
      BY <2>9, <2>11 DEF Target, Sweeping, Swept
    <3> QED BY <3>1, <3>2, <1>2, CommitCleared
  <2>12. CASE call[p].call = "delete" /\ o = Doer(p)
    <3>1. "rows-left" \in Clearing(p)
      BY <2>12 DEF Clearing
    <3>2. UserRow(Doer(p)) \in Parents(FamilyRow(f), Visible(p, FamilyRow(f)))
      BY <2>9, <2>12, <1>2 DEF Parents
    <3>3. Target(p, "rows-left", FamilyRow(f))
      BY <3>2, <2>9, <1>2 DEF Target, Sweeping, SweptKinds, Swept
    <3> QED BY <3>1, <3>3, <1>2, CommitCleared
  <2> QED BY <2>8, <2>10, <2>11, <2>12
<1> QED BY <1>4, <1>5

\* a row that was there before keeps its family, whose creator stays
LEMMA FamilyOfKept ==
    ASSUME FInv, WInv, NEW p \in Proc, CommitTransaction(p), NEW r \in Table, NEW f \in Family,
           committed'[r] # Absent, FamilyRow(f) \in Parents(r, committed'[r]),
           committed[FamilyRow(f)] # Absent
    PROVE  committed'[FamilyRow(f)] = committed[FamilyRow(f)]
<1>1. Parents(r, committed[r])' = Parents(r, committed'[r])
  BY DEF Parents, UserRow, FamilyRow, CategoryRow, AccountRow
<1>2. FamilyRow(f)' = FamilyRow(f)
  BY DEF FamilyRow
<1>3. committed'[FamilyRow(f)] # Absent
  BY <1>1, <1>2, CommitReferences DEF References
<1> QED BY <1>3, FamilyStays

LEMMA CommitMembers ==
    ASSUME FInv, WInv, NEW p \in Proc, CommitTransaction(p), NEW o \in User,
           committed'[MemberRow(o)] # Absent
    PROVE  committed'[MemberRow(o)].role = "owner"
              <=> committed'[FamilyRow(committed'[MemberRow(o)].family)] = o
<1>1. Busy(p) /\ Runs(p) /\ Choosing \cap Left(p) = {}
  BY CommitState
<1>2. MemberRow(o) \in Table /\ MemberRow(o)[1] = "member"
  BY UserRows
<1>3. committed'[MemberRow(o)] \in Membership
  <2>1. Values(MemberRow(o)) = Membership
    BY <1>2, KindValues
  <2> QED BY <2>1, <1>2, CommitWrites
<1>4. PICK f \in Family : f = committed'[MemberRow(o)].family
  BY <1>3 DEF Membership
<1>5. FamilyRow(f) \in Parents(MemberRow(o), committed'[MemberRow(o)])
  BY <1>2, <1>4 DEF Parents
<1>6. committed'[FamilyRow(f)] # Absent
  <2>1. Parents(MemberRow(o), committed[MemberRow(o)])' = Parents(MemberRow(o), committed'[MemberRow(o)])
    BY DEF Parents, UserRow, FamilyRow, CategoryRow, AccountRow, MemberRow
  <2>2. MemberRow(o)' = MemberRow(o) /\ FamilyRow(f)' = FamilyRow(f)
    BY DEF MemberRow, FamilyRow
  <2> QED BY <2>1, <2>2, <1>2, <1>5, CommitReferences DEF References
<1>7. CASE written[p][MemberRow(o)] = Same
  <2>1. committed'[MemberRow(o)] = committed[MemberRow(o)]
    BY <1>2, <1>7, CommitWrites
  <2>2. committed[FamilyRow(f)] # Absent /\ (committed[MemberRow(o)].role = "owner" <=> committed[FamilyRow(f)] = o)
    BY <2>1, <1>2, <1>4, <1>5 DEF WInv, FamilyIsWhole, References, OwnedByCreators
  <2>3. committed'[FamilyRow(f)] = committed[FamilyRow(f)]
    BY <2>2, <1>6, FamilyStays
  <2> QED BY <2>1, <2>2, <2>3, <1>4
<1>8. CASE written[p][MemberRow(o)] # Same
  <2>1. Writes(p, MemberRow(o), committed'[MemberRow(o)])
    BY <1>2, <1>8, CommitWrites
  <2>2. \/ /\ call[p].call = "create" /\ o = Doer(p)
           /\ committed'[MemberRow(o)] = [family |-> family[p], role |-> "owner"]
        \/ /\ call[p].call = "answer" /\ o = Doer(p)
           /\ committed'[MemberRow(o)] = [family |-> family[p], role |-> "member"]
    BY <2>1, <1>1, WritesMember
  <2>3. f = family[p]
    BY <2>2, <1>4
  <2>4. FamilyRow(f) \in Table /\ IsParent(FamilyRow(f))
    BY FamilyRows DEF IsParent
  <2>5. CASE call[p].call = "create" /\ o = Doer(p)
             /\ committed'[MemberRow(o)] = [family |-> family[p], role |-> "owner"]
    <3>1. FamilyRow(f) = NewRow(p) /\ committed[FamilyRow(f)] = Absent
      BY <2>3, <2>5, <1>1, NewRows DEF Runs, Fresh, NewKind
    <3>2. Writes(p, FamilyRow(f), committed'[FamilyRow(f)])
      BY <3>1, <1>6, <2>4, CommitWrites
    <3>3. committed'[FamilyRow(f)] = Doer(p)
      BY <3>2, <2>4, <1>1, <1>6, WritesParent
    <3> QED BY <3>3, <2>5, <1>4
  <2>6. CASE call[p].call = "answer" /\ o = Doer(p)
             /\ committed'[MemberRow(o)] = [family |-> family[p], role |-> "member"]
    <3>1. committed[FamilyRow(f)] # Absent
      <4>1. SUFFICES ASSUME committed[FamilyRow(f)] = Absent PROVE FALSE
        OBVIOUS
      <4>2. Writes(p, FamilyRow(f), committed'[FamilyRow(f)])
        BY <4>1, <1>6, <2>4, CommitWrites
      <4> QED BY <4>2, <2>4, <2>6, <1>1, <1>6, WritesParent
    <3>2. committed'[FamilyRow(f)] = committed[FamilyRow(f)]
      BY <3>1, <1>6, FamilyStays
    <3>3. committed[FamilyRow(f)] # Doer(p)
      BY <3>1, <2>3, <2>6, <1>1 DEF Runs, Chose
    <3>4. committed'[MemberRow(o)].role = "member"
      BY <2>6
    <3> QED BY <3>2, <3>3, <3>4, <2>6, <1>4
  <2> QED BY <2>2, <2>5, <2>6
<1> QED BY <1>7, <1>8

\* what a call may write in the row of an invitation
LEMMA WritesInvitation ==
    ASSUME FInv, WInv, NEW p \in Proc, Busy(p), NEW i \in Invitation, NEW v,
           Writes(p, InvitationRow(i), v), v # Absent
    PROVE  \/ /\ call[p].call = "answer" /\ committed[InvitationRow(i)] # Absent
              /\ v = [committed[InvitationRow(i)] EXCEPT !.status =
                         IF call[p].accept THEN "accepted" ELSE "declined"]
           \/ /\ call[p].call = "invite"
              /\ v = [family |-> family[p], invited |-> call[p].invited, by |-> Doer(p),
                      status |-> "pending"]
<1> DEFINE r == InvitationRow(i)
<1>1. r[1] = "invitation" /\ r # FamilyRow(family[p]) /\ r # MemberRow(Doer(p))
  BY DEF InvitationRow, FamilyRow, MemberRow
<1>2. call[p].call \in {"schedule", "journal"} => r # NewRow(p)
  BY DEF InvitationRow, NewRow, NewKind
<1>3. Writes(p, r, v)
  OBVIOUS
<1> HIDE DEF r
<1>4. \/ /\ call[p].call = "answer" /\ committed[r] # Absent
         /\ v = [committed[r] EXCEPT !.status = IF call[p].accept THEN "accepted" ELSE "declined"]
      \/ /\ call[p].call = "invite"
         /\ v = [family |-> family[p], invited |-> call[p].invited, by |-> Doer(p),
                 status |-> "pending"]
  BY <1>1, <1>2, <1>3 DEF Writes
<1> QED BY <1>4 DEF r

LEMMA CommitInvitations ==
    ASSUME FInv, WInv, NEW p \in Proc, CommitTransaction(p), NEW i \in Invitation,
           committed'[InvitationRow(i)] # Absent
    PROVE  /\ committed'[FamilyRow(committed'[InvitationRow(i)].family)]
                = committed'[InvitationRow(i)].by
           /\ committed'[InvitationRow(i)].invited # committed'[InvitationRow(i)].by
<1>1. Busy(p) /\ Runs(p) /\ Choosing \cap Left(p) = {}
  BY CommitState
<1> DEFINE r == InvitationRow(i)
<1>2. r \in Table /\ r[1] = "invitation"
  BY InvitationRows
<1>3. Values(r) = Invite /\ Absent \notin Values(r)
  BY <1>2, KindValues
<1>4. committed'[r] \in Invite
  BY <1>2, <1>3, CommitWrites
<1>5. PICK f \in Family : f = committed'[r].family
  BY <1>4 DEF Invite
<1>6. FamilyRow(f) \in Parents(r, committed'[r])
  BY <1>2, <1>5 DEF Parents
<1>7. ASSUME committed[r] # Absent, committed'[r].family = committed[r].family,
             committed'[r].by = committed[r].by, committed'[r].invited = committed[r].invited
      PROVE  committed'[FamilyRow(f)] = committed'[r].by /\ committed'[r].invited # committed'[r].by
  <2>1. committed[r].family = f
    BY <1>5, <1>7
  <2>2. FamilyRow(f) \in Parents(r, committed[r])
    BY <1>2, <2>1 DEF Parents
  <2>3. committed[FamilyRow(f)] # Absent
    BY <1>2, <1>7, <2>2 DEF WInv, FamilyIsWhole, References
  <2>4. committed[FamilyRow(f)] = committed[r].by /\ committed[r].invited # committed[r].by
    BY <1>7, <2>1 DEF WInv, FamilyIsWhole, OwnedByCreators
  <2>5. committed'[FamilyRow(f)] = committed[FamilyRow(f)]
    BY <1>2, <1>6, <2>3, FamilyOfKept
  <2> QED BY <2>4, <2>5, <1>7
<1>8. CASE written[p][r] = Same
  <2>1. committed'[r] = committed[r]
    BY <1>2, <1>8, CommitWrites
  <2> QED BY <2>1, <1>5, <1>7
<1>9. CASE written[p][r] # Same
  <2>1. Writes(p, r, committed'[r])
    BY <1>2, <1>9, CommitWrites
  <2>2. \/ /\ call[p].call = "answer" /\ committed[r] # Absent
           /\ committed'[r] = [committed[r] EXCEPT !.status =
                         IF call[p].accept THEN "accepted" ELSE "declined"]
        \/ /\ call[p].call = "invite"
           /\ committed'[r] = [family |-> family[p], invited |-> call[p].invited, by |-> Doer(p),
                               status |-> "pending"]
    BY <2>1, <1>1, WritesInvitation
  <2>3. CASE /\ call[p].call = "answer" /\ committed[r] # Absent
             /\ committed'[r] = [committed[r] EXCEPT !.status =
                         IF call[p].accept THEN "accepted" ELSE "declined"]
    <3>1. committed[r] \in Invite
      BY <1>2, <1>3, <2>3 DEF WInv, TypedRows
    <3>2. /\ committed'[r].family = committed[r].family
          /\ committed'[r].by = committed[r].by /\ committed'[r].invited = committed[r].invited
      BY <3>1, <2>3 DEF Invite
    <3> QED BY <3>2, <2>3, <1>5, <1>7
  <2>4. CASE /\ call[p].call = "invite"
             /\ committed'[r] = [family |-> family[p], invited |-> call[p].invited, by |-> Doer(p),
                                 status |-> "pending"]
    <3>1. committed'[r].family = family[p] /\ committed'[r].by = Doer(p)
          /\ committed'[r].invited = call[p].invited
      BY <2>4
    <3>2. f = family[p]
      BY <3>1, <1>5
    <3>3. call[p].invited # Doer(p)
      BY <2>4, <1>1, Calling
    <3>4. committed'[FamilyRow(f)] # Absent
      <4>1. Parents(r, committed[r])' = Parents(r, committed'[r])
        BY DEF Parents, UserRow, FamilyRow, CategoryRow, AccountRow, InvitationRow
      <4>2. FamilyRow(f)' = FamilyRow(f) /\ r' = r
        BY DEF FamilyRow, InvitationRow
      <4> QED BY <4>1, <4>2, <1>2, <1>6, CommitReferences DEF References
    <3>5. FamilyRow(f) \in Table /\ IsParent(FamilyRow(f))
      BY FamilyRows DEF IsParent
    <3>6. committed[FamilyRow(f)] # Absent
      <4>1. SUFFICES ASSUME committed[FamilyRow(f)] = Absent PROVE FALSE
        OBVIOUS
      <4>2. Writes(p, FamilyRow(f), committed'[FamilyRow(f)])
        BY <4>1, <3>4, <3>5, CommitWrites
      <4> QED BY <4>2, <3>4, <3>5, <2>4, <1>1, WritesParent
    <3>7. committed[FamilyRow(f)] = Doer(p)
      BY <3>6, <3>2, <2>4, <1>1 DEF Runs, Chose
    <3>8. committed'[FamilyRow(f)] = Doer(p)
      BY <3>4, <3>6, <3>7, FamilyStays
    <3> QED BY <3>1, <3>2, <3>3, <3>8
  <2> QED BY <2>2, <2>3, <2>4
<1> QED BY <1>8, <1>9

LEMMA CommitOwned ==
    ASSUME FInv, WInv, NEW p \in Proc, CommitTransaction(p)
    PROVE  OwnedByCreators(committed)'
<1>1. \A f \in Family : FamilyRow(f)' = FamilyRow(f)
  BY DEF FamilyRow
<1>2. ASSUME NEW f \in Family, committed'[FamilyRow(f)] # Absent
      PROVE  committed'[MemberRow(committed'[FamilyRow(f)])] = [family |-> f, role |-> "owner"]
  BY <1>2, CommitOwners
<1>3. ASSUME NEW o \in User, committed'[MemberRow(o)] # Absent
      PROVE  committed'[MemberRow(o)].role = "owner"
                <=> committed'[FamilyRow(committed'[MemberRow(o)].family)] = o
  BY <1>3, CommitMembers
<1>4. ASSUME NEW i \in Invitation, committed'[InvitationRow(i)] # Absent
      PROVE  /\ committed'[FamilyRow(committed'[InvitationRow(i)].family)]
                   = committed'[InvitationRow(i)].by
             /\ committed'[InvitationRow(i)].invited # committed'[InvitationRow(i)].by
  BY <1>4, CommitInvitations
<1> QED BY <1>2, <1>3, <1>4 DEF OwnedByCreators, FamilyRow, MemberRow, InvitationRow

(***************************************************************************)
(* A call that is open while another one commits.                           *)
(***************************************************************************)
\* nobody else has written the row of an id that has been drawn
LEMMA NewUnwritten ==
    ASSUME FInv, WInv, NEW p \in Proc, NEW q \in Proc \ {p}, Busy(p), Busy(q),
           NewKind(call[p]) # "none"
    PROVE  NewRow(p) \in Table /\ written[q][NewRow(p)] = Same
<1>1. Runs(p) /\ Runs(q)
  BY Running
<1>2. NewRow(p) \in Table /\ NewRow(p)[1] \in Serial
  BY <1>1, NewRows DEF Runs
<1>3. committed[NewRow(p)] = Absent /\ NewRow(q) # NewRow(p)
  BY <1>1 DEF Runs, Fresh
<1>4. NewRow(p) # MemberRow(Doer(q))
  BY <1>2 DEF Serial, MemberRow
<1>5. SUFFICES ASSUME written[q][NewRow(p)] # Same PROVE FALSE
  BY <1>2
<1>6. Writes(q, NewRow(p), written[q][NewRow(p)])
  BY <1>1, <1>2, <1>5 DEF Runs, Wrote
<1> QED BY <1>2, <1>3, <1>4, <1>6, WritesNew

\* two open calls have not written the same row
LEMMA OneWriter ==
    ASSUME FInv, WInv, NEW p \in Proc, NEW q \in Proc \ {p}, Busy(p), Busy(q), NEW r \in Table,
           written[q][r] # Same
    PROVE  written[p][r] = Same
<1>1. Runs(p) /\ Runs(q)
  BY Running
<1>2. SUFFICES ASSUME written[p][r] # Same PROVE FALSE
  OBVIOUS
<1>3. r[1] # "none"
  BY RowKinds
<1>4. r # NewRow(p)
  <2>1. r = NewRow(p) => NewKind(call[p]) # "none"
    BY <1>3 DEF NewRow
  <2> QED BY <2>1, NewUnwritten
<1>5. r # NewRow(q)
  <2>1. r = NewRow(q) => NewKind(call[q]) # "none"
    BY <1>3 DEF NewRow
  <2>2. p \in Proc \ {q}
    OBVIOUS
  <2> QED BY <2>1, <2>2, <1>2, NewUnwritten
<1>6. holder[r] = p
  BY <1>1, <1>2, <1>4 DEF Runs, Wrote
<1>7. holder[r] = q
  BY <1>1, <1>5 DEF Runs, Wrote
<1> QED BY <1>6, <1>7

LEMMA CommitBeside ==
    ASSUME FInv, WInv, NEW p \in Proc, CommitTransaction(p), NEW q \in Proc \ {p}, Busy(q)
    PROVE  /\ Busy(p) /\ Runs(p) /\ Runs(q) /\ Kept(q)
           /\ \A r \in Table : written[q][r] # Same => committed'[r] = committed[r]
           /\ \A r : Visible(q, r)' = IF written[q][r] = Same THEN committed'[r] ELSE written[q][r]
           /\ NewKind(call[q]) # "none" => committed'[NewRow(q)] = Absent
           /\ \A o \in Proc : Busy(o)' => Busy(o) /\ NewRow(o)' = NewRow(o)
<1>1. Busy(p) /\ Runs(p) /\ EndTransaction(p)
  BY CommitState
<1>2. Runs(q) /\ \A o \in Proc \ {p} : Kept(o)
  BY <1>1, Running, EndKeeps
<1>3. \A r \in Table : written[q][r] # Same => committed'[r] = committed[r]
  BY <1>1, OneWriter, CommitWrites
<1>4. Kept(q)
  BY <1>2
<1>5. \A r : Visible(q, r)' = IF written[q][r] = Same THEN committed'[r] ELSE written[q][r]
  BY <1>4 DEF Visible, Kept
<1>6. NewKind(call[q]) # "none" => committed'[NewRow(q)] = Absent
  <2>1. SUFFICES ASSUME NewKind(call[q]) # "none" PROVE committed'[NewRow(q)] = Absent
    OBVIOUS
  <2>2. p \in Proc \ {q}
    OBVIOUS
  <2>3. NewRow(q) \in Table /\ written[p][NewRow(q)] = Same
    BY <2>1, <2>2, <1>1, NewUnwritten
  <2>4. committed[NewRow(q)] = Absent
    BY <2>1, <1>2 DEF Runs, Fresh
  <2> QED BY <2>3, <2>4, CommitWrites
<1>7. \A o \in Proc : Busy(o)' => Busy(o) /\ NewRow(o)' = NewRow(o)
  <2>1. ~Busy(p)'
    BY <1>1, EndKeeps
  <2>2. ASSUME NEW o \in Proc, Busy(o)' PROVE Busy(o) /\ NewRow(o)' = NewRow(o)
    <3>1. o \in Proc \ {p} /\ Kept(o)
      BY <2>1, <2>2, <1>2
    <3> QED BY <3>1, <2>2, KeptState
  <2> QED BY <2>2
<1> QED BY <1>1, <1>2, <1>3, <1>4, <1>5, <1>6, <1>7

\* a family that is there after a commit was there, or the call created it
LEMMA CommitFamily ==
    ASSUME FInv, WInv, NEW p \in Proc, CommitTransaction(p), NEW r \in Table, IsParent(r),
           committed'[r] # Absent, committed[r] = Absent
    PROVE  r = NewRow(p) /\ r[1] = "family"
<1>1. Busy(p) /\ Runs(p)
  BY CommitState
<1>2. Writes(p, r, committed'[r])
  BY CommitWrites
<1>3. call[p].call = "create" /\ r = FamilyRow(family[p]) /\ r = NewRow(p)
  BY <1>1, <1>2, WritesParent
<1> QED BY <1>3 DEF FamilyRow

LEMMA CommitChose ==
    ASSUME FInv, WInv, NEW p \in Proc, CommitTransaction(p), NEW q \in Proc \ {p}, Busy(q)
    PROVE  Chose(q)'
<1>1. /\ Busy(p) /\ Runs(p) /\ Runs(q) /\ Kept(q)
      /\ \A o \in Proc : Busy(o)' => Busy(o) /\ NewRow(o)' = NewRow(o)
  BY CommitBeside
<1>2. Left(q)' = Left(q) /\ Doer(q)' = Doer(q) /\ call'[q] = call[q] /\ family'[q] = family[q]
      /\ drawn' = drawn
  BY <1>1, KeptState, CommitState DEF Kept
<1>3. CASE call[q].call \in {"invite", "dissolve", "leave", "answer"} /\ Choosing \cap Left(q) = {}
  <2>1. /\ family[q] \in Family /\ family[q] \in drawn
        /\ \A o \in Proc : Busy(o) => NewRow(o) # FamilyRow(family[q])
        /\ committed[FamilyRow(family[q])] # Absent =>
              (committed[FamilyRow(family[q])] = Doer(q)
                   <=> call[q].call \in {"invite", "dissolve"})
    BY <1>1, <1>3 DEF Runs, Chose
  <2>2. FamilyRow(family[q]) \in Table /\ IsParent(FamilyRow(family[q]))
    BY <2>1, FamilyRows DEF IsParent
  <2>3. NewRow(p) # FamilyRow(family[q])
    BY <2>1, <1>1
  <2>4. committed'[FamilyRow(family[q])] # Absent => committed[FamilyRow(family[q])] # Absent
    BY <2>2, <2>3, CommitFamily
  <2>5. committed'[FamilyRow(family[q])] # Absent
           => committed'[FamilyRow(family[q])] = committed[FamilyRow(family[q])]
    BY <2>1, <2>4, FamilyStays
  <2>6. \A o \in Proc : Busy(o)' => NewRow(o)' # FamilyRow(family[q])
    BY <2>1, <1>1
  <2>7. FamilyRow(family[q])' = FamilyRow(family[q])
    BY <1>2 DEF FamilyRow
  <2> QED BY <2>1, <2>4, <2>5, <2>6, <2>7, <1>2 DEF Chose
<1> QED BY <1>2, <1>3 DEF Chose

LEMMA CommitWrote ==
    ASSUME FInv, WInv, NEW p \in Proc, CommitTransaction(p), NEW q \in Proc \ {p}, Busy(q)
    PROVE  Wrote(q)' /\ Covered(q)'
<1>1. /\ Busy(p) /\ Runs(p) /\ Runs(q) /\ Kept(q)
      /\ \A r \in Table : written[q][r] # Same => committed'[r] = committed[r]
  BY CommitBeside
<1>2. Left(q)' = Left(q) /\ Doer(q)' = Doer(q) /\ NewRow(q)' = NewRow(q)
      /\ call'[q] = call[q] /\ family'[q] = family[q] /\ written'[q] = written[q]
      /\ \A r \in Row : holder[r] = q => holder'[r] = q
  BY <1>1, KeptState DEF Kept
<1>3. ASSUME NEW r \in Table, written[q][r] # Same
      PROVE  /\ Choosing \cap Left(q) = {} /\ Writes(q, r, written[q][r])'
             /\ r = NewRow(q) \/ holder'[r] = q
  <2>1. /\ Choosing \cap Left(q) = {} /\ Writes(q, r, written[q][r])
        /\ r = NewRow(q) \/ holder[r] = q
    BY <1>1, <1>3 DEF Runs, Wrote
  <2>2. committed'[r] = committed[r]
    BY <1>1, <1>3
  <2>3. r[1] = "schedule" /\ committed[r] # Absent =>
           committed'[FamilyRow(committed[r].family)] = committed[FamilyRow(committed[r].family)]
    <3>1. SUFFICES ASSUME r[1] = "schedule", committed[r] # Absent
                   PROVE  committed'[FamilyRow(committed[r].family)]
                             = committed[FamilyRow(committed[r].family)]
      OBVIOUS
    <3>2. committed[r].family \in Family /\ committed[FamilyRow(committed[r].family)] # Absent
      BY <3>1, EntryReferences
    <3>3. FamilyRow(committed[r].family) \in Parents(r, committed[r])
      BY <3>1 DEF Parents
    <3> QED BY <3>1, <3>2, <3>3, <2>2, FamilyOfKept
  <2>4. FamilyRow(committed[r].family)' = FamilyRow(committed'[r].family)
    BY DEF FamilyRow
  <2>5. Writes(q, r, written[q][r])'
    BY <2>1, <2>2, <2>3, <2>4, <1>2 DEF Writes
  <2> QED BY <2>1, <2>5, <1>2, TableRows
<1>4. Wrote(q)'
  BY <1>2, <1>3 DEF Wrote
<1>5. ASSUME NEW r \in Table, written[q][r] \notin {Same, Absent},
             NEW parent \in Parents(r, written[q][r])
      PROVE  \/ committed'[r] # Absent /\ parent \in Parents(r, committed'[r])
             \/ Refers(q, parent)'
  <2>1. \/ committed[r] # Absent /\ parent \in Parents(r, committed[r])
        \/ Refers(q, parent)
    BY <1>1, <1>5 DEF Runs, Covered
  <2>2. written[q][r] \in Values(r)
    <3>1. Choosing \cap Left(q) = {} /\ Writes(q, r, written[q][r])
      BY <1>1, <1>5 DEF Runs, Wrote
    <3> QED BY <3>1, <1>1, <1>5, WrittenValues DEF Runs
  <2>3. parent \in Row
    BY <1>5, <2>2, ParentRows, TableRows
  <2>4. Refers(q, parent) => Refers(q, parent)'
    BY <1>1, <2>3, KeptRefers
  <2>5. committed'[r] = committed[r]
    BY <1>1, <1>5
  <2> QED BY <2>1, <2>4, <2>5
<1>6. \A r \in Table : Parents(r, written[q][r])' = Parents(r, written[q][r])
                          /\ Parents(r, committed[r])' = Parents(r, committed'[r])
  BY <1>2 DEF Parents, UserRow, FamilyRow, CategoryRow, AccountRow
<1>7. Covered(q)'
  BY <1>2, <1>5, <1>6 DEF Covered
<1> QED BY <1>4, <1>7

\* what an open call refers to is still there for it
LEMMA CommitShares ==
    ASSUME FInv, WInv, NEW p \in Proc, CommitTransaction(p), NEW q \in Proc \ {p}, Busy(q)
    PROVE  Shares(q)'
<1>1. /\ Runs(q) /\ Kept(q)
      /\ \A r \in Table : written[q][r] # Same => committed'[r] = committed[r]
      /\ \A r : Visible(q, r)' = IF written[q][r] = Same THEN committed'[r] ELSE written[q][r]
  BY CommitBeside
<1>2. ASSUME NEW r \in Row, q \in sharers'[r]
      PROVE  r \in Table /\ IsParent(r) /\ IsThere(q, r)'
  <2>1. q \in sharers[r]
    BY <1>1, <1>2 DEF Kept
  <2>2. r \in Table /\ IsParent(r) /\ Visible(q, r) # Absent
    BY <1>1, <2>1 DEF Runs, Shares, IsThere
  <2>3. CASE written[q][r] = Same
    <3>1. committed[r] # Absent
      BY <2>2, <2>3 DEF Visible
    <3>2. committed'[r] # Absent
      BY <3>1, <2>1, <2>2, <1>2, CommitLeavesReferred
    <3> QED BY <3>2, <2>2, <2>3, <1>1 DEF IsThere
  <2>4. CASE written[q][r] # Same
    BY <2>2, <2>4, <1>1 DEF IsThere, Visible
  <2> QED BY <2>2, <2>3, <2>4
<1> QED BY <1>2 DEF Shares, IsParent

LEMMA CommitReassigns ==
    ASSUME FInv, WInv, NEW p \in Proc, CommitTransaction(p), NEW q \in Proc \ {p}, Busy(q)
    PROVE  Reassigns(q)'
<1>1. /\ Busy(p) /\ Runs(p) /\ Runs(q) /\ Kept(q)
      /\ \A r \in Table : written[q][r] # Same => committed'[r] = committed[r]
      /\ \A r : Visible(q, r)' = IF written[q][r] = Same THEN committed'[r] ELSE written[q][r]
      /\ \A o \in Proc : Busy(o)' => Busy(o) /\ NewRow(o)' = NewRow(o)
  BY CommitBeside
<1>2. Ahead(q)' = Ahead(q) /\ drawn' = drawn
  BY <1>1, KeptState, CommitState
<1>3. ASSUME NEW r \in Table, r[1] = "schedule", Lock("update", r) \in Ahead(q)
      PROVE  /\ r[2] \in drawn
             /\ \A o \in Proc : Busy(o)' => r # NewRow(o)'
             /\ IsThere(q, r)' => Refers(q, UserRow(Creator(q, Visible(q, r).family)))'
  <2>1. /\ r[2] \in drawn
        /\ \A o \in Proc : Busy(o) => r # NewRow(o)
        /\ IsThere(q, r) => Refers(q, UserRow(Creator(q, Visible(q, r).family)))
    BY <1>1, <1>3 DEF Runs, Reassigns
  <2>2. call[q].call \in {"leave", "delete", "answer"}
    BY <1>1, <1>3, UpdatingCall DEF Runs
  <2>3. ASSUME Visible(q, r)' # Absent
        PROVE  Refers(q, UserRow(Creator(q, Visible(q, r).family)))'
    \* the schedule was there, in the same family
    <3>1. committed[r] # Absent /\ committed'[r] # Absent /\ IsThere(q, r)
      <4>1. CASE written[q][r] # Same
        <5>1. IsThere(q, r)
          BY <4>1, <2>3, <1>1 DEF IsThere, Visible
        <5>2. committed[r] # Absent
          BY <5>1, <2>2, <1>3, CreatorIsUser
        <5> QED BY <4>1, <5>1, <5>2, <1>1
      <4>2. CASE written[q][r] = Same
        <5>1. committed'[r] # Absent
          BY <4>2, <2>3, <1>1
        <5>2. committed[r] # Absent
          <6>1. SUFFICES ASSUME committed[r] = Absent PROVE FALSE
            OBVIOUS
          <6>2. Writes(p, r, committed'[r])
            BY <5>1, <6>1, CommitWrites
          <6>3. r = NewRow(p)
            BY <6>1, <6>2, <1>1, <1>3, WritesNew
          <6> QED BY <6>3, <2>1, <1>1
        <5> QED BY <4>2, <5>1, <5>2 DEF IsThere, Visible
      <4> QED BY <4>1, <4>2
    <3>2. /\ committed[r] \in Entry /\ Visible(q, r).family = committed[r].family
          /\ committed[r].family \in Family
          /\ Creator(q, Visible(q, r).family) = committed[FamilyRow(committed[r].family)]
          /\ committed[FamilyRow(committed[r].family)] \in User
      BY <3>1, <2>2, <1>3, CreatorIsUser
    <3>3. PICK f \in Family : f = committed[r].family
      BY <3>2
    <3>4. committed'[r] \in Entry /\ committed'[r].family = f
      <4>1. CASE written[p][r] = Same
        BY <4>1, <3>2, <3>3, CommitWrites
      <4>2. CASE written[p][r] # Same
        <5>1. Writes(p, r, committed'[r])
          BY <4>2, CommitWrites
        <5>2. r # FamilyRow(family[p]) /\ r # MemberRow(Doer(p))
          BY <1>3 DEF FamilyRow, MemberRow
        <5>3. call[p].call = "answer" => r # InvitationRow(call[p].invitation)
          BY <1>3 DEF InvitationRow
        <5>4. r # NewRow(p)
          BY <2>1, <1>1
        <5>5. committed'[r] = [committed[r] EXCEPT !.by = committed[FamilyRow(committed[r].family)]]
          BY <5>1, <5>2, <5>3, <5>4, <3>1 DEF Writes
        <5> QED BY <5>5, <3>2, <3>3 DEF Entry
      <4> QED BY <4>1, <4>2
    <3>5. committed[FamilyRow(f)] # Absent
      BY <3>1, <3>3, <1>3, EntryReferences
    <3>6. committed'[FamilyRow(f)] = committed[FamilyRow(f)]
      <4>1. FamilyRow(f) \in Parents(r, committed'[r])
        BY <1>3, <3>4 DEF Parents
      <4> QED BY <4>1, <3>1, <3>5, FamilyOfKept
    <3>7. Visible(q, FamilyRow(f))' = committed[FamilyRow(f)]
      <4>1. FamilyRow(f) \in Table /\ IsParent(FamilyRow(f)) /\ FamilyRow(f)[1] = "family"
        BY FamilyRows DEF IsParent
      <4>2. written[q][FamilyRow(f)] = Same
        <5>1. SUFFICES ASSUME written[q][FamilyRow(f)] # Same PROVE FALSE
          OBVIOUS
        <5>2. Writes(q, FamilyRow(f), written[q][FamilyRow(f)])
          BY <4>1, <5>1, <1>1 DEF Runs, Wrote
        <5>3. call[q].call = "delete" /\ FamilyRow(f) = UserRow(Doer(q))
          BY <4>1, <5>2, <2>2, WritesParent
        <5> QED BY <5>3 DEF FamilyRow, UserRow
      <4>3. FamilyRow(f)' = FamilyRow(f)
        BY DEF FamilyRow
      <4> QED BY <4>2, <4>3, <3>6, <1>1
    <3>8. Visible(q, r)' \in Entry /\ Visible(q, r)'.family = f
      <4>1. CASE written[q][r] = Same
        BY <4>1, <3>4, <1>1
      <4>2. CASE written[q][r] # Same
        <5>1. Visible(q, r)' = Visible(q, r)
          BY <4>2, <1>1 DEF Visible
        <5>2. Visible(q, r) \in Entry
          BY <3>1, <2>2, <1>3, CreatorIsUser
        <5> QED BY <5>1, <5>2, <3>2, <3>3
      <4> QED BY <4>1, <4>2
    <3>9. Refers(q, UserRow(committed[FamilyRow(f)]))
      BY <2>1, <3>1, <3>2, <3>3
    <3>10. UserRow(committed[FamilyRow(f)]) \in Row
      BY <3>2, <3>3, UserRows, TableRows
    <3> DEFINE a == UserRow(committed[FamilyRow(f)])
    <3>11. \A x \in Row : Refers(q, x) => Refers(q, x)'
      BY <1>1, KeptRefers
    <3>12. UserRow(Creator(q, Visible(q, r).family))' = UserRow(Visible(q, FamilyRow(f))')
      BY <3>8 DEF Creator, UserRow, FamilyRow
    <3>13. UserRow(Visible(q, FamilyRow(f))') = a
      BY <3>7
    <3> HIDE DEF a
    <3>14. q \in sharers'[a] \/ Lock("refer", a) \in Ahead(q)'
      <4>1. q \in sharers[a] \/ Lock("refer", a) \in Ahead(q)
        BY <3>9 DEF Refers, a
      <4>2. a \in Row
        BY <3>10 DEF a
      <4> QED BY <4>1, <4>2, <1>1, <1>2 DEF Kept
    <3> QED BY <3>12, <3>13, <3>14 DEF Refers, Lock
  <2> QED BY <2>1, <2>3, <1>1 DEF IsThere
<1> QED BY <1>2, <1>3 DEF Reassigns, Lock

\* nothing new is there for a call that deletes, to be found
LEMMA NoNewTarget ==
    ASSUME FInv, WInv, NEW p \in Proc, CommitTransaction(p), NEW q \in Proc \ {p}, Busy(q),
           NEW s \in Clearing(q), s \notin Left(q) \/ Current(q) = s, NEW r \in Table,
           Target(q, s, r)'
    PROVE  Target(q, s, r)
<1>1. /\ Busy(p) /\ Runs(p) /\ Runs(q) /\ Kept(q)
      /\ \A x \in Table : written[q][x] # Same => committed'[x] = committed[x]
      /\ \A x : Visible(q, x)' = IF written[q][x] = Same THEN committed'[x] ELSE written[q][x]
  BY CommitBeside
<1>2. call'[q] = call[q] /\ family'[q] = family[q] /\ Doer(q)' = Doer(q)
  BY <1>1, KeptState DEF Kept
<1> DEFINE G == Swept(q, s)
<1>3. Swept(q, s)' = G
  BY <1>2 DEF Swept, CategoryRow, AccountRow, FamilyRow, UserRow
<1>4. call[q].call \in {"dissolve", "delete"}
  BY DEF Clearing
<1>5. call[q].call = "dissolve" => Choosing \cap Left(q) = {}
  <2>1. Current(q) \in Choosing => Clearing(q) \subseteq Left(q)
    BY <1>1, StillToClear DEF Runs
  <2>2. s \notin Choosing
    BY DEF Clearing, Choosing
  <2>3. Current(q) \notin Choosing
    BY <2>1, <2>2
  <2> QED BY <2>3, <1>1, ChosenBefore DEF Runs
<1>6. /\ G \in Table /\ IsParent(G)
      /\ G[1] = "family" => /\ call[q].call = "dissolve" /\ G = FamilyRow(family[q])
  <2>1. Doer(q) \in User
    BY Calling
  <2>2. call[q].call = "dissolve" => family[q] \in Family
    BY <1>1, <1>5, ChosenFamily DEF Runs
  <2>3. CASE call[q].call = "dissolve"
    <3>1. G \in {CategoryRow(family[q]), AccountRow(family[q]), FamilyRow(family[q])}
      BY <2>3 DEF Clearing, Swept
    <3> HIDE DEF G
    <3>2. FamilyRow(family[q]) \in Table /\ CategoryRow(family[q]) \in Table
          /\ AccountRow(family[q]) \in Table
      BY <2>2, <2>3, FamilyRows
    <3>3. CategoryRow(family[q])[1] = "category" /\ AccountRow(family[q])[1] = "account"
          /\ FamilyRow(family[q])[1] = "family"
      BY DEF CategoryRow, AccountRow, FamilyRow
    <3> QED BY <3>1, <3>2, <3>3, <2>3 DEF IsParent
  <2>4. CASE call[q].call = "delete"
    <3>1. G = UserRow(Doer(q))
      BY <2>4 DEF Clearing, Swept
    <3> HIDE DEF G
    <3> QED BY <3>1, <2>1, UserRows DEF IsParent
  <2> QED BY <1>4, <2>3, <2>4
\* a row of that kind is not created beside q
<1>7. committed'[G] # Absent => committed[G] # Absent
  <2>1. SUFFICES ASSUME committed'[G] # Absent, committed[G] = Absent PROVE FALSE
    OBVIOUS
  <2>2. G = NewRow(p) /\ G[1] = "family"
    BY <2>1, <1>6, CommitFamily
  <2>3. FamilyRow(family[q]) = NewRow(p) /\ call[q].call = "dissolve"
    BY <2>2, <1>6
  <2> QED BY <2>3, <1>1, <1>5 DEF Runs, Chose
<1>8. CASE s \notin Sweeping
  <2>1. r = G /\ Visible(q, r)' # Absent
    BY <1>3, <1>8 DEF Target, IsThere
  <2>2. Visible(q, r) # Absent
    <3>1. CASE written[q][r] = Same
      BY <3>1, <2>1, <1>1, <1>7 DEF Visible
    <3>2. CASE written[q][r] # Same
      BY <3>2, <2>1, <1>1 DEF Visible
    <3> QED BY <3>1, <3>2
  <2> QED BY <2>1, <2>2, <1>8 DEF Target, IsThere
<1>9. CASE s \in Sweeping
  <2> DEFINE v == Visible(q, r)'
  <2>1. v # Absent /\ r[1] \in SweptKinds(s) /\ G \in Parents(r, v)
    <3>1. Parents(r, Visible(q, r))' = Parents(r, v)
      BY DEF Parents, UserRow, FamilyRow, CategoryRow, AccountRow
    <3>2. SweptKinds(s)' = SweptKinds(s)
      BY DEF SweptKinds
    <3> QED BY <3>1, <3>2, <1>3, <1>9 DEF Target, IsThere, Sweeping
  <2>2. Visible(q, r) = v => Target(q, s, r)
    BY <2>1, <1>9 DEF Target, IsThere
  <2>3. CASE written[q][r] # Same
    <3>1. Visible(q, r) = v
      BY <2>3, <1>1 DEF Visible
    <3> QED BY <3>1, <2>2
  <2>4. CASE written[q][r] = Same /\ written[p][r] = Same
    <3>1. Visible(q, r) = v
      BY <2>4, <1>1, CommitWrites DEF Visible
    <3> QED BY <3>1, <2>2
  <2>5. CASE written[q][r] = Same /\ written[p][r] # Same
    <3>1. v = committed'[r] /\ v = written[p][r]
      BY <2>5, <1>1, CommitWrites
    <3>2. \/ committed[r] # Absent /\ G \in Parents(r, committed[r])
          \/ Refers(p, G)
      BY <3>1, <2>1, <2>5, <1>1 DEF Runs, Covered
    <3>3. CASE committed[r] # Absent /\ G \in Parents(r, committed[r])
      BY <3>3, <2>1, <2>5, <1>9 DEF Target, IsThere, Visible
    <3>4. CASE Refers(p, G)
      <4>1. p \in sharers[G]
        BY <3>4, CommitState
      <4>2. IsThere(p, G)
        BY <4>1, <1>1, <1>6, TableRows DEF Runs, Shares
      <4>3. ~IsThere(q, G)
        <5>1. \E b \in Clearing(q) : b \notin Sweeping /\ b \notin Left(q) /\ Swept(q, b) = G
          <6>1. CASE call[q].call = "dissolve"
            <7>1. s \in {"schedules-left", "sources-left", "cascade-family"}
              BY <6>1, <1>9 DEF Clearing, Sweeping
            <7>2. /\ s = "schedules-left" => "delete-category" \notin Left(q)
                  /\ s = "sources-left" => "delete-account" \notin Left(q)
                  /\ s = "cascade-family" => "delete-family" \notin Left(q)
              BY <6>1, <1>1, DissolveOrder DEF Runs, Before
            <7>3. CASE s = "schedules-left"
              BY <7>2, <7>3, <6>1 DEF Clearing, Sweeping, Swept
            <7>4. CASE s = "sources-left"
              BY <7>2, <7>4, <6>1 DEF Clearing, Sweeping, Swept
            <7>5. CASE s = "cascade-family"
              BY <7>2, <7>5, <6>1 DEF Clearing, Sweeping, Swept
            <7> QED BY <7>1, <7>3, <7>4, <7>5
          <6>2. CASE call[q].call = "delete"
            <7>1. s \in {"rows-left", "cascade-user"}
              BY <6>2, <1>9 DEF Clearing, Sweeping
            <7>2. "delete-user" \notin Left(q)
              BY <7>1, <6>2, <1>1, DeleteOrder DEF Runs, Before
            <7>3. "delete-user" \in Clearing(q) /\ "delete-user" \notin Sweeping
              BY <6>2 DEF Clearing, Sweeping
            <7>4. Swept(q, "delete-user") = G
              BY <7>1 DEF Swept
            <7> QED BY <7>2, <7>3, <7>4
          <6> QED BY <1>4, <6>1, <6>2
        <5>2. PICK b \in Clearing(q) : b \notin Sweeping /\ b \notin Left(q) /\ Swept(q, b) = G
          BY <5>1
        <5>3. ~Target(q, b, G)
          BY <5>2, <1>1, <1>6 DEF Runs, Cleared, Clear
        <5> QED BY <5>2, <5>3 DEF Target
      <4>4. CASE written[q][G] = Absent
        <5>1. sharers[G] \subseteq {q}
          BY <4>4, <1>6 DEF FInv, Connected, DeletedIsAlone
        <5> QED BY <5>1, <4>1
      <4>5. CASE written[q][G] # Absent
        <5>1. committed[G] = Absent
          BY <4>3, <4>5 DEF IsThere, Visible
        <5>2. committed'[G] # Absent
          BY <4>2, <1>6, CommitState DEF IsThere
        <5> QED BY <5>1, <5>2, <1>7
      <4> QED BY <4>4, <4>5
    <3> QED BY <3>2, <3>3, <3>4
  <2> QED BY <2>3, <2>4, <2>5
<1> QED BY <1>8, <1>9

LEMMA CommitKeepsRuns ==
    ASSUME FInv, WInv, NEW p \in Proc, CommitTransaction(p), NEW q \in Proc \ {p}, Busy(q)
    PROVE  Runs(q)'
<1>1. /\ Busy(p) /\ Runs(p) /\ Runs(q) /\ Kept(q)
      /\ \A r \in Table : written[q][r] # Same => committed'[r] = committed[r]
      /\ NewKind(call[q]) # "none" => committed'[NewRow(q)] = Absent
      /\ \A o \in Proc : Busy(o)' => Busy(o) /\ NewRow(o)' = NewRow(o)
  BY CommitBeside
<1>2. /\ Current(q)' = Current(q) /\ Left(q)' = Left(q) /\ Ahead(q)' = Ahead(q)
      /\ Doer(q)' = Doer(q) /\ NewRow(q)' = NewRow(q)
      /\ Mode(q)' = Mode(q) /\ Clearing(q)' = Clearing(q)
  BY <1>1, KeptState
<1>3. /\ call'[q] = call[q] /\ program'[q] = program[q] /\ family'[q] = family[q]
      /\ new'[q] = new[q] /\ queue'[q] = queue[q] /\ written'[q] = written[q]
      /\ \A r \in Row : (holder[r] = q => holder'[r] = q) /\ (q \in sharers'[r] <=> q \in sharers[r])
  BY <1>1 DEF Kept
<1>4. drawn' = drawn
  BY CommitState
<1>5. OnTrack(q)'
  BY <1>1, <1>3 DEF Runs, OnTrack, Full, Program, RespondFamilyInvitation
<1>6. Fresh(q)'
  <2>1. NewKind(call'[q]) = NewKind(call[q]) /\ NewIds(call'[q]) = NewIds(call[q])
    BY <1>3
  <2>2. CASE NewKind(call[q]) # "none"
    <3>1. Fresh(q)
      BY <1>1 DEF Runs
    <3>2. \A o \in Proc \ {q} : Busy(o)' => NewRow(o)' # NewRow(q)
      BY <2>2, <3>1, <1>1 DEF Fresh
    <3> QED BY <2>1, <2>2, <3>1, <3>2, <1>1, <1>2, <1>3, <1>4 DEF Fresh
  <2> QED BY <2>1, <2>2 DEF Fresh
<1>7. Chose(q)' /\ Wrote(q)' /\ Covered(q)' /\ Shares(q)' /\ Reassigns(q)'
  BY CommitChose, CommitWrote, CommitShares, CommitReassigns
<1>8. DeletesNoParent(q)'
  <2>1. DeletesNoParent(q)
    BY <1>1 DEF Runs
  <2>2. \A r \in Row : Refers(q, r)' <=> Refers(q, r)
    BY <1>1, KeptRefers
  <2> QED BY <2>1, <2>2, <1>2, <1>3 DEF DeletesNoParent
<1>9. Inserted(q)'
  BY <1>1, <1>2, <1>3 DEF Runs, Inserted
<1>10. queue[q] # <<>> /\ Current(q) \in Inserting => LocksIn(Locks(q))' = LocksIn(Locks(q))
  BY <1>1, KeptLocks
<1>11. Queued(q)'
  <2>1. CASE queue[q] # <<>> /\ Current(q) \in Inserting
    BY <2>1, <1>10, <1>1, <1>2, <1>3 DEF Runs, Queued
  <2>2. CASE queue[q] # <<>> /\ Current(q) \notin Inserting
    BY <2>2, <1>1, <1>2, <1>3 DEF Runs, Queued
  <2> QED BY <2>1, <2>2, <1>3 DEF Queued
<1>12. Acquired(q)'
  <2>1. CASE queue[q] # <<>> /\ Current(q) \in Inserting
    <3>1. ASSUME NEW l \in LocksIn(Locks(q))
          PROVE  \/ l \in Ahead(q)
                 \/ l.mode = "refer" /\ q \in sharers'[l.row]
                 \/ l.mode = "insert"
                    /\ (l.row \in Table => holder'[l.row] = q /\ committed'[l.row] = Absent)
      <4>1. \/ l \in Ahead(q)
            \/ l.mode = "refer" /\ q \in sharers[l.row]
            \/ l.mode = "insert" /\ (l.row \in Table => holder[l.row] = q /\ committed[l.row] = Absent)
        BY <1>1, <2>1, <3>1 DEF Runs, Acquired
      <4>2. /\ l.row \in Row
            /\ l.mode = "insert" /\ l.row \in Table => l.row = MemberRow(Doer(q))
        BY <2>1, <3>1, <1>1, InsertRows DEF Runs
      \* p has not written the membership that q holds
      <4>3. ASSUME l.mode = "insert", l.row \in Table, holder[l.row] = q, committed[l.row] = Absent
            PROVE  committed'[l.row] = Absent
        <5>1. PICK m \in Table : m = l.row
          BY <4>3
        <5>2. m[1] = "member"
          BY <5>1, <4>2, <4>3 DEF MemberRow
        <5>3. m # NewRow(p)
          BY <5>2 DEF NewRow, NewKind
        <5>4. holder[m] # p
          BY <5>1, <4>3
        <5>5. written[p][m] = Same
          BY <5>3, <5>4, <1>1 DEF Runs, Wrote
        <5>6. committed'[m] = committed[m]
          BY <5>5, CommitWrites
        <5> QED BY <5>1, <5>6, <4>3
      <4> QED BY <4>1, <4>2, <4>3, <1>3
    <3> QED BY <2>1, <3>1, <1>10, <1>2, <1>3 DEF Acquired
  <2> QED BY <2>1, <1>2, <1>3 DEF Acquired
<1>13. Cleared(q)'
  <2>1. ASSUME NEW s \in Clearing(q), s \notin Left(q) PROVE Clear(q, s)'
    <3>1. Clear(q, s)
      BY <2>1, <1>1 DEF Runs, Cleared
    <3>2. \A r \in Table : ~Target(q, s, r)'
      BY <2>1, <3>1, NoNewTarget DEF Clear
    <3> QED BY <3>2 DEF Clear
  <2>2. ASSUME NEW s \in Clearing(q), queue[q] # <<>>, Current(q) = s, NEW r \in Table, Target(q, s, r)'
        PROVE  Lock(Mode(q), r) \in Ahead(q)
    <3>1. Target(q, s, r)
      BY <2>2, NoNewTarget
    <3> QED BY <2>2, <3>1, <1>1 DEF Runs, Cleared
  <2> QED BY <2>1, <2>2, <1>2, <1>3 DEF Cleared, Lock
<1> QED BY <1>5, <1>6, <1>7, <1>8, <1>9, <1>11, <1>12, <1>13 DEF Runs

LEMMA CommitKeepsWInv ==
    ASSUME FInv, WInv, NEW p \in Proc, CommitTransaction(p) PROVE WInv'
<1>1. EndTransaction(p)
  BY CommitState
<1>2. Domains' /\ ~Busy(p)' /\ \A q \in Proc \ {p} : Kept(q)
  BY <1>1, EndKeeps
<1>3. ASSUME NEW q \in Proc, Busy(q)' PROVE Runs(q)'
  <2>1. q \in Proc \ {p} /\ Busy(q)
    BY <1>2, <1>3, KeptState
  <2> QED BY <2>1, CommitKeepsRuns
<1>4. FamilyIsWhole'
  BY CommitReferences, CommitOwned DEF FamilyIsWhole
<1>5. TypedRows' /\ DrawnIds'
  BY CommitTyped
<1> QED BY <1>2, <1>3, <1>4, <1>5 DEF WInv

(***************************************************************************)
(* Together.                                                                *)
(***************************************************************************)
LEMMA NextKeepsWInv == FInv /\ WInv /\ [Next]_vars => WInv'
<1> SUFFICES ASSUME FInv, WInv, [Next]_vars PROVE WInv'
  OBVIOUS
<1>1. ASSUME NEW p \in Proc, NEW c \in Calls, Begin(p, c) PROVE WInv'
  BY <1>1, BeginKeepsWInv
<1>2. ASSUME NEW p \in Proc, Step(p) PROVE WInv'
  <2>1. CASE Read(p)
    BY <2>1, ReadKeepsWInv
  <2>2. CASE FindRows(p)
    BY <2>2, FindRowsKeepsWInv
  <2>3. CASE LockRow(p)
    BY <2>3, LockRowKeepsWInv
  <2>4. CASE ConstraintError(p)
    BY <2>4, RollbackKeepsWInv DEF ConstraintError
  <2>8. CASE LedgerRefuses(p)
    BY <2>8, RollbackKeepsWInv DEF LedgerRefuses
  <2>5. CASE EndStatement(p)
    BY <2>5, EndStatementKeepsWInv
  <2>6. CASE CommitTransaction(p)
    BY <2>6, CommitKeepsWInv
  <2>7. CASE AbortDeadlocked(p)
    BY <2>7, RollbackKeepsWInv DEF AbortDeadlocked
  <2> QED BY <1>2, <2>1, <2>2, <2>3, <2>4, <2>5, <2>6, <2>7, <2>8 DEF Step
<1>3. CASE UNCHANGED vars
  <2>1. UNCHANGED <<committed, holder, sharers, call, program, family, new, queue, written, drawn>>
    BY <1>3 DEF vars
  <2>2. TypedRows' /\ DrawnIds' /\ Domains'
    BY <2>1 DEF WInv, TypedRows, DrawnIds, Domains
  <2>3. References(committed)' /\ OwnedByCreators(committed)'
    BY <2>1 DEF WInv, FamilyIsWhole, References, OwnedByCreators
  <2>4. \A q \in Proc : Kept(q)
    BY <2>1 DEF Kept
  <2>5. ASSUME NEW q \in Proc, Busy(q)' PROVE Runs(q)'
    <3>1. Busy(q)
      BY <2>4, <2>5, KeptState
    <3>2. \A o \in Proc \ {q} : Busy(o)' => Drew(o)
      BY <2>4, KeptState DEF Drew
    <3> QED BY <3>1, <3>2, <2>1, <2>4, Elsewhere
  <2> QED BY <2>2, <2>3, <2>5 DEF WInv, FamilyIsWhole
<1> QED BY <1>1, <1>2, <1>3 DEF Next

\* However create_family, invite_family_member, respond_family_invitation,
\* leave_family, dissolve_family and delete_user_account cross, a family is its
\* creator's, its invitations are the creator's, and no committed row refers to
\* a user, a family, a category or an account that is gone.
THEOREM FamiliesAreWhole == Spec => []FamilyIsWhole
<1>1. Init => FInv /\ WInv
  BY InitFInv, InitWInv
<1>2. FInv /\ WInv /\ [Next]_vars => (FInv /\ WInv)'
  BY StepKeepsFInv, NextKeepsWInv
<1>3. FInv /\ WInv => FamilyIsWhole
  BY DEF WInv
<1> QED BY <1>1, <1>2, <1>3, PTL DEF Spec

(***************************************************************************)
(* The order of the statements, once more.                                  *)
(***************************************************************************)
\* a statement that is behind the call does not come again
LEMMA PositionNext ==
    ASSUME FInv, NEW p \in Proc, Busy(p), OnTrack(p), program'[p] = Tail(program[p]), call'[p] = call[p]
    PROVE  \E i \in 1..Len(Full(call[p])) :
              /\ Current(p) = Full(call[p])[i]
              /\ Left(p)' \subseteq {Full(call[p])[j] : j \in (i + 1)..Len(Full(call[p]))}
<1> DEFINE s == program[p]  t == Tail(s)  all == Full(call[p])  i == Len(all) - Len(s) + 1
<1>1. s \in Seq(Statement) /\ s # <<>> /\ call[p] \in Calls
  BY DEF FInv, TypeOK, Connected, EndsWithCommit, Busy
<1>2. Len(all) \in Nat
  BY <1>1, FullIsSeq
<1>3. Len(s) \in Nat /\ Len(s) # 0 /\ Head(s) = s[1]
  BY <1>1, EmptySeq
<1>4. Len(t) = Len(s) - 1 /\ \A k \in 1..Len(t) : t[k] = s[k + 1]
  BY <1>1, <1>3
<1>5. Len(s) <= Len(all) /\ \A k \in 1..Len(s) : s[k] = all[Len(all) - Len(s) + k]
  BY DEF OnTrack
<1>6. Current(p) = Head(s) /\ Left(p)' = {t[k] : k \in 1..Len(t)}
  BY DEF Current, Left
<1> HIDE DEF s, t, all
<1>7. i \in 1..Len(all) /\ Current(p) = all[i]
  BY <1>2, <1>3, <1>5, <1>6
<1>8. ASSUME NEW k \in 1..Len(t) PROVE \E j \in (i + 1)..Len(all) : t[k] = all[j]
  <2>1. k + 1 \in 1..Len(s) /\ i + k \in (i + 1)..Len(all)
        /\ Len(all) - Len(s) + (k + 1) = i + k
    BY <1>2, <1>3, <1>4, <1>5
  <2>2. t[k] = all[i + k]
    BY <2>1, <1>4, <1>5
  <2> QED BY <2>1, <2>2
<1>9. Left(p)' \subseteq {all[j] : j \in (i + 1)..Len(all)}
  BY <1>6, <1>8
<1> QED BY <1>7, <1>9 DEF all

LEMMA Behind ==
    ASSUME FInv, NEW p \in Proc, Busy(p), OnTrack(p), program'[p] = Tail(program[p]), call'[p] = call[p]
    PROVE  Current(p) \notin Left(p)'
<1> DEFINE F == Full(call[p])
<1>1. PICK i \in 1..Len(F) : Current(p) = F[i] /\ Left(p)' \subseteq {F[j] : j \in (i + 1)..Len(F)}
  BY PositionNext
<1>2. call[p] \in Calls
  BY DEF FInv, TypeOK
<1>3. SUFFICES ASSUME NEW j \in (i + 1)..Len(F), F[i] = F[j] PROVE FALSE
  BY <1>1
<1>4. CASE call[p].call = "dissolve"
  <2>1. /\ Len(F) = 12 /\ F[1] = "owns-a-family" /\ F[2] = "delete-ledger" /\ F[3] = "delete-schedules"
        /\ F[4] = "delete-category" /\ F[5] = "schedules-left" /\ F[6] = "delete-account"
        /\ F[7] = "sources-left" /\ F[8] = "delete-invitations" /\ F[9] = "delete-members"
        /\ F[10] = "delete-family" /\ F[11] = "cascade-family" /\ F[12] = "commit"
    BY <1>2, <1>4, FullDissolve
  <2> HIDE DEF F
  <2>2. i = 1 \/ i = 2 \/ i = 3 \/ i = 4 \/ i = 5 \/ i = 6 \/ i = 7 \/ i = 8 \/ i = 9 \/ i = 10 \/ i = 11 \/ i = 12
    BY <2>1
  <2>3. j = 1 \/ j = 2 \/ j = 3 \/ j = 4 \/ j = 5 \/ j = 6 \/ j = 7 \/ j = 8 \/ j = 9 \/ j = 10 \/ j = 11 \/ j = 12
    BY <2>1
  <2>4. i < j
    BY <2>1
  <2> QED BY <2>1, <2>2, <2>3, <2>4, <1>3
<1>5. CASE call[p].call = "delete"
  <2>1. /\ Len(F) = 9 /\ F[1] = "known-user" /\ F[2] = "no-family"
        /\ F[3] = "reassign-schedules" /\ F[4] = "delete-invitations" /\ F[5] = "delete-ledger" /\ F[6] = "delete-user"
        /\ F[7] = "rows-left" /\ F[8] = "cascade-user" /\ F[9] = "commit"
    BY <1>2, <1>5, FullDelete
  <2> HIDE DEF F
  <2>2. i = 1 \/ i = 2 \/ i = 3 \/ i = 4 \/ i = 5 \/ i = 6 \/ i = 7 \/ i = 8 \/ i = 9
    BY <2>1
  <2>3. j = 1 \/ j = 2 \/ j = 3 \/ j = 4 \/ j = 5 \/ j = 6 \/ j = 7 \/ j = 8 \/ j = 9
    BY <2>1
  <2>4. i < j
    BY <2>1
  <2> QED BY <2>1, <2>2, <2>3, <2>4, <1>3
<1>6. CASE call[p].call = "leave"
  <2>1. /\ Len(F) = 4 /\ F[1] = "member-of-a-family" /\ F[2] = "reassign-schedules"
        /\ F[3] = "delete-membership" /\ F[4] = "commit"
    BY <1>2, <1>6, FullLeave
  <2> HIDE DEF F
  <2>2. i = 1 \/ i = 2 \/ i = 3 \/ i = 4
    BY <2>1
  <2>3. j = 1 \/ j = 2 \/ j = 3 \/ j = 4
    BY <2>1
  <2>4. i < j
    BY <2>1
  <2> QED BY <2>1, <2>2, <2>3, <2>4, <1>3
<1>7. CASE call[p].call = "create"
  <2>1. /\ Len(F) = 5 /\ F[1] = "no-family" /\ F[2] = "known-user" /\ F[3] = "add-family"
        /\ F[4] = "add-owner" /\ F[5] = "commit"
    BY <1>2, <1>7, FullCreate
  <2> HIDE DEF F
  <2>2. i = 1 \/ i = 2 \/ i = 3 \/ i = 4 \/ i = 5
    BY <2>1
  <2>3. j = 1 \/ j = 2 \/ j = 3 \/ j = 4 \/ j = 5
    BY <2>1
  <2>4. i < j
    BY <2>1
  <2> QED BY <2>1, <2>2, <2>3, <2>4, <1>3
<1>8. CASE call[p].call = "invite"
  <2>1. /\ Len(F) = 5 /\ F[1] = "owns-a-family" /\ F[2] = "invited-is-free"
        /\ F[3] = "not-invited-yet" /\ F[4] = "add-invitation" /\ F[5] = "commit"
    BY <1>2, <1>8, FullInvite
  <2> HIDE DEF F
  <2>2. i = 1 \/ i = 2 \/ i = 3 \/ i = 4 \/ i = 5
    BY <2>1
  <2>3. j = 1 \/ j = 2 \/ j = 3 \/ j = 4 \/ j = 5
    BY <2>1
  <2>4. i < j
    BY <2>1
  <2> QED BY <2>1, <2>2, <2>3, <2>4, <1>3
<1>9. CASE call[p].call = "answer" /\ call[p].accept
  <2>1. /\ Len(F) = 5 /\ F[1] = "pending-invitation" /\ F[2] = "no-family"
        /\ F[3] = "add-member" /\ F[4] = "answer" /\ F[5] = "commit"
    BY <1>2, <1>9, FullAccept
  <2> HIDE DEF F
  <2>2. i = 1 \/ i = 2 \/ i = 3 \/ i = 4 \/ i = 5
    BY <2>1
  <2>3. j = 1 \/ j = 2 \/ j = 3 \/ j = 4 \/ j = 5
    BY <2>1
  <2>4. i < j
    BY <2>1
  <2> QED BY <2>1, <2>2, <2>3, <2>4, <1>3
<1>10. CASE call[p].call = "answer" /\ ~call[p].accept
  <2>1. /\ Len(F) = 3 /\ F[1] = "pending-invitation" /\ F[2] = "answer" /\ F[3] = "commit"
    BY <1>2, <1>10, FullDecline
  <2> HIDE DEF F
  <2>2. i = 1 \/ i = 2 \/ i = 3
    BY <2>1
  <2>3. j = 1 \/ j = 2 \/ j = 3
    BY <2>1
  <2>4. i < j
    BY <2>1
  <2> QED BY <2>1, <2>2, <2>3, <2>4, <1>3
<1>11. CASE call[p].call = "schedule"
  <2>1. /\ Len(F) = 4 /\ F[1] = "category" /\ F[2] = "access" /\ F[3] = "add-schedule"
        /\ F[4] = "commit"
    BY <1>2, <1>11, FullSchedule
  <2> HIDE DEF F
  <2>2. i = 1 \/ i = 2 \/ i = 3 \/ i = 4
    BY <2>1
  <2>3. j = 1 \/ j = 2 \/ j = 3 \/ j = 4
    BY <2>1
  <2>4. i < j
    BY <2>1
  <2> QED BY <2>1, <2>2, <2>3, <2>4, <1>3
<1>12. CASE call[p].call = "journal"
  <2>1. /\ Len(F) = 4 /\ F[1] = "account" /\ F[2] = "access" /\ F[3] = "add-source"
        /\ F[4] = "commit"
    BY <1>2, <1>12, FullJournal
  <2> HIDE DEF F
  <2>2. i = 1 \/ i = 2 \/ i = 3 \/ i = 4
    BY <2>1
  <2>3. j = 1 \/ j = 2 \/ j = 3 \/ j = 4
    BY <2>1
  <2>4. i < j
    BY <2>1
  <2> QED BY <2>1, <2>2, <2>3, <2>4, <1>3
<1> QED BY <1>2, Kinds, <1>4, <1>5, <1>6, <1>7, <1>8, <1>9, <1>10, <1>11, <1>12

LEMMA OrderOf ==
    ASSUME FInv, NEW p \in Proc, Busy(p), OnTrack(p)
    PROVE  /\ call[p].call = "dissolve" =>
                 /\ Current(p) \in Choosing => "delete-schedules" \in Left(p)
                 /\ Current(p) = "schedules-left" => "delete-schedules" \notin Left(p)
           /\ call[p].call = "delete" =>
                 /\ Current(p) = "reassign-schedules" => "no-family" \notin Left(p)
                 /\ Current(p) = "rows-left" => "no-family" \notin Left(p) /\ "reassign-schedules" \notin Left(p)
           /\ call[p].call = "leave" =>
                 /\ Current(p) \in Choosing => "reassign-schedules" \in Left(p)
                 /\ Current(p) = "commit" => "reassign-schedules" \notin Left(p)
           /\ call[p].call = "create" =>
                 /\ Current(p) = "add-family" => "known-user" \notin Left(p)
                 /\ Current(p) = "add-owner" => "no-family" \notin Left(p) /\ "known-user" \notin Left(p) /\ "add-family" \notin Left(p)
           /\ call[p].call = "invite" =>
                 /\ Current(p) \in Choosing => "not-invited-yet" \in Left(p)
                 /\ Current(p) = "add-invitation" => "invited-is-free" \notin Left(p) /\ "not-invited-yet" \notin Left(p)
           /\ call[p].call = "answer" /\ call[p].accept =>
                 /\ Current(p) \in Choosing => "answer" \in Left(p)
                 /\ Current(p) = "add-member" => "no-family" \notin Left(p)
           /\ call[p].call = "answer" /\ ~call[p].accept =>
                 /\ Current(p) \in Choosing => "answer" \in Left(p)
                 /\ Current(p) # "add-member"
           /\ call[p].call = "schedule" =>
                 /\ Current(p) \in {"add-schedule", "commit"} => "category" \notin Left(p) /\ "access" \notin Left(p)
                 /\ Current(p) = "access" => "category" \notin Left(p)
                 /\ Current(p) = "category" => "access" \in Left(p)
           /\ call[p].call = "journal" =>
                 /\ Current(p) = "add-source" => "account" \notin Left(p) /\ "access" \notin Left(p)
<1> DEFINE F == Full(call[p])
<1>1. PICK i \in 1..Len(F) : Current(p) = F[i] /\ Left(p) = {F[j] : j \in i..Len(F)}
  BY Position
<1>2. call[p] \in Calls
  BY DEF FInv, TypeOK
<1>3. ASSUME call[p].call = "dissolve"
      PROVE  /\ Current(p) \in Choosing => "delete-schedules" \in Left(p)
             /\ Current(p) = "schedules-left" => "delete-schedules" \notin Left(p)
  <2>1. /\ Len(F) = 12 /\ F[1] = "owns-a-family" /\ F[2] = "delete-ledger" /\ F[3] = "delete-schedules"
        /\ F[4] = "delete-category" /\ F[5] = "schedules-left" /\ F[6] = "delete-account"
        /\ F[7] = "sources-left" /\ F[8] = "delete-invitations" /\ F[9] = "delete-members"
        /\ F[10] = "delete-family" /\ F[11] = "cascade-family" /\ F[12] = "commit"
    BY <1>2, <1>3, FullDissolve
  <2> HIDE DEF F
  <2>2. i = 1 \/ i = 2 \/ i = 3 \/ i = 4 \/ i = 5 \/ i = 6 \/ i = 7 \/ i = 8 \/ i = 9 \/ i = 10 \/ i = 11 \/ i = 12
    BY <1>1, <2>1
  <2>3. Current(p) \in Choosing => "delete-schedules" \in Left(p)
    <3>1. SUFFICES ASSUME Current(p) \in Choosing PROVE "delete-schedules" \in Left(p)
      OBVIOUS
    <3>2. i = 1
      BY <3>1, <1>1, <2>1, <2>2 DEF Choosing
    <3>3. 3 \in i..Len(F)
      BY <3>2, <2>1
    <3> QED BY <3>3, <1>1, <2>1
  <2>4. Current(p) = "schedules-left" => "delete-schedules" \notin Left(p)
    <3>1. SUFFICES ASSUME Current(p) = "schedules-left" PROVE "delete-schedules" \notin Left(p)
      OBVIOUS
    <3>2. i = 5
      BY <3>1, <1>1, <2>1, <2>2 DEF Choosing
    <3>3. ASSUME NEW j \in i..Len(F) PROVE F[j] # "delete-schedules"
      <4>1. j = 5 \/ j = 6 \/ j = 7 \/ j = 8 \/ j = 9 \/ j = 10 \/ j = 11 \/ j = 12
        BY <3>2, <2>1
      <4> QED BY <4>1, <2>1
    <3> QED BY <3>3, <1>1
  <2> QED BY <2>3, <2>4
<1>4. ASSUME call[p].call = "delete"
      PROVE  /\ Current(p) = "reassign-schedules" => "no-family" \notin Left(p)
             /\ Current(p) = "rows-left" => "no-family" \notin Left(p) /\ "reassign-schedules" \notin Left(p)
  <2>1. /\ Len(F) = 9 /\ F[1] = "known-user" /\ F[2] = "no-family"
        /\ F[3] = "reassign-schedules" /\ F[4] = "delete-invitations" /\ F[5] = "delete-ledger" /\ F[6] = "delete-user"
        /\ F[7] = "rows-left" /\ F[8] = "cascade-user" /\ F[9] = "commit"
    BY <1>2, <1>4, FullDelete
  <2> HIDE DEF F
  <2>2. i = 1 \/ i = 2 \/ i = 3 \/ i = 4 \/ i = 5 \/ i = 6 \/ i = 7 \/ i = 8 \/ i = 9
    BY <1>1, <2>1
  <2>3. Current(p) = "reassign-schedules" => "no-family" \notin Left(p)
    <3>1. SUFFICES ASSUME Current(p) = "reassign-schedules" PROVE "no-family" \notin Left(p)
      OBVIOUS
    <3>2. i = 3
      BY <3>1, <1>1, <2>1, <2>2 DEF Choosing
    <3>3. ASSUME NEW j \in i..Len(F) PROVE F[j] # "no-family"
      <4>1. j = 3 \/ j = 4 \/ j = 5 \/ j = 6 \/ j = 7 \/ j = 8 \/ j = 9
        BY <3>2, <2>1
      <4> QED BY <4>1, <2>1
    <3> QED BY <3>3, <1>1
  <2>4. Current(p) = "rows-left" => "no-family" \notin Left(p) /\ "reassign-schedules" \notin Left(p)
    <3>1. SUFFICES ASSUME Current(p) = "rows-left" PROVE "no-family" \notin Left(p) /\ "reassign-schedules" \notin Left(p)
      OBVIOUS
    <3>2. i = 7
      BY <3>1, <1>1, <2>1, <2>2 DEF Choosing
    <3>3. ASSUME NEW j \in i..Len(F) PROVE F[j] # "no-family" /\ F[j] # "reassign-schedules"
      <4>1. j = 7 \/ j = 8 \/ j = 9
        BY <3>2, <2>1
      <4> QED BY <4>1, <2>1
    <3> QED BY <3>3, <1>1
  <2> QED BY <2>3, <2>4
<1>5. ASSUME call[p].call = "leave"
      PROVE  /\ Current(p) \in Choosing => "reassign-schedules" \in Left(p)
             /\ Current(p) = "commit" => "reassign-schedules" \notin Left(p)
  <2>1. /\ Len(F) = 4 /\ F[1] = "member-of-a-family" /\ F[2] = "reassign-schedules"
        /\ F[3] = "delete-membership" /\ F[4] = "commit"
    BY <1>2, <1>5, FullLeave
  <2> HIDE DEF F
  <2>2. i = 1 \/ i = 2 \/ i = 3 \/ i = 4
    BY <1>1, <2>1
  <2>3. Current(p) \in Choosing => "reassign-schedules" \in Left(p)
    <3>1. SUFFICES ASSUME Current(p) \in Choosing PROVE "reassign-schedules" \in Left(p)
      OBVIOUS
    <3>2. i = 1
      BY <3>1, <1>1, <2>1, <2>2 DEF Choosing
    <3>3. 2 \in i..Len(F)
      BY <3>2, <2>1
    <3> QED BY <3>3, <1>1, <2>1
  <2>4. Current(p) = "commit" => "reassign-schedules" \notin Left(p)
    <3>1. SUFFICES ASSUME Current(p) = "commit" PROVE "reassign-schedules" \notin Left(p)
      OBVIOUS
    <3>2. i = 4
      BY <3>1, <1>1, <2>1, <2>2 DEF Choosing
    <3>3. ASSUME NEW j \in i..Len(F) PROVE F[j] # "reassign-schedules"
      <4>1. j = 4
        BY <3>2, <2>1
      <4> QED BY <4>1, <2>1
    <3> QED BY <3>3, <1>1
  <2> QED BY <2>3, <2>4
<1>6. ASSUME call[p].call = "create"
      PROVE  /\ Current(p) = "add-family" => "known-user" \notin Left(p)
             /\ Current(p) = "add-owner" => "no-family" \notin Left(p) /\ "known-user" \notin Left(p) /\ "add-family" \notin Left(p)
  <2>1. /\ Len(F) = 5 /\ F[1] = "no-family" /\ F[2] = "known-user" /\ F[3] = "add-family"
        /\ F[4] = "add-owner" /\ F[5] = "commit"
    BY <1>2, <1>6, FullCreate
  <2> HIDE DEF F
  <2>2. i = 1 \/ i = 2 \/ i = 3 \/ i = 4 \/ i = 5
    BY <1>1, <2>1
  <2>3. Current(p) = "add-family" => "known-user" \notin Left(p)
    <3>1. SUFFICES ASSUME Current(p) = "add-family" PROVE "known-user" \notin Left(p)
      OBVIOUS
    <3>2. i = 3
      BY <3>1, <1>1, <2>1, <2>2 DEF Choosing
    <3>3. ASSUME NEW j \in i..Len(F) PROVE F[j] # "known-user"
      <4>1. j = 3 \/ j = 4 \/ j = 5
        BY <3>2, <2>1
      <4> QED BY <4>1, <2>1
    <3> QED BY <3>3, <1>1
  <2>4. Current(p) = "add-owner" => "no-family" \notin Left(p) /\ "known-user" \notin Left(p) /\ "add-family" \notin Left(p)
    <3>1. SUFFICES ASSUME Current(p) = "add-owner" PROVE "no-family" \notin Left(p) /\ "known-user" \notin Left(p) /\ "add-family" \notin Left(p)
      OBVIOUS
    <3>2. i = 4
      BY <3>1, <1>1, <2>1, <2>2 DEF Choosing
    <3>3. ASSUME NEW j \in i..Len(F) PROVE F[j] # "no-family" /\ F[j] # "known-user" /\ F[j] # "add-family"
      <4>1. j = 4 \/ j = 5
        BY <3>2, <2>1
      <4> QED BY <4>1, <2>1
    <3> QED BY <3>3, <1>1
  <2> QED BY <2>3, <2>4
<1>7. ASSUME call[p].call = "invite"
      PROVE  /\ Current(p) \in Choosing => "not-invited-yet" \in Left(p)
             /\ Current(p) = "add-invitation" => "invited-is-free" \notin Left(p) /\ "not-invited-yet" \notin Left(p)
  <2>1. /\ Len(F) = 5 /\ F[1] = "owns-a-family" /\ F[2] = "invited-is-free"
        /\ F[3] = "not-invited-yet" /\ F[4] = "add-invitation" /\ F[5] = "commit"
    BY <1>2, <1>7, FullInvite
  <2> HIDE DEF F
  <2>2. i = 1 \/ i = 2 \/ i = 3 \/ i = 4 \/ i = 5
    BY <1>1, <2>1
  <2>3. Current(p) = "add-invitation" => "invited-is-free" \notin Left(p) /\ "not-invited-yet" \notin Left(p)
    <3>1. SUFFICES ASSUME Current(p) = "add-invitation" PROVE "invited-is-free" \notin Left(p) /\ "not-invited-yet" \notin Left(p)
      OBVIOUS
    <3>2. i = 4
      BY <3>1, <1>1, <2>1, <2>2 DEF Choosing
    <3>3. ASSUME NEW j \in i..Len(F) PROVE F[j] # "invited-is-free" /\ F[j] # "not-invited-yet"
      <4>1. j = 4 \/ j = 5
        BY <3>2, <2>1
      <4> QED BY <4>1, <2>1
    <3> QED BY <3>3, <1>1
  <2>4. Current(p) \in Choosing => "not-invited-yet" \in Left(p)
    <3>1. SUFFICES ASSUME Current(p) \in Choosing PROVE "not-invited-yet" \in Left(p)
      OBVIOUS
    <3>2. i = 1
      BY <3>1, <1>1, <2>1, <2>2 DEF Choosing
    <3>3. 3 \in i..Len(F)
      BY <3>2, <2>1
    <3> QED BY <3>3, <1>1, <2>1
  <2> QED BY <2>3, <2>4
<1>8. ASSUME call[p].call = "answer" /\ call[p].accept
      PROVE  /\ Current(p) \in Choosing => "answer" \in Left(p)
             /\ Current(p) = "add-member" => "no-family" \notin Left(p)
  <2>1. /\ Len(F) = 5 /\ F[1] = "pending-invitation" /\ F[2] = "no-family"
        /\ F[3] = "add-member" /\ F[4] = "answer" /\ F[5] = "commit"
    BY <1>2, <1>8, FullAccept
  <2> HIDE DEF F
  <2>2. i = 1 \/ i = 2 \/ i = 3 \/ i = 4 \/ i = 5
    BY <1>1, <2>1
  <2>3. Current(p) \in Choosing => "answer" \in Left(p)
    <3>1. SUFFICES ASSUME Current(p) \in Choosing PROVE "answer" \in Left(p)
      OBVIOUS
    <3>2. i = 1
      BY <3>1, <1>1, <2>1, <2>2 DEF Choosing
    <3>3. 4 \in i..Len(F)
      BY <3>2, <2>1
    <3> QED BY <3>3, <1>1, <2>1
  <2>4. Current(p) = "add-member" => "no-family" \notin Left(p)
    <3>1. SUFFICES ASSUME Current(p) = "add-member" PROVE "no-family" \notin Left(p)
      OBVIOUS
    <3>2. i = 3
      BY <3>1, <1>1, <2>1, <2>2 DEF Choosing
    <3>3. ASSUME NEW j \in i..Len(F) PROVE F[j] # "no-family"
      <4>1. j = 3 \/ j = 4 \/ j = 5
        BY <3>2, <2>1
      <4> QED BY <4>1, <2>1
    <3> QED BY <3>3, <1>1
  <2> QED BY <2>3, <2>4
<1>9. ASSUME call[p].call = "answer" /\ ~call[p].accept
      PROVE  /\ Current(p) \in Choosing => "answer" \in Left(p)
             /\ Current(p) # "add-member"
  <2>1. /\ Len(F) = 3 /\ F[1] = "pending-invitation" /\ F[2] = "answer" /\ F[3] = "commit"
    BY <1>2, <1>9, FullDecline
  <2> HIDE DEF F
  <2>2. i = 1 \/ i = 2 \/ i = 3
    BY <1>1, <2>1
  <2>3. Current(p) \in Choosing => "answer" \in Left(p)
    <3>1. SUFFICES ASSUME Current(p) \in Choosing PROVE "answer" \in Left(p)
      OBVIOUS
    <3>2. i = 1
      BY <3>1, <1>1, <2>1, <2>2 DEF Choosing
    <3>3. 2 \in i..Len(F)
      BY <3>2, <2>1
    <3> QED BY <3>3, <1>1, <2>1
  <2>4. Current(p) # "add-member"
    BY <1>1, <2>1, <2>2 DEF Choosing
  <2> QED BY <2>3, <2>4
<1>10. ASSUME call[p].call = "schedule"
      PROVE  /\ Current(p) \in {"add-schedule", "commit"} => "category" \notin Left(p) /\ "access" \notin Left(p)
             /\ Current(p) = "access" => "category" \notin Left(p)
             /\ Current(p) = "category" => "access" \in Left(p)
  <2>1. /\ Len(F) = 4 /\ F[1] = "category" /\ F[2] = "access" /\ F[3] = "add-schedule"
        /\ F[4] = "commit"
    BY <1>2, <1>10, FullSchedule
  <2> HIDE DEF F
  <2>2. i = 1 \/ i = 2 \/ i = 3 \/ i = 4
    BY <1>1, <2>1
  <2>3. Current(p) \in {"add-schedule", "commit"} => "category" \notin Left(p) /\ "access" \notin Left(p)
    <3>1. SUFFICES ASSUME Current(p) \in {"add-schedule", "commit"} PROVE "category" \notin Left(p) /\ "access" \notin Left(p)
      OBVIOUS
    <3>2. i = 3 \/ i = 4
      BY <3>1, <1>1, <2>1, <2>2 DEF Choosing
    <3>3. ASSUME NEW j \in i..Len(F) PROVE F[j] # "category" /\ F[j] # "access"
      <4>1. j = 3 \/ j = 4
        BY <3>2, <2>1
      <4> QED BY <4>1, <2>1
    <3> QED BY <3>3, <1>1
  <2>4. Current(p) = "access" => "category" \notin Left(p)
    <3>1. SUFFICES ASSUME Current(p) = "access" PROVE "category" \notin Left(p)
      OBVIOUS
    <3>2. i = 2
      BY <3>1, <1>1, <2>1, <2>2 DEF Choosing
    <3>3. ASSUME NEW j \in i..Len(F) PROVE F[j] # "category"
      <4>1. j = 2 \/ j = 3 \/ j = 4
        BY <3>2, <2>1
      <4> QED BY <4>1, <2>1
    <3> QED BY <3>3, <1>1
  <2>5. Current(p) = "category" => "access" \in Left(p)
    <3>1. SUFFICES ASSUME Current(p) = "category" PROVE "access" \in Left(p)
      OBVIOUS
    <3>2. i = 1
      BY <3>1, <1>1, <2>1, <2>2 DEF Choosing
    <3>3. 2 \in i..Len(F)
      BY <3>2, <2>1
    <3> QED BY <3>3, <1>1, <2>1
  <2> QED BY <2>3, <2>4, <2>5
<1>11. ASSUME call[p].call = "journal"
      PROVE  /\ Current(p) = "add-source" => "account" \notin Left(p) /\ "access" \notin Left(p)
  <2>1. /\ Len(F) = 4 /\ F[1] = "account" /\ F[2] = "access" /\ F[3] = "add-source"
        /\ F[4] = "commit"
    BY <1>2, <1>11, FullJournal
  <2> HIDE DEF F
  <2>2. i = 1 \/ i = 2 \/ i = 3 \/ i = 4
    BY <1>1, <2>1
  <2>3. Current(p) = "add-source" => "account" \notin Left(p) /\ "access" \notin Left(p)
    <3>1. SUFFICES ASSUME Current(p) = "add-source" PROVE "account" \notin Left(p) /\ "access" \notin Left(p)
      OBVIOUS
    <3>2. i = 3
      BY <3>1, <1>1, <2>1, <2>2 DEF Choosing
    <3>3. ASSUME NEW j \in i..Len(F) PROVE F[j] # "account" /\ F[j] # "access"
      <4>1. j = 3 \/ j = 4
        BY <3>2, <2>1
      <4> QED BY <4>1, <2>1
    <3> QED BY <3>3, <1>1
  <2> QED BY <2>3
<1> QED BY <1>3, <1>4, <1>5, <1>6, <1>7, <1>8, <1>9, <1>10, <1>11

\* a function reads before it writes
LEMMA ReadsFirst ==
    ASSUME FInv, NEW p \in Proc, Busy(p), OnTrack(p), Current(p) \notin Reads
    PROVE  Reads \cap Left(p) = {}
<1> DEFINE F == Full(call[p])
<1>1. PICK i \in 1..Len(F) : Current(p) = F[i] /\ Left(p) = {F[j] : j \in i..Len(F)}
  BY Position
<1>2. call[p] \in Calls
  BY DEF FInv, TypeOK
<1>3. SUFFICES ASSUME NEW j \in i..Len(F) PROVE F[j] \notin Reads
  BY <1>1
<1>4. F[i] \notin Reads
  BY <1>1
<1>5. CASE call[p].call = "dissolve"
  <2>1. /\ Len(F) = 12
        /\ F[1] = "owns-a-family"
        /\ F[2] = "delete-ledger" /\ F[3] = "delete-schedules"
        /\ F[4] = "delete-category"
        /\ F[5] = "schedules-left"
        /\ F[6] = "delete-account"
        /\ F[7] = "sources-left"
        /\ F[8] = "delete-invitations"
        /\ F[9] = "delete-members"
        /\ F[10] = "delete-family"
        /\ F[11] = "cascade-family"
        /\ F[12] = "commit"
    BY <1>2, <1>5, FullDissolve
  <2> HIDE DEF F
  <2>2. F[1] \in Reads
    BY <2>1 DEF Reads
  <2>3. F[2] \notin Reads /\ F[3] \notin Reads /\ F[4] \notin Reads /\ F[5] \notin Reads /\ F[6] \notin Reads /\ F[7] \notin Reads /\ F[8] \notin Reads /\ F[9] \notin Reads /\ F[10] \notin Reads /\ F[11] \notin Reads /\ F[12] \notin Reads
    BY <2>1 DEF Reads
  <2>4. i # 1
    BY <2>2, <1>4
  <2>5. j = 2 \/ j = 3 \/ j = 4 \/ j = 5 \/ j = 6 \/ j = 7 \/ j = 8 \/ j = 9 \/ j = 10 \/ j = 11 \/ j = 12
    BY <2>1, <2>4
  <2> QED BY <2>3, <2>5
<1>6. CASE call[p].call = "delete"
  <2>1. /\ Len(F) = 9
        /\ F[1] = "known-user"
        /\ F[2] = "no-family"
        /\ F[3] = "reassign-schedules"
        /\ F[4] = "delete-invitations"
        /\ F[5] = "delete-ledger" /\ F[6] = "delete-user"
        /\ F[7] = "rows-left"
        /\ F[8] = "cascade-user"
        /\ F[9] = "commit"
    BY <1>2, <1>6, FullDelete
  <2> HIDE DEF F
  <2>2. F[1] \in Reads /\ F[2] \in Reads
    BY <2>1 DEF Reads
  <2>3. F[3] \notin Reads /\ F[4] \notin Reads /\ F[5] \notin Reads /\ F[6] \notin Reads /\ F[7] \notin Reads /\ F[8] \notin Reads /\ F[9] \notin Reads
    BY <2>1 DEF Reads
  <2>4. i # 1 /\ i # 2
    BY <2>2, <1>4
  <2>5. j = 3 \/ j = 4 \/ j = 5 \/ j = 6 \/ j = 7 \/ j = 8 \/ j = 9
    BY <2>1, <2>4
  <2> QED BY <2>3, <2>5
<1>7. CASE call[p].call = "leave"
  <2>1. /\ Len(F) = 4
        /\ F[1] = "member-of-a-family"
        /\ F[2] = "reassign-schedules"
        /\ F[3] = "delete-membership"
        /\ F[4] = "commit"
    BY <1>2, <1>7, FullLeave
  <2> HIDE DEF F
  <2>2. F[1] \in Reads
    BY <2>1 DEF Reads
  <2>3. F[2] \notin Reads /\ F[3] \notin Reads /\ F[4] \notin Reads
    BY <2>1 DEF Reads
  <2>4. i # 1
    BY <2>2, <1>4
  <2>5. j = 2 \/ j = 3 \/ j = 4
    BY <2>1, <2>4
  <2> QED BY <2>3, <2>5
<1>8. CASE call[p].call = "create"
  <2>1. /\ Len(F) = 5
        /\ F[1] = "no-family"
        /\ F[2] = "known-user"
        /\ F[3] = "add-family"
        /\ F[4] = "add-owner"
        /\ F[5] = "commit"
    BY <1>2, <1>8, FullCreate
  <2> HIDE DEF F
  <2>2. F[1] \in Reads /\ F[2] \in Reads
    BY <2>1 DEF Reads
  <2>3. F[3] \notin Reads /\ F[4] \notin Reads /\ F[5] \notin Reads
    BY <2>1 DEF Reads
  <2>4. i # 1 /\ i # 2
    BY <2>2, <1>4
  <2>5. j = 3 \/ j = 4 \/ j = 5
    BY <2>1, <2>4
  <2> QED BY <2>3, <2>5
<1>9. CASE call[p].call = "invite"
  <2>1. /\ Len(F) = 5
        /\ F[1] = "owns-a-family"
        /\ F[2] = "invited-is-free"
        /\ F[3] = "not-invited-yet"
        /\ F[4] = "add-invitation"
        /\ F[5] = "commit"
    BY <1>2, <1>9, FullInvite
  <2> HIDE DEF F
  <2>2. F[1] \in Reads /\ F[2] \in Reads /\ F[3] \in Reads
    BY <2>1 DEF Reads
  <2>3. F[4] \notin Reads /\ F[5] \notin Reads
    BY <2>1 DEF Reads
  <2>4. i # 1 /\ i # 2 /\ i # 3
    BY <2>2, <1>4
  <2>5. j = 4 \/ j = 5
    BY <2>1, <2>4
  <2> QED BY <2>3, <2>5
<1>10. CASE call[p].call = "answer" /\ call[p].accept
  <2>1. /\ Len(F) = 5
        /\ F[1] = "pending-invitation"
        /\ F[2] = "no-family"
        /\ F[3] = "add-member"
        /\ F[4] = "answer"
        /\ F[5] = "commit"
    BY <1>2, <1>10, FullAccept
  <2> HIDE DEF F
  <2>2. F[1] \in Reads /\ F[2] \in Reads
    BY <2>1 DEF Reads
  <2>3. F[3] \notin Reads /\ F[4] \notin Reads /\ F[5] \notin Reads
    BY <2>1 DEF Reads
  <2>4. i # 1 /\ i # 2
    BY <2>2, <1>4
  <2>5. j = 3 \/ j = 4 \/ j = 5
    BY <2>1, <2>4
  <2> QED BY <2>3, <2>5
<1>11. CASE call[p].call = "answer" /\ ~call[p].accept
  <2>1. /\ Len(F) = 3
        /\ F[1] = "pending-invitation"
        /\ F[2] = "answer"
        /\ F[3] = "commit"
    BY <1>2, <1>11, FullDecline
  <2> HIDE DEF F
  <2>2. F[1] \in Reads
    BY <2>1 DEF Reads
  <2>3. F[2] \notin Reads /\ F[3] \notin Reads
    BY <2>1 DEF Reads
  <2>4. i # 1
    BY <2>2, <1>4
  <2>5. j = 2 \/ j = 3
    BY <2>1, <2>4
  <2> QED BY <2>3, <2>5
<1>12. CASE call[p].call = "schedule"
  <2>1. /\ Len(F) = 4
        /\ F[1] = "category"
        /\ F[2] = "access"
        /\ F[3] = "add-schedule"
        /\ F[4] = "commit"
    BY <1>2, <1>12, FullSchedule
  <2> HIDE DEF F
  <2>2. F[1] \in Reads /\ F[2] \in Reads
    BY <2>1 DEF Reads
  <2>3. F[3] \notin Reads /\ F[4] \notin Reads
    BY <2>1 DEF Reads
  <2>4. i # 1 /\ i # 2
    BY <2>2, <1>4
  <2>5. j = 3 \/ j = 4
    BY <2>1, <2>4
  <2> QED BY <2>3, <2>5
<1>13. CASE call[p].call = "journal"
  <2>1. /\ Len(F) = 4
        /\ F[1] = "account"
        /\ F[2] = "access"
        /\ F[3] = "add-source"
        /\ F[4] = "commit"
    BY <1>2, <1>13, FullJournal
  <2> HIDE DEF F
  <2>2. F[1] \in Reads /\ F[2] \in Reads
    BY <2>1 DEF Reads
  <2>3. F[3] \notin Reads /\ F[4] \notin Reads
    BY <2>1 DEF Reads
  <2>4. i # 1 /\ i # 2
    BY <2>2, <1>4
  <2>5. j = 3 \/ j = 4
    BY <2>1, <2>4
  <2> QED BY <2>3, <2>5
<1> QED BY <1>2, Kinds, <1>5, <1>6, <1>7, <1>8, <1>9, <1>10, <1>11, <1>12, <1>13

(***************************************************************************)
(* A step that commits nothing, seen from another call.                     *)
(***************************************************************************)
Quiet(p) ==
    /\ committed' = committed /\ contested' = contested /\ drawn \subseteq drawn'
    /\ \A q \in Proc \ {p} : Kept(q) /\ alongside[q] \subseteq alongside'[q]
    /\ \A o \in Proc : Busy(o)' => Drew(o)

LEMMA UnbornStays ==
    ASSUME NEW p \in Proc, Quiet(p), NEW r, r[1] \in Serial, Unborn(r)
    PROVE  Unborn(r)'
<1>1. r[2] \in drawn'
  BY DEF Unborn, Quiet
<1>2. \A o \in Proc : Busy(o)' => NewRow(o)' # r
  BY NotNew DEF Unborn, Quiet
<1> QED BY <1>1, <1>2 DEF Unborn

\* the rows of an answer and of a plan
LEMMA HistoryRows ==
    ASSUME FInv, WInv, NEW q \in Proc, Busy(q)
    PROVE  /\ call[q].call = "answer" =>
                 /\ call[q].invitation \in Invitation
                 /\ InvitationRow(call[q].invitation) \in Table
                 /\ InvitationRow(call[q].invitation)[1] = "invitation"
           /\ call[q].call \in {"schedule", "journal"} => family[q] \in Family
           /\ MemberRow(Doer(q)) \in Table /\ UserRow(Doer(q)) \in Table
           /\ "invitation" \in Serial /\ "family" \in Serial
<1>1. Runs(q)
  BY Running
<1>2. call[q].call \in {"schedule", "journal"} => family[q] \in Family
  BY <1>1, Calling DEF Runs, Fresh, NewKind
<1> QED BY <1>2, Calling, InvitationRows, UserRows DEF Serial

LEMMA OverKept ==
    ASSUME NEW q \in Proc, Kept(q), NEW s, NEW l
    PROVE  Over(q, s, l)' <=> Over(q, s, l)
  BY KeptState DEF Over, Kept

LEMMA HistoryElsewhere ==
    ASSUME FInv, WInv, NEW p \in Proc, Quiet(p), NEW q \in Proc \ {p}, Busy(q),
           Answers(q), Plans(q), Leaves(q), NotYet(q), alongside'[q] # {}
    PROVE  Answers(q)' /\ Plans(q)' /\ Leaves(q)' /\ NotYet(q)' /\ Alone(q)'
<1>1. Kept(q) /\ alongside[q] \subseteq alongside'[q] /\ committed' = committed /\ contested' = contested
  BY DEF Quiet
<1>2. Left(q)' = Left(q) /\ Ahead(q)' = Ahead(q) /\ Doer(q)' = Doer(q) /\ NewRow(q)' = NewRow(q)
  BY <1>1, KeptState
<1>3. call'[q] = call[q] /\ family'[q] = family[q] /\ written'[q] = written[q]
  BY <1>1 DEF Kept
<1>4. (AnsweredBeside(q) => AnsweredBeside(q)') /\ (LeftBeside(q) => LeftBeside(q)')
      /\ (Orphaned(q) <=> Orphaned(q)')
  BY <1>1, <1>2, <1>3 DEF AnsweredBeside, LeftBeside, Orphaned, FamilyRow, UserRow
<1>5. \A r : Visible(q, r)' = Visible(q, r)
  BY <1>1, <1>3 DEF Visible
<1>6. Answers(q)'
  <2>1. CASE call[q].call = "answer" /\ Choosing \cap Left(q) = {}
    <3> DEFINE r == InvitationRow(call[q].invitation)
    <3>0. r' = r /\ Lock("update", r)' = Lock("update", r)
      BY <1>3 DEF InvitationRow, Lock
    <3>1. Unborn(r)
      BY <2>1 DEF Answers
    <3>2. Unborn(r)'
      BY <3>0, <3>1, <2>1, HistoryRows, UnbornStays
    <3>3. Over(q, "answer", Lock("update", r))' <=> Over(q, "answer", Lock("update", r))
      BY <3>0, <1>1, OverKept
    <3>4. /\ committed[r] # Absent =>
                /\ committed[r].family = family[q] /\ committed[r].invited = Doer(q)
                /\ committed[r].status # "pending" => AnsweredBeside(q)
          /\ committed[r] = Absent => Orphaned(q)
          /\ Over(q, "answer", Lock("update", r)) => written[q][r] # Same \/ committed[r] = Absent
      BY <2>1 DEF Answers
    <3> HIDE DEF r
    <3>5. /\ Unborn(r)'
          /\ committed'[r] # Absent =>
                /\ committed'[r].family = family'[q] /\ committed'[r].invited = Doer(q)'
                /\ committed'[r].status # "pending" => AnsweredBeside(q)'
          /\ committed'[r] = Absent => Orphaned(q)'
          /\ Over(q, "answer", Lock("update", r))' => written'[q][r] # Same \/ committed'[r] = Absent
      BY <3>2, <3>3, <3>4, <1>1, <1>2, <1>3, <1>4
    <3> QED BY <3>0, <3>5 DEF Answers, r
  <2>2. CASE ~(call[q].call = "answer" /\ Choosing \cap Left(q) = {})
    BY <2>2, <1>2, <1>3 DEF Answers
  <2> QED BY <2>1, <2>2
<1>7. Plans(q)'
  <2>1. CASE call[q].call = "schedule" /\ {"category", "access"} \cap Left(q) = {}
    <3>1. Unborn(FamilyRow(family[q]))
      BY <2>1 DEF Plans
    <3>2. FamilyRow(family[q])' = FamilyRow(family[q]) /\ MemberRow(Doer(q))' = MemberRow(Doer(q))
      BY <1>2, <1>3 DEF FamilyRow, MemberRow
    <3>3. Unborn(FamilyRow(family[q]))'
      BY <3>1, <3>2, <2>1, HistoryRows, FamilyRows, UnbornStays
    <3> QED BY <2>1, <3>2, <3>3, <1>1, <1>2, <1>3, <1>4 DEF Plans
  <2>2. CASE ~(call[q].call = "schedule" /\ {"category", "access"} \cap Left(q) = {})
    BY <2>2, <1>2, <1>3 DEF Plans
  <2> QED BY <2>1, <2>2
<1>8. Leaves(q)'
  <2>1. \A r : StillOwn(q, r)' <=> StillOwn(q, r)
    BY <1>2, <1>3, <1>5 DEF StillOwn, IsThere
  <2>2. \A r : Over(q, "reassign-schedules", Lock("update", r))'
               <=> Over(q, "reassign-schedules", Lock("update", r))
    BY <1>1, OverKept DEF Lock
  <2> QED BY <2>1, <2>2, <1>1, <1>2, <1>3 DEF Leaves
<1>9. NotYet(q)'
  BY <1>2, <1>3 DEF NotYet, MemberRow
<1> QED BY <1>6, <1>7, <1>8, <1>9 DEF Alone

\* a step of p that commits nothing keeps what is known if p keeps its own
LEMMA HistoryTogether ==
    ASSUME FInv, WInv, HInv, NEW p \in Proc, Quiet(p), DOMAIN alongside' = Proc,
           \A q \in Proc \ {p} : Busy(p)' /\ Busy(q) => call'[p] \in alongside'[q] /\ call[q] \in alongside'[p],
           \A q \in Proc \ {p} : Busy(q) => alongside'[q] # {},
           Busy(p)' => Answers(p)' /\ Plans(p)' /\ Leaves(p)' /\ NotYet(p)' /\ Alone(p)'
    PROVE  HInv'
<1>1. committed' = committed /\ contested' = contested
      /\ \A q \in Proc \ {p} : Kept(q) /\ alongside[q] \subseteq alongside'[q]
  BY DEF Quiet
<1>2. \A q \in Proc \ {p} : (Busy(q)' <=> Busy(q)) /\ call'[q] = call[q]
  BY <1>1, KeptState DEF Kept
<1>3. Beside'
  <2>1. ASSUME NEW o \in Proc, NEW q \in Proc \ {o}, Busy(o)', Busy(q)' PROVE call'[o] \in alongside'[q]
    <3>1. CASE o = p
      BY <3>1, <2>1, <1>2
    <3>2. CASE q = p
      BY <3>2, <2>1, <1>2
    <3>3. CASE o # p /\ q # p
      BY <3>3, <2>1, <1>1, <1>2 DEF HInv, Beside
    <3> QED BY <3>1, <3>2, <3>3
  <2> QED BY <2>1 DEF Beside
<1>4. JoinedByInvitation' /\ SchedulesHaveAnAuthorInTheFamily'
  <2>1. MembersJoined(committed, contested)' /\ AuthorsBelong(committed, contested)'
    BY <1>1 DEF HInv, JoinedByInvitation, SchedulesHaveAnAuthorInTheFamily, MembersJoined, AuthorsBelong
  <2> QED BY <2>1 DEF JoinedByInvitation, SchedulesHaveAnAuthorInTheFamily
<1>5. ASSUME NEW q \in Proc, Busy(q)'
      PROVE  Answers(q)' /\ Plans(q)' /\ Leaves(q)' /\ NotYet(q)' /\ Alone(q)'
  <2>1. CASE q = p
    BY <2>1, <1>5
  <2>2. CASE q # p
    <3>1. Busy(q) /\ alongside'[q] # {}
      BY <2>2, <1>2, <1>5
    <3>2. Answers(q) /\ Plans(q) /\ Leaves(q) /\ NotYet(q)
      BY <3>1 DEF HInv
    <3> QED BY <2>2, <3>1, <3>2, HistoryElsewhere
  <2> QED BY <2>1, <2>2
<1> QED BY <1>3, <1>4, <1>5 DEF HInv

\* a call that has begun is beside every other one
LEMMA BesideAll ==
    ASSUME HInv, NEW p \in Proc, NEW q \in Proc \ {p}, Busy(p), Busy(q)
    PROVE  call[p] \in alongside[q] /\ call[q] \in alongside[p]
  BY DEF HInv, Beside

\* a step of a statement of p: alongside is as it was
LEMMA HistoryOfStep ==
    ASSUME FInv, WInv, HInv, NEW p \in Proc, Busy(p), UNCHANGED <<committed, call, new, history>>,
           \A q \in Proc \ {p} : Kept(q),
           Answers(p)' /\ Plans(p)' /\ Leaves(p)' /\ NotYet(p)' /\ Alone(p)'
    PROVE  HInv'
<1>1. drawn' = drawn /\ alongside' = alongside /\ contested' = contested
  BY DEF history
<1>2. NewRow(p)' = NewRow(p)
  BY DEF NewRow
<1>3. \A o \in Proc : Busy(o)' => Drew(o)
  BY <1>2, KeptState DEF Drew
<1>4. Quiet(p)
  BY <1>1, <1>3 DEF Quiet
<1>5. \A q \in Proc \ {p} : Busy(q) => call[p] \in alongside[q] /\ call[q] \in alongside[p]
  BY BesideAll
<1>6. DOMAIN alongside = Proc
  BY DEF HInv
<1> QED BY <1>1, <1>4, <1>5, <1>6, HistoryTogether

LEMMA RollbackKeepsHInv ==
    ASSUME FInv, WInv, HInv, NEW p \in Proc, Busy(p), Rollback(p) PROVE HInv'
<1>1. EndTransaction(p) /\ committed' = committed /\ drawn' = drawn /\ contested' = contested
      /\ alongside' = [alongside EXCEPT ![p] = {}]
  BY DEF Rollback, EndTransaction
<1>2. ~Busy(p)' /\ \A q \in Proc \ {p} : Kept(q)
  BY <1>1, EndKeeps
<1>3. \A q \in Proc \ {p} : alongside'[q] = alongside[q] /\ (Busy(q)' <=> Busy(q)) /\ NewRow(q)' = NewRow(q)
  BY <1>1, <1>2, KeptState
<1>4. DOMAIN alongside' = Proc
  BY <1>1 DEF HInv
<1>5. Beside'
  BY <1>2, <1>3 DEF HInv, Beside, Kept
<1>6. \A o \in Proc : Busy(o)' => Drew(o)
  BY <1>2, <1>3 DEF Drew
<1>7. Quiet(p)
  BY <1>1, <1>2, <1>3, <1>6 DEF Quiet
<1>8. JoinedByInvitation' /\ SchedulesHaveAnAuthorInTheFamily'
  <2>1. MembersJoined(committed, contested)' /\ AuthorsBelong(committed, contested)'
    BY <1>1 DEF HInv, JoinedByInvitation, SchedulesHaveAnAuthorInTheFamily, MembersJoined, AuthorsBelong
  <2> QED BY <2>1 DEF JoinedByInvitation, SchedulesHaveAnAuthorInTheFamily
<1>9. ASSUME NEW q \in Proc, Busy(q)'
      PROVE  Answers(q)' /\ Plans(q)' /\ Leaves(q)' /\ NotYet(q)' /\ Alone(q)'
  <2>1. q \in Proc \ {p} /\ Busy(q)
    BY <1>2, <1>3, <1>9
  <2>2. alongside'[q] # {}
    BY <2>1, <1>3, BesideAll
  <2>3. Answers(q) /\ Plans(q) /\ Leaves(q) /\ NotYet(q)
    BY <2>1 DEF HInv
  <2> QED BY <2>1, <2>2, <2>3, <1>7, HistoryElsewhere
<1> QED BY <1>4, <1>5, <1>8, <1>9 DEF HInv

LEMMA InitHInv == Init => HInv
<1> SUFFICES ASSUME Init PROVE HInv
  OBVIOUS
<1>1. MembersJoined(committed, contested) /\ AuthorsBelong(committed, contested)
  BY StartsAssumption DEF Init
<1>2. \A p \in Proc : ~Busy(p)
  BY DEF Init, Busy
<1>3. DOMAIN alongside = Proc
  BY DEF Init
<1> QED BY <1>1, <1>2, <1>3 DEF HInv, Beside, JoinedByInvitation, SchedulesHaveAnAuthorInTheFamily

(***************************************************************************)
(* A call begins: it has read and written nothing.                          *)
(***************************************************************************)
LEMMA BegunState ==
    ASSUME FInv, WInv, NEW p \in Proc, NEW c \in Calls, Begin(p, c)
    PROVE  /\ ~Busy(p) /\ call'[p] = c /\ queue'[p] = <<>> /\ \A r \in Table : written'[p][r] = Same
           /\ committed' = committed /\ contested' = contested /\ drawn \subseteq drawn'
           /\ Drew(p) /\ \A q \in Proc \ {p} : Kept(q)
           /\ \A k \in 1..Len(Full(c)) : Full(c)[k] \in Left(p)'
<1>1. /\ ~Busy(p)
      /\ program' = [program EXCEPT ![p] = Full(c)] /\ call' = [call EXCEPT ![p] = c]
      /\ UNCHANGED <<committed, holder, sharers, queue, written, contested>>
      /\ family' = [family EXCEPT ![p] = IF c.call \in {"schedule", "journal"} THEN c.family
                                         ELSE IF c.call = "create" THEN new'[p] ELSE Absent]
      /\ \/ c.call \in {"answer", "leave", "dissolve", "delete"} /\ UNCHANGED <<new, drawn>>
         \/ \E id \in NewIds(c) \ drawn : new' = [new EXCEPT ![p] = id] /\ drawn' = drawn \cup {id}
  BY DEF Begin, Full
<1>2. ASSUME NEW q \in Proc \ {p} PROVE Kept(q)
  <2>1. /\ call'[q] = call[q] /\ program'[q] = program[q] /\ queue'[q] = queue[q]
        /\ written'[q] = written[q]
    BY <1>1, <1>2 DEF FInv, Shapes
  <2>2. family'[q] = family[q] /\ new'[q] = new[q]
    BY <1>1, <1>2 DEF WInv, Domains
  <2> QED BY <1>1, <2>1, <2>2 DEF Kept
<1>3. program'[p] = Full(c) /\ call'[p] = c /\ queue'[p] = <<>> /\ written'[p] = NoWrites
  BY <1>1 DEF FInv, Shapes, TypeOK
<1>4. drawn \subseteq drawn' /\ (NewKind(c) # "none" => new'[p] \notin drawn)
  <2>1. CASE c.call \in {"answer", "leave", "dissolve", "delete"} /\ UNCHANGED <<new, drawn>>
    BY <2>1 DEF NewKind
  <2>2. CASE \E id \in NewIds(c) \ drawn : new' = [new EXCEPT ![p] = id] /\ drawn' = drawn \cup {id}
    BY <2>2 DEF WInv, Domains
  <2> QED BY <1>1, <2>1, <2>2
<1>5. Drew(p)
  BY <1>3, <1>4 DEF Drew
<1>6. \A k \in 1..Len(Full(c)) : Full(c)[k] \in Left(p)'
  BY <1>3 DEF Left
<1> QED BY <1>1, <1>2, <1>3, <1>4, <1>5, <1>6 DEF NoWrites

LEMMA BeginKeepsHInv ==
    ASSUME FInv, WInv, HInv, NEW p \in Proc, NEW c \in Calls, Begin(p, c) PROVE HInv'
<1> DEFINE open == {q \in Proc : Busy(q)}
<1>1. /\ ~Busy(p) /\ call'[p] = c /\ queue'[p] = <<>> /\ \A r \in Table : written'[p][r] = Same
      /\ committed' = committed /\ contested' = contested /\ drawn \subseteq drawn'
      /\ Drew(p) /\ \A q \in Proc \ {p} : Kept(q)
      /\ \A k \in 1..Len(Full(c)) : Full(c)[k] \in Left(p)'
  BY BegunState
<1>2. /\ alongside' = [q \in Proc |-> IF q = p THEN {call[o] : o \in open}
                                        ELSE IF q \in open THEN alongside[q] \cup {c}
                                        ELSE alongside[q]]
  BY DEF Begin
<1>3. DOMAIN alongside' = Proc
  BY <1>2
<1>4. ASSUME NEW q \in Proc \ {p}
      PROVE  /\ Kept(q) /\ alongside[q] \subseteq alongside'[q]
             /\ Busy(q) => c \in alongside'[q] /\ call[q] \in alongside'[p] /\ alongside'[q] # {}
  <2>1. alongside'[q] = IF q \in open THEN alongside[q] \cup {c} ELSE alongside[q]
    BY <1>2, <1>4
  <2>2. alongside'[p] = {call[o] : o \in open}
    BY <1>2
  <2>3. Busy(q) <=> q \in open
    BY <1>4
  <2> HIDE DEF open
  <2>4. alongside[q] \subseteq alongside'[q] /\ (q \in open => c \in alongside'[q] /\ alongside'[q] # {})
    BY <2>1
  <2>5. q \in open => call[q] \in alongside'[p]
    BY <2>2
  <2> QED BY <2>3, <2>4, <2>5, <1>1
<1>5. \A o \in Proc : Busy(o)' => Drew(o)
  <2>1. ASSUME NEW o \in Proc \ {p}, Busy(o)' PROVE Drew(o)
    BY <2>1, <1>1, KeptState DEF Drew
  <2> QED BY <2>1, <1>1
<1> HIDE DEF open
<1>14. \A q \in Proc \ {p} : Kept(q) /\ alongside[q] \subseteq alongside'[q]
  BY <1>1, <1>4
<1>6. Quiet(p)
  BY <1>1, <1>14, <1>5 DEF Quiet
<1>12. \A q \in Proc \ {p} : Busy(p)' /\ Busy(q) => call'[p] \in alongside'[q] /\ call[q] \in alongside'[p]
  BY <1>1, <1>4
<1>13. \A q \in Proc \ {p} : Busy(q) => alongside'[q] # {}
  BY <1>4
<1> DEFINE F == Full(c)
<1>7. /\ c.call \in {"invite", "leave", "answer", "dissolve"} => Choosing \cap Left(p)' # {}
      /\ c.call = "schedule" => "category" \in Left(p)' /\ "access" \in Left(p)'
      /\ c.call = "journal" => "account" \in Left(p)' /\ "access" \in Left(p)'
      /\ c.call = "invite" => "invited-is-free" \in Left(p)' /\ "not-invited-yet" \in Left(p)'
      /\ c.call \in {"create", "delete"} \/ (c.call = "answer" /\ c.accept) => "no-family" \in Left(p)'
      /\ c.call \in {"create", "delete"} => "known-user" \in Left(p)'
      /\ c.call = "dissolve" => "delete-schedules" \in Left(p)'
      /\ c.call = "delete" => "reassign-schedules" \in Left(p)'
  <2>1. \A k \in 1..Len(F) : F[k] \in Left(p)'
    BY <1>1
  <2>2. CASE c.call = "dissolve"
    <3>1. Len(F) = 12 /\ F[1] = "owns-a-family" /\ F[2] = "delete-ledger" /\ F[3] = "delete-schedules"
      BY <2>2, FullDissolve
    <3> HIDE DEF F
    <3>2. 1 \in 1..Len(F) /\ 3 \in 1..Len(F)
      BY <3>1
    <3> QED BY <2>1, <2>2, <3>1, <3>2 DEF Choosing
  <2>3. CASE c.call = "delete"
    <3>1. Len(F) = 9 /\ F[1] = "known-user" /\ F[2] = "no-family" /\ F[3] = "reassign-schedules"
      BY <2>3, FullDelete
    <3> HIDE DEF F
    <3>2. 1 \in 1..Len(F) /\ 2 \in 1..Len(F) /\ 3 \in 1..Len(F)
      BY <3>1
    <3> QED BY <2>1, <2>3, <3>1, <3>2
  <2>4. CASE c.call = "create"
    <3>1. Len(F) = 5 /\ F[1] = "no-family" /\ F[2] = "known-user"
      BY <2>4, FullCreate
    <3> HIDE DEF F
    <3>2. 1 \in 1..Len(F) /\ 2 \in 1..Len(F)
      BY <3>1
    <3> QED BY <2>1, <2>4, <3>1, <3>2
  <2>5. CASE c.call = "invite"
    <3>1. Len(F) = 5 /\ F[1] = "owns-a-family" /\ F[2] = "invited-is-free" /\ F[3] = "not-invited-yet"
      BY <2>5, FullInvite
    <3> HIDE DEF F
    <3>2. 1 \in 1..Len(F) /\ 2 \in 1..Len(F) /\ 3 \in 1..Len(F)
      BY <3>1
    <3> QED BY <2>1, <2>5, <3>1, <3>2 DEF Choosing
  <2>6. CASE c.call = "leave"
    <3>1. Len(F) = 4 /\ F[1] = "member-of-a-family"
      BY <2>6, FullLeave
    <3> HIDE DEF F
    <3>2. 1 \in 1..Len(F)
      BY <3>1
    <3> QED BY <2>1, <2>6, <3>1, <3>2 DEF Choosing
  <2>7. CASE c.call = "answer" /\ c.accept
    <3>1. Len(F) = 5 /\ F[1] = "pending-invitation" /\ F[2] = "no-family"
      BY <2>7, FullAccept
    <3> HIDE DEF F
    <3>2. 1 \in 1..Len(F) /\ 2 \in 1..Len(F)
      BY <3>1
    <3> QED BY <2>1, <2>7, <3>1, <3>2 DEF Choosing
  <2>8. CASE c.call = "answer" /\ ~c.accept
    <3>1. Len(F) = 3 /\ F[1] = "pending-invitation"
      BY <2>8, FullDecline
    <3> HIDE DEF F
    <3>2. 1 \in 1..Len(F)
      BY <3>1
    <3> QED BY <2>1, <2>8, <3>1, <3>2 DEF Choosing
  <2>9. CASE c.call = "schedule"
    <3>1. Len(F) = 4 /\ F[1] = "category" /\ F[2] = "access"
      BY <2>9, FullSchedule
    <3> HIDE DEF F
    <3>2. 1 \in 1..Len(F) /\ 2 \in 1..Len(F)
      BY <3>1
    <3> QED BY <2>1, <2>9, <3>1, <3>2
  <2>10. CASE c.call = "journal"
    <3>1. Len(F) = 4 /\ F[1] = "account" /\ F[2] = "access"
      BY <2>10, FullJournal
    <3> HIDE DEF F
    <3>2. 1 \in 1..Len(F) /\ 2 \in 1..Len(F)
      BY <3>1
    <3> QED BY <2>1, <2>10, <3>1, <3>2
  <2> QED BY <2>2, <2>3, <2>4, <2>5, <2>6, <2>7, <2>8, <2>9, <2>10, Kinds
<1>8. Answers(p)' /\ Plans(p)' /\ Leaves(p)'
  BY <1>1, <1>7 DEF Answers, Plans, Leaves
<1>9. Doer(p)' = c.user /\ c.user \in User
  BY <1>1, FamiliesAssumption DEF Doer
<1>10. NotYet(p)'
  <2>1. MemberRow(Doer(p))' = MemberRow(c.user) /\ MemberRow(c.user) \in Table
    BY <1>9, UserRows DEF MemberRow
  <2>2. c.call = "invite" => written'[p][NewRow(p)'] = Same
    <3>1. SUFFICES ASSUME c.call = "invite" PROVE NewRow(p)' \in Table
      BY <1>1
    <3>2. WInv'
      BY BeginKeepsWInv
    <3>3. Busy(p)'
      BY BegunProgram DEF Begin, Busy, FInv, Shapes
    <3>4. Fresh(p)'
      BY <3>2, <3>3 DEF WInv, Runs
    <3>5. new'[p] \in Invitation
      BY <3>1, <3>4, <1>1 DEF Fresh, NewKind, NewIds
    <3>6. NewRow(p)' = InvitationRow(new'[p])
      BY <3>1, <1>1 DEF NewRow, NewKind, InvitationRow
    <3> QED BY <3>5, <3>6, InvitationRows
  <2> QED BY <1>1, <2>1, <2>2 DEF NotYet
<1>11. Alone(p)'
  <2>1. ReadAlone(p)'
    BY <1>1, <1>7 DEF ReadAlone
  <2>2. \A s, l : s \in Left(p)' => ~Over(p, s, l)'
    BY <1>1 DEF Over
  <2>3. SweptAlone(p)'
    BY <1>1, <1>7, <2>2 DEF SweptAlone
  <2> QED BY <2>1, <2>3 DEF Alone
<1> HIDE DEF F
<1> QED BY <1>3, <1>6, <1>8, <1>10, <1>11, <1>12, <1>13, HistoryTogether

(***************************************************************************)
(* A read that goes on.                                                     *)
(***************************************************************************)
ReadStep(p) ==
    /\ Busy(p) /\ Current(p) \in Reads /\ Passes(p)
    /\ program'[p] = Tail(program[p]) /\ family'[p] = Selected(p)
    /\ UNCHANGED <<committed, holder, sharers, call, new, queue, written, history>>
    /\ \A q \in Proc \ {p} : Kept(q)

LEMMA ReadState ==
    ASSUME FInv, WInv, HInv, NEW p \in Proc, ReadStep(p)
    PROVE  /\ Left(p)' \subseteq Left(p) /\ Current(p) \in Left(p) /\ Current(p) \notin Left(p)'
           /\ \A s \in Left(p) : s # Current(p) => s \in Left(p)'
           /\ Doer(p)' = Doer(p) /\ NewRow(p)' = NewRow(p) /\ call'[p] = call[p]
           /\ \A r : Visible(p, r)' = Visible(p, r) /\ (IsThere(p, r)' <=> IsThere(p, r))
           /\ \A r \in Table : written[p][r] = Same /\ Visible(p, r) = committed[r]
           /\ \A s, l : s \notin Reads /\ Over(p, s, l)' => Over(p, s, l) /\ s \notin Left(p)'
           /\ \A r : Unborn(r) => Unborn(r)'
           /\ Current(p) \notin Choosing =>
                 family'[p] = family[p] /\ (Choosing \cap Left(p)' = {} <=> Choosing \cap Left(p) = {})
<1> USE DEF ReadStep
<1>0. Runs(p)
  BY Running
<1>1. /\ Left(p)' \subseteq Left(p) /\ Current(p) \in Left(p)
      /\ \A s \in Left(p) : s # Current(p) => s \in Left(p)'
  BY <1>0, Advanced DEF Runs, Reads
<1>2. Current(p) \notin Left(p)'
  BY <1>0, Behind DEF Runs
<1>3. Doer(p)' = Doer(p) /\ NewRow(p)' = NewRow(p) /\ call'[p] = call[p]
  BY DEF Doer, NewRow
<1>4. \A r : Visible(p, r)' = Visible(p, r) /\ (IsThere(p, r)' <=> IsThere(p, r))
  BY DEF Visible, IsThere
<1>5. \A r \in Table : written[p][r] = Same /\ Visible(p, r) = committed[r]
  <2>1. \A r \in Table : written[p][r] = Same
    BY <1>1 DEF HInv, NotYet
  <2> QED BY <2>1 DEF Visible
<1>6. queue[p] = <<>> /\ queue'[p] = <<>>
  BY DEF FInv, Connected
<1>7. ASSUME NEW s, s \notin Reads, NEW l, Over(p, s, l)' PROVE s \notin Left(p)' /\ Over(p, s, l)
  <2>1. s \notin Left(p)'
    BY <1>6, <1>7 DEF Over
  <2>2. s \notin Left(p)
    BY <1>1, <1>7, <2>1
  <2> QED BY <2>1, <2>2 DEF Over
<1>8. ASSUME NEW r, Unborn(r) PROVE Unborn(r)'
  <2>1. \A q \in Proc : Busy(q)' => Busy(q) /\ NewRow(q)' = NewRow(q)
    BY <1>3, KeptState
  <2>2. drawn' = drawn
    BY DEF history
  <2> QED BY <1>8, <2>1, <2>2 DEF Unborn
<1>9. Current(p) \notin Choosing =>
         family'[p] = family[p] /\ (Choosing \cap Left(p)' = {} <=> Choosing \cap Left(p) = {})
  <2>1. Current(p) \notin Choosing => family'[p] = family[p]
    BY DEF Selected, Choosing
  <2>2. Current(p) \notin Choosing => (Choosing \cap Left(p)' = {} <=> Choosing \cap Left(p) = {})
    BY <1>1
  <2> QED BY <2>1, <2>2
<1> QED BY <1>1, <1>2, <1>3, <1>4, <1>5, <1>7, <1>8, <1>9

LEMMA ThereIsBorn ==
    ASSUME FInv, WInv, NEW r \in Table, r[1] \in Serial, committed[r] # Absent
    PROVE  Unborn(r)
<1>1. r[2] \in drawn
  BY DEF WInv, DrawnIds
<1>2. ASSUME NEW q \in Proc, Busy(q) PROVE NewRow(q) # r
  <2>1. Fresh(q)
    BY <1>2, Running DEF Runs
  <2>2. NewRow(q)[1] = NewKind(call[q])
    BY DEF NewRow
  <2>3. NewKind(call[q]) # "none" => committed[NewRow(q)] = Absent
    BY <2>1 DEF Fresh
  <2> QED BY <2>2, <2>3 DEF Serial
<1> QED BY <1>1, <1>2 DEF Unborn

LEMMA ReadKeepsAnswers ==
    ASSUME FInv, WInv, HInv, NEW p \in Proc, ReadStep(p)
    PROVE  Answers(p)'
<1> DEFINE r == InvitationRow(call[p].invitation)
<1>0. Busy(p) /\ Current(p) \in Reads /\ Passes(p) /\ family'[p] = Selected(p) /\ committed' = committed
      /\ written' = written /\ alongside' = alongside
  BY DEF ReadStep, history
<1>1. Runs(p)
  BY <1>0, Running
<1>2. call'[p] = call[p] /\ Doer(p)' = Doer(p) /\ r' = r /\ Lock("update", r)' = Lock("update", r)
      /\ Current(p) \in Left(p)
  BY ReadState DEF InvitationRow, Lock
<1>3. SUFFICES ASSUME call[p].call = "answer", Choosing \cap Left(p)' = {} PROVE Answers(p)'
  BY <1>2 DEF Answers
<1>4. r \in Table /\ r[1] = "invitation" /\ "invitation" \in Serial
  BY <1>0, <1>3, HistoryRows
<1>5. "answer" \notin Reads
  BY DEF Reads
<1> HIDE DEF r
<1>6. /\ Over(p, "answer", Lock("update", r))' => Over(p, "answer", Lock("update", r))
      /\ Over(p, "answer", Lock("update", r))' => "answer" \notin Left(p)'
      /\ Unborn(r) => Unborn(r)'
  <2>1. \A l : Over(p, "answer", l)' => Over(p, "answer", l) /\ "answer" \notin Left(p)'
    BY <1>5, ReadState
  <2>2. \A x : Unborn(x) => Unborn(x)'
    BY ReadState
  <2> QED BY <1>2, <2>1, <2>2
<1>7. SUFFICES /\ Unborn(r)
               /\ committed[r] # Absent =>
                     /\ committed[r].family = family'[p] /\ committed[r].invited = Doer(p)
                     /\ committed[r].status # "pending" => AnsweredBeside(p)
               /\ committed[r] = Absent => committed[FamilyRow(family'[p])] = Absent \/ committed[UserRow(Doer(p))] = Absent
               /\ Over(p, "answer", Lock("update", r))' => written[p][r] # Same \/ committed[r] = Absent
  <2>1. AnsweredBeside(p)' <=> AnsweredBeside(p)
    BY <1>0, <1>2 DEF AnsweredBeside
  <2>2. Orphaned(p)' <=> committed[FamilyRow(family'[p])] = Absent \/ committed[UserRow(Doer(p))] = Absent
    BY <1>0, <1>2 DEF Orphaned, FamilyRow, UserRow
  <2>3. /\ Unborn(r)'
        /\ committed'[r] # Absent =>
              /\ committed'[r].family = family'[p] /\ committed'[r].invited = Doer(p)'
              /\ committed'[r].status # "pending" => AnsweredBeside(p)'
        /\ committed'[r] = Absent => Orphaned(p)'
        /\ Over(p, "answer", Lock("update", r))' => written'[p][r] # Same \/ committed'[r] = Absent
    BY <1>0, <1>2, <1>6, <1>7, <2>1, <2>2
  <2> QED BY <2>3, <1>2 DEF Answers, r
<1>8. CASE Current(p) \in Choosing
  <2>1. Current(p) = "pending-invitation"
    BY <1>0, <1>1, <1>3, <1>8, CallOf DEF Runs, Choosing
  <2>2. PICK f \in Family : IsPending(p, call[p].invitation, f, Doer(p))
    BY <1>0, <2>1 DEF Passes, CanAnswer
  <2>3. Visible(p, r) # Absent /\ Visible(p, r).status = "pending" /\ Visible(p, r).invited = Doer(p)
    BY <2>2 DEF IsPending, IsThere, r
  <2>4. Visible(p, r) = committed[r]
    BY <1>4, ReadState
  <2>5. family'[p] = committed[r].family
    BY <1>0, <2>1, <2>4 DEF Selected, r
  <2>6. "answer" \in Left(p)
    BY <1>0, <1>1, <1>3, <1>8, OrderOf DEF Runs
  <2>7. "answer" \in Left(p)'
    BY <2>1, <2>6, ReadState
  <2>8. Unborn(r)
    BY <1>4, <2>3, <2>4, ThereIsBorn
  <2> QED BY <2>3, <2>4, <2>5, <2>7, <2>8, <1>6
<1>9. CASE Current(p) \notin Choosing
  <2>1. family'[p] = family[p] /\ Choosing \cap Left(p) = {}
    BY <1>3, <1>9, ReadState
  <2>2. Answers(p)
    BY <1>0 DEF HInv
  <2> QED BY <1>3, <1>6, <2>1, <2>2 DEF Answers, Orphaned, r
<1> QED BY <1>8, <1>9

LEMMA ReadKeepsPlans ==
    ASSUME FInv, WInv, HInv, NEW p \in Proc, ReadStep(p)
    PROVE  Plans(p)'
<1>0. Busy(p) /\ Current(p) \in Reads /\ Passes(p) /\ family'[p] = Selected(p) /\ committed' = committed
      /\ alongside' = alongside
  BY DEF ReadStep, history
<1>1. Runs(p)
  BY <1>0, Running
<1>2. call'[p] = call[p] /\ Doer(p)' = Doer(p) /\ Current(p) \in Left(p) /\ Left(p)' \subseteq Left(p)
      /\ \A s \in Left(p) : s # Current(p) => s \in Left(p)'
  BY ReadState
<1>3. SUFFICES ASSUME call[p].call = "schedule", {"category", "access"} \cap Left(p)' = {}
               PROVE  Plans(p)'
  BY <1>2 DEF Plans
<1>4. Current(p) \notin Choosing
  BY <1>0, <1>1, <1>3, CallOf DEF Runs, Choosing
<1>5. family'[p] = family[p]
  BY <1>4, ReadState
<1>6. family[p] \in Family /\ MemberRow(Doer(p)) \in Table
  BY <1>0, <1>3, HistoryRows
<1>7. Current(p) # "category"
  <2>1. Current(p) = "category" => "access" \in Left(p)
    BY <1>0, <1>1, <1>3, OrderOf DEF Runs
  <2> QED BY <2>1, <1>2, <1>3
<1>8. SUFFICES /\ Unborn(FamilyRow(family[p]))
               /\ \/ /\ committed[MemberRow(Doer(p))] # Absent
                     /\ committed[MemberRow(Doer(p))].family = family[p]
                  \/ LeftBeside(p)
                  \/ Orphaned(p)
  <2>1. FamilyRow(family[p])' = FamilyRow(family[p]) /\ MemberRow(Doer(p))' = MemberRow(Doer(p))
    BY <1>2, <1>5 DEF FamilyRow, MemberRow
  <2>2. (LeftBeside(p)' <=> LeftBeside(p)) /\ (Orphaned(p)' <=> Orphaned(p))
    BY <1>0, <1>2, <1>5 DEF LeftBeside, Orphaned, FamilyRow, UserRow
  <2>3. Unborn(FamilyRow(family[p])) => Unborn(FamilyRow(family[p]))'
    <3>1. \A r : Unborn(r) => Unborn(r)'
      BY ReadState
    <3> QED BY <3>1, <2>1
  <2> QED BY <1>0, <1>2, <1>5, <1>8, <2>1, <2>2, <2>3 DEF Plans
<1>9. CASE Current(p) = "access"
  <2>1. IsThere(p, MemberRow(Doer(p))) /\ Visible(p, MemberRow(Doer(p))).family = family[p]
    BY <1>0, <1>9 DEF Passes
  <2>2. committed[MemberRow(Doer(p))] # Absent /\ committed[MemberRow(Doer(p))].family = family[p]
    BY <1>6, <2>1, ReadState DEF IsThere
  <2>3. FamilyRow(family[p]) \in Parents(MemberRow(Doer(p)), committed[MemberRow(Doer(p))])
    BY <2>2 DEF Parents, MemberRow
  <2>4. committed[FamilyRow(family[p])] # Absent
    BY <1>6, <2>2, <2>3 DEF WInv, FamilyIsWhole, References
  <2>5. FamilyRow(family[p]) \in Table /\ FamilyRow(family[p])[1] \in Serial
    BY <1>6, FamilyRows DEF Serial
  <2> QED BY <2>2, <2>4, <2>5, ThereIsBorn
<1>10. CASE Current(p) # "access"
  <2>1. {"category", "access"} \cap Left(p) = {}
    BY <1>2, <1>3, <1>7, <1>10
  <2>2. Plans(p)
    BY <1>0 DEF HInv
  <2> QED BY <1>3, <2>1, <2>2 DEF Plans
<1> QED BY <1>9, <1>10

LEMMA ReadKeepsLeaves ==
    ASSUME FInv, WInv, HInv, NEW p \in Proc, ReadStep(p)
    PROVE  Leaves(p)'
<1>0. Busy(p) /\ committed' = committed /\ contested' = contested
  BY DEF ReadStep, history
<1>1. Runs(p)
  BY <1>0, Running
<1>2. call'[p] = call[p] /\ Doer(p)' = Doer(p)
      /\ \A s \in Left(p) : s # Current(p) => s \in Left(p)'
  BY ReadState
<1>3. SUFFICES ASSUME call[p].call = "leave", Choosing \cap Left(p)' = {} PROVE Leaves(p)'
  BY <1>2 DEF Leaves
<1>4. \A l : Over(p, "reassign-schedules", l)' =>
             Over(p, "reassign-schedules", l) /\ "reassign-schedules" \notin Left(p)'
  <2>1. "reassign-schedules" \notin Reads
    BY DEF Reads
  <2> QED BY <2>1, ReadState
<1>5. CASE Current(p) \in Choosing
  <2>1. "reassign-schedules" \in Left(p)
    BY <1>0, <1>1, <1>3, <1>5, OrderOf DEF Runs
  <2>2. "reassign-schedules" \in Left(p)'
    BY <2>1, <1>2, <1>5 DEF Choosing
  <2> QED BY <2>2, <1>4 DEF Leaves, Lock
<1>6. CASE Current(p) \notin Choosing
  <2>1. family'[p] = family[p] /\ Choosing \cap Left(p) = {}
    BY <1>3, <1>6, ReadState
  <2>2. \A r : StillOwn(p, r)' <=> StillOwn(p, r)
    <3>1. \A r : Visible(p, r)' = Visible(p, r) /\ (IsThere(p, r)' <=> IsThere(p, r))
      BY ReadState
    <3> QED BY <3>1, <2>1, <1>2 DEF StillOwn
  <2>3. \A r : Over(p, "reassign-schedules", Lock("update", r))' =>
               Over(p, "reassign-schedules", Lock("update", r))
    BY <1>4 DEF Lock
  <2>4. Leaves(p)
    BY <1>0 DEF HInv
  <2> QED BY <1>0, <1>3, <2>1, <2>2, <2>3, <2>4 DEF Leaves
<1> QED BY <1>5, <1>6

LEMMA ReadKeepsNotYet ==
    ASSUME FInv, WInv, HInv, NEW p \in Proc, ReadStep(p)
    PROVE  NotYet(p)'
<1>1. NotYet(p) /\ written' = written /\ call' = call /\ new' = new
  BY DEF HInv, ReadStep
<1>2. Left(p)' \subseteq Left(p) /\ Doer(p)' = Doer(p) /\ NewRow(p)' = NewRow(p)
  BY ReadState
<1> QED BY <1>1, <1>2 DEF NotYet, MemberRow

LEMMA ReadKeepsReadAlone ==
    ASSUME FInv, WInv, HInv, NEW p \in Proc, ReadStep(p), ReadAlone(p)
    PROVE  ReadAlone(p)'
<1> DEFINE u == Doer(p)  f == family[p]  c == call[p]
<1>0. Busy(p) /\ Current(p) \in Reads /\ Passes(p) /\ family'[p] = Selected(p) /\ committed' = committed
  BY DEF ReadStep
<1>1. Runs(p)
  BY <1>0, Running
<1>2. call'[p] = c /\ Doer(p)' = u /\ NewRow(p)' = NewRow(p)
      /\ \A s \in Left(p) : s # Current(p) => s \in Left(p)'
  BY ReadState
<1>3. \A r \in Table : IsThere(p, r) <=> committed[r] # Absent
  BY ReadState DEF IsThere
<1>4. MemberRow(u) \in Table /\ UserRow(u) \in Table
  BY <1>0, HistoryRows
<1>5. Current(p) \notin Choosing => f = family'[p] /\ (Choosing \cap Left(p)' = {} => Choosing \cap Left(p) = {})
  BY ReadState
<1>6. Current(p) \in Choosing => c.call \in {"invite", "dissolve", "leave", "answer"}
  BY <1>0, <1>1, CallOf DEF Runs, Choosing
<1>7. /\ c.call \in {"create", "delete"} \/ (c.call = "answer" /\ c.accept)
      /\ "no-family" \notin Left(p)'
      => committed[MemberRow(u)] = Absent
  <2>1. CASE Current(p) = "no-family"
    BY <2>1, <1>0, <1>3, <1>4 DEF Passes
  <2>2. CASE Current(p) # "no-family"
    BY <2>2, <1>2 DEF ReadAlone
  <2> QED BY <2>1, <2>2
<1>8. c.call \in {"create", "delete"} /\ "known-user" \notin Left(p)' => committed[UserRow(u)] # Absent
  <2>1. CASE Current(p) = "known-user"
    BY <2>1, <1>0, <1>3, <1>4 DEF Passes
  <2>2. CASE Current(p) # "known-user"
    BY <2>2, <1>2 DEF ReadAlone
  <2> QED BY <2>1, <2>2
<1>9. ASSUME c.call = "invite"
      PROVE  /\ Choosing \cap Left(p)' = {} =>
                   committed[MemberRow(u)] # Absent /\ committed[MemberRow(u)].family = family'[p]
             /\ "invited-is-free" \notin Left(p)' => committed[UserRow(c.invited)] # Absent
             /\ "not-invited-yet" \notin Left(p)' =>
                   \A i \in Invitation : ~IsPending(p, i, family'[p], c.invited) \/ InvitationRow(i) = NewRow(p)
  <2>1. ASSUME Choosing \cap Left(p)' = {}
        PROVE  committed[MemberRow(u)] # Absent /\ committed[MemberRow(u)].family = family'[p]
    <3>1. CASE Current(p) \in Choosing
      <4>1. Current(p) = "owns-a-family"
        BY <1>0, <1>1, <1>9, <3>1, CallOf DEF Runs, Choosing
      <4>2. IsThere(p, MemberRow(u))
        BY <1>0, <4>1 DEF Passes, HasRole
      <4>3. Visible(p, MemberRow(u)) = committed[MemberRow(u)]
        BY <1>4, ReadState
      <4>4. family'[p] = committed[MemberRow(u)].family
        BY <1>0, <4>1, <4>3 DEF Selected
      <4> QED BY <4>2, <4>4, <1>3, <1>4
    <3>2. CASE Current(p) \notin Choosing
      BY <3>2, <2>1, <1>5, <1>9 DEF ReadAlone
    <3> QED BY <3>1, <3>2
  <2>2. ASSUME "invited-is-free" \notin Left(p)' PROVE committed[UserRow(c.invited)] # Absent
    <3>1. CASE Current(p) = "invited-is-free"
      <4>1. UserRow(c.invited) \in Table
        BY <1>0, <1>9, Calling, UserRows
      <4>2. IsThere(p, UserRow(c.invited))
        BY <3>1, <1>0 DEF Passes
      <4> QED BY <4>1, <4>2, <1>3
    <3>2. CASE Current(p) # "invited-is-free"
      BY <3>2, <2>2, <1>2, <1>9 DEF ReadAlone
    <3> QED BY <3>1, <3>2
  <2>3. ASSUME "not-invited-yet" \notin Left(p)', NEW i \in Invitation
        PROVE  ~IsPending(p, i, family'[p], c.invited) \/ InvitationRow(i) = NewRow(p)
    <3>1. CASE Current(p) = "not-invited-yet"
      <4>1. family'[p] = f
        BY <3>1, <1>5 DEF Choosing
      <4>2. ~IsPending(p, i, f, c.invited)
        BY <3>1, <1>0 DEF Passes
      <4> QED BY <4>1, <4>2
    <3>2. CASE Current(p) # "not-invited-yet"
      <4>1. "not-invited-yet" \notin Left(p)
        BY <3>2, <2>3, <1>2
      <4>2. Current(p) \in Choosing => "not-invited-yet" \in Left(p)
        BY <1>0, <1>1, <1>9, OrderOf DEF Runs
      <4>3. family'[p] = f
        BY <4>1, <4>2, <1>5
      <4>4. ~IsPending(p, i, f, c.invited) \/ InvitationRow(i) = NewRow(p)
        BY <4>1, <1>9 DEF ReadAlone
      <4> QED BY <4>3, <4>4
    <3> QED BY <3>1, <3>2
  <2> QED BY <2>1, <2>2, <2>3
<1>10. c.call = "answer" /\ Choosing \cap Left(p)' = {} => committed[InvitationRow(c.invitation)] # Absent
  <2>1. SUFFICES ASSUME c.call = "answer", Choosing \cap Left(p)' = {}
                 PROVE committed[InvitationRow(c.invitation)] # Absent
    OBVIOUS
  <2>2. CASE Current(p) \in Choosing
    <3>1. Current(p) = "pending-invitation"
      BY <1>0, <1>1, <2>1, <2>2, CallOf DEF Runs, Choosing
    <3>2. IsThere(p, InvitationRow(c.invitation))
      BY <3>1, <1>0 DEF Passes, CanAnswer, IsPending
    <3>3. InvitationRow(c.invitation) \in Table
      BY <1>0, <2>1, HistoryRows
    <3> QED BY <3>2, <3>3, <1>3
  <2>3. CASE Current(p) \notin Choosing
    BY <2>1, <2>3, <1>5 DEF ReadAlone
  <2> QED BY <2>2, <2>3
<1>11. ASSUME c.call \in {"schedule", "journal"}
       PROVE  /\ c.call = "schedule" /\ "category" \notin Left(p)' => committed[CategoryRow(family'[p])] # Absent
              /\ c.call = "journal" /\ "account" \notin Left(p)' => committed[AccountRow(family'[p])] # Absent
              /\ "access" \notin Left(p)' => committed[MemberRow(u)] # Absent
  <2>1. family'[p] = f
    BY <1>5, <1>6, <1>11
  <2>2. f \in Family
    BY <1>0, <1>11, HistoryRows
  <2>3. CategoryRow(f) \in Table /\ AccountRow(f) \in Table
    BY <2>2, FamilyRows
  <2>4. c.call = "schedule" /\ "category" \notin Left(p)' => committed[CategoryRow(f)] # Absent
    <3>1. CASE Current(p) = "category"
      BY <3>1, <2>3, <1>0, <1>3 DEF Passes
    <3>2. CASE Current(p) # "category"
      BY <3>2, <1>2 DEF ReadAlone
    <3> QED BY <3>1, <3>2
  <2>5. c.call = "journal" /\ "account" \notin Left(p)' => committed[AccountRow(f)] # Absent
    <3>1. CASE Current(p) = "account"
      BY <3>1, <2>3, <1>0, <1>3 DEF Passes
    <3>2. CASE Current(p) # "account"
      BY <3>2, <1>2 DEF ReadAlone
    <3> QED BY <3>1, <3>2
  <2>6. "access" \notin Left(p)' => committed[MemberRow(u)] # Absent
    <3>1. CASE Current(p) = "access"
      BY <3>1, <1>0, <1>3, <1>4 DEF Passes
    <3>2. CASE Current(p) # "access"
      BY <3>2, <1>2, <1>11 DEF ReadAlone
    <3> QED BY <3>1, <3>2
  <2> QED BY <2>1, <2>4, <2>5, <2>6
<1>12. \A i, g, v : IsPending(p, i, g, v)' <=> IsPending(p, i, g, v)
  BY ReadState DEF IsPending, InvitationRow
<1>13. /\ MemberRow(Doer(p))' = MemberRow(u) /\ UserRow(Doer(p))' = UserRow(u)
       /\ CategoryRow(family[p])' = CategoryRow(family'[p]) /\ AccountRow(family[p])' = AccountRow(family'[p])
  BY <1>2 DEF MemberRow, UserRow, CategoryRow, AccountRow
<1> HIDE DEF u, f, c
<1>14. c.call = "invite" => \A i \in Invitation : IsPending(p, i, family[p], call[p].invited)' <=> IsPending(p, i, family'[p], c.invited)
  BY <1>2, <1>12
<1> QED BY <1>0, <1>2, <1>7, <1>8, <1>9, <1>10, <1>11, <1>13, <1>14 DEF ReadAlone, InvitationRow, UserRow

LEMMA ReadKeepsHInv ==
    ASSUME FInv, WInv, HInv, NEW p \in Proc, Read(p) PROVE HInv'
<1>1. CASE ~Passes(p) /\ Rollback(p)
  BY <1>1, RollbackKeepsHInv DEF Read
<1>2. CASE /\ Passes(p) /\ Advance(p)
           /\ family' = [family EXCEPT ![p] = Selected(p)]
           /\ UNCHANGED <<committed, holder, sharers, call, new, queue, written, history>>
  <2>1. Busy(p) /\ Current(p) \in Reads
    BY DEF Read
  <2>2. program' = [program EXCEPT ![p] = Tail(program[p])]
    BY <1>2 DEF Advance
  <2>3. \A q \in Proc \ {p} : Kept(q)
    BY <1>2, <2>2 DEF Kept, FInv, Shapes, WInv, Domains
  <2>4. program'[p] = Tail(program[p]) /\ family'[p] = Selected(p)
    BY <1>2, <2>2 DEF FInv, Shapes, WInv, Domains
  <2>5. ReadStep(p)
    BY <1>2, <2>1, <2>3, <2>4 DEF ReadStep
  <2>6. Answers(p)' /\ Plans(p)' /\ Leaves(p)' /\ NotYet(p)'
    BY <2>5, ReadKeepsAnswers, ReadKeepsPlans, ReadKeepsLeaves, ReadKeepsNotYet
  <2>7. ASSUME alongside[p] = {} PROVE ReadAlone(p)' /\ SweptAlone(p)'
    <3>1. ReadAlone(p) /\ SweptAlone(p)
      BY <2>1, <2>7 DEF HInv, Alone
    <3>2. ReadAlone(p)'
      BY <2>5, <3>1, ReadKeepsReadAlone
    <3>3. SweptAlone(p)'
      <4>1. \A s \in Left(p) : s # Current(p) => s \in Left(p)'
        BY <2>5, ReadState
      <4>2. /\ call'[p] = call[p] /\ Doer(p)' = Doer(p)
            /\ \A r : Visible(p, r)' = Visible(p, r) /\ (IsThere(p, r)' <=> IsThere(p, r))
        BY <2>5, ReadState
      <4>3. \A s, l : s \notin Reads /\ Over(p, s, l)' => Over(p, s, l) /\ s \notin Left(p)'
        BY <2>5, ReadState
      <4>4. "delete-schedules" \notin Reads /\ "reassign-schedules" \notin Reads
        BY DEF Reads
      <4>5. Current(p) \notin Choosing => family'[p] = family[p]
        BY <2>5, ReadState
      <4>6. call[p].call = "dissolve" /\ Current(p) \in Choosing => "delete-schedules" \in Left(p)'
        <5>1. Runs(p)
          BY <2>1, Running
        <5>2. call[p].call = "dissolve" /\ Current(p) \in Choosing => "delete-schedules" \in Left(p)
          BY <2>1, <5>1, OrderOf DEF Runs
        <5> QED BY <5>2, <4>1 DEF Choosing
      <4>7. ASSUME NEW r \in Table, r[1] = "schedule", IsThere(p, r)', call'[p].call = "dissolve",
                   Over(p, "delete-schedules", Lock("delete", r))'
            PROVE  Visible(p, r)'.family # family'[p]
        <5>1. Over(p, "delete-schedules", Lock("delete", r)) /\ "delete-schedules" \notin Left(p)'
          BY <4>3, <4>4, <4>7 DEF Lock
        <5>2. family'[p] = family[p]
          BY <5>1, <4>2, <4>5, <4>6, <4>7
        <5> QED BY <5>1, <5>2, <4>2, <4>7, <3>1 DEF SweptAlone
      <4>8. ASSUME NEW r \in Table, r[1] = "schedule", IsThere(p, r)', call'[p].call = "delete",
                   Over(p, "reassign-schedules", Lock("update", r))'
            PROVE  Visible(p, r)'.by # Doer(p)'
        <5>1. Over(p, "reassign-schedules", Lock("update", r))
          BY <4>3, <4>4, <4>8 DEF Lock
        <5> QED BY <5>1, <4>2, <4>8, <3>1 DEF SweptAlone
      <4> QED BY <4>7, <4>8 DEF SweptAlone
    <3> QED BY <3>2, <3>3
  <2>8. Alone(p)'
    BY <2>7, <1>2 DEF Alone, history
  <2>9. UNCHANGED <<committed, call, new, history>>
    BY <1>2
  <2> QED BY <2>1, <2>3, <2>6, <2>8, <2>9, HistoryOfStep
<1> QED BY <1>1, <1>2, Zenon DEF Read

(***************************************************************************)
(* A statement that writes: all has been read.                              *)
(***************************************************************************)
WriteStep(p) ==
    /\ Busy(p) /\ Current(p) \notin Reads
    /\ UNCHANGED <<committed, call, family, new, history>>
    /\ \A q \in Proc \ {p} : Kept(q)

LEMMA WriteState ==
    ASSUME FInv, WInv, HInv, NEW p \in Proc, WriteStep(p)
    PROVE  /\ Reads \cap Left(p) = {} /\ Choosing \cap Left(p) = {}
           /\ Doer(p)' = Doer(p) /\ NewRow(p)' = NewRow(p)
           /\ \A r : Unborn(r) => Unborn(r)'
<1> USE DEF WriteStep
<1>1. Reads \cap Left(p) = {}
  BY Running, ReadsFirst DEF Runs
<1>2. Choosing \cap Left(p) = {}
  BY <1>1 DEF Choosing, Reads
<1>3. Doer(p)' = Doer(p) /\ NewRow(p)' = NewRow(p)
  BY DEF Doer, NewRow
<1>4. \A r : Unborn(r) => Unborn(r)'
  <2>1. \A q \in Proc : Busy(q)' => Busy(q) /\ NewRow(q)' = NewRow(q)
    BY <1>3, KeptState
  <2>2. drawn' = drawn
    BY DEF history
  <2> QED BY <2>1, <2>2 DEF Unborn
<1> QED BY <1>1, <1>2, <1>3, <1>4

LEMMA WriteKeepsPlans ==
    ASSUME FInv, WInv, HInv, NEW p \in Proc, WriteStep(p)
    PROVE  Plans(p)'
<1>1. call' = call /\ family' = family /\ committed' = committed /\ alongside' = alongside
  BY DEF WriteStep, history
<1>2. Doer(p)' = Doer(p) /\ {"category", "access"} \cap Left(p) = {}
  BY WriteState DEF Reads
<1>3. Plans(p)
  BY DEF HInv, WriteStep
<1>4. SUFFICES ASSUME call[p].call = "schedule" PROVE Plans(p)'
  BY <1>1 DEF Plans
<1>5. FamilyRow(family[p])' = FamilyRow(family[p]) /\ MemberRow(Doer(p))' = MemberRow(Doer(p))
  BY <1>1, <1>2 DEF FamilyRow, MemberRow
<1>6. (LeftBeside(p)' <=> LeftBeside(p)) /\ (Orphaned(p)' <=> Orphaned(p))
  BY <1>1, <1>2 DEF LeftBeside, Orphaned, FamilyRow, UserRow
<1>7. Unborn(FamilyRow(family[p])) => Unborn(FamilyRow(family[p]))'
  <2>1. \A r : Unborn(r) => Unborn(r)'
    BY WriteState
  <2> QED BY <2>1, <1>5
<1> QED BY <1>1, <1>2, <1>3, <1>4, <1>5, <1>6, <1>7 DEF Plans

LEMMA WriteKeepsAnswers ==
    ASSUME FInv, WInv, HInv, NEW p \in Proc, WriteStep(p),
           call[p].call = "answer" =>
               \A r \in Table : r = InvitationRow(call[p].invitation) /\ Over(p, "answer", Lock("update", r))' =>
                   \/ written'[p][r] # Same \/ committed[r] = Absent
    PROVE  Answers(p)'
<1> DEFINE r == InvitationRow(call[p].invitation)
<1>1. call' = call /\ family' = family /\ committed' = committed /\ alongside' = alongside
  BY DEF WriteStep, history
<1>2. Doer(p)' = Doer(p) /\ Choosing \cap Left(p) = {}
  BY WriteState
<1>3. SUFFICES ASSUME call[p].call = "answer" PROVE Answers(p)'
  BY <1>1 DEF Answers
<1>4. r' = r /\ Lock("update", r)' = Lock("update", r)
  BY <1>1 DEF InvitationRow, Lock
<1>5. r \in Table
  BY <1>3, HistoryRows DEF WriteStep
<1>6. (AnsweredBeside(p)' <=> AnsweredBeside(p)) /\ (Orphaned(p)' <=> Orphaned(p))
  BY <1>1, <1>2 DEF AnsweredBeside, Orphaned, FamilyRow, UserRow
<1>7. /\ Unborn(r)
      /\ committed[r] # Absent =>
            /\ committed[r].family = family[p] /\ committed[r].invited = Doer(p)
            /\ committed[r].status # "pending" => AnsweredBeside(p)
      /\ committed[r] = Absent => Orphaned(p)
  <2>1. Answers(p)
    BY DEF HInv, WriteStep
  <2> QED BY <2>1, <1>2, <1>3 DEF Answers
<1>8. Over(p, "answer", Lock("update", r))' => written'[p][r] # Same \/ committed[r] = Absent
  BY <1>3, <1>4, <1>5
<1> HIDE DEF r
<1>9. Unborn(r)'
  <2>1. \A x : Unborn(x) => Unborn(x)'
    BY WriteState
  <2> QED BY <2>1, <1>4, <1>7
<1>10. /\ Unborn(r)'
       /\ committed'[r] # Absent =>
             /\ committed'[r].family = family'[p] /\ committed'[r].invited = Doer(p)'
             /\ committed'[r].status # "pending" => AnsweredBeside(p)'
       /\ committed'[r] = Absent => Orphaned(p)'
       /\ Over(p, "answer", Lock("update", r))' => written'[p][r] # Same \/ committed'[r] = Absent
  BY <1>1, <1>2, <1>6, <1>7, <1>8, <1>9
<1> QED BY <1>4, <1>10 DEF Answers, r

LEMMA WriteKeepsReadAlone ==
    ASSUME FInv, WInv, HInv, NEW p \in Proc, WriteStep(p), ReadAlone(p),
           call[p].call = "invite" =>
               \A i \in Invitation : IsPending(p, i, family[p], call[p].invited)' =>
                   IsPending(p, i, family[p], call[p].invited) \/ InvitationRow(i) = NewRow(p)
    PROVE  ReadAlone(p)'
<1>1. call' = call /\ family' = family /\ committed' = committed
  BY DEF WriteStep
<1>2. Doer(p)' = Doer(p) /\ NewRow(p)' = NewRow(p) /\ Reads \cap Left(p) = {} /\ Choosing \cap Left(p) = {}
  BY WriteState
<1>3. /\ "no-family" \notin Left(p) /\ "known-user" \notin Left(p) /\ "invited-is-free" \notin Left(p)
      /\ "not-invited-yet" \notin Left(p) /\ "category" \notin Left(p) /\ "account" \notin Left(p)
      /\ "access" \notin Left(p)
  BY <1>2 DEF Reads
<1>4. /\ MemberRow(Doer(p))' = MemberRow(Doer(p)) /\ UserRow(Doer(p))' = UserRow(Doer(p))
      /\ CategoryRow(family[p])' = CategoryRow(family[p]) /\ AccountRow(family[p])' = AccountRow(family[p])
  BY <1>1, <1>2 DEF MemberRow, UserRow, CategoryRow, AccountRow
<1>5. call[p].call = "invite" =>
         \A i \in Invitation : ~IsPending(p, i, family[p], call[p].invited)' \/ InvitationRow(i) = NewRow(p)
  BY <1>3 DEF ReadAlone
<1> QED BY <1>1, <1>2, <1>3, <1>4, <1>5 DEF ReadAlone, UserRow, InvitationRow

\* who has no family has created none
LEMMA CreatorIsAnother ==
    ASSUME FInv, WInv, HInv, NEW p \in Proc, Busy(p), Current(p) \notin Reads, ReadAlone(p),
           call[p].call = "delete", NEW r \in Table, r[1] = "schedule", IsThere(p, r)
    PROVE  Creator(p, Visible(p, r).family) # Doer(p)
<1> DEFINE f == committed[r].family  u == Doer(p)
<1>1. /\ Creator(p, Visible(p, r).family) = committed[FamilyRow(f)]
      /\ f \in Family /\ committed[FamilyRow(f)] \in User
  BY CreatorIsUser
<1>2. committed[MemberRow(u)] = Absent
  <2>1. "no-family" \notin Left(p)
    BY Running, ReadsFirst DEF Runs, Reads
  <2> QED BY <2>1 DEF ReadAlone
<1>3. SUFFICES ASSUME committed[FamilyRow(f)] = u PROVE FALSE
  BY <1>1
<1>4. u \in User /\ MemberRow(u) \in Table /\ FamilyRow(f) \in Table /\ FamilyRow(f)[1] = "family"
  BY <1>1, <1>3, UserRows, FamilyRows
<1>5. committed[FamilyRow(f)] # Absent
  <2>1. User = Values(FamilyRow(f)) /\ Absent \notin Values(FamilyRow(f))
    BY <1>4, KindValues
  <2> QED BY <2>1, <1>1
<1>6. committed[MemberRow(u)] = [family |-> f, role |-> "owner"]
  BY <1>1, <1>3, <1>5 DEF WInv, FamilyIsWhole, OwnedByCreators
<1>7. [family |-> f, role |-> "owner"] \in Membership
  BY <1>1 DEF Membership
<1>8. Membership = Values(MemberRow(u))
  BY <1>4, UserRows, KindValues
<1>9. Absent \notin Membership
  BY <1>4, <1>8, FamiliesAssumption
<1> QED BY <1>2, <1>6, <1>7, <1>9

LEMMA FindRowsKeepsHInv ==
    ASSUME FInv, WInv, HInv, NEW p \in Proc, FindRows(p) PROVE HInv'
<1>1. /\ Busy(p) /\ Current(p) \notin Reads /\ queue[p] = <<>>
      /\ UNCHANGED <<committed, call, family, new, program, written, history>>
      /\ queue' = [queue EXCEPT ![p] = Append(Locks(p), Done)]
  BY DEF FindRows, connection
<1>2. queue'[p] = Append(Locks(p), Done)
  BY <1>1 DEF FInv, Shapes
<1>3. ASSUME NEW q \in Proc \ {p} PROVE Kept(q)
  <2>1. queue'[q] = queue[q]
    BY <1>1, <1>3 DEF FInv, Shapes
  <2>2. holder' = holder /\ sharers' = sharers
    BY DEF FindRows
  <2> QED BY <1>1, <2>1, <2>2 DEF Kept
<1>4. WriteStep(p)
  BY <1>1, <1>3 DEF WriteStep
<1>5. Ahead(p)' = LocksIn(Locks(p)) \cup {Done} /\ queue'[p] # <<>>
  BY <1>1, <1>2, FindRowsAhead
<1>6. Left(p)' = Left(p) /\ Current(p)' = Current(p) /\ Doer(p)' = Doer(p) /\ NewRow(p)' = NewRow(p)
  BY <1>1 DEF Left, Current, Doer, NewRow
<1>7. \A r : Visible(p, r)' = Visible(p, r) /\ (IsThere(p, r)' <=> IsThere(p, r))
  BY <1>1 DEF Visible, IsThere
<1>8. ASSUME NEW s, s \notin Inserting, NEW m, m = Mode(p), NEW r \in Table, Over(p, s, Lock(m, r))', ~Over(p, s, Lock(m, r))
      PROVE  Current(p) = s /\ ~Matches(p, r)
  <2>1. s \in Left(p)
    BY <1>8 DEF Over
  <2>2. Current(p) = s /\ Lock(m, r) \notin Ahead(p)'
    <3>1. Lock(m, r)' = Lock(m, r)
      BY DEF Lock
    <3> QED BY <2>1, <3>1, <1>6, <1>8 DEF Over
  <2>3. {Lock(m, x) : x \in Found(p)} \subseteq LocksIn(Locks(p))
    BY <1>1, <1>8, <2>2, FoundLocks
  <2>4. r \notin Found(p)
    <3>1. r \in Found(p) => Lock(m, r) \in {Lock(m, x) : x \in Found(p)}
      OBVIOUS
    <3>2. LocksIn(Locks(p)) \subseteq Ahead(p)'
      BY <1>5
    <3> QED BY <2>2, <2>3, <3>1, <3>2
  <2> QED BY <2>2, <2>4 DEF Found
<1>9. \A r, mode : Lock(mode, r)' = Lock(mode, r)
  BY DEF Lock
<1>10. Answers(p)'
  <2>1. ASSUME call[p].call = "answer", NEW r \in Table, r = InvitationRow(call[p].invitation),
               Over(p, "answer", Lock("update", r))'
        PROVE  written'[p][r] # Same \/ committed[r] = Absent
    <3>1. CASE Over(p, "answer", Lock("update", r))
      <4>1. Answers(p) /\ Choosing \cap Left(p) = {}
        BY <1>1, <1>4, WriteState DEF HInv
      <4> QED BY <4>1, <3>1, <2>1, <1>1 DEF Answers
    <3>2. CASE ~Over(p, "answer", Lock("update", r))
      <4>1. Current(p) = "answer"
        BY <3>2, <2>1, <1>6 DEF Over
      <4>2. Mode(p) = "update"
        BY <4>1 DEF Mode
      <4>3. ~Matches(p, r)
        BY <4>2, <3>2, <2>1, <1>8 DEF Inserting
      <4>4. Visible(p, r) = Absent
        BY <4>1, <4>3, <2>1 DEF Matches
      <4> QED BY <4>4, <1>1 DEF Visible
    <3> QED BY <3>1, <3>2
  <2> QED BY <2>1, <1>4, WriteKeepsAnswers
<1>11. Plans(p)'
  BY <1>4, WriteKeepsPlans
<1>12. Leaves(p)'
  <2>1. SUFFICES ASSUME call[p].call = "leave" PROVE Leaves(p)'
    BY <1>1 DEF Leaves
  <2>2. ASSUME NEW r \in Table, r[1] = "schedule", StillOwn(p, r)', Over(p, "reassign-schedules", Lock("update", r))'
        PROVE  r[2] \in contested
    <3>1. StillOwn(p, r)
      BY <2>2, <1>1, <1>6, <1>7 DEF StillOwn
    <3>2. CASE Over(p, "reassign-schedules", Lock("update", r))
      <4>1. Leaves(p) /\ Choosing \cap Left(p) = {}
        BY <1>1, <1>4, WriteState DEF HInv
      <4> QED BY <4>1, <3>1, <3>2, <2>1, <2>2 DEF Leaves
    <3>3. CASE ~Over(p, "reassign-schedules", Lock("update", r))
      <4>1. Current(p) = "reassign-schedules"
        BY <3>3, <2>2, <1>6 DEF Over
      <4>2. Mode(p) = "update"
        BY <4>1 DEF Mode
      <4>3. ~Matches(p, r)
        BY <4>2, <3>3, <2>2, <1>8 DEF Inserting
      <4> QED BY <4>1, <4>3, <3>1, <2>1, <2>2 DEF Matches, StillOwn, IsThere
    <3> QED BY <3>2, <3>3
  <2> QED BY <2>2, <1>1 DEF Leaves, history
<1>13. NotYet(p)'
  <2>1. NotYet(p)
    BY <1>1 DEF HInv
  <2> QED BY <2>1, <1>1, <1>6 DEF NotYet, MemberRow
<1>14. ASSUME alongside[p] = {} PROVE ReadAlone(p)' /\ SweptAlone(p)'
  <2>1. ReadAlone(p) /\ SweptAlone(p)
    BY <1>1, <1>14 DEF HInv, Alone
  <2>2. ReadAlone(p)'
    <3>1. \A i, f, u : IsPending(p, i, f, u)' <=> IsPending(p, i, f, u)
      BY <1>7 DEF IsPending, InvitationRow
    <3>2. \A i \in Invitation : IsPending(p, i, family[p], call[p].invited)' => IsPending(p, i, family[p], call[p].invited)
      BY <3>1, <1>1
    <3> QED BY <2>1, <3>2, <1>4, WriteKeepsReadAlone
  <2>3. ASSUME NEW r \in Table, r[1] = "schedule", IsThere(p, r), call[p].call = "dissolve",
               Over(p, "delete-schedules", Lock("delete", r))'
        PROVE  Visible(p, r).family # family[p]
    <3>1. CASE Over(p, "delete-schedules", Lock("delete", r))
      BY <3>1, <2>1, <2>3 DEF SweptAlone
    <3>2. CASE ~Over(p, "delete-schedules", Lock("delete", r))
      <4>1. Current(p) = "delete-schedules"
        BY <3>2, <2>3, <1>6 DEF Over
      <4>2. Mode(p) = "delete"
        BY <4>1 DEF Mode
      <4>3. ~Matches(p, r)
        BY <4>2, <3>2, <2>3, <1>8 DEF Inserting
      <4> QED BY <4>1, <4>3, <2>3 DEF Matches, IsThere
    <3> QED BY <3>1, <3>2
  <2>4. ASSUME NEW r \in Table, r[1] = "schedule", IsThere(p, r), call[p].call = "delete",
               Over(p, "reassign-schedules", Lock("update", r))'
        PROVE  Visible(p, r).by # Doer(p)
    <3>1. CASE Over(p, "reassign-schedules", Lock("update", r))
      BY <3>1, <2>1, <2>4 DEF SweptAlone
    <3>2. CASE ~Over(p, "reassign-schedules", Lock("update", r))
      <4>1. Current(p) = "reassign-schedules"
        BY <3>2, <2>4, <1>6 DEF Over
      <4>2. Mode(p) = "update"
        BY <4>1 DEF Mode
      <4>3. ~Matches(p, r)
        BY <4>2, <3>2, <2>4, <1>8 DEF Inserting
      <4>4. Creator(p, Visible(p, r).family) # Doer(p)
        BY <2>1, <2>4, <1>1, <1>4, CreatorIsAnother
      <4> QED BY <4>1, <4>3, <4>4, <2>4 DEF Matches, IsThere
    <3> QED BY <3>1, <3>2
  <2>5. SweptAlone(p)'
    BY <2>3, <2>4, <1>1, <1>6, <1>7 DEF SweptAlone
  <2> QED BY <2>2, <2>5
<1>15. Alone(p)'
  BY <1>14, <1>1 DEF Alone, history
<1> QED BY <1>1, <1>3, <1>10, <1>11, <1>12, <1>13, <1>15, HistoryOfStep

(***************************************************************************)
(* A row is locked, and changed if it still matches.                        *)
(***************************************************************************)
ChangesTo(p, r) == Changes(p) /\ r = Wanted(p).row

LEMMA LockState ==
    ASSUME FInv, WInv, HInv, NEW p \in Proc, LockRow(p)
    PROVE  /\ WriteStep(p) /\ Left(p)' = Left(p)
           /\ \A r \in Table : ~ChangesTo(p, r) =>
                 written'[p][r] = written[p][r] /\ Visible(p, r)' = Visible(p, r)
           /\ \A r \in Table : ChangesTo(p, r) =>
                 /\ Matches(p, r) /\ Writes(p, r, Changed(p, r)) /\ Current(p) \notin Inserting
                 /\ written'[p][r] = Changed(p, r) /\ Changed(p, r) # Same
                 /\ Visible(p, r)' = Changed(p, r)
           /\ \A s, m, r : Over(p, s, Lock(m, r))' /\ ~Over(p, s, Lock(m, r)) =>
                 Current(p) = s /\ Wanted(p).mode = m /\ Wanted(p).row = r
<1> DEFINE l == Wanted(p)
<1>1. /\ Busy(p) /\ queue[p] # <<>> /\ l.mode # "done" /\ l \in Ahead(p) \ {Done}
      /\ UNCHANGED <<committed, call, family, new, program, drawn>>
      /\ queue' = [queue EXCEPT ![p] = Tail(queue[p])]
      /\ written' = IF Changes(p)
                    THEN [written EXCEPT ![p][l.row] = Changed(p, l.row)] ELSE written
      /\ Changes(p) => l.row \in Table /\ Current(p) \notin Inserting
      /\ Current(p) \notin Reads \cup {"commit"}
  BY LockedRow
<1>2. Runs(p)
  BY <1>1, Running
<1>3. history' = history
  BY DEF LockRow
<1>4. WriteStep(p)
  BY <1>1, <1>3, LockRowKept DEF WriteStep
<1>5. Left(p)' = Left(p) /\ Current(p)' = Current(p)
  BY <1>1 DEF Left, Current
<1>6. queue'[p] = Tail(queue[p]) /\ DOMAIN written[p] = Table
  BY <1>1 DEF FInv, Shapes, TypeOK
<1>7. \A x \in Ahead(p) : x # l => x \in Ahead(p)'
  BY <1>1, <1>2, <1>6, QueueAdvanced DEF Runs
<1>8. \A r \in Table : ~ChangesTo(p, r) =>
         written'[p][r] = written[p][r] /\ Visible(p, r)' = Visible(p, r)
  <2>1. \A r \in Table : ~ChangesTo(p, r) => written'[p][r] = written[p][r]
    BY <1>1, <1>6 DEF FInv, Shapes, TypeOK, ChangesTo
  <2> QED BY <2>1, <1>1 DEF Visible
<1>9. ASSUME NEW r \in Table, ChangesTo(p, r)
      PROVE  /\ Matches(p, r) /\ Writes(p, r, Changed(p, r)) /\ Current(p) \notin Inserting
             /\ written'[p][r] = Changed(p, r) /\ Changed(p, r) # Same
             /\ Visible(p, r)' = Changed(p, r)
  <2>1. /\ Changes(p) /\ r = l.row /\ Matches(p, r) /\ Mode(p) # "none-left"
        /\ Current(p) \notin Inserting
    BY <1>1, <1>9 DEF Changes, ChangesTo
  <2>2. Writes(p, r, Changed(p, r))
    BY <2>1, <1>1, ChangesWrite
  <2>3. Choosing \cap Left(p) = {}
    BY <1>4, WriteState
  <2>4. Changed(p, r) # Same
    BY <2>2, <2>3, <1>1, <1>2, WrittenValues DEF Runs
  <2>5. written'[p][r] = Changed(p, r)
    BY <2>1, <1>1, <1>6 DEF FInv, Shapes, TypeOK
  <2>6. Visible(p, r)' = Changed(p, r)
    BY <2>4, <2>5 DEF Visible
  <2> QED BY <2>1, <2>2, <2>4, <2>5, <2>6
<1>10. ASSUME NEW s, NEW m, NEW r, Over(p, s, Lock(m, r))', ~Over(p, s, Lock(m, r))
       PROVE  Current(p) = s /\ l.mode = m /\ l.row = r
  <2>1. Lock(m, r)' = Lock(m, r) /\ Lock(m, r).mode = m /\ Lock(m, r).row = r
    BY DEF Lock
  <2>2. s \in Left(p)
    BY <1>10 DEF Over
  <2>3. Current(p) = s /\ Lock(m, r) \notin Ahead(p)'
    BY <1>5, <1>10, <2>1, <2>2 DEF Over
  <2>4. Lock(m, r) \in Ahead(p)
    BY <1>1, <1>10, <2>3 DEF Over
  <2> QED BY <2>1, <2>3, <2>4, <1>7
<1> QED BY <1>4, <1>5, <1>8, <1>9, <1>10

\* which calls change rows that are there
LEMMA ChangingCall ==
    ASSUME FInv, WInv, NEW p \in Proc, Busy(p), Current(p) \notin Inserting, NEW r \in Table, Matches(p, r)
    PROVE  /\ call[p].call \in {"answer", "leave", "dissolve", "delete"}
           /\ call[p].call = "answer" => r[1] = "invitation" /\ r = InvitationRow(call[p].invitation)
<1>1. Runs(p)
  BY Running
<1>2. Current(p) \in {"answer", "reassign-schedules", "delete-membership", "delete-schedules",
          "schedules-left", "delete-category", "delete-account", "sources-left", "delete-invitations",
          "delete-members", "delete-family", "cascade-family", "delete-user", "rows-left", "cascade-user"}
  BY DEF Matches
<1>3. Current(p) = "answer" => call[p].call = "answer" /\ r = InvitationRow(call[p].invitation)
  BY <1>1, CallOf DEF Runs, Matches
<1>4. Current(p) # "answer" => call[p].call \in {"leave", "dissolve", "delete"}
  BY <1>1, <1>2, CallOf DEF Runs
<1>5. call[p].call = "answer" => r[1] = "invitation"
  BY <1>3, <1>4 DEF InvitationRow
<1> QED BY <1>3, <1>4, <1>5

LEMMA LockRowKeepsLeaves ==
    ASSUME FInv, WInv, HInv, NEW p \in Proc, LockRow(p)
    PROVE  Leaves(p)'
<1>1. WriteStep(p) /\ Left(p)' = Left(p)
  BY LockState
<1>2. /\ Busy(p) /\ call' = call /\ family' = family /\ committed' = committed /\ contested' = contested
      /\ Doer(p)' = Doer(p) /\ Choosing \cap Left(p) = {}
  BY <1>1, WriteState DEF WriteStep, history
<1>3. Runs(p) /\ Leaves(p)
  BY <1>2, Running DEF HInv
<1>4. SUFFICES ASSUME call[p].call = "leave", NEW r \in Table, r[1] = "schedule", StillOwn(p, r)',
                      Over(p, "reassign-schedules", Lock("update", r))'
               PROVE  r[2] \in contested
  BY <1>2 DEF Leaves
<1>5. CASE ChangesTo(p, r)
  <2>1. Writes(p, r, Changed(p, r)) /\ Visible(p, r)' = Changed(p, r)
    BY <1>5, LockState
  <2>2. Changed(p, r) # Absent /\ Changed(p, r).by = Doer(p) /\ Changed(p, r).family = family[p]
    BY <1>2, <1>4, <2>1 DEF StillOwn, IsThere
  <2>3. /\ committed[r] # Absent
        /\ Changed(p, r) = [committed[r] EXCEPT !.by = committed[FamilyRow(committed[r].family)]]
    <3>1. r # MemberRow(Doer(p))
      BY <1>4 DEF MemberRow
    <3> QED BY <3>1, <2>1, <2>2, <1>4 DEF Writes
  <2>4. committed[r] \in Entry
    BY <2>3, <1>4, KindValues DEF WInv, TypedRows
  <2>5. committed[FamilyRow(committed[r].family)] = Doer(p) /\ committed[r].family = family[p]
        /\ committed[r].family \in Family
    BY <2>2, <2>3, <2>4 DEF Entry
  <2>6. FamilyRow(family[p]) \in Table /\ FamilyRow(family[p])[1] = "family" /\ Doer(p) \in User
    BY <2>5, <1>2, FamilyRows, Calling
  <2>7. committed[FamilyRow(family[p])] # Absent
    <3>1. User = Values(FamilyRow(family[p])) /\ Absent \notin Values(FamilyRow(family[p]))
      BY <2>6, KindValues
    <3> QED BY <3>1, <2>5, <2>6
  <2> QED BY <2>5, <2>7, <1>2, <1>3, <1>4 DEF Runs, Chose
<1>6. CASE ~ChangesTo(p, r)
  <2>1. StillOwn(p, r)
    <3>1. Visible(p, r)' = Visible(p, r)
      BY <1>6, LockState
    <3> QED BY <3>1, <1>2, <1>4 DEF StillOwn, IsThere
  <2>2. CASE Over(p, "reassign-schedules", Lock("update", r))
    BY <2>1, <2>2, <1>2, <1>3, <1>4 DEF Leaves
  <2>3. CASE ~Over(p, "reassign-schedules", Lock("update", r))
    <3>1. Current(p) = "reassign-schedules" /\ Wanted(p).mode = "update" /\ Wanted(p).row = r
      <4>1. \A s, m, x : Over(p, s, Lock(m, x))' /\ ~Over(p, s, Lock(m, x)) =>
                 Current(p) = s /\ Wanted(p).mode = m /\ Wanted(p).row = x
        BY LockState
      <4> QED BY <4>1, <2>3, <1>4
    <3>2. ~Matches(p, r)
      BY <3>1, <1>6 DEF ChangesTo, Changes, Mode
    <3> QED BY <3>1, <3>2, <2>1, <1>4 DEF Matches, StillOwn, IsThere
  <2> QED BY <2>2, <2>3
<1> QED BY <1>5, <1>6

LEMMA LockRowKeepsSweptAlone ==
    ASSUME FInv, WInv, HInv, NEW p \in Proc, LockRow(p), ReadAlone(p), SweptAlone(p)
    PROVE  SweptAlone(p)'
<1>1. WriteStep(p) /\ Left(p)' = Left(p)
  BY LockState
<1>2. /\ Busy(p) /\ Current(p) \notin Reads /\ call' = call /\ family' = family /\ committed' = committed
      /\ Doer(p)' = Doer(p) /\ Choosing \cap Left(p) = {}
  BY <1>1, WriteState DEF WriteStep
<1>3. \A s, m, x : Over(p, s, Lock(m, x))' /\ ~Over(p, s, Lock(m, x)) =>
                 Current(p) = s /\ Wanted(p).mode = m /\ Wanted(p).row = x
  BY LockState
<1>4. ASSUME NEW r \in Table, r[1] = "schedule", IsThere(p, r)', call[p].call = "dissolve",
             Over(p, "delete-schedules", Lock("delete", r))'
      PROVE  Visible(p, r)'.family # family[p]
  <2>1. ~ChangesTo(p, r)
    <3>1. SUFFICES ASSUME ChangesTo(p, r) PROVE FALSE
      OBVIOUS
    <3>2. Writes(p, r, Changed(p, r)) /\ Visible(p, r)' = Changed(p, r)
      BY <3>1, LockState
    <3>3. Changed(p, r) = Absent
      BY <3>2, <1>4 DEF Writes
    <3> QED BY <3>2, <3>3, <1>4 DEF IsThere
  <2>2. Visible(p, r)' = Visible(p, r) /\ IsThere(p, r)
    BY <2>1, <1>4, LockState DEF IsThere
  <2>3. CASE Over(p, "delete-schedules", Lock("delete", r))
    BY <2>2, <2>3, <1>4 DEF SweptAlone
  <2>4. CASE ~Over(p, "delete-schedules", Lock("delete", r))
    <3>1. Current(p) = "delete-schedules" /\ Wanted(p).mode = "delete" /\ Wanted(p).row = r
      BY <1>3, <1>4, <2>4
    <3>2. ~Matches(p, r)
      BY <3>1, <2>1 DEF ChangesTo, Changes, Mode
    <3> QED BY <3>1, <3>2, <2>2, <1>4 DEF Matches, IsThere
  <2> QED BY <2>3, <2>4
<1>5. ASSUME NEW r \in Table, r[1] = "schedule", IsThere(p, r)', call[p].call = "delete",
             Over(p, "reassign-schedules", Lock("update", r))'
      PROVE  Visible(p, r)'.by # Doer(p)
  <2>1. CASE ChangesTo(p, r)
    <3>1. Matches(p, r) /\ Writes(p, r, Changed(p, r)) /\ Visible(p, r)' = Changed(p, r)
      BY <2>1, LockState
    <3>2. Changed(p, r) # Absent /\ r # MemberRow(Doer(p)) /\ r # UserRow(Doer(p))
      BY <3>1, <1>5 DEF IsThere, MemberRow, UserRow
    <3>3. /\ committed[r] # Absent
          /\ Changed(p, r) = [committed[r] EXCEPT !.by = committed[FamilyRow(committed[r].family)]]
      BY <3>1, <3>2, <1>5 DEF Writes
    <3>4. committed[r] \in Entry
      BY <3>3, <1>5, KindValues DEF WInv, TypedRows
    <3>5. Changed(p, r).by = committed[FamilyRow(committed[r].family)]
      BY <3>3, <3>4 DEF Entry
    <3>6. IsThere(p, r)
      BY <3>1 DEF Matches, IsThere
    <3>7. Creator(p, Visible(p, r).family) = committed[FamilyRow(committed[r].family)]
      BY <3>6, <1>2, <1>5, CreatorIsUser
    <3>8. Creator(p, Visible(p, r).family) # Doer(p)
      BY <3>6, <1>2, <1>5, CreatorIsAnother
    <3> QED BY <3>1, <3>5, <3>7, <3>8
  <2>2. CASE ~ChangesTo(p, r)
    <3>1. Visible(p, r)' = Visible(p, r) /\ IsThere(p, r)
      BY <2>2, <1>5, LockState DEF IsThere
    <3>2. CASE Over(p, "reassign-schedules", Lock("update", r))
      BY <3>1, <3>2, <1>5 DEF SweptAlone
    <3>3. CASE ~Over(p, "reassign-schedules", Lock("update", r))
      <4>1. Current(p) = "reassign-schedules" /\ Wanted(p).mode = "update" /\ Wanted(p).row = r
        BY <1>3, <1>5, <3>3
      <4>2. ~Matches(p, r)
        BY <4>1, <2>2 DEF ChangesTo, Changes, Mode
      <4>3. Creator(p, Visible(p, r).family) # Doer(p)
        BY <3>1, <1>2, <1>5, CreatorIsAnother
      <4> QED BY <4>1, <4>2, <4>3, <3>1, <1>5 DEF Matches, IsThere
    <3> QED BY <3>2, <3>3
  <2> QED BY <2>1, <2>2
<1> QED BY <1>2, <1>4, <1>5 DEF SweptAlone

LEMMA LockRowKeepsHInv ==
    ASSUME FInv, WInv, HInv, NEW p \in Proc, LockRow(p) PROVE HInv'
<1>1. WriteStep(p) /\ Left(p)' = Left(p)
  BY LockState
<1>2. /\ Busy(p) /\ Current(p) \notin Reads /\ call' = call /\ family' = family /\ committed' = committed
      /\ Doer(p)' = Doer(p) /\ NewRow(p)' = NewRow(p)
      /\ Choosing \cap Left(p) = {} /\ Reads \cap Left(p) = {}
  BY <1>1, WriteState DEF WriteStep
<1>3. Runs(p) /\ Answers(p) /\ NotYet(p)
  BY <1>2, Running DEF HInv
<1>4. Answers(p)'
  <2>1. ASSUME call[p].call = "answer", NEW r \in Table, r = InvitationRow(call[p].invitation),
               Over(p, "answer", Lock("update", r))'
        PROVE  written'[p][r] # Same \/ committed[r] = Absent
    <3>1. CASE ChangesTo(p, r)
      BY <3>1, LockState
    <3>2. CASE ~ChangesTo(p, r)
      <4>1. written'[p][r] = written[p][r]
        BY <3>2, LockState
      <4>2. CASE Over(p, "answer", Lock("update", r))
        BY <4>1, <4>2, <2>1, <1>2, <1>3 DEF Answers
      <4>3. CASE ~Over(p, "answer", Lock("update", r))
        <5>1. Current(p) = "answer" /\ Wanted(p).mode = "update" /\ Wanted(p).row = r
          <6>1. \A s, m, x : Over(p, s, Lock(m, x))' /\ ~Over(p, s, Lock(m, x)) =>
                     Current(p) = s /\ Wanted(p).mode = m /\ Wanted(p).row = x
            BY LockState
          <6> QED BY <6>1, <2>1, <4>3
        <5>2. ~Matches(p, r)
          BY <5>1, <3>2 DEF ChangesTo, Changes, Mode
        <5>3. Visible(p, r) = Absent
          BY <5>1, <5>2, <2>1 DEF Matches
        <5> QED BY <5>3, <4>1 DEF Visible
      <4> QED BY <4>2, <4>3
    <3> QED BY <3>1, <3>2
  <2> QED BY <2>1, <1>1, WriteKeepsAnswers
<1>5. Plans(p)'
  BY <1>1, WriteKeepsPlans
<1>6. Leaves(p)'
  BY LockRowKeepsLeaves
<1>7. ASSUME NEW r \in Table,
             \/ call[p].call \in {"create", "invite", "schedule", "journal"}
             \/ call[p].call = "answer" /\ r[1] # "invitation"
      PROVE  written'[p][r] = written[p][r] /\ Visible(p, r)' = Visible(p, r)
  <2>1. ~ChangesTo(p, r)
    BY <1>2, <1>7, LockState, ChangingCall
  <2> QED BY <2>1, LockState
<1>8. NotYet(p)'
  <2>1. MemberRow(Doer(p)) \in Table /\ MemberRow(Doer(p))[1] = "member"
    BY <1>2, Calling, UserRows
  <2>2. call[p].call = "invite" => NewRow(p) \in Table
    BY <1>2, <1>3, NewRows DEF Runs
  <2>3. MemberRow(Doer(p))' = MemberRow(Doer(p))
    BY <1>2 DEF MemberRow
  <2>4. /\ call[p].call = "create" /\ "add-owner" \in Left(p) => written'[p][MemberRow(Doer(p))] = Same
        /\ call[p].call = "answer" /\ ("add-member" \in Left(p) \/ ~call[p].accept) =>
              written'[p][MemberRow(Doer(p))] = Same
        /\ call[p].call = "invite" /\ "add-invitation" \in Left(p) => written'[p][NewRow(p)] = Same
    BY <2>1, <2>2, <1>3, <1>7 DEF NotYet
  <2> QED BY <2>3, <2>4, <1>1, <1>2 DEF NotYet
<1>9. ASSUME alongside[p] = {} PROVE ReadAlone(p)' /\ SweptAlone(p)'
  <2>1. ReadAlone(p) /\ SweptAlone(p)
    BY <1>2, <1>9 DEF HInv, Alone
  <2>2. call[p].call = "invite" =>
           \A i \in Invitation : IsPending(p, i, family[p], call[p].invited)' =>
               IsPending(p, i, family[p], call[p].invited)
    <3>1. SUFFICES ASSUME call[p].call = "invite", NEW i \in Invitation PROVE
             IsPending(p, i, family[p], call[p].invited)' => IsPending(p, i, family[p], call[p].invited)
      OBVIOUS
    <3>2. InvitationRow(i) \in Table
      BY InvitationRows
    <3>3. Visible(p, InvitationRow(i))' = Visible(p, InvitationRow(i))
      <4>1. InvitationRow(i)' = InvitationRow(i)
        BY DEF InvitationRow
      <4> QED BY <4>1, <3>1, <3>2, <1>7
    <3> QED BY <3>3, <1>2 DEF IsPending, IsThere, InvitationRow
  <2>3. ReadAlone(p)'
    BY <2>1, <2>2, <1>1, WriteKeepsReadAlone
  <2> QED BY <2>1, <2>3, LockRowKeepsSweptAlone
<1>10. Alone(p)'
  BY <1>9, <1>1 DEF Alone, WriteStep, history
<1>11. UNCHANGED <<committed, call, new, history>> /\ \A q \in Proc \ {p} : Kept(q)
  BY <1>1 DEF WriteStep
<1> QED BY <1>2, <1>4, <1>5, <1>6, <1>8, <1>10, <1>11, HistoryOfStep

(***************************************************************************)
(* A statement ends.                                                        *)
(***************************************************************************)
LEMMA AddedKeys ==
    ASSUME NEW p \in Proc, NEW r \in DOMAIN Added(p)
    PROVE  /\ Current(p) \in Inserting
           /\ Current(p) = "add-family" => r = FamilyRow(family[p])
           /\ Current(p) \in {"add-owner", "add-member"} => r = MemberRow(Doer(p))
           /\ Current(p) = "add-invitation" => r = InvitationRow(new[p])
<1>1. Current(p) \in Inserting
  BY AddsNothing
<1>2. Current(p) = "add-family" => r = FamilyRow(family[p])
  BY DEF Added
<1>3. Current(p) = "add-owner" => r = MemberRow(Doer(p))
  BY DEF Added
<1>4. Current(p) = "add-member" => r = MemberRow(Doer(p))
  BY DEF Added
<1>5. Current(p) = "add-invitation" => r = InvitationRow(new[p])
  BY DEF Added
<1> QED BY <1>1, <1>2, <1>3, <1>4, <1>5

LEMMA EndState ==
    ASSUME FInv, WInv, HInv, NEW p \in Proc, EndStatement(p)
    PROVE  /\ WriteStep(p) /\ Left(p)' \subseteq Left(p) /\ Current(p) \notin Left(p)'
           /\ \A s, m, r : m # "done" /\ Over(p, s, Lock(m, r))' => Over(p, s, Lock(m, r))
           /\ \A r \in Table : r \notin DOMAIN Added(p) =>
                 written'[p][r] = written[p][r] /\ Visible(p, r)' = Visible(p, r)
<1>1. /\ Busy(p) /\ queue[p] = <<Done>> /\ queue[p] # <<>>
      /\ queue' = [queue EXCEPT ![p] = <<>>] /\ program' = [program EXCEPT ![p] = Tail(program[p])]
      /\ written' = [written EXCEPT ![p] = [r \in Table |->
                        IF r \in DOMAIN Added(p) THEN Added(p)[r] ELSE written[p][r]]]
      /\ UNCHANGED <<committed, holder, sharers, call, family, new, drawn>> /\ history' = history
  <2>1. <<Done>> # <<>>
    OBVIOUS
  <2> QED BY <2>1 DEF EndStatement, Advance, connection, history
<1>2. /\ queue'[p] = <<>> /\ program'[p] = Tail(program[p])
      /\ \A r \in Table : written'[p][r] = IF r \in DOMAIN Added(p) THEN Added(p)[r]
                                           ELSE written[p][r]
  BY <1>1 DEF FInv, Shapes
<1>3. Runs(p) /\ Current(p) \notin Reads \cup {"commit"}
  BY <1>1, Running DEF FInv, Connected
<1>4. /\ Left(p)' \subseteq Left(p)
      /\ \A s \in Left(p) : s # Current(p) => s \in Left(p)'
  BY <1>1, <1>2, <1>3, Advanced DEF Runs
<1>5. Current(p) \notin Left(p)'
  BY <1>1, <1>2, <1>3, Behind DEF Runs
<1>6. \A q \in Proc \ {p} : Kept(q)
  BY <1>1 DEF Kept, FInv, Shapes
<1>7. WriteStep(p)
  BY <1>1, <1>3, <1>6 DEF WriteStep
<1>8. Ahead(p) = {Done}
  <2>1. Len(<<Done>>) = 1 /\ <<Done>>[1] = Done /\ 1..1 = {1}
    OBVIOUS
  <2> QED BY <2>1, <1>1 DEF Ahead
<1>9. ASSUME NEW s, NEW m, NEW r, m # "done", Over(p, s, Lock(m, r))'
      PROVE  Over(p, s, Lock(m, r))
  <2>1. s \notin Left(p)'
    BY <1>2, <1>9 DEF Over
  <2>2. Lock(m, r) # Done
    BY <1>9 DEF Lock, Done
  <2> QED BY <2>1, <2>2, <1>1, <1>4, <1>8 DEF Over
<1>10. ASSUME NEW r \in Table, r \notin DOMAIN Added(p)
       PROVE  written'[p][r] = written[p][r] /\ Visible(p, r)' = Visible(p, r)
  BY <1>1, <1>2, <1>10 DEF Visible
<1> QED BY <1>4, <1>5, <1>7, <1>9, <1>10

LEMMA EndKeepsNotYet ==
    ASSUME FInv, WInv, HInv, NEW p \in Proc, EndStatement(p)
    PROVE  NotYet(p)'
<1>1. WriteStep(p) /\ Left(p)' \subseteq Left(p) /\ Current(p) \notin Left(p)'
  BY EndState
<1>2. /\ Busy(p) /\ call' = call /\ Doer(p)' = Doer(p) /\ NewRow(p)' = NewRow(p)
      /\ Reads \cap Left(p) = {}
  BY <1>1, WriteState DEF WriteStep
<1>3. Runs(p) /\ NotYet(p)
  BY <1>2, Running DEF HInv
<1>4. MemberRow(Doer(p)) \in Table /\ MemberRow(Doer(p))[1] = "member" /\ MemberRow(Doer(p))' = MemberRow(Doer(p))
  <2>1. MemberRow(Doer(p))' = MemberRow(Doer(p))
    BY <1>2 DEF MemberRow
  <2> QED BY <2>1, <1>2, Calling, UserRows
<1>5. \A r \in Table : r \notin DOMAIN Added(p) => written'[p][r] = written[p][r]
  BY EndState
<1>6. ASSUME call[p].call = "create", "add-owner" \in Left(p)'
      PROVE  written'[p][MemberRow(Doer(p))] = Same
  <2>1. Current(p) # "add-owner" /\ "add-owner" \in Left(p)
    BY <1>1, <1>6
  <2>2. MemberRow(Doer(p)) \notin DOMAIN Added(p)
    <3>1. SUFFICES ASSUME MemberRow(Doer(p)) \in DOMAIN Added(p) PROVE FALSE
      OBVIOUS
    <3>2. Current(p) \in Inserting
      BY <3>1, AddedKeys
    <3>3. Current(p) = "add-family"
      BY <3>2, <2>1, <1>2, <1>3, <1>6, CallOf DEF Runs, Inserting
    <3>4. MemberRow(Doer(p)) = FamilyRow(family[p])
      BY <3>1, <3>3, AddedKeys
    <3> QED BY <3>4 DEF MemberRow, FamilyRow
  <2> QED BY <2>1, <2>2, <1>3, <1>4, <1>5, <1>6 DEF NotYet
<1>7. ASSUME call[p].call = "answer", "add-member" \in Left(p)' \/ ~call[p].accept
      PROVE  written'[p][MemberRow(Doer(p))] = Same
  <2>1. Current(p) # "add-member" /\ ("add-member" \in Left(p) \/ ~call[p].accept)
    BY <1>1, <1>2, <1>3, <1>7, OrderOf DEF Runs
  <2>2. Current(p) \notin Inserting
    BY <2>1, <1>2, <1>3, <1>7, CallOf DEF Runs, Inserting
  <2>3. MemberRow(Doer(p)) \notin DOMAIN Added(p)
    BY <2>2, AddsNothing
  <2> QED BY <2>1, <2>3, <1>3, <1>4, <1>5, <1>7 DEF NotYet
<1>8. ASSUME call[p].call = "invite", "add-invitation" \in Left(p)'
      PROVE  written'[p][NewRow(p)] = Same
  <2>1. Current(p) # "add-invitation" /\ "add-invitation" \in Left(p)
    BY <1>1, <1>8
  <2>2. Current(p) \notin Inserting
    BY <2>1, <1>2, <1>3, <1>8, CallOf DEF Runs, Inserting
  <2>3. NewRow(p) \notin DOMAIN Added(p)
    BY <2>2, AddsNothing
  <2>4. NewRow(p) \in Table
    BY <1>2, <1>3, <1>8, NewRows DEF Runs
  <2> QED BY <2>1, <2>3, <2>4, <1>3, <1>5, <1>8 DEF NotYet
<1>9. Reads \cap Left(p)' = {}
  BY <1>1, <1>2
<1> QED BY <1>2, <1>4, <1>6, <1>7, <1>8, <1>9 DEF NotYet

LEMMA EndStatementKeepsHInv ==
    ASSUME FInv, WInv, HInv, NEW p \in Proc, EndStatement(p) PROVE HInv'
<1>1. WriteStep(p) /\ Left(p)' \subseteq Left(p)
      /\ \A s, m, r : m # "done" /\ Over(p, s, Lock(m, r))' => Over(p, s, Lock(m, r))
  BY EndState
<1>2. /\ Busy(p) /\ Current(p) \notin Reads /\ call' = call /\ family' = family /\ committed' = committed
      /\ Doer(p)' = Doer(p) /\ NewRow(p)' = NewRow(p) /\ Choosing \cap Left(p) = {}
  BY <1>1, WriteState DEF WriteStep
<1>3. Runs(p) /\ Answers(p) /\ Leaves(p)
  BY <1>2, Running DEF HInv
<1>4. \A r \in Table : r \notin DOMAIN Added(p) =>
         written'[p][r] = written[p][r] /\ Visible(p, r)' = Visible(p, r)
  BY EndState
<1>5. call[p].call \in {"leave", "dissolve", "delete"} => \A r \in Table : Visible(p, r)' = Visible(p, r)
  <2>1. call[p].call \in {"leave", "dissolve", "delete"} => Current(p) \notin Inserting
    BY <1>2, <1>3, CallOf DEF Runs, Inserting
  <2> QED BY <2>1, <1>4, AddsNothing
<1>6. Answers(p)'
  <2>1. ASSUME call[p].call = "answer", NEW r \in Table, r = InvitationRow(call[p].invitation),
               Over(p, "answer", Lock("update", r))'
        PROVE  written'[p][r] # Same \/ committed[r] = Absent
    <3>1. Over(p, "answer", Lock("update", r))
      BY <1>1, <2>1
    <3>2. written[p][r] # Same \/ committed[r] = Absent
      BY <3>1, <2>1, <1>2, <1>3 DEF Answers
    <3>3. r \notin DOMAIN Added(p)
      <4>1. SUFFICES ASSUME r \in DOMAIN Added(p) PROVE FALSE
        OBVIOUS
      <4>2. Current(p) \in Inserting
        BY <4>1, AddedKeys
      <4>3. Current(p) = "add-member"
        BY <4>2, <2>1, <1>2, <1>3, CallOf DEF Runs, Inserting
      <4>4. r = MemberRow(Doer(p))
        BY <4>1, <4>3, AddedKeys
      <4> QED BY <4>4, <2>1 DEF MemberRow, InvitationRow
    <3> QED BY <3>2, <3>3, <1>4
  <2> QED BY <2>1, <1>1, WriteKeepsAnswers
<1>7. Plans(p)'
  BY <1>1, WriteKeepsPlans
<1>8. Leaves(p)'
  <2>1. SUFFICES ASSUME call[p].call = "leave" PROVE Leaves(p)'
    BY <1>2 DEF Leaves
  <2>2. ASSUME NEW r \in Table, r[1] = "schedule", StillOwn(p, r)', Over(p, "reassign-schedules", Lock("update", r))'
        PROVE  r[2] \in contested
    <3>1. Visible(p, r)' = Visible(p, r)
      BY <1>5, <2>1
    <3>2. StillOwn(p, r)
      BY <3>1, <2>2, <1>2 DEF StillOwn, IsThere
    <3>3. Over(p, "reassign-schedules", Lock("update", r))
      BY <2>2, <1>1
    <3> QED BY <3>2, <3>3, <2>1, <2>2, <1>2, <1>3 DEF Leaves
  <2>3. contested' = contested
    BY <1>1 DEF WriteStep, history
  <2> QED BY <2>2, <2>3 DEF Leaves
<1>9. NotYet(p)'
  BY EndKeepsNotYet
<1>10. ASSUME alongside[p] = {} PROVE ReadAlone(p)' /\ SweptAlone(p)'
  <2>1. ReadAlone(p) /\ SweptAlone(p)
    BY <1>2, <1>10 DEF HInv, Alone
  <2>2. ASSUME call[p].call = "invite", NEW i \in Invitation, IsPending(p, i, family[p], call[p].invited)'
        PROVE  IsPending(p, i, family[p], call[p].invited) \/ InvitationRow(i) = NewRow(p)
    <3>1. InvitationRow(i) \in Table /\ InvitationRow(i)' = InvitationRow(i)
      BY InvitationRows DEF InvitationRow
    <3>2. CASE InvitationRow(i) \in DOMAIN Added(p)
      <4>1. Current(p) \in Inserting
        BY <3>2, AddedKeys
      <4>2. Current(p) = "add-invitation"
        BY <4>1, <2>2, <1>2, <1>3, CallOf DEF Runs, Inserting
      <4>3. InvitationRow(i) = InvitationRow(new[p])
        BY <3>2, <4>2, AddedKeys
      <4> QED BY <4>3, <2>2, <1>2, <1>3, NewRows DEF Runs
    <3>3. CASE InvitationRow(i) \notin DOMAIN Added(p)
      <4>1. Visible(p, InvitationRow(i))' = Visible(p, InvitationRow(i))
        BY <3>1, <3>3, <1>4
      <4> QED BY <4>1, <2>2, <1>2 DEF IsPending, IsThere, InvitationRow
    <3> QED BY <3>2, <3>3
  <2>3. ReadAlone(p)'
    BY <2>1, <2>2, <1>1, WriteKeepsReadAlone
  <2>4. SweptAlone(p)'
    <3>1. SUFFICES ASSUME call[p].call \in {"dissolve", "delete"} PROVE SweptAlone(p)'
      BY <1>2 DEF SweptAlone
    <3>2. \A r \in Table : Visible(p, r)' = Visible(p, r) /\ (IsThere(p, r)' <=> IsThere(p, r))
      BY <3>1, <1>5 DEF IsThere
    <3>3. \A r : /\ Over(p, "delete-schedules", Lock("delete", r))' => Over(p, "delete-schedules", Lock("delete", r))
                 /\ Over(p, "reassign-schedules", Lock("update", r))' => Over(p, "reassign-schedules", Lock("update", r))
      BY <1>1
    <3> QED BY <2>1, <3>2, <3>3, <1>2 DEF SweptAlone
  <2> QED BY <2>3, <2>4
<1>11. Alone(p)'
  BY <1>10, <1>1 DEF Alone, WriteStep, history
<1>12. UNCHANGED <<committed, call, new, history>> /\ \A q \in Proc \ {p} : Kept(q)
  BY <1>1 DEF WriteStep
<1> QED BY <1>2, <1>6, <1>7, <1>8, <1>9, <1>11, <1>12, HistoryOfStep

(***************************************************************************)
(* A call commits: what the calls beside it know.                           *)
(***************************************************************************)
LEMMA CommitAround ==
    ASSUME FInv, WInv, HInv, NEW p \in Proc, CommitTransaction(p)
    PROVE  /\ Busy(p) /\ Runs(p) /\ Current(p) = "commit" /\ ~Busy(p)' /\ Choosing \cap Left(p) = {}
           /\ contested' = contested \cup Contested(p) /\ drawn' = drawn /\ DOMAIN alongside' = Proc
           /\ \A q \in Proc \ {p} : /\ Kept(q) /\ alongside'[q] = alongside[q]
                                    /\ (Busy(q)' <=> Busy(q)) /\ NewRow(q)' = NewRow(q)
           /\ \A r : Unborn(r) => Unborn(r)'
           /\ Answers(p) /\ Plans(p) /\ Leaves(p) /\ NotYet(p)
<1>1. Busy(p) /\ Runs(p) /\ Current(p) = "commit" /\ EndTransaction(p) /\ Choosing \cap Left(p) = {}
      /\ drawn' = drawn
  BY CommitState
<1>2. ~Busy(p)' /\ \A q \in Proc \ {p} : Kept(q)
  BY <1>1, EndKeeps
<1>3. contested' = contested \cup Contested(p) /\ alongside' = [alongside EXCEPT ![p] = {}]
  BY DEF CommitTransaction, EndTransaction
<1>4. DOMAIN alongside' = Proc
  BY <1>3 DEF HInv
<1>5. \A q \in Proc \ {p} : /\ Kept(q) /\ alongside'[q] = alongside[q]
                            /\ (Busy(q)' <=> Busy(q)) /\ NewRow(q)' = NewRow(q)
  BY <1>2, <1>3, KeptState DEF HInv
<1>6. ASSUME NEW r, Unborn(r) PROVE Unborn(r)'
  <2>1. \A q \in Proc : Busy(q)' => Busy(q) /\ NewRow(q)' = NewRow(q)
    BY <1>2, <1>5
  <2> QED BY <2>1, <1>1, <1>6 DEF Unborn
<1>7. Answers(p) /\ Plans(p) /\ Leaves(p) /\ NotYet(p)
  BY <1>1 DEF HInv
<1> QED BY <1>1, <1>2, <1>3, <1>4, <1>5, <1>6, <1>7

\* a dissolved family and a deleted account are gone
LEMMA CommitRemoves ==
    ASSUME FInv, WInv, NEW p \in Proc, CommitTransaction(p)
    PROVE  /\ call[p].call = "dissolve" => committed'[FamilyRow(family[p])] = Absent
           /\ call[p].call = "delete" => committed'[UserRow(Doer(p))] = Absent
<1>1. \A r \in Table : committed'[r] = Visible(p, r)
  BY CommitState
<1>2. Doer(p) \in User /\ (call[p].call # "delete" => family[p] \in Family)
  BY CommitState
<1>3. ASSUME call[p].call = "dissolve" PROVE committed'[FamilyRow(family[p])] = Absent
  <2>1. FamilyRow(family[p]) \in Table
    BY <1>2, <1>3, FamilyRows
  <2>2. "delete-family" \in Clearing(p)
    BY <1>3 DEF Clearing
  <2>3. ~Target(p, "delete-family", FamilyRow(family[p]))
    BY <2>1, <2>2, CommitCleared
  <2>4. Swept(p, "delete-family") = FamilyRow(family[p]) /\ "delete-family" \notin Sweeping
    BY DEF Swept, Sweeping
  <2> QED BY <2>1, <2>3, <2>4, <1>1 DEF Target, IsThere
<1>4. ASSUME call[p].call = "delete" PROVE committed'[UserRow(Doer(p))] = Absent
  <2>1. UserRow(Doer(p)) \in Table
    BY <1>2, UserRows
  <2>2. "delete-user" \in Clearing(p)
    BY <1>4 DEF Clearing
  <2>3. ~Target(p, "delete-user", UserRow(Doer(p)))
    BY <2>1, <2>2, CommitCleared
  <2>4. Swept(p, "delete-user") = UserRow(Doer(p)) /\ "delete-user" \notin Sweeping
    BY DEF Swept, Sweeping
  <2> QED BY <2>1, <2>3, <2>4, <1>1 DEF Target, IsThere
<1> QED BY <1>3, <1>4

\* what refers to a row, refers to one that is there
LEMMA CommitParents ==
    ASSUME FInv, WInv, NEW p \in Proc, CommitTransaction(p), NEW r \in Table, committed'[r] # Absent,
           NEW parent \in Parents(r, committed'[r])
    PROVE  committed'[parent] # Absent
<1>1. Parents(r, committed[r])' = Parents(r, committed'[r])
  BY DEF Parents, UserRow, FamilyRow, CategoryRow, AccountRow
<1> QED BY <1>1, CommitReferences DEF References

\* what was gone is gone, unless the call creates it
LEMMA GoneStays ==
    ASSUME FInv, WInv, NEW p \in Proc, CommitTransaction(p), NEW r \in Table,
           r # NewRow(p), r[1] # "member", committed[r] = Absent
    PROVE  committed'[r] = Absent
<1>1. SUFFICES ASSUME committed'[r] # Absent PROVE FALSE
  OBVIOUS
<1>2. Writes(p, r, committed'[r]) /\ Busy(p)
  BY <1>1, CommitWrites, CommitState
<1>3. Doer(p) \in User
  BY CommitState
<1> QED BY <1>2, <1>3, WritesNew, UserRows

LEMMA OrphanStays ==
    ASSUME FInv, WInv, NEW p \in Proc, CommitTransaction(p), NEW q \in Proc \ {p}, Busy(q),
           family[q] \in Family, NewRow(p) # FamilyRow(family[q]), Orphaned(q)
    PROVE  Orphaned(q)'
<1>1. Doer(q) \in User /\ Doer(q)' = Doer(q) /\ family'[q] = family[q]
  BY Calling, CommitBeside, KeptState DEF Kept
<1>2. FamilyRow(family[q])' = FamilyRow(family[q]) /\ UserRow(Doer(q))' = UserRow(Doer(q))
  BY <1>1 DEF FamilyRow, UserRow
<1>3. FamilyRow(family[q]) \in Table /\ FamilyRow(family[q])[1] = "family"
  BY FamilyRows
<1>4. UserRow(Doer(q)) \in Table /\ UserRow(Doer(q))[1] = "user"
  BY <1>1, UserRows
<1>5. UserRow(Doer(q)) # NewRow(p)
  BY <1>4 DEF NewRow, NewKind
<1>6. committed[FamilyRow(family[q])] = Absent => committed'[FamilyRow(family[q])] = Absent
  BY <1>3, GoneStays
<1>7. committed[UserRow(Doer(q))] = Absent => committed'[UserRow(Doer(q))] = Absent
  BY <1>4, <1>5, GoneStays
<1> QED BY <1>2, <1>6, <1>7 DEF Orphaned

\* what is written in the row of an invitation that is there
LEMMA AnswerWrites ==
    ASSUME FInv, WInv, NEW p \in Proc, CommitTransaction(p), NEW i \in Invitation,
           committed[InvitationRow(i)] # Absent, committed'[InvitationRow(i)] # Absent
    PROVE  /\ committed'[InvitationRow(i)].family = committed[InvitationRow(i)].family
           /\ committed'[InvitationRow(i)].invited = committed[InvitationRow(i)].invited
           /\ \/ committed'[InvitationRow(i)] = committed[InvitationRow(i)]
              \/ /\ call[p].call = "answer" /\ call[p].invitation = i
                 /\ committed'[InvitationRow(i)].status = IF call[p].accept THEN "accepted" ELSE "declined"
<1> DEFINE r == InvitationRow(i)
<1>1. r \in Table /\ r[1] = "invitation" /\ r[2] = i
  BY InvitationRows
<1>2. committed[r] \in Invite
  BY <1>1, KindValues DEF WInv, TypedRows
<1>3. CASE written[p][r] = Same
  BY <1>1, <1>3, CommitWrites
<1>4. CASE written[p][r] # Same
  <2>1. Writes(p, r, committed'[r]) /\ Busy(p) /\ Runs(p)
    BY <1>1, <1>4, CommitWrites, CommitState
  <2>2. r # NewRow(p)
    <3>1. SUFFICES ASSUME r = NewRow(p) PROVE FALSE
      OBVIOUS
    <3>2. NewKind(call[p]) # "none"
      BY <3>1, <1>1 DEF NewRow
    <3> QED BY <3>1, <3>2, <2>1 DEF Runs, Fresh
  <2>3. r # FamilyRow(family[p]) /\ r # MemberRow(Doer(p))
    BY <1>1 DEF FamilyRow, MemberRow
  <2>4. /\ call[p].call = "answer" /\ r = InvitationRow(call[p].invitation)
        /\ committed'[r] = [committed[r] EXCEPT !.status = IF call[p].accept THEN "accepted" ELSE "declined"]
    <3>1. r[1] # "schedule" /\ committed'[r] # Absent /\ committed[r] # Absent
      BY <1>1
    <3> HIDE DEF r
    <3> QED BY <2>1, <2>2, <2>3, <3>1 DEF Writes
  <2>5. call[p].invitation = i
    BY <2>4 DEF InvitationRow
  <2>6. /\ committed'[r].family = committed[r].family /\ committed'[r].invited = committed[r].invited
        /\ committed'[r].status = IF call[p].accept THEN "accepted" ELSE "declined"
    BY <1>2, <2>4 DEF Invite
  <2> QED BY <2>4, <2>5, <2>6
<1> QED BY <1>3, <1>4

\* an invitation goes with its family or with who is invited
LEMMA InvitationGoes ==
    ASSUME FInv, WInv, NEW p \in Proc, CommitTransaction(p), NEW i \in Invitation,
           committed[InvitationRow(i)] # Absent, committed'[InvitationRow(i)] = Absent
    PROVE  \/ committed'[FamilyRow(committed[InvitationRow(i)].family)] = Absent
           \/ committed'[UserRow(committed[InvitationRow(i)].invited)] = Absent
<1> DEFINE r == InvitationRow(i)
<1>1. r \in Table /\ r[1] = "invitation"
  BY InvitationRows
<1>2. committed[r] \in Invite
  BY <1>1, KindValues DEF WInv, TypedRows
<1>3. PICK f \in Family : f = committed[r].family
  BY <1>2 DEF Invite
<1>4. Busy(p) /\ Runs(p) /\ Writes(p, r, Absent) /\ Doer(p) \in User
  BY <1>1, CommitWrites, CommitState
<1>5. \/ call[p].call = "dissolve" /\ committed[r].family = family[p]
      \/ call[p].call = "delete" /\ Doer(p) \in {committed[r].invited, committed[r].by}
  <2>1. Absent \notin Values(r) /\ Values(r) = Invite
    BY <1>1, KindValues
  <2>2. Absent # [committed[r] EXCEPT !.status = IF call[p].accept THEN "accepted" ELSE "declined"]
    <3>1. [committed[r] EXCEPT !.status = IF call[p].accept THEN "accepted" ELSE "declined"] \in Invite
      BY <1>2 DEF Invite
    <3> QED BY <2>1, <3>1
  <2>3. r # NewRow(p)
    <3>1. SUFFICES ASSUME r = NewRow(p) PROVE FALSE
      OBVIOUS
    <3>2. NewKind(call[p]) # "none"
      BY <3>1, <1>1 DEF NewRow
    <3> QED BY <3>1, <3>2, <1>4 DEF Runs, Fresh
  <2>4. r # FamilyRow(family[p]) /\ r # MemberRow(Doer(p)) /\ r # UserRow(Doer(p))
        /\ r # CategoryRow(family[p]) /\ r # AccountRow(family[p])
    BY <1>1 DEF FamilyRow, MemberRow, UserRow, CategoryRow, AccountRow
  <2>5. r[1] # "schedule" /\ committed[r] # Absent
    BY <1>1
  <2> HIDE DEF r
  <2> QED BY <2>2, <2>3, <2>4, <2>5, <1>4 DEF Writes
<1>6. CASE call[p].call = "dissolve" /\ committed[r].family = family[p]
  BY <1>6, CommitRemoves
<1>7. CASE call[p].call = "delete" /\ Doer(p) = committed[r].invited
  BY <1>7, CommitRemoves
<1>8. CASE call[p].call = "delete" /\ Doer(p) = committed[r].by
  <2>1. committed'[UserRow(Doer(p))] = Absent
    BY <1>8, CommitRemoves
  <2>2. committed[FamilyRow(f)] = Doer(p)
    BY <1>1, <1>3, <1>8 DEF WInv, FamilyIsWhole, OwnedByCreators
  <2>3. FamilyRow(f) \in Table /\ FamilyRow(f)[1] = "family"
    BY FamilyRows
  <2>4. committed[FamilyRow(f)] # Absent
    <3>1. Values(FamilyRow(f)) = User /\ Absent \notin Values(FamilyRow(f))
      BY <2>3, KindValues
    <3> QED BY <3>1, <2>2, <1>4
  <2>5. SUFFICES ASSUME committed'[FamilyRow(f)] # Absent PROVE FALSE
    BY <1>3
  <2>6. committed'[FamilyRow(f)] = Doer(p)
    BY <2>2, <2>4, <2>5, FamilyStays
  <2>7. UserRow(Doer(p)) \in Parents(FamilyRow(f), committed'[FamilyRow(f)])
    BY <2>3, <2>6 DEF Parents
  <2> QED BY <2>1, <2>3, <2>5, <2>7, CommitParents
<1> QED BY <1>5, <1>6, <1>7, <1>8

LEMMA CommitKeepsAnswers ==
    ASSUME FInv, WInv, HInv, NEW p \in Proc, CommitTransaction(p), NEW q \in Proc \ {p}, Busy(q)
    PROVE  Answers(q)'
<1> DEFINE r == InvitationRow(call[q].invitation)
<1>1. /\ Kept(q) /\ alongside'[q] = alongside[q] /\ Busy(p) /\ Runs(p)
      /\ \A x : Unborn(x) => Unborn(x)'
  BY CommitAround
<1>2. /\ call'[q] = call[q] /\ family'[q] = family[q] /\ written'[q] = written[q]
      /\ Left(q)' = Left(q) /\ Doer(q)' = Doer(q)
  BY <1>1, KeptState DEF Kept
<1>3. SUFFICES ASSUME call[q].call = "answer", Choosing \cap Left(q) = {} PROVE Answers(q)'
  BY <1>2 DEF Answers
<1>4. r' = r /\ Lock("update", r)' = Lock("update", r)
  BY <1>2 DEF InvitationRow, Lock
<1>5. PICK i \in Invitation : i = call[q].invitation
  BY <1>3, HistoryRows
<1>6. r = InvitationRow(i) /\ r \in Table /\ r[1] = "invitation"
  BY <1>5, InvitationRows
<1>7. /\ Unborn(r)
      /\ committed[r] # Absent =>
            /\ committed[r].family = family[q] /\ committed[r].invited = Doer(q)
            /\ committed[r].status # "pending" => AnsweredBeside(q)
      /\ committed[r] = Absent => Orphaned(q)
      /\ Over(q, "answer", Lock("update", r)) => written[q][r] # Same \/ committed[r] = Absent
  BY <1>3 DEF HInv, Answers
<1>8. AnsweredBeside(q)' <=> AnsweredBeside(q)
  BY <1>1, <1>2 DEF AnsweredBeside
<1>9. Runs(q) /\ family[q] \in Family /\ NewRow(p) # FamilyRow(family[q])
  BY <1>1, <1>3, Running DEF Runs, Chose
<1>10. Orphaned(q) => Orphaned(q)'
  BY <1>9, OrphanStays
<1>11. committed[r] = Absent => committed'[r] = Absent
  BY <1>1, <1>6, <1>7, GoneStays DEF Unborn
<1>12. committed'[r] = Absent => Orphaned(q)'
  <2>1. CASE committed[r] = Absent
    BY <2>1, <1>7, <1>10
  <2>2. CASE committed[r] # Absent /\ committed'[r] = Absent
    <3>1. \/ committed'[FamilyRow(committed[r].family)] = Absent
          \/ committed'[UserRow(committed[r].invited)] = Absent
      BY <2>2, <1>6, InvitationGoes
    <3>2. committed'[FamilyRow(family[q])] = Absent \/ committed'[UserRow(Doer(q))] = Absent
      BY <2>2, <3>1, <1>7
    <3>3. FamilyRow(family[q])' = FamilyRow(family[q]) /\ UserRow(Doer(q))' = UserRow(Doer(q))
      BY <1>2 DEF FamilyRow, UserRow
    <3> QED BY <3>2, <3>3 DEF Orphaned
  <2> QED BY <2>1, <2>2
<1>13. ASSUME committed'[r] # Absent
       PROVE  /\ committed'[r].family = family[q] /\ committed'[r].invited = Doer(q)
              /\ committed'[r].status # "pending" => AnsweredBeside(q)
  <2>1. committed[r] # Absent
    BY <1>11, <1>13
  <2>2. /\ committed'[r].family = committed[r].family /\ committed'[r].invited = committed[r].invited
        /\ committed'[r] = committed[r] \/ (call[p].call = "answer" /\ call[p].invitation = i)
    BY <2>1, <1>6, <1>13, AnswerWrites
  <2>3. call[p].call = "answer" /\ call[p].invitation = i => AnsweredBeside(q)
    BY <1>1, <1>5, BesideAll DEF AnsweredBeside
  <2> QED BY <2>1, <2>2, <2>3, <1>7
<1>14. Over(q, "answer", Lock("update", r))' <=> Over(q, "answer", Lock("update", r))
  BY <1>1, <1>4, OverKept
<1>15. Unborn(r)'
  BY <1>1, <1>4, <1>7
<1> HIDE DEF r
<1>16. /\ Unborn(r)'
       /\ committed'[r] # Absent =>
             /\ committed'[r].family = family'[q] /\ committed'[r].invited = Doer(q)'
             /\ committed'[r].status # "pending" => AnsweredBeside(q)'
       /\ committed'[r] = Absent => Orphaned(q)'
       /\ Over(q, "answer", Lock("update", r))' => written'[q][r] # Same \/ committed'[r] = Absent
  BY <1>2, <1>7, <1>8, <1>11, <1>12, <1>13, <1>14, <1>15
<1> QED BY <1>4, <1>16 DEF Answers, r

LEMMA CommitKeepsPlans ==
    ASSUME FInv, WInv, HInv, NEW p \in Proc, CommitTransaction(p), NEW q \in Proc \ {p}, Busy(q)
    PROVE  Plans(q)'
<1> DEFINE f == family[q]  m == MemberRow(Doer(q))
<1>1. /\ Kept(q) /\ alongside'[q] = alongside[q] /\ Busy(p) /\ Runs(p)
      /\ \A x : Unborn(x) => Unborn(x)'
  BY CommitAround
<1>2. call'[q] = call[q] /\ family'[q] = family[q] /\ Left(q)' = Left(q) /\ Doer(q)' = Doer(q)
  BY <1>1, KeptState DEF Kept
<1>3. SUFFICES ASSUME call[q].call = "schedule", {"category", "access"} \cap Left(q) = {} PROVE Plans(q)'
  BY <1>2 DEF Plans
<1>4. f \in Family /\ m \in Table /\ Doer(q) \in User
  BY <1>3, HistoryRows, Calling
<1>5. FamilyRow(f)' = FamilyRow(f) /\ UserRow(Doer(q))' = UserRow(Doer(q)) /\ m' = m
  BY <1>2 DEF FamilyRow, UserRow, MemberRow
<1>6. /\ Unborn(FamilyRow(f))
      /\ \/ committed[m] # Absent /\ committed[m].family = f
         \/ LeftBeside(q)
         \/ Orphaned(q)
  BY <1>3 DEF HInv, Plans
<1>7. Unborn(FamilyRow(f))'
  BY <1>1, <1>5, <1>6
<1>8. LeftBeside(q)' <=> LeftBeside(q)
  BY <1>1, <1>2 DEF LeftBeside
<1>9. Orphaned(q) => Orphaned(q)'
  BY <1>1, <1>4, <1>6, OrphanStays DEF Unborn
<1>10. ASSUME committed[m] # Absent, committed[m].family = f
       PROVE  \/ committed'[m] # Absent /\ committed'[m].family = f
              \/ LeftBeside(q)
              \/ Orphaned(q)'
  <2>1. CASE written[p][m] = Same
    BY <2>1, <1>4, <1>10, CommitWrites
  <2>2. CASE written[p][m] # Same
    <3>1. Writes(p, m, committed'[m])
      BY <2>2, <1>4, CommitWrites
    <3>2. \/ call[p].call = "leave" /\ Doer(q) = Doer(p)
          \/ call[p].call = "dissolve" /\ family[p] = f
          \/ call[p].call = "delete" /\ Doer(q) = Doer(p)
      BY <3>1, <1>1, <1>4, <1>10, WritesMember
    <3>3. call[p].call = "leave" /\ Doer(q) = Doer(p) => LeftBeside(q)
      BY <1>1, BesideAll DEF LeftBeside, Doer
    <3>4. call[p].call = "dissolve" /\ family[p] = f => committed'[FamilyRow(f)] = Absent
      BY CommitRemoves
    <3>5. call[p].call = "delete" /\ Doer(q) = Doer(p) => committed'[UserRow(Doer(q))] = Absent
      BY CommitRemoves
    <3> QED BY <3>2, <3>3, <3>4, <3>5, <1>5 DEF Orphaned
  <2> QED BY <2>1, <2>2
<1>11. /\ Unborn(FamilyRow(f))'
       /\ \/ committed'[m] # Absent /\ committed'[m].family = f
          \/ LeftBeside(q)'
          \/ Orphaned(q)'
  BY <1>6, <1>7, <1>8, <1>9, <1>10
<1> QED BY <1>2, <1>5, <1>11 DEF Plans

LEMMA CommitKeepsLeaves ==
    ASSUME FInv, WInv, HInv, NEW p \in Proc, CommitTransaction(p), NEW q \in Proc \ {p}, Busy(q)
    PROVE  Leaves(q)'
<1>1. /\ Kept(q) /\ Busy(p) /\ Runs(p) /\ contested' = contested \cup Contested(p)
  BY CommitAround
<1>2. /\ call'[q] = call[q] /\ family'[q] = family[q] /\ written'[q] = written[q]
      /\ Left(q)' = Left(q) /\ Doer(q)' = Doer(q)
      /\ \A x : Visible(q, x)' = IF written[q][x] = Same THEN committed'[x] ELSE written[q][x]
  BY <1>1, KeptState, CommitBeside DEF Kept
<1>3. SUFFICES ASSUME call[q].call = "leave", Choosing \cap Left(q) = {}, NEW r \in Table,
                      r[1] = "schedule", StillOwn(q, r)', Over(q, "reassign-schedules", Lock("update", r))'
               PROVE  r[2] \in contested'
  BY <1>2 DEF Leaves
<1>4. Over(q, "reassign-schedules", Lock("update", r))
  <2>1. Over(q, "reassign-schedules", Lock("update", r))' <=> Over(q, "reassign-schedules", Lock("update", r))
    <3>1. Lock("update", r)' = Lock("update", r)
      BY DEF Lock
    <3> QED BY <3>1, <1>1, OverKept
  <2> QED BY <2>1, <1>3
<1>5. StillOwn(q, r) => r[2] \in contested'
  BY <1>1, <1>3, <1>4 DEF HInv, Leaves
<1>6. CASE written[q][r] # Same
  <2>1. Visible(q, r)' = Visible(q, r)
    BY <1>2, <1>6 DEF Visible
  <2> QED BY <2>1, <1>2, <1>3, <1>5 DEF StillOwn, IsThere
<1>7. CASE written[q][r] = Same
  <2>1. Visible(q, r)' = committed'[r]
    BY <1>2, <1>7
  <2>2. committed'[r] # Absent /\ committed'[r].by = Doer(q) /\ committed'[r].family = family[q]
    BY <2>1, <1>2, <1>3 DEF StillOwn, IsThere
  <2>3. CASE written[p][r] = Same
    <3>1. committed'[r] = committed[r]
      BY <2>3, CommitWrites
    <3> QED BY <3>1, <2>2, <1>5, <1>7 DEF StillOwn, IsThere, Visible
  <2>4. CASE written[p][r] # Same
    <3>1. Writes(p, r, committed'[r])
      BY <2>4, CommitWrites
    <3>2. r # FamilyRow(family[p]) /\ r # MemberRow(Doer(p)) /\ r # InvitationRow(call[p].invitation)
      BY <1>3 DEF FamilyRow, MemberRow, InvitationRow
    <3>3. call[p].call \in {"invite", "journal"} => r # NewRow(p)
      BY <1>3 DEF NewRow, NewKind
    <3>4. \/ /\ call[p].call = "schedule" /\ r = NewRow(p) /\ committed'[r] = [family |-> family[p], by |-> Doer(p)]
          \/ /\ call[p].call \in {"leave", "delete"} /\ committed[r] # Absent
             /\ committed'[r] = [committed[r] EXCEPT !.by = committed[FamilyRow(committed[r].family)]]
      BY <3>1, <3>2, <3>3, <2>2 DEF Writes
    <3>5. CASE call[p].call = "schedule" /\ r = NewRow(p) /\ committed'[r] = [family |-> family[p], by |-> Doer(p)]
      <4>1. Doer(p) = Doer(q) /\ r[2] = new[p]
        BY <3>5, <2>2 DEF NewRow
      <4>2. call[q] \in alongside[p] /\ call[q].call = "leave" /\ call[q].user = call[p].user
        BY <4>1, <1>1, <1>3, BesideAll DEF Doer
      <4>3. new[p] \in Contested(p)
        BY <4>2, <3>5 DEF Contested
      <4> QED BY <4>1, <4>3, <1>1
    <3>6. CASE /\ call[p].call \in {"leave", "delete"} /\ committed[r] # Absent
               /\ committed'[r] = [committed[r] EXCEPT !.by = committed[FamilyRow(committed[r].family)]]
      <4>1. /\ committed[r] \in Entry /\ committed[FamilyRow(committed[r].family)] # Absent
            /\ committed[r].family \in Family
        BY <3>6, <1>3, EntryReferences
      <4>2. committed'[r].by = committed[FamilyRow(committed[r].family)]
            /\ committed'[r].family = committed[r].family
        BY <3>6, <4>1 DEF Entry
      <4>3. committed[FamilyRow(family[q])] = Doer(q) /\ committed[FamilyRow(family[q])] # Absent
        BY <4>1, <4>2, <2>2
      <4>4. Chose(q)
        BY Running DEF Runs
      <4> QED BY <4>3, <4>4, <1>3 DEF Chose
    <3> QED BY <3>4, <3>5, <3>6
  <2> QED BY <2>3, <2>4
<1> QED BY <1>6, <1>7

(***************************************************************************)
(* A call commits: the members and the authors it leaves.                   *)
(***************************************************************************)
LEMMA CommitJoined ==
    ASSUME FInv, WInv, HInv, NEW p \in Proc, CommitTransaction(p), NEW u \in User,
           committed'[MemberRow(u)] # Absent, committed'[MemberRow(u)].role = "member"
    PROVE  \E i \in Invitation :
              /\ committed'[InvitationRow(i)] # Absent
              /\ committed'[InvitationRow(i)].invited = u
              /\ committed'[InvitationRow(i)].family = committed'[MemberRow(u)].family
              /\ committed'[InvitationRow(i)].status = "accepted" \/ i \in contested'
<1> DEFINE m == MemberRow(u)  f == committed'[m].family
<1>1. /\ Busy(p) /\ Runs(p) /\ Current(p) = "commit" /\ Choosing \cap Left(p) = {}
      /\ contested' = contested \cup Contested(p) /\ Answers(p) /\ NotYet(p)
  BY CommitAround
<1>2. m \in Table /\ m[1] = "member" /\ m[2] = u
  BY UserRows
<1>3. committed'[m] \in Membership
  <2>1. Values(m) = Membership
    BY <1>2, KindValues
  <2> QED BY <2>1, <1>2, CommitWrites
<1>4. f \in Family
  BY <1>3 DEF Membership
<1>5. committed'[FamilyRow(f)] # Absent /\ committed'[UserRow(u)] # Absent
  <2>1. FamilyRow(f) \in Parents(m, committed'[m]) /\ UserRow(u) \in Parents(m, committed'[m])
    BY <1>2 DEF Parents
  <2> QED BY <2>1, <1>2, CommitParents
\* the member was one before: his invitation stays, or is declined beside
<1>6. CASE written[p][m] = Same
  <2>1. committed'[m] = committed[m]
    BY <1>2, <1>6, CommitWrites
  <2>2. PICK i \in Invitation :
           /\ committed[InvitationRow(i)] # Absent
           /\ committed[InvitationRow(i)].invited = u /\ committed[InvitationRow(i)].family = f
           /\ committed[InvitationRow(i)].status = "accepted" \/ i \in contested
    <3>1. committed[m] # Absent /\ committed[m].role = "member"
      BY <2>1
    <3> QED BY <2>1, <3>1 DEF HInv, JoinedByInvitation, MembersJoined
  <2>3. committed'[InvitationRow(i)] # Absent
    BY <2>2, <1>5, InvitationGoes
  <2>4. /\ committed'[InvitationRow(i)].family = f /\ committed'[InvitationRow(i)].invited = u
        /\ \/ committed'[InvitationRow(i)] = committed[InvitationRow(i)]
           \/ /\ call[p].call = "answer" /\ call[p].invitation = i
              /\ committed'[InvitationRow(i)].status = IF call[p].accept THEN "accepted" ELSE "declined"
    BY <2>2, <2>3, AnswerWrites
  <2>5. committed'[InvitationRow(i)].status = "accepted" \/ i \in contested'
    <3>1. CASE committed'[InvitationRow(i)] = committed[InvitationRow(i)] \/ i \in contested
      BY <3>1, <2>2, <1>1
    <3>2. CASE call[p].call = "answer" /\ call[p].invitation = i /\ i \notin contested
      <4>1. committed[InvitationRow(i)].status = "accepted"
        BY <3>2, <2>2
      <4>2. committed[InvitationRow(i)].status # "pending"
        BY <4>1
      <4>3. AnsweredBeside(p)
        BY <4>2, <3>2, <2>2, <1>1 DEF Answers
      <4>4. i \in Contested(p)
        BY <4>3, <3>2 DEF AnsweredBeside, Contested
      <4> QED BY <4>4, <1>1
    <3> QED BY <2>4, <3>1, <3>2
  <2> QED BY <2>3, <2>4, <2>5
\* he has just accepted
<1>7. CASE written[p][m] # Same
  <2>1. Writes(p, m, committed'[m])
    BY <1>2, <1>7, CommitWrites
  <2>2. /\ call[p].call = "answer" /\ u = Doer(p) /\ committed'[m] = [family |-> family[p], role |-> "member"]
    <3>1. [family |-> family[p], role |-> "owner"].role # "member"
      OBVIOUS
    <3> QED BY <2>1, <3>1, <1>1, WritesMember
  <2>3. PICK i \in Invitation : i = call[p].invitation
    BY <2>2, <1>1, HistoryRows
  <2> DEFINE r == InvitationRow(i)
  <2>4. r \in Table /\ f = family[p]
    BY <2>2, InvitationRows
  <2>5. call[p].accept
    <3>1. m = MemberRow(Doer(p))
      BY <2>2
    <3> QED BY <3>1, <2>2, <1>1, <1>7 DEF NotYet
  <2>6. /\ committed[r] # Absent => committed[r].family = f /\ committed[r].invited = u
        /\ committed[r] = Absent => Orphaned(p)
        /\ written[p][r] # Same \/ committed[r] = Absent
    <3>1. Left(p) = {"commit"}
      BY <2>2, CommitState
    <3>2. Over(p, "answer", Lock("update", r))
      BY <3>1 DEF Over
    <3> QED BY <3>2, <2>2, <2>3, <2>4, <1>1 DEF Answers
  <2>7. ~Orphaned(p)
    <3>1. NewKind(call[p]) = "none"
      BY <2>2 DEF NewKind
    <3>2. FamilyRow(f) \in Table /\ FamilyRow(f)[1] = "family" /\ UserRow(u) \in Table /\ UserRow(u)[1] = "user"
      BY <1>4, FamilyRows, UserRows
    <3>3. FamilyRow(f) # NewRow(p) /\ UserRow(u) # NewRow(p)
      BY <3>1, <3>2 DEF NewRow
    <3>4. committed[FamilyRow(f)] # Absent /\ committed[UserRow(u)] # Absent
      BY <3>2, <3>3, <1>5, GoneStays
    <3> QED BY <3>4, <2>2, <2>4 DEF Orphaned
  <2>8. committed[r] # Absent /\ written[p][r] # Same
    BY <2>6, <2>7
  <2>9. committed'[r] # Absent
    BY <2>6, <2>8, <1>5, InvitationGoes
  <2>10. committed'[r].status = "accepted"
    <3>1. Writes(p, r, committed'[r]) /\ committed[r] \in Invite
      BY <2>4, <2>8, CommitWrites, InvitationRows, KindValues DEF WInv, TypedRows
    <3>2. committed'[r] = [committed[r] EXCEPT !.status = "accepted"]
      BY <3>1, <2>2, <2>5, <2>9, <1>1, WritesInvitation
    <3> QED BY <3>1, <3>2 DEF Invite
  <2>11. committed'[r].family = f /\ committed'[r].invited = u
    BY <2>6, <2>8, <2>9, AnswerWrites
  <2> QED BY <2>9, <2>10, <2>11
<1> QED BY <1>6, <1>7

LEMMA CommitAuthors ==
    ASSUME FInv, WInv, HInv, NEW p \in Proc, CommitTransaction(p), NEW s \in Schedule,
           committed'[ScheduleRow(s)] # Absent, s \notin contested'
    PROVE  /\ committed'[MemberRow(committed'[ScheduleRow(s)].by)] # Absent
           /\ committed'[MemberRow(committed'[ScheduleRow(s)].by)].family = committed'[ScheduleRow(s)].family
<1> DEFINE r == ScheduleRow(s)  b == committed'[r].by  f == committed'[r].family  m == MemberRow(b)
<1>1. /\ Busy(p) /\ Runs(p) /\ Current(p) = "commit" /\ Choosing \cap Left(p) = {}
      /\ contested' = contested \cup Contested(p) /\ Plans(p) /\ Leaves(p)
      /\ \A x \in Table : committed'[x] = Visible(p, x)
  BY CommitAround, CommitState
<1>2. r \in Table /\ r[1] = "schedule" /\ r[2] = s
  BY ScheduleRows
<1>3. committed'[r] \in Entry
  <2>1. Values(r) = Entry
    BY <1>2, KindValues
  <2> QED BY <2>1, <1>2, CommitWrites
<1>4. f \in Family /\ b \in User
  BY <1>3 DEF Entry
<1>5. FamilyRow(f) \in Table /\ FamilyRow(f)[1] = "family" /\ UserRow(b) \in Table /\ UserRow(b)[1] = "user"
      /\ m \in Table
  BY <1>4, FamilyRows, UserRows
<1>6. committed'[FamilyRow(f)] # Absent /\ committed'[UserRow(b)] # Absent
  <2>1. FamilyRow(f) \in Parents(r, committed'[r]) /\ UserRow(b) \in Parents(r, committed'[r])
    BY <1>2 DEF Parents
  <2> QED BY <2>1, <1>2, CommitParents
<1>7. CASE written[p][r] = Same
  <2>1. committed'[r] = committed[r]
    BY <1>2, <1>7, CommitWrites
  <2>2. committed[m] # Absent /\ committed[m].family = f
    <3>1. s \notin contested /\ committed[r] # Absent
      BY <2>1, <1>1
    <3> QED BY <2>1, <3>1 DEF HInv, SchedulesHaveAnAuthorInTheFamily, AuthorsBelong
  <2>3. SUFFICES ASSUME written[p][m] # Same PROVE FALSE
    BY <2>2, <1>5, CommitWrites
  <2>4. Writes(p, m, committed'[m])
    BY <2>3, <1>5, CommitWrites
  <2>5. \/ call[p].call = "leave" /\ b = Doer(p) /\ family[p] = f
        \/ call[p].call = "dissolve" /\ family[p] = f
        \/ call[p].call = "delete" /\ b = Doer(p)
    BY <2>2, <2>4, <1>1, <1>4, WritesMember
  <2>6. CASE call[p].call = "leave" /\ b = Doer(p) /\ family[p] = f
    <3>1. "reassign-schedules" \notin Left(p)
      BY <2>6, <1>1, OrderOf DEF Runs
    <3>2. Over(p, "reassign-schedules", Lock("update", r))
      BY <3>1 DEF Over
    <3>3. StillOwn(p, r)
      BY <2>6, <1>1, <1>2 DEF StillOwn, IsThere
    <3>4. r[2] \in contested
      BY <2>6, <3>2, <3>3, <1>1, <1>2 DEF Leaves
    <3> QED BY <3>4, <1>1, <1>2
  <2> QED BY <2>5, <2>6, <1>6, CommitRemoves
<1>8. CASE written[p][r] # Same
  <2>1. Writes(p, r, committed'[r])
    BY <1>2, <1>8, CommitWrites
  <2>2. r # FamilyRow(family[p]) /\ r # MemberRow(Doer(p)) /\ r # InvitationRow(call[p].invitation)
    BY <1>2 DEF FamilyRow, MemberRow, InvitationRow
  <2>3. call[p].call \in {"invite", "journal"} => r # NewRow(p)
    BY <1>2 DEF NewRow, NewKind
  <2>4. \/ /\ call[p].call = "schedule" /\ r = NewRow(p) /\ committed'[r] = [family |-> family[p], by |-> Doer(p)]
        \/ /\ call[p].call \in {"leave", "delete"} /\ committed[r] # Absent
           /\ committed'[r] = [committed[r] EXCEPT !.by = committed[FamilyRow(committed[r].family)]]
    <3>1. committed'[r] # Absent /\ r[1] = "schedule"
      BY <1>2
    <3> HIDE DEF r
    <3> QED BY <2>1, <2>2, <2>3, <3>1 DEF Writes
  <2>5. CASE call[p].call = "schedule" /\ r = NewRow(p) /\ committed'[r] = [family |-> family[p], by |-> Doer(p)]
    <3>1. f = family[p] /\ b = Doer(p) /\ r[2] = new[p]
      BY <2>5 DEF NewRow
    <3>2. {"category", "access"} \cap Left(p) = {}
      BY <2>5, <1>1, OrderOf DEF Runs
    <3>3. \/ committed[m] # Absent /\ committed[m].family = f
          \/ LeftBeside(p)
          \/ Orphaned(p)
      BY <2>5, <3>1, <3>2, <1>1 DEF Plans
    <3>4. ~LeftBeside(p)
      <4>1. LeftBeside(p) => new[p] \in Contested(p)
        BY <2>5 DEF LeftBeside, Contested, Doer
      <4> QED BY <4>1, <3>1, <1>1, <1>2
    <3>5. ~Orphaned(p)
      <4>1. FamilyRow(f) # NewRow(p) /\ UserRow(b) # NewRow(p)
        BY <2>5, <1>2, <1>5
      <4>2. committed[FamilyRow(f)] # Absent /\ committed[UserRow(b)] # Absent
        BY <4>1, <1>5, <1>6, GoneStays
      <4> QED BY <4>2, <3>1 DEF Orphaned
    <3>6. written[p][m] = Same
      <4>1. SUFFICES ASSUME written[p][m] # Same PROVE FALSE
        OBVIOUS
      <4>2. Writes(p, m, committed'[m])
        BY <4>1, <1>5, CommitWrites
      <4> QED BY <4>2, <2>5, <1>1, <1>4, WritesMember
    <3> QED BY <3>3, <3>4, <3>5, <3>6, <1>5, CommitWrites
  <2>6. CASE /\ call[p].call \in {"leave", "delete"} /\ committed[r] # Absent
             /\ committed'[r] = [committed[r] EXCEPT !.by = committed[FamilyRow(committed[r].family)]]
    <3>1. committed[r] \in Entry /\ committed[FamilyRow(committed[r].family)] # Absent
      BY <2>6, <1>2, EntryReferences
    <3>2. f = committed[r].family /\ b = committed[FamilyRow(f)] /\ committed[FamilyRow(f)] # Absent
      BY <2>6, <3>1 DEF Entry
    <3>3. committed'[FamilyRow(f)] = b
      BY <3>2, <1>4, <1>6, FamilyStays
    <3>4. committed'[m] = [family |-> f, role |-> "owner"]
      BY <3>3, <1>4, <1>6, CommitOwners
    <3>5. committed'[m] \in Membership
      BY <3>4, <1>4 DEF Membership
    <3>6. Membership = Values(m) /\ Absent \notin Values(m)
      BY <1>4, <1>5, UserRows, KindValues
    <3> QED BY <3>4, <3>5, <3>6
  <2> QED BY <2>4, <2>5, <2>6
<1> QED BY <1>7, <1>8

LEMMA CommitKeepsHInv ==
    ASSUME FInv, WInv, HInv, NEW p \in Proc, CommitTransaction(p) PROVE HInv'
<1>1. /\ ~Busy(p)' /\ DOMAIN alongside' = Proc /\ Busy(p)
      /\ \A q \in Proc \ {p} : /\ Kept(q) /\ alongside'[q] = alongside[q]
                               /\ (Busy(q)' <=> Busy(q)) /\ NewRow(q)' = NewRow(q)
  BY CommitAround
<1>2. Beside'
  BY <1>1 DEF HInv, Beside, Kept
<1>3. JoinedByInvitation'
  <2>1. MembersJoined(committed', contested')
    BY CommitJoined DEF MembersJoined
  <2> QED BY <2>1 DEF JoinedByInvitation, MembersJoined, MemberRow, InvitationRow
<1>4. SchedulesHaveAnAuthorInTheFamily'
  <2>1. AuthorsBelong(committed', contested')
    BY CommitAuthors DEF AuthorsBelong
  <2> QED BY <2>1 DEF SchedulesHaveAnAuthorInTheFamily, AuthorsBelong, MemberRow, ScheduleRow
<1>5. ASSUME NEW q \in Proc, Busy(q)'
      PROVE  Answers(q)' /\ Plans(q)' /\ Leaves(q)' /\ NotYet(q)' /\ Alone(q)'
  <2>1. q \in Proc \ {p} /\ Busy(q)
    BY <1>1, <1>5
  <2>2. Answers(q)' /\ Plans(q)' /\ Leaves(q)'
    BY <2>1, CommitKeepsAnswers, CommitKeepsPlans, CommitKeepsLeaves
  <2>3. NotYet(q)'
    <3>1. NotYet(q) /\ Kept(q)
      BY <2>1, <1>1 DEF HInv
    <3>2. Left(q)' = Left(q) /\ Doer(q)' = Doer(q) /\ NewRow(q)' = NewRow(q)
          /\ call'[q] = call[q] /\ written'[q] = written[q]
      BY <3>1, KeptState DEF Kept
    <3> QED BY <3>1, <3>2 DEF NotYet, MemberRow
  <2>4. Alone(q)'
    <3>1. alongside'[q] # {}
      BY <2>1, <1>1, BesideAll
    <3> QED BY <3>1 DEF Alone
  <2> QED BY <2>2, <2>3, <2>4
<1> QED BY <1>1, <1>2, <1>3, <1>4, <1>5 DEF HInv

(***************************************************************************)
(* Together.                                                                *)
(***************************************************************************)
LEMMA StutterKeepsHInv == ASSUME HInv, UNCHANGED vars PROVE HInv'
<1>1. UNCHANGED <<committed, call, program, family, new, queue, written, drawn, alongside, contested>>
  BY DEF vars
<1>2. ASSUME NEW q \in Proc
      PROVE  /\ Busy(q)' <=> Busy(q)
             /\ Left(q)' = Left(q) /\ Doer(q)' = Doer(q) /\ NewRow(q)' = NewRow(q)
             /\ Current(q)' = Current(q) /\ Ahead(q)' = Ahead(q)
             /\ \A r : Visible(q, r)' = Visible(q, r)
  BY <1>1 DEF Busy, Left, Doer, NewRow, Current, Ahead, Visible
<1>3. ASSUME NEW q \in Proc, NEW s, NEW m, NEW r
      PROVE  Over(q, s, Lock(m, r))' <=> Over(q, s, Lock(m, r))
  BY <1>1, <1>2 DEF Over, Lock
<1>4. ASSUME NEW r PROVE Unborn(r)' <=> Unborn(r)
  BY <1>1, <1>2 DEF Unborn
<1>5. ASSUME NEW q \in Proc
      PROVE  (Orphaned(q)' <=> Orphaned(q)) /\ (LeftBeside(q)' <=> LeftBeside(q))
             /\ (AnsweredBeside(q)' <=> AnsweredBeside(q))
  BY <1>1, <1>2 DEF Orphaned, LeftBeside, AnsweredBeside, FamilyRow, UserRow
<1>6. ASSUME NEW q \in Proc, Answers(q) PROVE Answers(q)'
  <2>1. InvitationRow(call[q].invitation)' = InvitationRow(call[q].invitation)
        /\ Lock("update", InvitationRow(call[q].invitation))' = Lock("update", InvitationRow(call[q].invitation))
    BY <1>1 DEF InvitationRow, Lock
  <2>2. Unborn(InvitationRow(call[q].invitation))' <=> Unborn(InvitationRow(call[q].invitation))
    BY <2>1, <1>4
  <2>3. Over(q, "answer", Lock("update", InvitationRow(call[q].invitation)))'
        <=> Over(q, "answer", Lock("update", InvitationRow(call[q].invitation)))
    BY <2>1, <1>3
  <2> QED BY <1>1, <1>2, <1>5, <1>6, <2>1, <2>2, <2>3 DEF Answers
<1>7. ASSUME NEW q \in Proc, Plans(q) PROVE Plans(q)'
  <2>1. FamilyRow(family[q])' = FamilyRow(family[q]) /\ MemberRow(Doer(q))' = MemberRow(Doer(q))
    BY <1>1, <1>2 DEF FamilyRow, MemberRow
  <2>2. Unborn(FamilyRow(family[q]))' <=> Unborn(FamilyRow(family[q]))
    BY <2>1, <1>4
  <2> QED BY <1>1, <1>2, <1>5, <1>7, <2>1, <2>2 DEF Plans
<1>8. ASSUME NEW q \in Proc, Leaves(q) PROVE Leaves(q)'
  <2>1. \A r : StillOwn(q, r)' <=> StillOwn(q, r)
    BY <1>1, <1>2 DEF StillOwn, IsThere
  <2>2. \A r : Over(q, "reassign-schedules", Lock("update", r))' <=> Over(q, "reassign-schedules", Lock("update", r))
    BY <1>3
  <2> QED BY <1>1, <1>2, <1>8, <2>1, <2>2 DEF Leaves
<1>9. ASSUME NEW q \in Proc, NotYet(q) PROVE NotYet(q)'
  BY <1>1, <1>2, <1>9 DEF NotYet, MemberRow
<1>10. ASSUME NEW q \in Proc, Alone(q) PROVE Alone(q)'
  <2>1. \A i, f, u : IsPending(q, i, f, u)' <=> IsPending(q, i, f, u)
    BY <1>2 DEF IsPending, IsThere, InvitationRow
  <2>2. ReadAlone(q)' <=> ReadAlone(q)
    <3>1. \A i : IsPending(q, i, family[q], call[q].invited)' <=> IsPending(q, i, family[q], call[q].invited)
      BY <2>1, <1>1
    <3> QED BY <3>1, <1>1, <1>2
            DEF ReadAlone, MemberRow, UserRow, InvitationRow, CategoryRow, AccountRow
  <2>3. SweptAlone(q)' <=> SweptAlone(q)
    <3>1. \A r : /\ Over(q, "delete-schedules", Lock("delete", r))' <=> Over(q, "delete-schedules", Lock("delete", r))
                 /\ Over(q, "reassign-schedules", Lock("update", r))' <=> Over(q, "reassign-schedules", Lock("update", r))
      BY <1>3
    <3>2. \A r : IsThere(q, r)' <=> IsThere(q, r)
      BY <1>2 DEF IsThere
    <3> QED BY <3>1, <3>2, <1>1, <1>2 DEF SweptAlone
  <2> QED BY <2>2, <2>3, <1>1, <1>10 DEF Alone
<1>11. JoinedByInvitation' /\ SchedulesHaveAnAuthorInTheFamily'
  <2>1. MembersJoined(committed, contested)' /\ AuthorsBelong(committed, contested)'
    BY <1>1 DEF HInv, JoinedByInvitation, SchedulesHaveAnAuthorInTheFamily, MembersJoined, AuthorsBelong
  <2> QED BY <2>1 DEF JoinedByInvitation, SchedulesHaveAnAuthorInTheFamily
<1>12. Beside' /\ DOMAIN alongside' = Proc
  BY <1>1, <1>2 DEF HInv, Beside
<1> QED BY <1>2, <1>6, <1>7, <1>8, <1>9, <1>10, <1>11, <1>12 DEF HInv

LEMMA NextKeepsHInv == FInv /\ WInv /\ HInv /\ [Next]_vars => HInv'
<1> SUFFICES ASSUME FInv, WInv, HInv, [Next]_vars PROVE HInv'
  OBVIOUS
<1>1. ASSUME NEW p \in Proc, NEW c \in Calls, Begin(p, c) PROVE HInv'
  BY <1>1, BeginKeepsHInv
<1>2. ASSUME NEW p \in Proc, Step(p) PROVE HInv'
  <2>1. CASE Read(p)
    BY <2>1, ReadKeepsHInv
  <2>2. CASE FindRows(p)
    BY <2>2, FindRowsKeepsHInv
  <2>3. CASE LockRow(p)
    BY <2>3, LockRowKeepsHInv
  <2>4. CASE ConstraintError(p)
    BY <2>4, RollbackKeepsHInv DEF ConstraintError, ConstraintRaises
  <2>8. CASE LedgerRefuses(p)
    BY <2>8, RollbackKeepsHInv DEF LedgerRefuses
  <2>5. CASE EndStatement(p)
    BY <2>5, EndStatementKeepsHInv
  <2>6. CASE CommitTransaction(p)
    BY <2>6, CommitKeepsHInv
  <2>7. CASE AbortDeadlocked(p)
    BY <2>7, RollbackKeepsHInv DEF AbortDeadlocked, InCircle
  <2> QED BY <1>2, <2>1, <2>2, <2>3, <2>4, <2>5, <2>6, <2>7, <2>8 DEF Step
<1>3. CASE UNCHANGED vars
  BY <1>3, StutterKeepsHInv
<1> QED BY <1>1, <1>2, <1>3 DEF Next

LEMMA AllInvariants == Spec => [](FInv /\ WInv /\ HInv)
<1>1. Init => FInv /\ WInv /\ HInv
  BY InitFInv, InitWInv, InitHInv
<1>2. FInv /\ WInv /\ HInv /\ [Next]_vars => (FInv /\ WInv /\ HInv)'
  BY StepKeepsFInv, NextKeepsWInv, NextKeepsHInv
<1> QED BY <1>1, <1>2, PTL DEF Spec

\* Whoever is a member of a family has accepted an invitation of that very family
\* (set__respond_family_invitation) and not declined it since; only two answers
\* to it that were sent at once may have left it otherwise.
THEOREM MembersHaveJoined == Spec => []JoinedByInvitation
<1>1. HInv => JoinedByInvitation
  BY DEF HInv
<1> QED BY <1>1, AllInvariants, PTL

\* What a family has planned is a member's: who leaves (set__leave_family) or deletes
\* his account (set__delete_user_account) leaves his schedules to the owner, but
\* for one he created in another session while he was leaving.
THEOREM SchedulesKeepAuthors == Spec => []SchedulesHaveAnAuthorInTheFamily
<1>1. HInv => SchedulesHaveAnAuthorInTheFamily
  BY DEF HInv
<1> QED BY <1>1, AllInvariants, PTL

(***************************************************************************)
(* The constraints of the tables: whom a lone call hands schedules to is    *)
(* there.                                                                   *)
(***************************************************************************)
LEMMA AInvOthers ==
    ASSUME HInv, NEW p \in Proc, Busy(p), DOMAIN alongside' = Proc,
           \A q \in Proc \ {p} : (Busy(q)' => Busy(q)) /\ alongside'[q] = alongside[q],
           Busy(p)' => AuthorsThere(p)'
    PROVE  AInv'
<1>1. ASSUME NEW q \in Proc \ {p}, Busy(q)' PROVE alongside'[q] # {}
  BY <1>1, BesideAll
<1> QED BY <1>1 DEF AInv, AuthorsThere

LEMMA NothingAhead ==
    ASSUME NEW p \in Proc, queue'[p] = <<>> PROVE AuthorsThere(p)'
<1>1. Ahead(p)' = {}
  BY DEF Ahead
<1> QED BY <1>1 DEF AuthorsThere

LEMMA EndLeavesOthers ==
    ASSUME FInv, WInv, HInv, NEW p \in Proc, Busy(p), EndTransaction(p) PROVE AInv'
<1>1. ~Busy(p)' /\ \A q \in Proc \ {p} : Kept(q)
  BY EndKeeps
<1>2. \A q \in Proc \ {p} : Busy(q)' => Busy(q)
  BY <1>1, KeptState
<1>3. DOMAIN alongside' = Proc /\ \A q \in Proc \ {p} : alongside'[q] = alongside[q]
  BY DEF EndTransaction, HInv
<1> QED BY <1>1, <1>2, <1>3, AInvOthers

\* the creator of a family that has planned something
LEMMA FoundAuthors ==
    ASSUME FInv, WInv, NEW p \in Proc, Busy(p), Current(p) = "reassign-schedules",
           NEW x \in Authors(p)
    PROVE  committed[x] # Absent
<1>0. OnTrack(p)
  BY Running DEF Runs
<1>1. call[p].call \in {"leave", "delete"}
  BY <1>0, CallOf
<1>2. PICK r \in Found(p) : x = UserRow(Creator(p, Visible(p, r).family))
  BY DEF Authors
<1>3. r \in Table /\ r[1] = "schedule"
  BY AuthorsAreUsers
<1>4. IsThere(p, r)
  BY DEF Found, Matches, IsThere
<1> DEFINE f == committed[r].family
<1>5. f \in Family /\ Creator(p, Visible(p, r).family) = committed[FamilyRow(f)]
      /\ committed[FamilyRow(f)] \in User
  BY <1>1, <1>3, <1>4, CreatorIsUser
<1> HIDE DEF f
<1>6. FamilyRow(f) \in Table /\ FamilyRow(f)[1] = "family"
  BY <1>5, FamilyRows
<1>7. committed[FamilyRow(f)] # Absent
  <2>1. Values(FamilyRow(f)) = User /\ Absent \notin Values(FamilyRow(f))
    BY <1>6, KindValues
  <2> QED BY <1>5, <2>1
<1>8. UserRow(committed[FamilyRow(f)]) \in Parents(FamilyRow(f), committed[FamilyRow(f)])
  BY <1>6 DEF Parents
<1> QED BY <1>2, <1>5, <1>6, <1>7, <1>8 DEF WInv, FamilyIsWhole, References

LEMMA FindRowsKeepsAInv ==
    ASSUME FInv, WInv, HInv, AInv, NEW p \in Proc, FindRows(p) PROVE AInv'
<1>1. /\ Busy(p) /\ UNCHANGED <<committed, program, alongside>>
      /\ queue' = [queue EXCEPT ![p] = Append(Locks(p), Done)]
  BY DEF FindRows, history
<1>2. queue'[p] = Append(Locks(p), Done)
  BY <1>1 DEF FInv, Shapes
<1>3. Ahead(p)' = LocksIn(Locks(p)) \cup {Done}
  BY <1>1, <1>2, FindRowsAhead
<1>4. ASSUME Current(p) = "reassign-schedules", NEW r \in Table, Lock("refer", r) \in Ahead(p)'
      PROVE  committed[r] # Absent
  <2>1. Current(p) \notin Inserting /\ Mode(p) = "update"
    BY <1>4 DEF Inserting, Mode
  <2>2. Lock("refer", r) \in {Lock("update", x) : x \in Found(p)} \cup {Lock("refer", a) : a \in Authors(p)} \cup {Done}
    BY <1>1, <1>3, <1>4, <2>1, FoundLocks
  <2>3. r \in Authors(p)
    BY <2>2 DEF Lock, Done
  <2> QED BY <1>1, <1>4, <2>3, FoundAuthors
<1>5. AuthorsThere(p)'
  BY <1>1, <1>4 DEF AuthorsThere, Current, Lock
<1>6. \A q \in Proc \ {p} : (Busy(q)' => Busy(q)) /\ alongside'[q] = alongside[q]
  BY <1>1 DEF Busy
<1> QED BY <1>1, <1>5, <1>6, AInvOthers DEF HInv

LEMMA LockRowKeepsAInv ==
    ASSUME FInv, WInv, HInv, AInv, NEW p \in Proc, LockRow(p) PROVE AInv'
<1>1. /\ Busy(p) /\ UNCHANGED <<committed, program, alongside>> /\ queue[p] # <<>>
      /\ Wanted(p).mode # "done" /\ queue' = [queue EXCEPT ![p] = Tail(@)]
  BY DEF LockRow, history
<1>2. queue'[p] = Tail(queue[p])
  BY <1>1 DEF FInv, Shapes
<1>3. Ahead(p)' \subseteq Ahead(p)
  BY <1>1, <1>2, Running, QueueAdvanced DEF Runs
<1>4. AuthorsThere(p)'
  <2>1. AuthorsThere(p)
    BY <1>1 DEF AInv
  <2> QED BY <1>1, <1>3, <2>1 DEF AuthorsThere, Current, Lock
<1>5. \A q \in Proc \ {p} : (Busy(q)' => Busy(q)) /\ alongside'[q] = alongside[q]
  BY <1>1 DEF Busy
<1> QED BY <1>1, <1>4, <1>5, AInvOthers DEF HInv

LEMMA NextKeepsAInv == FInv /\ WInv /\ HInv /\ AInv /\ [Next]_vars => AInv'
<1> SUFFICES ASSUME FInv, WInv, HInv, AInv, [Next]_vars PROVE AInv'
  OBVIOUS
<1>1. ASSUME NEW p \in Proc, NEW c \in Calls, Begin(p, c) PROVE AInv'
  <2>1. queue'[p] = <<>>
    BY <1>1, BegunState
  <2>2. \A q \in Proc \ {p} : Kept(q)
    BY <1>1, BegunState
  <2>3. ASSUME NEW q \in Proc \ {p}, Busy(q)' PROVE alongside'[q] # {}
    <3>1. Busy(q)
      BY <2>2, <2>3, KeptState
    <3> QED BY <1>1, <3>1 DEF Begin
  <2>4. \A q \in Proc \ {p} : Busy(q)' => AuthorsThere(q)'
    BY <2>3 DEF AuthorsThere
  <2> QED BY <2>1, <2>4, NothingAhead DEF AInv
<1>2. ASSUME NEW p \in Proc, Step(p) PROVE AInv'
  <2>1. CASE Read(p)
    <3>1. CASE Passes(p)
      <4>1. Busy(p) /\ UNCHANGED <<queue, alongside>> /\ program' = [program EXCEPT ![p] = Tail(@)]
            /\ Current(p) \in Reads
        BY <2>1, <3>1 DEF Read, Advance, history, Rollback
      <4>2. queue'[p] = <<>>
        BY <4>1 DEF FInv, Connected
      <4>3. \A q \in Proc \ {p} : (Busy(q)' => Busy(q)) /\ alongside'[q] = alongside[q]
        BY <4>1 DEF Busy, FInv, Shapes
      <4> QED BY <4>1, <4>2, <4>3, NothingAhead, AInvOthers DEF HInv
    <3>2. CASE ~Passes(p)
      BY <2>1, <3>2, EndLeavesOthers DEF Read, Rollback
    <3> QED BY <3>1, <3>2
  <2>2. CASE FindRows(p)
    BY <2>2, FindRowsKeepsAInv
  <2>3. CASE LockRow(p)
    BY <2>3, LockRowKeepsAInv
  <2>4. CASE ConstraintError(p)
    BY <2>4, EndLeavesOthers DEF ConstraintError, ConstraintRaises, Rollback
  <2>8. CASE LedgerRefuses(p)
    BY <2>8, EndLeavesOthers DEF LedgerRefuses, Rollback
  <2>5. CASE EndStatement(p)
    <3>1. Busy(p) /\ queue' = [queue EXCEPT ![p] = <<>>] /\ UNCHANGED alongside
          /\ program' = [program EXCEPT ![p] = Tail(@)]
      BY <2>5 DEF EndStatement, Advance, history
    <3>2. queue'[p] = <<>>
      BY <3>1 DEF FInv, Shapes
    <3>3. \A q \in Proc \ {p} : (Busy(q)' => Busy(q)) /\ alongside'[q] = alongside[q]
      BY <3>1 DEF Busy, FInv, Shapes
    <3> QED BY <3>1, <3>2, <3>3, NothingAhead, AInvOthers DEF HInv
  <2>6. CASE CommitTransaction(p)
    BY <2>6, EndLeavesOthers DEF CommitTransaction
  <2>7. CASE AbortDeadlocked(p)
    BY <2>7, EndLeavesOthers DEF AbortDeadlocked, InCircle, Rollback
  <2> QED BY <1>2, <2>1, <2>2, <2>3, <2>4, <2>5, <2>6, <2>7, <2>8 DEF Step
<1>3. CASE UNCHANGED vars
  BY <1>3 DEF vars, AInv, AuthorsThere, Busy, Current, Ahead, Lock
<1> QED BY <1>1, <1>2, <1>3 DEF Next

LEMMA AuthorsStay == Spec => []AInv
<1>1. Init => AInv
  BY DEF Init, AInv, Busy
<1> QED BY <1>1, AllInvariants, NextKeepsAInv, PTL DEF Spec

(***************************************************************************)
(* A lone call refers to nothing that is not there.                         *)
(***************************************************************************)
Lone(p) == Busy(p) /\ alongside[p] = {} /\ queue[p] # <<>> /\ Wanted(p).mode # "done"

LEMMA LoneState ==
    ASSUME FInv, WInv, HInv, NEW p \in Proc, Lone(p)
    PROVE  /\ Busy(p) /\ Runs(p) /\ Current(p) \notin Reads \cup {"commit"}
           /\ Reads \cap Left(p) = {} /\ Choosing \cap Left(p) = {}
           /\ Wanted(p) \in Ahead(p) /\ Wanted(p) # Done /\ Wanted(p).row \in Row
           /\ Wanted(p) = Lock(Wanted(p).mode, Wanted(p).row)
           /\ ReadAlone(p) /\ SweptAlone(p) /\ NotYet(p) /\ Answers(p)
<1> USE DEF Lone
<1>1. Runs(p)
  BY Running
<1>2. Current(p) \notin Reads \cup {"commit"}
  BY DEF FInv, Connected
<1>3. Reads \cap Left(p) = {}
  BY <1>1, <1>2, ReadsFirst DEF Runs
<1>4. Choosing \subseteq Reads
  BY DEF Choosing, Reads
<1>5. Wanted(p) \in Ahead(p) /\ Wanted(p) # Done
  <2>1. queue[p] \in Seq(Ahead(p)) /\ queue[p] # <<>>
    BY <1>1 DEF Runs, Queued
  <2>2. Wanted(p) \in Ahead(p)
    BY <2>1 DEF Wanted
  <2> QED BY <2>2 DEF Done, Lock
<1>6. Wanted(p).row \in Row /\ Wanted(p) = Lock(Wanted(p).mode, Wanted(p).row)
  BY <1>1, <1>5 DEF Runs, Queued
<1>7. ReadAlone(p) /\ SweptAlone(p) /\ NotYet(p) /\ Answers(p)
  BY DEF HInv, Alone
<1> QED BY <1>1, <1>2, <1>3, <1>4, <1>5, <1>6, <1>7

LEMMA ParentKept ==
    ASSUME FInv, WInv, NEW p \in Proc, Busy(p), NEW r \in Table, IsParent(r), committed[r] # Absent,
           call[p].call = "dissolve" => r[1] = "user",
           call[p].call = "delete" => r # UserRow(Doer(p))
    PROVE  IsThere(p, r)
<1>1. CASE written[p][r] = Same
  BY <1>1 DEF IsThere, Visible
<1>2. CASE written[p][r] # Same
  <2>1. Writes(p, r, written[p][r])
    BY <1>2, Running DEF Runs, Wrote
  <2>2. /\ call[p].call = "dissolve"
        /\ r \in {CategoryRow(family[p]), AccountRow(family[p]), FamilyRow(family[p])}
    BY <2>1, WritesParent
  <2> QED BY <2>2 DEF CategoryRow, AccountRow, FamilyRow
<1> QED BY <1>1, <1>2

LEMMA MemberParents ==
    ASSUME WInv, NEW u \in User, committed[MemberRow(u)] # Absent
    PROVE  /\ committed[UserRow(u)] # Absent
           /\ committed[FamilyRow(committed[MemberRow(u)].family)] # Absent
<1>1. MemberRow(u) \in Table
  BY UserRows
<1>2. Parents(MemberRow(u), committed[MemberRow(u)])
        = {UserRow(u), FamilyRow(committed[MemberRow(u)].family)}
  BY DEF Parents, MemberRow
<1> QED BY <1>1, <1>2 DEF WInv, FamilyIsWhole, References

LEMMA CreateRefers ==
    ASSUME FInv, WInv, HInv, NEW p \in Proc, Lone(p), Wanted(p).mode = "refer",
           Current(p) \in {"add-family", "add-owner"}
    PROVE  IsThere(p, Wanted(p).row)
<1>1. /\ Busy(p) /\ Runs(p) /\ Wanted(p) \in Ahead(p) /\ Wanted(p) # Done /\ queue[p] # <<>>
      /\ Wanted(p) = Lock("refer", Wanted(p).row)
      /\ ReadAlone(p) /\ Reads \cap Left(p) = {}
  BY LoneState DEF Lone
<1>2. call[p].call = "create"
  BY <1>1, CallOf DEF Runs
<1>3. Current(p) \in Inserting
  BY DEF Inserting
<1>4. Wanted(p) \in LocksIn(Locks(p))
  BY <1>1, <1>3 DEF Runs, Queued
<1>5. \/ Wanted(p).row = UserRow(Doer(p))
      \/ Current(p) = "add-owner" /\ Wanted(p).row = FamilyRow(family[p])
  BY <1>1, <1>3, <1>4, InsertLocks DEF Lock
<1>6. ASSUME Wanted(p).row = UserRow(Doer(p)) PROVE IsThere(p, Wanted(p).row)
  <2>1. "known-user" \notin Left(p)
    BY <1>1 DEF Reads
  <2>2. committed[UserRow(Doer(p))] # Absent
    BY <1>1, <1>2, <2>1 DEF ReadAlone
  <2>3. UserRow(Doer(p)) \in Table /\ IsParent(UserRow(Doer(p)))
    BY <1>1, Calling, UserRows DEF IsParent
  <2> QED BY <1>1, <1>2, <1>6, <2>2, <2>3, ParentKept
<1>7. ASSUME Current(p) = "add-owner", Wanted(p).row = FamilyRow(family[p])
      PROVE  IsThere(p, Wanted(p).row)
  <2>1. "add-family" \notin Left(p)
    BY <1>1, <1>2, <1>7, OrderOf DEF Runs
  <2>2. written[p][FamilyRow(family[p])] = Doer(p)
    BY <1>1, <1>2, <2>1 DEF Runs, Inserted
  <2>3. family[p] \in Family /\ Doer(p) \in User
    BY <1>1, <1>3, InsertingFamily DEF Runs
  <2>4. Values(FamilyRow(family[p])) = User
        /\ Absent \notin Values(FamilyRow(family[p])) /\ Same \notin Values(FamilyRow(family[p]))
    BY <2>3, FamilyRows, KindValues
  <2> QED BY <1>7, <2>2, <2>3, <2>4 DEF IsThere, Visible
<1> QED BY <1>5, <1>6, <1>7

LEMMA InsertRefers ==
    ASSUME FInv, WInv, HInv, NEW p \in Proc, Lone(p), Wanted(p).mode = "refer",
           Current(p) \in {"add-member", "add-invitation", "add-schedule", "add-source"}
    PROVE  IsThere(p, Wanted(p).row)
<1> DEFINE u == Doer(p)  f == family[p]  c == call[p]
<1>1. /\ Busy(p) /\ Runs(p) /\ Wanted(p) \in Ahead(p) /\ Wanted(p) # Done /\ queue[p] # <<>>
      /\ Wanted(p) = Lock("refer", Wanted(p).row)
      /\ ReadAlone(p) /\ Answers(p) /\ Reads \cap Left(p) = {} /\ Choosing \cap Left(p) = {}
  BY LoneState DEF Lone
<1>2. Current(p) \in Inserting
  BY DEF Inserting
<1>3. Wanted(p) \in LocksIn(Locks(p))
  BY <1>1, <1>2 DEF Runs, Queued
<1>4. f \in Family /\ u \in User /\ (Current(p) = "add-invitation" => c.invited \in User)
  BY <1>1, <1>2, InsertingFamily DEF Runs
<1>5. c.call \in {"answer", "invite", "schedule", "journal"}
  BY <1>1, CallOf DEF Runs
<1>6. SUFFICES committed[Wanted(p).row] # Absent
  <2>1. Wanted(p).row \in Table /\ IsParent(Wanted(p).row)
    BY <1>1, <1>2, <1>3, InsertRows DEF Runs
  <2> QED BY <1>1, <1>5, <1>6, <2>1, ParentKept
<1>7. CASE Current(p) = "add-member"
  <2> DEFINE r == InvitationRow(c.invitation)
  <2>1. c.call = "answer"
    BY <1>1, <1>7, CallOf DEF Runs
  <2>2. committed[r] # Absent
    BY <1>1, <2>1 DEF ReadAlone
  <2>3. committed[r].family = f /\ committed[r].invited = u
    BY <1>1, <2>1, <2>2 DEF Answers
  <2>4. r \in Table
    BY <1>1, <2>1, HistoryRows
  <2>5. FamilyRow(f) \in Parents(r, committed[r]) /\ UserRow(u) \in Parents(r, committed[r])
    <3>1. Parents(r, committed[r]) = {FamilyRow(committed[r].family), UserRow(committed[r].invited),
                                      UserRow(committed[r].by)}
      BY DEF Parents, InvitationRow
    <3> QED BY <2>3, <3>1
  <2> HIDE DEF r
  <2>6. committed[FamilyRow(f)] # Absent /\ committed[UserRow(u)] # Absent
    BY <2>2, <2>4, <2>5 DEF WInv, FamilyIsWhole, References
  <2>7. Wanted(p).row \in {FamilyRow(f), UserRow(u)}
    BY <1>1, <1>2, <1>3, <1>7, InsertLocks DEF Lock
  <2> QED BY <2>6, <2>7
<1>8. CASE Current(p) = "add-invitation"
  <2>1. c.call = "invite"
    BY <1>1, <1>8, CallOf DEF Runs
  <2>2. "invited-is-free" \notin Left(p)
    BY <1>1 DEF Reads
  <2>3. committed[MemberRow(u)] # Absent /\ committed[MemberRow(u)].family = f
        /\ committed[UserRow(c.invited)] # Absent
    BY <1>1, <2>1, <2>2 DEF ReadAlone
  <2>4. committed[UserRow(u)] # Absent /\ committed[FamilyRow(f)] # Absent
    BY <1>4, <2>3, MemberParents
  <2>5. Wanted(p).row \in {FamilyRow(f), UserRow(c.invited), UserRow(u)}
    BY <1>1, <1>2, <1>3, <1>8, InsertLocks DEF Lock
  <2> QED BY <2>3, <2>4, <2>5
<1>9. ASSUME c.call \in {"schedule", "journal"} PROVE committed[UserRow(u)] # Absent
  <2>1. "access" \notin Left(p)
    BY <1>1 DEF Reads
  <2>2. committed[MemberRow(u)] # Absent
    BY <1>1, <1>9, <2>1 DEF ReadAlone
  <2> QED BY <1>4, <2>2, MemberParents
<1>10. CASE Current(p) = "add-schedule"
  <2>1. c.call = "schedule"
    BY <1>1, <1>10, CallOf DEF Runs
  <2>2. "category" \notin Left(p)
    BY <1>1 DEF Reads
  <2>3. committed[CategoryRow(f)] # Absent
    BY <1>1, <2>1, <2>2 DEF ReadAlone
  <2>4. CategoryRow(f) \in Table /\ Parents(CategoryRow(f), committed[CategoryRow(f)]) = {FamilyRow(f)}
    BY <1>4, FamilyRows DEF Parents, CategoryRow
  <2>5. committed[FamilyRow(f)] # Absent
    BY <2>3, <2>4 DEF WInv, FamilyIsWhole, References
  <2>6. Wanted(p).row \in {CategoryRow(f), FamilyRow(f), UserRow(u)}
    BY <1>1, <1>2, <1>3, <1>10, InsertLocks DEF Lock
  <2> QED BY <1>9, <2>1, <2>3, <2>5, <2>6
<1>11. CASE Current(p) = "add-source"
  <2>1. c.call = "journal"
    BY <1>1, <1>11, CallOf DEF Runs
  <2>2. "account" \notin Left(p)
    BY <1>1 DEF Reads
  <2>3. committed[AccountRow(f)] # Absent
    BY <1>1, <2>1, <2>2 DEF ReadAlone
  <2>4. Wanted(p).row \in {AccountRow(f), UserRow(u)}
    BY <1>1, <1>2, <1>3, <1>11, InsertLocks DEF Lock
  <2> QED BY <1>9, <2>1, <2>3, <2>4
<1> QED BY <1>7, <1>8, <1>9, <1>10, <1>11

LEMMA ReassignRefers ==
    ASSUME FInv, WInv, HInv, AInv, NEW p \in Proc, Lone(p), Wanted(p).mode = "refer",
           Current(p) \notin Inserting
    PROVE  IsThere(p, Wanted(p).row)
<1>1. /\ Busy(p) /\ Runs(p) /\ Wanted(p) \in Ahead(p) /\ Wanted(p) # Done /\ queue[p] # <<>>
      /\ Wanted(p) = Lock("refer", Wanted(p).row) /\ Wanted(p).row \in Row /\ alongside[p] = {}
  BY LoneState DEF Lone
<1> DEFINE r == Wanted(p).row
<1>2. r \in Table /\ r[1] = "user" /\ Current(p) = "reassign-schedules"
  <2>1. Mode(p) # "refer"
    BY DEF Mode
  <2> QED BY <1>1, <2>1 DEF Runs, Queued
<1>3. committed[r] # Absent
  BY <1>1, <1>2 DEF AInv, AuthorsThere
<1>4. Refers(p, r)
  BY <1>1 DEF Refers
<1>5. call[p].call = "delete" => r # UserRow(Doer(p))
  BY <1>1, <1>4 DEF Runs, DeletesNoParent
<1> QED BY <1>1, <1>2, <1>3, <1>5, ParentKept DEF IsParent

(***************************************************************************)
(* Nor does it find a key taken, or a row left that it had to remove.       *)
(***************************************************************************)
LEMMA KeysFree ==
    ASSUME FInv, WInv, HInv, NEW p \in Proc, Lone(p), Wanted(p).mode = "insert"
    PROVE  ~KeyTaken(p, Wanted(p).row)
<1> DEFINE u == Doer(p)  f == family[p]  c == call[p]
<1>1. /\ Busy(p) /\ Runs(p) /\ Wanted(p) \in Ahead(p) /\ Wanted(p) # Done /\ queue[p] # <<>>
      /\ Wanted(p) = Lock("insert", Wanted(p).row)
      /\ ReadAlone(p) /\ NotYet(p) /\ Reads \cap Left(p) = {} /\ Choosing \cap Left(p) = {}
  BY LoneState DEF Lone
<1>2. Current(p) \in Inserting
  <2>1. Mode(p) # "insert"
    BY DEF Mode
  <2> QED BY <1>1, <2>1 DEF Runs, Queued
<1>3. Wanted(p) \in LocksIn(Locks(p))
  BY <1>1, <1>2 DEF Runs, Queued
<1>4. Current(p) \in Left(p)
  <2>1. PICK i \in 1..Len(Full(c)) : /\ Current(p) = Full(c)[i]
                                     /\ Left(p) = {Full(c)[j] : j \in i..Len(Full(c))}
    BY <1>1, Position DEF Runs
  <2>2. c \in Calls
    BY <1>1, Calling
  <2>3. Len(Full(c)) \in Nat
    BY <2>2, FullIsSeq
  <2>4. i \in i..Len(Full(c))
    BY <2>3
  <2> QED BY <2>1, <2>4
<1>5. \/ Current(p) \in {"add-owner", "add-member"} /\ Wanted(p).row = MemberRow(u)
      \/ Current(p) = "add-invitation" /\ Wanted(p).row = PendingKey(f, c.invited)
  BY <1>1, <1>2, <1>3, InsertLocks DEF Lock, Inserting
<1>6. ASSUME Current(p) \in {"add-owner", "add-member"}, Wanted(p).row = MemberRow(u)
      PROVE  ~KeyTaken(p, Wanted(p).row)
  <2>1. \/ c.call = "create" /\ Current(p) = "add-owner"
        \/ c.call = "answer" /\ c.accept /\ Current(p) = "add-member"
    <3>1. Current(p) = "add-owner" => c.call = "create"
      BY <1>1, CallOf DEF Runs
    <3>2. Current(p) = "add-member" => c.call = "answer"
      BY <1>1, CallOf DEF Runs
    <3>3. c.call = "answer" /\ Current(p) = "add-member" => c.accept
      BY <1>1, OrderOf DEF Runs
    <3>4. CASE Current(p) = "add-owner"
      BY <3>1, <3>4
    <3>5. CASE Current(p) = "add-member"
      BY <3>2, <3>3, <3>5
    <3> QED BY <1>6, <3>4, <3>5
  <2>2. written[p][MemberRow(u)] = Same
    BY <1>1, <1>4, <2>1 DEF NotYet
  <2>3. "no-family" \notin Left(p)
    BY <1>1 DEF Reads
  <2>4. committed[MemberRow(u)] = Absent
    BY <1>1, <2>1, <2>3 DEF ReadAlone
  <2> QED BY <1>6, <2>2, <2>4 DEF KeyTaken, MemberRow, IsThere, Visible
<1>7. ASSUME Current(p) = "add-invitation", Wanted(p).row = PendingKey(f, c.invited)
      PROVE  ~KeyTaken(p, Wanted(p).row)
  <2>1. c.call = "invite"
    BY <1>1, <1>7, CallOf DEF Runs
  <2>2. "not-invited-yet" \notin Left(p)
    BY <1>1 DEF Reads
  <2>3. \A i \in Invitation : ~IsPending(p, i, f, c.invited) \/ InvitationRow(i) = NewRow(p)
    BY <1>1, <2>1, <2>2 DEF ReadAlone
  <2>4. written[p][NewRow(p)] = Same
    BY <1>1, <1>4, <1>7, <2>1 DEF NotYet
  <2>5. committed[NewRow(p)] = Absent
    BY <1>1, <2>1 DEF Runs, Fresh, NewKind
  <2>6. \A i \in Invitation : ~IsPending(p, i, f, c.invited)
    BY <2>3, <2>4, <2>5 DEF IsPending, IsThere, Visible
  <2> QED BY <1>7, <2>6 DEF KeyTaken, PendingKey
<1> QED BY <1>5, <1>6, <1>7

LEMMA NothingLeft ==
    ASSUME FInv, WInv, HInv, NEW p \in Proc, Lone(p), Wanted(p).mode = "none-left",
           Matches(p, Wanted(p).row)
    PROVE  Wanted(p).row[1] = "source"
<1> DEFINE u == Doer(p)  r == Wanted(p).row
<1>1. /\ Busy(p) /\ Runs(p) /\ Wanted(p) \in Ahead(p) /\ Wanted(p) # Done /\ queue[p] # <<>>
      /\ Wanted(p) = Lock("none-left", r)
      /\ ReadAlone(p) /\ SweptAlone(p) /\ Reads \cap Left(p) = {}
  BY LoneState DEF Lone
<1>2. Current(p) \notin Inserting
  <2>1. Current(p) \in Inserting => Wanted(p) \in LocksIn(Locks(p))
    BY <1>1 DEF Runs, Queued
  <2>2. Current(p) \in Inserting => Wanted(p).mode \in {"insert", "refer"}
    BY <1>1, <2>1, InsertRows DEF Runs
  <2> QED BY <2>2
<1>3. r \in Table /\ Mode(p) = "none-left"
  BY <1>1, <1>2 DEF Runs, Queued
<1>4. Current(p) \in {"schedules-left", "sources-left", "rows-left"}
  BY <1>3 DEF Mode
<1>5. IsThere(p, r)
  BY DEF Matches, IsThere
<1>6. ASSUME Current(p) = "schedules-left" PROVE FALSE
  <2>1. r[1] = "schedule" /\ Visible(p, r).family = family[p]
    BY <1>6 DEF Matches
  <2>2. call[p].call = "dissolve"
    BY <1>1, <1>6, CallOf DEF Runs
  <2>3. Over(p, "delete-schedules", Lock("delete", r))
    BY <1>1, <1>6, <2>2, OrderOf DEF Runs, Over
  <2> QED BY <1>1, <1>3, <1>5, <2>1, <2>2, <2>3 DEF SweptAlone
<1>7. CASE Current(p) = "sources-left"
  BY <1>7 DEF Matches
<1>8. CASE Current(p) = "rows-left"
  <2>1. \/ r[1] = "family" /\ Visible(p, r) = u
        \/ r[1] \in {"schedule", "source"} /\ Visible(p, r).by = u
    BY <1>8 DEF Matches
  <2>2. call[p].call = "delete"
    BY <1>1, <1>8, CallOf DEF Runs
  <2>3. ASSUME r[1] = "schedule", Visible(p, r).by = u PROVE FALSE
    <3>1. Over(p, "reassign-schedules", Lock("update", r))
      BY <1>1, <1>8, <2>2, OrderOf DEF Runs, Over
    <3> QED BY <1>1, <1>3, <1>5, <2>2, <2>3, <3>1 DEF SweptAlone
  <2>4. ASSUME r[1] = "family", Visible(p, r) = u PROVE FALSE
    <3>1. r[2] \in Family /\ r = FamilyRow(r[2])
      BY <1>3, <2>4, RowKinds
    <3>2. written[p][r] = Same
      <4>1. SUFFICES ASSUME written[p][r] # Same PROVE FALSE
        OBVIOUS
      <4>2. Writes(p, r, written[p][r])
        BY <1>1, <1>3, <4>1 DEF Runs, Wrote
      <4>3. r = UserRow(u)
        BY <1>1, <1>3, <2>2, <2>4, <4>2, WritesParent DEF IsParent
      <4> QED BY <2>4, <4>3 DEF UserRow
    <3>3. committed[r] = u
      BY <2>4, <3>2 DEF Visible
    <3>4. committed[r] # Absent
      BY <1>5, <2>4, <3>3 DEF IsThere
    <3>5. committed[MemberRow(u)] = [family |-> r[2], role |-> "owner"]
      BY <3>1, <3>3, <3>4 DEF WInv, FamilyIsWhole, OwnedByCreators
    <3>6. committed[MemberRow(u)] = Absent
      <4>1. "no-family" \notin Left(p)
        BY <1>1 DEF Reads
      <4> QED BY <1>1, <2>2, <4>1 DEF ReadAlone
    <3>7. [family |-> r[2], role |-> "owner"] \in Membership
      BY <3>1 DEF Membership
    <3>8. Absent \notin Membership
      <4>1. u \in User
        BY <1>1, Calling
      <4>2. Membership = Values(MemberRow(u)) /\ Absent \notin Values(MemberRow(u))
        BY <4>1, UserRows, KindValues
      <4> QED BY <4>2
    <3> QED BY <3>5, <3>6, <3>7, <3>8
  <2> QED BY <2>1, <2>3, <2>4
<1> QED BY <1>4, <1>6, <1>7, <1>8

\* Alone, a call asks for, reassigns or deletes beforehand whatever the rows of people,
\* families, members, invitations and schedules would refuse ("Reassign them to the
\* family owner", set__delete_user_account).  What else may refuse it is a source of the
\* crypto journal and the ledger, of which the model has no rows (LedgerRefuses).
THEOREM LoneCallsMeetNoFamilyRow == Spec => []FamilyRowsRefuseOnlyInRaces
<1>1. FInv /\ WInv /\ HInv /\ AInv => FamilyRowsRefuseOnlyInRaces
  <2>1. SUFFICES ASSUME FInv, WInv, HInv, AInv, NEW p \in Proc, ConstraintRaises(p), alongside[p] = {}
                 PROVE  Wanted(p).row[1] = "source"
    BY DEF FamilyRowsRefuseOnlyInRaces
  <2>2. Lone(p) /\ Violates(p, Wanted(p))
    BY <2>1 DEF ConstraintRaises, Lone
  <2>3. CASE Wanted(p).mode = "insert"
    <3>1. KeyTaken(p, Wanted(p).row)
      BY <2>2, <2>3 DEF Violates
    <3> QED BY <2>1, <2>2, <2>3, <3>1, KeysFree
  <2>4. CASE Wanted(p).mode = "refer"
    <3>1. ~IsThere(p, Wanted(p).row)
      BY <2>2, <2>4 DEF Violates
    <3>2. IsThere(p, Wanted(p).row)
      BY <2>1, <2>2, <2>4, CreateRefers, InsertRefers, ReassignRefers DEF Inserting
    <3> QED BY <3>1, <3>2
  <2>5. CASE Wanted(p).mode = "none-left"
    <3>1. Matches(p, Wanted(p).row)
      BY <2>2, <2>5 DEF Violates
    <3> QED BY <2>1, <2>2, <2>5, <3>1, NothingLeft
  <2> QED BY <2>2, <2>3, <2>4, <2>5 DEF Violates
<1> QED BY <1>1, AllInvariants, AuthorsStay, PTL
=============================================================================
