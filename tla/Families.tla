------------------------------ MODULE Families ------------------------------
(***************************************************************************)
(* Families and their members: put__create_family, put__invite_family_     *)
(* member, set__respond_family_invitation, set__leave_family,               *)
(* set__dissolve_family, set__delete_user_account, and two of the functions *)
(* by which a member leaves a trace in the family's data,                   *)
(* put__create_scheduled_expense and put__crypto_source_event; statement by *)
(* statement on several connections.                                        *)
(*                                                                         *)
(* Each call is one READ COMMITTED transaction.  None of the functions      *)
(* locks what it has read; what holds them together are the constraints of  *)
(* the tables, and a constraint waits: an insert waits for whoever writes   *)
(* the same key and takes FOR KEY SHARE on every row it refers to, a delete *)
(* waits for those who share the row, then refuses (NO ACTION) or deletes   *)
(* (CASCADE) what refers to it.  A constraint that does not hold raises and *)
(* undoes the whole call.                                                   *)
(*                                                                         *)
(* The rows of the ledger and of the portfolio are not here: entries, lots, *)
(* operations, positions and their events.  What they do to a dissolution   *)
(* or to the deletion of an account is refuse it, or not: LedgerRefuses.    *)
(***************************************************************************)
EXTENDS Naturals, Sequences, SequencesExt, FiniteSets

CONSTANTS
    User, Family,            \* ids of users and of families
    Invitation, Schedule, Source,   \* ids of invitations, scheduled expenses, sources
    Proc,                    \* connections of the pool
    Calls,                   \* calls clients may make
    Starts,                  \* tables a run may start from
    MaxCalls,                \* bound: calls made in all
    Absent, Same, Nobody     \* no row; no uncommitted change; no transaction

(***************************************************************************)
(* Rows.  uq_family_members_user makes the user the key of a membership,    *)
(* uq_family_invitations_pending has a key for every pair.  A family's row  *)
(* holds its creator, a scheduled expense and a source their family and     *)
(* author.  One regular category and one crypto account stand for all of a  *)
(* family's; names, amounts, dates, commands and base currencies (everybody *)
(* has the same) are left out.  A person's accounts and categories are part *)
(* of the person's row, and the author of a position, whom set__leave_family *)
(* and set__delete_user_account replace as they do that of a schedule, is   *)
(* left out.                                                                *)
(***************************************************************************)
UserRow(u)       == <<"user", u>>
FamilyRow(f)     == <<"family", f>>
CategoryRow(f)   == <<"category", f>>
AccountRow(f)    == <<"account", f>>
MemberRow(u)     == <<"member", u>>
InvitationRow(i) == <<"invitation", i>>
ScheduleRow(s)   == <<"schedule", s>>
SourceRow(s)     == <<"source", s>>
PendingKey(f, u) == <<"pending", <<f, u>>>>

Table == {UserRow(u) : u \in User} \cup {FamilyRow(f) : f \in Family}
         \cup {CategoryRow(f) : f \in Family} \cup {AccountRow(f) : f \in Family}
         \cup {MemberRow(u) : u \in User} \cup {InvitationRow(i) : i \in Invitation}
         \cup {ScheduleRow(s) : s \in Schedule} \cup {SourceRow(s) : s \in Source}
Row == Table \cup {PendingKey(f, u) : f \in Family, u \in User}

Membership == [family : Family, role : {"owner", "member"}]
Invite     == [family : Family, invited : User, by : User,
               status : {"pending", "accepted", "declined"}]
Entry      == [family : Family, by : User]

Values(r) ==
    CASE r[1] \in {"user", "category", "account"} -> {TRUE}
      [] r[1] = "family"     -> User
      [] r[1] = "member"     -> Membership
      [] r[1] = "invitation" -> Invite
      [] r[1] \in {"schedule", "source"} -> Entry

Id == Family \cup Invitation \cup Schedule \cup Source

ASSUME FamiliesAssumption ==
    /\ MaxCalls \in Nat /\ Nobody \notin Proc
    /\ \A ids \in {User, Family, Invitation, Schedule, Source} : IsFiniteSet(ids)
    /\ Absent # Same /\ \A r \in Table : {Absent, Same} \cap Values(r) = {}
    /\ \A c \in Calls : /\ c.user \in User
                        /\ c.call \in {"create", "invite", "answer", "leave", "dissolve",
                                       "delete", "schedule", "journal"}
                        /\ c.call = "invite" => c.invited \in User \ {c.user}
                        /\ c.call = "answer" => c.invitation \in Invitation /\ c.accept \in BOOLEAN
                        /\ c.call \in {"schedule", "journal"} => c.family \in Family

\* the rows a row refers to
Parents(r, row) ==
    CASE r[1] = "user"       -> {}
      [] r[1] = "family"     -> {UserRow(row)}
      [] r[1] \in {"category", "account"} -> {FamilyRow(r[2])}
      [] r[1] = "member"     -> {UserRow(r[2]), FamilyRow(row.family)}
      [] r[1] = "invitation" -> {FamilyRow(row.family), UserRow(row.invited), UserRow(row.by)}
      [] r[1] = "schedule"   -> {CategoryRow(row.family), FamilyRow(row.family), UserRow(row.by)}
      [] r[1] = "source"     -> {AccountRow(row.family), UserRow(row.by)}

References(db) ==
    \A r \in Table : db[r] # Absent => \A parent \in Parents(r, db[r]) : db[parent] # Absent

\* the creator owns the family and nobody else does; invitations are the creator's
OwnedByCreators(db) ==
    /\ \A f \in Family : db[FamilyRow(f)] # Absent =>
          db[MemberRow(db[FamilyRow(f)])] = [family |-> f, role |-> "owner"]
    /\ \A u \in User : db[MemberRow(u)] # Absent =>
          (db[MemberRow(u)].role = "owner" <=> db[FamilyRow(db[MemberRow(u)].family)] = u)
    /\ \A i \in Invitation : db[InvitationRow(i)] # Absent =>
          LET invite == db[InvitationRow(i)]
          IN  db[FamilyRow(invite.family)] = invite.by /\ invite.invited # invite.by

\* a member has accepted an invitation of the family, if not a contested one
MembersJoined(db, raced) ==
    \A u \in User :
        db[MemberRow(u)] # Absent /\ db[MemberRow(u)].role = "member" =>
            \E i \in Invitation :
                LET invite == db[InvitationRow(i)]
                IN  /\ invite # Absent
                    /\ invite.invited = u /\ invite.family = db[MemberRow(u)].family
                    /\ invite.status = "accepted" \/ i \in raced

\* the author of a family's schedule, if not a contested one, is one of the family
AuthorsBelong(db, raced) ==
    \A s \in Schedule : db[ScheduleRow(s)] # Absent =>
        LET planned == db[ScheduleRow(s)]
        IN  \/ /\ db[MemberRow(planned.by)] # Absent
               /\ db[MemberRow(planned.by)].family = planned.family
            \/ s \in raced

\* Earlier calls, which did not contest, have left the tables a run starts from.
ASSUME StartsAssumption ==
    \A db \in Starts : /\ DOMAIN db = Table
                       /\ \A r \in Table : db[r] \in Values(r) \cup {Absent}
                       /\ References(db) /\ OwnedByCreators(db)
                       /\ MembersJoined(db, {}) /\ AuthorsBelong(db, {})

(***************************************************************************)
(* The statements of every function, in order.                              *)
(***************************************************************************)
\* variant for mutation: whether the person has a family is not asked
RespondWithoutMembershipCheck(c) ==
    IF c.accept THEN <<"pending-invitation", "add-member", "answer">>
                ELSE <<"pending-invitation", "answer">>

\* set__respond_family_invitation
RespondFamilyInvitation(c) ==
    IF c.accept THEN <<"pending-invitation", "no-family", "add-member", "answer">>
                ELSE <<"pending-invitation", "answer">>

\* put__create_family; its account and system categories meet nobody else
CreateFamily == <<"no-family", "known-user", "add-family", "add-owner">>

\* put__invite_family_member
InviteFamilyMember == <<"owns-a-family", "invited-is-free", "not-invited-yet", "add-invitation">>

\* variant for mutation: the departing member stays the author
LeaveWithoutReassigning == <<"member-of-a-family", "delete-membership">>

\* set__leave_family
LeaveFamily == <<"member-of-a-family", "reassign-schedules", "delete-membership">>

\* set__dissolve_family; "delete-ledger" is lots, operations and entries, positions
\* and connections go with the accounts
DissolveFamily ==
    <<"owns-a-family", "delete-ledger", "delete-schedules", "delete-category", "schedules-left",
      "delete-account", "sources-left",
      "delete-invitations", "delete-members", "delete-family", "cascade-family">>

\* set__delete_user_account; "delete-ledger" is everything between the invitations and
\* the person: lots, positions, operations, income sources, categories, accounts
DeleteUserAccount ==
    <<"known-user", "no-family", "reassign-schedules", "delete-invitations",
      "delete-ledger", "delete-user", "rows-left", "cascade-user">>

\* put__create_scheduled_expense
CreateScheduledExpense == <<"category", "access", "add-schedule">>

\* put__crypto_source_event, up to its row in the journal
CryptoSourceEvent == <<"account", "access", "add-source">>

Program(c) ==
    CASE c.call = "create"   -> CreateFamily
      [] c.call = "invite"   -> InviteFamilyMember
      [] c.call = "answer"   -> RespondFamilyInvitation(c)
      [] c.call = "leave"    -> LeaveFamily
      [] c.call = "dissolve" -> DissolveFamily
      [] c.call = "delete"   -> DeleteUserAccount
      [] c.call = "schedule" -> CreateScheduledExpense
      [] c.call = "journal"  -> CryptoSourceEvent

\* bigserial: an id is drawn once and never again
NewIds(c) == CASE c.call = "create"   -> Family
               [] c.call = "invite"   -> Invitation
               [] c.call = "schedule" -> Schedule
               [] c.call = "journal"  -> Source
               [] OTHER               -> {}

(***************************************************************************)
(* State: the committed tables, and of each connection its call, the        *)
(* statements left, the family its reads have found, its uncommitted        *)
(* changes and the locks its statement still has to take.                   *)
(***************************************************************************)
VARIABLES
    committed, holder, sharers,               \* rows; who writes, who refers to them
    call, program, family, new, queue, written,
    drawn,                                    \* ids taken from the sequences
    calls,                                    \* calls made so far
    alongside,                                \* history: calls that ran beside this one
    contested                                 \* history: see CommitTransaction

vars == <<committed, holder, sharers, call, program, family, new, queue, written,
          drawn, calls, alongside, contested>>

connection == <<call, family, new>>
history    == <<drawn, calls, alongside, contested>>

NoWrites == [r \in Table |-> Same]
NoCall   == [call |-> "none"]

Init ==
    /\ committed \in Starts
    /\ holder  = [r \in Row |-> Nobody]
    /\ sharers = [r \in Row |-> {}]
    /\ call    = [p \in Proc |-> NoCall]
    /\ program = [p \in Proc |-> <<>>]
    /\ family  = [p \in Proc |-> Absent]
    /\ new     = [p \in Proc |-> Absent]
    /\ queue   = [p \in Proc |-> <<>>]
    /\ written = [p \in Proc |-> NoWrites]
    /\ drawn   = {id \in Id : \E r \in Table : r[2] = id /\ committed[r] # Absent}
    /\ calls   = 0
    /\ alongside = [p \in Proc |-> {}]
    /\ contested = {}

Busy(p)    == program[p] # <<>>
Current(p) == Head(program[p])
Doer(p)    == call[p].user
Advance(p) == program' = [program EXCEPT ![p] = Tail(@)]

\* what a statement of p sees
Visible(p, r) == IF written[p][r] = Same THEN committed[r] ELSE written[p][r]
IsThere(p, r) == Visible(p, r) # Absent

Begin(p, c) ==
    LET open == {q \in Proc : Busy(q)}
    IN  /\ ~Busy(p) /\ calls < MaxCalls
        /\ \/ c.call \in {"answer", "leave", "dissolve", "delete"} /\ UNCHANGED <<new, drawn>>
           \/ \E id \in NewIds(c) \ drawn :
                 /\ id = CHOOSE x \in NewIds(c) \ drawn : TRUE
                 /\ new' = [new EXCEPT ![p] = id]
                 /\ drawn' = drawn \cup {id}
        /\ program' = [program EXCEPT ![p] = Program(c) \o <<"commit">>]
        /\ call' = [call EXCEPT ![p] = c]
        /\ calls' = calls + 1
        /\ alongside' = [q \in Proc |-> IF q = p THEN {call[o] : o \in open}
                                        ELSE IF q \in open THEN alongside[q] \cup {c}
                                        ELSE alongside[q]]
        /\ family' = [family EXCEPT ![p] = IF c.call \in {"schedule", "journal"} THEN c.family
                                           ELSE IF c.call = "create" THEN new'[p] ELSE Absent]
        /\ UNCHANGED <<committed, holder, sharers, queue, written, contested>>

\* the connection after its transaction: no lock, no change, nothing left
EndTransaction(p) ==
    /\ holder'  = [r \in Row |-> IF holder[r] = p THEN Nobody ELSE holder[r]]
    /\ sharers' = [r \in Row |-> sharers[r] \ {p}]
    /\ call'    = [call EXCEPT ![p] = NoCall]
    /\ program' = [program EXCEPT ![p] = <<>>]
    /\ family'  = [family EXCEPT ![p] = Absent]
    /\ new'     = [new EXCEPT ![p] = Absent]
    /\ queue'   = [queue EXCEPT ![p] = <<>>]
    /\ written' = [written EXCEPT ![p] = NoWrites]
    /\ alongside' = [alongside EXCEPT ![p] = {}]

Rollback(p) == EndTransaction(p) /\ UNCHANGED <<committed, drawn, calls, contested>>

(***************************************************************************)
(* Reads.  IF NOT FOUND ... RAISE: the call goes on or is undone.           *)
(***************************************************************************)
IsPending(p, i, f, u) ==
    LET r == InvitationRow(i)
    IN  /\ IsThere(p, r)
        /\ Visible(p, r).status = "pending"
        /\ Visible(p, r).family = f /\ Visible(p, r).invited = u

\* get__user_family_id and the role beside it
HasRole(p, role) == IsThere(p, MemberRow(Doer(p))) /\ Visible(p, MemberRow(Doer(p))).role = role

\* variant for mutation: an invitation is answered again
CanAnswerAgain(p) ==
    LET r == InvitationRow(call[p].invitation)
    IN  IsThere(p, r) /\ Visible(p, r).invited = Doer(p)

CanAnswer(p) == \E f \in Family : IsPending(p, call[p].invitation, f, Doer(p))

Reads == {"no-family", "known-user", "owns-a-family", "member-of-a-family", "invited-is-free",
          "not-invited-yet", "pending-invitation", "category", "account", "access"}

Passes(p) ==
    LET u == Doer(p)  mine == MemberRow(u)
    IN  CASE Current(p) = "no-family"          -> ~IsThere(p, mine)
          [] Current(p) = "known-user"         -> IsThere(p, UserRow(u))
          [] Current(p) = "owns-a-family"      -> HasRole(p, "owner")
          [] Current(p) = "member-of-a-family" -> HasRole(p, "member")
          [] Current(p) = "invited-is-free"    -> /\ IsThere(p, UserRow(call[p].invited))
                                                  /\ ~IsThere(p, MemberRow(call[p].invited))
          [] Current(p) = "not-invited-yet"    ->
                 \A i \in Invitation : ~IsPending(p, i, family[p], call[p].invited)
          [] Current(p) = "pending-invitation" -> CanAnswer(p)
          [] Current(p) = "category"           -> IsThere(p, CategoryRow(family[p]))
          [] Current(p) = "account"            -> IsThere(p, AccountRow(family[p]))
          [] Current(p) = "access"             ->
                 IsThere(p, mine) /\ Visible(p, mine).family = family[p]

\* the family a read has selected
Selected(p) ==
    CASE Current(p) \in {"owns-a-family", "member-of-a-family"} ->
             Visible(p, MemberRow(Doer(p))).family
      [] Current(p) = "pending-invitation" -> Visible(p, InvitationRow(call[p].invitation)).family
      [] OTHER -> family[p]

Read(p) ==
    /\ Busy(p) /\ Current(p) \in Reads
    /\ \/ /\ Passes(p)
          /\ Advance(p)
          /\ family' = [family EXCEPT ![p] = Selected(p)]
          /\ UNCHANGED <<committed, holder, sharers, call, new, queue, written, history>>
       \/ ~Passes(p) /\ Rollback(p)

(***************************************************************************)
(* Writes.  An UPDATE or DELETE finds its rows when it starts, locks them   *)
(* one by one and looks at each again when it has it; an INSERT locks its   *)
(* key and then the rows it refers to.                                      *)
(***************************************************************************)
\* the creator of a family: never updated
Creator(p, f) == Visible(p, FamilyRow(f))

\* the WHERE of the current statement, of a row that is there
Matches(p, r) ==
    LET row == Visible(p, r)  u == Doer(p)  f == family[p]
        of(table) == r[1] = table /\ row.family = f
        leaving == call[p].call = "leave"
    IN  /\ row # Absent
        /\ CASE Current(p) = "answer"             -> r = InvitationRow(call[p].invitation)
             [] Current(p) = "reassign-schedules" ->
                    /\ r[1] = "schedule" /\ row.by = u
                    /\ IF leaving THEN row.family = f ELSE Creator(p, row.family) # u
             [] Current(p) = "delete-membership"  -> r = MemberRow(u) /\ row.family = f
             [] Current(p) \in {"delete-schedules", "schedules-left"} -> of("schedule")
             [] Current(p) = "delete-category"    -> r = CategoryRow(f)
             [] Current(p) = "delete-account"     -> r = AccountRow(f)
             [] Current(p) = "sources-left"       -> of("source")
             [] Current(p) = "delete-invitations" ->
                    IF call[p].call = "dissolve" THEN of("invitation")
                    ELSE r[1] = "invitation" /\ u \in {row.invited, row.by}
             [] Current(p) = "delete-members"     -> of("member")
             [] Current(p) = "delete-family"      -> r = FamilyRow(f)
             [] Current(p) = "cascade-family"     ->
                    of("member") \/ of("invitation") \/ of("schedule")
             [] Current(p) = "delete-user"        -> r = UserRow(u)
             [] Current(p) = "rows-left"          ->
                    (r[1] = "family" /\ row = u) \/ (r[1] \in {"schedule", "source"} /\ row.by = u)
             [] Current(p) = "cascade-user"       ->
                    r = MemberRow(u) \/ (r[1] = "invitation" /\ u \in {row.invited, row.by})
             [] OTHER                             -> FALSE

Found(p) == {r \in Table : Matches(p, r)}

\* How a statement locks what it finds.  "refer" and "none-left" are the checks
\* of the foreign keys, that a row is there and that none is.
Mode(p) == CASE Current(p) \in {"answer", "reassign-schedules"} -> "update"
             [] Current(p) \in {"schedules-left", "sources-left", "rows-left"} -> "none-left"
             [] OTHER -> "delete"

Lock(mode, r) == [mode |-> mode, row |-> r]
RefersTo(rows) == [k \in DOMAIN rows |-> Lock("refer", rows[k])]

\* variant for mutation: the table has no key on the user
MemberLocksWithoutKey(p) == RefersTo(<<FamilyRow(family[p]), UserRow(Doer(p))>>)

MemberLocks(p) == <<Lock("insert", MemberRow(Doer(p)))>>
                  \o RefersTo(<<FamilyRow(family[p]), UserRow(Doer(p))>>)

\* the author is only referred to anew where a row has been found
Authors(p) == {UserRow(Creator(p, Visible(p, r).family)) : r \in Found(p)}

Locks(p) ==
    LET u == Doer(p)  f == family[p]
    IN  CASE Current(p) = "add-family" -> RefersTo(<<UserRow(u)>>)
          [] Current(p) \in {"add-owner", "add-member"} -> MemberLocks(p)
          [] Current(p) = "add-invitation" ->
                 <<Lock("insert", PendingKey(f, call[p].invited))>>
                 \o RefersTo(<<FamilyRow(f), UserRow(call[p].invited), UserRow(u)>>)
          [] Current(p) = "add-schedule" ->
                 RefersTo(<<CategoryRow(f), FamilyRow(f), UserRow(u)>>)
          [] Current(p) = "add-source" -> RefersTo(<<AccountRow(f), UserRow(u)>>)
          [] OTHER ->
                 LET found == SetToSeq(Found(p))
                 IN  [k \in DOMAIN found |-> Lock(Mode(p), found[k])]
                     \o (IF Current(p) = "reassign-schedules"
                         THEN RefersTo(SetToSeq(Authors(p))) ELSE <<>>)

\* the rows an INSERT adds
Added(p) ==
    LET u == Doer(p)  f == family[p]
        only(r, row) == [x \in {r} |-> row]
    IN  CASE Current(p) = "add-family" -> only(FamilyRow(f), u)
          [] Current(p) = "add-owner"  -> only(MemberRow(u), [family |-> f, role |-> "owner"])
          [] Current(p) = "add-member" -> only(MemberRow(u), [family |-> f, role |-> "member"])
          [] Current(p) = "add-invitation" ->
                 only(InvitationRow(new[p]), [family |-> f, invited |-> call[p].invited,
                                              by |-> u, status |-> "pending"])
          [] Current(p) = "add-schedule" -> only(ScheduleRow(new[p]), [family |-> f, by |-> u])
          [] Current(p) = "add-source" -> only(SourceRow(new[p]), [family |-> f, by |-> u])
          [] OTHER -> [r \in {} |-> Absent]

\* what becomes of a row that is found
Changed(p, r) ==
    CASE Current(p) = "answer" ->
             [Visible(p, r) EXCEPT !.status = IF call[p].accept THEN "accepted" ELSE "declined"]
      [] Current(p) = "reassign-schedules" ->
             [Visible(p, r) EXCEPT !.by = Creator(p, Visible(p, r).family)]
      [] OTHER -> Absent

Done == Lock("done", <<"end">>)

FindRows(p) ==
    /\ Busy(p) /\ Current(p) \notin Reads \cup {"commit"} /\ queue[p] = <<>>
    /\ queue' = [queue EXCEPT ![p] = Append(Locks(p), Done)]
    /\ UNCHANGED <<committed, holder, sharers, connection, program, written, history>>

Wanted(p) == Head(queue[p])

\* transactions that hold what p is about to lock: a reader of a key waits
\* only for a transaction that deletes the row
Blockers(p) ==
    LET l == Wanted(p)
        writer(r) == IF r \in DOMAIN holder THEN {holder[r]} \ {Nobody, p} ELSE {}
    IN  IF queue[p] = <<>> \/ l.mode = "done" THEN {}
        ELSE IF l.mode \in {"refer", "none-left"}
        THEN {q \in writer(l.row) : ~IsThere(q, l.row)}
        ELSE writer(l.row)
             \cup (IF l.mode = "delete" THEN sharers[l.row] \ {p} ELSE {})
             \cup (IF l.row[1] = "pending"
                   THEN UNION {writer(InvitationRow(i)) : i \in
                            {x \in Invitation : IsPending(p, x, l.row[2][1], l.row[2][2])}}
                   ELSE {})

KeyTaken(p, r) ==
    IF r[1] = "pending" THEN \E i \in Invitation : IsPending(p, i, r[2][1], r[2][2])
                        ELSE IsThere(p, r)

\* unique_violation, foreign_key_violation
Violates(p, l) ==
    CASE l.mode = "insert"    -> KeyTaken(p, l.row)
      [] l.mode = "refer"     -> ~IsThere(p, l.row)
      [] l.mode = "none-left" -> Matches(p, l.row)
      [] OTHER                -> FALSE

ConstraintRaises(p) ==
    /\ Busy(p) /\ queue[p] # <<>> /\ Wanted(p).mode # "done"
    /\ Blockers(p) = {}
    /\ Violates(p, Wanted(p))

\* the row is locked, and a row that still matches is changed; one that is
\* gone by now is passed over
LockRow(p) ==
    LET l == Wanted(p)
        changes == l.mode = Mode(p) /\ l.mode # "none-left" /\ Matches(p, l.row)
    IN  /\ Busy(p) /\ queue[p] # <<>> /\ l.mode # "done" /\ Blockers(p) = {}
        /\ ~Violates(p, l)
        /\ sharers' = IF l.mode = "refer"
                      THEN [sharers EXCEPT ![l.row] = @ \cup {p}] ELSE sharers
        /\ holder' = IF l.mode = "insert" \/ changes
                     THEN [holder EXCEPT ![l.row] = p] ELSE holder
        /\ written' = IF changes
                      THEN [written EXCEPT ![p][l.row] = Changed(p, l.row)] ELSE written
        /\ queue' = [queue EXCEPT ![p] = Tail(@)]
        /\ UNCHANGED <<committed, connection, program, history>>

\* the exception undoes the call
ConstraintError(p) == ConstraintRaises(p) /\ Rollback(p)

\* The rows that are not here may refuse that what they refer to is deleted, to a call
\* that runs alone too: a family operation with a lot on a member's account (fx_lots)
\* or an event of a position (portfolio_events) keeps the family, an entry on a
\* person's own account or category (bank_entries, budget_entries) the person.
LedgerRefuses(p) ==
    /\ Busy(p)
    /\ Current(p) \in {"delete-ledger", "delete-category", "delete-account", "delete-family", "delete-user"}
    /\ Rollback(p)

\* the statement has all its locks: what it inserts is there
EndStatement(p) ==
    /\ Busy(p) /\ queue[p] = <<Done>>
    /\ written' = [written EXCEPT ![p] = [r \in Table |->
                       IF r \in DOMAIN Added(p) THEN Added(p)[r] ELSE @[r]]]
    /\ queue' = [queue EXCEPT ![p] = <<>>]
    /\ Advance(p)
    /\ UNCHANGED <<committed, holder, sharers, connection, history>>

\* An invitation is contested when two answers to it ran at once, a schedule
\* when its author was leaving the family while it was created.
Contested(p) ==
    LET c == call[p]
    IN  CASE c.call = "answer" ->
                 {c.invitation : d \in {x \in alongside[p] : x.call = "answer" /\ x.invitation = c.invitation}}
          [] c.call = "schedule" ->
                 {new[p] : d \in {x \in alongside[p] : x.call = "leave" /\ x.user = c.user}}
          [] OTHER -> {}

CommitTransaction(p) ==
    /\ Busy(p) /\ Current(p) = "commit"
    /\ committed' = [r \in Table |-> Visible(p, r)]
    /\ contested' = contested \cup Contested(p)
    /\ EndTransaction(p)
    /\ UNCHANGED <<drawn, calls>>

(***************************************************************************)
(* PostgreSQL undoes one transaction of a circle of waiting ones.           *)
(***************************************************************************)
InCircle(p) ==
    \E S \in SUBSET Proc :
        /\ p \in S
        /\ \A q \in S : Busy(q) /\ Blockers(q) \cap S # {}

AbortDeadlocked(p) == InCircle(p) /\ Rollback(p)

Step(p) ==
    \/ Read(p) \/ FindRows(p) \/ LockRow(p) \/ ConstraintError(p) \/ LedgerRefuses(p)
    \/ EndStatement(p) \/ CommitTransaction(p) \/ AbortDeadlocked(p)

Next ==
    \/ \E p \in Proc, c \in Calls : Begin(p, c)
    \/ \E p \in Proc : Step(p)

Spec == Init /\ [][Next]_vars

(***************************************************************************)
(* Properties.                                                              *)
(***************************************************************************)
\* Locks are of rows and of transactions there are, calls are those clients
\* make, and a connection between two calls (storage/databases.py returns it to
\* the pool) holds no lock and no uncommitted change.
TypeOK ==
    /\ DOMAIN committed = Table
    /\ holder \in [Row -> Proc \cup {Nobody}] /\ sharers \in [Row -> SUBSET Proc]
    /\ calls \in 0..MaxCalls
    /\ \A p \in Proc :
          /\ DOMAIN written[p] = Table
          /\ Busy(p) => call[p] \in Calls
          /\ ~Busy(p) => /\ written[p] = NoWrites /\ queue[p] = <<>>
                         /\ \A r \in Row : holder[r] # p /\ p \notin sharers[r]

\* The row of a user, family, category or account that a transaction refers to is not
\* deleted by another before it ends: what a call inserts refers to what is
\* still there when it commits.
ReferredRowsStay ==
    [][\A r \in Table, q \in Proc :
          /\ r[1] \in {"user", "family", "category", "account"}
          /\ q \in sharers[r] /\ q \in sharers'[r]
          /\ committed[r] # Absent
          => committed'[r] # Absent]_vars

\* However creating, joining, leaving, dissolving and deleting accounts cross,
\* a family is owned by the one who created it and by nobody else, nobody is
\* invited to it but by the owner, and nothing refers to a user, a family, a
\* category or an account that is gone: no member, invitation, schedule or source.
FamilyIsWhole == References(committed) /\ OwnedByCreators(committed)

\* BUSINESS_LOGIC.md: people join by accepting an invitation.  Whoever is a
\* member has accepted an invitation of that very family, and not declined it
\* since; only two answers sent at once may leave it otherwise.
JoinedByInvitation == MembersJoined(committed, contested)

\* set__leave_family: "Family data should stay intact after a member leaves":
\* the author of a family's schedule is one of the family, unless it was
\* created while its author left.
SchedulesHaveAnAuthorInTheFamily == AuthorsBelong(committed, contested)

\* set__leave_family and set__delete_user_account: "Reassign them to the family owner
\* so personal account deletion remains possible".  Of people, families, invitations
\* and schedules the functions ask for, reassign or delete beforehand everything the
\* tables would refuse: alone, no call runs into a constraint of these, whatever was
\* called before it.  What else refuses a lone call is a source of the crypto journal,
\* which nobody reassigns or deletes, and the ledger (LedgerRefuses).
FamilyRowsRefuseOnlyInRaces ==
    \A p \in Proc : ConstraintRaises(p) =>
        alongside[p] # {} \/ Wanted(p).row[1] = "source"
=============================================================================
