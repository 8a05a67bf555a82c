------------------------- MODULE FamiliesInvariant -------------------------
(***************************************************************************)
(* What is always so in Families, and what of it follows from what: the     *)
(* invariants that FamiliesProofs proves.                                   *)
(*   FInv  locks: who deletes a row that others may refer to is alone       *)
(*   WInv  families: what each call has written, refers to and must lock    *)
(*   HInv  history: what each call has read, given the calls beside it      *)
(*   AInv  the authors that schedules are handed to                         *)
(***************************************************************************)
EXTENDS Families

(***************************************************************************)
(* The statements of a call, the last of which is its commit.               *)
(***************************************************************************)
Statement ==
    Reads \cup {"add-family", "add-owner", "add-member", "add-invitation", "add-schedule",
                "add-source", "delete-account", "sources-left",
                "answer", "reassign-schedules", "delete-schedules", "delete-category",
                "delete-invitations", "delete-ledger", "delete-membership", "delete-members", "delete-family",
                "delete-user", "schedules-left", "rows-left", "cascade-family",
                "cascade-user", "commit"}

EndsWithCommit(s) == s \in Seq(Statement) /\ (s # <<>> => s[Len(s)] = "commit")

(***************************************************************************)
(* Locks.                                                                   *)
(***************************************************************************)
IsParent(r) == r[1] \in {"user", "family", "category", "account"}

\* a row that is deleted here and not yet for others is held, and nobody else
\* refers to it
DeletedIsAlone(p, r) == written[p][r] = Absent => holder[r] = p /\ sharers[r] \subseteq {p}

Connected(p) ==
    /\ EndsWithCommit(program[p])
    /\ Busy(p) /\ queue[p] # <<>> => Current(p) \notin Reads \cup {"commit"}
    /\ \A r \in Table : IsParent(r) => DeletedIsAlone(p, r)

Shapes ==
    /\ program = [p \in Proc |-> program[p]]
    /\ written = [p \in Proc |-> written[p]]
    /\ queue   = [p \in Proc |-> queue[p]]
    /\ call    = [p \in Proc |-> call[p]]

FInv == TypeOK /\ Shapes /\ \A p \in Proc : Connected(p)

\* what TypeOK and Connected ask of one connection
Clean(p) == /\ written[p] = NoWrites /\ queue[p] = <<>>
            /\ \A r \in Row : holder[r] # p /\ p \notin sharers[r]

(***************************************************************************)
(* What a call has chosen, written and referred to so far.                  *)
(***************************************************************************)
Full(c) == Program(c) \o <<"commit">>

\* the statements left are the last ones of the call's program
OnTrack(p) ==
    LET n == Len(program[p])  all == Full(call[p])
    IN  n <= Len(all) /\ \A k \in 1..n : program[p][k] = all[Len(all) - n + k]

Left(p)  == {program[p][k] : k \in 1..Len(program[p])}
Ahead(p) == {queue[p][k] : k \in 1..Len(queue[p])}

Serial == {"family", "invitation", "schedule", "source"}
NewKind(c) == CASE c.call = "create"   -> "family"
                [] c.call = "invite"   -> "invitation"
                [] c.call = "schedule" -> "schedule"
                [] c.call = "journal"  -> "source"
                [] OTHER               -> "none"
NewRow(p) == <<NewKind(call[p]), new[p]>>

\* an id that has been drawn for a call is nobody else's
Fresh(p) ==
    NewKind(call[p]) # "none" =>
        /\ new[p] \in NewIds(call[p]) /\ new[p] \in drawn
        /\ committed[NewRow(p)] = Absent
        /\ \A q \in Proc \ {p} : Busy(q) => NewRow(q) # NewRow(p)
        /\ call[p].call = "create" => family[p] = new[p]
        /\ call[p].call \in {"schedule", "journal"} => family[p] = call[p].family

DrawnIds == \A r \in Table : r[1] \in Serial /\ committed[r] # Absent => r[2] \in drawn

Choosing == {"owns-a-family", "member-of-a-family", "pending-invitation"}

\* The family a call has read stays who created it: nobody else is creating it,
\* and its creator is the owner, not a member, not one who is invited.
Chose(p) ==
    call[p].call \in {"invite", "dissolve", "leave", "answer"} /\ Choosing \cap Left(p) = {} =>
        /\ family[p] \in Family /\ family[p] \in drawn
        /\ \A q \in Proc : Busy(q) => NewRow(q) # FamilyRow(family[p])
        /\ committed[FamilyRow(family[p])] # Absent =>
              (committed[FamilyRow(family[p])] = Doer(p)
                   <=> call[p].call \in {"invite", "dissolve"})

\* what a call may have written in a row: v, on what is committed there
Writes(p, r, v) ==
    LET c == call[p]  u == Doer(p)  f == family[p]  old == committed[r]
    IN  \/ /\ c.call = "create" /\ old = Absent
           /\ (r = FamilyRow(f) /\ v = u) \/ (r = MemberRow(u) /\ v = [family |-> f, role |-> "owner"])
        \/ /\ c.call = "answer"
           /\ \/ old = Absent /\ r = MemberRow(u) /\ v = [family |-> f, role |-> "member"]
              \/ /\ r = InvitationRow(c.invitation) /\ old # Absent
                 /\ v = [old EXCEPT !.status = IF c.accept THEN "accepted" ELSE "declined"]
        \/ /\ c.call = "invite" /\ r = NewRow(p)
           /\ v = [family |-> f, invited |-> c.invited, by |-> u, status |-> "pending"]
        \/ /\ c.call \in {"schedule", "journal"} /\ r = NewRow(p) /\ v = [family |-> f, by |-> u]
        \/ /\ c.call \in {"leave", "delete"} /\ r[1] = "schedule" /\ old # Absent
           /\ v = [old EXCEPT !.by = committed[FamilyRow(old.family)]]
        \/ /\ v = Absent /\ old # Absent
           /\ \/ c.call = "leave" /\ r = MemberRow(u) /\ old.family = f
              \/ c.call = "dissolve" /\ \/ r \in {CategoryRow(f), AccountRow(f), FamilyRow(f)}
                                        \/ r[1] \in {"member", "invitation", "schedule"} /\ old.family = f
              \/ c.call = "delete" /\ \/ r \in {UserRow(u), MemberRow(u)}
                                      \/ r[1] = "invitation" /\ u \in {old.invited, old.by}

\* it is written by who holds the row, or drew its id
Wrote(p) ==
    \A r \in Table : written[p][r] # Same =>
        /\ Choosing \cap Left(p) = {}
        /\ Writes(p, r, written[p][r])
        /\ r = NewRow(p) \/ holder[r] = p

\* what is referred to is there
Shares(p) == \A r \in Row : p \in sharers[r] => r \in Table /\ IsParent(r) /\ IsThere(p, r)

\* p refers to r, or is about to
Refers(p, r) == p \in sharers[r] \/ Lock("refer", r) \in Ahead(p)

\* a call does not delete what it refers to
DeletesNoParent(p) ==
    call[p].call \in {"dissolve", "delete"} =>
        \A r \in Row : Refers(p, r) => r[1] = "user" /\ r # UserRow(Doer(p))

\* whatever a row that is written refers to, it has referred to before or p
\* refers to it now
Covered(p) ==
    \A r \in Table : written[p][r] \notin {Same, Absent} =>
        \A parent \in Parents(r, written[p][r]) :
            \/ committed[r] # Absent /\ parent \in Parents(r, committed[r])
            \/ Refers(p, parent)

\* what an INSERT has to write is written when it has ended
Inserted(p) ==
    call[p].call = "create" =>
        /\ "add-family" \notin Left(p) => written[p][FamilyRow(family[p])] = Doer(p)
        /\ "add-owner" \notin Left(p) =>
              written[p][MemberRow(Doer(p))] = [family |-> family[p], role |-> "owner"]

(***************************************************************************)
(* The statement that is being executed.                                    *)
(***************************************************************************)
Inserting == {"add-family", "add-owner", "add-member", "add-invitation", "add-schedule", "add-source"}

LocksIn(s) == {s[k] : k \in 1..Len(s)}

\* the locks of a statement are of rows
Queued(p) ==
    queue[p] # <<>> =>
        /\ queue[p] \in Seq(Ahead(p)) /\ Done \in Ahead(p)
        /\ \A l \in Ahead(p) \ {Done} :
              /\ l.row \in Row /\ l.mode # "done" /\ l = Lock(l.mode, l.row)
              /\ IF Current(p) \in Inserting THEN l \in LocksIn(Locks(p))
                 ELSE /\ l.row \in Table
                      /\ l.mode = Mode(p) \/ (l.mode = "refer" /\ l.row[1] = "user"
                                              /\ Current(p) = "reassign-schedules")

\* what an INSERT has locked so far
Acquired(p) ==
    queue[p] # <<>> /\ Current(p) \in Inserting =>
        \A l \in LocksIn(Locks(p)) :
            \/ l \in Ahead(p)
            \/ l.mode = "refer" /\ p \in sharers[l.row]
            \/ l.mode = "insert" /\ (l.row \in Table => holder[l.row] = p /\ committed[l.row] = Absent)

\* a schedule that is about to change its author refers to the new one
Reassigns(p) ==
    \A r \in Table : r[1] = "schedule" /\ Lock("update", r) \in Ahead(p) =>
        /\ r[2] \in drawn
        /\ \A q \in Proc : Busy(q) => r # NewRow(q)
        /\ IsThere(p, r) => Refers(p, UserRow(Creator(p, Visible(p, r).family)))

(***************************************************************************)
(* Deleting.  A statement that deletes a parent, or what refers to one,     *)
(* leaves nothing of what it was to find.                                   *)
(***************************************************************************)
Sweeping == {"schedules-left", "sources-left", "cascade-family", "rows-left", "cascade-user"}

\* the row that is gone, and what may still refer to it
Swept(p, s) == CASE s \in {"delete-category", "schedules-left"} -> CategoryRow(family[p])
                 [] s \in {"delete-account", "sources-left"}    -> AccountRow(family[p])
                 [] s \in {"delete-family", "cascade-family"}   -> FamilyRow(family[p])
                 [] OTHER                                       -> UserRow(Doer(p))
SweptKinds(s) == CASE s = "schedules-left" -> {"schedule"}
                   [] s = "sources-left"   -> {"source"}
                   [] s = "cascade-family" -> {"member", "invitation", "schedule"}
                   [] s = "rows-left"      -> {"family", "schedule", "source"}
                   [] OTHER                -> {"member", "invitation"}

Clearing(p) ==
    CASE call[p].call = "dissolve" ->
             {"delete-category", "schedules-left", "delete-account", "sources-left",
              "delete-family", "cascade-family"}
      [] call[p].call = "delete" -> {"delete-user", "rows-left", "cascade-user"}
      [] OTHER -> {}

Target(p, s, r) ==
    /\ IsThere(p, r)
    /\ IF s \in Sweeping THEN r[1] \in SweptKinds(s) /\ Swept(p, s) \in Parents(r, Visible(p, r))
                         ELSE r = Swept(p, s)

Clear(p, s) == \A r \in Table : ~Target(p, s, r)

Cleared(p) ==
    \A s \in Clearing(p) :
        /\ s \notin Left(p) => Clear(p, s)
        /\ queue[p] # <<>> /\ Current(p) = s =>
              \A r \in Table : Target(p, s, r) => Lock(Mode(p), r) \in Ahead(p)

(***************************************************************************)
(* The invariant.                                                           *)
(***************************************************************************)
Runs(p) == OnTrack(p) /\ Fresh(p) /\ Chose(p) /\ Wrote(p) /\ Shares(p) /\ DeletesNoParent(p)
           /\ Covered(p) /\ Inserted(p) /\ Queued(p) /\ Acquired(p) /\ Reassigns(p) /\ Cleared(p)

TypedRows == \A r \in Table : committed[r] \in Values(r) \cup {Absent}

Domains == DOMAIN family = Proc /\ DOMAIN new = Proc

WInv == Domains /\ TypedRows /\ DrawnIds /\ FamilyIsWhole /\ \A p \in Proc : Busy(p) => Runs(p)

(***************************************************************************)
(* What a call knows of the calls beside it.                                *)
(***************************************************************************)
Beside == \A p \in Proc : \A q \in Proc \ {p} : Busy(p) /\ Busy(q) => call[p] \in alongside[q]

\* another answer to the invitation ran beside p, or the member p acts for left meanwhile
AnsweredBeside(p) ==
    \E d \in alongside[p] : d.call = "answer" /\ d.invitation = call[p].invitation
LeftBeside(p) == \E d \in alongside[p] : d.call = "leave" /\ d.user = Doer(p)

\* statement s of p has been executed as far as lock l, or has not had to take it
Over(p, s, l) == s \notin Left(p) \/ (Current(p) = s /\ queue[p] # <<>> /\ l \notin Ahead(p))

\* a row that is gone and will not be there again
Unborn(r) == r[2] \in drawn /\ \A q \in Proc : Busy(q) => NewRow(q) # r

\* the family or the person is gone: the call will not commit
Orphaned(p) == committed[FamilyRow(family[p])] = Absent \/ committed[UserRow(Doer(p))] = Absent

\* The invitation that is being answered is still the one that was read, unless
\* another answer runs, and the answer is written.
Answers(p) ==
    LET r == InvitationRow(call[p].invitation)
    IN  call[p].call = "answer" /\ Choosing \cap Left(p) = {} =>
            /\ Unborn(r)
            /\ committed[r] # Absent =>
                  /\ committed[r].family = family[p] /\ committed[r].invited = Doer(p)
                  /\ committed[r].status # "pending" => AnsweredBeside(p)
            /\ committed[r] = Absent => Orphaned(p)
            /\ Over(p, "answer", Lock("update", r)) => written[p][r] # Same \/ committed[r] = Absent

\* who plans an expense is one of the family, unless he is leaving it
Plans(p) ==
    call[p].call = "schedule" /\ {"category", "access"} \cap Left(p) = {} =>
        /\ Unborn(FamilyRow(family[p]))
        /\ \/ /\ committed[MemberRow(Doer(p))] # Absent
              /\ committed[MemberRow(Doer(p))].family = family[p]
           \/ LeftBeside(p)
           \/ Orphaned(p)

\* a schedule that is still the member's own and has been looked for
StillOwn(p, r) == IsThere(p, r) /\ Visible(p, r).by = Doer(p) /\ Visible(p, r).family = family[p]

\* who leaves keeps no schedule but one that was written meanwhile
Leaves(p) ==
    call[p].call = "leave" /\ Choosing \cap Left(p) = {} =>
        \A r \in Table : /\ r[1] = "schedule" /\ StillOwn(p, r)
                         /\ Over(p, "reassign-schedules", Lock("update", r))
                         => r[2] \in contested

(***************************************************************************)
(* A call that has run alone: what it read is still so.                     *)
(***************************************************************************)
ReadAlone(p) ==
    LET u == Doer(p)  f == family[p]  c == call[p]
    IN  /\ /\ c.call \in {"create", "delete"} \/ (c.call = "answer" /\ c.accept)
           /\ "no-family" \notin Left(p)
           => committed[MemberRow(u)] = Absent
        /\ c.call \in {"create", "delete"} /\ "known-user" \notin Left(p) =>
              committed[UserRow(u)] # Absent
        /\ c.call = "invite" =>
              /\ Choosing \cap Left(p) = {} =>
                    committed[MemberRow(u)] # Absent /\ committed[MemberRow(u)].family = f
              /\ "invited-is-free" \notin Left(p) => committed[UserRow(c.invited)] # Absent
              /\ "not-invited-yet" \notin Left(p) =>
                    \A i \in Invitation : ~IsPending(p, i, f, c.invited) \/ InvitationRow(i) = NewRow(p)
        /\ c.call = "answer" /\ Choosing \cap Left(p) = {} =>
              committed[InvitationRow(c.invitation)] # Absent
        /\ c.call = "schedule" /\ "category" \notin Left(p) => committed[CategoryRow(f)] # Absent
        /\ c.call = "journal" /\ "account" \notin Left(p) => committed[AccountRow(f)] # Absent
        /\ c.call \in {"schedule", "journal"} /\ "access" \notin Left(p) =>
              committed[MemberRow(u)] # Absent

\* what a call has not come to it has not written
NotYet(p) ==
    /\ Reads \cap Left(p) # {} => \A r \in Table : written[p][r] = Same
    /\ call[p].call = "create" /\ "add-owner" \in Left(p) => written[p][MemberRow(Doer(p))] = Same
    /\ call[p].call = "answer" /\ ("add-member" \in Left(p) \/ ~call[p].accept) =>
          written[p][MemberRow(Doer(p))] = Same
    /\ call[p].call = "invite" /\ "add-invitation" \in Left(p) => written[p][NewRow(p)] = Same

\* the schedules that were looked for have all been deleted, or reassigned
SweptAlone(p) ==
    \A r \in Table : r[1] = "schedule" /\ IsThere(p, r) =>
        /\ call[p].call = "dissolve" /\ Over(p, "delete-schedules", Lock("delete", r)) =>
              Visible(p, r).family # family[p]
        /\ call[p].call = "delete" /\ Over(p, "reassign-schedules", Lock("update", r)) =>
              Visible(p, r).by # Doer(p)

Alone(p) == alongside[p] = {} => ReadAlone(p) /\ SweptAlone(p)

HInv == /\ DOMAIN alongside = Proc /\ Beside
        /\ JoinedByInvitation /\ SchedulesHaveAnAuthorInTheFamily
        /\ \A p \in Proc : Busy(p) => Answers(p) /\ Plans(p) /\ Leaves(p) /\ NotYet(p) /\ Alone(p)

(***************************************************************************)
(* The constraints of the tables: whom a lone call hands schedules to is    *)
(* there.                                                                   *)
(***************************************************************************)
AuthorsThere(p) ==
    alongside[p] = {} /\ Current(p) = "reassign-schedules" =>
        \A r \in Table : Lock("refer", r) \in Ahead(p) => committed[r] # Absent

AInv == \A p \in Proc : Busy(p) => AuthorsThere(p)
=============================================================================
