----------------------------- MODULE MCFamilies -----------------------------
(***************************************************************************)
(* Ann owns home; bob is invited to home and to cat's family away, or is a  *)
(* member of home with a scheduled expense of his.                          *)
(***************************************************************************)
EXTENDS Families, TLC

CONSTANTS ann, bob, cat, home, away, own, p1, p2, p3

Connections == {p1, p2, p3}
Symmetric   == Permutations(Connections)

With(members, invitations, schedules) ==
    [r \in Table |->
        CASE r[1] = "user" -> TRUE
          [] r = FamilyRow(home) -> ann
          [] r = FamilyRow(away) -> cat
          [] r \in {CategoryRow(home), AccountRow(home)} -> TRUE
          [] r[1] = "member" /\ r[2] \in DOMAIN members -> members[r[2]]
          [] r[1] = "invitation" /\ r[2] \in DOMAIN invitations -> invitations[r[2]]
          [] r[1] = "schedule" /\ r[2] \in DOMAIN schedules -> schedules[r[2]]
          [] OTHER -> Absent]

Owns(f)   == [family |-> f, role |-> "owner"]
Joined(f) == [family |-> f, role |-> "member"]
Asked(f, by, status) == [family |-> f, invited |-> bob, by |-> by, status |-> status]
Nothing == [x \in {} |-> Absent]

Owners == (ann :> Owns(home)) @@ (cat :> Owns(away))

\* bob has been invited twice and answered neither
Outside == With(Owners, (1 :> Asked(home, ann, "pending")) @@ (2 :> Asked(away, cat, "pending")), Nothing)
\* bob has joined home and plans an expense there
Inside == With(Owners @@ (bob :> Joined(home)),
                  (1 :> Asked(home, ann, "accepted")) @@ (2 :> Asked(away, cat, "pending")),
                  11 :> [family |-> home, by |-> bob])

StartTables == {Outside, Inside}

Answer(i, yes) == [call |-> "answer", user |-> bob, invitation |-> i, accept |-> yes]

AllCalls ==
    {Answer(1, TRUE), Answer(1, FALSE), Answer(2, TRUE),
     [call |-> "create", user |-> bob], [call |-> "leave", user |-> bob],
     [call |-> "delete", user |-> bob], [call |-> "delete", user |-> ann],
     [call |-> "invite", user |-> ann, invited |-> bob],
     [call |-> "schedule", user |-> bob, family |-> home],
     [call |-> "journal", user |-> bob, family |-> home],
     [call |-> "dissolve", user |-> ann]}
=============================================================================
