SPECIFICATION Spec
CONSTANTS
    ann = ann
    bob = bob
    cat = cat
    home = home
    away = away
    own = own
    Absent = Absent
    Same = Same
    Nobody = Nobody
    p1 = p1
    p2 = p2
    p3 = p3
    Proc <- Connections
    MaxCalls = 3
    User = {ann, bob, cat}
    Family = {home, away, own}
    Invitation = {1, 2, 3}
    Schedule = {11, 12}
    Source = {21}
    Calls <- AllCalls
    Starts <- StartTables
SYMMETRY Symmetric
CHECK_DEADLOCK FALSE
INVARIANT FamilyIsWhole
INVARIANT JoinedByInvitation
INVARIANT SchedulesHaveAnAuthorInTheFamily
INVARIANT FamilyRowsRefuseOnlyInRaces
