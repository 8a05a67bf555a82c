SPECIFICATION Spec
CONSTANTS
    home = home
    office = office
    joint = joint
    card = card
    food = food
    unalloc = unalloc
    fx = fx
    income = income
    Nobody = Nobody
    Proc = {p1, p2}
    MaxCalls = 1
    Account <- Accounts
    IsCard <- Cards
    IsPersonal <- Personal
    CreditLimit <- Limits
    Category <- Categories
    CategoryId <- Ids
    Unallocated = unalloc
    FxResult = fx
    Past <- PastOps
    InitialValue <- NewCardStart
    Requests <- CardRequests
CHECK_DEADLOCK FALSE
INVARIANT CardWithinLimit
