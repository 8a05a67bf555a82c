SPECIFICATION DissolutionSpec
CONSTANTS
    ann = ann
    home = home
    main = main
    common = common
    rub = rub
    usd = usd
    food = food
    Owner = {ann, home}
    FamilyOwner = {home}
    Account <- FamilyAccounts
    AccountOwner <- FamilyAccountOwner
    AccountKind <- FamilyKind
    Currency = {rub, usd}
    OwnerBase <- FamilyBase
    Regular = {food}
    RegularOwner <- FamilyRegularOwner
    GroupPlans <- NoPlans
    TicksPerCent = 1
    Amounts = {1, 3}
    Costs = {2}
    TaxPercents = {0}
    Limits = {}
    MaxOperations = 3
INVARIANT PersonalMoneyHasItsEntries
CHECK_DEADLOCK FALSE
