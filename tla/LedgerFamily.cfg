SPECIFICATION Spec
CONSTANTS
    ann = ann
    home = home
    main = main
    save = save
    card = card
    gold = gold
    common = common
    rub = rub
    usd = usd
    food = food
    Owner = {ann, home}
    FamilyOwner = {home}
    Account <- FamilyAccounts
    AccountOwner <- FamilyAccountOwner
    AccountKind <- FamilyKind
    Currency = {rub, usd}
    OwnerBase <- FamilyBase
    Regular = {food}
    RegularOwner <- FamilyRegularOwner
    GroupPlans <- NoPlans
    TicksPerCent = 1
    Amounts = {1, 3}
    Costs = {2}
    TaxPercents = {0}
    Limits = {}
    MaxOperations = 4
INVARIANTS
    TypeOK
    RebuildChangesNothing
    LotsBackBalances
    LotsMatchConsumptions
    NoStrandedCost
    BudgetIsMoney
    ReversedAtMostOnce
PROPERTIES
    FreeBudgetGuarded
CHECK_DEADLOCK FALSE
