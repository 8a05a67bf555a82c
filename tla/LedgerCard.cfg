SPECIFICATION Spec
SYMMETRY Cards
CONSTANTS
    ann = ann
    home = home
    main = main
    save = save
    card = card
    gold = gold
    common = common
    rub = rub
    usd = usd
    food = food
    Owner = {ann}
    FamilyOwner = {}
    Account <- TwoCardAccounts
    AccountOwner <- TwoCardOwner
    AccountKind <- TwoCardKind
    Currency = {rub}
    OwnerBase <- AnnBase
    Regular = {food}
    RegularOwner <- SoloRegularOwner
    GroupPlans <- AnnPlans
    TicksPerCent = 1
    Amounts = {1, 3}
    Costs = {2}
    TaxPercents = {0, 50}
    Limits = {2, 3}
    MaxOperations = 4
INVARIANTS
    AccountsSolvent
    BudgetIsMoney
    CardDebtIsOwed
PROPERTIES
    FreeBudgetGuarded
CHECK_DEADLOCK FALSE
