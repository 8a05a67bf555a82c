SPECIFICATION Spec
CONSTANTS
    ann = ann
    home = home
    main = main
    save = save
    card = card
    gold = gold
    common = common
    rub = rub
    usd = usd
    food = food
    Owner = {ann}
    FamilyOwner = {}
    Account <- CardAccounts
    AccountOwner <- CardOwner
    AccountKind <- CardKind
    Currency = {rub}
    OwnerBase <- AnnBase
    Regular = {food}
    RegularOwner <- SoloRegularOwner
    GroupPlans <- NoPlans
    TicksPerCent = 1
    Amounts = {1, 3}
    Costs = {1}
    TaxPercents = {0}
    Limits = {2, 3}
    MaxOperations = 5
INVARIANTS
    ArchivedCardHoldsNoMoney
CHECK_DEADLOCK FALSE
