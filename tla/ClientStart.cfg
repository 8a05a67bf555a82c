SPECIFICATION Spec
CONSTANTS
    anna = anna
    boris = boris
    a1 = a1
    b1 = b1
    here = here
    there = there
    None = None
    Tabs = {here, there}
    Logins = {a1, b1}
    Users = {anna, boris}
    OwnerOf <- Owners
    TelegramHosts = {FALSE, TRUE}
    MaxSteps <- Steps
SYMMETRY Alike
CHECK_DEADLOCK FALSE
INVARIANT TypeOK
INVARIANT RecordOfThisLogin
INVARIANT OverviewOfItsUser
INVARIANT SplashAwaitsAnAnswer
PROPERTY FreshNeverGoesBack
