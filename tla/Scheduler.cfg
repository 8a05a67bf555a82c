SPECIFICATION FairSpec
CONSTANTS
    rent = rent
    gym = gym
    Instance = {api1, api2}
    Schedule = {rent, gym}
    Frequency <- Frequencies
    DayOf <- DaysOf
    WeekLength = 2
    MonthLengths <- Months
    FirstDay = 2
    LastDay = 5
    MaxStops = 1
    Nobody = Nobody
INVARIANTS
    TypeOK
    ChargedAtMostOnce
    OnItsDay
PROPERTIES
    NoDateSkipped
    ChargesOnce
    EveryDueRowIsClaimed
CHECK_DEADLOCK FALSE
