SPECIFICATION Spec
CONSTANTS
    Periods <- MCPeriods
    MaxTime = 2
    MaxAdds = 3
INVARIANTS
    TypeOK
    IdsInUseOnce
    NoOversleep
    CallFindsItsTimer
    DisturbedByGrowthOrReuse
PROPERTIES
    ValidTimerKeepsSlot
    AlarmClockSpec
    TimersFire
    DestructorReturnsIfBusy
CHECK_DEADLOCK FALSE
