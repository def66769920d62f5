SPECIFICATION FairSpec
CONSTANTS
    Sessions <- SomeSessions
    SampleTimes <- SomeTimes
INVARIANTS TypeOK ResultsComplete NumbersStay
PROPERTIES OnlyLegalLaunchesWrite LaunchesEnd
\* Both launches come to an end.
CHECK_DEADLOCK FALSE
