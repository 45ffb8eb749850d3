CONSTANTS
    BufSize = 1
    Bits = 3
    MaxAtt = 7
    FirstAtt = 4
    OvfWait = 1
    CalmWait = 2
    ClockSteps <- StepsBack
    NoValue = none
SPECIFICATION LiveSpec
INVARIANTS
    TypeOK
    HfdlReportIsTrue
PROPERTIES
    NoPartialValue
    AgcSettles
