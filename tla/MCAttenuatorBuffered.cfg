CONSTANTS
    BufSize = 16
    Bits = 3
    MaxAtt = 7
    FirstAtt = 4
    OvfWait = 1
    CalmWait = 2
    ClockSteps = {}
    NoValue = none
SPECIFICATION Spec
INVARIANTS
    ReportIsTrue
