CONSTANTS
    Clients = {c1, c2}
    NoClient = none
    Threads = {t1, t2}
    Counts = {2, 4, 6, 7, 8}
    Depth = 2048
    Step = 2048
SPECIFICATION LiveSpec
CHECK_DEADLOCK FALSE
INVARIANTS
    OneStreamer
    GoesToStarter
    DiscoveryIsTrue
    NeverUnderruns
PROPERTIES
    StopTakesEffect
