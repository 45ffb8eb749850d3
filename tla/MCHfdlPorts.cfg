CONSTANTS
    NumChans = 1
    Freqs = {}
    NoFreq = none
    SendPieces = 1
    StallTime = 1
    PassTime = 1
    ClockSteps = {}
    PeerStates = {"reads", "stalls", "gone"}
SPECIFICATION LiveSpec
INVARIANTS
    TypeOK
PROPERTIES
    NoEarlyDisconnect
    ReadersProgress
    DeadClientsLeave
