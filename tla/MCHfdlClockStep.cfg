CONSTANTS
    NumChans = 1
    Freqs = {}
    NoFreq = none
    SendPieces = 1
    StallTime = 1
    PassTime = 1
    ClockSteps <- StepsBoth
    PeerStates = {"reads", "stalls"}
SPECIFICATION Spec
PROPERTIES
    NoEarlyDisconnect
