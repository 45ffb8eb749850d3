CONSTANTS
    NumChans = 1
    Freqs = {f1}
    NoFreq = none
    SendPieces = 1
    StallTime = 1
    PassTime = 1
    ClockSteps <- StepsBack
    PeerStates = {}
SPECIFICATION LiveSpec
PROPERTIES
    CommandsServed
    ConnectionsAnswered
