CONSTANTS
    RefClocks = {}
    MaxBoots = 1
    Apps = {a1, a2}
    Readers = {rd}
    Swapped = {a2}
    HeaderLen = 3
    FileLen = 15
    Block <- MCBlock
    Nobody = nobody
    MaxQueue = 1
    Troubles = {"errors"}
    Admins = {w1, w2}
    Meanwhile = {"AES"}
    MaxStores = 3
    Fclks = {f0, f1}
    Writers = {w1, w2}
SPECIFICATION BoardSpec
INVARIANTS
    ErrorsAreCaptured
CHECK_DEADLOCK FALSE
