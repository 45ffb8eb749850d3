CONSTANTS
    RefClocks = {25000000, 24000000, 20480000}
    MaxBoots = 3
    Apps = {a1, a2}
    Readers = {rd}
    Swapped = {a2}
    HeaderLen = 3
    FileLen = 15
    Block <- MCBlock
    Nobody = nobody
    MaxQueue = 1
    Troubles = {"none", "slow", "errors", "partial", "settings", "stores", "reboot", "clocks"}
    Admins = {w1, w2}
    Meanwhile = {"AES"}
    MaxStores = 3
    Fclks = {f0, f1}
    Writers = {w1, w2}
SPECIFICATION BoardLiveSpec
INVARIANTS
    BoardTypeOK
    RightClock
    Bookkeeping
    LinkMatchesLoad
    NoDanglingDma
    ServerRunsOnItsDesign
    SettingsSurvive
    ClocksBalanced
PROPERTIES
    MutexIsReleased
CHECK_DEADLOCK FALSE
