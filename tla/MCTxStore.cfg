SPECIFICATION TxSpec
CONSTANTS
    h1 = h1
    h2 = h2
    s1 = s1
    Hashes = {h1,h2}
    TxIDs = {s1}
    AssignedTo <- MCAssigned
    Callers = {g1, g2}
    Calls = {"Add", "Get", "RemoveHashes", "RemoveTxIDs", "Clear"}
    Protections = {"No", "Short", "Full"}
    Cleaner = Cleaner
    TxIDEmpty = TxIDEmpty
    Delays = {1}
    MaxTxAge = 2
    NoTxIDAge = 1
    TimeToAvoidReEntry = 2
    ShortReEntryProtectionDuration = 1
    TxStoreMaxSize = 1
    CleanTarget = 1
    Second = 1
    MaxTime = 2
    MaxStays = 2
    MaxCalls = 2
INVARIANTS TxStoreInv CleanPanicsOnlyLate
PROPERTIES ImplementsRegistry OldTxsLeave
CHECK_DEADLOCK FALSE
