SPECIFICATION FairSpec
CONSTANTS
    MaxClient = 2
    Sock = 3
    Fds <- MCFds
    IdleTimeout = 1
    ClockMod = 8
    RoundTime = 1
    MaxIntr = 1
INVARIANTS TypeOK SlotAccounting OneSlotPerSocket PoolsFollowSlots
           SnapshotStillValid ReapedInTime
PROPERTIES NoEarlyReap ImplementsPool SilentConnectionReaped
