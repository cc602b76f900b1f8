CONSTANTS
    Slots = {r1, r2, r3}
    Threshold = 2
    Window = 2
    MaxClock = 4
SPECIFICATION Spec
SYMMETRY Symmetry
INVARIANTS TypeOK NoLostFailure GuessBudget ConstantWork LockoutInv
PROPERTIES LiveLockStands AnnouncedByTheLocker
