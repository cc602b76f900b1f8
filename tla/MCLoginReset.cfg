CONSTANTS
    Slots = {r1, r2}
    Threshold = 2
    Window = 2
    MaxClock = 3
SPECIFICATION Spec
SYMMETRY Symmetry
PROPERTY ResetKeepsLiveLock
