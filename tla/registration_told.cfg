\* One client whose user asks twice; nothing fails.
SPECIFICATION Spec
CONSTANTS
    Form = {f1, f2}
    None = None
    DBFails = FALSE
    MaxClicks = 3
    MaxStarts = 1
    MaxSeconds = 2
    MaxCrashes = 0
INVARIANT
    SucceedRegister
CHECK_DEADLOCK FALSE
