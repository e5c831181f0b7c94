SPECIFICATION Spec
CONSTANTS
    MaxTyped = 3
    MaxOthers = 0
    MaxNudges = 1
    MaxMishaps = 0
PROPERTIES TypedIsKept
CHECK_DEADLOCK FALSE
