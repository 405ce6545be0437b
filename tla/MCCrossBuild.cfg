CONSTANTS
    MaxEdits = 2
    MaxRuns = 5
SPECIFICATION Spec
PROPERTY CrashForcesRebuild
 
CHECK_DEADLOCK FALSE
