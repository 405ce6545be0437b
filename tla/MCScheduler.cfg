CONSTANTS
    a = a
    b = b
    c = c
    p = p
    zero = zero
    none = none
    Targets <- MCTargets
    Paths <- MCPaths
    Top = a
    ZeroKey = zero
    None = none
    ScriptSet <- MCScriptSet
    CallbacksWired = TRUE
SPECIFICATION Spec
INVARIANT TypeOK
INVARIANT ExecutedAtMostOnce
INVARIANT NoLostWakeup
INVARIANT SuccessfulBuildIsComplete
 
PROPERTY BuildTerminates
PROPERTY AbstractBuildSpec
