CONSTANTS
    a = a
    b = b
    c = c
    p = p
    zero = zero
    none = none
    Targets <- MCTargets
    Paths <- MCPaths
    Top = a
    ZeroKey = zero
    None = none
    ScriptSet <- MCScriptSet
    CallbacksWired = FALSE
SPECIFICATION Spec
 
PROPERTY BuildTerminates
