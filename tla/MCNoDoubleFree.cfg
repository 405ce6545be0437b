CONSTANTS
    storage = storage
    toolsMain = toolsMain
    toolsSched = toolsSched
    sched = sched
    buildFile = buildFile
    umka = umka
    registry = registry
    null = null
    Storage = storage
    ToolsMain = toolsMain
    ToolsSched = toolsSched
    Sched = sched
    BuildFile = buildFile
    Umka = umka
    Registry = registry
    Null = null
SPECIFICATION Spec
INVARIANT NoDoubleFree
