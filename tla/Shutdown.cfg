CONSTANTS
    Hooks = {h1, h2}
    NoHook = NoHook
    MaxSpawns = 2
    MaxReloads = 2
    MaxSignals = 2
SPECIFICATION FairSpec
INVARIANTS
    ReapedOnceAndFirst
PROPERTIES
    HookIsDecidedOnce
    
CHECK_DEADLOCK FALSE
