CONSTANTS
    Items = {a}
    Threads = {t1, t2}
    Keys = {k}
    NoKey = noKey
    Stated = stated
    MaxTransitions = 2
SPECIFICATION Spec
INVARIANT TerminalIsFinal
