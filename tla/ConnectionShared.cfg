CONSTANTS
    Threads = {t1, t2}
    NoThread = noThread
    Writes = {w1, w2, w3}
    NoWrite = noWrite
    Evaluations = {e1, e2}
SPECIFICATION Spec
INVARIANTS LockFreeIsQuiet AckIsWhole TornOnlyByStray
PROPERTIES StoreIsAtomic
