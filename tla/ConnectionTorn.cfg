CONSTANTS
    Threads = {t1, t2}
    NoThread = noThread
    Writes = {w1, w2}
    NoWrite = noWrite
    Evaluations = {e1}
SPECIFICATION Spec
INVARIANTS StatusHasAuditRow
