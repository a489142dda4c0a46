SPECIFICATION FairSpec
CONSTANTS
    a = a
    b = b
    every = every
    w1 = w1
    Thread = {t1, t2}
    Worker = {w1}
    Task = {a, every}
    Series = {every}
    Home <- OneWorker
    Period = 1
    MaxTime = 1
INVARIANTS Accounted Sorted HeadWatched
PROPERTIES NoneAfterStop ServedBeforeEnd CloseEnds
CHECK_DEADLOCK FALSE
