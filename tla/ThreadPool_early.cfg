SPECIFICATION Spec
CONSTANTS
    a = a
    b = b
    every = every
    w1 = w1
    Thread = {t1, t2}
    Worker = {w1}
    Task = {a, b, every}
    Series = {every}
    Home <- OneWorker
    Period = 1
    MaxTime = 2
PROPERTIES NeverEarly
CHECK_DEADLOCK FALSE
