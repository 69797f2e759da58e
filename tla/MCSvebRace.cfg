\* Two threads and four keys: the insertion of the fourth moves the others.
CONSTANTS
    t1 = t1
    t2 = t2
    Threads = {t1, t2}
    Keys = {1, 2, 3, 4}
    MaxDepth = 5
    MAXINT = 99
    OP_ADD = 0
    OP_READ = 1
    NoThread = NoThread
    NoCall = NoCall
SPECIFICATION Spec
INVARIANT FindsWhatWasThere
