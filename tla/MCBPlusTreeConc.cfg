\* Two threads insert 5 keys, as under baseline.c, and one of them deletes.
CONSTANTS
    t1 = t1
    t2 = t2
    Threads = {t1, t2}
    Keys = {1, 2, 3, 4, 5, 6}
    FirstKey = 0
    Order = 3
    MallocKeys = {99}
    BeforeKeys = 0
    Menu <- OddAndEven
    OP_ADD = 0
    OP_READ = 1
    OP_DELETE = 2
    NoThread = NoThread
    NoCall = NoCall
SPECIFICATION Spec
INVARIANTS
    TypeOK
    
    
    
ACTION_CONSTRAINT
    DeleteLate
PROPERTY InsertionsKept
