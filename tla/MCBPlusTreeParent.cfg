\* A scripted schedule in which a parent splits twice while a split leaf waits.
CONSTANTS
    t1 = t1
    t2 = t2
    Threads = {t1, t2}
    Keys = {1, 2, 3, 4, 7, 8, 9, 10, 11}
    FirstKey = 0
    Order = 3
    MallocKeys = {99}
    BeforeKeys = 0
    Menu <- Scripted
    OP_ADD = 0
    OP_READ = 1
    OP_DELETE = 2
    NoThread = NoThread
    NoCall = NoCall
SPECIFICATION Spec
ACTION_CONSTRAINT
    InTurn
INVARIANTS
    LeftFound
