\* One thread makes any calls, as under gps.c.  Order 3: a leaf of 3 splits.
CONSTANTS
    t1 = t1
    t2 = t2
    Threads = {t1}
    Keys = {1, 2, 3, 4, 5, 6}
    FirstKey = 0
    Order = 3
    MallocKeys = {99}
    BeforeKeys = 0
    Menu <- AllCalls
    OP_ADD = 0
    OP_READ = 1
    OP_DELETE = 2
    NoThread = NoThread
    NoCall = NoCall
SPECIFICATION Spec
INVARIANTS
    ParentLinks
    Balanced
PROPERTIES
    ImplementsKVStore
