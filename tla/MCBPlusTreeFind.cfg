\* One thread searches while another inserts.
CONSTANTS
    t1 = t1
    t2 = t2
    Threads = {t1, t2}
    Keys = {1, 2, 3}
    FirstKey = 0
    Order = 3
    MallocKeys = {99}
    BeforeKeys = 0
    Menu <- FindAndInsert
    OP_ADD = 0
    OP_READ = 1
    OP_DELETE = 2
    NoThread = NoThread
    NoCall = NoCall
SPECIFICATION Spec
INVARIANTS
    NoFalseMiss
