\* Three threads, two buckets, two keys that collide and one that does not.
CONSTANTS
    t1 = t1
    t2 = t2
    t3 = t3
    Threads = {t1, t2, t3}
    Keys = {0, 1, 2}
    Buckets = {0, 1}
    Bucket <- MCBucket
    OP_ADD = 0
    OP_READ = 1
    NoThread = NoThread
    NoCall = NoCall
SPECIFICATION FairSpec
INVARIANTS
    TypeOK
    OneRecordPerKey
PROPERTIES
    RecordsStay
    ImplementsKVStore
    EveryGetReturns
