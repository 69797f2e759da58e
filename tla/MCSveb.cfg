\* Two threads; ten keys, enough to fill the first array, to outgrow it twice, and to
\* rebuild a part of the third.
CONSTANTS
    t1 = t1
    t2 = t2
    Threads = {t1, t2}
    Keys = {1, 2, 3, 4, 5, 6, 7, 8, 9, 10}
    MaxDepth = 5
    MAXINT = 99
    OP_ADD = 0
    OP_READ = 1
    NoThread = NoThread
    NoCall = NoCall
SPECIFICATION Spec
ACTION_CONSTRAINT FromTheEnds
INVARIANTS
    AddressesFollowLayout
    WalksPass
    HelperFits
    TypeOK
PROPERTY NothingLost
