\* Three threads; five keys to insert, so that the last part is longer and two of the
\* iterations asked for are not done; a pool of two inserts, a delete and a search.
CONSTANTS
    threads = 3
    Main = 99
    MAXITER = 5
    MAX_POOL = 4
    ins = 50
    del = 25
    range = 3
    num = 1
SPECIFICATION FairSpec
CHECK_DEADLOCK FALSE
INVARIANTS
    TypeOK
    EarlyOnlyRoused
    ResultsAgree
PROPERTY Ends
