\* Two clients, two traces of five queries, one round; heartbeats with POET.
CONSTANTS
    num_threads = 2
    num_queries = 5
    Clients <- MCClients
    Keys = {1}
    Traces <- MCTraces
    Seconds = 1
    MaxRounds = 1
    USE_HB = TRUE
    USE_POET = TRUE
    OP_ADD = 0
    OP_READ = 1
    NoCall = NoCall
SPECIFICATION FairSpec
CHECK_DEADLOCK FALSE
INVARIANTS
    TypeOK
    HeartAlive
    OwnQueries
    MissedOnce
    TotalsAreFinal
    CountsNoMoreThanJobs
PROPERTY Ends
