\* Two clients and two substructures that start empty (SimpleHashMap, SVEB).
\* Keys 0 and 2 share a substructure; two calls on each queue; key 2 is left to c2.
CONSTANTS
    c1 = c1
    c2 = c2
    s1 = s1
    s2 = s2
    Senders = {c1, c2}
    Subtrees = {s1, s2}
    Keys = {0, 1, 2}
    Route <- TwoRoutes
    Bodies <- MCBodies
    InitKeys = {}
    OP_ADD = 0
    OP_READ = 1
    Lenght = 2
    IntMax = 7
    MaxAdds = 2
    NoThread = NoThread
    Unset = Unset
SPECIFICATION FairSpec
ACTION_CONSTRAINT LeftToC2
INVARIANTS
    TypeOK
    AtHome
PROPERTIES
    ImplementsKVStore
    EveryCallReturns
