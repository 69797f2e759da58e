\* Three clients on one queue of three slots: the ring can be full, and the
\* fourth and the fifth add reuse its first slots.  The counters stay below IntMax.
CONSTANTS
    c1 = c1
    c2 = c2
    c3 = c3
    s1 = s1
    Senders = {c1, c2, c3}
    Subtrees = {s1}
    Bodies = {"body"}
    Lenght = 3
    IntMax = 7
    MaxAdds = 5
    NoThread = NoThread
    Unset = Unset
SPECIFICATION QFairSpec
INVARIANTS
    QTypeOK
    MutualExclusion
    NoOverwrite
    NoLostWakeup
    OneOperationPerCall
PROPERTIES
    ImplementsFifo
    EveryCallAnswered
