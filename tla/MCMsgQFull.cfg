\* Three clients on a queue of two slots.
CONSTANTS
    c1 = c1
    c2 = c2
    c3 = c3
    s1 = s1
    Senders = {c1, c2, c3}
    Subtrees = {s1}
    Bodies = {"body"}
    Lenght = 2
    IntMax = 7
    MaxAdds = 3
    NoThread = NoThread
    Unset = Unset
SPECIFICATION QSpec
INVARIANTS
    NoOverwrite
