SPECIFICATION Spec
CONSTANTS
    Producers = {p1, p2}
    Consumers = {c1}
    Val = {0, 1}
    Zero = 0
    Size = 2
    MaxEnq = 3
SYMMETRY Symmetry
INVARIANT RingInv
PROPERTIES SkipsOnlyTaken ImplementsFifo
