SPECIFICATION FairSpec
CONSTANTS
    Producers = {p1, p2}
    Consumers = {c1, c2}
    Val = {0}
    Zero = 0
    Size = 1
    MaxEnq = 2
PROPERTIES LostToAnother CallsReturn
