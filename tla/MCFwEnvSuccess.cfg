SPECIFICATION Spec
CONSTANTS
    ethaddr = ethaddr
    mtdset = mtdset
    v1 = v1
    v2 = v2
    r1 = r1
    NoValue = NoValue
    Bad = Bad
    Names <- MCNames
    Once <- MCOnce
    Values <- MCValues
    Default <- MCDefault
    Capacity = 2
    Readers = {}
    MaxPairs = 1
    MaxFaults = 1
INVARIANTS SuccessMeansStored
