SPECIFICATION Spec
CONSTANTS
    ethaddr = ethaddr
    mtdset = mtdset
    v1 = v1
    v2 = v2
    r1 = r1
    NoValue = NoValue
    Bad = Bad
    Names <- MCNames
    Once <- MCOnce
    Values <- MCValues
    Default <- MCDefault
    Capacity = 1
    Readers = {r1}
    MaxPairs = 2
    MaxFaults = 1
INVARIANTS TypeOK OneFaultTolerated ReadsAreStored
PROPERTIES CopyKept SetOnlyOnce StoreSpec
