SPECIFICATION FairSpec
CONSTANTS
    Clients = {c1, c2}
    NumPairs = 3
    ClientPairs = 1
    MaxCount = 2
    CountCap = 3
    MaxRestarts = 1
INVARIANTS PairsExclusive NoFalseReboot
PROPERTIES MonitoredReboots
