SPECIFICATION FairSpec
CONSTANTS
    Clients = {c1, c2}
    NumPairs = 3
    ClientPairs = 1
    MaxCount = 1
    CountCap = 2
    MaxRestarts = 1
PROPERTIES NowayoutReboots
