SPECIFICATION UpgradeSpec
CONSTANTS
    MaxFaults = 5
INVARIANTS
    CompletedIsGood
    BootloaderSecond
