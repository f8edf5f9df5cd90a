SPECIFICATION SuperSpec
CONSTANTS
    NoPid = NoPid
    MaxPids = 3
    MAX_CONSECUTIVE_FAIL_COUNT = 1
INVARIANTS OneSqueezePlay RebootHasReason ChipWasSilent
PROPERTIES CrashNoticed DeadChipNoticed
