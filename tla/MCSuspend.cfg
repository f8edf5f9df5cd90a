SPECIFICATION Spec
CONSTANTS
    MaxStarts = 2
    AppValues = {300, 2024}
    Word = 1024
    None = None
INVARIANTS RegisterFollows SettingRestored SleepsStopped KickNeverKills LeaseStays
PROPERTIES SuspendEnds BackOnline MotionReported
