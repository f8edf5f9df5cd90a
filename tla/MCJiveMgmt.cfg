SPECIFICATION Spec
CONSTANTS
    BatLevels = {811, 817}
    StartHours = {9, 22}
    None = None
INVARIANTS SwitchFollows CheckedHourly
PROPERTIES NeverWakesFlat SwitchReported
