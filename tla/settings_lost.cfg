SPECIFICATION SettingsSpec
CONSTANTS
    Upstream = {b1}
    MaxSaves = 2
    MaxTroubles = 0
INVARIANT
    SettingsKept
CHECK_DEADLOCK FALSE
