SPECIFICATION LatchSpec
CONSTANTS
    Frames <- MCFrames
    NoFrame = NoFrame
    Chargers = {c1}
    Readings <- MCReadings
    Commands <- MCCommands
    FramesPerPass = 1
    WATTAGE_MAX_UNSET = 140
    STATION_WATTS_DEFAULT = 66
    HEARTBEAT_CURRENT = 99
    USHORT_MOD = 128
    UINT_MOD = 128
    ULONG_MOD = 1024
    RAMP_RATE = 12
    MAX_12V_WATTS = 3
    OUTPUT_VOLTS_MAX = 14
    OUTPUT_VOLTS_MIN = 7
    OUTPUT_VOLTS_CUTBACK <- MCVoltsCutback
    OUTPUT_WATTS_CUTBACK <- MCWattsCutback
    LATCH_VOLTS <- MCLatchVolts
    LATCH_WATTS <- MCLatchWatts
INVARIANTS LatchTypeOK TargetBounded
PROPERTIES OnceCutOnlyLower WattsFollowTarget
