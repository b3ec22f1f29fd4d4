SPECIFICATION Spec
CONSTANTS
    Frames <- MCFrames
    NoFrame = NoFrame
    Chargers = {c1}
    Readings <- AllReadings
    Commands <- NoCommand
    FramesPerPass = 2
    WATTAGE_MAX_UNSET = 140
    STATION_WATTS_DEFAULT = 66
    HEARTBEAT_CURRENT = 99
    USHORT_MOD = 128
    UINT_MOD = 128
    ULONG_MOD = 1024
    RAMP_RATE = 8
    MAX_12V_WATTS = 10
    OUTPUT_VOLTS_MAX = 13
    OUTPUT_VOLTS_MIN = 5
    OUTPUT_VOLTS_CUTBACK <- MCVoltsCutback
    OUTPUT_WATTS_CUTBACK <- MCWattsCutback
INVARIANTS OverVoltageStops
