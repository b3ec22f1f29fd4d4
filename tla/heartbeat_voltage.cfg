SPECIFICATION Spec
CONSTANTS
    Settings <- MCSettings
    BikeFrames <- MCBikeFrames
    ChargerVolts <- MCChargerVolts
    USHORT_MOD = 256
    ULONG_MOD = 65536
    BYTE_MOD = 16
    Misread <- MCMisread
    START_ITTERATION = 3
    DELAY_ITTERATION = 3
    HURRY_ITTERATION = 2
    VOLT_CUTBACK <- MCVoltCutback
    COLD_CUTBACK <- MCColdCutback
    HOT_CUTBACK <- MCHotCutback
    PastEnd <- MCPastEnd
    TOLERANCE = 1
    MAX_12V_WATTS = 50
    OUTPUT_VOLTS_MAX = 25
    OUTPUT_VOLTS_MIN = 5
    OUTPUT_VOLTS_MIN_25 = 6
    OUTPUT_VOLTS_DEFAULT = 25
    V3Settings <- MCV3Settings
INVARIANTS VoltageHighThenLow
