SPECIFICATION Spec
CONSTANTS
    Chargers = {c1, c2}
    ChargerVolts <- MCChargerVolts
    BikeVolts <- MCBikeVolts
    Commands <- MCCommands
    VOLT_UNIT = 2
    USHORT_MOD = 128
    MIN_VOLTS = 7
    DEFAULT_WATTS = 15
    COUNT_SCV2_THRESHOLD = 2
    SC_STALE_THRESHOLD = 3
    BIKE_STALE_THRESHOLD = 1
    MaxFrames = 3
INVARIANTS TypeOK HeardRecently
PROPERTIES SharedTarget OutputFollowsEnd
