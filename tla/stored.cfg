SPECIFICATION Spec
CONSTANTS
    SETTINGS = 3
    RATE_SLOT = 2
    BYTES = 2
    BYTE_MOD = 3
    Commands <- MCCommands
    PackRates <- MCPackRates
    WATTAGE_MAX_UNSET = 3
    STATION_WATTS_DEFAULT <- MCDefault
    OUTPUT_VOLTS_MIN = 2
    OUTPUT_VOLTS_MAX = 5
    _allowedWrites = 5
    MaxWrites = 9
INVARIANTS TypeOK LastCommandStored FlashNeverMixes InForceAsCommanded
