SPECIFICATION Spec
CONSTANTS
    usdc = usdc
    eurc = eurc
    wallet = wallet
    Assets = {usdc, eurc}
    NoOffer = NoOffer
    Destinations = {}
    NoDestination = NoDestination
    U64_MAX = 15
    MAX_BASIS_POINTS = 4
    YIELD_SCALE = 4
    SECONDS_PER_YEAR = 4
    PRICE_SCALE = 2
    ONYC_UNIT = 1
    ASSET_UNIT = 1
    MAX_VECTORS = 2
    INT_SCALE = 4
    U128_MAX = 255
    SECONDS_IN_DAY = 1
    DAYS_IN_YEAR = 1
    U32_MAX = 4
    HARD_WALL_SCALE = 12
    CURVE_EXPONENT_SCALE = 2
    CURVE_EXPONENT_STEP = 1
    CADENCE_WAVE_SCALE = 2
    CADENCE_WAVE_STEP = 1
    MAX_CADENCE_WAVE_SCALED = 10
    WALL_SENSITIVITY_SCALE = 2
    POW_APPROX_Q_SHIFT = 6
    POW_APPROX_LN2_Q = 44
    POW_APPROX_LOG2_E_Q = 92
    LOG2_HARD_WALL_SCALE_Q = 226
    MAX_ALLOWED_FEE_BPS = 2
    MAX_BUFFER_GROSS_APR = 4
    MAX_TIME = 2
    MAX_REQUESTS = 2
    Inputs <- RedemptionInputs
    Initial <- RedemptionInitial
INVARIANTS TypeOK RequestBookkeeping
PROPERTIES CoverageLostOnlyByWithdraw TradesNeverFavourTheUser RequestsAreClaims
