SPECIFICATION FormulasSpec
CONSTANTS
    U64_MAX = 100
    MAX_BASIS_POINTS = 10
    YIELD_SCALE = 10
    SECONDS_PER_YEAR = 4
    PRICE_SCALE = 2
    ONYC_UNIT = 2
    ASSET_UNIT = 3
    MAX_VECTORS = 2
    INT_SCALE = 512
    U128_MAX = 51711
    SECONDS_IN_DAY = 5
    DAYS_IN_YEAR = 2
    U32_MAX = 10
    HARD_WALL_SCALE = 100
    CURVE_EXPONENT_SCALE = 2
    CURVE_EXPONENT_STEP = 1
    CADENCE_WAVE_SCALE = 4
    CADENCE_WAVE_STEP = 1
    MAX_CADENCE_WAVE_SCALED = 20
    WALL_SENSITIVITY_SCALE = 10
    POW_APPROX_Q_SHIFT = 8
    POW_APPROX_LN2_Q = 177
    POW_APPROX_LOG2_E_Q = 369
    LOG2_HARD_WALL_SCALE_Q = 1697
    AmountArgs = {0, 1, 3, 5, 8}
    PriceArgs = {1, 2, 5}
    RateArgs = {0, 1, 7}
    BpsArgs = {0, 3, 10}
    SecondArgs = {0, 1, 5}
    RawArgs = {1, 2, 3, 5, 7}
    LiquidityArgs = {1, 3, 4, 6, 7, 9}
    PressureArgs = {0, 1, 4, 9}
    CountArgs = {0, 1, 2}
    ExponentArgs = {1, 2, 3, 5}
    WaveArgs = {0, 4, 20}
    PegArgs = {0, 1, 7}
    BasePriceArgs = {1, 2, 3, 4, 5}
    AprArgs = {0, 1, 2, 3, 5, 6}
    DurationArgs = {1, 2, 5, 7}
    MAX_DAYS = 4
INVARIANTS RoundTripNeverProfits AccrualIsTheGrossYield SplitIsConserved BurnLeavesExactlyEnough
    PressureNeverPays LiquidityNeverHurts PowerIsMonotone PriceIsCompounded
PROPERTIES PriceFallsByRoundingOnly
CHECK_DEADLOCK FALSE
