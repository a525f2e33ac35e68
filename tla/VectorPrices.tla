---------------------------- MODULE VectorPrices ----------------------------
(***************************************************************************)
(* What the price of one vector (OfferPricing) promises as time passes:    *)
(* compounding by squaring, rounded at every multiplication, a line        *)
(* between two days, and steps of a fixed duration on top.                 *)
(***************************************************************************)
EXTENDS OfferPricing

CONSTANTS
    BasePriceArgs,  \* base prices
    AprArgs,        \* APRs
    DurationArgs,   \* price_fix_duration
    MAX_DAYS        \* bound on the time

ASSUME VectorAssumption ==
    /\ BasePriceArgs \subseteq Nat \ {0}
    /\ AprArgs \subseteq Nat
    /\ DurationArgs \subseteq Nat \ {0}
    /\ MAX_DAYS \in Nat

\* b to the power n, exactly.
power(b, n) ==
    LET f[k \in Nat] == IF k = 0 THEN 1 ELSE f[k - 1] * b
    IN  f[n]

\* The base price after n days of growth, rounded up every day.
price_ceiling(base_price, apr, n) ==
    LET f[k \in Nat] == IF k = 0 THEN base_price
                        ELSE ceil_div_u128(f[k - 1] * daily_factor(apr), INT_SCALE)
    IN  f[n]

\* The days whose price a vector is asked for.
PricedDays(duration) == 0..((MAX_DAYS * SECONDS_IN_DAY + duration) \div SECONDS_IN_DAY)

\* INT_SCALE is far above the prices, and a day's growth far below 100%.  With
\* the code's scales this allows an APR of 12,000%, and over ten years a price
\* of 68,000.0; a base price below 200.0 does not come so far, as pow_fixed
\* returns no more than 340-fold growth (pow_fixed_returns).
ASSUME AccuracyAssumption ==
    \A base_price \in BasePriceArgs, apr \in AprArgs, duration \in DurationArgs :
        /\ 3 * daily_factor(apr) <= 4 * INT_SCALE
        /\ \A n \in PricedDays(duration) :
               8 * n * price_ceiling(base_price, apr, n) <= 2 * INT_SCALE - n

VARIABLES
    vector,     \* an OfferVector
    now         \* the time

Vectors ==
    [start_time : {1}, base_time : {1}, base_price : BasePriceArgs, apr : AprArgs,
     price_fix_duration : DurationArgs]

VectorInit == vector \in Vectors /\ now = 1

\* A second passes.
Wait ==
    /\ now < MAX_DAYS * SECONDS_IN_DAY
    /\ now' = now + 1
    /\ UNCHANGED vector

VectorSpec == VectorInit /\ [][Wait]_<<vector, now>>

Price == calculate_step_price_at(vector, now)

\* The price follows daily compounding (math_utils::pow_fixed,
\* calculate_vector_price): after n days it is base_price * (1 + r)^n to
\* within one unit, for a rate r and any n, however the squarings round.
PriceIsCompounded ==
    LET days   == (now - 1) \div SECONDS_IN_DAY
        priced == calculate_vector_price(vector.apr, vector.base_price, days * SECONDS_IN_DAY)
        scale  == power(INT_SCALE, days)
        exact  == vector.base_price * power(daily_factor(vector.apr), days)
    IN  (priced - 1) * scale <= exact /\ exact <= (priced + 1) * scale

\* As time passes the price of a vector rises, or falls by one unit at most:
\* tomorrow's price as the line of today foresees it and as the power computes
\* it are rounded separately (calculate_vector_price).  So redemption requests
\* lose at most that unit by waiting.
PriceFallsByRoundingOnly ==
    [][Price' >= Price - 1]_<<vector, now>>
=============================================================================
