---------------------------- MODULE OfferPricing ----------------------------
(***************************************************************************)
(* The price of an offer: a set of pricing vectors and a time give a       *)
(* stepwise-constant price (offer_utils.rs, offer_valuation_utils.rs).     *)
(*                                                                         *)
(* Offer::vectors is an array of MAX_VECTORS slots in which start_time 0   *)
(* marks an empty slot.  The start times of the filled slots are distinct  *)
(* (validate_inputs) and no operation depends on the slot, so the array is *)
(* the set of its filled slots.                                            *)
(*                                                                         *)
(* Compounding leaves u128 long before the price leaves u64, so next to    *)
(* an operator for the value stands one that says that it is returned.     *)
(***************************************************************************)
EXTENDS OnreMath, FiniteSets

CONSTANTS
    MAX_VECTORS,        \* slots of Offer::vectors
    INT_SCALE,          \* fixed-point scale of the daily factor (10^18)
    U128_MAX,           \* largest u128
    SECONDS_IN_DAY,     \* 86_400
    DAYS_IN_YEAR        \* 365

ASSUME PricingAssumption ==
    /\ MAX_VECTORS \in Nat \ {0}
    /\ INT_SCALE \in Nat \ {0}
    /\ SECONDS_IN_DAY \in Nat \ {0}
    /\ DAYS_IN_YEAR \in Nat \ {0}

\* A u128 has room for a u64 in the scale of the factors and of the seconds.
ASSUME WidthAssumption ==
    /\ U128_MAX \in Nat
    /\ (U64_MAX + 1) * INT_SCALE <= U128_MAX + 1
    /\ (U64_MAX + 1) * SECONDS_IN_DAY <= U128_MAX + 1

\* Largest i64.
I64_MAX == U64_MAX \div 2

\* OfferVector
OfferVector ==
    [start_time : Nat \ {0}, base_time : Nat \ {0}, base_price : Nat \ {0},
     apr : Nat, price_fix_duration : Nat \ {0}]

-----------------------------------------------------------------------------
\* math_utils::mul_div_round_u128
mul_div_round_u128(a, b, denom) == (a * b + denom \div 2) \div denom

mul_div_round_returns(a, b, denom) == a * b + denom \div 2 <= U128_MAX

\* Mutant: the base is squared before it is used.
pow_fixed_squaring_first(base, exp, scale) ==
    LET loop[x \in Nat \X Nat \X Nat] ==
            LET squared == mul_div_round_u128(x[2], x[2], scale)
                acc     == IF x[3] % 2 = 1
                           THEN mul_div_round_u128(x[1], squared, scale) ELSE x[1]
            IN  IF x[3] \div 2 = 0 THEN acc ELSE loop[<<acc, squared, x[3] \div 2>>]
    IN  loop[<<scale, base, exp>>]

\* math_utils::pow_fixed: `base` to the power `exp`, by squaring, rounded at
\* every multiplication.
pow_fixed(base, exp, scale) ==
    LET loop[x \in Nat \X Nat \X Nat] ==    \* x = <<acc, base, exp>>
            LET acc == IF x[3] % 2 = 1
                       THEN mul_div_round_u128(x[1], x[2], scale) ELSE x[1]
                rest == x[3] \div 2
            IN  IF rest = 0 THEN acc
                ELSE loop[<<acc, mul_div_round_u128(x[2], x[2], scale), rest>>]
    IN  loop[<<scale, base, exp>>]

\* pow_fixed returns: none of its products leaves u128.
pow_fixed_returns(base, exp, scale) ==
    LET loop[x \in Nat \X Nat \X Nat] ==
            LET acc == IF x[3] % 2 = 1
                       THEN mul_div_round_u128(x[1], x[2], scale) ELSE x[1]
                rest == x[3] \div 2
            IN  /\ x[3] % 2 = 1 => mul_div_round_returns(x[1], x[2], scale)
                /\ rest # 0 =>
                     /\ mul_div_round_returns(x[2], x[2], scale)
                     /\ loop[<<acc, mul_div_round_u128(x[2], x[2], scale), rest>>]
    IN  loop[<<scale, base, exp>>]

\* The growth of a day, as a factor scaled by INT_SCALE (INT_SCALE times a u64
\* fits u128, so computing it never fails).
daily_factor(apr) ==
    LET year == YIELD_SCALE * DAYS_IN_YEAR
    IN  INT_SCALE + (INT_SCALE * apr + year \div 2) \div year

\* Mutant: the line within a day counts the seconds of the days before, too.
vector_price_elapsed_twice(apr, base_price, elapsed) ==
    LET today    == mul_div_round_u128(base_price,
                        pow_fixed(daily_factor(apr), elapsed \div SECONDS_IN_DAY, INT_SCALE),
                        INT_SCALE)
        tomorrow == mul_div_round_u128(today, daily_factor(apr), INT_SCALE)
    IN  IF apr = 0 \/ elapsed = 0 THEN base_price
        ELSE IF elapsed % SECONDS_IN_DAY = 0 THEN today
        ELSE today + mul_div_round_u128(tomorrow - today, elapsed, SECONDS_IN_DAY)

\* offer_utils::calculate_vector_price: daily compounding, linear within a day.
calculate_vector_price(apr, base_price, elapsed) ==
    LET today    == mul_div_round_u128(base_price,
                        pow_fixed(daily_factor(apr), elapsed \div SECONDS_IN_DAY, INT_SCALE),
                        INT_SCALE)
        tomorrow == mul_div_round_u128(today, daily_factor(apr), INT_SCALE)
    IN  IF apr = 0 \/ elapsed = 0 THEN base_price
        ELSE today + mul_div_round_u128(tomorrow - today,
                         elapsed % SECONDS_IN_DAY, SECONDS_IN_DAY)

\* calculate_vector_price returns: no product leaves u128, and the price fits.
vector_price_returns(apr, base_price, elapsed) ==
    LET factor   == daily_factor(apr)
        days     == elapsed \div SECONDS_IN_DAY
        seconds  == elapsed % SECONDS_IN_DAY
        growth   == pow_fixed(factor, days, INT_SCALE)
        today    == mul_div_round_u128(base_price, growth, INT_SCALE)
        tomorrow == mul_div_round_u128(today, factor, INT_SCALE)
    IN  /\ apr # 0 /\ elapsed # 0 =>
             /\ pow_fixed_returns(factor, days, INT_SCALE)
             /\ mul_div_round_returns(base_price, growth, INT_SCALE)
             /\ seconds # 0 =>
                  /\ mul_div_round_returns(today, factor, INT_SCALE)
                  /\ mul_div_round_returns(tomorrow - today, seconds, SECONDS_IN_DAY)
        /\ Fits(calculate_vector_price(apr, base_price, elapsed))

\* step_end_time of calculate_step_price_at, for v.base_time <= t: the end of
\* the step that t is in.
step_end_time(v, t) ==
    ((t - v.base_time) \div v.price_fix_duration + 1) * v.price_fix_duration

\* offer_utils::calculate_step_price_at: the price at the end of the step.
calculate_step_price_at(v, t) ==
    calculate_vector_price(v.apr, v.base_price, step_end_time(v, t))

\* calculate_step_price_at returns a price (NoActiveVector, OverflowError).
vector_priced_at(v, t) ==
    /\ v.base_time <= t
    /\ Fits(step_end_time(v, t))
    /\ vector_price_returns(v.apr, v.base_price, step_end_time(v, t))

-----------------------------------------------------------------------------
\* The vectors that have started at time t.
started_at(vectors, t) == {v \in vectors : v.start_time <= t}

\* The vector of a nonempty set with the latest start time.
latest(vectors) ==
    CHOOSE v \in vectors : \A w \in vectors : w.start_time <= v.start_time

\* offer_utils::find_active_vector_at, for started_at(vectors, t) # {}.
find_active_vector_at(vectors, t) == latest(started_at(vectors, t))

\* offer_valuation_utils::find_previous_vector, as the set of the vector found
\* (the same condition as find_active_vector_at(start_time - 1)).
find_previous_vector(vectors, start_time) ==
    LET before == started_at(vectors, start_time - 1)
    IN  IF before = {} THEN {} ELSE {latest(before)}

\* offer_valuation_utils::get_active_vector_and_current_price returns.
offer_priced_at(vectors, t) ==
    /\ started_at(vectors, t) # {}
    /\ vector_priced_at(find_active_vector_at(vectors, t), t)

\* offer_valuation_utils::compute_offer_current_price, where it returns.
compute_offer_current_price(vectors, t) ==
    calculate_step_price_at(find_active_vector_at(vectors, t), t)

\* offer_valuation_utils::get_nav_adjustment_snapshot: the jump of the price at
\* the start of the active vector `v`.
nav_adjustment(vectors, v) ==
    LET prev == find_previous_vector(vectors, v.start_time)
        jump == calculate_step_price_at(v, v.start_time)
    IN  IF prev = {} THEN jump
        ELSE jump - calculate_step_price_at(CHOOSE p \in prev : TRUE, v.start_time)

\* get_nav_adjustment_snapshot returns: both vectors have a price at the start
\* of the active one, and the difference fits i64.
nav_adjustment_defined(vectors, v) ==
    /\ vector_priced_at(v, v.start_time)
    /\ \A p \in find_previous_vector(vectors, v.start_time) :
           vector_priced_at(p, v.start_time)
    /\ nav_adjustment(vectors, v) \in (-I64_MAX - 1)..I64_MAX

\* get_apy::calculate_apy_from_apr returns: the growth of a year, less the
\* principal and in the scale of an APR, fits.
apy_returns(apr) ==
    LET growth == pow_fixed(daily_factor(apr), DAYS_IN_YEAR, INT_SCALE)
    IN  /\ pow_fixed_returns(daily_factor(apr), DAYS_IN_YEAR, INT_SCALE)
        /\ mul_div_round_returns(growth - INT_SCALE, YIELD_SCALE, INT_SCALE)
        /\ Fits(mul_div_round_u128(growth - INT_SCALE, YIELD_SCALE, INT_SCALE))
=============================================================================
