----------------------------- MODULE SellCurve ------------------------------
(***************************************************************************)
(* The price of a Prop AMM sell (prop_amm/pricing.rs, hard_wall_math.rs):  *)
(* the sell pressure of a pair, the dynamic wall it moves, and the haircut *)
(* on the raw redemption value.                                            *)
(*                                                                         *)
(* A pair `p` is a PropAmmPairState: its `config` and its volume tracker.  *)
(* The intermediate products saturate at u128 in the code.  A power that   *)
(* saturates is already a haircut of more than 100% for every peg but 0,   *)
(* so exact products give the same output.                                 *)
(***************************************************************************)
EXTENDS OnreMath

CONSTANTS
    U32_MAX,                 \* largest u32
    HARD_WALL_SCALE,         \* 100% of a utilization or haircut (10^12)
    CURVE_EXPONENT_SCALE,    \* exponent 1 (10_000)
    CURVE_EXPONENT_STEP,     \* granularity of the exponent (1_000)
    CADENCE_WAVE_SCALE,      \* cadence wave height 1 (10_000)
    CADENCE_WAVE_STEP,       \* granularity of the wave height (1_000)
    MAX_CADENCE_WAVE_SCALED, \* cap of the wave height (50_000)
    WALL_SENSITIVITY_SCALE,  \* sensitivity 1 (10_000)
    POW_APPROX_Q_SHIFT,      \* fractional bits of the power approximation (40)
    POW_APPROX_LN2_Q,        \* ln 2 with these bits
    POW_APPROX_LOG2_E_Q,     \* log2 e with these bits
    LOG2_HARD_WALL_SCALE_Q   \* log2 of HARD_WALL_SCALE with these bits

ASSUME CurveAssumption ==
    /\ U32_MAX \in Nat \ {0}
    /\ HARD_WALL_SCALE \in Nat \ {0}
    /\ CURVE_EXPONENT_SCALE \in Nat \ {0}
    /\ CURVE_EXPONENT_STEP \in Nat \ {0}
    /\ CADENCE_WAVE_SCALE \in Nat \ {0}
    /\ CADENCE_WAVE_STEP \in Nat \ {0}
    /\ MAX_CADENCE_WAVE_SCALED \in Nat
    /\ WALL_SENSITIVITY_SCALE \in Nat \ {0}
    /\ POW_APPROX_Q_SHIFT \in Nat
    /\ POW_APPROX_LN2_Q \in Nat
    /\ POW_APPROX_LOG2_E_Q \in Nat
    /\ LOG2_HARD_WALL_SCALE_Q \in Nat

CADENCE_WAVE_EASE == 8
CADENCE_WAVE_CAP_DIVISOR == 3

\* What configure_prop_amm sets.
PairConfig ==
    [enabled : BOOLEAN, curve_peg_haircut_bps : Nat, curve_exponent_scaled : Nat,
     cadence_threshold : Nat, cadence_wave_scaled : Nat, epoch_duration_seconds : U64,
     wall_sensitivity_scaled : Nat, minimum_sell_haircut_onyc : Nat]

\* PropAmmPairState
PairState ==
    [config : PairConfig, curr_sell_value_stable : U64, curr_buy_value_stable : U64,
     prev_net_sell_value_stable : U64, curr_sell_trade_count : 0..U32_MAX,
     epoch_start : Nat]

-----------------------------------------------------------------------------
(* Sell pressure.                                                          *)

\* The net sells of the current epoch: buys relieve them but give no credit.
current_net(p) == saturating_sub(p.curr_sell_value_stable, p.curr_buy_value_stable)

\* The tracker has never run, the clock is before it, or two epochs have gone
\* by since its epoch started.
tracker_expired(p, now) ==
    \/ p.epoch_start = 0
    \/ now < p.epoch_start
    \/ now - p.epoch_start >= 2 * p.config.epoch_duration_seconds

\* The epoch is over.
epoch_over(p, now) == now - p.epoch_start >= p.config.epoch_duration_seconds

\* Mutant: the buys of the epoch are forgotten when it ends.
roll_forgetting_buys(p, now) ==
    LET restarted(prev) ==
            [p EXCEPT !.prev_net_sell_value_stable = prev,
                      !.curr_sell_value_stable = 0, !.curr_buy_value_stable = 0,
                      !.curr_sell_trade_count = 0, !.epoch_start = now]
    IN  IF tracker_expired(p, now) THEN restarted(0)
        ELSE IF epoch_over(p, now) THEN restarted(p.curr_sell_value_stable) ELSE p

\* Mutant: the pressure carried over piles up.
roll_piling_up(p, now) ==
    LET restarted(prev) ==
            [p EXCEPT !.prev_net_sell_value_stable = prev,
                      !.curr_sell_value_stable = 0, !.curr_buy_value_stable = 0,
                      !.curr_sell_trade_count = 0, !.epoch_start = now]
    IN  IF tracker_expired(p, now) THEN restarted(0)
        ELSE IF epoch_over(p, now)
        THEN restarted(p.prev_net_sell_value_stable + current_net(p)) ELSE p

\* roll_prop_amm_volume_tracker: at the first trade after the end of an epoch
\* its net sells become the previous pressure and a new epoch starts now.
roll_prop_amm_volume_tracker(p, now) ==
    LET restarted(prev) ==
            [p EXCEPT !.prev_net_sell_value_stable = prev,
                      !.curr_sell_value_stable = 0, !.curr_buy_value_stable = 0,
                      !.curr_sell_trade_count = 0, !.epoch_start = now]
    IN  IF tracker_expired(p, now) THEN restarted(0)
        ELSE IF epoch_over(p, now) THEN restarted(current_net(p)) ELSE p

\* record_prop_amm_sell
record_prop_amm_sell(p, value, now) ==
    [roll_prop_amm_volume_tracker(p, now) EXCEPT
        !.curr_sell_value_stable = @ + value, !.curr_sell_trade_count = @ + 1]

can_record_sell(p, value, now) ==
    LET rolled == roll_prop_amm_volume_tracker(p, now)
    IN  /\ Fits(rolled.curr_sell_value_stable + value)
        /\ rolled.curr_sell_trade_count < U32_MAX

\* record_prop_amm_buy
record_prop_amm_buy(p, value, now) ==
    [roll_prop_amm_volume_tracker(p, now) EXCEPT !.curr_buy_value_stable = @ + value]

can_record_buy(p, value, now) ==
    Fits(roll_prop_amm_volume_tracker(p, now).curr_buy_value_stable + value)

\* Mutant: the previous pressure fades in instead of out.
preview_fading_in(p, value, now) ==
    LET duration == p.config.epoch_duration_seconds
    IN  IF tracker_expired(p, now) THEN value
        ELSE IF epoch_over(p, now) THEN current_net(p) + value
        ELSE (p.prev_net_sell_value_stable * (now - p.epoch_start)) \div duration
                 + current_net(p) + value

\* preview_effective_sell_volume: the pressure an order of this value would be
\* priced against, its own value included.  The pressure of the previous
\* epoch decays linearly.
preview_effective_sell_volume(p, value, now) ==
    LET duration  == p.config.epoch_duration_seconds
        remaining == duration - (now - p.epoch_start)
    IN  IF tracker_expired(p, now) THEN value
        ELSE IF epoch_over(p, now) THEN current_net(p) + value
        ELSE (p.prev_net_sell_value_stable * remaining) \div duration
                 + current_net(p) + value

\* preview_current_sell_trade_count
preview_current_sell_trade_count(p, now) ==
    IF p.epoch_start = 0 \/ now < p.epoch_start \/ epoch_over(p, now) THEN 0
    ELSE p.curr_sell_trade_count

-----------------------------------------------------------------------------
(* The wall.                                                               *)

\* Mutant: the ratio of pressure and liquidity is upside down.
wall_ratio_swapped(liquidity, volume, sensitivity) ==
    IF volume = 0 THEN liquidity
    ELSE max_of(1, (liquidity * WALL_SENSITIVITY_SCALE)
                       \div (WALL_SENSITIVITY_SCALE + (sensitivity * liquidity) \div volume))

\* dynamic_wall_position, for a positive liquidity: L / (1 + s * V / L).
dynamic_wall_position(liquidity, volume, sensitivity) ==
    IF volume = 0 THEN liquidity
    ELSE max_of(1, (liquidity * WALL_SENSITIVITY_SCALE)
                       \div (WALL_SENSITIVITY_SCALE + (sensitivity * volume) \div liquidity))

\* dynamic_wall_liquidity_at_time (a configured sensitivity is not 0).
dynamic_wall_liquidity(value, liquidity, reserve, p, now) ==
    min_of(dynamic_wall_position(liquidity, preview_effective_sell_volume(p, value, now),
                                 p.config.wall_sensitivity_scaled),
           reserve)

\* hard_wall_reserve_from_tvl
hard_wall_reserve_from_tvl(tvl, targetBps) ==
    (((tvl * targetBps) \div MAX_BASIS_POINTS) * ASSET_UNIT) \div ONYC_UNIT

\* resolve_hard_wall_reserve; without a target the vault is the reserve.
resolve_hard_wall_reserve(tvl, liquidity, targetBps) ==
    IF targetBps = 0 THEN liquidity
    ELSE min_of(liquidity, hard_wall_reserve_from_tvl(tvl, targetBps))

can_resolve_reserve(tvl, targetBps) ==
    targetBps # 0 => LET target == hard_wall_reserve_from_tvl(tvl, targetBps)
                     IN  target > 0 /\ Fits(target)

-----------------------------------------------------------------------------
(* u^e in fixed point.                                                     *)

\* mul_scaled_saturating
mul_scaled(a, b) == (a * b) \div HARD_WALL_SCALE

\* integer_utilization_power_scaled
integer_utilization_power_scaled(u, exponent) ==
    LET power[n \in Nat] == IF n = 0 THEN HARD_WALL_SCALE ELSE mul_scaled(power[n - 1], u)
    IN  power[exponent]

POW_APPROX_Q == 2^POW_APPROX_Q_SHIFT

\* The position of the most significant bit of a positive number.
msb(n) == CHOOSE k \in 0..n : 2^k <= n /\ n < 2^(k + 1)

\* The series of log2_integer_q: ln of a mantissa in [1, 2) up to z^13/13,
\* converted to log2.
log2_mantissa_q(mantissa) ==
    LET z  == ((mantissa - POW_APPROX_Q) * POW_APPROX_Q) \div (mantissa + POW_APPROX_Q)
        z2 == (z * z) \div POW_APPROX_Q
        term[k \in 0..6] == IF k = 0 THEN z ELSE (term[k - 1] * z2) \div POW_APPROX_Q
        sum[k \in 0..6] ==
            IF k = 0 THEN term[0] ELSE sum[k - 1] + term[k] \div (2 * k + 1)
    IN  (sum[6] * 2 * POW_APPROX_LOG2_E_Q) \div POW_APPROX_Q

\* log2_integer_q: the number is shifted to a mantissa in [1, 2).
log2_integer_q(n) ==
    LET shift == msb(n) - POW_APPROX_Q_SHIFT
    IN  msb(n) * POW_APPROX_Q
            + log2_mantissa_q(IF shift >= 0 THEN n \div 2^shift ELSE n * 2^(-shift))

\* Mutant: the shift for a value of 2 and more is lost.
exp2_without_shift(log2) ==
    LET x == ((log2 % POW_APPROX_Q) * POW_APPROX_LN2_Q) \div POW_APPROX_Q
        integer == log2 \div POW_APPROX_Q
        scaled  == ((POW_APPROX_Q + x + (x * x) \div (2 * POW_APPROX_Q)) * HARD_WALL_SCALE)
                       \div POW_APPROX_Q
    IN  IF integer >= 0 THEN scaled ELSE scaled \div 2^(-integer)

\* The series of exp2_hard_wall_scaled_q: ten Taylor terms for the fraction.
exp2_fraction_scaled(fraction) ==
    LET x == (fraction * POW_APPROX_LN2_Q) \div POW_APPROX_Q
        term[k \in 0..10] ==
            IF k = 0 THEN POW_APPROX_Q ELSE ((term[k - 1] * x) \div POW_APPROX_Q) \div k
        sum[k \in 0..10] == IF k = 0 THEN term[0] ELSE sum[k - 1] + term[k]
    IN  (sum[10] * HARD_WALL_SCALE) \div POW_APPROX_Q

\* exp2_hard_wall_scaled_q: a shift for the integer part.
exp2_hard_wall_scaled_q(log2) ==
    LET integer == log2 \div POW_APPROX_Q
        scaled  == exp2_fraction_scaled(log2 % POW_APPROX_Q)
    IN  IF integer >= 0 THEN scaled * 2^integer ELSE scaled \div 2^(-integer)

\* The constant is the code's own logarithm of 100%, so that u^e has no jump
\* there.
ASSUME CalibrationAssumption ==
    LOG2_HARD_WALL_SCALE_Q = log2_integer_q(HARD_WALL_SCALE)

\* The converted constants make neither series overshoot the octave it covers:
\* the greatest mantissa has a logarithm of at most 1, the greatest fraction
\* a power of at most 2.
ASSUME OctaveAssumption ==
    /\ log2_mantissa_q(2 * POW_APPROX_Q - 1) <= POW_APPROX_Q
    /\ exp2_fraction_scaled(POW_APPROX_Q - 1) <= 2 * HARD_WALL_SCALE

\* i128::checked_div, which rounds towards 0.
truncated_div(n, d) == IF n >= 0 THEN n \div d ELSE -((-n) \div d)

\* utilization_power_scaled, for a configured exponent.
utilization_power_scaled(u, exponent) ==
    IF u = 0 THEN 0
    ELSE IF u = HARD_WALL_SCALE THEN HARD_WALL_SCALE
    ELSE IF exponent % CURVE_EXPONENT_SCALE = 0
         THEN integer_utilization_power_scaled(u, exponent \div CURVE_EXPONENT_SCALE)
    ELSE exp2_hard_wall_scaled_q(
             truncated_div((log2_integer_q(u) - LOG2_HARD_WALL_SCALE_Q) * exponent,
                           CURVE_EXPONENT_SCALE))

-----------------------------------------------------------------------------
(* The haircut.                                                            *)

\* redemption_haircut_scaled with bps_to_hard_wall_scale.
redemption_haircut_scaled(u, pegBps, exponent) ==
    LET peg == (HARD_WALL_SCALE * pegBps) \div MAX_BASIS_POINTS
    IN  IF peg = 0 THEN 0 ELSE mul_scaled(peg, utilization_power_scaled(u, exponent))

\* cadence_wave_y_for_quote_scaled: the wave rises with the sells recorded in
\* the epoch, up to the threshold.
cadence_wave_y_for_quote_scaled(p, now) ==
    LET count     == preview_current_sell_trade_count(p, now)
        threshold == p.config.cadence_threshold
        ramp      == IF count >= threshold THEN CADENCE_WAVE_SCALE
                     ELSE (count * CADENCE_WAVE_SCALE) \div threshold
    IN  (p.config.cadence_wave_scaled * ramp) \div CADENCE_WAVE_SCALE

\* cadence_wave_target_haircut_scaled: 8x / (8x + 1 - x) of a third of the wave.
cadence_wave_target_haircut_scaled(u, waveY) ==
    LET x     == min_of(u, HARD_WALL_SCALE)
        eased == x * CADENCE_WAVE_EASE
        rise  == (eased * HARD_WALL_SCALE) \div (eased + HARD_WALL_SCALE - x)
    IN  min_of((rise * waveY) \div (CADENCE_WAVE_SCALE * CADENCE_WAVE_CAP_DIVISOR),
               HARD_WALL_SCALE)

\* The haircut of apply_hard_wall_liquidity_factor_at_time: the greater of
\* the curve's and the cadence's.
sell_haircut(raw, liquidity, reserve, p, now) ==
    LET effective == dynamic_wall_liquidity(raw, liquidity, reserve, p, now)
        u         == (raw * HARD_WALL_SCALE) \div effective
    IN  max_of(redemption_haircut_scaled(u, p.config.curve_peg_haircut_bps,
                                         p.config.curve_exponent_scaled),
               cadence_wave_target_haircut_scaled(u, cadence_wave_y_for_quote_scaled(p, now)))

\* apply_hard_wall_liquidity_factor_at_time: what a sell of this raw value
\* pays.
apply_hard_wall_liquidity_factor(raw, liquidity, reserve, p, now) ==
    (raw * saturating_sub(HARD_WALL_SCALE, sell_haircut(raw, liquidity, reserve, p, now)))
        \div HARD_WALL_SCALE

\* It returns: the vault, not the wall, is the solvency bound.
can_apply_hard_wall(raw, liquidity, reserve, p, now) ==
    /\ liquidity > 0 /\ reserve > 0
    /\ raw <= liquidity
    /\ Fits(preview_effective_sell_volume(p, raw, now))
=============================================================================
