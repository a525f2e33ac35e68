---------------------------- MODULE SellPricing -----------------------------
(***************************************************************************)
(* What the Prop AMM's sell curve (SellCurve) promises, over orders of any *)
(* size against any vault and any pressure.  A state is one order with the *)
(* market it meets; a step is the next order.                              *)
(***************************************************************************)
EXTENDS SellCurve

CONSTANTS
    RawArgs,        \* raw redemption values, not 0
    LiquidityArgs,  \* vault balances, not 0
    PressureArgs,   \* net sells of the current epoch
    CountArgs,      \* sells of the current epoch
    ExponentArgs,   \* curve exponents
    WaveArgs,       \* cadence wave heights
    PegArgs         \* peg haircuts

ASSUME OrderAssumption ==
    /\ RawArgs \subseteq U64 \ {0}
    /\ LiquidityArgs \subseteq U64 \ {0}
    /\ PressureArgs \subseteq U64
    /\ CountArgs \subseteq 0..U32_MAX
    /\ ExponentArgs \subseteq Nat \ {0}
    /\ WaveArgs \subseteq 0..MAX_CADENCE_WAVE_SCALED
    /\ PegArgs \subseteq 0..MAX_BASIS_POINTS

VARIABLE order

Orders ==
    [raw : RawArgs, liquidity : LiquidityArgs, reserve : LiquidityArgs,
     pressure : PressureArgs, count : CountArgs, exponent : ExponentArgs,
     wave : WaveArgs, peg : PegArgs]

PricingInit == order \in Orders

PricingNext ==
    \E raw \in RawArgs : raw # order.raw /\ order' = [order EXCEPT !.raw = raw]

PricingSpec == PricingInit /\ [][PricingNext]_order

\* A pair with this pressure and this many sells in an epoch that starts now.
pair(pressure, count) ==
    [config |-> [enabled |-> TRUE, curve_peg_haircut_bps |-> order.peg,
                 curve_exponent_scaled |-> order.exponent, cadence_threshold |-> 2,
                 cadence_wave_scaled |-> order.wave, epoch_duration_seconds |-> 1,
                 wall_sensitivity_scaled |-> 2 * WALL_SENSITIVITY_SCALE,
                 minimum_sell_haircut_onyc |-> 0],
     curr_sell_value_stable |-> pressure, curr_buy_value_stable |-> 0,
     prev_net_sell_value_stable |-> 0, curr_sell_trade_count |-> count,
     epoch_start |-> 1]

\* What the order pays against this vault, under this pressure.
output(liquidity, pressure, count) ==
    apply_hard_wall_liquidity_factor(order.raw, liquidity,
        min_of(liquidity, order.reserve), pair(pressure, count), 1)

-----------------------------------------------------------------------------
\* Under more sell pressure, or after more sells in the epoch, the same order
\* is never paid more: no rounding of the wall, the utilization, the power or
\* the wave works against the order of the market's states
\* (dynamic_wall_position, cadence_wave_y_for_quote_scaled).
PressureNeverPays ==
    order.raw <= order.liquidity =>
        \A pressure \in PressureArgs, count \in CountArgs :
            pressure >= order.pressure /\ count >= order.count =>
                output(order.liquidity, pressure, count)
                    <= output(order.liquidity, order.pressure, order.count)

\* A fuller vault never pays less for the same order: a deposit or refill of
\* the redemption vault cannot hurt a seller whose order is pending.
LiquidityNeverHurts ==
    order.raw <= order.liquidity =>
        \A more \in LiquidityArgs :
            more >= order.liquidity =>
                output(more, order.pressure, order.count)
                    >= output(order.liquidity, order.pressure, order.count)

\* The approximated u^e rises with u, also across the powers of two where the
\* logarithm's series restarts and where u passes 100% (log2_integer_q,
\* exp2_hard_wall_scaled_q): a larger order never escapes its haircut.
PowerIsMonotone ==
    LET u == (order.raw * HARD_WALL_SCALE) \div order.liquidity
    IN  /\ \A more \in {u + 1} \union
                     {(order.raw * HARD_WALL_SCALE) \div l : l \in LiquidityArgs} :
               u <= more => utilization_power_scaled(u, order.exponent)
                                <= utilization_power_scaled(more, order.exponent)
        /\ u >= HARD_WALL_SCALE =>
               utilization_power_scaled(u, order.exponent) >= HARD_WALL_SCALE
        /\ u <= HARD_WALL_SCALE =>
               utilization_power_scaled(u, order.exponent) <= HARD_WALL_SCALE
=============================================================================
