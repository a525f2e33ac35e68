-------------------------- MODULE ArithmeticProofs --------------------------
(***************************************************************************)
(* The promises of Arithmetic, SellPricing and VectorPrices, proved for    *)
(* every scale, amount, price, rate, time and market: TLC checks them on a *)
(* few hundred arguments and small scales.                                 *)
(***************************************************************************)
EXTENDS Arithmetic, SellPricing, VectorPrices, OnreMathProofs

\* The arguments of a call keep their types.
LEMMA ArgumentsTyped == ArithmeticSpec => [](args \in Arguments)
<1>1. ArithmeticInit => args \in Arguments
  BY DEF ArithmeticInit
<1>2. args \in Arguments /\ [ArithmeticNext]_args => (args \in Arguments)'
  BY DEF ArithmeticNext, Arguments
<1>3. QED
  BY <1>1, <1>2, PTL DEF ArithmeticSpec

\* The arguments and what is known of them.
LEMMA ArgumentBounds ==
    ASSUME args \in Arguments
    PROVE  /\ args.amount \in Nat /\ args.adjustment \in Nat
           /\ args.price \in Nat \ {0}
           /\ args.rate \in Nat /\ args.current_rate \in Nat /\ args.seconds \in Nat
           /\ args.fee \in 0..MAX_BASIS_POINTS /\ args.perf \in 0..MAX_BASIS_POINTS
  BY ArgumentAssumption DEF Arguments

\* Buying and redeeming at one price never returns more than was paid,
\* whatever the decimals of the two mints, the price and the fee.
THEOREM RoundTripIsSafe == ArithmeticSpec => []RoundTripNeverProfits
<1>1. ASSUME args \in Arguments PROVE RoundTripNeverProfits
  <2> DEFINE paid    == calculate_fees(args.amount, args.fee).net
             inUnit  == args.price * ASSET_UNIT
             outUnit == ONYC_UNIT * PRICE_SCALE
             bought  == calculate_token_out_amount(paid, args.price)
             sold    == calculate_fees(bought, args.fee).net
  <2>1. args.amount \in Nat /\ args.fee \in 0..MAX_BASIS_POINTS
        /\ args.price \in Nat \ {0}
    BY <1>1, ArgumentBounds
  <2>2. inUnit \in Nat \ {0} /\ outUnit \in Nat \ {0}
    BY <2>1, ScaleAssumption
  <2>3. paid \in Nat /\ paid <= args.amount
    BY <2>1, FeesSplit
  <2>4. bought = (paid * outUnit) \div inUnit
    BY <2>3, ScaleAssumption DEF calculate_token_out_amount
  <2>5. paid * outUnit \in Nat
    BY <2>2, <2>3, NatProduct
  <2>6. bought \in Nat /\ bought * inUnit <= paid * outUnit
    BY <2>2, <2>4, <2>5, Division, QuotientNat
  <2>7. paid * outUnit <= args.amount * outUnit
    BY <2>1, <2>2, <2>3, ProductMonotone
  <2>8. sold \in Nat /\ sold <= bought
    BY <2>1, <2>6, FeesSplit
  <2>9. sold * inUnit <= bought * inUnit
    BY <2>2, <2>6, <2>8, ProductMonotone
  <2>10. redemption_token_out(sold, args.price) = (sold * inUnit) \div outUnit
    BY <2>1, <2>8, ScaleAssumption DEF redemption_token_out
  <2> HIDE DEF paid, inUnit, outUnit, bought, sold
  <2>11. sold * inUnit \in Int /\ bought * inUnit \in Int /\ paid * outUnit \in Int
         /\ args.amount * outUnit \in Int
    BY <2>1, <2>2, <2>3, <2>6, <2>8
  <2>12. sold * inUnit <= args.amount * outUnit
    BY <2>6, <2>7, <2>9, <2>11
  <2>13. (sold * inUnit) \div outUnit <= args.amount
    BY <2>1, <2>2, <2>11, <2>12, QuotientAtMost
  <2>14. QED
    BY <2>10, <2>13 DEF RoundTripNeverProfits, sold, bought, paid
<1>2. QED
  BY <1>1, ArgumentsTyped, PTL

\* The gross accrual is exactly the yield between the two APRs, rounded down,
\* for every supply, APR and interval.
THEOREM AccrualIsExact == ArithmeticSpec => []AccrualIsTheGrossYield
<1>1. ASSUME args \in Arguments, args.rate >= args.current_rate
      PROVE  LET year   == SECONDS_PER_YEAR * YIELD_SCALE
                 minted == calculate_gross_buffer_accrual(args.amount, args.rate,
                               args.current_rate, args.seconds)
                 grown  == year + args.current_rate * args.seconds
                 limit  == args.amount * (year + args.rate * args.seconds)
             IN  /\ (args.amount + minted) * grown <= limit
                 /\ (args.amount + minted + 1) * grown > limit
  <2> DEFINE A == args.amount
             r == args.rate
             c == args.current_rate
             s == args.seconds
             Y == SECONDS_PER_YEAR * YIELD_SCALE
             g == Y + c * s
             due == A * (r - c) * s
             m == calculate_gross_buffer_accrual(A, r, c, s)
  <2>1. A \in Nat /\ r \in Nat /\ c \in Nat /\ s \in Nat /\ r >= c
    BY <1>1, ArgumentBounds
  <2>2. Y \in Nat \ {0}
    BY ScaleAssumption
  <2>3. c * s \in Nat
    BY <2>1, NatProduct
  <2>4. g \in Nat \ {0}
    BY <2>2, <2>3
  <2>5. saturating_sub(r, c) = r - c
    BY <2>1 DEF saturating_sub
  <2>6. m = due \div g
    BY <2>5 DEF calculate_gross_buffer_accrual
  <2>7. due \in Int
    BY <2>1
  <2>8. m \in Int /\ m * g <= due /\ due < m * g + g
    BY <2>4, <2>6, <2>7, Division
  <2>9. A * (Y + r * s) = A * g + due
    BY <2>1, <2>2
  <2> HIDE DEF m, g, due
  <2>10. (A + m) * g = A * g + m * g /\ (A + m + 1) * g = A * g + m * g + g
    BY <2>1, <2>4, <2>8
  <2>11. A * g \in Int /\ m * g \in Int
    BY <2>1, <2>4, <2>8
  <2>12. (A + m) * g <= A * (Y + r * s) /\ (A + m + 1) * g > A * (Y + r * s)
    BY <2>4, <2>7, <2>8, <2>9, <2>10, <2>11
  <2>13. QED
    BY <2>12 DEF m, g
<1>2. args \in Arguments => AccrualIsTheGrossYield
  BY <1>1 DEF AccrualIsTheGrossYield
<1>3. QED
  BY <1>2, ArgumentsTyped, PTL

\* The three parts of an accrual always add up to it and none is negative, for
\* every pair of fees and with the performance fee due or not.
THEOREM SplitIsSound == ArithmeticSpec => []SplitIsConserved
<1>1. ASSUME args \in Arguments, NEW watermark \in PriceArgs, NEW hwmEnabled \in BOOLEAN,
             NEW delta, delta = saturating_sub(args.rate, args.current_rate),
             NEW split, split = calculate_buffer_fee_split(args.amount, delta, args.fee,
                                    args.perf, args.price, watermark, hwmEnabled)
      PROVE  /\ split.mgmt >= 0 /\ split.perf >= 0 /\ split.reserve >= 0
             /\ split.mgmt + split.perf + split.reserve = args.amount
  <2> DEFINE gross == args.amount
             apr   == min_of(args.fee * BASIS_POINT_TO_YIELD_SCALE, delta)
             mgmt  == IF delta = 0 \/ gross = 0 THEN 0 ELSE (gross * apr) \div delta
             due   == performance_fee_due(args.price, watermark, hwmEnabled)
             perf  == IF due THEN ((gross - mgmt) * args.perf) \div MAX_BASIS_POINTS
                      ELSE 0
  <2>1. /\ gross \in Nat /\ delta \in Nat
        /\ args.fee \in Nat /\ args.perf \in Nat /\ args.perf <= MAX_BASIS_POINTS
        /\ MAX_BASIS_POINTS \in Nat \ {0}
    BY <1>1, ArgumentBounds, ScaleAssumption DEF saturating_sub
  <2>2. apr \in Nat /\ apr <= delta
    <3>1. BASIS_POINT_TO_YIELD_SCALE \in Nat
      BY ScaleAssumption, QuotientNat DEF BASIS_POINT_TO_YIELD_SCALE
    <3>2. args.fee * BASIS_POINT_TO_YIELD_SCALE \in Nat
      BY <2>1, <3>1, NatProduct
    <3>3. QED
      BY <2>1, <3>2 DEF min_of
  <2> HIDE DEF apr
  <2>3. mgmt \in Nat /\ mgmt <= gross
    BY <2>1, <2>2, ShareOfAmount
  <2>4. split.mgmt = mgmt /\ split.perf = perf /\ split.reserve = gross - mgmt - perf
    BY <1>1 DEF calculate_buffer_fee_split, apr
  <2> HIDE DEF mgmt, due
  <2>5. gross - mgmt \in Nat
    BY <2>1, <2>3
  <2>6. perf \in Nat /\ perf <= gross - mgmt
    BY <2>1, <2>5, ShareOfAmount
  <2> HIDE DEF perf
  <2>7. QED
    BY <2>1, <2>3, <2>4, <2>6
<1>2. args \in Arguments => SplitIsConserved
  BY <1>1 DEF SplitIsConserved
<1>3. QED
  BY <1>2, ArgumentsTyped, PTL

\* The NAV burn leaves the smallest supply that is worth the written-down
\* value at the quoted NAV, for every supply, NAV and adjustment.
THEOREM BurnIsExact == ArithmeticSpec => []BurnLeavesExactlyEnough
<1>1. ASSUME args \in Arguments,
             NEW tvl, tvl = calculate_tvl(args.amount, args.price),
             NEW left, left = args.amount
                 - calculate_burn_amount(args.amount, tvl, args.adjustment, args.price)
      PROVE  /\ left * args.price >= (tvl - args.adjustment) * PRICE_SCALE
             /\ (left - 1) * args.price < (tvl - args.adjustment) * PRICE_SCALE
  <2> DEFINE value == (tvl - args.adjustment) * PRICE_SCALE
             kept  == ceil_div_u128(value, args.price)
  <2>1. args.amount \in Nat /\ args.price \in Nat \ {0} /\ args.adjustment \in Nat
    BY <1>1, ArgumentBounds
  <2>2. args.amount * args.price \in Nat
    BY <2>1, NatProduct
  <2>3. tvl \in Nat
    BY <1>1, <2>2, ScaleAssumption, QuotientNat DEF calculate_tvl
  <2>4. value \in Int
    BY <2>1, <2>3, ScaleAssumption
  <2>5. kept \in Int /\ value <= kept * args.price /\ (kept - 1) * args.price < value
    <3> HIDE DEF value
    <3>1. QED
      BY <2>1, <2>4, CeilDiv
  <2> HIDE DEF kept
  <2>6. left = kept
    <3>1. calculate_burn_amount(args.amount, tvl, args.adjustment, args.price)
              = args.amount - kept
      BY DEF calculate_burn_amount, kept
    <3>2. QED
      BY <1>1, <2>1, <2>5, <3>1
  <2>7. QED
    BY <2>1, <2>4, <2>5, <2>6
<1>2. args \in Arguments => BurnLeavesExactlyEnough
  BY <1>1 DEF BurnLeavesExactlyEnough
<1>3. QED
  BY <1>2, ArgumentsTyped, PTL

-----------------------------------------------------------------------------
(* What a sell pays.                                                      *)

\* Waiting never hurts a seller: with the pair, the value and the liquidity
\* unchanged, a later quote pays no less than an earlier one, across the end
\* of an epoch and the expiry of the tracker too.  The volume that
\* preview_effective_sell_volume reads and the trade count only fall with
\* time, and apply_hard_wall_liquidity_factor pays no less for less of both.
THEOREM WaitingNeverHurts ==
    ASSUME NEW raw \in Nat, NEW liquidity \in Nat \ {0}, NEW reserve \in Nat \ {0},
           NEW p \in PairState, NEW t \in Nat, NEW later \in Nat,
           p.epoch_start <= t, t <= later
    PROVE  apply_hard_wall_liquidity_factor(raw, liquidity, reserve, p, t)
             <= apply_hard_wall_liquidity_factor(raw, liquidity, reserve, p, later)
<1>1. /\ preview_effective_sell_volume(p, raw, later) \in Nat
      /\ preview_effective_sell_volume(p, raw, t) \in Nat
      /\ preview_current_sell_trade_count(p, later) \in Nat
      /\ preview_current_sell_trade_count(p, t) \in Nat
  BY PressureTyped
<1>2. /\ preview_effective_sell_volume(p, raw, later) <= preview_effective_sell_volume(p, raw, t)
      /\ preview_current_sell_trade_count(p, later) <= preview_current_sell_trade_count(p, t)
  BY WaitingRelieves
<1>3. liquidity <= liquidity /\ reserve <= reserve /\ p.config = p.config
  OBVIOUS
<1>4. QED
  BY <1>1, <1>2, <1>3, PayoutMonotone

\* A recorded trade moves the price the way it should: after
\* record_prop_amm_sell the same sell pays no more at that moment than before,
\* after record_prop_amm_buy no less, whether or not the record first rolled
\* the tracker into a new epoch.
THEOREM TradesMovePayouts ==
    ASSUME NEW raw \in Nat, NEW liquidity \in Nat \ {0}, NEW reserve \in Nat \ {0},
           NEW p \in PairState, NEW t \in Nat \ {0}, NEW traded \in Nat
    PROVE  /\ can_record_sell(p, traded, t) =>
                apply_hard_wall_liquidity_factor(raw, liquidity, reserve,
                        record_prop_amm_sell(p, traded, t), t)
                  <= apply_hard_wall_liquidity_factor(raw, liquidity, reserve, p, t)
           /\ can_record_buy(p, traded, t) =>
                apply_hard_wall_liquidity_factor(raw, liquidity, reserve, p, t)
                  <= apply_hard_wall_liquidity_factor(raw, liquidity, reserve,
                         record_prop_amm_buy(p, traded, t), t)
<1>1. \A q \in PairState : /\ preview_effective_sell_volume(q, raw, t) \in Nat
                           /\ preview_current_sell_trade_count(q, t) \in Nat
  BY PressureTyped
<1>2. liquidity <= liquidity /\ reserve <= reserve
  OBVIOUS
<1>3. ASSUME NEW a \in PairState, NEW b \in PairState, a.config = b.config,
             preview_effective_sell_volume(b, raw, t) <= preview_effective_sell_volume(a, raw, t),
             preview_current_sell_trade_count(b, t) <= preview_current_sell_trade_count(a, t)
      PROVE  apply_hard_wall_liquidity_factor(raw, liquidity, reserve, a, t)
               <= apply_hard_wall_liquidity_factor(raw, liquidity, reserve, b, t)
  BY <1>1, <1>2, <1>3, PayoutMonotone
<1>4. ASSUME can_record_sell(p, traded, t)
      PROVE  apply_hard_wall_liquidity_factor(raw, liquidity, reserve,
                     record_prop_amm_sell(p, traded, t), t)
               <= apply_hard_wall_liquidity_factor(raw, liquidity, reserve, p, t)
  <2> DEFINE r == record_prop_amm_sell(p, traded, t)
  <2>1. /\ r \in PairState /\ r.config = p.config
        /\ preview_effective_sell_volume(p, raw, t) <= preview_effective_sell_volume(r, raw, t)
        /\ preview_current_sell_trade_count(p, t) <= preview_current_sell_trade_count(r, t)
    BY <1>4, TradesMovePressure
  <2> HIDE DEF r
  <2>2. apply_hard_wall_liquidity_factor(raw, liquidity, reserve, r, t)
          <= apply_hard_wall_liquidity_factor(raw, liquidity, reserve, p, t)
    BY <1>3, <2>1
  <2>3. QED
    BY <2>2 DEF r
<1>5. ASSUME can_record_buy(p, traded, t)
      PROVE  apply_hard_wall_liquidity_factor(raw, liquidity, reserve, p, t)
               <= apply_hard_wall_liquidity_factor(raw, liquidity, reserve,
                      record_prop_amm_buy(p, traded, t), t)
  <2> DEFINE r == record_prop_amm_buy(p, traded, t)
  <2>1. /\ r \in PairState /\ r.config = p.config
        /\ preview_effective_sell_volume(r, raw, t) <= preview_effective_sell_volume(p, raw, t)
        /\ preview_current_sell_trade_count(r, t) <= preview_current_sell_trade_count(p, t)
    BY <1>5, TradesMovePressure
  <2> HIDE DEF r
  <2>2. apply_hard_wall_liquidity_factor(raw, liquidity, reserve, p, t)
          <= apply_hard_wall_liquidity_factor(raw, liquidity, reserve, r, t)
    BY <1>3, <2>1
  <2>3. QED
    BY <2>2 DEF r
<1>6. QED
  BY <1>4, <1>5

-----------------------------------------------------------------------------
\* The market and the order are ones the model asks about.
OrderTyped == order \in Orders

\* An order keeps its type.
LEMMA OrdersTyped == PricingSpec => []OrderTyped
<1>1. PricingInit => OrderTyped
  BY DEF PricingInit, OrderTyped
<1>2. OrderTyped /\ [PricingNext]_order => OrderTyped'
  <2>1. ASSUME OrderTyped, NEW raw \in RawArgs, order' = [order EXCEPT !.raw = raw]
        PROVE  OrderTyped'
    BY <2>1 DEF OrderTyped, Orders
  <2>2. ASSUME OrderTyped, UNCHANGED order PROVE OrderTyped'
    BY <2>2 DEF OrderTyped
  <2>3. QED
    BY <2>1, <2>2 DEF PricingNext
<1>3. QED
  BY <1>1, <1>2, PTL DEF PricingSpec

\* The market an order meets.
LEMMA OrderParts ==
    ASSUME OrderTyped
    PROVE  /\ order.raw \in RawArgs /\ order.liquidity \in LiquidityArgs
           /\ order.reserve \in LiquidityArgs /\ order.pressure \in PressureArgs
           /\ order.count \in CountArgs
           /\ order.raw \in Nat \ {0} /\ order.liquidity \in Nat \ {0}
           /\ order.reserve \in Nat \ {0} /\ order.exponent \in Nat
           /\ order.wave \in Nat /\ order.peg \in Nat
<1>1. /\ order.raw \in RawArgs /\ order.liquidity \in LiquidityArgs
      /\ order.reserve \in LiquidityArgs /\ order.pressure \in PressureArgs
      /\ order.count \in CountArgs /\ order.exponent \in ExponentArgs
      /\ order.wave \in WaveArgs /\ order.peg \in PegArgs
  BY DEF OrderTyped, Orders
<1>2. /\ RawArgs \subseteq Nat \ {0} /\ LiquidityArgs \subseteq Nat \ {0}
      /\ ExponentArgs \subseteq Nat /\ WaveArgs \subseteq Nat /\ PegArgs \subseteq Nat
  BY OrderAssumption, ScaleAssumption, CurveAssumption DEF U64
<1>3. QED
  BY <1>1, <1>2

\* The pair of the market, and the pressure a quote sees.
LEMMA PairOfOrder ==
    ASSUME OrderTyped, NEW pressure \in PressureArgs, NEW count \in CountArgs
    PROVE  /\ pair(pressure, count) \in PairState
           /\ preview_effective_sell_volume(pair(pressure, count), order.raw, 1)
                = pressure + order.raw
           /\ preview_current_sell_trade_count(pair(pressure, count), 1) = count
           /\ pressure \in Nat /\ count \in Nat
<1> DEFINE p == pair(pressure, count)
<1>1. /\ order.exponent \in Nat /\ order.wave \in Nat /\ order.peg \in Nat
      /\ order.raw \in Nat
  BY OrderParts
<1>2. /\ pressure \in U64 /\ count \in 0..U32_MAX /\ pressure \in Nat /\ count \in Nat
      /\ 0 \in U64 /\ 1 \in U64 /\ 2 * WALL_SENSITIVITY_SCALE \in Nat
  BY OrderAssumption, ScaleAssumption, CurveAssumption DEF U64
<1>3. p \in PairState
  BY <1>1, <1>2 DEF pair, PairState, PairConfig
<1>4. /\ p.config.epoch_duration_seconds = 1 /\ p.epoch_start = 1
      /\ p.prev_net_sell_value_stable = 0 /\ p.curr_sell_value_stable = pressure
      /\ p.curr_buy_value_stable = 0 /\ p.curr_sell_trade_count = count
  BY DEF pair
<1> HIDE DEF p
<1>5. ~tracker_expired(p, 1) /\ ~epoch_over(p, 1)
  BY <1>4 DEF tracker_expired, epoch_over
<1>6. current_net(p) = pressure
  BY <1>2, <1>4 DEF current_net, saturating_sub
<1>7. Carried(p, 1) = 0
  BY <1>4 DEF Carried
<1>8. preview_effective_sell_volume(p, order.raw, 1) = 0 + pressure + order.raw
  BY <1>5, <1>6, <1>7, VolumeIs
<1>9. preview_current_sell_trade_count(p, 1) = count
  BY <1>4, <1>5 DEF preview_current_sell_trade_count
<1>10. QED
  BY <1>1, <1>2, <1>3, <1>8, <1>9 DEF p

\* More liquidity, less pressure and fewer sells never pay an order less.
LEMMA OutputMonotone ==
    ASSUME OrderTyped, NEW liquidity \in LiquidityArgs, NEW more \in LiquidityArgs,
           liquidity <= more, NEW pressure \in PressureArgs, NEW less \in PressureArgs,
           less <= pressure, NEW count \in CountArgs, NEW fewer \in CountArgs, fewer <= count
    PROVE  output(liquidity, pressure, count) <= output(more, less, fewer)
<1> DEFINE p == pair(pressure, count)
           q == pair(less, fewer)
           r == min_of(liquidity, order.reserve)
           s == min_of(more, order.reserve)
<1>1. /\ p \in PairState /\ preview_effective_sell_volume(p, order.raw, 1) = pressure + order.raw
      /\ preview_current_sell_trade_count(p, 1) = count /\ pressure \in Nat /\ count \in Nat
  BY PairOfOrder
<1>2. /\ q \in PairState /\ preview_effective_sell_volume(q, order.raw, 1) = less + order.raw
      /\ preview_current_sell_trade_count(q, 1) = fewer /\ less \in Nat /\ fewer \in Nat
  BY PairOfOrder
<1>3. p.config = q.config
  BY DEF pair
<1>4. /\ liquidity \in Nat \ {0} /\ more \in Nat \ {0} /\ order.reserve \in Nat \ {0}
      /\ order.raw \in Nat
  BY OrderParts, OrderAssumption, ScaleAssumption DEF U64
<1>5. r \in Nat \ {0} /\ s \in Nat \ {0} /\ r <= s
  BY <1>4 DEF min_of
<1>6. /\ output(liquidity, pressure, count)
           = apply_hard_wall_liquidity_factor(order.raw, liquidity, r, p, 1)
      /\ output(more, less, fewer)
           = apply_hard_wall_liquidity_factor(order.raw, more, s, q, 1)
  BY DEF output
<1> HIDE DEF p, q, r, s
<1>7. /\ pressure + order.raw \in Nat /\ less + order.raw \in Nat
      /\ less + order.raw <= pressure + order.raw
  BY <1>1, <1>2, <1>4
<1>8. apply_hard_wall_liquidity_factor(order.raw, liquidity, r, p, 1)
        <= apply_hard_wall_liquidity_factor(order.raw, more, s, q, 1)
  BY <1>1, <1>2, <1>3, <1>4, <1>5, <1>7, PayoutMonotone
<1>9. QED
  BY <1>6, <1>8

\* PressureNeverPays for every scale and every set of orders that the
\* assumptions allow: more net sells and more trades in the epoch never make
\* apply_hard_wall_liquidity_factor pay more.
THEOREM PressureNeverPaysMore == PricingSpec => []PressureNeverPays
<1>1. ASSUME OrderTyped PROVE PressureNeverPays
  <2>1. /\ order.liquidity \in LiquidityArgs /\ order.liquidity \in Nat
        /\ order.pressure \in PressureArgs /\ order.count \in CountArgs
    BY <1>1, OrderParts
  <2>2. ASSUME NEW pressure \in PressureArgs, NEW count \in CountArgs,
               pressure >= order.pressure, count >= order.count
        PROVE  output(order.liquidity, pressure, count)
                 <= output(order.liquidity, order.pressure, order.count)
    <3>1. /\ order.liquidity <= order.liquidity
          /\ order.pressure <= pressure /\ order.count <= count
      BY <2>1, <2>2
    <3>2. QED
      BY <1>1, <2>1, <3>1, OutputMonotone
  <2>3. QED
    BY <2>2 DEF PressureNeverPays
<1>2. QED
  BY <1>1, OrdersTyped, PTL

\* LiquidityNeverHurts likewise: a fuller redemption vault never makes the same
\* sell pay less, though the rounding of the curve, of the wall and of the
\* wave all change with it.
THEOREM LiquidityNeverHurtsSeller == PricingSpec => []LiquidityNeverHurts
<1>1. ASSUME OrderTyped PROVE LiquidityNeverHurts
  <2>1. /\ order.liquidity \in LiquidityArgs
        /\ order.pressure \in PressureArgs /\ order.count \in CountArgs
    BY <1>1, OrderParts
  <2>2. ASSUME NEW more \in LiquidityArgs, more >= order.liquidity
        PROVE  output(more, order.pressure, order.count)
                 >= output(order.liquidity, order.pressure, order.count)
    <3>1. order.pressure \in Nat /\ order.count \in Nat
      BY <1>1, <2>1, PairOfOrder
    <3>2. /\ order.liquidity <= more
          /\ order.pressure <= order.pressure /\ order.count <= order.count
      BY <2>2, <3>1
    <3>3. output(order.liquidity, order.pressure, order.count)
            <= output(more, order.pressure, order.count)
      BY <1>1, <2>1, <3>2, OutputMonotone
    <3>4. QED
      BY <3>3
  <2>3. QED
    BY <2>2 DEF LiquidityNeverHurts
<1>2. QED
  BY <1>1, OrdersTyped, PTL

\* PowerIsMonotone likewise: utilization_power_scaled grows with the
\* utilization through every change of octave in its logarithm and its
\* exponential, and is on the same side of 100% as the utilization.
THEOREM PowerRisesWithUtilization == PricingSpec => []PowerIsMonotone
<1>1. ASSUME OrderTyped PROVE PowerIsMonotone
  <2> DEFINE H == HARD_WALL_SCALE
             e == order.exponent
             u == (order.raw * H) \div order.liquidity
             M == {u + 1} \union {(order.raw * H) \div l : l \in LiquidityArgs}
  <2>1. H \in Nat \ {0} /\ order.raw \in Nat /\ order.liquidity \in Nat \ {0} /\ e \in Nat
    BY <1>1, OrderParts, CurveAssumption
  <2>2. ASSUME NEW l \in LiquidityArgs PROVE (order.raw * H) \div l \in Nat
    <3>1. l \in Nat \ {0}
      BY OrderAssumption, ScaleAssumption DEF U64
    <3>2. QED
      BY <2>1, <3>1, NatProduct, QuotientNat
  <2>3. u \in Nat
    BY <2>1, NatProduct, QuotientNat
  <2>4. M \subseteq Nat
    <3> HIDE DEF u
    <3>1. QED
      BY <2>2, <2>3
  <2>5. PowerIsMonotone
          <=> /\ \A more \in M : u <= more => utilization_power_scaled(u, e)
                                                <= utilization_power_scaled(more, e)
              /\ u >= H => utilization_power_scaled(u, e) >= H
              /\ u <= H => utilization_power_scaled(u, e) <= H
    BY DEF PowerIsMonotone
  <2> HIDE DEF u, M, H, e
  <2>6. \A more \in M : u <= more => utilization_power_scaled(u, e)
                                       <= utilization_power_scaled(more, e)
    BY <2>1, <2>3, <2>4, PowerMonotoneInU
  <2>7. utilization_power_scaled(H, e) = H
    BY <2>1 DEF utilization_power_scaled, H
  <2>8. ASSUME u >= H PROVE utilization_power_scaled(u, e) >= H
    <3>1. H <= u
      BY <2>1, <2>3, <2>8
    <3>2. utilization_power_scaled(H, e) <= utilization_power_scaled(u, e)
      BY <2>1, <2>3, <3>1, PowerMonotoneInU
    <3>3. QED
      BY <2>7, <3>2
  <2>9. ASSUME u <= H PROVE utilization_power_scaled(u, e) <= H
    <3>1. utilization_power_scaled(u, e) <= utilization_power_scaled(H, e)
      BY <2>1, <2>3, <2>9, PowerMonotoneInU
    <3>2. QED
      BY <2>7, <3>1
  <2>10. QED
    BY <2>5, <2>6, <2>8, <2>9
<1>2. QED
  BY <1>1, OrdersTyped, PTL

-----------------------------------------------------------------------------
(* Exact powers.                                                           *)

\* power, one factor at a time.
LEMMA PowerIs ==
    ASSUME NEW b \in Nat
    PROVE  /\ power(b, 0) = 1
           /\ \A n \in Nat : power(b, n) \in Nat /\ power(b, n + 1) = power(b, n) * b
<1> DEFINE P(f) == f = [k \in Nat |-> IF k = 0 THEN 1 ELSE f[k - 1] * b]
           g    == CHOOSE f : P(f)
           step == [p \in Int \X Nat |-> p[1] * b]
<1>1. \A n \in Nat : power(b, n) = g[n]
  BY DEF power
<1>2. step \in [Int \X Nat -> Int]
  OBVIOUS
<1>3. \E f : P(f)
  <2>1. PICK f \in [Nat -> Int] : Recursive(f, Nat, 1, step)
    <3> HIDE DEF step
    <3>1. QED
      BY <1>2, RecursionExists
  <2>2. ASSUME NEW n \in Nat, n # 0 PROVE step[<<f[n - 1], n>>] = f[n - 1] * b
    <3>1. f[n - 1] \in Int
      BY <2>2
    <3>2. QED
      BY <3>1
  <2> HIDE DEF step
  <2>3. P(f)
    BY <2>1, <2>2 DEF Recursive
  <2>4. QED
    BY <2>3
<1>4. P(g)
  <2> HIDE DEF P
  <2>1. QED
    BY <1>3
<1> HIDE DEF g
<1>5. g[0] = 1
  BY <1>4
<1>6. ASSUME NEW n \in Nat PROVE g[n + 1] = g[n] * b
  <2>1. n + 1 \in Nat /\ n + 1 # 0 /\ (n + 1) - 1 = n
    OBVIOUS
  <2>2. g[n + 1] = g[(n + 1) - 1] * b
    BY <1>4, <2>1
  <2>3. QED
    BY <2>1, <2>2
<1> DEFINE N == {n \in Nat : g[n] \in Nat}
<1>7. 0 \in N
  BY <1>5
<1>8. ASSUME NEW n \in Nat, n \in N PROVE n + 1 \in N
  <2>1. g[n] * b \in Nat
    BY <1>8, NatProduct
  <2>2. QED
    BY <1>6, <2>1
<1>9. Nat \subseteq N
  <2> HIDE DEF N, P
  <2>1. QED
    BY <1>7, <1>8, NatClosed
<1>10. QED
  <2> HIDE DEF P
  <2>1. \A n \in Nat : n + 1 \in Nat
    OBVIOUS
  <2>2. QED
    BY <1>1, <1>5, <1>6, <1>9, <2>1

\* The power of a product is the product of the powers.
LEMMA PowerOfProduct ==
    ASSUME NEW a \in Nat, NEW b \in Nat, NEW n \in Nat
    PROVE  power(a * b, n) = power(a, n) * power(b, n)
<1> DEFINE N == {m \in Nat : power(a * b, m) = power(a, m) * power(b, m)}
<1>1. a * b \in Nat
  BY NatProduct
<1>2. 0 \in N
  BY <1>1, PowerIs
<1>3. ASSUME NEW m \in Nat, m \in N PROVE m + 1 \in N
  <2> DEFINE x == power(a, m)
             y == power(b, m)
  <2>1. x \in Nat /\ y \in Nat /\ power(a, m + 1) = x * a /\ power(b, m + 1) = y * b
    BY PowerIs
  <2>2. power(a * b, m + 1) = (x * y) * (a * b)
    BY <1>1, <1>3, PowerIs
  <2> HIDE DEF x, y
  <2>3. (x * y) * (a * b) = (x * a) * (y * b)
    BY <2>1
  <2>4. QED
    BY <2>1, <2>2, <2>3
<1>4. Nat \subseteq N
  <2> HIDE DEF N
  <2>1. QED
    BY <1>2, <1>3, NatClosed
<1>5. QED
  BY <1>4

\* Exponents add.
LEMMA PowerOfSum ==
    ASSUME NEW b \in Nat, NEW m \in Nat, NEW n \in Nat
    PROVE  power(b, m + n) = power(b, m) * power(b, n)
<1> DEFINE N == {k \in Nat : power(b, m + k) = power(b, m) * power(b, k)}
<1>1. power(b, m) \in Nat
  BY PowerIs
<1>2. 0 \in N
  <2>1. m + 0 = m /\ power(b, 0) = 1
    BY PowerIs
  <2>2. QED
    BY <1>1, <2>1
<1>3. ASSUME NEW k \in Nat, k \in N PROVE k + 1 \in N
  <2> DEFINE x == power(b, m)
             y == power(b, k)
  <2>1. m + k \in Nat /\ m + (k + 1) = (m + k) + 1
    OBVIOUS
  <2>2. y \in Nat /\ power(b, k + 1) = y * b
    BY PowerIs
  <2>3. power(b, m + (k + 1)) = (x * y) * b
    BY <1>3, <2>1, PowerIs
  <2> HIDE DEF x, y
  <2>4. x \in Nat
    BY <1>1 DEF x
  <2>5. (x * y) * b = x * (y * b)
    BY <2>2, <2>4
  <2>6. power(b, m + (k + 1)) = power(b, m) * power(b, k + 1)
    BY <2>2, <2>3, <2>5 DEF x
  <2>7. QED
    BY <2>6
<1>4. Nat \subseteq N
  <2> HIDE DEF N
  <2>1. QED
    BY <1>2, <1>3, NatClosed
<1>5. QED
  BY <1>4

\* A power grows with its base, and is positive when the base is.
LEMMA PowerGrows ==
    ASSUME NEW a \in Nat, NEW b \in Nat, a <= b, NEW n \in Nat
    PROVE  /\ power(a, n) <= power(b, n)
           /\ a # 0 => power(a, n) \in Nat \ {0}
<1> DEFINE N == {m \in Nat : power(a, m) <= power(b, m) /\ (a # 0 => power(a, m) # 0)}
<1>1. 0 \in N
  BY PowerIs
<1>2. ASSUME NEW m \in Nat, m \in N PROVE m + 1 \in N
  <2> DEFINE x == power(a, m)
             y == power(b, m)
  <2>1. x \in Nat /\ y \in Nat /\ power(a, m + 1) = x * a /\ power(b, m + 1) = y * b
    BY PowerIs
  <2>2. x <= y /\ (a # 0 => x # 0)
    BY <1>2
  <2> HIDE DEF x, y
  <2>3. x * a <= y * b
    BY <2>1, <2>2, ProductsMonotone
  <2>4. a # 0 => x * a # 0
    BY <2>1, <2>2
  <2>5. QED
    BY <2>1, <2>3, <2>4
<1>3. Nat \subseteq N
  <2> HIDE DEF N
  <2>1. QED
    BY <1>1, <1>2, NatClosed
<1>4. QED
  BY <1>3, PowerIs

\* (1 + 1/k)^n <= k / (k - n) and (k - n) / k <= (1 - 1/k)^n, in integers.
LEMMA PowerOfNearlyOne ==
    ASSUME NEW k \in Nat \ {0}, NEW n \in Nat
    PROVE  /\ power(k + 1, n) * (k - n) <= power(k, n) * k
           /\ power(k, n) * (k - n) <= power(k - 1, n) * k
<1> DEFINE N == {m \in Nat : /\ power(k + 1, m) * (k - m) <= power(k, m) * k
                             /\ power(k, m) * (k - m) <= power(k - 1, m) * k}
<1>1. k \in Nat /\ k + 1 \in Nat /\ k - 1 \in Nat
  OBVIOUS
<1>2. 0 \in N
  <2>1. power(k, 0) = 1 /\ power(k + 1, 0) = 1 /\ power(k - 1, 0) = 1
    BY <1>1, PowerIs
  <2>2. QED
    BY <1>1, <2>1
<1>3. ASSUME NEW m \in Nat, m \in N PROVE m + 1 \in N
  <2> DEFINE x == power(k + 1, m)
             y == power(k, m)
             z == power(k - 1, m)
  <2>1. /\ x \in Nat /\ y \in Nat /\ z \in Nat
        /\ power(k + 1, m + 1) = x * (k + 1) /\ power(k, m + 1) = y * k
        /\ power(k - 1, m + 1) = z * (k - 1)
    BY <1>1, PowerIs
  <2>2. x * (k - m) <= y * k /\ y * (k - m) <= z * k
    BY <1>3
  <2> HIDE DEF x, y, z
  <2>3. (k + 1) * (k - (m + 1)) <= (k - m) * k /\ k * (k - (m + 1)) <= (k - m) * (k - 1)
    BY <1>1
  <2>4. x * (k + 1) * (k - (m + 1)) <= y * k * k
    <3>1. ((k + 1) * (k - (m + 1))) * x <= ((k - m) * k) * x
      BY <1>1, <2>1, <2>3, ProductMonotone
    <3>2. (x * (k - m)) * k <= (y * k) * k
      BY <1>1, <2>1, <2>2, ProductMonotone
    <3>3. /\ ((k + 1) * (k - (m + 1))) * x = x * (k + 1) * (k - (m + 1))
          /\ ((k - m) * k) * x = (x * (k - m)) * k
      BY <1>1, <2>1
    <3>4. QED
      BY <1>1, <2>1, <3>1, <3>2, <3>3
  <2>5. y * k * (k - (m + 1)) <= z * (k - 1) * k
    <3>1. (k * (k - (m + 1))) * y <= ((k - m) * (k - 1)) * y
      BY <1>1, <2>1, <2>3, ProductMonotone
    <3>2. (y * (k - m)) * (k - 1) <= (z * k) * (k - 1)
      BY <1>1, <2>1, <2>2, ProductMonotone
    <3>3. /\ (k * (k - (m + 1))) * y = y * k * (k - (m + 1))
          /\ ((k - m) * (k - 1)) * y = (y * (k - m)) * (k - 1)
          /\ (z * k) * (k - 1) = z * (k - 1) * k
      BY <1>1, <2>1
    <3>4. QED
      BY <1>1, <2>1, <3>1, <3>2, <3>3
  <2>6. QED
    BY <2>1, <2>4, <2>5
<1>4. Nat \subseteq N
  <2> HIDE DEF N
  <2>1. QED
    BY <1>2, <1>3, NatClosed
<1>5. QED
  BY <1>4

\* A product of two factors of at least one, rounded: it is at least one, and
\* exact up to a share of one in 2 * s.
LEMMA RoundedFactor ==
    ASSUME NEW s \in Nat \ {0}, NEW a \in Nat, NEW b \in Nat, s <= a, s <= b
    PROVE  LET r == mul_div_round_u128(a, b, s)
           IN  /\ r \in Nat /\ s <= r
               /\ r * (s * (2 * s)) <= a * (b * (2 * s + 1))
               /\ a * (b * (2 * s - 1)) <= r * (s * (2 * s))
<1> DEFINE r == mul_div_round_u128(a, b, s)
           p == a * b
<1>1. r \in Nat /\ 2 * (r * s) <= 2 * p + s /\ 2 * p <= 2 * (r * s) + s
  BY Rounded
<1>2. p \in Nat /\ s * s <= p
  BY NatProduct, ProductsMonotone
<1>3. s <= r
  <2>1. (p + s \div 2) \div s = r
    BY DEF mul_div_round_u128
  <2> HIDE DEF p, r
  <2>2. s \div 2 \in Nat
    OBVIOUS
  <2>3. p + s \div 2 \in Int /\ s * s <= p + s \div 2 /\ s * s \in Int
    BY <1>2, <2>2
  <2>4. (s * s) \div s <= (p + s \div 2) \div s
    BY <1>2, <2>2, <2>3, QuotientMonotone
  <2>5. (s * s) \div s = s
    OBVIOUS
  <2>6. QED
    BY <2>1, <2>4, <2>5
<1> HIDE DEF r
<1> DEFINE w == r * s
<1>4. w \in Nat /\ 2 * w <= 2 * p + s /\ 2 * p <= 2 * w + s
  BY <1>1, NatProduct
<1>5. a * (b * (2 * s + 1)) = p * (2 * s + 1) /\ a * (b * (2 * s - 1)) = p * (2 * s - 1)
  OBVIOUS
<1>6. r * (s * (2 * s)) = (2 * w) * s
  BY <1>1
<1> HIDE DEF p, w
<1>7. /\ (2 * w) * s <= (2 * p + s) * s
      /\ (2 * p) * s <= (2 * w + s) * s
  BY <1>2, <1>4, ProductMonotone
<1>8. /\ (2 * p + s) * s = (2 * p) * s + s * s
      /\ (2 * w + s) * s = (2 * w) * s + s * s
      /\ p * (2 * s + 1) = (2 * p) * s + p
      /\ p * (2 * s - 1) = (2 * p) * s - p
  BY <1>2, <1>4
<1>9. (2 * w) * s \in Int /\ (2 * p) * s \in Int /\ s * s \in Int
  BY <1>2, <1>4
<1>10. (2 * w) * s <= p * (2 * s + 1) /\ p * (2 * s - 1) <= (2 * w) * s
  <2> DEFINE ws == (2 * w) * s
             ps == (2 * p) * s
             ss == s * s
  <2>1. ws \in Int /\ ps \in Int /\ ss \in Int /\ ss <= p /\ ws <= ps + ss /\ ps <= ws + ss
    BY <1>2, <1>7, <1>8, <1>9
  <2> HIDE DEF ws, ps, ss
  <2>2. ws <= ps + p /\ ps - p <= ws
    BY <1>2, <2>1
  <2>3. QED
    BY <1>8, <2>2 DEF ws, ps
<1>11. QED
  BY <1>1, <1>3, <1>5, <1>6, <1>10 DEF r

-----------------------------------------------------------------------------
(* pow_fixed is exact up to its roundings.                                 *)

\* 2 * h + o factors are two times h and o of them.
LEMMA PowerOfHalves ==
    ASSUME NEW b \in Nat, NEW h \in Nat, NEW o \in Nat
    PROVE  power(b, (h + h) + o) = (power(b, h) * power(b, h)) * power(b, o)
<1>1. h + h \in Nat
  OBVIOUS
<1>2. QED
  BY <1>1, PowerOfSum

\* An iteration of pow_fixed keeps an upper bound.
LEMMA HalvedAbove ==
    ASSUME NEW a \in Nat, NEW b \in Nat, NEW a2 \in Nat, NEW b2 \in Nat, NEW c \in Nat,
           NEW d \in Nat, NEW r \in Nat, NEW h \in Nat, NEW o \in Nat,
           a2 * power(d, o) <= a * power(b * c, o),
           b2 * d <= b * (b * c),
           r * power(d, h) <= a2 * power(b2 * c, h)
    PROVE  r * power(d, (h + h) + o) <= a * power(b * c, (h + h) + o)
<1> DEFINE B  == b * c
           dh == power(d, h)
           do == power(d, o)
           bo == power(B, o)
           ch == power(b2 * c, h)
           bh == power(B, h)
<1>1. B \in Nat /\ b2 * c \in Nat
  BY NatProduct
<1>2. dh \in Nat /\ do \in Nat /\ bo \in Nat /\ ch \in Nat /\ bh \in Nat
  BY <1>1, PowerIs
<1>3. ch * dh <= bh * bh
  <2>1. (b2 * c) * d \in Nat /\ B * B \in Nat
    BY <1>1, NatProduct
  <2>2. (b2 * c) * d <= B * B
    <3>1. (b2 * d) * c <= (b * (b * c)) * c
      BY ProductMonotone, NatProduct
    <3>2. (b2 * d) * c = (b2 * c) * d /\ (b * (b * c)) * c = (b * c) * (b * c)
      OBVIOUS
    <3>3. QED
      BY <3>1, <3>2
  <2>3. power((b2 * c) * d, h) <= power(B * B, h)
    <3> HIDE DEF B
    <3>1. QED
      BY <2>1, <2>2, PowerGrows
  <2>4. power((b2 * c) * d, h) = ch * dh
    BY <1>1, PowerOfProduct
  <2>5. power(B * B, h) = bh * bh
    <3> HIDE DEF B
    <3>1. QED
      BY <1>1, PowerOfProduct
  <2>6. QED
    BY <2>3, <2>4, <2>5
<1>4. /\ power(d, (h + h) + o) = (dh * dh) * do
      /\ power(B, (h + h) + o) = (bh * bh) * bo
  <2> HIDE DEF B
  <2>1. QED
    BY <1>1, PowerOfHalves
<1>5. a2 * do <= a * bo /\ r * dh <= a2 * ch
  OBVIOUS
<1> HIDE DEF B, dh, do, bo, ch, bh
<1>6. r * ((dh * dh) * do) <= (a2 * do) * (ch * dh)
  <2>1. dh * do \in Nat
    BY <1>2, NatProduct
  <2>2. (r * dh) * (dh * do) <= (a2 * ch) * (dh * do)
    BY <1>2, <1>5, <2>1, ProductMonotone, NatProduct
  <2>3. /\ (r * dh) * (dh * do) = r * ((dh * dh) * do)
        /\ (a2 * ch) * (dh * do) = (a2 * do) * (ch * dh)
    BY <1>2
  <2>4. QED
    BY <2>2, <2>3
<1>7. (a2 * do) * (ch * dh) <= (a * bo) * (bh * bh)
  <2>1. a2 * do \in Nat /\ a * bo \in Nat /\ ch * dh \in Nat /\ bh * bh \in Nat
    BY <1>2, NatProduct
  <2>2. QED
    BY <1>3, <1>5, <2>1, ProductsMonotone
<1>8. (a * bo) * (bh * bh) = a * ((bh * bh) * bo)
  BY <1>2
<1>9. r * ((dh * dh) * do) <= a * ((bh * bh) * bo)
  <2>1. /\ r * ((dh * dh) * do) \in Int /\ (a2 * do) * (ch * dh) \in Int
        /\ (a * bo) * (bh * bh) \in Int
    BY <1>2, NatProduct
  <2>2. QED
    BY <1>6, <1>7, <1>8, <2>1
<1>10. QED
  BY <1>4, <1>9 DEF B

\* And a lower one.
LEMMA HalvedBelow ==
    ASSUME NEW a \in Nat, NEW b \in Nat, NEW a2 \in Nat, NEW b2 \in Nat, NEW c \in Nat,
           NEW d \in Nat, NEW r \in Nat, NEW h \in Nat, NEW o \in Nat,
           a * power(b * c, o) <= a2 * power(d, o),
           b * (b * c) <= b2 * d,
           a2 * power(b2 * c, h) <= r * power(d, h)
    PROVE  a * power(b * c, (h + h) + o) <= r * power(d, (h + h) + o)
<1> DEFINE B  == b * c
           dh == power(d, h)
           do == power(d, o)
           bo == power(B, o)
           ch == power(b2 * c, h)
           bh == power(B, h)
<1>1. B \in Nat /\ b2 * c \in Nat
  BY NatProduct
<1>2. dh \in Nat /\ do \in Nat /\ bo \in Nat /\ ch \in Nat /\ bh \in Nat
  BY <1>1, PowerIs
<1>3. bh * bh <= ch * dh
  <2>1. (b2 * c) * d \in Nat /\ B * B \in Nat
    BY <1>1, NatProduct
  <2>2. B * B <= (b2 * c) * d
    <3>1. (b * (b * c)) * c <= (b2 * d) * c
      BY ProductMonotone, NatProduct
    <3>2. (b2 * d) * c = (b2 * c) * d /\ (b * (b * c)) * c = (b * c) * (b * c)
      OBVIOUS
    <3>3. QED
      BY <3>1, <3>2
  <2>3. power(B * B, h) <= power((b2 * c) * d, h)
    <3> HIDE DEF B
    <3>1. QED
      BY <2>1, <2>2, PowerGrows
  <2>4. power((b2 * c) * d, h) = ch * dh
    BY <1>1, PowerOfProduct
  <2>5. power(B * B, h) = bh * bh
    <3> HIDE DEF B
    <3>1. QED
      BY <1>1, PowerOfProduct
  <2>6. QED
    BY <2>3, <2>4, <2>5
<1>4. /\ power(d, (h + h) + o) = (dh * dh) * do
      /\ power(B, (h + h) + o) = (bh * bh) * bo
  <2> HIDE DEF B
  <2>1. QED
    BY <1>1, PowerOfHalves
<1>5. a * bo <= a2 * do /\ a2 * ch <= r * dh
  OBVIOUS
<1> HIDE DEF B, dh, do, bo, ch, bh
<1>6. (a2 * do) * (ch * dh) <= r * ((dh * dh) * do)
  <2>1. dh * do \in Nat
    BY <1>2, NatProduct
  <2>2. (a2 * ch) * (dh * do) <= (r * dh) * (dh * do)
    BY <1>2, <1>5, <2>1, ProductMonotone, NatProduct
  <2>3. /\ (r * dh) * (dh * do) = r * ((dh * dh) * do)
        /\ (a2 * ch) * (dh * do) = (a2 * do) * (ch * dh)
    BY <1>2
  <2>4. QED
    BY <2>2, <2>3
<1>7. (a * bo) * (bh * bh) <= (a2 * do) * (ch * dh)
  <2>1. a2 * do \in Nat /\ a * bo \in Nat /\ ch * dh \in Nat /\ bh * bh \in Nat
    BY <1>2, NatProduct
  <2>2. QED
    BY <1>3, <1>5, <2>1, ProductsMonotone
<1>8. (a * bo) * (bh * bh) = a * ((bh * bh) * bo)
  BY <1>2
<1>9. a * ((bh * bh) * bo) <= r * ((dh * dh) * do)
  <2>1. /\ r * ((dh * dh) * do) \in Int /\ (a2 * do) * (ch * dh) \in Int
        /\ (a * bo) * (bh * bh) \in Int
    BY <1>2, NatProduct
  <2>2. QED
    BY <1>6, <1>7, <1>8, <2>1
<1>10. QED
  BY <1>4, <1>9 DEF B

\* r is acc * base^exp in the fixed-point scale s, up to a share of one in
\* 2 * s for every factor of the power.
NearPower(r, acc, base, exp, s) ==
    /\ r \in Nat
    /\ acc * power(base * (2 * s - 1), exp) <= r * power(s * (2 * s), exp)
    /\ r * power(s * (2 * s), exp) <= acc * power(base * (2 * s + 1), exp)

\* What an iteration makes of a factor that may be one.
LEMMA OneIteration ==
    ASSUME NEW s \in Nat \ {0}, NEW x \in PowStates, s <= x[1], s <= x[2]
    PROVE  /\ PowAcc(x, s) \in Nat /\ s <= PowAcc(x, s)
           /\ NearPower(PowAcc(x, s), x[1], x[2], (x[3] % 2), s)
<1> DEFINE a == x[1]
           b == x[2]
           o == (x[3] % 2)
           d == s * (2 * s)
           r == mul_div_round_u128(a, b, s)
<1>1. a \in Nat /\ b \in Nat /\ x[3] \in Nat
  BY PowStateTyped
<1>2. 2 * s - 1 \in Nat /\ 2 * s + 1 \in Nat /\ 2 * s \in Nat
  OBVIOUS
<1>3. d \in Nat /\ b * (2 * s - 1) \in Nat /\ b * (2 * s + 1) \in Nat
  BY <1>1, <1>2, NatProduct
<1>4. CASE o = 1
  <2>1. /\ r \in Nat /\ s <= r
        /\ r * d <= a * (b * (2 * s + 1))
        /\ a * (b * (2 * s - 1)) <= r * d
    BY <1>1, RoundedFactor
  <2>2. PowAcc(x, s) = r
    BY <1>4 DEF PowAcc
  <2>3. \A y \in Nat : power(y, 1) = y
    <3>1. ASSUME NEW y \in Nat PROVE power(y, 1) = y
      <4>1. power(y, 0 + 1) = power(y, 0) * y /\ power(y, 0) = 1
        BY PowerIs
      <4>2. 0 + 1 = 1 /\ 1 * y = y
        OBVIOUS
      <4>3. QED
        BY <4>1, <4>2
    <3>2. QED
      BY <3>1
  <2>4. /\ power(d, 1) = d /\ power(b * (2 * s - 1), 1) = b * (2 * s - 1)
        /\ power(b * (2 * s + 1), 1) = b * (2 * s + 1)
    <3> HIDE DEF d, b
    <3>1. QED
      BY <1>3, <2>3
  <2> HIDE DEF r
  <2>5. NearPower(r, a, b, 1, s)
    BY <2>1, <2>4 DEF NearPower
  <2>6. QED
    BY <1>4, <2>1, <2>2, <2>5
<1>5. CASE o # 1
  <2>1. o = 0
    <3> HIDE DEF o
    <3>1. o \in 0..1
      BY <1>1 DEF o
    <3>2. QED
      BY <1>5, <3>1
  <2>2. PowAcc(x, s) = a
    BY <1>5 DEF PowAcc
  <2>3. power(d, 0) = 1 /\ power(b * (2 * s - 1), 0) = 1 /\ power(b * (2 * s + 1), 0) = 1
    <3> HIDE DEF d, b
    <3>1. QED
      BY <1>3, PowerIs
  <2>4. NearPower(a, a, b, 0, s)
    BY <1>1, <2>3 DEF NearPower
  <2>5. QED
    BY <1>1, <2>1, <2>2, <2>4
<1>6. QED
  BY <1>4, <1>5

\* pow_fixed's result.
LEMMA PowFixedNear ==
    ASSUME NEW s \in Nat \ {0}, NEW b \in Nat, s <= b, NEW n \in Nat
    PROVE  NearPower(pow_fixed(b, n, s), s, b, n, s)
<1>1. PICK f : PowLoop(f, s) /\ \A c, k : pow_fixed(c, k, s) = f[<<s, c, k>>]
  BY PowFixedLoops
<1> DEFINE N == {k \in Nat : \A x \in PowStates :
                    x[3] < k /\ s <= x[1] /\ s <= x[2] => NearPower(f[x], x[1], x[2], x[3], s)}
<1>2. 0 \in N
  <2>1. \A x \in PowStates : x[3] \in Nat
    BY PowStateTyped
  <2>2. \A x \in PowStates : ~(x[3] < 0)
    BY <2>1
  <2>3. QED
    BY <2>2
<1>3. ASSUME NEW k \in Nat, k \in N PROVE k + 1 \in N
  <2>1. SUFFICES ASSUME NEW x \in PowStates, x[3] < k + 1, s <= x[1], s <= x[2]
                 PROVE  NearPower(f[x], x[1], x[2], x[3], s)
    OBVIOUS
  <2> DEFINE a  == x[1]
             c  == x[2]
             e  == x[3]
             h  == e \div 2
             o  == (e % 2)
             y  == PowNext(x, s)
             a2 == PowAcc(x, s)
             c2 == mul_div_round_u128(c, c, s)
             d  == s * (2 * s)
  <2>2. a \in Nat /\ c \in Nat /\ e \in Nat /\ y \in PowStates
    BY PowStateTyped
  <2>3. a2 \in Nat /\ s <= a2 /\ NearPower(a2, a, c, o, s)
    BY <2>1, OneIteration
  <2>4. f[x] = IF h = 0 THEN a2 ELSE f[y]
    BY <1>1 DEF PowLoop
  <2>5. h \in Nat /\ o \in Nat /\ e = (h + h) + o
    <3> HIDE DEF e
    <3>1. QED
      BY <2>2
  <2>6. CASE h = 0
    <3>1. e = o /\ f[x] = a2
      <4> HIDE DEF e, o, h, a2
      <4>1. QED
        BY <2>4, <2>5, <2>6
    <3>2. QED
      BY <2>3, <3>1
  <2>7. CASE h # 0
    <3>1. y[1] = a2 /\ y[2] = c2 /\ y[3] = h
      BY DEF PowNext
    <3>2. /\ c2 \in Nat /\ s <= c2
          /\ c2 * d <= c * (c * (2 * s + 1))
          /\ c * (c * (2 * s - 1)) <= c2 * d
      BY <2>1, <2>2, RoundedFactor
    <3>3. h < k
      <4> HIDE DEF e
      <4>1. e < k + 1
        BY <2>1 DEF e
      <4>2. QED
        BY <2>2, <2>7, <4>1
    <3>4. NearPower(f[y], a2, c2, h, s)
      <4>1. NearPower(f[y], y[1], y[2], y[3], s)
        <5>1. y[3] < k /\ s <= y[1] /\ s <= y[2]
          <6> HIDE DEF y, a2, c2, h
          <6>1. QED
            BY <2>3, <3>1, <3>2, <3>3
        <5> HIDE DEF y
        <5>2. QED
          BY <1>3, <2>2, <5>1
      <4>2. QED
        BY <3>1, <4>1
    <3> DEFINE r == f[y]
    <3>5. r \in Nat /\ d \in Nat /\ 2 * s - 1 \in Nat /\ 2 * s + 1 \in Nat
      <4>1. 2 * s - 1 \in Nat /\ 2 * s + 1 \in Nat /\ 2 * s \in Nat
        OBVIOUS
      <4>2. d \in Nat
        BY <4>1, NatProduct
      <4>3. r \in Nat
        BY <3>4 DEF NearPower
      <4>4. QED
        BY <4>1, <4>2, <4>3
    <3>6. /\ a2 * power(d, o) <= a * power(c * (2 * s + 1), o)
          /\ a * power(c * (2 * s - 1), o) <= a2 * power(d, o)
          /\ r * power(d, h) <= a2 * power(c2 * (2 * s + 1), h)
          /\ a2 * power(c2 * (2 * s - 1), h) <= r * power(d, h)
      BY <2>3, <3>4 DEF NearPower
    <3> DEFINE above == 2 * s + 1
               below == 2 * s - 1
    <3> HIDE DEF a, c, h, o, a2, c2, d, r, above, below, e, y
    <3>7. r * power(d, (h + h) + o) <= a * power(c * above, (h + h) + o)
      <4>1. above \in Nat /\ a2 * power(d, o) <= a * power(c * above, o)
            /\ c2 * d <= c * (c * above) /\ r * power(d, h) <= a2 * power(c2 * above, h)
        BY <3>2, <3>5, <3>6 DEF above
      <4>2. QED
        BY <2>2, <2>3, <2>5, <3>2, <3>5, <4>1, HalvedAbove
    <3>8. a * power(c * below, (h + h) + o) <= r * power(d, (h + h) + o)
      <4>1. below \in Nat /\ a * power(c * below, o) <= a2 * power(d, o)
            /\ c * (c * below) <= c2 * d /\ a2 * power(c2 * below, h) <= r * power(d, h)
        BY <3>2, <3>5, <3>6 DEF below
      <4>2. QED
        BY <2>2, <2>3, <2>5, <3>2, <3>5, <4>1, HalvedBelow
    <3>9. NearPower(r, a, c, (h + h) + o, s)
      BY <3>5, <3>7, <3>8 DEF NearPower, d, above, below
    <3>10. f[x] = r
      BY <2>4, <2>7 DEF r
    <3>11. QED
      BY <2>5, <3>9, <3>10 DEF a, c, e
  <2>8. QED
    BY <2>6, <2>7
<1>4. Nat \subseteq N
  <2> HIDE DEF N
  <2>1. QED
    BY <1>2, <1>3, NatClosed
<1> DEFINE z == <<s, b, n>>
<1>5. z \in PowStates /\ z[1] = s /\ z[2] = b /\ z[3] = n
  BY DEF PowStates
<1> HIDE DEF z
<1>6. NearPower(f[z], z[1], z[2], z[3], s)
  <2>1. n + 1 \in N
    BY <1>4
  <2>2. z[3] < n + 1 /\ s <= z[1] /\ s <= z[2]
    BY <1>5
  <2>3. QED
    BY <1>5, <2>1, <2>2
<1>7. QED
  BY <1>1, <1>5, <1>6 DEF z

\* A positive factor cancels.
LEMMA FactorCancels ==
    ASSUME NEW a \in Int, NEW b \in Int, NEW t \in Nat \ {0}, a * t <= b * t
    PROVE  a <= b
<1>1. SUFFICES ASSUME b + 1 <= a PROVE FALSE
  OBVIOUS
<1>2. (b + 1) * t <= a * t
  BY <1>1, ProductMonotone
<1>3. (b + 1) * t = b * t + t
  OBVIOUS
<1>4. a * t \in Int /\ b * t \in Int
  OBVIOUS
<1>5. QED
  BY <1>2, <1>3, <1>4

\* pow_fixed(b, n, s) is s * (b / s)^n, for a base of at least one, up to a share
\* of n in 2 * s - n of it: every one of the n factors of the power costs half a
\* unit of the scale once, however the squarings share the roundings.
THEOREM PowFixedShare ==
    ASSUME NEW s \in Nat \ {0}, NEW b \in Nat, s <= b, NEW n \in Nat, n < 2 * s
    PROVE  LET r == pow_fixed(b, n, s)
               x == s * power(b, n)
               z == power(s, n)
           IN  /\ r \in Nat
               /\ (r * z) * (2 * s - n) <= x * (2 * s)
               /\ x * (2 * s - n) <= (r * z) * (2 * s)
<1> DEFINE r == pow_fixed(b, n, s)
           F == power(b, n)
           x == s * F
           z == power(s, n)
           k == 2 * s
           w == k - n
           T == power(k, n)
           U == power(k + 1, n)
           V == power(k - 1, n)
<1>1. k \in Nat \ {0} /\ k + 1 \in Nat /\ k - 1 \in Nat /\ w \in Nat /\ k \in Nat /\ s \in Nat
  OBVIOUS
<1>2. NearPower(r, s, b, n, s)
  BY PowFixedNear
<1>3. /\ r \in Nat
      /\ s * power(b * (k - 1), n) <= r * power(s * k, n)
      /\ r * power(s * k, n) <= s * power(b * (k + 1), n)
  BY <1>2 DEF NearPower
<1> HIDE DEF k, r
<1>4. /\ power(s * k, n) = z * T /\ power(b * (k + 1), n) = F * U
      /\ power(b * (k - 1), n) = F * V
  BY <1>1, PowerOfProduct
<1>5. U * w <= T * k /\ T * w <= V * k
  BY <1>1, PowerOfNearlyOne
<1>6. F \in Nat /\ z \in Nat /\ T \in Nat /\ U \in Nat /\ V \in Nat
  BY <1>1, PowerIs
<1>7. T \in Nat \ {0}
  <2>1. k <= k /\ k # 0
    BY <1>1
  <2>2. QED
    BY <1>1, <2>1, PowerGrows
<1>8. s * (F * V) <= r * (z * T) /\ r * (z * T) <= s * (F * U)
  BY <1>3, <1>4
<1> HIDE DEF F, z, w, T, U, V
<1>9. x \in Nat /\ r * z \in Nat
  BY <1>1, <1>3, <1>6, NatProduct
<1>10. x * V <= (r * z) * T /\ (r * z) * T <= x * U
  <2>1. /\ s * (F * V) = x * V /\ s * (F * U) = x * U
        /\ r * (z * T) = (r * z) * T
    BY <1>1, <1>3, <1>6
  <2>2. QED
    BY <1>8, <2>1
<1> DEFINE y == r * z
<1>11. y \in Nat /\ x * V <= y * T /\ y * T <= x * U
  BY <1>9, <1>10
<1> HIDE DEF x, y
<1>12. y * w <= x * k
  <2>1. (y * T) * w <= (x * U) * w
    BY <1>1, <1>6, <1>9, <1>11, ProductMonotone, NatProduct
  <2>2. (U * w) * x <= (T * k) * x
    BY <1>1, <1>5, <1>6, <1>9, ProductMonotone, NatProduct
  <2>3. /\ (y * T) * w = (y * w) * T
        /\ (x * U) * w = (U * w) * x
        /\ (T * k) * x = (x * k) * T
    BY <1>1, <1>6, <1>9, <1>11
  <2>4. /\ y * w \in Nat /\ x * k \in Nat /\ (y * w) * T \in Int /\ (U * w) * x \in Int
        /\ (x * k) * T \in Int
    BY <1>1, <1>6, <1>9, <1>11, NatProduct
  <2>5. (y * w) * T <= (x * k) * T
    BY <2>1, <2>2, <2>3, <2>4
  <2>6. QED
    BY <1>7, <2>4, <2>5, FactorCancels
<1>13. x * w <= y * k
  <2>1. (x * V) * k <= (y * T) * k
    BY <1>1, <1>6, <1>9, <1>11, ProductMonotone, NatProduct
  <2>2. (T * w) * x <= (V * k) * x
    BY <1>1, <1>5, <1>6, <1>9, ProductMonotone, NatProduct
  <2>3. /\ (y * T) * k = (y * k) * T
        /\ (x * V) * k = (V * k) * x
        /\ (T * w) * x = (x * w) * T
    BY <1>1, <1>6, <1>9, <1>11
  <2>4. /\ y * k \in Nat /\ x * w \in Nat /\ (y * k) * T \in Int /\ (V * k) * x \in Int
        /\ (x * w) * T \in Int
    BY <1>1, <1>6, <1>9, <1>11, NatProduct
  <2>5. (x * w) * T <= (y * k) * T
    BY <2>1, <2>2, <2>3, <2>4
  <2>6. QED
    BY <1>7, <2>4, <2>5, FactorCancels
<1>14. QED
  BY <1>3, <1>12, <1>13 DEF r, x, F, z, y, w, k

-----------------------------------------------------------------------------
(* The price on the boundary of a day.                                     *)

\* price_ceiling, day by day.
LEMMA PriceCeilingIs ==
    ASSUME NEW base \in Nat, NEW apr \in Nat
    PROVE  /\ price_ceiling(base, apr, 0) = base
           /\ \A n \in Nat : /\ price_ceiling(base, apr, n) \in Nat
                             /\ price_ceiling(base, apr, n) * daily_factor(apr)
                                  <= price_ceiling(base, apr, n + 1) * INT_SCALE
<1> DEFINE up(y) == ceil_div_u128(y * daily_factor(apr), INT_SCALE)
           P(f)  == f = [k \in Nat |-> IF k = 0 THEN base ELSE up(f[k - 1])]
           g     == CHOOSE f : P(f)
           step  == [p \in Int \X Nat |-> up(p[1])]
<1>1. \A n \in Nat : price_ceiling(base, apr, n) = g[n]
  BY DEF price_ceiling
<1>2. INT_SCALE \in Nat \ {0} /\ daily_factor(apr) \in Nat
  BY PricingAssumption, DailyFactor
<1>3. ASSUME NEW y \in Int PROVE up(y) \in Int
  <2>1. y * daily_factor(apr) + INT_SCALE - 1 \in Int
    BY <1>2
  <2>2. QED
    BY <1>2, <2>1, Division DEF ceil_div_u128
<1>4. ASSUME NEW y \in Nat PROVE up(y) \in Nat /\ y * daily_factor(apr) <= up(y) * INT_SCALE
  <2> DEFINE v == y * daily_factor(apr)
             t == v + INT_SCALE - 1
  <2>1. v \in Nat
    BY <1>2, NatProduct
  <2> HIDE DEF v
  <2>2. t \in Nat
    BY <1>2, <2>1
  <2>3. up(y) = t \div INT_SCALE
    BY DEF ceil_div_u128, v
  <2> HIDE DEF up
  <2> DEFINE q == t \div INT_SCALE
  <2>4. q \in Nat
    <3> HIDE DEF t
    <3>1. QED
      BY <1>2, <2>2, QuotientNat
  <2>5. t < q * INT_SCALE + INT_SCALE
    <3> HIDE DEF t
    <3>1. QED
      BY <1>2, <2>2, Division
  <2> HIDE DEF q
  <2>6. q * INT_SCALE \in Int
    BY <1>2, <2>4
  <2>7. v <= q * INT_SCALE
    BY <1>2, <2>1, <2>5, <2>6
  <2>8. QED
    BY <2>3, <2>4, <2>7 DEF q, v
<1>5. step \in [Int \X Nat -> Int]
  <2> HIDE DEF up
  <2>1. QED
    BY <1>3
<1> HIDE DEF up
<1>6. \E f : P(f)
  <2>1. PICK f \in [Nat -> Int] : Recursive(f, Nat, base, step)
    <3> HIDE DEF step
    <3>1. base \in Int
      OBVIOUS
    <3>2. QED
      BY <1>5, <3>1, RecursionExists
  <2>2. ASSUME NEW n \in Nat, n # 0 PROVE step[<<f[n - 1], n>>] = up(f[n - 1])
    <3>1. f[n - 1] \in Int
      BY <2>2
    <3>2. QED
      BY <3>1
  <2> HIDE DEF step
  <2>3. P(f)
    BY <2>1, <2>2 DEF Recursive
  <2>4. QED
    BY <2>3
<1>7. P(g)
  <2> HIDE DEF P
  <2>1. QED
    BY <1>6
<1> HIDE DEF g
<1>8. g[0] = base
  BY <1>7
<1>9. ASSUME NEW n \in Nat PROVE g[n + 1] = up(g[n])
  <2>1. n + 1 \in Nat /\ n + 1 # 0 /\ (n + 1) - 1 = n
    OBVIOUS
  <2>2. g[n + 1] = up(g[(n + 1) - 1])
    BY <1>7, <2>1
  <2>3. QED
    BY <2>1, <2>2
<1> DEFINE N == {n \in Nat : g[n] \in Nat}
<1>10. 0 \in N
  BY <1>8
<1>11. ASSUME NEW n \in Nat, n \in N PROVE n + 1 \in N
  BY <1>4, <1>9, <1>11
<1>12. Nat \subseteq N
  <2> HIDE DEF N, P
  <2>1. QED
    BY <1>10, <1>11, NatClosed
<1>13. ASSUME NEW n \in Nat
       PROVE  g[n] \in Nat /\ g[n] * daily_factor(apr) <= g[n + 1] * INT_SCALE
  <2>1. g[n] \in Nat
    BY <1>12
  <2>2. QED
    BY <1>4, <1>9, <2>1
<1>14. QED
  <2> HIDE DEF P
  <2>1. \A n \in Nat : n + 1 \in Nat
    OBVIOUS
  <2>2. QED
    BY <1>1, <1>8, <1>13, <2>1

\* It is above the exact price.
LEMMA PriceCeilingAbove ==
    ASSUME NEW base \in Nat, NEW apr \in Nat, NEW n \in Nat
    PROVE  base * power(daily_factor(apr), n)
             <= price_ceiling(base, apr, n) * power(INT_SCALE, n)
<1> DEFINE f == daily_factor(apr)
           s == INT_SCALE
           N == {m \in Nat : base * power(f, m) <= price_ceiling(base, apr, m) * power(s, m)}
<1>1. f \in Nat /\ s \in Nat
  BY DailyFactor, PricingAssumption
<1> HIDE DEF f, s
<1>2. 0 \in N
  <2>1. power(f, 0) = 1 /\ power(s, 0) = 1 /\ price_ceiling(base, apr, 0) = base
    BY <1>1, PowerIs, PriceCeilingIs
  <2>2. QED
    BY <2>1
<1>3. ASSUME NEW m \in Nat, m \in N PROVE m + 1 \in N
  <2> DEFINE F == power(f, m)
             z == power(s, m)
             c == price_ceiling(base, apr, m)
             d == price_ceiling(base, apr, m + 1)
  <2>1. F \in Nat /\ z \in Nat /\ power(f, m + 1) = F * f /\ power(s, m + 1) = z * s
    BY <1>1, PowerIs
  <2>2. c \in Nat /\ d \in Nat /\ c * f <= d * s
    <3>1. m + 1 \in Nat
      OBVIOUS
    <3>2. QED
      BY <3>1, PriceCeilingIs DEF f, s
  <2>3. base * F <= c * z
    BY <1>3
  <2> HIDE DEF F, z, c, d
  <2>4. (base * F) * f <= (c * z) * f
    BY <1>1, <2>1, <2>2, <2>3, ProductMonotone, NatProduct
  <2>5. (c * f) * z <= (d * s) * z
    BY <1>1, <2>1, <2>2, ProductMonotone, NatProduct
  <2>6. /\ (base * F) * f = base * (F * f) /\ (c * z) * f = (c * f) * z
        /\ (d * s) * z = d * (z * s)
    BY <1>1, <2>1, <2>2
  <2>7. base * (F * f) \in Int /\ (c * f) * z \in Int /\ d * (z * s) \in Int
    BY <1>1, <2>1, <2>2, NatProduct
  <2>8. base * (F * f) <= d * (z * s)
    BY <2>4, <2>5, <2>6, <2>7
  <2>9. base * power(f, m + 1) <= price_ceiling(base, apr, m + 1) * power(s, m + 1)
    BY <2>1, <2>8 DEF d
  <2>10. QED
    BY <2>9
<1>4. Nat \subseteq N
  <2> HIDE DEF N
  <2>1. QED
    BY <1>2, <1>3, NatClosed
<1>5. QED
  BY <1>4 DEF f, s

\* The price on the boundary of day n, and the one after that foreseen.
Today(base, apr, n) ==
    mul_div_round_u128(base, pow_fixed(daily_factor(apr), n, INT_SCALE), INT_SCALE)
Tomorrow(base, apr, n) == mul_div_round_u128(Today(base, apr, n), daily_factor(apr), INT_SCALE)

\* What AccuracyAssumption says of a day.
Accurate(base, apr, n) == 8 * n * price_ceiling(base, apr, n) <= 2 * INT_SCALE - n

\* The arithmetic of the upper bound: t is at most X / z + 5/8 when t's rounding
\* is half a unit and the relative excess n / w of X costs an eighth.
LEMMA BoundAbove ==
    ASSUME NEW t \in Nat, NEW X \in Nat, NEW z \in Nat, NEW w \in Nat \ {0}, NEW n \in Nat,
           2 * (t * z * w) <= 2 * (X * (w + n)) + z * w, 8 * (n * X) <= w * z
    PROVE  8 * (t * z) <= 8 * X + 5 * z
<1> DEFINE tz  == t * z
           tzw == tz * w
           Xw  == X * w
           Xn  == n * X
           zw  == z * w
<1>1. tz \in Nat /\ tzw \in Nat /\ Xw \in Nat /\ Xn \in Nat /\ zw \in Nat
  BY NatProduct
<1>2. X * (w + n) = Xw + Xn /\ t * z * w = tzw /\ w * z = zw
  OBVIOUS
<1>3. 2 * tzw <= 2 * (Xw + Xn) + zw /\ 8 * Xn <= zw
  BY <1>2
<1>4. (8 * tz) * w = 8 * tzw /\ (8 * X + 5 * z) * w = 8 * Xw + 5 * zw
  OBVIOUS
<1>5. 8 * tz \in Int /\ 8 * X + 5 * z \in Int
  OBVIOUS
<1> HIDE DEF tz, tzw, Xw, Xn, zw
<1>6. 8 * tzw <= 8 * Xw + 5 * zw
  BY <1>1, <1>3
<1>7. (8 * tz) * w <= (8 * X + 5 * z) * w
  BY <1>4, <1>6
<1>8. 8 * tz <= 8 * X + 5 * z
  BY <1>5, <1>7, FactorCancels
<1>9. QED
  BY <1>8 DEF tz

\* The arithmetic of the lower bound: t is at least X / z - 5/8 when t's rounding
\* is half a unit and the relative loss n / k of X costs an eighth.
LEMMA BoundBelow ==
    ASSUME NEW t \in Nat, NEW X \in Nat, NEW z \in Nat, NEW k \in Nat \ {0}, NEW n \in Nat, n <= k,
           2 * (X * (k - n)) <= 2 * (t * z * k) + z * k, 8 * (n * X) <= (k - n) * z
    PROVE  8 * X <= 8 * (t * z) + 5 * z
<1> DEFINE tz  == t * z
           tzk == tz * k
           Xk  == X * k
           Xn  == n * X
           zk  == z * k
           nz  == n * z
<1>1. tz \in Nat /\ tzk \in Nat /\ Xk \in Nat /\ Xn \in Nat /\ zk \in Nat /\ nz \in Nat
  BY NatProduct
<1>2. X * (k - n) = Xk - Xn /\ t * z * k = tzk /\ (k - n) * z = zk - nz
  OBVIOUS
<1>3. 2 * (Xk - Xn) <= 2 * tzk + zk /\ 8 * Xn <= zk - nz
  BY <1>2
<1>4. (8 * tz + 5 * z) * k = 8 * tzk + 5 * zk /\ (8 * X) * k = 8 * Xk
  OBVIOUS
<1>5. 8 * tz + 5 * z \in Int /\ 8 * X \in Int
  OBVIOUS
<1> HIDE DEF tz, tzk, Xk, Xn, zk, nz
<1>6. 8 * Xk <= 8 * tzk + 5 * zk
  BY <1>1, <1>3
<1>7. (8 * X) * k <= (8 * tz + 5 * z) * k
  BY <1>4, <1>6
<1>8. 8 * X <= 8 * tz + 5 * z
  BY <1>5, <1>7, FactorCancels
<1>9. QED
  BY <1>8 DEF tz

\* On a day boundary the price is exact up to 5/8 of a unit: half a unit of the
\* last rounding, an eighth for all those of the power.
LEMMA TodayIsNear ==
    ASSUME NEW base \in Nat \ {0}, NEW apr \in Nat, NEW n \in Nat, Accurate(base, apr, n)
    PROVE  LET t == Today(base, apr, n)
               X == base * power(daily_factor(apr), n)
               z == power(INT_SCALE, n)
           IN  /\ t \in Nat /\ X \in Nat /\ z \in Nat \ {0}
               /\ 8 * (t * z) <= 8 * X + 5 * z
               /\ 8 * X <= 8 * (t * z) + 5 * z
<1> DEFINE s == INT_SCALE
           f == daily_factor(apr)
           r == pow_fixed(f, n, s)
           t == Today(base, apr, n)
           F == power(f, n)
           X == base * F
           z == power(s, n)
           c == price_ceiling(base, apr, n)
           k == 2 * s
           w == k - n
<1>1. s \in Nat \ {0} /\ f \in Nat \ {0} /\ s <= f /\ k \in Nat \ {0}
  BY PricingAssumption, DailyFactor
<1>2. t = mul_div_round_u128(base, r, s)
  BY DEF Today
<1>3. c \in Nat /\ X <= c * z
  BY PriceCeilingIs, PriceCeilingAbove
<1>4. 8 * n * c <= w
  BY DEF Accurate
<1> HIDE DEF s, f, t
<1>5. F \in Nat \ {0} /\ z \in Nat \ {0}
  <2>1. f <= f /\ f # 0 /\ f \in Nat /\ s <= s /\ s # 0 /\ s \in Nat
    BY <1>1
  <2>2. QED
    BY <2>1, PowerGrows
<1> HIDE DEF F, z, c
<1>6. X \in Nat \ {0}
  BY <1>5
<1>7. c # 0
  BY <1>3, <1>5, <1>6
<1>8. n <= n * c
  <2>1. 1 * n <= c * n
    BY <1>3, <1>7, ProductMonotone
  <2>2. QED
    BY <1>3, <2>1
<1>9. w \in Nat \ {0} /\ k = w + n
  <2> DEFINE nc == n * c
  <2>1. nc \in Nat /\ 8 * n * c = 8 * nc
    BY <1>3, NatProduct
  <2> HIDE DEF nc
  <2>2. n <= nc /\ 8 * nc <= w
    BY <1>4, <1>8, <2>1 DEF nc
  <2>3. QED
    BY <1>1, <2>1, <2>2
<1>10. 8 * (n * X) <= w * z
  <2>1. (8 * n) * X <= (8 * n) * (c * z)
    <3>1. X * (8 * n) <= (c * z) * (8 * n)
      BY <1>3, <1>5, <1>6, ProductMonotone, NatProduct
    <3>2. QED
      BY <1>3, <1>5, <1>6, <3>1
  <2>2. (8 * n * c) * z <= w * z
    BY <1>3, <1>4, <1>5, <1>9, ProductMonotone
  <2>3. (8 * n) * (c * z) = (8 * n * c) * z /\ (8 * n) * X = 8 * (n * X)
    BY <1>3, <1>5, <1>6
  <2>4. (8 * n * c) * z \in Int /\ w * z \in Int /\ 8 * (n * X) \in Int
    BY <1>3, <1>5, <1>6, <1>9
  <2>5. QED
    BY <2>1, <2>2, <2>3, <2>4
<1>11. /\ r \in Nat
       /\ (r * z) * w <= (s * F) * k
       /\ (s * F) * w <= (r * z) * k
  <2>1. n < 2 * s
    BY <1>9
  <2>2. QED
    BY <1>1, <2>1, PowFixedShare DEF F, z
<1>12. /\ t \in Nat
       /\ 2 * (t * s) <= 2 * (base * r) + s
       /\ 2 * (base * r) <= 2 * (t * s) + s
  BY <1>1, <1>2, <1>11, Rounded
<1> HIDE DEF X, r, k, w
<1>13. X = base * F
  BY DEF X
<1>14. 2 * (t * z * w) <= 2 * (X * k) + z * w
  <2> DEFINE zw == z * w
             a  == t * s
             b  == base * r
  <2>1. zw \in Nat /\ a \in Nat /\ b \in Nat
    BY <1>1, <1>5, <1>9, <1>11, <1>12, NatProduct
  <2>2. (2 * a) * zw <= (2 * b + s) * zw
    BY <1>1, <1>12, <2>1, ProductMonotone
  <2>3. b * zw = base * ((r * z) * w) /\ a * zw = (t * z * w) * s
    BY <1>1, <1>5, <1>9, <1>11, <1>12
  <2>4. base * ((r * z) * w) <= base * ((s * F) * k)
    <3>1. (r * z) * w \in Nat /\ (s * F) * k \in Nat
      BY <1>1, <1>5, <1>9, <1>11, NatProduct
    <3>2. ((r * z) * w) * base <= ((s * F) * k) * base
      BY <1>11, <3>1, ProductMonotone
    <3>3. QED
      BY <3>1, <3>2
  <2>5. base * ((s * F) * k) = (X * k) * s
    BY <1>1, <1>5, <1>13
  <2>6. (2 * a) * zw = 2 * (a * zw) /\ (2 * b + s) * zw = 2 * (b * zw) + s * zw
    BY <1>1, <2>1
  <2>7. (2 * (t * z * w)) * s <= (2 * (X * k) + zw) * s
    <3> DEFINE p == t * z * w
               q == X * k
    <3>1. p \in Nat /\ q \in Nat
      BY <1>1, <1>5, <1>6, <1>9, <1>12, NatProduct DEF X
    <3>2. a * zw = p * s /\ b * zw <= q * s
      BY <2>3, <2>4, <2>5
    <3>3. a * zw \in Nat /\ b * zw \in Nat /\ s * zw \in Nat /\ p * s \in Nat /\ q * s \in Nat
      BY <1>1, <2>1, <3>1, NatProduct
    <3>4. 2 * (a * zw) <= 2 * (b * zw) + s * zw
      BY <2>2, <2>6
    <3>5. (2 * p) * s = 2 * (p * s) /\ (2 * q + zw) * s = 2 * (q * s) + s * zw
      BY <1>1, <2>1, <3>1
    <3> HIDE DEF p, q, a, b, zw
    <3> DEFINE az == a * zw
               bz == b * zw
               sz == s * zw
               ps == p * s
               qs == q * s
    <3>6. /\ az \in Nat /\ bz \in Nat /\ sz \in Nat /\ ps \in Nat /\ qs \in Nat
          /\ az = ps /\ bz <= qs /\ 2 * az <= 2 * bz + sz
      BY <3>2, <3>3, <3>4
    <3> HIDE DEF az, bz, sz, ps, qs
    <3>7. 2 * ps <= 2 * qs + sz
      BY <3>6
    <3>8. QED
      BY <3>5, <3>7 DEF ps, qs, sz, p, q
  <2>8. 2 * (t * z * w) \in Int /\ 2 * (X * k) + zw \in Int
    BY <1>1, <1>5, <1>6, <1>9, <1>12, <2>1, NatProduct DEF X
  <2> HIDE DEF zw
  <2>9. 2 * (t * z * w) <= 2 * (X * k) + zw
    BY <1>1, <2>7, <2>8, FactorCancels
  <2>10. QED
    BY <2>9 DEF zw
<1>15. 2 * (X * w) <= 2 * (t * z * k) + z * k
  <2> DEFINE zk == z * k
             a  == t * s
             b  == base * r
  <2>1. zk \in Nat /\ a \in Nat /\ b \in Nat
    BY <1>1, <1>5, <1>9, <1>11, <1>12, NatProduct
  <2>2. (2 * b) * zk <= (2 * a + s) * zk
    BY <1>1, <1>12, <2>1, ProductMonotone
  <2>3. b * zk = base * ((r * z) * k) /\ a * zk = (t * z * k) * s
    BY <1>1, <1>5, <1>9, <1>11, <1>12
  <2>4. base * ((s * F) * w) <= base * ((r * z) * k)
    <3>1. (r * z) * k \in Nat /\ (s * F) * w \in Nat
      BY <1>1, <1>5, <1>9, <1>11, NatProduct
    <3>2. ((s * F) * w) * base <= ((r * z) * k) * base
      BY <1>11, <3>1, ProductMonotone
    <3>3. QED
      BY <3>1, <3>2
  <2>5. base * ((s * F) * w) = (X * w) * s
    BY <1>1, <1>5, <1>9, <1>13
  <2>6. (2 * b) * zk = 2 * (b * zk) /\ (2 * a + s) * zk = 2 * (a * zk) + s * zk
    BY <1>1, <2>1
  <2>7. (2 * (X * w)) * s <= (2 * (t * z * k) + zk) * s
    <3> DEFINE p == t * z * k
               q == X * w
    <3>1. p \in Nat /\ q \in Nat
      BY <1>1, <1>5, <1>6, <1>9, <1>12, NatProduct DEF X
    <3>2. a * zk = p * s /\ q * s <= b * zk
      BY <2>3, <2>4, <2>5
    <3>3. a * zk \in Nat /\ b * zk \in Nat /\ s * zk \in Nat /\ p * s \in Nat /\ q * s \in Nat
      BY <1>1, <2>1, <3>1, NatProduct
    <3>4. 2 * (b * zk) <= 2 * (a * zk) + s * zk
      BY <2>2, <2>6
    <3>5. (2 * q) * s = 2 * (q * s) /\ (2 * p + zk) * s = 2 * (p * s) + s * zk
      BY <1>1, <2>1, <3>1
    <3> HIDE DEF p, q, a, b, zk
    <3> DEFINE az == a * zk
               bz == b * zk
               sz == s * zk
               ps == p * s
               qs == q * s
    <3>6. /\ az \in Nat /\ bz \in Nat /\ sz \in Nat /\ ps \in Nat /\ qs \in Nat
          /\ az = ps /\ qs <= bz /\ 2 * bz <= 2 * az + sz
      BY <3>2, <3>3, <3>4
    <3> HIDE DEF az, bz, sz, ps, qs
    <3>7. 2 * qs <= 2 * ps + sz
      BY <3>6
    <3>8. QED
      BY <3>5, <3>7 DEF ps, qs, sz, p, q
  <2>8. 2 * (X * w) \in Int /\ 2 * (t * z * k) + zk \in Int
    BY <1>1, <1>5, <1>6, <1>9, <1>12, <2>1, NatProduct DEF X
  <2> HIDE DEF zk
  <2>9. 2 * (X * w) <= 2 * (t * z * k) + zk
    BY <1>1, <2>7, <2>8, FactorCancels
  <2>10. QED
    BY <2>9 DEF zk
<1>16. X \in Nat /\ z \in Nat
  BY <1>5, <1>6 DEF X
<1>17. 8 * (t * z) <= 8 * X + 5 * z
  BY <1>9, <1>10, <1>12, <1>14, <1>16, BoundAbove
<1>18. 8 * X <= 8 * (t * z) + 5 * z
  <2>1. w = k - n /\ n <= k
    BY <1>9
  <2>2. QED
    BY <1>1, <1>10, <1>12, <1>15, <1>16, <2>1, BoundBelow
<1>19. QED
  BY <1>5, <1>12, <1>16, <1>17, <1>18 DEF X, F, z, s, f, t

\* Tomorrow's price as today foresees it: no loss on today, and at most 4/3 of a
\* unit above the exact one.
LEMMA TomorrowIsNear ==
    ASSUME NEW base \in Nat \ {0}, NEW apr \in Nat, NEW n \in Nat, Accurate(base, apr, n),
           3 * daily_factor(apr) <= 4 * INT_SCALE
    PROVE  LET T == Tomorrow(base, apr, n)
               X == base * power(daily_factor(apr), n + 1)
               z == power(INT_SCALE, n + 1)
           IN  /\ T \in Nat /\ Today(base, apr, n) <= T
               /\ X \in Nat /\ z \in Nat
               /\ 3 * (T * z) <= 3 * X + 4 * z
<1> DEFINE s == INT_SCALE
           f == daily_factor(apr)
           t == Today(base, apr, n)
           T == Tomorrow(base, apr, n)
           F == power(f, n)
           X == base * F
           z == power(s, n)
<1>1. s \in Nat \ {0} /\ f \in Nat /\ s <= f /\ 3 * f <= 4 * s
  BY PricingAssumption, DailyFactor
<1>2. t \in Nat /\ X \in Nat /\ z \in Nat /\ 8 * (t * z) <= 8 * X + 5 * z
  BY TodayIsNear
<1>3. T = mul_div_round_u128(t, f, s)
  BY DEF Tomorrow
<1> HIDE DEF t, T, s, f
<1>4. T \in Nat /\ 2 * (T * s) <= 2 * (t * f) + s
  BY <1>1, <1>2, <1>3, Rounded
<1>5. t <= T
  <2> DEFINE p == t * f
             q == t * s
             h == s \div 2
  <2>1. T = (p + h) \div s
    BY <1>3 DEF mul_div_round_u128
  <2>2. h \in Nat /\ p \in Nat /\ q \in Nat /\ q \div s = t
    BY <1>1, <1>2, NatProduct
  <2>3. q <= p
    <3>1. s * t <= f * t
      BY <1>1, <1>2, ProductMonotone
    <3>2. QED
      BY <1>1, <1>2, <3>1
  <2> HIDE DEF p, q, h
  <2>4. q <= p + h /\ p + h \in Int /\ q \in Int
    BY <2>2, <2>3
  <2>5. q \div s <= (p + h) \div s
    BY <1>1, <2>4, QuotientMonotone
  <2>6. QED
    BY <2>1, <2>2, <2>5
<1>6. F \in Nat /\ power(f, n + 1) = F * f /\ power(s, n + 1) = z * s
  BY <1>1, PowerIs
<1> HIDE DEF F, z
<1> DEFINE X1 == base * (F * f)
           z1 == z * s
<1>7. X1 \in Nat /\ z1 \in Nat /\ X1 = X * f
  BY <1>1, <1>2, <1>6, NatProduct
<1> HIDE DEF X
<1>8. 3 * (T * z1) <= 3 * X1 + 4 * z1
  <2> DEFINE Tz == T * z1
             tf == t * f
             fz == f * z
             tz == t * z
  <2>1. Tz \in Nat /\ tf \in Nat /\ fz \in Nat /\ tz \in Nat
    BY <1>1, <1>2, <1>4, <1>7, NatProduct
  \* 2 * Tz <= 2 * (t f z) + z1
  <2>2. (2 * (T * s)) * z <= (2 * tf + s) * z
    BY <1>1, <1>2, <1>4, <2>1, ProductMonotone, NatProduct
  <2>3. (2 * (T * s)) * z = 2 * Tz /\ (2 * tf + s) * z = 2 * (tf * z) + z1
    BY <1>1, <1>2, <1>4, <2>1
  <2>4. (8 * tz) * f <= (8 * X + 5 * z) * f
    BY <1>1, <1>2, <2>1, ProductMonotone
  <2>5. (8 * tz) * f = 8 * (tf * z) /\ (8 * X + 5 * z) * f = 8 * X1 + 5 * fz
    BY <1>1, <1>2, <1>7, <2>1
  <2>6. 3 * fz <= 4 * z1
    <3>1. (3 * f) * z <= (4 * s) * z
      BY <1>1, <1>2, ProductMonotone
    <3>2. (3 * f) * z = 3 * fz /\ (4 * s) * z = 4 * z1
      BY <1>1, <1>2
    <3>3. QED
      BY <3>1, <3>2
  <2> DEFINE tfz == tf * z
  <2>7. tfz \in Nat
    BY <1>2, <2>1, NatProduct
  <2>8. 2 * Tz <= 2 * tfz + z1 /\ 8 * tfz <= 8 * X1 + 5 * fz
    BY <2>2, <2>3, <2>4, <2>5
  <2> HIDE DEF Tz, tf, fz, tz, tfz, X1, z1
  <2>9. 3 * Tz <= 3 * X1 + 4 * z1
    BY <1>7, <2>1, <2>6, <2>7, <2>8
  <2>10. QED
    BY <2>9 DEF Tz
<1>9. QED
  BY <1>4, <1>5, <1>6, <1>7, <1>8 DEF t, T, s, f

\* The price of a later day is at most one unit below it.
LEMMA TomorrowComes ==
    ASSUME NEW base \in Nat \ {0}, NEW apr \in Nat, NEW n \in Nat, NEW j \in Nat,
           Accurate(base, apr, n), Accurate(base, apr, (n + 1) + j),
           3 * daily_factor(apr) <= 4 * INT_SCALE
    PROVE  Tomorrow(base, apr, n) <= Today(base, apr, (n + 1) + j) + 1
<1> DEFINE s  == INT_SCALE
           f  == daily_factor(apr)
           N  == n + 1
           M  == N + j
           T  == Tomorrow(base, apr, n)
           t  == Today(base, apr, M)
           F1 == power(f, N)
           X1 == base * F1
           z1 == power(s, N)
           X  == base * power(f, M)
           z  == power(s, M)
           g  == power(f, j)
           h  == power(s, j)
<1>1. s \in Nat \ {0} /\ s \in Nat /\ f \in Nat /\ s <= f /\ N \in Nat /\ M \in Nat
  BY PricingAssumption, DailyFactor
<1>2. T \in Nat /\ X1 \in Nat /\ z1 \in Nat /\ 3 * (T * z1) <= 3 * X1 + 4 * z1
  BY TomorrowIsNear
<1>3. t \in Nat /\ X \in Nat /\ z \in Nat \ {0} /\ 8 * X <= 8 * (t * z) + 5 * z
  <2> HIDE DEF M
  <2>1. Accurate(base, apr, M)
    BY DEF M
  <2>2. QED
    BY <1>1, <2>1, TodayIsNear
<1> HIDE DEF s, f, T, t, N
<1>4. power(f, M) = F1 * g /\ power(s, M) = z1 * h
  <2>1. power(f, N + j) = power(f, N) * power(f, j)
    BY <1>1, PowerOfSum
  <2>2. power(s, N + j) = power(s, N) * power(s, j)
    BY <1>1, PowerOfSum
  <2>3. QED
    BY <2>1, <2>2
<1>5. g \in Nat /\ h \in Nat /\ h <= g /\ F1 \in Nat
  BY <1>1, PowerIs, PowerGrows
<1>6. X = X1 * g /\ z = z1 * h
  <2> HIDE DEF F1, g, h, z1, M
  <2>1. base * (F1 * g) = (base * F1) * g
    BY <1>5
  <2>2. QED
    BY <1>4, <2>1
<1> HIDE DEF M, F1, X1, z1, X, z, g, h
<1>7. 3 * (T * z) <= 3 * X + 4 * z
  <2> DEFINE Tz == T * z1
  <2>1. Tz \in Nat
    BY <1>2, NatProduct
  <2>2. (3 * Tz) * h <= (3 * X1 + 4 * z1) * h
    BY <1>2, <1>5, <2>1, ProductMonotone
  <2>3. (3 * Tz) * h = 3 * (T * z) /\ (3 * X1 + 4 * z1) * h = 3 * (X1 * h) + 4 * z
    BY <1>2, <1>5, <1>6
  <2>4. X1 * h <= X
    <3>1. h * X1 <= g * X1
      BY <1>2, <1>5, ProductMonotone
    <3>2. h * X1 = X1 * h /\ g * X1 = X1 * g
      BY <1>2, <1>5
    <3>3. QED
      BY <1>6, <3>1, <3>2
  <2>5. T * z \in Int /\ X1 * h \in Int
    BY <1>2, <1>3, <1>5
  <2>6. QED
    BY <1>3, <2>2, <2>3, <2>4, <2>5
<1>8. (24 * T) * z <= (24 * t + 47) * z
  <2> DEFINE Tz == T * z
             tz == t * z
  <2>1. Tz \in Nat /\ tz \in Nat
    BY <1>2, <1>3, NatProduct
  <2>2. 3 * Tz <= 3 * X + 4 * z /\ 8 * X <= 8 * tz + 5 * z
    BY <1>3, <1>7
  <2>3. (24 * T) * z = 24 * Tz /\ (24 * t + 47) * z = 24 * tz + 47 * z
    BY <1>2, <1>3
  <2> HIDE DEF Tz, tz
  <2>4. 24 * Tz <= 24 * tz + 47 * z
    BY <1>3, <2>1, <2>2
  <2>5. QED
    BY <2>3, <2>4
<1>9. 24 * T <= 24 * t + 47
  <2>1. 24 * T \in Int /\ 24 * t + 47 \in Int
    BY <1>2, <1>3
  <2>2. QED
    BY <1>3, <1>8, <2>1, FactorCancels
<1>10. T <= t + 1
  BY <1>2, <1>3, <1>9
<1>11. QED
  BY <1>10 DEF T, t, M, N

\* calculate_vector_price within a day.
Line(base, apr, n, r) ==
    Today(base, apr, n)
      + mul_div_round_u128(Tomorrow(base, apr, n) - Today(base, apr, n), r, SECONDS_IN_DAY)

\* calculate_vector_price is the line of its day.
LEMMA VectorPriceIs ==
    ASSUME NEW base, NEW apr, NEW elapsed
    PROVE  calculate_vector_price(apr, base, elapsed)
             = IF apr = 0 \/ elapsed = 0 THEN base
               ELSE Line(base, apr, elapsed \div SECONDS_IN_DAY, (elapsed % SECONDS_IN_DAY))
  BY DEF calculate_vector_price, Line, Today, Tomorrow

\* The line rises from today's price to tomorrow's.
LEMMA LineRises ==
    ASSUME NEW base \in Nat \ {0}, NEW apr \in Nat, NEW n \in Nat, Accurate(base, apr, n),
           3 * daily_factor(apr) <= 4 * INT_SCALE,
           NEW r \in Nat, NEW q \in Nat, r <= q, q <= SECONDS_IN_DAY
    PROVE  /\ Line(base, apr, n, r) \in Nat /\ Line(base, apr, n, q) \in Nat
           /\ Today(base, apr, n) <= Line(base, apr, n, r)
           /\ Line(base, apr, n, r) <= Line(base, apr, n, q)
           /\ Line(base, apr, n, q) <= Tomorrow(base, apr, n)
<1> DEFINE t == Today(base, apr, n)
           T == Tomorrow(base, apr, n)
           d == T - t
           S == SECONDS_IN_DAY
           h == S \div 2
           lr == (d * r + h) \div S
           lq == (d * q + h) \div S
<1>1. t \in Nat /\ T \in Nat /\ t <= T
  BY TodayIsNear, TomorrowIsNear
<1>2. S \in Nat \ {0}
  BY PricingAssumption
<1>3. Line(base, apr, n, r) = t + lr /\ Line(base, apr, n, q) = t + lq
  BY DEF Line, mul_div_round_u128
<1> HIDE DEF t, T
<1>4. d \in Nat /\ h \in Nat /\ h < S
  BY <1>1, <1>2
<1>5. q <= S
  OBVIOUS
<1> HIDE DEF d, S, h
<1> DEFINE x == d * r
           y == d * q
           w == d * S
<1>6. x \in Nat /\ y \in Nat /\ w \in Nat
  BY <1>2, <1>4, NatProduct
<1>7. x <= y /\ y <= w
  <2>1. r * d <= q * d /\ q * d <= S * d
    BY <1>2, <1>4, <1>5, ProductMonotone
  <2>2. r * d = d * r /\ q * d = d * q /\ S * d = d * S
    BY <1>2, <1>4
  <2>3. QED
    BY <2>1, <2>2
<1>8. lr \in Nat /\ lq \in Nat
  <2> HIDE DEF x, y
  <2>1. x + h \in Nat /\ y + h \in Nat
    BY <1>4, <1>6
  <2>2. QED
    BY <1>2, <2>1, QuotientNat DEF x, y
<1>9. lr <= lq
  <2> HIDE DEF x, y
  <2>1. x + h \in Int /\ y + h \in Int /\ x + h <= y + h
    BY <1>4, <1>6, <1>7
  <2>2. (x + h) \div S <= (y + h) \div S
    BY <1>2, <2>1, QuotientMonotone
  <2>3. QED
    BY <2>2 DEF x, y
<1>10. lq <= d
  <2>1. lq * S <= y + h
    <3> HIDE DEF y
    <3>1. y + h \in Int
      BY <1>4, <1>6
    <3>2. ((y + h) \div S) * S <= y + h
      BY <1>2, <3>1, Division
    <3>3. QED
      BY <3>2 DEF y
  <2> HIDE DEF lq, y, w
  <2>2. lq * S \in Int /\ lq * S < w + S
    BY <1>2, <1>4, <1>6, <1>7, <1>8, <2>1
  <2>3. SUFFICES ASSUME d + 1 <= lq PROVE FALSE
    BY <1>4, <1>8
  <2>4. (d + 1) * S <= lq * S
    BY <1>2, <1>4, <1>8, <2>3, ProductMonotone
  <2>5. (d + 1) * S = w + S
    BY <1>2, <1>4 DEF w
  <2>6. QED
    BY <1>2, <1>6, <2>2, <2>4, <2>5
<1>11. d = T - t
  BY DEF d
<1> HIDE DEF lr, lq
<1>12. QED
  BY <1>1, <1>3, <1>8, <1>9, <1>10, <1>11 DEF t, T, S

-----------------------------------------------------------------------------
(* The price over time.                                                    *)

\* A later price is at most one unit below an earlier one.
LEMMA LaterPrice ==
    ASSUME NEW base \in Nat \ {0}, NEW apr \in Nat, NEW e \in Nat \ {0}, NEW l \in Nat, e <= l,
           Accurate(base, apr, e \div SECONDS_IN_DAY), Accurate(base, apr, l \div SECONDS_IN_DAY),
           3 * daily_factor(apr) <= 4 * INT_SCALE
    PROVE  calculate_vector_price(apr, base, l) >= calculate_vector_price(apr, base, e) - 1
<1> DEFINE S == SECONDS_IN_DAY
           n == e \div S
           m == l \div S
           r == (e % S)
           q == (l % S)
<1>1. S \in Nat \ {0}
  BY PricingAssumption
<1>2. CASE apr = 0
  BY <1>2, VectorPriceIs
<1>3. CASE apr # 0
  <2>1. /\ calculate_vector_price(apr, base, e) = Line(base, apr, n, r)
        /\ calculate_vector_price(apr, base, l) = Line(base, apr, m, q)
    <3>1. e # 0 /\ l # 0
      OBVIOUS
    <3>2. QED
      BY <1>3, <3>1, VectorPriceIs
  <2>2. /\ n \in Nat /\ m \in Nat /\ r \in Nat /\ q \in Nat /\ r <= S /\ q <= S
        /\ e = n * S + r /\ l = m * S + q
    <3> HIDE DEF S
    <3>1. QED
      BY <1>1
  <2>3. n <= m
    <3>1. e \in Int /\ l \in Int /\ e <= l
      OBVIOUS
    <3> HIDE DEF S
    <3>2. e \div S <= l \div S
      BY <1>1, <3>1, QuotientMonotone
    <3>3. QED
      BY <3>2
  <2>4. Accurate(base, apr, n) /\ Accurate(base, apr, m)
    OBVIOUS
  <2> HIDE DEF n, m, r, q
  <2>5. ASSUME NEW a \in Nat, NEW b \in Nat, b <= S, Accurate(base, apr, a)
        PROVE  /\ Line(base, apr, a, b) \in Nat
               /\ Today(base, apr, a) <= Line(base, apr, a, b)
               /\ Line(base, apr, a, b) <= Tomorrow(base, apr, a)
               /\ Today(base, apr, a) \in Nat /\ Tomorrow(base, apr, a) \in Nat
    <3>1. b <= b
      OBVIOUS
    <3>2. QED
      BY <2>5, <3>1, LineRises, TodayIsNear, TomorrowIsNear
  <2>6. CASE n = m
    <3>1. r <= q
      <4> DEFINE p == n * S
      <4>1. p \in Nat /\ e = p + r /\ l = p + q
        BY <1>1, <2>2, <2>6, NatProduct
      <4> HIDE DEF p
      <4>2. QED
        BY <2>2, <4>1
    <3>2. Line(base, apr, n, r) <= Line(base, apr, n, q)
      BY <2>2, <2>4, <3>1, LineRises
    <3>3. Line(base, apr, n, r) \in Nat /\ Line(base, apr, n, q) \in Nat
      BY <2>2, <2>4, <2>5
    <3>4. QED
      BY <2>1, <2>6, <3>2, <3>3
  <2>7. CASE n # m
    <3> DEFINE j == m - (n + 1)
    <3>1. j \in Nat /\ m = (n + 1) + j
      BY <2>2, <2>3, <2>7
    <3> HIDE DEF j
    <3>2. Tomorrow(base, apr, n) <= Today(base, apr, m) + 1
      <4>1. Accurate(base, apr, (n + 1) + j)
        BY <2>4, <3>1
      <4>2. QED
        BY <2>2, <2>4, <3>1, <4>1, TomorrowComes
    <3>3. /\ Line(base, apr, n, r) \in Nat /\ Line(base, apr, m, q) \in Nat
          /\ Line(base, apr, n, r) <= Tomorrow(base, apr, n)
          /\ Today(base, apr, m) <= Line(base, apr, m, q)
          /\ Tomorrow(base, apr, n) \in Nat /\ Today(base, apr, m) \in Nat
      BY <2>2, <2>4, <2>5
    <3>4. QED
      BY <2>1, <3>2, <3>3
  <2>8. QED
    BY <2>6, <2>7
<1>4. QED
  BY <1>2, <1>3

\* The vector is one the model asks about, and its time within the bound.
VectorTyped ==
    /\ vector \in Vectors
    /\ now \in Nat \ {0}
    /\ now - 1 <= MAX_DAYS * SECONDS_IN_DAY

\* The vector and the time keep to them.
LEMMA VectorsTyped == VectorSpec => []VectorTyped
<1>1. MAX_DAYS * SECONDS_IN_DAY \in Nat
  BY VectorAssumption, PricingAssumption, NatProduct
<1>2. VectorInit => VectorTyped
  BY <1>1 DEF VectorInit, VectorTyped
<1>3. VectorTyped /\ [Wait]_<<vector, now>> => VectorTyped'
  <2>1. ASSUME VectorTyped, Wait PROVE VectorTyped'
    BY <1>1, <2>1 DEF VectorTyped, Wait
  <2>2. ASSUME VectorTyped, UNCHANGED <<vector, now>> PROVE VectorTyped'
    BY <2>2 DEF VectorTyped
  <2>3. QED
    BY <2>1, <2>2
<1>4. QED
  BY <1>2, <1>3, PTL DEF VectorSpec

\* The parts of the vector, and the accuracy of its prices.
LEMMA VectorParts ==
    ASSUME VectorTyped
    PROVE  /\ vector.base_price \in Nat \ {0} /\ vector.apr \in Nat
           /\ vector.price_fix_duration \in Nat \ {0} /\ vector.base_time = 1
           /\ 3 * daily_factor(vector.apr) <= 4 * INT_SCALE
           /\ \A e \in Nat : e <= MAX_DAYS * SECONDS_IN_DAY + vector.price_fix_duration =>
                 Accurate(vector.base_price, vector.apr, e \div SECONDS_IN_DAY)
<1> DEFINE p == vector.base_price
           a == vector.apr
           d == vector.price_fix_duration
           S == SECONDS_IN_DAY
           M == MAX_DAYS * S
<1>1. p \in BasePriceArgs /\ a \in AprArgs /\ d \in DurationArgs /\ vector.base_time = 1
  BY DEF VectorTyped, Vectors
<1>2. p \in Nat \ {0} /\ a \in Nat /\ d \in Nat \ {0} /\ S \in Nat \ {0} /\ M \in Nat
  BY <1>1, VectorAssumption, PricingAssumption, NatProduct
<1>3. /\ 3 * daily_factor(a) <= 4 * INT_SCALE
      /\ \A n \in PricedDays(d) : Accurate(p, a, n)
  <2> HIDE DEF p, a, d
  <2>1. QED
    BY <1>1, AccuracyAssumption DEF Accurate
<1>4. ASSUME NEW e \in Nat, e <= M + d PROVE Accurate(p, a, e \div S)
  <2> HIDE DEF p, a, d, S, M
  <2>1. e \div S \in Nat /\ e \div S <= (M + d) \div S
    <3>1. M + d \in Int
      BY <1>2
    <3>2. e \div S <= (M + d) \div S
      BY <1>2, <1>4, <3>1, QuotientMonotone
    <3>3. QED
      BY <1>2, <3>2, QuotientNat
  <2>2. (M + d) \div S \in Nat
    <3>1. M + d \in Nat
      BY <1>2
    <3>2. QED
      BY <1>2, <3>1, QuotientNat
  <2>3. e \div S \in PricedDays(d)
    BY <2>1, <2>2 DEF PricedDays, M, S
  <2>4. QED
    BY <1>3, <2>3
<1>5. QED
  BY <1>1, <1>2, <1>3, <1>4

\* PriceIsCompounded for all scales, vectors and days that AccuracyAssumption
\* allows: the n roundings of pow_fixed and the last one together move the price
\* of calculate_vector_price by less than one unit.
THEOREM PriceFollowsCompounding == VectorSpec => []PriceIsCompounded
<1>1. ASSUME VectorTyped PROVE PriceIsCompounded
  <2> DEFINE S == SECONDS_IN_DAY
             p == vector.base_price
             a == vector.apr
             n == (now - 1) \div S
             e == n * S
             c == calculate_vector_price(a, p, e)
             X == p * power(daily_factor(a), n)
             z == power(INT_SCALE, n)
  <2>1. S \in Nat \ {0} /\ INT_SCALE \in Nat \ {0} /\ MAX_DAYS * S \in Nat
    BY PricingAssumption, VectorAssumption, NatProduct
  <2>2. now - 1 \in Nat /\ now - 1 <= MAX_DAYS * S
    BY <1>1 DEF VectorTyped
  <2>3. /\ p \in Nat \ {0} /\ a \in Nat /\ vector.price_fix_duration \in Nat
        /\ \A l \in Nat : l <= MAX_DAYS * S + vector.price_fix_duration => Accurate(p, a, l \div S)
    BY <1>1, VectorParts
  <2>4. n \in Nat
    <3> HIDE DEF S
    <3>1. QED
      BY <2>1, <2>2, QuotientNat
  <2>5. Accurate(p, a, n)
    <3> DEFINE M == MAX_DAYS * S
    <3>1. M \in Nat /\ now - 1 <= M
      BY <2>1, <2>2
    <3> HIDE DEF M
    <3>2. now - 1 <= M + vector.price_fix_duration
      BY <2>2, <2>3, <3>1
    <3>3. QED
      BY <2>2, <2>3, <3>2 DEF M
  <2>6. PriceIsCompounded <=> (c - 1) * z <= X /\ X <= (c + 1) * z
    BY DEF PriceIsCompounded
  <2> HIDE DEF n, p, a, S
  <2>7. e \in Nat /\ e \div S = n /\ (e % S) = 0 /\ (e = 0 => n = 0)
    BY <2>1, <2>4
  <2> HIDE DEF e
  <2>8. CASE a = 0 \/ e = 0
    <3>1. c = p
      BY <2>8, VectorPriceIs
    <3>2. X = p * z
      <4>1. CASE a = 0
        <5>1. daily_factor(a) = INT_SCALE
          <6> DEFINE year == YIELD_SCALE * DAYS_IN_YEAR
          <6>1. year \in Nat \ {0}
            BY ScaleAssumption, PricingAssumption
          <6>2. daily_factor(a) = INT_SCALE + (INT_SCALE * 0 + year \div 2) \div year
            BY <4>1 DEF daily_factor
          <6> HIDE DEF year
          <6>3. INT_SCALE * 0 + year \div 2 = year \div 2
            BY <2>1, <6>1
          <6>4. (year \div 2) \div year = 0
            <7>1. year \div 2 \in Nat /\ year \div 2 < year
              BY <6>1
            <7>2. QED
              BY <6>1, <7>1
          <6>5. QED
            BY <2>1, <6>2, <6>3, <6>4
        <5>2. QED
          BY <5>1
      <4>2. CASE e = 0
        <5>1. n = 0 /\ daily_factor(a) \in Nat /\ INT_SCALE \in Nat
          BY <2>1, <2>3, <2>7, <4>2, DailyFactor
        <5>2. power(daily_factor(a), 0) = 1 /\ power(INT_SCALE, 0) = 1
          BY <5>1, PowerIs
        <5>3. QED
          BY <5>1, <5>2
      <4>3. QED
        BY <2>8, <4>1, <4>2
    <3>3. z \in Nat
      BY <2>1, <2>4, PowerIs
    <3> HIDE DEF z, X
    <3>4. p \in Nat /\ (p - 1) * z = p * z - z /\ (p + 1) * z = p * z + z /\ p * z \in Nat
      BY <2>3, <3>3, NatProduct
    <3> DEFINE pz == p * z
    <3>5. pz \in Nat /\ X = pz /\ (p - 1) * z = pz - z /\ (p + 1) * z = pz + z
      BY <3>2, <3>4
    <3> HIDE DEF pz
    <3>6. (p - 1) * z <= X /\ X <= (p + 1) * z
      BY <3>3, <3>5
    <3>7. QED
      BY <2>6, <3>1, <3>6
  <2>9. CASE ~(a = 0 \/ e = 0)
    <3> DEFINE t == Today(p, a, n)
               d == Tomorrow(p, a, n) - t
    <3>1. c = Line(p, a, n, 0)
      BY <2>7, <2>9, VectorPriceIs DEF S
    <3>2. /\ t \in Nat /\ X \in Nat /\ z \in Nat \ {0}
          /\ 8 * (t * z) <= 8 * X + 5 * z /\ 8 * X <= 8 * (t * z) + 5 * z
      BY <2>3, <2>4, <2>5, TodayIsNear
    <3>3. Tomorrow(p, a, n) \in Nat
      BY <1>1, <2>3, <2>4, <2>5, TomorrowIsNear, VectorParts DEF a
    <3>4. c = t + (d * 0 + S \div 2) \div S
      BY <3>1 DEF Line, mul_div_round_u128, S
    <3>5. d \in Int
      <4> HIDE DEF t
      <4>1. QED
        BY <3>2, <3>3
    <3> HIDE DEF d, t, X, z, c
    <3>6. (d * 0 + S \div 2) \div S = 0
      <4>1. d * 0 + S \div 2 = S \div 2
        BY <2>1, <3>5
      <4>2. S \div 2 \in Nat /\ S \div 2 < S
        BY <2>1
      <4>3. (S \div 2) \div S = 0
        BY <2>1, <4>2
      <4>4. QED
        BY <4>1, <4>3
    <3>7. c = t
      BY <3>2, <3>4, <3>6
    <3> DEFINE tz == t * z
    <3>8. tz \in Nat /\ (t - 1) * z = tz - z /\ (t + 1) * z = tz + z
      BY <3>2, NatProduct
    <3>9. 8 * tz <= 8 * X + 5 * z /\ 8 * X <= 8 * tz + 5 * z
      BY <3>2
    <3> HIDE DEF tz
    <3>10. (t - 1) * z <= X /\ X <= (t + 1) * z
      BY <3>2, <3>8, <3>9
    <3>11. QED
      BY <2>6, <3>7, <3>10
  <2>10. QED
    BY <2>8, <2>9
<1>2. QED
  BY <1>1, VectorsTyped, PTL

\* PriceFallsByRoundingOnly likewise: from one second to the next, over the end
\* of a step or of one or more days, calculate_step_price_at loses at most one
\* unit.
THEOREM PriceFallsByAUnit == VectorSpec => PriceFallsByRoundingOnly
<1>1. ASSUME VectorTyped, Wait PROVE Price' >= Price - 1
  <2> DEFINE p == vector.base_price
             a == vector.apr
             d == vector.price_fix_duration
             k == (now - 1) \div d
             l == now \div d
             e == (k + 1) * d
             f == (l + 1) * d
             S == SECONDS_IN_DAY
             M == MAX_DAYS * S
  <2>1. S \in Nat \ {0} /\ M \in Nat
    BY PricingAssumption, VectorAssumption, NatProduct
  <2>2. now \in Nat /\ now - 1 \in Nat /\ now <= M
    BY <1>1, <2>1 DEF VectorTyped, Wait
  <2>3. /\ p \in Nat \ {0} /\ a \in Nat /\ d \in Nat \ {0} /\ vector.base_time = 1
        /\ 3 * daily_factor(a) <= 4 * INT_SCALE
        /\ \A x \in Nat : x <= M + d => Accurate(p, a, x \div S)
    BY <1>1, VectorParts
  <2>4. Price = calculate_vector_price(a, p, e)
    BY <2>3 DEF Price, calculate_step_price_at, step_end_time
  <2>5. Price' = calculate_vector_price(a, p, f)
    <3>1. vector' = vector /\ now' = now + 1
      BY <1>1 DEF Wait
    <3>2. Price' = calculate_step_price_at(vector, now + 1)
      BY <3>1 DEF Price
    <3>3. (now + 1) - 1 = now
      BY <2>2
    <3>4. QED
      BY <2>3, <3>2, <3>3 DEF calculate_step_price_at, step_end_time
  <2> HIDE DEF p, a, d, S, M
  <2>6. k \in Nat /\ l \in Nat /\ k <= l /\ k * d <= now - 1 /\ l * d <= now
    <3>1. k \in Nat /\ l \in Nat
      BY <2>2, <2>3, QuotientNat
    <3>2. k * d <= now - 1 /\ l * d <= now
      BY <2>2, <2>3, Division
    <3>3. now - 1 \in Int /\ now \in Int /\ now - 1 <= now
      BY <2>2
    <3>4. k <= l
      BY <2>3, <3>3, QuotientMonotone
    <3>5. QED
      BY <3>1, <3>2, <3>4
  <2> HIDE DEF k, l
  <2>7. e \in Nat \ {0} /\ f \in Nat /\ e <= f /\ e <= M + d /\ f <= M + d
    <3> DEFINE kd == k * d
               ld == l * d
    <3>1. kd \in Nat /\ ld \in Nat /\ e = kd + d /\ f = ld + d /\ kd <= now - 1 /\ ld <= now
      BY <2>3, <2>6, NatProduct
    <3>2. kd <= ld
      BY <2>3, <2>6, ProductMonotone
    <3> HIDE DEF kd, ld, e, f
    <3>3. QED
      BY <2>1, <2>2, <2>3, <3>1, <3>2
  <2> HIDE DEF e, f
  <2>8. Accurate(p, a, e \div S) /\ Accurate(p, a, f \div S)
    BY <2>3, <2>7
  <2>9. calculate_vector_price(a, p, f) >= calculate_vector_price(a, p, e) - 1
    BY <2>3, <2>7, <2>8, LaterPrice DEF S
  <2>10. QED
    BY <2>4, <2>5, <2>9
<1>2. VectorTyped /\ [Wait]_<<vector, now>> => [Price' >= Price - 1]_<<vector, now>>
  BY <1>1
<1>3. QED
  BY <1>2, VectorsTyped, PTL DEF VectorSpec, PriceFallsByRoundingOnly
=============================================================================
