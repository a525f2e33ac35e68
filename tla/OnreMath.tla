------------------------------ MODULE OnreMath ------------------------------
(***************************************************************************)
(* The integer arithmetic of the program, one operator per Rust function.  *)
(*                                                                         *)
(* The Rust functions compute in u128 and fail (`checked_*`, `require!`)   *)
(* when a result does not fit u64.  An operator here returns the           *)
(* mathematical result; Fits(r) says that the Rust function returns it,    *)
(* and the instruction that calls it has Fits(r) among its guards.  The    *)
(* factors are u64 and the divisors large enough that no intermediate      *)
(* leaves u128 while the result fits u64; the one exception is the         *)
(* compounding of OfferPricing, which says itself when it returns.  The    *)
(* fixed-point scales are constants so that TLC can use small ones.        *)
(***************************************************************************)
EXTENDS Integers

CONSTANTS
    U64_MAX,            \* largest u64
    MAX_BASIS_POINTS,   \* 100% in basis points (10_000)
    YIELD_SCALE,        \* 100% as an APR (1_000_000)
    SECONDS_PER_YEAR,   \* 31_536_000
    PRICE_SCALE,        \* 10^PRICE_DECIMALS (10^9)
    ONYC_UNIT,          \* 10^decimals of the ONyc mint
    ASSET_UNIT          \* 10^decimals of the asset mints

ASSUME ScaleAssumption ==
    /\ U64_MAX \in Nat \ {0}
    /\ MAX_BASIS_POINTS \in Nat \ {0}
    /\ YIELD_SCALE \in Nat \ {0}
    /\ SECONDS_PER_YEAR \in Nat \ {0}
    /\ PRICE_SCALE \in Nat \ {0}
    /\ ONYC_UNIT \in Nat \ {0}
    /\ ASSET_UNIT \in Nat \ {0}

\* The values of a u64.
U64 == 0..U64_MAX

\* A checked computation returns r: it neither underflows nor leaves u64.
Fits(r) == r \in U64

-----------------------------------------------------------------------------
\* math_utils::ceil_div_u128, for d > 0.
ceil_div_u128(n, d) == (n + d - 1) \div d

\* token_utils::calculate_fees: the fee is rounded up; `net` is the rest (a
\* `checked_sub`, so a negative net stands for the error).
calculate_fees(amount, bps) ==
    LET fee == ceil_div_u128(amount * bps, MAX_BASIS_POINTS)
    IN  [fee |-> fee, net |-> amount - fee]

\* Mutant: rounded up, in the buyer's favour.
token_out_rounded_up(net, price) ==
    ceil_div_u128(net * ONYC_UNIT * PRICE_SCALE, price * ASSET_UNIT)

\* token_utils::calculate_token_out_amount, for an offer that takes an asset
\* and pays ONyc.  The caller requires a positive price and a positive result.
calculate_token_out_amount(net, price) ==
    (net * ONYC_UNIT * PRICE_SCALE) \div (price * ASSET_UNIT)

\* Mutant: rounded up, in the redeemer's favour.
redemption_out_rounded_up(net, price) ==
    ceil_div_u128(net * price * ASSET_UNIT, ONYC_UNIT * PRICE_SCALE)

\* The pricing step of redemption_utils::process_redemption_core: the asset
\* paid for `net` ONyc.  The caller requires a positive result.
redemption_token_out(net, price) ==
    (net * price * ASSET_UNIT) \div (ONYC_UNIT * PRICE_SCALE)

-----------------------------------------------------------------------------
\* u64::saturating_sub
saturating_sub(a, b) == IF a > b THEN a - b ELSE 0

\* Ord::min and Ord::max
min_of(a, b) == IF a <= b THEN a ELSE b
max_of(a, b) == IF a >= b THEN a ELSE b

\* Mutant: the growth of the accrued tokens themselves is forgotten.
gross_accrual_undiscounted(previousSupply, grossYield, currentYield, secs) ==
    (previousSupply * saturating_sub(grossYield, currentYield) * secs)
        \div (SECONDS_PER_YEAR * YIELD_SCALE)

\* accrual_utils::calculate_gross_buffer_accrual, with
\* calculate_accrual_from_apr_delta inlined (its early return for a zero
\* factor is the zero product).
calculate_gross_buffer_accrual(previousSupply, grossYield, currentYield, secs) ==
    (previousSupply * saturating_sub(grossYield, currentYield) * secs)
        \div (SECONDS_PER_YEAR * YIELD_SCALE + currentYield * secs)

\* BASIS_POINT_TO_YIELD_SCALE: one basis point as an APR.
BASIS_POINT_TO_YIELD_SCALE == YIELD_SCALE \div MAX_BASIS_POINTS

\* Whether accrual_utils::calculate_buffer_fee_split charges the performance
\* fee at NAV `nav` against the watermark `hwm`.
performance_fee_due(nav, hwm, hwmEnabled) ==
    ~hwmEnabled \/ (hwm # 0 /\ nav >= hwm)

\* Mutant: the performance fee is taken of the whole gross accrual and not
\* subtracted from the reserve.
fee_split_overlapping(gross, aprDelta, mgmtBps, perfBps, nav, hwm, hwmEnabled) ==
    LET mgmtApr == min_of(mgmtBps * BASIS_POINT_TO_YIELD_SCALE, aprDelta)
        mgmt    == IF aprDelta = 0 \/ gross = 0 THEN 0
                   ELSE (gross * mgmtApr) \div aprDelta
        perf    == (gross * perfBps) \div MAX_BASIS_POINTS
    IN  [mgmt |-> mgmt, perf |-> perf, reserve |-> gross - mgmt,
         hwm |-> max_of(hwm, nav)]

\* Mutant: the watermark follows the NAV down.
fee_split_watermark_follows(gross, aprDelta, mgmtBps, perfBps, nav, hwm, hwmEnabled) ==
    [mgmt |-> 0, perf |-> 0, reserve |-> gross, hwm |-> nav]

\* accrual_utils::calculate_buffer_fee_split: the gross accrual split into the
\* management fee, the performance fee on the remainder and the reserve, with
\* the watermark raised to the NAV.
calculate_buffer_fee_split(gross, aprDelta, mgmtBps, perfBps, nav, hwm, hwmEnabled) ==
    LET mgmtApr == min_of(mgmtBps * BASIS_POINT_TO_YIELD_SCALE, aprDelta)
        mgmt    == IF aprDelta = 0 \/ gross = 0 THEN 0
                   ELSE (gross * mgmtApr) \div aprDelta
        perf    == IF performance_fee_due(nav, hwm, hwmEnabled)
                   THEN ((gross - mgmt) * perfBps) \div MAX_BASIS_POINTS
                   ELSE 0
    IN  [mgmt |-> mgmt, perf |-> perf, reserve |-> gross - mgmt - perf,
         hwm |-> max_of(hwm, nav)]

-----------------------------------------------------------------------------
\* market_stats::calculate_circulating_supply (a `checked_sub`).
calculate_circulating_supply(supply, excluded) == supply - excluded

\* market_stats::calculate_tvl
calculate_tvl(circulating, nav) == (circulating * nav) \div PRICE_SCALE

\* Mutant: the target supply is rounded down.
burn_amount_rounded_up(circulating, tvl, adjustment, nav) ==
    circulating - ((tvl - adjustment) * PRICE_SCALE) \div nav

\* burn_for_nav_increase::calculate_burn_amount for a total asset value `tvl`
\* at least the adjustment; the caller requires a positive result.
calculate_burn_amount(circulating, tvl, adjustment, nav) ==
    circulating - ceil_div_u128((tvl - adjustment) * PRICE_SCALE, nav)

\* Mutant: what the vault already holds is ignored.
refill_ignoring_balance(tvl, targetBps, vaultBalance, net) ==
    min_of((((tvl * targetBps) \div MAX_BASIS_POINTS) * ASSET_UNIT) \div ONYC_UNIT, net)

\* offer_utils::calculate_redemption_vault_refill_amount: the part of a net
\* inflow that fills the redemption vault up to its share of the cached TVL.
calculate_redemption_vault_refill_amount(tvl, targetBps, vaultBalance, net) ==
    LET target == (((tvl * targetBps) \div MAX_BASIS_POINTS) * ASSET_UNIT)
                      \div ONYC_UNIT
    IN  IF targetBps = 0 THEN 0
        ELSE min_of(saturating_sub(target, vaultBalance), net)
=============================================================================
