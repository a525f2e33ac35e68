----------------------------- MODULE Arithmetic -----------------------------
(***************************************************************************)
(* What the program's arithmetic (OnreMath) promises, over calls with any  *)
(* arguments.  A state is one call's arguments; a step is the next call.   *)
(***************************************************************************)
EXTENDS OnreMath

CONSTANTS
    AmountArgs,   \* token amounts and supplies
    PriceArgs,    \* prices and NAVs, not 0
    RateArgs,     \* APRs
    BpsArgs,      \* shares in basis points
    SecondArgs    \* elapsed seconds

ASSUME ArgumentAssumption ==
    /\ AmountArgs \subseteq Nat
    /\ PriceArgs \subseteq Nat \ {0}
    /\ RateArgs \subseteq Nat
    /\ BpsArgs \subseteq 0..MAX_BASIS_POINTS
    /\ SecondArgs \subseteq Nat

VARIABLE args

Arguments ==
    [amount : AmountArgs, price : PriceArgs, rate : RateArgs, current_rate : RateArgs,
     fee : BpsArgs, perf : BpsArgs, seconds : SecondArgs, adjustment : AmountArgs]

ArithmeticInit == args \in Arguments

ArithmeticNext ==
    \E n \in AmountArgs : n # args.amount /\ args' = [args EXCEPT !.amount = n]

ArithmeticSpec == ArithmeticInit /\ [][ArithmeticNext]_args

-----------------------------------------------------------------------------
\* Buying ONyc and redeeming it at the same price never returns more than was
\* paid: calculate_fees, calculate_token_out_amount and the pricing of
\* process_redemption_core all round against the user.
RoundTripNeverProfits ==
    LET bought == calculate_token_out_amount(
                      calculate_fees(args.amount, args.fee).net, args.price)
    IN  redemption_token_out(calculate_fees(bought, args.fee).net, args.price)
            <= args.amount

\* The gross accrual is the yield between the gross and the current APR, no
\* less and no more: valued at the grown price, the supply with the accrual is
\* worth at most the baseline grown at the gross APR, and one more token would
\* be too many (calculate_gross_buffer_accrual).
AccrualIsTheGrossYield ==
    LET year   == SECONDS_PER_YEAR * YIELD_SCALE
        minted == calculate_gross_buffer_accrual(args.amount, args.rate,
                      args.current_rate, args.seconds)
        grown  == year + args.current_rate * args.seconds
        limit  == args.amount * (year + args.rate * args.seconds)
    IN  args.rate >= args.current_rate =>
          /\ (args.amount + minted) * grown <= limit
          /\ (args.amount + minted + 1) * grown > limit

\* The three parts of an accrual are not negative and add up to it, for any
\* rates, also when the management rate exceeds the APR difference and whether
\* or not the performance fee is due (calculate_buffer_fee_split).
SplitIsConserved ==
    \A watermark \in PriceArgs, hwmEnabled \in BOOLEAN :
        LET delta == saturating_sub(args.rate, args.current_rate)
            split == calculate_buffer_fee_split(args.amount, delta, args.fee,
                         args.perf, args.price, watermark, hwmEnabled)
        IN  /\ split.mgmt >= 0 /\ split.perf >= 0 /\ split.reserve >= 0
            /\ split.mgmt + split.perf + split.reserve = args.amount

\* burn_for_nav_increase leaves the smallest supply that, at the quoted NAV, is
\* worth the total value less the adjustment (calculate_burn_amount): one
\* token less would be worth less than that.
BurnLeavesExactlyEnough ==
    LET tvl  == calculate_tvl(args.amount, args.price)
        left == args.amount
                    - calculate_burn_amount(args.amount, tvl, args.adjustment, args.price)
    IN  args.adjustment <= tvl =>
          /\ left * args.price >= (tvl - args.adjustment) * PRICE_SCALE
          /\ (left - 1) * args.price < (tvl - args.adjustment) * PRICE_SCALE
=============================================================================
