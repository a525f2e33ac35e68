----------------------------- MODULE OnreHistory ----------------------------
(***************************************************************************)
(* Properties of Onre about what has happened so far.  Variables that the  *)
(* program does not have record it.                                        *)
(***************************************************************************)
EXTENDS MCOnre

VARIABLES
    budget,         \* the gross yield of each second so far, times a year
    accrual_minted, \* the ONyc that accruals have minted so far
    last_sell       \* when the last sell of each pair was made; at first, the start

\* The gross yield, times a year, of the interval that is not settled yet.
Pending ==
    buffer.previous_supply * buffer.gross_apr * (clock - buffer.last_accrual_timestamp)

HistoryInit ==
    /\ Init
    /\ budget = Pending
    /\ accrual_minted = 0
    /\ last_sell = [a \in Assets |-> Initial.clock]

\* The seconds that a step lets pass earn on the baseline they begin with.
Earned == buffer.previous_supply * buffer.gross_apr * (clock' - clock)

\* By how much the ledger holds more for the reserve and the fees than now.
Risen(ledger) ==
    LET rise(x) == saturating_sub(ledger.bal[x], onyc.bal[x])
    IN  rise("reserve") + rise("management_fee") + rise("performance_fee")

\* What the accrual of a step has minted.  Accruals alone mint to the reserve
\* and the fees; a deposit to the reserve is no accrual, and what a burn for
\* NAV takes from the reserve leaves with the accrual it has made.
AccrualMint ==
    IF \E amount \in Inputs.reserve : deposit_reserve_vault(amount) THEN 0
    ELSE IF \E adjustment \in Inputs.adjustment : burn_for_nav_increase(adjustment)
         THEN Risen(accrue_buffer.onyc)
         ELSE Risen(onyc')

\* A pair in whose tracker this step has recorded a sell.
Sold(a) ==
    \E amount \in Inputs.swap, minimumOut \in Inputs.minimum_out :
        open_swap_sell(a, amount, minimumOut)

HistoryNext ==
    /\ Next
    /\ budget' = budget + Earned
    /\ accrual_minted' = accrual_minted + AccrualMint
    /\ last_sell' = [a \in Assets |->
           IF prop_amm'[a] # prop_amm[a] /\ Sold(a) THEN clock ELSE last_sell[a]]

historyVars == <<vars, budget, accrual_minted, last_sell>>

HistorySpec == HistoryInit /\ [][HistoryNext]_historyVars

\* All that accruals have ever minted is at most the gross APR on the baseline
\* of every second, each second counted once (accrue_buffer.rs,
\* set_buffer_baseline_after_supply_change): also when the mint authority is
\* away for part of an interval and the accrual skipped, when the main offer
\* or its vectors change before the interval is settled, when holders mint and
\* burn, when the supply cap makes accruals fail and the callers retry, and
\* whatever is burnt or withdrawn of it afterwards.
AccrualWithinBudget == accrual_minted * SECONDS_PER_YEAR * YIELD_SCALE <= budget

\* The longest epoch a pair is ever configured with.
LongestEpoch ==
    Max({c.epoch_duration_seconds :
            c \in Inputs.prop_amm \union {Initial.prop_amm[a].config : a \in Assets}})

\* Three epochs after the last sell of a pair nothing is left of its pressure,
\* although every trade in between may roll the tracker and start an epoch of
\* its own (roll_prop_amm_volume_tracker), and a new configuration may read it
\* with an epoch of another length.
PressureIsForgotten ==
    \A a \in Assets :
        clock >= last_sell[a] + 3 * LongestEpoch => Pressure(a) = 0
=============================================================================
