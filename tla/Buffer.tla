------------------------------- MODULE Buffer -------------------------------
(***************************************************************************)
(* The BUFFER instructions (instructions/buffer) and mint_to: each settles *)
(* the pending accrual before its own effect.                              *)
(***************************************************************************)
EXTENDS OnreState

\* BufferState before initialize_buffer creates it.
NoBuffer ==
    [initialized |-> FALSE, gross_apr |-> 0, previous_supply |-> 0,
     management_fee_basis_points |-> 0, performance_fee_basis_points |-> 0,
     performance_fee_high_watermark |-> 0,
     performance_fee_high_watermark_enabled |-> FALSE,
     last_accrual_timestamp |-> 0]

\* initialize_buffer by the boss; `init` fails if the account exists.
initialize_buffer ==
    /\ main_offer_set
    /\ ~buffer.initialized
    /\ buffer' = [NoBuffer EXCEPT
           !.initialized = TRUE,
           !.performance_fee_high_watermark_enabled = TRUE,
           !.last_accrual_timestamp = clock]
    /\ UNCHANGED <<clock, state, offers, redemption_offers, requests,
                   mint_authority, onyc, asset, excluded, market_stats, destinations, prop_amm>>

\* What settle_buffer, set_buffer_gross_apr and set_buffer_fee_config share:
\* accrue, reload the mint, refresh the market statistics.
accrue_and_refresh(accrual) ==
    /\ ~state.is_killed
    /\ buffer.initialized
    /\ program_controls_mint
    /\ can_accrue_buffer
    /\ can_refresh_market_stats(accrual.onyc.supply)
    /\ onyc' = accrual.onyc
    /\ market_stats' = refreshed_market_stats(accrual.onyc.supply)
    /\ UNCHANGED <<clock, state, offers, redemption_offers, requests,
                   mint_authority, asset, excluded, destinations, prop_amm>>

\* settle_buffer by the worker.
settle_buffer ==
    LET accrual == accrue_buffer
    IN  /\ accrue_and_refresh(accrual)
        /\ buffer' = accrual.buffer

\* set_buffer_gross_apr by the boss: the old APR is settled first.
set_buffer_gross_apr(apr) ==
    LET accrual == accrue_buffer
    IN  /\ apr <= MAX_BUFFER_GROSS_APR
        /\ apr # buffer.gross_apr
        /\ accrue_and_refresh(accrual)
        /\ buffer' = [accrual.buffer EXCEPT !.gross_apr = apr]

\* set_buffer_fee_config by the boss: the old settings are settled first.
set_buffer_fee_config(mgmt, perf, hwmEnabled) ==
    LET accrual == accrue_buffer
    IN  /\ mgmt <= MAX_BASIS_POINTS /\ perf <= MAX_BASIS_POINTS
        /\ \/ mgmt # buffer.management_fee_basis_points
           \/ perf # buffer.performance_fee_basis_points
           \/ hwmEnabled # buffer.performance_fee_high_watermark_enabled
        /\ accrue_and_refresh(accrual)
        /\ buffer' = [accrual.buffer EXCEPT
               !.management_fee_basis_points = mgmt,
               !.performance_fee_basis_points = perf,
               !.performance_fee_high_watermark_enabled = hwmEnabled]

\* burn_for_nav_increase by the boss: burn reserve ONyc so that the NAV stays
\* as quoted when `adjustment` of assets is written off.
burn_for_nav_increase(adjustment) ==
    LET accrual     == accrue_buffer
        circulating == calculate_circulating_supply(accrual.onyc.supply, excluded.amount)
        tvl         == calculate_tvl(circulating, current_nav)
        burn        == calculate_burn_amount(circulating, tvl, adjustment, current_nav)
        ledger      == burn_tokens(accrual.onyc, "reserve", burn)
    IN  /\ ~state.is_killed
        /\ buffer.initialized
        /\ program_controls_mint
        /\ can_accrue_buffer
        /\ current_nav > 0
        /\ Fits(circulating) /\ Fits(tvl)
        /\ adjustment <= tvl
        /\ burn > 0
        /\ can_burn(accrual.onyc, "reserve", burn)
        /\ can_refresh_market_stats(ledger.supply)
        /\ onyc' = ledger
        /\ buffer' = set_buffer_baseline(accrual.buffer,
                                         accrual.buffer.previous_supply - burn)
        /\ market_stats' = refreshed_market_stats(ledger.supply)
        /\ UNCHANGED <<clock, state, offers, redemption_offers, requests,
                       mint_authority, asset, excluded, destinations, prop_amm>>

\* deposit_reserve_vault by any holder, withdraw_reserve_vault by the boss.
move_reserve(from, to, amount) ==
    /\ ~state.is_killed
    /\ buffer.initialized
    /\ can_transfer(onyc.bal, from, to, amount)
    /\ onyc' = [onyc EXCEPT !.bal = transfer_tokens(@, from, to, amount)]
    /\ UNCHANGED <<clock, state, offers, redemption_offers, requests,
                   mint_authority, asset, buffer, excluded, market_stats,
                   destinations, prop_amm>>

deposit_reserve_vault(amount) == move_reserve("wallets", "reserve", amount)

withdraw_reserve_vault(amount) == move_reserve("reserve", "wallets", amount)

\* mint_to by the boss.  The mint is reloaded after the accrual, so the supply
\* cap sees the accrued supply.
mint_to(amount) ==
    LET accrual == accrued
        ledger  == mint_tokens(accrual.onyc, "wallets", amount)
    IN  /\ ~state.is_killed
        /\ main_offer_set
        /\ program_controls_mint
        /\ accrual_succeeds
        /\ can_mint(accrual.onyc, "wallets", amount)
        /\ post_supply_fits(accrual, amount)
        /\ can_refresh_market_stats(ledger.supply)
        /\ onyc' = ledger
        /\ buffer' = store_buffer_post_supply(accrual, amount)
        /\ market_stats' = refreshed_market_stats(ledger.supply)
        /\ UNCHANGED <<clock, state, offers, redemption_offers, requests,
                       mint_authority, asset, excluded, destinations, prop_amm>>
=============================================================================
