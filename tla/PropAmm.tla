------------------------------ MODULE PropAmm -------------------------------
(***************************************************************************)
(* The Prop AMM (instructions/prop_amm): immediate buys and sells of ONyc  *)
(* against the offer's price.  A buy pays like a permissionless take.  A   *)
(* sell is a redemption at once, paid from the redemption vault with a     *)
(* haircut that grows with the pair's recent sell pressure.                *)
(***************************************************************************)
EXTENDS OfferTaking, Redemption, SellCurve

\* PropAmmPairState as init_if_needed creates it.
NoPair ==
    [config |-> [enabled |-> FALSE, curve_peg_haircut_bps |-> 0,
                 curve_exponent_scaled |-> 0, cadence_threshold |-> 0,
                 cadence_wave_scaled |-> 0, epoch_duration_seconds |-> 0,
                 wall_sensitivity_scaled |-> 0, minimum_sell_haircut_onyc |-> 0],
     curr_sell_value_stable |-> 0, curr_buy_value_stable |-> 0,
     prev_net_sell_value_stable |-> 0, curr_sell_trade_count |-> 0, epoch_start |-> 0]

\* The checks of configure_prop_amm on its arguments.
valid_config(c) ==
    /\ c.curve_peg_haircut_bps <= MAX_BASIS_POINTS
    /\ c.curve_exponent_scaled \in CURVE_EXPONENT_STEP..(10 * CURVE_EXPONENT_SCALE)
    /\ c.curve_exponent_scaled % CURVE_EXPONENT_STEP = 0
    /\ c.cadence_threshold > 0
    /\ c.cadence_wave_scaled <= MAX_CADENCE_WAVE_SCALED
    /\ c.cadence_wave_scaled % CADENCE_WAVE_STEP = 0
    /\ c.epoch_duration_seconds > 0
    /\ c.wall_sensitivity_scaled > 0

\* configure_prop_amm by the boss, under the kill switch too.  The pressure
\* recorded so far stays.
configure_prop_amm(a, c) ==
    /\ offers[a].made
    /\ valid_config(c)
    /\ prop_amm' = [prop_amm EXCEPT
           ![a].config = c,
           ![a].epoch_start = IF @ = 0 THEN clock ELSE @]
    /\ UNCHANGED <<clock, state, offers, redemption_offers, requests, mint_authority,
                   onyc, asset, buffer, excluded, market_stats, destinations>>

\* The checks that quotes and swaps start with (validate_prop_amm_pair_for_side;
\* a pair's state, offer and mints are addressed by its asset).
may_swap(a) ==
    /\ ~state.is_killed
    /\ prop_amm[a].config.enabled
    /\ offers[a].made /\ ~offers[a].disabled

-----------------------------------------------------------------------------
\* The ONyc leg of a buy: minted to the buyer, or from the offer vault through
\* the intermediary.
swap_buy_ledger(ledger, out) ==
    IF program_controls_mint THEN mint_tokens(ledger, "wallets", out)
    ELSE token_out_ledger(ledger, TRUE, out)

can_swap_buy_out(ledger, out) ==
    IF program_controls_mint THEN can_mint(ledger, "wallets", out)
    ELSE /\ can_transfer(ledger.bal, "offer_vault", "permissionless", out)
         /\ \A x \in OnycAccounts : Fits(token_out_ledger(ledger, TRUE, out).bal[x])

\* open_swap_buy by anyone.
open_swap_buy(a, amount, minimumOut) ==
    LET fee     == offers[a].fee_basis_points_permissionless
        result  == process_offer_core(a, amount, fee)
        refill  == calculate_redemption_vault_refill_amount(market_stats.tvl,
                       redemption_vault_target_bps(a),
                       asset[a]["redemption_vault"], result.net)
        paid    == token_in_ledger(a, amount, TRUE, refill, "prop_amm_proceeds",
                       result.net - refill, "prop_amm_buy_fee", result.fee)
        accrual == accrued
        ledger  == swap_buy_ledger(accrual.onyc, result.out)
    IN  /\ may_swap(a)
        /\ offers[a].allow_permissionless
        /\ can_process_offer(a, amount, fee)
        /\ result.out >= minimumOut
        /\ main_offer_set
        /\ accrual_succeeds
        /\ amount <= asset[a]["wallets"]
        /\ \A x \in AssetAccounts : Fits(paid[x])
        /\ can_record_buy(prop_amm[a], result.net, clock)
        /\ can_swap_buy_out(accrual.onyc, result.out)
        /\ post_supply_fits(accrual, result.out)
        /\ can_refresh_market_stats(ledger.supply)
        /\ asset' = [asset EXCEPT ![a] = paid]
        /\ prop_amm' = [prop_amm EXCEPT ![a] = record_prop_amm_buy(@, result.net, clock)]
        /\ onyc' = ledger
        /\ buffer' = store_buffer_post_supply(accrual, result.out)
        /\ market_stats' = refreshed_market_stats(ledger.supply)
        /\ UNCHANGED <<clock, state, offers, redemption_offers, requests,
                       mint_authority, excluded, destinations>>

-----------------------------------------------------------------------------
\* redemption_offer_config: the sell fee and the vault target; a redemption
\* offer that was never made has neither, a disabled one forbids the sell.
sell_fee(a) ==
    IF redemption_offers[a].made THEN redemption_offers[a].fee_basis_points_prop_amm_sell
    ELSE 0

sell_target(a) == IF redemption_offers[a].made THEN redemption_offers[a].vault_target_bps ELSE 0

\* The raw value of a sell.
sell_result(a, amount) ==
    process_redemption_core(a, amount, sell_fee(a),
                            prop_amm[a].config.minimum_sell_haircut_onyc)

\* What a sell pays when the TVL is `tvl` (build_swap_sell_quote).
sell_output(a, amount, tvl) ==
    LET liquidity == asset[a]["redemption_vault"]
    IN  apply_hard_wall_liquidity_factor(sell_result(a, amount).out, liquidity,
            resolve_hard_wall_reserve(tvl, liquidity, sell_target(a)), prop_amm[a], clock)

\* A sell has a price when the TVL is `tvl`.
can_price_sell(a, amount, tvl) ==
    LET liquidity == asset[a]["redemption_vault"]
    IN  /\ redemption_offers[a].made => ~redemption_offers[a].disabled
        /\ can_resolve_reserve(tvl, sell_target(a))
        /\ can_process_redemption(a, amount, sell_fee(a),
                                  prop_amm[a].config.minimum_sell_haircut_onyc)
        /\ can_apply_hard_wall(sell_result(a, amount).out, liquidity,
               resolve_hard_wall_reserve(tvl, liquidity, sell_target(a)),
               prop_amm[a], clock)
        /\ Fits(sell_output(a, amount, tvl))

\* quote_swap_sell prices against the cached market statistics.
quote_swap_sell(a, amount) == sell_output(a, amount, market_stats.tvl)

can_quote_swap_sell(a, amount) ==
    may_swap(a) /\ can_price_sell(a, amount, market_stats.tvl)

\* The ledger after a seller's ONyc has gone into the redemption vault.
onyc_received(ledger, amount) ==
    [ledger EXCEPT !.bal = transfer_tokens(@, "wallets", "redemption_vault", amount)]

\* open_swap_sell by anyone.  The market statistics are refreshed first, so
\* that the wall stands on the supply before the accrual; the pressure of this
\* sell is recorded after its price is fixed.
open_swap_sell(a, amount, minimumOut) ==
    LET tvl      == refreshed_market_stats(onyc.supply).tvl
        result   == sell_result(a, amount)
        out      == sell_output(a, amount, tvl)
        accrual  == accrued
        received == onyc_received(accrual.onyc, amount)
        ledger   == take_token_in(received, result.net, "prop_amm_proceeds",
                                  result.fee, "prop_amm_sell_fee")
    IN  /\ may_swap(a)
        /\ can_refresh_market_stats(onyc.supply)
        /\ can_price_sell(a, amount, tvl)
        /\ accrual_succeeds
        /\ out >= minimumOut
        /\ can_record_sell(prop_amm[a], result.out, clock)
        /\ can_transfer(accrual.onyc.bal, "wallets", "redemption_vault", amount)
        /\ can_take_token_in(received, result.net, "prop_amm_proceeds",
                             result.fee, "prop_amm_sell_fee")
        /\ can_transfer(asset[a], "redemption_vault", "wallets", out)
        /\ post_supply_fits(accrual, -result.net)
        /\ program_controls_mint => can_refresh_market_stats(ledger.supply)
        /\ prop_amm' = [prop_amm EXCEPT ![a] = record_prop_amm_sell(@, result.out, clock)]
        /\ onyc' = ledger
        /\ asset' = [asset EXCEPT
               ![a] = transfer_tokens(@, "redemption_vault", "wallets", out)]
        /\ buffer' = store_buffer_post_supply(accrual, -result.net)
        /\ market_stats' = refreshed_market_stats(IF program_controls_mint
                                                  THEN ledger.supply ELSE onyc.supply)
        /\ UNCHANGED <<clock, state, offers, redemption_offers, requests,
                       mint_authority, excluded, destinations>>
=============================================================================
