----------------------------- MODULE Redemption -----------------------------
(***************************************************************************)
(* Redemption offers and requests (instructions/redemption).  A request    *)
(* locks ONyc in the redemption vault; the worker fulfils it in parts, the *)
(* redeemer, the worker or the boss cancels what is left of it.  Every     *)
(* redemption offer shares one vault, which also holds the assets paid     *)
(* out.                                                                    *)
(***************************************************************************)
EXTENDS OnreState

\* RedemptionOffer before make_redemption_offer creates it.
NoRedemptionOffer ==
    [made |-> FALSE, disabled |-> FALSE, fee_basis_points |-> 0,
     fee_basis_points_prop_amm_sell |-> 0, vault_target_bps |-> 0, executed_redemptions |-> 0,
     requested_redemptions |-> 0, request_counter |-> 0]

\* Mutant: what was fulfilled is forgotten.
remaining_forgetting_fulfilled(r) == r.amount

\* What is left of a request.
remaining(r) == r.amount - r.fulfilled_amount

\* Mutant: the underlying offer need not exist.
can_make_without_offer(a, fee, sellFee) ==
    /\ ~redemption_offers[a].made
    /\ fee <= MAX_ALLOWED_FEE_BPS /\ sellFee <= MAX_ALLOWED_FEE_BPS

\* The checks of make_redemption_offer; `init` fails if the account exists.
can_make_redemption_offer(a, fee, sellFee) ==
    /\ offers[a].made
    /\ ~redemption_offers[a].made
    /\ fee <= MAX_ALLOWED_FEE_BPS /\ sellFee <= MAX_ALLOWED_FEE_BPS

\* make_redemption_offer by the boss.
make_redemption_offer(a, fee, sellFee) ==
    /\ can_make_redemption_offer(a, fee, sellFee)
    /\ redemption_offers' = [redemption_offers EXCEPT
           ![a] = [NoRedemptionOffer EXCEPT !.made = TRUE, !.fee_basis_points = fee,
                       !.fee_basis_points_prop_amm_sell = sellFee]]
    /\ UNCHANGED <<clock, state, offers, requests, mint_authority, onyc, asset,
                   buffer, excluded, market_stats, destinations, prop_amm>>

\* update_redemption_offer_fee by the boss.
update_redemption_offer_fee(a, fee) ==
    /\ redemption_offers[a].made
    /\ fee <= MAX_ALLOWED_FEE_BPS
    /\ fee # redemption_offers[a].fee_basis_points
    /\ redemption_offers' = [redemption_offers EXCEPT ![a].fee_basis_points = fee]
    /\ UNCHANGED <<clock, state, offers, requests, mint_authority, onyc, asset,
                   buffer, excluded, market_stats, destinations, prop_amm>>

\* update_redemption_offer_prop_amm_sell_fee by the boss.
update_redemption_offer_prop_amm_sell_fee(a, fee) ==
    /\ redemption_offers[a].made
    /\ fee <= MAX_ALLOWED_FEE_BPS
    /\ fee # redemption_offers[a].fee_basis_points_prop_amm_sell
    /\ redemption_offers' = [redemption_offers EXCEPT
           ![a].fee_basis_points_prop_amm_sell = fee]
    /\ UNCHANGED <<clock, state, offers, requests, mint_authority, onyc, asset,
                   buffer, excluded, market_stats, destinations, prop_amm>>

\* update_redemption_offer_vault_target by the boss.
update_redemption_offer_vault_target(a, target) ==
    /\ redemption_offers[a].made
    /\ target <= MAX_BASIS_POINTS
    /\ target # redemption_offers[a].vault_target_bps
    /\ redemption_offers' = [redemption_offers EXCEPT ![a].vault_target_bps = target]
    /\ UNCHANGED <<clock, state, offers, requests, mint_authority, onyc, asset,
                   buffer, excluded, market_stats, destinations, prop_amm>>

\* set_redemption_offer_disabled: boss or admin to disable, boss to enable.
set_redemption_offer_disabled(a, disabled) ==
    /\ redemption_offers[a].made
    /\ redemption_offers' = [redemption_offers EXCEPT ![a].disabled = disabled]
    /\ UNCHANGED <<clock, state, offers, requests, mint_authority, onyc, asset,
                   buffer, excluded, market_stats, destinations, prop_amm>>

-----------------------------------------------------------------------------
\* create_redemption_request by any holder.
create_redemption_request(a, amount) ==
    LET ro == redemption_offers[a]
    IN  /\ ~state.is_killed
        /\ ro.made /\ ~ro.disabled /\ ~offers[a].disabled
        /\ amount > 0
        /\ ro.request_counter < MAX_REQUESTS
        /\ can_transfer(onyc.bal, "wallets", "redemption_vault", amount)
        /\ onyc' = [onyc EXCEPT
               !.bal = transfer_tokens(@, "wallets", "redemption_vault", amount)]
        /\ requests' = requests \union
               {[offer |-> a, request_id |-> ro.request_counter,
                 amount |-> amount, fulfilled_amount |-> 0]}
        /\ redemption_offers' = [redemption_offers EXCEPT
               ![a].requested_redemptions = @ + amount,
               ![a].request_counter = @ + 1]
        /\ UNCHANGED <<clock, state, offers, mint_authority, asset, buffer,
                       excluded, market_stats, destinations, prop_amm>>

\* Mutant: a disabled redemption offer blocks cancellation too.
can_cancel_if_enabled(r) ==
    /\ ~state.is_killed
    /\ ~redemption_offers[r.offer].disabled
    /\ can_transfer(onyc.bal, "redemption_vault", "wallets", remaining(r))
    /\ remaining(r) <= redemption_offers[r.offer].requested_redemptions

\* Mutant: the kill switch does not stop cancellation.
can_cancel_when_killed(r) ==
    /\ can_transfer(onyc.bal, "redemption_vault", "wallets", remaining(r))
    /\ remaining(r) <= redemption_offers[r.offer].requested_redemptions

\* cancel_redemption_request succeeds.  Neither disabled flag is consulted.
can_cancel(r) ==
    /\ ~state.is_killed
    /\ can_transfer(onyc.bal, "redemption_vault", "wallets", remaining(r))
    /\ remaining(r) <= redemption_offers[r.offer].requested_redemptions

\* cancel_redemption_request by the redeemer, the worker or the boss.
cancel_redemption_request(r) ==
    /\ can_cancel(r)
    /\ onyc' = [onyc EXCEPT
           !.bal = transfer_tokens(@, "redemption_vault", "wallets", remaining(r))]
    /\ redemption_offers' = [redemption_offers EXCEPT
           ![r.offer].requested_redemptions = @ - remaining(r)]
    /\ requests' = requests \ {r}
    /\ UNCHANGED <<clock, state, offers, mint_authority, asset, buffer,
                   excluded, market_stats, destinations, prop_amm>>

\* redemption_utils::process_redemption_core for `amount` ONyc into asset a: the
\* fee is at least `minFee`, the asset paid is for the rest.
process_redemption_core(a, amount, feeBps, minFee) ==
    LET fee == max_of(calculate_fees(amount, feeBps).fee, minFee)
        net == amount - fee
    IN  [fee |-> fee, net |-> net,
         out |-> redemption_token_out(net,
                     compute_offer_current_price(offers[a].vectors, clock))]

\* process_redemption_core returns.
can_process_redemption(a, amount, feeBps, minFee) ==
    /\ offer_priced_at(offers[a].vectors, clock)
    /\ LET result == process_redemption_core(a, amount, feeBps, minFee)
       IN  Fits(result.net) /\ Fits(result.out) /\ result.out > 0

\* The ONyc leg of execute_redemption_operations: the net amount is burnt if
\* the program controls the mint and goes to the proceeds vault otherwise;
\* the fee goes to the fee vault.
take_token_in(ledger, net, proceedsTo, fee, feeTo) ==
    LET rest == IF program_controls_mint
                THEN burn_tokens(ledger, "redemption_vault", net)
                ELSE [ledger EXCEPT !.bal =
                        transfer_tokens(@, "redemption_vault", proceedsTo, net)]
    IN  [rest EXCEPT !.bal = transfer_tokens(@, "redemption_vault", feeTo, fee)]

can_take_token_in(ledger, net, proceedsTo, fee, feeTo) ==
    /\ net + fee <= ledger.bal["redemption_vault"]
    /\ program_controls_mint => net <= ledger.supply
    /\ ~program_controls_mint => Fits(ledger.bal[proceedsTo] + net)
    /\ Fits(ledger.bal[feeTo] + fee)

\* Mutant: a request is never closed.
record_without_closing(r, amount) ==
    /\ requests' = (requests \ {r}) \union {[r EXCEPT !.fulfilled_amount = @ + amount]}
    /\ redemption_offers' = [redemption_offers EXCEPT
           ![r.offer].executed_redemptions = @ + amount,
           ![r.offer].requested_redemptions = @ - amount]

\* The account updates at the end of execute_fulfill_redemption_request: the
\* request is closed when it is fully fulfilled.
record_fulfillment(r, amount) ==
    /\ requests' = (requests \ {r}) \union
           (IF amount = remaining(r) THEN {}
            ELSE {[r EXCEPT !.fulfilled_amount = @ + amount]})
    /\ redemption_offers' = [redemption_offers EXCEPT
           ![r.offer].executed_redemptions = @ + amount,
           ![r.offer].requested_redemptions = @ - amount]

\* fulfill_redemption_request by the worker.  The offer's price and the fee
\* are fixed first, then BUFFER is settled, the tokens move, the baseline is
\* stored and the market statistics are refreshed.
fulfill_redemption_request(r, amount) ==
    LET ro      == redemption_offers[r.offer]
        result  == process_redemption_core(r.offer, amount, ro.fee_basis_points, 0)
        accrual == accrued
        ledger  == take_token_in(accrual.onyc, result.net, "offer_proceeds",
                                 result.fee, "redemption_fee")
    IN  /\ ~state.is_killed
        /\ ~ro.disabled /\ ~offers[r.offer].disabled
        /\ amount > 0 /\ amount <= remaining(r)
        /\ amount <= ro.requested_redemptions
        /\ can_process_redemption(r.offer, amount, ro.fee_basis_points, 0)
        /\ program_controls_mint => main_offer_set
        /\ accrual_succeeds
        /\ can_take_token_in(accrual.onyc, result.net, "offer_proceeds",
                             result.fee, "redemption_fee")
        /\ can_transfer(asset[r.offer], "redemption_vault", "wallets", result.out)
        /\ post_supply_fits(accrual, -result.net)
        /\ program_controls_mint => can_refresh_market_stats(ledger.supply)
        /\ onyc' = ledger
        /\ asset' = [asset EXCEPT
               ![r.offer] = transfer_tokens(@, "redemption_vault", "wallets", result.out)]
        /\ buffer' = store_buffer_post_supply(accrual, -result.net)
        /\ market_stats' = IF program_controls_mint
                           THEN refreshed_market_stats(ledger.supply)
                           ELSE market_stats
        /\ record_fulfillment(r, amount)
        /\ UNCHANGED <<clock, state, offers, mint_authority, excluded, destinations, prop_amm>>
=============================================================================
