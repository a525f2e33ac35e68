---------------------------- MODULE OfferTaking -----------------------------
(***************************************************************************)
(* Buying ONyc from an offer (take_offer.rs, take_offer_permissionless.rs).*)
(* The v2 instructions settle BUFFER, refill the redemption vault and      *)
(* refresh the market statistics; the legacy ones do none of that and pay  *)
(* the boss.  A take that an approver must sign is one whose signature the *)
(* buyer has: signatures are not modelled here.                            *)
(***************************************************************************)
EXTENDS OnreState

\* offer_utils::process_offer_core for `amount` of asset a at this fee.
process_offer_core(a, amount, feeBps) ==
    LET fees == calculate_fees(amount, feeBps)
    IN  [net |-> fees.net, fee |-> fees.fee,
         out |-> calculate_token_out_amount(fees.net,
                     compute_offer_current_price(offers[a].vectors, clock))]

\* process_offer_core returns.
can_process_offer(a, amount, feeBps) ==
    /\ amount > 0
    /\ offer_priced_at(offers[a].vectors, clock)
    /\ compute_offer_current_price(offers[a].vectors, clock) > 0
    /\ LET result == process_offer_core(a, amount, feeBps)
       IN  Fits(result.net) /\ Fits(result.out) /\ result.out > 0

\* The token-in leg of execute_token_operations, for a mint the program does
\* not control: refill, proceeds and fee leave `source`.
pay_token_in(bal, source, refill, proceedsTo, proceeds, feeTo, fee) ==
    transfer_tokens(
        transfer_tokens(
            transfer_tokens(bal, source, "redemption_vault", refill),
            source, proceedsTo, proceeds),
        source, feeTo, fee)

\* The token-out leg of execute_token_operations: minted under the caps if the
\* program controls ONyc, paid from the offer vault otherwise.
pay_token_out(ledger, to, out) ==
    IF program_controls_mint THEN mint_tokens(ledger, to, out)
    ELSE [ledger EXCEPT !.bal = transfer_tokens(@, "offer_vault", to, out)]

can_pay_token_out(ledger, to, out) ==
    IF program_controls_mint THEN can_mint(ledger, to, out)
    ELSE can_transfer(ledger.bal, "offer_vault", to, out)

\* Where the tokens of a take start and end, and what happens between: a
\* permissionless take passes both legs through the intermediary.
intermediary(permissionless) == IF permissionless THEN "permissionless" ELSE "wallets"

token_in_ledger(a, amount, permissionless, refill, proceedsTo, proceeds, feeTo, fee) ==
    LET via == intermediary(permissionless)
    IN  pay_token_in(transfer_tokens(asset[a], "wallets", via, amount),
                     via, refill, proceedsTo, proceeds, feeTo, fee)

\* Mutant: the intermediary keeps the ONyc.
token_out_not_forwarded(ledger, permissionless, out) ==
    pay_token_out(ledger, intermediary(permissionless), out)

token_out_ledger(ledger, permissionless, out) ==
    LET via  == intermediary(permissionless)
        paid == pay_token_out(ledger, via, out)
    IN  [paid EXCEPT !.bal = transfer_tokens(@, via, "wallets", out)]

can_move_tokens(assetLedger, a, amount, ledger, permissionless, out) ==
    /\ amount <= asset[a]["wallets"]
    /\ \A x \in AssetAccounts : Fits(assetLedger[x])
    /\ can_pay_token_out(ledger, intermediary(permissionless), out)
    /\ \A x \in OnycAccounts :
           Fits(token_out_ledger(ledger, permissionless, out).bal[x])

\* The checks on the offer that every take starts with.
may_take(a, permissionless) ==
    /\ ~state.is_killed
    /\ offers[a].made /\ ~offers[a].disabled
    /\ permissionless => offers[a].allow_permissionless

-----------------------------------------------------------------------------
\* take_offer and take_offer_permissionless (legacy): the boss receives the
\* proceeds and the fee; BUFFER and the market statistics are left alone.
take_offer(a, amount, permissionless) ==
    LET fee    == offers[a].fee_basis_points
        result == process_offer_core(a, amount, fee)
        paid   == token_in_ledger(a, amount, permissionless, 0,
                      "wallets", result.net, "wallets", result.fee)
    IN  /\ may_take(a, permissionless)
        /\ can_process_offer(a, amount, fee)
        /\ can_move_tokens(paid, a, amount, onyc, permissionless, result.out)
        /\ asset' = [asset EXCEPT ![a] = paid]
        /\ onyc' = token_out_ledger(onyc, permissionless, result.out)
        /\ UNCHANGED <<clock, state, offers, redemption_offers, requests,
                       mint_authority, buffer, excluded, market_stats, destinations, prop_amm>>

\* offer_utils::load_redemption_offer_vault_target_bps_for_offer; a missing or
\* disabled redemption offer has no target.
redemption_vault_target_bps(a) ==
    IF redemption_offers[a].made /\ ~redemption_offers[a].disabled
    THEN redemption_offers[a].vault_target_bps ELSE 0

\* take_offer_v2 and take_offer_permissionless_v2.  The refill is sized by the
\* TVL cached before this take; the supply cap sees the accrued supply.
take_offer_v2(a, amount, permissionless) ==
    LET fee    == IF permissionless THEN offers[a].fee_basis_points_permissionless
                  ELSE offers[a].fee_basis_points
        feeTo  == IF permissionless THEN "permissionless_offer_fee" ELSE "offer_fee"
        result == process_offer_core(a, amount, fee)
        refill == calculate_redemption_vault_refill_amount(market_stats.tvl,
                      redemption_vault_target_bps(a),
                      asset[a]["redemption_vault"], result.net)
        paid   == token_in_ledger(a, amount, permissionless, refill,
                      "offer_proceeds", result.net - refill, feeTo, result.fee)
        accrual == accrued
        ledger  == token_out_ledger(accrual.onyc, permissionless, result.out)
    IN  /\ may_take(a, permissionless)
        /\ main_offer_set
        /\ can_process_offer(a, amount, fee)
        /\ accrual_succeeds
        /\ can_move_tokens(paid, a, amount, accrual.onyc, permissionless, result.out)
        /\ post_supply_fits(accrual, result.out)
        /\ can_refresh_market_stats(ledger.supply)
        /\ asset' = [asset EXCEPT ![a] = paid]
        /\ onyc' = ledger
        /\ buffer' = store_buffer_post_supply(accrual, result.out)
        /\ market_stats' = refreshed_market_stats(ledger.supply)
        /\ UNCHANGED <<clock, state, offers, redemption_offers, requests,
                       mint_authority, excluded, destinations, prop_amm>>
=============================================================================
