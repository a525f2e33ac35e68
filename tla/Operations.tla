----------------------------- MODULE Operations -----------------------------
(***************************************************************************)
(* Vault funding and recovery, configurable vaults, circulating-supply     *)
(* exclusions, the refresh instruction, the switches and caps of State,    *)
(* the mint authority, and what the outside world does: time passes,       *)
(* holders burn ONyc, a boss who holds the mint authority mints.           *)
(***************************************************************************)
EXTENDS OnreState, FiniteSetsExt

CONSTANT Destinations   \* withdrawal destinations of configurable vaults

CONSTANT NoDestination  \* withdrawal_destination before it is set

ASSUME DestinationAssumption == NoDestination \notin Destinations

-----------------------------------------------------------------------------
\* A transfer between two ONyc accounts, and between two accounts of an asset,
\* that changes nothing else.
move_onyc(from, to, amount) ==
    /\ can_transfer(onyc.bal, from, to, amount)
    /\ onyc' = [onyc EXCEPT !.bal = transfer_tokens(@, from, to, amount)]
    /\ UNCHANGED <<clock, state, offers, redemption_offers, requests,
                   mint_authority, asset, buffer, excluded, market_stats, destinations, prop_amm>>

move_asset(a, from, to, amount) ==
    /\ can_transfer(asset[a], from, to, amount)
    /\ asset' = [asset EXCEPT ![a] = transfer_tokens(@, from, to, amount)]
    /\ UNCHANGED <<clock, state, offers, redemption_offers, requests,
                   mint_authority, onyc, buffer, excluded, market_stats, destinations, prop_amm>>

\* offer_vault_deposit and redemption_vault_deposit by anyone: the vault is
\* "offer_vault" or "redemption_vault", the token ONyc or an asset.
vault_deposit_onyc(vault, amount) ==
    ~state.is_killed /\ move_onyc("wallets", vault, amount)

vault_deposit_asset(a, vault, amount) ==
    ~state.is_killed /\ move_asset(a, "wallets", vault, amount)

\* offer_vault_withdraw and redemption_vault_withdraw by the boss.  The
\* redemption vault's locked ONyc is not set apart.
vault_withdraw_onyc(vault, amount) ==
    ~state.is_killed /\ move_onyc(vault, "wallets", amount)

vault_withdraw_asset(a, vault, amount) ==
    ~state.is_killed /\ move_asset(a, vault, "wallets", amount)

-----------------------------------------------------------------------------
\* set_configurable_vault_destination by the boss (the default key clears it).
set_configurable_vault_destination(kind, destination) ==
    /\ destination # destinations[kind]
    /\ destinations' = [destinations EXCEPT ![kind] = destination]
    /\ UNCHANGED <<clock, state, offers, redemption_offers, requests,
                   mint_authority, onyc, asset, buffer, excluded, market_stats, prop_amm>>

\* effective_amount of withdraw_configurable_vault: 0 asks for everything.
effective_amount(balance, amount) == IF amount = 0 THEN balance ELSE amount

\* withdraw_configurable_vault by anyone, of ONyc or of an asset.
withdraw_configurable_vault_onyc(kind, amount) ==
    /\ ~state.is_killed
    /\ destinations[kind] # NoDestination
    /\ effective_amount(onyc.bal[kind], amount) > 0
    /\ move_onyc(kind, "wallets", effective_amount(onyc.bal[kind], amount))

\* Mutant: the kill switch is not consulted.
withdraw_vault_when_killed(a, kind, amount) ==
    /\ destinations[kind] # NoDestination
    /\ effective_amount(asset[a][kind], amount) > 0
    /\ move_asset(a, kind, "wallets", effective_amount(asset[a][kind], amount))

withdraw_configurable_vault_asset(a, kind, amount) ==
    /\ ~state.is_killed
    /\ destinations[kind] # NoDestination
    /\ effective_amount(asset[a][kind], amount) > 0
    /\ move_asset(a, kind, "wallets", effective_amount(asset[a][kind], amount))

-----------------------------------------------------------------------------
\* set_circulating_supply_excluded_accounts by the boss.
set_circulating_supply_excluded_accounts(owners) ==
    /\ excluded' = [excluded EXCEPT !.owners = owners]
    /\ UNCHANGED <<clock, state, offers, redemption_offers, requests,
                   mint_authority, onyc, asset, buffer, market_stats, destinations, prop_amm>>

\* update_circulating_supply_excluded_balance by anyone.
update_circulating_supply_excluded_balance ==
    LET sum == MapThenSumSet(LAMBDA x : onyc.bal[x], excluded.owners)
    IN  /\ Fits(sum)
        /\ excluded' = [excluded EXCEPT !.amount = sum]
        /\ UNCHANGED <<clock, state, offers, redemption_offers, requests,
                       mint_authority, onyc, asset, buffer, market_stats, destinations, prop_amm>>

\* refresh_market_stats by anyone.
refresh_market_stats ==
    /\ can_refresh_market_stats(onyc.supply)
    /\ market_stats' = refreshed_market_stats(onyc.supply)
    /\ UNCHANGED <<clock, state, offers, redemption_offers, requests,
                   mint_authority, onyc, asset, buffer, excluded, destinations, prop_amm>>

-----------------------------------------------------------------------------
\* What the instructions below leave alone.
only_state_changes ==
    UNCHANGED <<clock, offers, redemption_offers, requests, mint_authority,
                onyc, asset, buffer, excluded, market_stats, destinations, prop_amm>>

\* set_kill_switch: boss or admin to enable, boss to disable.
set_kill_switch(enable) ==
    state' = [state EXCEPT !.is_killed = enable] /\ only_state_changes

\* configure_max_supply by the boss; the current supply is not consulted.
configure_max_supply(max) ==
    state' = [state EXCEPT !.max_supply = max] /\ only_state_changes

\* configure_max_mint_amount by the boss.
configure_max_mint_amount(max) ==
    state' = [state EXCEPT !.max_mint_amount = max] /\ only_state_changes

\* set_main_offer by the boss; the pending accrual is not settled.
set_main_offer(a) ==
    /\ offers[a].made
    /\ a # state.main_offer
    /\ state' = [state EXCEPT !.main_offer = a]
    /\ only_state_changes

\* transfer_mint_authority_to_program and _to_boss by the boss.
transfer_mint_authority(from, to) ==
    /\ mint_authority = from
    /\ mint_authority' = to
    /\ UNCHANGED <<clock, state, offers, redemption_offers, requests, onyc,
                   asset, buffer, excluded, market_stats, destinations, prop_amm>>

transfer_mint_authority_to_program == transfer_mint_authority("boss", "program")

transfer_mint_authority_to_boss == transfer_mint_authority("program", "boss")

-----------------------------------------------------------------------------
\* Time passes.
tick ==
    /\ clock < MAX_TIME
    /\ clock' = clock + 1
    /\ UNCHANGED <<state, offers, redemption_offers, requests, mint_authority,
                   onyc, asset, buffer, excluded, market_stats, destinations, prop_amm>>

\* A holder burns ONyc with the token program, no instruction being involved.
external_burn(amount) ==
    /\ amount > 0
    /\ can_burn(onyc, "wallets", amount)
    /\ onyc' = burn_tokens(onyc, "wallets", amount)
    /\ UNCHANGED <<clock, state, offers, redemption_offers, requests,
                   mint_authority, asset, buffer, excluded, market_stats, destinations, prop_amm>>

\* The boss mints ONyc with the token program while holding the authority.
external_mint(amount) ==
    /\ amount > 0
    /\ mint_authority = "boss"
    /\ Fits(onyc.supply + amount) /\ Fits(onyc.bal["wallets"] + amount)
    /\ onyc' = mint_tokens(onyc, "wallets", amount)
    /\ UNCHANGED <<clock, state, offers, redemption_offers, requests,
                   mint_authority, asset, buffer, excluded, market_stats, destinations, prop_amm>>
=============================================================================
