----------------------------- MODULE OnreState ------------------------------
(***************************************************************************)
(* The accounts that the value-moving instructions share, the SPL token    *)
(* operations on them, and the two steps most instructions embed: BUFFER   *)
(* accrual and the refresh of the market statistics.                       *)
(*                                                                         *)
(* A Solana transaction is atomic: an instruction that fails leaves every  *)
(* account as it was.  An instruction is therefore one action, its error   *)
(* returns are guards, and a failed instruction is no step at all.         *)
(***************************************************************************)
EXTENDS OfferPricing

CONSTANTS
    Assets,              \* the tokens that offers take and redemptions pay
    NoOffer,             \* State::main_offer before it is set
    MAX_ALLOWED_FEE_BPS, \* cap of the offer and redemption fees (1_000)
    MAX_BUFFER_GROSS_APR,\* cap of the BUFFER gross APR (1_000_000)
    MAX_TIME,            \* bound: the clock stops here
    MAX_REQUESTS         \* bound: redemption requests ever made per offer

ASSUME StateAssumption ==
    /\ NoOffer \notin Assets
    /\ MAX_ALLOWED_FEE_BPS \in 0..MAX_BASIS_POINTS
    /\ MAX_BUFFER_GROSS_APR \in Nat
    /\ MAX_TIME \in Nat
    /\ MAX_REQUESTS \in Nat

VARIABLES
    clock,             \* Clock::unix_timestamp
    state,             \* State: is_killed, max_supply, max_mint_amount, main_offer
    offers,            \* Offer of each asset, paying ONyc
    redemption_offers, \* RedemptionOffer of each asset, taking ONyc
    requests,          \* the live RedemptionRequest accounts
    mint_authority,    \* who holds the mint authority of ONyc
    onyc,              \* the ONyc mint's supply and the ONyc token accounts
    asset,             \* the token accounts of each asset
    buffer,            \* BufferState
    excluded,          \* excluded owners and their cached balance
    market_stats,      \* MarketStats
    destinations,      \* ConfigurableVault::withdrawal_destination, by kind
    prop_amm           \* PropAmmPairState of each asset's offer

vars == <<clock, state, offers, redemption_offers, requests, mint_authority,
          onyc, asset, buffer, excluded, market_stats, destinations, prop_amm>>

\* ConfigurableVaultKind
VaultKinds ==
    {"offer_fee", "permissionless_offer_fee", "offer_proceeds",
     "redemption_fee", "management_fee", "performance_fee",
     "prop_amm_buy_fee", "prop_amm_sell_fee", "prop_amm_proceeds"}

\* Token accounts.  "wallets" stands for every account that no PDA of the
\* program owns, the boss's and the withdrawal destinations' included;
\* "permissionless" is the intermediary of the permissionless offer takes.
OnycAccounts ==
    {"wallets", "permissionless", "offer_vault", "redemption_vault", "reserve",
     "offer_proceeds", "redemption_fee", "management_fee", "performance_fee",
     "prop_amm_proceeds", "prop_amm_sell_fee"}

AssetAccounts ==
    {"wallets", "permissionless", "offer_vault", "redemption_vault",
     "offer_proceeds", "offer_fee", "permissionless_offer_fee",
     "prop_amm_proceeds", "prop_amm_buy_fee"}

-----------------------------------------------------------------------------
(* SPL token operations.  A ledger is a mint's supply with its accounts.   *)

\* transfer_tokens between two accounts of one mint.
transfer_tokens(bal, from, to, amount) ==
    LET debited == [bal EXCEPT ![from] = @ - amount]
    IN  [debited EXCEPT ![to] = @ + amount]

can_transfer(bal, from, to, amount) ==
    /\ amount <= bal[from]
    /\ from # to => Fits(bal[to] + amount)

\* Mutant: the supply before the mint is compared.
validate_supply_before(supply, amount) ==
    state.max_supply > 0 => supply <= state.max_supply

\* token_utils::validate_max_supply (0 disables the cap).
validate_max_supply(supply, amount) ==
    state.max_supply > 0 => supply + amount <= state.max_supply

\* The per-operation cap of mint_tokens and accrue_buffer (0 disables it).
validate_max_mint(amount) ==
    state.max_mint_amount > 0 => amount <= state.max_mint_amount

\* token_utils::mint_tokens
mint_tokens(ledger, to, amount) ==
    [supply |-> ledger.supply + amount,
     bal    |-> [ledger.bal EXCEPT ![to] = @ + amount]]

can_mint(ledger, to, amount) ==
    /\ validate_max_mint(amount)
    /\ validate_max_supply(ledger.supply, amount)
    /\ Fits(ledger.supply + amount)
    /\ Fits(ledger.bal[to] + amount)

\* token_utils::burn_tokens
burn_tokens(ledger, from, amount) ==
    [supply |-> ledger.supply - amount,
     bal    |-> [ledger.bal EXCEPT ![from] = @ - amount]]

can_burn(ledger, from, amount) ==
    amount <= ledger.bal[from] /\ amount <= ledger.supply

\* token_utils::program_controls_mint for ONyc.
program_controls_mint == mint_authority = "program"

-----------------------------------------------------------------------------
(* BUFFER accrual, settled by every BUFFER-aware instruction.              *)

\* market_stats::load_main_offer returns.
main_offer_set == state.main_offer # NoOffer

\* The pricing vectors of the main offer.
main_vectors == offers[state.main_offer].vectors

\* The NAV: the main offer's price now.
current_nav == compute_offer_current_price(main_vectors, clock)

\* buffer_mint_amount of accrue_buffer; a baseline of 0 mints nothing.
buffer_mint_amount ==
    calculate_gross_buffer_accrual(buffer.previous_supply, buffer.gross_apr,
        find_active_vector_at(main_vectors, clock).apr,
        clock - buffer.last_accrual_timestamp)

\* fee_split of accrue_buffer, for that amount.
fee_split(mint) ==
    calculate_buffer_fee_split(mint,
        saturating_sub(buffer.gross_apr,
                       find_active_vector_at(main_vectors, clock).apr),
        buffer.management_fee_basis_points, buffer.performance_fee_basis_points,
        current_nav, buffer.performance_fee_high_watermark,
        buffer.performance_fee_high_watermark_enabled)

\* Mutant: the interval is not restarted.
set_baseline_supply_only(buf, supply) == [buf EXCEPT !.previous_supply = supply]

\* accrue_buffer::set_buffer_baseline_after_supply_change
set_buffer_baseline(buf, supply) ==
    [buf EXCEPT !.previous_supply = supply, !.last_accrual_timestamp = clock]

\* accrue_buffer's effect when it mints `mint` split as `split`: the ledger
\* after the three mints and the BUFFER state after it.
accrual_of(mint, split) ==
    [onyc   |-> [supply |-> onyc.supply + mint,
                 bal    |-> [onyc.bal EXCEPT
                               !["reserve"] = @ + split.reserve,
                               !["management_fee"] = @ + split.mgmt,
                               !["performance_fee"] = @ + split.perf]],
     buffer |-> set_buffer_baseline(
                  [buffer EXCEPT !.performance_fee_high_watermark = split.hwm],
                  onyc.supply + mint)]

\* accrue_buffer: with no baseline yet it only sets the baseline and the
\* watermark.
accrue_buffer ==
    LET mint == buffer_mint_amount
    IN  IF buffer.previous_supply = 0
        THEN accrual_of(0, [reserve |-> 0, mgmt |-> 0, perf |-> 0, hwm |-> current_nav])
        ELSE accrual_of(mint, fee_split(mint))

\* A nonzero accrual stays below both caps and overflows nothing.
can_mint_accrual(mint, split) ==
    /\ Fits(mint) /\ Fits(split.mgmt) /\ Fits(split.perf) /\ Fits(split.reserve)
    /\ mint > 0 => validate_max_supply(onyc.supply, mint) /\ validate_max_mint(mint)
    /\ Fits(onyc.supply + mint)
    /\ Fits(onyc.bal["reserve"] + split.reserve)
    /\ Fits(onyc.bal["management_fee"] + split.mgmt)
    /\ Fits(onyc.bal["performance_fee"] + split.perf)

\* accrue_buffer succeeds.
can_accrue_buffer ==
    /\ main_offer_set
    /\ clock >= buffer.last_accrual_timestamp
    /\ offer_priced_at(main_vectors, clock)
    /\ buffer.previous_supply # 0 =>
         LET mint == buffer_mint_amount
         IN  can_mint_accrual(mint, fee_split(mint))

\* offer_utils::should_accrue_onyc_mint for ONyc: the instructions that work
\* with or without BUFFER settle it only under this condition.
should_accrue_onyc_mint == buffer.initialized /\ program_controls_mint

\* The optional accrual of such an instruction, and when it succeeds.
accrued ==
    IF should_accrue_onyc_mint THEN accrue_buffer
    ELSE [onyc |-> onyc, buffer |-> buffer]

accrual_succeeds == should_accrue_onyc_mint => can_accrue_buffer

\* Mutant: the baseline is the supply before the mint or burn.
store_buffer_accrued_supply(accrual, delta) == accrual.buffer

\* store_buffer_post_supply after such an instruction: the baseline is derived
\* from the accrual's post_accrual_supply, which is its new baseline, and the
\* amount minted (burnt, if negative).
store_buffer_post_supply(accrual, delta) ==
    IF should_accrue_onyc_mint
    THEN set_buffer_baseline(accrual.buffer, accrual.buffer.previous_supply + delta)
    ELSE accrual.buffer

post_supply_fits(accrual, delta) ==
    should_accrue_onyc_mint => Fits(accrual.buffer.previous_supply + delta)

-----------------------------------------------------------------------------
(* Market statistics.                                                      *)

\* Mutant: an excluded balance above the supply is not an error.
can_refresh_saturating(supply) ==
    /\ main_offer_set
    /\ offer_priced_at(main_vectors, clock)
    /\ apy_returns(find_active_vector_at(main_vectors, clock).apr)
    /\ nav_adjustment_defined(main_vectors, find_active_vector_at(main_vectors, clock))

\* market_stats::recompute_market_stats succeeds for a mint of this supply
\* (of the APY, a function of the active APR alone, only the failure is kept).
can_refresh_market_stats(supply) ==
    /\ main_offer_set
    /\ offer_priced_at(main_vectors, clock)
    /\ apy_returns(find_active_vector_at(main_vectors, clock).apr)
    /\ nav_adjustment_defined(main_vectors, find_active_vector_at(main_vectors, clock))
    /\ Fits(calculate_circulating_supply(supply, excluded.amount))
    /\ Fits(calculate_tvl(calculate_circulating_supply(supply, excluded.amount),
                          current_nav))

\* Mutant: the mint is not reloaded, so the supply is the one before.
refreshed_from_stale_mint(supply) ==
    LET circulating == calculate_circulating_supply(onyc.supply, excluded.amount)
    IN  [circulating_supply |-> circulating, nav |-> current_nav,
         tvl |-> calculate_tvl(circulating, current_nav)]

\* market_stats::refresh_market_stats_pda
refreshed_market_stats(supply) ==
    LET circulating == calculate_circulating_supply(supply, excluded.amount)
    IN  [circulating_supply |-> circulating, nav |-> current_nav,
         tvl |-> calculate_tvl(circulating, current_nav)]
=============================================================================
