-------------------------------- MODULE Onre --------------------------------
(***************************************************************************)
(* The ONRe program: every instruction that moves tokens, changes a price  *)
(* or changes an account the token movements depend on, interleaved in any *)
(* order.                                                                  *)
(*                                                                         *)
(* Inputs gives, for each instruction or group of instructions, the set of *)
(* arguments it is called with; an empty set leaves the instruction out of *)
(* a run.  Initial is the deployed configuration a behaviour starts from.  *)
(***************************************************************************)
EXTENDS PropAmm, Buffer, Offers, Operations

CONSTANTS
    Inputs,     \* the arguments of the instructions
    Initial     \* the configuration at the start

\* The vaults of offer_vault_* and redemption_vault_*.
Vaults == {"offer_vault", "redemption_vault"}

\* The arguments of add_offer_vector (start = 0: omitted).
VectorInput == [start : Nat, base_time : Nat, base_price : Nat, apr : Nat,
                duration : Nat]

ASSUME InputAssumption ==
    /\ Inputs.request \subseteq Nat         \* create_redemption_request
    /\ Inputs.fulfill \subseteq Nat         \* fulfill_redemption_request
    /\ Inputs.take \subseteq Nat            \* take_offer*_v2
    /\ Inputs.legacy_take \subseteq Nat     \* take_offer, _permissionless
    /\ Inputs.permissionless \subseteq BOOLEAN \* kinds of take and of offer
    /\ Inputs.mint \subseteq Nat            \* mint_to
    /\ Inputs.reserve \subseteq Nat         \* deposit/withdraw_reserve_vault
    /\ Inputs.adjustment \subseteq Nat      \* burn_for_nav_increase
    /\ Inputs.gross_apr \subseteq Nat       \* set_buffer_gross_apr
    /\ Inputs.buffer_fee \subseteq Nat      \* set_buffer_fee_config
    /\ Inputs.deposit \subseteq Nat         \* *_vault_deposit
    /\ Inputs.withdraw \subseteq Nat        \* *_vault_withdraw
    /\ Inputs.destination \subseteq VaultKinds \* set_configurable_vault_destination
    /\ Inputs.vault_withdraw \subseteq Nat  \* withdraw_configurable_vault
    /\ Inputs.new_offer \subseteq Assets    \* make_offer, make_redemption_offer
    /\ Inputs.main_offer \subseteq Assets   \* set_main_offer
    /\ Inputs.fee \subseteq Nat             \* the fees of offers, and of new redemption offers
    /\ Inputs.redemption_fee \subseteq Nat  \* update_redemption_offer_*fee
    /\ Inputs.vault_target \subseteq Nat    \* update_redemption_offer_vault_target
    /\ Inputs.disabled \subseteq BOOLEAN    \* set_*_offer_disabled
    /\ Inputs.vector \subseteq VectorInput  \* add_offer_vector
    /\ Inputs.delete_all \subseteq Assets   \* delete_all_offer_vectors
    /\ Inputs.excluded \subseteq SUBSET OnycAccounts
    /\ Inputs.kill_switch \subseteq BOOLEAN
    /\ Inputs.supply_cap \subseteq U64      \* configure_max_supply
    /\ Inputs.mint_cap \subseteq U64        \* configure_max_mint_amount
    /\ Inputs.authority \subseteq {"program", "boss"}
    /\ Inputs.external \subseteq Nat        \* burns and mints of the holders
    /\ Inputs.prop_amm \subseteq PairConfig \* configure_prop_amm
    /\ Inputs.swap \subseteq Nat            \* open_swap_buy, open_swap_sell
    /\ Inputs.minimum_out \subseteq Nat     \* their minimum_out

-----------------------------------------------------------------------------
(* Types.                                                                  *)

\* Offer; its vectors have distinct start times.
OfferType ==
    [made : BOOLEAN, disabled : BOOLEAN, fee_basis_points : 0..MAX_ALLOWED_FEE_BPS,
     fee_basis_points_permissionless : 0..MAX_ALLOWED_FEE_BPS,
     allow_permissionless : BOOLEAN, vectors : SUBSET OfferVector]

\* RedemptionOffer.  The counters are u64 and u128 in the code; u128 ones are
\* sums of u64 amounts and do not overflow.
RedemptionOfferType ==
    [made : BOOLEAN, disabled : BOOLEAN, fee_basis_points : 0..MAX_ALLOWED_FEE_BPS,
     fee_basis_points_prop_amm_sell : 0..MAX_ALLOWED_FEE_BPS,
     vault_target_bps : 0..MAX_BASIS_POINTS, executed_redemptions : Nat,
     requested_redemptions : Nat, request_counter : 0..MAX_REQUESTS]

\* BufferState
BufferType ==
    [initialized : BOOLEAN, gross_apr : 0..MAX_BUFFER_GROSS_APR,
     previous_supply : U64, management_fee_basis_points : 0..MAX_BASIS_POINTS,
     performance_fee_basis_points : 0..MAX_BASIS_POINTS,
     performance_fee_high_watermark : U64,
     performance_fee_high_watermark_enabled : BOOLEAN,
     last_accrual_timestamp : Nat]

\* RedemptionRequest; an empty or fully fulfilled one does not exist.
RequestType ==
    {r \in [offer : Assets, request_id : Nat, amount : U64, fulfilled_amount : U64] :
        r.fulfilled_amount < r.amount}

ASSUME InitialAssumption ==
    /\ Initial.clock \in Nat \ {0}       \* after 1970
    /\ Initial.onyc \in U64
    /\ Initial.asset \in U64            \* of each asset, in the wallets
    /\ Initial.redemption_vault \in U64 \* of each asset, deposited earlier
    /\ Initial.authority \in {"program", "boss"}
    /\ Initial.main_offer \in Assets \union {NoOffer}
    /\ Initial.offers \in [Assets -> OfferType]
    /\ Initial.redemption_offers \in [Assets -> RedemptionOfferType]
    /\ Initial.buffer \in BufferType
    /\ Initial.prop_amm \in [Assets -> PairState]
    /\ Initial.main_offer # NoOffer => Initial.offers[Initial.main_offer].made
    /\ Initial.buffer.initialized => Initial.main_offer # NoOffer
    /\ ~Initial.buffer.initialized => Initial.buffer = NoBuffer
    /\ Initial.buffer.last_accrual_timestamp <= Initial.clock
    /\ \A a \in Assets :
         /\ Initial.redemption_offers[a].requested_redemptions = 0
         /\ Initial.redemption_offers[a].made => Initial.offers[a].made
         /\ ~Initial.redemption_offers[a].made =>
                Initial.redemption_offers[a] = NoRedemptionOffer
         /\ Initial.prop_amm[a].epoch_start <= Initial.clock
         /\ Initial.prop_amm[a].epoch_start = 0 => Initial.prop_amm[a] = NoPair
         /\ IsFiniteSet(Initial.offers[a].vectors)
         /\ Cardinality(Initial.offers[a].vectors) <= MAX_VECTORS
         /\ \A v, w \in Initial.offers[a].vectors :
                v.start_time = w.start_time => v = w

-----------------------------------------------------------------------------
\* A deployed program: the wallets hold all ONyc, the redemption vault has been
\* funded, there is no request, and no market statistics have been computed.
Init ==
    /\ clock = Initial.clock
    /\ state = [is_killed |-> FALSE, max_supply |-> 0, max_mint_amount |-> 0,
                main_offer |-> Initial.main_offer]
    /\ offers = Initial.offers
    /\ redemption_offers = Initial.redemption_offers
    /\ requests = {}
    /\ mint_authority = Initial.authority
    /\ onyc = [supply |-> Initial.onyc,
               bal |-> [x \in OnycAccounts |-> IF x = "wallets" THEN Initial.onyc ELSE 0]]
    /\ asset = [a \in Assets |->
                  [x \in AssetAccounts |->
                     CASE x = "wallets" -> Initial.asset
                       [] x = "redemption_vault" -> Initial.redemption_vault
                       [] OTHER -> 0]]
    /\ buffer = Initial.buffer
    /\ excluded = [owners |-> {}, amount |-> 0]
    /\ market_stats = [circulating_supply |-> 0, nav |-> 0, tvl |-> 0]
    /\ destinations = [kind \in VaultKinds |-> NoDestination]
    /\ prop_amm = Initial.prop_amm

RedemptionStep ==
    \/ \E a \in Assets, amount \in Inputs.request : create_redemption_request(a, amount)
    \/ \E r \in requests : cancel_redemption_request(r)
    \/ \E r \in requests, amount \in Inputs.fulfill : fulfill_redemption_request(r, amount)
    \/ \E a \in Inputs.new_offer, fee, sellFee \in Inputs.fee :
           make_redemption_offer(a, fee, sellFee)
    \/ \E a \in Assets, fee \in Inputs.redemption_fee : update_redemption_offer_fee(a, fee)
    \/ \E a \in Assets, fee \in Inputs.redemption_fee :
           update_redemption_offer_prop_amm_sell_fee(a, fee)
    \/ \E a \in Assets, target \in Inputs.vault_target :
           update_redemption_offer_vault_target(a, target)
    \/ \E a \in Assets, disabled \in Inputs.disabled :
           set_redemption_offer_disabled(a, disabled)

BufferStep ==
    \/ initialize_buffer
    \/ settle_buffer
    \/ \E apr \in Inputs.gross_apr : set_buffer_gross_apr(apr)
    \/ \E mgmt, perf \in Inputs.buffer_fee, hwmEnabled \in BOOLEAN :
           set_buffer_fee_config(mgmt, perf, hwmEnabled)
    \/ \E adjustment \in Inputs.adjustment : burn_for_nav_increase(adjustment)
    \/ \E amount \in Inputs.reserve : deposit_reserve_vault(amount)
    \/ \E amount \in Inputs.reserve : withdraw_reserve_vault(amount)
    \/ \E amount \in Inputs.mint : mint_to(amount)

TakeStep ==
    \E a \in Assets, permissionless \in Inputs.permissionless :
        \/ \E amount \in Inputs.take : take_offer_v2(a, amount, permissionless)
        \/ \E amount \in Inputs.legacy_take : take_offer(a, amount, permissionless)

SwapStep ==
    \E a \in Assets :
        \/ \E c \in Inputs.prop_amm : configure_prop_amm(a, c)
        \/ \E amount \in Inputs.swap, minimumOut \in Inputs.minimum_out :
               open_swap_buy(a, amount, minimumOut)
        \/ \E amount \in Inputs.swap, minimumOut \in Inputs.minimum_out :
               open_swap_sell(a, amount, minimumOut)

OfferStep ==
    \/ \E a \in Inputs.new_offer, fee \in Inputs.fee, permissionless \in Inputs.permissionless :
           make_offer(a, fee, permissionless)
    \/ \E a \in Assets, fee \in Inputs.fee : update_offer_fee(a, fee)
    \/ \E a \in Assets, fee \in Inputs.fee : update_offer_permissionless_fee(a, fee)
    \/ \E a \in Assets, disabled \in Inputs.disabled : set_offer_disabled(a, disabled)
    \/ \E a \in Assets, i \in Inputs.vector :
           add_offer_vector(a, i.start, i.base_time, i.base_price, i.apr, i.duration)
    \/ \E a \in Assets : \E v \in offers[a].vectors : delete_offer_vector(a, v)
    \/ \E a \in Inputs.delete_all : delete_all_offer_vectors(a)

OperationStep ==
    \/ \E vault \in Vaults, amount \in Inputs.deposit : vault_deposit_onyc(vault, amount)
    \/ \E a \in Assets, vault \in Vaults, amount \in Inputs.deposit :
           vault_deposit_asset(a, vault, amount)
    \/ \E vault \in Vaults, amount \in Inputs.withdraw : vault_withdraw_onyc(vault, amount)
    \/ \E a \in Assets, vault \in Vaults, amount \in Inputs.withdraw :
           vault_withdraw_asset(a, vault, amount)
    \/ \E kind \in Inputs.destination, destination \in Destinations \union {NoDestination} :
           set_configurable_vault_destination(kind, destination)
    \/ \E kind \in VaultKinds \intersect OnycAccounts, amount \in Inputs.vault_withdraw :
           withdraw_configurable_vault_onyc(kind, amount)
    \/ \E a \in Assets, kind \in VaultKinds \intersect AssetAccounts,
          amount \in Inputs.vault_withdraw :
           withdraw_configurable_vault_asset(a, kind, amount)
    \/ \E owners \in Inputs.excluded : set_circulating_supply_excluded_accounts(owners)
    \/ update_circulating_supply_excluded_balance
    \/ refresh_market_stats
    \/ \E enable \in Inputs.kill_switch : set_kill_switch(enable)
    \/ \E max \in Inputs.supply_cap : configure_max_supply(max)
    \/ \E max \in Inputs.mint_cap : configure_max_mint_amount(max)
    \/ \E a \in Inputs.main_offer : set_main_offer(a)
    \/ "program" \in Inputs.authority /\ transfer_mint_authority_to_program
    \/ "boss" \in Inputs.authority /\ transfer_mint_authority_to_boss
    \/ tick
    \/ \E amount \in Inputs.external : external_burn(amount)
    \/ \E amount \in Inputs.external : external_mint(amount)

Next ==
    RedemptionStep \/ BufferStep \/ TakeStep \/ SwapStep \/ OfferStep \/ OperationStep

Spec == Init /\ [][Next]_vars

-----------------------------------------------------------------------------
(* Properties.                                                             *)

\* Every account holds values of its Rust type: no balance or counter has
\* underflowed or left u64, and no request is empty or overfulfilled.
TypeOK ==
    /\ clock \in Nat
    /\ state \in [is_killed : BOOLEAN, max_supply : U64, max_mint_amount : U64,
                  main_offer : Assets \union {NoOffer}]
    /\ offers \in [Assets -> OfferType]
    /\ redemption_offers \in [Assets -> RedemptionOfferType]
    /\ requests \subseteq RequestType
    /\ mint_authority \in {"program", "boss"}
    /\ onyc \in [supply : U64, bal : [OnycAccounts -> U64]]
    /\ asset \in [Assets -> [AssetAccounts -> U64]]
    /\ buffer \in BufferType
    /\ excluded \in [owners : SUBSET OnycAccounts, amount : U64]
    /\ market_stats \in [circulating_supply : U64, nav : U64, tvl : U64]
    /\ destinations \in [VaultKinds -> Destinations \union {NoDestination}]
    /\ prop_amm \in [Assets -> PairState]

\* The sum of all ONyc balances.
TotalHeld(bal) ==
    bal["wallets"] + bal["permissionless"] + bal["offer_vault"]
        + bal["redemption_vault"] + bal["reserve"] + bal["offer_proceeds"]
        + bal["redemption_fee"] + bal["management_fee"] + bal["performance_fee"]
        + bal["prop_amm_proceeds"] + bal["prop_amm_sell_fee"]

\* The mint's supply is what the accounts hold: the three mints of an accrual
\* (accrue_buffer.rs) add up to the amount it is accounted for, whatever the
\* fee split rounds, and every burn takes from the account it is charged to.
SupplyIsBacked == onyc.supply = TotalHeld(onyc.bal)

\* The open requests of the redemption offer of a, and the ONyc they claim.
OpenRequests(a) == {r \in requests : r.offer = a}

ClaimedBy(rs) == MapThenSumSet(LAMBDA r : r.amount - r.fulfilled_amount, rs)

\* requested_redemptions of an offer is what its open requests still claim,
\* over any sequence of partial fulfilments and cancellations
\* (fulfill_redemption_request.rs, cancel_redemption_request.rs), and request
\* ids are never reused while open.
RequestBookkeeping ==
    \A a \in Assets :
        /\ redemption_offers[a].requested_redemptions = ClaimedBy(OpenRequests(a))
        /\ \A r \in OpenRequests(a) : r.request_id < redemption_offers[a].request_counter
        /\ \A r, s \in OpenRequests(a) : r.request_id = s.request_id => r = s

\* The redemption vault, which all redemption offers share, holds the ONyc
\* that the open requests claim.
RequestsCovered == onyc.bal["redemption_vault"] >= ClaimedBy(requests)

\* Only the boss's redemption_vault_withdraw can leave open requests without
\* their ONyc: no fulfilment or cancellation of one request, of any offer,
\* takes tokens that another one locked.
CoverageLostOnlyByWithdraw ==
    [][RequestsCovered /\ ~RequestsCovered' =>
          \E amount \in Inputs.withdraw : vault_withdraw_onyc("redemption_vault", amount)]_vars

\* The steps that change the supply without knowing of BUFFER: the legacy
\* takes and holders' own burns and mints.
UnawareStep ==
    \/ \E a \in Assets, amount \in Inputs.legacy_take, p \in Inputs.permissionless :
           take_offer(a, amount, p)
    \/ \E amount \in Inputs.external : external_burn(amount) \/ external_mint(amount)

\* After a supply-changing operation of the program the accrual baseline is
\* the supply after it and the interval restarts (store_buffer_post_supply,
\* BUFFER_ACCRUAL.md), although the code derives it from deltas and not from
\* the mint.
BaselineFollowsSupply ==
    [][should_accrue_onyc_mint /\ onyc'.supply # onyc.supply =>
          \/ buffer'.previous_supply = onyc'.supply
             /\ buffer'.last_accrual_timestamp = clock
          \/ UnawareStep]_vars

\* A mint by the program never carries the supply over max_supply: the accrual
\* and the mint of one instruction count together.
SupplyCapRespected ==
    [][/\ state.max_supply > 0
       /\ mint_authority = "program"
       /\ onyc'.supply > onyc.supply
       => onyc'.supply <= state.max_supply]_vars

\* The performance fee watermark never falls as long as there is a baseline
\* (calculate_buffer_fee_split); only accrue_buffer's restart from a zero
\* baseline may lower it.
WatermarkNeverFalls ==
    [][buffer.previous_supply # 0 =>
          buffer'.performance_fee_high_watermark
              >= buffer.performance_fee_high_watermark]_vars

\* The market statistics never lag behind a supply change of the program
\* (refresh_market_stats_pda at the end of each instruction): they are those
\* of the mint after accrual, mint and burn.
StatsFollowSupply ==
    [][onyc'.supply # onyc.supply =>
          \/ market_stats'.circulating_supply = onyc'.supply - excluded'.amount
          \/ UnawareStep]_vars

\* Only a holder's own burn can leave the cached excluded balance above the
\* supply, the state in which every refresh underflows and so fails.
ExcludedBalanceOvertakenOnlyOutside ==
    [][excluded.amount <= onyc.supply /\ excluded'.amount > onyc'.supply =>
          \E amount \in Inputs.external : external_burn(amount)]_vars

\* The intermediary accounts of permissionless takes are empty between
\* instructions (take_offer_permissionless.rs).
IntermediaryEmpty ==
    /\ onyc.bal["permissionless"] = 0
    /\ \A a \in Assets : asset[a]["permissionless"] = 0

\* A v2 take fills the redemption vault at most to its target share of the TVL
\* cached before the take (calculate_redemption_vault_refill_amount); a vault
\* above the target is left alone.
RefillStopsAtTarget ==
    [][\A a \in Assets, amount \in Inputs.take, p \in Inputs.permissionless :
          /\ take_offer_v2(a, amount, p)
          /\ asset'[a]["redemption_vault"] # asset[a]["redemption_vault"]
          => asset'[a]["redemption_vault"] * MAX_BASIS_POINTS * ONYC_UNIT
                 <= market_stats.tvl * redemption_vault_target_bps(a) * ASSET_UNIT]_vars

\* What is set up rests on what exists: a redemption offer on its offer, a
\* request on its redemption offer, the main offer and BUFFER on an offer, in
\* whatever order the instructions come.
ConfigurationIsSound ==
    /\ \A a \in Assets : redemption_offers[a].made => offers[a].made
    /\ \A r \in requests : redemption_offers[r.offer].made
    /\ state.main_offer # NoOffer => offers[state.main_offer].made
    /\ buffer.initialized => state.main_offer # NoOffer

\* While the kill switch is on, nothing leaves a vault, the program mints and
\* burns nothing, and no request is made, served or cancelled.
KillSwitchFreezes ==
    [][state.is_killed =>
        /\ requests' = requests
        /\ buffer'.initialized = buffer.initialized => buffer' = buffer
        /\ \A x \in OnycAccounts \ {"wallets"} : onyc'.bal[x] = onyc.bal[x]
        /\ asset' = asset
        /\ onyc'.supply # onyc.supply =>
              \E amount \in Inputs.external : external_burn(amount) \/ external_mint(amount)]_vars

-----------------------------------------------------------------------------
(* What redemption requests promise.                                       *)

\* What the request number id of the redemption offer of a still claims, when
\* `live` are the live requests.
ClaimOf(live, a, id) ==
    IF \E r \in live : r.offer = a /\ r.request_id = id
    THEN remaining(CHOOSE r \in live : r.offer = a /\ r.request_id = id)
    ELSE 0

Claims == INSTANCE RedemptionClaims WITH
    claim  <- [a \in Assets |-> [id \in 0..(MAX_REQUESTS - 1) |-> ClaimOf(requests, a, id)]],
    opened <- [a \in Assets |-> redemption_offers[a].request_counter],
    served <- [a \in Assets |-> redemption_offers[a].executed_redemptions]

\* Requests are claims (RedemptionClaims), whatever else the program does: a
\* request number is never used twice, a closed request never comes back, the
\* remainder only falls by what is added to executed_redemptions, and
\* cancelling gives back all of it.
RequestsAreClaims == Claims!ClaimsSpec

-----------------------------------------------------------------------------
(* The Prop AMM.                                                           *)

\* The sell pressure of the pair of a before any order.
Pressure(a) == preview_effective_sell_volume(prop_amm[a], 0, clock)

\* A pair that has been configured has an epoch.
Configured(a) == prop_amm[a].config.epoch_duration_seconds > 0

\* Sell pressure only ages: no buy, no epoch that ends and no roll of the
\* tracker in the course of a trade raises it (record_prop_amm_buy,
\* roll_prop_amm_volume_tracker), and a sell adds its raw value and no more.
\* A new configuration may, as its epoch reads the old tracker anew.
PressureRisesOnlyBySells ==
    [][\A a \in Assets :
          /\ Configured(a)
          /\ prop_amm'[a].config = prop_amm[a].config
          /\ Pressure(a)' > Pressure(a)
          => \E amount \in Inputs.swap, minimumOut \in Inputs.minimum_out :
                 /\ open_swap_sell(a, amount, minimumOut)
                 /\ Pressure(a)' <= Pressure(a) + sell_result(a, amount).out]_vars

\* A quote, which reads the tracker as it is, and a swap, which rolls it first,
\* see the same pressure and the same number of sells at the same moment
\* (preview_effective_sell_volume and roll_prop_amm_volume_tracker each have
\* their own copy of the epoch rules).
RollDoesNotReprice ==
    \A a \in Assets : Configured(a) =>
        LET rolled == roll_prop_amm_volume_tracker(prop_amm[a], clock)
        IN  /\ preview_effective_sell_volume(rolled, 0, clock) = Pressure(a)
            /\ preview_current_sell_trade_count(rolled, clock)
                   = preview_current_sell_trade_count(prop_amm[a], clock)

\* What the users own, in ONyc-priced units of a: the asset, the ONyc and the
\* claims of the open requests at the offer's price.
UsersWealth(a) ==
    asset[a]["wallets"] * PRICE_SCALE * ONYC_UNIT
        + (onyc.bal["wallets"] + ClaimedBy(requests))
              * compute_offer_current_price(offers[a].vectors, clock) * ASSET_UNIT

\* The takes that pay into a vault; the legacy ones pay the boss's wallet.
SettledTake ==
    \E a \in Assets, p \in Inputs.permissionless, amount \in Inputs.take :
        take_offer_v2(a, amount, p)

\* No trade makes its user richer at the price it is made at: not a take with
\* its fee, a redemption in parts, a swap, nor any sequence of them, whatever
\* the conversions and the fee round.
TradesNeverFavourTheUser ==
    [][\A a \in Assets :
          /\ offer_priced_at(offers[a].vectors, clock)
          /\ UNCHANGED <<clock, offers>>
          /\ \A b \in Assets \ {a} : asset'[b] = asset[b]
          /\ UsersWealth(a)' > UsersWealth(a)
          => ~(SettledTake \/ SwapStep \/ RedemptionStep)]_vars

\* PROP_AMM_PRICING_MODEL.md: the pressure of an epoch decays linearly through
\* the next one (preview_effective_sell_volume): some way into it, only the
\* rest of the way's share is left.
PreviousPressureDecays ==
    \A a \in Assets :
        LET p        == prop_amm[a]
            duration == p.config.epoch_duration_seconds
            into     == clock - (p.epoch_start + duration)
        IN  Configured(a) /\ into \in 0..duration =>
                Pressure(a) * duration <= current_net(p) * (duration - into)

\* PROP_AMM_PRICING_MODEL.md: balance of the redemption vault above the
\* configured target does not loosen the sell curve
\* (resolve_hard_wall_reserve): a sell pays no more than it would if the vault
\* held just the target.
SurplusDoesNotLoosen ==
    \A a \in Assets, amount \in Inputs.swap :
        LET liquidity == asset[a]["redemption_vault"]
            reserve   == resolve_hard_wall_reserve(market_stats.tvl, liquidity, sell_target(a))
            raw       == sell_result(a, amount).out
        IN  /\ can_quote_swap_sell(a, amount)
            /\ can_apply_hard_wall(raw, reserve, reserve, prop_amm[a], clock)
            => quote_swap_sell(a, amount)
                   <= apply_hard_wall_liquidity_factor(raw, reserve, reserve, prop_amm[a], clock)

-----------------------------------------------------------------------------
(* Liveness.                                                               *)

\* The request number id of the redemption offer of a is open.
RequestOpen(a, id) == \E r \in requests : r.offer = a /\ r.request_id = id

\* Its redeemer cancels it.
CancelRequest(a, id) ==
    \E r \in requests : r.offer = a /\ r.request_id = id /\ cancel_redemption_request(r)

\* A redeemer who wants out retries the cancellation, and the boss does not
\* leave the kill switch on for ever.  Nothing is assumed of the worker.
FairSpec ==
    /\ Spec
    /\ WF_vars(set_kill_switch(FALSE))
    /\ \A a \in Assets, id \in 0..(MAX_REQUESTS - 1) : SF_vars(CancelRequest(a, id))

\* No request is stuck: whatever else happens to its offer (disabled, its
\* vectors deleted, partly fulfilled, dust left), a redeemer who keeps trying
\* gets the rest back.
EveryRequestEnds ==
    \A a \in Assets, id \in 0..(MAX_REQUESTS - 1) :
        RequestOpen(a, id) ~> ~RequestOpen(a, id)

-----------------------------------------------------------------------------
(* Pricing vectors.                                                        *)

\* The price of an offer, as the set of the price quoted.
Quoted(vectors, t) ==
    IF offer_priced_at(vectors, t) THEN {compute_offer_current_price(vectors, t)} ELSE {}

\* The NAV adjustment of the active vector, as a set.
Adjusted(vectors, t) ==
    IF /\ started_at(vectors, t) # {}
       /\ nav_adjustment_defined(vectors, find_active_vector_at(vectors, t))
    THEN {nav_adjustment(vectors, find_active_vector_at(vectors, t))} ELSE {}

\* Adding or deleting a vector (add_offer_vector with its clean-up,
\* delete_offer_vector) disturbs neither the price quoted now nor the NAV
\* adjustment, unless the new vector starts now or all vectors are deleted.
VectorEditsDoNotDisturb ==
    [][\A a \in Assets :
          \/ Quoted(offers'[a].vectors, clock) = Quoted(offers[a].vectors, clock)
             /\ Adjusted(offers'[a].vectors, clock) = Adjusted(offers[a].vectors, clock)
          \/ \E v \in offers'[a].vectors \ offers[a].vectors : v.start_time = clock
          \/ offers'[a].vectors = {}]_vars

\* The vector has grown out of the arithmetic: the end of the step, the price or
\* the next day's price that it is interpolated from leaves u64, or the growth
\* since the base time, squared together in u128, has reached U128_MAX /
\* INT_SCALE, which is 340-fold with the code's scales.
Outgrown(v, t) ==
    LET elapsed  == step_end_time(v, t)
        factor   == daily_factor(v.apr)
        growth   == pow_fixed(factor, elapsed \div SECONDS_IN_DAY, INT_SCALE)
        today    == mul_div_round_u128(v.base_price, growth, INT_SCALE)
        tomorrow == mul_div_round_u128(today, factor, INT_SCALE)
    IN  \/ ~Fits(elapsed)
        \/ ~Fits(calculate_step_price_at(v, t))
        \/ /\ v.apr > 0
           /\ \/ elapsed % SECONDS_IN_DAY # 0 /\ ~Fits(tomorrow)
              \/ (growth + 1) * INT_SCALE > U128_MAX + 1

\* An offer that has a price keeps it, through any sequence of scheduling,
\* eviction, deletion and time (add_offer_vector, find_active_vector_at,
\* calculate_step_price_at): it is lost only when the boss deletes all
\* vectors, when a vector takes over whose base time is still ahead, or when
\* the active vector has grown out of the arithmetic; none of the products of
\* pow_fixed is lost before that.
PriceLostOnlyToLateVector ==
    [][\A a \in Assets :
          /\ offer_priced_at(offers[a].vectors, clock)
          /\ ~offer_priced_at(offers'[a].vectors, clock')
          => \/ offers'[a].vectors = {}
             \/ LET active == find_active_vector_at(offers'[a].vectors, clock')
                IN  /\ started_at(offers'[a].vectors, clock') # {}
                    /\ active.base_time > clock' \/ Outgrown(active, clock')]_vars

\* The start times of an offer's vectors are distinct, so the active vector is
\* unique, and there are at most as many vectors as slots.
VectorsDistinct ==
    \A a \in Assets :
        /\ Cardinality(offers[a].vectors) <= MAX_VECTORS
        /\ \A v, w \in offers[a].vectors : v.start_time = w.start_time => v = w
=============================================================================
