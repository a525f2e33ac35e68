---------------------------- MODULE SetupProofs -----------------------------
(***************************************************************************)
(* ConfigurationIsSound and VectorsDistinct are invariants of Onre, and no *)
(* edit of the pricing vectors disturbs the price in force or loses it,    *)
(* for every deployed configuration, all arguments and every order of      *)
(* calls.                                                                  *)
(***************************************************************************)
EXTENDS OnreProofs, FiniteSetTheorems

-----------------------------------------------------------------------------
(* What a step may do to what the configuration rests on.                  *)

\* What exists stays, and the main offer is one that exists.
Grows ==
    /\ \A b \in Assets : offers[b].made => offers'[b].made
    /\ \A b \in Assets : redemption_offers[b].made => redemption_offers'[b].made
    /\ \A b \in Assets : redemption_offers'[b].made =>
           redemption_offers[b].made \/ offers[b].made
    /\ \A r \in requests' : r.offer \in Assets /\
           (r \in requests \/ redemption_offers[r.offer].made)
    /\ \/ state'.main_offer = state.main_offer
       \/ /\ state'.main_offer \in Assets
          /\ offers[state'.main_offer].made
    /\ buffer'.initialized => buffer.initialized \/ state.main_offer # NoOffer

\* Growing keeps the configuration sound.
LEMMA GrowthIsSound ==
    ASSUME IInv, ConfigurationIsSound, Grows
    PROVE  ConfigurationIsSound'
<1>1. /\ \A r \in requests : r.offer \in Assets
      /\ state.main_offer \in Assets \union {NoOffer} /\ NoOffer \notin Assets
  BY RequestRemaining, StateAssumption DEF IInv, TypeOK
<1>2. QED
  BY <1>1 DEF Grows, ConfigurationIsSound

\* A step that leaves offers, redemption offers, requests and the main offer.
LEMMA SameConfiguration ==
    ASSUME IInv, UNCHANGED <<offers, redemption_offers, requests>>,
           state'.main_offer = state.main_offer,
           buffer' = buffer \/ buffer.initialized \/ main_offer_set
    PROVE  Grows
  BY RequestRemaining DEF Grows, main_offer_set

\* A settled BUFFER existed before.
LEMMA SettledBuffer ==
    ASSUME NEW delta,
           buffer' = store_buffer_post_supply(accrued, delta)
    PROVE  buffer' = buffer \/ buffer.initialized
<1>1. CASE should_accrue_onyc_mint
  BY <1>1 DEF should_accrue_onyc_mint
<1>2. CASE ~should_accrue_onyc_mint
  BY <1>2 DEF store_buffer_post_supply, accrued
<1>3. QED
  BY <1>1, <1>2

\* BUFFER, takes and swaps.
LEMMA TradeGrows ==
    ASSUME IInv, BufferStep \/ TakeStep \/ SwapStep
    PROVE  Grows
<1> DEFINE Same ==
        /\ UNCHANGED <<offers, redemption_offers, requests, state>>
        /\ buffer' = buffer \/ buffer.initialized \/ main_offer_set
<1>1. ASSUME BufferStep PROVE Same
  <2>1. ASSUME NEW n, mint_to(n) PROVE Same
    BY <2>1 DEF mint_to
  <2>2. ASSUME NEW n, burn_for_nav_increase(n) PROVE Same
    BY <2>2 DEF burn_for_nav_increase
  <2>3. ASSUME \/ settle_buffer
               \/ \E n : set_buffer_gross_apr(n)
               \/ \E n, m, h : set_buffer_fee_config(n, m, h)
        PROVE  Same
    BY <2>3
    DEF settle_buffer, set_buffer_gross_apr, set_buffer_fee_config, accrue_and_refresh
  <2>4. ASSUME \/ initialize_buffer
               \/ \E n : deposit_reserve_vault(n) \/ withdraw_reserve_vault(n)
        PROVE  Same
    BY <2>4
    DEF initialize_buffer, deposit_reserve_vault, withdraw_reserve_vault, move_reserve
  <2>5. QED
    BY <1>1, <2>1, <2>2, <2>3, <2>4 DEF BufferStep
<1>2. ASSUME TakeStep PROVE Same
  <2>1. ASSUME NEW a, NEW n, NEW p, take_offer(a, n, p) PROVE Same
    BY <2>1 DEF take_offer
  <2>2. ASSUME NEW a, NEW n, NEW p, take_offer_v2(a, n, p) PROVE Same
    BY <2>2 DEF take_offer_v2
  <2>3. QED
    BY <1>2, <2>1, <2>2 DEF TakeStep
<1>3. ASSUME SwapStep PROVE Same
  <2>1. ASSUME NEW a, NEW c, configure_prop_amm(a, c) PROVE Same
    BY <2>1 DEF configure_prop_amm
  <2>2. ASSUME NEW a, NEW n, NEW m, open_swap_buy(a, n, m) PROVE Same
    BY <2>2 DEF open_swap_buy
  <2>3. ASSUME NEW a, NEW n, NEW m, open_swap_sell(a, n, m) PROVE Same
    BY <2>3, SettledBuffer DEF open_swap_sell
  <2>4. QED
    BY <1>3, <2>1, <2>2, <2>3 DEF SwapStep
<1>4. Same
  BY <1>1, <1>2, <1>3
<1>5. QED
  BY <1>4, SameConfiguration

\* Operations and the outside world.
LEMMA OperationGrows ==
    ASSUME IInv, OperationStep
    PROVE  Grows
<1>1. ASSUME NEW a \in Assets, set_main_offer(a) PROVE Grows
  <2>1. /\ UNCHANGED <<offers, redemption_offers, requests, buffer>>
        /\ state'.main_offer = a /\ offers[a].made
    BY <1>1 DEF set_main_offer, only_state_changes, IInv, TypeOK
  <2>2. QED
    BY <2>1, RequestRemaining DEF Grows
<1>2. ASSUME NEW n, set_kill_switch(n) \/ configure_max_supply(n) \/ configure_max_mint_amount(n)
      PROVE  Grows
  <2>1. /\ UNCHANGED <<offers, redemption_offers, requests, buffer>>
        /\ state'.main_offer = state.main_offer
    BY <1>2
    DEF set_kill_switch, configure_max_supply, configure_max_mint_amount,
        only_state_changes, IInv, TypeOK
  <2>2. QED
    BY <2>1, SameConfiguration
<1>3. CASE UNCHANGED <<offers, redemption_offers, requests, buffer, state>>
  BY <1>3, SameConfiguration
<1>4. ASSUME \/ \E vault, n : vault_deposit_onyc(vault, n) \/ vault_withdraw_onyc(vault, n)
             \/ \E a, vault, n : \/ vault_deposit_asset(a, vault, n)
                                 \/ vault_withdraw_asset(a, vault, n)
             \/ \E kind, n : withdraw_configurable_vault_onyc(kind, n)
             \/ \E a, kind, n : withdraw_configurable_vault_asset(a, kind, n)
             \/ \E n : external_burn(n) \/ external_mint(n)
      PROVE  UNCHANGED <<offers, redemption_offers, requests, buffer, state>>
  BY <1>4, Zenon
  DEF vault_deposit_onyc, vault_withdraw_onyc, vault_deposit_asset, vault_withdraw_asset,
      withdraw_configurable_vault_onyc, withdraw_configurable_vault_asset, move_onyc,
      move_asset, external_burn, external_mint
<1>5. ASSUME \/ \E kind, destination : set_configurable_vault_destination(kind, destination)
             \/ \E owners : set_circulating_supply_excluded_accounts(owners)
             \/ update_circulating_supply_excluded_balance \/ refresh_market_stats
             \/ transfer_mint_authority_to_program \/ transfer_mint_authority_to_boss
             \/ tick
      PROVE  UNCHANGED <<offers, redemption_offers, requests, buffer, state>>
  BY <1>5, Zenon
  DEF set_configurable_vault_destination, set_circulating_supply_excluded_accounts,
      update_circulating_supply_excluded_balance, refresh_market_stats,
      transfer_mint_authority_to_program, transfer_mint_authority_to_boss,
      transfer_mint_authority, tick
<1>6. Inputs.main_offer \subseteq Assets
  BY InputAssumption
<1>7. QED
  BY <1>1, <1>2, <1>3, <1>4, <1>5, <1>6 DEF OperationStep

\* Offers are only made, never closed.
LEMMA OfferGrows ==
    ASSUME IInv, OfferStep
    PROVE  Grows
<1>1. offers \in [Assets -> OfferType] /\ Inputs.new_offer \subseteq Assets
      /\ Inputs.delete_all \subseteq Assets
  BY InputAssumption DEF IInv, TypeOK
<1> DEFINE Kept == \A b \in Assets : offers[b].made => offers'[b].made
<1>2. ASSUME NEW a \in Assets, NEW n, NEW f, make_offer(a, n, f)
      PROVE  Kept /\ only_offers_change
  BY <1>1, <1>2 DEF make_offer
<1>3. ASSUME NEW a \in Assets, NEW n, \/ update_offer_fee(a, n)
                                       \/ update_offer_permissionless_fee(a, n)
                                       \/ set_offer_disabled(a, n)
      PROVE  Kept /\ only_offers_change
  BY <1>1, <1>3
  DEF update_offer_fee, update_offer_permissionless_fee, set_offer_disabled, OfferType
<1>4. ASSUME NEW a \in Assets, NEW vectors, only_offers_change,
             offers' = [offers EXCEPT ![a].vectors = vectors]
      PROVE  Kept /\ only_offers_change
  BY <1>1, <1>4 DEF OfferType
<1>5. ASSUME NEW a \in Assets, NEW t, NEW b, NEW n, NEW m, NEW d,
             add_offer_vector(a, t, b, n, m, d)
      PROVE  Kept /\ only_offers_change
  BY <1>4, <1>5 DEF add_offer_vector
<1>6. ASSUME NEW a \in Assets, \/ \E v \in offers[a].vectors : delete_offer_vector(a, v)
                               \/ delete_all_offer_vectors(a)
      PROVE  Kept /\ only_offers_change
  BY <1>4, <1>6 DEF delete_offer_vector, delete_all_offer_vectors
<1>7. Kept /\ only_offers_change
  <2> HIDE DEF Kept
  <2>1. QED
    BY <1>1, <1>2, <1>3, <1>5, <1>6 DEF OfferStep
<1>8. QED
  BY <1>7, RequestRemaining DEF Grows, only_offers_change

\* A redemption offer is made on an offer, a request on a redemption offer.
LEMMA RedemptionGrows ==
    ASSUME IInv, ConfigurationIsSound, RedemptionStep
    PROVE  Grows
<1>1. /\ redemption_offers \in [Assets -> RedemptionOfferType]
      /\ Inputs.new_offer \subseteq Assets /\ Inputs.fulfill \subseteq Nat
      /\ \A r \in requests : r.offer \in Assets /\ redemption_offers[r.offer].made
  BY InputAssumption, RequestRemaining DEF IInv, TypeOK, ConfigurationIsSound
<1>2. ASSUME NEW a \in Assets, NEW n, create_redemption_request(a, n)
      PROVE  Grows
  <2>1. /\ redemption_offers[a].made
        /\ \A b \in Assets : redemption_offers'[b].made = redemption_offers[b].made
        /\ \A r \in requests' : r \in requests \/ r.offer = a
        /\ UNCHANGED <<offers, state, buffer>>
    BY <1>1, <1>2 DEF create_redemption_request, RedemptionOfferType
  <2>2. QED
    BY <1>1, <2>1 DEF Grows
<1>3. ASSUME NEW r \in requests, cancel_redemption_request(r)
      PROVE  Grows
  <2>1. /\ \A b \in Assets : redemption_offers'[b].made = redemption_offers[b].made
        /\ requests' \subseteq requests
        /\ UNCHANGED <<offers, state, buffer>>
    BY <1>1, <1>3 DEF cancel_redemption_request, RedemptionOfferType
  <2>2. QED
    BY <1>1, <2>1 DEF Grows
<1>4. ASSUME NEW r \in requests, NEW n \in Nat, fulfill_redemption_request(r, n)
      PROVE  Grows
  <2> DEFINE rest == [r EXCEPT !.fulfilled_amount = @ + n]
  <2>1. /\ record_fulfillment(r, n)
        /\ UNCHANGED <<offers, state>>
    BY <1>4 DEF fulfill_redemption_request
  <2>2. \E delta : buffer' = store_buffer_post_supply(accrued, delta)
    BY <1>4 DEF fulfill_redemption_request
  <2>3. rest.offer = r.offer /\ requests' \subseteq requests \union {rest}
    BY <2>1, RequestRemaining DEF record_fulfillment
  <2> HIDE DEF rest
  <2>4. \A b \in Assets : redemption_offers'[b].made = redemption_offers[b].made
    BY <1>1, <2>1 DEF record_fulfillment, RedemptionOfferType
  <2>5. buffer' = buffer \/ buffer.initialized
    BY <2>2, SettledBuffer
  <2>6. QED
    BY <1>1, <2>1, <2>3, <2>4, <2>5 DEF Grows
<1>5. ASSUME NEW a \in Assets, NEW n, NEW m, make_redemption_offer(a, n, m)
      PROVE  Grows
  <2>1. /\ offers[a].made
        /\ \A b \in Assets : redemption_offers'[b].made
               <=> redemption_offers[b].made \/ b = a
        /\ UNCHANGED <<offers, state, buffer, requests>>
    BY <1>1, <1>5
    DEF make_redemption_offer, can_make_redemption_offer, RedemptionOfferType,
        NoRedemptionOffer
  <2>2. QED
    BY <1>1, <2>1 DEF Grows
<1>6. ASSUME NEW a \in Assets, NEW n,
             \/ update_redemption_offer_fee(a, n)
             \/ update_redemption_offer_prop_amm_sell_fee(a, n)
             \/ update_redemption_offer_vault_target(a, n)
             \/ set_redemption_offer_disabled(a, n)
      PROVE  Grows
  <2>1. /\ \A b \in Assets : redemption_offers'[b].made = redemption_offers[b].made
        /\ UNCHANGED <<offers, state, buffer, requests>>
    BY <1>1, <1>6
    DEF update_redemption_offer_fee, update_redemption_offer_prop_amm_sell_fee,
        update_redemption_offer_vault_target, set_redemption_offer_disabled,
        RedemptionOfferType
  <2>2. QED
    BY <1>1, <2>1 DEF Grows
<1>7. QED
  BY <1>1, <1>2, <1>3, <1>4, <1>5, <1>6 DEF RedemptionStep

\* In every reachable state a redemption offer rests on its offer, a request
\* on its redemption offer, and the main offer and BUFFER on an offer, in
\* whatever order the instructions are called.
THEOREM ConfigurationAlwaysSound == Spec => []ConfigurationIsSound
<1>1. Init => ConfigurationIsSound
  BY InitialAssumption DEF Init, ConfigurationIsSound
<1>2. IInv /\ ConfigurationIsSound /\ [Next]_vars => ConfigurationIsSound'
  <2>1. SUFFICES ASSUME IInv, ConfigurationIsSound, [Next]_vars
                 PROVE  ConfigurationIsSound'
    OBVIOUS
  <2>2. CASE UNCHANGED vars
    BY <2>1, <2>2 DEF vars, ConfigurationIsSound
  <2>3. CASE Next
    BY <2>1, <2>3, TradeGrows, OperationGrows, OfferGrows, RedemptionGrows, GrowthIsSound
    DEF Next
  <2>4. QED
    BY <2>1, <2>2, <2>3
<1>3. QED
  BY <1>1, <1>2, InitIInv, NextIInv, PTL DEF Spec

-----------------------------------------------------------------------------
(* Pricing vectors.  Counting them needs that they are finitely many.      *)

GoodVectors(vectors) ==
    /\ IsFiniteSet(vectors)
    /\ Cardinality(vectors) <= MAX_VECTORS
    /\ \A v, w \in vectors : v.start_time = w.start_time => v = w

VectorInv == \A a \in Assets : GoodVectors(offers[a].vectors)

\* A part of good vectors is good.
LEMMA FewerVectors ==
    ASSUME NEW vectors, GoodVectors(vectors), NEW part \in SUBSET vectors
    PROVE  GoodVectors(part)
<1>1. /\ IsFiniteSet(part) /\ Cardinality(part) <= Cardinality(vectors)
      /\ Cardinality(part) \in Nat /\ Cardinality(vectors) \in Nat
  BY FS_Subset, FS_CardinalityType DEF GoodVectors
<1>2. QED
  BY <1>1, PricingAssumption DEF GoodVectors

\* Replacing the vectors of one offer by good ones.
LEMMA GoodReplaced ==
    ASSUME IInv, VectorInv, NEW a \in Assets, NEW vectors, GoodVectors(vectors),
           offers' = [offers EXCEPT ![a].vectors = vectors]
    PROVE  VectorInv'
<1>1. \A b \in Assets : offers'[b].vectors = IF b = a THEN vectors ELSE offers[b].vectors
  BY DEF IInv, TypeOK, OfferType
<1>2. ASSUME NEW b \in Assets PROVE GoodVectors(offers'[b].vectors)
  BY <1>1, <1>2 DEF VectorInv
<1>3. QED
  BY <1>2 DEF VectorInv, GoodVectors

\* A new vector starts after all others and takes a free slot.
LEMMA AddGood ==
    ASSUME IInv, VectorInv, NEW a \in Assets, NEW start \in Nat, NEW base_time \in Nat,
           NEW base_price \in Nat, NEW apr \in Nat, NEW duration \in Nat,
           add_offer_vector(a, start, base_time, base_price, apr, duration)
    PROVE  VectorInv'
<1> DEFINE begin == IF start = 0 THEN max_of(clock, base_time) ELSE start
           new   == [start_time |-> begin, base_time |-> base_time,
                     base_price |-> base_price, apr |-> apr,
                     price_fix_duration |-> duration]
           old   == offers[a].vectors
           kept  == clean_old_vectors(old, new)
<1>1. /\ validate_inputs(old, new) /\ Cardinality(kept) < MAX_VECTORS
      /\ offers' = [offers EXCEPT ![a].vectors = kept \union {new}]
  BY DEF add_offer_vector
<1>2. clock \in Nat /\ old \in SUBSET OfferVector /\ GoodVectors(old)
  BY DEF IInv, TypeOK, OfferType, VectorInv
<1>3. base_time > 0 /\ base_price > 0 /\ duration > 0
  BY <1>1 DEF validate_inputs
<1>4. begin \in Nat \ {0}
  BY <1>2, <1>3 DEF max_of
<1> HIDE DEF begin
<1>5. new \in OfferVector
  BY <1>3, <1>4 DEF OfferVector
<1> HIDE DEF new, old
<1>6. kept \subseteq old
  BY <1>2, <1>5, CleanKeepsOld
<1>7. \A w \in old : new.start_time > w.start_time /\ w.start_time \in Nat
  BY <1>1, <1>2 DEF validate_inputs, OfferVector
<1> HIDE DEF kept
<1>8. GoodVectors(kept) /\ Cardinality(kept) \in Nat
  BY <1>2, <1>6, FewerVectors, FS_CardinalityType DEF GoodVectors
<1>9. GoodVectors(kept \union {new})
  <2>1. /\ IsFiniteSet(kept \union {new})
        /\ Cardinality(kept \union {new}) <= MAX_VECTORS
    <3>1. IsFiniteSet(kept)
      BY <1>8 DEF GoodVectors
    <3>2. /\ IsFiniteSet(kept \union {new})
          /\ Cardinality(kept \union {new}) =
               IF new \in kept THEN Cardinality(kept) ELSE Cardinality(kept) + 1
      BY <3>1, FS_AddElement, Zenon
    <3>3. Cardinality(kept) < MAX_VECTORS
      BY <1>1
    <3>4. QED
      BY <1>8, <3>2, <3>3, PricingAssumption
  <2>2. new.start_time \in Nat
    BY <1>5 DEF OfferVector
  <2>3. \A v, w \in kept \union {new} : v.start_time = w.start_time => v = w
    BY <1>6, <1>7, <1>8, <2>2 DEF GoodVectors
  <2>4. QED
    BY <2>1, <2>3 DEF GoodVectors
<1>10. QED
  BY <1>1, <1>9, GoodReplaced

\* Every step that changes offers keeps their vectors good.
LEMMA OfferGood ==
    ASSUME IInv, VectorInv, OfferStep
    PROVE  VectorInv'
<1>1. /\ offers \in [Assets -> OfferType]
      /\ Inputs.new_offer \subseteq Assets /\ Inputs.delete_all \subseteq Assets
  BY InputAssumption DEF IInv, TypeOK
<1>2. GoodVectors({})
  BY FS_EmptySet, PricingAssumption DEF GoodVectors
<1>3. ASSUME NEW a \in Assets, NEW n, NEW f, make_offer(a, n, f)
      PROVE  VectorInv'
  <2>1. \A b \in Assets : offers'[b].vectors = IF b = a THEN {} ELSE offers[b].vectors
    BY <1>1, <1>3 DEF make_offer, NoOfferYet
  <2>2. ASSUME NEW b \in Assets PROVE GoodVectors(offers'[b].vectors)
    BY <1>2, <2>1, <2>2 DEF VectorInv
  <2>3. QED
    BY <2>2 DEF VectorInv, GoodVectors
<1>4. ASSUME NEW a \in Assets, NEW n, \/ update_offer_fee(a, n)
                                       \/ update_offer_permissionless_fee(a, n)
                                       \/ set_offer_disabled(a, n)
      PROVE  VectorInv'
  <2>1. \A b \in Assets : offers'[b].vectors = offers[b].vectors
    BY <1>1, <1>4
    DEF update_offer_fee, update_offer_permissionless_fee, set_offer_disabled, OfferType
  <2>2. QED
    BY <2>1 DEF VectorInv, GoodVectors
<1>5. ASSUME NEW a \in Assets, NEW i \in Inputs.vector,
             add_offer_vector(a, i.start, i.base_time, i.base_price, i.apr, i.duration)
      PROVE  VectorInv'
  <2>1. i \in VectorInput
    BY InputAssumption
  <2>2. /\ i.start \in Nat /\ i.base_time \in Nat /\ i.base_price \in Nat
        /\ i.apr \in Nat /\ i.duration \in Nat
    BY <2>1 DEF VectorInput
  <2>3. QED
    BY <1>5, <2>2, AddGood
<1>6. ASSUME NEW a \in Assets, NEW v \in offers[a].vectors, delete_offer_vector(a, v)
      PROVE  VectorInv'
  <2>1. offers' = [offers EXCEPT ![a].vectors = offers[a].vectors \ {v}]
    BY <1>6 DEF delete_offer_vector
  <2>2. GoodVectors(offers[a].vectors \ {v})
    BY FewerVectors DEF VectorInv
  <2>3. QED
    BY <2>1, <2>2, GoodReplaced
<1>7. ASSUME NEW a \in Assets, delete_all_offer_vectors(a)
      PROVE  VectorInv'
  <2>1. offers' = [offers EXCEPT ![a].vectors = {}]
    BY <1>7 DEF delete_all_offer_vectors
  <2>2. QED
    BY <1>2, <2>1, GoodReplaced
<1>8. QED
  BY <1>1, <1>3, <1>4, <1>5, <1>6, <1>7 DEF OfferStep

\* No other step changes an offer, and time only passes.
LEMMA OffersElsewhere ==
    RedemptionStep \/ BufferStep \/ TakeStep \/ SwapStep \/ OperationStep =>
        UNCHANGED offers /\ (clock' = clock \/ clock' = clock + 1)
<1> DEFINE Quiet == UNCHANGED offers /\ (clock' = clock \/ clock' = clock + 1)
<1>1. ASSUME RedemptionStep PROVE Quiet
  <2>1. ASSUME NEW r, NEW n, fulfill_redemption_request(r, n) PROVE Quiet
    BY <2>1 DEF fulfill_redemption_request
  <2>2. ASSUME NEW a, NEW n, create_redemption_request(a, n) PROVE Quiet
    BY <2>2 DEF create_redemption_request
  <2>3. QED
    BY <1>1, <2>1, <2>2, Zenon
    DEF RedemptionStep, cancel_redemption_request, make_redemption_offer,
        update_redemption_offer_fee, update_redemption_offer_prop_amm_sell_fee,
        update_redemption_offer_vault_target, set_redemption_offer_disabled
<1>2. ASSUME BufferStep PROVE Quiet
  BY <1>2, Zenon
  DEF BufferStep, initialize_buffer, settle_buffer, set_buffer_gross_apr,
      set_buffer_fee_config, accrue_and_refresh, burn_for_nav_increase,
      deposit_reserve_vault, withdraw_reserve_vault, move_reserve, mint_to
<1>3. ASSUME TakeStep PROVE Quiet
  <2>1. ASSUME NEW a, NEW n, NEW p, take_offer(a, n, p) PROVE Quiet
    BY <2>1 DEF take_offer
  <2>2. ASSUME NEW a, NEW n, NEW p, take_offer_v2(a, n, p) PROVE Quiet
    BY <2>2 DEF take_offer_v2
  <2>3. QED
    BY <1>3, <2>1, <2>2 DEF TakeStep
<1>4. ASSUME SwapStep PROVE Quiet
  <2>1. ASSUME NEW a, NEW c, configure_prop_amm(a, c) PROVE Quiet
    BY <2>1 DEF configure_prop_amm
  <2>2. ASSUME NEW a, NEW n, NEW m, open_swap_buy(a, n, m) PROVE Quiet
    BY <2>2 DEF open_swap_buy
  <2>3. ASSUME NEW a, NEW n, NEW m, open_swap_sell(a, n, m) PROVE Quiet
    BY <2>3 DEF open_swap_sell
  <2>4. QED
    BY <1>4, <2>1, <2>2, <2>3 DEF SwapStep
<1>5. ASSUME OperationStep PROVE Quiet
  BY <1>5, Zenon
  DEF OperationStep, vault_deposit_onyc, vault_deposit_asset, vault_withdraw_onyc,
      vault_withdraw_asset, set_configurable_vault_destination,
      withdraw_configurable_vault_onyc, withdraw_configurable_vault_asset,
      set_circulating_supply_excluded_accounts,
      update_circulating_supply_excluded_balance, refresh_market_stats, set_kill_switch,
      configure_max_supply, configure_max_mint_amount, set_main_offer,
      transfer_mint_authority_to_program, transfer_mint_authority_to_boss,
      transfer_mint_authority, tick, external_burn, external_mint, move_onyc,
      move_asset, only_state_changes
<1>6. QED
  BY <1>1, <1>2, <1>3, <1>4, <1>5

LEMMA InitVectorInv == Init => VectorInv
  BY InitialAssumption DEF Init, VectorInv, GoodVectors

LEMMA NextVectorInv == IInv /\ VectorInv /\ [Next]_vars => VectorInv'
<1>1. SUFFICES ASSUME IInv, VectorInv, [Next]_vars PROVE VectorInv'
  OBVIOUS
<1>2. CASE UNCHANGED offers
  BY <1>1, <1>2 DEF VectorInv, GoodVectors
<1>3. CASE OfferStep
  BY <1>1, <1>3, OfferGood
<1>4. QED
  BY <1>1, <1>2, <1>3, OffersElsewhere DEF Next, vars

\* The start times of an offer's vectors are always distinct, so that the
\* active vector is unique, and they never outnumber the slots, through any
\* sequence of additions with their clean-up and of deletions.
THEOREM VectorsAlwaysDistinct == Spec => []VectorsDistinct
<1>1. VectorInv => VectorsDistinct
  BY DEF VectorInv, GoodVectors, VectorsDistinct
<1>2. QED
  BY <1>1, InitVectorInv, NextVectorInv, InitIInv, NextIInv, PTL DEF Spec

-----------------------------------------------------------------------------
(* What an edit of the vectors leaves alone.                               *)

\* Of vectors with distinct start times the active one is the last to start.
LEMMA ActiveIsLast ==
    ASSUME NEW vectors \in SUBSET OfferVector, NEW t \in Int,
           \A v, w \in vectors : v.start_time = w.start_time => v = w,
           NEW m \in started_at(vectors, t),
           \A w \in started_at(vectors, t) : w.start_time <= m.start_time
    PROVE  find_active_vector_at(vectors, t) = m
<1> DEFINE active == latest(started_at(vectors, t))
<1>1. /\ active \in started_at(vectors, t)
      /\ \A w \in started_at(vectors, t) : w.start_time <= active.start_time
  BY LatestStartsLast
<1> HIDE DEF active
<1>2. active.start_time = m.start_time /\ active \in vectors /\ m \in vectors
  BY <1>1 DEF started_at, OfferVector
<1>3. active = m
  BY <1>2
<1>4. QED
  BY <1>3 DEF active, find_active_vector_at

\* Two schedules with the same active vector and the same one before it quote
\* the same price and the same adjustment.
LEMMA SameQuote ==
    ASSUME NEW v, NEW w, NEW t,
           started_at(v, t) # {}, started_at(w, t) # {},
           find_active_vector_at(v, t) = find_active_vector_at(w, t),
           find_previous_vector(v, find_active_vector_at(w, t).start_time)
             = find_previous_vector(w, find_active_vector_at(w, t).start_time)
    PROVE  Quoted(v, t) = Quoted(w, t) /\ Adjusted(v, t) = Adjusted(w, t)
<1> DEFINE m == find_active_vector_at(w, t)
<1>1. find_active_vector_at(v, t) = m
  OBVIOUS
<1>2. find_previous_vector(v, m.start_time) = find_previous_vector(w, m.start_time)
  OBVIOUS
<1>3. Quoted(v, t) = Quoted(w, t)
  <2>1. offer_priced_at(v, t) <=> offer_priced_at(w, t)
    BY <1>1, Zenon DEF offer_priced_at
  <2>2. compute_offer_current_price(v, t) = compute_offer_current_price(w, t)
    BY <1>1, Zenon DEF compute_offer_current_price
  <2>3. QED
    BY <2>1, <2>2, Zenon DEF Quoted
<1>4. nav_adjustment(v, m) = nav_adjustment(w, m)
  <2> DEFINE jump   == calculate_step_price_at(m, m.start_time)
             fall(p) == jump - calculate_step_price_at(CHOOSE x \in p : TRUE, m.start_time)
             net(p)  == IF p = {} THEN jump ELSE fall(p)
  <2>1. \A s : nav_adjustment(s, m) = net(find_previous_vector(s, m.start_time))
    BY DEF nav_adjustment
  <2> HIDE DEF net, m
  <2>2. QED
    BY <1>2, <2>1, Zenon
<1>5. nav_adjustment_defined(v, m) <=> nav_adjustment_defined(w, m)
  BY <1>2, <1>4, Zenon DEF nav_adjustment_defined
<1>6. Adjusted(v, t) = Adjusted(w, t)
  BY <1>1, <1>4, <1>5, Zenon DEF Adjusted
<1>7. QED
  BY <1>3, <1>6

\* Two schedules in which nothing has started quote nothing.
LEMMA NothingQuoted ==
    ASSUME NEW v, NEW t, started_at(v, t) = {}
    PROVE  Quoted(v, t) = {} /\ Adjusted(v, t) = {}
  BY DEF Quoted, Adjusted, offer_priced_at

\* Schedules that agree on what starts no later than t quote the same.
LEMMA SameUpTo ==
    ASSUME NEW v \in SUBSET OfferVector, NEW w \in SUBSET OfferVector, NEW t \in Int,
           \A x \in OfferVector : x.start_time <= t => (x \in v <=> x \in w)
    PROVE  Quoted(v, t) = Quoted(w, t) /\ Adjusted(v, t) = Adjusted(w, t)
<1>1. started_at(v, t) = started_at(w, t)
  BY DEF started_at
<1>2. CASE started_at(w, t) = {}
  BY <1>1, <1>2, NothingQuoted
<1>3. CASE started_at(w, t) # {}
  <2> DEFINE m == find_active_vector_at(w, t)
  <2>1. find_active_vector_at(v, t) = m
    BY <1>1, Zenon DEF find_active_vector_at
  <2>2. m \in OfferVector /\ m.start_time <= t
    BY <1>3, LatestStarted DEF find_active_vector_at, started_at
  <2> HIDE DEF m
  <2>3. started_at(v, m.start_time - 1) = started_at(w, m.start_time - 1)
    BY <2>2 DEF started_at, OfferVector
  <2>4. find_previous_vector(v, m.start_time) = find_previous_vector(w, m.start_time)
    BY <2>3, Zenon DEF find_previous_vector
  <2>5. QED
    BY <1>1, <1>3, <2>1, <2>4, SameQuote DEF m
<1>4. QED
  BY <1>2, <1>3

\* A vector that starts later than now evicts neither the active vector nor the
\* one before it.
LEMMA AddedLater ==
    ASSUME NEW vectors \in SUBSET OfferVector, NEW new \in OfferVector, clock \in Nat,
           \A v, w \in vectors : v.start_time = w.start_time => v = w,
           \A w \in vectors : new.start_time > w.start_time, new.start_time > clock
    PROVE  LET after == clean_old_vectors(vectors, new) \union {new}
           IN  /\ started_at(vectors, clock) # {} => started_at(after, clock) # {}
               /\ Quoted(after, clock) = Quoted(vectors, clock)
               /\ Adjusted(after, clock) = Adjusted(vectors, clock)
<1> DEFINE after == clean_old_vectors(vectors, new) \union {new}
<1>1. new.start_time # clock /\ new.start_time \in Nat
  BY DEF OfferVector
<1>2. CASE started_at(vectors, clock) = {}
  <2>1. after = vectors \union {new}
    BY <1>1, <1>2 DEF clean_old_vectors
  <2> HIDE DEF after
  <2>2. started_at(after, clock) = {}
    BY <1>2, <2>1 DEF started_at, OfferVector
  <2>3. QED
    BY <1>2, <2>2, NothingQuoted DEF after
<1>3. CASE started_at(vectors, clock) # {}
  <2> DEFINE m      == find_active_vector_at(vectors, clock)
             before == started_at(vectors, m.start_time - 1)
             prev   == find_previous_vector(vectors, m.start_time)
  <2>1. /\ m \in vectors /\ m \in OfferVector /\ m.start_time <= clock
        /\ \A w \in started_at(vectors, clock) : w.start_time <= m.start_time
    <3>1. m = latest(started_at(vectors, clock))
      BY DEF find_active_vector_at
    <3>2. /\ m \in started_at(vectors, clock)
          /\ \A w \in started_at(vectors, clock) : w.start_time <= m.start_time
      BY <1>3, <3>1, LatestStartsLast
    <3> HIDE DEF m
    <3>3. QED
      BY <3>2 DEF started_at
  <2>2. after = {w \in vectors : w.start_time >= m.start_time} \union prev \union {new}
    BY <1>1, <1>3 DEF clean_old_vectors
  <2> HIDE DEF m
  <2>3. m.start_time \in Nat /\ m.start_time - 1 \in Int
    BY <2>1 DEF OfferVector
  <2>4. prev = IF before = {} THEN {} ELSE {latest(before)}
    BY Zenon DEF find_previous_vector
  <2>5. before # {} => latest(before) \in before
    BY <2>3, LatestStarted
  <2>6. \A x : x \in before <=> x \in vectors /\ x.start_time <= m.start_time - 1
    BY DEF started_at
  <2> HIDE DEF before, prev
  <2>7. prev \subseteq before
    BY <2>4, <2>5
  <2> HIDE DEF after
  <2>8. after \in SUBSET OfferVector
    BY <2>2, <2>6, <2>7
  <2>9. started_at(after, m.start_time - 1) = prev
    <3>1. \A x \in vectors : x.start_time \in Nat
      BY DEF OfferVector
    <3>2. \A x \in after : x.start_time <= m.start_time - 1 <=> x \in prev
      BY <1>1, <2>1, <2>2, <2>3, <2>6, <2>7, <3>1
    <3>3. prev \subseteq after
      BY <2>2
    <3>4. QED
      BY <3>2, <3>3 DEF started_at
  <2>10. find_previous_vector(after, m.start_time) = prev
    <3>1. find_previous_vector(after, m.start_time)
            = IF prev = {} THEN {} ELSE {latest(prev)}
      BY <2>9, Zenon DEF find_previous_vector
    <3>2. CASE prev = {}
      BY <3>1, <3>2
    <3>3. CASE prev # {}
      <4>1. latest(prev) \in prev
        BY <2>3, <2>8, <2>9, <3>3, LatestStarted
      <4>2. QED
        BY <2>4, <3>1, <3>3, <4>1
    <3>4. QED
      BY <3>2, <3>3
  <2>11. started_at(after, clock) \subseteq started_at(vectors, clock)
    BY <1>1, <2>2, <2>6, <2>7 DEF started_at
  <2>12. m \in started_at(after, clock)
    BY <2>1, <2>2, <2>3 DEF started_at
  <2>13. \A v, w \in after : v.start_time = w.start_time => v = w
    <3>1. after \subseteq vectors \union {new}
      BY <2>2, <2>6, <2>7
    <3>2. \A w \in vectors : w.start_time # new.start_time
      BY <1>1 DEF OfferVector
    <3>3. QED
      BY <3>1, <3>2
  <2>14. find_active_vector_at(after, clock) = m
    BY <2>1, <2>8, <2>11, <2>12, <2>13, ActiveIsLast
  <2>15. find_previous_vector(after, m.start_time) = find_previous_vector(vectors, m.start_time)
    BY <2>10 DEF prev
  <2>16. /\ Quoted(after, clock) = Quoted(vectors, clock)
         /\ Adjusted(after, clock) = Adjusted(vectors, clock)
    BY <1>3, <2>12, <2>14, <2>15, SameQuote DEF m
  <2>17. QED
    BY <2>12, <2>16 DEF after
<1>4. QED
  BY <1>2, <1>3

\* A vector that starts now takes over.
LEMMA AddedNow ==
    ASSUME NEW vectors, NEW new, new.start_time = clock, clock \in Nat
    PROVE  new \in started_at(vectors \union {new}, clock)
  BY DEF started_at

\* The vectors `new` that validate_inputs lets in.
Schedules(vectors, new) ==
    /\ new.start_time >= clock
    /\ \A w \in vectors : new.start_time > w.start_time

\* All that a step can do to the vectors of an offer, and to the clock.
Rescheduled(before, after) ==
    \/ after = before /\ (clock' = clock \/ clock' = clock + 1)
    \/ clock' = clock
       /\ \/ after = {}
          \/ \E v \in before : v.start_time > clock /\ after = before \ {v}
          \/ \E new \in OfferVector :
                 Schedules(before, new) /\ after = clean_old_vectors(before, new) \union {new}

LEMMA AddReschedules ==
    ASSUME IInv, NEW a \in Assets, NEW start \in Nat, NEW base_time \in Nat,
           NEW base_price \in Nat, NEW apr \in Nat, NEW duration \in Nat,
           add_offer_vector(a, start, base_time, base_price, apr, duration)
    PROVE  \A b \in Assets : Rescheduled(offers[b].vectors, offers'[b].vectors)
<1> DEFINE begin == IF start = 0 THEN max_of(clock, base_time) ELSE start
           new   == [start_time |-> begin, base_time |-> base_time,
                     base_price |-> base_price, apr |-> apr,
                     price_fix_duration |-> duration]
           old   == offers[a].vectors
           kept  == clean_old_vectors(old, new)
<1>1. /\ validate_inputs(old, new) /\ clock' = clock
      /\ offers' = [offers EXCEPT ![a].vectors = kept \union {new}]
  BY DEF add_offer_vector, only_offers_change
<1>2. clock \in Nat /\ base_time > 0 /\ base_price > 0 /\ duration > 0
  BY <1>1 DEF validate_inputs, IInv, TypeOK
<1>3. begin \in Nat \ {0}
  BY <1>2 DEF max_of
<1> HIDE DEF begin
<1>4. new \in OfferVector
  BY <1>2, <1>3 DEF OfferVector
<1> HIDE DEF new, old
<1>5. Schedules(old, new)
  BY <1>1 DEF validate_inputs, Schedules
<1> HIDE DEF kept
<1>6. \A b \in Assets :
          offers'[b].vectors = IF b = a THEN kept \union {new} ELSE offers[b].vectors
  BY <1>1 DEF IInv, TypeOK, OfferType
<1>7. QED
  BY <1>1, <1>4, <1>5, <1>6 DEF Rescheduled, kept, old

LEMMA OfferReschedules ==
    ASSUME IInv, OfferStep
    PROVE  \A b \in Assets : Rescheduled(offers[b].vectors, offers'[b].vectors)
<1> DEFINE Goal == \A b \in Assets : Rescheduled(offers[b].vectors, offers'[b].vectors)
<1>1. /\ offers \in [Assets -> OfferType]
      /\ Inputs.new_offer \subseteq Assets /\ Inputs.delete_all \subseteq Assets
  BY InputAssumption DEF IInv, TypeOK
<1>2. ASSUME NEW a \in Assets, NEW n, NEW f, make_offer(a, n, f) PROVE Goal
  <2>1. \A b \in Assets : offers'[b].vectors = IF b = a THEN {} ELSE offers[b].vectors
    BY <1>1, <1>2 DEF make_offer, NoOfferYet
  <2>2. clock' = clock
    BY <1>2 DEF make_offer, only_offers_change
  <2>3. QED
    BY <2>1, <2>2 DEF Rescheduled
<1>3. ASSUME NEW a \in Assets, NEW n, \/ update_offer_fee(a, n)
                                       \/ update_offer_permissionless_fee(a, n)
                                       \/ set_offer_disabled(a, n)
      PROVE  Goal
  <2>1. \A b \in Assets : offers'[b].vectors = offers[b].vectors
    BY <1>1, <1>3
    DEF update_offer_fee, update_offer_permissionless_fee, set_offer_disabled, OfferType
  <2>2. clock' = clock
    BY <1>3 DEF update_offer_fee, update_offer_permissionless_fee, set_offer_disabled,
                only_offers_change
  <2>3. QED
    BY <2>1, <2>2 DEF Rescheduled
<1>4. ASSUME NEW a \in Assets, NEW i \in Inputs.vector,
             add_offer_vector(a, i.start, i.base_time, i.base_price, i.apr, i.duration)
      PROVE  Goal
  <2>1. i \in VectorInput
    BY InputAssumption
  <2>2. /\ i.start \in Nat /\ i.base_time \in Nat /\ i.base_price \in Nat
        /\ i.apr \in Nat /\ i.duration \in Nat
    BY <2>1 DEF VectorInput
  <2>3. QED
    BY <1>4, <2>2, AddReschedules
<1>5. ASSUME NEW a \in Assets, NEW v \in offers[a].vectors, delete_offer_vector(a, v)
      PROVE  Goal
  <2>1. clock' = clock /\ v.start_time > clock
    BY <1>5 DEF delete_offer_vector, only_offers_change
  <2>2. \A b \in Assets :
            offers'[b].vectors = IF b = a THEN offers[a].vectors \ {v} ELSE offers[b].vectors
    BY <1>1, <1>5 DEF delete_offer_vector, OfferType
  <2>3. QED
    BY <2>1, <2>2 DEF Rescheduled
<1>6. ASSUME NEW a \in Assets, delete_all_offer_vectors(a) PROVE Goal
  <2>1. \A b \in Assets : offers'[b].vectors = IF b = a THEN {} ELSE offers[b].vectors
    BY <1>1, <1>6 DEF delete_all_offer_vectors, OfferType
  <2>2. clock' = clock
    BY <1>6 DEF delete_all_offer_vectors, only_offers_change
  <2>3. QED
    BY <2>1, <2>2 DEF Rescheduled
<1>7. QED
  BY <1>1, <1>2, <1>3, <1>4, <1>5, <1>6 DEF OfferStep

LEMMA StepReschedules ==
    ASSUME IInv, [Next]_vars, NEW b \in Assets
    PROVE  Rescheduled(offers[b].vectors, offers'[b].vectors)
<1>1. CASE OfferStep
  BY <1>1, OfferReschedules
<1>2. CASE UNCHANGED offers /\ (clock' = clock \/ clock' = clock + 1)
  BY <1>2 DEF Rescheduled
<1>3. QED
  BY <1>1, <1>2, OffersElsewhere DEF Next, vars

\* Scheduling and deleting vectors never disturbs the price quoted now nor the
\* NAV adjustment, unless the new vector starts now or all vectors go, whatever
\* add_offer_vector evicts to make room and in whatever order it is called.
THEOREM EditsNeverDisturb == Spec => VectorEditsDoNotDisturb
<1>1. IInv /\ VectorInv /\ [Next]_vars =>
        \A a \in Assets :
          \/ Quoted(offers'[a].vectors, clock) = Quoted(offers[a].vectors, clock)
             /\ Adjusted(offers'[a].vectors, clock) = Adjusted(offers[a].vectors, clock)
          \/ \E v \in offers'[a].vectors \ offers[a].vectors : v.start_time = clock
          \/ offers'[a].vectors = {}
  <2>1. SUFFICES ASSUME IInv, VectorInv, [Next]_vars, NEW a \in Assets
                 PROVE  LET old == offers[a].vectors
                            new == offers'[a].vectors
                        IN  \/ Quoted(new, clock) = Quoted(old, clock)
                               /\ Adjusted(new, clock) = Adjusted(old, clock)
                            \/ \E v \in new \ old : v.start_time = clock
                            \/ new = {}
    BY Zenon
  <2> DEFINE old   == offers[a].vectors
             after == offers'[a].vectors
  <2>2. /\ clock \in Nat /\ old \in SUBSET OfferVector
        /\ \A v, w \in old : v.start_time = w.start_time => v = w
    BY <2>1 DEF IInv, TypeOK, OfferType, VectorInv, GoodVectors
  <2>3. Rescheduled(old, after)
    BY <2>1, StepReschedules
  <2> HIDE DEF old, after
  <2>4. CASE after = old
    BY <2>4 DEF old, after
  <2>5. ASSUME NEW v \in old, v.start_time > clock, after = old \ {v}
        PROVE  /\ Quoted(after, clock) = Quoted(old, clock)
               /\ Adjusted(after, clock) = Adjusted(old, clock)
    <3>1. after \in SUBSET OfferVector
      BY <2>2, <2>5
    <3>2. \A x \in OfferVector : x.start_time <= clock => (x \in after <=> x \in old)
      BY <2>2, <2>5 DEF OfferVector
    <3>3. QED
      BY <2>2, <3>1, <3>2, SameUpTo
  <2>6. ASSUME NEW new \in OfferVector, Schedules(old, new),
               after = clean_old_vectors(old, new) \union {new}
        PROVE  \/ /\ Quoted(after, clock) = Quoted(old, clock)
                  /\ Adjusted(after, clock) = Adjusted(old, clock)
               \/ \E v \in after \ old : v.start_time = clock
    <3>1. CASE new.start_time = clock
      <4>1. new \notin old /\ new \in after
        BY <2>2, <2>6, <3>1 DEF Schedules, OfferVector
      <4>2. QED
        BY <3>1, <4>1
    <3>2. CASE new.start_time # clock
      <4>1. new.start_time > clock
        BY <2>2, <2>6, <3>2 DEF Schedules, OfferVector
      <4>2. QED
        BY <2>2, <2>6, <4>1, AddedLater DEF Schedules
    <3>3. QED
      BY <3>1, <3>2
  <2>7. QED
    BY <2>3, <2>4, <2>5, <2>6, Zenon DEF Rescheduled, old, after
<1>2. QED
  BY <1>1, InitVectorInv, NextVectorInv, InitIInv, NextIInv, PTL
  DEF Spec, VectorEditsDoNotDisturb

\* An offer that has a vector running keeps one until all are deleted.
LEMMA StaysStarted ==
    ASSUME IInv, IInv', VectorInv, NEW before, NEW after, Rescheduled(before, after),
           before \in SUBSET OfferVector,
           \A v, w \in before : v.start_time = w.start_time => v = w,
           started_at(before, clock) # {}, after # {}
    PROVE  started_at(after, clock') # {}
<1>1. clock \in Nat /\ clock' \in Nat
  BY DEF IInv, TypeOK
<1>2. CASE after = before /\ (clock' = clock \/ clock' = clock + 1)
  <2>1. started_at(before, clock) \subseteq started_at(after, clock')
    BY <1>1, <1>2 DEF started_at, OfferVector
  <2>2. QED
    BY <2>1
<1>3. ASSUME NEW v \in before, v.start_time > clock, after = before \ {v}, clock' = clock
      PROVE  started_at(after, clock') # {}
  <2>1. started_at(before, clock) \subseteq started_at(after, clock')
    BY <1>1, <1>3 DEF started_at, OfferVector
  <2>2. QED
    BY <2>1
<1>4. ASSUME NEW new \in OfferVector, Schedules(before, new), clock' = clock,
             after = clean_old_vectors(before, new) \union {new}
      PROVE  started_at(after, clock') # {}
  <2>1. CASE new.start_time = clock
    BY <1>1, <1>4, <2>1, AddedNow
  <2>2. CASE new.start_time # clock
    <3>1. new.start_time > clock
      BY <1>1, <1>4, <2>2 DEF Schedules, OfferVector
    <3>2. QED
      BY <1>1, <1>4, <3>1, AddedLater DEF Schedules
  <2>3. QED
    BY <2>1, <2>2
<1>5. QED
  BY <1>2, <1>3, <1>4 DEF Rescheduled

\* A vector whose base time has come has a price until it outgrows the
\* arithmetic: every product that calculate_vector_price makes fits u128 while
\* the growth has room and the prices of the two days fit u64.
LEMMA PricedUntilOutgrown ==
    ASSUME NEW v \in OfferVector, NEW t \in Nat, v.base_time <= t, ~vector_priced_at(v, t)
    PROVE  Outgrown(v, t)
<1> DEFINE elapsed  == step_end_time(v, t)
           factor   == daily_factor(v.apr)
           days     == elapsed \div SECONDS_IN_DAY
           seconds  == elapsed % SECONDS_IN_DAY
           growth   == pow_fixed(factor, days, INT_SCALE)
           today    == mul_div_round_u128(v.base_price, growth, INT_SCALE)
           tomorrow == mul_div_round_u128(today, factor, INT_SCALE)
           part     == mul_div_round_u128(tomorrow - today, seconds, SECONDS_IN_DAY)
           price    == calculate_vector_price(v.apr, v.base_price, elapsed)
<1>1. SUFFICES ASSUME ~Outgrown(v, t) PROVE vector_priced_at(v, t)
  OBVIOUS
<1>2. /\ Fits(elapsed) /\ Fits(price)
      /\ v.apr > 0 => /\ ~(seconds # 0 /\ ~Fits(tomorrow))
                      /\ ~((growth + 1) * INT_SCALE > U128_MAX + 1)
  BY <1>1 DEF Outgrown, calculate_step_price_at
<1>3. /\ v.base_price \in Nat /\ v.apr \in Nat /\ INT_SCALE \in Nat \ {0}
      /\ SECONDS_IN_DAY \in Nat \ {0} /\ U128_MAX \in Nat
  BY PricingAssumption, WidthAssumption DEF OfferVector
<1>4. elapsed \in Nat
  BY <1>2, U64Int DEF Fits
<1>5. factor \in Nat /\ INT_SCALE <= factor
  BY <1>3, DailyFactor
<1> HIDE DEF elapsed, factor
<1>6. days \in Nat /\ seconds \in Nat /\ seconds < SECONDS_IN_DAY
  BY <1>3, <1>4, QuotientNat
<1> HIDE DEF days, seconds
<1>7. growth \in Nat
  BY <1>3, <1>5, <1>6, PowFixedReturns
<1> HIDE DEF growth
<1>8. today \in Nat
  BY <1>3, <1>7, Rounded
<1>9. price = IF v.apr = 0 \/ elapsed = 0 THEN v.base_price ELSE today + part
  BY DEF calculate_vector_price, growth, days, seconds, factor
<1> HIDE DEF today, price
<1>10. tomorrow \in Nat /\ today <= tomorrow
  BY <1>3, <1>5, <1>8, Rounded, RoundedGrows
<1> HIDE DEF tomorrow
<1>11. part \in Nat
  BY <1>3, <1>6, <1>8, <1>10, Rounded
<1> HIDE DEF part
<1>12. ASSUME v.apr # 0, elapsed # 0
       PROVE  /\ pow_fixed_returns(factor, days, INT_SCALE)
              /\ mul_div_round_returns(v.base_price, growth, INT_SCALE)
              /\ seconds # 0 =>
                   /\ mul_div_round_returns(today, factor, INT_SCALE)
                   /\ mul_div_round_returns(tomorrow - today, seconds, SECONDS_IN_DAY)
  <2>1. v.apr > 0 /\ (growth + 1) * INT_SCALE <= U128_MAX + 1
    BY <1>2, <1>3, <1>7, <1>12
  <2>2. pow_fixed_returns(factor, days, INT_SCALE)
    BY <1>3, <1>5, <1>6, <2>1, PowFixedReturns DEF growth
  <2>3. U64_MAX \in Nat /\ (U64_MAX + 1) * INT_SCALE <= U128_MAX + 1
        /\ (U64_MAX + 1) * SECONDS_IN_DAY <= U128_MAX + 1
    BY ScaleAssumption, WidthAssumption
  <2>4. today <= U64_MAX
    BY <1>2, <1>8, <1>9, <1>11, <1>12, <2>3 DEF Fits, U64
  <2>5. mul_div_round_returns(v.base_price, growth, INT_SCALE)
    BY <1>3, <1>7, <2>3, <2>4, ProductFits DEF today
  <2>6. ASSUME seconds # 0
        PROVE  /\ mul_div_round_returns(today, factor, INT_SCALE)
               /\ mul_div_round_returns(tomorrow - today, seconds, SECONDS_IN_DAY)
    <3>1. tomorrow <= U64_MAX
      BY <1>2, <1>10, <2>1, <2>3, <2>6 DEF Fits, U64
    <3>2. mul_div_round_returns(today, factor, INT_SCALE)
      BY <1>3, <1>5, <1>8, <2>3, <3>1, ProductFits DEF tomorrow
    <3> DEFINE rise == tomorrow - today
               half == SECONDS_IN_DAY \div 2
    <3>3. rise \in Nat /\ rise <= U64_MAX
      BY <1>8, <1>10, <2>3, <3>1
    <3>4. half \in Nat /\ half < SECONDS_IN_DAY
      BY <1>3
    <3> HIDE DEF rise, half
    <3>5. rise * seconds <= U64_MAX * SECONDS_IN_DAY
      <4>1. rise * seconds <= U64_MAX * seconds
        BY <1>6, <2>3, <3>3, ProductMonotone
      <4>2. seconds * U64_MAX <= SECONDS_IN_DAY * U64_MAX
        BY <1>3, <1>6, <2>3, ProductMonotone
      <4>3. /\ seconds * U64_MAX = U64_MAX * seconds
            /\ SECONDS_IN_DAY * U64_MAX = U64_MAX * SECONDS_IN_DAY
            /\ rise * seconds \in Int /\ U64_MAX * seconds \in Int
            /\ U64_MAX * SECONDS_IN_DAY \in Int
        BY <1>3, <1>6, <2>3, <3>3
      <4>4. QED
        BY <4>1, <4>2, <4>3
    <3>6. /\ (U64_MAX + 1) * SECONDS_IN_DAY = U64_MAX * SECONDS_IN_DAY + SECONDS_IN_DAY
          /\ rise * seconds \in Int /\ U64_MAX * SECONDS_IN_DAY \in Int
      BY <1>3, <1>6, <2>3, <3>3
    <3>7. rise * seconds + half <= U128_MAX
      BY <1>3, <2>3, <3>4, <3>5, <3>6
    <3>8. QED
      BY <3>2, <3>7 DEF mul_div_round_returns, rise, half
  <2>7. QED
    BY <2>2, <2>5, <2>6
<1>13. vector_price_returns(v.apr, v.base_price, elapsed)
  BY <1>2, <1>12 DEF vector_price_returns, price, tomorrow, today, growth, days, seconds, factor
<1>14. QED
  BY <1>2, <1>13 DEF vector_priced_at, elapsed

\* An offer with a price keeps it through every schedule, eviction, deletion and
\* passing of time, until all its vectors are deleted, a vector takes over whose
\* base time is still ahead, or the active vector outgrows the arithmetic.
THEOREM PriceAlwaysKept == Spec => PriceLostOnlyToLateVector
<1> DEFINE Kept(a) ==
        /\ offer_priced_at(offers[a].vectors, clock)
        /\ ~offer_priced_at(offers'[a].vectors, clock')
        => \/ offers'[a].vectors = {}
           \/ LET active == find_active_vector_at(offers'[a].vectors, clock')
              IN  /\ started_at(offers'[a].vectors, clock') # {}
                  /\ active.base_time > clock' \/ Outgrown(active, clock')
<1>1. IInv /\ VectorInv /\ IInv' /\ [Next]_vars => \A a \in Assets : Kept(a)
  <2>1. SUFFICES ASSUME IInv, VectorInv, IInv', [Next]_vars, NEW a \in Assets,
                        offer_priced_at(offers[a].vectors, clock),
                        ~offer_priced_at(offers'[a].vectors, clock'),
                        offers'[a].vectors # {}
                 PROVE  /\ started_at(offers'[a].vectors, clock') # {}
                        /\ LET active == find_active_vector_at(offers'[a].vectors, clock')
                           IN  active.base_time > clock' \/ Outgrown(active, clock')
    BY Zenon
  <2> DEFINE old   == offers[a].vectors
             after == offers'[a].vectors
  <2>2. /\ clock \in Nat /\ old \in SUBSET OfferVector
        /\ \A v, w \in old : v.start_time = w.start_time => v = w
    BY <2>1 DEF IInv, TypeOK, OfferType, VectorInv, GoodVectors
  <2>3. clock' \in Nat /\ after \in SUBSET OfferVector
    BY <2>1 DEF IInv, TypeOK, OfferType
  <2>4. Rescheduled(old, after)
    BY <2>1, StepReschedules
  <2>5. /\ started_at(old, clock) # {} /\ after # {} /\ ~offer_priced_at(after, clock')
    BY <2>1 DEF offer_priced_at
  <2> HIDE DEF old, after
  <2>6. started_at(after, clock') # {}
    BY <2>1, <2>2, <2>4, <2>5, StaysStarted
  <2> DEFINE active == find_active_vector_at(after, clock')
  <2>7. active \in OfferVector
    BY <2>3, <2>6, LatestStarted DEF find_active_vector_at, started_at
  <2>8. ~vector_priced_at(active, clock')
    BY <2>5, <2>6 DEF offer_priced_at
  <2> HIDE DEF active
  <2>9. active.base_time > clock' \/ Outgrown(active, clock')
    <3>1. active.base_time \in Nat
      BY <2>7 DEF OfferVector
    <3>2. active.base_time <= clock' => Outgrown(active, clock')
      BY <2>3, <2>7, <2>8, PricedUntilOutgrown
    <3>3. QED
      BY <2>3, <3>1, <3>2
  <2>10. QED
    BY <2>6, <2>9 DEF active, after
<1>2. QED
  BY <1>1, InitVectorInv, NextVectorInv, InitIInv, NextIInv, PTL
  DEF Spec, PriceLostOnlyToLateVector
=============================================================================
