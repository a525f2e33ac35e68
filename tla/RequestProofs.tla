--------------------------- MODULE RequestProofs ----------------------------
(***************************************************************************)
(* Redemption requests, for every set of assets, every configuration and   *)
(* all arguments.  The program implements RedemptionClaims; its books      *)
(* agree with the live requests; only the boss can take away the ONyc that *)
(* covers them; and no trade leaves the users richer.  The refinement      *)
(* mapping reads a claim off the live requests, so it is well defined only *)
(* while no two of them have the same number; RequestInv says so, and why  *)
(* a new number is new.                                                    *)
(***************************************************************************)
EXTENDS TradeProofs

\* No two of these requests have the same offer and number.
Distinct(live) ==
    \A r, s \in live : r.offer = s.offer /\ r.request_id = s.request_id => r = s

\* The live requests are distinct, their numbers have been handed out, and an
\* offer that does not exist has handed out none.
RequestInv ==
    /\ Distinct(requests)
    /\ \A r \in requests : r.request_id < redemption_offers[r.offer].request_counter
    /\ \A a \in Assets : ~redemption_offers[a].made =>
           /\ redemption_offers[a].request_counter = 0
           /\ redemption_offers[a].executed_redemptions = 0
           /\ redemption_offers[a].requested_redemptions = 0

-----------------------------------------------------------------------------
(* The mapping.                                                            *)

\* A live request's claim is what is left of it.
LEMMA ClaimOfLive ==
    ASSUME NEW live, Distinct(live), NEW r \in live
    PROVE  ClaimOf(live, r.offer, r.request_id) = remaining(r)
<1> DEFINE chosen == CHOOSE s \in live : s.offer = r.offer /\ s.request_id = r.request_id
<1>1. chosen \in live /\ chosen.offer = r.offer /\ chosen.request_id = r.request_id
  OBVIOUS
<1>2. chosen = r
  BY <1>1 DEF Distinct
<1>3. ClaimOf(live, r.offer, r.request_id) = remaining(chosen)
  BY DEF ClaimOf
<1>4. QED
  BY <1>2, <1>3

\* A number no live request has claims nothing.
LEMMA ClaimOfNone ==
    ASSUME NEW live, NEW a, NEW id,
           \A r \in live : ~(r.offer = a /\ r.request_id = id)
    PROVE  ClaimOf(live, a, id) = 0
  BY DEF ClaimOf

\* A claim depends only on the requests of its number.
LEMMA ClaimOfSame ==
    ASSUME NEW live, NEW other, Distinct(live), Distinct(other), NEW a, NEW id,
           \A r \in live : r.offer = a /\ r.request_id = id => r \in other,
           \A r \in other : r.offer = a /\ r.request_id = id => r \in live
    PROVE  ClaimOf(live, a, id) = ClaimOf(other, a, id)
<1>1. CASE \E r \in live : r.offer = a /\ r.request_id = id
  <2>1. PICK r \in live : r.offer = a /\ r.request_id = id
    BY <1>1
  <2>2. r \in other
    BY <2>1
  <2>3. QED
    BY <2>1, <2>2, ClaimOfLive
<1>2. CASE ~\E r \in live : r.offer = a /\ r.request_id = id
  BY <1>2, ClaimOfNone
<1>3. QED
  BY <1>1, <1>2

-----------------------------------------------------------------------------
(* Steps that leave requests and redemption offers alone.                  *)

\* BUFFER, the takes and the Prop AMM.
LEMMA TradeIsQuiet ==
    BufferStep \/ TakeStep \/ SwapStep => UNCHANGED <<requests, redemption_offers>>
<1>1. ASSUME BufferStep PROVE UNCHANGED <<requests, redemption_offers>>
  BY <1>1, Zenon
  DEF BufferStep, initialize_buffer, settle_buffer, set_buffer_gross_apr,
      set_buffer_fee_config, accrue_and_refresh, burn_for_nav_increase,
      deposit_reserve_vault, withdraw_reserve_vault, move_reserve, mint_to
<1>2. ASSUME TakeStep PROVE UNCHANGED <<requests, redemption_offers>>
  <2>1. ASSUME NEW a, NEW n, NEW p, take_offer(a, n, p)
        PROVE  UNCHANGED <<requests, redemption_offers>>
    BY <2>1 DEF take_offer
  <2>2. ASSUME NEW a, NEW n, NEW p, take_offer_v2(a, n, p)
        PROVE  UNCHANGED <<requests, redemption_offers>>
    BY <2>2 DEF take_offer_v2
  <2>3. QED
    BY <1>2, <2>1, <2>2 DEF TakeStep
<1>3. ASSUME SwapStep PROVE UNCHANGED <<requests, redemption_offers>>
  <2>1. ASSUME NEW a, NEW c, configure_prop_amm(a, c)
        PROVE  UNCHANGED <<requests, redemption_offers>>
    BY <2>1 DEF configure_prop_amm
  <2>2. ASSUME NEW a, NEW n, NEW m, open_swap_buy(a, n, m)
        PROVE  UNCHANGED <<requests, redemption_offers>>
    BY <2>2 DEF open_swap_buy
  <2>3. ASSUME NEW a, NEW n, NEW m, open_swap_sell(a, n, m)
        PROVE  UNCHANGED <<requests, redemption_offers>>
    BY <2>3 DEF open_swap_sell
  <2>4. QED
    BY <1>3, <2>1, <2>2, <2>3 DEF SwapStep
<1>4. QED
  BY <1>1, <1>2, <1>3

\* Offers, vaults, switches and the outside world.
LEMMA OperationIsQuiet ==
    OfferStep \/ OperationStep => UNCHANGED <<requests, redemption_offers>>
<1>1. ASSUME OfferStep PROVE UNCHANGED <<requests, redemption_offers>>
  BY <1>1, Zenon
  DEF OfferStep, make_offer, update_offer_fee, update_offer_permissionless_fee,
      set_offer_disabled, add_offer_vector, delete_offer_vector,
      delete_all_offer_vectors, only_offers_change
<1>2. ASSUME OperationStep PROVE UNCHANGED <<requests, redemption_offers>>
  BY <1>2, Zenon
  DEF OperationStep, vault_deposit_onyc, vault_deposit_asset, vault_withdraw_onyc,
      vault_withdraw_asset, set_configurable_vault_destination,
      withdraw_configurable_vault_onyc, withdraw_configurable_vault_asset,
      set_circulating_supply_excluded_accounts,
      update_circulating_supply_excluded_balance, refresh_market_stats, set_kill_switch,
      configure_max_supply, configure_max_mint_amount, set_main_offer,
      transfer_mint_authority_to_program, transfer_mint_authority_to_boss,
      transfer_mint_authority, tick, external_burn, external_mint, move_onyc,
      move_asset, only_state_changes
<1>3. QED
  BY <1>1, <1>2

-----------------------------------------------------------------------------
(* What each step does to the counters of the redemption offers.           *)

\* The counters are as before, and what exists stays.
CountersKept ==
    \A b \in Assets :
        /\ redemption_offers'[b].request_counter = redemption_offers[b].request_counter
        /\ redemption_offers'[b].executed_redemptions
               = redemption_offers[b].executed_redemptions
        /\ redemption_offers[b].made => redemption_offers'[b].made

\* requested_redemptions of the redemption offer of a grows by n, that of no
\* other.
Requested(a, n) ==
    \A b \in Assets :
        redemption_offers'[b].requested_redemptions =
            IF b = a THEN redemption_offers[b].requested_redemptions + n
            ELSE redemption_offers[b].requested_redemptions

Kept ==
    /\ requests' = requests
    /\ CountersKept
    /\ \A b \in Assets : redemption_offers'[b].requested_redemptions
                            = redemption_offers[b].requested_redemptions

\* Configuring a redemption offer, creating it included.
LEMMA ConfigKeeps ==
    ASSUME IInv, RequestInv, NEW a \in Assets, NEW n, NEW m,
           \/ make_redemption_offer(a, n, m)
           \/ update_redemption_offer_fee(a, n)
           \/ update_redemption_offer_prop_amm_sell_fee(a, n)
           \/ update_redemption_offer_vault_target(a, n)
           \/ set_redemption_offer_disabled(a, n)
    PROVE  Kept
<1>1. redemption_offers \in [Assets -> RedemptionOfferType]
  BY DEF IInv, TypeOK
<1>2. CASE make_redemption_offer(a, n, m)
  <2>1. /\ redemption_offers[a].request_counter = 0
        /\ redemption_offers[a].executed_redemptions = 0
        /\ redemption_offers[a].requested_redemptions = 0
    BY <1>2 DEF make_redemption_offer, can_make_redemption_offer, RequestInv
  <2>2. QED
    BY <1>1, <1>2, <2>1
    DEF make_redemption_offer, can_make_redemption_offer, NoRedemptionOffer,
        RedemptionOfferType, Kept, CountersKept
<1>3. CASE update_redemption_offer_fee(a, n)
  BY <1>1, <1>3 DEF update_redemption_offer_fee, RedemptionOfferType, Kept, CountersKept
<1>4. CASE update_redemption_offer_prop_amm_sell_fee(a, n)
  BY <1>1, <1>4 DEF update_redemption_offer_prop_amm_sell_fee, RedemptionOfferType, Kept, CountersKept
<1>5. CASE update_redemption_offer_vault_target(a, n)
  BY <1>1, <1>5 DEF update_redemption_offer_vault_target, RedemptionOfferType, Kept, CountersKept
<1>6. CASE set_redemption_offer_disabled(a, n)
  BY <1>1, <1>6 DEF set_redemption_offer_disabled, RedemptionOfferType, Kept, CountersKept
<1>7. QED
  BY <1>2, <1>3, <1>4, <1>5, <1>6

\* A step takes the next number, serves a request, closes one, or keeps all.
Created(a, amount) ==
    /\ amount \in 1..U64_MAX
    /\ redemption_offers[a].made
    /\ redemption_offers[a].request_counter < MAX_REQUESTS
    /\ requests' = requests \union
           {[offer |-> a, request_id |-> redemption_offers[a].request_counter,
             amount |-> amount, fulfilled_amount |-> 0]}
    /\ Requested(a, amount)
    /\ \A b \in Assets :
         /\ redemption_offers'[b].request_counter =
               IF b = a THEN redemption_offers[b].request_counter + 1
               ELSE redemption_offers[b].request_counter
         /\ redemption_offers'[b].executed_redemptions
                = redemption_offers[b].executed_redemptions
         /\ redemption_offers[b].made => redemption_offers'[b].made

Cancelled(r) ==
    /\ requests' = requests \ {r}
    /\ Requested(r.offer, 0 - remaining(r))
    /\ CountersKept

Fulfilled(r, amount) ==
    /\ amount \in 1..remaining(r)
    /\ requests' = (requests \ {r}) \union
           (IF amount = remaining(r) THEN {}
            ELSE {[r EXCEPT !.fulfilled_amount = @ + amount]})
    /\ Requested(r.offer, 0 - amount)
    /\ \A b \in Assets :
         /\ redemption_offers'[b].request_counter = redemption_offers[b].request_counter
         /\ redemption_offers'[b].executed_redemptions =
               IF b = r.offer THEN redemption_offers[b].executed_redemptions + amount
               ELSE redemption_offers[b].executed_redemptions
         /\ redemption_offers[b].made => redemption_offers'[b].made

LEMMA CreateEffect ==
    ASSUME IInv, NEW a \in Assets, NEW amount \in Nat, create_redemption_request(a, amount)
    PROVE  Created(a, amount)
<1>1. redemption_offers \in [Assets -> RedemptionOfferType]
  BY DEF IInv, TypeOK
<1>2. amount \in U64
  <2>1. onyc.bal["wallets"] \in U64 /\ amount <= onyc.bal["wallets"]
    BY DEF IInv, TypeOK, OnycAccounts, create_redemption_request, can_transfer
  <2>2. QED
    BY <2>1, FitsBelow
<1>3. amount \in 1..U64_MAX
  BY <1>2, U64Int, ScaleAssumption DEF create_redemption_request, U64
<1>4. QED
  BY <1>1, <1>3 DEF create_redemption_request, RedemptionOfferType, Created, Requested

LEMMA CancelEffect ==
    ASSUME IInv, NEW r \in requests, cancel_redemption_request(r)
    PROVE  Cancelled(r)
<1>1. redemption_offers \in [Assets -> RedemptionOfferType]
  BY DEF IInv, TypeOK
<1>2. r.offer \in Assets /\ remaining(r) \in Nat
  BY RequestRemaining
<1>3. QED
  BY <1>1, <1>2
  DEF cancel_redemption_request, RedemptionOfferType, Cancelled, CountersKept, Requested

LEMMA FulfillEffect ==
    ASSUME IInv, NEW r \in requests, NEW amount \in Nat, fulfill_redemption_request(r, amount)
    PROVE  Fulfilled(r, amount)
<1>1. redemption_offers \in [Assets -> RedemptionOfferType]
  BY DEF IInv, TypeOK
<1>2. r.offer \in Assets /\ remaining(r) \in Nat
  BY RequestRemaining
<1>3. record_fulfillment(r, amount) /\ amount > 0 /\ amount <= remaining(r)
  BY DEF fulfill_redemption_request
<1>4. QED
  BY <1>1, <1>2, <1>3 DEF record_fulfillment, RedemptionOfferType, Fulfilled, Requested

\* Every step is one of the four.
LEMMA StepEffect ==
    ASSUME IInv, RequestInv, [Next]_vars
    PROVE  \/ Kept
           \/ \E a \in Assets, amount \in Nat : Created(a, amount)
           \/ \E r \in requests : Cancelled(r)
           \/ \E r \in requests, amount \in Nat : Fulfilled(r, amount)
<1>1. CASE RedemptionStep
  <2>1. ASSUME NEW a \in Assets, NEW amount \in Inputs.request,
               create_redemption_request(a, amount)
        PROVE  amount \in Nat /\ Created(a, amount)
    BY <2>1, InputAssumption, CreateEffect
  <2>2. ASSUME NEW r \in requests, NEW amount \in Inputs.fulfill,
               fulfill_redemption_request(r, amount)
        PROVE  amount \in Nat /\ Fulfilled(r, amount)
    BY <2>2, InputAssumption, FulfillEffect
  <2>3. ASSUME NEW a \in Inputs.new_offer, NEW fee, NEW sellFee,
               make_redemption_offer(a, fee, sellFee)
        PROVE  Kept
    BY <2>3, InputAssumption, ConfigKeeps
  <2>4. QED
    BY <1>1, <2>1, <2>2, <2>3, CancelEffect, ConfigKeeps DEF RedemptionStep
<1>2. CASE UNCHANGED <<requests, redemption_offers>>
  BY <1>2 DEF Kept, CountersKept
<1>3. QED
  BY <1>1, <1>2, TradeIsQuiet, OperationIsQuiet DEF Next, vars

-----------------------------------------------------------------------------
(* The invariant.                                                          *)

LEMMA InitRequestInv == Init => RequestInv
  BY InitialAssumption DEF Init, RequestInv, Distinct, NoRedemptionOffer

LEMMA NextRequestInv == IInv /\ RequestInv /\ [Next]_vars => RequestInv'
<1>1. SUFFICES ASSUME IInv, RequestInv, [Next]_vars PROVE RequestInv'
  OBVIOUS
<1>2. /\ \A r \in requests : r.offer \in Assets /\ r.request_id \in Nat
      /\ \A b \in Assets : redemption_offers[b].request_counter \in Nat
  BY <1>1, RequestRemaining, StateAssumption DEF IInv, TypeOK, RedemptionOfferType
<1>3. CASE Kept
  BY <1>1, <1>2, <1>3 DEF Kept, CountersKept, RequestInv, Distinct
<1>4. ASSUME NEW a \in Assets, NEW amount \in Nat, Created(a, amount)
      PROVE  RequestInv'
  <2> DEFINE new == [offer |-> a, request_id |-> redemption_offers[a].request_counter,
                     amount |-> amount, fulfilled_amount |-> 0]
  <2>1. /\ requests' = requests \union {new}
        /\ new.offer = a /\ new.request_id = redemption_offers[a].request_counter
    BY <1>4 DEF Created
  <2> HIDE DEF new
  <2>2. Distinct(requests')
    BY <1>1, <1>2, <2>1 DEF RequestInv, Distinct
  <2>3. \A r \in requests' : r.request_id < redemption_offers'[r.offer].request_counter
    BY <1>1, <1>2, <1>4, <2>1 DEF RequestInv, Created
  <2>4. QED
    BY <1>1, <1>4, <2>2, <2>3 DEF RequestInv, Distinct, Created, Requested
<1>5. ASSUME NEW r \in requests, Cancelled(r)
      PROVE  RequestInv'
  BY <1>1, <1>2, <1>5 DEF Cancelled, CountersKept, Requested, RequestInv, Distinct
<1>6. ASSUME NEW r \in requests, NEW amount \in Nat, Fulfilled(r, amount)
      PROVE  RequestInv'
  <2> DEFINE rest == [r EXCEPT !.fulfilled_amount = @ + amount]
  <2>1. /\ requests' \subseteq (requests \ {r}) \union {rest}
        /\ rest.offer = r.offer /\ rest.request_id = r.request_id
    BY <1>1, <1>6, RequestRemaining DEF Fulfilled
  <2> HIDE DEF rest
  <2>2. Distinct(requests')
    BY <1>1, <2>1 DEF RequestInv, Distinct
  <2>3. \A s \in requests' : s.request_id < redemption_offers'[s.offer].request_counter
    BY <1>1, <1>2, <1>6, <2>1 DEF RequestInv, Fulfilled
  <2>4. \A b \in Assets : ~redemption_offers'[b].made =>
            /\ redemption_offers'[b].executed_redemptions = 0
            /\ redemption_offers'[b].request_counter = 0
            /\ redemption_offers'[b].requested_redemptions = 0
    BY <1>1, <1>2, <1>6 DEF RequestInv, Fulfilled, Requested
  <2>5. QED
    BY <2>2, <2>3, <2>4 DEF RequestInv, Distinct
<1>7. QED
  BY <1>1, <1>3, <1>4, <1>5, <1>6, StepEffect

-----------------------------------------------------------------------------
(* The refinement.                                                         *)

\* The mapping's value of `claim` for a set of live requests.
ClaimsOf(live) ==
    [a \in Assets |-> [id \in 0..(MAX_REQUESTS - 1) |-> ClaimOf(live, a, id)]]

\* A step that keeps requests and counters is a stutter.
LEMMA KeptStutters ==
    ASSUME Kept
    PROVE  UNCHANGED Claims!claims
  BY DEF Kept, CountersKept, Claims!claims, ClaimOf, remaining

\* Creating a request opens a claim.
LEMMA CreateOpens ==
    ASSUME IInv, RequestInv, RequestInv', NEW a \in Assets, NEW amount \in Nat,
           Created(a, amount)
    PROVE  Claims!Open(a, amount)
<1> DEFINE counter == redemption_offers[a].request_counter
           new == [offer |-> a, request_id |-> counter,
                   amount |-> amount, fulfilled_amount |-> 0]
<1>1. counter \in Nat /\ counter < MAX_REQUESTS /\ counter \in 0..(MAX_REQUESTS - 1)
  BY StateAssumption DEF IInv, TypeOK, RedemptionOfferType, Created, Requested
<1>2. /\ requests' = requests \union {new}
      /\ new.offer = a /\ new.request_id = counter /\ remaining(new) = amount
  BY DEF Created, remaining
<1>3. Distinct(requests) /\ Distinct(requests')
  BY DEF RequestInv, Distinct
<1> HIDE DEF new, counter
<1>4. ClaimOf(requests', a, counter) = amount
  BY <1>2, <1>3, ClaimOfLive
<1>5. ASSUME NEW b \in Assets, NEW id \in 0..(MAX_REQUESTS - 1), ~(b = a /\ id = counter)
      PROVE  ClaimOf(requests', b, id) = ClaimOf(requests, b, id)
  BY <1>2, <1>3, <1>5, ClaimOfSame
<1>6. ClaimsOf(requests') =
        [ClaimsOf(requests) EXCEPT ![a] = [@ EXCEPT ![counter] = amount]]
  BY <1>1, <1>4, <1>5 DEF ClaimsOf
<1>7. ClaimsOf(requests)' = ClaimsOf(requests')
  BY DEF ClaimsOf, ClaimOf, remaining
<1>8. QED
  BY <1>1, <1>6, <1>7 DEF Claims!Open, Claims!Numbers, ClaimsOf, Created, counter

\* Cancelling a request gives back its claim.
LEMMA CancelGivesBack ==
    ASSUME IInv, RequestInv, RequestInv', NEW r \in requests, Cancelled(r)
    PROVE  Claims!GiveBack(r.offer, r.request_id) /\ r.request_id \in Claims!Numbers
<1> DEFINE a == r.offer
           number == r.request_id
<1>1. /\ a \in Assets /\ remaining(r) \in Nat /\ remaining(r) > 0
      /\ number \in Nat /\ number < MAX_REQUESTS /\ number \in 0..(MAX_REQUESTS - 1)
  <2>1. a \in Assets /\ number \in Nat
    BY RequestRemaining
  <2>2. /\ redemption_offers[a].request_counter \in 0..MAX_REQUESTS
        /\ number < redemption_offers[a].request_counter
    BY <2>1 DEF IInv, TypeOK, RedemptionOfferType, RequestInv
  <2>3. QED
    BY <2>1, <2>2, RequestRemaining, StateAssumption
<1>2. requests' = requests \ {r} /\ CountersKept
  BY DEF Cancelled
<1>3. Distinct(requests) /\ Distinct(requests')
  BY DEF RequestInv, Distinct
<1>4. ClaimOf(requests, a, number) = remaining(r)
  BY <1>3, ClaimOfLive
<1>5. ClaimOf(requests', a, number) = 0
  <2>1. \A s \in requests' : ~(s.offer = a /\ s.request_id = number)
    BY <1>2, <1>3 DEF Distinct
  <2>2. QED
    BY <2>1, ClaimOfNone
<1>6. ASSUME NEW b \in Assets, NEW id \in 0..(MAX_REQUESTS - 1), ~(b = a /\ id = number)
      PROVE  ClaimOf(requests', b, id) = ClaimOf(requests, b, id)
  BY <1>2, <1>3, <1>6, ClaimOfSame
<1> HIDE DEF a, number
<1>7. ClaimsOf(requests') =
        [ClaimsOf(requests) EXCEPT ![a] = [@ EXCEPT ![number] = 0]]
  BY <1>1, <1>5, <1>6 DEF ClaimsOf
<1>8. ClaimsOf(requests)' = ClaimsOf(requests')
  BY DEF ClaimsOf, ClaimOf, remaining
<1>9. Claims!GiveBack(a, number)
  BY <1>1, <1>2, <1>4, <1>7, <1>8 DEF Claims!GiveBack, ClaimsOf, CountersKept
<1>10. QED
  BY <1>1, <1>9 DEF a, number, Claims!Numbers

\* Fulfilling part or all of a request serves its claim.
LEMMA FulfillServes ==
    ASSUME IInv, RequestInv, RequestInv', NEW r \in requests, NEW amount \in Nat,
           Fulfilled(r, amount)
    PROVE  /\ Claims!Serve(r.offer, r.request_id, amount)
           /\ r.offer \in Assets /\ r.request_id \in Claims!Numbers
           /\ amount \in 1..ClaimOf(requests, r.offer, r.request_id)
<1> DEFINE a == r.offer
           number == r.request_id
           rest == [r EXCEPT !.fulfilled_amount = @ + amount]
<1>1. /\ a \in Assets /\ remaining(r) \in Nat /\ remaining(r) > 0
      /\ number \in Nat /\ number < MAX_REQUESTS /\ number \in 0..(MAX_REQUESTS - 1)
  <2>1. a \in Assets /\ number \in Nat
    BY RequestRemaining
  <2>2. /\ redemption_offers[a].request_counter \in 0..MAX_REQUESTS
        /\ number < redemption_offers[a].request_counter
    BY <2>1 DEF IInv, TypeOK, RedemptionOfferType, RequestInv
  <2>3. QED
    BY <2>1, <2>2, RequestRemaining, StateAssumption
<1>2. /\ requests' = (requests \ {r}) \union
                         (IF amount = remaining(r) THEN {} ELSE {rest})
      /\ amount \in 1..remaining(r)
  BY DEF Fulfilled
<1>3. rest.offer = a /\ rest.request_id = number /\ remaining(rest) = remaining(r) - amount
  BY RequestRemaining DEF remaining
<1>4. Distinct(requests) /\ Distinct(requests')
  BY DEF RequestInv, Distinct
<1> HIDE DEF rest
<1>5. ClaimOf(requests, a, number) = remaining(r)
  BY <1>4, ClaimOfLive
<1>6. ClaimOf(requests', a, number) = remaining(r) - amount
  <2>1. CASE amount = remaining(r)
    <3>1. \A s \in requests' : ~(s.offer = a /\ s.request_id = number)
      BY <1>2, <1>4, <2>1 DEF Distinct
    <3>2. QED
      BY <1>1, <2>1, <3>1, ClaimOfNone
  <2>2. CASE amount # remaining(r)
    <3>1. rest \in requests'
      BY <1>2, <2>2
    <3>2. QED
      BY <1>3, <1>4, <3>1, ClaimOfLive
  <2>3. QED
    BY <2>1, <2>2
<1>7. ASSUME NEW b \in Assets, NEW id \in 0..(MAX_REQUESTS - 1), ~(b = a /\ id = number)
      PROVE  ClaimOf(requests', b, id) = ClaimOf(requests, b, id)
  <2>1. \A s \in requests' : s.offer = b /\ s.request_id = id => s \in requests
    BY <1>2, <1>3, <1>7
  <2>2. \A s \in requests : s.offer = b /\ s.request_id = id => s \in requests'
    BY <1>2, <1>7
  <2>3. QED
    BY <1>4, <2>1, <2>2, ClaimOfSame
<1> HIDE DEF a, number
<1>8. ClaimsOf(requests') =
        [ClaimsOf(requests) EXCEPT ![a] = [@ EXCEPT ![number] = remaining(r) - amount]]
  BY <1>1, <1>6, <1>7 DEF ClaimsOf
<1>9. ClaimsOf(requests)' = ClaimsOf(requests')
  BY DEF ClaimsOf, ClaimOf, remaining
<1>10. \A b \in Assets :
         /\ redemption_offers'[b].request_counter = redemption_offers[b].request_counter
         /\ redemption_offers'[b].executed_redemptions =
               IF b = a THEN redemption_offers[b].executed_redemptions + amount
               ELSE redemption_offers[b].executed_redemptions
  BY DEF Fulfilled, a
<1>11. Claims!Serve(a, number, amount)
  BY <1>1, <1>5, <1>8, <1>9, <1>10 DEF Claims!Serve, ClaimsOf
<1>12. QED
  BY <1>1, <1>2, <1>5, <1>11 DEF a, number, Claims!Numbers

\* Initially no claim is open.
LEMMA InitClaims == Init => Claims!ClaimsInit
<1>1. SUFFICES ASSUME Init PROVE Claims!ClaimsInit
  OBVIOUS
<1>2. requests = {} /\ redemption_offers \in [Assets -> RedemptionOfferType]
  BY <1>1, InitialAssumption DEF Init
<1>3. ClaimsOf(requests) = [a \in Assets |-> [id \in 0..(MAX_REQUESTS - 1) |-> 0]]
  BY <1>2 DEF ClaimsOf, ClaimOf
<1>4. QED
  BY <1>2, <1>3 DEF Claims!ClaimsInit, Claims!Numbers, ClaimsOf, RedemptionOfferType

\* Every step of the program is a step of RedemptionClaims, or a stutter.
LEMMA NextClaims ==
    IInv /\ RequestInv /\ RequestInv' /\ [Next]_vars => [Claims!ClaimsNext]_(Claims!claims)
<1>1. SUFFICES ASSUME IInv, RequestInv, RequestInv', [Next]_vars
               PROVE  [Claims!ClaimsNext]_(Claims!claims)
  OBVIOUS
<1>2. CASE Kept
  BY <1>2, KeptStutters
<1>3. ASSUME NEW a \in Assets, NEW amount \in Nat, Created(a, amount)
      PROVE  Claims!ClaimsNext
  <2>1. Claims!Open(a, amount) /\ amount \in 1..U64_MAX
    BY <1>1, <1>3, CreateOpens DEF Created
  <2>2. QED
    BY <2>1 DEF Claims!ClaimsNext
<1>4. ASSUME NEW r \in requests, Cancelled(r)
      PROVE  Claims!ClaimsNext
  <2>1. /\ r.offer \in Assets /\ r.request_id \in Claims!Numbers
        /\ Claims!GiveBack(r.offer, r.request_id)
    BY <1>1, <1>4, CancelGivesBack, RequestRemaining
  <2>2. QED
    BY <2>1 DEF Claims!ClaimsNext
<1>5. ASSUME NEW r \in requests, NEW amount \in Nat, Fulfilled(r, amount)
      PROVE  Claims!ClaimsNext
  <2>1. /\ Claims!Serve(r.offer, r.request_id, amount)
        /\ r.offer \in Assets /\ r.request_id \in 0..(MAX_REQUESTS - 1)
        /\ amount \in 1..ClaimOf(requests, r.offer, r.request_id)
    BY <1>1, <1>5, FulfillServes DEF Claims!Numbers
  <2>2. QED
    BY <2>1 DEF Claims!ClaimsNext, Claims!Numbers
<1>6. QED
  BY <1>1, <1>2, <1>3, <1>4, <1>5, StepEffect

\* The program implements RedemptionClaims: whatever instructions are called,
\* with whatever arguments and in whatever order, a request number is never
\* used twice, a closed request never comes back, a request's remainder falls
\* only by what is added to executed_redemptions, and a cancellation gives
\* back all of it.
THEOREM RequestsRefineClaims == Spec => RequestsAreClaims
<1>1. Init => IInv /\ RequestInv /\ Claims!ClaimsInit
  BY InitIInv, InitRequestInv, InitClaims
<1>2. IInv /\ RequestInv /\ [Next]_vars => IInv' /\ RequestInv'
  BY NextIInv, NextRequestInv
<1>3. IInv /\ RequestInv /\ RequestInv' /\ [Next]_vars => [Claims!ClaimsNext]_(Claims!claims)
  BY NextClaims
<1>4. QED
  BY <1>1, <1>2, <1>3, PTL DEF Spec, RequestsAreClaims, Claims!ClaimsSpec

-----------------------------------------------------------------------------
(* What a set of requests claims in all.                                   *)

\* What each of these requests still claims.
Remainders(rs) == [r \in rs |-> r.amount - r.fulfilled_amount]

\* ClaimedBy is their total.
LEMMA ClaimedTotal ==
    ASSUME NEW rs, IsFiniteSet(rs)
    PROVE  ClaimedBy(rs) = Total(Remainders(rs), rs)
<1> DEFINE w == Remainders(rs)
           P(f) == f = [s \in SUBSET rs |->
                          IF s = {} THEN 0
                          ELSE LET x == CHOOSE x \in s : TRUE
                               IN  (x.amount - x.fulfilled_amount) + f[s \ {x}]]
           g == CHOOSE f : P(f)
<1>1. ClaimedBy(rs) = g[rs]
  BY DEF ClaimedBy, MapThenSumSet, MapThenFoldSet
<1>2. ASSUME NEW f
      PROVE  [s \in SUBSET rs |->
                          IF s = {} THEN 0
                          ELSE LET x == CHOOSE x \in s : TRUE
                               IN  (x.amount - x.fulfilled_amount) + f[s \ {x}]]
             = [s \in SUBSET rs |-> Body(f, w, s)]
  <2>1. ASSUME NEW s \in SUBSET rs, s # {}
        PROVE  w[First(s)] = First(s).amount - First(s).fulfilled_amount
    <3>1. First(s) \in rs
      BY <2>1, FirstIn
    <3>2. QED
      BY <3>1 DEF Remainders
  <2> HIDE DEF w
  <2>2. QED
    BY <2>1 DEF Body, First
<1>3. \E f : P(f)
  <2>1. PICK f : Sums(f, w, rs)
    BY SumsExist
  <2>2. P(f)
    BY <1>2, <2>1 DEF Sums
  <2>3. QED
    BY <2>2
<1>4. P(g)
  <2> HIDE DEF P
  <2>1. QED
    BY <1>3
<1>5. Sums(g, w, rs)
  <2> HIDE DEF g
  <2>1. QED
    BY <1>2, <1>4 DEF Sums
<1>6. QED
  <2> HIDE DEF g, w
  <2>1. Total(w, rs) = g[rs]
    BY <1>5, TotalIsSum
  <2>2. QED
    BY <1>1, <2>1 DEF w
\* Requests whose remainders can be added up.
Summable(rs) == IsFiniteSet(rs) /\ \A r \in rs : remaining(r) \in Int

LEMMA ClaimedNone == ClaimedBy({}) = 0
<1>1. IsFiniteSet({})
  BY FS_EmptySet
<1>2. QED
  BY <1>1, ClaimedTotal, TotalEmpty

\* One request less.
LEMMA ClaimedDrop ==
    ASSUME NEW rs, Summable(rs), NEW x \in rs
    PROVE  /\ Summable(rs \ {x})
           /\ ClaimedBy(rs) \in Int /\ ClaimedBy(rs \ {x}) \in Int
           /\ ClaimedBy(rs) = remaining(x) + ClaimedBy(rs \ {x})
<1> DEFINE w    == Remainders(rs)
           rest == rs \ {x}
           v    == Remainders(rest)
<1>1. IsFiniteSet(rs) /\ IsFiniteSet(rest)
  BY FS_Subset DEF Summable
<1>2. \A r \in rs : w[r] = remaining(r) /\ w[r] \in Int
  BY DEF Remainders, Summable, remaining
<1>3. \A r \in rest : v[r] = w[r]
  BY DEF Remainders
<1>4. ClaimedBy(rs) = Total(w, rs) /\ ClaimedBy(rest) = Total(v, rest)
  BY <1>1, ClaimedTotal
<1>5. Summable(rest) /\ rest \subseteq rs
  BY <1>1 DEF Summable
<1>6. rest = rs \ {x}
  OBVIOUS
<1> HIDE DEF w, v, rest
<1>7. Weighs(w, rs) /\ SameWeights(v, w, rest)
  BY <1>2, <1>3 DEF Weighs, SameWeights
<1>8. Total(v, rest) = Total(w, rest)
  BY <1>1, <1>7, TotalSame
<1>9. /\ Total(w, rs) \in Int /\ Total(w, rest) \in Int
      /\ Total(w, rs) = w[x] + Total(w, rest)
  BY <1>1, <1>6, <1>7, TotalRemove
<1>10. QED
  BY <1>2, <1>4, <1>5, <1>6, <1>8, <1>9

\* They claim an integer.
LEMMA ClaimedInt ==
    ASSUME NEW rs, Summable(rs)
    PROVE  ClaimedBy(rs) \in Int
<1>1. CASE rs = {}
  BY <1>1, ClaimedNone
<1>2. CASE rs # {}
  <2>1. PICK x \in rs : TRUE
    BY <1>2
  <2>2. QED
    BY <2>1, ClaimedDrop
<1>3. QED
  BY <1>1, <1>2

\* One request more.
LEMMA ClaimedMore ==
    ASSUME NEW rs, Summable(rs), NEW x, x \notin rs, remaining(x) \in Int
    PROVE  /\ Summable(rs \union {x})
           /\ ClaimedBy(rs \union {x}) = ClaimedBy(rs) + remaining(x)
           /\ ClaimedBy(rs) \in Int
<1> DEFINE all == rs \union {x}
<1>1. Summable(all)
  BY FS_AddElement DEF Summable
<1>2. all \ {x} = rs /\ x \in all
  OBVIOUS
<1> HIDE DEF all
<1>3. /\ ClaimedBy(all) \in Int /\ ClaimedBy(rs) \in Int
      /\ ClaimedBy(all) = remaining(x) + ClaimedBy(rs)
  BY <1>1, <1>2, ClaimedDrop
<1>4. QED
  BY <1>1, <1>3 DEF all

\* The requests among rs of the redemption offer of b.
Of(rs, b) == {r \in rs : r.offer = b}

LEMMA OfSummable ==
    ASSUME NEW rs, Summable(rs), NEW b
    PROVE  Summable(Of(rs, b)) /\ ClaimedBy(Of(rs, b)) \in Int
<1>1. Of(rs, b) \subseteq rs
  BY DEF Of
<1>2. Summable(Of(rs, b))
  BY <1>1, FS_Subset DEF Summable
<1>3. QED
  BY <1>2, ClaimedInt

\* From rs to `next`, what the requests of a claim changes by n, and what all
\* others claim does not.
Changed(rs, next, a, n) ==
    /\ Summable(next) /\ n \in Int
    /\ ClaimedBy(rs) \in Int
    /\ ClaimedBy(next) = ClaimedBy(rs) + n
    /\ \A b : /\ ClaimedBy(Of(rs, b)) \in Int
              /\ ClaimedBy(Of(next, b)) = IF b = a THEN ClaimedBy(Of(rs, b)) + n
                                          ELSE ClaimedBy(Of(rs, b))

LEMMA AddChanges ==
    ASSUME NEW rs, Summable(rs), NEW x, x \notin rs, remaining(x) \in Int
    PROVE  Changed(rs, rs \union {x}, x.offer, remaining(x))
<1> DEFINE next == rs \union {x}
<1>1. /\ Summable(next) /\ ClaimedBy(rs) \in Int
      /\ ClaimedBy(next) = ClaimedBy(rs) + remaining(x)
  BY ClaimedMore
<1>2. ASSUME NEW b
      PROVE  /\ ClaimedBy(Of(rs, b)) \in Int
             /\ ClaimedBy(Of(next, b)) = IF b = x.offer THEN ClaimedBy(Of(rs, b)) + remaining(x)
                                         ELSE ClaimedBy(Of(rs, b))
  <2>1. Summable(Of(rs, b)) /\ ClaimedBy(Of(rs, b)) \in Int
    BY OfSummable
  <2>2. CASE b = x.offer
    <3>1. Of(next, b) = Of(rs, b) \union {x} /\ x \notin Of(rs, b)
      BY <2>2 DEF Of
    <3>2. QED
      BY <2>1, <2>2, <3>1, ClaimedMore
  <2>3. CASE b # x.offer
    <3>1. Of(next, b) = Of(rs, b)
      BY <2>3 DEF Of
    <3>2. QED
      BY <2>1, <2>3, <3>1
  <2>4. QED
    BY <2>2, <2>3
<1>3. QED
  <2> HIDE DEF next
  <2>1. Changed(rs, next, x.offer, remaining(x))
    BY <1>1, <1>2 DEF Changed
  <2>2. QED
    BY <2>1 DEF next

LEMMA DropChanges ==
    ASSUME NEW rs, Summable(rs), NEW x \in rs
    PROVE  Changed(rs, rs \ {x}, x.offer, 0 - remaining(x))
<1> DEFINE next == rs \ {x}
<1>1. /\ Summable(next) /\ ClaimedBy(rs) \in Int /\ ClaimedBy(next) \in Int
      /\ ClaimedBy(rs) = remaining(x) + ClaimedBy(next) /\ remaining(x) \in Int
  BY ClaimedDrop DEF Summable
<1>2. ASSUME NEW b
      PROVE  /\ ClaimedBy(Of(rs, b)) \in Int
             /\ ClaimedBy(Of(next, b)) =
                    IF b = x.offer THEN ClaimedBy(Of(rs, b)) + (0 - remaining(x))
                    ELSE ClaimedBy(Of(rs, b))
  <2>1. Summable(Of(rs, b)) /\ ClaimedBy(Of(rs, b)) \in Int
    BY OfSummable
  <2>2. CASE b = x.offer
    <3>1. Of(next, b) = Of(rs, b) \ {x} /\ x \in Of(rs, b)
      BY <2>2 DEF Of
    <3>2. /\ ClaimedBy(Of(next, b)) \in Int
          /\ ClaimedBy(Of(rs, b)) = remaining(x) + ClaimedBy(Of(next, b))
      BY <2>1, <3>1, ClaimedDrop
    <3>3. QED
      BY <1>1, <2>1, <2>2, <3>2
  <2>3. CASE b # x.offer
    <3>1. Of(next, b) = Of(rs, b)
      BY <2>3 DEF Of
    <3>2. QED
      BY <2>1, <2>3, <3>1
  <2>4. QED
    BY <2>2, <2>3
<1>3. QED
  <2> HIDE DEF next
  <2>1. Changed(rs, next, x.offer, 0 - remaining(x))
    BY <1>1, <1>2 DEF Changed
  <2>2. QED
    BY <2>1 DEF next

LEMMA ChangesAdd ==
    ASSUME NEW rs, NEW mid, NEW next, NEW a, NEW n, NEW m,
           Changed(rs, mid, a, n), Changed(mid, next, a, m)
    PROVE  Changed(rs, next, a, n + m)
<1>1. n \in Int /\ m \in Int /\ n + m \in Int
  BY DEF Changed
<1>2. /\ Summable(next) /\ ClaimedBy(rs) \in Int
      /\ ClaimedBy(next) = ClaimedBy(rs) + (n + m)
  BY <1>1 DEF Changed
<1>3. ASSUME NEW b
      PROVE  /\ ClaimedBy(Of(rs, b)) \in Int
             /\ ClaimedBy(Of(next, b)) = IF b = a THEN ClaimedBy(Of(rs, b)) + (n + m)
                                         ELSE ClaimedBy(Of(rs, b))
  <2>1. /\ ClaimedBy(Of(rs, b)) \in Int
        /\ ClaimedBy(Of(mid, b)) = IF b = a THEN ClaimedBy(Of(rs, b)) + n
                                   ELSE ClaimedBy(Of(rs, b))
        /\ ClaimedBy(Of(next, b)) = IF b = a THEN ClaimedBy(Of(mid, b)) + m
                                    ELSE ClaimedBy(Of(mid, b))
    BY DEF Changed
  <2>2. QED
    BY <1>1, <2>1
<1>4. QED
  BY <1>1, <1>2, <1>3 DEF Changed

-----------------------------------------------------------------------------
(* The books.                                                              *)

\* There are finitely many requests, and every redemption offer's
\* requested_redemptions is what its requests claim.
BookInv ==
    /\ IsFiniteSet(requests)
    /\ \A a \in Assets :
           redemption_offers[a].requested_redemptions = ClaimedBy(Of(requests, a))

\* Live requests can be added up.
LEMMA LiveSummable ==
    ASSUME IInv, IsFiniteSet(requests)
    PROVE  Summable(requests)
  BY RequestRemaining DEF Summable

\* What the requests claim after each kind of step.
LEMMA CreatedClaims ==
    ASSUME IInv, RequestInv, Summable(requests), NEW a \in Assets, NEW amount \in Nat,
           Created(a, amount)
    PROVE  Changed(requests, requests', a, amount)
<1> DEFINE new == [offer |-> a, request_id |-> redemption_offers[a].request_counter,
                   amount |-> amount, fulfilled_amount |-> 0]
<1>1. requests' = requests \union {new}
  BY DEF Created
<1>2. new.offer = a /\ remaining(new) = amount
  BY DEF remaining
<1>3. new \notin requests
  <2>1. new.request_id = redemption_offers[a].request_counter /\ new.offer = a
    OBVIOUS
  <2>2. redemption_offers[a].request_counter \in Nat
    BY StateAssumption DEF IInv, TypeOK, RedemptionOfferType
  <2> HIDE DEF new
  <2>3. QED
    BY <2>1, <2>2 DEF RequestInv
<1> HIDE DEF new
<1>4. QED
  BY <1>1, <1>2, <1>3, AddChanges

LEMMA CancelledClaims ==
    ASSUME IInv, Summable(requests), NEW r \in requests, Cancelled(r)
    PROVE  Changed(requests, requests', r.offer, 0 - remaining(r))
  BY DropChanges DEF Cancelled

LEMMA FulfilledClaims ==
    ASSUME IInv, RequestInv, Summable(requests), NEW r \in requests, NEW amount \in Nat,
           Fulfilled(r, amount)
    PROVE  Changed(requests, requests', r.offer, 0 - amount)
<1> DEFINE rest   == [r EXCEPT !.fulfilled_amount = @ + amount]
           others == requests \ {r}
           left   == remaining(r)
<1>1. left \in Nat /\ rest.offer = r.offer /\ rest.request_id = r.request_id
      /\ remaining(rest) = left - amount
  BY RequestRemaining DEF remaining
<1>2. Changed(requests, others, r.offer, 0 - left)
  BY DropChanges
<1>3. requests' = others \union (IF amount = left THEN {} ELSE {rest})
  BY DEF Fulfilled
<1>4. \A s \in others : ~(s.offer = r.offer /\ s.request_id = r.request_id)
  BY DEF RequestInv, Distinct
<1> HIDE DEF rest, others, left
<1>5. CASE amount = left
  <2>1. requests' = others
    BY <1>3, <1>5
  <2>2. QED
    BY <1>2, <1>5, <2>1
<1>6. CASE amount # left
  <2>1. rest \notin others
    BY <1>1, <1>4
  <2>2. Summable(others)
    BY <1>2 DEF Changed
  <2>3. Changed(others, others \union {rest}, r.offer, left - amount)
    BY <1>1, <2>1, <2>2, AddChanges
  <2>4. Changed(requests, others \union {rest}, r.offer, (0 - left) + (left - amount))
    BY <1>2, <2>3, ChangesAdd
  <2>5. (0 - left) + (left - amount) = 0 - amount
    BY <1>1
  <2>6. requests' = others \union {rest}
    BY <1>3, <1>6
  <2>7. QED
    BY <2>4, <2>5, <2>6
<1>7. QED
  BY <1>5, <1>6

LEMMA InitBook == Init => BookInv
<1>1. SUFFICES ASSUME Init PROVE BookInv
  OBVIOUS
<1>2. requests = {} /\ \A a \in Assets : redemption_offers[a].requested_redemptions = 0
  BY <1>1, InitialAssumption DEF Init
<1>3. IsFiniteSet({}) /\ \A a : Of({}, a) = {}
  BY FS_EmptySet DEF Of
<1>4. QED
  BY <1>2, <1>3, ClaimedNone DEF BookInv

\* A step that changes claims and requested_redemptions alike keeps the books.
LEMMA BookKept ==
    ASSUME IInv, BookInv, NEW a, NEW n, Changed(requests, requests', a, n), Requested(a, n)
    PROVE  BookInv'
<1>1. IsFiniteSet(requests')
  BY DEF Changed, Summable
<1>2. ASSUME NEW b \in Assets
      PROVE  redemption_offers'[b].requested_redemptions = ClaimedBy(Of(requests', b))
  <2>1. /\ redemption_offers[b].requested_redemptions = ClaimedBy(Of(requests, b))
        /\ redemption_offers'[b].requested_redemptions =
             IF b = a THEN redemption_offers[b].requested_redemptions + n
             ELSE redemption_offers[b].requested_redemptions
        /\ ClaimedBy(Of(requests', b)) = IF b = a THEN ClaimedBy(Of(requests, b)) + n
                                         ELSE ClaimedBy(Of(requests, b))
    BY DEF BookInv, Requested, Changed
  <2>2. QED
    BY <2>1
<1>3. QED
  BY <1>1, <1>2 DEF BookInv

LEMMA NextBook == IInv /\ RequestInv /\ BookInv /\ [Next]_vars => BookInv'
<1>1. SUFFICES ASSUME IInv, RequestInv, BookInv, [Next]_vars PROVE BookInv'
  OBVIOUS
<1>2. Summable(requests)
  BY <1>1, LiveSummable DEF BookInv
<1>3. CASE Kept
  BY <1>1, <1>3 DEF Kept, BookInv
<1>4. ASSUME NEW a \in Assets, NEW amount \in Nat, Created(a, amount)
      PROVE  BookInv'
  <2>1. Requested(a, amount)
    BY <1>4 DEF Created
  <2>2. QED
    BY <1>1, <1>2, <1>4, <2>1, CreatedClaims, BookKept
<1>5. ASSUME NEW r \in requests, Cancelled(r)
      PROVE  BookInv'
  <2>1. Requested(r.offer, 0 - remaining(r))
    BY <1>5 DEF Cancelled
  <2>2. QED
    BY <1>1, <1>2, <1>5, <2>1, CancelledClaims, BookKept
<1>6. ASSUME NEW r \in requests, NEW amount \in Nat, Fulfilled(r, amount)
      PROVE  BookInv'
  <2>1. Requested(r.offer, 0 - amount)
    BY <1>6 DEF Fulfilled
  <2>2. QED
    BY <1>1, <1>2, <1>6, <2>1, FulfilledClaims, BookKept
<1>7. QED
  BY <1>1, <1>3, <1>4, <1>5, <1>6, StepEffect

\* requested_redemptions of every redemption offer is what its open requests
\* still claim, over any sequence of partial fulfilments and cancellations,
\* and no two open requests have the same number, for every set of assets and
\* all amounts.
THEOREM BooksAlwaysKept == Spec => []RequestBookkeeping
<1>1. IInv /\ RequestInv /\ BookInv => RequestBookkeeping
  <2>1. SUFFICES ASSUME IInv, RequestInv, BookInv, NEW a \in Assets
                 PROVE  /\ redemption_offers[a].requested_redemptions
                              = ClaimedBy(OpenRequests(a))
                        /\ \A r \in OpenRequests(a) :
                              r.request_id < redemption_offers[a].request_counter
                        /\ \A r, s \in OpenRequests(a) : r.request_id = s.request_id => r = s
    BY DEF RequestBookkeeping
  <2>2. OpenRequests(a) = Of(requests, a)
    BY DEF OpenRequests, Of
  <2>3. redemption_offers[a].requested_redemptions = ClaimedBy(OpenRequests(a))
    BY <2>1, <2>2 DEF BookInv
  <2>4. QED
    BY <2>1, <2>3 DEF OpenRequests, RequestInv, Distinct
<1>2. Init => IInv /\ RequestInv /\ BookInv
  BY InitIInv, InitRequestInv, InitBook
<1>3. IInv /\ RequestInv /\ BookInv /\ [Next]_vars => (IInv /\ RequestInv /\ BookInv)'
  BY NextIInv, NextRequestInv, NextBook
<1>4. QED
  BY <1>1, <1>2, <1>3, PTL DEF Spec

-----------------------------------------------------------------------------
(* The redemption vault's ONyc.                                            *)

\* The redemption vault loses no ONyc, or the boss withdraws from it.
Secured ==
    \/ onyc'.bal["redemption_vault"] >= onyc.bal["redemption_vault"]
    \/ \E amount \in Inputs.withdraw : vault_withdraw_onyc("redemption_vault", amount)

\* The vault's balance is an integer, and accruals leave it alone.
LEMMA VaultBalance ==
    ASSUME IInv
    PROVE  /\ "redemption_vault" \in OnycAccounts /\ onyc.bal["redemption_vault"] \in Int
           /\ IntLedger(onyc)
           /\ accrual_succeeds =>
                 /\ IntLedger(accrued.onyc)
                 /\ accrued.onyc.bal["redemption_vault"] = onyc.bal["redemption_vault"]
<1>1. "redemption_vault" \in OnycAccounts /\ "redemption_vault" \notin Earnings
  BY DEF OnycAccounts, Earnings
<1>2. IntLedger(onyc)
  BY IInvBacked, BackedInt
<1>3. QED
  BY <1>1, <1>2, IntLedgerParts, AccruedAt

\* A transfer between other accounts, and a mint to or a burn of one.
LEMMA MoveSecured ==
    ASSUME IInv, NEW from \in OnycAccounts, NEW to \in OnycAccounts, NEW n \in Int,
           Transferred(onyc', onyc, from, to, n),
           from # "redemption_vault", to = "redemption_vault" => n >= 0
    PROVE  Secured
<1> DEFINE x == "redemption_vault"
<1>1. x \in OnycAccounts /\ onyc.bal[x] \in Int /\ IntLedger(onyc)
  BY VaultBalance
<1>2. onyc'.bal[x] = onyc.bal[x] + Moved(x, from, to, n)
  BY <1>1, LedgerTransfer
<1>3. Moved(x, from, to, n) \in Int /\ Moved(x, from, to, n) >= 0
  BY DEF Moved
<1>4. QED
  BY <1>1, <1>2, <1>3 DEF Secured

LEMMA MintSecured ==
    ASSUME IInv, NEW from, IntLedger(from), NEW n,
           from.bal["redemption_vault"] = onyc.bal["redemption_vault"],
           NEW to \in OnycAccounts \ {"redemption_vault"},
           \/ onyc' = mint_tokens(from, to, n)
           \/ onyc' = burn_tokens(from, to, n)
    PROVE  Secured
<1>1. /\ mint_tokens(from, to, n).bal["redemption_vault"] = from.bal["redemption_vault"]
      /\ burn_tokens(from, to, n).bal["redemption_vault"] = from.bal["redemption_vault"]
  BY DEF mint_tokens, burn_tokens, IntLedger, OnycAccounts
<1>2. onyc'.bal["redemption_vault"] = onyc.bal["redemption_vault"]
  BY <1>1
<1>3. QED
  BY <1>2, VaultBalance DEF Secured

\* A purchase, legacy or not, pays from the mint or the offer vault.
LEMMA BoughtSecured ==
    ASSUME IInv, NEW a, NEW amount, NEW from, NEW result, NEW refill, NEW proceedsTo,
           NEW feeTo, Bought(a, amount, from, result, refill, proceedsTo, feeTo),
           from.bal["redemption_vault"] = onyc.bal["redemption_vault"]
    PROVE  Secured
<1> DEFINE x == "redemption_vault"
<1>1. x \in OnycAccounts /\ onyc.bal[x] \in Int
  BY VaultBalance
<1>2. onyc'.bal[x] = from.bal[x] + PaidOut(x, result.out)
  BY <1>1 DEF Bought
<1>3. PaidOut(x, result.out) = 0
  BY DEF PaidOut
<1>4. QED
  BY <1>1, <1>2, <1>3 DEF Secured

\* A sell brings the ONyc that it redeems.
LEMMA SellSecured ==
    ASSUME IInv, NEW a \in Assets, NEW amount \in Nat, NEW minimumOut,
           open_swap_sell(a, amount, minimumOut)
    PROVE  Secured
<1> DEFINE x        == "redemption_vault"
           received == onyc_received(accrued.onyc, amount)
           result   == sell_result(a, amount)
           out      == sell_output(a, amount, refreshed_market_stats(onyc.supply).tvl)
<1>1. /\ accrual_succeeds /\ result.net + result.fee = amount
      /\ \A y \in OnycAccounts : received.bal[y]
            = accrued.onyc.bal[y] + Moved(y, "wallets", x, amount)
      /\ RedeemedFor(a, received, result, "prop_amm_proceeds", "prop_amm_sell_fee", out)
  BY SellEffect
<1>2. /\ x \in OnycAccounts /\ onyc.bal[x] \in Int /\ accrued.onyc.bal[x] = onyc.bal[x]
      /\ Moved(x, "wallets", x, amount) = amount
  BY <1>1, VaultBalance DEF Moved
<1>3. Redeemed(x, result.net, "prop_amm_proceeds", result.fee, "prop_amm_sell_fee")
        = 0 - (result.net + result.fee)
      /\ result.net \in Nat /\ result.fee \in Nat
  <2>1. result.net \in Nat /\ result.fee \in Nat
    BY <1>1 DEF RedeemedFor
  <2> HIDE DEF result
  <2>2. QED
    BY <2>1 DEF Redeemed
<1>4. onyc'.bal[x] = received.bal[x]
        + Redeemed(x, result.net, "prop_amm_proceeds", result.fee, "prop_amm_sell_fee")
  BY <1>1, <1>2 DEF RedeemedFor
<1>5. received.bal[x] = accrued.onyc.bal[x] + Moved(x, "wallets", x, amount)
  BY <1>1, <1>2
<1> HIDE DEF received, result
<1>6. onyc'.bal[x] = onyc.bal[x]
  BY <1>1, <1>2, <1>3, <1>4, <1>5
<1>7. QED
  BY <1>2, <1>6 DEF Secured

\* BUFFER and mint_to.
LEMMA BufferSecured ==
    ASSUME IInv, BufferStep
    PROVE  Secured
<1>1. /\ "wallets" \in OnycAccounts \ {"redemption_vault"}
      /\ "reserve" \in OnycAccounts \ {"redemption_vault"}
  BY DEF OnycAccounts
<1>2. ASSUME can_accrue_buffer, buffer.initialized, program_controls_mint
      PROVE  /\ IntLedger(accrue_buffer.onyc)
             /\ accrue_buffer.onyc.bal["redemption_vault"] = onyc.bal["redemption_vault"]
  <2>1. accrual_succeeds /\ accrued = accrue_buffer
    BY <1>2 DEF accrual_succeeds, accrued, should_accrue_onyc_mint
  <2>2. QED
    BY <2>1, VaultBalance
<1>3. CASE initialize_buffer
  BY <1>3, VaultBalance DEF initialize_buffer, Secured
<1>4. ASSUME accrue_and_refresh(accrue_buffer)
      PROVE  Secured
  <2>1. /\ can_accrue_buffer /\ buffer.initialized /\ program_controls_mint
        /\ onyc' = accrue_buffer.onyc
    BY <1>4 DEF accrue_and_refresh
  <2>2. onyc'.bal["redemption_vault"] = onyc.bal["redemption_vault"]
    BY <1>2, <2>1
  <2>3. QED
    BY <2>2, VaultBalance DEF Secured
<1>5. ASSUME NEW apr, NEW mgmt, NEW perf, NEW hwmEnabled,
             \/ settle_buffer \/ set_buffer_gross_apr(apr)
             \/ set_buffer_fee_config(mgmt, perf, hwmEnabled)
      PROVE  Secured
  BY <1>4, <1>5 DEF settle_buffer, set_buffer_gross_apr, set_buffer_fee_config
<1>6. ASSUME NEW adjustment \in Inputs.adjustment, burn_for_nav_increase(adjustment)
      PROVE  Secured
  <2> DEFINE circulating == calculate_circulating_supply(accrue_buffer.onyc.supply,
                                                         excluded.amount)
             tvl  == calculate_tvl(circulating, current_nav)
             burn == calculate_burn_amount(circulating, tvl, adjustment, current_nav)
  <2>1. /\ can_accrue_buffer /\ buffer.initialized /\ program_controls_mint
        /\ onyc' = burn_tokens(accrue_buffer.onyc, "reserve", burn)
    BY <1>6 DEF burn_for_nav_increase
  <2>2. /\ IntLedger(accrue_buffer.onyc)
        /\ accrue_buffer.onyc.bal["redemption_vault"] = onyc.bal["redemption_vault"]
    BY <1>2, <2>1
  <2> HIDE DEF burn
  <2>3. QED
    BY <1>1, <2>1, <2>2, MintSecured
<1>7. ASSUME NEW amount \in Inputs.reserve,
             deposit_reserve_vault(amount) \/ withdraw_reserve_vault(amount)
      PROVE  Secured
  <2>1. amount \in Int
    BY InputAssumption
  <2>2. \/ Transferred(onyc', onyc, "wallets", "reserve", amount)
        \/ Transferred(onyc', onyc, "reserve", "wallets", amount)
    BY <1>7 DEF deposit_reserve_vault, withdraw_reserve_vault, move_reserve, Transferred
  <2>3. QED
    BY <1>1, <2>1, <2>2, MoveSecured
<1>8. ASSUME NEW amount \in Inputs.mint, mint_to(amount)
      PROVE  Secured
  <2>1. accrual_succeeds /\ onyc' = mint_tokens(accrued.onyc, "wallets", amount)
    BY <1>8 DEF mint_to
  <2>2. /\ IntLedger(accrued.onyc)
        /\ accrued.onyc.bal["redemption_vault"] = onyc.bal["redemption_vault"]
    BY <2>1, VaultBalance
  <2>3. QED
    BY <1>1, <2>1, <2>2, MintSecured
<1>9. QED
  BY <1>3, <1>5, <1>6, <1>7, <1>8 DEF BufferStep

\* Takes and swaps.
LEMMA TradeSecured ==
    ASSUME IInv, TakeStep \/ SwapStep
    PROVE  Secured
<1>1. ASSUME NEW a \in Assets, NEW permissionless \in Inputs.permissionless,
             NEW amount \in Inputs.take, take_offer_v2(a, amount, permissionless)
      PROVE  Secured
  <2> DEFINE result == process_offer_core(a, amount, take_fee(a, permissionless))
             feeTo  == IF permissionless THEN "permissionless_offer_fee" ELSE "offer_fee"
  <2>1. amount \in Nat /\ permissionless \in BOOLEAN
    BY InputAssumption
  <2>2. /\ accrual_succeeds
        /\ Bought(a, amount, accrued.onyc, result, refill_of(a, result.net), "offer_proceeds",
                  feeTo)
    BY <1>1, <2>1, TakeEffect
  <2> HIDE DEF result, feeTo
  <2>3. QED
    BY <2>2, VaultBalance, BoughtSecured
<1>2. ASSUME NEW a \in Assets, NEW permissionless \in Inputs.permissionless,
             NEW amount \in Inputs.legacy_take, take_offer(a, amount, permissionless)
      PROVE  Secured
  <2> DEFINE result == process_offer_core(a, amount, offers[a].fee_basis_points)
             none   == 0
  <2>1. amount \in Nat /\ permissionless \in BOOLEAN
    BY InputAssumption
  <2>2. Bought(a, amount, onyc, result, none, "wallets", "wallets")
    BY <1>2, <2>1, LegacyEffect
  <2> HIDE DEF result, none
  <2>3. QED
    BY <2>2, BoughtSecured
<1>3. ASSUME NEW a \in Assets, NEW c, configure_prop_amm(a, c)
      PROVE  Secured
  BY <1>3, VaultBalance DEF configure_prop_amm, Secured
<1>4. ASSUME NEW a \in Assets, NEW amount \in Inputs.swap,
             NEW minimumOut \in Inputs.minimum_out, open_swap_buy(a, amount, minimumOut)
      PROVE  Secured
  <2> DEFINE result == process_offer_core(a, amount, take_fee(a, TRUE))
  <2>1. amount \in Nat
    BY InputAssumption
  <2>2. /\ accrual_succeeds
        /\ Bought(a, amount, accrued.onyc, result, refill_of(a, result.net),
                  "prop_amm_proceeds", "prop_amm_buy_fee")
    BY <1>4, <2>1, BuyEffect
  <2> HIDE DEF result
  <2>3. QED
    BY <2>2, VaultBalance, BoughtSecured
<1>5. ASSUME NEW a \in Assets, NEW amount \in Inputs.swap,
             NEW minimumOut \in Inputs.minimum_out, open_swap_sell(a, amount, minimumOut)
      PROVE  Secured
  BY <1>5, InputAssumption, SellSecured
<1>6. QED
  BY <1>1, <1>2, <1>3, <1>4, <1>5 DEF TakeStep, SwapStep

\* Vaults, switches and the outside world.
LEMMA OperationSecured ==
    ASSUME IInv, OperationStep
    PROVE  Secured
<1>1. /\ "wallets" \in OnycAccounts \ {"redemption_vault"}
      /\ Vaults \subseteq OnycAccounts
      /\ "redemption_vault" \notin VaultKinds
  BY DEF OnycAccounts, Vaults, VaultKinds
<1>2. ASSUME NEW from \in OnycAccounts, NEW to \in OnycAccounts, NEW n \in Int,
             move_onyc(from, to, n), from # "redemption_vault",
             to = "redemption_vault" => n >= 0
      PROVE  Secured
  <2>1. Transferred(onyc', onyc, from, to, n)
    BY <1>2 DEF move_onyc, Transferred
  <2>2. QED
    BY <1>2, <2>1, MoveSecured
<1>3. ASSUME NEW vault \in Vaults, NEW amount \in Inputs.deposit,
             vault_deposit_onyc(vault, amount)
      PROVE  Secured
  <2>1. amount \in Int /\ amount >= 0 /\ move_onyc("wallets", vault, amount)
    BY <1>3, InputAssumption DEF vault_deposit_onyc
  <2>2. QED
    BY <1>1, <1>2, <2>1
<1>4. ASSUME NEW vault \in Vaults, NEW amount \in Inputs.withdraw,
             vault_withdraw_onyc(vault, amount)
      PROVE  Secured
  <2>1. amount \in Int /\ move_onyc(vault, "wallets", amount)
    BY <1>4, InputAssumption DEF vault_withdraw_onyc
  <2>2. CASE vault = "redemption_vault"
    BY <1>4, <2>2 DEF Secured
  <2>3. CASE vault # "redemption_vault"
    BY <1>1, <1>2, <2>1, <2>3
  <2>4. QED
    BY <2>2, <2>3
<1>5. ASSUME NEW kind \in VaultKinds \intersect OnycAccounts,
             NEW amount \in Inputs.vault_withdraw,
             withdraw_configurable_vault_onyc(kind, amount)
      PROVE  Secured
  <2> DEFINE n == effective_amount(onyc.bal[kind], amount)
  <2>1. onyc.bal[kind] \in U64 /\ amount \in Nat
    BY InputAssumption DEF IInv, TypeOK
  <2>2. n \in Int
    BY <2>1, U64Int DEF effective_amount
  <2>3. move_onyc(kind, "wallets", n) /\ kind # "redemption_vault"
    BY <1>1, <1>5 DEF withdraw_configurable_vault_onyc
  <2> HIDE DEF n
  <2>4. QED
    BY <1>1, <1>2, <2>2, <2>3
<1>6. ASSUME NEW x, NEW y, NEW z,
             \/ vault_deposit_asset(x, y, z) \/ vault_withdraw_asset(x, y, z)
             \/ withdraw_configurable_vault_asset(x, y, z)
             \/ set_configurable_vault_destination(x, y)
             \/ set_circulating_supply_excluded_accounts(x)
             \/ update_circulating_supply_excluded_balance
             \/ refresh_market_stats
             \/ set_kill_switch(x) \/ configure_max_supply(x)
             \/ configure_max_mint_amount(x) \/ set_main_offer(x)
             \/ transfer_mint_authority_to_program \/ transfer_mint_authority_to_boss
             \/ tick
      PROVE  Secured
  <2>1. UNCHANGED onyc
    BY <1>6 DEF vault_deposit_asset, vault_withdraw_asset,
                withdraw_configurable_vault_asset, move_asset,
                set_configurable_vault_destination,
                set_circulating_supply_excluded_accounts,
                update_circulating_supply_excluded_balance, refresh_market_stats,
                set_kill_switch, configure_max_supply, configure_max_mint_amount,
                set_main_offer, only_state_changes, transfer_mint_authority_to_program,
                transfer_mint_authority_to_boss, transfer_mint_authority, tick
  <2>2. QED
    BY <2>1, VaultBalance DEF Secured
<1>7. ASSUME NEW amount \in Inputs.external, external_burn(amount) \/ external_mint(amount)
      PROVE  Secured
  <2>1. \/ onyc' = mint_tokens(onyc, "wallets", amount)
        \/ onyc' = burn_tokens(onyc, "wallets", amount)
    BY <1>7 DEF external_burn, external_mint
  <2>2. QED
    BY <1>1, <2>1, VaultBalance, MintSecured
<1>8. QED
  BY <1>3, <1>4, <1>5, <1>6, <1>7 DEF OperationStep

\* A step of RedemptionStep moves the vault's ONyc with the claims.
Locked(n) == onyc'.bal["redemption_vault"] = onyc.bal["redemption_vault"] + n

LEMMA CreateLocks ==
    ASSUME IInv, NEW a, NEW amount \in Nat, create_redemption_request(a, amount)
    PROVE  Locked(amount)
<1> DEFINE x == "redemption_vault"
<1>1. Transferred(onyc', onyc, "wallets", x, amount)
  BY DEF create_redemption_request, Transferred
<1>2. x \in OnycAccounts /\ "wallets" \in OnycAccounts /\ IntLedger(onyc)
  BY VaultBalance DEF OnycAccounts
<1>3. onyc'.bal[x] = onyc.bal[x] + Moved(x, "wallets", x, amount)
  BY <1>1, <1>2, LedgerTransfer
<1>4. Moved(x, "wallets", x, amount) = amount
  BY DEF Moved
<1>5. QED
  BY <1>3, <1>4 DEF Locked

LEMMA CancelUnlocks ==
    ASSUME IInv, NEW r \in requests, cancel_redemption_request(r)
    PROVE  Locked(0 - remaining(r))
<1> DEFINE x == "redemption_vault"
           n == remaining(r)
<1>1. Transferred(onyc', onyc, x, "wallets", n) /\ n \in Int
  BY RequestRemaining DEF cancel_redemption_request, Transferred
<1>2. x \in OnycAccounts /\ "wallets" \in OnycAccounts /\ IntLedger(onyc)
  BY VaultBalance DEF OnycAccounts
<1> HIDE DEF n
<1>3. onyc'.bal[x] = onyc.bal[x] + Moved(x, x, "wallets", n)
  BY <1>1, <1>2, LedgerTransfer
<1>4. Moved(x, x, "wallets", n) = 0 - n
  BY <1>1 DEF Moved
<1>5. QED
  BY <1>3, <1>4 DEF Locked, n

LEMMA FulfillUnlocks ==
    ASSUME IInv, NEW r \in requests, NEW amount \in Nat, fulfill_redemption_request(r, amount)
    PROVE  Locked(0 - amount)
<1> DEFINE x      == "redemption_vault"
           result == fulfilled(r, amount)
<1>1. /\ accrual_succeeds /\ result.net + result.fee = amount
      /\ RedeemedFor(r.offer, accrued.onyc, result, "offer_proceeds", "redemption_fee",
                     result.out)
  BY FulfillMoves
<1>2. x \in OnycAccounts /\ accrued.onyc.bal[x] = onyc.bal[x]
  BY <1>1, VaultBalance
<1> HIDE DEF result
<1>3. result.net \in Nat /\ result.fee \in Nat
      /\ onyc'.bal[x] = accrued.onyc.bal[x]
           + Redeemed(x, result.net, "offer_proceeds", result.fee, "redemption_fee")
  BY <1>1, <1>2 DEF RedeemedFor
<1>4. Redeemed(x, result.net, "offer_proceeds", result.fee, "redemption_fee") = 0 - amount
  BY <1>1, <1>3 DEF Redeemed
<1>5. QED
  BY <1>2, <1>3, <1>4 DEF Locked

\* Every step, with the vault's ONyc.
LEMMA StepLocks ==
    ASSUME IInv, RequestInv, [Next]_vars
    PROVE  \/ Kept /\ Secured
           \/ \E a \in Assets, amount \in Nat : Created(a, amount) /\ Locked(amount)
           \/ \E r \in requests : Cancelled(r) /\ Locked(0 - remaining(r))
           \/ \E r \in requests, amount \in Nat :
                  Fulfilled(r, amount) /\ Locked(0 - amount)
<1>1. CASE RedemptionStep
  <2>1. ASSUME NEW a \in Assets, NEW amount \in Inputs.request,
               create_redemption_request(a, amount)
        PROVE  amount \in Nat /\ Created(a, amount) /\ Locked(amount)
    BY <2>1, InputAssumption, CreateEffect, CreateLocks
  <2>2. ASSUME NEW r \in requests, NEW amount \in Inputs.fulfill,
               fulfill_redemption_request(r, amount)
        PROVE  amount \in Nat /\ Fulfilled(r, amount) /\ Locked(0 - amount)
    BY <2>2, InputAssumption, FulfillEffect, FulfillUnlocks
  <2>3. ASSUME NEW a \in Assets, NEW n, NEW m,
               \/ make_redemption_offer(a, n, m)
               \/ update_redemption_offer_fee(a, n)
               \/ update_redemption_offer_prop_amm_sell_fee(a, n)
               \/ update_redemption_offer_vault_target(a, n)
               \/ set_redemption_offer_disabled(a, n)
        PROVE  Kept /\ Secured
    <3>1. UNCHANGED onyc
      BY <2>3 DEF make_redemption_offer, update_redemption_offer_fee,
         update_redemption_offer_prop_amm_sell_fee,
         update_redemption_offer_vault_target, set_redemption_offer_disabled
    <3>2. Secured
      BY <3>1, VaultBalance DEF Secured
    <3>3. QED
      BY <2>3, <3>2, ConfigKeeps
  <2>4. Inputs.new_offer \subseteq Assets
    BY InputAssumption
  <2>5. QED
    BY <1>1, <2>1, <2>2, <2>3, <2>4, CancelEffect, CancelUnlocks DEF RedemptionStep
<1>2. ASSUME UNCHANGED <<requests, redemption_offers>> PROVE Kept
  BY <1>2 DEF Kept, CountersKept
<1>3. OfferStep \/ UNCHANGED vars => Secured
  <2>1. OfferStep \/ UNCHANGED vars => UNCHANGED onyc
    BY DEF OfferStep, make_offer, update_offer_fee, update_offer_permissionless_fee,
           set_offer_disabled, add_offer_vector, delete_offer_vector,
           delete_all_offer_vectors, only_offers_change, vars
  <2>2. QED
    BY <2>1, VaultBalance DEF Secured
<1>4. CASE BufferStep \/ TakeStep \/ SwapStep
  BY <1>2, <1>4, TradeIsQuiet, BufferSecured, TradeSecured
<1>5. CASE OfferStep \/ OperationStep
  BY <1>2, <1>3, <1>5, OperationIsQuiet, OperationSecured
<1>6. CASE UNCHANGED vars
  BY <1>2, <1>3, <1>6 DEF vars
<1>7. QED
  BY <1>1, <1>4, <1>5, <1>6 DEF Next

\* Only the boss's redemption_vault_withdraw can leave open requests without
\* the ONyc they locked: no fulfilment or cancellation of one request, of any
\* offer, and no trade takes tokens that another one locked.
THEOREM CoverageAlwaysLostByWithdraw == Spec => CoverageLostOnlyByWithdraw
<1> DEFINE Withdrawn == \E amount \in Inputs.withdraw :
                            vault_withdraw_onyc("redemption_vault", amount)
           Lost      == RequestsCovered /\ ~RequestsCovered'
<1>1. IInv /\ RequestInv /\ BookInv /\ [Next]_vars => [Lost => Withdrawn]_vars
  <2>1. SUFFICES ASSUME IInv, RequestInv, BookInv, [Next]_vars, RequestsCovered, ~Withdrawn
                 PROVE  RequestsCovered'
    OBVIOUS
  <2>2. Summable(requests) /\ onyc.bal["redemption_vault"] \in Int
    BY <2>1, LiveSummable, VaultBalance DEF BookInv
  <2>3. ClaimedBy(requests) \in Int /\ onyc.bal["redemption_vault"] >= ClaimedBy(requests)
    BY <2>1, <2>2, ClaimedInt DEF RequestsCovered
  <2>4. ASSUME NEW a, NEW n, Changed(requests, requests', a, n), Locked(n)
        PROVE  RequestsCovered'
    <3>1. n \in Int /\ ClaimedBy(requests') = ClaimedBy(requests) + n
      BY <2>4 DEF Changed
    <3>2. onyc'.bal["redemption_vault"] = onyc.bal["redemption_vault"] + n
      BY <2>4 DEF Locked
    <3>3. onyc'.bal["redemption_vault"] >= ClaimedBy(requests')
      BY <2>2, <2>3, <3>1, <3>2
    <3>4. QED
      BY <3>3 DEF RequestsCovered
  <2>5. CASE Kept /\ Secured
    <3>1. requests' = requests
      BY <2>5 DEF Kept
    <3>2. onyc'.bal["redemption_vault"] >= onyc.bal["redemption_vault"]
      BY <2>1, <2>5 DEF Secured
    <3>3. onyc'.bal["redemption_vault"] \in Int
      <4>1. IInv'
        BY <2>1, NextIInv
      <4>2. onyc' \in [supply : U64, bal : [OnycAccounts -> U64]]
        BY <4>1 DEF IInv, TypeOK
      <4>3. QED
        BY <4>2, U64Int DEF OnycAccounts
    <3>4. onyc'.bal["redemption_vault"] >= ClaimedBy(requests')
      BY <2>2, <2>3, <3>1, <3>2, <3>3
    <3>5. QED
      BY <3>4 DEF RequestsCovered
  <2>6. ASSUME NEW a \in Assets, NEW amount \in Nat, Created(a, amount), Locked(amount)
        PROVE  RequestsCovered'
    BY <2>1, <2>2, <2>4, <2>6, CreatedClaims
  <2>7. ASSUME NEW r \in requests, Cancelled(r), Locked(0 - remaining(r))
        PROVE  RequestsCovered'
    BY <2>1, <2>2, <2>4, <2>7, CancelledClaims
  <2>8. ASSUME NEW r \in requests, NEW amount \in Nat, Fulfilled(r, amount),
               Locked(0 - amount)
        PROVE  RequestsCovered'
    BY <2>1, <2>2, <2>4, <2>8, FulfilledClaims
  <2>9. QED
    BY <2>1, <2>5, <2>6, <2>7, <2>8, StepLocks
<1>2. Init => IInv /\ RequestInv /\ BookInv
  BY InitIInv, InitRequestInv, InitBook
<1>3. IInv /\ RequestInv /\ BookInv /\ [Next]_vars => (IInv /\ RequestInv /\ BookInv)'
  BY NextIInv, NextRequestInv, NextBook
<1>4. QED
  BY <1>1, <1>2, <1>3, PTL DEF Spec, CoverageLostOnlyByWithdraw

-----------------------------------------------------------------------------
(* What the users own.                                                     *)

\* The two conversions at a price, which round down: the value of what a
\* trade pays is at most the value of what it takes.
LEMMA PurchaseIsFair ==
    ASSUME NEW amount \in Nat, NEW net \in Nat, net <= amount, NEW price \in Nat \ {0}
    PROVE  calculate_token_out_amount(net, price) * price * ASSET_UNIT
             <= amount * PRICE_SCALE * ONYC_UNIT
<1> DEFINE n == net * ONYC_UNIT * PRICE_SCALE
           d == price * ASSET_UNIT
           q == n \div d
           m == amount * PRICE_SCALE * ONYC_UNIT
           k == ONYC_UNIT * PRICE_SCALE
<1>1. k \in Nat /\ n \in Int /\ d \in Nat \ {0} /\ m \in Int
  BY ScaleAssumption
<1>2. n = net * k /\ m = amount * k
  BY ScaleAssumption
<1>3. q \in Int /\ q * d <= n
  BY <1>1, Division
<1>4. calculate_token_out_amount(net, price) = q
  BY DEF calculate_token_out_amount
<1>5. net * k <= amount * k
  <2> HIDE DEF k
  <2>1. QED
    BY <1>1, ProductMonotone
<1>6. q * price * ASSET_UNIT = q * d
  <2> HIDE DEF q
  <2>1. QED
    BY <1>3, ScaleAssumption
<1>7. q * d \in Int
  BY <1>1, <1>3
<1> HIDE DEF n, d, q, m, k
<1>8. q * d <= m
  BY <1>1, <1>2, <1>3, <1>5, <1>7
<1>9. QED
  BY <1>4, <1>6, <1>8 DEF m

LEMMA RedemptionIsFair ==
    ASSUME NEW amount \in Nat, NEW net \in Nat, net <= amount, NEW price \in Nat, NEW out \in Nat,
           out <= redemption_token_out(net, price)
    PROVE  out * PRICE_SCALE * ONYC_UNIT <= amount * price * ASSET_UNIT
<1> DEFINE n == net * price * ASSET_UNIT
           d == ONYC_UNIT * PRICE_SCALE
           q == n \div d
           m == amount * price * ASSET_UNIT
           k == price * ASSET_UNIT
<1>1. k \in Nat /\ n \in Int /\ d \in Nat \ {0} /\ m \in Int
  BY ScaleAssumption
<1>2. n = net * k /\ m = amount * k
  BY ScaleAssumption
<1>3. q \in Int /\ q * d <= n
  BY <1>1, Division
<1>4. out <= q
  BY DEF redemption_token_out
<1>5. net * k <= amount * k
  <2> HIDE DEF k
  <2>1. QED
    BY <1>1, ProductMonotone
<1>6. out * PRICE_SCALE * ONYC_UNIT = out * d
  BY ScaleAssumption
<1>7. q * d \in Int /\ out * d \in Int
  BY <1>1, <1>3
<1> HIDE DEF n, d, q, m, k
<1>8. out * d <= q * d
  BY <1>1, <1>3, <1>4, ProductMonotone
<1>9. out * d <= m
  BY <1>1, <1>2, <1>3, <1>5, <1>7, <1>8
<1>10. QED
  BY <1>6, <1>9 DEF m

\* The worth of dx of the asset and dy ONyc at a price.
Worth(dx, dy, price) == dx * PRICE_SCALE * ONYC_UNIT + dy * price * ASSET_UNIT

\* What the users hold of asset a changes by dx, their ONyc and claims
\* together by dy.
Gained(a, dx, dy) ==
    /\ dx \in Int /\ dy \in Int
    /\ asset'[a]["wallets"] = asset[a]["wallets"] + dx
    /\ onyc'.bal["wallets"] + ClaimedBy(requests')
         = onyc.bal["wallets"] + ClaimedBy(requests) + dy

price_of(a) == compute_offer_current_price(offers[a].vectors, clock)

LEMMA HoldingsInt ==
    ASSUME IInv, BookInv, NEW a \in Assets
    PROVE  /\ asset[a]["wallets"] \in Int /\ onyc.bal["wallets"] \in Int
           /\ ClaimedBy(requests) \in Int
<1>1. asset[a]["wallets"] \in U64 /\ onyc.bal["wallets"] \in U64
  BY DEF IInv, TypeOK, AssetAccounts, OnycAccounts
<1>2. ClaimedBy(requests) \in Int
  BY LiveSummable, ClaimedInt DEF BookInv
<1>3. QED
  BY <1>1, <1>2, U64Int

\* If that is worth nothing more, the users are no richer.
LEMMA NoRicher ==
    ASSUME IInv, BookInv, NEW a \in Assets, offer_priced_at(offers[a].vectors, clock),
           UNCHANGED <<clock, offers>>, NEW dx, NEW dy, Gained(a, dx, dy),
           Worth(dx, dy, price_of(a)) <= 0
    PROVE  ~(UsersWealth(a)' > UsersWealth(a))
<1> DEFINE p == price_of(a)
           x == asset[a]["wallets"]
           y == onyc.bal["wallets"] + ClaimedBy(requests)
<1>1. p \in Nat
  <2>1. p \in U64
    BY PriceFits DEF price_of
  <2>2. QED
    BY <2>1, U64Int
<1>2. x \in Int /\ y \in Int
  BY HoldingsInt
<1>3. UsersWealth(a) = Worth(x, y, p)
  BY DEF UsersWealth, Worth, price_of
<1>4. UsersWealth(a)' = Worth(x + dx, y + dy, p)
  <2>1. UsersWealth(a)' = asset'[a]["wallets"] * PRICE_SCALE * ONYC_UNIT
           + (onyc'.bal["wallets"] + ClaimedBy(requests'))
                * compute_offer_current_price(offers[a].vectors, clock) * ASSET_UNIT
    BY DEF UsersWealth
  <2>2. QED
    BY <2>1 DEF Gained, Worth, price_of
<1>5. dx \in Int /\ dy \in Int
  BY DEF Gained
<1> HIDE DEF p, x, y
<1>6. /\ Worth(x, y, p) \in Int /\ Worth(dx, dy, p) \in Int
      /\ Worth(x + dx, y + dy, p) = Worth(x, y, p) + Worth(dx, dy, p)
  BY <1>1, <1>2, <1>5, ScaleAssumption DEF Worth
<1>7. Worth(dx, dy, p) <= 0
  BY DEF p
<1>8. QED
  BY <1>3, <1>4, <1>6, <1>7


\* A purchase of ONyc for asset b, with a fee or without.
LEMMA PurchaseNoRicher ==
    ASSUME IInv, BookInv, NEW a \in Assets, NEW b \in Assets,
           offer_priced_at(offers[a].vectors, clock),
           UNCHANGED <<clock, offers, requests>>,
           \A c \in Assets \ {a} : asset'[c] = asset[c],
           NEW amount, amount > 0, NEW from, NEW result, NEW refill,
           NEW proceedsTo \in AssetAccounts \ {"wallets"}, NEW feeTo \in AssetAccounts \ {"wallets"},
           Bought(b, amount, from, result, refill, proceedsTo, feeTo),
           from.bal["wallets"] = onyc.bal["wallets"],
           result.out = calculate_token_out_amount(result.net, price_of(b)), price_of(b) > 0
    PROVE  ~(UsersWealth(a)' > UsersWealth(a))
<1> DEFINE x   == "wallets"
           net == result.net
           fee == result.fee
           out == result.out
<1>1. /\ x \in AssetAccounts /\ x \in OnycAccounts /\ x # "redemption_vault" /\ x # "offer_vault"
      /\ x # proceedsTo /\ x # feeTo
  BY DEF AssetAccounts, OnycAccounts
<1>2. /\ amount \in Nat /\ net \in Nat /\ fee \in Nat /\ out \in Nat /\ net + fee = amount
      /\ refill \in Int
  BY DEF Bought
<1>3. /\ onyc'.bal[x] = from.bal[x] + PaidOut(x, out)
      /\ asset'[b][x] = asset[b][x]
           + PaidIn(x, amount, refill, proceedsTo, net - refill, feeTo, fee)
  BY <1>1 DEF Bought
<1>4. out = calculate_token_out_amount(net, price_of(b))
  OBVIOUS
<1> HIDE DEF net, fee, out
<1>5. PaidOut(x, out) = out
  BY <1>2 DEF PaidOut
<1>6. PaidIn(x, amount, refill, proceedsTo, net - refill, feeTo, fee) = 0 - amount
  BY <1>1, <1>2 DEF PaidIn
<1>7. asset[b][x] \in Int /\ onyc.bal[x] \in Int /\ ClaimedBy(requests) \in Int
  BY HoldingsInt
<1>8. asset'[b][x] = asset[b][x] + (0 - amount)
  BY <1>3, <1>6
<1>9. b = a
  <2>1. asset'[b][x] # asset[b][x]
    BY <1>2, <1>7, <1>8
  <2>2. QED
    BY <2>1
<1>10. onyc'.bal[x] + ClaimedBy(requests') = onyc.bal[x] + ClaimedBy(requests) + out
  BY <1>2, <1>3, <1>5, <1>7
<1>11. Gained(a, 0 - amount, out)
  BY <1>2, <1>8, <1>9, <1>10 DEF Gained
<1>12. price_of(a) \in Nat \ {0}
  <2>1. price_of(a) \in U64
    BY PriceFits DEF price_of
  <2>2. QED
    BY <1>9, <2>1, U64Int
<1>13. out * price_of(a) * ASSET_UNIT <= amount * PRICE_SCALE * ONYC_UNIT
  BY <1>2, <1>4, <1>9, <1>12, PurchaseIsFair
<1>14. Worth(0 - amount, out, price_of(a)) <= 0
  <2> DEFINE p == price_of(a)
             s == out * p * ASSET_UNIT
             t == amount * PRICE_SCALE * ONYC_UNIT
  <2>1. p \in Nat
    BY <1>12
  <2> HIDE DEF p
  <2>2. s \in Int /\ t \in Int /\ (0 - amount) * PRICE_SCALE * ONYC_UNIT = 0 - t
    BY <1>2, <2>1, ScaleAssumption
  <2>3. Worth(0 - amount, out, p) = (0 - t) + s
    BY <2>2 DEF Worth
  <2>4. s <= t
    BY <1>13 DEF p
  <2> HIDE DEF s, t
  <2>5. QED
    BY <2>2, <2>3, <2>4 DEF p
<1>15. QED
  BY <1>11, <1>14, NoRicher

\* A redemption of `amount` ONyc that the users give up, as ONyc or as a claim.
LEMMA RedemptionNoRicher ==
    ASSUME IInv, BookInv, NEW a \in Assets, NEW b \in Assets,
           offer_priced_at(offers[a].vectors, clock),
           UNCHANGED <<clock, offers>>,
           \A c \in Assets \ {a} : asset'[c] = asset[c],
           NEW amount \in Nat, NEW net \in Nat, net <= amount, NEW out \in Nat,
           out <= redemption_token_out(net, price_of(b)),
           \A x \in AssetAccounts :
              asset'[b][x] = asset[b][x] + Moved(x, "redemption_vault", "wallets", out),
           \A c \in Assets \ {b} : asset'[c] = asset[c],
           onyc'.bal["wallets"] + ClaimedBy(requests')
             = onyc.bal["wallets"] + ClaimedBy(requests) + (0 - amount)
    PROVE  ~(UsersWealth(a)' > UsersWealth(a))
<1> DEFINE x == "wallets"
<1>1. x \in AssetAccounts /\ Moved(x, "redemption_vault", "wallets", out) = out
  BY DEF AssetAccounts, Moved
<1>2. asset[b][x] \in Int /\ asset[a][x] \in Int
  BY HoldingsInt
<1>3. asset'[b][x] = asset[b][x] + out
  BY <1>1
<1>4. price_of(a) \in Nat
  <2>1. price_of(a) \in U64
    BY PriceFits DEF price_of
  <2>2. QED
    BY <2>1, U64Int
<1> DEFINE p == price_of(a)
           t == amount * p * ASSET_UNIT
<1>5. t \in Nat /\ (0 - amount) * p * ASSET_UNIT = 0 - t
  <2> HIDE DEF p
  <2>1. QED
    BY <1>4, ScaleAssumption DEF p
<1>6. CASE b = a
  <2> DEFINE s == out * PRICE_SCALE * ONYC_UNIT
  <2>1. Gained(a, out, 0 - amount)
    BY <1>3, <1>6 DEF Gained
  <2>2. s <= t
    BY <1>4, <1>6, RedemptionIsFair
  <2>3. s \in Int
    BY ScaleAssumption
  <2>4. Worth(out, 0 - amount, p) = s + (0 - t)
    BY <1>5 DEF Worth
  <2> HIDE DEF s, t
  <2>5. Worth(out, 0 - amount, p) <= 0
    BY <1>5, <2>2, <2>3, <2>4
  <2>6. QED
    BY <2>1, <2>5, NoRicher
<1>7. CASE b # a
  <2>1. asset'[b][x] = asset[b][x]
    BY <1>7
  <2>2. out = 0
    BY <1>2, <1>3, <2>1
  <2>3. asset'[a][x] = asset[a][x] + 0
    <3>1. asset'[a] = asset[a]
      BY <1>7
    <3>2. QED
      BY <1>2, <3>1
  <2>4. Gained(a, 0, 0 - amount)
    BY <2>3 DEF Gained
  <2>5. Worth(0, 0 - amount, p) = 0 + (0 - t)
    BY <1>5, ScaleAssumption DEF Worth
  <2> HIDE DEF t
  <2>6. Worth(0, 0 - amount, p) <= 0
    BY <1>5, <2>5
  <2>7. QED
    BY <2>4, <2>6, NoRicher
<1>8. QED
  BY <1>6, <1>7


\* What an accrual leaves of the users' ONyc: all of it.
LEMMA WalletsKept ==
    ASSUME IInv, accrual_succeeds
    PROVE  accrued.onyc.bal["wallets"] = onyc.bal["wallets"]
<1>1. "wallets" \in OnycAccounts \ Earnings
  BY DEF OnycAccounts, Earnings
<1>2. QED
  BY <1>1, AccruedAt

\* The takes that pay into a vault, and the buys.
LEMMA TakeNoRicher ==
    ASSUME IInv, BookInv, NEW a \in Assets, offer_priced_at(offers[a].vectors, clock),
           UNCHANGED <<clock, offers>>, \A c \in Assets \ {a} : asset'[c] = asset[c],
           NEW b \in Assets, NEW amount \in Nat, NEW permissionless \in BOOLEAN,
           take_offer_v2(b, amount, permissionless)
    PROVE  ~(UsersWealth(a)' > UsersWealth(a))
<1> DEFINE bps    == take_fee(b, permissionless)
           result == process_offer_core(b, amount, bps)
           refill == refill_of(b, result.net)
           feeTo  == IF permissionless THEN "permissionless_offer_fee" ELSE "offer_fee"
           from   == accrued.onyc
<1>1. accrual_succeeds /\ Bought(b, amount, from, result, refill, "offer_proceeds", feeTo)
  BY TakeEffect
<1>2. can_process_offer(b, amount, bps) /\ UNCHANGED requests
  BY DEF take_offer_v2, take_fee
<1>3. amount > 0 /\ price_of(b) > 0
  BY <1>2 DEF can_process_offer, price_of
<1>4. result.out = calculate_token_out_amount(result.net, price_of(b))
  BY DEF process_offer_core, price_of
<1>5. from.bal["wallets"] = onyc.bal["wallets"]
  BY <1>1, WalletsKept
<1>6. "offer_proceeds" \in AssetAccounts \ {"wallets"} /\ feeTo \in AssetAccounts \ {"wallets"}
  BY DEF AssetAccounts
<1> HIDE DEF result, refill, feeTo, from
<1>7. QED
  BY <1>1, <1>2, <1>3, <1>4, <1>5, <1>6, PurchaseNoRicher

LEMMA BuyNoRicher ==
    ASSUME IInv, BookInv, NEW a \in Assets, offer_priced_at(offers[a].vectors, clock),
           UNCHANGED <<clock, offers>>, \A c \in Assets \ {a} : asset'[c] = asset[c],
           NEW b \in Assets, NEW amount \in Nat, NEW minimumOut,
           open_swap_buy(b, amount, minimumOut)
    PROVE  ~(UsersWealth(a)' > UsersWealth(a))
<1> DEFINE bps    == take_fee(b, TRUE)
           result == process_offer_core(b, amount, bps)
           refill == refill_of(b, result.net)
           from   == accrued.onyc
<1>1. accrual_succeeds
      /\ Bought(b, amount, from, result, refill, "prop_amm_proceeds", "prop_amm_buy_fee")
  BY BuyEffect
<1>2. can_process_offer(b, amount, bps) /\ UNCHANGED requests
  BY DEF open_swap_buy, take_fee
<1>3. amount > 0 /\ price_of(b) > 0
  BY <1>2 DEF can_process_offer, price_of
<1>4. result.out = calculate_token_out_amount(result.net, price_of(b))
  BY DEF process_offer_core, price_of
<1>5. from.bal["wallets"] = onyc.bal["wallets"]
  BY <1>1, WalletsKept
<1>6. /\ "prop_amm_proceeds" \in AssetAccounts \ {"wallets"}
      /\ "prop_amm_buy_fee" \in AssetAccounts \ {"wallets"}
  BY DEF AssetAccounts
<1> HIDE DEF result, refill, from
<1>7. QED
  BY <1>1, <1>2, <1>3, <1>4, <1>5, <1>6, PurchaseNoRicher

\* A sell: what it pays is at most the redemption value of the net amount.
LEMMA SellNoRicher ==
    ASSUME IInv, BookInv, NEW a \in Assets, offer_priced_at(offers[a].vectors, clock),
           UNCHANGED <<clock, offers>>, \A c \in Assets \ {a} : asset'[c] = asset[c],
           NEW b \in Assets, NEW amount \in Nat, NEW minimumOut,
           open_swap_sell(b, amount, minimumOut)
    PROVE  ~(UsersWealth(a)' > UsersWealth(a))
<1> DEFINE tvl       == refreshed_market_stats(onyc.supply).tvl
           result    == sell_result(b, amount)
           liquidity == asset[b]["redemption_vault"]
           reserve   == resolve_hard_wall_reserve(tvl, liquidity, sell_target(b))
           out       == sell_output(b, amount, tvl)
           received  == onyc_received(accrued.onyc, amount)
           net       == result.net
           raw       == result.out
           x         == "wallets"
<1>1. /\ accrual_succeeds /\ net + result.fee = amount /\ raw \in Nat
      /\ IntLedger(accrued.onyc)
      /\ \A y \in OnycAccounts : received.bal[y]
            = accrued.onyc.bal[y] + Moved(y, "wallets", "redemption_vault", amount)
      /\ RedeemedFor(b, received, result, "prop_amm_proceeds", "prop_amm_sell_fee", out)
  BY SellEffect
<1>2. /\ can_resolve_reserve(tvl, sell_target(b))
      /\ can_apply_hard_wall(raw, liquidity, reserve, prop_amm[b], clock)
      /\ UNCHANGED requests
  BY DEF open_swap_sell, can_price_sell
<1>3. liquidity \in Nat /\ clock \in Nat /\ prop_amm[b] \in PairState
  <2>1. liquidity \in U64 /\ clock \in Nat /\ prop_amm[b] \in PairState
    BY DEF IInv, TypeOK, AssetAccounts
  <2>2. QED
    BY <2>1, U64Int
<1>4. out = apply_hard_wall_liquidity_factor(raw, liquidity, reserve, prop_amm[b], clock)
  BY DEF sell_output
<1>5. raw = redemption_token_out(net, price_of(b))
  BY DEF sell_result, process_redemption_core, price_of
<1>6. /\ net \in Nat /\ result.fee \in Nat /\ out \in Nat
      /\ onyc'.bal[x] = received.bal[x]
           + Redeemed(x, net, "prop_amm_proceeds", result.fee, "prop_amm_sell_fee")
      /\ \A y \in AssetAccounts :
           asset'[b][y] = asset[b][y] + Moved(y, "redemption_vault", "wallets", out)
      /\ \A c \in Assets \ {b} : asset'[c] = asset[c]
  <2>1. x \in OnycAccounts
    BY DEF OnycAccounts
  <2> HIDE DEF out, received, result
  <2>2. QED
    BY <1>1, <2>1 DEF RedeemedFor
<1>7. reserve \in Nat
  <2>1. sell_target(b) # 0 => hard_wall_reserve_from_tvl(tvl, sell_target(b)) \in Nat
    BY <1>2, U64Int DEF can_resolve_reserve, Fits
  <2> HIDE DEF liquidity
  <2>2. QED
    BY <1>3, <2>1 DEF resolve_hard_wall_reserve, min_of
<1>8. Redeemed(x, net, "prop_amm_proceeds", result.fee, "prop_amm_sell_fee") = 0
  BY DEF Redeemed
<1>9. received.bal[x] = onyc.bal[x] - amount
  <2>1. accrued.onyc.bal[x] = onyc.bal[x]
    BY <1>1, WalletsKept
  <2>2. Moved(x, "wallets", "redemption_vault", amount) = 0 - amount
    BY DEF Moved
  <2>3. x \in OnycAccounts /\ onyc.bal[x] \in Int
    BY HoldingsInt DEF OnycAccounts
  <2> HIDE DEF received
  <2>4. received.bal[x] = onyc.bal[x] + (0 - amount)
    BY <1>1, <2>1, <2>2, <2>3
  <2>5. QED
    BY <2>3, <2>4
<1> HIDE DEF result, liquidity, reserve, out, received, net, raw, tvl
<1>10. out <= raw
  BY <1>1, <1>2, <1>3, <1>4, <1>7, SellPaysAtMostRaw
<1>11. onyc'.bal[x] + ClaimedBy(requests')
         = onyc.bal[x] + ClaimedBy(requests) + (0 - amount)
  BY <1>2, <1>6, <1>8, <1>9, HoldingsInt
<1>12. net <= amount
  BY <1>1, <1>6
<1>13. out <= redemption_token_out(net, price_of(b))
  BY <1>5, <1>10
<1>14. QED
  BY <1>6, <1>11, <1>12, <1>13, RedemptionNoRicher

\* A fulfilment pays for a claim what its net amount is worth, or less.
LEMMA FulfillNoRicher ==
    ASSUME IInv, RequestInv, BookInv, NEW a \in Assets, offer_priced_at(offers[a].vectors, clock),
           UNCHANGED <<clock, offers>>, \A c \in Assets \ {a} : asset'[c] = asset[c],
           NEW r \in requests, NEW amount \in Nat, fulfill_redemption_request(r, amount)
    PROVE  ~(UsersWealth(a)' > UsersWealth(a))
<1> DEFINE result == fulfilled(r, amount)
           net    == result.net
           out    == result.out
           b      == r.offer
           x      == "wallets"
           from   == accrued.onyc
<1>1. /\ accrual_succeeds /\ b \in Assets /\ net + result.fee = amount
      /\ RedeemedFor(b, from, result, "offer_proceeds", "redemption_fee", out)
  BY FulfillMoves
<1>2. out = redemption_token_out(net, price_of(b))
  BY DEF fulfilled, process_redemption_core, price_of
<1> HIDE DEF result, from
<1>3. /\ net \in Nat /\ result.fee \in Nat /\ out \in Nat
      /\ onyc'.bal[x] = from.bal[x]
           + Redeemed(x, net, "offer_proceeds", result.fee, "redemption_fee")
      /\ \A y \in AssetAccounts :
           asset'[b][y] = asset[b][y] + Moved(y, "redemption_vault", "wallets", out)
      /\ \A c \in Assets \ {b} : asset'[c] = asset[c]
  <2>1. x \in OnycAccounts
    BY DEF OnycAccounts
  <2>2. QED
    BY <1>1, <2>1 DEF RedeemedFor
<1>4. Redeemed(x, net, "offer_proceeds", result.fee, "redemption_fee") = 0
  BY DEF Redeemed
<1>5. from.bal[x] = onyc.bal[x]
  BY <1>1, WalletsKept DEF from
<1> HIDE DEF net, out, b
<1>6. ClaimedBy(requests') = ClaimedBy(requests) + (0 - amount)
  <2>1. Fulfilled(r, amount)
    BY FulfillEffect
  <2>2. Changed(requests, requests', r.offer, 0 - amount)
    BY <2>1, LiveSummable, FulfilledClaims DEF BookInv
  <2>3. QED
    BY <2>2 DEF Changed
<1>7. onyc'.bal[x] + ClaimedBy(requests')
         = onyc.bal[x] + ClaimedBy(requests) + (0 - amount)
  BY <1>3, <1>4, <1>5, <1>6, HoldingsInt
<1>8. net <= amount /\ out <= redemption_token_out(net, price_of(b))
  BY <1>1, <1>2, <1>3
<1>9. QED
  BY <1>1, <1>3, <1>7, <1>8, RedemptionNoRicher


\* A step that moves no asset and as much ONyc as claims, the other way.
LEMMA EvenNoRicher ==
    ASSUME IInv, BookInv, NEW a \in Assets, offer_priced_at(offers[a].vectors, clock),
           UNCHANGED <<clock, offers, asset>>, NEW n \in Int,
           onyc'.bal["wallets"] = onyc.bal["wallets"] + (0 - n),
           ClaimedBy(requests') = ClaimedBy(requests) + n
    PROVE  ~(UsersWealth(a)' > UsersWealth(a))
<1> DEFINE none == 0
<1>1. /\ asset[a]["wallets"] \in Int /\ onyc.bal["wallets"] \in Int
      /\ ClaimedBy(requests) \in Int
  BY HoldingsInt
<1>2. Gained(a, none, none)
  BY <1>1 DEF Gained
<1>3. price_of(a) \in Nat
  <2>1. price_of(a) \in U64
    BY PriceFits DEF price_of
  <2>2. QED
    BY <2>1, U64Int
<1>4. Worth(none, none, price_of(a)) <= 0
  BY <1>3, ScaleAssumption DEF Worth
<1> HIDE DEF none
<1>5. QED
  BY <1>2, <1>4, NoRicher

LEMMA CreateNoRicher ==
    ASSUME IInv, RequestInv, BookInv, NEW a \in Assets, offer_priced_at(offers[a].vectors, clock),
           NEW b \in Assets, NEW amount \in Nat, create_redemption_request(b, amount)
    PROVE  ~(UsersWealth(a)' > UsersWealth(a))
<1> DEFINE x == "wallets"
<1>1. Transferred(onyc', onyc, x, "redemption_vault", amount)
      /\ UNCHANGED <<clock, offers, asset>>
  BY DEF create_redemption_request, Transferred
<1>2. x \in OnycAccounts /\ "redemption_vault" \in OnycAccounts /\ IntLedger(onyc)
  BY VaultBalance DEF OnycAccounts
<1>3. onyc'.bal[x] = onyc.bal[x] + Moved(x, x, "redemption_vault", amount)
  BY <1>1, <1>2, LedgerTransfer
<1>4. Moved(x, x, "redemption_vault", amount) = 0 - amount
  BY DEF Moved
<1>5. ClaimedBy(requests') = ClaimedBy(requests) + amount
  <2>1. Created(b, amount)
    BY CreateEffect
  <2>2. Changed(requests, requests', b, amount)
    BY <2>1, LiveSummable, CreatedClaims DEF BookInv
  <2>3. QED
    BY <2>2 DEF Changed
<1>6. QED
  BY <1>1, <1>3, <1>4, <1>5, EvenNoRicher

LEMMA CancelNoRicher ==
    ASSUME IInv, RequestInv, BookInv, NEW a \in Assets, offer_priced_at(offers[a].vectors, clock),
           NEW r \in requests, cancel_redemption_request(r)
    PROVE  ~(UsersWealth(a)' > UsersWealth(a))
<1> DEFINE x == "wallets"
           n == remaining(r)
           m == 0 - n
<1>1. Transferred(onyc', onyc, "redemption_vault", x, n) /\ n \in Int
      /\ UNCHANGED <<clock, offers, asset>>
  BY RequestRemaining DEF cancel_redemption_request, Transferred
<1>2. x \in OnycAccounts /\ "redemption_vault" \in OnycAccounts /\ IntLedger(onyc)
  BY VaultBalance DEF OnycAccounts
<1>3. ClaimedBy(requests') = ClaimedBy(requests) + m
  <2>1. Cancelled(r)
    BY CancelEffect
  <2>2. Changed(requests, requests', r.offer, 0 - remaining(r))
    BY <2>1, LiveSummable, CancelledClaims DEF BookInv
  <2>3. QED
    BY <2>2 DEF Changed
<1> HIDE DEF n
<1>4. onyc'.bal[x] = onyc.bal[x] + Moved(x, "redemption_vault", x, n)
  BY <1>1, <1>2, LedgerTransfer
<1>5. m \in Int /\ Moved(x, "redemption_vault", x, n) = 0 - m
  BY <1>1 DEF Moved
<1> HIDE DEF m
<1>6. QED
  BY <1>1, <1>3, <1>4, <1>5, EvenNoRicher

\* Configuration moves nothing.
LEMMA ConfigNoRicher ==
    ASSUME IInv, BookInv, NEW a \in Assets, offer_priced_at(offers[a].vectors, clock),
           UNCHANGED <<clock, offers, asset, onyc, requests>>
    PROVE  ~(UsersWealth(a)' > UsersWealth(a))
<1> DEFINE none == 0
<1>1. onyc.bal["wallets"] \in Int /\ ClaimedBy(requests) \in Int
  BY HoldingsInt
<1>2. /\ onyc'.bal["wallets"] = onyc.bal["wallets"] + (0 - none)
      /\ ClaimedBy(requests') = ClaimedBy(requests) + none
  BY <1>1
<1> HIDE DEF none
<1>3. none \in Int
  BY DEF none
<1>4. QED
  BY <1>2, <1>3, EvenNoRicher

\* No trade makes its user richer at the price it is made at: whatever the
\* fees and the curve of a sell, however the conversions round and for all
\* decimals of the tokens, a take or a buy gives at most the ONyc its payment
\* is worth, a fulfilment or a sell at most the asset that the ONyc is worth,
\* and requesting and cancelling give nothing away.
THEOREM TradesNeverFavour == Spec => TradesNeverFavourTheUser
<1>1. ASSUME IInv, RequestInv, BookInv, NEW a \in Assets,
             offer_priced_at(offers[a].vectors, clock), UNCHANGED <<clock, offers>>,
             \A b \in Assets \ {a} : asset'[b] = asset[b],
             SettledTake \/ SwapStep \/ RedemptionStep
      PROVE  ~(UsersWealth(a)' > UsersWealth(a))
  <2>1. CASE SettledTake
    BY <1>1, <2>1, InputAssumption, TakeNoRicher DEF SettledTake
  <2>2. CASE SwapStep
    <3>1. ASSUME NEW b \in Assets, NEW c \in Inputs.prop_amm, configure_prop_amm(b, c)
          PROVE  ~(UsersWealth(a)' > UsersWealth(a))
      <4>1. UNCHANGED <<clock, offers, asset, onyc, requests>>
        BY <3>1 DEF configure_prop_amm
      <4>2. QED
        BY <1>1, <4>1, ConfigNoRicher
    <3>2. ASSUME NEW b \in Assets, NEW amount \in Inputs.swap, NEW minimumOut \in Inputs.minimum_out,
                 open_swap_buy(b, amount, minimumOut)
          PROVE  ~(UsersWealth(a)' > UsersWealth(a))
      <4>1. amount \in Nat
        BY InputAssumption
      <4>2. QED
        BY <1>1, <3>2, <4>1, BuyNoRicher
    <3>3. ASSUME NEW b \in Assets, NEW amount \in Inputs.swap, NEW minimumOut \in Inputs.minimum_out,
                 open_swap_sell(b, amount, minimumOut)
          PROVE  ~(UsersWealth(a)' > UsersWealth(a))
      <4>1. amount \in Nat
        BY InputAssumption
      <4>2. QED
        BY <1>1, <3>3, <4>1, SellNoRicher
    <3>4. QED
      BY <2>2, <3>1, <3>2, <3>3 DEF SwapStep
  <2>3. CASE RedemptionStep
    <3>1. ASSUME NEW b \in Assets, NEW amount \in Inputs.request,
                 create_redemption_request(b, amount)
          PROVE  ~(UsersWealth(a)' > UsersWealth(a))
      <4>1. amount \in Nat
        BY InputAssumption
      <4>2. QED
        BY <1>1, <3>1, <4>1, CreateNoRicher
    <3>2. ASSUME NEW r \in requests, cancel_redemption_request(r)
          PROVE  ~(UsersWealth(a)' > UsersWealth(a))
      BY <1>1, <3>2, CancelNoRicher
    <3>3. ASSUME NEW r \in requests, NEW amount \in Inputs.fulfill,
                 fulfill_redemption_request(r, amount)
          PROVE  ~(UsersWealth(a)' > UsersWealth(a))
      <4>1. amount \in Nat
        BY InputAssumption
      <4>2. QED
        BY <1>1, <3>3, <4>1, FulfillNoRicher
    <3>4. ASSUME NEW b, NEW n, NEW m,
                 \/ make_redemption_offer(b, n, m)
                 \/ update_redemption_offer_fee(b, n)
                 \/ update_redemption_offer_prop_amm_sell_fee(b, n)
                 \/ update_redemption_offer_vault_target(b, n)
                 \/ set_redemption_offer_disabled(b, n)
          PROVE  ~(UsersWealth(a)' > UsersWealth(a))
      <4>1. UNCHANGED <<clock, offers, asset, onyc, requests>>
        BY <3>4 DEF make_redemption_offer, update_redemption_offer_fee,
           update_redemption_offer_prop_amm_sell_fee, update_redemption_offer_vault_target,
           set_redemption_offer_disabled
      <4>2. QED
        BY <1>1, <4>1, ConfigNoRicher
    <3>5. QED
      BY <2>3, <3>1, <3>2, <3>3, <3>4 DEF RedemptionStep
  <2>4. QED
    BY <1>1, <2>1, <2>2, <2>3
<1>2. IInv /\ RequestInv /\ BookInv /\ [Next]_vars =>
        [\A a \in Assets :
            /\ offer_priced_at(offers[a].vectors, clock)
            /\ UNCHANGED <<clock, offers>>
            /\ \A b \in Assets \ {a} : asset'[b] = asset[b]
            /\ UsersWealth(a)' > UsersWealth(a)
            => ~(SettledTake \/ SwapStep \/ RedemptionStep)]_vars
  BY <1>1
<1>3. Init => IInv /\ RequestInv /\ BookInv
  BY InitIInv, InitRequestInv, InitBook
<1>4. IInv /\ RequestInv /\ BookInv /\ [Next]_vars => (IInv /\ RequestInv /\ BookInv)'
  BY NextIInv, NextRequestInv, NextBook
<1>5. QED
  BY <1>2, <1>3, <1>4, PTL DEF Spec, TradesNeverFavourTheUser
=============================================================================
