--------------------------- MODULE HistoryProofs ----------------------------
(***************************************************************************)
(* What a state owes to the steps before it: the baseline of the BUFFER    *)
(* accrual, the caps, the watermark, the market statistics and the         *)
(* excluded balance after every step, the gross yield that bounds          *)
(* everything accruals have ever minted, and the sells that the Prop AMM   *)
(* forgets.                                                                *)
(***************************************************************************)
EXTENDS TradeProofs, OnreHistory

-----------------------------------------------------------------------------
(* The accrual.                                                            *)

\* The minted amount of an accrual that is due, and what it leaves.
LEMMA AccrualParts ==
    ASSUME IInv, can_accrue_buffer
    PROVE  LET next == accrue_buffer
           IN  /\ next.buffer.initialized = buffer.initialized
               /\ next.buffer.previous_supply = next.onyc.supply
               /\ next.buffer.last_accrual_timestamp = clock
               /\ next.onyc.supply \in Nat /\ next.onyc.supply >= onyc.supply
               /\ next.onyc.supply # onyc.supply =>
                      validate_max_supply(next.onyc.supply, 0)
               /\ buffer.previous_supply # 0 =>
                      next.buffer.performance_fee_high_watermark
                          >= buffer.performance_fee_high_watermark
<1> DEFINE next == accrue_buffer
<1>1. buffer \in BufferType /\ onyc.supply \in U64 /\ clock \in Nat /\ state.max_supply \in U64
  BY DEF IInv, TypeOK
<1>2. /\ next.buffer.previous_supply = next.onyc.supply /\ Backed(next.onyc)
  BY AccrualBacked DEF IInv
<1>3. next.onyc.supply \in Nat
  BY <1>2, U64Int DEF Backed, Ledger
<1>4. CASE buffer.previous_supply = 0
  <2> DEFINE split == [reserve |-> 0, mgmt |-> 0, perf |-> 0, hwm |-> current_nav]
  <2>1. next = accrual_of(0, split)
    BY <1>4 DEF accrue_buffer
  <2>2. /\ next.onyc.supply = onyc.supply + 0 /\ next.buffer.last_accrual_timestamp = clock
        /\ next.buffer.initialized = buffer.initialized
    BY <1>1, <2>1 DEF accrual_of, set_buffer_baseline, BufferType
  <2> HIDE DEF next
  <2>3. next.onyc.supply = onyc.supply /\ onyc.supply >= onyc.supply
    BY <1>1, <2>2, U64Int
  <2>4. QED
    BY <1>2, <1>3, <1>4, <2>2, <2>3 DEF next
<1>5. CASE buffer.previous_supply # 0
  <2> DEFINE mint  == buffer_mint_amount
             split == fee_split(mint)
  <2>1. next = accrual_of(mint, split)
    BY <1>5 DEF accrue_buffer
  <2>2. can_mint_accrual(mint, split)
    BY <1>5 DEF can_accrue_buffer
  <2>3. split.hwm = max_of(buffer.performance_fee_high_watermark, current_nav)
    BY DEF fee_split, calculate_buffer_fee_split
  <2>4. current_nav \in U64
    BY PriceFits DEF can_accrue_buffer, current_nav
  <2> HIDE DEF mint, split, next
  <2>5. /\ next.onyc.supply = onyc.supply + mint
        /\ next.buffer.initialized = buffer.initialized
        /\ next.buffer.last_accrual_timestamp = clock
        /\ next.buffer.performance_fee_high_watermark = split.hwm
    BY <1>1, <2>1 DEF accrual_of, set_buffer_baseline, BufferType
  <2>6. /\ mint \in Nat /\ onyc.supply \in Nat /\ current_nav \in Nat
        /\ state.max_supply \in Nat
        /\ buffer.performance_fee_high_watermark \in Nat
        /\ mint > 0 => validate_max_supply(onyc.supply, mint)
    BY <1>1, <2>2, <2>4, U64Int DEF can_mint_accrual, Fits, BufferType
  <2>7. split.hwm >= buffer.performance_fee_high_watermark
    BY <2>3, <2>6 DEF max_of
  <2>8. next.onyc.supply # onyc.supply => validate_max_supply(next.onyc.supply, 0)
    BY <2>5, <2>6 DEF validate_max_supply
  <2>9. next.onyc.supply >= onyc.supply
    BY <2>5, <2>6
  <2>10. QED
    BY <1>2, <1>3, <2>5, <2>7, <2>8, <2>9 DEF next
<1>6. QED
  BY <1>4, <1>5

\* The optional accrual of the other instructions.
LEMMA AccruedParts ==
    ASSUME IInv, accrual_succeeds
    PROVE  /\ should_accrue_onyc_mint =>
                 /\ accrued.buffer.previous_supply = accrued.onyc.supply
                 /\ accrued.buffer.last_accrual_timestamp = clock
           /\ ~should_accrue_onyc_mint => accrued.buffer = buffer /\ accrued.onyc = onyc
           /\ accrued.buffer \in BufferType
           /\ accrued.buffer.initialized = buffer.initialized
           /\ accrued.onyc.supply \in Nat /\ accrued.onyc.supply >= onyc.supply
           /\ accrued.onyc.supply # onyc.supply => validate_max_supply(accrued.onyc.supply, 0)
           /\ buffer.previous_supply # 0 =>
                  accrued.buffer.performance_fee_high_watermark
                      >= buffer.performance_fee_high_watermark
<1>1. accrued.buffer \in BufferType
  BY AccruedBacked DEF IInv
<1>2. CASE should_accrue_onyc_mint
  <2>1. can_accrue_buffer /\ accrued = accrue_buffer
    BY <1>2 DEF accrual_succeeds, accrued
  <2>2. QED
    BY <1>1, <1>2, <2>1, AccrualParts
<1>3. CASE ~should_accrue_onyc_mint
  <2>1. accrued.buffer = buffer /\ accrued.onyc = onyc
    BY <1>3 DEF accrued
  <2>2. onyc.supply \in U64 /\ buffer.performance_fee_high_watermark \in U64
    BY DEF IInv, TypeOK, BufferType
  <2>3. /\ onyc.supply \in Nat /\ onyc.supply >= onyc.supply
        /\ buffer.performance_fee_high_watermark >= buffer.performance_fee_high_watermark
    BY <2>2, U64Int
  <2>4. QED
    BY <1>1, <1>3, <2>1, <2>3
<1>4. QED
  BY <1>2, <1>3

-----------------------------------------------------------------------------
(* What a step does to the supply and to the BUFFER state.                 *)

\* A step that settles the accrual and then mints delta (burns, if negative).
Settled(delta) ==
    /\ delta \in Int
    /\ ~state.is_killed /\ accrual_succeeds
    /\ onyc'.supply = accrued.onyc.supply + delta
    /\ delta > 0 => validate_max_supply(accrued.onyc.supply, delta)
    /\ should_accrue_onyc_mint =>
          /\ buffer'.initialized
          /\ buffer'.previous_supply = onyc'.supply
          /\ buffer'.last_accrual_timestamp = clock
          /\ buffer'.performance_fee_high_watermark
                 = accrued.buffer.performance_fee_high_watermark
    /\ ~should_accrue_onyc_mint => buffer' = buffer
    /\ onyc'.supply # onyc.supply =>
          /\ can_refresh_market_stats(onyc'.supply)
          /\ market_stats' = refreshed_market_stats(onyc'.supply)
    /\ UNCHANGED <<clock, state, mint_authority, excluded>>
    /\ \A x \in Earnings : onyc'.bal[x] <= accrued.onyc.bal[x]

\* A step that leaves both alone; only a deposit adds to the earnings.
Idle ==
    /\ onyc'.supply = onyc.supply /\ buffer' = buffer
    /\ clock' >= clock
    /\ \/ \A x \in Earnings : onyc'.bal[x] <= onyc.bal[x]
       \/ \E amount \in Inputs.reserve : deposit_reserve_vault(amount)

\* A step that changes the supply without knowing of BUFFER.
Unaware ==
    /\ UnawareStep
    /\ UNCHANGED <<clock, state, mint_authority, excluded, buffer>>
    /\ onyc'.supply > onyc.supply /\ mint_authority = "program" =>
           validate_max_supply(onyc'.supply, 0)
    /\ \A x \in Earnings : onyc'.bal[x] = onyc.bal[x]

Classified ==
    (\E delta : Settled(delta)) \/ Idle \/ Unaware \/ initialize_buffer

\* What store_buffer_post_supply stores.
LEMMA StoredParts ==
    ASSUME IInv, accrual_succeeds, NEW d,
           buffer' = store_buffer_post_supply(accrued, d)
    PROVE  /\ should_accrue_onyc_mint =>
                 /\ buffer'.initialized
                 /\ buffer'.previous_supply = accrued.onyc.supply + d
                 /\ buffer'.last_accrual_timestamp = clock
                 /\ buffer'.performance_fee_high_watermark
                        = accrued.buffer.performance_fee_high_watermark
           /\ ~should_accrue_onyc_mint => buffer' = buffer
  BY AccruedParts DEF store_buffer_post_supply, set_buffer_baseline, BufferType,
     should_accrue_onyc_mint

\* A step that leaves ONyc, BUFFER and the clock alone, and a transfer that
\* does not go to the earnings, are idle.
LEMMA UntouchedIdle ==
    ASSUME IInv, UNCHANGED <<onyc, buffer>>, clock' >= clock
    PROVE  Idle
<1>1. onyc.bal \in [OnycAccounts -> U64] /\ Earnings \subseteq OnycAccounts
  BY DEF IInv, TypeOK, Earnings, OnycAccounts
<1>2. \A x \in Earnings : onyc.bal[x] <= onyc.bal[x]
  BY <1>1, U64Int
<1>3. QED
  BY <1>2 DEF Idle

LEMMA TransferIdle ==
    ASSUME IInv, NEW from \in OnycAccounts, NEW to \in OnycAccounts \ Earnings, NEW n \in Nat,
           Transferred(onyc', onyc, from, to, n), UNCHANGED <<buffer, clock>>
    PROVE  Idle
<1>1. IntLedger(onyc) /\ clock \in Nat /\ n \in Int /\ "wallets" \in OnycAccounts
  BY IInvBacked, BackedInt DEF IInv, TypeOK, OnycAccounts
<1>2. ASSUME NEW x \in OnycAccounts
      PROVE  /\ onyc'.supply = onyc.supply
             /\ onyc'.bal[x] = onyc.bal[x] + Moved(x, from, to, n)
             /\ onyc.bal[x] \in Int
  BY <1>1, LedgerTransfer, IntLedgerParts
<1>3. ASSUME NEW x \in Earnings
      PROVE  onyc'.bal[x] <= onyc.bal[x]
  <2>1. x \in OnycAccounts /\ x # to
    BY DEF Earnings, OnycAccounts
  <2>2. QED
    BY <1>2, <2>1 DEF Moved
<1>4. QED
  BY <1>1, <1>2, <1>3 DEF Idle

\* What the end of an instruction that mints or burns d amounts to, when the
\* program controls the mint.
LEMMA StoredSettles ==
    ASSUME IInv, ~state.is_killed, accrual_succeeds, NEW d \in Int,
           onyc'.supply = accrued.onyc.supply + Minted(d),
           program_controls_mint /\ d > 0 => validate_max_supply(accrued.onyc.supply, d),
           buffer' = store_buffer_post_supply(accrued, d),
           onyc'.supply # onyc.supply =>
               /\ can_refresh_market_stats(onyc'.supply)
               /\ market_stats' = refreshed_market_stats(onyc'.supply),
           UNCHANGED <<clock, state, mint_authority, excluded>>,
           \A x \in Earnings : onyc'.bal[x] <= accrued.onyc.bal[x]
    PROVE  Settled(Minted(d))
<1>1. should_accrue_onyc_mint => Minted(d) = d
  BY DEF should_accrue_onyc_mint, Minted
<1>2. /\ Minted(d) \in Int
      /\ Minted(d) > 0 => validate_max_supply(accrued.onyc.supply, Minted(d))
  BY DEF Minted
<1>3. QED
  BY <1>1, <1>2, StoredParts DEF Settled

\* The earnings after a purchase and after a redemption.
LEMMA BoughtEarnings ==
    ASSUME NEW a, NEW amount, NEW from, NEW result, NEW refill, NEW proceedsTo, NEW feeTo,
           Bought(a, amount, from, result, refill, proceedsTo, feeTo)
    PROVE  \A x \in Earnings : onyc'.bal[x] = from.bal[x] /\ onyc'.bal[x] <= from.bal[x]
<1> SUFFICES ASSUME NEW x \in Earnings
             PROVE  onyc'.bal[x] = from.bal[x] /\ onyc'.bal[x] <= from.bal[x]
  OBVIOUS
<1>1. x \in OnycAccounts /\ x # "wallets" /\ x # "offer_vault"
  BY DEF Earnings, OnycAccounts
<1>2. /\ onyc'.bal[x] = from.bal[x] + PaidOut(x, result.out) /\ IntLedger(from)
  BY <1>1 DEF Bought
<1>3. from.bal[x] \in Int /\ PaidOut(x, result.out) = 0
  BY <1>1, <1>2, IntLedgerParts DEF PaidOut
<1>4. QED
  BY <1>2, <1>3

LEMMA RedeemedEarnings ==
    ASSUME NEW a, NEW ledger, NEW result, NEW out,
           NEW proceedsTo \in OnycAccounts \ Earnings, NEW feeTo \in OnycAccounts \ Earnings,
           RedeemedFor(a, ledger, result, proceedsTo, feeTo, out)
    PROVE  \A x \in Earnings : onyc'.bal[x] = ledger.bal[x] /\ onyc'.bal[x] <= ledger.bal[x]
<1> SUFFICES ASSUME NEW x \in Earnings
             PROVE  onyc'.bal[x] = ledger.bal[x] /\ onyc'.bal[x] <= ledger.bal[x]
  OBVIOUS
<1>1. x \in OnycAccounts /\ x # "redemption_vault" /\ x # proceedsTo /\ x # feeTo
  BY DEF Earnings, OnycAccounts
<1>2. /\ onyc'.bal[x]
           = ledger.bal[x] + Redeemed(x, result.net, proceedsTo, result.fee, feeTo)
      /\ IntLedger(ledger)
  BY <1>1 DEF RedeemedFor
<1>3. ledger.bal[x] \in Int /\ Redeemed(x, result.net, proceedsTo, result.fee, feeTo) = 0
  BY <1>1, <1>2, IntLedgerParts DEF Redeemed
<1>4. QED
  BY <1>2, <1>3

\* The takes.
LEMMA TakeClassified ==
    ASSUME IInv, TakeStep
    PROVE  Classified
<1>1. ASSUME NEW a \in Assets, NEW permissionless \in Inputs.permissionless,
             NEW amount \in Inputs.take, take_offer_v2(a, amount, permissionless)
      PROVE  \E delta : Settled(delta)
  <2> DEFINE result == process_offer_core(a, amount, take_fee(a, permissionless))
             refill == refill_of(a, result.net)
             feeTo  == IF permissionless THEN "permissionless_offer_fee" ELSE "offer_fee"
  <2>1. amount \in Nat /\ permissionless \in BOOLEAN
    BY InputAssumption
  <2>2. /\ accrual_succeeds
        /\ Bought(a, amount, accrued.onyc, result, refill, "offer_proceeds", feeTo)
    BY <1>1, <2>1, TakeEffect
  <2>3. /\ ~state.is_killed
        /\ buffer' = store_buffer_post_supply(accrued, result.out)
        /\ program_controls_mint => validate_max_supply(accrued.onyc.supply, result.out)
        /\ can_refresh_market_stats(onyc'.supply)
        /\ market_stats' = refreshed_market_stats(onyc'.supply)
        /\ UNCHANGED <<clock, state, mint_authority, excluded>>
    BY <1>1 DEF take_offer_v2, take_fee, may_take, can_move_tokens, can_pay_token_out, can_mint
  <2> HIDE DEF result, refill, feeTo
  <2>4. onyc'.supply = accrued.onyc.supply + Minted(result.out) /\ result.out \in Int
    BY <2>2 DEF Bought
  <2>5. \A x \in Earnings : onyc'.bal[x] <= accrued.onyc.bal[x]
    BY <2>2, BoughtEarnings
  <2> DEFINE out == result.out
  <2> HIDE DEF out
  <2>6. Settled(Minted(out))
    BY <2>2, <2>3, <2>4, <2>5, StoredSettles DEF out
  <2>7. QED
    BY <2>6
<1>2. ASSUME NEW a \in Assets, NEW permissionless \in Inputs.permissionless,
             NEW amount \in Inputs.legacy_take, take_offer(a, amount, permissionless)
      PROVE  Unaware
  <2> DEFINE result == process_offer_core(a, amount, offers[a].fee_basis_points)
             none   == 0
  <2>1. amount \in Nat /\ permissionless \in BOOLEAN
    BY InputAssumption
  <2>2. Bought(a, amount, onyc, result, none, "wallets", "wallets")
    BY <1>2, <2>1, LegacyEffect
  <2>3. /\ program_controls_mint => validate_max_supply(onyc.supply, result.out)
        /\ UNCHANGED <<clock, state, mint_authority, excluded, buffer>>
    BY <1>2 DEF take_offer, can_move_tokens, can_pay_token_out, can_mint
  <2>4. UnawareStep
    BY <1>2 DEF UnawareStep
  <2> HIDE DEF result, none
  <2>5. onyc'.supply = onyc.supply + Minted(result.out) /\ result.out \in Int
    BY <2>2 DEF Bought
  <2>6. \A x \in Earnings : onyc'.bal[x] = onyc.bal[x]
    BY <2>2, BoughtEarnings
  <2>7. onyc.supply \in Int /\ state.max_supply \in Int
    BY U64Int DEF IInv, TypeOK
  <2>8. program_controls_mint => validate_max_supply(onyc'.supply, 0)
    BY <2>3, <2>5, <2>7 DEF validate_max_supply, Minted
  <2>9. QED
    BY <2>3, <2>4, <2>6, <2>8 DEF Unaware, program_controls_mint
<1>3. QED
  BY <1>1, <1>2 DEF TakeStep, Classified

\* The Prop AMM.
LEMMA SwapClassified ==
    ASSUME IInv, SwapStep
    PROVE  Classified
<1>1. ASSUME NEW a \in Assets, NEW c \in Inputs.prop_amm, configure_prop_amm(a, c)
      PROVE  Idle
  <2>1. UNCHANGED <<onyc, buffer, clock>> /\ clock' >= clock
    BY <1>1 DEF configure_prop_amm, IInv, TypeOK
  <2>2. QED
    BY <2>1, UntouchedIdle
<1>2. ASSUME NEW a \in Assets, NEW amount \in Inputs.swap,
             NEW minimumOut \in Inputs.minimum_out, open_swap_buy(a, amount, minimumOut)
      PROVE  \E delta : Settled(delta)
  <2> DEFINE result == process_offer_core(a, amount, take_fee(a, TRUE))
             refill == refill_of(a, result.net)
  <2>1. amount \in Nat
    BY InputAssumption
  <2>2. /\ accrual_succeeds
        /\ Bought(a, amount, accrued.onyc, result, refill, "prop_amm_proceeds",
                  "prop_amm_buy_fee")
    BY <1>2, <2>1, BuyEffect
  <2>3. /\ ~state.is_killed
        /\ buffer' = store_buffer_post_supply(accrued, result.out)
        /\ program_controls_mint => validate_max_supply(accrued.onyc.supply, result.out)
        /\ can_refresh_market_stats(onyc'.supply)
        /\ market_stats' = refreshed_market_stats(onyc'.supply)
        /\ UNCHANGED <<clock, state, mint_authority, excluded>>
    BY <1>2 DEF open_swap_buy, take_fee, may_swap, can_swap_buy_out, can_mint
  <2> HIDE DEF result, refill
  <2>4. onyc'.supply = accrued.onyc.supply + Minted(result.out) /\ result.out \in Int
    BY <2>2 DEF Bought
  <2>5. \A x \in Earnings : onyc'.bal[x] <= accrued.onyc.bal[x]
    BY <2>2, BoughtEarnings
  <2> DEFINE out == result.out
  <2> HIDE DEF out
  <2>6. Settled(Minted(out))
    BY <2>2, <2>3, <2>4, <2>5, StoredSettles DEF out
  <2>7. QED
    BY <2>6
<1>3. ASSUME NEW a \in Assets, NEW amount \in Inputs.swap,
             NEW minimumOut \in Inputs.minimum_out, open_swap_sell(a, amount, minimumOut)
      PROVE  \E delta : Settled(delta)
  <2> DEFINE result   == sell_result(a, amount)
             out      == sell_output(a, amount, refreshed_market_stats(onyc.supply).tvl)
             received == onyc_received(accrued.onyc, amount)
             burnt    == -result.net
  <2>1. amount \in Nat
    BY InputAssumption
  <2>2. /\ accrual_succeeds /\ IntLedger(accrued.onyc)
        /\ received.supply = accrued.onyc.supply
        /\ \A x \in OnycAccounts : received.bal[x]
              = accrued.onyc.bal[x] + Moved(x, "wallets", "redemption_vault", amount)
        /\ RedeemedFor(a, received, result, "prop_amm_proceeds", "prop_amm_sell_fee", out)
    BY <1>3, <2>1, SellEffect
  <2>3. /\ ~state.is_killed
        /\ buffer' = store_buffer_post_supply(accrued, burnt)
        /\ program_controls_mint =>
              /\ can_refresh_market_stats(onyc'.supply)
              /\ market_stats' = refreshed_market_stats(onyc'.supply)
        /\ UNCHANGED <<clock, state, mint_authority, excluded>>
    BY <1>3 DEF open_swap_sell, may_swap
  <2> HIDE DEF out, received, result
  <2>4. /\ onyc'.supply = accrued.onyc.supply - Minted(result.net) /\ result.net \in Nat
        /\ burnt \in Int
    BY <2>2 DEF RedeemedFor
  <2>5. /\ onyc'.supply = accrued.onyc.supply + Minted(burnt) /\ ~(burnt > 0)
        /\ ~program_controls_mint => Minted(burnt) = 0
    BY <2>2, <2>4, IntLedgerParts DEF Minted
  <2>6. ~program_controls_mint => onyc'.supply = onyc.supply
    BY <2>2, <2>5, IntLedgerParts, AccruedParts DEF should_accrue_onyc_mint
  <2>7. \A x \in Earnings : onyc'.bal[x] <= accrued.onyc.bal[x]
    <3>1. "prop_amm_proceeds" \in OnycAccounts \ Earnings
          /\ "prop_amm_sell_fee" \in OnycAccounts \ Earnings
      BY DEF OnycAccounts, Earnings
    <3>2. \A x \in Earnings : onyc'.bal[x] = received.bal[x]
      BY <2>2, <3>1, RedeemedEarnings
    <3>3. \A x \in Earnings : x \in OnycAccounts /\ x # "wallets" /\ x # "redemption_vault"
      BY DEF Earnings, OnycAccounts
    <3>4. \A x \in Earnings : Moved(x, "wallets", "redemption_vault", amount) = 0
                              /\ accrued.onyc.bal[x] \in Int
      BY <2>2, <3>3, IntLedgerParts DEF Moved
    <3>5. QED
      BY <2>2, <3>2, <3>3, <3>4
  <2> HIDE DEF burnt
  <2>8. Settled(Minted(burnt))
    BY <2>2, <2>3, <2>4, <2>5, <2>6, <2>7, StoredSettles
  <2>9. QED
    BY <2>8
<1>4. QED
  BY <1>1, <1>2, <1>3 DEF SwapStep, Classified

\* Redemption offers and requests.
LEMMA RedemptionClassified ==
    ASSUME IInv, RedemptionStep
    PROVE  Classified
<1>2. ASSUME NEW r \in requests, NEW amount \in Inputs.fulfill,
             fulfill_redemption_request(r, amount)
      PROVE  \E delta : Settled(delta)
  <2> DEFINE result == fulfilled(r, amount)
             burnt  == -result.net
  <2>1. amount \in Nat
    BY InputAssumption
  <2>2. /\ accrual_succeeds
        /\ RedeemedFor(r.offer, accrued.onyc, result, "offer_proceeds", "redemption_fee",
                       result.out)
    BY <1>2, <2>1, FulfillMoves
  <2>3. /\ ~state.is_killed
        /\ buffer' = store_buffer_post_supply(accrued, burnt)
        /\ program_controls_mint =>
              /\ can_refresh_market_stats(onyc'.supply)
              /\ market_stats' = refreshed_market_stats(onyc'.supply)
        /\ UNCHANGED <<clock, state, mint_authority, excluded>>
    BY <1>2 DEF fulfill_redemption_request, fulfilled
  <2> HIDE DEF result
  <2>4. /\ onyc'.supply = accrued.onyc.supply - Minted(result.net) /\ result.net \in Nat
        /\ burnt \in Int /\ IntLedger(accrued.onyc)
    BY <2>2 DEF RedeemedFor
  <2>5. /\ onyc'.supply = accrued.onyc.supply + Minted(burnt) /\ ~(burnt > 0)
        /\ ~program_controls_mint => Minted(burnt) = 0
    BY <2>4, IntLedgerParts DEF Minted
  <2>6. ~program_controls_mint => onyc'.supply = onyc.supply
    BY <2>2, <2>4, <2>5, IntLedgerParts, AccruedParts DEF should_accrue_onyc_mint
  <2>7. \A x \in Earnings : onyc'.bal[x] <= accrued.onyc.bal[x]
    <3>1. "offer_proceeds" \in OnycAccounts \ Earnings
          /\ "redemption_fee" \in OnycAccounts \ Earnings
      BY DEF OnycAccounts, Earnings
    <3>2. QED
      BY <2>2, <3>1, RedeemedEarnings
  <2> HIDE DEF burnt
  <2>8. Settled(Minted(burnt))
    BY <2>2, <2>3, <2>4, <2>5, <2>6, <2>7, StoredSettles
  <2>9. QED
    BY <2>8
<1>3. /\ "wallets" \in OnycAccounts \ Earnings
      /\ "redemption_vault" \in OnycAccounts \ Earnings
  BY DEF OnycAccounts, Earnings
<1>4. ASSUME NEW a \in Assets, NEW amount \in Inputs.request,
             create_redemption_request(a, amount)
      PROVE  Idle
  <2>1. /\ Transferred(onyc', onyc, "wallets", "redemption_vault", amount)
        /\ UNCHANGED <<buffer, clock>>
    BY <1>4 DEF create_redemption_request, Transferred
  <2>2. amount \in Nat
    BY InputAssumption
  <2>3. QED
    BY <1>3, <2>1, <2>2, TransferIdle
<1>5. ASSUME NEW r \in requests, cancel_redemption_request(r)
      PROVE  Idle
  <2>1. /\ Transferred(onyc', onyc, "redemption_vault", "wallets", remaining(r))
        /\ UNCHANGED <<buffer, clock>>
    BY <1>5 DEF cancel_redemption_request, Transferred
  <2>2. remaining(r) \in Nat
    BY RequestRemaining, U64Int DEF IInv, TypeOK
  <2>3. QED
    BY <1>3, <2>1, <2>2, TransferIdle
<1>6. ASSUME NEW a, NEW amount, NEW fee, NEW disabled,
             \/ make_redemption_offer(a, amount, fee)
             \/ update_redemption_offer_fee(a, fee)
             \/ update_redemption_offer_prop_amm_sell_fee(a, fee)
             \/ update_redemption_offer_vault_target(a, fee)
             \/ set_redemption_offer_disabled(a, disabled)
      PROVE  Idle
  <2>1. UNCHANGED <<onyc, buffer, clock>>
    BY <1>6 DEF make_redemption_offer, update_redemption_offer_fee,
       update_redemption_offer_prop_amm_sell_fee, update_redemption_offer_vault_target,
       set_redemption_offer_disabled
  <2>2. clock' >= clock
    BY <2>1 DEF IInv, TypeOK
  <2>3. QED
    BY <2>1, <2>2, UntouchedIdle
<1>7. QED
  BY <1>2, <1>4, <1>5, <1>6 DEF RedemptionStep, Classified

\* The BUFFER instructions and mint_to.
LEMMA BufferClassified ==
    ASSUME IInv, BufferStep
    PROVE  Classified
<1>1. onyc \in [supply : U64, bal : [OnycAccounts -> U64]]
  BY DEF IInv, TypeOK
<1>2. ASSUME can_accrue_buffer, buffer.initialized, program_controls_mint
      PROVE  /\ accrual_succeeds /\ should_accrue_onyc_mint /\ accrued = accrue_buffer
             /\ IntLedger(accrued.onyc)
             /\ \A x \in Earnings : accrued.onyc.bal[x] \in Int
  <2>1. accrual_succeeds /\ should_accrue_onyc_mint /\ accrued = accrue_buffer
    BY <1>2 DEF accrual_succeeds, accrued, should_accrue_onyc_mint
  <2>2. IntLedger(accrued.onyc) /\ Earnings \subseteq OnycAccounts
    BY <2>1, AccruedAt DEF Earnings, OnycAccounts
  <2>3. QED
    BY <2>1, <2>2, IntLedgerParts
<1>3. ASSUME NEW next, accrue_and_refresh(accrue_buffer), buffer' = next,
             next.initialized = accrue_buffer.buffer.initialized,
             next.previous_supply = accrue_buffer.buffer.previous_supply,
             next.last_accrual_timestamp = accrue_buffer.buffer.last_accrual_timestamp,
             next.performance_fee_high_watermark
                 = accrue_buffer.buffer.performance_fee_high_watermark
      PROVE  Settled(0)
  <2>1. /\ can_accrue_buffer /\ buffer.initialized /\ program_controls_mint /\ ~state.is_killed
        /\ onyc' = accrue_buffer.onyc
        /\ can_refresh_market_stats(onyc'.supply)
        /\ market_stats' = refreshed_market_stats(onyc'.supply)
        /\ UNCHANGED <<clock, state, mint_authority, excluded>>
    BY <1>3 DEF accrue_and_refresh
  <2>2. /\ accrual_succeeds /\ should_accrue_onyc_mint /\ accrued = accrue_buffer
        /\ IntLedger(accrued.onyc) /\ \A x \in Earnings : accrued.onyc.bal[x] \in Int
    BY <1>2, <2>1
  <2>3. /\ onyc'.supply = accrued.onyc.supply + 0
        /\ \A x \in Earnings : onyc'.bal[x] <= accrued.onyc.bal[x]
    BY <2>1, <2>2, IntLedgerParts
  <2>4. /\ buffer'.previous_supply = onyc'.supply /\ buffer'.last_accrual_timestamp = clock
        /\ buffer'.initialized
    BY <1>3, <2>1, <2>2, AccruedParts
  <2>5. QED
    BY <1>3, <2>1, <2>2, <2>3, <2>4 DEF Settled
<1>4. ASSUME NEW apr, NEW mgmt, NEW perf, NEW hwmEnabled,
             \/ settle_buffer \/ set_buffer_gross_apr(apr)
             \/ set_buffer_fee_config(mgmt, perf, hwmEnabled)
      PROVE  Settled(0)
  <2>1. accrue_and_refresh(accrue_buffer)
    BY <1>4 DEF settle_buffer, set_buffer_gross_apr, set_buffer_fee_config
  <2>2. accrue_buffer.buffer \in BufferType
    <3>1. can_accrue_buffer
      BY <2>1 DEF accrue_and_refresh
    <3>2. QED
      BY <3>1, AccrualBacked DEF IInv
  <2>3. /\ buffer'.initialized = accrue_buffer.buffer.initialized
        /\ buffer'.previous_supply = accrue_buffer.buffer.previous_supply
        /\ buffer'.last_accrual_timestamp = accrue_buffer.buffer.last_accrual_timestamp
        /\ buffer'.performance_fee_high_watermark
               = accrue_buffer.buffer.performance_fee_high_watermark
    BY <1>4, <2>2 DEF settle_buffer, set_buffer_gross_apr, set_buffer_fee_config, BufferType
  <2>4. QED
    BY <1>3, <2>1, <2>3
<1>5. ASSUME NEW adjustment \in Inputs.adjustment, burn_for_nav_increase(adjustment)
      PROVE  \E delta : Settled(delta)
  <2> DEFINE circulating == calculate_circulating_supply(accrue_buffer.onyc.supply,
                                                         excluded.amount)
             tvl   == calculate_tvl(circulating, current_nav)
             burn  == calculate_burn_amount(circulating, tvl, adjustment, current_nav)
             burnt == -burn
  <2>1. /\ can_accrue_buffer /\ buffer.initialized /\ program_controls_mint /\ ~state.is_killed
        /\ burn > 0 /\ can_burn(accrue_buffer.onyc, "reserve", burn)
        /\ onyc' = burn_tokens(accrue_buffer.onyc, "reserve", burn)
        /\ buffer' = set_buffer_baseline(accrue_buffer.buffer,
                                         accrue_buffer.buffer.previous_supply - burn)
        /\ can_refresh_market_stats(onyc'.supply)
        /\ market_stats' = refreshed_market_stats(onyc'.supply)
        /\ UNCHANGED <<clock, state, mint_authority, excluded>>
    BY <1>5 DEF burn_for_nav_increase
  <2>2. burn \in Int
    <3>1. Fits(circulating) /\ Fits(tvl) /\ current_nav > 0
      BY <1>5 DEF burn_for_nav_increase
    <3>2. circulating \in Int /\ tvl \in Int /\ adjustment \in Int
      BY <3>1, U64Int, InputAssumption DEF Fits
    <3>3. current_nav \in Nat \ {0}
      <4>1. current_nav \in U64
        BY <2>1, PriceFits DEF can_accrue_buffer, current_nav
      <4>2. QED
        BY <3>1, <4>1, U64Int
    <3> DEFINE worth == (tvl - adjustment) * PRICE_SCALE
    <3> HIDE DEF circulating, tvl
    <3>4. worth \in Int
      BY <3>2, ScaleAssumption
    <3>5. burn = circulating - ceil_div_u128(worth, current_nav)
      BY DEF calculate_burn_amount
    <3> HIDE DEF worth
    <3>6. ceil_div_u128(worth, current_nav) \in Int
      BY <3>3, <3>4, CeilDiv
    <3>7. QED
      BY <3>2, <3>5, <3>6
  <2> HIDE DEF burn
  <2>3. /\ accrual_succeeds /\ should_accrue_onyc_mint /\ accrued = accrue_buffer
        /\ IntLedger(accrued.onyc) /\ \A x \in Earnings : accrued.onyc.bal[x] \in Int
    BY <1>2, <2>1
  <2> DEFINE from == accrued.onyc
             next == burn_tokens(from, "reserve", burn)
  <2>4. onyc' = next /\ "reserve" \in OnycAccounts /\ Earnings \subseteq OnycAccounts
    BY <2>1, <2>3 DEF OnycAccounts, Earnings
  <2> HIDE DEF from
  <2>5. ASSUME NEW x \in OnycAccounts
        PROVE  /\ next.supply = from.supply - burn
               /\ next.bal[x] = from.bal[x] - (IF x = "reserve" THEN burn ELSE 0)
    BY <2>2, <2>3, <2>4, LedgerMint DEF from
  <2> HIDE DEF next
  <2>6. onyc'.supply = from.supply + burnt /\ burnt \in Int /\ ~(burnt > 0)
    <3>1. next.supply = from.supply - burn /\ from.supply \in Int
      BY <2>3, <2>4, <2>5, IntLedgerParts DEF from
    <3>2. QED
      BY <2>1, <2>2, <2>4, <3>1
  <2>7. \A x \in Earnings : onyc'.bal[x] <= from.bal[x]
    BY <2>1, <2>2, <2>3, <2>4, <2>5 DEF from
  <2>8. /\ buffer'.initialized
        /\ buffer'.previous_supply = onyc'.supply
        /\ buffer'.last_accrual_timestamp = clock
        /\ buffer'.performance_fee_high_watermark
               = accrued.buffer.performance_fee_high_watermark
    <3>1. /\ accrued.buffer \in BufferType /\ accrued.buffer.initialized
          /\ accrued.buffer.previous_supply = from.supply
      BY <2>1, <2>3, AccruedParts DEF from
    <3>2. buffer' = set_buffer_baseline(accrued.buffer, from.supply - burn)
      BY <2>1, <2>3, <3>1
    <3>3. onyc'.supply = from.supply - burn
      BY <2>4, <2>5
    <3>4. QED
      BY <3>1, <3>2, <3>3 DEF set_buffer_baseline, BufferType
  <2> HIDE DEF burnt
  <2>9. Settled(burnt)
    BY <2>1, <2>3, <2>6, <2>7, <2>8 DEF Settled, from
  <2>10. QED
    BY <2>9
<1>6. ASSUME NEW amount \in Inputs.reserve,
             deposit_reserve_vault(amount) \/ withdraw_reserve_vault(amount)
      PROVE  Idle
  <2>1. CASE deposit_reserve_vault(amount)
    <3>1. clock' >= clock
      BY <2>1 DEF deposit_reserve_vault, move_reserve, IInv, TypeOK
    <3>2. QED
      BY <1>1, <2>1, <3>1 DEF deposit_reserve_vault, move_reserve, Idle
  <2>2. CASE withdraw_reserve_vault(amount)
    <3>1. /\ Transferred(onyc', onyc, "reserve", "wallets", amount)
          /\ UNCHANGED <<buffer, clock>>
      BY <2>2 DEF withdraw_reserve_vault, move_reserve, Transferred
    <3>2. /\ amount \in Nat /\ "reserve" \in OnycAccounts
          /\ "wallets" \in OnycAccounts \ Earnings
      BY InputAssumption DEF OnycAccounts, Earnings
    <3>3. QED
      BY <3>1, <3>2, TransferIdle
  <2>3. QED
    BY <1>6, <2>1, <2>2
<1>7. ASSUME NEW amount \in Inputs.mint, mint_to(amount)
      PROVE  \E delta : Settled(delta)
  <2> DEFINE from == accrued.onyc
             next == mint_tokens(from, "wallets", amount)
  <2>1. /\ ~state.is_killed /\ accrual_succeeds /\ program_controls_mint
        /\ validate_max_supply(from.supply, amount)
        /\ onyc' = next
        /\ buffer' = store_buffer_post_supply(accrued, amount)
        /\ can_refresh_market_stats(onyc'.supply)
        /\ market_stats' = refreshed_market_stats(onyc'.supply)
        /\ UNCHANGED <<clock, state, mint_authority, excluded>>
    BY <1>7 DEF mint_to, can_mint
  <2>2. amount \in Int /\ IntLedger(from)
    BY <2>1, AccruedAt, InputAssumption
  <2>3. /\ "wallets" \in OnycAccounts
        /\ \A x \in Earnings : x # "wallets" /\ x \in OnycAccounts
    BY DEF OnycAccounts, Earnings
  <2> HIDE DEF from
  <2>4. ASSUME NEW x \in OnycAccounts
        PROVE  /\ next.supply = from.supply + amount
               /\ next.bal[x] = from.bal[x] + (IF x = "wallets" THEN amount ELSE 0)
    BY <2>2, <2>3, LedgerMint
  <2> HIDE DEF next
  <2>5. onyc'.supply = from.supply + Minted(amount)
    BY <2>1, <2>3, <2>4 DEF Minted
  <2>6. \A x \in Earnings : onyc'.bal[x] <= from.bal[x]
    BY <2>1, <2>2, <2>3, <2>4, IntLedgerParts
  <2>7. Settled(Minted(amount))
    BY <2>1, <2>2, <2>5, <2>6, StoredSettles DEF from
  <2>8. QED
    BY <2>7
<1>8. QED
  BY <1>4, <1>5, <1>6, <1>7 DEF BufferStep, Classified

\* The configuration of offers.
LEMMA OfferClassified ==
    ASSUME IInv, OfferStep
    PROVE  Idle
<1>1. UNCHANGED <<onyc, buffer, clock>>
  BY DEF OfferStep, make_offer, update_offer_fee, update_offer_permissionless_fee,
         set_offer_disabled, add_offer_vector, delete_offer_vector, delete_all_offer_vectors,
         only_offers_change
<1>2. clock' >= clock
  BY <1>1 DEF IInv, TypeOK
<1>3. QED
  BY <1>1, <1>2, UntouchedIdle

\* Vaults, switches, caps, and what happens outside.
LEMMA OperationClassified ==
    ASSUME IInv, OperationStep
    PROVE  Classified
<1>1. onyc \in [supply : U64, bal : [OnycAccounts -> U64]]
  BY DEF IInv, TypeOK
<1>2. /\ "wallets" \in OnycAccounts \ Earnings
      /\ Vaults \subseteq OnycAccounts \ Earnings
      /\ clock \in Nat
  BY DEF OnycAccounts, Earnings, Vaults, IInv, TypeOK
<1>3. ASSUME NEW from \in OnycAccounts, NEW to \in OnycAccounts \ Earnings, NEW n \in Nat,
             move_onyc(from, to, n)
      PROVE  Idle
  <2>1. Transferred(onyc', onyc, from, to, n) /\ UNCHANGED <<buffer, clock>>
    BY <1>3 DEF move_onyc, Transferred
  <2>2. QED
    BY <2>1, TransferIdle
<1>4. ASSUME NEW vault \in Vaults, NEW amount \in Inputs.deposit \union Inputs.withdraw,
             vault_deposit_onyc(vault, amount) \/ vault_withdraw_onyc(vault, amount)
      PROVE  Idle
  <2>1. amount \in Nat
    BY InputAssumption
  <2>2. QED
    BY <1>2, <1>3, <1>4, <2>1 DEF vault_deposit_onyc, vault_withdraw_onyc
<1>5. ASSUME NEW kind \in VaultKinds \intersect OnycAccounts,
             NEW amount \in Inputs.vault_withdraw,
             withdraw_configurable_vault_onyc(kind, amount)
      PROVE  Idle
  <2> DEFINE n == effective_amount(onyc.bal[kind], amount)
  <2>1. n \in Nat
    BY <1>1, U64Int, InputAssumption DEF effective_amount
  <2>2. move_onyc(kind, "wallets", n)
    BY <1>5 DEF withdraw_configurable_vault_onyc
  <2> HIDE DEF n
  <2>3. QED
    BY <1>2, <1>3, <2>1, <2>2
<1>6. ASSUME NEW a, NEW x, NEW y,
             \/ vault_deposit_asset(a, x, y) \/ vault_withdraw_asset(a, x, y)
             \/ withdraw_configurable_vault_asset(a, x, y)
             \/ set_configurable_vault_destination(x, y)
             \/ set_circulating_supply_excluded_accounts(x)
             \/ update_circulating_supply_excluded_balance
             \/ refresh_market_stats
             \/ set_kill_switch(x) \/ configure_max_supply(x)
             \/ configure_max_mint_amount(x) \/ set_main_offer(x)
             \/ transfer_mint_authority_to_program \/ transfer_mint_authority_to_boss
             \/ tick
      PROVE  Idle
  <2>1. UNCHANGED <<onyc, buffer>> /\ (clock' = clock \/ clock' = clock + 1)
    BY <1>6 DEF vault_deposit_asset, vault_withdraw_asset,
       withdraw_configurable_vault_asset, move_asset, set_configurable_vault_destination,
       set_circulating_supply_excluded_accounts,
       update_circulating_supply_excluded_balance, refresh_market_stats,
       set_kill_switch, configure_max_supply, configure_max_mint_amount,
       set_main_offer, only_state_changes, transfer_mint_authority_to_program,
       transfer_mint_authority_to_boss, transfer_mint_authority, tick
  <2>2. clock' >= clock
    BY <1>2, <2>1
  <2>3. QED
    BY <2>1, <2>2, UntouchedIdle
<1>7. ASSUME NEW amount \in Inputs.external, external_burn(amount) \/ external_mint(amount)
      PROVE  Unaware
  <2>1. /\ UnawareStep
        /\ UNCHANGED <<clock, state, mint_authority, excluded, buffer>>
        /\ \/ onyc' = burn_tokens(onyc, "wallets", amount)
           \/ onyc' = mint_tokens(onyc, "wallets", amount) /\ mint_authority = "boss"
    BY <1>7 DEF UnawareStep, external_burn, external_mint
  <2>2. \A x \in Earnings : onyc'.bal[x] = onyc.bal[x]
    BY <1>1, <2>1 DEF burn_tokens, mint_tokens, Earnings, OnycAccounts
  <2>3. amount \in Nat /\ onyc.supply \in Int
    BY <1>1, U64Int, InputAssumption
  <2>4. mint_authority = "program" => ~(onyc'.supply > onyc.supply)
    <3>1. SUFFICES ASSUME mint_authority = "program" PROVE onyc'.supply = onyc.supply - amount
      BY <2>3
    <3>2. QED
      BY <2>1, <3>1 DEF burn_tokens
  <2>5. QED
    BY <2>1, <2>2, <2>4 DEF Unaware
<1>8. QED
  BY <1>4, <1>5, <1>6, <1>7 DEF OperationStep, Classified

LEMMA StepClassified == IInv /\ [Next]_vars => Classified
<1>1. IInv /\ UNCHANGED vars => Idle
  <2>1. SUFFICES ASSUME IInv, UNCHANGED vars PROVE Idle
    OBVIOUS
  <2>2. UNCHANGED <<onyc, buffer>> /\ clock' >= clock
    BY <2>1 DEF vars, IInv, TypeOK
  <2>3. QED
    BY <2>1, <2>2, UntouchedIdle
<1>2. QED
  BY <1>1, RedemptionClassified, BufferClassified, TakeClassified, SwapClassified,
     OfferClassified, OperationClassified DEF Next, Classified

-----------------------------------------------------------------------------
(* The action properties of BUFFER.                                        *)

\* After every step that changes the supply while BUFFER is to accrue, the
\* baseline is the supply and the interval restarts, unless the step does not
\* know of BUFFER.
THEOREM BaselineAlwaysFollows == Spec => BaselineFollowsSupply
<1>1. IInv /\ [Next]_vars =>
        [should_accrue_onyc_mint /\ onyc'.supply # onyc.supply =>
            \/ buffer'.previous_supply = onyc'.supply
               /\ buffer'.last_accrual_timestamp = clock
            \/ UnawareStep]_vars
  <2>1. SUFFICES ASSUME IInv, [Next]_vars, should_accrue_onyc_mint,
                        onyc'.supply # onyc.supply
                 PROVE  \/ buffer'.previous_supply = onyc'.supply
                           /\ buffer'.last_accrual_timestamp = clock
                        \/ UnawareStep
    OBVIOUS
  <2>2. Classified
    BY <2>1, StepClassified
  <2>3. ~Idle /\ ~initialize_buffer
    BY <2>1 DEF Idle, initialize_buffer
  <2>4. QED
    BY <2>1, <2>2, <2>3 DEF Classified, Settled, Unaware
<1>2. QED
  BY <1>1, InitIInv, NextIInv, PTL DEF Spec, BaselineFollowsSupply

\* No mint of the program, accrual and payment together, carries the supply
\* over the cap.
THEOREM SupplyCapAlwaysRespected == Spec => SupplyCapRespected
<1>1. IInv /\ [Next]_vars =>
        [/\ state.max_supply > 0
         /\ mint_authority = "program"
         /\ onyc'.supply > onyc.supply
         => onyc'.supply <= state.max_supply]_vars
  <2>1. SUFFICES ASSUME IInv, [Next]_vars, state.max_supply > 0,
                        mint_authority = "program", onyc'.supply > onyc.supply
                 PROVE  onyc'.supply <= state.max_supply
    OBVIOUS
  <2>2. Classified
    BY <2>1, StepClassified
  <2>3. onyc.supply \in Nat /\ state.max_supply \in Nat
    BY <2>1, U64Int DEF IInv, TypeOK
  <2>4. onyc'.supply \in Nat
    <3>1. IInv'
      BY <2>1, NextIInv
    <3>2. onyc'.supply \in U64
      BY <3>1 DEF IInv, TypeOK
    <3>3. QED
      BY <3>2, U64Int
  <2>5. ~Idle /\ ~initialize_buffer
    BY <2>1, <2>3 DEF Idle, initialize_buffer
  <2>6. CASE Unaware
    BY <2>1, <2>3, <2>4, <2>6 DEF Unaware, validate_max_supply
  <2>7. ASSUME NEW delta, Settled(delta)
        PROVE  onyc'.supply <= state.max_supply
    <3>1. /\ delta \in Int /\ accrual_succeeds
          /\ onyc'.supply = accrued.onyc.supply + delta
          /\ delta > 0 => validate_max_supply(accrued.onyc.supply, delta)
      BY <2>7 DEF Settled
    <3>2. /\ accrued.onyc.supply \in Nat /\ accrued.onyc.supply >= onyc.supply
          /\ accrued.onyc.supply # onyc.supply => validate_max_supply(accrued.onyc.supply, 0)
      BY <2>1, <3>1, AccruedParts
    <3>3. QED
      BY <2>1, <2>3, <3>1, <3>2 DEF validate_max_supply
  <2>8. QED
    BY <2>2, <2>5, <2>6, <2>7 DEF Classified
<1>2. QED
  BY <1>1, InitIInv, NextIInv, PTL DEF Spec, SupplyCapRespected

\* The market statistics follow every supply change of the program.
THEOREM StatsAlwaysFollow == Spec => StatsFollowSupply
<1>1. IInv /\ [Next]_vars =>
        [onyc'.supply # onyc.supply =>
            \/ market_stats'.circulating_supply = onyc'.supply - excluded'.amount
            \/ UnawareStep]_vars
  <2>1. SUFFICES ASSUME IInv, [Next]_vars, onyc'.supply # onyc.supply
                 PROVE  \/ market_stats'.circulating_supply = onyc'.supply - excluded'.amount
                        \/ UnawareStep
    OBVIOUS
  <2>2. Classified
    BY <2>1, StepClassified
  <2>3. ~Idle /\ ~initialize_buffer
    BY <2>1 DEF Idle, initialize_buffer
  <2>4. ASSUME NEW delta, Settled(delta)
        PROVE  market_stats'.circulating_supply = onyc'.supply - excluded'.amount
    BY <2>1, <2>4 DEF Settled, refreshed_market_stats, calculate_circulating_supply
  <2>5. QED
    BY <2>2, <2>3, <2>4 DEF Classified, Unaware
<1>2. QED
  BY <1>1, InitIInv, NextIInv, PTL DEF Spec, StatsFollowSupply

\* A BUFFER account that does not exist yet has no baseline.
FreshBuffer == ~buffer.initialized => buffer.previous_supply = 0

LEMMA FreshInit == Init => FreshBuffer
  BY InitialAssumption DEF Init, FreshBuffer, NoBuffer

LEMMA FreshNext == IInv /\ FreshBuffer /\ [Next]_vars => FreshBuffer'
<1>1. SUFFICES ASSUME IInv, FreshBuffer, [Next]_vars
               PROVE  FreshBuffer'
  OBVIOUS
<1>2. Classified
  BY <1>1, StepClassified
<1>3. initialize_buffer => buffer'.initialized
  BY DEF initialize_buffer, NoBuffer
<1>4. ASSUME NEW delta, Settled(delta)
      PROVE  FreshBuffer'
  BY <1>1, <1>4 DEF Settled, FreshBuffer, should_accrue_onyc_mint
<1>5. QED
  BY <1>1, <1>2, <1>3, <1>4 DEF Classified, Idle, Unaware, FreshBuffer

\* The performance fee watermark falls only when there is no baseline.
THEOREM WatermarkNeverLowered == Spec => WatermarkNeverFalls
<1>1. IInv /\ FreshBuffer /\ [Next]_vars =>
        [buffer.previous_supply # 0 =>
            buffer'.performance_fee_high_watermark
                >= buffer.performance_fee_high_watermark]_vars
  <2>1. SUFFICES ASSUME IInv, FreshBuffer, [Next]_vars, buffer.previous_supply # 0
                 PROVE  buffer'.performance_fee_high_watermark
                            >= buffer.performance_fee_high_watermark
    OBVIOUS
  <2>2. Classified
    BY <2>1, StepClassified
  <2>3. ~initialize_buffer
    BY <2>1 DEF initialize_buffer, FreshBuffer
  <2>4. buffer' = buffer => buffer'.performance_fee_high_watermark
                              >= buffer.performance_fee_high_watermark
    <3>1. buffer.performance_fee_high_watermark \in U64
      BY <2>1 DEF IInv, TypeOK, BufferType
    <3>2. QED
      BY <3>1, U64Int
  <2>5. ASSUME NEW delta, Settled(delta)
        PROVE  buffer'.performance_fee_high_watermark
                   >= buffer.performance_fee_high_watermark
    BY <2>1, <2>4, <2>5, AccruedParts DEF Settled
  <2>6. QED
    BY <2>2, <2>3, <2>4, <2>5 DEF Classified, Idle, Unaware
<1>2. QED
  BY <1>1, InitIInv, NextIInv, FreshInit, FreshNext, PTL DEF Spec, WatermarkNeverFalls

-----------------------------------------------------------------------------
(* The yield budget.                                                       *)

\* A year in the units of the budget.
Year == SECONDS_PER_YEAR * YIELD_SCALE

LEMMA YearNat == Year \in Nat \ {0}
  BY ScaleAssumption DEF Year

\* An accrual is at most the gross yield of the interval: the APR that the
\* price already grows by only lowers it.
LEMMA AccrualAtMostGross ==
    ASSUME NEW supply \in Nat, NEW gross \in Nat, NEW current \in Nat, NEW secs \in Nat
    PROVE  /\ calculate_gross_buffer_accrual(supply, gross, current, secs) \in Nat
           /\ calculate_gross_buffer_accrual(supply, gross, current, secs) * Year
                <= supply * gross * secs
<1> DEFINE delta == saturating_sub(gross, current)
           grown == Year + current * secs
           due   == supply * delta * secs
           mint  == calculate_gross_buffer_accrual(supply, gross, current, secs)
<1>1. delta \in Nat /\ delta <= gross
  BY DEF saturating_sub
<1>2. Year \in Nat \ {0} /\ current * secs \in Nat
  BY YearNat, NatProduct
<1>3. grown \in Nat \ {0} /\ Year <= grown
  BY <1>2
<1>4. mint = due \div grown
  BY DEF calculate_gross_buffer_accrual, Year
<1>5. supply * secs \in Nat /\ gross * (supply * secs) \in Nat /\ delta * (supply * secs) \in Nat
  BY <1>1, NatProduct
<1>6. due = delta * (supply * secs) /\ supply * gross * secs = gross * (supply * secs)
  BY <1>1
<1>7. delta * (supply * secs) <= gross * (supply * secs)
  BY <1>1, <1>5, ProductMonotone
<1>8. due \in Nat /\ due <= supply * gross * secs /\ supply * gross * secs \in Nat
  BY <1>5, <1>6, <1>7
<1> HIDE DEF mint, due, grown, delta
<1>9. mint \in Nat
  BY <1>3, <1>4, <1>8, QuotientNat
<1>10. mint * grown <= due
  BY <1>3, <1>4, <1>8, Division
<1>11. Year * mint <= grown * mint
  BY <1>2, <1>3, <1>9, ProductMonotone
<1>12. /\ Year * mint = mint * Year /\ grown * mint = mint * grown
       /\ mint * Year \in Int /\ mint * grown \in Int
  BY <1>2, <1>3, <1>9
<1>13. mint * Year <= supply * gross * secs
  BY <1>8, <1>10, <1>11, <1>12
<1>14. QED
  BY <1>9, <1>13 DEF mint

\* The pending yield covers what the accrual mints.
LEMMA AccrualWithinPending ==
    ASSUME IInv, can_accrue_buffer
    PROVE  /\ Risen(accrue_buffer.onyc) \in Nat
           /\ Risen(accrue_buffer.onyc) * Year <= Pending
<1>1. /\ buffer \in BufferType /\ onyc \in [supply : U64, bal : [OnycAccounts -> U64]]
      /\ clock \in Nat /\ clock >= buffer.last_accrual_timestamp
  BY DEF IInv, TypeOK, can_accrue_buffer
<1>2. /\ buffer.previous_supply \in Nat /\ buffer.gross_apr \in Nat
      /\ clock - buffer.last_accrual_timestamp \in Nat
  BY <1>1, U64Int, StateAssumption DEF BufferType
<1>3. ASSUME NEW mint, NEW split
      PROVE  /\ accrual_of(mint, split).onyc.bal["reserve"]
                  = onyc.bal["reserve"] + split.reserve
             /\ accrual_of(mint, split).onyc.bal["management_fee"]
                  = onyc.bal["management_fee"] + split.mgmt
             /\ accrual_of(mint, split).onyc.bal["performance_fee"]
                  = onyc.bal["performance_fee"] + split.perf
  BY <1>1 DEF accrual_of, OnycAccounts
<1>4. /\ onyc.bal["reserve"] \in Int /\ onyc.bal["management_fee"] \in Int
      /\ onyc.bal["performance_fee"] \in Int
  BY <1>1, U64Int DEF OnycAccounts
<1>5. CASE buffer.previous_supply = 0
  <2> DEFINE split == [reserve |-> 0, mgmt |-> 0, perf |-> 0, hwm |-> current_nav]
             none  == 0
  <2>1. accrue_buffer = accrual_of(none, split)
    BY <1>5 DEF accrue_buffer
  <2>2. split.reserve = 0 /\ split.mgmt = 0 /\ split.perf = 0 /\ none \in Nat
    OBVIOUS
  <2> HIDE DEF split
  <2>3. Risen(accrue_buffer.onyc) = none
    BY <1>3, <1>4, <2>1, <2>2 DEF Risen, saturating_sub
  <2>4. none * Year <= Pending
    BY <1>2, <1>5, YearNat DEF Pending
  <2>5. QED
    BY <2>2, <2>3, <2>4
<1>6. CASE buffer.previous_supply # 0
  <2> DEFINE active == find_active_vector_at(main_vectors, clock)
             mint   == buffer_mint_amount
             split  == fee_split(mint)
  <2>1. accrue_buffer = accrual_of(mint, split)
    BY <1>6 DEF accrue_buffer
  <2>2. can_mint_accrual(mint, split)
    BY <1>6 DEF can_accrue_buffer
  <2>3. split.reserve = mint - split.mgmt - split.perf
    BY DEF fee_split, calculate_buffer_fee_split
  <2>4. active.apr \in Nat
    <3>1. state.main_offer \in Assets /\ offer_priced_at(main_vectors, clock)
      BY DEF can_accrue_buffer, main_offer_set, IInv, TypeOK
    <3>2. main_vectors \in SUBSET OfferVector /\ started_at(main_vectors, clock) # {}
      BY <3>1 DEF main_vectors, IInv, TypeOK, OfferType, offer_priced_at
    <3>3. latest(started_at(main_vectors, clock)) \in started_at(main_vectors, clock)
      BY <1>1, <3>2, LatestStarted
    <3>4. active \in OfferVector
      BY <3>2, <3>3 DEF find_active_vector_at, started_at
    <3>5. QED
      BY <3>4 DEF OfferVector
  <2>5. mint = calculate_gross_buffer_accrual(buffer.previous_supply, buffer.gross_apr,
                   active.apr, clock - buffer.last_accrual_timestamp)
    BY DEF buffer_mint_amount
  <2> HIDE DEF active, mint, split
  <2>6. mint \in Nat /\ mint * Year <= Pending
    BY <1>2, <2>4, <2>5, AccrualAtMostGross DEF Pending
  <2>7. split.mgmt \in Nat /\ split.perf \in Nat /\ split.reserve \in Nat
    BY <2>2, U64Int DEF can_mint_accrual, Fits
  <2>8. Risen(accrue_buffer.onyc) = mint
    <3>1. \A b \in Int, share \in Nat : saturating_sub(b + share, b) = share
      BY DEF saturating_sub
    <3>2. Risen(accrue_buffer.onyc) = split.reserve + split.mgmt + split.perf
      <4> DEFINE bal == accrue_buffer.onyc.bal
      <4>1. /\ bal["reserve"] = onyc.bal["reserve"] + split.reserve
            /\ bal["management_fee"] = onyc.bal["management_fee"] + split.mgmt
            /\ bal["performance_fee"] = onyc.bal["performance_fee"] + split.perf
        BY <1>3, <2>1
      <4>2. /\ saturating_sub(bal["reserve"], onyc.bal["reserve"]) = split.reserve
            /\ saturating_sub(bal["management_fee"], onyc.bal["management_fee"]) = split.mgmt
            /\ saturating_sub(bal["performance_fee"], onyc.bal["performance_fee"]) = split.perf
        BY <1>4, <2>7, <3>1, <4>1
      <4>3. QED
        BY <4>2 DEF Risen
    <3>3. QED
      BY <2>3, <2>6, <2>7, <3>2
  <2>9. QED
    BY <2>6, <2>8
<1>7. QED
  BY <1>5, <1>6

\* The pending yield is an integer.
LEMMA BudgetTyped ==
    ASSUME IInv
    PROVE  /\ Pending \in Int
           /\ buffer.previous_supply \in Nat /\ buffer.gross_apr \in Nat
           /\ buffer.last_accrual_timestamp \in Nat /\ clock \in Nat
<1>1. buffer \in BufferType /\ clock \in Nat
  BY DEF IInv, TypeOK
<1>2. /\ buffer.previous_supply \in Nat /\ buffer.gross_apr \in Nat
      /\ buffer.last_accrual_timestamp \in Nat
  BY <1>1, U64Int, StateAssumption DEF BufferType
<1>3. Pending \in Int
  BY <1>1, <1>2 DEF Pending
<1>4. QED
  BY <1>1, <1>2, <1>3

\* Without a baseline, or at the end of an interval, nothing is pending.
LEMMA NothingPending ==
    ASSUME NEW supply \in Nat, NEW gross \in Nat, NEW seconds \in Int,
           supply = 0 \/ seconds = 0
    PROVE  supply * gross * seconds = 0
<1>1. supply * gross \in Nat
  OBVIOUS
<1>2. CASE seconds = 0
  BY <1>1, <1>2
<1>3. CASE supply = 0
  <2>1. supply * gross = 0
    BY <1>3
  <2>2. QED
    BY <2>1
<1>4. QED
  BY <1>2, <1>3

\* Who holds no more for the earnings has not risen by more.
LEMMA RisenAtMost ==
    ASSUME NEW ledger, NEW top,
           \A x \in Earnings : onyc.bal[x] \in Int /\ ledger.bal[x] \in Int /\ top.bal[x] \in Int,
           \A x \in Earnings : ledger.bal[x] <= top.bal[x]
    PROVE  Risen(ledger) \in Nat /\ Risen(ledger) <= Risen(top)
<1>1. "reserve" \in Earnings /\ "management_fee" \in Earnings /\ "performance_fee" \in Earnings
  BY DEF Earnings
<1>2. QED
  BY <1>1 DEF Risen, saturating_sub

\* Balances that do not rise have risen by nothing.
LEMMA NothingRisen ==
    ASSUME NEW ledger, \A x \in Earnings : onyc.bal[x] \in Int /\ ledger.bal[x] \in Int,
           \A x \in Earnings : ledger.bal[x] <= onyc.bal[x]
    PROVE  Risen(ledger) = 0
<1>1. "reserve" \in Earnings /\ "management_fee" \in Earnings /\ "performance_fee" \in Earnings
  BY DEF Earnings
<1>2. QED
  BY <1>1 DEF Risen, saturating_sub

\* What has been minted and what is pending stay within the budget.
BudgetInv ==
    /\ buffer.last_accrual_timestamp <= clock
    /\ budget \in Int /\ accrual_minted \in Nat
    /\ accrual_minted * Year + Pending <= budget

LEMMA BudgetInit == HistoryInit => BudgetInv
<1>1. SUFFICES ASSUME HistoryInit PROVE BudgetInv
  OBVIOUS
<1>2. Init /\ budget = Pending /\ accrual_minted = 0
  BY <1>1 DEF HistoryInit
<1>3. IInv
  BY <1>2, InitIInv
<1>4. buffer.last_accrual_timestamp <= clock
  BY <1>2, InitialAssumption DEF Init
<1>5. accrual_minted * Year + Pending = Pending
  BY <1>2, <1>3, YearNat, BudgetTyped
<1>6. QED
  BY <1>2, <1>3, <1>4, <1>5, BudgetTyped DEF BudgetInv

LEMMA BudgetNext ==
    ASSUME IInv, FreshBuffer, BudgetInv, HistoryNext
    PROVE  BudgetInv'
<1> DEFINE m     == accrual_minted
           d     == AccrualMint
           p     == Pending
           prev  == buffer.previous_supply
           gross == buffer.gross_apr
           last  == buffer.last_accrual_timestamp
<1>1. Classified /\ IInv'
  BY StepClassified, NextIInv DEF HistoryNext
<1>2. /\ m \in Nat /\ p \in Int /\ prev \in Nat /\ gross \in Nat /\ last \in Nat
      /\ clock \in Nat /\ budget \in Int /\ Year \in Nat \ {0}
  BY BudgetTyped, YearNat DEF BudgetInv
<1>3. /\ clock' \in Nat /\ prev' \in Nat /\ gross' \in Nat /\ last' \in Nat
  <2>1. buffer' \in BufferType /\ clock' \in Nat
    BY <1>1 DEF IInv, TypeOK
  <2>2. QED
    BY <2>1, U64Int, StateAssumption DEF BufferType
<1>4. /\ budget' = budget + prev * gross * (clock' - clock)
      /\ m' = m + d
      /\ m * Year + p <= budget /\ last <= clock
  BY DEF HistoryNext, Earned, BudgetInv
<1>5. /\ p = prev * gross * (clock - last)
      /\ Pending' = prev' * gross' * (clock' - last')
  BY DEF Pending
<1>6. /\ \A x \in Earnings : onyc.bal[x] \in Int /\ onyc'.bal[x] \in Int
  <2>1. onyc.bal \in [OnycAccounts -> U64] /\ onyc'.bal \in [OnycAccounts -> U64]
    BY <1>1 DEF IInv, TypeOK
  <2>2. QED
    BY <2>1, U64Int DEF Earnings, OnycAccounts
<1> HIDE DEF m, d, p, prev, gross, last
<1>7. ASSUME d = 0, buffer' = buffer, clock' >= clock
      PROVE  BudgetInv'
  <2>1. prev' = prev /\ gross' = gross /\ last' = last /\ m' = m
    BY <1>2, <1>4, <1>7 DEF prev, gross, last
  <2>2. Pending' = p + prev * gross * (clock' - clock)
    BY <1>2, <1>3, <1>5, <2>1
  <2> DEFINE e == prev * gross * (clock' - clock)
  <2>3. e \in Int /\ m * Year \in Int
    BY <1>2, <1>3
  <2> HIDE DEF e
  <2>4. budget' \in Int /\ m' * Year + Pending' <= budget'
    BY <1>2, <1>4, <2>1, <2>2, <2>3 DEF e
  <2>5. last' <= clock' /\ m' \in Nat
    BY <1>2, <1>3, <1>4, <1>7, <2>1
  <2>6. QED
    BY <2>4, <2>5 DEF BudgetInv, m, last
<1>8. ASSUME d \in Nat, d * Year <= p, clock' = clock,
             prev' = 0 \/ last' = clock, last' <= clock
      PROVE  BudgetInv'
  <2>1. Pending' = 0
    <3>1. clock' - last' \in Int /\ (prev' = 0 \/ clock' - last' = 0)
      BY <1>2, <1>3, <1>8 DEF last, prev
    <3>2. QED
      BY <1>3, <1>5, <3>1, NothingPending DEF last, prev, gross
  <2>2. m' * Year = m * Year + d * Year /\ m' \in Nat
    BY <1>2, <1>4, <1>8
  <2>3. m * Year \in Int /\ d * Year \in Int
    BY <1>2, <1>8
  <2>4. budget' = budget
    BY <1>2, <1>4, <1>8
  <2>5. m' * Year + Pending' <= budget' /\ budget' \in Int
    BY <1>2, <1>4, <1>8, <2>1, <2>2, <2>3, <2>4
  <2>6. last' <= clock'
    BY <1>8
  <2>7. QED
    BY <2>2, <2>5, <2>6 DEF BudgetInv, m, last
<1>9. CASE \E amount \in Inputs.reserve : deposit_reserve_vault(amount)
  <2>1. d = 0 /\ buffer' = buffer /\ clock' >= clock
    BY <1>2, <1>9 DEF d, AccrualMint, deposit_reserve_vault, move_reserve
  <2>2. QED
    BY <1>7, <2>1
<1>10. CASE /\ ~\E amount \in Inputs.reserve : deposit_reserve_vault(amount)
            /\ \E adjustment \in Inputs.adjustment : burn_for_nav_increase(adjustment)
  <2>1. PICK adjustment \in Inputs.adjustment : burn_for_nav_increase(adjustment)
    BY <1>10
  <2>2. can_accrue_buffer /\ clock' = clock
    BY <2>1 DEF burn_for_nav_increase
  <2>3. should_accrue_onyc_mint /\ accrual_succeeds /\ accrued = accrue_buffer
    BY <2>1, <2>2 DEF burn_for_nav_increase, should_accrue_onyc_mint, accrual_succeeds, accrued
  <2>4. d = Risen(accrue_buffer.onyc)
    BY <1>10 DEF d, AccrualMint
  <2>5. d \in Nat /\ d * Year <= p
    BY <2>2, <2>4, AccrualWithinPending DEF p
  <2>6. \E supply : buffer' = set_buffer_baseline(accrued.buffer, supply)
    BY <2>1, <2>3 DEF burn_for_nav_increase
  <2>7. last' = clock
    BY <2>3, <2>6, AccruedParts DEF set_buffer_baseline, BufferType, last
  <2>8. last' <= clock
    BY <1>2, <2>7
  <2>9. QED
    BY <1>8, <2>2, <2>5, <2>7, <2>8
<1>11. CASE /\ ~\E amount \in Inputs.reserve : deposit_reserve_vault(amount)
            /\ ~\E adjustment \in Inputs.adjustment : burn_for_nav_increase(adjustment)
  <2>1. d = Risen(onyc')
    BY <1>11 DEF d, AccrualMint
  <2>2. CASE Idle \/ Unaware
    <3>1. /\ \A x \in Earnings : onyc'.bal[x] <= onyc.bal[x]
          /\ buffer' = buffer /\ clock' >= clock
      BY <1>2, <1>6, <1>11, <2>2 DEF Idle, Unaware
    <3>2. d = 0
      BY <1>6, <2>1, <3>1, NothingRisen
    <3>3. QED
      BY <1>7, <3>1, <3>2
  <2>3. CASE initialize_buffer
    <3>1. /\ onyc' = onyc /\ clock' = clock /\ prev' = 0 /\ last' = clock
      BY <2>3 DEF initialize_buffer, NoBuffer, prev, last
    <3>2. prev = 0
      BY <2>3 DEF initialize_buffer, FreshBuffer, prev
    <3>3. \A x \in Earnings : onyc'.bal[x] <= onyc.bal[x]
      BY <1>6, <3>1
    <3>4. d = 0
      BY <1>6, <2>1, <3>3, NothingRisen
    <3>5. d \in Nat /\ d * Year <= p /\ last' <= clock
      BY <1>2, <1>3, <1>5, <3>1, <3>2, <3>4
    <3>6. QED
      BY <1>8, <3>1, <3>5
  <2>4. ASSUME NEW delta, Settled(delta)
        PROVE  BudgetInv'
    <3>1. /\ accrual_succeeds /\ clock' = clock
          /\ \A x \in Earnings : onyc'.bal[x] <= accrued.onyc.bal[x]
      BY <2>4 DEF Settled
    <3>2. CASE ~should_accrue_onyc_mint
      <4>1. buffer' = buffer /\ accrued.onyc = onyc
        BY <2>4, <3>2 DEF Settled, accrued
      <4>2. d = 0
        BY <1>6, <2>1, <3>1, <4>1, NothingRisen
      <4>3. QED
        BY <1>2, <1>7, <3>1, <4>1, <4>2
    <3>3. CASE should_accrue_onyc_mint
      <4>1. can_accrue_buffer /\ accrued = accrue_buffer
        BY <3>1, <3>3 DEF accrual_succeeds, accrued
      <4> DEFINE mint == Risen(accrue_buffer.onyc)
      <4>2. mint \in Nat /\ mint * Year <= p
        BY <4>1, AccrualWithinPending DEF p
      <4>3. \A x \in Earnings : accrued.onyc.bal[x] \in Int
        <5>1. IntLedger(accrued.onyc) /\ Earnings \subseteq OnycAccounts
          BY <3>1, AccruedAt DEF Earnings, OnycAccounts
        <5>2. QED
          BY <5>1, IntLedgerParts
      <4>4. d \in Nat /\ d <= mint
        BY <1>6, <2>1, <3>1, <4>1, <4>3, RisenAtMost
      <4> HIDE DEF mint
      <4>5. d * Year <= mint * Year /\ d * Year \in Int /\ mint * Year \in Int
        BY <1>2, <4>2, <4>4, ProductMonotone
      <4>6. d * Year <= p
        BY <1>2, <4>2, <4>5
      <4>7. last' = clock /\ last' <= clock
        BY <1>2, <2>4, <3>3 DEF Settled, last
      <4>8. QED
        BY <1>8, <3>1, <4>4, <4>6, <4>7
    <3>4. QED
      BY <3>2, <3>3
  <2>5. QED
    BY <1>1, <2>2, <2>3, <2>4 DEF Classified
<1>12. QED
  BY <1>9, <1>10, <1>11

\* Everything that accruals have ever minted is within the gross yield of the
\* time that has passed, each second counted once, whatever has become of it.
THEOREM AccrualAlwaysWithinBudget == HistorySpec => []AccrualWithinBudget
<1> DEFINE inv == IInv /\ FreshBuffer /\ BudgetInv
<1>1. HistoryInit => inv
  BY InitIInv, FreshInit, BudgetInit DEF HistoryInit
<1>2. inv /\ [HistoryNext]_historyVars => inv'
  <2>1. SUFFICES ASSUME inv, [HistoryNext]_historyVars
                 PROVE  inv'
    OBVIOUS
  <2>2. IInv' /\ FreshBuffer'
    BY <2>1, NextIInv, FreshNext DEF HistoryNext, historyVars
  <2>3. CASE HistoryNext
    BY <2>1, <2>2, <2>3, BudgetNext
  <2>4. CASE UNCHANGED historyVars
    BY <2>1, <2>2, <2>4 DEF historyVars, vars, BudgetInv, Pending, Year
  <2>5. QED
    BY <2>1, <2>3, <2>4
<1>3. inv => AccrualWithinBudget
  <2>1. SUFFICES ASSUME inv PROVE AccrualWithinBudget
    OBVIOUS
  <2> DEFINE m == accrual_minted
  <2>2. /\ m \in Nat /\ Pending \in Int /\ budget \in Int
        /\ m * Year + Pending <= budget
    BY <2>1, BudgetTyped DEF BudgetInv
  <2>3. Pending \in Nat
    <3>1. /\ buffer.previous_supply \in Nat /\ buffer.gross_apr \in Nat
          /\ clock - buffer.last_accrual_timestamp \in Nat
      BY <2>1, BudgetTyped DEF BudgetInv
    <3>2. QED
      BY <3>1, NatProduct DEF Pending
  <2>4. m * SECONDS_PER_YEAR * YIELD_SCALE = m * Year
    BY <2>2, ScaleAssumption DEF Year
  <2>5. m * Year \in Int
    BY <2>2, YearNat
  <2>6. m * SECONDS_PER_YEAR * YIELD_SCALE <= budget
    BY <2>2, <2>3, <2>4, <2>5
  <2>7. QED
    BY <2>6 DEF AccrualWithinBudget
<1>4. QED
  BY <1>1, <1>2, <1>3, PTL DEF HistorySpec

-----------------------------------------------------------------------------
(* The excluded balance.                                                   *)

\* The token accounts of ONyc are finitely many.
LEMMA FourFinite ==
    ASSUME NEW a, NEW b, NEW c, NEW d
    PROVE  IsFiniteSet({a, b, c, d})
<1>1. IsFiniteSet({a}) /\ IsFiniteSet({b}) /\ IsFiniteSet({c}) /\ IsFiniteSet({d})
  BY FS_Singleton
<1>2. IsFiniteSet({a} \union {b}) /\ IsFiniteSet({c} \union {d})
  BY <1>1, FS_Union
<1>3. IsFiniteSet(({a} \union {b}) \union ({c} \union {d}))
  BY <1>2, FS_Union
<1>4. {a, b, c, d} = ({a} \union {b}) \union ({c} \union {d})
  OBVIOUS
<1>5. QED
  BY <1>3, <1>4

LEMMA AccountsFinite == IsFiniteSet(OnycAccounts)
<1> DEFINE A == {"wallets", "permissionless", "offer_vault", "redemption_vault"}
           B == {"reserve", "offer_proceeds", "redemption_fee", "management_fee"}
           C == {"performance_fee", "prop_amm_proceeds", "prop_amm_sell_fee", "reserve"}
<1>1. IsFiniteSet(A) /\ IsFiniteSet(B) /\ IsFiniteSet(C)
  BY FourFinite
<1>2. OnycAccounts = A \union B \union C
  BY DEF OnycAccounts
<1> HIDE DEF A, B, C
<1>3. IsFiniteSet(A \union B)
  BY <1>1, FS_Union
<1>4. IsFiniteSet(A \union B \union C)
  BY <1>1, <1>3, FS_Union
<1>5. QED
  BY <1>2, <1>4

\* Some of the accounts hold no more than all of them.
LEMMA SomeHoldLess ==
    ASSUME NEW bal \in [OnycAccounts -> Nat], NEW S0, S0 \subseteq OnycAccounts
    PROVE  Total(bal, S0) \in Int /\ Total(bal, S0) <= TotalHeld(bal)
<1> DEFINE S1 == S0 \ {"wallets"}
           S2 == S1 \ {"permissionless"}
           S3 == S2 \ {"offer_vault"}
           S4 == S3 \ {"redemption_vault"}
           S5 == S4 \ {"reserve"}
           S6 == S5 \ {"offer_proceeds"}
           S7 == S6 \ {"redemption_fee"}
           S8 == S7 \ {"management_fee"}
           S9 == S8 \ {"performance_fee"}
           S10 == S9 \ {"prop_amm_proceeds"}
           S11 == S10 \ {"prop_amm_sell_fee"}
<1>1. IsFiniteSet(S0) /\ S11 = {}
  BY AccountsFinite, FS_Subset DEF OnycAccounts
<1>2. ASSUME NEW S, S \subseteq S0 PROVE IsFiniteSet(S) /\ Weighs(bal, S)
  BY <1>1, <1>2, FS_Subset DEF Weighs
<1>3. ASSUME NEW S, S \subseteq S0, NEW x \in OnycAccounts, Total(bal, S \ {x}) \in Int
      PROVE  Total(bal, S) \in Int /\ Total(bal, S) <= bal[x] + Total(bal, S \ {x})
  BY <1>2, <1>3, TotalPeel
<1>4. Total(bal, S11) = 0 /\ Total(bal, S11) \in Int
  BY <1>1, TotalEmpty
<1>5. Total(bal, S10) \in Int /\ Total(bal, S10) <= bal["prop_amm_sell_fee"] + Total(bal, S11)
  BY <1>3, <1>4 DEF OnycAccounts
<1>6. Total(bal, S9) \in Int /\ Total(bal, S9) <= bal["prop_amm_proceeds"] + Total(bal, S10)
  BY <1>3, <1>5 DEF OnycAccounts
<1>7. Total(bal, S8) \in Int /\ Total(bal, S8) <= bal["performance_fee"] + Total(bal, S9)
  BY <1>3, <1>6 DEF OnycAccounts
<1>8. Total(bal, S7) \in Int /\ Total(bal, S7) <= bal["management_fee"] + Total(bal, S8)
  BY <1>3, <1>7 DEF OnycAccounts
<1>9. Total(bal, S6) \in Int /\ Total(bal, S6) <= bal["redemption_fee"] + Total(bal, S7)
  BY <1>3, <1>8 DEF OnycAccounts
<1>10. Total(bal, S5) \in Int /\ Total(bal, S5) <= bal["offer_proceeds"] + Total(bal, S6)
  BY <1>3, <1>9 DEF OnycAccounts
<1>11. Total(bal, S4) \in Int /\ Total(bal, S4) <= bal["reserve"] + Total(bal, S5)
  BY <1>3, <1>10 DEF OnycAccounts
<1>12. Total(bal, S3) \in Int /\ Total(bal, S3) <= bal["redemption_vault"] + Total(bal, S4)
  BY <1>3, <1>11 DEF OnycAccounts
<1>13. Total(bal, S2) \in Int /\ Total(bal, S2) <= bal["offer_vault"] + Total(bal, S3)
  BY <1>3, <1>12 DEF OnycAccounts
<1>14. Total(bal, S1) \in Int /\ Total(bal, S1) <= bal["permissionless"] + Total(bal, S2)
  BY <1>3, <1>13 DEF OnycAccounts
<1>15. Total(bal, S0) \in Int /\ Total(bal, S0) <= bal["wallets"] + Total(bal, S1)
  BY <1>3, <1>14 DEF OnycAccounts
<1> HIDE DEF S1, S2, S3, S4, S5, S6, S7, S8, S9, S10, S11
<1>16. QED
  BY <1>4, <1>5, <1>6, <1>7, <1>8, <1>9, <1>10, <1>11, <1>12, <1>13, <1>14, <1>15 DEF TotalHeld, OnycAccounts

\* Only update_circulating_supply_excluded_balance changes the cached balance.
LEMMA ExcludedKept ==
    ASSUME IInv, [Next]_vars
    PROVE  excluded'.amount = excluded.amount \/ update_circulating_supply_excluded_balance
<1>1. excluded \in [owners : SUBSET OnycAccounts, amount : U64]
  BY DEF IInv, TypeOK
<1>2. ASSUME NEW owners, set_circulating_supply_excluded_accounts(owners)
      PROVE  excluded'.amount = excluded.amount
  BY <1>1, <1>2 DEF set_circulating_supply_excluded_accounts
<1>3. CASE RedemptionStep
  <2>1. ASSUME NEW r, NEW n, fulfill_redemption_request(r, n) PROVE UNCHANGED excluded
    BY <2>1 DEF fulfill_redemption_request
  <2>2. QED
    BY <1>3, <2>1, Zenon
    DEF RedemptionStep, create_redemption_request, cancel_redemption_request,
        make_redemption_offer, update_redemption_offer_fee,
        update_redemption_offer_prop_amm_sell_fee, update_redemption_offer_vault_target,
        set_redemption_offer_disabled
<1>4. CASE BufferStep
  BY <1>4, Zenon
  DEF BufferStep, initialize_buffer, settle_buffer, set_buffer_gross_apr,
      set_buffer_fee_config, accrue_and_refresh, burn_for_nav_increase,
      deposit_reserve_vault, withdraw_reserve_vault, move_reserve, mint_to
<1>5. CASE TakeStep
  <2>1. ASSUME NEW a, NEW n, NEW p, take_offer(a, n, p) PROVE UNCHANGED excluded
    BY <2>1 DEF take_offer
  <2>2. ASSUME NEW a, NEW n, NEW p, take_offer_v2(a, n, p) PROVE UNCHANGED excluded
    BY <2>2 DEF take_offer_v2
  <2>3. QED
    BY <1>5, <2>1, <2>2 DEF TakeStep
<1>6. CASE SwapStep
  <2>1. ASSUME NEW a, NEW c, configure_prop_amm(a, c) PROVE UNCHANGED excluded
    BY <2>1 DEF configure_prop_amm
  <2>2. ASSUME NEW a, NEW n, NEW m, open_swap_buy(a, n, m) PROVE UNCHANGED excluded
    BY <2>2 DEF open_swap_buy
  <2>3. ASSUME NEW a, NEW n, NEW m, open_swap_sell(a, n, m) PROVE UNCHANGED excluded
    BY <2>3 DEF open_swap_sell
  <2>4. QED
    BY <1>6, <2>1, <2>2, <2>3 DEF SwapStep
<1>7. CASE OfferStep
  BY <1>7, Zenon
  DEF OfferStep, make_offer, update_offer_fee, update_offer_permissionless_fee,
      set_offer_disabled, add_offer_vector, delete_offer_vector,
      delete_all_offer_vectors, only_offers_change
<1>8. CASE OperationStep
  BY <1>2, <1>8, Zenon
  DEF OperationStep, vault_deposit_onyc, vault_deposit_asset, vault_withdraw_onyc,
      vault_withdraw_asset, set_configurable_vault_destination,
      withdraw_configurable_vault_onyc, withdraw_configurable_vault_asset,
      refresh_market_stats, set_kill_switch, configure_max_supply,
      configure_max_mint_amount, set_main_offer, transfer_mint_authority_to_program,
      transfer_mint_authority_to_boss, transfer_mint_authority, tick, external_burn,
      external_mint, move_onyc, move_asset, only_state_changes
<1>9. CASE UNCHANGED vars
  BY <1>9 DEF vars
<1>10. QED
  BY <1>3, <1>4, <1>5, <1>6, <1>7, <1>8, <1>9 DEF Next

\* The excluded balance it computes is at most the supply.
LEMMA UpdatedBelowSupply ==
    ASSUME IInv, update_circulating_supply_excluded_balance
    PROVE  excluded'.amount <= onyc'.supply
<1> DEFINE bal    == onyc.bal
           owners == excluded.owners
<1>1. /\ bal \in [OnycAccounts -> U64] /\ owners \subseteq OnycAccounts
      /\ excluded \in [owners : SUBSET OnycAccounts, amount : U64]
      /\ onyc.supply = TotalHeld(bal)
  BY DEF IInv, TypeOK, SupplyIsBacked
<1>2. IsFiniteSet(owners)
  BY <1>1, AccountsFinite, FS_Subset
<1>3. /\ excluded'.amount = MapThenSumSet(LAMBDA x : bal[x], owners)
      /\ onyc' = onyc
  BY <1>1 DEF update_circulating_supply_excluded_balance
<1>4. bal \in [OnycAccounts -> Nat]
  BY <1>1, U64Int
<1> HIDE DEF bal, owners
<1>5. excluded'.amount = Total(bal, owners)
  BY <1>2, <1>3, SumIsTotal
<1>6. Total(bal, owners) <= TotalHeld(bal)
  BY <1>1, <1>4, SomeHoldLess
<1>7. QED
  BY <1>1, <1>3, <1>5, <1>6

\* Legacy takes and outside mints do not lower the supply.
LEMMA UnawareRaises ==
    ASSUME IInv, UnawareStep
    PROVE  onyc'.supply >= onyc.supply \/ \E amount \in Inputs.external : external_burn(amount)
<1>1. onyc.supply \in Int
  BY U64Int DEF IInv, TypeOK
<1>2. ASSUME NEW a \in Assets, NEW amount \in Inputs.legacy_take,
             NEW p \in Inputs.permissionless, take_offer(a, amount, p)
      PROVE  onyc'.supply >= onyc.supply
  <2> DEFINE result == process_offer_core(a, amount, offers[a].fee_basis_points)
             none   == 0
  <2>1. amount \in Nat /\ p \in BOOLEAN
    BY InputAssumption
  <2>2. Bought(a, amount, onyc, result, none, "wallets", "wallets")
    BY <1>2, <2>1, LegacyEffect
  <2> HIDE DEF result, none
  <2>3. result.out \in Nat /\ onyc'.supply = onyc.supply + Minted(result.out)
    BY <2>2 DEF Bought
  <2>4. QED
    BY <1>1, <2>3 DEF Minted
<1>3. ASSUME NEW amount \in Inputs.external, external_mint(amount)
      PROVE  onyc'.supply >= onyc.supply
  BY <1>1, <1>3, InputAssumption DEF external_mint, mint_tokens
<1>4. QED
  BY <1>2, <1>3 DEF UnawareStep

\* Only a holder's own burn can leave the cached excluded balance above the
\* supply: every step of the program that lowers the supply refreshes the
\* statistics, which fails if the balance would be above it.
THEOREM ExcludedOvertakenOutside == Spec => ExcludedBalanceOvertakenOnlyOutside
<1> DEFINE Burnt == \E amount \in Inputs.external : external_burn(amount)
<1>1. IInv /\ [Next]_vars =>
        [excluded.amount <= onyc.supply /\ excluded'.amount > onyc'.supply => Burnt]_vars
  <2>1. SUFFICES ASSUME IInv, [Next]_vars, excluded.amount <= onyc.supply, ~Burnt
                 PROVE  ~(excluded'.amount > onyc'.supply)
    OBVIOUS
  <2>2. /\ onyc.supply \in Int /\ onyc'.supply \in Int
        /\ excluded.amount \in Int /\ excluded'.amount \in Int
    <3>1. IInv'
      BY <2>1, NextIInv
    <3>2. /\ onyc.supply \in U64 /\ onyc'.supply \in U64
          /\ excluded.amount \in U64 /\ excluded'.amount \in U64
      BY <2>1, <3>1 DEF IInv, TypeOK
    <3>3. QED
      BY <3>2, U64Int
  <2>3. CASE update_circulating_supply_excluded_balance
    BY <2>1, <2>2, <2>3, UpdatedBelowSupply
  <2>4. CASE excluded'.amount = excluded.amount
    <3>1. CASE onyc'.supply >= onyc.supply
      BY <2>1, <2>2, <2>4, <3>1
    <3>2. ASSUME NEW delta, Settled(delta), onyc'.supply # onyc.supply
          PROVE  onyc'.supply >= excluded.amount
      <4>1. Fits(onyc'.supply - excluded.amount)
        BY <3>2 DEF Settled, can_refresh_market_stats, calculate_circulating_supply
      <4>2. QED
        BY <2>2, <4>1 DEF Fits, U64
    <3>3. Classified
      BY <2>1, StepClassified
    <3>4. Idle \/ initialize_buffer => onyc'.supply = onyc.supply
      BY DEF Idle, initialize_buffer
    <3>5. Unaware => onyc'.supply >= onyc.supply
      BY <2>1, UnawareRaises DEF Unaware
    <3>6. QED
      BY <2>2, <2>4, <3>1, <3>2, <3>3, <3>4, <3>5 DEF Classified
  <2>5. QED
    BY <2>1, <2>3, <2>4, ExcludedKept
<1>2. QED
  BY <1>1, InitIInv, NextIInv, PTL DEF Spec, ExcludedBalanceOvertakenOnlyOutside

-----------------------------------------------------------------------------
(* What the Prop AMM forgets.                                              *)

\* No epoch is longer than the longest.
LEMMA LongestIsLongest ==
    ASSUME NEW a \in Assets
    PROVE  /\ LongestEpoch \in Nat
           /\ Initial.prop_amm[a].config.epoch_duration_seconds <= LongestEpoch
           /\ \A c \in Inputs.prop_amm : c.epoch_duration_seconds <= LongestEpoch
<1> DEFINE C == Inputs.prop_amm \union {Initial.prop_amm[b].config : b \in Assets}
           N == {c.epoch_duration_seconds : c \in C}
<1>1. \A c \in C : c \in PairConfig
  BY InputAssumption, InitialAssumption DEF PairState
<1>2. \A n \in N : n \in U64
  BY <1>1 DEF PairConfig
<1>3. U64_MAX \in Nat /\ \A n \in N : n \in Nat /\ n <= U64_MAX
  BY <1>2, ScaleAssumption DEF U64
<1>4. Initial.prop_amm[a].config \in C /\ Inputs.prop_amm \subseteq C
  OBVIOUS
<1>5. /\ Initial.prop_amm[a].config.epoch_duration_seconds \in N
      /\ \A c \in Inputs.prop_amm : c.epoch_duration_seconds \in N
  BY <1>4
<1>6. LongestEpoch = Max(N)
  BY DEF LongestEpoch
<1> HIDE DEF N
<1>7. N \subseteq Nat /\ N # {}
  BY <1>3, <1>5
<1>8. Max(N) \in N /\ \A n \in N : n <= Max(N)
  BY <1>3, <1>7, GreatestExists
<1>9. QED
  BY <1>3, <1>5, <1>6, <1>8

\* What a tracker has recorded is not older than two epochs before its own.
Remembers(p, sold, longest) ==
    /\ p.config.epoch_duration_seconds <= longest
    /\ p.curr_sell_value_stable > 0 => p.epoch_start <= sold
    /\ p.prev_net_sell_value_stable > 0 => p.epoch_start <= sold + 2 * longest

LEMMA Forgotten ==
    ASSUME NEW p \in PairState, NEW now \in Nat, Ran(p, now), NEW sold \in Nat,
           NEW longest \in Nat, Remembers(p, sold, longest), now >= sold + 3 * longest
    PROVE  PairPressure(p, now) = 0
<1> DEFINE d    == p.config.epoch_duration_seconds
           s    == p.epoch_start
           net  == current_net(p)
           prev == p.prev_net_sell_value_stable
           curr == p.curr_sell_value_stable
<1>1. /\ d \in Nat /\ s \in Nat /\ net \in Nat /\ prev \in Nat /\ curr \in Nat
      /\ net <= curr /\ s <= now /\ d <= longest
      /\ curr > 0 => s <= sold
      /\ prev > 0 => s <= sold + 2 * longest
  BY TrackerTyped DEF Ran, Remembers
<1>2. CASE tracker_expired(p, now)
  BY <1>2, PressureCases
<1>3. CASE ~tracker_expired(p, now)
  <2>1. now - s < 2 * d
    BY <1>1, <1>3 DEF tracker_expired
  <2>2. curr = 0 /\ net = 0
    <3> HIDE DEF d, s, net, prev, curr
    <3>1. QED
      BY <1>1, <2>1
  <2>3. CASE epoch_over(p, now)
    BY <1>3, <2>2, <2>3, PressureCases
  <2>4. CASE ~epoch_over(p, now)
    <3>1. now - s < d
      BY <1>1, <2>4 DEF epoch_over
    <3>2. prev = 0
      <4> HIDE DEF d, s, net, prev, curr
      <4>1. QED
        BY <1>1, <3>1
    <3> DEFINE k == d - (now - s)
    <3>3. /\ d \in Nat \ {0} /\ k \in Nat
          /\ PairPressure(p, now) = (0 * k) \div d + 0
      BY <1>3, <2>2, <2>4, <3>2, PressureCases DEF Fresh
    <3> HIDE DEF d, k
    <3>4. (0 * k) \div d = 0
      BY <3>3
    <3>5. QED
      BY <3>3, <3>4
  <2>5. QED
    BY <2>3, <2>4
<1>4. QED
  BY <1>2, <1>3

LEMMA RollRemembers ==
    ASSUME NEW p \in PairState, NEW now \in Nat \ {0}, Ran(p, now), NEW sold \in Nat,
           NEW longest \in Nat, Remembers(p, sold, longest)
    PROVE  Remembers(roll_prop_amm_volume_tracker(p, now), sold, longest)
<1> DEFINE d    == p.config.epoch_duration_seconds
           s    == p.epoch_start
           net  == current_net(p)
           curr == p.curr_sell_value_stable
<1>1. /\ d \in Nat /\ s \in Nat /\ net \in Nat /\ curr \in Nat
      /\ net <= curr /\ d <= longest
      /\ curr > 0 => s <= sold
      /\ net \in U64 /\ 0 \in U64
  BY TrackerTyped, NetFits, U64Nat DEF Remembers
<1>2. CASE tracker_expired(p, now)
  <2> DEFINE q == Restarted(p, 0, now)
  <2>1. /\ q.prev_net_sell_value_stable = 0 /\ q.curr_sell_value_stable = 0
        /\ q.config = p.config
    BY <1>1, RestartedParts
  <2>2. roll_prop_amm_volume_tracker(p, now) = q
    BY <1>2, RollCases
  <2> HIDE DEF q
  <2>3. QED
    BY <1>1, <2>1, <2>2 DEF Remembers
<1>3. CASE ~tracker_expired(p, now) /\ epoch_over(p, now)
  <2>1. now - s < 2 * d
    BY <1>1, <1>3 DEF tracker_expired
  <2>2. net > 0 => now <= sold + 2 * longest
    <3> HIDE DEF d, s, net, curr
    <3>1. QED
      BY <1>1, <2>1
  <2> DEFINE q == Restarted(p, net, now)
  <2>3. /\ q.prev_net_sell_value_stable = net /\ q.curr_sell_value_stable = 0
        /\ q.config = p.config /\ q.epoch_start = now
    <3>1. net \in U64 /\ now \in Nat
      BY <1>1
    <3> HIDE DEF net
    <3>2. QED
      BY <3>1, RestartedParts
  <2>4. roll_prop_amm_volume_tracker(p, now) = q
    BY <1>3, RollCases
  <2> HIDE DEF q
  <2>5. QED
    BY <1>1, <2>2, <2>3, <2>4 DEF Remembers
<1>4. CASE Fresh(p, now)
  BY <1>4, RollCases
<1>5. QED
  BY <1>2, <1>3, <1>4 DEF Fresh

LEMMA BuyRemembers ==
    ASSUME NEW p \in PairState, NEW now \in Nat \ {0}, Ran(p, now), NEW sold \in Nat,
           NEW longest \in Nat, Remembers(p, sold, longest), NEW v \in Nat
    PROVE  Remembers(record_prop_amm_buy(p, v, now), sold, longest)
<1> DEFINE rolled == roll_prop_amm_volume_tracker(p, now)
<1>1. rolled \in PairState /\ Remembers(rolled, sold, longest)
  BY RollRan, RollRemembers
<1>2. record_prop_amm_buy(p, v, now) = [rolled EXCEPT !.curr_buy_value_stable = @ + v]
  BY DEF record_prop_amm_buy
<1> HIDE DEF rolled
<1>3. QED
  BY <1>1, <1>2 DEF Remembers, PairState

\* After a sell, all that is recorded is younger.
LEMMA SellRemembers ==
    ASSUME NEW p \in PairState, NEW now \in Nat \ {0}, Ran(p, now), NEW longest \in Nat,
           p.config.epoch_duration_seconds <= longest, NEW v \in Nat,
           can_record_sell(p, v, now)
    PROVE  Remembers(record_prop_amm_sell(p, v, now), now, longest)
<1> DEFINE q == record_prop_amm_sell(p, v, now)
<1>1. q \in PairState /\ q.config = p.config /\ q.epoch_start <= now
  BY SellPressure, RecordSellTyped DEF Ran
<1> HIDE DEF q
<1>2. q.epoch_start \in Nat
  BY <1>1, TrackerTyped
<1>3. Remembers(q, now, longest)
  BY <1>1, <1>2 DEF Remembers
<1>4. QED
  BY <1>3 DEF q

LEMMA LaterRemembers ==
    ASSUME NEW p \in PairState, NEW sold \in Nat, NEW later \in Nat, sold <= later,
           NEW longest \in Nat, Remembers(p, sold, longest)
    PROVE  Remembers(p, later, longest)
  BY TrackerTyped DEF Remembers

\* Every tracker remembers no more than that of its last sell.
MemoryInv ==
    \A a \in Assets :
        /\ last_sell[a] \in Nat /\ last_sell[a] <= clock
        /\ Remembers(prop_amm[a], last_sell[a], LongestEpoch)

LEMMA InitMemory == HistoryInit => MemoryInv
<1>1. SUFFICES ASSUME HistoryInit, NEW a \in Assets
               PROVE  /\ last_sell[a] \in Nat /\ last_sell[a] <= clock
                      /\ Remembers(prop_amm[a], last_sell[a], LongestEpoch)
  BY DEF MemoryInv
<1>2. /\ last_sell[a] = Initial.clock /\ clock = Initial.clock
      /\ prop_amm[a] = Initial.prop_amm[a]
  BY <1>1 DEF HistoryInit, Init
<1>3. /\ Initial.clock \in Nat /\ Initial.prop_amm[a] \in PairState
      /\ Initial.prop_amm[a].epoch_start <= Initial.clock
  BY InitialAssumption
<1>4. Initial.prop_amm[a].epoch_start \in Nat
  BY <1>3, TrackerTyped
<1>5. QED
  BY <1>2, <1>3, <1>4, LongestIsLongest DEF Remembers

LEMMA NextMemory ==
    ASSUME IInv, TrackerInv, MemoryInv, HistoryNext
    PROVE  MemoryInv'
<1>1. SUFFICES ASSUME NEW a \in Assets
               PROVE  /\ last_sell'[a] \in Nat /\ last_sell'[a] <= clock'
                      /\ Remembers(prop_amm'[a], last_sell'[a], LongestEpoch)
  BY DEF MemoryInv
<1> DEFINE p    == prop_amm[a]
           q    == prop_amm'[a]
           sold == last_sell[a]
           now  == last_sell'[a]
           long == LongestEpoch
<1>2. /\ p \in PairState /\ clock \in Nat \ {0} /\ Ran(p, clock)
      /\ sold \in Nat /\ sold <= clock /\ Remembers(p, sold, long)
      /\ p.config.epoch_duration_seconds <= long
  BY DEF IInv, TypeOK, TrackerInv, MemoryInv, Remembers
<1>3. PairStep(a) /\ q \in PairState
  BY EveryPairStep, NextIInv DEF HistoryNext, IInv, TypeOK
<1>4. long \in Nat /\ \A c \in Inputs.prop_amm : c.epoch_duration_seconds <= long
  BY LongestIsLongest
<1>5. now = IF q # p /\ Sold(a) THEN clock ELSE sold
  BY DEF HistoryNext
<1>6. now \in Nat /\ sold <= now /\ now <= clock
  BY <1>2, <1>5
<1> HIDE DEF p, q, sold, now, long
<1>7. CASE q = p /\ (clock' = clock \/ clock' = clock + 1)
  <2>1. now = sold /\ sold <= clock'
    BY <1>2, <1>5, <1>7
  <2>2. QED
    BY <1>2, <1>7, <2>1 DEF p, q, sold, now, long
<1>8. CASE PairTraded(a)
  <2>1. clock' = clock
    BY <1>8 DEF PairTraded
  <2>2. SUFFICES Remembers(q, now, long)
    BY <1>6, <2>1 DEF now, q, long
  <2>3. ASSUME NEW c \in Inputs.prop_amm, PairConfigured(a, c)
        PROVE  Remembers(q, now, long)
    <3>1. q = [p EXCEPT !.config = c, !.epoch_start = IF @ = 0 THEN clock ELSE @]
      BY <2>3 DEF PairConfigured, p, q
    <3>2. /\ q.config = c /\ q.curr_sell_value_stable = p.curr_sell_value_stable
          /\ q.prev_net_sell_value_stable = p.prev_net_sell_value_stable
          /\ p.epoch_start # 0 => q.epoch_start = p.epoch_start
      BY <1>2, <3>1 DEF PairState
    <3>3. Remembers(q, sold, long)
      <4>1. CASE p.epoch_start = 0
        <5>1. q.curr_sell_value_stable = 0 /\ q.prev_net_sell_value_stable = 0
          BY <1>2, <3>2, <4>1 DEF Ran
        <5>2. QED
          BY <1>4, <3>2, <5>1 DEF Remembers
      <4>2. CASE p.epoch_start # 0
        BY <1>2, <1>4, <3>2, <4>2 DEF Remembers
      <4>3. QED
        BY <4>1, <4>2
    <3>4. QED
      BY <1>2, <1>3, <1>4, <1>6, <3>3, LaterRemembers
  <2>4. ASSUME NEW v, PairBought(a, v)
        PROVE  Remembers(q, now, long)
    <3>1. v \in Nat /\ q = record_prop_amm_buy(p, v, clock)
      BY <2>4 DEF PairBought, p, q
    <3>2. Remembers(q, sold, long)
      BY <1>2, <1>4, <3>1, BuyRemembers
    <3>3. QED
      BY <1>2, <1>3, <1>4, <1>6, <3>2, LaterRemembers
  <2>5. ASSUME NEW v, PairSold(a, v)
        PROVE  Remembers(q, now, long)
    <3>1. v \in Nat /\ can_record_sell(p, v, clock) /\ q = record_prop_amm_sell(p, v, clock)
      BY <2>5 DEF PairSold, p, q
    <3>2. Sold(a)
      BY <2>5 DEF PairSold, Sold
    <3>3. CASE q = p
      BY <1>2, <1>3, <1>4, <1>6, <3>3, LaterRemembers
    <3>4. CASE q # p
      <4>1. now = clock
        BY <1>5, <3>2, <3>4
      <4>2. QED
        BY <1>2, <1>4, <3>1, <4>1, SellRemembers
    <3>5. QED
      BY <3>3, <3>4
  <2>6. QED
    BY <1>8, <2>3, <2>4, <2>5 DEF PairTraded
<1>9. QED
  BY <1>3, <1>7, <1>8 DEF PairStep, p, q

\* Three of the longest epochs after the last sell of a pair its pressure is
\* gone, however trades and configurations roll the tracker in between.
THEOREM PressureAlwaysForgotten == HistorySpec => []PressureIsForgotten
<1> DEFINE Inv == IInv /\ TrackerInv /\ MemoryInv
<1>1. HistoryInit => Inv
  BY InitIInv, InitTracker, InitMemory DEF HistoryInit
<1>2. Inv /\ [HistoryNext]_historyVars => Inv'
  <2>1. Inv /\ HistoryNext => Inv'
    <3>1. SUFFICES ASSUME Inv, HistoryNext PROVE Inv'
      OBVIOUS
    <3>2. IInv' /\ TrackerInv'
      BY <3>1, NextIInv, NextTracker DEF HistoryNext
    <3>3. QED
      BY <3>1, <3>2, NextMemory
  <2>2. Inv /\ UNCHANGED historyVars => Inv'
    <3>1. SUFFICES ASSUME Inv, UNCHANGED historyVars PROVE Inv'
      OBVIOUS
    <3>2. IInv' /\ TrackerInv'
      BY <3>1, NextIInv, NextTracker DEF historyVars
    <3>3. MemoryInv'
      BY <3>1 DEF MemoryInv, historyVars, vars
    <3>4. QED
      BY <3>2, <3>3
  <2>3. QED
    BY <2>1, <2>2
<1>3. Inv => PressureIsForgotten
  <2>1. SUFFICES ASSUME Inv, NEW a \in Assets, clock >= last_sell[a] + 3 * LongestEpoch
                 PROVE  PairPressure(prop_amm[a], clock) = 0
    BY DEF PressureIsForgotten, Pressure, PairPressure
  <2>2. /\ prop_amm[a] \in PairState /\ clock \in Nat /\ Ran(prop_amm[a], clock)
        /\ last_sell[a] \in Nat /\ Remembers(prop_amm[a], last_sell[a], LongestEpoch)
    BY <2>1 DEF IInv, TypeOK, TrackerInv, MemoryInv
  <2>3. LongestEpoch \in Nat
    BY LongestIsLongest
  <2>4. QED
    BY <2>1, <2>2, <2>3, Forgotten
<1>4. QED
  BY <1>1, <1>2, <1>3, PTL DEF HistorySpec
=============================================================================
