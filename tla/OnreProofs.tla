----------------------------- MODULE OnreProofs -----------------------------
(***************************************************************************)
(* TypeOK and SupplyIsBacked are invariants of Onre, for every set of      *)
(* assets, every input, every initial configuration and every scale.       *)
(***************************************************************************)
EXTENDS Onre, OnreMathProofs, WellFoundedInduction

-----------------------------------------------------------------------------
(* Ledgers.                                                                *)

\* The values of a u64 are naturals.
LEMMA U64Nat == U64 \subseteq Nat /\ 0 \in U64
  BY ScaleAssumption DEF U64

LEMMA U64Int ==
    ASSUME NEW n \in U64
    PROVE  n \in Nat /\ n \in Int
  BY ScaleAssumption DEF U64

\* What fits between 0 and a value that fits, fits.
LEMMA FitsBelow ==
    ASSUME NEW n \in Int, NEW m \in U64, 0 <= n, n <= m
    PROVE  n \in U64
  BY ScaleAssumption DEF U64

\* A ledger of u64s whose supply is what its accounts hold.
Ledger == [supply : U64, bal : [OnycAccounts -> U64]]
Backed(ledger) == ledger \in Ledger /\ ledger.supply = TotalHeld(ledger.bal)

\* Replacing one balance changes the sum by the difference.
LEMMA TotalHeldExcept ==
    ASSUME NEW bal \in [OnycAccounts -> Int], NEW x \in OnycAccounts, NEW v \in Int
    PROVE  TotalHeld([bal EXCEPT ![x] = v]) = TotalHeld(bal) - bal[x] + v
<1>1. /\ bal["wallets"] \in Int /\ bal["permissionless"] \in Int
      /\ bal["offer_vault"] \in Int /\ bal["redemption_vault"] \in Int
      /\ bal["reserve"] \in Int /\ bal["offer_proceeds"] \in Int
      /\ bal["redemption_fee"] \in Int /\ bal["management_fee"] \in Int
      /\ bal["performance_fee"] \in Int /\ bal["prop_amm_proceeds"] \in Int
      /\ bal["prop_amm_sell_fee"] \in Int
  BY DEF OnycAccounts
<1>2. CASE x = "wallets"
  BY <1>1, <1>2 DEF OnycAccounts, TotalHeld
<1>3. CASE x = "permissionless"
  BY <1>1, <1>3 DEF OnycAccounts, TotalHeld
<1>4. CASE x = "offer_vault"
  BY <1>1, <1>4 DEF OnycAccounts, TotalHeld
<1>5. CASE x = "redemption_vault"
  BY <1>1, <1>5 DEF OnycAccounts, TotalHeld
<1>6. CASE x = "reserve"
  BY <1>1, <1>6 DEF OnycAccounts, TotalHeld
<1>7. CASE x = "offer_proceeds"
  BY <1>1, <1>7 DEF OnycAccounts, TotalHeld
<1>8. CASE x = "redemption_fee"
  BY <1>1, <1>8 DEF OnycAccounts, TotalHeld
<1>9. CASE x = "management_fee"
  BY <1>1, <1>9 DEF OnycAccounts, TotalHeld
<1>10. CASE x = "performance_fee"
  BY <1>1, <1>10 DEF OnycAccounts, TotalHeld
<1>11. CASE x = "prop_amm_proceeds"
  BY <1>1, <1>11 DEF OnycAccounts, TotalHeld
<1>12. CASE x = "prop_amm_sell_fee"
  BY <1>1, <1>12 DEF OnycAccounts, TotalHeld
<1>13. QED
  BY <1>2, <1>3, <1>4, <1>5, <1>6, <1>7, <1>8, <1>9, <1>10, <1>11, <1>12
  DEF OnycAccounts

\* A sum of integers is one.
LEMMA TotalHeldInt ==
    ASSUME NEW bal \in [OnycAccounts -> Int]
    PROVE  TotalHeld(bal) \in Int
  BY DEF OnycAccounts, TotalHeld

\* A transfer keeps the sum.
LEMMA TransferKeepsTotal ==
    ASSUME NEW bal \in [OnycAccounts -> Int], NEW from \in OnycAccounts,
           NEW to \in OnycAccounts, NEW amount \in Int
    PROVE  /\ transfer_tokens(bal, from, to, amount) \in [OnycAccounts -> Int]
           /\ TotalHeld(transfer_tokens(bal, from, to, amount)) = TotalHeld(bal)
<1> DEFINE v1 == bal[from] - amount
           b1 == [bal EXCEPT ![from] = v1]
           v2 == b1[to] + amount
           b2 == [b1 EXCEPT ![to] = v2]
<1>1. bal[from] \in Int /\ v1 \in Int
  OBVIOUS
<1>2. b1 \in [OnycAccounts -> Int]
  BY <1>1
<1>3. TotalHeld(b1) = TotalHeld(bal) - bal[from] + v1
  <2> HIDE DEF v1
  <2>1. QED
    BY <1>1, TotalHeldExcept
<1>4. b1[to] \in Int /\ v2 \in Int
  <2> HIDE DEF b1
  <2>1. QED
    BY <1>2
<1>5. b2 \in [OnycAccounts -> Int] /\ TotalHeld(b2) = TotalHeld(b1) - b1[to] + v2
  <2> HIDE DEF b1, v2
  <2>1. QED
    BY <1>2, <1>4, TotalHeldExcept
<1>6. transfer_tokens(bal, from, to, amount) = b2
  BY DEF transfer_tokens
<1>7. TotalHeld(bal) \in Int /\ TotalHeld(b1) \in Int
  <2> HIDE DEF b1
  <2>1. QED
    BY <1>2, TotalHeldInt
<1> HIDE DEF b1, b2
<1>8. QED
  BY <1>1, <1>3, <1>4, <1>5, <1>6, <1>7

\* A transfer that succeeds keeps the types.
LEMMA TransferTyped ==
    ASSUME NEW S, NEW bal \in [S -> U64], NEW from \in S, NEW to \in S, NEW amount \in Nat,
           can_transfer(bal, from, to, amount)
    PROVE  transfer_tokens(bal, from, to, amount) \in [S -> U64]
<1> DEFINE v1 == bal[from] - amount
           b1 == [bal EXCEPT ![from] = v1]
           v2 == b1[to] + amount
<1>1. bal[from] \in Nat /\ bal[to] \in Nat /\ amount <= bal[from]
  <2>1. bal[from] \in U64 /\ bal[to] \in U64 /\ amount <= bal[from]
    BY DEF can_transfer
  <2>2. QED
    BY <2>1, U64Nat
<1>2. v1 \in U64
  <2>1. v1 \in Int /\ 0 <= v1 /\ v1 <= bal[from] /\ bal[from] \in U64
    BY <1>1
  <2>2. QED
    BY <2>1, FitsBelow
<1>3. b1 \in [S -> U64]
  <2> HIDE DEF v1
  <2>1. QED
    BY <1>2
<1>4. b1[to] = IF from = to THEN v1 ELSE bal[to]
  OBVIOUS
<1>5. v2 \in U64
  <2>1. CASE from = to
    <3>1. v2 = bal[to]
      BY <1>1, <1>4, <2>1
    <3>2. QED
      BY <3>1
  <2>2. CASE from # to
    BY <1>4, <2>2 DEF can_transfer, Fits
  <2>3. QED
    BY <2>1, <2>2
<1>6. [b1 EXCEPT ![to] = v2] \in [S -> U64]
  <2> HIDE DEF b1, v2
  <2>1. QED
    BY <1>3, <1>5
<1>7. QED
  BY <1>6 DEF transfer_tokens

\* Integer balances: u64 balances are some.
LEMMA BalancesInt ==
    ASSUME NEW S, NEW bal \in [S -> U64]
    PROVE  bal \in [S -> Int] /\ \A x \in S : bal[x] \in Nat /\ bal[x] \in Int
<1>1. \A x \in S : bal[x] \in U64
  OBVIOUS
<1>2. \A x \in S : bal[x] \in Nat /\ bal[x] \in Int
  BY <1>1, U64Int
<1>3. QED
  BY <1>2

\* A successful transfer keeps a ledger backed.
LEMMA TransferBacked ==
    ASSUME NEW ledger, Backed(ledger), NEW from \in OnycAccounts, NEW to \in OnycAccounts,
           NEW amount \in Nat, can_transfer(ledger.bal, from, to, amount)
    PROVE  Backed([ledger EXCEPT !.bal = transfer_tokens(@, from, to, amount)])
<1> DEFINE bal  == ledger.bal
           next == transfer_tokens(bal, from, to, amount)
<1>1. ledger.supply \in U64 /\ bal \in [OnycAccounts -> U64]
      /\ ledger.supply = TotalHeld(bal)
  BY DEF Backed, Ledger
<1>2. next \in [OnycAccounts -> U64]
  BY <1>1, TransferTyped
<1>3. TotalHeld(next) = TotalHeld(bal)
  BY <1>1, BalancesInt, TransferKeepsTotal
<1>4. [ledger EXCEPT !.bal = next] = [supply |-> ledger.supply, bal |-> next]
  BY DEF Backed, Ledger
<1> HIDE DEF next
<1>5. Backed([supply |-> ledger.supply, bal |-> next])
  BY <1>1, <1>2, <1>3 DEF Backed, Ledger
<1>6. QED
  BY <1>4, <1>5 DEF next

\* So does a mint whose results fit.
LEMMA MintBacked ==
    ASSUME NEW ledger, Backed(ledger), NEW to \in OnycAccounts, NEW amount \in Int,
           Fits(ledger.supply + amount), Fits(ledger.bal[to] + amount)
    PROVE  Backed(mint_tokens(ledger, to, amount))
<1> DEFINE bal  == ledger.bal
           v    == bal[to] + amount
           next == [bal EXCEPT ![to] = v]
<1>1. ledger.supply \in U64 /\ bal \in [OnycAccounts -> U64]
      /\ ledger.supply = TotalHeld(bal)
  BY DEF Backed, Ledger
<1>2. bal \in [OnycAccounts -> Int] /\ bal[to] \in Int /\ ledger.supply \in Int
  <2>1. ledger.supply \in Int
    BY <1>1, U64Int
  <2> HIDE DEF bal
  <2>2. QED
    BY <1>1, <2>1, BalancesInt
<1>3. v \in U64 /\ v \in Int
  BY <1>2 DEF Fits
<1>4. next \in [OnycAccounts -> U64]
  <2> HIDE DEF v
  <2>1. QED
    BY <1>1, <1>3
<1>5. TotalHeld(next) = TotalHeld(bal) - bal[to] + v
  <2> HIDE DEF v, bal
  <2>1. QED
    BY <1>2, <1>3, TotalHeldExcept
<1> HIDE DEF next
<1>6. TotalHeld(next) = ledger.supply + amount
  BY <1>1, <1>2, <1>5
<1>7. mint_tokens(ledger, to, amount) = [supply |-> ledger.supply + amount, bal |-> next]
  BY DEF mint_tokens, next
<1>8. QED
  BY <1>4, <1>6, <1>7 DEF Backed, Ledger, Fits

\* A burn that succeeds is a mint of the negative amount.
LEMMA BurnBacked ==
    ASSUME NEW ledger, Backed(ledger), NEW from \in OnycAccounts, NEW amount \in Nat,
           can_burn(ledger, from, amount)
    PROVE  Backed(burn_tokens(ledger, from, amount))
<1> DEFINE m == -amount
<1>1. ledger.supply \in U64 /\ ledger.bal \in [OnycAccounts -> U64]
  BY DEF Backed, Ledger
<1>2. ledger.supply \in Nat /\ ledger.bal[from] \in Nat /\ ledger.bal[from] \in U64
  BY <1>1, U64Nat
<1>3. amount <= ledger.supply /\ amount <= ledger.bal[from]
  BY DEF can_burn
<1>4. m \in Int /\ ledger.supply + m = ledger.supply - amount
      /\ ledger.bal[from] + m = ledger.bal[from] - amount
  BY <1>2
<1> HIDE DEF m
<1>5. ledger.supply + m \in U64 /\ ledger.bal[from] + m \in U64
  <2>1. \A n \in U64 : n \in Nat /\ amount <= n => n - amount \in U64
    <3>1. TAKE n \in U64
    <3>2. SUFFICES ASSUME n \in Nat, amount <= n PROVE n - amount \in U64
      OBVIOUS
    <3>3. n - amount \in Int /\ 0 <= n - amount /\ n - amount <= n
      BY <3>2
    <3>4. QED
      BY <3>3, FitsBelow
  <2>2. QED
    BY <1>1, <1>2, <1>3, <1>4, <2>1
<1>6. Backed(mint_tokens(ledger, from, m))
  BY <1>4, <1>5, MintBacked DEF Fits
<1>7. mint_tokens(ledger, from, m) = burn_tokens(ledger, from, amount)
  BY <1>4 DEF mint_tokens, burn_tokens
<1>8. QED
  BY <1>6, <1>7

-----------------------------------------------------------------------------
(* Prices.                                                                 *)

\* Of the vectors started at t there is a latest one.
LEMMA LatestStartsLast ==
    ASSUME NEW vectors \in SUBSET OfferVector, NEW t \in Int, started_at(vectors, t) # {}
    PROVE  /\ latest(started_at(vectors, t)) \in started_at(vectors, t)
           /\ \A w \in started_at(vectors, t) :
                 w.start_time <= latest(started_at(vectors, t)).start_time
<1> DEFINE S == started_at(vectors, t)
           T == {n \in Nat : \E v \in S : n = t - v.start_time}
<1>1. \A v \in S : v.start_time \in Int /\ t - v.start_time \in Nat
  BY DEF started_at, OfferVector
<1>2. T \subseteq Nat /\ T # {}
  BY <1>1
<1>3. \E x \in T : \A y \in T : ~ (<<y, x>> \in OpToRel(<, Nat))
  <2> HIDE DEF T
  <2>1. QED
    BY <1>2, NatLessThanWellFounded, WFMin
<1>4. PICK x \in T : \A y \in T : ~ (<<y, x>> \in OpToRel(<, Nat))
  BY <1>3
<1>5. \A y \in T : ~ (y < x)
  <2> HIDE DEF T
  <2>1. QED
    BY <1>2, <1>4 DEF OpToRel
<1>6. PICK v \in S : x = t - v.start_time
  BY <1>4
<1>7. \A w \in S : w.start_time <= v.start_time
  <2> HIDE DEF S
  <2>1. TAKE w \in S
  <2>2. ~ (t - w.start_time < t - v.start_time)
    BY <1>1, <1>5, <1>6
  <2>3. QED
    BY <1>1, <2>2
<1>8. QED
  BY <1>6, <1>7 DEF latest

LEMMA LatestStarted ==
    ASSUME NEW vectors \in SUBSET OfferVector, NEW t \in Int, started_at(vectors, t) # {}
    PROVE  latest(started_at(vectors, t)) \in started_at(vectors, t)
  BY LatestStartsLast

\* An offer that is priced has a u64 price.
LEMMA PriceFits ==
    ASSUME NEW vectors, NEW t, offer_priced_at(vectors, t)
    PROVE  compute_offer_current_price(vectors, t) \in U64
  BY DEF offer_priced_at, vector_priced_at, vector_price_returns,
         compute_offer_current_price, calculate_step_price_at, Fits

-----------------------------------------------------------------------------
(* BUFFER accrual and market statistics.                                   *)

\* The effect of an accrual whose parts fit and add up.
LEMMA AccrualOfBacked ==
    ASSUME TypeOK, SupplyIsBacked, NEW mint, NEW split,
           mint \in U64, split.reserve \in U64, split.mgmt \in U64, split.perf \in U64,
           split.hwm \in U64, split.reserve = mint - split.mgmt - split.perf,
           Fits(onyc.supply + mint),
           Fits(onyc.bal["reserve"] + split.reserve),
           Fits(onyc.bal["management_fee"] + split.mgmt),
           Fits(onyc.bal["performance_fee"] + split.perf)
    PROVE  /\ Backed(accrual_of(mint, split).onyc)
           /\ accrual_of(mint, split).buffer \in BufferType
           /\ accrual_of(mint, split).buffer.previous_supply
                  = accrual_of(mint, split).onyc.supply
<1> DEFINE r == split.reserve
           m == split.mgmt
           f == split.perf
           b0 == onyc.bal
<1>1. onyc \in Ledger /\ buffer \in BufferType /\ clock \in Nat
  BY DEF TypeOK, Ledger
<1>2. r \in Int /\ m \in Int /\ f \in Int /\ mint \in Int /\ r = mint - m - f
  BY U64Int
<1>3. accrual_of(mint, split).onyc \in Ledger
  BY <1>1 DEF accrual_of, Ledger, OnycAccounts, Fits
<1>4. TotalHeld(accrual_of(mint, split).onyc.bal) = onyc.supply + mint
  <2>1. /\ b0["wallets"] \in Int /\ b0["permissionless"] \in Int
        /\ b0["offer_vault"] \in Int /\ b0["redemption_vault"] \in Int
        /\ b0["reserve"] \in Int /\ b0["offer_proceeds"] \in Int
        /\ b0["redemption_fee"] \in Int /\ b0["management_fee"] \in Int
        /\ b0["performance_fee"] \in Int /\ b0["prop_amm_proceeds"] \in Int
        /\ b0["prop_amm_sell_fee"] \in Int
    <3>1. b0 \in [OnycAccounts -> U64]
      BY <1>1 DEF Ledger
    <3>2. QED
      BY <3>1, BalancesInt DEF OnycAccounts
  <2> DEFINE b4 == [onyc.bal EXCEPT !["reserve"] = @ + split.reserve,
                       !["management_fee"] = @ + split.mgmt,
                       !["performance_fee"] = @ + split.perf]
  <2>2. /\ b4["wallets"] = b0["wallets"] /\ b4["permissionless"] = b0["permissionless"]
        /\ b4["offer_vault"] = b0["offer_vault"]
        /\ b4["redemption_vault"] = b0["redemption_vault"]
        /\ b4["offer_proceeds"] = b0["offer_proceeds"]
        /\ b4["redemption_fee"] = b0["redemption_fee"]
        /\ b4["prop_amm_proceeds"] = b0["prop_amm_proceeds"]
        /\ b4["prop_amm_sell_fee"] = b0["prop_amm_sell_fee"]
        /\ b4["reserve"] = b0["reserve"] + r
        /\ b4["management_fee"] = b0["management_fee"] + m
        /\ b4["performance_fee"] = b0["performance_fee"] + f
    BY <1>1 DEF Ledger, OnycAccounts
  <2> HIDE DEF b4, b0, r, m, f
  <2>3. TotalHeld(b4) = TotalHeld(b0) + mint
    BY <1>2, <2>1, <2>2 DEF TotalHeld
  <2>4. accrual_of(mint, split).onyc.bal = b4
    BY DEF accrual_of, b4
  <2>5. TotalHeld(b0) = onyc.supply
    BY DEF SupplyIsBacked, b0
  <2>6. QED
    BY <2>3, <2>4, <2>5
<1>5. accrual_of(mint, split).buffer \in BufferType
  BY <1>1 DEF accrual_of, set_buffer_baseline, BufferType, Fits
<1>6. /\ accrual_of(mint, split).onyc.supply = onyc.supply + mint
      /\ accrual_of(mint, split).buffer.previous_supply = onyc.supply + mint
  BY <1>1 DEF accrual_of, set_buffer_baseline, BufferType
<1>7. QED
  BY <1>3, <1>4, <1>5, <1>6 DEF Backed

\* The accrual of a BUFFER instruction that succeeds.
LEMMA AccrualBacked ==
    ASSUME TypeOK, SupplyIsBacked, can_accrue_buffer
    PROVE  /\ Backed(accrue_buffer.onyc)
           /\ accrue_buffer.buffer \in BufferType
           /\ accrue_buffer.buffer.previous_supply = accrue_buffer.onyc.supply
<1>1. current_nav \in U64
  BY PriceFits DEF can_accrue_buffer, current_nav
<1>2. buffer \in BufferType /\ onyc \in Ledger
  BY DEF TypeOK, Ledger
<1>3. buffer.performance_fee_high_watermark \in U64
  BY <1>2 DEF BufferType
<1>4. CASE buffer.previous_supply = 0
  <2> DEFINE split == [reserve |-> 0, mgmt |-> 0, perf |-> 0, hwm |-> current_nav]
  <2>1. accrue_buffer = accrual_of(0, split)
    BY <1>4 DEF accrue_buffer
  <2>2. /\ split.reserve = 0 /\ split.mgmt = 0 /\ split.perf = 0
        /\ split.hwm = current_nav /\ 0 \in U64
    BY U64Nat
  <2> HIDE DEF split
  <2>3. /\ onyc.supply \in U64 /\ onyc.bal["reserve"] \in U64
        /\ onyc.bal["management_fee"] \in U64 /\ onyc.bal["performance_fee"] \in U64
    BY <1>2 DEF Ledger, OnycAccounts
  <2>4. /\ Fits(onyc.supply + 0) /\ Fits(onyc.bal["reserve"] + 0)
        /\ Fits(onyc.bal["management_fee"] + 0) /\ Fits(onyc.bal["performance_fee"] + 0)
    BY <2>3, U64Int DEF Fits
  <2>5. QED
    BY <1>1, <2>1, <2>2, <2>4, AccrualOfBacked
<1>5. CASE buffer.previous_supply # 0
  <2> DEFINE mint  == buffer_mint_amount
             split == fee_split(mint)
  <2>1. accrue_buffer = accrual_of(mint, split)
    BY <1>5 DEF accrue_buffer
  <2>2. can_mint_accrual(mint, split)
    BY <1>5 DEF can_accrue_buffer
  <2>3. split.reserve = mint - split.mgmt - split.perf
    BY DEF fee_split, calculate_buffer_fee_split
  <2>4. split.hwm = max_of(buffer.performance_fee_high_watermark, current_nav)
    BY DEF fee_split, calculate_buffer_fee_split
  <2> HIDE DEF mint, split
  <2>5. split.hwm \in U64
    BY <1>1, <1>3, <2>4 DEF max_of
  <2>6. QED
    BY <2>1, <2>2, <2>3, <2>5, AccrualOfBacked DEF can_mint_accrual, Fits
<1>6. QED
  BY <1>4, <1>5

\* The optional accrual of the other instructions.
LEMMA AccruedBacked ==
    ASSUME TypeOK, SupplyIsBacked, accrual_succeeds
    PROVE  /\ Backed(accrued.onyc)
           /\ accrued.buffer \in BufferType
<1>1. CASE should_accrue_onyc_mint
  BY <1>1, AccrualBacked DEF accrued, accrual_succeeds
<1>2. CASE ~should_accrue_onyc_mint
  BY <1>2 DEF accrued, TypeOK, SupplyIsBacked, Backed, Ledger
<1>3. QED
  BY <1>1, <1>2

\* The stored baseline is a u64.
LEMMA StoredTyped ==
    ASSUME TypeOK, NEW accrual, accrual.buffer \in BufferType, NEW delta,
           post_supply_fits(accrual, delta)
    PROVE  store_buffer_post_supply(accrual, delta) \in BufferType
<1>1. clock \in Nat
  BY DEF TypeOK
<1>2. CASE should_accrue_onyc_mint
  BY <1>1, <1>2 DEF store_buffer_post_supply, post_supply_fits, set_buffer_baseline,
     BufferType, Fits
<1>3. CASE ~should_accrue_onyc_mint
  BY <1>3 DEF store_buffer_post_supply
<1>4. QED
  BY <1>2, <1>3

\* Refreshed statistics are u64s.
LEMMA StatsTyped ==
    ASSUME NEW supply, can_refresh_market_stats(supply)
    PROVE  refreshed_market_stats(supply) \in
               [circulating_supply : U64, nav : U64, tvl : U64]
<1>1. current_nav \in U64
  BY PriceFits DEF can_refresh_market_stats, current_nav
<1>2. QED
  BY <1>1 DEF can_refresh_market_stats, refreshed_market_stats, Fits

-----------------------------------------------------------------------------
(* The instructions.                                                       *)

\* The inductive invariant.
IInv == TypeOK /\ SupplyIsBacked

\* The conjuncts of IInv, with the ledger as one.
LEMMA IInvBacked == IInv => Backed(onyc)
  BY DEF IInv, TypeOK, SupplyIsBacked, Backed, Ledger

\* Configuration of redemption offers.
LEMMA RedemptionConfigStep ==
    ASSUME IInv, NEW a \in Assets, NEW n \in Nat, NEW m \in Nat, NEW disabled \in BOOLEAN,
           \/ make_redemption_offer(a, n, m)
           \/ update_redemption_offer_fee(a, n)
           \/ update_redemption_offer_prop_amm_sell_fee(a, n)
           \/ update_redemption_offer_vault_target(a, n)
           \/ set_redemption_offer_disabled(a, disabled)
    PROVE  IInv'
<1>1. redemption_offers \in [Assets -> RedemptionOfferType] /\ MAX_REQUESTS \in Nat
  BY StateAssumption DEF IInv, TypeOK
<1>2. CASE make_redemption_offer(a, n, m)
  <2> DEFINE new == [NoRedemptionOffer EXCEPT !.made = TRUE, !.fee_basis_points = n,
                         !.fee_basis_points_prop_amm_sell = m]
  <2>1. /\ n \in 0..MAX_ALLOWED_FEE_BPS /\ m \in 0..MAX_ALLOWED_FEE_BPS
        /\ 0 \in 0..MAX_BASIS_POINTS /\ 0 \in 0..MAX_REQUESTS
    BY <1>2, ScaleAssumption, StateAssumption
    DEF make_redemption_offer, can_make_redemption_offer
  <2>2. new \in RedemptionOfferType
    BY <2>1 DEF NoRedemptionOffer, RedemptionOfferType
  <2> HIDE DEF new
  <2>3. redemption_offers' = [redemption_offers EXCEPT ![a] = new]
    BY <1>2 DEF make_redemption_offer, new
  <2>4. redemption_offers' \in [Assets -> RedemptionOfferType]
    BY <1>1, <2>2, <2>3
  <2>5. QED
    BY <1>2, <2>4 DEF make_redemption_offer, IInv, TypeOK, SupplyIsBacked
<1>3. CASE update_redemption_offer_fee(a, n)
  <2>1. redemption_offers' \in [Assets -> RedemptionOfferType]
    BY <1>1, <1>3, StateAssumption DEF update_redemption_offer_fee, RedemptionOfferType
  <2>2. QED
    BY <1>3, <2>1 DEF update_redemption_offer_fee, IInv, TypeOK, SupplyIsBacked
<1>4. CASE update_redemption_offer_vault_target(a, n)
  <2>1. redemption_offers' \in [Assets -> RedemptionOfferType]
    BY <1>1, <1>4, ScaleAssumption
    DEF update_redemption_offer_vault_target, RedemptionOfferType
  <2>2. QED
    BY <1>4, <2>1 DEF update_redemption_offer_vault_target, IInv, TypeOK, SupplyIsBacked
<1>5. CASE set_redemption_offer_disabled(a, disabled)
  <2>1. redemption_offers' \in [Assets -> RedemptionOfferType]
    BY <1>1, <1>5 DEF set_redemption_offer_disabled, RedemptionOfferType
  <2>2. QED
    BY <1>5, <2>1 DEF set_redemption_offer_disabled, IInv, TypeOK, SupplyIsBacked
<1>6. CASE update_redemption_offer_prop_amm_sell_fee(a, n)
  <2>1. redemption_offers' \in [Assets -> RedemptionOfferType]
    BY <1>1, <1>6, StateAssumption
    DEF update_redemption_offer_prop_amm_sell_fee, RedemptionOfferType
  <2>2. QED
    BY <1>6, <2>1
    DEF update_redemption_offer_prop_amm_sell_fee, IInv, TypeOK, SupplyIsBacked
<1>7. QED
  BY <1>2, <1>3, <1>4, <1>5, <1>6

\* A request and what is left of it.
LEMMA RequestRemaining ==
    ASSUME IInv, NEW r \in requests
    PROVE  /\ r.offer \in Assets /\ r.request_id \in Nat
           /\ r.amount \in Nat /\ r.fulfilled_amount \in Nat
           /\ r.amount \in U64 /\ r.fulfilled_amount \in U64
           /\ r.fulfilled_amount < r.amount
           /\ remaining(r) \in Nat /\ remaining(r) = r.amount - r.fulfilled_amount
           /\ r \in [offer : Assets, request_id : Nat, amount : U64, fulfilled_amount : U64]
<1>1. r \in RequestType
  BY DEF IInv, TypeOK
<1>2. r \in [offer : Assets, request_id : Nat, amount : U64, fulfilled_amount : U64]
      /\ r.fulfilled_amount < r.amount
  BY <1>1 DEF RequestType
<1>3. r.amount \in Nat /\ r.fulfilled_amount \in Nat
  BY <1>2, U64Int
<1>4. remaining(r) \in Nat /\ remaining(r) = r.amount - r.fulfilled_amount
  BY <1>2, <1>3 DEF remaining
<1>5. QED
  BY <1>2, <1>3, <1>4

\* A request that locks tokens.
LEMMA CreateStep ==
    ASSUME IInv, NEW a \in Assets, NEW amount \in Nat, create_redemption_request(a, amount)
    PROVE  IInv'
<1> DEFINE new == [offer |-> a, request_id |-> redemption_offers[a].request_counter,
                   amount |-> amount, fulfilled_amount |-> 0]
<1>1. /\ can_transfer(onyc.bal, "wallets", "redemption_vault", amount)
      /\ amount > 0 /\ redemption_offers[a].request_counter < MAX_REQUESTS
  BY DEF create_redemption_request
<1>2. Backed(onyc')
  <2>1. onyc' = [onyc EXCEPT
                    !.bal = transfer_tokens(@, "wallets", "redemption_vault", amount)]
    BY DEF create_redemption_request
  <2>2. Backed(onyc) /\ "wallets" \in OnycAccounts /\ "redemption_vault" \in OnycAccounts
    BY IInvBacked DEF OnycAccounts
  <2>3. QED
    BY <1>1, <2>1, <2>2, TransferBacked
<1>3. redemption_offers \in [Assets -> RedemptionOfferType]
  BY DEF IInv, TypeOK
<1>4. redemption_offers' \in [Assets -> RedemptionOfferType]
  BY <1>1, <1>3, StateAssumption DEF create_redemption_request, RedemptionOfferType
<1>5. amount \in U64
  <2>1. onyc.bal["wallets"] \in U64 /\ amount <= onyc.bal["wallets"]
    BY <1>1 DEF IInv, TypeOK, OnycAccounts, can_transfer
  <2>2. QED
    BY <2>1, FitsBelow
<1>6. redemption_offers[a].request_counter \in Nat
  BY <1>3, StateAssumption DEF RedemptionOfferType
<1>7. new \in RequestType
  BY <1>1, <1>5, <1>6, U64Nat DEF RequestType
<1>8. requests' = requests \union {new}
  BY DEF create_redemption_request
<1> HIDE DEF new
<1>9. requests' \subseteq RequestType
  BY <1>7, <1>8 DEF IInv, TypeOK
<1>10. QED
  BY <1>2, <1>4, <1>9
  DEF create_redemption_request, IInv, TypeOK, SupplyIsBacked, Backed, Ledger

\* A cancellation returns what is left of a request.
LEMMA CancelStep ==
    ASSUME IInv, NEW r \in requests, cancel_redemption_request(r)
    PROVE  IInv'
<1>1. r.offer \in Assets /\ remaining(r) \in Nat
  BY RequestRemaining
<1>2. /\ can_transfer(onyc.bal, "redemption_vault", "wallets", remaining(r))
      /\ remaining(r) <= redemption_offers[r.offer].requested_redemptions
  BY DEF cancel_redemption_request, can_cancel
<1>3. Backed(onyc')
  <2>1. onyc' = [onyc EXCEPT
                    !.bal = transfer_tokens(@, "redemption_vault", "wallets", remaining(r))]
    BY DEF cancel_redemption_request
  <2>2. Backed(onyc) /\ "wallets" \in OnycAccounts /\ "redemption_vault" \in OnycAccounts
    BY IInvBacked DEF OnycAccounts
  <2>3. QED
    BY <1>1, <1>2, <2>1, <2>2, TransferBacked
<1>4. redemption_offers \in [Assets -> RedemptionOfferType]
  BY DEF IInv, TypeOK
<1>5. redemption_offers' \in [Assets -> RedemptionOfferType]
  BY <1>1, <1>2, <1>4 DEF cancel_redemption_request, RedemptionOfferType
<1>6. requests' \subseteq RequestType
  BY DEF cancel_redemption_request, IInv, TypeOK
<1>7. QED
  BY <1>3, <1>5, <1>6
  DEF cancel_redemption_request, IInv, TypeOK, SupplyIsBacked, Backed, Ledger

\* The ONyc leg of a fulfilment or of a sell.
LEMMA TokenInBacked ==
    ASSUME NEW ledger, Backed(ledger), NEW net \in Nat, NEW fee \in Nat,
           NEW proceedsTo \in OnycAccounts, NEW feeTo \in OnycAccounts,
           proceedsTo # "redemption_vault", feeTo # "redemption_vault",
           proceedsTo # feeTo, can_take_token_in(ledger, net, proceedsTo, fee, feeTo)
    PROVE  Backed(take_token_in(ledger, net, proceedsTo, fee, feeTo))
<1> DEFINE paid == [ledger EXCEPT !.bal =
                       transfer_tokens(@, "redemption_vault", proceedsTo, net)]
           rest == IF program_controls_mint
                   THEN burn_tokens(ledger, "redemption_vault", net)
                   ELSE paid
<1>1. "redemption_vault" \in OnycAccounts
  BY DEF OnycAccounts
<1>2. ledger.bal \in [OnycAccounts -> U64] /\ ledger \in Ledger
  BY DEF Backed, Ledger
<1>3. /\ ledger.bal["redemption_vault"] \in Nat
      /\ net <= ledger.bal["redemption_vault"]
      /\ fee <= ledger.bal["redemption_vault"] - net
  BY <1>1, <1>2, BalancesInt DEF can_take_token_in
<1>4. CASE program_controls_mint
  <2>1. can_burn(ledger, "redemption_vault", net)
    BY <1>3, <1>4 DEF can_burn, can_take_token_in
  <2>2. Backed(rest)
    BY <1>1, <1>4, <2>1, BurnBacked
  <2>3. /\ rest.bal["redemption_vault"] = ledger.bal["redemption_vault"] - net
        /\ rest.bal[feeTo] = ledger.bal[feeTo]
    BY <1>1, <1>2, <1>4 DEF burn_tokens
  <2> HIDE DEF rest
  <2>4. can_transfer(rest.bal, "redemption_vault", feeTo, fee)
    BY <1>3, <2>3 DEF can_transfer, can_take_token_in
  <2>5. QED
    BY <1>1, <2>2, <2>4, TransferBacked DEF take_token_in, rest
<1>5. CASE ~program_controls_mint
  <2>1. can_transfer(ledger.bal, "redemption_vault", proceedsTo, net)
    BY <1>3, <1>5 DEF can_transfer, can_take_token_in
  <2>2. Backed(rest)
    BY <1>1, <1>5, <2>1, TransferBacked
  <2>3. /\ rest.bal["redemption_vault"] = ledger.bal["redemption_vault"] - net
        /\ rest.bal[feeTo] = ledger.bal[feeTo]
    BY <1>1, <1>2, <1>5 DEF transfer_tokens, Ledger
  <2> HIDE DEF rest
  <2>4. can_transfer(rest.bal, "redemption_vault", feeTo, fee)
    BY <1>3, <2>3 DEF can_transfer, can_take_token_in
  <2>5. QED
    BY <1>1, <2>2, <2>4, TransferBacked DEF take_token_in, rest
<1>6. QED
  BY <1>4, <1>5

\* What process_redemption_core computes, at a fee a redemption offer can have.
LEMMA RedemptionCore ==
    ASSUME NEW a, NEW amount \in Nat, NEW bps \in 0..MAX_ALLOWED_FEE_BPS,
           NEW minFee \in Nat, can_process_redemption(a, amount, bps, minFee)
    PROVE  /\ process_redemption_core(a, amount, bps, minFee).net \in Nat
           /\ process_redemption_core(a, amount, bps, minFee).fee \in Nat
           /\ process_redemption_core(a, amount, bps, minFee).out \in Nat
           /\ process_redemption_core(a, amount, bps, minFee).out \in U64
<1> DEFINE result == process_redemption_core(a, amount, bps, minFee)
           fees   == calculate_fees(amount, bps)
<1>1. result.net \in U64 /\ result.out \in U64
  BY DEF can_process_redemption, Fits
<1>2. fees.fee \in Nat
  <2>1. bps \in 0..MAX_BASIS_POINTS
    BY StateAssumption, ScaleAssumption
  <2>2. QED
    BY <2>1, FeesSplit
<1>3. result.fee = max_of(fees.fee, minFee)
  BY DEF process_redemption_core
<1> HIDE DEF result, fees
<1>4. result.fee \in Nat
  BY <1>2, <1>3 DEF max_of
<1>5. result.net \in Nat /\ result.out \in Nat
  BY <1>1, U64Int
<1>6. QED
  BY <1>1, <1>4, <1>5 DEF result

\* A fulfilment in full or in part.
LEMMA FulfillStep ==
    ASSUME IInv, NEW r \in requests, NEW amount \in Nat,
           fulfill_redemption_request(r, amount)
    PROVE  IInv'
<1> DEFINE ro      == redemption_offers[r.offer]
           result  == process_redemption_core(r.offer, amount, ro.fee_basis_points, 0)
           ledger  == take_token_in(accrued.onyc, result.net, "offer_proceeds",
                                    result.fee, "redemption_fee")
<1>1. /\ r.offer \in Assets /\ remaining(r) \in Nat
      /\ redemption_offers \in [Assets -> RedemptionOfferType]
      /\ asset \in [Assets -> [AssetAccounts -> U64]]
  BY RequestRemaining DEF IInv, TypeOK
<1>2. /\ amount > 0 /\ amount <= remaining(r) /\ amount <= ro.requested_redemptions
      /\ can_process_redemption(r.offer, amount, ro.fee_basis_points, 0)
      /\ accrual_succeeds
      /\ can_take_token_in(accrued.onyc, result.net, "offer_proceeds",
                           result.fee, "redemption_fee")
      /\ can_transfer(asset[r.offer], "redemption_vault", "wallets", result.out)
      /\ post_supply_fits(accrued, -result.net)
      /\ program_controls_mint => can_refresh_market_stats(ledger.supply)
  BY DEF fulfill_redemption_request
<1>3. /\ onyc' = ledger
      /\ asset' = [asset EXCEPT
             ![r.offer] = transfer_tokens(@, "redemption_vault", "wallets", result.out)]
      /\ buffer' = store_buffer_post_supply(accrued, -result.net)
      /\ market_stats' = IF program_controls_mint
                          THEN refreshed_market_stats(ledger.supply) ELSE market_stats
      /\ record_fulfillment(r, amount)
      /\ UNCHANGED <<clock, state, offers, mint_authority, excluded, destinations, prop_amm>>
  BY DEF fulfill_redemption_request
<1>4. result.net \in Nat /\ result.fee \in Nat /\ result.out \in Nat
  <2>1. ro.fee_basis_points \in 0..MAX_ALLOWED_FEE_BPS /\ 0 \in Nat
    BY <1>1 DEF RedemptionOfferType
  <2> HIDE DEF ro
  <2>2. QED
    BY <1>2, <2>1, RedemptionCore
<1> HIDE DEF result
<1>5. Backed(onyc')
  <2>1. "offer_proceeds" \in OnycAccounts /\ "redemption_fee" \in OnycAccounts
    BY DEF OnycAccounts
  <2>2. Backed(accrued.onyc)
    BY <1>2, AccruedBacked DEF IInv
  <2>3. QED
    BY <1>2, <1>3, <1>4, <2>1, <2>2, TokenInBacked
<1>6. asset' \in [Assets -> [AssetAccounts -> U64]]
  <2>1. transfer_tokens(asset[r.offer], "redemption_vault", "wallets", result.out)
            \in [AssetAccounts -> U64]
    <3>1. /\ asset[r.offer] \in [AssetAccounts -> U64]
          /\ "redemption_vault" \in AssetAccounts /\ "wallets" \in AssetAccounts
      BY <1>1 DEF AssetAccounts
    <3>2. QED
      BY <1>2, <1>4, <3>1, TransferTyped
  <2>2. QED
    BY <1>1, <1>3, <2>1
<1>7. buffer' \in BufferType
  BY <1>2, <1>3, AccruedBacked, StoredTyped DEF IInv
<1>8. market_stats' \in [circulating_supply : U64, nav : U64, tvl : U64]
  <2> HIDE DEF ledger
  <2>1. QED
    BY <1>2, <1>3, StatsTyped DEF IInv, TypeOK
<1>9. redemption_offers' \in [Assets -> RedemptionOfferType]
  BY <1>1, <1>2, <1>3 DEF record_fulfillment, RedemptionOfferType
<1>10. requests' \subseteq RequestType
  <2>1. CASE amount = remaining(r)
    BY <1>3, <2>1 DEF record_fulfillment, IInv, TypeOK
  <2>2. CASE amount # remaining(r)
    <3> DEFINE part == [r EXCEPT !.fulfilled_amount = @ + amount]
    <3>1. /\ r \in [offer : Assets, request_id : Nat, amount : U64,
                     fulfilled_amount : U64]
          /\ r.fulfilled_amount \in Nat /\ r.amount \in Nat /\ r.amount \in U64
          /\ remaining(r) = r.amount - r.fulfilled_amount
      BY RequestRemaining
    <3>2. r.fulfilled_amount + amount < r.amount /\ r.fulfilled_amount + amount \in Int
      BY <1>2, <2>2, <3>1
    <3>3. r.fulfilled_amount + amount \in U64
      <4> DEFINE n == r.fulfilled_amount + amount
      <4>1. n \in Int /\ 0 <= n /\ n <= r.amount
        BY <3>1, <3>2
      <4> HIDE DEF n
      <4>2. n \in U64
        BY <3>1, <4>1, FitsBelow
      <4>3. QED
        BY <4>2 DEF n
    <3>4. part \in RequestType
      BY <3>1, <3>2, <3>3 DEF RequestType
    <3>5. requests' = (requests \ {r}) \union {part}
      BY <1>3, <2>2 DEF record_fulfillment
    <3> HIDE DEF part
    <3>6. QED
      BY <3>4, <3>5 DEF IInv, TypeOK
  <2>3. QED
    BY <2>1, <2>2
<1>11. QED
  BY <1>3, <1>5, <1>6, <1>7, <1>8, <1>9, <1>10
  DEF IInv, TypeOK, SupplyIsBacked, Backed, Ledger

\* Creating BUFFER.
LEMMA InitializeBufferStep ==
    ASSUME IInv, initialize_buffer
    PROVE  IInv'
<1>1. clock \in Nat /\ 0 \in U64
  BY U64Nat DEF IInv, TypeOK
<1>2. 0 \in 0..MAX_BUFFER_GROSS_APR /\ 0 \in 0..MAX_BASIS_POINTS
  BY ScaleAssumption, StateAssumption
<1>3. buffer' \in BufferType
  BY <1>1, <1>2 DEF initialize_buffer, NoBuffer, BufferType
<1>4. QED
  BY <1>3 DEF initialize_buffer, IInv, TypeOK, SupplyIsBacked

\* Settling BUFFER, alone or before its APR or fees change.
LEMMA SettleStep ==
    ASSUME IInv, NEW apr \in Nat, NEW mgmt \in Nat, NEW perf \in Nat,
           NEW hwmEnabled \in BOOLEAN,
           \/ settle_buffer
           \/ set_buffer_gross_apr(apr)
           \/ set_buffer_fee_config(mgmt, perf, hwmEnabled)
    PROVE  IInv'
<1>1. accrue_and_refresh(accrue_buffer)
  BY DEF settle_buffer, set_buffer_gross_apr, set_buffer_fee_config
<1>2. Backed(accrue_buffer.onyc) /\ accrue_buffer.buffer \in BufferType
  BY <1>1, AccrualBacked DEF accrue_and_refresh, IInv
<1>3. buffer' \in BufferType
  <2>1. CASE settle_buffer
    BY <1>2, <2>1 DEF settle_buffer
  <2>2. CASE set_buffer_gross_apr(apr)
    <3>1. apr \in 0..MAX_BUFFER_GROSS_APR
          /\ buffer' = [accrue_buffer.buffer EXCEPT !.gross_apr = apr]
      BY <2>2, StateAssumption DEF set_buffer_gross_apr
    <3>2. QED
      BY <1>2, <3>1 DEF BufferType
  <2>3. CASE set_buffer_fee_config(mgmt, perf, hwmEnabled)
    <3>1. mgmt \in 0..MAX_BASIS_POINTS /\ perf \in 0..MAX_BASIS_POINTS
      BY <2>3, ScaleAssumption DEF set_buffer_fee_config
    <3>2. buffer' = [accrue_buffer.buffer EXCEPT
                       !.management_fee_basis_points = mgmt,
                       !.performance_fee_basis_points = perf,
                       !.performance_fee_high_watermark_enabled = hwmEnabled]
      BY <2>3 DEF set_buffer_fee_config
    <3>3. QED
      BY <1>2, <3>1, <3>2 DEF BufferType
  <2>4. QED
    BY <2>1, <2>2, <2>3
<1>4. Backed(onyc')
  BY <1>1, <1>2 DEF accrue_and_refresh
<1>5. market_stats' \in [circulating_supply : U64, nav : U64, tvl : U64]
  BY <1>1, StatsTyped DEF accrue_and_refresh
<1>6. QED
  BY <1>1, <1>3, <1>4, <1>5
  DEF accrue_and_refresh, IInv, TypeOK, SupplyIsBacked, Backed, Ledger

\* A burn of reserve tokens.
LEMMA BurnStep ==
    ASSUME IInv, NEW adjustment \in Nat, burn_for_nav_increase(adjustment)
    PROVE  IInv'
<1> DEFINE accrual     == accrue_buffer
           circulating == calculate_circulating_supply(accrual.onyc.supply, excluded.amount)
           tvl         == calculate_tvl(circulating, current_nav)
           target      == ceil_div_u128((tvl - adjustment) * PRICE_SCALE, current_nav)
           burn        == calculate_burn_amount(circulating, tvl, adjustment, current_nav)
           ledger      == burn_tokens(accrual.onyc, "reserve", burn)
<1>1. /\ can_accrue_buffer /\ current_nav > 0 /\ Fits(circulating) /\ Fits(tvl)
      /\ burn > 0 /\ can_burn(accrual.onyc, "reserve", burn)
      /\ can_refresh_market_stats(ledger.supply)
  BY DEF burn_for_nav_increase
<1>2. /\ onyc' = ledger
      /\ buffer' = set_buffer_baseline(accrual.buffer,
                                       accrual.buffer.previous_supply - burn)
      /\ market_stats' = refreshed_market_stats(ledger.supply)
      /\ UNCHANGED <<clock, state, offers, redemption_offers, requests,
                     mint_authority, asset, excluded, destinations, prop_amm>>
  BY DEF burn_for_nav_increase
<1>3. /\ Backed(accrual.onyc) /\ accrual.buffer \in BufferType
      /\ accrual.buffer.previous_supply = accrual.onyc.supply
  BY <1>1, AccrualBacked DEF IInv
<1>4. current_nav \in Nat \ {0}
  <2>1. current_nav \in U64
    BY <1>1, PriceFits DEF can_accrue_buffer, current_nav
  <2>2. QED
    BY <1>1, <2>1, U64Int
<1> HIDE DEF accrual
<1>5. circulating \in Int /\ tvl \in Int
  BY <1>1, U64Int DEF Fits
<1>6. burn \in Nat
  <2> HIDE DEF circulating, tvl
  <2>1. (tvl - adjustment) * PRICE_SCALE \in Int
    BY <1>5, ScaleAssumption
  <2>2. target \in Int
    BY <1>4, <2>1, CeilDiv
  <2>3. burn = circulating - target
    BY DEF calculate_burn_amount
  <2> HIDE DEF burn, target
  <2>4. QED
    BY <1>1, <1>5, <2>2, <2>3
<1> HIDE DEF burn
<1>7. Backed(ledger)
  <2>1. "reserve" \in OnycAccounts
    BY DEF OnycAccounts
  <2>2. QED
    BY <1>1, <1>3, <1>6, <2>1, BurnBacked
<1>8. ledger.supply = accrual.onyc.supply - burn
  BY DEF burn_tokens
<1> HIDE DEF ledger
<1>9. buffer' \in BufferType
  <2>1. accrual.buffer.previous_supply - burn \in U64
    BY <1>3, <1>7, <1>8 DEF Backed, Ledger
  <2>2. clock \in Nat
    BY DEF IInv, TypeOK
  <2>3. QED
    BY <1>2, <1>3, <2>1, <2>2 DEF set_buffer_baseline, BufferType
<1>10. market_stats' \in [circulating_supply : U64, nav : U64, tvl : U64]
  BY <1>1, <1>2, StatsTyped
<1>11. QED
  BY <1>2, <1>7, <1>9, <1>10 DEF IInv, TypeOK, SupplyIsBacked, Backed, Ledger

\* mint_to
LEMMA MintToStep ==
    ASSUME IInv, NEW amount \in Nat, mint_to(amount)
    PROVE  IInv'
<1> DEFINE ledger == mint_tokens(accrued.onyc, "wallets", amount)
<1>1. /\ accrual_succeeds /\ can_mint(accrued.onyc, "wallets", amount)
      /\ post_supply_fits(accrued, amount)
      /\ can_refresh_market_stats(ledger.supply)
      /\ onyc' = ledger
      /\ buffer' = store_buffer_post_supply(accrued, amount)
      /\ market_stats' = refreshed_market_stats(ledger.supply)
      /\ UNCHANGED <<clock, state, offers, redemption_offers, requests,
                     mint_authority, asset, excluded, destinations, prop_amm>>
  BY DEF mint_to
<1>2. Backed(accrued.onyc) /\ accrued.buffer \in BufferType
  BY <1>1, AccruedBacked DEF IInv
<1>3. Backed(ledger)
  <2>1. "wallets" \in OnycAccounts /\ amount \in Int
    BY DEF OnycAccounts
  <2>2. QED
    BY <1>1, <1>2, <2>1, MintBacked DEF can_mint
<1> HIDE DEF ledger
<1>4. buffer' \in BufferType
  BY <1>1, <1>2, StoredTyped DEF IInv
<1>5. market_stats' \in [circulating_supply : U64, nav : U64, tvl : U64]
  BY <1>1, StatsTyped
<1>6. QED
  BY <1>1, <1>3, <1>4, <1>5 DEF IInv, TypeOK, SupplyIsBacked, Backed, Ledger

\* A transfer that is all an instruction does, of ONyc or of an asset.
LEMMA MoveOnycStep ==
    ASSUME IInv, NEW from \in OnycAccounts, NEW to \in OnycAccounts, NEW amount \in Nat,
           move_reserve(from, to, amount) \/ move_onyc(from, to, amount)
    PROVE  IInv'
<1>1. /\ can_transfer(onyc.bal, from, to, amount)
      /\ onyc' = [onyc EXCEPT !.bal = transfer_tokens(@, from, to, amount)]
      /\ UNCHANGED <<clock, state, offers, redemption_offers, requests,
                     mint_authority, asset, buffer, excluded, market_stats,
                     destinations, prop_amm>>
  BY DEF move_reserve, move_onyc
<1>2. Backed(onyc')
  BY <1>1, IInvBacked, TransferBacked
<1>3. QED
  BY <1>1, <1>2 DEF IInv, TypeOK, SupplyIsBacked, Backed, Ledger

LEMMA MoveAssetStep ==
    ASSUME IInv, NEW a \in Assets, NEW from \in AssetAccounts, NEW to \in AssetAccounts,
           NEW amount \in Nat, move_asset(a, from, to, amount)
    PROVE  IInv'
<1>1. asset \in [Assets -> [AssetAccounts -> U64]]
  BY DEF IInv, TypeOK
<1>2. transfer_tokens(asset[a], from, to, amount) \in [AssetAccounts -> U64]
  <2>1. asset[a] \in [AssetAccounts -> U64] /\ can_transfer(asset[a], from, to, amount)
    BY <1>1 DEF move_asset
  <2>2. QED
    BY <2>1, TransferTyped
<1>3. asset' \in [Assets -> [AssetAccounts -> U64]]
  BY <1>1, <1>2 DEF move_asset
<1>4. QED
  BY <1>3 DEF move_asset, IInv, TypeOK, SupplyIsBacked

-----------------------------------------------------------------------------
(* The takes.                                                              *)

\* Transfers of integers between integer balances.
LEMMA TransferInt ==
    ASSUME NEW S, NEW bal \in [S -> Int], NEW from \in S, NEW to \in S, NEW amount \in Int
    PROVE  transfer_tokens(bal, from, to, amount) \in [S -> Int]
<1> DEFINE b1 == [bal EXCEPT ![from] = bal[from] - amount]
<1>1. b1 \in [S -> Int]
  OBVIOUS
<1>2. transfer_tokens(bal, from, to, amount) = [b1 EXCEPT ![to] = b1[to] + amount]
  BY DEF transfer_tokens
<1> HIDE DEF b1
<1>3. QED
  BY <1>1, <1>2

\* A take leaves u64 balances of the asset.
LEMMA TakeAssetTyped ==
    ASSUME IInv, NEW a \in Assets, NEW amount \in Nat, NEW permissionless \in BOOLEAN,
           NEW refill \in Int, NEW proceedsTo \in AssetAccounts, NEW proceeds \in Int,
           NEW feeTo \in AssetAccounts, NEW fee \in Int, NEW paid,
           paid = token_in_ledger(a, amount, permissionless, refill,
                                  proceedsTo, proceeds, feeTo, fee),
           \A x \in AssetAccounts : Fits(paid[x]),
           asset' = [asset EXCEPT ![a] = paid]
    PROVE  asset' \in [Assets -> [AssetAccounts -> U64]]
<1> DEFINE via == intermediary(permissionless)
           b0  == asset[a]
           b1  == transfer_tokens(b0, "wallets", via, amount)
           b2  == transfer_tokens(b1, via, "redemption_vault", refill)
           b3  == transfer_tokens(b2, via, proceedsTo, proceeds)
           b4  == transfer_tokens(b3, via, feeTo, fee)
<1>1. /\ via \in AssetAccounts /\ "wallets" \in AssetAccounts
      /\ "redemption_vault" \in AssetAccounts
  BY DEF AssetAccounts, intermediary
<1>2. b0 \in [AssetAccounts -> Int]
  <2>1. b0 \in [AssetAccounts -> U64]
    BY DEF IInv, TypeOK
  <2> HIDE DEF b0
  <2>2. QED
    BY <2>1, BalancesInt
<1>3. paid = b4
  BY DEF token_in_ledger, pay_token_in
<1> HIDE DEF via, b0
<1>4. b1 \in [AssetAccounts -> Int]
  BY <1>1, <1>2, TransferInt
<1> HIDE DEF b1
<1>5. b2 \in [AssetAccounts -> Int]
  BY <1>1, <1>4, TransferInt
<1> HIDE DEF b2
<1>6. b3 \in [AssetAccounts -> Int]
  BY <1>1, <1>5, TransferInt
<1> HIDE DEF b3
<1>7. b4 \in [AssetAccounts -> Int]
  BY <1>1, <1>6, TransferInt
<1> HIDE DEF b4
<1>8. paid \in [AssetAccounts -> U64]
  <2>1. \A x \in AssetAccounts : paid[x] \in U64
    BY DEF Fits
  <2>2. QED
    BY <1>3, <1>7, <2>1
<1>9. asset \in [Assets -> [AssetAccounts -> U64]]
  BY DEF IInv, TypeOK
<1>10. QED
  BY <1>8, <1>9

\* A take leaves a backed ledger of ONyc: the mint or the vault pays the
\* intermediary, which forwards the tokens.
LEMMA TakeOnycBacked ==
    ASSUME NEW ledger, Backed(ledger), NEW permissionless \in BOOLEAN, NEW out \in Nat,
           can_pay_token_out(ledger, intermediary(permissionless), out),
           \A x \in OnycAccounts : Fits(token_out_ledger(ledger, permissionless, out).bal[x])
    PROVE  Backed(token_out_ledger(ledger, permissionless, out))
<1> DEFINE via  == intermediary(permissionless)
           paid == pay_token_out(ledger, via, out)
           last == transfer_tokens(paid.bal, via, "wallets", out)
<1>1. /\ via \in OnycAccounts /\ "wallets" \in OnycAccounts
      /\ "offer_vault" \in OnycAccounts
  BY DEF OnycAccounts, intermediary
<1>2. token_out_ledger(ledger, permissionless, out) = [paid EXCEPT !.bal = last]
  BY DEF token_out_ledger
<1>3. can_pay_token_out(ledger, via, out)
  OBVIOUS
<1> HIDE DEF via
<1>4. Backed(paid)
  <2>1. CASE program_controls_mint
    BY <1>1, <1>3, <2>1, MintBacked DEF pay_token_out, can_pay_token_out, can_mint
  <2>2. CASE ~program_controls_mint
    BY <1>1, <1>3, <2>2, TransferBacked DEF pay_token_out, can_pay_token_out
  <2>3. QED
    BY <2>1, <2>2
<1> HIDE DEF paid
<1>5. paid.bal \in [OnycAccounts -> Int]
  <2> DEFINE b == paid.bal
  <2>1. b \in [OnycAccounts -> U64]
    BY <1>4 DEF Backed, Ledger
  <2> HIDE DEF b
  <2>2. b \in [OnycAccounts -> Int]
    BY <2>1, BalancesInt
  <2>3. QED
    BY <2>2 DEF b
<1>6. last \in [OnycAccounts -> Int] /\ TotalHeld(last) = TotalHeld(paid.bal)
  <2> DEFINE b == paid.bal
  <2>1. b \in [OnycAccounts -> Int] /\ out \in Int
    BY <1>5
  <2> HIDE DEF b
  <2>2. /\ transfer_tokens(b, via, "wallets", out) \in [OnycAccounts -> Int]
        /\ TotalHeld(transfer_tokens(b, via, "wallets", out)) = TotalHeld(b)
    BY <1>1, <2>1, TransferKeepsTotal
  <2>3. QED
    BY <2>2 DEF b
<1> HIDE DEF last
<1>7. [paid EXCEPT !.bal = last] = [supply |-> paid.supply, bal |-> last]
  BY <1>4 DEF Backed, Ledger
<1>8. last \in [OnycAccounts -> U64]
  <2>1. \A x \in OnycAccounts : last[x] \in U64
    BY <1>2, <1>7 DEF Fits
  <2>2. QED
    BY <1>6, <2>1
<1>9. Backed([supply |-> paid.supply, bal |-> last])
  BY <1>4, <1>6, <1>8 DEF Backed, Ledger
<1>10. QED
  BY <1>2, <1>7, <1>9

\* What process_offer_core computes, at a fee an offer can have.
LEMMA OfferCore ==
    ASSUME NEW a \in Assets, NEW amount \in Nat, NEW bps \in 0..MAX_ALLOWED_FEE_BPS,
           can_process_offer(a, amount, bps)
    PROVE  /\ process_offer_core(a, amount, bps).net \in Nat
           /\ process_offer_core(a, amount, bps).fee \in Nat
           /\ process_offer_core(a, amount, bps).out \in Nat
<1>1. bps \in 0..MAX_BASIS_POINTS
  BY StateAssumption, ScaleAssumption
<1>2. Fits(process_offer_core(a, amount, bps).out)
  BY DEF can_process_offer
<1>3. process_offer_core(a, amount, bps).out \in Nat
  BY <1>2, U64Int DEF Fits
<1>4. QED
  BY <1>1, <1>3, FeesSplit DEF process_offer_core

\* take_offer and take_offer_permissionless
LEMMA LegacyTakeStep ==
    ASSUME IInv, NEW a \in Assets, NEW amount \in Nat, NEW permissionless \in BOOLEAN,
           take_offer(a, amount, permissionless)
    PROVE  IInv'
<1> DEFINE fee    == offers[a].fee_basis_points
           result == process_offer_core(a, amount, fee)
           paid   == token_in_ledger(a, amount, permissionless, 0,
                         "wallets", result.net, "wallets", result.fee)
<1>1. /\ can_process_offer(a, amount, fee)
      /\ can_move_tokens(paid, a, amount, onyc, permissionless, result.out)
      /\ asset' = [asset EXCEPT ![a] = paid]
      /\ onyc' = token_out_ledger(onyc, permissionless, result.out)
      /\ UNCHANGED <<clock, state, offers, redemption_offers, requests,
                     mint_authority, buffer, excluded, market_stats, destinations,
                     prop_amm>>
  BY DEF take_offer
<1>2. fee \in 0..MAX_ALLOWED_FEE_BPS
  BY DEF IInv, TypeOK, OfferType
<1>3. result.net \in Nat /\ result.fee \in Nat /\ result.out \in Nat
  BY <1>1, <1>2, OfferCore
<1> HIDE DEF result
<1>4. Backed(onyc')
  BY <1>1, <1>3, IInvBacked, TakeOnycBacked DEF can_move_tokens
<1>5. asset' \in [Assets -> [AssetAccounts -> U64]]
  <2>1. "wallets" \in AssetAccounts /\ 0 \in Int /\ result.net \in Int /\ result.fee \in Int
    BY <1>3 DEF AssetAccounts
  <2>2. paid = token_in_ledger(a, amount, permissionless, 0,
                   "wallets", result.net, "wallets", result.fee)
    OBVIOUS
  <2> HIDE DEF paid
  <2>3. QED
    BY <1>1, <2>1, <2>2, TakeAssetTyped DEF can_move_tokens
<1>6. QED
  BY <1>1, <1>4, <1>5 DEF IInv, TypeOK, SupplyIsBacked, Backed, Ledger

\* The refill is an integer.
LEMMA RefillInt ==
    ASSUME NEW tvl \in Nat, NEW bps \in Nat, NEW balance \in Nat, NEW net \in Nat
    PROVE  calculate_redemption_vault_refill_amount(tvl, bps, balance, net) \in Int
<1> DEFINE share  == (tvl * bps) \div MAX_BASIS_POINTS
           target == (share * ASSET_UNIT) \div ONYC_UNIT
<1>1. tvl * bps \in Nat
  BY NatProduct
<1>2. share \in Nat
  BY <1>1, ScaleAssumption, QuotientNat
<1> HIDE DEF share
<1>3. share * ASSET_UNIT \in Nat
  BY <1>2, ScaleAssumption, NatProduct
<1>4. target \in Nat
  BY <1>3, ScaleAssumption, QuotientNat
<1>5. calculate_redemption_vault_refill_amount(tvl, bps, balance, net)
        = IF bps = 0 THEN 0 ELSE min_of(saturating_sub(target, balance), net)
  BY DEF calculate_redemption_vault_refill_amount, share
<1> HIDE DEF target
<1>6. QED
  BY <1>4, <1>5 DEF min_of, saturating_sub

\* So is the refill of a take or of a buy.
LEMMA RefillTyped ==
    ASSUME IInv, NEW a \in Assets, NEW net \in Nat
    PROVE  calculate_redemption_vault_refill_amount(market_stats.tvl,
               redemption_vault_target_bps(a), asset[a]["redemption_vault"], net) \in Int
<1>1. market_stats.tvl \in Nat
  <2>1. market_stats.tvl \in U64
    BY DEF IInv, TypeOK
  <2>2. QED
    BY <2>1, U64Int
<1>2. redemption_vault_target_bps(a) \in Nat
  <2>1. redemption_offers[a].vault_target_bps \in Nat
    BY ScaleAssumption DEF IInv, TypeOK, RedemptionOfferType
  <2>2. QED
    BY <2>1 DEF redemption_vault_target_bps
<1>3. asset[a]["redemption_vault"] \in Nat
  <2>1. asset[a]["redemption_vault"] \in U64
    BY DEF IInv, TypeOK, AssetAccounts
  <2>2. QED
    BY <2>1, U64Int
<1>4. QED
  BY <1>1, <1>2, <1>3, RefillInt

\* take_offer_v2 and take_offer_permissionless_v2
LEMMA TakeV2Step ==
    ASSUME IInv, NEW a \in Assets, NEW amount \in Nat, NEW permissionless \in BOOLEAN,
           take_offer_v2(a, amount, permissionless)
    PROVE  IInv'
<1> DEFINE fee    == IF permissionless THEN offers[a].fee_basis_points_permissionless
                     ELSE offers[a].fee_basis_points
           feeTo  == IF permissionless THEN "permissionless_offer_fee" ELSE "offer_fee"
           result == process_offer_core(a, amount, fee)
           refill == calculate_redemption_vault_refill_amount(market_stats.tvl,
                         redemption_vault_target_bps(a),
                         asset[a]["redemption_vault"], result.net)
           paid   == token_in_ledger(a, amount, permissionless, refill,
                         "offer_proceeds", result.net - refill, feeTo, result.fee)
           ledger == token_out_ledger(accrued.onyc, permissionless, result.out)
<1>1. /\ can_process_offer(a, amount, fee)
      /\ accrual_succeeds
      /\ can_move_tokens(paid, a, amount, accrued.onyc, permissionless, result.out)
      /\ post_supply_fits(accrued, result.out)
      /\ can_refresh_market_stats(ledger.supply)
      /\ asset' = [asset EXCEPT ![a] = paid]
      /\ onyc' = ledger
      /\ buffer' = store_buffer_post_supply(accrued, result.out)
      /\ market_stats' = refreshed_market_stats(ledger.supply)
      /\ UNCHANGED <<clock, state, offers, redemption_offers, requests,
                     mint_authority, excluded, destinations, prop_amm>>
  BY DEF take_offer_v2
<1>2. fee \in 0..MAX_ALLOWED_FEE_BPS
  BY DEF IInv, TypeOK, OfferType
<1>3. result.net \in Nat /\ result.fee \in Nat /\ result.out \in Nat
  BY <1>1, <1>2, OfferCore
<1> HIDE DEF result
<1>4. Backed(accrued.onyc) /\ accrued.buffer \in BufferType
  BY <1>1, AccruedBacked DEF IInv
<1>5. Backed(onyc')
  BY <1>1, <1>3, <1>4, TakeOnycBacked DEF can_move_tokens
<1>6. refill \in Int
  BY <1>3, RefillTyped
<1> HIDE DEF refill
<1>7. asset' \in [Assets -> [AssetAccounts -> U64]]
  <2>1. /\ "offer_proceeds" \in AssetAccounts /\ feeTo \in AssetAccounts
        /\ result.net - refill \in Int /\ result.fee \in Int
    BY <1>3, <1>6 DEF AssetAccounts
  <2>2. paid = token_in_ledger(a, amount, permissionless, refill,
                   "offer_proceeds", result.net - refill, feeTo, result.fee)
    OBVIOUS
  <2> HIDE DEF paid, feeTo
  <2>3. QED
    BY <1>1, <1>6, <2>1, <2>2, TakeAssetTyped DEF can_move_tokens
<1> HIDE DEF ledger
<1>8. buffer' \in BufferType
  BY <1>1, <1>4, StoredTyped DEF IInv
<1>9. market_stats' \in [circulating_supply : U64, nav : U64, tvl : U64]
  BY <1>1, StatsTyped
<1>10. QED
  BY <1>1, <1>5, <1>7, <1>8, <1>9 DEF IInv, TypeOK, SupplyIsBacked, Backed, Ledger

-----------------------------------------------------------------------------
(* The Prop AMM.                                                           *)

\* A roll of the tracker leaves a tracker.
LEMMA RollTyped ==
    ASSUME NEW p \in PairState, NEW now \in Nat
    PROVE  roll_prop_amm_volume_tracker(p, now) \in PairState
<1> DEFINE restarted(prev) ==
               [p EXCEPT !.prev_net_sell_value_stable = prev,
                         !.curr_sell_value_stable = 0, !.curr_buy_value_stable = 0,
                         !.curr_sell_trade_count = 0, !.epoch_start = now]
<1>1. 0 \in U64 /\ 0 \in 0..U32_MAX
  BY U64Nat, CurveAssumption
<1>2. \A prev \in U64 : restarted(prev) \in PairState
  BY <1>1 DEF PairState
<1>3. current_net(p) \in U64
  <2>1. p.curr_sell_value_stable \in U64 /\ p.curr_buy_value_stable \in U64
    BY DEF PairState
  <2> DEFINE s == p.curr_sell_value_stable
             b == p.curr_buy_value_stable
  <2>2. s \in Nat /\ b \in Nat
    BY <2>1, U64Int
  <2>3. current_net(p) = saturating_sub(s, b)
    BY DEF current_net
  <2> HIDE DEF s, b
  <2>4. current_net(p) \in Int /\ 0 <= current_net(p) /\ current_net(p) <= s
    BY <2>2, <2>3 DEF saturating_sub
  <2>5. s \in U64
    BY <2>1 DEF s
  <2>6. QED
    BY <2>4, <2>5, FitsBelow
<1>4. \/ roll_prop_amm_volume_tracker(p, now) = restarted(0)
      \/ roll_prop_amm_volume_tracker(p, now) = restarted(current_net(p))
      \/ roll_prop_amm_volume_tracker(p, now) = p
  BY DEF roll_prop_amm_volume_tracker
<1> HIDE DEF restarted
<1>5. QED
  BY <1>1, <1>2, <1>3, <1>4

\* So do the records of a sell and of a buy that fit.
LEMMA RecordSellTyped ==
    ASSUME NEW p \in PairState, NEW value \in Nat, NEW now \in Nat,
           can_record_sell(p, value, now)
    PROVE  record_prop_amm_sell(p, value, now) \in PairState
<1> DEFINE rolled == roll_prop_amm_volume_tracker(p, now)
<1>1. rolled \in PairState
  BY RollTyped
<1>2. rolled.curr_sell_value_stable + value \in U64 /\ rolled.curr_sell_trade_count < U32_MAX
  BY DEF can_record_sell, Fits
<1>3. record_prop_amm_sell(p, value, now)
        = [rolled EXCEPT !.curr_sell_value_stable = @ + value, !.curr_sell_trade_count = @ + 1]
  BY DEF record_prop_amm_sell
<1> HIDE DEF rolled
<1>4. rolled.curr_sell_trade_count + 1 \in 0..U32_MAX
  BY <1>1, <1>2, CurveAssumption DEF PairState
<1>5. QED
  BY <1>1, <1>2, <1>3, <1>4 DEF PairState

LEMMA RecordBuyTyped ==
    ASSUME NEW p \in PairState, NEW value \in Nat, NEW now \in Nat,
           can_record_buy(p, value, now)
    PROVE  record_prop_amm_buy(p, value, now) \in PairState
<1> DEFINE rolled == roll_prop_amm_volume_tracker(p, now)
<1>1. rolled \in PairState
  BY RollTyped
<1>2. rolled.curr_buy_value_stable + value \in U64
  BY DEF can_record_buy, Fits
<1>3. record_prop_amm_buy(p, value, now) = [rolled EXCEPT !.curr_buy_value_stable = @ + value]
  BY DEF record_prop_amm_buy
<1> HIDE DEF rolled
<1>4. QED
  BY <1>1, <1>2, <1>3 DEF PairState

\* configure_prop_amm
LEMMA ConfigurePairStep ==
    ASSUME IInv, NEW a \in Assets, NEW c \in PairConfig, configure_prop_amm(a, c)
    PROVE  IInv'
<1>1. prop_amm \in [Assets -> PairState] /\ clock \in Nat
  BY DEF IInv, TypeOK
<1>2. prop_amm' \in [Assets -> PairState]
  BY <1>1 DEF configure_prop_amm, PairState
<1>3. QED
  BY <1>2 DEF configure_prop_amm, IInv, TypeOK, SupplyIsBacked

\* open_swap_buy
LEMMA SwapBuyStep ==
    ASSUME IInv, NEW a \in Assets, NEW amount \in Nat, NEW minimumOut \in Nat,
           open_swap_buy(a, amount, minimumOut)
    PROVE  IInv'
<1> DEFINE fee    == offers[a].fee_basis_points_permissionless
           result == process_offer_core(a, amount, fee)
           refill == calculate_redemption_vault_refill_amount(market_stats.tvl,
                         redemption_vault_target_bps(a),
                         asset[a]["redemption_vault"], result.net)
           paid   == token_in_ledger(a, amount, TRUE, refill, "prop_amm_proceeds",
                         result.net - refill, "prop_amm_buy_fee", result.fee)
           ledger == swap_buy_ledger(accrued.onyc, result.out)
<1>1. /\ can_process_offer(a, amount, fee)
      /\ accrual_succeeds
      /\ \A x \in AssetAccounts : Fits(paid[x])
      /\ can_record_buy(prop_amm[a], result.net, clock)
      /\ can_swap_buy_out(accrued.onyc, result.out)
      /\ post_supply_fits(accrued, result.out)
      /\ can_refresh_market_stats(ledger.supply)
      /\ asset' = [asset EXCEPT ![a] = paid]
      /\ prop_amm' = [prop_amm EXCEPT ![a] = record_prop_amm_buy(@, result.net, clock)]
      /\ onyc' = ledger
      /\ buffer' = store_buffer_post_supply(accrued, result.out)
      /\ market_stats' = refreshed_market_stats(ledger.supply)
      /\ UNCHANGED <<clock, state, offers, redemption_offers, requests,
                     mint_authority, excluded, destinations>>
  BY DEF open_swap_buy
<1>2. fee \in 0..MAX_ALLOWED_FEE_BPS
  BY DEF IInv, TypeOK, OfferType
<1>3. result.net \in Nat /\ result.fee \in Nat /\ result.out \in Nat
  BY <1>1, <1>2, OfferCore
<1> HIDE DEF result
<1>4. Backed(accrued.onyc) /\ accrued.buffer \in BufferType
  BY <1>1, AccruedBacked DEF IInv
<1>5. Backed(onyc')
  <2>1. CASE program_controls_mint
    <3>1. "wallets" \in OnycAccounts /\ result.out \in Int
      BY <1>3 DEF OnycAccounts
    <3>2. QED
      BY <1>1, <1>4, <2>1, <3>1, MintBacked DEF swap_buy_ledger, can_swap_buy_out, can_mint
  <2>2. CASE ~program_controls_mint
    <3>1. can_pay_token_out(accrued.onyc, intermediary(TRUE), result.out)
      BY <1>1, <2>2 DEF can_swap_buy_out, can_pay_token_out, intermediary
    <3>2. QED
      BY <1>1, <1>3, <1>4, <2>2, <3>1, TakeOnycBacked DEF swap_buy_ledger, can_swap_buy_out
  <2>3. QED
    BY <2>1, <2>2
<1>6. refill \in Int
  BY <1>3, RefillTyped
<1> HIDE DEF refill
<1>7. asset' \in [Assets -> [AssetAccounts -> U64]]
  <2>1. /\ "prop_amm_proceeds" \in AssetAccounts /\ "prop_amm_buy_fee" \in AssetAccounts
        /\ result.net - refill \in Int /\ result.fee \in Int
    BY <1>3, <1>6 DEF AssetAccounts
  <2>2. paid = token_in_ledger(a, amount, TRUE, refill, "prop_amm_proceeds",
                   result.net - refill, "prop_amm_buy_fee", result.fee)
    OBVIOUS
  <2> HIDE DEF paid
  <2>3. QED
    BY <1>1, <1>6, <2>1, <2>2, TakeAssetTyped
<1>8. prop_amm' \in [Assets -> PairState]
  <2>1. prop_amm \in [Assets -> PairState] /\ clock \in Nat
    BY DEF IInv, TypeOK
  <2>2. record_prop_amm_buy(prop_amm[a], result.net, clock) \in PairState
    BY <1>1, <1>3, <2>1, RecordBuyTyped
  <2>3. QED
    BY <1>1, <2>1, <2>2
<1> HIDE DEF ledger
<1>9. buffer' \in BufferType
  BY <1>1, <1>4, StoredTyped DEF IInv
<1>10. market_stats' \in [circulating_supply : U64, nav : U64, tvl : U64]
  BY <1>1, StatsTyped
<1>11. QED
  BY <1>1, <1>5, <1>7, <1>8, <1>9, <1>10 DEF IInv, TypeOK, SupplyIsBacked, Backed, Ledger

\* open_swap_sell
LEMMA SwapSellStep ==
    ASSUME IInv, NEW a \in Assets, NEW amount \in Nat, NEW minimumOut \in Nat,
           open_swap_sell(a, amount, minimumOut)
    PROVE  IInv'
<1> DEFINE tvl      == refreshed_market_stats(onyc.supply).tvl
           result   == sell_result(a, amount)
           out      == sell_output(a, amount, tvl)
           received == onyc_received(accrued.onyc, amount)
           ledger   == take_token_in(received, result.net, "prop_amm_proceeds",
                                     result.fee, "prop_amm_sell_fee")
           seen     == IF program_controls_mint THEN ledger.supply ELSE onyc.supply
<1>1. /\ can_refresh_market_stats(onyc.supply)
      /\ can_price_sell(a, amount, tvl)
      /\ accrual_succeeds
      /\ can_record_sell(prop_amm[a], result.out, clock)
      /\ can_transfer(accrued.onyc.bal, "wallets", "redemption_vault", amount)
      /\ can_take_token_in(received, result.net, "prop_amm_proceeds",
                           result.fee, "prop_amm_sell_fee")
      /\ can_transfer(asset[a], "redemption_vault", "wallets", out)
      /\ post_supply_fits(accrued, -result.net)
      /\ program_controls_mint => can_refresh_market_stats(ledger.supply)
      /\ prop_amm' = [prop_amm EXCEPT ![a] = record_prop_amm_sell(@, result.out, clock)]
      /\ onyc' = ledger
      /\ asset' = [asset EXCEPT
             ![a] = transfer_tokens(@, "redemption_vault", "wallets", out)]
      /\ buffer' = store_buffer_post_supply(accrued, -result.net)
      /\ market_stats' = refreshed_market_stats(seen)
      /\ UNCHANGED <<clock, state, offers, redemption_offers, requests,
                     mint_authority, excluded, destinations>>
  BY DEF open_swap_sell
<1>2. result.net \in Nat /\ result.fee \in Nat /\ result.out \in Nat
  <2>1. sell_fee(a) \in 0..MAX_ALLOWED_FEE_BPS
    <3>1. /\ redemption_offers[a].fee_basis_points_prop_amm_sell \in 0..MAX_ALLOWED_FEE_BPS
          /\ 0 \in 0..MAX_ALLOWED_FEE_BPS
      BY StateAssumption, ScaleAssumption DEF IInv, TypeOK, RedemptionOfferType
    <3>2. QED
      BY <3>1 DEF sell_fee
  <2>2. prop_amm[a].config.minimum_sell_haircut_onyc \in Nat
    BY DEF IInv, TypeOK, PairState, PairConfig
  <2>3. can_process_redemption(a, amount, sell_fee(a),
                               prop_amm[a].config.minimum_sell_haircut_onyc)
    BY <1>1 DEF can_price_sell
  <2>4. QED
    BY <2>1, <2>2, <2>3, RedemptionCore DEF sell_result
<1>3. out \in Nat
  BY <1>1, U64Int DEF can_price_sell, Fits
<1> HIDE DEF result, out, tvl
<1>4. Backed(accrued.onyc) /\ accrued.buffer \in BufferType
  BY <1>1, AccruedBacked DEF IInv
<1>5. Backed(received)
  <2>1. "wallets" \in OnycAccounts /\ "redemption_vault" \in OnycAccounts
    BY DEF OnycAccounts
  <2>2. QED
    BY <1>1, <1>4, <2>1, TransferBacked DEF onyc_received
<1> HIDE DEF received
<1>6. Backed(onyc')
  <2>1. "prop_amm_proceeds" \in OnycAccounts /\ "prop_amm_sell_fee" \in OnycAccounts
    BY DEF OnycAccounts
  <2>2. QED
    BY <1>1, <1>2, <1>5, <2>1, TokenInBacked
<1> HIDE DEF ledger
<1>7. asset' \in [Assets -> [AssetAccounts -> U64]]
  <2>1. /\ asset \in [Assets -> [AssetAccounts -> U64]]
        /\ asset[a] \in [AssetAccounts -> U64]
        /\ "redemption_vault" \in AssetAccounts /\ "wallets" \in AssetAccounts
    BY DEF IInv, TypeOK, AssetAccounts
  <2>2. transfer_tokens(asset[a], "redemption_vault", "wallets", out)
            \in [AssetAccounts -> U64]
    BY <1>1, <1>3, <2>1, TransferTyped
  <2>3. QED
    BY <1>1, <2>1, <2>2
<1>8. prop_amm' \in [Assets -> PairState]
  <2>1. prop_amm \in [Assets -> PairState] /\ clock \in Nat
    BY DEF IInv, TypeOK
  <2>2. record_prop_amm_sell(prop_amm[a], result.out, clock) \in PairState
    BY <1>1, <1>2, <2>1, RecordSellTyped
  <2>3. QED
    BY <1>1, <2>1, <2>2
<1>9. buffer' \in BufferType
  BY <1>1, <1>4, StoredTyped DEF IInv
<1>10. market_stats' \in [circulating_supply : U64, nav : U64, tvl : U64]
  BY <1>1, StatsTyped
<1>11. QED
  BY <1>1, <1>6, <1>7, <1>8, <1>9, <1>10 DEF IInv, TypeOK, SupplyIsBacked, Backed, Ledger

-----------------------------------------------------------------------------
(* Offers, operations and the outside world.                               *)

\* A vector kept by the clean-up of add_offer_vector is one the offer had.
LEMMA CleanKeepsOld ==
    ASSUME NEW vectors \in SUBSET OfferVector, NEW new \in OfferVector, clock \in Nat
    PROVE  clean_old_vectors(vectors, new) \subseteq vectors
<1> DEFINE startsNow == new.start_time = clock
           active    == IF startsNow THEN new ELSE find_active_vector_at(vectors, clock)
           t         == active.start_time - 1
<1>1. CASE ~startsNow /\ started_at(vectors, clock) = {}
  BY <1>1 DEF clean_old_vectors
<1>2. CASE startsNow \/ started_at(vectors, clock) # {}
  <2>1. active \in OfferVector
    <3>1. CASE startsNow
      BY <3>1
    <3>2. CASE ~startsNow
      <4>1. latest(started_at(vectors, clock)) \in started_at(vectors, clock)
        BY <1>2, <3>2, LatestStarted
      <4>2. QED
        BY <3>2, <4>1 DEF find_active_vector_at, started_at
    <3>3. QED
      BY <3>1, <3>2
  <2>2. clean_old_vectors(vectors, new)
          = {w \in vectors : w.start_time >= active.start_time}
                \union find_previous_vector(vectors, active.start_time)
    BY <1>2 DEF clean_old_vectors
  <2> HIDE DEF active
  <2>3. t \in Int
    BY <2>1 DEF OfferVector
  <2>4. find_previous_vector(vectors, active.start_time) \subseteq vectors
    <3>1. find_previous_vector(vectors, active.start_time)
            = IF started_at(vectors, t) = {} THEN {} ELSE {latest(started_at(vectors, t))}
      BY DEF find_previous_vector
    <3> HIDE DEF t
    <3>2. started_at(vectors, t) # {} => latest(started_at(vectors, t)) \in vectors
      BY <2>3, LatestStarted DEF started_at
    <3>3. QED
      BY <3>1, <3>2
  <2>5. QED
    BY <2>2, <2>4
<1>3. QED
  BY <1>1, <1>2

\* An action that changes offers alone.
LEMMA OffersOnly ==
    ASSUME IInv, only_offers_change, offers' \in [Assets -> OfferType]
    PROVE  IInv'
  BY DEF only_offers_change, IInv, TypeOK, SupplyIsBacked

\* Configuration of offers.
LEMMA OfferConfigStep ==
    ASSUME IInv, NEW a \in Assets, NEW fee \in Nat, NEW flag \in BOOLEAN,
           \/ make_offer(a, fee, flag)
           \/ update_offer_fee(a, fee)
           \/ update_offer_permissionless_fee(a, fee)
           \/ set_offer_disabled(a, flag)
    PROVE  IInv'
<1>1. offers \in [Assets -> OfferType]
  BY DEF IInv, TypeOK
<1>2. CASE make_offer(a, fee, flag)
  <2> DEFINE new == [NoOfferYet EXCEPT !.made = TRUE, !.fee_basis_points = fee,
                                       !.allow_permissionless = flag]
  <2>1. fee \in 0..MAX_ALLOWED_FEE_BPS /\ 0 \in 0..MAX_ALLOWED_FEE_BPS
    BY <1>2, StateAssumption, ScaleAssumption DEF make_offer
  <2>2. new \in OfferType
    BY <2>1 DEF NoOfferYet, OfferType
  <2>3. offers' = [offers EXCEPT ![a] = new] /\ only_offers_change
    BY <1>2 DEF make_offer
  <2> HIDE DEF new
  <2>4. QED
    BY <1>1, <2>2, <2>3, OffersOnly
<1>3. CASE update_offer_fee(a, fee)
  <2>1. fee \in 0..MAX_ALLOWED_FEE_BPS /\ only_offers_change
        /\ offers' = [offers EXCEPT ![a].fee_basis_points = fee]
    BY <1>3, StateAssumption, ScaleAssumption DEF update_offer_fee
  <2>2. offers' \in [Assets -> OfferType]
    BY <1>1, <2>1 DEF OfferType
  <2>3. QED
    BY <2>1, <2>2, OffersOnly
<1>4. CASE update_offer_permissionless_fee(a, fee)
  <2>1. fee \in 0..MAX_ALLOWED_FEE_BPS /\ only_offers_change
        /\ offers' = [offers EXCEPT ![a].fee_basis_points_permissionless = fee]
    BY <1>4, StateAssumption, ScaleAssumption DEF update_offer_permissionless_fee
  <2>2. offers' \in [Assets -> OfferType]
    BY <1>1, <2>1 DEF OfferType
  <2>3. QED
    BY <2>1, <2>2, OffersOnly
<1>5. CASE set_offer_disabled(a, flag)
  <2>1. only_offers_change /\ offers' = [offers EXCEPT ![a].disabled = flag]
    BY <1>5 DEF set_offer_disabled
  <2>2. offers' \in [Assets -> OfferType]
    BY <1>1, <2>1 DEF OfferType
  <2>3. QED
    BY <2>1, <2>2, OffersOnly
<1>6. QED
  BY <1>2, <1>3, <1>4, <1>5

\* Replacing the vectors of an offer.
LEMMA VectorsReplaced ==
    ASSUME IInv, NEW a \in Assets, NEW vectors \in SUBSET OfferVector,
           only_offers_change, offers' = [offers EXCEPT ![a].vectors = vectors]
    PROVE  IInv'
<1>1. offers \in [Assets -> OfferType]
  BY DEF IInv, TypeOK
<1>2. offers' \in [Assets -> OfferType]
  BY <1>1 DEF OfferType
<1>3. QED
  BY <1>2, OffersOnly

\* Adding a pricing vector.
LEMMA AddVectorStep ==
    ASSUME IInv, NEW a \in Assets, NEW start \in Nat, NEW base_time \in Nat,
           NEW base_price \in Nat, NEW apr \in Nat, NEW duration \in Nat,
           add_offer_vector(a, start, base_time, base_price, apr, duration)
    PROVE  IInv'
<1> DEFINE begin == IF start = 0 THEN max_of(clock, base_time) ELSE start
           new   == [start_time |-> begin, base_time |-> base_time,
                     base_price |-> base_price, apr |-> apr,
                     price_fix_duration |-> duration]
           old   == offers[a].vectors
           kept  == clean_old_vectors(old, new)
<1>1. /\ validate_inputs(old, new) /\ only_offers_change
      /\ offers' = [offers EXCEPT ![a].vectors = kept \union {new}]
  BY DEF add_offer_vector
<1>2. clock \in Nat /\ old \in SUBSET OfferVector
  BY DEF IInv, TypeOK, OfferType
<1>3. base_time > 0 /\ base_price > 0 /\ duration > 0
  BY <1>1 DEF validate_inputs
<1>4. begin \in Nat \ {0}
  BY <1>2, <1>3 DEF max_of
<1> HIDE DEF begin
<1>5. new \in OfferVector
  BY <1>3, <1>4 DEF OfferVector
<1> HIDE DEF new, old
<1>6. kept \subseteq old
  BY <1>2, <1>5, CleanKeepsOld
<1> HIDE DEF kept
<1>7. kept \union {new} \in SUBSET OfferVector
  BY <1>2, <1>5, <1>6
<1>8. QED
  BY <1>1, <1>7, VectorsReplaced

\* Deleting pricing vectors.
LEMMA DeleteVectorStep ==
    ASSUME IInv, NEW a \in Assets,
           \/ \E v \in offers[a].vectors : delete_offer_vector(a, v)
           \/ delete_all_offer_vectors(a)
    PROVE  IInv'
<1>1. offers[a].vectors \in SUBSET OfferVector
  BY DEF IInv, TypeOK, OfferType
<1>2. CASE delete_all_offer_vectors(a)
  <2>1. {} \in SUBSET OfferVector
    OBVIOUS
  <2>2. only_offers_change /\ offers' = [offers EXCEPT ![a].vectors = {}]
    BY <1>2 DEF delete_all_offer_vectors
  <2>3. QED
    BY <2>1, <2>2, VectorsReplaced
<1>3. ASSUME NEW v \in offers[a].vectors, delete_offer_vector(a, v)
      PROVE  IInv'
  <2> DEFINE rest == offers[a].vectors \ {v}
  <2>1. rest \in SUBSET OfferVector
    BY <1>1
  <2>2. only_offers_change /\ offers' = [offers EXCEPT ![a].vectors = rest]
    BY <1>3 DEF delete_offer_vector
  <2> HIDE DEF rest
  <2>3. QED
    BY <2>1, <2>2, VectorsReplaced
<1>4. QED
  BY <1>2, <1>3

\* Deposits to and withdrawals from the vaults, the configurable ones included.
LEMMA VaultStep ==
    ASSUME IInv, NEW a, NEW vault \in Vaults, NEW amount \in Nat, NEW kind \in VaultKinds,
           \/ vault_deposit_onyc(vault, amount) \/ vault_withdraw_onyc(vault, amount)
           \/ a \in Assets /\ vault_deposit_asset(a, vault, amount)
           \/ a \in Assets /\ vault_withdraw_asset(a, vault, amount)
           \/ /\ kind \in OnycAccounts
              /\ withdraw_configurable_vault_onyc(kind, amount)
           \/ /\ a \in Assets /\ kind \in AssetAccounts
              /\ withdraw_configurable_vault_asset(a, kind, amount)
    PROVE  IInv'
<1>1. /\ vault \in OnycAccounts /\ vault \in AssetAccounts
      /\ "wallets" \in OnycAccounts /\ "wallets" \in AssetAccounts
  BY DEF Vaults, OnycAccounts, AssetAccounts
<1>2. CASE vault_deposit_onyc(vault, amount) \/ vault_withdraw_onyc(vault, amount)
  BY <1>1, <1>2, MoveOnycStep DEF vault_deposit_onyc, vault_withdraw_onyc
<1>3. CASE /\ a \in Assets
           /\ vault_deposit_asset(a, vault, amount) \/ vault_withdraw_asset(a, vault, amount)
  BY <1>1, <1>3, MoveAssetStep DEF vault_deposit_asset, vault_withdraw_asset
<1>4. CASE kind \in OnycAccounts /\ withdraw_configurable_vault_onyc(kind, amount)
  <2> DEFINE n == effective_amount(onyc.bal[kind], amount)
  <2>1. onyc.bal[kind] \in U64
    BY <1>4 DEF IInv, TypeOK
  <2>2. n \in Nat
    BY <2>1, U64Int DEF effective_amount
  <2>3. move_onyc(kind, "wallets", n)
    BY <1>4 DEF withdraw_configurable_vault_onyc
  <2> HIDE DEF n
  <2>4. QED
    BY <1>1, <1>4, <2>2, <2>3, MoveOnycStep
<1>5. CASE /\ a \in Assets /\ kind \in AssetAccounts
           /\ withdraw_configurable_vault_asset(a, kind, amount)
  <2> DEFINE n == effective_amount(asset[a][kind], amount)
  <2>1. asset[a][kind] \in U64
    BY <1>5 DEF IInv, TypeOK
  <2>2. n \in Nat
    BY <2>1, U64Int DEF effective_amount
  <2>3. move_asset(a, kind, "wallets", n)
    BY <1>5 DEF withdraw_configurable_vault_asset
  <2> HIDE DEF n
  <2>4. QED
    BY <1>1, <1>5, <2>2, <2>3, MoveAssetStep
<1>6. QED
  BY <1>2, <1>3, <1>4, <1>5

\* Exclusions, destinations and the refresh.
LEMMA BooksStep ==
    ASSUME IInv, NEW kind \in VaultKinds,
           NEW destination \in Destinations \union {NoDestination},
           NEW owners \in SUBSET OnycAccounts,
           \/ set_configurable_vault_destination(kind, destination)
           \/ set_circulating_supply_excluded_accounts(owners)
           \/ update_circulating_supply_excluded_balance
           \/ refresh_market_stats
    PROVE  IInv'
<1>1. CASE set_configurable_vault_destination(kind, destination)
  <2>1. destinations' \in [VaultKinds -> Destinations \union {NoDestination}]
    BY <1>1 DEF set_configurable_vault_destination, IInv, TypeOK
  <2>2. QED
    BY <1>1, <2>1 DEF set_configurable_vault_destination, IInv, TypeOK, SupplyIsBacked
<1>2. CASE set_circulating_supply_excluded_accounts(owners)
  <2>1. excluded' \in [owners : SUBSET OnycAccounts, amount : U64]
    BY <1>2 DEF set_circulating_supply_excluded_accounts, IInv, TypeOK
  <2>2. QED
    BY <1>2, <2>1
    DEF set_circulating_supply_excluded_accounts, IInv, TypeOK, SupplyIsBacked
<1>3. CASE update_circulating_supply_excluded_balance
  <2> DEFINE sum == MapThenSumSet(LAMBDA x : onyc.bal[x], excluded.owners)
  <2>1. sum \in U64 /\ excluded' = [excluded EXCEPT !.amount = sum]
    BY <1>3 DEF update_circulating_supply_excluded_balance, Fits
  <2> HIDE DEF sum
  <2>2. excluded' \in [owners : SUBSET OnycAccounts, amount : U64]
    BY <2>1 DEF IInv, TypeOK
  <2>3. UNCHANGED <<clock, state, offers, redemption_offers, requests,
                    mint_authority, onyc, asset, buffer, market_stats, destinations,
                    prop_amm>>
    BY <1>3 DEF update_circulating_supply_excluded_balance
  <2>4. QED
    BY <2>2, <2>3 DEF IInv, TypeOK, SupplyIsBacked
<1>4. CASE refresh_market_stats
  <2>1. market_stats' \in [circulating_supply : U64, nav : U64, tvl : U64]
    BY <1>4, StatsTyped DEF refresh_market_stats
  <2>2. QED
    BY <1>4, <2>1 DEF refresh_market_stats, IInv, TypeOK, SupplyIsBacked
<1>5. QED
  BY <1>1, <1>2, <1>3, <1>4

\* The switches and caps of State.
LEMMA StateStep ==
    ASSUME IInv, NEW a, NEW enable \in BOOLEAN, NEW max \in U64,
           \/ set_kill_switch(enable) \/ configure_max_supply(max)
           \/ configure_max_mint_amount(max)
           \/ a \in Assets /\ set_main_offer(a)
    PROVE  IInv'
<1>1. state' \in [is_killed : BOOLEAN, max_supply : U64, max_mint_amount : U64,
                  main_offer : Assets \union {NoOffer}]
  BY DEF set_kill_switch, configure_max_supply, configure_max_mint_amount,
     set_main_offer, IInv, TypeOK
<1>2. only_state_changes
  BY DEF set_kill_switch, configure_max_supply, configure_max_mint_amount, set_main_offer
<1>3. QED
  BY <1>1, <1>2 DEF only_state_changes, IInv, TypeOK, SupplyIsBacked

\* The mint authority, time, and the holders' own mints and burns.
LEMMA WorldStep ==
    ASSUME IInv, NEW amount \in Nat,
           \/ transfer_mint_authority_to_program \/ transfer_mint_authority_to_boss
           \/ tick \/ external_burn(amount) \/ external_mint(amount)
    PROVE  IInv'
<1>1. CASE transfer_mint_authority_to_program \/ transfer_mint_authority_to_boss
  BY <1>1 DEF transfer_mint_authority_to_program, transfer_mint_authority_to_boss,
     transfer_mint_authority, IInv, TypeOK, SupplyIsBacked
<1>2. CASE tick
  BY <1>2 DEF tick, IInv, TypeOK, SupplyIsBacked
<1>3. CASE external_burn(amount)
  <2>1. "wallets" \in OnycAccounts
    BY DEF OnycAccounts
  <2>2. Backed(onyc')
    BY <1>3, <2>1, IInvBacked, BurnBacked DEF external_burn
  <2>3. QED
    BY <1>3, <2>2 DEF external_burn, IInv, TypeOK, SupplyIsBacked, Backed, Ledger
<1>4. CASE external_mint(amount)
  <2>1. "wallets" \in OnycAccounts /\ amount \in Int
    BY DEF OnycAccounts
  <2>2. Backed(onyc')
    BY <1>4, <2>1, IInvBacked, MintBacked DEF external_mint
  <2>3. QED
    BY <1>4, <2>2 DEF external_mint, IInv, TypeOK, SupplyIsBacked, Backed, Ledger
<1>5. QED
  BY <1>1, <1>2, <1>3, <1>4

-----------------------------------------------------------------------------
(* The specification.                                                      *)

\* The operations and the outside world together.
LEMMA OperationIInv ==
    ASSUME IInv, OperationStep
    PROVE  IInv'
<1>1. /\ 0 \in Nat /\ TRUE \in BOOLEAN /\ 0 \in U64
      /\ "offer_vault" \in Vaults /\ "offer_fee" \in VaultKinds
      /\ {} \in SUBSET OnycAccounts
      /\ NoDestination \in Destinations \union {NoDestination}
  BY U64Nat DEF Vaults, VaultKinds
<1>2. ASSUME NEW vault \in Vaults, NEW amount \in Inputs.deposit,
             \/ vault_deposit_onyc(vault, amount)
             \/ \E a \in Assets : vault_deposit_asset(a, vault, amount)
      PROVE  IInv'
  BY <1>1, <1>2, InputAssumption, VaultStep
<1>3. ASSUME NEW vault \in Vaults, NEW amount \in Inputs.withdraw,
             \/ vault_withdraw_onyc(vault, amount)
             \/ \E a \in Assets : vault_withdraw_asset(a, vault, amount)
      PROVE  IInv'
  BY <1>1, <1>3, InputAssumption, VaultStep
<1>4. ASSUME NEW kind \in VaultKinds, NEW amount \in Inputs.vault_withdraw,
             \/ kind \in OnycAccounts /\ withdraw_configurable_vault_onyc(kind, amount)
             \/ /\ kind \in AssetAccounts
                /\ \E a \in Assets : withdraw_configurable_vault_asset(a, kind, amount)
      PROVE  IInv'
  BY <1>1, <1>4, InputAssumption, VaultStep
<1>5. ASSUME NEW kind \in Inputs.destination,
             NEW destination \in Destinations \union {NoDestination},
             set_configurable_vault_destination(kind, destination)
      PROVE  IInv'
  BY <1>1, <1>5, InputAssumption, BooksStep
<1>6. ASSUME NEW owners \in Inputs.excluded, set_circulating_supply_excluded_accounts(owners)
      PROVE  IInv'
  BY <1>1, <1>6, InputAssumption, BooksStep
<1>7. CASE update_circulating_supply_excluded_balance \/ refresh_market_stats
  BY <1>1, <1>7, BooksStep
<1>8. ASSUME NEW enable \in Inputs.kill_switch, set_kill_switch(enable)
      PROVE  IInv'
  BY <1>1, <1>8, InputAssumption, StateStep
<1>9. ASSUME NEW max \in Inputs.supply_cap, configure_max_supply(max)
      PROVE  IInv'
  BY <1>1, <1>9, InputAssumption, StateStep
<1>10. ASSUME NEW max \in Inputs.mint_cap, configure_max_mint_amount(max)
       PROVE  IInv'
  BY <1>1, <1>10, InputAssumption, StateStep
<1>11. ASSUME NEW a \in Inputs.main_offer, set_main_offer(a)
       PROVE  IInv'
  BY <1>1, <1>11, InputAssumption, StateStep
<1>12. CASE transfer_mint_authority_to_program \/ transfer_mint_authority_to_boss \/ tick
  BY <1>1, <1>12, WorldStep
<1>13. ASSUME NEW amount \in Inputs.external, external_burn(amount) \/ external_mint(amount)
       PROVE  IInv'
  BY <1>13, InputAssumption, WorldStep
<1>14. QED
  BY <1>2, <1>3, <1>4, <1>5, <1>6, <1>7, <1>8, <1>9, <1>10, <1>11, <1>12, <1>13
  DEF OperationStep

\* The initial configuration satisfies the invariant: the wallets hold all.
LEMMA InitIInv == Init => IInv
<1>1. SUFFICES ASSUME Init PROVE IInv
  OBVIOUS
<1>2. 0 \in U64 /\ 0 \in Nat
  BY U64Nat
<1> DEFINE bal == [x \in OnycAccounts |-> IF x = "wallets" THEN Initial.onyc ELSE 0]
<1>3. onyc = [supply |-> Initial.onyc, bal |-> bal] /\ Initial.onyc \in U64
  BY <1>1, InitialAssumption DEF Init
<1>4. bal \in [OnycAccounts -> U64]
  BY <1>2, <1>3
<1>5. TotalHeld(bal) = Initial.onyc
  BY <1>3, U64Int DEF TotalHeld, OnycAccounts
<1> HIDE DEF bal
<1>6. Backed(onyc)
  BY <1>3, <1>4, <1>5 DEF Backed, Ledger
<1>7. asset \in [Assets -> [AssetAccounts -> U64]]
  BY <1>1, <1>2, InitialAssumption DEF Init
<1>8. /\ clock \in Nat /\ offers \in [Assets -> OfferType] /\ requests \subseteq RequestType
      /\ redemption_offers \in [Assets -> RedemptionOfferType]
      /\ mint_authority \in {"program", "boss"} /\ buffer \in BufferType
  BY <1>1, InitialAssumption DEF Init
<1>9. /\ state \in [is_killed : BOOLEAN, max_supply : U64, max_mint_amount : U64,
                    main_offer : Assets \union {NoOffer}]
      /\ excluded \in [owners : SUBSET OnycAccounts, amount : U64]
      /\ market_stats \in [circulating_supply : U64, nav : U64, tvl : U64]
      /\ destinations \in [VaultKinds -> Destinations \union {NoDestination}]
      /\ prop_amm \in [Assets -> PairState]
  BY <1>1, <1>2, InitialAssumption DEF Init
<1>10. QED
  BY <1>6, <1>7, <1>8, <1>9 DEF IInv, TypeOK, SupplyIsBacked, Backed, Ledger

\* Every step of the program or of the outside world preserves it.
LEMMA NextIInv == IInv /\ [Next]_vars => IInv'
<1>1. SUFFICES ASSUME IInv, [Next]_vars PROVE IInv'
  OBVIOUS
<1>2. 0 \in Nat /\ TRUE \in BOOLEAN
  OBVIOUS
<1>3. CASE RedemptionStep
  <2>1. ASSUME NEW a \in Assets, NEW amount \in Inputs.request,
               create_redemption_request(a, amount)
        PROVE  IInv'
    BY <1>1, <2>1, InputAssumption, CreateStep
  <2>2. ASSUME NEW r \in requests, cancel_redemption_request(r)
        PROVE  IInv'
    BY <1>1, <2>2, CancelStep
  <2>3. ASSUME NEW r \in requests, NEW amount \in Inputs.fulfill,
               fulfill_redemption_request(r, amount)
        PROVE  IInv'
    BY <1>1, <2>3, InputAssumption, FulfillStep
  <2>4. ASSUME NEW a \in Inputs.new_offer, NEW fee \in Inputs.fee,
               NEW sellFee \in Inputs.fee, make_redemption_offer(a, fee, sellFee)
        PROVE  IInv'
    BY <1>1, <1>2, <2>4, InputAssumption, RedemptionConfigStep
  <2>5. ASSUME NEW a \in Assets, NEW fee \in Inputs.redemption_fee,
               update_redemption_offer_fee(a, fee)
        PROVE  IInv'
    BY <1>1, <1>2, <2>5, InputAssumption, RedemptionConfigStep
  <2>6. ASSUME NEW a \in Assets, NEW target \in Inputs.vault_target,
               update_redemption_offer_vault_target(a, target)
        PROVE  IInv'
    BY <1>1, <1>2, <2>6, InputAssumption, RedemptionConfigStep
  <2>7. ASSUME NEW a \in Assets, NEW disabled \in Inputs.disabled,
               set_redemption_offer_disabled(a, disabled)
        PROVE  IInv'
    BY <1>1, <1>2, <2>7, InputAssumption, RedemptionConfigStep
  <2>8. ASSUME NEW a \in Assets, NEW fee \in Inputs.redemption_fee,
               update_redemption_offer_prop_amm_sell_fee(a, fee)
        PROVE  IInv'
    BY <1>1, <1>2, <2>8, InputAssumption, RedemptionConfigStep
  <2>9. QED
    BY <1>3, <2>1, <2>2, <2>3, <2>4, <2>5, <2>6, <2>7, <2>8 DEF RedemptionStep
<1>4. CASE BufferStep
  <2>1. CASE initialize_buffer
    BY <1>1, <2>1, InitializeBufferStep
  <2>2. CASE settle_buffer
    BY <1>1, <1>2, <2>2, SettleStep
  <2>3. ASSUME NEW apr \in Inputs.gross_apr, set_buffer_gross_apr(apr)
        PROVE  IInv'
    BY <1>1, <1>2, <2>3, InputAssumption, SettleStep
  <2>4. ASSUME NEW mgmt \in Inputs.buffer_fee, NEW perf \in Inputs.buffer_fee,
               NEW hwmEnabled \in BOOLEAN, set_buffer_fee_config(mgmt, perf, hwmEnabled)
        PROVE  IInv'
    BY <1>1, <1>2, <2>4, InputAssumption, SettleStep
  <2>5. ASSUME NEW adjustment \in Inputs.adjustment, burn_for_nav_increase(adjustment)
        PROVE  IInv'
    BY <1>1, <2>5, InputAssumption, BurnStep
  <2>6. ASSUME NEW amount \in Inputs.reserve,
               deposit_reserve_vault(amount) \/ withdraw_reserve_vault(amount)
        PROVE  IInv'
    <3>1. "wallets" \in OnycAccounts /\ "reserve" \in OnycAccounts
      BY DEF OnycAccounts
    <3>2. QED
      BY <1>1, <2>6, <3>1, InputAssumption, MoveOnycStep
      DEF deposit_reserve_vault, withdraw_reserve_vault
  <2>7. ASSUME NEW amount \in Inputs.mint, mint_to(amount)
        PROVE  IInv'
    BY <1>1, <2>7, InputAssumption, MintToStep
  <2>8. QED
    BY <1>4, <2>1, <2>2, <2>3, <2>4, <2>5, <2>6, <2>7 DEF BufferStep
<1>5. CASE TakeStep
  <2>1. ASSUME NEW a \in Assets, NEW permissionless \in Inputs.permissionless,
               NEW amount \in Inputs.take, take_offer_v2(a, amount, permissionless)
        PROVE  IInv'
    BY <1>1, <2>1, InputAssumption, TakeV2Step
  <2>2. ASSUME NEW a \in Assets, NEW permissionless \in Inputs.permissionless,
               NEW amount \in Inputs.legacy_take, take_offer(a, amount, permissionless)
        PROVE  IInv'
    BY <1>1, <2>2, InputAssumption, LegacyTakeStep
  <2>3. QED
    BY <1>5, <2>1, <2>2 DEF TakeStep
<1>6. CASE OfferStep
  <2>1. ASSUME NEW a \in Inputs.new_offer, NEW fee \in Inputs.fee,
               NEW permissionless \in Inputs.permissionless,
               make_offer(a, fee, permissionless)
        PROVE  IInv'
    BY <1>1, <2>1, InputAssumption, OfferConfigStep
  <2>2. ASSUME NEW a \in Assets, NEW fee \in Inputs.fee,
               update_offer_fee(a, fee) \/ update_offer_permissionless_fee(a, fee)
        PROVE  IInv'
    BY <1>1, <1>2, <2>2, InputAssumption, OfferConfigStep
  <2>3. ASSUME NEW a \in Assets, NEW disabled \in Inputs.disabled,
               set_offer_disabled(a, disabled)
        PROVE  IInv'
    BY <1>1, <1>2, <2>3, InputAssumption, OfferConfigStep
  <2>4. ASSUME NEW a \in Assets, NEW i \in Inputs.vector,
               add_offer_vector(a, i.start, i.base_time, i.base_price, i.apr, i.duration)
        PROVE  IInv'
    <3>1. i \in VectorInput
      BY InputAssumption
    <3>2. /\ i.start \in Nat /\ i.base_time \in Nat /\ i.base_price \in Nat
          /\ i.apr \in Nat /\ i.duration \in Nat
      BY <3>1 DEF VectorInput
    <3>3. QED
      BY <1>1, <2>4, <3>2, AddVectorStep
  <2>5. ASSUME NEW a \in Assets, NEW v \in offers[a].vectors, delete_offer_vector(a, v)
        PROVE  IInv'
    BY <1>1, <2>5, DeleteVectorStep
  <2>6. ASSUME NEW a \in Inputs.delete_all, delete_all_offer_vectors(a)
        PROVE  IInv'
    BY <1>1, <2>6, InputAssumption, DeleteVectorStep
  <2>7. QED
    BY <1>6, <2>1, <2>2, <2>3, <2>4, <2>5, <2>6 DEF OfferStep
<1>7. CASE OperationStep
  BY <1>1, <1>7, OperationIInv
<1>8. CASE UNCHANGED vars
  BY <1>1, <1>8 DEF vars, IInv, TypeOK, SupplyIsBacked
<1>9. CASE SwapStep
  <2>1. ASSUME NEW a \in Assets, NEW c \in Inputs.prop_amm, configure_prop_amm(a, c)
        PROVE  IInv'
    BY <1>1, <2>1, InputAssumption, ConfigurePairStep
  <2>2. ASSUME NEW a \in Assets, NEW amount \in Inputs.swap,
               NEW minimumOut \in Inputs.minimum_out, open_swap_buy(a, amount, minimumOut)
        PROVE  IInv'
    BY <1>1, <2>2, InputAssumption, SwapBuyStep
  <2>3. ASSUME NEW a \in Assets, NEW amount \in Inputs.swap,
               NEW minimumOut \in Inputs.minimum_out, open_swap_sell(a, amount, minimumOut)
        PROVE  IInv'
    BY <1>1, <2>3, InputAssumption, SwapSellStep
  <2>4. QED
    BY <1>9, <2>1, <2>2, <2>3 DEF SwapStep
<1>10. QED
  BY <1>1, <1>3, <1>4, <1>5, <1>6, <1>7, <1>8, <1>9 DEF Next

\* Every account always holds values of its Rust type, whatever the order of
\* the instructions, their arguments and the deployed configuration.
THEOREM TypeCorrect == Spec => []TypeOK
<1>1. IInv => TypeOK
  BY DEF IInv
<1>2. QED
  BY <1>1, InitIInv, NextIInv, PTL DEF Spec

\* The supply of the ONyc mint is always what the token accounts hold: no mint,
\* burn, accrual, fee split or transfer of any instruction creates or loses a
\* token that the mint does not account for.
THEOREM SupplyAlwaysBacked == Spec => []SupplyIsBacked
<1>1. IInv => SupplyIsBacked
  BY DEF IInv
<1>2. QED
  BY <1>1, InitIInv, NextIInv, PTL DEF Spec
=============================================================================
