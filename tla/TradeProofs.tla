---------------------------- MODULE TradeProofs -----------------------------
(***************************************************************************)
(* Trades, for every set of assets, every configuration and all arguments: *)
(* what each moves account by account, so that nothing stays with the      *)
(* intermediary; the trackers of the Prop AMM; what the kill switch lets   *)
(* through; and the refill of the redemption vault.                        *)
(***************************************************************************)
EXTENDS OnreProofs

\* The change of account x when n moves from one account to another.
Moved(x, from, to, n) == (IF x = to THEN n ELSE 0) - (IF x = from THEN n ELSE 0)

\* A transfer, account by account.
LEMMA TransferAt ==
    ASSUME NEW S, NEW bal \in [S -> Int], NEW from \in S, NEW to \in S, NEW n \in Int,
           NEW x \in S
    PROVE  /\ transfer_tokens(bal, from, to, n) \in [S -> Int]
           /\ transfer_tokens(bal, from, to, n)[x] = bal[x] + Moved(x, from, to, n)
<1> DEFINE b1 == [bal EXCEPT ![from] = bal[from] - n]
<1>1. b1 \in [S -> Int] /\ \A y \in S : b1[y] = bal[y] - (IF y = from THEN n ELSE 0)
  OBVIOUS
<1>2. transfer_tokens(bal, from, to, n) = [b1 EXCEPT ![to] = b1[to] + n]
  BY DEF transfer_tokens
<1> HIDE DEF b1
<1>3. [b1 EXCEPT ![to] = b1[to] + n][x] = b1[x] + (IF x = to THEN n ELSE 0)
  BY <1>1
<1>4. transfer_tokens(bal, from, to, n) \in [S -> Int]
  BY TransferInt
<1>5. QED
  BY <1>1, <1>2, <1>3, <1>4 DEF Moved

LEMMA MovedInt ==
    ASSUME NEW x, NEW from, NEW to, NEW n \in Int
    PROVE  Moved(x, from, to, n) \in Int
  BY DEF Moved

\* A ledger of integers.
IntLedger(ledger) == ledger \in [supply : Int, bal : [OnycAccounts -> Int]]

LEMMA BackedInt ==
    ASSUME NEW ledger, Backed(ledger)
    PROVE  IntLedger(ledger)
<1>1. ledger \in [supply : U64, bal : [OnycAccounts -> U64]]
  BY DEF Backed, Ledger
<1> DEFINE bal == ledger.bal
<1>2. bal \in [OnycAccounts -> U64] /\ ledger.supply \in U64
  BY <1>1
<1> HIDE DEF bal
<1>3. bal \in [OnycAccounts -> Int] /\ ledger.supply \in Int
  BY <1>2, BalancesInt, U64Int
<1>4. ledger = [supply |-> ledger.supply, bal |-> bal]
  BY <1>1 DEF bal
<1>5. [supply |-> ledger.supply, bal |-> bal] \in [supply : Int, bal : [OnycAccounts -> Int]]
  BY <1>3
<1>6. QED
  BY <1>4, <1>5 DEF IntLedger

LEMMA IntLedgerParts ==
    ASSUME NEW ledger, IntLedger(ledger)
    PROVE  /\ ledger.supply \in Int /\ ledger.bal \in [OnycAccounts -> Int]
           /\ \A x \in OnycAccounts : ledger.bal[x] \in Int
  BY DEF IntLedger

\* A transfer within a ledger of ONyc.
Transferred(next, ledger, from, to, n) ==
    next = [ledger EXCEPT !.bal = transfer_tokens(@, from, to, n)]

LEMMA LedgerTransfer ==
    ASSUME NEW ledger, IntLedger(ledger), NEW from \in OnycAccounts, NEW to \in OnycAccounts,
           NEW n \in Int, NEW x \in OnycAccounts, NEW next,
           Transferred(next, ledger, from, to, n)
    PROVE  /\ IntLedger(next)
           /\ next.supply = ledger.supply
           /\ next.bal[x] = ledger.bal[x] + Moved(x, from, to, n)
<1> DEFINE bal == ledger.bal
           moved == transfer_tokens(bal, from, to, n)
<1>1. bal \in [OnycAccounts -> Int] /\ ledger.supply \in Int
  BY DEF IntLedger
<1>2. next = [supply |-> ledger.supply, bal |-> moved]
  BY DEF IntLedger, Transferred
<1> HIDE DEF bal
<1>3. /\ moved \in [OnycAccounts -> Int]
      /\ moved[x] = bal[x] + Moved(x, from, to, n)
  BY <1>1, TransferAt
<1> HIDE DEF moved
<1>4. next.bal = moved /\ next.supply = ledger.supply
  BY <1>2
<1>5. QED
  BY <1>1, <1>2, <1>3, <1>4 DEF IntLedger, bal

\* A mint to, or a burn from, a ledger of ONyc.
LEMMA LedgerMint ==
    ASSUME NEW ledger, IntLedger(ledger), NEW to \in OnycAccounts, NEW n \in Int,
           NEW x \in OnycAccounts
    PROVE  /\ IntLedger(mint_tokens(ledger, to, n))
           /\ mint_tokens(ledger, to, n).supply = ledger.supply + n
           /\ mint_tokens(ledger, to, n).bal[x] = ledger.bal[x] + (IF x = to THEN n ELSE 0)
           /\ IntLedger(burn_tokens(ledger, to, n))
           /\ burn_tokens(ledger, to, n).supply = ledger.supply - n
           /\ burn_tokens(ledger, to, n).bal[x] = ledger.bal[x] - (IF x = to THEN n ELSE 0)
<1> DEFINE bal == ledger.bal
           more == [bal EXCEPT ![to] = bal[to] + n]
           less == [bal EXCEPT ![to] = bal[to] - n]
<1>1. bal \in [OnycAccounts -> Int] /\ ledger.supply \in Int
  BY DEF IntLedger
<1>2. /\ mint_tokens(ledger, to, n) = [supply |-> ledger.supply + n, bal |-> more]
      /\ burn_tokens(ledger, to, n) = [supply |-> ledger.supply - n, bal |-> less]
  BY DEF mint_tokens, burn_tokens
<1> HIDE DEF bal
<1>3. /\ more \in [OnycAccounts -> Int] /\ less \in [OnycAccounts -> Int]
      /\ more[x] = bal[x] + (IF x = to THEN n ELSE 0)
      /\ less[x] = bal[x] - (IF x = to THEN n ELSE 0)
  BY <1>1
<1> HIDE DEF more, less
<1>4. QED
  BY <1>1, <1>2, <1>3 DEF IntLedger, bal

LEMMA MintToWallets ==
    ASSUME NEW ledger, IntLedger(ledger), NEW n \in Int, NEW x \in OnycAccounts
    PROVE  /\ mint_tokens(ledger, "wallets", n).supply = ledger.supply + n
           /\ mint_tokens(ledger, "wallets", n).bal[x]
                = ledger.bal[x] + (IF x = "wallets" THEN n ELSE 0)
<1>1. "wallets" \in OnycAccounts
  BY DEF OnycAccounts
<1>2. QED
  BY <1>1, LedgerMint

\* The accounts that accruals mint to.
Earnings == {"reserve", "management_fee", "performance_fee"}

\* An accrual mints to these only.
LEMMA AccruedAt ==
    ASSUME IInv, accrual_succeeds
    PROVE  /\ IntLedger(accrued.onyc)
           /\ \A x \in OnycAccounts \ Earnings : accrued.onyc.bal[x] = onyc.bal[x]
<1>1. IntLedger(accrued.onyc)
  BY AccruedBacked, BackedInt DEF IInv
<1>2. ASSUME NEW mint, NEW split, NEW x \in OnycAccounts \ Earnings
      PROVE  accrual_of(mint, split).onyc.bal[x] = onyc.bal[x]
  BY DEF accrual_of, IInv, TypeOK, OnycAccounts, Earnings
<1>3. ASSUME NEW x \in OnycAccounts \ Earnings
      PROVE  accrue_buffer.onyc.bal[x] = onyc.bal[x]
  BY <1>2 DEF accrue_buffer
<1>4. QED
  BY <1>1, <1>3 DEF accrued

\* What a take or a buy pays: minted, or from the offer vault, to the wallets;
\* the intermediary that it may pass through keeps nothing.
Minted(n) == IF program_controls_mint THEN n ELSE 0

PaidOut(x, out) ==
    (IF x = "wallets" THEN out ELSE 0)
        - (IF x = "offer_vault" /\ ~program_controls_mint THEN out ELSE 0)

LEMMA TokenOutAt ==
    ASSUME NEW ledger, IntLedger(ledger), NEW permissionless \in BOOLEAN, NEW out \in Int,
           NEW x \in OnycAccounts
    PROVE  /\ IntLedger(token_out_ledger(ledger, permissionless, out))
           /\ token_out_ledger(ledger, permissionless, out).supply = ledger.supply + Minted(out)
           /\ token_out_ledger(ledger, permissionless, out).bal[x] = ledger.bal[x] + PaidOut(x, out)
<1> DEFINE via  == intermediary(permissionless)
           paid == pay_token_out(ledger, via, out)
           last == token_out_ledger(ledger, permissionless, out)
<1>1. /\ via \in OnycAccounts /\ "wallets" \in OnycAccounts
      /\ "offer_vault" \in OnycAccounts /\ via # "offer_vault"
  BY DEF OnycAccounts, intermediary
<1>2. Transferred(last, paid, via, "wallets", out)
  BY DEF token_out_ledger, Transferred
<1> HIDE DEF via, last
<1>3. /\ IntLedger(paid)
      /\ paid.supply = ledger.supply + Minted(out)
      /\ paid.bal[x] = ledger.bal[x] + (IF x = via THEN out ELSE 0)
             - (IF x = "offer_vault" /\ ~program_controls_mint THEN out ELSE 0)
  <2>1. CASE program_controls_mint
    <3>1. paid = mint_tokens(ledger, via, out)
      BY <2>1 DEF pay_token_out
    <3> HIDE DEF paid
    <3>2. /\ IntLedger(paid) /\ paid.supply = ledger.supply + out
          /\ paid.bal[x] = ledger.bal[x] + (IF x = via THEN out ELSE 0)
      BY <1>1, <3>1, LedgerMint
    <3>3. QED
      BY <2>1, <3>2, IntLedgerParts DEF Minted
  <2>2. CASE ~program_controls_mint
    <3>1. Transferred(paid, ledger, "offer_vault", via, out)
      BY <2>2 DEF pay_token_out, Transferred
    <3> HIDE DEF paid
    <3>2. /\ IntLedger(paid) /\ paid.supply = ledger.supply
          /\ paid.bal[x] = ledger.bal[x] + Moved(x, "offer_vault", via, out)
      BY <1>1, <3>1, LedgerTransfer
    <3>3. QED
      BY <2>2, <3>2, IntLedgerParts DEF Minted, Moved
  <2>3. QED
    BY <2>1, <2>2
<1> HIDE DEF paid
<1>4. /\ IntLedger(last) /\ last.supply = paid.supply
      /\ last.bal[x] = paid.bal[x] + Moved(x, via, "wallets", out)
  BY <1>1, <1>2, <1>3, LedgerTransfer
<1>5. last.bal[x] = ledger.bal[x] + PaidOut(x, out)
  BY <1>1, <1>3, <1>4, IntLedgerParts DEF PaidOut, Moved
<1>6. QED
  BY <1>3, <1>4, <1>5 DEF last

\* Refill, proceeds and fee are all that the buyer pays.
AllPaid(amount, permissionless, refill, proceedsTo, proceeds, feeTo, fee) ==
    /\ amount \in Int /\ permissionless \in BOOLEAN
    /\ refill \in Int /\ proceeds \in Int /\ fee \in Int
    /\ proceedsTo \in AssetAccounts
    /\ feeTo \in AssetAccounts
    /\ refill + proceeds + fee = amount

\* What account x of the asset gets of what the buyer pays.
PaidIn(x, amount, refill, proceedsTo, proceeds, feeTo, fee) ==
    (IF x = "redemption_vault" THEN refill ELSE 0) + (IF x = proceedsTo THEN proceeds ELSE 0)
        + (IF x = feeTo THEN fee ELSE 0) - (IF x = "wallets" THEN amount ELSE 0)

LEMMA TokenInAt ==
    ASSUME IInv, NEW a \in Assets, NEW amount, NEW permissionless, NEW refill,
           NEW proceedsTo, NEW proceeds, NEW feeTo, NEW fee,
           AllPaid(amount, permissionless, refill, proceedsTo, proceeds, feeTo, fee),
           NEW x \in AssetAccounts
    PROVE  token_in_ledger(a, amount, permissionless, refill, proceedsTo, proceeds,
                           feeTo, fee)[x]
             = asset[a][x] + PaidIn(x, amount, refill, proceedsTo, proceeds, feeTo, fee)
<1> DEFINE via == intermediary(permissionless)
           b0  == asset[a]
           b1  == transfer_tokens(b0, "wallets", via, amount)
           b2  == transfer_tokens(b1, via, "redemption_vault", refill)
           b3  == transfer_tokens(b2, via, proceedsTo, proceeds)
           b4  == transfer_tokens(b3, via, feeTo, fee)
<1>1. /\ via \in AssetAccounts /\ "wallets" \in AssetAccounts
      /\ "redemption_vault" \in AssetAccounts
  BY DEF AssetAccounts, intermediary
<1>2. /\ amount \in Int /\ refill \in Int /\ proceeds \in Int /\ fee \in Int
      /\ proceedsTo \in AssetAccounts /\ feeTo \in AssetAccounts
      /\ refill + proceeds + fee = amount
  BY DEF AllPaid
<1>3. b0 \in [AssetAccounts -> Int] /\ b0[x] \in Int
  <2>1. b0 \in [AssetAccounts -> U64]
    BY DEF IInv, TypeOK
  <2> HIDE DEF b0
  <2>2. QED
    BY <2>1, BalancesInt
<1>4. token_in_ledger(a, amount, permissionless, refill, proceedsTo, proceeds,
                      feeTo, fee) = b4
  BY DEF token_in_ledger, pay_token_in
<1> HIDE DEF via, b0
<1>5. b1 \in [AssetAccounts -> Int] /\ b1[x] = b0[x] + Moved(x, "wallets", via, amount)
  BY <1>1, <1>2, <1>3, TransferAt
<1> HIDE DEF b1
<1>6. b2 \in [AssetAccounts -> Int] /\ b2[x] = b1[x] + Moved(x, via, "redemption_vault", refill)
  BY <1>1, <1>2, <1>5, TransferAt
<1> HIDE DEF b2
<1>7. b3 \in [AssetAccounts -> Int] /\ b3[x] = b2[x] + Moved(x, via, proceedsTo, proceeds)
  BY <1>1, <1>2, <1>6, TransferAt
<1> HIDE DEF b3
<1>8. b4[x] = b3[x] + Moved(x, via, feeTo, fee)
  BY <1>1, <1>2, <1>7, TransferAt
<1> HIDE DEF b4
<1>9. b4[x] = b0[x] + PaidIn(x, amount, refill, proceedsTo, proceeds, feeTo, fee)
  BY <1>2, <1>3, <1>5, <1>6, <1>7, <1>8 DEF Moved, PaidIn
<1>10. QED
  BY <1>4, <1>9 DEF b0

\* The ONyc of a redemption or of a sell leaves the redemption vault: the net
\* amount is burnt or becomes proceeds, the fee goes to its vault.
Redeemed(x, net, proceedsTo, fee, feeTo) ==
    (IF x = proceedsTo /\ ~program_controls_mint THEN net ELSE 0)
        + (IF x = feeTo THEN fee ELSE 0) - (IF x = "redemption_vault" THEN net + fee ELSE 0)

TokenInTaken(next, ledger, net, proceedsTo, fee, feeTo) ==
    /\ net \in Int /\ fee \in Int
    /\ proceedsTo \in OnycAccounts /\ feeTo \in OnycAccounts
    /\ next = take_token_in(ledger, net, proceedsTo, fee, feeTo)

LEMMA RedeemedAt ==
    ASSUME NEW ledger, IntLedger(ledger), NEW net, NEW fee, NEW proceedsTo, NEW feeTo,
           NEW x \in OnycAccounts, NEW last,
           TokenInTaken(last, ledger, net, proceedsTo, fee, feeTo)
    PROVE  /\ IntLedger(last)
           /\ last.supply = ledger.supply - Minted(net)
           /\ last.bal[x] = ledger.bal[x] + Redeemed(x, net, proceedsTo, fee, feeTo)
<1> DEFINE rest == IF program_controls_mint
                   THEN burn_tokens(ledger, "redemption_vault", net)
                   ELSE [ledger EXCEPT !.bal =
                           transfer_tokens(@, "redemption_vault", proceedsTo, net)]
<1>1. /\ "redemption_vault" \in OnycAccounts /\ net \in Int /\ fee \in Int
      /\ proceedsTo \in OnycAccounts /\ feeTo \in OnycAccounts
  BY DEF OnycAccounts, TokenInTaken
<1>2. Transferred(last, rest, "redemption_vault", feeTo, fee)
  BY DEF TokenInTaken, take_token_in, Transferred
<1>3. /\ IntLedger(rest)
      /\ rest.supply = ledger.supply - Minted(net)
      /\ rest.bal[x] = ledger.bal[x]
           + (IF x = proceedsTo /\ ~program_controls_mint THEN net ELSE 0)
           - (IF x = "redemption_vault" THEN net ELSE 0)
  <2>1. CASE program_controls_mint
    <3>1. rest = burn_tokens(ledger, "redemption_vault", net)
      BY <2>1
    <3> HIDE DEF rest
    <3>2. /\ IntLedger(rest) /\ rest.supply = ledger.supply - net
          /\ rest.bal[x]
               = ledger.bal[x] - (IF x = "redemption_vault" THEN net ELSE 0)
      BY <1>1, <3>1, LedgerMint
    <3>3. QED
      BY <1>1, <2>1, <3>2, IntLedgerParts DEF Minted
  <2>2. CASE ~program_controls_mint
    <3>1. Transferred(rest, ledger, "redemption_vault", proceedsTo, net)
      BY <2>2 DEF Transferred
    <3> HIDE DEF rest
    <3>2. /\ IntLedger(rest) /\ rest.supply = ledger.supply
          /\ rest.bal[x]
               = ledger.bal[x] + Moved(x, "redemption_vault", proceedsTo, net)
      BY <1>1, <3>1, LedgerTransfer
    <3>3. QED
      BY <2>2, <3>2, IntLedgerParts DEF Minted, Moved
  <2>3. QED
    BY <2>1, <2>2
<1> HIDE DEF rest
<1>4. /\ IntLedger(last) /\ last.supply = rest.supply
      /\ last.bal[x] = rest.bal[x] + Moved(x, "redemption_vault", feeTo, fee)
  BY <1>1, <1>2, <1>3, LedgerTransfer
<1>5. last.bal[x] = ledger.bal[x] + Redeemed(x, net, proceedsTo, fee, feeTo)
  BY <1>1, <1>3, <1>4, IntLedgerParts DEF Redeemed, Moved
<1>6. QED
  BY <1>3, <1>4, <1>5

-----------------------------------------------------------------------------
(* The trades: what they do to every account.                              *)

\* What process_offer_core returns adds up to what is paid.
LEMMA OfferCoreAdds ==
    ASSUME NEW a \in Assets, NEW amount \in Nat, NEW bps \in 0..MAX_ALLOWED_FEE_BPS,
           can_process_offer(a, amount, bps)
    PROVE  /\ process_offer_core(a, amount, bps).net \in Nat
           /\ process_offer_core(a, amount, bps).fee \in Nat
           /\ process_offer_core(a, amount, bps).out \in Nat
           /\ process_offer_core(a, amount, bps).net + process_offer_core(a, amount, bps).fee
                = amount
<1> DEFINE fee == ceil_div_u128(amount * bps, MAX_BASIS_POINTS)
<1>1. /\ process_offer_core(a, amount, bps).net \in Nat
      /\ process_offer_core(a, amount, bps).fee \in Nat
      /\ process_offer_core(a, amount, bps).out \in Nat
  BY OfferCore
<1>2. /\ process_offer_core(a, amount, bps).net = amount - fee
      /\ process_offer_core(a, amount, bps).fee = fee
  BY DEF process_offer_core, calculate_fees
<1> HIDE DEF fee
<1>3. fee \in Nat
  BY <1>1, <1>2
<1>4. QED
  BY <1>1, <1>2, <1>3

\* The fee of a take, and the refill of the redemption vault it brings.
take_fee(a, permissionless) ==
    IF permissionless THEN offers[a].fee_basis_points_permissionless
    ELSE offers[a].fee_basis_points

refill_of(a, net) ==
    calculate_redemption_vault_refill_amount(market_stats.tvl,
        redemption_vault_target_bps(a), asset[a]["redemption_vault"], net)

\* A purchase for `amount` of asset a: the ONyc paid from the ledger `from`.
Bought(a, amount, from, result, refill, proceedsTo, feeTo) ==
    /\ amount \in Nat /\ refill \in Int
    /\ result.net \in Nat /\ result.fee \in Nat /\ result.out \in Nat
    /\ result.net + result.fee = amount
    /\ IntLedger(from)
    /\ onyc'.supply = from.supply + Minted(result.out)
    /\ \A x \in OnycAccounts : onyc'.bal[x] = from.bal[x] + PaidOut(x, result.out)
    /\ \A x \in AssetAccounts : asset'[a][x] = asset[a][x]
           + PaidIn(x, amount, refill, proceedsTo, result.net - refill, feeTo, result.fee)
    /\ \A b \in Assets \ {a} : asset'[b] = asset[b]

\* The two legs make a purchase.
LEMMA LegsBuy ==
    ASSUME IInv, NEW a \in Assets, NEW amount \in Nat, NEW permissionless \in BOOLEAN,
           NEW result, NEW refill \in Int, NEW from, IntLedger(from),
           NEW proceedsTo \in AssetAccounts, NEW feeTo \in AssetAccounts,
           result.net \in Nat, result.fee \in Nat, result.out \in Nat,
           result.net + result.fee = amount,
           onyc' = token_out_ledger(from, permissionless, result.out),
           asset' = [asset EXCEPT ![a] = token_in_ledger(a, amount, permissionless, refill,
                        proceedsTo, result.net - refill, feeTo, result.fee)]
    PROVE  Bought(a, amount, from, result, refill, proceedsTo, feeTo)
<1> DEFINE net == result.net
           fee == result.fee
           out == result.out
           proceeds == net - refill
<1>1. /\ net \in Int /\ fee \in Int /\ out \in Int /\ proceeds \in Int
      /\ AllPaid(amount, permissionless, refill, proceedsTo, proceeds, feeTo, fee)
  BY DEF AllPaid
<1>2. asset \in [Assets -> [AssetAccounts -> U64]]
  BY DEF IInv, TypeOK
<1>3. asset' = [asset EXCEPT ![a] = token_in_ledger(a, amount, permissionless, refill,
                  proceedsTo, proceeds, feeTo, fee)]
      /\ onyc' = token_out_ledger(from, permissionless, out)
  OBVIOUS
<1> HIDE DEF net, fee, out, proceeds
<1>4. ASSUME NEW x \in OnycAccounts
      PROVE  /\ onyc'.bal[x] = from.bal[x] + PaidOut(x, out)
             /\ onyc'.supply = from.supply + Minted(out)
  <2> DEFINE next == token_out_ledger(from, permissionless, out)
  <2>1. /\ next.bal[x] = from.bal[x] + PaidOut(x, out)
        /\ next.supply = from.supply + Minted(out)
    BY <1>1, TokenOutAt
  <2>2. onyc' = next
    BY <1>3
  <2> HIDE DEF next
  <2>3. QED
    BY <2>1, <2>2
<1>5. onyc'.supply = from.supply + Minted(out)
  <2>1. "wallets" \in OnycAccounts
    BY DEF OnycAccounts
  <2>2. QED
    BY <1>4, <2>1
<1>6. ASSUME NEW x \in AssetAccounts
      PROVE  asset'[a][x] = asset[a][x]
               + PaidIn(x, amount, refill, proceedsTo, proceeds, feeTo, fee)
  <2>1. token_in_ledger(a, amount, permissionless, refill, proceedsTo, proceeds, feeTo, fee)[x]
          = asset[a][x] + PaidIn(x, amount, refill, proceedsTo, proceeds, feeTo, fee)
    BY <1>1, TokenInAt, SMT
  <2>2. QED
    BY <1>2, <1>3, <2>1
<1>7. QED
  BY <1>2, <1>3, <1>4, <1>5, <1>6 DEF Bought, net, fee, out, proceeds

\* take_offer_v2 and take_offer_permissionless_v2
LEMMA TakeEffect ==
    ASSUME IInv, NEW a \in Assets, NEW amount \in Nat, NEW permissionless \in BOOLEAN,
           take_offer_v2(a, amount, permissionless)
    PROVE  LET result == process_offer_core(a, amount, take_fee(a, permissionless))
           IN  /\ accrual_succeeds
               /\ Bought(a, amount, accrued.onyc, result, refill_of(a, result.net),
                         "offer_proceeds",
                         IF permissionless THEN "permissionless_offer_fee" ELSE "offer_fee")
<1> DEFINE bps    == take_fee(a, permissionless)
           feeTo  == IF permissionless THEN "permissionless_offer_fee" ELSE "offer_fee"
           result == process_offer_core(a, amount, bps)
           refill == refill_of(a, result.net)
<1>1. /\ can_process_offer(a, amount, bps) /\ accrual_succeeds
      /\ asset' = [asset EXCEPT ![a] = token_in_ledger(a, amount, permissionless, refill,
             "offer_proceeds", result.net - refill, feeTo, result.fee)]
      /\ onyc' = token_out_ledger(accrued.onyc, permissionless, result.out)
  BY DEF take_offer_v2, take_fee, refill_of
<1>2. bps \in 0..MAX_ALLOWED_FEE_BPS
  BY DEF IInv, TypeOK, OfferType, take_fee
<1>3. /\ result.net \in Nat /\ result.fee \in Nat /\ result.out \in Nat
      /\ result.net + result.fee = amount
  BY <1>1, <1>2, OfferCoreAdds
<1>4. refill \in Int
  BY <1>3, RefillTyped DEF refill_of
<1>5. IntLedger(accrued.onyc)
  BY <1>1, AccruedAt
<1>6. "offer_proceeds" \in AssetAccounts /\ feeTo \in AssetAccounts
  BY DEF AssetAccounts
<1> HIDE DEF feeTo, refill, result
<1>7. Bought(a, amount, accrued.onyc, result, refill, "offer_proceeds", feeTo)
  BY <1>1, <1>3, <1>4, <1>5, <1>6, LegsBuy
<1>8. QED
  BY <1>1, <1>7 DEF feeTo, refill, result

\* take_offer and take_offer_permissionless
LEMMA LegacyEffect ==
    ASSUME IInv, NEW a \in Assets, NEW amount \in Nat, NEW permissionless \in BOOLEAN,
           take_offer(a, amount, permissionless)
    PROVE  Bought(a, amount, onyc, process_offer_core(a, amount, offers[a].fee_basis_points),
                  0, "wallets", "wallets")
<1> DEFINE bps    == offers[a].fee_basis_points
           result == process_offer_core(a, amount, bps)
<1>1. /\ can_process_offer(a, amount, bps)
      /\ asset' = [asset EXCEPT ![a] = token_in_ledger(a, amount, permissionless, 0,
             "wallets", result.net, "wallets", result.fee)]
      /\ onyc' = token_out_ledger(onyc, permissionless, result.out)
  BY DEF take_offer
<1>2. bps \in 0..MAX_ALLOWED_FEE_BPS
  BY DEF IInv, TypeOK, OfferType
<1>3. /\ result.net \in Nat /\ result.fee \in Nat /\ result.out \in Nat
      /\ result.net + result.fee = amount
  BY <1>1, <1>2, OfferCoreAdds
<1>4. IntLedger(onyc)
  BY IInvBacked, BackedInt
<1>5. "wallets" \in AssetAccounts /\ 0 \in Int /\ result.net = result.net - 0
  BY <1>3 DEF AssetAccounts
<1> HIDE DEF result
<1>6. Bought(a, amount, onyc, result, 0, "wallets", "wallets")
  BY <1>1, <1>3, <1>4, <1>5, LegsBuy
<1>7. QED
  BY <1>6 DEF result

\* open_swap_buy
LEMMA BuyEffect ==
    ASSUME IInv, NEW a \in Assets, NEW amount \in Nat, NEW minimumOut,
           open_swap_buy(a, amount, minimumOut)
    PROVE  LET result == process_offer_core(a, amount, take_fee(a, TRUE))
           IN  /\ accrual_succeeds
               /\ Bought(a, amount, accrued.onyc, result, refill_of(a, result.net),
                         "prop_amm_proceeds", "prop_amm_buy_fee")
<1> DEFINE bps    == take_fee(a, TRUE)
           result == process_offer_core(a, amount, bps)
           refill == refill_of(a, result.net)
           from   == accrued.onyc
<1>1. /\ can_process_offer(a, amount, bps) /\ accrual_succeeds
      /\ asset' = [asset EXCEPT ![a] = token_in_ledger(a, amount, TRUE, refill,
             "prop_amm_proceeds", result.net - refill, "prop_amm_buy_fee", result.fee)]
      /\ onyc' = swap_buy_ledger(from, result.out)
  BY DEF open_swap_buy, take_fee, refill_of
<1>2. bps \in 0..MAX_ALLOWED_FEE_BPS
  BY DEF IInv, TypeOK, OfferType, take_fee
<1>3. /\ result.net \in Nat /\ result.fee \in Nat /\ result.out \in Nat
      /\ result.net + result.fee = amount
  BY <1>1, <1>2, OfferCoreAdds
<1>4. refill \in Int
  BY <1>3, RefillTyped DEF refill_of
<1>5. IntLedger(from)
  BY <1>1, AccruedAt
<1>6. "prop_amm_proceeds" \in AssetAccounts /\ "prop_amm_buy_fee" \in AssetAccounts
      /\ "wallets" \in OnycAccounts /\ TRUE \in BOOLEAN
  BY DEF AssetAccounts, OnycAccounts
<1>7. asset \in [Assets -> [AssetAccounts -> U64]]
  BY DEF IInv, TypeOK
<1> HIDE DEF refill, result, from
<1> DEFINE direct == TRUE
           net == result.net
           fee == result.fee
           out == result.out
           proceeds == net - refill
<1>8. /\ net \in Nat /\ fee \in Nat /\ out \in Int /\ proceeds \in Int /\ net + fee = amount
      /\ AllPaid(amount, direct, refill, "prop_amm_proceeds", proceeds, "prop_amm_buy_fee", fee)
  <2>1. /\ net \in Nat /\ fee \in Nat /\ out \in Int /\ proceeds \in Int /\ net + fee = amount
        /\ direct \in BOOLEAN
    BY <1>3, <1>4
  <2>2. refill + proceeds + fee = amount
    BY <1>3, <1>4
  <2> HIDE DEF net, fee, out, proceeds, direct
  <2>3. QED
    BY <1>4, <1>6, <2>1, <2>2 DEF AllPaid
<1>9. /\ onyc' = swap_buy_ledger(from, out)
      /\ asset' = [asset EXCEPT ![a] = token_in_ledger(a, amount, direct, refill,
             "prop_amm_proceeds", proceeds, "prop_amm_buy_fee", fee)]
  BY <1>1
<1> HIDE DEF direct, net, fee, out, proceeds
<1>10. ASSUME NEW x \in OnycAccounts
       PROVE  onyc'.bal[x] = from.bal[x] + PaidOut(x, out)
              /\ onyc'.supply = from.supply + Minted(out)
  <2>1. CASE program_controls_mint
    <3> DEFINE next == mint_tokens(from, "wallets", out)
    <3>1. onyc' = next
      BY <1>9, <2>1 DEF swap_buy_ledger
    <3>2. /\ next.supply = from.supply + out
          /\ next.bal[x] = from.bal[x] + (IF x = "wallets" THEN out ELSE 0)
      <4>1. out \in Int
        BY <1>8
      <4>2. QED
        BY <1>5, <4>1, MintToWallets
    <3> HIDE DEF next
    <3>3. QED
      BY <1>5, <1>8, <2>1, <3>1, <3>2, IntLedgerParts DEF PaidOut, Minted
  <2>2. CASE ~program_controls_mint
    <3>1. onyc' = token_out_ledger(from, direct, out) /\ direct \in BOOLEAN
      BY <1>9, <2>2 DEF swap_buy_ledger, direct
    <3>2. QED
      BY <1>5, <1>8, <3>1, TokenOutAt
  <2>3. QED
    BY <2>1, <2>2
<1>11. ASSUME NEW x \in AssetAccounts
       PROVE  asset'[a][x] = asset[a][x]
                + PaidIn(x, amount, refill, "prop_amm_proceeds", proceeds, "prop_amm_buy_fee", fee)
  <2>1. token_in_ledger(a, amount, direct, refill, "prop_amm_proceeds", proceeds,
                        "prop_amm_buy_fee", fee)[x]
          = asset[a][x] + PaidIn(x, amount, refill, "prop_amm_proceeds", proceeds,
                                 "prop_amm_buy_fee", fee)
    BY <1>8, TokenInAt, SMT
  <2>2. QED
    BY <1>7, <1>9, <2>1
<1>12. Bought(a, amount, from, result, refill, "prop_amm_proceeds", "prop_amm_buy_fee")
  BY <1>3, <1>4, <1>5, <1>6, <1>7, <1>9, <1>10, <1>11 DEF Bought, net, fee, out, proceeds
<1>13. QED
  BY <1>1, <1>12 DEF from, refill, result

\* A redemption of ONyc held in the redemption vault of `ledger` into asset a.
RedeemedFor(a, ledger, result, proceedsTo, feeTo, out) ==
    /\ IntLedger(ledger)
    /\ result.net \in Nat /\ result.fee \in Nat /\ out \in Nat
    /\ onyc'.supply = ledger.supply - Minted(result.net)
    /\ \A x \in OnycAccounts :
           onyc'.bal[x] = ledger.bal[x] + Redeemed(x, result.net, proceedsTo, result.fee, feeTo)
    /\ \A x \in AssetAccounts :
           asset'[a][x] = asset[a][x] + Moved(x, "redemption_vault", "wallets", out)
    /\ \A b \in Assets \ {a} : asset'[b] = asset[b]

LEMMA LegsRedeem ==
    ASSUME IInv, NEW a \in Assets, NEW ledger, IntLedger(ledger), NEW result,
           NEW proceedsTo \in OnycAccounts, NEW feeTo \in OnycAccounts, NEW out \in Nat,
           result.net \in Nat, result.fee \in Nat,
           onyc' = take_token_in(ledger, result.net, proceedsTo, result.fee, feeTo),
           asset' = [asset EXCEPT
               ![a] = transfer_tokens(@, "redemption_vault", "wallets", out)]
    PROVE  RedeemedFor(a, ledger, result, proceedsTo, feeTo, out)
<1> DEFINE net  == result.net
           fee  == result.fee
           next == take_token_in(ledger, net, proceedsTo, fee, feeTo)
           bal  == asset[a]
           paid == transfer_tokens(bal, "redemption_vault", "wallets", out)
<1>1. net \in Int /\ fee \in Int /\ out \in Int /\ onyc' = next
  OBVIOUS
<1>2. /\ asset' = [asset EXCEPT ![a] = paid] /\ asset \in [Assets -> [AssetAccounts -> U64]]
      /\ bal \in [AssetAccounts -> U64]
      /\ "redemption_vault" \in AssetAccounts /\ "wallets" \in AssetAccounts
      /\ "wallets" \in OnycAccounts
  BY DEF IInv, TypeOK, AssetAccounts, OnycAccounts
<1> HIDE DEF net, fee, bal
<1>3. ASSUME NEW x \in OnycAccounts
      PROVE  /\ next.supply = ledger.supply - Minted(net)
             /\ next.bal[x] = ledger.bal[x] + Redeemed(x, net, proceedsTo, fee, feeTo)
  <2>1. TokenInTaken(next, ledger, net, proceedsTo, fee, feeTo)
    BY <1>1 DEF TokenInTaken
  <2> HIDE DEF next
  <2>2. QED
    BY <2>1, RedeemedAt
<1>4. ASSUME NEW x \in AssetAccounts
      PROVE  paid[x] = bal[x] + Moved(x, "redemption_vault", "wallets", out)
  <2>1. bal \in [AssetAccounts -> Int]
    BY <1>2, BalancesInt
  <2>2. QED
    BY <1>1, <1>2, <2>1, TransferAt
<1> HIDE DEF next, paid
<1>5. /\ onyc'.supply = ledger.supply - Minted(net)
      /\ \A x \in OnycAccounts :
           onyc'.bal[x] = ledger.bal[x] + Redeemed(x, net, proceedsTo, fee, feeTo)
  BY <1>1, <1>2, <1>3
<1>6. /\ \A x \in AssetAccounts :
           asset'[a][x] = asset[a][x] + Moved(x, "redemption_vault", "wallets", out)
      /\ \A b \in Assets \ {a} : asset'[b] = asset[b]
  BY <1>2, <1>4 DEF bal
<1>7. QED
  BY <1>5, <1>6 DEF RedeemedFor, net, fee

\* What process_redemption_core returns adds up to what is redeemed.
LEMMA RedemptionAdds ==
    ASSUME NEW a, NEW amount \in Nat, NEW bps \in 0..MAX_ALLOWED_FEE_BPS,
           NEW minFee \in Nat, can_process_redemption(a, amount, bps, minFee)
    PROVE  LET result == process_redemption_core(a, amount, bps, minFee)
           IN  /\ result.net \in Nat /\ result.fee \in Nat /\ result.out \in Nat
               /\ result.net + result.fee = amount
<1> DEFINE result == process_redemption_core(a, amount, bps, minFee)
<1>1. result.net = amount - result.fee
  BY DEF process_redemption_core
<1>2. result.net \in Nat /\ result.fee \in Nat /\ result.out \in Nat
  BY RedemptionCore
<1> HIDE DEF result
<1>3. result.net + result.fee = amount
  BY <1>1, <1>2
<1>4. QED
  BY <1>2, <1>3 DEF result

\* fulfill_redemption_request
fulfilled(r, amount) ==
    process_redemption_core(r.offer, amount, redemption_offers[r.offer].fee_basis_points, 0)

LEMMA FulfillMoves ==
    ASSUME IInv, NEW r \in requests, NEW amount \in Nat,
           fulfill_redemption_request(r, amount)
    PROVE  /\ accrual_succeeds /\ r.offer \in Assets
           /\ fulfilled(r, amount).net + fulfilled(r, amount).fee = amount
           /\ RedeemedFor(r.offer, accrued.onyc, fulfilled(r, amount), "offer_proceeds",
                          "redemption_fee", fulfilled(r, amount).out)
<1> DEFINE a      == r.offer
           bps    == redemption_offers[a].fee_basis_points
           minFee == 0
           result == fulfilled(r, amount)
<1>1. a \in Assets /\ redemption_offers \in [Assets -> RedemptionOfferType]
  BY RequestRemaining DEF IInv, TypeOK
<1>2. /\ can_process_redemption(a, amount, bps, minFee) /\ accrual_succeeds
      /\ onyc' = take_token_in(accrued.onyc, result.net, "offer_proceeds",
                               result.fee, "redemption_fee")
      /\ asset' = [asset EXCEPT
             ![a] = transfer_tokens(@, "redemption_vault", "wallets", result.out)]
  BY DEF fulfill_redemption_request, fulfilled
<1>3. bps \in 0..MAX_ALLOWED_FEE_BPS /\ minFee \in Nat
  BY <1>1 DEF RedemptionOfferType
<1>4. result = process_redemption_core(a, amount, bps, minFee)
  BY DEF fulfilled
<1> HIDE DEF bps, minFee, result, a
<1>5. /\ result.net \in Nat /\ result.fee \in Nat /\ result.out \in Nat
      /\ result.net + result.fee = amount
  BY <1>2, <1>3, <1>4, RedemptionAdds
<1>6. /\ IntLedger(accrued.onyc) /\ "offer_proceeds" \in OnycAccounts
      /\ "redemption_fee" \in OnycAccounts
  BY <1>2, AccruedAt DEF OnycAccounts
<1>7. RedeemedFor(a, accrued.onyc, result, "offer_proceeds", "redemption_fee", result.out)
  BY <1>1, <1>2, <1>5, <1>6, LegsRedeem
<1>8. QED
  BY <1>1, <1>2, <1>5, <1>7 DEF a, result

\* open_swap_sell: the seller's ONyc goes into the redemption vault first.
LEMMA SellEffect ==
    ASSUME IInv, NEW a \in Assets, NEW amount \in Nat, NEW minimumOut,
           open_swap_sell(a, amount, minimumOut)
    PROVE  LET tvl == refreshed_market_stats(onyc.supply).tvl
           IN  /\ accrual_succeeds
               /\ sell_result(a, amount).net + sell_result(a, amount).fee = amount
               /\ sell_result(a, amount).out \in Nat
               /\ IntLedger(accrued.onyc)
               /\ onyc_received(accrued.onyc, amount).supply = accrued.onyc.supply
               /\ \A x \in OnycAccounts :
                      onyc_received(accrued.onyc, amount).bal[x] = accrued.onyc.bal[x]
                          + Moved(x, "wallets", "redemption_vault", amount)
               /\ RedeemedFor(a, onyc_received(accrued.onyc, amount), sell_result(a, amount),
                      "prop_amm_proceeds", "prop_amm_sell_fee", sell_output(a, amount, tvl))
<1> DEFINE tvl      == refreshed_market_stats(onyc.supply).tvl
           result   == sell_result(a, amount)
           out      == sell_output(a, amount, tvl)
           from     == accrued.onyc
           received == onyc_received(from, amount)
           bps      == sell_fee(a)
           minFee   == prop_amm[a].config.minimum_sell_haircut_onyc
<1>1. /\ can_price_sell(a, amount, tvl) /\ accrual_succeeds
      /\ onyc' = take_token_in(received, result.net, "prop_amm_proceeds",
                               result.fee, "prop_amm_sell_fee")
      /\ asset' = [asset EXCEPT
             ![a] = transfer_tokens(@, "redemption_vault", "wallets", out)]
  BY DEF open_swap_sell
<1>2. bps \in 0..MAX_ALLOWED_FEE_BPS
  <2>1. /\ redemption_offers[a].fee_basis_points_prop_amm_sell \in 0..MAX_ALLOWED_FEE_BPS
        /\ 0 \in 0..MAX_ALLOWED_FEE_BPS
    BY StateAssumption, ScaleAssumption DEF IInv, TypeOK, RedemptionOfferType
  <2>2. QED
    BY <2>1 DEF sell_fee
<1>3. minFee \in Nat
  BY DEF IInv, TypeOK, PairState, PairConfig
<1>4. can_process_redemption(a, amount, bps, minFee)
  BY <1>1 DEF can_price_sell
<1>5. result = process_redemption_core(a, amount, bps, minFee)
  BY DEF sell_result
<1>6. out \in Nat
  BY <1>1, U64Int DEF can_price_sell, Fits
<1>7. IntLedger(from)
  BY <1>1, AccruedAt
<1>8. Transferred(received, from, "wallets", "redemption_vault", amount)
  BY DEF onyc_received, Transferred
<1> HIDE DEF tvl, result, out, from, received, bps, minFee
<1>9. /\ result.net \in Nat /\ result.fee \in Nat /\ result.out \in Nat
      /\ result.net + result.fee = amount
  BY <1>2, <1>3, <1>4, <1>5, RedemptionAdds
<1>10. /\ "wallets" \in OnycAccounts /\ "redemption_vault" \in OnycAccounts
       /\ "prop_amm_proceeds" \in OnycAccounts /\ "prop_amm_sell_fee" \in OnycAccounts
       /\ amount \in Int
  BY DEF OnycAccounts
<1>11. ASSUME NEW x \in OnycAccounts
       PROVE  /\ IntLedger(received) /\ received.supply = from.supply
              /\ received.bal[x]
                   = from.bal[x] + Moved(x, "wallets", "redemption_vault", amount)
  BY <1>7, <1>8, <1>10, LedgerTransfer
<1>12. IntLedger(received) /\ received.supply = from.supply
  BY <1>10, <1>11
<1>13. RedeemedFor(a, received, result, "prop_amm_proceeds", "prop_amm_sell_fee", out)
  BY <1>1, <1>6, <1>9, <1>10, <1>12, LegsRedeem
<1>14. QED
  BY <1>1, <1>7, <1>9, <1>11, <1>12, <1>13 DEF tvl, result, out, from, received

-----------------------------------------------------------------------------
(* The intermediary accounts.                                              *)

\* A step that leaves the intermediary accounts as they are.
Passed ==
    /\ onyc'.bal["permissionless"] = onyc.bal["permissionless"]
    /\ \A a \in Assets : asset'[a]["permissionless"] = asset[a]["permissionless"]

\* The accrual of a step that succeeds.
LEMMA AccruedPasses ==
    ASSUME IInv, accrual_succeeds
    PROVE  /\ accrued.onyc.bal["permissionless"] = onyc.bal["permissionless"]
           /\ onyc.bal["permissionless"] \in Int
<1>1. "permissionless" \in OnycAccounts \ Earnings
  BY DEF OnycAccounts, Earnings
<1>2. accrued.onyc.bal["permissionless"] = onyc.bal["permissionless"]
  BY <1>1, AccruedAt
<1>3. QED
  BY <1>1, <1>2, IInvBacked, BackedInt, IntLedgerParts

\* A purchase and a redemption between other accounts.
LEMMA BoughtPasses ==
    ASSUME IInv, NEW a \in Assets, NEW amount, NEW from, NEW result, NEW refill,
           NEW proceedsTo \in AssetAccounts \ {"permissionless"},
           NEW feeTo \in AssetAccounts \ {"permissionless"},
           Bought(a, amount, from, result, refill, proceedsTo, feeTo),
           from.bal["permissionless"] = onyc.bal["permissionless"]
    PROVE  Passed
<1> DEFINE x == "permissionless"
<1>1. /\ x \in OnycAccounts /\ x \in AssetAccounts /\ x # "wallets" /\ x # "offer_vault"
      /\ x # "redemption_vault" /\ x # proceedsTo /\ x # feeTo
  BY DEF OnycAccounts, AssetAccounts
<1>2. asset \in [Assets -> [AssetAccounts -> U64]] /\ onyc.bal \in [OnycAccounts -> U64]
  BY DEF IInv, TypeOK
<1> HIDE DEF x
<1>3. onyc.bal[x] \in Int /\ asset[a][x] \in Int
  BY <1>1, <1>2, U64Int
<1>4. /\ onyc'.bal[x] = from.bal[x] + PaidOut(x, result.out)
      /\ asset'[a][x] = asset[a][x]
           + PaidIn(x, amount, refill, proceedsTo, result.net - refill, feeTo, result.fee)
      /\ \A b \in Assets \ {a} : asset'[b] = asset[b]
  BY <1>1 DEF Bought
<1>5. /\ PaidOut(x, result.out) = 0
      /\ PaidIn(x, amount, refill, proceedsTo, result.net - refill, feeTo, result.fee) = 0
  BY <1>1 DEF PaidOut, PaidIn
<1>6. onyc'.bal[x] = onyc.bal[x]
  BY <1>3, <1>4, <1>5 DEF x
<1>7. asset'[a][x] = asset[a][x]
  BY <1>3, <1>4, <1>5
<1>8. QED
  BY <1>4, <1>6, <1>7 DEF Passed, x

LEMMA RedeemedPasses ==
    ASSUME IInv, NEW a \in Assets, NEW ledger, NEW result, NEW out,
           NEW proceedsTo \in OnycAccounts \ {"permissionless"},
           NEW feeTo \in OnycAccounts \ {"permissionless"},
           RedeemedFor(a, ledger, result, proceedsTo, feeTo, out),
           ledger.bal["permissionless"] = onyc.bal["permissionless"]
    PROVE  Passed
<1> DEFINE x == "permissionless"
<1>1. /\ x \in OnycAccounts /\ x \in AssetAccounts /\ x # "wallets"
      /\ x # "redemption_vault" /\ x # proceedsTo /\ x # feeTo
  BY DEF OnycAccounts, AssetAccounts
<1>2. asset \in [Assets -> [AssetAccounts -> U64]] /\ onyc.bal \in [OnycAccounts -> U64]
  BY DEF IInv, TypeOK
<1> HIDE DEF x
<1>3. onyc.bal[x] \in Int /\ asset[a][x] \in Int
  BY <1>1, <1>2, U64Int
<1>4. /\ onyc'.bal[x] = ledger.bal[x] + Redeemed(x, result.net, proceedsTo, result.fee, feeTo)
      /\ asset'[a][x] = asset[a][x] + Moved(x, "redemption_vault", "wallets", out)
      /\ \A b \in Assets \ {a} : asset'[b] = asset[b]
  BY <1>1 DEF RedeemedFor
<1>5. /\ Redeemed(x, result.net, proceedsTo, result.fee, feeTo) = 0
      /\ Moved(x, "redemption_vault", "wallets", out) = 0
  BY <1>1 DEF Redeemed, Moved
<1>6. onyc'.bal[x] = onyc.bal[x]
  BY <1>3, <1>4, <1>5 DEF x
<1>7. asset'[a][x] = asset[a][x]
  BY <1>3, <1>4, <1>5
<1>8. QED
  BY <1>4, <1>6, <1>7 DEF Passed, x

\* A transfer of ONyc between other accounts.
LEMMA OnycMoved ==
    ASSUME IInv, NEW from \in OnycAccounts \ {"permissionless"},
           NEW to \in OnycAccounts \ {"permissionless"}, NEW n \in Int,
           Transferred(onyc', onyc, from, to, n), UNCHANGED asset
    PROVE  Passed
<1> DEFINE x == "permissionless"
<1>1. x \in OnycAccounts /\ x # from /\ x # to
  BY DEF OnycAccounts
<1> HIDE DEF x
<1>2. IntLedger(onyc) /\ onyc.bal[x] \in Int
  BY <1>1, IInvBacked, BackedInt, IntLedgerParts
<1>3. onyc'.bal[x] = onyc.bal[x] + Moved(x, from, to, n)
  BY <1>1, <1>2, LedgerTransfer
<1>4. onyc'.bal[x] = onyc.bal[x]
  BY <1>1, <1>2, <1>3 DEF Moved
<1>5. QED
  BY <1>4 DEF Passed, x

\* A mint or a burn of ONyc of another account.
LEMMA OnycMinted ==
    ASSUME IInv, NEW from, IntLedger(from), NEW n \in Int,
           from.bal["permissionless"] = onyc.bal["permissionless"],
           NEW to \in OnycAccounts \ {"permissionless"},
           \/ onyc' = mint_tokens(from, to, n)
           \/ onyc' = burn_tokens(from, to, n),
           UNCHANGED asset
    PROVE  Passed
<1>1. /\ mint_tokens(from, to, n).bal["permissionless"] = from.bal["permissionless"]
      /\ burn_tokens(from, to, n).bal["permissionless"] = from.bal["permissionless"]
  BY DEF mint_tokens, burn_tokens, IntLedger, OnycAccounts
<1>2. QED
  BY <1>1 DEF Passed

\* A transfer of an asset between other accounts.
LEMMA AssetMoved ==
    ASSUME IInv, NEW a \in Assets, NEW from \in AssetAccounts \ {"permissionless"},
           NEW to \in AssetAccounts \ {"permissionless"}, NEW n \in Int,
           asset' = [asset EXCEPT ![a] = transfer_tokens(@, from, to, n)]
    PROVE  \A b \in Assets : asset'[b]["permissionless"] = asset[b]["permissionless"]
<1> DEFINE bal  == asset[a]
           next == transfer_tokens(bal, from, to, n)
<1>1. /\ asset \in [Assets -> [AssetAccounts -> U64]] /\ "permissionless" \in AssetAccounts
      /\ bal \in [AssetAccounts -> U64]
  BY DEF IInv, TypeOK, AssetAccounts
<1>2. asset' = [asset EXCEPT ![a] = next]
  OBVIOUS
<1> HIDE DEF bal
<1>3. bal \in [AssetAccounts -> Int] /\ bal["permissionless"] \in Int
  BY <1>1, BalancesInt
<1>4. next["permissionless"] = bal["permissionless"] + Moved("permissionless", from, to, n)
  BY <1>1, <1>3, TransferAt
<1> HIDE DEF next
<1>5. next["permissionless"] = bal["permissionless"]
  BY <1>3, <1>4 DEF Moved
<1>6. QED
  BY <1>1, <1>2, <1>5 DEF bal

\* Redemption requests; fulfilments take the ONyc from the redemption vault.
LEMMA RequestPassed ==
    ASSUME IInv, RedemptionStep
    PROVE  Passed
<1>1. /\ "wallets" \in OnycAccounts \ {"permissionless"}
      /\ "redemption_vault" \in OnycAccounts \ {"permissionless"}
  BY DEF OnycAccounts
<1>2. ASSUME NEW a \in Assets, NEW amount \in Inputs.request,
             create_redemption_request(a, amount)
      PROVE  Passed
  <2>1. amount \in Int
    BY InputAssumption
  <2>2. Transferred(onyc', onyc, "wallets", "redemption_vault", amount) /\ UNCHANGED asset
    BY <1>2 DEF create_redemption_request, Transferred
  <2>3. QED
    BY <1>1, <2>1, <2>2, OnycMoved
<1>3. ASSUME NEW r \in requests, cancel_redemption_request(r)
      PROVE  Passed
  <2>1. remaining(r) \in Int
    BY RequestRemaining DEF IInv, TypeOK
  <2>2. Transferred(onyc', onyc, "redemption_vault", "wallets", remaining(r))
        /\ UNCHANGED asset
    BY <1>3 DEF cancel_redemption_request, Transferred
  <2>3. QED
    BY <1>1, <2>1, <2>2, OnycMoved
<1>4. ASSUME NEW r \in requests, NEW amount \in Inputs.fulfill,
             fulfill_redemption_request(r, amount)
      PROVE  Passed
  <2>1. amount \in Nat
    BY InputAssumption
  <2>2. /\ accrual_succeeds /\ r.offer \in Assets
        /\ RedeemedFor(r.offer, accrued.onyc, fulfilled(r, amount), "offer_proceeds",
                       "redemption_fee", fulfilled(r, amount).out)
    BY <1>4, <2>1, FulfillMoves
  <2>3. /\ "offer_proceeds" \in OnycAccounts \ {"permissionless"}
        /\ "redemption_fee" \in OnycAccounts \ {"permissionless"}
    BY DEF OnycAccounts
  <2>4. QED
    BY <2>2, <2>3, AccruedPasses, RedeemedPasses
<1>5. ASSUME NEW a, NEW fee, NEW sellFee, NEW disabled,
             \/ make_redemption_offer(a, fee, sellFee)
             \/ update_redemption_offer_fee(a, fee)
             \/ update_redemption_offer_prop_amm_sell_fee(a, fee)
             \/ update_redemption_offer_vault_target(a, fee)
             \/ set_redemption_offer_disabled(a, disabled)
      PROVE  Passed
  <2>1. UNCHANGED <<onyc, asset>>
    BY <1>5 DEF make_redemption_offer, update_redemption_offer_fee,
                update_redemption_offer_prop_amm_sell_fee,
                update_redemption_offer_vault_target, set_redemption_offer_disabled
  <2>2. QED
    BY <2>1 DEF Passed
<1>6. QED
  BY <1>2, <1>3, <1>4, <1>5 DEF RedemptionStep

\* The BUFFER instructions and mint_to.
LEMMA BufferPassed ==
    ASSUME IInv, BufferStep
    PROVE  Passed
<1>1. /\ "wallets" \in OnycAccounts \ {"permissionless"}
      /\ "reserve" \in OnycAccounts \ {"permissionless"}
  BY DEF OnycAccounts
<1>2. ASSUME can_accrue_buffer, buffer.initialized, program_controls_mint
      PROVE  /\ IntLedger(accrue_buffer.onyc)
             /\ accrue_buffer.onyc.bal["permissionless"] = onyc.bal["permissionless"]
  <2>1. accrual_succeeds /\ accrued = accrue_buffer
    BY <1>2 DEF accrual_succeeds, accrued, should_accrue_onyc_mint
  <2>2. IntLedger(accrued.onyc)
    BY <2>1, AccruedAt
  <2>3. QED
    BY <2>1, <2>2, AccruedPasses
<1>3. CASE initialize_buffer
  <2>1. UNCHANGED <<onyc, asset>>
    BY <1>3 DEF initialize_buffer
  <2>2. QED
    BY <2>1 DEF Passed
<1>4. ASSUME accrue_and_refresh(accrue_buffer)
      PROVE  Passed
  <2>1. /\ can_accrue_buffer /\ buffer.initialized /\ program_controls_mint
        /\ onyc' = accrue_buffer.onyc /\ UNCHANGED asset
    BY <1>4 DEF accrue_and_refresh
  <2>2. QED
    BY <1>2, <2>1 DEF Passed
<1>5. ASSUME NEW apr, NEW mgmt, NEW perf, NEW hwmEnabled,
             \/ settle_buffer \/ set_buffer_gross_apr(apr)
             \/ set_buffer_fee_config(mgmt, perf, hwmEnabled)
      PROVE  Passed
  BY <1>4, <1>5 DEF settle_buffer, set_buffer_gross_apr, set_buffer_fee_config
<1>6. ASSUME NEW adjustment \in Inputs.adjustment, burn_for_nav_increase(adjustment)
      PROVE  Passed
  <2> DEFINE circulating == calculate_circulating_supply(accrue_buffer.onyc.supply,
                                                         excluded.amount)
             tvl  == calculate_tvl(circulating, current_nav)
             burn == calculate_burn_amount(circulating, tvl, adjustment, current_nav)
  <2>1. /\ can_accrue_buffer /\ buffer.initialized /\ program_controls_mint
        /\ onyc' = burn_tokens(accrue_buffer.onyc, "reserve", burn)
        /\ UNCHANGED asset
    BY <1>6 DEF burn_for_nav_increase
  <2>2. /\ IntLedger(accrue_buffer.onyc)
        /\ accrue_buffer.onyc.bal["permissionless"] = onyc.bal["permissionless"]
    BY <1>2, <2>1
  <2> HIDE DEF burn
  <2>3. burn_tokens(accrue_buffer.onyc, "reserve", burn).bal["permissionless"]
          = accrue_buffer.onyc.bal["permissionless"]
    BY <2>2 DEF burn_tokens, IntLedger, OnycAccounts
  <2>4. QED
    BY <2>1, <2>2, <2>3 DEF Passed
<1>7. ASSUME NEW amount \in Inputs.reserve,
             deposit_reserve_vault(amount) \/ withdraw_reserve_vault(amount)
      PROVE  Passed
  <2>1. amount \in Int
    BY InputAssumption
  <2>2. /\ \/ Transferred(onyc', onyc, "wallets", "reserve", amount)
           \/ Transferred(onyc', onyc, "reserve", "wallets", amount)
        /\ UNCHANGED asset
    BY <1>7 DEF deposit_reserve_vault, withdraw_reserve_vault, move_reserve, Transferred
  <2>3. QED
    BY <1>1, <2>1, <2>2, OnycMoved
<1>8. ASSUME NEW amount \in Inputs.mint, mint_to(amount)
      PROVE  Passed
  <2>1. /\ accrual_succeeds /\ onyc' = mint_tokens(accrued.onyc, "wallets", amount)
        /\ UNCHANGED asset
    BY <1>8 DEF mint_to
  <2>2. /\ IntLedger(accrued.onyc) /\ amount \in Int
        /\ accrued.onyc.bal["permissionless"] = onyc.bal["permissionless"]
    BY <2>1, AccruedAt, AccruedPasses, InputAssumption
  <2>3. QED
    BY <1>1, <2>1, <2>2, OnycMinted
<1>9. QED
  BY <1>3, <1>5, <1>6, <1>7, <1>8 DEF BufferStep

\* The takes, legacy and v2.
LEMMA TakeStepPassed ==
    ASSUME IInv, TakeStep
    PROVE  Passed
<1>1. ASSUME NEW x \in {"offer_proceeds", "offer_fee", "permissionless_offer_fee", "wallets"}
      PROVE  x \in AssetAccounts \ {"permissionless"}
  BY DEF AssetAccounts
<1>2. ASSUME NEW a \in Assets, NEW permissionless \in Inputs.permissionless,
             NEW amount \in Inputs.take, take_offer_v2(a, amount, permissionless)
      PROVE  Passed
  <2> DEFINE result == process_offer_core(a, amount, take_fee(a, permissionless))
             feeTo  == IF permissionless THEN "permissionless_offer_fee" ELSE "offer_fee"
  <2>1. amount \in Nat /\ permissionless \in BOOLEAN
    BY InputAssumption
  <2>2. /\ accrual_succeeds
        /\ Bought(a, amount, accrued.onyc, result, refill_of(a, result.net), "offer_proceeds",
                  feeTo)
    BY <1>2, <2>1, TakeEffect
  <2>3. feeTo \in AssetAccounts \ {"permissionless"}
        /\ "offer_proceeds" \in AssetAccounts \ {"permissionless"}
    BY <1>1
  <2> HIDE DEF result, feeTo
  <2>4. QED
    BY <2>2, <2>3, AccruedPasses, BoughtPasses
<1>3. ASSUME NEW a \in Assets, NEW permissionless \in Inputs.permissionless,
             NEW amount \in Inputs.legacy_take, take_offer(a, amount, permissionless)
      PROVE  Passed
  <2> DEFINE result == process_offer_core(a, amount, offers[a].fee_basis_points)
             none   == 0
  <2>1. amount \in Nat /\ permissionless \in BOOLEAN
    BY InputAssumption
  <2>2. Bought(a, amount, onyc, result, none, "wallets", "wallets")
    BY <1>3, <2>1, LegacyEffect
  <2>3. "wallets" \in AssetAccounts \ {"permissionless"}
    BY <1>1
  <2> HIDE DEF result, none
  <2>4. QED
    BY <2>2, <2>3, BoughtPasses
<1>4. QED
  BY <1>2, <1>3 DEF TakeStep

\* The Prop AMM.
LEMMA SwapPassed ==
    ASSUME IInv, SwapStep
    PROVE  Passed
<1>1. ASSUME NEW a \in Assets, NEW c \in Inputs.prop_amm, configure_prop_amm(a, c)
      PROVE  Passed
  <2>1. UNCHANGED <<onyc, asset>>
    BY <1>1 DEF configure_prop_amm
  <2>2. QED
    BY <2>1 DEF Passed
<1>2. ASSUME NEW a \in Assets, NEW amount \in Inputs.swap,
             NEW minimumOut \in Inputs.minimum_out, open_swap_buy(a, amount, minimumOut)
      PROVE  Passed
  <2> DEFINE result == process_offer_core(a, amount, take_fee(a, TRUE))
  <2>1. amount \in Nat
    BY InputAssumption
  <2>2. /\ accrual_succeeds
        /\ Bought(a, amount, accrued.onyc, result, refill_of(a, result.net),
                  "prop_amm_proceeds", "prop_amm_buy_fee")
    BY <1>2, <2>1, BuyEffect
  <2>3. /\ "prop_amm_proceeds" \in AssetAccounts \ {"permissionless"}
        /\ "prop_amm_buy_fee" \in AssetAccounts \ {"permissionless"}
    BY DEF AssetAccounts
  <2> HIDE DEF result
  <2>4. QED
    BY <2>2, <2>3, AccruedPasses, BoughtPasses
<1>3. ASSUME NEW a \in Assets, NEW amount \in Inputs.swap,
             NEW minimumOut \in Inputs.minimum_out, open_swap_sell(a, amount, minimumOut)
      PROVE  Passed
  <2> DEFINE out      == sell_output(a, amount, refreshed_market_stats(onyc.supply).tvl)
             received == onyc_received(accrued.onyc, amount)
             x        == "permissionless"
  <2>1. amount \in Nat
    BY InputAssumption
  <2>2. /\ accrual_succeeds
        /\ \A y \in OnycAccounts : received.bal[y]
              = accrued.onyc.bal[y] + Moved(y, "wallets", "redemption_vault", amount)
        /\ RedeemedFor(a, received, sell_result(a, amount), "prop_amm_proceeds",
                       "prop_amm_sell_fee", out)
    BY <1>3, <2>1, SellEffect
  <2>3. /\ "prop_amm_proceeds" \in OnycAccounts \ {"permissionless"}
        /\ "prop_amm_sell_fee" \in OnycAccounts \ {"permissionless"}
        /\ x \in OnycAccounts /\ x # "wallets" /\ x # "redemption_vault"
    BY DEF OnycAccounts
  <2>4. accrued.onyc.bal[x] = onyc.bal[x] /\ onyc.bal[x] \in Int
    BY <2>2, AccruedPasses
  <2> HIDE DEF out, received, x
  <2>5. Moved(x, "wallets", "redemption_vault", amount) = 0
    BY <2>3 DEF Moved
  <2>6. received.bal[x] = onyc.bal[x]
    BY <2>2, <2>3, <2>4, <2>5
  <2>7. QED
    BY <2>2, <2>3, <2>6, RedeemedPasses DEF x
<1>4. QED
  BY <1>1, <1>2, <1>3 DEF SwapStep

\* Vaults, switches, caps, and what happens outside.
LEMMA OperationPassed ==
    ASSUME IInv, OperationStep
    PROVE  Passed
<1>1. /\ "wallets" \in OnycAccounts \ {"permissionless"}
      /\ "wallets" \in AssetAccounts \ {"permissionless"}
      /\ Vaults \subseteq OnycAccounts \ {"permissionless"}
      /\ Vaults \subseteq AssetAccounts \ {"permissionless"}
      /\ "permissionless" \notin VaultKinds
  BY DEF OnycAccounts, AssetAccounts, Vaults, VaultKinds
<1>2. ASSUME NEW from \in OnycAccounts \ {"permissionless"},
             NEW to \in OnycAccounts \ {"permissionless"}, NEW n \in Int,
             move_onyc(from, to, n)
      PROVE  Passed
  <2>1. Transferred(onyc', onyc, from, to, n) /\ UNCHANGED asset
    BY <1>2 DEF move_onyc, Transferred
  <2>2. QED
    BY <2>1, OnycMoved
<1>3. ASSUME NEW a \in Assets, NEW from \in AssetAccounts \ {"permissionless"},
             NEW to \in AssetAccounts \ {"permissionless"}, NEW n \in Int,
             move_asset(a, from, to, n)
      PROVE  Passed
  <2>1. asset' = [asset EXCEPT ![a] = transfer_tokens(@, from, to, n)] /\ UNCHANGED onyc
    BY <1>3 DEF move_asset
  <2>2. QED
    BY <2>1, AssetMoved DEF Passed
<1>4. ASSUME NEW vault \in Vaults, NEW amount \in Inputs.deposit \union Inputs.withdraw,
             \/ vault_deposit_onyc(vault, amount) \/ vault_withdraw_onyc(vault, amount)
             \/ \E a \in Assets : \/ vault_deposit_asset(a, vault, amount)
                                  \/ vault_withdraw_asset(a, vault, amount)
      PROVE  Passed
  <2>1. amount \in Int
    BY InputAssumption
  <2>2. QED
    BY <1>1, <1>2, <1>3, <1>4, <2>1
    DEF vault_deposit_onyc, vault_withdraw_onyc, vault_deposit_asset, vault_withdraw_asset
<1>5. ASSUME NEW kind \in VaultKinds, NEW amount \in Inputs.vault_withdraw,
             \/ /\ kind \in OnycAccounts
                /\ withdraw_configurable_vault_onyc(kind, amount)
             \/ /\ kind \in AssetAccounts
                /\ \E a \in Assets : withdraw_configurable_vault_asset(a, kind, amount)
      PROVE  Passed
  <2>1. amount \in Nat
    BY InputAssumption
  <2>2. CASE kind \in OnycAccounts /\ withdraw_configurable_vault_onyc(kind, amount)
    <3> DEFINE n == effective_amount(onyc.bal[kind], amount)
    <3>1. onyc.bal[kind] \in U64
      BY <2>2 DEF IInv, TypeOK
    <3>2. n \in Int
      BY <2>1, <3>1, U64Int DEF effective_amount
    <3>3. move_onyc(kind, "wallets", n) /\ kind \in OnycAccounts \ {"permissionless"}
      BY <1>1, <2>2 DEF withdraw_configurable_vault_onyc
    <3> HIDE DEF n
    <3>4. QED
      BY <1>1, <1>2, <3>2, <3>3
  <2>3. ASSUME NEW a \in Assets, kind \in AssetAccounts,
               withdraw_configurable_vault_asset(a, kind, amount)
        PROVE  Passed
    <3> DEFINE n == effective_amount(asset[a][kind], amount)
    <3>1. asset[a][kind] \in U64
      BY <2>3 DEF IInv, TypeOK
    <3>2. n \in Int
      BY <2>1, <3>1, U64Int DEF effective_amount
    <3>3. move_asset(a, kind, "wallets", n) /\ kind \in AssetAccounts \ {"permissionless"}
      BY <1>1, <2>3 DEF withdraw_configurable_vault_asset
    <3> HIDE DEF n
    <3>4. QED
      BY <1>1, <1>3, <3>2, <3>3
  <2>4. QED
    BY <1>5, <2>2, <2>3
<1>6. ASSUME NEW x, NEW y,
             \/ set_configurable_vault_destination(x, y)
             \/ set_circulating_supply_excluded_accounts(x)
             \/ update_circulating_supply_excluded_balance
             \/ refresh_market_stats
             \/ set_kill_switch(x) \/ configure_max_supply(x)
             \/ configure_max_mint_amount(x) \/ set_main_offer(x)
             \/ transfer_mint_authority_to_program \/ transfer_mint_authority_to_boss
             \/ tick
      PROVE  Passed
  <2>1. UNCHANGED <<onyc, asset>>
    BY <1>6 DEF set_configurable_vault_destination,
                set_circulating_supply_excluded_accounts,
                update_circulating_supply_excluded_balance, refresh_market_stats,
                set_kill_switch, configure_max_supply, configure_max_mint_amount,
                set_main_offer, only_state_changes, transfer_mint_authority_to_program,
                transfer_mint_authority_to_boss, transfer_mint_authority, tick
  <2>2. QED
    BY <2>1 DEF Passed
<1>7. ASSUME NEW amount \in Inputs.external, external_burn(amount) \/ external_mint(amount)
      PROVE  Passed
  <2>1. IntLedger(onyc) /\ amount \in Int
    BY IInvBacked, BackedInt, InputAssumption
  <2>2. /\ \/ onyc' = mint_tokens(onyc, "wallets", amount)
           \/ onyc' = burn_tokens(onyc, "wallets", amount)
        /\ UNCHANGED asset
    BY <1>7 DEF external_burn, external_mint
  <2>3. QED
    BY <1>1, <2>1, <2>2, OnycMinted
<1>8. QED
  BY <1>4, <1>5, <1>6, <1>7 DEF OperationStep

\* The configuration of offers.
LEMMA OfferPassed ==
    ASSUME OfferStep
    PROVE  Passed
<1>1. UNCHANGED <<onyc, asset>>
  BY DEF OfferStep, make_offer, update_offer_fee, update_offer_permissionless_fee,
         set_offer_disabled, add_offer_vector, delete_offer_vector, delete_all_offer_vectors,
         only_offers_change
<1>2. QED
  BY <1>1 DEF Passed

\* The intermediary accounts of permissionless takes and of buys are empty
\* between instructions, whatever the amounts, fees, refills and roundings,
\* and whoever holds the mint authority.
THEOREM IntermediaryAlwaysEmpty == Spec => []IntermediaryEmpty
<1>1. Init => IntermediaryEmpty
  BY DEF Init, IntermediaryEmpty, OnycAccounts, AssetAccounts
<1>2. IInv /\ IntermediaryEmpty /\ [Next]_vars => IntermediaryEmpty'
  <2>1. SUFFICES ASSUME IInv, IntermediaryEmpty, [Next]_vars
                 PROVE  IntermediaryEmpty'
    OBVIOUS
  <2>2. Passed
    <3>1. UNCHANGED vars => Passed
      BY DEF vars, Passed
    <3>2. QED
      BY <2>1, <3>1, RequestPassed, BufferPassed, TakeStepPassed, SwapPassed,
         OfferPassed, OperationPassed DEF Next
  <2>3. QED
    BY <2>1, <2>2 DEF Passed, IntermediaryEmpty
<1>3. QED
  BY <1>1, <1>2, InitIInv, NextIInv, PTL DEF Spec

-----------------------------------------------------------------------------
(* The trackers of the Prop AMM.                                           *)

\* The pressure of a pair before any order (Pressure is that of prop_amm[a]).
PairPressure(p, now) == preview_effective_sell_volume(p, 0, now)

\* A larger share of the same pressure is no smaller, the whole is the whole.
LEMMA ShareMonotone ==
    ASSUME NEW n \in Nat, NEW j \in Nat, NEW k \in Nat, j <= k, NEW d \in Nat \ {0}
    PROVE  (n * j) \div d <= (n * k) \div d
<1> DEFINE x == n * j
           y == n * k
<1>1. j * n <= k * n
  BY ProductMonotone
<1>2. x \in Nat /\ y \in Nat /\ x <= y
  BY <1>1, NatProduct
<1> HIDE DEF x, y
<1>3. y \div d \in Int /\ y < (y \div d) * d + d
  BY <1>2, Division
<1>4. x \div d \in Int /\ (x \div d) * d <= x
  BY <1>2, Division
<1>5. QED
  <2> DEFINE q == x \div d
             r == y \div d
  <2>1. q \in Int /\ r \in Int /\ q * d <= x /\ y < r * d + d
    BY <1>3, <1>4
  <2> HIDE DEF q, r
  <2>2. SUFFICES ASSUME r + 1 <= q PROVE FALSE
    BY <2>1 DEF q, r, x, y
  <2>3. (r + 1) * d <= q * d
    BY <2>1, <2>2, ProductMonotone
  <2>4. (r + 1) * d = r * d + d
    BY <2>1
  <2>5. r * d \in Int /\ q * d \in Int
    BY <2>1
  <2>6. QED
    BY <1>2, <2>1, <2>3, <2>4, <2>5

LEMMA WholeShare ==
    ASSUME NEW n \in Nat, NEW d \in Nat \ {0}
    PROVE  (n * d) \div d = n
  OBVIOUS

\* The numbers of a tracker.
LEMMA TrackerTyped ==
    ASSUME NEW p \in PairState
    PROVE  /\ p.curr_sell_value_stable \in Nat /\ p.curr_buy_value_stable \in Nat
           /\ p.prev_net_sell_value_stable \in Nat /\ p.curr_sell_trade_count \in Nat
           /\ p.epoch_start \in Nat /\ p.config.epoch_duration_seconds \in Nat
           /\ current_net(p) \in Nat
           /\ current_net(p) <= p.curr_sell_value_stable
<1>1. /\ p.curr_sell_value_stable \in U64 /\ p.curr_buy_value_stable \in U64
      /\ p.prev_net_sell_value_stable \in U64 /\ p.curr_sell_trade_count \in 0..U32_MAX
      /\ p.epoch_start \in Nat /\ p.config.epoch_duration_seconds \in U64
  BY DEF PairState, PairConfig
<1>2. /\ p.curr_sell_value_stable \in Nat /\ p.curr_buy_value_stable \in Nat
      /\ p.prev_net_sell_value_stable \in Nat /\ p.curr_sell_trade_count \in Nat
      /\ p.config.epoch_duration_seconds \in Nat
  BY <1>1, U64Int, CurveAssumption
<1>3. QED
  BY <1>1, <1>2 DEF current_net, saturating_sub

\* The pressure, epoch by epoch.
Fresh(p, now) == ~tracker_expired(p, now) /\ ~epoch_over(p, now)

LEMMA PressureCases ==
    ASSUME NEW p \in PairState, NEW now \in Nat
    PROVE  /\ tracker_expired(p, now) => PairPressure(p, now) = 0
           /\ ~tracker_expired(p, now) /\ epoch_over(p, now) =>
                  PairPressure(p, now) = current_net(p)
           /\ Fresh(p, now) =>
                  /\ p.config.epoch_duration_seconds \in Nat \ {0}
                  /\ p.epoch_start \in Nat \ {0} /\ p.epoch_start <= now
                  /\ p.config.epoch_duration_seconds - (now - p.epoch_start) \in Nat \ {0}
                  /\ PairPressure(p, now) =
                         (p.prev_net_sell_value_stable
                             * (p.config.epoch_duration_seconds - (now - p.epoch_start)))
                           \div p.config.epoch_duration_seconds
                         + current_net(p)
           /\ PairPressure(p, now) \in Nat
<1> DEFINE d    == p.config.epoch_duration_seconds
           s    == p.epoch_start
           net  == current_net(p)
           prev == p.prev_net_sell_value_stable
           rest == d - (now - s)
<1>1. d \in Nat /\ s \in Nat /\ net \in Nat /\ prev \in Nat
  BY TrackerTyped
<1>2. PairPressure(p, now) =
        IF tracker_expired(p, now) THEN 0
        ELSE IF epoch_over(p, now) THEN net + 0
        ELSE (prev * rest) \div d + net + 0
  BY DEF PairPressure, preview_effective_sell_volume
<1>3. tracker_expired(p, now) <=> (s = 0 \/ now < s \/ now - s >= 2 * d)
  BY DEF tracker_expired
<1>4. epoch_over(p, now) <=> now - s >= d
  BY DEF epoch_over
<1> HIDE DEF d, s, net, prev
<1>5. ASSUME Fresh(p, now)
      PROVE  d \in Nat \ {0} /\ s \in Nat \ {0} /\ s <= now /\ rest \in Nat \ {0}
  BY <1>1, <1>3, <1>4, <1>5 DEF Fresh
<1> HIDE DEF rest
<1>6. ASSUME Fresh(p, now)
      PROVE  (prev * rest) \div d \in Nat /\ PairPressure(p, now) = (prev * rest) \div d + net
  <2>1. prev * rest \in Nat
    BY <1>1, <1>5, <1>6, NatProduct
  <2>2. (prev * rest) \div d \in Nat
    BY <1>5, <1>6, <2>1, QuotientNat
  <2>3. QED
    BY <1>1, <1>2, <1>6, <2>2 DEF Fresh
<1>7. /\ tracker_expired(p, now) => PairPressure(p, now) = 0
      /\ ~tracker_expired(p, now) /\ epoch_over(p, now) => PairPressure(p, now) = net
  BY <1>1, <1>2
<1>8. PairPressure(p, now) \in Nat
  BY <1>1, <1>6, <1>7 DEF Fresh
<1>9. QED
  BY <1>5, <1>6, <1>7, <1>8 DEF d, s, net, prev, rest

\* The roll, epoch by epoch.
LEMMA RollCases ==
    ASSUME NEW p, NEW now
    PROVE  /\ tracker_expired(p, now) =>
                  roll_prop_amm_volume_tracker(p, now) = Restarted(p, 0, now)
           /\ ~tracker_expired(p, now) /\ epoch_over(p, now) =>
                  roll_prop_amm_volume_tracker(p, now) = Restarted(p, current_net(p), now)
           /\ Fresh(p, now) => roll_prop_amm_volume_tracker(p, now) = p
  BY DEF roll_prop_amm_volume_tracker, Restarted, Fresh

LEMMA RestartedParts ==
    ASSUME NEW p \in PairState, NEW prev \in U64, NEW now \in Nat
    PROVE  /\ Restarted(p, prev, now) \in PairState
           /\ Restarted(p, prev, now).prev_net_sell_value_stable = prev
           /\ Restarted(p, prev, now).curr_sell_value_stable = 0
           /\ Restarted(p, prev, now).curr_sell_trade_count = 0
           /\ Restarted(p, prev, now).epoch_start = now
           /\ Restarted(p, prev, now).config = p.config
           /\ current_net(Restarted(p, prev, now)) = 0
<1>1. 0 \in U64 /\ 0 \in 0..U32_MAX
  BY U64Nat, CurveAssumption
<1>2. /\ Restarted(p, prev, now) \in PairState
      /\ Restarted(p, prev, now).prev_net_sell_value_stable = prev
      /\ Restarted(p, prev, now).curr_sell_value_stable = 0
      /\ Restarted(p, prev, now).curr_buy_value_stable = 0
      /\ Restarted(p, prev, now).curr_sell_trade_count = 0
      /\ Restarted(p, prev, now).epoch_start = now
      /\ Restarted(p, prev, now).config = p.config
  BY <1>1 DEF Restarted, PairState
<1>3. current_net(Restarted(p, prev, now)) = 0
  BY <1>2 DEF current_net, saturating_sub
<1>4. QED
  BY <1>2, <1>3

LEMMA NetFits ==
    ASSUME NEW p \in PairState
    PROVE  current_net(p) \in U64
<1>1. p.curr_sell_value_stable \in U64
  BY DEF PairState
<1>2. QED
  BY <1>1, TrackerTyped, FitsBelow

\* A roll changes neither the pressure nor the number of sells seen.
SameQuote(p, q, now) ==
    /\ PairPressure(q, now) = PairPressure(p, now)
    /\ preview_current_sell_trade_count(q, now) = preview_current_sell_trade_count(p, now)

\* A tracker that restarts now with this previous pressure has just that.
LEMMA RestartedPressure ==
    ASSUME NEW p \in PairState, NEW prev \in U64, NEW now \in Nat,
           p.config.epoch_duration_seconds > 0, now = 0 => prev = 0
    PROVE  /\ PairPressure(Restarted(p, prev, now), now) = prev
           /\ preview_current_sell_trade_count(Restarted(p, prev, now), now) = 0
<1> DEFINE q == Restarted(p, prev, now)
           d == q.config.epoch_duration_seconds
<1>1. /\ q \in PairState /\ q.prev_net_sell_value_stable = prev
      /\ q.curr_sell_trade_count = 0 /\ q.epoch_start = now /\ q.config = p.config
      /\ current_net(q) = 0
  BY RestartedParts
<1>2. d \in Nat \ {0} /\ prev \in Nat
  BY <1>1, TrackerTyped
<1> HIDE DEF q
<1>3. preview_current_sell_trade_count(q, now) = 0
  BY <1>1 DEF preview_current_sell_trade_count
<1>4. CASE now = 0
  <2>1. tracker_expired(q, now)
    BY <1>1, <1>4 DEF tracker_expired
  <2>2. QED
    BY <1>1, <1>3, <1>4, <2>1, PressureCases DEF q
<1>5. CASE now # 0
  <2>1. Fresh(q, now)
    BY <1>1, <1>2, <1>5 DEF Fresh, tracker_expired, epoch_over
  <2>2. d - (now - q.epoch_start) = d
    BY <1>1, <1>2
  <2>3. PairPressure(q, now) = (prev * d) \div d + 0
    BY <1>1, <2>1, <2>2, PressureCases
  <2> HIDE DEF d
  <2>4. PairPressure(q, now) = prev
    BY <1>2, <2>3, WholeShare
  <2>5. QED
    BY <1>3, <2>4 DEF q
<1>6. QED
  BY <1>4, <1>5

LEMMA RollSameQuote ==
    ASSUME NEW p \in PairState, NEW now \in Nat, p.config.epoch_duration_seconds > 0
    PROVE  SameQuote(p, roll_prop_amm_volume_tracker(p, now), now)
<1> DEFINE d == p.config.epoch_duration_seconds
           s == p.epoch_start
<1>1. d \in Nat \ {0} /\ s \in Nat /\ current_net(p) \in U64 /\ 0 \in U64
  BY TrackerTyped, NetFits, U64Nat
<1>2. tracker_expired(p, now) \/ epoch_over(p, now) =>
          preview_current_sell_trade_count(p, now) = 0
  BY <1>1 DEF tracker_expired, epoch_over, preview_current_sell_trade_count
<1>3. CASE tracker_expired(p, now)
  BY <1>1, <1>2, <1>3, RollCases, PressureCases, RestartedPressure DEF SameQuote
<1>4. CASE ~tracker_expired(p, now) /\ epoch_over(p, now)
  <2>1. now # 0
    BY <1>1, <1>4 DEF tracker_expired
  <2>2. QED
    BY <1>1, <1>2, <1>4, <2>1, RollCases, PressureCases, RestartedPressure DEF SameQuote
<1>5. CASE Fresh(p, now)
  BY <1>5, RollCases DEF SameQuote
<1>6. QED
  BY <1>3, <1>4, <1>5 DEF Fresh

\* A quote and a swap see the same pressure and the same number of sells: the
\* two copies of the epoch rules agree on every tracker, at every time.
THEOREM RollNeverReprices == Spec => []RollDoesNotReprice
<1>1. TypeOK => RollDoesNotReprice
  <2>1. SUFFICES ASSUME TypeOK, NEW a \in Assets, Configured(a)
                 PROVE  SameQuote(prop_amm[a],
                            roll_prop_amm_volume_tracker(prop_amm[a], clock), clock)
    BY DEF RollDoesNotReprice, SameQuote, PairPressure, Pressure
  <2>2. prop_amm[a] \in PairState /\ clock \in Nat
    BY <2>1 DEF TypeOK
  <2>3. QED
    BY <2>1, <2>2, RollSameQuote DEF Configured
<1>2. QED
  BY <1>1, TypeCorrect, PTL

-----------------------------------------------------------------------------
(* Trackers over time.                                                     *)

\* Only the Prop AMM's own instructions touch a tracker.
LEMMA PairsElsewhere ==
    RedemptionStep \/ BufferStep \/ TakeStep \/ OfferStep \/ OperationStep =>
        UNCHANGED prop_amm /\ (clock' = clock \/ clock' = clock + 1)
<1> DEFINE Quiet == UNCHANGED prop_amm /\ (clock' = clock \/ clock' = clock + 1)
<1>1. ASSUME RedemptionStep PROVE Quiet
  <2>1. ASSUME NEW r, NEW n, fulfill_redemption_request(r, n) PROVE Quiet
    BY <2>1 DEF fulfill_redemption_request
  <2>2. ASSUME NEW a, NEW n, create_redemption_request(a, n) PROVE Quiet
    BY <2>2 DEF create_redemption_request
  <2>3. QED
    BY <1>1, <2>1, <2>2, Zenon
    DEF RedemptionStep, cancel_redemption_request, make_redemption_offer,
        update_redemption_offer_fee, update_redemption_offer_prop_amm_sell_fee,
        update_redemption_offer_vault_target, set_redemption_offer_disabled
<1>2. ASSUME BufferStep PROVE Quiet
  BY <1>2, Zenon
  DEF BufferStep, initialize_buffer, settle_buffer, set_buffer_gross_apr,
      set_buffer_fee_config, accrue_and_refresh, burn_for_nav_increase,
      deposit_reserve_vault, withdraw_reserve_vault, move_reserve, mint_to
<1>3. ASSUME TakeStep PROVE Quiet
  <2>1. ASSUME NEW a, NEW n, NEW p, take_offer(a, n, p) PROVE Quiet
    BY <2>1 DEF take_offer
  <2>2. ASSUME NEW a, NEW n, NEW p, take_offer_v2(a, n, p) PROVE Quiet
    BY <2>2 DEF take_offer_v2
  <2>3. QED
    BY <1>3, <2>1, <2>2 DEF TakeStep
<1>4. ASSUME OfferStep PROVE Quiet
  BY <1>4, Zenon
  DEF OfferStep, make_offer, update_offer_fee, update_offer_permissionless_fee,
      set_offer_disabled, add_offer_vector, delete_offer_vector,
      delete_all_offer_vectors, only_offers_change
<1>5. ASSUME OperationStep PROVE Quiet
  BY <1>5, Zenon
  DEF OperationStep, vault_deposit_onyc, vault_deposit_asset, vault_withdraw_onyc,
      vault_withdraw_asset, set_configurable_vault_destination,
      withdraw_configurable_vault_onyc, withdraw_configurable_vault_asset,
      set_circulating_supply_excluded_accounts,
      update_circulating_supply_excluded_balance, refresh_market_stats, set_kill_switch,
      configure_max_supply, configure_max_mint_amount, set_main_offer,
      transfer_mint_authority_to_program, transfer_mint_authority_to_boss,
      transfer_mint_authority, tick, external_burn, external_mint, move_onyc,
      move_asset, only_state_changes
<1>6. QED
  BY <1>1, <1>2, <1>3, <1>4, <1>5

\* A tracker that has run: it started in the past, and one that never ran has
\* recorded nothing.
Ran(p, now) ==
    /\ p.epoch_start <= now
    /\ p.epoch_start = 0 =>
           p.curr_sell_value_stable = 0 /\ p.prev_net_sell_value_stable = 0

\* Pressure only falls with time.
LEMMA PressureAges ==
    ASSUME NEW p \in PairState, NEW now \in Nat, NEW later \in Nat, now <= later, Ran(p, now)
    PROVE  Ran(p, later) /\ PairPressure(p, later) <= PairPressure(p, now)
<1> DEFINE d    == p.config.epoch_duration_seconds
           s    == p.epoch_start
           net  == current_net(p)
           prev == p.prev_net_sell_value_stable
           rest(t) == d - (t - s)
           old  == PairPressure(p, now)
           new  == PairPressure(p, later)
<1>1. d \in Nat /\ s \in Nat /\ net \in Nat /\ prev \in Nat /\ s <= now
  BY TrackerTyped DEF Ran
<1>2. Ran(p, later)
  BY <1>1 DEF Ran
<1>3. old \in Nat /\ new \in Nat
  BY PressureCases
<1>4. CASE tracker_expired(p, later)
  BY <1>2, <1>3, <1>4, PressureCases
<1>5. CASE ~tracker_expired(p, later)
  <2>1. ~tracker_expired(p, now)
    BY <1>1, <1>5 DEF tracker_expired
  <2>2. CASE epoch_over(p, now)
    <3>1. epoch_over(p, later)
      BY <1>1, <2>2 DEF epoch_over
    <3>2. old = net /\ new = net
      BY <1>5, <2>1, <2>2, <3>1, PressureCases
    <3>3. QED
      BY <1>1, <1>2, <3>2
  <2>3. CASE ~epoch_over(p, now)
    <3>1. /\ d \in Nat \ {0} /\ rest(now) \in Nat \ {0}
          /\ old = (prev * rest(now)) \div d + net
      BY <2>1, <2>3, PressureCases DEF Fresh
    <3>2. (prev * rest(now)) \div d \in Nat
      BY <1>1, <3>1, NatProduct, QuotientNat
    <3>3. CASE epoch_over(p, later)
      <4>1. new = net
        BY <1>5, <3>3, PressureCases
      <4> HIDE DEF old, new, net, d, prev, rest
      <4>2. new <= old
        BY <1>1, <3>1, <3>2, <4>1
      <4>3. QED
        BY <1>2, <4>2 DEF old, new
    <3>4. CASE ~epoch_over(p, later)
      <4>1. /\ rest(later) \in Nat \ {0}
            /\ new = (prev * rest(later)) \div d + net
        BY <1>5, <3>4, PressureCases DEF Fresh
      <4>2. rest(later) <= rest(now)
        BY <1>1
      <4>3. (prev * rest(later)) \div d \in Nat
        BY <1>1, <3>1, <4>1, NatProduct, QuotientNat
      <4> HIDE DEF old, new, net, d, prev, rest
      <4>4. (prev * rest(later)) \div d <= (prev * rest(now)) \div d
        BY <1>1, <3>1, <4>1, <4>2, ShareMonotone
      <4>5. new <= old
        BY <1>1, <3>1, <3>2, <4>1, <4>3, <4>4
      <4>6. QED
        BY <1>2, <4>5 DEF old, new
    <3>5. QED
      BY <3>3, <3>4
  <2>4. QED
    BY <2>2, <2>3
<1>6. QED
  BY <1>4, <1>5

\* Two trackers of the same epoch differ in pressure as their net sells do.
LEMMA PressureFollowsNet ==
    ASSUME NEW p \in PairState, NEW q \in PairState, NEW now \in Nat, NEW v \in Nat,
           q.config = p.config, q.epoch_start = p.epoch_start,
           q.prev_net_sell_value_stable = p.prev_net_sell_value_stable,
           current_net(q) <= current_net(p) + v
    PROVE  PairPressure(q, now) <= PairPressure(p, now) + v
<1> DEFINE old   == PairPressure(p, now)
           new   == PairPressure(q, now)
           share == (p.prev_net_sell_value_stable
                        * (p.config.epoch_duration_seconds - (now - p.epoch_start)))
                      \div p.config.epoch_duration_seconds
           m     == current_net(p)
           n     == current_net(q)
<1>1. m \in Nat /\ n \in Nat /\ n <= m + v /\ old \in Nat /\ new \in Nat
  BY TrackerTyped, PressureCases
<1>2. /\ tracker_expired(q, now) <=> tracker_expired(p, now)
      /\ epoch_over(q, now) <=> epoch_over(p, now)
  BY DEF tracker_expired, epoch_over
<1>3. CASE tracker_expired(p, now)
  BY <1>1, <1>2, <1>3, PressureCases
<1>4. CASE ~tracker_expired(p, now) /\ epoch_over(p, now)
  BY <1>1, <1>2, <1>4, PressureCases
<1>5. CASE Fresh(p, now)
  <2>1. Fresh(q, now)
    BY <1>2, <1>5 DEF Fresh
  <2>2. old = share + m /\ new = share + n
    BY <1>5, <2>1, PressureCases
  <2>3. share \in Nat
    <3>1. /\ p.config.epoch_duration_seconds \in Nat \ {0}
          /\ p.config.epoch_duration_seconds - (now - p.epoch_start) \in Nat
          /\ p.prev_net_sell_value_stable \in Nat
      BY <1>5, PressureCases, TrackerTyped
    <3>2. QED
      BY <3>1, NatProduct, QuotientNat
  <2> HIDE DEF share, m, n, old, new
  <2>4. new <= old + v
    BY <1>1, <2>2, <2>3
  <2>5. QED
    BY <2>4 DEF old, new
<1>6. QED
  BY <1>3, <1>4, <1>5 DEF Fresh

\* A roll leaves a tracker that has run, with the same configuration.
LEMMA RollRan ==
    ASSUME NEW p \in PairState, NEW now \in Nat \ {0}, Ran(p, now)
    PROVE  LET q == roll_prop_amm_volume_tracker(p, now)
           IN  /\ q \in PairState /\ q.config = p.config
               /\ Ran(q, now) /\ q.epoch_start # 0
<1>1. current_net(p) \in U64 /\ 0 \in U64
  BY NetFits, U64Nat
<1>2. CASE Fresh(p, now)
  <2>1. p.epoch_start # 0
    BY <1>2 DEF Fresh, tracker_expired
  <2>2. QED
    BY <1>2, <2>1, RollCases
<1>3. CASE ~Fresh(p, now)
  <2>1. PICK prev \in U64 : roll_prop_amm_volume_tracker(p, now) = Restarted(p, prev, now)
    BY <1>1, <1>3, RollCases DEF Fresh
  <2>2. QED
    BY <2>1, RestartedParts DEF Ran
<1>4. QED
  BY <1>2, <1>3

\* A sell adds at most its value; a buy adds nothing.
LEMMA SellPressure ==
    ASSUME NEW p \in PairState, NEW now \in Nat \ {0}, Ran(p, now), NEW v \in Nat,
           can_record_sell(p, v, now)
    PROVE  LET q == record_prop_amm_sell(p, v, now)
           IN  /\ q.config = p.config /\ Ran(q, now)
               /\ p.config.epoch_duration_seconds > 0 =>
                      PairPressure(q, now) <= PairPressure(p, now) + v
<1> DEFINE rolled == roll_prop_amm_volume_tracker(p, now)
           q      == record_prop_amm_sell(p, v, now)
<1>1. /\ rolled \in PairState /\ rolled.config = p.config
      /\ Ran(rolled, now) /\ rolled.epoch_start # 0
  BY RollRan
<1>2. q \in PairState
  BY RecordSellTyped
<1>3. q = [rolled EXCEPT !.curr_sell_value_stable = @ + v, !.curr_sell_trade_count = @ + 1]
  BY DEF record_prop_amm_sell
<1>4. p.config.epoch_duration_seconds > 0 => PairPressure(rolled, now) = PairPressure(p, now)
  BY RollSameQuote DEF SameQuote
<1> HIDE DEF rolled, q
<1>5. /\ q.config = p.config /\ q.epoch_start = rolled.epoch_start
      /\ q.prev_net_sell_value_stable = rolled.prev_net_sell_value_stable
      /\ q.curr_sell_value_stable = rolled.curr_sell_value_stable + v
      /\ q.curr_buy_value_stable = rolled.curr_buy_value_stable
  BY <1>1, <1>3 DEF PairState
<1>6. Ran(q, now)
  BY <1>1, <1>5 DEF Ran
<1>7. current_net(q) <= current_net(rolled) + v
  BY <1>1, <1>5, TrackerTyped DEF current_net, saturating_sub
<1>8. PairPressure(q, now) <= PairPressure(rolled, now) + v
  BY <1>1, <1>2, <1>5, <1>7, PressureFollowsNet
<1>9. QED
  BY <1>4, <1>5, <1>6, <1>8 DEF q

LEMMA BuyPressure ==
    ASSUME NEW p \in PairState, NEW now \in Nat \ {0}, Ran(p, now), NEW v \in Nat,
           can_record_buy(p, v, now)
    PROVE  LET q == record_prop_amm_buy(p, v, now)
           IN  /\ q.config = p.config /\ Ran(q, now)
               /\ p.config.epoch_duration_seconds > 0 =>
                      PairPressure(q, now) <= PairPressure(p, now)
<1> DEFINE rolled == roll_prop_amm_volume_tracker(p, now)
           q      == record_prop_amm_buy(p, v, now)
<1>1. /\ rolled \in PairState /\ rolled.config = p.config
      /\ Ran(rolled, now) /\ rolled.epoch_start # 0
  BY RollRan
<1>2. q \in PairState
  BY RecordBuyTyped
<1>3. q = [rolled EXCEPT !.curr_buy_value_stable = @ + v]
  BY DEF record_prop_amm_buy
<1>4. p.config.epoch_duration_seconds > 0 => PairPressure(rolled, now) = PairPressure(p, now)
  BY RollSameQuote DEF SameQuote
<1> HIDE DEF rolled, q
<1>5. /\ q.config = p.config /\ q.epoch_start = rolled.epoch_start
      /\ q.prev_net_sell_value_stable = rolled.prev_net_sell_value_stable
      /\ q.curr_sell_value_stable = rolled.curr_sell_value_stable
      /\ q.curr_buy_value_stable = rolled.curr_buy_value_stable + v
  BY <1>1, <1>3 DEF PairState
<1>6. Ran(q, now)
  BY <1>1, <1>5 DEF Ran
<1>7. current_net(q) <= current_net(rolled) + 0
  BY <1>1, <1>5, TrackerTyped DEF current_net, saturating_sub
<1>8. PairPressure(q, now) <= PairPressure(rolled, now) + 0
  BY <1>1, <1>2, <1>5, <1>7, PressureFollowsNet
<1>9. PairPressure(q, now) <= PairPressure(rolled, now)
  BY <1>1, <1>2, <1>8, PressureCases
<1>10. QED
  BY <1>4, <1>5, <1>6, <1>9 DEF q

-----------------------------------------------------------------------------
(* Trackers, step by step.                                                 *)

\* Configuring the pair of a with c.
PairConfigured(a, c) ==
    prop_amm'[a] = [prop_amm[a] EXCEPT
        !.config = c, !.epoch_start = IF @ = 0 THEN clock ELSE @]

\* A buy of value v in the pair of a, and a sell.
PairBought(a, v) ==
    /\ v \in Nat /\ can_record_buy(prop_amm[a], v, clock)
    /\ prop_amm'[a] = record_prop_amm_buy(prop_amm[a], v, clock)

PairSold(a, v) ==
    /\ v \in Nat /\ can_record_sell(prop_amm[a], v, clock)
    /\ prop_amm'[a] = record_prop_amm_sell(prop_amm[a], v, clock)
    /\ \E amount \in Inputs.swap, minimumOut \in Inputs.minimum_out :
           open_swap_sell(a, amount, minimumOut) /\ v = sell_result(a, amount).out

PairTraded(a) ==
    /\ clock' = clock
    /\ \/ \E c \in Inputs.prop_amm : valid_config(c) /\ PairConfigured(a, c)
       \/ \E v : PairBought(a, v)
       \/ \E v : PairSold(a, v)

\* The tracker of the pair of a after a step.
PairStep(a) ==
    \/ prop_amm'[a] = prop_amm[a] /\ (clock' = clock \/ clock' = clock + 1)
    \/ PairTraded(a)

LEMMA SwapPair ==
    ASSUME IInv, SwapStep, NEW b \in Assets
    PROVE  PairStep(b)
<1>1. prop_amm \in [Assets -> PairState]
  BY DEF IInv, TypeOK
<1>2. ASSUME NEW a \in Assets, NEW c \in Inputs.prop_amm, configure_prop_amm(a, c)
      PROVE  PairStep(b)
  <2>1. clock' = clock /\ valid_config(c)
    BY <1>2 DEF configure_prop_amm
  <2>2. /\ a # b => prop_amm'[b] = prop_amm[b]
        /\ a = b => PairConfigured(b, c)
    BY <1>1, <1>2 DEF configure_prop_amm, PairConfigured, PairState
  <2>3. QED
    BY <2>1, <2>2 DEF PairStep, PairTraded
<1>3. ASSUME NEW a \in Assets, NEW amount \in Inputs.swap, NEW minimumOut,
             open_swap_buy(a, amount, minimumOut)
      PROVE  PairStep(b)
  <2> DEFINE bps    == offers[a].fee_basis_points_permissionless
             result == process_offer_core(a, amount, bps)
  <2>1. /\ can_process_offer(a, amount, bps)
        /\ can_record_buy(prop_amm[a], result.net, clock)
        /\ prop_amm' = [prop_amm EXCEPT ![a] = record_prop_amm_buy(@, result.net, clock)]
        /\ clock' = clock
    BY <1>3 DEF open_swap_buy
  <2>2. amount \in Nat /\ bps \in 0..MAX_ALLOWED_FEE_BPS
    BY InputAssumption DEF IInv, TypeOK, OfferType
  <2>3. result.net \in Nat
    BY <2>1, <2>2, OfferCore
  <2> HIDE DEF result
  <2>4. /\ a # b => prop_amm'[b] = prop_amm[b]
        /\ a = b => PairBought(b, result.net)
    BY <1>1, <2>1, <2>3 DEF PairBought
  <2>5. QED
    BY <2>1, <2>4 DEF PairStep, PairTraded
<1>4. ASSUME NEW a \in Assets, NEW amount \in Inputs.swap, NEW minimumOut \in Inputs.minimum_out,
             open_swap_sell(a, amount, minimumOut)
      PROVE  PairStep(b)
  <2> DEFINE v == sell_result(a, amount).out
  <2>1. /\ can_record_sell(prop_amm[a], v, clock)
        /\ prop_amm' = [prop_amm EXCEPT ![a] = record_prop_amm_sell(@, v, clock)]
        /\ clock' = clock
    BY <1>4 DEF open_swap_sell
  <2>2. amount \in Nat
    BY InputAssumption
  <2>3. v \in Nat
    BY <1>4, <2>2, SellEffect
  <2>4. \E n \in Inputs.swap, m \in Inputs.minimum_out :
            open_swap_sell(a, n, m) /\ v = sell_result(a, n).out
    BY <1>4
  <2> HIDE DEF v
  <2>5. /\ a # b => prop_amm'[b] = prop_amm[b]
        /\ a = b => PairSold(b, v)
    BY <1>1, <2>1, <2>3, <2>4 DEF PairSold
  <2>6. QED
    BY <2>1, <2>5 DEF PairStep, PairTraded
<1>5. QED
  BY <1>2, <1>3, <1>4 DEF SwapStep

LEMMA EveryPairStep ==
    ASSUME IInv, [Next]_vars, NEW a \in Assets
    PROVE  PairStep(a)
<1>1. CASE SwapStep
  BY <1>1, SwapPair
<1>2. CASE UNCHANGED vars
  BY <1>2 DEF vars, PairStep
<1>3. CASE RedemptionStep \/ BufferStep \/ TakeStep \/ OfferStep \/ OperationStep
  BY <1>3, PairsElsewhere DEF PairStep
<1>4. QED
  BY <1>1, <1>2, <1>3 DEF Next

\* It is after 1970 and every tracker has run: the invariant without which
\* pressure could appear out of nothing, when the clock reaches a tracker or
\* a configuration starts one.
TrackerInv ==
    /\ clock # 0
    /\ \A a \in Assets : Ran(prop_amm[a], clock)

LEMMA InitTracker == Init => TrackerInv
<1>1. SUFFICES ASSUME Init, NEW a \in Assets PROVE clock # 0 /\ Ran(prop_amm[a], clock)
  BY InitialAssumption DEF TrackerInv, Init
<1>2. /\ clock # 0 /\ prop_amm[a].epoch_start <= clock
      /\ prop_amm[a].epoch_start = 0 => prop_amm[a] = NoPair
  BY <1>1, InitialAssumption DEF Init
<1>3. QED
  BY <1>2 DEF Ran, NoPair

LEMMA ConfiguredRan ==
    ASSUME NEW p \in PairState, NEW now \in Nat, Ran(p, now), NEW c,
           NEW q, q = [p EXCEPT !.config = c, !.epoch_start = IF @ = 0 THEN now ELSE @]
    PROVE  /\ Ran(q, now) /\ q.config = c
           /\ c = p.config => PairPressure(q, now) <= PairPressure(p, now)
<1>1. /\ q.config = c /\ q.curr_sell_value_stable = p.curr_sell_value_stable
      /\ q.curr_buy_value_stable = p.curr_buy_value_stable
      /\ q.prev_net_sell_value_stable = p.prev_net_sell_value_stable
      /\ q.epoch_start = IF p.epoch_start = 0 THEN now ELSE p.epoch_start
  BY DEF PairState
<1>2. p.epoch_start \in Nat
  BY TrackerTyped
<1>3. Ran(q, now)
  BY <1>1, <1>2 DEF Ran
<1>4. ASSUME c = p.config PROVE PairPressure(q, now) <= PairPressure(p, now)
  <2>1. q \in PairState
    <3>1. (IF p.epoch_start = 0 THEN now ELSE p.epoch_start) \in Nat
      BY <1>2
    <3>2. QED
      BY <1>4, <3>1 DEF PairState
  <2>2. PairPressure(p, now) \in Nat /\ PairPressure(q, now) \in Nat
    BY <2>1, PressureCases
  <2>3. CASE p.epoch_start # 0
    <3>1. q = p
      BY <1>4, <2>3 DEF PairState
    <3>2. QED
      BY <2>2, <3>1
  <2>4. CASE p.epoch_start = 0
    <3>1. /\ q.curr_sell_value_stable = 0 /\ q.prev_net_sell_value_stable = 0
          /\ current_net(q) = 0
      <4>1. q.curr_sell_value_stable = 0 /\ q.prev_net_sell_value_stable = 0
        BY <1>1, <2>4 DEF Ran
      <4>2. current_net(q) \in Nat /\ current_net(q) <= q.curr_sell_value_stable
        BY <2>1, TrackerTyped
      <4>3. QED
        BY <4>1, <4>2
    <3>2. CASE Fresh(q, now)
      <4> DEFINE d == q.config.epoch_duration_seconds
                 k == d - (now - q.epoch_start)
      <4>1. /\ d \in Nat \ {0} /\ k \in Nat
            /\ PairPressure(q, now) = (0 * k) \div d + 0
        BY <2>1, <3>1, <3>2, PressureCases
      <4> HIDE DEF d, k
      <4>2. (0 * k) \div d = 0
        BY <4>1
      <4>3. QED
        BY <2>2, <4>1, <4>2
    <3>3. CASE ~Fresh(q, now)
      BY <2>1, <2>2, <3>1, <3>3, PressureCases DEF Fresh
    <3>4. QED
      BY <3>2, <3>3
  <2>5. QED
    BY <2>3, <2>4
<1>5. QED
  BY <1>1, <1>3, <1>4

LEMMA NextTracker == IInv /\ TrackerInv /\ [Next]_vars => TrackerInv'
<1>1. SUFFICES ASSUME IInv, TrackerInv, [Next]_vars PROVE TrackerInv'
  OBVIOUS
<1>2. prop_amm \in [Assets -> PairState] /\ clock \in Nat \ {0}
  BY <1>1 DEF IInv, TypeOK, TrackerInv
<1>3. ASSUME NEW a \in Assets PROVE Ran(prop_amm'[a], clock')
  <2>1. PairStep(a) /\ prop_amm[a] \in PairState /\ Ran(prop_amm[a], clock)
    BY <1>1, <1>2, EveryPairStep DEF TrackerInv
  <2>2. CASE prop_amm'[a] = prop_amm[a] /\ (clock' = clock \/ clock' = clock + 1)
    <3>1. clock' \in Nat /\ clock <= clock'
      BY <1>2, <2>2
    <3>2. QED
      BY <1>2, <2>1, <2>2, <3>1, PressureAges
  <2>3. CASE PairTraded(a)
    <3>1. ASSUME NEW c, PairConfigured(a, c) PROVE Ran(prop_amm'[a], clock)
      BY <1>2, <2>1, <3>1, ConfiguredRan DEF PairConfigured
    <3>2. ASSUME NEW v, PairBought(a, v) PROVE Ran(prop_amm'[a], clock)
      BY <1>2, <2>1, <3>2, BuyPressure DEF PairBought
    <3>3. ASSUME NEW v, PairSold(a, v) PROVE Ran(prop_amm'[a], clock)
      BY <1>2, <2>1, <3>3, SellPressure DEF PairSold
    <3>4. QED
      BY <2>3, <3>1, <3>2, <3>3 DEF PairTraded
  <2>4. QED
    BY <2>1, <2>2, <2>3 DEF PairStep
<1>4. clock' # 0
  <2>1. CASE SwapStep
    <3>1. ASSUME NEW a, NEW c, configure_prop_amm(a, c) PROVE clock' = clock
      BY <3>1 DEF configure_prop_amm
    <3>2. ASSUME NEW a, NEW n, NEW m, open_swap_buy(a, n, m) PROVE clock' = clock
      BY <3>2 DEF open_swap_buy
    <3>3. ASSUME NEW a, NEW n, NEW m, open_swap_sell(a, n, m) PROVE clock' = clock
      BY <3>3 DEF open_swap_sell
    <3>4. QED
      BY <1>2, <2>1, <3>1, <3>2, <3>3 DEF SwapStep
  <2>2. CASE UNCHANGED vars
    BY <1>2, <2>2 DEF vars
  <2>3. CASE RedemptionStep \/ BufferStep \/ TakeStep \/ OfferStep \/ OperationStep
    BY <1>2, <2>3, PairsElsewhere
  <2>4. QED
    BY <1>1, <2>1, <2>2, <2>3 DEF Next
<1>5. QED
  BY <1>3, <1>4 DEF TrackerInv

\* In a configured pair nothing but a sell raises the sell pressure, and a sell
\* by no more than its raw value: not time, not a buy, not the roll that a
\* trade starts with, not a configuration that keeps the parameters.
THEOREM PressureOnlySold == Spec => PressureRisesOnlyBySells
<1> DEFINE Rises(a) ==
             /\ Configured(a)
             /\ prop_amm'[a].config = prop_amm[a].config
             /\ Pressure(a)' > Pressure(a)
           BySell(a) ==
             \E amount \in Inputs.swap, minimumOut \in Inputs.minimum_out :
                 /\ open_swap_sell(a, amount, minimumOut)
                 /\ Pressure(a)' <= Pressure(a) + sell_result(a, amount).out
<1>1. IInv /\ TrackerInv /\ [Next]_vars => [\A a \in Assets : Rises(a) => BySell(a)]_vars
  <2>1. SUFFICES ASSUME IInv, TrackerInv, [Next]_vars, NEW a \in Assets, Rises(a)
                 PROVE  BySell(a)
    OBVIOUS
  <2> DEFINE p == prop_amm[a]
             q == prop_amm'[a]
  <2>2. /\ p \in PairState /\ clock \in Nat \ {0} /\ Ran(p, clock)
        /\ p.config.epoch_duration_seconds > 0 /\ q.config = p.config
    BY <2>1 DEF IInv, TypeOK, TrackerInv, Configured
  <2>3. q \in PairState /\ clock' \in Nat
    BY <2>1, NextIInv DEF IInv, TypeOK
  <2>4. Pressure(a) = PairPressure(p, clock) /\ Pressure(a)' = PairPressure(q, clock')
    BY DEF Pressure, PairPressure
  <2>5. PairPressure(p, clock) \in Nat /\ PairPressure(q, clock') \in Nat
    BY <2>2, <2>3, PressureCases
  <2>6. ~(PairPressure(q, clock') <= PairPressure(p, clock))
    BY <2>1, <2>4, <2>5
  <2>7. PairStep(a)
    BY <2>1, EveryPairStep
  <2>8. ~(q = p /\ (clock' = clock \/ clock' = clock + 1))
    <3>1. ASSUME q = p, clock' = clock \/ clock' = clock + 1
          PROVE  PairPressure(q, clock') <= PairPressure(p, clock)
      <4>1. clock <= clock'
        BY <2>2, <3>1
      <4>2. QED
        BY <2>2, <2>3, <3>1, <4>1, PressureAges
    <3>2. QED
      BY <2>6, <3>1
  <2>9. clock' = clock /\ PairTraded(a)
    BY <2>7, <2>8 DEF PairStep, PairTraded
  <2>10. ASSUME NEW c, PairConfigured(a, c) PROVE FALSE
    BY <2>2, <2>6, <2>9, <2>10, ConfiguredRan DEF PairConfigured
  <2>11. ASSUME NEW v, PairBought(a, v) PROVE FALSE
    BY <2>2, <2>6, <2>9, <2>11, BuyPressure DEF PairBought
  <2>12. PICK v : PairSold(a, v)
    BY <2>9, <2>10, <2>11 DEF PairTraded
  <2>13. PairPressure(q, clock) <= PairPressure(p, clock) + v
    BY <2>2, <2>12, SellPressure DEF PairSold
  <2>14. PICK amount \in Inputs.swap, minimumOut \in Inputs.minimum_out :
             open_swap_sell(a, amount, minimumOut) /\ v = sell_result(a, amount).out
    BY <2>12 DEF PairSold
  <2>15. QED
    BY <2>4, <2>9, <2>13, <2>14
<1>2. QED
  BY <1>1, InitIInv, NextIInv, InitTracker, NextTracker, PTL DEF Spec, PressureRisesOnlyBySells

-----------------------------------------------------------------------------
(* The kill switch.                                                        *)

\* What the kill switch lets through: steps that leave requests, BUFFER and all
\* tokens alone, the creation of BUFFER, and what needs no instruction.
Harmless ==
    \/ UNCHANGED <<requests, buffer, onyc, asset>>
    \/ initialize_buffer
    \/ \E amount \in Inputs.external : external_burn(amount) \/ external_mint(amount)

LEMMA KilledHarmless ==
    ASSUME state.is_killed, Next
    PROVE  Harmless
<1>1. ASSUME RedemptionStep PROVE Harmless
  <2>1. ASSUME NEW r, NEW n, fulfill_redemption_request(r, n) PROVE FALSE
    BY <2>1 DEF fulfill_redemption_request
  <2>2. ASSUME NEW a, NEW n, create_redemption_request(a, n) PROVE FALSE
    BY <2>2 DEF create_redemption_request
  <2>3. ASSUME NEW r, cancel_redemption_request(r) PROVE FALSE
    BY <2>3 DEF cancel_redemption_request, can_cancel
  <2>4. ASSUME NEW a, NEW n, NEW m,
               \/ make_redemption_offer(a, n, m)
               \/ update_redemption_offer_fee(a, n)
               \/ update_redemption_offer_prop_amm_sell_fee(a, n)
               \/ update_redemption_offer_vault_target(a, n)
               \/ set_redemption_offer_disabled(a, n)
        PROVE  UNCHANGED <<requests, buffer, onyc, asset>>
    BY <2>4 DEF make_redemption_offer,
        update_redemption_offer_fee, update_redemption_offer_prop_amm_sell_fee,
        update_redemption_offer_vault_target, set_redemption_offer_disabled
  <2>5. QED
    BY <1>1, <2>1, <2>2, <2>3, <2>4, Zenon DEF RedemptionStep, Harmless
<1>2. ASSUME BufferStep PROVE Harmless
  BY <1>2, Zenon
  DEF BufferStep, settle_buffer, set_buffer_gross_apr,
      set_buffer_fee_config, accrue_and_refresh, burn_for_nav_increase,
      deposit_reserve_vault, withdraw_reserve_vault, move_reserve, mint_to, Harmless
<1>3. ASSUME TakeStep PROVE FALSE
  <2>1. ASSUME NEW a, NEW n, NEW p, take_offer(a, n, p) PROVE FALSE
    BY <2>1 DEF take_offer, may_take
  <2>2. ASSUME NEW a, NEW n, NEW p, take_offer_v2(a, n, p) PROVE FALSE
    BY <2>2 DEF take_offer_v2, may_take
  <2>3. QED
    BY <1>3, <2>1, <2>2 DEF TakeStep
<1>4. ASSUME SwapStep PROVE Harmless
  <2>1. ASSUME NEW a, NEW c, configure_prop_amm(a, c) PROVE Harmless
    BY <2>1 DEF configure_prop_amm, Harmless
  <2>2. ASSUME NEW a, NEW n, NEW m, open_swap_buy(a, n, m) PROVE FALSE
    BY <2>2 DEF open_swap_buy, may_swap
  <2>3. ASSUME NEW a, NEW n, NEW m, open_swap_sell(a, n, m) PROVE FALSE
    BY <2>3 DEF open_swap_sell, may_swap
  <2>4. QED
    BY <1>4, <2>1, <2>2, <2>3 DEF SwapStep
<1>5. ASSUME OfferStep PROVE UNCHANGED <<requests, buffer, onyc, asset>>
  BY <1>5, Zenon
  DEF OfferStep, make_offer, update_offer_fee, update_offer_permissionless_fee,
      set_offer_disabled, add_offer_vector, delete_offer_vector,
      delete_all_offer_vectors, only_offers_change
<1>6. ASSUME OperationStep PROVE Harmless
  BY <1>6, Zenon
  DEF OperationStep, vault_deposit_onyc, vault_deposit_asset, vault_withdraw_onyc,
      vault_withdraw_asset, set_configurable_vault_destination,
      withdraw_configurable_vault_onyc, withdraw_configurable_vault_asset,
      set_circulating_supply_excluded_accounts,
      update_circulating_supply_excluded_balance, refresh_market_stats, set_kill_switch,
      configure_max_supply, configure_max_mint_amount, set_main_offer,
      transfer_mint_authority_to_program, transfer_mint_authority_to_boss,
      transfer_mint_authority, tick, only_state_changes, Harmless
<1>7. QED
  BY <1>1, <1>2, <1>3, <1>4, <1>5, <1>6 DEF Next, Harmless

\* While the kill switch is on, no step moves tokens of a vault or an
\* intermediary, mints or burns for the program, or touches a request.
THEOREM KillSwitchAlwaysFreezes == Spec => KillSwitchFreezes
<1> DEFINE Frozen ==
             /\ requests' = requests
             /\ buffer'.initialized = buffer.initialized => buffer' = buffer
             /\ \A x \in OnycAccounts \ {"wallets"} : onyc'.bal[x] = onyc.bal[x]
             /\ asset' = asset
             /\ onyc'.supply # onyc.supply =>
                   \E amount \in Inputs.external :
                       external_burn(amount) \/ external_mint(amount)
<1>1. IInv /\ [Next]_vars => [state.is_killed => Frozen]_vars
  <2>1. SUFFICES ASSUME IInv, Next, state.is_killed PROVE Frozen
    OBVIOUS
  <2>2. Harmless
    BY <2>1, KilledHarmless
  <2>3. onyc \in [supply : U64, bal : [OnycAccounts -> U64]]
    BY <2>1 DEF IInv, TypeOK
  <2>4. CASE UNCHANGED <<requests, buffer, onyc, asset>>
    BY <2>4
  <2>5. CASE initialize_buffer
    BY <2>5 DEF initialize_buffer, NoBuffer
  <2>6. ASSUME NEW amount \in Inputs.external, external_burn(amount) \/ external_mint(amount)
        PROVE  Frozen
    <3>1. /\ UNCHANGED <<requests, buffer, asset>>
          /\ \/ onyc' = burn_tokens(onyc, "wallets", amount)
             \/ onyc' = mint_tokens(onyc, "wallets", amount)
      BY <2>6 DEF external_burn, external_mint
    <3>2. \A x \in OnycAccounts \ {"wallets"} : onyc'.bal[x] = onyc.bal[x]
      BY <2>3, <3>1 DEF burn_tokens, mint_tokens
    <3>3. QED
      BY <2>6, <3>1, <3>2
  <2>7. QED
    BY <2>2, <2>4, <2>5, <2>6 DEF Harmless
<1>2. QED
  BY <1>1, InitIInv, NextIInv, PTL DEF Spec, KillSwitchFreezes

-----------------------------------------------------------------------------
(* The refill of the redemption vault.                                     *)

\* Two divisions that round down: what is left, times both divisors, is at
\* most the product they divide.
LEMMA TwiceRoundedDown ==
    ASSUME NEW n \in Nat, NEW d \in Nat \ {0}, NEW m \in Nat, NEW e \in Nat \ {0}, NEW x \in Nat,
           x <= ((n \div d) * m) \div e
    PROVE  x * d * e <= n * m
<1> DEFINE q == n \div d
           t == (q * m) \div e
<1>1. q \in Nat /\ q * d <= n
  BY QuotientNat, Division
<1> HIDE DEF q
<1>2. q * m \in Nat
  BY <1>1, NatProduct
<1>3. t \in Nat /\ t * e <= q * m
  BY <1>2, QuotientNat, Division
<1>4. x <= t
  BY DEF q
<1> HIDE DEF t
<1>5. x * e <= t * e
  BY <1>3, <1>4, ProductMonotone
<1>6. x * e \in Nat /\ t * e \in Nat /\ q * d \in Nat /\ n * m \in Nat
  BY <1>1, <1>3, NatProduct
<1>7. x * e <= q * m
  BY <1>2, <1>3, <1>5, <1>6
<1>8. (x * e) * d <= (q * m) * d
  BY <1>2, <1>6, <1>7, ProductMonotone
<1>9. (q * d) * m <= n * m
  BY <1>1, <1>6, ProductMonotone
<1>10. (x * e) * d = x * d * e /\ (q * m) * d = (q * d) * m
  BY <1>1
<1>11. (q * d) * m \in Int /\ x * d * e \in Int
  BY <1>1
<1>12. QED
  BY <1>6, <1>8, <1>9, <1>10, <1>11

\* A refill that moves something stops at the target.
LEMMA RefillWithinTarget ==
    ASSUME NEW tvl \in Nat, NEW bps \in Nat, NEW balance \in Nat, NEW net \in Nat,
           calculate_redemption_vault_refill_amount(tvl, bps, balance, net) # 0
    PROVE  (balance + calculate_redemption_vault_refill_amount(tvl, bps, balance, net))
               * MAX_BASIS_POINTS * ONYC_UNIT <= tvl * bps * ASSET_UNIT
<1> DEFINE target == (((tvl * bps) \div MAX_BASIS_POINTS) * ASSET_UNIT) \div ONYC_UNIT
           refill == calculate_redemption_vault_refill_amount(tvl, bps, balance, net)
           filled == balance + refill
<1>1. /\ MAX_BASIS_POINTS \in Nat \ {0} /\ ONYC_UNIT \in Nat \ {0} /\ ASSET_UNIT \in Nat
      /\ tvl * bps \in Nat
  BY ScaleAssumption, NatProduct
<1>2. target \in Nat
  BY <1>1, QuotientNat, NatProduct
<1>3. refill # 0 /\ refill = min_of(saturating_sub(target, balance), net)
  BY DEF calculate_redemption_vault_refill_amount
<1> HIDE DEF target, refill
<1>4. filled \in Nat /\ filled <= target
  BY <1>2, <1>3 DEF min_of, saturating_sub
<1> HIDE DEF filled
<1>5. filled * MAX_BASIS_POINTS * ONYC_UNIT <= (tvl * bps) * ASSET_UNIT
  BY <1>1, <1>4, TwiceRoundedDown DEF target
<1>6. QED
  BY <1>5 DEF filled, refill

\* A v2 take that moves anything to the redemption vault leaves at most the
\* vault's target share of the cached TVL there, whatever the decimals of the
\* tokens and whichever division rounds.
THEOREM RefillAlwaysStops == Spec => RefillStopsAtTarget
<1>1. ASSUME IInv, NEW a \in Assets, NEW amount \in Inputs.take, NEW p \in Inputs.permissionless,
             take_offer_v2(a, amount, p),
             asset'[a]["redemption_vault"] # asset[a]["redemption_vault"]
      PROVE  asset'[a]["redemption_vault"] * MAX_BASIS_POINTS * ONYC_UNIT
                 <= market_stats.tvl * redemption_vault_target_bps(a) * ASSET_UNIT
  <2> DEFINE result == process_offer_core(a, amount, take_fee(a, p))
             net    == result.net
             refill == refill_of(a, net)
             feeTo  == IF p THEN "permissionless_offer_fee" ELSE "offer_fee"
             vault  == asset[a]["redemption_vault"]
  <2>1. amount \in Nat /\ p \in BOOLEAN
    BY InputAssumption
  <2>2. Bought(a, amount, accrued.onyc, result, refill, "offer_proceeds", feeTo)
    BY <1>1, <2>1, TakeEffect
  <2>3. vault \in Nat /\ market_stats.tvl \in Nat /\ redemption_vault_target_bps(a) \in Nat
    <3>1. vault \in U64 /\ market_stats.tvl \in U64
      BY <1>1 DEF IInv, TypeOK, AssetAccounts
    <3>2. redemption_offers[a].vault_target_bps \in Nat
      BY <1>1, ScaleAssumption DEF IInv, TypeOK, RedemptionOfferType
    <3>3. QED
      BY <3>1, <3>2, U64Int DEF redemption_vault_target_bps
  <2>4. "redemption_vault" \in AssetAccounts /\ "redemption_vault" # feeTo
    BY DEF AssetAccounts
  <2> HIDE DEF result, feeTo
  <2>5. net \in Nat /\ refill \in Int
    BY <2>2 DEF Bought
  <2>6. asset'[a]["redemption_vault"] = vault
          + PaidIn("redemption_vault", amount, refill, "offer_proceeds", net - refill, feeTo,
                   result.fee)
    BY <2>2, <2>4 DEF Bought
  <2>7. PaidIn("redemption_vault", amount, refill, "offer_proceeds", net - refill, feeTo,
               result.fee) = refill
    BY <2>4, <2>5 DEF PaidIn
  <2>8. asset'[a]["redemption_vault"] = vault + refill /\ refill # 0
    BY <1>1, <2>3, <2>5, <2>6, <2>7
  <2> HIDE DEF net
  <2>9. (vault + refill) * MAX_BASIS_POINTS * ONYC_UNIT
            <= market_stats.tvl * redemption_vault_target_bps(a) * ASSET_UNIT
    BY <2>3, <2>5, <2>8, RefillWithinTarget DEF refill_of
  <2>10. QED
    BY <2>8, <2>9
<1>2. IInv /\ [Next]_vars =>
        [\A a \in Assets, amount \in Inputs.take, p \in Inputs.permissionless :
            /\ take_offer_v2(a, amount, p)
            /\ asset'[a]["redemption_vault"] # asset[a]["redemption_vault"]
            => asset'[a]["redemption_vault"] * MAX_BASIS_POINTS * ONYC_UNIT
                   <= market_stats.tvl * redemption_vault_target_bps(a) * ASSET_UNIT]_vars
  BY <1>1
<1>3. QED
  BY <1>2, InitIInv, NextIInv, PTL DEF Spec, RefillStopsAtTarget
=============================================================================
