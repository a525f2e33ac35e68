# A TLA+ verification of the ONRe Solana program

This directory models the on-chain program `programs/onreapp` of the repository: the
token flows (buying ONyc from offers, redeeming it, the Prop AMM, BUFFER accrual, vaults,
mint authority), the prices they use, the market statistics they publish, the governance of
the `State` account and the approvals its approvers sign. TLC checks the modules on small
instances; TLAPS proves the results listed under *Proofs* for every value of the constants.

## 1. Inventory of the system

The program is one Anchor program. A transaction is atomic and the runtime serialises
transactions that write the same account, so the concurrency of the system is the
interleaving of whole instructions sent by independent parties: holders, the boss, admins,
the worker, anyone (permissionless instructions), and the token program itself, which
holders can call without ONRe.

| Component | State | Operations | Interacts with | What makes it correct |
|---|---|---|---|---|
| Arithmetic (`utils/math_utils.rs`, `utils/token_utils.rs`, `buffer/accrual_utils.rs`) | none | fees, prices, accrual, split, burn, refill | every value path | rounding never favours the user; parts add up; exact yield |
| Offer pricing (`offer/offer_utils.rs`, `market_info/offer_valuation_utils.rs`) | `Offer.vectors` | active vector, step price, NAV adjustment | takes, redemptions, NAV | one active vector; edits of the schedule do not disturb the price in force |
| Offer configuration (`offer/*.rs`) | `Offer` | make, fees, disable, add/delete vectors | pricing | distinct start times, eviction keeps what is still needed |
| Offer taking (`offer/take_offer*.rs`) | token accounts | legacy and v2, approved and permissionless | BUFFER, statistics, redemption vault refill | intermediary emptied, refill stops at its target, caps |
| Redemption (`redemption/*.rs`) | `RedemptionOffer`, `RedemptionRequest`, shared vault | make, create, fulfil in parts, cancel, fee, target, disable | BUFFER, statistics, pricing, vault withdrawals | the books match the open requests; every request can end |
| BUFFER (`buffer/*.rs`) | `BufferState`, reserve and fee vaults | initialise, settle, gross APR, fees, NAV burn, reserve in/out | main offer, mint, statistics | baseline follows the supply, cap respected, watermark monotone |
| Market statistics (`market_info/*.rs`) | `MarketStats`, excluded owners and cached balance | refresh, set and update exclusions | mint, main offer | never lag behind a supply change of the program |
| Configurable vaults, vault operations | token accounts, destinations | deposit, withdraw, set destination | kill switch | nothing moves while killed |
| Mint authority | authority of the mint | to program, to boss, `mint_to` | every mint and burn | caps apply to every mint of the program |
| Governance (`state_operations/*.rs`, `targeted_disable.rs`, `initialize.rs`) | `State` | boss transfer, admins, approvers, worker, kill switch, main offer, ONyc mint, close | every guard | proposals die with the proposer's term; roles held once |
| Prop AMM (`prop_amm/*.rs`) | `PropAmmPairState`: configuration, sell and buy volume of the epoch, carried pressure, sell count | configure, buy, sell, two quotes | pricing, redemption vault, TVL, BUFFER, statistics | a quote and a swap see the same pressure; only sells raise it; it is forgotten; more pressure never pays more, more liquidity never less |
| Approvals (`utils/approver`, `utils/ed25519_parser.rs`) | none: reads `State.approver1/2` and the instruction before | verify | governance, takes | exactly the approvals of present approvers pass |

The hard behaviours: partial fulfilment mixed with cancellation over a vault that all
redemption offers and the boss share; a cached value (excluded balance, TVL, accrual
baseline, deserialised mint) used after what it caches has changed; two mints of one
instruction against one cap; the mint authority changing hands; parties outside the program
changing the supply; rounding in chains of divisions; a volume tracker that is rolled lazily
by whichever trade comes next; approvers replaced while their signatures are in
flight. PROJECT.json lists them as hazards, each at its line.

## 2. The modules

| Module | Models | State and actions |
|---|---|---|
| `OnreMath` | the integer arithmetic | one operator per Rust function; results that must fit u64 are guarded by `Fits` |
| `OfferPricing` | vectors, step price, NAV adjustment | pure operators, each that can leave u128 with one (`..._returns`) that says that it returns; an offer's slot array is the set of its filled slots |
| `OnreState` | the accounts the value paths share | the variables, the SPL token operations, `accrue_buffer` and the statistics refresh that other instructions embed |
| `Redemption`, `Buffer`, `OfferTaking`, `Offers`, `Operations` | the instructions of one directory each | one action per instruction |
| `SellCurve` | the sell curve of the Prop AMM: epoch tracker, dynamic wall, hard-wall haircut, fixed-point logarithm and power, cadence wave | pure operators, one per Rust function |
| `PropAmm` | `configure_prop_amm`, `open_swap_buy`, `open_swap_sell` and the quotes | one action per instruction; the quotes change no state and are operators |
| `Onre` | the program | composes the modules above over the shared state: `Init`, `Next`, `Spec`, `FairSpec`, and the properties |
| `RedemptionClaims` | what requests promise, with no vault, price, fee, BUFFER or switch | claims that are opened, served and given back; `Onre` implements it by the mapping `Claims` |
| `MCOnre` | instances | the `Inputs` and `Initial` of each run |
| `OnreHistory` | three history variables: the gross yield earned so far, what accruals have minted so far, the time of each pair's last sell | properties about the past |
| `Arithmetic`, `SellPricing`, `VectorPrices` | promises of `OnreMath`, `SellCurve`, `OfferPricing` | a state is the arguments of one call, or a vector and the time |
| `Formulas` | the three side by side for TLC | |
| `Governance` | `State` and the keys that may change it | every action takes its signer; two history variables keep who made the proposal and who signed the last change of the boss |
| `Approvals`, `MCGovernance` | the verification of approvals in every reachable `State`, and its instance | the clock ticks; transactions carry messages, keys, headers |
| `OnreMathProofs`, `OnreProofs`, `SetupProofs`, `TradeProofs`, `RequestProofs`, `HistoryProofs`, `ArithmeticProofs`, `GovernanceProofs` | TLAPS proofs, see section 5 | |

Correspondence. An instruction is one action: its account constraints and `require!`s are
guards, its writes are primed variables, and an instruction that fails is no step, because
the runtime rolls it back. Optional accrual (`accrued`), the store of the baseline and the
refresh of the statistics are part of the action that contains them, in the code's order:
`accrual` is computed first, and the later mint or burn applies to the ledger it returns, as
the code reloads the mint. `onyc` is the ONyc mint's supply with every ONyc token account;
`asset[a]` are the accounts of the other token of an offer. Accounts that no PDA of the
program owns are lumped into `"wallets"`: who among the holders owns what makes no
difference to the properties. Fixed-point scales are constants (10^9, 10^6, 10^4 in the
code), so that small instances still round in every division.

The Ed25519 instruction of an approval is abstracted to what its verification reads: the key
and message among its own data, how many signatures its header announces, and whether the
header has the runtime read them from another instruction. The runtime refuses a transaction
whose signature is wrong; that is the only thing assumed of it.

The tracker of a Prop AMM pair keeps the fields of `PropAmmPairState`. The configuration is a
record of the fields that the curve reads; the curve's constants (the hard-wall scale, the Q
format of the approximated logarithm and its two constants) are CONSTANTS.
`CalibrationAssumption` and `OctaveAssumption` say how they hang together: the constant
`LOG2_HARD_WALL_SCALE_Q` is what the code's own logarithm returns for 100%, and neither series
overshoots at the end of an octave, where the next one starts. The code's numbers satisfy both:
the first exactly, and of the last mantissa below 2 the logarithm is 1,099,511,611,421 of
2^40 = 1,099,511,627,776, of the last fraction below 1 the exponential is 1,999,999,999,522 of
2 * 10^12.

`AccuracyAssumption` in `VectorPrices` says that `INT_SCALE` is far above the prices and a day's
growth far below 100%: the daily factor is at most 4/3, and 8 n times the price of day n, rounded
up, is at most twice the scale less n. With the code's 10^18 and 10^9 this allows an APR of 12,000%
and, over ten years, a price of 68,000.0; from a base price below 200.0 the code does not come so
far, because it stops at 340-fold growth (below). Without such a bound the promises about the
compounded price are false, whatever the rounding.

Widths. Most intermediate products are u128 products of two u64 values and cannot overflow, so that
only results are guarded. Compounding is different: `pow_fixed` squares and multiplies factors scaled
by 10^18, and a product of two leaves u128 at about 340-fold growth, long before the price leaves u64.
`U128_MAX` is therefore a constant, and `pow_fixed_returns`, `vector_price_returns` and `apy_returns`
follow each `checked_mul` and `checked_add`. An offer whose active vector has grown so far has no
price, and every instruction that needs one fails; where the active vector's APR is above about 587%
the APY overflows in the same way, and with it every refresh of the statistics. `WidthAssumption`
relates the widths: a u128 has room for a u64 in the scale of the factors and in seconds of a day.

`Inputs` holds the arguments each instruction is called with and `Initial` the deployed
configuration, so a run selects the instructions that its question needs; a set left empty
leaves the instruction out.

## 3. Runs

| Run | Question | Bounds |
|---|---|---|
| `redemption` | requests of two offers that share a vault, with boss withdrawals and Prop AMM sells from it: books, coverage, refinement of `RedemptionClaims`, no gain by rounding | 4 ONyc, 2 requests per offer, one offer with a fee and one without: two open requests of different offers, one part-fulfilled, and a sell between them all happen |
| `liveness` | does every request end; what moves under the kill switch; do the statistics follow; what overtakes the excluded balance | one offer that is disabled, unpriced and killed; amounts 1 and 3 of 4 ONyc; reserve and fee vault movements, outside burns |
| `buffer` | accrual over time while its inputs change | 3 instants, one NAV burn of the reserve that accruals fill, a second main offer with another price and APR to change to, authority in both hands, supply cap 5 and u64 of 6 over 4 ONyc, outside burns and mints of 5, fees of a half each, watermark on and off |
| `take` | the four takes | 3 of the asset at a price that leaves a remainder, a fee for the signed takes and none for the permissionless, a refill target, a mint cap of 1, a u64 of 8 that overflows, deposits, fee withdrawals, kill switch, also after the authority has left |
| `propAmm` | quote against swap, and the life of sell pressure | 7 instants, so that three of the longest epochs fit, a constant price so that trades stay possible at all of them, epochs of 1 and 2: every pressure is carried, decayed and dropped, and pairs are reconfigured while it is |
| `setup` | any order of setup, and the life of the vectors | one asset from an empty deployment, 3 slots, instants 1 to 4, base times before and after start times, so that vectors are evicted, overlap and take over early; days of 2 seconds and a u128 of 63, so that the growth of one vector leaves u128 while its price still fits u64 |
| `formulas` | the formulas against reference definitions | grids of arguments whose scales do not divide each other, over all powers of two that the logarithm's series restarts at; vectors over four days with an `INT_SCALE` of 512, about the least that `AccuracyAssumption` allows |
| `governance` | keys, roles and approvals | 3 keys, 2 admin slots, close and re-initialise, two programs, expiry now and later, headers that point elsewhere |
| `requestsCovered`, `mainOffer`, `pressureDecay`, `surplus` | (violated) see Findings | as `redemption`, `governance`, `propAmm`, `propAmm` with a target |

The scales are small so that a division by each of them leaves a remainder in some
reachable state; amounts go up to the point where a cap, an empty vault or an overflow
refuses them. What the bounds cannot show for larger values the proofs show, where there is
one.

What the less obvious runs show. `AccrualWithinBudget` (history variable `budget`): although
the pending accrual is not settled when the main offer, its vectors or the mint authority
change, all that accruals have ever minted (history variable `accrual_minted`, whatever becomes of
it: the run burns from the reserve) never exceeds the gross APR on the baseline of every second, each
second counted once. `PriceLostOnlyToLateVector`: besides the deletion of all vectors and a vector
whose base time is ahead, a price is lost only when its vector is `Outgrown`, which the run reaches.
`BossChangesOnlyByAcceptance` (history variable `boss_signer`): a key becomes boss only by its own
signature and its predecessor's proposal. `PressureIsForgotten` (history variable `last_sell`): although each trade
that rolls the tracker starts an epoch of its own, nothing of a sell is left three epochs later.
`PriceFallsByRoundingOnly`: the price of one vector is *not* monotone; the interpolated end of
one day and the compounded start of the next are rounded separately and the price can fall by
one unit, but by no more; the run has such falls. `PressureNeverPays`, `LiquidityNeverHurts`: the
sell curve, with its approximated powers, keeps its order. `TradesNeverFavourTheUser`: at a fixed
price no v2 take, swap or redemption, with whatever it rounds, makes the users richer; the
legacy takes pay the boss's wallet, which the model does not tell from the users' and so are
not part of this property.

Fairness (`FairSpec`, used by `liveness` only). Solana guarantees no instruction, but a
redeemer may resend `cancel_redemption_request` until it succeeds: strong fairness of the
cancellation of each request, since the kill switch can disable it again and again. The boss
is assumed to lift the kill switch eventually (weak fairness of `set_kill_switch(FALSE)`);
without this no request ends while killed, by design. Nothing is assumed of the worker who
fulfils requests: the property is that a holder does not depend on it. The run has no boss
withdrawal from the vault (see Findings).

Deadlock is checked in every run of the program: some permissionless instruction is always
enabled. Only `formulas`, where a state is one call's arguments and time ends, switches it off.

## 4. Findings

- `RequestsCovered`: `docs/DOMAIN_MODEL.md` says that a redemption request locks ONyc until
  fulfilment or cancellation; `redemption_vault_withdraw` can take it out before that. The
  property `CoverageLostOnlyByWithdraw` shows that nothing else can.
- `PreviousPressureDecays`: `docs/PROP_AMM_PRICING_MODEL.md` says that previous pressure decays
  linearly through the next epoch. If nobody trades, `preview_effective_sell_volume` reports all
  of it until two epochs have passed and then nothing; if somebody does,
  `roll_prop_amm_volume_tracker` starts the decay at that trade.
- `SurplusDoesNotLoosen`: the same document says that balance above the target does not loosen
  the sell curve. Only the reserve is capped by the target; the dynamic wall is computed from
  the whole balance, so that under pressure a surplus raises what a sell is paid.
- `MainOfferPaysOnyc`: `README.md` says that `main_offer` must always point to an offer
  that pays ONyc; `set_onyc_mint` does not look at it.

## 5. Proofs

Every theorem holds for all values of the constants that satisfy the named assumptions, which
TLC evaluates in each run.

`OnreProofs` (assumptions `ScaleAssumption`, `StateAssumption`, `InputAssumption`,
`InitialAssumption`; no bound on amounts, number of assets or length of the behaviour):

- `TypeCorrect`, `Spec => []TypeOK`, and `SupplyAlwaysBacked`, `Spec => []SupplyIsBacked`.
- The inductive invariant is `IInv == TypeOK /\ SupplyIsBacked`. `SupplyIsBacked` is not
  inductive alone: a sum of balances can be rearranged only when they are integers, and the
  amounts an instruction moves (what is left of a request, a refill, a fee split, a price) are
  integers only because the accounts they are computed from are well typed.
- The argument: a ledger is `Backed` if it is well typed and its supply is what its accounts
  hold. `TransferBacked`, `MintBacked` and `BurnBacked` show that each token operation whose
  check succeeds keeps a ledger backed. `AccrualBacked` adds the three mints of an accrual: it
  rests on the reserve being the accrual *minus* the two fees, so that no rounding of either
  fee matters. `TokenInBacked` and `TakeOnycBacked` chain them into the legs of a redemption
  and of a take, where the program holds the mint authority or not. One lemma per instruction
  or family of instructions then gives `IInv'`; `NextIInv` collects them.
- Fees: `FeesSplit` shows that a fee rounded up never exceeds the amount, so that
  `calculate_fees` cannot underflow for any fee the offers accept.
- `LatestStarted`: among the vectors that have started there is a latest one, although an
  offer's vectors are just a set of records here: start times are positive, so the distances
  to the present have a least element (well-foundedness of the naturals). The clean-up of
  `add_offer_vector` needs it to be shown to keep only vectors the offer had.
- The Prop AMM: `RollTyped`, `RecordSellTyped` and `RecordBuyTyped` keep the tracker in its
  types, whatever rolls it; `SwapBuyStep` and `SwapSellStep` reuse the legs of a take and of a
  redemption. Of the sell curve they need only that a sell whose output does not fit u64 fails.

`InitialAssumption` says what a deployment is: no open request, a main offer and redemption
offers that rest on existing offers, no BUFFER without a main offer and no baseline without a
BUFFER, vectors that are finite in number, fit the slots and start at distinct times; the clock
is a Unix time, so not zero; no accrual and no tracker is dated in the future, and a tracker
that never started is empty. An empty deployment satisfies it.

`SetupProofs`: `ConfigurationAlwaysSound`, `VectorsAlwaysDistinct`, `EditsNeverDisturb`,
`PriceAlwaysKept`.

- What exists never ceases to exist: `Grows` holds of every step, and with it references to
  offers and redemption offers stay valid; the steps that make a new reference check it.
- `VectorInv` adds finiteness to distinct start times and at most `MAX_VECTORS` vectors, since
  cardinalities are only known of finite sets. Adding is guarded on the cleaned-up set, and the
  clean-up keeps vectors the offer had (`CleanKeepsOld`).
- `Rescheduled` lists all that a step can do to the vectors of an offer: nothing, drop all, drop
  one that has not started, or clean up and add. Distinct start times make the active vector
  the *only* latest one (`ActiveIsLast`), so that a set that keeps it and the one before it
  quotes the same price and the same NAV adjustment (`SameQuote`). `AddedLater` shows that the
  eviction of `add_offer_vector` keeps just these two; `StaysStarted` that an offer with a running
  vector keeps one.
- `PricedUntilOutgrown`: a vector past its base time has a price unless it is `Outgrown`, which speaks
  of results only. That no product inside `pow_fixed` overflows before its result does (`PowReturnsLoops`,
  `PowFixedReturns` in `OnreMathProofs`) holds because every factor is at least one, so that a rounded
  product is at least each of its factors (`RoundedGrows`): what is left of the loop only adds to it.

`TradeProofs`: what every trade does to every account, and what follows from it.

- `IntermediaryAlwaysEmpty`. Every step leaves the intermediary accounts as they were (`Passed`).
  For a take or a buy the incoming leg needs `AllPaid`: refill, proceeds and fee are exactly the
  amount paid in. This rests on `calculate_fees` computing the net amount by subtraction and on
  the proceeds being what the refill leaves of it; the outgoing leg is forwarded whole, minted or
  from the vault. `Bought` and `RedeemedFor` state the whole movement of a purchase and of a
  redemption; the proofs below reuse them.
- `RollNeverReprices`, `PressureOnlySold`. `PressureCases` gives the pressure of a tracker epoch by
  epoch, the roll is compared with it case by case, and `PressureAges` shows that waiting never
  raises it. The second needs `TrackerInv`: no tracker starts in the future and one that never
  started has recorded nothing, or pressure could appear when the clock reaches it.
- `KillSwitchAlwaysFreezes`: every step while killed is `Harmless`.
- `RefillAlwaysStops`: the target is computed by two divisions that both round down; what a refill
  leaves in the vault, multiplied by both divisors, is still at most the product
  (`TwiceRoundedDown`).

`RequestProofs`: the life of redemption requests, and what the users own.

- `RequestsRefineClaims`, `Spec => RequestsAreClaims`, the refinement of `RedemptionClaims`. The
  mapping turns the requests of an offer into a function from request numbers to what is left of
  them. It is well defined only if no two open requests share a number, so the proof carries
  `RequestInv`: open requests of an offer are distinct by number, their numbers are below the
  offer's counter, and the counters of an offer not yet made are zero. Every step is one of four
  kinds: `Kept` (requests and counters as they were), `Created`, `Cancelled`, `Fulfilled`. Each
  lemma shows what a kind is to the mapping: a stutter, an opening, a claim given back, a claim
  served in part or in full.
- `BooksAlwaysKept`: with `BookInv`, that there are finitely many requests and that the
  `requested_redemptions` of each offer is the sum of what its requests claim. `Changed` says what
  one request that comes, goes or shrinks does to the sum of its offer and to no other.
- `CoverageAlwaysLostByWithdraw`: the ONyc of the redemption vault moves with the claims (`Locked`)
  in the steps of redemption, and is not lowered by any other (`Secured`) but the boss's withdrawal.
  A Prop AMM sell passes through the same vault and is where this is not obvious.
- `TradesNeverFavour`: the users' asset, ONyc and open claims, valued at the price of the offer,
  never grow by a v2 take, a swap, or any step of a redemption (`NoRicher`). `PurchaseIsFair` and
  `RedemptionIsFair` show it of the two conversions, which round down; `SellPaysAtMostRaw` (in
  `OnreMathProofs`: no haircut of the curve is negative) extends it to the sell curve.

`HistoryProofs`: the BUFFER accrual, the statistics and the history variables.

- Every step is `Classified`: it settles the accrual and then mints or burns (`Settled`), leaves
  supply and BUFFER alone (`Idle`), or changes the supply without knowing of BUFFER (`Unaware`: a
  legacy take, or a burn or mint outside the program). From this follow `BaselineAlwaysFollows`,
  `SupplyCapAlwaysRespected`, `WatermarkNeverLowered` and, with the refresh that ends each such
  instruction, `StatsAlwaysFollow`.
- `AccrualAlwaysWithinBudget`. The invariant is `BudgetInv`: what accruals have minted and what is
  pending (`Pending`, the baseline at the gross APR since the last accrual) are together at most
  the budget. The property alone is not inductive: it does not say that the pending yield has not
  been paid yet. What an accrual mints is read off the reserve and fee vaults, to which nothing else
  mints: of a settling step the lemmas show that they rise by the three parts of the split, of a NAV
  burn that the burnt ONyc leaves after them, of every other step but a deposit that they do not rise.
- `ExcludedOvertakenOutside`: the cached excluded balance comes to exceed the supply only by a
  holder's own burn. Every burn of the program is followed by a refresh that would underflow and
  so fail, and an update of the balance reads accounts whose sum the supply covers
  (`SupplyIsBacked`).
- `PressureAlwaysForgotten`. `MemoryInv` dates what a tracker has recorded: sells of its epoch mean
  that the epoch began no later than the last sell, carried pressure that it began at most two of
  the longest epochs after it (`Remembers`); a roll keeps this whatever epoch it starts.

`OnreMathProofs` has the facts the other modules rest on. Division and fees: products of
variables are named and hidden, so that the solver faces linear goals. Induction: stated of a set
of naturals that contains zero and successors (`NatClosed`), it needs no operator parameter, so
that sums over finite sets (`SumIsTotal`: the order in which a fold takes the elements does not
matter), the existence of recursive functions (`RecursionExists`, and `LoopExists` for a loop whose
measure falls) and what they compute can be proved. Then the sell curve (`CurveAssumption`, `CalibrationAssumption`, `OctaveAssumption`),
from the inside out:

- Powers of two: that `2^n` doubles is derived from the number of subsets of a set.
- `LogMantissaMonotone`, `ExpFractionMonotone`: every term of the two series grows with the
  argument, by induction along the series, although each is rounded down twice.
- `LogMonotone`, `ExpMonotone`: within an octave by these, from one to the next because the series
  does not overshoot (`OctaveAssumption`) and the shift of the mantissa keeps the order
  (`MantissaMonotone`, `ShiftedFurther`).
- `PowerMonotoneInU`: `utilization_power_scaled` switches between an exact power for integer
  exponents and the approximation, and at 100% between the two sides of the hard wall;
  `CalibrationAssumption` makes the power of 100% come out as 100% (`PowerOfOne`).
- `PayoutMonotone`: `apply_hard_wall_liquidity_factor` pays no less for more liquidity and
  reserve, less pressure and fewer sells, all at once, through the dynamic wall, the
  utilization, both haircuts and the cadence wave. `SellPaysAtMostRaw` follows.
- `WaitingRelieves`, `RollKeepsPressure`, `TradesMovePressure`: the pressure that a quote reads falls with
  time, is not changed by the roll of the tracker, and moves with trades.

`ArithmeticProofs`: the promises of `Arithmetic` (`ArgumentAssumption`), `SellPricing`
(`OrderAssumption`) and `VectorPrices` (`VectorAssumption`, `AccuracyAssumption`), for all
arguments and scales.

- `RoundTripIsSafe`: the two floors of a purchase and its redemption compose to at most the
  amount paid, because each quotient times its divisor is at most its dividend.
- `AccrualIsExact`, `BurnIsExact`: the formulas return the largest, respectively the least,
  integer that satisfies the inequality they stand for.
- `SplitIsSound`: the parts of an accrual are not negative and add up.
- `PressureNeverPaysMore`, `LiquidityNeverHurtsSeller`, `PowerRisesWithUtilization`: the three
  properties of the sell curve, from `PayoutMonotone` and `PowerMonotoneInU`. Beyond the pairs
  that the run asks about, `WaitingNeverHurts` (for every pair, a later quote pays no less) and
  `TradesMovePayouts` (after a recorded sell the same sell pays no more, after a buy no less).
- `PowFixedShare`: `pow_fixed(b, n, s)` is `s (b/s)^n` up to a share of n in 2s - n. Every rounded
  product of factors of at least one is exact up to a share of 1 in 2s (`RoundedFactor`); an
  iteration that squares the base squares its error too, and the invariant of the loop
  (`NearPower`) shows that over all iterations this comes to exactly one such share for each of
  the n factors (`HalvedAbove`, `HalvedBelow`). `PowerOfNearlyOne` is Bernoulli's inequality in integers.
- `PriceFollowsCompounding`: on day boundaries the price is exact up to 5/8 of a unit
  (`TodayIsNear`): half a unit of the last rounding, an eighth for the power.
- `PriceFallsByAUnit`: within a day the line rises (`LineRises`); the end of its line is at most
  4/3 above the exact price of the next day (`TomorrowIsNear`), which its own price undercuts by
  at most 5/8. The sum is below 2, so that an integer price falls by at most 1 (`TomorrowComes`).

`GovernanceProofs` (assumption `GovernanceAssumption`): `GovernanceTypeCorrect`,
`ProposalsAreTheBosses`, `RolesAreHeldOnce` as invariants, each inductive on top of the type
invariant; `RemovalAlwaysRevokes` and `BossChangesAreAccepted` as action properties that
follow from them. That the first slot holding a key is one that holds it uses the
same well-foundedness argument.

For the approvals, `ApprovalsAlwaysExact` shows that in every reachable `State` the approvals that
pass are exactly the unexpired ones of a present approver for this program and user, and
`ApprovalsAlwaysRevivedByBoss` (`ApprovalsRevivedOnlyByBoss`, proved only) that an approval that does
not pass comes to pass only when the boss makes its signer approver.

Only model-checked: `EveryRequestEnds`, because liveness under fairness is out of the prover's
reach. Every other property of a passing run is the subject of a theorem. That the code's own
numbers satisfy `OctaveAssumption` and `CalibrationAssumption` was computed, not proved: the solvers
do not multiply literals of that size.

## 6. Not modelled

The byte layout of the ed25519 instruction, Token-2022 transfer fees
(every path refuses such mints), rent and creation of token accounts, events and error
codes, read-only views, the operator scripts, user interface, test suite and fuzz harness.
Of the APY of the statistics, a function of the APR alone, only whether it is returned. An offer whose token-out is not
ONyc shares the code of the ones modelled and touches neither BUFFER nor the statistics; it
is left out. Worker, admin and boss are not told apart in `Onre`: who may sign is
`Governance`'s subject.

## 7. Plan

Done: the core (arithmetic, pricing, redemption, BUFFER, takes, configuration, operations,
governance), the Prop AMM, approvals, the refinement of `RedemptionClaims`, history variables
for accrual and sell pressure, the compounded price; the proofs above, which cover every safety
and action property that a passing run checks.

Left: offers that pay another token than ONyc; the saturation of the curve's products at u128, which
`SellCurve` argues in a comment.
