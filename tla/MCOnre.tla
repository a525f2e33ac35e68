------------------------------- MODULE MCOnre -------------------------------
(***************************************************************************)
(* Instances of Onre for TLC: the inputs and the initial configuration of  *)
(* each run.                                                               *)
(***************************************************************************)
EXTENDS Onre

CONSTANTS usdc, eurc, wallet

NoInputs ==
    [request |-> {}, fulfill |-> {}, take |-> {}, legacy_take |-> {},
     permissionless |-> {}, mint |-> {}, reserve |-> {}, adjustment |-> {},
     gross_apr |-> {}, buffer_fee |-> {}, deposit |-> {}, withdraw |-> {},
     destination |-> {}, vault_withdraw |-> {}, new_offer |-> {}, main_offer |-> {}, fee |-> {},
     redemption_fee |-> {},
     vault_target |-> {}, disabled |-> {}, vector |-> {}, delete_all |-> {},
     excluded |-> {}, kill_switch |-> {}, supply_cap |-> {}, mint_cap |-> {},
     authority |-> {}, external |-> {}, prop_amm |-> {}, swap |-> {}, minimum_out |-> {}]

\* A vector that has been active since time 1.
ActiveVector(price, apr) ==
    [start_time |-> 1, base_time |-> 1, base_price |-> price, apr |-> apr,
     price_fix_duration |-> 2]

OfferWith(vectors, fee) ==
    [NoOfferYet EXCEPT !.made = TRUE, !.fee_basis_points = fee,
        !.allow_permissionless = TRUE, !.vectors = vectors]

RedemptionOfferWith(fee) ==
    [NoRedemptionOffer EXCEPT !.made = TRUE, !.fee_basis_points = fee]

PairWith(duration) ==
    [enabled |-> TRUE, curve_peg_haircut_bps |-> 4, curve_exponent_scaled |-> 3,
     cadence_threshold |-> 2, cadence_wave_scaled |-> 2, epoch_duration_seconds |-> duration,
     wall_sensitivity_scaled |-> 2, minimum_sell_haircut_onyc |-> 0]

\* A pair configured at time 1.
ActivePair(duration) == [NoPair EXCEPT !.config = PairWith(duration), !.epoch_start = 1]

-----------------------------------------------------------------------------
(* Redemptions of two offers that share the vault.                         *)

RedemptionInputs ==
    [NoInputs EXCEPT !.request = {1, 3}, !.fulfill = {1, 2}, !.withdraw = {2},
        !.swap = {2}, !.minimum_out = {0}]

RedemptionInitial ==
    [clock |-> 2, onyc |-> 4, asset |-> 0, redemption_vault |-> 3, authority |-> "program",
     main_offer |-> usdc,
     offers |-> [a \in Assets |-> OfferWith({ActiveVector(IF a = usdc THEN 2 ELSE 3, 0)}, 0)],
     redemption_offers |-> [a \in Assets |-> RedemptionOfferWith(IF a = usdc THEN 1 ELSE 0)],
     buffer |-> [NoBuffer EXCEPT !.initialized = TRUE, !.previous_supply = 4,
                    !.last_accrual_timestamp = 2],
     prop_amm |-> [a \in Assets |-> IF a = usdc THEN ActivePair(2) ELSE NoPair]]
-----------------------------------------------------------------------------
(* One offer that is disabled, repriced and killed while requests are open,*)
(* with burns and mints from outside and excluded balances.                *)

LivenessInputs ==
    [NoInputs EXCEPT !.request = {1, 3}, !.fulfill = {1, 2}, !.kill_switch = BOOLEAN,
        !.disabled = BOOLEAN, !.delete_all = Assets, !.reserve = {1}, !.external = {2},
        !.excluded = {{"redemption_vault", "reserve"}},
        !.destination = {"redemption_fee"}, !.vault_withdraw = {0}]

LivenessInitial ==
    [RedemptionInitial EXCEPT !.asset = 3, !.redemption_vault = 2,
        !.offers = [a \in Assets |-> OfferWith({ActiveVector(2, 1)}, 1)]]

-----------------------------------------------------------------------------
(* BUFFER accrual over time while its inputs change: the main offer, with  *)
(* another price and APR, the mint authority, the supply and its cap.      *)

BufferInputs ==
    [NoInputs EXCEPT !.gross_apr = {2}, !.buffer_fee = {2}, !.mint = {1},
        !.adjustment = {1}, !.supply_cap = {5}, !.external = {5},
        !.main_offer = {eurc}, !.authority = {"program", "boss"}]

BufferInitial ==
    [clock |-> 1, onyc |-> 4, asset |-> 0, redemption_vault |-> 0,
     authority |-> "program", main_offer |-> usdc,
     offers |-> [a \in Assets |->
                    OfferWith({ActiveVector(1, IF a = usdc THEN 1 ELSE 0)}, 0)],
     redemption_offers |-> [a \in Assets |-> NoRedemptionOffer],
     buffer |-> [NoBuffer EXCEPT !.initialized = TRUE, !.gross_apr = 4,
                    !.previous_supply = 4, !.last_accrual_timestamp = 1,
                    !.management_fee_basis_points = 2, !.performance_fee_basis_points = 2],
     prop_amm |-> [a \in Assets |-> NoPair]]

-----------------------------------------------------------------------------
(* Takes: legacy and v2, through the intermediary or not, with a refill,   *)
(* deposits, the vault they pay into withdrawn, and the kill switch.       *)

TakeInputs ==
    [NoInputs EXCEPT !.take = {3}, !.legacy_take = {3}, !.permissionless = BOOLEAN,
        !.vault_target = {2}, !.authority = {"boss"}, !.deposit = {2}, !.mint_cap = {1},
        !.destination = {"offer_fee"}, !.vault_withdraw = {0}, !.kill_switch = BOOLEAN]

TakeInitial ==
    [clock |-> 1, onyc |-> 2, asset |-> 3, redemption_vault |-> 1,
     authority |-> "program", main_offer |-> usdc,
     offers |-> [a \in Assets |-> OfferWith({ActiveVector(4, 0)}, 1)],
     redemption_offers |-> [a \in Assets |-> RedemptionOfferWith(0)],
     buffer |-> [NoBuffer EXCEPT !.initialized = TRUE, !.gross_apr = 4,
                    !.previous_supply = 2, !.last_accrual_timestamp = 1],
     prop_amm |-> [a \in Assets |-> NoPair]]

-----------------------------------------------------------------------------
(* Prop AMM swaps over several epochs, pairs reconfigured between them.    *)

PropAmmInputs ==
    [NoInputs EXCEPT !.prop_amm = {PairWith(1)}, !.swap = {2, 4}, !.minimum_out = {0}]

PropAmmInitial ==
    [TakeInitial EXCEPT !.onyc = 5, !.asset = 3, !.redemption_vault = 5, !.buffer = NoBuffer,
        !.offers = [a \in Assets |-> [OfferWith({ActiveVector(2, 0)}, 0) EXCEPT
                                         !.fee_basis_points_permissionless = 1]],
        !.prop_amm = [a \in Assets |-> ActivePair(2)]]

\* A redemption vault above its target.
SurplusInputs == [PropAmmInputs EXCEPT !.vault_target = {1, 2, 3}]

-----------------------------------------------------------------------------
(* From an empty deployment: setting everything up in any order, and the   *)
(* life of an offer's vectors.                                             *)

SetupInputs ==
    [NoInputs EXCEPT !.new_offer = Assets, !.fee = {1}, !.permissionless = {TRUE},
        !.main_offer = Assets, !.authority = {"program"}, !.request = {1},
        !.delete_all = Assets, !.redemption_fee = {0}, !.external = {13},
        !.vector = {[start |-> v[1], base_time |-> v[2], base_price |-> v[3],
                     apr |-> v[4], duration |-> v[5]] :
                        v \in {<<0, 1, 1, 4, 1>>, <<2, 1, 2, 0, 2>>,
                               <<3, 4, 1, 0, 2>>, <<4, 1, 2, 1, 2>>}}]

SetupInitial ==
    [clock |-> 1, onyc |-> 2, asset |-> 2, redemption_vault |-> 0,
     authority |-> "boss", main_offer |-> NoOffer,
     offers |-> [a \in Assets |-> NoOfferYet],
     redemption_offers |-> [a \in Assets |-> NoRedemptionOffer],
     buffer |-> NoBuffer, prop_amm |-> [a \in Assets |-> NoPair]]
=============================================================================
