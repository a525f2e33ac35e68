------------------------------- MODULE Offers -------------------------------
(***************************************************************************)
(* Creating, configuring and pricing offers (make_offer.rs,                *)
(* update_offer_fee.rs, update_offer_permissionless_fee.rs,                *)
(* set_offer_disabled.rs, *_offer_vector*.rs), all by the boss except that *)
(* an admin may disable.                                                   *)
(***************************************************************************)
EXTENDS OnreState

\* Offer before make_offer creates it.
NoOfferYet ==
    [made |-> FALSE, disabled |-> FALSE, fee_basis_points |-> 0,
     fee_basis_points_permissionless |-> 0, allow_permissionless |-> FALSE,
     vectors |-> {}]

\* What every action of this module leaves alone.
only_offers_change ==
    UNCHANGED <<clock, state, redemption_offers, requests, mint_authority, onyc,
                asset, buffer, excluded, market_stats, destinations, prop_amm>>

\* make_offer; `init` fails if the account exists.
make_offer(a, fee, permissionless) ==
    /\ ~offers[a].made
    /\ fee <= MAX_ALLOWED_FEE_BPS
    /\ offers' = [offers EXCEPT ![a] =
           [NoOfferYet EXCEPT !.made = TRUE, !.fee_basis_points = fee,
                              !.allow_permissionless = permissionless]]
    /\ only_offers_change

\* update_offer_fee (the same fee again is accepted).
update_offer_fee(a, fee) ==
    /\ offers[a].made
    /\ fee <= MAX_ALLOWED_FEE_BPS
    /\ offers' = [offers EXCEPT ![a].fee_basis_points = fee]
    /\ only_offers_change

\* update_offer_permissionless_fee
update_offer_permissionless_fee(a, fee) ==
    /\ offers[a].made
    /\ fee <= MAX_ALLOWED_FEE_BPS
    /\ offers' = [offers EXCEPT ![a].fee_basis_points_permissionless = fee]
    /\ only_offers_change

\* set_offer_disabled
set_offer_disabled(a, disabled) ==
    /\ offers[a].made
    /\ offers' = [offers EXCEPT ![a].disabled = disabled]
    /\ only_offers_change

-----------------------------------------------------------------------------
\* Mutant: a vector may start with the last one.
validate_not_before(vectors, v) ==
    /\ v.start_time >= clock
    /\ v.base_time > 0 /\ v.base_price > 0 /\ v.price_fix_duration > 0
    /\ \A w \in vectors : v.start_time >= w.start_time

\* add_offer_vector::validate_inputs.  "Not a duplicate" is implied by "later
\* than every other start time", which the code also requires.
validate_inputs(vectors, v) ==
    /\ v.start_time >= clock
    /\ v.base_time > 0 /\ v.base_price > 0 /\ v.price_fix_duration > 0
    /\ \A w \in vectors : v.start_time > w.start_time

\* Mutant: the vector before the active one is dropped as well.
clean_all_before_active(vectors, new) ==
    LET startsNow == new.start_time = clock
        active    == IF startsNow THEN new ELSE find_active_vector_at(vectors, clock)
    IN  IF ~startsNow /\ started_at(vectors, clock) = {} THEN vectors
        ELSE {w \in vectors : w.start_time >= active.start_time}

\* Mutant: the active vector itself is dropped.
clean_active_too(vectors, new) ==
    IF started_at(vectors, clock) = {} THEN vectors
    ELSE {w \in vectors : w.start_time > find_active_vector_at(vectors, clock).start_time}

\* add_offer_vector::clean_old_vectors: of the vectors before the active one
\* only the latest is kept.  A new vector that starts now is the active one.
clean_old_vectors(vectors, new) ==
    LET startsNow == new.start_time = clock
        active    == IF startsNow THEN new ELSE find_active_vector_at(vectors, clock)
    IN  IF ~startsNow /\ started_at(vectors, clock) = {} THEN vectors
        ELSE {w \in vectors : w.start_time >= active.start_time}
                 \union find_previous_vector(vectors, active.start_time)

\* add_offer_vector; start = 0 stands for an omitted start time, which
\* defaults to the later of the base time and now.
add_offer_vector(a, start, base_time, base_price, apr, duration) ==
    LET new == [start_time |-> IF start = 0 THEN max_of(clock, base_time) ELSE start,
                base_time |-> base_time, base_price |-> base_price, apr |-> apr,
                price_fix_duration |-> duration]
        kept == clean_old_vectors(offers[a].vectors, new)
    IN  /\ offers[a].made
        /\ validate_inputs(offers[a].vectors, new)
        /\ Cardinality(kept) < MAX_VECTORS
        /\ offers' = [offers EXCEPT ![a].vectors = kept \union {new}]
        /\ only_offers_change

\* delete_offer_vector: only a vector that has not started.
delete_offer_vector(a, v) ==
    /\ v \in offers[a].vectors
    /\ v.start_time > clock
    /\ offers' = [offers EXCEPT ![a].vectors = @ \ {v}]
    /\ only_offers_change

\* delete_all_offer_vectors
delete_all_offer_vectors(a) ==
    /\ offers[a].made
    /\ offers' = [offers EXCEPT ![a].vectors = {}]
    /\ only_offers_change
=============================================================================
