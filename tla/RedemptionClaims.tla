-------------------------- MODULE RedemptionClaims --------------------------
(***************************************************************************)
(* What redemption requests promise, without vaults, prices, fees, BUFFER  *)
(* or kill switch: each redemption offer hands out numbered claims on the  *)
(* ONyc locked with them.  A number is used once; a claim is only ever     *)
(* served or given back, and one that is closed stays closed; what counts  *)
(* as redeemed has been served.  Onre implements this specification.       *)
(***************************************************************************)
EXTENDS Integers

CONSTANTS
    Assets,         \* the redemption offers
    MAX_REQUESTS,   \* bound on the claims of one offer
    U64_MAX         \* the greatest amount

VARIABLES
    claim,          \* what each claim still covers; 0: closed, or not opened
    opened,         \* the number of claims each offer has opened
    served          \* the ONyc each offer has redeemed

claims == <<claim, opened, served>>

Numbers == 0..(MAX_REQUESTS - 1)

ClaimsInit ==
    /\ claim = [a \in Assets |-> [id \in Numbers |-> 0]]
    /\ opened \in [Assets -> 0..MAX_REQUESTS]
    /\ served \in [Assets -> Nat]

\* A holder locks ONyc under the next number.
Open(a, amount) ==
    /\ opened[a] \in Numbers
    /\ claim' = [claim EXCEPT ![a] = [@ EXCEPT ![opened[a]] = amount]]
    /\ opened' = [opened EXCEPT ![a] = @ + 1]
    /\ UNCHANGED served

\* Part or all of a claim is redeemed.
Serve(a, id, amount) ==
    /\ claim' = [claim EXCEPT ![a] = [@ EXCEPT ![id] = claim[a][id] - amount]]
    /\ served' = [served EXCEPT ![a] = @ + amount]
    /\ UNCHANGED opened

\* All that is left of a claim is given back.
GiveBack(a, id) ==
    /\ claim[a][id] > 0
    /\ claim' = [claim EXCEPT ![a] = [@ EXCEPT ![id] = 0]]
    /\ UNCHANGED <<opened, served>>

ClaimsNext ==
    \E a \in Assets :
        \/ \E amount \in 1..U64_MAX : Open(a, amount)
        \/ \E id \in Numbers :
               \/ \E amount \in 1..claim[a][id] : Serve(a, id, amount)
               \/ GiveBack(a, id)

ClaimsSpec == ClaimsInit /\ [][ClaimsNext]_claims
=============================================================================
