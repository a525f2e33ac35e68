---------------------------- MODULE MCGovernance ----------------------------
(***************************************************************************)
(* Instances of Governance and Approvals for TLC.                          *)
(***************************************************************************)
EXTENDS Approvals

CONSTANTS k1, k2, k3, onyc, other, usdcOffer, otherOffer, onre, elsewhere

MCTokenOut == [o \in Offers |-> IF o = usdcOffer THEN onyc ELSE other]

Sign(k, program, user, expiry) ==
    [pubkey |-> k, message |->
        [program_id |-> program, user_pubkey |-> user, expiry_unix |-> expiry]]

\* k2 approves k3 and is approved by k3, once for another program only.
MCSignatures == {Sign(k2, onre, k3, 0), Sign(k3, onre, k2, 1), Sign(k2, elsewhere, k3, 1)}

\* Transactions also carry messages that nobody signed.
MCCarried == MCSignatures \union {Sign(k2, onre, k3, 1), Sign(k3, onre, k1, 1)}
=============================================================================
