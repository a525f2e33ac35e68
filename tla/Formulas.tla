------------------------------ MODULE Formulas ------------------------------
(***************************************************************************)
(* Arithmetic, SellPricing and VectorPrices side by side for TLC: a        *)
(* behaviour is about one of the three and leaves the others alone.        *)
(***************************************************************************)
EXTENDS Arithmetic, SellPricing, VectorPrices

VARIABLE about

formulas == <<about, args, order, vector, now>>

\* Some element of S, of all of S if the behaviour is about it.
Varied(S, subject) == IF about = subject THEN S ELSE {CHOOSE x \in S : TRUE}

FormulasInit ==
    /\ about \in {"arithmetic", "sells", "prices"}
    /\ args \in Varied(Arguments, "arithmetic")
    /\ order \in Varied(Orders, "sells")
    /\ vector \in Varied(Vectors, "prices")
    /\ now = 1

FormulasNext ==
    /\ UNCHANGED about
    /\ \/ about = "arithmetic" /\ ArithmeticNext /\ UNCHANGED <<order, vector, now>>
       \/ about = "sells" /\ PricingNext /\ UNCHANGED <<args, vector, now>>
       \/ about = "prices" /\ Wait /\ UNCHANGED <<args, order>>

FormulasSpec == FormulasInit /\ [][FormulasNext]_formulas
=============================================================================
