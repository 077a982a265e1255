-------------------------- MODULE MCPublicRequests --------------------------
(* PublicRequests with two workers: a page of candles that is a retry of a gap *)
(* or not, and exchangeInfo; a short window the headers report and a longer   *)
(* one they do not.                                                           *)
EXTENDS PublicRequests, TLC

MCRequests == {[weight |-> 8, info |-> FALSE, supplemental |-> TRUE],
               [weight |-> 8, info |-> FALSE, supplemental |-> FALSE],
               [weight |-> 1, info |-> TRUE, supplemental |-> FALSE]}

MCLimit == 2 :> 18 @@ 3 :> 20

Symmetry == Permutations(Callers)
=============================================================================
