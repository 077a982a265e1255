-------------------------- MODULE MCMarketHistory --------------------------
(* Two parts of the history collector that share no state: the candles of    *)
(* one dataset (months of two candles, pages of one, a symbol listed in      *)
(* mid-month, or late) and the requests of two workers.  Each is explored by *)
(* itself; part says which one a behaviour is about.                         *)
EXTENDS MarketHistory, MCPublicRequests

VARIABLE part

MCInit == /\ part \in {"candles", "requests"}
          /\ HistoryInit /\ (part = "requests" => listed = 1)
          /\ RequestsInit

MCNext ==
    /\ UNCHANGED part
    /\ \/ part = "candles" /\ HistoryNext /\ UNCHANGED requestVars
       \/ part = "requests" /\ RequestsNext /\ UNCHANGED historyVars

MCSpec == MCInit /\ [][MCNext]_<<part, historyVars, requestVars>> /\ HistoryFairness
=============================================================================
