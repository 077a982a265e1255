--------------------------- MODULE MCMarketDepth ---------------------------
(* Small instances of MarketDepth.                                            *)
EXTENDS MarketDepth

TwoSymbols == <<"BTC", "ETH">>

Bid == [side |-> "bid", price |-> 1]
Ask == [side |-> "ask", price |-> 2]
OuterAsk == [side |-> "ask", price |-> 3]

ThreeLevels == {Bid, Ask, OuterAsk}

Quoted == [l \in ThreeLevels |-> 1]

Move(l, q) == [level |-> l, quantity |-> q]

\* Three updates of one book beside a quiet one; every quantity but zero is
\* new. An update may empty a side, touch a level again, or reach a level the
\* snapshot did not show.
OneMoves == [s \in Symbols |->
    IF s = "BTC" THEN << {Move(Bid, 0), Move(Ask, 2)},
                         {Move(OuterAsk, 3)},
                         {Move(Ask, 0)} >>
                 ELSE <<>>]

\* A snapshot shows everything, or not the level beyond its limit.
LimitedViews == {ThreeLevels, {Bid, Ask}}
=============================================================================
