-------------------------- MODULE MCVirtualMarket --------------------------
(***************************************************************************)
(* Two service entries of the virtual market daemon, started twice; two    *)
(* symbols, one of which has a purchase to propose; a candle that raises   *)
(* the stop, and one that reaches the target, and that after the first     *)
(* opens below the raised stop and touches the target all the same.        *)
(***************************************************************************)
EXTENDS VirtualMarketDaemon

Candle(o, h, l, c) == [open |-> o, high |-> h, low |-> l, close |-> c]

MCCandles == {Candle(1000, 1200, 1000, 1200), Candle(1000, 1400, 950, 1000)}
MCForming == Candle(1000, 1000, 1000, 1000)
MCSymbols == <<"BTCUSDT", "ETHUSDT">>
MCPlans == [s \in Range(MCSymbols) |->
    IF s = "BTCUSDT" THEN {[price |-> 1000, stop |-> 900, target |-> 1300, quantity |-> 2]} ELSE {}]

\* Entries that are off differ in nothing, so a start may take the first of them.
FirstOff ==
    \A d, x \in Daemons : x < d /\ phase[d] = "off" /\ phase'[d] # "off" => phase[x] # "off"

\* The steps of acquire commute with the steps of a cycle and of the market,
\* which neither read nor change the lease: a daemon that asks for the lease
\* does so before anything but a stop or a crash happens elsewhere.
AcquiresFirst ==
    (\E d \in Daemons : phase[d] \in Acquiring) => leaseVars' # leaseVars

\* A cycle reads the clock and the candles once, when it begins: the steps of
\* the market commute with the rest of it, and happen between cycles.
CyclesFirst == now' # now => \A d \in Daemons : job[d] = Idle

\* The last start, when it finds a daemon running, fails and changes nothing that
\* daemon reads; and no daemon stops or crashes after it. It commutes with all
\* that happens since, and is made when no candle is left to close.
LateRefusal ==
    starts' # starts /\ ~NobodyRuns => now = MaxTime /\ \A d \in Daemons : job[d] = Idle

\* Only a start reads the state file: once no start is left, a step that writes
\* it and does nothing else changes nothing that is read.
SavesForStarts ==
    starts = MaxStarts /\ UNCHANGED <<phase, job, scan>> => UNCHANGED saved

MCNext == Next /\ FirstOff /\ AcquiresFirst /\ CyclesFirst /\ LateRefusal /\ SavesForStarts
MCSpec == Init /\ [][MCNext]_daemonVars /\ Fairness
============================================================================
