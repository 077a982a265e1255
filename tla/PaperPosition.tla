--------------------------- MODULE PaperPosition ---------------------------
(***************************************************************************)
(* The life of a virtual Spot position, candle by candle                   *)
(* (PaperLifecycleEngine of domain/research/paper_lifecycle.py, the        *)
(* trailing stop of domain/research/trailing.py, and the Spot accounting   *)
(* of application/virtual_runtime_engine.py).                              *)
(*                                                                         *)
(* Prices of plans, candles and entries are whole ticks.  The price of an  *)
(* exit loses slippage and is not rounded, so it is counted in 1/Den of a  *)
(* tick; money is counted in 1/(Den*Den) of a tick, in which every amount  *)
(* the code computes with decimals is a whole number.                      *)
(***************************************************************************)
EXTENDS Integers, FiniteSetsExt

CONSTANTS
    Den,           \* the denominator of the ratios
    Fee,           \* fee_ratio = Fee / Den
    Slip,          \* slippage_ratio = Slip / Den
    InitialCash    \* _INITIAL_EQUITY_USDT, in ticks

ASSUME RatioAssumption ==
    /\ Den \in Nat \ {0} /\ Fee \in 0 .. Den /\ Slip \in 0 .. Den - 1
    /\ InitialCash \in Nat

Money(ticks) == ticks * Den * Den

\* _fill_preview and _round_price: a purchase pays the slippage, rounded up to the tick.
ExecutionPrice(plan) == -((-plan.price * (Den + Slip)) \div Den)
FillFee(plan) == ExecutionPrice(plan) * plan.quantity * Fee * Den
FillCost(plan) == Money(ExecutionPrice(plan) * plan.quantity) + FillFee(plan)

\* _initial_portfolio.
InitialPortfolio ==
    [cash |-> Money(InitialCash), equity |-> Money(InitialCash), inventory |-> 0, basis |-> 0,
     realized |-> 0, unrealized |-> 0, losses |-> 0, count |-> 0]

\* materialize_managed_position: one target, taken with the whole quantity
\* (VirtualManagedPosition refuses several targets without ratios).
Opened(plan, symbol, at) ==
    [symbol |-> symbol, opened |-> at, entry |-> ExecutionPrice(plan),
     initial |-> plan.quantity, left |-> plan.quantity,
     stop |-> plan.stop, trail |-> plan.stop, target |-> plan.target,
     pnl |-> 0, bars |-> 0]

\* _spot_portfolio_after_fill, for a purchase.
AfterFill(f, plan) ==
    [f EXCEPT !.cash = @ - FillCost(plan),
              !.equity = f.cash - FillFee(plan) + Money(f.inventory * ExecutionPrice(plan)),
              !.inventory = @ + plan.quantity,
              !.basis = @ + Money(ExecutionPrice(plan) * plan.quantity),
              !.unrealized = Money(f.inventory * ExecutionPrice(plan)) - f.basis,
              !.count = @ + 1]

\* update_long_trailing_stop with the multiplier 1.5, an average true range of
\* the entry's distance to the stop, and a tick of 1.  The code raises when the
\* stop is not below the close; a stop that was not hit is below the low already.
Trailed(pos, close) ==
    Max({pos.trail, (2 * close - 3 * (pos.entry - pos.stop)) \div 2})

\* _apply_exit: the net result of selling q units at the price x, with the share
\* of the entry fee that falls on them.
ExitFee(x, q) == x * q * Fee

\* Mutant: the entry fee is left out of the result.
NetResultWithoutEntryFee(pos, x, q) == (x - pos.entry * Den) * q * Den - ExitFee(x, q)

NetResult(pos, x, q) ==
    (x - pos.entry * Den) * q * Den - ExitFee(x, q) - pos.entry * q * Fee * Den

\* process_candle: the stop is looked at first, then the target, then the stop trails.
StopLevel(pos) == Max({pos.stop, pos.trail})
StopHit(pos, c) == c.low <= StopLevel(pos)
TargetHit(pos, c) == ~StopHit(pos, c) /\ c.high >= pos.target
ExitTicks(pos, c) == IF StopHit(pos, c) THEN Min({c.open, StopLevel(pos)}) ELSE pos.target
ExitPrice(pos, c) == ExitTicks(pos, c) * (Den - Slip)
Exits(pos, c) == StopHit(pos, c) \/ TargetHit(pos, c)

\* process_position, as the journal calls it: no break-even trigger, no holding
\* limit and no forced exit are set on these positions.
AfterCandle(pos, c) ==
    IF Exits(pos, c)
    THEN [pos EXCEPT !.left = 0, !.bars = @ + 1,
                     !.pnl = @ + NetResult(pos, ExitPrice(pos, c), pos.left)]
    ELSE [pos EXCEPT !.bars = @ + 1, !.trail = Trailed(pos, c.close)]

\* Mutant: the cost basis is reduced by what the sale brings in.
AfterUpdateByProceeds(f, pos, c) ==
    [f EXCEPT !.basis = @ - IF Exits(pos, c) THEN ExitPrice(pos, c) * pos.left * Den ELSE 0]

\* _spot_portfolio_after_position_update.
AfterUpdate(f, pos, c) ==
    LET x == ExitPrice(pos, c)
        sold == IF Exits(pos, c) THEN pos.left ELSE 0
        cash == f.cash + x * sold * Den - ExitFee(x, sold)
        held == f.inventory - sold
        basis == IF held = 0 THEN 0 ELSE f.basis - Money(pos.entry * sold)
        net == NetResult(pos, x, sold)
    IN  [cash |-> cash, inventory |-> held, basis |-> basis,
         equity |-> cash + Money(held * c.close),
         realized |-> f.realized + net,
         unrealized |-> Money(held * c.close) - basis,
         losses |-> IF ~Exits(pos, c) THEN f.losses
                    ELSE IF AfterCandle(pos, c).pnl < 0 THEN f.losses + 1 ELSE 0,
         count |-> IF Exits(pos, c) THEN 0 ELSE f.count]
============================================================================
