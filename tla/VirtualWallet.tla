--------------------------- MODULE VirtualWallet ---------------------------
(***************************************************************************)
(* The journal of the virtual wallets (virtual_wallet_journal.py): a       *)
(* ledger of movements in a chained JSONL file (storage/jsonl.py) from     *)
(* which balances and open positions are recovered, and the state file     *)
(* derived from it.  A research cycle of a daemon recovers the wallet,     *)
(* applies the closed candles to an open position one append at a time,    *)
(* decides on a purchase, and records it.  Every call reads the ledger for *)
(* itself, and what a cycle read it keeps while the ledger, the clock and  *)
(* the candles move on: the balances in the state file were read before    *)
(* the movements it counts.                                                *)
(*                                                                         *)
(* Time is counted in half candles: candle i opens at 2(i-1) and closes at *)
(* 2i, and a cycle may run on a boundary or inside a candle.               *)
(***************************************************************************)
EXTENDS PaperPosition, Sequences

CONSTANTS
    Writers,       \* the processes that run cycles
    Plans,         \* the purchases the research may propose for each symbol
    Candles,       \* the candles the market may print
    Forming,       \* what a candle looks like before it closes
    Window,        \* closed candles in a snapshot
    MaxLosses,     \* maximum_consecutive_losses, 0 for no limit
    MaxTime        \* bound: half candles in a behaviour

\* Prices and quantities are not negative.
ASSUME WalletAssumption ==
    /\ {Window, MaxLosses, MaxTime} \subseteq Nat
    /\ Candles \cup {Forming} \subseteq [open : Nat, high : Nat, low : Nat, close : Nat]
    /\ \A symbol \in DOMAIN Plans :
          Plans[symbol] \subseteq [price : Nat, stop : Nat, target : Nat, quantity : Nat]

VARIABLES
    now,        \* the clock
    candles,    \* the candles closed so far
    ledger,     \* the movements in the ledger file
    torn,       \* the file ends in half a line
    report,     \* the derived state file: its movement count, open symbols and Spot wallet
    job         \* what each writer is doing, and what it has read

walletVars == <<now, candles, ledger, torn, report, job>>

Idle == [step |-> "idle"]
NoPosition == [left |-> 0]
NoReport == [count |-> 0, open |-> {}, spot |-> InitialPortfolio]
Markets == <<"SPOT", "USD_M_FUTURES">>

WalletInit ==
    /\ now = 0 /\ candles = <<>>
    /\ ledger = <<>> /\ torn = FALSE /\ report = NoReport
    /\ job = [w \in Writers |-> Idle]

----------------------------------------------------------------------------
(* The ledger. *)

\* The lines of a wallet.
Lines(l, market) == {i \in DOMAIN l : l[i].market = market}
Earlier(l, i) == {k \in Lines(l, l[i].market) : k < i}

\* _read_movements, line by line: identities are unique, a wallet has one
\* genesis, and every movement starts from the balance the one before it left;
\* and the check of _latest_positions that a Spot position is what the wallet holds.
Readable(l) ==
    \A i \in DOMAIN l :
        /\ \A k \in Earlier(l, i) : l[k].id # l[i].id
        /\ l[i].id.kind = "genesis" <=> Earlier(l, i) = {}
        /\ Earlier(l, i) # {} => l[i].before = l[Max(Earlier(l, i))].after
        /\ l[i].position # NoPosition => l[i].position.left = l[i].after.inventory

CanRead == ~torn /\ Readable(ledger)

\* _latest_portfolios and _latest_positions, for the Spot wallet.
SpotRow(l) == l[Max(Lines(l, "SPOT"))]
Wallet == SpotRow(ledger).after
Holding == SpotRow(ledger).position.left > 0
OpenSymbols ==
    IF Lines(ledger, "SPOT") # {} /\ Holding THEN {SpotRow(ledger).position.symbol} ELSE {}

Row(kind, at, of, market, before, after, position, cursor) ==
    [id |-> [kind |-> kind, at |-> at, of |-> of], market |-> market,
     before |-> before, after |-> after, position |-> position, cursor |-> cursor]

\* append_verified_idempotent: the same movement again is no movement, another
\* movement under the same identity is refused.
Known(row) == \E r \in Range(ledger) : r.id = row.id /\ r.market = row.market
Conflict(row) == Known(row) /\ row \notin Range(ledger)
AppendMovement(row) == ledger' = IF Known(row) THEN ledger ELSE Append(ledger, row)

----------------------------------------------------------------------------
(* The movements a writer's next step appends: none, or one. *)

Missing == {i \in DOMAIN Markets : Lines(ledger, Markets[i]) = {}}

GenesisRows(w) ==
    IF job[w].step = "output" /\ ~torn /\ job[w].missing # {}
    THEN {Row("genesis", 0, 0, Markets[Min(job[w].missing)], InitialPortfolio,
              InitialPortfolio, NoPosition, 0)}
    ELSE {}

OpensAt(i) == 2 * (i - 1)
ClosesAt(i) == 2 * i
CandleOf(j, i) == IF i > j.n THEN Forming ELSE candles[i]

\* Mutant: the candle that is still forming is examined as well.
DueForming(j) ==
    {i \in Max({1, j.n - Window + 1}) .. j.n + 1 : OpensAt(i) >= j.cursor}

\* The candles of the snapshot that manage_positions does not skip.
Due(j) ==
    {i \in Max({1, j.n - Window + 1}) .. j.n + 1 :
        OpensAt(i) >= j.cursor /\ ClosesAt(i) <= j.at}

\* Mutant: a candle that opens inside the interval of the cursor is a gap.
GapInside(j) == Due(j) # {} /\ OpensAt(Min(Due(j))) > j.cursor

Gap(j) == Due(j) # {} /\ OpensAt(Min(Due(j))) - j.cursor >= 2

CandleRows(w) ==
    LET j == job[w]
    IN  IF j.step = "manage" /\ ~torn /\ Due(j) # {} /\ ~Gap(j)
        THEN LET i == Min(Due(j))
                 c == CandleOf(j, i)
             IN  {Row("candle", ClosesAt(i), j.position.opened, "SPOT", j.folio,
                      AfterUpdate(j.folio, j.position, c), AfterCandle(j.position, c),
                      ClosesAt(i))}
        ELSE {}

\* The movement record_cycle appends.
OpenRows(w) ==
    LET j == job[w]
    IN  IF j.step = "append" /\ ~torn
        THEN {Row("open", j.at, w, "SPOT", j.before, j.after,
                  Opened(j.plan, j.symbol, j.at), j.at)}
        ELSE {}

Pending(w) == GenesisRows(w) \cup CandleRows(w) \cup OpenRows(w)

----------------------------------------------------------------------------
(* The steps of a cycle. *)

Becomes(w, j) == job' = [job EXCEPT ![w] = j]
Reading(step, j) == [step |-> step, at |-> j.at, n |-> j.n, symbol |-> j.symbol]

\* Balances on their way to _write_outputs: who read them, the Spot wallet among
\* them, and the wallets the ledger did not have then.
Output(call, j, missing, folio) ==
    [step |-> "output", call |-> call, at |-> j.at, n |-> j.n, symbol |-> j.symbol,
     missing |-> missing, folio |-> folio]

\* analysis_snapshot begins with the snapshot of one symbol, acquired now.
BeginCycle(w, symbol) ==
    /\ job[w] = Idle
    /\ Becomes(w, [step |-> "init", at |-> now, n |-> Len(candles), symbol |-> symbol])
    /\ UNCHANGED <<now, candles, ledger, torn, report>>

\* The calls of initialize, in analysis_snapshot and in portfolio_builder, and
\* the one of record_cycle without a decision.
Calls == {"init", "reinit", "build", "report"}
Reads(j) == j.step \in Calls \cup {"load", "record"} \/ (j.step = "output" /\ j.missing = {})
Drifted(j) == Wallet # j.after /\ (Wallet # j.before \/ Holding)

\* Any error ends the cycle; the daemon notes it and goes on with the next one:
\* a ledger that cannot be read or appended to, a candle that is missing, a
\* wallet that is not the one the decision was made for, an identity used for
\* another movement.
CycleFails(w) ==
    /\ LET j == job[w]
       IN  \/ Reads(j) /\ ~CanRead
           \/ j # Idle /\ ~Reads(j) /\ torn
           \/ j.step = "manage" /\ Gap(j)
           \/ j.step = "record" /\ CanRead /\ Drifted(j)
           \/ \E row \in Pending(w) : Conflict(row)
    /\ Becomes(w, Idle)
    /\ UNCHANGED <<now, candles, ledger, torn, report>>

\* _initialize_portfolios reads the ledger once; a wallet without a movement
\* starts with the initial balance.
Recover(w) ==
    /\ job[w].step \in Calls /\ CanRead
    /\ Becomes(w, Output(job[w].step, job[w], Missing,
                         IF Lines(ledger, "SPOT") = {} THEN InitialPortfolio ELSE Wallet))
    /\ UNCHANGED <<now, candles, ledger, torn, report>>

\* The wallets it did not find are given their first movement, one by one.
Genesis(w) ==
    /\ \E row \in GenesisRows(w) : ~Conflict(row) /\ AppendMovement(row)
    /\ Becomes(w, [job[w] EXCEPT !.missing = @ \ {Min(@)}])
    /\ UNCHANGED <<now, candles, torn, report>>

\* Mutant: one loss more than the limit is needed to halt.
BlockedLate(f, plan) == f.count >= 1 \/ f.cash < FillCost(plan) \/ (f.losses > MaxLosses /\ MaxLosses > 0)

\* _portfolio_blockers and _portfolio_governor_blockers.
Blocked(f, plan) ==
    f.count >= 1 \/ f.cash < FillCost(plan) \/ (f.losses >= MaxLosses /\ MaxLosses > 0)

\* The purchases the research workflow may propose on the wallet it was given.
Decisions(j) ==
    {[step |-> "record", at |-> j.at, n |-> j.n, symbol |-> j.symbol, plan |-> plan,
      before |-> j.folio, after |-> AfterFill(j.folio, plan)] :
        plan \in {p \in Plans[j.symbol] : ~Blocked(j.folio, p)}}

\* Where a cycle goes on: with the open position, with the research, which asks
\* for the wallet once more when it has a candidate, and with record_cycle, which
\* gets a decision or none.
AfterOutput(j) ==
    CASE j.call = "init" -> {Reading("load", j)}
      [] j.call = "reinit" ->
            {Reading(s, j) : s \in {"report"} \cup (IF Plans[j.symbol] = {} THEN {} ELSE {"build"})}
      [] j.call = "build" -> {Reading("report", j)} \cup Decisions(j)
      [] OTHER -> {Idle}

\* _write_outputs reads the movements again for their count and the open
\* symbols; the balances are the ones its caller has had since its own read.
WriteOutputs(w) ==
    /\ job[w].step = "output" /\ job[w].missing = {} /\ CanRead
    /\ report' = [count |-> Len(ledger), open |-> OpenSymbols, spot |-> job[w].folio]
    /\ \E j \in AfterOutput(job[w]) : Becomes(w, j)
    /\ UNCHANGED <<now, candles, ledger, torn>>

\* manage_positions reads the position once; a snapshot of another symbol leaves it alone.
LoadPosition(w) ==
    /\ job[w].step = "load" /\ CanRead
    /\ LET j == job[w]
           r == SpotRow(ledger)
       IN  IF ~Holding \/ r.position.symbol # j.symbol
           THEN Becomes(w, [j EXCEPT !.step = "reinit"])
           ELSE Becomes(w, [step |-> "manage", at |-> j.at, n |-> j.n, symbol |-> j.symbol,
                            position |-> r.position, folio |-> r.after, cursor |-> r.cursor])
    /\ UNCHANGED <<now, candles, ledger, torn, report>>

Managed(j) == Reading("reinit", j)

\* Mutant: the loop goes on with the balance it read before it.
ManageCandleStale(w) ==
    /\ \E row \in CandleRows(w) :
          /\ ~Conflict(row)
          /\ AppendMovement(row)
          /\ Becomes(w, IF row.position.left = 0
                        THEN Managed(job[w])
                        ELSE [job[w] EXCEPT !.position = row.position, !.cursor = row.cursor])
    /\ UNCHANGED <<now, candles, torn, report>>

\* One closed candle applied and recorded; a closed position ends the loop.
ManageCandle(w) ==
    /\ \E row \in CandleRows(w) :
          /\ ~Conflict(row)
          /\ AppendMovement(row)
          /\ Becomes(w, IF row.position.left = 0
                        THEN Managed(job[w])
                        ELSE [job[w] EXCEPT !.position = row.position, !.folio = row.after,
                                            !.cursor = row.cursor])
    /\ UNCHANGED <<now, candles, torn, report>>

ManageEnds(w) ==
    /\ job[w].step = "manage" /\ ~torn /\ Due(job[w]) = {}
    /\ Becomes(w, Managed(job[w]))
    /\ UNCHANGED <<now, candles, ledger, torn, report>>

\* record_cycle reads the wallet and the position: the wallet must be the one
\* the decision was made for, without a position.  A wallet that already is what
\* the decision makes it is left alone.
RecordCycle(w) ==
    /\ job[w].step = "record" /\ CanRead /\ ~Drifted(job[w])
    /\ Becomes(w, IF Wallet = job[w].after THEN Output("report", job[w], {}, Wallet)
                                            ELSE [job[w] EXCEPT !.step = "append"])
    /\ UNCHANGED <<now, candles, ledger, torn, report>>

\* Mutant: the balance the decision leaves does not replace the one that was read.
RecordMovementStale(w) ==
    /\ \E row \in OpenRows(w) : ~Conflict(row) /\ AppendMovement(row)
    /\ Becomes(w, Output("report", job[w], {}, job[w].before))
    /\ UNCHANGED <<now, candles, torn, report>>

\* The movement is appended, and its balance goes to the state file.
RecordMovement(w) ==
    /\ \E row \in OpenRows(w) : ~Conflict(row) /\ AppendMovement(row)
    /\ Becomes(w, Output("report", job[w], {}, job[w].after))
    /\ UNCHANGED <<now, candles, torn, report>>

\* A crash inside an append leaves half a line, which no later reader accepts.
Tear(w) ==
    /\ Pending(w) # {} /\ ~torn
    /\ torn' = TRUE
    /\ Becomes(w, Idle)
    /\ UNCHANGED <<now, candles, ledger, report>>

CycleStep(w) ==
    \/ Recover(w) \/ Genesis(w) \/ WriteOutputs(w)
    \/ LoadPosition(w) \/ ManageCandle(w) \/ ManageEnds(w)
    \/ RecordCycle(w) \/ RecordMovement(w) \/ CycleFails(w)

\* The market: half a candle passes, and on a boundary a candle closes.
Tick ==
    /\ now < MaxTime
    /\ now' = now + 1
    /\ IF now' % 2 = 0 THEN \E c \in Candles : candles' = Append(candles, c)
                       ELSE UNCHANGED candles
    /\ UNCHANGED <<ledger, torn, report, job>>
============================================================================
