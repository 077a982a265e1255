------------------------ MODULE VirtualMarketDaemon ------------------------
(***************************************************************************)
(* The virtual market daemon (run_virtual_market_daemon of                 *)
(* cli/runtime.py): processes that take the single-instance lease, and     *)
(* while they hold it scan one symbol after another, each scan being one   *)
(* cycle of the wallet journal.  It composes InstanceLease, which decides  *)
(* who runs, with VirtualWallet, which every cycle reads and appends to.   *)
(*                                                                         *)
(* The scan takes the symbols in turn, and in every ScanEvery-th cycle a   *)
(* symbol the wallet holds or the market ranks high.  Its place is kept in *)
(* memory, saved in the daemon's state file after each cycle, and loaded   *)
(* by the next start.  The cycles are those of the Spot market: futures    *)
(* symbols alternate with them, with counters, cursors and a wallet of     *)
(* their own, and leave the Spot wallet and its scan as they are.          *)
(***************************************************************************)
EXTENDS InstanceLease, VirtualWallet

CONSTANTS
    Symbols,      \* the scanned symbols, in order
    ScanEvery     \* every which cycle is the priority lane's (5 in the code)

ASSUME DaemonAssumption ==
    /\ Writers = Daemons
    /\ Symbols \in Seq(DOMAIN Plans) /\ Symbols # <<>>
    /\ ScanEvery \in Nat \ {0}

VARIABLES
    scan,     \* each daemon's place in the scan: cycles mod ScanEvery, last symbol
    saved     \* the place in the daemon's state file

daemonVars == <<leaseVars, walletVars, scan, saved>>

ScanStart == [seq |-> 0, last |-> 0]

Init ==
    /\ LeaseInit /\ WalletInit
    /\ scan = [d \in Daemons |-> ScanStart]
    /\ saved = ScanStart

\* open_position_symbols; the ledger is read before every choice of a symbol.
HeldIndex == {i \in DOMAIN Symbols : Symbols[i] \in OpenSymbols}

\* The next symbol of the scan. In its turn the priority lane serves the held
\* symbol or one that is ranked high by liquidity now, and there may be no such
\* symbol: which one the lane's own cursor points at is left open. The discovery
\* lane goes on with the symbol after its last one.
Lanes == {"PRIORITY", "DISCOVERY"}
Turn(s) == (s.seq + 1) % ScanEvery
Serves(s, lane, i) ==
    \/ lane = "PRIORITY" /\ Turn(s) = 0
    \/ /\ lane = "DISCOVERY" /\ (Turn(s) = 0 => HeldIndex = {})
       /\ i = (s.last % Len(Symbols)) + 1
After(s, lane, i) ==
    [seq |-> Turn(s), last |-> IF lane = "DISCOVERY" THEN i ELSE s.last]

\* The state of earlier runs is loaded before the lease is asked for.
StartDaemon(d) ==
    /\ Start(d) /\ NobodyAcquires(d)
    /\ scan' = [scan EXCEPT ![d] = saved]
    /\ UNCHANGED <<walletVars, saved>>

Acquire(d) == AcquireStep(d) /\ UNCHANGED <<walletVars, scan, saved>>

ScanSymbol(d, lane, i) ==
    /\ phase[d] = "held" /\ job[d] = Idle /\ CanRead
    /\ Serves(scan[d], lane, i)
    /\ scan' = [scan EXCEPT ![d] = After(@, lane, i)]
    /\ BeginCycle(d, Symbols[i])
    /\ UNCHANGED <<leaseVars, saved>>

\* A cycle that gets no snapshot only moves on in the scan.
NoSnapshot(d, lane, i) ==
    /\ phase[d] = "held" /\ job[d] = Idle /\ CanRead
    /\ Serves(scan[d], lane, i)
    /\ scan' = [scan EXCEPT ![d] = After(@, lane, i)]
    /\ saved' = scan'[d]
    /\ UNCHANGED <<leaseVars, walletVars>>

\* A cycle that ends before it chooses a symbol (memory is short, no symbol is
\* eligible, the ledger cannot be read) writes a state file without the place.
NoSymbol(d) ==
    /\ phase[d] = "held" /\ job[d] = Idle
    /\ saved' = ScanStart
    /\ UNCHANGED <<leaseVars, walletVars, scan>>

\* The cycle's last step is followed by the write of the daemon's state file.
RunCycle(d) ==
    /\ phase[d] = "held"
    /\ CycleStep(d)
    /\ saved' = IF job'[d] = Idle THEN scan[d] ELSE saved
    /\ UNCHANGED <<leaseVars, scan>>

\* The daemon stops after its last cycle.
Stop(d) ==
    /\ job[d] = Idle /\ starts < MaxStarts
    /\ Release(d)
    /\ scan' = [scan EXCEPT ![d] = ScanStart]
    /\ UNCHANGED <<walletVars, saved>>

\* A crash between any two steps, or inside an append.  The last start of a
\* behaviour does not crash: that bounds the faults, not the code.
Crash(d) ==
    /\ starts < MaxStarts
    /\ Die(d)
    /\ scan' = [scan EXCEPT ![d] = ScanStart]
    /\ \/ Becomes(d, Idle) /\ UNCHANGED <<now, candles, ledger, torn, report>>
       \/ Tear(d)
    /\ UNCHANGED saved

MarketMoves == Tick /\ UNCHANGED <<leaseVars, scan, saved>>

Scan(d) == \E lane \in Lanes, i \in DOMAIN Symbols : ScanSymbol(d, lane, i)
Skip(d) == \E lane \in Lanes, i \in DOMAIN Symbols : NoSnapshot(d, lane, i)
DaemonStep(d) == Acquire(d) \/ Scan(d) \/ RunCycle(d)

Next ==
    \/ MarketMoves
    \/ \E d \in Daemons :
          StartDaemon(d) \/ DaemonStep(d) \/ Skip(d) \/ NoSymbol(d) \/ Stop(d) \/ Crash(d)

Spec == Init /\ [][Next]_daemonVars

\* Some running process takes its next step, a daemon is started while none
\* runs, and the exchange does not refuse the snapshots of a symbol whenever the
\* discovery lane has come to it. Of the priority lane nothing is asked.
NobodyRuns == \A d \in Daemons : phase[d] = "off"
ScanOf(i) == \E d \in Daemons : ScanSymbol(d, "DISCOVERY", i)
Fairness ==
    /\ WF_daemonVars(NobodyRuns /\ \E d \in Daemons : StartDaemon(d))
    /\ WF_daemonVars(\E d \in Daemons : DaemonStep(d))
    /\ \A i \in DOMAIN Symbols : SF_daemonVars(ScanOf(i))

FairSpec == Spec /\ Fairness

----------------------------------------------------------------------------

Portfolios == [cash : Int, equity : Int, inventory : Nat, basis : Nat, realized : Int,
               unrealized : Int, losses : Nat, count : 0 .. 1]

DaemonTypeOK ==
    /\ LeaseTypeOK
    /\ now \in 0 .. MaxTime /\ candles \in Seq(Candles) /\ Len(candles) = now \div 2
    /\ \A r \in Range(ledger) : r.before \in Portfolios /\ r.after \in Portfolios
    /\ report.spot \in Portfolios /\ report.open \subseteq DOMAIN Plans
    /\ \A s \in {saved} \cup {scan[d] : d \in Daemons} :
          s.seq \in 0 .. ScanEvery - 1 /\ s.last \in 0 .. Len(Symbols)

\* The ledger is recovered by reading it from the start, and a movement that
\* does not begin where the last one ended makes it unreadable for good: apart
\* from a torn line, that never happens, although every cycle reads, decides and
\* appends in separate steps and may be cut short between any two of them.
LedgerReadable == Readable(ledger)

\* A line that applies to the position of the line before it the first candle
\* that opened at or after that line's cursor.
NextCandle(cursor) == (cursor + 1) \div 2 + 1
CandleApplied(previous, r) ==
    LET c == NextCandle(previous.cursor)
    IN  /\ previous.position.left > 0
        /\ c <= Len(candles) /\ r.cursor = ClosesAt(c)
        /\ r.position = AfterCandle(previous.position, candles[c])

\* "Apply canonical exits to new, contiguous closed candles exactly once"
\* (manage_positions): every exit or hold in the ledger applies the next closed
\* candle to the position of the line before it; so the candles of a position are
\* applied in their order, none twice and none left out, across crashes, restarts
\* and skipped cycles.
CandlesOnce ==
    \A i \in DOMAIN ledger :
        ledger[i].id.kind = "candle" => CandleApplied(ledger[Max(Earlier(ledger, i))], ledger[i])

\* Nothing is lost or made up: what the Spot wallet holds in cash, in stock at
\* cost and in entry fees not yet charged to a result is what it started with
\* plus its realized result; and its equity is cash plus stock at the market.
WalletAddsUp ==
    \A r \in Range(ledger) :
        LET f == r.after
            pos == r.position
            uncharged == IF pos.left > 0 THEN pos.entry * pos.left * Fee * Den ELSE 0
        IN  /\ f.cash + f.basis + uncharged = Money(InitialCash) + f.realized
            /\ f.equity = f.cash + f.basis + f.unrealized
            /\ f.cash >= 0

\* The state file describes one moment of the ledger. Its balances are of the
\* read a call began with, its count and open symbols of a later read, and after
\* a purchase the balance is the decision's: they agree because no other process
\* appends in between, and none is left behind when a cycle fails or the daemon
\* dies between the two reads (_initialize_portfolios, _write_outputs).
ReportTrue ==
    report = NoReport \/
    /\ report.spot = SpotRow(SubSeq(ledger, 1, report.count)).after
    /\ report.open = {} <=> report.spot.inventory = 0

\* A wallet that lost MaxLosses times in a row never trades again: the streak is
\* only reset by a winning exit, and no new position is opened to win with.
Halted == MaxLosses > 0 /\ Lines(ledger, "SPOT") # {} /\ Wallet.losses >= MaxLosses
HaltIsFinal == [][Halted => Lines(ledger', "SPOT") = Lines(ledger, "SPOT")]_daemonVars

\* What stops the daemon for good and needs a person: half a line in the ledger,
\* a lock file without an owner, a position whose next candle left the window.
LostCandle ==
    /\ Lines(ledger, "SPOT") # {} /\ Holding
    /\ OpensAt(Len(candles) - Window + 1) - SpotRow(ledger).cursor >= 2
NeedsReview == torn \/ (lock.exists /\ lock.owner = 0) \/ LostCandle

\* Every candle that closed while a position was open is applied to it in the
\* end, whatever symbols are scanned, however often the daemon crashes and starts.
Overdue ==
    /\ Lines(ledger, "SPOT") # {} /\ Holding
    /\ OpensAt(Len(candles)) >= SpotRow(ledger).cursor
ExitsApplied == []<>(NeedsReview \/ ~Overdue)

\* A daemon runs again after every crash and every stop.
RunsAgain == []<>(NeedsReview \/ \E d \in Daemons : phase[d] = "held")

----------------------------------------------------------------------------
(* Why the safety properties hold: the inductive invariant. *)

Positions ==
    [symbol : DOMAIN Plans, opened : Nat, entry : Nat, initial : Nat, left : Nat, stop : Nat,
     trail : Int, target : Nat, pnl : Int, bars : Nat]
Movements ==
    [id : [kind : {"genesis", "candle", "open"}, at : Nat, of : Nat \cup Writers],
     market : {"SPOT", "USD_M_FUTURES"}, before : Portfolios, after : Portfolios,
     position : Positions \cup {NoPosition}, cursor : Nat]
Readings ==
    [step : {"init", "load", "reinit", "build", "report"}, at : Nat, n : Nat, symbol : DOMAIN Plans]
Outputs ==
    [step : {"output"}, call : Calls, at : Nat, n : Nat, symbol : DOMAIN Plans,
     missing : SUBSET {1, 2}, folio : Portfolios]
Managings ==
    [step : {"manage"}, at : Nat, n : Nat, symbol : DOMAIN Plans, position : Positions,
     folio : Portfolios, cursor : Nat]
Recordings ==
    [step : {"record", "append"}, at : Nat, n : Nat, symbol : DOMAIN Plans,
     plan : UNION {Plans[s] : s \in DOMAIN Plans}, before : Portfolios, after : Portfolios]
Jobs == {Idle} \cup Readings \cup Outputs \cup Managings \cup Recordings

\* What a line says of the wallet: its stock is the position's, at cost, nothing
\* is lost or made up, and a wallet that holds a position is not halted.
FolioTrue(f, pos) ==
    /\ f.inventory = pos.left
    /\ f.basis = IF pos.left > 0 THEN Money(pos.entry * pos.left) ELSE 0
    /\ f.cash + f.basis + (IF pos.left > 0 THEN pos.entry * pos.left * Fee * Den ELSE 0)
          = Money(InitialCash) + f.realized
    /\ f.equity = f.cash + f.basis + f.unrealized
    /\ f.cash >= 0
    /\ pos.left > 0 /\ MaxLosses > 0 => f.losses < MaxLosses
MovementTrue(r) ==
    /\ FolioTrue(r.after, r.position) /\ r.id.at = r.cursor
    /\ r.id.kind = "open" => r.after.count = 1

LedgerInv ==
    /\ ledger \in Seq(Movements)
    /\ \A i \in DOMAIN ledger :
          /\ MovementTrue(ledger[i])
          /\ ledger[i].cursor <= now
          /\ ledger[i].market # "SPOT" => ledger[i].id.kind = "genesis"
          /\ \A k \in Earlier(ledger, i) :
                /\ ledger[k].cursor <= ledger[i].cursor
                /\ ledger[k].id.kind = "open" => ledger[k].cursor < ledger[i].cursor
    /\ Readable(ledger)
    /\ CandlesOnce

\* A running cycle has read what the ledger still says: nobody else appends.
JobTrue(j, l, time) ==
    /\ j.at <= time /\ \A i \in DOMAIN l : l[i].cursor <= j.at
    /\ j.n = j.at \div 2
    /\ j.step \notin {"init", "output"} => Lines(l, "SPOT") # {}
    /\ j.step = "output" =>
          /\ \A i \in j.missing : Lines(l, Markets[i]) = {}
          /\ IF 1 \in j.missing
             THEN j.folio = InitialPortfolio
             ELSE Lines(l, "SPOT") # {} /\ j.folio = SpotRow(l).after
    /\ j.step = "manage" =>
          /\ j.position = SpotRow(l).position /\ j.position.left > 0
          /\ j.folio = SpotRow(l).after /\ j.cursor = SpotRow(l).cursor
    /\ j.step \in {"record", "append"} =>
          /\ j.plan \in Plans[j.symbol] /\ ~Blocked(j.before, j.plan)
          /\ j.after = AfterFill(j.before, j.plan)
    /\ j.step = "append" => j.before = SpotRow(l).after /\ SpotRow(l).position.left = 0

JobsInv ==
    /\ job \in [Daemons -> Jobs]
    /\ \A d \in Daemons : job[d] # Idle => phase[d] = "held" /\ JobTrue(job[d], ledger, now)

ReportInv ==
    /\ report.count \in 0 .. Len(ledger) /\ report.spot \in Portfolios
    /\ report.open \subseteq DOMAIN Plans
    /\ ReportTrue

ScanInv ==
    LET places == [seq : 0 .. ScanEvery - 1, last : 0 .. Len(Symbols)]
    IN  saved \in places /\ scan \in [Daemons -> places]

MarketInv == now \in 0 .. MaxTime /\ candles \in Seq(Candles) /\ Len(candles) = now \div 2

DaemonInv == LeaseInv /\ MarketInv /\ ScanInv /\ LedgerInv /\ JobsInv /\ ReportInv
============================================================================
