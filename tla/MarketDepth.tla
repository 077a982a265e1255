----------------------------- MODULE MarketDepth -----------------------------
(* The public depth recorder of data/market_depth.py for one socket group:    *)
(* the collector thread (_supervise, _connection), which builds one           *)
(* ReadOnlyOrderBook per symbol from a REST snapshot and the diff stream, the  *)
(* SQLite journal it writes in batches, and read_local_depth, the reader that  *)
(* rebuilds a book from the journal alone.                                     *)
(*                                                                            *)
(* The exchange is external. It keeps the sequence of books of every symbol   *)
(* (update n leads to history[n]), publishes deltas over any number of        *)
(* updates, and answers a snapshot request with any book so far, cut to one   *)
(* of the Views. The stream may lose, repeat or garble a delta.               *)
(*                                                                            *)
(* A part of one pass of the collector's loop is one action; the pass order   *)
(* that matters (a symbol that waits is picked before the next message is     *)
(* read) is in the guards. Every storage write may fail, the connection may   *)
(* break and the process may die between any two of them. The reader runs in  *)
(* a read transaction and is a function of the journal.                       *)
EXTENDS OrderBook, Sequences

CONSTANTS
    Group,          \* the symbols of the socket group, in their order
    NoSymbol,       \* no bootstrap under way
    Opening,        \* the quantities of every book before the first update
    Views,          \* the sets of levels a limited snapshot may show
    BufferLimit,    \* deltas buffered during a bootstrap (4096 in the code)
    Moves,          \* bound: the changes of a level that may be the updates 2, 3, ... of a symbol
    MaxWire,        \* bound: deltas in flight
    MaxFaults       \* bound: losses, repetitions, broken connections, failed writes, deaths

Symbols == {Group[i] : i \in DOMAIN Group}

ASSUME DepthAssumption ==
    /\ Group \in Seq(Symbols)
    /\ \A i, j \in DOMAIN Group : Group[i] = Group[j] => i = j
    /\ NoSymbol \notin Symbols
    /\ Opening \in Quantities
    /\ Views \subseteq SUBSET Levels
    /\ Moves \in [Symbols -> Seq(SUBSET [level : Levels, quantity : Nat])]
    /\ {BufferLimit, MaxWire, MaxFaults} \subseteq Nat

VARIABLES
    futures,        \* whether the group's market is one of the futures markets
    venue,          \* exchange: history, published (last id sent) and touched, per symbol
    subscribed,     \* exchange: symbols whose deltas go to this connection
    wire,           \* deltas in flight on the connection
    phase,          \* where the supervisor is
    requested,      \* SUBSCRIBE messages on their way
    held,           \* keys of the dictionary books
    books,          \* books
    remaining,      \* queue of symbols that wait for a snapshot
    pending,        \* the symbol being bootstrapped
    answer,         \* result of its future: empty until the snapshot is there
    buffers,        \* its deltas that came before the snapshot
    draining,       \* the snapshot is applied, its buffered deltas are not all
    records,        \* journal records not written yet
    journal,        \* depth.sqlite3: per symbol the head's status and the rows from its checkpoint on
    shown,          \* history: the latest update id the journal offered, per symbol
    faults          \* faults so far

exchangeVars == <<futures, venue, subscribed, requested>>
connectionVars == <<held, books, remaining, pending, answer, buffers, draining>>
vars == <<exchangeVars, wire, phase, connectionVars, records, journal, shown, faults>>

-----------------------------------------------------------------------------
(* The journal.                                                             *)

Row(s, kind, body) == [symbol |-> s, kind |-> kind, body |-> body]

Gap(s) == Row(s, "gap", [reason |-> "gap"])

Gaps == [i \in 1..Len(Group) |-> Gap(Group[i])]

\* Mutant: a snapshot counts as live before a delta has bridged it.
HeadStatusEager(kind) == IF kind = "gap" THEN "GAP" ELSE "LIVE"

HeadStatus(kind) ==
    CASE kind \in {"delta", "checkpoint"} -> "LIVE"
      [] kind = "snapshot" -> "SYNCING"
      [] kind = "gap" -> "GAP"

(* DepthJournal.append for one record: the head follows it, and the rows      *)
(* before a snapshot or a checkpoint are never read again (and compacted). A  *)
(* gap fails every replay up to the next of them, so it stands for the rows   *)
(* before it.                                                                 *)
Logged(stored, row) ==
    [status |-> HeadStatus(row.kind),
     rows |-> CASE row.kind \in {"snapshot", "checkpoint", "gap"} -> <<row>>
                [] row.kind = "delta" /\ stored.rows # <<>> -> Append(stored.rows, row)
                [] OTHER -> <<>>]

Stored(all, row) == [all EXCEPT ![row.symbol] = Logged(@, row)]

\* The loop of append, over the journal all.
Written(all, rows) ==
    LET written[n \in 0..Len(rows)] ==
          IF n = 0 THEN all ELSE Stored(written[n - 1], rows[n])
    IN  written[Len(rows)]

\* One row of the loop of read_local_depth; ok: no row has failed so far.
ReplayRow(replay, row) ==
    LET outcome == DeltaOutcome(replay.book, row.body)
        book == IF row.kind = "delta" THEN ApplyDelta(replay.book, row.body)
                                      ELSE ApplySnapshot(replay.book, row.body)
    IN  IF ~replay.ok \/ row.kind = "gap" THEN [replay EXCEPT !.ok = FALSE]
        ELSE [book |-> book,
              ok |-> IF row.kind = "delta"
                     THEN outcome = "OLD" \/ (outcome = "APPLIED" /\ book.state = "LIVE")
                     ELSE book.state = "LIVE"]

Offered(stored) == stored.status = "LIVE" /\ stored.rows # <<>>

\* The rows from the checkpoint on, applied to a new book.
Replay(new, rows) ==
    LET replayed[n \in 0..Len(rows)] ==
          IF n = 0 THEN [ok |-> TRUE, book |-> new]
                   ELSE ReplayRow(replayed[n - 1], rows[n])
    IN  replayed[Len(rows)]

ReadLocalDepth(stored) ==
    IF Offered(stored) THEN Replay(NewBook(futures), stored.rows)
                       ELSE [ok |-> FALSE, book |-> NewBook(futures)]

\* Every write of the journal; shown follows what a reader is given.
Write(rows) ==
    /\ journal' = Written(journal, rows)
    /\ shown' = [s \in Symbols |->
                   LET read == ReadLocalDepth(journal'[s])
                   IN  IF read.ok /\ read.book.last_update_id > shown[s]
                       THEN read.book.last_update_id ELSE shown[s]]

Fault == faults < MaxFaults /\ faults' = faults + 1

-----------------------------------------------------------------------------
(* The exchange and the stream.                                             *)

Now(s) == Len(venue[s].history)

Update(s) ==
    /\ Now(s) <= Len(Moves[s])
    /\ \E move \in Moves[s][Now(s)] :
          venue' = [venue EXCEPT
              ![s].history = Append(@, [@[Len(@)] EXCEPT ![move.level] = move.quantity]),
              ![s].touched = @ \cup {move.level}]
    /\ UNCHANGED <<futures, subscribed, requested, wire, phase, connectionVars, records,
                   journal, shown, faults>>

\* The ids a delta may begin with: a spot delta begins behind the one before it,
\* a futures delta may begin at its first change.
Firsts(s) ==
    {n \in venue[s].published + 1 .. Now(s) :
        IF futures
        THEN \A k \in venue[s].published .. n - 1 :
                venue[s].history[k] = venue[s].history[venue[s].published]
        ELSE n = venue[s].published + 1}

Publish(s) ==
    /\ venue[s].touched # {}
    /\ \E first \in Firsts(s) :
          LET delta == [first_update_id |-> first, last_update_id |-> Now(s),
                        previous_update_id |-> venue[s].published,
                        changed |-> venue[s].touched,
                        quantity |-> [l \in Levels |->
                            IF l \in venue[s].touched THEN venue[s].history[Now(s)][l] ELSE 0],
                        repeated |-> {}]
          IN  IF s \in subscribed
              THEN /\ Len(wire) < MaxWire
                   /\ wire' = Append(wire, [symbol |-> s, delta |-> delta])
              ELSE wire' = wire
    /\ venue' = [venue EXCEPT ![s].published = Now(s), ![s].touched = {}]
    /\ UNCHANGED <<futures, subscribed, requested, phase, connectionVars, records, journal,
                   shown, faults>>

HandleSubscribe(s) ==
    /\ s \in requested
    /\ subscribed' = subscribed \cup {s}
    /\ requested' = requested \ {s}
    /\ UNCHANGED <<futures, venue, wire, phase, connectionVars, records, journal, shown, faults>>

AnswerSnapshot(s) ==
    /\ pending = s
    /\ answer = <<>>
    /\ ~draining
    /\ \E n \in 1..Now(s), view \in Views :
          answer' = <<[last_update_id |-> n, bridged |-> FALSE, known |-> view,
                       quantity |-> [l \in Levels |->
                           IF l \in view THEN venue[s].history[n][l] ELSE 0]]>>
    /\ UNCHANGED <<exchangeVars, wire, phase, held, books, remaining, pending, buffers,
                   draining, records, journal, shown, faults>>

DisturbStream ==
    /\ wire # <<>>
    /\ Fault
    /\ \/ wire' = Tail(wire)
       \/ wire' = <<Head(wire)>> \o wire
       \/ \E sides \in (SUBSET {"bid", "ask"}) \ {{}} :
             wire' = [wire EXCEPT ![1].delta.repeated = sides]
    /\ UNCHANGED <<exchangeVars, phase, connectionVars, records, journal, shown>>

-----------------------------------------------------------------------------
(* The collector's connection: one action per part of a pass of its loop.   *)

\* The body of _connection's loop is left with an exception.
Raise == phase' = "unwinding" /\ UNCHANGED <<journal, shown>>

\* resync: the book is dropped, the symbol waits for another snapshot, and the
\* gap is written with everything recorded before it. The write may fail.
Resync(s) ==
    LET all == Append(records, Gap(s))
    IN  /\ held' = held \ {s}
        /\ books' = [books EXCEPT ![s] = NewBook(futures)]
        /\ remaining' = Append(remaining, s)
        /\ \/ Write(all) /\ records' = <<>> /\ UNCHANGED <<phase, faults>>
           \/ Fault /\ Raise /\ records' = all

PickPending ==
    /\ phase = "collecting"
    /\ pending = NoSymbol
    /\ remaining # <<>>
    /\ pending' = Head(remaining)
    /\ remaining' = Tail(remaining)
    /\ requested' = requested \cup {Head(remaining)}
    /\ held' = held \cup {Head(remaining)}
    /\ books' = [books EXCEPT ![Head(remaining)] = NewBook(futures)]
    /\ answer' = <<>>
    /\ UNCHANGED <<futures, venue, subscribed, wire, phase, buffers, draining, records,
                   journal, shown, faults>>

\* What follows the last buffered delta, or the first that fails.
BootstrapDone ==
    /\ pending' = NoSymbol
    /\ buffers' = <<>>
    /\ draining' = FALSE

\* The snapshot is there: it makes the book, and the buffered deltas follow.
TakeSnapshot ==
    LET s == pending
        book == ApplySnapshot(books[s], answer[1])
    IN  /\ phase = "collecting"
        /\ answer # <<>>
        /\ answer' = <<>>
        /\ IF book.state = "LIVE"
           THEN /\ books' = [books EXCEPT ![s] = book]
                /\ records' = Append(records, Row(s, "snapshot", answer[1]))
                /\ IF buffers = <<>> THEN BootstrapDone
                   ELSE draining' = TRUE /\ UNCHANGED <<pending, buffers>>
                /\ UNCHANGED <<held, remaining, phase, journal, shown, faults>>
           ELSE Resync(s) /\ BootstrapDone
        /\ UNCHANGED <<exchangeVars, wire>>

\* apply_depth_event: an old delta is skipped, one that applies is recorded
\* (more are the records written with it), anything else raises ValueError.
ApplyEvent(s, delta, more) ==
    LET outcome == DeltaOutcome(books[s], delta)
        book == ApplyDelta(books[s], delta)
    IN  \/ /\ outcome = "OLD"
           /\ UNCHANGED <<held, books, remaining, records, journal, shown, phase, faults>>
        \/ /\ outcome = "APPLIED" /\ book.state = "LIVE"
           /\ books' = [books EXCEPT ![s] = book]
           /\ records' = records \o <<Row(s, "delta", delta)>> \o more
           /\ UNCHANGED <<held, remaining, journal, shown, phase, faults>>
        \/ /\ outcome # "OLD" /\ ~(outcome = "APPLIED" /\ book.state = "LIVE")
           /\ Resync(s)

\* One buffered delta; the last one, or one that fails, ends the bootstrap.
DrainBuffer ==
    LET s == pending
    IN  /\ phase = "collecting"
        /\ draining
        /\ ApplyEvent(s, Head(buffers), <<>>)
        /\ IF Len(buffers) = 1 \/ s \notin held' THEN BootstrapDone
           ELSE buffers' = Tail(buffers) /\ UNCHANGED <<pending, draining>>
        /\ UNCHANGED <<exchangeVars, wire, answer>>

\* The next message, for the symbol whose snapshot is on its way.
BufferMessage(delta) ==
    /\ IF Len(buffers) < BufferLimit
       THEN buffers' = Append(buffers, delta) /\ UNCHANGED <<phase, journal, shown>>
       ELSE Raise /\ UNCHANGED buffers
    /\ UNCHANGED <<held, books, remaining, records, faults>>

\* Mutant: a checkpoint is like a snapshot that no delta has bridged.
CheckpointUnbridged(book) ==
    [last_update_id |-> book.last_update_id, bridged |-> FALSE,
     quantity |-> book.quantity, known |-> book.known]

\* Mutant: the checkpoint is dated one update back.
CheckpointBehind(book) ==
    [last_update_id |-> book.last_update_id - 1, bridged |-> TRUE,
     quantity |-> book.quantity, known |-> book.known]

\* The checkpoint that follows an applied delta when one is due.
Checkpoint(book) ==
    [last_update_id |-> book.last_update_id, bridged |-> TRUE,
     quantity |-> book.quantity, known |-> book.known]

Checkpoints(s, delta) ==
    {<<>>, <<Row(s, "checkpoint", Checkpoint(ApplyDelta(books[s], delta)))>>}

Receive ==
    LET s == Head(wire).symbol
    IN  /\ phase = "collecting"
        /\ ~draining
        /\ wire # <<>>
        /\ pending = NoSymbol => remaining = <<>>
        /\ wire' = Tail(wire)
        /\ \/ /\ s \notin held
              /\ UNCHANGED <<phase, held, books, remaining, buffers, records, journal,
                             shown, faults>>
           \/ s \in held /\ s = pending /\ BufferMessage(Head(wire).delta)
           \/ /\ s \in held /\ s # pending
              /\ \E more \in Checkpoints(s, Head(wire).delta) :
                    ApplyEvent(s, Head(wire).delta, more)
              /\ UNCHANGED buffers
        /\ UNCHANGED <<exchangeVars, pending, answer, draining>>

\* The batch is due.
Flush ==
    /\ phase = "collecting"
    /\ ~draining
    /\ records # <<>>
    /\ \/ Write(records) /\ records' = <<>> /\ UNCHANGED <<phase, faults>>
       \/ Fault /\ Raise /\ UNCHANGED records
    /\ UNCHANGED <<exchangeVars, wire, connectionVars>>

-----------------------------------------------------------------------------
(* The supervisor.                                                          *)

NoConnection ==
    /\ subscribed' = {}
    /\ requested' = {}
    /\ wire' = <<>>
    /\ held' = {}
    /\ books' = [s \in Symbols |-> NewBook(futures)]
    /\ remaining' = <<>>
    /\ pending' = NoSymbol
    /\ answer' = <<>>
    /\ buffers' = <<>>
    /\ draining' = FALSE

Start ==
    /\ phase = "stopped"
    /\ phase' = "starting"
    /\ UNCHANGED <<exchangeVars, wire, connectionVars, records, journal, shown, faults>>

\* The START_OR_RECONNECT gaps, then a new connection.
Connect ==
    /\ phase = "starting"
    /\ \/ /\ Write(Gaps)
          /\ phase' = "collecting"
          /\ remaining' = Group
          /\ UNCHANGED faults
       \/ /\ Fault
          /\ phase' = "failed"
          /\ UNCHANGED <<remaining, journal, shown>>
    /\ UNCHANGED <<exchangeVars, wire, held, books, pending, answer, buffers, draining, records>>

\* The connection breaks, a snapshot request fails or a message is stale
\* ("unwinding"), or the 23 hours of a session are over ("ending").
EndSession ==
    /\ phase = "collecting"
    /\ ~draining
    /\ \/ Fault /\ phase' = "unwinding"
       \/ phase' = "ending" /\ UNCHANGED faults
    /\ UNCHANGED <<exchangeVars, wire, connectionVars, records, journal, shown>>

\* The finally clause: the last batch is written.
Unwind ==
    /\ phase \in {"unwinding", "ending"}
    /\ \/ /\ Write(records)
          /\ phase' = IF phase = "ending" THEN "closed" ELSE "failed"
          /\ UNCHANGED faults
       \/ /\ Fault
          /\ phase' = "failed"
          /\ UNCHANGED <<journal, shown>>
    /\ records' = <<>>
    /\ NoConnection
    /\ UNCHANGED <<futures, venue>>

\* The gaps that end the session; a thread that cannot write them is gone.
WriteGaps ==
    /\ phase \in {"failed", "closed"}
    /\ \/ Write(Gaps) /\ phase' = "starting" /\ UNCHANGED faults
       \/ Fault /\ phase' = "blocked" /\ UNCHANGED <<journal, shown>>
    /\ UNCHANGED <<exchangeVars, wire, connectionVars, records>>

\* close, once the thread has ended.
Close ==
    /\ phase \in {"starting", "blocked"}
    /\ phase' = "stopped"
    /\ \/ Write(Gaps) /\ UNCHANGED faults
       \/ Fault /\ UNCHANGED <<journal, shown>>
    /\ UNCHANGED <<exchangeVars, wire, connectionVars, records>>

Die ==
    /\ phase # "stopped"
    /\ Fault
    /\ phase' = "stopped"
    /\ records' = <<>>
    /\ NoConnection
    /\ UNCHANGED <<futures, venue, journal, shown>>

-----------------------------------------------------------------------------
Init ==
    /\ futures \in BOOLEAN
    /\ venue = [s \in Symbols |-> [history |-> <<Opening>>, published |-> 1, touched |-> {}]]
    /\ subscribed = {}
    /\ requested = {}
    /\ wire = <<>>
    /\ phase = "stopped"
    /\ held = {}
    /\ books = [s \in Symbols |-> NewBook(futures)]
    /\ remaining = <<>>
    /\ pending = NoSymbol
    /\ answer = <<>>
    /\ buffers = <<>>
    /\ draining = FALSE
    /\ records = <<>>
    /\ journal = [s \in Symbols |-> [status |-> "NONE", rows |-> <<>>]]
    /\ shown = [s \in Symbols |-> 0]
    /\ faults = 0

Exchange ==
    \E s \in Symbols :
       \/ Update(s)
       \/ Publish(s)
       \/ HandleSubscribe(s)
       \/ AnswerSnapshot(s)

Collector ==
    \/ PickPending \/ TakeSnapshot \/ DrainBuffer \/ Receive \/ Flush
    \/ Connect \/ EndSession \/ Unwind \/ WriteGaps

Next == Exchange \/ DisturbStream \/ Collector \/ Start \/ Close \/ Die

Spec == Init /\ [][Next]_vars

-----------------------------------------------------------------------------
(* Properties.                                                              *)

Phases == {"stopped", "starting", "collecting", "unwinding", "ending", "failed", "closed",
           "blocked"}

CollectorTypeOK ==
    /\ futures \in BOOLEAN
    /\ venue \in [Symbols -> [history : Seq(Quantities), published : Nat,
                              touched : SUBSET Levels]]
    /\ subscribed \subseteq Symbols
    /\ requested \subseteq Symbols
    /\ wire \in Seq([symbol : Symbols, delta : Deltas])
    /\ phase \in Phases
    /\ held \subseteq Symbols
    /\ books \in [Symbols -> Books]
    /\ remaining \in Seq(Symbols)
    /\ pending \in Symbols \cup {NoSymbol}
    /\ answer \in Seq(Snapshots)
    /\ buffers \in Seq(Deltas)
    /\ draining \in BOOLEAN
    /\ faults \in Nat

\* The book shows the exchange's book after its last update, as far as a
\* snapshot or a delta has shown it, and invents no other level.
Shows(book, history) ==
    /\ book.last_update_id \in 1..Len(history)
    /\ book.quantity = [l \in Levels |->
          IF l \in book.known THEN history[book.last_update_id][l] ELSE 0]

\* "Apply absolute-quantity depth updates and fail closed on sequence gaps":
\* whatever the stream loses, repeats or garbles and however late a snapshot
\* answers, a live book of the collector is the exchange's book.
BooksTrue ==
    \A s \in held : books[s].state = "LIVE" => Shows(books[s], venue[s].history)

\* "Never ... return a stale, unbridged, or gapped book": what the reader
\* rebuilds from the journal is a book the exchange had, whatever batches were
\* written or lost before.
LocalDepthTrue ==
    \A s \in Symbols :
       LET read == ReadLocalDepth(journal[s]) IN read.ok => Shows(read.book, venue[s].history)

\* "read-only deterministic consumers": a journal whose head is live can be
\* replayed to the end, the reader accepts every row the collector accepted.
LiveJournalReplays ==
    \A s \in Symbols : journal[s].status = "LIVE" => ReadLocalDepth(journal[s]).ok

\* A reader is never given an older book than an earlier reader was, although
\* snapshots may be older than the stream and books are built anew.
ReaderNeverGoesBack ==
    \A s \in Symbols :
       LET read == ReadLocalDepth(journal[s])
       IN  read.ok => read.book.last_update_id = shown[s]

-----------------------------------------------------------------------------
(* What makes BooksTrue inductive.                                          *)

\* A level the exchange has not touched since its last delta is as it was then.
VenueOK(v) ==
    /\ v.published \in 1..Len(v.history)
    /\ \A l \in Levels \ v.touched : \A k \in v.published..Len(v.history) :
          v.history[k][l] = v.history[v.published][l]

\* A delta lists what its levels became, and leaves out no level that changed
\* since the delta before it.
DeltaTrue(delta, history) ==
    /\ delta.previous_update_id >= 1
    /\ delta.previous_update_id < delta.first_update_id
    /\ delta.first_update_id <= delta.last_update_id
    /\ delta.last_update_id <= Len(history)
    /\ \A l \in delta.changed : delta.quantity[l] = history[delta.last_update_id][l]
    /\ \A l \in Levels \ delta.changed :
          \A k \in delta.previous_update_id..delta.last_update_id :
             history[k][l] = history[delta.previous_update_id][l]

WireTrue ==
    \A i \in 1..Len(wire) : DeltaTrue(wire[i].delta, venue[wire[i].symbol].history)

BuffersTrue ==
    buffers # <<>> =>
       /\ pending \in Symbols
       /\ \A i \in 1..Len(buffers) : DeltaTrue(buffers[i], venue[pending].history)

AnswerTrue ==
    answer # <<>> => pending \in Symbols /\ Shows(answer[1], venue[pending].history)

DrainingTrue == draining => buffers # <<>> /\ answer = <<>>

DepthInv ==
    /\ CollectorTypeOK
    /\ \A s \in Symbols : VenueOK(venue[s])
    /\ WireTrue
    /\ BuffersTrue
    /\ AnswerTrue
    /\ DrainingTrue
    /\ BooksTrue
=============================================================================
