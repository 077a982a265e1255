--------------------------- MODULE MarketHistory ---------------------------
(***************************************************************************)
(* The candles of one symbol and timeframe under the market gateway        *)
(* (src/ai4binance/cli/market_gateway.py): a cycle of REST and archive     *)
(* collection (ContinuousMarketHistory._candles,                           *)
(* data/market_history_continuous.py), then the live stream                *)
(* (data/market_data_gateway.py), then a cycle again.                      *)
(*                                                                         *)
(* The exchange has closed the candles before closed and lists the symbol  *)
(* from listed on. A collection call goes from one durable write to the    *)
(* next; the process may die between any two. Calls on one dataset take    *)
(* turns under its lock, and one process writes (SingleInstanceLease).     *)
(***************************************************************************)
EXTENDS CandleArchive

CONSTANTS
    Opening,        \* candles closed when the model begins
    LastCandle,     \* bound: candles that ever close
    Listings,       \* where the symbol's first candle may be
    Month,          \* candles of a month
    Page,           \* candles of a REST page (499)
    PagesPerStream, \* pages a call reads (pages_per_stream)
    ArchivesPerStream,  \* monthly archives a call tries (archives_per_stream)
    RequiredCandles,    \* required_candles_by_timeframe
    MaxCrashes      \* bound: crashes

\* __post_init__ refuses limits below one, and times do not go below the epoch.
ASSUME HistoryAssumption ==
    /\ {Month, Page, PagesPerStream, ArchivesPerStream} \subseteq Nat \ {0}
    /\ Opening \in Nat \ {0} /\ LastCandle \in Nat /\ Opening <= LastCandle
    /\ Listings \subseteq Nat /\ RequiredCandles \in Nat /\ MaxCrashes \in Nat

VARIABLES
    closed,         \* exchange: candles before this one are closed
    listed,         \* exchange: the first candle of the symbol
    progress,       \* collection-progress.json: next_at and first_available_at
    gateway,        \* "down", "cycle" (bootstrap or recovery) or "live"
    heard,          \* the next candle the stream connection will carry
    task,           \* the call or append under way
    crashes

archiveVars == <<parquet, manifest>>
historyVars == <<parquet, manifest, closed, listed, progress, gateway, heard,
                 task, crashes>>

NoProgress == [absent |-> TRUE]
NoCandle == -1
NoTask == [pc |-> "none", end |-> 0, cursor |-> 0, first |-> NoCandle, stop |-> 0,
           left |-> 0, stored |-> {}, fetched |-> {}, next |-> NoManifest,
           tail |-> FALSE]

Here(pc) == task.pc = pc
Go(pc) == task' = [task EXCEPT !.pc = pc]

----------------------------------------------------------------------------
(* The exchange.                                                            *)

\* GET klines: at most limit candles from the start time on, those before the
\* end time; the candle that is still open is one of them. An archive, or the
\* pages of the tail, may end before the end they were asked for, and a page may
\* begin late or be empty: the actions that read them say what they go on with.
\* A file or a page with a hole inside is refused as a whole.
Klines(from, to, limit) ==
    {t \in Max({from, listed}) .. to - 1 : t < Max({from, listed}) + limit}

MonthEnd(t) == (t \div Month + 1) * Month

CloseCandle ==
    /\ closed < LastCandle
    /\ closed' = closed + 1
    /\ UNCHANGED <<parquet, manifest, listed, progress, gateway, heard, task, crashes>>

----------------------------------------------------------------------------
(* Durable writes.                                                          *)

\* The archive replaces the Parquet file; the manifest comes next. A merge that
\* adds nothing writes nothing.
Put(candles, written, pc, rest) ==
    IF candles = parquet
    THEN task' = [rest EXCEPT !.pc = pc] /\ UNCHANGED parquet
    ELSE parquet' = candles /\ task' = [rest EXCEPT !.pc = pc, !.next = written]

\* _write_manifest: the second replace of the write.
WriteManifest ==
    /\ task.next # NoManifest
    /\ manifest' = task.next
    /\ task' = IF Here("live") THEN NoTask ELSE [task EXCEPT !.next = NoManifest]
    /\ UNCHANGED <<parquet, closed, listed, progress, gateway, heard, crashes>>

\* A step of the running call, once its last write is complete.
Step(pc) == Here(pc) /\ task.next = NoManifest
Elsewhere == UNCHANGED <<closed, listed, gateway, heard, crashes>>

\* sync_cycle and run_gateway: what the result of a stream makes of the cycle.
\* The other streams' results are the environment's. A tail refresh is only
\* counted; a fatal blocker ends the process and a pending backfill repeats the
\* cycle. A stream that is opened then may still carry the newest closed candle.
AfterCycle(status, others) ==
    LET results == {status, others} IN
    CASE results \cap {"BLOCKED", "UNAVAILABLE"} # {} -> "down"
      [] "BACKFILLING" \in results -> "cycle"
      [] OTHER -> "live"

Return(status) ==
    /\ task' = NoTask
    /\ \E others \in {"CURRENT", "BACKFILLING", "UNAVAILABLE"} :
          gateway' = IF task.tail THEN "cycle" ELSE AfterCycle(status, others)
    /\ heard' \in {closed - 1, closed}
    /\ UNCHANGED <<closed, listed, crashes>>

----------------------------------------------------------------------------
(* A collection call: _candles_unlocked.                                    *)

\* Mutant: the end is rounded up, and the candle that is still open counts.
ClosedEndRoundedUp(lag) == closed + 1 - lag

\* The closed candles by the local clock, which may be an interval behind.
ClosedEnd(lag) == closed - lag

\* _progress: a saved cursor that is one interval ahead is taken back to end.
Start(end) == IF progress = NoProgress THEN 0 ELSE Min({progress.next, end})

\* The call begins: it makes the progress file, or reads and mends it.
Collect(tail, lag) ==
    LET end == ClosedEnd(lag)
        first == IF progress = NoProgress THEN NoCandle ELSE progress.first IN
    /\ gateway = "cycle"
    /\ Here("none")
    /\ progress' = [next |-> Start(end), first |-> first]
    /\ task' = [NoTask EXCEPT !.pc = "open", !.tail = tail, !.end = end,
                              !.cursor = Start(end), !.first = first]
    /\ UNCHANGED archiveVars /\ Elsewhere

\* Mutant: a dataset that does not verify is begun anew.
UnseededOrTorn == ~Verified

\* There is no dataset and there never was one.
Unseeded == parquet = {} /\ task.first = NoCandle

\* The latest page of candles comes before any history.
Seed ==
    /\ Step("open") /\ Unseeded
    /\ LET got == Klines(Max({task.cursor, task.end - Page}), task.end,
                         PagesPerStream * Page) IN
       IF got = {}
       THEN /\ UNCHANGED <<archiveVars, progress>>
            /\ IF task.tail THEN Return("UNAVAILABLE")
               ELSE Go("missing") /\ Elsewhere
       ELSE /\ Put(got, ManifestOf(got, FALSE), "seeded", [task EXCEPT !.first = Min(got)])
            /\ UNCHANGED <<manifest, progress>> /\ Elsewhere

\* The progress file records the first candle of the seed.
SaveSeed ==
    /\ Step("seeded")
    /\ progress' = [progress EXCEPT !.first = task.first]
    /\ Go("open")
    /\ UNCHANGED archiveVars /\ Elsewhere

\* A dataset that is missing or does not match its manifest blocks the stream.
Open ==
    /\ Step("open") /\ ~Unseeded
    /\ UNCHANGED archiveVars
    /\ IF ~Verified
       THEN Return("BLOCKED") /\ UNCHANGED progress
       ELSE LET first == IF task.first = NoCandle THEN manifest.first
                         ELSE Min({task.first, manifest.first}) IN
            /\ progress' = [progress EXCEPT !.first = first]
            /\ task' = [task EXCEPT !.pc = "repair", !.first = first]
            /\ Elsewhere

\* Mutant: one candle more is cut.
RetainedShort(start) == {t \in parquet : t < start - 1}

\* truncate_from: the candles before start; a repair never empties the dataset.
Retained(start) == {t \in parquet : t < start}

TruncateFrom(start, pc, rest) ==
    /\ UNCHANGED <<manifest, progress>>
    /\ IF Retained(start) = {}
       THEN Return("BLOCKED") /\ UNCHANGED parquet
       ELSE /\ Put(Retained(start), ManifestOf(Retained(start), FALSE), pc, rest)
            /\ Elsewhere

\* A last candle stored before its end is removed, to be fetched again.
RepairUnclosed ==
    /\ Step("repair")
    /\ IF manifest.early
       THEN TruncateFrom(manifest.last, "repaired",
                         [task EXCEPT !.cursor = Min({@, manifest.last})])
       ELSE Go("boundary") /\ UNCHANGED <<archiveVars, progress>> /\ Elsewhere

SaveRepair ==
    /\ Step("repaired")
    /\ progress' = [progress EXCEPT !.next = task.cursor]
    /\ Go("boundary")
    /\ UNCHANGED archiveVars /\ Elsewhere

\* Candles at or after end are removed.
RepairBoundary ==
    /\ Step("boundary")
    /\ IF manifest.last >= task.end
       THEN TruncateFrom(task.end, "tail", task)
       ELSE Go("tail") /\ UNCHANGED <<archiveVars, progress>> /\ Elsewhere

\* Mutant: a hole in the history keeps the tail back.
TailMissingWhole == manifest.last + 1 < task.end /\ manifest.gaps = {}

TailMissing == manifest.last + 1 < task.end

\* _refresh_current_candle_tail: the candles after the last one are appended
\* before any history is looked for. A page that is empty or begins late ends
\* them at to.
AppendTail(to) ==
    /\ Step("tail")
    /\ UNCHANGED <<manifest, progress>>
    /\ LET got == Klines(manifest.last + 1, to, PagesPerStream * Page) IN
       CASE ~TailMissing \/ got = {} -> Go("check") /\ UNCHANGED parquet /\ Elsewhere
         [] TailMissing /\ got # {} /\ ~TableVerified ->
              Return("BLOCKED") /\ UNCHANGED parquet
         [] OTHER -> /\ Put(parquet \cup got, AppendedManifest(got), "check", task)
                     /\ Elsewhere

RefreshTail == AppendTail(task.end)
RefreshPart == Step("tail") /\ \E to \in manifest.last + 1 .. task.end - 1 : AppendTail(to)

\* missing_window: the first candle from start on that is not among the stored
\* ones, and where the stored ones, or the closed ones, begin again.
MissingFrom(start, stored) == Min({t \in start .. LastCandle : t \notin stored})
MissingTo(start, stored) == Min({task.end} \cup {t \in stored : t > start})

\* Progress never exceeds the dataset; history is looked for from the first gap
\* on. stored is what the call takes the dataset to hold from here on.
FindMissing ==
    /\ Step("check") \/ Step("missing")
    /\ UNCHANGED <<archiveVars, progress>>
    /\ LET first == IF Here("missing") \/ manifest.gaps = {} THEN task.cursor
                    ELSE Min({task.cursor} \cup {g[1] + 1 : g \in manifest.gaps})
           start == MissingFrom(first, parquet) IN
       CASE Here("check") /\ task.cursor > manifest.last + 1 -> Return("BLOCKED")
         [] Here("check") /\ task.cursor <= manifest.last + 1 /\ task.tail ->
              Return("TAIL")
         [] OTHER -> /\ task' = [task EXCEPT !.pc = "vision", !.cursor = start,
                                    !.stop = MissingTo(start, parquet),
                                    !.left = ArchivesPerStream, !.stored = parquet]
                     /\ Elsewhere

----------------------------------------------------------------------------
(* Monthly archives: _vision_history.                                       *)

\* Mutant: the archive of the running month is read too.
MonthMissing == task.cursor < task.stop /\ task.left > 0

WholeMonthMissing == /\ task.cursor < task.stop
                     /\ task.left > 0
                     /\ MonthEnd(task.cursor) <= task.stop

\* The archive of the month is there, with the candles before to: they are kept
\* for one write. One that ends before its month ends the loop (KLINE_GAP).
ReadArchive ==
    /\ Step("vision") /\ WholeMonthMissing
    /\ \E to \in task.cursor + 1 .. MonthEnd(task.cursor) :
       LET got == Klines(task.cursor, to, Month)
           earlier == Min(got) > task.cursor /\ task.first # NoCandle
           first == IF task.first = NoCandle \/ earlier THEN Min(got) ELSE task.first IN
       /\ got # {}
       /\ progress' = IF earlier THEN [progress EXCEPT !.first = first] ELSE progress
       /\ task' = [task EXCEPT !.fetched = @ \cup got, !.first = first,
                      !.cursor = to, !.left = @ - 1,
                      !.pc = IF to < MonthEnd(task.cursor) THEN "short" ELSE "vision"]
    /\ UNCHANGED archiveVars /\ Elsewhere

\* There is no archive: what is pending is written and saved, and then a month
\* before the first known candle is passed over. Any other month is left to REST,
\* and so is one whose archive begins late (_validate_vision_chunk_start).
MissArchive ==
    /\ Step("vision") /\ WholeMonthMissing
    /\ Put(parquet \cup task.fetched, ManifestOf(parquet \cup task.fetched, FALSE),
           "missed", [task EXCEPT !.left = @ - 1])
    /\ UNCHANGED <<manifest, progress>> /\ Elsewhere

SavePending ==
    /\ Step("missed") /\ task.fetched # {}
    /\ progress' = [next |-> task.cursor, first |-> task.first]
    /\ task' = [task EXCEPT !.fetched = {}]
    /\ UNCHANGED archiveVars /\ Elsewhere

PassMonth ==
    /\ Step("missed") /\ task.fetched = {}
    /\ LET passed == task.first = NoCandle \/ MonthEnd(task.cursor) <= task.first
           cursor == IF passed THEN MonthEnd(task.cursor) ELSE task.cursor IN
       /\ progress' = IF passed THEN [next |-> cursor, first |-> task.first] ELSE progress
       /\ task' = [task EXCEPT !.cursor = cursor, !.pc = IF passed THEN "vision" ELSE "rest",
                      !.left = IF passed THEN @ ELSE PagesPerStream]
    /\ UNCHANGED archiveVars /\ Elsewhere

\* An archive with a hole inside is dropped, and it ends the loop.
DropArchive ==
    /\ Step("vision") /\ WholeMonthMissing
    /\ task' = [task EXCEPT !.pc = "broken", !.left = @ - 1]
    /\ UNCHANGED <<archiveVars, progress>> /\ Elsewhere

Collected == Step("short") \/ Step("broken") \/ (Step("vision") /\ ~WholeMonthMissing)
Ended == IF Here("short") THEN "gap" ELSE "archived"

\* Mutant: the archives read are left to the next write.
ArchivesUnwritten ==
    /\ Collected
    /\ Go(Ended)
    /\ UNCHANGED <<archiveVars, progress>> /\ Elsewhere

\* The loop is over: the archives read are written in one update.
WriteArchives ==
    /\ Collected
    /\ Put(parquet \cup task.fetched, ManifestOf(parquet \cup task.fetched, FALSE), Ended, task)
    /\ UNCHANGED <<manifest, progress>> /\ Elsewhere

\* A call that used up its archives yields; any other goes on with REST, and so
\* does one that met an archive that was too short.
EndArchives ==
    /\ Step("archived") \/ Step("gap")
    /\ progress' = IF task.fetched = {} THEN progress
                   ELSE [next |-> task.cursor, first |-> task.first]
    /\ UNCHANGED archiveVars
    /\ IF Here("archived") /\ task.cursor < task.stop /\ task.left = 0
       THEN Return("BACKFILLING")
       ELSE /\ task' = [task EXCEPT !.pc = "rest", !.left = PagesPerStream,
                                    !.fetched = {}]
            /\ Elsewhere

----------------------------------------------------------------------------
(* REST pages.                                                              *)

\* A page of the missing window. An empty page, or one that begins late in a
\* dataset whose first candle is known, ends the walk as unavailable; a page may
\* be of either kind although the exchange closed the candle.
ReadPage ==
    /\ Step("rest") /\ task.left > 0
    /\ \E answered \in BOOLEAN :
       LET cursor == MissingFrom(task.cursor, task.stored)
           got == Klines(cursor, MissingTo(cursor, task.stored), Page)
           refused == \/ got = {} \/ ~answered
                      \/ Min(got) > cursor /\ task.first # NoCandle IN
       /\ cursor < task.end
       /\ task' = IF refused
                  THEN [task EXCEPT !.cursor = cursor, !.pc = "flush", !.left = -1]
                  ELSE [task EXCEPT !.cursor = Max(got) + 1, !.left = @ - 1,
                                    !.fetched = @ \cup got]
    /\ UNCHANGED <<archiveVars, progress>> /\ Elsewhere

EndPages ==
    /\ Step("rest")
    /\ task.left = 0 \/ MissingFrom(task.cursor, task.stored) >= task.end
    /\ task' = [task EXCEPT !.pc = "flush", !.left = 0,
                   !.cursor = IF task.left = 0 THEN @ ELSE MissingFrom(@, task.stored)]
    /\ UNCHANGED <<archiveVars, progress>> /\ Elsewhere

\* flush_rest_batch: one update for all pages of the call.
FlushPages ==
    /\ Step("flush")
    /\ Put(parquet \cup task.fetched, ManifestOf(parquet \cup task.fetched, FALSE),
           IF task.fetched = {} THEN "decide" ELSE "flushed", task)
    /\ UNCHANGED <<manifest, progress>> /\ Elsewhere

SavePages ==
    /\ Step("flushed")
    /\ LET cursor == IF manifest.gaps = {} THEN Max({task.cursor, manifest.last + 1})
                     ELSE task.cursor
           first == IF task.first = NoCandle THEN Min(task.fetched) ELSE task.first IN
       /\ progress' = [next |-> cursor, first |-> first]
       /\ task' = [task EXCEPT !.pc = "decide", !.cursor = cursor, !.first = first]
    /\ UNCHANGED archiveVars /\ Elsewhere

\* The stream is current when the walk has reached the end and the dataset on
\* disk, read again, is whole, long enough and up to date.
Status(cursor) ==
    CASE cursor < task.end -> "BACKFILLING"
      [] cursor >= task.end /\ ~Verified -> "BLOCKED"
      [] OTHER -> IF \/ manifest.gaps # {}
                     \/ Cardinality(parquet) < RequiredCandles
                     \/ manifest.last + 1 < task.end
                  THEN "UNAVAILABLE" ELSE "CURRENT"

Decide ==
    /\ Step("decide")
    /\ UNCHANGED archiveVars
    /\ IF task.left < 0 THEN Return("UNAVAILABLE") /\ UNCHANGED progress
       ELSE LET cursor == MissingFrom(task.cursor, task.stored) IN
            /\ progress' = [progress EXCEPT !.next = cursor]
            /\ Return(Status(cursor))

\* _collect_stream: a request that fails blocks the stream in this cycle, and
\* what the call had read and not written is lost.
FailRequest ==
    /\ task.next = NoManifest
    /\ \/ Here("open") /\ Unseeded
       \/ Here("tail") /\ TailMissing
       \/ Here("vision") /\ WholeMonthMissing
       \/ Here("rest") /\ task.left > 0
            /\ MissingFrom(task.cursor, task.stored) < task.end
    /\ Return("BLOCKED")
    /\ UNCHANGED <<archiveVars, progress>>

----------------------------------------------------------------------------
(* The live stream.                                                         *)

\* The write that adds one candle of the stream.
StoreLive(early) ==
    Put(parquet \cup {heard}, ManifestOf(parquet \cup {heard}, early),
        IF heard \in parquet THEN "none" ELSE "live", NoTask)

\* Mutant: the next candle is not asked to follow the last one.
AppendUnchecked(early) ==
    /\ gateway = "live" /\ Here("none")
    /\ listed <= heard /\ heard < closed
    /\ heard' = heard + 1
    /\ StoreLive(early)
    /\ UNCHANGED <<manifest, closed, listed, progress, gateway, crashes>>

\* DirectTimeframeWriter.append: a candle beyond the next one ends the
\* connection, and the next cycle fetches what is missing. The exchange may
\* stamp the message just before the candle's end.
AppendCandle(early) ==
    /\ gateway = "live" /\ Here("none")
    /\ listed <= heard /\ heard < closed
    /\ heard' = heard + 1
    /\ IF heard > manifest.last + 1
       THEN gateway' = "cycle" /\ UNCHANGED <<parquet, task>>
       ELSE StoreLive(early) /\ UNCHANGED gateway
    /\ UNCHANGED <<manifest, closed, listed, progress, crashes>>

\* _run_live_cycle: a lost connection is opened again; its candles are lost.
Reconnect ==
    /\ gateway = "live" /\ Here("none")
    /\ heard < closed
    /\ heard' \in heard + 1 .. closed
    /\ UNCHANGED <<parquet, manifest, closed, listed, progress, gateway, task, crashes>>

\* run_once ends: the planned rollover, or a gap of another stream.
EndLive ==
    /\ gateway = "live" /\ Here("none")
    /\ gateway' = "cycle"
    /\ UNCHANGED <<parquet, manifest, closed, listed, progress, heard, task, crashes>>

----------------------------------------------------------------------------
(* The process.                                                             *)

CrashGateway ==
    /\ gateway # "down"
    /\ crashes < MaxCrashes
    /\ crashes' = crashes + 1
    /\ gateway' = "down"
    /\ task' = NoTask
    /\ UNCHANGED <<parquet, manifest, closed, listed, progress, heard>>

StartGateway ==
    /\ gateway = "down"
    /\ gateway' = "cycle"
    /\ UNCHANGED <<parquet, manifest, closed, listed, progress, heard, task, crashes>>

----------------------------------------------------------------------------

HistoryInit ==
    /\ parquet = {} /\ manifest = NoManifest
    /\ closed = Opening /\ listed \in Listings
    /\ progress = NoProgress
    /\ gateway = "down" /\ heard = 0 /\ task = NoTask /\ crashes = 0

\* What the running call does next when its requests succeed.
Proceed ==
    \/ WriteManifest \/ Seed \/ SaveSeed \/ Open
    \/ RepairUnclosed \/ SaveRepair \/ RepairBoundary \/ RefreshTail \/ RefreshPart
    \/ FindMissing \/ ReadArchive \/ MissArchive \/ SavePending \/ PassMonth \/ DropArchive
    \/ WriteArchives \/ EndArchives \/ ReadPage \/ EndPages \/ FlushPages \/ SavePages \/ Decide

BeginCollect == \E tail \in BOOLEAN, lag \in {0, 1} : Collect(tail, lag)
Deliver == \E early \in BOOLEAN : AppendCandle(early)

HistoryNext ==
    \/ CloseCandle \/ BeginCollect \/ Proceed \/ FailRequest
    \/ Deliver \/ Reconnect \/ EndLive \/ CrashGateway \/ StartGateway

\* The process goes on and is started again when it ended; a connection reaches
\* its maximum age; requests that are tried again and again succeed some time.
HistoryFairness ==
    /\ WF_historyVars(BeginCollect)
    /\ WF_historyVars(EndLive)
    /\ WF_historyVars(StartGateway)
    /\ WF_historyVars(Proceed \/ FailRequest)
    /\ SF_historyVars(Seed)
    /\ SF_historyVars(RefreshTail)

HistorySpec == HistoryInit /\ [][HistoryNext]_historyVars /\ HistoryFairness

----------------------------------------------------------------------------
(* Properties.                                                              *)

Candles == 0 .. LastCandle - 1
Manifests ==
    [checksum : SUBSET Candles, first : Candles, last : Candles,
     gaps : SUBSET (Candles \X Candles), early : BOOLEAN]

\* Every variable holds a value of its kind; a call's end is no open candle's.
HistoryTypeOK ==
    /\ parquet \subseteq Candles
    /\ manifest \in Manifests \cup {NoManifest}
    /\ closed \in Opening .. LastCandle /\ listed \in Listings
    /\ progress \in [next : 0 .. LastCandle, first : Candles \cup {NoCandle}]
                      \cup {NoProgress}
    /\ gateway \in {"down", "cycle", "live"}
    /\ heard \in 0 .. LastCandle
    /\ task.cursor \in 0 .. LastCandle /\ task.end \in 0 .. closed
    /\ task.fetched \subseteq Candles
    /\ crashes \in 0 .. MaxCrashes

\* Only candles the exchange has closed are stored, whichever of the seed, the
\* tail, the archives, the pages and the stream brought them.
OnlyClosedStored == \A t \in parquet : listed <= t /\ t < closed

\* While the gateway is live its dataset is whole and verified: messages a lost
\* connection never delivered leave no hole, because the writer refuses the
\* candle behind the hole.
LiveDatasetWhole ==
    gateway = "live" /\ task = NoTask => Verified /\ Holes(parquet) = {}

\* The progress file is saved after the candles it speaks of: its cursor moves
\* only over candles that are in the dataset or that the symbol never had, or,
\* in the walk over the archives, over months before the first known candle
\* (_handle_missing_vision_archive). A crash at any point skips no interval.
ProgressCovered ==
    [][progress # NoProgress =>
         \A t \in progress.next .. progress'.next - 1 :
            \/ t < listed
            \/ t \in parquet
            \/ Here("missed") /\ t < task.first]_historyVars

\* A step removes at most the newest candle of the dataset: the repairs
\* (truncate_from) never cut into history.
CutsNewestOnly ==
    [][\A t \in parquet \ parquet' : t = Max(parquet)]_historyVars

\* The tail is up to the candle before the newest one, or the symbol has no
\* candle that old.
TailCurrent ==
    \/ closed - 1 <= listed
    \/ Verified /\ manifest.last + 1 >= closed - 1

\* A dataset whose two files do not match is never written again.
Torn == parquet # {} /\ ~Verified

\* Whatever is lost by connections, crashes, repairs and failing requests, the
\* dataset catches up with the exchange again and again, unless a crash fell
\* between the two replaces of a write. Holes in the history do not keep the
\* tail back (_candles_unlocked).
TailCatchesUp == []<>(TailCurrent \/ (Torn /\ task = NoTask))

\* A dataset that a crash left torn is never written again: it blocks its
\* stream in every later cycle (_candles_unlocked: "never silently reset
\* corrupt/missing storage and thereby skip an offline interval").
CorruptNeverReset ==
    [][Torn /\ task.next = NoManifest => UNCHANGED archiveVars]_historyVars

----------------------------------------------------------------------------
(* Why they hold: the inductive invariant.                                  *)

Mending == {"repair", "repaired", "boundary", "tail", "check"}
Walking == {"vision", "short", "broken", "missed", "archived", "gap", "rest", "flush",
            "flushed", "decide"}
Calling == Mending \cup Walking \cup {"open", "seeded", "missing"}

TaskType ==
    [pc : Calling \cup {"none", "live"}, end : Nat, cursor : Nat,
     first : Candles \cup {NoCandle}, stop : Nat, left : Int, stored : SUBSET Nat,
     fetched : SUBSET Nat, next : Manifests \cup {NoManifest}, tail : BOOLEAN]

\* A manifest tells the bounds and the holes of the file it was written for.
TrueOf(m) == m # NoManifest =>
    /\ m.checksum # {} /\ m.checksum \subseteq listed .. closed - 1
    /\ m.first = Min(m.checksum) /\ m.last = Max(m.checksum)
    /\ m.gaps = Holes(m.checksum)

\* The two files: when they do not match, the manifest is about to be written,
\* or no call gets beyond its first look at them.
FilesInv ==
    /\ parquet \subseteq listed .. closed - 1
    /\ TrueOf(manifest) /\ TrueOf(task.next)
    /\ task.next # NoManifest => task.next.checksum = parquet
    /\ task.next # NoManifest => task.pc \notin {"none", "open", "missing"}
    /\ parquet = {} => manifest = NoManifest
    /\ parquet = {} => task.pc \notin Mending \cup {"seeded", "live"}
    /\ task.pc = "missing" => parquet = {}
    /\ task.pc \in Mending \cup Walking \cup {"seeded"} /\ task.next = NoManifest
          => parquet = {} \/ Verified

\* The call: what it has read lies before its end, and what it has read and
\* what the dataset holds cover the way from the saved cursor to its own.
CallInv ==
    /\ task.pc \in Calling => gateway = "cycle" /\ progress # NoProgress
    /\ task.pc = "none" => task = NoTask
    /\ task.end <= closed /\ task.cursor <= task.end /\ task.stop <= task.end
    /\ task.pc \notin Walking => task.fetched = {} /\ task.stored = {}
    /\ task.pc \in {"open", "seeded", "repair", "repaired", "boundary"}
          => \A t \in parquet : t <= task.end
    /\ task.pc \in Walking \cup {"tail", "check"} => \A t \in parquet : t < task.end
    /\ task.pc \in Calling \ {"seeded"} => progress.first = task.first
    /\ task.pc \in Mending => task.first # NoCandle
    /\ task.pc \in Calling \ Walking => task.cursor <= progress.next
    /\ task.pc \in Calling \ (Walking \cup {"repaired"}) => task.cursor = progress.next

WalkInv ==
    /\ task.stored \subseteq parquet
    /\ task.fetched \subseteq listed .. task.cursor - 1
    /\ task.pc \in Walking =>
          \A t \in progress.next .. task.cursor - 1 :
             t < listed \/ t \in parquet \/ t \in task.fetched
    /\ task.pc \in {"missed", "archived", "gap", "flushed", "decide"}
          => task.fetched \subseteq parquet
    /\ task.pc = "flushed" => task.fetched # {}
    /\ task.pc = "missed" => MonthEnd(task.cursor) <= task.stop
    /\ task.pc \in Walking \cup {"missing"} /\ task.first = NoCandle =>
          task.fetched = {} /\ \A t \in task.cursor .. task.end - 1 : t < listed

\* The stream follows a dataset that is whole.
LiveInv ==
    gateway = "live" =>
        /\ parquet # {} /\ Holes(parquet) = {}
        /\ \A t \in parquet : t <= heard
        /\ task.next = NoManifest => task.pc = "none" /\ Verified

HistoryInv ==
    /\ HistoryTypeOK /\ task \in TaskType
    /\ FilesInv /\ CallInv /\ WalkInv /\ LiveInv
=============================================================================
