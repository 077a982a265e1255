-------------------------- MODULE MarketDepthProofs --------------------------
(* A live book of the depth collector is the exchange's book, for any number  *)
(* of symbols, levels, updates and faults.                                    *)
EXTENDS MarketDepth, SequenceTheorems, TLAPS

Histories == Seq(Quantities)

Extends(longer, history) ==
    /\ Len(history) <= Len(longer)
    /\ \A k \in 1..Len(history) : longer[k] = history[k]

\* What a book shows of a history it shows of every longer one (the exchange
\* never changes a book it had).
LEMMA ShowsLonger ==
    ASSUME NEW history \in Histories, NEW longer \in Histories, Extends(longer, history),
           NEW book, Shows(book, history)
    PROVE  Shows(book, longer)
PROOF
  <1>0. Len(history) \in Nat /\ Len(longer) \in Nat
    BY DEF Histories
  <1>1. book.last_update_id \in 1..Len(history) /\ book.last_update_id \in 1..Len(longer)
    BY <1>0 DEF Shows, Extends
  <1>2. longer[book.last_update_id] = history[book.last_update_id]
    BY Zenon, <1>1 DEF Extends
  <1> QED BY Zenon, <1>1, <1>2 DEF Shows

\* A delta stays true as its exchange goes on.
LEMMA DeltaLonger ==
    ASSUME NEW history \in Histories, NEW longer \in Histories, Extends(longer, history),
           NEW delta \in Deltas, DeltaTrue(delta, history)
    PROVE  DeltaTrue(delta, longer)
PROOF
  <1>0. /\ Len(history) \in Nat /\ Len(longer) \in Nat
        /\ delta.first_update_id \in Nat /\ delta.last_update_id \in Nat
        /\ delta.previous_update_id \in Nat
    BY DEF Histories, Deltas
  <1>1. \A k \in delta.previous_update_id..delta.last_update_id : longer[k] = history[k]
    BY <1>0 DEF DeltaTrue, Extends
  <1>2. /\ longer[delta.last_update_id] = history[delta.last_update_id]
        /\ longer[delta.previous_update_id] = history[delta.previous_update_id]
    BY <1>0, <1>1 DEF DeltaTrue
  <1> QED BY <1>0, <1>1, <1>2 DEF DeltaTrue, Extends

\* What apply_snapshot and apply_delta return is a book of the same market.
LEMMA SnapshotTyped ==
    ASSUME NEW book \in Books, NEW snapshot \in Snapshots
    PROVE  ApplySnapshot(book, snapshot) \in Books
BY Zenon DEF ApplySnapshot, Validated, Books, Snapshots, BookState

\* The same for a delta that is applied.
LEMMA DeltaTyped ==
    ASSUME NEW book \in Books, NEW delta \in Deltas, DeltaOutcome(book, delta) = "APPLIED"
    PROVE  ApplyDelta(book, delta) \in Books
PROOF
  <1>1. ApplySide(book, delta, {"bid", "ask"}) \in Books
    BY Zenon DEF ApplySide, Books, Deltas, Quantities
  <1> QED BY Zenon, <1>1 DEF ApplyDelta, Validated, Books, Deltas, BookState

\* apply_delta accepts a delta only if it covers everything since the book.
LEMMA AppliedCovers ==
    ASSUME NEW history \in Histories, NEW book \in Books, NEW delta \in Deltas,
           DeltaTrue(delta, history), DeltaOutcome(book, delta) = "APPLIED"
    PROVE  /\ delta.previous_update_id <= book.last_update_id
           /\ book.last_update_id <= delta.last_update_id
PROOF
  <1>0. /\ delta.first_update_id \in Nat /\ delta.last_update_id \in Nat
        /\ delta.previous_update_id \in Nat /\ book.last_update_id \in Nat
    BY Zenon DEF Deltas, Books
  <1>1. Continues(book, delta)
    BY Zenon DEF DeltaOutcome
  <1> QED BY <1>0, <1>1 DEF Continues, Expected, DeltaTrue

\* So the book after an accepted delta is the exchange's book again.
LEMMA DeltaShows ==
    ASSUME NEW history \in Histories, NEW book \in Books, NEW delta \in Deltas,
           DeltaTrue(delta, history), Shows(book, history),
           DeltaOutcome(book, delta) = "APPLIED"
    PROVE  Shows(ApplyDelta(book, delta), history)
PROOF
  <1> DEFINE side == ApplySide(book, delta, {"bid", "ask"})
             after == ApplyDelta(book, delta)
  <1>0. /\ delta.first_update_id \in Nat /\ delta.last_update_id \in Nat
        /\ delta.previous_update_id \in Nat /\ book.last_update_id \in Nat
        /\ Len(history) \in Nat /\ delta.changed \subseteq Levels
    BY DEF Deltas, Books, Histories
  <1>1. {l \in delta.changed : l.side \in {"bid", "ask"}} = delta.changed
    BY Zenon, <1>0, BookAssumption
  <1>2. /\ after.last_update_id = delta.last_update_id
        /\ after.known = book.known \cup delta.changed
        /\ after.quantity = [l \in Levels |->
              IF l \in delta.changed THEN delta.quantity[l] ELSE book.quantity[l]]
    BY Zenon, <1>1 DEF ApplyDelta, ApplySide, Validated, Books
  <1>3. delta.last_update_id \in 1..Len(history)
    BY <1>0 DEF DeltaTrue
  <1>4. ASSUME NEW l \in Levels
        PROVE  after.quantity[l] =
                 IF l \in after.known THEN history[delta.last_update_id][l] ELSE 0
    <2>1. CASE l \in delta.changed
      BY <1>2, <2>1 DEF DeltaTrue
    <2>2. CASE l \notin delta.changed
      <3>1. after.quantity[l] = book.quantity[l] /\ (l \in after.known <=> l \in book.known)
        BY Zenon, <1>2, <2>2
      <3>2. book.quantity[l] =
              IF l \in book.known THEN history[book.last_update_id][l] ELSE 0
        BY Zenon DEF Shows
      <3>3. book.last_update_id \in delta.previous_update_id..delta.last_update_id
            /\ delta.last_update_id \in delta.previous_update_id..delta.last_update_id
        BY <1>0, AppliedCovers
      <3>4. history[book.last_update_id][l] = history[delta.last_update_id][l]
        BY Zenon, <2>2, <3>3 DEF DeltaTrue
      <3> QED BY <3>1, <3>2, <3>4
    <2> QED BY Zenon, <2>1, <2>2
  <1> QED BY <1>2, <1>3, <1>4 DEF Shows

\* The initial books show nothing.
LEMMA DepthStarts == ASSUME Init PROVE DepthInv
PROOF
  <1>1. <<Opening>> \in Seq(Quantities) /\ Len(<<Opening>>) = 1
    BY DepthAssumption
  <1>2. NewBook(futures) \in Books
    BY Zenon DEF Init, NewBook, Books, BookState, Quantities
  <1>v. \A s \in Symbols : venue[s].history = <<Opening>> /\ venue[s].published = 1
    BY Zenon DEF Init
  <1>w. venue \in [Symbols -> [history : Seq(Quantities), published : Nat,
                              touched : SUBSET Levels]]
    BY Zenon, <1>1 DEF Init
  <1>3. CollectorTypeOK
    <2>1. /\ books \in [Symbols -> Books]
          /\ pending \in Symbols \cup {NoSymbol}
          /\ wire = <<>> /\ remaining = <<>> /\ answer = <<>> /\ buffers = <<>>
      BY Zenon, <1>2 DEF Init
    <2>2. /\ futures \in BOOLEAN /\ draining \in BOOLEAN /\ faults \in Nat /\ phase \in Phases
          /\ subscribed \subseteq Symbols /\ requested \subseteq Symbols /\ held \subseteq Symbols
      BY Zenon DEF Init, Phases
    <2> QED BY <1>w, <2>1, <2>2 DEF CollectorTypeOK
  <1>4. ASSUME NEW s \in Symbols PROVE VenueOK(venue[s])
    <2>1. venue[s].published = 1 /\ Len(venue[s].history) = 1
      BY Zenon, <1>1, <1>v
    <2>2. \A k \in 1..1 : k = 1
      OBVIOUS
    <2> QED BY <2>1, <2>2 DEF VenueOK
  <1>5. WireTrue
    BY DEF Init, WireTrue
  <1>6. BuffersTrue /\ AnswerTrue /\ DrainingTrue /\ BooksTrue
    BY Zenon DEF Init, BuffersTrue, AnswerTrue, DrainingTrue, BooksTrue
  <1> QED BY <1>3, <1>4, <1>5, <1>6 DEF DepthInv

\* A new update is behind everything that was said about the books before.
LEMMA UpdateKeeps ==
    ASSUME DepthInv, NEW s \in Symbols, Update(s)
    PROVE  DepthInv'
PROOF
  <1> USE DEF DepthInv
  <1>1. PICK move \in Moves[s][Now(s)] :
          venue' = [venue EXCEPT
              ![s].history = Append(@, [@[Len(@)] EXCEPT ![move.level] = move.quantity]),
              ![s].touched = @ \cup {move.level}]
    BY Zenon DEF Update
  <1>h. PICK h : h = venue[s].history
    BY Zenon
  <1>n. PICK n : n = Len(h)
    BY Zenon
  <1>g. PICK g : g = Append(h, [h[n] EXCEPT ![move.level] = move.quantity])
    BY Zenon
  <1>2. /\ h \in Seq(Quantities) /\ n \in Nat /\ n >= 1
        /\ venue[s] \in [history : Seq(Quantities), published : Nat, touched : SUBSET Levels]
    BY <1>h, <1>n DEF CollectorTypeOK, VenueOK
  <1>3. move.level \in Levels /\ move.quantity \in Nat
    <2>1. n \in 1..Len(Moves[s])
      BY <1>h, <1>n, <1>2, DepthAssumption DEF Update, Now
    <2> QED BY <1>h, <1>n, <2>1, DepthAssumption DEF Now
  <1>4. h[n] \in Quantities /\ [h[n] EXCEPT ![move.level] = move.quantity] \in Quantities
    BY <1>n, <1>2, <1>3 DEF Quantities
  <1>5. /\ g \in Seq(Quantities) /\ Len(g) = n + 1
        /\ \A k \in 1..n : g[k] = h[k]
        /\ g[n + 1] = [h[n] EXCEPT ![move.level] = move.quantity]
    BY <1>g, <1>n, <1>2, <1>4
  <1>6. /\ venue'[s] = [venue[s] EXCEPT !.history = g, !.touched = @ \cup {move.level}]
        /\ \A r \in Symbols : r # s => venue'[r] = venue[r]
        /\ venue' \in [Symbols -> [history : Seq(Quantities), published : Nat,
                                   touched : SUBSET Levels]]
    BY Zenon, <1>1, <1>2, <1>3, <1>5, <1>g, <1>h, <1>n DEF CollectorTypeOK
  <1>7. ASSUME NEW r \in Symbols
        PROVE  /\ venue[r].history \in Histories /\ venue'[r].history \in Histories
               /\ Extends(venue'[r].history, venue[r].history)
    <2>1. venue[r].history \in Histories /\ venue'[r].history \in Histories
      BY Zenon, <1>6 DEF CollectorTypeOK, Histories
    <2>2. CASE r = s
      <3>1. venue'[s].history = g
        BY Zenon, <1>2, <1>6
      <3> QED BY <1>2, <1>5, <1>h, <1>n, <2>1, <2>2, <3>1 DEF Extends
    <2>3. CASE r # s
      <3>1. venue'[r].history = venue[r].history /\ Len(venue[r].history) \in Nat
        BY <1>6, <2>1, <2>3 DEF Histories
      <3> QED BY <2>1, <3>1 DEF Extends
    <2> QED BY <2>1, <2>2, <2>3
  <1>8. CollectorTypeOK'
    BY Zenon, <1>6 DEF Update, CollectorTypeOK, connectionVars
  <1>9. ASSUME NEW r \in Symbols PROVE VenueOK(venue[r])'
    <2>1. CASE r # s
      BY <1>6, <2>1 DEF VenueOK
    <2>2. CASE r = s
      <3>p. PICK p : p = venue[s].published
        BY Zenon
      <3>1. /\ p \in 1..n
            /\ \A l \in Levels \ venue[s].touched : \A k \in p..n : h[k][l] = h[p][l]
        BY <1>h, <1>n, <3>p DEF VenueOK
      <3>2. /\ venue'[s].published = p /\ venue'[s].history = g
            /\ venue'[s].touched = venue[s].touched \cup {move.level}
        BY <1>2, <1>6, <3>p
      <3>3. ASSUME NEW l \in Levels \ (venue[s].touched \cup {move.level}), NEW k \in p..(n + 1)
            PROVE  g[k][l] = g[p][l]
        <4>1. g[p] = h[p]
          BY Zenon, <1>5, <3>1
        <4>2. CASE k \in p..n
          BY <1>2, <1>5, <3>1, <3>3, <4>1, <4>2
        <4>3. CASE k = n + 1
          <5>1. g[k][l] = h[n][l]
            BY <1>4, <1>5, <3>3, <4>3 DEF Quantities
          <5>2. h[n][l] = h[p][l]
            BY <1>2, <3>1, <3>3
          <5> QED BY Zenon, <4>1, <5>1, <5>2
        <4> QED BY <1>2, <3>1, <4>2, <4>3
      <3> QED BY <1>2, <1>5, <2>2, <3>1, <3>2, <3>3 DEF VenueOK
    <2> QED BY Zenon, <2>1, <2>2
  <1>10. WireTrue'
    <2>1. ASSUME NEW i \in 1..Len(wire) PROVE DeltaTrue(wire[i].delta, venue'[wire[i].symbol].history)
      <3>w. wire \in Seq([symbol : Symbols, delta : Deltas])
        BY Zenon DEF CollectorTypeOK
      <3>0. wire[i] \in [symbol : Symbols, delta : Deltas]
        BY Zenon, <3>w, ElementOfSeq
      <3>1. wire[i].symbol \in Symbols /\ wire[i].delta \in Deltas
        BY Zenon, <3>0
      <3> QED BY Zenon, <1>7, <3>1, DeltaLonger DEF WireTrue
    <2> QED BY Zenon, <2>1 DEF WireTrue, Update
  <1>11. BuffersTrue'
    <2>1. ASSUME buffers # <<>>, NEW i \in 1..Len(buffers)
          PROVE  pending \in Symbols /\ DeltaTrue(buffers[i], venue'[pending].history)
      <3>1. pending \in Symbols /\ buffers[i] \in Deltas /\ DeltaTrue(buffers[i], venue[pending].history)
        BY <2>1 DEF CollectorTypeOK, BuffersTrue
      <3> QED BY <1>7, <3>1, DeltaLonger
    <2> QED BY Zenon, <2>1 DEF BuffersTrue, Update, connectionVars
  <1>12. AnswerTrue'
    BY Zenon, <1>7, ShowsLonger DEF AnswerTrue, Update, connectionVars
  <1>13. BooksTrue'
    BY Zenon, <1>7, ShowsLonger DEF BooksTrue, Update, connectionVars, CollectorTypeOK
  <1>14. DrainingTrue'
    BY Zenon DEF DrainingTrue, Update, connectionVars
  <1> QED BY <1>8, <1>9, <1>10, <1>11, <1>12, <1>13, <1>14

\* Steps that touch neither the exchange's books nor the connection's.
LEMMA QuietKeeps ==
    ASSUME DepthInv,
           UNCHANGED <<futures, venue, wire, held, books, pending, answer, buffers, draining>>,
           subscribed' \subseteq Symbols, requested' \subseteq Symbols,
           remaining' \in Seq(Symbols), phase' \in Phases, faults' \in Nat
    PROVE  DepthInv'
PROOF
  <1>1. CollectorTypeOK'
    BY Zenon DEF DepthInv, CollectorTypeOK
  <1>2. (\A s \in Symbols : VenueOK(venue[s]))' /\ WireTrue'
    BY DEF DepthInv, VenueOK, WireTrue
  <1>3. BuffersTrue' /\ AnswerTrue' /\ DrainingTrue' /\ BooksTrue'
    BY Zenon DEF DepthInv, BuffersTrue, AnswerTrue, DrainingTrue, BooksTrue
  <1> QED BY <1>1, <1>2, <1>3 DEF DepthInv

\* A fault counts up.
LEMMA FaultTyped == ASSUME DepthInv, Fault PROVE faults' \in Nat
BY DEF DepthInv, CollectorTypeOK, Fault

\* The parts of the type invariant that the supervisor's steps need.
LEMMA Typed ==
    ASSUME DepthInv
    PROVE  /\ subscribed \subseteq Symbols /\ requested \subseteq Symbols
           /\ remaining \in Seq(Symbols) /\ phase \in Phases /\ faults \in Nat
BY Zenon DEF DepthInv, CollectorTypeOK

\* A SUBSCRIBE message reaches the exchange.
LEMMA SubscribeKeeps ==
    ASSUME DepthInv, NEW s \in Symbols, HandleSubscribe(s) PROVE DepthInv'
BY Zenon, QuietKeeps, Typed DEF HandleSubscribe, connectionVars

\* The steps of _supervise, and the batch writes, leave the books alone.
LEMMA SupervisorKeeps ==
    ASSUME DepthInv, Flush \/ Start \/ Connect \/ EndSession \/ WriteGaps \/ Close
    PROVE  DepthInv'
PROOF
  <1> USE DEF connectionVars, exchangeVars
  <1>1. CASE Flush
    BY <1>1, QuietKeeps, FaultTyped, Typed DEF Flush, Raise, Phases
  <1>2. CASE Start
    BY <1>2, QuietKeeps, Typed DEF Start, Phases
  <1>3. CASE Connect
    <2>1. Group \in Seq(Symbols)
      BY Zenon, DepthAssumption
    <2> QED BY <1>3, <2>1, QuietKeeps, FaultTyped, Typed DEF Connect, Phases
  <1>4. CASE EndSession
    BY <1>4, QuietKeeps, FaultTyped, Typed DEF EndSession, Phases
  <1>5. CASE WriteGaps
    BY <1>5, QuietKeeps, FaultTyped, Typed DEF WriteGaps, Phases
  <1>6. CASE Close
    BY <1>6, QuietKeeps, FaultTyped, Typed DEF Close, Phases
  <1> QED BY <1>1, <1>2, <1>3, <1>4, <1>5, <1>6

\* Without a connection there is nothing to be wrong about.
LEMMA ConnectionGone ==
    ASSUME DepthInv, UNCHANGED <<futures, venue>>, NoConnection,
           phase' \in Phases, faults' \in Nat
    PROVE  DepthInv'
PROOF
  <1>1. NewBook(futures) \in Books
    BY Zenon DEF NewBook, Books, BookState, Quantities, DepthInv, CollectorTypeOK
  <1>2. CollectorTypeOK'
    <2>1. books' \in [Symbols -> Books] /\ pending' \in Symbols \cup {NoSymbol}
      BY Zenon, <1>1 DEF NoConnection
    <2>2. /\ wire' = <<>> /\ remaining' = <<>> /\ answer' = <<>> /\ buffers' = <<>>
          /\ subscribed' = {} /\ requested' = {} /\ held' = {} /\ draining' = FALSE
      BY Zenon DEF NoConnection
    <2>3. futures' \in BOOLEAN
          /\ venue' \in [Symbols -> [history : Seq(Quantities), published : Nat,
                                     touched : SUBSET Levels]]
      BY Zenon DEF DepthInv, CollectorTypeOK
    <2>4. wire' \in Seq([symbol : Symbols, delta : Deltas]) /\ remaining' \in Seq(Symbols)
          /\ answer' \in Seq(Snapshots) /\ buffers' \in Seq(Deltas)
      BY <2>2
    <2>5. subscribed' \subseteq Symbols /\ requested' \subseteq Symbols /\ held' \subseteq Symbols
          /\ draining' \in BOOLEAN
      BY Zenon, <2>2
    <2> QED BY <2>1, <2>3, <2>4, <2>5 DEF CollectorTypeOK
  <1>3. (\A s \in Symbols : VenueOK(venue[s]))'
    BY DEF DepthInv, VenueOK
  <1>4. WireTrue'
    BY DEF NoConnection, WireTrue
  <1>5. BuffersTrue' /\ AnswerTrue' /\ DrainingTrue' /\ BooksTrue'
    BY Zenon DEF NoConnection, BuffersTrue, AnswerTrue, DrainingTrue, BooksTrue
  <1> QED BY <1>2, <1>3, <1>4, <1>5 DEF DepthInv

\* A connection that ends, or a process that dies, forgets its books.
LEMMA EndKeeps == ASSUME DepthInv, Unwind \/ Die PROVE DepthInv'
PROOF
  <1>1. CASE Unwind
    BY <1>1, ConnectionGone, FaultTyped, Typed DEF Unwind, Phases
  <1>2. CASE Die
    BY <1>2, ConnectionGone, FaultTyped, Typed DEF Die, Phases
  <1> QED BY Zenon, <1>1, <1>2

\* What a step of the collector on one book keeps.
BooksKept ==
    /\ books' \in [Symbols -> Books] /\ held' \subseteq Symbols
    /\ remaining' \in Seq(Symbols) /\ phase' \in Phases /\ faults' \in Nat
    /\ BooksTrue'

\* One book is replaced by another that shows the exchange's book, or is not live.
LEMMA BookReplaced ==
    ASSUME DepthInv, NEW s \in Symbols, NEW book \in Books, UNCHANGED <<futures, venue>>,
           books' = [books EXCEPT ![s] = book], held' \subseteq held \cup {s},
           s \in held' /\ book.state = "LIVE" => Shows(book, venue[s].history)
    PROVE  books' \in [Symbols -> Books] /\ held' \subseteq Symbols /\ BooksTrue'
PROOF
  <1>1. books \in [Symbols -> Books] /\ held \subseteq Symbols
    BY Zenon DEF DepthInv, CollectorTypeOK
  <1>2. books'[s] = book /\ \A r \in Symbols : r # s => books'[r] = books[r]
    BY Zenon, <1>1
  <1>3. BooksTrue'
    BY Zenon, <1>1, <1>2 DEF DepthInv, BooksTrue
  <1> QED BY Zenon, <1>1, <1>3

\* resync leaves a book that shows nothing and is not in the dictionary.
LEMMA ResyncKeeps ==
    ASSUME DepthInv, NEW s \in Symbols, UNCHANGED <<futures, venue>>, Resync(s)
    PROVE  BooksKept
PROOF
  <1>1. NewBook(futures) \in Books
    BY Zenon DEF NewBook, Books, BookState, Quantities, DepthInv, CollectorTypeOK
  <1>2. books' = [books EXCEPT ![s] = NewBook(futures)] /\ held' = held \ {s}
    BY Zenon DEF Resync
  <1>3. books' \in [Symbols -> Books] /\ held' \subseteq Symbols /\ BooksTrue'
    BY Zenon, <1>1, <1>2, BookReplaced
  <1>4. phase' \in Phases /\ faults' \in Nat /\ remaining' \in Seq(Symbols)
    BY FaultTyped, Typed DEF Resync, Raise, Phases
  <1> QED BY Zenon, <1>3, <1>4 DEF BooksKept

\* A true delta, whatever apply_depth_event makes of it, keeps the books true.
LEMMA EventKeeps ==
    ASSUME DepthInv, NEW s \in Symbols, NEW delta \in Deltas, NEW more,
           DeltaTrue(delta, venue[s].history), UNCHANGED <<futures, venue>>,
           ApplyEvent(s, delta, more)
    PROVE  BooksKept
PROOF
  <1>b. PICK book : book = books[s]
    BY Zenon
  <1>a. PICK after : after = ApplyDelta(book, delta)
    BY Zenon
  <1>0. /\ books \in [Symbols -> Books] /\ held \subseteq Symbols /\ book \in Books
        /\ venue[s].history \in Histories
    BY Zenon, <1>b DEF DepthInv, CollectorTypeOK, Histories
  <1>1. CASE DeltaOutcome(book, delta) = "OLD"
    <2>1. UNCHANGED <<held, books, remaining, phase, faults>>
      BY <1>1, <1>b DEF ApplyEvent
    <2> QED BY Zenon, <1>0, <2>1, Typed DEF BooksKept, DepthInv, BooksTrue
  <1>2. CASE DeltaOutcome(book, delta) = "APPLIED" /\ after.state = "LIVE"
    <2>1. /\ books' = [books EXCEPT ![s] = after]
          /\ UNCHANGED <<held, remaining, phase, faults>>
      BY <1>2, <1>a, <1>b DEF ApplyEvent
    <2>2. after \in Books
      BY <1>0, <1>2, <1>a, DeltaTyped
    <2>3. s \in held => Shows(after, venue[s].history)
      <3>1. book.state = "LIVE"
        BY Zenon, <1>2 DEF DeltaOutcome
      <3>2. s \in held => Shows(book, venue[s].history)
        BY Zenon, <1>b, <3>1 DEF DepthInv, BooksTrue
      <3> QED BY <1>0, <1>2, <1>a, <3>2, DeltaShows
    <2>4. books' \in [Symbols -> Books] /\ held' \subseteq Symbols /\ BooksTrue'
      BY Zenon, <2>1, <2>2, <2>3, BookReplaced
    <2> QED BY <2>1, <2>4, Typed DEF BooksKept
  <1>3. CASE /\ DeltaOutcome(book, delta) # "OLD"
             /\ ~(DeltaOutcome(book, delta) = "APPLIED" /\ after.state = "LIVE")
    <2>1. Resync(s)
      BY Zenon, <1>3, <1>a, <1>b DEF ApplyEvent
    <2> QED BY Zenon, <2>1, ResyncKeeps
  <1> QED BY <1>1, <1>2, <1>3

\* The exchange's books do not move and the step keeps every part: it keeps all.
LEMMA PartsKept ==
    ASSUME DepthInv, UNCHANGED <<futures, venue, subscribed>>, requested' \subseteq Symbols,
           BooksKept,
           wire' \in Seq([symbol : Symbols, delta : Deltas]), WireTrue',
           pending' \in Symbols \cup {NoSymbol},
           answer' \in Seq(Snapshots), AnswerTrue',
           buffers' \in Seq(Deltas), BuffersTrue',
           draining' \in BOOLEAN, DrainingTrue'
    PROVE  DepthInv'
PROOF
  <1>1. CollectorTypeOK'
    BY Zenon DEF DepthInv, CollectorTypeOK, BooksKept
  <1>2. (\A s \in Symbols : VenueOK(venue[s]))'
    BY DEF DepthInv, VenueOK
  <1> QED BY Zenon, <1>1, <1>2 DEF DepthInv, BooksKept

\* A symbol that is picked for a snapshot begins with an empty book.
LEMMA PickPendingKeeps == ASSUME DepthInv, PickPending PROVE DepthInv'
PROOF
  <1>s. PICK s : s = Head(remaining)
    BY Zenon
  <1>1. s \in Symbols /\ remaining' \in Seq(Symbols)
    BY <1>s, Typed DEF PickPending
  <1>2. NewBook(futures) \in Books
    BY Zenon DEF NewBook, Books, BookState, Quantities, DepthInv, CollectorTypeOK
  <1>3. NewBook(futures).state # "LIVE"
    BY Zenon DEF NewBook
  <1>4. /\ books' = [books EXCEPT ![s] = NewBook(futures)] /\ held' = held \cup {s}
        /\ UNCHANGED <<futures, venue, subscribed, wire, phase, faults, buffers, draining>>
        /\ pending' = s /\ answer' = <<>> /\ requested' = requested \cup {s}
        /\ pending = NoSymbol
    BY Zenon, <1>s DEF PickPending
  <1>5. BooksKept
    BY Zenon, <1>1, <1>2, <1>3, <1>4, BookReplaced, Typed DEF BooksKept
  <1>6. buffers = <<>> /\ draining = FALSE
    BY Zenon, <1>4, DepthAssumption DEF DepthInv, BuffersTrue, DrainingTrue, CollectorTypeOK
  <1>7. /\ wire' \in Seq([symbol : Symbols, delta : Deltas])
        /\ requested' \subseteq Symbols /\ pending' \in Symbols \cup {NoSymbol}
        /\ buffers' = <<>> /\ draining' = FALSE /\ answer' = <<>>
    BY <1>1, <1>4, <1>6, Typed DEF DepthInv, CollectorTypeOK
  <1>8. WireTrue'
    BY Zenon, <1>4 DEF DepthInv, WireTrue
  <1>9. AnswerTrue' /\ BuffersTrue' /\ DrainingTrue'
    BY Zenon, <1>7 DEF AnswerTrue, BuffersTrue, DrainingTrue
  <1>10. answer' \in Seq(Snapshots) /\ buffers' \in Seq(Deltas)
    <2>1. answer' = <<>> /\ buffers' = <<>>
      BY Zenon, <1>7
    <2> QED BY <2>1
  <1>11. draining' \in BOOLEAN
    BY Zenon, <1>7
  <1> QED BY Zenon, <1>4, <1>5, <1>7, <1>8, <1>9, <1>10, <1>11, PartsKept

\* The end of a bootstrap leaves nothing of it.
LEMMA BootstrapGone ==
    ASSUME DepthInv, BootstrapDone, answer' = <<>>, BooksKept,
           UNCHANGED <<exchangeVars, wire>>
    PROVE  DepthInv'
PROOF
  <1>1. /\ pending' = NoSymbol /\ buffers' = <<>> /\ draining' = FALSE
        /\ UNCHANGED <<futures, venue, subscribed, requested, wire>>
    BY Zenon DEF BootstrapDone, exchangeVars
  <1>2. AnswerTrue' /\ BuffersTrue' /\ DrainingTrue'
    BY Zenon, <1>1 DEF AnswerTrue, BuffersTrue, DrainingTrue
  <1>3. WireTrue'
    BY Zenon, <1>1 DEF DepthInv, WireTrue
  <1>4. /\ wire' \in Seq([symbol : Symbols, delta : Deltas])
        /\ requested' \subseteq Symbols
    BY Zenon, <1>1 DEF DepthInv, CollectorTypeOK
  <1>5. answer' \in Seq(Snapshots) /\ buffers' \in Seq(Deltas)
    <2>1. answer' = <<>> /\ buffers' = <<>>
      BY Zenon, <1>1
    <2> QED BY <2>1
  <1>6. draining' \in BOOLEAN
    BY Zenon, <1>1
  <1> QED BY <1>1, <1>2, <1>3, <1>4, <1>5, <1>6, PartsKept

\* A snapshot shows some book the exchange had; the book made of it shows the same.
LEMMA TakeSnapshotKeeps == ASSUME DepthInv, TakeSnapshot PROVE DepthInv'
PROOF
  <1>s. PICK s : s = pending
    BY Zenon
  <1>a. PICK a : a = answer[1]
    BY Zenon
  <1>k. PICK book : book = ApplySnapshot(books[s], a)
    BY Zenon
  <1>0. /\ s \in Symbols /\ a \in Snapshots /\ Shows(a, venue[s].history)
        /\ books[s] \in Books
    BY <1>s, <1>a DEF TakeSnapshot, DepthInv, AnswerTrue, CollectorTypeOK
  <1>1. book \in Books
    BY Zenon, <1>0, <1>k, SnapshotTyped
  <1>2. Shows(book, venue[s].history)
    <2>1. /\ book.last_update_id = a.last_update_id /\ book.quantity = a.quantity
          /\ book.known = a.known
      BY Zenon, <1>0, <1>k DEF ApplySnapshot, Validated, Books, Snapshots
    <2> QED BY Zenon, <1>0, <2>1 DEF Shows
  <1>u. UNCHANGED <<exchangeVars, wire>> /\ answer' = <<>> /\ UNCHANGED <<futures, venue>>
    BY Zenon DEF TakeSnapshot, exchangeVars
  <1>3. CASE book.state # "LIVE"
    <2>1. Resync(s) /\ BootstrapDone
      BY <1>3, <1>s, <1>a, <1>k DEF TakeSnapshot
    <2> QED BY <1>0, <1>u, <2>1, ResyncKeeps, BootstrapGone
  <1>4. CASE book.state = "LIVE"
    <2>1. /\ books' = [books EXCEPT ![s] = book]
          /\ UNCHANGED <<held, remaining, phase, faults>>
          /\ IF buffers = <<>> THEN BootstrapDone
             ELSE draining' = TRUE /\ UNCHANGED <<pending, buffers>>
      BY Zenon, <1>4, <1>s, <1>a, <1>k DEF TakeSnapshot
    <2>2. BooksKept
      BY Zenon, <1>0, <1>1, <1>2, <1>u, <2>1, BookReplaced, Typed DEF BooksKept, DepthInv, CollectorTypeOK
    <2>3. CASE buffers = <<>>
      BY <1>u, <2>1, <2>2, <2>3, BootstrapGone
    <2>4. CASE buffers # <<>>
      <3>1. draining' = TRUE /\ UNCHANGED <<pending, buffers, wire, venue, requested, subscribed, futures>>
        BY Zenon, <1>u, <2>1, <2>4 DEF exchangeVars
      <3>2. AnswerTrue' /\ DrainingTrue'
        BY <1>u, <2>4, <3>1 DEF AnswerTrue, DrainingTrue
      <3>3. BuffersTrue'
        BY Zenon, <3>1 DEF DepthInv, BuffersTrue
      <3>4. WireTrue'
        BY Zenon, <3>1 DEF DepthInv, WireTrue
      <3>5. /\ wire' \in Seq([symbol : Symbols, delta : Deltas]) /\ requested' \subseteq Symbols
            /\ pending' \in Symbols \cup {NoSymbol} /\ buffers' \in Seq(Deltas)
        BY Zenon, <3>1 DEF DepthInv, CollectorTypeOK
      <3>6. answer' \in Seq(Snapshots) /\ draining' \in BOOLEAN
        BY <1>u, <3>1
      <3> QED BY <2>2, <3>1, <3>2, <3>3, <3>4, <3>5, <3>6, PartsKept
    <2> QED BY Zenon, <2>3, <2>4
  <1> QED BY Zenon, <1>3, <1>4

\* What is left of a sequence behind its head.
LEMMA TailElements ==
    ASSUME NEW S, NEW q \in Seq(S), q # <<>>
    PROVE  /\ Head(q) \in S /\ Head(q) = q[1] /\ 1 \in 1..Len(q)
           /\ Tail(q) \in Seq(S)
           /\ \A i \in 1..Len(Tail(q)) : i + 1 \in 1..Len(q) /\ Tail(q)[i] = q[i + 1]
PROOF
  <1>1. Len(q) \in Nat /\ Len(q) # 0
    OBVIOUS
  <1>2. Tail(q) \in Seq(S) /\ Len(Tail(q)) = Len(q) - 1
    BY <1>1
  <1>3. \A i \in 1..Len(Tail(q)) : i + 1 \in 1..Len(q) /\ Tail(q)[i] = q[i + 1]
    BY <1>1, <1>2
  <1>4. 1 \in 1..Len(q)
    BY <1>1
  <1>5. q[1] \in S
    BY Zenon, <1>4, ElementOfSeq
  <1> QED BY <1>2, <1>3, <1>4, <1>5

\* A buffered delta is applied like one that comes after the snapshot.
LEMMA DrainBufferKeeps == ASSUME DepthInv, DrainBuffer PROVE DepthInv'
PROOF
  <1>s. PICK s : s = pending
    OBVIOUS
  <1>d. PICK delta : delta = Head(buffers)
    OBVIOUS
  <1>u. UNCHANGED <<exchangeVars, wire>> /\ UNCHANGED <<futures, venue, subscribed, requested>>
        /\ UNCHANGED answer
    BY Zenon DEF DrainBuffer, exchangeVars
  <1>0. draining /\ buffers # <<>> /\ answer = <<>> /\ buffers \in Seq(Deltas)
    BY Zenon DEF DrainBuffer, DepthInv, DrainingTrue, CollectorTypeOK
  <1>1. s \in Symbols /\ delta \in Deltas /\ DeltaTrue(delta, venue[s].history)
    <2>1. \A i \in 1..Len(buffers) : DeltaTrue(buffers[i], venue[s].history)
      BY Zenon, <1>0, <1>s DEF DepthInv, BuffersTrue
    <2>2. s \in Symbols
      BY Zenon, <1>0, <1>s DEF DepthInv, BuffersTrue
    <2>3. delta \in Deltas /\ delta = buffers[1] /\ 1 \in 1..Len(buffers)
      BY <1>0, <1>d, TailElements
    <2> QED BY Zenon, <2>1, <2>2, <2>3
  <1>2. ApplyEvent(s, delta, <<>>)
    BY <1>s, <1>d DEF DrainBuffer
  <1>3. BooksKept
    BY <1>1, <1>2, <1>u, EventKeeps
  <1>4. CASE BootstrapDone
    BY <1>0, <1>3, <1>4, <1>u, BootstrapGone
  <1>5. CASE buffers' = Tail(buffers) /\ UNCHANGED <<pending, draining>> /\ Len(buffers) # 1
    <2>1. /\ buffers' \in Seq(Deltas)
          /\ \A i \in 1..Len(buffers') : i + 1 \in 1..Len(buffers) /\ buffers'[i] = buffers[i + 1]
      BY <1>0, <1>5, TailElements
    <2>2. buffers' # <<>>
      <3>1. Len(buffers) \in Nat /\ Len(buffers) # 0
        BY <1>0
      <3>2. Len(buffers') = Len(buffers) - 1
        BY <1>0, <1>5
      <3>3. Len(buffers') # 0
        BY <1>5, <3>1, <3>2
      <3>4. Len(<<>>) = 0
        BY Zenon
      <3> QED BY Zenon, <3>3, <3>4
    <2>3. BuffersTrue'
      BY <1>0, <1>5, <1>u, <2>1 DEF DepthInv, BuffersTrue
    <2>4. AnswerTrue' /\ DrainingTrue'
      BY Zenon, <1>0, <1>u, <2>2 DEF AnswerTrue, DrainingTrue
    <2>5. WireTrue'
      BY Zenon, <1>u DEF DepthInv, WireTrue
    <2>6. /\ wire' \in Seq([symbol : Symbols, delta : Deltas]) /\ requested' \subseteq Symbols
          /\ pending' \in Symbols \cup {NoSymbol} /\ answer' \in Seq(Snapshots)
      BY Zenon, <1>5, <1>u DEF DepthInv, CollectorTypeOK
    <2>7. draining' \in BOOLEAN
      BY Zenon, <1>5 DEF DepthInv, CollectorTypeOK
    <2> QED BY <1>3, <1>u, <2>1, <2>3, <2>4, <2>5, <2>6, <2>7, PartsKept
  <1> QED BY Zenon, <1>4, <1>5, <1>s DEF DrainBuffer

\* The next message is buffered, ignored or applied.
LEMMA ReceiveKeeps == ASSUME DepthInv, Receive PROVE DepthInv'
PROOF
  <1>s. PICK s : s = Head(wire).symbol
    BY Zenon
  <1>d. PICK delta : delta = Head(wire).delta
    BY Zenon
  <1>u. /\ UNCHANGED <<futures, venue, subscribed, requested>>
        /\ UNCHANGED <<pending, answer, draining>> /\ draining = FALSE
    BY Zenon DEF Receive, exchangeVars, DepthInv, CollectorTypeOK
  <1>w. wire \in Seq([symbol : Symbols, delta : Deltas]) /\ wire # <<>> /\ wire' = Tail(wire)
    BY Zenon DEF Receive, DepthInv, CollectorTypeOK
  <1>t. /\ Head(wire) \in [symbol : Symbols, delta : Deltas]
        /\ Head(wire) = wire[1] /\ 1 \in 1..Len(wire)
        /\ wire' \in Seq([symbol : Symbols, delta : Deltas])
        /\ \A i \in 1..Len(wire') : i + 1 \in 1..Len(wire) /\ wire'[i] = wire[i + 1]
    BY Zenon, <1>w, TailElements
  <1>1. s \in Symbols /\ delta \in Deltas /\ DeltaTrue(delta, venue[s].history)
    BY Zenon, <1>s, <1>d, <1>t DEF DepthInv, WireTrue
  <1>2. WireTrue'
    BY Zenon, <1>t, <1>u DEF DepthInv, WireTrue
  <1>3. AnswerTrue' /\ DrainingTrue' /\ draining' \in BOOLEAN
    BY Zenon, <1>u DEF AnswerTrue, DrainingTrue, DepthInv
  <1>4. /\ requested' \subseteq Symbols /\ answer' \in Seq(Snapshots)
        /\ pending' \in Symbols \cup {NoSymbol}
    BY Zenon, <1>u DEF DepthInv, CollectorTypeOK
  <1>5. SUFFICES BooksKept /\ buffers' \in Seq(Deltas) /\ BuffersTrue'
    BY <1>t, <1>u, <1>2, <1>3, <1>4, PartsKept
  <1>6. UNCHANGED buffers => buffers' \in Seq(Deltas) /\ BuffersTrue'
    BY Zenon, <1>u DEF DepthInv, BuffersTrue, CollectorTypeOK
  <1>7. UNCHANGED <<held, books, remaining, faults>> /\ phase' \in Phases => BooksKept
    BY Zenon, <1>u DEF DepthInv, BooksKept, BooksTrue, CollectorTypeOK
  <1>8. CASE UNCHANGED <<phase, held, books, remaining, buffers, faults>>
    BY <1>6, <1>7, <1>8, Typed
  <1>9. CASE s = pending /\ BufferMessage(delta)
    <2>1. UNCHANGED <<held, books, remaining, faults>> /\ phase' \in Phases
      BY Zenon, <1>9, Typed DEF BufferMessage, Raise, Phases
    <2>2. CASE UNCHANGED buffers
      BY <1>6, <1>7, <2>1, <2>2
    <2>3. CASE buffers' = Append(buffers, delta)
      <3>1. buffers \in Seq(Deltas)
        BY Zenon DEF DepthInv, CollectorTypeOK
      <3>2. /\ buffers' \in Seq(Deltas) /\ Len(buffers') = Len(buffers) + 1
            /\ Len(buffers) \in Nat
            /\ \A i \in 1..Len(buffers) : buffers'[i] = buffers[i]
            /\ buffers'[Len(buffers) + 1] = delta
        BY <1>1, <2>3, <3>1
      <3>3. ASSUME NEW i \in 1..Len(buffers')
            PROVE  DeltaTrue(buffers'[i], venue[s].history)
        <4>1. CASE i = Len(buffers) + 1
          BY <1>1, <3>2, <4>1
        <4>2. CASE i \in 1..Len(buffers)
          <5>1. buffers # <<>>
            BY <3>1, <4>2
          <5> QED BY <1>9, <3>2, <4>2, <5>1 DEF DepthInv, BuffersTrue
        <4> QED BY <3>2, <4>1, <4>2
      <3>4. BuffersTrue'
        BY <1>1, <1>9, <1>u, <3>3 DEF BuffersTrue
      <3> QED BY <1>7, <2>1, <3>2, <3>4
    <2> QED BY <1>9, <2>2, <2>3 DEF BufferMessage
  <1>10. CASE (\E more \in Checkpoints(s, delta) : ApplyEvent(s, delta, more)) /\ UNCHANGED buffers
    <2>1. PICK more \in Checkpoints(s, delta) : ApplyEvent(s, delta, more)
      BY Zenon, <1>10
    <2> QED BY <1>1, <1>6, <1>10, <1>u, <2>1, EventKeeps
  <1> QED BY <1>8, <1>9, <1>10, <1>s, <1>d DEF Receive

\* A snapshot request is answered with a book the exchange had.
LEMMA AnswerSnapshotKeeps ==
    ASSUME DepthInv, NEW s \in Symbols, AnswerSnapshot(s) PROVE DepthInv'
PROOF
  <1>h. PICK h : h = venue[s].history
    BY Zenon
  <1>1. PICK n \in 1..Len(h), view \in Views :
          answer' = <<[last_update_id |-> n, bridged |-> FALSE, known |-> view,
                       quantity |-> [l \in Levels |-> IF l \in view THEN h[n][l] ELSE 0]]>>
    BY Zenon, <1>h DEF AnswerSnapshot, Now
  <1>a. PICK a : a = [last_update_id |-> n, bridged |-> FALSE, known |-> view,
                      quantity |-> [l \in Levels |-> IF l \in view THEN h[n][l] ELSE 0]]
    BY Zenon
  <1>2. h \in Seq(Quantities) /\ Len(h) \in Nat
    BY <1>h DEF DepthInv, CollectorTypeOK
  <1>3. h[n] \in Quantities
    BY Zenon, <1>2, ElementOfSeq
  <1>4. view \subseteq Levels
    BY Zenon, DepthAssumption
  <1>5. a \in Snapshots
    <2>1. [l \in Levels |-> IF l \in view THEN h[n][l] ELSE 0] \in Quantities
      BY Zenon, <1>3 DEF Quantities
    <2>2. n \in Nat
      BY <1>2
    <2> QED BY Zenon, <1>4, <1>a, <2>1, <2>2 DEF Snapshots
  <1>6. Shows(a, h)
    BY Zenon, <1>a DEF Shows
  <1>7. /\ UNCHANGED <<futures, venue, subscribed, requested, wire, phase, held, books, remaining>>
        /\ UNCHANGED <<pending, buffers, draining, faults>> /\ pending = s /\ draining = FALSE
    BY Zenon DEF AnswerSnapshot, exchangeVars, DepthInv, CollectorTypeOK
  <1>8. BooksKept
    BY Zenon, <1>7 DEF DepthInv, BooksKept, BooksTrue, CollectorTypeOK
  <1>9. answer' = <<a>> /\ answer' \in Seq(Snapshots)
    BY <1>1, <1>5, <1>a
  <1>10. AnswerTrue'
    BY <1>6, <1>7, <1>9, <1>h DEF AnswerTrue
  <1>11. BuffersTrue' /\ DrainingTrue' /\ WireTrue'
    BY Zenon, <1>7 DEF DepthInv, BuffersTrue, DrainingTrue, WireTrue
  <1>12. /\ wire' \in Seq([symbol : Symbols, delta : Deltas]) /\ requested' \subseteq Symbols
         /\ pending' \in Symbols \cup {NoSymbol} /\ buffers' \in Seq(Deltas)
    BY <1>7 DEF DepthInv, CollectorTypeOK
  <1>13. draining' \in BOOLEAN
    BY Zenon, <1>7
  <1> QED BY <1>7, <1>8, <1>9, <1>10, <1>11, <1>12, <1>13, PartsKept

\* Only the messages in flight change, and every one of them is still true.
LEMMA WireKeeps ==
    ASSUME DepthInv,
           UNCHANGED <<futures, venue, subscribed, requested, phase, held, books, remaining>>,
           UNCHANGED <<pending, answer, buffers, draining>>, faults' \in Nat,
           wire' \in Seq([symbol : Symbols, delta : Deltas]), WireTrue'
    PROVE  DepthInv'
PROOF
  <1>1. BooksKept
    BY Zenon DEF DepthInv, BooksKept, BooksTrue, CollectorTypeOK
  <1>2. AnswerTrue' /\ BuffersTrue' /\ DrainingTrue'
    BY Zenon DEF DepthInv, AnswerTrue, BuffersTrue, DrainingTrue
  <1>3. /\ requested' \subseteq Symbols /\ pending' \in Symbols \cup {NoSymbol}
        /\ answer' \in Seq(Snapshots) /\ buffers' \in Seq(Deltas) /\ draining' \in BOOLEAN
    BY Zenon DEF DepthInv, CollectorTypeOK
  <1> QED BY <1>1, <1>2, <1>3, PartsKept

\* A lost, repeated or garbled delta leaves only true deltas in flight.
LEMMA DisturbKeeps == ASSUME DepthInv, DisturbStream PROVE DepthInv'
PROOF
  <1>u. /\ UNCHANGED <<futures, venue, subscribed, requested, phase, held, books, remaining>>
        /\ UNCHANGED <<pending, answer, buffers, draining>> /\ faults' \in Nat
    BY Zenon, FaultTyped DEF DisturbStream, exchangeVars, connectionVars
  <1>m. PICK M : M = [symbol : Symbols, delta : Deltas]
    BY Zenon
  <1>w. wire \in Seq(M) /\ wire # <<>> /\ Len(wire) \in Nat
    BY <1>m DEF DisturbStream, DepthInv, CollectorTypeOK
  <1>t. Head(wire) \in M /\ Head(wire) = wire[1] /\ 1 \in 1..Len(wire)
    BY Zenon, <1>w, TailElements
  <1>0. \A i \in 1..Len(wire) : DeltaTrue(wire[i].delta, venue[wire[i].symbol].history)
    BY Zenon DEF DepthInv, WireTrue
  <1>1. CASE wire' = Tail(wire)
    <2>1. /\ wire' \in Seq(M)
          /\ \A i \in 1..Len(wire') : i + 1 \in 1..Len(wire) /\ wire'[i] = wire[i + 1]
      BY <1>1, <1>w, TailElements
    <2>2. WireTrue'
      BY <1>0, <1>u, <2>1 DEF WireTrue
    <2> QED BY <1>m, <1>u, <2>1, <2>2, WireKeeps
  <1>2. CASE wire' = <<Head(wire)>> \o wire
    <2>1. /\ wire' \in Seq(M) /\ Len(wire') = Len(wire) + 1
          /\ wire'[1] = wire[1]
          /\ \A i \in 2..Len(wire) + 1 : wire'[i] = wire[i - 1]
      BY <1>2, <1>w, <1>t
    <2>2. ASSUME NEW i \in 1..Len(wire')
          PROVE  DeltaTrue(wire'[i].delta, venue[wire'[i].symbol].history)
      <3>1. i = 1 \/ (i \in 2..Len(wire) + 1 /\ i - 1 \in 1..Len(wire))
        BY <1>w, <2>1
      <3> QED BY Zenon, <1>0, <1>t, <2>1, <3>1
    <2>3. WireTrue'
      BY Zenon, <1>u, <2>2 DEF WireTrue
    <2> QED BY <1>m, <1>u, <2>1, <2>3, WireKeeps
  <1>3. CASE \E sides \in (SUBSET {"bid", "ask"}) \ {{}} :
                wire' = [wire EXCEPT ![1].delta.repeated = sides]
    <2>1. PICK sides \in SUBSET {"bid", "ask"} : wire' = [wire EXCEPT ![1].delta.repeated = sides]
      BY Zenon, <1>3
    <2>x. PICK x : x = wire[1]
      BY Zenon
    <2>y. PICK y : y = [x EXCEPT !.delta.repeated = sides]
      BY Zenon
    <2>2. x \in M /\ y \in M /\ y.symbol = x.symbol
      BY Zenon, <1>m, <1>t, <2>x, <2>y DEF Deltas
    <2>3. DeltaTrue(y.delta, venue[y.symbol].history)
      <3>1. DeltaTrue(x.delta, venue[x.symbol].history)
        BY Zenon, <1>0, <1>t, <2>x
      <3>2. /\ y.delta.first_update_id = x.delta.first_update_id
            /\ y.delta.last_update_id = x.delta.last_update_id
            /\ y.delta.previous_update_id = x.delta.previous_update_id
            /\ y.delta.changed = x.delta.changed /\ y.delta.quantity = x.delta.quantity
        BY <1>m, <2>2, <2>y DEF Deltas
      <3> QED BY <2>2, <3>1, <3>2 DEF DeltaTrue
    <2>4. wire' = [wire EXCEPT ![1] = y]
      BY <2>1, <2>x, <2>y
    <2>5. /\ wire' \in Seq(M) /\ Len(wire') = Len(wire)
          /\ \A i \in 1..Len(wire) : wire'[i] = IF i = 1 THEN y ELSE wire[i]
      BY <1>t, <1>w, <2>2, <2>4
    <2>6. WireTrue'
      BY Zenon, <1>0, <1>u, <2>3, <2>5 DEF WireTrue
    <2> QED BY <1>m, <1>u, <2>5, <2>6, WireKeeps
  <1> QED BY Zenon, <1>1, <1>2, <1>3 DEF DisturbStream

\* A published delta lists what changed since the one before it.
LEMMA PublishKeeps ==
    ASSUME DepthInv, NEW s \in Symbols, Publish(s) PROVE DepthInv'
PROOF
  <1>v. PICK v : v = venue[s]
    BY Zenon
  <1>h. PICK h : h = v.history
    BY Zenon
  <1>n. PICK n : n = Len(h)
    BY Zenon
  <1>m. PICK M : M = [symbol : Symbols, delta : Deltas]
    BY Zenon
  <1>0. /\ h \in Seq(Quantities) /\ n \in Nat /\ v.published \in 1..n
        /\ v \in [history : Seq(Quantities), published : Nat, touched : SUBSET Levels]
        /\ \A l \in Levels \ v.touched : \A k \in v.published..n : h[k][l] = h[v.published][l]
    <2>1. v \in [history : Seq(Quantities), published : Nat, touched : SUBSET Levels]
      BY Zenon, <1>v DEF DepthInv, CollectorTypeOK
    <2>2. VenueOK(v)
      BY Zenon, <1>v DEF DepthInv
    <2>3. h \in Seq(Quantities) /\ n \in Nat
      BY <1>h, <1>n, <2>1
    <2> QED BY <1>h, <1>n, <2>1, <2>2, <2>3 DEF VenueOK
  <1>1. PICK first \in Firsts(s) :
          LET delta == [first_update_id |-> first, last_update_id |-> n,
                        previous_update_id |-> v.published, changed |-> v.touched,
                        quantity |-> [l \in Levels |->
                            IF l \in v.touched THEN h[n][l] ELSE 0],
                        repeated |-> {}]
          IN  IF s \in subscribed
              THEN wire' = Append(wire, [symbol |-> s, delta |-> delta])
              ELSE wire' = wire
    BY Zenon, <1>v, <1>h, <1>n DEF Publish, Now
  <1>d. PICK delta :
          delta = [first_update_id |-> first, last_update_id |-> n,
                   previous_update_id |-> v.published, changed |-> v.touched,
                   quantity |-> [l \in Levels |-> IF l \in v.touched THEN h[n][l] ELSE 0],
                   repeated |-> {}]
    BY Zenon
  <1>2. first \in v.published + 1 .. n
    BY <1>v, <1>h, <1>n DEF Firsts, Now
  <1>3. n \in 1..n /\ h[n] \in Quantities
    BY <1>0, <1>n, ElementOfSeq
  <1>4. delta \in Deltas
    <2>1. [l \in Levels |-> IF l \in v.touched THEN h[n][l] ELSE 0] \in Quantities
      BY Zenon, <1>3 DEF Quantities
    <2>2. first \in Nat /\ v.published \in Nat /\ v.touched \subseteq Levels
      BY <1>0, <1>2
    <2> QED BY Zenon, <1>0, <1>d, <2>1, <2>2 DEF Deltas
  <1>5. DeltaTrue(delta, h)
    <2>1. /\ delta.first_update_id = first /\ delta.last_update_id = n
          /\ delta.previous_update_id = v.published /\ delta.changed = v.touched
          /\ \A l \in v.touched : delta.quantity[l] = h[n][l]
      BY Zenon, <1>0, <1>d
    <2> QED BY <1>0, <1>2, <1>n, <2>1 DEF DeltaTrue
  <1>6. /\ venue'[s] = [v EXCEPT !.published = n, !.touched = {}]
        /\ \A r \in Symbols : r # s => venue'[r] = venue[r]
        /\ venue' \in [Symbols -> [history : Seq(Quantities), published : Nat,
                                   touched : SUBSET Levels]]
    BY Zenon, <1>0, <1>v, <1>h, <1>n DEF Publish, Now, DepthInv, CollectorTypeOK
  <1>7. \A r \in Symbols : venue'[r].history = venue[r].history
    BY Zenon, <1>0, <1>6, <1>v
  <1>8. ASSUME NEW r \in Symbols PROVE VenueOK(venue[r])'
    <2>1. CASE r # s
      BY <1>6, <2>1 DEF DepthInv, VenueOK
    <2>2. CASE r = s
      <3>1. venue'[s].published = n /\ venue'[s].history = h /\ venue'[s].touched = {}
        BY Zenon, <1>0, <1>6, <1>h
      <3>2. \A k \in n..n : k = n
        BY <1>0
      <3> QED BY Zenon, <1>3, <1>n, <2>2, <3>1, <3>2 DEF VenueOK
    <2> QED BY Zenon, <2>1, <2>2
  <1>9. wire \in Seq(M) /\ [symbol |-> s, delta |-> delta] \in M
    BY Zenon, <1>4, <1>m DEF DepthInv, CollectorTypeOK
  <1>10. wire' \in Seq(M) /\ WireTrue'
    <2>0. ASSUME NEW i \in 1..Len(wire)
          PROVE  DeltaTrue(wire[i].delta, venue'[wire[i].symbol].history)
      <3>1. wire[i] \in M
        BY Zenon, <1>9, ElementOfSeq
      <3>2. wire[i].symbol \in Symbols
        BY Zenon, <1>m, <3>1
      <3> QED BY Zenon, <1>7, <3>2 DEF DepthInv, WireTrue
    <2>1. CASE wire' = wire
      BY Zenon, <1>9, <2>0, <2>1 DEF WireTrue
    <2>2. CASE wire' = Append(wire, [symbol |-> s, delta |-> delta])
      <3>1. /\ wire' \in Seq(M) /\ Len(wire') = Len(wire) + 1 /\ Len(wire) \in Nat
            /\ \A i \in 1..Len(wire) : wire'[i] = wire[i]
            /\ wire'[Len(wire) + 1] = [symbol |-> s, delta |-> delta]
        BY <1>9, <2>2
      <3>2. DeltaTrue(delta, venue'[s].history)
        BY Zenon, <1>5, <1>7, <1>h, <1>v
      <3> QED BY <2>0, <3>1, <3>2 DEF WireTrue
    <2> QED BY <1>1, <1>d, <2>1, <2>2
  <1>11. /\ UNCHANGED <<futures, subscribed, requested, phase, held, books, remaining>>
         /\ UNCHANGED <<pending, answer, buffers, draining, faults>>
    BY Zenon DEF Publish, connectionVars
  <1>12. CollectorTypeOK'
    BY Zenon, <1>6, <1>10, <1>11, <1>m DEF DepthInv, CollectorTypeOK
  <1>13. BuffersTrue'
    BY <1>7, <1>11 DEF DepthInv, BuffersTrue
  <1>14. AnswerTrue' /\ DrainingTrue'
    BY <1>7, <1>11 DEF DepthInv, AnswerTrue, DrainingTrue
  <1>15. BooksTrue'
    BY Zenon, <1>7, <1>11 DEF DepthInv, BooksTrue, CollectorTypeOK
  <1> QED BY <1>8, <1>10, <1>12, <1>13, <1>14, <1>15 DEF DepthInv

\* Every step keeps the invariant.
LEMMA DepthStep == ASSUME DepthInv, [Next]_vars PROVE DepthInv'
PROOF
  <1>1. CASE UNCHANGED vars
    <2>1. UNCHANGED <<futures, venue, subscribed, requested, wire, phase, held, books,
                      remaining, pending, answer, buffers, draining, faults>>
      BY Zenon, <1>1 DEF vars, exchangeVars, connectionVars
    <2> QED BY Zenon, <2>1, QuietKeeps, Typed
  <1>2. CASE Exchange
    BY <1>2, UpdateKeeps, PublishKeeps, SubscribeKeeps, AnswerSnapshotKeeps DEF Exchange
  <1>3. CASE Collector
    BY <1>3, PickPendingKeeps, TakeSnapshotKeeps, DrainBufferKeeps, ReceiveKeeps,
       SupervisorKeeps, EndKeeps DEF Collector
  <1>4. CASE DisturbStream \/ Start \/ Close \/ Die
    BY <1>4, DisturbKeeps, SupervisorKeeps, EndKeeps
  <1> QED BY <1>1, <1>2, <1>3, <1>4 DEF Next

\* "Apply absolute-quantity depth updates and fail closed on sequence gaps": in
\* every run of the collector, a live book shows the exchange's book.
THEOREM CollectorBooksTrue == Spec => []BooksTrue
PROOF
  <1>1. Init => DepthInv
    BY Zenon, DepthStarts
  <1>2. DepthInv /\ [Next]_vars => DepthInv'
    BY Zenon, DepthStep
  <1>3. DepthInv => BooksTrue
    BY Zenon DEF DepthInv
  <1> QED BY <1>1, <1>2, <1>3, PTL DEF Spec
=============================================================================
