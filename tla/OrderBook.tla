------------------------------ MODULE OrderBook ------------------------------
(* The sequence-aware book of exchange/order_book.py: ReadOnlyOrderBook and   *)
(* its two operations, apply_snapshot and apply_delta, as functions of the    *)
(* book and the message.                                                      *)
(*                                                                            *)
(* A level is a side and a price; the book gives every level a quantity and   *)
(* the quantity 0 stands for a level that is not in the dictionary. Only      *)
(* "equal", "different" and "zero" matter to a quantity, so it is a natural.  *)
(* Event times are left out: they move with the sequence ids of one stream.   *)
(* The field known is no field of the code: it remembers which levels a       *)
(* snapshot or a delta has shown, so that a property can tell a level the     *)
(* exchange emptied from one the limited snapshot never reached.              *)
EXTENDS Naturals, FiniteSets

CONSTANTS
    Levels,             \* levels, records [side |-> "bid" or "ask", price |-> n]
    MaximumLevels       \* maximum_levels: the largest number of levels of a side

ASSUME BookAssumption ==
    /\ Levels \subseteq [side : {"bid", "ask"}, price : Nat]
    /\ MaximumLevels \in Nat \ {0}

BookState == {"EMPTY", "LIVE", "GAP_DETECTED", "DEGRADED"}

Quantities == [Levels -> Nat]

\* futures_sequence: how the deltas of the book's market are chained.
Books == [futures_sequence : BOOLEAN, state : BookState, last_update_id : Nat,
          bridged : BOOLEAN, quantity : Quantities, known : SUBSET Levels]

Snapshots == [last_update_id : Nat, bridged : BOOLEAN,
              quantity : Quantities, known : SUBSET Levels]

\* changed: the levels the delta lists, quantity: their new absolute quantities,
\* repeated: the sides that list a price twice.
Deltas == [first_update_id : Nat, last_update_id : Nat, previous_update_id : Nat,
           changed : SUBSET Levels, quantity : Quantities,
           repeated : SUBSET {"bid", "ask"}]

NewBook(futures) ==
    [futures_sequence |-> futures, state |-> "EMPTY", last_update_id |-> 0,
     bridged |-> FALSE, quantity |-> [l \in Levels |-> 0], known |-> {}]

Side(quantity, side) == {l \in Levels : l.side = side /\ quantity[l] > 0}

(* _validate_and_observe. *)
ValidQuantities(quantity) ==
    LET bids == Side(quantity, "bid")
        asks == Side(quantity, "ask")
    IN  /\ bids # {} /\ asks # {}
        /\ Cardinality(bids) <= MaximumLevels
        /\ Cardinality(asks) <= MaximumLevels
        /\ \A b \in bids, a \in asks : b.price < a.price

Validated(book) ==
    [book EXCEPT !.state = IF ValidQuantities(book.quantity) THEN "LIVE" ELSE "DEGRADED"]

ApplySnapshot(book, snapshot) ==
    Validated([book EXCEPT !.last_update_id = snapshot.last_update_id,
                           !.bridged = snapshot.bridged,
                           !.quantity = snapshot.quantity,
                           !.known = snapshot.known])

(* _apply_side: a listed level takes the listed quantity, zero removes it. *)
ApplySide(book, delta, sides) ==
    LET applied == {l \in delta.changed : l.side \in sides}
    IN  [book EXCEPT !.quantity = [l \in Levels |->
                                     IF l \in applied THEN delta.quantity[l] ELSE @[l]],
                     !.known = @ \cup applied]

(* The next sequence id the book waits for, and whether a delta continues it. *)
Expected(book) ==
    IF book.futures_sequence /\ ~book.bridged THEN book.last_update_id
                                        ELSE book.last_update_id + 1

\* Mutant: a delta may begin one id too late.
ContinuesLate(book, delta) ==
    IF book.futures_sequence /\ book.bridged
    THEN delta.previous_update_id = book.last_update_id
    ELSE delta.first_update_id <= Expected(book) + 1 /\ Expected(book) <= delta.last_update_id

Continues(book, delta) ==
    IF book.futures_sequence /\ book.bridged
    THEN delta.previous_update_id = book.last_update_id
    ELSE delta.first_update_id <= Expected(book) /\ Expected(book) <= delta.last_update_id

(* apply_delta: the outcome, and the book it leaves. A repeated price raises  *)
(* when its side is reached, so the asks may raise with the bids applied.     *)
DeltaOutcome(book, delta) ==
    IF book.state # "LIVE" THEN "SNAPSHOT_REQUIRED"
    ELSE IF delta.last_update_id < Expected(book) THEN "OLD"
    ELSE IF ~Continues(book, delta) THEN "GAP"
    ELSE IF delta.repeated # {} THEN "RAISED"
    ELSE "APPLIED"

ApplyDelta(book, delta) ==
    LET outcome == DeltaOutcome(book, delta)
    IN  CASE outcome = "GAP" -> [book EXCEPT !.state = "GAP_DETECTED"]
          [] outcome = "RAISED" ->
                IF "bid" \in delta.repeated THEN book ELSE ApplySide(book, delta, {"bid"})
          [] outcome = "APPLIED" ->
                Validated([ApplySide(book, delta, {"bid", "ask"}) EXCEPT
                             !.last_update_id = delta.last_update_id,
                             !.bridged = TRUE])
          [] OTHER -> book
=============================================================================
