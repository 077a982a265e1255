---------------------------- MODULE EventJournal ----------------------------
(***************************************************************************)
(* The append-only journal of events/journal.py (DiskEventJournal): one    *)
(* JSON-lines file shared by several journal instances, each of which      *)
(* caches the validated tail of the file between two appends.              *)
(*                                                                         *)
(* Every public operation runs under an in-process lock and a file lock    *)
(* (_synchronized), so it is one step here.  What breaks that atomicity is *)
(* kept: an append may be cut short by an I/O error or by the death of its *)
(* process, and the record is then absent, torn, or complete on disk.      *)
(*                                                                         *)
(* Abstractions: event type, aggregate and payload are part of the         *)
(* identity of an event; the file's change signature is its size; the byte *)
(* limits of a record and of the file are one bound on the record count.   *)
(***************************************************************************)
EXTENDS Integers, Sequences

CONSTANTS
    Writers,         \* journal instances, one per process
    EventIds,        \* event identities
    Times,           \* occurred_at timestamps
    Capacity,        \* _capacity: how many records the journal may hold
    HasChangeToken   \* whether the platform yields a file change token

ASSUME JournalAssumption ==
    /\ Times \subseteq Nat
    /\ Capacity \in Nat \ {0}
    /\ HasChangeToken \in BOOLEAN

VARIABLES
    disk,            \* the complete records of the file, in file order
    torn,            \* the file ends in a partial record
    tail,            \* tail[w]: the append state instance w holds (_append_state)
    checkpoint       \* the checkpoint file: <<>>, or <<[sequence, event_hash]>>

journalVars == <<disk, torn, tail, checkpoint>>

-----------------------------------------------------------------------------
(* Events and their hash chain.                                            *)

\* A digest stands for the content it commits to: it is the contents of the
\* event and of all the events before it.  The digest of nothing is Genesis.
Digest == Seq(EventIds \X Nat \X Times)

Genesis == <<>>

Event == [event_id : EventIds, sequence : Nat, occurred_at : Times,
          previous_hash : Digest]

JournalCheckpoint == [sequence : Nat \ {0}, event_hash : Digest]

EventHash(e) == Append(e.previous_hash, <<e.event_id, e.sequence, e.occurred_at>>)

\* The hash the successor of a history must name.
TailHash(events) ==
    IF events = <<>> THEN Genesis ELSE EventHash(events[Len(events)])

\* Mutant: a repeated identity is let through.
ValidateNextEventAnyId(events, e, capacity) ==
    /\ Len(events) < capacity
    /\ e.sequence = Len(events) + 1
    /\ e.previous_hash = TailHash(events)
    /\ events # <<>> => events[Len(events)].occurred_at <= e.occurred_at

ValidateNextEvent(events, e, capacity) ==
    /\ Len(events) < capacity
    /\ \A i \in 1..Len(events) : events[i].event_id # e.event_id
    /\ e.sequence = Len(events) + 1
    /\ e.previous_hash = TailHash(events)
    /\ events # <<>> => events[Len(events)].occurred_at <= e.occurred_at

-----------------------------------------------------------------------------
(* The cached tail.  seen is the history the count, the identities and the *)
(* latest event of _JournalAppendState summarise.                          *)

NoTail == [held |-> FALSE, seen |-> <<>>, signature |-> 0]

TailOf(events, size) == [held |-> TRUE, seen |-> events, signature |-> size]

\* Size of the file: each record counts 2, so that a partial one shows.
FileSignature == 2 * Len(disk) + (IF torn THEN 1 ELSE 0)

ReusesTail(w) ==
    HasChangeToken /\ tail[w].held /\ tail[w].signature = FileSignature

\* Mutant: a torn file does not stop an append.
CanValidateTorn(w) == TRUE

\* The state against which w validates its next append.  A torn file that is
\* not shielded by a reusable tail makes the load raise: no state at all.
CanValidate(w) == ReusesTail(w) \/ ~torn

AppendState(w) == IF ReusesTail(w) THEN tail[w].seen ELSE disk

-----------------------------------------------------------------------------
(* Operations.                                                             *)

AppendEvent(w, e) ==
    /\ CanValidate(w)
    /\ ValidateNextEvent(AppendState(w), e, Capacity)
    /\ disk' = Append(disk, e)
    /\ tail' = [tail EXCEPT ![w] = TailOf(Append(AppendState(w), e),
                                        FileSignature + 2)]
    /\ UNCHANGED <<torn, checkpoint>>

\* The validation refuses the event: nothing is written, the tail just read
\* is kept.
RefuseEvent(w, e) ==
    /\ CanValidate(w)
    /\ ~ValidateNextEvent(AppendState(w), e, Capacity)
    /\ tail' = [tail EXCEPT ![w] = TailOf(AppendState(w), FileSignature)]
    /\ UNCHANGED <<disk, torn, checkpoint>>

\* write, flush or fsync raises, or the process dies in one of them.  The tail
\* is not updated, and is gone if the process died.
InterruptAppend(w, e) ==
    /\ CanValidate(w)
    /\ ValidateNextEvent(AppendState(w), e, Capacity)
    /\ \/ UNCHANGED <<disk, torn>>
       \/ torn' = TRUE /\ UNCHANGED disk
       \/ disk' = Append(disk, e) /\ UNCHANGED torn
    /\ \E kept \in {TailOf(AppendState(w), FileSignature), NoTail} :
          tail' = [tail EXCEPT ![w] = kept]
    /\ UNCHANGED checkpoint

\* load, or any operation that must load, meets a partial final record.
LoadTorn(w) ==
    /\ torn
    /\ tail' = [tail EXCEPT ![w] = NoTail]
    /\ UNCHANGED <<disk, torn, checkpoint>>

LoadJournal(w) ==
    /\ ~torn
    /\ tail' = [tail EXCEPT ![w] = TailOf(disk, FileSignature)]
    /\ UNCHANGED <<disk, torn, checkpoint>>

\* The checkpoint file is replaced atomically by one naming the last event.
WriteCheckpoint(w) ==
    /\ ~torn
    /\ disk # <<>>
    /\ checkpoint' = <<[sequence |-> Len(disk), event_hash |-> TailHash(disk)]>>
    /\ tail' = [tail EXCEPT ![w] = TailOf(disk, FileSignature)]
    /\ UNCHANGED <<disk, torn>>

\* What recover accepts as a checkpoint of this history.
CheckpointMatches(cp, events) ==
    cp # <<>> =>
       /\ cp[1].sequence <= Len(events)
       /\ EventHash(events[cp[1].sequence]) = cp[1].event_hash

\* A new instance on the same path.
Reopen(w) ==
    /\ tail' = [tail EXCEPT ![w] = NoTail]
    /\ UNCHANGED <<disk, torn, checkpoint>>

-----------------------------------------------------------------------------
JournalInit ==
    /\ disk = <<>>
    /\ torn = FALSE
    /\ tail = [w \in Writers |-> NoTail]
    /\ checkpoint = <<>>

\* What callers may offer: any identity, time and sequence, chained to any
\* event they may have seen.
Offered == [event_id : EventIds, sequence : 1..(Capacity + 1), occurred_at : Times,
            previous_hash : {Genesis} \cup {EventHash(disk[i]) : i \in 1..Len(disk)}]

JournalNext ==
    \E w \in Writers :
       \/ \E e \in Offered : AppendEvent(w, e)
       \/ \E e \in Offered : RefuseEvent(w, e)
       \/ \E e \in Offered : InterruptAppend(w, e)
       \/ LoadTorn(w)
       \/ LoadJournal(w)
       \/ WriteCheckpoint(w)
       \/ Reopen(w)

JournalSpec == JournalInit /\ [][JournalNext]_journalVars

-----------------------------------------------------------------------------
(* Properties.                                                             *)

TailType == [held : BOOLEAN, seen : Seq(Event), signature : Nat]

\* Every variable holds a value of its kind.
JournalTypeOK ==
    /\ disk \in Seq(Event)
    /\ torn \in BOOLEAN
    /\ tail \in [Writers -> TailType]
    /\ checkpoint \in Seq(JournalCheckpoint)

\* A history load accepts: contiguous, hash-linked, without a repeated
\* identity, with times that never step back.
IsChain(events) ==
    /\ \A i \in 1..Len(events) :
          /\ events[i].sequence = i
          /\ events[i].previous_hash =
                IF i = 1 THEN Genesis ELSE EventHash(events[i - 1])
    /\ \A i, j \in 1..Len(events) :
          i < j => /\ events[i].event_id # events[j].event_id
                   /\ events[i].occurred_at <= events[j].occurred_at

\* The complete records on disk always form a valid chain, whatever the other
\* instances wrote between this instance's appends, whichever append was cut
\* short, and however often an ambiguous append is retried: no event identity
\* is ever stored twice.
ChainIntact == IsChain(disk) /\ Len(disk) <= Capacity

\* The fast path of append is sound: a cached tail that passes the signature
\* test summarises exactly the records that are on disk, and nothing torn.
TailCoherent ==
    \A w \in Writers : ReusesTail(w) => tail[w].seen = disk /\ ~torn

\* Every cached tail, reusable or not, is a beginning of the file, and its
\* signature is the size of that beginning.
TailIsPrefix ==
    \A w \in Writers : tail[w].held =>
       /\ tail[w].signature = 2 * Len(tail[w].seen)
       /\ Len(tail[w].seen) <= Len(disk)
       /\ \A i \in 1..Len(tail[w].seen) : tail[w].seen[i] = disk[i]

\* The checkpoint file always names an event of the chain, so the checkpoint
\* tests of recover can fail only when a file was altered from outside.
CheckpointOnChain == CheckpointMatches(checkpoint, disk)

\* A step of the journal adds at most one record behind the others, and none
\* once the file is torn: what was read stays readable, and nothing is ever
\* written behind a partial record.
AppendOnly ==
    [][ \/ disk' = disk
        \/ ~torn /\ Len(disk') = Len(disk) + 1
                 /\ \A i \in 1..Len(disk) : disk'[i] = disk[i] ]_journalVars

\* The inductive invariant.
JournalInv == JournalTypeOK /\ ChainIntact /\ TailIsPrefix /\ CheckpointOnChain
=============================================================================
