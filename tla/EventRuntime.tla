---------------------------- MODULE EventRuntime ----------------------------
(***************************************************************************)
(* JournaledEventRuntime (events/journal.py) over the journal, the         *)
(* in-memory bus (events/bus.py) and the durable consumer checkpoints      *)
(* (events/delivery.py): several processes share one journal file and the  *)
(* checkpoint files of its consumers.                                      *)
(*                                                                         *)
(* A call of publish or subscribe_durable is not atomic: the file lock of  *)
(* the journal is released before the lock of a consumer is taken, and     *)
(* each consumer has a lock of its own.  A call is therefore a sequence of *)
(* steps: append (with the bus, which is private to the process), load,    *)
(* one test per consumer under its lock, and one step per handled event.   *)
(* A process may die between any two steps.  The in-process lock of the    *)
(* runtime admits one call at a time.                                      *)
(*                                                                         *)
(* Abstractions: ephemeral bus subscribers leave no state behind and the   *)
(* failures a call collects only reach its caller, so both are left out.   *)
(* Handlers do not call back into the runtime.                             *)
(***************************************************************************)
EXTENDS EventJournal, FiniteSetsExt

CONSTANTS
    Consumers,       \* durable consumer identities, ordered as their names
    BusCapacity      \* capacity of the bus a runtime opens

ASSUME RuntimeAssumption ==
    /\ Consumers \subseteq Nat
    /\ BusCapacity \in Nat \ {0}

VARIABLES
    up,              \* up[p]: the process runs an opened runtime
    bus,             \* bus[p]: the events of its in-memory bus
    registered,      \* registered[p]: its durable consumers
    call,            \* call[p]: the publish or subscribe_durable call in progress
    cursor,          \* cursor[c]: the checkpoint file of consumer c
    handled,         \* handled[c]: the events c's handler has run on, in first-run order
    blamed           \* consumers whose checkpoint was reported as corrupt

runtimeVars == <<up, bus, registered, call, cursor, handled, blamed>>

vars == <<journalVars, runtimeVars>>

-----------------------------------------------------------------------------
(* Calls.  step says what the call does next; event is what publish        *)
(* dispatches and previous the event before it on the bus; history is the  *)
(* loaded journal once known; todo are the consumers still to be served    *)
(* and at is the one whose lock is held during "handle".                   *)

Steps == {"idle", "load", "dispatch", "handle"}

Idle == [step |-> "idle", subscribing |-> FALSE, committed |-> FALSE,
         event |-> <<>>, previous |-> Genesis, known |-> FALSE, history |-> <<>>,
         todo |-> {}]

At(p) == Min(call[p].todo)

Locked(c) == \E q \in Writers : call[q].step = "handle" /\ At(q) = c

\* The call is through with its current consumer.
Served(k) ==
    IF k.todo = {Min(k.todo)} THEN Idle
    ELSE [k EXCEPT !.step = "dispatch", !.todo = @ \ {Min(@)}]

Serve(p) == call' = [call EXCEPT ![p] = Served(call[p])]

\* A consumer is registered when its subscribe_durable call went through.
Register(p) ==
    registered' = IF call[p].subscribing
                  THEN [registered EXCEPT ![p] = @ \cup call[p].todo]
                  ELSE registered

-----------------------------------------------------------------------------
(* Opening and losing a process.                                           *)

Open(p) ==
    /\ ~up[p]
    /\ ~torn
    /\ CheckpointMatches(checkpoint, disk)
    /\ Len(disk) <= BusCapacity
    /\ up' = [up EXCEPT ![p] = TRUE]
    /\ bus' = [bus EXCEPT ![p] = disk]
    /\ tail' = [tail EXCEPT ![p] = TailOf(disk, FileSignature)]
    /\ UNCHANGED <<disk, torn, checkpoint, registered, call, cursor, handled, blamed>>

\* recover or the replay into the bus raises: there is no runtime.
OpenFails(p) ==
    /\ ~up[p]
    /\ \/ torn
       \/ ~CheckpointMatches(checkpoint, disk)
       \/ Len(disk) > BusCapacity
    /\ tail' = [tail EXCEPT ![p] = NoTail]
    /\ UNCHANGED <<disk, torn, checkpoint, runtimeVars>>

Crash(p) ==
    /\ up[p]
    /\ up' = [up EXCEPT ![p] = FALSE]
    /\ bus' = [bus EXCEPT ![p] = <<>>]
    /\ registered' = [registered EXCEPT ![p] = {}]
    /\ call' = [call EXCEPT ![p] = Idle]
    /\ tail' = [tail EXCEPT ![p] = NoTail]
    /\ UNCHANGED <<disk, torn, checkpoint, cursor, handled, blamed>>

-----------------------------------------------------------------------------
(* publish, up to its consumers.                                           *)

Ready(p) == up[p] /\ call[p].step = "idle"

\* Mutant: the bus takes whatever the journal took.
BusAcceptsAny(p, e) == TRUE

BusAccepts(p, e) == ValidateNextEvent(bus[p], e, BusCapacity)

PublishCall(p, e) ==
    [step |-> IF BusAccepts(p, e) THEN "dispatch" ELSE "load",
     subscribing |-> FALSE, committed |-> BusAccepts(p, e), event |-> <<e>>,
     previous |-> TailHash(bus[p]), known |-> FALSE, history |-> <<>>,
     todo |-> registered[p]]

Publish(p, e) ==
    /\ Ready(p)
    /\ AppendEvent(p, e)
    /\ bus' = IF BusAccepts(p, e) THEN [bus EXCEPT ![p] = Append(@, e)] ELSE bus
    /\ call' = [call EXCEPT ![p] =
                  IF registered[p] = {} THEN Idle ELSE PublishCall(p, e)]
    /\ UNCHANGED <<up, registered, cursor, handled, blamed>>

\* The append raises: the caller is told, the bus and the consumers are not.
PublishFails(p, e) ==
    /\ Ready(p)
    /\ RefuseEvent(p, e) \/ InterruptAppend(p, e)
    /\ UNCHANGED runtimeVars

\* The journal is read in full, for a bus that refused the event or for a
\* consumer that lags.
LoadHistory(p) ==
    /\ call[p].step = "load"
    /\ LoadJournal(p)
    /\ call' = [call EXCEPT ![p] = [@ EXCEPT !.step = "dispatch", !.known = TRUE,
                                            !.history = disk]]
    /\ UNCHANGED <<up, bus, registered, cursor, handled, blamed>>

\* Mutant: a load that raises is tried again.
LoadHistoryRetries(p) ==
    /\ call[p].step = "load"
    /\ LoadTorn(p)
    /\ UNCHANGED runtimeVars

\* The load raises: only the lagging consumer is skipped if the bus has the
\* event, and every consumer if it does not.
LoadHistoryFails(p) ==
    /\ call[p].step = "load"
    /\ LoadTorn(p)
    /\ IF call[p].committed THEN Serve(p)
       ELSE call' = [call EXCEPT ![p] = Idle]
    /\ UNCHANGED <<up, bus, registered, cursor, handled, blamed>>

\* Mutant: the consumer is registered without being caught up.
SubscribeOnly(p, c) ==
    /\ Ready(p)
    /\ c \notin registered[p]
    /\ LoadJournal(p)
    /\ registered' = [registered EXCEPT ![p] = @ \cup {c}]
    /\ UNCHANGED <<up, bus, call, cursor, handled, blamed>>

CatchUpCall(c) ==
    [step |-> "dispatch", subscribing |-> TRUE, committed |-> FALSE,
     event |-> <<>>, previous |-> Genesis, known |-> TRUE, history |-> disk,
     todo |-> {c}]

\* subscribe_durable: a consumer this runtime does not have yet is caught up
\* from the journal first.
Subscribe(p, c) ==
    /\ Ready(p)
    /\ c \notin registered[p]
    /\ LoadJournal(p)
    /\ call' = [call EXCEPT ![p] = CatchUpCall(c)]
    /\ UNCHANGED <<up, bus, registered, cursor, handled, blamed>>

-----------------------------------------------------------------------------
(* One consumer, under its lock.  cursor[c].sequence = 0 is "no file".     *)

NoCursor == [sequence |-> 0, event_hash |-> Genesis]

CursorAt(e) == [sequence |-> e.sequence, event_hash |-> EventHash(e)]

Dispatching(p) ==
    /\ call[p].step = "dispatch"
    /\ ~Locked(At(p))

\* Mutant: a lagging consumer is given the newest event at once.
ContiguousOrLagging(k, cp) == cp.sequence < k.event[1].sequence

\* deliver_next: the checkpoint is that of the event before the published one.
Contiguous(k, cp) ==
    /\ cp.sequence = k.event[1].sequence - 1
    /\ cp.sequence = 0 \/ /\ k.previous # Genesis
                          /\ cp.event_hash = k.previous
                          /\ k.event[1].previous_hash = k.previous

BeginHandling(p) ==
    /\ call' = [call EXCEPT ![p].step = "handle"]
    /\ UNCHANGED <<registered, blamed>>

DeliverNext(p) ==
    /\ Dispatching(p)
    /\ ~call[p].known
    /\ LET cp == cursor[At(p)]
           e == call[p].event[1]
       IN  \/ /\ cp.sequence = e.sequence       \* another process delivered it
              /\ Serve(p)
              /\ blamed' = IF cp = CursorAt(e) THEN blamed ELSE blamed \cup {At(p)}
              /\ UNCHANGED registered
           \/ /\ Contiguous(call[p], cp)
              /\ BeginHandling(p)
           \/ /\ cp.sequence # e.sequence       \* the consumer lags
              /\ ~Contiguous(call[p], cp)
              /\ call' = [call EXCEPT ![p].step = "load"]
              /\ UNCHANGED <<registered, blamed>>
    /\ UNCHANGED <<journalVars, up, bus, cursor, handled>>

\* deliver_pending: the checkpoint must be that of an event of the history.
OnHistory(cp, history) ==
    cp.sequence > 0 => /\ cp.sequence <= Len(history)
                       /\ CursorAt(history[cp.sequence]) = cp

DeliverPending(p) ==
    /\ Dispatching(p)
    /\ call[p].known
    /\ LET cp == cursor[At(p)]
           history == call[p].history
       IN  \/ /\ ~OnHistory(cp, history)        \* reported as corrupt
              /\ Serve(p)
              /\ blamed' = blamed \cup {At(p)}
              /\ UNCHANGED registered
           \/ /\ OnHistory(cp, history)
              /\ cp.sequence = Len(history)     \* nothing pending
              /\ Serve(p)
              /\ Register(p)
              /\ UNCHANGED blamed
           \/ /\ OnHistory(cp, history)
              /\ cp.sequence < Len(history)
              /\ BeginHandling(p)
    /\ UNCHANGED <<journalVars, up, bus, cursor, handled>>

\* Mutant: only the newest event of the history is delivered.
InHandNewest(p) ==
    IF call[p].known THEN call[p].history[Len(call[p].history)]
    ELSE call[p].event[1]

\* The event the loop of deliver_pending, or deliver_next, has in hand.
InHand(p) ==
    IF call[p].known THEN call[p].history[cursor[At(p)].sequence + 1]
    ELSE call[p].event[1]

RunHandler(c, e) ==
    handled' = IF e.sequence <= Len(handled[c]) THEN handled
               ELSE [handled EXCEPT ![c] = Append(@, e)]

\* The handler returns and the checkpoint is replaced.
Handle(p) ==
    /\ call[p].step = "handle"
    /\ LET c == At(p)
           e == InHand(p)
       IN  /\ RunHandler(c, e)
           /\ cursor' = [cursor EXCEPT ![c] = CursorAt(e)]
           /\ IF call[p].known /\ e.sequence < Len(call[p].history)
              THEN UNCHANGED <<call, registered>>
              ELSE Serve(p) /\ Register(p)
    /\ UNCHANGED <<journalVars, up, bus, blamed>>

\* Mutant: the checkpoint is written before the handler runs.
HandleFailsLate(p) ==
    /\ call[p].step = "handle"
    /\ RunHandler(At(p), InHand(p)) \/ UNCHANGED handled
    /\ cursor' = [cursor EXCEPT ![At(p)] = CursorAt(InHand(p))]
    /\ Serve(p)
    /\ UNCHANGED <<journalVars, up, bus, registered, blamed>>

\* The handler raises, before or after its effect, or the checkpoint cannot be
\* written: this consumer is given up for this call.
HandleFails(p) ==
    /\ call[p].step = "handle"
    /\ RunHandler(At(p), InHand(p)) \/ UNCHANGED handled
    /\ Serve(p)
    /\ UNCHANGED <<journalVars, up, bus, registered, cursor, blamed>>

-----------------------------------------------------------------------------
Init ==
    /\ JournalInit
    /\ up = [p \in Writers |-> FALSE]
    /\ bus = [p \in Writers |-> <<>>]
    /\ registered = [p \in Writers |-> {}]
    /\ call = [p \in Writers |-> Idle]
    /\ cursor = [c \in Consumers |-> NoCursor]
    /\ handled = [c \in Consumers |-> <<>>]
    /\ blamed = {}

Continue(p) ==
    LoadHistory(p) \/ LoadHistoryFails(p) \/ DeliverNext(p) \/ DeliverPending(p)
       \/ Handle(p) \/ HandleFails(p)

Next ==
    \E p \in Writers :
       \/ Open(p)
       \/ OpenFails(p)
       \/ Crash(p)
       \/ \E e \in Offered : Publish(p, e)
       \/ \E e \in Offered : PublishFails(p, e)
       \/ \E c \in Consumers : Subscribe(p, c)
       \/ Continue(p)

Spec == Init /\ [][Next]_vars

\* Every call goes on until it returns: its process is scheduled, handlers
\* return, and a waiter for a consumer lock that is released again and again
\* gets it.
CallFairness == \A p \in Writers : SF_vars(Continue(p))

\* Besides, a process that is down is opened again, its application
\* subscribes its consumers, and a handler that is run again and again on the
\* same event succeeds at last.
RestartFairness ==
    \A p \in Writers :
       /\ WF_vars(Open(p))
       /\ SF_vars(Handle(p))
       /\ \A c \in Consumers : SF_vars(Subscribe(p, c))

-----------------------------------------------------------------------------
(* Properties.                                                             *)

CallType ==
    [step : Steps, subscribing : BOOLEAN, committed : BOOLEAN, event : Seq(Event),
     previous : Digest, known : BOOLEAN, history : Seq(Event),
     todo : SUBSET Consumers]

\* Every variable holds a value of its kind.
RuntimeTypeOK ==
    /\ up \in [Writers -> BOOLEAN]
    /\ bus \in [Writers -> Seq(Event)]
    /\ registered \in [Writers -> SUBSET Consumers]
    /\ call \in [Writers -> CallType]
    /\ cursor \in [Consumers -> [sequence : Nat, event_hash : Digest]]
    /\ handled \in [Consumers -> Seq(Event)]
    /\ blamed \in SUBSET Consumers

IsBeginning(s, t) ==
    Len(s) <= Len(t) /\ \A i \in 1..Len(s) : s[i] = t[i]

\* Persist first: what a process shows on its bus, and what a call works on,
\* is a beginning of the journal on disk, whatever other processes publish and
\* whichever append failed after the record was written.
BusIsJournaled ==
    \A p \in Writers : IsBeginning(bus[p], disk) /\ IsBeginning(call[p].history, disk)

\* A consumer's checkpoint always names an event of the journal, so no
\* sequence of crashes makes the recorded progress untrustworthy.
CursorOnJournal == \A c \in Consumers : OnHistory(cursor[c], disk)

\* Handlers see the journal's events in order, without gap or reordering, even
\* when processes take turns on one consumer, crash, or lag behind.
HandledInOrder == \A c \in Consumers : IsBeginning(handled[c], disk)

\* At least once, and almost once: nothing is acknowledged that the handler has
\* not run on, and only the single event behind the checkpoint can be run again.
OneInDoubt ==
    \A c \in Consumers :
       Len(handled[c]) \in cursor[c].sequence .. cursor[c].sequence + 1

\* A consumer's progress never goes back.
CursorMonotone ==
    [][\A c \in Consumers : cursor'[c].sequence >= cursor[c].sequence]_vars

\* The runtime keeps the promise of DurableTopic.
Topic == INSTANCE DurableTopic WITH
            log <- disk,
            acked <- [c \in Consumers |-> cursor[c].sequence],
            handed <- [c \in Consumers |-> Len(handled[c])]

IsDurableTopic == Topic!Spec

\* Every publish and every subscribe_durable call returns (or dies with its
\* process): waiting for consumer locks never locks two processes up.
CallsReturn == \A p \in Writers : call[p].step # "idle" ~> call[p].step = "idle"

\* If the journal is never torn and the processes are restarted again and
\* again, every consumer is brought to every event: a delivery that failed is
\* made up for by the next subscription, so again and again a consumer has
\* nothing before it.
PendingDelivered ==
    []~torn /\ (\A p \in Writers : []<>~up[p]) =>
       \A c \in Consumers : []<>(cursor[c].sequence = Len(disk))

\* The documented meaning of DurableEventCheckpointCorruptionError, "durable
\* consumer progress cannot be trusted": in a system where nothing alters a
\* checkpoint file, no checkpoint is reported as corrupt.
NoFalseCorruption == blamed = {}

\* "Persist-first event runtime that reconstructs state on restart": an intact
\* journal can be opened again.
Reopenable == ~torn => Len(disk) <= BusCapacity

-----------------------------------------------------------------------------
(* The inductive invariant.                                                *)

\* A published event that is being dispatched is on disk at its place.
EventOnDisk(k) ==
    /\ Len(k.event) = 1
    /\ k.event[1].sequence \in 1..Len(disk)
    /\ k.event[1] = disk[k.event[1].sequence]

CallOK(k) ==
    /\ k.step # "idle" => k.todo # {}
    /\ k.step # "idle" /\ ~k.known => EventOnDisk(k)

\* While a consumer is handled, the event in hand is the one behind its cursor.
HandleOK(k) ==
    k.step = "handle" =>
       IF k.known THEN cursor[Min(k.todo)].sequence < Len(k.history)
       ELSE cursor[Min(k.todo)].sequence + 1 = k.event[1].sequence

CallsConsistent == \A p \in Writers : CallOK(call[p]) /\ HandleOK(call[p])

LockExclusive ==
    \A p, q \in Writers :
       p # q /\ call[p].step = "handle" /\ call[q].step = "handle" => At(p) # At(q)

RuntimeInv ==
    /\ JournalInv
    /\ RuntimeTypeOK
    /\ BusIsJournaled
    /\ CursorOnJournal
    /\ HandledInOrder
    /\ OneInDoubt
    /\ CallsConsistent
    /\ LockExclusive
=============================================================================
