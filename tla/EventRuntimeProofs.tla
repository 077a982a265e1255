------------------------- MODULE EventRuntimeProofs -------------------------
(***************************************************************************)
(* The safety properties of the event journal and of the runtime over it,  *)
(* for every set of writers, identities and times, every number of         *)
(* processes, consumers and events and every capacity, and the proof that  *)
(* the runtime implements DurableTopic.  JournalInv, the journal's         *)
(* inductive invariant, adds to its properties that every cached tail is a *)
(* beginning of the file whose signature is its size.                      *)
(***************************************************************************)
EXTENDS EventRuntime, SequenceTheorems, WellFoundedInduction, TLAPS

-----------------------------------------------------------------------------
(* The journal.                                                            *)

\* The hash chain is typed: the hash of an event is a digest, and so is the
\* hash the successor of a history names (events/models.py, events/bus.py).
LEMMA HashType ==
    /\ \A e \in Event : EventHash(e) \in Digest
    /\ \A events \in Seq(Event) : TailHash(events) \in Digest
PROOF
  <1>1. \A e \in Event : EventHash(e) \in Digest
    BY DEF Event, EventHash, Digest
  <1>2. ASSUME NEW events \in Seq(Event)
        PROVE  TailHash(events) \in Digest
    <2>1. CASE events = <<>>
      BY <2>1 DEF TailHash, Genesis, Digest
    <2>2. CASE events # <<>>
      <3>1. Len(events) \in 1..Len(events)
        BY <2>2, EmptySeq
      <3>2. events[Len(events)] \in Event
        BY <3>1, ElementOfSeq
      <3> QED BY <1>1, <2>2, <3>2 DEF TailHash
    <2> QED BY <2>1, <2>2
  <1> QED BY <1>1, <1>2

\* The validation of an append keeps a chain a chain: an accepted successor
\* of a valid history yields a valid history within the capacity.
LEMMA ChainExtends ==
    ASSUME NEW events \in Seq(Event), NEW e \in Event, IsChain(events),
           ValidateNextEvent(events, e, Capacity)
    PROVE  /\ Append(events, e) \in Seq(Event)
           /\ IsChain(Append(events, e))
           /\ Len(Append(events, e)) <= Capacity
PROOF
  <1> DEFINE longer == Append(events, e)
  <1> DEFINE n == Len(events)
  <1>1. /\ longer \in Seq(Event)
        /\ n \in Nat
        /\ Len(longer) = n + 1
        /\ \A i \in 1..n : longer[i] = events[i] /\ events[i] \in Event
        /\ longer[n + 1] = e
    BY ElementOfSeq
  <1>2. Len(longer) <= Capacity
    BY <1>1, JournalAssumption DEF ValidateNextEvent
  <1>3. e.sequence = n + 1
    BY DEF ValidateNextEvent
  <1>4. e.previous_hash = IF n + 1 = 1 THEN Genesis ELSE EventHash(longer[n])
    <2>1. CASE n = 0
      <3>1. events = <<>>
        BY <2>1, EmptySeq
      <3> QED BY <2>1, <3>1 DEF ValidateNextEvent, TailHash
    <2>2. CASE n # 0
      <3>1. events # <<>>
        BY <2>2, EmptySeq
      <3>2. n \in 1..n
        BY <1>1, <2>2
      <3> QED BY <1>1, <2>2, <3>1, <3>2 DEF ValidateNextEvent, TailHash
    <2> QED BY <2>1, <2>2
  <1>5. ASSUME NEW i \in 1..Len(longer)
        PROVE  /\ longer[i].sequence = i
               /\ longer[i].previous_hash =
                     IF i = 1 THEN Genesis ELSE EventHash(longer[i - 1])
    <2>1. CASE i = n + 1
      <3>1. i - 1 = n
        BY <1>1, <2>1
      <3> QED BY Zenon, <1>1, <1>3, <1>4, <2>1, <3>1
    <2>2. CASE i # n + 1
      <3>1. i \in 1..n /\ longer[i] = events[i]
        BY <1>1, <2>2
      <3>2. i # 1 => i - 1 \in 1..n
        BY <1>1, <3>1
      <3>3. i # 1 => longer[i - 1] = events[i - 1]
        BY <1>1, <3>2
      <3> QED BY <3>1, <3>3 DEF IsChain
    <2> QED BY Zenon, <2>1, <2>2
  <1>6. ASSUME NEW i \in 1..n
        PROVE  events[i].event_id # e.event_id /\ events[i].occurred_at <= e.occurred_at
    <2>1. events # <<>> /\ n \in 1..n
      BY <1>1, EmptySeq
    <2>2. /\ events[i].occurred_at \in Nat
          /\ events[n].occurred_at \in Nat
          /\ e.occurred_at \in Nat
      BY Zenon, <1>1, <2>1, JournalAssumption DEF Event
    <2>3. events[i].occurred_at <= events[n].occurred_at
      <3>1. CASE i = n
        BY <2>2, <3>1
      <3>2. CASE i # n
        BY <1>1, <2>1, <3>2 DEF IsChain
      <3> QED BY <3>1, <3>2
    <2>4. events[n].occurred_at <= e.occurred_at
      BY <2>1 DEF ValidateNextEvent
    <2> QED BY <2>2, <2>3, <2>4 DEF ValidateNextEvent
  <1>7. ASSUME NEW i \in 1..Len(longer), NEW j \in 1..Len(longer), i < j
        PROVE  /\ longer[i].event_id # longer[j].event_id
               /\ longer[i].occurred_at <= longer[j].occurred_at
    <2>1. i \in 1..n /\ longer[i] = events[i]
      BY <1>1, <1>7
    <2>2. CASE j = n + 1
      BY <1>1, <1>6, <2>1, <2>2
    <2>3. CASE j # n + 1
      <3>1. j \in 1..n /\ longer[j] = events[j]
        BY <1>1, <2>3
      <3> QED BY <1>7, <2>1, <3>1 DEF IsChain
    <2> QED BY <2>2, <2>3
  <1> QED BY <1>1, <1>2, <1>5, <1>7 DEF IsChain

\* The fast path is sound: a tail that passes the signature test is the file.
LEMMA TailPrefixCoherent ==
    JournalInv => TailCoherent
PROOF
  <1> SUFFICES ASSUME JournalInv, NEW w \in Writers, ReusesTail(w)
               PROVE  tail[w].seen = disk /\ ~torn
    BY DEF TailCoherent
  <1> USE DEF JournalInv, JournalTypeOK
  <1>1. /\ tail[w].seen \in Seq(Event)
        /\ Len(tail[w].seen) \in Nat
        /\ Len(disk) \in Nat
    BY DEF TailType
  <1>2. 2 * Len(tail[w].seen) = 2 * Len(disk) + (IF torn THEN 1 ELSE 0)
    BY DEF ReusesTail, FileSignature, TailIsPrefix
  <1>3. ~torn /\ Len(tail[w].seen) = Len(disk)
    BY <1>1, <1>2
  <1>4. \A i \in 1..Len(tail[w].seen) : tail[w].seen[i] = disk[i]
    BY DEF TailIsPrefix, ReusesTail
  <1> QED BY <1>1, <1>3, <1>4, SeqEqual

\* What the callers offer are events, so an accepted one is an event.
LEMMA OfferedType ==
    ASSUME JournalTypeOK
    PROVE  Offered \subseteq Event
PROOF
  <1>1. \A i \in 1..Len(disk) : EventHash(disk[i]) \in Digest
    BY HashType, ElementOfSeq DEF JournalTypeOK
  <1>2. Genesis \in Digest
    BY DEF Genesis, Digest
  <1> QED BY <1>1, <1>2, JournalAssumption DEF Offered, Event

\* The shape of a step: an operation that changes the file adds one validated
\* event to a file that is not torn.
LEMMA StepOfDisk ==
    ASSUME JournalInv, JournalNext
    PROVE  \/ disk' = disk
           \/ \E e \in Event : /\ ~torn
                               /\ torn' = torn
                               /\ ValidateNextEvent(disk, e, Capacity)
                               /\ disk' = Append(disk, e)
PROOF
  <1>1. PICK w \in Writers :
           \/ \E e \in Offered : AppendEvent(w, e)
           \/ \E e \in Offered : RefuseEvent(w, e)
           \/ \E e \in Offered : InterruptAppend(w, e)
           \/ LoadTorn(w) \/ LoadJournal(w) \/ WriteCheckpoint(w) \/ Reopen(w)
    BY DEF JournalNext
  <1>2. CanValidate(w) => AppendState(w) = disk /\ ~torn
    BY TailPrefixCoherent DEF TailCoherent, CanValidate, AppendState
  <1>3. Offered \subseteq Event
    BY OfferedType DEF JournalInv
  <1>4. ASSUME NEW e \in Offered, AppendEvent(w, e)
        PROVE  /\ e \in Event /\ ~torn /\ torn' = torn
               /\ ValidateNextEvent(disk, e, Capacity) /\ disk' = Append(disk, e)
    BY <1>2, <1>3, <1>4 DEF AppendEvent
  <1>5. ASSUME NEW e \in Offered, InterruptAppend(w, e)
        PROVE  \/ disk' = disk
               \/ /\ e \in Event /\ ~torn /\ torn' = torn
                  /\ ValidateNextEvent(disk, e, Capacity) /\ disk' = Append(disk, e)
    BY <1>2, <1>3, <1>5 DEF InterruptAppend
  <1> QED BY <1>1, <1>4, <1>5
       DEF RefuseEvent, LoadTorn, LoadJournal, WriteCheckpoint, Reopen

\* A tail that an operation keeps, or takes from the file, is a beginning of
\* the file after the operation as well.
LEMMA TailStaysPrefix ==
    ASSUME JournalInv, JournalNext,
           disk' \in Seq(Event),
           Len(disk) <= Len(disk'),
           \A i \in 1..Len(disk) : disk'[i] = disk[i]
    PROVE  TailIsPrefix' /\ tail' \in [Writers -> TailType]
PROOF
  <1> DEFINE IsTail(t) ==
               /\ t \in TailType
               /\ t.held => /\ t.signature = 2 * Len(t.seen)
                           /\ Len(t.seen) <= Len(disk')
                           /\ \A i \in 1..Len(t.seen) : t.seen[i] = disk'[i]
  <1>1. /\ disk \in Seq(Event) /\ Len(disk) \in Nat /\ Len(disk') \in Nat
        /\ tail \in [Writers -> TailType]
    BY DEF JournalInv, JournalTypeOK
  <1>2. \A v \in Writers : IsTail(tail[v])
    <2> SUFFICES ASSUME NEW v \in Writers
                 PROVE  IsTail(tail[v])
      OBVIOUS
    <2>1. tail[v] \in TailType /\ Len(tail[v].seen) \in Nat
      BY <1>1 DEF TailType
    <2>2. tail[v].held => /\ tail[v].signature = 2 * Len(tail[v].seen)
                          /\ Len(tail[v].seen) <= Len(disk)
                          /\ \A i \in 1..Len(tail[v].seen) : tail[v].seen[i] = disk[i]
      BY DEF JournalInv, TailIsPrefix
    <2> QED BY <1>1, <2>1, <2>2
  <1>3. IsTail(NoTail)
    BY EmptySeq DEF NoTail, TailType
  <1>4. ~torn => IsTail(TailOf(disk, FileSignature))
    BY <1>1 DEF TailOf, TailType, FileSignature
  <1>5. ~torn /\ disk' \in Seq(Event) => IsTail(TailOf(disk', 2 * Len(disk')))
    BY <1>1 DEF TailOf, TailType
  <1>6. PICK w \in Writers :
           \/ \E e \in Offered : AppendEvent(w, e)
           \/ \E e \in Offered : RefuseEvent(w, e)
           \/ \E e \in Offered : InterruptAppend(w, e)
           \/ LoadTorn(w) \/ LoadJournal(w) \/ WriteCheckpoint(w) \/ Reopen(w)
    BY DEF JournalNext
  <1>7. CanValidate(w) => AppendState(w) = disk /\ ~torn
    BY TailPrefixCoherent DEF TailCoherent, CanValidate, AppendState
  <1>8. \E t : IsTail(t) /\ tail' = [tail EXCEPT ![w] = t]
    <2>1. ASSUME NEW e \in Offered, AppendEvent(w, e)
          PROVE  \E t : IsTail(t) /\ tail' = [tail EXCEPT ![w] = t]
      <3>1. e \in Event
        BY OfferedType DEF JournalInv
      <3>2. disk' = Append(disk, e) /\ ~torn
        BY <1>7, <2>1 DEF AppendEvent
      <3>3. tail' = [tail EXCEPT ![w] = TailOf(disk', FileSignature + 2)]
        BY <1>7, <2>1, <3>2 DEF AppendEvent
      <3>4. FileSignature + 2 = 2 * Len(disk')
        BY <1>1, <3>1, <3>2 DEF FileSignature
      <3> QED BY Zenon, <1>5, <3>2, <3>3, <3>4
    <2>2. ASSUME NEW e \in Offered, RefuseEvent(w, e)
          PROVE  \E t : IsTail(t) /\ tail' = [tail EXCEPT ![w] = t]
      BY Zenon, <1>4, <1>7, <2>2 DEF RefuseEvent
    <2>3. ASSUME NEW e \in Offered, InterruptAppend(w, e)
          PROVE  \E t : IsTail(t) /\ tail' = [tail EXCEPT ![w] = t]
      BY Zenon, <1>3, <1>4, <1>7, <2>3 DEF InterruptAppend
    <2>4. CASE LoadTorn(w) \/ Reopen(w)
      BY <1>3, <2>4 DEF LoadTorn, Reopen
    <2>5. CASE LoadJournal(w) \/ WriteCheckpoint(w)
      BY <1>4, <2>5 DEF LoadJournal, WriteCheckpoint
    <2> QED BY <1>6, <2>1, <2>2, <2>3, <2>4, <2>5
  <1>9. PICK t : IsTail(t) /\ tail' = [tail EXCEPT ![w] = t]
    BY Zenon, <1>8
  <1>10. tail' \in [Writers -> TailType] /\ \A v \in Writers : IsTail(tail'[v])
    BY <1>1, <1>2, <1>9
  <1> QED BY <1>10 DEF TailIsPrefix

\* The journal's invariant holds initially and is kept by every step.
LEMMA JournalInductive ==
    /\ JournalInit => JournalInv
    /\ JournalInv /\ [JournalNext]_journalVars => JournalInv'
PROOF
  <1>1. ASSUME JournalInit
        PROVE  JournalInv
    <2> USE <1>1 DEF JournalInit
    <2>1. disk = <<>> /\ Len(disk) = 0 /\ 1..Len(disk) = {}
      OBVIOUS
    <2>2. NoTail \in TailType
      BY EmptySeq DEF NoTail, TailType
    <2>3. JournalTypeOK
      BY Zenon, <2>2, EmptySeq DEF JournalTypeOK
    <2>4. ChainIntact
      BY <2>1, JournalAssumption DEF ChainIntact, IsChain
    <2>5. TailIsPrefix
      BY DEF TailIsPrefix, NoTail
    <2>6. CheckpointOnChain
      BY DEF CheckpointOnChain, CheckpointMatches
    <2> QED BY <2>3, <2>4, <2>5, <2>6 DEF JournalInv
  <1>2. ASSUME JournalInv, UNCHANGED journalVars
        PROVE  JournalInv'
    BY <1>2 DEF journalVars, JournalInv, JournalTypeOK, ChainIntact, IsChain,
        TailIsPrefix, CheckpointOnChain, CheckpointMatches
  <1>3. ASSUME JournalInv, JournalNext
        PROVE  JournalInv'
    <2>1. /\ disk \in Seq(Event)
          /\ torn \in BOOLEAN
          /\ checkpoint \in Seq(JournalCheckpoint)
          /\ Len(disk) \in Nat
      BY <1>3 DEF JournalInv, JournalTypeOK
    <2>2. /\ disk' \in Seq(Event) /\ ChainIntact'
          /\ Len(disk) <= Len(disk')
          /\ \A i \in 1..Len(disk) : disk'[i] = disk[i]
      <3>1. CASE disk' = disk
        BY <1>3, <2>1, <3>1 DEF JournalInv, ChainIntact, IsChain
      <3>2. ASSUME NEW e \in Event, ValidateNextEvent(disk, e, Capacity),
                   disk' = Append(disk, e)
            PROVE  /\ disk' \in Seq(Event) /\ ChainIntact'
                   /\ Len(disk) <= Len(disk')
                   /\ \A i \in 1..Len(disk) : disk'[i] = disk[i]
        <4>1. IsChain(disk)
          BY <1>3 DEF JournalInv, ChainIntact
        <4>2. disk' \in Seq(Event) /\ IsChain(disk') /\ Len(disk') <= Capacity
          BY <2>1, <3>2, <4>1, ChainExtends
        <4>3. Len(disk) <= Len(disk') /\ \A i \in 1..Len(disk) : disk'[i] = disk[i]
          BY <2>1, <3>2
        <4> QED BY <4>2, <4>3 DEF ChainIntact
      <3> QED BY <1>3, <3>1, <3>2, StepOfDisk
    <2>3. TailIsPrefix' /\ tail' \in [Writers -> TailType]
      BY <1>3, <2>2, TailStaysPrefix
    <2>4. torn' \in BOOLEAN
      BY Zenon, <1>3, <2>1 DEF JournalNext, AppendEvent, RefuseEvent, InterruptAppend,
         LoadTorn, LoadJournal, WriteCheckpoint, Reopen
    <2>5. /\ checkpoint' \in Seq(JournalCheckpoint)
          /\ CheckpointOnChain'
      <3>1. CASE checkpoint' = checkpoint
        <4>1. CASE checkpoint = <<>>
          BY <2>1, <3>1, <4>1 DEF CheckpointOnChain, CheckpointMatches
        <4>2. CASE checkpoint # <<>>
          <5>1. checkpoint[1] \in JournalCheckpoint
            <6>1. Len(checkpoint) \in Nat \ {0}
              BY <2>1, <4>2, EmptySeq
            <6> QED BY <2>1, <6>1
          <5>2. /\ checkpoint[1].sequence <= Len(disk)
                /\ EventHash(disk[checkpoint[1].sequence]) = checkpoint[1].event_hash
            BY <1>3, <4>2 DEF JournalInv, CheckpointOnChain, CheckpointMatches
          <5>3. checkpoint[1].sequence \in 1..Len(disk)
            BY <2>1, <5>1, <5>2 DEF JournalCheckpoint
          <5>4. disk'[checkpoint[1].sequence] = disk[checkpoint[1].sequence]
            BY <2>2, <5>3
          <5>5. checkpoint[1].sequence <= Len(disk')
            BY <2>1, <2>2, <5>1, <5>2 DEF JournalCheckpoint
          <5> QED BY <2>1, <3>1, <5>2, <5>4, <5>5
               DEF CheckpointOnChain, CheckpointMatches
        <4> QED BY <4>1, <4>2
      <3>2. ASSUME NEW w \in Writers, WriteCheckpoint(w)
            PROVE  /\ checkpoint' \in Seq(JournalCheckpoint)
                   /\ CheckpointOnChain'
        <4> DEFINE cp == [sequence |-> Len(disk), event_hash |-> TailHash(disk)]
        <4>1. disk # <<>> /\ disk' = disk /\ checkpoint' = <<cp>>
          BY <3>2 DEF WriteCheckpoint
        <4>2. Len(disk) \in Nat \ {0} /\ TailHash(disk) \in Digest
          BY <2>1, <4>1, EmptySeq, HashType
        <4>3. TailHash(disk) = EventHash(disk[Len(disk)])
          BY <4>1 DEF TailHash
        <4>4. cp \in JournalCheckpoint
          BY <4>2 DEF JournalCheckpoint
        <4> QED BY <2>1, <4>1, <4>2, <4>3, <4>4 DEF CheckpointOnChain, CheckpointMatches
      <3> QED BY <1>3, <3>1, <3>2 DEF JournalNext, AppendEvent, RefuseEvent,
           InterruptAppend, LoadTorn, LoadJournal, Reopen
    <2> QED BY <2>2, <2>3, <2>4, <2>5 DEF JournalInv, JournalTypeOK
  <1> QED BY <1>1, <1>2, <1>3

\* The records on disk form a valid chain within the capacity in every
\* reachable state (DiskEventJournal.append under failures and retries).
THEOREM JournalChain == JournalSpec => []ChainIntact
PROOF
  <1>1. JournalInv => ChainIntact
    BY DEF JournalInv
  <1> QED BY <1>1, JournalInductive, PTL DEF JournalSpec

\* A cached tail that passes the signature test is the file
\* (_file_signatures_allow_cache_reuse).
THEOREM JournalTailSound == JournalSpec => []TailCoherent
PROOF
  <1> QED BY TailPrefixCoherent, JournalInductive, PTL DEF JournalSpec

\* The checkpoint always names an event of the chain (checkpoint, recover).
THEOREM JournalCheckpointSound == JournalSpec => []CheckpointOnChain
PROOF
  <1>1. JournalInv => CheckpointOnChain
    BY DEF JournalInv
  <1> QED BY <1>1, JournalInductive, PTL DEF JournalSpec

\* Every step leaves the file alone or adds one record to an intact file
\* (DiskEventJournal.append).
THEOREM JournalAppendOnly == JournalSpec => AppendOnly
PROOF
  <1> DEFINE Step == \/ disk' = disk
                     \/ ~torn /\ Len(disk') = Len(disk) + 1
                              /\ \A i \in 1..Len(disk) : disk'[i] = disk[i]
  <1>1. ASSUME JournalInv, JournalNext
        PROVE  Step
    <2>1. disk \in Seq(Event)
      BY <1>1 DEF JournalInv, JournalTypeOK
    <2>2. ASSUME NEW e \in Event, ~torn, disk' = Append(disk, e)
          PROVE  Step
      BY <2>1, <2>2
    <2> QED BY <1>1, <2>2, StepOfDisk
  <1>2. JournalInv /\ [JournalNext]_journalVars => [Step]_journalVars
    BY <1>1
  <1> QED BY <1>2, JournalInductive, PTL DEF JournalSpec, AppendOnly

\* The file, the checkpoint and the cached tail hold records of events
\* (DiskEventJournal), for every capacity.
THEOREM JournalTyped == JournalSpec => []JournalTypeOK
PROOF
  <1>1. JournalInv => JournalTypeOK
    BY DEF JournalInv
  <1> QED BY <1>1, JournalInductive, PTL DEF JournalSpec

-----------------------------------------------------------------------------
(* The runtime: facts about its operators.                                 *)

\* sorted() has a first element: the least of a non-empty set of consumers is
\* one of them.
LEMMA MinIsMember ==
    ASSUME NEW S \in SUBSET Consumers, S # {}
    PROVE  Min(S) \in S
PROOF
  <1>1. S \subseteq Nat
    BY Zenon, RuntimeAssumption
  <1>2. \E x \in S : \A y \in S : ~ (<<y, x>> \in OpToRel(<, Nat))
    BY Zenon, <1>1, NatLessThanWellFounded, WFMin
  <1>3. \E x \in S : \A y \in S : x <= y
    <2>1. PICK x \in S : \A y \in S : ~ (<<y, x>> \in OpToRel(<, Nat))
      BY Zenon, <1>2
    <2>2. \A y \in S : ~ (y < x)
      BY Zenon, <1>1, <2>1 DEF OpToRel
    <2>3. \A y \in S : x <= y
      BY <1>1, <2>2
    <2> QED BY Zenon, <2>3
  <1> QED BY Zenon, <1>3 DEF Min

\* A beginning of a beginning is a beginning.
LEMMA BeginningTransitive ==
    ASSUME NEW r \in Seq(Event), NEW s \in Seq(Event), NEW t \in Seq(Event),
           IsBeginning(r, s), IsBeginning(s, t)
    PROVE  IsBeginning(r, t)
PROOF
  <1>1. Len(r) \in Nat /\ Len(s) \in Nat /\ Len(t) \in Nat
    OBVIOUS
  <1>2. Len(r) <= Len(t)
    BY <1>1 DEF IsBeginning
  <1>3. \A i \in 1..Len(r) : i \in 1..Len(s)
    BY <1>1 DEF IsBeginning
  <1> QED BY Zenon, <1>2, <1>3 DEF IsBeginning

\* A history begins with itself and with the empty history.
LEMMA BeginningReflexive ==
    ASSUME NEW s \in Seq(Event)
    PROVE  IsBeginning(s, s) /\ IsBeginning(<<>>, s)
PROOF
  <1>1. Len(s) \in Nat /\ Len(<<>>) = 0 /\ 1..0 = {}
    OBVIOUS
  <1> QED BY <1>1 DEF IsBeginning

\* The journal as the runtime's actions see it: every step of the runtime is a
\* step of the journal.
LEMMA RuntimeStepsJournal ==
    ASSUME RuntimeTypeOK, Next
    PROVE  JournalNext \/ UNCHANGED journalVars
PROOF
  <1> USE DEF JournalNext, journalVars
  <1>1. PICK p \in Writers :
           \/ Open(p) \/ OpenFails(p) \/ Crash(p)
           \/ \E e \in Offered : Publish(p, e)
           \/ \E e \in Offered : PublishFails(p, e)
           \/ \E c \in Consumers : Subscribe(p, c)
           \/ Continue(p)
    BY Zenon DEF Next
  <1>2. CASE Open(p)
    BY Zenon, <1>2 DEF Open, LoadJournal
  <1>3. CASE OpenFails(p) \/ Crash(p)
    BY Zenon, <1>3 DEF OpenFails, Crash, Reopen
  <1>4. CASE \E e \in Offered : Publish(p, e)
    BY Zenon, <1>4 DEF Publish
  <1>5. CASE \E e \in Offered : PublishFails(p, e)
    BY Zenon, <1>5 DEF PublishFails
  <1>6. CASE \E c \in Consumers : Subscribe(p, c)
    BY Zenon, <1>6 DEF Subscribe
  <1>7. CASE LoadHistory(p) \/ LoadHistoryFails(p)
    BY Zenon, <1>7 DEF LoadHistory, LoadHistoryFails
  <1>8. CASE DeliverNext(p) \/ DeliverPending(p) \/ Handle(p) \/ HandleFails(p)
    BY Zenon, <1>8 DEF DeliverNext, DeliverPending, Handle, HandleFails
  <1> QED BY Zenon, <1>1, <1>2, <1>3, <1>4, <1>5, <1>6, <1>7, <1>8 DEF Continue

\* The journal's invariant is kept, and the file only grows.
LEMMA JournalGrows ==
    ASSUME JournalInv, JournalNext \/ UNCHANGED journalVars
    PROVE  JournalInv' /\ disk' \in Seq(Event) /\ IsBeginning(disk, disk')
PROOF
  <1>1. JournalInv'
    BY Zenon, JournalInductive
  <1>2. disk \in Seq(Event) /\ disk' \in Seq(Event)
    BY Zenon, <1>1 DEF JournalInv, JournalTypeOK
  <1>3. CASE disk' = disk
    BY Zenon, <1>1, <1>2, <1>3, BeginningReflexive
  <1>4. ASSUME NEW e \in Event, disk' = Append(disk, e)
        PROVE  IsBeginning(disk, disk')
    BY <1>2, <1>4 DEF IsBeginning
  <1> QED BY Zenon, <1>1, <1>2, <1>3, <1>4, StepOfDisk DEF journalVars

\* What was true of a beginning of the file, of a cursor on it, or of an event
\* in it, stays true when the file grows.
LEMMA GrowthKeeps ==
    ASSUME disk \in Seq(Event), disk' \in Seq(Event), IsBeginning(disk, disk')
    PROVE  /\ \A s \in Seq(Event) : IsBeginning(s, disk) => IsBeginning(s, disk')
           /\ \A cp \in [sequence : Nat, event_hash : Digest] :
                 OnHistory(cp, disk) => OnHistory(cp, disk')
           /\ \A k \in CallType : EventOnDisk(k) => EventOnDisk(k)'
PROOF
  <1>1. Len(disk) \in Nat /\ Len(disk') \in Nat /\ Len(disk) <= Len(disk')
    BY DEF IsBeginning
  <1>2. \A i \in 1..Len(disk) : disk'[i] = disk[i] /\ i \in 1..Len(disk')
    BY <1>1 DEF IsBeginning
  <1>3. ASSUME NEW s \in Seq(Event), IsBeginning(s, disk)
        PROVE  IsBeginning(s, disk')
    BY Zenon, <1>3, BeginningTransitive
  <1>4. ASSUME NEW cp \in [sequence : Nat, event_hash : Digest], OnHistory(cp, disk)
        PROVE  OnHistory(cp, disk')
    <2>1. CASE cp.sequence = 0
      BY <2>1 DEF OnHistory
    <2>2. CASE cp.sequence # 0
      <3>1. cp.sequence \in 1..Len(disk) /\ CursorAt(disk[cp.sequence]) = cp
        BY <1>1, <1>4, <2>2 DEF OnHistory
      <3> QED BY <1>1, <1>2, <3>1 DEF OnHistory
    <2> QED BY Zenon, <2>1, <2>2
  <1>5. ASSUME NEW k \in CallType, EventOnDisk(k)
        PROVE  EventOnDisk(k)'
    BY Zenon, <1>2, <1>5 DEF EventOnDisk
  <1> QED BY Zenon, <1>3, <1>4, <1>5

\* Being through with a consumer leaves a well-formed call that holds no lock.
LEMMA ServedCall ==
    ASSUME NEW k \in CallType, k.todo # {}
    PROVE  /\ Served(k) \in CallType
           /\ Served(k).step # "handle"
           /\ Served(k).history \in {k.history, <<>>}
           /\ Served(k).step # "idle" => /\ Served(k).todo # {}
                                         /\ Served(k).known = k.known
                                         /\ Served(k).event = k.event
           /\ k.history = <<>> => Served(k).history = <<>>
PROOF
  <1>1. Min(k.todo) \in k.todo
    BY Zenon, MinIsMember DEF CallType
  <1>2. Idle \in CallType /\ Idle.step = "idle" /\ Idle.history = <<>>
    BY Zenon, EmptySeq DEF Idle, CallType, Steps, Genesis, Digest
  <1>3. CASE k.todo = {Min(k.todo)}
    BY Zenon, <1>2, <1>3 DEF Served
  <1>4. CASE k.todo # {Min(k.todo)}
    <2> DEFINE n == [k EXCEPT !.step = "dispatch", !.todo = k.todo \ {Min(k.todo)}]
    <2>1. Served(k) = n
      BY Zenon, <1>4 DEF Served
    <2>2. n \in CallType
      BY Zenon DEF CallType, Steps
    <2>3. /\ n.step = "dispatch" /\ n.todo = k.todo \ {Min(k.todo)}
          /\ n.known = k.known /\ n.event = k.event /\ n.history = k.history
      BY Zenon DEF CallType
    <2>4. k.todo \ {Min(k.todo)} # {}
      BY Zenon, <1>1, <1>4
    <2> QED BY Zenon, <2>1, <2>2, <2>3, <2>4
  <1> QED BY Zenon, <1>3, <1>4

\* One process replaces its call by a well-formed one, and no cursor moves that
\* another process has locked: the calls stay consistent and the locks exclusive.
LEMMA CallUpdate ==
    ASSUME RuntimeInv, disk' \in Seq(Event), IsBeginning(disk, disk'),
           NEW p \in Writers, NEW k \in CallType,
           call' = [call EXCEPT ![p] = k],
           CallOK(k)', HandleOK(k)', IsBeginning(k.history, disk'),
           k.step = "handle" =>
              \A q \in Writers : q # p /\ call[q].step = "handle" => At(q) # Min(k.todo),
           \A q \in Writers : q # p /\ call[q].step = "handle" =>
              cursor'[At(q)] = cursor[At(q)]
    PROVE  /\ call' \in [Writers -> CallType]
           /\ CallsConsistent'
           /\ LockExclusive'
           /\ \A q \in Writers : IsBeginning(call'[q].history, disk')
PROOF
  <1>1. /\ call \in [Writers -> CallType] /\ disk \in Seq(Event)
        /\ CallsConsistent /\ LockExclusive
    BY Zenon DEF RuntimeInv, RuntimeTypeOK, JournalInv, JournalTypeOK
  <1>2. /\ call' \in [Writers -> CallType]
        /\ call'[p] = k
        /\ \A q \in Writers : q # p => call'[q] = call[q]
    BY Zenon, <1>1
  <1>3. ASSUME NEW q \in Writers
        PROVE  CallOK(call[q])' /\ HandleOK(call[q])'
    <2>1. CASE q = p
      BY Zenon, <1>2, <2>1
    <2>2. CASE q # p
      <3>1. call'[q] = call[q] /\ call[q] \in CallType
        BY Zenon, <1>1, <1>2, <2>2
      <3>2. CallOK(call[q]) /\ HandleOK(call[q])
        BY Zenon, <1>1 DEF CallsConsistent
      <3>3. EventOnDisk(call[q]) => EventOnDisk(call[q])'
        <4>1. \A x \in CallType : EventOnDisk(x) => EventOnDisk(x)'
          BY Zenon, <1>1, GrowthKeeps
        <4> QED BY Zenon, <3>1, <4>1 DEF EventOnDisk
      <3>4. CallOK(call[q])'
        BY Zenon, <3>1, <3>2, <3>3 DEF CallOK
      <3>5. HandleOK(call[q])'
        BY Zenon, <2>2, <3>1, <3>2 DEF HandleOK, At
      <3> QED BY Zenon, <3>4, <3>5
    <2> QED BY Zenon, <2>1, <2>2
  <1>4. LockExclusive'
    <2> SUFFICES ASSUME NEW q \in Writers, NEW r \in Writers, q # r,
                        call'[q].step = "handle", call'[r].step = "handle"
                 PROVE  At(q)' # At(r)'
      BY Zenon DEF LockExclusive
    <2>1. CASE q = p
      BY Zenon, <1>2, <2>1 DEF At
    <2>2. CASE r = p
      BY Zenon, <1>2, <2>2 DEF At
    <2>3. CASE q # p /\ r # p
      BY Zenon, <1>1, <1>2, <2>3 DEF At, LockExclusive
    <2> QED BY Zenon, <2>1, <2>2, <2>3
  <1>5. ASSUME NEW q \in Writers
        PROVE  IsBeginning(call'[q].history, disk')
    <2>1. CASE q = p
      BY Zenon, <1>2, <2>1
    <2>2. CASE q # p
      <3>1. call'[q].history = call[q].history /\ call[q].history \in Seq(Event)
        BY Zenon, <1>1, <1>2, <2>2 DEF CallType
      <3>2. IsBeginning(call[q].history, disk)
        BY Zenon DEF RuntimeInv, BusIsJournaled
      <3> QED BY Zenon, <1>1, <3>1, <3>2, BeginningTransitive
    <2> QED BY Zenon, <2>1, <2>2
  <1> QED BY Zenon, <1>2, <1>3, <1>4, <1>5 DEF CallsConsistent

\* The event in hand is the one of the journal behind the consumer's cursor.
LEMMA InHandIsNext ==
    ASSUME RuntimeInv, NEW p \in Writers, call[p].step = "handle"
    PROVE  /\ At(p) \in Consumers
           /\ cursor[At(p)].sequence \in Nat
           /\ cursor[At(p)].sequence + 1 \in 1..Len(disk)
           /\ InHand(p) = disk[cursor[At(p)].sequence + 1]
           /\ InHand(p) \in Event
           /\ InHand(p).sequence = cursor[At(p)].sequence + 1
PROOF
  <1> DEFINE k == call[p]
  <1> DEFINE n == cursor[At(p)].sequence
  <1>1. /\ k \in CallType /\ disk \in Seq(Event) /\ Len(disk) \in Nat
        /\ k.history \in Seq(Event) /\ Len(k.history) \in Nat
        /\ k.todo \in SUBSET Consumers
    BY DEF RuntimeInv, RuntimeTypeOK, JournalInv, JournalTypeOK, CallType
  <1>2. CallOK(k) /\ HandleOK(k) /\ IsBeginning(k.history, disk) /\ IsChain(disk)
    BY Zenon DEF RuntimeInv, CallsConsistent, BusIsJournaled, JournalInv, ChainIntact
  <1>3. At(p) \in Consumers
    BY Zenon, <1>1, <1>2, MinIsMember DEF CallOK, At
  <1>4. n \in Nat
    BY Zenon, <1>3 DEF RuntimeInv, RuntimeTypeOK
  <1>5. CASE k.known
    <2>1. n < Len(k.history)
      BY Zenon, <1>2, <1>5 DEF HandleOK, At
    <2>2. n + 1 \in 1..Len(k.history) /\ n + 1 \in 1..Len(disk)
      BY <1>1, <1>2, <1>4, <2>1 DEF IsBeginning
    <2>3. InHand(p) = disk[n + 1]
      BY Zenon, <1>2, <1>5, <2>2 DEF InHand, IsBeginning
    <2>4. disk[n + 1] \in Event /\ disk[n + 1].sequence = n + 1
      BY Zenon, <1>1, <1>2, <2>2, ElementOfSeq DEF IsChain
    <2> QED BY Zenon, <1>3, <1>4, <2>2, <2>3, <2>4
  <1>6. CASE ~k.known
    <2>1. EventOnDisk(k) /\ n + 1 = k.event[1].sequence
      BY Zenon, <1>2, <1>6 DEF HandleOK, CallOK, At
    <2>2. n + 1 \in 1..Len(disk) /\ InHand(p) = disk[n + 1]
      BY Zenon, <1>6, <2>1 DEF EventOnDisk, InHand
    <2>3. disk[n + 1] \in Event /\ disk[n + 1].sequence = n + 1
      BY Zenon, <1>1, <1>2, <2>2, ElementOfSeq DEF IsChain
    <2> QED BY Zenon, <1>3, <1>4, <2>2, <2>3
  <1> QED BY Zenon, <1>5, <1>6

\* Running the handler on it keeps the handled events a beginning of the file,
\* one longer than the acknowledged ones.
LEMMA HandlerRuns ==
    ASSUME RuntimeInv, NEW c \in Consumers, NEW e \in Event,
           cursor[c].sequence + 1 \in 1..Len(disk),
           e = disk[cursor[c].sequence + 1],
           e.sequence = cursor[c].sequence + 1,
           RunHandler(c, e)
    PROVE  /\ handled' \in [Consumers -> Seq(Event)]
           /\ \A d \in Consumers : d # c => handled'[d] = handled[d]
           /\ Len(handled'[c]) = cursor[c].sequence + 1
           /\ IsBeginning(handled'[c], disk)
PROOF
  <1> DEFINE n == cursor[c].sequence
  <1>1. /\ handled \in [Consumers -> Seq(Event)] /\ n \in Nat
        /\ disk \in Seq(Event) /\ Len(disk) \in Nat
        /\ handled[c] \in Seq(Event) /\ Len(handled[c]) \in Nat
    BY DEF RuntimeInv, RuntimeTypeOK, JournalInv, JournalTypeOK
  <1>2. Len(handled[c]) \in n .. n + 1 /\ IsBeginning(handled[c], disk)
    BY Zenon DEF RuntimeInv, OneInDoubt, HandledInOrder
  <1>3. CASE Len(handled[c]) = n + 1
    BY <1>1, <1>2, <1>3 DEF RunHandler
  <1>4. CASE Len(handled[c]) = n
    <2>1. handled' = [handled EXCEPT ![c] = Append(handled[c], e)]
      BY <1>1, <1>4 DEF RunHandler
    <2>2. /\ handled'[c] = Append(handled[c], e)
          /\ \A d \in Consumers : d # c => handled'[d] = handled[d]
          /\ handled' \in [Consumers -> Seq(Event)]
      BY <1>1, <2>1
    <2>3. /\ Len(Append(handled[c], e)) = n + 1
          /\ \A i \in 1..n : Append(handled[c], e)[i] = handled[c][i]
          /\ Append(handled[c], e)[n + 1] = e
      BY <1>1, <1>4
    <2>4. IsBeginning(Append(handled[c], e), disk)
      <3>1. ASSUME NEW i \in 1..(n + 1)
            PROVE  Append(handled[c], e)[i] = disk[i]
        <4>1. CASE i = n + 1
          BY Zenon, <2>3, <4>1
        <4>2. CASE i # n + 1
          BY <1>1, <1>2, <1>4, <2>3, <4>2 DEF IsBeginning
        <4> QED BY Zenon, <4>1, <4>2
      <3> QED BY <1>1, <2>3, <3>1 DEF IsBeginning
    <2> QED BY Zenon, <2>2, <2>3, <2>4
  <1> QED BY <1>1, <1>2, <1>3, <1>4

-----------------------------------------------------------------------------
(* The inductive invariant.                                                *)

\* A step of one process that delivers nothing: the journal may grow, the bus
\* stays a beginning of it, and the process goes on with a well-formed call.
LEMMA QuietStep ==
    ASSUME RuntimeInv, JournalNext \/ UNCHANGED journalVars,
           UNCHANGED <<cursor, handled>>,
           up' \in [Writers -> BOOLEAN],
           registered' \in [Writers -> SUBSET Consumers],
           blamed' \in SUBSET Consumers,
           bus' \in [Writers -> Seq(Event)],
           \A q \in Writers : IsBeginning(bus'[q], disk'),
           NEW p \in Writers, NEW k \in CallType,
           call' = [call EXCEPT ![p] = k],
           CallOK(k)', HandleOK(k)', IsBeginning(k.history, disk'),
           k.step = "handle" =>
              \A q \in Writers : q # p /\ call[q].step = "handle" => At(q) # Min(k.todo)
    PROVE  RuntimeInv'
PROOF
  <1>1. JournalInv' /\ disk' \in Seq(Event) /\ IsBeginning(disk, disk')
    BY Zenon, JournalGrows DEF RuntimeInv
  <1>2. /\ call' \in [Writers -> CallType]
        /\ CallsConsistent'
        /\ LockExclusive'
        /\ \A q \in Writers : IsBeginning(call'[q].history, disk')
    BY Zenon, <1>1, CallUpdate
  <1>3. /\ disk \in Seq(Event)
        /\ cursor \in [Consumers -> [sequence : Nat, event_hash : Digest]]
        /\ handled \in [Consumers -> Seq(Event)]
        /\ CursorOnJournal /\ HandledInOrder /\ OneInDoubt
    BY Zenon DEF RuntimeInv, RuntimeTypeOK, JournalInv, JournalTypeOK
  <1>4. RuntimeTypeOK'
    BY Zenon, <1>2, <1>3 DEF RuntimeTypeOK
  <1>5. BusIsJournaled'
    BY Zenon, <1>2 DEF BusIsJournaled
  <1>6. CursorOnJournal'
    BY Zenon, <1>1, <1>3, GrowthKeeps DEF CursorOnJournal
  <1>7. HandledInOrder'
    BY Zenon, <1>1, <1>3, GrowthKeeps DEF HandledInOrder
  <1>8. OneInDoubt'
    BY Zenon, <1>3 DEF OneInDoubt
  <1> QED BY Zenon, <1>1, <1>2, <1>4, <1>5, <1>6, <1>7, <1>8 DEF RuntimeInv

\* The buses need no attention in a step that leaves them alone.
LEMMA BusesKept ==
    ASSUME RuntimeInv, JournalNext \/ UNCHANGED journalVars, bus' = bus
    PROVE  /\ bus' \in [Writers -> Seq(Event)]
           /\ \A q \in Writers : IsBeginning(bus'[q], disk')
PROOF
  <1>1. disk' \in Seq(Event) /\ IsBeginning(disk, disk') /\ disk \in Seq(Event)
    BY Zenon, JournalGrows DEF RuntimeInv, JournalInv, JournalTypeOK
  <1>2. bus \in [Writers -> Seq(Event)]
    BY Zenon DEF RuntimeInv, RuntimeTypeOK
  <1>3. \A q \in Writers : IsBeginning(bus[q], disk)
    BY Zenon DEF RuntimeInv, BusIsJournaled
  <1> QED BY Zenon, <1>1, <1>2, <1>3, GrowthKeeps

\* A process without a call works on no history.
LEMMA IdleCall ==
    /\ Idle \in CallType
    /\ Idle.step = "idle" /\ Idle.history = <<>>
    /\ CallOK(Idle)' /\ HandleOK(Idle)'
PROOF
  <1>1. Idle \in CallType
    BY Zenon, EmptySeq DEF Idle, CallType, Steps, Genesis, Digest
  <1> QED BY Zenon, <1>1 DEF Idle, CallOK, HandleOK

\* Opening, failing to open and dying.
LEMMA ProcessSteps ==
    ASSUME RuntimeInv, NEW p \in Writers, Open(p) \/ OpenFails(p) \/ Crash(p)
    PROVE  RuntimeInv'
PROOF
  <1>1. JournalNext \/ UNCHANGED journalVars
    BY Zenon DEF Open, OpenFails, Crash, LoadJournal, Reopen, JournalNext
  <1>2. RuntimeTypeOK /\ disk \in Seq(Event) /\ disk' = disk
    BY Zenon DEF RuntimeInv, JournalInv, JournalTypeOK, Open, OpenFails, Crash
  <1>3. /\ call[p] \in CallType /\ call = [call EXCEPT ![p] = call[p]]
        /\ CallOK(call[p]) /\ HandleOK(call[p]) /\ IsBeginning(call[p].history, disk)
        /\ call[p].step = "handle" =>
              \A q \in Writers : q # p /\ call[q].step = "handle" => At(q) # At(p)
    BY Zenon, <1>2 DEF RuntimeInv, RuntimeTypeOK, CallsConsistent, LockExclusive, BusIsJournaled
  <1>4. CASE Open(p)
    <2>1. call' = call /\ cursor' = cursor /\ handled' = handled
      BY Zenon, <1>4 DEF Open
    <2>2. CallOK(call[p])' /\ HandleOK(call[p])'
      BY Zenon, <1>2, <1>3, <2>1 DEF CallOK, HandleOK, EventOnDisk
    <2>3. bus' = [bus EXCEPT ![p] = disk]
      BY Zenon, <1>4 DEF Open
    <2>4. bus' \in [Writers -> Seq(Event)] /\ \A q \in Writers : IsBeginning(bus'[q], disk')
      BY Zenon, <1>2, <2>3, BeginningReflexive DEF RuntimeInv, RuntimeTypeOK, BusIsJournaled
    <2>5. /\ up' \in [Writers -> BOOLEAN]
          /\ registered' \in [Writers -> SUBSET Consumers]
          /\ blamed' \in SUBSET Consumers
      BY Zenon, <1>2, <1>4 DEF Open, RuntimeTypeOK
    <2> QED BY Zenon, <1>1, <1>2, <1>3, <2>1, <2>2, <2>4, <2>5, QuietStep DEF At
  <1>5. CASE OpenFails(p)
    <2>1. UNCHANGED runtimeVars
      BY Zenon, <1>5 DEF OpenFails
    <2>2. CallOK(call[p])' /\ HandleOK(call[p])'
      BY Zenon, <1>2, <1>3, <2>1 DEF CallOK, HandleOK, EventOnDisk, runtimeVars
    <2>3. bus' \in [Writers -> Seq(Event)] /\ \A q \in Writers : IsBeginning(bus'[q], disk')
      BY Zenon, <1>1, <2>1, BusesKept DEF runtimeVars
    <2>4. /\ up' \in [Writers -> BOOLEAN]
          /\ registered' \in [Writers -> SUBSET Consumers]
          /\ blamed' \in SUBSET Consumers
      BY Zenon, <1>2, <2>1 DEF runtimeVars, RuntimeTypeOK
    <2> QED BY Zenon, <1>1, <1>2, <1>3, <2>1, <2>2, <2>3, <2>4, QuietStep DEF At, runtimeVars
  <1>6. CASE Crash(p)
    <2>1. bus' \in [Writers -> Seq(Event)] /\ \A q \in Writers : IsBeginning(bus'[q], disk')
      BY <1>2, <1>6, EmptySeq, BeginningReflexive
      DEF Crash, RuntimeInv, RuntimeTypeOK, BusIsJournaled
    <2>2. /\ up' \in [Writers -> BOOLEAN]
          /\ registered' \in [Writers -> SUBSET Consumers]
          /\ blamed' \in SUBSET Consumers
      BY Zenon, <1>2, <1>6 DEF Crash, RuntimeTypeOK
    <2>3. call' = [call EXCEPT ![p] = Idle] /\ UNCHANGED <<cursor, handled>>
      BY Zenon, <1>6 DEF Crash
    <2>4. IsBeginning(Idle.history, disk')
      BY Zenon, <1>2, IdleCall, BeginningReflexive
    <2> QED BY Zenon, <1>1, <2>1, <2>2, <2>3, <2>4, IdleCall, QuietStep
  <1> QED BY Zenon, <1>4, <1>5, <1>6

\* publish up to its consumers: the event is on disk at its place before
\* anything is told of it.
LEMMA PublishStep ==
    ASSUME RuntimeInv, NEW p \in Writers, NEW e \in Offered, Publish(p, e)
    PROVE  RuntimeInv'
PROOF
  <1>1. JournalNext
    BY Zenon DEF Publish, JournalNext
  <1>2. JournalInv /\ JournalTypeOK /\ RuntimeTypeOK /\ disk \in Seq(Event)
    BY Zenon DEF RuntimeInv, JournalInv, JournalTypeOK
  <1>3. e \in Event
    BY Zenon, <1>2, OfferedType
  <1>4. disk' = Append(disk, e) /\ e.sequence = Len(disk) + 1
    <2>1. AppendState(p) = disk
      BY Zenon, <1>2, TailPrefixCoherent DEF TailCoherent, AppendState
    <2> QED BY Zenon, <2>1 DEF Publish, AppendEvent, ValidateNextEvent
  <1>5. /\ disk' \in Seq(Event) /\ IsBeginning(disk, disk')
        /\ Len(disk) \in Nat /\ Len(disk') = Len(disk) + 1
        /\ disk'[Len(disk) + 1] = e
    BY <1>1, <1>2, <1>3, <1>4, JournalGrows
  <1>6. bus' \in [Writers -> Seq(Event)] /\ \A q \in Writers : IsBeginning(bus'[q], disk')
    <2>1. CASE ~BusAccepts(p, e)
      BY Zenon, <1>1, <2>1, BusesKept DEF Publish
    <2>2. CASE BusAccepts(p, e)
      <3>1. bus' = [bus EXCEPT ![p] = Append(bus[p], e)]
        BY Zenon, <2>2 DEF Publish
      <3>2. bus \in [Writers -> Seq(Event)] /\ bus[p] \in Seq(Event) /\ Len(bus[p]) \in Nat
        BY <1>2 DEF RuntimeTypeOK
      <3>3. \A q \in Writers : IsBeginning(bus[q], disk)
        BY Zenon DEF RuntimeInv, BusIsJournaled
      <3>4. Len(bus[p]) = Len(disk)
        BY <1>4, <1>5, <2>2, <3>2 DEF BusAccepts, ValidateNextEvent
      <3>5. IsBeginning(Append(bus[p], e), disk')
        <4>1. \A i \in 1..Len(disk) : Append(bus[p], e)[i] = disk'[i]
          BY <1>5, <3>2, <3>3, <3>4 DEF IsBeginning
        <4>2. Len(Append(bus[p], e)) = Len(disk) + 1 /\ Append(bus[p], e)[Len(disk) + 1] = e
          BY <1>3, <3>2, <3>4
        <4> QED BY <1>5, <4>1, <4>2 DEF IsBeginning
      <3>6. \A q \in Writers : q # p => bus'[q] = bus[q] /\ bus[q] \in Seq(Event)
        BY Zenon, <3>1, <3>2
      <3>7. \A q \in Writers : q # p => IsBeginning(bus'[q], disk')
        BY Zenon, <1>2, <1>5, <3>3, <3>6, GrowthKeeps
      <3> QED BY <1>3, <3>1, <3>2, <3>5, <3>7
    <2> QED BY Zenon, <2>1, <2>2
  <1>7. /\ up' \in [Writers -> BOOLEAN]
        /\ registered' \in [Writers -> SUBSET Consumers]
        /\ blamed' \in SUBSET Consumers
        /\ UNCHANGED <<cursor, handled>>
    BY Zenon, <1>2 DEF Publish, RuntimeTypeOK
  <1>8. CASE registered[p] = {}
    <2>1. call' = [call EXCEPT ![p] = Idle]
      BY Zenon, <1>8 DEF Publish
    <2>2. IsBeginning(Idle.history, disk')
      BY Zenon, <1>5, IdleCall, BeginningReflexive
    <2> QED BY Zenon, <1>1, <1>6, <1>7, <2>1, <2>2, IdleCall, QuietStep
  <1>9. CASE registered[p] # {}
    <2>0. PICK k : k = PublishCall(p, e)
      BY Zenon
    <2>1. call' = [call EXCEPT ![p] = k]
      BY Zenon, <1>9, <2>0 DEF Publish
    <2>2. /\ k.step \in {"dispatch", "load"} /\ k.subscribing = FALSE
          /\ k.committed = BusAccepts(p, e) /\ k.event = <<e>>
          /\ k.previous = TailHash(bus[p]) /\ k.known = FALSE
          /\ k.history = <<>> /\ k.todo = registered[p]
      BY Zenon, <2>0 DEF PublishCall
    <2>3. k \in CallType
      <3>1. TailHash(bus[p]) \in Digest
        BY Zenon, <1>2, HashType DEF RuntimeTypeOK
      <3>2. registered[p] \in SUBSET Consumers /\ <<e>> \in Seq(Event) /\ <<>> \in Seq(Event)
        BY <1>2, <1>3 DEF RuntimeTypeOK
      <3>3. BusAccepts(p, e) \in BOOLEAN
        BY Zenon DEF BusAccepts, ValidateNextEvent
      <3> QED BY Zenon, <2>0, <3>1, <3>2, <3>3 DEF PublishCall, CallType, Steps
    <2>4. CallOK(k)'
      BY <1>4, <1>5, <1>9, <2>2 DEF CallOK, EventOnDisk
    <2>5. HandleOK(k)' /\ k.step # "handle"
      BY Zenon, <2>2 DEF HandleOK
    <2>6. IsBeginning(k.history, disk')
      BY Zenon, <1>5, <2>2, BeginningReflexive
    <2> QED BY Zenon, <1>1, <1>6, <1>7, <2>1, <2>3, <2>4, <2>5, <2>6, QuietStep
  <1> QED BY Zenon, <1>8, <1>9

\* A publish that fails, a load, and the start of a subscription.
LEMMA LoadSteps ==
    ASSUME RuntimeInv, NEW p \in Writers,
           \/ \E e \in Offered : PublishFails(p, e)
           \/ \E c \in Consumers : Subscribe(p, c)
           \/ LoadHistory(p)
           \/ LoadHistoryFails(p)
    PROVE  RuntimeInv'
PROOF
  <1>1. JournalNext
    BY Zenon DEF PublishFails, Subscribe, LoadHistory, LoadHistoryFails, JournalNext
  <1>2. RuntimeTypeOK /\ disk \in Seq(Event)
    BY Zenon DEF RuntimeInv, JournalInv, JournalTypeOK
  <1>3. /\ disk' \in Seq(Event) /\ IsBeginning(disk, disk')
        /\ \A s \in Seq(Event) : IsBeginning(s, disk) => IsBeginning(s, disk')
        /\ \A k \in CallType : EventOnDisk(k) => EventOnDisk(k)'
    BY Zenon, <1>1, <1>2, JournalGrows, GrowthKeeps DEF RuntimeInv
  <1>4. /\ UNCHANGED <<up, bus, registered, cursor, handled, blamed>>
    BY Zenon DEF PublishFails, Subscribe, LoadHistory, LoadHistoryFails, runtimeVars
  <1>5. /\ up' \in [Writers -> BOOLEAN]
        /\ registered' \in [Writers -> SUBSET Consumers]
        /\ blamed' \in SUBSET Consumers
        /\ bus' \in [Writers -> Seq(Event)]
        /\ \A q \in Writers : IsBeginning(bus'[q], disk')
    BY Zenon, <1>1, <1>2, <1>4, BusesKept DEF RuntimeTypeOK
  <1>6. /\ call[p] \in CallType /\ call = [call EXCEPT ![p] = call[p]]
        /\ CallOK(call[p]) /\ HandleOK(call[p]) /\ IsBeginning(call[p].history, disk)
        /\ call[p].history \in Seq(Event)
        /\ call[p].step = "handle" =>
              \A q \in Writers : q # p /\ call[q].step = "handle" => At(q) # At(p)
    BY Zenon, <1>2 DEF RuntimeInv, RuntimeTypeOK, CallsConsistent, LockExclusive, BusIsJournaled,
       CallType
  <1>7. CASE \E e \in Offered : PublishFails(p, e)
    <2>1. call' = call
      BY Zenon, <1>7 DEF PublishFails, runtimeVars
    <2>2. CallOK(call[p])
      BY Zenon, <1>6
    <2>3. EventOnDisk(call[p]) => EventOnDisk(call[p])'
      BY Zenon, <1>3, <1>6, <2>1 DEF EventOnDisk
    <2>4. CallOK(call[p])' /\ HandleOK(call[p])'
      BY Zenon, <1>4, <1>6, <2>1, <2>3 DEF CallOK, HandleOK
    <2>5. JournalNext /\ UNCHANGED <<cursor, handled>> /\ IsBeginning(call[p].history, disk')
      BY Zenon, <1>1, <1>3, <1>4, <1>6
    <2> QED BY Zenon, <1>5, <1>6, <2>1, <2>4, <2>5, QuietStep DEF At
  <1>8. CASE \E c \in Consumers : Subscribe(p, c)
    <2>1. PICK c \in Consumers : Subscribe(p, c)
      BY Zenon, <1>8
    <2>0. PICK k : k = CatchUpCall(c)
      BY Zenon
    <2>2. call' = [call EXCEPT ![p] = k] /\ disk' = disk
      BY Zenon, <2>0, <2>1 DEF Subscribe, LoadJournal
    <2>3. k \in CallType
      BY Zenon, <1>2, <2>0, EmptySeq DEF CatchUpCall, CallType, Steps, Genesis, Digest
    <2>4. /\ k.step = "dispatch" /\ k.todo = {c} /\ k.known = TRUE /\ k.history = disk
      BY Zenon, <2>0 DEF CatchUpCall
    <2>5. CallOK(k)' /\ HandleOK(k)' /\ IsBeginning(k.history, disk')
      BY Zenon, <1>3, <2>4 DEF CallOK, HandleOK
    <2> QED BY Zenon, <1>1, <1>4, <1>5, <2>2, <2>3, <2>4, <2>5, QuietStep
  <1>9. CASE LoadHistory(p)
    <2>0. PICK k : k = [call[p] EXCEPT !.step = "dispatch", !.known = TRUE,
                                      !.history = disk]
      BY Zenon
    <2>1. call' = [call EXCEPT ![p] = k] /\ disk' = disk /\ call[p].step = "load"
      BY Zenon, <1>9, <2>0 DEF LoadHistory, LoadJournal
    <2>2. k \in CallType
      BY Zenon, <1>2, <1>6, <2>0 DEF CallType, Steps
    <2>3. /\ k.step = "dispatch" /\ k.todo = call[p].todo /\ k.known = TRUE
          /\ k.history = disk
      BY Zenon, <1>6, <2>0 DEF CallType
    <2>4. CallOK(k)' /\ HandleOK(k)' /\ IsBeginning(k.history, disk')
      BY Zenon, <1>3, <1>6, <2>1, <2>3 DEF CallOK, HandleOK
    <2> QED BY Zenon, <1>1, <1>4, <1>5, <2>1, <2>2, <2>3, <2>4, QuietStep
  <1>10. CASE LoadHistoryFails(p)
    <2>1. call[p].step = "load" /\ disk' = disk
      BY Zenon, <1>10 DEF LoadHistoryFails, LoadTorn
    <2>2. call[p].todo # {}
      BY Zenon, <1>6, <2>1 DEF CallOK
    <2>3. CASE call[p].committed
      <3>0. PICK k : k = Served(call[p])
        BY Zenon
      <3>1. call' = [call EXCEPT ![p] = k]
        BY Zenon, <1>10, <2>3, <3>0 DEF LoadHistoryFails, Serve
      <3>2. /\ k \in CallType /\ k.step # "handle"
            /\ k.history \in {call[p].history, <<>>}
            /\ k.step # "idle" => /\ k.todo # {} /\ k.known = call[p].known
                                  /\ k.event = call[p].event
        BY Zenon, <1>6, <2>2, <3>0, ServedCall
      <3>3. CallOK(k)' /\ HandleOK(k)'
        BY Zenon, <1>6, <2>1, <3>2 DEF CallOK, HandleOK, EventOnDisk
      <3>4. IsBeginning(k.history, disk')
        BY Zenon, <1>3, <1>6, <3>2, BeginningReflexive
      <3> QED BY Zenon, <1>1, <1>4, <1>5, <3>1, <3>2, <3>3, <3>4, QuietStep
    <2>4. CASE ~call[p].committed
      <3>1. call' = [call EXCEPT ![p] = Idle]
        BY Zenon, <1>10, <2>4 DEF LoadHistoryFails
      <3>2. IsBeginning(Idle.history, disk')
        BY Zenon, <1>3, IdleCall, BeginningReflexive
      <3> QED BY Zenon, <1>1, <1>4, <1>5, <3>1, <3>2, IdleCall, QuietStep
    <2> QED BY Zenon, <2>3, <2>4
  <1> QED BY Zenon, <1>7, <1>8, <1>9, <1>10

\* Going on to the next consumer leaves a well-formed call.
LEMMA ServedOK ==
    ASSUME RuntimeInv, NEW p \in Writers, call[p].step # "idle", disk' = disk,
           NEW k, k = Served(call[p])
    PROVE  /\ k \in CallType /\ k.step # "handle"
           /\ CallOK(k)' /\ HandleOK(k)' /\ IsBeginning(k.history, disk')
PROOF
  <1>1. /\ call[p] \in CallType /\ CallOK(call[p]) /\ call[p].todo # {}
        /\ IsBeginning(call[p].history, disk) /\ disk \in Seq(Event)
    BY Zenon DEF RuntimeInv, RuntimeTypeOK, CallsConsistent, CallOK, BusIsJournaled,
       JournalInv, JournalTypeOK
  <1>2. /\ k \in CallType /\ k.step # "handle"
        /\ k.history \in {call[p].history, <<>>}
        /\ k.step # "idle" => /\ k.todo # {} /\ k.known = call[p].known
                              /\ k.event = call[p].event
    BY Zenon, <1>1, ServedCall
  <1>3. CallOK(k)' /\ HandleOK(k)'
    BY Zenon, <1>1, <1>2 DEF CallOK, HandleOK, EventOnDisk
  <1>4. IsBeginning(k.history, disk')
    BY Zenon, <1>1, <1>2, BeginningReflexive
  <1> QED BY Zenon, <1>2, <1>3, <1>4

\* The decision deliver_next and deliver_pending take under the consumer lock.
LEMMA DispatchSteps ==
    ASSUME RuntimeInv, NEW p \in Writers, DeliverNext(p) \/ DeliverPending(p)
    PROVE  RuntimeInv'
PROOF
  <1>1. /\ UNCHANGED journalVars /\ disk' = disk
        /\ UNCHANGED <<up, bus, cursor, handled>>
        /\ call[p].step = "dispatch" /\ ~Locked(At(p))
    BY Zenon DEF DeliverNext, DeliverPending, Dispatching, journalVars
  <1>2. RuntimeTypeOK /\ disk \in Seq(Event)
    BY Zenon DEF RuntimeInv, JournalInv, JournalTypeOK
  <1>3. /\ call[p] \in CallType /\ CallOK(call[p]) /\ call[p].todo # {}
        /\ call[p].todo \in SUBSET Consumers /\ At(p) \in Consumers
        /\ IsBeginning(call[p].history, disk)
    BY Zenon, <1>1, <1>2, MinIsMember
    DEF RuntimeInv, RuntimeTypeOK, CallsConsistent, CallOK, BusIsJournaled, CallType, At
  <1>4. /\ up' \in [Writers -> BOOLEAN]
        /\ bus' \in [Writers -> Seq(Event)]
        /\ \A q \in Writers : IsBeginning(bus'[q], disk')
    BY Zenon, <1>1, <1>2 DEF RuntimeInv, RuntimeTypeOK, BusIsJournaled
  <1>5. registered' \in [Writers -> SUBSET Consumers] /\ blamed' \in SUBSET Consumers
    <2>1. registered \in [Writers -> SUBSET Consumers] /\ blamed \in SUBSET Consumers
      BY Zenon, <1>2 DEF RuntimeTypeOK
    <2>2. registered' = registered
             \/ registered' = [registered EXCEPT ![p] = registered[p] \cup call[p].todo]
      BY Zenon DEF DeliverNext, DeliverPending, BeginHandling, Register
    <2>3. blamed' = blamed \/ blamed' = blamed \cup {At(p)}
      BY Zenon DEF DeliverNext, DeliverPending, BeginHandling
    <2> QED BY Zenon, <1>3, <2>1, <2>2, <2>3
  <1>6. CASE Serve(p)
    <2>1. PICK k : k = Served(call[p])
      BY Zenon
    <2>2. call' = [call EXCEPT ![p] = k]
      BY Zenon, <1>6, <2>1 DEF Serve
    <2>3. /\ k \in CallType /\ k.step # "handle"
          /\ CallOK(k)' /\ HandleOK(k)' /\ IsBeginning(k.history, disk')
      BY Zenon, <1>1, <2>1, ServedOK
    <2> QED BY Zenon, <1>1, <1>4, <1>5, <2>2, <2>3, QuietStep
  <1>7. CASE call' = [call EXCEPT ![p].step = "load"] /\ ~call[p].known
    <2>1. PICK k : k = [call[p] EXCEPT !.step = "load"]
      BY Zenon
    <2>2. call' = [call EXCEPT ![p] = k]
      BY Zenon, <1>7, <2>1
    <2>3. /\ k \in CallType /\ k.step = "load" /\ k.todo = call[p].todo
          /\ k.known = call[p].known /\ k.event = call[p].event
          /\ k.history = call[p].history
      BY Zenon, <1>3, <2>1 DEF CallType, Steps
    <2>4. CallOK(k)' /\ HandleOK(k)' /\ IsBeginning(k.history, disk')
      BY Zenon, <1>1, <1>3, <2>3 DEF CallOK, HandleOK, EventOnDisk
    <2> QED BY Zenon, <1>1, <1>4, <1>5, <2>2, <2>3, <2>4, QuietStep
  <1>8. CASE /\ BeginHandling(p)
             /\ IF call[p].known THEN cursor[At(p)].sequence < Len(call[p].history)
                ELSE Contiguous(call[p], cursor[At(p)])
    <2>1. PICK k : k = [call[p] EXCEPT !.step = "handle"]
      BY Zenon
    <2>2. call' = [call EXCEPT ![p] = k]
      BY Zenon, <1>8, <2>1 DEF BeginHandling
    <2>3. /\ k \in CallType /\ k.step = "handle" /\ k.todo = call[p].todo
          /\ k.known = call[p].known /\ k.event = call[p].event
          /\ k.history = call[p].history
      BY Zenon, <1>3, <2>1 DEF CallType, Steps
    <2>4. CallOK(k)' /\ IsBeginning(k.history, disk')
      BY Zenon, <1>1, <1>3, <2>3 DEF CallOK, EventOnDisk
    <2>5. HandleOK(k)'
      <3>1. Min(k.todo) = At(p)
        BY Zenon, <2>3 DEF At
      <3>2. CASE k.known
        BY Zenon, <1>1, <1>8, <2>3, <3>1, <3>2 DEF HandleOK
      <3>3. CASE ~k.known
        <4>1. EventOnDisk(call[p])
          BY Zenon, <1>1, <1>3, <2>3, <3>3 DEF CallOK
        <4>2. call[p].event[1].sequence \in Nat
          BY <1>2, <4>1, LenProperties DEF EventOnDisk
        <4>3. cursor[At(p)].sequence = call[p].event[1].sequence - 1
          BY Zenon, <1>8, <2>3, <3>3 DEF Contiguous
        <4> QED BY <1>1, <2>3, <3>1, <3>3, <4>2, <4>3 DEF HandleOK
      <3> QED BY Zenon, <3>2, <3>3
    <2>6. \A q \in Writers : q # p /\ call[q].step = "handle" => At(q) # Min(k.todo)
      BY Zenon, <1>1, <2>3 DEF Locked, At
    <2> QED BY Zenon, <1>1, <1>4, <1>5, <2>2, <2>3, <2>4, <2>5, <2>6, QuietStep
  <1>9. CASE DeliverNext(p)
    BY Zenon, <1>6, <1>7, <1>8, <1>9 DEF DeliverNext
  <1>10. CASE DeliverPending(p)
    BY Zenon, <1>6, <1>8, <1>10 DEF DeliverPending
  <1> QED BY Zenon, <1>9, <1>10

\* A handler that returned and was acknowledged, or that failed: the consumer's
\* cursor stays on the journal, its handled events stay a beginning of it.
LEMMA HandleSteps ==
    ASSUME RuntimeInv, NEW p \in Writers, Handle(p) \/ HandleFails(p)
    PROVE  RuntimeInv'
PROOF
  <1>1. /\ UNCHANGED <<disk, torn, tail, checkpoint, up, bus, blamed>>
        /\ UNCHANGED journalVars
        /\ call[p].step = "handle"
    BY Zenon DEF Handle, HandleFails, journalVars
  <1> DEFINE c == At(p)
  <1> DEFINE e == InHand(p)
  <1> DEFINE n == cursor[c].sequence
  <1>2. /\ c \in Consumers /\ n \in Nat /\ n + 1 \in 1..Len(disk)
        /\ e = disk[n + 1] /\ e \in Event /\ e.sequence = n + 1
    BY Zenon, <1>1, InHandIsNext
  <1>3. /\ RuntimeTypeOK /\ disk \in Seq(Event) /\ JournalInv
        /\ CursorOnJournal /\ HandledInOrder /\ OneInDoubt /\ LockExclusive
        /\ cursor \in [Consumers -> [sequence : Nat, event_hash : Digest]]
        /\ handled \in [Consumers -> Seq(Event)]
        /\ registered \in [Writers -> SUBSET Consumers]
        /\ call[p] \in CallType /\ call[p].todo \in SUBSET Consumers
    BY Zenon DEF RuntimeInv, JournalInv, JournalTypeOK, RuntimeTypeOK, CallType
  <1>4. JournalInv'
    BY Zenon, <1>1, <1>3, JournalGrows
  <1>5. \/ cursor' = cursor
        \/ /\ cursor' = [cursor EXCEPT ![c] = CursorAt(e)]
           /\ RunHandler(c, e)
    BY Zenon DEF Handle, HandleFails
  <1>6. RunHandler(c, e) \/ handled' = handled
    BY Zenon DEF Handle, HandleFails
  <1>7. CursorAt(e) \in [sequence : Nat, event_hash : Digest] /\ CursorAt(e).sequence = n + 1
    BY <1>2, HashType DEF CursorAt
  <1>8. /\ cursor' \in [Consumers -> [sequence : Nat, event_hash : Digest]]
        /\ \A d \in Consumers : d # c => cursor'[d] = cursor[d]
        /\ cursor'[c] \in {cursor[c], CursorAt(e)}
        /\ cursor'[c] # cursor[c] => RunHandler(c, e)
    BY Zenon, <1>2, <1>3, <1>5, <1>7
  <1> HIDE DEF c, e, n
  <1>9. /\ handled' \in [Consumers -> Seq(Event)]
        /\ \A d \in Consumers : d # c => handled'[d] = handled[d]
        /\ IsBeginning(handled'[c], disk)
        /\ RunHandler(c, e) => Len(handled'[c]) = n + 1
        /\ Len(handled'[c]) \in n .. n + 1
    <2>1. CASE RunHandler(c, e)
      <3>1. Len(handled'[c]) = n + 1 => Len(handled'[c]) \in n .. n + 1
        BY <1>2
      <3> QED BY Zenon, <1>2, <2>1, <3>1, HandlerRuns DEF n
    <2>2. CASE ~RunHandler(c, e) /\ handled' = handled
      BY Zenon, <1>2, <1>3, <2>2 DEF HandledInOrder, OneInDoubt, n
    <2> QED BY Zenon, <1>6, <2>1, <2>2
  <1>10. HandledInOrder'
    BY Zenon, <1>1, <1>3, <1>9 DEF HandledInOrder
  <1>11. OneInDoubt'
    <2>1. ASSUME NEW d \in Consumers
          PROVE  Len(handled'[d]) \in cursor'[d].sequence .. cursor'[d].sequence + 1
      <3>1. CASE d # c
        BY Zenon, <1>3, <1>8, <1>9, <3>1 DEF OneInDoubt
      <3>2. CASE d = c /\ cursor'[c] = cursor[c]
        BY Zenon, <1>9, <3>2 DEF n
      <3>3. CASE d = c /\ cursor'[c] # cursor[c]
        BY <1>2, <1>7, <1>8, <1>9, <3>3
      <3> QED BY Zenon, <3>1, <3>2, <3>3
    <2> QED BY Zenon, <2>1 DEF OneInDoubt
  <1>12. CursorOnJournal'
    <2>1. ASSUME NEW d \in Consumers
          PROVE  OnHistory(cursor'[d], disk)
      <3>1. CASE cursor'[d] = cursor[d]
        BY Zenon, <1>3, <3>1 DEF CursorOnJournal
      <3>2. CASE cursor'[d] # cursor[d]
        <4>1. cursor'[d] = CursorAt(e)
          BY Zenon, <1>8, <3>2
        <4> QED BY <1>2, <1>7, <4>1 DEF OnHistory
      <3> QED BY Zenon, <3>1, <3>2
    <2> QED BY Zenon, <1>1, <2>1 DEF CursorOnJournal
  <1>13. \A q \in Writers : q # p /\ call[q].step = "handle" =>
            cursor'[At(q)] = cursor[At(q)]
    <2>1. \A q \in Writers : q # p /\ call[q].step = "handle" =>
             At(q) # c /\ At(q) \in Consumers
      BY Zenon, <1>1, <1>3, InHandIsNext DEF LockExclusive, c
    <2> QED BY Zenon, <1>8, <2>1
  <1>14. registered' \in [Writers -> SUBSET Consumers]
    <2>1. registered' = registered
             \/ registered' = [registered EXCEPT ![p] = registered[p] \cup call[p].todo]
      BY Zenon DEF Handle, HandleFails, Register
    <2> QED BY Zenon, <1>3, <2>1
  <1>15. IsBeginning(disk, disk') /\ disk' \in Seq(Event)
    BY Zenon, <1>1, <1>3, BeginningReflexive
  <1>16. CASE Serve(p)
    <2>1. PICK k : k = Served(call[p])
      OBVIOUS
    <2>2. call' = [call EXCEPT ![p] = k]
      BY <1>16, <2>1 DEF Serve
    <2>3. /\ k \in CallType /\ k.step # "handle"
          /\ CallOK(k)' /\ HandleOK(k)' /\ IsBeginning(k.history, disk')
      BY Zenon, <1>1, <2>1, ServedOK
    <2>4. /\ call' \in [Writers -> CallType] /\ CallsConsistent' /\ LockExclusive'
          /\ \A q \in Writers : IsBeginning(call'[q].history, disk')
      BY Zenon, <1>13, <1>15, <2>2, <2>3, CallUpdate
    <2>5. BusIsJournaled' /\ RuntimeTypeOK'
      BY Zenon, <1>1, <1>3, <1>8, <1>9, <1>14, <2>4 DEF RuntimeInv, BusIsJournaled, RuntimeTypeOK
    <2> QED BY <1>4, <1>10, <1>11, <1>12, <2>4, <2>5 DEF RuntimeInv
  <1>17. CASE /\ call' = call /\ cursor' = [cursor EXCEPT ![c] = CursorAt(e)]
              /\ call[p].known /\ e.sequence < Len(call[p].history)
    <2>1. PICK k : k = call[p]
      BY Zenon
    <2>2. call' = [call EXCEPT ![p] = k] /\ k \in CallType
      BY Zenon, <1>3, <1>17, <2>1 DEF RuntimeTypeOK
    <2>3. /\ k.known /\ Min(k.todo) = c /\ cursor'[c].sequence = e.sequence
          /\ e.sequence < Len(k.history)
      BY Zenon, <1>2, <1>3, <1>7, <1>17, <2>1 DEF At, c
    <2>4. CallOK(k)' /\ HandleOK(k)'
      BY Zenon, <1>1, <2>1, <2>3 DEF RuntimeInv, CallsConsistent, CallOK, HandleOK
    <2>5. IsBeginning(k.history, disk')
      BY Zenon, <1>1, <2>1 DEF RuntimeInv, BusIsJournaled
    <2>6. \A q \in Writers : q # p /\ call[q].step = "handle" => At(q) # Min(k.todo)
      BY Zenon, <1>1, <1>3, <2>1 DEF LockExclusive, At
    <2>7. /\ call' \in [Writers -> CallType] /\ CallsConsistent' /\ LockExclusive'
          /\ \A q \in Writers : IsBeginning(call'[q].history, disk')
      BY Zenon, <1>13, <1>15, <2>2, <2>4, <2>5, <2>6, CallUpdate
    <2>8. BusIsJournaled' /\ RuntimeTypeOK'
      BY <1>1, <1>3, <1>8, <1>9, <1>14, <2>7 DEF RuntimeInv, BusIsJournaled, RuntimeTypeOK
    <2> QED BY <1>4, <1>10, <1>11, <1>12, <2>7, <2>8 DEF RuntimeInv
  <1>18. CASE Handle(p)
    BY Zenon, <1>16, <1>17, <1>18 DEF Handle, c, e
  <1>19. CASE HandleFails(p)
    BY Zenon, <1>16, <1>19 DEF HandleFails
  <1> QED BY <1>18, <1>19

\* Every step preserves the invariant.
LEMMA RuntimeInductive ==
    RuntimeInv /\ [Next]_vars => RuntimeInv'
PROOF
  <1> SUFFICES ASSUME RuntimeInv, [Next]_vars PROVE RuntimeInv'
    BY Zenon
  <1>1. CASE UNCHANGED vars
    BY <1>1 DEF vars, journalVars, runtimeVars, RuntimeInv, JournalInv, JournalTypeOK,
       ChainIntact, TailIsPrefix, CheckpointOnChain, RuntimeTypeOK, BusIsJournaled,
       CursorOnJournal, HandledInOrder, OneInDoubt, CallsConsistent, LockExclusive,
       CallOK, HandleOK, EventOnDisk, At
  <1>2. CASE Next
    <2>1. PICK p \in Writers :
             \/ Open(p) \/ OpenFails(p) \/ Crash(p)
             \/ \E e \in Offered : Publish(p, e)
             \/ \E e \in Offered : PublishFails(p, e)
             \/ \E c \in Consumers : Subscribe(p, c)
             \/ Continue(p)
      BY Zenon, <1>2 DEF Next
    <2>2. CASE Open(p) \/ OpenFails(p) \/ Crash(p)
      BY Zenon, <2>2, ProcessSteps
    <2>3. CASE \E e \in Offered : Publish(p, e)
      BY Zenon, <2>3, PublishStep
    <2>4. CASE \/ \E e \in Offered : PublishFails(p, e)
               \/ \E c \in Consumers : Subscribe(p, c)
      BY Zenon, <2>4, LoadSteps
    <2>5. CASE Continue(p)
      BY Zenon, <2>5, LoadSteps, DispatchSteps, HandleSteps DEF Continue
    <2> QED BY Zenon, <2>1, <2>2, <2>3, <2>4, <2>5
  <1> QED BY Zenon, <1>1, <1>2

\* A journal that nobody has opened satisfies the invariant.
LEMMA RuntimeStarts == Init => RuntimeInv
PROOF
  <1> SUFFICES ASSUME Init PROVE RuntimeInv
    BY Zenon
  <1>1. JournalInv /\ disk = <<>>
    BY Zenon, JournalInductive DEF Init, JournalInit
  <1>2. Idle \in CallType /\ Idle.step = "idle" /\ Idle.history = <<>>
    BY Zenon, IdleCall
  <1>3. NoCursor \in [sequence : Nat, event_hash : Digest] /\ NoCursor.sequence = 0
    BY Zenon, EmptySeq DEF NoCursor, Genesis, Digest
  <1>4. RuntimeTypeOK
    BY Zenon, <1>2, <1>3, EmptySeq DEF Init, RuntimeTypeOK
  <1>5. BusIsJournaled /\ HandledInOrder
    BY <1>1, <1>2 DEF Init, BusIsJournaled, HandledInOrder, IsBeginning
  <1>6. CursorOnJournal /\ OneInDoubt
    BY <1>3 DEF Init, CursorOnJournal, OneInDoubt, OnHistory
  <1>7. CallsConsistent /\ LockExclusive
    BY Zenon, <1>2 DEF Init, CallsConsistent, LockExclusive, CallOK, HandleOK
  <1> QED BY Zenon, <1>1, <1>4, <1>5, <1>6, <1>7 DEF RuntimeInv

-----------------------------------------------------------------------------
(* The theorems.                                                           *)

\* Persist first (publish, __post_init__): the bus of every process and the
\* history every call works on are beginnings of the file.
THEOREM RuntimePersistsFirst == Spec => []BusIsJournaled
PROOF
  <1>1. RuntimeInv => BusIsJournaled
    BY Zenon DEF RuntimeInv
  <1> QED BY <1>1, RuntimeStarts, RuntimeInductive, PTL DEF Spec

\* A consumer's checkpoint always names an event of the journal
\* (_write_unlocked, _next_index).
THEOREM RuntimeCursorOnJournal == Spec => []CursorOnJournal
PROOF
  <1>1. RuntimeInv => CursorOnJournal
    BY Zenon DEF RuntimeInv
  <1> QED BY <1>1, RuntimeStarts, RuntimeInductive, PTL DEF Spec

\* Handlers are run on the journal's events in order and without a gap, by
\* however many processes (deliver_next, deliver_pending).
THEOREM RuntimeHandlesInOrder == Spec => []HandledInOrder
PROOF
  <1>1. RuntimeInv => HandledInOrder
    BY Zenon DEF RuntimeInv
  <1> QED BY <1>1, RuntimeStarts, RuntimeInductive, PTL DEF Spec

\* Only the event behind the checkpoint can be run twice, and nothing is
\* acknowledged that was not run (_deliver_event_unlocked).
THEOREM RuntimeOneInDoubt == Spec => []OneInDoubt
PROOF
  <1>1. RuntimeInv => OneInDoubt
    BY Zenon DEF RuntimeInv
  <1> QED BY <1>1, RuntimeStarts, RuntimeInductive, PTL DEF Spec

\* What one step of the runtime does to the file, the checkpoints and the
\* handled events.
LEMMA StepOfTopic ==
    ASSUME RuntimeInv, Next
    PROVE  \/ /\ UNCHANGED <<cursor, handled>>
              /\ \/ disk' = disk
                 \/ /\ Len(disk') = Len(disk) + 1
                    /\ \A i \in 1..Len(disk) : disk'[i] = disk[i]
           \/ \E c \in Consumers, e \in Event :
                 /\ disk' = disk
                 /\ cursor[c].sequence + 1 \in 1..Len(disk)
                 /\ e = disk[cursor[c].sequence + 1]
                 /\ e.sequence = cursor[c].sequence + 1
                 /\ RunHandler(c, e)
                 /\ cursor' \in {cursor, [cursor EXCEPT ![c] = CursorAt(e)]}
PROOF
  <1>1. PICK p \in Writers :
           \/ Open(p) \/ OpenFails(p) \/ Crash(p)
           \/ \E e \in Offered : Publish(p, e)
           \/ \E e \in Offered : PublishFails(p, e)
           \/ \E c \in Consumers : Subscribe(p, c)
           \/ Continue(p)
    BY DEF Next
  <1>2. disk' = disk \/ (Len(disk') = Len(disk) + 1 /\ \A i \in 1..Len(disk) : disk'[i] = disk[i])
    <2>1. disk \in Seq(Event) /\ JournalInv /\ RuntimeTypeOK
      BY Zenon DEF RuntimeInv, JournalInv, JournalTypeOK
    <2>2. CASE UNCHANGED journalVars
      BY Zenon, <2>2 DEF journalVars
    <2>3. CASE JournalNext
      <3>1. ASSUME NEW e \in Event, disk' = Append(disk, e)
            PROVE  Len(disk') = Len(disk) + 1 /\ \A i \in 1..Len(disk) : disk'[i] = disk[i]
        BY <2>1, <3>1
      <3> QED BY Zenon, <2>1, <2>3, <3>1, StepOfDisk
    <2> QED BY Zenon, <2>1, <2>2, <2>3, RuntimeStepsJournal
  <1>3. CASE Handle(p) \/ (HandleFails(p) /\ RunHandler(At(p), InHand(p)))
    <2>1. disk' = disk /\ call[p].step = "handle" /\ RunHandler(At(p), InHand(p))
      BY Zenon, <1>3 DEF Handle, HandleFails, journalVars
    <2>2. cursor' \in {cursor, [cursor EXCEPT ![At(p)] = CursorAt(InHand(p))]}
      BY Zenon, <1>3 DEF Handle, HandleFails
    <2> QED BY Zenon, <2>1, <2>2, InHandIsNext
  <1>4. CASE HandleFails(p) /\ ~RunHandler(At(p), InHand(p))
    BY Zenon, <1>2, <1>4 DEF HandleFails
  <1>5. CASE ~Handle(p) /\ ~HandleFails(p)
    <2>1. UNCHANGED <<cursor, handled>>
      BY Zenon, <1>1, <1>5 DEF Open, OpenFails, Crash, Publish, PublishFails, Subscribe, Continue,
         LoadHistory, LoadHistoryFails, DeliverNext, DeliverPending, runtimeVars
    <2> QED BY Zenon, <1>2, <2>1
  <1> QED BY Zenon, <1>3, <1>4, <1>5

\* A consumer's progress never goes back (_write_unlocked is only called with
\* the event behind the checkpoint).
THEOREM RuntimeCursorMonotone == Spec => CursorMonotone
PROOF
  <1> DEFINE Step == \A c \in Consumers : cursor'[c].sequence >= cursor[c].sequence
  <1>1. ASSUME RuntimeInv, [Next]_vars
        PROVE  [Step]_vars
    <2>1. cursor \in [Consumers -> [sequence : Nat, event_hash : Digest]]
      BY Zenon, <1>1 DEF RuntimeInv, RuntimeTypeOK
    <2>2. CASE cursor' = cursor
      BY <2>1, <2>2
    <2>3. ASSUME NEW c \in Consumers, NEW e \in Event,
                 e.sequence = cursor[c].sequence + 1,
                 cursor' = [cursor EXCEPT ![c] = CursorAt(e)]
          PROVE  Step
      <3>1. CursorAt(e).sequence = cursor[c].sequence + 1
        BY Zenon, <2>3 DEF CursorAt
      <3> QED BY <2>1, <2>3, <3>1
    <2> QED BY Zenon, <1>1, <2>2, <2>3, StepOfTopic
  <1>2. RuntimeInv /\ [Next]_vars => [Step]_vars
    BY Zenon, <1>1
  <1> QED BY <1>2, RuntimeStarts, RuntimeInductive, PTL DEF Spec, CursorMonotone

\* The runtime implements DurableTopic: however many processes publish, crash,
\* time out or take turns on a consumer, each step is one event added to one
\* log or one event handed to one consumer in order.
THEOREM RuntimeIsDurableTopic == Spec => IsDurableTopic
PROOF
  <1> DEFINE acked == [c \in Consumers |-> cursor[c].sequence]
  <1> DEFINE handed == [c \in Consumers |-> Len(handled[c])]
  <1>1. Init => Topic!Init
    BY DEF Init, JournalInit, Topic!Init, NoCursor
  <1>2. ASSUME RuntimeInv, [Next]_vars
        PROVE  [Topic!Next]_(Topic!vars)
    <2>1. CASE UNCHANGED vars
      BY Zenon, <2>1 DEF vars, journalVars, runtimeVars, Topic!vars
    <2>2. CASE UNCHANGED <<cursor, handled>> /\ disk' = disk
      BY Zenon, <2>2 DEF Topic!vars
    <2>3. CASE /\ UNCHANGED <<cursor, handled>>
               /\ Len(disk') = Len(disk) + 1
               /\ \A i \in 1..Len(disk) : disk'[i] = disk[i]
      BY Zenon, <2>3 DEF Topic!Next, Topic!Publish
    <2>4. ASSUME NEW c \in Consumers, NEW e \in Event, disk' = disk,
                 cursor[c].sequence + 1 \in 1..Len(disk),
                 e = disk[cursor[c].sequence + 1],
                 e.sequence = cursor[c].sequence + 1,
                 RunHandler(c, e),
                 cursor' \in {cursor, [cursor EXCEPT ![c] = CursorAt(e)]}
          PROVE  Topic!Deliver(c)
      <3>1. /\ cursor \in [Consumers -> [sequence : Nat, event_hash : Digest]]
            /\ disk \in Seq(Event) /\ Len(disk) \in Nat
        BY <1>2 DEF RuntimeInv, RuntimeTypeOK, JournalInv, JournalTypeOK
      <3>2. /\ \A d \in Consumers : d # c => handled'[d] = handled[d]
            /\ Len(handled'[c]) = cursor[c].sequence + 1
        BY Zenon, <1>2, <2>4, HandlerRuns
      <3>3. acked[c] < Len(disk)
        BY <2>4, <3>1
      <3>4. handed' = [handed EXCEPT ![c] = acked[c] + 1]
        BY Zenon, <3>2
      <3>5. CASE cursor' = cursor
        BY Zenon, <2>4, <3>3, <3>4, <3>5 DEF Topic!Deliver
      <3>6. CASE cursor' = [cursor EXCEPT ![c] = CursorAt(e)]
        <4>1. CursorAt(e).sequence = cursor[c].sequence + 1
          BY Zenon, <2>4 DEF CursorAt
        <4>2. acked' = [acked EXCEPT ![c] = acked[c] + 1]
          BY Zenon, <3>1, <3>6, <4>1
        <4> QED BY Zenon, <2>4, <3>3, <3>4, <4>2 DEF Topic!Deliver
      <3> QED BY Zenon, <2>4, <3>5, <3>6
    <2> QED BY Zenon, <1>2, <2>1, <2>2, <2>3, <2>4, StepOfTopic DEF Topic!Next
  <1>3. RuntimeInv /\ [Next]_vars => [Topic!Next]_(Topic!vars)
    BY Zenon, <1>2
  <1> QED BY <1>1, <1>3, RuntimeStarts, RuntimeInductive, PTL
       DEF Spec, IsDurableTopic, Topic!Spec

\* The files and the calls of every process hold values of their kinds
\* (JournaledEventRuntime, DiskConsumerCheckpointStore).
THEOREM RuntimeTyped == Spec => []RuntimeTypeOK
PROOF
  <1>1. RuntimeInv => RuntimeTypeOK
    BY Zenon DEF RuntimeInv
  <1> QED BY <1>1, RuntimeStarts, RuntimeInductive, PTL DEF Spec
=============================================================================
