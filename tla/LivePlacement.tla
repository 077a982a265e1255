--------------------------- MODULE LivePlacement ---------------------------
(***************************************************************************)
(* Placing a live Spot order: the approval queue file                      *)
(* (execution/manual_approval.py), the single-use authorization ledger     *)
(* (execution/authorization.py), the gated executor                        *)
(* (execution/live_spot.py), and the adapter that journals the outcome     *)
(* (execution/live_spot_adapter.py), as the live-place-spot command        *)
(* (cli/live.py) runs them.  Several commands may run at once, die at any  *)
(* point and be run again; the queue changes under them.                   *)
(*                                                                         *)
(* An envelope stands for its content, so its SHA-256 is itself.  The live *)
(* gate, the registries behind it and the exchange are the environment:    *)
(* they allow or refuse, answer or fail.  An append to the lifecycle       *)
(* journal is one step; how the file survives a failed write is            *)
(* EventJournal's subject.                                                 *)
(***************************************************************************)
EXTENDS Integers, Sequences, FiniteSets

CONSTANTS
    Placers,         \* running live-place-spot commands
    Envelopes,       \* execution authorization envelopes
    NoAuthorization, \* a lifecycle record without authorization
    MaxQuantity,     \* bound: the largest quantity authorized
    MaxRecords,      \* bound: length of the approval queue
    MaxTime          \* bound: the clock

Envelope == [authorization_id : {e.authorization_id : e \in Envelopes},
             approval_id : {e.approval_id : e \in Envelopes},
             single_use_nonce : {e.single_use_nonce : e \in Envelopes},
             client_order_id : {e.client_order_id : e \in Envelopes},
             created_at : Nat, expires_at : Nat, quantity : 1..MaxQuantity]

AuthorizationIds == {e.authorization_id : e \in Envelopes}

ApprovalIds == {e.approval_id : e \in Envelopes}

ASSUME PlacementAssumption ==
    /\ Envelopes \subseteq Envelope
    /\ NoAuthorization \notin AuthorizationIds
    /\ MaxQuantity \in Nat \ {0}
    /\ MaxRecords \in Nat /\ MaxTime \in Nat

VARIABLES
    now,          \* the wall clock
    queue,        \* the approval queue file: its records, oldest first
    ledger,       \* the rows of the authorization ledger
    placement,    \* placement[p]: where command p is
    sent,         \* the orders that reached the exchange, in order
    journal,      \* the lifecycle journal: which event of which chain
    refused       \* orders at the exchange whose chain the journal refused

vars == <<now, queue, ledger, placement, sent, journal, refused>>

Lifecycle == INSTANCE LiveOrder WITH
    Authorizations <- AuthorizationIds, order <- <<>>

-----------------------------------------------------------------------------
(* The approval queue.                                                     *)

\* The envelope of a record, as a sequence of at most one.
Record == [approval_id : ApprovalIds, approved : BOOLEAN, created_at : Nat,
           envelope : {<<>>} \cup {<<e>> : e \in Envelopes}]

\* Indices of the records that bind the authorization, and of the newest
\* records of an approval.
Bound(q, id) ==
    {i \in 1..Len(q) : q[i].envelope # <<>> /\ q[i].envelope[1].authorization_id = id}

Latest(q, approval) ==
    {i \in 1..Len(q) :
        /\ q[i].approval_id = approval
        /\ \A j \in 1..Len(q) : q[j].approval_id = approval =>
              q[j].created_at <= q[i].created_at}

\* Mutant: any approved record will do, not only the latest.
ResolvesOnce(q, e) ==
    \E i \in Bound(q, e.authorization_id) : q[i].approved /\ q[i].envelope = <<e>>

\* resolve_execution_authorization(e.authorization_id) returns e.
Resolves(q, e) ==
    /\ {q[i].approval_id : i \in Bound(q, e.authorization_id)} = {e.approval_id}
    /\ \E i \in Latest(q, e.approval_id) :
          /\ Latest(q, e.approval_id) = {i}
          /\ q[i].approved
          /\ q[i].envelope = <<e>>

\* enqueue: a proposal that is not there yet is added as pending.
Enqueue(approval) ==
    /\ Len(queue) < MaxRecords
    /\ \A i \in 1..Len(queue) : queue[i].approval_id # approval
    /\ queue' = Append(queue, [approval_id |-> approval, approved |-> FALSE,
                               created_at |-> now, envelope |-> <<>>])
    /\ UNCHANGED <<now, ledger, placement, sent, journal, refused>>

\* The owner decides, or decides otherwise: a record is added to the file by
\* hand.  A record binds envelopes of its own approval only.
Decide(r) ==
    /\ Len(queue) < MaxRecords
    /\ r.created_at = now
    /\ r.envelope # <<>> => r.envelope[1].approval_id = r.approval_id
    /\ queue' = Append(queue, r)
    /\ UNCHANGED <<now, ledger, placement, sent, journal, refused>>

Tick ==
    /\ now < MaxTime
    /\ now' = now + 1
    /\ UNCHANGED <<queue, ledger, placement, sent, journal, refused>>

-----------------------------------------------------------------------------
(* One command.                                                            *)

Steps == {"check", "claim", "revalidate", "test", "send", "verify", "journal"}

NoPlacement == [step |-> "idle"]

At(p, step) == placement[p].step = step

Goes(p, step) == placement' = [placement EXCEPT ![p].step = step]

Ends(p) == placement' = [placement EXCEPT ![p] = NoPlacement]

InTime(e, t) == e.created_at <= t /\ t < e.expires_at

\* The command resolves the authorization and takes the time of the attempt.
Begin(p, e) ==
    /\ At(p, "idle")
    /\ Resolves(queue, e)
    /\ InTime(e, now)
    /\ placement' = [placement EXCEPT ![p] =
          [step |-> "check", envelope |-> e, attempted_at |-> now,
           chain |-> <<>>, written |-> 0]]
    /\ UNCHANGED <<now, queue, ledger, sent, journal, refused>>

\* The executor resolves it again and evaluates the live gate.
Check(p) ==
    /\ At(p, "check")
    /\ LET e == placement[p].envelope
       IN  \/ /\ Resolves(queue, e)
              /\ InTime(e, placement[p].attempted_at)
              /\ Goes(p, "claim")
           \/ Ends(p)
    /\ UNCHANGED <<now, queue, ledger, sent, journal, refused>>

\* Mutant: the ledger knows authorizations only by their identity.
ConsumedById(e) == \E row \in ledger : row.envelope.authorization_id = e.authorization_id

\* The ledger's primary key and its unique nonce.
Consumed(e) ==
    \E row \in ledger :
       \/ row.envelope.authorization_id = e.authorization_id
       \/ row.envelope.single_use_nonce = e.single_use_nonce

\* The row also remembers how long the queue was, for the properties.
Claim(p) ==
    /\ At(p, "claim")
    /\ ~Consumed(placement[p].envelope)
    /\ ledger' = ledger \cup {[envelope |-> placement[p].envelope, queued |-> Len(queue)]}
    /\ Goes(p, "revalidate")
    /\ UNCHANGED <<now, queue, sent, journal, refused>>

\* Already consumed, or the ledger cannot be used.
ClaimFails(p) ==
    /\ At(p, "claim")
    /\ Ends(p)
    /\ UNCHANGED <<now, queue, ledger, sent, journal, refused>>

\* Mutant: the approval is not looked at again after the claim.
RevalidateBlindly(p) ==
    /\ At(p, "revalidate")
    /\ Goes(p, "test")
    /\ UNCHANGED <<now, queue, ledger, sent, journal, refused>>

\* Revoked or unreadable authorizations end here, consumed.
Revalidate(p) ==
    /\ At(p, "revalidate")
    /\ \/ Resolves(queue, placement[p].envelope) /\ Goes(p, "test")
       \/ Ends(p)
    /\ UNCHANGED <<now, queue, ledger, sent, journal, refused>>

Chain(e, failed, snapshot, executed) ==
    Lifecycle!PlaceChain(e.quantity, e.authorization_id, failed, snapshot, executed)

\* The outcome of the attempt becomes the chain to be journaled.
Report(p, failed, snapshot, executed) ==
    placement' = [placement EXCEPT
       ![p].step = "journal",
       ![p].chain = Chain(placement[p].envelope, failed, snapshot, executed),
       ![p].written = 0]

\* order_test answers, or raises.
OrderTest(p) ==
    /\ At(p, "test")
    /\ Goes(p, "send") \/ Report(p, TRUE, "NONE", 0)
    /\ UNCHANGED <<now, queue, ledger, sent, journal, refused>>

\* order_place reaches the exchange; its answer may be lost.
OrderPlace(p) ==
    /\ At(p, "send")
    /\ sent' = Append(sent, placement[p].envelope)
    /\ Goes(p, "verify") \/ Report(p, TRUE, "NONE", 0)
    /\ UNCHANGED <<now, queue, ledger, journal, refused>>

\* The request does not get there.
OrderPlaceFails(p) ==
    /\ At(p, "send")
    /\ Report(p, TRUE, "NONE", 0)
    /\ UNCHANGED <<now, queue, ledger, sent, journal, refused>>

\* What the order history may show of an order of this quantity.
Executed(snapshot, quantity) ==
    CASE snapshot = "PARTIALLY_FILLED" -> 1..(quantity - 1)
      [] snapshot = "FILLED" -> {quantity}
      [] OTHER -> {0}

\* verify_placed finds the order, does not find it, or raises.
Verify(p) ==
    /\ At(p, "verify")
    /\ \/ \E snapshot \in Lifecycle!Snapshots :
             \E executed \in Executed(snapshot, placement[p].envelope.quantity) :
                Report(p, FALSE, snapshot, executed)
       \/ Report(p, TRUE, "NONE", 0)
    /\ UNCHANGED <<now, queue, ledger, sent, journal, refused>>

\* build_place_events raises: the fill evidence has no usable price.
Unpriced(p) ==
    /\ At(p, "verify")
    /\ Ends(p)
    /\ UNCHANGED <<now, queue, ledger, sent, journal, refused>>

\* Event n of the chain, as the journal holds it.
Entry(p, n) == [client_order_id |-> placement[p].envelope.client_order_id,
                observed_at |-> placement[p].attempted_at,
                events |-> SubSeq(placement[p].chain, 1, n)]

\* DiskEventJournal.append takes the next event of the chain: sequences start
\* at one and each event names the hash of the one before it.
Appends(p) ==
    /\ Len(journal) = placement[p].written
    /\ journal # <<>> => journal[Len(journal)] = Entry(p, Len(journal))

JournalEvent(p) ==
    /\ At(p, "journal")
    /\ Appends(p)
    /\ journal' = Append(journal, Entry(p, placement[p].written + 1))
    /\ IF placement[p].written + 1 = Len(placement[p].chain) THEN Ends(p)
       ELSE placement' = [placement EXCEPT ![p].written = @ + 1]
    /\ UNCHANGED <<now, queue, ledger, sent, refused>>

\* The journal refuses the event: place raises, the rest is not written.
JournalRefuses(p) ==
    /\ At(p, "journal")
    /\ ~Appends(p)
    /\ refused' = refused \cup
          (IF placement[p].envelope \in {sent[i] : i \in 1..Len(sent)}
           THEN {placement[p].envelope} ELSE {})
    /\ Ends(p)
    /\ UNCHANGED <<now, queue, ledger, sent, journal>>

\* The process dies, or the journal cannot be written.
Crash(p) ==
    /\ ~At(p, "idle")
    /\ Ends(p)
    /\ UNCHANGED <<now, queue, ledger, sent, journal, refused>>

-----------------------------------------------------------------------------
Init ==
    /\ now = 0
    /\ queue = <<>>
    /\ ledger = {}
    /\ placement = [p \in Placers |-> NoPlacement]
    /\ sent = <<>>
    /\ journal = <<>>
    /\ refused = {}

Command(p) ==
    \/ \E e \in Envelopes : Begin(p, e)
    \/ Check(p) \/ Claim(p) \/ ClaimFails(p) \/ Revalidate(p)
    \/ OrderTest(p) \/ OrderPlace(p) \/ OrderPlaceFails(p)
    \/ Verify(p) \/ Unpriced(p)
    \/ JournalEvent(p) \/ JournalRefuses(p)
    \/ Crash(p)

Next ==
    \/ Tick
    \/ \E a \in ApprovalIds : Enqueue(a)
    \/ \E r \in [approval_id : ApprovalIds, approved : BOOLEAN, created_at : {now},
                 envelope : {<<>>} \cup {<<e>> : e \in Envelopes}] : Decide(r)
    \/ \E p \in Placers : Command(p)

Spec == Init /\ [][Next]_vars

-----------------------------------------------------------------------------
(* Properties.                                                             *)

\* Only one of two such envelopes may ever be used.
SameUse(e, f) ==
    \/ e.authorization_id = f.authorization_id
    \/ e.single_use_nonce = f.single_use_nonce

JournalEntry ==
    [client_order_id : {e.client_order_id : e \in Envelopes}, observed_at : Nat,
     events : Seq(Lifecycle!LifecycleEvent)]

Placement ==
    [step : Steps, envelope : Envelopes, attempted_at : Nat,
     chain : Seq(Lifecycle!LifecycleEvent), written : Nat]

\* Every variable holds a value of its kind.
PlacementTypeOK ==
    /\ now \in Nat
    /\ queue \in Seq(Record)
    /\ ledger \subseteq [envelope : Envelopes, queued : Nat]
    /\ placement \in [Placers -> Placement \cup {NoPlacement}]
    /\ sent \in Seq(Envelopes)
    /\ journal \in Seq(JournalEntry)
    /\ refused \subseteq Envelopes

\* "Durably and atomically claim an authorization before exchange contact":
\* however many commands run, race, die and are run again, no two orders reach
\* the exchange under one authorization or under one nonce.
SingleUse ==
    \A i, j \in 1..Len(sent) : i # j => ~SameUse(sent[i], sent[j])

\* The owner's latest, unambiguous decision was for e at some time after e
\* was claimed.
ApprovedSince(e) ==
    \E row \in ledger :
       /\ row.envelope = e
       /\ \E n \in row.queued..Len(queue) : Resolves(SubSeq(queue, 1, n), e)

\* Every order that reached the exchange was approved when, or after, its
\* authorization was claimed: a revocation recorded before the claim always
\* wins (the second look of place at the queue).
SentWasApproved == \A i \in 1..Len(sent) : ApprovedSince(sent[i])

\* Commands that journal at the same time never mix their chains: the file is
\* a beginning of the chain of one of them (append_place_result).
JournalIsOneChain ==
    \A i \in 1..Len(journal) :
       /\ journal[i].client_order_id = journal[1].client_order_id
       /\ Len(journal[i].events) = i
       /\ \A j \in 1..i : journal[j].events = SubSeq(journal[i].events, 1, j)

\* "The live-place-spot command must record the lifecycle journal after a
\* successful live submission path": the journal refuses no chain of an order
\* at the exchange.
SubmissionsRecorded == refused = {}

\* "The lifecycle journal is append only and replays these event types": what
\* placements wrote can be replayed.
JournalReplays ==
    \A i \in 1..Len(journal) :
       Lifecycle!Replay(journal[i].events) # Lifecycle!NoOrder

-----------------------------------------------------------------------------
(* What makes the safety properties inductive.                             *)

Claimed == {"revalidate", "test", "send"}

\* A command between its claim and its request holds a ledger row that no
\* other such command and no order at the exchange shares.
HoldsClaim ==
    \A p \in Placers : placement[p].step \in Claimed =>
       /\ \E row \in ledger : row.envelope = placement[p].envelope
       /\ \A i \in 1..Len(sent) : ~SameUse(sent[i], placement[p].envelope)
       /\ \A q \in Placers : q # p /\ placement[q].step \in Claimed =>
             ~SameUse(placement[q].envelope, placement[p].envelope)

Revalidated ==
    \A p \in Placers :
       placement[p].step \in {"test", "send"} => ApprovedSince(placement[p].envelope)

RowsDated == \A row \in ledger : row.queued <= Len(queue)

ChainLeft ==
    \A p \in Placers :
       placement[p].step = "journal" => placement[p].written < Len(placement[p].chain)

PlacementInv ==
    /\ PlacementTypeOK
    /\ SingleUse /\ HoldsClaim
    /\ SentWasApproved /\ Revalidated /\ RowsDated
    /\ JournalIsOneChain /\ ChainLeft
=============================================================================
