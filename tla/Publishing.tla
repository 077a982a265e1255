----------------------------- MODULE Publishing -----------------------------
(***************************************************************************)
(* Publishing a reviewed draft: the approval queue (content/queue.py), the *)
(* audit log of intents and outcomes (content/publishing_audit.py) and the *)
(* gateway that POSTs (content/publishing.py).                             *)
(*                                                                         *)
(* Queue and audit log are files that several processes share.  A process  *)
(* holds a lock of its own while it publishes or reviews, and the file     *)
(* lock only while it appends a line: what one process read may be stale   *)
(* when it appends.  A process may die between any two steps, and an       *)
(* append may leave no line, half a line or a whole one.                   *)
(*                                                                         *)
(* Platform switch, confirmation, compliance text and credentials are      *)
(* fixed per request and left out: a request here is one they let through. *)
(***************************************************************************)
EXTENDS Integers, Sequences

CONSTANTS
    Callers,          \* the threads that publish
    Gateways,         \* the gateway objects, each in a process of its own
    GatewayOf,        \* the gateway a thread uses
    Reviewers,        \* the queue objects, each in a process of its own
    Platforms,
    Drafts,           \* draft identities
    Contents,         \* what a draft may say
    Interval,         \* minimum_publish_interval
    MaximumAge,       \* maximum_draft_age; evidence is of time 0
    AuditLimit,       \* maximum_bytes, in events
    MaxClock          \* bound: the last instant

ASSUME PublishingAssumption ==
    /\ GatewayOf \in [Callers -> Gateways]
    /\ Interval \in Nat /\ MaximumAge \in Nat /\ AuditLimit \in Nat /\ MaxClock \in Nat

VARIABLES
    clock,
    queue,            \* the lines of the queue file
    queueTorn,        \* and whether it ends in half a line
    review,           \* what each reviewer is about to append
    audit,            \* the lines of the audit log
    auditTorn,
    publish,          \* the publish call of each thread
    sent              \* the POSTs handed to the transport, in order

publishingVars == <<clock, queue, queueTorn, review, audit, auditTorn, publish, sent>>

NoReview == [type |-> "NONE"]
NoCall == [step |-> "idle"]

PublishingInit ==
    /\ clock = 0
    /\ queue = <<>> /\ queueTorn = FALSE
    /\ review = [q \in Reviewers |-> NoReview]
    /\ audit = <<>> /\ auditTorn = FALSE
    /\ publish = [c \in Callers |-> NoCall]
    /\ sent = <<>>

-----------------------------------------------------------------------------
(* The approval queue. *)

QueuedAt(d) == {i \in DOMAIN queue : queue[i].draft = d}

\* _replay does not raise: a draft is queued once, and decided at most once.
QueueValid ==
    /\ ~queueTorn
    /\ \A i \in DOMAIN queue :
          LET before == {k \in QueuedAt(queue[i].draft) : k < i}
          IN  IF queue[i].type = "QUEUED" THEN before = {}
              ELSE \E k \in before : before = {k} /\ queue[k].type = "QUEUED"

\* The state of a draft in a valid queue.
Pending(d) == \E i \in QueuedAt(d) : QueuedAt(d) = {i}
Decided(d, verdict) == \E i \in QueuedAt(d) : queue[i].type = verdict

\* enqueue, up to its append; a draft that is there already is not queued.
Enqueue(q, d, content) ==
    /\ review[q] = NoReview
    /\ QueueValid /\ QueuedAt(d) = {}
    /\ review' = [review EXCEPT ![q] = [type |-> "QUEUED", draft |-> d, content |-> content]]
    /\ UNCHANGED <<clock, queue, queueTorn, audit, auditTorn, publish, sent>>

\* approve, reject and expire, up to their append.
Decide(q, d, verdict) ==
    /\ review[q] = NoReview
    /\ QueueValid /\ Pending(d)
    /\ review' = [review EXCEPT ![q] = [type |-> verdict, draft |-> d]]
    /\ UNCHANGED <<clock, queue, queueTorn, audit, auditTorn, publish, sent>>

\* The line is written.  Behind half a line it is unreadable as well.
AppendReview(q) ==
    /\ review[q] # NoReview
    /\ queue' = IF queueTorn THEN queue ELSE Append(queue, review[q])
    /\ review' = [review EXCEPT ![q] = NoReview]
    /\ UNCHANGED <<clock, queueTorn, audit, auditTorn, publish, sent>>

\* The append is cut short, or never made.
LoseReview(q) ==
    /\ review[q] # NoReview
    /\ queueTorn' \in {queueTorn, TRUE}
    /\ review' = [review EXCEPT ![q] = NoReview]
    /\ UNCHANGED <<clock, queue, audit, auditTorn, publish, sent>>

\* approved_draft_matches: this content, and no other of that name.
ApprovedDraftMatches(d, content) ==
    /\ QueueValid /\ Decided(d, "APPROVED")
    /\ \E i \in QueuedAt(d) : queue[i].type = "QUEUED" /\ queue[i].content = content

-----------------------------------------------------------------------------
(* The audit log.  by and place are not in the code: they say which        *)
(* gateway wrote an event, and at which line a call's own intent stands.    *)

\* _request_id
RequestId(k) == <<k.platform, k.draft>>

EventsOf(id) == {i \in DOMAIN audit : audit[i].request = id}

\* _events does not raise.
AuditReadable == ~auditTorn /\ Len(audit) <= AuditLimit

\* attempt returns None, or an open intent; with an outcome, or when it raises,
\* every caller gives up.
NoAttempt(id) == AuditReadable /\ EventsOf(id) = {}
OpenIntent(id) ==
    /\ AuditReadable
    /\ \E i \in DOMAIN audit : EventsOf(id) = {i} /\ audit[i].type = "INTENT"

\* latest_success, and the comparison with the interval: every success is far
\* enough back exactly when the latest is.
OffLimits(platform, at) ==
    \E i \in DOMAIN audit : audit[i].type = "SUCCEEDED" /\ audit[i].request[1] = platform
                            /\ at - audit[i].at < Interval

AuditEvent(c, type) ==
    [type |-> type, request |-> RequestId(publish[c]), at |-> publish[c].at,
     by |-> GatewayOf[c]]

-----------------------------------------------------------------------------
(* publish. *)

Return(c) == publish' = [publish EXCEPT ![c] = NoCall]
Continue(c, step) == publish' = [publish EXCEPT ![c].step = step]

\* Mutant: the calls of one gateway are not serialised.
LockedNever(g) == FALSE

\* A thread of gateway g is inside "with self._lock".
Locked(g) ==
    \E c \in Callers : GatewayOf[c] = g /\ publish[c].step \notin {"idle", "waiting"}

\* The call reads the clock, and then waits for the lock.
Publish(c, platform, d, content) ==
    /\ publish[c] = NoCall
    /\ publish' = [publish EXCEPT ![c] =
          [step |-> "waiting", platform |-> platform, draft |-> d, content |-> content,
           at |-> clock, place |-> 0, outcome |-> "NONE"]]
    /\ UNCHANGED <<clock, queue, queueTorn, review, audit, auditTorn, sent>>

\* Mutant: the approval is looked up by the draft's name only.
PreflightPassesByName(k) ==
    /\ \E content \in Contents : ApprovedDraftMatches(k.draft, content)
    /\ k.at <= MaximumAge
    /\ NoAttempt(RequestId(k))
    /\ ~OffLimits(k.platform, k.at)

\* _preflight finds no blocker.
PreflightPasses(k) ==
    /\ ApprovedDraftMatches(k.draft, k.content)
    /\ k.at <= MaximumAge
    /\ NoAttempt(RequestId(k))
    /\ ~OffLimits(k.platform, k.at)

\* With the lock, _preflight reads the queue and the audit log.
Preflight(c) ==
    /\ publish[c].step = "waiting" /\ ~Locked(GatewayOf[c])
    /\ IF PreflightPasses(publish[c]) THEN Continue(c, "begin") ELSE Return(c)
    /\ UNCHANGED <<clock, queue, queueTorn, review, audit, auditTorn, sent>>

\* begin looks for an attempt once more,
Begin(c) ==
    /\ publish[c].step = "begin"
    /\ IF NoAttempt(RequestId(publish[c])) THEN Continue(c, "intent") ELSE Return(c)
    /\ UNCHANGED <<clock, queue, queueTorn, review, audit, auditTorn, sent>>

\* appends the intent (behind half a line the read-back of the append raises),
AppendIntent(c) ==
    /\ publish[c].step = "intent"
    /\ IF auditTorn THEN Return(c) /\ UNCHANGED audit
       ELSE /\ audit' = Append(audit, AuditEvent(c, "INTENT"))
            /\ publish' = [publish EXCEPT ![c] = [@ EXCEPT !.step = "verify",
                                                          !.place = Len(audit) + 1]]
    /\ UNCHANGED <<clock, queue, queueTorn, review, auditTorn, sent>>

\* Mutant: the intent is appended and not read back.
VerifyIntentBlind(c) ==
    /\ publish[c].step = "verify"
    /\ Continue(c, "send")
    /\ UNCHANGED <<clock, queue, queueTorn, review, audit, auditTorn, sent>>

\* Mutant: an attempt given up because of its intent is recorded as failed.
VerifyIntentRecording(c) ==
    /\ publish[c].step = "verify"
    /\ IF OpenIntent(RequestId(publish[c])) THEN Continue(c, "send")
       ELSE publish' = [publish EXCEPT ![c] = [@ EXCEPT !.step = "outcome", !.outcome = "FAILED"]]
    /\ UNCHANGED <<clock, queue, queueTorn, review, audit, auditTorn, sent>>

\* and reads it back: the intent must be the only event of the request.
VerifyIntent(c) ==
    /\ publish[c].step = "verify"
    /\ IF OpenIntent(RequestId(publish[c])) THEN Continue(c, "send") ELSE Return(c)
    /\ UNCHANGED <<clock, queue, queueTorn, review, audit, auditTorn, sent>>

\* transport.send and _validate_response: the one POST, whose response proves
\* it published or does not.
Send(c) ==
    /\ publish[c].step = "send"
    /\ sent' = Append(sent, [request |-> RequestId(publish[c]), content |-> publish[c].content,
                             place |-> publish[c].place])
    /\ \E outcome \in {"SUCCEEDED", "FAILED"} :
          publish' = [publish EXCEPT ![c] = [@ EXCEPT !.step = "complete", !.outcome = outcome]]
    /\ UNCHANGED <<clock, queue, queueTorn, review, audit, auditTorn>>

\* complete wants an open intent; without one the receipt asks for a review.
Complete(c) ==
    /\ publish[c].step = "complete"
    /\ IF OpenIntent(RequestId(publish[c])) THEN Continue(c, "outcome") ELSE Return(c)
    /\ UNCHANGED <<clock, queue, queueTorn, review, audit, auditTorn, sent>>

\* The outcome is appended; the read-back only changes the receipt.
AppendOutcome(c) ==
    /\ publish[c].step = "outcome"
    /\ audit' = IF auditTorn THEN audit ELSE Append(audit, AuditEvent(c, publish[c].outcome))
    /\ Return(c)
    /\ UNCHANGED <<clock, queue, queueTorn, review, auditTorn, sent>>

\* An append raises: no line is there, half a line, or (fsync failed) all of it.
AppendFails(c) ==
    /\ publish[c].step \in {"intent", "outcome"}
    /\ \/ auditTorn' \in {auditTorn, TRUE} /\ UNCHANGED audit
       \/ /\ ~auditTorn
          /\ audit' = Append(audit, AuditEvent(c, IF publish[c].step = "intent" THEN "INTENT"
                                                  ELSE publish[c].outcome))
          /\ UNCHANGED auditTorn
    /\ Return(c)
    /\ UNCHANGED <<clock, queue, queueTorn, review, sent>>

\* The process of a gateway dies and is started again, between two steps or
\* right after the transport took the POST.
Crash(g) ==
    /\ \E c \in Callers : GatewayOf[c] = g /\ publish[c] # NoCall
    /\ publish' = [c \in Callers |-> IF GatewayOf[c] = g THEN NoCall ELSE publish[c]]
    /\ UNCHANGED <<clock, queue, queueTorn, review, audit, auditTorn, sent>>

Tick ==
    /\ clock < MaxClock
    /\ clock' = clock + 1
    /\ UNCHANGED <<queue, queueTorn, review, audit, auditTorn, publish, sent>>

PublishStep(c) ==
    Preflight(c) \/ Begin(c) \/ AppendIntent(c) \/ VerifyIntent(c) \/ Send(c)
       \/ Complete(c) \/ AppendOutcome(c) \/ AppendFails(c)

PublishingNext ==
    \/ Tick
    \/ \E q \in Reviewers :
          \/ \E d \in Drafts, content \in Contents : Enqueue(q, d, content)
          \/ \E d \in Drafts, verdict \in {"APPROVED", "REJECTED", "EXPIRED"} : Decide(q, d, verdict)
          \/ AppendReview(q)
          \/ LoseReview(q)
    \/ \E c \in Callers :
          \/ \E platform \in Platforms, d \in Drafts, content \in Contents :
                Publish(c, platform, d, content)
          \/ PublishStep(c)
    \/ \E g \in Gateways : Crash(g)

PublishingSpec == PublishingInit /\ [][PublishingNext]_publishingVars

-----------------------------------------------------------------------------
(* Properties. *)

Call ==
    [step : {"waiting", "begin", "intent", "verify", "send", "complete", "outcome"},
     platform : Platforms, draft : Drafts, content : Contents, at : Nat, place : Nat,
     outcome : {"NONE", "SUCCEEDED", "FAILED"}]

QueueLine ==
    [type : {"QUEUED"}, draft : Drafts, content : Contents]
       \cup [type : {"APPROVED", "REJECTED", "EXPIRED"}, draft : Drafts]

LogEvent ==
    [type : {"INTENT", "SUCCEEDED", "FAILED", "NONE"}, request : Platforms \X Drafts,
     at : Nat, by : Gateways]

\* The clock, the queue, the log, the calls and the POSTs hold values of their kind.
PublishingTypeOK ==
    /\ clock \in Nat
    /\ queue \in Seq(QueueLine)
    /\ queueTorn \in BOOLEAN
    /\ review \in [Reviewers -> QueueLine \cup {NoReview}]
    /\ audit \in Seq(LogEvent)
    /\ auditTorn \in BOOLEAN
    /\ publish \in [Callers -> Call \cup {NoCall}]
    /\ sent \in Seq([request : Platforms \X Drafts, content : Contents, place : Nat])

\* "Perform at most one external POST after durable intent persistence": a
\* draft goes to a platform at most once, whatever the threads and processes
\* that publish it at the same time, and whichever of them die and are started
\* again.
AtMostOnePost ==
    \A i, k \in DOMAIN sent : sent[i].request = sent[k].request => i = k

\* Line p is the intent of a request, and the first of its events.
FirstIntent(id, p) ==
    /\ p \in EventsOf(id) /\ audit[p].type = "INTENT"
    /\ \A i \in EventsOf(id) : p <= i

\* Every POST has its intent in the log, and it is the first event of its
\* request: after a crash the log tells that the POST may have happened.
IntentBeforePost ==
    \A s \in DOMAIN sent : FirstIntent(sent[s].request, sent[s].place)

\* A text was queued under a name and then approved, with no other decision in
\* between.
Vetted(d, content) ==
    \E i, k \in QueuedAt(d) :
       /\ i < k
       /\ queue[i].type = "QUEUED" /\ queue[i].content = content
       /\ queue[k].type = "APPROVED"
       /\ \A j \in QueuedAt(d) : j \in {i, k} \/ j > k

\* What was POSTed is, word for word, what was queued under that name and then
\* approved, even when several reviewers work on one queue file.
ApprovedContentSent ==
    \A s \in DOMAIN sent : Vetted(sent[s].request[2], sent[s].content)

\* An outcome in the log is that of a POST, and a request has one at most.
OneOutcomePerPost ==
    \A i \in DOMAIN audit : audit[i].type # "INTENT" =>
       /\ \E s \in DOMAIN sent : sent[s].request = audit[i].request
       /\ \A k \in EventsOf(audit[i].request) : audit[k].type # "INTENT" => k = i

\* The successes one gateway recorded on a platform are an interval apart,
\* although a call reads the clock before it waits for the lock.
GatewayKeepsInterval ==
    \A i, k \in DOMAIN audit :
       /\ audit[i].type = "SUCCEEDED" /\ audit[k].type = "SUCCEEDED"
       /\ audit[i].request[1] = audit[k].request[1]
       /\ audit[i].by = audit[k].by /\ i < k
       => audit[k].at - audit[i].at >= Interval

-----------------------------------------------------------------------------
(* The inductive invariant. *)

Inside == {"begin", "intent", "verify", "send", "complete", "outcome"}

\* A call that wrote its intent knows its line; a call that read it back has
\* the first one; a call that has not sent is not among those sent, and one
\* that has is; and before it writes an outcome there is none.
CallPlaced(k) ==
    /\ k.step \in {"verify", "send", "complete", "outcome"} =>
          k.place \in EventsOf(RequestId(k)) /\ audit[k.place].type = "INTENT"
    /\ k.step \in {"send", "complete", "outcome"} => FirstIntent(RequestId(k), k.place)
    /\ k.step \in {"verify", "send"} => \A s \in DOMAIN sent : sent[s].place # k.place
    /\ k.step \in {"complete", "outcome"} =>
          \E s \in DOMAIN sent : sent[s].place = k.place /\ sent[s].request = RequestId(k)
    /\ k.step = "outcome" => \A i \in EventsOf(RequestId(k)) : audit[i].type = "INTENT"

\* No two calls wrote the same line.
PlacesDiffer ==
    \A b, c \in Callers :
       /\ publish[b].step \in {"verify", "send", "complete", "outcome"}
       /\ publish[c].step \in {"verify", "send", "complete", "outcome"}
       /\ publish[b].place = publish[c].place
       => b = c

\* One call of a gateway is behind its lock; the draft it publishes was
\* vetted, and no success of its gateway is nearer than an interval.
CallCleared(c) ==
    publish[c].step \in Inside =>
       /\ \A b \in Callers :
             GatewayOf[b] = GatewayOf[c] /\ publish[b].step \in Inside => b = c
       /\ Vetted(publish[c].draft, publish[c].content)
       /\ \A i \in DOMAIN audit :
             audit[i].type = "SUCCEEDED" /\ audit[i].request[1] = publish[c].platform
                /\ audit[i].by = GatewayOf[c] => publish[c].at - audit[i].at >= Interval

PublishingInv ==
    /\ PublishingTypeOK
    /\ \A c \in Callers : CallPlaced(publish[c]) /\ CallCleared(c)
    /\ PlacesDiffer
    /\ AtMostOnePost /\ IntentBeforePost /\ ApprovedContentSent
    /\ OneOutcomePerPost /\ GatewayKeepsInterval
=============================================================================
