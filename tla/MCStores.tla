----------------------------- MODULE MCStores -----------------------------
(* Four small stores that share no state: the event journal, the live      *)
(* order lifecycle, the capability leases, and publishing.  Each is        *)
(* explored by itself; part says which one a behaviour is about.           *)
EXTENDS EventJournal, LiveOrder, CapabilityStore, Publishing, TLC

CONSTANTS c1, c2, c3, d1, d2, t1, t2

VARIABLE part

\* Two threads share a gateway, and one has a gateway in another process.
MCGatewayOf == (c1 :> 1) @@ (c2 :> 1) @@ (c3 :> 2)

\* Draft d2 has been reviewed, draft d1 has not.
Reviewed == << [type |-> "QUEUED", draft |-> d2, content |-> t1],
               [type |-> "APPROVED", draft |-> d2] >>

MCInit ==
    /\ part \in {"journal", "lifecycle", "capabilities", "publishing"}
    /\ JournalInit /\ LifecycleInit /\ CapabilityInit
    /\ clock = 0
    /\ queue = Reviewed /\ queueTorn = FALSE
    /\ review = [q \in Reviewers |-> NoReview]
    /\ audit = <<>> /\ auditTorn = FALSE
    /\ publish = [c \in Callers |-> NoCall]
    /\ sent = <<>>

\* A bound: the table of leases is followed until one receipt is written.
OneReceipt == receipts = {} \/ receipts' = receipts

\* Thread c2 publishes the draft reviewed before, the others race on d1.  Text
\* t2 is one that is never asked for.
MCDraft == (c1 :> d1) @@ (c2 :> d2) @@ (c3 :> d1)
OwnDrafts ==
    \A c \in Callers : publish'[c] # NoCall =>
       publish'[c].draft = MCDraft[c] /\ publish'[c].content = t1

\* A call that finds the queue invalid or an attempt in the log has no effect,
\* and neither goes away while the call waits: only the others are made.
Hopeful ==
    \A c \in Callers : publish[c] = NoCall /\ publish'[c] # NoCall =>
       QueueValid /\ NoAttempt(RequestId(publish'[c]))

\* Reviews commute with what a call does behind its preflight; an approval that
\* counts stays, and a queue that is invalid stays so.
ReviewsFirst ==
    <<review, queue, queueTorn>>' # <<review, queue, queueTorn>> =>
       \A c \in Callers : publish[c].step \in {"idle", "waiting"}

MCNext ==
    /\ UNCHANGED part
    /\ \/ /\ part = "journal"
          /\ JournalNext
          /\ UNCHANGED <<order, capabilityVars, publishingVars>>
       \/ /\ part = "lifecycle"
          /\ LifecycleNext
          /\ UNCHANGED <<journalVars, capabilityVars, publishingVars>>
       \/ /\ part = "capabilities"
          /\ CapabilityNext /\ OneReceipt
          /\ UNCHANGED <<journalVars, order, publishingVars>>
       \/ /\ part = "publishing"
          /\ PublishingNext /\ OwnDrafts /\ Hopeful /\ ReviewsFirst
          /\ UNCHANGED <<journalVars, order, capabilityVars>>

MCSpec == MCInit /\ [][MCNext]_<<part, journalVars, order, capabilityVars, publishingVars>>

Symmetry == Permutations(Reviewers) \cup Permutations(Users)
=============================================================================
