------------------------ MODULE LivePlacementProofs ------------------------
(***************************************************************************)
(* What live placement guarantees for any number of commands, envelopes    *)
(* and queue records.                                                      *)
(***************************************************************************)
EXTENDS LivePlacement, SequenceTheorems, TLAPS

-----------------------------------------------------------------------------
(* Sequences and the queue.                                                *)

\* The records read so far stay what they were when the file grows.
LEMMA BeginningKept ==
    ASSUME NEW S, NEW s \in Seq(S), NEW r \in S, NEW n \in 0..Len(s)
    PROVE  SubSeq(Append(s, r), 1, n) = SubSeq(s, 1, n)
PROOF
  <1>1. Len(s) \in Nat /\ Append(s, r) \in Seq(S) /\ Len(Append(s, r)) = Len(s) + 1
    OBVIOUS
  <1>2. \A i \in 1..Len(s) : Append(s, r)[i] = s[i]
    OBVIOUS
  <1> QED BY <1>1, <1>2

\* A beginning of a beginning is a beginning.
LEMMA BeginningOfBeginning ==
    ASSUME NEW S, NEW s \in Seq(S), NEW n \in 0..Len(s), NEW m \in 0..n
    PROVE  SubSeq(SubSeq(s, 1, n), 1, m) = SubSeq(s, 1, m)
PROOF
  <1>1. Len(s) \in Nat
    OBVIOUS
  <1>2. SubSeq(s, 1, n) \in Seq(S) /\ Len(SubSeq(s, 1, n)) = n
    BY <1>1
  <1>3. \A i \in 1..n : SubSeq(s, 1, n)[i] = s[i]
    BY <1>1
  <1> QED BY <1>1, <1>2, <1>3

\* A sequence is the whole of itself.
LEMMA WholeQueue ==
    ASSUME NEW S, NEW s \in Seq(S)
    PROVE  SubSeq(s, 1, Len(s)) = s
PROOF
  <1>1. Len(s) \in Nat
    OBVIOUS
  <1> QED BY <1>1

\* An approval that was seen stays seen when records or rows are added.
LEMMA ApprovedSinceKept ==
    ASSUME PlacementTypeOK, RowsDated, NEW e, ApprovedSince(e), ledger \subseteq ledger',
           \/ queue' = queue
           \/ \E r \in Record : queue' = Append(queue, r)
    PROVE  ApprovedSince(e)'
PROOF
  <1>1. queue \in Seq(Record) /\ Len(queue) \in Nat
    BY DEF PlacementTypeOK
  <1>2. PICK row \in ledger : row.envelope = e /\ \E n \in row.queued..Len(queue) :
              Resolves(SubSeq(queue, 1, n), e)
    BY DEF ApprovedSince
  <1>3. PICK n \in row.queued..Len(queue) : Resolves(SubSeq(queue, 1, n), e)
    BY <1>2
  <1>4. row.queued \in Nat
    BY DEF PlacementTypeOK
  <1>5. Len(queue') \in Nat /\ Len(queue) <= Len(queue')
    BY <1>1
  <1>6. n \in 0..Len(queue) /\ n \in row.queued..Len(queue')
    BY <1>1, <1>3, <1>4, <1>5
  <1>7. SubSeq(queue', 1, n) = SubSeq(queue, 1, n)
    BY <1>1, <1>6, BeginningKept
  <1>8. Resolves(SubSeq(queue', 1, n), e)
    BY Zenon, <1>3, <1>7
  <1> QED BY <1>2, <1>6, <1>8 DEF ApprovedSince

\* build_place_events: a chain is a sequence of lifecycle events, never empty.
LEMMA ChainTyped ==
    ASSUME NEW e \in Envelopes, NEW failed \in BOOLEAN,
           NEW snapshot \in Lifecycle!Snapshots, NEW executed \in 0..MaxQuantity
    PROVE  /\ Chain(e, failed, snapshot, executed) \in Seq(Lifecycle!LifecycleEvent)
           /\ 0 < Len(Chain(e, failed, snapshot, executed))
PROOF
  <1> DEFINE E == Lifecycle!LifecycleEvent
  <1>0. MaxQuantity \in Nat \ {0} /\ e.quantity \in 1..MaxQuantity
        /\ e.authorization_id \in AuthorizationIds
    BY Zenon, PlacementAssumption DEF Envelope, AuthorizationIds
  <1>1. \A t \in Lifecycle!EventTypes, q \in 0..MaxQuantity,
           a \in AuthorizationIds \cup {NoAuthorization} : Lifecycle!Mark(t, q, a) \in E
    BY DEF Lifecycle!Mark, Lifecycle!LifecycleEvent
  <1>2. e.quantity \in 0..MaxQuantity /\ 0 \in 0..MaxQuantity
    BY <1>0
  <1> HIDE DEF E
  <1>3. /\ Lifecycle!ApprovedChain(e.quantity, e.authorization_id) \in Seq(E)
        /\ Len(Lifecycle!ApprovedChain(e.quantity, e.authorization_id)) = 4
    <2>1. /\ Lifecycle!Mark("PREVIEWED", e.quantity, NoAuthorization) \in E
          /\ Lifecycle!Mark("PROMOTION_REQUESTED", e.quantity, NoAuthorization) \in E
          /\ Lifecycle!Mark("HUMAN_APPROVAL_REQUESTED", e.quantity, NoAuthorization) \in E
          /\ Lifecycle!Mark("HUMAN_APPROVED", 0, e.authorization_id) \in E
      BY <1>0, <1>1, <1>2 DEF Lifecycle!EventTypes
    <2> QED BY <2>1 DEF Lifecycle!ApprovedChain
  <1>4. /\ <<Lifecycle!Mark("SUBMISSION_ATTEMPT_FAILED", 0, e.authorization_id)>> \in Seq(E)
        /\ <<Lifecycle!Mark("SUBMITTED", 0, e.authorization_id)>> \in Seq(E)
    BY <1>0, <1>1, <1>2 DEF Lifecycle!EventTypes
  <1>5. Lifecycle!VenueChain(snapshot, executed) \in Seq(E)
    <2>1. /\ Lifecycle!Mark("ACCEPTED", 0, NoAuthorization) \in E
          /\ Lifecycle!Mark("PARTIALLY_FILLED", executed, NoAuthorization) \in E
          /\ Lifecycle!Mark("FILLED", executed, NoAuthorization) \in E
          /\ Lifecycle!Mark("CANCELLED", 0, NoAuthorization) \in E
          /\ Lifecycle!Mark("EXPIRED", 0, NoAuthorization) \in E
          /\ Lifecycle!Mark("REJECTED", 0, NoAuthorization) \in E
      BY <1>1, <1>2 DEF Lifecycle!EventTypes
    <2> QED BY <2>1 DEF Lifecycle!VenueChain, Lifecycle!Snapshots
  <1> DEFINE last == IF failed
                     THEN <<Lifecycle!Mark("SUBMISSION_ATTEMPT_FAILED", 0, e.authorization_id)>>
                     ELSE <<Lifecycle!Mark("SUBMITTED", 0, e.authorization_id)>>
                          \o Lifecycle!VenueChain(snapshot, executed)
             first == Lifecycle!ApprovedChain(e.quantity, e.authorization_id)
  <1>6. last \in Seq(E)
    BY <1>4, <1>5, ConcatProperties
  <1>7. Chain(e, failed, snapshot, executed) = first \o last
    BY DEF Chain, Lifecycle!PlaceChain
  <1>8. first \in Seq(E) /\ Len(first) = 4
    BY <1>3
  <1> HIDE DEF first, last
  <1>9. Len(last) \in Nat
    BY <1>6
  <1>10. first \o last \in Seq(E) /\ Len(first \o last) = Len(first) + Len(last)
    BY Zenon, <1>6, <1>8, ConcatProperties
  <1>11. 0 < Len(first \o last)
    BY <1>8, <1>9, <1>10
  <1> QED BY <1>7, <1>10, <1>11 DEF E

-----------------------------------------------------------------------------
(* The invariant is kept.                                                  *)

\* What the type invariant says of one command.
LEMMA Shapes ==
    ASSUME PlacementTypeOK, NEW p \in Placers
    PROVE  /\ placement[p] \in Placement \cup {NoPlacement}
           /\ placement[p].step \in Steps => placement[p] \in Placement
           /\ placement[p].step # "idle" => placement[p] \in Placement
           /\ NoPlacement.step = "idle"
PROOF
  BY DEF PlacementTypeOK, NoPlacement, Placement, Steps

\* A step of one command that neither claims, sends nor journals.
LEMMA MoveKeeps ==
    ASSUME PlacementInv, NEW p \in Placers, NEW v \in Placement \cup {NoPlacement},
           placement' = [placement EXCEPT ![p] = v],
           UNCHANGED <<now, queue, ledger, sent, journal>>,
           refused' \subseteq Envelopes,
           v.step \in Claimed => placement[p].step \in Claimed
                                 /\ v.envelope = placement[p].envelope,
           v.step \in {"test", "send"} => ApprovedSince(v.envelope),
           v.step = "journal" => v.written < Len(v.chain)
    PROVE  PlacementInv'
PROOF
  <1> USE DEF PlacementInv
  <1>0. placement \in [Placers -> Placement \cup {NoPlacement}]
    BY DEF PlacementTypeOK
  <1>p. placement'[p] = v /\ \A q \in Placers : q # p => placement'[q] = placement[q]
    BY <1>0
  <1>1. PlacementTypeOK'
    BY <1>0 DEF PlacementTypeOK
  <1>2. SingleUse' /\ SentWasApproved' /\ RowsDated' /\ JournalIsOneChain'
    <2>1. SingleUse' /\ RowsDated'
      BY DEF SingleUse, RowsDated
    <2>2. SentWasApproved'
      BY DEF SentWasApproved, ApprovedSince
    <2>3. JournalIsOneChain'
      BY DEF JournalIsOneChain
    <2> QED BY <2>1, <2>2, <2>3
  <1>3. HoldsClaim'
    BY <1>p DEF HoldsClaim, SameUse
  <1>4. Revalidated'
    BY <1>p DEF Revalidated, ApprovedSince
  <1>5. ChainLeft'
    BY <1>p DEF ChainLeft
  <1> QED BY <1>1, <1>2, <1>3, <1>4, <1>5

\* A command that ends takes nothing with it.
LEMMA EndsKeeps ==
    ASSUME PlacementInv, NEW p \in Placers, Ends(p), refused' \subseteq Envelopes,
           UNCHANGED <<now, queue, ledger, sent, journal>>
    PROVE  PlacementInv'
PROOF
  <1>1. NoPlacement.step \notin Claimed \cup {"test", "send", "journal"}
    BY DEF NoPlacement, Claimed
  <1> QED BY Zenon, <1>1, MoveKeeps DEF Ends

\* Reaching a step that needs nothing new.
LEMMA GoesKeeps ==
    ASSUME PlacementInv, NEW p \in Placers, NEW step \in Steps \ {"journal"},
           placement[p].step \in Steps, Goes(p, step),
           step \in Claimed => placement[p].step \in Claimed,
           step \in {"test", "send"} => ApprovedSince(placement[p].envelope),
           UNCHANGED <<now, queue, ledger, sent, journal, refused>>
    PROVE  PlacementInv'
PROOF
  <1>1. placement[p] \in Placement
    BY Shapes DEF PlacementInv
  <1> DEFINE v == [placement[p] EXCEPT !.step = step]
  <1>2. v \in Placement /\ v.step = step /\ v.envelope = placement[p].envelope
    BY <1>1 DEF Placement
  <1>3. placement' = [placement EXCEPT ![p] = v]
    BY DEF Goes
  <1>4. refused' \subseteq Envelopes
    BY DEF PlacementInv, PlacementTypeOK
  <1> HIDE DEF v
  <1> QED BY Zenon, <1>2, <1>3, <1>4, MoveKeeps DEF Steps

\* A command with a result goes on to journal its chain.
LEMMA Reported ==
    ASSUME PlacementInv, NEW p \in Placers, placement[p].step \in Steps,
           NEW failed \in BOOLEAN, NEW snapshot \in Lifecycle!Snapshots,
           NEW executed \in 0..MaxQuantity, Report(p, failed, snapshot, executed)
    PROVE  \E v \in Placement :
              /\ placement' = [placement EXCEPT ![p] = v]
              /\ v.step = "journal" /\ v.written < Len(v.chain)
PROOF
  <1>1. placement[p] \in Placement
    BY Shapes DEF PlacementInv
  <1>2. PICK c : c = Chain(placement[p].envelope, failed, snapshot, executed)
    OBVIOUS
  <1>3. c \in Seq(Lifecycle!LifecycleEvent) /\ 0 < Len(c)
    BY <1>1, <1>2, ChainTyped DEF Placement
  <1> DEFINE v == [placement[p] EXCEPT !.step = "journal", !.chain = c, !.written = 0]
  <1>4. v \in Placement /\ v.step = "journal" /\ v.written < Len(v.chain)
    BY Zenon, <1>1, <1>3 DEF Placement, Steps
  <1>5. placement' = [placement EXCEPT ![p] = v]
    BY Zenon, <1>2 DEF Report
  <1> QED BY Zenon, <1>4, <1>5

\* A command whose request is out, or fails, reports; sent may have grown.
LEMMA SendKeeps ==
    ASSUME PlacementInv, NEW p \in Placers, placement[p].step = "send",
           NEW v \in Placement, placement' = [placement EXCEPT ![p] = v],
           v.step \notin Claimed, v.step = "journal" => v.written < Len(v.chain),
           sent' = Append(sent, placement[p].envelope),
           UNCHANGED <<now, queue, ledger, journal, refused>>
    PROVE  PlacementInv'
PROOF
  <1> USE DEF PlacementInv
  <1>0. placement \in [Placers -> Placement \cup {NoPlacement}] /\ sent \in Seq(Envelopes)
    BY DEF PlacementTypeOK
  <1>e. PICK e : e = placement[p].envelope
    OBVIOUS
  <1>p. placement'[p] = v /\ \A q \in Placers : q # p => placement'[q] = placement[q]
    BY <1>0
  <1>t. e \in Envelopes
    BY <1>e, Shapes DEF Placement
  <1>s. /\ Len(sent) \in Nat /\ Len(sent') = Len(sent) + 1 /\ sent' \in Seq(Envelopes)
        /\ sent'[Len(sent) + 1] = e
        /\ \A i \in 1..Len(sent) : sent'[i] = sent[i]
    BY <1>0, <1>e, <1>t
  <1>i. \A i \in 1..Len(sent') : i \in 1..Len(sent) \/ i = Len(sent) + 1
    BY <1>s
  <1>1. PlacementTypeOK'
    BY <1>0, <1>s DEF PlacementTypeOK
  <1>2. \A i \in 1..Len(sent) : ~SameUse(sent[i], e)
    BY <1>e DEF HoldsClaim, Claimed
  <1>3. SingleUse'
    BY <1>s, <1>i, <1>2 DEF SingleUse, SameUse
  <1>4. HoldsClaim'
    <2> SUFFICES ASSUME NEW q \in Placers, placement'[q].step \in Claimed
                 PROVE  /\ \E row \in ledger' : row.envelope = placement'[q].envelope
                        /\ \A i \in 1..Len(sent') : ~SameUse(sent'[i], placement'[q].envelope)
                        /\ \A r \in Placers : r # q /\ placement'[r].step \in Claimed =>
                              ~SameUse(placement'[r].envelope, placement'[q].envelope)
      BY DEF HoldsClaim, SameUse
    <2>1. q # p /\ placement'[q] = placement[q]
      BY <1>p
    <2>2. /\ \E row \in ledger : row.envelope = placement[q].envelope
          /\ \A i \in 1..Len(sent) : ~SameUse(sent[i], placement[q].envelope)
          /\ \A r \in Placers : r # q /\ placement[r].step \in Claimed =>
                ~SameUse(placement[r].envelope, placement[q].envelope)
      BY <2>1 DEF HoldsClaim
    <2>3. ~SameUse(e, placement[q].envelope)
      BY <1>e, <2>1, <2>2 DEF Claimed
    <2>4. \A i \in 1..Len(sent') : ~SameUse(sent'[i], placement[q].envelope)
      BY <1>s, <1>i, <2>2, <2>3
    <2>5. \A r \in Placers : r # q /\ placement'[r].step \in Claimed =>
             ~SameUse(placement'[r].envelope, placement[q].envelope)
      BY <1>p, <2>2
    <2> QED BY <2>1, <2>2, <2>4, <2>5
  <1>5. ApprovedSince(e)
    BY <1>e DEF Revalidated
  <1>7. SentWasApproved'
    <2>1. \A i \in 1..Len(sent') : ApprovedSince(sent'[i])
      BY <1>s, <1>i, <1>5 DEF SentWasApproved
    <2> QED BY <2>1 DEF SentWasApproved, ApprovedSince
  <1>8. Revalidated'
    BY <1>p DEF Revalidated, Claimed, ApprovedSince
  <1>9. RowsDated' /\ JournalIsOneChain'
    BY DEF RowsDated, JournalIsOneChain
  <1>10. ChainLeft'
    BY <1>p DEF ChainLeft
  <1> QED BY <1>1, <1>3, <1>4, <1>7, <1>8, <1>9, <1>10

\* The claim: the row is new, so whatever is at the exchange or on its way
\* there has another authorization and another nonce.
LEMMA ClaimKeeps ==
    ASSUME PlacementInv, NEW p \in Placers, Claim(p)
    PROVE  PlacementInv'
PROOF
  <1> USE DEF PlacementInv
  <1>e. PICK e : e = placement[p].envelope
    OBVIOUS
  <1>0. placement \in [Placers -> Placement \cup {NoPlacement}] /\ sent \in Seq(Envelopes)
        /\ Len(sent) \in Nat /\ Len(queue) \in Nat
    BY DEF PlacementTypeOK
  <1>t. placement[p] \in Placement /\ e \in Envelopes
    BY <1>e, Shapes DEF Placement, Claim, At, Steps
  <1>p. /\ placement'[p] = [placement[p] EXCEPT !.step = "revalidate"]
        /\ placement'[p] \in Placement
        /\ placement'[p].step = "revalidate" /\ placement'[p].envelope = e
        /\ \A q \in Placers : q # p => placement'[q] = placement[q]
    BY Zenon, <1>0, <1>e, <1>t DEF Claim, Goes, Placement, Steps
  <1>r. PICK row : row = [envelope |-> e, queued |-> Len(queue)]
    BY Zenon
  <1>l. ledger' = ledger \cup {row} /\ row.envelope = e /\ row.queued = Len(queue)
        /\ row \in [envelope : Envelopes, queued : Nat]
    BY <1>0, <1>e, <1>r, <1>t DEF Claim
  <1>u. UNCHANGED <<now, queue, sent, journal, refused>>
    BY DEF Claim
  <1>1. PlacementTypeOK'
    <2>1. placement' \in [Placers -> Placement \cup {NoPlacement}]
      BY <1>0, <1>p DEF Claim, Goes
    <2> QED BY <1>l, <1>u, <2>1 DEF PlacementTypeOK
  <1>2. \A old \in ledger : ~SameUse(old.envelope, e)
    BY <1>e DEF Claim, Consumed, SameUse
  <1>3. \A i \in 1..Len(sent) : ~SameUse(sent[i], e)
    BY <1>2 DEF SentWasApproved, ApprovedSince
  <1>4. \A q \in Placers : placement[q].step \in Claimed => ~SameUse(placement[q].envelope, e)
    BY <1>2 DEF HoldsClaim
  <1>5. HoldsClaim'
    <2> SUFFICES ASSUME NEW q \in Placers, placement'[q].step \in Claimed
                 PROVE  /\ \E x \in ledger' : x.envelope = placement'[q].envelope
                        /\ \A i \in 1..Len(sent) : ~SameUse(sent[i], placement'[q].envelope)
                        /\ \A r \in Placers : r # q /\ placement'[r].step \in Claimed =>
                              ~SameUse(placement'[r].envelope, placement'[q].envelope)
      BY <1>u DEF HoldsClaim, SameUse
    <2>1. CASE q = p
      BY Zenon, <1>3, <1>4, <1>l, <1>p, <2>1
    <2>2. CASE q # p
      <3>1. placement'[q] = placement[q]
        BY <1>p, <2>2
      <3>2. ~SameUse(e, placement[q].envelope)
        BY <1>4, <3>1 DEF SameUse
      <3>3. /\ \E x \in ledger : x.envelope = placement[q].envelope
            /\ \A i \in 1..Len(sent) : ~SameUse(sent[i], placement[q].envelope)
        BY <3>1 DEF HoldsClaim
      <3>4. ASSUME NEW r \in Placers, r # q, placement'[r].step \in Claimed
            PROVE  ~SameUse(placement'[r].envelope, placement'[q].envelope)
        <4>1. CASE r = p
          BY Zenon, <1>p, <3>1, <3>2, <4>1
        <4>2. CASE r # p
          <5>1. placement'[r] = placement[r]
            BY <1>p, <4>2
          <5> QED BY <3>1, <3>4, <5>1 DEF HoldsClaim
        <4> QED BY <4>1, <4>2
      <3> QED BY <1>l, <3>1, <3>3, <3>4
    <2> QED BY <2>1, <2>2
  <1>7. SingleUse' /\ JournalIsOneChain'
    BY <1>u DEF SingleUse, JournalIsOneChain
  <1>8. SentWasApproved'
    <2>1. \A i \in 1..Len(sent) : ApprovedSince(sent[i])
      BY DEF SentWasApproved
    <2> QED BY <1>l, <1>u, <2>1 DEF SentWasApproved, ApprovedSince
  <1>9. Revalidated'
    <2>1. \A q \in Placers : placement'[q].step \in {"test", "send"} =>
             q # p /\ ApprovedSince(placement[q].envelope)
      BY Zenon, <1>p DEF Revalidated
    <2> QED BY <1>l, <1>p, <1>u, <2>1 DEF Revalidated, ApprovedSince
  <1>10. RowsDated'
    BY <1>0, <1>l, <1>u DEF RowsDated
  <1>11. ChainLeft'
    BY Zenon, <1>p DEF ChainLeft
  <1> QED BY <1>1, <1>5, <1>7, <1>8, <1>9, <1>10, <1>11

\* The file grows by the next event of the chain it already begins.
LEMMA JournalKeeps ==
    ASSUME PlacementInv, NEW p \in Placers, JournalEvent(p)
    PROVE  PlacementInv'
PROOF
  <1> USE DEF PlacementInv
  <1> DEFINE L == Len(journal)
             E == Lifecycle!LifecycleEvent
  <1>0. placement \in [Placers -> Placement \cup {NoPlacement}]
        /\ journal \in Seq(JournalEntry) /\ L \in Nat
    BY DEF PlacementTypeOK
  <1>1. placement[p] \in Placement /\ placement[p].written < Len(placement[p].chain)
    BY Shapes DEF JournalEvent, At, ChainLeft
  <1>c. PICK c : c = placement[p].chain
    OBVIOUS
  <1>2. c \in Seq(E) /\ Len(c) \in Nat /\ L = placement[p].written /\ L + 1 <= Len(c)
    BY <1>0, <1>1, <1>c DEF JournalEvent, Appends, Placement
  <1>n. PICK new : new = Entry(p, L + 1)
    OBVIOUS
  <1>3. new.events = SubSeq(c, 1, L + 1)
        /\ new.client_order_id = placement[p].envelope.client_order_id
    BY <1>c, <1>n DEF Entry
  <1>4. SubSeq(c, 1, L + 1) \in Seq(E) /\ Len(SubSeq(c, 1, L + 1)) = L + 1
    BY <1>0, <1>2
  <1>5. new \in JournalEntry
    BY Zenon, <1>1, <1>3, <1>4, <1>n DEF Entry, JournalEntry, Placement
  <1>6. /\ journal' \in Seq(JournalEntry) /\ Len(journal') = L + 1
        /\ journal'[L + 1] = new
        /\ \A i \in 1..L : journal'[i] = journal[i]
    BY <1>0, <1>2, <1>5, <1>n DEF JournalEvent
  <1>i. \A i \in 1..Len(journal') : i \in 1..L \/ i = L + 1
    BY <1>0, <1>6
  <1>u. UNCHANGED <<now, queue, ledger, sent, refused>>
    BY DEF JournalEvent
  <1>v. PICK v \in Placement \cup {NoPlacement} :
          /\ placement' = [placement EXCEPT ![p] = v]
          /\ v.step \in {"idle", "journal"}
          /\ v.step = "journal" => v.written < Len(v.chain)
    <2>1. CASE placement[p].written + 1 = Len(placement[p].chain)
      <3>1. placement' = [placement EXCEPT ![p] = NoPlacement]
        BY <2>1 DEF JournalEvent, Ends
      <3>2. NoPlacement.step = "idle" /\ NoPlacement.step # "journal"
        BY DEF NoPlacement
      <3> QED BY Zenon, <3>1, <3>2
    <2>2. CASE placement[p].written + 1 # Len(placement[p].chain)
      <3> DEFINE v == [placement[p] EXCEPT !.written = @ + 1]
      <3>1. v \in Placement /\ v.step = "journal" /\ v.chain = c
            /\ v.written = placement[p].written + 1
        <4>1. placement[p] \in Placement /\ placement[p].step = "journal" /\ placement[p].chain = c
          BY <1>1, <1>c DEF JournalEvent, At
        <4>2. PICK old \in Placement : old = placement[p]
          BY Zenon, <4>1
        <4>3. /\ [old EXCEPT !.written = @ + 1] \in Placement
              /\ [old EXCEPT !.written = @ + 1].step = old.step
              /\ [old EXCEPT !.written = @ + 1].chain = old.chain
              /\ [old EXCEPT !.written = @ + 1].written = old.written + 1
          BY DEF Placement
        <4> QED BY Zenon, <4>1, <4>2, <4>3
      <3>2. placement' = [placement EXCEPT ![p] = v]
        BY <2>2 DEF JournalEvent
      <3>3. v.written < Len(v.chain)
        BY <1>0, <1>2, <1>c, <2>2, <3>1
      <3> QED BY Zenon, <3>1, <3>2, <3>3
    <2> QED BY <2>1, <2>2
  <1>p. placement'[p] = v /\ \A q \in Placers : q # p => placement'[q] = placement[q]
    BY <1>0, <1>v
  <1>7. PlacementTypeOK'
    BY <1>0, <1>6, <1>u, <1>v DEF PlacementTypeOK
  <1>8. SingleUse' /\ RowsDated'
    BY <1>u DEF SingleUse, RowsDated
  <1>9. SentWasApproved'
    BY <1>u DEF SentWasApproved, ApprovedSince
  <1>10. HoldsClaim'
    BY <1>p, <1>u, <1>v DEF HoldsClaim, SameUse, Claimed
  <1>11. Revalidated'
    BY <1>p, <1>u, <1>v DEF Revalidated, ApprovedSince
  <1>12. ChainLeft'
    BY <1>p, <1>v DEF ChainLeft
  <1>13. JournalIsOneChain'
    <2>1. CASE L = 0
      <3>1. \A i \in 1..Len(journal') : i = 1
        BY <1>6, <2>1
      <3>2. SubSeq(new.events, 1, 1) = new.events
        BY <1>2, <1>3, <1>4, <2>1, WholeQueue
      <3>3. \A i \in 1..Len(journal') : \A j \in 1..i : j = 1
        BY <3>1
      <3>4. journal'[1] = new /\ Len(new.events) = 1
        BY <1>3, <1>4, <1>6, <2>1
      <3> QED BY Zenon, <3>1, <3>2, <3>3, <3>4 DEF JournalIsOneChain
    <2>2. CASE L # 0
      <3>1. L \in 1..L /\ journal[L] = Entry(p, L)
        BY <1>0, <2>2 DEF JournalEvent, Appends
      <3>2. journal[L].events = SubSeq(c, 1, L)
            /\ journal[L].client_order_id = new.client_order_id
        BY <1>3, <1>c, <3>1 DEF Entry
      <3>3. 1 \in 1..L /\ journal'[1] = journal[1]
            /\ new.client_order_id = journal[1].client_order_id
        BY <1>0, <1>6, <2>2, <3>1, <3>2 DEF JournalIsOneChain
      <3>4. \A j \in 1..L : journal[j].events = SubSeq(new.events, 1, j)
        <4> TAKE j \in 1..L
        <4>1. journal[j].events = SubSeq(SubSeq(c, 1, L), 1, j)
          BY <3>1, <3>2 DEF JournalIsOneChain
        <4>2. SubSeq(SubSeq(c, 1, L), 1, j) = SubSeq(c, 1, j)
          <5>1. L \in 0..Len(c) /\ j \in 0..L
            BY <1>0, <1>2
          <5> HIDE DEF L, E
          <5> QED BY <1>2, <5>1, BeginningOfBeginning
        <4>3. SubSeq(SubSeq(c, 1, L + 1), 1, j) = SubSeq(c, 1, j)
          <5>1. L + 1 \in 0..Len(c) /\ j \in 0..(L + 1)
            BY <1>0, <1>2
          <5> HIDE DEF L, E
          <5> QED BY <1>2, <5>1, BeginningOfBeginning
        <4> QED BY <1>3, <4>1, <4>2, <4>3
      <3>5. SubSeq(new.events, 1, L + 1) = new.events
        BY <1>3, <1>4, WholeQueue
      <3>6. Len(new.events) = L + 1
        BY <1>3, <1>4
      <3> SUFFICES ASSUME NEW i \in 1..Len(journal')
                   PROVE  /\ journal'[i].client_order_id = journal'[1].client_order_id
                          /\ Len(journal'[i].events) = i
                          /\ \A j \in 1..i : journal'[j].events = SubSeq(journal'[i].events, 1, j)
        BY DEF JournalIsOneChain
      <3>7. CASE i \in 1..L
        <4>1. \A j \in 1..i : j \in 1..L
          BY <1>0, <3>7
        <4> QED BY <1>6, <3>3, <3>7, <4>1 DEF JournalIsOneChain
      <3>8. CASE i = L + 1
        <4>1. \A j \in 1..i : j \in 1..L \/ j = L + 1
          BY <1>0, <3>8
        <4> QED BY <1>6, <3>3, <3>4, <3>5, <3>6, <3>8, <4>1
      <3> QED BY <1>i, <3>7, <3>8
    <2> QED BY <2>1, <2>2
  <1> QED BY <1>7, <1>8, <1>9, <1>10, <1>11, <1>12, <1>13

\* The queue grows, or time passes.
LEMMA QueueKeeps ==
    ASSUME PlacementInv, now' \in Nat,
           queue' = queue \/ \E r \in Record : queue' = Append(queue, r),
           UNCHANGED <<ledger, placement, sent, journal, refused>>
    PROVE  PlacementInv'
PROOF
  <1> USE DEF PlacementInv
  <1>0. queue \in Seq(Record) /\ Len(queue) \in Nat
    BY DEF PlacementTypeOK
  <1>1. queue' \in Seq(Record) /\ Len(queue') \in Nat /\ Len(queue) <= Len(queue')
    BY <1>0
  <1>2. PlacementTypeOK'
    BY <1>1 DEF PlacementTypeOK
  <1>3. SingleUse' /\ HoldsClaim' /\ JournalIsOneChain' /\ ChainLeft'
    BY DEF SingleUse, HoldsClaim, JournalIsOneChain, ChainLeft, SameUse
  <1>4. RowsDated'
    <2>1. \A row \in ledger : row.queued \in Nat
      BY DEF PlacementTypeOK
    <2> QED BY <1>0, <1>1, <2>1 DEF RowsDated
  <1>5. SentWasApproved'
    <2> SUFFICES ASSUME NEW i \in 1..Len(sent)
                 PROVE  ApprovedSince(sent[i])'
      BY DEF SentWasApproved
    <2>1. PICK e : e = sent[i]
      OBVIOUS
    <2>2. ApprovedSince(e)
      BY <2>1 DEF SentWasApproved
    <2>3. ApprovedSince(e)'
      BY <2>2, ApprovedSinceKept
    <2> QED BY <2>1, <2>3 DEF ApprovedSince
  <1>6. Revalidated'
    <2> SUFFICES ASSUME NEW p \in Placers, placement[p].step \in {"test", "send"}
                 PROVE  ApprovedSince(placement[p].envelope)'
      BY DEF Revalidated
    <2>1. PICK e : e = placement[p].envelope
      OBVIOUS
    <2>2. ApprovedSince(e)
      BY <2>1 DEF Revalidated
    <2>3. ApprovedSince(e)'
      BY <2>2, ApprovedSinceKept
    <2> QED BY <2>1, <2>3 DEF ApprovedSince
  <1> QED BY <1>2, <1>3, <1>4, <1>5, <1>6

\* Every step of a command keeps the invariant.
LEMMA CommandKeeps ==
    ASSUME PlacementInv, NEW p \in Placers, Command(p)
    PROVE  PlacementInv'
PROOF
  <1>0. refused \subseteq Envelopes /\ queue \in Seq(Record) /\ now \in Nat
    BY DEF PlacementInv, PlacementTypeOK
  <1>w. placement[p].step \in Steps => placement[p] \in Placement
    BY Shapes DEF PlacementInv
  <1>n. "NONE" \in Lifecycle!Snapshots /\ 0 \in 0..MaxQuantity
    BY PlacementAssumption DEF Lifecycle!Snapshots
  <1>r. ASSUME placement[p].step \in Steps,
               NEW failed \in BOOLEAN, NEW snapshot \in Lifecycle!Snapshots,
               NEW executed \in 0..MaxQuantity, Report(p, failed, snapshot, executed),
               UNCHANGED <<now, queue, ledger, sent, journal, refused>>
        PROVE  PlacementInv'
    <2>1. PICK v \in Placement : /\ placement' = [placement EXCEPT ![p] = v]
                                 /\ v.step = "journal" /\ v.written < Len(v.chain)
      BY <1>r, Reported
    <2> QED BY Zenon, <1>0, <1>r, <2>1, MoveKeeps DEF Claimed
  <1>1. CASE \E e \in Envelopes : Begin(p, e)
    <2>1. PICK e \in Envelopes : Begin(p, e)
      BY <1>1
    <2> DEFINE v == [step |-> "check", envelope |-> e, attempted_at |-> now,
                     chain |-> <<>>, written |-> 0]
    <2>2. v \in Placement /\ v.step = "check"
      BY <1>0 DEF Placement, Steps
    <2>3. placement' = [placement EXCEPT ![p] = v]
      BY <2>1 DEF Begin
    <2>4. UNCHANGED <<now, queue, ledger, sent, journal, refused>>
      BY <2>1 DEF Begin
    <2> HIDE DEF v
    <2> QED BY Zenon, <1>0, <2>2, <2>3, <2>4, MoveKeeps DEF Claimed
  <1>2. CASE Check(p)
    <2>1. CASE Ends(p)
      BY <1>0, <1>2, <2>1, EndsKeeps DEF Check
    <2>2. CASE Goes(p, "claim")
      BY <1>2, <2>2, GoesKeeps DEF Check, At, Steps, Claimed
    <2> QED BY <1>2, <2>1, <2>2 DEF Check
  <1>3. CASE Claim(p)
    BY <1>3, ClaimKeeps
  <1>4. CASE ClaimFails(p) \/ Unpriced(p) \/ Crash(p)
    BY <1>0, <1>4, EndsKeeps DEF ClaimFails, Unpriced, Crash
  <1>5. CASE Revalidate(p)
    <2>1. CASE Ends(p)
      BY <1>0, <1>5, <2>1, EndsKeeps DEF Revalidate
    <2>2. CASE Resolves(queue, placement[p].envelope) /\ Goes(p, "test")
      <3>1. PICK row \in ledger : row.envelope = placement[p].envelope
        BY <1>5 DEF Revalidate, At, PlacementInv, HoldsClaim, Claimed
      <3>2. row.queued \in Nat /\ Len(queue) \in Nat /\ row.queued <= Len(queue)
        BY <1>0 DEF PlacementInv, PlacementTypeOK, RowsDated
      <3>3. Len(queue) \in row.queued..Len(queue)
        BY <3>2
      <3>4. SubSeq(queue, 1, Len(queue)) = queue
        BY <1>0, WholeQueue
      <3>5. ApprovedSince(placement[p].envelope)
        BY Zenon, <2>2, <3>1, <3>3, <3>4 DEF ApprovedSince
      <3> QED BY Zenon, <1>5, <2>2, <3>5, GoesKeeps DEF Revalidate, At, Steps, Claimed
    <2> QED BY <1>5, <2>1, <2>2 DEF Revalidate
  <1>6. CASE OrderTest(p)
    <2>1. CASE Goes(p, "send")
      <3>1. ApprovedSince(placement[p].envelope)
        BY <1>6 DEF OrderTest, At, PlacementInv, Revalidated
      <3> QED BY <1>6, <2>1, <3>1, GoesKeeps DEF OrderTest, At, Steps, Claimed
    <2>2. CASE Report(p, TRUE, "NONE", 0)
      BY Zenon, <1>6, <1>n, <1>r, <2>2 DEF OrderTest, At, Steps
    <2> QED BY Zenon, <1>6, <2>1, <2>2 DEF OrderTest
  <1>7. CASE OrderPlace(p)
    <2>1. placement[p] \in Placement /\ placement[p].step = "send"
      BY <1>7, <1>w DEF OrderPlace, At, Steps
    <2>2. CASE Goes(p, "verify")
      <3> DEFINE v == [placement[p] EXCEPT !.step = "verify"]
      <3>1. v \in Placement /\ v.step = "verify"
        BY <2>1 DEF Placement, Steps
      <3>2. placement' = [placement EXCEPT ![p] = v]
        BY <2>2 DEF Goes
      <3> HIDE DEF v
      <3> QED BY Zenon, <1>7, <2>1, <3>1, <3>2, SendKeeps DEF OrderPlace, Claimed
    <2>3. CASE Report(p, TRUE, "NONE", 0)
      <3>1. PICK v \in Placement : /\ placement' = [placement EXCEPT ![p] = v]
                                   /\ v.step = "journal" /\ v.written < Len(v.chain)
        BY Zenon, <1>n, <2>1, <2>3, Reported DEF Steps
      <3> QED BY Zenon, <1>7, <2>1, <3>1, SendKeeps DEF OrderPlace, Claimed
    <2> QED BY Zenon, <1>7, <2>2, <2>3 DEF OrderPlace
  <1>8. CASE OrderPlaceFails(p)
    BY Zenon, <1>8, <1>n, <1>r DEF OrderPlaceFails, At, Steps
  <1>9. CASE Verify(p)
    <2>0. placement[p].step \in Steps /\ placement[p] \in Placement
      BY <1>9, <1>w DEF Verify, At, Steps
    <2>1. CASE Report(p, TRUE, "NONE", 0)
      BY Zenon, <1>9, <1>n, <1>r, <2>0, <2>1 DEF Verify
    <2>2. CASE \E snapshot \in Lifecycle!Snapshots :
                 \E executed \in Executed(snapshot, placement[p].envelope.quantity) :
                    Report(p, FALSE, snapshot, executed)
      <3>s. PICK snapshot \in Lifecycle!Snapshots :
                 \E executed \in Executed(snapshot, placement[p].envelope.quantity) :
                    Report(p, FALSE, snapshot, executed)
        BY Zenon, <2>2
      <3>1. PICK executed \in Executed(snapshot, placement[p].envelope.quantity) :
                    Report(p, FALSE, snapshot, executed)
        BY Zenon, <3>s
      <3>2. placement[p].envelope.quantity \in 1..MaxQuantity /\ MaxQuantity \in Nat
        BY <2>0, PlacementAssumption DEF Placement, Envelope
      <3>3. executed \in 0..MaxQuantity
        BY <3>1, <3>2 DEF Executed
      <3> QED BY Zenon, <1>9, <1>r, <2>0, <3>1, <3>3 DEF Verify
    <2> QED BY Zenon, <1>9, <2>1, <2>2 DEF Verify
  <1>10. CASE JournalEvent(p)
    BY <1>10, JournalKeeps
  <1>11. CASE JournalRefuses(p)
    <2>1. placement[p].envelope \in Envelopes
      BY <1>11, <1>w DEF JournalRefuses, At, Steps, Placement
    <2>2. refused' \subseteq Envelopes
      BY <1>0, <1>11, <2>1 DEF JournalRefuses
    <2> QED BY <1>11, <2>2, EndsKeeps DEF JournalRefuses
  <1> QED BY <1>1, <1>2, <1>3, <1>4, <1>5, <1>6, <1>7, <1>8, <1>9, <1>10, <1>11 DEF Command

-----------------------------------------------------------------------------
(* The theorems.                                                           *)

\* Before any decision and any command the invariant holds.
LEMMA PlacementStarts == Init => PlacementInv
PROOF
  <1> SUFFICES ASSUME Init PROVE PlacementInv
    OBVIOUS
  <1>1. \A p \in Placers : placement[p] = NoPlacement /\ placement[p].step = "idle"
    BY DEF Init, NoPlacement
  <1>2. Len(sent) = 0 /\ Len(journal) = 0 /\ 1..0 = {}
    BY DEF Init
  <1>3. PlacementTypeOK
    BY DEF Init, PlacementTypeOK
  <1>4. SingleUse /\ SentWasApproved /\ JournalIsOneChain
    BY <1>2 DEF SingleUse, SentWasApproved, JournalIsOneChain
  <1>5. HoldsClaim /\ Revalidated /\ RowsDated /\ ChainLeft
    BY <1>1 DEF Init, HoldsClaim, Revalidated, RowsDated, ChainLeft, Claimed
  <1> QED BY <1>3, <1>4, <1>5 DEF PlacementInv

\* Every step keeps the invariant.
LEMMA PlacementInductive == PlacementInv /\ [Next]_vars => PlacementInv'
PROOF
  <1> SUFFICES ASSUME PlacementInv, [Next]_vars PROVE PlacementInv'
    OBVIOUS
  <1>0. now \in Nat
    BY DEF PlacementInv, PlacementTypeOK
  <1>1. CASE Tick
    BY <1>0, <1>1, QueueKeeps DEF Tick
  <1>2. CASE \E a \in ApprovalIds : Enqueue(a)
    <2>1. PICK a \in ApprovalIds : Enqueue(a)
      BY <1>2
    <2> DEFINE r == [approval_id |-> a, approved |-> FALSE, created_at |-> now,
                     envelope |-> <<>>]
    <2>2. r \in Record
      BY <1>0 DEF Record
    <2> QED BY <1>0, <2>1, <2>2, QueueKeeps DEF Enqueue
  <1>3. CASE \E r \in [approval_id : ApprovalIds, approved : BOOLEAN, created_at : {now},
                        envelope : {<<>>} \cup {<<e>> : e \in Envelopes}] : Decide(r)
    <2>1. PICK r \in [approval_id : ApprovalIds, approved : BOOLEAN, created_at : {now},
                      envelope : {<<>>} \cup {<<e>> : e \in Envelopes}] : Decide(r)
      BY <1>3
    <2>2. r \in Record
      BY <1>0 DEF Record
    <2> QED BY <1>0, <2>1, <2>2, QueueKeeps DEF Decide
  <1>4. CASE \E p \in Placers : Command(p)
    BY <1>4, CommandKeeps
  <1>5. CASE UNCHANGED vars
    BY <1>0, <1>5, QueueKeeps DEF vars
  <1> QED BY <1>1, <1>2, <1>3, <1>4, <1>5 DEF Next

\* No authorization and no nonce is ever used for two orders, whatever number
\* of commands race for it, die and are run again (claim before order_place).
THEOREM AuthorizationsAreSingleUse == Spec => []SingleUse
PROOF
  <1>1. PlacementInv => SingleUse
    BY DEF PlacementInv
  <1> QED BY <1>1, PlacementStarts, PlacementInductive, PTL DEF Spec

\* No order reaches the exchange whose approval was withdrawn before its claim
\* (the queue is resolved again after the claim).
THEOREM OrdersAreApproved == Spec => []SentWasApproved
PROOF
  <1>1. PlacementInv => SentWasApproved
    BY DEF PlacementInv
  <1> QED BY <1>1, PlacementStarts, PlacementInductive, PTL DEF Spec

\* The lifecycle journal never holds a mixture of two commands' chains
\* (append_place_result appends one event at a time).
THEOREM JournalHoldsOneChain == Spec => []JournalIsOneChain
PROOF
  <1>1. PlacementInv => JournalIsOneChain
    BY DEF PlacementInv
  <1> QED BY <1>1, PlacementStarts, PlacementInductive, PTL DEF Spec

\* The stores and the commands of a placement hold values of their kinds
\* (GatedSpotOrderExecutor.place).
THEOREM PlacementTyped == Spec => []PlacementTypeOK
PROOF
  <1>1. PlacementInv => PlacementTypeOK
    BY DEF PlacementInv
  <1> QED BY <1>1, PlacementStarts, PlacementInductive, PTL DEF Spec
=============================================================================
