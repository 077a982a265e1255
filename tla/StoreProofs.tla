---------------------------- MODULE StoreProofs ----------------------------
(***************************************************************************)
(* Theorems about the capability leases, publishing and the record of a    *)
(* live order, for any number of users, leases, gateways, threads,         *)
(* reviewers and lots.                                                     *)
(***************************************************************************)
EXTENDS CapabilityStore, Publishing, LiveOrder, TLAPS

-----------------------------------------------------------------------------
(* Capability leases. *)

\* The table is empty at first.
LEMMA CapabilityInitInv ==
    ASSUME CapabilityInit PROVE CapabilityInv
  BY Zenon, CapabilityAssumption DEF CapabilityInit, CapabilityInv, CapabilityTypeOK, NoRow, NoUse, ReceiptsBacked

\* A row that is issued, or not, keeps what the invariant says of the others.
LEMMA IssueInv ==
    ASSUME CapabilityInv, NEW l \in Leases, Issue(l) PROVE CapabilityInv'
  <1> DEFINE row == [issued |-> TRUE, expires |-> instant + Ttl,
                     consumed |-> Unconsumed, execution |-> NoExecution]
  <1>t. CapabilityTypeOK /\ Ttl \in Nat /\ ~rows[l].issued
    BY Zenon, CapabilityAssumption DEF CapabilityInv, Issue
  <1>r. rows' = [rows EXCEPT ![l] = row]
    BY Zenon DEF Issue
  <1>u. UNCHANGED <<instant, consuming, granted, receipts>>
    BY Zenon DEF Issue
  <1>1. row \in Row
    BY <1>t DEF CapabilityTypeOK, Row, Unconsumed
  <1>2. rows' \in [Leases -> Row \cup {NoRow}]
    BY Zenon, <1>1, <1>r, <1>t DEF CapabilityTypeOK
  <1>3. CapabilityTypeOK'
    BY Zenon, <1>2, <1>u, <1>t DEF CapabilityTypeOK
  <1>4. \A k \in Leases : rows[k].issued => rows'[k] = rows[k]
    BY Zenon, <1>r, <1>t DEF CapabilityTypeOK
  <1>5. rows'[l] = row /\ \A k \in Leases : k # l => rows'[k] = rows[k]
    BY Zenon, <1>r, <1>t DEF CapabilityTypeOK
  <1>6. ReceiptsBacked'
    BY <1>4, <1>u, <1>t DEF CapabilityInv, CapabilityTypeOK, ReceiptsBacked, LeaseUse
  <1>7. \A g \in granted : rows'[g.lease].issued /\ rows'[g.lease].consumed = g.at
                             /\ rows'[g.lease].execution = g.execution
    BY <1>4, <1>t DEF CapabilityInv, CapabilityTypeOK, LeaseUse
  <1>8. \A u \in Users : consuming[u].step = "update" => rows'[consuming[u].lease].issued
    BY <1>4, <1>t DEF CapabilityInv, CapabilityTypeOK, NoUse
  <1>9. \A k, j \in Leases :
          rows'[k].issued /\ rows'[j].issued /\ rows'[k].execution = rows'[j].execution
             /\ rows'[k].execution # NoExecution => k = j
    BY <1>5 DEF CapabilityInv
  <1> QED
    BY Zenon, <1>3, <1>6, <1>7, <1>8, <1>9, <1>u DEF CapabilityInv

\* What a user does before its update leaves the table alone.
LEMMA UserInv ==
    ASSUME CapabilityInv, NEW u \in Users, UNCHANGED <<instant, rows, granted, receipts>>,
           NEW k, consuming' = [consuming EXCEPT ![u] = k],
           k \in {NoUse} \cup [step : {"check", "update"}, lease : Leases,
                               execution : Executions, at : Nat],
           k.step = "update" => rows[k.lease].issued
    PROVE  CapabilityInv'
  <1>1. CapabilityTypeOK'
    BY Zenon DEF CapabilityInv, CapabilityTypeOK
  <1>2. \A v \in Users : consuming'[v] = IF v = u THEN k ELSE consuming[v]
    BY Zenon DEF CapabilityInv, CapabilityTypeOK
  <1>3. \A v \in Users : consuming'[v].step = "update" => rows[consuming'[v].lease].issued
    BY <1>2 DEF CapabilityInv
  <1>4. ReceiptsBacked'
    BY Zenon DEF CapabilityInv, ReceiptsBacked
  <1> QED
    BY Zenon, <1>1, <1>3, <1>4 DEF CapabilityInv

\* The update takes a row nobody consumed, for an execution without a row.
LEMMA UpdateInv ==
    ASSUME CapabilityInv, NEW u \in Users, NEW dies \in BOOLEAN, Update(u, dies)
    PROVE  CapabilityInv'
  <1> DEFINE c == consuming[u]
  <1>t. CapabilityTypeOK
    BY Zenon DEF CapabilityInv
  <1>c. /\ c \in [step : {"check", "update"}, lease : Leases, execution : Executions, at : Nat]
        /\ rows[c.lease].issued /\ rows[c.lease] \in Row
    BY <1>t DEF CapabilityInv, CapabilityTypeOK, Update, NoUse, NoRow
  <1>d. /\ consuming' = [consuming EXCEPT ![u] = NoUse]
        /\ UNCHANGED <<instant, receipts>>
    BY Zenon DEF Update, Done
  <1>1. CASE ~UpdateTakes(c.lease, c.execution)
    <2>1. UNCHANGED <<rows, granted>>
      BY Zenon, <1>1 DEF Update
    <2> QED
      BY Zenon, <2>1, <1>d, UserInv DEF NoUse
  <1>2. CASE UpdateTakes(c.lease, c.execution)
    <2> DEFINE new == [rows[c.lease] EXCEPT !.consumed = c.at, !.execution = c.execution]
    <2>1. rows' = [rows EXCEPT ![c.lease] = new]
      BY Zenon, <1>2 DEF Update
    <2>2. granted' \subseteq granted \cup {Use(u)}
      BY Zenon, <1>2 DEF Update
    <2>3. new \in Row /\ new.issued /\ new.consumed = c.at /\ new.execution = c.execution
      BY Zenon, <1>c DEF Row
    <2>4. rows'[c.lease] = new /\ \A k \in Leases : k # c.lease => rows'[k] = rows[k]
      BY Zenon, <2>1, <1>t, <1>c DEF CapabilityTypeOK
    <2>5. Use(u) \in LeaseUse /\ Use(u).lease = c.lease /\ Use(u).at = c.at
            /\ Use(u).execution = c.execution
      BY Zenon, <1>c DEF Use, LeaseUse
    <2>6. CapabilityTypeOK'
      <3>1. rows' \in [Leases -> Row \cup {NoRow}]
        BY Zenon, <2>1, <2>3, <1>t DEF CapabilityTypeOK
      <3>2. granted' \subseteq LeaseUse
        BY Zenon, <2>2, <2>5, <1>t DEF CapabilityTypeOK
      <3> QED
        BY Zenon, <3>1, <3>2, <1>d, <1>t DEF CapabilityTypeOK
    <2>7. /\ rows[c.lease].consumed = Unconsumed
          /\ \A k \in Leases : rows[k].issued => rows[k].execution # c.execution
      BY Zenon, <1>2 DEF UpdateTakes
    <2>8. \A g \in granted : g.lease # c.lease
      BY <2>7, <1>t DEF CapabilityInv, CapabilityTypeOK, LeaseUse, Unconsumed
    <2>9. \A g \in granted' : rows'[g.lease].issued /\ rows'[g.lease].consumed = g.at
                                 /\ rows'[g.lease].execution = g.execution
      <3>1. \A g \in granted : rows'[g.lease] = rows[g.lease]
        BY Zenon, <2>8, <2>4, <1>t DEF CapabilityTypeOK, LeaseUse
      <3>2. \A g \in granted : rows'[g.lease].issued /\ rows'[g.lease].consumed = g.at
                                 /\ rows'[g.lease].execution = g.execution
        BY Zenon, <3>1 DEF CapabilityInv
      <3>3. rows'[Use(u).lease].issued /\ rows'[Use(u).lease].consumed = Use(u).at
              /\ rows'[Use(u).lease].execution = Use(u).execution
        BY Zenon, <2>3, <2>4, <2>5
      <3> QED
        BY Zenon, <3>2, <3>3, <2>2
    <2>10. \A k, j \in Leases :
             rows'[k].issued /\ rows'[j].issued /\ rows'[k].execution = rows'[j].execution
                /\ rows'[k].execution # NoExecution => k = j
      <3> SUFFICES ASSUME NEW k \in Leases, NEW j \in Leases, rows'[k].issued, rows'[j].issued,
                          rows'[k].execution = rows'[j].execution,
                          rows'[k].execution # NoExecution
                   PROVE  k = j
        BY Zenon
      <3>1. CASE k # c.lease /\ j # c.lease
        BY <3>1, <2>4 DEF CapabilityInv
      <3>2. CASE k = c.lease
        BY Zenon, <3>2, <2>3, <2>4, <2>7
      <3>3. CASE j = c.lease
        BY <3>3, <2>3, <2>4, <2>7
      <3> QED
        BY Zenon, <3>1, <3>2, <3>3
    <2>11. \A v \in Users : consuming'[v].step = "update" => rows'[consuming'[v].lease].issued
      <3>1. \A v \in Users : consuming'[v] = IF v = u THEN NoUse ELSE consuming[v]
        BY Zenon, <1>d, <1>t DEF CapabilityTypeOK
      <3>2. \A k \in Leases : rows[k].issued => rows'[k].issued
        BY Zenon, <2>3, <2>4
      <3>3. \A v \in Users : consuming[v].step = "update" => consuming[v].lease \in Leases
        BY <1>t DEF CapabilityTypeOK, NoUse
      <3> QED
        BY <3>1, <3>2, <3>3 DEF CapabilityInv, NoUse
    <2>12. ReceiptsBacked'
      <3>1. \A r \in receipts : r.lease \in Leases /\ r.lease # c.lease
        BY <2>7, <1>t DEF CapabilityInv, CapabilityTypeOK, ReceiptsBacked, LeaseUse, Unconsumed
      <3> QED
        BY <3>1, <2>4, <1>d DEF CapabilityInv, ReceiptsBacked
    <2> QED
      BY Zenon, <2>6, <2>9, <2>10, <2>11, <2>12 DEF CapabilityInv
  <1> QED
    BY Zenon, <1>1, <1>2

\* A receipt is written for a use that the table holds.
LEMMA EnforceInv ==
    ASSUME CapabilityInv, NEW g \in granted, NEW at \in 0..MaxInstant, Enforce(g, at)
    PROVE  CapabilityInv'
  <1> DEFINE r == [lease |-> g.lease, execution |-> g.execution, at |-> at]
  <1>t. CapabilityTypeOK /\ MaxInstant \in Nat
    BY Zenon, CapabilityAssumption DEF CapabilityInv
  <1>g. /\ g \in LeaseUse
        /\ rows[g.lease].issued /\ rows[g.lease].consumed = g.at
        /\ rows[g.lease].execution = g.execution
    BY Zenon, <1>t DEF CapabilityInv, CapabilityTypeOK
  <1>u. UNCHANGED <<instant, rows, consuming, granted>> /\ receipts' = receipts \cup {r}
    BY Zenon DEF Enforce
  <1>1. r \in LeaseUse
    BY <1>g, <1>t DEF LeaseUse
  <1>2. CapabilityTypeOK'
    BY Zenon, <1>1, <1>t, <1>u DEF CapabilityTypeOK
  <1>3. rows[g.lease].consumed \in 0..rows[g.lease].expires /\ rows[g.lease].consumed <= at
    BY <1>g, <1>t DEF Enforce, Verified, LeaseUse, CapabilityTypeOK, Row, NoRow
  <1>4. ReceiptsBacked'
    BY <1>3, <1>g, <1>u DEF CapabilityInv, ReceiptsBacked
  <1> QED
    BY Zenon, <1>2, <1>4, <1>u DEF CapabilityInv

\* Every step keeps the invariant.
LEMMA CapabilityStep ==
    ASSUME CapabilityInv, [CapabilityNext]_capabilityVars PROVE CapabilityInv'
  <1>t. CapabilityTypeOK
    BY Zenon DEF CapabilityInv
  <1>1. CASE UNCHANGED capabilityVars
    BY Zenon, <1>1 DEF CapabilityInv, CapabilityTypeOK, ReceiptsBacked, capabilityVars
  <1>2. CASE Advance
    <2>1. instant' \in Nat /\ UNCHANGED <<rows, consuming, granted, receipts>>
      BY <1>2, <1>t DEF Advance, CapabilityTypeOK
    <2> QED
      BY Zenon, <2>1 DEF CapabilityInv, CapabilityTypeOK, ReceiptsBacked
  <1>3. ASSUME NEW l \in Leases, Issue(l) PROVE CapabilityInv'
    BY Zenon, <1>3, IssueInv
  <1>4. ASSUME NEW u \in Users, NEW l \in Leases, NEW x \in Executions, Consume(u, l, x)
        PROVE  CapabilityInv'
    <2> DEFINE k == [step |-> "check", lease |-> l, execution |-> x, at |-> instant]
    <2>1. k \in [step : {"check", "update"}, lease : Leases, execution : Executions, at : Nat]
            /\ k.step # "update"
      BY Zenon, <1>t DEF CapabilityTypeOK
    <2>2. consuming' = [consuming EXCEPT ![u] = k] /\ UNCHANGED <<instant, rows, granted, receipts>>
      BY Zenon, <1>4 DEF Consume
    <2> HIDE DEF k
    <2> QED
      BY Zenon, <2>1, <2>2, UserInv
  <1>5. ASSUME NEW u \in Users, NEW genuine \in BOOLEAN, Check(u, genuine)
        PROVE  CapabilityInv'
    <2>1. CASE Consumable(rows[consuming[u].lease], genuine, consuming[u].at)
      <3> DEFINE k == [consuming[u] EXCEPT !.step = "update"]
      <3>1. consuming[u] \in [step : {"check", "update"}, lease : Leases,
                               execution : Executions, at : Nat]
        BY <1>5, <1>t DEF Check, CapabilityTypeOK, NoUse
      <3>2. k \in [step : {"check", "update"}, lease : Leases, execution : Executions, at : Nat]
              /\ k.lease = consuming[u].lease
        BY Zenon, <3>1
      <3>3. rows[k.lease].issued
        BY Zenon, <3>2, <2>1 DEF Consumable
      <3>4. consuming' = [consuming EXCEPT ![u] = k] /\ UNCHANGED <<instant, rows, granted, receipts>>
        BY Zenon, <1>5, <2>1 DEF Check
      <3> HIDE DEF k
      <3> QED
        BY Zenon, <3>2, <3>3, <3>4, UserInv
    <2>2. CASE ~Consumable(rows[consuming[u].lease], genuine, consuming[u].at)
      BY Zenon, <2>2, <1>5, UserInv DEF Check, Done, NoUse
    <2> QED
      BY Zenon, <2>1, <2>2
  <1>6. ASSUME NEW u \in Users, NEW dies \in BOOLEAN, Update(u, dies) PROVE CapabilityInv'
    BY Zenon, <1>6, UpdateInv
  <1>7. ASSUME NEW u \in Users, Abandon(u) PROVE CapabilityInv'
    BY Zenon, <1>7, UserInv DEF Abandon, Done, NoUse
  <1>8. ASSUME NEW g \in granted, NEW at \in 0..MaxInstant, Enforce(g, at) PROVE CapabilityInv'
    BY Zenon, <1>8, EnforceInv
  <1> QED
    BY Zenon, <1>1, <1>2, <1>3, <1>4, <1>5, <1>6, <1>7, <1>8 DEF CapabilityNext

\* consume hands a lease to one use and an execution one lease, for any number
\* of users, although it checks the row outside the transaction.
THEOREM LeasesUsedOnce == CapabilitySpec => []LeaseUsedOnce
  <1>1. CapabilityInv => LeaseUsedOnce
    <2> SUFFICES ASSUME CapabilityInv, NEW g \in granted, NEW h \in granted,
                        g.lease = h.lease \/ g.execution = h.execution
                 PROVE  g = h
      BY Zenon DEF LeaseUsedOnce
    <2>1. g \in LeaseUse /\ h \in LeaseUse
      BY Zenon DEF CapabilityInv, CapabilityTypeOK
    <2>2. g.execution # NoExecution
      BY Zenon, <2>1, CapabilityAssumption DEF LeaseUse
    <2>3. g.lease = h.lease
      BY <2>1, <2>2 DEF CapabilityInv, LeaseUse
    <2>4. g.at = h.at /\ g.execution = h.execution
      BY <2>3 DEF CapabilityInv
    <2> QED
      BY <2>1, <2>3, <2>4 DEF LeaseUse
  <1> QED
    BY <1>1, CapabilityInitInv, CapabilityStep, PTL DEF CapabilitySpec

\* Every enforcement receipt tells of a use in the table, within the lease's
\* lifetime and not after the enforcement.
THEOREM ReceiptsAreBacked == CapabilitySpec => []ReceiptsBacked
  <1>1. CapabilityInv => ReceiptsBacked
    BY Zenon DEF CapabilityInv
  <1> QED
    BY <1>1, CapabilityInitInv, CapabilityStep, PTL DEF CapabilitySpec
-----------------------------------------------------------------------------
(* Publishing: what a growing file keeps. *)

\* An append leaves the lines before it where they are.
LEMMA AppendKeepsLines ==
    ASSUME NEW S, NEW f \in Seq(S), NEW x \in S
    PROVE  /\ Append(f, x) \in Seq(S) /\ Len(f) \in Nat
           /\ DOMAIN f = 1..Len(f)
           /\ DOMAIN Append(f, x) = DOMAIN f \cup {Len(f) + 1}
           /\ \A i \in DOMAIN f : Append(f, x)[i] = f[i] /\ i \in 1..Len(f)
           /\ Append(f, x)[Len(f) + 1] = x
  OBVIOUS

\* An event adds its line to those of its request, and the first intent of a
\* request stays the first.
LEMMA LogGrows ==
    ASSUME audit \in Seq(LogEvent), NEW e \in LogEvent, audit' = Append(audit, e)
    PROVE  /\ audit' \in Seq(LogEvent)
           /\ Len(audit) \in Nat /\ Len(audit) + 1 \notin DOMAIN audit
           /\ DOMAIN audit' = DOMAIN audit \cup {Len(audit) + 1}
           /\ \A i \in DOMAIN audit : audit'[i] = audit[i]
           /\ audit'[Len(audit) + 1] = e
           /\ \A id : EventsOf(id)' = EventsOf(id) \cup
                                        {i \in {Len(audit) + 1} : e.request = id}
           /\ \A id, q : FirstIntent(id, q) => FirstIntent(id, q)'
  <1>1. /\ audit' \in Seq(LogEvent) /\ Len(audit) \in Nat /\ DOMAIN audit = 1..Len(audit)
        /\ DOMAIN audit' = DOMAIN audit \cup {Len(audit) + 1}
        /\ \A i \in DOMAIN audit : audit'[i] = audit[i]
        /\ audit'[Len(audit) + 1] = e
    BY AppendKeepsLines
  <1>2. Len(audit) + 1 \notin DOMAIN audit
    BY <1>1
  <1>3. ASSUME NEW id
        PROVE  EventsOf(id)' = EventsOf(id) \cup {i \in {Len(audit) + 1} : e.request = id}
    BY Zenon, <1>1, <1>2 DEF EventsOf
  <1>4. ASSUME NEW id, NEW q, FirstIntent(id, q) PROVE FirstIntent(id, q)'
    <2>1. q \in DOMAIN audit /\ q \in EventsOf(id) /\ audit[q].type = "INTENT"
            /\ \A i \in EventsOf(id) : q <= i
      BY Zenon, <1>4 DEF FirstIntent, EventsOf
    <2>2. q <= Len(audit) + 1
      BY <2>1, <1>1
    <2> QED
      BY Zenon, <2>1, <2>2, <1>1, <1>3 DEF FirstIntent
  <1> QED
    BY Zenon, <1>1, <1>2, <1>3, <1>4

\* A text that was vetted stays so.
LEMMA QueueGrows ==
    ASSUME queue \in Seq(QueueLine), NEW line \in QueueLine, queue' = Append(queue, line),
           NEW d, NEW content, Vetted(d, content)
    PROVE  Vetted(d, content)'
  <1>1. /\ Len(queue) \in Nat /\ DOMAIN queue = 1..Len(queue)
        /\ DOMAIN queue' = DOMAIN queue \cup {Len(queue) + 1}
        /\ \A i \in DOMAIN queue : queue'[i] = queue[i]
    BY AppendKeepsLines
  <1>2. PICK i \in QueuedAt(d), k \in QueuedAt(d) :
          /\ i < k
          /\ queue[i].type = "QUEUED" /\ queue[i].content = content
          /\ queue[k].type = "APPROVED"
          /\ \A j \in QueuedAt(d) : j \in {i, k} \/ j > k
    BY Zenon DEF Vetted
  <1>3. i \in DOMAIN queue /\ k \in DOMAIN queue /\ i \in QueuedAt(d)' /\ k \in QueuedAt(d)'
    BY Zenon, <1>1 DEF QueuedAt
  <1>4. \A j \in QueuedAt(d)' : j \in QueuedAt(d) \/ j = Len(queue) + 1
    BY Zenon, <1>1 DEF QueuedAt
  <1>5. \A j \in QueuedAt(d)' : j \in {i, k} \/ j > k
    BY <1>1, <1>2, <1>3, <1>4
  <1> QED
    BY Zenon, <1>1, <1>2, <1>3, <1>5 DEF Vetted

\* What approved_draft_matches finds in a valid queue was vetted.
LEMMA MatchIsVetted ==
    ASSUME queue \in Seq(QueueLine), NEW d, NEW content, ApprovedDraftMatches(d, content)
    PROVE  Vetted(d, content)
  <1>1. PICK k \in QueuedAt(d) : queue[k].type = "APPROVED"
    BY Zenon DEF ApprovedDraftMatches, Decided
  <1>2. PICK i \in QueuedAt(d) : queue[i].type = "QUEUED" /\ queue[i].content = content
    BY Zenon DEF ApprovedDraftMatches
  <1>3. /\ i \in DOMAIN queue /\ k \in DOMAIN queue /\ DOMAIN queue = 1..Len(queue)
        /\ Len(queue) \in Nat /\ queue[i].draft = d /\ queue[k].draft = d
    BY DEF QueuedAt
  <1>4. {j \in QueuedAt(d) : j < i} = {}
    BY Zenon, <1>2, <1>3 DEF ApprovedDraftMatches, QueueValid
  <1>5. PICK m \in {j \in QueuedAt(d) : j < k} : {j \in QueuedAt(d) : j < k} = {m}
    BY Zenon, <1>1, <1>3 DEF ApprovedDraftMatches, QueueValid
  <1>6. i < k
    BY <1>1, <1>2, <1>3, <1>4
  <1>7. i = m
    BY Zenon, <1>5, <1>6
  <1>8. \A j \in QueuedAt(d) : j \in DOMAIN queue
    BY Zenon DEF QueuedAt
  <1>9. \A j \in QueuedAt(d) : j \in {i, k} \/ j > k
    BY <1>3, <1>5, <1>7, <1>8
  <1> QED
    BY Zenon, <1>1, <1>2, <1>6, <1>9 DEF Vetted
-----------------------------------------------------------------------------
(* Publishing: one call moves on while the files stay. *)

\* What a call's step says about the files.
LEMMA FilesUnchanged ==
    ASSUME UNCHANGED <<queue, audit, sent>>
    PROVE  /\ \A id : EventsOf(id)' = EventsOf(id)
           /\ \A id, q : FirstIntent(id, q)' <=> FirstIntent(id, q)
           /\ \A d, content : Vetted(d, content)' <=> Vetted(d, content)
           /\ AtMostOnePost' <=> AtMostOnePost
           /\ IntentBeforePost' <=> IntentBeforePost
           /\ ApprovedContentSent' <=> ApprovedContentSent
           /\ OneOutcomePerPost' <=> OneOutcomePerPost
           /\ GatewayKeepsInterval' <=> GatewayKeepsInterval
  BY DEF EventsOf, FirstIntent, Vetted, QueuedAt, AtMostOnePost, IntentBeforePost,
         ApprovedContentSent, OneOutcomePerPost, GatewayKeepsInterval

\* A call may move on if it keeps its line and what holds of it; the others stay
\* or end.
LEMMA CallsMove ==
    ASSUME PublishingInv, PublishingTypeOK', UNCHANGED <<queue, audit, sent>>,
           NEW c \in Callers,
           \A b \in Callers : b # c => publish'[b] \in {publish[b], NoCall},
           CallPlaced(publish[c])', CallCleared(c)',
           publish'[c].step \in {"verify", "send", "complete", "outcome"} =>
              /\ publish[c].step \in {"verify", "send", "complete", "outcome"}
              /\ publish'[c].place = publish[c].place
    PROVE  PublishingInv'
  <1> USE FilesUnchanged
  <1>0. NoCall.step = "idle"
    BY Zenon DEF NoCall
  <1>1. ASSUME NEW b \in Callers PROVE CallPlaced(publish[b])'
    <2>1. CASE b = c
      BY Zenon, <2>1
    <2>2. CASE b # c /\ publish'[b] = NoCall
      BY Zenon, <2>2, <1>0 DEF CallPlaced
    <2>3. CASE b # c /\ publish'[b] = publish[b]
      <3>1. CallPlaced(publish[b])
        BY Zenon DEF PublishingInv
      <3> QED
        BY <2>3, <3>1 DEF CallPlaced, RequestId
    <2> QED
      BY Zenon, <2>1, <2>2, <2>3
  <1>2. ASSUME NEW b \in Callers PROVE CallCleared(b)'
    <2>1. CASE b = c
      BY Zenon, <2>1
    <2>2. CASE b # c /\ publish'[b] = NoCall
      BY Zenon, <2>2, <1>0 DEF CallCleared, Inside
    <2>3. CASE b # c /\ publish'[b] = publish[b]
      <3>1. CallCleared(b)
        BY Zenon DEF PublishingInv
      <3>2. \A a \in Callers : a # c /\ publish'[a].step \in Inside => publish[a].step \in Inside
        BY Zenon, <1>0 DEF Inside
      <3>3. ASSUME publish[b].step \in Inside, NEW a \in Callers, GatewayOf[a] = GatewayOf[b],
                   publish'[a].step \in Inside
            PROVE  a = b
        <4>1. CASE a = c
          BY Zenon, <4>1, <3>3, <2>3 DEF CallCleared
        <4>2. CASE a # c
          BY Zenon, <4>2, <3>1, <3>2, <3>3 DEF CallCleared
        <4> QED
          BY Zenon, <4>1, <4>2
      <3> QED
        BY Zenon, <2>3, <3>1, <3>3 DEF CallCleared
    <2> QED
      BY Zenon, <2>1, <2>2, <2>3
  <1>3. PlacesDiffer'
    <2> DEFINE P == {"verify", "send", "complete", "outcome"}
    <2>1. \A b \in Callers : publish'[b].step \in P =>
             publish[b].step \in P /\ publish'[b].place = publish[b].place
      BY Zenon, <1>0
    <2> QED
      BY <2>1 DEF PublishingInv, PlacesDiffer
  <1> QED
    BY Zenon, <1>1, <1>2, <1>3 DEF PublishingInv

\* In particular, calls may end.
LEMMA CallsEnd ==
    ASSUME PublishingInv, PublishingTypeOK', UNCHANGED <<queue, audit, sent>>,
           NEW c \in Callers, publish'[c] = NoCall,
           \A b \in Callers : b # c => publish'[b] \in {publish[b], NoCall}
    PROVE  PublishingInv'
  <1>1. publish'[c].step = "idle"
    BY DEF NoCall
  <1>2. CallPlaced(publish[c])' /\ CallCleared(c)'
    BY Zenon, <1>1 DEF CallPlaced, CallCleared, Inside
  <1> QED
    BY Zenon, <1>1, <1>2, CallsMove

\* The types of a call that moves on, or ends.
LEMMA CallTypes ==
    ASSUME PublishingTypeOK, NEW c \in Callers, NEW k \in Call \cup {NoCall},
           publish' = [publish EXCEPT ![c] = k],
           UNCHANGED <<clock, queue, queueTorn, review, audit, auditTorn, sent>>
    PROVE  /\ PublishingTypeOK' /\ publish'[c] = k
           /\ \A b \in Callers : b # c => publish'[b] = publish[b]
  BY Zenon DEF PublishingTypeOK

\* A call that is not idle is a record of a call.
LEMMA CallIsRecord ==
    ASSUME PublishingTypeOK, NEW c \in Callers, publish[c].step # "idle"
    PROVE  publish[c] \in Call
  BY DEF PublishingTypeOK, NoCall

\* A call that returns without a line.
LEMMA ReturnInv ==
    ASSUME PublishingInv, NEW c \in Callers, Return(c),
           UNCHANGED <<clock, queue, queueTorn, review, audit, auditTorn, sent>>
    PROVE  PublishingInv'
  <1>1. PublishingTypeOK
    BY Zenon DEF PublishingInv
  <1>2. /\ PublishingTypeOK' /\ publish'[c] = NoCall
        /\ \A b \in Callers : b # c => publish'[b] = publish[b]
    BY Zenon, <1>1, CallTypes DEF Return
  <1> QED
    BY Zenon, <1>2, CallsEnd

\* A call that goes from one step behind the lock to another.
LEMMA ContinueInv ==
    ASSUME PublishingInv, NEW c \in Callers, publish[c].step \in Inside,
           NEW step \in Inside, Continue(c, step),
           UNCHANGED <<clock, queue, queueTorn, review, audit, auditTorn, sent>>,
           CallPlaced([publish[c] EXCEPT !.step = step]),
           step \in {"verify", "send", "complete", "outcome"} =>
              publish[c].step \in {"verify", "send", "complete", "outcome"}
    PROVE  PublishingInv'
  <1> DEFINE k == [publish[c] EXCEPT !.step = step]
  <1>1. PublishingTypeOK
    BY Zenon DEF PublishingInv
  <1>2. publish[c] \in Call
    BY Zenon, <1>1, CallIsRecord DEF Inside
  <1>3. k \in Call /\ k.step = step /\ k.place = publish[c].place
          /\ k.draft = publish[c].draft /\ k.content = publish[c].content
          /\ k.platform = publish[c].platform /\ k.at = publish[c].at
    BY Zenon, <1>2 DEF Call, Inside
  <1>4. publish' = [publish EXCEPT ![c] = k]
    BY Zenon DEF Continue
  <1> HIDE DEF k
  <1>5. /\ PublishingTypeOK' /\ publish'[c] = k
        /\ \A b \in Callers : b # c => publish'[b] = publish[b]
    BY Zenon, <1>1, <1>3, <1>4, CallTypes
  <1>6. CallPlaced(publish[c])'
    <2>1. CallPlaced(k)
      BY Zenon DEF k
    <2> QED
      BY <2>1, <1>5, FilesUnchanged DEF CallPlaced, RequestId
  <1>7. CallCleared(c)'
    <2>1. CallCleared(c)
      BY Zenon DEF PublishingInv
    <2>2. \A b \in Callers : publish'[b].step \in Inside => publish[b].step \in Inside
      BY Zenon, <1>5
    <2> QED
      BY <2>1, <2>2, <1>3, <1>5, FilesUnchanged DEF CallCleared
  <1> QED
    BY Zenon, <1>3, <1>5, <1>6, <1>7, CallsMove
-----------------------------------------------------------------------------
(* Publishing: the steps that write no line. *)

\* A new call waits, and nothing is known of it.
LEMMA PublishInv ==
    ASSUME PublishingInv, NEW c \in Callers, NEW platform \in Platforms, NEW d \in Drafts,
           NEW content \in Contents, Publish(c, platform, d, content)
    PROVE  PublishingInv'
  <1> DEFINE k == [step |-> "waiting", platform |-> platform, draft |-> d, content |-> content,
                   at |-> clock, place |-> 0, outcome |-> "NONE"]
  <1>1. PublishingTypeOK
    BY Zenon DEF PublishingInv
  <1>2. k \in Call /\ k.step = "waiting"
    BY Zenon, <1>1 DEF Call, PublishingTypeOK
  <1>3. publish' = [publish EXCEPT ![c] = k]
          /\ UNCHANGED <<clock, queue, queueTorn, review, audit, auditTorn, sent>>
    BY Zenon DEF Publish
  <1> HIDE DEF k
  <1>4. /\ PublishingTypeOK' /\ publish'[c] = k
        /\ \A b \in Callers : b # c => publish'[b] = publish[b]
    BY Zenon, <1>1, <1>2, <1>3, CallTypes
  <1>5. CallPlaced(publish[c])' /\ CallCleared(c)'
    BY Zenon, <1>2, <1>4 DEF CallPlaced, CallCleared, Inside
  <1> QED
    BY Zenon, <1>2, <1>3, <1>4, <1>5, CallsMove

\* A call that passes its preflight has the lock, a vetted text, and no success
\* near it.
LEMMA PreflightInv ==
    ASSUME PublishingInv, NEW c \in Callers, Preflight(c) PROVE PublishingInv'
  <1>1. CASE ~PreflightPasses(publish[c])
    BY Zenon, <1>1, ReturnInv DEF Preflight
  <1>2. CASE PreflightPasses(publish[c])
    <2> DEFINE k == [publish[c] EXCEPT !.step = "begin"]
    <2>1. PublishingTypeOK
      BY Zenon DEF PublishingInv
    <2>2. publish[c] \in Call
      BY Zenon, <2>1, CallIsRecord DEF Preflight
    <2>3. k \in Call /\ k.step = "begin" /\ k.draft = publish[c].draft
            /\ k.content = publish[c].content /\ k.platform = publish[c].platform
            /\ k.at = publish[c].at /\ k.at \in Nat
      BY Zenon, <2>2 DEF Call
    <2>4. publish' = [publish EXCEPT ![c] = k]
            /\ UNCHANGED <<clock, queue, queueTorn, review, audit, auditTorn, sent>>
      BY Zenon, <1>2 DEF Preflight, Continue
    <2> HIDE DEF k
    <2>5. /\ PublishingTypeOK' /\ publish'[c] = k
          /\ \A b \in Callers : b # c => publish'[b] = publish[b]
      BY Zenon, <2>1, <2>3, <2>4, CallTypes
    <2>6. CallPlaced(publish[c])'
      BY Zenon, <2>3, <2>5 DEF CallPlaced
    <2>7. CallCleared(c)'
      <3>1. \A b \in Callers : GatewayOf[b] = GatewayOf[c] => publish[b].step \notin Inside
        BY Zenon DEF Preflight, Locked, Inside
      <3>2. \A b \in Callers : GatewayOf[b] = GatewayOf[c] /\ publish'[b].step \in Inside => b = c
        BY Zenon, <3>1, <2>5
      <3>3. Vetted(k.draft, k.content)
        BY Zenon, <1>2, <2>1, <2>3, MatchIsVetted DEF PreflightPasses, PublishingTypeOK
      <3>4. \A i \in DOMAIN audit : audit[i].at \in Nat
        <4>1. \A i \in DOMAIN audit : audit[i] \in LogEvent
          BY <2>1 DEF PublishingTypeOK
        <4> QED
          BY Zenon, <4>1 DEF LogEvent
      <3>5. \A i \in DOMAIN audit :
              audit[i].type = "SUCCEEDED" /\ audit[i].request[1] = k.platform =>
                 k.at - audit[i].at >= Interval
        BY <1>2, <2>3, <3>4, PublishingAssumption DEF PreflightPasses, OffLimits
      <3> QED
        BY Zenon, <3>2, <3>3, <3>5, <2>4, <2>5, FilesUnchanged DEF CallCleared
    <2> QED
      BY Zenon, <2>3, <2>4, <2>5, <2>6, <2>7, CallsMove
  <1> QED
    BY Zenon, <1>1, <1>2

\* begin's look at the log.
LEMMA BeginInv ==
    ASSUME PublishingInv, NEW c \in Callers, Begin(c) PROVE PublishingInv'
  <1>1. CASE ~NoAttempt(RequestId(publish[c]))
    BY Zenon, <1>1, ReturnInv DEF Begin
  <1>2. CASE NoAttempt(RequestId(publish[c]))
    <2>1. publish[c] \in Call /\ publish[c].step \in Inside
      BY Zenon, CallIsRecord DEF PublishingInv, Begin, Inside
    <2>2. [publish[c] EXCEPT !.step = "intent"].step = "intent"
      BY Zenon, <2>1 DEF Call
    <2>3. CallPlaced([publish[c] EXCEPT !.step = "intent"])
      BY Zenon, <2>2 DEF CallPlaced
    <2> QED
      BY Zenon, <1>2, <2>1, <2>3, ContinueInv DEF Begin, Inside
  <1> QED
    BY Zenon, <1>1, <1>2

\* The intent that is read back alone is the first, and its own.
LEMMA VerifyInv ==
    ASSUME PublishingInv, NEW c \in Callers, VerifyIntent(c) PROVE PublishingInv'
  <1> DEFINE id == RequestId(publish[c])
  <1>1. CASE ~OpenIntent(id)
    BY Zenon, <1>1, ReturnInv DEF VerifyIntent
  <1>2. CASE OpenIntent(id)
    <2> DEFINE k == [publish[c] EXCEPT !.step = "send"]
    <2>1. publish[c] \in Call /\ publish[c].step \in Inside /\ publish[c].step = "verify"
      BY Zenon, CallIsRecord DEF PublishingInv, VerifyIntent, Inside
    <2>2. k.step = "send" /\ k.place = publish[c].place /\ RequestId(k) = id
      BY Zenon, <2>1 DEF Call, RequestId
    <2>3. CallPlaced(publish[c])
      BY Zenon DEF PublishingInv
    <2>4. publish[c].place \in EventsOf(id) /\ audit[publish[c].place].type = "INTENT"
      BY Zenon, <2>1, <2>3 DEF CallPlaced
    <2>5. PICK i \in DOMAIN audit : EventsOf(id) = {i}
      BY Zenon, <1>2 DEF OpenIntent
    <2>6. publish[c].place = i /\ i <= i
      <3>1. i \in 1..Len(audit) /\ Len(audit) \in Nat
        BY DEF PublishingInv, PublishingTypeOK
      <3> QED
        BY <3>1, <2>4, <2>5
    <2>7. FirstIntent(id, publish[c].place)
      BY Zenon, <2>4, <2>5, <2>6 DEF FirstIntent
    <2>8. CallPlaced(k)
      <3>1. \A s \in DOMAIN sent : sent[s].place # k.place
        BY Zenon, <2>1, <2>2, <2>3 DEF CallPlaced
      <3> HIDE DEF k
      <3> QED
        BY Zenon, <2>2, <2>4, <2>7, <3>1 DEF CallPlaced
    <2> QED
      BY Zenon, <1>2, <2>1, <2>8, ContinueInv DEF VerifyIntent, Inside
  <1> QED
    BY Zenon, <1>1, <1>2

\* An open intent has no outcome.
LEMMA CompleteInv ==
    ASSUME PublishingInv, NEW c \in Callers, Complete(c) PROVE PublishingInv'
  <1> DEFINE id == RequestId(publish[c])
  <1>1. CASE ~OpenIntent(id)
    BY Zenon, <1>1, ReturnInv DEF Complete
  <1>2. CASE OpenIntent(id)
    <2> DEFINE k == [publish[c] EXCEPT !.step = "outcome"]
    <2>1. publish[c] \in Call /\ publish[c].step \in Inside /\ publish[c].step = "complete"
      BY Zenon, CallIsRecord DEF PublishingInv, Complete, Inside
    <2>2. k.step = "outcome" /\ k.place = publish[c].place /\ RequestId(k) = id
      BY Zenon, <2>1 DEF Call, RequestId
    <2>3. CallPlaced(publish[c])
      BY DEF PublishingInv
    <2>4. \A i \in EventsOf(id) : audit[i].type = "INTENT"
      BY Zenon, <1>2 DEF OpenIntent
    <2>5. CallPlaced(k)
      <3> HIDE DEF k
      <3> QED
        BY Zenon, <2>1, <2>2, <2>3, <2>4 DEF CallPlaced
    <2> QED
      BY Zenon, <1>2, <2>1, <2>5, ContinueInv DEF Complete, Inside
  <1> QED
    BY <1>1, <1>2

\* The calls of a gateway die with its process.
LEMMA CrashInv ==
    ASSUME PublishingInv, NEW g \in Gateways, Crash(g) PROVE PublishingInv'
  <1>1. PICK c \in Callers : GatewayOf[c] = g
    BY Zenon DEF Crash
  <1>2. publish' = [b \in Callers |-> IF GatewayOf[b] = g THEN NoCall ELSE publish[b]]
          /\ UNCHANGED <<clock, queue, queueTorn, review, audit, auditTorn, sent>>
    BY Zenon DEF Crash
  <1>3. PublishingTypeOK'
    BY Zenon, <1>2 DEF PublishingInv, PublishingTypeOK
  <1> QED
    BY Zenon, <1>1, <1>2, <1>3, CallsEnd
-----------------------------------------------------------------------------
(* Publishing: the steps that write a line of the audit log. *)

\* Call c writes line e: an intent, or the outcome of its POST.
WritesLine(c, e) ==
    /\ publish[c].step \in Inside
    /\ audit' = Append(audit, e)
    /\ e.request = RequestId(publish[c]) /\ e.at = publish[c].at /\ e.by = GatewayOf[c]
    /\ e.type = "INTENT" \/ publish[c].step = "outcome"
    /\ UNCHANGED <<queue, sent>>

\* It ends, or goes on to the read-back of its intent.
GoesOn(c, e) ==
    /\ \A b \in Callers : b # c => publish'[b] = publish[b]
    /\ \/ publish'[c] = NoCall
       \/ /\ e.type = "INTENT" /\ publish'[c] \in Call
          /\ publish'[c].step = "verify" /\ publish'[c].place = Len(audit) + 1
          /\ publish'[c].platform = publish[c].platform
          /\ publish'[c].draft = publish[c].draft
          /\ publish'[c].content = publish[c].content
          /\ publish'[c].at = publish[c].at

\* The line of a call: an intent, or the outcome of a POST that has none yet.
LEMMA LineInv ==
    ASSUME PublishingInv, PublishingTypeOK', NEW c \in Callers, NEW e \in LogEvent,
           WritesLine(c, e), GoesOn(c, e)
    PROVE  PublishingInv'
  <1>p. PICK n, id : n = Len(audit) + 1 /\ id = RequestId(publish[c])
    BY Zenon
  <1>w. /\ publish[c].step \in Inside /\ audit' = Append(audit, e)
        /\ e.request = id /\ e.at = publish[c].at /\ e.by = GatewayOf[c]
        /\ e.type = "INTENT" \/ publish[c].step = "outcome"
    BY Zenon, <1>p DEF WritesLine
  <1>u. queue' = queue /\ sent' = sent
    BY Zenon DEF WritesLine
  <1>b. \A b \in Callers : b # c => publish'[b] = publish[b]
    BY Zenon DEF GoesOn
  <1>c. publish'[c] # NoCall =>
          /\ e.type = "INTENT" /\ publish'[c].step = "verify" /\ publish'[c].place = n
          /\ publish'[c].platform = publish[c].platform
          /\ publish'[c].draft = publish[c].draft
          /\ publish'[c].content = publish[c].content /\ publish'[c].at = publish[c].at
    BY Zenon, <1>p DEF GoesOn
  <1>t. /\ PublishingTypeOK /\ PlacesDiffer /\ IntentBeforePost /\ ApprovedContentSent
        /\ AtMostOnePost /\ OneOutcomePerPost /\ GatewayKeepsInterval
        /\ \A b \in Callers : CallPlaced(publish[b]) /\ CallCleared(b)
    BY Zenon DEF PublishingInv
  <1>a. audit \in Seq(LogEvent)
    BY Zenon, <1>t DEF PublishingTypeOK
  <1>g. /\ Len(audit) \in Nat /\ DOMAIN audit = 1..Len(audit)
        /\ DOMAIN audit' = DOMAIN audit \cup {n} /\ audit'[n] = e
        /\ \A i \in DOMAIN audit : audit'[i] = audit[i]
    BY <1>a, <1>p, <1>w, AppendKeepsLines
  <1>n. n \notin DOMAIN audit /\ n \in Nat /\ \A i \in DOMAIN audit : i \in Nat /\ i < n
    BY <1>g, <1>p
  <1>f. /\ \A r, q : FirstIntent(r, q) => FirstIntent(r, q)'
        /\ \A r : EventsOf(r)' = EventsOf(r) \cup {i \in {n} : e.request = r}
    BY <1>a, <1>p, <1>w, LogGrows
  <1>e. \A r, i : i \in EventsOf(r) => i \in DOMAIN audit
    BY Zenon DEF EventsOf
  <1>v. /\ \A d, content : Vetted(d, content)' <=> Vetted(d, content)
        /\ AtMostOnePost' /\ ApprovedContentSent'
    BY <1>t, <1>u DEF Vetted, QueuedAt, AtMostOnePost, ApprovedContentSent
  <1>s. \A s \in DOMAIN sent : sent[s].place \in DOMAIN audit
    BY Zenon, <1>t, <1>e DEF IntentBeforePost, FirstIntent
  <1>o. e.type # "INTENT" =>
          /\ publish[c].step = "outcome" /\ FirstIntent(id, publish[c].place)
          /\ \A i \in EventsOf(id) : audit[i].type = "INTENT"
          /\ \E s \in DOMAIN sent : sent[s].request = id
    BY Zenon, <1>t, <1>p, <1>w DEF CallPlaced
  <1>0. NoCall.step = "idle"
    BY Zenon DEF NoCall
  <1>1. IntentBeforePost'
    BY Zenon, <1>t, <1>f, <1>u DEF IntentBeforePost
  <1>2. ASSUME NEW b \in Callers, b # c PROVE CallPlaced(publish[b])'
    <2>p. PICK r : r = RequestId(publish[b])
      BY Zenon
    <2>1. publish'[b] = publish[b] /\ CallPlaced(publish[b]) /\ RequestId(publish[b])' = r
      BY Zenon, <2>p, <1>2, <1>b, <1>t DEF RequestId
    <2>2. ASSUME publish[b].step = "outcome", e.request = r, e.type # "INTENT" PROVE FALSE
      <3>1. FirstIntent(r, publish[b].place) /\ FirstIntent(r, publish[c].place)
        BY Zenon, <2>1, <2>2, <1>o, <1>w, <2>p DEF CallPlaced
      <3>2. publish[b].place = publish[c].place
        BY <3>1, <1>e, <1>n DEF FirstIntent
      <3> QED
        BY Zenon, <3>2, <1>2, <2>2, <1>o, <1>t DEF PlacesDiffer
    <2>3. publish[b].step = "outcome" => \A i \in EventsOf(r)' : audit'[i].type = "INTENT"
      BY Zenon, <2>1, <2>2, <1>f, <1>g, <1>e, <2>p DEF CallPlaced
    <2>4. publish[b].step \in {"verify", "send", "complete", "outcome"} =>
             publish[b].place \in EventsOf(r)' /\ audit'[publish[b].place].type = "INTENT"
      BY Zenon, <2>1, <1>f, <1>g, <1>e, <2>p DEF CallPlaced
    <2>5. publish[b].step \in {"send", "complete", "outcome"} =>
             FirstIntent(r, publish[b].place)'
      BY Zenon, <2>1, <1>f, <2>p DEF CallPlaced
    <2> QED
      BY Zenon, <2>1, <2>3, <2>4, <2>5, <2>p, <1>u DEF CallPlaced
  <1>3. CallPlaced(publish[c])'
    <2>1. CASE publish'[c] = NoCall
      BY Zenon, <2>1, <1>0 DEF CallPlaced
    <2>2. CASE publish'[c] # NoCall
      <3>1. publish'[c].step = "verify" /\ publish'[c].place = n /\ RequestId(publish[c])' = id
              /\ e.type = "INTENT"
        BY Zenon, <2>2, <1>c, <1>p DEF RequestId
      <3>2. n \in EventsOf(id)' /\ audit'[n].type = "INTENT"
        BY Zenon, <3>1, <1>f, <1>g, <1>w
      <3>3. \A s \in DOMAIN sent' : sent'[s].place # n
        BY Zenon, <1>s, <1>n, <1>u
      <3> QED
        BY Zenon, <3>1, <3>2, <3>3 DEF CallPlaced
    <2> QED
      BY Zenon, <2>1, <2>2
  <1>4. ASSUME NEW b \in Callers PROVE CallCleared(b)'
    <2>1. \A a \in Callers : publish'[a].step \in Inside => publish[a].step \in Inside
      BY Zenon, <1>0, <1>b, <1>w DEF Inside
    <2>2. SUFFICES ASSUME publish'[b].step \in Inside PROVE CallCleared(b)'
      BY Zenon DEF CallCleared
    <2>3. /\ publish'[b].draft = publish[b].draft /\ publish'[b].content = publish[b].content
          /\ publish'[b].platform = publish[b].platform /\ publish'[b].at = publish[b].at
          /\ b = c => e.type = "INTENT"
      BY Zenon, <2>2, <1>0, <1>b, <1>c DEF Inside
    <2>4. publish[b].step \in Inside /\ CallCleared(b)
      BY Zenon, <2>1, <2>2, <1>t
    <2>5. e.type = "SUCCEEDED" => e.by # GatewayOf[b]
      BY Zenon, <2>3, <2>4, <1>w DEF CallCleared
    <2>6. ASSUME NEW i \in DOMAIN audit', audit'[i].type = "SUCCEEDED",
                 audit'[i].request[1] = publish[b].platform, audit'[i].by = GatewayOf[b]
          PROVE  publish[b].at - audit'[i].at >= Interval
      <3>1. i \in DOMAIN audit /\ audit'[i] = audit[i]
        BY Zenon, <2>5, <2>6, <1>g
      <3> QED
        BY Zenon, <3>1, <2>4, <2>6 DEF CallCleared
    <2> QED
      BY Zenon, <2>1, <2>2, <2>3, <2>4, <2>6, <1>v DEF CallCleared
  <1>5. PlacesDiffer'
    <2> DEFINE P == {"verify", "send", "complete", "outcome"}
    <2>1. \A b \in Callers : b # c /\ publish'[b].step \in P =>
             publish[b].step \in P /\ publish'[b].place = publish[b].place
                /\ publish[b].place \in DOMAIN audit
      BY Zenon, <1>t, <1>e, <1>b DEF CallPlaced
    <2>2. publish'[c].step \in P => publish'[c].place = n
      BY Zenon, <1>0, <1>c
    <2> QED
      BY <2>1, <2>2, <1>n, <1>t DEF PlacesDiffer
  <1>6. OneOutcomePerPost'
    <2> SUFFICES ASSUME NEW i \in DOMAIN audit', audit'[i].type # "INTENT"
                 PROVE  /\ \E s \in DOMAIN sent : sent[s].request = audit'[i].request
                        /\ \A k \in DOMAIN audit' :
                              audit'[k].request = audit'[i].request
                                 /\ audit'[k].type # "INTENT" => k = i
      BY Zenon, <1>u DEF OneOutcomePerPost, EventsOf
    <2>1. CASE i = n
      <3>1. audit'[i] = e
        BY Zenon, <2>1, <1>g
      <3>2. \A k \in DOMAIN audit : audit[k].request = id => audit[k].type = "INTENT"
        BY Zenon, <3>1, <1>o DEF EventsOf
      <3> QED
        BY Zenon, <2>1, <3>1, <3>2, <1>o, <1>g, <1>w
    <2>2. CASE i \in DOMAIN audit
      <3>1. audit'[i] = audit[i] /\ audit[i].type # "INTENT"
        BY Zenon, <2>2, <1>g
      <3>2. e.type # "INTENT" => e.request # audit[i].request
        BY Zenon, <2>2, <3>1, <1>o, <1>w DEF EventsOf
      <3>3. /\ \E s \in DOMAIN sent : sent[s].request = audit[i].request
            /\ \A k \in DOMAIN audit :
                  audit[k].request = audit[i].request /\ audit[k].type # "INTENT" => k = i
        BY Zenon, <2>2, <3>1, <1>t DEF OneOutcomePerPost, EventsOf
      <3> QED
        BY Zenon, <3>1, <3>2, <3>3, <1>g
    <2> QED
      BY Zenon, <2>1, <2>2, <1>g
  <1>7. GatewayKeepsInterval'
    <2> SUFFICES ASSUME NEW i \in DOMAIN audit', NEW k \in DOMAIN audit',
                        audit'[i].type = "SUCCEEDED", audit'[k].type = "SUCCEEDED",
                        audit'[i].request[1] = audit'[k].request[1],
                        audit'[i].by = audit'[k].by, i < k
                 PROVE  audit'[k].at - audit'[i].at >= Interval
      BY Zenon DEF GatewayKeepsInterval
    <2>1. i \in DOMAIN audit /\ audit'[i] = audit[i]
      BY <1>g, <1>n
    <2>2. CASE k \in DOMAIN audit
      BY Zenon, <2>1, <2>2, <1>g, <1>t DEF GatewayKeepsInterval
    <2>3. CASE k = n
      <3>1. e.request[1] = publish[c].platform
        BY <1>w, <1>p DEF RequestId
      <3>2. audit'[k] = e
        BY Zenon, <2>3, <1>g
      <3>3. CallCleared(c)
        BY Zenon, <1>t
      <3> QED
        BY Zenon, <2>1, <3>1, <3>2, <3>3, <1>w DEF CallCleared
    <2> QED
      BY Zenon, <2>2, <2>3, <1>g
  <1> QED
    BY Zenon, <1>1, <1>2, <1>3, <1>4, <1>5, <1>6, <1>7, <1>v DEF PublishingInv

\* A call that ends without a line, whether or not it leaves half of one.
LEMMA EndInv ==
    ASSUME PublishingInv, NEW c \in Callers, Return(c), auditTorn' \in {auditTorn, TRUE},
           UNCHANGED <<clock, queue, queueTorn, review, audit, sent>>
    PROVE  PublishingInv'
  <1>1. PublishingTypeOK
    BY Zenon DEF PublishingInv
  <1>2. auditTorn' \in BOOLEAN
    BY Zenon, <1>1 DEF PublishingTypeOK
  <1>3. /\ publish' \in [Callers -> Call \cup {NoCall}] /\ publish'[c] = NoCall
        /\ \A b \in Callers : b # c => publish'[b] = publish[b]
    BY Zenon, <1>1 DEF PublishingTypeOK, Return
  <1>4. PublishingTypeOK'
    BY Zenon, <1>1, <1>2, <1>3 DEF PublishingTypeOK
  <1> QED
    BY Zenon, <1>3, <1>4, CallsEnd

\* A log with one more event is a log.
LEMMA LogTyped ==
    ASSUME PublishingTypeOK, NEW e \in LogEvent PROVE Append(audit, e) \in Seq(LogEvent)
  <1>1. audit \in Seq(LogEvent)
    BY Zenon DEF PublishingTypeOK
  <1> QED
    BY Zenon, <1>1, AppendKeepsLines

\* A line by which a call ends.
LEMMA LastLineInv ==
    ASSUME PublishingInv, NEW c \in Callers, Return(c), publish[c].step \in {"intent", "outcome"},
           NEW type, type = IF publish[c].step = "intent" THEN "INTENT" ELSE publish[c].outcome,
           audit' = Append(audit, AuditEvent(c, type)),
           UNCHANGED <<clock, queue, queueTorn, review, auditTorn, sent>>
    PROVE  PublishingInv'
  <1> DEFINE e == AuditEvent(c, type)
  <1>1. PublishingTypeOK
    BY Zenon DEF PublishingInv
  <1>2. publish[c] \in Call /\ publish[c].step \in Inside
    BY Zenon, <1>1, CallIsRecord DEF Inside
  <1>3. type \in {"INTENT", "SUCCEEDED", "FAILED", "NONE"}
    BY Zenon, <1>2 DEF Call
  <1>4. e \in LogEvent /\ e.request = RequestId(publish[c]) /\ e.at = publish[c].at
          /\ e.by = GatewayOf[c] /\ e.type = type
    BY Zenon, <1>2, <1>3, PublishingAssumption DEF AuditEvent, LogEvent, Call, RequestId
  <1>5. audit' = Append(audit, e)
    BY Zenon
  <1> HIDE DEF e
  <1>6. audit' \in Seq(LogEvent)
    BY <1>1, <1>4, <1>5, LogTyped, Zenon
  <1>7. /\ publish' \in [Callers -> Call \cup {NoCall}] /\ publish'[c] = NoCall
        /\ \A b \in Callers : b # c => publish'[b] = publish[b]
    BY Zenon, <1>1 DEF PublishingTypeOK, Return
  <1>8. PublishingTypeOK'
    BY Zenon, <1>1, <1>6, <1>7 DEF PublishingTypeOK
  <1>9. e.type = "INTENT" \/ publish[c].step = "outcome"
    BY Zenon, <1>4
  <1> QED
    <2>1. WritesLine(c, e)
      BY Zenon, <1>2, <1>4, <1>5, <1>9 DEF WritesLine
    <2>2. GoesOn(c, e)
      BY Zenon, <1>7 DEF GoesOn
    <2> QED
      BY Zenon, <1>4, <1>8, <2>1, <2>2, LineInv

\* The record of a call that wrote its intent.
LEMMA VerifyingCall ==
    ASSUME NEW k \in Call, NEW p \in Nat
    PROVE  LET v == [k EXCEPT !.step = "verify", !.place = p + 1]
           IN  /\ v \in Call /\ v.step = "verify" /\ v.place = p + 1
               /\ v.platform = k.platform /\ v.draft = k.draft
               /\ v.content = k.content /\ v.at = k.at
  <1> DEFINE v == [k EXCEPT !.step = "verify", !.place = p + 1]
  <1>1. /\ v.step = "verify" /\ v.place = p + 1
        /\ v.platform = k.platform /\ v.draft = k.draft
        /\ v.content = k.content /\ v.at = k.at /\ v.outcome = k.outcome
    BY Zenon DEF Call
  <1>2. \A u \in Call : [u EXCEPT !.step = "verify"] \in Call
    BY Zenon DEF Call
  <1>3. \A u \in Call : [u EXCEPT !.place = p + 1] \in Call
    BY DEF Call
  <1>4. v = [[k EXCEPT !.step = "verify"] EXCEPT !.place = p + 1]
    BY Zenon
  <1>5. v \in Call
    <2> HIDE DEF v
    <2> QED
      BY Zenon, <1>2, <1>3, <1>4
  <1> QED
    BY Zenon, <1>1, <1>5

\* begin's append.
LEMMA AppendIntentInv ==
    ASSUME PublishingInv, NEW c \in Callers, AppendIntent(c) PROVE PublishingInv'
  <1>1. CASE auditTorn
    BY Zenon, <1>1, EndInv DEF AppendIntent
  <1>2. CASE ~auditTorn
    <2> DEFINE e == AuditEvent(c, "INTENT")
               k == [publish[c] EXCEPT !.step = "verify", !.place = Len(audit) + 1]
    <2>1. PublishingTypeOK
      BY DEF PublishingInv
    <2>2. publish[c] \in Call /\ publish[c].step \in Inside
      BY Zenon, <2>1, CallIsRecord DEF AppendIntent, Inside
    <2>3. e \in LogEvent /\ e.request = RequestId(publish[c]) /\ e.at = publish[c].at
            /\ e.by = GatewayOf[c] /\ e.type = "INTENT"
      BY Zenon, <2>2, PublishingAssumption DEF AuditEvent, LogEvent, Call, RequestId
    <2>4. Len(audit) \in Nat
      BY <2>1 DEF PublishingTypeOK
    <2>5. /\ k \in Call /\ k.step = "verify" /\ k.place = Len(audit) + 1
          /\ k.platform = publish[c].platform /\ k.draft = publish[c].draft
          /\ k.content = publish[c].content /\ k.at = publish[c].at
      BY Zenon, <2>2, <2>4, VerifyingCall
    <2>6. /\ audit' = Append(audit, e) /\ publish' = [publish EXCEPT ![c] = k]
          /\ UNCHANGED <<clock, queue, queueTorn, review, auditTorn, sent>>
      BY Zenon, <1>2 DEF AppendIntent
    <2> HIDE DEF e, k
    <2>7. audit' \in Seq(LogEvent)
      BY <2>1, <2>3, <2>6, LogTyped, Zenon
    <2>8. /\ publish' \in [Callers -> Call \cup {NoCall}] /\ publish'[c] = k
          /\ \A b \in Callers : b # c => publish'[b] = publish[b]
      BY Zenon, <2>1, <2>5, <2>6 DEF PublishingTypeOK
    <2>9. PublishingTypeOK'
      BY Zenon, <2>1, <2>6, <2>7, <2>8 DEF PublishingTypeOK
    <2> QED
      <3>1. WritesLine(c, e)
        BY Zenon, <2>2, <2>3, <2>6 DEF WritesLine
      <3>2. GoesOn(c, e)
        BY Zenon, <2>3, <2>5, <2>8 DEF GoesOn
      <3> QED
        BY Zenon, <2>3, <2>9, <3>1, <3>2, LineInv
  <1> QED
    BY Zenon, <1>1, <1>2

\* complete's append, and either append that raises.
LEMMA AppendEndInv ==
    ASSUME PublishingInv, NEW c \in Callers, AppendOutcome(c) \/ AppendFails(c)
    PROVE  PublishingInv'
  <1>1. CASE AppendOutcome(c)
    <2>1. CASE auditTorn
      BY Zenon, <1>1, <2>1, EndInv DEF AppendOutcome
    <2>2. CASE ~auditTorn
      BY Zenon, <1>1, <2>2, LastLineInv DEF AppendOutcome
    <2> QED
      BY Zenon, <2>1, <2>2
  <1>2. CASE AppendFails(c)
    <2>1. CASE auditTorn' \in {auditTorn, TRUE} /\ UNCHANGED audit
      BY Zenon, <1>2, <2>1, EndInv DEF AppendFails
    <2>2. CASE ~(auditTorn' \in {auditTorn, TRUE} /\ UNCHANGED audit)
      BY Zenon, <1>2, <2>2, LastLineInv DEF AppendFails
    <2> QED
      BY Zenon, <2>1, <2>2
  <1> QED
    BY Zenon, <1>1, <1>2
-----------------------------------------------------------------------------
(* Publishing: the POST. *)

\* The record of a call that has its response.
LEMMA CompletingCall ==
    ASSUME NEW k \in Call, NEW o \in {"SUCCEEDED", "FAILED"}
    PROVE  LET v == [k EXCEPT !.step = "complete", !.outcome = o]
           IN  /\ v \in Call /\ v.step = "complete" /\ v.place = k.place
               /\ v.platform = k.platform /\ v.draft = k.draft
               /\ v.content = k.content /\ v.at = k.at
  <1> DEFINE v == [k EXCEPT !.step = "complete", !.outcome = o]
  <1>1. /\ v.step = "complete" /\ v.place = k.place
        /\ v.platform = k.platform /\ v.draft = k.draft
        /\ v.content = k.content /\ v.at = k.at
    BY Zenon DEF Call
  <1>2. \A u \in Call : [u EXCEPT !.step = "complete"] \in Call
    BY Zenon DEF Call
  <1>3. \A u \in Call : [u EXCEPT !.outcome = o] \in Call
    BY Zenon DEF Call
  <1>4. v = [[k EXCEPT !.step = "complete"] EXCEPT !.outcome = o]
    BY Zenon
  <1>5. v \in Call
    <2> HIDE DEF v
    <2> QED
      BY Zenon, <1>2, <1>3, <1>4
  <1> QED
    BY Zenon, <1>1, <1>5

\* Two POSTs of a request would both stand at the first line of its events.
LEMMA SendInv ==
    ASSUME PublishingInv, NEW c \in Callers, Send(c) PROVE PublishingInv'
  <1> DEFINE M == [request : Platforms \X Drafts, content : Contents, place : Nat]
             P == {"verify", "send", "complete", "outcome"}
  <1>t. /\ PublishingTypeOK /\ PlacesDiffer /\ IntentBeforePost /\ ApprovedContentSent
        /\ AtMostOnePost /\ OneOutcomePerPost /\ GatewayKeepsInterval
        /\ \A b \in Callers : CallPlaced(publish[b]) /\ CallCleared(b)
    BY Zenon DEF PublishingInv
  <1>c. publish[c] \in Call /\ publish[c].step = "send"
    BY Zenon, <1>t, CallIsRecord DEF Send
  <1>p. PICK m, id, n : /\ m = [request |-> RequestId(publish[c]), content |-> publish[c].content,
                                place |-> publish[c].place]
                        /\ id = RequestId(publish[c]) /\ n = Len(sent) + 1
    BY Zenon
  <1>m. /\ m \in M /\ m.request = id /\ m.content = publish[c].content
        /\ m.place = publish[c].place /\ id[2] = publish[c].draft
    BY Zenon, <1>c, <1>p DEF Call, RequestId
  <1>u. sent' = Append(sent, m) /\ UNCHANGED <<clock, queue, queueTorn, review, audit, auditTorn>>
    BY Zenon, <1>p DEF Send
  <1>k. PICK k \in Call :
          /\ publish' = [publish EXCEPT ![c] = k]
          /\ k.step = "complete" /\ k.place = publish[c].place
          /\ k.platform = publish[c].platform /\ k.draft = publish[c].draft
          /\ k.content = publish[c].content /\ k.at = publish[c].at
    <2>1. PICK o \in {"SUCCEEDED", "FAILED"} :
            publish' = [publish EXCEPT ![c] = [publish[c] EXCEPT !.step = "complete",
                                                                !.outcome = o]]
      BY Zenon DEF Send
    <2> QED
      BY Zenon, <2>1, <1>c, CompletingCall
  <1>w. /\ publish' \in [Callers -> Call \cup {NoCall}] /\ publish'[c] = k
        /\ \A b \in Callers : b # c => publish'[b] = publish[b]
    BY Zenon, <1>t, <1>k DEF PublishingTypeOK
  <1>s. sent \in Seq(M)
    BY Zenon, <1>t DEF PublishingTypeOK
  <1>g. /\ sent' \in Seq(M) /\ DOMAIN sent' = DOMAIN sent \cup {n} /\ sent'[n] = m
        /\ \A i \in DOMAIN sent : sent'[i] = sent[i]
    BY <1>s, <1>m, <1>u, <1>p, AppendKeepsLines
  <1>f. /\ \A r : EventsOf(r)' = EventsOf(r)
        /\ \A r, q : FirstIntent(r, q)' <=> FirstIntent(r, q)
        /\ \A d, content : Vetted(d, content)' <=> Vetted(d, content)
    BY <1>u DEF EventsOf, FirstIntent, Vetted, QueuedAt
  <1>i. FirstIntent(id, publish[c].place) /\ publish[c].place \in EventsOf(id)
          /\ audit[publish[c].place].type = "INTENT"
          /\ \A i \in DOMAIN sent : sent[i].place # publish[c].place
    BY Zenon, <1>t, <1>c, <1>p DEF CallPlaced
  <1>1. PublishingTypeOK'
    BY Zenon, <1>t, <1>u, <1>w, <1>g DEF PublishingTypeOK
  <1>2. AtMostOnePost'
    <2>1. ASSUME NEW i \in DOMAIN sent, sent[i].request = id PROVE FALSE
      <3>1. FirstIntent(id, sent[i].place)
        BY Zenon, <2>1, <1>t DEF IntentBeforePost
      <3>2. \A j \in EventsOf(id) : j \in Nat
        BY <1>t DEF EventsOf, PublishingTypeOK
      <3>3. sent[i].place = publish[c].place
        BY <3>1, <3>2, <1>i DEF FirstIntent
      <3> QED
        BY Zenon, <2>1, <3>3, <1>i
    <2> QED
      BY <2>1, <1>g, <1>m, <1>t DEF AtMostOnePost
  <1>3. IntentBeforePost'
    BY Zenon, <1>g, <1>m, <1>f, <1>i, <1>t DEF IntentBeforePost
  <1>4. ApprovedContentSent'
    <2>1. Vetted(publish[c].draft, publish[c].content)
      BY Zenon, <1>c, <1>t DEF CallCleared, Inside
    <2> QED
      BY Zenon, <2>1, <1>g, <1>m, <1>f, <1>t DEF ApprovedContentSent
  <1>5. OneOutcomePerPost' /\ GatewayKeepsInterval'
    BY Zenon, <1>g, <1>u, <1>f, <1>t DEF OneOutcomePerPost, GatewayKeepsInterval
  <1>6. PlacesDiffer'
    <2>1. \A b \in Callers : publish'[b].step \in P =>
             publish[b].step \in P /\ publish'[b].place = publish[b].place
      BY Zenon, <1>w, <1>k, <1>c
    <2> QED
      BY <2>1, <1>t DEF PlacesDiffer
  <1>7. ASSUME NEW b \in Callers, b # c PROVE CallPlaced(publish[b])'
    <2>1. publish'[b] = publish[b] /\ CallPlaced(publish[b])
            /\ RequestId(publish[b])' = RequestId(publish[b])
      BY Zenon, <1>7, <1>w, <1>t DEF RequestId
    <2>2. publish[b].step \in {"verify", "send"} => publish[b].place # m.place
      BY Zenon, <1>7, <1>t, <1>c, <1>m DEF PlacesDiffer
    <2>3. publish[b].step \in {"verify", "send"} =>
             \A i \in DOMAIN sent' : sent'[i].place # publish[b].place
      BY Zenon, <2>1, <2>2, <1>g DEF CallPlaced
    <2>4. publish[b].step \in {"complete", "outcome"} =>
             \E i \in DOMAIN sent' : sent'[i].place = publish[b].place
                                      /\ sent'[i].request = RequestId(publish[b])
      BY Zenon, <2>1, <1>g DEF CallPlaced
    <2> QED
      BY Zenon, <2>1, <2>3, <2>4, <1>f, <1>u DEF CallPlaced
  <1>8. CallPlaced(publish[c])'
    <2>1. publish'[c].step = "complete" /\ publish'[c].place = publish[c].place
            /\ RequestId(publish[c])' = id
      BY Zenon, <1>w, <1>k, <1>p DEF RequestId
    <2>2. sent'[n].place = publish[c].place /\ sent'[n].request = id /\ n \in DOMAIN sent'
      BY Zenon, <1>g, <1>m
    <2> QED
      BY Zenon, <2>1, <2>2, <1>f, <1>i, <1>u DEF CallPlaced
  <1>9. ASSUME NEW b \in Callers PROVE CallCleared(b)'
    <2>1. \A a \in Callers :
            /\ publish'[a].step \in Inside => publish[a].step \in Inside
            /\ publish'[a].step \in Inside =>
                  /\ publish'[a].draft = publish[a].draft
                  /\ publish'[a].content = publish[a].content
                  /\ publish'[a].platform = publish[a].platform /\ publish'[a].at = publish[a].at
      BY Zenon, <1>w, <1>k, <1>c DEF Inside
    <2>2. CallCleared(b)
      BY Zenon, <1>t
    <2> QED
      BY Zenon, <2>1, <2>2, <1>f, <1>u DEF CallCleared
  <1> QED
    BY Zenon, <1>1, <1>2, <1>3, <1>4, <1>5, <1>6, <1>7, <1>8, <1>9 DEF PublishingInv
-----------------------------------------------------------------------------
(* Publishing: the queue, the clock, and the whole. *)

\* The calls, the log and the POSTs stay, and what was vetted stays vetted.
LEMMA QueueInv ==
    ASSUME PublishingInv, PublishingTypeOK', UNCHANGED <<audit, publish, sent>>,
           \A d, content : Vetted(d, content) => Vetted(d, content)'
    PROVE  PublishingInv'
  <1>1. /\ \A r : EventsOf(r)' = EventsOf(r)
        /\ \A r, q : FirstIntent(r, q)' <=> FirstIntent(r, q)
    BY Zenon DEF EventsOf, FirstIntent
  <1>2. ASSUME NEW b \in Callers PROVE CallPlaced(publish[b])' /\ CallCleared(b)'
    <2>1. CallPlaced(publish[b]) /\ CallCleared(b)
      BY Zenon DEF PublishingInv
    <2>2. CallPlaced(publish[b])'
      BY Zenon, <2>1, <1>1 DEF CallPlaced, RequestId
    <2>3. CallCleared(b)'
      BY Zenon, <2>1 DEF CallCleared
    <2> QED
      BY Zenon, <2>2, <2>3
  <1>3. PlacesDiffer' /\ AtMostOnePost' /\ GatewayKeepsInterval'
    BY Zenon DEF PublishingInv, PlacesDiffer, AtMostOnePost, GatewayKeepsInterval
  <1>4. IntentBeforePost' /\ OneOutcomePerPost'
    BY <1>1 DEF PublishingInv, IntentBeforePost, OneOutcomePerPost
  <1>5. ApprovedContentSent'
    BY Zenon DEF PublishingInv, ApprovedContentSent
  <1> QED
    BY Zenon, <1>2, <1>3, <1>4, <1>5 DEF PublishingInv

\* A reviewer takes up a line, or gives it up.
LEMMA ReviewerInv ==
    ASSUME PublishingInv, NEW q \in Reviewers, NEW line \in QueueLine \cup {NoReview},
           review' = [review EXCEPT ![q] = line], queueTorn' \in {queueTorn, TRUE},
           UNCHANGED <<clock, queue, audit, auditTorn, publish, sent>>
    PROVE  PublishingInv'
  <1>1. PublishingTypeOK
    BY Zenon DEF PublishingInv
  <1>2. queueTorn' \in BOOLEAN
    BY Zenon, <1>1 DEF PublishingTypeOK
  <1>3. review' \in [Reviewers -> QueueLine \cup {NoReview}]
    BY Zenon, <1>1 DEF PublishingTypeOK
  <1>4. PublishingTypeOK'
    BY Zenon, <1>1, <1>2, <1>3 DEF PublishingTypeOK
  <1>5. \A d, content : Vetted(d, content) => Vetted(d, content)'
    BY DEF Vetted, QueuedAt
  <1> QED
    BY Zenon, <1>4, <1>5, QueueInv

\* The steps of a reviewer.
LEMMA ReviewInv ==
    ASSUME PublishingInv, NEW q \in Reviewers,
           \/ \E d \in Drafts, content \in Contents : Enqueue(q, d, content)
           \/ \E d \in Drafts, verdict \in {"APPROVED", "REJECTED", "EXPIRED"} :
                 Decide(q, d, verdict)
           \/ AppendReview(q) \/ LoseReview(q)
    PROVE  PublishingInv'
  <1>1. ASSUME NEW d \in Drafts, NEW content \in Contents, Enqueue(q, d, content)
        PROVE  PublishingInv'
    <2>1. [type |-> "QUEUED", draft |-> d, content |-> content] \in QueueLine
      BY Zenon DEF QueueLine
    <2> QED
      BY Zenon, <1>1, <2>1, ReviewerInv DEF Enqueue
  <1>2. ASSUME NEW d \in Drafts, NEW verdict \in {"APPROVED", "REJECTED", "EXPIRED"},
               Decide(q, d, verdict)
        PROVE  PublishingInv'
    <2>1. [type |-> verdict, draft |-> d] \in QueueLine
      BY Zenon DEF QueueLine
    <2> QED
      BY Zenon, <1>2, <2>1, ReviewerInv DEF Decide
  <1>3. CASE AppendReview(q)
    <2>1. CASE queueTorn
      BY Zenon, <1>3, <2>1, ReviewerInv DEF AppendReview
    <2>2. CASE ~queueTorn
      <3>1. PublishingTypeOK
        BY Zenon DEF PublishingInv
      <3>2. PICK line : line = review[q]
        BY Zenon
      <3>3. line \in QueueLine /\ queue' = Append(queue, line) /\ queue \in Seq(QueueLine)
        BY Zenon, <1>3, <2>2, <3>1, <3>2 DEF AppendReview, PublishingTypeOK
      <3>4. queue' \in Seq(QueueLine)
        BY <3>3
      <3>5. review' \in [Reviewers -> QueueLine \cup {NoReview}]
        BY Zenon, <1>3, <3>1 DEF AppendReview, PublishingTypeOK
      <3>6. PublishingTypeOK'
        BY Zenon, <1>3, <3>1, <3>4, <3>5 DEF AppendReview, PublishingTypeOK
      <3>7. \A d, content : Vetted(d, content) => Vetted(d, content)'
        BY Zenon, <3>3, QueueGrows
      <3> QED
        BY Zenon, <1>3, <3>6, <3>7, QueueInv DEF AppendReview
    <2> QED
      BY Zenon, <2>1, <2>2
  <1>4. CASE LoseReview(q)
    BY Zenon, <1>4, ReviewerInv DEF LoseReview
  <1> QED
    BY Zenon, <1>1, <1>2, <1>3, <1>4

\* The inductive step.
LEMMA PublishingStep ==
    PublishingInv /\ [PublishingNext]_publishingVars => PublishingInv'
  <1> SUFFICES ASSUME PublishingInv, [PublishingNext]_publishingVars PROVE PublishingInv'
    BY Zenon
  <1>1. ASSUME Tick \/ UNCHANGED publishingVars PROVE PublishingInv'
    <2>1. PublishingTypeOK'
      BY <1>1 DEF Tick, publishingVars, PublishingInv, PublishingTypeOK
    <2>2. \A d, content : Vetted(d, content) => Vetted(d, content)'
      BY <1>1 DEF Tick, publishingVars, Vetted, QueuedAt
    <2> QED
      BY Zenon, <1>1, <2>1, <2>2, QueueInv DEF Tick, publishingVars
  <1>2. ASSUME NEW c \in Callers, PublishStep(c) PROVE PublishingInv'
    BY Zenon, <1>2, PreflightInv, BeginInv, AppendIntentInv, VerifyInv, SendInv, CompleteInv,
       AppendEndInv DEF PublishStep
  <1> QED
    BY Zenon, <1>1, <1>2, ReviewInv, PublishInv, CrashInv DEF PublishingNext

LEMMA PublishingInitInv == PublishingInit => PublishingInv
  <1> SUFFICES ASSUME PublishingInit PROVE PublishingInv
    BY Zenon
  <1>1. \A c \in Callers : publish[c].step = "idle"
    BY Zenon DEF PublishingInit, NoCall
  <1>2. PublishingTypeOK
    <2>1. /\ clock \in Nat /\ queueTorn \in BOOLEAN /\ auditTorn \in BOOLEAN
          /\ review \in [Reviewers -> QueueLine \cup {NoReview}]
          /\ publish \in [Callers -> Call \cup {NoCall}]
      BY Zenon DEF PublishingInit
    <2>2. /\ queue \in Seq(QueueLine) /\ audit \in Seq(LogEvent)
          /\ sent \in Seq([request : Platforms \X Drafts, content : Contents, place : Nat])
      BY DEF PublishingInit
    <2> QED
      BY Zenon, <2>1, <2>2 DEF PublishingTypeOK
  <1>3. DOMAIN sent = {} /\ DOMAIN audit = {}
    BY DEF PublishingInit
  <1> QED
    BY Zenon, <1>1, <1>2, <1>3 DEF PublishingInv, CallPlaced, CallCleared, PlacesDiffer, Inside,
       AtMostOnePost, IntentBeforePost, ApprovedContentSent, OneOutcomePerPost,
       GatewayKeepsInterval

\* For any number of threads, gateways and reviewers, whatever crashes or is
\* cut short: a request is POSTed at most once (begin's read-back), behind an
\* intent that is the first event of its request.
THEOREM PostsAtMostOnce == PublishingSpec => [](AtMostOnePost /\ IntentBeforePost)
  <1>1. PublishingInv => AtMostOnePost /\ IntentBeforePost
    BY Zenon DEF PublishingInv
  <1> QED
    BY <1>1, PublishingInitInv, PublishingStep, PTL DEF PublishingSpec

\* Only a text that was queued and then approved is POSTed, however the
\* reviewers' lines interleave in the queue file (_replay).
THEOREM PostsApprovedText == PublishingSpec => []ApprovedContentSent
  <1>1. PublishingInv => ApprovedContentSent
    BY Zenon DEF PublishingInv
  <1> QED
    BY <1>1, PublishingInitInv, PublishingStep, PTL DEF PublishingSpec

\* complete never records an outcome without its POST, nor a second one.
THEOREM OutcomesOfPosts == PublishingSpec => []OneOutcomePerPost
  <1>1. PublishingInv => OneOutcomePerPost
    BY Zenon DEF PublishingInv
  <1> QED
    BY <1>1, PublishingInitInv, PublishingStep, PTL DEF PublishingSpec

\* Within one gateway the publishing interval is kept, by its lock.
THEOREM IntervalKept == PublishingSpec => []GatewayKeepsInterval
  <1>1. PublishingInv => GatewayKeepsInterval
    BY Zenon DEF PublishingInv
  <1> QED
    BY <1>1, PublishingInitInv, PublishingStep, PTL DEF PublishingSpec

-----------------------------------------------------------------------------
(* The live order record. *)

\* The fields of the record an event leads to.
LEMMA AfterFields ==
    ASSUME NEW o \in LifecycleRecord \cup {NoOrder}, NEW e \in LifecycleEvent
    PROVE  /\ After(o, e).stage = NextStage(e.type)
           /\ After(o, e).evidence = o.evidence \cup NewEvidence(e.type)
           /\ After(o, e).authorization =
                 IF e.type = "HUMAN_APPROVED" THEN e.authorization ELSE o.authorization
           /\ After(o, e).requested = IF e.type = "PREVIEWED" THEN e.quantity ELSE o.requested
           /\ After(o, e).filled =
                 IF e.type \in {"PARTIALLY_FILLED", "FILLED"} THEN o.filled + e.quantity
                 ELSE o.filled
           /\ DOMAIN After(o, e) = {"stage", "requested", "filled", "evidence", "authorization"}
PROOF
  BY Zenon DEF After, LifecycleRecord, NoOrder

\* The fields of a lifecycle record have the types of LiveOrderLifecycleRecord.
LEMMA RecordFields ==
    ASSUME LifecycleTypeOK
    PROVE  /\ order.filled \in Nat /\ order.requested \in Nat
           /\ order.evidence \subseteq Evidence
           /\ order.authorization \in Authorizations \cup {NoAuthorization}
           /\ order = NoOrder => order.filled = 0 /\ order.evidence = {}
                                 /\ order.authorization = NoAuthorization
PROOF
  BY DEF LifecycleTypeOK, LifecycleRecord, NoOrder

\* No step needs more than one event: what apply does to a sound record.
LEMMA LifecycleStep ==
    ASSUME LifecycleInv, NEW e \in LifecycleEvent, Apply(e)
    PROVE  /\ LifecycleInv'
           /\ order.authorization # NoAuthorization =>
                 order'.authorization = order.authorization
           /\ order.filled <= order'.filled
           /\ order.filled > 0 => order'.stage \in Filling
PROOF
  <1>t. LifecycleTypeOK
    BY Zenon DEF LifecycleInv
  <1>0. order \in LifecycleRecord \cup {NoOrder}
    BY Zenon, <1>t DEF LifecycleTypeOK
  <1>e. /\ e.type \in EventTypes /\ e.quantity \in Nat
        /\ e.authorization \in Authorizations \cup {NoAuthorization}
    BY LiveOrderAssumption DEF LifecycleEvent
  <1>a. order' = After(order, e) /\ Legal(order, e)
    BY Zenon DEF Apply
  <1>1. NextStage(e.type) \in Stages /\ NewEvidence(e.type) \subseteq Evidence
    BY Zenon, <1>e DEF NextStage, NewEvidence, EventTypes, Stages, Evidence
  <1>2. order' \in LifecycleRecord
    <2>1. order'.stage \in Stages /\ order'.evidence \in SUBSET Evidence
          /\ order'.requested \in Nat /\ order'.filled \in Nat
          /\ order'.authorization \in Authorizations \cup {NoAuthorization}
      BY <1>0, <1>1, <1>a, <1>e, <1>t, AfterFields, RecordFields
    <2>2. order' = [order EXCEPT !.stage = order'.stage, !.evidence = order'.evidence,
                       !.authorization = order'.authorization,
                       !.requested = order'.requested, !.filled = order'.filled]
      BY Zenon, <1>0, <1>a, AfterFields DEF After
    <2> QED BY Zenon, <1>0, <2>1, <2>2 DEF LifecycleRecord, NoOrder
  <1>3. ValidRecord(order')
    BY Zenon, <1>a DEF Legal
  <1>4. order.authorization # NoAuthorization => order'.authorization = order.authorization
    <2>1. CASE e.type = "HUMAN_APPROVED"
      <3>1. e.authorization # NoAuthorization
        BY Zenon, <1>a, <2>1 DEF Legal
      <3>2. CASE order = NoOrder
        BY Zenon, <1>t, <3>2, RecordFields
      <3>3. CASE order # NoOrder
        BY Zenon, <1>0, <1>a, <2>1, <3>1, <3>3, AfterFields DEF Legal, Continues
      <3> QED BY Zenon, <3>2, <3>3
    <2>2. CASE e.type # "HUMAN_APPROVED"
      BY Zenon, <1>0, <1>a, <2>2, AfterFields
    <2> QED BY Zenon, <2>1, <2>2
  <1>5. order.filled <= order'.filled
    BY <1>0, <1>a, <1>e, <1>t, AfterFields, RecordFields
  <1>6. order.filled > 0 => order'.stage \in Filling
    BY <1>2, <1>3, <1>5, <1>t, RecordFields DEF ValidRecord, LifecycleRecord
  <1>7. order'.filled <= order'.requested
    <2>1. CASE e.type \in {"PARTIALLY_FILLED", "FILLED"}
      <3>1. order.filled + e.quantity <= order.requested
        BY Zenon, <1>a, <2>1 DEF Legal, FillFits
      <3> QED BY Zenon, <1>0, <1>a, <1>e, <1>t, <2>1, <3>1, AfterFields, RecordFields
    <2>2. CASE e.type = "PREVIEWED"
      <3>1. order = NoOrder
        BY Zenon, <1>a, <2>2 DEF Legal, LegalStages
      <3> QED BY <1>0, <1>a, <1>e, <1>t, <2>2, <3>1, AfterFields, RecordFields
    <2>3. CASE e.type \notin {"PARTIALLY_FILLED", "FILLED", "PREVIEWED"}
      BY Zenon, <1>0, <1>a, <2>3, AfterFields DEF LifecycleInv
    <2> QED BY Zenon, <2>1, <2>2, <2>3
  <1>8. ApprovedBeforeSubmission'
    <2> SUFFICES ASSUME "submission_attempted_at" \in order'.evidence
                 PROVE  /\ {"human_approval_requested_at", "human_approved_at"}
                              \subseteq order'.evidence
                        /\ order'.authorization # NoAuthorization
      BY Zenon DEF ApprovedBeforeSubmission
    <2>1. CASE "submission_attempted_at" \in order.evidence
      <3>1. /\ {"human_approval_requested_at", "human_approved_at"} \subseteq order.evidence
            /\ order.authorization # NoAuthorization
        BY Zenon, <2>1 DEF LifecycleInv, ApprovedBeforeSubmission
      <3> QED BY <1>0, <1>4, <1>a, <3>1, AfterFields
    <2>2. CASE "submission_attempted_at" \notin order.evidence
      <3>1. "submission_attempted_at" \in NewEvidence(e.type)
        BY Zenon, <1>0, <1>a, <2>2, AfterFields
      <3>2. e.type \in {"SUBMITTED", "SUBMISSION_ATTEMPT_FAILED"}
        BY Zenon, <1>e, <3>1 DEF NewEvidence, EventTypes
      <3>3. order'.stage \in {"SUBMITTED", "SUBMISSION_ATTEMPT_FAILED_REVIEW_REQUIRED"}
        BY Zenon, <1>0, <1>a, <3>2, AfterFields DEF NextStage
      <3>4. order'.stage \in Approved
        BY Zenon, <3>3 DEF Approved
      <3> QED BY Zenon, <1>3, <3>4 DEF ValidRecord, RequiredEvidence
    <2> QED BY Zenon, <2>1, <2>2
  <1> QED BY Zenon, <1>2, <1>3, <1>4, <1>5, <1>6, <1>7, <1>8 DEF LifecycleInv, LifecycleTypeOK

\* An order without events satisfies the invariant.
LEMMA LifecycleStarts == LifecycleInit => LifecycleInv
PROOF
  BY DEF LifecycleInit, LifecycleInv, LifecycleTypeOK, ApprovedBeforeSubmission, NoOrder

\* Every event that apply accepts keeps the invariant.
LEMMA LifecycleInductive == LifecycleInv /\ [LifecycleNext]_order => LifecycleInv'
PROOF
  <1> SUFFICES ASSUME LifecycleInv, [LifecycleNext]_order PROVE LifecycleInv'
    BY Zenon
  <1>1. CASE LifecycleNext
    BY Zenon, <1>1, LifecycleStep DEF LifecycleNext
  <1>2. CASE UNCHANGED order
    BY Zenon, <1>2 DEF LifecycleInv, LifecycleTypeOK, ApprovedBeforeSubmission
  <1> QED BY Zenon, <1>1, <1>2

-----------------------------------------------------------------------------
(* The theorems.                                                           *)

\* An order at the venue has been approved under one authorization, for any
\* quantities and any number of promotion rounds.
THEOREM OrdersApprovedFirst == LifecycleSpec => []ApprovedBeforeSubmission
PROOF
  <1>1. LifecycleInv => ApprovedBeforeSubmission
    BY Zenon DEF LifecycleInv
  <1> QED BY <1>1, LifecycleStarts, LifecycleInductive, PTL DEF LifecycleSpec

\* The authorization of an order never changes.
THEOREM OrdersKeepAuthorization == LifecycleSpec => AuthorizationFixed
PROOF
  <1> DEFINE Step == order.authorization # NoAuthorization =>
                        order'.authorization = order.authorization
  <1>1. LifecycleInv /\ [LifecycleNext]_order => [Step]_order
    BY Zenon, LifecycleStep DEF LifecycleNext
  <1> QED BY <1>1, LifecycleStarts, LifecycleInductive, PTL
          DEF LifecycleSpec, AuthorizationFixed

\* Fills are never lost, never exceed the order, and never leave the stages in
\* which an order may hold them.
THEOREM OrdersKeepFills == LifecycleSpec => FillsKept
PROOF
  <1> DEFINE Step == /\ order.filled <= order'.filled
                     /\ order'.filled <= order'.requested
                     /\ order.filled > 0 => order'.stage \in Filling
  <1>1. LifecycleInv /\ [LifecycleNext]_order => [Step]_order
    BY Zenon, LifecycleStep DEF LifecycleNext, LifecycleInv
  <1> QED BY <1>1, LifecycleStarts, LifecycleInductive, PTL DEF LifecycleSpec, FillsKept

\* The lifecycle fields of an order hold values of their kinds, whatever
\* events it is given (LiveOrderLifecycleStateMachine.apply).
THEOREM LifecycleTyped == LifecycleSpec => []LifecycleTypeOK
PROOF
  <1>1. LifecycleInv => LifecycleTypeOK
    BY Zenon DEF LifecycleInv
  <1> QED BY <1>1, LifecycleStarts, LifecycleInductive, PTL DEF LifecycleSpec

=============================================================================
