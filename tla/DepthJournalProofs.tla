------------------------- MODULE DepthJournalProofs -------------------------
(* What readers of the depth journal are given: a journal whose head is live   *)
(* replays to a book the exchange had, and never to an older one than before,  *)
(* for any number of symbols, levels, updates, batches and faults.             *)
EXTENDS MarketDepthProofs, WellFoundedInduction

-----------------------------------------------------------------------------
(* The loops of append and read_local_depth, row by row.                    *)

\* A set of naturals that is not empty has a least element.
LEMMA Least ==
    ASSUME NEW S, S \subseteq Nat, S # {}
    PROVE  \E x \in S : \A y \in S : x <= y
PROOF
  <1>1. \E x \in S : \A y \in S : ~ (<<y, x>> \in OpToRel(<, Nat))
    BY Zenon, NatLessThanWellFounded, WFMin
  <1>2. PICK x \in S : \A y \in S : ~ (<<y, x>> \in OpToRel(<, Nat))
    BY Zenon, <1>1
  <1>3. \A y \in S : ~ (y < x)
    BY Zenon, <1>2 DEF OpToRel
  <1>4. \A y \in S : x <= y
    BY <1>3
  <1> QED BY Zenon, <1>4

\* The journals that the first m records leave, one after the other.
Writes(w, all, rows, m) ==
    w = [n \in 0..m |-> IF n = 0 THEN all ELSE Stored(w[n - 1], rows[n])]

LEMMA WritesStep ==
    ASSUME NEW w, NEW all, NEW rows, NEW m \in Nat, Writes(w, all, rows, m)
    PROVE  w[0] = all /\ \A n \in 1..m : w[n] = Stored(w[n - 1], rows[n])
PROOF
  <1>1. \A n \in 0..m : w[n] = IF n = 0 THEN all ELSE Stored(w[n - 1], rows[n])
    BY Zenon DEF Writes
  <1>2. 0 \in 0..m /\ \A n \in 1..m : n \in 0..m /\ n # 0
    OBVIOUS
  <1> QED BY Zenon, <1>1, <1>2

\* The recursive function of Written exists.
LEMMA WritesExists ==
    ASSUME NEW all, NEW rows, NEW m \in Nat PROVE \E w : Writes(w, all, rows, m)
PROOF
  <1> DEFINE S == {k \in Nat : ~ \E w : Writes(w, all, rows, k)}
  <1> SUFFICES ASSUME S # {} PROVE FALSE
    BY Zenon
  <1>1. PICK k \in S : \A j \in S : k <= j
    BY Zenon, Least
  <1>2. k \in Nat
    OBVIOUS
  <1>3. CASE k = 0
    <2>1. PICK w : w = [n \in 0..0 |-> all]
      BY Zenon
    <2>2. \A n \in 0..0 : n = 0
      OBVIOUS
    <2>3. w = [n \in 0..0 |-> IF n = 0 THEN all ELSE Stored(w[n - 1], rows[n])]
      BY Zenon, <2>1, <2>2
    <2> QED BY Zenon, <1>3, <2>3 DEF Writes
  <1>4. CASE k # 0
    <2>1. k - 1 \in Nat /\ ~ (k <= k - 1)
      BY <1>2, <1>4
    <2>2. PICK v : Writes(v, all, rows, k - 1)
      BY Zenon, <1>1, <2>1
    <2>3. PICK w : w = [n \in 0..k |-> IF n = k THEN Stored(v[k - 1], rows[k]) ELSE v[n]]
      BY Zenon
    <2>4. /\ k \in 0..k
          /\ \A n \in 0..k : n # k => n \in 0..k - 1
          /\ \A n \in 0..k : n # 0 => n - 1 \in 0..k /\ n - 1 # k
          /\ \A n \in 0..k - 1 : n # 0 => n \in 1..k - 1
      BY <1>2, <1>4
    <2>5. v[0] = all /\ \A n \in 1..k - 1 : v[n] = Stored(v[n - 1], rows[n])
      BY <2>1, <2>2, WritesStep
    <2>6. ASSUME NEW n \in 0..k
          PROVE  w[n] = IF n = 0 THEN all ELSE Stored(w[n - 1], rows[n])
      <3>1. CASE n = k
        BY Zenon, <1>4, <2>3, <2>4, <3>1
      <3>2. CASE n # k
        BY Zenon, <2>3, <2>4, <2>5, <3>2
      <3> QED BY Zenon, <3>1, <3>2
    <2>7. w = [n \in 0..k |-> IF n = 0 THEN all ELSE Stored(w[n - 1], rows[n])]
      BY Zenon, <2>3, <2>6
    <2> QED BY Zenon, <2>7 DEF Writes
  <1> QED BY Zenon, <1>3, <1>4

\* It is the function of every longer batch, as far as it goes.
LEMMA WritesAgree ==
    ASSUME NEW all, NEW rows, NEW more, NEW m \in Nat, NEW k \in Nat, m <= k,
           NEW v, Writes(v, all, rows, m), NEW w, Writes(w, all, more, k),
           \A n \in 1..m : more[n] = rows[n]
    PROVE  \A n \in 0..m : v[n] = w[n]
PROOF
  <1> DEFINE S == {n \in 0..m : v[n] # w[n]}
  <1> SUFFICES ASSUME S # {} PROVE FALSE
    BY Zenon
  <1>0. S \subseteq Nat
    OBVIOUS
  <1>1. PICK n \in S : \A j \in S : n <= j
    BY Zenon, <1>0, Least
  <1>2. n \in 0..m /\ v[n] # w[n]
    BY Zenon
  <1>3. /\ v[0] = all /\ w[0] = all
        /\ \A i \in 1..m : v[i] = Stored(v[i - 1], rows[i])
        /\ \A i \in 1..k : w[i] = Stored(w[i - 1], more[i])
    BY WritesStep
  <1>4. n # 0
    BY Zenon, <1>2, <1>3
  <1>5. n \in 1..m /\ n \in 1..k /\ n - 1 \in 0..m /\ ~ (n <= n - 1)
    BY <1>2, <1>4
  <1>6. v[n - 1] = w[n - 1]
    BY Zenon, <1>1, <1>5
  <1> QED BY Zenon, <1>2, <1>3, <1>5, <1>6

LEMMA WrittenIs ==
    ASSUME NEW all, NEW rows, Len(rows) \in Nat, NEW w, Writes(w, all, rows, Len(rows))
    PROVE  Written(all, rows) = w[Len(rows)]
PROOF
  <1>1. PICK v : v = CHOOSE u : Writes(u, all, rows, Len(rows))
    BY Zenon
  <1>2. Writes(v, all, rows, Len(rows))
    BY Zenon, <1>1
  <1>3. Written(all, rows) = v[Len(rows)]
    BY Zenon, <1>1 DEF Written, Writes
  <1>4. v[Len(rows)] = w[Len(rows)]
    <2>1. Len(rows) <= Len(rows) /\ Len(rows) \in 0..Len(rows)
      OBVIOUS
    <2> QED BY <1>2, <2>1, WritesAgree
  <1> QED BY Zenon, <1>3, <1>4

\* append without records writes nothing, and with one record more it writes
\* that record after the others.
LEMMA WrittenNone == ASSUME NEW all PROVE Written(all, <<>>) = all
PROOF
  <1>1. Len(<<>>) = 0
    OBVIOUS
  <1>2. PICK w : Writes(w, all, <<>>, 0)
    BY WritesExists
  <1> QED BY <1>1, <1>2, WrittenIs, WritesStep

LEMMA WrittenMore ==
    ASSUME NEW all, NEW R, NEW rows \in Seq(R), NEW row \in R
    PROVE  Written(all, Append(rows, row)) = Stored(Written(all, rows), row)
PROOF
  <1>m. PICK more : more = Append(rows, row)
    BY Zenon
  <1>n. PICK n : n = Len(rows)
    BY Zenon
  <1>1. /\ n \in Nat /\ Len(more) = n + 1 /\ more[n + 1] = row
        /\ \A i \in 1..n : more[i] = rows[i]
    BY <1>m, <1>n
  <1>2. n + 1 \in Nat /\ n <= n + 1 /\ n \in 0..n /\ n + 1 \in 1..n + 1 /\ (n + 1) - 1 = n
    BY <1>1
  <1>3. PICK v : Writes(v, all, rows, n)
    BY Zenon, <1>1, WritesExists
  <1>4. PICK w : Writes(w, all, more, n + 1)
    BY Zenon, <1>2, WritesExists
  <1>5. v[n] = w[n]
    BY <1>1, <1>2, <1>3, <1>4, WritesAgree
  <1>6. w[n + 1] = Stored(w[n], row)
    <2>1. \A i \in 1..n + 1 : w[i] = Stored(w[i - 1], more[i])
      BY <1>2, <1>4, WritesStep
    <2> QED BY Zenon, <1>1, <1>2, <2>1
  <1>7. Written(all, rows) = v[n]
    BY <1>1, <1>3, <1>n, WrittenIs
  <1>8. Written(all, more) = w[n + 1]
    BY <1>1, <1>2, <1>4, WrittenIs
  <1> QED BY Zenon, <1>m, <1>5, <1>6, <1>7, <1>8

Unread(new) == [ok |-> TRUE, book |-> new]

\* What the first m rows make of a new book, one after the other.
Replays(w, new, rows, m) ==
    w = [n \in 0..m |-> IF n = 0 THEN Unread(new) ELSE ReplayRow(w[n - 1], rows[n])]

LEMMA ReplaysStep ==
    ASSUME NEW w, NEW new, NEW rows, NEW m \in Nat, Replays(w, new, rows, m)
    PROVE  w[0] = Unread(new) /\ \A n \in 1..m : w[n] = ReplayRow(w[n - 1], rows[n])
PROOF
  <1>1. \A n \in 0..m : w[n] = IF n = 0 THEN Unread(new) ELSE ReplayRow(w[n - 1], rows[n])
    BY Zenon DEF Replays
  <1>2. 0 \in 0..m /\ \A n \in 1..m : n \in 0..m /\ n # 0
    OBVIOUS
  <1> QED BY Zenon, <1>1, <1>2

\* The recursive function of Replay exists.
LEMMA ReplaysExists ==
    ASSUME NEW new, NEW rows, NEW m \in Nat PROVE \E w : Replays(w, new, rows, m)
PROOF
  <1> DEFINE S == {k \in Nat : ~ \E w : Replays(w, new, rows, k)}
  <1> SUFFICES ASSUME S # {} PROVE FALSE
    BY Zenon
  <1>1. PICK k \in S : \A j \in S : k <= j
    BY Zenon, Least
  <1>2. k \in Nat
    OBVIOUS
  <1>3. CASE k = 0
    <2>1. PICK w : w = [n \in 0..0 |-> Unread(new)]
      BY Zenon
    <2>2. \A n \in 0..0 : n = 0
      OBVIOUS
    <2>3. w = [n \in 0..0 |-> IF n = 0 THEN Unread(new) ELSE ReplayRow(w[n - 1], rows[n])]
      BY Zenon, <2>1, <2>2
    <2> QED BY Zenon, <1>3, <2>3 DEF Replays
  <1>4. CASE k # 0
    <2>1. k - 1 \in Nat /\ ~ (k <= k - 1)
      BY <1>2, <1>4
    <2>2. PICK v : Replays(v, new, rows, k - 1)
      BY Zenon, <1>1, <2>1
    <2>3. PICK w : w = [n \in 0..k |-> IF n = k THEN ReplayRow(v[k - 1], rows[k]) ELSE v[n]]
      BY Zenon
    <2>4. /\ k \in 0..k
          /\ \A n \in 0..k : n # k => n \in 0..k - 1
          /\ \A n \in 0..k : n # 0 => n - 1 \in 0..k /\ n - 1 # k
          /\ \A n \in 0..k - 1 : n # 0 => n \in 1..k - 1
      BY <1>2, <1>4
    <2>5. v[0] = Unread(new) /\ \A n \in 1..k - 1 : v[n] = ReplayRow(v[n - 1], rows[n])
      BY <2>1, <2>2, ReplaysStep
    <2>6. ASSUME NEW n \in 0..k
          PROVE  w[n] = IF n = 0 THEN Unread(new) ELSE ReplayRow(w[n - 1], rows[n])
      <3>1. CASE n = k
        BY Zenon, <1>4, <2>3, <2>4, <3>1
      <3>2. CASE n # k
        BY Zenon, <2>3, <2>4, <2>5, <3>2
      <3> QED BY Zenon, <3>1, <3>2
    <2>7. w = [n \in 0..k |-> IF n = 0 THEN Unread(new) ELSE ReplayRow(w[n - 1], rows[n])]
      BY Zenon, <2>3, <2>6
    <2> QED BY Zenon, <2>7 DEF Replays
  <1> QED BY Zenon, <1>3, <1>4

\* It is the function of every longer journal, as far as it goes.
LEMMA ReplaysAgree ==
    ASSUME NEW new, NEW rows, NEW more, NEW m \in Nat, NEW k \in Nat, m <= k,
           NEW v, Replays(v, new, rows, m), NEW w, Replays(w, new, more, k),
           \A n \in 1..m : more[n] = rows[n]
    PROVE  \A n \in 0..m : v[n] = w[n]
PROOF
  <1> DEFINE S == {n \in 0..m : v[n] # w[n]}
  <1> SUFFICES ASSUME S # {} PROVE FALSE
    BY Zenon
  <1>0. S \subseteq Nat
    OBVIOUS
  <1>1. PICK n \in S : \A j \in S : n <= j
    BY Zenon, <1>0, Least
  <1>2. n \in 0..m /\ v[n] # w[n]
    BY Zenon
  <1>3. /\ v[0] = Unread(new) /\ w[0] = Unread(new)
        /\ \A i \in 1..m : v[i] = ReplayRow(v[i - 1], rows[i])
        /\ \A i \in 1..k : w[i] = ReplayRow(w[i - 1], more[i])
    BY ReplaysStep
  <1>4. n # 0
    BY Zenon, <1>2, <1>3
  <1>5. n \in 1..m /\ n \in 1..k /\ n - 1 \in 0..m /\ ~ (n <= n - 1)
    BY <1>2, <1>4
  <1>6. v[n - 1] = w[n - 1]
    BY Zenon, <1>1, <1>5
  <1> QED BY Zenon, <1>2, <1>3, <1>5, <1>6

LEMMA ReplayIs ==
    ASSUME NEW new, NEW rows, Len(rows) \in Nat, NEW w, Replays(w, new, rows, Len(rows))
    PROVE  Replay(new, rows) = w[Len(rows)]
PROOF
  <1>1. PICK v : v = CHOOSE u : Replays(u, new, rows, Len(rows))
    BY Zenon
  <1>2. Replays(v, new, rows, Len(rows))
    BY Zenon, <1>1
  <1>3. Replay(new, rows) = v[Len(rows)]
    BY Zenon, <1>1 DEF Replay, Replays, Unread
  <1>4. v[Len(rows)] = w[Len(rows)]
    <2>1. Len(rows) <= Len(rows) /\ Len(rows) \in 0..Len(rows)
      OBVIOUS
    <2> QED BY <1>2, <2>1, ReplaysAgree
  <1> QED BY Zenon, <1>3, <1>4

\* Without rows the book is new, and a further row is applied after the others.
LEMMA ReplayNone == ASSUME NEW new PROVE Replay(new, <<>>) = Unread(new)
PROOF
  <1>1. Len(<<>>) = 0
    OBVIOUS
  <1>2. PICK w : Replays(w, new, <<>>, 0)
    BY ReplaysExists
  <1> QED BY <1>1, <1>2, ReplayIs, ReplaysStep

LEMMA ReplayMore ==
    ASSUME NEW new, NEW R, NEW rows \in Seq(R), NEW row \in R
    PROVE  Replay(new, Append(rows, row)) = ReplayRow(Replay(new, rows), row)
PROOF
  <1>m. PICK more : more = Append(rows, row)
    BY Zenon
  <1>n. PICK n : n = Len(rows)
    BY Zenon
  <1>1. /\ n \in Nat /\ Len(more) = n + 1 /\ more[n + 1] = row
        /\ \A i \in 1..n : more[i] = rows[i]
    BY <1>m, <1>n
  <1>2. n + 1 \in Nat /\ n <= n + 1 /\ n \in 0..n /\ n + 1 \in 1..n + 1 /\ (n + 1) - 1 = n
    BY <1>1
  <1>3. PICK v : Replays(v, new, rows, n)
    BY Zenon, <1>1, ReplaysExists
  <1>4. PICK w : Replays(w, new, more, n + 1)
    BY Zenon, <1>2, ReplaysExists
  <1>5. v[n] = w[n]
    BY <1>1, <1>2, <1>3, <1>4, ReplaysAgree
  <1>6. w[n + 1] = ReplayRow(w[n], row)
    <2>1. \A i \in 1..n + 1 : w[i] = ReplayRow(w[i - 1], more[i])
      BY <1>2, <1>4, ReplaysStep
    <2> QED BY Zenon, <1>1, <1>2, <2>1
  <1>7. Replay(new, rows) = v[n]
    BY <1>1, <1>3, <1>n, ReplayIs
  <1>8. Replay(new, more) = w[n + 1]
    BY <1>1, <1>2, <1>4, ReplayIs
  <1> QED BY Zenon, <1>m, <1>5, <1>6, <1>7, <1>8

-----------------------------------------------------------------------------
(* Records and heads.                                                       *)

Kinds == {"snapshot", "delta", "checkpoint", "gap"}

Bodies == Snapshots \cup Deltas \cup {[reason |-> "gap"]}

Rows == [symbol : Symbols, kind : Kinds, body : Bodies]

Stores == [status : {"NONE", "LIVE", "SYNCING", "GAP"}, rows : Seq(Rows)]

Journals == [Symbols -> Stores]

LEMMA RowTyped ==
    ASSUME NEW s \in Symbols, NEW kind \in Kinds, NEW body \in Bodies
    PROVE  /\ Row(s, kind, body) \in Rows
           /\ Row(s, kind, body).symbol = s /\ Row(s, kind, body).kind = kind
           /\ Row(s, kind, body).body = body
BY Zenon DEF Row, Rows

LEMMA AppendTyped ==
    ASSUME NEW rows \in Seq(Rows), NEW row \in Rows PROVE Append(rows, row) \in Seq(Rows)
OBVIOUS

LEMMA GapTyped ==
    ASSUME NEW s \in Symbols
    PROVE  Gap(s) \in Rows /\ Gap(s).symbol = s /\ Gap(s).kind = "gap"
PROOF
  <1>1. [reason |-> "gap"] \in Bodies /\ "gap" \in Kinds
    BY Zenon DEF Bodies, Kinds
  <1> QED BY <1>1, RowTyped DEF Gap

\* DepthJournal.append for a record of each kind.
LEMMA LoggedGap ==
    ASSUME NEW stored \in Stores, NEW row \in Rows, row.kind = "gap"
    PROVE  Logged(stored, row) \in Stores /\ Logged(stored, row).status = "GAP"
BY DEF Logged, HeadStatus, Stores

LEMMA LoggedSnapshot ==
    ASSUME NEW stored \in Stores, NEW row \in Rows, row.kind = "snapshot"
    PROVE  Logged(stored, row) \in Stores /\ Logged(stored, row).status = "SYNCING"
           /\ Logged(stored, row).rows = <<row>>
BY DEF Logged, HeadStatus, Stores

LEMMA LoggedCheckpoint ==
    ASSUME NEW stored \in Stores, NEW row \in Rows, row.kind = "checkpoint"
    PROVE  Logged(stored, row) \in Stores /\ Logged(stored, row).status = "LIVE"
           /\ Logged(stored, row).rows = <<row>>
BY DEF Logged, HeadStatus, Stores

LEMMA LoggedDelta ==
    ASSUME NEW stored \in Stores, NEW row \in Rows, row.kind = "delta", stored.rows # <<>>
    PROVE  Logged(stored, row) \in Stores /\ Logged(stored, row).status = "LIVE"
           /\ Logged(stored, row).rows = Append(stored.rows, row)
           /\ Append(stored.rows, row) # <<>>
PROOF
  <1>1. stored.rows \in Seq(Rows)
    BY Zenon DEF Stores
  <1>2. Append(stored.rows, row) \in Seq(Rows) /\ Append(stored.rows, row) # <<>>
    BY <1>1
  <1> QED BY <1>2 DEF Logged, HeadStatus, Stores

\* A record is written to its symbol's rows and no other's.
LEMMA StoredAt ==
    ASSUME NEW all \in Journals, NEW row \in Rows,
           Logged(all[row.symbol], row) \in Stores
    PROVE  /\ Stored(all, row) \in Journals
           /\ Stored(all, row)[row.symbol] = Logged(all[row.symbol], row)
           /\ \A s \in Symbols : s # row.symbol => Stored(all, row)[s] = all[s]
PROOF
  <1>1. row.symbol \in Symbols
    BY Zenon DEF Rows
  <1> QED BY Zenon, <1>1 DEF Stored, Journals

LEMMA StoredGap ==
    ASSUME NEW all \in Journals, NEW s \in Symbols
    PROVE  /\ Stored(all, Gap(s)) \in Journals
           /\ Stored(all, Gap(s))[s].status = "GAP"
           /\ \A x \in Symbols : x # s => Stored(all, Gap(s))[x] = all[x]
PROOF
  <1>1. Gap(s) \in Rows /\ Gap(s).symbol = s /\ Gap(s).kind = "gap"
    BY Zenon, GapTyped
  <1>2. all[s] \in Stores
    BY Zenon DEF Journals
  <1>3. Logged(all[s], Gap(s)) \in Stores /\ Logged(all[s], Gap(s)).status = "GAP"
    BY <1>1, <1>2, LoggedGap
  <1> QED BY <1>1, <1>3, StoredAt

\* The gaps of a start, a failure or a close reach every symbol of the group.
LEMMA GapsWritten ==
    ASSUME NEW all \in Journals
    PROVE  /\ Written(all, Gaps) \in Journals
           /\ \A s \in Symbols : Written(all, Gaps)[s].status = "GAP"
PROOF
  <1>n. PICK m : m = Len(Group)
    BY Zenon
  <1>1. m \in Nat /\ Len(Gaps) = m /\ \A i \in 1..m : Group[i] \in Symbols
    BY <1>n, DepthAssumption DEF Gaps
  <1>2. \A i \in 1..m : Gaps[i] = Gap(Group[i])
    BY Zenon, <1>n DEF Gaps
  <1>3. PICK w : Writes(w, all, Gaps, m)
    BY <1>1, WritesExists
  <1>4. w[0] = all /\ \A i \in 1..m : w[i] = Stored(w[i - 1], Gap(Group[i]))
    BY <1>1, <1>2, <1>3, WritesStep
  <1> DEFINE Good(n) == w[n] \in Journals /\ \A i \in 1..n : w[n][Group[i]].status = "GAP"
             S == {n \in 0..m : ~Good(n)}
  <1>5. S = {}
    <2> SUFFICES ASSUME S # {} PROVE FALSE
      BY Zenon
    <2>0. S \subseteq Nat
      BY <1>1
    <2>1. PICK n \in S : \A j \in S : n <= j
      BY Zenon, <2>0, Least
    <2>2. n \in 0..m /\ ~Good(n)
      BY Zenon
    <2>3. n # 0
      <3>1. Good(0)
        BY <1>4
      <3> QED BY Zenon, <2>2, <3>1
    <2>4. n \in 1..m /\ n - 1 \in 0..m /\ ~ (n <= n - 1)
      BY <1>1, <2>2, <2>3
    <2>5. Good(n - 1)
      BY Zenon, <2>1, <2>4
    <2>6. Group[n] \in Symbols /\ w[n] = Stored(w[n - 1], Gap(Group[n]))
      BY Zenon, <1>1, <1>4, <2>4
    <2>7. /\ w[n] \in Journals /\ w[n][Group[n]].status = "GAP"
          /\ \A x \in Symbols : x # Group[n] => w[n][x] = w[n - 1][x]
      BY <2>5, <2>6, StoredGap
    <2>8. ASSUME NEW i \in 1..n PROVE w[n][Group[i]].status = "GAP"
      <3>1. CASE Group[i] = Group[n]
        BY Zenon, <2>7, <3>1
      <3>2. CASE Group[i] # Group[n]
        <4>1. i # n
          BY Zenon, <3>2
        <4>2. i \in 1..n - 1 /\ i \in 1..m
          BY <4>1, <2>4, <1>1
        <4> QED BY Zenon, <1>1, <2>5, <2>7, <3>2, <4>2
      <3> QED BY Zenon, <3>1, <3>2
    <2> QED BY Zenon, <2>2, <2>7, <2>8
  <1>6. Good(m)
    <2>1. m \in 0..m
      BY <1>1
    <2> QED BY Zenon, <1>5, <2>1
  <1>7. Written(all, Gaps) = w[m]
    BY <1>1, <1>3, WrittenIs
  <1>8. \A s \in Symbols : \E i \in 1..m : Group[i] = s
    BY <1>n, DepthAssumption DEF Symbols
  <1> QED BY Zenon, <1>6, <1>7, <1>8

\* read_local_depth over a snapshot or a checkpoint, and over one delta more.
LEMMA ReplayFirst ==
    ASSUME NEW new, NEW row \in Rows, row.kind \in {"snapshot", "checkpoint"},
           NEW book, book = ApplySnapshot(new, row.body), book.state = "LIVE"
    PROVE  Replay(new, <<row>>) = [ok |-> TRUE, book |-> book]
PROOF
  <1>1. <<>> \in Seq(Rows) /\ Append(<<>>, row) = <<row>>
    OBVIOUS
  <1>2. Replay(new, <<row>>) = ReplayRow(Unread(new), row)
    <2>1. Replay(new, Append(<<>>, row)) = ReplayRow(Replay(new, <<>>), row)
      BY Zenon, <1>1, ReplayMore
    <2>2. Replay(new, <<>>) = Unread(new)
      BY Zenon, ReplayNone
    <2> QED BY Zenon, <1>1, <2>1, <2>2
  <1>3. Unread(new).ok = TRUE /\ Unread(new).book = new
    BY Zenon DEF Unread
  <1>4. row.kind # "gap" /\ row.kind # "delta"
    OBVIOUS
  <1>5. ReplayRow(Unread(new), row) = [book |-> book, ok |-> TRUE]
    BY Zenon, <1>3, <1>4 DEF ReplayRow
  <1> QED BY <1>2, <1>5

LEMMA ReplayDelta ==
    ASSUME NEW new, NEW rows \in Seq(Rows), NEW row \in Rows, row.kind = "delta",
           NEW book, Replay(new, rows) = [ok |-> TRUE, book |-> book],
           DeltaOutcome(book, row.body) = "APPLIED",
           NEW next, next = ApplyDelta(book, row.body), next.state = "LIVE"
    PROVE  Replay(new, Append(rows, row)) = [ok |-> TRUE, book |-> next]
PROOF
  <1>r. PICK replay : replay = Replay(new, rows)
    BY Zenon
  <1>1. Replay(new, Append(rows, row)) = ReplayRow(replay, row)
    BY Zenon, <1>r, ReplayMore
  <1>2. replay.ok = TRUE /\ replay.book = book
    <2>1. replay = [ok |-> TRUE, book |-> book]
      BY Zenon, <1>r
    <2> QED BY <2>1
  <1>4. row.kind # "gap"
    OBVIOUS
  <1>5. ReplayRow(replay, row) = [book |-> next, ok |-> TRUE]
    BY Zenon, <1>2, <1>4 DEF ReplayRow
  <1> QED BY <1>1, <1>5

\* A book that a delta has made live is restored by its checkpoint.
LEMMA CheckpointRestores ==
    ASSUME NEW f \in BOOLEAN, NEW book \in Books, NEW delta \in Deltas,
           book.futures_sequence = f, DeltaOutcome(book, delta) = "APPLIED",
           NEW next, next = ApplyDelta(book, delta), next.state = "LIVE"
    PROVE  /\ next \in Books /\ next.futures_sequence = f
           /\ next.last_update_id = delta.last_update_id
           /\ Checkpoint(next) \in Snapshots
           /\ ApplySnapshot(NewBook(f), Checkpoint(next)) = next
PROOF
  <1> DEFINE side == ApplySide(book, delta, {"bid", "ask"})
             set == [side EXCEPT !.last_update_id = delta.last_update_id, !.bridged = TRUE]
  <1>1. side \in Books /\ side.futures_sequence = f
    BY Zenon DEF ApplySide, Books, Deltas, Quantities
  <1> HIDE DEF side
  <1>2. /\ set \in Books /\ set.futures_sequence = f /\ set.bridged = TRUE
        /\ set.last_update_id = delta.last_update_id
    BY Zenon, <1>1 DEF Books, Deltas
  <1>3. next = Validated(set)
    BY Zenon DEF ApplyDelta, side
  <1> HIDE DEF set
  <1>4. /\ next \in Books /\ next.futures_sequence = f /\ next.bridged = TRUE
        /\ next.last_update_id = delta.last_update_id /\ next.quantity = set.quantity
    BY Zenon, <1>2, <1>3 DEF Validated, Books, BookState
  <1>5. ValidQuantities(next.quantity)
    <2>1. next.state = IF ValidQuantities(set.quantity) THEN "LIVE" ELSE "DEGRADED"
      BY Zenon, <1>2, <1>3 DEF Validated, Books
    <2>2. "LIVE" # "DEGRADED"
      OBVIOUS
    <2> QED BY Zenon, <1>4, <2>1, <2>2
  <1>6. Checkpoint(next) \in Snapshots
    BY Zenon, <1>4 DEF Checkpoint, Snapshots, Books
  <1>7. ApplySnapshot(NewBook(f), Checkpoint(next))
          = [futures_sequence |-> f, state |-> "LIVE", last_update_id |-> next.last_update_id,
             bridged |-> TRUE, quantity |-> next.quantity, known |-> next.known]
    <2>n. PICK new : new = NewBook(f)
      BY Zenon
    <2>c. PICK c : c = Checkpoint(next)
      BY Zenon
    <2>x. PICK x : x = [new EXCEPT !.last_update_id = c.last_update_id, !.bridged = c.bridged,
                                   !.quantity = c.quantity, !.known = c.known]
      BY Zenon
    <2>1. x = [futures_sequence |-> f, state |-> "EMPTY",
               last_update_id |-> next.last_update_id,
               bridged |-> TRUE, quantity |-> next.quantity, known |-> next.known]
      BY Zenon, <2>n, <2>c, <2>x DEF NewBook, Checkpoint
    <2>2. ApplySnapshot(new, c) = Validated(x)
      BY Zenon, <2>x DEF ApplySnapshot
    <2>3. x.quantity = next.quantity
      BY <2>1
    <2>4. Validated(x) = [x EXCEPT !.state = "LIVE"]
      BY Zenon, <1>5, <2>3 DEF Validated
    <2> QED BY Zenon, <2>n, <2>c, <2>1, <2>2, <2>4
  <1>8. next = [futures_sequence |-> f, state |-> "LIVE",
                last_update_id |-> next.last_update_id,
                bridged |-> TRUE, quantity |-> next.quantity, known |-> next.known]
    BY <1>4 DEF Books
  <1> QED BY Zenon, <1>4, <1>6, <1>7, <1>8

-----------------------------------------------------------------------------
(* What makes the readers' properties inductive.                            *)

Connected == phase \in {"collecting", "unwinding", "ending"}

Waiting == {remaining[i] : i \in 1..Len(remaining)}

\* The symbol's book is in the dictionary and its snapshot is applied.
Built(s) == s \in held /\ (s = pending => draining)

\* The journal once the records that wait are written.
Ahead == Written(journal, records)

\* What the reader makes of stored is book.
Restores(stored, f, book) ==
    /\ stored.rows # <<>>
    /\ Replay(NewBook(f), stored.rows) = [ok |-> TRUE, book |-> book]

\* No delta of s that is still to be read ends before update n.
Passed(s, n) ==
    /\ n <= venue[s].published
    /\ \A j \in 1..Len(wire) : wire[j].symbol = s => n <= wire[j].delta.last_update_id

RecordsTyped ==
    /\ records \in Seq(Rows)
    /\ journal \in Journals
    /\ Ahead \in Journals
    /\ shown \in [Symbols -> Nat]

\* What a live head offers is a book the exchange had, and the latest one shown.
JournalTrue ==
    \A s \in Symbols : journal[s].status = "LIVE" =>
       \E book : /\ Restores(journal[s], futures, book)
                 /\ Shows(book, venue[s].history)
                 /\ book.last_update_id = shown[s]

\* Nothing of a connection outlives it.
Idle == ~Connected => records = <<>> /\ held = {} /\ remaining = <<>> /\ pending = NoSymbol

\* A symbol waits at most once, and not while it has a book.
QueueTrue ==
    /\ \A i, j \in 1..Len(remaining) : remaining[i] = remaining[j] => i = j
    /\ \A s \in Waiting : s \notin held
    /\ pending # NoSymbol =>
          pending \in held /\ (~draining => books[pending] = NewBook(futures))

\* The records follow the books: with them the journal restores each book that
\* is built, and its head is live for no other.
BuiltTrue ==
    Connected => \A s \in Symbols :
       /\ Built(s) => /\ Restores(Ahead[s], futures, books[s])
                      /\ books[s].state = "LIVE" /\ books[s].futures_sequence = futures
       /\ ~Built(s) => Ahead[s].status # "LIVE"

\* The deltas of a symbol are in flight in their order.
WireOrdered ==
    \A i \in 1..Len(wire) :
       /\ wire[i].delta.last_update_id <= venue[wire[i].symbol].published
       /\ \A j \in i..Len(wire) : wire[j].symbol = wire[i].symbol =>
             wire[i].delta.last_update_id <= wire[j].delta.last_update_id

ShownPassed == \A s \in Symbols : Passed(s, shown[s])

BuffersOrdered ==
    \A i \in 1..Len(buffers) :
       /\ shown[pending] <= buffers[i].last_update_id
       /\ Passed(pending, buffers[i].last_update_id)
       /\ \A j \in i..Len(buffers) : buffers[i].last_update_id <= buffers[j].last_update_id

BookPassed(s) ==
    /\ shown[s] <= books[s].last_update_id
    /\ Passed(s, books[s].last_update_id)
    /\ s = pending =>
          \A j \in 1..Len(buffers) : books[s].last_update_id <= buffers[j].last_update_id

\* A book whose deltas are recorded is at least as new as any shown before, and
\* no delta to come is older.
BooksPassed == Connected => \A s \in Symbols : Ahead[s].status = "LIVE" => BookPassed(s)

\* Every symbol that was subscribed has a book or waits for one: the collector
\* meets no delta of another ("unsubscribed depth identity", _connection).
StreamKnown ==
    /\ subscribed \subseteq held \cup Waiting
    /\ requested \subseteq held \cup Waiting
    /\ \A i \in 1..Len(wire) : wire[i].symbol \in held \cup Waiting

ReaderInv ==
    /\ RecordsTyped
    /\ JournalTrue
    /\ Idle
    /\ QueueTrue
    /\ BuiltTrue
    /\ WireOrdered
    /\ ShownPassed
    /\ BuffersOrdered
    /\ BooksPassed
    /\ StreamKnown

-----------------------------------------------------------------------------
(* The exchange and the stream.                                             *)

\* The stream goes on: what was passed stays passed, and the exchange's books
\* so far stay.
Flows == \A s \in Symbols : \A n \in Nat : Passed(s, n) => Passed(s, n)'

HistoryGrows == \A s \in Symbols : Extends(venue'[s].history, venue[s].history)

\* A step outside the collector leaves what readers and the collector rely on.
LEMMA OutsideKeeps ==
    ASSUME DepthInv, DepthInv', ReaderInv, Flows, HistoryGrows, WireOrdered', StreamKnown',
           UNCHANGED <<futures, phase, held, books, remaining, pending, buffers, draining,
                       records, journal, shown>>
    PROVE  ReaderInv'
PROOF
  <1>1. RecordsTyped' /\ Ahead' = Ahead
    BY Zenon DEF ReaderInv, RecordsTyped, Ahead
  <1>2. JournalTrue'
    <2> SUFFICES ASSUME NEW s \in Symbols, journal[s].status = "LIVE"
                 PROVE  \E book : /\ Restores(journal[s], futures, book)
                                  /\ Shows(book, venue'[s].history)
                                  /\ book.last_update_id = shown[s]
      BY Zenon DEF JournalTrue
    <2>1. PICK book : /\ Restores(journal[s], futures, book)
                      /\ Shows(book, venue[s].history)
                      /\ book.last_update_id = shown[s]
      BY Zenon DEF ReaderInv, JournalTrue
    <2>2. venue[s].history \in Histories /\ venue'[s].history \in Histories
      BY Zenon DEF DepthInv, CollectorTypeOK, Histories
    <2>3. Shows(book, venue'[s].history)
      BY <2>1, <2>2, ShowsLonger DEF HistoryGrows
    <2> QED BY Zenon, <2>1, <2>3
  <1>3. Idle' /\ QueueTrue' /\ BuiltTrue'
    <2>1. Idle'
      BY Zenon DEF ReaderInv, Idle, Connected
    <2>2. QueueTrue'
      BY Zenon DEF ReaderInv, QueueTrue, Waiting
    <2>3. BuiltTrue'
      BY Zenon, <1>1 DEF ReaderInv, BuiltTrue, Built, Connected
    <2> QED BY Zenon, <2>1, <2>2, <2>3
  <1>4. ShownPassed'
    BY Zenon DEF ReaderInv, ShownPassed, RecordsTyped, Flows
  <1>5. BuffersOrdered'
    <2>1. \A i \in 1..Len(buffers) : pending \in Symbols /\ buffers[i].last_update_id \in Nat
      <3>1. buffers \in Seq(Deltas)
        BY Zenon DEF DepthInv, CollectorTypeOK
      <3>2. ASSUME NEW i \in 1..Len(buffers) PROVE buffers # <<>> /\ buffers[i] \in Deltas
        BY <3>1
      <3> QED BY Zenon, <3>2 DEF DepthInv, BuffersTrue, Deltas
    <2> QED BY Zenon, <2>1 DEF ReaderInv, BuffersOrdered, Flows
  <1>6. BooksPassed'
    <2>1. \A s \in Symbols : books[s].last_update_id \in Nat
      BY Zenon DEF DepthInv, CollectorTypeOK, Books
    <2> QED BY Zenon, <1>1, <2>1 DEF ReaderInv, BooksPassed, Connected, BookPassed, Flows
  <1> QED BY Zenon, <1>1, <1>2, <1>3, <1>4, <1>5, <1>6 DEF ReaderInv

\* The numbers of the stream are naturals.
LEMMA StreamTyped ==
    ASSUME NEW w \in Seq([symbol : Symbols, delta : Deltas]),
           NEW v \in [Symbols -> [history : Seq(Quantities), published : Nat,
                                 touched : SUBSET Levels]]
    PROVE  /\ Len(w) \in Nat
           /\ \A i \in 1..Len(w) : /\ w[i] \in [symbol : Symbols, delta : Deltas]
                                   /\ w[i].symbol \in Symbols
                                   /\ w[i].delta.last_update_id \in Nat
           /\ \A s \in Symbols : v[s].published \in Nat
PROOF
  <1>m. PICK M : M = [symbol : Symbols, delta : Deltas]
    BY Zenon
  <1>1. w \in Seq(M)
    BY Zenon, <1>m
  <1>2. Len(w) \in Nat /\ \A i \in 1..Len(w) : w[i] \in M
    BY Zenon, <1>1, LenProperties, ElementOfSeq
  <1>3. \A i \in 1..Len(w) : w[i].symbol \in Symbols /\ w[i].delta.last_update_id \in Nat
    BY Zenon, <1>m, <1>2 DEF Deltas
  <1>4. \A s \in Symbols : v[s].published \in Nat
    BY Zenon
  <1> QED BY Zenon, <1>m, <1>2, <1>3, <1>4

LEMMA StreamTypes ==
    ASSUME DepthInv, DepthInv'
    PROVE  /\ \A s \in Symbols : venue[s].published \in Nat /\ venue'[s].published \in Nat
           /\ \A i \in 1..Len(wire) : wire[i].symbol \in Symbols
           /\ \A i \in 1..Len(wire) : wire[i].delta.last_update_id \in Nat
           /\ \A i \in 1..Len(wire') : wire'[i].symbol \in Symbols
           /\ \A i \in 1..Len(wire') : wire'[i].delta.last_update_id \in Nat
           /\ Len(wire) \in Nat /\ Len(wire') \in Nat
PROOF
  <1>m. PICK M : M = Seq([symbol : Symbols, delta : Deltas])
    BY Zenon
  <1>v. PICK V : V = [Symbols -> [history : Seq(Quantities), published : Nat,
                                  touched : SUBSET Levels]]
    BY Zenon
  <1>1. wire \in M /\ wire' \in M /\ venue \in V /\ venue' \in V
    BY Zenon, <1>m, <1>v DEF DepthInv, CollectorTypeOK
  <1> QED BY Zenon, <1>1, <1>m, <1>v, StreamTyped

\* Losing, repeating or garbling a delta leaves the order of the others.
LEMMA WireFlows ==
    ASSUME DepthInv, DepthInv', WireOrdered, NEW f,
           \A i \in 1..Len(wire') : f[i] \in 1..Len(wire),
           \A i \in 1..Len(wire') : \A j \in i..Len(wire') : f[j] \in f[i]..Len(wire),
           \A i \in 1..Len(wire') :
              /\ wire'[i].symbol = wire[f[i]].symbol
              /\ wire'[i].delta.last_update_id = wire[f[i]].delta.last_update_id,
           \A s \in Symbols : venue[s].published <= venue'[s].published
    PROVE  Flows /\ WireOrdered'
PROOF
  <1>0. /\ \A s \in Symbols : venue[s].published \in Nat /\ venue'[s].published \in Nat
        /\ \A i \in 1..Len(wire) : wire[i].symbol \in Symbols
        /\ \A i \in 1..Len(wire) : wire[i].delta.last_update_id \in Nat
        /\ Len(wire) \in Nat /\ Len(wire') \in Nat
    BY Zenon, StreamTypes
  <1>1. Flows
    <2> SUFFICES ASSUME NEW s \in Symbols, NEW n \in Nat, Passed(s, n) PROVE Passed(s, n)'
      BY Zenon DEF Flows
    <2>1. n <= venue'[s].published
      BY <1>0 DEF Passed
    <2>2. \A j \in 1..Len(wire') : wire'[j].symbol = s => n <= wire'[j].delta.last_update_id
      BY Zenon DEF Passed
    <2> QED BY Zenon, <2>1, <2>2 DEF Passed
  <1>2. WireOrdered'
    <2> SUFFICES ASSUME NEW i \in 1..Len(wire')
                 PROVE  /\ wire'[i].delta.last_update_id <= venue'[wire'[i].symbol].published
                        /\ \A j \in i..Len(wire') : wire'[j].symbol = wire'[i].symbol =>
                              wire'[i].delta.last_update_id <= wire'[j].delta.last_update_id
      BY Zenon DEF WireOrdered
    <2>1. /\ wire[f[i]].delta.last_update_id <= venue[wire[f[i]].symbol].published
          /\ \A j \in f[i]..Len(wire) : wire[j].symbol = wire[f[i]].symbol =>
                wire[f[i]].delta.last_update_id <= wire[j].delta.last_update_id
      BY Zenon DEF WireOrdered
    <2>2. ASSUME NEW j \in i..Len(wire'), wire'[j].symbol = wire'[i].symbol
          PROVE  wire'[i].delta.last_update_id <= wire'[j].delta.last_update_id
      <3>1. j \in 1..Len(wire')
        BY <1>0
      <3> QED BY Zenon, <2>1, <2>2, <3>1
    <2>3. wire[f[i]].delta.last_update_id <= venue'[wire[f[i]].symbol].published
      <3>p. PICK p : p = venue[wire[f[i]].symbol].published
        BY Zenon
      <3>q. PICK q : q = venue'[wire[f[i]].symbol].published
        BY Zenon
      <3>r. PICK r : r = wire[f[i]].delta.last_update_id
        BY Zenon
      <3>1. r <= p /\ p <= q /\ r \in Nat /\ p \in Nat /\ q \in Nat
        BY Zenon, <1>0, <2>1, <3>p, <3>q, <3>r
      <3> QED BY <3>1, <3>q, <3>r
    <2> QED BY Zenon, <2>2, <2>3
  <1> QED BY Zenon, <1>1, <1>2

\* The same for a step that leaves the stream, or reads its next message.
LEMMA WireSame ==
    ASSUME DepthInv, DepthInv', WireOrdered, UNCHANGED wire,
           \A s \in Symbols : venue[s].published <= venue'[s].published
    PROVE  Flows /\ WireOrdered'
PROOF
  <1>f. PICK f : f = [i \in 1..Len(wire) |-> i]
    BY Zenon
  <1>1. \A i \in 1..Len(wire') : f[i] = i /\ f[i] \in 1..Len(wire)
    BY Zenon, <1>f
  <1>2. \A i \in 1..Len(wire') : \A j \in i..Len(wire') : f[j] \in f[i]..Len(wire)
    <2> SUFFICES ASSUME NEW i \in 1..Len(wire'), NEW j \in i..Len(wire')
                 PROVE  f[j] \in f[i]..Len(wire)
      BY Zenon
    <2>1. j \in 1..Len(wire')
      BY StreamTypes
    <2> QED BY Zenon, <1>1, <2>1
  <1> QED BY <1>1, <1>2, WireFlows

LEMMA WireTail ==
    ASSUME DepthInv, DepthInv', WireOrdered, wire # <<>>, wire' = Tail(wire),
           \A s \in Symbols : venue[s].published <= venue'[s].published
    PROVE  Flows /\ WireOrdered'
PROOF
  <1>0. /\ Len(wire) \in Nat /\ Len(wire') = Len(wire) - 1
        /\ \A i \in 1..Len(wire') : i + 1 \in 1..Len(wire) /\ wire'[i] = wire[i + 1]
    <2>1. wire \in Seq([symbol : Symbols, delta : Deltas])
      BY Zenon DEF DepthInv, CollectorTypeOK
    <2> QED BY <2>1, TailElements
  <1>f. PICK f : f = [i \in 1..Len(wire') |-> i + 1]
    BY Zenon
  <1>1. \A i \in 1..Len(wire') : f[i] = i + 1
    BY Zenon, <1>f
  <1>2. \A i \in 1..Len(wire') : \A j \in i..Len(wire') : f[j] \in f[i]..Len(wire)
    <2> SUFFICES ASSUME NEW i \in 1..Len(wire'), NEW j \in i..Len(wire')
                 PROVE  f[j] \in f[i]..Len(wire)
      BY Zenon
    <2>1. j \in 1..Len(wire') /\ j + 1 \in i + 1 .. Len(wire)
      BY <1>0
    <2> QED BY Zenon, <1>1, <2>1
  <1>3. \A i \in 1..Len(wire') : f[i] \in 1..Len(wire)
    BY Zenon, <1>0, <1>1
  <1>4. \A i \in 1..Len(wire') :
          /\ wire'[i].symbol = wire[f[i]].symbol
          /\ wire'[i].delta.last_update_id = wire[f[i]].delta.last_update_id
    BY Zenon, <1>0, <1>1
  <1> QED BY Zenon, <1>2, <1>3, <1>4, WireFlows

\* Steps of the exchange that leave the stream.
LEMMA UpdateReads ==
    ASSUME DepthInv, DepthInv', ReaderInv, NEW s \in Symbols, Update(s) PROVE ReaderInv'
PROOF
  <1>1. PICK move \in Moves[s][Now(s)] :
          venue' = [venue EXCEPT
              ![s].history = Append(@, [@[Len(@)] EXCEPT ![move.level] = move.quantity]),
              ![s].touched = @ \cup {move.level}]
    BY Zenon DEF Update
  <1>h. PICK h : h = venue[s].history
    BY Zenon
  <1>b. PICK b : b = [h[Len(h)] EXCEPT ![move.level] = move.quantity]
    BY Zenon
  <1>2. /\ h \in Seq(Quantities)
        /\ venue[s] \in [history : Seq(Quantities), published : Nat, touched : SUBSET Levels]
        /\ venue \in [Symbols -> [history : Seq(Quantities), published : Nat,
                                  touched : SUBSET Levels]]
        /\ \A r \in Symbols : venue[r].history \in Seq(Quantities)
        /\ \A r \in Symbols : venue[r].published \in Nat
    BY Zenon, <1>h DEF DepthInv, CollectorTypeOK
  <1>3. /\ venue'[s].history = Append(h, b) /\ venue'[s].published = venue[s].published
        /\ \A r \in Symbols : r # s => venue'[r] = venue[r]
    BY Zenon, <1>1, <1>2, <1>h, <1>b
  <1>4. Len(h) \in Nat /\ Len(Append(h, b)) = Len(h) + 1
        /\ \A k \in 1..Len(h) : Append(h, b)[k] = h[k]
    BY <1>2
  <1>5. HistoryGrows
    <2> SUFFICES ASSUME NEW r \in Symbols
                 PROVE  Extends(venue'[r].history, venue[r].history)
      BY Zenon DEF HistoryGrows
    <2>1. CASE r = s
      BY <1>3, <1>4, <1>h, <2>1 DEF Extends
    <2>2. CASE r # s
      BY <1>2, <1>3, <2>2 DEF Extends
    <2> QED BY Zenon, <2>1, <2>2
  <1>6. \A r \in Symbols : venue[r].published <= venue'[r].published
    <2>1. \A r \in Symbols : venue'[r].published = venue[r].published
      BY Zenon, <1>3
    <2> QED BY <1>2, <2>1
  <1>7. UNCHANGED <<futures, subscribed, requested, wire, phase, held, books, remaining, pending,
                    buffers, draining, records, journal, shown>>
    BY Zenon DEF Update, connectionVars
  <1>8. Flows /\ WireOrdered'
    BY Zenon, <1>6, <1>7, WireSame DEF ReaderInv
  <1>9. StreamKnown'
    BY Zenon, <1>7 DEF ReaderInv, StreamKnown, Waiting
  <1> QED BY Zenon, <1>5, <1>7, <1>8, <1>9, OutsideKeeps

\* A step that leaves the exchange's books leaves them for the readers.
LEMMA SameHistory ==
    ASSUME DepthInv, \A s \in Symbols : venue'[s].history = venue[s].history
    PROVE  HistoryGrows
PROOF
  <1>1. \A s \in Symbols : Len(venue[s].history) \in Nat
    BY DEF DepthInv, CollectorTypeOK
  <1> QED BY <1>1 DEF HistoryGrows, Extends

LEMMA SubscribeReads ==
    ASSUME DepthInv, DepthInv', ReaderInv, NEW s \in Symbols,
           HandleSubscribe(s) \/ AnswerSnapshot(s)
    PROVE  ReaderInv'
PROOF
  <1>1. /\ UNCHANGED <<futures, venue, wire, phase, held, books, remaining, pending, buffers>>
        /\ UNCHANGED <<draining, records, journal, shown>>
        /\ subscribed' \cup requested' \subseteq subscribed \cup requested
    BY Zenon DEF HandleSubscribe, AnswerSnapshot, connectionVars, exchangeVars
  <1>2. \A r \in Symbols : venue[r].published <= venue'[r].published
    BY <1>1, StreamTypes
  <1>3. Flows /\ WireOrdered'
    BY Zenon, <1>1, <1>2, WireSame DEF ReaderInv
  <1>4. HistoryGrows
    BY Zenon, <1>1, SameHistory
  <1>5. StreamKnown'
    BY Zenon, <1>1 DEF ReaderInv, StreamKnown, Waiting
  <1> QED BY Zenon, <1>1, <1>3, <1>4, <1>5, OutsideKeeps

\* The stream loses, repeats or garbles a delta.
LEMMA DisturbReads ==
    ASSUME DepthInv, DepthInv', ReaderInv, DisturbStream PROVE ReaderInv'
PROOF
  <1>u. /\ UNCHANGED <<futures, venue, subscribed, requested, phase, held, books, remaining>>
        /\ UNCHANGED <<pending, buffers, draining, records, journal, shown>>
    BY Zenon DEF DisturbStream, exchangeVars, connectionVars
  <1>m. PICK M : M = [symbol : Symbols, delta : Deltas]
    BY Zenon
  <1>w. wire \in Seq(M) /\ wire # <<>>
    BY Zenon, <1>m DEF DisturbStream, DepthInv, CollectorTypeOK
  <1>t. Head(wire) \in M /\ Head(wire) = wire[1] /\ 1 \in 1..Len(wire)
    BY Zenon, <1>w, TailElements
  <1>p. \A r \in Symbols : venue[r].published <= venue'[r].published
    BY <1>u, StreamTypes
  <1>1. Flows /\ WireOrdered' /\ StreamKnown'
    <2>o. WireOrdered /\ StreamKnown
      BY Zenon DEF ReaderInv
    <2>k. ASSUME \A i \in 1..Len(wire') : \E j \in 1..Len(wire) : wire'[i].symbol = wire[j].symbol
          PROVE  StreamKnown'
      <3>1. held' \cup Waiting' = held \cup Waiting
        BY Zenon, <1>u DEF Waiting
      <3>2. \A i \in 1..Len(wire') : wire'[i].symbol \in held \cup Waiting
        BY Zenon, <2>k, <2>o DEF StreamKnown
      <3> QED BY Zenon, <1>u, <2>o, <3>1, <3>2 DEF StreamKnown
    <2>1. CASE wire' = Tail(wire)
      <3>1. Flows /\ WireOrdered'
        BY Zenon, <1>p, <1>w, <2>o, <2>1, WireTail
      <3>2. \A i \in 1..Len(wire') : i + 1 \in 1..Len(wire) /\ wire'[i] = wire[i + 1]
        BY Zenon, <1>w, <2>1, TailElements
      <3>3. StreamKnown'
        BY Zenon, <2>k, <3>2
      <3> QED BY Zenon, <3>1, <3>3
    <2>2. CASE wire' = <<Head(wire)>> \o wire
      <3>1. /\ Len(wire') = Len(wire) + 1 /\ Len(wire) \in Nat
            /\ wire'[1] = wire[1]
            /\ \A i \in 2..Len(wire) + 1 : wire'[i] = wire[i - 1]
        BY <2>2, <1>w, <1>t
      <3>f. PICK f : f = [i \in 1..Len(wire') |-> IF i = 1 THEN 1 ELSE i - 1]
        BY Zenon
      <3>2. \A i \in 1..Len(wire') : f[i] = IF i = 1 THEN 1 ELSE i - 1
        BY Zenon, <3>f
      <3>3. \A i \in 1..Len(wire') : f[i] \in 1..Len(wire) /\ wire'[i] = wire[f[i]]
        BY <1>t, <3>1, <3>2
      <3>4. \A i \in 1..Len(wire') : \A j \in i..Len(wire') : f[j] \in f[i]..Len(wire)
        BY <1>t, <3>1, <3>2
      <3>5. Flows /\ WireOrdered'
        BY Zenon, <1>p, <2>o, <3>3, <3>4, WireFlows
      <3>6. StreamKnown'
        BY Zenon, <2>k, <3>3
      <3> QED BY Zenon, <3>5, <3>6
    <2>3. CASE \E sides \in (SUBSET {"bid", "ask"}) \ {{}} :
                  wire' = [wire EXCEPT ![1].delta.repeated = sides]
      <3>1. PICK sides \in (SUBSET {"bid", "ask"}) \ {{}} :
                  wire' = [wire EXCEPT ![1].delta.repeated = sides]
        BY Zenon, <2>3
      <3>2. /\ Len(wire') = Len(wire) /\ Len(wire) \in Nat
            /\ \A i \in 1..Len(wire) :
                  wire'[i] = IF i = 1 THEN [wire[1] EXCEPT !.delta.repeated = sides] ELSE wire[i]
        BY <1>t, <1>w, <3>1
      <3>3. ASSUME NEW i \in 1..Len(wire)
            PROVE  /\ wire'[i].symbol = wire[i].symbol
                   /\ wire'[i].delta.last_update_id = wire[i].delta.last_update_id
        <4>1. CASE i = 1
          <5>1. wire'[i] = [wire[1] EXCEPT !.delta.repeated = sides]
            BY Zenon, <3>2, <4>1
          <5>2. wire[1] \in M
            BY Zenon, <1>t
          <5> QED BY Zenon, <1>m, <4>1, <5>1, <5>2 DEF Deltas
        <4>2. CASE i # 1
          BY Zenon, <3>2, <4>2
        <4> QED BY Zenon, <4>1, <4>2
      <3>f. PICK f : f = [i \in 1..Len(wire') |-> i]
        BY Zenon
      <3>4. \A i \in 1..Len(wire') : f[i] = i /\ f[i] \in 1..Len(wire)
        BY Zenon, <3>f, <3>2
      <3>5. \A i \in 1..Len(wire') : \A j \in i..Len(wire') : f[j] \in f[i]..Len(wire)
        <4> SUFFICES ASSUME NEW i \in 1..Len(wire'), NEW j \in i..Len(wire')
                     PROVE  f[j] \in f[i]..Len(wire)
          BY Zenon
        <4>1. j \in 1..Len(wire')
          BY <3>2
        <4> QED BY Zenon, <3>2, <3>4, <4>1
      <3>6. \A i \in 1..Len(wire') :
              /\ wire'[i].symbol = wire[f[i]].symbol
              /\ wire'[i].delta.last_update_id = wire[f[i]].delta.last_update_id
        BY Zenon, <3>2, <3>3, <3>4
      <3>7. Flows /\ WireOrdered'
        BY Zenon, <1>p, <2>o, <3>4, <3>5, <3>6, WireFlows
      <3>8. StreamKnown'
        BY Zenon, <2>k, <3>2, <3>3
      <3> QED BY Zenon, <3>7, <3>8
    <2> QED BY Zenon, <2>1, <2>2, <2>3 DEF DisturbStream
  <1>2. HistoryGrows
    BY Zenon, <1>u, SameHistory
  <1> QED BY Zenon, <1>u, <1>1, <1>2, OutsideKeeps

\* A delta is published: it ends behind all before it.
LEMMA PublishReads ==
    ASSUME DepthInv, DepthInv', ReaderInv, NEW s \in Symbols, Publish(s) PROVE ReaderInv'
PROOF
  <1>n. PICK n : n = Len(venue[s].history)
    BY Zenon
  <1>u. /\ UNCHANGED <<futures, subscribed, requested, phase, held, books, remaining>>
        /\ UNCHANGED <<pending, buffers, draining, records, journal, shown>>
    BY Zenon DEF Publish, connectionVars
  <1>1. \/ wire' = wire
        \/ /\ s \in subscribed
           /\ \E delta : delta.last_update_id = n
                         /\ wire' = Append(wire, [symbol |-> s, delta |-> delta])
    BY Zenon, <1>n DEF Publish, Now
  <1>2. /\ \A r \in Symbols : venue'[r].history = venue[r].history
        /\ \A r \in Symbols : venue'[r].published = IF r = s THEN n ELSE venue[r].published
    BY Zenon, <1>n DEF Publish, Now, DepthInv, CollectorTypeOK
  <1>3. n \in Nat /\ venue[s].published <= n
    BY <1>n DEF DepthInv, VenueOK, CollectorTypeOK
  <1>4. \A r \in Symbols : venue[r].published <= venue'[r].published
    BY <1>2, <1>3, StreamTypes
  <1>o. WireOrdered /\ StreamKnown
    BY Zenon DEF ReaderInv
  <1>h. held' \cup Waiting' = held \cup Waiting
    BY Zenon, <1>u DEF Waiting
  <1>5. Flows /\ WireOrdered' /\ StreamKnown'
    <2>1. CASE wire' = wire
      <3>1. Flows /\ WireOrdered'
        BY Zenon, <1>4, <1>o, <2>1, WireSame
      <3>2. StreamKnown'
        BY Zenon, <1>h, <1>o, <1>u, <2>1 DEF StreamKnown
      <3> QED BY Zenon, <3>1, <3>2
    <2>2. ASSUME s \in subscribed, NEW delta, delta.last_update_id = n,
                 wire' = Append(wire, [symbol |-> s, delta |-> delta])
          PROVE  Flows /\ WireOrdered' /\ StreamKnown'
      <3>x. PICK x : x = [symbol |-> s, delta |-> delta]
        BY Zenon
      <3>s. x.symbol = s /\ x.delta.last_update_id = n
        BY Zenon, <2>2, <3>x
      <3>m. PICK m : m = Len(wire)
        BY Zenon
      <3>1. /\ m \in Nat /\ Len(wire') = m + 1
            /\ \A i \in 1..m : wire'[i] = wire[i]
            /\ wire'[m + 1] = x
        <4>1. wire \in Seq([symbol : Symbols, delta : Deltas]) /\ wire' = Append(wire, x)
          BY Zenon, <2>2, <3>x DEF DepthInv, CollectorTypeOK
        <4> QED BY <3>m, <4>1, AppendProperties, LenProperties
      <3>2. \A i \in 1..Len(wire') : i \in 1..m \/ i = m + 1
        BY <3>1
      <3>t. /\ \A i \in 1..m : wire[i].symbol \in Symbols /\ wire[i].delta.last_update_id \in Nat
            /\ \A r \in Symbols : venue[r].published \in Nat /\ venue'[r].published \in Nat
        BY Zenon, <3>m, StreamTypes
      <3>3. Flows
        <4> SUFFICES ASSUME NEW r \in Symbols, NEW k \in Nat, Passed(r, k) PROVE Passed(r, k)'
          BY Zenon DEF Flows
        <4>p. k <= venue[r].published
          BY Zenon DEF Passed
        <4>1. k <= venue'[r].published
          BY <1>4, <3>t, <4>p
        <4>2. ASSUME NEW j \in 1..Len(wire'), wire'[j].symbol = r
              PROVE  k <= wire'[j].delta.last_update_id
          <5>1. CASE j \in 1..m
            BY Zenon, <3>1, <3>m, <4>2, <5>1 DEF Passed
          <5>2. CASE j = m + 1
            <6>1. r = s /\ wire'[j].delta.last_update_id = n
              BY Zenon, <3>1, <3>s, <4>2, <5>2
            <6> QED BY <1>3, <3>t, <4>p, <6>1
          <5> QED BY Zenon, <3>2, <5>1, <5>2
        <4> QED BY Zenon, <4>1, <4>2 DEF Passed
      <3>4. WireOrdered'
        <4> SUFFICES ASSUME NEW i \in 1..Len(wire')
                     PROVE  /\ wire'[i].delta.last_update_id <= venue'[wire'[i].symbol].published
                            /\ \A j \in i..Len(wire') : wire'[j].symbol = wire'[i].symbol =>
                                  wire'[i].delta.last_update_id <= wire'[j].delta.last_update_id
          BY Zenon DEF WireOrdered
        <4>1. CASE i = m + 1
          <5>1. \A j \in i..Len(wire') : j = i
            BY <3>1, <4>1
          <5>2. wire'[i].symbol = s /\ wire'[i].delta.last_update_id = n
            BY Zenon, <3>1, <3>s, <4>1
          <5>3. venue'[s].published = n /\ n <= n
            BY <1>2, <1>3
          <5> QED BY Zenon, <5>1, <5>2, <5>3
        <4>2. CASE i \in 1..m
          <5>a. PICK a : a = wire[i].delta.last_update_id
            BY Zenon
          <5>r. PICK r : r = wire[i].symbol
            BY Zenon
          <5>0. wire'[i].symbol = r /\ wire'[i].delta.last_update_id = a /\ r \in Symbols /\ a \in Nat
            BY Zenon, <3>1, <3>t, <4>2, <5>a, <5>r
          <5>1. /\ a <= venue[r].published
                /\ \A j \in i..m : wire[j].symbol = r => a <= wire[j].delta.last_update_id
            BY Zenon, <1>o, <3>m, <4>2, <5>a, <5>r DEF WireOrdered
          <5>2. a <= venue'[r].published
            BY <1>4, <3>t, <5>0, <5>1
          <5>3. ASSUME NEW j \in i..Len(wire'), wire'[j].symbol = r
                PROVE  a <= wire'[j].delta.last_update_id
            <6>1. CASE j = m + 1
              <7>1. r = s /\ wire'[j].delta.last_update_id = n
                BY Zenon, <3>1, <3>s, <5>3, <6>1
              <7> QED BY <1>3, <3>t, <5>0, <5>1, <7>1
            <6>2. CASE j # m + 1
              <7>1. j \in i..m /\ j \in 1..m
                BY <3>1, <4>2, <6>2
              <7> QED BY Zenon, <3>1, <5>1, <5>3, <7>1
            <6> QED BY Zenon, <6>1, <6>2
          <5> QED BY Zenon, <5>0, <5>2, <5>3
        <4> QED BY Zenon, <3>2, <4>1, <4>2
      <3>5. StreamKnown'
        <4>1. \A i \in 1..Len(wire') : wire'[i].symbol \in held \cup Waiting
          BY Zenon, <1>o, <2>2, <3>1, <3>2, <3>m, <3>s DEF StreamKnown
        <4> QED BY Zenon, <1>h, <1>o, <1>u, <4>1 DEF StreamKnown
      <3> QED BY Zenon, <3>3, <3>4, <3>5
    <2> QED BY Zenon, <1>1, <2>1, <2>2
  <1>6. HistoryGrows
    BY Zenon, <1>2, SameHistory
  <1> QED BY Zenon, <1>5, <1>6, <1>u, OutsideKeeps

-----------------------------------------------------------------------------
(* Writes of the journal.                                                   *)

LEMMA RestoresOne ==
    ASSUME NEW stored, NEW f, NEW book, NEW other,
           Restores(stored, f, book), Restores(stored, f, other)
    PROVE  book = other
PROOF
  <1>1. [ok |-> TRUE, book |-> book] = [ok |-> TRUE, book |-> other]
    BY Zenon DEF Restores
  <1>2. [ok |-> TRUE, book |-> book].book = book /\ [ok |-> TRUE, book |-> other].book = other
    BY Zenon
  <1> QED BY Zenon, <1>1, <1>2

\* What the reader is given of the rows of one symbol.
LEMMA ReadLive ==
    ASSUME NEW stored, NEW book, stored.status = "LIVE", Restores(stored, futures, book)
    PROVE  ReadLocalDepth(stored).ok = TRUE /\ ReadLocalDepth(stored).book = book
PROOF
  <1>1. ReadLocalDepth(stored) = [ok |-> TRUE, book |-> book]
    BY Zenon DEF Restores, ReadLocalDepth, Offered
  <1>2. [ok |-> TRUE, book |-> book].ok = TRUE /\ [ok |-> TRUE, book |-> book].book = book
    BY Zenon
  <1> QED BY Zenon, <1>1, <1>2

LEMMA ReadOther ==
    ASSUME NEW stored, stored.status # "LIVE" PROVE ReadLocalDepth(stored).ok = FALSE
BY Zenon DEF ReadLocalDepth, Offered

\* A write whose live heads restore books the exchange had, none older than one
\* shown before, keeps the readers' properties.
LEMMA WriteShows ==
    ASSUME NEW rows, NEW all \in Journals, all = Written(journal, rows), Write(rows),
           UNCHANGED <<futures, venue>>, DepthInv, shown \in [Symbols -> Nat],
           \A s \in Symbols : all[s].status = "LIVE" =>
              \E book : /\ Restores(all[s], futures, book)
                        /\ Shows(book, venue[s].history)
                        /\ shown[s] <= book.last_update_id
    PROVE  /\ journal' = all /\ shown' \in [Symbols -> Nat] /\ JournalTrue'
           /\ \A s \in Symbols : all[s].status # "LIVE" => shown'[s] = shown[s]
           /\ \A s \in Symbols : all[s].status = "LIVE" =>
                 \E book : Restores(all[s], futures, book) /\ shown'[s] = book.last_update_id
PROOF
  <1>1. journal' = all
    BY Zenon DEF Write
  <1>2. \A s \in Symbols :
          LET read == ReadLocalDepth(all[s])
          IN  shown'[s] = IF read.ok /\ read.book.last_update_id > shown[s]
                          THEN read.book.last_update_id ELSE shown[s]
    BY Zenon, <1>1 DEF Write
  <1>d. shown' = [s \in Symbols |-> shown'[s]]
    BY Zenon DEF Write
  <1>3. ASSUME NEW s \in Symbols, all[s].status # "LIVE" PROVE shown'[s] = shown[s]
    BY Zenon, <1>2, <1>3, ReadOther
  <1>4. ASSUME NEW s \in Symbols, all[s].status = "LIVE"
        PROVE  \E book : /\ Restores(all[s], futures, book)
                         /\ Shows(book, venue[s].history)
                         /\ shown'[s] = book.last_update_id /\ shown'[s] \in Nat
    <2>1. PICK book : /\ Restores(all[s], futures, book)
                      /\ Shows(book, venue[s].history)
                      /\ shown[s] <= book.last_update_id
      BY Zenon, <1>4
    <2>r. PICK read : read = ReadLocalDepth(all[s])
      BY Zenon
    <2>2. read.ok = TRUE /\ read.book = book
      BY Zenon, <1>4, <2>1, <2>r, ReadLive
    <2>3. book.last_update_id \in Nat /\ shown[s] \in Nat
      <3>1. Len(venue[s].history) \in Nat
        BY DEF DepthInv, CollectorTypeOK
      <3> QED BY <2>1, <3>1 DEF Shows
    <2>4. shown'[s] = IF book.last_update_id > shown[s] THEN book.last_update_id ELSE shown[s]
      BY Zenon, <1>2, <2>2, <2>r
    <2>5. shown'[s] = book.last_update_id
      BY <2>1, <2>3, <2>4
    <2> QED BY Zenon, <2>1, <2>3, <2>5
  <1>5. \A s \in Symbols : shown'[s] \in Nat
    BY Zenon, <1>3, <1>4
  <1>6. shown' \in [Symbols -> Nat]
    BY Zenon, <1>d, <1>5
  <1>7. JournalTrue'
    BY Zenon, <1>1, <1>4 DEF JournalTrue
  <1> QED BY Zenon, <1>1, <1>3, <1>4, <1>6, <1>7

\* A batch of the collector, with or without the gap of a resync behind it.
LEMMA BatchWritten ==
    ASSUME DepthInv, ReaderInv, Connected, UNCHANGED <<futures, venue>>,
           NEW rows, NEW all \in Journals, all = Written(journal, rows), Write(rows),
           \A s \in Symbols : all[s].status = "LIVE" => all[s] = Ahead[s]
    PROVE  /\ journal' = all /\ shown' \in [Symbols -> Nat] /\ JournalTrue'
           /\ \A s \in Symbols : all[s].status # "LIVE" => shown'[s] = shown[s]
           /\ \A s \in Symbols : all[s].status = "LIVE" => shown'[s] = books[s].last_update_id
           /\ \A s \in Symbols : Passed(s, shown'[s])
PROOF
  <1>0. shown \in [Symbols -> Nat]
    BY Zenon DEF ReaderInv, RecordsTyped
  <1>1. ASSUME NEW s \in Symbols, all[s].status = "LIVE"
        PROVE  /\ Restores(all[s], futures, books[s])
               /\ Shows(books[s], venue[s].history)
               /\ shown[s] <= books[s].last_update_id
               /\ Passed(s, books[s].last_update_id)
    <2>1. Ahead[s] = all[s] /\ Ahead[s].status = "LIVE"
      BY Zenon, <1>1
    <2>2. Built(s)
      BY Zenon, <2>1 DEF ReaderInv, BuiltTrue
    <2>3. Restores(all[s], futures, books[s]) /\ books[s].state = "LIVE"
      BY Zenon, <2>1, <2>2 DEF ReaderInv, BuiltTrue
    <2>4. Shows(books[s], venue[s].history)
      BY Zenon, <2>2, <2>3 DEF DepthInv, BooksTrue, Built
    <2> QED BY Zenon, <2>1, <2>3, <2>4 DEF ReaderInv, BooksPassed, BookPassed
  <1>2. \A s \in Symbols : all[s].status = "LIVE" =>
           \E book : /\ Restores(all[s], futures, book)
                     /\ Shows(book, venue[s].history)
                     /\ shown[s] <= book.last_update_id
    BY Zenon, <1>1
  <1>3. /\ journal' = all /\ shown' \in [Symbols -> Nat] /\ JournalTrue'
        /\ \A s \in Symbols : all[s].status # "LIVE" => shown'[s] = shown[s]
        /\ \A s \in Symbols : all[s].status = "LIVE" =>
              \E book : Restores(all[s], futures, book) /\ shown'[s] = book.last_update_id
    BY Zenon, <1>0, <1>2, WriteShows
  <1>4. \A s \in Symbols : all[s].status = "LIVE" => shown'[s] = books[s].last_update_id
    BY Zenon, <1>1, <1>3, RestoresOne
  <1>5. \A s \in Symbols : Passed(s, shown'[s])
    BY Zenon, <1>1, <1>3, <1>4 DEF ReaderInv, ShownPassed
  <1> QED BY Zenon, <1>3, <1>4, <1>5

\* The gaps of a start, a failure or a close.
LEMMA GapsShow ==
    ASSUME DepthInv, ReaderInv, UNCHANGED <<futures, venue>>, Write(Gaps)
    PROVE  /\ journal' \in Journals /\ shown' \in [Symbols -> Nat] /\ JournalTrue'
           /\ \A s \in Symbols : journal'[s].status # "LIVE" /\ shown'[s] = shown[s]
PROOF
  <1>1. journal \in Journals /\ shown \in [Symbols -> Nat]
    BY Zenon DEF ReaderInv, RecordsTyped
  <1>a. PICK all : all = Written(journal, Gaps)
    BY Zenon
  <1>2. all \in Journals /\ \A s \in Symbols : all[s].status = "GAP"
    BY Zenon, <1>1, <1>a, GapsWritten
  <1>3. \A s \in Symbols : all[s].status # "LIVE"
    BY Zenon, <1>2
  <1>4. /\ journal' = all /\ shown' \in [Symbols -> Nat] /\ JournalTrue'
        /\ \A s \in Symbols : all[s].status # "LIVE" => shown'[s] = shown[s]
    BY Zenon, <1>1, <1>2, <1>3, <1>a, WriteShows
  <1> QED BY Zenon, <1>2, <1>3, <1>4

-----------------------------------------------------------------------------
(* The supervisor.                                                          *)

\* A step that leaves everything readers and books depend on.
LEMMA QuietReads ==
    ASSUME ReaderInv, Connected' <=> Connected,
           UNCHANGED <<exchangeVars, wire, connectionVars, records, journal, shown>>
    PROVE  ReaderInv'
PROOF
  <1>u. /\ UNCHANGED <<futures, venue, subscribed, requested, wire, held, books, remaining>>
        /\ UNCHANGED <<pending, answer, buffers, draining, records, journal, shown>>
    BY Zenon DEF exchangeVars, connectionVars
  <1>1. RecordsTyped' /\ Ahead' = Ahead
    BY Zenon, <1>u DEF ReaderInv, RecordsTyped, Ahead
  <1>2. JournalTrue'
    BY Zenon, <1>u DEF ReaderInv, JournalTrue
  <1>3. Idle'
    BY Zenon, <1>u DEF ReaderInv, Idle
  <1>4. QueueTrue' /\ StreamKnown'
    <2>1. Waiting' = Waiting
      BY Zenon, <1>u DEF Waiting
    <2>2. QueueTrue'
      BY Zenon, <1>u, <2>1 DEF ReaderInv, QueueTrue
    <2>3. StreamKnown'
      BY Zenon, <1>u, <2>1 DEF ReaderInv, StreamKnown
    <2> QED BY Zenon, <2>2, <2>3
  <1>5. BuiltTrue'
    BY Zenon, <1>u, <1>1 DEF ReaderInv, BuiltTrue, Built
  <1>6. WireOrdered' /\ ShownPassed'
    BY Zenon, <1>u DEF ReaderInv, WireOrdered, ShownPassed, Passed
  <1>7. BuffersOrdered'
    BY Zenon, <1>u DEF ReaderInv, BuffersOrdered, Passed
  <1>8. BooksPassed'
    BY Zenon, <1>u, <1>1 DEF ReaderInv, BooksPassed, BookPassed, Passed
  <1> QED BY Zenon, <1>1, <1>2, <1>3, <1>4, <1>5, <1>6, <1>7, <1>8 DEF ReaderInv

\* Writes between two connections.
LEMMA BetweenReads ==
    ASSUME DepthInv, ReaderInv, ~Connected, ~Connected',
           UNCHANGED <<exchangeVars, wire, connectionVars, records>>,
           Write(Gaps) \/ UNCHANGED <<journal, shown>>
    PROVE  ReaderInv'
PROOF
  <1>u. /\ UNCHANGED <<futures, venue, subscribed, requested, wire, held, books, remaining>>
        /\ UNCHANGED <<pending, answer, buffers, draining, records>>
    BY Zenon DEF exchangeVars, connectionVars
  <1>i. records = <<>> /\ held = {} /\ remaining = <<>> /\ pending = NoSymbol
    BY Zenon DEF ReaderInv, Idle
  <1>1. CASE UNCHANGED <<journal, shown>>
    <2>1. Connected' <=> Connected
      BY Zenon
    <2> QED BY Zenon, <1>1, <2>1, QuietReads
  <1>2. CASE Write(Gaps)
    <2>1. /\ journal' \in Journals /\ shown' \in [Symbols -> Nat] /\ JournalTrue'
          /\ \A s \in Symbols : journal'[s].status # "LIVE" /\ shown'[s] = shown[s]
      BY Zenon, <1>2, <1>u, GapsShow
    <2>2. RecordsTyped'
      <3>1. Ahead' = journal'
        BY Zenon, <1>i, <1>u, WrittenNone DEF Ahead
      <3> QED BY Zenon, <1>u, <2>1, <3>1 DEF ReaderInv, RecordsTyped
    <2>3. Idle'
      BY Zenon, <1>i, <1>u DEF Idle
    <2>4. QueueTrue' /\ StreamKnown'
      <3>1. Waiting' = Waiting
        BY Zenon, <1>u DEF Waiting
      <3>2. QueueTrue'
        BY Zenon, <1>u, <3>1 DEF ReaderInv, QueueTrue
      <3>3. StreamKnown'
        BY Zenon, <1>u, <3>1 DEF ReaderInv, StreamKnown
      <3> QED BY Zenon, <3>2, <3>3
    <2>5. BuiltTrue' /\ BooksPassed'
      BY Zenon DEF BuiltTrue, BooksPassed
    <2>6. WireOrdered' /\ ShownPassed'
      BY Zenon, <1>u, <2>1 DEF ReaderInv, WireOrdered, ShownPassed, Passed
    <2>7. BuffersOrdered'
      <3>1. buffers = <<>>
        BY Zenon, <1>i, DepthAssumption DEF DepthInv, BuffersTrue
      <3>2. 1..Len(buffers') = {}
        BY <1>u, <3>1
      <3> QED BY Zenon, <3>2 DEF BuffersOrdered
    <2> QED BY Zenon, <2>1, <2>2, <2>3, <2>4, <2>5, <2>6, <2>7 DEF ReaderInv
  <1> QED BY Zenon, <1>1, <1>2

\* The connection is gone, with what was not written.
LEMMA GoneReads ==
    ASSUME DepthInv, ReaderInv, NoConnection, UNCHANGED <<futures, venue>>, ~Connected',
           records' = <<>>, journal' \in Journals, shown' \in [Symbols -> Nat], JournalTrue',
           \A s \in Symbols : Passed(s, shown'[s])
    PROVE  ReaderInv'
PROOF
  <1>1. RecordsTyped'
    <2>1. Ahead' = journal'
      BY Zenon, WrittenNone DEF Ahead
    <2>2. <<>> \in Seq(Rows)
      OBVIOUS
    <2> QED BY Zenon, <2>1, <2>2 DEF RecordsTyped
  <1>2. 1..Len(<<>>) = {}
    OBVIOUS
  <1>3. Idle' /\ BuiltTrue' /\ BooksPassed'
    BY Zenon DEF NoConnection, Idle, BuiltTrue, BooksPassed
  <1>4. QueueTrue'
    BY Zenon, <1>2 DEF NoConnection, QueueTrue, Waiting
  <1>5. WireOrdered' /\ BuffersOrdered'
    BY Zenon, <1>2 DEF NoConnection, WireOrdered, BuffersOrdered
  <1>6. ShownPassed'
    BY Zenon, <1>2 DEF NoConnection, ShownPassed, Passed
  <1>7. StreamKnown'
    BY Zenon, <1>2 DEF NoConnection, StreamKnown
  <1> QED BY Zenon, <1>1, <1>3, <1>4, <1>5, <1>6, <1>7 DEF ReaderInv

\* The steps of _supervise, start and close that write gaps or nothing.
LEMMA SupervisorReads ==
    ASSUME DepthInv, ReaderInv, Start \/ WriteGaps \/ Close \/ EndSession PROVE ReaderInv'
PROOF
  <1>1. CASE Start \/ WriteGaps \/ Close
    <2>1. /\ ~Connected /\ ~Connected'
          /\ UNCHANGED <<exchangeVars, wire, connectionVars, records>>
          /\ Write(Gaps) \/ UNCHANGED <<journal, shown>>
      BY <1>1 DEF Start, WriteGaps, Close, Connected
    <2> QED BY Zenon, <2>1, BetweenReads
  <1>2. CASE EndSession
    <2>1. Connected /\ Connected'
          /\ UNCHANGED <<exchangeVars, wire, connectionVars, records, journal, shown>>
      BY <1>2 DEF EndSession, Connected
    <2> QED BY Zenon, <2>1, QuietReads
  <1> QED BY Zenon, <1>1, <1>2

\* A new connection: every symbol of the group waits, no head is live.
LEMMA ConnectReads == ASSUME DepthInv, ReaderInv, Connect PROVE ReaderInv'
PROOF
  <1>u. /\ UNCHANGED <<futures, venue, subscribed, requested, wire, held, books>>
        /\ UNCHANGED <<pending, answer, buffers, draining, records>>
    BY Zenon DEF Connect, exchangeVars
  <1>c. ~Connected
    BY DEF Connect, Connected
  <1>i. records = <<>> /\ held = {} /\ remaining = <<>> /\ pending = NoSymbol
    BY Zenon, <1>c DEF ReaderInv, Idle
  <1>1. CASE phase' = "failed" /\ UNCHANGED <<remaining, journal, shown>>
    <2>1. ~Connected'
      BY <1>1 DEF Connected
    <2>2. UNCHANGED <<exchangeVars, wire, connectionVars, records>>
      BY Zenon, <1>1, <1>u DEF exchangeVars, connectionVars
    <2> QED BY Zenon, <1>1, <1>c, <2>1, <2>2, BetweenReads
  <1>2. CASE Write(Gaps) /\ phase' = "collecting" /\ remaining' = Group
    <2>1. /\ journal' \in Journals /\ shown' \in [Symbols -> Nat] /\ JournalTrue'
          /\ \A s \in Symbols : journal'[s].status # "LIVE" /\ shown'[s] = shown[s]
      BY Zenon, <1>2, <1>u, GapsShow
    <2>a. Ahead' = journal'
      BY Zenon, <1>i, <1>u, WrittenNone DEF Ahead
    <2>2. RecordsTyped'
      BY Zenon, <1>u, <2>1, <2>a DEF ReaderInv, RecordsTyped
    <2>3. Idle'
      BY Zenon, <1>2 DEF Idle, Connected
    <2>g. 1..Len(Group) = DOMAIN Group
      BY DepthAssumption
    <2>w. Waiting' = Symbols
      BY Zenon, <1>2, <2>g DEF Waiting, Symbols
    <2>4. QueueTrue'
      <3>1. \A i, j \in 1..Len(remaining') : remaining'[i] = remaining'[j] => i = j
        BY Zenon, <1>2, <2>g, DepthAssumption
      <3> QED BY Zenon, <1>i, <1>u, <3>1 DEF QueueTrue
    <2>5. StreamKnown'
      <3>1. subscribed \subseteq Symbols /\ requested \subseteq Symbols
        BY Zenon DEF DepthInv, CollectorTypeOK
      <3>2. \A i \in 1..Len(wire) : wire[i].symbol \in Symbols
        <4>1. /\ wire \in Seq([symbol : Symbols, delta : Deltas])
              /\ venue \in [Symbols -> [history : Seq(Quantities), published : Nat,
                                        touched : SUBSET Levels]]
          BY Zenon DEF DepthInv, CollectorTypeOK
        <4> QED BY Zenon, <4>1, StreamTyped
      <3> QED BY Zenon, <1>u, <2>w, <3>1, <3>2 DEF StreamKnown
    <2>6. BuiltTrue' /\ BooksPassed'
      BY Zenon, <1>i, <1>u, <2>1, <2>a DEF BuiltTrue, BooksPassed, Built
    <2>7. WireOrdered' /\ ShownPassed'
      BY Zenon, <1>u, <2>1 DEF ReaderInv, WireOrdered, ShownPassed, Passed
    <2>8. BuffersOrdered'
      <3>1. buffers = <<>>
        BY Zenon, <1>i, DepthAssumption DEF DepthInv, BuffersTrue
      <3>2. 1..Len(buffers') = {}
        BY <1>u, <3>1
      <3> QED BY Zenon, <3>2 DEF BuffersOrdered
    <2> QED BY Zenon, <2>1, <2>2, <2>3, <2>4, <2>5, <2>6, <2>7, <2>8 DEF ReaderInv
  <1> QED BY Zenon, <1>1, <1>2 DEF Connect

\* The finally clause of _connection, and a death.
LEMMA EndReads == ASSUME DepthInv, ReaderInv, Unwind \/ Die PROVE ReaderInv'
PROOF
  <1>1. NoConnection /\ UNCHANGED <<futures, venue>> /\ records' = <<>> /\ ~Connected'
    BY DEF Unwind, Die, Connected
  <1>2. CASE UNCHANGED <<journal, shown>>
    <2>1. journal' \in Journals /\ shown' \in [Symbols -> Nat] /\ JournalTrue'
      BY Zenon, <1>1, <1>2 DEF ReaderInv, RecordsTyped, JournalTrue
    <2>2. \A s \in Symbols : Passed(s, shown'[s])
      BY Zenon, <1>2 DEF ReaderInv, ShownPassed
    <2> QED BY Zenon, <1>1, <2>1, <2>2, GoneReads
  <1>3. CASE Unwind /\ Write(records)
    <2>1. Connected
      BY Zenon, <1>3 DEF Unwind, Connected
    <2>2. Ahead \in Journals /\ Ahead = Written(journal, records)
      BY Zenon DEF ReaderInv, RecordsTyped, Ahead
    <2>3. /\ journal' = Ahead /\ shown' \in [Symbols -> Nat] /\ JournalTrue'
          /\ \A s \in Symbols : Passed(s, shown'[s])
      BY Zenon, <1>1, <1>3, <2>1, <2>2, BatchWritten
    <2> QED BY Zenon, <1>1, <2>2, <2>3, GoneReads
  <1> QED BY Zenon, <1>2, <1>3 DEF Unwind, Die

\* The batch is written, or the write fails and the session ends.
LEMMA FlushReads == ASSUME DepthInv, ReaderInv, Flush PROVE ReaderInv'
PROOF
  <1>c. Connected
    BY DEF Flush, Connected
  <1>u. /\ UNCHANGED <<futures, venue, subscribed, requested, wire, held, books, remaining>>
        /\ UNCHANGED <<pending, answer, buffers, draining>>
    BY Zenon DEF Flush, exchangeVars, connectionVars
  <1>1. CASE Raise /\ UNCHANGED records
    <2>1. Connected'
      BY <1>1 DEF Raise, Connected
    <2>2. UNCHANGED <<exchangeVars, wire, connectionVars, records, journal, shown>>
      BY Zenon, <1>1, <1>u DEF Raise, exchangeVars, connectionVars
    <2> QED BY Zenon, <1>c, <2>1, <2>2, QuietReads
  <1>2. CASE Write(records) /\ records' = <<>> /\ UNCHANGED phase
    <2>1. Ahead \in Journals /\ Ahead = Written(journal, records)
      BY Zenon DEF ReaderInv, RecordsTyped, Ahead
    <2>2. /\ journal' = Ahead /\ shown' \in [Symbols -> Nat] /\ JournalTrue'
          /\ \A s \in Symbols : Ahead[s].status # "LIVE" => shown'[s] = shown[s]
          /\ \A s \in Symbols : Ahead[s].status = "LIVE" => shown'[s] = books[s].last_update_id
          /\ \A s \in Symbols : Passed(s, shown'[s])
      BY Zenon, <1>2, <1>c, <1>u, <2>1, BatchWritten
    <2>a. Ahead' = Ahead
      BY Zenon, <1>2, <2>2, WrittenNone DEF Ahead
    <2>3. RecordsTyped'
      <3>1. <<>> \in Seq(Rows)
        OBVIOUS
      <3> QED BY Zenon, <1>2, <2>1, <2>2, <2>a, <3>1 DEF RecordsTyped
    <2>4. Idle'
      BY Zenon, <1>2, <1>c DEF Idle, Connected
    <2>5. QueueTrue' /\ StreamKnown'
      <3>1. Waiting' = Waiting
        BY Zenon, <1>u DEF Waiting
      <3>2. QueueTrue'
        BY Zenon, <1>u, <3>1 DEF ReaderInv, QueueTrue
      <3>3. StreamKnown'
        BY Zenon, <1>u, <3>1 DEF ReaderInv, StreamKnown
      <3> QED BY Zenon, <3>2, <3>3
    <2>6. BuiltTrue'
      BY Zenon, <1>c, <1>u, <2>a DEF ReaderInv, BuiltTrue, Built
    <2>7. WireOrdered' /\ ShownPassed'
      BY Zenon, <1>u, <2>2 DEF ReaderInv, WireOrdered, ShownPassed, Passed
    <2>8. BuffersOrdered'
      <3>1. \A i \in 1..Len(buffers) : pending \in Symbols
        <4>1. \A i \in 1..Len(buffers) : buffers # <<>>
          BY DEF DepthInv, CollectorTypeOK
        <4> QED BY Zenon, <4>1 DEF DepthInv, BuffersTrue
      <3>2. \A i \in 1..Len(buffers) : shown'[pending] <= buffers[i].last_update_id
        BY Zenon, <1>c, <2>2, <3>1 DEF ReaderInv, BuffersOrdered, BooksPassed, BookPassed
      <3> QED BY Zenon, <1>u, <3>2 DEF ReaderInv, BuffersOrdered, Passed
    <2>9. BooksPassed'
      <3>1. ASSUME NEW s \in Symbols, Ahead[s].status = "LIVE" PROVE BookPassed(s)'
        <4>1. shown'[s] = books[s].last_update_id /\ BookPassed(s) /\ books[s].last_update_id \in Nat
          BY Zenon, <1>c, <2>2, <3>1 DEF ReaderInv, BooksPassed, DepthInv, CollectorTypeOK, Books
        <4>2. books[s].last_update_id <= books[s].last_update_id
          BY <4>1
        <4> QED BY Zenon, <1>u, <4>1, <4>2 DEF BookPassed, Passed
      <3> QED BY Zenon, <2>a, <3>1 DEF BooksPassed
    <2> QED BY Zenon, <2>2, <2>3, <2>4, <2>5, <2>6, <2>7, <2>8, <2>9 DEF ReaderInv
  <1> QED BY Zenon, <1>1, <1>2 DEF Flush

-----------------------------------------------------------------------------
(* The collector's connection.                                              *)

\* The bootstrap stays as it is, ends, or goes on to its next buffered delta.
Moved ==
    \/ UNCHANGED <<pending, buffers, draining>>
    \/ draining /\ (BootstrapDone \/ (buffers' = Tail(buffers) /\ UNCHANGED <<pending, draining>>))

LEMMA MovedKeeps ==
    ASSUME DepthInv, ReaderInv, Moved
    PROVE  /\ held' = held => \A s \in Symbols : Built(s)' <=> Built(s)
           /\ pending' = NoSymbol \/ (pending' = pending /\ draining' = draining)
           /\ \A n : \A s \in Symbols :
                 (s = pending => \A j \in 1..Len(buffers) : n <= buffers[j].last_update_id)
                 => (s = pending' =>
                        \A j \in 1..Len(buffers') : n <= buffers'[j].last_update_id)
           /\ Flows /\ (\A s \in Symbols : shown'[s] = shown[s]) => BuffersOrdered'
PROOF
  <1>b. buffers \in Seq(Deltas) /\ (draining => pending \in Symbols /\ buffers # <<>>)
    BY Zenon DEF DepthInv, CollectorTypeOK, DrainingTrue, BuffersTrue
  <1>l. Len(buffers) \in Nat
    BY <1>b
  <1>p. draining => pending \in held /\ pending # NoSymbol
    BY Zenon, <1>b, DepthAssumption DEF ReaderInv, QueueTrue
  <1>o. BuffersOrdered
    BY Zenon DEF ReaderInv
  <1>n. ASSUME NEW i \in 1..Len(buffers)
        PROVE  pending \in Symbols /\ buffers[i].last_update_id \in Nat
    <2>1. buffers # <<>> /\ buffers[i] \in Deltas
      BY <1>b
    <2> QED BY Zenon, <2>1 DEF DepthInv, BuffersTrue, Deltas
  <1>1. CASE UNCHANGED <<pending, buffers, draining>>
    <2>1. held' = held => \A s \in Symbols : Built(s)' <=> Built(s)
      BY Zenon, <1>1 DEF Built
    <2>2. Flows /\ (\A s \in Symbols : shown'[s] = shown[s]) => BuffersOrdered'
      BY Zenon, <1>1, <1>n, <1>o DEF BuffersOrdered, Flows
    <2> QED BY Zenon, <1>1, <2>1, <2>2
  <1>2. CASE draining /\ BootstrapDone
    <2>0. pending' = NoSymbol /\ buffers' = <<>> /\ 1..Len(buffers') = {}
      BY <1>2 DEF BootstrapDone
    <2>1. held' = held => \A s \in Symbols : Built(s)' <=> Built(s)
      BY Zenon, <1>2, <2>0, <1>p, DepthAssumption DEF Built
    <2>2. BuffersOrdered'
      BY Zenon, <2>0 DEF BuffersOrdered
    <2> QED BY Zenon, <2>0, <2>1, <2>2
  <1>3. CASE draining /\ buffers' = Tail(buffers) /\ UNCHANGED <<pending, draining>>
    <2>0. \A i \in 1..Len(buffers') : i + 1 \in 1..Len(buffers) /\ buffers'[i] = buffers[i + 1]
      BY Zenon, <1>3, <1>b, TailElements
    <2>1. held' = held => \A s \in Symbols : Built(s)' <=> Built(s)
      BY Zenon, <1>3 DEF Built
    <2>2. ASSUME Flows, \A s \in Symbols : shown'[s] = shown[s] PROVE BuffersOrdered'
      <3> SUFFICES ASSUME NEW i \in 1..Len(buffers')
                   PROVE  /\ shown'[pending] <= buffers'[i].last_update_id
                          /\ \A n : n = buffers'[i].last_update_id => Passed(pending, n)'
                          /\ \A j \in i..Len(buffers') :
                                buffers'[i].last_update_id <= buffers'[j].last_update_id
        BY Zenon, <1>3 DEF BuffersOrdered
      <3>1. i + 1 \in 1..Len(buffers) /\ buffers'[i] = buffers[i + 1]
        BY Zenon, <2>0
      <3>2. /\ shown[pending] <= buffers'[i].last_update_id
            /\ Passed(pending, buffers'[i].last_update_id)
            /\ \A j \in i + 1 .. Len(buffers) :
                  buffers'[i].last_update_id <= buffers[j].last_update_id
            /\ pending \in Symbols /\ buffers'[i].last_update_id \in Nat
        BY Zenon, <1>n, <1>o, <3>1 DEF BuffersOrdered
      <3>3. ASSUME NEW j \in i..Len(buffers')
            PROVE  buffers'[i].last_update_id <= buffers'[j].last_update_id
        <4>1. j \in 1..Len(buffers') /\ j + 1 \in i + 1 .. Len(buffers)
          <5>1. Len(buffers') = Len(buffers) - 1
            BY <1>3, <1>b
          <5> QED BY <1>l, <3>1, <5>1
        <4> QED BY Zenon, <2>0, <3>2, <4>1
      <3>4. ASSUME NEW n, n = buffers'[i].last_update_id PROVE Passed(pending, n)'
        <4>1. \A s \in Symbols : Passed(s, n) => Passed(s, n)'
          BY Zenon, <2>2, <3>2, <3>4 DEF Flows
        <4>2. Passed(pending, n)
          BY Zenon, <3>2, <3>4
        <4>3. pending' = pending
          BY Zenon, <1>3
        <4> QED BY Zenon, <3>2, <4>1, <4>2, <4>3 DEF Passed
      <3> QED BY Zenon, <2>2, <3>2, <3>3, <3>4
    <2> QED BY Zenon, <1>3, <2>0, <2>1, <2>2
  <1> QED BY Zenon, <1>1, <1>2, <1>3 DEF Moved

\* Symbols of messages that are left after a step of the collector.
StreamLeft == \A i \in 1..Len(wire') : wire'[i].symbol \in held \cup Waiting

\* A delta that is not applied: an old one, one of a symbol that waits.
LEMMA SkippedReads ==
    ASSUME DepthInv, ReaderInv, Connected, Connected', Moved, Flows, WireOrdered', StreamLeft,
           UNCHANGED <<futures, venue, subscribed, requested, held, books, remaining, records,
                       journal, shown>>
    PROVE  ReaderInv'
PROOF
  <1>m. /\ held' = held => \A s \in Symbols : Built(s)' <=> Built(s)
        /\ pending' = NoSymbol \/ (pending' = pending /\ draining' = draining)
        /\ \A n : \A s \in Symbols :
              (s = pending => \A j \in 1..Len(buffers) : n <= buffers[j].last_update_id)
              => (s = pending' => \A j \in 1..Len(buffers') : n <= buffers'[j].last_update_id)
        /\ Flows /\ (\A s \in Symbols : shown'[s] = shown[s]) => BuffersOrdered'
    BY Zenon, MovedKeeps
  <1>1. RecordsTyped' /\ Ahead' = Ahead
    BY Zenon DEF ReaderInv, RecordsTyped, Ahead
  <1>2. JournalTrue'
    BY Zenon DEF ReaderInv, JournalTrue
  <1>3. Idle' /\ BuffersOrdered'
    BY Zenon, <1>m DEF Idle
  <1>w. Waiting' = Waiting
    BY Zenon DEF Waiting
  <1>4. QueueTrue'
    <2>1. pending' # NoSymbol =>
             pending' \in held' /\ (~draining' => books'[pending'] = NewBook(futures'))
      <3>1. pending' # NoSymbol => pending' = pending /\ draining' = draining
        BY Zenon, <1>m
      <3>2. pending # NoSymbol =>
               pending \in held /\ (~draining => books[pending] = NewBook(futures))
        BY Zenon DEF ReaderInv, QueueTrue
      <3>3. held' = held /\ books' = books /\ futures' = futures
        BY Zenon
      <3> QED BY <3>1, <3>2, <3>3
    <2>2. /\ \A i, j \in 1..Len(remaining') : remaining'[i] = remaining'[j] => i = j
          /\ \A s \in Waiting' : s \notin held'
      BY Zenon, <1>w DEF ReaderInv, QueueTrue
    <2> QED BY Zenon, <2>1, <2>2 DEF QueueTrue
  <1>5. StreamKnown'
    BY Zenon, <1>w DEF ReaderInv, StreamKnown, StreamLeft
  <1>6. BuiltTrue'
    BY Zenon, <1>m, <1>1 DEF ReaderInv, BuiltTrue
  <1>7. ShownPassed'
    BY Zenon DEF ReaderInv, ShownPassed, RecordsTyped, Flows
  <1>8. BooksPassed'
    <2> SUFFICES ASSUME NEW s \in Symbols, Ahead[s].status = "LIVE" PROVE BookPassed(s)'
      BY Zenon, <1>1 DEF BooksPassed
    <2>n. PICK n : n = books[s].last_update_id
      BY Zenon
    <2>1. n \in Nat
      BY Zenon, <2>n DEF DepthInv, CollectorTypeOK, Books
    <2>2. /\ shown[s] <= n /\ Passed(s, n)
          /\ s = pending => \A j \in 1..Len(buffers) : n <= buffers[j].last_update_id
      BY Zenon, <2>n DEF ReaderInv, BooksPassed, BookPassed
    <2>3. Passed(s, n)'
      BY Zenon, <2>1, <2>2 DEF Flows
    <2>4. s = pending' => \A j \in 1..Len(buffers') : n <= buffers'[j].last_update_id
      BY Zenon, <1>m, <2>2
    <2> QED BY Zenon, <2>2, <2>3, <2>4, <2>n DEF BookPassed
  <1> QED BY Zenon, <1>1, <1>2, <1>3, <1>4, <1>5, <1>6, <1>7, <1>8 DEF ReaderInv

LEMMA RecordAhead ==
    ASSUME ReaderInv, UNCHANGED journal, NEW row \in Rows, records' = Append(records, row)
    PROVE  records' \in Seq(Rows) /\ Ahead' = Stored(Ahead, row)
PROOF
  <1>1. records \in Seq(Rows)
    BY Zenon DEF ReaderInv, RecordsTyped
  <1>2. Append(records, row) \in Seq(Rows)
    BY <1>1
  <1>3. Written(journal, Append(records, row)) = Stored(Written(journal, records), row)
    BY Zenon, <1>1, WrittenMore
  <1> QED BY Zenon, <1>2, <1>3 DEF Ahead

\* What the collector records of an applied delta, with or without a checkpoint,
\* restores the book it made, and changes nothing of the other symbols.
LEMMA AppliedAhead ==
    ASSUME DepthInv, ReaderInv, NEW s \in Symbols, NEW delta \in Deltas, UNCHANGED journal,
           Restores(Ahead[s], futures, books[s]), books[s].futures_sequence = futures,
           DeltaOutcome(books[s], delta) = "APPLIED",
           NEW book, book = ApplyDelta(books[s], delta), book.state = "LIVE",
           NEW more \in Checkpoints(s, delta),
           records' = records \o <<Row(s, "delta", delta)>> \o more
    PROVE  /\ records' \in Seq(Rows) /\ Ahead' \in Journals
           /\ Ahead'[s].status = "LIVE" /\ Restores(Ahead'[s], futures, book)
           /\ \A x \in Symbols : x # s => Ahead'[x] = Ahead[x]
PROOF
  <1>a. PICK all : all = Ahead
    BY Zenon
  <1>b. PICK old : old = books[s]
    BY Zenon
  <1>0. records \in Seq(Rows) /\ all \in Journals /\ all[s] \in Stores
    BY Zenon, <1>a DEF ReaderInv, RecordsTyped, Journals
  <1>t. old \in Books /\ futures \in BOOLEAN
    BY Zenon, <1>b DEF DepthInv, CollectorTypeOK
  <1>c. /\ book \in Books
        /\ Checkpoint(book) \in Snapshots
        /\ ApplySnapshot(NewBook(futures), Checkpoint(book)) = book
    BY Zenon, <1>b, <1>t, CheckpointRestores
  <1>r. PICK row : row = Row(s, "delta", delta)
    BY Zenon
  <1>1. row \in Rows /\ row.symbol = s /\ row.kind = "delta" /\ row.body = delta
    <2>1. delta \in Bodies /\ "delta" \in Kinds
      BY Zenon DEF Bodies, Kinds
    <2> QED BY <1>r, <2>1, RowTyped
  <1>2. all[s].rows # <<>> /\ all[s].rows \in Seq(Rows)
        /\ Replay(NewBook(futures), all[s].rows) = [ok |-> TRUE, book |-> old]
    BY Zenon, <1>0, <1>a, <1>b DEF Restores, Stores
  <1>n. PICK next : next = Stored(all, row)
    BY Zenon
  <1>l. PICK logged : logged = Logged(all[s], row)
    BY Zenon
  <1>3. /\ logged \in Stores /\ logged.status = "LIVE"
        /\ logged.rows = Append(all[s].rows, row) /\ logged.rows # <<>>
    BY Zenon, <1>0, <1>1, <1>2, <1>l, LoggedDelta
  <1>4. /\ next \in Journals /\ next[s] = logged
        /\ \A x \in Symbols : x # s => next[x] = all[x]
    BY Zenon, <1>0, <1>1, <1>3, <1>l, <1>n, StoredAt
  <1>5. Restores(logged, futures, book)
    <2>1. Replay(NewBook(futures), Append(all[s].rows, row)) = [ok |-> TRUE, book |-> book]
      <3>r. PICK rows : rows = all[s].rows
        BY Zenon
      <3>n. PICK new : new = NewBook(futures)
        BY Zenon
      <3>1. DeltaOutcome(old, row.body) = "APPLIED" /\ book = ApplyDelta(old, row.body)
        BY Zenon, <1>1, <1>b
      <3>2. rows \in Seq(Rows) /\ Replay(new, rows) = [ok |-> TRUE, book |-> old]
        BY Zenon, <1>2, <3>n, <3>r
      <3>3. row \in Rows /\ row.kind = "delta" /\ row.body = delta
        BY Zenon, <1>1
      <3>4. book.state = "LIVE"
        BY Zenon
      <3>5. Replay(new, Append(rows, row)) = [ok |-> TRUE, book |-> book]
        BY <3>1, <3>2, <3>3, <3>4, ReplayDelta
      <3> QED BY Zenon, <3>5, <3>n, <3>r
    <2> QED BY Zenon, <1>3, <2>1 DEF Restores
  <1>6. Written(journal, Append(records, row)) = next /\ Append(records, row) \in Seq(Rows)
    <2>1. Written(journal, Append(records, row)) = Stored(Written(journal, records), row)
      BY Zenon, <1>0, <1>1, WrittenMore
    <2>2. Append(records, row) \in Seq(Rows)
      BY Zenon, <1>0, <1>1, AppendTyped
    <2> QED BY Zenon, <1>a, <1>n, <2>1, <2>2 DEF Ahead
  <1>7. CASE more = <<>>
    <2>1. records' = Append(records, row)
      BY <1>0, <1>1, <1>7, <1>r
    <2>2. Ahead' = next
      BY Zenon, <1>6, <2>1 DEF Ahead
    <2> QED BY Zenon, <1>3, <1>4, <1>5, <1>6, <1>a, <2>1, <2>2
  <1>8. CASE more = <<Row(s, "checkpoint", Checkpoint(book))>>
    <2>r. PICK c : c = Row(s, "checkpoint", Checkpoint(book))
      BY Zenon
    <2>1. c \in Rows /\ c.symbol = s /\ c.kind = "checkpoint" /\ c.body = Checkpoint(book)
      <3>1. Checkpoint(book) \in Bodies /\ "checkpoint" \in Kinds
        BY Zenon, <1>c DEF Bodies, Kinds
      <3> QED BY <2>r, <3>1, RowTyped
    <2>2. /\ Append(records, row) \in Seq(Rows)
          /\ records' = Append(Append(records, row), c)
          /\ records' \in Seq(Rows)
      BY <1>0, <1>1, <1>8, <1>r, <2>1, <2>r
    <2>3. Ahead' = Stored(next, c)
      <3>1. Written(journal, Append(Append(records, row), c))
              = Stored(Written(journal, Append(records, row)), c)
        BY Zenon, <2>1, <2>2, WrittenMore
      <3> QED BY Zenon, <1>6, <2>2, <3>1 DEF Ahead
    <2>l. PICK last : last = Logged(next[s], c)
      BY Zenon
    <2>4. next[s] \in Stores
      BY Zenon, <1>3, <1>4
    <2>5. last \in Stores /\ last.status = "LIVE" /\ last.rows = <<c>>
      BY <2>1, <2>4, <2>l, LoggedCheckpoint
    <2>6. /\ Ahead' \in Journals /\ Ahead'[s] = last
          /\ \A x \in Symbols : x # s => Ahead'[x] = next[x]
      BY Zenon, <1>4, <2>1, <2>3, <2>5, <2>l, StoredAt
    <2>7. Restores(last, futures, book)
      <3>1. Replay(NewBook(futures), <<c>>) = [ok |-> TRUE, book |-> book]
        BY Zenon, <1>c, <2>1, ReplayFirst
      <3>2. <<c>> # <<>>
        OBVIOUS
      <3> QED BY Zenon, <2>5, <3>1, <3>2 DEF Restores
    <2> QED BY Zenon, <1>4, <1>a, <2>2, <2>5, <2>6, <2>7
  <1> QED BY Zenon, <1>7, <1>8 DEF Checkpoints

\* A delta that is applied and recorded.
LEMMA AppliedReads ==
    ASSUME DepthInv, ReaderInv, Connected, Connected', Moved, Flows, WireOrdered', StreamLeft,
           UNCHANGED <<futures, venue, subscribed, requested, held, remaining, journal, shown>>,
           NEW s \in Symbols, Built(s), NEW delta \in Deltas,
           DeltaOutcome(books[s], delta) = "APPLIED",
           NEW book, book = ApplyDelta(books[s], delta), book.state = "LIVE",
           books' = [books EXCEPT ![s] = book], NEW more \in Checkpoints(s, delta),
           records' = records \o <<Row(s, "delta", delta)>> \o more,
           shown[s] <= delta.last_update_id, Passed(s, delta.last_update_id)',
           s = pending => \A j \in 1..Len(buffers) : delta.last_update_id <= buffers[j].last_update_id
    PROVE  ReaderInv'
PROOF
  <1>m. /\ \A x \in Symbols : Built(x)' <=> Built(x)
        /\ pending' = NoSymbol \/ (pending' = pending /\ draining' = draining)
        /\ \A n : \A x \in Symbols :
              (x = pending => \A j \in 1..Len(buffers) : n <= buffers[j].last_update_id)
              => (x = pending' => \A j \in 1..Len(buffers') : n <= buffers'[j].last_update_id)
        /\ BuffersOrdered'
    BY Zenon, MovedKeeps
  <1>r. /\ Restores(Ahead[s], futures, books[s])
        /\ books[s].state = "LIVE" /\ books[s].futures_sequence = futures
    BY Zenon DEF ReaderInv, BuiltTrue
  <1>1. /\ records' \in Seq(Rows) /\ Ahead' \in Journals
        /\ Ahead'[s].status = "LIVE" /\ Restores(Ahead'[s], futures, book)
        /\ \A x \in Symbols : x # s => Ahead'[x] = Ahead[x]
    BY Zenon, <1>r, AppliedAhead
  <1>b. books'[s] = book /\ \A x \in Symbols : x # s => books'[x] = books[x]
    BY Zenon DEF DepthInv, CollectorTypeOK
  <1>c. book.futures_sequence = futures /\ book.last_update_id = delta.last_update_id
    <2>1. books[s] \in Books /\ futures \in BOOLEAN
      BY Zenon DEF DepthInv, CollectorTypeOK
    <2>2. PICK old : old = books[s]
      BY Zenon
    <2> QED BY <1>r, <2>1, <2>2, CheckpointRestores
  <1>2. RecordsTyped'
    BY Zenon, <1>1 DEF ReaderInv, RecordsTyped
  <1>3. JournalTrue' /\ Idle'
    BY Zenon DEF ReaderInv, JournalTrue, Idle
  <1>w. Waiting' = Waiting
    BY Zenon DEF Waiting
  <1>4. QueueTrue'
    <2>q. /\ \A i, j \in 1..Len(remaining) : remaining[i] = remaining[j] => i = j
          /\ \A x \in Waiting : x \notin held
          /\ pending # NoSymbol =>
                pending \in held /\ (~draining => books[pending] = NewBook(futures))
      BY Zenon DEF ReaderInv, QueueTrue
    <2>1. ASSUME pending' # NoSymbol
          PROVE  pending' \in held' /\ (~draining' => books'[pending'] = NewBook(futures'))
      <3>1. pending' = pending /\ draining' = draining
        BY Zenon, <1>m, <2>1
      <3>2. pending \in held /\ pending \in Symbols
        BY Zenon, <2>1, <2>q, <3>1 DEF DepthInv, CollectorTypeOK
      <3>3. ASSUME ~draining PROVE books'[pending] = NewBook(futures)
        <4>1. pending # s
          BY Zenon, <3>3 DEF Built
        <4> QED BY Zenon, <1>b, <2>1, <2>q, <3>1, <3>2, <3>3, <4>1
      <3> QED BY Zenon, <3>1, <3>2, <3>3
    <2> QED BY Zenon, <1>w, <2>1, <2>q DEF QueueTrue
  <1>5. StreamKnown'
    BY Zenon, <1>w DEF ReaderInv, StreamKnown, StreamLeft
  <1>6. BuiltTrue'
    <2> SUFFICES ASSUME NEW x \in Symbols
                 PROVE  /\ Built(x) => /\ Restores(Ahead'[x], futures, books'[x])
                                       /\ books'[x].state = "LIVE"
                                       /\ books'[x].futures_sequence = futures
                        /\ ~Built(x) => Ahead'[x].status # "LIVE"
      BY Zenon, <1>m DEF BuiltTrue
    <2>1. CASE x = s
      BY Zenon, <1>1, <1>b, <1>c, <2>1
    <2>2. CASE x # s
      BY Zenon, <1>1, <1>b, <2>2 DEF ReaderInv, BuiltTrue
    <2> QED BY Zenon, <2>1, <2>2
  <1>7. ShownPassed'
    BY Zenon DEF ReaderInv, ShownPassed, RecordsTyped, Flows
  <1>8. BooksPassed'
    <2> SUFFICES ASSUME NEW x \in Symbols, Ahead'[x].status = "LIVE" PROVE BookPassed(x)'
      BY Zenon DEF BooksPassed
    <2>n. PICK n : n = books'[x].last_update_id
      BY Zenon
    <2>1. shown[x] <= n /\ Passed(x, n)'
          /\ (x = pending => \A j \in 1..Len(buffers) : n <= buffers[j].last_update_id)
      <3>1. CASE x = s
        <4>1. n = delta.last_update_id
          BY Zenon, <1>b, <1>c, <2>n, <3>1
        <4> QED BY Zenon, <3>1, <4>1
      <3>2. CASE x # s
        <4>1. n = books[x].last_update_id /\ Ahead[x].status = "LIVE"
          BY Zenon, <1>1, <1>b, <2>n, <3>2
        <4>2. n \in Nat
          BY Zenon, <4>1 DEF DepthInv, CollectorTypeOK, Books
        <4>3. /\ shown[x] <= n /\ Passed(x, n)
              /\ x = pending => \A j \in 1..Len(buffers) : n <= buffers[j].last_update_id
          BY Zenon, <4>1 DEF ReaderInv, BooksPassed, BookPassed
        <4> QED BY Zenon, <4>2, <4>3 DEF Flows
      <3> QED BY Zenon, <3>1, <3>2
    <2>2. x = pending' => \A j \in 1..Len(buffers') : n <= buffers'[j].last_update_id
      BY Zenon, <1>m, <2>1
    <2> QED BY Zenon, <2>1, <2>2, <2>n DEF BookPassed
  <1> QED BY Zenon, <1>m, <1>2, <1>3, <1>4, <1>5, <1>6, <1>7, <1>8 DEF ReaderInv

\* The queue after the symbol of a dropped book is appended to it.
LEMMA WaitingMore ==
    ASSUME DepthInv, ReaderInv, NEW s \in Symbols, s \in held,
           remaining' = Append(remaining, s)
    PROVE  /\ Waiting' = Waiting \cup {s}
           /\ \A i, j \in 1..Len(remaining') : remaining'[i] = remaining'[j] => i = j
PROOF
  <1>n. PICK n : n = Len(remaining)
    BY Zenon
  <1>0. remaining \in Seq(Symbols)
    BY Zenon DEF DepthInv, CollectorTypeOK
  <1>1. /\ n \in Nat /\ Len(remaining') = n + 1
        /\ \A i \in 1..n : remaining'[i] = remaining[i]
        /\ remaining'[n + 1] = s
    BY <1>0, <1>n
  <1>2. /\ \A i \in 1..n : i \in 1..n + 1
        /\ n + 1 \in 1..n + 1
        /\ \A i \in 1..n + 1 : i \in 1..n \/ i = n + 1
    BY <1>1
  <1>3. Waiting' = Waiting \cup {s}
    BY Zenon, <1>1, <1>2, <1>n DEF Waiting
  <1>4. \A i \in 1..n : remaining[i] # s
    BY Zenon, <1>n DEF ReaderInv, QueueTrue, Waiting
  <1>5. \A i, j \in 1..n : remaining[i] = remaining[j] => i = j
    BY Zenon, <1>n DEF ReaderInv, QueueTrue
  <1>6. ASSUME NEW i \in 1..n + 1, NEW j \in 1..n + 1, remaining'[i] = remaining'[j]
        PROVE  i = j
    <2>1. CASE i = n + 1
      BY Zenon, <1>1, <1>2, <1>4, <1>6, <2>1
    <2>2. CASE j = n + 1
      BY Zenon, <1>1, <1>2, <1>4, <1>6, <2>2
    <2>3. CASE i \in 1..n /\ j \in 1..n
      BY Zenon, <1>1, <1>5, <1>6, <2>3
    <2> QED BY Zenon, <1>2, <2>1, <2>2, <2>3
  <1> QED BY Zenon, <1>1, <1>3, <1>6

\* resync records a gap, whether the write succeeds or not.
LEMMA ResyncAhead ==
    ASSUME DepthInv, ReaderInv, phase = "collecting", UNCHANGED <<futures, venue>>,
           NEW s \in Symbols, Resync(s)
    PROVE  /\ Connected' /\ RecordsTyped' /\ JournalTrue'
           /\ Ahead'[s].status = "GAP"
           /\ \A x \in Symbols : x # s => Ahead'[x] = Ahead[x]
           /\ \A x \in Symbols : Passed(x, shown'[x])
           /\ \A x \in Symbols :
                 \/ shown'[x] = shown[x]
                 \/ x # s /\ Ahead[x].status = "LIVE" /\ shown'[x] = books[x].last_update_id
PROOF
  <1>c. Connected
    BY DEF Connected
  <1>0. records \in Seq(Rows) /\ journal \in Journals /\ Ahead \in Journals
        /\ shown \in [Symbols -> Nat]
    BY Zenon DEF ReaderInv, RecordsTyped
  <1>r. PICK rows : rows = Append(records, Gap(s))
    BY Zenon
  <1>a. PICK all : all = Stored(Ahead, Gap(s))
    BY Zenon
  <1>1. Gap(s) \in Rows
    BY Zenon, GapTyped
  <1>2. rows \in Seq(Rows) /\ Written(journal, rows) = all
    <2>1. Written(journal, Append(records, Gap(s))) = Stored(Written(journal, records), Gap(s))
      BY Zenon, <1>0, <1>1, WrittenMore
    <2>2. Append(records, Gap(s)) \in Seq(Rows)
      BY Zenon, <1>0, <1>1, AppendTyped
    <2> QED BY Zenon, <1>a, <1>r, <2>1, <2>2 DEF Ahead
  <1>3. /\ all \in Journals /\ all[s].status = "GAP"
        /\ \A x \in Symbols : x # s => all[x] = Ahead[x]
    BY Zenon, <1>0, <1>a, StoredGap
  <1>l. "GAP" # "LIVE"
    OBVIOUS
  <1>4. CASE Write(rows) /\ records' = <<>> /\ UNCHANGED phase
    <2>1. \A x \in Symbols : all[x].status = "LIVE" => all[x] = Ahead[x] /\ x # s
      BY Zenon, <1>3, <1>l
    <2>2. /\ journal' = all /\ shown' \in [Symbols -> Nat] /\ JournalTrue'
          /\ \A x \in Symbols : all[x].status # "LIVE" => shown'[x] = shown[x]
          /\ \A x \in Symbols : all[x].status = "LIVE" => shown'[x] = books[x].last_update_id
          /\ \A x \in Symbols : Passed(x, shown'[x])
      BY Zenon, <1>2, <1>3, <1>4, <1>c, <2>1, BatchWritten
    <2>3. Ahead' = all
      BY Zenon, <1>4, <2>2, WrittenNone DEF Ahead
    <2>4. RecordsTyped'
      <3>1. <<>> \in Seq(Rows)
        OBVIOUS
      <3> QED BY Zenon, <1>3, <1>4, <2>2, <2>3, <3>1 DEF RecordsTyped
    <2>5. Connected'
      BY Zenon, <1>4, <1>c DEF Connected
    <2>6. \A x \in Symbols :
            \/ shown'[x] = shown[x]
            \/ x # s /\ Ahead[x].status = "LIVE" /\ shown'[x] = books[x].last_update_id
      BY Zenon, <2>1, <2>2
    <2> QED BY Zenon, <1>3, <2>2, <2>3, <2>4, <2>5, <2>6
  <1>5. CASE Raise /\ records' = rows
    <2>1. Ahead' = all
      BY Zenon, <1>2, <1>5 DEF Ahead, Raise
    <2>2. RecordsTyped'
      BY Zenon, <1>0, <1>2, <1>3, <1>5, <2>1 DEF RecordsTyped, Raise
    <2>3. Connected'
      BY Zenon, <1>5 DEF Raise, Connected
    <2>4. JournalTrue'
      BY Zenon, <1>5 DEF ReaderInv, JournalTrue, Raise
    <2>5. \A x \in Symbols : shown'[x] = shown[x] /\ Passed(x, shown'[x])
      BY Zenon, <1>5 DEF ReaderInv, ShownPassed, Raise
    <2> QED BY Zenon, <1>3, <2>1, <2>2, <2>3, <2>4, <2>5
  <1> QED BY Zenon, <1>4, <1>5, <1>r DEF Resync

\* A book that cannot go on is dropped, and its symbol waits again.
LEMMA ResyncReads ==
    ASSUME DepthInv, ReaderInv, phase = "collecting", NEW s \in Symbols, s \in held, Resync(s),
           UNCHANGED <<futures, venue, subscribed, requested>>,
           Flows, WireOrdered', StreamLeft,
           \/ s # pending /\ UNCHANGED <<pending, buffers, draining>>
           \/ s = pending /\ BootstrapDone
    PROVE  ReaderInv'
PROOF
  <1>1. /\ Connected' /\ RecordsTyped' /\ JournalTrue'
        /\ Ahead'[s].status = "GAP"
        /\ \A x \in Symbols : x # s => Ahead'[x] = Ahead[x]
        /\ \A x \in Symbols : Passed(x, shown'[x])
        /\ \A x \in Symbols :
              \/ shown'[x] = shown[x]
              \/ x # s /\ Ahead[x].status = "LIVE" /\ shown'[x] = books[x].last_update_id
    BY Zenon, ResyncAhead
  <1>c. Connected
    BY DEF Connected
  <1>l. "GAP" # "LIVE"
    OBVIOUS
  <1>2. /\ held' = held \ {s} /\ remaining' = Append(remaining, s)
        /\ \A x \in Symbols : x # s => books'[x] = books[x]
    BY Zenon DEF Resync, DepthInv, CollectorTypeOK
  <1>w. /\ Waiting' = Waiting \cup {s}
        /\ \A i, j \in 1..Len(remaining') : remaining'[i] = remaining'[j] => i = j
    BY Zenon, <1>2, WaitingMore
  <1>p. \/ s # pending /\ pending' = pending /\ buffers' = buffers /\ draining' = draining
        \/ s = pending /\ pending' = NoSymbol /\ buffers' = <<>>
    BY Zenon DEF BootstrapDone
  <1>3. Idle'
    BY Zenon, <1>1 DEF Idle
  <1>4. QueueTrue'
    <2>1. \A x \in Waiting' : x \notin held'
      BY Zenon, <1>2, <1>w DEF ReaderInv, QueueTrue
    <2>2. ASSUME pending' # NoSymbol
          PROVE  pending' \in held' /\ (~draining' => books'[pending'] = NewBook(futures'))
      <3>1. s # pending /\ pending' = pending /\ draining' = draining
        BY Zenon, <1>p, <2>2
      <3>2. pending \in held /\ (~draining => books[pending] = NewBook(futures))
        BY Zenon, <2>2, <3>1 DEF ReaderInv, QueueTrue
      <3>3. pending \in Symbols
        BY Zenon, <3>2 DEF DepthInv, CollectorTypeOK
      <3> QED BY Zenon, <1>2, <3>1, <3>2, <3>3
    <2> QED BY Zenon, <1>w, <2>1, <2>2 DEF QueueTrue
  <1>5. StreamKnown'
    <2>1. held' \cup Waiting' = held \cup Waiting
      BY Zenon, <1>2, <1>w
    <2> QED BY Zenon, <2>1 DEF ReaderInv, StreamKnown, StreamLeft
  <1>6. BuiltTrue'
    <2> SUFFICES ASSUME NEW x \in Symbols
                 PROVE  /\ Built(x)' => /\ Restores(Ahead'[x], futures, books'[x])
                                        /\ books'[x].state = "LIVE"
                                        /\ books'[x].futures_sequence = futures
                        /\ ~Built(x)' => Ahead'[x].status # "LIVE"
      BY Zenon DEF BuiltTrue
    <2>1. CASE x = s
      BY Zenon, <1>1, <1>2, <1>l, <2>1 DEF Built
    <2>2. CASE x # s
      <3>1. Built(x)' <=> Built(x)
        <4>1. x \in held' <=> x \in held
          BY Zenon, <1>2, <2>2
        <4>2. CASE pending' = pending /\ draining' = draining
          BY Zenon, <4>1, <4>2 DEF Built
        <4>3. CASE s = pending /\ pending' = NoSymbol
          <5>1. x # NoSymbol /\ x # pending
            BY Zenon, <2>2, <4>3, DepthAssumption
          <5> QED BY Zenon, <4>1, <4>3, <5>1 DEF Built
        <4> QED BY Zenon, <1>p, <4>2, <4>3
      <3> QED BY Zenon, <1>1, <1>2, <1>c, <2>2, <3>1 DEF ReaderInv, BuiltTrue
    <2> QED BY Zenon, <2>1, <2>2
  <1>n. \A x \in Symbols : shown'[x] \in Nat
    BY Zenon, <1>1 DEF RecordsTyped
  <1>7. ShownPassed'
    <2>1. ASSUME NEW x \in Symbols, NEW n, n = shown'[x] PROVE Passed(x, n)'
      BY Zenon, <1>1, <1>n, <2>1 DEF Flows
    <2> QED BY Zenon, <2>1 DEF ShownPassed
  <1>8. BuffersOrdered'
    <2>1. CASE s = pending /\ buffers' = <<>>
      <3>1. 1..Len(buffers') = {}
        BY <2>1
      <3> QED BY Zenon, <3>1 DEF BuffersOrdered
    <2>2. CASE s # pending /\ pending' = pending /\ buffers' = buffers
      <3>0. ASSUME NEW i \in 1..Len(buffers)
            PROVE  pending \in Symbols /\ buffers[i].last_update_id \in Nat
        <4>1. buffers # <<>> /\ buffers[i] \in Deltas
          BY DEF DepthInv, CollectorTypeOK
        <4> QED BY Zenon, <4>1 DEF DepthInv, BuffersTrue, Deltas
      <3>1. \A i \in 1..Len(buffers) : shown'[pending] <= buffers[i].last_update_id
        BY Zenon, <1>1, <1>c, <3>0 DEF ReaderInv, BuffersOrdered, BooksPassed, BookPassed
      <3>2. \A i \in 1..Len(buffers) : Passed(pending, buffers[i].last_update_id)'
        BY Zenon, <2>2, <3>0 DEF ReaderInv, BuffersOrdered, Flows
      <3> QED BY Zenon, <2>2, <3>1, <3>2 DEF ReaderInv, BuffersOrdered
    <2> QED BY Zenon, <1>p, <2>1, <2>2
  <1>9. BooksPassed'
    <2> SUFFICES ASSUME NEW x \in Symbols, Ahead'[x].status = "LIVE" PROVE BookPassed(x)'
      BY Zenon DEF BooksPassed
    <2>n. PICK n : n = books[x].last_update_id
      BY Zenon
    <2>1. x # s /\ Ahead[x].status = "LIVE"
      BY Zenon, <1>1, <1>l
    <2>2. n \in Nat /\ n <= n /\ books'[x].last_update_id = n
      <3>1. n \in Nat
        BY Zenon, <2>n DEF DepthInv, CollectorTypeOK, Books
      <3>2. n <= n
        BY <3>1
      <3> QED BY Zenon, <1>2, <2>1, <2>n, <3>1, <3>2
    <2>3. /\ shown[x] <= n /\ Passed(x, n)
          /\ x = pending => \A j \in 1..Len(buffers) : n <= buffers[j].last_update_id
      BY Zenon, <1>c, <2>1, <2>n DEF ReaderInv, BooksPassed, BookPassed
    <2>4. shown'[x] <= n
      BY Zenon, <1>1, <2>2, <2>3, <2>n
    <2>5. Passed(x, n)'
      BY Zenon, <2>2, <2>3 DEF Flows
    <2>6. x = pending' => \A j \in 1..Len(buffers') : n <= buffers'[j].last_update_id
      BY Zenon, <1>p, <2>3, DepthAssumption
    <2> QED BY Zenon, <2>2, <2>4, <2>5, <2>6 DEF BookPassed
  <1> QED BY Zenon, <1>1, <1>3, <1>4, <1>5, <1>6, <1>7, <1>8, <1>9 DEF ReaderInv

\* apply_depth_event and what follows it.
LEMMA EventReads ==
    ASSUME DepthInv, ReaderInv, phase = "collecting",
           UNCHANGED <<futures, venue, subscribed, requested>>,
           Flows, WireOrdered', StreamLeft,
           NEW s \in Symbols, Built(s), NEW delta \in Deltas, NEW more \in Checkpoints(s, delta),
           ApplyEvent(s, delta, more),
           shown[s] <= delta.last_update_id, Passed(s, delta.last_update_id)',
           s = pending => \A j \in 1..Len(buffers) : delta.last_update_id <= buffers[j].last_update_id,
           \/ s # pending /\ UNCHANGED <<pending, buffers, draining>>
           \/ s = pending /\ draining /\ BootstrapDone
           \/ s = pending /\ draining /\ s \in held' /\ buffers' = Tail(buffers)
              /\ UNCHANGED <<pending, draining>>
    PROVE  ReaderInv'
PROOF
  <1>c. Connected
    BY DEF Connected
  <1>m. Moved
    BY Zenon DEF Moved
  <1>b. PICK book : book = ApplyDelta(books[s], delta)
    BY Zenon
  <1>1. CASE UNCHANGED <<held, books, remaining, records, journal, shown, phase>>
    <2>1. Connected'
      BY Zenon, <1>1, <1>c DEF Connected
    <2> QED BY Zenon, <1>1, <1>c, <1>m, <2>1, SkippedReads
  <1>2. CASE /\ DeltaOutcome(books[s], delta) = "APPLIED" /\ book.state = "LIVE"
             /\ books' = [books EXCEPT ![s] = book]
             /\ records' = records \o <<Row(s, "delta", delta)>> \o more
             /\ UNCHANGED <<held, remaining, journal, shown, phase>>
    <2>1. Connected'
      BY Zenon, <1>2, <1>c DEF Connected
    <2> QED BY Zenon, <1>2, <1>b, <1>c, <1>m, <2>1, AppliedReads
  <1>3. CASE Resync(s)
    <2>1. held' = held \ {s} /\ s \in held
      BY Zenon, <1>3 DEF Resync, Built
    <2>2. \/ s # pending /\ UNCHANGED <<pending, buffers, draining>>
          \/ s = pending /\ BootstrapDone
      BY Zenon, <2>1
    <2> QED BY Zenon, <1>3, <2>1, <2>2, ResyncReads
  <1> QED BY Zenon, <1>1, <1>2, <1>3, <1>b DEF ApplyEvent

\* What a buffered delta is.
LEMMA BufferTyped ==
    ASSUME DepthInv, NEW i \in 1..Len(buffers)
    PROVE  pending \in Symbols /\ buffers[i] \in Deltas /\ buffers[i].last_update_id \in Nat
PROOF
  <1>1. buffers # <<>> /\ buffers[i] \in Deltas
    BY DEF DepthInv, CollectorTypeOK
  <1> QED BY Zenon, <1>1 DEF DepthInv, BuffersTrue, Deltas

\* A step that leaves the stream.
LEMMA StreamStays ==
    ASSUME DepthInv, DepthInv', ReaderInv, UNCHANGED <<wire, venue>>
    PROVE  /\ Flows /\ WireOrdered' /\ StreamLeft
           /\ \A s \in Symbols : \A n : Passed(s, n)' <=> Passed(s, n)
PROOF
  <1>1. Flows /\ \A s \in Symbols : \A n : Passed(s, n)' <=> Passed(s, n)
    BY Zenon DEF Flows, Passed
  <1>2. WireOrdered'
    BY Zenon DEF ReaderInv, WireOrdered
  <1>3. StreamLeft
    BY Zenon DEF ReaderInv, StreamKnown, StreamLeft
  <1> QED BY Zenon, <1>1, <1>2, <1>3

LEMMA DrainBufferReads ==
    ASSUME DepthInv, DepthInv', ReaderInv, DrainBuffer PROVE ReaderInv'
PROOF
  <1>s. PICK s : s = pending
    BY Zenon
  <1>d. PICK delta : delta = buffers[1]
    BY Zenon
  <1>u. UNCHANGED <<futures, venue, subscribed, requested, wire>>
    BY Zenon DEF DrainBuffer, exchangeVars
  <1>1. /\ phase = "collecting" /\ draining
        /\ buffers \in Seq(Deltas) /\ buffers # <<>>
    BY Zenon DEF DrainBuffer, DepthInv, CollectorTypeOK, DrainingTrue
  <1>2. Head(buffers) = delta /\ 1 \in 1..Len(buffers)
    BY Zenon, <1>1, <1>d, TailElements
  <1>3. s \in Symbols /\ delta \in Deltas /\ delta.last_update_id \in Nat
    BY Zenon, <1>2, <1>d, <1>s, BufferTyped
  <1>4. /\ shown[s] <= delta.last_update_id /\ Passed(s, delta.last_update_id)
        /\ \A j \in 1..Len(buffers) : delta.last_update_id <= buffers[j].last_update_id
    BY Zenon, <1>2, <1>d, <1>s DEF ReaderInv, BuffersOrdered
  <1>5. /\ Flows /\ WireOrdered' /\ StreamLeft
        /\ Passed(s, delta.last_update_id)'
    BY Zenon, <1>3, <1>4, <1>u, StreamStays
  <1>6. Built(s)
    BY Zenon, <1>1, <1>3, <1>s, DepthAssumption DEF ReaderInv, QueueTrue, Built
  <1>7. /\ ApplyEvent(s, delta, <<>>)
        /\ \/ s = pending /\ draining /\ BootstrapDone
           \/ s = pending /\ draining /\ s \in held' /\ buffers' = Tail(buffers)
              /\ UNCHANGED <<pending, draining>>
    BY Zenon, <1>1, <1>2, <1>s DEF DrainBuffer
  <1>8. <<>> \in Checkpoints(s, delta)
    BY Zenon DEF Checkpoints
  <1> QED BY Zenon, <1>1, <1>3, <1>4, <1>5, <1>6, <1>7, <1>8, <1>u, EventReads

\* The next symbol that waits is bootstrapped.
LEMMA PickPendingReads ==
    ASSUME DepthInv, DepthInv', ReaderInv, PickPending PROVE ReaderInv'
PROOF
  <1>s. PICK s : s = Head(remaining)
    BY Zenon
  <1>u. UNCHANGED <<futures, venue, subscribed, wire, phase, buffers, draining, records, journal,
                    shown>>
    BY Zenon DEF PickPending
  <1>0. remaining \in Seq(Symbols) /\ remaining # <<>> /\ phase = "collecting" /\ pending = NoSymbol
    BY Zenon DEF PickPending, DepthInv, CollectorTypeOK
  <1>c. Connected /\ Connected'
    BY Zenon, <1>0, <1>u DEF Connected
  <1>1. /\ s \in Symbols /\ s = remaining[1] /\ 1 \in 1..Len(remaining)
        /\ \A i \in 1..Len(remaining') :
              i + 1 \in 1..Len(remaining) /\ remaining'[i] = remaining[i + 1]
        /\ Len(remaining) \in Nat /\ Len(remaining') = Len(remaining) - 1
    <2>1. remaining' = Tail(remaining)
      BY Zenon DEF PickPending
    <2> QED BY <1>0, <1>s, <2>1, TailElements
  <1>2. /\ pending' = s /\ held' = held \cup {s} /\ requested' = requested \cup {s}
        /\ books'[s] = NewBook(futures) /\ \A x \in Symbols : x # s => books'[x] = books[x]
    BY Zenon, <1>s, <1>1 DEF PickPending, DepthInv, CollectorTypeOK
  <1>3. /\ \A i, j \in 1..Len(remaining) : remaining[i] = remaining[j] => i = j
        /\ \A x \in Waiting : x \notin held
    BY Zenon DEF ReaderInv, QueueTrue
  <1>4. buffers = <<>> /\ ~draining
    BY Zenon, <1>0, DepthAssumption DEF DepthInv, BuffersTrue, DrainingTrue
  <1>5. s \in Waiting /\ s \notin held /\ s # NoSymbol
    BY Zenon, <1>1, <1>3, DepthAssumption DEF Waiting
  <1>6. Waiting \subseteq Waiting' \cup {s} /\ Waiting' \subseteq Waiting /\ s \notin Waiting'
    <2>1. \A i \in 1..Len(remaining) : i = 1 \/ (i - 1 \in 1..Len(remaining') /\ (i - 1) + 1 = i)
      BY <1>1
    <2>2. Waiting \subseteq Waiting' \cup {s}
      <3> SUFFICES ASSUME NEW x \in Waiting, x # s PROVE x \in Waiting'
        BY Zenon
      <3>1. PICK i \in 1..Len(remaining) : x = remaining[i]
        BY Zenon DEF Waiting
      <3>2. i - 1 \in 1..Len(remaining') /\ (i - 1) + 1 = i
        BY Zenon, <1>1, <2>1, <3>1
      <3>3. x = remaining'[i - 1]
        BY Zenon, <1>1, <3>1, <3>2
      <3> QED BY Zenon, <3>2, <3>3 DEF Waiting
    <2>3. Waiting' \subseteq Waiting
      BY Zenon, <1>1 DEF Waiting
    <2>4. \A i \in 1..Len(remaining') : i + 1 # 1
      BY <1>1
    <2>5. s \notin Waiting'
      <3> SUFFICES ASSUME NEW i \in 1..Len(remaining'), s = remaining'[i] PROVE FALSE
        BY Zenon DEF Waiting
      <3> QED BY Zenon, <1>1, <1>3, <2>4
    <2> QED BY Zenon, <2>2, <2>3, <2>5
  <1>7. RecordsTyped' /\ Ahead' = Ahead
    BY Zenon, <1>u DEF ReaderInv, RecordsTyped, Ahead
  <1>8. JournalTrue' /\ Idle'
    BY Zenon, <1>c, <1>u DEF ReaderInv, JournalTrue, Idle
  <1>9. QueueTrue'
    <2>1. \A i, j \in 1..Len(remaining') : remaining'[i] = remaining'[j] => i = j
      <3> SUFFICES ASSUME NEW i \in 1..Len(remaining'), NEW j \in 1..Len(remaining'),
                          remaining'[i] = remaining'[j]
                   PROVE  i = j
        BY Zenon
      <3>1. i + 1 = j + 1
        BY Zenon, <1>1, <1>3
      <3> QED BY <1>1, <3>1
    <2>2. \A x \in Waiting' : x \notin held'
      BY Zenon, <1>2, <1>3, <1>6
    <2> QED BY Zenon, <1>2, <1>u, <2>1, <2>2 DEF QueueTrue
  <1>10. StreamKnown'
    <2>1. held \cup Waiting \subseteq held' \cup Waiting' /\ s \in held'
      BY Zenon, <1>2, <1>6
    <2> QED BY Zenon, <1>2, <1>u, <2>1 DEF ReaderInv, StreamKnown
  <1>11. BuiltTrue'
    <2> SUFFICES ASSUME NEW x \in Symbols
                 PROVE  /\ Built(x)' => /\ Restores(Ahead[x], futures, books'[x])
                                        /\ books'[x].state = "LIVE"
                                        /\ books'[x].futures_sequence = futures
                        /\ ~Built(x)' => Ahead[x].status # "LIVE"
      BY Zenon, <1>7, <1>u DEF BuiltTrue
    <2>1. CASE x = s
      <3>1. ~Built(x)' /\ ~Built(x)
        BY Zenon, <1>2, <1>4, <1>5, <1>u, <2>1 DEF Built
      <3> QED BY Zenon, <1>c, <3>1 DEF ReaderInv, BuiltTrue
    <2>2. CASE x # s
      <3>1. x # NoSymbol
        BY Zenon, DepthAssumption
      <3>2. Built(x)' <=> Built(x)
        BY Zenon, <1>0, <1>2, <2>2, <3>1 DEF Built
      <3> QED BY Zenon, <1>2, <1>c, <2>2, <3>2 DEF ReaderInv, BuiltTrue
    <2> QED BY Zenon, <2>1, <2>2
  <1>12. WireOrdered' /\ ShownPassed'
    BY Zenon, <1>u DEF ReaderInv, WireOrdered, ShownPassed, Passed
  <1>b. 1..Len(buffers') = {}
    BY <1>4, <1>u
  <1>13. BuffersOrdered'
    BY Zenon, <1>b DEF BuffersOrdered
  <1>14. BooksPassed'
    <2> SUFFICES ASSUME NEW x \in Symbols, Ahead[x].status = "LIVE" PROVE BookPassed(x)'
      BY Zenon, <1>7 DEF BooksPassed
    <2>1. x # s
      BY Zenon, <1>5, <1>c DEF ReaderInv, BuiltTrue, Built
    <2>2. BookPassed(x)
      BY Zenon, <1>c DEF ReaderInv, BooksPassed
    <2> QED BY Zenon, <1>2, <1>b, <1>u, <2>1, <2>2 DEF BookPassed, Passed
  <1> QED BY Zenon, <1>7, <1>8, <1>9, <1>10, <1>11, <1>12, <1>13, <1>14 DEF ReaderInv

\* The snapshot makes the book, or fails and the symbol waits again.
LEMMA TakeSnapshotReads ==
    ASSUME DepthInv, DepthInv', ReaderInv, TakeSnapshot PROVE ReaderInv'
PROOF
  <1>s. PICK s : s = pending
    BY Zenon
  <1>b. PICK book : book = ApplySnapshot(books[s], answer[1])
    BY Zenon
  <1>u. UNCHANGED <<futures, venue, subscribed, requested, wire>>
    BY Zenon DEF TakeSnapshot, exchangeVars
  <1>0. /\ phase = "collecting" /\ answer # <<>> /\ s \in Symbols /\ ~draining
        /\ answer \in Seq(Snapshots)
    BY Zenon, <1>s DEF TakeSnapshot, DepthInv, AnswerTrue, DrainingTrue, CollectorTypeOK
  <1>c. Connected
    BY <1>0 DEF Connected
  <1>1. s \in held /\ books[s] = NewBook(futures)
    BY Zenon, <1>0, <1>s, DepthAssumption DEF ReaderInv, QueueTrue
  <1>2. /\ Flows /\ WireOrdered' /\ StreamLeft
        /\ \A x \in Symbols : \A n : Passed(x, n)' <=> Passed(x, n)
    BY Zenon, <1>u, StreamStays
  <1>3. CASE Resync(s) /\ BootstrapDone
    BY Zenon, <1>0, <1>1, <1>2, <1>3, <1>s, <1>u, ResyncReads
  <1>4. CASE /\ book.state = "LIVE"
             /\ books' = [books EXCEPT ![s] = book]
             /\ records' = Append(records, Row(s, "snapshot", answer[1]))
             /\ \/ buffers = <<>> /\ BootstrapDone
                \/ draining' = TRUE /\ UNCHANGED <<pending, buffers>>
             /\ UNCHANGED <<held, remaining, phase, journal, shown>>
    <2>r. PICK row : row = Row(s, "snapshot", answer[1])
      BY Zenon
    <2>1. row \in Rows /\ row.symbol = s /\ row.kind = "snapshot" /\ row.body = answer[1]
      <3>1. answer[1] \in Snapshots
        BY <1>0
      <3>2. answer[1] \in Bodies /\ "snapshot" \in Kinds
        BY Zenon, <3>1 DEF Bodies, Kinds
      <3> QED BY <1>0, <2>r, <3>2, RowTyped
    <2>2. records' \in Seq(Rows) /\ Ahead' = Stored(Ahead, row)
      BY Zenon, <1>4, <2>1, <2>r, RecordAhead
    <2>a. PICK all : all = Ahead
      BY Zenon
    <2>l. PICK logged : logged = Logged(all[s], row)
      BY Zenon
    <2>3. all \in Journals /\ all[s] \in Stores
      BY Zenon, <1>0, <2>a DEF ReaderInv, RecordsTyped, Journals
    <2>4. logged \in Stores /\ logged.status = "SYNCING" /\ logged.rows = <<row>>
      BY Zenon, <2>1, <2>3, <2>l, LoggedSnapshot
    <2>5. /\ Ahead' \in Journals /\ Ahead'[s] = logged
          /\ \A x \in Symbols : x # s => Ahead'[x] = all[x]
      BY Zenon, <2>1, <2>2, <2>3, <2>4, <2>a, <2>l, StoredAt
    <2>6. Restores(logged, futures, book)
      <3>1. Replay(NewBook(futures), <<row>>) = [ok |-> TRUE, book |-> book]
        BY Zenon, <1>1, <1>4, <1>b, <2>1, ReplayFirst
      <3>2. <<row>> # <<>>
        OBVIOUS
      <3> QED BY Zenon, <2>4, <3>1, <3>2 DEF Restores
    <2>7. book.futures_sequence = futures
      BY <1>1, <1>b DEF ApplySnapshot, Validated, NewBook
    <2>8. books'[s] = book /\ \A x \in Symbols : x # s => books'[x] = books[x]
      BY Zenon, <1>0, <1>4 DEF DepthInv, CollectorTypeOK
    <2>d. /\ Connected' /\ s # NoSymbol /\ \A x \in Symbols : x # NoSymbol
          /\ "SYNCING" # "LIVE"
      BY Zenon, <1>0, <1>4, DepthAssumption DEF Connected
    <2>p. \/ pending' = NoSymbol /\ buffers' = <<>>
          \/ pending' = s /\ draining' /\ buffers' = buffers
      BY Zenon, <1>4, <1>s DEF BootstrapDone
    <2>9. RecordsTyped'
      BY Zenon, <1>4, <2>2, <2>5 DEF ReaderInv, RecordsTyped
    <2>10. JournalTrue' /\ Idle'
      BY Zenon, <1>4, <1>u, <2>d DEF ReaderInv, JournalTrue, Idle
    <2>11. QueueTrue' /\ StreamKnown'
      <3>1. Waiting' = Waiting
        BY Zenon, <1>4 DEF Waiting
      <3>2. pending' # NoSymbol => pending' \in held' /\ draining'
        BY Zenon, <1>1, <1>4, <2>p
      <3>3. QueueTrue'
        BY Zenon, <1>4, <3>1, <3>2 DEF ReaderInv, QueueTrue
      <3>4. StreamKnown'
        BY Zenon, <1>4, <1>u, <3>1 DEF ReaderInv, StreamKnown
      <3> QED BY Zenon, <3>3, <3>4
    <2>12. BuiltTrue'
      <3> SUFFICES ASSUME NEW x \in Symbols
                   PROVE  /\ Built(x)' => /\ Restores(Ahead'[x], futures, books'[x])
                                          /\ books'[x].state = "LIVE"
                                          /\ books'[x].futures_sequence = futures
                          /\ ~Built(x)' => Ahead'[x].status # "LIVE"
        BY Zenon, <1>u DEF BuiltTrue
      <3>1. CASE x = s
        BY Zenon, <1>4, <2>4, <2>5, <2>6, <2>7, <2>8, <2>d, <3>1
      <3>2. CASE x # s
        <4>1. Built(x)' <=> Built(x)
          BY Zenon, <1>4, <1>s, <2>d, <2>p, <3>2 DEF Built
        <4> QED BY Zenon, <1>c, <2>5, <2>8, <2>a, <3>2, <4>1 DEF ReaderInv, BuiltTrue
      <3> QED BY Zenon, <3>1, <3>2
    <2>13. ShownPassed'
      BY Zenon, <1>2, <1>4 DEF ReaderInv, ShownPassed, Passed
    <2>14. BuffersOrdered'
      <3>1. CASE buffers' = <<>>
        <4>1. 1..Len(buffers') = {}
          BY <3>1
        <4> QED BY Zenon, <4>1 DEF BuffersOrdered
      <3>2. CASE pending' = s /\ buffers' = buffers
        BY Zenon, <1>2, <1>4, <1>0, <1>s, <3>2 DEF ReaderInv, BuffersOrdered
      <3> QED BY Zenon, <2>p, <3>1, <3>2
    <2>15. BooksPassed'
      <3> SUFFICES ASSUME NEW x \in Symbols, Ahead'[x].status = "LIVE" PROVE BookPassed(x)'
        BY Zenon DEF BooksPassed
      <3>1. x # s
        BY Zenon, <2>4, <2>5, <2>d
      <3>2. Ahead[x].status = "LIVE"
        BY Zenon, <2>5, <2>a, <3>1
      <3>3. BookPassed(x)
        BY Zenon, <1>c, <3>2 DEF ReaderInv, BooksPassed
      <3>4. x # pending'
        BY Zenon, <2>d, <2>p, <3>1
      <3>5. Passed(x, books[x].last_update_id)
        BY Zenon, <3>3 DEF BookPassed
      <3>6. \A n : n = books'[x].last_update_id => Passed(x, n)'
        BY Zenon, <1>2, <2>8, <3>1, <3>5
      <3> QED BY Zenon, <1>4, <2>8, <3>1, <3>3, <3>4, <3>6 DEF BookPassed
    <2> QED BY Zenon, <1>2, <2>9, <2>10, <2>11, <2>12, <2>13, <2>14, <2>15 DEF ReaderInv
  <1> QED BY Zenon, <1>3, <1>4, <1>b, <1>s DEF TakeSnapshot

\* The delta that is read off the stream.
LEMMA HeadPassed ==
    ASSUME DepthInv, DepthInv', ReaderInv, wire # <<>>, wire' = Tail(wire), UNCHANGED venue,
           NEW s, s = Head(wire).symbol, NEW delta, delta = Head(wire).delta
    PROVE  /\ s \in Symbols /\ delta \in Deltas /\ s \in held \cup Waiting
           /\ Flows /\ WireOrdered' /\ StreamLeft
           /\ \A n : Passed(s, n) => n <= delta.last_update_id
           /\ Passed(s, delta.last_update_id)'
PROOF
  <1>0. wire \in Seq([symbol : Symbols, delta : Deltas])
    BY Zenon DEF DepthInv, CollectorTypeOK
  <1>1. /\ Head(wire) = wire[1] /\ 1 \in 1..Len(wire) /\ Len(wire) \in Nat
        /\ wire[1] \in [symbol : Symbols, delta : Deltas]
        /\ \A i \in 1..Len(wire') : i + 1 \in 1..Len(wire) /\ wire'[i] = wire[i + 1]
    <2>1. /\ Head(wire) \in [symbol : Symbols, delta : Deltas] /\ Head(wire) = wire[1]
          /\ 1 \in 1..Len(wire)
          /\ \A i \in 1..Len(Tail(wire)) : i + 1 \in 1..Len(wire) /\ Tail(wire)[i] = wire[i + 1]
      BY Zenon, <1>0, TailElements
    <2>2. Len(wire) \in Nat
      BY <1>0
    <2> QED BY Zenon, <2>1, <2>2
  <1>2. s = wire[1].symbol /\ delta = wire[1].delta /\ s \in Symbols /\ delta \in Deltas
    BY Zenon, <1>1
  <1>3. /\ s \in held \cup Waiting
        /\ \A i \in 1..Len(wire) : wire[i].symbol \in held \cup Waiting
    BY Zenon, <1>1, <1>2 DEF ReaderInv, StreamKnown
  <1>4. StreamLeft
    BY Zenon, <1>1, <1>3 DEF StreamLeft
  <1>5. Flows /\ WireOrdered'
    <2>1. \A x \in Symbols : venue[x].published <= venue'[x].published
      BY StreamTypes
    <2> QED BY Zenon, <2>1, WireTail DEF ReaderInv
  <1>6. \A n : Passed(s, n) => n <= delta.last_update_id
    BY Zenon, <1>1, <1>2 DEF Passed
  <1>7. Passed(s, delta.last_update_id)'
    <2>1. /\ delta.last_update_id <= venue[s].published
          /\ \A j \in 1..Len(wire) : wire[j].symbol = s =>
                delta.last_update_id <= wire[j].delta.last_update_id
      BY Zenon, <1>1, <1>2 DEF ReaderInv, WireOrdered
    <2>2. \A j \in 1..Len(wire') : wire'[j].symbol = s =>
             delta.last_update_id <= wire'[j].delta.last_update_id
      BY Zenon, <1>1, <2>1
    <2> QED BY Zenon, <2>1, <2>2 DEF Passed
  <1> QED BY Zenon, <1>2, <1>3, <1>4, <1>5, <1>6, <1>7

\* A delta that waits for the snapshot of its symbol.
LEMMA BufferedReads ==
    ASSUME DepthInv, DepthInv', ReaderInv, phase = "collecting", ~draining,
           Flows, WireOrdered', StreamLeft,
           UNCHANGED <<futures, venue, subscribed, requested, phase, held, books, remaining,
                       pending, draining, records, journal, shown>>,
           pending \in Symbols, NEW delta \in Deltas, buffers' = Append(buffers, delta),
           \A n : Passed(pending, n) => n <= delta.last_update_id,
           Passed(pending, delta.last_update_id)'
    PROVE  ReaderInv'
PROOF
  <1>c. Connected /\ Connected'
    BY DEF Connected
  <1>1. RecordsTyped' /\ Ahead' = Ahead
    BY Zenon DEF ReaderInv, RecordsTyped, Ahead
  <1>2. JournalTrue' /\ Idle'
    BY Zenon, <1>c DEF ReaderInv, JournalTrue, Idle
  <1>3. QueueTrue' /\ Waiting' = Waiting
    BY Zenon DEF ReaderInv, QueueTrue, Waiting
  <1>4. StreamKnown'
    BY Zenon, <1>3 DEF ReaderInv, StreamKnown, StreamLeft
  <1>5. BuiltTrue'
    <2>1. \A x \in Symbols : Built(x)' <=> Built(x)
      BY Zenon DEF Built
    <2> QED BY Zenon, <1>1, <1>c, <2>1 DEF ReaderInv, BuiltTrue
  <1>6. shown[pending] \in Nat
    BY Zenon DEF ReaderInv, RecordsTyped
  <1>7. ShownPassed'
    <2>1. \A x \in Symbols : shown[x] \in Nat /\ Passed(x, shown[x])
      BY Zenon DEF ReaderInv, RecordsTyped, ShownPassed
    <2>2. \A x \in Symbols : \A n : n = shown'[x] => Passed(x, n)'
      BY Zenon, <2>1 DEF Flows
    <2> QED BY Zenon, <2>2 DEF ShownPassed
  <1>8. BuffersOrdered'
    <2>n. PICK n : n = Len(buffers)
      BY Zenon
    <2>1. /\ n \in Nat /\ Len(buffers') = n + 1 /\ buffers'[n + 1] = delta
          /\ \A i \in 1..n : buffers'[i] = buffers[i]
      BY <2>n DEF DepthInv, CollectorTypeOK
    <2>2. /\ delta.last_update_id \in Nat
          /\ \A i \in 1..n : buffers[i].last_update_id \in Nat
      BY Zenon, <2>n, BufferTyped DEF Deltas
    <2>3. \A i \in 1..n + 1 : i = n + 1 \/ i \in 1..n
      BY <2>1
    <2>4. \A i \in 1..n : /\ shown[pending] <= buffers[i].last_update_id
                          /\ Passed(pending, buffers[i].last_update_id)
                          /\ \A j \in i..n : buffers[i].last_update_id <= buffers[j].last_update_id
      BY Zenon, <2>n DEF ReaderInv, BuffersOrdered
    <2>5. shown[pending] <= delta.last_update_id
      BY Zenon DEF ReaderInv, ShownPassed
    <2> SUFFICES ASSUME NEW i \in 1..n + 1, NEW id, id = buffers'[i].last_update_id
                 PROVE  /\ shown[pending] <= id /\ Passed(pending, id)'
                        /\ \A j \in i..n + 1 : id <= buffers'[j].last_update_id
      BY Zenon, <2>1 DEF BuffersOrdered
    <2>6. CASE i = n + 1
      <3>1. id = delta.last_update_id
        BY Zenon, <2>1, <2>6
      <3>2. \A j \in i..n + 1 : j = n + 1
        BY <2>1, <2>6
      <3>3. id <= id
        BY <2>2, <3>1
      <3> QED BY Zenon, <2>1, <2>5, <3>1, <3>2, <3>3
    <2>7. CASE i \in 1..n
      <3>1. id = buffers[i].last_update_id
        BY Zenon, <2>1, <2>7
      <3>2. Passed(pending, id)' /\ id <= delta.last_update_id
        BY Zenon, <2>2, <2>4, <2>7, <3>1 DEF Flows
      <3>3. \A j \in i..n + 1 : j = n + 1 \/ (j \in 1..n /\ j \in i..n)
        BY <2>1, <2>7
      <3> QED BY Zenon, <2>1, <2>4, <2>7, <3>1, <3>2, <3>3
    <2> QED BY Zenon, <2>3, <2>6, <2>7
  <1>9. BooksPassed'
    <2> SUFFICES ASSUME NEW x \in Symbols, Ahead[x].status = "LIVE" PROVE BookPassed(x)'
      BY Zenon, <1>1 DEF BooksPassed
    <2>1. x # pending
      BY Zenon, <1>c DEF ReaderInv, BuiltTrue, Built
    <2>2. BookPassed(x)
      BY Zenon, <1>c DEF ReaderInv, BooksPassed
    <2>3. books[x].last_update_id \in Nat
      BY DEF DepthInv, CollectorTypeOK, Books
    <2>4. \A n : n = books'[x].last_update_id => Passed(x, n)'
      BY Zenon, <2>2, <2>3 DEF BookPassed, Flows
    <2> QED BY Zenon, <2>1, <2>2, <2>4 DEF BookPassed
  <1> QED BY Zenon, <1>1, <1>2, <1>3, <1>4, <1>5, <1>7, <1>8, <1>9 DEF ReaderInv

LEMMA ReceiveReads ==
    ASSUME DepthInv, DepthInv', ReaderInv, Receive PROVE ReaderInv'
PROOF
  <1>s. PICK s : s = Head(wire).symbol
    BY Zenon
  <1>d. PICK delta : delta = Head(wire).delta
    BY Zenon
  <1>u. UNCHANGED <<futures, venue, subscribed, requested, pending, draining>>
    BY Zenon DEF Receive, exchangeVars
  <1>0. phase = "collecting" /\ ~draining /\ wire # <<>> /\ wire' = Tail(wire)
    BY Zenon DEF Receive
  <1>c. Connected
    BY Zenon, <1>0 DEF Connected
  <1>1. /\ s \in Symbols /\ delta \in Deltas
        /\ Flows /\ WireOrdered' /\ StreamLeft
        /\ \A n : Passed(s, n) => n <= delta.last_update_id
        /\ Passed(s, delta.last_update_id)'
    BY Zenon, <1>0, <1>d, <1>s, <1>u, HeadPassed
  <1>2. CASE Connected' /\ UNCHANGED <<held, books, remaining, buffers, records, journal, shown>>
    <2>1. Moved
      BY Zenon, <1>2, <1>u DEF Moved
    <2> QED BY Zenon, <1>1, <1>2, <1>c, <1>u, <2>1, SkippedReads
  <1>3. CASE /\ s = pending /\ buffers' = Append(buffers, delta)
             /\ UNCHANGED <<phase, held, books, remaining, records, journal, shown>>
    BY Zenon, <1>0, <1>1, <1>3, <1>u, BufferedReads
  <1>4. CASE /\ s \in held /\ s # pending /\ UNCHANGED buffers
             /\ \E more \in Checkpoints(s, delta) : ApplyEvent(s, delta, more)
    <2>1. Built(s)
      BY Zenon, <1>4 DEF Built
    <2>2. shown[s] <= delta.last_update_id
      BY Zenon, <1>1 DEF ReaderInv, ShownPassed
    <2>3. PICK more \in Checkpoints(s, delta) : ApplyEvent(s, delta, more)
      BY Zenon, <1>4
    <2> QED BY Zenon, <1>0, <1>1, <1>4, <1>u, <2>1, <2>2, <2>3, EventReads
  <1>5. phase' = phase \/ phase' = "unwinding" => Connected'
    BY <1>0 DEF Connected
  <1> QED BY Zenon, <1>2, <1>3, <1>4, <1>5, <1>d, <1>s DEF Receive, BufferMessage, Raise

LEMMA ReaderStarts == Init => ReaderInv
PROOF
  <1> SUFFICES ASSUME Init PROVE ReaderInv
    OBVIOUS
  <1>i. /\ wire = <<>> /\ held = {} /\ remaining = <<>> /\ pending = NoSymbol /\ buffers = <<>>
        /\ records = <<>> /\ subscribed = {} /\ requested = {} /\ phase = "stopped"
        /\ journal = [s \in Symbols |-> [status |-> "NONE", rows |-> <<>>]]
        /\ shown = [s \in Symbols |-> 0]
        /\ venue = [s \in Symbols |-> [history |-> <<Opening>>, published |-> 1, touched |-> {}]]
    BY Zenon DEF Init
  <1>c. ~Connected
    BY Zenon, <1>i DEF Connected
  <1>e. 1..Len(wire) = {} /\ 1..Len(remaining) = {} /\ 1..Len(buffers) = {}
    BY <1>i
  <1>1. RecordsTyped
    <2>1. journal \in Journals
      <3>1. <<>> \in Seq(Rows)
        OBVIOUS
      <3> QED BY Zenon, <1>i, <3>1 DEF Journals, Stores
    <2>2. Ahead = journal
      BY Zenon, <1>i, WrittenNone DEF Ahead
    <2>3. records \in Seq(Rows) /\ shown \in [Symbols -> Nat]
      BY <1>i
    <2> QED BY Zenon, <2>1, <2>2, <2>3 DEF RecordsTyped
  <1>2. JournalTrue
    BY <1>i DEF JournalTrue
  <1>3. Idle /\ QueueTrue /\ BuiltTrue
    BY Zenon, <1>c, <1>e, <1>i DEF Idle, QueueTrue, BuiltTrue, Waiting
  <1>4. WireOrdered /\ BuffersOrdered /\ BooksPassed /\ StreamKnown
    BY Zenon, <1>c, <1>e, <1>i DEF WireOrdered, BuffersOrdered, BooksPassed, StreamKnown
  <1>5. ShownPassed
    <2>1. \A s \in Symbols : shown[s] <= venue[s].published
      BY <1>i
    <2> QED BY Zenon, <1>e, <2>1 DEF ShownPassed, Passed
  <1> QED BY Zenon, <1>1, <1>2, <1>3, <1>4, <1>5 DEF ReaderInv

LEMMA ReaderStep == ASSUME DepthInv, ReaderInv, [Next]_vars PROVE ReaderInv'
PROOF
  <1>0. DepthInv'
    BY Zenon, DepthStep
  <1>1. CASE UNCHANGED vars
    <2>1. UNCHANGED <<exchangeVars, wire, phase, connectionVars, records, journal, shown>>
      BY Zenon, <1>1 DEF vars
    <2>2. Connected' <=> Connected
      BY Zenon, <2>1 DEF Connected
    <2> QED BY Zenon, <2>1, <2>2, QuietReads
  <1>2. CASE Exchange
    BY Zenon, <1>0, <1>2, UpdateReads, PublishReads, SubscribeReads DEF Exchange
  <1>3. CASE Collector
    BY Zenon, <1>0, <1>3, PickPendingReads, TakeSnapshotReads, DrainBufferReads, ReceiveReads,
       FlushReads, ConnectReads, SupervisorReads, EndReads DEF Collector
  <1>4. CASE DisturbStream \/ Start \/ Close \/ Die
    BY Zenon, <1>0, <1>4, DisturbReads, SupervisorReads, EndReads
  <1> QED BY Zenon, <1>1, <1>2, <1>3, <1>4 DEF Next

\* The journal, the batch and the stream are related as above in every run.
THEOREM DepthJournalInv == Spec => []ReaderInv
PROOF
  <1>1. Init => DepthInv /\ ReaderInv
    BY Zenon, DepthStarts, ReaderStarts
  <1>2. (DepthInv /\ ReaderInv) /\ [Next]_vars => (DepthInv /\ ReaderInv)'
    BY Zenon, DepthStep, ReaderStep
  <1> QED BY <1>1, <1>2, PTL DEF Spec

\* What read_local_depth makes of a symbol's journal.
LEMMA WhatIsRead ==
    ASSUME ReaderInv, NEW s \in Symbols
    PROVE  /\ journal[s].status = "LIVE" => ReadLocalDepth(journal[s]).ok
           /\ ReadLocalDepth(journal[s]).ok =>
                 /\ Shows(ReadLocalDepth(journal[s]).book, venue[s].history)
                 /\ ReadLocalDepth(journal[s]).book.last_update_id = shown[s]
PROOF
  <1>1. CASE journal[s].status = "LIVE"
    <2>1. PICK book : /\ Restores(journal[s], futures, book)
                      /\ Shows(book, venue[s].history)
                      /\ book.last_update_id = shown[s]
      BY Zenon, <1>1 DEF ReaderInv, JournalTrue
    <2>2. ReadLocalDepth(journal[s]).ok = TRUE /\ ReadLocalDepth(journal[s]).book = book
      BY Zenon, <1>1, <2>1, ReadLive
    <2> QED BY Zenon, <2>1, <2>2
  <1>2. CASE journal[s].status # "LIVE"
    <2>1. ReadLocalDepth(journal[s]).ok = FALSE
      BY Zenon, <1>2, ReadOther
    <2> QED BY Zenon, <1>2, <2>1
  <1> QED BY Zenon, <1>1, <1>2

\* "Never ... return a stale, unbridged, or gapped book": whatever the stream
\* loses or repeats and whichever write fails, what read_local_depth returns is
\* a book the exchange had.
THEOREM LocalDepthIsTrue == Spec => []LocalDepthTrue
PROOF
  <1>1. ReaderInv => LocalDepthTrue
    BY Zenon, WhatIsRead DEF LocalDepthTrue
  <1> QED BY <1>1, DepthJournalInv, PTL

\* The reader accepts every row the collector accepted: a journal whose head is
\* live replays to the end, at every moment at which a reader may look.
THEOREM LiveJournalsReplay == Spec => []LiveJournalReplays
PROOF
  <1>1. ReaderInv => LiveJournalReplays
    BY Zenon, WhatIsRead DEF LiveJournalReplays
  <1> QED BY <1>1, DepthJournalInv, PTL

\* Readers never go back: across resyncs, reconnections and restarts the book a
\* reader is given is the newest any reader was given.
THEOREM ReadersNeverGoBack == Spec => []ReaderNeverGoesBack
PROOF
  <1>1. ReaderInv => ReaderNeverGoesBack
    BY Zenon, WhatIsRead DEF ReaderNeverGoesBack
  <1> QED BY <1>1, DepthJournalInv, PTL
=============================================================================
