------------------------ MODULE MarketHistoryProofs ------------------------
(***************************************************************************)
(* Theorems about the candle history of one dataset, for any sizes of      *)
(* pages and months, any listing and any number of candles and crashes.    *)
(***************************************************************************)
EXTENDS MarketHistory, WellFoundedInduction, TLAPS

-----------------------------------------------------------------------------
(* Bounds of sets of candles. *)

\* A set of naturals that is not empty has a least element.
LEMMA Least ==
  ASSUME NEW S, S \subseteq Nat, S # {}
  PROVE  \E x \in S : \A y \in S : x <= y
PROOF
  <1> DEFINE R == {ss \in Nat \X Nat : ss[1] < ss[2]}
  <1>1. IsWellFoundedOn(R, Nat)
    BY Zenon, NatLessThanWellFounded DEF OpToRel
  <1>2. \A x, y \in Nat : x < y => <<x, y>> \in R
    BY Zenon
  <1> HIDE DEF R
  <1>3. \E x \in S : \A y \in S : ~ (<<y, x>> \in R)
    BY Zenon, <1>1, WFMin
  <1>4. PICK x \in S : \A y \in S : ~ (<<y, x>> \in R)
    BY Zenon, <1>3
  <1>5. \A y \in S : ~ (y < x)
    BY Zenon, <1>2, <1>4
  <1>6. \A y \in S : x <= y
    BY <1>5
  <1> QED BY Zenon, <1>6

\* A bounded set of naturals that is not empty has a greatest element.
LEMMA Greatest ==
  ASSUME NEW S, S \subseteq Nat, S # {}, NEW b \in Nat, \A x \in S : x <= b
  PROVE  \E x \in S : \A y \in S : y <= x
PROOF
  <1> DEFINE D == {b - x : x \in S}
  <1>1. D \subseteq Nat /\ D # {}
    <2>1. PICK x \in S : TRUE
      BY Zenon
    <2>2. b - x \in D
      BY Zenon
    <2>3. D \subseteq Nat
      OBVIOUS
    <2> QED BY Zenon, <2>2, <2>3
  <1> HIDE DEF D
  <1>2. PICK d \in D : \A e \in D : d <= e
    BY Zenon, <1>1, Least
  <1>3. PICK x \in S : d = b - x
    BY Zenon, <1>2 DEF D
  <1>4. ASSUME NEW y \in S PROVE y <= x
    <2>1. b - y \in D
      BY Zenon DEF D
    <2>2. d <= b - y
      BY Zenon, <1>2, <2>1
    <2> QED BY <2>2, <1>3
  <1> QED BY Zenon, <1>4

\* What Min and Max choose.
LEMMA MinOf ==
  ASSUME NEW S, S \subseteq Nat, S # {}
  PROVE  /\ Min(S) \in S /\ Min(S) \in Nat
         /\ \A y \in S : Min(S) <= y
PROOF
  <1>1. \E x \in S : \A y \in S : x <= y
    BY Zenon, Least
  <1>2. Min(S) \in S /\ \A y \in S : Min(S) <= y
    BY Zenon, <1>1 DEF Min
  <1> QED BY Zenon, <1>2

LEMMA MaxOf ==
  ASSUME NEW S, S \subseteq Nat, S # {}, NEW b \in Nat, \A x \in S : x <= b
  PROVE  /\ Max(S) \in S /\ Max(S) \in Nat
         /\ \A y \in S : y <= Max(S)
PROOF
  <1>1. \E x \in S : \A y \in S : y <= x
    BY Zenon, Greatest
  <1>2. \E x \in S : \A y \in S : x >= y
    BY Zenon, <1>1
  <1>3. Max(S) \in S /\ \A y \in S : Max(S) >= y
    BY Zenon, <1>2 DEF Max
  <1> QED BY Zenon, <1>3

\* The greater and the smaller of two numbers.
LEMMA MaxPair ==
  ASSUME NEW a \in Nat, NEW b \in Nat
  PROVE  Max({a, b}) = IF a <= b THEN b ELSE a
PROOF
  <1>1. {a, b} \subseteq Nat /\ {a, b} # {} /\ a + b \in Nat
        /\ \A x \in {a, b} : x <= a + b
    OBVIOUS
  <1>2. Max({a, b}) \in {a, b} /\ \A y \in {a, b} : y <= Max({a, b})
    BY Zenon, <1>1, MaxOf
  <1> QED BY <1>2

LEMMA MinPair ==
  ASSUME NEW a \in Nat, NEW b \in Nat
  PROVE  Min({a, b}) = IF a <= b THEN a ELSE b
PROOF
  <1>1. {a, b} \subseteq Nat /\ {a, b} # {}
    BY Zenon
  <1>2. Min({a, b}) \in {a, b} /\ \A y \in {a, b} : Min({a, b}) <= y
    BY Zenon, <1>1, MinOf
  <1> QED BY <1>2

\* A hole is a pair of neighbours.
LEMMA HolePair ==
  ASSUME NEW S, NEW p \in Holes(S)
  PROVE  \E x \in S, y \in S :
            p = <<x, y>> /\ x + 1 < y /\ \A t \in x + 1 .. y - 1 : t \notin S
PROOF
  <1>1. p \in S \X S /\ p[1] + 1 < p[2] /\ \A t \in p[1] + 1 .. p[2] - 1 : t \notin S
    BY Zenon DEF Holes
  <1>2. p = <<p[1], p[2]>> /\ p[1] \in S /\ p[2] \in S
    BY <1>1
  <1> QED BY Zenon, <1>1, <1>2

\* A set of candles without holes is an interval.
LEMMA NoHoles ==
  ASSUME NEW S, S \subseteq Nat, NEW b \in Nat, \A x \in S : x <= b,
         Holes(S) = {}, NEW lo \in S, NEW hi \in S, NEW t \in lo .. hi
  PROVE  t \in S
PROOF
  <1>1. SUFFICES ASSUME t \notin S PROVE FALSE
    BY Zenon
  <1> DEFINE Below == {x \in S : x < t}
             Above == {x \in S : t < x}
  <1>2. t \in Nat /\ lo < t /\ t < hi
    BY <1>1
  <1>3. Below \subseteq Nat /\ Below # {} /\ (\A x \in Below : x <= b)
        /\ Above \subseteq Nat /\ Above # {}
    BY Zenon, <1>2
  <1>4. PICK l \in Below : \A y \in Below : y <= l
    BY Zenon, <1>3, Greatest
  <1>5. PICK h \in Above : \A y \in Above : h <= y
    BY Zenon, <1>3, Least
  <1>6. l \in S /\ h \in S /\ l \in Nat /\ h \in Nat /\ l < t /\ t < h
    BY Zenon
  <1>7. \A u \in l + 1 .. h - 1 : u \notin S
    BY <1>1, <1>2, <1>4, <1>5, <1>6
  <1>8. <<l, h>> \in Holes(S)
    BY <1>6, <1>7 DEF Holes
  <1> QED BY Zenon, <1>8

\* The holes of a set that grows at its end (append_verified_tail): those of the
\* two parts and the hole between them.
LEMMA TailHoles ==
  ASSUME NEW A, NEW B, A \subseteq Nat, B \subseteq Nat, A # {}, B # {},
         NEW b \in Nat, \A x \in A \cup B : x <= b,
         \A x \in A, y \in B : x < y
  PROVE  Holes(A \cup B) = Holes(A) \cup Holes(B) \cup
            (IF Min(B) - Max(A) # 1 THEN {<<Max(A), Min(B)>>} ELSE {})
PROOF
  <1> DEFINE M == Max(A)  N == Min(B)
             J == IF N - M # 1 THEN {<<M, N>>} ELSE {}
  <1>1. M \in A /\ M \in Nat /\ \A y \in A : y <= M
    BY Zenon, MaxOf
  <1>2. N \in B /\ N \in Nat /\ \A y \in B : N <= y
    BY Zenon, MinOf
  <1> HIDE DEF M, N
  <1>3. M < N
    BY Zenon, <1>1, <1>2
  <1>4. ASSUME NEW p \in Holes(A \cup B) PROVE p \in Holes(A) \cup Holes(B) \cup J
    <2>1. PICK x \in A \cup B, y \in A \cup B :
             /\ p = <<x, y>> /\ x + 1 < y
             /\ \A t \in x + 1 .. y - 1 : t \notin A \cup B
      BY Zenon, HolePair
    <2>2. CASE x \in A /\ y \in A
      BY Zenon, <2>1, <2>2 DEF Holes
    <2>3. CASE x \in B /\ y \in B
      BY Zenon, <2>1, <2>3 DEF Holes
    <2>4. CASE x \in B /\ y \in A
      BY <2>1, <2>4
    <2>5. CASE x \in A /\ y \in B
      <3>1. x \in Nat /\ y \in Nat /\ x <= M /\ N <= y
        BY Zenon, <2>5, <1>1, <1>2
      <3>2. x = M
        BY <3>1, <2>1, <1>1, <1>2, <1>3
      <3>3. y = N
        BY <3>1, <2>1, <1>1, <1>2, <1>3
      <3> QED BY <2>1, <3>2, <3>3, <1>1, <1>2
    <2> QED BY Zenon, <2>2, <2>3, <2>4, <2>5
  <1>5. ASSUME NEW p \in Holes(A) PROVE p \in Holes(A \cup B)
    <2>1. PICK x \in A, y \in A :
             p = <<x, y>> /\ x + 1 < y /\ \A t \in x + 1 .. y - 1 : t \notin A
      BY Zenon, HolePair
    <2>2. \A t \in x + 1 .. y - 1 : t \notin A \cup B
      BY <2>1
    <2> QED BY Zenon, <2>1, <2>2 DEF Holes
  <1>6. ASSUME NEW p \in Holes(B) PROVE p \in Holes(A \cup B)
    <2>1. PICK x \in B, y \in B :
             p = <<x, y>> /\ x + 1 < y /\ \A t \in x + 1 .. y - 1 : t \notin B
      BY Zenon, HolePair
    <2>2. \A t \in x + 1 .. y - 1 : t \notin A \cup B
      BY <2>1
    <2> QED BY Zenon, <2>1, <2>2 DEF Holes
  <1>7. ASSUME NEW p \in J PROVE p \in Holes(A \cup B)
    <2>1. p = <<M, N>> /\ M + 1 < N
      BY <1>1, <1>2, <1>3
    <2>2. \A t \in M + 1 .. N - 1 : t \notin A \cup B
      BY <1>1, <1>2
    <2> QED BY Zenon, <1>1, <1>2, <2>1, <2>2 DEF Holes
  <1>8. Holes(A \cup B) = Holes(A) \cup Holes(B) \cup J
    BY Zenon, <1>4, <1>5, <1>6, <1>7
  <1> QED BY Zenon, <1>8 DEF M, N

-----------------------------------------------------------------------------
(* What the requests and the walk over the dataset yield. *)

\* An answer holds candles of the symbol from the start time on and before the
\* end time, the first of them among them.
LEMMA KlinesFacts ==
  ASSUME listed \in Nat, NEW from \in Nat, NEW to \in Int, NEW limit \in Nat \ {0}
  PROVE  /\ Klines(from, to, limit) \subseteq Nat
         /\ \A t \in Klines(from, to, limit) : from <= t /\ listed <= t /\ t < to
         /\ from < to /\ listed < to => Klines(from, to, limit) # {}
         /\ listed <= from /\ from < to => from \in Klines(from, to, limit)
         /\ \A t \in Klines(from, to, limit) :
               \A u \in from .. t : u < listed \/ u \in Klines(from, to, limit)
PROOF
  <1> DEFINE m == Max({from, listed})
  <1>1. m = IF from <= listed THEN listed ELSE from
    BY Zenon, MaxPair
  <1> HIDE DEF m
  <1>2. Klines(from, to, limit) = {t \in m .. to - 1 : t < m + limit}
    BY Zenon DEF Klines, m
  <1>3. from < to /\ listed < to => m \in Klines(from, to, limit)
    BY <1>1, <1>2
  <1> QED BY <1>1, <1>2, <1>3

\* The first candle that is missing, and what comes before it.
LEMMA MissingFromFacts ==
  ASSUME NEW start \in Nat, NEW stored, NEW e \in start .. LastCandle, e \notin stored,
         LastCandle \in Nat
  PROVE  /\ MissingFrom(start, stored) \in start .. e
         /\ MissingFrom(start, stored) \notin stored
         /\ \A t \in start .. MissingFrom(start, stored) - 1 : t \in stored
PROOF
  <1> DEFINE S == {t \in start .. LastCandle : t \notin stored}
  <1>1. S \subseteq Nat /\ e \in S
    OBVIOUS
  <1>2. Min(S) \in S /\ \A y \in S : Min(S) <= y
    BY Zenon, <1>1, MinOf
  <1>3. MissingFrom(start, stored) = Min(S)
    BY Zenon DEF MissingFrom
  <1> DEFINE m == Min(S)
  <1> HIDE DEF m
  <1>4. m \in S /\ \A y \in S : m <= y
    BY Zenon, <1>2 DEF m
  <1>5. m \in start .. e /\ m \notin stored /\ \A t \in start .. m - 1 : t \in stored
    BY <1>1, <1>4
  <1> QED BY Zenon, <1>3, <1>5 DEF m

LEMMA MissingToFacts ==
  ASSUME task.end \in Nat, NEW start, NEW stored, stored \subseteq Nat
  PROVE  MissingTo(start, stored) \in Nat /\ MissingTo(start, stored) <= task.end
PROOF
  <1> DEFINE S == {task.end} \cup {t \in stored : t > start}
  <1>1. S \subseteq Nat /\ task.end \in S
    BY Zenon
  <1>2. Min(S) \in Nat /\ \A y \in S : Min(S) <= y
    BY Zenon, <1>1, MinOf
  <1>3. Min(S) <= task.end
    BY Zenon, <1>1, <1>2
  <1> QED BY Zenon, <1>2, <1>3 DEF MissingTo

LEMMA MonthEndNat ==
  ASSUME NEW t \in Nat, Month \in Nat \ {0}
  PROVE  MonthEnd(t) \in Nat
PROOF
  <1>1. t \div Month \in Nat
    OBVIOUS
  <1>2. (t \div Month + 1) \in Nat
    BY <1>1
  <1> DEFINE q == t \div Month + 1
  <1> HIDE DEF q
  <1>3. q * Month \in Nat
    BY <1>2 DEF q
  <1> QED BY Zenon, <1>3 DEF MonthEnd, q

-----------------------------------------------------------------------------
(* Manifests. *)

\* The candles a dataset may hold have a newest one.
LEMMA MaxStored ==
  ASSUME NEW S, NEW lo \in Nat, NEW hi \in Nat, S \subseteq lo .. hi - 1, S # {}
  PROVE  /\ S \subseteq Nat
         /\ Max(S) \in S /\ Max(S) \in Nat /\ \A y \in S : y <= Max(S)
         /\ Min(S) \in S /\ Min(S) \in Nat /\ \A y \in S : Min(S) <= y
PROOF
  <1>1. S \subseteq Nat /\ \A x \in S : x <= hi
    OBVIOUS
  <1> QED BY Zenon, <1>1, MaxOf, MinOf

\* ManifestOf is true of the file it is computed from (update, truncate_from).
LEMMA ManifestOfTrue ==
  ASSUME listed \in Nat, closed \in Nat, closed <= LastCandle, LastCandle \in Nat,
         NEW S, S \subseteq listed .. closed - 1, S # {}, NEW e \in BOOLEAN
  PROVE  /\ ManifestOf(S, e) \in Manifests /\ ManifestOf(S, e) # NoManifest
         /\ ManifestOf(S, e).checksum = S
         /\ TrueOf(ManifestOf(S, e))
PROOF
  <1>1. Max(S) \in S /\ Min(S) \in S
    BY Zenon, MaxStored
  <1>2. S \subseteq Candles
    BY DEF Candles
  <1>3. Holes(S) \in SUBSET (Candles \X Candles)
    BY Zenon, <1>2 DEF Holes
  <1>4. Max(S) \in Candles /\ Min(S) \in Candles
    BY Zenon, <1>1, <1>2
  <1> DEFINE m == ManifestOf(S, e)
  <1>5. m = [checksum |-> S, first |-> Min(S), last |-> Max(S), gaps |-> Holes(S), early |-> e]
    BY Zenon DEF ManifestOf
  <1> HIDE DEF m
  <1>6. m \in Manifests
    BY Zenon, <1>2, <1>3, <1>4, <1>5 DEF Manifests
  <1>7. m # NoManifest /\ m.checksum = S
    BY Zenon, <1>5 DEF NoManifest
  <1>8. TrueOf(m)
    BY Zenon, <1>5 DEF TrueOf
  <1> QED BY Zenon, <1>6, <1>7, <1>8 DEF m

\* AppendedManifest is true of the grown file, though it is computed from the
\* old manifest and the new candles only (append_verified_tail).
LEMMA AppendedManifestTrue ==
  ASSUME listed \in Nat, closed \in Nat, closed <= LastCandle, LastCandle \in Nat,
         Verified, TrueOf(manifest), manifest \in Manifests,
         NEW S, S \subseteq listed .. closed - 1, S # {}, \A t \in S : manifest.last < t
  PROVE  /\ AppendedManifest(S) \in Manifests /\ AppendedManifest(S) # NoManifest
         /\ AppendedManifest(S).checksum = parquet \cup S
         /\ TrueOf(AppendedManifest(S))
PROOF
  <1>1. /\ parquet # {} /\ parquet \subseteq listed .. closed - 1
        /\ manifest.first = Min(parquet) /\ manifest.last = Max(parquet)
        /\ manifest.gaps = Holes(parquet)
    BY Zenon DEF Verified, TrueOf
  <1>2. /\ parquet \subseteq Nat /\ Max(parquet) \in parquet
        /\ Max(parquet) \in Nat /\ Min(parquet) \in Nat
        /\ \A y \in parquet : y <= Max(parquet)
        /\ Min(parquet) \in parquet /\ \A y \in parquet : Min(parquet) <= y
    BY Zenon, <1>1, MaxStored
  <1>3. /\ S \subseteq Nat /\ Max(S) \in S /\ \A y \in S : y <= Max(S)
        /\ Min(S) \in S /\ Max(S) \in Nat
    BY Zenon, MaxStored
  <1> DEFINE U == parquet \cup S
  <1>4. U \subseteq listed .. closed - 1 /\ U # {}
    BY Zenon, <1>1
  <1>5. Max(U) \in U /\ Max(U) \in Nat /\ (\A y \in U : y <= Max(U))
        /\ Min(U) \in U /\ Min(U) \in Nat /\ \A y \in U : Min(U) <= y
    BY Zenon, <1>4, MaxStored
  <1>6. \A x \in parquet, y \in S : x < y
    <2>1. \A y \in S : y \in Nat /\ Max(parquet) < y
      BY Zenon, <1>1, <1>3
    <2> QED BY <1>2, <2>1
  <1>7. Max(U) = Max(S)
    <2>1. Max(S) \in U
      BY Zenon, <1>3
    <2>2. Max(U) \in S
      BY <1>3, <1>5, <1>6, <2>1, <1>2
    <2> QED BY <1>3, <1>5, <2>1, <2>2
  <1>8. Min(U) = Min(parquet)
    <2>1. Min(parquet) \in U
      BY Zenon, <1>2
    <2>2. Min(U) \in parquet
      BY <1>2, <1>3, <1>5, <1>6, <2>1
    <2> QED BY <1>2, <1>5, <2>1, <2>2
  <1>9. Holes(U) = Holes(parquet) \cup Holes(S) \cup
            (IF Min(S) - Max(parquet) # 1 THEN {<<Max(parquet), Min(S)>>} ELSE {})
    <2>1. \A x \in parquet \cup S : x <= closed
      BY <1>1
    <2> QED BY Zenon, <1>1, <1>2, <1>3, <1>6, <2>1, TailHoles
  <1>10. AppendedManifest(S) = ManifestOf(U, FALSE)
    BY Zenon, <1>1, <1>7, <1>8, <1>9 DEF AppendedManifest, ManifestOf
  <1> QED BY Zenon, <1>4, <1>10, ManifestOfTrue

-----------------------------------------------------------------------------
(* The invariant is inductive: one lemma per step of a call. *)

\* What the invariant says of the types, for use below.
LEMMA InvTypes ==
  ASSUME HistoryInv
  PROVE  /\ closed \in Nat /\ 1 <= closed /\ closed <= LastCandle /\ listed \in Nat
         /\ parquet \subseteq Nat /\ LastCandle \in Nat /\ heard \in Nat
         /\ task \in TaskType /\ HistoryTypeOK
PROOF
  BY HistoryAssumption DEF HistoryInv, HistoryTypeOK, Candles

\* A call that has ended.
LEMMA NoTaskTyped ==
  /\ NoTask \in TaskType /\ NoTask.pc = "none" /\ NoTask.next = NoManifest
  /\ NoTask.end = 0 /\ NoTask.cursor = 0 /\ NoTask.stop = 0
  /\ NoTask.stored = {} /\ NoTask.fetched = {}
PROOF
  BY DEF NoTask, TaskType, NoCandle, Calling

\* Nothing is under way and the files are as they were.
LEMMA IdleInv ==
  ASSUME HistoryInv, task' = NoTask, UNCHANGED <<parquet, manifest, closed, listed>>,
         HistoryTypeOK', LiveInv'
  PROVE  HistoryInv'
PROOF
  <1>1. NoTask \in TaskType /\ NoTask.pc = "none" /\ NoTask.next = NoManifest
        /\ NoTask.end = 0 /\ NoTask.cursor = 0 /\ NoTask.stop = 0
        /\ NoTask.stored = {} /\ NoTask.fetched = {}
    BY Zenon, NoTaskTyped
  <1>2. closed \in Nat
    BY Zenon, InvTypes
  <1>3. FilesInv'
    BY Zenon, <1>1 DEF HistoryInv, FilesInv, TrueOf, Verified, Mending, Walking
  <1>4. CallInv'
    BY <1>1, <1>2 DEF CallInv, Calling, Mending, Walking
  <1>5. WalkInv'
    BY Zenon, <1>1 DEF WalkInv, Walking
  <1> QED BY Zenon, <1>1, <1>3, <1>4, <1>5 DEF HistoryInv

\* The call returns: the gateway goes live only over a whole dataset.
LEMMA ReturnInv ==
  ASSUME HistoryInv, task.pc \in Calling, NEW status, Return(status), UNCHANGED archiveVars,
         progress' \in [next : 0 .. LastCandle, first : Candles \cup {NoCandle}],
         status \in {"BLOCKED", "UNAVAILABLE", "BACKFILLING"} \/ task.tail
            \/ (Verified /\ manifest.gaps = {})
  PROVE  HistoryInv'
PROOF
  <1>1. closed \in Nat /\ 1 <= closed /\ closed <= LastCandle
    BY Zenon, InvTypes
  <1>2. /\ task' = NoTask /\ UNCHANGED <<parquet, manifest, closed, listed, crashes>>
        /\ heard' \in {closed - 1, closed}
    BY Zenon DEF Return, archiveVars
  <1>3. gateway' \in {"down", "cycle", "live"}
    BY Zenon DEF Return, AfterCycle
  <1>4. gateway' = "live" => Verified /\ manifest.gaps = {}
    BY Zenon DEF Return, AfterCycle
  <1>5. HistoryTypeOK'
    <2>1. heard' \in 0 .. LastCandle /\ 0 \in 0 .. LastCandle /\ 0 \in 0 .. closed
      BY <1>1, <1>2, InvTypes
    <2> QED BY Zenon, <1>2, <1>3, <2>1, NoTaskTyped DEF HistoryInv, HistoryTypeOK
  <1>6. LiveInv'
    <2>1. gateway' = "live" => Holes(parquet) = {}
      BY Zenon, <1>4 DEF HistoryInv, FilesInv, TrueOf, Verified
    <2>2. \A t \in parquet : t <= closed - 1
      BY <1>1, InvTypes DEF HistoryInv, FilesInv
    <2>3. \A t \in parquet : t <= heard'
      BY <1>1, <1>2, <2>2, InvTypes
    <2> QED BY Zenon, <1>2, <1>4, <2>1, <2>3, NoTaskTyped DEF LiveInv, Verified
  <1> QED BY Zenon, <1>2, <1>5, <1>6, IdleInv

\* A candle closes.
LEMMA CloseCandleInv == HistoryInv /\ CloseCandle => HistoryInv'
PROOF
  <1> SUFFICES ASSUME HistoryInv, CloseCandle PROVE HistoryInv'
    BY Zenon
  <1>1. closed \in Nat /\ listed \in Nat /\ closed' = closed + 1 /\ closed' <= LastCandle
        /\ LastCandle \in Nat
        /\ UNCHANGED <<parquet, manifest, listed, progress, gateway, heard, task, crashes>>
    BY InvTypes DEF CloseCandle
  <1>2. listed .. closed - 1 \subseteq listed' .. closed' - 1
    BY <1>1
  <1>3. HistoryTypeOK' /\ task' \in TaskType
    <2>1. closed' \in Opening .. LastCandle /\ task.end \in 0 .. closed'
      BY <1>1, HistoryAssumption DEF HistoryInv, HistoryTypeOK
    <2> QED BY <1>1, <2>1 DEF HistoryInv, HistoryTypeOK, TaskType
  <1>4. FilesInv'
    BY Zenon, <1>1, <1>2 DEF HistoryInv, FilesInv, TrueOf, Verified
  <1>5. CallInv'
    <2>1. task.end <= closed'
      BY <1>1, InvTypes DEF HistoryInv, CallInv, TaskType
    <2> QED BY Zenon, <1>1, <2>1 DEF HistoryInv, CallInv
  <1>6. WalkInv'
    BY Zenon, <1>1 DEF HistoryInv, WalkInv
  <1>7. LiveInv'
    BY Zenon, <1>1 DEF HistoryInv, LiveInv, Verified
  <1> QED BY Zenon, <1>3, <1>4, <1>5, <1>6, <1>7 DEF HistoryInv

\* The saved progress, typed.
LEMMA ProgressTyped ==
  ASSUME HistoryInv, progress # NoProgress
  PROVE  /\ progress \in [next : 0 .. LastCandle, first : Candles \cup {NoCandle}]
         /\ progress.next \in Nat /\ progress.next <= LastCandle
         /\ progress.first \in Nat \cup {NoCandle}
         /\ progress.first \in Candles \cup {NoCandle}
PROOF
  BY InvTypes DEF HistoryTypeOK, Candles

\* A call begins.
LEMMA CollectInv ==
  ASSUME HistoryInv, NEW tail \in BOOLEAN, NEW lag \in {0, 1}, Collect(tail, lag)
  PROVE  HistoryInv'
PROOF
  <1> DEFINE end == ClosedEnd(lag)
             first == IF progress = NoProgress THEN NoCandle ELSE progress.first
             start == Start(end)
  <1>1. closed \in Nat /\ 1 <= closed /\ closed <= LastCandle /\ LastCandle \in Nat
        /\ listed \in Nat
    BY Zenon, InvTypes
  <1>2. end \in Nat /\ end <= closed /\ closed - 1 <= end
    BY <1>1 DEF ClosedEnd
  <1> HIDE DEF end
  <1>3. start \in Nat /\ start <= end
    BY <1>2, MinPair, ProgressTyped DEF Start
  <1>4. first \in Candles \cup {NoCandle} /\ first \in Nat \cup {NoCandle}
    BY Zenon, ProgressTyped
  <1> HIDE DEF start, first
  <1>5. /\ gateway = "cycle" /\ task.pc = "none" /\ task = NoTask
        /\ progress' = [next |-> start, first |-> first]
        /\ task' = [NoTask EXCEPT !.pc = "open", !.tail = tail, !.end = end,
                              !.cursor = start, !.first = first]
        /\ UNCHANGED <<parquet, manifest, closed, listed, gateway, heard, crashes>>
    BY Zenon DEF Collect, Here, Elsewhere, archiveVars, end, start, first, HistoryInv, CallInv
  <1>6. /\ task'.pc = "open" /\ task'.end = end /\ task'.cursor = start
        /\ task'.first = first /\ task'.stop = 0 /\ task'.next = NoManifest
        /\ task'.stored = {} /\ task'.fetched = {} /\ task' \in TaskType
    BY Zenon, <1>2, <1>3, <1>4, <1>5, NoTaskTyped DEF NoTask, TaskType, Calling
  <1>7. HistoryTypeOK'
    <2>1. start \in 0 .. LastCandle /\ end \in 0 .. closed
      BY <1>1, <1>2, <1>3
    <2> QED BY Zenon, <2>1, <1>4, <1>5, <1>6 DEF HistoryInv, HistoryTypeOK
  <1>8. FilesInv'
    BY Zenon, <1>5, <1>6 DEF HistoryInv, FilesInv, TrueOf, Verified, Mending, Walking
  <1>9. CallInv'
    <2>1. \A t \in parquet : t <= end
      BY <1>1, <1>2, InvTypes DEF HistoryInv, FilesInv
    <2>2. progress'.next = start /\ progress'.first = first /\ progress' # NoProgress
      BY Zenon, <1>5 DEF NoProgress
    <2> QED BY <1>1, <1>2, <1>3, <1>5, <1>6, <2>1, <2>2 DEF CallInv, Mending, Walking, Calling
  <1>10. WalkInv'
    BY Zenon, <1>6 DEF WalkInv, Walking
  <1>11. LiveInv'
    BY Zenon, <1>5 DEF LiveInv
  <1> QED BY Zenon, <1>6, <1>7, <1>8, <1>9, <1>10, <1>11 DEF HistoryInv

\* A step of a call that writes no file: what is left to show.
LEMMA StepInv ==
  ASSUME HistoryInv, task.pc \in Calling, task.next = NoManifest,
         UNCHANGED <<parquet, manifest, closed, listed, gateway, heard, crashes>>,
         progress' \in [next : 0 .. LastCandle, first : Candles \cup {NoCandle}],
         task' \in TaskType, task'.pc \in Calling, task'.next = NoManifest,
         task'.fetched \subseteq Candles, task'.cursor <= task'.end,
         task'.pc = "missing" => parquet = {},
         parquet = {} => task'.pc \notin Mending \cup {"seeded"},
         task'.pc \in Mending \cup Walking => parquet = {} \/ Verified,
         task'.pc # "seeded",
         CallInv', WalkInv'
  PROVE  HistoryInv'
PROOF
  <1>1. gateway = "cycle"
    BY Zenon DEF HistoryInv, CallInv
  <1>2. HistoryTypeOK'
    <2>1. task'.cursor \in Nat /\ task'.end \in Nat /\ task'.end <= closed
          /\ closed \in Nat /\ closed <= LastCandle /\ LastCandle \in Nat
      BY Zenon, InvTypes DEF CallInv, TaskType
    <2>2. task'.cursor \in 0 .. LastCandle /\ task'.end \in 0 .. closed
      BY <2>1
    <2> QED BY Zenon, <2>2 DEF HistoryInv, HistoryTypeOK, Candles
  <1>3. FilesInv'
    <2>1. task'.pc # "live"
      BY Zenon DEF Calling, Mending, Walking
    <2> QED BY Zenon, <2>1 DEF HistoryInv, FilesInv, TrueOf, Verified
  <1>4. LiveInv'
    BY Zenon, <1>1 DEF LiveInv
  <1> QED BY Zenon, <1>2, <1>3, <1>4 DEF HistoryInv

\* What a write leaves in the task.
LEMMA PutFields ==
  ASSUME NEW candles, NEW written, candles # parquet => written \in Manifests,
         NEW pc \in Calling \cup {"none", "live"}, NEW rest \in TaskType, rest.next = NoManifest, Put(candles, written, pc, rest)
  PROVE  /\ parquet' = candles /\ task' \in TaskType
         /\ task'.pc = pc /\ task'.end = rest.end /\ task'.cursor = rest.cursor
         /\ task'.first = rest.first /\ task'.stop = rest.stop /\ task'.left = rest.left
         /\ task'.stored = rest.stored /\ task'.fetched = rest.fetched
         /\ task'.tail = rest.tail
         /\ task'.next = IF candles = parquet THEN NoManifest ELSE written
PROOF
  <1>1. CASE candles = parquet
    BY <1>1 DEF Put, TaskType
  <1>2. CASE candles # parquet
    <2>1. PICK one : one = [rest EXCEPT !.pc = pc]
      BY Zenon
    <2>2. /\ one \in TaskType /\ one.pc = pc /\ one.end = rest.end /\ one.cursor = rest.cursor
          /\ one.first = rest.first /\ one.stop = rest.stop /\ one.left = rest.left
          /\ one.stored = rest.stored /\ one.fetched = rest.fetched /\ one.tail = rest.tail
      BY <2>1 DEF TaskType
    <2>3. parquet' = candles /\ task' = [one EXCEPT !.next = written] /\ written \in Manifests
      BY Zenon, <1>2, <2>1 DEF Put
    <2>4. /\ task' \in TaskType /\ task'.pc = one.pc /\ task'.end = one.end
          /\ task'.cursor = one.cursor /\ task'.first = one.first /\ task'.stop = one.stop
          /\ task'.left = one.left /\ task'.stored = one.stored
          /\ task'.fetched = one.fetched /\ task'.tail = one.tail /\ task'.next = written
      BY <2>2, <2>3 DEF TaskType
    <2> QED BY Zenon, <1>2, <2>2, <2>3, <2>4
  <1> QED BY Zenon, <1>1, <1>2

\* A step of a call that replaces the Parquet file: what is left to show.
LEMMA WriteInv ==
  ASSUME HistoryInv, task.pc \in Calling, task.next = NoManifest,
         NEW candles, candles \subseteq listed .. closed - 1,
         NEW written, NEW pc \in Calling, NEW rest \in TaskType,
         rest.next = NoManifest, Put(candles, written, pc, rest),
         UNCHANGED <<manifest, progress, closed, listed, gateway, heard, crashes>>,
         candles # parquet => /\ candles # {} /\ TrueOf(written) /\ written # NoManifest
                              /\ written \in Manifests /\ written.checksum = candles
                              /\ pc \notin {"open", "missing"},
         candles = parquet /\ pc \in Mending \cup Walking \cup {"seeded"}
            => parquet = {} \/ Verified,
         candles = {} => pc \notin Mending \cup {"seeded"},
         pc # "missing",
         rest.fetched \subseteq Candles, rest.cursor <= rest.end,
         CallInv', WalkInv'
  PROVE  HistoryInv'
PROOF
  <1>1. /\ parquet' = candles /\ task' \in TaskType /\ task'.pc = pc
        /\ task'.end = rest.end /\ task'.cursor = rest.cursor
        /\ task'.fetched = rest.fetched
        /\ task'.next = IF candles = parquet THEN NoManifest ELSE written
    BY PutFields
  <1>2. gateway = "cycle"
    BY Zenon DEF HistoryInv, CallInv
  <1>3. listed \in Nat /\ closed \in Nat /\ closed <= LastCandle /\ LastCandle \in Nat
    BY Zenon, InvTypes
  <1>4. HistoryTypeOK'
    <2>1. task'.cursor \in Nat /\ task'.end \in Nat /\ task'.end <= closed
      BY Zenon, <1>1 DEF CallInv, TaskType
    <2>2. task'.cursor \in 0 .. LastCandle /\ task'.end \in 0 .. closed
      BY <2>1, <1>1, <1>3
    <2>3. candles \subseteq Candles
      BY <1>3 DEF Candles
    <2> QED BY Zenon, <2>2, <2>3, <1>1 DEF HistoryInv, HistoryTypeOK, Candles
  <1>5. FilesInv'
    <2>1. pc # "live" /\ pc # "none"
      BY Zenon DEF Calling, Mending, Walking
    <2>2. CASE candles = parquet
      BY Zenon, <1>1, <2>1, <2>2 DEF HistoryInv, FilesInv, TrueOf, Verified
    <2>3. CASE candles # parquet
      BY Zenon, <1>1, <2>1, <2>3 DEF HistoryInv, FilesInv, TrueOf, Verified
    <2> QED BY Zenon, <2>2, <2>3
  <1>6. LiveInv'
    BY Zenon, <1>2 DEF LiveInv
  <1> QED BY Zenon, <1>1, <1>4, <1>5, <1>6 DEF HistoryInv

\* The manifest is replaced after the file.
LEMMA WriteManifestInv == HistoryInv /\ WriteManifest => HistoryInv'
PROOF
  <1> SUFFICES ASSUME HistoryInv, WriteManifest PROVE HistoryInv'
    OBVIOUS
  <1>1. /\ task.next # NoManifest /\ manifest' = task.next
        /\ UNCHANGED <<parquet, closed, listed, progress, gateway, heard, crashes>>
        /\ task' = IF task.pc = "live" THEN NoTask ELSE [task EXCEPT !.next = NoManifest]
    BY Zenon DEF WriteManifest, Here
  <1>2. /\ task.next.checksum = parquet /\ TrueOf(task.next) /\ parquet # {}
        /\ task.next \in Manifests /\ task \in TaskType
    BY Zenon, <1>1 DEF HistoryInv, FilesInv, TrueOf, TaskType
  <1>3. Verified'
    BY Zenon, <1>1, <1>2 DEF Verified
  <1>4. task' \in TaskType /\ task'.next = NoManifest
    BY <1>1, <1>2, NoTaskTyped DEF TaskType
  <1>5. CASE task.pc = "live"
    <2>1. task' = NoTask
      BY Zenon, <1>1, <1>5
    <2>2. HistoryTypeOK'
      <3>1. 0 \in 0 .. LastCandle /\ 0 \in 0 .. closed
        BY InvTypes
      <3> QED BY Zenon, <1>1, <1>2, <2>1, <3>1, NoTaskTyped DEF HistoryInv, HistoryTypeOK
    <2>3. FilesInv'
      BY Zenon, <1>1, <1>2, <2>1, NoTaskTyped DEF HistoryInv, FilesInv, TrueOf, Mending, Walking
    <2>4. CallInv'
      <3>1. closed' \in Nat
        BY Zenon, <1>1, InvTypes
      <3> QED BY <2>1, <3>1, NoTaskTyped DEF CallInv, Calling, Mending, Walking
    <2>5. WalkInv'
      BY Zenon, <2>1, NoTaskTyped DEF WalkInv, Walking
    <2>6. LiveInv'
      BY Zenon, <1>1, <1>3, <2>1, NoTaskTyped DEF HistoryInv, LiveInv
    <2> QED BY Zenon, <1>4, <2>2, <2>3, <2>4, <2>5, <2>6 DEF HistoryInv
  <1>6. CASE task.pc # "live"
    <2>1. /\ task'.pc = task.pc /\ task'.end = task.end /\ task'.cursor = task.cursor
          /\ task'.first = task.first /\ task'.stop = task.stop /\ task'.left = task.left
          /\ task'.stored = task.stored /\ task'.fetched = task.fetched
      BY Zenon, <1>1, <1>2, <1>6 DEF TaskType
    <2>2. task.pc \in Calling
      BY Zenon, <1>1, <1>6, <1>2 DEF HistoryInv, FilesInv, TaskType
    <2>3. HistoryTypeOK'
      BY Zenon, <1>1, <1>2, <2>1 DEF HistoryInv, HistoryTypeOK
    <2>4. FilesInv'
      BY Zenon, <1>1, <1>2, <1>3, <1>4, <2>1 DEF HistoryInv, FilesInv, TrueOf
    <2>5. CallInv'
      <3>1. task.pc # "none"
        BY Zenon, <2>2 DEF Calling, Mending, Walking
      <3> QED BY Zenon, <1>1, <2>1, <3>1 DEF HistoryInv, CallInv
    <2>6. WalkInv'
      BY Zenon, <1>1, <2>1 DEF HistoryInv, WalkInv
    <2>7. LiveInv'
      BY Zenon, <1>1, <2>2 DEF HistoryInv, CallInv, LiveInv
    <2> QED BY <1>4, <2>3, <2>4, <2>5, <2>6, <2>7 DEF HistoryInv
  <1> QED BY Zenon, <1>5, <1>6

\* The first page of a dataset that does not exist yet.
LEMMA SeedInv == HistoryInv /\ Seed => HistoryInv'
PROOF
  <1> SUFFICES ASSUME HistoryInv, Seed PROVE HistoryInv'
    OBVIOUS
  <1> DEFINE from == Max({task.cursor, task.end - Page})
             got == Klines(from, task.end, PagesPerStream * Page)
  <1>1. /\ task.pc = "open" /\ task.next = NoManifest /\ parquet = {} /\ task.first = NoCandle
        /\ task.pc \in Calling
    BY Zenon DEF Seed, Step, Here, Unseeded, Calling
  <1>2. /\ task \in TaskType /\ task.cursor \in Nat /\ task.end \in Nat
        /\ task.cursor <= task.end /\ task.end <= closed /\ closed <= LastCandle
        /\ closed \in Nat /\ listed \in Nat /\ LastCandle \in Nat
        /\ task.fetched = {} /\ task.stored = {} /\ task.stop \in Nat /\ task.stop <= task.end
    BY Zenon, <1>1, InvTypes DEF HistoryInv, CallInv, TaskType, Walking
  <1>3. /\ progress # NoProgress /\ progress.first = NoCandle
        /\ task.cursor = progress.next /\ gateway = "cycle"
    BY Zenon, <1>1 DEF HistoryInv, CallInv, Calling, Walking
  <1>4. from \in Nat /\ task.cursor <= from /\ (task.cursor < task.end => from < task.end)
    <2>1. CASE task.end - Page \in Nat
      BY <1>2, <2>1, MaxPair, HistoryAssumption
    <2>2. CASE task.end - Page \notin Nat
      <3>1. task.end - Page < task.cursor
        BY <1>2, <2>2, HistoryAssumption
      <3>2. \E x \in {task.cursor, task.end - Page} :
               \A y \in {task.cursor, task.end - Page} : x >= y
        BY <1>2, <3>1, HistoryAssumption
      <3>3. from = task.cursor
        BY <1>2, <3>1, <3>2, HistoryAssumption DEF Max
      <3> QED BY <1>2, <3>3
    <2> QED BY Zenon, <2>1, <2>2
  <1> HIDE DEF from
  <1>6. /\ \A t \in got : t \in Nat /\ from <= t /\ listed <= t /\ t < task.end
        /\ from < task.end /\ listed < task.end => got # {}
    <2> DEFINE limit == PagesPerStream * Page
    <2>1. limit \in Nat \ {0} /\ task.end \in Int /\ listed \in Nat /\ from \in Nat
      BY <1>2, <1>4, HistoryAssumption
    <2> HIDE DEF limit
    <2>2. /\ Klines(from, task.end, limit) \subseteq Nat
          /\ \A t \in Klines(from, task.end, limit) : from <= t /\ listed <= t /\ t < task.end
          /\ from < task.end /\ listed < task.end => Klines(from, task.end, limit) # {}
      BY Zenon, <2>1, KlinesFacts
    <2> QED BY Zenon, <2>2 DEF limit
  <1> HIDE DEF got
  <1>7. CASE got = {}
    <2>1. /\ UNCHANGED <<parquet, manifest, progress>>
          /\ \/ task.tail /\ Return("UNAVAILABLE")
             \/ /\ task' = [task EXCEPT !.pc = "missing"]
                /\ UNCHANGED <<closed, listed, gateway, heard, crashes>>
      BY Zenon, <1>7 DEF Seed, got, from, Go, Elsewhere, archiveVars
    <2>2. CASE task.tail /\ Return("UNAVAILABLE")
      BY Zenon, <1>1, <1>3, <2>1, <2>2, ReturnInv, ProgressTyped DEF archiveVars
    <2>3. CASE task' = [task EXCEPT !.pc = "missing"]
               /\ UNCHANGED <<closed, listed, gateway, heard, crashes>>
      <3>1. /\ task' \in TaskType /\ task'.pc = "missing" /\ task'.pc \in Calling
            /\ task'.next = NoManifest /\ task'.cursor = task.cursor /\ task'.end = task.end
            /\ task'.fetched = {} /\ task'.stored = {} /\ task'.first = NoCandle
            /\ task'.stop = task.stop
        BY Zenon, <1>1, <1>2, <2>3 DEF TaskType, Calling
      <3>2. CallInv'
        BY <1>1, <1>2, <1>3, <2>1, <2>3, <3>1 DEF CallInv, Calling, Walking, Mending
      <3>3. \A t \in task.cursor .. task.end - 1 : t < listed
        BY <1>2, <1>4, <1>6, <1>7
      <3>4. WalkInv'
        BY Zenon, <2>1, <2>3, <3>1, <3>3 DEF WalkInv, Walking
      <3> QED BY Zenon, <1>1, <1>2, <1>3, <2>1, <2>3, <3>1, <3>2, <3>4, StepInv, ProgressTyped
                 DEF Mending, Walking
    <2> QED BY Zenon, <2>1, <2>2, <2>3
  <1>8. CASE got # {}
    <2> DEFINE rest == [task EXCEPT !.first = Min(got)]
    <2>1. /\ Put(got, ManifestOf(got, FALSE), "seeded", rest)
          /\ UNCHANGED <<manifest, progress, closed, listed, gateway, heard, crashes>>
      BY Zenon, <1>8 DEF Seed, got, from, Elsewhere
    <2>2. Min(got) \in Candles /\ got \subseteq listed .. closed - 1
      <3>1. got \subseteq Nat
        BY Zenon, <1>6
      <3>2. \A t \in got : t \in listed .. closed - 1
        BY <1>2, <1>6
      <3>3. \A t \in got : t \in Candles
        BY <1>2, <1>6 DEF Candles
      <3> QED BY Zenon, <1>8, <3>1, <3>2, <3>3, MinOf
    <2>3. /\ rest \in TaskType /\ rest.next = NoManifest /\ rest.fetched = {} /\ rest.stored = {}
          /\ rest.cursor = task.cursor /\ rest.end = task.end /\ rest.stop = task.stop
      BY Zenon, <1>1, <1>2, <2>2 DEF TaskType
    <2> HIDE DEF rest
    <2>4. /\ ManifestOf(got, FALSE) \in Manifests /\ ManifestOf(got, FALSE) # NoManifest
          /\ ManifestOf(got, FALSE).checksum = got /\ TrueOf(ManifestOf(got, FALSE))
      BY Zenon, <1>2, <1>8, <2>2, ManifestOfTrue
    <2>5. /\ parquet' = got /\ task'.pc = "seeded" /\ task'.cursor = task.cursor
          /\ task'.end = task.end /\ task'.stop = task.stop /\ task'.fetched = {} /\ task'.stored = {}
      <3>1. "seeded" \in Calling \cup {"none", "live"}
        BY Zenon DEF Calling
      <3>2. Put(got, ManifestOf(got, FALSE), "seeded", rest)
        BY Zenon, <2>1
      <3>3. rest \in TaskType /\ rest.next = NoManifest /\ ManifestOf(got, FALSE) \in Manifests
        BY Zenon, <2>3, <2>4
      <3>4. /\ parquet' = got /\ task'.pc = "seeded" /\ task'.end = rest.end
            /\ task'.cursor = rest.cursor /\ task'.stop = rest.stop
            /\ task'.stored = rest.stored /\ task'.fetched = rest.fetched
        BY Zenon, <3>1, <3>2, <3>3, PutFields
      <3> QED BY Zenon, <2>3, <3>4
    <2>6. CallInv'
      <3>1. \A t \in got : t <= task.end
        BY <1>2, <1>6
      <3> QED BY <1>2, <1>3, <2>1, <2>5, <3>1 DEF CallInv, Calling, Walking, Mending
    <2>7. WalkInv'
      BY Zenon, <2>5 DEF WalkInv, Walking
    <2>8. "seeded" \in Calling
      BY Zenon DEF Calling
    <2> QED BY Zenon, <1>1, <1>2, <1>8, <2>1, <2>2, <2>3, <2>4, <2>6, <2>7, <2>8, WriteInv
  <1> QED BY Zenon, <1>7, <1>8

\* What holds at every step of a call.
LEMMA CallFacts ==
  ASSUME HistoryInv, task.pc \in Calling
  PROVE  /\ task \in TaskType /\ task.cursor \in Nat /\ task.end \in Nat /\ task.stop \in Nat
         /\ task.left \in Int /\ task.first \in Candles \cup {NoCandle}
         /\ task.stored \subseteq Nat /\ task.fetched \subseteq Nat
         /\ task.cursor <= task.end /\ task.stop <= task.end /\ task.end <= closed
         /\ closed \in Nat /\ listed \in Nat /\ LastCandle \in Nat /\ closed <= LastCandle
         /\ progress # NoProgress /\ gateway = "cycle"
         /\ progress \in [next : 0 .. LastCandle, first : Candles \cup {NoCandle}]
         /\ progress.next \in Nat /\ progress.next <= LastCandle
PROOF
  <1>1. task \in TaskType /\ closed \in Nat /\ closed <= LastCandle /\ listed \in Nat
        /\ LastCandle \in Nat
    BY Zenon, InvTypes
  <1>2. progress # NoProgress /\ gateway = "cycle"
        /\ task.end <= closed /\ task.cursor <= task.end /\ task.stop <= task.end
    BY Zenon DEF HistoryInv, CallInv
  <1>3. /\ task.cursor \in Nat /\ task.end \in Nat /\ task.stop \in Nat
        /\ task.left \in Int /\ task.first \in Candles \cup {NoCandle}
        /\ task.stored \subseteq Nat /\ task.fetched \subseteq Nat
    BY Zenon, <1>1 DEF TaskType
  <1> QED BY Zenon, <1>1, <1>2, <1>3, ProgressTyped

\* What a manifest that matches its file says of the file.
LEMMA VerifiedFacts ==
  ASSUME HistoryInv, Verified
  PROVE  /\ manifest \in Manifests /\ TrueOf(manifest) /\ parquet # {}
         /\ manifest.first = Min(parquet) /\ manifest.first \in Candles
         /\ manifest.first \in Nat /\ \A t \in parquet : manifest.first <= t
         /\ manifest.last = Max(parquet) /\ manifest.last \in parquet
         /\ manifest.last \in Nat /\ \A t \in parquet : t \in Nat /\ t <= manifest.last
         /\ manifest.gaps = Holes(parquet) /\ manifest.early \in BOOLEAN
PROOF
  <1>1. manifest \in Manifests /\ TrueOf(manifest) /\ parquet # {}
    BY Zenon DEF HistoryInv, HistoryTypeOK, FilesInv, Verified
  <1>2. /\ manifest.first = Min(parquet) /\ manifest.last = Max(parquet)
        /\ manifest.gaps = Holes(parquet)
    BY Zenon, <1>1 DEF TrueOf, Verified
  <1>3. parquet \subseteq listed .. closed - 1 /\ listed \in Nat /\ closed \in Nat
    BY Zenon, InvTypes DEF HistoryInv, FilesInv
  <1>4. /\ parquet \subseteq Nat /\ Max(parquet) \in parquet /\ Max(parquet) \in Nat
        /\ \A y \in parquet : y <= Max(parquet)
        /\ Min(parquet) \in Nat /\ \A y \in parquet : Min(parquet) <= y
    BY Zenon, <1>1, <1>3, MaxStored
  <1>5. manifest.first \in Candles /\ manifest.early \in BOOLEAN
    BY Zenon, <1>1 DEF Manifests
  <1> QED BY Zenon, <1>1, <1>2, <1>4, <1>5

\* A dataset under repair has verified.
LEMMA MendingVerified ==
  ASSUME HistoryInv, task.pc \in Mending, task.next = NoManifest
  PROVE  Verified
PROOF
  BY Zenon DEF HistoryInv, FilesInv

\* The progress file records the first candle of the seed.
LEMMA SaveSeedInv == HistoryInv /\ SaveSeed => HistoryInv'
PROOF
  <1> SUFFICES ASSUME HistoryInv, SaveSeed PROVE HistoryInv'
    OBVIOUS
  <1>1. /\ task.pc = "seeded" /\ task.next = NoManifest /\ task.pc \in Calling
        /\ progress' = [progress EXCEPT !.first = task.first]
        /\ task' = [task EXCEPT !.pc = "open"]
        /\ UNCHANGED <<parquet, manifest, closed, listed, gateway, heard, crashes>>
    BY Zenon DEF SaveSeed, Step, Here, Go, Elsewhere, archiveVars, Calling
  <1>2. /\ task.cursor \in Nat /\ task.end \in Nat /\ task.cursor <= task.end
        /\ task.stop <= task.end /\ task.end <= closed
    BY Zenon, <1>1, CallFacts
  <1>3. /\ task' \in TaskType /\ task'.pc = "open" /\ task'.next = NoManifest
        /\ task'.cursor = task.cursor /\ task'.end = task.end /\ task'.stop = task.stop
        /\ task'.first = task.first /\ task'.fetched = task.fetched /\ task'.stored = task.stored
    BY Zenon, <1>1, CallFacts DEF TaskType, Calling
  <1>4. /\ task.fetched = {} /\ task.stored = {} /\ task.cursor = progress.next
        /\ progress # NoProgress /\ gateway = "cycle" /\ \A t \in parquet : t <= task.end
    BY Zenon, <1>1 DEF HistoryInv, CallInv, Calling, Walking
  <1>5. /\ progress' \in [next : 0 .. LastCandle, first : Candles \cup {NoCandle}]
        /\ progress' # NoProgress /\ progress'.next = progress.next /\ progress'.first = task.first
    BY Zenon, <1>1, CallFacts DEF NoProgress
  <1>6. CallInv'
    BY <1>1, <1>2, <1>3, <1>4, <1>5 DEF CallInv, Calling, Walking, Mending
  <1>7. WalkInv'
    BY Zenon, <1>3, <1>4 DEF WalkInv, Walking
  <1>8. task'.fetched \subseteq Candles /\ task'.pc \in Calling
    BY Zenon, <1>3, <1>4 DEF Calling
  <1> QED BY Zenon, <1>1, <1>2, <1>3, <1>5, <1>6, <1>7, <1>8, StepInv DEF Mending, Walking

\* The dataset is opened, or it blocks the stream.
LEMMA OpenInv == HistoryInv /\ Open => HistoryInv'
PROOF
  <1> SUFFICES ASSUME HistoryInv, Open PROVE HistoryInv'
    OBVIOUS
  <1>1. task.pc = "open" /\ task.next = NoManifest /\ task.pc \in Calling
        /\ UNCHANGED archiveVars
    BY Zenon DEF Open, Step, Here, Calling
  <1>2. CASE ~Verified
    <2>1. Return("BLOCKED") /\ UNCHANGED progress
      BY Zenon, <1>2 DEF Open
    <2> QED BY Zenon, <1>1, <2>1, ReturnInv, CallFacts
  <1>3. CASE Verified
    <2> DEFINE first == IF task.first = NoCandle THEN manifest.first
                        ELSE Min({task.first, manifest.first})
    <2>1. /\ progress' = [progress EXCEPT !.first = first]
          /\ task' = [task EXCEPT !.pc = "repair", !.first = first]
          /\ UNCHANGED <<parquet, manifest, closed, listed, gateway, heard, crashes>>
      BY Zenon, <1>1, <1>3 DEF Open, Elsewhere, archiveVars
    <2>2. first \in Candles /\ first # NoCandle
      <3>1. manifest.first \in Candles /\ manifest.first \in Nat
        BY Zenon, <1>3, VerifiedFacts
      <3>2. task.first # NoCandle => task.first \in Candles /\ task.first \in Nat
        BY <1>1, CallFacts DEF Candles
      <3>3. first \in Candles
        BY Zenon, <3>1, <3>2, MinPair
      <3> QED BY <3>3 DEF Candles, NoCandle
    <2> HIDE DEF first
    <2>3. /\ task.cursor \in Nat /\ task.end \in Nat /\ task.cursor <= task.end
          /\ task.stop <= task.end /\ task.end <= closed
      BY Zenon, <1>1, CallFacts
    <2>4. /\ task' \in TaskType /\ task'.pc = "repair" /\ task'.next = NoManifest
          /\ task'.cursor = task.cursor /\ task'.end = task.end /\ task'.stop = task.stop
          /\ task'.first = first /\ task'.fetched = task.fetched /\ task'.stored = task.stored
      BY Zenon, <1>1, <2>1, <2>2, CallFacts DEF TaskType, Calling, Mending
    <2>5. /\ task.fetched = {} /\ task.stored = {} /\ task.cursor = progress.next
          /\ progress # NoProgress /\ gateway = "cycle" /\ \A t \in parquet : t <= task.end
      BY Zenon, <1>1 DEF HistoryInv, CallInv, Calling, Walking
    <2>6. /\ progress' \in [next : 0 .. LastCandle, first : Candles \cup {NoCandle}]
          /\ progress' # NoProgress /\ progress'.next = progress.next /\ progress'.first = first
      BY Zenon, <1>1, <2>1, <2>2, CallFacts DEF NoProgress
    <2>7. CallInv'
      BY <2>1, <2>2, <2>3, <2>4, <2>5, <2>6 DEF CallInv, Calling, Walking, Mending
    <2>8. WalkInv'
      BY Zenon, <2>4, <2>5 DEF WalkInv, Walking
    <2>9. task'.fetched \subseteq Candles /\ task'.pc \in Calling
      BY Zenon, <2>4, <2>5 DEF Calling, Mending
    <2>10. parquet # {}
      BY Zenon, <1>3 DEF Verified
    <2> QED BY Zenon, <1>1, <1>3, <2>1, <2>3, <2>4, <2>6, <2>7, <2>8, <2>9, <2>10, StepInv
  <1> QED BY Zenon, <1>2, <1>3

\* What a repair keeps is a dataset with a true manifest.
LEMMA RetainedTrue ==
  ASSUME HistoryInv, NEW start, Retained(start) # {}
  PROVE  LET m == ManifestOf(Retained(start), FALSE) IN
         /\ Retained(start) \subseteq listed .. closed - 1
         /\ m \in Manifests /\ m # NoManifest /\ m.checksum = Retained(start) /\ TrueOf(m)
PROOF
  <1>1. Retained(start) \subseteq listed .. closed - 1
    BY Zenon DEF Retained, HistoryInv, FilesInv
  <1>2. listed \in Nat /\ closed \in Nat /\ closed <= LastCandle /\ LastCandle \in Nat
    BY Zenon, InvTypes
  <1> QED BY Zenon, <1>1, <1>2, ManifestOfTrue

\* The call goes on with its next step, nothing else changed.
LEMMA GoInv ==
  ASSUME HistoryInv, task.pc \in {"repair", "boundary", "tail"}, task.next = NoManifest,
         NEW pc, pc = CASE task.pc = "repair" -> "boundary"
                        [] task.pc = "boundary" -> "tail"
                        [] OTHER -> "check",
         task.pc = "boundary" => \A t \in parquet : t < task.end,
         Go(pc), UNCHANGED <<archiveVars, progress>>, Elsewhere
  PROVE  HistoryInv'
PROOF
  <1>1. /\ task.pc \in Calling /\ task.pc \in Mending /\ pc \in {"boundary", "tail", "check"}
        /\ task' = [task EXCEPT !.pc = pc]
        /\ UNCHANGED <<parquet, manifest, closed, listed, gateway, heard, crashes, progress>>
    BY Zenon DEF Go, Elsewhere, archiveVars, Calling, Mending
  <1>2. /\ task.cursor \in Nat /\ task.end \in Nat /\ task.cursor <= task.end
        /\ task.stop <= task.end /\ task.end <= closed
        /\ progress \in [next : 0 .. LastCandle, first : Candles \cup {NoCandle}]
        /\ progress # NoProgress /\ gateway = "cycle"
    BY Zenon, <1>1, CallFacts
  <1>3. /\ task' \in TaskType /\ task'.pc = pc /\ task'.next = NoManifest
        /\ task'.cursor = task.cursor /\ task'.end = task.end /\ task'.stop = task.stop
        /\ task'.first = task.first /\ task'.fetched = task.fetched /\ task'.stored = task.stored
        /\ pc \in Calling
    BY <1>1, CallFacts DEF TaskType, Calling, Mending
  <1>4. /\ task.fetched = {} /\ task.stored = {} /\ task.cursor = progress.next
        /\ progress.first = task.first /\ task.first # NoCandle
    BY Zenon, <1>1 DEF HistoryInv, CallInv, Calling, Walking, Mending
  <1>5. /\ pc = "boundary" => \A t \in parquet : t <= task.end
        /\ pc \in {"tail", "check"} => \A t \in parquet : t < task.end
    BY Zenon DEF HistoryInv, CallInv
  <1>6. CallInv'
    BY <1>1, <1>2, <1>3, <1>4, <1>5 DEF CallInv, Calling, Walking, Mending
  <1>7. WalkInv'
    BY Zenon, <1>1, <1>3, <1>4 DEF WalkInv, Walking
  <1>8. Verified /\ parquet # {}
    BY Zenon, <1>1, MendingVerified DEF Verified
  <1>9. task'.pc # "missing" /\ task'.pc # "seeded" /\ task'.fetched \subseteq Candles
    BY Zenon, <1>1, <1>3, <1>4
  <1> QED BY Zenon, <1>1, <1>2, <1>3, <1>6, <1>7, <1>8, <1>9, StepInv

\* A candle that was stored before its end is cut off.
LEMMA RepairUnclosedInv == HistoryInv /\ RepairUnclosed => HistoryInv'
PROOF
  <1> SUFFICES ASSUME HistoryInv, RepairUnclosed PROVE HistoryInv'
    OBVIOUS
  <1>1. task.pc = "repair" /\ task.next = NoManifest /\ task.pc \in Calling
        /\ task.pc \in Mending
    BY Zenon DEF RepairUnclosed, Step, Here, Calling, Mending
  <1>2. Verified
    BY Zenon, <1>1, MendingVerified
  <1>3. CASE ~manifest.early
    <2>1. Go("boundary") /\ UNCHANGED <<archiveVars, progress>> /\ Elsewhere
      BY Zenon, <1>3 DEF RepairUnclosed
    <2> QED BY Zenon, <1>1, <2>1, GoInv
  <1>4. CASE manifest.early
    <2> DEFINE start == manifest.last
               kept == Retained(start)
               rest == [task EXCEPT !.cursor = Min({@, manifest.last})]
    <2>1. TruncateFrom(start, "repaired", rest)
      BY Zenon, <1>4 DEF RepairUnclosed
    <2>2. CASE kept = {}
      <3>1. Return("BLOCKED") /\ UNCHANGED <<parquet, manifest, progress>>
        BY Zenon, <2>1, <2>2 DEF TruncateFrom
      <3> QED BY Zenon, <1>1, <3>1, ReturnInv, CallFacts DEF archiveVars
    <2>3. CASE kept # {}
      <3>1. /\ Put(kept, ManifestOf(kept, FALSE), "repaired", rest)
            /\ UNCHANGED <<manifest, progress, closed, listed, gateway, heard, crashes>>
        BY Zenon, <2>1, <2>3 DEF TruncateFrom, Elsewhere
      <3>2. /\ kept \subseteq listed .. closed - 1
            /\ ManifestOf(kept, FALSE) \in Manifests /\ ManifestOf(kept, FALSE) # NoManifest
            /\ ManifestOf(kept, FALSE).checksum = kept /\ TrueOf(ManifestOf(kept, FALSE))
        BY Zenon, <2>3, RetainedTrue
      <3>3. /\ task \in TaskType /\ task.cursor \in Nat /\ task.end \in Nat
            /\ task.cursor <= task.end /\ task.stop <= task.end /\ task.end <= closed
            /\ progress # NoProgress /\ gateway = "cycle"
        BY Zenon, <1>1, CallFacts
      <3>4. Min({task.cursor, manifest.last}) \in Nat
            /\ Min({task.cursor, manifest.last}) <= task.cursor
        BY <1>2, <3>3, VerifiedFacts, MinPair
      <3>5. /\ task.fetched = {} /\ task.stored = {} /\ task.cursor = progress.next
            /\ progress.first = task.first /\ task.first # NoCandle
            /\ \A t \in parquet : t <= task.end
        BY Zenon, <1>1 DEF HistoryInv, CallInv, Calling, Walking, Mending
      <3>6. /\ rest \in TaskType /\ rest.next = NoManifest /\ rest.fetched = {} /\ rest.stored = {}
            /\ rest.cursor = Min({task.cursor, manifest.last}) /\ rest.end = task.end
            /\ rest.stop = task.stop /\ rest.first = task.first
        BY Zenon, <1>1, <3>3, <3>4, <3>5 DEF TaskType
      <3>7. kept \subseteq parquet
        BY Zenon DEF Retained
      <3> HIDE DEF rest, kept
      <3>8. "repaired" \in Calling /\ "repaired" \in Calling \cup {"none", "live"}
        BY Zenon DEF Calling, Mending
      <3>9. /\ parquet' = kept /\ task'.pc = "repaired" /\ task'.end = rest.end
            /\ task'.cursor = rest.cursor /\ task'.stop = rest.stop /\ task'.first = rest.first
            /\ task'.stored = rest.stored /\ task'.fetched = rest.fetched
        BY Zenon, <3>1, <3>2, <3>6, <3>8, PutFields
      <3>10. rest.cursor \in Nat /\ rest.cursor <= task.cursor /\ rest.cursor <= task.end
        BY <3>3, <3>4, <3>6
      <3>11. CallInv'
        BY Zenon, <3>1, <3>3, <3>5, <3>6, <3>7, <3>9, <3>10 DEF CallInv, Calling, Walking, Mending
      <3>12. WalkInv'
        BY Zenon, <3>6, <3>9 DEF WalkInv, Walking
      <3>13. rest.cursor <= rest.end /\ rest.fetched \subseteq Candles
        BY Zenon, <3>6, <3>10
      <3> QED BY Zenon, <1>1, <1>2, <2>3, <3>1, <3>2, <3>6, <3>8, <3>11, <3>12, <3>13, WriteInv
    <2> QED BY Zenon, <2>2, <2>3
  <1> QED BY Zenon, <1>3, <1>4

\* The progress file follows the repair.
LEMMA SaveRepairInv == HistoryInv /\ SaveRepair => HistoryInv'
PROOF
  <1> SUFFICES ASSUME HistoryInv, SaveRepair PROVE HistoryInv'
    OBVIOUS
  <1>1. /\ task.pc = "repaired" /\ task.next = NoManifest
        /\ task.pc \in Calling /\ task.pc \in Mending
        /\ progress' = [progress EXCEPT !.next = task.cursor]
        /\ task' = [task EXCEPT !.pc = "boundary"]
        /\ UNCHANGED <<parquet, manifest, closed, listed, gateway, heard, crashes>>
    BY Zenon DEF SaveRepair, Step, Here, Go, Elsewhere, archiveVars, Calling, Mending
  <1>2. /\ task.cursor \in Nat /\ task.end \in Nat /\ task.cursor <= task.end
        /\ task.stop <= task.end /\ task.end <= closed /\ closed \in Nat
        /\ LastCandle \in Nat /\ closed <= LastCandle
        /\ progress \in [next : 0 .. LastCandle, first : Candles \cup {NoCandle}]
        /\ gateway = "cycle"
    BY Zenon, <1>1, CallFacts
  <1>3. /\ task' \in TaskType /\ task'.pc = "boundary" /\ task'.next = NoManifest
        /\ task'.cursor = task.cursor /\ task'.end = task.end /\ task'.stop = task.stop
        /\ task'.first = task.first /\ task'.fetched = task.fetched /\ task'.stored = task.stored
    BY Zenon, <1>1, CallFacts DEF TaskType, Calling, Mending
  <1>4. /\ task.fetched = {} /\ task.stored = {} /\ progress.first = task.first
        /\ task.first # NoCandle /\ \A t \in parquet : t <= task.end
    BY Zenon, <1>1 DEF HistoryInv, CallInv, Calling, Walking, Mending
  <1>5. /\ progress' \in [next : 0 .. LastCandle, first : Candles \cup {NoCandle}]
        /\ progress' # NoProgress /\ progress'.next = task.cursor
        /\ progress'.first = progress.first
    <2>1. task.cursor \in 0 .. LastCandle
      BY <1>2
    <2> QED BY Zenon, <1>1, <1>2, <2>1 DEF NoProgress
  <1>6. CallInv'
    BY <1>1, <1>2, <1>3, <1>4, <1>5 DEF CallInv, Calling, Walking, Mending
  <1>7. WalkInv'
    BY Zenon, <1>3, <1>4 DEF WalkInv, Walking
  <1>8. Verified /\ parquet # {}
    BY Zenon, <1>1, MendingVerified DEF Verified
  <1>9. task'.fetched \subseteq Candles /\ task'.pc \in Calling
    BY Zenon, <1>3, <1>4 DEF Calling, Mending
  <1> QED BY Zenon, <1>1, <1>2, <1>3, <1>5, <1>6, <1>7, <1>8, <1>9, StepInv

\* Candles at or after the end of the call are cut off.
LEMMA RepairBoundaryInv == HistoryInv /\ RepairBoundary => HistoryInv'
PROOF
  <1> SUFFICES ASSUME HistoryInv, RepairBoundary PROVE HistoryInv'
    OBVIOUS
  <1>1. task.pc = "boundary" /\ task.next = NoManifest /\ task.pc \in Calling
        /\ task.pc \in Mending
    BY Zenon DEF RepairBoundary, Step, Here, Calling, Mending
  <1>2. Verified
    BY Zenon, <1>1, MendingVerified
  <1>3. /\ task \in TaskType /\ task.cursor \in Nat /\ task.end \in Nat
        /\ task.cursor <= task.end /\ task.stop <= task.end /\ task.end <= closed
        /\ progress # NoProgress /\ gateway = "cycle"
    BY Zenon, <1>1, CallFacts
  <1>4. CASE ~(manifest.last >= task.end)
    <2>1. Go("tail") /\ UNCHANGED <<archiveVars, progress>> /\ Elsewhere
      BY Zenon, <1>4 DEF RepairBoundary
    <2>2. \A t \in parquet : t < task.end
      BY <1>2, <1>3, <1>4, VerifiedFacts
    <2> QED BY Zenon, <1>1, <2>1, <2>2, GoInv
  <1>5. CASE manifest.last >= task.end
    <2> DEFINE kept == Retained(task.end)
    <2>1. TruncateFrom(task.end, "tail", task)
      BY Zenon, <1>5 DEF RepairBoundary
    <2>2. CASE kept = {}
      <3>1. Return("BLOCKED") /\ UNCHANGED <<parquet, manifest, progress>>
        BY Zenon, <2>1, <2>2 DEF TruncateFrom
      <3> QED BY Zenon, <1>1, <3>1, ReturnInv, CallFacts DEF archiveVars
    <2>3. CASE kept # {}
      <3>1. /\ Put(kept, ManifestOf(kept, FALSE), "tail", task)
            /\ UNCHANGED <<manifest, progress, closed, listed, gateway, heard, crashes>>
        BY Zenon, <2>1, <2>3 DEF TruncateFrom, Elsewhere
      <3>2. /\ kept \subseteq listed .. closed - 1
            /\ ManifestOf(kept, FALSE) \in Manifests /\ ManifestOf(kept, FALSE) # NoManifest
            /\ ManifestOf(kept, FALSE).checksum = kept /\ TrueOf(ManifestOf(kept, FALSE))
        BY Zenon, <2>3, RetainedTrue
      <3>3. /\ task.fetched = {} /\ task.stored = {} /\ task.cursor = progress.next
            /\ progress.first = task.first /\ task.first # NoCandle
        BY Zenon, <1>1 DEF HistoryInv, CallInv, Calling, Walking, Mending
      <3>4. \A t \in kept : t < task.end
        BY Zenon DEF Retained
      <3> HIDE DEF kept
      <3>5. "tail" \in Calling /\ "tail" \in Calling \cup {"none", "live"}
        BY Zenon DEF Calling, Mending
      <3>6. /\ parquet' = kept /\ task'.pc = "tail" /\ task'.end = task.end
            /\ task'.cursor = task.cursor /\ task'.stop = task.stop /\ task'.first = task.first
            /\ task'.stored = task.stored /\ task'.fetched = task.fetched
        BY Zenon, <1>1, <1>3, <3>1, <3>2, <3>5, PutFields
      <3>7. CallInv'
        BY <1>3, <3>1, <3>3, <3>4, <3>6 DEF CallInv, Calling, Walking, Mending
      <3>8. WalkInv'
        BY Zenon, <3>3, <3>6 DEF WalkInv, Walking
      <3>9. task.fetched \subseteq Candles
        BY Zenon, <3>3
      <3> QED BY Zenon, <1>1, <1>2, <1>3, <2>3, <3>1, <3>2, <3>5, <3>7, <3>8, <3>9, WriteInv
    <2> QED BY Zenon, <2>2, <2>3
  <1> QED BY Zenon, <1>4, <1>5

\* The newest candles are appended behind the last one.
LEMMA AppendTailInv ==
  ASSUME HistoryInv, NEW to \in Int, to <= task.end, AppendTail(to)
  PROVE  HistoryInv'
PROOF
  <1> DEFINE limit == PagesPerStream * Page
             got == Klines(manifest.last + 1, to, limit)
             grown == parquet \cup got
  <1>1. task.pc = "tail" /\ task.next = NoManifest /\ task.pc \in Calling
        /\ task.pc \in Mending
    BY Zenon DEF AppendTail, Step, Here, Calling, Mending
  <1>2. Verified
    BY Zenon, <1>1, MendingVerified
  <1>3. /\ task \in TaskType /\ task.cursor \in Nat /\ task.end \in Nat
        /\ task.cursor <= task.end /\ task.stop <= task.end /\ task.end <= closed
        /\ progress # NoProgress /\ gateway = "cycle"
        /\ listed \in Nat /\ closed \in Nat /\ closed <= LastCandle /\ LastCandle \in Nat
    BY Zenon, <1>1, CallFacts
  <1>4. /\ manifest.last \in Nat /\ manifest \in Manifests /\ TrueOf(manifest)
    BY Zenon, <1>2, VerifiedFacts
  <1>5. /\ task.fetched = {} /\ task.stored = {} /\ task.cursor = progress.next
        /\ progress.first = task.first /\ task.first # NoCandle
        /\ \A t \in parquet : t < task.end
    BY Zenon, <1>1 DEF HistoryInv, CallInv, Calling, Walking, Mending
  <1>6. \/ Go("check") /\ UNCHANGED <<archiveVars, progress>> /\ Elsewhere
        \/ Return("BLOCKED") /\ UNCHANGED <<archiveVars, progress>>
        \/ /\ Put(grown, AppendedManifest(got), "check", task)
           /\ UNCHANGED <<manifest, progress, closed, listed, gateway, heard, crashes>>
    BY Zenon DEF AppendTail, Elsewhere, archiveVars
  <1>7. CASE Go("check") /\ UNCHANGED <<archiveVars, progress>> /\ Elsewhere
    BY Zenon, <1>1, <1>7, GoInv
  <1>8. CASE Return("BLOCKED") /\ UNCHANGED <<archiveVars, progress>>
    BY Zenon, <1>1, <1>8, ReturnInv, CallFacts
  <1>9. CASE /\ Put(grown, AppendedManifest(got), "check", task)
             /\ UNCHANGED <<manifest, progress, closed, listed, gateway, heard, crashes>>
    <2>1. limit \in Nat \ {0}
      BY HistoryAssumption
    <2> HIDE DEF limit
    <2>2. manifest.last + 1 \in Nat
      BY <1>4
    <2>a. \A t \in got : t \in Nat /\ manifest.last + 1 <= t /\ listed <= t /\ t < to
      BY Zenon, <1>3, <2>1, <2>2, KlinesFacts
    <2> HIDE DEF got
    <2>3. \A t \in got : t \in Nat /\ manifest.last + 1 <= t /\ listed <= t /\ t < task.end
      BY <1>3, <2>a
    <2>4. got \subseteq listed .. closed - 1 /\ \A t \in got : manifest.last < t
      BY <1>3, <1>4, <2>3
    <2>5. grown \subseteq listed .. closed - 1 /\ \A t \in grown : t < task.end
      BY Zenon, <1>5, <2>3, <2>4 DEF HistoryInv, FilesInv
    <2>6. grown # parquet => got # {}
      BY Zenon
    <2>7. grown # parquet => /\ TrueOf(AppendedManifest(got)) /\ AppendedManifest(got) # NoManifest
                             /\ AppendedManifest(got) \in Manifests
                             /\ AppendedManifest(got).checksum = grown
      BY Zenon, <1>2, <1>3, <1>4, <2>4, <2>6, AppendedManifestTrue
    <2>8. grown # {}
      BY Zenon, <1>2 DEF Verified
    <2> HIDE DEF grown
    <2>9. "check" \in Calling /\ "check" \in Calling \cup {"none", "live"}
      BY Zenon DEF Calling, Mending
    <2>10. /\ parquet' = grown /\ task'.pc = "check" /\ task'.end = task.end
           /\ task'.cursor = task.cursor /\ task'.stop = task.stop /\ task'.first = task.first
           /\ task'.stored = task.stored /\ task'.fetched = task.fetched
      BY <1>1, <1>3, <1>9, <2>7, <2>9, PutFields
    <2>11. CallInv'
      BY <1>3, <1>5, <1>9, <2>5, <2>10 DEF CallInv, Calling, Walking, Mending
    <2>12. WalkInv'
      BY Zenon, <1>5, <2>10 DEF WalkInv, Walking
    <2>13. task.fetched \subseteq Candles
      BY Zenon, <1>5
    <2> QED BY Zenon, <1>1, <1>2, <1>3, <1>9, <2>5, <2>7, <2>8, <2>9, <2>11, <2>12, <2>13, WriteInv
  <1> QED BY Zenon, <1>6, <1>7, <1>8, <1>9

\* The whole tail, or the part the exchange answers with.
LEMMA RefreshTailInv == HistoryInv /\ (RefreshTail \/ RefreshPart) => HistoryInv'
PROOF
  <1> SUFFICES ASSUME HistoryInv, RefreshTail \/ RefreshPart PROVE HistoryInv'
    OBVIOUS
  <1>1. task.pc = "tail" /\ task.pc \in Calling
    BY Zenon DEF RefreshTail, RefreshPart, AppendTail, Step, Here, Calling, Mending
  <1>2. task.end \in Nat
    BY Zenon, <1>1, CallFacts
  <1>3. CASE RefreshTail
    <2>1. task.end \in Int /\ task.end <= task.end
      BY <1>2
    <2> QED BY Zenon, <1>3, <2>1, AppendTailInv DEF RefreshTail
  <1>4. CASE RefreshPart
    <2>1. PICK to \in manifest.last + 1 .. task.end - 1 : AppendTail(to)
      BY Zenon, <1>4 DEF RefreshPart
    <2>2. to \in Int /\ to <= task.end
      BY <1>2, <2>1
    <2> QED BY Zenon, <2>1, <2>2, AppendTailInv
  <1> QED BY Zenon, <1>3, <1>4

\* What a call is limited to.
LEMMA LimitsNat ==
  /\ Month \in Nat /\ 0 < Month /\ Page \in Nat /\ 0 < Page
  /\ PagesPerStream \in Nat /\ 0 < PagesPerStream /\ PagesPerStream \in Int
  /\ ArchivesPerStream \in Nat /\ ArchivesPerStream \in Int
PROOF
  BY HistoryAssumption

\* The walk over what is missing begins.
LEMMA FindMissingInv == HistoryInv /\ FindMissing => HistoryInv'
PROOF
  <1> SUFFICES ASSUME HistoryInv, FindMissing PROVE HistoryInv'
    OBVIOUS
  <1> DEFINE first == IF Here("missing") \/ manifest.gaps = {} THEN task.cursor
                      ELSE Min({task.cursor} \cup {g[1] + 1 : g \in manifest.gaps})
             start == MissingFrom(first, parquet)
             stop == MissingTo(start, parquet)
  <1>1. /\ task.pc \in {"check", "missing"} /\ task.next = NoManifest /\ task.pc \in Calling
        /\ UNCHANGED <<archiveVars, progress>>
    BY Zenon DEF FindMissing, Step, Here, Calling, Mending
  <1>2. /\ task \in TaskType /\ task.cursor \in Nat /\ task.end \in Nat
        /\ task.cursor <= task.end /\ task.stop <= task.end /\ task.end <= closed
        /\ progress # NoProgress /\ gateway = "cycle"
        /\ listed \in Nat /\ closed \in Nat /\ closed <= LastCandle /\ LastCandle \in Nat
        /\ progress \in [next : 0 .. LastCandle, first : Candles \cup {NoCandle}]
        /\ parquet \subseteq Nat
    BY Zenon, <1>1, CallFacts, InvTypes
  <1>3. /\ task.fetched = {} /\ task.stored = {} /\ task.cursor = progress.next
        /\ progress.first = task.first
        /\ task.pc = "check" => task.first # NoCandle
        /\ task.pc = "check" => \A t \in parquet : t < task.end
    BY Zenon, <1>1 DEF HistoryInv, CallInv, Calling, Walking, Mending
  <1>4. /\ task.pc = "missing" => parquet = {}
        /\ task.pc = "check" => Verified
    BY Zenon, <1>1, MendingVerified DEF HistoryInv, FilesInv, Mending
  <1>5. \/ Return("BLOCKED")
        \/ task.tail /\ Return("TAIL")
        \/ /\ task' = [task EXCEPT !.pc = "vision", !.cursor = start, !.stop = stop,
                                    !.left = ArchivesPerStream, !.stored = parquet]
           /\ UNCHANGED <<closed, listed, gateway, heard, crashes>>
    BY Zenon DEF FindMissing, Elsewhere
  <1>6. CASE Return("BLOCKED")
    BY Zenon, <1>1, <1>2, <1>6, ReturnInv
  <1>7. CASE task.tail /\ Return("TAIL")
    BY Zenon, <1>1, <1>2, <1>7, ReturnInv
  <1>8. CASE /\ task' = [task EXCEPT !.pc = "vision", !.cursor = start, !.stop = stop,
                                    !.left = ArchivesPerStream, !.stored = parquet]
             /\ UNCHANGED <<closed, listed, gateway, heard, crashes>>
    <2>1. first \in Nat /\ first <= task.cursor /\ (task.pc = "missing" => first = task.cursor)
      <3>1. CASE Here("missing") \/ manifest.gaps = {}
        BY <1>2, <3>1
      <3>2. CASE ~(Here("missing") \/ manifest.gaps = {})
        <4> DEFINE S == {task.cursor} \cup {g[1] + 1 : g \in manifest.gaps}
        <4>1. task.pc = "check" /\ Verified
          BY Zenon, <1>1, <1>4, <3>2 DEF Here
        <4>2. \A g \in manifest.gaps : g[1] \in Nat
          <5>1. manifest.gaps = Holes(parquet)
            BY Zenon, <4>1, VerifiedFacts
          <5> QED BY Zenon, <1>2, <5>1 DEF Holes
        <4>3. S \subseteq Nat /\ task.cursor \in S
          BY <1>2, <4>2
        <4>4. Min(S) \in Nat /\ Min(S) <= task.cursor
          BY Zenon, <4>3, MinOf
        <4> QED BY Zenon, <3>2, <4>1, <4>4
      <3> QED BY Zenon, <3>1, <3>2
    <2> HIDE DEF first
    <2>2. task.end \in first .. LastCandle /\ task.end \notin parquet
      BY <1>1, <1>2, <1>3, <1>4, <2>1
    <2>3. /\ start \in Nat /\ first <= start /\ start <= task.end
          /\ \A t \in first .. start - 1 : t \in parquet
      BY <1>2, <2>1, <2>2, MissingFromFacts
    <2>4. stop \in Nat /\ stop <= task.end
      BY Zenon, <1>2, MissingToFacts
    <2> HIDE DEF start, stop
    <2>5. /\ task' \in TaskType /\ task'.pc = "vision" /\ task'.next = NoManifest
          /\ task'.cursor = start /\ task'.end = task.end /\ task'.stop = stop
          /\ task'.first = task.first /\ task'.fetched = {} /\ task'.stored = parquet
      BY Zenon, <1>1, <1>2, <1>3, <1>8, <2>3, <2>4, LimitsNat DEF TaskType, Calling, Walking
    <2>6. CallInv'
      <3>1. \A t \in parquet : t < task.end
        BY Zenon, <1>1, <1>3, <1>4
      <3>2. progress' = progress /\ parquet' = parquet
        BY Zenon, <1>1 DEF archiveVars
      <3> QED BY Zenon, <1>2, <1>3, <1>8, <2>3, <2>4, <2>5, <3>1, <3>2
              DEF CallInv, Calling, Walking, Mending
    <2>7. WalkInv'
      <3>1. \A t \in progress.next .. start - 1 : t \in parquet
        BY <1>2, <1>3, <2>1, <2>3
      <3>2. task.first = NoCandle => \A t \in start .. task.end - 1 : t < listed
        <4>1. task.pc = "missing" /\ task.first = NoCandle =>
                 \A t \in task.cursor .. task.end - 1 : t < listed
          BY Zenon DEF HistoryInv, WalkInv
        <4> QED BY <1>1, <1>2, <1>3, <2>1, <2>3, <4>1
      <3>3. progress' = progress /\ parquet' = parquet /\ listed' = listed
        BY Zenon, <1>1, <1>8 DEF archiveVars
      <3> QED BY Zenon, <2>5, <3>1, <3>2, <3>3 DEF WalkInv, Walking
    <2>8. task'.pc \in Calling /\ task'.pc \notin Mending \cup {"seeded", "missing"}
          /\ task'.fetched \subseteq Candles
      BY Zenon, <2>5 DEF Calling, Walking, Mending
    <2>9. parquet = {} \/ Verified
      BY Zenon, <1>1, <1>4
    <2> QED BY Zenon, <1>1, <1>2, <1>8, <2>3, <2>5, <2>6, <2>7, <2>8, <2>9, StepInv DEF archiveVars
  <1> QED BY Zenon, <1>5, <1>6, <1>7, <1>8

-----------------------------------------------------------------------------
(* The walk over what is missing. *)

\* A month ends after any of its candles and is no longer than a month.
LEMMA MonthEndBounds ==
  ASSUME NEW t \in Nat
  PROVE  MonthEnd(t) \in Nat /\ t < MonthEnd(t) /\ MonthEnd(t) <= t + Month
PROOF
  <1>1. Month \in Nat /\ 0 < Month
    BY Zenon, LimitsNat
  <1>2. t = Month * (t \div Month) + (t % Month) /\ t % Month \in 0 .. Month - 1
        /\ t \div Month \in Nat
    BY <1>1
  <1>3. (t \div Month + 1) * Month = Month * (t \div Month) + Month
    BY <1>1, <1>2
  <1>4. MonthEnd(t) = Month * (t \div Month) + Month
    BY Zenon, <1>3 DEF MonthEnd
  <1> QED BY <1>1, <1>2, <1>4, MonthEndNat

\* What the invariant says of a call that walks.
LEMMA WalkFacts ==
  ASSUME HistoryInv, task.pc \in Walking
  PROVE  /\ task.pc \in Calling /\ progress.first = task.first
         /\ \A t \in parquet : t < task.end
         /\ task.stored \subseteq parquet
         /\ task.fetched \subseteq listed .. task.cursor - 1
         /\ \A t \in progress.next .. task.cursor - 1 :
               t < listed \/ t \in parquet \/ t \in task.fetched
         /\ task.pc \in {"missed", "archived", "gap", "flushed", "decide"}
               => task.fetched \subseteq parquet
         /\ task.pc = "flushed" => task.fetched # {}
         /\ task.pc = "missed" => MonthEnd(task.cursor) <= task.stop
         /\ task.first = NoCandle =>
               task.fetched = {} /\ \A t \in task.cursor .. task.end - 1 : t < listed
         /\ task.next = NoManifest => parquet = {} \/ Verified
         /\ parquet \subseteq listed .. closed - 1
PROOF
  <1>1. task.pc \in Calling
    BY Zenon DEF Calling
  <1>2. task.pc # "seeded"
    BY Zenon DEF Walking
  <1>3. /\ progress.first = task.first
        /\ \A t \in parquet : t < task.end
    BY Zenon, <1>1, <1>2 DEF HistoryInv, CallInv
  <1>4. /\ task.next = NoManifest => parquet = {} \/ Verified
        /\ parquet \subseteq listed .. closed - 1
    BY Zenon DEF HistoryInv, FilesInv
  <1> QED BY Zenon, <1>1, <1>3, <1>4 DEF HistoryInv, WalkInv

\* A step of the walk that writes no candle.
LEMMA WalkStepInv ==
  ASSUME HistoryInv, task.pc \in Walking, task.next = NoManifest,
         UNCHANGED <<parquet, manifest, closed, listed, gateway, heard, crashes>>,
         progress' \in [next : 0 .. LastCandle, first : Candles \cup {NoCandle}],
         progress'.first = task'.first,
         task' \in TaskType, task'.pc \in Walking, task'.next = NoManifest,
         task'.end = task.end, task'.stop = task.stop, task'.cursor <= task.end,
         WalkInv'
  PROVE  HistoryInv'
PROOF
  <1>1. /\ task.pc \in Calling /\ (\A t \in parquet : t < task.end)
        /\ (parquet = {} \/ Verified)
    BY Zenon, WalkFacts
  <1>2. /\ task.end \in Nat /\ task.end <= closed /\ task.stop <= task.end
        /\ gateway = "cycle" /\ closed \in Nat /\ closed <= LastCandle /\ LastCandle \in Nat
        /\ listed \in Nat
    BY Zenon, <1>1, CallFacts
  <1>3. progress' # NoProgress
    BY DEF NoProgress
  <1>4. task'.pc \in Calling /\ task'.pc \notin Mending \cup {"seeded", "missing", "open", "none"}
    BY Zenon DEF Calling, Walking, Mending
  <1>5. CallInv'
    BY Zenon, <1>1, <1>2, <1>3, <1>4 DEF CallInv, Calling, Mending
  <1>6. task'.fetched \subseteq Candles
    <2>1. task'.cursor \in Nat
      BY Zenon DEF TaskType
    <2>2. task'.fetched \subseteq listed .. task'.cursor - 1
      BY Zenon DEF WalkInv
    <2> QED BY <1>2, <2>1, <2>2 DEF Candles
  <1>7. task'.cursor <= task'.end
    BY Zenon
  <1> QED BY Zenon, <1>1, <1>4, <1>5, <1>6, <1>7, StepInv

\* The write of what the walk has read.
LEMMA WalkPutInv ==
  ASSUME HistoryInv, task.pc \in Walking, task.next = NoManifest,
         NEW pc \in {"missed", "archived", "gap", "flushed", "decide"},
         NEW rest \in TaskType, rest.next = NoManifest,
         rest.end = task.end, rest.cursor = task.cursor, rest.stop = task.stop,
         rest.first = task.first, rest.stored = task.stored, rest.fetched = task.fetched,
         Put(parquet \cup task.fetched, ManifestOf(parquet \cup task.fetched, FALSE), pc, rest),
         UNCHANGED <<manifest, progress, closed, listed, gateway, heard, crashes>>,
         pc = "flushed" => task.fetched # {},
         pc = "missed" => MonthEnd(task.cursor) <= task.stop
  PROVE  HistoryInv'
PROOF
  <1> DEFINE candles == parquet \cup task.fetched
             written == ManifestOf(candles, FALSE)
  <1>1. /\ task.pc \in Calling /\ progress.first = task.first
        /\ (\A t \in parquet : t < task.end) /\ task.stored \subseteq parquet
        /\ task.fetched \subseteq listed .. task.cursor - 1
        /\ (parquet = {} \/ Verified) /\ parquet \subseteq listed .. closed - 1
    BY Zenon, WalkFacts
  <1>2. /\ task.end \in Nat /\ task.cursor \in Nat /\ task.cursor <= task.end
        /\ task.end <= closed /\ task.stop <= task.end /\ closed \in Nat /\ listed \in Nat
        /\ LastCandle \in Nat /\ closed <= LastCandle /\ gateway = "cycle"
        /\ progress # NoProgress
    BY Zenon, <1>1, CallFacts
  <1>3. candles \subseteq listed .. closed - 1 /\ \A t \in candles : t < task.end
    <2>1. \A t \in task.fetched : t \in Int /\ listed <= t /\ t <= task.cursor - 1
      BY <1>1
    <2>2. \A t \in task.fetched : t \in listed .. closed - 1 /\ t < task.end
      BY <1>2, <2>1
    <2> QED BY Zenon, <1>1, <2>2
  <1>4. candles # parquet => /\ candles # {} /\ TrueOf(written) /\ written # NoManifest
                             /\ written \in Manifests /\ written.checksum = candles
    <2>1. SUFFICES ASSUME candles # parquet
                   PROVE  /\ candles # {} /\ TrueOf(written) /\ written # NoManifest
                          /\ written \in Manifests /\ written.checksum = candles
      BY Zenon
    <2>2. candles # {}
      BY Zenon, <2>1
    <2> HIDE DEF candles
    <2> QED BY Zenon, <1>2, <1>3, <2>2, ManifestOfTrue
  <1>5. Put(candles, written, pc, rest) /\ task.fetched \subseteq candles /\ parquet \subseteq candles
    BY Zenon
  <1> HIDE DEF candles, written
  <1>6. pc \in Calling /\ pc \in Walking /\ pc \notin Mending \cup {"seeded", "missing", "open"}
    BY Zenon DEF Calling, Walking, Mending
  <1>7. /\ parquet' = candles /\ task'.pc = pc /\ task'.end = task.end
        /\ task'.cursor = task.cursor /\ task'.first = task.first /\ task'.stop = task.stop
        /\ task'.stored = task.stored /\ task'.fetched = task.fetched
    BY <1>4, <1>5, <1>6, PutFields
  <1>8. CallInv'
    BY Zenon, <1>1, <1>2, <1>3, <1>6, <1>7 DEF CallInv, Calling, Walking, Mending
  <1>9. WalkInv'
    <2>1. \A t \in progress.next .. task.cursor - 1 :
             t < listed \/ t \in parquet \/ t \in task.fetched
      BY Zenon, WalkFacts
    <2>2. task.first = NoCandle =>
             task.fetched = {} /\ \A t \in task.cursor .. task.end - 1 : t < listed
      BY Zenon, WalkFacts
    <2>3. MonthEnd(task.cursor)' = MonthEnd(task.cursor)
      BY Zenon, <1>7 DEF MonthEnd
    <2> QED BY Zenon, <1>1, <1>5, <1>6, <1>7, <2>1, <2>2, <2>3 DEF WalkInv
  <1>10. rest.fetched \subseteq Candles /\ rest.cursor <= rest.end
    BY <1>1, <1>2 DEF Candles
  <1> QED BY Zenon, <1>1, <1>3, <1>4, <1>5, <1>6, <1>8, <1>9, <1>10, WriteInv

\* What was read before a missing archive is written.
LEMMA MissArchiveInv == HistoryInv /\ MissArchive => HistoryInv'
PROOF
  <1> SUFFICES ASSUME HistoryInv, MissArchive PROVE HistoryInv'
    OBVIOUS
  <1> DEFINE rest == [task EXCEPT !.left = @ - 1]
  <1>1. /\ task.pc = "vision" /\ task.next = NoManifest /\ task.pc \in Walking
        /\ MonthEnd(task.cursor) <= task.stop
        /\ Put(parquet \cup task.fetched, ManifestOf(parquet \cup task.fetched, FALSE),
               "missed", rest)
        /\ UNCHANGED <<manifest, progress, closed, listed, gateway, heard, crashes>>
    BY Zenon DEF MissArchive, Step, Here, WholeMonthMissing, Elsewhere, Walking
  <1>2. task \in TaskType
    BY Zenon, InvTypes
  <1>3. /\ rest \in TaskType /\ rest.next = NoManifest
        /\ rest.end = task.end /\ rest.cursor = task.cursor /\ rest.stop = task.stop
        /\ rest.first = task.first /\ rest.stored = task.stored /\ rest.fetched = task.fetched
    BY <1>1, <1>2 DEF TaskType
  <1> HIDE DEF rest
  <1> QED BY Zenon, <1>1, <1>3, WalkPutInv

\* The archives read are written.
LEMMA WriteArchivesInv == HistoryInv /\ WriteArchives => HistoryInv'
PROOF
  <1> SUFFICES ASSUME HistoryInv, WriteArchives PROVE HistoryInv'
    OBVIOUS
  <1>1. task.pc \in {"vision", "short", "broken"} /\ task.next = NoManifest
    BY Zenon DEF WriteArchives, Collected, Step, Here
  <1>2. /\ Put(parquet \cup task.fetched, ManifestOf(parquet \cup task.fetched, FALSE),
               Ended, task)
        /\ UNCHANGED <<manifest, progress, closed, listed, gateway, heard, crashes>>
    BY Zenon DEF WriteArchives, Elsewhere
  <1>3. task.pc \in Walking /\ Ended \in {"missed", "archived", "gap", "flushed", "decide"}
        /\ Ended # "missed" /\ Ended # "flushed"
    BY Zenon, <1>1 DEF Ended, Walking
  <1>4. task \in TaskType
    BY InvTypes
  <1> QED BY Zenon, <1>1, <1>2, <1>3, <1>4, WalkPutInv

\* An archive with a hole inside is dropped.
LEMMA DropArchiveInv == HistoryInv /\ DropArchive => HistoryInv'
PROOF
  <1> SUFFICES ASSUME HistoryInv, DropArchive PROVE HistoryInv'
    OBVIOUS
  <1>1. /\ task.pc = "vision" /\ task.next = NoManifest /\ task.pc \in Walking
        /\ task' = [task EXCEPT !.pc = "broken", !.left = @ - 1]
        /\ UNCHANGED <<parquet, manifest, progress, closed, listed, gateway, heard, crashes>>
    BY Zenon DEF DropArchive, Step, Here, Elsewhere, archiveVars, Walking
  <1>2. /\ task.pc \in Calling /\ progress.first = task.first
        /\ task.stored \subseteq parquet
        /\ task.fetched \subseteq listed .. task.cursor - 1
        /\ \A t \in progress.next .. task.cursor - 1 :
              t < listed \/ t \in parquet \/ t \in task.fetched
        /\ task.first = NoCandle =>
              task.fetched = {} /\ \A t \in task.cursor .. task.end - 1 : t < listed
    BY Zenon, <1>1, WalkFacts
  <1>3. /\ task \in TaskType /\ task.left \in Int /\ task.cursor <= task.end
        /\ progress \in [next : 0 .. LastCandle, first : Candles \cup {NoCandle}]
    BY Zenon, <1>2, CallFacts
  <1>4. /\ task' \in TaskType /\ task'.pc = "broken" /\ task'.next = NoManifest
        /\ task'.cursor = task.cursor /\ task'.end = task.end /\ task'.stop = task.stop
        /\ task'.first = task.first /\ task'.fetched = task.fetched /\ task'.stored = task.stored
    <2> DEFINE left == task.left - 1
    <2>1. left \in Int
      BY <1>3
    <2>2. task' = [task EXCEPT !.pc = "broken", !.left = left]
      BY Zenon, <1>1
    <2> HIDE DEF left
    <2> QED BY Zenon, <1>1, <1>3, <2>1, <2>2 DEF TaskType, Calling, Walking
  <1>5. WalkInv'
    BY Zenon, <1>1, <1>2, <1>4 DEF WalkInv
  <1>6. task'.pc \in Walking
    BY Zenon, <1>4 DEF Walking
  <1> QED BY Zenon, <1>1, <1>2, <1>3, <1>4, <1>5, <1>6, WalkStepInv

\* The pages read are written.
LEMMA FlushPagesInv == HistoryInv /\ FlushPages => HistoryInv'
PROOF
  <1> SUFFICES ASSUME HistoryInv, FlushPages PROVE HistoryInv'
    OBVIOUS
  <1> DEFINE pc == IF task.fetched = {} THEN "decide" ELSE "flushed"
  <1>1. /\ task.pc = "flush" /\ task.next = NoManifest /\ task.pc \in Walking
        /\ Put(parquet \cup task.fetched, ManifestOf(parquet \cup task.fetched, FALSE),
               pc, task)
        /\ UNCHANGED <<manifest, progress, closed, listed, gateway, heard, crashes>>
    BY Zenon DEF FlushPages, Step, Here, Elsewhere, Walking
  <1>2. task \in TaskType
    BY InvTypes
  <1>3. pc \in {"missed", "archived", "gap", "flushed", "decide"} /\ pc # "missed"
        /\ (pc = "flushed" => task.fetched # {})
    BY Zenon
  <1> HIDE DEF pc
  <1> QED BY Zenon, <1>1, <1>2, <1>3, WalkPutInv

\* The archive of a month is read.
LEMMA ReadArchiveInv == HistoryInv /\ ReadArchive => HistoryInv'
PROOF
  <1> SUFFICES ASSUME HistoryInv, ReadArchive PROVE HistoryInv'
    OBVIOUS
  <1> DEFINE Archive(to) == Klines(task.cursor, to, Month)
             Earlier(to) == Min(Archive(to)) > task.cursor /\ task.first # NoCandle
             First(to) == IF task.first = NoCandle \/ Earlier(to) THEN Min(Archive(to))
                          ELSE task.first
  <1>a. PICK me \in task.cursor + 1 .. MonthEnd(task.cursor) :
           /\ Archive(me) # {}
           /\ progress' = IF Earlier(me) THEN [progress EXCEPT !.first = First(me)] ELSE progress
           /\ task' = [task EXCEPT !.fetched = @ \cup Archive(me), !.first = First(me),
                          !.cursor = me, !.left = @ - 1,
                          !.pc = IF me < MonthEnd(task.cursor) THEN "short" ELSE "vision"]
    BY Zenon DEF ReadArchive
  <1> DEFINE got == Klines(task.cursor, me, Month)
             pc == IF me < MonthEnd(task.cursor) THEN "short" ELSE "vision"
             earlier == Min(got) > task.cursor /\ task.first # NoCandle
             first == IF task.first = NoCandle \/ earlier THEN Min(got) ELSE task.first
  <1>1. /\ task.pc = "vision" /\ task.next = NoManifest /\ task.pc \in Walking
        /\ MonthEnd(task.cursor) <= task.stop /\ got # {}
        /\ progress' = IF earlier THEN [progress EXCEPT !.first = first] ELSE progress
        /\ task' = [task EXCEPT !.fetched = @ \cup got, !.first = first,
                                !.cursor = me, !.left = @ - 1, !.pc = pc]
        /\ UNCHANGED <<parquet, manifest, closed, listed, gateway, heard, crashes>>
    BY Zenon, <1>a DEF ReadArchive, Step, Here, WholeMonthMissing, Elsewhere, archiveVars, Walking
  <1>2. /\ task.pc \in Calling /\ progress.first = task.first
        /\ task.stored \subseteq parquet
        /\ task.fetched \subseteq listed .. task.cursor - 1
        /\ \A t \in progress.next .. task.cursor - 1 :
              t < listed \/ t \in parquet \/ t \in task.fetched
        /\ task.first = NoCandle =>
              task.fetched = {} /\ \A t \in task.cursor .. task.end - 1 : t < listed
    BY Zenon, <1>1, WalkFacts
  <1>3. /\ task \in TaskType /\ task.cursor \in Nat /\ task.end \in Nat /\ task.left \in Int
        /\ task.stop \in Nat /\ task.cursor <= task.end /\ task.stop <= task.end
        /\ task.end <= closed /\ closed \in Nat /\ listed \in Nat
        /\ closed <= LastCandle /\ LastCandle \in Nat
        /\ task.first \in Candles \cup {NoCandle} /\ task.fetched \subseteq Nat
        /\ progress \in [next : 0 .. LastCandle, first : Candles \cup {NoCandle}]
    BY Zenon, <1>2, CallFacts
  <1>4. me \in Nat /\ task.cursor < me /\ me <= task.cursor + Month
        /\ Month \in Nat \ {0} /\ Month \in Nat
    <2>1. /\ MonthEnd(task.cursor) \in Nat
          /\ MonthEnd(task.cursor) <= task.cursor + Month
      BY <1>3, MonthEndBounds, LimitsNat
    <2> QED BY <1>3, <1>a, <2>1, LimitsNat
  <1>5. me <= task.end
    <2>1. MonthEnd(task.cursor) \in Nat
      BY <1>3, MonthEndBounds, LimitsNat
    <2> QED BY <1>1, <1>3, <1>4, <1>a, <2>1
  <1>6. /\ got \subseteq Nat
        /\ \A t \in got : task.cursor <= t /\ listed <= t /\ t < me
    <2>1. me \in Int
      BY <1>4
    <2> QED BY Zenon, <1>3, <1>4, <2>1, KlinesFacts
  <1>7. \A u \in task.cursor .. me - 1 : u < listed \/ u \in got
    <2> DEFINE m == Max({task.cursor, listed})
    <2>1. m = IF task.cursor <= listed THEN listed ELSE task.cursor
      BY Zenon, <1>3, MaxPair
    <2> HIDE DEF m
    <2>2. got = {t \in m .. me - 1 : t < m + Month}
      BY Zenon DEF got, Klines, m
    <2> HIDE DEF got
    <2> QED BY <1>3, <1>4, <2>1, <2>2
  <1>b. pc \in {"short", "vision"}
    BY Zenon
  <1> HIDE DEF got, pc
  <1>8. Min(got) \in got /\ Min(got) \in Candles
    <2>1. Min(got) \in got /\ Min(got) \in Nat
      BY Zenon, <1>1, <1>6, MinOf
    <2>2. Min(got) < me
      BY Zenon, <1>6, <2>1
    <2> QED BY <1>3, <1>4, <1>5, <2>1, <2>2 DEF Candles
  <1>9. task.first # NoCandle
    BY <1>1, <1>2, <1>3, <1>4, <1>5, <1>6, <1>8
  <1>10. first \in Candles /\ first # NoCandle
    BY <1>3, <1>8, <1>9 DEF Candles, NoCandle
  <1>11. /\ progress' \in [next : 0 .. LastCandle, first : Candles \cup {NoCandle}]
         /\ progress'.next = progress.next /\ progress'.first = first
    BY Zenon, <1>1, <1>2, <1>3, <1>9, <1>10
  <1> HIDE DEF first, earlier
  <1>12. /\ task' \in TaskType /\ task'.pc = pc /\ task'.next = NoManifest
         /\ task'.cursor = me /\ task'.end = task.end /\ task'.stop = task.stop
         /\ task'.first = first /\ task'.fetched = task.fetched \cup got
         /\ task'.stored = task.stored
    <2>1. task.fetched \cup got \in SUBSET Nat /\ task.left - 1 \in Int
          /\ first \in Candles \cup {NoCandle}
      <3>1. task.fetched \subseteq Nat /\ got \subseteq Nat
        BY Zenon, <1>3, <1>6
      <3>2. task.left - 1 \in Int
        BY <1>3
      <3>3. first \in Candles \cup {NoCandle}
        BY Zenon, <1>10
      <3> QED BY Zenon, <3>1, <3>2, <3>3
    <2>2. task' = [task EXCEPT !.fetched = task.fetched \cup got, !.first = first,
                               !.cursor = me, !.left = task.left - 1, !.pc = pc]
      BY Zenon, <1>1
    <2> QED BY Zenon, <1>1, <1>3, <1>4, <1>b, <2>1, <2>2 DEF TaskType, Calling, Walking
  <1>13. WalkInv'
    <2>1. task.fetched \cup got \subseteq listed .. me - 1
      <3>1. \A t \in task.fetched : t \in Int /\ listed <= t /\ t <= task.cursor - 1
        BY <1>2
      <3>2. \A t \in task.fetched : t \in listed .. me - 1
        BY <1>3, <1>4, <3>1
      <3>3. \A t \in got : t \in listed .. me - 1
        BY <1>3, <1>4, <1>6
      <3> QED BY Zenon, <3>2, <3>3
    <2>2. \A t \in progress.next .. me - 1 :
             t < listed \/ t \in parquet \/ t \in task.fetched \cup got
      <3>1. progress.next \in Nat
        BY <1>3
      <3> QED BY <1>2, <1>3, <1>4, <1>7, <3>1
    <2> QED BY Zenon, <1>1, <1>2, <1>10, <1>11, <1>12, <1>b, <2>1, <2>2 DEF WalkInv
  <1>14. pc \in Walking
    BY Zenon, <1>b DEF Walking
  <1> QED BY Zenon, <1>1, <1>5, <1>11, <1>12, <1>13, <1>14, WalkStepInv

\* What was read before the missing archive is saved.
LEMMA SavePendingInv == HistoryInv /\ SavePending => HistoryInv'
PROOF
  <1> SUFFICES ASSUME HistoryInv, SavePending PROVE HistoryInv'
    OBVIOUS
  <1>1. /\ task.pc = "missed" /\ task.next = NoManifest /\ task.pc \in Walking
        /\ progress' = [next |-> task.cursor, first |-> task.first]
        /\ task' = [task EXCEPT !.fetched = {}]
        /\ UNCHANGED <<parquet, manifest, closed, listed, gateway, heard, crashes>>
    BY Zenon DEF SavePending, Step, Here, Elsewhere, archiveVars, Walking
  <1>2. /\ task.pc \in Calling /\ task.stored \subseteq parquet
        /\ MonthEnd(task.cursor) <= task.stop
        /\ task.first = NoCandle => \A t \in task.cursor .. task.end - 1 : t < listed
    BY Zenon, <1>1, WalkFacts
  <1>3. /\ task \in TaskType /\ task.cursor \in Nat /\ task.end \in Nat
        /\ task.cursor <= task.end /\ task.end <= closed /\ closed \in Nat
        /\ closed <= LastCandle /\ LastCandle \in Nat
        /\ task.first \in Candles \cup {NoCandle}
    BY Zenon, <1>2, CallFacts
  <1>4. /\ task' \in TaskType /\ task'.pc = "missed" /\ task'.next = NoManifest
        /\ task'.cursor = task.cursor /\ task'.end = task.end /\ task'.stop = task.stop
        /\ task'.first = task.first /\ task'.fetched = {} /\ task'.stored = task.stored
    BY Zenon, <1>1, <1>3 DEF TaskType
  <1>5. /\ progress' \in [next : 0 .. LastCandle, first : Candles \cup {NoCandle}]
        /\ progress'.first = task.first
    <2>1. task.cursor \in 0 .. LastCandle
      BY <1>3
    <2> QED BY Zenon, <1>1, <1>3, <2>1
  <1>6. WalkInv'
    <2>1. progress'.next .. task'.cursor - 1 = {}
      BY <1>1, <1>3, <1>4
    <2>2. MonthEnd(task.cursor)' = MonthEnd(task.cursor)
      BY Zenon, <1>4 DEF MonthEnd
    <2> QED BY Zenon, <1>1, <1>2, <1>4, <2>1, <2>2 DEF WalkInv
  <1>7. task'.pc \in Walking
    BY Zenon, <1>4 DEF Walking
  <1> QED BY Zenon, <1>1, <1>3, <1>4, <1>5, <1>6, <1>7, WalkStepInv

\* A month before the first known candle is passed over, or REST is next.
LEMMA PassMonthInv == HistoryInv /\ PassMonth => HistoryInv'
PROOF
  <1> SUFFICES ASSUME HistoryInv, PassMonth PROVE HistoryInv'
    OBVIOUS
  <1> DEFINE me == MonthEnd(task.cursor)
             passed == task.first = NoCandle \/ me <= task.first
             cursor == IF passed THEN me ELSE task.cursor
             pc == IF passed THEN "vision" ELSE "rest"
             left == IF passed THEN task.left ELSE PagesPerStream
  <1>1. /\ task.pc = "missed" /\ task.next = NoManifest /\ task.pc \in Walking
        /\ task.fetched = {}
        /\ progress' = IF passed THEN [next |-> cursor, first |-> task.first] ELSE progress
        /\ task' = [task EXCEPT !.cursor = cursor, !.pc = pc, !.left = left]
        /\ UNCHANGED <<parquet, manifest, closed, listed, gateway, heard, crashes>>
    BY Zenon DEF PassMonth, Step, Here, Elsewhere, archiveVars, Walking
  <1>2. /\ task.pc \in Calling /\ progress.first = task.first
        /\ task.stored \subseteq parquet /\ me <= task.stop
        /\ \A t \in progress.next .. task.cursor - 1 :
              t < listed \/ t \in parquet \/ t \in task.fetched
        /\ task.first = NoCandle =>
              task.fetched = {} /\ \A t \in task.cursor .. task.end - 1 : t < listed
    BY Zenon, <1>1, WalkFacts
  <1>3. /\ task \in TaskType /\ task.cursor \in Nat /\ task.end \in Nat /\ task.left \in Int
        /\ task.stop \in Nat /\ task.cursor <= task.end /\ task.stop <= task.end
        /\ task.end <= closed /\ closed \in Nat /\ listed \in Nat
        /\ closed <= LastCandle /\ LastCandle \in Nat
        /\ task.first \in Candles \cup {NoCandle}
        /\ progress \in [next : 0 .. LastCandle, first : Candles \cup {NoCandle}]
    BY Zenon, <1>2, CallFacts
  <1>4. me \in Nat /\ task.cursor < me
    BY Zenon, <1>3, MonthEndBounds
  <1> HIDE DEF me
  <1>5. cursor \in Nat /\ task.cursor <= cursor /\ cursor <= task.end /\ left \in Int
        /\ pc \in {"vision", "rest"}
    BY <1>2, <1>3, <1>4, LimitsNat
  <1> HIDE DEF passed
  <1>6. /\ task' \in TaskType /\ task'.pc = pc /\ task'.next = NoManifest
        /\ task'.cursor = cursor /\ task'.end = task.end /\ task'.stop = task.stop
        /\ task'.first = task.first /\ task'.fetched = {} /\ task'.stored = task.stored
    <2> HIDE DEF cursor, pc, left
    <2> QED BY Zenon, <1>1, <1>3, <1>5 DEF TaskType, Calling, Walking
  <1>7. /\ progress' \in [next : 0 .. LastCandle, first : Candles \cup {NoCandle}]
        /\ progress'.first = task.first
    <2>1. cursor \in 0 .. LastCandle
      BY <1>3, <1>5
    <2> HIDE DEF cursor
    <2> QED BY Zenon, <1>1, <1>2, <1>3, <2>1
  <1>8. \A t \in progress'.next .. cursor - 1 : t < listed \/ t \in parquet
    <2>1. CASE passed
      <3>1. progress'.next = cursor
        BY Zenon, <1>1, <2>1
      <3> QED BY <1>5, <3>1
    <2>2. CASE ~passed
      <3>1. progress' = progress /\ cursor = task.cursor
        BY Zenon, <1>1, <2>2
      <3> QED BY Zenon, <1>1, <1>2, <3>1
    <2> QED BY Zenon, <2>1, <2>2
  <1> HIDE DEF cursor, pc, left
  <1>9. WalkInv'
    BY <1>1, <1>2, <1>3, <1>5, <1>6, <1>8 DEF WalkInv
  <1>10. pc \in Walking
    BY Zenon, <1>5 DEF Walking
  <1> QED BY Zenon, <1>1, <1>5, <1>6, <1>7, <1>9, <1>10, WalkStepInv

\* The archives are done with.
LEMMA EndArchivesInv == HistoryInv /\ EndArchives => HistoryInv'
PROOF
  <1> SUFFICES ASSUME HistoryInv, EndArchives PROVE HistoryInv'
    OBVIOUS
  <1>1. /\ task.pc \in {"archived", "gap"} /\ task.next = NoManifest /\ task.pc \in Walking
        /\ progress' = IF task.fetched = {} THEN progress
                       ELSE [next |-> task.cursor, first |-> task.first]
        /\ UNCHANGED archiveVars /\ UNCHANGED <<parquet, manifest>>
    BY Zenon DEF EndArchives, Step, Here, archiveVars, Walking
  <1>2. /\ task.pc \in Calling /\ progress.first = task.first
        /\ task.stored \subseteq parquet
        /\ \A t \in progress.next .. task.cursor - 1 :
              t < listed \/ t \in parquet \/ t \in task.fetched
        /\ task.first = NoCandle =>
              task.fetched = {} /\ \A t \in task.cursor .. task.end - 1 : t < listed
    BY Zenon, <1>1, WalkFacts
  <1>3. /\ task \in TaskType /\ task.cursor \in Nat /\ task.end \in Nat
        /\ task.cursor <= task.end /\ task.end <= closed /\ closed \in Nat /\ listed \in Nat
        /\ closed <= LastCandle /\ LastCandle \in Nat
        /\ task.first \in Candles \cup {NoCandle}
        /\ progress \in [next : 0 .. LastCandle, first : Candles \cup {NoCandle}]
    BY Zenon, <1>2, CallFacts
  <1>4. /\ progress' \in [next : 0 .. LastCandle, first : Candles \cup {NoCandle}]
        /\ progress'.first = task.first
    <2>1. task.cursor \in 0 .. LastCandle
      BY <1>3
    <2> QED BY Zenon, <1>1, <1>2, <1>3, <2>1
  <1>5. CASE Return("BACKFILLING")
    BY Zenon, <1>1, <1>2, <1>4, <1>5, ReturnInv
  <1>6. CASE /\ task' = [task EXCEPT !.pc = "rest", !.left = PagesPerStream, !.fetched = {}]
             /\ Elsewhere
    <2>1. /\ task' \in TaskType /\ task'.pc = "rest" /\ task'.next = NoManifest
          /\ task'.cursor = task.cursor /\ task'.end = task.end /\ task'.stop = task.stop
          /\ task'.first = task.first /\ task'.fetched = {} /\ task'.stored = task.stored
      BY Zenon, <1>1, <1>3, <1>6, LimitsNat DEF TaskType, Calling, Walking
    <2>2. \A t \in progress'.next .. task.cursor - 1 : t < listed \/ t \in parquet
      <3>1. CASE task.fetched = {}
        BY Zenon, <1>1, <1>2, <3>1
      <3>2. CASE task.fetched # {}
        BY <1>1, <1>3, <3>2
      <3> QED BY Zenon, <3>1, <3>2
    <2>3. UNCHANGED <<closed, listed, gateway, heard, crashes>>
      BY Zenon, <1>6 DEF Elsewhere
    <2>4. WalkInv'
      BY Zenon, <1>1, <1>2, <2>1, <2>2, <2>3 DEF WalkInv
    <2>5. task'.pc \in Walking
      BY Zenon, <2>1 DEF Walking
    <2> QED BY Zenon, <1>1, <1>3, <1>4, <2>1, <2>3, <2>4, <2>5, WalkStepInv
  <1> QED BY Zenon, <1>5, <1>6 DEF EndArchives

-----------------------------------------------------------------------------
(* REST pages. *)

\* Where the next page begins: behind stored candles, and not beyond the end.
LEMMA NextMissing ==
  ASSUME HistoryInv, task.pc \in Walking
  PROVE  LET c == MissingFrom(task.cursor, task.stored) IN
         /\ c \in Nat /\ task.cursor <= c /\ c <= task.end
         /\ \A t \in task.cursor .. c - 1 : t \in parquet
         /\ task.fetched \subseteq listed .. c - 1
         /\ \A t \in progress.next .. c - 1 :
               t < listed \/ t \in parquet \/ t \in task.fetched
         /\ task.first = NoCandle => \A t \in c .. task.end - 1 : t < listed
PROOF
  <1> DEFINE c == MissingFrom(task.cursor, task.stored)
  <1>1. /\ task.pc \in Calling /\ (\A t \in parquet : t < task.end)
        /\ task.stored \subseteq parquet
        /\ task.fetched \subseteq listed .. task.cursor - 1
        /\ \A t \in progress.next .. task.cursor - 1 :
              t < listed \/ t \in parquet \/ t \in task.fetched
        /\ task.first = NoCandle => \A t \in task.cursor .. task.end - 1 : t < listed
    BY Zenon, WalkFacts
  <1>2. /\ task.cursor \in Nat /\ task.end \in Nat /\ task.cursor <= task.end
        /\ task.end <= closed /\ closed \in Nat /\ closed <= LastCandle /\ LastCandle \in Nat
        /\ listed \in Nat /\ progress.next \in Nat
    BY Zenon, <1>1, CallFacts
  <1>3. task.end \in task.cursor .. LastCandle /\ task.end \notin task.stored
    BY <1>1, <1>2
  <1>4. /\ c \in task.cursor .. task.end
        /\ \A t \in task.cursor .. c - 1 : t \in task.stored
    BY Zenon, <1>2, <1>3, MissingFromFacts
  <1> HIDE DEF c
  <1>5. c \in Nat /\ task.cursor <= c /\ c <= task.end
        /\ \A t \in task.cursor .. c - 1 : t \in parquet
    BY <1>1, <1>2, <1>4
  <1>6. task.fetched \subseteq listed .. c - 1
    <2>1. \A t \in task.fetched : t \in Int /\ listed <= t /\ t <= task.cursor - 1
      BY <1>1
    <2> QED BY <1>2, <1>5, <2>1
  <1>7. \A t \in progress.next .. c - 1 : t < listed \/ t \in parquet \/ t \in task.fetched
    BY <1>1, <1>2, <1>5
  <1>8. task.first = NoCandle => \A t \in c .. task.end - 1 : t < listed
    BY <1>1, <1>2, <1>5
  <1> QED BY Zenon, <1>5, <1>6, <1>7, <1>8 DEF c

\* A page is read, or refused.
LEMMA ReadPageInv == HistoryInv /\ ReadPage => HistoryInv'
PROOF
  <1> SUFFICES ASSUME HistoryInv, ReadPage PROVE HistoryInv'
    OBVIOUS
  <1> DEFINE c == MissingFrom(task.cursor, task.stored)
             to == MissingTo(c, task.stored)
             got == Klines(c, to, Page)
             Refused(answered) == \/ got = {} \/ ~answered
                                  \/ Min(got) > c /\ task.first # NoCandle
  <1>a. PICK answered \in BOOLEAN :
           task' = IF Refused(answered)
                   THEN [task EXCEPT !.cursor = c, !.pc = "flush", !.left = -1]
                   ELSE [task EXCEPT !.cursor = Max(got) + 1, !.left = @ - 1,
                                     !.fetched = @ \cup got]
    BY Zenon DEF ReadPage
  <1> DEFINE refused == Refused(answered)
  <1>1. /\ task.pc = "rest" /\ task.next = NoManifest /\ task.pc \in Walking
        /\ task' = IF refused
                   THEN [task EXCEPT !.cursor = c, !.pc = "flush", !.left = -1]
                   ELSE [task EXCEPT !.cursor = Max(got) + 1, !.left = @ - 1,
                                     !.fetched = @ \cup got]
        /\ UNCHANGED <<parquet, manifest, progress, closed, listed, gateway, heard, crashes>>
    BY Zenon, <1>a DEF ReadPage, Step, Here, Elsewhere, archiveVars, Walking
  <1>2. /\ task.pc \in Calling /\ progress.first = task.first
        /\ task.stored \subseteq parquet
        /\ task.first = NoCandle => task.fetched = {}
    BY Zenon, <1>1, WalkFacts
  <1>3. /\ task \in TaskType /\ task.end \in Nat /\ task.left \in Int
        /\ task.end <= closed /\ closed \in Nat /\ listed \in Nat
        /\ closed <= LastCandle /\ LastCandle \in Nat
        /\ task.stored \subseteq Nat /\ task.fetched \subseteq Nat
        /\ progress \in [next : 0 .. LastCandle, first : Candles \cup {NoCandle}]
        /\ progress.next \in Nat
    BY Zenon, <1>2, CallFacts
  <1>4. /\ c \in Nat /\ task.cursor <= c /\ c <= task.end
        /\ task.fetched \subseteq listed .. c - 1
        /\ \A t \in progress.next .. c - 1 :
              t < listed \/ t \in parquet \/ t \in task.fetched
        /\ task.first = NoCandle => \A t \in c .. task.end - 1 : t < listed
    BY Zenon, <1>1, NextMissing
  <1> HIDE DEF c
  <1>5. to \in Nat /\ to \in Int /\ to <= task.end
    BY <1>3, MissingToFacts
  <1> HIDE DEF to
  <1>6. /\ got \subseteq Nat
        /\ \A t \in got : c <= t /\ listed <= t /\ t < to
        /\ \A t \in got : \A u \in c .. t : u < listed \/ u \in got
    <2>1. Page \in Nat \ {0}
      BY LimitsNat
    <2> QED BY Zenon, <1>3, <1>4, <1>5, <2>1, KlinesFacts
  <1> HIDE DEF got
  <1>7. CASE refused
    <2>1. /\ task' \in TaskType /\ task'.pc = "flush" /\ task'.next = NoManifest
          /\ task'.cursor = c /\ task'.end = task.end /\ task'.stop = task.stop
          /\ task'.first = task.first /\ task'.fetched = task.fetched
          /\ task'.stored = task.stored
      <3>1. c \in Nat /\ task \in TaskType /\ task.next = NoManifest
            /\ task' = [task EXCEPT !.cursor = c, !.pc = "flush", !.left = -1]
        BY Zenon, <1>1, <1>3, <1>4, <1>7
      <3>2. -1 \in Int
        OBVIOUS
      <3> QED BY Zenon, <3>1, <3>2 DEF TaskType, Calling, Walking
    <2>2. WalkInv'
      BY Zenon, <1>1, <1>2, <1>4, <2>1 DEF WalkInv
    <2>3. task'.pc \in Walking
      BY Zenon, <2>1 DEF Walking
    <2> QED BY Zenon, <1>1, <1>2, <1>3, <1>4, <2>1, <2>2, <2>3, WalkStepInv
  <1>8. CASE ~refused
    <2> DEFINE last == Max(got)
    <2>1. got # {}
      BY Zenon, <1>8
    <2>2. last \in got /\ last \in Nat /\ \A t \in got : t <= last
      <3>1. \A t \in got : t <= to
        BY <1>5, <1>6
      <3> QED BY Zenon, <1>5, <1>6, <2>1, <3>1, MaxOf
    <2>3. /\ task' = [task EXCEPT !.cursor = last + 1, !.left = task.left - 1,
                                  !.fetched = task.fetched \cup got]
      BY Zenon, <1>1, <1>8
    <2> HIDE DEF last, refused
    <2>4. c <= last /\ last < to /\ listed <= last /\ last + 1 <= task.end /\ last + 1 \in Nat
      BY <1>3, <1>5, <1>6, <2>2
    <2>5. task.first # NoCandle
      BY <1>3, <1>4, <2>2, <2>4
    <2>6. /\ task' \in TaskType /\ task'.pc = "rest" /\ task'.next = NoManifest
          /\ task'.cursor = last + 1 /\ task'.end = task.end /\ task'.stop = task.stop
          /\ task'.first = task.first /\ task'.fetched = task.fetched \cup got
          /\ task'.stored = task.stored
      <3>1. task.fetched \cup got \in SUBSET Nat /\ task.left - 1 \in Int
        <4>1. task.left \in Int /\ task.fetched \subseteq Nat /\ got \subseteq Nat
          BY Zenon, <1>3, <1>6
        <4>2. task.left - 1 \in Int
          BY <4>1
        <4>3. \A t \in task.fetched \cup got : t \in Nat
          BY Zenon, <4>1
        <4> QED BY Zenon, <4>2, <4>3
      <3>2. last + 1 \in Nat /\ task \in TaskType /\ task.next = NoManifest /\ task.pc = "rest"
        BY Zenon, <1>1, <1>3, <2>4
      <3> QED BY Zenon, <2>3, <3>1, <3>2 DEF TaskType
    <2>7. WalkInv'
      <3>1. task.fetched \cup got \subseteq listed .. (last + 1) - 1
        <4>1. \A t \in task.fetched : t \in Int /\ listed <= t /\ t <= c - 1
          BY <1>4
        <4>2. \A t \in task.fetched : t \in listed .. (last + 1) - 1
          BY <1>3, <1>4, <2>2, <2>4, <4>1
        <4>3. \A t \in got : t \in listed .. (last + 1) - 1
          BY <1>3, <1>6, <2>2
        <4> QED BY Zenon, <4>2, <4>3
      <3>2. \A t \in progress.next .. (last + 1) - 1 :
               t < listed \/ t \in parquet \/ t \in task.fetched \cup got
        <4>1. \A u \in c .. last : u < listed \/ u \in got
          BY Zenon, <1>6, <2>2
        <4> QED BY <1>3, <1>4, <2>2, <4>1
      <3> QED BY Zenon, <1>1, <1>2, <2>5, <2>6, <3>1, <3>2 DEF WalkInv
    <2>8. task'.pc \in Walking /\ task'.cursor <= task.end
      BY Zenon, <2>4, <2>6 DEF Walking
    <2> QED BY Zenon, <1>1, <1>2, <1>3, <2>6, <2>7, <2>8, WalkStepInv
  <1> QED BY Zenon, <1>7, <1>8

\* The pages of the call are used up, or nothing is missing any more.
LEMMA EndPagesInv == HistoryInv /\ EndPages => HistoryInv'
PROOF
  <1> SUFFICES ASSUME HistoryInv, EndPages PROVE HistoryInv'
    OBVIOUS
  <1> DEFINE c == MissingFrom(task.cursor, task.stored)
             cursor == IF task.left = 0 THEN task.cursor ELSE c
  <1>1. /\ task.pc = "rest" /\ task.next = NoManifest /\ task.pc \in Walking
        /\ task' = [task EXCEPT !.pc = "flush", !.left = 0, !.cursor = cursor]
        /\ UNCHANGED <<parquet, manifest, progress, closed, listed, gateway, heard, crashes>>
    BY Zenon DEF EndPages, Step, Here, Elsewhere, archiveVars, Walking
  <1>2. /\ task.pc \in Calling /\ progress.first = task.first
        /\ task.stored \subseteq parquet
        /\ task.fetched \subseteq listed .. task.cursor - 1
        /\ \A t \in progress.next .. task.cursor - 1 :
              t < listed \/ t \in parquet \/ t \in task.fetched
        /\ task.first = NoCandle =>
              task.fetched = {} /\ \A t \in task.cursor .. task.end - 1 : t < listed
    BY Zenon, <1>1, WalkFacts
  <1>3. /\ task \in TaskType /\ task.cursor \in Nat /\ task.cursor <= task.end
        /\ progress \in [next : 0 .. LastCandle, first : Candles \cup {NoCandle}]
    BY Zenon, <1>2, CallFacts
  <1>4. /\ c \in Nat /\ task.cursor <= c /\ c <= task.end
        /\ task.fetched \subseteq listed .. c - 1
        /\ \A t \in progress.next .. c - 1 :
              t < listed \/ t \in parquet \/ t \in task.fetched
        /\ task.first = NoCandle => \A t \in c .. task.end - 1 : t < listed
    BY Zenon, <1>1, NextMissing
  <1> HIDE DEF c
  <1>5. /\ cursor \in Nat /\ cursor <= task.end
        /\ task.fetched \subseteq listed .. cursor - 1
        /\ \A t \in progress.next .. cursor - 1 :
              t < listed \/ t \in parquet \/ t \in task.fetched
        /\ task.first = NoCandle =>
              task.fetched = {} /\ \A t \in cursor .. task.end - 1 : t < listed
    <2>1. cursor = task.cursor \/ cursor = c
      BY Zenon
    <2> HIDE DEF cursor
    <2> QED BY Zenon, <1>2, <1>3, <1>4, <2>1
  <1> HIDE DEF cursor
  <1>6. /\ task' \in TaskType /\ task'.pc = "flush" /\ task'.next = NoManifest
        /\ task'.cursor = cursor /\ task'.end = task.end /\ task'.stop = task.stop
        /\ task'.first = task.first /\ task'.fetched = task.fetched
        /\ task'.stored = task.stored
    <2>1. cursor \in Nat /\ task \in TaskType /\ task.next = NoManifest
          /\ task' = [task EXCEPT !.pc = "flush", !.left = 0, !.cursor = cursor]
      BY Zenon, <1>1, <1>3, <1>5
    <2>2. 0 \in Int
      OBVIOUS
    <2> QED BY Zenon, <2>1, <2>2 DEF TaskType, Calling, Walking
  <1>7. WalkInv'
    BY Zenon, <1>1, <1>2, <1>5, <1>6 DEF WalkInv
  <1>8. task'.pc \in Walking
    BY <1>6 DEF Walking
  <1> QED BY Zenon, <1>1, <1>2, <1>3, <1>5, <1>6, <1>7, <1>8, WalkStepInv

\* The progress file follows the pages.
LEMMA SavePagesInv == HistoryInv /\ SavePages => HistoryInv'
PROOF
  <1> SUFFICES ASSUME HistoryInv, SavePages PROVE HistoryInv'
    OBVIOUS
  <1> DEFINE cursor == IF manifest.gaps = {} THEN Max({task.cursor, manifest.last + 1})
                       ELSE task.cursor
             first == IF task.first = NoCandle THEN Min(task.fetched) ELSE task.first
  <1>1. /\ task.pc = "flushed" /\ task.next = NoManifest /\ task.pc \in Walking
        /\ progress' = [next |-> cursor, first |-> first]
        /\ task' = [task EXCEPT !.pc = "decide", !.cursor = cursor, !.first = first]
        /\ UNCHANGED <<parquet, manifest, closed, listed, gateway, heard, crashes>>
    BY Zenon DEF SavePages, Step, Here, Elsewhere, archiveVars, Walking
  <1>2. /\ task.pc \in Calling /\ task.stored \subseteq parquet
        /\ task.fetched \subseteq listed .. task.cursor - 1
        /\ task.fetched \subseteq parquet /\ task.fetched # {}
        /\ task.first # NoCandle /\ (parquet = {} \/ Verified)
        /\ \A t \in parquet : t < task.end
    BY Zenon, <1>1, WalkFacts
  <1>3. /\ task \in TaskType /\ task.cursor \in Nat /\ task.cursor <= task.end
        /\ task.end \in Nat /\ task.end <= closed /\ closed \in Nat /\ listed \in Nat
        /\ closed <= LastCandle /\ LastCandle \in Nat
        /\ task.first \in Candles \cup {NoCandle}
    BY Zenon, <1>2, CallFacts
  <1>4. first = task.first
    BY Zenon, <1>2
  <1>5. cursor \in Nat /\ task.cursor <= cursor /\ cursor <= task.end
    <2>1. manifest.last \in Nat /\ manifest.last \in parquet
      BY Zenon, <1>2, VerifiedFacts
    <2>2. manifest.last + 1 \in Nat /\ manifest.last + 1 <= task.end
      BY <1>2, <1>3, <2>1
    <2>3. Max({task.cursor, manifest.last + 1}) =
             IF task.cursor <= manifest.last + 1 THEN manifest.last + 1 ELSE task.cursor
      BY Zenon, <1>3, <2>2, MaxPair
    <2> QED BY <1>3, <2>2, <2>3
  <1> HIDE DEF cursor, first
  <1>6. /\ task' \in TaskType /\ task'.pc = "decide" /\ task'.next = NoManifest
        /\ task'.cursor = cursor /\ task'.end = task.end /\ task'.stop = task.stop
        /\ task'.first = task.first /\ task'.fetched = task.fetched
        /\ task'.stored = task.stored
    BY Zenon, <1>1, <1>3, <1>4, <1>5 DEF TaskType, Calling, Walking
  <1>7. /\ progress' \in [next : 0 .. LastCandle, first : Candles \cup {NoCandle}]
        /\ progress'.first = task.first /\ progress'.next = cursor
    <2>1. cursor \in 0 .. LastCandle
      BY <1>3, <1>5
    <2> QED BY Zenon, <1>1, <1>3, <1>4, <2>1
  <1>8. WalkInv'
    <2>1. task.fetched \subseteq listed .. cursor - 1
      <3>1. \A t \in task.fetched : t \in Int /\ listed <= t /\ t <= task.cursor - 1
        BY <1>2
      <3> QED BY <1>3, <1>5, <3>1
    <2>2. \A t \in progress'.next .. cursor - 1 : FALSE
      BY <1>5, <1>7
    <2> QED BY Zenon, <1>1, <1>2, <1>6, <2>1, <2>2 DEF WalkInv
  <1>9. task'.pc \in Walking
    BY Zenon, <1>6 DEF Walking
  <1> QED BY Zenon, <1>1, <1>5, <1>6, <1>7, <1>8, <1>9, WalkStepInv

\* The call ends with the state of its stream.
LEMMA DecideInv == HistoryInv /\ Decide => HistoryInv'
PROOF
  <1> SUFFICES ASSUME HistoryInv, Decide PROVE HistoryInv'
    OBVIOUS
  <1> DEFINE c == MissingFrom(task.cursor, task.stored)
  <1>1. /\ task.pc = "decide" /\ task.pc \in Walking /\ UNCHANGED archiveVars
    BY Zenon DEF Decide, Step, Here, Walking
  <1>2. task.pc \in Calling
    BY Zenon, <1>1, WalkFacts
  <1>3. /\ task.end \in Nat /\ task.end <= closed /\ closed \in Nat
        /\ closed <= LastCandle /\ LastCandle \in Nat
        /\ progress \in [next : 0 .. LastCandle, first : Candles \cup {NoCandle}]
    BY Zenon, <1>2, CallFacts
  <1>4. CASE Return("UNAVAILABLE") /\ UNCHANGED progress
    BY Zenon, <1>1, <1>2, <1>3, <1>4, ReturnInv
  <1>5. CASE progress' = [progress EXCEPT !.next = c] /\ Return(Status(c))
    <2>1. c \in Nat /\ c <= task.end
      BY Zenon, <1>1, NextMissing
    <2> HIDE DEF c
    <2>2. progress' \in [next : 0 .. LastCandle, first : Candles \cup {NoCandle}]
      <3>1. c \in 0 .. LastCandle
        BY <1>3, <2>1
      <3> QED BY Zenon, <1>3, <1>5, <3>1
    <2>3. \/ Status(c) \in {"BLOCKED", "UNAVAILABLE", "BACKFILLING"}
          \/ Verified /\ manifest.gaps = {}
      <3>1. CASE c < task.end
        BY Zenon, <1>3, <2>1, <3>1 DEF Status
      <3>2. CASE c >= task.end /\ ~Verified
        BY Zenon, <1>3, <2>1, <3>2 DEF Status
      <3>3. CASE c >= task.end /\ Verified
        BY Zenon, <1>3, <2>1, <3>3 DEF Status
      <3> QED BY <1>3, <2>1, <3>1, <3>2, <3>3
    <2> QED BY Zenon, <1>1, <1>2, <1>5, <2>2, <2>3, ReturnInv
  <1> QED BY Zenon, <1>4, <1>5 DEF Decide

\* A request fails.
LEMMA FailRequestInv == HistoryInv /\ FailRequest => HistoryInv'
PROOF
  <1> SUFFICES ASSUME HistoryInv, FailRequest PROVE HistoryInv'
    OBVIOUS
  <1>1. /\ task.pc \in {"open", "tail", "vision", "rest"} /\ Return("BLOCKED")
        /\ UNCHANGED archiveVars /\ progress' = progress
    BY Zenon DEF FailRequest, Here
  <1>2. task.pc \in Calling
    BY Zenon, <1>1 DEF Calling, Mending, Walking
  <1>3. progress \in [next : 0 .. LastCandle, first : Candles \cup {NoCandle}]
    BY Zenon, <1>2, CallFacts
  <1> QED BY Zenon, <1>1, <1>2, <1>3, ReturnInv

-----------------------------------------------------------------------------
(* The live stream and the process. *)

\* The candle after the last one leaves no hole.
LEMMA NextLeavesNoHole ==
  ASSUME NEW S, S \subseteq Nat, Holes(S) = {}, NEW last \in S, \A t \in S : t <= last
  PROVE  Holes(S \cup {last + 1}) = {}
PROOF
  <1> DEFINE T == S \cup {last + 1}
  <1>1. SUFFICES ASSUME NEW p \in Holes(T) PROVE FALSE
    BY Zenon
  <1>2. /\ p[1] \in T /\ p[2] \in T /\ p[1] + 1 < p[2] /\ p = <<p[1], p[2]>>
        /\ \A t \in p[1] + 1 .. p[2] - 1 : t \notin T
    BY <1>1 DEF Holes
  <1>3. last \in Nat /\ last \in T /\ p[1] \in Nat /\ p[2] \in Nat
    BY <1>2
  <1>4. p[1] \in S
    BY <1>2, <1>3
  <1>5. CASE p[2] = last + 1
    <2>1. p[1] < last
      BY <1>2, <1>3, <1>5
    <2>2. last \in p[1] + 1 .. p[2] - 1
      BY <1>3, <1>5, <2>1
    <2> QED BY Zenon, <1>2, <1>3, <2>2
  <1>6. CASE p[2] \in S
    <2>1. \A t \in p[1] + 1 .. p[2] - 1 : t \notin S
      BY Zenon, <1>2
    <2>2. p \in Holes(S)
      BY Zenon, <1>2, <1>4, <1>6, <2>1 DEF Holes
    <2> QED BY Zenon, <2>2
  <1> QED BY Zenon, <1>2, <1>5, <1>6

\* While the stream is read the dataset is whole and the writer idle.
LEMMA LiveFacts ==
  ASSUME HistoryInv, gateway = "live", task.pc = "none"
  PROVE  /\ task = NoTask /\ Verified /\ parquet # {} /\ Holes(parquet) = {}
         /\ \A t \in parquet : t <= heard
         /\ heard \in Nat /\ closed \in Nat /\ closed <= LastCandle /\ LastCandle \in Nat
         /\ listed \in Nat
PROOF
  <1>1. task = NoTask
    BY Zenon DEF HistoryInv, CallInv
  <1>2. task.next = NoManifest
    BY Zenon, <1>1, NoTaskTyped
  <1> QED BY Zenon, <1>1, <1>2, InvTypes DEF HistoryInv, LiveInv

\* A candle of the stream.
LEMMA AppendCandleInv ==
  ASSUME HistoryInv, NEW early \in BOOLEAN, AppendCandle(early)
  PROVE  HistoryInv'
PROOF
  <1> DEFINE candles == parquet \cup {heard}
             written == ManifestOf(candles, early)
  <1>1. /\ gateway = "live" /\ task.pc = "none" /\ listed <= heard /\ heard < closed
        /\ heard' = heard + 1
        /\ UNCHANGED <<manifest, closed, listed, progress, crashes>>
    BY Zenon DEF AppendCandle, Here
  <1>2. /\ task = NoTask /\ Verified /\ parquet # {} /\ Holes(parquet) = {}
        /\ \A t \in parquet : t <= heard
        /\ heard \in Nat /\ closed \in Nat /\ closed <= LastCandle /\ LastCandle \in Nat
        /\ listed \in Nat /\ parquet \subseteq Nat
    BY Zenon, <1>1, LiveFacts, InvTypes
  <1>3. heard' \in 0 .. LastCandle
    BY <1>1, <1>2
  <1>4. CASE gateway' = "cycle" /\ UNCHANGED <<parquet, task>>
    <2>1. task' = NoTask
      BY Zenon, <1>2, <1>4
    <2>2. HistoryTypeOK'
      BY Zenon, <1>1, <1>3, <1>4 DEF HistoryInv, HistoryTypeOK
    <2>3. LiveInv'
      BY Zenon, <1>4 DEF LiveInv
    <2> QED BY Zenon, <1>1, <1>4, <2>1, <2>2, <2>3, IdleInv
  <1>5. CASE heard <= manifest.last + 1 /\ StoreLive(early) /\ UNCHANGED gateway
    <2>1. CASE heard \in parquet
      <3>1. candles = parquet
        BY Zenon, <2>1
      <3>2. task' = [NoTask EXCEPT !.pc = "none"] /\ parquet' = parquet
        BY Zenon, <1>5, <2>1, <3>1 DEF StoreLive, Put
      <3>3. task' = NoTask
        BY Zenon, <3>2 DEF NoTask
      <3>4. HistoryTypeOK'
        BY Zenon, <1>1, <1>2, <1>3, <1>5, <3>2, <3>3 DEF HistoryInv, HistoryTypeOK
      <3>5. LiveInv'
        <4>1. \A t \in parquet : t <= heard + 1
          BY <1>2
        <4>2. NoTask.pc = "none"
          BY Zenon, NoTaskTyped
        <4> QED BY Zenon, <1>1, <1>2, <3>2, <3>3, <4>1, <4>2 DEF LiveInv, Verified
      <3> QED BY Zenon, <1>1, <3>2, <3>3, <3>4, <3>5, IdleInv
    <2>2. CASE heard \notin parquet
      <3>1. /\ manifest.last \in parquet /\ manifest.last \in Nat
            /\ \A t \in parquet : t <= manifest.last
        BY Zenon, <1>2, VerifiedFacts
      <3>2. heard = manifest.last + 1
        BY <1>2, <1>5, <2>2, <3>1
      <3>3. Holes(candles) = {}
        BY Zenon, <1>2, <3>1, <3>2, NextLeavesNoHole
      <3>4. candles \subseteq listed .. closed - 1 /\ candles # {} /\ candles # parquet
        <4>1. parquet \subseteq listed .. closed - 1
          BY Zenon DEF HistoryInv, FilesInv
        <4> QED BY <1>1, <1>2, <2>2, <4>1
      <3>5. \A t \in candles : t <= heard + 1
        BY <1>2
      <3>6. /\ parquet' = candles
            /\ task' = [NoTask EXCEPT !.pc = "live", !.next = written]
        BY Zenon, <1>5, <2>2, <3>4 DEF StoreLive, Put
      <3> HIDE DEF candles
      <3>7. /\ written \in Manifests /\ written # NoManifest
            /\ written.checksum = candles /\ TrueOf(written)
        BY Zenon, <1>2, <3>4, ManifestOfTrue
      <3> HIDE DEF written
      <3>8. /\ task' \in TaskType /\ task'.pc = "live" /\ task'.next = written
            /\ task'.end = 0 /\ task'.cursor = 0 /\ task'.stop = 0
            /\ task'.stored = {} /\ task'.fetched = {}
        BY Zenon, <3>6, <3>7, NoTaskTyped DEF TaskType
      <3>9. candles \subseteq Candles
        BY <1>2, <3>4 DEF Candles
      <3>10. HistoryTypeOK'
        <4>1. 0 \in 0 .. LastCandle /\ 0 \in 0 .. closed
          BY <1>2
        <4> QED BY Zenon, <1>1, <1>3, <1>5, <3>6, <3>8, <3>9, <4>1 DEF HistoryInv, HistoryTypeOK
      <3>11. FilesInv'
        <4>1. TrueOf(manifest)' /\ TrueOf(task.next)'
          BY Zenon, <1>1, <3>7, <3>8 DEF HistoryInv, FilesInv, TrueOf
        <4> QED BY Zenon, <1>1, <3>4, <3>6, <3>7, <3>8, <4>1 DEF FilesInv, Mending, Walking
      <3>12. CallInv'
        BY <1>1, <1>2, <3>8 DEF CallInv, Calling, Mending, Walking
      <3>13. WalkInv'
        BY Zenon, <3>8 DEF WalkInv, Walking
      <3>14. LiveInv'
        BY Zenon, <1>1, <3>3, <3>4, <3>5, <3>6, <3>7, <3>8 DEF LiveInv
      <3> QED BY Zenon, <3>8, <3>10, <3>11, <3>12, <3>13, <3>14 DEF HistoryInv
    <2> QED BY Zenon, <2>1, <2>2
  <1>6. manifest.last \in Nat
    BY Zenon, <1>2, VerifiedFacts
  <1> QED BY <1>2, <1>4, <1>5, <1>6 DEF AppendCandle

\* A connection is opened again.
LEMMA ReconnectInv == HistoryInv /\ Reconnect => HistoryInv'
PROOF
  <1> SUFFICES ASSUME HistoryInv, Reconnect PROVE HistoryInv'
    OBVIOUS
  <1>1. /\ gateway = "live" /\ task.pc = "none" /\ heard' \in heard + 1 .. closed
        /\ UNCHANGED <<parquet, manifest, closed, listed, progress, gateway, task, crashes>>
    BY Zenon DEF Reconnect, Here
  <1>2. /\ task = NoTask /\ Verified /\ parquet # {} /\ Holes(parquet) = {}
        /\ \A t \in parquet : t <= heard
        /\ heard \in Nat /\ closed \in Nat /\ closed <= LastCandle /\ LastCandle \in Nat
        /\ parquet \subseteq Nat
    BY Zenon, <1>1, LiveFacts, InvTypes
  <1>3. heard' \in 0 .. LastCandle /\ \A t \in parquet : t <= heard'
    BY <1>1, <1>2
  <1>4. HistoryTypeOK'
    BY Zenon, <1>1, <1>3 DEF HistoryInv, HistoryTypeOK
  <1>5. LiveInv'
    <2>1. NoTask.pc = "none"
      BY Zenon, NoTaskTyped
    <2> QED BY Zenon, <1>1, <1>2, <1>3, <2>1 DEF LiveInv, Verified
  <1> QED BY Zenon, <1>1, <1>2, <1>4, <1>5, IdleInv

\* The connection ends, the process dies, the process is started again.
LEMMA ProcessInv == HistoryInv /\ (EndLive \/ CrashGateway \/ StartGateway) => HistoryInv'
PROOF
  <1> SUFFICES ASSUME HistoryInv, EndLive \/ CrashGateway \/ StartGateway PROVE HistoryInv'
    BY Zenon
  <1>1. CASE EndLive
    <2>1. /\ gateway = "live" /\ task.pc = "none" /\ gateway' = "cycle"
          /\ UNCHANGED <<parquet, manifest, closed, listed, progress, heard, task, crashes>>
      BY Zenon, <1>1 DEF EndLive, Here
    <2>2. task' = NoTask
      BY Zenon, <2>1, LiveFacts
    <2>3. HistoryTypeOK' /\ LiveInv'
      BY Zenon, <2>1 DEF HistoryInv, HistoryTypeOK, LiveInv
    <2> QED BY Zenon, <2>1, <2>2, <2>3, IdleInv
  <1>2. CASE CrashGateway
    <2>1. /\ task' = NoTask /\ gateway' = "down" /\ crashes' = crashes + 1 /\ crashes < MaxCrashes
          /\ UNCHANGED <<parquet, manifest, closed, listed, progress, heard>>
      BY Zenon, <1>2 DEF CrashGateway
    <2>2. crashes' \in 0 .. MaxCrashes
      BY <2>1, HistoryAssumption DEF HistoryInv, HistoryTypeOK
    <2>3. NoTask.cursor \in 0 .. LastCandle /\ NoTask.end \in 0 .. closed /\ NoTask.fetched = {}
      BY NoTaskTyped, InvTypes
    <2>4. HistoryTypeOK'
      BY Zenon, <2>1, <2>2, <2>3 DEF HistoryInv, HistoryTypeOK
    <2>5. LiveInv'
      BY Zenon, <2>1 DEF LiveInv
    <2> QED BY Zenon, <2>1, <2>4, <2>5, IdleInv
  <1>3. CASE StartGateway
    <2>1. /\ gateway = "down" /\ gateway' = "cycle"
          /\ UNCHANGED <<parquet, manifest, closed, listed, progress, heard, task, crashes>>
      BY Zenon, <1>3 DEF StartGateway
    <2>2. HistoryTypeOK' /\ LiveInv' /\ task' \in TaskType
      BY Zenon, <2>1 DEF HistoryInv, HistoryTypeOK, LiveInv
    <2>3. FilesInv'
      BY Zenon, <2>1 DEF HistoryInv, FilesInv, TrueOf, Verified
    <2>4. CallInv'
      BY <2>1 DEF HistoryInv, CallInv
    <2>5. WalkInv'
      BY Zenon, <2>1 DEF HistoryInv, WalkInv, MonthEnd
    <2> QED BY Zenon, <2>2, <2>3, <2>4, <2>5 DEF HistoryInv
  <1> QED BY Zenon, <1>1, <1>2, <1>3

-----------------------------------------------------------------------------
(* The invariant. *)

\* An empty archive and no call: the invariant holds at first.
LEMMA HistoryInitInv == HistoryInit => HistoryInv
PROOF
  <1> SUFFICES ASSUME HistoryInit PROVE HistoryInv
    BY Zenon
  <1>1. /\ parquet = {} /\ manifest = NoManifest /\ closed = Opening /\ listed \in Listings
        /\ progress = NoProgress /\ gateway = "down" /\ heard = 0 /\ task = NoTask
        /\ crashes = 0
    BY Zenon DEF HistoryInit
  <1>2. /\ task \in TaskType /\ task.pc = "none" /\ task.next = NoManifest
        /\ task.end = 0 /\ task.cursor = 0 /\ task.stop = 0
        /\ task.stored = {} /\ task.fetched = {}
    BY Zenon, <1>1, NoTaskTyped
  <1>3. /\ Opening \in Nat /\ LastCandle \in Nat /\ Opening <= LastCandle
        /\ MaxCrashes \in Nat /\ listed \in Nat
    BY Zenon, <1>1, HistoryAssumption
  <1>4. HistoryTypeOK
    <2>1. /\ closed \in Opening .. LastCandle /\ heard \in 0 .. LastCandle
          /\ task.cursor \in 0 .. LastCandle /\ task.end \in 0 .. closed
          /\ crashes \in 0 .. MaxCrashes
      BY <1>1, <1>2, <1>3
    <2> QED BY Zenon, <1>1, <1>2, <2>1 DEF HistoryTypeOK
  <1>5. FilesInv
    BY Zenon, <1>1, <1>2 DEF FilesInv, TrueOf, Mending, Walking
  <1>6. CallInv
    BY <1>1, <1>2, <1>3 DEF CallInv, Calling, Mending, Walking
  <1>7. WalkInv
    BY Zenon, <1>1, <1>2 DEF WalkInv, Walking
  <1>8. LiveInv
    BY Zenon, <1>1 DEF LiveInv
  <1> QED BY Zenon, <1>2, <1>4, <1>5, <1>6, <1>7, <1>8 DEF HistoryInv

\* Every step keeps it.
LEMMA HistoryStepInv == HistoryInv /\ [HistoryNext]_historyVars => HistoryInv'
PROOF
  <1> SUFFICES ASSUME HistoryInv, [HistoryNext]_historyVars PROVE HistoryInv'
    BY Zenon
  <1>1. CASE CloseCandle
    BY Zenon, <1>1, CloseCandleInv
  <1>2. CASE BeginCollect
    BY Zenon, <1>2, CollectInv DEF BeginCollect
  <1>3. CASE Proceed
    BY Zenon, <1>3, WriteManifestInv, SeedInv, SaveSeedInv, OpenInv, RepairUnclosedInv, SaveRepairInv,
       RepairBoundaryInv, RefreshTailInv, FindMissingInv, ReadArchiveInv, MissArchiveInv,
       SavePendingInv, PassMonthInv, DropArchiveInv, WriteArchivesInv, EndArchivesInv,
       ReadPageInv, EndPagesInv, FlushPagesInv, SavePagesInv, DecideInv DEF Proceed
  <1>4. CASE FailRequest
    BY <1>4, FailRequestInv
  <1>5. CASE Deliver
    BY Zenon, <1>5, AppendCandleInv DEF Deliver
  <1>6. CASE Reconnect
    BY <1>6, ReconnectInv
  <1>7. CASE EndLive \/ CrashGateway \/ StartGateway
    BY Zenon, <1>7, ProcessInv
  <1>8. CASE UNCHANGED historyVars
    <2>1. UNCHANGED <<parquet, manifest, closed, listed, progress, gateway, heard, task, crashes>>
      BY Zenon, <1>8 DEF historyVars
    <2>2. HistoryTypeOK' /\ LiveInv' /\ task' \in TaskType
      BY Zenon, <2>1 DEF HistoryInv, HistoryTypeOK, LiveInv, Verified
    <2>3. FilesInv'
      BY Zenon, <2>1 DEF HistoryInv, FilesInv, TrueOf, Verified
    <2>4. CallInv'
      BY <2>1 DEF HistoryInv, CallInv
    <2>5. WalkInv'
      BY Zenon, <2>1 DEF HistoryInv, WalkInv, MonthEnd
    <2> QED BY Zenon, <2>2, <2>3, <2>4, <2>5 DEF HistoryInv
  <1> QED BY Zenon, <1>1, <1>2, <1>3, <1>4, <1>5, <1>6, <1>7, <1>8 DEF HistoryNext

\* The inductive invariant holds throughout, type correctness included: a call's
\* end is never beyond the closed candles (_candles_unlocked).
THEOREM HistoryInvariant == HistorySpec => []HistoryInv
PROOF
  <1>1. HistoryInit => HistoryInv
    BY Zenon, HistoryInitInv
  <1>2. HistoryInv /\ [HistoryNext]_historyVars => HistoryInv'
    BY Zenon, HistoryStepInv
  <1> QED BY <1>1, <1>2, PTL DEF HistorySpec

\* Every variable of the gateway keeps its type, and no call of
\* _candles_unlocked counts an open candle as closed.
THEOREM HistoryTyped == HistorySpec => []HistoryTypeOK
PROOF
  <1>1. HistoryInv => HistoryTypeOK
    BY Zenon DEF HistoryInv
  <1> QED BY <1>1, HistoryInvariant, PTL

\* Whatever brings them, only closed candles of the symbol are stored.
THEOREM StoredAreClosed == HistorySpec => []OnlyClosedStored
PROOF
  <1>1. HistoryInv => OnlyClosedStored
    <2> SUFFICES ASSUME HistoryInv PROVE OnlyClosedStored
      BY Zenon
    <2>1. parquet \subseteq listed .. closed - 1 /\ listed \in Nat /\ closed \in Nat
      BY Zenon, InvTypes DEF HistoryInv, FilesInv
    <2> QED BY <2>1 DEF OnlyClosedStored
  <1> QED BY <1>1, HistoryInvariant, PTL

\* A manifest that matches its file tells its bounds and its holes, even when
\* append_verified_tail derived it without a look at the old rows.
THEOREM ManifestsAreTrue == HistorySpec => []ManifestTrue
PROOF
  <1>1. HistoryInv => ManifestTrue
    <2> SUFFICES ASSUME HistoryInv, Verified PROVE TableVerified
      BY Zenon DEF ManifestTrue
    <2> QED BY Zenon, VerifiedFacts DEF TableVerified
  <1> QED BY <1>1, HistoryInvariant, PTL

\* The live gateway's dataset is whole (DirectTimeframeWriter.append).
THEOREM LiveIsWhole == HistorySpec => []LiveDatasetWhole
PROOF
  <1>1. HistoryInv => LiveDatasetWhole
    <2> SUFFICES ASSUME HistoryInv, gateway = "live", task = NoTask
                 PROVE  Verified /\ Holes(parquet) = {}
      BY Zenon DEF LiveDatasetWhole
    <2>1. task.pc = "none"
      BY Zenon, NoTaskTyped
    <2> QED BY Zenon, <2>1, LiveFacts
  <1> QED BY <1>1, HistoryInvariant, PTL

-----------------------------------------------------------------------------
(* What a step may never do. *)

\* What a write leaves in the file.
LEMMA PutParquet ==
  ASSUME NEW candles, NEW written, NEW pc, NEW rest, Put(candles, written, pc, rest)
  PROVE  parquet' = candles
PROOF
  BY Zenon DEF Put

\* A repair cuts nothing, or the candles from its start on.
LEMMA TruncateCuts ==
  ASSUME NEW start, NEW pc, NEW rest, TruncateFrom(start, pc, rest)
  PROVE  parquet' = parquet \/ parquet' = {t \in parquet : t < start}
PROOF
  BY Zenon, PutParquet DEF TruncateFrom, Retained

\* No step but a repair removes a candle.
LEMMA OnlyRepairsCut ==
  ASSUME HistoryInv, [HistoryNext]_historyVars, ~RepairUnclosed, ~RepairBoundary
  PROVE  parquet \subseteq parquet'
PROOF
  <1>1. CASE CloseCandle \/ FailRequest \/ Reconnect \/ EndLive \/ CrashGateway \/ StartGateway
    BY Zenon, <1>1 DEF CloseCandle, FailRequest, Reconnect, EndLive, CrashGateway, StartGateway,
                archiveVars
  <1>2. CASE BeginCollect
    BY Zenon, <1>2 DEF BeginCollect, Collect, archiveVars
  <1>3. CASE Proceed
    <2>1. CASE WriteManifest \/ SaveSeed \/ Open \/ SaveRepair \/ FindMissing
      BY Zenon, <2>1 DEF WriteManifest, SaveSeed, Open, SaveRepair, FindMissing, archiveVars
    <2>2. CASE ReadArchive \/ SavePending \/ PassMonth \/ DropArchive \/ EndArchives \/ ReadPage
               \/ EndPages \/ SavePages \/ Decide
      BY Zenon, <2>2 DEF ReadArchive, SavePending, PassMonth, DropArchive, EndArchives, ReadPage,
                  EndPages, SavePages, Decide, archiveVars
    <2>3. CASE MissArchive \/ WriteArchives \/ FlushPages
      <3>1. parquet' = parquet \cup task.fetched
        BY Zenon, <2>3, PutParquet DEF MissArchive, WriteArchives, FlushPages
      <3> QED BY Zenon, <3>1
    <2>4. CASE Seed
      BY Zenon, <2>4 DEF Seed, Unseeded
    <2>5. CASE RefreshTail \/ RefreshPart
      <3>1. PICK to : AppendTail(to)
        BY Zenon, <2>5 DEF RefreshTail, RefreshPart
      <3>2. \/ parquet' = parquet
            \/ \E got : parquet' = parquet \cup got
        BY Zenon, <3>1, PutParquet DEF AppendTail
      <3> QED BY Zenon, <3>2
    <2> QED BY Zenon, <1>3, <2>1, <2>2, <2>3, <2>4, <2>5 DEF Proceed
  <1>4. CASE Deliver
    <2>1. PICK early \in BOOLEAN : AppendCandle(early)
      BY Zenon, <1>4 DEF Deliver
    <2>2. parquet' = parquet \/ parquet' = parquet \cup {heard}
      BY Zenon, <2>1, PutParquet DEF AppendCandle, StoreLive
    <2> QED BY Zenon, <2>2
  <1>5. CASE UNCHANGED historyVars
    BY Zenon, <1>5 DEF historyVars
  <1> QED BY Zenon, <1>1, <1>2, <1>3, <1>4, <1>5 DEF HistoryNext

\* A repair (truncate_from) cuts the newest candle and none of the history.
THEOREM RepairsCutNewestOnly == HistorySpec => CutsNewestOnly
PROOF
  <1>1. ASSUME HistoryInv, [HistoryNext]_historyVars, NEW t \in parquet \ parquet'
        PROVE  t = Max(parquet)
    <2>1. RepairUnclosed \/ RepairBoundary
      BY Zenon, <1>1, OnlyRepairsCut
    <2>2. task.pc \in Mending /\ task.next = NoManifest
      BY Zenon, <2>1 DEF RepairUnclosed, RepairBoundary, Step, Here, Mending
    <2>3. /\ manifest.last = Max(parquet) /\ manifest.last \in Nat
          /\ \A u \in parquet : u \in Nat /\ u <= manifest.last
      BY Zenon, <1>1, <2>2, MendingVerified, VerifiedFacts
    <2>4. CASE RepairUnclosed
      <3>1. parquet' = parquet \/ parquet' = {u \in parquet : u < manifest.last}
        BY Zenon, <2>4, TruncateCuts DEF RepairUnclosed, archiveVars
      <3> QED BY <1>1, <2>3, <3>1
    <2>5. CASE RepairBoundary
      <3>1. parquet' = parquet \/ parquet' = {u \in parquet : u < task.end}
        BY Zenon, <2>5, TruncateCuts DEF RepairBoundary, archiveVars
      <3>2. task.pc = "boundary" /\ task.pc \in Calling
        BY Zenon, <2>5 DEF RepairBoundary, Step, Here, Calling, Mending
      <3>3. task.end \in Nat
        BY Zenon, <1>1, <3>2, CallFacts
      <3>4. \A u \in parquet : u <= task.end
        BY Zenon, <1>1, <3>2 DEF HistoryInv, CallInv
      <3>5. manifest.last \in parquet
        BY Zenon, <1>1, <2>2, MendingVerified, VerifiedFacts
      <3> QED BY <1>1, <2>3, <3>1, <3>3, <3>4, <3>5
    <2> QED BY Zenon, <2>1, <2>4, <2>5
  <1>2. HistoryInv /\ [HistoryNext]_historyVars =>
           [\A t \in parquet \ parquet' : t = Max(parquet)]_historyVars
    BY Zenon, <1>1
  <1> QED BY <1>2, HistoryInvariant, PTL DEF HistorySpec, CutsNewestOnly

\* A dataset whose files do not match is never written again.
THEOREM CorruptStays == HistorySpec => CorruptNeverReset
PROOF
  <1>1. ASSUME HistoryInv, HistoryNext, Torn, task.next = NoManifest
        PROVE  UNCHANGED archiveVars
    <2>1. parquet # {} /\ ~Verified
      BY Zenon, <1>1 DEF Torn
    <2>2. task.pc \notin Mending \cup Walking \cup {"seeded", "missing"}
      BY Zenon, <1>1, <2>1 DEF HistoryInv, FilesInv
    <2>3. ~(gateway = "live" /\ task.pc = "none")
      BY Zenon, <1>1, <2>1, LiveFacts
    <2>4. CASE CloseCandle \/ FailRequest \/ Reconnect \/ EndLive \/ CrashGateway \/ StartGateway
      BY Zenon, <2>4 DEF CloseCandle, FailRequest, Reconnect, EndLive, CrashGateway, StartGateway,
                  archiveVars
    <2>5. CASE BeginCollect
      BY Zenon, <2>5 DEF BeginCollect, Collect
    <2>6. CASE Deliver
      BY Zenon, <2>3, <2>6 DEF Deliver, AppendCandle, Here
    <2>7. CASE Proceed
      <3>1. ~(WriteManifest \/ Seed)
        BY Zenon, <1>1, <2>1 DEF WriteManifest, Seed, Unseeded
      <3>2. ~(SaveSeed \/ RepairUnclosed \/ SaveRepair \/ RepairBoundary \/ RefreshTail
                \/ RefreshPart \/ FindMissing)
        BY Zenon, <2>2 DEF SaveSeed, RepairUnclosed, SaveRepair, RepairBoundary, RefreshTail,
                    RefreshPart, AppendTail, FindMissing, Step, Here, Mending
      <3>3. ~(ReadArchive \/ MissArchive \/ SavePending \/ PassMonth \/ DropArchive
                \/ WriteArchives \/ EndArchives \/ ReadPage \/ EndPages \/ FlushPages
                \/ SavePages \/ Decide)
        BY Zenon, <2>2 DEF ReadArchive, MissArchive, SavePending, PassMonth, DropArchive,
                    WriteArchives, Collected, EndArchives, ReadPage, EndPages, FlushPages,
                    SavePages, Decide, Step, Here, Walking
      <3>4. Open
        BY Zenon, <2>7, <3>1, <3>2, <3>3 DEF Proceed
      <3> QED BY Zenon, <3>4 DEF Open
    <2> QED BY Zenon, <1>1, <2>4, <2>5, <2>6, <2>7 DEF HistoryNext
  <1>2. HistoryInv /\ [HistoryNext]_historyVars =>
           [Torn /\ task.next = NoManifest => UNCHANGED archiveVars]_historyVars
    BY Zenon, <1>1
  <1> QED BY <1>2, HistoryInvariant, PTL DEF HistorySpec, CorruptNeverReset

\* The candles a saved cursor may move over.
LEMMA CoveredBack ==
  ASSUME HistoryInv, progress # NoProgress, progress'.next \in Int,
         progress'.next <= progress.next, NEW t \in progress.next .. progress'.next - 1
  PROVE  FALSE
PROOF
  <1>1. progress.next \in Nat
    BY DEF HistoryInv, HistoryTypeOK
  <1> QED BY <1>1

\* Most steps leave the saved cursor where it is.
LEMMA CursorKept ==
  ASSUME HistoryInv, HistoryNext, progress # NoProgress,
         ~BeginCollect, ~SaveRepair, ~SavePending, ~PassMonth, ~EndArchives, ~SavePages, ~Decide
  PROVE  progress'.next = progress.next
PROOF
  <1>1. progress \in [next : 0 .. LastCandle, first : Candles \cup {NoCandle}]
    BY Zenon DEF HistoryInv, HistoryTypeOK
  <1>2. CASE CloseCandle \/ FailRequest \/ Reconnect \/ EndLive \/ CrashGateway \/ StartGateway
    BY Zenon, <1>2 DEF CloseCandle, FailRequest, Reconnect, EndLive, CrashGateway, StartGateway
  <1>3. CASE Deliver
    BY Zenon, <1>3 DEF Deliver, AppendCandle
  <1>4. CASE Proceed
    <2>1. CASE WriteManifest \/ Seed
      BY Zenon, <2>1 DEF WriteManifest, Seed
    <2>2. CASE RepairUnclosed \/ RepairBoundary \/ RefreshTail \/ RefreshPart \/ FindMissing
      BY Zenon, <2>2 DEF RepairUnclosed, RepairBoundary, RefreshTail, RefreshPart, AppendTail,
                  FindMissing, TruncateFrom
    <2>3. CASE MissArchive \/ DropArchive \/ WriteArchives \/ ReadPage \/ EndPages \/ FlushPages
      BY Zenon, <2>3 DEF MissArchive, DropArchive, WriteArchives, ReadPage, EndPages, FlushPages
    <2>4. CASE SaveSeed
      BY Zenon, <1>1, <2>4 DEF SaveSeed
    <2>5. CASE Open
      <3>1. progress' = progress \/ \E first : progress' = [progress EXCEPT !.first = first]
        BY Zenon, <2>5 DEF Open
      <3> QED BY Zenon, <1>1, <3>1
    <2>6. CASE ReadArchive
      <3>1. progress' = progress \/ \E first : progress' = [progress EXCEPT !.first = first]
        BY Zenon, <2>6 DEF ReadArchive
      <3> QED BY <1>1, <3>1
    <2> QED BY Zenon, <1>4, <2>1, <2>2, <2>3, <2>4, <2>5, <2>6 DEF Proceed
  <1> QED BY Zenon, <1>2, <1>3, <1>4 DEF HistoryNext

\* The cursor moves over a month that is passed over.
LEMMA PassMonthCovered ==
  ASSUME HistoryInv, PassMonth, NEW t \in progress.next .. progress'.next - 1
  PROVE  t < listed \/ t \in parquet \/ (Here("missed") /\ t < task.first)
PROOF
  <1> DEFINE me == MonthEnd(task.cursor)
             passed == task.first = NoCandle \/ me <= task.first
             cursor == IF passed THEN me ELSE task.cursor
  <1>1. /\ task.pc = "missed" /\ task.pc \in Walking
        /\ progress' = IF passed THEN [next |-> cursor, first |-> task.first] ELSE progress
    BY Zenon DEF PassMonth, Step, Here, Walking
  <1>2. /\ task.pc \in Calling /\ me <= task.stop /\ task.fetched \subseteq parquet
        /\ \A u \in progress.next .. task.cursor - 1 :
              u < listed \/ u \in parquet \/ u \in task.fetched
        /\ task.first = NoCandle => \A u \in task.cursor .. task.end - 1 : u < listed
    BY Zenon, <1>1, WalkFacts
  <1>3. /\ task.cursor \in Nat /\ task.end \in Nat /\ task.stop \in Nat
        /\ task.stop <= task.end /\ progress.next \in Nat /\ listed \in Nat
        /\ task.first \in Candles \cup {NoCandle}
    BY Zenon, <1>2, CallFacts
  <1>4. me \in Nat
    BY Zenon, <1>3, MonthEndBounds
  <1>5. task.first \in Int
    BY <1>3, InvTypes DEF Candles, NoCandle
  <1> HIDE DEF me
  <1>6. CASE ~passed
    <2>1. progress' = progress
      BY Zenon, <1>1, <1>6
    <2>2. t \in progress.next .. progress.next - 1
      BY Zenon, <2>1
    <2> QED BY <1>3, <2>2
  <1>7. CASE passed
    <2>1. progress'.next = cursor
      BY Zenon, <1>1, <1>7
    <2>2. t \in Int /\ progress.next <= t /\ t < cursor
      BY <1>3, <1>4, <2>1
    <2>3. CASE t < task.cursor
      BY <1>2, <1>3, <2>2, <2>3
    <2>4. CASE t >= task.cursor
      <3>1. passed /\ t < me
        BY <1>3, <2>2, <2>4
      <3>2. CASE task.first = NoCandle
        <4>1. t \in task.cursor .. task.end - 1
          BY <1>2, <1>3, <1>4, <2>2, <2>4, <3>1
        <4> QED BY Zenon, <1>2, <3>2, <4>1
      <3>3. CASE me <= task.first
        BY <1>1, <1>4, <1>5, <2>2, <3>1, <3>3 DEF Here
      <3> QED BY Zenon, <3>1, <3>2, <3>3
    <2> QED BY <1>3, <2>2, <2>3, <2>4
  <1> QED BY Zenon, <1>6, <1>7

\* The cursor moves over the pages' candles and the whole stretch behind them.
LEMMA SavePagesCovered ==
  ASSUME HistoryInv, SavePages, NEW t \in progress.next .. progress'.next - 1
  PROVE  t < listed \/ t \in parquet
PROOF
  <1> DEFINE cursor == IF manifest.gaps = {} THEN Max({task.cursor, manifest.last + 1})
                       ELSE task.cursor
  <1>1. task.pc = "flushed" /\ task.pc \in Walking /\ progress'.next = cursor
    BY Zenon DEF SavePages, Step, Here, Walking
  <1>2. /\ task.pc \in Calling /\ task.fetched \subseteq parquet /\ task.fetched # {}
        /\ task.fetched \subseteq listed .. task.cursor - 1
        /\ (parquet = {} \/ Verified)
        /\ \A u \in progress.next .. task.cursor - 1 :
              u < listed \/ u \in parquet \/ u \in task.fetched
    BY Zenon, <1>1, WalkFacts DEF SavePages, Step
  <1>3. task.cursor \in Nat /\ progress.next \in Nat /\ listed \in Nat
    BY Zenon, <1>2, CallFacts
  <1>4. /\ manifest.last \in parquet /\ manifest.last \in Nat
        /\ \A u \in parquet : u \in Nat /\ u <= manifest.last
        /\ manifest.gaps = Holes(parquet)
    BY Zenon, <1>2, VerifiedFacts
  <1>5. cursor = IF manifest.gaps = {} /\ task.cursor <= manifest.last + 1
                 THEN manifest.last + 1 ELSE task.cursor
    <2>1. manifest.last + 1 \in Nat
      BY <1>4
    <2>2. Max({task.cursor, manifest.last + 1}) =
             IF task.cursor <= manifest.last + 1 THEN manifest.last + 1 ELSE task.cursor
      BY Zenon, <1>3, <2>1, MaxPair
    <2> QED BY Zenon, <2>2
  <1>6. t \in Int /\ progress.next <= t /\ t < cursor
    BY <1>1, <1>3, <1>4, <1>5
  <1> HIDE DEF cursor
  <1>7. CASE t < task.cursor
    BY <1>2, <1>3, <1>6, <1>7
  <1>8. CASE t >= task.cursor
    <2>1. manifest.gaps = {} /\ t <= manifest.last
      BY <1>3, <1>4, <1>5, <1>6, <1>8
    <2>2. PICK f \in task.fetched : TRUE
      BY Zenon, <1>2
    <2>3. f \in parquet /\ f \in Nat /\ f < task.cursor
      BY <1>2, <1>3, <1>4, <2>2
    <2>4. t \in f .. manifest.last /\ Holes(parquet) = {} /\ parquet \subseteq Nat
      BY <1>3, <1>4, <1>6, <1>8, <2>1, <2>3
    <2>5. t \in parquet
      BY Zenon, <1>4, <2>3, <2>4, NoHoles
    <2> QED BY Zenon, <2>5
  <1> QED BY <1>3, <1>6, <1>7, <1>8

\* Progress is saved after the candles it speaks of.
THEOREM ProgressFollowsCandles == HistorySpec => ProgressCovered
PROOF
  <1>1. ASSUME HistoryInv, HistoryNext, progress # NoProgress,
               NEW t \in progress.next .. progress'.next - 1
        PROVE  t < listed \/ t \in parquet \/ (Here("missed") /\ t < task.first)
    <2>1. /\ progress \in [next : 0 .. LastCandle, first : Candles \cup {NoCandle}]
          /\ progress.next \in Nat
      BY <1>1 DEF HistoryInv, HistoryTypeOK
    <2>2. CASE BeginCollect
      <3>1. PICK tail \in BOOLEAN, lag \in {0, 1} : Collect(tail, lag)
        BY Zenon, <2>2 DEF BeginCollect
      <3> DEFINE end == ClosedEnd(lag)
      <3>2. end \in Nat
        BY <1>1, InvTypes DEF ClosedEnd
      <3>3. progress'.next = Min({progress.next, end})
        BY Zenon, <1>1, <3>1 DEF Collect, Start
      <3> HIDE DEF end
      <3>4. progress'.next \in Int /\ progress'.next <= progress.next
        BY <2>1, <3>2, <3>3, MinPair
      <3> QED BY Zenon, <1>1, <3>4, CoveredBack
    <2>3. CASE SaveRepair
      <3>1. task.pc = "repaired" /\ progress'.next = task.cursor
        BY Zenon, <2>1, <2>3 DEF SaveRepair, Step, Here
      <3>2. task.pc \in Calling \ Walking
        BY Zenon, <3>1 DEF Calling, Mending, Walking
      <3>3. progress'.next <= progress.next /\ progress'.next \in Int
        <4>1. task.cursor <= progress.next
          BY Zenon, <1>1, <3>2 DEF HistoryInv, CallInv
        <4>2. task.cursor \in Nat
          BY Zenon, <1>1, <3>2, CallFacts
        <4> QED BY <3>1, <4>1, <4>2
      <3> QED BY Zenon, <1>1, <3>3, CoveredBack
    <2>4. CASE PassMonth
      BY Zenon, <1>1, <2>4, PassMonthCovered
    <2>5. CASE SavePending \/ EndArchives
      <3>1. /\ task.pc \in {"missed", "archived", "gap"} /\ task.pc \in Walking
            /\ progress'.next \in {progress.next, task.cursor}
        <4>1. CASE SavePending
          BY Zenon, <4>1 DEF SavePending, Step, Here, Walking
        <4>2. CASE EndArchives
          BY Zenon, <4>2 DEF EndArchives, Step, Here, Walking
        <4> QED BY Zenon, <2>5, <4>1, <4>2
      <3>2. /\ task.pc \in Calling /\ task.fetched \subseteq parquet
            /\ \A u \in progress.next .. task.cursor - 1 :
                  u < listed \/ u \in parquet \/ u \in task.fetched
        BY Zenon, <1>1, <3>1, WalkFacts
      <3>3. task.cursor \in Nat
        BY Zenon, <1>1, <3>2, CallFacts
      <3>4. CASE progress'.next = progress.next
        <4>1. t \in progress.next .. progress.next - 1
          BY Zenon, <1>1, <3>4
        <4> QED BY <2>1, <4>1
      <3>5. CASE progress'.next = task.cursor
        <4>1. t \in progress.next .. task.cursor - 1
          BY Zenon, <1>1, <3>5
        <4> QED BY Zenon, <3>2, <4>1
      <3> QED BY Zenon, <3>1, <3>4, <3>5
    <2>6. CASE SavePages
      BY Zenon, <1>1, <2>6, SavePagesCovered
    <2>7. CASE Decide
      <3> DEFINE c == MissingFrom(task.cursor, task.stored)
      <3>1. /\ task.pc = "decide" /\ task.pc \in Walking
            /\ progress'.next \in {progress.next, c}
        BY Zenon, <2>1, <2>7 DEF Decide, Step, Here, Walking
      <3>2. /\ c \in Nat /\ task.fetched \subseteq parquet
            /\ \A u \in progress.next .. c - 1 :
                  u < listed \/ u \in parquet \/ u \in task.fetched
        BY Zenon, <1>1, <3>1, WalkFacts, NextMissing
      <3> HIDE DEF c
      <3> QED BY <1>1, <2>1, <3>1, <3>2
    <2>8. CASE ~(BeginCollect \/ SaveRepair \/ SavePending \/ PassMonth \/ EndArchives
                   \/ SavePages \/ Decide)
      <3>1. progress'.next = progress.next
        BY Zenon, <1>1, <2>8, CursorKept
      <3>2. progress'.next \in Int /\ progress'.next <= progress.next
        BY <2>1, <3>1
      <3> QED BY Zenon, <1>1, <3>2, CoveredBack
    <2> QED BY Zenon, <2>2, <2>3, <2>4, <2>5, <2>6, <2>7, <2>8
  <1>2. HistoryInv /\ [HistoryNext]_historyVars =>
           [progress # NoProgress =>
              \A t \in progress.next .. progress'.next - 1 :
                 \/ t < listed
                 \/ t \in parquet
                 \/ Here("missed") /\ t < task.first]_historyVars
    BY Zenon, <1>1
  <1> QED BY <1>2, HistoryInvariant, PTL DEF HistorySpec, ProgressCovered
=============================================================================
