------------------------ MODULE VirtualMarketProofs ------------------------
(***************************************************************************)
(* Daemons that are started one at a time exclude each other, whatever     *)
(* their number, however often they stop and crash, and whatever their     *)
(* process markers tell; and so do the virtual market daemons, whose cycles     *)
(* leave the lease alone. Having one writer, the wallet's ledger can       *)
(* always be recovered, applies each candle once and adds up, for all      *)
(* candles, plans, fees and symbols.                                       *)
(***************************************************************************)
EXTENDS VirtualMarketDaemon, WellFoundedInduction, TLAPS

\* The fields of the lock file.
LEMMA LockFields ==
    ASSUME LeaseTypeOK
    PROVE  /\ lock.exists \in BOOLEAN /\ lock.creator \in 0 .. MaxStarts
           /\ lock.owner \in 0 .. MaxStarts
PROOF
  BY Zenon DEF LeaseTypeOK

\* Every step of the lease keeps the types of its state.
LEMMA LeaseTypes ==
    ASSUME LeaseTypeOK, SerialNext
    PROVE  LeaseTypeOK'
PROOF
  <1>n. NoLock \in [exists : BOOLEAN, creator : 0 .. MaxStarts, owner : 0 .. MaxStarts]
    BY LeaseAssumption DEF NoLock
  <1>e. ASSUME NEW d \in Daemons, Ends(d)
        PROVE  /\ phase' \in [Daemons -> Phases] /\ me' \in [Daemons -> 0 .. MaxStarts]
               /\ seen' \in [Daemons -> 0 .. MaxStarts]
    BY <1>e, LeaseAssumption DEF LeaseTypeOK, Ends, Goto, Phases
  <1> SUFFICES ASSUME NEW d \in Daemons,
                      Start(d) \/ AcquireStep(d) \/ Release(d) \/ Die(d)
               PROVE  LeaseTypeOK'
    BY Zenon DEF SerialNext
  <1>1. CASE Start(d)
    BY <1>1, LeaseAssumption DEF Start, LeaseTypeOK, Goto, Phases, Acquiring
  <1>2. CASE LookForFile(d)
    BY Zenon, <1>2 DEF LookForFile, LeaseTypeOK, Goto, Phases, Acquiring
  <1>3. CASE ReadOwner(d)
    <2>1. CASE lock.exists /\ lock.owner # 0
      BY Zenon, <1>3, <2>1, LockFields DEF ReadOwner, LeaseTypeOK, Goto, Phases, Acquiring
    <2>2. CASE ~(lock.exists /\ lock.owner # 0)
      BY Zenon, <1>3, <2>2, <1>e DEF ReadOwner, LeaseTypeOK
    <2> QED
      BY Zenon, <2>1, <2>2
  <1>z. ASSUME NEW x \in Daemons PROVE [seen EXCEPT ![x] = 0] \in [Daemons -> 0 .. MaxStarts]
    BY LeaseAssumption DEF LeaseTypeOK
  <1>4. CASE ProbeOwner(d)
    <2>1. lock' = lock /\ me' = me /\ starts' = starts
      BY Zenon, <1>4 DEF ProbeOwner
    <2>2. phase' \in [Daemons -> Phases]
      BY Zenon, <1>4 DEF ProbeOwner, LeaseTypeOK, Goto, Phases, Acquiring
    <2>3. seen \in [Daemons -> 0 .. MaxStarts] /\ [seen EXCEPT ![d] = seen[d]] = seen
      BY Zenon DEF LeaseTypeOK
    <2>4. seen' \in {[seen EXCEPT ![d] = 0], [seen EXCEPT ![d] = seen[d]]}
      BY Zenon, <1>4 DEF ProbeOwner
    <2>5. seen' \in [Daemons -> 0 .. MaxStarts]
      BY Zenon, <1>z, <2>3, <2>4
    <2> QED
      BY Zenon, <2>1, <2>2, <2>5 DEF LeaseTypeOK
  <1>5. CASE RemoveStale(d)
    BY Zenon, <1>5, <1>n, <1>z DEF RemoveStale, LeaseTypeOK, Goto, Phases, Acquiring
  <1>6. CASE CreateFile(d)
    <2>1. CASE lock.exists
      BY Zenon, <1>6, <2>1, <1>e DEF CreateFile, LeaseTypeOK
    <2>2. CASE ~lock.exists
      <3>1. me[d] \in 0 .. MaxStarts /\ 0 \in 0 .. MaxStarts
        BY LeaseAssumption DEF LeaseTypeOK
      <3>2. lock' \in [exists : BOOLEAN, creator : 0 .. MaxStarts, owner : 0 .. MaxStarts]
        <4>1. lock' = [exists |-> TRUE, creator |-> me[d], owner |-> 0]
          BY Zenon, <1>6, <2>2 DEF CreateFile
        <4> QED
          BY <3>1, <4>1, Zenon
      <3>3. phase' \in [Daemons -> Phases]
        BY Zenon, <1>6, <2>2 DEF CreateFile, LeaseTypeOK, Goto, Phases, Acquiring
      <3> QED
        BY Zenon, <1>6, <2>2, <3>2, <3>3 DEF CreateFile, LeaseTypeOK
    <2> QED
      BY Zenon, <2>1, <2>2
  <1>7. CASE WriteOwner(d)
    BY Zenon, <1>7 DEF WriteOwner, LeaseTypeOK, Goto, Phases
  <1>8. CASE Release(d)
    BY Zenon, <1>8, <1>e, <1>n DEF Release, LeaseTypeOK
  <1>9. CASE Die(d)
    BY Zenon, <1>9, <1>e DEF Die, LeaseTypeOK
  <1> QED
    BY Zenon, <1>1, <1>2, <1>3, <1>4, <1>5, <1>6, <1>7, <1>8, <1>9 DEF AcquireStep

\* What a daemon's step leaves to the others: their phase, name and reading.
Elsewhere(d) ==
    \A x \in Daemons \ {d} : phase'[x] = phase[x] /\ me'[x] = me[x] /\ seen'[x] = seen[x]

\* A step of the lease is a step of one daemon.
LEMMA LeaseStepIsLocal ==
    ASSUME LeaseTypeOK, NEW d \in Daemons, Start(d) \/ AcquireStep(d) \/ Release(d) \/ Die(d)
    PROVE  Elsewhere(d)
PROOF
  <1>t. phase \in [Daemons -> Phases] /\ me \in [Daemons -> 0 .. MaxStarts]
        /\ seen \in [Daemons -> 0 .. MaxStarts]
    BY Zenon DEF LeaseTypeOK
  <1>e. ASSUME Ends(d)
        PROVE  Elsewhere(d)
    BY Zenon, <1>e, <1>t DEF Ends, Goto, Elsewhere
  <1>1. CASE Start(d)
    BY Zenon, <1>1, <1>t DEF Start, Goto, Elsewhere
  <1>2. CASE LookForFile(d) \/ ProbeOwner(d) \/ RemoveStale(d) \/ WriteOwner(d)
    BY Zenon, <1>2, <1>t DEF LookForFile, ProbeOwner, RemoveStale, WriteOwner, Goto, Elsewhere
  <1>3. CASE ReadOwner(d)
    BY Zenon, <1>3, <1>t, <1>e DEF ReadOwner, Goto, Elsewhere
  <1>4. CASE CreateFile(d)
    BY Zenon, <1>4, <1>t, <1>e DEF CreateFile, Goto, Elsewhere
  <1>5. CASE Release(d) \/ Die(d)
    BY Zenon, <1>5, <1>e DEF Release, Die
  <1> QED
    BY Zenon, <1>1, <1>2, <1>3, <1>4, <1>5 DEF AcquireStep

\* A daemon that ends leaves the lock as it is, or unlinks it as its only holder.
LEMMA EndKeepsLease ==
    ASSUME LeaseInv, NEW d \in Daemons, Ends(d), starts' = starts,
           lock' = lock \/ (lock' = NoLock /\ phase[d] = "held"), Elsewhere(d)
    PROVE  OneAcquires' /\ NamesDiffer' /\ HolderNamed' /\ CreatorWrites' /\ StaleStays'
PROOF
  <1>t. /\ phase \in [Daemons -> Phases] /\ me \in [Daemons -> 0 .. MaxStarts]
        /\ seen \in [Daemons -> 0 .. MaxStarts]
    BY Zenon DEF LeaseInv, LeaseTypeOK
  <1>d. phase'[d] = "off"
    BY Zenon, <1>t DEF Ends, Goto
  <1>l. Live' \subseteq Live
    BY Zenon, <1>d DEF Live, Elsewhere
  <1>1. OneAcquires'
    BY Zenon, <1>d DEF LeaseInv, OneAcquires, Elsewhere, Acquiring
  <1>2. NamesDiffer'
    BY <1>d DEF LeaseInv, NamesDiffer, Elsewhere
  <1>3. HolderNamed'
    <2>1. ASSUME lock' # lock, NEW x \in Daemons, phase'[x] = "held"
          PROVE  FALSE
      BY <1>d, <2>1 DEF LeaseInv, HolderNamed, NamesDiffer, Elsewhere
    <2> QED
      BY Zenon, <1>d, <2>1 DEF LeaseInv, HolderNamed, Elsewhere
  <1>4. CreatorWrites'
    BY <1>d DEF LeaseInv, CreatorWrites, Elsewhere
  <1>5. StaleStays'
    BY <1>d, <1>l DEF LeaseInv, StaleStays, Elsewhere, NoLock
  <1> QED
    BY Zenon, <1>1, <1>2, <1>3, <1>4, <1>5

\* Every step of a lease whose daemons start one at a time keeps LeaseInv.
LEMMA LeaseStep ==
    ASSUME LeaseInv, SerialNext
    PROVE  LeaseInv'
PROOF
  <1>0. LeaseTypeOK'
    BY Zenon, LeaseTypes DEF LeaseInv
  <1>1. PICK d \in Daemons :
            \/ Start(d) /\ NobodyAcquires(d)
            \/ AcquireStep(d) \/ Release(d) \/ Die(d)
    BY Zenon DEF SerialNext
  <1>t. /\ phase \in [Daemons -> Phases] /\ me \in [Daemons -> 0 .. MaxStarts]
        /\ seen \in [Daemons -> 0 .. MaxStarts] /\ starts \in Nat
        /\ lock.owner \in Nat
    BY LockFields, LeaseAssumption DEF LeaseInv, LeaseTypeOK
  <1>e. Elsewhere(d)
    BY Zenon, <1>1, LeaseStepIsLocal DEF LeaseInv
  <1> SUFFICES OneAcquires' /\ NamesDiffer' /\ HolderNamed' /\ CreatorWrites' /\ StaleStays'
    BY Zenon, <1>0 DEF LeaseInv
  <1>2. CASE Start(d) /\ NobodyAcquires(d)
    <2>1. phase[d] = "off" /\ phase'[d] = "exists" /\ me'[d] = starts + 1 /\ starts' = starts + 1
          /\ lock' = lock
      BY Zenon, <1>2, <1>t DEF Start, Goto
    <2>2. \A x \in Daemons \ {d} : phase'[x] \notin Acquiring
      BY Zenon, <1>2, <1>e DEF NobodyAcquires, Elsewhere
    <2>3. OneAcquires' /\ CreatorWrites' /\ StaleStays'
      BY Zenon, <2>1, <2>2 DEF OneAcquires, CreatorWrites, StaleStays, Acquiring
    <2>4. NamesDiffer'
      BY <1>t, <1>e, <2>1 DEF LeaseInv, NamesDiffer, Elsewhere
    <2>5. HolderNamed'
      BY Zenon, <1>e, <2>1 DEF LeaseInv, HolderNamed, Elsewhere
    <2> QED
      BY Zenon, <2>3, <2>4, <2>5
  \* A step of acquire that goes on: nobody else acquires, and the names stay.
  <1>3. ASSUME phase[d] \in Acquiring, phase'[d] \in Acquiring \cup {"held"},
               me' = me, starts' = starts
        PROVE  /\ OneAcquires' /\ NamesDiffer' /\ Live' = Live
               /\ \A x \in Daemons \ {d} : phase[x] \notin Acquiring /\ phase'[x] = phase[x]
    <2>1. \A x \in Daemons \ {d} : phase[x] \notin Acquiring /\ phase'[x] = phase[x]
      BY Zenon, <1>3, <1>e DEF LeaseInv, OneAcquires, Elsewhere
    <2>2. phase[d] # "off" /\ phase'[d] # "off"
      BY Zenon, <1>3 DEF Acquiring
    <2>3. \A x \in Daemons : phase'[x] # "off" <=> phase[x] # "off"
      BY Zenon, <2>1, <2>2
    <2>4. OneAcquires'
      BY Zenon, <2>1 DEF OneAcquires
    <2>5. NamesDiffer'
      BY Zenon, <1>3, <2>3 DEF LeaseInv, NamesDiffer
    <2>6. Live' = Live
      BY Zenon, <1>3, <2>3 DEF Live
    <2> QED
      BY Zenon, <2>1, <2>4, <2>5, <2>6
  <1>4. CASE LookForFile(d)
    <2>1. phase[d] = "exists" /\ phase'[d] \in {"read", "create"} /\ lock' = lock /\ me' = me
          /\ starts' = starts
      BY Zenon, <1>4, <1>t DEF LookForFile, Goto
    <2> QED
      BY <1>3, <2>1 DEF LeaseInv, HolderNamed, CreatorWrites, StaleStays, Acquiring
  <1>5. CASE ReadOwner(d)
    <2>1. CASE lock.exists /\ lock.owner # 0
      <3>1. phase[d] = "read" /\ phase'[d] = "probe" /\ lock' = lock /\ me' = me
            /\ starts' = starts /\ seen'[d] = lock.owner
        BY Zenon, <1>5, <1>t, <2>1 DEF ReadOwner, Goto
      <3> QED
        BY <1>3, <3>1 DEF LeaseInv, HolderNamed, CreatorWrites, StaleStays, Acquiring
    <2>2. CASE ~(lock.exists /\ lock.owner # 0)
      BY Zenon, <1>5, <1>e, <2>2, EndKeepsLease DEF ReadOwner
    <2> QED
      BY Zenon, <2>1, <2>2
  <1>6. CASE ProbeOwner(d)
    <2>1. phase[d] = "probe" /\ phase'[d] \in {"create", "unlink"} /\ lock' = lock /\ me' = me
          /\ starts' = starts
      BY Zenon, <1>6, <1>t DEF ProbeOwner, Goto
    <2>2. phase'[d] = "unlink" => seen[d] \notin Live /\ seen'[d] = seen[d]
      BY Zenon, <1>6, <1>t DEF ProbeOwner, Goto, Verdicts
    <2>3. StaleStays'
      BY Zenon, <1>3, <2>1, <2>2 DEF LeaseInv, StaleStays, Acquiring
    <2> QED
      BY Zenon, <1>3, <2>1, <2>3 DEF LeaseInv, HolderNamed, CreatorWrites, Acquiring
  <1>7. CASE RemoveStale(d)
    <2>1. phase[d] = "unlink" /\ phase'[d] = "create" /\ me' = me /\ starts' = starts
          /\ ~lock'.exists
      BY Zenon, <1>7, <1>t DEF RemoveStale, Goto, NoLock
    <2>2. ASSUME NEW x \in Daemons, phase[x] = "held"
          PROVE  FALSE
      <3>1. lock.exists /\ lock.owner = me[x] /\ me[x] \in Live
        BY Zenon, <2>2 DEF LeaseInv, HolderNamed, Live
      <3> QED
        BY Zenon, <2>1, <3>1 DEF LeaseInv, StaleStays
    <2> QED
      BY Zenon, <1>3, <2>1, <2>2 DEF HolderNamed, CreatorWrites, StaleStays, Acquiring
  <1>8. CASE CreateFile(d)
    <2>1. CASE lock.exists
      BY Zenon, <1>8, <1>e, <2>1, EndKeepsLease DEF CreateFile
    <2>2. CASE ~lock.exists
      <3>1. phase[d] = "create" /\ phase'[d] = "write" /\ me' = me /\ starts' = starts
            /\ lock'.exists /\ lock'.creator = me[d]
        BY <1>8, <1>t, <2>2 DEF CreateFile, Goto
      <3>2. \A x \in Daemons : phase[x] # "held"
        BY Zenon, <2>2 DEF LeaseInv, HolderNamed
      <3> QED
        BY Zenon, <1>3, <3>1, <3>2 DEF HolderNamed, CreatorWrites, StaleStays, Acquiring
    <2> QED
      BY Zenon, <2>1, <2>2
  <1>9. CASE WriteOwner(d)
    <2>1. phase[d] = "write" /\ phase'[d] = "held" /\ me' = me /\ starts' = starts
      BY Zenon, <1>9, <1>t DEF WriteOwner, Goto
    <2>2. lock.exists /\ lock.creator = me[d] /\ \A x \in Daemons : phase[x] # "held"
      BY Zenon, <2>1 DEF LeaseInv, CreatorWrites
    <2>3. lock' = [lock EXCEPT !.owner = me[d]]
      BY Zenon, <1>9, <2>2 DEF WriteOwner
    <2>4. lock'.exists /\ lock'.owner = me[d]
      BY Zenon, <2>2, <2>3 DEF LeaseInv, LeaseTypeOK
    <2> QED
      BY Zenon, <1>3, <2>1, <2>2, <2>4 DEF HolderNamed, CreatorWrites, StaleStays, Acquiring
  <1>10. CASE Release(d) \/ Die(d)
    BY Zenon, <1>10, <1>e, EndKeepsLease DEF Release, Die
  <1> QED
    BY Zenon, <1>1, <1>2, <1>4, <1>5, <1>6, <1>7, <1>8, <1>9, <1>10 DEF AcquireStep

\* Two daemons never hold the lease at once when they are started one at a time:
\* SingleInstance of SingleInstanceLease, for any daemons, starts and markers.
THEOREM LeaseExcludes == SerialSpec => []SingleInstance
PROOF
  <1>1. LeaseInit => LeaseInv
    BY LeaseAssumption DEF LeaseInit, LeaseInv, LeaseTypeOK, NoLock, Phases, Acquiring, OneAcquires,
       NamesDiffer, HolderNamed, CreatorWrites, StaleStays
  <1>2. LeaseInv /\ UNCHANGED leaseVars => LeaseInv'
    BY DEF leaseVars, LeaseInv, LeaseTypeOK, OneAcquires, NamesDiffer, HolderNamed, CreatorWrites,
       StaleStays, Live
  <1>3. LeaseInv => SingleInstance
    BY Zenon DEF LeaseInv, HolderNamed, NamesDiffer, SingleInstance
  <1> QED
    BY <1>1, <1>2, <1>3, LeaseStep, PTL DEF SerialSpec

\* A step of the virtual market daemon is a step of the lease or leaves it alone.
LEMMA DaemonStepOfLease ==
    ASSUME Next
    PROVE  SerialNext \/ UNCHANGED leaseVars
PROOF
  <1>1. CASE MarketMoves
    BY Zenon, <1>1 DEF MarketMoves
  <1>2. ASSUME NEW d \in Daemons,
               StartDaemon(d) \/ Acquire(d) \/ Stop(d) \/ Crash(d)
        PROVE  SerialNext
    BY Zenon, <1>2 DEF StartDaemon, Acquire, Stop, Crash, SerialNext
  <1>3. ASSUME NEW d \in Daemons,
               Scan(d) \/ RunCycle(d) \/ Skip(d) \/ NoSymbol(d)
        PROVE  UNCHANGED leaseVars
    BY Zenon, <1>3 DEF Scan, ScanSymbol, RunCycle, Skip, NoSnapshot, NoSymbol
  <1> QED
    BY Zenon, <1>1, <1>2, <1>3 DEF Next, DaemonStep

\* The virtual market daemon implements the serial lease, so one daemon at most
\* runs cycles on the wallet: run_virtual_market_daemon, for all constants.
THEOREM DaemonsExclude == Spec => []SingleInstance
PROOF
  <1>1. Init => LeaseInit
    BY Zenon DEF Init
  <1>2. [Next]_daemonVars => [SerialNext]_leaseVars
    BY Zenon, DaemonStepOfLease DEF daemonVars
  <1>3. Spec => SerialSpec
    BY <1>1, <1>2, PTL DEF Spec, SerialSpec
  <1> QED
    BY <1>3, LeaseExcludes, PTL

-----------------------------------------------------------------------------
(* Bounds of sets of lines and candles. *)

\* A set of naturals that is not empty has a least element.
LEMMA Least ==
  ASSUME NEW S, S \subseteq Nat, S # {}
  PROVE  \E x \in S : \A y \in S : x <= y
PROOF
  <1> DEFINE R == {ss \in Nat \X Nat : ss[1] < ss[2]}
  <1>1. IsWellFoundedOn(R, Nat)
    BY Zenon, NatLessThanWellFounded DEF OpToRel
  <1>2. \A x, y \in Nat : x < y => <<x, y>> \in R
    BY Zenon
  <1> HIDE DEF R
  <1>3. \E x \in S : \A y \in S : ~ (<<y, x>> \in R)
    BY Zenon, <1>1, WFMin
  <1>4. PICK x \in S : \A y \in S : ~ (<<y, x>> \in R)
    BY Zenon, <1>3
  <1>5. \A y \in S : ~ (y < x)
    BY Zenon, <1>2, <1>4
  <1>6. \A y \in S : x <= y
    BY <1>5
  <1> QED BY Zenon, <1>6

\* A bounded set of naturals that is not empty has a greatest element.
LEMMA Greatest ==
  ASSUME NEW S, S \subseteq Nat, S # {}, NEW b \in Nat, \A x \in S : x <= b
  PROVE  \E x \in S : \A y \in S : y <= x
PROOF
  <1> DEFINE D == {b - x : x \in S}
  <1>1. D \subseteq Nat /\ D # {}
    <2>1. PICK x \in S : TRUE
      BY Zenon
    <2>2. b - x \in D
      BY Zenon
    <2>3. D \subseteq Nat
      OBVIOUS
    <2> QED BY Zenon, <2>2, <2>3
  <1> HIDE DEF D
  <1>2. PICK d \in D : \A e \in D : d <= e
    BY Zenon, <1>1, Least
  <1>3. PICK x \in S : d = b - x
    BY Zenon, <1>2 DEF D
  <1>4. ASSUME NEW y \in S PROVE y <= x
    <2>1. b - y \in D
      BY Zenon DEF D
    <2>2. d <= b - y
      BY Zenon, <1>2, <2>1
    <2> QED BY <2>2, <1>3
  <1> QED BY Zenon, <1>4

\* What Min and Max choose.
LEMMA MinOf ==
  ASSUME NEW S, S \subseteq Nat, S # {}
  PROVE  /\ Min(S) \in S /\ Min(S) \in Nat
         /\ \A y \in S : Min(S) <= y
PROOF
  <1>1. \E x \in S : \A y \in S : x <= y
    BY Zenon, Least
  <1>2. Min(S) \in S /\ \A y \in S : Min(S) <= y
    BY Zenon, <1>1 DEF Min
  <1> QED BY Zenon, <1>2

LEMMA MaxOf ==
  ASSUME NEW S, S \subseteq Nat, S # {}, NEW b \in Nat, \A x \in S : x <= b
  PROVE  /\ Max(S) \in S /\ Max(S) \in Nat
         /\ \A y \in S : y <= Max(S)
PROOF
  <1>1. \E x \in S : \A y \in S : y <= x
    BY Zenon, Greatest
  <1>2. \E x \in S : \A y \in S : x >= y
    BY Zenon, <1>1
  <1>3. Max(S) \in S /\ \A y \in S : Max(S) >= y
    BY Zenon, <1>2 DEF Max
  <1> QED BY Zenon, <1>3

\* The greater and the smaller of two numbers.
LEMMA MaxPair ==
  ASSUME NEW a \in Int, NEW b \in Int
  PROVE  Max({a, b}) = IF a <= b THEN b ELSE a
PROOF
  <1>1. \E x \in {a, b} : \A y \in {a, b} : x >= y
    OBVIOUS
  <1>2. Max({a, b}) \in {a, b} /\ \A y \in {a, b} : Max({a, b}) >= y
    BY Zenon, <1>1 DEF Max
  <1> QED BY <1>2

LEMMA MinPair ==
  ASSUME NEW a \in Int, NEW b \in Int
  PROVE  Min({a, b}) = IF a <= b THEN a ELSE b
PROOF
  <1>1. \E x \in {a, b} : \A y \in {a, b} : x <= y
    OBVIOUS
  <1>2. Min({a, b}) \in {a, b} /\ \A y \in {a, b} : Min({a, b}) <= y
    BY Zenon, <1>1 DEF Min
  <1> QED BY <1>2

-----------------------------------------------------------------------------
(* The lines of a wallet. *)

\* The last line of a wallet is one of its lines, and no line follows it.
LEMMA LastLine ==
  ASSUME NEW l \in Seq(Movements), NEW m, Lines(l, m) # {}
  PROVE  /\ Max(Lines(l, m)) \in Lines(l, m)
         /\ Max(Lines(l, m)) \in DOMAIN l
         /\ \A k \in Lines(l, m) : k <= Max(Lines(l, m))
PROOF
  <1>1. Lines(l, m) \subseteq Nat /\ Len(l) \in Nat /\ \A k \in Lines(l, m) : k <= Len(l)
    BY DEF Lines
  <1>2. Max(Lines(l, m)) \in Lines(l, m) /\ \A k \in Lines(l, m) : k <= Max(Lines(l, m))
    BY Zenon, <1>1, MaxOf
  <1> QED BY Zenon, <1>2 DEF Lines

LEMMA LastEarlier ==
  ASSUME NEW l \in Seq(Movements), NEW i \in DOMAIN l, Earlier(l, i) # {}
  PROVE  /\ Max(Earlier(l, i)) \in Earlier(l, i)
         /\ Max(Earlier(l, i)) \in DOMAIN l
PROOF
  <1>1. Earlier(l, i) \subseteq Nat /\ Len(l) \in Nat /\ \A k \in Earlier(l, i) : k <= Len(l)
    BY DEF Lines, Earlier
  <1>2. Max(Earlier(l, i)) \in Earlier(l, i)
    BY Zenon, <1>1, MaxOf
  <1> QED BY Zenon, <1>2 DEF Lines, Earlier

\* A line that is appended: the lines before it stay where they are.
Extended(l, r, l2) ==
    /\ l2 \in Seq(Movements) /\ Len(l2) = Len(l) + 1
    /\ DOMAIN l2 = DOMAIN l \cup {Len(l) + 1} /\ Len(l) + 1 \notin DOMAIN l
    /\ l2[Len(l) + 1] = r /\ \A i \in DOMAIN l : l2[i] = l[i] /\ i < Len(l) + 1

LEMMA Appended ==
  ASSUME NEW l \in Seq(Movements), NEW r \in Movements
  PROVE  Extended(l, r, Append(l, r))
PROOF
  BY DEF Extended

LEMMA AppendedLines ==
  ASSUME NEW l \in Seq(Movements), NEW r \in Movements, NEW m, NEW l2, Extended(l, r, l2)
  PROVE  /\ r.market = m => Lines(l2, m) = Lines(l, m) \cup {Len(l) + 1}
         /\ r.market # m => Lines(l2, m) = Lines(l, m)
PROOF
  <1>1. /\ DOMAIN l2 = DOMAIN l \cup {Len(l) + 1} /\ Len(l) + 1 \notin DOMAIN l
        /\ l2[Len(l) + 1] = r /\ \A i \in DOMAIN l : l2[i] = l[i]
    BY Zenon DEF Extended
  <1> QED BY <1>1, Zenon DEF Lines

LEMMA AppendedEarlier ==
  ASSUME NEW l \in Seq(Movements), NEW r \in Movements, NEW l2, Extended(l, r, l2)
  PROVE  /\ \A i \in DOMAIN l : Earlier(l2, i) = Earlier(l, i)
         /\ Earlier(l2, Len(l) + 1) = Lines(l, r.market)
PROOF
  <1>1. ASSUME NEW i \in DOMAIN l PROVE Earlier(l2, i) = Earlier(l, i)
    <2>1. l2[i] = l[i] /\ i \in 1 .. Len(l) /\ ~(Len(l) + 1 < i)
      BY DEF Extended
    <2>a. /\ r.market = l[i].market =>
                Lines(l2, l[i].market) = Lines(l, l[i].market) \cup {Len(l) + 1}
          /\ r.market # l[i].market => Lines(l2, l[i].market) = Lines(l, l[i].market)
      BY AppendedLines
    <2>2. Lines(l2, l[i].market) \subseteq Lines(l, l[i].market) \cup {Len(l) + 1}
          /\ Lines(l, l[i].market) \subseteq Lines(l2, l[i].market)
      BY Zenon, <2>a
    <2> QED BY Zenon, <2>1, <2>2 DEF Earlier
  <1>2. Earlier(l2, Len(l) + 1) = Lines(l, r.market)
    <2>1. l2[Len(l) + 1] = r
      BY Zenon DEF Extended
    <2>2. Lines(l2, r.market) = Lines(l, r.market) \cup {Len(l) + 1}
      BY AppendedLines
    <2>3. \A k \in Lines(l, r.market) : k < Len(l) + 1
      BY DEF Lines
    <2>4. ~(Len(l) + 1 < Len(l) + 1)
      OBVIOUS
    <2> QED BY Zenon, <2>1, <2>2, <2>3, <2>4 DEF Earlier
  <1> QED BY Zenon, <1>1, <1>2

\* The last line of the Spot wallet after an append.
LEMMA AppendedSpot ==
  ASSUME NEW l \in Seq(Movements), NEW r \in Movements, NEW l2, Extended(l, r, l2)
  PROVE  /\ r.market = "SPOT" => SpotRow(l2) = r
         /\ r.market # "SPOT" /\ Lines(l, "SPOT") # {} => SpotRow(l2) = SpotRow(l)
PROOF
  <1>0. /\ r.market = "SPOT" => Lines(l2, "SPOT") = Lines(l, "SPOT") \cup {Len(l) + 1}
        /\ r.market # "SPOT" => Lines(l2, "SPOT") = Lines(l, "SPOT")
    BY AppendedLines
  <1>1. CASE r.market = "SPOT"
    <2>1. Lines(l2, "SPOT") = Lines(l, "SPOT") \cup {Len(l) + 1} /\ l2 \in Seq(Movements)
      BY Zenon, <1>0, <1>1 DEF Extended
    <2>2. Max(Lines(l2, "SPOT")) \in Lines(l2, "SPOT")
          /\ \A k \in Lines(l2, "SPOT") : k <= Max(Lines(l2, "SPOT"))
      BY Zenon, <2>1, LastLine
    <2>3. \A k \in Lines(l, "SPOT") : k \in Nat /\ k < Len(l) + 1
      BY DEF Lines
    <2>4. Max(Lines(l2, "SPOT")) = Len(l) + 1
      <3> DEFINE m == Max(Lines(l2, "SPOT"))
      <3>1. m \in Lines(l, "SPOT") \cup {Len(l) + 1} /\ Len(l) + 1 <= m
        BY Zenon, <2>1, <2>2
      <3> HIDE DEF m
      <3>2. Len(l) \in Nat /\ (m \in Lines(l, "SPOT") => m \in Nat /\ m < Len(l) + 1)
        BY <2>3
      <3> QED BY <3>1, <3>2 DEF m
    <2> QED BY Zenon, <1>1, <2>4 DEF SpotRow, Extended
  <1>2. CASE r.market # "SPOT" /\ Lines(l, "SPOT") # {}
    <2>1. Lines(l2, "SPOT") = Lines(l, "SPOT")
      BY Zenon, <1>0, <1>2
    <2>2. Max(Lines(l, "SPOT")) \in DOMAIN l
      BY Zenon, <1>2, LastLine
    <2>3. l2[Max(Lines(l, "SPOT"))] = l[Max(Lines(l, "SPOT"))]
      BY Zenon, <2>2 DEF Extended
    <2> QED BY Zenon, <1>2, <2>1, <2>3 DEF SpotRow
  <1> QED BY Zenon, <1>1, <1>2


-----------------------------------------------------------------------------
(* Prices and money. *)

\* Products of naturals.
LEMMA NatProduct ==
  ASSUME NEW a \in Nat, NEW b \in Nat
  PROVE  a * b \in Nat
PROOF
  OBVIOUS

LEMMA MoneyNat ==
  ASSUME NEW a \in Nat
  PROVE  Money(a) \in Nat
PROOF
  <1>1. Den \in Nat
    BY Zenon, RatioAssumption
  <1>2. a * Den \in Nat
    BY Zenon, <1>1, NatProduct
  <1>3. a * Den * Den \in Nat
    BY Zenon, <1>1, <1>2, NatProduct
  <1> QED BY Zenon, <1>3 DEF Money

\* A purchase is made at a price that is not negative.
LEMMA PriceNat ==
  ASSUME NEW plan, plan.price \in Nat
  PROVE  ExecutionPrice(plan) \in Nat
PROOF
  <1>1. Den \in Nat \ {0} /\ Slip \in Nat /\ Den + Slip \in Nat
    BY RatioAssumption
  <1>2. plan.price * (Den + Slip) \in Nat
    BY Zenon, <1>1, NatProduct
  <1>3. -plan.price * (Den + Slip) = -(plan.price * (Den + Slip))
    BY Zenon, <1>1
  <1> DEFINE y == -plan.price * (Den + Slip)
  <1>4. y \in Int /\ y <= 0
    BY <1>2, <1>3
  <1>5. ExecutionPrice(plan) = -(y \div Den)
    BY Zenon DEF ExecutionPrice
  <1> HIDE DEF y
  <1>6. y \div Den \in Int /\ y \div Den <= 0
    BY <1>1, <1>4
  <1> QED BY <1>5, <1>6

\* What a purchase costs, and what of it is the fee.
LEMMA FillNat ==
  ASSUME NEW plan, plan.price \in Nat, plan.quantity \in Nat
  PROVE  /\ ExecutionPrice(plan) \in Nat /\ ExecutionPrice(plan) * plan.quantity \in Nat
         /\ Money(ExecutionPrice(plan) * plan.quantity) \in Nat
         /\ FillFee(plan) \in Nat
         /\ FillCost(plan) = Money(ExecutionPrice(plan) * plan.quantity) + FillFee(plan)
         /\ FillCost(plan) \in Nat
PROOF
  <1>1. Den \in Nat /\ Fee \in Nat /\ ExecutionPrice(plan) \in Nat
    BY RatioAssumption, PriceNat
  <1>2. ExecutionPrice(plan) * plan.quantity \in Nat
    BY Zenon, <1>1, NatProduct
  <1>3. ExecutionPrice(plan) * plan.quantity * Fee \in Nat
    BY Zenon, <1>1, <1>2, NatProduct
  <1>4. FillFee(plan) \in Nat
    BY Zenon, <1>1, <1>3, NatProduct DEF FillFee
  <1>5. Money(ExecutionPrice(plan) * plan.quantity) \in Nat
    BY Zenon, <1>2, MoneyNat
  <1>6. FillCost(plan) = Money(ExecutionPrice(plan) * plan.quantity) + FillFee(plan)
    BY Zenon DEF FillCost
  <1> QED BY <1>1, <1>2, <1>4, <1>5, <1>6

\* The result of a sale is what it brings in, less its fee, the cost of what is
\* sold and the fee that was paid on the purchase.
LEMMA SaleIdentity ==
  ASSUME NEW x \in Int, NEW e \in Int, NEW q \in Int, NEW D \in Int
  PROVE  (x - e * D) * q * D = x * q * D - e * q * D * D
PROOF
  OBVIOUS

LEMMA SaleResult ==
  ASSUME NEW pos, NEW x \in Nat, pos.entry \in Nat, NEW q \in Nat
  PROVE  /\ x * q * Den \in Nat /\ ExitFee(x, q) \in Nat /\ ExitFee(x, q) <= x * q * Den
         /\ Money(pos.entry * q) \in Nat /\ pos.entry * q * Fee * Den \in Nat
         /\ NetResult(pos, x, q)
              = x * q * Den - ExitFee(x, q) - Money(pos.entry * q) - pos.entry * q * Fee * Den
PROOF
  <1>1. Den \in Nat /\ Fee \in Nat /\ Den - Fee \in Nat
    BY RatioAssumption
  <1>2. x * q \in Nat /\ pos.entry * q \in Nat
    BY Zenon, NatProduct
  <1>3. x * q * Den \in Nat /\ x * q * Fee \in Nat /\ pos.entry * q * Fee \in Nat
    BY Zenon, <1>1, <1>2, NatProduct
  <1>4. pos.entry * q * Fee * Den \in Nat
    BY Zenon, <1>1, <1>3, NatProduct
  <1>5. Money(pos.entry * q) \in Nat
    BY Zenon, <1>2, MoneyNat
  <1>6. x * q * Fee <= x * q * Den
    <2>1. (x * q) * (Den - Fee) \in Nat
      BY Zenon, <1>1, <1>2, NatProduct
    <2> DEFINE z == x * q
    <2>2. z \in Nat
      BY Zenon, <1>2
    <2>3. z * (Den - Fee) \in Nat
      BY Zenon, <2>1
    <2> HIDE DEF z
    <2>4. z * (Den - Fee) = z * Den - z * Fee
      BY <1>1, <2>2
    <2>5. z * Den \in Nat /\ z * Fee \in Nat
      BY Zenon, <1>1, <2>2, NatProduct
    <2>6. z * Fee <= z * Den
      BY <2>3, <2>4, <2>5
    <2> QED BY Zenon, <2>6 DEF z
  <1>7. (x - pos.entry * Den) * q * Den = x * q * Den - pos.entry * q * Den * Den
    <2>1. x \in Int /\ pos.entry \in Int /\ q \in Int /\ Den \in Int
      BY <1>1
    <2> QED BY <2>1, SaleIdentity
  <1>8. Money(pos.entry * q) = pos.entry * q * Den * Den
    BY Zenon DEF Money
  <1>9. NetResult(pos, x, q)
          = (x - pos.entry * Den) * q * Den - ExitFee(x, q) - pos.entry * q * Fee * Den
    BY Zenon DEF NetResult
  <1>10. ExitFee(x, q) = x * q * Fee
    BY Zenon DEF ExitFee
  <1>11. NetResult(pos, x, q)
          = (x * q * Den - Money(pos.entry * q)) - ExitFee(x, q) - pos.entry * q * Fee * Den
    BY <1>7, <1>8, <1>9, Zenon
  <1>12. (x * q * Den - Money(pos.entry * q)) - ExitFee(x, q) - pos.entry * q * Fee * Den
           = x * q * Den - ExitFee(x, q) - Money(pos.entry * q) - pos.entry * q * Fee * Den
    BY <1>3, <1>4, <1>5, <1>10
  <1> QED BY Zenon, <1>3, <1>4, <1>5, <1>6, <1>10, <1>11, <1>12


-----------------------------------------------------------------------------
(* What the operations of a position do to the wallet. *)

\* The wallet starts with its cash and without a position.
LEMMA InitialTrue ==
  InitialPortfolio \in Portfolios /\ FolioTrue(InitialPortfolio, NoPosition)
PROOF
  <1> DEFINE m == Money(InitialCash)
  <1>1. m \in Nat
    BY Zenon, RatioAssumption, MoneyNat
  <1>2. InitialPortfolio = [cash |-> m, equity |-> m, inventory |-> 0, basis |-> 0,
                            realized |-> 0, unrealized |-> 0, losses |-> 0, count |-> 0]
    BY Zenon DEF InitialPortfolio
  <1> HIDE DEF m
  <1>3. InitialPortfolio \in Portfolios
    BY <1>1, <1>2 DEF Portfolios
  <1>4. /\ InitialPortfolio.inventory = 0 /\ InitialPortfolio.basis = 0
        /\ InitialPortfolio.cash = m /\ InitialPortfolio.equity = m
        /\ InitialPortfolio.realized = 0 /\ InitialPortfolio.unrealized = 0
        /\ NoPosition.left = 0
    BY Zenon, <1>2 DEF NoPosition
  <1>5. FolioTrue(InitialPortfolio, NoPosition)
    BY <1>1, <1>4 DEF FolioTrue, m
  <1> QED BY Zenon, <1>3, <1>5

\* The fields of a portfolio.
LEMMA FolioFields ==
  ASSUME NEW f \in Portfolios
  PROVE  /\ f.cash \in Int /\ f.equity \in Int /\ f.inventory \in Nat /\ f.basis \in Nat
         /\ f.realized \in Int /\ f.unrealized \in Int /\ f.losses \in Nat /\ f.count \in 0 .. 1
PROOF
  BY Zenon DEF Portfolios

\* A purchase that nothing blocks, by a wallet without a position.
LEMMA FillTrue ==
  ASSUME NEW f \in Portfolios, NEW symbol \in DOMAIN Plans, NEW plan \in Plans[symbol],
         NEW at \in Nat, ~Blocked(f, plan), NEW pos, pos.left = 0, FolioTrue(f, pos)
  PROVE  /\ AfterFill(f, plan) \in Portfolios /\ Opened(plan, symbol, at) \in Positions
         /\ FolioTrue(AfterFill(f, plan), Opened(plan, symbol, at))
         /\ Opened(plan, symbol, at) # NoPosition
PROOF
  <1>1. /\ plan.price \in Nat /\ plan.stop \in Nat /\ plan.target \in Nat
        /\ plan.quantity \in Nat
    BY Zenon, WalletAssumption
  <1>f. /\ f.cash \in Int /\ f.equity \in Int /\ f.inventory \in Nat /\ f.basis \in Nat
        /\ f.realized \in Int /\ f.unrealized \in Int /\ f.losses \in Nat /\ f.count \in 0 .. 1
    BY Zenon, FolioFields
  <1> DEFINE e == ExecutionPrice(plan)
             q == plan.quantity
             m == Money(e * q)
             fee == FillFee(plan)
             g == AfterFill(f, plan)
             pn == Opened(plan, symbol, at)
  <1>2. e \in Nat /\ e * q \in Nat /\ m \in Nat /\ fee \in Nat /\ FillCost(plan) = m + fee
    BY Zenon, <1>1, FillNat
  <1>3. f.inventory = 0 /\ f.basis = 0 /\ f.cash + 0 + 0 = Money(InitialCash) + f.realized
        /\ f.equity = f.cash + f.basis + f.unrealized
    BY DEF FolioTrue
  <1>4. /\ f.count = 0 /\ ~(f.cash < m + fee) /\ (MaxLosses > 0 => ~(f.losses >= MaxLosses))
        /\ MaxLosses \in Nat
    BY <1>2, <1>f, WalletAssumption DEF Blocked
  <1>5. Money(f.inventory * e) = 0
    <2>1. 0 * e = 0 /\ Den \in Nat
      BY <1>2, RatioAssumption
    <2>2. 0 * Den * Den = 0
      BY <2>1
    <2> QED BY Zenon, <1>3, <2>1, <2>2 DEF Money
  <1>6. /\ DOMAIN g = DOMAIN f
        /\ g = [f EXCEPT !.cash = f.cash - (m + fee), !.equity = f.cash - fee + 0,
                         !.inventory = f.inventory + q, !.basis = f.basis + m,
                         !.unrealized = 0 - f.basis, !.count = f.count + 1]
    BY Zenon, <1>2, <1>5 DEF AfterFill
  <1>p. pn = [symbol |-> symbol, opened |-> at, entry |-> e, initial |-> q, left |-> q,
              stop |-> plan.stop, trail |-> plan.stop, target |-> plan.target,
              pnl |-> 0, bars |-> 0]
    BY Zenon DEF Opened
  <1>x. fee = e * q * Fee * Den /\ m = Money(e * q)
    BY Zenon DEF FillFee
  <1> HIDE DEF e, q, m, fee, g, pn
  <1>7. /\ g.cash = f.cash - (m + fee) /\ g.equity = f.cash - fee /\ g.inventory = q
        /\ g.basis = m /\ g.unrealized = 0 /\ g.count = 1
        /\ g.realized = f.realized /\ g.losses = f.losses
    BY <1>1, <1>2, <1>3, <1>4, <1>6, <1>f DEF Portfolios, q
  <1>8. g \in Portfolios
    <2>1. /\ f.cash - (m + fee) \in Int /\ f.cash - fee + 0 \in Int /\ f.inventory + q \in Nat
          /\ f.basis + m \in Nat /\ 0 - f.basis \in Int /\ f.count + 1 \in 0 .. 1
      BY <1>1, <1>2, <1>3, <1>4, <1>f DEF q
    <2> QED BY Zenon, <1>6, <2>1 DEF Portfolios
  <1>9. pn \in Positions
    <2>1. /\ e \in Nat /\ q \in Nat /\ plan.stop \in Nat /\ plan.stop \in Int
          /\ plan.target \in Nat /\ 0 \in Nat /\ 0 \in Int
      BY <1>1, <1>2 DEF q
    <2> QED BY Zenon, <1>p, <2>1 DEF Positions
  <1>10. pn.left = q /\ pn.entry = e
    BY Zenon, <1>p
  <1>11. FolioTrue(g, pn)
    <2>1. q \in Nat /\ (q = 0 => m = 0 /\ fee = 0)
      <3>1. ASSUME q = 0 PROVE e * q = 0
        BY <1>2, <3>1
      <3>2. Den \in Nat /\ Fee \in Nat /\ 0 * Den * Den = 0 /\ 0 * Fee * Den = 0
        BY RatioAssumption
      <3> QED BY Zenon, <1>1, <1>x, <3>1, <3>2 DEF Money, q
    <2>2. g.inventory = pn.left
      BY Zenon, <1>7, <1>10
    <2>3. g.basis = IF pn.left > 0 THEN Money(pn.entry * pn.left) ELSE 0
      BY <1>7, <1>10, <1>x, <2>1
    <2>4. (IF pn.left > 0 THEN pn.entry * pn.left * Fee * Den ELSE 0) = fee
      BY <1>10, <1>x, <2>1
    <2>5. g.cash + g.basis + fee = Money(InitialCash) + g.realized
      <3>1. f.cash = Money(InitialCash) + f.realized
        BY <1>3, <1>f
      <3>2. g.cash + g.basis + fee = f.cash
        BY <1>2, <1>7, <1>f
      <3> QED BY Zenon, <1>7, <3>1, <3>2
    <2>6. g.equity = g.cash + g.basis + g.unrealized /\ g.cash >= 0
      BY <1>2, <1>4, <1>7, <1>f
    <2>7. pn.left > 0 /\ MaxLosses > 0 => g.losses < MaxLosses
      BY <1>4, <1>7, <1>f
    <2> QED BY Zenon, <2>2, <2>3, <2>4, <2>5, <2>6, <2>7 DEF FolioTrue
  <1>12. pn # NoPosition
    <2>1. DOMAIN pn # DOMAIN NoPosition
      <3>1. "symbol" \in DOMAIN pn /\ "symbol" \notin DOMAIN NoPosition
        BY Zenon, <1>p DEF NoPosition
      <3> QED BY Zenon, <3>1
    <2> QED BY Zenon, <2>1
  <1> QED BY Zenon, <1>8, <1>9, <1>11, <1>12 DEF g, pn


\* The fields of a position.
LEMMA PositionFields ==
  ASSUME NEW pos \in Positions
  PROVE  /\ pos.opened \in Nat /\ pos.entry \in Nat /\ pos.left \in Nat /\ pos.stop \in Nat
         /\ pos.trail \in Int /\ pos.target \in Nat /\ pos.pnl \in Int /\ pos.bars \in Nat
         /\ pos.symbol \in DOMAIN Plans
PROOF
  BY Zenon DEF Positions

CandleType == [open : Nat, high : Nat, low : Nat, close : Nat]

\* A position is sold at a price that is not negative, and its stop trails.
LEMMA ExitPriceNat ==
  ASSUME NEW pos \in Positions, NEW c \in CandleType
  PROVE  ExitPrice(pos, c) \in Nat /\ Trailed(pos, c.close) \in Int
PROOF
  <1>1. /\ pos.entry \in Nat /\ pos.stop \in Nat /\ pos.trail \in Int /\ pos.target \in Nat
    BY Zenon, PositionFields
  <1>2. c.open \in Nat /\ c.high \in Nat /\ c.low \in Nat /\ c.close \in Nat
    BY Zenon DEF CandleType
  <1>3. StopLevel(pos) = IF pos.stop <= pos.trail THEN pos.trail ELSE pos.stop
    BY <1>1, MaxPair DEF StopLevel
  <1>4. StopLevel(pos) \in Nat
    BY <1>1, <1>3
  <1>5. Min({c.open, StopLevel(pos)}) = IF c.open <= StopLevel(pos) THEN c.open ELSE StopLevel(pos)
    BY <1>2, <1>4, MinPair
  <1>6. ExitTicks(pos, c) \in Nat
    BY Zenon, <1>1, <1>2, <1>4, <1>5 DEF ExitTicks
  <1>7. Den - Slip \in Nat
    BY RatioAssumption
  <1>8. ExitPrice(pos, c) \in Nat
    BY Zenon, <1>6, <1>7, NatProduct DEF ExitPrice
  <1> DEFINE y == (2 * c.close - 3 * (pos.entry - pos.stop)) \div 2
  <1>9. y \in Int
    BY <1>1, <1>2
  <1>10. Trailed(pos, c.close) = Max({pos.trail, y})
    BY Zenon DEF Trailed
  <1> HIDE DEF y
  <1>11. Max({pos.trail, y}) \in {pos.trail, y}
    BY Zenon, <1>1, <1>9, MaxPair
  <1> QED BY Zenon, <1>1, <1>8, <1>9, <1>10, <1>11

\* A closed candle applied to a position, and to the wallet that holds it.
LEMMA UpdateTrue ==
  ASSUME NEW f \in Portfolios, NEW pos \in Positions, NEW c \in CandleType, pos.left > 0,
         FolioTrue(f, pos)
  PROVE  /\ AfterUpdate(f, pos, c) \in Portfolios /\ AfterCandle(pos, c) \in Positions
         /\ FolioTrue(AfterUpdate(f, pos, c), AfterCandle(pos, c))
PROOF
  <1>f. /\ f.cash \in Int /\ f.equity \in Int /\ f.inventory \in Nat /\ f.basis \in Nat
        /\ f.realized \in Int /\ f.unrealized \in Int /\ f.losses \in Nat /\ f.count \in 0 .. 1
    BY Zenon, FolioFields
  <1>p. /\ pos.entry \in Nat /\ pos.left \in Nat /\ pos.trail \in Int /\ pos.pnl \in Int
        /\ pos.bars \in Nat
    BY Zenon, PositionFields
  <1>c. c.close \in Nat
    BY Zenon DEF CandleType
  <1>m. MaxLosses \in Nat /\ Den \in Nat /\ Fee \in Nat /\ InitialCash \in Nat
    BY WalletAssumption, RatioAssumption
  <1> DEFINE x == ExitPrice(pos, c)
             q == pos.left
             sold == IF Exits(pos, c) THEN pos.left ELSE 0
             cash == f.cash + x * sold * Den - ExitFee(x, sold)
             held == f.inventory - sold
             basis == IF held = 0 THEN 0 ELSE f.basis - Money(pos.entry * sold)
             net == NetResult(pos, x, sold)
             worth == Money(held * c.close)
             losses == IF ~Exits(pos, c) THEN f.losses
                       ELSE IF AfterCandle(pos, c).pnl < 0 THEN f.losses + 1 ELSE 0
             count == IF Exits(pos, c) THEN 0 ELSE f.count
             g == AfterUpdate(f, pos, c)
             pn == AfterCandle(pos, c)
             cost == Money(pos.entry * q)
             charged == pos.entry * q * Fee * Den
  <1>x. x \in Nat /\ Trailed(pos, c.close) \in Int
    BY Zenon, ExitPriceNat
  <1>g. g = [cash |-> cash, inventory |-> held, basis |-> basis, equity |-> cash + worth,
             realized |-> f.realized + net, unrealized |-> worth - basis,
             losses |-> losses, count |-> count]
    BY Zenon DEF AfterUpdate
  <1>1. /\ f.inventory = q /\ f.basis = cost
        /\ f.cash + f.basis + charged = Money(InitialCash) + f.realized
        /\ f.equity = f.cash + f.basis + f.unrealized
        /\ f.cash >= 0
        /\ MaxLosses > 0 => f.losses < MaxLosses
    BY Zenon DEF FolioTrue
  <1>2. x * q * Den \in Nat /\ ExitFee(x, q) \in Nat /\ ExitFee(x, q) <= x * q * Den
        /\ cost \in Nat /\ charged \in Nat
        /\ NetResult(pos, x, q) = x * q * Den - ExitFee(x, q) - cost - charged
    BY Zenon, <1>x, <1>p, SaleResult
  <1>y. cost = Money(pos.entry * q) /\ charged = pos.entry * q * Fee * Den
    BY Zenon
  <1>z. Money(InitialCash) \in Nat
    BY Zenon, <1>m, MoneyNat
  <1>3. CASE Exits(pos, c)
    <2>1. sold = q /\ held = 0 /\ basis = 0 /\ count = 0
      BY <1>1, <1>3, <1>p
    <2>2. worth = 0
      <3>1. 0 * c.close = 0 /\ 0 * Den * Den = 0
        BY <1>c, <1>m
      <3> QED BY Zenon, <2>1, <3>1 DEF Money
    <2>3. cash = f.cash + x * q * Den - ExitFee(x, q)
      BY Zenon, <2>1
    <2>4. net = x * q * Den - ExitFee(x, q) - cost - charged
      BY Zenon, <1>2, <2>1
    <2>5. pn = [pos EXCEPT !.left = 0, !.bars = pos.bars + 1,
                           !.pnl = pos.pnl + NetResult(pos, x, q)]
      BY Zenon, <1>3 DEF AfterCandle
    <2>6. NetResult(pos, x, q) \in Int
      BY <1>2
    <2>7. pn \in Positions /\ pn.left = 0
      <3>1. pos.bars + 1 \in Nat /\ pos.pnl + NetResult(pos, x, q) \in Int /\ 0 \in Nat
        BY <1>p, <2>6
      <3> HIDE DEF pn, x, q
      <3> QED BY Zenon, <2>5, <3>1 DEF Positions
    <2>8. losses \in Nat
      BY <1>f
    <2> HIDE DEF x, q, sold, cash, held, basis, net, worth, losses, count, g, pn, cost, charged
    <2>9. /\ cash \in Int /\ cash >= 0 /\ net \in Int
      BY <1>1, <1>2, <1>f, <2>3, <2>4
    <2>10. cash = Money(InitialCash) + (f.realized + net)
      BY <1>1, <1>2, <1>f, <1>z, <2>3, <2>4
    <2>11. /\ g.cash = cash /\ g.inventory = 0 /\ g.basis = 0 /\ g.equity = cash
           /\ g.realized = f.realized + net /\ g.unrealized = 0
      BY <1>g, <2>1, <2>2, <2>9
    <2>12. g \in Portfolios
      <3>1. /\ cash \in Int /\ held \in Nat /\ basis \in Nat /\ cash + worth \in Int
            /\ f.realized + net \in Int /\ worth - basis \in Int /\ losses \in Nat
            /\ count \in 0 .. 1
        BY <1>f, <2>1, <2>2, <2>8, <2>9
      <3> QED BY Zenon, <1>g, <3>1 DEF Portfolios
    <2>13. FolioTrue(g, pn)
      BY <2>7, <2>9, <2>10, <2>11, <1>z DEF FolioTrue
    <2> QED BY Zenon, <2>7, <2>12, <2>13 DEF g, pn
  <1>4. CASE ~Exits(pos, c)
    <2>1. sold = 0 /\ held = q /\ count = f.count /\ losses = f.losses
      BY <1>1, <1>4, <1>p
    <2>2. x * 0 * Den = 0 /\ ExitFee(x, 0) = 0 /\ pos.entry * 0 = 0 /\ pos.entry * 0 * Fee * Den = 0
      BY <1>x, <1>p, <1>m DEF ExitFee
    <2>3. Money(pos.entry * 0) = 0
      BY <2>2, <1>m DEF Money
    <2>4. cash = f.cash /\ basis = cost
      BY <1>1, <1>2, <1>f, <1>p, <2>1, <2>2, <2>3
    <2>5. net = 0
      <3>1. NetResult(pos, x, 0)
              = x * 0 * Den - ExitFee(x, 0) - Money(pos.entry * 0) - pos.entry * 0 * Fee * Den
        BY Zenon, <1>x, <1>p, SaleResult
      <3> QED BY <2>1, <2>2, <2>3, <3>1
    <2>6. worth \in Nat
      BY Zenon, <1>c, <1>p, <2>1, NatProduct, MoneyNat
    <2>7. pn = [pos EXCEPT !.bars = pos.bars + 1, !.trail = Trailed(pos, c.close)]
      BY Zenon, <1>4 DEF AfterCandle
    <2>8. pn \in Positions /\ pn.left = q /\ pn.entry = pos.entry
      <3>1. pos.bars + 1 \in Nat
        BY <1>p
      <3> QED BY Zenon, <1>x, <2>7, <3>1 DEF Positions
    <2> HIDE DEF x, q, sold, cash, held, basis, net, worth, losses, count, g, pn, cost, charged
    <2>9. q \in Nat /\ q > 0
      BY Zenon, <1>p DEF q
    <2>10. /\ g.cash = f.cash /\ g.inventory = q /\ g.basis = cost /\ g.equity = f.cash + worth
           /\ g.realized = f.realized /\ g.unrealized = worth - cost /\ g.losses = f.losses
      BY <1>f, <1>g, <2>1, <2>4, <2>5
    <2>11. g \in Portfolios
      <3>1. /\ cash \in Int /\ held \in Nat /\ basis \in Nat /\ cash + worth \in Int
            /\ f.realized + net \in Int /\ worth - basis \in Int /\ losses \in Nat
            /\ count \in 0 .. 1
        BY <1>2, <1>f, <2>1, <2>4, <2>5, <2>6, <2>9
      <3> QED BY <1>g, <3>1 DEF Portfolios
    <2>12. FolioTrue(g, pn)
      <3>1. g.inventory = pn.left
        BY Zenon, <2>8, <2>10
      <3>2. g.basis = IF pn.left > 0 THEN Money(pn.entry * pn.left) ELSE 0
        BY Zenon, <1>y, <2>8, <2>9, <2>10
      <3>3. (IF pn.left > 0 THEN pn.entry * pn.left * Fee * Den ELSE 0) = charged
        BY Zenon, <1>y, <2>8, <2>9
      <3>4. g.cash + g.basis + charged = Money(InitialCash) + g.realized
        BY Zenon, <1>1, <2>10
      <3>5. g.equity = g.cash + g.basis + g.unrealized /\ g.cash >= 0
        BY <1>1, <1>2, <1>f, <2>6, <2>10
      <3>6. pn.left > 0 /\ MaxLosses > 0 => g.losses < MaxLosses
        BY Zenon, <1>1, <2>10
      <3> QED BY Zenon, <3>1, <3>2, <3>3, <3>4, <3>5, <3>6 DEF FolioTrue
    <2> QED BY Zenon, <2>8, <2>11, <2>12 DEF g, pn
  <1> QED BY Zenon, <1>3, <1>4


-----------------------------------------------------------------------------
(* What may be appended to the ledger. *)

\* A movement that may follow the ones in the ledger.
Follows(r) ==
    /\ r \in Movements /\ MovementTrue(r) /\ r.cursor <= now
    /\ r.market # "SPOT" => r.id.kind = "genesis"
    /\ \A k \in Lines(ledger, r.market) :
          /\ ledger[k].cursor <= r.cursor /\ ledger[k].id # r.id
          /\ ledger[k].id.kind = "open" => ledger[k].cursor < r.cursor
    /\ r.id.kind = "genesis" <=> Lines(ledger, r.market) = {}
    /\ Lines(ledger, r.market) # {} => r.before = ledger[Max(Lines(ledger, r.market))].after
    /\ r.id.kind = "candle" => CandleApplied(ledger[Max(Lines(ledger, r.market))], r)

\* The fields of a movement.
LEMMA MovementFields ==
  ASSUME NEW r \in Movements
  PROVE  /\ r.id.kind \in {"genesis", "candle", "open"} /\ r.id.at \in Nat
         /\ r.market \in {"SPOT", "USD_M_FUTURES"}
         /\ r.before \in Portfolios /\ r.after \in Portfolios
         /\ r.position \in Positions \cup {NoPosition} /\ r.cursor \in Nat
PROOF
  BY Zenon DEF Movements

\* A ledger stays readable, and true, when a movement that follows is appended.
LEMMA AppendKeepsLedger ==
  ASSUME LedgerInv, NEW r, Follows(r), ledger' = Append(ledger, r), now' = now, candles' = candles
  PROVE  LedgerInv'
PROOF
  <1> DEFINE n == Len(ledger) + 1
  <1>l. ledger \in Seq(Movements) /\ r \in Movements
    BY Zenon DEF LedgerInv, Follows
  <1>x. Extended(ledger, r, ledger')
    BY Zenon, <1>l, Appended
  <1>d. /\ ledger' \in Seq(Movements) /\ DOMAIN ledger' = DOMAIN ledger \cup {n}
        /\ ledger'[n] = r /\ \A i \in DOMAIN ledger : ledger'[i] = ledger[i]
    BY Zenon, <1>x DEF Extended
  <1>e. /\ \A i \in DOMAIN ledger : Earlier(ledger', i) = Earlier(ledger, i)
        /\ Earlier(ledger', n) = Lines(ledger, r.market)
    BY Zenon, <1>l, <1>x, AppendedEarlier
  <1>m. \A k \in Lines(ledger, r.market) : k \in DOMAIN ledger
    BY Zenon DEF Lines
  <1>k. \A i \in DOMAIN ledger : \A k \in Earlier(ledger, i) : k \in DOMAIN ledger
    BY Zenon DEF Lines, Earlier
  <1>f. Lines(ledger, r.market) # {} => Max(Lines(ledger, r.market)) \in DOMAIN ledger
    BY Zenon, <1>l, LastLine
  <1>g. \A i \in DOMAIN ledger : Earlier(ledger, i) # {} => Max(Earlier(ledger, i)) \in DOMAIN ledger
    BY Zenon, <1>l, LastEarlier
  <1>u. \A previous, row : CandleApplied(previous, row)' <=> CandleApplied(previous, row)
    BY Zenon DEF CandleApplied
  <1> HIDE DEF n
  <1>1. ASSUME NEW i \in DOMAIN ledger'
        PROVE  /\ MovementTrue(ledger'[i]) /\ ledger'[i].cursor <= now
               /\ ledger'[i].market # "SPOT" => ledger'[i].id.kind = "genesis"
               /\ \A k \in Earlier(ledger', i) :
                     /\ ledger'[k].cursor <= ledger'[i].cursor
                     /\ ledger'[k].id.kind = "open" => ledger'[k].cursor < ledger'[i].cursor
    <2>1. CASE i \in DOMAIN ledger
      BY Zenon, <1>d, <1>e, <1>k, <2>1 DEF LedgerInv
    <2>2. CASE i = n
      BY Zenon, <1>d, <1>e, <1>m, <2>2 DEF Follows
    <2> QED BY Zenon, <1>d, <2>1, <2>2
  <1>2. ASSUME NEW i \in DOMAIN ledger'
        PROVE  /\ \A k \in Earlier(ledger', i) : ledger'[k].id # ledger'[i].id
               /\ ledger'[i].id.kind = "genesis" <=> Earlier(ledger', i) = {}
               /\ Earlier(ledger', i) # {} =>
                     ledger'[i].before = ledger'[Max(Earlier(ledger', i))].after
               /\ ledger'[i].position # NoPosition =>
                     ledger'[i].position.left = ledger'[i].after.inventory
    <2>1. CASE i \in DOMAIN ledger
      BY <1>d, <1>e, <1>g, <1>k, <2>1 DEF LedgerInv, Readable
    <2>2. CASE i = n
      <3>1. r.position.left = r.after.inventory
        BY Zenon DEF Follows, MovementTrue, FolioTrue
      <3> QED BY Zenon, <1>d, <1>e, <1>f, <1>m, <2>2, <3>1 DEF Follows
    <2> QED BY Zenon, <1>d, <2>1, <2>2
  <1>3. ASSUME NEW i \in DOMAIN ledger', ledger'[i].id.kind = "candle"
        PROVE  CandleApplied(ledger'[Max(Earlier(ledger', i))], ledger'[i])
    <2>1. CASE i \in DOMAIN ledger
      <3>1. ledger'[i] = ledger[i] /\ Earlier(ledger', i) = Earlier(ledger, i)
        BY Zenon, <1>d, <1>e, <2>1
      <3>2. Earlier(ledger, i) # {}
        BY Zenon, <1>3, <2>1, <3>1 DEF LedgerInv, Readable
      <3>3. ledger'[Max(Earlier(ledger, i))] = ledger[Max(Earlier(ledger, i))]
        BY Zenon, <1>d, <1>g, <2>1, <3>2
      <3>4. CandleApplied(ledger[Max(Earlier(ledger, i))], ledger[i])
        BY Zenon, <1>3, <2>1, <3>1 DEF LedgerInv, CandlesOnce
      <3> QED BY Zenon, <3>1, <3>3, <3>4
    <2>2. CASE i = n
      <3>1. ledger'[i] = r /\ Earlier(ledger', i) = Lines(ledger, r.market)
        BY Zenon, <1>d, <1>e, <2>2
      <3>2. Lines(ledger, r.market) # {}
        BY Zenon, <1>3, <3>1 DEF Follows
      <3>3. ledger'[Max(Lines(ledger, r.market))] = ledger[Max(Lines(ledger, r.market))]
        BY Zenon, <1>d, <1>f, <3>2
      <3>4. CandleApplied(ledger[Max(Lines(ledger, r.market))], r)
        BY Zenon, <1>3, <3>1 DEF Follows
      <3> QED BY Zenon, <3>1, <3>3, <3>4
    <2> QED BY Zenon, <1>d, <2>1, <2>2
  <1>4. Readable(ledger')
    BY Zenon, <1>2 DEF Readable
  <1>5. CandlesOnce'
    BY Zenon, <1>3, <1>u DEF CandlesOnce
  <1> QED BY Zenon, <1>1, <1>4, <1>5, <1>d DEF LedgerInv


\* The last line of the Spot wallet, and the lines before it.
LEMMA SpotFacts ==
  ASSUME LedgerInv, Lines(ledger, "SPOT") # {}
  PROVE  /\ SpotRow(ledger) \in Movements /\ SpotRow(ledger).market = "SPOT"
         /\ MovementTrue(SpotRow(ledger))
         /\ SpotRow(ledger) = ledger[Max(Lines(ledger, "SPOT"))]
         /\ Max(Lines(ledger, "SPOT")) \in DOMAIN ledger
         /\ \A k \in Lines(ledger, "SPOT") : ledger[k].cursor <= SpotRow(ledger).cursor
         /\ \A k \in Lines(ledger, "SPOT") : ledger[k].id.kind = "open" =>
               ledger[k].cursor < SpotRow(ledger).cursor \/ ledger[k] = SpotRow(ledger)
PROOF
  <1> DEFINE m == Max(Lines(ledger, "SPOT"))
  <1>l. ledger \in Seq(Movements)
    BY Zenon DEF LedgerInv
  <1>1. m \in Lines(ledger, "SPOT") /\ m \in DOMAIN ledger /\ \A k \in Lines(ledger, "SPOT") : k <= m
    BY Zenon, <1>l, LastLine
  <1>2. SpotRow(ledger) = ledger[m]
    BY Zenon DEF SpotRow
  <1> HIDE DEF m
  <1>3. ledger[m].market = "SPOT"
    BY Zenon, <1>1 DEF Lines
  <1>4. ledger[m] \in Movements
    BY <1>l, <1>1
  <1>5. ASSUME NEW k \in Lines(ledger, "SPOT")
        PROVE  /\ ledger[k].cursor <= ledger[m].cursor
               /\ ledger[k].id.kind = "open" => ledger[k].cursor < ledger[m].cursor \/ k = m
    <2>1. CASE k = m
      BY <1>4, <2>1, MovementFields
    <2>2. CASE k # m
      <3>1. k \in Nat /\ m \in Nat /\ k <= m
        BY <1>l, <1>1 DEF Lines
      <3>2. k < m
        BY <2>2, <3>1
      <3>3. k \in Earlier(ledger, m)
        BY Zenon, <1>3, <3>2 DEF Earlier
      <3> QED BY Zenon, <1>1, <3>3 DEF LedgerInv
    <2> QED BY Zenon, <2>1, <2>2
  <1> QED BY Zenon, <1>1, <1>2, <1>3, <1>4, <1>5 DEF LedgerInv, m

\* The kinds of jobs.
LEMMA JobKinds ==
  ASSUME NEW j \in Jobs
  PROVE  /\ j.step = "manage" => j \in Managings
         /\ j.step \in {"record", "append"} => j \in Recordings
         /\ j.step = "output" => j \in Outputs
         /\ j.step \in {"init", "load", "reinit", "build", "report"} => j \in Readings
         /\ j # Idle => j.at \in Nat /\ j.n \in Nat /\ j.symbol \in DOMAIN Plans
         /\ j = Idle <=> j.step = "idle"
PROOF
  <1>1. CASE j = Idle
    BY Zenon, <1>1 DEF Idle
  <1>2. CASE j \in Readings
    BY <1>2 DEF Readings, Idle
  <1>3. CASE j \in Managings
    BY <1>3 DEF Managings, Idle
  <1>4. CASE j \in Recordings
    BY <1>4 DEF Recordings, Idle
  <1>5. CASE j \in Outputs
    BY <1>5 DEF Outputs, Idle
  <1> QED BY Zenon, <1>1, <1>2, <1>3, <1>4, <1>5 DEF Jobs

\* A movement is known when its wallet has a line with its identity.
LEMMA KnownLine ==
  ASSUME NEW r
  PROVE  Known(r) <=> \E k \in Lines(ledger, r.market) : ledger[k].id = r.id
PROOF
  BY Zenon DEF Known, Range, Lines

\* The genesis of a wallet without lines.
LEMMA GenesisFollows ==
  ASSUME LedgerInv, MarketInv, NEW d, job[d] \in Jobs, job[d].step = "output",
         JobTrue(job[d], ledger, now), NEW r \in GenesisRows(d)
  PROVE  /\ Follows(r) /\ ~Known(r) /\ r.cursor = 0
         /\ Lines(ledger, r.market) = {}
         /\ Min(job[d].missing) \in job[d].missing /\ job[d].missing \subseteq {1, 2}
         /\ r.market = Markets[Min(job[d].missing)] /\ r.after = InitialPortfolio
PROOF
  <1> DEFINE Lost == job[d].missing
             m == Markets[Min(Lost)]
  <1>0. job[d] \in Outputs
    BY Zenon, JobKinds
  <1>1. Lost # {} /\ r = Row("genesis", 0, 0, m, InitialPortfolio, InitialPortfolio, NoPosition, 0)
    BY Zenon DEF GenesisRows
  <1>2. DOMAIN Markets = 1 .. 2 /\ Markets[1] = "SPOT" /\ Markets[2] = "USD_M_FUTURES"
    BY DEF Markets
  <1>3. Lost \subseteq {1, 2}
    BY Zenon, <1>0 DEF Outputs
  <1>a. Lost \subseteq Nat
    BY <1>3
  <1>4. Min(Lost) \in Lost
    BY Zenon, <1>1, <1>a, MinOf
  <1>5. Lines(ledger, m) = {}
    BY Zenon, <1>4 DEF JobTrue
  <1>6. m \in {"SPOT", "USD_M_FUTURES"}
    BY Zenon, <1>2, <1>3, <1>4
  <1> HIDE DEF m, Lost
  <1>7. /\ r.id = [kind |-> "genesis", at |-> 0, of |-> 0] /\ r.market = m
        /\ r.before = InitialPortfolio /\ r.after = InitialPortfolio
        /\ r.position = NoPosition /\ r.cursor = 0
        /\ r.id.kind = "genesis" /\ r.id.at = 0
    BY Zenon, <1>1 DEF Row
  <1>8. r \in Movements
    BY Zenon, <1>1, <1>6, InitialTrue DEF Row, Movements
  <1>9. MovementTrue(r)
    BY Zenon, <1>7, InitialTrue DEF MovementTrue
  <1>10. r.cursor <= now
    BY <1>7 DEF MarketInv
  <1>11. Lines(ledger, r.market) = {}
    BY Zenon, <1>5, <1>7
  <1>12. Follows(r)
    BY Zenon, <1>7, <1>8, <1>9, <1>10, <1>11 DEF Follows
  <1>13. ~Known(r)
    BY Zenon, <1>11, KnownLine
  <1> QED BY Zenon, <1>3, <1>4, <1>7, <1>11, <1>12, <1>13 DEF m, Lost


\* A snapshot has the candles that closed before it was taken.
LEMMA SnapshotCandles ==
  ASSUME MarketInv, NEW at \in Nat, at <= now
  PROVE  at \div 2 \in Nat /\ at \div 2 <= Len(candles) /\ 2 * (at \div 2) <= at
         /\ at < 2 * (at \div 2) + 2
PROOF
  <1>1. now \in Nat /\ Len(candles) = now \div 2
    BY WalletAssumption DEF MarketInv
  <1> QED BY <1>1

\* The candle that is applied next is the first that opened at or after the cursor.
LEMMA FirstDue ==
  ASSUME NEW j \in Managings, j.n = j.at \div 2, Due(j) # {}, ~Gap(j)
  PROVE  /\ Min(Due(j)) \in Nat /\ Min(Due(j)) = NextCandle(j.cursor)
         /\ 1 <= Min(Due(j)) /\ Min(Due(j)) <= j.n
         /\ j.cursor < ClosesAt(Min(Due(j))) /\ ClosesAt(Min(Due(j))) <= j.at
PROOF
  <1>j. j.at \in Nat /\ j.n \in Nat /\ j.cursor \in Nat /\ Window \in Nat
    BY Zenon, WalletAssumption DEF Managings
  <1> DEFINE lo == Max({1, j.n - Window + 1})
             i == Min(Due(j))
  <1>1. lo \in Int /\ 1 <= lo
    <2>1. 1 \in Int /\ j.n - Window + 1 \in Int
      BY <1>j
    <2>2. lo = IF 1 <= j.n - Window + 1 THEN j.n - Window + 1 ELSE 1
      BY Zenon, <2>1, MaxPair
    <2> HIDE DEF lo
    <2> QED BY <2>1, <2>2
  <1>2. Due(j) = {t \in lo .. j.n + 1 : OpensAt(t) >= j.cursor /\ ClosesAt(t) <= j.at}
    BY Zenon DEF Due
  <1> HIDE DEF lo
  <1>3. \A t \in Due(j) : t \in Int /\ 1 <= t
    BY <1>1, <1>2, <1>j
  <1>4. Due(j) \subseteq Nat
    BY <1>3
  <1>5. i \in Due(j)
    BY Zenon, <1>4, MinOf
  <1>6. i \in Int /\ 1 <= i
    BY Zenon, <1>3, <1>5
  <1>7. OpensAt(i) >= j.cursor /\ ClosesAt(i) <= j.at
    BY Zenon, <1>2, <1>5
  <1>8. ~(OpensAt(i) - j.cursor >= 2)
    BY Zenon DEF Gap
  <1> HIDE DEF i
  <1>9. 2 * (i - 1) >= j.cursor /\ 2 * i <= j.at /\ 2 * (i - 1) - j.cursor < 2
    BY <1>6, <1>7, <1>8, <1>j DEF OpensAt, ClosesAt
  <1>10. i - 1 = (j.cursor + 1) \div 2
    BY <1>6, <1>9, <1>j
  <1>11. i <= j.n
    BY <1>6, <1>9, <1>j
  <1>12. j.cursor < ClosesAt(i)
    BY <1>6, <1>9, <1>j DEF ClosesAt
  <1>13. i = NextCandle(j.cursor)
    BY <1>6, <1>10, <1>j DEF NextCandle
  <1> QED BY <1>6, <1>7, <1>11, <1>12, <1>13 DEF i

\* A closed candle applied by a cycle whose position is the one in the ledger.
LEMMA CandleFollows ==
  ASSUME LedgerInv, MarketInv, NEW d, job[d] \in Jobs,
         job[d].step = "manage", JobTrue(job[d], ledger, now), NEW r \in CandleRows(d)
  PROVE  /\ Follows(r) /\ ~Known(r) /\ r.market = "SPOT" /\ r.cursor <= job[d].at
         /\ r.position \in Positions
PROOF
  <1> DEFINE j == job[d]
             i == Min(Due(j))
             c == candles[i]
             p == SpotRow(ledger)
  <1>1. j \in Managings
    BY Zenon, JobKinds
  <1>2. /\ j.at \in Nat /\ j.n \in Nat /\ j.cursor \in Nat /\ j.position \in Positions
        /\ j.folio \in Portfolios
    BY Zenon, <1>1 DEF Managings
  <1>3. /\ Lines(ledger, "SPOT") # {} /\ j.at <= now /\ j.n = j.at \div 2
        /\ j.position = p.position /\ j.position.left > 0
        /\ j.folio = p.after /\ j.cursor = p.cursor
    BY Zenon DEF JobTrue
  <1>4. /\ p \in Movements /\ p.market = "SPOT" /\ MovementTrue(p)
        /\ p = ledger[Max(Lines(ledger, "SPOT"))]
        /\ \A k \in Lines(ledger, "SPOT") : ledger[k].cursor <= p.cursor
    BY Zenon, <1>3, SpotFacts
  <1>5. Due(j) # {} /\ ~Gap(j)
        /\ r = Row("candle", ClosesAt(i), j.position.opened, "SPOT", j.folio,
                   AfterUpdate(j.folio, j.position, CandleOf(j, i)),
                   AfterCandle(j.position, CandleOf(j, i)), ClosesAt(i))
    BY Zenon DEF CandleRows
  <1>6. /\ i \in Nat /\ i = NextCandle(j.cursor) /\ 1 <= i /\ i <= j.n
        /\ j.cursor < ClosesAt(i) /\ ClosesAt(i) <= j.at
    BY Zenon, <1>1, <1>3, <1>5, FirstDue
  <1>7. j.n <= Len(candles)
    BY Zenon, <1>2, <1>3, SnapshotCandles
  <1>8. CandleOf(j, i) = c
    BY <1>2, <1>6 DEF CandleOf
  <1>9. c \in CandleType /\ i <= Len(candles)
    <2>1. candles \in Seq(Candles) /\ Candles \subseteq CandleType
      BY Zenon, WalletAssumption DEF MarketInv, CandleType
    <2>2. Len(candles) \in Nat
      BY <2>1
    <2>3. i <= Len(candles)
      BY <1>2, <1>6, <1>7, <2>2
    <2>4. i \in 1 .. Len(candles)
      BY <1>6, <2>2, <2>3
    <2> HIDE DEF i
    <2>5. candles[i] \in Candles
      BY <2>1, <2>4
    <2> QED BY Zenon, <2>1, <2>3, <2>5
  <1>10. FolioTrue(j.folio, j.position)
    BY Zenon, <1>3, <1>4 DEF MovementTrue
  <1>11. /\ AfterUpdate(j.folio, j.position, c) \in Portfolios
         /\ AfterCandle(j.position, c) \in Positions
         /\ FolioTrue(AfterUpdate(j.folio, j.position, c), AfterCandle(j.position, c))
    BY Zenon, <1>2, <1>3, <1>9, <1>10, UpdateTrue
  <1>12. j.position.opened \in Nat /\ ClosesAt(i) \in Nat
    BY <1>2, <1>6, PositionFields DEF ClosesAt
  <1>13. r = Row("candle", ClosesAt(i), j.position.opened, "SPOT", j.folio,
                 AfterUpdate(j.folio, j.position, c), AfterCandle(j.position, c), ClosesAt(i))
    BY Zenon, <1>5, <1>8
  <1> DEFINE g == AfterUpdate(j.folio, j.position, c)
             pn == AfterCandle(j.position, c)
             t == ClosesAt(i)
             o == j.position.opened
             f == j.folio
  <1>14. /\ r = Row("candle", t, o, "SPOT", f, g, pn, t) /\ t \in Nat /\ o \in Nat
         /\ f \in Portfolios /\ g \in Portfolios /\ pn \in Positions /\ FolioTrue(g, pn)
         /\ j.cursor < t /\ t <= j.at
    BY Zenon, <1>2, <1>6, <1>11, <1>12, <1>13
  <1>a. CandleApplied(p, r)
    <2>1. r.cursor = ClosesAt(i) /\ r.position = AfterCandle(j.position, candles[i])
      BY Zenon, <1>13 DEF Row
    <2>2. p.position.left > 0 /\ NextCandle(p.cursor) = i /\ AfterCandle(p.position, candles[i]) = r.position
      BY Zenon, <1>3, <1>6, <2>1
    <2> QED BY Zenon, <1>9, <2>1, <2>2 DEF CandleApplied
  <1>b. f = p.after
    BY Zenon, <1>3
  <1> HIDE DEF g, pn, t, o, f, c, i
  <1>15. /\ r.id.kind = "candle" /\ r.id.at = t /\ r.market = "SPOT" /\ r.before = f
         /\ r.after = g /\ r.position = pn /\ r.cursor = t
    BY Zenon, <1>14 DEF Row
  <1>16. r \in Movements
    BY Zenon, <1>14 DEF Row, Movements
  <1>17. MovementTrue(r)
    BY Zenon, <1>14, <1>15 DEF MovementTrue
  <1>18. now \in Nat /\ r.cursor <= now /\ r.cursor <= j.at
    <2>0. now \in 0..MaxTime /\ MaxTime \in Nat
      BY Zenon, WalletAssumption DEF MarketInv
    <2>1. now \in Nat
      BY <2>0
    <2>2. j.at \in Nat /\ j.at <= now /\ t \in Nat /\ t <= j.at /\ r.cursor = t
      BY Zenon, <1>2, <1>3, <1>14, <1>15
    <2>3. PICK a \in Nat : a = j.at
      BY Zenon, <2>2
    <2>4. t <= now
      BY <2>1, <2>2, <2>3
    <2> QED BY Zenon, <2>1, <2>2, <2>4
  <1>19. ASSUME NEW k \in Lines(ledger, "SPOT")
         PROVE  ledger[k].cursor < r.cursor /\ ledger[k].cursor <= r.cursor /\ ledger[k].id # r.id
    <2>1. k \in DOMAIN ledger /\ ledger[k] \in Movements /\ MovementTrue(ledger[k])
      BY DEF Lines, LedgerInv
    <2>2. ledger[k].cursor \in Nat /\ ledger[k].id.at = ledger[k].cursor
      BY Zenon, <2>1, MovementFields DEF MovementTrue
    <2>3. ledger[k].cursor <= p.cursor
      BY Zenon, <1>4
    <2>c. PICK x \in Nat, y \in Nat : x = ledger[k].cursor /\ y = p.cursor
      BY Zenon, <1>2, <1>3, <2>2
    <2>d. x <= y /\ y < t /\ t \in Nat
      BY Zenon, <1>3, <1>14, <2>3, <2>c
    <2>e. x < t
      BY <2>d
    <2>4. ledger[k].cursor < t
      BY Zenon, <2>c, <2>e
    <2>5. ledger[k].id.at # r.id.at
      BY <1>14, <1>15, <2>2, <2>4
    <2> QED BY <1>14, <1>15, <2>2, <2>4, <2>5
  <1>20. ~Known(r)
    BY Zenon, <1>15, <1>19, KnownLine
  <1>21. Follows(r)
    BY Zenon, <1>3, <1>4, <1>15, <1>16, <1>17, <1>18, <1>19, <1>a, <1>b DEF Follows
  <1> QED BY Zenon, <1>14, <1>15, <1>18, <1>20, <1>21


\* A purchase recorded in the wallet the decision was made for.
LEMMA OpenFollows ==
  ASSUME LedgerInv, MarketInv, NEW d \in Daemons, job[d] \in Jobs,
         job[d].step = "append", JobTrue(job[d], ledger, now), NEW r \in OpenRows(d)
  PROVE  /\ Follows(r) /\ ~Known(r)
         /\ r.market = "SPOT" /\ r.cursor = job[d].at /\ r.after = job[d].after
         /\ MaxLosses > 0 => ~(Wallet.losses >= MaxLosses)
PROOF
  <1> DEFINE j == job[d]
             p == SpotRow(ledger)
             pn == Opened(j.plan, j.symbol, j.at)
  <1>1. j \in Recordings
    BY Zenon, JobKinds
  <1>2. /\ j.at \in Nat /\ j.symbol \in DOMAIN Plans /\ j.before \in Portfolios
    BY Zenon, <1>1 DEF Recordings
  <1>3. /\ Lines(ledger, "SPOT") # {} /\ j.at <= now
        /\ \A k \in DOMAIN ledger : ledger[k].cursor <= j.at
        /\ j.plan \in Plans[j.symbol] /\ ~Blocked(j.before, j.plan)
        /\ j.after = AfterFill(j.before, j.plan)
    BY Zenon DEF JobTrue
  <1>4. /\ p \in Movements /\ p.market = "SPOT" /\ MovementTrue(p)
        /\ p = ledger[Max(Lines(ledger, "SPOT"))]
    BY Zenon, <1>3, SpotFacts
  <1>5. r = Row("open", j.at, d, "SPOT", j.before, j.after, pn, j.at)
    BY Zenon DEF OpenRows
  <1>6. j.before = p.after /\ p.position.left = 0
    BY Zenon DEF JobTrue
  <1>7. FolioTrue(j.before, p.position)
    BY Zenon, <1>4, <1>6 DEF MovementTrue
  <1>8. j.after \in Portfolios /\ pn \in Positions /\ FolioTrue(j.after, pn)
    BY Zenon, <1>2, <1>3, <1>6, <1>7, FillTrue
  <1>9. MaxLosses > 0 => ~(Wallet.losses >= MaxLosses)
    BY Zenon, <1>3, <1>6 DEF Blocked, Wallet
  <1>b. j.before.count = 0 /\ j.after.count = 1
    <2>1. ~(j.before.count >= 1) /\ j.before.count \in 0 .. 1
      BY Zenon, <1>2, <1>3, FolioFields DEF Blocked
    <2>2. j.before.count = 0
      BY <2>1
    <2>3. j.after.count = j.before.count + 1
      BY Zenon, <1>2, <1>3 DEF AfterFill, Portfolios
    <2> QED BY <2>2, <2>3
  <1> DEFINE t == j.at
             f == j.before
             g == j.after
  <1>10. /\ r = Row("open", t, d, "SPOT", f, g, pn, t) /\ t \in Nat /\ f \in Portfolios
         /\ g \in Portfolios /\ pn \in Positions /\ FolioTrue(g, pn) /\ f = p.after /\ d \in Writers
         /\ f.count = 0 /\ g.count = 1
    BY Zenon, <1>2, <1>5, <1>6, <1>8, <1>b, DaemonAssumption
  <1>11. t <= now /\ \A k \in DOMAIN ledger : ledger[k].cursor <= t
    BY Zenon, <1>3
  <1> HIDE DEF t, f, g, pn
  <1>12. /\ r.id.kind = "open" /\ r.id.at = t /\ r.market = "SPOT" /\ r.before = f
         /\ r.after = g /\ r.position = pn /\ r.cursor = t
    BY Zenon, <1>10 DEF Row
  <1>13. r \in Movements
    BY Zenon, <1>10 DEF Row, Movements
  <1>14. MovementTrue(r)
    BY Zenon, <1>10, <1>12 DEF MovementTrue
  \* A line that is a purchase is not the last one, so it is older than the last.
  <1>15. ASSUME NEW k \in Lines(ledger, "SPOT"), ledger[k].id.kind = "open"
         PROVE  ledger[k].cursor < t
    <2>1. ledger[k] # p
      <3>1. p.id.kind = "open" => p.after.count = 1
        BY Zenon, <1>4 DEF MovementTrue
      <3>2. p.after.count # 1
        BY <1>10
      <3> QED BY Zenon, <1>15, <3>1, <3>2
    <2>2. ledger[k].cursor < p.cursor
      BY Zenon, <1>3, <1>15, <2>1, SpotFacts
    <2>3. p.cursor <= t
      BY Zenon, <1>3, <1>4, <1>11, SpotFacts
    <2>4. ledger[k].cursor \in Nat /\ p.cursor \in Nat
      <3>1. ledger[k] \in Movements
        BY DEF LedgerInv, Lines
      <3> QED BY Zenon, <1>4, <3>1, MovementFields
    <2>5. PICK x \in Nat, y \in Nat : x = ledger[k].cursor /\ y = p.cursor
      BY Zenon, <2>4
    <2>6. x < y /\ y <= t /\ t \in Nat
      BY Zenon, <1>10, <2>2, <2>3, <2>5
    <2>7. x < t
      BY <2>6
    <2> QED BY Zenon, <2>5, <2>7
  <1>16. ASSUME NEW k \in Lines(ledger, "SPOT")
         PROVE  ledger[k].id # r.id
    <2> SUFFICES ASSUME ledger[k].id = r.id PROVE FALSE
      BY Zenon
    <2>1. ledger[k].id.kind = "open" /\ ledger[k].id.at = t
      BY Zenon, <1>12
    <2>2. ledger[k].cursor = t
      BY Zenon, <2>1 DEF LedgerInv, Lines, MovementTrue
    <2>3. t < t
      BY Zenon, <1>15, <2>1, <2>2
    <2> QED BY <1>10, <2>3
  <1>17. ~Known(r)
    BY Zenon, <1>12, <1>16, KnownLine
  <1>18. Follows(r)
    <2>1. \A k \in Lines(ledger, "SPOT") : ledger[k].cursor <= r.cursor
      BY Zenon, <1>11, <1>12 DEF Lines
    <2> QED BY Zenon, <1>3, <1>4, <1>10, <1>11, <1>12, <1>13, <1>14, <1>15, <1>16, <2>1 DEF Follows
  <1> QED BY Zenon, <1>9, <1>12, <1>17, <1>18 DEF t, g

-----------------------------------------------------------------------------
(* The cycles of the daemons. *)

\* While a daemon holds the lease, no other daemon runs a cycle.
LEMMA OthersIdle ==
  ASSUME LeaseInv, JobsInv, NEW d \in Daemons, phase[d] = "held"
  PROVE  \A x \in Daemons \ {d} : job[x] = Idle
PROOF
  <1>1. \A x \in Daemons \ {d} : phase[x] # "held"
    BY Zenon DEF LeaseInv, HolderNamed, NamesDiffer
  <1> QED BY Zenon, <1>1 DEF JobsInv

\* A step of a cycle: the daemon's next job is true of the ledger it leaves.
LEMMA CycleKeepsJobs ==
  ASSUME LeaseInv, JobsInv, NEW d \in Daemons, phase[d] = "held", phase' = phase,
         NEW j \in Jobs, job' = [job EXCEPT ![d] = j],
         j # Idle => JobTrue(j, ledger', now')
  PROVE  JobsInv'
PROOF
  <1>1. job \in [Daemons -> Jobs]
    BY Zenon DEF JobsInv
  <1>2. job' \in [Daemons -> Jobs] /\ job'[d] = j /\ \A x \in Daemons \ {d} : job'[x] = job[x]
    BY Zenon, <1>1
  <1>3. \A x \in Daemons \ {d} : job'[x] = Idle
    BY Zenon, <1>2, OthersIdle
  <1> QED BY Zenon, <1>2, <1>3 DEF JobsInv

\* The report stays true when the ledger grows.
LEMMA AppendKeepsReport ==
  ASSUME LedgerInv, ReportInv, NEW r \in Movements, ledger' = Append(ledger, r), report' = report
  PROVE  ReportInv'
PROOF
  <1>1. ledger \in Seq(Movements)
    BY Zenon DEF LedgerInv
  <1>2. report.count \in 0 .. Len(ledger)
    BY Zenon DEF ReportInv
  <1>3. Len(ledger') = Len(ledger) + 1 /\ Len(ledger) \in Nat
    BY <1>1
  <1>4. SubSeq(ledger', 1, report.count) = SubSeq(ledger, 1, report.count)
    BY <1>1, <1>2
  <1>5. report'.count \in 0 .. Len(ledger')
    BY <1>2, <1>3
  <1>6. ReportTrue'
    BY Zenon, <1>4 DEF ReportInv, ReportTrue
  <1> QED BY Zenon, <1>5, <1>6 DEF ReportInv

\* The report that is written describes the ledger as it is.
LEMMA WriteKeepsReport ==
  ASSUME LedgerInv, Lines(ledger, "SPOT") # {}, ledger' = ledger, NEW f, f = SpotRow(ledger).after,
         report' = [count |-> Len(ledger), open |-> OpenSymbols, spot |-> f]
  PROVE  ReportInv'
PROOF
  <1> DEFINE p == SpotRow(ledger)
  <1>1. ledger \in Seq(Movements) /\ Len(ledger) \in Nat
    BY DEF LedgerInv
  <1>2. p \in Movements /\ MovementTrue(p)
    BY Zenon, SpotFacts
  <1>3. p.after \in Portfolios /\ p.position \in Positions \cup {NoPosition}
    BY Zenon, <1>2, MovementFields
  <1>4. SubSeq(ledger, 1, Len(ledger)) = ledger
    BY <1>1
  <1>5. report'.count = Len(ledger) /\ report'.open = OpenSymbols /\ report'.spot = p.after
    BY Zenon
  <1>6. report'.spot = SpotRow(SubSeq(ledger', 1, report'.count)).after
    BY Zenon, <1>4, <1>5
  <1>7. p.position.left \in Nat /\ (p.position.left > 0 => p.position.symbol \in DOMAIN Plans)
    BY <1>3, PositionFields DEF NoPosition
  <1>8. OpenSymbols = IF p.position.left > 0 THEN {p.position.symbol} ELSE {}
    BY Zenon DEF OpenSymbols, Holding
  <1>9. p.after.inventory = p.position.left
    BY Zenon, <1>2 DEF MovementTrue, FolioTrue
  <1> HIDE DEF p
  <1>10. OpenSymbols \subseteq DOMAIN Plans /\ (OpenSymbols = {} <=> p.after.inventory = 0)
    <2>1. PICK left \in Nat : left = p.position.left
      BY Zenon, <1>7
    <2>2. left > 0 <=> left # 0
      BY <2>1
    <2> QED BY Zenon, <1>7, <1>8, <1>9, <2>1, <2>2
  <1>11. report'.count \in 0 .. Len(ledger')
    BY <1>1, <1>5
  <1> QED BY Zenon, <1>3, <1>5, <1>6, <1>10, <1>11 DEF ReportInv, ReportTrue

\* What the cycle of a daemon finds after an append.
LEMMA AppendedFacts ==
  ASSUME LedgerInv, NEW r \in Movements, ledger' = Append(ledger, r),
         NEW t, \A i \in DOMAIN ledger : ledger[i].cursor <= t, r.cursor <= t
  PROVE  /\ \A i \in DOMAIN ledger' : ledger'[i].cursor <= t
         /\ r.market = "SPOT" => Lines(ledger', "SPOT") # {} /\ SpotRow(ledger') = r
PROOF
  <1>1. ledger \in Seq(Movements)
    BY Zenon DEF LedgerInv
  <1>2. Extended(ledger, r, ledger')
    BY Zenon, <1>1, Appended
  <1>3. \A i \in DOMAIN ledger' : ledger'[i].cursor <= t
    BY Zenon, <1>2 DEF Extended
  <1>4. r.market = "SPOT" => SpotRow(ledger') = r
    BY Zenon, <1>1, <1>2, AppendedSpot
  <1>5. r.market = "SPOT" => Len(ledger) + 1 \in Lines(ledger', "SPOT")
    BY Zenon, <1>2 DEF Extended, Lines
  <1> QED BY Zenon, <1>3, <1>4, <1>5

\* A ledger, a market and a report that are left alone.
LEMMA SameLedger ==
  ASSUME LedgerInv, ledger' = ledger, now' = now, candles' = candles
  PROVE  LedgerInv'
PROOF
  <1>1. CandlesOnce'
    BY Zenon DEF LedgerInv, CandlesOnce, CandleApplied
  <1> QED BY Zenon, <1>1 DEF LedgerInv

LEMMA SameMarket ==
  ASSUME MarketInv, now' = now, candles' = candles
  PROVE  MarketInv'
PROOF
  BY Zenon DEF MarketInv

LEMMA SameReport ==
  ASSUME ReportInv, ledger' = ledger, report' = report
  PROVE  ReportInv'
PROOF
  BY Zenon DEF ReportInv, ReportTrue

\* A job that goes on to read the ledger.
LEMMA ReadingTrue ==
  ASSUME NEW j \in Jobs, j # Idle, NEW l, NEW time, j.at <= time, j.n = j.at \div 2,
         \A i \in DOMAIN l : l[i].cursor <= j.at, Lines(l, "SPOT") # {},
         NEW s \in {"init", "load", "reinit", "build", "report"}
  PROVE  Reading(s, j) \in Jobs /\ Reading(s, j) # Idle /\ JobTrue(Reading(s, j), l, time)
PROOF
  <1> DEFINE i == Reading(s, j)
  <1>1. j.at \in Nat /\ j.n \in Nat /\ j.symbol \in DOMAIN Plans
    BY Zenon, JobKinds
  <1>2. i \in Readings
    BY Zenon, <1>1 DEF Reading, Readings
  <1>3. i.step = s /\ i.at = j.at /\ i.n = j.n
    BY Zenon DEF Reading
  <1> HIDE DEF i
  <1>4. i.step \notin {"idle", "output", "manage", "record", "append"}
    BY <1>3
  <1>5. JobTrue(i, l, time)
    BY Zenon, <1>3, <1>4 DEF JobTrue
  <1>6. i # Idle
    BY <1>4 DEF Idle
  <1> QED BY Zenon, <1>2, <1>5, <1>6 DEF Jobs, i

\* A job that goes on to write the state file.
LEMMA OutputTrue ==
  ASSUME NEW j \in Jobs, j # Idle, NEW l, NEW time, j.at <= time, j.n = j.at \div 2,
         \A i \in DOMAIN l : l[i].cursor <= j.at,
         NEW call \in Calls, NEW missing \in SUBSET {1, 2}, NEW f \in Portfolios,
         \A i \in missing : Lines(l, Markets[i]) = {},
         1 \in missing => f = InitialPortfolio,
         1 \notin missing => Lines(l, "SPOT") # {} /\ f = SpotRow(l).after
  PROVE  /\ Output(call, j, missing, f) \in Jobs /\ Output(call, j, missing, f) # Idle
         /\ JobTrue(Output(call, j, missing, f), l, time)
PROOF
  <1> DEFINE i == Output(call, j, missing, f)
  <1>1. j.at \in Nat /\ j.n \in Nat /\ j.symbol \in DOMAIN Plans
    BY Zenon, JobKinds
  <1>2. i \in Outputs
    BY Zenon, <1>1 DEF Output, Outputs
  <1>3. /\ i.step = "output" /\ i.at = j.at /\ i.n = j.n /\ i.missing = missing /\ i.folio = f
    BY Zenon DEF Output
  <1> HIDE DEF i
  <1>4. i.step \notin {"idle", "manage", "record", "append"}
    BY <1>3
  <1>5. JobTrue(i, l, time)
    BY Zenon, <1>3, <1>4 DEF JobTrue
  <1>6. i # Idle
    BY <1>4 DEF Idle
  <1> QED BY Zenon, <1>2, <1>5, <1>6 DEF Jobs, i

\* A purchase the research decided on, in the wallet it was given.
LEMMA DecisionTrue ==
  ASSUME NEW j \in Jobs, j # Idle, NEW l, NEW time, j.at <= time, j.n = j.at \div 2,
         \A i \in DOMAIN l : l[i].cursor <= j.at, Lines(l, "SPOT") # {},
         j.folio \in Portfolios, NEW i \in Decisions(j)
  PROVE  i \in Jobs /\ JobTrue(i, l, time)
PROOF
  <1> DEFINE f == j.folio
  <1>j. j.at \in Nat /\ j.n \in Nat /\ j.symbol \in DOMAIN Plans
    BY Zenon, JobKinds
  <1>1. PICK plan \in Plans[j.symbol] :
          /\ ~Blocked(f, plan)
          /\ i = [step |-> "record", at |-> j.at, n |-> j.n, symbol |-> j.symbol, plan |-> plan,
                  before |-> f, after |-> AfterFill(f, plan)]
    BY Zenon DEF Decisions
  <1>2. f \in Portfolios /\ AfterFill(f, plan) \in Portfolios
    <2>1. plan.price \in Nat /\ plan.quantity \in Nat
      BY Zenon, <1>j, WalletAssumption
    <2>2. /\ FillCost(plan) \in Nat /\ FillFee(plan) \in Nat /\ ExecutionPrice(plan) \in Nat
          /\ Money(ExecutionPrice(plan) * plan.quantity) \in Nat
      BY Zenon, <2>1, FillNat
    <2>3. /\ f.cash \in Int /\ f.equity \in Int /\ f.inventory \in Nat /\ f.basis \in Nat
          /\ f.realized \in Int /\ f.unrealized \in Int /\ f.losses \in Nat /\ f.count \in 0 .. 1
      BY Zenon, FolioFields
    <2>4. Money(f.inventory * ExecutionPrice(plan)) \in Nat
      BY Zenon, <2>2, <2>3, NatProduct, MoneyNat
    <2>5. f.count = 0
      BY <1>1, <2>3 DEF Blocked
    <2>6. f \in Portfolios
      BY Zenon
    <2> HIDE DEF f
    <2>7. /\ f.cash - FillCost(plan) \in Int
          /\ f.cash - FillFee(plan) + Money(f.inventory * ExecutionPrice(plan)) \in Int
          /\ f.inventory + plan.quantity \in Nat
          /\ f.basis + Money(ExecutionPrice(plan) * plan.quantity) \in Nat
          /\ Money(f.inventory * ExecutionPrice(plan)) - f.basis \in Int
          /\ f.count + 1 \in 0 .. 1
      BY <2>1, <2>2, <2>3, <2>4, <2>5
    <2>8. AfterFill(f, plan) \in Portfolios
      BY Zenon, <2>6, <2>7 DEF AfterFill, Portfolios
    <2> QED BY Zenon, <2>6, <2>8
  <1> DEFINE g == AfterFill(f, plan)
  <1>3. plan \in UNION {Plans[s] : s \in DOMAIN Plans}
    BY Zenon, <1>j
  <1>4. /\ i = [step |-> "record", at |-> j.at, n |-> j.n, symbol |-> j.symbol, plan |-> plan,
                before |-> f, after |-> g]
        /\ g = AfterFill(f, plan) /\ ~Blocked(f, plan) /\ f \in Portfolios /\ g \in Portfolios
    BY Zenon, <1>1, <1>2
  <1> HIDE DEF f, g
  <1>5. i \in Recordings
    BY Zenon, <1>j, <1>3, <1>4 DEF Recordings
  <1>6. /\ i.step = "record" /\ i.at = j.at /\ i.n = j.n /\ i.symbol = j.symbol
        /\ i.plan = plan /\ i.before = f /\ i.after = g
    BY Zenon, <1>4
  <1>7. i.step \notin {"output", "manage", "append"}
    BY <1>6
  <1>8. JobTrue(i, l, time)
    BY Zenon, <1>1, <1>4, <1>6, <1>7 DEF JobTrue
  <1> QED BY Zenon, <1>5, <1>8 DEF Jobs

\* Every step of a cycle keeps the ledger, the daemon's job and the report true.
LEMMA CycleInv ==
  ASSUME DaemonInv, NEW d \in Daemons, phase[d] = "held", phase' = phase, CycleStep(d)
  PROVE  MarketInv' /\ LedgerInv' /\ JobsInv' /\ ReportInv'
PROOF
  <1> DEFINE j == job[d]
  <1>i. LeaseInv /\ MarketInv /\ LedgerInv /\ JobsInv /\ ReportInv
    BY Zenon DEF DaemonInv
  <1>j. j \in Jobs /\ job \in [Daemons -> Jobs] /\ (j # Idle => JobTrue(j, ledger, now))
    BY Zenon, <1>i DEF JobsInv
  <1>k. /\ j.step = "manage" => j \in Managings
        /\ j.step \in {"record", "append"} => j \in Recordings
        /\ j.step = "output" => j \in Outputs
        /\ j # Idle => j.at \in Nat /\ j.n \in Nat /\ j.symbol \in DOMAIN Plans
        /\ j = Idle <=> j.step = "idle"
    BY Zenon, <1>j, JobKinds
  <1>t. j # Idle => /\ j.at <= now /\ j.n = j.at \div 2
                    /\ \A i \in DOMAIN ledger : ledger[i].cursor <= j.at
    BY Zenon, <1>j DEF JobTrue
  <1>b. Idle \in Jobs
    BY Zenon DEF Jobs
  <1>s. ASSUME ledger' = ledger, now' = now, candles' = candles
        PROVE  MarketInv' /\ LedgerInv'
    BY Zenon, <1>i, <1>s, SameLedger, SameMarket
  \* A job that goes on, over the same ledger.
  <1>r. ASSUME NEW i \in Jobs, i # Idle => JobTrue(i, ledger', now'), job' = [job EXCEPT ![d] = i],
               ledger' = ledger, now' = now, candles' = candles, report' = report
        PROVE  MarketInv' /\ LedgerInv' /\ JobsInv' /\ ReportInv'
    <2>1. JobsInv'
      BY Zenon, <1>i, <1>r, CycleKeepsJobs
    <2> QED BY Zenon, <1>i, <1>r, <1>s, <2>1, SameReport
  <1>1. CASE CycleFails(d)
    <2>1. job' = [job EXCEPT ![d] = Idle] /\ ledger' = ledger /\ now' = now /\ candles' = candles
          /\ report' = report
      BY Zenon, <1>1 DEF CycleFails, Becomes
    <2>2. JobsInv'
      BY Zenon, <1>b, <1>i, <2>1, CycleKeepsJobs
    <2> QED BY Zenon, <1>i, <1>s, <2>1, <2>2, SameReport
  <1>2. CASE Recover(d)
    <2> DEFINE f == IF Lines(ledger, "SPOT") = {} THEN InitialPortfolio ELSE Wallet
               i == Output(j.step, j, Missing, f)
    <2>1. /\ j.step \in Calls /\ job' = [job EXCEPT ![d] = i] /\ ledger' = ledger /\ now' = now
          /\ candles' = candles /\ report' = report
      BY Zenon, <1>2 DEF Recover, Becomes
    <2>2. j # Idle
      BY <1>k, <2>1 DEF Calls
    <2>3. DOMAIN Markets = {1, 2} /\ Markets[1] = "SPOT"
      BY DEF Markets
    <2>4. Missing \in SUBSET {1, 2} /\ \A x \in Missing : Lines(ledger, Markets[x]) = {}
      BY Zenon, <2>3 DEF Missing
    <2>5. 1 \in Missing <=> Lines(ledger, "SPOT") = {}
      BY Zenon, <2>3 DEF Missing
    <2>6. f \in Portfolios
      <3>1. Lines(ledger, "SPOT") # {} => Wallet \in Portfolios
        BY Zenon, <1>i, SpotFacts, MovementFields DEF Wallet
      <3> QED BY Zenon, <3>1, InitialTrue
    <2>7. /\ 1 \in Missing => f = InitialPortfolio
          /\ 1 \notin Missing => Lines(ledger, "SPOT") # {} /\ f = SpotRow(ledger).after
      BY Zenon, <2>5 DEF Wallet
    <2>a. j.at <= now /\ j.n = j.at \div 2 /\ \A x \in DOMAIN ledger : ledger[x].cursor <= j.at
      BY Zenon, <1>t, <2>2
    <2> HIDE DEF f, j
    <2>8. i \in Jobs /\ JobTrue(i, ledger', now')
      BY Zenon, <1>j, <2>1, <2>2, <2>4, <2>6, <2>7, <2>a, OutputTrue
    <2> HIDE DEF i
    <2> QED BY Zenon, <1>r, <2>1, <2>8
  <1>3. CASE Genesis(d)
    <2> DEFINE m == Min(j.missing)
               i == [j EXCEPT !.missing = j.missing \ {m}]
    <2>1. PICK r \in GenesisRows(d) : AppendMovement(r)
      BY Zenon, <1>3 DEF Genesis
    <2>2. now' = now /\ candles' = candles /\ report' = report /\ job' = [job EXCEPT ![d] = i]
      BY Zenon, <1>3 DEF Genesis, Becomes
    <2>3. j.step = "output"
      BY Zenon, <2>1 DEF GenesisRows
    <2>4. j # Idle
      BY <1>k, <2>3
    <2>5. JobTrue(j, ledger, now) /\ j \in Outputs
      BY Zenon, <1>j, <1>k, <2>3, <2>4
    <2>6. /\ Follows(r) /\ ~Known(r) /\ r.cursor = 0 /\ r \in Movements /\ r.after = InitialPortfolio
          /\ m \in j.missing /\ j.missing \subseteq {1, 2} /\ r.market = Markets[m]
      BY Zenon, <1>i, <1>j, <2>3, <2>5, GenesisFollows DEF Follows
    <2>7. ledger' = Append(ledger, r) /\ ledger \in Seq(Movements)
      BY Zenon, <1>i, <2>1, <2>6 DEF AppendMovement, LedgerInv
    <2>8. /\ \A x \in DOMAIN ledger' : ledger'[x].cursor <= j.at
          /\ r.market = "SPOT" => Lines(ledger', "SPOT") # {} /\ SpotRow(ledger') = r
      <3>1. r.cursor <= j.at
        BY <1>k, <2>4, <2>6
      <3> QED BY Zenon, <1>i, <1>t, <2>4, <2>6, <2>7, <3>1, AppendedFacts
    <2>9. /\ \A x : r.market # x => Lines(ledger', x) = Lines(ledger, x)
          /\ r.market # "SPOT" /\ Lines(ledger, "SPOT") # {} => SpotRow(ledger') = SpotRow(ledger)
      <3>1. Extended(ledger, r, ledger')
        BY Zenon, <2>6, <2>7, Appended
      <3>2. ASSUME NEW x, r.market # x PROVE Lines(ledger', x) = Lines(ledger, x)
        BY Zenon, <2>6, <2>7, <3>1, <3>2, AppendedLines
      <3> QED BY Zenon, <2>6, <2>7, <3>1, <3>2, AppendedSpot
    <2>10. Markets[1] = "SPOT" /\ Markets[2] = "USD_M_FUTURES" /\ "SPOT" # "USD_M_FUTURES"
      BY DEF Markets
    <2>11. 1 \in j.missing => m = 1
      <3>1. j.missing \subseteq Nat /\ j.missing # {}
        BY <2>6
      <3>2. \A x \in j.missing : m <= x
        BY Zenon, <3>1, MinOf
      <3>3. 1 \in j.missing => m <= 1
        BY Zenon, <3>2
      <3> HIDE DEF m
      <3> QED BY <2>6, <3>3
    <2> DEFINE rest == j.missing \ {m}
    <2>12. rest \in SUBSET {1, 2} /\ 1 \notin rest
      BY Zenon, <2>6, <2>11
    <2>13. \A x \in rest : Lines(ledger', Markets[x]) = {}
      <3> SUFFICES ASSUME NEW x \in rest PROVE Lines(ledger', Markets[x]) = {}
        BY Zenon
      <3>1. x \in j.missing /\ x # m /\ Lines(ledger, Markets[x]) = {}
        BY Zenon, <2>3, <2>5 DEF JobTrue
      <3>2. Markets[x] # Markets[m]
        BY <2>6, <2>10, <3>1
      <3> QED BY Zenon, <2>6, <2>9, <3>1, <3>2
    <2>14. Lines(ledger', "SPOT") # {} /\ j.folio = SpotRow(ledger').after
      <3>1. CASE 1 \in j.missing
        BY Zenon, <2>3, <2>5, <2>6, <2>8, <2>10, <2>11, <3>1 DEF JobTrue
      <3>2. CASE 1 \notin j.missing
        <4>1. m = 2
          BY Zenon, <2>6, <3>2
        <4>2. r.market # "SPOT"
          BY <2>6, <2>10, <4>1
        <4>3. Lines(ledger, "SPOT") # {} /\ j.folio = SpotRow(ledger).after
          BY Zenon, <2>3, <2>5, <3>2 DEF JobTrue
        <4> QED BY Zenon, <2>9, <4>2, <4>3
      <3> QED BY Zenon, <3>1, <3>2
    <2>15. i = Output(j.call, j, rest, j.folio) /\ j.call \in Calls /\ j.folio \in Portfolios
      BY <2>5 DEF Outputs, Output
    <2>a. j.at <= now' /\ j.n = j.at \div 2
      BY Zenon, <1>t, <2>2, <2>4
    <2> HIDE DEF rest, j, m, i
    <2>b. /\ Output(j.call, j, rest, j.folio) \in Jobs
          /\ JobTrue(Output(j.call, j, rest, j.folio), ledger', now')
      BY Zenon, <1>j, <2>4, <2>8, <2>12, <2>13, <2>14, <2>15, <2>a, OutputTrue
    <2>16. i \in Jobs /\ JobTrue(i, ledger', now')
      BY Zenon, <2>15, <2>b
    <2>17. JobsInv'
      BY Zenon, <1>i, <2>2, <2>16, CycleKeepsJobs
    <2> QED BY Zenon, <1>i, <2>2, <2>6, <2>7, <2>17, AppendKeepsLedger, AppendKeepsReport, SameMarket
  <1>4. CASE LoadPosition(d)
    <2> DEFINE p == SpotRow(ledger)
               i == Reading("reinit", j)
               h == [step |-> "manage", at |-> j.at, n |-> j.n, symbol |-> j.symbol,
                     position |-> p.position, folio |-> p.after, cursor |-> p.cursor]
    <2>1. /\ j.step = "load" /\ ledger' = ledger /\ now' = now /\ candles' = candles
          /\ report' = report
          /\ \/ job' = [job EXCEPT ![d] = [j EXCEPT !.step = "reinit"]]
             \/ p.position.left > 0 /\ job' = [job EXCEPT ![d] = h]
      BY Zenon, <1>4 DEF LoadPosition, Becomes, Holding
    <2>a. j # Idle
      BY <1>k, <2>1
    <2>2. j \in Readings /\ JobTrue(j, ledger, now)
      BY Zenon, <1>j, <2>1, <2>a, JobKinds
    <2>3. [j EXCEPT !.step = "reinit"] = i
      BY <2>2 DEF Readings, Reading
    <2>b. Lines(ledger, "SPOT") # {}
      BY <2>1, <2>2 DEF JobTrue
    <2>4. i \in Jobs /\ JobTrue(i, ledger', now')
      <3> HIDE DEF j
      <3> QED BY Zenon, <1>j, <1>t, <2>1, <2>a, <2>b, ReadingTrue
    <2>5. ASSUME p.position.left > 0
          PROVE  h \in Jobs /\ h # Idle /\ JobTrue(h, ledger', now')
      <3>2. p \in Movements
        BY Zenon, <1>i, <2>b, SpotFacts
      <3>3. p.position \in Positions \cup {NoPosition} /\ p.after \in Portfolios /\ p.cursor \in Nat
        BY Zenon, <3>2, MovementFields
      <3>4. p.position \in Positions
        BY <2>5, <3>3 DEF NoPosition
      <3>5. j.at \in Nat /\ j.n \in Nat /\ j.symbol \in DOMAIN Plans
        BY Zenon, <2>2 DEF Readings
      <3> HIDE DEF p, j
      <3>6. h \in Managings
        BY Zenon, <3>3, <3>4, <3>5 DEF Managings
      <3>7. h.step = "manage" /\ h.at = j.at /\ h.n = j.n /\ h.position = p.position
            /\ h.folio = p.after /\ h.cursor = p.cursor
        BY Zenon
      <3> HIDE DEF h
      <3>a. h.step \notin {"output", "record", "append"}
        BY <3>7
      <3>8. JobTrue(h, ledger', now')
        BY Zenon, <1>t, <2>1, <2>a, <2>b, <2>5, <3>7, <3>a DEF JobTrue, p
      <3>9. h # Idle
        BY <3>7 DEF Idle
      <3> QED BY Zenon, <3>6, <3>8, <3>9 DEF Jobs
    <2> HIDE DEF i, h
    <2>6. CASE job' = [job EXCEPT ![d] = i]
      BY Zenon, <1>r, <2>1, <2>4, <2>6
    <2>7. CASE p.position.left > 0 /\ job' = [job EXCEPT ![d] = h]
      BY Zenon, <1>r, <2>1, <2>5, <2>7
    <2> QED BY Zenon, <2>1, <2>3, <2>6, <2>7
  <1>5. CASE ManageCandle(d)
    <2>1. PICK r \in CandleRows(d) :
              /\ AppendMovement(r)
              /\ Becomes(d, IF r.position.left = 0
                            THEN Managed(j)
                            ELSE [j EXCEPT !.position = r.position, !.folio = r.after,
                                           !.cursor = r.cursor])
      BY Zenon, <1>5 DEF ManageCandle
    <2>2. now' = now /\ candles' = candles /\ report' = report
      BY Zenon, <1>5 DEF ManageCandle
    <2>3. j.step = "manage"
      BY Zenon, <2>1 DEF CandleRows
    <2>a. j # Idle
      BY <1>k, <2>3
    <2>4. j \in Managings /\ JobTrue(j, ledger, now)
      BY Zenon, <1>j, <1>k, <2>3, <2>a
    <2>5. Follows(r) /\ ~Known(r) /\ r.market = "SPOT" /\ r.cursor <= j.at /\ r.position \in Positions
          /\ r \in Movements
      BY Zenon, <1>i, <1>j, <2>3, <2>4, CandleFollows DEF Follows
    <2>6. ledger' = Append(ledger, r)
      BY Zenon, <2>1, <2>5 DEF AppendMovement
    <2>7. /\ \A k \in DOMAIN ledger' : ledger'[k].cursor <= j.at
          /\ Lines(ledger', "SPOT") # {} /\ SpotRow(ledger') = r
      <3>1. \A k \in DOMAIN ledger : ledger[k].cursor <= j.at
        BY Zenon, <2>4 DEF JobTrue
      <3> QED BY Zenon, <1>i, <2>5, <2>6, <3>1, AppendedFacts
    <2> DEFINE i == Reading("reinit", j)
               h == [j EXCEPT !.position = r.position, !.folio = r.after, !.cursor = r.cursor]
    <2>8. \/ job' = [job EXCEPT ![d] = i]
          \/ r.position.left # 0 /\ job' = [job EXCEPT ![d] = h]
      BY Zenon, <2>1 DEF Managed, Becomes
    <2>9. r.after \in Portfolios /\ r.cursor \in Nat /\ r.position.left \in Nat
      BY Zenon, <2>5, MovementFields, PositionFields
    <2>10. j.at <= now /\ j.n = j.at \div 2 /\ j.at \in Nat /\ j.n \in Nat /\ j.symbol \in DOMAIN Plans
      BY Zenon, <2>3, <2>4 DEF JobTrue, Managings
    <2>11. i \in Jobs /\ JobTrue(i, ledger', now')
      <3> HIDE DEF j
      <3> QED BY Zenon, <1>j, <2>2, <2>7, <2>10, <2>a, ReadingTrue
    <2>12. ASSUME r.position.left # 0
           PROVE  h \in Jobs /\ h # Idle /\ JobTrue(h, ledger', now')
      <3>1. h \in Managings
        BY Zenon, <2>4, <2>5, <2>9 DEF Managings
      <3>2. /\ h.step = "manage" /\ h.at = j.at /\ h.n = j.n /\ h.position = r.position
            /\ h.folio = r.after /\ h.cursor = r.cursor
        BY Zenon, <2>3, <2>4 DEF Managings
      <3>3. r.position.left > 0
        BY <2>9, <2>12
      <3> HIDE DEF h, j
      <3>a. h.step \notin {"output", "record", "append"}
        BY <3>2
      <3>4. JobTrue(h, ledger', now')
        BY Zenon, <2>2, <2>7, <2>10, <3>2, <3>3, <3>a DEF JobTrue
      <3>5. h # Idle
        BY <3>2 DEF Idle
      <3> QED BY Zenon, <3>1, <3>4, <3>5 DEF Jobs
    <2> HIDE DEF i, h
    <2>13. JobsInv'
      <3>1. CASE job' = [job EXCEPT ![d] = i]
        BY Zenon, <1>i, <2>11, <3>1, CycleKeepsJobs
      <3>2. CASE r.position.left # 0 /\ job' = [job EXCEPT ![d] = h]
        BY Zenon, <1>i, <2>12, <3>2, CycleKeepsJobs
      <3> QED BY Zenon, <2>8, <3>1, <3>2
    <2> QED BY <1>i, <2>2, <2>5, <2>6, <2>13, AppendKeepsLedger, AppendKeepsReport, SameMarket
  <1>6. CASE ManageEnds(d)
    <2> DEFINE i == Reading("reinit", j)
    <2>1. /\ j.step = "manage" /\ ledger' = ledger /\ now' = now /\ candles' = candles
          /\ report' = report /\ job' = [job EXCEPT ![d] = i]
      BY Zenon, <1>6 DEF ManageEnds, Managed, Becomes
    <2>2. j # Idle
      <3>1. j.step # "idle"
        BY ONLY <2>1
      <3> QED BY Zenon, <1>k, <3>1
    <2>3. Lines(ledger, "SPOT") # {}
      BY <1>j, <2>1, <2>2 DEF JobTrue
    <2>4. i \in Jobs /\ JobTrue(i, ledger', now')
      <3> HIDE DEF j
      <3> QED BY Zenon, <1>j, <1>t, <2>1, <2>2, <2>3, ReadingTrue
    <2> HIDE DEF i
    <2> QED BY Zenon, <1>r, <2>1, <2>4
  <1>7. CASE WriteOutputs(d)
    <2>1. /\ j.step = "output" /\ j.missing = {} /\ ledger' = ledger /\ now' = now
          /\ candles' = candles
          /\ report' = [count |-> Len(ledger), open |-> OpenSymbols, spot |-> j.folio]
          /\ \E i \in AfterOutput(j) : job' = [job EXCEPT ![d] = i]
      BY Zenon, <1>7 DEF WriteOutputs, Becomes
    <2>2. j # Idle
      BY <1>k, <2>1
    <2>3. j \in Outputs /\ JobTrue(j, ledger, now)
      BY Zenon, <1>j, <1>k, <2>1, <2>2
    <2>4. /\ Lines(ledger, "SPOT") # {} /\ j.folio = SpotRow(ledger).after
          /\ j.folio \in Portfolios /\ j.symbol \in DOMAIN Plans
      BY Zenon, <2>1, <2>3 DEF JobTrue, Outputs
    <2>5. ReportInv'
      BY Zenon, <1>i, <2>1, <2>4, WriteKeepsReport
    <2>6. ASSUME NEW s \in {"init", "load", "reinit", "build", "report"}
          PROVE  Reading(s, j) \in Jobs /\ JobTrue(Reading(s, j), ledger', now')
      <3> HIDE DEF j
      <3> QED BY Zenon, <1>j, <1>t, <2>1, <2>2, <2>4, ReadingTrue
    <2>7. ASSUME NEW i \in Decisions(j)
          PROVE  i \in Jobs /\ JobTrue(i, ledger', now')
      BY Zenon, <1>j, <1>t, <2>1, <2>2, <2>4, DecisionTrue
    <2>8. AfterOutput(j) \subseteq {Idle} \cup Decisions(j)
             \cup {Reading(s, j) : s \in {"init", "load", "reinit", "build", "report"}}
      BY Zenon DEF AfterOutput
    <2>9. PICK i \in AfterOutput(j) : job' = [job EXCEPT ![d] = i]
      BY Zenon, <2>1
    <2>10. i \in Jobs /\ (i # Idle => JobTrue(i, ledger', now'))
      BY Zenon, <1>b, <2>6, <2>7, <2>8, <2>9
    <2>11. JobsInv'
      BY Zenon, <1>i, <2>9, <2>10, CycleKeepsJobs
    <2> QED BY Zenon, <1>s, <2>1, <2>5, <2>11
  <1>8. CASE RecordCycle(d)
    <2> DEFINE i == Output("report", j, {}, Wallet)
               h == [j EXCEPT !.step = "append"]
    <2>1. /\ j.step = "record" /\ now' = now /\ candles' = candles /\ report' = report
          /\ ledger' = ledger /\ ~Drifted(j)
          /\ job' = [job EXCEPT ![d] = IF Wallet = j.after THEN i ELSE h]
      BY Zenon, <1>8 DEF RecordCycle, Becomes
    <2>2. j # Idle
      BY <1>k, <2>1
    <2>3. j \in Recordings /\ JobTrue(j, ledger, now)
      BY Zenon, <1>j, <1>k, <2>1, <2>2
    <2>4. Lines(ledger, "SPOT") # {}
      BY <2>1, <2>3 DEF JobTrue
    <2>5. SpotRow(ledger) \in Movements /\ Wallet \in Portfolios
      BY Zenon, <1>i, <2>4, SpotFacts, MovementFields DEF Wallet
    <2>6. i \in Jobs /\ JobTrue(i, ledger', now')
      <3> HIDE DEF j
      <3>1. "report" \in Calls /\ {} \in SUBSET {1, 2} /\ 1 \notin {}
        BY Zenon DEF Calls
      <3>2. \A x \in {} : Lines(ledger, Markets[x]) = {}
        OBVIOUS
      <3> QED BY Zenon, <1>j, <1>t, <2>1, <2>2, <2>4, <2>5, <3>1, <3>2, OutputTrue DEF Wallet
    <2>7. ASSUME Wallet # j.after PROVE h \in Jobs /\ JobTrue(h, ledger', now')
      <3>1. Wallet = j.before /\ ~Holding
        BY Zenon, <2>1, <2>7 DEF Drifted
      <3>2. SpotRow(ledger).position.left \in Nat
        <4> DEFINE pos == SpotRow(ledger).position
        <4>1. pos \in Positions \/ pos = NoPosition
          BY Zenon, <2>5, MovementFields
        <4>2. NoPosition.left \in Nat
          BY DEF NoPosition
        <4> QED BY Zenon, <4>1, <4>2, PositionFields
      <3>3. SpotRow(ledger).position.left = 0 /\ j.before = SpotRow(ledger).after
        BY <3>1, <3>2 DEF Holding, Wallet
      <3>4. h \in Recordings
        BY Zenon, <2>3 DEF Recordings
      <3>5. /\ h.step = "append" /\ h.at = j.at /\ h.n = j.n /\ h.symbol = j.symbol
            /\ h.plan = j.plan /\ h.before = j.before /\ h.after = j.after
        BY Zenon, <2>3 DEF Recordings
      <3>6. /\ j.plan \in Plans[j.symbol] /\ ~Blocked(j.before, j.plan)
            /\ j.after = AfterFill(j.before, j.plan)
        BY Zenon, <2>1, <2>3 DEF JobTrue
      <3> HIDE DEF h, j
      <3>7. h.step \notin {"output", "manage"}
        BY <3>5
      <3>8. JobTrue(h, ledger', now')
        BY Zenon, <1>t, <2>1, <2>2, <2>4, <3>3, <3>5, <3>6, <3>7 DEF JobTrue
      <3> QED BY Zenon, <3>4, <3>8 DEF Jobs
    <2> HIDE DEF i, h
    <2>8. CASE Wallet = j.after
      BY Zenon, <1>r, <2>1, <2>6, <2>8
    <2>9. CASE Wallet # j.after
      BY Zenon, <1>r, <2>1, <2>7, <2>9
    <2> QED BY Zenon, <2>8, <2>9
  <1>9. CASE RecordMovement(d)
    <2> DEFINE i == Output("report", j, {}, j.after)
    <2>1. PICK r \in OpenRows(d) : AppendMovement(r)
      BY Zenon, <1>9 DEF RecordMovement
    <2>2. now' = now /\ candles' = candles /\ report' = report /\ job' = [job EXCEPT ![d] = i]
      BY Zenon, <1>9 DEF RecordMovement, Becomes
    <2>3. j.step = "append"
      BY Zenon, <2>1 DEF OpenRows
    <2>4. j # Idle
      BY <1>k, <2>3
    <2>5. j \in Recordings /\ JobTrue(j, ledger, now)
      BY Zenon, <1>j, <1>k, <2>3, <2>4
    <2>6. /\ Follows(r) /\ ~Known(r) /\ r.market = "SPOT" /\ r.cursor = j.at /\ r.after = j.after
          /\ r \in Movements
      BY Zenon, <1>i, <1>j, <2>3, <2>5, OpenFollows DEF Follows
    <2>7. ledger' = Append(ledger, r)
      BY Zenon, <2>1, <2>6 DEF AppendMovement
    <2>8. r.cursor <= j.at
      BY <1>k, <2>4, <2>6
    <2>9. /\ \A k \in DOMAIN ledger' : ledger'[k].cursor <= j.at
          /\ Lines(ledger', "SPOT") # {} /\ SpotRow(ledger') = r
      BY Zenon, <1>i, <1>t, <2>4, <2>6, <2>7, <2>8, AppendedFacts
    <2>10. j.after \in Portfolios
      BY Zenon, <2>5 DEF Recordings
    <2> HIDE DEF j
    <2>11. i \in Jobs /\ JobTrue(i, ledger', now')
      <3>1. "report" \in Calls /\ {} \in SUBSET {1, 2} /\ 1 \notin {}
        BY Zenon DEF Calls
      <3>2. \A x \in {} : Lines(ledger', Markets[x]) = {}
        OBVIOUS
      <3> QED BY Zenon, <1>j, <1>t, <2>2, <2>4, <2>6, <2>9, <2>10, <3>1, <3>2, OutputTrue
    <2> HIDE DEF i
    <2>12. JobsInv'
      BY Zenon, <1>i, <2>2, <2>11, CycleKeepsJobs
    <2> QED BY Zenon, <1>i, <2>2, <2>6, <2>7, <2>12, AppendKeepsLedger, AppendKeepsReport, SameMarket
  <1> QED
    BY Zenon, <1>1, <1>2, <1>3, <1>4, <1>5, <1>6, <1>7, <1>8, <1>9 DEF CycleStep


-----------------------------------------------------------------------------
(* The steps of the daemons and of the market. *)

\* The place of a scan.
Places == [seq : 0 .. ScanEvery - 1, last : 0 .. Len(Symbols)]

\* The scan goes to one of the symbols.
LEMMA ScanFacts ==
  ASSUME NEW s \in Places, NEW lane, NEW i \in DOMAIN Symbols
  PROVE  After(s, lane, i) \in Places /\ Symbols[i] \in DOMAIN Plans
PROOF
  <1>1. /\ Symbols \in Seq(DOMAIN Plans) /\ ScanEvery \in Nat \ {0}
    BY Zenon, DaemonAssumption
  <1>2. Len(Symbols) \in Nat /\ i \in 1 .. Len(Symbols) /\ Symbols[i] \in DOMAIN Plans
    BY <1>1
  <1>3. s.seq \in 0 .. ScanEvery - 1 /\ s.last \in 0 .. Len(Symbols)
    BY Zenon DEF Places
  <1>4. Turn(s) \in 0 .. ScanEvery - 1
    BY <1>1, <1>3 DEF Turn
  <1>5. (IF lane = "DISCOVERY" THEN i ELSE s.last) \in 0 .. Len(Symbols)
    BY <1>2, <1>3
  <1>6. After(s, lane, i) \in Places
    BY Zenon, <1>4, <1>5 DEF After, Places
  <1> QED BY Zenon, <1>2, <1>6

LEMMA ScanTypes ==
  ScanInv <=> saved \in Places /\ scan \in [Daemons -> Places]
PROOF
  BY Zenon DEF ScanInv, Places

LEMMA StartPlace == ScanStart \in Places
PROOF
  <1>1. 0 \in 0 .. ScanEvery - 1 /\ 0 \in 0 .. Len(Symbols)
    BY DaemonAssumption
  <1> QED BY Zenon, <1>1 DEF ScanStart, Places

\* A lease that is left alone.
LEMMA SameLease ==
  ASSUME LeaseInv, UNCHANGED leaseVars
  PROVE  LeaseInv'
PROOF
  BY Zenon DEF leaseVars, LeaseInv, LeaseTypeOK, OneAcquires, NamesDiffer, HolderNamed, CreatorWrites,
     StaleStays, Live

\* A step of the lease by a daemon that runs no cycle, or whose cycle it ends.
LEMMA LeaseKeepsJobs ==
  ASSUME JobsInv, NEW d \in Daemons, Elsewhere(d), ledger' = ledger, now' = now,
         (job' = job /\ job[d] = Idle) \/ job' = [job EXCEPT ![d] = Idle]
  PROVE  JobsInv'
PROOF
  <1>1. job \in [Daemons -> Jobs] /\ Idle \in Jobs
    BY Zenon DEF JobsInv, Jobs
  <1>2. job' \in [Daemons -> Jobs] /\ job'[d] = Idle /\ \A x \in Daemons \ {d} : job'[x] = job[x]
    BY Zenon, <1>1
  <1>3. \A x \in Daemons \ {d} : phase'[x] = phase[x]
    BY Zenon DEF Elsewhere
  <1>4. ASSUME NEW x \in Daemons, job'[x] # Idle
        PROVE  phase'[x] = "held" /\ JobTrue(job'[x], ledger', now')
    <2>1. x # d /\ job'[x] = job[x] /\ phase'[x] = phase[x]
      BY Zenon, <1>2, <1>3, <1>4
    <2>2. phase[x] = "held" /\ JobTrue(job[x], ledger, now)
      BY Zenon, <1>4, <2>1 DEF JobsInv
    <2> QED BY Zenon, <2>1, <2>2
  <1> QED BY Zenon, <1>2, <1>4 DEF JobsInv

\* The market prints a candle: what the ledger says of the closed ones stays true.
LEMMA TickInv ==
  ASSUME DaemonInv, Tick, phase' = phase
  PROVE  MarketInv' /\ LedgerInv' /\ JobsInv' /\ ReportInv'
PROOF
  <1>1. /\ now \in Nat /\ now < MaxTime /\ MaxTime \in Nat /\ candles \in Seq(Candles)
        /\ Len(candles) = now \div 2 /\ now \in 0 .. MaxTime
    BY WalletAssumption DEF DaemonInv, MarketInv, Tick
  <1>2. now' = now + 1 /\ ledger' = ledger /\ report' = report /\ job' = job
    BY Zenon DEF Tick
  <1>3. /\ candles' \in Seq(Candles) /\ Len(candles') = now' \div 2
        /\ Len(candles) <= Len(candles')
        /\ \A i \in 1 .. Len(candles) : candles'[i] = candles[i]
    <2>1. CASE now' % 2 = 0
      <3>1. PICK c \in Candles : candles' = Append(candles, c)
        BY Zenon, <2>1 DEF Tick
      <3>2. Len(candles') = Len(candles) + 1
        BY <1>1, <3>1
      <3>3. now' \div 2 = now \div 2 + 1
        BY <1>1, <1>2, <2>1
      <3> QED BY <1>1, <3>1, <3>2, <3>3
    <2>2. CASE now' % 2 # 0
      <3>1. candles' = candles
        BY Zenon, <2>2 DEF Tick
      <3>2. now' \div 2 = now \div 2
        BY <1>1, <1>2, <2>2
      <3> QED BY <1>1, <3>1, <3>2
    <2> QED BY Zenon, <2>1, <2>2
  <1>4. MarketInv'
    BY <1>1, <1>2, <1>3 DEF MarketInv
  <1>5. ASSUME NEW i \in DOMAIN ledger, ledger[i].id.kind = "candle"
        PROVE  CandleApplied(ledger[Max(Earlier(ledger, i))], ledger[i])'
    <2> DEFINE p == ledger[Max(Earlier(ledger, i))]
               c == NextCandle(p.cursor)
    <2>1. CandleApplied(p, ledger[i])
      BY Zenon, <1>5 DEF DaemonInv, LedgerInv, CandlesOnce
    <2>2. Earlier(ledger, i) # {}
      BY Zenon, <1>5 DEF DaemonInv, LedgerInv, Readable
    <2>3. p \in Movements
      BY <2>2, LastEarlier DEF DaemonInv, LedgerInv
    <2>4. p.cursor \in Nat
      BY Zenon, <2>3, MovementFields
    <2>5. /\ p.position.left > 0 /\ c <= Len(candles) /\ ledger[i].cursor = ClosesAt(c)
          /\ ledger[i].position = AfterCandle(p.position, candles[c])
      BY Zenon, <2>1 DEF CandleApplied
    <2>6. c \in Nat /\ 1 <= c
      BY <2>4 DEF NextCandle
    <2>7. c <= Len(candles') /\ candles'[c] = candles[c]
      <3> HIDE DEF c
      <3>1. Len(candles) \in Nat /\ Len(candles') \in Nat
        BY <1>1, <1>3
      <3>2. c \in 1 .. Len(candles)
        BY <2>5, <2>6, <3>1
      <3> QED BY <1>3, <2>6, <3>1, <3>2
    <2>8. ledger'[Max(Earlier(ledger', i))] = p /\ ledger'[i] = ledger[i]
      BY Zenon, <1>2
    <2> HIDE DEF p
    <2> QED BY Zenon, <2>5, <2>7, <2>8 DEF CandleApplied
  <1>6. LedgerInv'
    <2>1. CandlesOnce'
      BY Zenon, <1>2, <1>5 DEF CandlesOnce
    <2>2. \A i \in DOMAIN ledger : ledger[i].cursor <= now'
      <3>1. \A i \in DOMAIN ledger : ledger[i].cursor \in Nat /\ ledger[i].cursor <= now
        BY MovementFields DEF DaemonInv, LedgerInv
      <3> QED BY <1>1, <1>2, <3>1
    <2> QED BY Zenon, <1>2, <2>1, <2>2 DEF DaemonInv, LedgerInv
  <1>7. JobsInv'
    <2>1. ASSUME NEW x \in Daemons, job[x] # Idle
          PROVE  phase[x] = "held" /\ JobTrue(job[x], ledger, now')
      <3>1. phase[x] = "held" /\ JobTrue(job[x], ledger, now) /\ job[x] \in Jobs
        BY Zenon, <2>1 DEF DaemonInv, JobsInv
      <3>2. job[x].at \in Nat
        BY Zenon, <2>1, <3>1, JobKinds
      <3>3. job[x].at <= now'
        BY <1>1, <1>2, <3>1, <3>2 DEF JobTrue
      <3> QED BY Zenon, <3>1, <3>3 DEF JobTrue
    <2> QED BY Zenon, <1>2, <2>1 DEF DaemonInv, JobsInv
  <1>8. ReportInv'
    BY Zenon, <1>2, SameReport DEF DaemonInv
  <1> QED BY Zenon, <1>4, <1>6, <1>7, <1>8

\* A cycle begins with a snapshot taken now.
LEMMA BeginInv ==
  ASSUME DaemonInv, NEW d \in Daemons, phase[d] = "held", phase' = phase,
         NEW symbol \in DOMAIN Plans, BeginCycle(d, symbol)
  PROVE  MarketInv' /\ LedgerInv' /\ JobsInv' /\ ReportInv'
PROOF
  <1> DEFINE j == [step |-> "init", at |-> now, n |-> Len(candles), symbol |-> symbol]
  <1>1. /\ job' = [job EXCEPT ![d] = j] /\ now' = now /\ candles' = candles
        /\ ledger' = ledger /\ report' = report
    BY Zenon DEF BeginCycle, Becomes
  <1>2. now \in Nat /\ Len(candles) \in Nat /\ Len(candles) = now \div 2
    BY WalletAssumption DEF DaemonInv, MarketInv
  <1>3. j \in Readings /\ j.step = "init" /\ j.at = now /\ j.n = Len(candles)
    BY Zenon, <1>2 DEF Readings
  <1> HIDE DEF j
  <1>4. JobTrue(j, ledger', now')
    BY <1>1, <1>2, <1>3 DEF DaemonInv, LedgerInv, JobTrue
  <1>5. j \in Jobs
    BY Zenon, <1>3 DEF Jobs
  <1>6. JobsInv'
    BY Zenon, <1>1, <1>4, <1>5, CycleKeepsJobs DEF DaemonInv
  <1> QED BY Zenon, <1>1, <1>6, SameLedger, SameMarket, SameReport DEF DaemonInv

\* A step of a daemon's lease leaves the wallet alone.
LEMMA LeaseOnlyInv ==
  ASSUME DaemonInv, NEW d \in Daemons, Start(d) \/ AcquireStep(d) \/ Release(d) \/ Die(d),
         (job' = job /\ job[d] = Idle) \/ job' = [job EXCEPT ![d] = Idle],
         now' = now, candles' = candles, ledger' = ledger, report' = report
  PROVE  MarketInv' /\ LedgerInv' /\ JobsInv' /\ ReportInv'
PROOF
  <1>1. Elsewhere(d)
    BY Zenon, LeaseStepIsLocal DEF DaemonInv, LeaseInv
  <1>2. JobsInv'
    BY Zenon, <1>1, LeaseKeepsJobs DEF DaemonInv
  <1> QED BY Zenon, <1>2, SameLedger, SameMarket, SameReport DEF DaemonInv

\* Every step of the daemons and of the market keeps the invariant.
LEMMA DaemonStepInv ==
  ASSUME DaemonInv, Next
  PROVE  DaemonInv'
PROOF
  <1>l. LeaseInv'
    BY Zenon, DaemonStepOfLease, LeaseStep, SameLease DEF DaemonInv
  <1>p. saved \in Places /\ scan \in [Daemons -> Places]
    BY Zenon, ScanTypes DEF DaemonInv
  <1>j. \A x \in Daemons : job[x] # Idle => phase[x] = "held"
    BY Zenon DEF DaemonInv, JobsInv
  <1> SUFFICES MarketInv' /\ LedgerInv' /\ JobsInv' /\ ReportInv'
               /\ saved' \in Places /\ scan' \in [Daemons -> Places]
    <2>1. ScanInv' <=> saved' \in Places /\ scan' \in [Daemons -> Places]
      BY Zenon DEF ScanInv, Places
    <2> QED BY Zenon, <1>l, <2>1 DEF DaemonInv
  <1>1. CASE MarketMoves
    <2>1. Tick /\ phase' = phase /\ saved' = saved /\ scan' = scan
      BY Zenon, <1>1 DEF MarketMoves, leaseVars
    <2> QED BY Zenon, <1>p, <2>1, TickInv
  <1>2. ASSUME NEW d \in Daemons, StartDaemon(d)
        PROVE  MarketInv' /\ LedgerInv' /\ JobsInv' /\ ReportInv'
               /\ saved' \in Places /\ scan' \in [Daemons -> Places]
    <2>1. /\ Start(d) /\ scan' = [scan EXCEPT ![d] = saved] /\ saved' = saved
          /\ job' = job /\ now' = now /\ candles' = candles /\ ledger' = ledger /\ report' = report
      BY Zenon, <1>2 DEF StartDaemon, walletVars
    <2>2. job[d] = Idle
      BY Zenon, <1>j, <2>1 DEF Start
    <2>3. scan' \in [Daemons -> Places]
      BY Zenon, <1>p, <2>1
    <2> QED BY Zenon, <1>p, <2>1, <2>2, <2>3, LeaseOnlyInv
  <1>3. ASSUME NEW d \in Daemons, Acquire(d)
        PROVE  MarketInv' /\ LedgerInv' /\ JobsInv' /\ ReportInv'
               /\ saved' \in Places /\ scan' \in [Daemons -> Places]
    <2>1. /\ AcquireStep(d) /\ scan' = scan /\ saved' = saved
          /\ job' = job /\ now' = now /\ candles' = candles /\ ledger' = ledger /\ report' = report
      BY Zenon, <1>3 DEF Acquire, walletVars
    <2>2. phase[d] # "held"
      BY Zenon, <2>1 DEF AcquireStep, LookForFile, ReadOwner, ProbeOwner, RemoveStale, CreateFile, WriteOwner
    <2>3. job[d] = Idle
      BY Zenon, <1>j, <2>2
    <2> QED BY Zenon, <1>p, <2>1, <2>3, LeaseOnlyInv
  <1>4. ASSUME NEW d \in Daemons, Scan(d)
        PROVE  MarketInv' /\ LedgerInv' /\ JobsInv' /\ ReportInv'
               /\ saved' \in Places /\ scan' \in [Daemons -> Places]
    <2>0. PICK lane \in Lanes, i \in DOMAIN Symbols : ScanSymbol(d, lane, i)
      BY Zenon, <1>4 DEF Scan
    <2>1. /\ phase[d] = "held" /\ phase' = phase /\ saved' = saved
          /\ scan' = [scan EXCEPT ![d] = After(scan[d], lane, i)]
          /\ BeginCycle(d, Symbols[i])
      BY Zenon, <2>0 DEF ScanSymbol, leaseVars
    <2>2. scan[d] \in Places
      BY Zenon, <1>p
    <2>3. After(scan[d], lane, i) \in Places /\ Symbols[i] \in DOMAIN Plans
      BY Zenon, <2>2, ScanFacts
    <2>4. MarketInv' /\ LedgerInv' /\ JobsInv' /\ ReportInv'
      BY Zenon, <2>1, <2>3, BeginInv
    <2>5. scan' \in [Daemons -> Places]
      BY Zenon, <1>p, <2>1, <2>3
    <2> QED BY Zenon, <1>p, <2>1, <2>4, <2>5
  <1>5. ASSUME NEW d \in Daemons, Skip(d) \/ NoSymbol(d)
        PROVE  MarketInv' /\ LedgerInv' /\ JobsInv' /\ ReportInv'
               /\ saved' \in Places /\ scan' \in [Daemons -> Places]
    <2>1. /\ phase' = phase /\ job' = job /\ now' = now /\ candles' = candles
          /\ ledger' = ledger /\ report' = report
      BY Zenon, <1>5 DEF Skip, NoSnapshot, NoSymbol, leaseVars, walletVars
    <2>2. MarketInv' /\ LedgerInv' /\ ReportInv'
      BY Zenon, <2>1, SameLedger, SameMarket, SameReport DEF DaemonInv
    <2>3. JobsInv'
      BY Zenon, <2>1 DEF DaemonInv, JobsInv
    <2>4. PICK place \in Places :
             \/ scan' = [scan EXCEPT ![d] = place] /\ saved' = scan'[d]
             \/ scan' = scan /\ saved' = place
      <3>1. CASE Skip(d)
        <4>1. PICK lane \in Lanes, i \in DOMAIN Symbols : NoSnapshot(d, lane, i)
          BY Zenon, <3>1 DEF Skip
        <4>2. After(scan[d], lane, i) \in Places
          BY Zenon, <1>p, ScanFacts
        <4> QED BY Zenon, <4>1, <4>2 DEF NoSnapshot
      <3>2. CASE NoSymbol(d)
        BY Zenon, <3>2, StartPlace DEF NoSymbol
      <3> QED BY Zenon, <1>5, <3>1, <3>2
    <2>6. saved' \in Places /\ scan' \in [Daemons -> Places]
      BY Zenon, <1>p, <2>4
    <2> QED BY Zenon, <2>2, <2>3, <2>6
  <1>6. ASSUME NEW d \in Daemons, RunCycle(d)
        PROVE  MarketInv' /\ LedgerInv' /\ JobsInv' /\ ReportInv'
               /\ saved' \in Places /\ scan' \in [Daemons -> Places]
    <2>1. phase[d] = "held" /\ phase' = phase /\ CycleStep(d)
      BY Zenon, <1>6 DEF RunCycle, leaseVars
    <2>2. saved' \in {scan[d], saved} /\ scan' = scan
      BY Zenon, <1>6 DEF RunCycle
    <2>3. MarketInv' /\ LedgerInv' /\ JobsInv' /\ ReportInv'
      BY Zenon, <2>1, CycleInv
    <2> QED BY Zenon, <1>p, <2>2, <2>3
  <1>7. ASSUME NEW d \in Daemons, Stop(d)
        PROVE  MarketInv' /\ LedgerInv' /\ JobsInv' /\ ReportInv'
               /\ saved' \in Places /\ scan' \in [Daemons -> Places]
    <2>1. /\ Release(d) /\ job[d] = Idle /\ scan' = [scan EXCEPT ![d] = ScanStart] /\ saved' = saved
          /\ job' = job /\ now' = now /\ candles' = candles /\ ledger' = ledger /\ report' = report
      BY Zenon, <1>7 DEF Stop, walletVars
    <2>2. scan' \in [Daemons -> Places]
      BY Zenon, <1>p, <2>1, StartPlace
    <2> QED BY Zenon, <1>p, <2>1, <2>2, LeaseOnlyInv
  <1>8. ASSUME NEW d \in Daemons, Crash(d)
        PROVE  MarketInv' /\ LedgerInv' /\ JobsInv' /\ ReportInv'
               /\ saved' \in Places /\ scan' \in [Daemons -> Places]
    <2>1. /\ Die(d) /\ scan' = [scan EXCEPT ![d] = ScanStart] /\ saved' = saved
          /\ job' = [job EXCEPT ![d] = Idle] /\ now' = now /\ candles' = candles
          /\ ledger' = ledger /\ report' = report
      BY Zenon, <1>8 DEF Crash, Tear, Becomes
    <2>2. scan' \in [Daemons -> Places]
      BY Zenon, <1>p, <2>1, StartPlace
    <2> QED BY Zenon, <1>p, <2>1, <2>2, LeaseOnlyInv
  <1> QED
    BY Zenon, <1>1, <1>2, <1>3, <1>4, <1>5, <1>6, <1>7, <1>8 DEF Next, DaemonStep


\* The ledger changes when a cycle appends the movement its step stands for.
LEMMA LedgerChanges ==
  ASSUME Next, ledger' # ledger
  PROVE  \E d \in Daemons : \E r \in GenesisRows(d) \cup CandleRows(d) \cup OpenRows(d) :
            ~Known(r) /\ ledger' = Append(ledger, r)
PROOF
  <1>1. PICK d \in Daemons : CycleStep(d)
    <2>1. ~MarketMoves
      BY Zenon DEF MarketMoves, Tick
    <2>2. ASSUME NEW d \in Daemons,
                 StartDaemon(d) \/ Acquire(d) \/ Scan(d) \/ Skip(d) \/ NoSymbol(d)
                 \/ Stop(d) \/ Crash(d)
          PROVE  FALSE
      BY Zenon, <2>2 DEF StartDaemon, Acquire, Scan, ScanSymbol, BeginCycle, Skip, NoSnapshot, NoSymbol,
         Stop, Crash, Tear, walletVars
    <2>3. \E d \in Daemons : RunCycle(d)
      BY Zenon, <2>1, <2>2 DEF Next, DaemonStep
    <2> QED BY Zenon, <2>3 DEF RunCycle
  <1>2. Genesis(d) \/ ManageCandle(d) \/ RecordMovement(d)
    BY Zenon, <1>1 DEF CycleStep, CycleFails, Recover, WriteOutputs, LoadPosition, ManageEnds,
       RecordCycle
  <1>3. PICK r \in GenesisRows(d) \cup CandleRows(d) \cup OpenRows(d) : AppendMovement(r)
    BY Zenon, <1>2 DEF Genesis, ManageCandle, RecordMovement
  <1>4. ~Known(r) /\ ledger' = Append(ledger, r)
    BY Zenon, <1>3 DEF AppendMovement
  <1> QED BY Zenon, <1>3, <1>4

\* No movement is appended to a halted Spot wallet.
LEMMA HaltedStays ==
  ASSUME DaemonInv, Next, Halted
  PROVE  Lines(ledger', "SPOT") = Lines(ledger, "SPOT")
PROOF
  <1>i. LedgerInv /\ MarketInv /\ JobsInv
    BY Zenon DEF DaemonInv
  <1>h. /\ MaxLosses > 0 /\ Lines(ledger, "SPOT") # {} /\ Wallet.losses >= MaxLosses
        /\ MaxLosses \in Nat
    BY Zenon, WalletAssumption DEF Halted
  <1> SUFFICES ASSUME ledger' # ledger
               PROVE  Lines(ledger', "SPOT") = Lines(ledger, "SPOT")
    BY Zenon
  <1>0. PICK d \in Daemons : \E r \in GenesisRows(d) \cup CandleRows(d) \cup OpenRows(d) :
            ~Known(r) /\ ledger' = Append(ledger, r)
    BY Zenon, LedgerChanges
  <1>1. PICK r \in GenesisRows(d) \cup CandleRows(d) \cup OpenRows(d) :
            ~Known(r) /\ ledger' = Append(ledger, r)
    BY Zenon, <1>0
  <1>2. job[d] \in Jobs /\ (job[d] # Idle => JobTrue(job[d], ledger, now))
    BY Zenon, <1>i DEF JobsInv
  <1>3. CASE r \in GenesisRows(d)
    <2>a. job[d].step = "output"
      BY Zenon, <1>3 DEF GenesisRows
    <2>b. job[d] # Idle
      BY <2>a DEF Idle
    <2>1. Follows(r) /\ Lines(ledger, r.market) = {} /\ r \in Movements /\ ledger \in Seq(Movements)
      BY Zenon, <1>2, <1>3, <1>i, <2>a, <2>b, GenesisFollows DEF Follows, LedgerInv
    <2>2. r.market # "SPOT"
      BY Zenon, <1>h, <2>1
    <2>3. Extended(ledger, r, ledger')
      BY Zenon, <1>1, <2>1, Appended
    <2> QED BY <2>1, <2>2, <2>3, AppendedLines
  <1>4. CASE r \in CandleRows(d)
    <2>1. job[d].step = "manage"
      BY Zenon, <1>4 DEF CandleRows
    <2>2. job[d] # Idle
      BY <2>1 DEF Idle
    <2>3. SpotRow(ledger).position.left > 0
      BY Zenon, <1>2, <2>1, <2>2 DEF JobTrue
    <2>4. SpotRow(ledger) \in Movements /\ MovementTrue(SpotRow(ledger))
      BY Zenon, <1>h, <1>i, SpotFacts
    <2>5. SpotRow(ledger).after.losses < MaxLosses
      BY Zenon, <1>h, <2>3, <2>4 DEF MovementTrue, FolioTrue
    <2>6. SpotRow(ledger).after.losses \in Nat
      BY Zenon, <2>4, MovementFields, FolioFields
    <2> QED BY <1>h, <2>5, <2>6 DEF Wallet
  <1>5. CASE r \in OpenRows(d)
    <2>1. job[d].step = "append"
      BY Zenon, <1>5 DEF OpenRows
    <2>2. job[d] # Idle
      BY <2>1 DEF Idle
    <2>3. ~(Wallet.losses >= MaxLosses)
      BY Zenon, <1>2, <1>5, <1>h, <1>i, <2>1, <2>2, OpenFollows
    <2> QED BY Zenon, <1>h, <2>3
  <1> QED BY Zenon, <1>1, <1>3, <1>4, <1>5

-----------------------------------------------------------------------------
(* The theorems about the wallet. *)

\* The invariant holds in every behaviour of the daemons and of the market.
THEOREM DaemonInvariant == Spec => []DaemonInv
PROOF
  <1>1. Init => DaemonInv
    <2> SUFFICES ASSUME Init PROVE DaemonInv
      BY Zenon
    <2>1. LeaseInv
      BY LeaseAssumption DEF Init, LeaseInit, LeaseInv, LeaseTypeOK, NoLock, Phases, Acquiring,
         OneAcquires, NamesDiffer, HolderNamed, CreatorWrites, StaleStays
    <2>2. /\ now = 0 /\ candles = <<>> /\ ledger = <<>> /\ report = NoReport
          /\ job = [w \in Daemons |-> Idle]
      BY Zenon, DaemonAssumption DEF Init, WalletInit
    <2>3. MarketInv
      BY <2>2, WalletAssumption DEF MarketInv
    <2>4. ScanInv
      BY Zenon, StartPlace, ScanTypes DEF Init
    <2>5. LedgerInv
      BY <2>2 DEF LedgerInv, Readable, CandlesOnce
    <2>6. JobsInv
      BY Zenon, <2>2 DEF JobsInv, Jobs
    <2>7. ReportInv
      <3>1. report.count = 0 /\ report.open = {} /\ report.spot = InitialPortfolio
        BY Zenon, <2>2 DEF NoReport
      <3>2. 0 \in 0 .. Len(ledger)
        BY <2>2
      <3> QED BY Zenon, <2>2, <3>1, <3>2, InitialTrue DEF ReportInv, ReportTrue
    <2> QED BY Zenon, <2>1, <2>3, <2>4, <2>5, <2>6, <2>7 DEF DaemonInv
  <1>2. DaemonInv /\ [Next]_daemonVars => DaemonInv'
    <2> SUFFICES ASSUME DaemonInv, [Next]_daemonVars PROVE DaemonInv'
      BY Zenon
    <2>1. CASE Next
      BY Zenon, <2>1, DaemonStepInv
    <2>2. CASE UNCHANGED daemonVars
      <3>1. /\ UNCHANGED leaseVars /\ now' = now /\ candles' = candles /\ ledger' = ledger
            /\ report' = report /\ job' = job /\ scan' = scan /\ saved' = saved
        BY Zenon, <2>2 DEF daemonVars, walletVars
      <3>2. LeaseInv' /\ MarketInv' /\ LedgerInv' /\ ReportInv'
        BY Zenon, <3>1, SameLease, SameMarket, SameLedger, SameReport DEF DaemonInv
      <3>3. phase' = phase
        BY Zenon, <3>1 DEF leaseVars
      <3>4. JobsInv' /\ ScanInv'
        BY Zenon, <3>1, <3>3 DEF DaemonInv, JobsInv, ScanInv
      <3> QED BY Zenon, <3>2, <3>4 DEF DaemonInv
    <2> QED BY Zenon, <2>1, <2>2
  <1> QED BY <1>1, <1>2, PTL DEF Spec

\* _read_movements accepts the ledger at all times, whenever cycles are cut short.
THEOREM LedgerIsReadable == Spec => []LedgerReadable
PROOF
  <1>1. DaemonInv => LedgerReadable
    BY Zenon DEF DaemonInv, LedgerInv, LedgerReadable
  <1> QED BY <1>1, DaemonInvariant, PTL

\* manage_positions applies the closed candles in order, each of them once.
THEOREM CandlesApplyOnce == Spec => []CandlesOnce
PROOF
  <1>1. DaemonInv => CandlesOnce
    BY Zenon DEF DaemonInv, LedgerInv
  <1> QED BY <1>1, DaemonInvariant, PTL

\* The wallet adds up after every movement: _spot_portfolio_after_fill and
\* _spot_portfolio_after_position_update lose nothing and make nothing up, for
\* any prices, quantities, fees and slippage.
THEOREM WalletBalances == Spec => []WalletAddsUp
PROOF
  <1>1. DaemonInv => WalletAddsUp
    <2> SUFFICES ASSUME DaemonInv, NEW i \in DOMAIN ledger
                 PROVE  LET f == ledger[i].after
                            pos == ledger[i].position
                            uncharged == IF pos.left > 0 THEN pos.entry * pos.left * Fee * Den ELSE 0
                        IN  /\ f.cash + f.basis + uncharged = Money(InitialCash) + f.realized
                            /\ f.equity = f.cash + f.basis + f.unrealized
                            /\ f.cash >= 0
      BY Zenon DEF WalletAddsUp, Range
    <2>1. FolioTrue(ledger[i].after, ledger[i].position)
      BY Zenon DEF DaemonInv, LedgerInv, MovementTrue
    <2> QED BY Zenon, <2>1 DEF FolioTrue
  <1> QED BY <1>1, DaemonInvariant, PTL

\* The state file is of one moment of the ledger: _write_outputs counts movements
\* it reads itself and writes balances that were read before, and whatever the
\* plans, fees, crashes and restarts, no movement of another cycle comes between.
THEOREM ReportIsTrue == Spec => []ReportTrue
PROOF
  <1>1. DaemonInv => ReportTrue
    BY Zenon DEF DaemonInv, ReportInv
  <1> QED BY <1>1, DaemonInvariant, PTL

\* The types of the daemon's state: portfolios stay portfolios, and the scan
\* stays inside the symbols.
THEOREM DaemonTypes == Spec => []DaemonTypeOK
PROOF
  <1>1. DaemonInv => DaemonTypeOK
    <2> SUFFICES ASSUME DaemonInv PROVE DaemonTypeOK
      BY Zenon
    <2>1. LeaseTypeOK
      BY Zenon DEF DaemonInv, LeaseInv
    <2>2. now \in 0 .. MaxTime /\ candles \in Seq(Candles) /\ Len(candles) = now \div 2
      BY Zenon DEF DaemonInv, MarketInv
    <2>3. \A r \in Range(ledger) : r \in Movements
      BY DEF DaemonInv, LedgerInv, Range
    <2>4. \A r \in Range(ledger) : r.before \in Portfolios /\ r.after \in Portfolios
      BY Zenon, <2>3, MovementFields
    <2>5. report.spot \in Portfolios /\ report.open \subseteq DOMAIN Plans
      BY Zenon DEF DaemonInv, ReportInv
    <2>6. \A s \in {saved} \cup {scan[d] : d \in Daemons} : s \in Places
      BY Zenon, ScanTypes DEF DaemonInv
    <2>7. \A s \in {saved} \cup {scan[d] : d \in Daemons} :
             s.seq \in 0 .. ScanEvery - 1 /\ s.last \in 0 .. Len(Symbols)
      BY Zenon, <2>6 DEF Places
    <2> QED BY Zenon, <2>1, <2>2, <2>4, <2>5, <2>7 DEF DaemonTypeOK
  <1> QED BY <1>1, DaemonInvariant, PTL

\* A wallet that lost maximum_consecutive_losses times in a row never trades again.
THEOREM HaltStands == Spec => HaltIsFinal
PROOF
  <1>1. DaemonInv /\ [Next]_daemonVars =>
           [Halted => Lines(ledger', "SPOT") = Lines(ledger, "SPOT")]_daemonVars
    BY Zenon, HaltedStays
  <1> QED BY <1>1, DaemonInvariant, PTL DEF Spec, HaltIsFinal
=============================================================================
