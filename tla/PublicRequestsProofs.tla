------------------------ MODULE PublicRequestsProofs ------------------------
(* The budget of PublicRequests for any number of workers, any requests, any  *)
(* windows and bands: what is granted in a window, and when.                  *)
EXTENDS PublicRequests, Sequences, WellFoundedInduction, TLAPS

-----------------------------------------------------------------------------
(* The exchange's windows. *)

\* A tick that does not begin a window leaves its start where it is.
LEMMA DivisionIsUnique ==
    ASSUME NEW i \in Nat \ {0}, NEW q \in Int, NEW p \in Int, NEW r \in 0..(i - 1),
           NEW s \in 0..(i - 1), i * q + r = i * p + s
    PROVE  q = p
  <1>1. i * (q - p) = s - r
    OBVIOUS
  <1>2. CASE q - p >= 1
    <2>1. i * (q - p) >= i
      BY <1>2
    <2> QED
      BY <1>1, <2>1
  <1>3. CASE q - p <= -1
    <2>1. i * (q - p) <= -i
      BY <1>3
    <2> QED
      BY <1>1, <2>1
  <1> QED
    BY <1>2, <1>3

LEMMA SameWindow ==
    ASSUME NEW i \in Nat \ {0}, NEW t \in Nat, (t + 1) % i # 0
    PROVE  WindowStart(i, t + 1) = WindowStart(i, t)
  <1>1. PICK q \in Int, r \in 0..(i - 1) : t = i * q + r /\ r = t % i
    <2>1. t \div i \in Int /\ t % i \in 0..(i - 1) /\ t = i * (t \div i) + (t % i)
      OBVIOUS
    <2> QED
      BY Zenon, <2>1
  <1>2. PICK p \in Int, s \in 0..(i - 1) : t + 1 = i * p + s /\ s = (t + 1) % i
    <2>1. (t + 1) \div i \in Int /\ (t + 1) % i \in 0..(i - 1)
            /\ t + 1 = i * ((t + 1) \div i) + ((t + 1) % i)
      OBVIOUS
    <2> QED
      BY Zenon, <2>1
  <1>3. s - 1 \in 0..(i - 1) /\ i * q + r = i * p + (s - 1)
    <2>1. i * q \in Int /\ i * p \in Int
      OBVIOUS
    <2>2. PICK x \in Int, y \in Int : x = i * q /\ y = i * p
      BY Zenon, <2>1
    <2>3. t = x + r /\ t + 1 = y + s /\ s # 0
      BY Zenon, <1>1, <1>2, <2>2
    <2>4. s - 1 \in 0..(i - 1) /\ x + r = y + (s - 1)
      BY <2>3
    <2> QED
      BY Zenon, <2>2, <2>4
  <1>4. q = p
    BY <1>3, DivisionIsUnique
  <1>5. r + 1 = s
    BY <1>3, <1>4
  <1>6. WindowStart(i, t) = t - r /\ WindowStart(i, t + 1) = (t + 1) - s
    BY Zenon, <1>1, <1>2 DEF WindowStart
  <1> QED
    BY <1>1, <1>2, <1>5, <1>6

\* The start of a window is a number.
LEMMA StartIsNumber ==
    ASSUME NEW i \in Nat \ {0}, NEW t \in Nat PROVE WindowStart(i, t) \in Int
  BY DEF WindowStart
-----------------------------------------------------------------------------
(* The state, as far as the argument needs it: that every call is clear of    *)
(* bans is part of its shape, and when a worker wakes up does not matter.     *)

Wakes == Nat \cup {Max(T) : T \in SUBSET Int}

CallShape == [step : Steps, weight : Nat, info : BOOLEAN, supplemental : BOOLEAN, wake : Wakes,
              banned : BOOLEAN, duration : Nat, header : [Reported -> Nat],
              clear : {TRUE}, open : BOOLEAN]

Shape ==
    /\ now \in Nat /\ cooldown_until \in Nat /\ transport_until \in Nat
    /\ configured \in BOOLEAN
    /\ used \in [Intervals -> Nat] /\ started_at \in [Intervals -> Int]
    /\ granted \in [Intervals -> Nat] /\ allowances \in [Intervals -> Nat]
    /\ counted \in [Intervals -> Nat]
    /\ calls \in [Callers -> CallShape]

Inv == Shape /\ RequestInv

LEMMA IdleShape == Idle \in CallShape /\ Idle.step = "idle"
  BY DEF Idle, CallShape, Steps, Wakes

\* What counts as used is a number.
LEMMA UsedIsNat ==
    ASSUME Shape, NEW i \in Intervals
    PROVE  Used[i] \in Nat /\ StartedAt[i] \in Int /\ i \in Nat \ {0} /\ Limit[i] \in Nat
  <1>1. i \in Nat \ {0} /\ Limit[i] \in Nat
    BY RequestAssumption
  <1>2. WindowStart(i, now) \in Int
    BY <1>1, StartIsNumber DEF Shape
  <1>3. used[i] \in Nat /\ started_at[i] \in Int
    BY DEF Shape
  <1> QED
    BY <1>1, <1>2, <1>3 DEF Used, StartedAt

\* Once the windows that elapsed are opened anew, what is in them counts.
LEMMA ResetWindows ==
    ASSUME Shape, now' = now, started_at' = StartedAt, NEW i \in Intervals,
           used' \in [Intervals -> Nat]
    PROVE  Used'[i] = used'[i]
  <1>1. i \in Nat \ {0}
    BY RequestAssumption
  <1>2. WindowStart(i, now) \in Int /\ started_at[i] \in Int
    BY <1>1, StartIsNumber DEF Shape
  <1>3. started_at'[i] = IF WindowStart(i, now) > started_at[i] THEN WindowStart(i, now)
                         ELSE started_at[i]
    BY DEF StartedAt, Elapsed
  <1>4. WindowStart(i, now)' = WindowStart(i, now)
    BY DEF WindowStart
  <1>5. ~Elapsed(i)'
    BY <1>2, <1>3, <1>4 DEF Elapsed
  <1> QED
    BY <1>5 DEF Used
-----------------------------------------------------------------------------
(* Steps that grant nothing. *)

\* A call may go on if it asks the governor only when there are windows, and if
\* nothing that counts as used is forgotten.
LEMMA CallInv ==
    ASSUME Inv, Shape', UNCHANGED <<configured, granted, allowances>>,
           banned_until' = cooldown_until',
           \A i \in Intervals : Used'[i] >= Used[i],
           NEW c \in Callers, NEW k \in CallShape, calls' = [calls EXCEPT ![c] = k],
           k.step \in {"reserve", "asleep"} =>
              configured \/ calls[c].step \in {"reserve", "asleep"}
    PROVE  Inv'
  <1>1. Shape /\ RequestInv
    BY DEF Inv
  <1>2. calls'[c] = k /\ \A b \in Callers : b # c => calls'[b] = calls[b]
    BY <1>1 DEF Shape
  <1>3. ClearOfBans'
    BY Zenon DEF Shape, CallShape, ClearOfBans
  <1>4. ConfiguredFirst'
    <2> SUFFICES ASSUME ~configured PROVE ConfiguredFirst'
      BY DEF ConfiguredFirst
    <2>1. /\ \A i \in Intervals : granted[i] = 0
          /\ \A b \in Callers : calls[b].step \notin {"reserve", "asleep"}
      BY <1>1 DEF RequestInv, ConfiguredFirst, At
    <2>2. \A b \in Callers : calls'[b].step \notin {"reserve", "asleep"}
      BY <2>1, <1>2
    <2> QED
      BY <2>1, <2>2 DEF ConfiguredFirst, At
  <1>5. AllowanceKept'
    <2> SUFFICES ASSUME NEW i \in Intervals
                 PROVE  /\ allowances[i] >= 1
                        /\ 100 * (granted[i] - Used'[i]) <=
                              (allowances[i] - 1) * (Throttle * Limit[i])
      BY DEF AllowanceKept
    <2>1. /\ allowances[i] >= 1
          /\ 100 * (granted[i] - Used[i]) <= (allowances[i] - 1) * (Throttle * Limit[i])
      BY <1>1 DEF RequestInv, AllowanceKept
    <2>2. Used[i] \in Nat /\ Used'[i] \in Nat /\ Used'[i] >= Used[i]
      <3>1. Used'[i] \in Nat
        BY DEF Used, Shape
      <3> QED
        BY <1>1, <3>1, UsedIsNat
    <2>3. granted[i] \in Nat /\ allowances[i] \in Nat /\ Throttle * Limit[i] \in Nat
      BY <1>1, RequestAssumption DEF Shape
    <2>4. 100 * (granted[i] - Used'[i]) <= 100 * (granted[i] - Used[i])
      BY <2>2, <2>3
    <2>5. (allowances[i] - 1) * (Throttle * Limit[i]) \in Int
      BY <2>3
    <2> QED
      BY <2>1, <2>2, <2>3, <2>4, <2>5
  <1>6. AllowancePerWindow'
    BY <1>1 DEF RequestInv, AllowancePerWindow
  <1> QED
    BY <1>3, <1>4, <1>5, <1>6 DEF Inv, RequestInv
\* A step of a worker or of the exchange that leaves the governor alone.
LEMMA WorkerInv ==
    ASSUME Inv, NEW c \in Callers, NEW k \in CallShape, calls' = [calls EXCEPT ![c] = k],
           k.step \in {"reserve", "asleep"} => calls[c].step \in {"reserve", "asleep"},
           counted' \in [Intervals -> Nat], transport_until' \in Nat,
           UNCHANGED <<now, governor, granted, allowances, banned_until>>
    PROVE  Inv'
  <1>1. Shape
    BY DEF Inv
  <1>2. calls' \in [Callers -> CallShape]
    BY <1>1 DEF Shape
  <1>3. Shape'
    BY <1>1, <1>2 DEF Shape, governor
  <1>4. Used' = Used
    BY DEF Used, Elapsed, WindowStart, governor
  <1>5. \A i \in Intervals : Used'[i] >= Used[i]
    BY <1>1, <1>4, UsedIsNat
  <1> QED
    BY Zenon, <1>3, <1>5, CallInv DEF governor, Inv, RequestInv

\* A step that opens the windows that elapsed, and may count more.
LEMMA WindowsInv ==
    ASSUME Inv, NEW c \in Callers, NEW k \in CallShape, calls' = [calls EXCEPT ![c] = k],
           k.step \in {"reserve", "asleep"} =>
              configured \/ calls[c].step \in {"reserve", "asleep"},
           used' \in [Intervals -> Nat], started_at' = StartedAt,
           \A i \in Intervals : used'[i] >= Used[i],
           UNCHANGED <<now, configured, cooldown_until, transport_until, counted, granted,
                       allowances, banned_until>>
    PROVE  Inv'
  <1>1. Shape
    BY DEF Inv
  <1>2. calls' \in [Callers -> CallShape]
    BY <1>1 DEF Shape
  <1>3. started_at' \in [Intervals -> Int]
    <2>1. \A i \in Intervals : StartedAt[i] \in Int
      BY <1>1, UsedIsNat
    <2> QED
      BY <2>1 DEF StartedAt
  <1>4. Shape'
    BY <1>1, <1>2, <1>3 DEF Shape
  <1>5. \A i \in Intervals : Used'[i] >= Used[i]
    BY <1>1, ResetWindows
  <1> QED
    BY Zenon, <1>4, <1>5, CallInv DEF Inv, RequestInv

\* In particular one that only opens them.
LEMMA ResetInv ==
    ASSUME Inv, NEW c \in Callers, NEW k \in CallShape, calls' = [calls EXCEPT ![c] = k],
           k.step \in {"reserve", "asleep"} =>
              configured \/ calls[c].step \in {"reserve", "asleep"},
           ResetElapsedWindows,
           UNCHANGED <<now, configured, cooldown_until, transport_until, counted, granted,
                       allowances, banned_until>>
    PROVE  Inv'
  <1>1. Shape
    BY DEF Inv
  <1>2. \A i \in Intervals : Used[i] \in Nat
    BY <1>1, UsedIsNat
  <1>3. used' \in [Intervals -> Nat] /\ \A i \in Intervals : used'[i] >= Used[i]
    BY <1>2 DEF ResetElapsedWindows, Used
  <1> QED
    BY Zenon, <1>3, WindowsInv DEF ResetElapsedWindows

\* A call with another value in one of its fields.
LEMMA SetField ==
    ASSUME NEW u \in CallShape
    PROVE  /\ \A x \in Steps : LET v == [u EXCEPT !.step = x]
                               IN  v \in CallShape /\ v.step = x
           /\ \A x \in Nat : LET v == [u EXCEPT !.weight = x]
                 IN  v \in CallShape /\ v.step = u.step
           /\ \A x \in BOOLEAN : LET v == [u EXCEPT !.info = x]
                 IN  v \in CallShape /\ v.step = u.step
           /\ \A x \in BOOLEAN : LET v == [u EXCEPT !.supplemental = x]
                 IN  v \in CallShape /\ v.step = u.step
           /\ \A x \in Wakes : LET v == [u EXCEPT !.wake = x]
                 IN  v \in CallShape /\ v.step = u.step
           /\ \A x \in BOOLEAN : LET v == [u EXCEPT !.banned = x]
                 IN  v \in CallShape /\ v.step = u.step
           /\ \A x \in Nat : LET v == [u EXCEPT !.duration = x]
                 IN  v \in CallShape /\ v.step = u.step
           /\ \A x \in [Reported -> Nat] : LET v == [u EXCEPT !.header = x]
                 IN  v \in CallShape /\ v.step = u.step
           /\ \A x \in BOOLEAN : LET v == [u EXCEPT !.open = x]
                 IN  v \in CallShape /\ v.step = u.step
  <1>0. \A x \in Steps : LET v == [u EXCEPT !.step = x]
                        IN  v \in CallShape /\ v.step = x
    BY Zenon DEF CallShape
  <1>1. \A x \in Nat : LET v == [u EXCEPT !.weight = x]
           IN  v \in CallShape /\ v.step = u.step
    BY Zenon DEF CallShape
  <1>2. \A x \in BOOLEAN : LET v == [u EXCEPT !.info = x]
           IN  v \in CallShape /\ v.step = u.step
    BY Zenon DEF CallShape
  <1>3. \A x \in BOOLEAN : LET v == [u EXCEPT !.supplemental = x]
           IN  v \in CallShape /\ v.step = u.step
    BY Zenon DEF CallShape
  <1>4. \A x \in Wakes : LET v == [u EXCEPT !.wake = x]
           IN  v \in CallShape /\ v.step = u.step
    BY Zenon DEF CallShape
  <1>5. \A x \in BOOLEAN : LET v == [u EXCEPT !.banned = x]
           IN  v \in CallShape /\ v.step = u.step
    BY Zenon DEF CallShape
  <1>6. \A x \in Nat : LET v == [u EXCEPT !.duration = x]
           IN  v \in CallShape /\ v.step = u.step
    BY Zenon DEF CallShape
  <1>7. \A x \in [Reported -> Nat] : LET v == [u EXCEPT !.header = x]
           IN  v \in CallShape /\ v.step = u.step
    BY Zenon DEF CallShape
  <1>8. \A x \in BOOLEAN : LET v == [u EXCEPT !.open = x]
           IN  v \in CallShape /\ v.step = u.step
    BY Zenon DEF CallShape
  <1> QED
    BY <1>0, <1>1, <1>2, <1>3, <1>4, <1>5, <1>6, <1>7, <1>8

\* The record of a call that changes its step, and of one that starts again
\* from Idle.
LEMMA CallAt ==
    ASSUME Inv, NEW c \in Callers, NEW step \in Steps
    PROVE  LET k == [calls[c] EXCEPT !.step = step]
           IN  k \in CallShape /\ k.step = step
  <1>1. calls[c] \in CallShape
    BY DEF Inv, Shape
  <1> QED
    BY Zenon, <1>1 DEF CallShape
\* A call that only changes its step.
LEMMA GoesInv ==
    ASSUME Inv, NEW c \in Callers, NEW step \in Steps, Goes(c, step),
           step \in {"reserve", "asleep"} => calls[c].step \in {"reserve", "asleep"},
           transport_until' \in Nat,
           UNCHANGED <<now, governor, counted, granted, allowances, banned_until>>
    PROVE  Inv'
  <1> DEFINE k == [calls[c] EXCEPT !.step = step]
  <1>1. k \in CallShape /\ k.step = step
    BY CallAt
  <1>2. calls' = [calls EXCEPT ![c] = k]
    BY DEF Goes
  <1>3. counted' \in [Intervals -> Nat]
    BY DEF Inv, Shape
  <1> HIDE DEF k
  <1> QED
    BY Zenon, <1>1, <1>2, <1>3, WorkerInv

\* A call that returns or raises.
LEMMA EndsInv ==
    ASSUME Inv, NEW c \in Callers, Ends(c), counted' \in [Intervals -> Nat],
           transport_until' \in Nat,
           UNCHANGED <<now, governor, granted, allowances, banned_until>>
    PROVE  Inv'
  BY Zenon, IdleShape, WorkerInv DEF Ends

LEMMA BeginInv ==
    ASSUME Inv, NEW c \in Callers, Begin(c) PROVE Inv'
  <1>1. PICK r \in Requests :
          calls' = [calls EXCEPT ![c] = [Idle EXCEPT !.step = "acquire", !.weight = r.weight,
                                          !.info = r.info, !.supplemental = r.supplemental]]
    BY Zenon DEF Begin
  <1> DEFINE k == [Idle EXCEPT !.step = "acquire", !.weight = r.weight,
                               !.info = r.info, !.supplemental = r.supplemental]
  <1>2. r.weight \in Nat /\ r.info \in BOOLEAN /\ r.supplemental \in BOOLEAN
    BY RequestAssumption
  <1>3. k = [[[[Idle EXCEPT !.step = "acquire"] EXCEPT !.weight = r.weight]
                 EXCEPT !.info = r.info] EXCEPT !.supplemental = r.supplemental]
    OBVIOUS
  <1> HIDE DEF k
  <1>4. k \in CallShape /\ k.step = "acquire"
    <2>1. PICK u : u = [Idle EXCEPT !.step = "acquire"]
      BY Zenon
    <2>u. u \in CallShape /\ u.step = "acquire"
      BY Zenon, <2>1, IdleShape, SetField DEF Steps
    <2>2. PICK v : v = [u EXCEPT !.weight = r.weight]
      BY Zenon
    <2>v. v \in CallShape /\ v.step = "acquire"
      BY <2>2, <2>u, <1>2, SetField
    <2>3. PICK w : w = [v EXCEPT !.info = r.info]
      BY Zenon
    <2>w. w \in CallShape /\ w.step = "acquire"
      BY <2>3, <2>v, <1>2, SetField
    <2>4. k = [w EXCEPT !.supplemental = r.supplemental]
      BY <1>3, <2>1, <2>2, <2>3
    <2> QED
      BY <2>w, <2>4, <1>2, SetField
  <1>5. counted' \in [Intervals -> Nat] /\ transport_until' \in Nat
    BY DEF Begin, Inv, Shape
  <1> QED
    BY Zenon, <1>1, <1>4, <1>5, WorkerInv DEF Begin, history, k

LEMMA AcquireInv ==
    ASSUME Inv, NEW c \in Callers, Acquire(c) PROVE Inv'
  <1>1. CASE configured
    <2> DEFINE k == [calls[c] EXCEPT !.step = "reserve"]
    <2>1. k \in CallShape
      BY Zenon, CallAt DEF Steps
    <2>2. calls' = [calls EXCEPT ![c] = k] /\ ResetElapsedWindows
      BY <1>1 DEF Acquire, Goes
    <2> HIDE DEF k
    <2> QED
      BY Zenon, <1>1, <2>1, <2>2, ResetInv DEF Acquire, history
  <1>2. CASE ~configured
    <2>1. Goes(c, "pace") /\ transport_until' \in Nat
      BY <1>2 DEF Acquire, Inv, Shape
    <2> QED
      BY <1>2, <2>1, GoesInv DEF Acquire, history, governor, Steps
  <1> QED
    BY <1>1, <1>2

LEMMA ReserveRaisesInv ==
    ASSUME Inv, NEW c \in Callers, ReserveRaises(c) PROVE Inv'
  <1>1. CASE now < cooldown_until
    <2>1. counted' \in [Intervals -> Nat] /\ transport_until' \in Nat
      BY DEF ReserveRaises, Inv, Shape
    <2> QED
      BY <1>1, <2>1, EndsInv DEF ReserveRaises, history, governor
  <1>2. CASE ~(now < cooldown_until)
    BY Zenon, <1>2, IdleShape, ResetInv DEF ReserveRaises, Ends, history
  <1> QED
    BY <1>1, <1>2

LEMMA ReserveWaitsInv ==
    ASSUME Inv, NEW c \in Callers, ReserveWaits(c) PROVE Inv'
  <1> DEFINE w == Max({StartedAt[i] + i : i \in Delays(c)})
             k == [calls[c] EXCEPT !.step = "asleep", !.wake = w]
  <1>1. calls[c] \in CallShape
    BY DEF Inv, Shape
  <1>2. w \in Wakes
    <2>1. \A i \in Delays(c) : StartedAt[i] + i \in Int
      BY UsedIsNat DEF Inv, Delays
    <2>2. {StartedAt[i] + i : i \in Delays(c)} \in SUBSET Int
      BY <2>1
    <2> QED
      BY Zenon, <2>2 DEF Wakes
  <1>3. calls' = [calls EXCEPT ![c] = k]
    BY Zenon DEF ReserveWaits
  <1> HIDE DEF w
  <1>4. k \in CallShape
    <2>1. PICK u : u = [calls[c] EXCEPT !.step = "asleep"]
      BY Zenon
    <2>u. u \in CallShape
      BY Zenon, <2>1, <1>1, SetField DEF Steps
    <2>2. k = [u EXCEPT !.wake = w]
      BY <2>1
    <2> HIDE DEF k
    <2> QED
      BY <2>u, <2>2, <1>2, SetField
  <1> HIDE DEF k
  <1> QED
    BY <1>3, <1>4, ResetInv DEF ReserveWaits, At, history

LEMMA WakeUpInv ==
    ASSUME Inv, NEW c \in Callers, WakeUp(c) PROVE Inv'
  <1>1. transport_until' \in Nat
    BY DEF WakeUp, Inv, Shape
  <1> QED
    BY <1>1, GoesInv DEF WakeUp, At, history, Steps
\* A request leaves the transport.
LEMMA SendInv ==
    ASSUME Inv, NEW c \in Callers, Send(c),
           UNCHANGED <<now, governor, transport_until, counted, granted, allowances, banned_until>>
    PROVE  Inv'
  <1>1. calls[c] \in CallShape /\ counted' \in [Intervals -> Nat] /\ transport_until' \in Nat
    BY DEF Inv, Shape
  <1>2. PICK u, o : u = [calls[c] EXCEPT !.step = "sent"] /\ o = (now >= refused_until)
    BY Zenon
  <1>3. u \in CallShape /\ u.step = "sent"
    BY Zenon, <1>1, <1>2, SetField DEF Steps
  <1>o. o \in BOOLEAN
    BY <1>2
  <1>4. PICK k : k = [u EXCEPT !.open = o]
    BY Zenon
  <1>5. k \in CallShape /\ k.step = "sent"
    BY <1>3, <1>4, <1>o, SetField
  <1>6. calls' = [calls EXCEPT ![c] = k]
    BY Zenon, <1>2, <1>4 DEF Send
  <1> QED
    BY Zenon, <1>1, <1>5, <1>6, WorkerInv

LEMMA PaceInv ==
    ASSUME Inv, NEW c \in Callers, Pace(c) \/ PaceAgain(c) PROVE Inv'
  <1>1. /\ UNCHANGED <<now, governor, transport_until, counted, granted, allowances, banned_until>>
        /\ \/ Send(c) \/ Ends(c)
           \/ calls' = [calls EXCEPT ![c].step = "waiting", ![c].wake = transport_until]
    BY DEF Pace, PaceAgain, history
  <1>2. calls[c] \in CallShape /\ counted' \in [Intervals -> Nat] /\ transport_until \in Nat
          /\ transport_until' \in Nat
    BY <1>1 DEF Inv, Shape
  <1>3. CASE calls' = [calls EXCEPT ![c].step = "waiting", ![c].wake = transport_until]
    <2>1. PICK u : u = [calls[c] EXCEPT !.step = "waiting"]
      BY Zenon
    <2>2. u \in CallShape /\ u.step = "waiting" /\ transport_until \in Wakes
      BY Zenon, <1>2, <2>1, SetField DEF Steps, Wakes
    <2>3. PICK k : k = [u EXCEPT !.wake = transport_until]
      BY Zenon
    <2>4. k \in CallShape /\ k.step = "waiting"
      BY <2>2, <2>3, SetField
    <2>5. calls' = [calls EXCEPT ![c] = k]
      BY Zenon, <1>2, <1>3, <2>1, <2>3 DEF Inv, Shape
    <2> QED
      BY Zenon, <1>1, <1>2, <2>4, <2>5, WorkerInv
  <1> QED
    BY <1>1, <1>2, <1>3, SendInv, EndsInv

\* What the exchange counts are numbers.
LEMMA CountedIsNat ==
    ASSUME Inv, NEW c \in Callers, Counts(c) \/ UNCHANGED counted
    PROVE  counted' \in [Intervals -> Nat]
  <1>1. calls[c] \in CallShape /\ counted \in [Intervals -> Nat]
    BY DEF Inv, Shape
  <1>2. calls[c].weight \in Nat
    BY Zenon, <1>1 DEF CallShape
  <1> QED
    BY <1>1, <1>2 DEF Counts

LEMMA ServeInv ==
    ASSUME Inv, NEW c \in Callers, Serve(c) PROVE Inv'
  <1>1. counted' \in [Intervals -> Nat] /\ calls[c] \in CallShape /\ transport_until' \in Nat
    BY CountedIsNat DEF Serve, Inv, Shape
  <1>2. PICK info, header : info = calls[c].info /\ header = [i \in Reported |-> counted'[i]]
    BY Zenon
  <1>3. info \in BOOLEAN /\ header \in [Reported -> Nat]
    BY Zenon, <1>1, <1>2, RequestAssumption DEF CallShape
  <1>4. PICK u : u = [Idle EXCEPT !.step = "answered"]
    BY Zenon
  <1>5. u \in CallShape /\ u.step = "answered"
    BY Zenon, <1>4, IdleShape, SetField DEF Steps
  <1>6. PICK v : v = [u EXCEPT !.info = info]
    BY Zenon
  <1>7. v \in CallShape /\ v.step = "answered"
    BY <1>3, <1>5, <1>6, SetField
  <1>8. PICK k : k = [v EXCEPT !.header = header]
    BY Zenon
  <1>9. k \in CallShape /\ k.step = "answered"
    BY <1>3, <1>7, <1>8, SetField
  <1>10. calls' = [calls EXCEPT ![c] = k]
    BY <1>2, <1>4, <1>6, <1>8 DEF Serve
  <1> QED
    BY Zenon, <1>1, <1>9, <1>10, WorkerInv DEF Serve, history

LEMMA RefuseInv ==
    ASSUME Inv, NEW c \in Callers, Refuse(c) PROVE Inv'
  <1>1. counted' \in [Intervals -> Nat] /\ transport_until' \in Nat
    BY Zenon, CountedIsNat DEF Refuse, Inv, Shape
  <1>2. CASE Ends(c)
    BY <1>1, <1>2, EndsInv DEF Refuse, history
  <1>3. ASSUME NEW banned \in BOOLEAN, NEW retryAfter \in RetryAfters,
               calls' = [calls EXCEPT ![c] = [Idle EXCEPT
                   !.step = "refused", !.banned = banned,
                   !.duration = IF retryAfter # 0 THEN retryAfter
                                ELSE IF banned THEN BannedDefault ELSE LimitedDefault]]
        PROVE  Inv'
    <2>1. PICK duration : duration = IF retryAfter # 0 THEN retryAfter
                                     ELSE IF banned THEN BannedDefault ELSE LimitedDefault
      OBVIOUS
    <2>2. duration \in Nat
      BY <2>1, RequestAssumption
    <2>3. PICK u : u = [Idle EXCEPT !.step = "refused"]
      BY Zenon
    <2>4. u \in CallShape /\ u.step = "refused"
      BY Zenon, <2>3, IdleShape, SetField DEF Steps
    <2>5. PICK v : v = [u EXCEPT !.banned = banned]
      BY Zenon
    <2>6. v \in CallShape /\ v.step = "refused"
      BY <2>4, <2>5, SetField
    <2>7. PICK k : k = [v EXCEPT !.duration = duration]
      BY Zenon
    <2>8. k \in CallShape /\ k.step = "refused"
      BY <2>2, <2>6, <2>7, SetField
    <2>9. calls' = [calls EXCEPT ![c] = k]
      BY <1>3, <2>1, <2>3, <2>5, <2>7
    <2> QED
      BY Zenon, <1>1, <2>8, <2>9, WorkerInv DEF Refuse, history
  <1> QED
    BY Zenon, <1>2, <1>3 DEF Refuse
\* A call that learns it was lost.
LEMMA LostCall ==
    LET k == [Idle EXCEPT !.step = "lost"] IN k \in CallShape /\ k.step = "lost"
  BY Zenon, IdleShape, SetField DEF Steps

LEMMA LoseInv ==
    ASSUME Inv, NEW c \in Callers, Lose(c) PROVE Inv'
  <1>1. counted' \in [Intervals -> Nat] /\ transport_until' \in Nat
    BY CountedIsNat DEF Lose, Inv, Shape
  <1> QED
    BY Zenon, <1>1, LostCall, WorkerInv DEF Lose, history

\* observe_headers takes the larger of its own count and the exchange's.
LEMMA ObserveInv ==
    ASSUME Inv, NEW c \in Callers, Observe(c) PROVE Inv'
  <1>1. calls[c] \in CallShape /\ Shape
    BY DEF Inv, Shape
  <1>2. PICK k \in CallShape : /\ calls' = [calls EXCEPT ![c] = k]
                               /\ k.step \in {"idle", "lost", "configure"}
    <2>1. CASE Ends(c)
      BY Zenon, <2>1, IdleShape DEF Ends
    <2>2. CASE calls' = [calls EXCEPT ![c] = [Idle EXCEPT !.step = "lost"]]
      BY Zenon, <2>2, LostCall
    <2>3. CASE Goes(c, "configure")
      <3>1. LET v == [calls[c] EXCEPT !.step = "configure"]
            IN  v \in CallShape /\ v.step = "configure"
        BY Zenon, CallAt DEF Steps
      <3> QED
        BY Zenon, <2>3, <3>1 DEF Goes
    <2> QED
      BY <2>1, <2>2, <2>3 DEF Observe
  <1>3. CASE configured
    <2>1. started_at' = StartedAt
            /\ used' = [i \in Intervals |-> IF i \in Reported
                           THEN Largest(Used[i], calls[c].header[i]) ELSE Used[i]]
      BY <1>3 DEF Observe
    <2>2. \A i \in Intervals : Used[i] \in Nat
      BY <1>1, UsedIsNat
    <2>3. \A i \in Reported : calls[c].header[i] \in Nat
      BY Zenon, <1>1 DEF CallShape
    <2>4. used' \in [Intervals -> Nat] /\ \A i \in Intervals : used'[i] >= Used[i]
      BY <2>1, <2>2, <2>3 DEF Largest
    <2> QED
      BY Zenon, <1>2, <2>1, <2>4, WindowsInv DEF Observe, history
  <1>4. CASE ~configured
    <2>1. counted' \in [Intervals -> Nat] /\ transport_until' \in Nat
      BY <1>1 DEF Observe, Shape
    <2> QED
      BY Zenon, <1>2, <1>4, <2>1, WorkerInv DEF Observe, history, governor
  <1> QED
    BY <1>3, <1>4

LEMMA CooldownInv ==
    ASSUME Inv, NEW c \in Callers, TransportFails(c) \/ RateLimited(c) \/ ReportToBudget(c)
    PROVE  Inv'
  <1>1. calls[c] \in CallShape /\ Shape
    BY DEF Inv, Shape
  <1>2. calls[c].duration \in Nat /\ Transient \in Nat /\ now \in Nat
    BY <1>1, RequestAssumption DEF CallShape, Shape
  <1>3. transport_until' \in Nat
    BY <1>1, <1>2 DEF TransportFails, RateLimited, ReportToBudget, Shape
  <1>4. counted' \in [Intervals -> Nat]
    BY <1>1 DEF TransportFails, RateLimited, ReportToBudget, Shape
  <1>5. CASE TransportFails(c)
    BY <1>3, <1>4, <1>5, EndsInv DEF TransportFails, history
  <1>6. CASE RateLimited(c)
    BY <1>3, <1>6, GoesInv DEF RateLimited, Steps
  <1>7. CASE ReportToBudget(c)
    BY <1>3, <1>7, GoesInv DEF ReportToBudget, history, Steps
  <1> QED
    BY <1>5, <1>6, <1>7

\* apply_retry_after only ever prolongs the cooldown.
LEMMA ApplyRetryAfterInv ==
    ASSUME Inv, NEW c \in Callers, ApplyRetryAfter(c) PROVE Inv'
  <1>1. calls[c] \in CallShape /\ Shape
    BY DEF Inv, Shape
  <1>2. calls[c].duration \in Nat
    BY Zenon, <1>1 DEF CallShape
  <1>3. RetryUntil(c) \in Nat
    BY <1>1, <1>2, RequestAssumption DEF RetryUntil, Largest, Shape
  <1>4. cooldown_until' \in Nat /\ banned_until' = cooldown_until'
    BY <1>1, <1>3 DEF ApplyRetryAfter, Largest, Shape, Inv, RequestInv
  <1>5. calls' \in [Callers -> CallShape]
    BY <1>1, IdleShape DEF ApplyRetryAfter, Ends, Shape
  <1>6. Shape'
    BY <1>1, <1>4, <1>5 DEF ApplyRetryAfter, Shape
  <1>7. Used' = Used
    BY DEF Used, Elapsed, WindowStart, ApplyRetryAfter
  <1>8. \A i \in Intervals : Used'[i] >= Used[i]
    BY <1>1, <1>7, UsedIsNat
  <1> QED
    BY Zenon, <1>4, <1>6, <1>8, IdleShape, CallInv DEF ApplyRetryAfter, Ends
-----------------------------------------------------------------------------
(* The steps that move the allowances. *)

\* An allowance holds one throttle band.
LEMMA OneMoreBand ==
    ASSUME NEW a \in Nat, NEW T \in Nat
    PROVE  (a - 1) * T + T = a * T /\ (a + 1 - 1) * T = a * T /\ a * T \in Nat
  OBVIOUS

LEMMA ReserveGrantsInv ==
    ASSUME Inv, NEW c \in Callers, ReserveGrants(c) PROVE Inv'
  <1>1. calls[c] \in CallShape /\ Shape /\ RequestInv
    BY DEF Inv, Shape
  <1>2. PICK w \in Nat : w = calls[c].weight
    BY Zenon, <1>1 DEF CallShape
  <1>3. \A i \in Intervals : Used[i] \in Nat /\ granted[i] \in Nat /\ allowances[i] \in Nat
                              /\ Throttle * Limit[i] \in Nat
    BY <1>1, UsedIsNat, RequestAssumption DEF Shape
  <1>4. \A i \in Intervals : used'[i] = Used[i] + w /\ granted'[i] = granted[i] + w
    BY <1>2 DEF ReserveGrants
  <1>5. used' \in [Intervals -> Nat] /\ granted' \in [Intervals -> Nat]
    BY <1>2, <1>3 DEF ReserveGrants
  <1>6. started_at' \in [Intervals -> Int]
    <2>1. \A i \in Intervals : StartedAt[i] \in Int
      BY <1>1, UsedIsNat
    <2> QED
      BY <2>1 DEF ReserveGrants, StartedAt
  <1>7. calls' \in [Callers -> CallShape] /\ calls'[c].step = "pace"
          /\ \A b \in Callers : b # c => calls'[b] = calls[b]
    <2>1. (now >= banned_until) = TRUE
      BY <1>1 DEF ReserveGrants, RequestInv, Shape
    <2>2. PICK k : k = [calls[c] EXCEPT !.step = "pace", !.clear = TRUE]
      OBVIOUS
    <2>3. calls' = [calls EXCEPT ![c] = k]
      BY Zenon, <2>1, <2>2 DEF ReserveGrants
    <2>4. k \in CallShape /\ k.step = "pace"
      <3>1. PICK u : u = [calls[c] EXCEPT !.step = "pace"]
        BY Zenon
      <3>2. u \in CallShape /\ u.step = "pace"
        BY Zenon, <3>1, <1>1, SetField DEF Steps
      <3>3. k = [u EXCEPT !.clear = TRUE]
        BY <2>2, <3>1
      <3> QED
        BY Zenon, <3>2, <3>3 DEF CallShape
    <2> QED
      BY <2>3, <2>4, <1>1 DEF Shape
  <1>8. Shape'
    BY <1>1, <1>5, <1>6, <1>7 DEF ReserveGrants, Shape
  <1>9. \A i \in Intervals : Used'[i] = Used[i] + w
    BY <1>1, <1>4, <1>5, ResetWindows DEF ReserveGrants
  <1>10. ClearOfBans'
    BY Zenon, <1>8 DEF Shape, CallShape, ClearOfBans
  <1>11. ConfiguredFirst'
    BY <1>1 DEF RequestInv, ConfiguredFirst, ReserveGrants
  <1>12. AllowanceKept'
    <2> SUFFICES ASSUME NEW i \in Intervals
                 PROVE  /\ allowances[i] >= 1
                        /\ 100 * (granted'[i] - Used'[i]) <=
                              (allowances[i] - 1) * (Throttle * Limit[i])
      BY DEF AllowanceKept, ReserveGrants
    <2>1. granted'[i] - Used'[i] = granted[i] - Used[i]
      BY <1>3, <1>4, <1>9
    <2> QED
      BY <2>1, <1>1 DEF RequestInv, AllowanceKept
  <1>13. AllowancePerWindow'
    <2> SUFFICES ASSUME NEW i \in Intervals
                 PROVE  100 * granted'[i] < allowances[i] * (Throttle * Limit[i])
      BY DEF AllowancePerWindow, ReserveGrants
    <2>1. PICK T \in Nat : T = Throttle * Limit[i]
      BY <1>3
    <2>2. 100 * (Used[i] + w) < T
      <3>1. ~Reaches(c, i, Throttle)
        BY DEF ReserveGrants, Delays
      <3> QED
        BY <3>1, <2>1, <1>2, <1>3 DEF Reaches
    <2>3. 100 * (granted[i] - Used[i]) <= (allowances[i] - 1) * T
      BY <1>1, <2>1 DEF RequestInv, AllowanceKept
    <2>4. (allowances[i] - 1) * T + T = allowances[i] * T /\ allowances[i] * T \in Nat
            /\ (allowances[i] - 1) * T \in Int
      BY <1>3, OneMoreBand
    <2>5. 100 * granted'[i] = 100 * (granted[i] - Used[i]) + 100 * (Used[i] + w)
      BY <1>3, <1>4
    <2>6. 100 * (granted[i] - Used[i]) \in Int /\ 100 * (Used[i] + w) \in Int
      BY <1>3
    <2> QED
      BY <2>1, <2>2, <2>3, <2>4, <2>5, <2>6
  <1> QED
    BY <1>1, <1>8, <1>10, <1>11, <1>12, <1>13 DEF Inv, RequestInv, ReserveGrants

\* Windows that are replaced begin empty, and that is one more allowance.
LEMMA ConfigureInv ==
    ASSUME Inv, NEW c \in Callers, Configure(c) PROVE Inv'
  <1>1. Shape /\ RequestInv
    BY DEF Inv
  <1>2. \A i \in Intervals : /\ granted[i] \in Nat /\ allowances[i] \in Nat
                              /\ Throttle * Limit[i] \in Nat /\ WindowStart(i, now) \in Int
    BY <1>1, StartIsNumber, RequestAssumption DEF Shape
  <1>3. calls' \in [Callers -> CallShape] /\ used' \in [Intervals -> Nat]
          /\ started_at' \in [Intervals -> Int] /\ allowances' \in [Intervals -> Nat]
    BY <1>1, <1>2, IdleShape DEF Configure, Ends, Shape
  <1>4. Shape'
    BY <1>1, <1>3 DEF Configure, Shape
  <1>5. \A i \in Intervals : Used'[i] = 0
    BY <1>2 DEF Configure, Used, Elapsed, WindowStart
  <1>6. ClearOfBans'
    BY Zenon, <1>4 DEF Shape, CallShape, ClearOfBans
  <1>7. ConfiguredFirst'
    BY DEF Configure, ConfiguredFirst
  <1>8. ASSUME NEW i \in Intervals
        PROVE  /\ allowances'[i] >= 1
               /\ 100 * (granted[i] - Used'[i]) <= (allowances'[i] - 1) * (Throttle * Limit[i])
               /\ granted[i] > 0 => 100 * granted[i] < allowances'[i] * (Throttle * Limit[i])
    <2>1. PICK T \in Nat : T = Throttle * Limit[i]
      BY <1>2
    <2>2. allowances[i] >= 1
      BY <1>1 DEF RequestInv, AllowanceKept
    <2>3. granted[i] > 0 => 100 * granted[i] < allowances[i] * T
      BY <1>1, <2>1 DEF RequestInv, AllowancePerWindow
    <2>4. granted[i] - Used'[i] = granted[i]
      BY <1>2, <1>5
    <2>5. CASE configured
      <3>1. PICK a \in Nat : a = allowances[i]
        BY <1>2
      <3>2. allowances'[i] = a + 1
        BY <2>5, <3>1 DEF Configure
      <3>3. (a + 1 - 1) * T = a * T /\ (a + 1) * T = a * T + T /\ a * T \in Nat
        OBVIOUS
      <3>4. 100 * granted[i] <= a * T
        BY <1>2, <2>3, <3>1, <3>3
      <3> QED
        BY <1>2, <2>1, <2>2, <2>3, <2>4, <3>1, <3>2, <3>3, <3>4
    <2>6. CASE ~configured
      <3>1. granted[i] = 0 /\ allowances'[i] = allowances[i]
        BY <1>1, <1>2, <2>6 DEF RequestInv, ConfiguredFirst, Configure
      <3>2. (allowances[i] - 1) * T >= 0
        BY <1>2, <2>2
      <3> QED
        BY <2>1, <2>2, <2>4, <3>1, <3>2
    <2> QED
      BY <1>1, <2>5, <2>6 DEF Shape
  <1>9. AllowanceKept' /\ AllowancePerWindow'
    BY <1>8 DEF AllowanceKept, AllowancePerWindow, Configure
  <1> QED
    BY <1>1, <1>4, <1>6, <1>7, <1>9 DEF Inv, RequestInv, Configure
\* A tick begins the exchange's windows anew, or leaves their start alone.
LEMMA TickInv ==
    ASSUME Inv, Tick PROVE Inv'
  <1>1. Shape /\ RequestInv
    BY DEF Inv
  <1>2. \A i \in Intervals : /\ i \in Nat \ {0} /\ Used[i] \in Nat /\ granted[i] \in Nat
                              /\ allowances[i] \in Nat /\ Throttle * Limit[i] \in Nat
    BY <1>1, UsedIsNat, RequestAssumption DEF Shape
  <1>3. \A i \in Intervals :
          /\ granted'[i] = IF (now + 1) % i = 0 THEN 0 ELSE granted[i]
          /\ allowances'[i] = IF (now + 1) % i = 0 THEN 1 ELSE allowances[i]
    BY DEF Tick
  <1>4. now' \in Nat /\ counted' \in [Intervals -> Nat] /\ granted' \in [Intervals -> Nat]
          /\ allowances' \in [Intervals -> Nat]
    BY <1>1 DEF Tick, Shape
  <1>5. Shape'
    BY <1>1, <1>4 DEF Tick, Shape, governor
  <1>6. ClearOfBans' /\ ConfiguredFirst' /\ banned_until' = cooldown_until'
    BY <1>1, <1>3 DEF Tick, governor, RequestInv, ClearOfBans, ConfiguredFirst, At
  <1>7. ASSUME NEW i \in Intervals
        PROVE  /\ allowances'[i] >= 1
               /\ 100 * (granted'[i] - Used'[i]) <= (allowances'[i] - 1) * (Throttle * Limit[i])
               /\ granted'[i] > 0 => 100 * granted'[i] < allowances'[i] * (Throttle * Limit[i])
    <2>1. CASE (now + 1) % i = 0
      <3>1. granted'[i] = 0 /\ allowances'[i] = 1
        BY <1>3, <2>1
      <3>2. Used'[i] \in Nat
        BY <1>5 DEF Used, Shape
      <3>3. (1 - 1) * (Throttle * Limit[i]) = 0
        BY <1>2
      <3> QED
        BY <3>1, <3>2, <3>3
    <2>2. CASE (now + 1) % i # 0
      <3>1. granted'[i] = granted[i] /\ allowances'[i] = allowances[i]
        BY <1>3, <2>2
      <3>2. WindowStart(i, now + 1) = WindowStart(i, now)
        BY <1>1, <1>2, <2>2, SameWindow DEF Shape
      <3>3. Elapsed(i)' <=> Elapsed(i)
        BY <3>2 DEF Tick, governor, Elapsed, WindowStart
      <3>4. Used'[i] = Used[i]
        BY <3>3 DEF Tick, governor, Used
      <3> QED
        BY <1>1, <3>1, <3>4 DEF RequestInv, AllowanceKept, AllowancePerWindow
    <2> QED
      BY <2>1, <2>2
  <1>8. AllowanceKept' /\ AllowancePerWindow'
    BY <1>7 DEF AllowanceKept, AllowancePerWindow
  <1> QED
    BY <1>5, <1>6, <1>8 DEF Inv, RequestInv

LEMMA StepInv == Inv /\ [RequestsNext]_requestVars => Inv'
  <1> SUFFICES ASSUME Inv, [RequestsNext]_requestVars PROVE Inv'
    OBVIOUS
  <1>1. ASSUME NEW c \in Callers, GetJson(c) \/ Provider(c) PROVE Inv'
    BY <1>1, BeginInv, AcquireInv, ReserveRaisesInv, ReserveWaitsInv, WakeUpInv,
       ReserveGrantsInv, PaceInv, ObserveInv, ConfigureInv, CooldownInv, ApplyRetryAfterInv,
       ServeInv, RefuseInv, LoseInv DEF GetJson, Provider
  <1>2. CASE UNCHANGED requestVars
    BY <1>2 DEF requestVars, governor, history, Inv, Shape, RequestInv, ClearOfBans, ConfiguredFirst,
       AllowanceKept, AllowancePerWindow, Used, Elapsed, WindowStart, At
  <1> QED
    BY <1>1, <1>2, TickInv DEF RequestsNext

LEMMA InitInv == RequestsInit => Inv
  <1> SUFFICES ASSUME RequestsInit PROVE Inv
    OBVIOUS
  <1>1. Shape
    <2>1. calls \in [Callers -> CallShape]
      BY IdleShape DEF RequestsInit
    <2>2. /\ now \in Nat /\ cooldown_until \in Nat /\ transport_until \in Nat
          /\ configured \in BOOLEAN
      BY Zenon DEF RequestsInit
    <2>3. /\ used \in [Intervals -> Nat] /\ started_at \in [Intervals -> Int]
          /\ granted \in [Intervals -> Nat] /\ allowances \in [Intervals -> Nat]
          /\ counted \in [Intervals -> Nat]
      BY DEF RequestsInit
    <2> QED
      BY <2>1, <2>2, <2>3 DEF Shape
  <1>2. ASSUME NEW i \in Intervals
        PROVE  allowances[i] >= 1
                 /\ 100 * (granted[i] - Used[i]) <= (allowances[i] - 1) * (Throttle * Limit[i])
                 /\ granted[i] = 0
    <2>1. granted[i] = 0 /\ allowances[i] = 1 /\ Used[i] \in Nat /\ Throttle * Limit[i] \in Nat
      BY <1>1, UsedIsNat, RequestAssumption DEF RequestsInit
    <2>2. (1 - 1) * (Throttle * Limit[i]) = 0
      BY <2>1
    <2> QED
      BY <2>1, <2>2
  <1>3. AllowanceKept /\ AllowancePerWindow
    BY <1>2 DEF AllowanceKept, AllowancePerWindow
  <1>4. ClearOfBans /\ ConfiguredFirst
    BY <1>2, IdleShape DEF RequestsInit, ClearOfBans, ConfiguredFirst, At, Idle
  <1> QED
    BY <1>1, <1>3, <1>4 DEF Inv, RequestInv, RequestsInit

\* "Reserve weighted REST capacity": in no window of the exchange do any number
\* of workers get more than one throttle band per allowance from
\* WeightedRateLimitGovernor.reserve.
THEOREM GrantsStayBelowThrottle == RequestsSpec => []AllowancePerWindow
  <1>1. Inv => AllowancePerWindow
    BY DEF Inv, RequestInv
  <1> QED
    BY <1>1, InitInv, StepInv, PTL DEF RequestsSpec

\* reserve lets nothing through during a cooldown apply_retry_after was told of,
\* in whatever order the answers come.
THEOREM GrantsRespectBans == RequestsSpec => []ClearOfBans
  <1>1. Inv => ClearOfBans
    BY DEF Inv, RequestInv
  <1> QED
    BY <1>1, InitInv, StepInv, PTL DEF RequestsSpec
-----------------------------------------------------------------------------
(* The types. *)

LEMMA Least ==
    ASSUME NEW S, S \subseteq Nat, S # {}
    PROVE  \E x \in S : \A y \in S : x <= y
  <1>1. \E x \in S : \A y \in S : ~ (<<y, x>> \in OpToRel(<, Nat))
    BY Zenon, NatLessThanWellFounded, WFMin
  <1>2. PICK x \in S : \A y \in S : ~ (<<y, x>> \in OpToRel(<, Nat))
    BY Zenon, <1>1
  <1>3. \A y \in S : ~ (y < x)
    BY Zenon, <1>2 DEF OpToRel
  <1>4. \A y \in S : x <= y
    BY <1>3
  <1> QED
    BY Zenon, <1>4

\* Finitely many numbers have a bound.
LEMMA FiniteIsBounded ==
    ASSUME NEW S, S \subseteq Nat, IsFiniteSet(S)
    PROVE  \E b \in Nat : \A i \in S : i <= b
  <1>1. PICK q \in Seq(S) : \A i \in S : \E n \in 1..Len(q) : q[n] = i
    BY Zenon DEF IsFiniteSet
  <1>2. Len(q) \in Nat /\ \A k \in 1..Len(q) : q[k] \in S
    BY <1>1
  <1>3. \A k \in 1..Len(q) : q[k] \in Nat
    BY Zenon, <1>2
  <1> DEFINE Bounds(b, n) == \A k \in 1..n : q[k] <= b
             Unbounded == {n \in 0..Len(q) : ~\E b \in Nat : Bounds(b, n)}
  <1>4. Unbounded = {}
    <2> SUFFICES ASSUME Unbounded # {} PROVE FALSE
      BY Zenon
    <2>1. Unbounded \subseteq Nat
      BY <1>2
    <2>2. PICK n \in Unbounded : \A m \in Unbounded : n <= m
      BY Zenon, <2>1, Least
    <2>3. n # 0
      <3>1. Bounds(0, 0)
        OBVIOUS
      <3> QED
        BY <2>2, <3>1
    <2>4. /\ n \in 1..Len(q) /\ n - 1 \in 0..Len(q) /\ ~(n <= n - 1)
          /\ \A k \in 1..n : k = n \/ k \in 1..n - 1
      <3>1. n \in 0..Len(q)
        BY Zenon, <2>2
      <3> HIDE DEF Unbounded
      <3> QED
        BY <1>2, <2>3, <3>1
    <2>5. PICK b \in Nat : Bounds(b, n - 1)
      BY Zenon, <2>2, <2>4
    <2>6. PICK x \in Nat : x = q[n]
      BY Zenon, <1>3, <2>4
    <2>7. \A k \in 1..n - 1 : k \in 1..Len(q)
      BY <1>2, <2>4
    <2>8. \A k \in 1..n : q[k] <= b + x
      <3> SUFFICES ASSUME NEW k \in 1..n PROVE q[k] <= b + x
        OBVIOUS
      <3>1. CASE k = n
        <4>1. x <= b + x
          OBVIOUS
        <4> QED
          BY Zenon, <2>6, <3>1, <4>1
      <3>2. CASE k \in 1..n - 1
        <4>1. PICK y \in Nat : y = q[k]
          BY Zenon, <1>3, <2>7, <3>2
        <4>2. y <= b
          BY Zenon, <2>5, <3>2, <4>1
        <4>3. y <= b + x
          BY <4>2
        <4> QED
          BY Zenon, <4>1, <4>3
      <3> QED
        BY Zenon, <2>4, <3>1, <3>2
    <2>9. b + x \in Nat
      OBVIOUS
    <2> QED
      BY Zenon, <2>2, <2>8, <2>9
  <1>5. Len(q) \in 0..Len(q)
    BY <1>2
  <1>6. PICK b \in Nat : Bounds(b, Len(q))
    BY Zenon, <1>4, <1>5
  <1> QED
    BY Zenon, <1>1, <1>6

\* A window begins at a tick there was.
LEMMA StartIsNat ==
    ASSUME NEW i \in Nat \ {0}, NEW t \in Nat PROVE WindowStart(i, t) \in Nat /\ WindowStart(i, t) <= t
  <1>1. t % i \in 0..(i - 1) /\ t = i * (t \div i) + (t % i) /\ t \div i \in Nat
    OBVIOUS
  <1>2. PICK q \in Nat, r \in 0..(i - 1) : q = t \div i /\ r = t % i
    BY Zenon, <1>1
  <1>3. i * q \in Nat
    OBVIOUS
  <1>4. PICK x \in Nat : x = i * q
    BY Zenon, <1>3
  <1>5. t = x + r
    BY Zenon, <1>1, <1>2, <1>4
  <1>6. WindowStart(i, t) = t - r
    BY Zenon, <1>2 DEF WindowStart
  <1>7. t - r \in Nat /\ t - r <= t
    BY <1>5
  <1> QED
    BY Zenon, <1>6, <1>7

\* The largest of some numbers that have a bound.
LEMMA MaxIsNat ==
    ASSUME NEW S, S \subseteq Nat, S # {}, NEW b \in Nat, \A x \in S : x <= b
    PROVE  Max(S) \in Nat
  <1> DEFINE D == {b - x : x \in S}
  <1>0. \A x \in S : b - x \in Nat
    <2> SUFFICES ASSUME NEW x \in S PROVE b - x \in Nat
      BY Zenon
    <2>1. x \in Nat /\ x <= b
      BY Zenon
    <2> QED
      BY <2>1
  <1>1. D \subseteq Nat /\ D # {}
    BY Zenon, <1>0
  <1>2. PICK d \in D : \A e \in D : d <= e
    BY Zenon, <1>1, Least
  <1>3. PICK x \in S : d = b - x
    BY Zenon, <1>2
  <1>4. \A y \in S : b - x <= b - y
    BY Zenon, <1>2, <1>3
  <1>5. \A y \in S : x >= y
    <2> SUFFICES ASSUME NEW y \in S PROVE x >= y
      BY Zenon
    <2>1. x \in Nat /\ y \in Nat /\ b - x <= b - y
      BY Zenon, <1>4
    <2> QED
      BY <2>1
  <1> QED
    BY Zenon, <1>3, <1>5 DEF Max

\* What Shape leaves open.
Rest ==
    /\ begun \in Nat /\ budget_until \in Nat /\ refused_until \in Nat
    /\ started_at \in [Intervals -> 0..now]
    /\ \A c \in Callers : calls[c].wake \in Nat

LEMMA StartedAtIsNat ==
    ASSUME Inv, Rest
    PROVE  /\ StartedAt \in [Intervals -> 0..now]
           /\ [i \in Intervals |-> WindowStart(i, now)] \in [Intervals -> 0..now]
  <1>1. \A i \in Intervals : WindowStart(i, now) \in 0..now /\ started_at[i] \in 0..now
    BY RequestAssumption, StartIsNat DEF Inv, Shape, Rest
  <1> QED
    BY <1>1 DEF StartedAt

\* A worker sleeps until a tick.
LEMMA WaitsForNat ==
    ASSUME Inv, Rest, NEW c \in Callers, Delays(c) # {}
    PROVE  Max({StartedAt[i] + i : i \in Delays(c)}) \in Nat
  <1> DEFINE S == {StartedAt[i] + i : i \in Delays(c)}
  <1>1. PICK b \in Nat : \A i \in Intervals : i <= b
    <2>1. IsFiniteSet(Intervals) /\ Intervals \subseteq Nat
      BY RequestAssumption
    <2> QED
      BY Zenon, <2>1, FiniteIsBounded
  <1>2. \A i \in Intervals : StartedAt[i] \in 0..now
    BY StartedAtIsNat
  <1>3. Delays(c) \subseteq Intervals /\ Intervals \subseteq Nat /\ now \in Nat
    BY RequestAssumption DEF Delays, Inv, Shape
  <1>4. now + b \in Nat /\ \A i \in Delays(c) : StartedAt[i] + i \in Nat /\ StartedAt[i] + i <= now + b
    <2> SUFFICES ASSUME NEW i \in Delays(c)
                 PROVE  /\ now + b \in Nat /\ StartedAt[i] + i \in Nat
                        /\ StartedAt[i] + i <= now + b
      BY <1>3
    <2>1. PICK a : a = StartedAt[i]
      BY Zenon
    <2>2. a \in 0..now /\ i \in Nat /\ i <= b
      BY Zenon, <1>1, <1>2, <1>3, <2>1
    <2> QED
      BY <1>3, <2>1, <2>2
  <1>5. S \subseteq Nat /\ S # {} /\ \A x \in S : x <= now + b
    BY Zenon, <1>4
  <1> HIDE DEF S
  <1>6. Max(S) \in Nat
    BY Zenon, <1>4, <1>5, MaxIsNat
  <1> QED
    BY <1>6 DEF S

\* One call changes, and it wakes up at a tick if at all.
LEMMA WakesKept ==
    ASSUME Inv, Rest, NEW c \in Callers, NEW k, k.wake \in Nat,
           calls' = [calls EXCEPT ![c] = k]
    PROVE  \A b \in Callers : calls'[b].wake \in Nat
  BY Zenon DEF Rest, Inv, Shape

LEMMA GoesKept ==
    ASSUME Inv, Rest, NEW c \in Callers, NEW step, Goes(c, step)
    PROVE  \A b \in Callers : calls'[b].wake \in Nat
  <1>1. PICK k : k = [calls[c] EXCEPT !.step = step]
    BY Zenon
  <1>2. calls[c] \in CallShape /\ calls[c].wake \in Nat
    BY Zenon DEF Rest, Inv, Shape
  <1>3. k.wake = calls[c].wake
    BY <1>1, <1>2 DEF CallShape
  <1> QED
    BY Zenon, <1>1, <1>2, <1>3, WakesKept DEF Goes

LEMMA EndsKept ==
    ASSUME Inv, Rest, NEW c \in Callers, Ends(c)
    PROVE  \A b \in Callers : calls'[b].wake \in Nat
  <1>1. Idle.wake \in Nat
    BY DEF Idle
  <1> QED
    BY Zenon, <1>1, WakesKept DEF Ends

\* Steps of a worker with the governor.
LEMMA GovernorTyped ==
    ASSUME Inv, Rest, NEW c \in Callers,
           \/ Begin(c) \/ Acquire(c) \/ ReserveRaises(c) \/ ReserveWaits(c) \/ WakeUp(c)
           \/ ReserveGrants(c) \/ Configure(c)
    PROVE  \A b \in Callers : calls'[b].wake \in Nat
  <1>1. CASE Begin(c)
    <2>1. PICK r \in Requests :
            calls' = [calls EXCEPT ![c] = [Idle EXCEPT !.step = "acquire", !.weight = r.weight,
                                            !.info = r.info, !.supplemental = r.supplemental]]
      BY Zenon, <1>1 DEF Begin
    <2>2. PICK k : k = [Idle EXCEPT !.step = "acquire", !.weight = r.weight,
                                    !.info = r.info, !.supplemental = r.supplemental]
      BY Zenon
    <2>3. k.wake \in Nat
      BY <2>2 DEF Idle
    <2> QED
      BY Zenon, <2>1, <2>2, <2>3, WakesKept
  <1>2. CASE Acquire(c) \/ WakeUp(c)
    BY Zenon, <1>2, GoesKept DEF Acquire, WakeUp
  <1>3. CASE ReserveRaises(c) \/ Configure(c)
    BY Zenon, <1>3, EndsKept DEF ReserveRaises, Configure
  <1>4. calls[c] \in CallShape /\ calls[c].wake \in Nat
    BY Zenon DEF Rest, Inv, Shape
  <1>5. CASE ReserveWaits(c)
    <2>1. PICK w \in Nat : w = Max({StartedAt[i] + i : i \in Delays(c)})
      BY Zenon, <1>5, WaitsForNat DEF ReserveWaits
    <2>2. PICK k : k = [calls[c] EXCEPT !.step = "asleep", !.wake = w]
      BY Zenon
    <2>3. k.wake \in Nat
      BY <1>4, <2>2 DEF CallShape
    <2>4. calls' = [calls EXCEPT ![c] = k]
      BY Zenon, <1>5, <2>1, <2>2 DEF ReserveWaits
    <2> QED
      BY Zenon, <2>3, <2>4, WakesKept
  <1>6. CASE ReserveGrants(c)
    <2>1. PICK k : k = [calls[c] EXCEPT !.step = "pace", !.clear = now >= banned_until]
      BY Zenon
    <2>2. k.wake \in Nat
      BY <1>4, <2>1 DEF CallShape
    <2>3. calls' = [calls EXCEPT ![c] = k]
      BY Zenon, <1>6, <2>1 DEF ReserveGrants
    <2> QED
      BY Zenon, <2>2, <2>3, WakesKept
  <1> QED
    BY Zenon, <1>1, <1>2, <1>3, <1>5, <1>6

\* Steps of a worker with the transport, and of the exchange.
LEMMA TransportTyped ==
    ASSUME Inv, Rest, NEW c \in Callers,
           \/ Pace(c) \/ PaceAgain(c) \/ Observe(c) \/ TransportFails(c) \/ RateLimited(c)
           \/ ReportToBudget(c) \/ ApplyRetryAfter(c) \/ Provider(c)
    PROVE  \A b \in Callers : calls'[b].wake \in Nat
  <1>1. calls[c] \in CallShape /\ calls[c].wake \in Nat /\ transport_until \in Nat
    BY Zenon DEF Rest, Inv, Shape
  <1>2. CASE Ends(c)
    BY Zenon, <1>2, EndsKept
  <1>3. CASE \E step : Goes(c, step)
    BY Zenon, <1>3, GoesKept
  <1>4. CASE Send(c)
    <2>1. PICK k : k = [calls[c] EXCEPT !.step = "sent", !.open = now >= refused_until]
      BY Zenon
    <2>2. k.wake \in Nat
      BY <1>1, <2>1 DEF CallShape
    <2>3. calls' = [calls EXCEPT ![c] = k]
      BY Zenon, <1>4, <2>1 DEF Send
    <2> QED
      BY Zenon, <2>2, <2>3, WakesKept
  <1>5. CASE calls' = [calls EXCEPT ![c].step = "waiting", ![c].wake = transport_until]
    <2>1. PICK k : k = [calls[c] EXCEPT !.step = "waiting", !.wake = transport_until]
      BY Zenon
    <2>2. k.wake \in Nat
      BY <1>1, <2>1 DEF CallShape
    <2>3. calls' = [calls EXCEPT ![c] = k]
      BY Zenon, <1>5, <2>1
    <2> QED
      BY Zenon, <2>2, <2>3, WakesKept
  <1>6. CASE calls' = [calls EXCEPT ![c] = [Idle EXCEPT !.step = "lost"]]
    <2>1. [Idle EXCEPT !.step = "lost"].wake \in Nat
      BY DEF Idle
    <2> QED
      BY Zenon, <1>6, <2>1, WakesKept
  <1>7. CASE Serve(c)
    <2>1. PICK k : k = [Idle EXCEPT !.step = "answered", !.info = calls[c].info,
                                    !.header = [i \in Reported |-> counted'[i]]]
      BY Zenon
    <2>2. k.wake \in Nat
      BY <2>1 DEF Idle
    <2> QED
      BY Zenon, <1>7, <2>1, <2>2, WakesKept DEF Serve
  <1>8. CASE Refuse(c) /\ ~Ends(c)
    <2>1. PICK banned, d :
            calls' = [calls EXCEPT ![c] = [Idle EXCEPT !.step = "refused", !.banned = banned,
                                                       !.duration = d]]
      BY Zenon, <1>8 DEF Refuse
    <2>2. PICK k : k = [Idle EXCEPT !.step = "refused", !.banned = banned, !.duration = d]
      BY Zenon
    <2>3. k.wake \in Nat
      BY <2>2 DEF Idle
    <2> QED
      BY Zenon, <2>1, <2>2, <2>3, WakesKept
  <1>9. CASE Pace(c) \/ PaceAgain(c)
    BY Zenon, <1>2, <1>4, <1>5, <1>9 DEF Pace, PaceAgain
  <1>10. CASE Observe(c)
    BY Zenon, <1>2, <1>3, <1>6, <1>10 DEF Observe
  <1>11. CASE TransportFails(c) \/ RateLimited(c) \/ ReportToBudget(c) \/ ApplyRetryAfter(c)
    BY Zenon, <1>2, <1>3, <1>11 DEF TransportFails, RateLimited, ReportToBudget, ApplyRetryAfter
  <1>12. CASE Provider(c)
    BY Zenon, <1>2, <1>6, <1>7, <1>8, <1>12 DEF Provider, Lose
  <1> QED
    BY Zenon, <1>9, <1>10, <1>11, <1>12

\* The windows and the times of a worker's step.
LEMMA TimesTyped ==
    ASSUME Inv, Rest, NEW c \in Callers, GetJson(c) \/ Provider(c)
    PROVE  /\ begun' \in Nat /\ budget_until' \in Nat /\ refused_until' \in Nat
           /\ started_at' \in [Intervals -> 0..now] /\ now' = now
  <1>0. /\ begun \in Nat /\ budget_until \in Nat /\ refused_until \in Nat /\ now \in Nat
        /\ calls[c].duration \in Nat
        /\ started_at \in [Intervals -> 0..now] /\ StartedAt \in [Intervals -> 0..now]
        /\ [i \in Intervals |-> WindowStart(i, now)] \in [Intervals -> 0..now]
    BY Zenon, StartedAtIsNat DEF Rest, Inv, Shape, CallShape
  <1>1. RetryUntil(c) \in Nat
    BY <1>0, RequestAssumption DEF RetryUntil, Largest
  <1>2. now' = now
    BY Zenon DEF GetJson, Provider, Begin, Acquire, ReserveRaises, ReserveWaits, WakeUp,
       ReserveGrants, Pace, PaceAgain, Observe, Configure, TransportFails, RateLimited,
       ReportToBudget, ApplyRetryAfter, Serve, Refuse, Lose
  <1>3. begun' = begun \/ begun' = begun + 1
    BY Zenon DEF GetJson, Provider, Begin, Acquire, ReserveRaises, ReserveWaits, WakeUp,
       ReserveGrants, Pace, PaceAgain, Observe, Configure, TransportFails, RateLimited,
       ReportToBudget, ApplyRetryAfter, Serve, Refuse, Lose
  <1>4. budget_until' = budget_until \/ budget_until' = Largest(budget_until, RetryUntil(c))
    BY Zenon DEF GetJson, Provider, Begin, Acquire, ReserveRaises, ReserveWaits, WakeUp,
       ReserveGrants, Pace, PaceAgain, Observe, Configure, TransportFails, RateLimited,
       ReportToBudget, ApplyRetryAfter, Serve, Refuse, Lose
  <1>5. refused_until' = refused_until
           \/ refused_until' = Largest(refused_until, now + calls[c].duration)
    BY Zenon DEF GetJson, Provider, Begin, Acquire, ReserveRaises, ReserveWaits, WakeUp,
       ReserveGrants, Pace, PaceAgain, Observe, Configure, TransportFails, RateLimited,
       ReportToBudget, ApplyRetryAfter, Serve, Refuse, Lose, history
  <1>6. \/ started_at' = started_at \/ started_at' = StartedAt
        \/ started_at' = [i \in Intervals |-> WindowStart(i, now)]
    BY Zenon DEF GetJson, Provider, Begin, Acquire, ReserveRaises, ReserveWaits, WakeUp,
       ReserveGrants, Pace, PaceAgain, Observe, Configure, TransportFails, RateLimited,
       ReportToBudget, ApplyRetryAfter, Serve, Refuse, Lose, governor, ResetElapsedWindows
  <1> QED
    BY <1>0, <1>1, <1>2, <1>3, <1>4, <1>5, <1>6 DEF Largest

LEMMA RestStep == Inv /\ Rest /\ [RequestsNext]_requestVars => Rest'
  <1> SUFFICES ASSUME Inv, Rest, [RequestsNext]_requestVars PROVE Rest'
    OBVIOUS
  <1>1. ASSUME NEW c \in Callers, GetJson(c) \/ Provider(c) PROVE Rest'
    <2>1. \A b \in Callers : calls'[b].wake \in Nat
      BY Zenon, <1>1, GovernorTyped, TransportTyped DEF GetJson
    <2> QED
      BY <1>1, <2>1, TimesTyped DEF Rest
  <1>2. CASE Tick
    BY <1>2 DEF Tick, Rest, governor, Inv, Shape
  <1>3. CASE UNCHANGED requestVars
    BY Zenon, <1>3 DEF requestVars, governor, history, Rest
  <1> QED
    BY Zenon, <1>1, <1>2, <1>3 DEF RequestsNext

\* The governor, the budget, the transport and the calls keep their types; in
\* particular reserve never has a worker wait for something that is no time.
THEOREM RequestsTyped == RequestsSpec => []RequestTypeOK
  <1>1. RequestsInit => Inv /\ Rest
    <2>1. RequestsInit => Rest
      BY DEF RequestsInit, Rest, Idle
    <2> QED
      BY Zenon, <2>1, InitInv
  <1>2. (Inv /\ Rest) /\ [RequestsNext]_requestVars => (Inv /\ Rest)'
    BY Zenon, StepInv, RestStep
  <1>3. Inv /\ Rest => RequestTypeOK
    <2> SUFFICES ASSUME Inv, Rest PROVE RequestTypeOK
      OBVIOUS
    <2>1. started_at \in [Intervals -> Nat] /\ banned_until \in Nat
      BY DEF Rest, Inv, Shape, RequestInv
    <2>2. \A c \in Callers : calls[c] \in CallType
      BY Zenon DEF Rest, Inv, Shape, CallShape, CallType
    <2>3. calls \in [Callers -> CallType]
      BY <2>2 DEF Inv, Shape
    <2> QED
      BY <2>1, <2>3 DEF Rest, Inv, Shape, RequestTypeOK
  <1> QED
    BY <1>1, <1>2, <1>3, PTL DEF RequestsSpec
=============================================================================
