--------------------------- MODULE PublicRequests ---------------------------
(* How the workers that collect public market data share the request budget   *)
(* of one exchange host: MeteredPublicTransport.get_json, which asks           *)
(* PublicRequestBudget (both in data/market_history_continuous.py), which asks *)
(* WeightedRateLimitGovernor (exchange/rate_limit.py).                         *)
(*                                                                            *)
(* Each part of get_json that runs under one lock, or between two of them, is *)
(* one action of its worker. The clock is a number of ticks, the same for     *)
(* time.time and time.monotonic, and any number of steps fit into a tick.     *)
(* Pauses that only delay a worker (the bootstrap pacing, the minimum         *)
(* interval, the interval of funding requests) are left to the scheduler. The *)
(* exchange is external: it counts the weight of what arrives per window,     *)
(* reports it in the headers of an answer, refuses with 429 or 418 when it    *)
(* likes, and may not be reached.                                             *)
EXTENDS Integers, FiniteSetsExt

CONSTANTS
    Callers,            \* worker threads
    Requests,           \* requests: weight, whether exchangeInfo, whether of priority SUPPLEMENTAL
    Limit,              \* the exchange's REQUEST_WEIGHT limits: interval in ticks -> limit
    Reported,           \* intervals whose use the headers report (1s, 1m, 1h, 1d)
    Warning, Throttle, HardStop,    \* RateLimitBands, in percent
    Transient,          \* _TRANSIENT_COOLDOWN_WAIT_SECONDS and the cooldown of a transport error
    RetryAfters,        \* values of the Retry-After header, 0 for none
    LimitedDefault, BannedDefault,  \* cooldowns of a 429 and a 418 without the header
    LimitedMinimum, BannedMinimum,  \* the shortest cooldowns of budget and governor
    MaxTime,            \* bound: the last tick
    MaxCalls            \* bound: get_json calls in all

Intervals == DOMAIN Limit

ASSUME RequestAssumption ==
    /\ Requests \subseteq [weight : Nat \ {0}, info : BOOLEAN, supplemental : BOOLEAN]
    /\ Intervals \subseteq Nat \ {0} /\ IsFiniteSet(Intervals)
    /\ Limit \in [Intervals -> Nat \ {0}]
    /\ Reported \subseteq Intervals
    /\ {Warning, Throttle, HardStop, Transient, LimitedDefault, BannedDefault,
        LimitedMinimum, BannedMinimum, MaxTime, MaxCalls} \subseteq Nat
    /\ RetryAfters \subseteq Nat
    /\ Warning < Throttle /\ Throttle < HardStop /\ HardStop < 100

VARIABLES
    now,                \* the clock
    configured,         \* the governor has windows
    used, started_at,   \* the governor's windows
    cooldown_until,     \* of the governor
    budget_until,       \* cooldown_until of the budget
    transport_until,    \* cooldown_until of the transport
    calls,              \* the get_json call of every worker
    begun,              \* calls begun so far
    counted,            \* exchange: the weight it counted in the current window
    granted,            \* history: the weight reserve let through in the current window
    allowances,         \* history: how often the current window was opened with used = 0
    banned_until,       \* history: the end of every cooldown the governor was told of
    refused_until       \* history: the end of every long cooldown the transport recorded

governor == <<configured, used, started_at, cooldown_until>>
history == <<granted, allowances, banned_until, refused_until>>
requestVars == <<now, governor, budget_until, transport_until, calls, begun, counted, history>>

-----------------------------------------------------------------------------
Largest(a, b) == IF a > b THEN a ELSE b

\* A worker without a call. clear: let through by the governor outside every
\* cooldown it had been told of; open: sent outside every long cooldown.
Idle == [step |-> "idle", weight |-> 0, info |-> FALSE, supplemental |-> FALSE, wake |-> 0,
         banned |-> FALSE, duration |-> 0, header |-> [i \in Reported |-> 0],
         clear |-> TRUE, open |-> TRUE]

At(c, step) == calls[c].step = step

Goes(c, step) == calls' = [calls EXCEPT ![c].step = step]

\* The call returns or raises.
Ends(c) == calls' = [calls EXCEPT ![c] = Idle]

WindowStart(i, time) == time - (time % i)

(* _reset_elapsed_windows. *)
Elapsed(i) == WindowStart(i, now) > started_at[i]

Used == [i \in Intervals |-> IF Elapsed(i) THEN 0 ELSE used[i]]

StartedAt == [i \in Intervals |-> IF Elapsed(i) THEN WindowStart(i, now) ELSE started_at[i]]

ResetElapsedWindows == used' = Used /\ started_at' = StartedAt

-----------------------------------------------------------------------------
(* PublicRequestBudget.acquire and WeightedRateLimitGovernor.reserve.        *)

\* get_json begins: the budget's cooldown is looked at.
Begin(c) ==
    /\ At(c, "idle")
    /\ now >= budget_until
    /\ begun < MaxCalls
    /\ begun' = begun + 1
    /\ \E r \in Requests :
          calls' = [calls EXCEPT ![c] = [Idle EXCEPT !.step = "acquire", !.weight = r.weight,
                                          !.info = r.info, !.supplemental = r.supplemental]]
    /\ UNCHANGED <<now, governor, budget_until, transport_until, counted, history>>

\* With windows the governor decides, without them the request is only paced.
Acquire(c) ==
    /\ At(c, "acquire")
    /\ IF configured THEN Goes(c, "reserve") /\ ResetElapsedWindows
       ELSE Goes(c, "pace") /\ UNCHANGED <<used, started_at>>
    /\ UNCHANGED <<now, begun, configured, cooldown_until, budget_until, transport_until, counted,
                   history>>

Reaches(c, i, percent) == 100 * (Used[i] + calls[c].weight) >= percent * Limit[i]

Stops(c) == \E i \in Intervals : Reaches(c, i, HardStop)

\* Mutant: the throttle looks at what was used before this request.
DelaysLate(c) ==
    {i \in Intervals : \/ 100 * Used[i] >= Throttle * Limit[i]
                       \/ Reaches(c, i, Warning) /\ calls[c].supplemental}

Delays(c) ==
    {i \in Intervals : \/ Reaches(c, i, Throttle)
                       \/ Reaches(c, i, Warning) /\ calls[c].supplemental}

\* reserve in a cooldown, or at the hard stop.
ReserveRaises(c) ==
    /\ At(c, "reserve")
    /\ IF now < cooldown_until THEN UNCHANGED <<used, started_at>>
       ELSE Stops(c) /\ ResetElapsedWindows
    /\ Ends(c)
    /\ UNCHANGED <<now, begun, configured, cooldown_until, budget_until, transport_until, counted,
                   history>>

\* The worker sleeps until the last of the crowded windows is over.
ReserveWaits(c) ==
    /\ At(c, "reserve")
    /\ now >= cooldown_until
    /\ ~Stops(c)
    /\ Delays(c) # {}
    /\ ResetElapsedWindows
    /\ calls' = [calls EXCEPT ![c].step = "asleep",
                              ![c].wake = Max({StartedAt[i] + i : i \in Delays(c)})]
    /\ UNCHANGED <<now, begun, configured, cooldown_until, budget_until, transport_until, counted,
                   history>>

WakeUp(c) ==
    /\ At(c, "asleep")
    /\ now >= calls[c].wake
    /\ Goes(c, "reserve")
    /\ UNCHANGED <<now, begun, governor, budget_until, transport_until, counted, history>>

\* Mutant: the cooldown is not looked at again when the lock is taken.
ReserveGrantsBlind(c) ==
    /\ At(c, "reserve")
    /\ ~Stops(c)
    /\ Delays(c) = {}
    /\ used' = [i \in Intervals |-> Used[i] + calls[c].weight]
    /\ started_at' = StartedAt
    /\ granted' = [i \in Intervals |-> granted[i] + calls[c].weight]
    /\ calls' = [calls EXCEPT ![c].step = "pace", ![c].clear = now >= banned_until]
    /\ UNCHANGED <<now, begun, configured, cooldown_until, budget_until, transport_until, counted,
                   allowances, banned_until, refused_until>>

ReserveGrants(c) ==
    /\ At(c, "reserve")
    /\ now >= cooldown_until
    /\ ~Stops(c)
    /\ Delays(c) = {}
    /\ used' = [i \in Intervals |-> Used[i] + calls[c].weight]
    /\ started_at' = StartedAt
    /\ granted' = [i \in Intervals |-> granted[i] + calls[c].weight]
    /\ calls' = [calls EXCEPT ![c].step = "pace", ![c].clear = now >= banned_until]
    /\ UNCHANGED <<now, begun, configured, cooldown_until, budget_until, transport_until, counted,
                   allowances, banned_until, refused_until>>

-----------------------------------------------------------------------------
(* MeteredPublicTransport.get_json, under the pacing lock.                   *)

PaceLockFree == \A c \in Callers : ~At(c, "waiting")

Send(c) ==
    calls' = [calls EXCEPT ![c].step = "sent", ![c].open = now >= refused_until]

Pace(c) ==
    /\ At(c, "pace")
    /\ PaceLockFree
    /\ \/ transport_until <= now /\ Send(c)
       \/ /\ transport_until - now \in 1..Transient
          /\ calls' = [calls EXCEPT ![c].step = "waiting", ![c].wake = transport_until]
       \/ transport_until - now > Transient /\ Ends(c)
    /\ UNCHANGED <<now, begun, governor, budget_until, transport_until, counted, history>>

\* A short cooldown was waited for with the lock held.
PaceAgain(c) ==
    /\ At(c, "waiting")
    /\ now >= calls[c].wake
    /\ IF transport_until > now THEN Ends(c) ELSE Send(c)
    /\ UNCHANGED <<now, begun, governor, budget_until, transport_until, counted, history>>

-----------------------------------------------------------------------------
(* The exchange. Of an answered call only the answer matters.               *)

Counts(c) == counted' = [i \in Intervals |-> counted[i] + calls[c].weight]

Serve(c) ==
    /\ At(c, "sent")
    /\ Counts(c)
    /\ calls' = [calls EXCEPT ![c] = [Idle EXCEPT !.step = "answered", !.info = calls[c].info,
                                        !.header = [i \in Reported |-> counted'[i]]]]
    /\ UNCHANGED <<now, begun, governor, budget_until, transport_until, history>>

\* HTTP 429 or 418, or another error that the caller only raises.
Refuse(c) ==
    /\ At(c, "sent")
    /\ Counts(c)
    /\ \/ \E banned \in BOOLEAN, retryAfter \in RetryAfters :
             calls' = [calls EXCEPT ![c] = [Idle EXCEPT
                 !.step = "refused", !.banned = banned,
                 !.duration = IF retryAfter # 0 THEN retryAfter
                              ELSE IF banned THEN BannedDefault ELSE LimitedDefault]]
       \/ Ends(c)
    /\ UNCHANGED <<now, begun, governor, budget_until, transport_until, history>>

Lose(c) ==
    /\ At(c, "sent")
    /\ Counts(c) \/ UNCHANGED counted
    /\ calls' = [calls EXCEPT ![c] = [Idle EXCEPT !.step = "lost"]]
    /\ UNCHANGED <<now, begun, governor, budget_until, transport_until, history>>

-----------------------------------------------------------------------------
(* What the caller makes of the answer.                                     *)

\* observe_headers; then the payload, which may be late or unusable.
Observe(c) ==
    /\ At(c, "answered")
    /\ IF configured
       THEN /\ used' = [i \in Intervals |-> IF i \in Reported
                                            THEN Largest(Used[i], calls[c].header[i]) ELSE Used[i]]
            /\ started_at' = StartedAt
       ELSE UNCHANGED <<used, started_at>>
    /\ \/ Ends(c)
       \/ calls' = [calls EXCEPT ![c] = [Idle EXCEPT !.step = "lost"]]
       \/ calls[c].info /\ Goes(c, "configure")
    /\ UNCHANGED <<now, begun, configured, cooldown_until, budget_until, transport_until, counted,
                   history>>

\* configure_from_exchange_info: new windows, in which nothing is used.
Configure(c) ==
    /\ At(c, "configure")
    /\ configured' = TRUE
    /\ used' = [i \in Intervals |-> 0]
    /\ started_at' = [i \in Intervals |-> WindowStart(i, now)]
    /\ allowances' = [i \in Intervals |-> IF configured THEN allowances[i] + 1 ELSE allowances[i]]
    /\ Ends(c)
    /\ UNCHANGED <<now, begun, cooldown_until, budget_until, transport_until, counted, granted,
                   banned_until, refused_until>>

\* ExchangeTransportError: a short cooldown of the transport, set without a lock.
TransportFails(c) ==
    /\ At(c, "lost")
    /\ transport_until' = now + Transient
    /\ Ends(c)
    /\ UNCHANGED <<now, begun, governor, budget_until, counted, history>>

\* ExchangeRateLimitError: the transport, the budget and the governor are told.
RateLimited(c) ==
    /\ At(c, "refused")
    /\ transport_until' = now + calls[c].duration
    /\ refused_until' = IF calls[c].duration > Transient
                        THEN Largest(refused_until, now + calls[c].duration) ELSE refused_until
    /\ Goes(c, "report")
    /\ UNCHANGED <<now, begun, governor, budget_until, counted, granted, allowances, banned_until>>

RetryUntil(c) ==
    now + Largest(IF calls[c].banned THEN BannedMinimum ELSE LimitedMinimum, calls[c].duration)

ReportToBudget(c) ==
    /\ At(c, "report")
    /\ budget_until' = Largest(budget_until, RetryUntil(c))
    /\ Goes(c, "tell")
    /\ UNCHANGED <<now, begun, governor, transport_until, counted, history>>

(* WeightedRateLimitGovernor.apply_retry_after. *)
ApplyRetryAfter(c) ==
    /\ At(c, "tell")
    /\ cooldown_until' = Largest(cooldown_until, RetryUntil(c))
    /\ banned_until' = Largest(banned_until, RetryUntil(c))
    /\ Ends(c)
    /\ UNCHANGED <<now, begun, configured, used, started_at, budget_until, transport_until, counted,
                   granted, allowances, refused_until>>

-----------------------------------------------------------------------------
\* A tick; the exchange's windows begin anew at the multiples of their length.
Tick ==
    /\ now < MaxTime
    /\ now' = now + 1
    /\ LET fresh == {i \in Intervals : now' % i = 0}
       IN  /\ counted' = [i \in Intervals |-> IF i \in fresh THEN 0 ELSE counted[i]]
           /\ granted' = [i \in Intervals |-> IF i \in fresh THEN 0 ELSE granted[i]]
           /\ allowances' = [i \in Intervals |-> IF i \in fresh THEN 1 ELSE allowances[i]]
    /\ UNCHANGED <<begun, governor, budget_until, transport_until, calls, banned_until,
                   refused_until>>

RequestsInit ==
    /\ now = 0
    /\ configured = FALSE
    /\ used = [i \in Intervals |-> 0]
    /\ started_at = [i \in Intervals |-> 0]
    /\ cooldown_until = 0
    /\ budget_until = 0
    /\ transport_until = 0
    /\ calls = [c \in Callers |-> Idle]
    /\ begun = 0
    /\ counted = [i \in Intervals |-> 0]
    /\ granted = [i \in Intervals |-> 0]
    /\ allowances = [i \in Intervals |-> 1]
    /\ banned_until = 0
    /\ refused_until = 0

Provider(c) == Serve(c) \/ Refuse(c) \/ Lose(c)

GetJson(c) ==
    \/ Begin(c) \/ Acquire(c) \/ ReserveRaises(c) \/ ReserveWaits(c) \/ WakeUp(c)
    \/ ReserveGrants(c) \/ Pace(c) \/ PaceAgain(c) \/ Observe(c) \/ Configure(c)
    \/ TransportFails(c) \/ RateLimited(c) \/ ReportToBudget(c) \/ ApplyRetryAfter(c)

RequestsNext == Tick \/ \E c \in Callers : GetJson(c) \/ Provider(c)

RequestsSpec == RequestsInit /\ [][RequestsNext]_requestVars

-----------------------------------------------------------------------------
(* Properties.                                                              *)

Steps == {"idle", "acquire", "reserve", "asleep", "pace", "waiting", "sent", "answered",
          "configure", "lost", "refused", "report", "tell"}

CallType == [step : Steps, weight : Nat, info : BOOLEAN, supplemental : BOOLEAN, wake : Nat,
             banned : BOOLEAN, duration : Nat, header : [Reported -> Nat],
             clear : BOOLEAN, open : BOOLEAN]

\* Every variable holds a value of its kind.
RequestTypeOK ==
    /\ {now, cooldown_until, budget_until, transport_until, banned_until, refused_until,
        begun} \subseteq Nat
    /\ configured \in BOOLEAN
    /\ {used, started_at, counted, granted, allowances} \subseteq [Intervals -> Nat]
    /\ calls \in [Callers -> CallType]

\* "Reserve weighted REST capacity": however many workers reserve, wait and
\* are answered late, what they are let through with in one window stays below
\* the throttle band, once for the window and once more for every exchangeInfo
\* answer that replaced it.
AllowancePerWindow ==
    \A i \in Intervals : granted[i] > 0 =>
       100 * granted[i] < allowances[i] * (Throttle * Limit[i])

\* "Enter a monotonic cooldown after 429 or 418 responses": what the governor
\* lets through, it lets through outside every cooldown it was told of, in
\* whatever order the answers to concurrent requests are applied.
ClearOfBans == \A c \in Callers : calls[c].clear

\* "Long rate-limit and ban cooldowns continue to fail closed immediately": no
\* request leaves the transport while a long cooldown it recorded is in force.
BansFailClosed == \A c \in Callers : calls[c].open
-----------------------------------------------------------------------------
(* The inductive invariant.                                                 *)

\* Without windows nothing was granted, and nobody asks.
ConfiguredFirst ==
    ~configured => /\ \A i \in Intervals : granted[i] = 0
                   /\ \A c \in Callers : ~At(c, "reserve") /\ ~At(c, "asleep")

\* What was granted and does not count as used was granted before the window
\* was last replaced.
AllowanceKept ==
    \A i \in Intervals :
       /\ allowances[i] >= 1
       /\ 100 * (granted[i] - Used[i]) <= (allowances[i] - 1) * (Throttle * Limit[i])

RequestInv ==
    /\ banned_until = cooldown_until
    /\ ClearOfBans
    /\ ConfiguredFirst
    /\ AllowanceKept
    /\ AllowancePerWindow
=============================================================================
