---------------------------- MODULE DurableTopic ----------------------------
(***************************************************************************)
(* What the event runtime promises, without files, caches, locks or        *)
(* processes: one log that only grows, event by event, and for each        *)
(* consumer an acknowledged position.  The event handed to a consumer is   *)
(* always the one behind its acknowledged position; handing it may fail to *)
(* be acknowledged, and it is then handed again.                           *)
(***************************************************************************)
EXTENDS Integers, Sequences

CONSTANT Consumers

VARIABLES
    log,       \* the published events, oldest first
    acked,     \* acked[c]: how many events consumer c has acknowledged
    handed     \* handed[c]: how many events consumer c was ever handed

vars == <<log, acked, handed>>

Init ==
    /\ log = <<>>
    /\ acked = [c \in Consumers |-> 0]
    /\ handed = [c \in Consumers |-> 0]

\* One event is added behind the others.
Publish ==
    /\ Len(log') = Len(log) + 1
    /\ \A i \in 1..Len(log) : log'[i] = log[i]
    /\ UNCHANGED <<acked, handed>>

Deliver(c) ==
    /\ acked[c] < Len(log)
    /\ handed' = [handed EXCEPT ![c] = acked[c] + 1]
    /\ acked' \in {acked, [acked EXCEPT ![c] = acked[c] + 1]}
    /\ UNCHANGED log

Next == Publish \/ \E c \in Consumers : Deliver(c)

Spec == Init /\ [][Next]_vars
=============================================================================
