--------------------------- MODULE MCEventRuntime ---------------------------
(* Two processes on one journal; the .cfg files choose the consumers and   *)
(* the number of events.                                                   *)
EXTENDS EventRuntime

\* Symmetry is not sound for liveness; instead identities are numbers
\* and are used in order, which loses no behaviour up to renaming.
IdsInOrder == \A i \in 1..Len(disk') : disk'[i].event_id = i

MCNext == Next /\ IdsInOrder

RestartSpec == Init /\ [][MCNext]_vars /\ CallFairness /\ RestartFairness
=============================================================================
