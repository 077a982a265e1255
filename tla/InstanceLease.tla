--------------------------- MODULE InstanceLease ---------------------------
(***************************************************************************)
(* The lock file that keeps one instance of a resident daemon running      *)
(* (SingleInstanceLease of ops/runtime.py), at the granularity of its      *)
(* system calls.  A process looks for the file, reads the owner recorded   *)
(* in it, asks the operating system whether that owner is alive, removes   *)
(* the file when it is not, creates it exclusively, and writes its own     *)
(* name into the descriptor it created.  Any two of these calls may be     *)
(* separated by a step of another process, or by a crash.                  *)
(*                                                                         *)
(* A start of a daemon is numbered, and the number stands for the pid and  *)
(* the process marker the code records.  A dead owner whose pid was given  *)
(* to another process looks alive where that process has no marker (every  *)
(* platform but Windows) or one that cannot be read, so the verdict on a   *)
(* dead owner may go either way.                                           *)
(***************************************************************************)
EXTENDS Integers, FiniteSets

CONSTANTS
    Daemons,      \* the service entries that may be started
    MaxStarts,    \* bound: starts in a behaviour
    MarkerTells   \* no process that got the pid of a dead owner is taken for it: start
                  \* markers are recorded (Windows), and every process's can be read

ASSUME LeaseAssumption == MaxStarts \in Nat /\ MarkerTells \in BOOLEAN

VARIABLES
    lock,     \* the lock file: whether it exists, who created it, the owner written in it
    phase,    \* where each daemon is in acquire and release
    me,       \* the number of each daemon's current start, 0 when it is off
    seen,     \* the owner each daemon read from the file, while it decides on it
    starts    \* starts so far

leaseVars == <<lock, phase, me, seen, starts>>

Acquiring == {"exists", "read", "probe", "unlink", "create", "write"}
Phases == Acquiring \cup {"off", "held"}

\* An owner of 0 is the file between its creation and the write of the name.
NoLock == [exists |-> FALSE, creator |-> 0, owner |-> 0]

LeaseInit ==
    /\ lock = NoLock
    /\ phase = [d \in Daemons |-> "off"]
    /\ me = [d \in Daemons |-> 0]
    /\ seen = [d \in Daemons |-> 0]
    /\ starts = 0

Live == {me[d] : d \in {x \in Daemons : phase[x] # "off"}}

\* Mutant: a probe of a process that may not be signalled counts as dead.
VerdictsDead(owner) == {FALSE}

\* Mutant: any recorded owner counts as alive.
VerdictsAlive(owner) == {TRUE}

\* lock_owner_is_active: what the operating system may answer about an owner. An
\* owner without a recorded marker, and a process whose marker cannot be read,
\* count as active when the pid is alive.
Verdicts(owner) ==
    IF owner \in Live THEN {TRUE} ELSE IF MarkerTells THEN {FALSE} ELSE BOOLEAN

Goto(d, p) == phase' = [phase EXCEPT ![d] = p]

\* The process ends: with an error, after its release, or in a crash.
Ends(d) ==
    /\ Goto(d, "off")
    /\ me' = [me EXCEPT ![d] = 0]
    /\ seen' = [seen EXCEPT ![d] = 0]

Start(d) ==
    /\ phase[d] = "off" /\ starts < MaxStarts
    /\ starts' = starts + 1
    /\ me' = [me EXCEPT ![d] = starts + 1]
    /\ Goto(d, "exists")
    /\ UNCHANGED <<lock, seen>>

\* _remove_stale_lease: path.exists().
LookForFile(d) ==
    /\ phase[d] = "exists"
    /\ Goto(d, IF lock.exists THEN "read" ELSE "create")
    /\ UNCHANGED <<lock, me, seen, starts>>

\* _read_lock_owner: a file that is gone again or holds no name yet is invalid,
\* and the start ends with "manual review required".
ReadOwner(d) ==
    /\ phase[d] = "read"
    /\ IF lock.exists /\ lock.owner # 0
       THEN /\ seen' = [seen EXCEPT ![d] = lock.owner]
            /\ Goto(d, "probe")
            /\ UNCHANGED me
       ELSE Ends(d)
    /\ UNCHANGED <<lock, starts>>

ProbeOwner(d) ==
    /\ phase[d] = "probe"
    /\ \E active \in Verdicts(seen[d]) :
          /\ Goto(d, IF active THEN "create" ELSE "unlink")
          /\ seen' = [seen EXCEPT ![d] = IF active THEN 0 ELSE @]
    /\ UNCHANGED <<lock, me, starts>>

\* path.unlink(missing_ok=True): whatever file has the name now.
RemoveStale(d) ==
    /\ phase[d] = "unlink"
    /\ lock' = NoLock
    /\ Goto(d, "create")
    /\ seen' = [seen EXCEPT ![d] = 0]
    /\ UNCHANGED <<me, starts>>

\* os.open with O_CREAT | O_EXCL.
CreateFile(d) ==
    /\ phase[d] = "create"
    /\ IF lock.exists
       THEN Ends(d) /\ UNCHANGED lock
       ELSE /\ lock' = [exists |-> TRUE, creator |-> me[d], owner |-> 0]
            /\ Goto(d, "write")
            /\ UNCHANGED <<me, seen>>
    /\ UNCHANGED starts

\* os.write goes to the file the descriptor was opened on: when that one was
\* unlinked meanwhile, the file that has the name now is not touched.
WriteOwner(d) ==
    /\ phase[d] = "write"
    /\ lock' = IF lock.exists /\ lock.creator = me[d]
               THEN [lock EXCEPT !.owner = me[d]] ELSE lock
    /\ Goto(d, "held")
    /\ UNCHANGED <<me, seen, starts>>

\* release: unlinks the path without looking whose file it is.
Release(d) ==
    /\ phase[d] = "held"
    /\ lock' = NoLock
    /\ Ends(d)
    /\ UNCHANGED starts

Die(d) ==
    /\ phase[d] # "off"
    /\ Ends(d)
    /\ UNCHANGED <<lock, starts>>

AcquireStep(d) ==
    \/ LookForFile(d) \/ ReadOwner(d) \/ ProbeOwner(d)
    \/ RemoveStale(d) \/ CreateFile(d) \/ WriteOwner(d)

\* An operator or a service manager that starts one daemon at a time.
NobodyAcquires(d) == \A x \in Daemons \ {d} : phase[x] \notin Acquiring

LeaseNext == \E d \in Daemons : Start(d) \/ AcquireStep(d) \/ Release(d) \/ Die(d)

SerialNext ==
    \E d \in Daemons :
        \/ Start(d) /\ NobodyAcquires(d)
        \/ AcquireStep(d) \/ Release(d) \/ Die(d)

LeaseSpec == LeaseInit /\ [][LeaseNext]_leaseVars
SerialSpec == LeaseInit /\ [][SerialNext]_leaseVars

----------------------------------------------------------------------------

LeaseTypeOK ==
    /\ lock \in [exists : BOOLEAN, creator : 0 .. MaxStarts, owner : 0 .. MaxStarts]
    /\ phase \in [Daemons -> Phases]
    /\ me \in [Daemons -> 0 .. MaxStarts]
    /\ seen \in [Daemons -> 0 .. MaxStarts]
    /\ starts \in 0 .. MaxStarts

\* "single-instance lock, stale-PID recovery": two daemons never run at the
\* same time, whatever starts, stops and crashes came before.
SingleInstance ==
    \A d, x \in Daemons : phase[d] = "held" /\ phase[x] = "held" => d = x

\* Why one start at a time is enough: the start under way is the only one that
\* touches the file, a holder's name is in it, and a name found stale stays stale.
HolderNamed == \A d \in Daemons : phase[d] = "held" => lock.exists /\ lock.owner = me[d]
CreatorWrites ==
    \A d \in Daemons : phase[d] = "write" =>
        lock.exists /\ lock.creator = me[d] /\ \A x \in Daemons : phase[x] # "held"
StaleStays ==
    \A d \in Daemons :
        /\ phase[d] \in {"probe", "unlink"} /\ lock.exists => lock.owner = seen[d]
        /\ phase[d] = "unlink" => seen[d] \notin Live
NamesDiffer ==
    \A d, x \in Daemons : phase[d] # "off" =>
        /\ me[d] \in 1 .. starts
        /\ phase[x] # "off" /\ me[d] = me[x] => d = x
OneAcquires ==
    \A d, x \in Daemons : phase[d] \in Acquiring /\ phase[x] \in Acquiring => d = x

LeaseInv ==
    LeaseTypeOK /\ OneAcquires /\ NamesDiffer /\ HolderNamed /\ CreatorWrites /\ StaleStays
============================================================================
