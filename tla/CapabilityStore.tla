-------------------------- MODULE CapabilityStore --------------------------
(***************************************************************************)
(* The single-use capability leases of governed tools                      *)
(* (governance/capability_store.py, kept in an SQLite file) and the        *)
(* enforcement receipts bound to them (governance/enforcement/receipt.py). *)
(*                                                                         *)
(* consume reads the clock, then reads the row, and only its UPDATE opens  *)
(* the IMMEDIATE transaction: Python starts one before a statement that    *)
(* writes, never before a SELECT.  Check and update are two steps here.    *)
(* The fields a lease is bound to are one: the object presented is the one *)
(* that was issued, or it is altered.                                      *)
(***************************************************************************)
EXTENDS Integers

CONSTANTS
    Leases,           \* lease identities
    Executions,       \* execution identities
    NoExecution,
    Users,            \* threads that consume leases
    Ttl,              \* ttl_seconds
    MaxInstant        \* bound: the last instant

ASSUME CapabilityAssumption ==
    /\ NoExecution \notin Executions
    /\ Ttl \in Nat \ {0} /\ MaxInstant \in Nat

VARIABLES
    instant,
    rows,             \* the table: a row for each lease issued
    consuming,        \* the consume call of each user
    granted,          \* the consumed leases that consume returned
    receipts          \* the enforcement receipts

capabilityVars == <<instant, rows, consuming, granted, receipts>>

NoRow == [issued |-> FALSE]
NoUse == [step |-> "idle"]
Unconsumed == -1

CapabilityInit ==
    /\ instant = 0
    /\ rows = [l \in Leases |-> NoRow]
    /\ consuming = [u \in Users |-> NoUse]
    /\ granted = {} /\ receipts = {}

\* issue: a row that is not consumed, for a lease nobody had.
Issue(l) ==
    /\ ~rows[l].issued
    /\ rows' = [rows EXCEPT ![l] = [issued |-> TRUE, expires |-> instant + Ttl,
                                    consumed |-> Unconsumed, execution |-> NoExecution]]
    /\ UNCHANGED <<instant, consuming, granted, receipts>>

\* consume reads the clock,
Consume(u, l, x) ==
    /\ consuming[u] = NoUse
    /\ consuming' = [consuming EXCEPT ![u] =
          [step |-> "check", lease |-> l, execution |-> x, at |-> instant]]
    /\ UNCHANGED <<instant, rows, granted, receipts>>

Done(u) == consuming' = [consuming EXCEPT ![u] = NoUse]

\* Registered, bound as presented, not consumed, not expired.
Consumable(row, genuine, at) ==
    row.issued /\ genuine /\ row.consumed = Unconsumed /\ at <= row.expires

\* checks the row,
Check(u, genuine) ==
    /\ consuming[u].step = "check"
    /\ IF Consumable(rows[consuming[u].lease], genuine, consuming[u].at)
       THEN consuming' = [consuming EXCEPT ![u].step = "update"]
       ELSE Done(u)
    /\ UNCHANGED <<instant, rows, granted, receipts>>

\* Mutant: the update trusts the check that was made before the transaction.
UpdateTakesAny(l, x) == \A k \in Leases : rows[k].issued => rows[k].execution # x

\* The UPDATE changes the row: WHERE consumed_at IS NULL, execution_id UNIQUE.
UpdateTakes(l, x) ==
    /\ rows[l].consumed = Unconsumed
    /\ \A k \in Leases : rows[k].issued => rows[k].execution # x

Use(u) == [lease |-> consuming[u].lease, execution |-> consuming[u].execution,
           at |-> consuming[u].at]

\* updates and commits; an update that takes no row, or a second one for the
\* execution, raises.  The process may die before the call returns.
Update(u, dies) ==
    /\ consuming[u].step = "update"
    /\ LET c == consuming[u]
       IN  IF UpdateTakes(c.lease, c.execution)
           THEN /\ rows' = [rows EXCEPT ![c.lease] =
                             [@ EXCEPT !.consumed = c.at, !.execution = c.execution]]
                /\ granted' = IF dies THEN granted ELSE granted \cup {Use(u)}
           ELSE UNCHANGED <<rows, granted>>
    /\ Done(u)
    /\ UNCHANGED <<instant, receipts>>

\* The process dies before the commit.
Abandon(u) ==
    /\ consuming[u] # NoUse
    /\ Done(u)
    /\ UNCHANGED <<instant, rows, granted, receipts>>

\* verify_consumed, for a lease that consume returned.
Verified(g, at) ==
    /\ rows[g.lease].execution = g.execution
    /\ rows[g.lease].consumed = g.at /\ g.at <= rows[g.lease].expires
    /\ g.at <= at

\* build_policy_enforcement_receipt of an ALLOW decision: the enforcement time
\* is the caller's to say.
Enforce(g, at) ==
    /\ Verified(g, at)
    /\ receipts' = receipts \cup {[lease |-> g.lease, execution |-> g.execution, at |-> at]}
    /\ UNCHANGED <<instant, rows, consuming, granted>>

Advance ==
    /\ instant < MaxInstant
    /\ instant' = instant + 1
    /\ UNCHANGED <<rows, consuming, granted, receipts>>

CapabilityNext ==
    \/ Advance
    \/ \E l \in Leases : Issue(l)
    \/ \E u \in Users :
          \/ \E l \in Leases, x \in Executions : Consume(u, l, x)
          \/ \E genuine \in BOOLEAN : Check(u, genuine)
          \/ \E dies \in BOOLEAN : Update(u, dies)
          \/ Abandon(u)
    \/ \E g \in granted, at \in 0..MaxInstant : Enforce(g, at)

CapabilitySpec == CapabilityInit /\ [][CapabilityNext]_capabilityVars

----------------------------------------------------------------------------
(* Properties. *)

\* A lease is handed out to one use, and an execution is given one lease,
\* although the row is checked before the transaction that updates it, and
\* whichever consumers die on the way.
LeaseUsedOnce ==
    \A g, h \in granted : g.lease = h.lease \/ g.execution = h.execution => g = h

\* A receipt tells of a use that the store recorded for that execution, within
\* the lease's lifetime and not after the enforcement it stands for.
ReceiptsBacked ==
    \A r \in receipts :
       /\ rows[r.lease].issued /\ rows[r.lease].execution = r.execution
       /\ rows[r.lease].consumed \in 0..rows[r.lease].expires
       /\ rows[r.lease].consumed <= r.at

Row == [issued : {TRUE}, expires : Nat, consumed : Nat \cup {Unconsumed},
        execution : Executions \cup {NoExecution}]
LeaseUse == [lease : Leases, execution : Executions, at : Nat]

CapabilityTypeOK ==
    /\ instant \in Nat
    /\ rows \in [Leases -> Row \cup {NoRow}]
    /\ consuming \in [Users -> {NoUse} \cup
          [step : {"check", "update"}, lease : Leases, execution : Executions, at : Nat]]
    /\ granted \subseteq LeaseUse
    /\ receipts \subseteq LeaseUse

\* The inductive invariant: the table remembers every use that was granted, no
\* execution has two rows, and an update is of a row that was issued.
CapabilityInv ==
    /\ CapabilityTypeOK
    /\ \A g \in granted :
          rows[g.lease].issued /\ rows[g.lease].consumed = g.at
             /\ rows[g.lease].execution = g.execution
    /\ \A k, l \in Leases :
          rows[k].issued /\ rows[l].issued /\ rows[k].execution = rows[l].execution
             /\ rows[k].execution # NoExecution => k = l
    /\ \A u \in Users : consuming[u].step = "update" => rows[consuming[u].lease].issued
    /\ ReceiptsBacked
============================================================================
