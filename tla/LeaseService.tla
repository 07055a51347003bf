---------------------------- MODULE LeaseService ----------------------------
(***************************************************************************)
(* What the lease arbiter promises, with none of its goroutines, stale     *)
(* clock reads, counters or announcements: a block has at most one holder; *)
(* a lease begins on a block that is free for the connection that asked,   *)
(* within the ceiling, for at most LeaseTime from now; it is renewed and   *)
(* released only when its holder asked for that; while it lasts nothing    *)
(* else ends it but its holder leaving; once it has lapsed anybody may     *)
(* have the block.  BlockLocks implements this.                            *)
(***************************************************************************)
EXTENDS Integers, FiniteSets

CONSTANTS
    Key,            \* what is leased
    Conns,          \* who leases
    Sessions, Session,
    LeaseTime, MaxPerSession,
    None            \* "no lease"

VARIABLES
    clock,
    lease,          \* [Key -> [conn : Conns, expires : Nat] \cup {None}]
    away,           \* connections that are leaving or have left
    asking          \* <<c, k, verb>>: what connection c asked and awaits

vars == <<clock, lease, away, asking>>

Lapsed(k) == clock >= lease[k].expires
HeldBy(s) == {k \in Key : lease[k] # None /\ Session[lease[k].conn] = s}

\* Everything but the blocks of K keeps its lease.
OnlyChanged(K) == \A k \in Key \ K : lease'[k] = lease[k]

Init ==
    /\ clock = 0
    /\ lease = [k \in Key |-> None]
    /\ away = {}
    /\ asking = {}

Tick == clock' = clock + 1 /\ UNCHANGED <<lease, away, asking>>

Ask(c, k, verb) ==
    /\ asking' = asking \cup {<<c, k, verb>>}
    /\ UNCHANGED <<clock, lease, away>>

\* c asked for this and has its answer; it may have asked twice.
Answered(c, k, verb) ==
    /\ <<c, k, verb>> \in asking
    /\ asking' \in {asking, asking \ {<<c, k, verb>>}}

Refuse(c, k, verb) ==
    /\ Answered(c, k, verb)
    /\ UNCHANGED <<clock, lease, away>>

FreeFor(k, c) == lease[k] = None \/ lease[k].conn = c \/ Lapsed(k)

WithinCeiling(k, c) ==
    \/ MaxPerSession = 0
    \/ lease[k] # None /\ lease[k].conn = c
    \/ Cardinality(HeldBy(Session[c])) < MaxPerSession

\* The new lease may already be close to its end: the holder's clock was read
\* before the grant.
Lasts(k, c) ==
    /\ lease'[k] # None
    /\ lease'[k].conn = c
    /\ lease'[k].expires <= clock + LeaseTime

Grant(c, k) ==
    /\ Answered(c, k, "request")
    /\ FreeFor(k, c)
    /\ WithinCeiling(k, c)
    /\ Lasts(k, c)
    /\ OnlyChanged({k})
    /\ UNCHANGED <<clock, away>>

\* The holder may have asked before its lease lapsed.
Renew(c, k) ==
    /\ Answered(c, k, "renew")
    /\ lease[k] # None
    /\ lease[k].conn = c
    /\ Lasts(k, c)
    /\ OnlyChanged({k})
    /\ UNCHANGED <<clock, away>>

Release(c, k) ==
    /\ Answered(c, k, "release")
    /\ lease[k] # None
    /\ lease[k].conn = c
    /\ lease' = [lease EXCEPT ![k] = None]
    /\ UNCHANGED <<clock, away>>

\* Everything the sweep finds has lapsed.
Lapse ==
    /\ \A k \in Key : lease'[k] \in {lease[k], None}
    /\ \A k \in Key : lease'[k] # lease[k] => Lapsed(k)
    /\ UNCHANGED <<clock, away, asking>>

Depart(c) ==
    /\ away' = away \cup {c}
    /\ UNCHANGED <<clock, lease, asking>>

\* A leaving connection gives up everything it holds, at once.
Forfeit(c) ==
    /\ c \in away
    /\ lease' = [k \in Key |-> IF lease[k] # None /\ lease[k].conn = c
                               THEN None ELSE lease[k]]
    /\ UNCHANGED <<clock, away, asking>>

Next ==
    \/ Tick
    \/ \E c \in Conns, k \in Key :
          \/ \E verb \in {"request", "renew", "release"} :
                Ask(c, k, verb) \/ Refuse(c, k, verb)
          \/ Grant(c, k) \/ Renew(c, k) \/ Release(c, k)
    \/ Lapse
    \/ \E c \in Conns : Depart(c) \/ Forfeit(c)

Spec == Init /\ [][Next]_vars
=============================================================================
