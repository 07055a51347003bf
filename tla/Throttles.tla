------------------------------ MODULE Throttles ------------------------------
(***************************************************************************)
(* The token buckets: BootstrapLimiter with its two tables and its sweep,  *)
(* and the RateLimits of a connection, one bucket per event class.         *)
(*                                                                         *)
(* A token is counted in units, Cost of them, chosen so that the bucket    *)
(* gains one unit in a tick of the clock.  A handler reads the clock once, *)
(* at its start, and hands that value to every bucket it asks later; other *)
(* handlers with newer values may have been there first.  MaxLag names the *)
(* longest a handler takes from that reading to its last bucket.           *)
(***************************************************************************)
EXTENDS WallClock, FiniteSetsExt

CONSTANTS
    IPs, Users,   \* keys of perIP and perUser
    Classes,      \* the event classes of one connection
    Limited,      \* the keys whose limit is configured
    Cost,         \* units in a token, per key
    Burst,        \* capacity in units, per key
    SweepEvery,   \* a minute
    MaxLag,       \* bound: the age of a handler's reading when it is used
    Handlers,     \* goroutines: bootstrap requests and connection readers
    NoBucket

Keys == IPs \cup Users \cup Classes

ASSUME BucketAssumption ==
    /\ Limited \subseteq Keys /\ Classes \subseteq Limited
    /\ IPs \cap Users = {} /\ IPs \cap Classes = {} /\ Users \cap Classes = {}
    /\ Cost \in [Keys -> Nat] /\ Burst \in [Keys -> Nat]
    /\ SweepEvery \in Nat /\ MaxLag \in Nat
    /\ NoBucket \notin [tokens : Int, last : Int]

Times == 0 .. MaxClock

VARIABLES
    bucket,     \* [tokens, last] of a key, or NoBucket
    lastSweep,  \* BootstrapLimiter.lastSweep
    hpc, hnow,  \* per handler: next step, the clock value it read
    hip, huser, \* per handler: the address and user of a bootstrap; a frame's class
    passed,     \* history: per key and time, how often it was let pass since
    sweeps      \* history: per time, the sweeps since

handlerVars == <<hpc, hnow, hip, huser>>
throttleVars == <<bucket, lastSweep, hpc, hnow, hip, huser, passed, sweeps>>

\* The buckets of a connection are made with it, full.
ThrottleInit ==
    /\ bucket = [k \in Keys |-> IF k \in Classes
                                THEN [tokens |-> Burst[k], last |-> 0] ELSE NoBucket]
    /\ lastSweep = 0
    /\ hpc = [h \in Handlers |-> "idle"]
    /\ hnow = [h \in Handlers |-> 0]
    /\ hip = [h \in Handlers |-> NoBucket]
    /\ huser = [h \in Handlers |-> NoBucket]
    /\ passed = [k \in Keys |-> [s \in Times |-> 0]]
    /\ sweeps = [s \in Times |-> 0]

-----------------------------------------------------------------------------
(* A bucket *)

\* Mutant: the refill is not capped.
LevelUncapped(k, b, now) ==
    IF now > b.last THEN b.tokens + (now - b.last) ELSE b.tokens

\* TokenBucket.TokensAt, and the refill of Allow: a reading older than the
\* bucket's last one adds nothing.
Level(k, b, now) ==
    IF now > b.last THEN Min({Burst[k], b.tokens + (now - b.last)}) ELSE b.tokens

\* The bucket of a key, made on first use.
Found(table, k, now) ==
    IF table[k] = NoBucket THEN [tokens |-> Burst[k], last |-> now] ELSE table[k]

Allowed(table, k, now) ==
    \/ k \notin Limited
    \/ Level(k, Found(table, k, now), now) >= Cost[k]

\* TokenBucket.Allow on the bucket of k: refill, then take a token if there is one.
Charged(table, k, now) ==
    LET b == Found(table, k, now)
        level == Level(k, b, now)
    IN
    IF k \notin Limited THEN table
    ELSE [table EXCEPT ![k] =
             [tokens |-> IF level >= Cost[k] THEN level - Cost[k] ELSE level,
              last |-> IF now > b.last THEN now ELSE b.last]]

\* Mutant: the sweep takes what has a token for what is full.
FullIsUsable(k, b, now) == Level(k, b, now) >= Cost[k]

Full(k, b, now) == Level(k, b, now) >= Burst[k]

SweepDue(now) == now - lastSweep >= SweepEvery

\* sweepLocked: the full buckets of both tables are forgotten.
Swept(now) ==
    [k \in Keys |->
        IF /\ k \in IPs \cup Users
           /\ bucket[k] # NoBucket
           /\ Full(k, bucket[k], now)
        THEN NoBucket ELSE bucket[k]]

Counted(k) ==
    passed' = [passed EXCEPT ![k] = [s \in Times |-> @[s] + (IF s <= clock THEN 1 ELSE 0)]]

Done(h) ==
    /\ hpc' = [hpc EXCEPT ![h] = "idle"]
    /\ hnow' = [hnow EXCEPT ![h] = 0]
    /\ hip' = [hip EXCEPT ![h] = NoBucket]
    /\ huser' = [huser EXCEPT ![h] = NoBucket]

-----------------------------------------------------------------------------
(* Handlers *)

\* Bootstrap, not draining, reads the clock.
BeginBootstrap(h, ip, user) ==
    /\ hpc[h] = "idle"
    /\ hpc' = [hpc EXCEPT ![h] = "ip"]
    /\ hnow' = [hnow EXCEPT ![h] = clock]
    /\ hip' = [hip EXCEPT ![h] = ip]
    /\ huser' = [huser EXCEPT ![h] = user]
    /\ UNCHANGED <<bucket, lastSweep, passed, sweeps>>

\* AllowIP under the limiter's mutex: sweep when it is time, then take.  Only a
\* configured limit gets as far as the sweep.
AllowIP(h) ==
    LET ip == hip[h]
        now == hnow[h]
        sweeping == ip \in Limited /\ SweepDue(now)
        table == IF sweeping THEN Swept(now) ELSE bucket
    IN
    /\ hpc[h] = "ip"
    /\ bucket' = Charged(table, ip, now)
    /\ lastSweep' = IF sweeping THEN now ELSE lastSweep
    /\ sweeps' = IF sweeping
                 THEN [s \in Times |-> sweeps[s] + (IF s <= clock THEN 1 ELSE 0)]
                 ELSE sweeps
    /\ IF Allowed(table, ip, now)
       THEN /\ Counted(ip)
            /\ hpc' = [hpc EXCEPT ![h] = "token"]
            /\ UNCHANGED <<hnow, hip, huser>>
       ELSE Done(h) /\ UNCHANGED passed

\* The access token is missing or refused: nothing is charged to a user.
TokenRefused(h) ==
    /\ hpc[h] = "token"
    /\ Done(h)
    /\ UNCHANGED <<bucket, lastSweep, passed, sweeps>>

\* The token names the user; AllowUser takes from that user's bucket.  Refused,
\* the session just made is revoked again.
AllowUser(h) ==
    LET user == huser[h]
        now == hnow[h]
    IN
    /\ hpc[h] = "token"
    /\ bucket' = Charged(bucket, user, now)
    /\ IF Allowed(bucket, user, now) THEN Counted(user) ELSE UNCHANGED passed
    /\ Done(h)
    /\ UNCHANGED <<lastSweep, sweeps>>

\* handleClientFrame has decoded the frame; it reads the clock for its bucket.
BeginFrame(h, class) ==
    /\ hpc[h] = "idle"
    /\ hpc' = [hpc EXCEPT ![h] = "frame"]
    /\ hnow' = [hnow EXCEPT ![h] = clock]
    /\ huser' = [huser EXCEPT ![h] = class]
    /\ UNCHANGED <<hip, bucket, lastSweep, passed, sweeps>>

AllowFrame(h) ==
    LET class == huser[h]
        now == hnow[h]
    IN
    /\ hpc[h] = "frame"
    /\ bucket' = Charged(bucket, class, now)
    /\ IF Allowed(bucket, class, now) THEN Counted(class) ELSE UNCHANGED passed
    /\ Done(h)
    /\ UNCHANGED <<lastSweep, sweeps>>

BootstrapNext ==
    \/ \E h \in Handlers, ip \in IPs, user \in Users : BeginBootstrap(h, ip, user)
    \/ \E h \in Handlers : AllowIP(h) \/ TokenRefused(h) \/ AllowUser(h)

FrameNext ==
    \/ \E h \in Handlers, class \in Classes : BeginFrame(h, class)
    \/ \E h \in Handlers : AllowFrame(h)

\* The bound on lag: time waits for a handler that read the clock MaxLag ago.
Timely == \A h \in Handlers : hpc[h] # "idle" => clock < hnow[h] + MaxLag

-----------------------------------------------------------------------------
ThrottleTypeOK ==
    /\ bucket \in [Keys -> [tokens : Int, last : Int] \cup {NoBucket}]
    /\ \A k \in Keys : bucket[k] # NoBucket =>
          bucket[k].tokens \in 0 .. Burst[k] /\ bucket[k].last \in 0 .. clock
    /\ lastSweep \in 0 .. clock
    /\ hpc \in [Handlers -> {"idle", "ip", "token", "frame"}]
    /\ hnow \in [Handlers -> Times]
    /\ hip \in [Handlers -> IPs \cup {NoBucket}]
    /\ huser \in [Handlers -> Users \cup Classes \cup {NoBucket}]
    /\ \A h \in Handlers :
          /\ hpc[h] = "ip" => hip[h] \in IPs
          /\ hpc[h] \in {"ip", "token"} => huser[h] \in Users
          /\ hpc[h] = "frame" => huser[h] \in Classes
    /\ passed \in [Keys -> [Times -> Nat]]
    /\ sweeps \in [Times -> Nat]

\* What a bucket is for: from any time s to now it let pass a burst and what it
\* gained in between, and no more, although the sweep forgets buckets ("a full
\* bucket is indistinguishable from a fresh one"), buckets are made anew, and
\* handlers take from them with readings that are out of order.  Such readings
\* cost at most what the bucket gains in the longest lag, once for the window
\* and once for every sweep in it.
BurstBound ==
    \A k \in Limited, s \in Times : s <= clock =>
        Cost[k] * passed[k][s] <= Burst[k] + (clock - s) + MaxLag * (1 + sweeps[s])
=============================================================================
