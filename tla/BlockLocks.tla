----------------------------- MODULE BlockLocks -----------------------------
(***************************************************************************)
(* The geometry-lease arbiter: MemoryLockStore (one mutex), the            *)
(* BlockLockService that reads the clock BEFORE taking that mutex, the     *)
(* frame readers that call it, the disconnect path and the expireLocks     *)
(* goroutine.                                                              *)
(*                                                                         *)
(* A step is one critical section.  A reader accepts a frame, then reads   *)
(* its clock (job.now), then calls the store, then announces to the room:  *)
(* four steps, so every interleaving of draining check, clock read, store  *)
(* call and announcement is explored.  What the room hears is recorded for *)
(* one arbitrary peer per note that stays connected (heard): Announce      *)
(* reaches one peer by one push on that peer's reliable queue, so for one  *)
(* peer it is atomic.                                                      *)
(***************************************************************************)
EXTENDS Integers, FiniteSets

CONSTANTS
    Notes, Blocks,    \* a lease is keyed by <<NoteID, BlockID>>
    Sessions, Conns,  \* ConnectionIDs: never reused after a disconnect
    Session, Note,    \* [Conns -> Sessions], [Conns -> Notes], from the ticket
    Readers,          \* goroutines that call handleClientFrame
    ReaderConn,       \* [Readers -> Conns]: one on WebSocket, two on WebTransport
    WebTransport,     \* the connections whose handler outlives no reader
    LockIds,          \* minted by the clients
    Verbs,            \* the frames these clients send
    NoLock,           \* "no entry" in the map
    LeaseTime,        \* BlockLockSettings.Lease
    MaxPerSession,    \* BlockLockSettings.MaxPerSession; 0 is "no ceiling"
    MayDrain,         \* whether SIGTERM arrives
    MaxClock          \* bound: the clock stops here

ASSUME ConnAssumption ==
    /\ Session \in [Conns -> Sessions]
    /\ Note \in [Conns -> Notes]
    /\ ReaderConn \in [Readers -> Conns]
    /\ WebTransport \subseteq Conns

\* The WebSocket handler reads its connection itself, in one goroutine.
ASSUME ReaderAssumption ==
    \A r, q \in Readers :
        ReaderConn[r] = ReaderConn[q] /\ ReaderConn[r] \notin WebTransport => r = q

ASSUME NumberAssumption ==
    /\ LeaseTime \in Nat \ {0}
    /\ MaxPerSession \in Nat
    /\ MaxClock \in Nat
    /\ MayDrain \in BOOLEAN

Key == Notes \X Blocks

\* BlockLock without what no decision reads (UserID, AcquiredAt); NoteID and
\* BlockID are the key, SessionID is Session[conn].
BlockLock == [lockId : LockIds, conn : Conns, expires : Nat]

ASSUME NoLockAssumption == NoLock \notin BlockLock

\* The three lock verbs, and the geometry frames the lease guards.
Verb == {"request", "renew", "release", "transform"}

ASSUME VerbAssumption == Verbs \subseteq Verb

\* What one reader is in the middle of; now is the clock value it read.
Job == [pc : {"clock", "store", "announce", "relay"}, verb : Verb, key : Key,
        lockId : LockIds, now : Nat, lock : BlockLock \cup {NoLock}]
Idle == [pc |-> "idle"]

VARIABLES
    clock,       \* wall clock
    locks,       \* MemoryLockStore.locks
    perSession,  \* MemoryLockStore.perSession (a missing entry is 0)
    rd,          \* per reader: the frame it is handling
    conn,        \* per connection: "open", "closing", "releasing", "gone"
    ending,      \* per connection: leases released, not yet announced
    sweep,       \* expireLocks: "idle", "swept" (clock read) or "announcing"
    sweepNow,    \* the clock value expireLocks read
    swept,       \* leases swept, not yet announced
    heard,       \* per key: the lease a staying peer was last told of
    drain,       \* "no", then "refusing" (Health), then "muted" (RoomService)
    overtaken    \* history: readers whose guarded transform was overtaken

vars == <<clock, locks, perSession, rd, conn, ending, sweep, sweepNow, swept,
          heard, drain, overtaken>>

storeVars == <<locks, perSession>>
sweepVars == <<sweep, sweepNow, swept>>

-----------------------------------------------------------------------------
\* BlockLock.IsExpired: the instant of expiry is already expired.
IsExpired(lock, now) == now >= lock.expires

SessionOf(lock) == Session[lock.conn]

\* The entries whose lease belongs to session s.
LeasesOf(s) == {k \in Key : locks[k] # NoLock /\ SessionOf(locks[k]) = s}

\* Mutant: a count of one is never deleted.
DecrementedAboveOne(count, n) == IF count <= n THEN count ELSE count - n

\* n calls of decrementLocked: a count of one or less is deleted.
Decremented(count, n) == IF count <= n THEN 0 ELSE count - n

\* removeLocked for every key of K, in one critical section.
Remove(K) ==
    /\ locks' = [k \in Key |-> IF k \in K THEN NoLock ELSE locks[k]]
    /\ perSession' = [s \in Sessions |->
           Decremented(perSession[s], Cardinality(K \cap LeasesOf(s)))]

\* The room's news about key k, at the staying peer; a draining RoomService
\* announces nothing.
Announce(k, news) ==
    heard' = IF drain = "muted" THEN heard ELSE [heard EXCEPT ![k] = news]

Init ==
    /\ clock = 0
    /\ locks = [k \in Key |-> NoLock]
    /\ perSession = [s \in Sessions |-> 0]
    /\ rd = [r \in Readers |-> Idle]
    /\ conn = [c \in Conns |-> "open"]
    /\ ending = [c \in Conns |-> {}]
    /\ sweep = "idle"
    /\ sweepNow = 0
    /\ swept = {}
    /\ heard = [k \in Key |-> NoLock]
    /\ drain = "no"
    /\ overtaken = {}

-----------------------------------------------------------------------------
\* Bound: time waits for a reader whose lease could not lapse before MaxClock
\* if it read its clock any later.
LastReading ==
    /\ clock + LeaseTime >= MaxClock
    /\ \E r \in Readers : rd[r] # Idle /\ rd[r].pc = "clock"

Tick ==
    /\ clock < MaxClock
    /\ ~LastReading
    /\ clock' = clock + 1
    /\ UNCHANGED <<storeVars, rd, conn, ending, sweepVars, heard, drain, overtaken>>

\* handleClientFrame accepts a lock verb or a transform.  The note comes from
\* the connection.  A WebTransport reader may go on with the datagrams that
\* were buffered when its connection closed.  Bound: no frame arrives so late
\* that its lease could not lapse before MaxClock (which also stands for the
\* finitely many datagrams a closed connection has buffered).
Frame(r, v, b, i) ==
    LET c == ReaderConn[r] IN
    /\ drain = "no"
    /\ conn[c] = "open" \/ c \in WebTransport
    /\ rd[r] = Idle
    /\ clock + LeaseTime < MaxClock
    /\ rd' = [rd EXCEPT ![r] =
                [pc |-> "clock", verb |-> v, key |-> <<Note[c], b>>,
                 lockId |-> i, now |-> 0, lock |-> NoLock]]
    /\ UNCHANGED <<clock, storeVars, conn, ending, sweepVars, heard, drain, overtaken>>

\* The service reads its clock, before the store's mutex.
ReadClock(r) ==
    /\ rd[r] # Idle
    /\ rd[r].pc = "clock"
    /\ rd' = [rd EXCEPT ![r].pc = "store", ![r].now = clock]
    /\ UNCHANGED <<clock, storeVars, conn, ending, sweepVars, heard, drain, overtaken>>

At(r, pc, verb) == rd[r] # Idle /\ rd[r].pc = pc /\ rd[r].verb = verb

Reacquiring(r) ==
    /\ locks[rd[r].key] # NoLock
    /\ locks[rd[r].key].conn = ReaderConn[r]

\* Mutant: expiry judged at the new lease's expiresAt instead of now.
HeldByOtherLater(r) ==
    /\ locks[rd[r].key] # NoLock
    /\ ~Reacquiring(r)
    /\ ~IsExpired(locks[rd[r].key], rd[r].now + LeaseTime)

HeldByOther(r) ==
    /\ locks[rd[r].key] # NoLock
    /\ ~Reacquiring(r)
    /\ ~IsExpired(locks[rd[r].key], rd[r].now)

\* Mutant: the ceiling is off by one.
TooManyLocksOffByOne(r) ==
    /\ ~Reacquiring(r)
    /\ MaxPerSession > 0
    /\ perSession[Session[ReaderConn[r]]] > MaxPerSession

TooManyLocks(r) ==
    /\ ~Reacquiring(r)
    /\ MaxPerSession > 0
    /\ perSession[Session[ReaderConn[r]]] >= MaxPerSession

\* The transforms on key k that have passed the guard and not been relayed.
Relaying(k) == {q \in Readers : At(q, "relay", "transform") /\ rd[q].key = k}

\* A denial answers the requester alone and changes nothing shared.
RequestDenied(r) ==
    /\ At(r, "store", "request")
    /\ HeldByOther(r) \/ TooManyLocks(r)
    /\ rd' = [rd EXCEPT ![r] = Idle]
    /\ UNCHANGED <<clock, storeVars, conn, ending, sweepVars, heard, drain, overtaken>>

\* The count after an entry of session s is stored over `old`.
Recounted(old, s) ==
    LET freed == IF old = NoLock THEN perSession
                 ELSE [perSession EXCEPT ![SessionOf(old)] = Decremented(@, 1)]
    IN  [freed EXCEPT ![s] = @ + 1]

RequestGranted(r) ==
    LET k == rd[r].key
        c == ReaderConn[r]
        granted == [lockId |-> rd[r].lockId, conn |-> c,
                    expires |-> rd[r].now + LeaseTime]
    IN
    /\ At(r, "store", "request")
    /\ ~HeldByOther(r)
    /\ ~TooManyLocks(r)
    /\ locks' = [locks EXCEPT ![k] = granted]
    /\ perSession' = Recounted(locks[k], Session[c])
    /\ rd' = [rd EXCEPT ![r].pc = "announce", ![r].lock = granted]
    /\ overtaken' = overtaken \cup Relaying(k)
    /\ UNCHANGED <<clock, conn, ending, sweepVars, heard, drain>>

\* Mutant: the lockId alone names the lease.
OwnsLockId(r) ==
    /\ locks[rd[r].key] # NoLock
    /\ locks[rd[r].key].lockId = rd[r].lockId

\* The caller's own lease, by lockId and by connection.
Owns(r) ==
    /\ locks[rd[r].key] # NoLock
    /\ locks[rd[r].key].lockId = rd[r].lockId
    /\ locks[rd[r].key].conn = ReaderConn[r]

Renewable(r) == Owns(r) /\ ~IsExpired(locks[rd[r].key], rd[r].now)

\* The guarded transforms that were judged by a later clock than renewal r is.
JudgedLater(r) == {q \in Relaying(rd[r].key) : rd[r].now < rd[q].now}

\* A renew is answered to the holder alone, success or not.
Renew(r) ==
    /\ At(r, "store", "renew")
    /\ locks' = IF Renewable(r)
                THEN [locks EXCEPT ![rd[r].key].expires = rd[r].now + LeaseTime]
                ELSE locks
    /\ overtaken' = IF Renewable(r) THEN overtaken \cup JudgedLater(r) ELSE overtaken
    /\ rd' = [rd EXCEPT ![r] = Idle]
    /\ UNCHANGED <<clock, perSession, conn, ending, sweepVars, heard, drain>>

\* Release asks for no liveness: an expired lease can still be released.
Release(r) ==
    /\ At(r, "store", "release")
    /\ Owns(r)
    /\ Remove({rd[r].key})
    /\ rd' = [rd EXCEPT ![r].pc = "announce", ![r].lock = locks[rd[r].key]]
    /\ UNCHANGED <<clock, conn, ending, sweepVars, heard, drain, overtaken>>

ReleaseIgnored(r) ==
    /\ At(r, "store", "release")
    /\ ~Owns(r)
    /\ rd' = [rd EXCEPT ![r] = Idle]
    /\ UNCHANGED <<clock, storeVars, conn, ending, sweepVars, heard, drain, overtaken>>

AnnounceGranted(r) ==
    /\ At(r, "announce", "request")
    /\ Announce(rd[r].key, rd[r].lock)
    /\ rd' = [rd EXCEPT ![r] = Idle]
    /\ UNCHANGED <<clock, storeVars, conn, ending, sweepVars, drain, overtaken>>

AnnounceReleased(r) ==
    /\ At(r, "announce", "release")
    /\ Announce(rd[r].key, NoLock)
    /\ rd' = [rd EXCEPT ![r] = Idle]
    /\ UNCHANGED <<clock, storeVars, conn, ending, sweepVars, drain, overtaken>>

\* Mutant: the guard judges expiry a lease later.
BlockedByLater(r) == HeldByOtherLater(r)

\* newTransformGuard: BlockedBy names a live holder other than the sender.
\* A refused preview is dropped, a refused commit denied to the sender alone.
BlockedBy(r) == HeldByOther(r)

TransformGuard(r) ==
    /\ At(r, "store", "transform")
    /\ rd' = [rd EXCEPT ![r] = IF BlockedBy(r) THEN Idle ELSE [@ EXCEPT !.pc = "relay"]]
    /\ UNCHANGED <<clock, storeVars, conn, ending, sweepVars, heard, drain, overtaken>>

\* The transform reaches the peers.
RelayTransform(r) ==
    /\ At(r, "relay", "transform")
    /\ rd' = [rd EXCEPT ![r] = Idle]
    /\ overtaken' = overtaken \ {r}
    /\ UNCHANGED <<clock, storeVars, conn, ending, sweepVars, heard, drain>>

-----------------------------------------------------------------------------
\* Mutant: no handler waits for its reader.
MayReturnAnyTime(c) == TRUE

\* A WebSocket handler IS its reader; a WebTransport handler returns at the
\* first of its goroutines to finish, its readers may still be inside a frame.
MayReturn(c) ==
    \/ c \in WebTransport
    \/ \A r \in Readers : ReaderConn[r] = c => rd[r] = Idle

\* The handler of connection c returns and its deferred clean-up starts.
Disconnect(c) ==
    /\ conn[c] = "open"
    /\ MayReturn(c)
    /\ conn' = [conn EXCEPT ![c] = "closing"]
    /\ UNCHANGED <<clock, storeVars, rd, ending, sweepVars, heard, drain, overtaken>>

\* Mutant: entries that do not exist are collected too.
KeysOfOrFree(c) == {k \in Key : locks[k] = NoLock \/ locks[k].conn = c}

KeysOf(c) == {k \in Key : locks[k] # NoLock /\ locks[k].conn = c}

\* Mutant: the leases go without a word to the room.
ReleaseSilently(c) ==
    /\ conn[c] = "closing"
    /\ Remove(KeysOf(c))
    /\ conn' = [conn EXCEPT ![c] = "releasing"]
    /\ UNCHANGED <<clock, rd, ending, sweepVars, heard, drain, overtaken>>

\* releaseLocksOnDisconnect: one critical section, then one announcement each.
ReleaseConnection(c) ==
    /\ conn[c] = "closing"
    /\ Remove(KeysOf(c))
    /\ ending' = [ending EXCEPT ![c] = {<<k, locks[k]>> : k \in KeysOf(c)}]
    /\ conn' = [conn EXCEPT ![c] = "releasing"]
    /\ UNCHANGED <<clock, rd, sweepVars, heard, drain, overtaken>>

AnnounceEnding(c) ==
    /\ conn[c] = "releasing"
    /\ \E e \in ending[c] :
          /\ Announce(e[1], NoLock)
          /\ ending' = [ending EXCEPT ![c] = @ \ {e}]
    /\ UNCHANGED <<clock, storeVars, rd, conn, sweepVars, drain, overtaken>>

Departed(c) ==
    /\ conn[c] = "releasing"
    /\ ending[c] = {}
    /\ conn' = [conn EXCEPT ![c] = "gone"]
    /\ UNCHANGED <<clock, storeVars, rd, ending, sweepVars, heard, drain, overtaken>>

\* expireLocks: a tick reads the clock, the sweep removes what lapsed by then,
\* and each lapsed lease is announced.  The loop ends with the signal context.
SweepTick ==
    /\ drain = "no"
    /\ sweep = "idle"
    /\ sweep' = "swept"
    /\ sweepNow' = clock
    /\ UNCHANGED <<clock, storeVars, rd, conn, ending, swept, heard, drain, overtaken>>

\* Mutant: the sweep leaves departed connections to the disconnect path.
LapsedOfOpen(now) ==
    {k \in Key : /\ locks[k] # NoLock
                 /\ IsExpired(locks[k], now)
                 /\ conn[locks[k].conn] = "open"}

Lapsed(now) == {k \in Key : locks[k] # NoLock /\ IsExpired(locks[k], now)}

SweepExpired ==
    /\ sweep = "swept"
    /\ Remove(Lapsed(sweepNow))
    /\ swept' = {<<k, locks[k]>> : k \in Lapsed(sweepNow)}
    /\ sweep' = "announcing"
    /\ UNCHANGED <<clock, rd, conn, ending, sweepNow, heard, drain, overtaken>>

AnnounceExpired ==
    /\ sweep = "announcing"
    /\ \E e \in swept :
          /\ Announce(e[1], NoLock)
          /\ swept' = swept \ {e}
    /\ UNCHANGED <<clock, storeVars, rd, conn, ending, sweep, sweepNow, drain, overtaken>>

SweepDone ==
    /\ sweep = "announcing"
    /\ swept = {}
    /\ sweep' = "idle"
    /\ sweepNow' = 0
    /\ UNCHANGED <<clock, storeVars, rd, conn, ending, swept, heard, drain, overtaken>>

\* Shutdown: readiness refuses new frames first, then rooms stop announcing.
StartDraining ==
    /\ MayDrain
    /\ drain = "no"
    /\ drain' = "refusing"
    /\ UNCHANGED <<clock, storeVars, rd, conn, ending, sweepVars, heard, overtaken>>

BeginDrain ==
    /\ drain = "refusing"
    /\ drain' = "muted"
    /\ UNCHANGED <<clock, storeVars, rd, conn, ending, sweepVars, heard, overtaken>>

-----------------------------------------------------------------------------
\* What a reader still owes the frame it accepted.
ReaderStep(r) ==
    \/ ReadClock(r)
    \/ RequestDenied(r) \/ RequestGranted(r) \/ Renew(r)
    \/ Release(r) \/ ReleaseIgnored(r)
    \/ AnnounceGranted(r) \/ AnnounceReleased(r)
    \/ TransformGuard(r) \/ RelayTransform(r)

HandlerExit(c) == ReleaseConnection(c) \/ AnnounceEnding(c) \/ Departed(c)

SweeperStep == SweepTick \/ SweepExpired \/ AnnounceExpired \/ SweepDone

Next ==
    \/ Tick
    \/ \E r \in Readers, v \in Verbs, b \in Blocks, i \in LockIds : Frame(r, v, b, i)
    \/ \E r \in Readers : ReaderStep(r)
    \/ \E c \in Conns : Disconnect(c) \/ HandlerExit(c)
    \/ SweeperStep
    \/ StartDraining
    \/ BeginDrain

\* Goroutines that can run do; time passes; the ticker fires.  Nothing makes a
\* client send a frame, a connection end or the process drain.
Fairness ==
    /\ WF_vars(Tick)
    /\ \A r \in Readers : WF_vars(ReaderStep(r))
    /\ \A c \in Conns : WF_vars(HandlerExit(c))
    /\ WF_vars(SweeperStep)

Spec == Init /\ [][Next]_vars
FairSpec == Spec /\ Fairness
-----------------------------------------------------------------------------
Lease == Key \X BlockLock

\* Every goroutine is in a state its code has and carries what that needs.
TypeOK ==
    /\ clock \in Nat
    /\ locks \in [Key -> BlockLock \cup {NoLock}]
    /\ perSession \in [Sessions -> Nat]
    /\ rd \in [Readers -> Job \cup {Idle}]
    /\ conn \in [Conns -> {"open", "closing", "releasing", "gone"}]
    /\ ending \in [Conns -> SUBSET Lease]
    /\ sweep \in {"idle", "swept", "announcing"}
    /\ sweepNow \in Nat
    /\ swept \subseteq Lease
    /\ heard \in [Key -> BlockLock \cup {NoLock}]
    /\ drain \in {"no", "refusing", "muted"}
    /\ overtaken \subseteq Readers

\* MemoryLockStore.perSession is redundant state: whatever mix of grants,
\* takeovers of lapsed leases, re-grants, releases, disconnects and sweeps ran,
\* it equals the number of entries the session has in the store.
CounterExact ==
    \A s \in Sessions : perSession[s] = Cardinality(LeasesOf(s))

\* The ceiling: the tabs of one session together never pin more blocks than
\* MaxPerSession, although each asks through its own reader.
CeilingHeld ==
    MaxPerSession > 0 =>
        \A s \in Sessions : Cardinality(LeasesOf(s)) <= MaxPerSession

IsLive(k) == locks[k] # NoLock /\ ~IsExpired(locks[k], clock)

\* The holder's own reader releasing exactly this lease.
OwnRelease(k) ==
    \E r \in Readers :
        /\ At(r, "store", "release")
        /\ rd[r].key = k
        /\ Owns(r)

\* A lease that has not lapsed by the real clock stays with its connection
\* unless that connection releases it or is disconnecting: stale clock reads
\* in Acquire, Renew and SweepExpired never take it away.
LiveLeaseKept ==
    [][\A k \in Key :
          IsLive(k) =>
             \/ locks'[k] # NoLock /\ locks'[k].conn = locks[k].conn
             \/ OwnRelease(k)
             \/ conn[locks[k].conn] = "closing"]_vars

\* The end of a lease of connection c on key k is still to be announced.
EndDue(k, c) ==
    \/ \E r \in Readers : At(r, "announce", "release")
                          /\ rd[r].key = k /\ rd[r].lock.conn = c
    \/ \E e \in (UNION {ending[d] : d \in Conns}) \cup swept :
          e[1] = k /\ e[2].conn = c

\* What a peer was told is true: a grant it heard last and whose expiresAt is
\* still ahead is in the store for that connection, or its end is about to be
\* announced.  (A RoomService that drains announces nothing more.)  For a
\* WebTransport holder a reader that outlives the handler may announce its grant
\* after the handler has announced the end.
BeliefSound ==
    drain # "muted" =>
        \A k \in Key :
            heard[k] # NoLock /\ ~IsExpired(heard[k], clock)
            /\ heard[k].conn \notin WebTransport =>
                \/ locks[k] # NoLock /\ locks[k].conn = heard[k].conn
                \/ EndDue(k, heard[k].conn)

\* "a vanished tab must not keep a block pinned until its lease happens to
\* lapse" (ReleaseAllForConnection): a WebSocket connection whose handler has
\* finished holds no lease.
GoneHoldsNothing ==
    \A c \in Conns \ WebTransport : conn[c] = "gone" => KeysOf(c) = {}

\* Even when a reader of a departed connection acquires after the release, the
\* sweep frees its leases for good, unless the process drains first.
DepartedReleased ==
    \A c \in Conns :
        conn[c] = "closing" ~> (drain # "no" \/ [](KeysOf(c) = {}))

\* The guard is only ever missed by a race: when a transform is about to be
\* relayed against a live lease of another connection, then after the guard
\* looked either a grant was stored on that block, or a renewal whose clock had
\* been read before the guard's.  (The second revives a lease that had lapsed by
\* the guard's clock and not by the renewal's.)
OnlyRacesOverlap ==
    \A r \in Readers :
        At(r, "relay", "transform") /\ ~Reacquiring(r) /\ IsLive(rd[r].key) =>
            r \in overtaken

\* The requests whose clock has been read and that the store has not answered.
AsksIn(r) ==
    /\ rd[r] # Idle
    /\ rd[r].pc = "store"
    /\ rd[r].verb \in {"request", "renew", "release"}
AskOf(r) == <<ReaderConn[r], rd[r].key, rd[r].verb>>
Asking == {AskOf(r) : r \in {q \in Readers : AsksIn(q)}}

Leases == INSTANCE LeaseService
            WITH lease <- locks, None <- NoLock,
                 away <- {c \in Conns : conn[c] # "open"},
                 asking <- Asking

\* The arbiter is a lease service: with the stale clocks, the sweep and the
\* handlers' exits hidden, every step is one that LeaseService allows; a lease
\* begins, is renewed and is released only by a request its holder sent.
ImplementsLeases == Leases!Spec
=============================================================================
