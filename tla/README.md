# A TLA+ model of the canvas realtime service

The service is a Go process that sits beside a .NET API and carries the live
traffic of a shared canvas: cursors, ink, block geometry, presence and
signalling. All its state is in memory. It has no database, no persistence and
no second node: a restart forgets everything, so there is no crash recovery to
model. What can go wrong is concurrency: every connection has its own reader
and writer goroutines, every HTTP request its own handler, three tickers sweep
the stores, a network repeats and reorders what it carries, and a shutdown walks
over all of it. Each store is guarded by one
mutex that is held for one call; nothing is held between two calls. The
models therefore make one store call, one channel operation or one atomic one
step, and let everything else interleave.

## Inventory

| Component | State | Operations | Correct when |
| --- | --- | --- | --- |
| Block leases (`memory_lock_store.go`, `block_lock_service.go`, `block_lock_handler.go`, `expireLocks` in `main.go`) | lease per note and block, count per session | request, renew, release, transform guard, release on disconnect, sweep | one holder per block, no live lease stolen, counts exact, ceiling kept, nothing pinned by a departed connection, peers' belief follows the store |
| Outbound queues (`queues.go`, `ws_connection.go`, `wt_connection.go`) | reliable channel, wake slot, in-flight counter, coalescing map and order, drop counters | push, signal, drain, flush, close, poll | reliable frames neither lost, doubled nor reordered; no lost wake-up; newest ephemeral frame wins; drops counted; shutdown does not mistake a busy queue for an empty one |
| Rooms and presence (`room_service.go`, `memory_room_store.go`) | connections per note, draining flag | join, leave, broadcast, relay, begin drain, close all | presence converges to the room but for frames that overtook a roster, nobody stays behind |
| Sessions and tickets (`session_service.go`, `memory_session_store.go`, `memory_ticket_store.go`, `handlers.go`) | session and ticket records, permission bound to each connection | bootstrap, consume, touch, refresh, revoke, revoke user, update permission, sweep | a ticket admits once, permissions only come from a grant, a revocation reaches the connections it finds, nothing leaks, a busy session is not idle |
| Transport handlers (`websocket_handler.go`, `webtransport_handler.go`) | goroutines of a connection | handshake, reader loops, deferred clean-up | clean-up happens after the last frame |
| Client frame pipeline (`client_frames.go`, `envelope.go`, `permission.go`) | none of its own | drain check, classify, rate, authorise, consume, guard, stamp, relay | a frame reaches only whom it may reach, and only from someone who may send it |
| Interest index (`memory_interest_index.go`, `interest_service.go`, `interest.go`) | viewport per connection, connections per grid cell | report, remove, interested, allows preview | both directions agree, what is on screen is covered, departed connections are forgotten |
| Relay and signalling (`Relay` and `RelayToPeer` in `room_service.go`, `signaling.go`) | none of its own | snapshot, filter, push | reliable frames reach everyone listed, negotiations one peer of the same note |
| Shutdown (`main.go`) | phases | readiness, drain, flush, close | everyone warned is closed |
| Control requests (`hmac_request_validator.go`, `handlers.go`) | nonces with the time they were seen | verify, prune | a request is accepted once, however often it is delivered |
| History previews (`history_previews.go` in `application` and `transport`) | permits with their expiry | register, revoke, resolve | a revoked permit stays revoked, expired ones do not fill the table |
| Rate and bootstrap limiters (`rate_limiter.go`, `bootstrap_limiter.go`) | token buckets per address, user and event class | allow, sweep | no more passes than burst and refill, whatever is forgotten or asked out of order |
| Idle watchdog (`watchIdle` in `webtransport_handler.go`, `lastActivity` in `queues.go`) | time of the last activity | mark, check | a busy session is not reaped |
| Binary codec (`binary_ephemeral_codec.go`) and the way of a preview (`client_frames.go`, `ws_connection.go`, `wt_connection.go`) | what a recipient has shown it can read | encode, decode, stamp, batch, write | the recipient is shown what was drawn, once, whatever form it travels in |
| Configuration, metrics, routing, origin check, load generator | | | not modelled |

How they interact: a bootstrap saves a session and issues a ticket; a handshake
consumes the ticket, builds a connection with its queues and joins a room; its
reader passes frames to the lease service, the session service or the room,
which push on the queues of the peers; a full reliable queue closes the peer; a
control request, once its signature, time and nonce are accepted, changes
sessions and then walks the room for the connections, or installs and removes
preview permits;
the tickers sweep tickets, sessions and leases; the shutdown refuses new
frames, warns, waits for the reliable queues, closes, and ends the tickers.

The hard behaviours are listed under `hazards` in `PROJECT.json`, each with the
line where it bites.

## Modules

### BlockLocks

`locks` and `perSession` are `MemoryLockStore`'s two maps. `rd[r]` is what a
reader goroutine is in the middle of, with the clock value it read *before* it
takes the store's mutex; `sweepNow` is the same for `expireLocks`. A frame is
four steps: `Frame` (drain check, classification), `ReadClock`, the store call
(`RequestGranted`, `RequestDenied`, `Renew`, `Release`, `ReleaseIgnored`) and
the announcement. `TransformGuard` and `RelayTransform` are the two halves of a
geometry frame. `Disconnect`, `ReleaseConnection`, `AnnounceEnding` and
`Departed` are the handler's deferred clean-up. A WebSocket handler *is* its
reader, so it returns between frames; a WebTransport handler returns at the
first of its goroutines to end, so its second reader may still be inside a
frame (`MayReturn`), or take on buffered ones (`Frame`). `heard` is what one peer that stays connected was last
told about a block.

`overtaken` is a history: the readers past the transform guard on whose block a
grant, or a renewal with an older clock reading than the guard's (`JudgedLater`), was
stored since. `OnlyRacesOverlap` says these are the only ways to miss a live lease.

Left out: `UserID` and `AcquiredAt` (no decision reads them), the id and label
validation of the frame (it returns before any state changes), and a reader's
replies to its own client.

### LeaseService

The promise of the arbiter: leases on keys, the true clock, what each connection has
asked (`Ask`) and the answers `Grant`, `Renew`, `Release` and `Refuse`, and `Lapse`, `Depart`
and `Forfeit`, as single steps, without goroutines, clock readings, counters or
announcements. BlockLocks instantiates it with the store as its leases, the readers' calls
on their way as `asking` and the connections whose handler is leaving as `away`;
`ImplementsLeases` is the refinement. The ceiling is a count of leases here, expiry is
judged by the true clock and a live lease is renewed or ended only for the holder that asked
or left, so a stale reading, a drifting counter or a foreign release that ever did what
the true state would not is a step that is not allowed.

### OutboundQueues

One connection. Senders push reliable frames (`CheckClosed`, `PushReliable`,
`Signal`, or `RefuseReliable` and `HandleRefusal`), `PushEphemeral` coalesces and
sheds, the writer wakes, drains the reliable channel, flushes ephemeral batches
and exits on a close, a cancelled context or a failed write, `PollDepth` and `PollInFlight` are `PendingReliable` as the shutdown
calls it. `Lenient` senders are `Join` and the replies, which ignore a refusal.
`Loads` bounds an instance: each member says how many reliable frames may be sent and how many frames
of each stream pushed. `accepted`, `handled`, `shown` and `shed` are histories; a reliable frame that cannot be
encoded is handled without being written, as in the code. `InkKeys` are the streams of `ink.` events,
of which `DeltaKeys` (points) are never coalesced and the others (a stroke's start) are. Frames are
numbers; their wire form is PreviewWire's, pings are left out. `pushEphemeral`'s look at `closed`
is one step with its mutex section: a frame queued on a connection that has just closed changes
nothing that a property here reads.

### Rooms

Each handler's `Join` is draining check, store join, member list, roster,
peer list, one push per peer; `Leave` mirrors it; `Slow` connections are those whose
queue may be full, so that a peer's goroutine closes them; `Leavers` are those whose
client may go by itself. The shutdown goroutine is `BeginDrain`, its snapshot, one
warning each, the wait, `CloseAll`'s own snapshot and one close each. `view` is what each
client will know once it has applied its queue in order: a roster replaces it, a joined or a left
frame changes it. `early` is a history: whom a client was told of before its own roster.

### Relay

One reader accepts a frame (`Frame`: drain check, `MayPublish`, not consumed
elsewhere) and then either applies a viewport report (`UpdateInterest`) or hands
the frame to the room: `CheckDraining`, then `ListPeers`, then per peer, in any order (a
Go map has none), the two filters (`FilterSpatially`, `FilterPreview`: two lock
sections, so a report may fall between them) or `RelayReliable`; for
signalling `CheckTarget` (room size, then the target's name) and `SignalPeer` (the
lookup in the sender's own room and the push). `HandlerReturns`, `LeaveRoom` and
`RemoveInterest` are the deferred calls in their order, `SetPermission` a change
of permission from outside. `byCell` is a set of tuples note, page, cell, connection
instead of nested maps whose empty levels are pruned. Event names stand for
themselves; one name stands for each durable prefix, `unknown` for every unknown
name; the answers of the server (`LockAnswers`, `OtherAnswers`) are events that a client may send
too, and the code relays them. Coordinates that an int cannot hold are left out: what Go's
conversion of such a float gives depends on the machine. A frame that is refused or consumed changes nothing here, so the rate
limit, the lease guard and the history-preview lookup are frames that never come.

### Sessions

HTTP requests and connection readers are workers with a program counter `at`.
`op` fixes what each request asks. A bootstrap is `Bootstrap` (validation and clock
read), `SaveSession`, `IssueTicket`, `AllowUser` (whose
refusal revokes the session again); a connection consumes a ticket, joins,
sends frames (`HandleClientFrame` reads the clock, `Touch` stores the reading), refreshes (`GetSession`,
`StampRefreshed`, `SaveRefreshed`, `ComparePermission`, then the room walk) and leaves; revocation is `DeleteTickets`, `DeleteSession`,
`ListConnections`, `CloseOne`; revoking a user is `DeleteByUserAndNote` and the same
walk; a permission change is `UpdatePermission` and `SetPermission` for each
connection. `Validate` is the lifetime check of a genuine token with its leeway;
signatures are not modelled. A reading that is written into a session (bootstrap, touch,
refresh) and the store call that writes it are two steps, so an older reading may replace a newer
one; `Lag` bounds its age when it is stored (`Tick` waits), an assumption on the scheduler like
`MaxLag` below, and `BusyIsNotIdle` says what it costs. Readings that are only compared (the
token's and the ticket's lifetime, the sweeper's) are taken with the call that compares them: a reading
older by a moment only moves the moment. Each connection has one reader here, and the
drain is left to Rooms.

### ControlPlane

`Requests` are signed messages with a timestamp, a nonce and a key id; the
network delivers any of them any number of times (`Deliver`), which is also
where the key is chosen, the clock is read and the window is checked. The
nonce memory is one critical section later (`RememberNonce`, which prunes by the
*worker's* reading, or `ReplayRefused`). A registration goes on to `CheckPermit` (its own
clock reading and the expiry checks) and `Install` (prune, capacity, install); a
revocation to `Revoke`. A reader looks a permit up with `AskPreview`, `Resolve` and
`RelayPreview`. A right signature is assumed: what is refused for a wrong one leaves
no trace. The other control requests, those on sessions, go through the same
door and are Sessions' once they are in.

### Throttles

Token buckets in whole units: a token is `Cost` units, chosen per key so that the
bucket gains one unit in a tick. A handler reads the clock once (`BeginBootstrap`,
`BeginFrame`) and uses that value at every bucket it asks later (`AllowIP` with
the sweep, `AllowUser`, `AllowFrame`), when others with newer readings may have
been there. `Timely` bounds that delay by `MaxLag`. It is an assumption on the
scheduler, not something the code enforces, and the bound of `BurstBound` says what
it is worth: beyond burst and refill, at most the gain of one lag per window and
one more per sweep in the window, because a sweep with an older reading may
forget a bucket that a newer one then finds fresh.

### IdleWatch

A WebTransport connection has two readers, for datagrams and for the stream. Each
reads the clock (`Receive`) and then stores the reading (`Mark`), without comparing, so an
older one may replace a newer one; the watchdog reads the clock (`WatchTick`), then
loads (`WatchLoad`), then closes (`WatchReaps`). `MarkLag` bounds the age of a reading when it is
stored and is an assumption like `MaxLag`. `BusyNotReaped` says what the missing
comparison costs, of what was marked when the watchdog loaded: that lag, and no more. A frame
marked between the load and the close does not save its session; the code has
nothing against that, and the model has it.

### FrontDoor

ControlPlane, Throttles and IdleWatch on one `WallClock`. They share no other
state, so a behaviour follows one side, chosen by `traffic` at the start; the proofs
are about the composition.

### Codec and PreviewWire

Codec has the compact format as operators: varint, zigzag, optional strings,
quantization, the four payloads, client and relay frames, the metadata trailer and
aggregates, each with its reader and its refusals. A frame is a sequence of cells: a
varint group, a byte, a character or a fixed-width integer (byte order is left
out). Widths are constants (`Cont` and `Groups` for a varint's groups, `LastGroup` for the bits
the last group may still have), so that a word small enough to be covered from end to
end overflows as an `int32` does. Loops of the code are recursive functions: the shifts of a
varint, the sums of a stroke's deltas, the reader's way through a list of kinds (`ReadAll`).
`Payloads` are the values the payload structs can hold: any coordinate, pressure or time, no
string longer than its own length field can say.

PreviewWire is a preview's way: a browser writes it behind its length (`Draw`), the
stream may be `Cut` anywhere, `ReadPrefix` and `ReadPayload` are `readStreamFrames`, `HandleFrame`
decodes, learns the capability and stamps, `TakeBatch` and `WriteOne` are the
recipient's writer, which picks aggregate, compact or JSON form and datagram or
stream by what the recipient has shown it can read *at that step*; datagrams are lost
and overtake each other (`Lose`, `Receive`). The two browsers are external: they
are modelled by the format the server's own encoder and decoder define. Rights,
limits and interest are Relay's; the queue's limits and failing writes are
OutboundQueues'.

## Runs

TLC, two workers, each within three minutes. Deadlock checking is off in all of
them because every bounded instance ends: clients stop sending and the clock stops.

| Run | Instance | Shows |
| --- | --- | --- |
| `locks` | two WebSocket connections of two sessions, two blocks, one lock id, ceiling 1, lease 2, so that a renewal with an older reading can revive a lease, transforms, clock to 4 | `TypeOK`, `GoneHoldsNothing`, `CounterExact`, `CeilingHeld`, `BeliefSound`, `OnlyRacesOverlap`, `LiveLeaseKept`, and the refinement `ImplementsLeases` |
| `locks_wt` | one WebTransport connection with two readers, buffered frames after its close, a drain | `DepartedReleased` under `FairSpec` |
| `queues` | a strict and a lenient sender of three frames together for two places with a cursor, or a cursor, a stroke's start and two points for two places with a reliable frame (`Loads`); batches of two | `ReliableAccounted`, `WakeNotLost`, `FlushSeesWrites`, `EphemeralCoherent`, `DropsAccounted`, `LatestShown`, and `AcceptedIsWritten` under `FairSpec` |
| `rooms` | three connections on one note, one of them slow and free to leave by itself, a drain once two have come | `PresenceComplete`, and `NobodyStaysBehind` under `FairSpec` |
| `rooms_latejoin` | two connections and a drain | `NoUnannouncedMember` fails |
| `relay` | `alice` draws, negotiates and may be demoted, `bob` on the same note reports two viewports or nonsense, mutes ink and is slow, `dora` is on another note; cells of two units, two frames per reader, mesh ceiling 2 | `TypeOK`, `IndexInStep`, `ScreenIsCovered`, `ReliableReachesAll`, `ScopedDelivery`, `InkBegins`, `GoneHasNoInterest` |
| `sessions_control` | two bootstraps and two connections of one session against a revocation, a user revocation or a permission change | `TypeOK`, `GrantedCeiling`, `TicketAdmitsOne`, `RevocationReaches` |
| `sessions_lifetime` | the same without a control request, token lifetimes 2 and 4, ticket 2, idle 3, touch 2, lag 1, clock to 6 | `BusyIsNotIdle`, and `NothingLeaks` under `FairSpec` |
| `frontdoor` | two registrations for a table of one permit, of which the first expires, two revocations and a request with an unknown key, skew 1, two workers, one reader; two handlers on one address, one user and one class, sweep every 2, lag 1; two readers and a watchdog, timeout 2, lag 1; clock to 5 | `TypeOK`, `RevokedStaysRevoked`, `BurstBound`, `ReplayRejected`, `BusyNotReaped` |
| `wire` | three previews out of six (strokes from end to end of a 5-bit word, one too long, one with no compact form, a pointer, a transform), varint groups of 2 bits, batches of two, datagrams too small for some aggregates and for JSON | `ShownAsDrawn`, `BatchKeepsAll`, `FramesWhole`, `SelfDelimiting` |
| `sessions_climb` | one connection, one demotion | `RefreshNeverRaises` fails |
| `sessions_usertickets` | one connection, one user revocation | `RevokedIsOut` fails |

In `relay` no room outgrows the mesh ceiling; that refusal only drops frames, and
`DeliveryScoped` is proved for every ceiling.

The bounds are the smallest at which every interesting case happens: two
contenders and a lapsed lease; a lease longer than a renewal's delay; a second block, so that the ceiling
bites; a full queue; more streams than places and more than one in a batch; an observer of two overlapping joins; a
session swept under an outstanding refresh; a clock that runs past both sides of
a timestamp window and past two sweeps; a word that a stroke crosses from end to
end; frames at, below and above the limits of a stream frame and a datagram. Symmetry is used only for ids the
code merely compares and for processes that are alike, and only in runs without
liveness.

### Fairness

Goroutines that can run do (weak fairness of a reader's, handler's, sender's,
writer's, shutdown's or sweeper's next step), the Go scheduler's own guarantee;
tickers keep firing and time passes; in Sessions a worker that has read the clock
reaches the store (`StoreStamped`), for which it waits for a mutex only. No write is fair: a WebTransport
stream write has no deadline. Nor is the loop that flushes previews, which goes on as long as previews
come. `AcceptedIsWritten` names these two as the only things that strand an accepted frame. `WriterWoken` has strong fairness because Go's `select`
chooses between ready cases at random, so a full wake slot is not passed over
for ever in favour of the ticker. Nothing makes a client come, send, go or
close, a write fail, or the process drain. `frontdoor` and `wire` check safety only.

### What the failing runs show

- `rooms_latejoin`: the draining check in `Join` and the store's join are two
  steps; a join between them escapes both snapshots of the drain.
- `sessions_climb`: `RefreshSession` saves a clone it read earlier over a
  demotion, or over a revocation, which revives the session.
- `sessions_usertickets`: revoking a user leaves the tickets alone, so one
  issued before still admits.

Four more sentences of the repository are not what the code does. The models have the behaviour, and
the properties say what does hold:

- `room_service.go:118-120` (and `room_service_test.go:143`): nobody is told of someone who is not in
  the roster they were handed. A connection is in the store before it is handed its roster, so a
  `presence.joined` can be queued ahead of it, and the roster does not name that member if it left
  before the roster was read. If the member leaves after the roster was read and before it is pushed,
  its `presence.left` comes first and a client that applies its frames in order keeps a ghost, which
  is what `PresenceComplete` leaves out (`early`).
- `queues.go:34`: the in-flight counter keeps the shutdown from mistaking a frame being written for a
  drained queue. Between `takeReliable` and `beginReliableWrite` a frame is in neither number the
  shutdown adds up, so a poll reports a drained queue. `FlushSeesWrites` is what does hold: a frame
  whose write has begun is always seen.
- `ws_connection.go:171` and `wt_connection.go:182`: "reliable first". `drainReliable` and
  `drainEphemeral` are two cases of a select, and the second loops until no preview is left, so a
  reliable frame waits behind previews; `AcceptedIsWritten` excepts a writer that does so for ever.
- `block_lock_service.go:9-11`: no client may forge the arbiter's answers. The lock handler consumes
  requests only; `block.lock.granted` from a client that may draw is relayed to the room, stamped with
  the client's own identity. `LockAnswers` are therefore not in what `ScopedDelivery` forbids.

Some narrower races are in the models but have no run of their own: a
WebTransport handler's deferred clean-up runs beside its second reader, whose
late `Acquire` is left to the sweep (`DepartedReleased` shows the sweep does it)
and whose late viewport report is left in the index for good (`RemoveNote`, the
only other clean-up, has no caller), which is why `GoneHoldsNothing` and
`GoneHasNoInterest` are about WebSocket connections; a
transform passes the guard and is relayed after another connection's grant, or after a renewal that
revived a lapsed lease (`OnlyRacesOverlap`: only after a store call that followed the guard's look); the news that a
lease ended overtakes the news of the next grant, and a late WebTransport reader
announces a grant after the handler announced the end, which is why `BeliefSound`
is about holders on WebSocket; a client heard between the watchdog's load and its close is
reaped. A registration
that waits for the permit table past a revocation installs its permit all the same; it
ends with its expiry, 30 seconds at most (`RevokedStaysRevoked` is about permits a
revocation found). Only `AllowIP` sweeps, so without a per-address limit the table
of users never shrinks.

## Proofs

`BlockLocks_proofs`, `OutboundQueues_proofs`, `Rooms_proofs`, `Relay_proofs`, `Sessions_proofs`,
`FrontDoor_proofs`, `Codec_proofs` and `PreviewWire_proofs` hold for every value of the constants
under the modules' assumptions: functions have their domains, sizes are naturals, `NoLock` is no
lock, a WebSocket connection has one reader (its handler, `ReaderAssumption`), the streams of a
connection are finitely many (`KeyAssumption`, without which a sum of drops is no number), and for
the wire:

- `WidthAssumption`: a varint has a group at least, the last group holds an even number of values and
  no more than a group (0x10 of 0x80), and the largest byte is odd (255);
- `LimitAssumption`: a word can count `maxInkPoints`, and nil is no number;
- `DrawableAssumption`: a preview is one of the four events with a payload its struct can hold;
- `StampAssumption`: the ids of the stamp are strings; `BatchAssumption`: the batch size is a natural.

The code's constants and Go's types satisfy all of them. No bound of TLC's instances is used;
`MaxLag`, `MarkLag` and `Lag` are any naturals. Every safety property of the passing runs is proved.

Leases:

- `TypeCorrect` and `StoreCorrect` of BlockLocks: `TypeOK` and `CounterExact`. The invariant is
  `StoreInv`: both, and that the store has finitely many entries, without which
  cardinalities cannot be compared. `RemoveKeepsStore` and `GrantKeepsStore` carry the
  argument: removing a set of keys, or granting one (fresh, re-grant, takeover of a
  lapsed lease from the same or another session), changes each session's set of
  leases by exactly what the counter is changed by.
- `CeilingCorrect`: `CeilingHeld`, from `StoreInv` and `CountBounded` (the ceiling on the
  counter, which is what `Acquire` looks at).
- `LiveLeaseSafe`: the action property `LiveLeaseKept`, from `StoreInv` and `ClocksRead`: every
  clock value carried is in the past, so a stale clock can only make a lapsed lease look alive.
- `DepartedHoldNothing`: `GoneHoldsNothing`, for every WebSocket connection beside any others, from
  `ExitInv`: once the handler is leaving, no reader of that connection is inside a frame.
- `TransformGuarded`: `OnlyRacesOverlap`, from `StoreInv`, `ClocksRead` and `GuardPassed`: a reader about to
  relay was overtaken, or the block is free, its own, or lapsed by the reading its guard used; a renewal
  that did not overtake it has a reading as new as the guard's, by which that lease has lapsed, so it
  is refused, and an entry that was lapsed by an old reading is lapsed now.
- `BeliefHolds`: `BeliefSound`. A grant is announced after the mutex was released, so the news may be
  old when it is told. `BeliefInv` adds three facts: what a WebSocket reader is about to announce
  is still what it stored, or has lapsed (`GrantInv`, where `ReaderAssumption` is used: nobody else
  releases or renews for that connection meanwhile); a peer never expects a lease to last longer
  than the store does, because renewals carry later clock readings (`HeardAge`); and the lists of a
  disconnect or a sweep are empty before they are filled, so no end is dropped unannounced
  (`ListsFresh`). `EndKept` then follows the announcement of an end from list to list until it is told.
- `LeasesImplemented`: `ImplementsLeases`. Every step of BlockLocks is a step of LeaseService
  or leaves its variables alone (`StepImplements`), where a reader's call on its way is what was asked
  (`AnswerOfStore`): `GrantImplements` needs the exact
  counter (the ceiling is a count there) and `ClocksRead` (expiry is judged by the
  true clock there), `RenewImplements` and `EndImplements` the clocks only.

Queues:

- `ReliableOrdered`: `ReliableAccounted`, from `ReliableInv` (types, and that the writer's hand
  holds one frame exactly between taking and having written it).
- `WakeEnough`: `WakeNotLost`, which is inductive given the types.
- `FlushSees`: `FlushSeesWrites`, from `FlushInv`: `reliableInFlight` is one exactly while the writer writes, and a
  poll that has read an empty channel can have missed the frame in the writer's hand alone, of which
  there is one at most (`OneInHand`); by `ReliableAccounted` everything else accepted before it is handled.
- `EphemeralHolds` and `LatestHolds`: `EphemeralCoherent` and `LatestShown`, from `EphemeralInv`: no stream is twice
  in the order or in a batch (`BatchDistinct`), and the newest frame of a stream is queued, shed, in the
  batch, or was shown last with none of that stream left in the batch (`NewestInv`).
- `DropsCounted`: `DropsAccounted`, from `EphemeralInv` and `CountInv`. A push makes at most two streams
  miss a frame, the coalesced one and the one it sheds (`ShedsOne`, `PushMisses`); taking and writing a batch
  only move frames between waiting and shown. The counters are sums over the streams, so
  the module shows first what `MapThenSumSet` computes: its recursion over subsets has exactly one
  solution, and raising one summand raises the sum by as much (`TotalGrows`). The
  inductions there are on the smallest counterexample (`LeastNat`), which needs no
  induction theorem with an operator parameter.

Rooms, relay, sessions:

- `PresenceHolds`: `PresenceComplete`, from `RoomInv`. The store lags behind the handlers and the clients behind
  both, so `PresenceInv` says for every pair in a room whether the listening one was told of the
  other, has it on the roster it is about to be handed, or is on the list of a broadcast still
  under way, and the same for departures, from the listing of its roster on and but for whom it was told of
  before that roster (`early`); `HearsayInv` says that nobody has heard of a
  connection that had not entered, and `StoreInv` that until the drain the room is exactly the handlers
  between their two store calls.
- `TypeCorrect` of Relay: `TypeOK`, on which the rest lean.
- `IndexCorrect`: `IndexInStep` is inductive given the types. `IndexStep` reduces every step to
  "one connection's viewport is replaced"; `EntriesOwned` says that entries of two
  connections never coincide, so withdrawing one leaves the others whole.
- `ScreenCorrect`: `ScreenIsCovered` follows from `IndexInStep` and `CellLag`: truncation towards
  zero moves a coordinate at most one cell further per cell size, across the
  origin too, so one cell of margin is enough, whatever the cell size.
- `DeliveryScoped`: `ScopedDelivery`, from `ScopeInv`: what is known of the frame a reader carries at
  each program point (`Accepted`), since the guard, the drain check, the peer list and the push are steps
  apart. What is kept back is exactly what the formula lists; the server's answers are not among it.
- `ReliableDelivered`: `ReliableReachesAll`, from `ReachInv`: every listed peer has the frame, is
  closed, or is still on the list of the reader that relays it (`OwedKept`).
- `DepartedUninterested`: `GoneHasNoInterest`, from `DepartureInv`, the same idea as `ExitInv`.
- `InkBegun`: `InkBegins`, from `InkInv` (whoever was listed for the beginning of a stroke has it, is
  closed, or is owed it by the reader that relays it), `MuteInv` (a viewport turns ink off only for who once
  asked so) and `NumberInv`: a reader relays only its latest frame, so it is done with the
  beginning before it can relay a point.
- `TypesHold` of Sessions: `TypeOK`, on which the rest lean.
- `CeilingHolds`: `GrantedCeiling`, from `CeilingInv`: which step belongs to which request (`OwnSteps`), and that a
  permission is applied only to connections of the worker's own session (`OwnConnections`).
- `OneAdmitted`: `TicketAdmitsOne`, from `TicketInv`: a ticket in the store is the only one of its request
  and has admitted nobody.
- `RevocationHolds`: `RevocationReaches`, from `FoundConns` and `FoundTickets`: what a revocation found is at each of its
  steps closed, still in the room, or on its list, and no ticket that it found is yet to be issued.
- `BusyHolds`: `BusyIsNotIdle`, from `Readings` (a reading on its way is at most a lag old) and `HeardInv`: whatever
  reading was stored last, no connection of the session was touched more than a lag after it, but for a
  touch on its way, and none was heard more than a touch interval later still.

Front door:

- `TypeCorrect` of FrontDoor: `TypeOK` of the three sides; it and the four below rest on
  `DoorInv`, which is `ControlInv`, `ThrottleInv` and `WatchInv`.
- `ReplaysRejected`: `ReplayRejected`, from `NonceInv`: as long as an accepted request is
  fresh its nonce is kept, at a time no cut-off within the window passes. That the cut-off
  is twice the skew is used here: a timestamp may be one skew ahead of the clock that
  accepted it and still be accepted one skew after its own time.
- `RevocationsHold`: `RevokedStaysRevoked`, from `PermitInv`: within its window a registration is
  carried by one worker at most, and by none once it was installed.
- `BurstsBounded`: `BurstBound`, from `CreditInv`: what was let pass plus `Credit`, what could be drawn at
  this moment with readings of every age up to the lag, never exceeds the bound.
  Taking moves units from one term to the other, a tick adds one unit to both sides, a
  sweep is paid for by its own lag.
- `BusyKept`: `BusyNotReaped`, from `WatchInv`: what is stored last is at most a lag older than the
  newest reading stored, and a watchdog about to close has seen that reading too old.

The codec, for every width and every payload:

- `ClientFrameRead`: `DecodeClientFrame` reads what `EncodeClientFrame` writes, as `Arrives`: the same event
  and number, and the payload in its `Canon`ical form (coordinates and pressures quantized, times
  at the latest so far, and missing if some point lacks one). From below: `VarintRead` (a
  word comes back from its groups; `ShiftedIs` and `GroupedValue` relate shifts and group values without
  powers, by `Capacity`), the zigzag, strings and options (`ReadOne` undoes `Write`), `AllRead` (so does `ReadAll` a
  list of them, behind which anything may follow), then the payloads. `InkBack` is the hard one: the
  differences of two coordinates overflow a word, `Running` adds them up as a word, and
  `Telescopes` shows that the sums are the coordinates up to a multiple of the word, which
  `WrapBack` takes off because a coordinate that was encodable fits.
- `FrameEnds`: no proper part of a frame decodes, nor the frame with anything behind it. `AllSteady`: a list of kinds that can be
  read from a sequence is read the same, with more behind it, from a longer one; so if a part could be read with
  nothing left, the whole would leave something, but it leaves nothing.
- `RelayFrameRead`: the stamp is found from the end of the frame whatever the payload before it is, and
  the payload between the header and the stamp. `AggregateRead`: an aggregate comes apart into its frames.
- `PayloadSettles`: a canonical payload is one that can be sent and is its own canonical form, so a second
  trip over the wire, decoded and encoded again by the server, changes nothing more.

The wire:

- `FramesArriveWhole`: `FramesWhole`, from `WireInv`: there is a position for every frame drawn such that
  the stream is what was written from the reader's position on, shortened by a cut, and the
  reader is before a frame or behind its length. That a frame is a non-empty sequence of
  cells (`FramedIs`) comes from the codec.
- `FramesTellTheirEnd`: `SelfDelimiting`, from `WireInv` and `FrameEnds`.
- `PreviewsShownAsDrawn` and `BatchesKeepAll`: `ShownAsDrawn` and `BatchKeepsAll`, from `WireInv` and `RelayInv`. `RelayInv` follows a
  preview from the queue to the recipient: every envelope that waits conveys a preview that was handed over, as
  drawn or canonical (`Conveys`); every message under way will be read as such previews (`AllReadable`); and so
  was everything shown (`AllSeen`). A frame that is handled becomes such an envelope (`FrameDecodes`), and each form it
  may then take is read back as it (`SingleRead`, `WholeRead`), whatever the recipient's capabilities were when it was
  written. `SameCanon` is the tolerance: canonical is within half a quantum of what was drawn. For
  `BatchKeepsAll` the invariant adds that on a socket everything goes by the stream (`SocketStream`), so
  nothing is lost and only the first message can be received; each step then moves numbers from the
  beginning of one list to the end of the one before it (`KeptTaken`, `KeptWritten`, `KeptShown`).

What a loop over data computes (`FlattenSeq`, `ReadAll`, a varint's shifts, the sums of deltas) is proved by the
smallest counterexample throughout (`Induction` over a set of naturals, from `LeastNat`).

Only model-checked: the liveness properties (`DepartedReleased`, `AcceptedIsWritten`, `NobodyStaysBehind`,
`NothingLeaks`), which are out of the prover's reach. `WireInv` and `RelayInv` were checked with TLC on
the instance of `wire` as well.

## Not modelled

- JWT and HMAC cryptography: a signature is right or the request leaves no trace.
- JSON: an envelope is a record; its text is the standard library's.
- Configuration, metrics, logging, close reasons, routing and the origin check: parsing,
  counters and tables no other component decides on.
- The HTTP/1, HTTP/2 and HTTP/3 servers, the WebSocket and WebTransport libraries, their
  upgrade, deadlines and pings: external.
- The load generator: a test client.

## Plan

Done, in the order of what a user would notice first: BlockLocks, OutboundQueues, Rooms,
Sessions, Relay; then the abstract lease service and its refinement, the front door
(control requests, limiters, watchdog) and the wire; then the proofs, component by component.

Left:

1. Leases composed with rooms: the belief of a peer that joins while a lease is held.
2. The watchdog's other half: a silent session is reaped at last.
