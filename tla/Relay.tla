-------------------------------- MODULE Relay --------------------------------
(***************************************************************************)
(* What happens to a client frame that is meant for the room: the          *)
(* acceptance tests of handleClientFrame, RoomService.Relay with its two   *)
(* per-recipient filters, RelayToPeer, and the MemoryInterestIndex that    *)
(* viewport reports write and the filters read.                            *)
(*                                                                         *)
(* A step is one mutex section of a store or one push on a peer's queue.   *)
(* What becomes of a pushed frame is OutboundQueues' business, how a       *)
(* connection joins and leaves is Rooms', who holds a lease BlockLocks'.   *)
(* A frame that is refused, or consumed by one of those, changes nothing   *)
(* here, so only frames that go on are actions.                            *)
(*                                                                         *)
(* Coordinates are integers: int(f)/GridCellSize truncates a float twice   *)
(* towards zero, which is one truncation of f in any finer unit.           *)
(* Coordinates that an int cannot hold are left out: what Go's conversion  *)
(* makes of them depends on the machine.                                   *)
(***************************************************************************)
EXTENDS Integers, FiniteSets

CONSTANTS
    Conns, Notes, Note,    \* [Conns -> Notes], from the ticket
    Readers, ReaderConn,   \* [Readers -> Conns]: one on WebSocket, two on WebTransport
    WebTransport,          \* connections whose handler does not wait for its readers
    Drawers,               \* connections that ever have permission to draw
    Slow,                  \* connections whose reliable queue may be full
    Pages,                 \* page ids
    Viewports,             \* the viewports clients report
    Inbox,                 \* [Readers -> SUBSET Message]: what clients send
    GridCellSize, MaxWebRTCPeers,
    Nothing,               \* an empty field, no entry in a map, a malformed report
    MaxFrames              \* bound: frames accepted per reader

\* domain.Interest; mute are the streams its Preview preferences turn off.
Viewport == [page : Pages, x : Int, y : Int, width : Nat \ {0},
             height : Nat \ {0}, mute : SUBSET {"transform", "ink", "cursor", "laser"}]

\* domain.EventLocation.
Location == [page : Pages \cup {Nothing}, hasPoint : BOOLEAN, x : Int, y : Int]

-----------------------------------------------------------------------------
(* Events and who may publish them *)

EphemeralEvents == {"cursor.moved", "laser.moved", "ink.started", "ink.points",
                    "block.transform.preview", "selection.transform.preview"}
SignalingEvents == {"rtc.offer", "rtc.answer", "rtc.candidate"}

\* Names with a durable prefix or the presence prefix; one name stands for each.
DurableEvents == {"note.", "collection.", "media.", "session.changed",
                  "block.received", "block.broadcast", "presence.", "room.members"}

\* Reliable events that a handler of the server consumes.
Consumed == {"heartbeat", "auth.refresh", "protocol.capabilities",
             "block.lock.request", "block.lock.renew", "block.lock.release"}

\* The server's answers to those.  No table names them, so a client's frame of
\* that name is an unknown one to ClassifyEvent.
LockAnswers == {"block.lock.granted", "block.lock.denied", "block.lock.released",
                "block.lock.expired"}
OtherAnswers == {"heartbeat.ack", "auth.refreshed", "auth.rejected"}

\* Final state and control that is relayed, and names nobody knows.
RelayedReliable == {"ink.commit", "ink.patch", "ink.ended", "history.preview",
                    "history.preview.cancel", "history.preview.confirmed",
                    "block.transform.commit", "block.created", "block.status",
                    "yjs.update", "selection.lock", "unknown"}
Events == EphemeralEvents \cup SignalingEvents \cup DurableEvents \cup Consumed
             \cup LockAnswers \cup OtherAnswers \cup RelayedReliable
             \cup {"interest.update", "server.draining"}

ClassifyEvent(e) ==
    CASE e \in EphemeralEvents -> "ephemeral"
      [] e \in SignalingEvents -> "signaling"
      [] e \in DurableEvents -> "durable"
      [] OTHER -> "reliable"

\* ink.*, block.*, history.*, selection.* and their previews.
DrawingEvents ==
    {"ink.started", "ink.points", "block.transform.preview",
     "selection.transform.preview", "block.lock.request", "block.lock.renew",
     "block.lock.release"}
    \cup LockAnswers \cup (RelayedReliable \ {"yjs.update", "unknown"})

MayPublish(canDraw, e) ==
    /\ e # "server.draining"
    /\ ClassifyEvent(e) # "durable"
    /\ e \in DrawingEvents => canDraw

\* A frame: where its payload says it happened, whom it names as target, and
\* the viewport it reports.
Message == [event : Events, at : Location, target : Conns \cup {Nothing},
            view : Viewports \cup {Nothing}]

ASSUME RelayAssumption ==
    /\ Note \in [Conns -> Notes]
    /\ ReaderConn \in [Readers -> Conns]
    /\ WebTransport \subseteq Conns /\ Drawers \subseteq Conns /\ Slow \subseteq Conns
    /\ Viewports \subseteq Viewport /\ Nothing \notin Viewports
    /\ Nothing \notin Conns
    /\ \A r \in Readers : Inbox[r] \subseteq Message
    /\ GridCellSize \in Nat \ {0}
    /\ MaxWebRTCPeers \in Nat /\ MaxFrames \in Nat

VARIABLES
    room,          \* the connections MemoryRoomStore holds
    phase,         \* per handler: new, open, closing, left, gone
    closed,        \* connections whose Close was called
    draw,          \* connections whose permission is edit or owner
    accepting,     \* ~Health.IsDraining
    draining,      \* RoomService.draining
    byConnection,  \* MemoryInterestIndex.byConnection
    byCell,        \* MemoryInterestIndex.byCell, as tuples note, page, cell, connection
    job,           \* per reader: the frame it is relaying
    count,         \* per reader: frames accepted so far
    got,           \* history: per connection the frames pushed on its queues
    cast,          \* history: the peers a frame was to be sent to
    mutedInk       \* history: connections that ever turned ink previews off

connVars == <<room, phase, closed, draw>>
drainVars == <<accepting, draining>>
indexVars == <<byConnection, byCell, mutedInk>>
historyVars == <<got, cast>>
vars == <<room, phase, closed, draw, accepting, draining, byConnection, byCell,
          job, count, got, cast, mutedInk>>

Idle == [pc |-> "idle"]

Init ==
    /\ room = {} /\ phase = [c \in Conns |-> "new"] /\ closed = {}
    /\ draw = Drawers
    /\ accepting = TRUE /\ draining = FALSE
    /\ byConnection = [c \in Conns |-> Nothing] /\ byCell = {} /\ mutedInk = {}
    /\ job = [r \in Readers |-> Idle] /\ count = [r \in Readers |-> 0]
    /\ got = [c \in Conns |-> {}] /\ cast = {}

-----------------------------------------------------------------------------
(* The grid *)

\* int(coordinate) / GridCellSize truncates towards zero.
CellIndex(a) ==
    IF a >= 0 THEN a \div GridCellSize ELSE 0 - ((0 - a) \div GridCellSize)

\* Mutant: the margin is forgotten on the far side.
RangeShort(from, size) == (CellIndex(from) - 1)..CellIndex(from + size)

\* The cells a side of the rectangle overlaps, and one more at either end.
CellRange(from, size) == (CellIndex(from) - 1)..(CellIndex(from + size) + 1)

Cells(v) == CellRange(v.x, v.width) \X CellRange(v.y, v.height)

\* The byCell entries of connection c while it looks at v.
Entries(c, v) ==
    IF v = Nothing THEN {} ELSE {<<Note[c], v.page, cell, c>> : cell \in Cells(v)}

\* MemoryInterestIndex.Interested.
Interested(c, at) ==
    LET v == byConnection[c] IN
    \/ v = Nothing
    \/ ~at.hasPoint /\ at.page \in {Nothing, v.page}
    \/ /\ at.hasPoint /\ at.page \in {Nothing, v.page}
       /\ <<Note[c], v.page, <<CellIndex(at.x), CellIndex(at.y)>>, c>> \in byCell

StreamOf(e) ==
    CASE e = "block.transform.preview" -> "transform"
      [] e \in {"ink.started", "ink.points", "ink.ended"} -> "ink"
      [] e = "cursor.moved" -> "cursor"
      [] e = "laser.moved" -> "laser"
      [] OTHER -> "always"

AllowsPreview(c, e) ==
    byConnection[c] = Nothing \/ StreamOf(e) \notin byConnection[c].mute

-----------------------------------------------------------------------------
(* Connections come, change and go *)

Join(c) ==
    /\ phase[c] = "new" /\ ~draining
    /\ room' = room \cup {c}
    /\ phase' = [phase EXCEPT ![c] = "open"]
    /\ UNCHANGED <<closed, draw, drainVars, indexVars, job, count, historyVars>>

\* ApplyPermission, from a control request or a refresh.
SetPermission(c) ==
    /\ c \in Drawers
    /\ draw' = IF c \in draw THEN draw \ {c} ELSE draw \cup {c}
    /\ UNCHANGED <<room, phase, closed, drainVars, indexVars, job, count, historyVars>>

\* Mutant: no handler waits for its reader.
MayReturnAnyTime(c) == TRUE

\* A WebSocket handler is its own reader.
MayReturn(c) ==
    \/ c \in WebTransport
    \/ \A r \in Readers : ReaderConn[r] = c => job[r] = Idle

\* The handler returns; its deferred calls close the connection, ...
HandlerReturns(c) ==
    /\ phase[c] = "open" /\ MayReturn(c)
    /\ closed' = closed \cup {c}
    /\ phase' = [phase EXCEPT ![c] = "closing"]
    /\ UNCHANGED <<room, draw, drainVars, indexVars, job, count, historyVars>>

\* ... take it out of its room, ...
LeaveRoom(c) ==
    /\ phase[c] = "closing"
    /\ room' = room \ {c}
    /\ phase' = [phase EXCEPT ![c] = "left"]
    /\ UNCHANGED <<closed, draw, drainVars, indexVars, job, count, historyVars>>

\* Mutant: the entry is blanked instead of deleted.
Blanked(c) ==
    [byConnection EXCEPT ![c] = [page |-> Nothing, x |-> 0, y |-> 0, width |-> 0,
                                 height |-> 0, mute |-> {}]]

Deleted(c) == [byConnection EXCEPT ![c] = Nothing]

\* MemoryInterestIndex.Remove.
Remove(c) ==
    /\ byCell' = byCell \ Entries(c, byConnection[c])
    /\ byConnection' = Deleted(c)
    /\ UNCHANGED mutedInk

\* ... and drop its viewport.
RemoveInterest(c) ==
    /\ phase[c] = "left"
    /\ Remove(c)
    /\ phase' = [phase EXCEPT ![c] = "gone"]
    /\ UNCHANGED <<room, closed, draw, drainVars, job, count, historyVars>>

StartDraining ==
    /\ accepting
    /\ accepting' = FALSE
    /\ UNCHANGED <<connVars, draining, indexVars, job, count, historyVars>>

BeginDrain ==
    /\ ~accepting /\ ~draining
    /\ draining' = TRUE
    /\ UNCHANGED <<connVars, accepting, indexVars, job, count, historyVars>>

-----------------------------------------------------------------------------
(* handleClientFrame *)

Sender(r) == ReaderConn[r]

\* The frame passes the drain check, the rate limit and the permission check,
\* and is neither consumed by another handler nor refused by the lease guard.
\* A WebTransport reader may still find one when its connection has closed.
Frame(r, m) ==
    /\ \/ phase[Sender(r)] = "open"
       \/ Sender(r) \in WebTransport /\ phase[Sender(r)] # "new"
    /\ job[r] = Idle /\ count[r] < MaxFrames
    /\ accepting
    /\ MayPublish(Sender(r) \in draw, m.event)
    /\ m.event \notin Consumed
    /\ count' = [count EXCEPT ![r] = @ + 1]
    /\ job' = [job EXCEPT ![r] =
                 [pc |-> IF m.event = "interest.update" THEN "report" ELSE "relay",
                  n |-> count[r] + 1, msg |-> m, todo |-> {}, peer |-> Nothing]]
    /\ UNCHANGED <<connVars, drainVars, indexVars, historyVars>>

At(r, pc) == job[r].pc = pc
Done(r) == job' = [job EXCEPT ![r] = Idle]

\* Mutant: a report from the same page keeps the old cells.
WithdrawnFrom(c, v) ==
    IF byConnection[c] # Nothing /\ byConnection[c].page = v.page
    THEN {} ELSE Entries(c, byConnection[c])

\* The entries a new report v of c replaces.
Withdrawn(c, v) == Entries(c, byConnection[c])

\* InterestService.Update: a malformed report removes the old one.
UpdateInterest(r) ==
    LET c == Sender(r)
        v == job[r].msg.view
    IN
    /\ At(r, "report")
    /\ IF v = Nothing
       THEN Remove(c)
       ELSE /\ byConnection' = [byConnection EXCEPT ![c] = v]
            /\ byCell' = (byCell \ Withdrawn(c, v)) \cup Entries(c, v)
            /\ mutedInk' = IF "ink" \in v.mute THEN mutedInk \cup {c} ELSE mutedInk
    /\ Done(r)
    /\ UNCHANGED <<connVars, drainVars, count, historyVars>>

-----------------------------------------------------------------------------
(* RoomService.Relay *)

Class(r) == ClassifyEvent(job[r].msg.event)
Members(n) == {c \in room : Note[c] = n}

\* A frame as its recipients see it: stamped with the connection it came from.
Stamped(r) == [from |-> Sender(r), reader |-> r, n |-> job[r].n, msg |-> job[r].msg]

\* A draining service relays nothing more.
CheckDraining(r) ==
    /\ At(r, "relay")
    /\ IF draining THEN Done(r) ELSE job' = [job EXCEPT ![r].pc = "admitted"]
    /\ UNCHANGED <<connVars, drainVars, indexVars, count, historyVars>>

\* The peers are listed once; who joins later is not among them.
ListPeers(r) ==
    /\ At(r, "admitted")
    /\ Class(r) # "signaling"
    /\ LET peers == Members(Note[Sender(r)]) \ {Sender(r)} IN
          /\ job' = [job EXCEPT ![r].pc = "fanout", ![r].todo = peers]
          /\ cast' = cast \cup {[frame |-> Stamped(r), peers |-> peers]}
    /\ UNCHANGED <<connVars, drainVars, indexVars, count, got>>

\* Mutant: everything that says where it happened is filtered.
FilteredIfLocated(r) == job[r].msg.at.hasPoint

\* Only ephemeral traffic is filtered.
Filtered(r) == Class(r) = "ephemeral"

\* Mutant: continuations alone skip the spatial filter.
IsContinuation(e) == e = "ink.points"

IsLiveInk(e) == e \in {"ink.started", "ink.points"}

\* First filter: what the peer has on screen.
FilterSpatially(r) ==
    /\ At(r, "fanout") /\ Filtered(r)
    /\ \E d \in job[r].todo :
          IF IsLiveInk(job[r].msg.event) \/ Interested(d, job[r].msg.at)
          THEN job' = [job EXCEPT ![r].pc = "preview", ![r].peer = d,
                                  ![r].todo = @ \ {d}]
          ELSE job' = [job EXCEPT ![r].todo = @ \ {d}]
    /\ UNCHANGED <<connVars, drainVars, indexVars, count, historyVars>>

Delivered(r, d) == [got EXCEPT ![d] = @ \cup {Stamped(r)}]

\* Second filter: what the peer wants to see; then SendEphemeral.
FilterPreview(r) ==
    LET d == job[r].peer IN
    /\ At(r, "preview")
    /\ got' = IF AllowsPreview(d, job[r].msg.event) /\ d \notin closed
              THEN Delivered(r, d) ELSE got
    /\ job' = [job EXCEPT ![r].pc = "fanout", ![r].peer = Nothing]
    /\ UNCHANGED <<connVars, drainVars, indexVars, count, cast>>

\* SendReliable: a closed connection swallows the frame, a full queue closes.
SendReliable(r, d) ==
    \/ d \notin closed /\ got' = Delivered(r, d) /\ UNCHANGED closed
    \/ d \in closed \cup Slow /\ closed' = closed \cup {d} /\ UNCHANGED got

RelayReliable(r) ==
    /\ At(r, "fanout") /\ ~Filtered(r)
    /\ \E d \in job[r].todo :
          /\ SendReliable(r, d)
          /\ job' = [job EXCEPT ![r].todo = @ \ {d}]
    /\ UNCHANGED <<room, phase, draw, drainVars, indexVars, count, cast>>

FanoutDone(r) ==
    /\ At(r, "fanout") /\ job[r].todo = {}
    /\ Done(r)
    /\ UNCHANGED <<connVars, drainVars, indexVars, count, historyVars>>

-----------------------------------------------------------------------------
(* RelayToPeer *)

\* The room's size and the target's name are looked at first.
CheckTarget(r) ==
    LET c == Sender(r) IN
    /\ At(r, "admitted")
    /\ Class(r) = "signaling"
    /\ IF \/ Cardinality(Members(Note[c])) > MaxWebRTCPeers
          \/ job[r].msg.target \in {Nothing, c}
       THEN Done(r)
       ELSE job' = [job EXCEPT ![r].pc = "signal"]
    /\ UNCHANGED <<connVars, drainVars, indexVars, count, historyVars>>

\* Mutant: the target is looked up in every room.
ConnectionAnywhere(c, d) == d \in room

ConnectionByID(c, d) == d \in Members(Note[c])

SignalPeer(r) ==
    LET d == job[r].msg.target IN
    /\ At(r, "signal")
    /\ \/ ConnectionByID(Sender(r), d) /\ SendReliable(r, d)
       \/ ~ConnectionByID(Sender(r), d) /\ UNCHANGED <<got, closed>>
    /\ Done(r)
    /\ UNCHANGED <<room, phase, draw, drainVars, indexVars, count, cast>>

-----------------------------------------------------------------------------
ReaderStep(r) ==
    \/ UpdateInterest(r) \/ CheckDraining(r) \/ ListPeers(r)
    \/ FilterSpatially(r) \/ FilterPreview(r) \/ RelayReliable(r) \/ FanoutDone(r)
    \/ CheckTarget(r) \/ SignalPeer(r)

Next ==
    \/ \E r \in Readers : ReaderStep(r)
    \/ \E r \in Readers : \E m \in Inbox[r] : Frame(r, m)
    \/ \E c \in Conns : \/ Join(c) \/ SetPermission(c)
                        \/ HandlerReturns(c) \/ LeaveRoom(c) \/ RemoveInterest(c)
    \/ StartDraining
    \/ BeginDrain

Spec == Init /\ [][Next]_vars

-----------------------------------------------------------------------------
(* Properties *)

Frames == [from : Conns, reader : Readers, n : Nat, msg : Message]
Jobs == [pc : {"report", "relay", "admitted", "fanout", "preview", "signal"},
         n : Nat, msg : Message, todo : SUBSET Conns, peer : Conns \cup {Nothing}]

\* Every store, handler and reader is in a state its code has.
TypeOK ==
    /\ room \subseteq Conns /\ closed \subseteq Conns /\ draw \subseteq Drawers
    /\ phase \in [Conns -> {"new", "open", "closing", "left", "gone"}]
    /\ accepting \in BOOLEAN /\ draining \in BOOLEAN
    /\ byConnection \in [Conns -> Viewports \cup {Nothing}]
    /\ byCell \subseteq (Notes \X Pages \X (Int \X Int) \X Conns)
    /\ job \in [Readers -> {Idle} \cup Jobs]
    /\ count \in [Readers -> 0..MaxFrames]
    /\ got \in [Conns -> SUBSET Frames]
    /\ cast \subseteq [frame : Frames, peers : SUBSET Conns]
    /\ mutedInk \subseteq Conns

\* "Two directions are kept in step" (MemoryInterestIndex): byCell holds exactly
\* the cells of the viewports in byConnection, after any sequence of reports,
\* malformed reports and departures.
IndexInStep == byCell = UNION {Entries(c, byConnection[c]) : c \in Conns}

\* "One cell of slack absorbs that lag" (Cells): a connection is interested in
\* every event on its page that is on its reported screen or less than a cell
\* away from it, on either side of the origin.
ScreenIsCovered ==
    \A c \in Conns :
        LET v == byConnection[c] IN
        v # Nothing =>
            \A x \in (v.x - GridCellSize)..(v.x + v.width + GridCellSize),
               y \in (v.y - GridCellSize)..(v.y + v.height + GridCellSize) :
                Interested(c, [page |-> v.page, hasPoint |-> TRUE, x |-> x, y |-> y])

\* "Reliable traffic must reach everyone regardless of viewport" (Relay): once a
\* reliable frame's fan-out is over, each peer that was listed has it on its
\* queue or is being closed.
ReliableReachesAll ==
    \A k \in cast :
        /\ ClassifyEvent(k.frame.msg.event) = "reliable"
        /\ \A r \in Readers : job[r] # Idle => Stamped(r) # k.frame
        => \A d \in k.peers : k.frame \in got[d] \/ d \in closed

\* Frames stay where they belong: no connection is sent its own frame, one from
\* another note, an announcement of persisted state, of presence or of the drain,
\* a request to the server, drawing by someone who was never allowed to, or a
\* negotiation addressed to somebody else.  The server's answers are not on that
\* list: a client's block.lock.granted is relayed like any drawing event.
ScopedDelivery ==
    \A d \in Conns : \A f \in got[d] :
        /\ f.from # d /\ Note[f.from] = Note[d]
        /\ f.msg.event \notin DurableEvents \cup Consumed
                                \cup {"interest.update", "server.draining"}
        /\ f.msg.event \in DrawingEvents => f.from \in Drawers
        /\ f.msg.event \in SignalingEvents => f.msg.target = d

\* "peers holding points for a stroke they never saw begin" (Relay) do not
\* exist among those that were listed when it began and never turned ink off.
InkBegins ==
    \A d \in Conns \ mutedInk : \A f \in got[d] :
        f.msg.event = "ink.points" =>
            \A k \in cast :
                /\ k.frame.msg.event = "ink.started"
                /\ k.frame.reader = f.reader /\ k.frame.n < f.n
                /\ d \in k.peers
                => k.frame \in got[d]

\* A WebSocket connection that is gone has no viewport left in the index, which
\* nothing sweeps.
GoneHasNoInterest ==
    \A c \in Conns \ WebTransport : phase[c] = "gone" => byConnection[c] = Nothing
=============================================================================
