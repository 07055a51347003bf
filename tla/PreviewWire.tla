----------------------------- MODULE PreviewWire -----------------------------
(***************************************************************************)
(* A preview's way from a browser on a WebTransport stream to a recipient: *)
(* readStreamFrames, the decoding in handleClientFrame, the stamp, and the *)
(* recipient's writer (drainEphemeral, write, writeDatagram, writeStream,  *)
(* wireBytes), which picks aggregate, compact or JSON form, datagram or    *)
(* stream, by what the recipient has shown it can read so far.             *)
(*                                                                         *)
(* The queue holds what OutboundQueues kept; rights, limits and interest   *)
(* are Relay's.  A JSON frame is one cell, the envelope.  A cut may end    *)
(* the stream in the middle of a frame.                                    *)
(***************************************************************************)
EXTENDS Codec

CONSTANTS
    Drawable,       \* the previews a browser may draw: [code, payload]
    Numbering,      \* the sequence numbers it gives them, Absent included
    MessageId, SessionId, Channel, ActorId, Origin,   \* what the stamp writes
    JSONLen,        \* cells of a JSON message
    MaxFramePrefix, \* the longest frame a stream reader takes
    MaxDatagram,    \* wtConnection.maxDatagram
    Batch,          \* maxEphemeralAggregateFrames
    MaxDrawn        \* bound: previews drawn

ASSUME DrawableAssumption ==
    \A d \in Drawable : d.code \in Codes /\ d.payload \in Payloads(d.code)

ASSUME StampAssumption == {MessageId, SessionId, Channel, ActorId, Origin} \subseteq Names

ASSUME BatchAssumption == Batch \in Nat

VARIABLES
    drawn,      \* history: the previews drawn, in order
    stream,     \* cells under way to the server
    cut,        \* the stream has ended
    rpc, rsize, \* the stream reader: next step, length read
    hand,       \* the frame handed to handleClientFrame
    handed,     \* history: frames handed over
    queue,      \* the recipient's previews waiting
    queued,     \* history: which drawn previews were queued
    transport,  \* the recipient's: "ws" or "wt"
    binary, aggregates,   \* binaryFrames and aggregateFrames of its connection
    batch,      \* the rest of the batch that goes out one by one
    down,       \* messages under way to the recipient: [via, cells]
    shown       \* history: what the recipient made of them

upVars == <<drawn, stream, cut>>
readVars == <<rpc, rsize, hand, handed>>
downVars == <<batch, down>>
vars == <<drawn, stream, cut, rpc, rsize, hand, handed, queue, queued, transport,
          binary, aggregates, batch, down, shown>>

Init ==
    /\ drawn = <<>> /\ stream = <<>> /\ cut = FALSE
    /\ rpc = "header" /\ rsize = 0 /\ hand = <<>> /\ handed = 0
    /\ queue = <<>> /\ queued = <<>>
    /\ transport \in {"ws", "wt"}
    /\ binary = FALSE /\ aggregates = FALSE
    /\ batch = <<>> /\ down = <<>> /\ shown = <<>>

-----------------------------------------------------------------------------
(* Browser to server *)

\* Compact if it can be, JSON if not.
CompactOr(e, compact) == IF compact.ok THEN compact.cells ELSE <<e>>

ClientFrame(e) == CompactOr(e, EncodeClientFrame(e))

\* The sender's browser writes the frame behind its length.
Draw(d) ==
    LET e == [code |-> d.code, payload |-> d.payload, seq |-> Numbering[Len(drawn) + 1]]
        frame == ClientFrame(e)
    IN
    /\ ~cut /\ Len(drawn) < MaxDrawn
    /\ drawn' = Append(drawn, e)
    /\ stream' = stream \o <<Len(frame)>> \o frame
    /\ UNCHANGED <<cut, readVars, queue, queued, transport, binary, aggregates, downVars, shown>>

\* The session goes away; what was under way past some cell is lost.
Cut(n) ==
    /\ ~cut
    /\ cut' = TRUE
    /\ stream' = SubSeq(stream, 1, n)
    /\ UNCHANGED <<drawn, readVars, queue, queued, transport, binary, aggregates, downVars, shown>>

TooLong(size) == size > MaxFramePrefix

\* readStreamFrames reads a length: 0 is skipped, too long ends it.
ReadPrefix ==
    /\ rpc = "header"
    /\ IF stream = <<>>
       THEN cut /\ rpc' = "ended" /\ UNCHANGED <<rsize, stream>>
       ELSE /\ rpc' = IF stream[1] = 0 THEN "header"
                      ELSE IF TooLong(stream[1]) THEN "ended" ELSE "payload"
            /\ rsize' = stream[1]
            /\ stream' = From(stream, 2)
    /\ UNCHANGED <<drawn, cut, hand, handed, queue, queued, transport, binary, aggregates,
                   downVars, shown>>

\* Mutant: what there is of a frame is handed over when the stream ends.
ReadableShort == Len(stream) >= rsize \/ (cut /\ stream # <<>>)

\* io.ReadFull has a whole payload.
Readable == Len(stream) >= rsize

ReadPayload ==
    LET n == Min({rsize, Len(stream)}) IN
    /\ rpc = "payload" /\ Readable
    /\ hand' = SubSeq(stream, 1, n)
    /\ stream' = From(stream, n + 1)
    /\ handed' = handed + 1
    /\ rpc' = "frame"
    /\ UNCHANGED <<drawn, cut, rsize, queue, queued, transport, binary, aggregates, downVars, shown>>

StreamEnds ==
    /\ rpc = "payload" /\ cut /\ ~Readable
    /\ rpc' = "ended"
    /\ UNCHANGED <<upVars, rsize, hand, handed, queue, queued, transport, binary, aggregates,
                   downVars, shown>>

\* Envelope.Stamp: the user and the connection of the sender, both present.
Stamped(e) ==
    [code |-> e.code, payload |-> e.payload, seq |-> e.seq, messageId |-> MessageId,
     sessionId |-> SessionId, channel |-> Channel, actorId |-> ActorId, origin |-> Origin,
     sentAt |-> handed]

Parsed(e) == [ok |-> TRUE, code |-> e.code, payload |-> e.payload, seq |-> e.seq]

Publish(e) ==
    IF e.ok
    THEN queue' = Append(queue, Stamped(e)) /\ queued' = Append(queued, handed)
    ELSE UNCHANGED <<queue, queued>>

\* handleClientFrame: what decodes is stamped and queued for the recipient.
HandleFrame ==
    /\ rpc = "frame"
    /\ IF IsBinaryFrame(hand) THEN Publish(DecodeClientFrame(hand)) ELSE Publish(Parsed(hand[1]))
    /\ hand' = <<>> /\ rpc' = "header" /\ rsize' = 0
    /\ UNCHANGED <<upVars, handed, transport, binary, aggregates, downVars, shown>>

-----------------------------------------------------------------------------
(* Server to recipient *)

\* The recipient's own reader got a compact frame, or its capabilities.
EnableBinaryFrames ==
    /\ ~binary /\ binary' = TRUE
    /\ UNCHANGED <<upVars, readVars, queue, queued, transport, aggregates, downVars, shown>>

EnableBinaryAggregates ==
    /\ ~aggregates /\ aggregates' = TRUE
    /\ UNCHANGED <<upVars, readVars, queue, queued, transport, binary, downVars, shown>>

Fits(n) == transport = "ws" \/ n <= MaxDatagram

\* Mutant: the batch ends one further than it was taken.
RestSkipsOne(n) == From(queue, n + 2)

\* takeEphemeralBatch leaves the queue behind the batch.
RestOfQueue(n) == From(queue, n + 1)

SendBatch(taken, whole) ==
    IF Len(taken) > 1 /\ binary /\ aggregates /\ whole.ok /\ Fits(Len(whole.cells))
    THEN /\ down' = Append(down, [via |-> IF transport = "ws" THEN "stream" ELSE "datagram",
                                  cells |-> whole.cells])
         /\ UNCHANGED batch
    ELSE batch' = taken /\ UNCHANGED down

\* drainEphemeral takes a batch.  An aggregate that is possible and fits goes
\* out whole; otherwise the batch goes out one by one.
TakeBatch ==
    LET n == Min({Batch, Len(queue)})
        taken == SubSeq(queue, 1, n)
    IN
    /\ batch = <<>> /\ queue # <<>>
    /\ queue' = RestOfQueue(n)
    /\ SendBatch(taken, EncodeRelayAggregate(taken))
    /\ UNCHANGED <<upVars, readVars, queued, transport, binary, aggregates, shown>>

\* wireBytes: by what the recipient can read at this moment.
WireBytes(e) == IF binary THEN CompactOr(e, EncodeRelayFrame(e)) ELSE <<e>>

WireLen(cells) == IF IsBinaryFrame(cells) THEN Len(cells) ELSE JSONLen

\* write on a socket; writeDatagram, or writeStream for what is too long.  (It
\* asks wireBytes again; a capability learnt in between changes the form only.)
Message(cells) ==
    [via |-> IF transport = "wt" /\ Fits(WireLen(cells)) THEN "datagram" ELSE "stream",
     cells |-> cells]

WriteOne ==
    /\ batch # <<>>
    /\ down' = Append(down, Message(WireBytes(Head(batch))))
    /\ batch' = Tail(batch)
    /\ UNCHANGED <<upVars, readVars, queue, queued, transport, binary, aggregates, shown>>

\* Datagrams are lost.
Lose(i) ==
    /\ down[i].via = "datagram"
    /\ down' = RemoveAt(down, i)
    /\ UNCHANGED <<upVars, readVars, queue, queued, transport, binary, aggregates, batch, shown>>

Unreadable == [ok |-> FALSE, sentAt |-> 0]

RelayedOf(cells, m, r) ==
    IF m.ok /\ Consumed(r)
    THEN [ok |-> TRUE, code |-> cells[3], seq |-> m.seq, actorId |-> m.actorId,
          origin |-> m.origin, sentAt |-> m.sentAt, payload |-> r.v]
    ELSE Unreadable

RelayedWith(cells, m) ==
    RelayedOf(cells, m, DecodePayload(cells[3], cells[4] - RelayFlag,
                                      SubSeq(cells, HeaderSize + 1, m.start - 1)))

\* One relayed frame, metadata and payload, as the recipient reads it.
ReadRelayed(cells) == RelayedWith(cells, RelayMetadata(cells))

ReadPlain(e) ==
    [ok |-> TRUE, code |-> e.code, seq |-> EnvelopeSeq(e.seq), actorId |-> e.actorId,
     origin |-> e.origin, sentAt |-> e.sentAt, payload |-> e.payload]

\* The frames of a message: an aggregate is taken apart.
FramesOf(cells) ==
    IF IsBinaryFrame(cells) /\ cells[3] = Aggregate
    THEN IF Children(cells).ok THEN Children(cells).v ELSE <<<<>>>>
    ELSE <<cells>>

ReadFrame(cells) ==
    IF cells = <<>> THEN Unreadable
    ELSE IF IsBinaryFrame(cells) THEN ReadRelayed(cells) ELSE ReadPlain(cells[1])

ReadMessage(cells) == [i \in DOMAIN FramesOf(cells) |-> ReadFrame(FramesOf(cells)[i])]

\* Streams keep their order, datagrams come in any.
Receive(i) ==
    /\ down[i].via = "stream" => \A j \in 1..(i - 1) : down[j].via = "datagram"
    /\ shown' = shown \o ReadMessage(down[i].cells)
    /\ down' = RemoveAt(down, i)
    /\ UNCHANGED <<upVars, readVars, queue, queued, transport, binary, aggregates, batch>>

Next ==
    \/ \E d \in Drawable : Draw(d)
    \/ \E n \in 0..Len(stream) : Cut(n)
    \/ ReadPrefix \/ ReadPayload \/ StreamEnds \/ HandleFrame
    \/ EnableBinaryFrames \/ EnableBinaryAggregates
    \/ TakeBatch \/ WriteOne
    \/ \E i \in DOMAIN down : Lose(i) \/ Receive(i)

Spec == Init /\ [][Next]_vars

-----------------------------------------------------------------------------
Near(a, b) == a - b \in {-1, 0, 1}

\* What a recipient may show for point i of the points drawn: within half a
\* quantum, at the latest time so far.  A pressure or a time that some point
\* lacks may be missing from all.
SamePoint(point, points, i) ==
    /\ Near(point.x, points[i].x) /\ Near(point.y, points[i].y)
    /\ \/ point.p = points[i].p
       \/ point.p = Absent /\ \E j \in DOMAIN points : points[j].p = Absent
       \/ points[i].p # Absent /\ point.p # Absent
          /\ Near(point.p, Max({0, Min({2 * MaxByte, points[i].p})}))
    /\ \/ point.t = points[i].t
       \/ point.t = Absent /\ \E j \in DOMAIN points : points[j].t = Absent
       \/ points[i].t # Absent /\ point.t = Max({points[j].t : j \in 1..i})

SamePayload(code, p, q) ==
    IF code = "ink"
    THEN /\ p.id = q.id /\ Len(p.points) = Len(q.points)
         /\ \A i \in DOMAIN q.points : SamePoint(p.points[i], q.points, i)
    ELSE \A f \in DOMAIN q : IF f \in {"id", "page"} THEN p[f] = q[f] ELSE Near(p[f], q[f])

\* A preview is shown as it was drawn, whatever forms it took on the way: within
\* half a quantum although it may be rounded twice, its deltas may overflow an
\* int32, and compact, aggregate and JSON forms follow each other; and with the
\* server's stamp, not another frame's.
ShownAsDrawn ==
    \A i \in DOMAIN shown :
        LET s == shown[i] IN
        /\ s.ok /\ s.sentAt \in 1..handed
        /\ s.code = drawn[s.sentAt].code
        /\ s.seq = EnvelopeSeq(drawn[s.sentAt].seq)
        /\ s.actorId = ActorId /\ s.origin = Origin
        /\ SamePayload(s.code, s.payload, drawn[s.sentAt].payload)

Numbers(ss) == [i \in DOMAIN ss |-> ss[i].sentAt]

\* On a socket, a batch that cannot be one aggregate still goes out whole and
\* in order: what was shown, what is under way, the rest of the batch and the
\* queue are together all that was queued, each once.
BatchKeepsAll ==
    transport = "ws" =>
        queued = Numbers(shown) \o FlattenSeq([i \in DOMAIN down |-> Numbers(ReadMessage(down[i].cells))])
                 \o Numbers(batch) \o Numbers(queue)

\* readStreamFrames hands over exactly the frames written, in order and whole,
\* wherever the stream is cut.
FramesWhole == rpc = "frame" => hand = ClientFrame(drawn[handed])

\* A compact frame tells its own end: no proper part of it is taken for a frame,
\* nor is it together with a cell more or with any of what follows on the stream.
SelfDelimiting ==
    rpc = "frame" /\ IsBinaryFrame(hand) =>
        /\ \A n \in 0..(Len(hand) - 1) : ~DecodeClientFrame(SubSeq(hand, 1, n)).ok
        /\ \A more \in {<<0>>} \cup {SubSeq(stream, 1, n) : n \in 1..Len(stream)} :
              ~DecodeClientFrame(hand \o more).ok
=============================================================================
