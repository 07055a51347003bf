--------------------------- MODULE OutboundQueues ---------------------------
(***************************************************************************)
(* The send side of one connection, shared by both transports: the bounded *)
(* reliable channel with its wake signal, the coalescing ephemeral queue,  *)
(* the single writePump goroutine that empties both, and the shutdown poll *)
(* of PendingReliable.                                                     *)
(*                                                                         *)
(* A step is one channel operation, one atomic, or one ephemeralMu section. *)
(* Frames are numbered: the n-th reliable frame of sender s is <<s, n>>,   *)
(* the n-th ephemeral frame of stream k is <<k, n>>.                       *)
(***************************************************************************)
EXTENDS Integers, Sequences, FiniteSets, FiniteSetsExt

CONSTANTS
    Senders,       \* goroutines calling SendReliable on this connection
    Lenient,       \* those that ignore a refusal (Join sending the roster)
    Cap,           \* reliableSize
    Keys,          \* coalesce keys
    InkKeys,       \* keys of ink events (ink.started, ink.points)
    DeltaKeys,     \* keys of ink.points: minted once each, never coalesced
    MaxEphemeral,  \* ephemeralSize
    Batch,         \* maxEphemeralAggregateFrames
    Loads          \* bound: the mixes of frames that may come

ASSUME SenderAssumption == Lenient \subseteq Senders
ASSUME KeyAssumption ==
    DeltaKeys \subseteq InkKeys /\ InkKeys \subseteq Keys /\ IsFiniteSet(Keys)
ASSUME SizeAssumption ==
    /\ Cap \in Nat /\ MaxEphemeral \in Nat
    /\ Batch \in Nat \ {0}

\* A load: how many reliable frames all senders together send, and how many
\* ephemeral frames come for each key.
ASSUME LoadAssumption == Loads \subseteq [sends : Nat, pushes : [Keys -> Nat]]

VARIABLES
    reliable,   \* the channel's buffer
    wake,       \* the one-slot wake channel is full
    inFlight,   \* reliableInFlight
    closed,     \* the closed channel is closed
    spc,        \* per sender: "idle", "checked", "pushed", "refused"
    sent,       \* per sender: frames it has begun to send
    wpc,        \* writePump: where it is
    hand,       \* the reliable frame the writer took (kept if its write fails)
    eph,        \* ephemeral: per key the queued frame number, 0 for none
    order,      \* ephemeralOrder
    batch,      \* the ephemeral frames the writer took and has still to write
    pushed,     \* per key: frames pushed so far
    dropped, droppedInk,
    poll,       \* WaitForReliableDrain: "idle", "len" (depth read), "flushed"
    pollLen,    \* the depth it read
    due,        \* how many frames had been accepted when that poll began
    accepted,   \* history: reliable frames the channel accepted, in order
    handled,    \* history: reliable frames whose write returned true, in order
    shown,      \* history: per key the last ephemeral frame written, and how many
    shed        \* history: per key the last frame shed

relVars == <<reliable, wake, spc, sent, hand, accepted, handled>>
ephVars == <<eph, order, batch, pushed, dropped, droppedInk, shown, shed>>
pollVars == <<poll, pollLen, due>>
vars == <<reliable, wake, inFlight, closed, spc, sent, wpc, hand, eph, order,
          batch, pushed, dropped, droppedInk, poll, pollLen, due, accepted,
          handled, shown, shed>>

Frame == Senders \X Nat

Init ==
    /\ reliable = <<>> /\ wake = FALSE /\ inFlight = 0 /\ closed = FALSE
    /\ spc = [s \in Senders |-> "idle"] /\ sent = [s \in Senders |-> 0]
    /\ wpc = "select" /\ hand = <<>>
    /\ eph = [k \in Keys |-> 0] /\ order = <<>> /\ batch = <<>>
    /\ pushed = [k \in Keys |-> 0] /\ dropped = 0 /\ droppedInk = 0
    /\ poll = "idle" /\ pollLen = 0 /\ due = 0
    /\ accepted = <<>> /\ handled = <<>>
    /\ shown = [k \in Keys |-> [last |-> 0, count |-> 0]]
    /\ shed = [k \in Keys |-> 0]

-----------------------------------------------------------------------------
(* SendReliable, by any goroutine that fans out to the room.               *)

\* Bound: one of the loads allows so many frames.
Bounded(sends, pushes) ==
    \E l \in Loads :
        /\ MapThenSumSet(LAMBDA s : sends[s], Senders) <= l.sends
        /\ \A k \in Keys : pushes[k] <= l.pushes[k]

\* pushReliable starts: a closed connection swallows the frame.
CheckClosed(s) ==
    /\ spc[s] = "idle"
    /\ sent' = [sent EXCEPT ![s] = @ + 1]
    /\ Bounded(sent', pushed)
    /\ spc' = [spc EXCEPT ![s] = IF closed THEN "idle" ELSE "checked"]
    /\ UNCHANGED <<reliable, wake, inFlight, closed, wpc, hand, ephVars, pollVars,
                   accepted, handled>>

\* The non-blocking send on the channel succeeds; the connection may have been
\* closed since the check.
PushReliable(s) ==
    /\ spc[s] = "checked"
    /\ Len(reliable) < Cap
    /\ reliable' = Append(reliable, <<s, sent[s]>>)
    /\ accepted' = Append(accepted, <<s, sent[s]>>)
    /\ spc' = [spc EXCEPT ![s] = "pushed"]
    /\ UNCHANGED <<wake, inFlight, closed, sent, wpc, hand, ephVars, pollVars, handled>>

\* signal: fill the wake slot, or leave it full.
Signal(s) ==
    /\ spc[s] = "pushed"
    /\ wake' = TRUE
    /\ spc' = [spc EXCEPT ![s] = "idle"]
    /\ UNCHANGED <<reliable, inFlight, closed, sent, wpc, hand, ephVars, pollVars,
                   accepted, handled>>

RefuseReliable(s) ==
    /\ spc[s] = "checked"
    /\ Len(reliable) >= Cap
    /\ spc' = [spc EXCEPT ![s] = "refused"]
    /\ UNCHANGED <<reliable, wake, inFlight, closed, sent, wpc, hand, ephVars,
                   pollVars, accepted, handled>>

\* The caller's answer to errReliableQueueFull: Close("reliable queue overflow").
HandleRefusal(s) ==
    /\ spc[s] = "refused"
    /\ closed' = (closed \/ s \notin Lenient)
    /\ spc' = [spc EXCEPT ![s] = "idle"]
    /\ UNCHANGED <<reliable, wake, inFlight, sent, wpc, hand, ephVars, pollVars,
                   accepted, handled>>

\* Close from the read side, a revocation or the shutdown.
Close ==
    /\ ~closed
    /\ closed' = TRUE
    /\ UNCHANGED <<relVars, inFlight, wpc, ephVars, pollVars>>

-----------------------------------------------------------------------------
(* The writer.                                                             *)

WriterExit ==
    /\ wpc = "select"
    /\ closed
    /\ wpc' = "done"
    /\ UNCHANGED <<relVars, inFlight, closed, ephVars, pollVars>>

\* ctx.Done: the request or the session ended before anybody closed the queues.
WriterCancelled ==
    /\ wpc = "select"
    /\ wpc' = "done"
    /\ UNCHANGED <<relVars, inFlight, closed, ephVars, pollVars>>

\* select picks wake, even when closed is ready too.
WriterWoken ==
    /\ wpc = "select"
    /\ wake
    /\ wake' = FALSE
    /\ wpc' = "drain"
    /\ UNCHANGED <<reliable, inFlight, closed, spc, sent, hand, ephVars, pollVars,
                   accepted, handled>>

\* takeReliable returns a frame.
TakeReliable ==
    /\ wpc = "drain"
    /\ reliable # <<>>
    /\ hand' = <<Head(reliable)>>
    /\ reliable' = Tail(reliable)
    /\ wpc' = "taken"
    /\ UNCHANGED <<wake, inFlight, closed, spc, sent, ephVars, pollVars, accepted,
                   handled>>

\* takeReliable returns nil: the drain is over.
DrainedReliable ==
    /\ wpc = "drain"
    /\ reliable = <<>>
    /\ wpc' = "select"
    /\ UNCHANGED <<relVars, inFlight, closed, ephVars, pollVars>>

BeginReliableWrite ==
    /\ wpc = "taken"
    /\ inFlight' = inFlight + 1
    /\ wpc' = "writing"
    /\ UNCHANGED <<relVars, closed, ephVars, pollVars>>

\* Mutant: a frame taken on a connection that has just closed is skipped.
WriteUnlessClosed ==
    /\ wpc = "writing"
    /\ handled' = IF closed THEN handled ELSE Append(handled, Head(hand))
    /\ hand' = <<>>
    /\ wpc' = "written"
    /\ UNCHANGED <<reliable, wake, inFlight, closed, spc, sent, ephVars, pollVars,
                   accepted>>

\* write returns true: the frame is on the socket or the stream.  (A frame that
\* cannot be encoded is dropped here, and write returns true as well.)
WriteReliable ==
    /\ wpc = "writing"
    /\ handled' = Append(handled, Head(hand))
    /\ hand' = <<>>
    /\ wpc' = "written"
    /\ UNCHANGED <<reliable, wake, inFlight, closed, spc, sent, ephVars, pollVars,
                   accepted>>

\* Mutant: the drain stops after one frame.
EndAndSelect ==
    /\ wpc = "written"
    /\ inFlight' = inFlight - 1
    /\ wpc' = "select"
    /\ UNCHANGED <<relVars, closed, ephVars, pollVars>>

EndReliableWrite ==
    /\ wpc = "written"
    /\ inFlight' = inFlight - 1
    /\ wpc' = "drain"
    /\ UNCHANGED <<relVars, closed, ephVars, pollVars>>

\* The write fails: Close("write failed"), and the pump returns.
WriteFails ==
    /\ wpc = "writing"
    /\ closed' = TRUE
    /\ inFlight' = inFlight - 1
    /\ wpc' = "done"
    /\ UNCHANGED <<relVars, ephVars, pollVars>>

-----------------------------------------------------------------------------
(* Ephemeral frames.                                                       *)

\* Mutant: only what is never coalesced counts as ink.
InkOfDeltas(k) == IF k \in DeltaKeys THEN 1 ELSE 0

\* countDrop: every event with the prefix "ink." counts as ink.
Ink(k) == IF k \in InkKeys THEN 1 ELSE 0

InkIn(keys) == Cardinality({i \in 1..Len(keys) : keys[i] \in InkKeys})

\* The frame that key k still has queued is replaced, and counted.
Coalesced(k) == IF eph[k] # 0 THEN 1 ELSE 0

\* Mutant: a replaced key moves to the back without leaving its old place.
OrderedAgain(k) == Append(order, k)

Ordered(k) == IF eph[k] # 0 THEN order ELSE Append(order, k)

\* Mutant: a queued frame is kept and the newer one forgotten.
QueuedForKept(k) == IF eph[k] # 0 THEN eph[k] ELSE pushed[k] + 1

\* The frame the map holds for k after a push.
QueuedFor(k) == pushed[k] + 1

\* How many of the oldest streams are shed.
Excess(keys) == IF Len(keys) > MaxEphemeral THEN Len(keys) - MaxEphemeral ELSE 0

\* pushEphemeral: coalesce by key, then shed the oldest streams.
PushEphemeral(k) ==
    LET all == Ordered(k)
        n == Excess(all)
        oldest == SubSeq(all, 1, n)
        sheds(j) == \E i \in 1..n : oldest[i] = j
        queued == [eph EXCEPT ![k] = QueuedFor(k)]
    IN
    /\ ~closed
    /\ k \in DeltaKeys => pushed[k] = 0
    /\ pushed' = [pushed EXCEPT ![k] = @ + 1]
    /\ Bounded(sent, pushed')
    /\ order' = SubSeq(all, n + 1, Len(all))
    /\ eph' = [j \in Keys |-> IF sheds(j) THEN 0 ELSE queued[j]]
    /\ shed' = [j \in Keys |-> IF sheds(j) THEN queued[j] ELSE shed[j]]
    /\ dropped' = dropped + Coalesced(k) + n
    /\ droppedInk' = droppedInk + Coalesced(k) * Ink(k) + InkIn(oldest)
    /\ UNCHANGED <<relVars, inFlight, closed, wpc, batch, pollVars, shown>>

\* select picks the flush ticker.
WriterTicks ==
    /\ wpc = "select"
    /\ order # <<>>
    /\ wpc' = "flush"
    /\ UNCHANGED <<relVars, inFlight, closed, ephVars, pollVars>>

BatchSize == IF Len(order) < Batch THEN Len(order) ELSE Batch

\* takeEphemeralBatch, until it comes back empty.
TakeBatch ==
    /\ wpc = "flush"
    /\ batch = <<>>
    /\ order # <<>>
    /\ batch' = [i \in 1..BatchSize |-> <<order[i], eph[order[i]]>>]
    /\ eph' = [k \in Keys |-> IF \E i \in 1..BatchSize : order[i] = k THEN 0 ELSE eph[k]]
    /\ order' = SubSeq(order, BatchSize + 1, Len(order))
    /\ UNCHANGED <<relVars, inFlight, closed, wpc, pushed, dropped, droppedInk,
                   pollVars, shown, shed>>

\* The batch came back empty.
Flushed ==
    /\ wpc = "flush"
    /\ batch = <<>>
    /\ order = <<>>
    /\ wpc' = "select"
    /\ UNCHANGED <<relVars, inFlight, closed, ephVars, pollVars>>

\* One ephemeral frame is handed to the transport (a datagram may still be lost
\* by the network).  When a preview too big for a datagram fails on the stream,
\* the connection closes and the loop goes on.
WriteEphemeral ==
    LET f == Head(batch) IN
    /\ wpc = "flush"
    /\ batch # <<>>
    /\ closed' \in {closed, TRUE}
    /\ shown' = [shown EXCEPT ![f[1]] = [last |-> f[2], count |-> @.count + 1]]
    /\ batch' = Tail(batch)
    /\ UNCHANGED <<relVars, inFlight, wpc, eph, order, pushed, dropped,
                   droppedInk, pollVars, shed>>

\* A WebSocket write fails: the pump closes and returns, the batch is lost.
EphemeralWriteFails ==
    /\ wpc = "flush"
    /\ batch # <<>>
    /\ closed' = TRUE
    /\ wpc' = "done"
    /\ UNCHANGED <<relVars, inFlight, ephVars, pollVars>>

-----------------------------------------------------------------------------
(* WaitForReliableDrain, as far as this connection is concerned.           *)

\* PendingReliable reads the channel's depth ...
PollDepth ==
    /\ poll = "idle"
    /\ pollLen' = Len(reliable)
    /\ due' = Len(accepted)
    /\ poll' = "len"
    /\ UNCHANGED <<relVars, inFlight, closed, wpc, ephVars>>

\* Mutant: reliableInFlight is not counted.
PendingDepthOnly == pollLen

Pending == pollLen + inFlight

\* ... then reliableInFlight; a sum of zero is "flushed".
PollInFlight ==
    /\ poll = "len"
    /\ poll' = IF Pending = 0 THEN "flushed" ELSE "idle"
    /\ due' = IF Pending = 0 THEN due ELSE 0
    /\ pollLen' = 0
    /\ UNCHANGED <<relVars, inFlight, closed, wpc, ephVars>>

-----------------------------------------------------------------------------
Sender(s) ==
    PushReliable(s) \/ Signal(s) \/ RefuseReliable(s) \/ HandleRefusal(s)

WriterReliable ==
    \/ WriterWoken \/ TakeReliable \/ DrainedReliable \/ BeginReliableWrite
    \/ EndReliableWrite

WriterEphemeral == TakeBatch \/ Flushed \/ WriteEphemeral

Next ==
    \/ \E s \in Senders : CheckClosed(s) \/ Sender(s)
    \/ Close
    \/ WriterExit
    \/ WriterCancelled
    \/ WriterReliable
    \/ WriteReliable
    \/ WriteFails
    \/ \E k \in Keys : PushEphemeral(k)
    \/ WriterTicks
    \/ WriterEphemeral
    \/ EphemeralWriteFails
    \/ PollDepth
    \/ PollInFlight

\* Goroutines that can run do.  Go's select is fair between ready cases, so a
\* full wake slot is not passed over for ever in favour of the ticker.  Nothing
\* makes a sender send or anybody close, and no write is fair: a WebTransport
\* stream write has no deadline.  Nor is the flush loop: it goes on for as long
\* as previews keep coming, which the loads cut short here.
Fairness ==
    /\ \A s \in Senders : WF_vars(Sender(s))
    /\ SF_vars(WriterWoken)
    /\ WF_vars(WriterReliable \/ WriterExit)

Spec == Init /\ [][Next]_vars
FairSpec == Spec /\ Fairness

-----------------------------------------------------------------------------
WriterPc == {"select", "drain", "taken", "writing", "written", "flush", "done"}

\* No reliable frame the channel accepted is lost, duplicated or reordered on
\* its way to the write: what was accepted is what the writer was done with, then
\* the frame in its hand, then the queue, whoever pushed it and whatever closed
\* meanwhile.
ReliableAccounted == accepted = handled \o hand \o reliable

\* The wake signal is never lost: when frames wait and the writer has not ended,
\* the wake slot is full, the writer is still draining, or a sender that has
\* just pushed is about to signal.
WakeNotLost ==
    reliable # <<>> /\ wpc # "done" =>
        \/ wake
        \/ wpc \in {"drain", "taken", "writing", "written"}
        \/ \E s \in Senders : spc[s] = "pushed"

\* Only two things strand an accepted frame on a connection that stays: a write
\* that never returns, and a flush of previews that never ends.  Otherwise the
\* writer is done with every accepted frame whenever the senders pause, unless
\* the connection closes or the writer is cancelled.
AcceptedIsWritten ==
    \/ []<>(closed \/ wpc = "done" \/ handled = accepted)
    \/ <>[](wpc = "writing")
    \/ <>[](wpc = "flush")

\* ephemeral and ephemeralOrder describe the same frames: every queued key
\* stands exactly once in the order, and no more than MaxEphemeral do.
EphemeralCoherent ==
    /\ Len(order) <= MaxEphemeral
    /\ \A i, j \in 1..Len(order) : order[i] = order[j] => i = j
    /\ \A k \in Keys : eph[k] # 0 <=> \E i \in 1..Len(order) : order[i] = k

\* A stream at rest ends where its sender left it: when nothing is queued or in
\* the writer's batch, the last frame pushed of every stream is the last shown,
\* or was itself shed to make room; coalescing and batching lose only frames
\* that a newer one of their stream replaces.
LatestShown ==
    ~closed /\ order = <<>> /\ batch = <<>> =>
        \A k \in Keys : pushed[k] \in {shown[k].last, shed[k]}

\* The frames of stream k that are queued or in the writer's batch.
Waiting(k) ==
    (IF eph[k] # 0 THEN 1 ELSE 0)
    + Cardinality({i \in 1..Len(batch) : batch[i][1] = k})

\* The frames of stream k that were pushed and will not be written.
Missing(k) == pushed[k] - shown[k].count - Waiting(k)

\* Every ephemeral frame pushed was shown, is queued or in the writer's batch,
\* or was counted by Dropped; DroppedInk is the ink among those, whether it was
\* coalesced (ink.started) or shed.
DropsAccounted ==
    /\ dropped = MapThenSumSet(Missing, Keys)
    /\ droppedInk = MapThenSumSet(Missing, InkKeys)

\* "reliableInFlight keeps graceful shutdown from mistaking a frame currently
\* being written for a fully drained queue" (outboundQueues), and the frame between
\* takeReliable and beginReliableWrite is the only one a poll can overlook: when it reports flushed, the writer is done with every frame
\* accepted before the poll, or it has taken the last of them and not begun to
\* write it, or that one's write failed.
FlushSeesWrites ==
    [][poll # "flushed" /\ poll' = "flushed" =>
          \/ Len(handled) >= due
          \/ wpc \in {"taken", "done"} /\ Len(handled) + 1 >= due]_vars
=============================================================================
