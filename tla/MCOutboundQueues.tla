-------------------------- MODULE MCOutboundQueues --------------------------
(* Instances of OutboundQueues for TLC: reliable frames with a few previews  *)
(* between, or many previews with a reliable frame between.                  *)
EXTENDS OutboundQueues, TLC

CONSTANTS cursor, stroke, p1, p2

\* Three reliable frames, enough to overfill a queue of two, and a cursor.
Commits == [sends |-> 3, pushes |-> [k \in Keys |-> IF k = cursor THEN 2 ELSE 0]]

\* Four streams, more than there is room for, two of them with a second frame.
Previews == [sends |-> 1, pushes |-> [k \in Keys |-> IF k \in DeltaKeys THEN 1 ELSE 2]]

Mixed == {Commits, Previews}
=============================================================================
