---------------------------- MODULE MCBlockLocks ----------------------------
(* Instances of BlockLocks for TLC: two WebSocket connections, and one       *)
(* WebTransport connection with its two readers.                             *)
EXTENDS BlockLocks, TLC

CONSTANTS a1, b1, sa, sb, ra1, ra2, rb1, n1

\* Two WebSocket connections of different sessions on one note.
SessionPair == (a1 :> sa) @@ (b1 :> sb)
NotePair == (a1 :> n1) @@ (b1 :> n1)
ReaderPair == (ra1 :> a1) @@ (rb1 :> b1)

\* The server only compares lock ids and block ids, and the two connections,
\* with their sessions and readers, are alike.
Swapped == (a1 :> b1) @@ (b1 :> a1) @@ (sa :> sb) @@ (sb :> sa)
              @@ (ra1 :> rb1) @@ (rb1 :> ra1)
Alike == Permutations(LockIds) \cup Permutations(Blocks) \cup {Swapped}

\* One WebTransport connection with its datagram and its stream reader.
SessionWT == a1 :> sa
NoteWT == a1 :> n1
ReaderWT == (ra1 :> a1) @@ (ra2 :> a1)
=============================================================================
