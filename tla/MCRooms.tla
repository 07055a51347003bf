------------------------------- MODULE MCRooms -------------------------------
(* Instances of Rooms for TLC.                                             *)
EXTENDS Rooms, TLC

CONSTANTS n1, n2, c1, c2, c3

\* Everybody on one note.
OneNote == [c \in Conns |-> n1]
=============================================================================
