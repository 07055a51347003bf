---------------------------- MODULE MCPreviewWire ----------------------------
(* Instances of PreviewWire for TLC.                                       *)
EXTENDS PreviewWire, TLC

\* Names of one character.
MessageName == <<3>>
Session == <<4>>
Note == <<5>>
User == <<6>>
Connection == <<7>>

\* None, one that fits, and one that does not.
Numbers3 == <<Absent, 2, 3>>

Point(x, p, t) == [x |-> x, y |-> -x - 3, p |-> p, t |-> t]
Stroke(points) == [code |-> "ink", payload |-> [id |-> <<1>>, points |-> points]]

\* Strokes from end to end of the word, with pressures beyond the range or
\* missing and times that run backwards, one too long for a stream frame, one
\* with no compact form; a pointer and a transform at the ends.
Previews ==
    {Stroke(<<Point(-33, 7, 1), Point(30, Absent, 1)>>),
     Stroke(<<Point(30, 15, 3), Point(-33, -1, 2)>>),
     Stroke(<<Point(30, 6, 1), Point(-33, 6, 31), Point(30, 6, 31)>>),
     Stroke(<<Point(40, 3, 1)>>),
     [code |-> "cursor", payload |-> [id |-> <<2>>, x |-> -33, y |-> 30]],
     [code |-> "transform", payload |-> [id |-> <<1>>, page |-> <<2>>, x |-> -1, y |-> 1,
                                         width |-> 62, height |-> 0, rotation |-> -33]]}
=============================================================================
