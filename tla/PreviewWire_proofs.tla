------------------------- MODULE PreviewWire_proofs -------------------------
(***************************************************************************)
(* A preview's way, proved for every set of previews, every number of them *)
(* and every width of the codec's words:                                   *)
(*   - readStreamFrames hands over the frames that were written, whole and *)
(*     in order, wherever the stream is cut (WireInv);                     *)
(*   - a compact frame tells its own end;                                  *)
(*   - what waits on the server, what is under way and what was shown are  *)
(*     previews that were handed over, in the form drawn or the one a trip *)
(*     over the wire makes of it (RelayInv): each is shown as drawn, and   *)
(*     on a socket each once and in order.                                 *)
(* What the compact form carries is proved in Codec_proofs.                *)
(***************************************************************************)
EXTENDS PreviewWire, Codec_proofs

-----------------------------------------------------------------------------
(* Frames *)

\* A client's frame is a sequence and not empty.
Framed(e) == Sendable(e) /\ IsSeq(ClientFrame(e)) /\ Len(ClientFrame(e)) \in Nat \ {0}

\* EncodeClientFrame and the JSON fallback make a frame of every preview that
\* may be drawn.
LEMMA FramedIs ==
    ASSUME NEW d \in Drawable, NEW seq
    PROVE  Framed([code |-> d.code, payload |-> d.payload, seq |-> seq])
<1> DEFINE e == [code |-> d.code, payload |-> d.payload, seq |-> seq]
<1>1. Sendable(e)
  BY DrawableAssumption DEF Sendable
<1> HIDE DEF e
<1>2. CASE EncodeClientFrame(e).ok
  <2> DEFINE f == EncodeClientFrame(e).cells
             body == EncodePayload(e.code, e.payload)
  <2>1. ClientFrame(e) = f
    BY <1>2, Zenon DEF ClientFrame, CompactOr
  <2>2. Wired(e, f, body)
    BY <1>1, <1>2, ClientFrameIs
  <2> HIDE DEF f, body
  <2>3. IsSeq(f) /\ Len(f) = 5 + Len(body.cells) /\ IsSeq(body.cells)
    BY <2>2 DEF Wired, Fronted, HeaderSize, Sent, IsNums
  <2>4. Len(body.cells) \in Nat
    BY <2>3, LenIs
  <2>5. Len(f) \in Nat \ {0}
    BY <2>3, <2>4
  <2> QED
    BY <1>1, <2>1, <2>3, <2>5 DEF Framed, e
<1>3. CASE ~EncodeClientFrame(e).ok
  <2> DEFINE f == <<e>>
  <2>1. ClientFrame(e) = f
    BY <1>3, Zenon DEF ClientFrame, CompactOr
  <2>2. IsSeq(f) /\ Len(f) = 1
    BY OneIs
  <2> HIDE DEF f
  <2> QED
    BY <1>1, <2>1, <2>2 DEF Framed, e
<1> QED
  BY <1>2, <1>3
-----------------------------------------------------------------------------
(* The stream *)

\* The frame of the j-th preview drawn.
FrameOf(j) == ClientFrame(drawn[j])

\* Cell i of the stream, if it is still under way.
Cell(i, x) == i \in 1..Len(stream) => stream[i] = x

\* Of the cells written in all, the j-th frame has those after pos[j]: its length
\* and its own.  The first off of them have been read.
Lies(pos, off, j) ==
    /\ pos[j + 1] = pos[j] + 1 + Len(FrameOf(j))
    /\ pos[j + 1] <= pos[Len(drawn) + 1]
    /\ Cell(pos[j] + 1 - off, Len(FrameOf(j)))
    /\ \A k \in 1..Len(FrameOf(j)) : Cell(pos[j] + 1 + k - off, FrameOf(j)[k])

\* The stream is what was written, from off on; a cut has shortened it.
Placed(pos, off) ==
    /\ pos \in [1..(Len(drawn) + 1) -> Nat]
    /\ off \in Nat
    /\ \A j \in 1..Len(drawn) : Lies(pos, off, j)
    /\ Len(stream) <= pos[Len(drawn) + 1] - off
    /\ ~cut => Len(stream) = pos[Len(drawn) + 1] - off

\* The reader is before a frame, or behind its length, which it knows.
ReaderAt(pos, off) ==
    /\ rpc \in {"header", "frame"} => off = pos[handed + 1]
    /\ rpc = "payload" => /\ handed < Len(drawn)
                          /\ off = pos[handed + 1] + 1
                          /\ rsize = Len(FrameOf(handed + 1))

\* Every preview drawn has a frame, and no more are handed over than were drawn.
WireTypes ==
    /\ IsSeq(drawn) /\ IsSeq(stream)
    /\ \A j \in 1..Len(drawn) : Framed(drawn[j])
    /\ handed \in 0..Len(drawn)
    /\ rpc \in {"header", "payload", "frame", "ended"}
    /\ rpc = "frame" => handed # 0

\* The inductive invariant of the stream reader.
WireInv ==
    /\ WireTypes
    /\ FramesWhole
    /\ rpc # "ended" => \E pos, off : Placed(pos, off) /\ ReaderAt(pos, off)

\* Reading n cells moves off by n.
LEMMA Advances ==
    ASSUME WireTypes, NEW pos, NEW off, Placed(pos, off), NEW n \in 0..Len(stream),
           stream' = From(stream, n + 1), UNCHANGED <<drawn, cut>>
    PROVE  IsSeq(stream') /\ Placed(pos, off + n)'
<1>1. IsSeq(stream) /\ Len(stream) \in Nat /\ n \in Nat /\ n <= Len(stream)
  BY LenProperties DEF WireTypes, IsSeq
<1>2. Part(stream', stream, n + 1, Len(stream))
  BY <1>1, PartIs DEF From
<1>3. /\ IsSeq(stream') /\ Len(stream') = Len(stream) - n
      /\ \A i \in 1..(Len(stream) - n) : stream'[i] = stream[n + i]
  <2>1. Len(stream') = Len(stream) - (n + 1) + 1 /\ IsSeq(stream')
    BY <1>2 DEF Part
  <2>2. \A i \in 1..(Len(stream) - (n + 1) + 1) : stream'[i] = stream[n + 1 + i - 1]
    BY <1>2 DEF Part
  <2> QED
    BY <1>1, <2>1, <2>2
<1>4. ASSUME NEW i \in Int, NEW x, Cell(i, x) PROVE Cell(i - n, x)'
  BY <1>1, <1>3, <1>4 DEF Cell
<1>5. Len(drawn) \in Nat /\ \A j \in 1..Len(drawn) : Len(FrameOf(j)) \in Nat
  BY LenProperties DEF WireTypes, IsSeq, Framed, FrameOf
<1>6. ASSUME NEW j \in 1..Len(drawn) PROVE Lies(pos, off + n, j)'
  <2>1. pos[j] \in Nat /\ off \in Nat /\ Lies(pos, off, j)
    BY <1>5, SMTT(30) DEF Placed
  <2>2. FrameOf(j)' = FrameOf(j) /\ drawn' = drawn
    BY DEF FrameOf
  <2>3. Cell(pos[j] + 1 - (off + n), Len(FrameOf(j)))'
    <3> DEFINE i == pos[j] + 1 - off
               x == Len(FrameOf(j))
    <3>1. i \in Int /\ Cell(i, x) /\ x' = x
      BY <2>1, <2>2 DEF Lies
    <3>2. i - n = pos[j] + 1 - (off + n)
      BY <1>1, <2>1
    <3> HIDE DEF i, x
    <3>3. Cell(i - n, x)'
      BY <1>4, <3>1
    <3> QED
      BY <3>2, <3>3 DEF x
  <2>4. ASSUME NEW k \in 1..Len(FrameOf(j))
        PROVE  Cell(pos[j] + 1 + k - (off + n), FrameOf(j)[k])'
    <3>1. k \in Int /\ Cell(pos[j] + 1 + k - off, FrameOf(j)[k])
      BY <1>5, <2>1 DEF Lies
    <3>2. Cell(pos[j] + 1 + k - off - n, FrameOf(j)[k])'
      BY <1>4, <2>1, <2>2, <3>1, SMTT(30)
    <3>3. pos[j] + 1 + k - off - n = pos[j] + 1 + k - (off + n)
      BY <1>1, <2>1, <3>1
    <3> QED
      BY <3>2, <3>3
  <2> QED
    BY <2>1, <2>2, <2>3, <2>4 DEF Lies
<1>7. /\ pos \in [1..(Len(drawn) + 1) -> Nat] /\ off \in Nat /\ off + n \in Nat
      /\ pos[Len(drawn) + 1] \in Nat
      /\ Len(stream) <= pos[Len(drawn) + 1] - off
      /\ ~cut => Len(stream) = pos[Len(drawn) + 1] - off
  BY <1>1, <1>5 DEF Placed
<1>8. /\ Len(stream') <= pos[Len(drawn) + 1] - (off + n)
      /\ ~cut => Len(stream') = pos[Len(drawn) + 1] - (off + n)
  BY <1>1, <1>3, <1>7
<1> QED
  BY <1>3, <1>6, <1>7, <1>8 DEF Placed

\* The types of what is placed.
LEMMA PlacedTypes ==
    ASSUME WireTypes, NEW pos, NEW off, Placed(pos, off)
    PROVE  /\ Len(drawn) \in Nat /\ Len(stream) \in Nat /\ off \in Nat
           /\ handed \in Nat /\ handed <= Len(drawn)
           /\ pos \in [1..(Len(drawn) + 1) -> Nat]
           /\ pos[Len(drawn) + 1] \in Nat
           /\ \A j \in 1..Len(drawn) : /\ pos[j] \in Nat /\ pos[j + 1] \in Nat
                                       /\ Len(FrameOf(j)) \in Nat \ {0}
                                       /\ IsSeq(FrameOf(j))
                                       /\ Lies(pos, off, j)
<1>1. Len(drawn) \in Nat /\ Len(stream) \in Nat
  BY LenProperties DEF WireTypes, IsSeq
<1>2. pos \in [1..(Len(drawn) + 1) -> Nat] /\ off \in Nat
  BY DEF Placed
<1>3. \A j \in 1..Len(drawn) : /\ pos[j] \in Nat /\ pos[j + 1] \in Nat
                               /\ Lies(pos, off, j)
  BY <1>1, <1>2 DEF Placed
<1> QED
  BY <1>1, <1>2, <1>3 DEF WireTypes, Framed, FrameOf

\* A preview drawn goes behind what is under way.
LEMMA DrawPlaces ==
    ASSUME WireTypes, NEW pos, NEW off, Placed(pos, off), NEW d \in Drawable, Draw(d)
    PROVE  \E q : Placed(q, off)' /\ \A j \in 1..(Len(drawn) + 1) : q[j] = pos[j]
<1>a. PICK L : L = Len(drawn)
  OBVIOUS
<1>b. PICK e : e = [code |-> d.code, payload |-> d.payload, seq |-> Numbering[L + 1]]
  OBVIOUS
<1>c. PICK frame : frame = ClientFrame(e)
  OBVIOUS
<1>d. PICK q : q = [j \in 1..(L + 2) |->
                      IF j = L + 2 THEN pos[L + 1] + 1 + Len(frame) ELSE pos[j]]
  OBVIOUS
<1>1. /\ drawn' = Append(drawn, e)
      /\ stream' = stream \o <<Len(frame)>> \o frame
      /\ ~cut /\ cut' = cut
  BY <1>a, <1>b, <1>c, Zenon DEF Draw
<1>2. IsSeq(frame) /\ Len(frame) \in Nat \ {0}
  BY <1>b, <1>c, FramedIs DEF Framed
<1>3. /\ L \in Nat /\ Len(stream) \in Nat /\ off \in Nat /\ IsSeq(stream)
      /\ pos[L + 1] \in Nat /\ pos \in [1..(L + 1) -> Nat]
      /\ Len(stream) = pos[L + 1] - off
  BY <1>a, <1>1, PlacedTypes DEF Placed, WireTypes
<1>4. /\ Len(drawn') = L + 1 /\ drawn'[L + 1] = e
      /\ \A j \in 1..L : drawn'[j] = drawn[j]
  BY <1>a, <1>1, AppendIs DEF Appends, WireTypes
<1>5. /\ Len(stream') = Len(stream) + 1 + Len(frame)
      /\ \A i \in 1..Len(stream) : stream'[i] = stream[i]
      /\ stream'[Len(stream) + 1] = Len(frame)
      /\ \A k \in 1..Len(frame) : stream'[Len(stream) + 1 + k] = frame[k]
  <2> DEFINE one == <<Len(frame)>>
             two == stream \o one
  <2>1. IsSeq(one) /\ Len(one) = 1 /\ one[1] = Len(frame)
    <3>1. one \in Seq({Len(frame)}) /\ Len(one) = 1 /\ one[1] = Len(frame)
      OBVIOUS
    <3> QED
      BY <3>1, SeqIs
  <2> HIDE DEF one
  <2>2. IsSeq(two) /\ Joins(two, stream, one)
    BY <1>3, <2>1, JoinedSeq, Zenon
  <2> HIDE DEF two
  <2>3. Joins(two \o frame, two, frame)
    BY <1>2, <2>2, JoinedSeq, Zenon
  <2>4. stream' = two \o frame
    BY <1>1 DEF two, one
  <2>5. /\ Len(two) = Len(stream) + 1
        /\ \A i \in 1..Len(stream) : two[i] = stream[i]
        /\ two[Len(stream) + 1] = Len(frame)
    BY <2>1, <2>2 DEF Joins
  <2>6. /\ Len(stream') = Len(two) + Len(frame)
        /\ \A i \in 1..Len(two) : stream'[i] = two[i]
        /\ \A k \in 1..Len(frame) : stream'[Len(two) + k] = frame[k]
    BY <2>3, <2>4 DEF Joins
  <2>7. Len(stream') = Len(stream) + 1 + Len(frame)
    BY <1>2, <1>3, <2>5, <2>6
  <2>8. \A i \in 1..(Len(stream) + 1) : stream'[i] = two[i]
    BY <2>5, <2>6
  <2>9. \A i \in 1..Len(stream) : i \in 1..(Len(stream) + 1)
    BY <1>3
  <2>10. Len(stream) + 1 \in 1..(Len(stream) + 1)
    BY <1>3
  <2> QED
    BY <2>5, <2>6, <2>7, <2>8, <2>9, <2>10
<1>6. /\ q \in [1..(L + 2) -> Nat] /\ q[L + 2] = pos[L + 1] + 1 + Len(frame)
      /\ \A j \in 1..(L + 1) : q[j] = pos[j]
  BY <1>d, <1>2, <1>3
<1>7. ASSUME NEW i \in Int, NEW x, i <= Len(stream), Cell(i, x),
             i \in 1..Len(stream')
      PROVE  stream'[i] = x
  <2>1. i \in 1..Len(stream)
    BY <1>3, <1>7
  <2> QED
    BY <1>5, <1>7, <2>1 DEF Cell
<1>8. ASSUME NEW j \in 1..L PROVE Lies(q, off, j)'
  <2>1. /\ pos[j] \in Nat /\ pos[j + 1] \in Nat /\ Len(FrameOf(j)) \in Nat
        /\ Lies(pos, off, j)
    BY <1>a, PlacedTypes
  <2>2. FrameOf(j)' = FrameOf(j)
    BY <1>4 DEF FrameOf
  <2>3. q[j] = pos[j] /\ q[j + 1] = pos[j + 1] /\ q[L + 1] = pos[L + 1]
    BY <1>3, <1>6
  <2>4. /\ pos[j + 1] = pos[j] + 1 + Len(FrameOf(j))
        /\ pos[j + 1] <= pos[L + 1]
    BY <1>a, <2>1 DEF Lies
  <2>5. q[j + 1] <= q[L + 2] /\ q[j + 1] = q[j] + 1 + Len(FrameOf(j))
    BY <1>2, <1>3, <1>6, <2>1, <2>3, <2>4
  <2>6. Cell(q[j] + 1 - off, Len(FrameOf(j)))'
    <3>1. pos[j] + 1 - off \in Int /\ pos[j] + 1 - off <= Len(stream)
      BY <1>3, <2>1, <2>4
    <3>2. Cell(pos[j] + 1 - off, Len(FrameOf(j)))
      BY <2>1 DEF Lies
    <3> QED
      BY <1>7, <2>2, <2>3, <3>1, <3>2 DEF Cell
  <2>7. ASSUME NEW k \in 1..Len(FrameOf(j))
        PROVE  Cell(q[j] + 1 + k - off, FrameOf(j)[k])'
    <3>1. pos[j] + 1 + k - off \in Int /\ pos[j] + 1 + k - off <= Len(stream)
      BY <1>3, <2>1, <2>4, SMTT(30)
    <3>2. Cell(pos[j] + 1 + k - off, FrameOf(j)[k])
      BY <2>1 DEF Lies
    <3> QED
      BY <1>7, <2>2, <2>3, <3>1, <3>2 DEF Cell
  <2>8. q[Len(drawn') + 1] = q[L + 2]
    BY <1>3, <1>4
  <2> QED
    BY <2>2, <2>5, <2>6, <2>7, <2>8 DEF Lies
<1>9. Lies(q, off, L + 1)'
  <2>1. FrameOf(L + 1)' = frame
    BY <1>c, <1>4 DEF FrameOf
  <2>2. q[L + 1] = pos[L + 1] /\ q[L + 1 + 1] = q[L + 2] /\ q[Len(drawn') + 1] = q[L + 2]
    BY <1>3, <1>4, <1>6
  <2>3. q[L + 1] + 1 - off = Len(stream) + 1
    BY <1>3, <2>2
  <2>4. Cell(q[L + 1] + 1 - off, Len(FrameOf(L + 1)))'
    BY <1>5, <2>1, <2>3 DEF Cell
  <2>5. ASSUME NEW k \in 1..Len(frame)
        PROVE  Cell(q[L + 1] + 1 + k - off, FrameOf(L + 1)[k])'
    <3>1. k \in Int /\ q[L + 1] \in Int /\ off \in Int
      BY <1>2, <1>3, <2>2
    <3>2. q[L + 1] + 1 + k - off = (q[L + 1] + 1 - off) + k
      BY <3>1
    <3> QED
      BY <1>5, <2>1, <2>3, <3>2 DEF Cell
  <2>6. q[L + 2] = q[L + 1] + 1 + Len(frame) /\ q[L + 2] <= q[L + 2]
    BY <1>2, <1>3, <1>6, <2>2
  <2> QED
    BY <2>1, <2>2, <2>4, <2>5, <2>6 DEF Lies
<1>10. Placed(q, off)'
  <2>1. ASSUME NEW j \in 1..Len(drawn') PROVE Lies(q, off, j)'
    <3>1. j \in 1..L \/ j = L + 1
      BY <1>3, <1>4
    <3> QED
      BY <1>8, <1>9, <3>1
  <2>2. q[Len(drawn') + 1] = q[L + 2] /\ Len(drawn') + 1 = L + 2
    BY <1>3, <1>4
  <2>3. Len(stream') = q[L + 2] - off /\ Len(stream') <= q[L + 2] - off
    <3>1. /\ Len(stream') = Len(stream) + 1 + Len(frame)
          /\ q[L + 2] = pos[L + 1] + 1 + Len(frame)
      BY <1>5, <1>6
    <3> QED
      BY <1>2, <1>3, <3>1
  <2> QED
    BY <1>3, <1>6, <2>1, <2>2, <2>3 DEF Placed
<1> QED
  BY <1>a, <1>6, <1>10

\* A cut takes cells from the end.
LEMMA CutPlaces ==
    ASSUME WireTypes, NEW pos, NEW off, Placed(pos, off), NEW n \in 0..Len(stream), Cut(n)
    PROVE  Placed(pos, off)'
<1>1. stream' = SubSeq(stream, 1, n) /\ drawn' = drawn /\ cut'
  BY DEF Cut
<1>2. Len(stream) \in Nat /\ n \in Nat /\ n <= Len(stream) /\ IsSeq(stream)
  BY LenProperties DEF WireTypes, IsSeq
<1>3. Part(stream', stream, 1, n)
  BY <1>1, <1>2, PartIs
<1>4. Len(stream') = n /\ \A i \in 1..n : stream'[i] = stream[i]
  BY <1>2, <1>3 DEF Part
<1>5. \A i, x : Cell(i, x) => (i \in 1..Len(stream') => stream'[i] = x)
  BY <1>2, <1>4 DEF Cell
<1>6. ASSUME NEW j \in 1..Len(drawn) PROVE Lies(pos, off, j)'
  <2>1. Lies(pos, off, j) /\ FrameOf(j)' = FrameOf(j)
    BY <1>1 DEF Placed, FrameOf
  <2>2. Cell(pos[j] + 1 - off, Len(FrameOf(j)))'
    BY <1>5, <2>1 DEF Lies, Cell
  <2>3. \A k \in 1..Len(FrameOf(j)) : Cell(pos[j] + 1 + k - off, FrameOf(j)[k])'
    BY <1>5, <2>1 DEF Lies, Cell
  <2> QED
    BY <1>1, <2>1, <2>2, <2>3 DEF Lies
<1>7. Len(stream') <= pos[Len(drawn) + 1] - off
  BY <1>2, <1>4, PlacedTypes DEF Placed
<1> QED
  BY <1>1, <1>6, <1>7 DEF Placed

\* readStreamFrames reads a length: it is that of the next frame drawn.
LEMMA PrefixKeeps ==
    ASSUME WireInv, ReadPrefix
    PROVE  WireInv'
<1>1. /\ rpc = "header" /\ UNCHANGED <<drawn, cut, handed>>
  BY DEF ReadPrefix
<1>2. PICK pos, off : Placed(pos, off) /\ ReaderAt(pos, off)
  BY <1>1 DEF WireInv
<1>3. WireTypes /\ off = pos[handed + 1]
  BY <1>1, <1>2 DEF WireInv, ReaderAt
<1>4. CASE stream = <<>>
  <2>1. rpc' = "ended" /\ stream' = stream
    BY <1>4 DEF ReadPrefix
  <2> QED
    BY <1>1, <1>3, <2>1 DEF WireInv, WireTypes, FramesWhole
<1>5. CASE stream # <<>>
  <2>1. /\ rpc' = IF stream[1] = 0 THEN "header"
                  ELSE IF TooLong(stream[1]) THEN "ended" ELSE "payload"
        /\ rsize' = stream[1]
        /\ stream' = From(stream, 2)
    BY <1>5, Zenon DEF ReadPrefix
  <2>2. Len(stream) \in Nat /\ Len(stream) >= 1
    BY <1>3, <1>5, EmptySeq DEF WireTypes, IsSeq
  <2>3. /\ Len(drawn) \in Nat /\ handed \in Nat /\ handed <= Len(drawn) /\ off \in Nat
        /\ pos[Len(drawn) + 1] \in Nat
    BY <1>2, <1>3, PlacedTypes
  <2>4. handed + 1 \in 1..Len(drawn)
    <3>1. handed # Len(drawn)
      <4>1. Len(stream) <= pos[Len(drawn) + 1] - off
        BY <1>2 DEF Placed
      <4> QED
        BY <1>3, <2>2, <2>3, <4>1
    <3> QED
      BY <2>3, <3>1
  <2> DEFINE f == FrameOf(handed + 1)
  <2>5. Len(f) \in Nat \ {0} /\ Lies(pos, off, handed + 1) /\ pos[handed + 1] \in Nat
    BY <1>2, <1>3, <2>4, PlacedTypes
  <2>6. stream[1] = Len(f)
    <3>1. pos[handed + 1] + 1 - off = 1
      BY <1>3, <2>5
    <3>2. 1 \in 1..Len(stream)
      BY <2>2
    <3> QED
      BY <2>5, <3>1, <3>2 DEF Lies, Cell
  <2>7. rpc' \in {"ended", "payload"}
    BY <2>1, <2>5, <2>6
  <2>8. IsSeq(stream') /\ Placed(pos, off + 1)'
    <3>1. 1 \in 0..Len(stream) /\ 1 + 1 = 2
      BY <2>2
    <3> QED
      BY <1>1, <1>2, <1>3, <2>1, <3>1, Advances
  <2>9. f' = f
    BY <1>1 DEF FrameOf
  <2>10. ReaderAt(pos, off + 1)'
    BY <1>1, <1>3, <2>1, <2>3, <2>4, <2>6, <2>7, <2>9 DEF ReaderAt
  <2>11. WireTypes'
    BY <1>1, <1>3, <2>7, <2>8 DEF WireTypes
  <2> QED
    BY <2>7, <2>8, <2>10, <2>11 DEF WireInv, FramesWhole
<1> QED
  BY <1>4, <1>5

\* io.ReadFull fills the payload: it is the frame.
LEMMA PayloadKeeps ==
    ASSUME WireInv, ReadPayload
    PROVE  WireInv'
<1> DEFINE f == FrameOf(handed + 1)
<1>1. /\ rpc = "payload" /\ Len(stream) >= rsize /\ UNCHANGED <<drawn, cut>>
      /\ hand' = SubSeq(stream, 1, Min({rsize, Len(stream)}))
      /\ stream' = From(stream, Min({rsize, Len(stream)}) + 1)
      /\ handed' = handed + 1 /\ rpc' = "frame"
  BY DEF ReadPayload, Readable
<1>2. PICK pos, off : Placed(pos, off) /\ ReaderAt(pos, off)
  BY <1>1 DEF WireInv
<1>3. /\ WireTypes /\ off = pos[handed + 1] + 1 /\ rsize = Len(f)
      /\ handed < Len(drawn)
  BY <1>1, <1>2 DEF WireInv, ReaderAt
<1>4. /\ handed \in Nat /\ Len(drawn) \in Nat /\ Len(stream) \in Nat
      /\ handed + 1 \in 1..Len(drawn)
  BY <1>2, <1>3, PlacedTypes
<1>5. /\ rsize \in Nat /\ IsSeq(f) /\ Lies(pos, off, handed + 1)
      /\ pos[handed + 1] \in Nat
  BY <1>2, <1>3, <1>4, PlacedTypes
<1>6. Min({rsize, Len(stream)}) = rsize
  <2>1. {rsize, Len(stream)} \in SUBSET Nat /\ {rsize, Len(stream)} # {}
    BY <1>4, <1>5
  <2> QED
    BY <1>1, <1>4, <1>5 DEF Min
<1>7. PICK n : n = rsize
  OBVIOUS
<1>8. /\ hand' = SubSeq(stream, 1, n) /\ stream' = From(stream, n + 1)
      /\ n \in 0..Len(stream) /\ n = Len(f) /\ n \in Nat
  <2>1. hand' = SubSeq(stream, 1, n) /\ stream' = From(stream, n + 1)
    BY <1>1, <1>6, <1>7, Zenon
  <2>2. n \in 0..Len(stream) /\ n = Len(f) /\ n \in Nat
    BY <1>1, <1>3, <1>4, <1>5, <1>7
  <2> QED
    BY <2>1, <2>2
<1>9. IsSeq(stream') /\ Placed(pos, off + n)'
  BY <1>1, <1>2, <1>3, <1>8, Advances
<1>10. hand' = f
  <2>1. Part(hand', stream, 1, n)
    <3>1. IsSeq(stream) /\ 1 \in 1..(Len(stream) + 1) /\ n \in (1 - 1)..Len(stream)
      BY <1>3, <1>4, <1>8 DEF WireTypes
    <3> QED
      BY <1>8, <3>1, PartIs
  <2>2. IsSeq(hand') /\ Len(hand') = n /\ \A k \in 1..n : hand'[k] = stream[k]
    BY <1>8, <2>1 DEF Part
  <2>3. ASSUME NEW k \in 1..n PROVE stream[k] = f[k]
    <3>1. k \in 1..Len(f) /\ k \in 1..Len(stream)
      BY <1>4, <1>8
    <3>2. Cell(pos[handed + 1] + 1 + k - off, f[k])
      BY <1>5, <3>1 DEF Lies
    <3>3. pos[handed + 1] + 1 + k - off = k
      BY <1>3, <1>5, <1>8
    <3> QED
      BY <3>1, <3>2, <3>3 DEF Cell
  <2> DEFINE T == CellsOf(hand') \cup CellsOf(f)
             h == hand'
  <2>4. h \in Seq(T) /\ f \in Seq(T)
    BY <1>5, <2>2, OverOne
  <2>5. Len(h) = Len(f) /\ \A k \in 1..Len(h) : h[k] = f[k]
    BY <1>8, <2>2, <2>3
  <2> HIDE DEF T, h, f
  <2>6. h = f
    BY <2>4, <2>5, SeqEqual
  <2> QED
    BY <2>6 DEF h
<1>11. FramesWhole'
  <2>1. (ClientFrame(drawn[handed]))' = ClientFrame(drawn'[handed'])
    OBVIOUS
  <2> QED
    BY <1>1, <1>10 DEF FramesWhole, FrameOf
<1>12. ReaderAt(pos, off + n)'
  <2>1. pos[handed + 1 + 1] = off + n
    BY <1>3, <1>4, <1>5, <1>8 DEF Lies
  <2> QED
    BY <1>1, <2>1 DEF ReaderAt
<1>13. WireTypes'
  BY <1>1, <1>3, <1>4, <1>9 DEF WireTypes
<1> QED
  BY <1>9, <1>11, <1>12, <1>13 DEF WireInv

\* Steps that leave the stream and its reader alone.
LEMMA ElsewhereKeeps ==
    ASSUME WireInv, UNCHANGED <<drawn, stream, cut, rpc, rsize, hand, handed>>
    PROVE  WireInv'
<1>1. \A pos, off : Placed(pos, off) => Placed(pos, off)'
  BY DEF Placed, Lies, Cell, FrameOf
<1>2. \A pos, off : ReaderAt(pos, off) => ReaderAt(pos, off)'
  BY DEF ReaderAt, FrameOf
<1>3. WireTypes' /\ FramesWhole'
  BY DEF WireInv, WireTypes, FramesWhole
<1> QED
  BY <1>1, <1>2, <1>3 DEF WireInv

\* Drawing moves neither the reader nor the frames before it.
LEMMA DrawKeeps ==
    ASSUME WireInv, NEW d \in Drawable, Draw(d)
    PROVE  WireInv'
<1>1. PICK e : /\ e = [code |-> d.code, payload |-> d.payload,
                       seq |-> Numbering[Len(drawn) + 1]]
               /\ drawn' = Append(drawn, e)
               /\ stream' = stream \o <<Len(ClientFrame(e))>> \o ClientFrame(e)
               /\ UNCHANGED <<rpc, rsize, hand, handed>>
  BY Zenon DEF Draw, readVars
<1>2. Framed(e)
  BY <1>1, FramedIs
<1>3. WireTypes /\ IsSeq(drawn) /\ IsSeq(stream) /\ Len(drawn) \in Nat
  BY LenProperties DEF WireInv, WireTypes, IsSeq
<1>4. /\ IsSeq(drawn') /\ Len(drawn') = Len(drawn) + 1 /\ drawn'[Len(drawn) + 1] = e
      /\ \A j \in 1..Len(drawn) : drawn'[j] = drawn[j]
  BY <1>1, <1>3, AppendIs DEF Appends
<1>5. IsSeq(stream')
  <2>1. IsSeq(<<Len(ClientFrame(e))>>)
    <3>1. <<Len(ClientFrame(e))>> \in Seq({Len(ClientFrame(e))})
      OBVIOUS
    <3> QED
      BY <3>1, SeqIs
  <2>2. IsSeq(stream \o <<Len(ClientFrame(e))>>)
    BY <1>3, <2>1, JoinedSeq
  <2>3. IsSeq(ClientFrame(e))
    BY <1>2 DEF Framed
  <2>4. IsSeq((stream \o <<Len(ClientFrame(e))>>) \o ClientFrame(e))
    BY <2>2, <2>3, JoinedSeq
  <2> QED
    BY <1>1, <2>4
<1>6. WireTypes'
  <2>1. ASSUME NEW j \in 1..Len(drawn') PROVE Framed(drawn'[j])
    <3>1. j \in 1..Len(drawn) \/ j = Len(drawn) + 1
      BY <1>3, <1>4
    <3> QED
      BY <1>2, <1>3, <1>4, <3>1 DEF WireTypes
  <2>2. handed' \in 0..Len(drawn') /\ rpc' = rpc /\ handed' = handed
    BY <1>1, <1>3, <1>4 DEF WireTypes
  <2>3. \A j \in 1..Len(drawn') : Framed(drawn'[j])
    BY <2>1
  <2> QED
    BY <1>3, <1>4, <1>5, <2>2, <2>3 DEF WireTypes, Framed
<1>7. FramesWhole'
  <2>1. rpc = "frame" => handed \in 1..Len(drawn)
    BY <1>3 DEF WireTypes
  <2> QED
    BY <1>1, <1>4, <2>1 DEF WireInv, FramesWhole
<1>8. ASSUME rpc' # "ended"
      PROVE  \E pos, off : Placed(pos, off)' /\ ReaderAt(pos, off)'
  <2>1. PICK pos, off : Placed(pos, off) /\ ReaderAt(pos, off)
    BY <1>1, <1>8 DEF WireInv
  <2>2. PICK q : Placed(q, off)' /\ \A j \in 1..(Len(drawn) + 1) : q[j] = pos[j]
    BY <1>3, <2>1, DrawPlaces
  <2>3. handed \in Nat /\ handed <= Len(drawn) /\ handed + 1 \in 1..(Len(drawn) + 1)
    BY <1>3 DEF WireTypes
  <2>4. handed < Len(drawn) => FrameOf(handed + 1)' = FrameOf(handed + 1)
    BY <1>1, <1>3, <1>4, <2>3 DEF FrameOf
  <2>5. ReaderAt(q, off)'
    <3>1. q[handed + 1] = pos[handed + 1]
      BY <2>2, <2>3
    <3>2. handed < Len(drawn) => handed < Len(drawn')
      BY <1>3, <1>4, <2>3
    <3>3. /\ rpc \in {"header", "frame"} => off = q[handed + 1]
          /\ rpc = "payload" => /\ handed < Len(drawn')
                                /\ off = q[handed + 1] + 1
                                /\ rsize = Len(FrameOf(handed + 1)')
      BY <2>1, <2>4, <3>1, <3>2 DEF ReaderAt
    <3>4. FrameOf(handed + 1)' = ClientFrame(drawn'[handed + 1])
      BY <1>1 DEF FrameOf
    <3> QED
      BY <1>1, <3>3, <3>4 DEF ReaderAt, FrameOf
  <2> QED
    BY <2>2, <2>5
<1> QED
  BY <1>6, <1>7, <1>8 DEF WireInv

\* A cut takes no cell before the reader's.
LEMMA CutKeeps ==
    ASSUME WireInv, NEW n \in 0..Len(stream), Cut(n)
    PROVE  WireInv'
<1>1. stream' = SubSeq(stream, 1, n) /\ UNCHANGED <<drawn, rpc, rsize, hand, handed>>
  BY DEF Cut, readVars
<1>2. WireTypes /\ IsSeq(stream) /\ Len(stream) \in Nat
  BY LenProperties DEF WireInv, WireTypes, IsSeq
<1>3. Part(stream', stream, 1, n)
  BY <1>1, <1>2, PartIs
<1>4. WireTypes' /\ FramesWhole'
  BY <1>1, <1>2, <1>3 DEF WireInv, WireTypes, FramesWhole, Part
<1>5. \A pos, off : Placed(pos, off) => Placed(pos, off)'
  BY <1>2, CutPlaces
<1>6. \A pos, off : ReaderAt(pos, off) => ReaderAt(pos, off)'
  BY <1>1 DEF ReaderAt, FrameOf
<1> QED
  BY <1>1, <1>4, <1>5, <1>6 DEF WireInv

\* The reader gives up, or goes back for the next length.
LEMMA ReaderMoves ==
    ASSUME WireInv, StreamEnds \/ HandleFrame
    PROVE  WireInv'
<1>1. UNCHANGED <<drawn, stream, cut, handed>>
  BY DEF StreamEnds, HandleFrame, upVars
<1>2. CASE StreamEnds
  BY <1>1, <1>2 DEF StreamEnds, WireInv, WireTypes, FramesWhole
<1>3. CASE HandleFrame
  <2>1. rpc = "frame" /\ rpc' = "header"
    BY <1>3 DEF HandleFrame
  <2>2. WireTypes' /\ FramesWhole'
    BY <1>1, <2>1 DEF WireInv, WireTypes, FramesWhole
  <2>3. \A pos, off : Placed(pos, off) => Placed(pos, off)'
    BY <1>1 DEF Placed, Lies, Cell, FrameOf
  <2>4. \A pos, off : ReaderAt(pos, off) => ReaderAt(pos, off)'
    BY <1>1, <2>1 DEF ReaderAt
  <2> QED
    BY <2>1, <2>2, <2>3, <2>4 DEF WireInv
<1> QED
  BY <1>2, <1>3

\* Every step keeps the stream's invariant.
LEMMA NextWireInv == WireInv /\ [Next]_vars => WireInv'
<1> SUFFICES ASSUME WireInv, [Next]_vars PROVE WireInv'
  OBVIOUS
<1>1. ASSUME EnableBinaryFrames \/ EnableBinaryAggregates \/ TakeBatch \/ WriteOne
             \/ UNCHANGED vars
      PROVE  WireInv'
  <2>1. UNCHANGED <<drawn, stream, cut, rpc, rsize, hand, handed>>
    BY <1>1 DEF EnableBinaryFrames, EnableBinaryAggregates, TakeBatch, WriteOne, vars,
                upVars, readVars
  <2> QED
    BY <2>1, ElsewhereKeeps
<1>2. ASSUME NEW i \in DOMAIN down, Lose(i) \/ Receive(i) PROVE WireInv'
  <2>1. UNCHANGED <<drawn, stream, cut, rpc, rsize, hand, handed>>
    BY <1>2 DEF Lose, Receive, upVars, readVars
  <2> QED
    BY <2>1, ElsewhereKeeps
<1>3. ASSUME NEW d \in Drawable, Draw(d) PROVE WireInv'
  BY <1>3, DrawKeeps
<1>4. ASSUME NEW n \in 0..Len(stream), Cut(n) PROVE WireInv'
  BY <1>4, CutKeeps
<1> QED
  BY <1>1, <1>2, <1>3, <1>4, PrefixKeeps, PayloadKeeps, ReaderMoves DEF Next

\* A new stream is empty and its reader at the first length.
LEMMA InitWireInv == Init => WireInv
<1> SUFFICES ASSUME Init PROVE WireInv
  OBVIOUS
<1>1. /\ drawn = <<>> /\ stream = <<>> /\ rpc = "header" /\ handed = 0
      /\ Len(drawn) = 0 /\ Len(stream) = 0
  BY DEF Init
<1>2. IsSeq(drawn) /\ IsSeq(stream)
  BY <1>1, EmptySeq, SeqIs
<1>3. WireTypes /\ FramesWhole
  BY <1>1, <1>2 DEF WireTypes, FramesWhole
<1>4. PICK pos : pos = [j \in 1..1 |-> 0]
  OBVIOUS
<1>5. Placed(pos, 0) /\ ReaderAt(pos, 0)
  BY <1>1, <1>4 DEF Placed, ReaderAt
<1> QED
  BY <1>3, <1>5 DEF WireInv

\* readStreamFrames hands handleClientFrame the frames that were written, in
\* order and whole: for any previews, compact or JSON, and wherever the stream is
\* cut, no part of a frame and nothing across two of them is taken for one.
THEOREM FramesArriveWhole == Spec => []FramesWhole
<1>1. WireInv => FramesWhole
  BY DEF WireInv
<1> QED
  BY <1>1, InitWireInv, NextWireInv, PTL DEF Spec

\* No proper part of a frame that was handed over decodes, and neither does the
\* frame with a cell more or with what follows it on the stream: for every
\* preview, every width of a word and every set of limits, the compact form tells
\* its own end.
THEOREM FramesTellTheirEnd == Spec => []SelfDelimiting
<1>1. WireInv => SelfDelimiting
  <2> SUFFICES ASSUME WireInv, rpc = "frame", IsBinaryFrame(hand)
               PROVE  /\ \A n \in 0..(Len(hand) - 1) : ~DecodeClientFrame(SubSeq(hand, 1, n)).ok
                      /\ \A more \in {<<0>>} \cup {SubSeq(stream, 1, n) : n \in 1..Len(stream)} :
                            ~DecodeClientFrame(hand \o more).ok
    BY DEF SelfDelimiting
  <2>1. PICK e : e = drawn[handed]
    OBVIOUS
  <2>2. hand = ClientFrame(e) /\ handed \in 1..Len(drawn)
    BY <2>1 DEF WireInv, FramesWhole, WireTypes
  <2>3. Sendable(e)
    BY <2>1, <2>2 DEF WireInv, WireTypes, Framed
  <2>4. EncodeClientFrame(e).ok
    <3> SUFFICES ASSUME ~EncodeClientFrame(e).ok PROVE FALSE
      OBVIOUS
    <3>1. hand = <<e>>
      BY <2>2, Zenon DEF ClientFrame, CompactOr
    <3>2. Len(hand) = 1
      BY <3>1, OneIs
    <3> QED
      BY <3>2 DEF IsBinaryFrame, HeaderSize
  <2>5. hand = EncodeClientFrame(e).cells
    BY <2>2, <2>4, Zenon DEF ClientFrame, CompactOr
  <2>6. /\ \A n \in 0..(Len(hand) - 1) : ~DecodeClientFrame(SubSeq(hand, 1, n)).ok
        /\ \A x : IsSeq(x) /\ x # <<>> => ~DecodeClientFrame(hand \o x).ok
    BY <2>3, <2>4, <2>5, FrameEnds, Zenon
  <2>7. IsSeq(<<0>>) /\ <<0>> # <<>>
    BY OneIs, EmptyIs
  <2>8. ASSUME NEW n \in 1..Len(stream)
        PROVE  IsSeq(SubSeq(stream, 1, n)) /\ SubSeq(stream, 1, n) # <<>>
    <3>1. IsSeq(stream) /\ Len(stream) \in Nat
      BY LenProperties DEF WireInv, WireTypes, IsSeq
    <3>2. 1 \in 1..(Len(stream) + 1) /\ n \in (1 - 1)..Len(stream)
      BY <3>1
    <3>3. Part(SubSeq(stream, 1, n), stream, 1, n)
      BY <3>1, <3>2, PartIs
    <3>4. IsSeq(SubSeq(stream, 1, n)) /\ Len(SubSeq(stream, 1, n)) = n
      BY <3>1, <3>3 DEF Part
    <3> QED
      BY <3>1, <3>4, EmptyIs
  <2>9. \A more \in {<<0>>} \cup {SubSeq(stream, 1, n) : n \in 1..Len(stream)} :
            IsSeq(more) /\ more # <<>>
    BY <2>7, <2>8, Zenon
  <2> QED
    BY <2>6, <2>9, Zenon
<1> QED
  BY <1>1, InitWireInv, NextWireInv, PTL DEF Spec
-----------------------------------------------------------------------------
(* Relayed previews as the recipient reads them *)

\* What a recipient reads for the envelope q.
Reads(s, q) ==
    /\ s.ok /\ s.code = q.code /\ s.seq = EnvelopeSeq(q.seq) /\ s.actorId = q.actorId
    /\ s.origin = q.origin /\ s.sentAt = q.sentAt /\ s.payload \in {q.payload, Canon(q.code, q.payload)}

\* A message carries the envelopes qs, each once and in order.
MessageOf(cells, qs) ==
    /\ IsSeq(ReadMessage(cells)) /\ Len(ReadMessage(cells)) = Len(qs)
    /\ \A k \in 1..Len(qs) : Reads(ReadMessage(cells)[k], qs[k])

\* A relayed frame is read as its envelope.
LEMMA RelayedRead ==
    ASSUME NEW q, NEW f, Relays(f, q, EncodePayload(q.code, q.payload))
    PROVE  Reads(ReadFrame(f), q)
<1> DEFINE body == EncodePayload(q.code, q.payload)
           m == RelayMetadata(f)
<1> HIDE DEF body
<1>1. /\ IsSeq(f) /\ f # <<>> /\ IsBinaryFrame(f)
      /\ f[3] = q.code /\ f[4] - RelayFlag = body.flags
      /\ m.ok /\ m.seq = EnvelopeSeq(q.seq) /\ m.actorId = q.actorId
      /\ m.origin = q.origin /\ m.sentAt = q.sentAt
      /\ SubSeq(f, HeaderSize + 1, m.start - 1) = body.cells
      /\ Trip(q.code, q.payload, body, <<>>) /\ IsSeq(body.cells)
  BY Zenon DEF Relays, body
<1> HIDE DEF m
<1> DEFINE r == Read(Canon(q.code, q.payload), <<>>)
<1>2. DecodePayload(q.code, body.flags, body.cells) = r
  BY <1>1, JoinedEmpty DEF Trip
<1>3. r.ok /\ r.v = Canon(q.code, q.payload) /\ r.rest = <<>>
  BY DEF Read
<1> HIDE DEF r
<1>4. ReadFrame(f) = RelayedOf(f, m, r)
  BY <1>1, <1>2, Zenon DEF ReadFrame, ReadRelayed, RelayedWith, m
<1>5. Consumed(r)
  BY <1>3 DEF Consumed
<1>6. RelayedOf(f, m, r) = [ok |-> TRUE, code |-> f[3], seq |-> m.seq, actorId |-> m.actorId,
                            origin |-> m.origin, sentAt |-> m.sentAt, payload |-> r.v]
  BY <1>1, <1>5, Zenon DEF RelayedOf
<1> QED
  BY <1>1, <1>3, <1>4, <1>6 DEF Reads

\* One frame by itself.
LEMMA LoneFrame ==
    ASSUME NEW q, NEW f, FramesOf(f) = <<f>>, Reads(ReadFrame(f), q)
    PROVE  MessageOf(f, <<q>>)
<1> DEFINE one == <<f>>
           qs == <<q>>
           s == ReadFrame(f)
           r == ReadMessage(f)
<1>1. IsSeq(one) /\ Len(one) = 1 /\ one[1] = f /\ IsSeq(qs) /\ Len(qs) = 1 /\ qs[1] = q
  BY OneIs
<1>2. DOMAIN one = 1..1
  BY <1>1, LenIs
<1>3. r = [i \in DOMAIN FramesOf(f) |-> ReadFrame(FramesOf(f)[i])]
  BY DEF ReadMessage
<1> HIDE DEF r, one, qs
<1>a. FramesOf(f) = one
  BY DEF one
<1>4. r = [i \in 1..1 |-> r[i]] /\ r[1] = s
  BY <1>1, <1>2, <1>3, <1>a
<1>5. IsSeq(r) /\ Len(r) = 1
  BY <1>4, ListIs
<1>6. \A k \in 1..1 : k = 1
  OBVIOUS
<1>7. MessageOf(f, qs)
  BY <1>1, <1>4, <1>5, <1>6 DEF MessageOf, r
<1> QED
  BY <1>7 DEF qs

\* wireBytes writes an envelope, compact or as JSON: the recipient reads it.
LEMMA SingleRead ==
    ASSUME NEW q, Stampable(q), NEW cells,
           cells = <<q>> \/ cells = CompactOr(q, EncodeRelayFrame(q))
    PROVE  MessageOf(cells, <<q>>)
<1>1. CASE cells = <<q>>
  <2>1. Len(cells) = 1 /\ cells[1] = q /\ IsSeq(cells)
    BY <1>1, OneIs
  <2>2. ~IsBinaryFrame(cells) /\ cells # <<>>
    BY <2>1, EmptyIs DEF IsBinaryFrame, HeaderSize
  <2>3. FramesOf(cells) = <<cells>> /\ ReadFrame(cells) = ReadPlain(q)
    BY <2>1, <2>2, Zenon DEF FramesOf, ReadFrame
  <2>4. Reads(ReadPlain(q), q)
    BY DEF Reads, ReadPlain
  <2> QED
    BY <2>3, <2>4, LoneFrame
<1>2. CASE EncodeRelayFrame(q).ok /\ cells = EncodeRelayFrame(q).cells
  <2>1. Relays(cells, q, EncodePayload(q.code, q.payload))
    BY <1>2, RelayFrameRead
  <2>2. Reads(ReadFrame(cells), q)
    BY <2>1, RelayedRead
  <2>3. cells[3] = q.code
    BY <2>1, Zenon DEF Relays
  <2>4. q.code # Aggregate
    BY DEF Stampable, Sendable, Codes, Aggregate
  <2>5. FramesOf(cells) = <<cells>>
    BY <2>3, <2>4, Zenon DEF FramesOf
  <2> QED
    BY <2>2, <2>5, LoneFrame
<1> QED
  BY <1>1, <1>2, Zenon DEF CompactOr

\* EncodeRelayAggregate writes a batch: the recipient reads every envelope of it.
LEMMA WholeRead ==
    ASSUME NEW qs, IsSeq(qs), \A k \in 1..Len(qs) : Stampable(qs[k]), EncodeRelayAggregate(qs).ok
    PROVE  MessageOf(EncodeRelayAggregate(qs).cells, qs)
<1> DEFINE n == Len(qs)
           child == [i \in 1..n |-> EncodeRelayFrame(qs[i])]
           f == EncodeRelayAggregate(qs).cells
           frames == [i \in 1..n |-> child[i].cells]
<1>1. n \in Nat /\ DOMAIN qs = 1..n
  BY LenIs
<1>2. EncodeRelayAggregate(qs) = AggregateOf(child)
  BY <1>1 DEF EncodeRelayAggregate
<1>3. child = [i \in 1..n |-> child[i]] /\ \A i \in 1..n : child[i] = EncodeRelayFrame(qs[i])
  OBVIOUS
<1> HIDE DEF child
<1>4. IsSeq(child) /\ Len(child) = n /\ DOMAIN child = 1..n
  BY <1>1, <1>3, ListIs, LenIs
<1>5. \A i \in 1..n : child[i].ok
  BY <1>2, <1>4 DEF AggregateOf, Malformed
<1>6. \A i \in 1..n : Relays(child[i].cells, qs[i], EncodePayload(qs[i].code, qs[i].payload))
  BY <1>3, <1>5, RelayFrameRead
<1>7. \A i \in 1..n : /\ IsSeq(child[i].cells) /\ child[i].cells # <<>>
                      /\ Reads(ReadFrame(child[i].cells), qs[i])
  <2> SUFFICES ASSUME NEW i \in 1..n
               PROVE  /\ IsSeq(child[i].cells) /\ child[i].cells # <<>>
                      /\ Reads(ReadFrame(child[i].cells), qs[i])
    OBVIOUS
  <2>1. Relays(child[i].cells, qs[i], EncodePayload(qs[i].code, qs[i].payload))
    BY <1>6
  <2>2. IsSeq(child[i].cells) /\ child[i].cells # <<>>
    BY <2>1, Zenon DEF Relays
  <2> QED
    BY <2>1, <2>2, RelayedRead
<1>8. /\ IsSeq(f) /\ IsBinaryFrame(f) /\ f[3] = Aggregate
      /\ Children(f) = Read(frames, <<>>)
  <2>1. AggregateOf(child).ok
    BY <1>2
  <2>2. \A i \in 1..n : IsSeq(child[i].cells) /\ child[i].cells # <<>>
    BY <1>7
  <2>3. Aggregates(AggregateOf(child).cells, frames)
    BY <1>1, <1>3, <2>1, <2>2, AggregateRead
  <2> QED
    BY <1>2, <2>3 DEF Aggregates
<1> HIDE DEF f
<1> DEFINE r == Read(frames, <<>>)
<1>9. r.ok /\ r.v = frames
  BY DEF Read
<1> HIDE DEF r
<1>10. FramesOf(f) = frames
  BY <1>8, <1>9, Zenon DEF FramesOf, r
<1> DEFINE read == ReadMessage(f)
<1>11. read = [i \in DOMAIN FramesOf(f) |-> ReadFrame(FramesOf(f)[i])]
  BY DEF ReadMessage
<1> HIDE DEF read
<1>12. /\ read = [i \in 1..n |-> read[i]]
       /\ \A i \in 1..n : read[i] = ReadFrame(child[i].cells)
  BY <1>10, <1>11
<1>13. IsSeq(read) /\ Len(read) = n
  BY <1>1, <1>12, ListIs
<1>14. MessageOf(f, qs)
  BY <1>7, <1>12, <1>13 DEF MessageOf, read
<1> QED
  BY <1>14 DEF f

-----------------------------------------------------------------------------
(* Tolerances *)

\* A payload is the same as itself.
LEMMA SameIs ==
    ASSUME NEW code \in Codes, NEW p \in Payloads(code)
    PROVE  SamePayload(code, p, p)
<1>1. \A v \in Int : Near(v, v)
  BY DEF Near
<1>2. CASE code = "ink"
  <2>1. p \in Inks
    BY <1>2 DEF Payloads, Inks, Points
  <2>2. p.points \in Points
    BY <2>1 DEF Inks
  <2>3. DOMAIN p.points = 1..Len(p.points)
    BY <2>2, PointIs
  <2>4. \A i \in 1..Len(p.points) : p.points[i].x \in Int /\ p.points[i].y \in Int
    BY <2>2, PointIs
  <2>5. \A i \in DOMAIN p.points : SamePoint(p.points[i], p.points, i)
    BY <1>1, <2>3, <2>4 DEF SamePoint
  <2> QED
    BY <1>2, <2>5, Zenon DEF SamePayload
<1>3. CASE code = "transform"
  <2>1. p \in Transforms
    BY <1>3 DEF Payloads, Transforms
  <2>2. \A f \in DOMAIN p : f \in {"id", "page"} \/ p[f] \in Int
    BY <2>1 DEF Transforms
  <2> QED
    BY <1>1, <1>3, <2>2 DEF SamePayload
<1>4. CASE code \notin {"ink", "transform"}
  <2>1. p \in [id : Names, x : Int, y : Int]
    BY <1>4 DEF Payloads
  <2>2. \A f \in DOMAIN p : f \in {"id", "page"} \/ p[f] \in Int
    BY <2>1
  <2> QED
    BY <1>1, <1>4, <2>2 DEF SamePayload
<1> QED
  BY <1>2, <1>3, <1>4

\* A coordinate is sent to within half a quantum.
LEMMA NearIs == ASSUME NEW v \in Int PROVE Near(Dequantized(Quantized(v)), v)
<1> DEFINE w == Dequantized(Quantized(v))
<1>1. w - v \in {0, 1}
  BY QuantumIs
<1> HIDE DEF w
<1>2. Near(w, v)
  BY <1>1 DEF Near
<1> QED
  BY <1>2 DEF w

\* So is a pressure, of what the range leaves of it.
LEMMA NearPressure ==
    ASSUME NEW v \in Int
    PROVE  /\ Near(Pressure(PressureByte(v)), Max({0, Min({2 * MaxByte, v})}))
           /\ Pressure(PressureByte(v)) \in Int
<1>1. MaxByte \in Nat /\ MaxByte % 2 = 1 /\ 2 * MaxByte \in Int
  BY WidthAssumption
<1> DEFINE m == Min({2 * MaxByte, v})
           k == Max({0, m})
           b == PressureByte(v)
<1>2. m = (IF 2 * MaxByte <= v THEN 2 * MaxByte ELSE v) /\ m \in Int
  BY <1>1, PairIs
<1>3. k = IF 0 >= m THEN 0 ELSE m
  BY <1>2, PairIs
<1>4. b = (k + 1) \div 2
  BY DEF PressureByte
<1> HIDE DEF m, k, b
<1>5. k \in 0..(2 * MaxByte) /\ b \in 0..MaxByte
  BY <1>1, <1>2, <1>3, <1>4
<1>6. Pressure(b) \in Int /\ Pressure(b) - k \in {-1, 0, 1}
  BY <1>1, <1>4, <1>5 DEF Pressure
<1> QED
  BY <1>6 DEF Near, m, k, b

\* A payload after a trip over the wire is the same, within the tolerances.
LEMMA SameCanon ==
    ASSUME NEW code \in Codes, NEW p \in Payloads(code)
    PROVE  SamePayload(code, Canon(code, p), p)
<1>1. CASE code = "ink"
  <2> DEFINE points == p.points
             c == CanonPoints(points)
  <2>1. p \in Inks
    BY <1>1 DEF Payloads, Inks, Points
  <2>2. points \in Points
    BY <2>1 DEF Inks
  <2>3. /\ DOMAIN points = 1..Len(points) /\ Len(points) \in Nat /\ IsSeq(points)
        /\ \A i \in 1..Len(points) :
              /\ points[i].x \in Int /\ points[i].y \in Int
              /\ points[i].p \in Int \cup {Absent}
              /\ points[i].t \in 0..(Word - 1) \cup {Absent}
    BY <2>2, PointIs
  <2>4. Canon(code, p).id = p.id /\ Canon(code, p).points = c
    BY <1>1 DEF Canon, CanonInk
  <2>5. \A i \in 1..Len(points) :
           /\ c[i].x = Dequantized(Quantized(points[i].x))
           /\ c[i].y = Dequantized(Quantized(points[i].y))
           /\ c[i].p = IF HasPressure(points) THEN Pressure(PressureByte(points[i].p)) ELSE Absent
           /\ c[i].t = IF HasTimes(points) THEN Reached(points, i) ELSE Absent
    BY DEF CanonPoints
  <2>6. c = [i \in 1..Len(points) |-> c[i]]
    BY DEF CanonPoints
  <2> HIDE DEF c, points
  <2>7. Len(c) = Len(points)
    BY <2>3, <2>6, ListIs
  <2>8. ASSUME NEW i \in 1..Len(points) PROVE SamePoint(c[i], points, i)
    <3>1. Near(c[i].x, points[i].x) /\ Near(c[i].y, points[i].y)
      BY <2>3, <2>5, NearIs
    <3>2. points # <<>>
      BY <2>3, <2>8, EmptyIs
    <3>3. \/ c[i].p = Absent /\ \E j \in DOMAIN points : points[j].p = Absent
          \/ points[i].p # Absent /\ c[i].p # Absent
             /\ Near(c[i].p, Max({0, Min({2 * MaxByte, points[i].p})}))
      <4>1. CASE HasPressure(points)
        <5>1. points[i].p # Absent /\ points[i].p \in Int
          BY <2>3, <4>1 DEF HasPressure
        <5>2. c[i].p = Pressure(PressureByte(points[i].p))
          BY <2>5, <4>1
        <5>3. /\ Near(Pressure(PressureByte(points[i].p)), Max({0, Min({2 * MaxByte, points[i].p})}))
              /\ Pressure(PressureByte(points[i].p)) \in Int
          BY <5>1, NearPressure
        <5>4. c[i].p # Absent
          BY <5>2, <5>3, LimitAssumption
        <5> QED
          BY <5>1, <5>2, <5>3, <5>4, Zenon
      <4>2. CASE ~HasPressure(points)
        BY <2>5, <3>2, <4>2 DEF HasPressure
      <4> QED
        BY <4>1, <4>2
    <3>4. \/ c[i].t = Absent /\ \E j \in DOMAIN points : points[j].t = Absent
          \/ points[i].t # Absent /\ c[i].t = Max({points[j].t : j \in 1..i})
      <4>1. CASE HasTimes(points)
        <5>1. points[i].t # Absent
          BY <2>3, <4>1 DEF HasTimes
        <5>2. c[i].t = Reached(points, i)
          BY <2>5, <4>1
        <5> QED
          BY <5>1, <5>2, Zenon DEF Reached
      <4>2. CASE ~HasTimes(points)
        BY <2>5, <3>2, <4>2 DEF HasTimes
      <4> QED
        BY <4>1, <4>2
    <3> QED
      BY <3>1, <3>3, <3>4, Zenon DEF SamePoint
  <2>9. \A i \in DOMAIN points : SamePoint(c[i], points, i)
    BY <2>3, <2>8
  <2> QED
    BY <1>1, <2>4, <2>7, <2>9, Zenon DEF SamePayload, points
<1>2. CASE code = "transform"
  <2>1. p \in Transforms /\ Canon(code, p) = CanonTransform(p)
    BY <1>2 DEF Payloads, Transforms, Canon
  <2>2. DOMAIN p = {"id", "page", "x", "y", "width", "height", "rotation"}
    BY <2>1 DEF Transforms
  <2> DEFINE c == CanonTransform(p)
  <2>3. /\ c["id"] = p["id"] /\ c["page"] = p["page"]
        /\ \A f \in {"x", "y", "width", "height", "rotation"} :
              p[f] \in Int /\ c[f] = Dequantized(Quantized(p[f]))
    BY <2>1 DEF Transforms, CanonTransform
  <2> HIDE DEF c
  <2>4. \A f \in {"x", "y", "width", "height", "rotation"} : Near(c[f], p[f])
    BY <2>3, NearIs
  <2>5. \A f \in DOMAIN p : IF f \in {"id", "page"} THEN c[f] = p[f] ELSE Near(c[f], p[f])
    BY <2>2, <2>3, <2>4
  <2> QED
    BY <1>2, <2>1, <2>5 DEF SamePayload, c
<1>3. CASE code \notin {"ink", "transform"}
  <2>1. p \in [id : Names, x : Int, y : Int] /\ Canon(code, p) = CanonPointer(p)
    BY <1>3 DEF Payloads, Canon
  <2>2. DOMAIN p = {"id", "x", "y"}
    BY <2>1
  <2> DEFINE c == CanonPointer(p)
  <2>3. /\ c["id"] = p["id"]
        /\ \A f \in {"x", "y"} : p[f] \in Int /\ c[f] = Dequantized(Quantized(p[f]))
    BY <2>1 DEF CanonPointer
  <2> HIDE DEF c
  <2>4. \A f \in {"x", "y"} : Near(c[f], p[f])
    BY <2>3, NearIs
  <2>5. \A f \in DOMAIN p : IF f \in {"id", "page"} THEN c[f] = p[f] ELSE Near(c[f], p[f])
    BY <2>2, <2>3, <2>4
  <2> QED
    BY <1>3, <2>1, <2>5 DEF SamePayload, c
<1> QED
  BY <1>1, <1>2, <1>3

-----------------------------------------------------------------------------
(* Queues *)

\* The joined beginnings of a list, from their loop; nothing joined is empty.
LEMMA FlattenEmpty == ASSUME NEW ss, IsSeq(ss), Len(ss) = 0 PROVE FlattenSeq(ss) = <<>>
<1>1. ss = <<>>
  BY EmptySeq DEF IsSeq
<1> QED
  BY <1>1, Zenon DEF FlattenSeq

\* Two lists that agree in their first n elements.
AgreeUpTo(s, t, n) == \A i \in 1..n : s[i] = t[i]

\* g and h join the same parts, so they agree as far as both go.
LEMMA JoinsAgree ==
    ASSUME NEW ss, NEW tt, NEW n \in Nat, NEW m \in Nat, NEW g, NEW h,
           JoinsUpTo(g, ss, n), JoinsUpTo(h, tt, m), n <= m, AgreeUpTo(ss, tt, n)
    PROVE  AgreeUpTo(g, h, n)
<1>1. \A i \in 1..n : g[i] = IF i = 1 THEN ss[i] ELSE g[i-1] \o ss[i]
  BY DEF JoinsUpTo
<1>2. \A i \in 1..m : h[i] = IF i = 1 THEN tt[i] ELSE h[i-1] \o tt[i]
  BY DEF JoinsUpTo
<1> DEFINE G == {i \in Nat : i \in 1..n => g[i] = h[i]}
<1>3. 0 \in G
  OBVIOUS
<1>4. ASSUME NEW i \in Nat, i \in G PROVE i + 1 \in G
  <2> DEFINE j == i + 1
  <2> SUFFICES ASSUME j \in 1..n PROVE g[j] = h[j]
    OBVIOUS
  <2>1. j \in 1..m /\ j - 1 = i /\ (j # 1 => i \in 1..n)
    OBVIOUS
  <2> HIDE DEF j
  <2>2. ss[j] = tt[j]
    BY DEF AgreeUpTo
  <2>3. g[j] = IF j = 1 THEN ss[j] ELSE g[i] \o ss[j]
    BY <1>1, <2>1
  <2>4. h[j] = IF j = 1 THEN tt[j] ELSE h[i] \o tt[j]
    BY <1>2, <2>1
  <2>5. j # 1 => g[i] = h[i]
    BY <1>4, <2>1
  <2> QED
    BY <2>2, <2>3, <2>4, <2>5
<1> HIDE DEF G
<1>5. \A i \in Nat : i \in G
  BY <1>3, <1>4, Induction
<1> QED
  BY <1>5 DEF G, AgreeUpTo

\* One part more comes last.
LEMMA FlattenMore ==
    ASSUME NEW n \in Nat, NEW ss, ss = [i \in 1..n |-> ss[i]], NEW tt,
           tt = [i \in 1..(n + 1) |-> tt[i]], \A i \in 1..n : ss[i] = tt[i],
           \A i \in 1..(n + 1) : IsSeq(tt[i])
    PROVE  FlattenSeq(tt) = FlattenSeq(ss) \o tt[n + 1] /\ IsSeq(FlattenSeq(ss))
<1> DEFINE m == n + 1
<1>1. m \in Nat \ {0} /\ m \in 1..m /\ m - 1 = n /\ n <= m
  OBVIOUS
<1>a. \A i \in 1..n : i \in 1..m
  OBVIOUS
<1>b. \A i \in 1..n : IsSeq(ss[i])
  BY <1>a
<1>2. PICK h : JoinsUpTo(h, tt, m)
  <2> HIDE DEF m
  <2> QED
    BY <1>1, FlattenRuns DEF m
<1>3. FlattenSeq(tt) = h[m] /\ h[m] = IF m = 1 THEN tt[m] ELSE h[n] \o tt[m]
  BY <1>1, <1>2 DEF JoinsUpTo
<1>4. CASE n = 0
  <2>1. IsSeq(ss) /\ Len(ss) = 0
    BY <1>4, ListIs
  <2>2. FlattenSeq(ss) = <<>>
    BY <2>1, FlattenEmpty
  <2>3. FlattenSeq(tt) = tt[m] /\ IsSeq(tt[m])
    BY <1>3, <1>4
  <2>4. <<>> \o tt[m] = tt[m]
    BY <2>3, JoinedEmpty
  <2> QED
    BY <2>2, <2>3, <2>4, EmptyIs
<1>5. CASE n # 0
  <2>1. n \in Nat \ {0} /\ \A i \in 1..n : IsSeq(ss[i])
    BY <1>5, <1>b
  <2>2. PICK g : JoinsUpTo(g, ss, n)
    BY <2>1, FlattenRuns
  <2>3. FlattenSeq(ss) = g[n] /\ IsSeq(g[n])
    BY <2>1, <2>2 DEF JoinsUpTo
  <2>4. \A i \in 1..n : g[i] = h[i]
    <3>1. n <= m /\ m \in Nat /\ AgreeUpTo(ss, tt, n)
      BY <1>1 DEF AgreeUpTo
    <3> HIDE DEF m
    <3>2. AgreeUpTo(g, h, n)
      BY <1>2, <2>2, <3>1, JoinsAgree
    <3> QED
      BY <3>2 DEF AgreeUpTo
  <2>5. g[n] = h[n] /\ m # 1
    BY <2>1, <2>4
  <2> QED
    BY <1>3, <2>3, <2>5
<1> QED
  BY <1>4, <1>5

\* ss is the n lists that follow the first one of tt.
Tails(tt, ss, n) ==
    /\ tt = [i \in 1..(n + 1) |-> tt[i]] /\ \A i \in 1..(n + 1) : IsSeq(tt[i])
    /\ ss = [i \in 1..n |-> ss[i]] /\ \A i \in 1..n : ss[i] = tt[i + 1]

\* A part that comes first.
LEMMA FlattenFirst ==
    ASSUME NEW n \in Nat, NEW tt, NEW ss, Tails(tt, ss, n)
    PROVE  FlattenSeq(tt) = tt[1] \o FlattenSeq(ss) /\ IsSeq(FlattenSeq(ss))
<1>0. /\ tt = [i \in 1..(n + 1) |-> tt[i]] /\ \A i \in 1..(n + 1) : IsSeq(tt[i])
      /\ ss = [i \in 1..n |-> ss[i]] /\ \A i \in 1..n : ss[i] = tt[i + 1]
  BY DEF Tails
<1> USE <1>0
<1> DEFINE m == n + 1
<1>1. m \in Nat \ {0} /\ m \in 1..m /\ m - 1 = n /\ 1 \in 1..m
  OBVIOUS
<1>2. PICK h : JoinsUpTo(h, tt, m)
  <2> HIDE DEF m
  <2> QED
    BY <1>1, FlattenRuns DEF m
<1>3. FlattenSeq(tt) = h[m] /\ \A i \in 1..m : h[i] = IF i = 1 THEN tt[i] ELSE h[i-1] \o tt[i]
  BY <1>2 DEF JoinsUpTo
<1>4. CASE n = 0
  <2>1. IsSeq(ss) /\ Len(ss) = 0
    BY <1>4, ListIs
  <2>2. FlattenSeq(ss) = <<>>
    BY <2>1, FlattenEmpty
  <2>3. FlattenSeq(tt) = tt[1] /\ IsSeq(tt[1])
    BY <1>1, <1>3, <1>4
  <2>4. tt[1] \o <<>> = tt[1]
    BY <2>3, JoinedEmpty
  <2> QED
    BY <2>2, <2>3, <2>4, EmptyIs
<1>5. CASE n # 0
  <2>1. n \in Nat \ {0} /\ n \in 1..n
    BY <1>5
  <2>a. \A i \in 1..n : i + 1 \in 1..m
    OBVIOUS
  <2>2. \A i \in 1..n : IsSeq(ss[i]) /\ i + 1 \in 1..m
    BY <2>a
  <2>3. PICK g : JoinsUpTo(g, ss, n)
    BY <2>1, <2>2, FlattenRuns
  <2>4. /\ FlattenSeq(ss) = g[n]
        /\ \A i \in 1..n : IsSeq(g[i]) /\ g[i] = IF i = 1 THEN ss[i] ELSE g[i-1] \o ss[i]
    BY <2>3 DEF JoinsUpTo
  <2>5. IsSeq(tt[1])
    BY <1>1
  <2> HIDE DEF m
  <2> DEFINE G == {i \in Nat : i \in 1..n => h[i + 1] = tt[1] \o g[i]}
  <2>6. 0 \in G
    OBVIOUS
  <2>7. ASSUME NEW i \in Nat, i \in G PROVE i + 1 \in G
    <3>a. PICK j : j = i + 1
      OBVIOUS
    <3>b. j \in Nat
      BY <3>a
    <3>c. SUFFICES ASSUME j \in 1..n PROVE h[j + 1] = tt[1] \o g[j]
      BY <3>a, <3>b
    <3>d. j + 1 # 1 /\ (j + 1) - 1 = j
      BY <3>a
    <3>e. j + 1 \in 1..m /\ IsSeq(ss[j])
      BY <2>2, <3>c
    <3>f. ss[j] = tt[j + 1]
      BY <3>c
    <3>1. j + 1 \in 1..m /\ j + 1 # 1 /\ (j + 1) - 1 = j /\ ss[j] = tt[j + 1] /\ IsSeq(ss[j])
      BY <3>d, <3>e, <3>f
    <3>2. h[j + 1] = h[j] \o ss[j]
      BY <1>3, <3>1
    <3>3. CASE i = 0
      <4>1. j = 1
        BY <3>3, <3>a
      <4>2. g[1] = ss[1] /\ h[1] = tt[1]
        BY <1>1, <1>3, <2>1, <2>4, <4>1
      <4> QED
        BY <3>2, <4>1, <4>2
    <3>4. CASE i # 0
      <4>1. i \in 1..n /\ j # 1 /\ j - 1 = i
        BY <3>4, <3>a, <3>c
      <4>2. h[j] = tt[1] \o g[i] /\ g[j] = g[i] \o ss[j] /\ IsSeq(g[i])
        BY <2>4, <2>7, <3>a, <3>c, <4>1
      <4>3. Regroups(tt[1], g[i], ss[j])
        BY <2>5, <3>1, <4>2, JoinedAssoc
      <4> QED
        BY <3>2, <4>2, <4>3 DEF Regroups
    <3> QED
      BY <3>3, <3>4
  <2> HIDE DEF G
  <2>8. \A i \in Nat : i \in G
    BY <2>6, <2>7, Induction
  <2>9. h[n + 1] = tt[1] \o g[n] /\ IsSeq(g[n])
    BY <2>1, <2>4, <2>8 DEF G
  <2> QED
    BY <1>3, <2>4, <2>9 DEF m
<1> QED
  BY <1>4, <1>5

\* The numbers of a list.
LEMMA NumbersIs ==
    ASSUME NEW s, IsSeq(s)
    PROVE  /\ IsSeq(Numbers(s)) /\ Len(Numbers(s)) = Len(s)
           /\ \A i \in 1..Len(s) : Numbers(s)[i] = s[i].sentAt
<1> DEFINE n == Len(s)
           u == Numbers(s)
<1>1. n \in Nat /\ DOMAIN s = 1..n
  BY LenIs
<1>2. u = [i \in 1..n |-> s[i].sentAt]
  BY <1>1 DEF Numbers
<1> HIDE DEF u, n
<1>3. u = [i \in 1..n |-> u[i]] /\ \A i \in 1..n : u[i] = s[i].sentAt
  BY <1>2
<1>4. IsSeq(u) /\ Len(u) = n
  BY <1>1, <1>3, ListIs
<1> QED
  BY <1>3, <1>4 DEF u, n

\* Those of two lists, one after the other.
LEMMA NumbersJoined ==
    ASSUME NEW s, NEW t, IsSeq(s), IsSeq(t)
    PROVE  Numbers(s \o t) = Numbers(s) \o Numbers(t)
<1> DEFINE st == s \o t
           a == Numbers(s)
           b == Numbers(t)
           c == Numbers(st)
           ab == a \o b
<1>1. IsSeq(st) /\ Joins(st, s, t) /\ Len(s) \in Nat /\ Len(t) \in Nat
  BY JoinedSeq, LenIs, Zenon
<1>2. IsSeq(a) /\ Len(a) = Len(s) /\ \A i \in 1..Len(s) : a[i] = s[i].sentAt
  BY NumbersIs
<1>3. IsSeq(b) /\ Len(b) = Len(t) /\ \A i \in 1..Len(t) : b[i] = t[i].sentAt
  BY NumbersIs
<1> HIDE DEF st
<1>4. IsSeq(c) /\ Len(c) = Len(st) /\ \A i \in 1..Len(st) : c[i] = st[i].sentAt
  BY <1>1, NumbersIs
<1> HIDE DEF a, b, c
<1>5. IsSeq(ab) /\ Joins(ab, a, b)
  BY <1>2, <1>3, JoinedSeq, Zenon
<1> HIDE DEF ab
<1>6. Len(c) = Len(ab) /\ Len(c) = Len(s) + Len(t)
  BY <1>1, <1>2, <1>3, <1>4, <1>5 DEF Joins
<1>7. ASSUME NEW i \in 1..Len(c) PROVE c[i] = ab[i]
  <2>1. CASE i <= Len(s)
    <3>1. i \in 1..Len(s) /\ i \in 1..Len(st)
      BY <1>1, <1>4, <1>6, <2>1
    <3> QED
      BY <1>1, <1>2, <1>4, <1>5, <3>1 DEF Joins
  <2>2. CASE i > Len(s)
    <3> DEFINE j == i - Len(s)
    <3>1. j \in 1..Len(t) /\ Len(s) + j = i /\ i \in 1..Len(st)
      BY <1>1, <1>4, <1>6, <2>2
    <3> HIDE DEF j
    <3>2. st[i] = t[j]
      BY <1>1, <3>1 DEF Joins
    <3>3. ab[i] = b[j]
      BY <1>2, <1>3, <1>5, <3>1 DEF Joins
    <3> QED
      BY <1>3, <1>4, <3>1, <3>2, <3>3
  <2>3. i <= Len(s) \/ i > Len(s)
    BY <1>1, <1>6
  <2> QED
    BY <2>1, <2>2, <2>3
<1>8. c = ab
  BY <1>4, <1>5, <1>6, <1>7, SameSeq
<1> QED
  BY <1>8 DEF c, st, ab, a, b

\* Taking one out leaves the others.
LEMMA RemovedIs ==
    ASSUME NEW s, IsSeq(s), NEW i \in 1..Len(s)
    PROVE  /\ IsSeq(RemoveAt(s, i)) /\ Len(RemoveAt(s, i)) = Len(s) - 1
           /\ \A k \in 1..(Len(s) - 1) : RemoveAt(s, i)[k] = IF k < i THEN s[k] ELSE s[k + 1]
<1> DEFINE a == SubSeq(s, 1, i - 1)
           b == SubSeq(s, i + 1, Len(s))
           r == a \o b
<1>0. RemoveAt(s, i) = r
  BY DEF RemoveAt
<1>1. Len(s) \in Nat /\ i \in Nat /\ i >= 1 /\ i <= Len(s)
  BY LenIs
<1>2. Part(a, s, 1, i - 1) /\ Part(b, s, i + 1, Len(s))
  <2>1. 1 \in 1..(Len(s) + 1) /\ i - 1 \in (1 - 1)..Len(s)
    BY <1>1
  <2>2. i + 1 \in 1..(Len(s) + 1) /\ Len(s) \in ((i + 1) - 1)..Len(s)
    BY <1>1
  <2> QED
    BY <2>1, <2>2, PartIs
<1> HIDE DEF a, b
<1>3. IsSeq(a) /\ Len(a) = i - 1 /\ \A k \in 1..(i - 1) : a[k] = s[k]
  <2>1. IsSeq(a) /\ Len(a) = (i - 1) - 1 + 1 /\ \A k \in 1..((i - 1) - 1 + 1) : a[k] = s[1 + k - 1]
    BY <1>2 DEF Part
  <2> QED
    BY <1>1, <2>1
<1>4. IsSeq(b) /\ Len(b) = Len(s) - i /\ \A k \in 1..(Len(s) - i) : b[k] = s[i + k]
  <2>1. /\ IsSeq(b) /\ Len(b) = Len(s) - (i + 1) + 1
        /\ \A k \in 1..(Len(s) - (i + 1) + 1) : b[k] = s[(i + 1) + k - 1]
    BY <1>2 DEF Part
  <2> QED
    BY <1>1, <2>1
<1>5. IsSeq(r) /\ Joins(r, a, b)
  BY <1>3, <1>4, JoinedSeq, Zenon
<1> HIDE DEF r
<1>6. Len(r) = Len(s) - 1
  BY <1>1, <1>3, <1>4, <1>5 DEF Joins
<1>7. ASSUME NEW k \in 1..(Len(s) - 1) PROVE r[k] = IF k < i THEN s[k] ELSE s[k + 1]
  <2>1. CASE k < i
    <3>1. k \in 1..Len(a) /\ k \in 1..(i - 1)
      BY <1>1, <1>3, <2>1
    <3> QED
      BY <1>3, <1>5, <2>1, <3>1 DEF Joins
  <2>2. CASE ~(k < i)
    <3> DEFINE j == k - (i - 1)
    <3>1. j \in 1..Len(b) /\ Len(a) + j = k /\ i + j = k + 1 /\ j \in 1..(Len(s) - i)
      BY <1>1, <1>3, <1>4, <2>2
    <3> HIDE DEF j
    <3>2. r[k] = b[j]
      BY <1>5, <3>1 DEF Joins
    <3> QED
      BY <1>4, <2>2, <3>1, <3>2
  <2> QED
    BY <2>1, <2>2
<1> QED
  BY <1>0, <1>5, <1>6, <1>7

-----------------------------------------------------------------------------
(* Previews on the server and beyond *)

\* The envelope q carries the preview d behind the server's stamp.
Conveys(q, d) ==
    /\ q.code = d.code /\ q.payload \in {d.payload, Canon(d.code, d.payload)}
    /\ EnvelopeSeq(q.seq) = EnvelopeSeq(d.seq)
    /\ q.messageId = MessageId /\ q.sessionId = SessionId /\ q.channel = Channel
    /\ q.actorId = ActorId /\ q.origin = Origin

\* s is what a recipient should make of the preview d.
Seen(s, d) ==
    /\ s.ok /\ s.code = d.code /\ s.seq = EnvelopeSeq(d.seq) /\ s.actorId = ActorId
    /\ s.origin = Origin /\ s.payload \in {d.payload, Canon(d.code, d.payload)}

\* Of the previews in D, h have been handed over.
Drawings(h, D) == IsSeq(D) /\ h \in 0..Len(D) /\ \A j \in 1..Len(D) : Sendable(D[j])

\* Envelopes, each of a preview that was handed over.
AllConvey(qs, h, D) ==
    IsSeq(qs) /\ \A k \in 1..Len(qs) : qs[k].sentAt \in 1..h /\ Conveys(qs[k], D[qs[k].sentAt])

\* What a recipient made of previews that were handed over.
AllSeen(ss, h, D) ==
    IsSeq(ss) /\ \A k \in 1..Len(ss) : ss[k].sentAt \in 1..h /\ Seen(ss[k], D[ss[k].sentAt])

\* Messages that will be read so.
AllReadable(ms, h, D) ==
    IsSeq(ms) /\ \A k \in 1..Len(ms) : AllSeen(ReadMessage(ms[k].cells), h, D)

\* An envelope that carries a preview can be written in every form.
LEMMA ConveysStampable ==
    ASSUME NEW q, NEW d, Sendable(d), Conveys(q, d), q.sentAt \in Nat
    PROVE  Stampable(q)
<1>1. d.code \in Codes /\ d.payload \in Payloads(d.code)
  BY DEF Sendable
<1>2. Canon(d.code, d.payload) \in Payloads(d.code)
  BY <1>1, PayloadSettles
<1>3. q.code = d.code /\ q.payload \in {d.payload, Canon(d.code, d.payload)}
  BY DEF Conveys
<1>4. Sendable(q)
  BY <1>1, <1>2, <1>3 DEF Sendable
<1>5. /\ q.messageId \in Names /\ q.sessionId \in Names /\ q.channel \in Names
      /\ q.actorId \in Names /\ q.origin \in Names
  BY StampAssumption DEF Conveys
<1> QED
  BY <1>4, <1>5 DEF Stampable

\* A second trip over the wire changes nothing more.
LEMMA ReadsSeen ==
    ASSUME NEW s, NEW q, NEW d, Sendable(d), Conveys(q, d), Reads(s, q)
    PROVE  Seen(s, d)
<1>1. d.code \in Codes /\ d.payload \in Payloads(d.code)
  BY DEF Sendable
<1>2. Canon(d.code, Canon(d.code, d.payload)) = Canon(d.code, d.payload)
  BY <1>1, PayloadSettles
<1>3. /\ q.code = d.code /\ q.payload \in {d.payload, Canon(d.code, d.payload)}
      /\ EnvelopeSeq(q.seq) = EnvelopeSeq(d.seq) /\ q.actorId = ActorId
      /\ q.origin = Origin
  BY DEF Conveys
<1>4. /\ s.ok /\ s.code = q.code /\ s.seq = EnvelopeSeq(q.seq) /\ s.actorId = q.actorId
      /\ s.origin = q.origin /\ s.payload \in {q.payload, Canon(q.code, q.payload)}
  BY DEF Reads
<1>5. s.payload \in {d.payload, Canon(d.code, d.payload)}
  BY <1>2, <1>3, <1>4
<1> QED
  BY <1>3, <1>4, <1>5 DEF Seen

\* What a recipient makes of a preview is within the tolerances.
LEMMA SeenSame ==
    ASSUME NEW s, NEW d, Sendable(d), Seen(s, d)
    PROVE  SamePayload(s.code, s.payload, d.payload)
<1>1. d.code \in Codes /\ d.payload \in Payloads(d.code)
  BY DEF Sendable
<1>2. s.code = d.code /\ s.payload \in {d.payload, Canon(d.code, d.payload)}
  BY DEF Seen
<1>3. /\ SamePayload(d.code, d.payload, d.payload)
      /\ SamePayload(d.code, Canon(d.code, d.payload), d.payload)
  BY <1>1, SameIs, SameCanon
<1> QED
  BY <1>2, <1>3

\* Drawing and handing over more changes nothing for those before.
LEMMA MoreDrawn ==
    ASSUME NEW h, NEW D, NEW hh, NEW DD, Drawings(h, D), hh \in Nat, h <= hh, AgreeUpTo(D, DD, Len(D))
    PROVE  /\ \A qs : AllConvey(qs, h, D) => AllConvey(qs, hh, DD)
           /\ \A ss : AllSeen(ss, h, D) => AllSeen(ss, hh, DD)
           /\ \A ms : AllReadable(ms, h, D) => AllReadable(ms, hh, DD)
<1>1. h \in Nat /\ Len(D) \in Nat /\ h <= Len(D)
  BY LenIs DEF Drawings
<1>2. ASSUME NEW n \in 1..h PROVE n \in 1..hh /\ D[n] = DD[n]
  <2>1. n \in 1..hh /\ n \in 1..Len(D)
    BY <1>1
  <2> QED
    BY <2>1 DEF AgreeUpTo
<1>3. \A qs : AllConvey(qs, h, D) => AllConvey(qs, hh, DD)
  BY <1>2 DEF AllConvey
<1>4. \A ss : AllSeen(ss, h, D) => AllSeen(ss, hh, DD)
  BY <1>2 DEF AllSeen
<1>5. \A ms : AllReadable(ms, h, D) => AllReadable(ms, hh, DD)
  BY <1>4, Zenon DEF AllReadable
<1> QED
  BY <1>3, <1>4, <1>5, Zenon

\* Each of the envelopes can be written.
LEMMA ConveyStampable ==
    ASSUME NEW h, NEW D, Drawings(h, D), NEW qs, AllConvey(qs, h, D)
    PROVE  \A k \in 1..Len(qs) : Stampable(qs[k])
<1> SUFFICES ASSUME NEW k \in 1..Len(qs) PROVE Stampable(qs[k])
  OBVIOUS
<1>1. qs[k].sentAt \in 1..h /\ Conveys(qs[k], D[qs[k].sentAt])
  BY DEF AllConvey
<1>2. h \in Nat /\ Len(D) \in Nat /\ h <= Len(D)
  BY LenIs DEF Drawings
<1>3. qs[k].sentAt \in 1..Len(D) /\ qs[k].sentAt \in Nat
  BY <1>1, <1>2
<1>4. Sendable(D[qs[k].sentAt])
  BY <1>3 DEF Drawings
<1> QED
  BY <1>1, <1>3, <1>4, ConveysStampable

\* A message of such envelopes is read as it should be, and has their numbers.
LEMMA MessageSeen ==
    ASSUME NEW h, NEW D, Drawings(h, D), NEW qs, AllConvey(qs, h, D), NEW cells, MessageOf(cells, qs)
    PROVE  AllSeen(ReadMessage(cells), h, D) /\ Numbers(ReadMessage(cells)) = Numbers(qs)
<1>a. PICK r : r = ReadMessage(cells)
  OBVIOUS
<1>1. IsSeq(r) /\ Len(r) = Len(qs) /\ \A k \in 1..Len(qs) : Reads(r[k], qs[k])
  BY <1>a DEF MessageOf
<1>2. h \in Nat /\ Len(D) \in Nat /\ h <= Len(D) /\ IsSeq(qs)
  BY LenIs DEF Drawings, AllConvey
<1>3. ASSUME NEW k \in 1..Len(qs)
      PROVE  r[k].sentAt \in 1..h /\ Seen(r[k], D[r[k].sentAt]) /\ r[k].sentAt = qs[k].sentAt
  <2>1. qs[k].sentAt \in 1..h /\ Conveys(qs[k], D[qs[k].sentAt])
    BY DEF AllConvey
  <2>2. qs[k].sentAt \in 1..Len(D)
    BY <1>2, <2>1
  <2>3. Sendable(D[qs[k].sentAt])
    BY <2>2 DEF Drawings
  <2>4. Reads(r[k], qs[k]) /\ r[k].sentAt = qs[k].sentAt
    BY <1>1 DEF Reads
  <2>5. Seen(r[k], D[qs[k].sentAt])
    BY <2>1, <2>3, <2>4, ReadsSeen
  <2> QED
    BY <2>1, <2>4, <2>5
<1>4. AllSeen(r, h, D)
  BY <1>1, <1>3 DEF AllSeen
<1>5. /\ IsSeq(Numbers(r)) /\ Len(Numbers(r)) = Len(r)
      /\ \A i \in 1..Len(r) : Numbers(r)[i] = r[i].sentAt
  BY <1>1, NumbersIs
<1>6. /\ IsSeq(Numbers(qs)) /\ Len(Numbers(qs)) = Len(qs)
      /\ \A i \in 1..Len(qs) : Numbers(qs)[i] = qs[i].sentAt
  BY <1>2, NumbersIs
<1>7. Numbers(r) = Numbers(qs)
  BY <1>1, <1>3, <1>5, <1>6, SameSeq
<1> QED
  BY <1>a, <1>4, <1>7

\* Envelopes put behind others, and taken in two parts.
LEMMA ConveyMore ==
    ASSUME NEW h, NEW D, NEW qs, AllConvey(qs, h, D), NEW q, q.sentAt \in 1..h,
           Conveys(q, D[q.sentAt])
    PROVE  AllConvey(Append(qs, q), h, D)
<1>a. PICK u : u = Append(qs, q)
  OBVIOUS
<1>1. IsSeq(qs) /\ Len(qs) \in Nat
  BY LenIs DEF AllConvey
<1>2. /\ IsSeq(u) /\ Len(u) = Len(qs) + 1 /\ u[Len(qs) + 1] = q
      /\ \A i \in 1..Len(qs) : u[i] = qs[i]
  BY <1>a, <1>1, AppendIs DEF Appends
<1>3. \A i \in 1..Len(u) : i \in 1..Len(qs) \/ i = Len(qs) + 1
  BY <1>1, <1>2
<1>4. AllConvey(u, h, D)
  BY <1>2, <1>3 DEF AllConvey
<1> QED
  BY <1>a, <1>4

\* The two parts of s, which are joined.
LEMMA ConveyParts ==
    ASSUME NEW h, NEW D, NEW p, NEW q, IsSeq(p), IsSeq(q), AllConvey(p \o q, h, D)
    PROVE  AllConvey(p, h, D) /\ AllConvey(q, h, D)
<1>a. PICK s : s = p \o q
  OBVIOUS
<1>1. Joins(s, p, q) /\ Len(p) \in Nat /\ Len(q) \in Nat
  BY <1>a, JoinedSeq, LenIs, Zenon
<1>2. \A k \in 1..Len(s) : s[k].sentAt \in 1..h /\ Conveys(s[k], D[s[k].sentAt])
  BY <1>a DEF AllConvey
<1>3. \A i \in 1..Len(p) : p[i] = s[i] /\ i \in 1..Len(s)
  BY <1>1 DEF Joins
<1>4. \A i \in 1..Len(q) : q[i] = s[Len(p) + i] /\ Len(p) + i \in 1..Len(s)
  BY <1>1 DEF Joins
<1>5. AllConvey(p, h, D)
  BY <1>2, <1>3 DEF AllConvey
<1>6. AllConvey(q, h, D)
  BY <1>2, <1>4 DEF AllConvey
<1> QED
  BY <1>5, <1>6

\* What was shown and what comes after it.
LEMMA SeenMore ==
    ASSUME NEW h, NEW D, NEW p, NEW q, AllSeen(p, h, D), AllSeen(q, h, D)
    PROVE  AllSeen(p \o q, h, D)
<1>a. PICK s : s = p \o q
  OBVIOUS
<1>1. IsSeq(p) /\ IsSeq(q)
  BY DEF AllSeen
<1>2. IsSeq(s) /\ Joins(s, p, q) /\ Len(p) \in Nat /\ Len(q) \in Nat
  BY <1>a, <1>1, JoinedSeq, LenIs, Zenon
<1>3. ASSUME NEW i \in 1..Len(s) PROVE s[i].sentAt \in 1..h /\ Seen(s[i], D[s[i].sentAt])
  <2>1. CASE i <= Len(p)
    <3>1. i \in 1..Len(p)
      BY <1>2, <2>1 DEF Joins
    <3>2. s[i] = p[i]
      BY <1>2, <3>1 DEF Joins
    <3> QED
      BY <3>1, <3>2 DEF AllSeen
  <2>2. CASE ~(i <= Len(p))
    <3>1. PICK j : j = i - Len(p)
      OBVIOUS
    <3>2. j \in 1..Len(q) /\ Len(p) + j = i
      BY <1>2, <2>2, <3>1 DEF Joins
    <3>3. s[i] = q[j]
      BY <1>2, <3>2 DEF Joins
    <3> QED
      BY <3>2, <3>3 DEF AllSeen
  <2> QED
    BY <2>1, <2>2
<1>4. AllSeen(s, h, D)
  BY <1>2, <1>3 DEF AllSeen
<1> QED
  BY <1>a, <1>4

-----------------------------------------------------------------------------
(* Messages under way *)

\* The numbers of the previews under way.
Sailing(ms) == FlattenSeq([i \in DOMAIN ms |-> Numbers(ReadMessage(ms[i].cells))])

\* The numbers of the messages, one list for each.
LEMMA SailingIs ==
    ASSUME NEW h, NEW D, NEW ms, AllReadable(ms, h, D)
    PROVE  \E ss : /\ Sailing(ms) = FlattenSeq(ss) /\ ss = [i \in 1..Len(ms) |-> ss[i]]
                   /\ \A i \in 1..Len(ms) : /\ ss[i] = Numbers(ReadMessage(ms[i].cells))
                                            /\ IsSeq(ss[i])
<1> DEFINE ss == [i \in DOMAIN ms |-> Numbers(ReadMessage(ms[i].cells))]
<1>1. DOMAIN ms = 1..Len(ms)
  BY LenIs DEF AllReadable
<1>2. ss = [i \in 1..Len(ms) |-> ss[i]]
  BY <1>1
<1>3. \A i \in 1..Len(ms) : ss[i] = Numbers(ReadMessage(ms[i].cells))
  BY <1>1
<1>4. Sailing(ms) = FlattenSeq(ss)
  BY DEF Sailing
<1> HIDE DEF ss
<1>5. \A i \in 1..Len(ms) : IsSeq(ReadMessage(ms[i].cells))
  BY DEF AllReadable, AllSeen
<1>6. \A i \in 1..Len(ms) : IsSeq(ss[i])
  BY <1>3, <1>5, NumbersIs
<1> QED
  BY <1>2, <1>3, <1>4, <1>6

\* They are a sequence.
LEMMA SailingSeq ==
    ASSUME NEW h, NEW D, NEW ms, AllReadable(ms, h, D)
    PROVE  IsSeq(Sailing(ms))
<1>1. PICK ss : /\ Sailing(ms) = FlattenSeq(ss) /\ ss = [i \in 1..Len(ms) |-> ss[i]]
                /\ \A i \in 1..Len(ms) : /\ ss[i] = Numbers(ReadMessage(ms[i].cells))
                                         /\ IsSeq(ss[i])
  BY SailingIs
<1>2. PICK n : n = Len(ms)
  OBVIOUS
<1>3. n \in Nat
  BY <1>2, LenIs DEF AllReadable
<1>4. CASE n = 0
  <2>1. IsSeq(ss) /\ Len(ss) = 0
    BY <1>1, <1>2, <1>3, <1>4, ListIs
  <2> QED
    BY <1>1, <2>1, FlattenEmpty, EmptyIs
<1>5. CASE n # 0
  <2>1. n \in Nat \ {0} /\ n \in 1..n
    BY <1>3, <1>5
  <2>2. PICK g : JoinsUpTo(g, ss, n)
    BY <1>1, <1>2, <2>1, FlattenRuns
  <2> QED
    BY <1>1, <2>1, <2>2 DEF JoinsUpTo
<1> QED
  BY <1>4, <1>5

\* With the message m behind them, ms can be read and its previews come last.
SailsBehind(ms, m, h, D) ==
    /\ AllReadable(Append(ms, m), h, D)
    /\ Sailing(Append(ms, m)) = Sailing(ms) \o Numbers(ReadMessage(m.cells))

\* One message more.
LEMMA SailsMore ==
    ASSUME NEW h, NEW D, NEW ms, AllReadable(ms, h, D), NEW m, AllSeen(ReadMessage(m.cells), h, D)
    PROVE  SailsBehind(ms, m, h, D)
<1>a. PICK mm : mm = Append(ms, m)
  OBVIOUS
<1>b. PICK n : n = Len(ms)
  OBVIOUS
<1>1. IsSeq(ms) /\ n \in Nat
  BY <1>b, LenIs DEF AllReadable
<1>2. /\ IsSeq(mm) /\ Len(mm) = n + 1 /\ mm[n + 1] = m /\ \A i \in 1..n : mm[i] = ms[i]
  BY <1>a, <1>b, <1>1, AppendIs DEF Appends
<1>3. \A i \in 1..Len(mm) : i \in 1..n \/ i = n + 1
  BY <1>1, <1>2
<1>4. AllReadable(mm, h, D)
  BY <1>b, <1>2, <1>3 DEF AllReadable
<1>5. PICK ss : /\ Sailing(ms) = FlattenSeq(ss) /\ ss = [i \in 1..n |-> ss[i]]
                /\ \A i \in 1..n : ss[i] = Numbers(ReadMessage(ms[i].cells)) /\ IsSeq(ss[i])
  BY <1>b, SailingIs
<1>6. PICK tt : /\ Sailing(mm) = FlattenSeq(tt) /\ tt = [i \in 1..(n + 1) |-> tt[i]]
                /\ \A i \in 1..(n + 1) : tt[i] = Numbers(ReadMessage(mm[i].cells)) /\ IsSeq(tt[i])
  <2>1. PICK L : L = Len(mm)
    OBVIOUS
  <2>2. \E tt : /\ Sailing(mm) = FlattenSeq(tt) /\ tt = [i \in 1..L |-> tt[i]]
                /\ \A i \in 1..L : tt[i] = Numbers(ReadMessage(mm[i].cells)) /\ IsSeq(tt[i])
    BY <1>4, <2>1, SailingIs
  <2>3. L = n + 1
    BY <1>2, <2>1
  <2> QED
    BY <2>2, <2>3
<1>7. \A i \in 1..n : i \in 1..(n + 1)
  BY <1>1
<1>8. \A i \in 1..n : ss[i] = tt[i]
  BY <1>2, <1>5, <1>6, <1>7
<1>9. n + 1 \in 1..(n + 1)
  BY <1>1
<1>10. tt[n + 1] = Numbers(ReadMessage(m.cells))
  BY <1>2, <1>6, <1>9
<1>11. \A i \in 1..(n + 1) : IsSeq(tt[i])
  BY <1>6
<1>12. FlattenSeq(tt) = FlattenSeq(ss) \o tt[n + 1] /\ IsSeq(FlattenSeq(ss))
  BY <1>1, <1>5, <1>6, <1>8, <1>11, FlattenMore, ZenonT(30)
<1> QED
  BY <1>a, <1>4, <1>5, <1>6, <1>10, <1>12 DEF SailsBehind

\* One message less.
LEMMA SailsOn ==
    ASSUME NEW h, NEW D, NEW ms, AllReadable(ms, h, D), NEW i \in 1..Len(ms)
    PROVE  /\ AllReadable(RemoveAt(ms, i), h, D)
           /\ \A k \in 1..Len(RemoveAt(ms, i)) : \E j \in 1..Len(ms) : RemoveAt(ms, i)[k] = ms[j]
<1>a. PICK r : r = RemoveAt(ms, i)
  OBVIOUS
<1>b. PICK n : n = Len(ms)
  OBVIOUS
<1>1. IsSeq(ms) /\ n \in Nat
  BY <1>b, LenIs DEF AllReadable
<1>2. IsSeq(r) /\ Len(r) = n - 1 /\ \A k \in 1..(n - 1) : r[k] = IF k < i THEN ms[k] ELSE ms[k + 1]
  BY <1>a, <1>b, <1>1, RemovedIs
<1>3. ASSUME NEW k \in 1..Len(r) PROVE \E j \in 1..n : r[k] = ms[j]
  <2>1. k \in 1..(n - 1) /\ k \in 1..n /\ k + 1 \in 1..n
    BY <1>1, <1>2
  <2> QED
    BY <1>2, <2>1
<1>4. AllReadable(r, h, D)
  BY <1>b, <1>2, <1>3 DEF AllReadable
<1> QED
  BY <1>a, <1>b, <1>3, <1>4

\* The first message arrives.
LEMMA SailsFirst ==
    ASSUME NEW h, NEW D, NEW ms, AllReadable(ms, h, D), 1 \in 1..Len(ms)
    PROVE  /\ Sailing(ms) = Numbers(ReadMessage(ms[1].cells)) \o Sailing(RemoveAt(ms, 1))
           /\ IsSeq(Sailing(RemoveAt(ms, 1)))
<1>a. PICK r : r = RemoveAt(ms, 1)
  OBVIOUS
<1>1. IsSeq(ms) /\ Len(ms) \in Nat /\ Len(ms) >= 1
  BY LenIs DEF AllReadable
<1>b. PICK n : n = Len(ms) - 1
  OBVIOUS
<1>2. n \in Nat /\ Len(ms) = n + 1
  BY <1>b, <1>1
<1>3. IsSeq(r) /\ Len(r) = n /\ \A k \in 1..n : r[k] = IF k < 1 THEN ms[k] ELSE ms[k + 1]
  BY <1>a, <1>b, <1>1, RemovedIs
<1>4. \A k \in 1..n : r[k] = ms[k + 1] /\ k + 1 \in 1..(n + 1)
  BY <1>2, <1>3
<1>5. AllReadable(r, h, D)
  BY <1>a, SailsOn
<1>6. PICK ss : /\ Sailing(r) = FlattenSeq(ss) /\ ss = [i \in 1..n |-> ss[i]]
                /\ \A i \in 1..n : ss[i] = Numbers(ReadMessage(r[i].cells)) /\ IsSeq(ss[i])
  BY <1>3, <1>5, SailingIs
<1>7. PICK tt : /\ Sailing(ms) = FlattenSeq(tt) /\ tt = [i \in 1..(n + 1) |-> tt[i]]
                /\ \A i \in 1..(n + 1) : tt[i] = Numbers(ReadMessage(ms[i].cells)) /\ IsSeq(tt[i])
  <2>1. PICK L : L = Len(ms)
    OBVIOUS
  <2>2. \E tt : /\ Sailing(ms) = FlattenSeq(tt) /\ tt = [i \in 1..L |-> tt[i]]
                /\ \A i \in 1..L : tt[i] = Numbers(ReadMessage(ms[i].cells)) /\ IsSeq(tt[i])
    BY <2>1, SailingIs
  <2>3. L = n + 1
    BY <1>2, <2>1
  <2> QED
    BY <2>2, <2>3
<1>8. \A i \in 1..n : ss[i] = tt[i + 1]
  BY <1>4, <1>6, <1>7
<1>9. tt[1] = Numbers(ReadMessage(ms[1].cells))
  BY <1>2, <1>7
<1>10. \A i \in 1..(n + 1) : IsSeq(tt[i])
  BY <1>7
<1>11. FlattenSeq(tt) = tt[1] \o FlattenSeq(ss) /\ IsSeq(FlattenSeq(ss))
  <2>1. n \in Nat
    BY <1>2
  <2>2. ss = [i \in 1..n |-> ss[i]]
    BY <1>6
  <2>3. tt = [i \in 1..(n + 1) |-> tt[i]]
    BY <1>7
  <2>4. Tails(tt, ss, n)
    BY <2>2, <2>3, <1>8, <1>10, Zenon DEF Tails
  <2> QED
    BY <2>1, <2>4, FlattenFirst, Zenon
<1> QED
  BY <1>a, <1>6, <1>7, <1>9, <1>11

-----------------------------------------------------------------------------
(* Each preview once *)

\* all is the four lists, one after the other.
Kept(all, a, b, c, d) == all = a \o b \o c \o d

\* What joins the end of the last list.
LEMMA KeptMore ==
    ASSUME NEW all, NEW a, NEW b, NEW c, NEW d, IsSeq(a), IsSeq(b), IsSeq(c), IsSeq(d),
           Kept(all, a, b, c, d), NEW x
    PROVE  Kept(Append(all, x), a, b, c, Append(d, x))
<1>1. PICK s : s = a \o b \o c
  OBVIOUS
<1>2. IsSeq(s)
  BY <1>1, JoinedSeq
<1>3. PICK one : one = <<x>>
  OBVIOUS
<1>4. IsSeq(one) /\ Len(one) = 1 /\ one[1] = x
  BY <1>3, OneIs
<1>5. ASSUME NEW t, IsSeq(t) PROVE Append(t, x) = t \o one
  <2>1. PICK u : u = Append(t, x)
    OBVIOUS
  <2>2. PICK v : v = t \o one
    OBVIOUS
  <2>3. Len(t) \in Nat /\ Appends(u, t, x)
    BY <1>5, <2>1, LenIs, AppendIs
  <2>4. IsSeq(v) /\ Joins(v, t, one)
    BY <1>4, <1>5, <2>2, JoinedSeq, Zenon
  <2>5. Len(u) = Len(v) /\ IsSeq(u)
    BY <1>4, <2>3, <2>4 DEF Appends, Joins
  <2>6. ASSUME NEW i \in 1..Len(u) PROVE u[i] = v[i]
    <3>1. i \in 1..Len(t) \/ i = Len(t) + 1
      BY <2>3 DEF Appends
    <3>2. v[Len(t) + 1] = x /\ u[Len(t) + 1] = x
      BY <1>4, <2>3, <2>4 DEF Appends, Joins
    <3>3. i \in 1..Len(t) => u[i] = v[i]
      BY <2>3, <2>4 DEF Appends, Joins
    <3> QED
      BY <3>1, <3>2, <3>3
  <2> QED
    BY <2>1, <2>2, <2>4, <2>5, <2>6, SameSeq
<1>6. all = s \o d
  BY <1>1 DEF Kept
<1>7. IsSeq(all)
  BY <1>2, <1>6, JoinedSeq
<1>8. Append(all, x) = all \o one /\ Append(d, x) = d \o one
  BY <1>5, <1>7
<1>9. Regroups(s, d, one)
  BY <1>2, <1>4, JoinedAssoc
<1>10. Append(all, x) = s \o Append(d, x)
  BY <1>6, <1>8, <1>9 DEF Regroups
<1> QED
  BY <1>1, <1>10 DEF Kept

\* What goes from the beginning of the last list to the third, which is empty.
LEMMA KeptTaken ==
    ASSUME NEW all, NEW a, NEW b, NEW t, NEW r, IsSeq(a), IsSeq(b), IsSeq(t), IsSeq(r),
           Kept(all, a, b, <<>>, t \o r)
    PROVE  Kept(all, a, b, t, r)
<1>1. PICK s : s = a \o b
  OBVIOUS
<1>2. IsSeq(s) /\ s \o <<>> = s
  BY <1>1, JoinedSeq, JoinedEmpty
<1>3. all = s \o (t \o r)
  BY <1>1, <1>2 DEF Kept
<1>4. Regroups(s, t, r)
  BY <1>2, JoinedAssoc
<1>5. all = (s \o t) \o r
  BY <1>3, <1>4 DEF Regroups
<1> QED
  BY <1>1, <1>5 DEF Kept

\* From the third to the second.
LEMMA KeptWritten ==
    ASSUME NEW all, NEW a, NEW b, NEW t, NEW c, NEW d, IsSeq(a), IsSeq(b), IsSeq(t), IsSeq(c),
           IsSeq(d), Kept(all, a, b, t \o c, d)
    PROVE  Kept(all, a, b \o t, c, d)
<1>1. PICK s : s = a \o b
  OBVIOUS
<1>2. IsSeq(s)
  BY <1>1, JoinedSeq
<1>3. all = (s \o (t \o c)) \o d
  BY <1>1 DEF Kept
<1>4. Regroups(s, t, c) /\ Regroups(a, b, t)
  BY <1>2, JoinedAssoc
<1>5. s \o t = a \o (b \o t)
  BY <1>1, <1>4 DEF Regroups
<1>6. all = ((s \o t) \o c) \o d
  BY <1>3, <1>4 DEF Regroups
<1>7. all = ((a \o (b \o t)) \o c) \o d
  BY <1>5, <1>6
<1> QED
  BY <1>7 DEF Kept

\* From the second to the first.
LEMMA KeptShown ==
    ASSUME NEW all, NEW a, NEW b, NEW t, NEW c, NEW d, IsSeq(a), IsSeq(b), IsSeq(t), IsSeq(c),
           IsSeq(d), Kept(all, a, t \o b, c, d)
    PROVE  Kept(all, a \o t, b, c, d)
<1>1. Regroups(a, t, b)
  BY JoinedAssoc
<1>2. all = ((a \o (t \o b)) \o c) \o d
  BY DEF Kept
<1>3. all = (((a \o t) \o b) \o c) \o d
  BY <1>1, <1>2 DEF Regroups
<1> QED
  BY <1>3 DEF Kept

-----------------------------------------------------------------------------
(* The server and the recipient *)

\* On a socket everything goes by the stream.
SocketStream == transport = "ws" => \A i \in 1..Len(down) : down[i].via = "stream"

\* The inductive invariant of the server and the recipient: what waits, what is
\* under way and what was shown are previews that were handed over.
RelayInv ==
    /\ AllConvey(queue, handed, drawn) /\ AllConvey(batch, handed, drawn)
    /\ AllReadable(down, handed, drawn) /\ AllSeen(shown, handed, drawn)
    /\ SocketStream /\ BatchKeepsAll

\* What the stream's invariant says of the previews drawn.
LEMMA DrawnAre == WireInv => Drawings(handed, drawn)
  BY DEF WireInv, WireTypes, Drawings, Framed

\* On a socket, the previews queued are those shown, under way, in the batch and
\* in the queue.
LEMMA KeptIs ==
    BatchKeepsAll <=> (transport = "ws" =>
        Kept(queued, Numbers(shown), Sailing(down), Numbers(batch), Numbers(queue)))
  BY DEF BatchKeepsAll, Kept, Sailing

\* All four lists are sequences.
LEMMA ListsAre ==
    ASSUME RelayInv
    PROVE  /\ IsSeq(Numbers(shown)) /\ IsSeq(Sailing(down)) /\ IsSeq(Numbers(batch))
           /\ IsSeq(Numbers(queue)) /\ IsSeq(queue) /\ IsSeq(batch) /\ IsSeq(down)
           /\ IsSeq(shown)
<1>1. IsSeq(queue) /\ IsSeq(batch) /\ IsSeq(down) /\ IsSeq(shown)
  BY DEF RelayInv, AllConvey, AllReadable, AllSeen
<1>2. IsSeq(Numbers(shown)) /\ IsSeq(Numbers(batch)) /\ IsSeq(Numbers(queue))
  BY <1>1, NumbersIs
<1>3. IsSeq(Sailing(down))
  <2>1. AllReadable(down, handed, drawn)
    BY DEF RelayInv
  <2> QED
    BY <2>1, SailingSeq
<1> QED
  BY <1>1, <1>2, <1>3

\* Steps of the sender's side: more is drawn or handed over.
LEMMA SenderSteps ==
    ASSUME WireInv, RelayInv, UNCHANGED <<queue, queued, transport, batch, down, shown>>,
           handed' \in Nat, handed <= handed', AgreeUpTo(drawn, drawn', Len(drawn))
    PROVE  RelayInv'
<1>1. Drawings(handed, drawn)
  BY DrawnAre
<1>2. /\ \A qs : AllConvey(qs, handed, drawn) => AllConvey(qs, handed', drawn')
      /\ \A ss : AllSeen(ss, handed, drawn) => AllSeen(ss, handed', drawn')
      /\ \A ms : AllReadable(ms, handed, drawn) => AllReadable(ms, handed', drawn')
  BY <1>1, MoreDrawn
<1>3. /\ AllConvey(queue, handed', drawn') /\ AllConvey(batch, handed', drawn')
      /\ AllReadable(down, handed', drawn') /\ AllSeen(shown, handed', drawn')
  BY <1>2 DEF RelayInv
<1>4. SocketStream' /\ BatchKeepsAll'
  BY DEF RelayInv, SocketStream, BatchKeepsAll
<1> QED
  BY <1>3, <1>4 DEF RelayInv

\* A message more, by the stream on a socket.
LEMMA StreamMore ==
    ASSUME SocketStream, IsSeq(down), NEW m, transport = "ws" => m.via = "stream",
           down' = Append(down, m), transport' = transport
    PROVE  SocketStream'
<1>1. Len(down) \in Nat
  BY LenIs
<1>2. /\ Len(down') = Len(down) + 1 /\ down'[Len(down) + 1] = m
      /\ \A i \in 1..Len(down) : down'[i] = down[i]
  BY AppendIs DEF Appends
<1>3. \A i \in 1..Len(down') : i \in 1..Len(down) \/ i = Len(down) + 1
  BY <1>1, <1>2
<1> QED
  BY <1>2, <1>3 DEF SocketStream

\* handleClientFrame decodes what was handed over: as it was drawn, or as one
\* trip over the wire makes of it.
LEMMA FrameDecodes ==
    ASSUME WireInv, HandleFrame
    PROVE  \E x : /\ x.code = drawn[handed].code
                  /\ x.payload \in {drawn[handed].payload,
                                    Canon(drawn[handed].code, drawn[handed].payload)}
                  /\ EnvelopeSeq(x.seq) = EnvelopeSeq(drawn[handed].seq)
                  /\ queue' = Append(queue, Stamped(x)) /\ queued' = Append(queued, handed)
<1>1. PICK e : e = drawn[handed]
  OBVIOUS
<1>2. rpc = "frame"
  BY DEF HandleFrame
<1>3. hand = ClientFrame(e) /\ handed \in 1..Len(drawn)
  BY <1>1, <1>2 DEF WireInv, FramesWhole, WireTypes
<1>4. Sendable(e)
  BY <1>1, <1>3 DEF WireInv, WireTypes, Framed
<1>5. CASE EncodeClientFrame(e).ok
  <2>1. hand = EncodeClientFrame(e).cells
    BY <1>3, <1>5, Zenon DEF ClientFrame, CompactOr
  <2>2. IsBinaryFrame(hand) /\ DecodeClientFrame(hand) = Arrives(e)
    BY <1>4, <1>5, <2>1, ClientFrameRead, Zenon
  <2>3. Publish(Arrives(e))
    BY <2>2, Zenon DEF HandleFrame
  <2>4. PICK x : x = Arrives(e)
    OBVIOUS
  <2>5. x.ok /\ x.code = e.code /\ x.payload = Canon(e.code, e.payload)
    BY <2>4 DEF Arrives
  <2>6. x.seq = IF EnvelopeSeq(e.seq) = 0 THEN Absent ELSE EnvelopeSeq(e.seq)
    BY <2>4 DEF Arrives
  <2>7. Absent # 0
    BY LimitAssumption
  <2>8. EnvelopeSeq(x.seq) = EnvelopeSeq(e.seq)
    BY <2>6, <2>7 DEF EnvelopeSeq
  <2>9. queue' = Append(queue, Stamped(x)) /\ queued' = Append(queued, handed)
    BY <2>3, <2>4, <2>5, Zenon DEF Publish
  <2> QED
    BY <1>1, <2>5, <2>8, <2>9
<1>6. CASE ~EncodeClientFrame(e).ok
  <2>1. hand = <<e>>
    BY <1>3, <1>6, Zenon DEF ClientFrame, CompactOr
  <2>2. Len(hand) = 1 /\ hand[1] = e
    BY <2>1, OneIs
  <2>3. ~IsBinaryFrame(hand)
    BY <2>2 DEF IsBinaryFrame, HeaderSize
  <2>4. Publish(Parsed(e))
    BY <2>2, <2>3, Zenon DEF HandleFrame
  <2>5. PICK x : x = Parsed(e)
    OBVIOUS
  <2>6. x.ok /\ x.code = e.code /\ x.payload = e.payload /\ x.seq = e.seq
    BY <2>5 DEF Parsed
  <2>7. queue' = Append(queue, Stamped(x)) /\ queued' = Append(queued, handed)
    BY <2>4, <2>5, <2>6, Zenon DEF Publish
  <2> QED
    BY <1>1, <2>6, <2>7
<1> QED
  BY <1>5, <1>6

\* handleClientFrame queues the preview, stamped.
LEMMA HandleKeeps ==
    ASSUME WireInv, RelayInv, HandleFrame
    PROVE  RelayInv'
<1>1. PICK x : /\ x.code = drawn[handed].code
               /\ x.payload \in {drawn[handed].payload,
                                 Canon(drawn[handed].code, drawn[handed].payload)}
               /\ EnvelopeSeq(x.seq) = EnvelopeSeq(drawn[handed].seq)
               /\ queue' = Append(queue, Stamped(x)) /\ queued' = Append(queued, handed)
  BY FrameDecodes
<1>2. UNCHANGED <<drawn, handed, transport, batch, down, shown>>
  BY DEF HandleFrame, upVars, downVars
<1>3. rpc = "frame"
  BY DEF HandleFrame
<1>4. handed \in 1..Len(drawn) /\ Len(drawn) \in Nat
  BY <1>3, LenIs DEF WireInv, WireTypes
<1>5. handed \in 1..handed
  BY <1>4
<1>6. PICK q : q = Stamped(x)
  OBVIOUS
<1>7. q.sentAt = handed /\ Conveys(q, drawn[handed])
  BY <1>1, <1>6 DEF Stamped, Conveys
<1>8. AllConvey(queue, handed, drawn)
  BY DEF RelayInv
<1>9. AllConvey(queue', handed, drawn)
  BY <1>1, <1>5, <1>6, <1>7, <1>8, ConveyMore
<1>10. Numbers(queue') = Append(Numbers(queue), handed)
  <2>1. IsSeq(queue) /\ IsSeq(queue') /\ Len(queue) \in Nat
    BY <1>8, <1>9, LenIs DEF AllConvey
  <2>2. PICK u : u = Numbers(queue')
    OBVIOUS
  <2>3. PICK s : s = Numbers(queue)
    OBVIOUS
  <2>4. PICK v : v = Append(s, handed)
    OBVIOUS
  <2>5. /\ IsSeq(u) /\ Len(u) = Len(queue') /\ \A i \in 1..Len(queue') : u[i] = queue'[i].sentAt
    BY <2>1, <2>2, NumbersIs
  <2>6. /\ IsSeq(s) /\ Len(s) = Len(queue) /\ \A i \in 1..Len(queue) : s[i] = queue[i].sentAt
    BY <2>1, <2>3, NumbersIs
  <2>7. /\ IsSeq(v) /\ Len(v) = Len(s) + 1 /\ v[Len(s) + 1] = handed
        /\ \A i \in 1..Len(s) : v[i] = s[i]
    BY <2>4, <2>6, AppendIs DEF Appends
  <2>8. /\ Len(queue') = Len(queue) + 1 /\ queue'[Len(queue) + 1] = q
        /\ \A i \in 1..Len(queue) : queue'[i] = queue[i]
    BY <1>1, <1>6, <2>1, AppendIs DEF Appends
  <2>9. \A i \in 1..Len(u) : i \in 1..Len(queue) \/ i = Len(queue) + 1
    BY <2>1, <2>5, <2>8
  <2>10. ASSUME NEW i \in 1..Len(u) PROVE u[i] = v[i]
    <3>1. CASE i \in 1..Len(queue)
      BY <2>5, <2>6, <2>7, <2>8, <2>10, <3>1
    <3>2. CASE i = Len(queue) + 1
      BY <1>7, <2>5, <2>6, <2>7, <2>8, <2>10, <3>2
    <3> QED
      BY <2>9, <3>1, <3>2
  <2>11. u = v
    BY <2>5, <2>6, <2>7, <2>8, <2>10, SameSeq
  <2> QED
    BY <2>2, <2>3, <2>4, <2>11
<1>11. BatchKeepsAll'
  <2> SUFFICES ASSUME transport = "ws" PROVE BatchKeepsAll'
    BY <1>2 DEF BatchKeepsAll
  <2>1. Kept(queued, Numbers(shown), Sailing(down), Numbers(batch), Numbers(queue))
    BY KeptIs DEF RelayInv
  <2>2. Kept(queued', Numbers(shown), Sailing(down), Numbers(batch), Numbers(queue'))
    BY <1>1, <1>10, <2>1, ListsAre, KeptMore
  <2> QED
    BY <1>2, <2>2 DEF BatchKeepsAll, Kept, Sailing
<1> QED
  BY <1>2, <1>9, <1>11 DEF RelayInv, SocketStream

\* drainEphemeral takes a batch: as one message or to be sent one by one.
LEMMA TakeKeeps ==
    ASSUME WireInv, RelayInv, TakeBatch
    PROVE  RelayInv'
<1>1. PICK n : n = Min({Batch, Len(queue)})
  OBVIOUS
<1>2. PICK taken : taken = SubSeq(queue, 1, n)
  OBVIOUS
<1>3. PICK rest : rest = From(queue, n + 1)
  OBVIOUS
<1>4. /\ batch = <<>> /\ queue' = rest /\ SendBatch(taken, EncodeRelayAggregate(taken))
      /\ UNCHANGED <<drawn, handed, queued, transport, shown>>
  BY <1>1, <1>2, <1>3, Zenon DEF TakeBatch, RestOfQueue, upVars, readVars
<1>5. AllConvey(queue, handed, drawn) /\ IsSeq(queue) /\ Len(queue) \in Nat
  BY LenIs DEF RelayInv, AllConvey
<1>6. n \in 0..Len(queue)
  <2>1. Batch \in Int /\ Len(queue) \in Int
    BY <1>5, BatchAssumption
  <2>2. n = IF Batch <= Len(queue) THEN Batch ELSE Len(queue)
    BY <1>1, <2>1, PairIs
  <2> QED
    BY <1>5, <2>2, BatchAssumption
<1>7. IsSeq(taken) /\ IsSeq(rest) /\ taken \o rest = queue
  BY <1>2, <1>3, <1>5, <1>6, Splits DEF SplitAt
<1>8. AllConvey(taken, handed, drawn) /\ AllConvey(rest, handed, drawn)
  BY <1>5, <1>7, ConveyParts
<1>9. Numbers(queue) = Numbers(taken) \o Numbers(rest)
  BY <1>7, NumbersJoined
<1>10. IsSeq(Numbers(taken)) /\ IsSeq(Numbers(rest))
  BY <1>7, NumbersIs
<1>11. Numbers(batch) = <<>>
  <2>1. IsSeq(batch) /\ Len(batch) = 0
    BY <1>4, EmptyIs
  <2>2. IsSeq(Numbers(batch)) /\ Len(Numbers(batch)) = 0
    BY <2>1, NumbersIs
  <2> QED
    BY <2>2, EmptySeq DEF IsSeq
<1>12. transport = "ws" => Kept(queued, Numbers(shown), Sailing(down), Numbers(taken), Numbers(rest))
  <2> SUFFICES ASSUME transport = "ws"
               PROVE  Kept(queued, Numbers(shown), Sailing(down), Numbers(taken), Numbers(rest))
    OBVIOUS
  <2>1. Kept(queued, Numbers(shown), Sailing(down), <<>>, Numbers(taken) \o Numbers(rest))
    BY <1>9, <1>11, KeptIs DEF RelayInv
  <2> QED
    BY <1>10, <2>1, ListsAre, KeptTaken
<1>13. CASE batch' = taken /\ down' = down
  <2>1. BatchKeepsAll'
    BY <1>4, <1>12, <1>13 DEF BatchKeepsAll, Kept, Sailing
  <2> QED
    BY <1>4, <1>8, <1>13, <2>1 DEF RelayInv, SocketStream
<1>14. ASSUME ~(batch' = taken /\ down' = down)
       PROVE  RelayInv'
  <2>1. PICK whole : whole = EncodeRelayAggregate(taken)
    OBVIOUS
  <2>2. PICK m : m = [via |-> IF transport = "ws" THEN "stream" ELSE "datagram",
                      cells |-> whole.cells]
    OBVIOUS
  <2>3. whole.ok /\ down' = Append(down, m) /\ batch' = batch
    BY <1>4, <1>14, <2>1, <2>2, Zenon DEF SendBatch
  <2>4. m.cells = whole.cells /\ (transport = "ws" => m.via = "stream")
    BY <2>2
  <2>5. Drawings(handed, drawn)
    BY DrawnAre
  <2>6. \A k \in 1..Len(taken) : Stampable(taken[k])
    BY <1>8, <2>5, ConveyStampable
  <2>7. MessageOf(m.cells, taken)
    BY <1>7, <2>1, <2>3, <2>4, <2>6, WholeRead
  <2>8. AllSeen(ReadMessage(m.cells), handed, drawn) /\ Numbers(ReadMessage(m.cells)) = Numbers(taken)
    BY <1>8, <2>5, <2>7, MessageSeen
  <2>9. AllReadable(down, handed, drawn)
    BY DEF RelayInv
  <2>10. /\ AllReadable(down', handed, drawn)
         /\ Sailing(down') = Sailing(down) \o Numbers(taken)
    <3>1. SailsBehind(down, m, handed, drawn)
      BY <2>8, <2>9, SailsMore
    <3> QED
      BY <2>3, <2>8, <3>1 DEF SailsBehind
  <2>11. BatchKeepsAll'
    <3> SUFFICES ASSUME transport = "ws" PROVE BatchKeepsAll'
      BY <1>4 DEF BatchKeepsAll
    <3>1. Kept(queued, Numbers(shown), Sailing(down), Numbers(taken) \o <<>>, Numbers(rest))
      BY <1>10, <1>12, JoinedEmpty
    <3>2. Kept(queued, Numbers(shown), Sailing(down) \o Numbers(taken), <<>>, Numbers(rest))
      BY <1>10, <3>1, ListsAre, EmptyIs, KeptWritten
    <3>3. Kept(queued, Numbers(shown), Sailing(down'), Numbers(batch), Numbers(rest))
      BY <1>11, <2>10, <3>2
    <3> QED
      BY <1>4, <2>3, <3>3 DEF BatchKeepsAll, Kept, Sailing
  <2>12. SocketStream'
    BY <1>4, <2>3, <2>4, <2>9, StreamMore DEF RelayInv, AllReadable
  <2> QED
    BY <1>4, <1>8, <2>3, <2>10, <2>11, <2>12 DEF RelayInv
<1> QED
  BY <1>13, <1>14

\* writeOne: the next of the batch goes out, compact or as JSON.
LEMMA WriteKeeps ==
    ASSUME WireInv, RelayInv, WriteOne
    PROVE  RelayInv'
<1>1. PICK q : q = batch[1]
  OBVIOUS
<1>2. PICK rest : rest = From(batch, 2)
  OBVIOUS
<1>3. AllConvey(batch, handed, drawn) /\ IsSeq(batch) /\ batch # <<>>
  BY DEF RelayInv, AllConvey, WriteOne
<1>4. IsSeq(rest) /\ batch = <<q>> \o rest
  BY <1>1, <1>2, <1>3, HeadSplit
<1>5. PICK cells : cells = WireBytes(q)
  OBVIOUS
<1>6. PICK m : m = Message(cells)
  OBVIOUS
<1>7. /\ down' = Append(down, m) /\ batch' = rest
      /\ UNCHANGED <<drawn, handed, queue, queued, transport, shown>>
  <2>1. Head(batch) = q /\ Tail(batch) = rest
    <3>1. Head(batch) = batch[1]
      BY <1>3, HeadTailProperties DEF IsSeq
    <3>2. PICK t : t = Tail(batch)
      OBVIOUS
    <3>3. Len(batch) \in Nat /\ Len(batch) # 0
      BY <1>3, LenIs, EmptySeq DEF IsSeq
    <3>4. /\ t \in Seq(CellsOf(batch)) /\ Len(t) = Len(batch) - 1
          /\ \A i \in 1..Len(t) : t[i] = batch[i + 1]
      BY <1>3, <3>2, HeadTailProperties DEF IsSeq
    <3>5. Part(rest, batch, 2, Len(batch))
      BY <1>2, <1>3, <3>3, PartIs DEF From
    <3>6. Len(rest) = Len(batch) - 1 /\ \A i \in 1..(Len(batch) - 1) : rest[i] = batch[i + 1]
      <4>1. Len(rest) = Len(batch) - 2 + 1
        BY <3>5 DEF Part
      <4>2. \A i \in 1..(Len(batch) - 2 + 1) : rest[i] = batch[2 + i - 1]
        BY <3>5 DEF Part
      <4> QED
        BY <3>3, <4>1, <4>2
    <3>7. IsSeq(t)
      BY <3>4, SeqIs
    <3>8. t = rest
      BY <1>4, <3>4, <3>6, <3>7, SameSeq
    <3> QED
      BY <1>1, <3>1, <3>2, <3>8
  <2> QED
    BY <1>5, <1>6, <2>1, Zenon DEF WriteOne, upVars, readVars
<1>8. m.cells = cells /\ (transport = "ws" => m.via = "stream")
  BY <1>6 DEF Message
<1>9. cells = <<q>> \/ cells = CompactOr(q, EncodeRelayFrame(q))
  BY <1>5, Zenon DEF WireBytes
<1>10. PICK one : one = <<q>>
  OBVIOUS
<1>11. IsSeq(one) /\ Len(one) = 1 /\ one[1] = q
  BY <1>10, OneIs
<1>12. AllConvey(one, handed, drawn) /\ AllConvey(rest, handed, drawn)
  BY <1>3, <1>4, <1>10, <1>11, ConveyParts
<1>13. Drawings(handed, drawn)
  BY DrawnAre
<1>14. Stampable(q)
  <2>1. \A k \in 1..Len(one) : Stampable(one[k])
    BY <1>12, <1>13, ConveyStampable
  <2> QED
    BY <1>11, <2>1
<1>15. MessageOf(cells, one)
  BY <1>9, <1>10, <1>14, SingleRead, Zenon
<1>16. AllSeen(ReadMessage(cells), handed, drawn) /\ Numbers(ReadMessage(cells)) = Numbers(one)
  BY <1>12, <1>13, <1>15, MessageSeen
<1>17. AllReadable(down, handed, drawn)
  BY DEF RelayInv
<1>18. AllReadable(down', handed, drawn) /\ Sailing(down') = Sailing(down) \o Numbers(one)
  <2>1. SailsBehind(down, m, handed, drawn)
    BY <1>8, <1>16, <1>17, SailsMore
  <2> QED
    BY <1>7, <1>8, <1>16, <2>1 DEF SailsBehind
<1>19. BatchKeepsAll'
  <2> SUFFICES ASSUME transport = "ws" PROVE BatchKeepsAll'
    BY <1>7 DEF BatchKeepsAll
  <2>1. Numbers(batch) = Numbers(one) \o Numbers(rest)
    BY <1>4, <1>10, <1>11, NumbersJoined
  <2>2. IsSeq(Numbers(one)) /\ IsSeq(Numbers(rest))
    BY <1>4, <1>11, NumbersIs
  <2>3. Kept(queued, Numbers(shown), Sailing(down), Numbers(one) \o Numbers(rest), Numbers(queue))
    BY <2>1, KeptIs DEF RelayInv
  <2>4. Kept(queued, Numbers(shown), Sailing(down) \o Numbers(one), Numbers(rest), Numbers(queue))
    BY <2>2, <2>3, ListsAre, KeptWritten
  <2>5. Kept(queued, Numbers(shown), Sailing(down'), Numbers(rest), Numbers(queue))
    BY <1>18, <2>4
  <2> QED
    BY <1>7, <2>5 DEF BatchKeepsAll, Kept, Sailing
<1>20. SocketStream'
  BY <1>7, <1>8, <1>17, StreamMore DEF RelayInv, AllReadable
<1> QED
  BY <1>7, <1>12, <1>18, <1>19, <1>20 DEF RelayInv

\* A message is lost or read: on a socket none is lost, and the first is read.
LEMMA ArriveKeeps ==
    ASSUME WireInv, RelayInv, NEW i \in DOMAIN down, Lose(i) \/ Receive(i)
    PROVE  RelayInv'
<1>1. AllReadable(down, handed, drawn) /\ IsSeq(down) /\ Len(down) \in Nat /\ i \in 1..Len(down)
  BY LenIs DEF RelayInv, AllReadable
<1>2. /\ UNCHANGED <<drawn, handed, queue, queued, transport, batch>>
      /\ down' = RemoveAt(down, i)
  BY DEF Lose, Receive, upVars, readVars
<1>3. /\ AllReadable(down', handed, drawn)
      /\ \A k \in 1..Len(down') : \E j \in 1..Len(down) : down'[k] = down[j]
  <2>1. /\ AllReadable(RemoveAt(down, i), handed, drawn)
        /\ \A k \in 1..Len(RemoveAt(down, i)) : \E j \in 1..Len(down) : RemoveAt(down, i)[k] = down[j]
    BY <1>1, SailsOn
  <2> QED
    BY <1>2, <2>1
<1>4. SocketStream'
  BY <1>2, <1>3 DEF RelayInv, SocketStream
<1>5. CASE Lose(i)
  <2>1. transport # "ws" /\ shown' = shown
    BY <1>1, <1>5 DEF Lose, RelayInv, SocketStream
  <2>2. BatchKeepsAll'
    BY <1>2, <2>1 DEF BatchKeepsAll
  <2> QED
    BY <1>2, <1>3, <1>4, <2>1, <2>2 DEF RelayInv
<1>6. CASE Receive(i)
  <2>1. PICK r : r = ReadMessage(down[i].cells)
    OBVIOUS
  <2>2. shown' = shown \o r
    BY <1>6, <2>1 DEF Receive
  <2>3. AllSeen(r, handed, drawn) /\ AllSeen(shown, handed, drawn)
    BY <1>1, <2>1 DEF RelayInv, AllReadable
  <2>4. AllSeen(shown', handed, drawn)
    BY <2>2, <2>3, SeenMore
  <2>5. BatchKeepsAll'
    <3> SUFFICES ASSUME transport = "ws" PROVE BatchKeepsAll'
      BY <1>2 DEF BatchKeepsAll
    <3>1. \A j \in 1..Len(down) : down[j].via = "stream"
      BY DEF RelayInv, SocketStream
    <3>2. i = 1
      <4> SUFFICES ASSUME i # 1 PROVE FALSE
        OBVIOUS
      <4>1. 1 \in 1..(i - 1) /\ 1 \in 1..Len(down)
        BY <1>1
      <4>2. down[1].via = "datagram"
        BY <1>1, <1>6, <3>1, <4>1 DEF Receive
      <4> QED
        BY <3>1, <4>1, <4>2
    <3>3. /\ Sailing(down) = Numbers(r) \o Sailing(down') /\ IsSeq(Sailing(down'))
      <4>1. /\ Sailing(down) = Numbers(ReadMessage(down[1].cells)) \o Sailing(RemoveAt(down, 1))
            /\ IsSeq(Sailing(RemoveAt(down, 1)))
        BY <1>1, <3>2, SailsFirst
      <4> QED
        BY <1>2, <2>1, <3>2, <4>1
    <3>4. IsSeq(r) /\ IsSeq(shown)
      BY <2>3 DEF AllSeen
    <3>5. Numbers(shown') = Numbers(shown) \o Numbers(r) /\ IsSeq(Numbers(r))
      BY <2>2, <3>4, NumbersJoined, NumbersIs
    <3>6. Kept(queued, Numbers(shown), Numbers(r) \o Sailing(down'), Numbers(batch), Numbers(queue))
      BY <3>3, KeptIs DEF RelayInv
    <3>7. Kept(queued, Numbers(shown) \o Numbers(r), Sailing(down'), Numbers(batch), Numbers(queue))
      BY <3>3, <3>5, <3>6, ListsAre, KeptShown
    <3> QED
      BY <1>2, <3>5, <3>7 DEF BatchKeepsAll, Kept, Sailing
  <2> QED
    BY <1>2, <1>3, <1>4, <2>4, <2>5 DEF RelayInv
<1> QED
  BY <1>5, <1>6

\* Every step keeps the invariant of the server and the recipient.
LEMMA NextRelayInv == WireInv /\ RelayInv /\ [Next]_vars => RelayInv'
<1> SUFFICES ASSUME WireInv, RelayInv, [Next]_vars PROVE RelayInv'
  OBVIOUS
<1>1. handed \in Nat /\ IsSeq(drawn) /\ Len(drawn) \in Nat
  BY LenIs DEF WireInv, WireTypes
<1>2. AgreeUpTo(drawn, drawn, Len(drawn))
  BY DEF AgreeUpTo
<1>3. ASSUME EnableBinaryFrames \/ EnableBinaryAggregates \/ StreamEnds \/ ReadPrefix
             \/ UNCHANGED vars
      PROVE  RelayInv'
  <2>1. UNCHANGED <<drawn, handed, queue, queued, transport, batch, down, shown>>
    BY <1>3 DEF EnableBinaryFrames, EnableBinaryAggregates, StreamEnds, ReadPrefix, vars,
                upVars, readVars, downVars
  <2>2. handed' \in Nat /\ handed <= handed' /\ AgreeUpTo(drawn, drawn', Len(drawn))
    BY <1>1, <1>2, <2>1
  <2> QED
    BY <2>1, <2>2, SenderSteps
<1>4. ASSUME ReadPayload PROVE RelayInv'
  <2>1. UNCHANGED <<drawn, queue, queued, transport, batch, down, shown>> /\ handed' = handed + 1
    BY <1>4 DEF ReadPayload, downVars
  <2>2. handed' \in Nat /\ handed <= handed' /\ AgreeUpTo(drawn, drawn', Len(drawn))
    BY <1>1, <1>2, <2>1
  <2> QED
    BY <2>1, <2>2, SenderSteps
<1>5. ASSUME NEW n \in 0..Len(stream), Cut(n) PROVE RelayInv'
  <2>1. UNCHANGED <<drawn, handed, queue, queued, transport, batch, down, shown>>
    BY <1>5 DEF Cut, readVars, downVars
  <2>2. handed' \in Nat /\ handed <= handed' /\ AgreeUpTo(drawn, drawn', Len(drawn))
    BY <1>1, <1>2, <2>1
  <2> QED
    BY <2>1, <2>2, SenderSteps
<1>6. ASSUME NEW d \in Drawable, Draw(d) PROVE RelayInv'
  <2>1. PICK e : drawn' = Append(drawn, e)
    BY <1>6 DEF Draw
  <2>2. UNCHANGED <<handed, queue, queued, transport, batch, down, shown>>
    BY <1>6 DEF Draw, readVars, downVars
  <2>3. AgreeUpTo(drawn, drawn', Len(drawn))
    BY <1>1, <2>1, AppendIs DEF Appends, AgreeUpTo
  <2>4. handed' \in Nat /\ handed <= handed'
    BY <1>1, <2>2
  <2> QED
    BY <2>2, <2>3, <2>4, SenderSteps
<1>7. ASSUME NEW i \in DOMAIN down, Lose(i) \/ Receive(i) PROVE RelayInv'
  BY <1>7, ArriveKeeps
<1> QED
  BY <1>3, <1>4, <1>5, <1>6, <1>7, HandleKeeps, TakeKeeps, WriteKeeps DEF Next

\* At first nothing waits and nothing was shown.
LEMMA InitRelayInv == Init => RelayInv
<1> SUFFICES ASSUME Init PROVE RelayInv
  OBVIOUS
<1>1. /\ queue = <<>> /\ queued = <<>> /\ batch = <<>> /\ down = <<>> /\ shown = <<>>
  BY DEF Init
<1>2. /\ AllConvey(<<>>, handed, drawn) /\ AllReadable(<<>>, handed, drawn)
      /\ AllSeen(<<>>, handed, drawn)
  BY EmptyIs DEF AllConvey, AllReadable, AllSeen
<1>3. SocketStream
  BY <1>1, EmptyIs DEF SocketStream
<1>4. IsSeq(<<>>) /\ Len(<<>>) = 0
  BY EmptyIs
<1>5. Numbers(<<>>) = <<>>
  <2>1. IsSeq(Numbers(<<>>)) /\ Len(Numbers(<<>>)) = 0
    BY <1>4, NumbersIs
  <2> QED
    BY <2>1, EmptySeq DEF IsSeq
<1>6. Sailing(<<>>) = <<>>
  <2>1. PICK ss : /\ Sailing(<<>>) = FlattenSeq(ss) /\ ss = [i \in 1..Len(<<>>) |-> ss[i]]
    BY <1>2, SailingIs
  <2>2. IsSeq(ss) /\ Len(ss) = 0
    BY <1>4, <2>1, ListIs
  <2> QED
    BY <2>1, <2>2, FlattenEmpty
<1>7. <<>> \o <<>> = <<>>
  BY <1>4, JoinedEmpty
<1>8. Kept(queued, Numbers(shown), Sailing(down), Numbers(batch), Numbers(queue))
  BY <1>1, <1>5, <1>6, <1>7 DEF Kept
<1>9. BatchKeepsAll
  BY <1>8, KeptIs
<1> QED
  BY <1>1, <1>2, <1>3, <1>9 DEF RelayInv

\* Whatever is shown is a preview as it was drawn: for every preview, every width
\* of a word and every order in which capabilities are learnt, compact, aggregate
\* and JSON forms lose nothing beyond the tolerances, over one trip or two, and
\* overflowing deltas come back.
THEOREM PreviewsShownAsDrawn == Spec => []ShownAsDrawn
<1>1. WireInv /\ RelayInv => ShownAsDrawn
  <2> SUFFICES ASSUME WireInv, RelayInv, NEW i \in DOMAIN shown
               PROVE  /\ shown[i].ok /\ shown[i].sentAt \in 1..handed
                      /\ shown[i].code = drawn[shown[i].sentAt].code
                      /\ shown[i].seq = EnvelopeSeq(drawn[shown[i].sentAt].seq)
                      /\ shown[i].actorId = ActorId /\ shown[i].origin = Origin
                      /\ SamePayload(shown[i].code, shown[i].payload, drawn[shown[i].sentAt].payload)
    BY Zenon DEF ShownAsDrawn
  <2>1. AllSeen(shown, handed, drawn) /\ Drawings(handed, drawn)
    BY DrawnAre DEF RelayInv
  <2>2. i \in 1..Len(shown)
    BY <2>1, LenIs DEF AllSeen
  <2>3. PICK s : s = shown[i]
    OBVIOUS
  <2>4. PICK d : d = drawn[s.sentAt]
    OBVIOUS
  <2>5. s.sentAt \in 1..handed /\ Seen(s, d)
    BY <2>1, <2>2, <2>3, <2>4 DEF AllSeen
  <2>6. s.sentAt \in 1..Len(drawn)
    BY <2>1, <2>5, LenIs DEF Drawings
  <2>7. Sendable(d)
    BY <2>1, <2>4, <2>6 DEF Drawings
  <2>8. SamePayload(s.code, s.payload, d.payload)
    BY <2>5, <2>7, SeenSame
  <2>9. s.ok /\ s.code = d.code /\ s.seq = EnvelopeSeq(d.seq) /\ s.actorId = ActorId
        /\ s.origin = Origin
    BY <2>5 DEF Seen
  <2> QED
    BY <2>3, <2>4, <2>5, <2>8, <2>9, Zenon
<1> QED
  BY <1>1, InitWireInv, NextWireInv, InitRelayInv, NextRelayInv, PTL DEF Spec

\* On a socket every preview that was queued is shown, under way, in the batch or
\* in the queue, each once and in order, whichever of its forms a batch takes.
THEOREM BatchesKeepAll == Spec => []BatchKeepsAll
<1>1. RelayInv => BatchKeepsAll
  BY DEF RelayInv
<1> QED
  BY <1>1, InitWireInv, NextWireInv, InitRelayInv, NextRelayInv, PTL DEF Spec
=============================================================================
