-------------------------------- MODULE Codec --------------------------------
(***************************************************************************)
(* The compact wire form of the four preview events, as operators.         *)
(*                                                                         *)
(* A frame is a sequence of cells.  A cell is a group of a varint, a byte, *)
(* a character, or a fixed-width integer, which the code lays out as two,  *)
(* four or eight bytes.  The width of a word, of a varint group and of the *)
(* limits are constants, so that every value of a small word is covered.   *)
(* Coordinates are in eighths, half the quantum of 0.25; rotations are in  *)
(* two-hundredths, half theirs; pressures in 1 / (2 * MaxByte).            *)
(***************************************************************************)
EXTENDS Integers, SequencesExt, FiniteSetsExt

CONSTANTS
    Cont,         \* 0x80: what a varint group holds, and the mark on all but the last
    Groups,       \* 5: the groups of a word
    LastGroup,    \* 0x10: what is left of a word for its last group
    MaxByte,      \* 255, odd
    Max16,        \* math.MaxUint16
    MaxSeq,       \* math.MaxUint32, for the sequence number
    MaxInkPoints, \* 4096
    Magic, Version,
    Absent        \* a nil pointer

ASSUME WidthAssumption ==
    /\ Cont \in Nat /\ Groups \in Nat \ {0}
    /\ LastGroup \in 2..Cont /\ LastGroup % 2 = 0
    /\ MaxByte \in Nat /\ MaxByte % 2 = 1

\* The values of a word, of its last k + 1 groups.
Capacity[k \in 0..(Groups - 1)] == IF k = 0 THEN LastGroup ELSE Cont * Capacity[k - 1]
Word == Capacity[Groups - 1]

ASSUME LimitAssumption == MaxInkPoints \in 0..(Word - 1) /\ Absent \notin Int

-----------------------------------------------------------------------------
(* writer and reader *)

\* int32 arithmetic.
Wrap(v) == ((v + Word \div 2) % Word) - Word \div 2

\* The value after k shifts by a group.
Shifted(v) ==
    LET left[k \in 0..(Groups - 1)] == IF k = 0 THEN v ELSE left[k - 1] \div Cont IN left

\* writer.varint: as few groups as hold the value, all but the last marked.
Varint(v) ==
    LET left == Shifted(v)
        n == Min({i \in 1..Groups : i = Groups \/ left[i - 1] < Cont})
    IN [i \in 1..n |-> (left[i - 1] % Cont) + (IF i < n THEN Cont ELSE 0)]

ZigZag(v) == IF v < 0 THEN (Word - 1) - ((2 * v) % Word) ELSE (2 * v) % Word

UnZigZag(u) == IF u % 2 = 0 THEN u \div 2 ELSE -(u \div 2) - 1

Text(s) == Varint(Len(s)) \o s

Write(kind, v) ==
    CASE kind = "varint" -> Varint(v)
      [] kind = "svarint" -> Varint(ZigZag(v))
      [] kind = "string" -> Text(v)
      [] kind = "optional" -> IF v = Absent THEN <<0>> ELSE <<1>> \o Text(v)
      [] kind = "cell" -> <<v>>
      [] kind = "child" -> <<Len(v)>> \o v

WriteAll(kinds, values) ==
    FlattenSeq([i \in DOMAIN kinds |-> Write(kinds[i], values[i])])

Malformed == [ok |-> FALSE]
Read(v, rest) == [ok |-> TRUE, v |-> v, rest |-> rest]
From(d, i) == SubSeq(d, i, Len(d))

ReadCell(d) == IF d = <<>> THEN Malformed ELSE Read(d[1], From(d, 2))

\* The value of groups, from the last k of them on.
Groupwise(groups) ==
    LET n == Len(groups)
        value[k \in 0..n] ==
            IF k = 0 THEN 0 ELSE (groups[n - k + 1] % Cont) + Cont * value[k - 1]
    IN value[n]

\* reader.varint: at most Groups groups, the last no wider than what is left.
ReadVarint(d) ==
    LET n == Min({i \in 1..Groups : i = Groups \/ i > Len(d) \/ d[i] < Cont}) IN
    IF \/ n > Len(d) \/ d[n] >= Cont
       \/ n = Groups /\ d[n] >= LastGroup
    THEN Malformed ELSE Read(Groupwise(SubSeq(d, 1, n)), From(d, n + 1))

\* What follows a length: that many cells.
Counted(size) ==
    IF ~size.ok \/ size.v > Len(size.rest) THEN Malformed
    ELSE Read(SubSeq(size.rest, 1, size.v), From(size.rest, size.v + 1))

Signed(u) == IF u.ok THEN Read(UnZigZag(u.v), u.rest) ELSE Malformed

ReadText(d) == Counted(ReadVarint(d))

ReadOptional(d) ==
    IF d = <<>> \/ d[1] > 1 THEN Malformed
    ELSE IF d[1] = 0 THEN Read(Absent, From(d, 2)) ELSE ReadText(From(d, 2))

\* A frame of an aggregate, behind its length, which is not 0.
ReadChild(d) ==
    IF d = <<>> \/ d[1] = 0 THEN Malformed ELSE Counted(Read(d[1], From(d, 2)))

ReadOne(kind, d) ==
    CASE kind = "varint" -> ReadVarint(d)
      [] kind = "svarint" -> Signed(ReadVarint(d))
      [] kind = "string" -> ReadText(d)
      [] kind = "optional" -> ReadOptional(d)
      [] kind = "cell" -> ReadCell(d)
      [] kind = "child" -> ReadChild(d)

\* One value more, unless it is malformed.
With(done, one) == IF one.ok THEN Read(Append(done.v, one.v), one.rest) ELSE Malformed

Further(done, kind) == IF done.ok THEN With(done, ReadOne(kind, done.rest)) ELSE Malformed

\* One after the other, up to the first that is malformed.
ReadAll(kinds, d) ==
    LET done[i \in 0..Len(kinds)] ==
            IF i = 0 THEN Read(<<>>, d) ELSE Further(done[i - 1], kinds[i])
    IN done[Len(kinds)]

-----------------------------------------------------------------------------
(* Quantities *)

\* roundLikeJavaScript on half quanta: floor(v / 2 + 1 / 2).
Quantized(v) == (v + 1) \div 2
Dequantized(q) == 2 * q

FitsSigned(v) == Quantized(v) >= -(Word \div 2) /\ Quantized(v) < Word \div 2
FitsUnsigned(v) == Quantized(v) >= 0 /\ Quantized(v) < Word

PressureByte(v) == (Max({0, Min({2 * MaxByte, v})}) + 1) \div 2

\* The middle byte stands for exactly a half, the fallback of a mouse.
Pressure(byte) == IF byte = (MaxByte + 1) \div 2 THEN MaxByte ELSE 2 * byte

-----------------------------------------------------------------------------
(* Payloads *)

\* Strings, far shorter than a word can count.
Names == {s \in Seq(Nat) : Len(s) < Word}

\* pointerPayload, inkPayload and transformPayload: coordinates are finite,
\* pressure and time pointers, a time a word.
Payloads(code) ==
    CASE code = "ink" ->
            [id : Names, points : Seq([x : Int, y : Int, p : Int \cup {Absent},
                                       t : 0..(Word - 1) \cup {Absent}])]
      [] code = "transform" ->
            [id : Names, page : Names, x : Int, y : Int, width : Int, height : Int, rotation : Int]
      [] OTHER -> [id : Names, x : Int, y : Int]

PressureFlag == 1
TimeFlag == 2
RelayFlag == 4
Has(flags, flag) == (flags \div flag) % 2 = 1

\* The differences up to each point, added as a word.
Running(f) ==
    LET at[i \in 0..Len(f)] == IF i = 0 THEN 0 ELSE (at[i - 1] + f[i]) % Word IN at

PointKinds(flags) ==
    IF Has(flags, PressureFlag) THEN <<"svarint", "svarint", "cell">> ELSE <<"svarint", "svarint">>

\* The cells of n points after their count: the points, then their times.
InkKinds(flags, n) ==
    LET width == Len(PointKinds(flags)) IN
    [j \in 1..(IF Has(flags, TimeFlag) THEN (width + 1) * n ELSE width * n) |->
        IF j <= width * n THEN PointKinds(flags)[((j - 1) % width) + 1] ELSE "varint"]

InkFlags(points) ==
    (IF points # <<>> /\ \A i \in DOMAIN points : points[i].p # Absent THEN PressureFlag ELSE 0)
    + (IF points # <<>> /\ \A i \in DOMAIN points : points[i].t # Absent THEN TimeFlag ELSE 0)

\* The latest time up to point i.
Reached(points, i) == Max({points[j].t : j \in 1..i})

\* Mutant: a difference too wide for a word stops at its end.
DifferenceClamped(to, from) == Max({-(Word \div 2), Min({Word \div 2 - 1, to - from})})

\* int32 subtraction: of two coordinates at opposite ends it overflows.
Difference(to, from) == Wrap(to - from)

Before(f, i) == IF i = 1 THEN 0 ELSE f[i - 1]

\* The values of the points, in the order of InkKinds.
InkValues(points, flags) ==
    LET n == Len(points)
        width == Len(PointKinds(flags))
        xs == [i \in 1..n |-> Quantized(points[i].x)]
        ys == [i \in 1..n |-> Quantized(points[i].y)]
        ts == [i \in 1..n |-> Reached(points, i)]
        Part(i, k) == CASE k = 1 -> Difference(xs[i], Before(xs, i))
                        [] k = 2 -> Difference(ys[i], Before(ys, i))
                        [] k = 3 -> PressureByte(points[i].p)
    IN
    [j \in DOMAIN InkKinds(flags, n) |->
        IF j <= width * n THEN Part(((j - 1) \div width) + 1, ((j - 1) % width) + 1)
        ELSE ts[j - width * n] - Before(ts, j - width * n)]

EncodeInk(payload) ==
    LET points == payload.points
        flags == InkFlags(points)
    IN
    [ok |-> /\ payload.id # <<>> /\ Len(points) <= MaxInkPoints
            /\ \A i \in DOMAIN points : FitsSigned(points[i].x) /\ FitsSigned(points[i].y),
     flags |-> flags,
     cells |-> WriteAll(<<"string", "varint">>, <<payload.id, Len(points)>>)
               \o WriteAll(InkKinds(flags, Len(points)), InkValues(points, flags))]

\* n points from the differences v.
InkPoints(flags, n, v) ==
    LET width == Len(PointKinds(flags))
        x == Running([i \in 1..n |-> v[width * (i - 1) + 1]])
        y == Running([i \in 1..n |-> v[width * (i - 1) + 2]])
        t == Running([i \in 1..n |-> v[width * n + i]])
    IN
    [i \in 1..n |->
        [x |-> Dequantized(Wrap(x[i])), y |-> Dequantized(Wrap(y[i])),
         p |-> IF Has(flags, PressureFlag) THEN Pressure(v[width * i]) ELSE Absent,
         t |-> IF Has(flags, TimeFlag) THEN t[i] ELSE Absent]]

InkOf(flags, head, body) ==
    IF body.ok
    THEN Read([id |-> head.v[1], points |-> InkPoints(flags, head.v[2], body.v)], body.rest)
    ELSE Malformed

InkAfter(flags, head) ==
    IF ~head.ok \/ head.v[1] = <<>> \/ head.v[2] > MaxInkPoints THEN Malformed
    ELSE InkOf(flags, head, ReadAll(InkKinds(flags, head.v[2]), head.rest))

DecodeInk(flags, d) == InkAfter(flags, ReadAll(<<"string", "varint">>, d))

EncodePointer(payload) ==
    [ok |-> payload.id # <<>> /\ FitsSigned(payload.x) /\ FitsSigned(payload.y),
     flags |-> 0,
     cells |-> WriteAll(<<"string", "svarint", "svarint">>,
                        <<payload.id, Quantized(payload.x), Quantized(payload.y)>>)]

PointerOf(r) ==
    IF ~r.ok \/ r.v[1] = <<>> THEN Malformed
    ELSE Read([id |-> r.v[1], x |-> Dequantized(r.v[2]), y |-> Dequantized(r.v[3])], r.rest)

DecodePointer(d) == PointerOf(ReadAll(<<"string", "svarint", "svarint">>, d))

TransformKinds ==
    <<"string", "string", "svarint", "svarint", "varint", "varint", "svarint">>

EncodeTransform(payload) ==
    [ok |-> /\ payload.id # <<>> /\ payload.page # <<>>
            /\ FitsSigned(payload.x) /\ FitsSigned(payload.y) /\ FitsSigned(payload.rotation)
            /\ FitsUnsigned(payload.width) /\ FitsUnsigned(payload.height),
     flags |-> 0,
     cells |-> WriteAll(TransformKinds,
                  <<payload.id, payload.page, Quantized(payload.x), Quantized(payload.y),
                    Quantized(payload.width), Quantized(payload.height), Quantized(payload.rotation)>>)]

TransformOf(r) ==
    IF ~r.ok \/ r.v[1] = <<>> \/ r.v[2] = <<>> THEN Malformed
    ELSE Read([id |-> r.v[1], page |-> r.v[2], x |-> Dequantized(r.v[3]), y |-> Dequantized(r.v[4]),
               width |-> Dequantized(r.v[5]), height |-> Dequantized(r.v[6]),
               rotation |-> Dequantized(r.v[7])], r.rest)

DecodeTransform(d) == TransformOf(ReadAll(TransformKinds, d))

-----------------------------------------------------------------------------
(* Frames *)

Codes == {"cursor", "laser", "ink", "transform"}
Aggregate == "aggregate"
HeaderSize == 5

Header(code, flags, seq) == <<Magic, Version, code, flags, seq>>

IsBinaryFrame(data) == Len(data) >= HeaderSize /\ data[1] = Magic
ReadableHeader(data) == IsBinaryFrame(data) /\ data[2] = Version

EncodePayload(code, payload) ==
    CASE code = "ink" -> EncodeInk(payload)
      [] code = "transform" -> EncodeTransform(payload)
      [] OTHER -> EncodePointer(payload)

DecodePayload(code, flags, d) ==
    CASE code = "ink" -> DecodeInk(flags, d)
      [] code = "transform" -> DecodeTransform(d)
      [] OTHER -> DecodePointer(d)

\* No number and the number 0 look the same on the wire.
EnvelopeSeq(seq) == IF seq = Absent THEN 0 ELSE seq

Encodable(e, body) ==
    e.code \in Codes /\ EnvelopeSeq(e.seq) <= MaxSeq /\ body.ok

ClientFrameOf(e, body) ==
    IF Encodable(e, body)
    THEN [ok |-> TRUE, cells |-> Header(e.code, body.flags, EnvelopeSeq(e.seq)) \o body.cells]
    ELSE Malformed

EncodeClientFrame(e) == ClientFrameOf(e, EncodePayload(e.code, e.payload))

\* Mutant: cells after the payload are not looked at.
ConsumedAny(r) == r.ok

Consumed(r) == r.ok /\ r.rest = <<>>

EnvelopeOf(data, r) ==
    IF /\ ReadableHeader(data)
       /\ data[3] \in Codes
       /\ data[4] \in (IF data[3] = "ink" THEN 0 .. PressureFlag + TimeFlag ELSE {0})
       /\ Consumed(r)
    THEN [ok |-> TRUE, code |-> data[3], seq |-> IF data[5] = 0 THEN Absent ELSE data[5],
          payload |-> r.v]
    ELSE Malformed

DecodeClientFrame(data) ==
    EnvelopeOf(data, DecodePayload(data[3], data[4], From(data, HeaderSize + 1)))

MetadataKinds == <<"string", "string", "string", "optional", "optional", "cell">>

Metadata(e) ==
    WriteAll(MetadataKinds, <<e.messageId, e.sessionId, e.channel, e.actorId, e.origin,
                              Max({e.sentAt, 0})>>)

\* The trailer is found from the end, by its length in the last cell.
RelayFrameOf(e, body, trailer) ==
    IF Encodable(e, body) /\ Len(trailer) <= Max16
    THEN [ok |-> TRUE,
          cells |-> Header(e.code, body.flags + RelayFlag, EnvelopeSeq(e.seq)) \o body.cells
                    \o trailer \o <<Len(trailer)>>]
    ELSE Malformed

EncodeRelayFrame(e) == RelayFrameOf(e, EncodePayload(e.code, e.payload), Metadata(e))

ChildKinds(n) == [i \in 1..n |-> "child"]

AggregateOf(child) ==
    IF /\ Len(child) >= 2 /\ Len(child) <= Max16
       /\ \A i \in DOMAIN child : child[i].ok /\ Len(child[i].cells) <= Max16
    THEN [ok |-> TRUE,
          cells |-> Header(Aggregate, 0, 0) \o <<Len(child)>>
                    \o WriteAll(ChildKinds(Len(child)),
                                [i \in DOMAIN child |-> child[i].cells])]
    ELSE Malformed

EncodeRelayAggregate(es) == AggregateOf([i \in DOMAIN es |-> EncodeRelayFrame(es[i])])

MetadataOf(data, start, r) ==
    IF /\ ReadableHeader(data) /\ data[3] # Aggregate
       /\ Has(data[4], RelayFlag) /\ Len(data) > HeaderSize
       /\ start > HeaderSize /\ Consumed(r)
    THEN [ok |-> TRUE, seq |-> data[5], actorId |-> r.v[4], origin |-> r.v[5], sentAt |-> r.v[6],
          start |-> start]
    ELSE Malformed

\* DecodeRelayMetadata on a frame that is no aggregate.
RelayMetadata(data) ==
    LET start == Len(data) - data[Len(data)] IN
    MetadataOf(data, start, ReadAll(MetadataKinds, SubSeq(data, start, Len(data) - 1)))

\* DecodeRelayMetadata on an aggregate: its children, if their lengths add up.
Children(data) ==
    LET split == ReadAll(ChildKinds(data[HeaderSize + 1]), From(data, HeaderSize + 2)) IN
    IF /\ ReadableHeader(data) /\ data[3] = Aggregate /\ data[4] = 0
       /\ Len(data) > HeaderSize
       /\ Consumed(split)
    THEN split ELSE Malformed
=============================================================================
