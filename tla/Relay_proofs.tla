----------------------------- MODULE Relay_proofs -----------------------------
(***************************************************************************)
(* Relay for every set of connections, notes, readers, viewports and       *)
(* messages, every cell size and every ceiling.                            *)
(***************************************************************************)
EXTENDS Relay, TLAPS

USE DEF connVars, drainVars, indexVars, historyVars

-----------------------------------------------------------------------------
(* Types *)

\* cellIndex yields an integer for every coordinate.
LEMMA CellIndexTyping ==
    ASSUME NEW a \in Int
    PROVE  CellIndex(a) \in Int
BY RelayAssumption DEF CellIndex

\* The entries of a reported viewport name its note, its page and its owner.
LEMMA EntriesTyping ==
    ASSUME NEW c \in Conns, NEW v \in Viewports \cup {Nothing}
    PROVE  Entries(c, v) \subseteq (Notes \X Pages \X (Int \X Int) \X Conns)
<1>1. CASE v = Nothing
  BY <1>1 DEF Entries
<1>2. CASE v # Nothing
  <2>1. /\ v.page \in Pages /\ v.x \in Int /\ v.y \in Int
        /\ v.width \in Int /\ v.height \in Int /\ Note[c] \in Notes
    BY <1>2, RelayAssumption DEF Viewport
  <2>2. Cells(v) \subseteq Int \X Int
    BY <2>1, CellIndexTyping DEF Cells, CellRange
  <2> QED
    BY <1>2, <2>1, <2>2 DEF Entries
<1> QED
  BY <1>1, <1>2

\* A reader inside a frame carries a well-formed job of a known connection.
LEMMA JobTyping ==
    ASSUME TypeOK, NEW r \in Readers, job[r] # Idle
    PROVE  /\ job[r] \in Jobs
           /\ job[r].msg \in Message
           /\ job[r].n \in Nat
           /\ job[r].todo \subseteq Conns
           /\ job[r].peer \in Conns \cup {Nothing}
           /\ Sender(r) \in Conns
           /\ Stamped(r) \in Frames
<1>1. job[r] \in Jobs
  BY DEF TypeOK
<1>2. Sender(r) \in Conns
  BY RelayAssumption DEF Sender
<1> QED
  BY <1>1, <1>2 DEF Jobs, Frames, Stamped

\* At a program counter other than idle there is a job.
LEMMA AtBusy ==
    ASSUME NEW r \in Readers, NEW pc, At(r, pc), pc # "idle"
    PROVE  job[r] # Idle
BY DEF At, Idle

\* Every store, handler and reader stays in a state its code has.
LEMMA TypeStep == TypeOK /\ [Next]_vars => TypeOK'
<1> SUFFICES ASSUME TypeOK, [Next]_vars
             PROVE  TypeOK'
  OBVIOUS
<1>1. ASSUME NEW r \in Readers, NEW m \in Inbox[r], Frame(r, m)
      PROVE  TypeOK'
  <2>1. Frame(r, m)
    BY <1>1
  <2>2. m \in Message /\ count[r] \in 0..MaxFrames /\ MaxFrames \in Nat
    BY RelayAssumption DEF TypeOK
  <2>3. count' \in [Readers -> 0..MaxFrames]
    BY <2>1, <2>2 DEF Frame, TypeOK
  <2>4. [pc |-> IF m.event = "interest.update" THEN "report" ELSE "relay",
         n |-> count[r] + 1, msg |-> m, todo |-> {}, peer |-> Nothing] \in Jobs
    BY <2>2 DEF Jobs
  <2>5. job' \in [Readers -> {Idle} \cup Jobs]
    BY <2>1, <2>4 DEF Frame, TypeOK
  <2> QED
    BY <2>1, <2>3, <2>5 DEF Frame, TypeOK
<1>2. CASE \E c \in Conns : Join(c) \/ SetPermission(c) \/ HandlerReturns(c) \/ LeaveRoom(c)
  BY <1>2 DEF Join, SetPermission, HandlerReturns, LeaveRoom, TypeOK
<1>3. CASE \E c \in Conns : RemoveInterest(c)
  <2>1. PICK c \in Conns : RemoveInterest(c)
    BY <1>3
  <2> QED
    BY <2>1 DEF RemoveInterest, Remove, Deleted, TypeOK
<1>4. CASE StartDraining \/ BeginDrain
  BY <1>4 DEF StartDraining, BeginDrain, TypeOK
<1>5. CASE UNCHANGED vars
  BY <1>5 DEF vars, TypeOK
<1>6. ASSUME NEW r \in Readers, ReaderStep(r)
      PROVE  TypeOK'
  <2>1. /\ job[r] # Idle => /\ job[r] \in Jobs /\ Sender(r) \in Conns
                            /\ Stamped(r) \in Frames /\ job[r].todo \subseteq Conns
                            /\ job[r].msg \in Message
    BY JobTyping
  <2>2. ASSUME Done(r) PROVE job' \in [Readers -> {Idle} \cup Jobs]
    BY <2>2 DEF Done, TypeOK
  <2>3. CASE UpdateInterest(r)
    <3>1. job[r] # Idle
      BY <2>3, AtBusy DEF UpdateInterest
    <3>2. job[r].msg.view \in Viewports \cup {Nothing}
      BY <2>1, <3>1 DEF Message
    <3>3. Entries(Sender(r), job[r].msg.view) \subseteq (Notes \X Pages \X (Int \X Int) \X Conns)
      BY <2>1, <3>1, <3>2, EntriesTyping
    <3>4. byConnection' \in [Conns -> Viewports \cup {Nothing}]
      BY <2>1, <2>3, <3>1, <3>2 DEF UpdateInterest, Remove, Deleted, TypeOK
    <3>5. byCell' \subseteq (Notes \X Pages \X (Int \X Int) \X Conns)
      BY <2>3, <3>3 DEF UpdateInterest, Remove, TypeOK
    <3>6. mutedInk' \subseteq Conns
      BY <2>1, <2>3, <3>1 DEF UpdateInterest, Remove, TypeOK
    <3> QED
      BY <2>2, <2>3, <3>4, <3>5, <3>6 DEF UpdateInterest, TypeOK
  <2>4. CASE FanoutDone(r)
    BY <2>2, <2>4 DEF FanoutDone, TypeOK
  <2>11. CASE CheckDraining(r)
    <3>1. job[r] # Idle
      BY <2>11, AtBusy DEF CheckDraining
    <3>2. Done(r) \/ job' = [job EXCEPT ![r] = [job[r] EXCEPT !.pc = "admitted"]]
      BY <2>11 DEF CheckDraining
    <3>3. [job[r] EXCEPT !.pc = "admitted"] \in Jobs
      BY <2>1, <3>1 DEF Jobs
    <3>4. job' \in [Readers -> {Idle} \cup Jobs]
      BY <2>2, <3>2, <3>3 DEF TypeOK
    <3> QED
      BY <2>11, <3>4 DEF CheckDraining, TypeOK
  <2>5. CASE ListPeers(r)
    <3>1. job[r] # Idle
      BY <2>5, AtBusy DEF ListPeers
    <3> DEFINE peers == Members(Note[Sender(r)]) \ {Sender(r)}
    <3>2. peers \subseteq Conns
      BY DEF Members, TypeOK
    <3>3. [job[r] EXCEPT !.pc = "fanout", !.todo = peers] \in Jobs
      BY <2>1, <3>1, <3>2 DEF Jobs
    <3>4. job' = [job EXCEPT ![r] = [job[r] EXCEPT !.pc = "fanout", !.todo = peers]]
      BY <2>5 DEF ListPeers
    <3>5. job' \in [Readers -> {Idle} \cup Jobs]
      BY <3>3, <3>4 DEF TypeOK
    <3>6. cast' \subseteq [frame : Frames, peers : SUBSET Conns]
      BY <2>1, <2>5, <3>1, <3>2 DEF ListPeers, TypeOK
    <3> QED
      BY <2>5, <3>5, <3>6 DEF ListPeers, TypeOK
  <2>6. CASE FilterSpatially(r)
    <3>1. job[r] # Idle
      BY <2>6, AtBusy DEF FilterSpatially
    <3>2. PICK d \in job[r].todo :
            \/ job' = [job EXCEPT ![r] = [job[r] EXCEPT !.pc = "preview", !.peer = d,
                                                         !.todo = job[r].todo \ {d}]]
            \/ job' = [job EXCEPT ![r] = [job[r] EXCEPT !.todo = job[r].todo \ {d}]]
      BY <2>6 DEF FilterSpatially
    <3>3. /\ [job[r] EXCEPT !.pc = "preview", !.peer = d, !.todo = job[r].todo \ {d}] \in Jobs
          /\ [job[r] EXCEPT !.todo = job[r].todo \ {d}] \in Jobs
      BY <2>1, <3>1 DEF Jobs
    <3>4. job' \in [Readers -> {Idle} \cup Jobs]
      BY <3>2, <3>3 DEF TypeOK
    <3> QED
      BY <2>6, <3>4 DEF FilterSpatially, TypeOK
  <2>7. CASE FilterPreview(r)
    <3>1. job[r] # Idle
      BY <2>7, AtBusy DEF FilterPreview
    <3>2. [job[r] EXCEPT !.pc = "fanout", !.peer = Nothing] \in Jobs
      BY <2>1, <3>1 DEF Jobs
    <3>3. job' \in [Readers -> {Idle} \cup Jobs]
      BY <2>7, <3>2 DEF FilterPreview, TypeOK
    <3>4. got' \in [Conns -> SUBSET Frames]
      BY <2>1, <2>7, <3>1 DEF FilterPreview, Delivered, TypeOK
    <3> QED
      BY <2>7, <3>3, <3>4 DEF FilterPreview, TypeOK
  <2>8. CASE RelayReliable(r)
    <3>1. job[r] # Idle
      BY <2>8, AtBusy DEF RelayReliable
    <3>2. PICK d \in job[r].todo :
            /\ SendReliable(r, d)
            /\ job' = [job EXCEPT ![r] = [job[r] EXCEPT !.todo = job[r].todo \ {d}]]
      BY <2>8 DEF RelayReliable
    <3>3. [job[r] EXCEPT !.todo = job[r].todo \ {d}] \in Jobs
      BY <2>1, <3>1 DEF Jobs
    <3>4. job' \in [Readers -> {Idle} \cup Jobs]
      BY <3>2, <3>3 DEF TypeOK
    <3>5. got' \in [Conns -> SUBSET Frames] /\ closed' \subseteq Conns
      BY <2>1, <3>1, <3>2 DEF SendReliable, Delivered, TypeOK
    <3> QED
      BY <2>8, <3>4, <3>5 DEF RelayReliable, TypeOK
  <2>9. CASE CheckTarget(r)
    <3>1. job[r] # Idle
      BY <2>9, AtBusy DEF CheckTarget
    <3>2. Done(r) \/ job' = [job EXCEPT ![r] = [job[r] EXCEPT !.pc = "signal"]]
      BY <2>9 DEF CheckTarget
    <3>3. [job[r] EXCEPT !.pc = "signal"] \in Jobs
      BY <2>1, <3>1 DEF Jobs
    <3>4. job' \in [Readers -> {Idle} \cup Jobs]
      BY <2>2, <3>2, <3>3 DEF TypeOK
    <3> QED
      BY <2>9, <3>4 DEF CheckTarget, TypeOK
  <2>10. CASE SignalPeer(r)
    <3>1. job[r] # Idle
      BY <2>10, AtBusy DEF SignalPeer
    <3>2. got' \in [Conns -> SUBSET Frames] /\ closed' \subseteq Conns
      BY <2>1, <2>10, <3>1
         DEF SignalPeer, SendReliable, Delivered, ConnectionByID, Members, TypeOK
    <3> QED
      BY <2>2, <2>10, <3>2 DEF SignalPeer, TypeOK
  <2> QED
    BY <1>6, <2>3, <2>4, <2>5, <2>6, <2>7, <2>8, <2>9, <2>10, <2>11 DEF ReaderStep
<1> QED
  BY <1>1, <1>2, <1>3, <1>4, <1>5, <1>6 DEF Next

\* TypeOK, for every instance.
THEOREM TypeCorrect == Spec => []TypeOK
<1>1. Init => TypeOK
  <2> SUFFICES ASSUME Init PROVE TypeOK
    OBVIOUS
  <2>1. /\ byCell \subseteq (Notes \X Pages \X (Int \X Int) \X Conns)
        /\ cast \subseteq [frame : Frames, peers : SUBSET Conns]
    BY DEF Init
  <2>2. /\ phase \in [Conns -> {"new", "open", "closing", "left", "gone"}]
        /\ byConnection \in [Conns -> Viewports \cup {Nothing}]
        /\ job \in [Readers -> {Idle} \cup Jobs]
        /\ got \in [Conns -> SUBSET Frames]
    BY DEF Init
  <2>3. count \in [Readers -> 0..MaxFrames]
    BY RelayAssumption DEF Init
  <2> QED
    BY <2>1, <2>2, <2>3 DEF Init, TypeOK
<1> QED
  BY <1>1, TypeStep, PTL DEF Spec
-----------------------------------------------------------------------------
(* The two directions of the index *)

\* A step leaves the index alone or replaces what one connection reported; a
\* removal replaces it by nothing.
LEMMA IndexStep ==
    ASSUME TypeOK, [Next]_vars
    PROVE  \/ UNCHANGED <<byConnection, byCell>>
           \/ \E c \in Conns, v \in Viewports \cup {Nothing} :
                 /\ byConnection' = [byConnection EXCEPT ![c] = v]
                 /\ byCell' = (byCell \ Entries(c, byConnection[c])) \cup Entries(c, v)
<1> DEFINE Replaced(c, v) ==
      /\ byConnection' = [byConnection EXCEPT ![c] = v]
      /\ byCell' = (byCell \ Entries(c, byConnection[c])) \cup Entries(c, v)
<1>1. ASSUME NEW c \in Conns, Remove(c)
      PROVE  Replaced(c, Nothing)
  BY <1>1 DEF Remove, Deleted, Entries
<1>2. ASSUME NEW r \in Readers, UpdateInterest(r)
      PROVE  \E c \in Conns, v \in Viewports \cup {Nothing} : Replaced(c, v)
  <2>1. job[r].msg.view \in Viewports \cup {Nothing} /\ Sender(r) \in Conns
    BY <1>2, AtBusy, JobTyping DEF UpdateInterest, Message
  <2>2. CASE job[r].msg.view = Nothing
    <3>1. Replaced(Sender(r), Nothing)
      BY <1>1, <1>2, <2>1, <2>2 DEF UpdateInterest
    <3> QED
      BY <2>1, <3>1
  <2>3. CASE job[r].msg.view # Nothing
    <3>1. Replaced(Sender(r), job[r].msg.view)
      BY <1>2, <2>3 DEF UpdateInterest, Withdrawn
    <3> QED
      BY <2>1, <3>1
  <2> QED
    BY <2>2, <2>3
<1>3. CASE \E r \in Readers : UpdateInterest(r)
  BY <1>2, <1>3
<1>4. CASE \E c \in Conns : RemoveInterest(c)
  BY <1>1, <1>4 DEF RemoveInterest
<1>5. CASE /\ ~\E r \in Readers : UpdateInterest(r)
           /\ ~\E c \in Conns : RemoveInterest(c)
  <2>1. UNCHANGED indexVars
    BY <1>5 DEF Next, ReaderStep, Frame, Join, SetPermission, HandlerReturns, LeaveRoom,
                StartDraining, BeginDrain, CheckDraining, ListPeers, FilterSpatially,
                FilterPreview, RelayReliable, FanoutDone, CheckTarget, SignalPeer, vars
  <2> QED
    BY <2>1
<1> QED
  BY <1>3, <1>4, <1>5

\* The entries of two connections never coincide: an entry ends in its owner.
LEMMA EntriesOwned ==
    ASSUME NEW c, NEW v, NEW k \in Entries(c, v)
    PROVE  k[4] = c
BY DEF Entries

\* IndexInStep: after any sequence of reports, malformed reports and departures
\* byCell holds exactly the cells of the viewports in byConnection.
THEOREM IndexCorrect == Spec => []IndexInStep
<1>1. Init => IndexInStep
  BY DEF Init, IndexInStep, Entries
<1>2. TypeOK /\ IndexInStep /\ [Next]_vars => IndexInStep'
  <2> SUFFICES ASSUME TypeOK, IndexInStep, [Next]_vars
               PROVE  IndexInStep'
    OBVIOUS
  <2>1. CASE UNCHANGED <<byConnection, byCell>>
    BY <2>1 DEF IndexInStep, Entries
  <2>2. ASSUME NEW c \in Conns, NEW v \in Viewports \cup {Nothing},
               byConnection' = [byConnection EXCEPT ![c] = v],
               byCell' = (byCell \ Entries(c, byConnection[c])) \cup Entries(c, v)
        PROVE  IndexInStep'
    <3> DEFINE Before(d) == Entries(d, byConnection[d])
               After(d) == Entries(d, byConnection'[d])
    <3>1. After(c) = Entries(c, v) /\ \A d \in Conns \ {c} : After(d) = Before(d)
      BY <2>2 DEF TypeOK
    <3>2. \A k : k \in byCell <=> \E d \in Conns : k \in Before(d)
      BY DEF IndexInStep
    <3>3. \A d \in Conns \ {c} : Before(d) \cap Before(c) = {}
      BY EntriesOwned
    <3>4. \A k : k \in byCell' <=> \E d \in Conns : k \in After(d)
      <4> HIDE DEF Before, After
      <4>1. byCell' = (byCell \ Before(c)) \cup After(c)
        BY <2>2, <3>1 DEF Before
      <4> QED
        BY <3>1, <3>2, <3>3, <4>1
    <3>5. IndexInStep' <=> byCell' = UNION {After(d) : d \in Conns}
      BY DEF IndexInStep, Entries
    <3> QED
      BY <3>4, <3>5
  <2> QED
    BY <2>1, <2>2, IndexStep
<1> QED
  BY <1>1, <1>2, TypeCorrect, PTL DEF Spec
-----------------------------------------------------------------------------
(* What is on screen is covered *)

\* Integer division by the cell size: quotient and remainder.
LEMMA DivBounds ==
    ASSUME NEW a \in Nat
    PROVE  /\ a \div GridCellSize \in Nat
           /\ GridCellSize * (a \div GridCellSize) <= a
           /\ a < GridCellSize * (a \div GridCellSize) + GridCellSize
BY RelayAssumption

\* Multiplication by the cell size is strictly monotonic.
LEMMA CellOrder ==
    ASSUME NEW i \in Int, NEW j \in Int, GridCellSize * i < GridCellSize * j
    PROVE  i < j
BY RelayAssumption

\* Truncation towards zero loses at most one cell: a coordinate at most one cell
\* size further on lies at most one cell further on, across the origin too.
LEMMA CellLag ==
    ASSUME NEW a \in Int, NEW b \in Int, b <= a + GridCellSize
    PROVE  CellIndex(b) <= CellIndex(a) + 1
<1> DEFINE G == GridCellSize
           Q(x) == x \div GridCellSize
<1>0. G \in Nat /\ G > 0
  BY RelayAssumption
<1>1. CASE a >= 0 /\ b >= 0
  <2>1. /\ Q(a) \in Nat /\ Q(b) \in Nat
        /\ G * Q(b) <= b /\ a < G * Q(a) + G
    BY <1>1, DivBounds
  <2>2. G * Q(b) < G * (Q(a) + 2)
    BY <1>0, <2>1
  <2>3. Q(b) < Q(a) + 2
    BY <2>1, <2>2, CellOrder
  <2> QED
    BY <1>1, <2>1, <2>3 DEF CellIndex
<1>2. CASE a < 0 /\ b < 0
  <2>1. 0 - a \in Nat /\ 0 - b \in Nat
    BY <1>2
  <2>2. /\ Q(0 - a) \in Nat /\ Q(0 - b) \in Nat
        /\ G * Q(0 - a) <= 0 - a /\ 0 - b < G * Q(0 - b) + G
    BY <2>1, DivBounds
  <2>3. G * Q(0 - a) < G * (Q(0 - b) + 2)
    BY <1>0, <2>2
  <2>4. Q(0 - a) < Q(0 - b) + 2
    BY <2>2, <2>3, CellOrder
  <2> QED
    BY <1>2, <2>2, <2>4 DEF CellIndex
<1>3. CASE a >= 0 /\ b < 0
  <2>1. Q(a) \in Nat /\ Q(0 - b) \in Nat
    BY <1>3, DivBounds
  <2> QED
    BY <1>3, <2>1 DEF CellIndex
<1>4. CASE a < 0 /\ b >= 0
  <2>1. 0 - a \in Nat /\ 0 - a <= G - b
    BY <1>0, <1>4
  <2>2. /\ Q(0 - a) \in Nat /\ Q(b) \in Nat
        /\ G * Q(0 - a) <= 0 - a /\ G * Q(b) <= b
    BY <1>4, <2>1, DivBounds
  <2>3. G * (Q(0 - a) + Q(b)) < G * 2
    BY <1>0, <2>1, <2>2
  <2>4. Q(0 - a) + Q(b) < 2
    BY <2>2, <2>3, CellOrder
  <2> QED
    BY <1>4, <2>2, <2>4 DEF CellIndex
<1> QED
  BY <1>1, <1>2, <1>3, <1>4

\* One side of the rectangle with its margin, up to a cell size beyond it.
LEMMA RangeCovers ==
    ASSUME NEW from \in Int, NEW size \in Int,
           NEW x \in (from - GridCellSize)..(from + size + GridCellSize)
    PROVE  CellIndex(x) \in CellRange(from, size)
<1>1. GridCellSize \in Int /\ x \in Int /\ from + size \in Int
  BY RelayAssumption
<1>2. from <= x + GridCellSize /\ x <= (from + size) + GridCellSize
  BY <1>1
<1>3. CellIndex(from) <= CellIndex(x) + 1 /\ CellIndex(x) <= CellIndex(from + size) + 1
  BY <1>1, <1>2, CellLag
<1> QED
  BY <1>1, <1>3, CellIndexTyping DEF CellRange

\* ScreenIsCovered: every event on a reported page within a cell size of the
\* reported rectangle interests the connection, for every cell size.
THEOREM ScreenCorrect == Spec => []ScreenIsCovered
<1>1. TypeOK /\ IndexInStep => ScreenIsCovered
  <2> SUFFICES ASSUME TypeOK, IndexInStep, NEW c \in Conns, byConnection[c] # Nothing,
                      NEW x \in (byConnection[c].x - GridCellSize)
                                ..(byConnection[c].x + byConnection[c].width + GridCellSize),
                      NEW y \in (byConnection[c].y - GridCellSize)
                                ..(byConnection[c].y + byConnection[c].height + GridCellSize)
               PROVE  Interested(c, [page |-> byConnection[c].page, hasPoint |-> TRUE,
                                     x |-> x, y |-> y])
    BY DEF ScreenIsCovered
  <2> DEFINE v == byConnection[c]
             cell == <<CellIndex(x), CellIndex(y)>>
  <2>1. /\ v.x \in Int /\ v.y \in Int /\ v.width \in Int /\ v.height \in Int
    BY RelayAssumption DEF TypeOK, Viewport
  <2>2. CellIndex(x) \in CellRange(v.x, v.width)
    BY <2>1, RangeCovers
  <2>3. CellIndex(y) \in CellRange(v.y, v.height)
    BY <2>1, RangeCovers
  <2>4. cell \in Cells(v)
    BY <2>2, <2>3 DEF Cells
  <2>5. <<Note[c], v.page, cell, c>> \in Entries(c, v)
    BY <2>4 DEF Entries
  <2>6. <<Note[c], v.page, cell, c>> \in byCell
    BY <2>5 DEF IndexInStep
  <2> QED
    BY <2>6 DEF Interested
<1> QED
  BY <1>1, TypeCorrect, IndexCorrect, PTL
-----------------------------------------------------------------------------
(* Departures *)

\* A WebSocket handler past its return has no reader inside a frame, and its
\* last deferred call has taken its viewport away.
DepartureInv ==
    /\ \A c \in Conns \ WebTransport :
          phase[c] \in {"closing", "left", "gone"} =>
             \A r \in Readers : ReaderConn[r] = c => job[r] = Idle
    /\ GoneHasNoInterest

\* GoneHasNoInterest: the index forgets every WebSocket connection that goes.
THEOREM DepartedUninterested == Spec => []GoneHasNoInterest
<1>1. Init => DepartureInv
  BY DEF Init, DepartureInv, GoneHasNoInterest
<1>2. TypeOK /\ DepartureInv /\ [Next]_vars => DepartureInv'
  <2> SUFFICES ASSUME TypeOK, DepartureInv, [Next]_vars
               PROVE  DepartureInv'
    OBVIOUS
  <2>1. ASSUME NEW r \in Readers, NEW m \in Inbox[r], Frame(r, m)
        PROVE  DepartureInv'
    BY <2>1 DEF Frame, DepartureInv, GoneHasNoInterest, Sender, TypeOK
  <2>2. CASE \E c \in Conns : Join(c) \/ SetPermission(c) \/ LeaveRoom(c)
    BY <2>2 DEF Join, SetPermission, LeaveRoom, DepartureInv, GoneHasNoInterest, TypeOK
  <2>3. CASE \E c \in Conns : HandlerReturns(c)
    BY <2>3 DEF HandlerReturns, MayReturn, DepartureInv, GoneHasNoInterest, TypeOK
  <2>4. CASE \E c \in Conns : RemoveInterest(c)
    BY <2>4 DEF RemoveInterest, Remove, Deleted, DepartureInv, GoneHasNoInterest, TypeOK
  <2>5. CASE StartDraining \/ BeginDrain
    BY <2>5 DEF StartDraining, BeginDrain, DepartureInv, GoneHasNoInterest
  <2>6. CASE UNCHANGED vars
    BY <2>6 DEF vars, DepartureInv, GoneHasNoInterest
  <2>7. ASSUME NEW r \in Readers, ReaderStep(r)
        PROVE  DepartureInv'
    <3>1. job[r] # Idle
      BY <2>7, AtBusy DEF ReaderStep, UpdateInterest, CheckDraining, ListPeers, FilterSpatially,
           FilterPreview, RelayReliable, FanoutDone, CheckTarget, SignalPeer
    <3>2. /\ phase' = phase
          /\ \A q \in Readers \ {r} : job'[q] = job[q]
      BY <2>7 DEF ReaderStep, UpdateInterest, CheckDraining, ListPeers, FilterSpatially,
           FilterPreview, RelayReliable, FanoutDone, CheckTarget, SignalPeer, Done, TypeOK
    <3>3. \A c \in Conns \ WebTransport :
             phase[c] \in {"closing", "left", "gone"} => c # Sender(r)
      BY <3>1 DEF DepartureInv, Sender
    <3>4. \A c \in Conns \ {Sender(r)} : byConnection'[c] = byConnection[c]
      BY <2>7, RelayAssumption
         DEF ReaderStep, UpdateInterest, Remove, Deleted, CheckDraining, ListPeers, Sender,
             FilterSpatially, FilterPreview, RelayReliable, FanoutDone, CheckTarget,
             SignalPeer, TypeOK
    <3> QED
      BY <3>2, <3>3, <3>4 DEF DepartureInv, GoneHasNoInterest, Sender
  <2> QED
    BY <2>1, <2>2, <2>3, <2>4, <2>5, <2>6, <2>7 DEF Next
<1>3. DepartureInv => GoneHasNoInterest
  BY DEF DepartureInv
<1> QED
  BY <1>1, <1>2, <1>3, TypeCorrect, PTL DEF Spec

-----------------------------------------------------------------------------
(* What a frame may reach *)

\* ClassifyEvent recognises exactly the names of its tables.
LEMMA Classes ==
    ASSUME NEW e
    PROVE  /\ ClassifyEvent(e) = "durable" <=> e \in DurableEvents
           /\ ClassifyEvent(e) = "signaling" <=> e \in SignalingEvents
           /\ ClassifyEvent(e) = "ephemeral" <=> e \in EphemeralEvents
BY DEF ClassifyEvent, DurableEvents, SignalingEvents, EphemeralEvents

\* A peer of the sender of r.
IsPeer(r, d) == d # Sender(r) /\ Note[d] = Note[Sender(r)]

\* What handleClientFrame and Relay have established about the frame a reader is
\* carrying, at each point of its way.
Accepted(r) ==
    LET e == job[r].msg.event IN
    /\ e \notin DurableEvents \cup Consumed \cup {"server.draining"}
    /\ e \in DrawingEvents => Sender(r) \in Drawers
    /\ ~At(r, "report") => e # "interest.update"
    /\ At(r, "fanout") \/ At(r, "preview") =>
          e \notin SignalingEvents /\ \A d \in job[r].todo : IsPeer(r, d)
    /\ At(r, "preview") => IsPeer(r, job[r].peer)
    /\ At(r, "signal") => e \in SignalingEvents /\ job[r].msg.target # Sender(r)

ScopeInv ==
    /\ \A r \in Readers : job[r] # Idle => Accepted(r)
    /\ ScopedDelivery

\* A push of an accepted frame on a peer's queue keeps deliveries in scope.
LEMMA ScopedPush ==
    ASSUME TypeOK, ScopeInv, NEW r \in Readers, job[r] # Idle, NEW d \in Conns,
           got' \in {got, Delivered(r, d)}, ~At(r, "report"), IsPeer(r, d),
           job[r].msg.event \in SignalingEvents => job[r].msg.target = d
    PROVE  ScopedDelivery'
<1>1. Accepted(r) /\ Stamped(r).from = Sender(r) /\ Stamped(r).msg = job[r].msg
  BY DEF ScopeInv, Stamped
<1>2. \A c \in Conns : \A f \in got'[c] : f \in got[c] \/ (c = d /\ f = Stamped(r))
  BY DEF Delivered, TypeOK
<1> QED
  BY <1>1, <1>2 DEF ScopeInv, ScopedDelivery, Accepted, IsPeer

\* ScopedDelivery: own frames, frames of other notes, announcements of persisted
\* state, of presence and of the drain, requests to the server, drawing by those
\* who never might and negotiations with others are never delivered.  (The
\* server's lock answers are not on that list: a client's is relayed.)
THEOREM DeliveryScoped == Spec => []ScopedDelivery
<1>1. Init => ScopeInv
  BY DEF Init, ScopeInv, ScopedDelivery
<1>2. TypeOK /\ ScopeInv /\ [Next]_vars => ScopeInv'
  <2> SUFFICES ASSUME TypeOK, ScopeInv, [Next]_vars
               PROVE  ScopeInv'
    OBVIOUS
  <2>1. ASSUME NEW r \in Readers, NEW m \in Inbox[r], Frame(r, m)
        PROVE  ScopeInv'
    <3>1. m.event \notin DurableEvents \cup Consumed \cup {"server.draining"}
      BY <2>1, Classes DEF Frame, MayPublish
    <3>2. m.event \in DrawingEvents => Sender(r) \in Drawers
      BY <2>1 DEF Frame, MayPublish, TypeOK
    <3>3. /\ job'[r].msg = m
          /\ job'[r].pc = IF m.event = "interest.update" THEN "report" ELSE "relay"
          /\ \A q \in Readers \ {r} : job'[q] = job[q]
      BY <2>1 DEF Frame, TypeOK
    <3>4. Accepted(r)'
      BY <3>1, <3>2, <3>3 DEF Accepted, At, Sender
    <3>5. \A q \in Readers \ {r} : Accepted(q) => Accepted(q)'
      BY <3>3 DEF Accepted, At, Sender, IsPeer
    <3> QED
      BY <2>1, <3>3, <3>4, <3>5 DEF ScopeInv, ScopedDelivery, Frame
  <2>2. CASE UNCHANGED <<job, got>>
    BY <2>2 DEF ScopeInv, Accepted, ScopedDelivery, At, Sender, IsPeer
  <2>3. ASSUME NEW r \in Readers, ReaderStep(r)
        PROVE  ScopeInv'
    <3>1. job[r] # Idle /\ Accepted(r)
      BY <2>3, AtBusy DEF ReaderStep, UpdateInterest, CheckDraining, ListPeers, FilterSpatially,
           FilterPreview, RelayReliable, FanoutDone, CheckTarget, SignalPeer, ScopeInv
    <3>2. \A q \in Readers \ {r} : job'[q] = job[q]
      BY <2>3 DEF ReaderStep, UpdateInterest, CheckDraining, ListPeers, FilterSpatially,
           FilterPreview, RelayReliable, FanoutDone, CheckTarget, SignalPeer, Done, TypeOK
    <3>3. ASSUME job'[r] # Idle => Accepted(r)', ScopedDelivery'
          PROVE  ScopeInv'
      BY <3>2, <3>3 DEF ScopeInv, Accepted, At, Sender, IsPeer
    <3>4. ASSUME Done(r) PROVE job'[r] = Idle
      BY <3>4 DEF Done, TypeOK
    <3>5. ASSUME got' = got PROVE ScopedDelivery'
      BY <3>5 DEF ScopeInv, ScopedDelivery
    <3>6. /\ job[r] \in Jobs /\ job[r].todo \subseteq Conns /\ Sender(r) \in Conns
      BY <3>1, JobTyping
    <3>7. CASE UpdateInterest(r) \/ FanoutDone(r)
      BY <3>3, <3>4, <3>5, <3>7 DEF UpdateInterest, FanoutDone
    <3>14. CASE CheckDraining(r)
      <4>1. CASE Done(r)
        BY <3>3, <3>4, <3>5, <3>14, <4>1 DEF CheckDraining
      <4>2. CASE ~Done(r)
        <5>1. job'[r].msg = job[r].msg /\ job'[r].pc = "admitted" /\ At(r, "relay")
          BY <3>6, <3>14, <4>2 DEF CheckDraining, TypeOK, Jobs
        <5>2. Accepted(r)'
          BY <3>1, <5>1 DEF Accepted, At, Sender, IsPeer
        <5> QED
          BY <3>3, <3>5, <3>14, <5>2 DEF CheckDraining
      <4> QED
        BY <4>1, <4>2
    <3>8. CASE ListPeers(r)
      <4>1. /\ job'[r].pc = "fanout" /\ job'[r].msg = job[r].msg
            /\ job'[r].todo = Members(Note[Sender(r)]) \ {Sender(r)}
        BY <3>6, <3>8 DEF ListPeers, TypeOK, Jobs
      <4>2. job[r].msg.event \notin SignalingEvents /\ At(r, "admitted")
        BY <3>8, Classes DEF ListPeers, Class
      <4>3. \A d \in job'[r].todo : IsPeer(r, d)
        BY <4>1 DEF Members, IsPeer
      <4>4. Accepted(r)'
        BY <3>1, <4>1, <4>2, <4>3 DEF Accepted, At, Sender, IsPeer
      <4> QED
        BY <3>3, <3>5, <3>8, <4>4 DEF ListPeers
    <3>9. CASE FilterSpatially(r)
      <4>1. PICK d \in job[r].todo :
              /\ job'[r].msg = job[r].msg /\ job'[r].todo = job[r].todo \ {d}
              /\ \/ job'[r].pc = "preview" /\ job'[r].peer = d
                 \/ job'[r].pc = "fanout"
        BY <3>6, <3>9 DEF FilterSpatially, At, TypeOK, Jobs
      <4>2. Accepted(r)'
        BY <3>1, <3>9, <4>1 DEF FilterSpatially, Accepted, At, Sender, IsPeer
      <4> QED
        BY <3>3, <3>5, <3>9, <4>2 DEF FilterSpatially
    <3>10. CASE FilterPreview(r)
      <4>1. /\ job'[r].msg = job[r].msg /\ job'[r].todo = job[r].todo
            /\ job'[r].pc = "fanout"
        BY <3>6, <3>10 DEF FilterPreview, TypeOK, Jobs
      <4>2. At(r, "preview")
        BY <3>10 DEF FilterPreview
      <4>3. Accepted(r)'
        BY <3>1, <4>1, <4>2 DEF Accepted, At, Sender, IsPeer
      <4>4. IsPeer(r, job[r].peer) /\ job[r].msg.event \notin SignalingEvents
            /\ ~At(r, "report")
        BY <3>1, <4>2 DEF Accepted, At
      <4>5. job[r].peer \in Conns => ScopedDelivery'
        BY <3>1, <3>10, <4>4, ScopedPush DEF FilterPreview
      <4>6. job[r].peer \notin Conns => got' = got
        BY <3>10 DEF FilterPreview, Delivered, TypeOK
      <4> QED
        BY <3>3, <3>5, <4>3, <4>5, <4>6
    <3>11. CASE RelayReliable(r)
      <4>1. PICK d \in job[r].todo :
              /\ SendReliable(r, d)
              /\ job'[r].msg = job[r].msg /\ job'[r].todo = job[r].todo \ {d}
              /\ job'[r].pc = "fanout"
        BY <3>6, <3>11 DEF RelayReliable, At, TypeOK, Jobs
      <4>2. At(r, "fanout")
        BY <3>11 DEF RelayReliable
      <4>3. Accepted(r)'
        BY <3>1, <4>1, <4>2 DEF Accepted, At, Sender, IsPeer
      <4>4. IsPeer(r, d) /\ job[r].msg.event \notin SignalingEvents /\ ~At(r, "report")
        BY <3>1, <4>2 DEF Accepted, At
      <4>5. ScopedDelivery'
        BY <3>1, <3>6, <4>1, <4>4, ScopedPush DEF SendReliable
      <4> QED
        BY <3>3, <4>3, <4>5
    <3>12. CASE CheckTarget(r)
      <4>1. CASE Done(r)
        BY <3>3, <3>4, <3>5, <3>12, <4>1 DEF CheckTarget
      <4>2. CASE ~Done(r)
        <5>1. /\ job'[r].msg = job[r].msg /\ job'[r].pc = "signal"
              /\ job[r].msg.target # Sender(r)
          BY <3>6, <3>12, <4>2 DEF CheckTarget, TypeOK, Jobs
        <5>2. job[r].msg.event \in SignalingEvents /\ At(r, "admitted")
          BY <3>12, Classes DEF CheckTarget, Class
        <5>3. Accepted(r)'
          BY <3>1, <5>1, <5>2 DEF Accepted, At, Sender, IsPeer
        <5> QED
          BY <3>3, <3>5, <3>12, <5>3 DEF CheckTarget
      <4> QED
        BY <4>1, <4>2
    <3>13. CASE SignalPeer(r)
      <4>1. At(r, "signal") /\ Done(r)
        BY <3>13 DEF SignalPeer
      <4> DEFINE d == job[r].msg.target
      <4>2. CASE ConnectionByID(Sender(r), d) /\ SendReliable(r, d)
        <5>1. d \in Conns /\ IsPeer(r, d) /\ ~At(r, "report")
          BY <3>1, <4>1, <4>2 DEF Accepted, ConnectionByID, Members, IsPeer, At, TypeOK
        <5>2. ScopedDelivery'
          BY <3>1, <4>2, <5>1, ScopedPush DEF SendReliable
        <5> QED
          BY <3>3, <3>4, <4>1, <5>2
      <4>3. CASE got' = got
        BY <3>3, <3>4, <3>5, <4>1, <4>3
      <4> QED
        BY <3>13, <4>2, <4>3 DEF SignalPeer
    <3> QED
      BY <2>3, <3>7, <3>8, <3>9, <3>10, <3>11, <3>12, <3>13, <3>14 DEF ReaderStep
  <2>4. CASE \/ \E c \in Conns : \/ Join(c) \/ SetPermission(c) \/ HandlerReturns(c)
                                 \/ LeaveRoom(c) \/ RemoveInterest(c)
             \/ StartDraining \/ BeginDrain \/ UNCHANGED vars
    BY <2>2, <2>4 DEF Join, SetPermission, HandlerReturns, LeaveRoom, RemoveInterest,
                      StartDraining, BeginDrain, vars
  <2> QED
    BY <2>1, <2>3, <2>4 DEF Next
<1>3. ScopeInv => ScopedDelivery
  BY DEF ScopeInv
<1> QED
  BY <1>1, <1>2, <1>3, TypeCorrect, PTL DEF Spec
-----------------------------------------------------------------------------
(* Reliable fan-out *)

\* Reader r has frame f still to send to d.
Owes(r, f, d) == At(r, "fanout") /\ Stamped(r) = f /\ d \in job[r].todo

Settled(f, d) == f \in got[d] \/ d \in closed \/ \E r \in Readers : Owes(r, f, d)

\* Each peer listed for a reliable frame has it, is being closed, or is still on
\* the list of the reader that relays it.
ReachInv ==
    \A k \in cast : \A d \in k.peers :
        ClassifyEvent(k.frame.msg.event) = "reliable" => Settled(k.frame, d)

\* Queues' histories and closes only grow.
LEMMA DeliveryGrows ==
    ASSUME TypeOK, [Next]_vars
    PROVE  (\A d \in Conns : got[d] \subseteq got'[d]) /\ closed \subseteq closed'
<1>1. ASSUME NEW r \in Readers, ReaderStep(r)
      PROVE  (\A d \in Conns : got[d] \subseteq got'[d]) /\ closed \subseteq closed'
  <2>1. \A d : \A c \in Conns : got[c] \subseteq Delivered(r, d)[c]
    BY DEF Delivered, TypeOK
  <2>2. got' = got \/ \E d : got' = Delivered(r, d)
    BY <1>1 DEF ReaderStep, UpdateInterest, CheckDraining, ListPeers, FilterSpatially,
         FilterPreview, RelayReliable, FanoutDone, CheckTarget, SignalPeer, SendReliable
  <2>3. closed \subseteq closed'
    BY <1>1 DEF ReaderStep, UpdateInterest, CheckDraining, ListPeers, FilterSpatially,
         FilterPreview, RelayReliable, FanoutDone, CheckTarget, SignalPeer, SendReliable
  <2> QED
    BY <2>1, <2>2, <2>3
<1>2. CASE ~\E r \in Readers : ReaderStep(r)
  BY <1>2 DEF Next, Frame, Join, SetPermission, HandlerReturns, LeaveRoom,
       RemoveInterest, StartDraining, BeginDrain, vars
<1> QED
  BY <1>1, <1>2

\* A frame being relayed is only touched by the reader that relays it.
LEMMA JobKept ==
    ASSUME TypeOK, [Next]_vars, NEW r \in Readers, job[r] # Idle, ~ReaderStep(r)
    PROVE  job'[r] = job[r]
<1>1. ASSUME NEW q \in Readers, ReaderStep(q), q # r
      PROVE  job'[r] = job[r]
  BY <1>1 DEF ReaderStep, UpdateInterest, CheckDraining, ListPeers, FilterSpatially,
       FilterPreview, RelayReliable, FanoutDone, CheckTarget, SignalPeer, Done, TypeOK
<1>2. ASSUME NEW q \in Readers, NEW m \in Inbox[q], Frame(q, m)
      PROVE  job'[r] = job[r]
  BY <1>2 DEF Frame, TypeOK
<1>3. CASE UNCHANGED job
  BY <1>3
<1>4. CASE \/ \E c \in Conns : \/ Join(c) \/ SetPermission(c) \/ HandlerReturns(c)
                               \/ LeaveRoom(c) \/ RemoveInterest(c)
           \/ StartDraining \/ BeginDrain \/ UNCHANGED vars
  BY <1>3, <1>4 DEF Join, SetPermission, HandlerReturns, LeaveRoom, RemoveInterest,
                    StartDraining, BeginDrain, vars
<1> QED
  BY <1>1, <1>2, <1>4 DEF Next

\* A fan-out of a reliable frame goes on owing what it owed, or has settled it.
LEMMA OwedKept ==
    ASSUME TypeOK, [Next]_vars, NEW r \in Readers, NEW f, NEW d, Owes(r, f, d),
           ClassifyEvent(f.msg.event) = "reliable"
    PROVE  f \in got'[d] \/ d \in closed' \/ Owes(r, f, d)'
<1>1. job[r] # Idle
  BY AtBusy DEF Owes
<1>2. /\ job[r] \in Jobs /\ d \in Conns /\ f.msg = job[r].msg
  BY <1>1, JobTyping DEF Owes, Stamped
<1>3. CASE job'[r] = job[r]
  BY <1>3 DEF Owes, At, Stamped, Sender
<1>4. CASE ~ReaderStep(r)
  BY <1>1, <1>3, <1>4, JobKept
<1>5. CASE RelayReliable(r)
  <2>1. PICK c \in job[r].todo :
          /\ SendReliable(r, c)
          /\ job'[r] = [job[r] EXCEPT !.todo = job[r].todo \ {c}]
    BY <1>5 DEF RelayReliable, TypeOK
  <2>2. CASE c = d
    BY <1>2, <2>1, <2>2 DEF SendReliable, Delivered, Owes, TypeOK
  <2>3. CASE c # d
    <3>1. /\ job'[r].pc = job[r].pc /\ job'[r].n = job[r].n /\ job'[r].msg = job[r].msg
          /\ job'[r].todo = job[r].todo \ {c}
      BY <1>2, <2>1 DEF Jobs
    <3> QED
      BY <2>3, <3>1 DEF Owes, At, Stamped, Sender
  <2> QED
    BY <2>2, <2>3
<1>6. ~FilterSpatially(r)
  BY <1>2 DEF FilterSpatially, Filtered, Class
<1>7. ~FanoutDone(r)
  BY DEF FanoutDone, Owes
<1>8. /\ ~UpdateInterest(r) /\ ~CheckDraining(r) /\ ~ListPeers(r) /\ ~FilterPreview(r)
      /\ ~CheckTarget(r) /\ ~SignalPeer(r)
  BY DEF Owes, At, UpdateInterest, CheckDraining, ListPeers, FilterPreview, CheckTarget,
         SignalPeer
<1> QED
  BY <1>4, <1>5, <1>6, <1>7, <1>8 DEF ReaderStep

\* ReliableReachesAll: a finished fan-out of a reliable frame left no listed peer
\* out, whatever the viewports, closes and departures in between.
THEOREM ReliableDelivered == Spec => []ReliableReachesAll
<1>1. Init => ReachInv
  BY DEF Init, ReachInv
<1>2. TypeOK /\ ReachInv /\ [Next]_vars => ReachInv'
  <2> SUFFICES ASSUME TypeOK, ReachInv, [Next]_vars,
                      NEW k \in cast', NEW d \in k.peers,
                      ClassifyEvent(k.frame.msg.event) = "reliable"
               PROVE  Settled(k.frame, d)'
    BY DEF ReachInv
  <2>1. CASE k \in cast
    <3>1. d \in Conns
      BY <2>1 DEF TypeOK
    <3>2. CASE k.frame \in got[d] \/ d \in closed
      BY <3>1, <3>2, DeliveryGrows DEF Settled
    <3>3. ASSUME NEW r \in Readers, Owes(r, k.frame, d)
          PROVE  Settled(k.frame, d)'
      BY <3>3, OwedKept DEF Settled
    <3> QED
      BY <2>1, <3>2, <3>3 DEF ReachInv, Settled
  <2>2. CASE k \notin cast
    <3>1. PICK r \in Readers : ListPeers(r)
      BY <2>2 DEF Next, ReaderStep, Frame, Join, SetPermission, HandlerReturns, LeaveRoom,
                  RemoveInterest, StartDraining, BeginDrain, UpdateInterest, CheckDraining,
                  FilterSpatially, FilterPreview, RelayReliable, FanoutDone, CheckTarget,
                  SignalPeer, vars
    <3> DEFINE peers == Members(Note[Sender(r)]) \ {Sender(r)}
    <3>2. k = [frame |-> Stamped(r), peers |-> peers]
      BY <2>2, <3>1 DEF ListPeers
    <3>3. job[r] \in Jobs
      BY <3>1, AtBusy, JobTyping DEF ListPeers
    <3>4. /\ job'[r].pc = "fanout" /\ job'[r].todo = peers
          /\ job'[r].n = job[r].n /\ job'[r].msg = job[r].msg
      BY <3>1, <3>3 DEF ListPeers, TypeOK, Jobs
    <3>5. Owes(r, k.frame, d)'
      BY <3>2, <3>4 DEF Owes, At, Stamped, Sender
    <3> QED
      BY <3>5 DEF Settled
  <2> QED
    BY <2>1, <2>2
<1>3. ReachInv => ReliableReachesAll
  <2> SUFFICES ASSUME ReachInv, NEW k \in cast,
                      ClassifyEvent(k.frame.msg.event) = "reliable",
                      \A r \in Readers : job[r] # Idle => Stamped(r) # k.frame,
                      NEW d \in k.peers
               PROVE  k.frame \in got[d] \/ d \in closed
    BY DEF ReliableReachesAll
  <2>1. ~\E r \in Readers : Owes(r, k.frame, d)
    BY AtBusy DEF Owes
  <2> QED
    BY <2>1 DEF ReachInv, Settled
<1> QED
  BY <1>1, <1>2, <1>3, TypeCorrect, PTL DEF Spec
-----------------------------------------------------------------------------
(* Strokes begin before they go on *)

\* A reader's frames are numbered in the order it accepts them, and it relays
\* only its latest.
NumberInv ==
    /\ \A r \in Readers : job[r] # Idle => job[r].n = count[r]
    /\ \A d \in Conns : \A f \in got[d] : f.n <= count[f.reader]

\* Who never turned ink previews off has no viewport that does.
MuteInv ==
    \A d \in Conns \ mutedInk :
        byConnection[d] # Nothing => "ink" \notin byConnection[d].mute

\* Reader r has frame f still to send to d, or has d before the second filter.
InkOwes(r, f, d) ==
    /\ job[r] # Idle /\ Stamped(r) = f
    /\ \/ At(r, "fanout") /\ d \in job[r].todo
       \/ At(r, "preview") /\ (d \in job[r].todo \/ d = job[r].peer)

\* Each peer listed for the beginning of a stroke that never turned ink off has
\* it, is being closed, or is still owed it.
InkInv ==
    \A k \in cast : \A d \in k.peers \ mutedInk :
        k.frame.msg.event = "ink.started" =>
            \/ k.frame \in got[d] \/ d \in closed
            \/ \E r \in Readers : InkOwes(r, k.frame, d)

\* A step pushes nothing, or one frame that its reader is relaying to one
\* connection that is not closed; it lists peers only in ListPeers.
LEMMA Pushes ==
    ASSUME TypeOK, [Next]_vars
    PROVE  /\ \/ got' = got
              \/ /\ cast' = cast
                 /\ \E r \in Readers : \E d \in Conns \ closed :
                       job[r] # Idle /\ got' = Delivered(r, d)
           /\ cast' = cast \/ \E r \in Readers : ListPeers(r)
<1> DEFINE Pushed == /\ cast' = cast
                     /\ \E r \in Readers : \E d \in Conns \ closed :
                           job[r] # Idle /\ got' = Delivered(r, d)
<1>1. ASSUME NEW r \in Readers, FilterPreview(r) PROVE got' = got \/ Pushed
  <2>1. job[r] # Idle
    BY <1>1, AtBusy DEF FilterPreview
  <2>2. \A d : d \notin Conns => Delivered(r, d) = got
    BY DEF Delivered, TypeOK
  <2> QED
    BY <1>1, <2>1, <2>2 DEF FilterPreview
<1>2. ASSUME NEW r \in Readers, RelayReliable(r) PROVE got' = got \/ Pushed
  <2>1. job[r] # Idle
    BY <1>2, AtBusy DEF RelayReliable
  <2>2. PICK d \in job[r].todo : SendReliable(r, d)
    BY <1>2 DEF RelayReliable
  <2>3. d \in Conns
    BY <2>1, JobTyping
  <2> QED
    BY <1>2, <2>1, <2>2, <2>3 DEF RelayReliable, SendReliable
<1>3. ASSUME NEW r \in Readers, SignalPeer(r) PROVE got' = got \/ Pushed
  <2>1. job[r] # Idle
    BY <1>3, AtBusy DEF SignalPeer
  <2> DEFINE d == job[r].msg.target
  <2>2. got' = got \/ (d \in Conns /\ SendReliable(r, d))
    BY <1>3 DEF SignalPeer, ConnectionByID, Members, TypeOK
  <2> HIDE DEF d
  <2>3. cast' = cast
    BY <1>3 DEF SignalPeer
  <2> QED
    BY <2>1, <2>2, <2>3 DEF SendReliable
<1>4. ASSUME NEW r \in Readers,
             UpdateInterest(r) \/ CheckDraining(r) \/ ListPeers(r) \/ FilterSpatially(r)
             \/ FanoutDone(r) \/ CheckTarget(r)
      PROVE  got' = got /\ (cast' = cast \/ ListPeers(r))
  BY <1>4 DEF UpdateInterest, CheckDraining, ListPeers, FilterSpatially, FanoutDone,
              CheckTarget
<1>5. CASE ~\E r \in Readers : ReaderStep(r)
  <2>1. got' = got /\ cast' = cast
    BY <1>5 DEF Next, Frame, Join, SetPermission, HandlerReturns, LeaveRoom,
                RemoveInterest, StartDraining, BeginDrain, vars
  <2> QED
    BY <2>1
<1>6. \A r \in Readers : FilterPreview(r) \/ RelayReliable(r) \/ SignalPeer(r) =>
                            cast' = cast
  BY DEF FilterPreview, RelayReliable, SignalPeer
<1> HIDE DEF Pushed
<1>7. got' = got \/ Pushed
  BY <1>1, <1>2, <1>3, <1>4, <1>5 DEF ReaderStep, Pushed
<1>8. cast' = cast \/ \E r \in Readers : ListPeers(r)
  <2>1. CASE ~\E r \in Readers : ReaderStep(r)
    BY <2>1 DEF Next, Frame, Join, SetPermission, HandlerReturns, LeaveRoom,
                RemoveInterest, StartDraining, BeginDrain, vars
  <2> QED
    BY <1>4, <1>6, <2>1 DEF ReaderStep
<1> QED
  BY <1>7, <1>8 DEF Pushed

\* A reader ends its frame or goes on with the same one.
LEMMA SameFrame ==
    ASSUME TypeOK, NEW r \in Readers, ReaderStep(r), job[r] # Idle, job'[r] # Idle
    PROVE  job'[r].n = job[r].n /\ job'[r].msg = job[r].msg
<1>1. job[r] \in Jobs /\ job \in [Readers -> {Idle} \cup Jobs]
  BY JobTyping DEF TypeOK
<1>2. ~Done(r)
  BY <1>1 DEF Done
<1>3. CASE ListPeers(r)
  BY <1>1, <1>3 DEF ListPeers, Jobs
<1>4. CASE FilterSpatially(r)
  BY <1>1, <1>4 DEF FilterSpatially, Jobs
<1>5. CASE FilterPreview(r)
  BY <1>1, <1>5 DEF FilterPreview, Jobs
<1>6. CASE RelayReliable(r)
  BY <1>1, <1>6 DEF RelayReliable, Jobs
<1>7. CASE CheckTarget(r)
  BY <1>1, <1>2, <1>7 DEF CheckTarget, Jobs
<1>8. CASE CheckDraining(r)
  BY <1>1, <1>2, <1>8 DEF CheckDraining, Jobs
<1> QED
  BY <1>2, <1>3, <1>4, <1>5, <1>6, <1>7, <1>8
  DEF ReaderStep, UpdateInterest, FanoutDone, SignalPeer

\* Frames keep their numbers while they are relayed, and numbers only grow.
LEMMA NumberStep ==
    ASSUME TypeOK, NumberInv, [Next]_vars
    PROVE  /\ NumberInv'
           /\ \A r \in Readers : count[r] <= count'[r]
<1>0. \A r \in Readers : count[r] \in Nat /\ count'[r] \in Nat
  BY TypeStep DEF TypeOK
<1>1. \A r \in Readers : count[r] <= count'[r]
  <2>1. ASSUME NEW q \in Readers, NEW m \in Inbox[q], Frame(q, m)
        PROVE  \A r \in Readers : count[r] <= count'[r]
    BY <1>0, <2>1 DEF Frame, TypeOK
  <2>2. CASE count' = count
    BY <1>0, <2>2
  <2> QED
    BY <2>1, <2>2 DEF Next, ReaderStep, UpdateInterest, CheckDraining, ListPeers,
       FilterSpatially, FilterPreview, RelayReliable, FanoutDone, CheckTarget,
       SignalPeer, Join, SetPermission, HandlerReturns, LeaveRoom, RemoveInterest,
       StartDraining, BeginDrain, vars
<1>2. ASSUME NEW r \in Readers, job'[r] # Idle PROVE job'[r].n = count'[r]
  <2>1. CASE \E m \in Inbox[r] : Frame(r, m)
    BY <1>2, <2>1 DEF Frame, TypeOK
  <2>2. CASE ReaderStep(r)
    <3>1. job[r] # Idle
      BY <2>2, AtBusy DEF ReaderStep, UpdateInterest, CheckDraining, ListPeers,
         FilterSpatially, FilterPreview, RelayReliable, FanoutDone, CheckTarget,
         SignalPeer
    <3>2. job[r] \in Jobs /\ count' = count
      BY <2>2, <3>1, JobTyping DEF ReaderStep, UpdateInterest, CheckDraining, ListPeers,
         FilterSpatially, FilterPreview, RelayReliable, FanoutDone, CheckTarget,
         SignalPeer
    <3>3. job'[r].n = job[r].n
      BY <1>2, <2>2, <3>1, SameFrame
    <3> QED
      BY <3>1, <3>2, <3>3 DEF NumberInv
  <2>3. CASE ~ReaderStep(r) /\ ~\E m \in Inbox[r] : Frame(r, m)
    <3>1. ASSUME NEW q \in Readers \ {r}, NEW m \in Inbox[q], Frame(q, m)
          PROVE  job'[r] = job[r] /\ count'[r] = count[r]
      BY <3>1 DEF Frame, TypeOK
    <3>2. ASSUME NEW q \in Readers \ {r}, ReaderStep(q)
          PROVE  job'[r] = job[r] /\ count'[r] = count[r]
      BY <3>2 DEF ReaderStep, UpdateInterest, CheckDraining, ListPeers, FilterSpatially,
         FilterPreview, RelayReliable, FanoutDone, CheckTarget, SignalPeer, Done, TypeOK
    <3>3. ASSUME \/ \E c \in Conns : \/ Join(c) \/ SetPermission(c) \/ HandlerReturns(c)
                                     \/ LeaveRoom(c) \/ RemoveInterest(c)
                 \/ StartDraining \/ BeginDrain \/ UNCHANGED vars
          PROVE  job'[r] = job[r] /\ count'[r] = count[r]
      <4>1. job' = job /\ count' = count
        BY <3>3 DEF Join, SetPermission, HandlerReturns, LeaveRoom, RemoveInterest,
                    StartDraining, BeginDrain, vars
      <4> QED BY <4>1
    <3>4. job'[r] = job[r] /\ count'[r] = count[r]
      BY <2>3, <3>1, <3>2, <3>3 DEF Next
    <3> QED
      BY <1>2, <3>4 DEF NumberInv
  <2> QED
    BY <2>1, <2>2, <2>3
<1>3. ASSUME NEW d \in Conns, NEW f \in got'[d] PROVE f.n <= count'[f.reader]
  <2>1. f \in Frames
    BY TypeStep, <1>3 DEF TypeOK
  <2>2. f.reader \in Readers /\ f.n \in Nat
    BY <2>1 DEF Frames
  <2>3. CASE f \in got[d]
    BY <1>0, <1>1, <2>2, <2>3 DEF NumberInv
  <2>4. CASE f \notin got[d]
    <3>1. PICK r \in Readers : job[r] # Idle /\ f = Stamped(r)
      BY <1>3, <2>4, Pushes DEF Delivered, TypeOK
    <3>2. f.reader = r /\ f.n = count[r]
      BY <3>1 DEF Stamped, NumberInv
    <3> QED
      BY <1>0, <1>1, <2>2, <3>2
  <2> QED
    BY <2>3, <2>4
<1> QED
  BY <1>1, <1>2, <1>3 DEF NumberInv

\* A report that turns ink off is remembered with the viewport that does it.
LEMMA MuteStep ==
    ASSUME TypeOK, MuteInv, [Next]_vars
    PROVE  MuteInv' /\ mutedInk \subseteq mutedInk'
<1>1. ASSUME NEW r \in Readers, UpdateInterest(r)
      PROVE  MuteInv' /\ mutedInk \subseteq mutedInk'
  <2>1. byConnection \in [Conns -> Viewports \cup {Nothing}]
    BY DEF TypeOK
  <2> QED
    BY <1>1, <2>1 DEF UpdateInterest, Remove, Deleted, MuteInv
<1>2. ASSUME NEW c \in Conns, RemoveInterest(c)
      PROVE  MuteInv' /\ mutedInk \subseteq mutedInk'
  BY <1>2 DEF RemoveInterest, Remove, Deleted, MuteInv, TypeOK
<1>3. CASE UNCHANGED <<byConnection, mutedInk>>
  BY <1>3 DEF MuteInv
<1>4. CASE /\ ~\E r \in Readers : UpdateInterest(r)
           /\ ~\E c \in Conns : RemoveInterest(c)
  <2>1. UNCHANGED indexVars
    BY <1>4 DEF Next, ReaderStep, Frame, Join, SetPermission, HandlerReturns, LeaveRoom,
                StartDraining, BeginDrain, CheckDraining, ListPeers, FilterSpatially,
                FilterPreview, RelayReliable, FanoutDone, CheckTarget, SignalPeer, vars
  <2> QED
    BY <1>3, <2>1
<1> QED
  BY <1>1, <1>2, <1>4

\* The beginning of a stroke goes past the spatial filter and, unless the peer
\* ever turned ink off, past the second one.
LEMMA InkOwedKept ==
    ASSUME TypeOK, MuteInv, [Next]_vars, NEW r \in Readers, NEW f,
           NEW d \in Conns \ mutedInk, InkOwes(r, f, d), f.msg.event = "ink.started"
    PROVE  f \in got'[d] \/ d \in closed' \/ InkOwes(r, f, d)'
<1>1. job[r] # Idle /\ job[r] \in Jobs /\ f.msg = job[r].msg /\ Stamped(r) = f
  BY JobTyping DEF InkOwes, Stamped
<1>2. CASE ~ReaderStep(r)
  <2>1. job'[r] = job[r]
    BY <1>1, <1>2, JobKept
  <2> QED
    BY <2>1 DEF InkOwes, At, Stamped, Sender
<1>3. Filtered(r) /\ IsLiveInk(job[r].msg.event) /\ StreamOf(job[r].msg.event) = "ink"
  <2>1. job[r].msg.event = "ink.started"
    BY <1>1
  <2>2. ClassifyEvent("ink.started") = "ephemeral"
    BY Classes DEF EphemeralEvents
  <2>3. StreamOf("ink.started") = "ink"
    BY DEF StreamOf
  <2> QED
    BY <2>1, <2>2, <2>3 DEF Filtered, Class, IsLiveInk
<1>4. CASE FilterSpatially(r)
  <2>1. PICK e \in job[r].todo :
          job' = [job EXCEPT ![r].pc = "preview", ![r].peer = e, ![r].todo = @ \ {e}]
    BY <1>3, <1>4 DEF FilterSpatially
  <2>2. At(r, "fanout")
    BY <1>4 DEF FilterSpatially
  <2>3. /\ job'[r].pc = "preview" /\ job'[r].peer = e /\ job'[r].todo = job[r].todo \ {e}
        /\ job'[r].n = job[r].n /\ job'[r].msg = job[r].msg
    BY <1>1, <2>1 DEF TypeOK, Jobs
  <2>4. d \in job[r].todo
    BY <2>2 DEF InkOwes, At
  <2>5. job'[r] # Idle
    BY <2>3 DEF Idle
  <2> QED
    BY <1>1, <2>3, <2>4, <2>5 DEF InkOwes, At, Stamped, Sender
<1>5. CASE FilterPreview(r)
  <2>1. /\ job'[r].pc = "fanout" /\ job'[r].todo = job[r].todo
        /\ job'[r].n = job[r].n /\ job'[r].msg = job[r].msg
    BY <1>1, <1>5 DEF FilterPreview, TypeOK, Jobs
  <2>2. job'[r] # Idle
    BY <2>1 DEF Idle
  <2>3. CASE d \in job[r].todo
    BY <1>1, <2>1, <2>2, <2>3 DEF InkOwes, At, Stamped, Sender
  <2>4. CASE d = job[r].peer
    <3>1. AllowsPreview(d, job[r].msg.event)
      BY <1>3 DEF AllowsPreview, MuteInv
    <3>2. got' = (IF d \notin closed THEN Delivered(r, d) ELSE got) /\ closed' = closed
      BY <1>5, <2>4, <3>1 DEF FilterPreview
    <3> QED
      BY <1>1, <3>2 DEF Delivered, TypeOK
  <2>5. At(r, "preview")
    BY <1>5 DEF FilterPreview
  <2> QED
    BY <2>3, <2>4, <2>5 DEF InkOwes, At
<1>6. ~RelayReliable(r)
  BY <1>3 DEF RelayReliable
<1>7. ~FanoutDone(r)
  BY DEF FanoutDone, InkOwes, At
<1>8. /\ ~UpdateInterest(r) /\ ~CheckDraining(r) /\ ~ListPeers(r)
      /\ ~CheckTarget(r) /\ ~SignalPeer(r)
  BY DEF InkOwes, At, UpdateInterest, CheckDraining, ListPeers, CheckTarget, SignalPeer
<1> QED
  BY <1>2, <1>4, <1>5, <1>6, <1>7, <1>8 DEF ReaderStep

\* No listed peer loses the beginning of a stroke and stays open.
LEMMA InkStep ==
    ASSUME TypeOK, MuteInv, InkInv, [Next]_vars
    PROVE  InkInv'
<1> SUFFICES ASSUME NEW k \in cast', NEW d \in k.peers \ mutedInk',
                    k.frame.msg.event = "ink.started"
             PROVE  \/ k.frame \in got'[d] \/ d \in closed'
                    \/ \E r \in Readers : InkOwes(r, k.frame, d)'
  BY DEF InkInv
<1>1. d \in Conns \ mutedInk
  BY TypeStep, MuteStep DEF TypeOK
<1>2. CASE k \in cast
  <2>1. CASE k.frame \in got[d] \/ d \in closed
    BY <1>1, <2>1, DeliveryGrows
  <2>2. ASSUME NEW r \in Readers, InkOwes(r, k.frame, d)
        PROVE  k.frame \in got'[d] \/ d \in closed' \/ InkOwes(r, k.frame, d)'
    BY <1>1, <2>2, InkOwedKept
  <2> QED
    BY <1>1, <1>2, <2>1, <2>2 DEF InkInv
<1>3. CASE k \notin cast
  <2>1. PICK r \in Readers : ListPeers(r)
    BY <1>3, Pushes
  <2> DEFINE peers == Members(Note[Sender(r)]) \ {Sender(r)}
  <2>2. k = [frame |-> Stamped(r), peers |-> peers]
    BY <1>3, <2>1 DEF ListPeers
  <2>3. job[r] \in Jobs
    BY <2>1, AtBusy, JobTyping DEF ListPeers
  <2>4. /\ job'[r].pc = "fanout" /\ job'[r].todo = peers
        /\ job'[r].n = job[r].n /\ job'[r].msg = job[r].msg
    BY <2>1, <2>3 DEF ListPeers, TypeOK, Jobs
  <2>5. InkOwes(r, k.frame, d)'
    BY <2>2, <2>4 DEF InkOwes, At, Stamped, Sender, Idle
  <2> QED
    BY <2>5
<1> QED
  BY <1>2, <1>3

\* InkBegins: whoever was listed when a stroke began and never turned ink off
\* holds its beginning before any of its points, whatever viewports, closes and
\* other readers do in between.
THEOREM InkBegun == Spec => []InkBegins
<1> DEFINE Inv == NumberInv /\ MuteInv /\ InkInv /\ InkBegins
<1>1. Init => Inv
  BY DEF Init, NumberInv, MuteInv, InkInv, InkBegins
<1>2. TypeOK /\ Inv /\ [Next]_vars => Inv'
  <2> SUFFICES ASSUME TypeOK, Inv, [Next]_vars PROVE Inv'
    OBVIOUS
  <2>1. NumberInv' /\ MuteInv' /\ InkInv' /\ mutedInk \subseteq mutedInk'
    BY NumberStep, MuteStep, InkStep
  <2>2. InkBegins'
    <3> SUFFICES ASSUME NEW d \in Conns \ mutedInk', NEW f \in got'[d],
                        f.msg.event = "ink.points", NEW k \in cast',
                        k.frame.msg.event = "ink.started",
                        k.frame.reader = f.reader, k.frame.n < f.n, d \in k.peers
                 PROVE  k.frame \in got'[d]
      BY DEF InkBegins
    <3>0. d \in Conns \ mutedInk /\ got[d] \subseteq got'[d]
      BY <2>1, DeliveryGrows
    <3>1. CASE f \in got[d] /\ k \in cast
      BY <3>0, <3>1 DEF InkBegins
    <3>2. CASE f \in got[d] /\ k \notin cast
      <4>1. PICK r \in Readers : ListPeers(r)
        BY <3>2, Pushes
      <4>2. k.frame = Stamped(r) /\ job[r] # Idle
        BY <3>2, <4>1, AtBusy DEF ListPeers
      <4>3. k.frame.reader = r /\ k.frame.n = count[r] /\ count[r] \in Nat
        BY <4>2 DEF Stamped, NumberInv, TypeOK
      <4>4. f \in Frames /\ f.n <= count[f.reader]
        BY <3>0, <3>2 DEF NumberInv, TypeOK
      <4>5. f.n <= count[r] /\ f.n \in Nat
        BY <4>3, <4>4 DEF Frames
      <4> QED
        BY <4>3, <4>5
    <3>3. CASE f \notin got[d]
      <4>1. cast' = cast /\ \E r \in Readers : \E e \in Conns \ closed :
                               job[r] # Idle /\ got' = Delivered(r, e)
        BY <3>3, Pushes
      <4>2. PICK r \in Readers, e \in Conns \ closed :
               job[r] # Idle /\ got' = Delivered(r, e)
        BY <4>1
      <4>3. e = d /\ f = Stamped(r)
        BY <3>3, <4>2 DEF Delivered, TypeOK
      <4>4. f.reader = r /\ f.n = job[r].n /\ job[r].n \in Nat
        BY <4>2, <4>3, JobTyping DEF Stamped
      <4>5. \A q \in Readers : ~InkOwes(q, k.frame, d)
        BY <4>4, <4>2, JobTyping DEF InkOwes, Stamped
      <4> QED
        BY <3>0, <4>1, <4>2, <4>3, <4>5 DEF InkInv
    <3> QED
      BY <3>1, <3>2, <3>3
  <2> QED
    BY <2>1, <2>2
<1>3. Inv => InkBegins
  OBVIOUS
<1> QED
  BY <1>1, <1>2, <1>3, TypeCorrect, PTL DEF Spec
===============================================================================
