---------------------------- MODULE Rooms_proofs ----------------------------
(***************************************************************************)
(* Proofs about Rooms, for any number of connections and notes, any set of *)
(* slow connections and of leavers, and whenever the drain begins.         *)
(***************************************************************************)
EXTENDS Rooms, TLAPS

-----------------------------------------------------------------------------
(* The inductive invariant *)

Steps == {"new", "checked", "joined", "listed", "greeted", "announcing", "open",
          "closing", "leaving", "left", "farewell", "gone"}

\* The types of what a handler and its client keep.
RoomTypes ==
    /\ room \subseteq Conns /\ closed \subseteq Conns
    /\ hpc \in [Conns -> Steps]
    /\ roster \in [Conns -> SUBSET Conns] /\ todo \in [Conns -> SUBSET Conns]
    /\ quiet \in [Conns -> BOOLEAN] /\ draining \in BOOLEAN
    /\ view \in [Conns -> SUBSET Conns] /\ early \in [Conns -> SUBSET Conns]
    /\ dtodo \subseteq Conns

\* The steps of a handler between StoreJoin and StoreLeave.
Inside == {"joined", "listed", "greeted", "announcing", "open", "closing",
           "leaving"}

\* The store holds handlers inside, until the drain all of them, and until the
\* drain every departure is to be announced.
StoreInv ==
    /\ \A c \in room : hpc[c] \in Inside
    /\ ~draining => \A c \in Conns : /\ hpc[c] \in Inside => c \in room
                                     /\ ~quiet[c]

\* Whoever a list or a client names has entered the store, on the same note.
HearsayInv ==
    \A c, d \in Conns :
        d \in view[c] \cup roster[c] \cup todo[c] =>
            Note[d] = Note[c] /\ hpc[d] \notin {"new", "checked"}

\* A client in the room that loses no frame, from its ListMembers on.
Listens(c) ==
    /\ hpc[c] \in {"listed", "greeted", "announcing", "open"}
    /\ c \notin closed /\ c \notin Slow

\* The client knows of d, or will from the roster that replaces what it knows.
Named(c, d) == IF hpc[c] = "listed" THEN d \in roster[c] ELSE d \in view[c]

\* The presence.joined of d has still to reach c.
JoinedDue(c, d) ==
    \/ hpc[d] \in {"joined", "listed", "greeted"}
    \/ hpc[d] = "announcing" /\ c \in todo[d]

\* The presence.left of d has still to reach c.
LeftDue(c, d) ==
    \/ hpc[d] = "left"
    \/ hpc[d] = "farewell" /\ c \in todo[d]

\* A listening client, once its members are listed, and of everybody who was not
\* named to it before its roster: it knows of every other member of its room or
\* is about to, and of itself; and it is still to learn of the departure of
\* everybody it knows of who left.
PresenceInv ==
    ~draining =>
        \A c, d \in Conns :
            Listens(c) /\ Note[c] = Note[d] /\ d \notin early[c] =>
                /\ hpc[d] \in Inside /\ c # d => Named(c, d) \/ JoinedDue(c, d)
                /\ c = d => Named(c, d)
                /\ Named(c, d) /\ hpc[d] \in {"left", "farewell", "gone"} =>
                      LeftDue(c, d)

-----------------------------------------------------------------------------
(* Every step keeps it *)

\* Every step of a handler or of the drain keeps the types.
LEMMA TypeStep ==
    ASSUME RoomTypes, [Next]_vars
    PROVE  RoomTypes'
<1> USE DEF connVars, drainVars, clientVars, Names
<1>1. CASE UNCHANGED vars
  BY <1>1 DEF vars, RoomTypes, Steps
<1>2. ASSUME NEW h \in Conns, CheckDraining(h) PROVE RoomTypes'
  BY <1>2 DEF CheckDraining, RoomTypes, Steps
<1>3. ASSUME NEW h \in Conns, StoreJoin(h) PROVE RoomTypes'
  BY <1>3 DEF StoreJoin, RoomTypes, Steps
<1>4. ASSUME NEW h \in Conns, ListMembers(h) PROVE RoomTypes'
  BY <1>4 DEF ListMembers, Members, RoomTypes, Steps
<1>5. ASSUME NEW h \in Conns, SendRoster(h) PROVE RoomTypes'
  BY <1>5 DEF SendRoster, Refuses, RoomTypes, Steps
<1>6. ASSUME NEW h \in Conns, ListPeers(h) PROVE RoomTypes'
  BY <1>6 DEF ListPeers, Peers, Members, RoomTypes, Steps
<1>7. ASSUME NEW h \in Conns, TellJoined(h) PROVE RoomTypes'
  BY <1>7 DEF TellJoined, Refuses, RoomTypes, Steps
<1>8. ASSUME NEW h \in Conns, Joined(h) PROVE RoomTypes'
  BY <1>8 DEF Joined, RoomTypes, Steps
<1>9. ASSUME NEW h \in Conns, ClientGone(h) PROVE RoomTypes'
  BY <1>9 DEF ClientGone, RoomTypes, Steps
<1>10. ASSUME NEW h \in Conns, ReadFails(h) PROVE RoomTypes'
  BY <1>10 DEF ReadFails, RoomTypes, Steps
<1>11. ASSUME NEW h \in Conns, CheckQuiet(h) PROVE RoomTypes'
  BY <1>11 DEF CheckQuiet, RoomTypes, Steps
<1>12. ASSUME NEW h \in Conns, StoreLeave(h) PROVE RoomTypes'
  BY <1>12 DEF StoreLeave, RoomTypes, Steps
<1>13. ASSUME NEW h \in Conns, ListRemaining(h) PROVE RoomTypes'
  BY <1>13 DEF ListRemaining, Peers, Members, RoomTypes, Steps
<1>14. ASSUME NEW h \in Conns, TellLeft(h) PROVE RoomTypes'
  BY <1>14 DEF TellLeft, Refuses, RoomTypes, Steps
<1>15. ASSUME NEW h \in Conns, Left(h) PROVE RoomTypes'
  BY <1>15 DEF Left, RoomTypes, Steps
<1>16. CASE BeginDrain
  BY <1>16 DEF BeginDrain, RoomTypes, Steps
<1>17. CASE DrainSnapshot
  BY <1>17 DEF DrainSnapshot, RoomTypes, Steps
<1>18. CASE SendDraining
  BY <1>18 DEF SendDraining, RoomTypes, Steps
<1>19. CASE WaitEnds
  BY <1>19 DEF WaitEnds, RoomTypes, Steps
<1>20. CASE CloseOne
  BY <1>20 DEF CloseOne, RoomTypes, Steps
<1>21. CASE DrainDone
  BY <1>21 DEF DrainDone, RoomTypes, Steps
<1>22. QED
  BY <1>1, <1>2, <1>3, <1>4, <1>5, <1>6, <1>7, <1>8, <1>9, <1>10, <1>11,
     <1>12, <1>13, <1>14, <1>15, <1>16, <1>17, <1>18, <1>19, <1>20, <1>21
     DEF Next, Handler, Shutdown

\* A handler is in the store from StoreJoin to StoreLeave.
LEMMA StoreStep ==
    ASSUME RoomTypes, StoreInv, [Next]_vars
    PROVE  StoreInv'
<1> USE DEF connVars, drainVars, clientVars, Names
<1>1. CASE UNCHANGED vars
  BY <1>1 DEF vars, RoomTypes, StoreInv, Inside
<1>2. ASSUME NEW h \in Conns, CheckDraining(h) PROVE StoreInv'
  BY <1>2 DEF CheckDraining, RoomTypes, StoreInv, Inside
<1>3. ASSUME NEW h \in Conns, StoreJoin(h) PROVE StoreInv'
  BY <1>3 DEF StoreJoin, RoomTypes, StoreInv, Inside
<1>4. ASSUME NEW h \in Conns, ListMembers(h) PROVE StoreInv'
  BY <1>4 DEF ListMembers, Members, RoomTypes, StoreInv, Inside
<1>5. ASSUME NEW h \in Conns, SendRoster(h) PROVE StoreInv'
  BY <1>5 DEF SendRoster, Refuses, RoomTypes, StoreInv, Inside
<1>6. ASSUME NEW h \in Conns, ListPeers(h) PROVE StoreInv'
  BY <1>6 DEF ListPeers, Peers, Members, RoomTypes, StoreInv, Inside
<1>7. ASSUME NEW h \in Conns, TellJoined(h) PROVE StoreInv'
  BY <1>7 DEF TellJoined, Refuses, RoomTypes, StoreInv, Inside
<1>8. ASSUME NEW h \in Conns, Joined(h) PROVE StoreInv'
  BY <1>8 DEF Joined, RoomTypes, StoreInv, Inside
<1>9. ASSUME NEW h \in Conns, ClientGone(h) PROVE StoreInv'
  BY <1>9 DEF ClientGone, RoomTypes, StoreInv, Inside
<1>10. ASSUME NEW h \in Conns, ReadFails(h) PROVE StoreInv'
  BY <1>10 DEF ReadFails, RoomTypes, StoreInv, Inside
<1>11. ASSUME NEW h \in Conns, CheckQuiet(h) PROVE StoreInv'
  BY <1>11 DEF CheckQuiet, RoomTypes, StoreInv, Inside
<1>12. ASSUME NEW h \in Conns, StoreLeave(h) PROVE StoreInv'
  BY <1>12 DEF StoreLeave, RoomTypes, StoreInv, Inside
<1>13. ASSUME NEW h \in Conns, ListRemaining(h) PROVE StoreInv'
  BY <1>13 DEF ListRemaining, Peers, Members, RoomTypes, StoreInv, Inside
<1>14. ASSUME NEW h \in Conns, TellLeft(h) PROVE StoreInv'
  BY <1>14 DEF TellLeft, Refuses, RoomTypes, StoreInv, Inside
<1>15. ASSUME NEW h \in Conns, Left(h) PROVE StoreInv'
  BY <1>15 DEF Left, RoomTypes, StoreInv, Inside
<1>16. CASE BeginDrain
  BY <1>16 DEF BeginDrain, RoomTypes, StoreInv, Inside
<1>17. CASE DrainSnapshot
  BY <1>17 DEF DrainSnapshot, RoomTypes, StoreInv, Inside
<1>18. CASE SendDraining
  BY <1>18 DEF SendDraining, RoomTypes, StoreInv, Inside
<1>19. CASE WaitEnds
  BY <1>19 DEF WaitEnds, RoomTypes, StoreInv, Inside
<1>20. CASE CloseOne
  BY <1>20 DEF CloseOne, RoomTypes, StoreInv, Inside
<1>21. CASE DrainDone
  BY <1>21 DEF DrainDone, RoomTypes, StoreInv, Inside
<1>22. QED
  BY <1>1, <1>2, <1>3, <1>4, <1>5, <1>6, <1>7, <1>8, <1>9, <1>10, <1>11,
     <1>12, <1>13, <1>14, <1>15, <1>16, <1>17, <1>18, <1>19, <1>20, <1>21
     DEF Next, Handler, Shutdown

\* Lists are read from the store, and what they name came from it.
LEMMA HearsayStep ==
    ASSUME RoomTypes, StoreInv, HearsayInv, [Next]_vars
    PROVE  HearsayInv'
<1> USE DEF connVars, drainVars, clientVars, Names
<1>1. CASE UNCHANGED vars
  BY <1>1 DEF vars, RoomTypes, StoreInv, HearsayInv, Inside
<1>2. ASSUME NEW h \in Conns, CheckDraining(h) PROVE HearsayInv'
  BY <1>2 DEF CheckDraining, RoomTypes, StoreInv, HearsayInv, Inside
<1>3. ASSUME NEW h \in Conns, StoreJoin(h) PROVE HearsayInv'
  BY <1>3 DEF StoreJoin, RoomTypes, StoreInv, HearsayInv, Inside
<1>4. ASSUME NEW h \in Conns, ListMembers(h) PROVE HearsayInv'
  BY <1>4 DEF ListMembers, Members, RoomTypes, StoreInv, HearsayInv, Inside
<1>5. ASSUME NEW h \in Conns, SendRoster(h) PROVE HearsayInv'
  BY <1>5 DEF SendRoster, Refuses, RoomTypes, StoreInv, HearsayInv, Inside
<1>6. ASSUME NEW h \in Conns, ListPeers(h) PROVE HearsayInv'
  BY <1>6 DEF ListPeers, Peers, Members, RoomTypes, StoreInv, HearsayInv,
     Inside
<1>7. ASSUME NEW h \in Conns, TellJoined(h) PROVE HearsayInv'
  BY <1>7 DEF TellJoined, Refuses, RoomTypes, StoreInv, HearsayInv, Inside
<1>8. ASSUME NEW h \in Conns, Joined(h) PROVE HearsayInv'
  BY <1>8 DEF Joined, RoomTypes, StoreInv, HearsayInv, Inside
<1>9. ASSUME NEW h \in Conns, ClientGone(h) PROVE HearsayInv'
  BY <1>9 DEF ClientGone, RoomTypes, StoreInv, HearsayInv, Inside
<1>10. ASSUME NEW h \in Conns, ReadFails(h) PROVE HearsayInv'
  BY <1>10 DEF ReadFails, RoomTypes, StoreInv, HearsayInv, Inside
<1>11. ASSUME NEW h \in Conns, CheckQuiet(h) PROVE HearsayInv'
  BY <1>11 DEF CheckQuiet, RoomTypes, StoreInv, HearsayInv, Inside
<1>12. ASSUME NEW h \in Conns, StoreLeave(h) PROVE HearsayInv'
  BY <1>12 DEF StoreLeave, RoomTypes, StoreInv, HearsayInv, Inside
<1>13. ASSUME NEW h \in Conns, ListRemaining(h) PROVE HearsayInv'
  BY <1>13 DEF ListRemaining, Peers, Members, RoomTypes, StoreInv,
     HearsayInv, Inside
<1>14. ASSUME NEW h \in Conns, TellLeft(h) PROVE HearsayInv'
  BY <1>14 DEF TellLeft, Refuses, RoomTypes, StoreInv, HearsayInv, Inside
<1>15. ASSUME NEW h \in Conns, Left(h) PROVE HearsayInv'
  BY <1>15 DEF Left, RoomTypes, StoreInv, HearsayInv, Inside
<1>16. CASE BeginDrain
  BY <1>16 DEF BeginDrain, RoomTypes, StoreInv, HearsayInv, Inside
<1>17. CASE DrainSnapshot
  BY <1>17 DEF DrainSnapshot, RoomTypes, StoreInv, HearsayInv, Inside
<1>18. CASE SendDraining
  BY <1>18 DEF SendDraining, RoomTypes, StoreInv, HearsayInv, Inside
<1>19. CASE WaitEnds
  BY <1>19 DEF WaitEnds, RoomTypes, StoreInv, HearsayInv, Inside
<1>20. CASE CloseOne
  BY <1>20 DEF CloseOne, RoomTypes, StoreInv, HearsayInv, Inside
<1>21. CASE DrainDone
  BY <1>21 DEF DrainDone, RoomTypes, StoreInv, HearsayInv, Inside
<1>22. QED
  BY <1>1, <1>2, <1>3, <1>4, <1>5, <1>6, <1>7, <1>8, <1>9, <1>10, <1>11,
     <1>12, <1>13, <1>14, <1>15, <1>16, <1>17, <1>18, <1>19, <1>20, <1>21
     DEF Next, Handler, Shutdown

\* Joins, departures and their announcements in any order leave no listening
\* client without the news.
LEMMA PresenceStep ==
    ASSUME RoomTypes, StoreInv, HearsayInv, PresenceInv, [Next]_vars
    PROVE  PresenceInv'
<1> USE RoomAssumption DEF connVars, drainVars, clientVars, Names
<1>1. CASE UNCHANGED vars
  BY <1>1 DEF vars, RoomTypes, StoreInv, HearsayInv, PresenceInv, Inside,
     Listens, Named, JoinedDue, LeftDue, Steps
<1>2. ASSUME NEW h \in Conns, CheckDraining(h) PROVE PresenceInv'
  BY <1>2 DEF CheckDraining, RoomTypes, StoreInv, HearsayInv, PresenceInv,
     Inside, Listens, Named, JoinedDue, LeftDue, Steps
<1>3. ASSUME NEW h \in Conns, StoreJoin(h) PROVE PresenceInv'
  BY <1>3 DEF StoreJoin, RoomTypes, StoreInv, HearsayInv, PresenceInv,
     Inside, Listens, Named, JoinedDue, LeftDue, Steps
<1>4. ASSUME NEW h \in Conns, ListMembers(h) PROVE PresenceInv'
  BY <1>4 DEF ListMembers, Members, RoomTypes, StoreInv, HearsayInv,
     PresenceInv, Inside, Listens, Named, JoinedDue, LeftDue, Steps
<1>5. ASSUME NEW h \in Conns, SendRoster(h) PROVE PresenceInv'
  BY <1>5 DEF SendRoster, Refuses, RoomTypes, StoreInv, HearsayInv,
     PresenceInv, Inside, Listens, Named, JoinedDue, LeftDue, Steps
<1>6. ASSUME NEW h \in Conns, ListPeers(h) PROVE PresenceInv'
  BY <1>6 DEF ListPeers, Peers, Members, RoomTypes, StoreInv, HearsayInv,
     PresenceInv, Inside, Listens, Named, JoinedDue, LeftDue, Steps
<1>7. ASSUME NEW h \in Conns, TellJoined(h) PROVE PresenceInv'
  BY <1>7 DEF TellJoined, Refuses, RoomTypes, StoreInv, HearsayInv,
     PresenceInv, Inside, Listens, Named, JoinedDue, LeftDue, Steps
<1>8. ASSUME NEW h \in Conns, Joined(h) PROVE PresenceInv'
  BY <1>8 DEF Joined, RoomTypes, StoreInv, HearsayInv, PresenceInv, Inside,
     Listens, Named, JoinedDue, LeftDue, Steps
<1>9. ASSUME NEW h \in Conns, ClientGone(h) PROVE PresenceInv'
  BY <1>9 DEF ClientGone, RoomTypes, StoreInv, HearsayInv, PresenceInv,
     Inside, Listens, Named, JoinedDue, LeftDue, Steps
<1>10. ASSUME NEW h \in Conns, ReadFails(h) PROVE PresenceInv'
  BY <1>10 DEF ReadFails, RoomTypes, StoreInv, HearsayInv, PresenceInv,
     Inside, Listens, Named, JoinedDue, LeftDue, Steps
<1>11. ASSUME NEW h \in Conns, CheckQuiet(h) PROVE PresenceInv'
  BY <1>11 DEF CheckQuiet, RoomTypes, StoreInv, HearsayInv, PresenceInv,
     Inside, Listens, Named, JoinedDue, LeftDue, Steps
<1>12. ASSUME NEW h \in Conns, StoreLeave(h) PROVE PresenceInv'
  BY <1>12 DEF StoreLeave, RoomTypes, StoreInv, HearsayInv, PresenceInv,
     Inside, Listens, Named, JoinedDue, LeftDue, Steps
<1>13. ASSUME NEW h \in Conns, ListRemaining(h) PROVE PresenceInv'
  BY <1>13 DEF ListRemaining, Peers, Members, RoomTypes, StoreInv,
     HearsayInv, PresenceInv, Inside, Listens, Named, JoinedDue, LeftDue,
     Steps
<1>14. ASSUME NEW h \in Conns, TellLeft(h) PROVE PresenceInv'
  BY <1>14 DEF TellLeft, Refuses, RoomTypes, StoreInv, HearsayInv,
     PresenceInv, Inside, Listens, Named, JoinedDue, LeftDue, Steps
<1>15. ASSUME NEW h \in Conns, Left(h) PROVE PresenceInv'
  BY <1>15 DEF Left, RoomTypes, StoreInv, HearsayInv, PresenceInv, Inside,
     Listens, Named, JoinedDue, LeftDue, Steps
<1>16. CASE BeginDrain
  BY <1>16 DEF BeginDrain, RoomTypes, StoreInv, HearsayInv, PresenceInv,
     Inside, Listens, Named, JoinedDue, LeftDue, Steps
<1>17. CASE DrainSnapshot
  BY <1>17 DEF DrainSnapshot, RoomTypes, StoreInv, HearsayInv, PresenceInv,
     Inside, Listens, Named, JoinedDue, LeftDue, Steps
<1>18. CASE SendDraining
  BY <1>18 DEF SendDraining, RoomTypes, StoreInv, HearsayInv, PresenceInv,
     Inside, Listens, Named, JoinedDue, LeftDue, Steps
<1>19. CASE WaitEnds
  BY <1>19 DEF WaitEnds, RoomTypes, StoreInv, HearsayInv, PresenceInv,
     Inside, Listens, Named, JoinedDue, LeftDue, Steps
<1>20. CASE CloseOne
  BY <1>20 DEF CloseOne, RoomTypes, StoreInv, HearsayInv, PresenceInv,
     Inside, Listens, Named, JoinedDue, LeftDue, Steps
<1>21. CASE DrainDone
  BY <1>21 DEF DrainDone, RoomTypes, StoreInv, HearsayInv, PresenceInv,
     Inside, Listens, Named, JoinedDue, LeftDue, Steps
<1>22. QED
  BY <1>1, <1>2, <1>3, <1>4, <1>5, <1>6, <1>7, <1>8, <1>9, <1>10, <1>11,
     <1>12, <1>13, <1>14, <1>15, <1>16, <1>17, <1>18, <1>19, <1>20, <1>21
     DEF Next, Handler, Shutdown

-----------------------------------------------------------------------------
(* The theorem *)

\* What the handlers, the store and the clients are in, at every step.
RoomInv == RoomTypes /\ StoreInv /\ HearsayInv /\ PresenceInv

\* RoomService.Join and Leave: however joins, departures, refused frames and
\* their broadcasts overlap, once they have settled every attentive client that
\* applied its frames in the order of its queue knows its room, but for those
\* whose presence frame came before its roster.
THEOREM PresenceHolds == Spec => []PresenceComplete
<1>1. Init => RoomInv
  BY RoomAssumption DEF Init, RoomInv, RoomTypes, StoreInv, HearsayInv,
     PresenceInv, Steps, Inside, Listens
<1>2. RoomInv /\ [Next]_vars => RoomInv'
  BY TypeStep, StoreStep, HearsayStep, PresenceStep DEF RoomInv
<1>3. RoomInv => PresenceComplete
  <2> SUFFICES ASSUME RoomInv, Settled, ~draining, NEW c \in Conns, Attentive(c)
               PROVE  view[c] \ early[c] = Members(Note[c]) \ early[c]
    BY DEF PresenceComplete
  <2>1. Listens(c) /\ hpc[c] = "open"
    BY DEF Attentive, Listens
  <2>2. ASSUME NEW d \in Conns, d \in view[c] \ early[c]
        PROVE  d \in Members(Note[c])
    <3>1. Note[d] = Note[c] /\ hpc[d] \in {"open", "gone"}
      BY <2>2 DEF RoomInv, HearsayInv, Settled
    <3>2. hpc[d] # "gone"
      BY <2>1, <2>2, <3>1 DEF RoomInv, PresenceInv, Named, LeftDue
    <3>3. QED
      BY <3>1, <3>2 DEF RoomInv, StoreInv, Inside, Members
  <2>3. ASSUME NEW d \in Conns, d \in Members(Note[c]) \ early[c]
        PROVE  d \in view[c]
    <3>1. hpc[d] = "open" /\ Note[d] = Note[c]
      BY <2>3 DEF RoomInv, StoreInv, Inside, Members, Settled
    <3>2. QED
      BY <2>1, <2>3, <3>1 DEF RoomInv, PresenceInv, Named, JoinedDue, Inside
  <2>4. view[c] \subseteq Conns /\ Members(Note[c]) \subseteq Conns
    BY DEF RoomInv, RoomTypes, Members
  <2>5. QED BY <2>2, <2>3, <2>4
<1>4. QED
  BY <1>1, <1>2, <1>3, PTL DEF Spec
=============================================================================
