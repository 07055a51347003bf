-------------------------- MODULE Sessions_proofs --------------------------
(***************************************************************************)
(* Proofs about Sessions, for any number of sessions, users, requests and  *)
(* connections, any mix of requests and any clock bound.                   *)
(***************************************************************************)
EXTENDS Sessions, FiniteSetTheorems, TLAPS

-----------------------------------------------------------------------------
(* Inductive invariants *)

\* Each request and each reader is at a step of its own handler.
OwnSteps ==
    /\ \A k \in Calls :
          \/ op[k] = "bootstrap" /\ at[k] \in {"start", "stamped", "saved",
                                               "issued", "dropping", "cut",
                                               "done"}
          \/ op[k] = "revoke" /\ at[k] \in {"start", "cut", "deleted",
                                            "closing", "done"}
          \/ op[k] = "ban" /\ at[k] \in {"start", "deleted", "closing", "done"}
          \/ op[k] = "update" /\ at[k] \in {"start", "updated", "applying",
                                            "done"}
          \/ op[k] = "none" /\ at[k] = "start"
    /\ \A c \in Conns : at[c] \in {"start", "touching", "refreshing", "read",
                                   "restamped", "saved", "updated", "applying"}

\* A permission is only applied to connections of the worker's own session.
OwnConnections ==
    \A w \in Workers : at[w] = "applying" =>
        \A c \in todo[w] : About[c] = About[w]

\* The ceiling together with what keeps it.
CeilingInv == TypeOK /\ OwnSteps /\ OwnConnections /\ GrantedCeiling

\* A request has issued nothing before it is past its save; a ticket in the
\* store is the only one of its request and nobody has redeemed it.
TicketInv ==
    /\ \A t \in tickets : /\ at[t.value] \notin {"start", "stamped", "saved"}
                          /\ spent[t.value] = {}
    /\ \A t, u \in tickets : t.value = u.value => t = u
    /\ \A k \in Calls : at[k] \in {"start", "stamped", "saved"} => spent[k] = {}
    /\ \A k \in Calls : spent[k] = {} \/ \E c \in Conns : spent[k] = {c}

\* What a revocation found on its arrival is accounted for at each of its
\* steps: closed, still in the room, or on its list.
FoundConns ==
    \A k \in Calls :
        op[k] \in {"revoke", "ban"} /\ at[k] # "start" =>
            \A c \in found[k].conns :
                \/ c \in closed
                \/ /\ at[k] \in {"cut", "deleted"}
                   /\ phase[c] = "joined" /\ About[c] \in Subject(k)
                \/ at[k] = "closing" /\ c \in todo[k]

\* No ticket that a revocation found is yet to be issued, and once it has
\* deleted them none is in the store.
FoundTickets ==
    \A k \in Calls :
        /\ \A b \in found[k].tickets : at[b] \notin {"start", "stamped", "saved"}
        /\ op[k] = "revoke" /\ at[k] # "start" =>
              \A t \in tickets : t.value \notin found[k].tickets

\* A reading on its way to a store is at most Lag old.
Readings ==
    \A w \in Workers : Stamped(w) =>
        arg[w].seen <= clock /\ clock <= arg[w].seen + Lag

\* Nothing is stored that was more than Lag old.  So no connection of a stored
\* session was touched more than a Lag after the sighting the session has, but
\* for touches on their way, and no frame was heard a TouchInterval later still.
HeardInv ==
    /\ \A c \in Conns : touched[c] <= clock
    /\ \A s \in Sids : heard[s] <= clock
    /\ \A c \in Conns : About[c] \in live /\ at[c] # "touching" =>
          touched[c] <= sess[About[c]].seen + Lag
    /\ \A s \in live : heard[s] <= sess[s].seen + TouchInterval + Lag

-----------------------------------------------------------------------------
(* Types *)

\* The record of a session the store does not hold is a record.
LEMMA BlankTyped == Blank \in Record
BY DEF Blank, Record

\* Answering a request, or waiting for the next frame, keeps the workers' types.
LEMMA FinishTyped ==
    ASSUME TypeOK, NEW w \in Workers, Finish(w)
    PROVE  at' \in [Workers -> Labels] /\ arg' \in [Workers -> Record]
<1>1. at' \in [Workers -> Labels]
  BY DEF Finish, Goto, TypeOK, Labels
<1>2. arg' \in [Workers -> Record]
  BY BlankTyped DEF Finish, TypeOK
<1>3. QED BY <1>1, <1>2

\* A record whose sighting or permission is replaced keeps its other fields.
LEMMA RecordEdit ==
    ASSUME NEW r \in Record
    PROVE  /\ \A n \in Nat : /\ [r EXCEPT !.seen = n] \in Record
                             /\ [r EXCEPT !.seen = n].seen = n
                             /\ [r EXCEPT !.seen = n].perm = r.perm
           /\ \A p \in 0..4 : /\ [r EXCEPT !.perm = p] \in Record
                              /\ [r EXCEPT !.perm = p].perm = p
                              /\ [r EXCEPT !.perm = p].seen = r.seen
BY DEF Record

\* The clock and the sessions of workers are where they should be.
LEMMA Places ==
    ASSUME TypeOK
    PROVE  /\ clock \in Nat
           /\ \A w \in Workers : About[w] \in Sids
           /\ \A c \in Conns : About[c] \in Sids /\ c \in Workers
           /\ \A k \in Calls : About[k] \in Sids /\ k \in Workers
           /\ \A p \in Perms : p \in 0..4
BY SessionAssumption DEF TypeOK, Workers

\* A touch changes the sighting of a stored session and nothing else.
LEMMA TouchedOnly ==
    ASSUME TypeOK, NEW q \in Sids, NEW now \in Nat
    PROVE  \A s \in Sids :
              /\ Touched(q, now)[s].perm = sess[s].perm
              /\ Touched(q, now)[s].seen = IF s = q /\ q \in live THEN now
                                      ELSE sess[s].seen
<1>1. CASE q \in live
  <2>1. Touched(q, now) = [sess EXCEPT ![q] = [sess[q] EXCEPT !.seen = now]]
    BY <1>1 DEF Touched
  <2>2. /\ sess[q] \in Record
        /\ sess \in [Sids -> Record]
    BY Places DEF TypeOK
  <2>3. /\ [sess[q] EXCEPT !.seen = now].perm = sess[q].perm
        /\ [sess[q] EXCEPT !.seen = now].seen = now
    BY <2>2, RecordEdit
  <2>4. QED
    BY <1>1, <2>1, <2>2, <2>3
<1>2. CASE q \notin live
  BY <1>2 DEF Touched
<1>3. QED BY <1>1, <1>2

\* Every step of a store, a connection or a worker keeps the types.
LEMMA TypeStep ==
    ASSUME TypeOK, [Next]_vars
    PROVE  TypeOK'
<1> USE SessionAssumption DEF storeVars, connVars, historyVars
<1>1. CASE UNCHANGED vars
  BY <1>1 DEF vars, TypeOK, Labels, Workers, Record, Ticket
<1>2. CASE Tick /\ UNCHANGED op
  BY <1>2 DEF Tick, TypeOK, Labels, Workers, Record, Ticket
<1>3. CASE SweepTickets /\ UNCHANGED op
  BY <1>3 DEF SweepTickets, TicketExpired, TypeOK, Labels, Workers, Record,
     Ticket
<1>4. CASE SweepSessions /\ UNCHANGED op
  BY <1>4, BlankTyped DEF SweepSessions, Forgotten, Dead, TypeOK, Labels,
     Workers, Record, Ticket
<1>5. ASSUME NEW k \in Calls, Bootstrap(k), UNCHANGED op PROVE TypeOK'
  BY <1>5 DEF Bootstrap, Validate, Goto, Higher, TypeOK, Labels,
     Workers, Record, Ticket
<1>5s. ASSUME NEW k \in Calls, SaveSession(k), UNCHANGED op PROVE TypeOK'
  BY <1>5s, Places DEF SaveSession, Save, Goto, TypeOK, Labels, Workers
<1>6. ASSUME NEW k \in Calls, IssueTicket(k), UNCHANGED op PROVE TypeOK'
  BY <1>6 DEF IssueTicket, Goto, TypeOK, Labels, Workers, Record, Ticket
<1>7. ASSUME NEW k \in Calls, AllowUser(k), UNCHANGED op PROVE TypeOK'
  <2>1. CASE Finish(k)
    BY <1>7, <2>1, FinishTyped DEF AllowUser, TypeOK, Workers
  <2>2. CASE Goto(k, "dropping") /\ UNCHANGED arg
    BY <1>7, <2>2 DEF AllowUser, Goto, TypeOK, Workers, Labels
  <2>3. QED BY <1>7, <2>1, <2>2 DEF AllowUser
<1>8. ASSUME NEW k \in Calls, DeleteTickets(k), UNCHANGED op PROVE TypeOK'
  <2>1. found' \in [Calls -> [conns : SUBSET Conns, tickets : SUBSET Calls]]
    BY <1>8 DEF DeleteTickets, Arrival, Joined, TypeOK
  <2>2. QED
    BY <1>8, <2>1 DEF DeleteTickets, Goto, TypeOK, Workers, Labels
<1>9. ASSUME NEW k \in Calls, DeleteSession(k), UNCHANGED op PROVE TypeOK'
  BY <1>9, BlankTyped DEF DeleteSession, Forgotten, Goto, AfterDelete,
     TypeOK, Labels, Workers, Record, Ticket
<1>10. ASSUME NEW k \in Calls, DeleteByUserAndNote(k), UNCHANGED op
      PROVE  TypeOK'
  <2>1. found' \in [Calls -> [conns : SUBSET Conns, tickets : SUBSET Calls]]
    BY <1>10 DEF DeleteByUserAndNote, Arrival, Joined, TypeOK
  <2>2. QED
    BY <1>10, <2>1, BlankTyped
    DEF DeleteByUserAndNote, Forgotten, Goto, TypeOK, Workers, Labels
<1>11. ASSUME NEW k \in Calls, UpdatePermission(k), UNCHANGED op PROVE TypeOK'
  <2>1. CASE About[k] \in live
    <3>1. PICK p \in Perms :
             /\ sess' = [sess EXCEPT ![About[k]].perm = p]
             /\ arg' = [arg EXCEPT ![k].perm = p]
             /\ granted' = [granted EXCEPT ![About[k]] = Higher(@, p)]
      BY <1>11, <2>1 DEF UpdatePermission
    <3>2. /\ [sess[About[k]] EXCEPT !.perm = p] \in Record
          /\ [arg[k] EXCEPT !.perm = p] \in Record
      BY RecordEdit, Places DEF TypeOK
    <3>3. /\ sess' \in [Sids -> Record] /\ arg' \in [Workers -> Record]
          /\ granted' \in [Sids -> 0..4]
      BY <3>1, <3>2, Places DEF TypeOK, Higher
    <3>4. \A s \in Sids \ live : sess'[s] = Blank
      BY <3>1, <2>1 DEF TypeOK
    <3>5. QED
      BY <1>11, <2>1, <3>3, <3>4 DEF UpdatePermission, Goto, TypeOK, Labels
  <2>2. CASE About[k] \notin live
    BY <1>11, <2>2, FinishTyped DEF UpdatePermission, TypeOK, Workers
  <2>3. QED BY <2>1, <2>2
<1>12. ASSUME NEW c \in Conns, ConsumeTicket(c), UNCHANGED op PROVE TypeOK'
  <2>1. PICK t \in tickets :
           /\ tickets' = Consumed(t)
           /\ \/ /\ phase' = [phase EXCEPT ![c] = "gone"]
                 /\ UNCHANGED <<perm, spent>>
              \/ /\ phase' = [phase EXCEPT ![c] = "redeemed"]
                 /\ perm' = [perm EXCEPT ![c] = t.perm]
                 /\ spent' = [spent EXCEPT ![t.value] = @ \cup {c}]
    BY <1>12 DEF ConsumeTicket
  <2>2. t.perm \in 0..4 /\ t.value \in Calls
    BY DEF TypeOK, Ticket
  <2>3. tickets' \subseteq Ticket
    BY <2>1 DEF TypeOK, Consumed
  <2>4. /\ phase' \in [Conns -> {"away", "redeemed", "joined", "gone"}]
        /\ perm' \in [Conns -> 0..4]
    BY <2>1, <2>2 DEF TypeOK
  <2>5. spent' \in [Calls -> SUBSET Conns]
    <3>1. spent \in [Calls -> SUBSET Conns]
      BY DEF TypeOK
    <3>2. spent' = spent \/ spent' = [spent EXCEPT ![t.value] = @ \cup {c}]
      BY <2>1
    <3>3. QED BY <2>2, <3>1, <3>2
  <2>6. QED
    BY <1>12, <2>3, <2>4, <2>5 DEF ConsumeTicket, TypeOK
<1>13. ASSUME NEW c \in Conns, HandshakeFails(c), UNCHANGED op PROVE TypeOK'
  BY <1>13 DEF HandshakeFails, TypeOK, Labels, Workers, Record, Ticket
<1>14. ASSUME NEW c \in Conns, Join(c), UNCHANGED op PROVE TypeOK'
  BY <1>14 DEF Join, TypeOK, Labels, Workers, Record, Ticket
<1>15. ASSUME NEW c \in Conns, Leave(c), UNCHANGED op PROVE TypeOK'
  BY <1>15 DEF Leave, TypeOK, Labels, Workers, Record, Ticket
<1>16. ASSUME NEW c \in Conns, HandleClientFrame(c), UNCHANGED op PROVE TypeOK'
  <2>1. [arg[c] EXCEPT !.seen = clock] \in Record
    BY RecordEdit, Places DEF TypeOK
  <2>2. arg' \in [Workers -> Record] /\ at' \in [Workers -> Labels]
    <3>1. arg' = arg \/ arg' = [arg EXCEPT ![c] = [arg[c] EXCEPT !.seen = clock]]
      BY <1>16 DEF HandleClientFrame
    <3>2. arg' \in [Workers -> Record]
      <4>1. arg \in [Workers -> Record] /\ c \in Workers
        BY Places DEF TypeOK
      <4>2. QED BY <2>1, <3>1, <4>1
    <3>3. at' \in [Workers -> Labels]
      BY <1>16, Places DEF HandleClientFrame, Goto, TypeOK, Labels
    <3>4. QED BY <3>2, <3>3
  <2>3. touched' \in [Conns -> Int] /\ heard' \in [Sids -> Nat]
    BY <1>16, Places DEF HandleClientFrame, Heard, Higher, TypeOK
  <2>4. QED
    BY <1>16, <2>2, <2>3 DEF HandleClientFrame, TypeOK
<1>16t. ASSUME NEW c \in Conns, Touch(c), UNCHANGED op PROVE TypeOK'
  <2>1. [sess[About[c]] EXCEPT !.seen = arg[c].seen] \in Record
    <3>1. sess[About[c]] \in Record /\ arg[c] \in Record
      BY Places DEF TypeOK
    <3>2. arg[c].seen \in Nat
      BY <3>1 DEF Record
    <3>3. QED BY <3>1, <3>2, RecordEdit
  <2>2. sess' \in [Sids -> Record]
    BY <1>16t, <2>1, Places DEF Touch, Touched, TypeOK
  <2>3. \A s \in Sids \ live : sess'[s] = Blank
    BY <1>16t DEF Touch, Touched, TypeOK
  <2>4. heard' \in [Sids -> Nat]
    BY <1>16t, Places DEF Touch, Heard, Higher, TypeOK, Record
  <2>5. at' \in [Workers -> Labels] /\ arg' \in [Workers -> Record]
    BY <1>16t, BlankTyped, Places DEF Touch, Goto, TypeOK, Labels
  <2>6. QED
    BY <1>16t, <2>2, <2>3, <2>4, <2>5 DEF Touch, TypeOK
<1>17. ASSUME NEW c \in Conns, GetSession(c), UNCHANGED op PROVE TypeOK'
  BY <1>17 DEF GetSession, Goto, LowerRank, Validate, TypeOK, Labels,
     Workers, Record, Ticket
<1>18. ASSUME NEW c \in Conns, RefreshRejected(c), UNCHANGED op PROVE TypeOK'
  BY <1>18, FinishTyped DEF RefreshRejected, TypeOK, Workers
<1>18s. ASSUME NEW c \in Conns, StampRefreshed(c), UNCHANGED op PROVE TypeOK'
  <2>1. [arg[c] EXCEPT !.seen = clock] \in Record
    BY RecordEdit, Places DEF TypeOK
  <2>2. QED
    BY <1>18s, <2>1 DEF StampRefreshed, Goto, TypeOK, Labels, Workers
<1>19. ASSUME NEW c \in Conns, SaveRefreshed(c), UNCHANGED op PROVE TypeOK'
  BY <1>19, Places DEF SaveRefreshed, Save, Goto, TypeOK, Labels, Workers
<1>20. ASSUME NEW c \in Conns, ComparePermission(c), UNCHANGED op PROVE TypeOK'
  <2>1. CASE Finish(c)
    BY <1>20, <2>1, FinishTyped DEF ComparePermission, TypeOK, Workers
  <2>2. CASE Goto(c, "updated") /\ UNCHANGED arg
    BY <1>20, <2>2 DEF ComparePermission, Goto, TypeOK, Workers, Labels
  <2>3. QED BY <1>20, <2>1, <2>2 DEF ComparePermission
<1>21. ASSUME NEW w \in Workers, ListConnections(w), UNCHANGED op PROVE TypeOK'
  BY <1>21 DEF ListConnections, Goto, ConnectionsOf, Joined, Subject,
     TypeOK, Labels, Workers, Record, Ticket
<1>22. ASSUME NEW w \in Workers, CloseOne(w), UNCHANGED op PROVE TypeOK'
  BY <1>22 DEF CloseOne, TypeOK, Labels, Workers, Record, Ticket
<1>23. ASSUME NEW w \in Workers, SetPermission(w), UNCHANGED op PROVE TypeOK'
  BY <1>23 DEF SetPermission, TypeOK, Labels, Workers, Record, Ticket
<1>24. ASSUME NEW w \in Workers, EndOfList(w), UNCHANGED op PROVE TypeOK'
  BY <1>24, FinishTyped DEF EndOfList, TypeOK, Workers
<1>25. QED
  BY <1>1, <1>2, <1>3, <1>4, <1>5, <1>6, <1>7, <1>8, <1>9, <1>10, <1>11,
     <1>12, <1>13, <1>14, <1>15, <1>16, <1>17, <1>18, <1>19, <1>20, <1>21,
     <1>22, <1>23, <1>24, <1>5s, <1>16t, <1>18s
  DEF Next, CallStep, ConnStep, ListStep

-----------------------------------------------------------------------------
(* Handlers keep to their own steps *)

\* No handler reaches a step of another.
LEMMA OwnStepsStep ==
    ASSUME TypeOK, OwnSteps, [Next]_vars
    PROVE  OwnSteps'
<1> USE DEF storeVars, connVars, historyVars
<1>0. at \in [Workers -> Labels] /\ Calls \cap Conns = {}
  BY SessionAssumption DEF TypeOK
<1> USE <1>0
<1>1. CASE UNCHANGED vars
  BY <1>1 DEF vars, OwnSteps, Workers
<1>2. CASE Tick /\ UNCHANGED op
  BY <1>2 DEF Tick, OwnSteps, Workers
<1>3. CASE SweepTickets /\ UNCHANGED op
  BY <1>3 DEF SweepTickets, OwnSteps, Workers
<1>4. CASE SweepSessions /\ UNCHANGED op
  BY <1>4 DEF SweepSessions, OwnSteps, Workers
<1>5. ASSUME NEW k \in Calls, Bootstrap(k), UNCHANGED op PROVE OwnSteps'
  BY <1>5 DEF Bootstrap, Goto, OwnSteps, Workers
<1>5s. ASSUME NEW k \in Calls, SaveSession(k), UNCHANGED op PROVE OwnSteps'
  BY <1>5s DEF SaveSession, Save, Goto, OwnSteps, Workers
<1>6. ASSUME NEW k \in Calls, IssueTicket(k), UNCHANGED op PROVE OwnSteps'
  BY <1>6 DEF IssueTicket, Goto, OwnSteps, Workers
<1>7. ASSUME NEW k \in Calls, AllowUser(k), UNCHANGED op PROVE OwnSteps'
  BY <1>7 DEF AllowUser, Finish, Goto, OwnSteps, Workers
<1>8. ASSUME NEW k \in Calls, DeleteTickets(k), UNCHANGED op PROVE OwnSteps'
  BY <1>8 DEF DeleteTickets, Goto, OwnSteps, Workers
<1>9. ASSUME NEW k \in Calls, DeleteSession(k), UNCHANGED op PROVE OwnSteps'
  BY <1>9 DEF DeleteSession, Goto, AfterDelete, OwnSteps, Workers
<1>10. ASSUME NEW k \in Calls, DeleteByUserAndNote(k), UNCHANGED op
      PROVE  OwnSteps'
  BY <1>10 DEF DeleteByUserAndNote, Goto, OwnSteps, Workers
<1>11. ASSUME NEW k \in Calls, UpdatePermission(k), UNCHANGED op
      PROVE  OwnSteps'
  BY <1>11 DEF UpdatePermission, Goto, Finish, OwnSteps, Workers
<1>12. ASSUME NEW c \in Conns, ConsumeTicket(c), UNCHANGED op PROVE OwnSteps'
  BY <1>12 DEF ConsumeTicket, OwnSteps, Workers
<1>13. ASSUME NEW c \in Conns, HandshakeFails(c), UNCHANGED op PROVE OwnSteps'
  BY <1>13 DEF HandshakeFails, OwnSteps, Workers
<1>14. ASSUME NEW c \in Conns, Join(c), UNCHANGED op PROVE OwnSteps'
  BY <1>14 DEF Join, OwnSteps, Workers
<1>15. ASSUME NEW c \in Conns, Leave(c), UNCHANGED op PROVE OwnSteps'
  BY <1>15 DEF Leave, OwnSteps, Workers
<1>16. ASSUME NEW c \in Conns, HandleClientFrame(c), UNCHANGED op
      PROVE  OwnSteps'
  BY <1>16 DEF HandleClientFrame, Goto, OwnSteps, Workers
<1>16t. ASSUME NEW c \in Conns, Touch(c), UNCHANGED op PROVE OwnSteps'
  BY <1>16t DEF Touch, Goto, OwnSteps, Workers
<1>17. ASSUME NEW c \in Conns, GetSession(c), UNCHANGED op PROVE OwnSteps'
  BY <1>17 DEF GetSession, Goto, OwnSteps, Workers
<1>18. ASSUME NEW c \in Conns, RefreshRejected(c), UNCHANGED op PROVE OwnSteps'
  BY <1>18 DEF RefreshRejected, Finish, Goto, OwnSteps, Workers
<1>18s. ASSUME NEW c \in Conns, StampRefreshed(c), UNCHANGED op PROVE OwnSteps'
  BY <1>18s DEF StampRefreshed, Goto, OwnSteps, Workers
<1>19. ASSUME NEW c \in Conns, SaveRefreshed(c), UNCHANGED op PROVE OwnSteps'
  BY <1>19 DEF SaveRefreshed, Goto, OwnSteps, Workers
<1>20. ASSUME NEW c \in Conns, ComparePermission(c), UNCHANGED op
      PROVE  OwnSteps'
  BY <1>20 DEF ComparePermission, Finish, Goto, OwnSteps, Workers
<1>21. ASSUME NEW w \in Workers, ListConnections(w), UNCHANGED op
      PROVE  OwnSteps'
  BY <1>21 DEF ListConnections, Goto, OwnSteps, Workers
<1>22. ASSUME NEW w \in Workers, CloseOne(w), UNCHANGED op PROVE OwnSteps'
  BY <1>22 DEF CloseOne, OwnSteps, Workers
<1>23. ASSUME NEW w \in Workers, SetPermission(w), UNCHANGED op PROVE OwnSteps'
  BY <1>23 DEF SetPermission, OwnSteps, Workers
<1>24. ASSUME NEW w \in Workers, EndOfList(w), UNCHANGED op PROVE OwnSteps'
  BY <1>24 DEF EndOfList, Finish, Goto, OwnSteps, Workers
<1>25. QED
  BY <1>1, <1>2, <1>3, <1>4, <1>5, <1>6, <1>7, <1>8, <1>9, <1>10, <1>11,
     <1>12, <1>13, <1>14, <1>15, <1>16, <1>17, <1>18, <1>19, <1>20, <1>21,
     <1>22, <1>23, <1>24, <1>5s, <1>16t, <1>18s
  DEF Next, CallStep, ConnStep, ListStep

\* A worker lists, and so changes, connections of its own session only.
LEMMA OwnConnectionsStep ==
    ASSUME TypeOK, OwnSteps, OwnConnections, [Next]_vars
    PROVE  OwnConnections'
<1> USE SessionAssumption DEF storeVars, connVars, historyVars
<1>1. CASE UNCHANGED vars
  BY <1>1 DEF vars, OwnConnections, OwnSteps, TypeOK, Workers
<1>2. CASE Tick /\ UNCHANGED op
  BY <1>2 DEF Tick, OwnConnections, OwnSteps, TypeOK, Workers
<1>3. CASE SweepTickets /\ UNCHANGED op
  BY <1>3 DEF SweepTickets, TicketExpired, OwnConnections, OwnSteps, TypeOK,
     Workers
<1>4. CASE SweepSessions /\ UNCHANGED op
  BY <1>4 DEF SweepSessions, Forgotten, Dead, OwnConnections, OwnSteps,
     TypeOK, Workers
<1>5. ASSUME NEW k \in Calls, Bootstrap(k), UNCHANGED op PROVE OwnConnections'
  BY <1>5 DEF Bootstrap, Validate, Goto, Higher, OwnConnections,
     OwnSteps, TypeOK, Workers
<1>5s. ASSUME NEW k \in Calls, SaveSession(k), UNCHANGED op
      PROVE  OwnConnections'
  BY <1>5s DEF SaveSession, Save, Goto, OwnConnections, OwnSteps, TypeOK,
     Workers
<1>6. ASSUME NEW k \in Calls, IssueTicket(k), UNCHANGED op
      PROVE  OwnConnections'
  BY <1>6 DEF IssueTicket, Goto, OwnConnections, OwnSteps, TypeOK, Workers
<1>7. ASSUME NEW k \in Calls, AllowUser(k), UNCHANGED op PROVE OwnConnections'
  BY <1>7 DEF AllowUser, Finish, Goto, OwnConnections, OwnSteps, TypeOK,
     Workers
<1>8. ASSUME NEW k \in Calls, DeleteTickets(k), UNCHANGED op
      PROVE  OwnConnections'
  BY <1>8 DEF DeleteTickets, Arrival, Goto, Joined, Subject, OwnConnections,
     OwnSteps, TypeOK, Workers
<1>9. ASSUME NEW k \in Calls, DeleteSession(k), UNCHANGED op
      PROVE  OwnConnections'
  BY <1>9 DEF DeleteSession, Forgotten, Goto, AfterDelete, OwnConnections,
     OwnSteps, TypeOK, Workers
<1>10. ASSUME NEW k \in Calls, DeleteByUserAndNote(k), UNCHANGED op
      PROVE  OwnConnections'
  BY <1>10 DEF DeleteByUserAndNote, Arrival, Forgotten, Goto, Joined,
     Subject, OwnConnections, OwnSteps, TypeOK, Workers
<1>11. ASSUME NEW k \in Calls, UpdatePermission(k), UNCHANGED op
      PROVE  OwnConnections'
  BY <1>11 DEF UpdatePermission, Goto, Higher, Finish, OwnConnections,
     OwnSteps, TypeOK, Workers
<1>12. ASSUME NEW c \in Conns, ConsumeTicket(c), UNCHANGED op
      PROVE  OwnConnections'
  BY <1>12 DEF ConsumeTicket, Consumed, TicketExpired, OwnConnections,
     OwnSteps, TypeOK, Workers
<1>13. ASSUME NEW c \in Conns, HandshakeFails(c), UNCHANGED op
      PROVE  OwnConnections'
  BY <1>13 DEF HandshakeFails, OwnConnections, OwnSteps, TypeOK, Workers
<1>14. ASSUME NEW c \in Conns, Join(c), UNCHANGED op PROVE OwnConnections'
  BY <1>14 DEF Join, OwnConnections, OwnSteps, TypeOK, Workers
<1>15. ASSUME NEW c \in Conns, Leave(c), UNCHANGED op PROVE OwnConnections'
  BY <1>15 DEF Leave, OwnConnections, OwnSteps, TypeOK, Workers
<1>16. ASSUME NEW c \in Conns, HandleClientFrame(c), UNCHANGED op
      PROVE  OwnConnections'
  BY <1>16 DEF HandleClientFrame, ShouldTouch, Goto,
     OwnConnections, OwnSteps, TypeOK, Workers
<1>16t. ASSUME NEW c \in Conns, Touch(c), UNCHANGED op PROVE OwnConnections'
  BY <1>16t DEF Touch, Goto, OwnConnections, OwnSteps, TypeOK,
     Workers
<1>17. ASSUME NEW c \in Conns, GetSession(c), UNCHANGED op
      PROVE  OwnConnections'
  BY <1>17 DEF GetSession, Goto, LowerRank, Validate, OwnConnections,
     OwnSteps, TypeOK, Workers
<1>18. ASSUME NEW c \in Conns, RefreshRejected(c), UNCHANGED op
      PROVE  OwnConnections'
  BY <1>18 DEF RefreshRejected, Finish, Goto, OwnConnections, OwnSteps,
     TypeOK, Workers
<1>18s. ASSUME NEW c \in Conns, StampRefreshed(c), UNCHANGED op
      PROVE  OwnConnections'
  BY <1>18s DEF StampRefreshed, Goto, OwnConnections, OwnSteps, TypeOK,
     Workers
<1>19. ASSUME NEW c \in Conns, SaveRefreshed(c), UNCHANGED op
      PROVE  OwnConnections'
  BY <1>19 DEF SaveRefreshed, Save, Goto, OwnConnections, OwnSteps, TypeOK,
     Workers
<1>20. ASSUME NEW c \in Conns, ComparePermission(c), UNCHANGED op
      PROVE  OwnConnections'
  BY <1>20 DEF ComparePermission, Finish, Goto, OwnConnections, OwnSteps,
     TypeOK, Workers
<1>21. ASSUME NEW w \in Workers, ListConnections(w), UNCHANGED op
      PROVE  OwnConnections'
  BY <1>21 DEF ListConnections, Goto, ConnectionsOf, Joined, Subject,
     OwnConnections, OwnSteps, TypeOK, Workers
<1>22. ASSUME NEW w \in Workers, CloseOne(w), UNCHANGED op
      PROVE  OwnConnections'
  BY <1>22 DEF CloseOne, OwnConnections, OwnSteps, TypeOK, Workers
<1>23. ASSUME NEW w \in Workers, SetPermission(w), UNCHANGED op
      PROVE  OwnConnections'
  BY <1>23 DEF SetPermission, OwnConnections, OwnSteps, TypeOK, Workers
<1>24. ASSUME NEW w \in Workers, EndOfList(w), UNCHANGED op
      PROVE  OwnConnections'
  BY <1>24 DEF EndOfList, Finish, Goto, OwnConnections, OwnSteps, TypeOK,
     Workers
<1>25. QED
  BY <1>1, <1>2, <1>3, <1>4, <1>5, <1>6, <1>7, <1>8, <1>9, <1>10, <1>11,
     <1>12, <1>13, <1>14, <1>15, <1>16, <1>17, <1>18, <1>19, <1>20, <1>21,
     <1>22, <1>23, <1>24, <1>5s, <1>16t, <1>18s
  DEF Next, CallStep, ConnStep, ListStep

-----------------------------------------------------------------------------
(* Granted permissions *)

\* A step writes no permission above the ceiling of its session: a refresh
\* takes the lower rank, a bootstrap and an update raise the ceiling first.
LEMMA CeilingStep ==
    ASSUME CeilingInv, [Next]_vars
    PROVE  GrantedCeiling'
<1> USE DEF CeilingInv, storeVars, connVars, historyVars
<1>0. /\ sess \in [Sids -> Record] /\ granted \in [Sids -> 0..4]
      /\ perm \in [Conns -> 0..4] /\ arg \in [Workers -> Record]
      /\ tickets \subseteq Ticket
      /\ \A s \in Sids : sess[s].perm \in 0..4 /\ granted[s] \in 0..4
      /\ \A w \in Workers : arg[w].perm \in 0..4
      /\ \A t \in tickets : t.perm \in 0..4 /\ t.value \in Calls
  BY DEF TypeOK, Record, Ticket
<1> USE <1>0, Places
<1>1. CASE UNCHANGED vars
  BY <1>1 DEF vars, GrantedCeiling, Blank
<1>2. CASE Tick /\ UNCHANGED op
  BY <1>2 DEF Tick, GrantedCeiling, Blank
<1>3. CASE SweepTickets /\ UNCHANGED op
  BY <1>3 DEF SweepTickets, TicketExpired, GrantedCeiling, Blank
<1>4. CASE SweepSessions /\ UNCHANGED op
  BY <1>4 DEF SweepSessions, Forgotten, Dead, GrantedCeiling, Blank
<1>5. ASSUME NEW k \in Calls, Bootstrap(k), UNCHANGED op PROVE GrantedCeiling'
  <2>1. PICK p \in Perms, e \in Expiries :
           /\ arg' = [arg EXCEPT ![k] =
                          [perm |-> p, expires |-> e, seen |-> clock]]
           /\ granted' = [granted EXCEPT ![About[k]] = Higher(@, p)]
    BY <1>5 DEF Bootstrap
  <2>2. \A s \in Sids : granted[s] <= granted'[s]
    BY <2>1 DEF Higher
  <2>3. p <= granted'[About[k]]
    BY <2>1 DEF Higher
  <2>4. \A s \in Sids : granted'[s] \in 0..4
    BY <2>1 DEF Higher
  <2>5. \A s \in Sids : sess'[s].perm <= granted'[s]
    BY <1>5, <2>2, <2>4 DEF Bootstrap, GrantedCeiling
  <2>6. \A w \in Workers : arg'[w].perm <= granted'[About[w]]
    BY <2>1, <2>2, <2>3, <2>4 DEF GrantedCeiling
  <2>7. \A c \in Conns : perm'[c] <= granted'[About[c]]
    BY <1>5, <2>2, <2>4 DEF Bootstrap, GrantedCeiling
  <2>8. \A t \in tickets' : t.perm <= granted'[About[t.value]]
    BY <1>5, <2>2, <2>4 DEF Bootstrap, GrantedCeiling
  <2>9. QED BY <2>5, <2>6, <2>7, <2>8 DEF GrantedCeiling
<1>5s. ASSUME NEW k \in Calls, SaveSession(k), UNCHANGED op
      PROVE  GrantedCeiling'
  BY <1>5s DEF SaveSession, Save, GrantedCeiling
<1>6. ASSUME NEW k \in Calls, IssueTicket(k), UNCHANGED op
      PROVE  GrantedCeiling'
  <2>1. \A t \in tickets' : t \in tickets \/ (t.value = k /\ t.perm = arg[k].perm)
    BY <1>6 DEF IssueTicket
  <2>2. QED
    BY <1>6, <2>1 DEF IssueTicket, GrantedCeiling
<1>7. ASSUME NEW k \in Calls, AllowUser(k), UNCHANGED op PROVE GrantedCeiling'
  BY <1>7 DEF AllowUser, Finish, Goto, GrantedCeiling, Blank
<1>8. ASSUME NEW k \in Calls, DeleteTickets(k), UNCHANGED op
      PROVE  GrantedCeiling'
  BY <1>8 DEF DeleteTickets, Arrival, Goto, Joined, Subject, GrantedCeiling,
     Blank
<1>9. ASSUME NEW k \in Calls, DeleteSession(k), UNCHANGED op
      PROVE  GrantedCeiling'
  <2>1. \A s \in Sids : sess'[s] = sess[s] \/ sess'[s].perm = 0
    BY <1>9 DEF DeleteSession, Forgotten, Blank
  <2>2. \A w \in Workers : arg'[w] = arg[w] \/ arg'[w].perm = 0
    BY <1>9 DEF DeleteSession, Blank
  <2>3. granted' = granted /\ tickets' = tickets /\ perm' = perm
    BY <1>9 DEF DeleteSession
  <2>4. \A s \in Sids : sess'[s].perm <= granted[s]
    BY <2>1 DEF GrantedCeiling
  <2>5. \A w \in Workers : arg'[w].perm <= granted[About[w]]
    BY <2>2 DEF GrantedCeiling
  <2>6. QED
    BY <2>3, <2>4, <2>5 DEF GrantedCeiling
<1>10. ASSUME NEW k \in Calls, DeleteByUserAndNote(k), UNCHANGED op
      PROVE  GrantedCeiling'
  BY <1>10 DEF DeleteByUserAndNote, Arrival, Forgotten, Goto, Joined,
     Subject, GrantedCeiling, Blank
<1>11. ASSUME NEW k \in Calls, UpdatePermission(k), UNCHANGED op
      PROVE  GrantedCeiling'
  <2>1. CASE About[k] \in live
    <3>1. PICK p \in Perms :
             /\ sess' = [sess EXCEPT ![About[k]].perm = p]
             /\ arg' = [arg EXCEPT ![k].perm = p]
             /\ granted' = [granted EXCEPT ![About[k]] = Higher(@, p)]
      BY <1>11, <2>1 DEF UpdatePermission
    <3>2. \A s \in Sids : granted[s] <= granted'[s] /\ granted'[s] \in 0..4
      BY <3>1 DEF Higher
    <3>3. p <= granted'[About[k]]
      BY <3>1 DEF Higher
    <3>4. \A s \in Sids : sess'[s].perm = IF s = About[k] THEN p ELSE sess[s].perm
      BY <3>1, RecordEdit
    <3>5. \A w \in Workers : arg'[w].perm = IF w = k THEN p ELSE arg[w].perm
      BY <3>1, RecordEdit
    <3>6. \A s \in Sids : sess'[s].perm <= granted'[s]
      BY <3>2, <3>3, <3>4 DEF GrantedCeiling
    <3>7. \A w \in Workers : arg'[w].perm <= granted'[About[w]]
      BY <3>2, <3>3, <3>5 DEF GrantedCeiling
    <3>8. \A c \in Conns : perm'[c] <= granted'[About[c]]
      BY <1>11, <3>2 DEF UpdatePermission, GrantedCeiling
    <3>9. \A t \in tickets' : t.perm <= granted'[About[t.value]]
      BY <1>11, <3>2 DEF UpdatePermission, GrantedCeiling
    <3>10. QED BY <3>6, <3>7, <3>8, <3>9 DEF GrantedCeiling
  <2>2. CASE About[k] \notin live
    BY <1>11, <2>2 DEF UpdatePermission, Finish, Blank, GrantedCeiling
  <2>3. QED BY <2>1, <2>2
<1>12. ASSUME NEW c \in Conns, ConsumeTicket(c), UNCHANGED op
      PROVE  GrantedCeiling'
  BY <1>12 DEF ConsumeTicket, Consumed, TicketExpired, GrantedCeiling, Blank
<1>13. ASSUME NEW c \in Conns, HandshakeFails(c), UNCHANGED op
      PROVE  GrantedCeiling'
  BY <1>13 DEF HandshakeFails, GrantedCeiling, Blank
<1>14. ASSUME NEW c \in Conns, Join(c), UNCHANGED op PROVE GrantedCeiling'
  BY <1>14 DEF Join, GrantedCeiling, Blank
<1>15. ASSUME NEW c \in Conns, Leave(c), UNCHANGED op PROVE GrantedCeiling'
  BY <1>15 DEF Leave, GrantedCeiling, Blank
<1>16. ASSUME NEW c \in Conns, HandleClientFrame(c), UNCHANGED op
      PROVE  GrantedCeiling'
  <2>1. [arg[c] EXCEPT !.seen = clock].perm = arg[c].perm
    BY RecordEdit
  <2>2. \A w \in Workers : arg'[w].perm = arg[w].perm
    BY <1>16, <2>1 DEF HandleClientFrame
  <2>3. QED
    BY <1>16, <2>2 DEF HandleClientFrame, GrantedCeiling
<1>16t. ASSUME NEW c \in Conns, Touch(c), UNCHANGED op PROVE GrantedCeiling'
  <2>1. arg[c].seen \in Nat
    BY DEF Record
  <2>2. \A s \in Sids : sess'[s].perm = sess[s].perm
    BY <1>16t, <2>1, TouchedOnly DEF Touch
  <2>3. QED
    BY <1>16t, <2>2 DEF Touch, Blank, GrantedCeiling
<1>17. ASSUME NEW c \in Conns, GetSession(c), UNCHANGED op
      PROVE  GrantedCeiling'
  BY <1>17 DEF GetSession, Goto, LowerRank, Validate, GrantedCeiling, Blank
<1>18. ASSUME NEW c \in Conns, RefreshRejected(c), UNCHANGED op
      PROVE  GrantedCeiling'
  BY <1>18 DEF RefreshRejected, Finish, Goto, GrantedCeiling, Blank
<1>18s. ASSUME NEW c \in Conns, StampRefreshed(c), UNCHANGED op
      PROVE  GrantedCeiling'
  <2>1. [arg[c] EXCEPT !.seen = clock].perm = arg[c].perm
    BY RecordEdit
  <2>2. \A w \in Workers : arg'[w].perm = arg[w].perm
    BY <1>18s, <2>1 DEF StampRefreshed
  <2>3. QED
    BY <1>18s, <2>2 DEF StampRefreshed, GrantedCeiling
<1>19. ASSUME NEW c \in Conns, SaveRefreshed(c), UNCHANGED op
      PROVE  GrantedCeiling'
  BY <1>19 DEF SaveRefreshed, Save, GrantedCeiling
<1>20. ASSUME NEW c \in Conns, ComparePermission(c), UNCHANGED op
      PROVE  GrantedCeiling'
  BY <1>20 DEF ComparePermission, Finish, Goto, GrantedCeiling, Blank
<1>21. ASSUME NEW w \in Workers, ListConnections(w), UNCHANGED op
      PROVE  GrantedCeiling'
  BY <1>21 DEF ListConnections, Goto, ConnectionsOf, Joined, Subject,
     GrantedCeiling, Blank
<1>22. ASSUME NEW w \in Workers, CloseOne(w), UNCHANGED op
      PROVE  GrantedCeiling'
  BY <1>22 DEF CloseOne, GrantedCeiling, Blank
<1>23. ASSUME NEW w \in Workers, SetPermission(w), UNCHANGED op
      PROVE  GrantedCeiling'
  <2>1. PICK c \in todo[w] : perm' = [perm EXCEPT ![c] = arg[w].perm]
    BY <1>23 DEF SetPermission
  <2>2. c \in Conns /\ About[c] = About[w]
    BY <1>23 DEF SetPermission, OwnConnections, TypeOK
  <2>3. QED
    BY <1>23, <2>1, <2>2 DEF SetPermission, GrantedCeiling
<1>24. ASSUME NEW w \in Workers, EndOfList(w), UNCHANGED op
      PROVE  GrantedCeiling'
  BY <1>24 DEF EndOfList, Finish, Goto, GrantedCeiling, Blank
<1>25. QED
  BY <1>1, <1>2, <1>3, <1>4, <1>5, <1>6, <1>7, <1>8, <1>9, <1>10, <1>11,
     <1>12, <1>13, <1>14, <1>15, <1>16, <1>17, <1>18, <1>19, <1>20, <1>21,
     <1>22, <1>23, <1>24, <1>5s, <1>16t, <1>18s
  DEF Next, CallStep, ConnStep, ListStep

-----------------------------------------------------------------------------
(* Tickets *)

\* A ticket is issued once and leaves the store with its redemption.
LEMMA TicketStep ==
    ASSUME TypeOK, OwnSteps, TicketInv, [Next]_vars
    PROVE  TicketInv'
<1> USE SessionAssumption DEF storeVars, connVars, historyVars
<1>0. /\ at \in [Workers -> Labels] /\ spent \in [Calls -> SUBSET Conns]
      /\ tickets \subseteq Ticket
      /\ \A t \in tickets : t.value \in Calls
  BY DEF TypeOK, Ticket
<1> USE <1>0, Places
<1>1. CASE UNCHANGED vars
  BY <1>1 DEF vars, TicketInv, OwnSteps
<1>2. CASE Tick /\ UNCHANGED op
  BY <1>2 DEF Tick, TicketInv, OwnSteps
<1>3. CASE SweepTickets /\ UNCHANGED op
  BY <1>3 DEF SweepTickets, TicketInv, OwnSteps
<1>4. CASE SweepSessions /\ UNCHANGED op
  BY <1>4 DEF SweepSessions, TicketInv, OwnSteps
<1>5. ASSUME NEW k \in Calls, Bootstrap(k), UNCHANGED op PROVE TicketInv'
  BY <1>5 DEF Bootstrap, Goto, TicketInv, OwnSteps
<1>5s. ASSUME NEW k \in Calls, SaveSession(k), UNCHANGED op PROVE TicketInv'
  BY <1>5s DEF SaveSession, Save, Goto, TicketInv, OwnSteps
<1>6. ASSUME NEW k \in Calls, IssueTicket(k), UNCHANGED op PROVE TicketInv'
  BY <1>6 DEF IssueTicket, Goto, TicketInv, OwnSteps
<1>7. ASSUME NEW k \in Calls, AllowUser(k), UNCHANGED op PROVE TicketInv'
  BY <1>7 DEF AllowUser, Finish, Goto, TicketInv, OwnSteps
<1>8. ASSUME NEW k \in Calls, DeleteTickets(k), UNCHANGED op PROVE TicketInv'
  BY <1>8 DEF DeleteTickets, Goto, TicketInv, OwnSteps
<1>9. ASSUME NEW k \in Calls, DeleteSession(k), UNCHANGED op PROVE TicketInv'
  BY <1>9 DEF DeleteSession, Goto, AfterDelete, TicketInv, OwnSteps
<1>10. ASSUME NEW k \in Calls, DeleteByUserAndNote(k), UNCHANGED op
      PROVE  TicketInv'
  BY <1>10 DEF DeleteByUserAndNote, Goto, TicketInv, OwnSteps
<1>11. ASSUME NEW k \in Calls, UpdatePermission(k), UNCHANGED op
      PROVE  TicketInv'
  BY <1>11 DEF UpdatePermission, Goto, Finish, TicketInv, OwnSteps
<1>12. ASSUME NEW c \in Conns, ConsumeTicket(c), UNCHANGED op PROVE TicketInv'
  BY <1>12 DEF ConsumeTicket, Consumed, TicketInv, OwnSteps
<1>13. ASSUME NEW c \in Conns, HandshakeFails(c), UNCHANGED op PROVE TicketInv'
  BY <1>13 DEF HandshakeFails, TicketInv, OwnSteps
<1>14. ASSUME NEW c \in Conns, Join(c), UNCHANGED op PROVE TicketInv'
  BY <1>14 DEF Join, TicketInv, OwnSteps
<1>15. ASSUME NEW c \in Conns, Leave(c), UNCHANGED op PROVE TicketInv'
  BY <1>15 DEF Leave, TicketInv, OwnSteps
<1>16. ASSUME NEW c \in Conns, HandleClientFrame(c), UNCHANGED op
      PROVE  TicketInv'
  BY <1>16 DEF HandleClientFrame, Goto, TicketInv, OwnSteps
<1>16t. ASSUME NEW c \in Conns, Touch(c), UNCHANGED op PROVE TicketInv'
  BY <1>16t DEF Touch, Goto, TicketInv, OwnSteps
<1>17. ASSUME NEW c \in Conns, GetSession(c), UNCHANGED op PROVE TicketInv'
  BY <1>17 DEF GetSession, Goto, TicketInv, OwnSteps
<1>18. ASSUME NEW c \in Conns, RefreshRejected(c), UNCHANGED op
      PROVE  TicketInv'
  BY <1>18 DEF RefreshRejected, Finish, Goto, TicketInv, OwnSteps
<1>18s. ASSUME NEW c \in Conns, StampRefreshed(c), UNCHANGED op
      PROVE  TicketInv'
  BY <1>18s DEF StampRefreshed, Goto, TicketInv, OwnSteps
<1>19. ASSUME NEW c \in Conns, SaveRefreshed(c), UNCHANGED op PROVE TicketInv'
  BY <1>19 DEF SaveRefreshed, Goto, TicketInv, OwnSteps
<1>20. ASSUME NEW c \in Conns, ComparePermission(c), UNCHANGED op
      PROVE  TicketInv'
  BY <1>20 DEF ComparePermission, Finish, Goto, TicketInv, OwnSteps
<1>21. ASSUME NEW w \in Workers, ListConnections(w), UNCHANGED op
      PROVE  TicketInv'
  BY <1>21 DEF ListConnections, Goto, TicketInv, OwnSteps
<1>22. ASSUME NEW w \in Workers, CloseOne(w), UNCHANGED op PROVE TicketInv'
  BY <1>22 DEF CloseOne, TicketInv, OwnSteps
<1>23. ASSUME NEW w \in Workers, SetPermission(w), UNCHANGED op
      PROVE  TicketInv'
  BY <1>23 DEF SetPermission, TicketInv, OwnSteps
<1>24. ASSUME NEW w \in Workers, EndOfList(w), UNCHANGED op PROVE TicketInv'
  BY <1>24 DEF EndOfList, Finish, Goto, TicketInv, OwnSteps
<1>25. QED
  BY <1>1, <1>2, <1>3, <1>4, <1>5, <1>6, <1>7, <1>8, <1>9, <1>10, <1>11,
     <1>12, <1>13, <1>14, <1>15, <1>16, <1>17, <1>18, <1>19, <1>20, <1>21,
     <1>22, <1>23, <1>24, <1>5s, <1>16t, <1>18s
  DEF Next, CallStep, ConnStep, ListStep

-----------------------------------------------------------------------------
(* Revocations *)

\* A connection a revocation found leaves the room only closed, and until the
\* list is made it is in the room; the list is closed one by one.
LEMMA FoundConnsStep ==
    ASSUME TypeOK, OwnSteps, FoundConns, [Next]_vars
    PROVE  FoundConns'
<1> USE DEF storeVars, connVars, historyVars
<1>0. /\ at \in [Workers -> Labels] /\ todo \in [Workers -> SUBSET Conns]
      /\ phase \in [Conns -> {"away", "redeemed", "joined", "gone"}]
      /\ found \in [Calls -> [conns : SUBSET Conns, tickets : SUBSET Calls]]
      /\ \A k \in Calls : k \in Workers /\ found[k].conns \subseteq Conns
      /\ \A c \in Conns : c \in Workers /\ c \notin Calls
  BY SessionAssumption DEF TypeOK, Workers
<1>s. op' = op => \A k \in Calls : Subject(k)' = Subject(k)
  BY DEF Subject
<1> USE <1>0, <1>s
<1>1. CASE UNCHANGED vars
  BY <1>1 DEF vars, FoundConns, OwnSteps
<1>2. CASE Tick /\ UNCHANGED op
  BY <1>2 DEF Tick, FoundConns, OwnSteps
<1>3. CASE SweepTickets /\ UNCHANGED op
  BY <1>3 DEF SweepTickets, FoundConns, OwnSteps
<1>4. CASE SweepSessions /\ UNCHANGED op
  BY <1>4 DEF SweepSessions, FoundConns, OwnSteps
<1>5. ASSUME NEW k \in Calls, Bootstrap(k), UNCHANGED op PROVE FoundConns'
  BY <1>5 DEF Bootstrap, Goto, FoundConns, OwnSteps
<1>5s. ASSUME NEW k \in Calls, SaveSession(k), UNCHANGED op PROVE FoundConns'
  BY <1>5s DEF SaveSession, Save, Goto, FoundConns, OwnSteps
<1>6. ASSUME NEW k \in Calls, IssueTicket(k), UNCHANGED op PROVE FoundConns'
  BY <1>6 DEF IssueTicket, Goto, FoundConns, OwnSteps
<1>7. ASSUME NEW k \in Calls, AllowUser(k), UNCHANGED op PROVE FoundConns'
  BY <1>7 DEF AllowUser, Finish, Goto, FoundConns, OwnSteps
<1>8. ASSUME NEW k \in Calls, DeleteTickets(k), UNCHANGED op PROVE FoundConns'
  BY <1>8 DEF DeleteTickets, Arrival, Goto, Joined, FoundConns, OwnSteps
<1>9. ASSUME NEW k \in Calls, DeleteSession(k), UNCHANGED op PROVE FoundConns'
  BY <1>9 DEF DeleteSession, Goto, AfterDelete, FoundConns, OwnSteps
<1>10. ASSUME NEW k \in Calls, DeleteByUserAndNote(k), UNCHANGED op
      PROVE  FoundConns'
  BY <1>10 DEF DeleteByUserAndNote, Arrival, Goto, Joined, FoundConns,
     OwnSteps
<1>11. ASSUME NEW k \in Calls, UpdatePermission(k), UNCHANGED op
      PROVE  FoundConns'
  BY <1>11 DEF UpdatePermission, Goto, Finish, FoundConns, OwnSteps
<1>12. ASSUME NEW c \in Conns, ConsumeTicket(c), UNCHANGED op PROVE FoundConns'
  BY <1>12 DEF ConsumeTicket, FoundConns, OwnSteps
<1>13. ASSUME NEW c \in Conns, HandshakeFails(c), UNCHANGED op
      PROVE  FoundConns'
  BY <1>13 DEF HandshakeFails, FoundConns, OwnSteps
<1>14. ASSUME NEW c \in Conns, Join(c), UNCHANGED op PROVE FoundConns'
  BY <1>14 DEF Join, FoundConns, OwnSteps
<1>15. ASSUME NEW c \in Conns, Leave(c), UNCHANGED op PROVE FoundConns'
  BY <1>15 DEF Leave, FoundConns, OwnSteps
<1>16. ASSUME NEW c \in Conns, HandleClientFrame(c), UNCHANGED op
      PROVE  FoundConns'
  BY <1>16 DEF HandleClientFrame, Goto, FoundConns, OwnSteps
<1>16t. ASSUME NEW c \in Conns, Touch(c), UNCHANGED op PROVE FoundConns'
  BY <1>16t DEF Touch, Goto, FoundConns, OwnSteps
<1>17. ASSUME NEW c \in Conns, GetSession(c), UNCHANGED op PROVE FoundConns'
  BY <1>17 DEF GetSession, Goto, FoundConns, OwnSteps
<1>18. ASSUME NEW c \in Conns, RefreshRejected(c), UNCHANGED op
      PROVE  FoundConns'
  BY <1>18 DEF RefreshRejected, Finish, Goto, FoundConns, OwnSteps
<1>18s. ASSUME NEW c \in Conns, StampRefreshed(c), UNCHANGED op
      PROVE  FoundConns'
  BY <1>18s DEF StampRefreshed, Goto, FoundConns, OwnSteps
<1>19. ASSUME NEW c \in Conns, SaveRefreshed(c), UNCHANGED op PROVE FoundConns'
  BY <1>19 DEF SaveRefreshed, Goto, FoundConns, OwnSteps
<1>20. ASSUME NEW c \in Conns, ComparePermission(c), UNCHANGED op
      PROVE  FoundConns'
  BY <1>20 DEF ComparePermission, Finish, Goto, FoundConns, OwnSteps
<1>21. ASSUME NEW w \in Workers, ListConnections(w), UNCHANGED op
      PROVE  FoundConns'
  BY <1>21 DEF ListConnections, Goto, ConnectionsOf, Joined, FoundConns,
     OwnSteps
<1>22. ASSUME NEW w \in Workers, CloseOne(w), UNCHANGED op PROVE FoundConns'
  BY <1>22 DEF CloseOne, FoundConns, OwnSteps
<1>23. ASSUME NEW w \in Workers, SetPermission(w), UNCHANGED op
      PROVE  FoundConns'
  BY <1>23 DEF SetPermission, FoundConns, OwnSteps
<1>24. ASSUME NEW w \in Workers, EndOfList(w), UNCHANGED op PROVE FoundConns'
  BY <1>24 DEF EndOfList, Finish, Goto, FoundConns, OwnSteps
<1>25. QED
  BY <1>1, <1>2, <1>3, <1>4, <1>5, <1>6, <1>7, <1>8, <1>9, <1>10, <1>11,
     <1>12, <1>13, <1>14, <1>15, <1>16, <1>17, <1>18, <1>19, <1>20, <1>21,
     <1>22, <1>23, <1>24, <1>5s, <1>16t, <1>18s
  DEF Next, CallStep, ConnStep, ListStep

\* The tickets a revocation finds were issued before it, so none comes back.
LEMMA FoundTicketsStep ==
    ASSUME TypeOK, OwnSteps, TicketInv, FoundTickets, [Next]_vars
    PROVE  FoundTickets'
<1> USE DEF storeVars, connVars, historyVars
<1>0. /\ at \in [Workers -> Labels] /\ spent \in [Calls -> SUBSET Conns]
      /\ \A t \in tickets : t.value \in Calls
      /\ found \in [Calls -> [conns : SUBSET Conns, tickets : SUBSET Calls]]
      /\ \A k \in Calls : k \in Workers /\ found[k].tickets \subseteq Calls
      /\ \A c \in Conns : c \in Workers /\ c \notin Calls
  BY SessionAssumption DEF TypeOK, Ticket, Workers
<1> USE <1>0
<1>1. CASE UNCHANGED vars
  BY <1>1 DEF vars, FoundTickets, TicketInv, OwnSteps
<1>2. CASE Tick /\ UNCHANGED op
  BY <1>2 DEF Tick, FoundTickets, TicketInv, OwnSteps
<1>3. CASE SweepTickets /\ UNCHANGED op
  BY <1>3 DEF SweepTickets, FoundTickets, TicketInv, OwnSteps
<1>4. CASE SweepSessions /\ UNCHANGED op
  BY <1>4 DEF SweepSessions, FoundTickets, TicketInv, OwnSteps
<1>5. ASSUME NEW k \in Calls, Bootstrap(k), UNCHANGED op PROVE FoundTickets'
  BY <1>5 DEF Bootstrap, Goto, FoundTickets, TicketInv, OwnSteps
<1>5s. ASSUME NEW k \in Calls, SaveSession(k), UNCHANGED op PROVE FoundTickets'
  BY <1>5s DEF SaveSession, Save, Goto, FoundTickets, TicketInv, OwnSteps
<1>6. ASSUME NEW k \in Calls, IssueTicket(k), UNCHANGED op PROVE FoundTickets'
  BY <1>6 DEF IssueTicket, Goto, FoundTickets, TicketInv, OwnSteps
<1>7. ASSUME NEW k \in Calls, AllowUser(k), UNCHANGED op PROVE FoundTickets'
  BY <1>7 DEF AllowUser, Finish, Goto, FoundTickets, TicketInv, OwnSteps
<1>8. ASSUME NEW k \in Calls, DeleteTickets(k), UNCHANGED op
      PROVE  FoundTickets'
  <2>1. \A t \in tickets' : t \in tickets /\ About[t.value] # About[k]
    BY <1>8 DEF DeleteTickets
  <2>2. \A j \in Workers : at'[j] = IF j = k THEN "cut" ELSE at[j]
    BY <1>8 DEF DeleteTickets, Goto
  <2>3. CASE op[k] = "revoke" /\ at[k] = "start"
    <3>1. \A j \in Calls \ {k} : found'[j] = found[j]
      BY <1>8, <2>3 DEF DeleteTickets, Arrival
    <3>2. \A b \in found'[k].tickets :
             /\ b \in Calls /\ About[b] = About[k]
             /\ \/ \E t \in tickets : t.value = b
                \/ spent[b] # {}
      BY <1>8, <2>3 DEF DeleteTickets, Arrival, Subject
    <3>3. \A b \in found'[k].tickets : at'[b] \notin {"start", "stamped", "saved"}
      BY <2>2, <3>2 DEF TicketInv
    <3>4. \A j \in Calls : \A b \in found'[j].tickets : at'[b] \notin {"start", "stamped", "saved"}
      BY <2>2, <3>1, <3>3 DEF FoundTickets
    <3>5. QED
      BY <1>8, <2>1, <2>2, <3>1, <3>2, <3>4 DEF FoundTickets
  <2>4. CASE op[k] = "bootstrap" /\ UNCHANGED found
    BY <1>8, <2>1, <2>2, <2>4 DEF FoundTickets
  <2>5. QED BY <1>8, <2>3, <2>4 DEF DeleteTickets
<1>9. ASSUME NEW k \in Calls, DeleteSession(k), UNCHANGED op
      PROVE  FoundTickets'
  BY <1>9 DEF DeleteSession, Goto, AfterDelete, FoundTickets, TicketInv,
     OwnSteps
<1>10. ASSUME NEW k \in Calls, DeleteByUserAndNote(k), UNCHANGED op
      PROVE  FoundTickets'
  BY <1>10 DEF DeleteByUserAndNote, Arrival, Goto, Subject, FoundTickets,
     TicketInv, OwnSteps
<1>11. ASSUME NEW k \in Calls, UpdatePermission(k), UNCHANGED op
      PROVE  FoundTickets'
  BY <1>11 DEF UpdatePermission, Goto, Finish, FoundTickets, TicketInv,
     OwnSteps
<1>12. ASSUME NEW c \in Conns, ConsumeTicket(c), UNCHANGED op
      PROVE  FoundTickets'
  BY <1>12 DEF ConsumeTicket, Consumed, FoundTickets, TicketInv, OwnSteps
<1>13. ASSUME NEW c \in Conns, HandshakeFails(c), UNCHANGED op
      PROVE  FoundTickets'
  BY <1>13 DEF HandshakeFails, FoundTickets, TicketInv, OwnSteps
<1>14. ASSUME NEW c \in Conns, Join(c), UNCHANGED op PROVE FoundTickets'
  BY <1>14 DEF Join, FoundTickets, TicketInv, OwnSteps
<1>15. ASSUME NEW c \in Conns, Leave(c), UNCHANGED op PROVE FoundTickets'
  BY <1>15 DEF Leave, FoundTickets, TicketInv, OwnSteps
<1>16. ASSUME NEW c \in Conns, HandleClientFrame(c), UNCHANGED op
      PROVE  FoundTickets'
  BY <1>16 DEF HandleClientFrame, Goto, FoundTickets, TicketInv, OwnSteps
<1>16t. ASSUME NEW c \in Conns, Touch(c), UNCHANGED op PROVE FoundTickets'
  BY <1>16t DEF Touch, Goto, FoundTickets, TicketInv, OwnSteps
<1>17. ASSUME NEW c \in Conns, GetSession(c), UNCHANGED op PROVE FoundTickets'
  BY <1>17 DEF GetSession, Goto, FoundTickets, TicketInv, OwnSteps
<1>18. ASSUME NEW c \in Conns, RefreshRejected(c), UNCHANGED op
      PROVE  FoundTickets'
  BY <1>18 DEF RefreshRejected, Finish, Goto, FoundTickets, TicketInv,
     OwnSteps
<1>18s. ASSUME NEW c \in Conns, StampRefreshed(c), UNCHANGED op
      PROVE  FoundTickets'
  BY <1>18s DEF StampRefreshed, Goto, FoundTickets, TicketInv, OwnSteps
<1>19. ASSUME NEW c \in Conns, SaveRefreshed(c), UNCHANGED op
      PROVE  FoundTickets'
  BY <1>19 DEF SaveRefreshed, Goto, FoundTickets, TicketInv, OwnSteps
<1>20. ASSUME NEW c \in Conns, ComparePermission(c), UNCHANGED op
      PROVE  FoundTickets'
  BY <1>20 DEF ComparePermission, Finish, Goto, FoundTickets, TicketInv,
     OwnSteps
<1>21. ASSUME NEW w \in Workers, ListConnections(w), UNCHANGED op
      PROVE  FoundTickets'
  BY <1>21 DEF ListConnections, Goto, Subject, FoundTickets, TicketInv,
     OwnSteps
<1>22. ASSUME NEW w \in Workers, CloseOne(w), UNCHANGED op PROVE FoundTickets'
  BY <1>22 DEF CloseOne, FoundTickets, TicketInv, OwnSteps
<1>23. ASSUME NEW w \in Workers, SetPermission(w), UNCHANGED op
      PROVE  FoundTickets'
  BY <1>23 DEF SetPermission, FoundTickets, TicketInv, OwnSteps
<1>24. ASSUME NEW w \in Workers, EndOfList(w), UNCHANGED op PROVE FoundTickets'
  BY <1>24 DEF EndOfList, Finish, Goto, FoundTickets, TicketInv, OwnSteps
<1>25. QED
  BY <1>1, <1>2, <1>3, <1>4, <1>5, <1>6, <1>7, <1>8, <1>9, <1>10, <1>11,
     <1>12, <1>13, <1>14, <1>15, <1>16, <1>17, <1>18, <1>19, <1>20, <1>21,
     <1>22, <1>23, <1>24, <1>5s, <1>16t, <1>18s
  DEF Next, CallStep, ConnStep, ListStep

-----------------------------------------------------------------------------
(* Idleness *)

\* The clock waits for a reading that is Lag old, and a worker keeps its reading
\* until it has stored it.
LEMMA ReadingsStep ==
    ASSUME TypeOK, Readings, [Next]_vars
    PROVE  Readings'
<1> USE DEF storeVars, connVars, historyVars, Stamped
<1>0. /\ clock \in Nat /\ Lag \in Nat
      /\ at \in [Workers -> Labels] /\ arg \in [Workers -> Record]
      /\ \A w \in Workers : arg[w].seen \in Nat
  BY SessionAssumption, Places DEF TypeOK, Record
<1> USE <1>0, Places
<1>1. CASE UNCHANGED vars
  BY <1>1 DEF vars, Readings
<1>2. CASE Tick /\ UNCHANGED op
  BY <1>2 DEF Tick, Readings
<1>3. CASE SweepTickets /\ UNCHANGED op
  BY <1>3 DEF SweepTickets, Readings
<1>4. CASE SweepSessions /\ UNCHANGED op
  BY <1>4 DEF SweepSessions, Readings
<1>5. ASSUME NEW k \in Calls, Bootstrap(k), UNCHANGED op PROVE Readings'
  BY <1>5 DEF Bootstrap, Goto, Readings
<1>5s. ASSUME NEW k \in Calls, SaveSession(k), UNCHANGED op PROVE Readings'
  BY <1>5s DEF SaveSession, Goto, Readings
<1>6. ASSUME NEW k \in Calls, IssueTicket(k), UNCHANGED op PROVE Readings'
  BY <1>6 DEF IssueTicket, Goto, Readings
<1>7. ASSUME NEW k \in Calls, AllowUser(k), UNCHANGED op PROVE Readings'
  BY <1>7 DEF AllowUser, Finish, Goto, Readings
<1>8. ASSUME NEW k \in Calls, DeleteTickets(k), UNCHANGED op PROVE Readings'
  BY <1>8 DEF DeleteTickets, Goto, Readings
<1>9. ASSUME NEW k \in Calls, DeleteSession(k), UNCHANGED op PROVE Readings'
  BY <1>9 DEF DeleteSession, AfterDelete, Goto, Readings
<1>10. ASSUME NEW k \in Calls, DeleteByUserAndNote(k), UNCHANGED op
      PROVE  Readings'
  BY <1>10 DEF DeleteByUserAndNote, Goto, Readings
<1>11. ASSUME NEW k \in Calls, UpdatePermission(k), UNCHANGED op
      PROVE  Readings'
  <2>1. \A w \in Workers \ {k} : at'[w] = at[w] /\ arg'[w] = arg[w]
    BY <1>11 DEF UpdatePermission, Finish, Goto
  <2>2. at'[k] \in {"updated", "done"}
    BY <1>11 DEF UpdatePermission, Finish, Goto
  <2>3. QED
    BY <1>11, <2>1, <2>2 DEF UpdatePermission, Readings
<1>12. ASSUME NEW c \in Conns, ConsumeTicket(c), UNCHANGED op PROVE Readings'
  BY <1>12 DEF ConsumeTicket, Readings
<1>13. ASSUME NEW c \in Conns, HandshakeFails(c), UNCHANGED op PROVE Readings'
  BY <1>13 DEF HandshakeFails, Readings
<1>14. ASSUME NEW c \in Conns, Join(c), UNCHANGED op PROVE Readings'
  BY <1>14 DEF Join, Readings
<1>15. ASSUME NEW c \in Conns, Leave(c), UNCHANGED op PROVE Readings'
  BY <1>15 DEF Leave, Readings
<1>16. ASSUME NEW c \in Conns, HandleClientFrame(c), UNCHANGED op
      PROVE  Readings'
  <2>1. [arg[c] EXCEPT !.seen = clock].seen = clock
    BY RecordEdit
  <2>2. \A w \in Workers \ {c} : at'[w] = at[w] /\ arg'[w] = arg[w]
    BY <1>16 DEF HandleClientFrame, Goto
  <2>3. Stamped(c)' => arg'[c].seen = clock
    BY <1>16, <2>1 DEF HandleClientFrame, Goto
  <2>4. QED
    BY <1>16, <2>2, <2>3 DEF HandleClientFrame, Readings
<1>16t. ASSUME NEW c \in Conns, Touch(c), UNCHANGED op PROVE Readings'
  BY <1>16t DEF Touch, Goto, Readings
<1>17. ASSUME NEW c \in Conns, GetSession(c), UNCHANGED op PROVE Readings'
  BY <1>17 DEF GetSession, Goto, Readings
<1>18. ASSUME NEW c \in Conns, RefreshRejected(c), UNCHANGED op PROVE Readings'
  BY <1>18 DEF RefreshRejected, Finish, Goto, Readings
<1>18s. ASSUME NEW c \in Conns, StampRefreshed(c), UNCHANGED op PROVE Readings'
  <2>1. [arg[c] EXCEPT !.seen = clock].seen = clock
    BY RecordEdit
  <2>2. \A w \in Workers \ {c} : at'[w] = at[w] /\ arg'[w] = arg[w]
    BY <1>18s DEF StampRefreshed, Goto
  <2>3. Stamped(c)' => arg'[c].seen = clock
    BY <1>18s, <2>1 DEF StampRefreshed, Goto
  <2>4. QED
    BY <1>18s, <2>2, <2>3 DEF StampRefreshed, Readings
<1>19. ASSUME NEW c \in Conns, SaveRefreshed(c), UNCHANGED op PROVE Readings'
  BY <1>19 DEF SaveRefreshed, Goto, Readings
<1>20. ASSUME NEW c \in Conns, ComparePermission(c), UNCHANGED op
      PROVE  Readings'
  BY <1>20 DEF ComparePermission, Finish, Goto, Readings
<1>21. ASSUME NEW v \in Workers, ListConnections(v), UNCHANGED op
      PROVE  Readings'
  BY <1>21 DEF ListConnections, Goto, Readings
<1>22. ASSUME NEW v \in Workers, CloseOne(v), UNCHANGED op PROVE Readings'
  BY <1>22 DEF CloseOne, Readings
<1>23. ASSUME NEW v \in Workers, SetPermission(v), UNCHANGED op PROVE Readings'
  BY <1>23 DEF SetPermission, Readings
<1>24. ASSUME NEW v \in Workers, EndOfList(v), UNCHANGED op PROVE Readings'
  BY <1>24 DEF EndOfList, Finish, Goto, Readings
<1>25. QED
  BY <1>1, <1>2, <1>3, <1>4, <1>5, <1>6, <1>7, <1>8, <1>9, <1>10, <1>11,
     <1>12, <1>13, <1>14, <1>15, <1>16, <1>17, <1>18, <1>19, <1>20, <1>21,
     <1>22, <1>23, <1>24, <1>5s, <1>16t, <1>18s
  DEF Next, CallStep, ConnStep, ListStep

\* Whatever writes a session's record brings its sighting up to date but for a
\* Lag, and a frame that does not touch comes less than a TouchInterval after one
\* that did.
LEMMA HeardStep ==
    ASSUME TypeOK, Readings, HeardInv, [Next]_vars
    PROVE  HeardInv'
<1> USE DEF storeVars, connVars, historyVars
<1>0. /\ touched \in [Conns -> Int] /\ heard \in [Sids -> Nat]
      /\ sess \in [Sids -> Record] /\ live \subseteq Sids
      /\ at \in [Workers -> Labels] /\ arg \in [Workers -> Record]
      /\ clock \in Nat /\ TouchInterval \in Nat /\ Lag \in Nat
      /\ \A s \in Sids : sess[s].seen \in Nat
      /\ \A w \in Workers : arg[w].seen \in Nat
  BY SessionAssumption DEF TypeOK, Record
<1> USE <1>0, Places
<1>1. CASE UNCHANGED vars
  BY <1>1 DEF vars, HeardInv
<1>2. CASE Tick /\ UNCHANGED op
  BY <1>2 DEF Tick, HeardInv
<1>3. CASE SweepTickets /\ UNCHANGED op
  BY <1>3 DEF SweepTickets, HeardInv
<1>4. CASE SweepSessions /\ UNCHANGED op
  BY <1>4 DEF SweepSessions, Forgotten, HeardInv
<1>5. ASSUME NEW k \in Calls, Bootstrap(k), UNCHANGED op PROVE HeardInv'
  BY <1>5 DEF Bootstrap, Goto, HeardInv
<1>5s. ASSUME NEW k \in Calls, SaveSession(k), UNCHANGED op PROVE HeardInv'
  <2>1. arg[k].seen <= clock /\ clock <= arg[k].seen + Lag
    BY <1>5s DEF SaveSession, Readings, Stamped
  <2>2. \A s \in Sids : sess'[s].seen = IF s = About[k] THEN arg[k].seen
                                         ELSE sess[s].seen
    BY <1>5s DEF SaveSession, Save
  <2>3. \A c \in Conns : About[c] \in live' /\ at'[c] # "touching" =>
           touched[c] <= sess'[About[c]].seen + Lag
    BY <1>5s, <2>1, <2>2 DEF SaveSession, Save, Goto, HeardInv
  <2>4. \A s \in live' : heard[s] <= sess'[s].seen + TouchInterval + Lag
    BY <1>5s, <2>1, <2>2 DEF SaveSession, Save, HeardInv
  <2>5. QED
    BY <1>5s, <2>3, <2>4 DEF SaveSession, HeardInv
<1>6. ASSUME NEW k \in Calls, IssueTicket(k), UNCHANGED op PROVE HeardInv'
  BY <1>6 DEF IssueTicket, Goto, HeardInv
<1>7. ASSUME NEW k \in Calls, AllowUser(k), UNCHANGED op PROVE HeardInv'
  BY <1>7 DEF AllowUser, Finish, Goto, HeardInv
<1>8. ASSUME NEW k \in Calls, DeleteTickets(k), UNCHANGED op PROVE HeardInv'
  BY <1>8 DEF DeleteTickets, Goto, HeardInv
<1>9. ASSUME NEW k \in Calls, DeleteSession(k), UNCHANGED op PROVE HeardInv'
  BY <1>9 DEF DeleteSession, Forgotten, AfterDelete, Goto, HeardInv
<1>10. ASSUME NEW k \in Calls, DeleteByUserAndNote(k), UNCHANGED op
      PROVE  HeardInv'
  BY <1>10 DEF DeleteByUserAndNote, Forgotten, Goto, HeardInv
<1>11. ASSUME NEW k \in Calls, UpdatePermission(k), UNCHANGED op
      PROVE  HeardInv'
  <2>1. \A s \in Sids : sess'[s].seen = sess[s].seen
    <3>1. CASE About[k] \in live
      <4>1. PICK p \in Perms : sess' = [sess EXCEPT ![About[k]].perm = p]
        BY <1>11, <3>1 DEF UpdatePermission
      <4>2. sess[About[k]] \in Record /\ p \in 0..4
        OBVIOUS
      <4>3. [sess[About[k]] EXCEPT !.perm = p].seen = sess[About[k]].seen
        BY <4>2, RecordEdit
      <4>4. QED BY <4>1, <4>3
    <3>2. CASE About[k] \notin live
      BY <1>11, <3>2 DEF UpdatePermission
    <3>3. QED BY <3>1, <3>2
  <2>2. QED
    BY <1>11, <2>1 DEF UpdatePermission, Finish, Goto, HeardInv
<1>12. ASSUME NEW c \in Conns, ConsumeTicket(c), UNCHANGED op PROVE HeardInv'
  BY <1>12 DEF ConsumeTicket, HeardInv
<1>13. ASSUME NEW c \in Conns, HandshakeFails(c), UNCHANGED op PROVE HeardInv'
  BY <1>13 DEF HandshakeFails, HeardInv
<1>14. ASSUME NEW c \in Conns, Join(c), UNCHANGED op PROVE HeardInv'
  BY <1>14 DEF Join, HeardInv
<1>15. ASSUME NEW c \in Conns, Leave(c), UNCHANGED op PROVE HeardInv'
  BY <1>15 DEF Leave, HeardInv
<1>16. ASSUME NEW c \in Conns, HandleClientFrame(c), UNCHANGED op
      PROVE  HeardInv'
  <2>1. CASE ShouldTouch(c)
    <3>1. /\ touched' = [touched EXCEPT ![c] = clock]
          /\ at' = [at EXCEPT ![c] = "touching"] /\ heard' = heard
      BY <1>16, <2>1 DEF HandleClientFrame, Goto
    <3>2. QED
      BY <1>16, <3>1 DEF HandleClientFrame, HeardInv
  <2>2. CASE ~ShouldTouch(c)
    <3>1. /\ touched' = touched /\ clock - touched[c] < TouchInterval
          /\ heard' = [heard EXCEPT ![About[c]] = Higher(@, clock)]
          /\ at[c] = "start"
          /\ \A d \in Conns \ {c} : at'[d] = at[d]
      BY <1>16, <2>2 DEF HandleClientFrame, ShouldTouch, Goto, Heard
    <3>2. About[c] \in live =>
             clock <= sess[About[c]].seen + TouchInterval + Lag
      BY <3>1 DEF HeardInv
    <3>3. \A s \in Sids : heard'[s] = heard[s] \/ (s = About[c] /\ heard'[s] = clock)
      BY <3>1 DEF Higher
    <3>4. QED
      BY <1>16, <3>1, <3>2, <3>3 DEF HandleClientFrame, HeardInv
  <2>3. QED BY <2>1, <2>2
<1>16t. ASSUME NEW c \in Conns, Touch(c), UNCHANGED op PROVE HeardInv'
  <2>1. arg[c].seen <= clock /\ clock <= arg[c].seen + Lag
    BY <1>16t DEF Touch, Readings, Stamped
  <2>2. \A s \in Sids : sess'[s].seen = IF s = About[c] /\ s \in live
                                         THEN arg[c].seen ELSE sess[s].seen
    BY <1>16t, TouchedOnly DEF Touch
  <2>3. \A s \in Sids : \/ heard'[s] = heard[s]
                        \/ s = About[c] /\ heard'[s] = arg[c].seen
    BY <1>16t DEF Touch, Heard, Higher
  <2>4. \A d \in Conns \ {c} : at'[d] = at[d]
    BY <1>16t DEF Touch, Goto
  <2>5. \A d \in Conns : About[d] \in live /\ at'[d] # "touching" =>
           touched[d] <= sess'[About[d]].seen + Lag
    <3>1. ASSUME NEW d \in Conns, About[d] = About[c], About[d] \in live
          PROVE  touched[d] <= sess'[About[d]].seen + Lag
      BY <2>1, <2>2, <3>1 DEF HeardInv
    <3>2. ASSUME NEW d \in Conns, About[d] # About[c], About[d] \in live,
                 at'[d] # "touching"
          PROVE  touched[d] <= sess'[About[d]].seen + Lag
      BY <2>2, <2>4, <3>2 DEF HeardInv
    <3>3. QED BY <3>1, <3>2
  <2>6. \A s \in live : heard'[s] <= sess'[s].seen + TouchInterval + Lag
    BY <2>1, <2>2, <2>3 DEF HeardInv
  <2>7. \A s \in Sids : heard'[s] <= clock
    BY <2>1, <2>3 DEF HeardInv
  <2>8. QED
    BY <1>16t, <2>5, <2>6, <2>7 DEF Touch, HeardInv
<1>17. ASSUME NEW c \in Conns, GetSession(c), UNCHANGED op PROVE HeardInv'
  BY <1>17 DEF GetSession, Goto, HeardInv
<1>18. ASSUME NEW c \in Conns, RefreshRejected(c), UNCHANGED op PROVE HeardInv'
  BY <1>18 DEF RefreshRejected, Finish, Goto, HeardInv
<1>18s. ASSUME NEW c \in Conns, StampRefreshed(c), UNCHANGED op PROVE HeardInv'
  BY <1>18s DEF StampRefreshed, Goto, HeardInv
<1>19. ASSUME NEW c \in Conns, SaveRefreshed(c), UNCHANGED op PROVE HeardInv'
  <2>1. arg[c].seen <= clock /\ clock <= arg[c].seen + Lag
    BY <1>19 DEF SaveRefreshed, Readings, Stamped
  <2>2. \A s \in Sids : sess'[s].seen = IF s = About[c] THEN arg[c].seen
                                         ELSE sess[s].seen
    BY <1>19 DEF SaveRefreshed, Save
  <2>3. \A d \in Conns : About[d] \in live' /\ at'[d] # "touching" =>
           touched[d] <= sess'[About[d]].seen + Lag
    BY <1>19, <2>1, <2>2 DEF SaveRefreshed, Save, Goto, HeardInv
  <2>4. \A s \in live' : heard[s] <= sess'[s].seen + TouchInterval + Lag
    BY <1>19, <2>1, <2>2 DEF SaveRefreshed, Save, HeardInv
  <2>5. QED
    BY <1>19, <2>3, <2>4 DEF SaveRefreshed, HeardInv
<1>20. ASSUME NEW c \in Conns, ComparePermission(c), UNCHANGED op
      PROVE  HeardInv'
  BY <1>20 DEF ComparePermission, Finish, Goto, HeardInv
<1>21. ASSUME NEW v \in Workers, ListConnections(v), UNCHANGED op
      PROVE  HeardInv'
  BY <1>21 DEF ListConnections, Goto, HeardInv
<1>22. ASSUME NEW v \in Workers, CloseOne(v), UNCHANGED op PROVE HeardInv'
  BY <1>22 DEF CloseOne, HeardInv
<1>23. ASSUME NEW v \in Workers, SetPermission(v), UNCHANGED op PROVE HeardInv'
  BY <1>23 DEF SetPermission, HeardInv
<1>24. ASSUME NEW v \in Workers, EndOfList(v), UNCHANGED op PROVE HeardInv'
  BY <1>24 DEF EndOfList, Finish, Goto, HeardInv
<1>25. QED
  BY <1>1, <1>2, <1>3, <1>4, <1>5, <1>6, <1>7, <1>8, <1>9, <1>10, <1>11,
     <1>12, <1>13, <1>14, <1>15, <1>16, <1>17, <1>18, <1>19, <1>20, <1>21,
     <1>22, <1>23, <1>24, <1>5s, <1>16t, <1>18s
  DEF Next, CallStep, ConnStep, ListStep

-----------------------------------------------------------------------------
(* The theorems *)

\* The stores, the connections and the workers of SessionService are in states
\* the code has, and a session that is not stored has no record, whatever
\* requests, frames and sweeps interleave.
THEOREM TypesHold == Spec => []TypeOK
<1>1. Init => TypeOK
  BY SessionAssumption, BlankTyped DEF Init, TypeOK, Ticket, Labels, Workers
<1>2. QED
  BY <1>1, TypeStep, PTL DEF Spec

\* Every request and reader keeps to the steps of its own handler.
LEMMA StepsHold == Spec => []OwnSteps
<1>1. Init => OwnSteps
  BY SessionAssumption DEF Init, OwnSteps, Ops, Workers
<1>2. QED
  BY <1>1, OwnStepsStep, TypesHold, PTL DEF Spec

\* RefreshSession, UpdateSessionPermission and ticket redemption together: no
\* session, ticket, connection or pending write ever exceeds what a bootstrap
\* or a control request granted its session.
THEOREM CeilingHolds == Spec => []GrantedCeiling
<1>1. Init => OwnConnections /\ GrantedCeiling
  BY SessionAssumption DEF Init, OwnConnections, GrantedCeiling, Blank, Workers
<1>2. TypeOK /\ OwnSteps /\ OwnConnections /\ GrantedCeiling /\ [Next]_vars =>
         OwnConnections' /\ GrantedCeiling'
  BY OwnConnectionsStep, CeilingStep DEF CeilingInv
<1>3. QED
  BY <1>1, <1>2, TypesHold, StepsHold, PTL DEF Spec

\* A ticket in the store is unredeemed and the only one of its request.
LEMMA TicketsHold == Spec => []TicketInv
<1>1. Init => TicketInv
  BY SessionAssumption DEF Init, TicketInv, Workers
<1>2. QED
  BY <1>1, TicketStep, TypesHold, StepsHold, PTL DEF Spec

\* MemoryTicketStore.Consume: of all the connections racing on one ticket at
\* most one is admitted.
THEOREM OneAdmitted == Spec => []TicketAdmitsOne
<1>1. TicketInv => TicketAdmitsOne
  <2> SUFFICES ASSUME TicketInv, NEW k \in Calls
               PROVE  Cardinality(spent[k]) <= 1
    BY DEF TicketAdmitsOne
  <2>1. CASE spent[k] = {}
    BY <2>1, FS_EmptySet
  <2>2. CASE \E c \in Conns : spent[k] = {c}
    <3>1. PICK c \in Conns : spent[k] = {c}
      BY <2>2
    <3>2. Cardinality({c}) = 1
      BY FS_Singleton
    <3>3. QED BY <3>1, <3>2
  <2>3. QED BY <2>1, <2>2 DEF TicketInv
<1>2. QED
  BY <1>1, TicketsHold, PTL

\* RevokeSession and RevokeUserFromNote: an answered revocation has closed every
\* connection it found, and RevokeSession has ended every ticket it found, while
\* handshakes, bootstraps, sweeps and other revocations go on.
THEOREM RevocationHolds == Spec => []RevocationReaches
<1>1. Init => FoundConns /\ FoundTickets
  BY SessionAssumption DEF Init, FoundConns, FoundTickets, Workers
<1>2. TypeOK /\ OwnSteps /\ TicketInv /\ FoundConns /\ FoundTickets
      /\ [Next]_vars => FoundConns' /\ FoundTickets'
  BY FoundConnsStep, FoundTicketsStep
<1>3. FoundConns /\ FoundTickets => RevocationReaches
  BY DEF FoundConns, FoundTickets, RevocationReaches
<1>4. QED
  BY <1>1, <1>2, <1>3, TypesHold, StepsHold, TicketsHold, PTL DEF Spec

\* Touch and the sweeper: no session is idle while a frame of one of its
\* connections got past its touch within IdleTimeout less one TouchInterval and
\* one Lag, in whatever order readings of the clock reach the store.
THEOREM BusyHolds == Spec => []BusyIsNotIdle
<1>1. Init => Readings /\ HeardInv
  BY SessionAssumption DEF Init, Readings, HeardInv, Stamped, Workers
<1>2. TypeOK /\ HeardInv => BusyIsNotIdle
  <2> SUFFICES ASSUME TypeOK, HeardInv, NEW s \in live, IsIdle(s)
               PROVE  clock - heard[s] > IdleTimeout - TouchInterval - Lag
    BY DEF BusyIsNotIdle
  <2>1. /\ clock \in Nat /\ heard[s] \in Nat /\ sess[s].seen \in Nat
        /\ IdleTimeout \in Nat /\ TouchInterval \in Nat /\ Lag \in Nat
    BY SessionAssumption DEF TypeOK, Record
  <2>2. heard[s] <= sess[s].seen + TouchInterval + Lag
    BY DEF HeardInv
  <2>3. QED BY <2>1, <2>2 DEF IsIdle
<1>3. QED
  BY <1>1, <1>2, ReadingsStep, HeardStep, TypesHold, PTL DEF Spec
=============================================================================
