-------------------------------- MODULE Rooms --------------------------------
(***************************************************************************)
(* RoomService over MemoryRoomStore: joining, leaving, the presence        *)
(* messages and the shutdown drain.                                        *)
(*                                                                         *)
(* Each store call is atomic (one RWMutex section) and each push on a      *)
(* peer's reliable queue is; nothing holds a lock between them, so a       *)
(* handler's Join and Leave are sequences of steps that interleave with    *)
(* other handlers and with the drain.  A connection's reliable queue is    *)
(* FIFO (OutboundQueues) and its client applies the frames in that order,  *)
(* so the view a client will have is folded at the push.                   *)
(***************************************************************************)
EXTENDS Integers, FiniteSets

CONSTANTS
    Conns,     \* connections; an id is never used twice
    Notes, Note,  \* [Conns -> Notes]
    Slow,      \* connections whose reliable queue may be full
    Leavers,   \* connections whose client may go away by itself
    DrainAt    \* bound: SIGTERM arrives when so many connections have come

ASSUME RoomAssumption ==
    /\ Note \in [Conns -> Notes]
    /\ Slow \subseteq Conns
    /\ Leavers \subseteq Conns
    /\ DrainAt \subseteq Nat

VARIABLES
    room,      \* the connections the store holds
    closed,    \* connections whose Close was called
    hpc,       \* per handler: the next step of Join, of the reader or of Leave
    roster,    \* per handler: the member list it will send
    todo,      \* per handler: peers its broadcast has still to reach
    quiet,     \* per handler: Leave saw draining and will not announce
    draining,  \* RoomService.draining
    dpc,       \* the shutdown goroutine
    dtodo,     \* connections it has still to notify or close
    warned,    \* connections sent server.draining
    view,      \* per client: the members it knows of once its queue is read
    early      \* history: connections named to the client before its roster

connVars == <<room, closed, hpc, roster, todo, quiet>>
drainVars == <<draining, dpc, dtodo, warned>>
clientVars == <<view, early>>
vars == <<room, closed, hpc, roster, todo, quiet, draining, dpc, dtodo, warned,
          view, early>>

Init ==
    /\ room = {} /\ closed = {}
    /\ hpc = [c \in Conns |-> "new"]
    /\ roster = [c \in Conns |-> {}] /\ todo = [c \in Conns |-> {}]
    /\ quiet = [c \in Conns |-> FALSE]
    /\ draining = FALSE /\ dpc = "serving" /\ dtodo = {} /\ warned = {}
    /\ view = [c \in Conns |-> {}] /\ early = [c \in Conns |-> {}]

-----------------------------------------------------------------------------
\* MemoryRoomStore.Members and Peers.
Members(n) == {d \in room : Note[d] = n}
Peers(c) == Members(Note[c]) \ {c}

\* A refused push closes the peer: Close("reliable queue overflow").
Refuses(d) == d \in Slow /\ d \notin closed

\* A presence frame that names c is pushed to d: d has been in the store since
\* its StoreJoin, so the frame may come before d's own roster.
Names(c, d) ==
    early' = [early EXCEPT ![d] = IF hpc[d] \in {"joined", "listed"} THEN @ \cup {c} ELSE @]

-----------------------------------------------------------------------------
(* Join *)

\* Join on a draining service only closes the connection.
CheckDraining(c) ==
    /\ hpc[c] = "new"
    /\ hpc' = [hpc EXCEPT ![c] = IF draining THEN "closing" ELSE "checked"]
    /\ closed' = IF draining THEN closed \cup {c} ELSE closed
    /\ UNCHANGED <<room, roster, todo, quiet, drainVars, clientVars>>

StoreJoin(c) ==
    /\ hpc[c] = "checked"
    /\ room' = room \cup {c}
    /\ hpc' = [hpc EXCEPT ![c] = "joined"]
    /\ UNCHANGED <<closed, roster, todo, quiet, drainVars, clientVars>>

ListMembers(c) ==
    /\ hpc[c] = "joined"
    /\ roster' = [roster EXCEPT ![c] = Members(Note[c])]
    /\ hpc' = [hpc EXCEPT ![c] = "listed"]
    /\ UNCHANGED <<room, closed, todo, quiet, drainVars, clientVars>>

\* room.members: the client's list is replaced; a closed queue swallows it, a
\* refusal is ignored.
SendRoster(c) ==
    /\ hpc[c] = "listed"
    /\ \/ /\ c \notin closed
          /\ view' = [view EXCEPT ![c] = roster[c]]
       \/ /\ c \in closed \/ Refuses(c)
          /\ UNCHANGED view
    /\ hpc' = [hpc EXCEPT ![c] = "greeted"]
    /\ roster' = [roster EXCEPT ![c] = {}]
    /\ UNCHANGED <<room, closed, todo, quiet, drainVars, early>>

ListPeers(c) ==
    /\ hpc[c] = "greeted"
    /\ todo' = [todo EXCEPT ![c] = Peers(c)]
    /\ hpc' = [hpc EXCEPT ![c] = "announcing"]
    /\ UNCHANGED <<room, closed, roster, quiet, drainVars, clientVars>>

\* presence.joined to one peer: delivered, swallowed or refused.
TellJoined(c) ==
    /\ hpc[c] = "announcing"
    /\ \E d \in todo[c] :
          /\ todo' = [todo EXCEPT ![c] = @ \ {d}]
          /\ \/ /\ d \notin closed
                /\ view' = [view EXCEPT ![d] = @ \cup {c}]
                /\ Names(c, d)
                /\ UNCHANGED closed
             \/ /\ d \in closed \/ Refuses(d)
                /\ closed' = closed \cup {d}
                /\ UNCHANGED clientVars
    /\ UNCHANGED <<room, hpc, roster, quiet, drainVars>>

Joined(c) ==
    /\ hpc[c] = "announcing"
    /\ todo[c] = {}
    /\ hpc' = [hpc EXCEPT ![c] = "open"]
    /\ UNCHANGED <<room, closed, roster, todo, quiet, drainVars, clientVars>>

-----------------------------------------------------------------------------
(* The reader, and Leave *)

\* The client goes away: the read fails and the handler starts to return.
ClientGone(c) ==
    /\ c \in Leavers
    /\ hpc[c] = "open"
    /\ c \notin closed
    /\ closed' = closed \cup {c}
    /\ hpc' = [hpc EXCEPT ![c] = "closing"]
    /\ UNCHANGED <<room, roster, todo, quiet, drainVars, clientVars>>

\* Somebody closed the connection: the read fails.
ReadFails(c) ==
    /\ hpc[c] = "open"
    /\ c \in closed
    /\ hpc' = [hpc EXCEPT ![c] = "closing"]
    /\ UNCHANGED <<room, closed, roster, todo, quiet, drainVars, clientVars>>

\* Leave evaluates draining before it touches the store.
CheckQuiet(c) ==
    /\ hpc[c] = "closing"
    /\ quiet' = [quiet EXCEPT ![c] = draining]
    /\ hpc' = [hpc EXCEPT ![c] = "leaving"]
    /\ UNCHANGED <<room, closed, roster, todo, drainVars, clientVars>>

StoreLeave(c) ==
    /\ hpc[c] = "leaving"
    /\ room' = room \ {c}
    /\ hpc' = [hpc EXCEPT ![c] = IF quiet[c] THEN "gone" ELSE "left"]
    /\ UNCHANGED <<closed, roster, todo, quiet, drainVars, clientVars>>

\* Mutant: only the members this client knew of hear of its departure.
ListKnown(c) ==
    /\ hpc[c] = "left"
    /\ todo' = [todo EXCEPT ![c] = view[c] \ {c}]
    /\ hpc' = [hpc EXCEPT ![c] = "farewell"]
    /\ UNCHANGED <<room, closed, roster, quiet, drainVars, clientVars>>

ListRemaining(c) ==
    /\ hpc[c] = "left"
    /\ todo' = [todo EXCEPT ![c] = Peers(c)]
    /\ hpc' = [hpc EXCEPT ![c] = "farewell"]
    /\ UNCHANGED <<room, closed, roster, quiet, drainVars, clientVars>>

\* presence.left to one peer.
TellLeft(c) ==
    /\ hpc[c] = "farewell"
    /\ \E d \in todo[c] :
          /\ todo' = [todo EXCEPT ![c] = @ \ {d}]
          /\ \/ /\ d \notin closed
                /\ view' = [view EXCEPT ![d] = @ \ {c}]
                /\ Names(c, d)
                /\ UNCHANGED closed
             \/ /\ d \in closed \/ Refuses(d)
                /\ closed' = closed \cup {d}
                /\ UNCHANGED clientVars
    /\ UNCHANGED <<room, hpc, roster, quiet, drainVars>>

Left(c) ==
    /\ hpc[c] = "farewell"
    /\ todo[c] = {}
    /\ hpc' = [hpc EXCEPT ![c] = "gone"]
    /\ UNCHANGED <<room, closed, roster, todo, quiet, drainVars, clientVars>>

-----------------------------------------------------------------------------
(* BeginDrain, WaitForReliableDrain, CloseAll *)

BeginDrain ==
    /\ Cardinality({c \in Conns : hpc[c] # "new"}) \in DrainAt
    /\ dpc = "serving"
    /\ draining' = TRUE
    /\ dpc' = "flagged"
    /\ UNCHANGED <<connVars, dtodo, warned, clientVars>>

DrainSnapshot ==
    /\ dpc = "flagged"
    /\ dtodo' = room
    /\ dpc' = "warning"
    /\ UNCHANGED <<connVars, draining, warned, clientVars>>

\* server.draining to one connection.
SendDraining ==
    /\ dpc = "warning"
    /\ \E d \in dtodo :
          /\ dtodo' = dtodo \ {d}
          /\ \/ /\ d \notin closed
                /\ warned' = warned \cup {d}
                /\ UNCHANGED closed
             \/ /\ d \in closed \/ Refuses(d)
                /\ closed' = closed \cup {d}
                /\ UNCHANGED warned
    /\ UNCHANGED <<room, hpc, roster, todo, quiet, draining, dpc, clientVars>>

\* Mutant: CloseAll leaves it to the warned clients to go.
WaitEndsUnwarned ==
    /\ dpc = "warning"
    /\ dtodo = {}
    /\ dtodo' = room \ warned
    /\ dpc' = "closing"
    /\ UNCHANGED <<connVars, draining, warned, clientVars>>

\* The queues are flushed or the grace period ends; CloseAll takes its own
\* snapshot.
WaitEnds ==
    /\ dpc = "warning"
    /\ dtodo = {}
    /\ dtodo' = room
    /\ dpc' = "closing"
    /\ UNCHANGED <<connVars, draining, warned, clientVars>>

CloseOne ==
    /\ dpc = "closing"
    /\ \E d \in dtodo :
          /\ dtodo' = dtodo \ {d}
          /\ closed' = closed \cup {d}
    /\ UNCHANGED <<room, hpc, roster, todo, quiet, draining, dpc, warned, clientVars>>

DrainDone ==
    /\ dpc = "closing"
    /\ dtodo = {}
    /\ dpc' = "done"
    /\ UNCHANGED <<connVars, draining, dtodo, warned, clientVars>>

-----------------------------------------------------------------------------
Handler(c) ==
    \/ StoreJoin(c) \/ ListMembers(c) \/ SendRoster(c) \/ ListPeers(c)
    \/ TellJoined(c) \/ Joined(c) \/ ReadFails(c) \/ CheckQuiet(c)
    \/ StoreLeave(c) \/ ListRemaining(c) \/ TellLeft(c) \/ Left(c)

Shutdown ==
    DrainSnapshot \/ SendDraining \/ WaitEnds \/ CloseOne \/ DrainDone

Next ==
    \/ \E c \in Conns : CheckDraining(c) \/ Handler(c) \/ ClientGone(c)
    \/ BeginDrain
    \/ Shutdown

\* Handlers and the shutdown run on; no client has to come or go.
Fairness == /\ \A c \in Conns : WF_vars(Handler(c))
            /\ WF_vars(Shutdown)

Spec == Init /\ [][Next]_vars
FairSpec == Spec /\ Fairness

-----------------------------------------------------------------------------
\* No handler is between two steps of Join or Leave.
Settled == \A c \in Conns : hpc[c] \in {"new", "open", "gone"}

\* A client that is attached and was never refused a frame.
Attentive(c) == hpc[c] = "open" /\ c \notin closed /\ c \notin Slow

\* Presence converges, but for the frames that overtook a roster: once the
\* handlers are settled, a client that applied its roster, joined and left
\* frames in the order of its queue knows exactly the members of its room,
\* whatever joins and leaves overlapped.  It may miss a member, or keep a ghost,
\* only among the connections whose presence frame came before its own roster.
PresenceComplete ==
    Settled /\ ~draining =>
        \A c \in Conns :
            Attentive(c) => view[c] \ early[c] = Members(Note[c]) \ early[c]

\* Nobody stays behind: a connection that the drain warned, or that anybody
\* closed at any moment of its life, is at last out of the store with its
\* handler returned; CloseAll takes a snapshot of its own, and a slow peer is
\* closed by another connection's goroutine, perhaps before it is in the room.
NobodyStaysBehind ==
    \A c \in Conns :
        c \in warned \cup closed ~> hpc[c] = "gone" /\ c \notin room

\* "Do not let that narrow race create an unannounced room member after
\* BeginDrain's snapshot" (Join): once the drain has warned everyone, each
\* member of a room was warned or is being closed.
NoUnannouncedMember ==
    dpc \in {"closing", "done"} => room \subseteq warned \cup closed
=============================================================================
