------------------------------ MODULE Sessions ------------------------------
(***************************************************************************)
(* SessionService over MemorySessionStore and MemoryTicketStore: bootstrap,*)
(* ticket redemption, auth.refresh, the control requests of the .NET API   *)
(* (revoke a session, revoke a user from a note, change a permission) and  *)
(* the sweeper.                                                            *)
(*                                                                         *)
(* A store call is one mutex section and so one step; nothing is locked    *)
(* between two of them.  Each HTTP request and each connection's reader is *)
(* a worker.  The time a record is stamped with is read before its store   *)
(* call and may be up to Lag old in it.  The validator, Consume and the    *)
(* sweeper read the clock in the step that uses it: an older reading would *)
(* only make them see less as expired or idle.  A ticket has the name of   *)
(* the bootstrap request that issues it.                                   *)
(***************************************************************************)
EXTENDS Integers, FiniteSets

CONSTANTS
    Sids,            \* session ids, chosen by the token issuer
    Users, Who,      \* [Sids -> Users]: one user on one note each
    Calls,           \* HTTP requests
    Mixes,           \* what they may ask: functions [Calls -> Ops]
    Conns,           \* handshakes that redeem a ticket
    About,           \* [Calls \cup Conns -> Sids]
    Perms,           \* ranks of the permissions tokens and requests carry
    Expiries,        \* values of a token's exp claim
    Leeway,          \* the validator's clock leeway
    TicketTTL, IdleTimeout, TouchInterval,
    Lag,             \* bound on the time from a clock read to its store call
    MaxClock         \* bound on the modelled time

Ops == {"bootstrap", "revoke", "ban", "update", "none"}
Workers == Calls \cup Conns

ASSUME SessionAssumption ==
    /\ Who \in [Sids -> Users]
    /\ Mixes \subseteq [Calls -> Ops]
    /\ Calls \cap Conns = {}
    /\ About \in [Workers -> Sids]
    /\ Perms \subseteq 1..4
    /\ Expiries \subseteq Nat
    /\ Leeway \in Nat /\ TicketTTL \in Nat /\ IdleTimeout \in Nat
    /\ TouchInterval \in Nat /\ Lag \in Nat /\ MaxClock \in Nat

VARIABLES
    op,        \* what each request asks, fixed from the start
    clock,
    live,      \* the sessions the store holds
    sess,      \* their records; Blank where there is none
    tickets,   \* the outstanding tickets
    phase,     \* per connection: away, redeemed, joined, gone
    perm,      \* the permission bound to a connection
    closed,    \* connections whose Close was called
    touched,   \* outboundQueues.lastTouch
    at, arg,   \* per worker: its next step and the values it carries
    todo,      \* per worker: connections it has still to close or change
    spent,     \* history: who redeemed a ticket
    granted,   \* history: highest permission a bootstrap or update granted
    heard,     \* history: the newest frame of a session past its touch
    found      \* history: what a revocation found when it arrived

storeVars == <<live, sess, tickets>>
connVars == <<phase, perm, closed, touched>>
historyVars == <<spent, granted, heard, found>>
vars == <<op, clock, live, sess, tickets, phase, perm, closed, touched, at,
          arg, todo, spent, granted, heard, found>>

\* CanvasSession, and what a worker carries of one.
Record == [perm : 0..4, expires : Nat, seen : Nat]
Blank == [perm |-> 0, expires |-> 0, seen |-> 0]
Ticket == [value : Calls, perm : 0..4, expires : Nat]

Init ==
    /\ op \in Mixes
    /\ clock = 0
    /\ live = {} /\ sess = [s \in Sids |-> Blank] /\ tickets = {}
    /\ phase = [c \in Conns |-> "away"]
    /\ perm = [c \in Conns |-> 0]
    /\ closed = {}
    /\ touched = [c \in Conns |-> 0 - TouchInterval]
    /\ at = [w \in Workers |-> "start"]
    /\ arg = [w \in Workers |-> Blank]
    /\ todo = [w \in Workers |-> {}]
    /\ spent = [k \in Calls |-> {}]
    /\ granted = [s \in Sids |-> 0]
    /\ heard = [s \in Sids |-> 0]
    /\ found = [k \in Calls |-> [conns |-> {}, tickets |-> {}]]

-----------------------------------------------------------------------------
(* Records and their lifetimes *)

\* A worker between a clock read and the store call that is given the reading.
Stamped(w) == at[w] \in {"stamped", "touching", "restamped"}

Tick ==
    /\ clock < MaxClock
    /\ \A w \in Workers : Stamped(w) => clock < arg[w].seen + Lag
    /\ clock' = clock + 1
    /\ UNCHANGED <<storeVars, connVars, at, arg, todo, historyVars>>

\* CanvasJWTValidator.Validate: the lifetime check of a genuine token.
Validate(exp) == clock < exp + Leeway

TicketExpired(t) == clock >= t.expires
IsExpired(s) == clock >= sess[s].expires
IsIdle(s) == clock - sess[s].seen > IdleTimeout

Higher(p, q) == IF p < q THEN q ELSE p

\* Mutant: the refreshed token's own permission.
ClaimedRank(p, q) == q

\* RefreshSession: the lower of the session's and the token's permission.
LowerRank(p, q) == IF q < p THEN q ELSE p

Goto(w, label) == at' = [at EXCEPT ![w] = label]

\* The request is answered, or the reader waits for the next frame.
Finish(w) ==
    /\ Goto(w, IF w \in Calls THEN "done" ELSE "start")
    /\ arg' = [arg EXCEPT ![w] = Blank]

Forgotten(gone) == [s \in Sids |-> IF s \in gone THEN Blank ELSE sess[s]]

\* MemorySessionStore.Save.
Save(s, record) ==
    /\ live' = live \cup {s}
    /\ sess' = [sess EXCEPT ![s] = record]

-----------------------------------------------------------------------------
(* POST bootstrap *)

\* Bootstrap up to the session it will save.
Bootstrap(k) ==
    /\ op[k] = "bootstrap" /\ at[k] = "start"
    /\ \E p \in Perms, e \in Expiries :
          /\ Validate(e)
          /\ arg' = [arg EXCEPT ![k] =
                [perm |-> p, expires |-> e, seen |-> clock]]
          /\ granted' = [granted EXCEPT ![About[k]] = Higher(@, p)]
    /\ Goto(k, "stamped")
    /\ UNCHANGED <<clock, storeVars, connVars, todo, spent, heard, found>>

SaveSession(k) ==
    /\ k \in Calls /\ at[k] = "stamped"
    /\ Save(About[k], arg[k])
    /\ Goto(k, "saved")
    /\ UNCHANGED <<clock, tickets, connVars, arg, todo, historyVars>>

\* The ticket carries the authorisation and the clock of the saved record.
IssueTicket(k) ==
    /\ op[k] = "bootstrap" /\ at[k] = "saved"
    /\ tickets' = tickets \cup
          {[value |-> k, perm |-> arg[k].perm,
            expires |-> arg[k].seen + TicketTTL]}
    /\ Goto(k, "issued")
    /\ UNCHANGED <<clock, live, sess, connVars, arg, todo, historyVars>>

\* AllowUser: the response carries the ticket, or the session is revoked.
AllowUser(k) ==
    /\ op[k] = "bootstrap" /\ at[k] = "issued"
    /\ \/ Finish(k)
       \/ Goto(k, "dropping") /\ UNCHANGED arg
    /\ UNCHANGED <<clock, storeVars, connVars, todo, historyVars>>

-----------------------------------------------------------------------------
(* Redeeming a ticket *)

\* Mutant: the lookup and the delete in two critical sections.
Peeked(t) == tickets

\* Consume deletes what it looked up, expired or not.
Consumed(t) == tickets \ {t}

\* A ticket reaches its client with the bootstrap's response.
ConsumeTicket(c) ==
    /\ phase[c] = "away"
    /\ \E t \in tickets :
          /\ About[t.value] = About[c] /\ at[t.value] = "done"
          /\ tickets' = Consumed(t)
          /\ \/ /\ TicketExpired(t)
                /\ phase' = [phase EXCEPT ![c] = "gone"]
                /\ UNCHANGED <<perm, spent>>
             \/ /\ ~TicketExpired(t)
                /\ phase' = [phase EXCEPT ![c] = "redeemed"]
                /\ perm' = [perm EXCEPT ![c] = t.perm]
                /\ spent' = [spent EXCEPT ![t.value] = @ \cup {c}]
    /\ UNCHANGED <<clock, live, sess, closed, touched, at, arg, todo,
                   granted, heard, found>>

\* The upgrade, or the wait for WebTransport's control stream, fails.
HandshakeFails(c) ==
    /\ phase[c] = "redeemed"
    /\ phase' = [phase EXCEPT ![c] = "gone"]
    /\ UNCHANGED <<clock, storeVars, perm, closed, touched, at, arg, todo,
                   historyVars>>

\* Rooms.Join of a connection bound to the ticket's authorisation.
Join(c) ==
    /\ phase[c] = "redeemed"
    /\ phase' = [phase EXCEPT ![c] = "joined"]
    /\ UNCHANGED <<clock, storeVars, perm, closed, touched, at, arg, todo,
                   historyVars>>

\* The reader ends, the connection is closed and leaves its room.
Leave(c) ==
    /\ phase[c] = "joined" /\ at[c] = "start"
    /\ phase' = [phase EXCEPT ![c] = "gone"]
    /\ closed' = closed \cup {c}
    /\ UNCHANGED <<clock, storeVars, perm, touched, at, arg, todo, historyVars>>

-----------------------------------------------------------------------------
(* Frames, heartbeats and auth.refresh *)

\* Mutant: a session is touched once per idle timeout.
TouchedRarely(c) == clock - touched[c] > IdleTimeout

ShouldTouch(c) == clock - touched[c] >= TouchInterval

\* Mutant: the touch does not look whether the session is still there.
TouchedBlind(s, now) == [sess EXCEPT ![s].seen = now]

\* MemorySessionStore.Touch: the reading replaces an older or a newer one.
Touched(s, now) ==
    IF s \in live THEN [sess EXCEPT ![s].seen = now] ELSE sess

Heard(s, now) == heard' = [heard EXCEPT ![s] = Higher(@, now)]

\* A well-formed frame touches its session when that is due; then it is an
\* auth.refresh or something that does not concern the stores.
HandleClientFrame(c) ==
    /\ phase[c] = "joined" /\ c \notin closed /\ at[c] = "start"
    /\ \/ /\ ShouldTouch(c)
          /\ touched' = [touched EXCEPT ![c] = clock]
          /\ arg' = [arg EXCEPT ![c].seen = clock]
          /\ Goto(c, "touching")
          /\ UNCHANGED heard
       \/ /\ ~ShouldTouch(c)
          /\ Heard(About[c], clock)
          /\ Goto(c, "refreshing") \/ Goto(c, "start")
          /\ UNCHANGED <<touched, arg>>
    /\ UNCHANGED <<clock, storeVars, phase, perm, closed, todo, spent, granted,
                   found>>

Touch(c) ==
    /\ c \in Conns /\ at[c] = "touching"
    /\ sess' = Touched(About[c], arg[c].seen)
    /\ Heard(About[c], arg[c].seen)
    /\ arg' = [arg EXCEPT ![c] = Blank]
    /\ Goto(c, "refreshing") \/ Goto(c, "start")
    /\ UNCHANGED <<clock, live, tickets, connVars, todo, spent, granted, found>>

\* RefreshSession up to the copy it will save.
GetSession(c) ==
    /\ c \in Conns /\ at[c] = "refreshing" /\ About[c] \in live
    /\ \E p \in Perms, e \in Expiries :
          /\ Validate(e)
          /\ arg' = [arg EXCEPT ![c] =
                [perm |-> LowerRank(sess[About[c]].perm, p),
                 expires |-> e, seen |-> 0]]
    /\ Goto(c, "read")
    /\ UNCHANGED <<clock, storeVars, connVars, todo, historyVars>>

\* A bad token, a token of another session, or no session.
RefreshRejected(c) ==
    /\ c \in Conns /\ at[c] = "refreshing"
    /\ Finish(c)
    /\ UNCHANGED <<clock, storeVars, connVars, todo, historyVars>>

\* CanvasSession.Touch of the copy.
StampRefreshed(c) ==
    /\ c \in Conns /\ at[c] = "read"
    /\ arg' = [arg EXCEPT ![c].seen = clock]
    /\ Goto(c, "restamped")
    /\ UNCHANGED <<clock, storeVars, connVars, todo, historyVars>>

\* The copy is saved over whatever the store holds by now.
SaveRefreshed(c) ==
    /\ c \in Conns /\ at[c] = "restamped"
    /\ Save(About[c], arg[c])
    /\ Goto(c, "saved")
    /\ UNCHANGED <<clock, tickets, connVars, arg, todo, historyVars>>

\* The connections are changed only when this one's permission differs.
ComparePermission(c) ==
    /\ c \in Conns /\ at[c] = "saved"
    /\ IF arg[c].perm = perm[c]
       THEN Finish(c)
       ELSE Goto(c, "updated") /\ UNCHANGED arg
    /\ UNCHANGED <<clock, storeVars, connVars, todo, historyVars>>

-----------------------------------------------------------------------------
(* Control requests *)

Subject(k) ==
    IF op[k] = "ban" THEN {s \in Sids : Who[s] = Who[About[k]]} ELSE {About[k]}

Joined(S) == {c \in Conns : phase[c] = "joined" /\ About[c] \in S}

\* The connections and tickets of the subject when the request arrives.
Arrival(k) ==
    found' = [found EXCEPT ![k] =
        [conns |-> Joined(Subject(k)),
         tickets |-> {b \in Calls : /\ About[b] \in Subject(k)
                                    /\ \/ \E t \in tickets : t.value = b
                                       \/ spent[b] # {}}]]

\* RevokeSession, first half: the tickets.  A throttled bootstrap does it too.
DeleteTickets(k) ==
    /\ \/ op[k] = "revoke" /\ at[k] = "start" /\ Arrival(k)
       \/ op[k] = "bootstrap" /\ at[k] = "dropping" /\ UNCHANGED found
    /\ tickets' = {t \in tickets : About[t.value] # About[k]}
    /\ Goto(k, "cut")
    /\ UNCHANGED <<clock, live, sess, connVars, arg, todo, spent, granted, heard>>

\* Mutant: a session that is not found ends the request.
AfterFoundDelete(k) ==
    IF op[k] = "bootstrap" \/ About[k] \notin live THEN "done" ELSE "deleted"

\* A throttled bootstrap disconnects nobody.
AfterDelete(k) == IF op[k] = "bootstrap" THEN "done" ELSE "deleted"

\* RevokeSession, second half: the session.
DeleteSession(k) ==
    /\ at[k] = "cut"
    /\ live' = live \ {About[k]} /\ sess' = Forgotten({About[k]})
    /\ Goto(k, AfterDelete(k))
    /\ arg' = [arg EXCEPT ![k] = Blank]
    /\ UNCHANGED <<clock, tickets, connVars, todo, historyVars>>

\* RevokeUserFromNote leaves the tickets alone.
DeleteByUserAndNote(k) ==
    /\ op[k] = "ban" /\ at[k] = "start"
    /\ Arrival(k)
    /\ live' = live \ Subject(k) /\ sess' = Forgotten(Subject(k))
    /\ Goto(k, "deleted")
    /\ UNCHANGED <<clock, tickets, connVars, arg, todo, spent, granted, heard>>

\* UpdateSessionPermission: a session that is not found ends the request.
UpdatePermission(k) ==
    /\ op[k] = "update" /\ at[k] = "start"
    /\ \/ /\ About[k] \in live
          /\ \E p \in Perms :
                /\ sess' = [sess EXCEPT ![About[k]].perm = p]
                /\ arg' = [arg EXCEPT ![k].perm = p]
                /\ granted' = [granted EXCEPT ![About[k]] = Higher(@, p)]
          /\ Goto(k, "updated")
       \/ /\ About[k] \notin live
          /\ Finish(k)
          /\ UNCHANGED <<sess, granted>>
    /\ UNCHANGED <<clock, live, tickets, connVars, todo, spent, heard, found>>

\* ConnectionsForSession, ConnectionsForUserOnNote.
ConnectionsOf(w) == Joined(IF w \in Calls THEN Subject(w) ELSE {About[w]})

ListConnections(w) ==
    /\ at[w] \in {"deleted", "updated"}
    /\ todo' = [todo EXCEPT ![w] = ConnectionsOf(w)]
    /\ Goto(w, IF at[w] = "deleted" THEN "closing" ELSE "applying")
    /\ UNCHANGED <<clock, storeVars, connVars, arg, historyVars>>

\* DisconnectSession, DisconnectUserFromNote.
CloseOne(w) ==
    /\ at[w] = "closing"
    /\ \E c \in todo[w] :
          /\ closed' = closed \cup {c}
          /\ todo' = [todo EXCEPT ![w] = @ \ {c}]
    /\ UNCHANGED <<clock, storeVars, phase, perm, touched, at, arg, historyVars>>

\* ApplyPermission.
SetPermission(w) ==
    /\ at[w] = "applying"
    /\ \E c \in todo[w] :
          /\ perm' = [perm EXCEPT ![c] = arg[w].perm]
          /\ todo' = [todo EXCEPT ![w] = @ \ {c}]
    /\ UNCHANGED <<clock, storeVars, phase, closed, touched, at, arg, historyVars>>

EndOfList(w) ==
    /\ at[w] \in {"closing", "applying"} /\ todo[w] = {}
    /\ Finish(w)
    /\ UNCHANGED <<clock, storeVars, connVars, todo, historyVars>>

-----------------------------------------------------------------------------
(* sweepLoop *)

SweepTickets ==
    /\ \E t \in tickets : TicketExpired(t)
    /\ tickets' = {t \in tickets : ~TicketExpired(t)}
    /\ UNCHANGED <<clock, live, sess, connVars, at, arg, todo, historyVars>>

\* Mutant: a session goes when it is both expired and idle.
ExpiredAndIdle(s) == IsExpired(s) /\ IsIdle(s)

Dead(s) == IsExpired(s) \/ IsIdle(s)

SweepSessions ==
    LET dead == {s \in live : Dead(s)} IN
    /\ dead # {}
    /\ live' = live \ dead /\ sess' = Forgotten(dead)
    /\ UNCHANGED <<clock, tickets, connVars, at, arg, todo, historyVars>>

-----------------------------------------------------------------------------
CallStep(k) ==
    \/ Bootstrap(k) \/ SaveSession(k) \/ IssueTicket(k) \/ AllowUser(k)
    \/ DeleteTickets(k) \/ DeleteSession(k)
    \/ DeleteByUserAndNote(k) \/ UpdatePermission(k)

ConnStep(c) ==
    \/ ConsumeTicket(c) \/ HandshakeFails(c) \/ Join(c) \/ Leave(c)
    \/ HandleClientFrame(c) \/ Touch(c)
    \/ GetSession(c) \/ RefreshRejected(c)
    \/ StampRefreshed(c) \/ SaveRefreshed(c) \/ ComparePermission(c)

ListStep(w) ==
    ListConnections(w) \/ CloseOne(w) \/ SetPermission(w) \/ EndOfList(w)

Next ==
    /\ UNCHANGED op
    /\ \/ Tick
       \/ SweepTickets
       \/ SweepSessions
       \/ \E k \in Calls : CallStep(k)
       \/ \E c \in Conns : ConnStep(c)
       \/ \E w \in Workers : ListStep(w)

Spec == Init /\ [][Next]_vars

\* The store call of a worker that has read the clock.
StoreStamped(w) == SaveSession(w) \/ Touch(w) \/ SaveRefreshed(w)

\* Time passes, the sweeper's ticker keeps firing and a worker on its way to a
\* store, with nothing to wait for but a mutex, gets there.
FairSpec == Spec /\ WF_vars(Tick /\ UNCHANGED op)
            /\ WF_vars(SweepTickets /\ UNCHANGED op) /\ WF_vars(SweepSessions /\ UNCHANGED op)
            /\ \A w \in Workers : WF_vars(StoreStamped(w) /\ UNCHANGED op)

-----------------------------------------------------------------------------
(* Properties *)

Labels == {"start", "stamped", "saved", "issued", "dropping", "cut", "deleted", "closing",
           "updated", "applying", "touching", "refreshing", "read", "restamped",
           "done"}

\* Every store, connection and worker is in a state its code has; a session
\* the store does not hold has no record.
TypeOK ==
    /\ op \in Mixes
    /\ clock \in 0..MaxClock
    /\ live \subseteq Sids /\ sess \in [Sids -> Record]
    /\ \A s \in Sids \ live : sess[s] = Blank
    /\ tickets \subseteq Ticket
    /\ phase \in [Conns -> {"away", "redeemed", "joined", "gone"}]
    /\ perm \in [Conns -> 0..4]
    /\ closed \subseteq Conns
    /\ touched \in [Conns -> Int]
    /\ at \in [Workers -> Labels] /\ arg \in [Workers -> Record]
    /\ todo \in [Workers -> SUBSET Conns]
    /\ spent \in [Calls -> SUBSET Conns]
    /\ granted \in [Sids -> 0..4] /\ heard \in [Sids -> Nat]
    /\ found \in [Calls -> [conns : SUBSET Conns, tickets : SUBSET Calls]]

\* No permission comes from nowhere: whatever refreshes, updates and tickets
\* race, no session, ticket or connection, and nothing a worker is about to
\* write, exceeds what a bootstrap or a control request once granted that
\* session.  A refresh token's own higher permission never leaks in.
GrantedCeiling ==
    /\ \A s \in Sids : sess[s].perm <= granted[s]
    /\ \A t \in tickets : t.perm <= granted[About[t.value]]
    /\ \A c \in Conns : perm[c] <= granted[About[c]]
    /\ \A w \in Workers : arg[w].perm <= granted[About[w]]

\* Consume: "two connections racing on one ticket" are never both admitted.
TicketAdmitsOne == \A k \in Calls : Cardinality(spent[k]) <= 1

\* A revocation that has been answered has closed every connection that was in
\* the room when it arrived, also those whose session had already been swept,
\* and RevokeSession has ended every ticket that was outstanding.
RevocationReaches ==
    \A k \in Calls :
        op[k] \in {"revoke", "ban"} /\ at[k] = "done" =>
            /\ found[k].conns \subseteq closed
            /\ op[k] = "revoke" =>
                  \A t \in tickets : t.value \notin found[k].tickets

\* Touch: a session is "not swept from under a busy socket": it only counts as
\* idle when no frame of any of its connections got past its touch for
\* IdleTimeout less one TouchInterval and one Lag, although bootstraps, refreshes
\* and touches with older readings overwrite newer ones.
BusyIsNotIdle ==
    \A s \in live :
        IsIdle(s) => clock - heard[s] > IdleTimeout - TouchInterval - Lag

\* "so abandoned bootstraps cannot grow the in-memory stores without bound"
\* (sweepLoop): every session and every ticket leaves its store again, however
\* refreshes race with the sweep.
NothingLeaks ==
    /\ \A s \in Sids : []<>(s \notin live)
    /\ []<>(tickets = {})

\* "a stale-but-valid token can never be replayed to climb back up after a
\* demotion" (RefreshSession): the step that saves a refreshed session never
\* raises the permission the store holds, which for a session that was removed
\* meanwhile is none.
RefreshNeverRaises ==
    [][\A c \in Conns :
          at[c] = "restamped" /\ at'[c] = "saved" =>
             sess'[About[c]].perm <= sess[About[c]].perm]_vars

\* "Revocation has to reach the live connections too" (Handlers.RevokeSession),
\* "ends every session a user holds on a note, across tabs and devices"
\* (RevokeUserFromNote): once the request is answered no open connection
\* stands on a ticket issued before it.
RevokedIsOut ==
    \A k \in Calls :
        op[k] \in {"revoke", "ban"} /\ at[k] = "done" =>
            \A b \in found[k].tickets :
                \A c \in spent[b] : phase[c] = "joined" => c \in closed
=============================================================================
