------------------------------ MODULE IdleWatch ------------------------------
(***************************************************************************)
(* The idle watchdog of a WebTransport connection.  Two readers, one for   *)
(* datagrams and one for the stream, each read the clock and then store    *)
(* the reading in lastActivity, a plain atomic store: an older reading may *)
(* replace a newer one.  The watchdog reads the clock, loads lastActivity  *)
(* and closes, in three steps: whoever is heard between the last two is    *)
(* still reaped.                                                           *)
(***************************************************************************)
EXTENDS WallClock

CONSTANTS
    Sources,       \* "datagrams" and "stream", a reader for each
    IdleTimeout,
    MarkLag        \* bound: the age of a reader's reading when it is stored

ASSUME WatchAssumption == IdleTimeout \in Nat /\ MarkLag \in Nat

VARIABLES
    lastActivity,  \* outboundQueues.lastActivity
    mpc, mnow,     \* per reader: next step, the clock value it read
    ipc, inow,     \* the watchdog: next step, the clock value it read
    closeReason,   \* the first reason the connection was closed for
    newest,        \* history: the newest reading a reader has stored
    judged         \* history: that reading when the watchdog last loaded

watchVars == <<lastActivity, mpc, mnow, ipc, inow, closeReason, newest, judged>>

\* The handler has marked the connection before it starts the three.
WatchInit ==
    /\ lastActivity = 0
    /\ mpc = [s \in Sources |-> "reading"]
    /\ mnow = [s \in Sources |-> 0]
    /\ ipc = "select" /\ inow = 0
    /\ closeReason = "none"
    /\ newest = 0 /\ judged = 0

Closed == closeReason # "none"

\* Close keeps the first reason.
CloseFor(reason) == closeReason' = IF Closed THEN closeReason ELSE reason

\* A frame of the client is there; its reader reads the clock.
Receive(s) ==
    /\ mpc[s] = "reading" /\ ~Closed
    /\ mpc' = [mpc EXCEPT ![s] = "mark"]
    /\ mnow' = [mnow EXCEPT ![s] = clock]
    /\ UNCHANGED <<lastActivity, ipc, inow, closeReason, newest, judged>>

\* Mutant: only datagrams count.
MarkDatagrams(s) == lastActivity' = IF s = "stream" THEN lastActivity ELSE mnow[s]

MarkActivity(s) == lastActivity' = mnow[s]

\* The reading is stored; the frame goes on to handleClientFrame.
Mark(s) ==
    /\ mpc[s] = "mark"
    /\ MarkActivity(s)
    /\ newest' = IF mnow[s] > newest THEN mnow[s] ELSE newest
    /\ mpc' = [mpc EXCEPT ![s] = "reading"]
    /\ UNCHANGED <<mnow, ipc, inow, closeReason, judged>>

\* The read fails: the client or somebody here has closed the session, or the
\* network has.
ReadEnds(s) ==
    /\ mpc[s] = "reading"
    /\ mpc' = [mpc EXCEPT ![s] = "ended"]
    /\ CloseFor("read")
    /\ UNCHANGED <<lastActivity, mnow, ipc, inow, newest, judged>>

\* The watchdog's ticker fires.
WatchTick ==
    /\ ipc = "select"
    /\ ipc' = "load" /\ inow' = clock
    /\ UNCHANGED <<lastActivity, mpc, mnow, closeReason, newest, judged>>

IdleTooLong == inow - lastActivity > IdleTimeout

\* idleFor.
WatchLoad ==
    /\ ipc = "load"
    /\ ipc' = IF IdleTooLong THEN "reap" ELSE "select"
    /\ judged' = newest
    /\ UNCHANGED <<lastActivity, mpc, mnow, inow, closeReason, newest>>

WatchReaps ==
    /\ ipc = "reap"
    /\ ipc' = "ended" /\ CloseFor("idle")
    /\ UNCHANGED <<lastActivity, mpc, mnow, inow, newest, judged>>

WatchEnds ==
    /\ ipc = "select" /\ Closed
    /\ ipc' = "ended"
    /\ UNCHANGED <<lastActivity, mpc, mnow, inow, closeReason, newest, judged>>

WatchNext ==
    \/ \E s \in Sources : Receive(s) \/ Mark(s) \/ ReadEnds(s)
    \/ WatchTick \/ WatchLoad \/ WatchReaps \/ WatchEnds

\* The bound on lag: time waits for a reader that read the clock MarkLag ago.
Marking == \A s \in Sources : mpc[s] = "mark" => clock < mnow[s] + MarkLag

-----------------------------------------------------------------------------
WatchTypeOK ==
    /\ lastActivity \in 0 .. clock
    /\ mpc \in [Sources -> {"reading", "mark", "ended"}]
    /\ mnow \in [Sources -> 0 .. clock]
    /\ ipc \in {"select", "load", "reap", "ended"} /\ inow \in 0 .. clock
    /\ closeReason \in {"none", "read", "idle"}
    /\ newest \in 0 .. clock /\ judged \in 0 .. clock

\* "Idleness is judged across both by a watchdog": a session is reaped as idle
\* only if, of the frames marked when the watchdog loaded lastActivity, neither
\* reader had taken one in for the idle timeout before the watchdog read the
\* clock, less what one reader's late store may have taken back from the other's.
\* A frame marked between that load and the Close does not save its session.
BusyNotReaped ==
    [][closeReason' = "idle" /\ ~Closed =>
          inow - judged > IdleTimeout - MarkLag]_<<clock, watchVars>>
=============================================================================
