------------------------------ MODULE FrontDoor ------------------------------
(***************************************************************************)
(* The server's door on one clock: signed control requests (ControlPlane), *)
(* throttled bootstraps and throttled frames (Throttles), and the watchdog *)
(* of a connection (IdleWatch).  They share no state but the clock, so a   *)
(* behaviour follows one of them, fixed at the start, and leaves the       *)
(* others idle.                                                            *)
(***************************************************************************)
EXTENDS ControlPlane, Throttles, IdleWatch

VARIABLE traffic   \* the side this behaviour follows

Sides == {"control", "bootstrap", "frames", "watch"}

vars == <<clock, controlVars, throttleVars, watchVars, traffic>>

Init ==
    /\ clock = 0
    /\ traffic \in Sides
    /\ ControlInit
    /\ ThrottleInit
    /\ WatchInit

Tick ==
    /\ Advance
    /\ Timely /\ Marking
    /\ UNCHANGED <<controlVars, throttleVars, watchVars, traffic>>

Control ==
    /\ traffic = "control"
    /\ ControlNext
    /\ UNCHANGED <<clock, throttleVars, watchVars, traffic>>

Bootstraps ==
    /\ traffic = "bootstrap"
    /\ BootstrapNext
    /\ UNCHANGED <<clock, controlVars, watchVars, traffic>>

Frames ==
    /\ traffic = "frames"
    /\ FrameNext
    /\ UNCHANGED <<clock, controlVars, watchVars, traffic>>

Watch ==
    /\ traffic = "watch"
    /\ WatchNext
    /\ UNCHANGED <<clock, controlVars, throttleVars, traffic>>

Next == Tick \/ Control \/ Bootstraps \/ Frames \/ Watch

Spec == Init /\ [][Next]_vars

-----------------------------------------------------------------------------
TypeOK ==
    /\ clock \in Times
    /\ traffic \in Sides
    /\ ControlTypeOK
    /\ ThrottleTypeOK
    /\ WatchTypeOK
=============================================================================
