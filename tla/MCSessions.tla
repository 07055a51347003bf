----------------------------- MODULE MCSessions -----------------------------
(* Instances of Sessions for TLC.                                          *)
EXTENDS Sessions, TLC

CONSTANTS s1, s2, u1, k1, k2, k3, k4, c1, c2

\* Every session is one user's.
OneUser == [s \in Sids |-> u1]

\* Everything is about one session.
OneSession == [w \in Workers |-> s1]

\* Two bootstraps of one session, with or without one control request.  The
\* ban is about the user of a second session, which was never bootstrapped.
TwoBootstraps == {[k \in Calls |-> "bootstrap"]}
Asking(k, o) == [j \in {k1, k2, k3, k4} |->
                    IF j = k THEN o ELSE IF j \in {k1, k2} THEN "bootstrap" ELSE "none"]
AndOneRequest == {Asking(k3, "revoke"), Asking(k3, "update"), Asking(k4, "ban")}
AboutControl == (k4 :> s2) @@ OneSession

\* The bootstraps are alike, and so are the connections.
Twins == Permutations({k1, k2}) \cup Permutations({c1, c2})

\* One bootstrap and one control request.
AndOneBan == {(k1 :> "bootstrap") @@ (k4 :> "ban")}
AndOneUpdate == {(k1 :> "bootstrap") @@ (k3 :> "update")}
=============================================================================
