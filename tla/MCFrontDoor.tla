----------------------------- MODULE MCFrontDoor -----------------------------
(* Instances of FrontDoor for TLC.                                         *)
EXTENDS FrontDoor, TLC

CONSTANTS w1, w2, r1, p1, p2, n1, u1, nobody, i1, a1, ink, h1, h2

\* A registration, another that meets a full table while the first has not
\* expired, the revocation of everybody's permits on their note, a later one of
\* their user's, and one signed with a key that is not known.
SignedRequests ==
    {[kind |-> "register", nonce |-> 1, ts |-> 2, keyId |-> "current",
      id |-> p1, note |-> n1, user |-> u1, expires |-> 5],
     [kind |-> "register", nonce |-> 5, ts |-> 5, keyId |-> "current",
      id |-> p2, note |-> n1, user |-> u1, expires |-> 6],
     [kind |-> "revoke", nonce |-> 2, ts |-> 2, keyId |-> "previous",
      note |-> n1, user |-> nobody],
     [kind |-> "revoke", nonce |-> 3, ts |-> 4, keyId |-> "current",
      note |-> n1, user |-> u1],
     [kind |-> "revoke", nonce |-> 4, ts |-> 2, keyId |-> "retired",
      note |-> n1, user |-> u1]}

\* Workers are alike, and so are handlers.
Alike == Permutations({w1, w2}) \cup Permutations({h1, h2})

NoteOfReader == [r \in Readers |-> n1]
UserOfReader == [r \in Readers |-> u1]

\* Two tokens for an address, one for a user; a frame costs a tick.
TokenCost == (i1 :> 1) @@ (a1 :> 2) @@ (ink :> 1)
BucketBurst == (i1 :> 2) @@ (a1 :> 3) @@ (ink :> 1)
=============================================================================
