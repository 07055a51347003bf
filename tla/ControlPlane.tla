---------------------------- MODULE ControlPlane ----------------------------
(***************************************************************************)
(* The signed control requests of the .NET API and the history-preview     *)
(* permits they manage: authenticateInternal with the HMACValidator and    *)
(* its nonce cache, Register, Revoke and Resolve of HistoryPreviews.       *)
(*                                                                         *)
(* A step is one clock read with the checks that follow it, or one mutex   *)
(* section.  The validator's clock is read before its mutex is taken, and  *)
(* Register's before its own, so both may be old when they are used.  The  *)
(* network may deliver a request any number of times, at any time.         *)
(***************************************************************************)
EXTENDS WallClock, FiniteSets

CONSTANTS
    Requests,     \* signed requests: [kind, nonce, ts, keyId, and a permit's
                  \* id, note, user, expires, or a revocation's note, user]
    KeyIds,       \* the validator's current and previous key
    MaxSkew,      \* HMACValidator.maxSkew
    PermitIds,
    PermitLife,   \* 30 s: the longest a permit may live
    Capacity,     \* 1024
    AllUsers,     \* the empty user of a note-wide revocation
    Workers,      \* goroutines serving control requests
    Readers,      \* connection readers that get a history.preview frame
    ReaderNote, ReaderUser,
    Editors,      \* readers whose connection may edit
    None

Nonces == {q.nonce : q \in Requests}
Registers == {q \in Requests : q.kind = "register"}

ASSUME RequestAssumption ==
    /\ \A q \in Requests : q.kind \in {"register", "revoke"} /\ q.ts \in Int
    /\ \A q \in Registers : q.id \in PermitIds /\ q.expires \in Int
    /\ None \notin Requests /\ None \notin Int
    /\ Editors \subseteq Readers

ASSUME LimitAssumption ==
    MaxSkew \in Nat /\ PermitLife \in Nat /\ Capacity \in Nat

VARIABLES
    nonces,     \* HMACValidator.nonces: per nonce the time kept, or None
    permits,    \* HistoryPreviews.permits: the request that registered the id
    wpc, wreq, wnow,   \* per worker: next step, request, clock value read
    rpc, rid, rnow,    \* per reader: next step, permit, clock value read
    taken,      \* history: how often each request was accepted
    installed,  \* history: the registrations that reached the table
    revoked     \* history: the registrations a revocation removed from it

workerVars == <<wpc, wreq, wnow>>
readerVars == <<rpc, rid, rnow>>
controlVars == <<nonces, permits, wpc, wreq, wnow, rpc, rid, rnow, taken,
                 installed, revoked>>

ControlInit ==
    /\ nonces = [n \in Nonces |-> None]
    /\ permits = [i \in PermitIds |-> None]
    /\ wpc = [w \in Workers |-> "idle"]
    /\ wreq = [w \in Workers |-> None]
    /\ wnow = [w \in Workers |-> 0]
    /\ rpc = [r \in Readers |-> "idle"]
    /\ rid = [r \in Readers |-> None]
    /\ rnow = [r \in Readers |-> 0]
    /\ taken = [q \in Requests |-> 0]
    /\ installed = {} /\ revoked = {}

-----------------------------------------------------------------------------
(* Authentication *)

Answered(w) ==
    /\ wpc' = [wpc EXCEPT ![w] = "idle"]
    /\ wreq' = [wreq EXCEPT ![w] = None]
    /\ wnow' = [wnow EXCEPT ![w] = 0]

\* Mutant: the drift of a request from the future is not made positive.
FreshPast(q, now) == now <= q.ts + MaxSkew

\* Within the timestamp window, on either side.
Fresh(q, now) == q.ts - MaxSkew <= now /\ now <= q.ts + MaxSkew

\* A delivery is read; Validate gets the clock, knows the key, finds the
\* timestamp close enough and the signature right.  What fails here leaves no
\* trace.
Deliver(w, q) ==
    /\ wpc[w] = "idle"
    /\ q.keyId \in KeyIds
    /\ Fresh(q, clock)
    /\ wpc' = [wpc EXCEPT ![w] = "nonce"]
    /\ wreq' = [wreq EXCEPT ![w] = q]
    /\ wnow' = [wnow EXCEPT ![w] = clock]
    /\ UNCHANGED <<nonces, permits, readerVars, taken, installed, revoked>>

\* Mutant: nonces are kept for one skew only.
CutoffShort(now) == now - MaxSkew

\* Twice the skew: a timestamp may be that much older than the clock it passed.
Cutoff(now) == now - 2 * MaxSkew

\* rememberNonce finds it, or drops the old ones and keeps it.
ReplayRefused(w) ==
    /\ wpc[w] = "nonce"
    /\ nonces[wreq[w].nonce] # None
    /\ Answered(w)
    /\ UNCHANGED <<nonces, permits, readerVars, taken, installed, revoked>>

RememberNonce(w) ==
    LET q == wreq[w]
        old == {n \in Nonces : nonces[n] # None /\ nonces[n] < Cutoff(wnow[w])}
    IN
    /\ wpc[w] = "nonce"
    /\ nonces[q.nonce] = None
    /\ nonces' = [n \in Nonces |-> IF n = q.nonce THEN wnow[w]
                                   ELSE IF n \in old THEN None ELSE nonces[n]]
    /\ taken' = [taken EXCEPT ![q] = @ + 1]
    /\ wpc' = [wpc EXCEPT ![w] = IF q.kind = "register" THEN "check" ELSE "revoke"]
    /\ UNCHANGED <<permits, wreq, wnow, readerVars, installed, revoked>>

-----------------------------------------------------------------------------
(* Permits *)

Current(q, now) == now < q.expires /\ q.expires <= now + PermitLife

\* RegisterHistoryPreview reads the clock again; Register checks the permit.
CheckPermit(w) ==
    /\ wpc[w] = "check"
    /\ IF Current(wreq[w], clock)
       THEN /\ wpc' = [wpc EXCEPT ![w] = "install"]
            /\ wnow' = [wnow EXCEPT ![w] = clock]
            /\ UNCHANGED wreq
       ELSE Answered(w)
    /\ UNCHANGED <<nonces, permits, readerVars, taken, installed, revoked>>

\* The permits that outlive a Register at `now`.
Unexpired(now) == {i \in PermitIds : permits[i] # None /\ now < permits[i].expires}

\* Under the mutex: drop what expired, then refuse or store.
Install(w) ==
    LET q == wreq[w]
        kept == Unexpired(wnow[w])
        stores == Cardinality(kept) < Capacity /\ q.id \notin kept
    IN
    /\ wpc[w] = "install"
    /\ permits' = [i \in PermitIds |-> IF stores /\ i = q.id THEN q
                                       ELSE IF i \in kept THEN permits[i] ELSE None]
    /\ installed' = IF stores THEN installed \cup {q} ELSE installed
    /\ Answered(w)
    /\ UNCHANGED <<nonces, readerVars, taken, revoked>>

\* A revocation covers one user's permits on a note, or everybody's.
Covers(q, p) == p.note = q.note /\ q.user \in {AllUsers, p.user}

\* HistoryPreviews.Revoke, from its own request or from RevokeUserFromNote.
Revoke(w) ==
    LET hit == {i \in PermitIds : permits[i] # None /\ Covers(wreq[w], permits[i])} IN
    /\ wpc[w] = "revoke"
    /\ permits' = [i \in PermitIds |-> IF i \in hit THEN None ELSE permits[i]]
    /\ revoked' = revoked \cup {permits[i] : i \in hit}
    /\ Answered(w)
    /\ UNCHANGED <<nonces, readerVars, taken, installed>>

-----------------------------------------------------------------------------
(* history.preview frames *)

\* handleClientFrame reads its clock; Resolve turns away who may not edit.
AskPreview(r, i) ==
    /\ rpc[r] = "idle"
    /\ r \in Editors
    /\ rpc' = [rpc EXCEPT ![r] = "resolve"]
    /\ rid' = [rid EXCEPT ![r] = i]
    /\ rnow' = [rnow EXCEPT ![r] = clock]
    /\ UNCHANGED <<nonces, permits, workerVars, taken, installed, revoked>>

Resolvable(r) ==
    LET p == permits[rid[r]] IN
    p # None /\ p.note = ReaderNote[r] /\ p.user = ReaderUser[r] /\ rnow[r] < p.expires

Rest(r) ==
    /\ rpc' = [rpc EXCEPT ![r] = "idle"]
    /\ rid' = [rid EXCEPT ![r] = None]
    /\ rnow' = [rnow EXCEPT ![r] = 0]

\* Under the mutex; what is not found is dropped without an answer.
Resolve(r) ==
    /\ rpc[r] = "resolve"
    /\ IF Resolvable(r)
       THEN rpc' = [rpc EXCEPT ![r] = "relay"] /\ UNCHANGED <<rid, rnow>>
       ELSE Rest(r)
    /\ UNCHANGED <<nonces, permits, workerVars, taken, installed, revoked>>

RelayPreview(r) ==
    /\ rpc[r] = "relay"
    /\ Rest(r)
    /\ UNCHANGED <<nonces, permits, workerVars, taken, installed, revoked>>

ControlNext ==
    \/ \E w \in Workers, q \in Requests : Deliver(w, q)
    \/ \E w \in Workers : \/ ReplayRefused(w) \/ RememberNonce(w)
                          \/ CheckPermit(w) \/ Install(w) \/ Revoke(w)
    \/ \E r \in Readers, i \in PermitIds : AskPreview(r, i)
    \/ \E r \in Readers : Resolve(r) \/ RelayPreview(r)

-----------------------------------------------------------------------------
ControlTypeOK ==
    /\ nonces \in [Nonces -> Int \cup {None}]
    /\ permits \in [PermitIds -> Registers \cup {None}]
    /\ wpc \in [Workers -> {"idle", "nonce", "check", "install", "revoke"}]
    /\ wreq \in [Workers -> Requests \cup {None}]
    /\ wnow \in [Workers -> Int]
    /\ rpc \in [Readers -> {"idle", "resolve", "relay"}]
    /\ rid \in [Readers -> PermitIds \cup {None}]
    /\ rnow \in [Readers -> Int]
    /\ taken \in [Requests -> Nat]
    /\ installed \subseteq Registers /\ revoked \subseteq Registers

\* "the nonce cache rejects an exact replay inside that window" (HMACValidator):
\* a request accepted while the real clock is still within its timestamp window
\* was never accepted before, although nonces are forgotten and every validator
\* judges the timestamp and the cut-off by a clock it read before the mutex.
ReplayRejected ==
    [][\A q \in Requests :
          taken'[q] # taken[q] /\ taken[q] > 0 => ~Fresh(q, clock)]_<<clock, controlVars>>

\* A permit that a revocation took out of the table does not come back while
\* its registration could still be taken for a fresh request: a duplicate of the
\* registration, delivered before or after the revocation, is not carried out.
RevokedStaysRevoked ==
    \A i \in PermitIds :
        permits[i] \in revoked => clock > permits[i].ts + MaxSkew
=============================================================================
