-------------------------- MODULE FrontDoor_proofs --------------------------
(***************************************************************************)
(* Control requests, token buckets and the idle watchdog, for every set of *)
(* requests, workers, keys and handlers, every skew, burst, timeout and    *)
(* lag.                                                                    *)
(***************************************************************************)
EXTENDS FrontDoor, TLAPS

USE DEF workerVars, readerVars, handlerVars

-----------------------------------------------------------------------------
(* Control requests *)

\* A worker past the timestamp check holds a request that was fresh at the
\* clock value it keeps; past the nonce check, one that was accepted.
WorkerInv ==
    \A w \in Workers :
        /\ wpc[w] # "idle" => wreq[w] \in Requests
        /\ wpc[w] \in {"check", "install"} => wreq[w] \in Registers
        /\ wnow[w] <= clock
        /\ wpc[w] = "nonce" => Fresh(wreq[w], wnow[w])
        /\ wpc[w] \in {"check", "install", "revoke"} => taken[wreq[w]] > 0

Over(q) == clock > q.ts + MaxSkew

\* While its window lasts, an accepted request's nonce is in the cache, kept
\* at a time that no cut-off within the window passes.
NonceInv ==
    \A q \in Requests : taken[q] > 0 =>
        \/ Over(q)
        \/ nonces[q.nonce] # None /\ nonces[q.nonce] >= q.ts - MaxSkew

Carries(w, q) == wpc[w] \in {"check", "install"} /\ wreq[w] = q

\* While its window lasts, a registration is carried out by one worker at most,
\* and by none once it is in the table.
PermitInv ==
    /\ \A i \in PermitIds : permits[i] # None => permits[i] \in installed /\ permits[i].id = i
    /\ revoked \subseteq installed
    /\ \A q \in installed : taken[q] > 0
    /\ \A q \in Registers, w \in Workers : Carries(w, q) =>
          \/ Over(q)
          \/ q \notin installed /\ \A v \in Workers : Carries(v, q) => v = w
    /\ \A i \in PermitIds : permits[i] \in revoked => Over(permits[i])

ControlInv == ControlTypeOK /\ WorkerInv /\ NonceInv /\ PermitInv

\* Every request that arrives can be told apart from none, and has a timestamp.
LEMMA RequestFacts ==
    /\ \A q \in Requests : q # None /\ q.ts \in Int /\ q.nonce \in Nonces
    /\ \A q \in Registers : q \in Requests /\ q.id \in PermitIds /\ q.expires \in Int
    /\ \A t \in Int : t # None
    /\ MaxSkew \in Nat
BY RequestAssumption, LimitAssumption DEF Registers, Nonces

LEMMA ControlStart == Init => ControlInv
BY RequestFacts DEF Init, ControlInit, ControlInv, ControlTypeOK, WorkerInv, NonceInv,
    PermitInv, Carries

\* Time only ends windows.
LEMMA TickKeepsControl ==
    ASSUME ControlInv, clock \in Nat, clock' = clock + 1, UNCHANGED controlVars
    PROVE  ControlInv'
<1> USE DEF controlVars
<1>1. ControlTypeOK'
  BY DEF ControlInv, ControlTypeOK
<1>2. \A q \in Requests : Over(q) => Over(q)'
  BY RequestFacts DEF Over
<1>3. WorkerInv'
  BY DEF ControlInv, ControlTypeOK, WorkerInv, Fresh
<1>4. NonceInv'
  BY <1>2 DEF ControlInv, NonceInv
<1>5. PermitInv'
  <2>1. \A q \in Registers : Over(q) => Over(q)'
    BY <1>2, RequestFacts
  <2>2. \A i \in PermitIds : permits[i] \in revoked => permits[i] \in Registers
    BY RequestFacts DEF ControlInv, ControlTypeOK
  <2> QED
    BY <2>1, <2>2 DEF ControlInv, PermitInv, Carries
<1> QED
  BY <1>1, <1>3, <1>4, <1>5 DEF ControlInv

\* The steps that accept nothing and put nothing into a table.
LEMMA QuietControl ==
    ASSUME ControlInv, clock \in Nat, clock' = clock,
           UNCHANGED <<nonces, permits, taken, installed, revoked>>,
           ControlTypeOK',
           NEW w \in Workers,
           \A v \in Workers \ {w} : wpc'[v] = wpc[v] /\ wreq'[v] = wreq[v] /\ wnow'[v] = wnow[v],
           wnow'[w] <= clock,
           \/ wpc'[w] = "idle"
           \/ wpc'[w] = "nonce" /\ wreq'[w] \in Requests /\ Fresh(wreq'[w], wnow'[w])
           \/ wpc[w] = "check" /\ wpc'[w] = "install" /\ wreq'[w] = wreq[w]
    PROVE  ControlInv'
<1>1. WorkerInv'
  BY DEF ControlInv, WorkerInv, Fresh
<1>2. NonceInv'
  BY DEF ControlInv, NonceInv, Over
<1>3. \A v \in Workers, q \in Registers : Carries(v, q)' => Carries(v, q)
  BY DEF Carries
<1>4. PermitInv'
  BY <1>3 DEF ControlInv, PermitInv, Over
<1> QED
  BY <1>1, <1>2, <1>4 DEF ControlInv

\* What an acceptance finds and leaves.
LEMMA AcceptOnce ==
    ASSUME ControlInv, clock \in Nat, NEW w \in Workers, RememberNonce(w)
    PROVE  taken[wreq[w]] > 0 => Over(wreq[w])
BY DEF ControlInv, WorkerInv, NonceInv, RememberNonce

LEMMA RememberKeepsControl ==
    ASSUME ControlInv, clock \in Nat, clock' = clock, NEW w \in Workers, RememberNonce(w)
    PROVE  ControlInv'
<1> DEFINE q == wreq[w]
<1>1. /\ q \in Requests /\ wpc[w] = "nonce" /\ Fresh(q, wnow[w]) /\ nonces[q.nonce] = None
      /\ wnow[w] \in Int /\ wnow[w] <= clock /\ q.nonce \in Nonces
  BY RequestFacts DEF ControlInv, ControlTypeOK, WorkerInv, RememberNonce
<1>2. /\ wpc' = [wpc EXCEPT ![w] = IF q.kind = "register" THEN "check" ELSE "revoke"]
      /\ taken' = [taken EXCEPT ![q] = @ + 1]
      /\ UNCHANGED <<permits, wreq, wnow, readerVars, installed, revoked>>
  BY DEF RememberNonce
<1>3. q.kind = "register" => q \in Registers
  BY <1>1 DEF Registers
<1>4. /\ taken \in [Requests -> Nat] /\ taken'[q] = taken[q] + 1 /\ taken'[q] > 0
      /\ \A p \in Requests : taken[p] > 0 => taken'[p] > 0
      /\ \A p \in Requests : p # q => taken'[p] = taken[p]
  BY <1>1, <1>2 DEF ControlInv, ControlTypeOK
<1>5. ControlTypeOK'
  <2>1. nonces' \in [Nonces -> Int \cup {None}]
    BY <1>1 DEF RememberNonce, ControlInv, ControlTypeOK
  <2>2. wpc' \in [Workers -> {"idle", "nonce", "check", "install", "revoke"}]
    BY <1>2 DEF ControlInv, ControlTypeOK
  <2>3. taken' \in [Requests -> Nat]
    BY <1>1, <1>2, <1>4
  <2> QED
    BY <1>2, <2>1, <2>2, <2>3 DEF ControlInv, ControlTypeOK
<1>6. WorkerInv'
  BY <1>1, <1>2, <1>3, <1>4 DEF ControlInv, ControlTypeOK, WorkerInv, Fresh
<1>7. NonceInv'
  <2> SUFFICES ASSUME NEW p \in Requests, taken'[p] > 0, ~Over(p)
               PROVE  nonces'[p.nonce] # None /\ nonces'[p.nonce] >= p.ts - MaxSkew
    BY DEF NonceInv, Over
  <2>1. p.ts \in Int /\ p.nonce \in Nonces /\ MaxSkew \in Nat
    BY RequestFacts
  <2>2. CASE p = q
    <3>1. nonces'[q.nonce] = wnow[w]
      BY <1>1 DEF RememberNonce
    <3> QED
      BY <3>1, <2>1, <2>2, <1>1, RequestFacts DEF Fresh
  <2>3. CASE p # q
    <3>1. nonces[p.nonce] # None /\ nonces[p.nonce] >= p.ts - MaxSkew
      BY <1>4, <2>3 DEF ControlInv, NonceInv
    <3>2. p.nonce # q.nonce
      BY <3>1, <1>1
    <3>3. nonces[p.nonce] \in Int
      BY <3>1, <2>1 DEF ControlInv, ControlTypeOK
    <3>4. ~(nonces[p.nonce] < Cutoff(wnow[w]))
      BY <3>1, <3>3, <2>1, <1>1 DEF Cutoff, Over
    <3>5. nonces'[p.nonce] = nonces[p.nonce]
      BY <3>2, <3>4, <2>1 DEF RememberNonce
    <3> QED
      BY <3>1, <3>5
  <2> QED
    BY <2>2, <2>3
<1>8. PermitInv'
  <2>1. \A v \in Workers, p \in Registers : Carries(v, p)' => (Carries(v, p) \/ (v = w /\ p = q))
    BY <1>2 DEF Carries, ControlInv, ControlTypeOK
  <2>2. ~Over(q) => q \notin installed /\ \A v \in Workers : ~Carries(v, q)
    <3> SUFFICES ASSUME ~Over(q) PROVE q \notin installed /\ \A v \in Workers : ~Carries(v, q)
      OBVIOUS
    <3>1. ~(taken[q] > 0)
      BY AcceptOnce
    <3> QED
      BY <3>1 DEF ControlInv, PermitInv, WorkerInv, Carries
  <2>3. \A p \in Registers, v \in Workers : Carries(v, p)' =>
          \/ Over(p)
          \/ p \notin installed /\ \A u \in Workers : Carries(u, p)' => u = v
    BY <2>1, <2>2 DEF ControlInv, PermitInv
  <2>4. \A p \in installed : taken'[p] > 0
    BY <1>4, RequestFacts DEF ControlInv, PermitInv, ControlTypeOK
  <2> QED
    BY <2>3, <2>4, <1>2 DEF ControlInv, PermitInv, Over
<1> QED
  BY <1>5, <1>6, <1>7, <1>8 DEF ControlInv

LEMMA InstallKeepsControl ==
    ASSUME ControlInv, clock \in Nat, clock' = clock, NEW w \in Workers, Install(w)
    PROVE  ControlInv'
<1>0. PICK q \in Registers : q = wreq[w]
  BY DEF ControlInv, WorkerInv, Install
<1>1. /\ q \in Requests /\ q # None /\ q.id \in PermitIds /\ Carries(w, q)
      /\ taken[q] > 0 /\ wpc[w] = "install"
  BY <1>0, RequestFacts DEF ControlInv, WorkerInv, Install, Carries
<1>2. /\ UNCHANGED <<nonces, readerVars, taken, revoked>>
      /\ wpc' = [wpc EXCEPT ![w] = "idle"]
      /\ wreq' = [wreq EXCEPT ![w] = None]
      /\ wnow' = [wnow EXCEPT ![w] = 0]
  BY DEF Install, Answered
<1>3. installed' \in {installed, installed \cup {q}}
  BY <1>0 DEF Install
<1>4. /\ permits' \in [PermitIds -> Registers \cup {None}]
      /\ \A i \in PermitIds :
            \/ permits'[i] = None
            \/ permits'[i] = permits[i]
            \/ permits'[i] = q /\ i = q.id /\ q \in installed'
  <2> DEFINE kept == Unexpired(wnow[w])
             stores == Cardinality(kept) < Capacity /\ q.id \notin kept
  <2>1. /\ permits' = [i \in PermitIds |-> IF stores /\ i = q.id THEN q
                                         ELSE IF i \in kept THEN permits[i] ELSE None]
        /\ installed' = IF stores THEN installed \cup {q} ELSE installed
    BY <1>0 DEF Install
  <2>2. permits \in [PermitIds -> Registers \cup {None}]
    BY DEF ControlInv, ControlTypeOK
  <2> HIDE DEF stores, kept
  <2>3. permits' \in [PermitIds -> Registers \cup {None}]
    <3> SUFFICES ASSUME NEW i \in PermitIds
                 PROVE  (IF stores /\ i = q.id THEN q
                         ELSE IF i \in kept THEN permits[i] ELSE None) \in Registers \cup {None}
      BY <2>1, Zenon
    <3> QED
      BY <2>2
  <2>4. ASSUME NEW i \in PermitIds
        PROVE  \/ permits'[i] = None
               \/ permits'[i] = permits[i]
               \/ permits'[i] = q /\ i = q.id /\ q \in installed'
    <3>1. permits'[i] = IF stores /\ i = q.id THEN q
                        ELSE IF i \in kept THEN permits[i] ELSE None
      BY <2>1, Zenon
    <3>2. (stores /\ i = q.id) => q \in installed'
      BY <2>1, Zenon
    <3> QED
      BY <3>1, <3>2, Zenon
  <2> QED
    BY <2>3, <2>4
<1>5. ControlTypeOK'
  <2>1. installed' \subseteq Registers
    BY <1>1, <1>3 DEF ControlInv, ControlTypeOK
  <2> QED
    BY <1>2, <1>4, <2>1 DEF ControlInv, ControlTypeOK
<1>6. WorkerInv'
  BY <1>2 DEF ControlInv, ControlTypeOK, WorkerInv, Fresh
<1>7. NonceInv'
  BY <1>2 DEF ControlInv, NonceInv, Over
<1>8. PermitInv'
  <2>1. \A v \in Workers, p \in Registers : Carries(v, p)' => (Carries(v, p) /\ v # w)
    BY <1>2 DEF Carries, ControlInv, ControlTypeOK
  <2>2. \A v \in Workers : Carries(v, q)' => Over(q)
    BY <2>1, <1>1 DEF ControlInv, PermitInv
  <2>3. \A p \in Registers, v \in Workers : Carries(v, p)' =>
          \/ Over(p)
          \/ p \notin installed' /\ \A u \in Workers : Carries(u, p)' => u = v
    BY <2>1, <2>2, <1>3 DEF ControlInv, PermitInv
  <2>4. q \in revoked => Over(q)
    BY <1>1 DEF ControlInv, PermitInv
  <2>5. None \notin revoked
    BY RequestFacts DEF ControlInv, ControlTypeOK
  <2>6. \A i \in PermitIds : permits'[i] \in revoked => Over(permits'[i])
    BY <1>4, <2>4, <2>5 DEF ControlInv, PermitInv
  <2>7. \A i \in PermitIds : permits'[i] # None => permits'[i] \in installed' /\ permits'[i].id = i
    BY <1>3, <1>4 DEF ControlInv, PermitInv
  <2>8. revoked \subseteq installed' /\ \A p \in installed' : taken[p] > 0
    BY <1>1, <1>3 DEF ControlInv, PermitInv
  <2> QED
    BY <2>3, <2>6, <2>7, <2>8, <1>2 DEF PermitInv, Over
<1> QED
  BY <1>5, <1>6, <1>7, <1>8 DEF ControlInv

LEMMA RevokeKeepsControl ==
    ASSUME ControlInv, clock \in Nat, clock' = clock, NEW w \in Workers, Revoke(w)
    PROVE  ControlInv'
<1>1. /\ UNCHANGED <<nonces, readerVars, taken, installed>>
      /\ wpc' = [wpc EXCEPT ![w] = "idle"]
      /\ wreq' = [wreq EXCEPT ![w] = None]
      /\ wnow' = [wnow EXCEPT ![w] = 0]
  BY DEF Revoke, Answered
<1> DEFINE hit == {i \in PermitIds : permits[i] # None /\ Covers(wreq[w], permits[i])}
<1>2. /\ permits' = [i \in PermitIds |-> IF i \in hit THEN None ELSE permits[i]]
      /\ revoked' = revoked \cup {permits[i] : i \in hit}
  BY DEF Revoke
<1>3. \A i \in hit : permits[i] \in installed /\ permits[i].id = i
  BY DEF ControlInv, PermitInv
<1> HIDE DEF hit
<1>4. hit \subseteq PermitIds
  BY DEF hit
<1>5. ControlTypeOK'
  <2>1. permits' \in [PermitIds -> Registers \cup {None}]
    BY <1>2 DEF ControlInv, ControlTypeOK
  <2>2. revoked' \subseteq Registers
    BY <1>2, <1>3 DEF ControlInv, ControlTypeOK
  <2> QED
    BY <1>1, <2>1, <2>2 DEF ControlInv, ControlTypeOK
<1>6. WorkerInv'
  BY <1>1 DEF ControlInv, ControlTypeOK, WorkerInv, Fresh
<1>7. NonceInv'
  BY <1>1 DEF ControlInv, NonceInv, Over
<1>8. PermitInv'
  <2>1. \A v \in Workers, p \in Registers : Carries(v, p)' => Carries(v, p)
    BY <1>1 DEF Carries, ControlInv, ControlTypeOK
  <2>2. revoked' \subseteq installed
    BY <1>2, <1>3 DEF ControlInv, PermitInv
  <2>3. None \notin revoked'
    BY <1>5, RequestFacts DEF ControlTypeOK
  <2>4. \A i \in PermitIds : permits'[i] \in revoked' => permits'[i] \in revoked
    <3> SUFFICES ASSUME NEW i \in PermitIds, permits'[i] \in revoked', permits'[i] \notin revoked
                 PROVE  FALSE
      OBVIOUS
    <3>1. permits'[i] # None /\ permits'[i] = permits[i] /\ i \notin hit
      BY <2>3, <1>2
    <3>2. PICK j \in hit : permits[j] = permits[i]
      BY <1>2, <3>1
    <3> QED
      BY <3>1, <3>2, <1>3, <1>4 DEF ControlInv, PermitInv
  <2>5. \A i \in PermitIds : permits'[i] # None => permits'[i] = permits[i]
    BY <1>2
  <2>6. \A i \in PermitIds : permits'[i] \in revoked' => Over(permits'[i])
    BY <2>3, <2>4, <2>5 DEF ControlInv, PermitInv
  <2> QED
    BY <2>1, <2>2, <2>5, <2>6, <1>1 DEF ControlInv, PermitInv, Over
<1> QED
  BY <1>5, <1>6, <1>7, <1>8 DEF ControlInv

LEMMA ControlStep ==
    ASSUME ControlInv, clock \in Nat, clock' = clock, ControlNext
    PROVE  ControlInv'
<1>1. ASSUME NEW w \in Workers, NEW q \in Requests, Deliver(w, q) PROVE ControlInv'
  <2>1. ControlTypeOK'
    BY <1>1 DEF Deliver, ControlInv, ControlTypeOK
  <2> QED
    BY <1>1, <2>1, QuietControl DEF Deliver, ControlInv, ControlTypeOK
<1>2. ASSUME NEW w \in Workers, ReplayRefused(w) PROVE ControlInv'
  <2>1. ControlTypeOK'
    BY <1>2 DEF ReplayRefused, Answered, ControlInv, ControlTypeOK
  <2> QED
    BY <1>2, <2>1, QuietControl DEF ReplayRefused, Answered, ControlInv, ControlTypeOK
<1>3. ASSUME NEW w \in Workers, CheckPermit(w) PROVE ControlInv'
  <2>1. ControlTypeOK'
    BY <1>3 DEF CheckPermit, Answered, ControlInv, ControlTypeOK
  <2>2. CASE Current(wreq[w], clock)
    BY <1>3, <2>1, <2>2, QuietControl DEF CheckPermit, ControlInv, ControlTypeOK
  <2>3. CASE ~Current(wreq[w], clock)
    BY <1>3, <2>1, <2>3, QuietControl DEF CheckPermit, Answered, ControlInv, ControlTypeOK
  <2> QED
    BY <2>2, <2>3
<1>4. ASSUME UNCHANGED <<nonces, permits, workerVars, taken, installed, revoked>>,
             rpc' \in [Readers -> {"idle", "resolve", "relay"}],
             rid' \in [Readers -> PermitIds \cup {None}],
             rnow' \in [Readers -> Int]
      PROVE  ControlInv'
  BY <1>4 DEF ControlInv, ControlTypeOK, WorkerInv, NonceInv, PermitInv, Carries, Over, Fresh
<1>5. ASSUME NEW r \in Readers, NEW i \in PermitIds, AskPreview(r, i) PROVE ControlInv'
  BY <1>4, <1>5 DEF AskPreview, ControlInv, ControlTypeOK
<1>6. ASSUME NEW r \in Readers, Resolve(r) PROVE ControlInv'
  BY <1>4, <1>6 DEF Resolve, Rest, ControlInv, ControlTypeOK
<1>7. ASSUME NEW r \in Readers, RelayPreview(r) PROVE ControlInv'
  BY <1>4, <1>7 DEF RelayPreview, Rest, ControlInv, ControlTypeOK
<1> QED
  BY <1>1, <1>2, <1>3, <1>5, <1>6, <1>7, RememberKeepsControl, InstallKeepsControl,
     RevokeKeepsControl DEF ControlNext

-----------------------------------------------------------------------------
(* Token buckets *)

\* What handlers could draw from bucket b of k at this moment, with readings of
\* every age up to MaxLag: what it holds at the oldest of them, and what it
\* gains from there to now.
Credit(k, b) ==
    LET oldest == clock - MaxLag
        held == b.tokens + (IF b.last < oldest THEN oldest - b.last ELSE 0)
    IN
    IF b = NoBucket THEN Burst[k] + MaxLag
    ELSE (IF held < Burst[k] THEN held ELSE Burst[k])
         + (IF b.last < oldest THEN MaxLag ELSE clock - b.last)

Valid(k) == [tokens : 0 .. Burst[k], last : 0 .. clock] \cup {NoBucket}

HandlerInv ==
    \A h \in Handlers : hpc[h] # "idle" => hnow[h] <= clock /\ clock <= hnow[h] + MaxLag

\* What was let pass and what could be let pass now, together.
CreditInv ==
    \A k \in Limited, s \in Times : s <= clock =>
        Cost[k] * passed[k][s] + Credit(k, bucket[k]) <=
            Burst[k] + (clock - s) + MaxLag * (1 + sweeps[s])

\* Nothing is counted for a time that has not come.
FutureInv ==
    \A s \in Times : s > clock => sweeps[s] = 0 /\ \A k \in Keys : passed[k][s] = 0

ThrottleInv == ThrottleTypeOK /\ HandlerInv /\ CreditInv /\ FutureInv

LEMMA MinOfTwo ==
    ASSUME NEW a \in Int, NEW b \in Int
    PROVE  Min({a, b}) = IF a <= b THEN a ELSE b
BY DEF Min

LEMMA KeyFacts ==
    /\ \A k \in Keys : Cost[k] \in Nat /\ Burst[k] \in Nat
    /\ Limited \subseteq Keys /\ Classes \subseteq Limited
    /\ IPs \subseteq Keys /\ Users \subseteq Keys /\ Classes \subseteq Keys
    /\ MaxLag \in Nat /\ MaxClock \in Nat
    /\ \A a, b \in Int : [tokens |-> a, last |-> b] # NoBucket
BY BucketAssumption, ClockAssumption DEF Keys

LEMMA LevelIs ==
    ASSUME NEW k \in Keys, NEW b \in [tokens : 0 .. Burst[k], last : Int], NEW now \in Int
    PROVE  /\ Level(k, b, now) = IF now <= b.last THEN b.tokens
                                 ELSE IF Burst[k] <= b.tokens + (now - b.last) THEN Burst[k]
                                 ELSE b.tokens + (now - b.last)
           /\ Level(k, b, now) \in 0 .. Burst[k]
BY KeyFacts, MinOfTwo DEF Level

\* Asking a bucket lowers its credit by what it lets pass, whatever the age of
\* the reading.
LEMMA ChargeSpends ==
    ASSUME NEW k \in Limited, clock \in Nat,
           NEW table, NEW DOM, table \in [Keys -> DOM], table[k] \in Valid(k),
           NEW now \in Nat, now <= clock, clock <= now + MaxLag
    PROVE  LET b == Charged(table, k, now)[k] IN
           /\ b \in Valid(k)
           /\ Credit(k, b) + (IF Allowed(table, k, now) THEN Cost[k] ELSE 0) <= Credit(k, table[k])
<1> DEFINE f == Found(table, k, now)
           v == Level(k, f, now)
           b == Charged(table, k, now)[k]
<1>1. k \in Keys /\ Burst[k] \in Nat /\ Cost[k] \in Nat /\ MaxLag \in Nat
  BY KeyFacts
<1>2. f \in [tokens : 0 .. Burst[k], last : 0 .. clock]
  BY <1>1 DEF Found, Valid
<1>3. /\ v = IF now <= f.last THEN f.tokens
             ELSE IF Burst[k] <= f.tokens + (now - f.last) THEN Burst[k]
             ELSE f.tokens + (now - f.last)
      /\ v \in 0 .. Burst[k]
  BY <1>1, <1>2, LevelIs
<1>4. b = [tokens |-> IF v >= Cost[k] THEN v - Cost[k] ELSE v,
           last |-> IF now > f.last THEN now ELSE f.last]
  BY <1>1 DEF Charged
<1>5. Allowed(table, k, now) <=> v >= Cost[k]
  BY DEF Allowed
<1>6. \/ table[k] = NoBucket /\ f.tokens = Burst[k] /\ f.last = now
      \/ table[k] # NoBucket /\ f = table[k]
  BY DEF Found
<1> HIDE DEF f, v, b
<1>7. f.tokens \in 0 .. Burst[k] /\ f.last \in 0 .. clock
  BY <1>2
<1>8. /\ b.tokens = IF v >= Cost[k] THEN v - Cost[k] ELSE v
      /\ b.last = IF now > f.last THEN now ELSE f.last
  BY <1>4
<1>9. b \in Valid(k) /\ b # NoBucket
  <2>1. (IF v >= Cost[k] THEN v - Cost[k] ELSE v) \in 0 .. Burst[k]
    BY <1>1, <1>3
  <2>2. (IF now > f.last THEN now ELSE f.last) \in 0 .. clock
    BY <1>7
  <2>3. (IF v >= Cost[k] THEN v - Cost[k] ELSE v) \in Int /\ (IF now > f.last THEN now ELSE f.last) \in Int
    BY <2>1, <2>2, <1>1
  <2> QED
    BY <1>4, <2>1, <2>2, <2>3, KeyFacts DEF Valid
<1>10. Credit(k, b) = b.tokens + (clock - b.last)
  BY <1>1, <1>3, <1>7, <1>8, <1>9 DEF Credit
<1>11. v + (clock - b.last) <= Credit(k, table[k])
  <2>1. CASE table[k] = NoBucket
    BY <2>1, <1>1, <1>3, <1>6, <1>7, <1>8 DEF Credit
  <2>2. CASE table[k] # NoBucket
    <3>1. Credit(k, table[k]) =
            (IF f.tokens + (IF f.last < clock - MaxLag THEN clock - MaxLag - f.last ELSE 0) < Burst[k]
             THEN f.tokens + (IF f.last < clock - MaxLag THEN clock - MaxLag - f.last ELSE 0)
             ELSE Burst[k])
            + (IF f.last < clock - MaxLag THEN MaxLag ELSE clock - f.last)
      BY <2>2, <1>6 DEF Credit
    <3> QED
      BY <3>1, <1>1, <1>3, <1>7, <1>8
  <2> QED
    BY <2>1, <2>2
<1>12. table[k] = NoBucket => Credit(k, table[k]) \in Int
  BY <1>1 DEF Credit
<1>13. table[k] # NoBucket => Credit(k, table[k]) \in Int
  BY <1>1, <1>6, <1>7 DEF Credit
<1>14. v \in Int /\ b.last \in Int /\ b.tokens \in Int
  BY <1>1, <1>3, <1>7, <1>8
<1>15. b \in Valid(k) /\ Credit(k, b) + (IF Allowed(table, k, now) THEN Cost[k] ELSE 0) <= Credit(k, table[k])
  BY <1>1, <1>5, <1>8, <1>9, <1>10, <1>11, <1>12, <1>13, <1>14
<1> QED
  BY <1>15 DEF b

\* A bucket the sweep takes for full has a burst to give; forgotten, it could
\* give at most what it gains in a lag besides.
LEMMA FullHasBurst ==
    ASSUME NEW k \in Keys, clock \in Nat, NEW b \in Valid(k), b # NoBucket,
           NEW now \in Nat, now <= clock, clock <= now + MaxLag, Full(k, b, now)
    PROVE  Credit(k, NoBucket) <= Credit(k, b) + MaxLag
<1>1. Burst[k] \in Nat /\ MaxLag \in Nat
  BY KeyFacts
<1>2. b \in [tokens : 0 .. Burst[k], last : 0 .. clock]
  BY DEF Valid
<1>3. Burst[k] <= IF now <= b.last THEN b.tokens
                  ELSE IF Burst[k] <= b.tokens + (now - b.last) THEN Burst[k]
                  ELSE b.tokens + (now - b.last)
  <2>1. b \in [tokens : 0 .. Burst[k], last : Int]
    BY <1>2
  <2>2. Level(k, b, now) = IF now <= b.last THEN b.tokens
                  ELSE IF Burst[k] <= b.tokens + (now - b.last) THEN Burst[k]
                  ELSE b.tokens + (now - b.last)
    BY <2>1, LevelIs
  <2>3. Level(k, b, now) >= Burst[k]
    BY DEF Full
  <2> QED
    BY <2>2, <2>3, <2>1, <1>1
<1>4. b.tokens \in 0 .. Burst[k] /\ b.last \in 0 .. clock
  BY <1>2
<1> QED
  BY <1>1, <1>3, <1>4 DEF Credit

LEMMA Distribute ==
    ASSUME NEW a \in Int, NEW b \in Int
    PROVE  a * (b + 1) = a * b + a /\ a * (b + 0) = a * b /\ a * b \in Int
OBVIOUS

\* The table a charge starts from: the limiter's, or what a sweep left of it.
Ready(table, d) ==
    /\ table \in [Keys -> [tokens : Int, last : Int] \cup {NoBucket}]
    /\ \A k \in Keys : /\ table[k] \in Valid(k)
                       /\ Credit(k, table[k]) <= Credit(k, bucket[k]) + MaxLag * d

LEMMA CreditIsInt ==
    ASSUME NEW k \in Keys, NEW b \in Valid(k), clock \in Nat
    PROVE  Credit(k, b) \in Int
<1>1. Burst[k] \in Nat /\ MaxLag \in Nat
  BY KeyFacts
<1>2. CASE b = NoBucket
  BY <1>1, <1>2 DEF Credit
<1>3. CASE b # NoBucket
  <2>1. b.tokens \in Int /\ b.last \in Int
    BY <1>1, <1>3 DEF Valid
  <2> QED
    BY <1>1, <1>3, <2>1 DEF Credit
<1> QED
  BY <1>2, <1>3

LEMMA ChargeKeeps ==
    ASSUME ThrottleInv, clock \in Times, clock' = clock,
           NEW k0 \in Keys, NEW now \in Nat, now <= clock, clock <= now + MaxLag,
           NEW table, NEW d \in {0, 1}, Ready(table, d),
           bucket' = Charged(table, k0, now),
           IF Allowed(table, k0, now) THEN Counted(k0) ELSE UNCHANGED passed,
           sweeps' = [s \in Times |-> sweeps[s] + (IF s <= clock THEN d ELSE 0)]
    PROVE  /\ bucket' \in [Keys -> [tokens : Int, last : Int] \cup {NoBucket}]
           /\ \A k \in Keys : bucket'[k] \in Valid(k)
           /\ passed' \in [Keys -> [Times -> Nat]]
           /\ sweeps' \in [Times -> Nat]
           /\ CreditInv' /\ FutureInv'
<1>1. /\ passed \in [Keys -> [Times -> Nat]] /\ sweeps \in [Times -> Nat]
      /\ clock \in Nat /\ MaxLag \in Nat /\ Times \subseteq Nat
  BY KeyFacts DEF ThrottleInv, ThrottleTypeOK, Times
<1> DEFINE more == IF Allowed(table, k0, now) THEN 1 ELSE 0
<1>2. /\ passed' \in [Keys -> [Times -> Nat]]
      /\ \A k \in Keys, s \in Times :
            passed'[k][s] = passed[k][s] + (IF k = k0 /\ s <= clock THEN more ELSE 0)
  <2>1. CASE Allowed(table, k0, now)
    <3>1. passed' = [passed EXCEPT ![k0] = [s \in Times |-> @[s] + (IF s <= clock THEN 1 ELSE 0)]]
      BY <2>1 DEF Counted
    <3>2. [s \in Times |-> passed[k0][s] + (IF s <= clock THEN 1 ELSE 0)] \in [Times -> Nat]
      BY <1>1
    <3> QED
      BY <1>1, <2>1, <3>1, <3>2
  <2>2. CASE ~Allowed(table, k0, now)
    BY <1>1, <2>2
  <2> QED
    BY <2>1, <2>2
<1>3. sweeps' \in [Times -> Nat] /\ \A s \in Times : s <= clock => sweeps'[s] = sweeps[s] + d
  BY <1>1
<1>4. FutureInv'
  BY <1>1, <1>2, <1>3 DEF ThrottleInv, FutureInv
<1>5. ASSUME NEW k \in Limited
      PROVE  /\ bucket'[k] \in Valid(k)
             /\ Credit(k, bucket'[k]) + (IF k = k0 /\ more = 1 THEN Cost[k] ELSE 0)
                  <= Credit(k, table[k])
  <2>1. CASE k = k0
    <3>1. table \in [Keys -> [tokens : Int, last : Int] \cup {NoBucket}] /\ table[k] \in Valid(k)
      BY KeyFacts DEF Ready
    <3>2. /\ Charged(table, k, now)[k] \in Valid(k)
          /\ Credit(k, Charged(table, k, now)[k]) + (IF Allowed(table, k, now) THEN Cost[k] ELSE 0)
               <= Credit(k, table[k])
      BY <1>1, <3>1, ChargeSpends
    <3>3. Allowed(table, k, now) <=> more = 1
      BY <2>1
    <3> QED
      BY <2>1, <3>2, <3>3, Zenon
  <2>2. CASE k # k0
    <3>1. k \in Keys /\ bucket'[k] = table[k] /\ table[k] \in Valid(k)
      BY <2>2, KeyFacts DEF Charged, Ready
    <3>2. Credit(k, table[k]) \in Int
      BY <1>1, <3>1, CreditIsInt
    <3> QED
      BY <2>2, <3>1, <3>2
  <2> QED
    BY <2>1, <2>2
<1>6. \A k \in Keys : bucket'[k] \in Valid(k)
  <2> SUFFICES ASSUME NEW k \in Keys, k \notin Limited PROVE bucket'[k] \in Valid(k)
    BY <1>5
  <2>1. bucket'[k] = table[k]
    BY DEF Charged, Ready
  <2> QED
    BY <2>1 DEF Ready
<1>7. bucket' \in [Keys -> [tokens : Int, last : Int] \cup {NoBucket}]
  <2>1. \A k \in Keys : Valid(k) \subseteq [tokens : Int, last : Int] \cup {NoBucket}
    BY <1>1, KeyFacts DEF Valid
  <2>2. DOMAIN bucket' = Keys /\ bucket' = [k \in Keys |-> bucket'[k]]
    BY DEF Charged, Ready
  <2> QED
    BY <1>6, <2>1, <2>2
<1>8. CreditInv'
  <2> SUFFICES ASSUME NEW k \in Limited, NEW s \in Times, s <= clock
               PROVE  Cost[k] * passed'[k][s] + Credit(k, bucket'[k]) <=
                        Burst[k] + (clock - s) + MaxLag * (1 + sweeps'[s])
    BY DEF CreditInv, Credit
  <2>1. /\ k \in Keys /\ Cost[k] \in Nat /\ Burst[k] \in Nat /\ s \in Nat
        /\ passed[k][s] \in Nat /\ sweeps[s] \in Nat /\ sweeps'[s] = sweeps[s] + d
    BY <1>1, <1>3, KeyFacts
  <2>2. bucket[k] \in Valid(k)
    BY <2>1, <1>1 DEF ThrottleInv, ThrottleTypeOK, Valid
  <2>3. /\ Credit(k, bucket[k]) \in Int /\ Credit(k, bucket'[k]) \in Int
        /\ Credit(k, table[k]) \in Int
    BY <1>1, <1>6, <2>1, <2>2, CreditIsInt DEF Ready
  <2>4. Cost[k] * passed[k][s] + Credit(k, bucket[k]) <=
          Burst[k] + (clock - s) + MaxLag * (1 + sweeps[s])
    BY DEF ThrottleInv, CreditInv
  <2>5. Cost[k] * passed'[k][s] =
          Cost[k] * passed[k][s] + (IF k = k0 /\ more = 1 THEN Cost[k] ELSE 0)
    BY <1>2, <2>1, Distribute
  <2>6. MaxLag * (1 + sweeps'[s]) = MaxLag * (1 + sweeps[s]) + MaxLag * d
    BY <1>1, <2>1, Distribute
  <2>7. /\ Cost[k] * passed[k][s] \in Int /\ MaxLag * (1 + sweeps[s]) \in Int
        /\ MaxLag * d \in Int
    BY <1>1, <2>1
  <2>8. /\ Credit(k, bucket'[k]) + (IF k = k0 /\ more = 1 THEN Cost[k] ELSE 0) <= Credit(k, table[k])
        /\ Credit(k, table[k]) <= Credit(k, bucket[k]) + MaxLag * d
    BY <1>5, <2>1 DEF Ready
  <2> DEFINE e == IF k = k0 /\ more = 1 THEN Cost[k] ELSE 0
  <2>9. e \in Int
    BY <2>1
  <2> HIDE DEF e, more
  <2> QED
    BY <2>1, <2>3, <2>4, <2>5, <2>6, <2>7, <2>8, <2>9, <1>1 DEF e
<1> QED
  BY <1>2, <1>3, <1>4, <1>6, <1>7, <1>8

\* The buckets left by a sweep, and the table as it is, are both ready.
LEMMA TablesReady ==
    ASSUME ThrottleInv, clock \in Times
    PROVE  /\ Ready(bucket, 0)
           /\ \A now \in Nat : now <= clock /\ clock <= now + MaxLag => Ready(Swept(now), 1)
<1>1. /\ bucket \in [Keys -> [tokens : Int, last : Int] \cup {NoBucket}]
      /\ clock \in Nat /\ MaxLag \in Nat
      /\ \A k \in Keys : bucket[k] \in Valid(k)
  BY KeyFacts DEF ThrottleInv, ThrottleTypeOK, Times, Valid
<1>2. \A k \in Keys : Credit(k, bucket[k]) \in Int
  BY <1>1, CreditIsInt
<1>3. Ready(bucket, 0)
  BY <1>1, <1>2 DEF Ready
<1>4. ASSUME NEW now \in Nat, now <= clock, clock <= now + MaxLag
      PROVE  Ready(Swept(now), 1)
  <2>1. Swept(now) \in [Keys -> [tokens : Int, last : Int] \cup {NoBucket}]
    BY <1>1 DEF Swept
  <2>2. ASSUME NEW k \in Keys
        PROVE  /\ Swept(now)[k] \in Valid(k)
               /\ Credit(k, Swept(now)[k]) <= Credit(k, bucket[k]) + MaxLag * 1
    <3>1. CASE Swept(now)[k] = bucket[k]
      BY <1>1, <1>2, <3>1
    <3>2. CASE Swept(now)[k] # bucket[k]
      <4>1. Swept(now)[k] = NoBucket /\ bucket[k] # NoBucket /\ Full(k, bucket[k], now)
        BY <3>2 DEF Swept
      <4>2. Credit(k, NoBucket) <= Credit(k, bucket[k]) + MaxLag
        BY <1>1, <1>4, <4>1, FullHasBurst
      <4> QED
        BY <1>1, <4>1, <4>2 DEF Valid
    <3> QED
      BY <3>1, <3>2
  <2> QED
    BY <2>1, <2>2 DEF Ready
<1> QED
  BY <1>3, <1>4

LEMMA ThrottleStart == Init => ThrottleInv
<1> SUFFICES ASSUME Init PROVE ThrottleInv
  OBVIOUS
<1>1. ThrottleTypeOK
  BY KeyFacts DEF Init, ThrottleInit, ThrottleTypeOK, Times
<1>2. CreditInv
  <2> SUFFICES ASSUME NEW k \in Limited, NEW s \in Times, s <= clock
               PROVE  Cost[k] * passed[k][s] + Credit(k, bucket[k]) <=
                        Burst[k] + (clock - s) + MaxLag * (1 + sweeps[s])
    BY DEF CreditInv
  <2>1. /\ k \in Keys /\ Cost[k] \in Nat /\ Burst[k] \in Nat /\ MaxLag \in Nat
        /\ clock = 0 /\ s = 0 /\ passed[k][s] = 0 /\ sweeps[s] = 0
    BY KeyFacts DEF Init, ThrottleInit, Times
  <2>2. CASE k \in Classes
    <3>1. bucket[k] = [tokens |-> Burst[k], last |-> 0] /\ bucket[k] # NoBucket
      BY <2>1, <2>2, KeyFacts DEF Init, ThrottleInit
    <3>2. Credit(k, bucket[k]) <= Burst[k] + MaxLag /\ Credit(k, bucket[k]) \in Int
      BY <2>1, <3>1 DEF Credit
    <3> QED
      BY <2>1, <3>2
  <2>3. CASE k \notin Classes
    <3>1. bucket[k] = NoBucket
      BY <2>1, <2>3 DEF Init, ThrottleInit
    <3> QED
      BY <2>1, <3>1 DEF Credit
  <2> QED
    BY <2>2, <2>3
<1>3. HandlerInv /\ FutureInv
  BY DEF Init, ThrottleInit, HandlerInv, FutureInv
<1> QED
  BY <1>1, <1>2, <1>3 DEF ThrottleInv

\* A tick adds at most a unit to a bucket's credit, and one to every window.
LEMMA TickKeepsThrottles ==
    ASSUME ThrottleInv, clock \in Times, Tick
    PROVE  ThrottleInv'
<1>1. /\ clock' = clock + 1 /\ clock \in Nat /\ MaxClock \in Nat /\ MaxLag \in Nat
      /\ Times \subseteq Nat
      /\ bucket' = bucket /\ passed' = passed /\ sweeps' = sweeps /\ lastSweep' = lastSweep
      /\ hpc' = hpc /\ hnow' = hnow /\ hip' = hip /\ huser' = huser
  BY KeyFacts DEF Tick, Advance, throttleVars, Times
<1>2. ThrottleTypeOK'
  BY <1>1 DEF ThrottleInv, ThrottleTypeOK
<1>3. HandlerInv'
  <2> SUFFICES ASSUME NEW h \in Handlers, hpc[h] # "idle"
               PROVE  hnow[h] <= clock + 1 /\ clock + 1 <= hnow[h] + MaxLag
    BY <1>1 DEF HandlerInv
  <2>1. hnow[h] \in Nat /\ hnow[h] <= clock
    BY <1>1 DEF ThrottleInv, ThrottleTypeOK, HandlerInv
  <2>2. clock < hnow[h] + MaxLag
    BY DEF Tick, Timely
  <2> QED
    BY <1>1, <2>1, <2>2
<1>4. FutureInv'
  <2> SUFFICES ASSUME NEW s \in Times, s > clock + 1
               PROVE  sweeps[s] = 0 /\ \A k \in Keys : passed[k][s] = 0
    BY <1>1 DEF FutureInv
  <2>1. s > clock
    BY <1>1
  <2> QED
    BY <2>1 DEF ThrottleInv, FutureInv
<1>5. CreditInv'
  <2> SUFFICES ASSUME NEW k \in Limited, NEW s \in Times, s <= clock + 1
               PROVE  Cost[k] * passed[k][s] + Credit(k, bucket[k])' <=
                        Burst[k] + ((clock + 1) - s) + MaxLag * (1 + sweeps[s])
    BY <1>1 DEF CreditInv
  <2>1. /\ k \in Keys /\ Cost[k] \in Nat /\ Burst[k] \in Nat /\ s \in Nat
        /\ passed[k][s] \in Nat /\ sweeps[s] \in Nat
    BY <1>1, KeyFacts DEF ThrottleInv, ThrottleTypeOK
  <2>2. bucket[k] \in Valid(k) /\ Credit(k, bucket[k]) \in Int
    BY <1>1, <2>1, CreditIsInt DEF ThrottleInv, ThrottleTypeOK, Valid
  <2>3. /\ Credit(k, bucket[k])' <= Credit(k, bucket[k]) + 1
        /\ Credit(k, bucket[k])' <= Burst[k] + MaxLag
        /\ Credit(k, bucket[k])' \in Int
    <3>1. CASE bucket[k] = NoBucket
      BY <1>1, <2>1, <3>1 DEF Credit
    <3>2. CASE bucket[k] # NoBucket
      <4>1. bucket[k].tokens \in 0 .. Burst[k] /\ bucket[k].last \in 0 .. clock
        BY <2>1, <3>2 DEF ThrottleInv, ThrottleTypeOK
      <4> QED
        BY <1>1, <2>1, <3>2, <4>1 DEF Credit
    <3> QED
      BY <3>1, <3>2
  <2>4. Cost[k] * passed[k][s] \in Int /\ MaxLag * (1 + sweeps[s]) \in Int
    BY <1>1, <2>1
  <2>5. CASE s <= clock
    <3>1. Cost[k] * passed[k][s] + Credit(k, bucket[k]) <=
            Burst[k] + (clock - s) + MaxLag * (1 + sweeps[s])
      BY <2>5 DEF ThrottleInv, CreditInv
    <3> QED
      BY <1>1, <2>1, <2>2, <2>3, <2>4, <3>1
  <2>6. CASE s > clock
    <3>1. passed[k][s] = 0 /\ sweeps[s] = 0
      BY <2>1, <2>6 DEF ThrottleInv, FutureInv
    <3>2. Cost[k] * passed[k][s] = 0 /\ MaxLag * (1 + sweeps[s]) = MaxLag /\ s = clock + 1
      BY <1>1, <2>1, <2>6, <3>1
    <3> QED
      BY <1>1, <2>1, <2>3, <3>2
  <2> QED
    BY <1>1, <2>1, <2>5, <2>6
<1> QED
  BY <1>2, <1>3, <1>4, <1>5 DEF ThrottleInv

\* A handler step that leaves buckets and counts alone.
LEMMA QuietHandler ==
    ASSUME ThrottleInv, clock' = clock, UNCHANGED <<bucket, lastSweep, passed, sweeps>>,
           NEW h \in Handlers,
           hpc' \in [Handlers -> {"idle", "ip", "token", "frame"}],
           hnow' \in [Handlers -> Times],
           hip' \in [Handlers -> IPs \cup {NoBucket}],
           huser' \in [Handlers -> Users \cup Classes \cup {NoBucket}],
           \A g \in Handlers \ {h} : /\ hpc'[g] = hpc[g] /\ hnow'[g] = hnow[g]
                                     /\ hip'[g] = hip[g] /\ huser'[g] = huser[g],
           hpc'[h] # "idle" => hnow'[h] <= clock /\ clock <= hnow'[h] + MaxLag,
           hpc'[h] = "ip" => hip'[h] \in IPs,
           hpc'[h] \in {"ip", "token"} => huser'[h] \in Users,
           hpc'[h] = "frame" => huser'[h] \in Classes
    PROVE  ThrottleInv'
<1>1. ThrottleTypeOK'
  BY DEF ThrottleInv, ThrottleTypeOK
<1>2. HandlerInv'
  BY DEF ThrottleInv, HandlerInv
<1>3. CreditInv' /\ FutureInv'
  BY DEF ThrottleInv, CreditInv, FutureInv, Credit
<1> QED
  BY <1>1, <1>2, <1>3 DEF ThrottleInv

\* The handler of a charging step goes back to idle, or on to the token.
LEMMA ChargeStep ==
    ASSUME ThrottleInv, clock \in Times, clock' = clock,
           NEW h \in Handlers, hpc[h] # "idle", NEW k0 \in Keys,
           NEW table, NEW d \in {0, 1}, Ready(table, d),
           bucket' = Charged(table, k0, hnow[h]),
           IF Allowed(table, k0, hnow[h]) THEN Counted(k0) ELSE UNCHANGED passed,
           sweeps' = [s \in Times |-> sweeps[s] + (IF s <= clock THEN d ELSE 0)],
           lastSweep' \in 0 .. clock,
           \/ Done(h)
           \/ hpc[h] = "ip" /\ hpc' = [hpc EXCEPT ![h] = "token"] /\ UNCHANGED <<hnow, hip, huser>>
    PROVE  ThrottleInv'
<1>1. hnow[h] \in Nat /\ hnow[h] <= clock /\ clock <= hnow[h] + MaxLag
  BY DEF ThrottleInv, ThrottleTypeOK, HandlerInv, Times
<1>2. /\ bucket' \in [Keys -> [tokens : Int, last : Int] \cup {NoBucket}]
      /\ \A k \in Keys : bucket'[k] \in Valid(k)
      /\ passed' \in [Keys -> [Times -> Nat]]
      /\ sweeps' \in [Times -> Nat]
      /\ CreditInv' /\ FutureInv'
  BY <1>1, ChargeKeeps
<1>3. \A k \in Keys : bucket'[k] # NoBucket =>
         bucket'[k].tokens \in 0 .. Burst[k] /\ bucket'[k].last \in 0 .. clock
  BY <1>2 DEF Valid
<1>4. /\ hpc' \in [Handlers -> {"idle", "ip", "token", "frame"}]
      /\ hnow' \in [Handlers -> Times]
      /\ hip' \in [Handlers -> IPs \cup {NoBucket}]
      /\ huser' \in [Handlers -> Users \cup Classes \cup {NoBucket}]
      /\ \A g \in Handlers :
          /\ hpc'[g] = "ip" => hip'[g] \in IPs
          /\ hpc'[g] \in {"ip", "token"} => huser'[g] \in Users
          /\ hpc'[g] = "frame" => huser'[g] \in Classes
  <2>1. 0 \in Times
    BY KeyFacts DEF Times
  <2>2. /\ hpc \in [Handlers -> {"idle", "ip", "token", "frame"}] /\ hnow \in [Handlers -> Times]
        /\ hip \in [Handlers -> IPs \cup {NoBucket}]
        /\ huser \in [Handlers -> Users \cup Classes \cup {NoBucket}]
        /\ \A g \in Handlers :
            /\ hpc[g] = "ip" => hip[g] \in IPs
            /\ hpc[g] \in {"ip", "token"} => huser[g] \in Users
            /\ hpc[g] = "frame" => huser[g] \in Classes
    BY DEF ThrottleInv, ThrottleTypeOK
  <2>3. CASE Done(h)
    BY <2>1, <2>2, <2>3 DEF Done
  <2>4. CASE hpc[h] = "ip" /\ hpc' = [hpc EXCEPT ![h] = "token"] /\ UNCHANGED <<hnow, hip, huser>>
    BY <2>2, <2>4
  <2> QED
    BY <2>3, <2>4
<1>5. ThrottleTypeOK'
  BY <1>2, <1>3, <1>4 DEF ThrottleTypeOK
<1>6. HandlerInv'
  BY DEF ThrottleInv, ThrottleTypeOK, HandlerInv, Done
<1> QED
  BY <1>2, <1>5, <1>6 DEF ThrottleInv

LEMMA ThrottleStep ==
    ASSUME ThrottleInv, clock \in Times, clock' = clock, BootstrapNext \/ FrameNext
    PROVE  ThrottleInv'
<1>1. /\ clock \in Nat /\ clock <= clock /\ clock <= clock + MaxLag /\ 0 \in Times
      /\ hpc \in [Handlers -> {"idle", "ip", "token", "frame"}] /\ hnow \in [Handlers -> Times]
      /\ hip \in [Handlers -> IPs \cup {NoBucket}]
      /\ huser \in [Handlers -> Users \cup Classes \cup {NoBucket}]
      /\ lastSweep \in 0 .. clock /\ sweeps \in [Times -> Nat]
  BY KeyFacts DEF ThrottleInv, ThrottleTypeOK, Times
<1>2. ASSUME NEW h \in Handlers, NEW ip \in IPs, NEW user \in Users, BeginBootstrap(h, ip, user)
      PROVE  ThrottleInv'
  BY <1>1, <1>2, QuietHandler DEF BeginBootstrap
<1>3. ASSUME NEW h \in Handlers, TokenRefused(h) PROVE ThrottleInv'
  BY <1>1, <1>3, QuietHandler DEF TokenRefused, Done
<1>4. ASSUME NEW h \in Handlers, NEW class \in Classes, BeginFrame(h, class)
      PROVE  ThrottleInv'
  BY <1>1, <1>4, QuietHandler DEF BeginFrame
<1>5. ASSUME sweeps' = sweeps
      PROVE  sweeps' = [s \in Times |-> sweeps[s] + (IF s <= clock THEN 0 ELSE 0)]
  BY <1>1, <1>5
<1>6. ASSUME NEW h \in Handlers, AllowUser(h) PROVE ThrottleInv'
  <2>1. huser[h] \in Keys /\ hpc[h] # "idle"
    BY <1>6, KeyFacts DEF AllowUser, ThrottleInv, ThrottleTypeOK
  <2>2. sweeps' = [s \in Times |-> sweeps[s] + (IF s <= clock THEN 0 ELSE 0)]
    BY <1>5, <1>6 DEF AllowUser
  <2> QED
    BY <1>1, <1>6, <2>1, <2>2, ChargeStep, TablesReady DEF AllowUser
<1>7. ASSUME NEW h \in Handlers, AllowFrame(h) PROVE ThrottleInv'
  <2>1. huser[h] \in Keys /\ hpc[h] # "idle"
    BY <1>7, KeyFacts DEF AllowFrame, ThrottleInv, ThrottleTypeOK
  <2>2. sweeps' = [s \in Times |-> sweeps[s] + (IF s <= clock THEN 0 ELSE 0)]
    BY <1>5, <1>7 DEF AllowFrame
  <2> QED
    BY <1>1, <1>7, <2>1, <2>2, ChargeStep, TablesReady DEF AllowFrame
<1>8. ASSUME NEW h \in Handlers, AllowIP(h) PROVE ThrottleInv'
  <2> DEFINE now == hnow[h]
             sweeping == hip[h] \in Limited /\ SweepDue(now)
             table == IF sweeping THEN Swept(now) ELSE bucket
  <2>1. hip[h] \in Keys /\ hpc[h] = "ip"
    BY <1>8, KeyFacts DEF AllowIP, ThrottleInv, ThrottleTypeOK
  <2>2. /\ bucket' = Charged(table, hip[h], now)
        /\ lastSweep' = IF sweeping THEN now ELSE lastSweep
        /\ sweeps' = IF sweeping
                     THEN [s \in Times |-> sweeps[s] + (IF s <= clock THEN 1 ELSE 0)]
                     ELSE sweeps
        /\ IF Allowed(table, hip[h], now) THEN Counted(hip[h]) ELSE UNCHANGED passed
        /\ \/ Done(h)
           \/ hpc' = [hpc EXCEPT ![h] = "token"] /\ UNCHANGED <<hnow, hip, huser>>
    BY <1>8 DEF AllowIP
  <2>3. now \in Nat /\ now <= clock /\ clock <= now + MaxLag
    BY <2>1 DEF ThrottleInv, ThrottleTypeOK, HandlerInv, Times
  <2>4. Ready(bucket, 0) /\ Ready(Swept(now), 1)
    BY <2>3, TablesReady
  <2> HIDE DEF now
  <2>5. CASE sweeping
    <3>1. table = Swept(now)
      BY <2>5
    <3>2. lastSweep' \in 0 .. clock
      BY <1>1, <2>2, <2>3, <2>5
    <3>3. sweeps' = [s \in Times |-> sweeps[s] + (IF s <= clock THEN 1 ELSE 0)]
      BY <2>2, <2>5
    <3> HIDE DEF sweeping, table
    <3> QED
      BY <2>1, <2>2, <2>4, <3>1, <3>2, <3>3, ChargeStep DEF now
  <2>6. CASE ~sweeping
    <3>1. table = bucket
      BY <2>6
    <3>2. lastSweep' \in 0 .. clock
      BY <1>1, <2>2, <2>6
    <3>3. sweeps' = [s \in Times |-> sweeps[s] + (IF s <= clock THEN 0 ELSE 0)]
      BY <1>5, <2>2, <2>6
    <3> HIDE DEF sweeping, table
    <3> QED
      BY <2>1, <2>2, <2>4, <3>1, <3>2, <3>3, ChargeStep DEF now
  <2> QED
    BY <2>5, <2>6
<1> QED
  BY <1>2, <1>3, <1>4, <1>6, <1>7, <1>8 DEF BootstrapNext, FrameNext

-----------------------------------------------------------------------------
(* The watchdog *)

\* What a reader is about to store is no older than the lag allows, so what is
\* stored last is close to the newest reading stored; a watchdog about to close
\* has seen that reading too old.
WatchInv ==
    /\ WatchTypeOK
    /\ \A s \in Sources : mpc[s] = "mark" => clock <= mnow[s] + MarkLag
    /\ newest <= lastActivity + MarkLag
    /\ ipc = "reap" => inow - judged > IdleTimeout - MarkLag

LEMMA WatchStart == Init => WatchInv
BY WatchAssumption DEF Init, WatchInit, WatchInv, WatchTypeOK

LEMMA TickKeepsWatch ==
    ASSUME WatchInv, clock \in Nat, Tick
    PROVE  WatchInv'
<1>1. /\ clock' = clock + 1 /\ Marking
      /\ lastActivity' = lastActivity /\ mpc' = mpc /\ mnow' = mnow /\ ipc' = ipc /\ inow' = inow
      /\ closeReason' = closeReason /\ newest' = newest /\ judged' = judged
  BY DEF Tick, Advance, watchVars
<1>2. \A s \in Sources : mnow[s] \in 0 .. clock
  BY DEF WatchInv, WatchTypeOK
<1>3. WatchTypeOK'
  BY <1>1, <1>2 DEF WatchInv, WatchTypeOK
<1>4. \A s \in Sources : mpc[s] = "mark" => clock + 1 <= mnow[s] + MarkLag
  BY <1>1, <1>2, WatchAssumption DEF Marking
<1> QED
  BY <1>1, <1>3, <1>4 DEF WatchInv

LEMMA WatchStep ==
    ASSUME WatchInv, clock \in Nat, clock' = clock, WatchNext
    PROVE  WatchInv'
<1> USE DEF WatchInv, WatchTypeOK
<1>1. ASSUME NEW s \in Sources, Receive(s) PROVE WatchInv'
  BY <1>1, WatchAssumption DEF Receive
<1>2. ASSUME NEW s \in Sources, Mark(s) PROVE WatchInv'
  <2>1. mnow[s] \in 0 .. clock /\ newest \in 0 .. clock /\ clock <= mnow[s] + MarkLag
    BY <1>2 DEF Mark
  <2>2. lastActivity' = mnow[s] /\ newest' \in {newest, mnow[s]}
    BY <1>2 DEF Mark, MarkActivity
  <2>3. newest' <= lastActivity' + MarkLag
    BY <2>1, <2>2, WatchAssumption
  <2> QED
    BY <1>2, <2>1, <2>2, <2>3 DEF Mark
<1>3. ASSUME NEW s \in Sources, ReadEnds(s) PROVE WatchInv'
  BY <1>3 DEF ReadEnds, CloseFor, Closed
<1>4. CASE WatchTick
  BY <1>4 DEF WatchTick
<1>5. CASE WatchLoad
  <2>1. /\ inow \in 0 .. clock /\ lastActivity \in 0 .. clock
        /\ newest \in 0 .. clock /\ newest <= lastActivity + MarkLag
    OBVIOUS
  <2>2. IdleTooLong => inow - newest > IdleTimeout - MarkLag
    BY <2>1, WatchAssumption DEF IdleTooLong
  <2> QED
    BY <1>5, <2>2 DEF WatchLoad
<1>7. CASE WatchReaps
  BY <1>7 DEF WatchReaps, CloseFor, Closed
<1>6. CASE WatchEnds
  BY <1>6 DEF WatchEnds
<1> QED
  BY <1>1, <1>2, <1>3, <1>4, <1>5, <1>6, <1>7 DEF WatchNext

-----------------------------------------------------------------------------
(* The front door *)

DoorInv ==
    /\ clock \in Times /\ traffic \in Sides
    /\ ControlInv /\ ThrottleInv /\ WatchInv

LEMMA DoorStart == Init => DoorInv
BY ControlStart, ThrottleStart, WatchStart, KeyFacts DEF Init, DoorInv, Times

LEMMA DoorStep == DoorInv /\ [Next]_vars => DoorInv'
<1> SUFFICES ASSUME DoorInv, [Next]_vars PROVE DoorInv'
  OBVIOUS
<1>1. clock \in Nat /\ clock \in Times
  BY KeyFacts DEF DoorInv, Times
<1>2. ASSUME UNCHANGED <<clock, controlVars>> PROVE ControlInv'
  BY <1>2 DEF DoorInv, ControlInv, controlVars, ControlTypeOK, WorkerInv, NonceInv, PermitInv,
       Carries, Over, Fresh
<1>3. ASSUME UNCHANGED <<clock, throttleVars>> PROVE ThrottleInv'
  BY <1>3 DEF DoorInv, ThrottleInv, throttleVars, ThrottleTypeOK, HandlerInv, CreditInv, FutureInv,
       Credit
<1>4. ASSUME UNCHANGED <<clock, watchVars>> PROVE WatchInv'
  BY <1>4 DEF DoorInv, WatchInv, watchVars, WatchTypeOK
<1>5. CASE Tick
  <2>1. clock' = clock + 1 /\ clock' \in Times /\ UNCHANGED <<controlVars, traffic>>
    BY <1>1, <1>5, KeyFacts DEF Tick, Advance, Times
  <2>2. ControlInv'
    BY <1>1, <2>1, TickKeepsControl DEF DoorInv
  <2>3. ThrottleInv'
    BY <1>1, <1>5, TickKeepsThrottles DEF DoorInv
  <2>4. WatchInv'
    BY <1>1, <1>5, TickKeepsWatch DEF DoorInv
  <2> QED
    BY <2>1, <2>2, <2>3, <2>4 DEF DoorInv
<1>6. CASE Control
  <2>1. ControlInv'
    BY <1>1, <1>6, ControlStep DEF Control, DoorInv
  <2> QED
    BY <1>3, <1>6, <1>4, <2>1 DEF Control, DoorInv
<1>7. CASE Bootstraps \/ Frames
  <2>1. ThrottleInv'
    BY <1>1, <1>7, ThrottleStep DEF Bootstraps, Frames, DoorInv
  <2> QED
    BY <1>2, <1>7, <1>4, <2>1 DEF Bootstraps, Frames, DoorInv
<1>8. CASE Watch
  <2>1. WatchInv'
    BY <1>1, <1>8, WatchStep DEF Watch, DoorInv
  <2> QED
    BY <1>2, <1>3, <1>8, <2>1 DEF Watch, DoorInv
<1>9. CASE UNCHANGED vars
  BY <1>2, <1>3, <1>9, <1>4 DEF vars, DoorInv
<1> QED
  BY <1>5, <1>6, <1>7, <1>8, <1>9 DEF Next

LEMMA DoorInvariant == Spec => []DoorInv
BY DoorStart, DoorStep, PTL DEF Spec

\* Type correctness of all sides: buckets stay within their capacity, and no
\* reading is newer than the clock.
THEOREM TypeCorrect == Spec => []TypeOK
<1>1. DoorInv => TypeOK
  BY DEF DoorInv, ControlInv, ThrottleInv, WatchInv, TypeOK
<1> QED
  BY <1>1, DoorInvariant, PTL

\* No request is accepted twice within its timestamp window, whatever is
\* delivered twice and however long a validator waits for the nonce cache.
THEOREM ReplaysRejected == Spec => ReplayRejected
<1>1. DoorInv /\ [Next]_vars =>
        [\A q \in Requests :
            taken'[q] # taken[q] /\ taken[q] > 0 => ~Fresh(q, clock)]_<<clock, controlVars>>
  <2> SUFFICES ASSUME DoorInv, [Next]_vars, NEW q \in Requests,
                      taken'[q] # taken[q], taken[q] > 0
               PROVE  ~Fresh(q, clock)
    OBVIOUS
  <2>1. clock \in Nat /\ ControlInv
    BY KeyFacts DEF DoorInv, Times
  <2>2. Control
    BY DEF Next, Tick, Bootstraps, Frames, Watch, vars, controlVars
  <2>3. PICK w \in Workers : RememberNonce(w)
    BY <2>2 DEF Control, ControlNext, Deliver, ReplayRefused, CheckPermit, Install, Revoke,
         AskPreview, Resolve, RelayPreview
  <2>4. q = wreq[w]
    BY <2>1, <2>3 DEF RememberNonce, ControlInv, ControlTypeOK
  <2>5. Over(q)
    BY <2>1, <2>3, <2>4, AcceptOnce
  <2> QED
    BY <2>1, <2>5, RequestFacts DEF Over, Fresh
<1> QED
  BY <1>1, DoorInvariant, PTL DEF Spec, ReplayRejected

\* A revoked permit is not put back by a duplicate of its registration while
\* that duplicate is fresh.
THEOREM RevocationsHold == Spec => []RevokedStaysRevoked
<1>1. DoorInv => RevokedStaysRevoked
  BY DEF DoorInv, ControlInv, PermitInv, RevokedStaysRevoked, Over
<1> QED
  BY <1>1, DoorInvariant, PTL

\* No bucket lets more pass in any window than its burst, its gain and the lag
\* of its readers account for, forgotten buckets included.
THEOREM BurstsBounded == Spec => []BurstBound
<1>1. DoorInv => BurstBound
  <2> SUFFICES ASSUME DoorInv, NEW k \in Limited, NEW s \in Times, s <= clock
               PROVE  Cost[k] * passed[k][s] <= Burst[k] + (clock - s) + MaxLag * (1 + sweeps[s])
    BY DEF BurstBound
  <2>1. /\ k \in Keys /\ clock \in Nat /\ s \in Nat /\ Burst[k] \in Nat /\ Cost[k] \in Nat
        /\ MaxLag \in Nat /\ passed[k][s] \in Nat /\ sweeps[s] \in Nat
    BY KeyFacts DEF DoorInv, ThrottleInv, ThrottleTypeOK, Times
  <2>2. Cost[k] * passed[k][s] \in Int /\ MaxLag * (1 + sweeps[s]) \in Int
    BY <2>1
  <2>3. Cost[k] * passed[k][s] + Credit(k, bucket[k]) <=
          Burst[k] + (clock - s) + MaxLag * (1 + sweeps[s])
    BY DEF DoorInv, ThrottleInv, CreditInv
  <2>4. Credit(k, bucket[k]) \in Nat
    <3>1. CASE bucket[k] = NoBucket
      BY <2>1, <3>1 DEF Credit
    <3>2. CASE bucket[k] # NoBucket
      <4>1. bucket[k].tokens \in 0 .. Burst[k] /\ bucket[k].last \in 0 .. clock
        BY <2>1, <3>2 DEF DoorInv, ThrottleInv, ThrottleTypeOK
      <4> QED
        BY <2>1, <3>2, <4>1 DEF Credit
    <3> QED
      BY <3>1, <3>2
  <2> QED
    BY <2>1, <2>2, <2>3, <2>4
<1> QED
  BY <1>1, DoorInvariant, PTL

\* The watchdog reaps nobody for whom either reader had marked, when it loaded
\* lastActivity, a frame taken in within the idle timeout less the lag, although
\* the readers' stores may come out of order.
THEOREM BusyKept == Spec => BusyNotReaped
<1>1. DoorInv /\ [Next]_vars =>
        [closeReason' = "idle" /\ ~Closed =>
            inow - judged > IdleTimeout - MarkLag]_<<clock, watchVars>>
  <2> SUFFICES ASSUME DoorInv, [Next]_vars, closeReason' = "idle", ~Closed
               PROVE  inow - judged > IdleTimeout - MarkLag
    OBVIOUS
  <2>1. clock \in Nat /\ WatchInv
    BY KeyFacts DEF DoorInv, Times
  <2>2. Watch
    BY DEF Next, Tick, Control, Bootstraps, Frames, vars, watchVars, Closed
  <2>3. WatchReaps
    BY <2>2 DEF Watch, WatchNext, Receive, Mark, ReadEnds, WatchTick, WatchLoad, WatchReaps,
         WatchEnds, CloseFor, Closed
  <2> QED
    BY <2>1, <2>3 DEF WatchInv, WatchReaps
<1> QED
  BY <1>1, DoorInvariant, PTL DEF Spec, BusyNotReaped
=============================================================================
