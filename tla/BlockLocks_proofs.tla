-------------------------- MODULE BlockLocks_proofs --------------------------
(***************************************************************************)
(* BlockLocks for every number of notes, blocks, sessions, connections and *)
(* readers, every lease time and every ceiling.                            *)
(***************************************************************************)
EXTENDS BlockLocks, FiniteSetTheorems, TLAPS

\* The steps a reader, a departing handler and the sweeper share with Next.
USE DEF storeVars, sweepVars

\* A reader inside a frame carries a well-formed job: block_lock_handler's parsed
\* request, the clock it read and the lock it is about to announce.
LEMMA JobTyping ==
    ASSUME TypeOK, NEW r \in Readers, NEW pc, NEW verb, At(r, pc, verb), pc # "idle"
    PROVE  /\ rd[r] \in Job
           /\ rd[r].key \in Key
           /\ rd[r].lockId \in LockIds
           /\ rd[r].now \in Nat
           /\ rd[r].lock \in BlockLock \cup {NoLock}
           /\ ReaderConn[r] \in Conns
           /\ Session[ReaderConn[r]] \in Sessions
<1>1. rd[r] \in Job
  BY DEF TypeOK, At
<1> QED
  BY <1>1, ConnAssumption DEF Job

\* An entry of the store is a BlockLock of a known connection and session.
LEMMA LockTyping ==
    ASSUME TypeOK, NEW k \in Key, locks[k] # NoLock
    PROVE  /\ locks[k] \in BlockLock
           /\ locks[k].conn \in Conns
           /\ locks[k].lockId \in LockIds
           /\ locks[k].expires \in Nat
           /\ SessionOf(locks[k]) \in Sessions
BY ConnAssumption DEF TypeOK, BlockLock, SessionOf

\* decrementLocked never drives a counter below zero.
LEMMA DecrementedTyping ==
    ASSUME NEW count \in Nat, NEW n \in Nat
    PROVE  Decremented(count, n) \in Nat
BY DEF Decremented

-----------------------------------------------------------------------------
Entries == {k \in Key : locks[k] # NoLock}

\* The maps of the store hold finitely many entries.
FiniteStore == IsFiniteSet(Entries)

StoreInv == TypeOK /\ FiniteStore /\ CounterExact

\* The leases of one session, and any part of them, can be counted.
LEMMA LeasesFinite ==
    ASSUME FiniteStore, NEW s, NEW K
    PROVE  /\ IsFiniteSet(LeasesOf(s))
           /\ IsFiniteSet(K \cap LeasesOf(s))
           /\ Cardinality(LeasesOf(s)) \in Nat
           /\ Cardinality(K \cap LeasesOf(s)) \in Nat
<1>1. LeasesOf(s) \subseteq Entries /\ K \cap LeasesOf(s) \subseteq Entries
  BY DEF LeasesOf, Entries
<1>2. IsFiniteSet(LeasesOf(s)) /\ IsFiniteSet(K \cap LeasesOf(s))
  BY <1>1, FS_Subset DEF FiniteStore
<1> QED
  BY <1>2, FS_CardinalityType

\* removeLocked keeps the count of every session exact.
LEMMA RemoveKeepsStore ==
    ASSUME StoreInv, NEW K \in SUBSET Key, Remove(K)
    PROVE  /\ locks' \in [Key -> BlockLock \cup {NoLock}]
           /\ perSession' \in [Sessions -> Nat]
           /\ FiniteStore'
           /\ CounterExact'
<1> USE DEF StoreInv
<1>1. locks' \in [Key -> BlockLock \cup {NoLock}]
  BY DEF TypeOK, Remove
<1>2. \A k \in Key : locks'[k] = IF k \in K THEN NoLock ELSE locks[k]
  BY DEF Remove
<1>3. perSession' \in [Sessions -> Nat]
  <2>1. ASSUME NEW s \in Sessions
        PROVE  Decremented(perSession[s], Cardinality(K \cap LeasesOf(s))) \in Nat
    BY LeasesFinite, DecrementedTyping DEF TypeOK
  <2> QED
    BY <2>1 DEF Remove
<1>4. FiniteStore'
  <2>1. Entries' \subseteq Entries
    BY <1>2 DEF Entries
  <2> QED
    BY <2>1, FS_Subset DEF FiniteStore
<1>5. CounterExact'
  <2> SUFFICES ASSUME NEW s \in Sessions
               PROVE  perSession'[s] = Cardinality(LeasesOf(s)')
    BY DEF CounterExact
  <2>1. LeasesOf(s)' = LeasesOf(s) \ K
    BY <1>2 DEF LeasesOf, SessionOf
  <2> DEFINE all == Cardinality(LeasesOf(s))
             gone == Cardinality(K \cap LeasesOf(s))
             left == Cardinality(LeasesOf(s) \ K)
  <2>2. left = all - gone
    <3>1. LeasesOf(s) \cap K = K \cap LeasesOf(s)
      OBVIOUS
    <3> QED
      BY <3>1, LeasesFinite, FS_Difference
  <2>3. all \in Nat /\ gone \in Nat /\ left \in Nat
    BY LeasesFinite, FS_Difference, FS_CardinalityType
  <2>4. perSession'[s] = Decremented(all, gone)
    BY DEF Remove, CounterExact
  <2>5. Cardinality(LeasesOf(s)') = left
    BY <2>1
  <2> HIDE DEF all, gone, left
  <2> QED
    BY <2>2, <2>3, <2>4, <2>5 DEF Decremented
<1> QED
  BY <1>1, <1>3, <1>4, <1>5

\* Acquire storing over a missing, a lapsed or the caller's own entry keeps the
\* count of the caller's session, of the former holder's and of every other
\* session exact.
LEMMA GrantKeepsStore ==
    ASSUME StoreInv, NEW r \in Readers, RequestGranted(r)
    PROVE  /\ locks' \in [Key -> BlockLock \cup {NoLock}]
           /\ perSession' \in [Sessions -> Nat]
           /\ FiniteStore'
           /\ CounterExact'
<1> USE DEF StoreInv
<1> DEFINE k == rd[r].key
           c == ReaderConn[r]
           s2 == Session[c]
           old == locks[k]
           s1 == SessionOf(old)
           granted == [lockId |-> rd[r].lockId, conn |-> c,
                       expires |-> rd[r].now + LeaseTime]
<1>1. /\ k \in Key /\ c \in Conns /\ s2 \in Sessions
      /\ granted \in BlockLock
      /\ granted # NoLock
  <2>1. /\ k \in Key /\ c \in Conns /\ s2 \in Sessions
        /\ rd[r].lockId \in LockIds /\ rd[r].now \in Nat
    BY JobTyping DEF RequestGranted
  <2> QED
    BY <2>1, NumberAssumption, NoLockAssumption DEF BlockLock
<1>2. /\ locks' = [locks EXCEPT ![k] = granted]
      /\ perSession' = Recounted(old, s2)
  BY DEF RequestGranted
<1>3. SessionOf(granted) = s2
  BY DEF SessionOf
<1>4. old # NoLock => s1 \in Sessions
  BY <1>1, LockTyping
<1> HIDE DEF k, c, s2, old, s1, granted
<1>5. locks' \in [Key -> BlockLock \cup {NoLock}]
  BY <1>1, <1>2 DEF TypeOK
<1>6. \A j \in Key : locks'[j] = IF j = k THEN granted ELSE locks[j]
  BY <1>1, <1>2 DEF TypeOK
<1>7. FiniteStore'
  <2>1. Entries' = Entries \cup {k}
    BY <1>1, <1>6 DEF Entries
  <2> QED
    BY <2>1, FS_AddElement DEF FiniteStore
<1>8. ASSUME NEW s \in Sessions
      PROVE  /\ perSession'[s] \in Nat
             /\ perSession'[s] = Cardinality(LeasesOf(s)')
  <2> DEFINE L == LeasesOf(s)
  <2>1. /\ perSession[s] = Cardinality(L)
        /\ Cardinality(L) \in Nat
        /\ IsFiniteSet(L)
    BY LeasesFinite DEF CounterExact
  <2>2. \A j \in Key : j \in LeasesOf(s)'
           <=> IF j = k THEN s2 = s ELSE j \in L
    BY <1>1, <1>3, <1>6 DEF LeasesOf, SessionOf
  <2>3. LeasesOf(s)' \subseteq Key /\ L \subseteq Key
    BY DEF LeasesOf
  <2>4. k \in L <=> old # NoLock /\ s1 = s
    BY <1>1 DEF LeasesOf, old, s1
  <2>5. perSession \in [Sessions -> Nat]
    BY DEF TypeOK
  <2> DEFINE held == Cardinality(L)
  <2>6. CASE s2 = s /\ k \in L
    <3>1. LeasesOf(s)' = L
      BY <1>1, <2>2, <2>3, <2>6
    <3>2. held # 0
      BY <2>1, <2>6, FS_EmptySet
    <3>3. perSession'[s] = Decremented(held, 1) + 1
      BY <1>1, <1>2, <1>4, <2>1, <2>4, <2>5, <2>6 DEF Recounted, old, s1
    <3> HIDE DEF held
    <3> QED
      BY <3>1, <3>2, <3>3, <2>1 DEF Decremented, held
  <2>7. CASE s2 = s /\ k \notin L
    <3>1. LeasesOf(s)' = L \cup {k}
      BY <1>1, <2>2, <2>3, <2>7
    <3>2. Cardinality(LeasesOf(s)') = held + 1
      BY <3>1, <2>1, <2>7, FS_AddElement
    <3>3. perSession'[s] = held + 1
      BY <1>1, <1>2, <1>4, <2>1, <2>4, <2>5, <2>7 DEF Recounted, old, s1
    <3> QED
      BY <3>2, <3>3, <2>1
  <2>8. CASE s2 # s /\ k \in L
    <3>1. LeasesOf(s)' = L \ {k}
      BY <1>1, <2>2, <2>3, <2>8
    <3>2. Cardinality(LeasesOf(s)') = held - 1 /\ held # 0
      BY <3>1, <2>1, <2>8, FS_RemoveElement, FS_EmptySet
    <3>3. perSession'[s] = Decremented(held, 1)
      BY <1>1, <1>2, <1>4, <2>1, <2>4, <2>5, <2>8 DEF Recounted, old, s1
    <3> HIDE DEF held
    <3> QED
      BY <3>2, <3>3, <2>1 DEF Decremented, held
  <2>9. CASE s2 # s /\ k \notin L
    <3>1. LeasesOf(s)' = L
      BY <1>1, <2>2, <2>3, <2>9
    <3>2. perSession'[s] = held
      BY <1>1, <1>2, <1>4, <2>1, <2>4, <2>5, <2>9 DEF Recounted, old, s1
    <3> QED
      BY <3>1, <3>2, <2>1
  <2> QED
    BY <2>6, <2>7, <2>8, <2>9
<1>9. CounterExact'
  BY <1>8 DEF CounterExact
<1>10. perSession' \in [Sessions -> Nat]
  <2>1. perSession' = [s \in Sessions |-> perSession'[s]]
    BY <1>2 DEF Recounted, TypeOK
  <2> QED
    BY <1>8, <2>1
<1> QED
  BY <1>5, <1>7, <1>9, <1>10

-----------------------------------------------------------------------------
\* NewMemoryLockStore establishes the store's invariant.
LEMMA InitStoreInv == Init => StoreInv
<1> SUFFICES ASSUME Init PROVE StoreInv
  OBVIOUS
<1>1. TypeOK
  BY NumberAssumption DEF Init, TypeOK, Idle
<1>2. Entries = {} /\ \A s \in Sessions : LeasesOf(s) = {}
  BY DEF Init, Entries, LeasesOf
<1>3. FiniteStore /\ CounterExact
  BY <1>2, FS_EmptySet DEF Init, FiniteStore, CounterExact
<1> QED
  BY <1>1, <1>3 DEF StoreInv

\* Every step of a reader, a handler, the sweep and the drain preserves it.
LEMMA NextStoreInv == StoreInv /\ [Next]_vars => StoreInv'
<1> SUFFICES ASSUME StoreInv, [Next]_vars PROVE StoreInv'
  OBVIOUS
<1> USE DEF StoreInv
<1>0. ASSUME UNCHANGED storeVars PROVE FiniteStore' /\ CounterExact'
  BY <1>0 DEF FiniteStore, Entries, CounterExact, LeasesOf
<1>1. CASE Tick
  BY <1>0, <1>1, NumberAssumption DEF Tick, TypeOK
<1>2. ASSUME NEW r \in Readers, NEW v \in Verbs, NEW b \in Blocks,
             NEW i \in LockIds, Frame(r, v, b, i)
      PROVE  StoreInv'
  <2>1. <<Note[ReaderConn[r]], b>> \in Key /\ v \in Verb
    BY ConnAssumption, VerbAssumption DEF Key
  <2>2. [pc |-> "clock", verb |-> v, key |-> <<Note[ReaderConn[r]], b>>,
         lockId |-> i, now |-> 0, lock |-> NoLock] \in Job
    BY <2>1 DEF Job
  <2>3. TypeOK'
    BY <1>2, <2>2 DEF Frame, TypeOK
  <2> QED
    BY <1>0, <1>2, <2>3 DEF Frame
<1>3. ASSUME NEW r \in Readers, ReaderStep(r)
      PROVE  StoreInv'
  <2>1. CASE RequestDenied(r) \/ ReleaseIgnored(r) \/ RelayTransform(r)
    BY <1>0, <2>1 DEF RequestDenied, ReleaseIgnored, RelayTransform, TypeOK
  <2>8. CASE ReadClock(r)
    <3>1. rd[r] \in Job /\ clock \in Nat
      BY <2>8 DEF ReadClock, TypeOK
    <3>2. [rd[r] EXCEPT !.pc = "store", !.now = clock] \in Job
      BY <3>1 DEF Job
    <3>3. rd' = [rd EXCEPT ![r] = [rd[r] EXCEPT !.pc = "store", !.now = clock]]
      BY <2>8 DEF ReadClock, TypeOK
    <3>4. TypeOK'
      BY <2>8, <3>2, <3>3 DEF ReadClock, TypeOK
    <3> QED
      BY <1>0, <2>8, <3>4 DEF ReadClock
  <2>2. CASE RequestGranted(r)
    <3>1. /\ [lockId |-> rd[r].lockId, conn |-> ReaderConn[r],
              expires |-> rd[r].now + LeaseTime] \in BlockLock
          /\ rd[r] \in Job
      <4>1. /\ rd[r] \in Job /\ rd[r].lockId \in LockIds
            /\ rd[r].now \in Nat /\ ReaderConn[r] \in Conns
        BY <2>2, JobTyping DEF RequestGranted
      <4> QED
        BY <4>1, NumberAssumption DEF BlockLock
    <3>2. rd' \in [Readers -> Job \cup {Idle}]
      BY <2>2, <3>1 DEF RequestGranted, TypeOK, Job
    <3>3. TypeOK'
      BY <2>2, <3>2, GrantKeepsStore DEF RequestGranted, TypeOK, Relaying
    <3> QED
      BY <2>2, <3>3, GrantKeepsStore
  <2>3. CASE Renew(r)
    <3>1. /\ rd[r].key \in Key
          /\ rd[r].now + LeaseTime \in Nat
      <4>1. rd[r].key \in Key /\ rd[r].now \in Nat
        BY <2>3, JobTyping DEF Renew
      <4> QED
        BY <4>1, NumberAssumption
    <3>2. \A k \in Key :
             /\ locks'[k] \in BlockLock \cup {NoLock}
             /\ locks'[k] = NoLock <=> locks[k] = NoLock
             /\ locks[k] # NoLock => locks'[k].conn = locks[k].conn
      <4>1. CASE Renewable(r)
        <5>1. /\ locks[rd[r].key] \in BlockLock
              /\ [locks[rd[r].key] EXCEPT !.expires = rd[r].now + LeaseTime] \in BlockLock
          BY <3>1, <4>1, LockTyping DEF Renewable, Owns, BlockLock
        <5> QED
          BY <2>3, <3>1, <4>1, <5>1, NoLockAssumption DEF Renew, TypeOK, BlockLock
      <4>2. CASE ~Renewable(r)
        BY <2>3, <4>2 DEF Renew, TypeOK
      <4> QED
        BY <4>1, <4>2
    <3>3. locks' = [k \in Key |-> locks'[k]]
      BY <2>3 DEF Renew, TypeOK
    <3>4. TypeOK'
      <4>1. locks' \in [Key -> BlockLock \cup {NoLock}]
        BY <3>2, <3>3
      <4> QED
        BY <2>3, <4>1 DEF Renew, TypeOK, JudgedLater, Relaying
    <3>5. Entries' = Entries /\ \A s : LeasesOf(s)' = LeasesOf(s)
      BY <3>2 DEF Entries, LeasesOf, SessionOf
    <3>6. FiniteStore' /\ CounterExact'
      BY <2>3, <3>5 DEF Renew, FiniteStore, CounterExact
    <3> QED
      BY <3>4, <3>6
  <2>4. CASE Release(r)
    <3>1. rd[r] \in Job /\ rd[r].key \in Key
      BY <2>4, JobTyping DEF Release
    <3>2. Remove({rd[r].key})
      BY <2>4 DEF Release
    <3>3. /\ locks' \in [Key -> BlockLock \cup {NoLock}]
          /\ perSession' \in [Sessions -> Nat]
          /\ FiniteStore' /\ CounterExact'
      BY <3>1, <3>2, RemoveKeepsStore
    <3>4. locks[rd[r].key] \in BlockLock \cup {NoLock}
      BY <3>1 DEF TypeOK
    <3>5. rd' \in [Readers -> Job \cup {Idle}]
      BY <2>4, <3>1, <3>4 DEF Release, TypeOK, Job
    <3>6. TypeOK'
      BY <2>4, <3>3, <3>5 DEF Release, TypeOK
    <3> QED
      BY <3>3, <3>6
  <2>5. CASE AnnounceGranted(r)
    <3>1. rd[r].lock \in BlockLock \cup {NoLock}
      BY <2>5, JobTyping DEF AnnounceGranted
    <3>2. TypeOK'
      BY <2>5, <3>1 DEF AnnounceGranted, Announce, TypeOK
    <3> QED
      BY <1>0, <2>5, <3>2 DEF AnnounceGranted
  <2>6. CASE AnnounceReleased(r)
    BY <1>0, <2>6 DEF AnnounceReleased, Announce, TypeOK
  <2>7. CASE TransformGuard(r)
    <3>1. rd[r] \in Job
      BY <2>7, JobTyping DEF TransformGuard
    <3>2. [rd[r] EXCEPT !.pc = "relay"] \in Job
      BY <3>1 DEF Job
    <3>3. TypeOK'
      BY <2>7, <3>2 DEF TransformGuard, TypeOK
    <3> QED
      BY <1>0, <2>7, <3>3 DEF TransformGuard
  <2> QED
    BY <1>3, <2>1, <2>2, <2>3, <2>4, <2>5, <2>6, <2>7, <2>8 DEF ReaderStep
<1>4. ASSUME NEW c \in Conns, Disconnect(c) \/ Departed(c)
      PROVE  StoreInv'
  BY <1>0, <1>4 DEF Disconnect, Departed, TypeOK
<1>5. ASSUME NEW c \in Conns, ReleaseConnection(c)
      PROVE  StoreInv'
  <2>1. KeysOf(c) \in SUBSET Key /\ Remove(KeysOf(c))
    BY <1>5 DEF ReleaseConnection, KeysOf
  <2>2. {<<k, locks[k]>> : k \in KeysOf(c)} \subseteq Lease
    BY LockTyping DEF KeysOf, Lease
  <2>3. TypeOK'
    BY <1>5, <2>1, <2>2, RemoveKeepsStore DEF ReleaseConnection, TypeOK
  <2> QED
    BY <2>1, <2>3, RemoveKeepsStore
<1>6. ASSUME NEW c \in Conns, AnnounceEnding(c)
      PROVE  StoreInv'
  <2>1. TypeOK'
    BY <1>6 DEF AnnounceEnding, Announce, TypeOK
  <2> QED
    BY <1>0, <1>6, <2>1 DEF AnnounceEnding
<1>7. CASE SweeperStep
  <2>1. CASE SweepTick \/ SweepDone
    BY <1>0, <2>1 DEF SweepTick, SweepDone, TypeOK
  <2>2. CASE SweepExpired
    <3>1. Lapsed(sweepNow) \in SUBSET Key /\ Remove(Lapsed(sweepNow))
      BY <2>2 DEF SweepExpired, Lapsed
    <3>2. {<<k, locks[k]>> : k \in Lapsed(sweepNow)} \subseteq Lease
      BY LockTyping DEF Lapsed, Lease
    <3>3. TypeOK'
      BY <2>2, <3>1, <3>2, RemoveKeepsStore DEF SweepExpired, TypeOK
    <3> QED
      BY <3>1, <3>3, RemoveKeepsStore
  <2>3. CASE AnnounceExpired
    <3>1. TypeOK'
      BY <2>3 DEF AnnounceExpired, Announce, TypeOK
    <3> QED
      BY <1>0, <2>3, <3>1 DEF AnnounceExpired
  <2> QED
    BY <1>7, <2>1, <2>2, <2>3 DEF SweeperStep
<1>8. CASE StartDraining \/ BeginDrain
  BY <1>0, <1>8 DEF StartDraining, BeginDrain, TypeOK
<1>9. CASE UNCHANGED vars
  BY <1>0, <1>9 DEF vars, TypeOK
<1> QED
  BY <1>1, <1>2, <1>3, <1>4, <1>5, <1>6, <1>7, <1>8, <1>9
  DEF Next, HandlerExit

LEMMA StoreInvariant == Spec => []StoreInv
BY InitStoreInv, NextStoreInv, PTL DEF Spec

\* The store, its counters, the readers' jobs and the announcements keep their
\* types in every reachable state.
THEOREM TypeCorrect == Spec => []TypeOK
<1>1. StoreInv => TypeOK
  BY DEF StoreInv
<1> QED
  BY <1>1, StoreInvariant, PTL

\* The per-session counter, which grants, takeovers, releases, disconnects and
\* sweeps maintain beside the store, is exact in every reachable state.
THEOREM StoreCorrect == Spec => []CounterExact
<1>1. StoreInv => CounterExact
  BY DEF StoreInv
<1> QED
  BY <1>1, StoreInvariant, PTL

-----------------------------------------------------------------------------
(* The ceiling.  It follows the counter, which CounterExact ties to the store. *)

CountBounded == MaxPerSession > 0 => \A s \in Sessions : perSession[s] <= MaxPerSession

\* Only Acquire raises a counter, and only below the ceiling.
LEMMA NextCountBounded ==
    StoreInv /\ CountBounded /\ [Next]_vars => CountBounded'
<1> SUFFICES ASSUME StoreInv, CountBounded, [Next]_vars, MaxPerSession > 0,
                    NEW s \in Sessions
             PROVE  perSession'[s] <= MaxPerSession
  BY DEF CountBounded
<1>0. /\ perSession \in [Sessions -> Nat]
      /\ perSession[s] \in Nat /\ perSession[s] <= MaxPerSession
      /\ MaxPerSession \in Nat
  BY NumberAssumption DEF StoreInv, TypeOK, CountBounded
<1>1. ASSUME NEW K, Remove(K) PROVE perSession'[s] <= MaxPerSession
  <2>1. Cardinality(K \cap LeasesOf(s)) \in Nat
    BY LeasesFinite DEF StoreInv
  <2>2. perSession'[s] = Decremented(perSession[s], Cardinality(K \cap LeasesOf(s)))
    BY <1>1 DEF Remove
  <2> QED
    BY <1>0, <2>1, <2>2 DEF Decremented
<1>2. ASSUME NEW r \in Readers, RequestGranted(r)
      PROVE  perSession'[s] <= MaxPerSession
  <2> DEFINE k == rd[r].key
             s2 == Session[ReaderConn[r]]
             old == locks[k]
             s1 == SessionOf(old)
  <2>1. k \in Key /\ s2 \in Sessions
    BY <1>2, JobTyping DEF RequestGranted, StoreInv
  <2>2. old # NoLock => s1 \in Sessions
    BY <2>1, LockTyping DEF StoreInv
  <2>3. perSession' = Recounted(old, s2)
    BY <1>2 DEF RequestGranted
  <2>4. CASE Reacquiring(r)
    <3>1. old # NoLock /\ s1 = s2
      BY <2>4 DEF Reacquiring, SessionOf
    <3>2. k \in LeasesOf(s2)
      BY <2>1, <3>1 DEF LeasesOf
    <3>3. perSession[s2] # 0
      <4>1. IsFiniteSet(LeasesOf(s2)) /\ perSession[s2] = Cardinality(LeasesOf(s2))
        BY <2>1, LeasesFinite DEF StoreInv, CounterExact
      <4> QED
        BY <3>2, <4>1, FS_EmptySet
    <3>4. perSession'[s] = IF s = s2 THEN Decremented(perSession[s], 1) + 1
                           ELSE perSession[s]
      BY <1>0, <2>1, <2>3, <3>1 DEF Recounted
    <3> HIDE DEF s2
    <3> QED
      BY <1>0, <3>3, <3>4 DEF Decremented
  <2>5. CASE ~Reacquiring(r)
    <3>1. perSession[s2] < MaxPerSession
      BY <1>0, <1>2, <2>1, <2>5 DEF RequestGranted, TooManyLocks
    <3>2. perSession'[s] \in {perSession[s], Decremented(perSession[s], 1)}
             \/ (s = s2 /\ perSession'[s] \in
                    {perSession[s] + 1, Decremented(perSession[s], 1) + 1})
      BY <1>0, <2>1, <2>2, <2>3 DEF Recounted
    <3> HIDE DEF s2
    <3> QED
      BY <1>0, <3>1, <3>2 DEF Decremented
  <2> QED
    BY <2>4, <2>5
<1>3. CASE UNCHANGED perSession
  BY <1>0, <1>3
<1> QED
  BY <1>1, <1>2, <1>3
  DEF Next, vars, Tick, Frame, ReaderStep, ReadClock, RequestDenied, Renew, Release,
      ReleaseIgnored, AnnounceGranted, AnnounceReleased, TransformGuard,
      RelayTransform, Disconnect, HandlerExit, ReleaseConnection, AnnounceEnding,
      Departed, SweeperStep, SweepTick, SweepExpired, AnnounceExpired, SweepDone,
      StartDraining, BeginDrain

\* Whatever the ceiling and however many tabs a session opens, the session
\* never holds more leases than MaxPerSession.
THEOREM CeilingCorrect == Spec => []CeilingHeld
<1>1. Init => CountBounded
  BY NumberAssumption DEF Init, CountBounded
<1>2. StoreInv /\ CountBounded => CeilingHeld
  BY DEF StoreInv, CounterExact, CountBounded, CeilingHeld
<1> QED
  BY <1>1, <1>2, InitStoreInv, NextStoreInv, NextCountBounded, PTL DEF Spec

-----------------------------------------------------------------------------
(* Clock values that were read before a mutex was taken are never ahead of    *)
(* the clock, so what they see as lapsed has lapsed.                          *)

ClocksRead ==
    /\ \A r \in Readers : rd[r] # Idle => rd[r].now <= clock
    /\ sweepNow <= clock

\* A clock value that a reader or the sweep carries stays in the past.
LEMMA NextClocksRead == StoreInv /\ ClocksRead /\ [Next]_vars => ClocksRead'
<1> SUFFICES ASSUME StoreInv, ClocksRead, [Next]_vars PROVE ClocksRead'
  OBVIOUS
<1>0. /\ clock \in Nat /\ sweepNow \in Nat
      /\ rd \in [Readers -> Job \cup {Idle}]
      /\ \A q \in Readers : rd[q] # Idle => rd[q] \in Job /\ rd[q].now \in Nat
  BY DEF StoreInv, TypeOK, Job
<1> USE DEF ClocksRead
<1>1. CASE Tick
  BY <1>0, <1>1 DEF Tick
<1>2. ASSUME NEW r \in Readers, NEW v \in Verbs, NEW b \in Blocks,
             NEW i \in LockIds, Frame(r, v, b, i)
      PROVE  ClocksRead'
  BY <1>0, <1>2 DEF Frame
<1>3. ASSUME NEW r \in Readers, ReaderStep(r) PROVE ClocksRead'
  <2>1. /\ UNCHANGED <<clock, sweepNow>>
        /\ \A q \in Readers : rd'[q] # Idle =>
              \/ rd[q] # Idle /\ rd'[q].now = rd[q].now
              \/ rd'[q].now = clock
    <3>1. CASE RequestDenied(r) \/ Renew(r) \/ ReleaseIgnored(r) \/ AnnounceGranted(r)
               \/ AnnounceReleased(r) \/ RelayTransform(r)
      BY <1>0, <3>1 DEF RequestDenied, Renew, ReleaseIgnored, AnnounceGranted,
                        AnnounceReleased, RelayTransform
    <3>2. CASE RequestGranted(r) \/ Release(r)
      BY <1>0, <3>2 DEF RequestGranted, Release, At, Job
    <3>3. CASE TransformGuard(r)
      BY <1>0, <3>3 DEF TransformGuard, At, Job
    <3>4. CASE ReadClock(r)
      BY <1>0, <3>4 DEF ReadClock, Job
    <3> QED
      BY <1>3, <3>1, <3>2, <3>3, <3>4 DEF ReaderStep
  <2> QED
    BY <1>0, <2>1
<1>4. ASSUME NEW c \in Conns, Disconnect(c) \/ HandlerExit(c) PROVE ClocksRead'
  BY <1>4 DEF Disconnect, HandlerExit, ReleaseConnection, AnnounceEnding, Departed
<1>5. CASE SweeperStep
  BY <1>0, <1>5 DEF SweeperStep, SweepTick, SweepExpired, AnnounceExpired, SweepDone
<1>6. CASE StartDraining \/ BeginDrain \/ UNCHANGED vars
  BY <1>6 DEF StartDraining, BeginDrain, vars
<1> QED
  BY <1>1, <1>2, <1>3, <1>4, <1>5, <1>6 DEF Next

\* The body of LiveLeaseKept for one entry.
StaysOrEnds(k) ==
    IsLive(k) =>
        \/ locks'[k] # NoLock /\ locks'[k].conn = locks[k].conn
        \/ OwnRelease(k)
        \/ conn[locks[k].conn] = "closing"

\* No single step takes a live lease from a connection that has neither
\* released it nor is closing; the clock reads are in the past, so what they
\* call lapsed has lapsed.
LEMMA StepStaysOrEnds ==
    ASSUME StoreInv, ClocksRead, [Next]_vars, NEW k \in Key
    PROVE  StaysOrEnds(k)
<1> SUFFICES ASSUME IsLive(k) PROVE
        \/ locks'[k] # NoLock /\ locks'[k].conn = locks[k].conn
        \/ OwnRelease(k)
        \/ conn[locks[k].conn] = "closing"
  BY DEF StaysOrEnds
<1>0. /\ locks[k] \in BlockLock /\ locks[k] # NoLock
      /\ locks[k].expires \in Nat /\ clock \in Nat
      /\ clock < locks[k].expires
  BY LockTyping DEF IsLive, IsExpired, StoreInv, TypeOK
<1>1. CASE UNCHANGED locks
  BY <1>0, <1>1
<1>2. ASSUME NEW r \in Readers, RequestGranted(r)
      PROVE  locks'[k] # NoLock /\ locks'[k].conn = locks[k].conn
  <2>1. /\ rd[r].key \in Key /\ rd[r].now \in Nat /\ rd[r].now <= clock
        /\ rd[r].lockId \in LockIds /\ ReaderConn[r] \in Conns
    BY <1>2, JobTyping DEF RequestGranted, StoreInv, ClocksRead, At
  <2>2. CASE rd[r].key = k
    <3>1. ~IsExpired(locks[k], rd[r].now)
      BY <1>0, <2>1 DEF IsExpired
    <3>2. locks[k].conn = ReaderConn[r]
      BY <1>0, <1>2, <2>2, <3>1 DEF RequestGranted, HeldByOther, Reacquiring
    <3>3. /\ [lockId |-> rd[r].lockId, conn |-> ReaderConn[r],
              expires |-> rd[r].now + LeaseTime] \in BlockLock
          /\ locks'[k] = [lockId |-> rd[r].lockId, conn |-> ReaderConn[r],
                          expires |-> rd[r].now + LeaseTime]
      BY <1>2, <2>1, <2>2, NumberAssumption
      DEF RequestGranted, BlockLock, StoreInv, TypeOK
    <3> QED
      BY <3>2, <3>3, NoLockAssumption
  <2>3. CASE rd[r].key # k
    BY <1>0, <1>2, <2>3 DEF RequestGranted, StoreInv, TypeOK
  <2> QED
    BY <2>2, <2>3
<1>3. ASSUME NEW r \in Readers, Renew(r)
      PROVE  locks'[k] # NoLock /\ locks'[k].conn = locks[k].conn
  <2>1. rd[r].key \in Key /\ rd[r].now + LeaseTime \in Nat
    BY <1>3, JobTyping, NumberAssumption DEF Renew, StoreInv
  <2>2. [locks[k] EXCEPT !.expires = rd[r].now + LeaseTime] \in BlockLock
    BY <1>0, <2>1 DEF BlockLock
  <2>3. locks'[k] \in {locks[k], [locks[k] EXCEPT !.expires = rd[r].now + LeaseTime]}
    BY <1>3, <2>1 DEF Renew, StoreInv, TypeOK
  <2> QED
    BY <1>0, <2>2, <2>3, NoLockAssumption DEF BlockLock
<1>4. ASSUME NEW r \in Readers, Release(r)
      PROVE  locks'[k] = locks[k] \/ OwnRelease(k)
  BY <1>4 DEF Release, Remove, OwnRelease
<1>5. ASSUME NEW c \in Conns, ReleaseConnection(c)
      PROVE  locks'[k] = locks[k] \/ conn[locks[k].conn] = "closing"
  BY <1>5 DEF ReleaseConnection, Remove, KeysOf
<1>6. ASSUME SweepExpired
      PROVE  locks'[k] = locks[k]
  <2>1. k \notin Lapsed(sweepNow)
    BY <1>0 DEF Lapsed, IsExpired, ClocksRead, StoreInv, TypeOK
  <2> QED
    BY <1>6, <2>1 DEF SweepExpired, Remove
<1> QED
  BY <1>0, <1>1, <1>2, <1>3, <1>4, <1>5, <1>6
  DEF Next, vars, Tick, Frame, ReaderStep, ReadClock, RequestDenied,
      ReleaseIgnored, AnnounceGranted, AnnounceReleased, TransformGuard,
      RelayTransform, Disconnect, HandlerExit, AnnounceEnding,
      Departed, SweeperStep, SweepTick, AnnounceExpired, SweepDone,
      StartDraining, BeginDrain

\* No interleaving of stale clock reads with other connections' calls and with
\* the sweep takes a live lease from a connection that neither released it nor
\* is disconnecting.
THEOREM LiveLeaseSafe == Spec => LiveLeaseKept
<1>1. Init => ClocksRead
  BY DEF Init, ClocksRead
<1>2. StoreInv /\ ClocksRead /\ [Next]_vars
         => [\A k \in Key :
                IsLive(k) =>
                   \/ locks'[k] # NoLock /\ locks'[k].conn = locks[k].conn
                   \/ OwnRelease(k)
                   \/ conn[locks[k].conn] = "closing"]_vars
  BY StepStaysOrEnds DEF StaysOrEnds
<1> QED
  BY <1>1, <1>2, InitStoreInv, NextStoreInv, NextClocksRead, PTL
  DEF Spec, LiveLeaseKept

-----------------------------------------------------------------------------
(* A WebSocket handler is its own reader: once it has returned, nothing can   *)
(* acquire for the connection any more, so what it released stays released.   *)

ExitInv ==
    \A c \in Conns \ WebTransport :
        /\ conn[c] # "open" => \A r \in Readers : ReaderConn[r] = c => rd[r] = Idle
        /\ conn[c] \in {"releasing", "gone"} => KeysOf(c) = {}

\* A WebSocket handler returns only once its reader has: from then on nobody
\* acquires for the connection, and ReleaseConnection leaves it nothing.
LEMMA NextExitInv == StoreInv /\ ExitInv /\ [Next]_vars => ExitInv'
<1> SUFFICES ASSUME StoreInv, ExitInv, [Next]_vars, NEW c \in Conns \ WebTransport
             PROVE  /\ conn'[c] # "open" =>
                          \A r \in Readers : ReaderConn[r] = c => rd'[r] = Idle
                    /\ conn'[c] \in {"releasing", "gone"} => KeysOf(c)' = {}
  BY DEF ExitInv
<1>0. /\ conn \in [Conns -> {"open", "closing", "releasing", "gone"}]
      /\ rd \in [Readers -> Job \cup {Idle}]
      /\ locks \in [Key -> BlockLock \cup {NoLock}]
      /\ conn[c] # "open" => \A r \in Readers : ReaderConn[r] = c => rd[r] = Idle
      /\ conn[c] \in {"releasing", "gone"} => KeysOf(c) = {}
  BY DEF StoreInv, TypeOK, ExitInv
<1>1. ASSUME NEW K, Remove(K), KeysOf(c) = {} PROVE KeysOf(c)' = {}
  BY <1>1 DEF Remove, KeysOf
<1>2. ASSUME UNCHANGED locks, KeysOf(c) = {} PROVE KeysOf(c)' = {}
  BY <1>2 DEF KeysOf
<1>3. CASE Tick \/ StartDraining \/ BeginDrain \/ UNCHANGED vars
  BY <1>0, <1>2, <1>3 DEF Tick, StartDraining, BeginDrain, vars
<1>4. ASSUME NEW r \in Readers, NEW v \in Verbs, NEW b \in Blocks,
             NEW i \in LockIds, Frame(r, v, b, i)
      PROVE  /\ conn'[c] # "open" =>
                   \A q \in Readers : ReaderConn[q] = c => rd'[q] = Idle
             /\ conn'[c] \in {"releasing", "gone"} => KeysOf(c)' = {}
  BY <1>0, <1>2, <1>4 DEF Frame
<1>5. ASSUME NEW r \in Readers, ReaderStep(r)
      PROVE  /\ conn'[c] # "open" =>
                   \A q \in Readers : ReaderConn[q] = c => rd'[q] = Idle
             /\ conn'[c] \in {"releasing", "gone"} => KeysOf(c)' = {}
  <2>1. /\ rd[r] # Idle
        /\ UNCHANGED conn
        /\ \A q \in Readers : q # r => rd'[q] = rd[q]
    BY <1>0, <1>5
    DEF ReaderStep, ReadClock, RequestDenied, RequestGranted, Renew, Release, ReleaseIgnored,
        AnnounceGranted, AnnounceReleased, TransformGuard, RelayTransform, At
  <2>2. conn[c] # "open" =>
           /\ ReaderConn[r] # c
           /\ \A q \in Readers : ReaderConn[q] = c => rd'[q] = Idle
    BY <1>0, <2>1
  <2>3. ASSUME ReaderConn[r] # c, KeysOf(c) = {} PROVE KeysOf(c)' = {}
    <3>1. CASE UNCHANGED locks
      BY <1>2, <2>3, <3>1
    <3>2. CASE RequestGranted(r)
      <4>1. \A k \in Key : locks'[k] = locks[k] \/ locks'[k].conn = ReaderConn[r]
        BY <1>0, <3>2 DEF RequestGranted
      <4> QED
        BY <2>3, <4>1 DEF KeysOf
    <3>3. CASE Renew(r)
      <4>1. \A k \in Key : k # rd[r].key => locks'[k] = locks[k]
        BY <1>0, <3>3 DEF Renew
      <4>2. ASSUME Renewable(r), rd[r].key \in Key
            PROVE  locks'[rd[r].key].conn = ReaderConn[r]
        <5>1. locks[rd[r].key] \in BlockLock /\ locks[rd[r].key].conn = ReaderConn[r]
          BY <4>2, LockTyping DEF Renewable, Owns, StoreInv
        <5> QED
          BY <1>0, <3>3, <4>2, <5>1 DEF Renew, BlockLock
      <4>3. ~Renewable(r) => UNCHANGED locks
        BY <3>3 DEF Renew
      <4> QED
        BY <1>2, <2>3, <4>1, <4>2, <4>3 DEF KeysOf
    <3>4. CASE Release(r)
      BY <1>1, <2>3, <3>4 DEF Release
    <3> QED
      BY <1>5, <3>1, <3>2, <3>3, <3>4
      DEF ReaderStep, ReadClock, RequestDenied, ReleaseIgnored, AnnounceGranted,
          AnnounceReleased, TransformGuard, RelayTransform
  <2> QED
    BY <1>0, <2>1, <2>2, <2>3
<1>6. ASSUME NEW d \in Conns, Disconnect(d) \/ Departed(d) \/ AnnounceEnding(d)
      PROVE  /\ conn'[c] # "open" =>
                   \A q \in Readers : ReaderConn[q] = c => rd'[q] = Idle
             /\ conn'[c] \in {"releasing", "gone"} => KeysOf(c)' = {}
  BY <1>0, <1>2, <1>6 DEF Disconnect, MayReturn, Departed, AnnounceEnding
<1>7. ASSUME NEW d \in Conns, ReleaseConnection(d)
      PROVE  /\ conn'[c] # "open" =>
                   \A q \in Readers : ReaderConn[q] = c => rd'[q] = Idle
             /\ conn'[c] \in {"releasing", "gone"} => KeysOf(c)' = {}
  <2>1. d = c => KeysOf(c)' = {}
    BY <1>7 DEF ReleaseConnection, Remove, KeysOf
  <2> QED
    BY <1>0, <1>1, <1>7, <2>1 DEF ReleaseConnection
<1>8. CASE SweeperStep
  BY <1>0, <1>1, <1>2, <1>8
  DEF SweeperStep, SweepTick, SweepExpired, AnnounceExpired, SweepDone
<1> QED
  BY <1>3, <1>4, <1>5, <1>6, <1>7, <1>8 DEF Next, HandlerExit

\* A WebSocket connection that has departed never holds a lease again.
THEOREM DepartedHoldNothing == Spec => []GoneHoldsNothing
<1>1. Init => ExitInv
  BY DEF Init, ExitInv, KeysOf
<1>2. ExitInv => GoneHoldsNothing
  BY DEF ExitInv, GoneHoldsNothing
<1> QED
  BY <1>1, <1>2, InitStoreInv, NextStoreInv, NextExitInv, PTL DEF Spec

-----------------------------------------------------------------------------
(* What a staying peer was told.  A grant is announced after the mutex has    *)
(* been released, so three things have to hold besides BeliefSound itself.    *)

\* A grant that is about to be announced: on a WebSocket connection, whose one
\* reader is the goroutine that announces, the entry is still the one it stored,
\* or its time is over and the connection does not hold the block.
GrantInv ==
    \A r \in Readers :
        At(r, "announce", "request") =>
            /\ rd[r].lock # NoLock
            /\ rd[r].lock.conn = ReaderConn[r]
            /\ rd[r].lock.expires = rd[r].now + LeaseTime
            /\ ReaderConn[r] \notin WebTransport =>
                  \/ locks[rd[r].key] = rd[r].lock
                  \/ /\ IsExpired(rd[r].lock, clock)
                     /\ locks[rd[r].key] # NoLock =>
                           locks[rd[r].key].conn # ReaderConn[r]

\* Reader r is inside a frame and has read its clock.
Stamped(r) == rd[r] # Idle /\ rd[r].pc # "clock"

\* A peer never expects a WebSocket holder's lease to last longer than the store
\* does: renewals and re-grants carry a later clock read than what was announced.
HeardAge ==
    \A k \in Key :
        heard[k] # NoLock /\ heard[k].conn \notin WebTransport =>
            /\ heard[k].expires <= clock + LeaseTime
            /\ \A r \in Readers : Stamped(r) /\ ReaderConn[r] = heard[k].conn =>
                  heard[k].expires <= rd[r].now + LeaseTime
            /\ locks[k] # NoLock /\ locks[k].conn = heard[k].conn =>
                  heard[k].expires <= locks[k].expires

\* The list a disconnect or a sweep is about to fill is empty: no lease of an
\* earlier pass is dropped unannounced.
ListsFresh ==
    /\ \A c \in Conns : conn[c] \in {"open", "closing"} => ending[c] = {}
    /\ sweep # "announcing" => swept = {}

BeliefInv == GrantInv /\ HeardAge /\ ListsFresh /\ BeliefSound

\* The record Acquire stores for reader r.
Granted(r) == [lockId |-> rd[r].lockId, conn |-> ReaderConn[r],
               expires |-> rd[r].now + LeaseTime]

\* The ways an entry of the store can change: a grant, a renewal by its holder,
\* or an end (a release by its holder, the holder's disconnect, a lapse).
EntryMoves(k) ==
    \/ locks'[k] = locks[k]
    \/ \E r \in Readers :
          /\ RequestGranted(r) /\ rd[r].key = k
          /\ locks'[k] = Granted(r)
    \/ \E r \in Readers :
          /\ Renew(r) /\ rd[r].key = k /\ Owns(r) /\ Renewable(r)
          /\ locks'[k] # NoLock /\ locks'[k].conn = locks[k].conn
          /\ locks'[k].expires = rd[r].now + LeaseTime
    \/ \E r \in Readers : Release(r) /\ rd[r].key = k /\ Owns(r) /\ locks'[k] = NoLock
    \/ \E c \in Conns : ReleaseConnection(c) /\ k \in KeysOf(c) /\ locks'[k] = NoLock
    \/ SweepExpired /\ k \in Lapsed(sweepNow) /\ locks'[k] = NoLock

\* Every step changes an entry in one of those ways or not at all.
LEMMA EntryChanges ==
    ASSUME StoreInv, [Next]_vars, NEW k \in Key
    PROVE  EntryMoves(k)
<1>0. locks \in [Key -> BlockLock \cup {NoLock}]
  BY DEF StoreInv, TypeOK
<1>1. ASSUME NEW r \in Readers, RequestGranted(r) PROVE EntryMoves(k)
  <2>1. locks' = [locks EXCEPT ![rd[r].key] = Granted(r)]
    BY <1>1 DEF RequestGranted, Granted
  <2> QED
    BY <1>0, <1>1, <2>1 DEF EntryMoves
<1>2. ASSUME NEW r \in Readers, Renew(r) PROVE EntryMoves(k)
  <2>1. CASE Renewable(r) /\ rd[r].key = k
    <3>1. /\ locks' = [locks EXCEPT ![k].expires = rd[r].now + LeaseTime]
          /\ Owns(r) /\ locks[k] # NoLock /\ locks[k] \in BlockLock
      BY <1>0, <1>2, <2>1 DEF Renew, Renewable, Owns
    <3>2. locks'[k] = [locks[k] EXCEPT !.expires = rd[r].now + LeaseTime]
      BY <1>0, <3>1
    <3>3. rd[r].now + LeaseTime \in Nat
      <4>1. rd[r].now \in Nat
        BY <1>2, JobTyping DEF Renew, StoreInv
      <4> QED
        BY <4>1, NumberAssumption
    <3>4. /\ locks'[k] \in BlockLock
          /\ locks'[k].conn = locks[k].conn
          /\ locks'[k].expires = rd[r].now + LeaseTime
      BY <3>1, <3>2, <3>3 DEF BlockLock
    <3> QED
      BY <1>2, <2>1, <3>1, <3>4, NoLockAssumption DEF EntryMoves
  <2>2. CASE ~Renewable(r) \/ rd[r].key # k
    BY <1>0, <1>2, <2>2 DEF Renew, EntryMoves
  <2> QED
    BY <2>1, <2>2
<1>3. ASSUME NEW r \in Readers, Release(r) PROVE EntryMoves(k)
  BY <1>3 DEF Release, Remove, EntryMoves
<1>4. ASSUME NEW c \in Conns, ReleaseConnection(c) PROVE EntryMoves(k)
  BY <1>4 DEF ReleaseConnection, Remove, EntryMoves
<1>5. CASE SweepExpired
  BY <1>5 DEF SweepExpired, Remove, EntryMoves
<1>6. CASE UNCHANGED locks
  BY <1>6 DEF EntryMoves
<1>7. ASSUME NEW r \in Readers, ReaderStep(r)
      PROVE  RequestGranted(r) \/ Renew(r) \/ Release(r) \/ UNCHANGED locks
  BY <1>7 DEF ReaderStep, ReadClock, RequestDenied, ReleaseIgnored, AnnounceGranted,
              AnnounceReleased, TransformGuard, RelayTransform
<1>8. ASSUME NEW c \in Conns, Disconnect(c) \/ HandlerExit(c)
      PROVE  ReleaseConnection(c) \/ UNCHANGED locks
  BY <1>8 DEF Disconnect, HandlerExit, AnnounceEnding, Departed
<1>9. SweeperStep => SweepExpired \/ UNCHANGED locks
  BY DEF SweeperStep, SweepTick, AnnounceExpired, SweepDone
<1> QED
  BY <1>1, <1>2, <1>3, <1>4, <1>5, <1>6, <1>7, <1>8, <1>9
  DEF Next, vars, Tick, Frame, StartDraining, BeginDrain

\* The ways a reader's job can change: it accepts a frame, reads the clock,
\* leaves the store for what comes after, or is done.
JobMoves(q) ==
    \/ rd'[q] = rd[q]
    \/ rd'[q] = Idle
    \/ rd[q] = Idle /\ rd'[q] # Idle /\ rd'[q].pc = "clock"
    \/ /\ rd[q] # Idle /\ rd[q].pc = "clock"
       /\ rd'[q] # Idle /\ rd'[q].pc = "store" /\ rd'[q].now = clock
    \/ /\ rd[q] # Idle /\ rd'[q] # Idle /\ rd[q].pc = "store"
       /\ rd'[q].now = rd[q].now /\ rd'[q].key = rd[q].key
       /\ rd'[q].verb = rd[q].verb
       /\ UNCHANGED heard
       /\ \/ RequestGranted(q) /\ rd'[q].lock = Granted(q)
          \/ Release(q) /\ rd'[q].pc = "announce" /\ rd'[q].lock = locks[rd[q].key]
          \/ TransformGuard(q) /\ rd'[q].pc = "relay"

\* Every step moves a reader in one of those ways.
LEMMA JobChanges ==
    ASSUME StoreInv, [Next]_vars, NEW q \in Readers
    PROVE  JobMoves(q)
<1>0. rd \in [Readers -> Job \cup {Idle}] /\ (rd[q] # Idle => rd[q] \in Job)
  BY DEF StoreInv, TypeOK
<1>1. ASSUME NEW r \in Readers, NEW v \in Verbs, NEW b \in Blocks,
             NEW i \in LockIds, Frame(r, v, b, i)
      PROVE  JobMoves(q)
  <2>1. CASE r = q
    <3>1. /\ rd[q] = Idle
          /\ rd'[q] = [pc |-> "clock", verb |-> v, key |-> <<Note[ReaderConn[r]], b>>,
                       lockId |-> i, now |-> 0, lock |-> NoLock]
      BY <1>0, <1>1, <2>1 DEF Frame
    <3>2. rd'[q].pc = "clock"
      BY <3>1
    <3>3. rd'[q] # Idle
      BY <3>2 DEF Idle
    <3> QED
      BY <3>1, <3>2, <3>3 DEF JobMoves
  <2>2. CASE r # q
    BY <1>0, <1>1, <2>2 DEF Frame, JobMoves
  <2> QED
    BY <2>1, <2>2
<1>2. ASSUME NEW r \in Readers, ReaderStep(r), r # q PROVE JobMoves(q)
  <2>1. rd'[q] = rd[q]
    BY <1>0, <1>2
    DEF ReaderStep, ReadClock, RequestDenied, RequestGranted, Renew, Release, ReleaseIgnored,
        AnnounceGranted, AnnounceReleased, TransformGuard, RelayTransform
  <2> QED
    BY <2>1 DEF JobMoves
<1>3. CASE RequestGranted(q)
  <2>1. /\ rd[q] # Idle /\ rd[q].pc = "store" /\ UNCHANGED heard
        /\ rd' = [rd EXCEPT ![q].pc = "announce", ![q].lock = Granted(q)]
    BY <1>3 DEF RequestGranted, At, Granted
  <2>2. rd'[q] = [rd[q] EXCEPT !.pc = "announce", !.lock = Granted(q)]
    BY <1>0, <2>1
  <2>3. /\ rd'[q].pc = "announce" /\ rd'[q].lock = Granted(q)
        /\ rd'[q].now = rd[q].now /\ rd'[q].key = rd[q].key
        /\ rd'[q].verb = rd[q].verb
    BY <1>0, <2>1, <2>2 DEF Job
  <2>4. rd'[q] # Idle
    BY <2>3 DEF Idle
  <2> QED
    BY <1>3, <2>1, <2>3, <2>4 DEF JobMoves
<1>4. CASE Release(q)
  <2>1. /\ rd[q] # Idle /\ rd[q].pc = "store" /\ UNCHANGED heard
        /\ rd' = [rd EXCEPT ![q].pc = "announce", ![q].lock = locks[rd[q].key]]
    BY <1>4 DEF Release, At
  <2>2. rd'[q] = [rd[q] EXCEPT !.pc = "announce", !.lock = locks[rd[q].key]]
    BY <1>0, <2>1
  <2>3. /\ rd'[q].pc = "announce" /\ rd'[q].lock = locks[rd[q].key]
        /\ rd'[q].now = rd[q].now /\ rd'[q].key = rd[q].key
        /\ rd'[q].verb = rd[q].verb
    BY <1>0, <2>1, <2>2 DEF Job
  <2>4. rd'[q] # Idle
    BY <2>3 DEF Idle
  <2> QED
    BY <1>4, <2>1, <2>3, <2>4 DEF JobMoves
<1>5. CASE TransformGuard(q)
  <2>1. /\ rd[q] # Idle /\ rd[q].pc = "store" /\ UNCHANGED heard
        /\ rd'[q] = IF BlockedBy(q) THEN Idle
                    ELSE [rd[q] EXCEPT !.pc = "relay"]
    BY <1>0, <1>5 DEF TransformGuard, At
  <2>2. CASE BlockedBy(q)
    BY <2>1, <2>2 DEF JobMoves
  <2>3. CASE ~BlockedBy(q)
    <3>1. /\ rd'[q].pc = "relay"
          /\ rd'[q].now = rd[q].now /\ rd'[q].key = rd[q].key
          /\ rd'[q].verb = rd[q].verb
      BY <1>0, <2>1, <2>3 DEF Job
    <3>2. rd'[q] # Idle
      BY <3>1 DEF Idle
    <3> QED
      BY <1>5, <2>1, <3>1, <3>2 DEF JobMoves
  <2> QED
    BY <2>2, <2>3
<1>6. CASE RequestDenied(q) \/ Renew(q) \/ ReleaseIgnored(q) \/ AnnounceGranted(q)
           \/ AnnounceReleased(q) \/ RelayTransform(q)
  <2>1. rd'[q] = Idle
    BY <1>0, <1>6 DEF RequestDenied, Renew, ReleaseIgnored, AnnounceGranted,
                      AnnounceReleased, RelayTransform
  <2> QED
    BY <2>1 DEF JobMoves
<1>7. CASE UNCHANGED rd
  BY <1>7 DEF JobMoves
<1>11. CASE ReadClock(q)
  <2>1. /\ rd[q] # Idle /\ rd[q].pc = "clock"
        /\ rd'[q] = [rd[q] EXCEPT !.pc = "store", !.now = clock]
    BY <1>0, <1>11 DEF ReadClock
  <2>2. rd'[q].pc = "store" /\ rd'[q].now = clock
    BY <1>0, <2>1 DEF Job
  <2>3. rd'[q] # Idle
    BY <2>2 DEF Idle
  <2> QED
    BY <2>1, <2>2, <2>3 DEF JobMoves
<1>8. ASSUME NEW c \in Conns, Disconnect(c) \/ HandlerExit(c) PROVE UNCHANGED rd
  BY <1>8 DEF Disconnect, HandlerExit, ReleaseConnection, AnnounceEnding, Departed
<1>9. SweeperStep => UNCHANGED rd
  BY DEF SweeperStep, SweepTick, SweepExpired, AnnounceExpired, SweepDone
<1>10. ASSUME NEW r \in Readers, ReaderStep(r) PROVE JobMoves(q)
  BY <1>10, <1>2, <1>3, <1>4, <1>5, <1>6, <1>11 DEF ReaderStep
<1> QED
  BY <1>1, <1>7, <1>8, <1>9, <1>10
  DEF Next, vars, Tick, StartDraining, BeginDrain

\* A peer's picture of a key changes only by a grant's announcement or an end's.
LEMMA NewsChanges ==
    ASSUME StoreInv, [Next]_vars, NEW k \in Key
    PROVE  \/ heard'[k] = heard[k]
           \/ heard'[k] = NoLock
           \/ \E r \in Readers : AnnounceGranted(r) /\ rd[r].key = k
                                 /\ heard'[k] = rd[r].lock
<1>0. heard \in [Key -> BlockLock \cup {NoLock}]
  BY DEF StoreInv, TypeOK
<1>1. ASSUME NEW j, NEW news, Announce(j, news)
      PROVE  heard'[k] = heard[k] \/ (j = k /\ heard'[k] = news)
  BY <1>0, <1>1 DEF Announce
<1>2. ASSUME NEW r \in Readers, ReaderStep(r)
      PROVE  UNCHANGED heard \/ AnnounceGranted(r) \/ AnnounceReleased(r)
  BY <1>2 DEF ReaderStep, ReadClock, RequestDenied, RequestGranted, Renew, Release,
              ReleaseIgnored, TransformGuard, RelayTransform
<1>3. ASSUME NEW r \in Readers, AnnounceGranted(r)
      PROVE  heard'[k] = heard[k] \/ (rd[r].key = k /\ heard'[k] = rd[r].lock)
  BY <1>1, <1>3 DEF AnnounceGranted
<1>4. ASSUME NEW r \in Readers, AnnounceReleased(r)
      PROVE  heard'[k] = heard[k] \/ heard'[k] = NoLock
  BY <1>1, <1>4 DEF AnnounceReleased
<1>5. ASSUME NEW c \in Conns, Disconnect(c) \/ HandlerExit(c)
      PROVE  heard'[k] = heard[k] \/ heard'[k] = NoLock
  BY <1>1, <1>5 DEF Disconnect, HandlerExit, ReleaseConnection, AnnounceEnding, Departed
<1>6. ASSUME SweeperStep PROVE heard'[k] = heard[k] \/ heard'[k] = NoLock
  BY <1>1, <1>6 DEF SweeperStep, SweepTick, SweepExpired, AnnounceExpired, SweepDone
<1> QED
  BY <1>2, <1>3, <1>4, <1>5, <1>6
  DEF Next, vars, Tick, Frame, StartDraining, BeginDrain

\* Time never runs back and a drain never ends.
LEMMA OneWay ==
    ASSUME StoreInv, [Next]_vars
    PROVE  /\ clock' \in Nat /\ clock <= clock'
           /\ drain = "muted" => drain' = "muted"
<1>0. clock \in Nat
  BY DEF StoreInv, TypeOK
<1>1. ASSUME NEW r \in Readers, ReaderStep(r) PROVE UNCHANGED <<clock, drain>>
  BY <1>1 DEF ReaderStep, ReadClock, RequestDenied, RequestGranted, Renew, Release,
              ReleaseIgnored, AnnounceGranted, AnnounceReleased, TransformGuard,
              RelayTransform
<1>2. ASSUME NEW c \in Conns, Disconnect(c) \/ HandlerExit(c)
      PROVE  UNCHANGED <<clock, drain>>
  BY <1>2 DEF Disconnect, HandlerExit, ReleaseConnection, AnnounceEnding, Departed
<1>3. SweeperStep => UNCHANGED <<clock, drain>>
  BY DEF SweeperStep, SweepTick, SweepExpired, AnnounceExpired, SweepDone
<1> QED
  BY <1>0, <1>1, <1>2, <1>3 DEF Next, vars, Tick, Frame, StartDraining, BeginDrain

\* A clock that moves on keeps what has lapsed lapsed.
LEMMA LapsedStays ==
    ASSUME StoreInv, [Next]_vars, NEW lock \in BlockLock, IsExpired(lock, clock)
    PROVE  IsExpired(lock, clock')
<1>1. lock.expires \in Nat /\ clock \in Nat /\ clock' \in Nat /\ clock <= clock'
  BY OneWay DEF BlockLock, StoreInv, TypeOK
<1> QED
  BY <1>1 DEF IsExpired

\* While a WebSocket reader is on its way from Acquire to the announcement only
\* a lapse can take the entry away: nobody else renews, re-acquires or releases
\* for the connection, and its handler cannot return.
LEMMA GrantStep ==
    ASSUME StoreInv, StoreInv', ClocksRead, ExitInv, GrantInv, [Next]_vars
    PROVE  GrantInv'
<1> SUFFICES ASSUME NEW r \in Readers, At(r, "announce", "request")'
             PROVE  /\ rd'[r].lock # NoLock
                    /\ rd'[r].lock.conn = ReaderConn[r]
                    /\ rd'[r].lock.expires = rd'[r].now + LeaseTime
                    /\ ReaderConn[r] \notin WebTransport =>
                          \/ locks'[rd'[r].key] = rd'[r].lock
                          \/ /\ IsExpired(rd'[r].lock, clock')
                             /\ locks'[rd'[r].key] # NoLock =>
                                   locks'[rd'[r].key].conn # ReaderConn[r]
  BY DEF GrantInv
<1> DEFINE k == rd[r].key
           c == ReaderConn[r]
           lock == rd[r].lock
<1>1. rd'[r] # Idle /\ rd'[r].pc = "announce" /\ rd'[r].verb = "request"
  BY DEF At
<1>2. CASE RequestGranted(r)
  <2>1. At(r, "store", "request") /\ locks' = [locks EXCEPT ![k] = Granted(r)]
    BY <1>2 DEF RequestGranted, Granted
  <2>2. k \in Key /\ c \in Conns /\ rd[r].now \in Nat /\ rd[r].lockId \in LockIds
    BY <2>1, JobTyping DEF StoreInv
  <2>3. Granted(r) \in BlockLock /\ Granted(r) # NoLock
    BY <2>2, NumberAssumption, NoLockAssumption DEF Granted, BlockLock
  <2>4. rd[r].pc = "store"
    BY <2>1 DEF At
  <2>5. rd'[r].lock = Granted(r) /\ rd'[r].now = rd[r].now /\ rd'[r].key = k
    <3>1. JobMoves(r)
      BY JobChanges
    <3> QED
      BY <1>1, <1>2, <2>4, <3>1 DEF JobMoves, Release, RequestGranted, At
  <2>6. locks'[k] = Granted(r)
    BY <2>1, <2>2 DEF StoreInv, TypeOK
  <2> QED
    BY <2>3, <2>5, <2>6 DEF Granted
<1>3. CASE ~RequestGranted(r)
  <2>1. rd'[r] = rd[r]
    <3>1. JobMoves(r)
      BY JobChanges
    <3> QED
      BY <1>1, <1>3, <3>1 DEF JobMoves, Release, TransformGuard, At
  <2>2. At(r, "announce", "request")
    BY <1>1, <2>1 DEF At
  <2>3. /\ lock # NoLock /\ lock.conn = c
        /\ lock.expires = rd[r].now + LeaseTime
        /\ c \notin WebTransport =>
              \/ locks[k] = lock
              \/ /\ IsExpired(lock, clock)
                 /\ locks[k] # NoLock => locks[k].conn # c
    BY <2>2 DEF GrantInv
  <2>4. k \in Key /\ lock \in BlockLock /\ c \in Conns
    BY <2>2, <2>3, JobTyping DEF StoreInv
  <2>5. IsExpired(lock, clock) => IsExpired(lock, clock')
    BY <2>4, LapsedStays
  <2>6. ASSUME c \notin WebTransport
        PROVE  \/ locks'[k] = lock
               \/ /\ IsExpired(lock, clock')
                  /\ locks'[k] # NoLock => locks'[k].conn # c
    <3>1. conn[c] = "open"
      BY <2>2, <2>4, <2>6 DEF ExitInv, At
    <3>2. clock \in Nat /\ lock.expires \in Nat /\ sweepNow \in Nat /\ sweepNow <= clock
      BY <2>4 DEF StoreInv, TypeOK, ClocksRead, BlockLock
    <3>3. CASE locks'[k] = locks[k]
      BY <2>3, <2>5, <2>6, <3>3
    <3>4. ASSUME NEW q \in Readers, RequestGranted(q), rd[q].key = k,
                 locks'[k] = Granted(q)
          PROVE  /\ IsExpired(lock, clock')
                 /\ locks'[k] # NoLock => locks'[k].conn # c
      <4>1. q # r
        BY <1>3, <3>4
      <4>2. ReaderConn[q] # c
        BY <2>6, <4>1, ReaderAssumption
      <4>3. locks'[k].conn # c
        BY <3>4, <4>2 DEF Granted
      <4>4. rd[q].now \in Nat /\ rd[q].now <= clock
        <5>1. At(q, "store", "request")
          BY <3>4 DEF RequestGranted
        <5> QED
          BY <5>1, JobTyping DEF StoreInv, ClocksRead, At
      <4>5. locks[k] = lock => IsExpired(lock, rd[q].now)
        BY <2>3, <3>4, <4>2 DEF RequestGranted, HeldByOther, Reacquiring
      <4>6. IsExpired(lock, clock)
        BY <2>3, <2>6, <3>2, <4>4, <4>5 DEF IsExpired
      <4> QED
        BY <2>5, <4>3, <4>6
    <3>5. ASSUME NEW q \in Readers, Renew(q) \/ Release(q), rd[q].key = k, Owns(q),
                 locks'[k] = NoLock \/ locks'[k].conn = locks[k].conn
          PROVE  /\ IsExpired(lock, clock')
                 /\ locks'[k] # NoLock => locks'[k].conn # c
      <4>1. q # r
        BY <2>2, <3>5 DEF Renew, Release, At
      <4>2. ReaderConn[q] # c
        BY <2>6, <4>1, ReaderAssumption
      <4>3. locks[k].conn = ReaderConn[q]
        BY <3>5 DEF Owns
      <4> QED
        BY <2>3, <2>5, <2>6, <3>5, <4>2, <4>3
    <3>6. ASSUME NEW d \in Conns, ReleaseConnection(d), k \in KeysOf(d), locks'[k] = NoLock
          PROVE  IsExpired(lock, clock')
      <4>1. d # c
        BY <3>1, <3>6 DEF ReleaseConnection
      <4> QED
        BY <2>3, <2>5, <2>6, <3>6, <4>1 DEF KeysOf
    <3>7. ASSUME k \in Lapsed(sweepNow), locks'[k] = NoLock
          PROVE  IsExpired(lock, clock')
      <4>1. locks[k] = lock => IsExpired(lock, clock)
        BY <3>2, <3>7 DEF Lapsed, IsExpired
      <4> QED
        BY <2>3, <2>5, <2>6, <4>1
    <3>8. EntryMoves(k)
      BY <2>4, EntryChanges
    <3> QED
      BY <3>3, <3>4, <3>5, <3>6, <3>7, <3>8 DEF EntryMoves
  <2> QED
    BY <2>1, <2>3, <2>6
<1> QED
  BY <1>2, <1>3

\* An announced expiry never lies beyond the stored one: the store's moves on
\* with the reader's later clock reads, and the announcement copies it.
LEMMA HeardAgeStep ==
    ASSUME StoreInv, StoreInv', ClocksRead, ExitInv, GrantInv, HeardAge, [Next]_vars
    PROVE  HeardAge'
<1> SUFFICES ASSUME NEW k \in Key, heard'[k] # NoLock, heard'[k].conn \notin WebTransport
             PROVE  /\ heard'[k].expires <= clock' + LeaseTime
                    /\ \A r \in Readers :
                          Stamped(r)' /\ ReaderConn[r] = heard'[k].conn =>
                             heard'[k].expires <= rd'[r].now + LeaseTime
                    /\ locks'[k] # NoLock /\ locks'[k].conn = heard'[k].conn =>
                          heard'[k].expires <= locks'[k].expires
  BY DEF HeardAge
<1> DEFINE h == heard'[k]
<1>0. /\ h \in BlockLock /\ h.expires \in Nat /\ h.conn \in Conns
      /\ clock \in Nat /\ clock' \in Nat /\ clock <= clock' /\ LeaseTime \in Nat
  BY OneWay, NumberAssumption DEF StoreInv, TypeOK, BlockLock
<1>1. CASE heard'[k] = heard[k]
  <2>1. /\ h.expires <= clock + LeaseTime
        /\ \A r \in Readers : Stamped(r) /\ ReaderConn[r] = h.conn =>
              h.expires <= rd[r].now + LeaseTime
        /\ locks[k] # NoLock /\ locks[k].conn = h.conn => h.expires <= locks[k].expires
    BY <1>1 DEF HeardAge
  <2>2. h.expires <= clock' + LeaseTime
    BY <1>0, <2>1
  <2>3. ASSUME NEW r \in Readers, Stamped(r)', ReaderConn[r] = h.conn
        PROVE  h.expires <= rd'[r].now + LeaseTime
    <3>1. JobMoves(r)
      BY JobChanges
    <3>2. (Stamped(r) /\ rd'[r].now = rd[r].now) \/ rd'[r].now = clock
      BY <2>3, <3>1 DEF JobMoves, Stamped
    <3> QED
      BY <2>1, <2>3, <3>2
  <2>4. ASSUME locks'[k] # NoLock, locks'[k].conn = h.conn
        PROVE  h.expires <= locks'[k].expires
    <3>1. CASE locks'[k] = locks[k]
      BY <2>1, <2>4, <3>1
    <3>2. ASSUME NEW r \in Readers, RequestGranted(r), locks'[k] = Granted(r)
          PROVE  h.expires <= locks'[k].expires
      <4>1. Stamped(r) /\ locks'[k].conn = ReaderConn[r]
            /\ locks'[k].expires = rd[r].now + LeaseTime
        BY <3>2 DEF RequestGranted, At, Granted, Stamped
      <4> QED
        BY <2>1, <2>4, <4>1
    <3>3. ASSUME NEW r \in Readers, Renew(r), rd[r].key = k, Owns(r),
                 locks'[k].conn = locks[k].conn,
                 locks'[k].expires = rd[r].now + LeaseTime
          PROVE  h.expires <= locks'[k].expires
      <4>1. Stamped(r) /\ ReaderConn[r] = h.conn
        BY <2>4, <3>3 DEF Renew, At, Owns, Stamped
      <4> QED
        BY <2>1, <3>3, <4>1
    <3>4. EntryMoves(k)
      BY EntryChanges
    <3> QED
      BY <2>4, <3>1, <3>2, <3>3, <3>4 DEF EntryMoves
  <2> QED
    BY <2>2, <2>3, <2>4
<1>2. ASSUME NEW q \in Readers, AnnounceGranted(q), rd[q].key = k, heard'[k] = rd[q].lock
      PROVE  /\ h.expires <= clock' + LeaseTime
             /\ \A r \in Readers : Stamped(r)' /\ ReaderConn[r] = h.conn =>
                   h.expires <= rd'[r].now + LeaseTime
             /\ locks'[k] # NoLock /\ locks'[k].conn = h.conn =>
                   h.expires <= locks'[k].expires
  <2>1. /\ At(q, "announce", "request") /\ rd[q] # Idle
        /\ UNCHANGED <<locks, clock>>
        /\ rd' = [rd EXCEPT ![q] = Idle]
    BY <1>2 DEF AnnounceGranted, At
  <2>2. /\ h.conn = ReaderConn[q] /\ h.expires = rd[q].now + LeaseTime
        /\ \/ locks[k] = h
           \/ locks[k] # NoLock => locks[k].conn # ReaderConn[q]
    BY <1>2, <2>1 DEF GrantInv
  <2>3. rd[q].now \in Nat /\ rd[q].now <= clock
    BY <2>1, JobTyping DEF StoreInv, ClocksRead
  <2>4. h.expires <= clock' + LeaseTime
    BY <1>0, <2>1, <2>2, <2>3
  <2>5. \A r \in Readers : ReaderConn[r] = h.conn => rd'[r] = Idle
    <3>1. \A r \in Readers : ReaderConn[r] = h.conn => r = q
      BY <2>2, ReaderAssumption
    <3>2. rd'[q] = Idle
      BY <2>1 DEF StoreInv, TypeOK
    <3> QED
      BY <3>1, <3>2
  <2>6. locks'[k] # NoLock /\ locks'[k].conn = h.conn => h.expires <= locks'[k].expires
    BY <1>0, <2>1, <2>2
  <2> QED
    BY <2>4, <2>5, <2>6 DEF Stamped
<1>3. \/ heard'[k] = heard[k]
      \/ \E q \in Readers : AnnounceGranted(q) /\ rd[q].key = k
                            /\ heard'[k] = rd[q].lock
  BY NewsChanges
<1> QED
  BY <1>1, <1>2, <1>3

\* A disconnect fills its list once, on the way from closing to releasing, and
\* the sweep fills its own only after the last one has been announced.
LEMMA ListsFreshStep ==
    ASSUME StoreInv, ListsFresh, [Next]_vars
    PROVE  ListsFresh'
<1>0. /\ conn \in [Conns -> {"open", "closing", "releasing", "gone"}]
      /\ ending \in [Conns -> SUBSET Lease]
  BY DEF StoreInv, TypeOK
<1>1. CASE UNCHANGED <<conn, ending, sweepVars>>
  BY <1>1 DEF ListsFresh
<1>2. ASSUME NEW r \in Readers, ReaderStep(r) PROVE UNCHANGED <<conn, ending, sweepVars>>
  BY <1>2 DEF ReaderStep, ReadClock, RequestDenied, RequestGranted, Renew, Release,
              ReleaseIgnored, AnnounceGranted, AnnounceReleased, TransformGuard,
              RelayTransform
<1>3. ASSUME NEW c \in Conns, Disconnect(c) \/ HandlerExit(c) PROVE ListsFresh'
  <2>1. UNCHANGED sweepVars
    BY <1>3 DEF Disconnect, HandlerExit, ReleaseConnection, AnnounceEnding, Departed
  <2>2. ASSUME NEW d \in Conns, conn'[d] \in {"open", "closing"}
        PROVE  ending'[d] = {}
    <3>1. CASE Disconnect(c)
      BY <1>0, <2>2, <3>1 DEF Disconnect, ListsFresh
    <3>2. CASE ReleaseConnection(c)
      BY <1>0, <2>2, <3>2 DEF ReleaseConnection, ListsFresh
    <3>3. CASE AnnounceEnding(c)
      BY <1>0, <2>2, <3>3 DEF AnnounceEnding, ListsFresh
    <3>4. CASE Departed(c)
      BY <1>0, <2>2, <3>4 DEF Departed, ListsFresh
    <3> QED
      BY <1>3, <3>1, <3>2, <3>3, <3>4 DEF HandlerExit
  <2> QED
    BY <2>1, <2>2 DEF ListsFresh
<1>4. CASE SweeperStep
  BY <1>4 DEF SweeperStep, SweepTick, SweepExpired, AnnounceExpired, SweepDone, ListsFresh
<1> QED
  BY <1>1, <1>2, <1>3, <1>4
  DEF Next, vars, Tick, Frame, StartDraining, BeginDrain

\* The three places where the end of a lease waits for its announcement: a
\* releasing reader, a departing handler's list and the sweep's.
LEMMA EndPlaces ==
    ASSUME NEW k, NEW c
    PROVE  EndDue(k, c) <=>
              \/ \E r \in Readers : /\ At(r, "announce", "release")
                                    /\ rd[r].key = k /\ rd[r].lock.conn = c
              \/ \E d \in Conns : \E e \in ending[d] : e[1] = k /\ e[2].conn = c
              \/ \E e \in swept : e[1] = k /\ e[2].conn = c
<1>1. \A e : e \in (UNION {ending[d] : d \in Conns}) \cup swept
               <=> (\E d \in Conns : e \in ending[d]) \/ e \in swept
  OBVIOUS
<1> QED
  BY <1>1, Zenon DEF EndDue

\* The same of the state after a step.
LEMMA EndPlacesNext ==
    ASSUME NEW k, NEW c
    PROVE  EndDue(k, c)' <=>
              \/ \E r \in Readers : /\ At(r, "announce", "release")'
                                    /\ rd'[r].key = k /\ rd'[r].lock.conn = c
              \/ \E d \in Conns : \E e \in ending'[d] : e[1] = k /\ e[2].conn = c
              \/ \E e \in swept' : e[1] = k /\ e[2].conn = c
<1>1. \A e : e \in ((UNION {ending[d] : d \in Conns}) \cup swept)'
               <=> (\E d \in Conns : e \in ending'[d]) \/ e \in swept'
  OBVIOUS
<1> QED
  BY <1>1, Zenon DEF EndDue

\* An end that is due stays due until the room has been told.
LEMMA EndKept ==
    ASSUME StoreInv, ListsFresh, [Next]_vars, drain # "muted",
           NEW k \in Key, NEW c \in Conns, EndDue(k, c)
    PROVE  EndDue(k, c)' \/ heard'[k] = NoLock
<1>0. /\ conn \in [Conns -> {"open", "closing", "releasing", "gone"}]
      /\ ending \in [Conns -> SUBSET Lease]
      /\ heard \in [Key -> BlockLock \cup {NoLock}]
      /\ rd \in [Readers -> Job \cup {Idle}]
  BY DEF StoreInv, TypeOK
<1>1. ASSUME NEW r \in Readers, At(r, "announce", "release"), rd[r].key = k,
             rd[r].lock.conn = c
      PROVE  EndDue(k, c)' \/ heard'[k] = NoLock
  <2>1. CASE rd'[r] = rd[r]
    BY <1>1, <2>1, EndPlacesNext DEF At
  <2>2. CASE rd'[r] # rd[r]
    <3>1. AnnounceReleased(r)
      <4>1. ASSUME NEW q \in Readers, q # r, ReaderStep(q) PROVE rd'[r] = rd[r]
        BY <1>0, <4>1
        DEF ReaderStep, ReadClock, RequestDenied, RequestGranted, Renew, Release, ReleaseIgnored,
            AnnounceGranted, AnnounceReleased, TransformGuard, RelayTransform
      <4>2. ASSUME ReaderStep(r) PROVE AnnounceReleased(r)
        BY <1>1, <4>2
        DEF ReaderStep, ReadClock, RequestDenied, RequestGranted, Renew, Release, ReleaseIgnored,
            AnnounceGranted, TransformGuard, RelayTransform, At
      <4>3. ASSUME NEW q \in Readers, NEW v \in Verbs, NEW b \in Blocks,
                   NEW i \in LockIds, Frame(q, v, b, i)
            PROVE  rd'[r] = rd[r]
        BY <1>0, <1>1, <4>3 DEF Frame, At
      <4>4. ASSUME NEW d \in Conns, Disconnect(d) \/ HandlerExit(d) PROVE UNCHANGED rd
        BY <4>4 DEF Disconnect, HandlerExit, ReleaseConnection, AnnounceEnding, Departed
      <4>5. SweeperStep => UNCHANGED rd
        BY DEF SweeperStep, SweepTick, SweepExpired, AnnounceExpired, SweepDone
      <4> QED
        BY <2>2, <4>1, <4>2, <4>3, <4>4, <4>5
        DEF Next, vars, Tick, StartDraining, BeginDrain
    <3> QED
      BY <1>0, <1>1, <3>1 DEF AnnounceReleased, Announce
  <2> QED
    BY <2>1, <2>2
<1>2. ASSUME NEW d \in Conns, NEW e \in ending[d], e[1] = k, e[2].conn = c
      PROVE  EndDue(k, c)' \/ heard'[k] = NoLock
  <2>1. CASE e \in ending'[d]
    BY <1>2, <2>1, EndPlacesNext
  <2>2. CASE e \notin ending'[d]
    <3>1. ASSUME NEW b \in Conns, ReleaseConnection(b) PROVE b # d
      BY <1>2, <3>1 DEF ReleaseConnection, ListsFresh
    <3>2. ASSUME NEW b \in Conns, ReleaseConnection(b) PROVE ending'[d] = ending[d]
      BY <1>0, <3>1, <3>2 DEF ReleaseConnection
    <3>3. ASSUME NEW b \in Conns, AnnounceEnding(b) PROVE heard'[k] = NoLock
      <4>1. PICK f \in ending[b] : /\ Announce(f[1], NoLock)
                                   /\ ending' = [ending EXCEPT ![b] = @ \ {f}]
        BY <3>3 DEF AnnounceEnding
      <4>2. f = e
        BY <1>0, <1>2, <2>2, <4>1
      <4> QED
        BY <1>0, <1>2, <4>1, <4>2 DEF Announce
    <3>4. ASSUME NEW b \in Conns, Disconnect(b) \/ HandlerExit(b)
          PROVE  heard'[k] = NoLock
      BY <2>2, <1>2, <3>2, <3>3, <3>4 DEF Disconnect, HandlerExit, Departed
    <3>5. ASSUME NEW r \in Readers, ReaderStep(r) PROVE UNCHANGED ending
      BY <3>5 DEF ReaderStep, ReadClock, RequestDenied, RequestGranted, Renew, Release,
                  ReleaseIgnored, AnnounceGranted, AnnounceReleased, TransformGuard,
                  RelayTransform
    <3>6. SweeperStep => UNCHANGED ending
      BY DEF SweeperStep, SweepTick, SweepExpired, AnnounceExpired, SweepDone
    <3> QED
      BY <1>2, <2>2, <3>4, <3>5, <3>6 DEF Next, vars, Tick, Frame, StartDraining, BeginDrain
  <2> QED
    BY <2>1, <2>2
<1>3. ASSUME NEW e \in swept, e[1] = k, e[2].conn = c
      PROVE  EndDue(k, c)' \/ heard'[k] = NoLock
  <2>1. CASE e \in swept'
    BY <1>3, <2>1, EndPlacesNext
  <2>2. CASE e \notin swept'
    <3>1. ~SweepExpired
      BY <1>3 DEF SweepExpired, ListsFresh
    <3>2. ASSUME AnnounceExpired PROVE heard'[k] = NoLock
      <4>1. PICK f \in swept : Announce(f[1], NoLock) /\ swept' = swept \ {f}
        BY <3>2 DEF AnnounceExpired
      <4>2. f = e
        BY <1>3, <2>2, <4>1
      <4> QED
        BY <1>0, <1>3, <4>1, <4>2 DEF Announce
    <3>3. SweeperStep => heard'[k] = NoLock
      BY <1>3, <2>2, <3>1, <3>2 DEF SweeperStep, SweepTick, SweepDone
    <3>4. ASSUME NEW r \in Readers, ReaderStep(r) PROVE UNCHANGED swept
      BY <3>4 DEF ReaderStep, ReadClock, RequestDenied, RequestGranted, Renew, Release,
                  ReleaseIgnored, AnnounceGranted, AnnounceReleased, TransformGuard,
                  RelayTransform
    <3>5. ASSUME NEW d \in Conns, Disconnect(d) \/ HandlerExit(d) PROVE UNCHANGED swept
      BY <3>5 DEF Disconnect, HandlerExit, ReleaseConnection, AnnounceEnding, Departed
    <3> QED
      BY <1>3, <2>2, <3>3, <3>4, <3>5
      DEF Next, vars, Tick, Frame, StartDraining, BeginDrain
  <2> QED
    BY <2>1, <2>2
<1> QED
  BY <1>1, <1>2, <1>3, EndPlaces

\* What a peer was told stays true through every step: the store gives up an
\* entry only with an announcement due, or to a taker who found it lapsed, and
\* then the announced expiry has passed too.
LEMMA BeliefStep ==
    ASSUME StoreInv, StoreInv', ClocksRead, ExitInv, BeliefInv, [Next]_vars
    PROVE  BeliefSound'
<1> SUFFICES ASSUME drain' # "muted", NEW k \in Key, NEW h, heard'[k] = h, h # NoLock,
                    ~IsExpired(h, clock'), NEW c, h.conn = c, c \notin WebTransport
             PROVE  \/ locks'[k] # NoLock /\ locks'[k].conn = c
                    \/ EndDue(k, c)'
  BY DEF BeliefSound
<1>0. /\ h \in BlockLock /\ h.expires \in Nat /\ c \in Conns
      /\ clock \in Nat /\ drain # "muted"
      /\ locks \in [Key -> BlockLock \cup {NoLock}]
      /\ rd \in [Readers -> Job \cup {Idle}]
      /\ ending \in [Conns -> SUBSET Lease]
  BY OneWay DEF StoreInv, TypeOK, BlockLock
<1>1. ~IsExpired(h, clock)
  BY <1>0, LapsedStays
<1>2. CASE heard'[k] = heard[k]
  <2>1. \/ locks[k] # NoLock /\ locks[k].conn = c
        \/ EndDue(k, c)
    BY <1>0, <1>1, <1>2 DEF BeliefInv, BeliefSound
  <2>2. CASE EndDue(k, c)
    BY <1>0, <2>2, EndKept DEF BeliefInv
  <2>3. CASE locks[k] # NoLock /\ locks[k].conn = c
    <3>0. h.expires <= locks[k].expires /\ locks[k].expires \in Nat
      BY <1>2, <2>3, LockTyping DEF BeliefInv, HeardAge, StoreInv
    <3>1. CASE locks'[k] = locks[k]
      BY <2>3, <3>1
    <3>2. ASSUME NEW r \in Readers, RequestGranted(r), rd[r].key = k,
                 locks'[k] = Granted(r)
          PROVE  locks'[k] # NoLock /\ locks'[k].conn = c
      <4>1. /\ At(r, "store", "request") /\ ~HeldByOther(r)
        BY <3>2 DEF RequestGranted
      <4>2. /\ rd[r].now \in Nat /\ rd[r].now <= clock
            /\ rd[r].lockId \in LockIds /\ ReaderConn[r] \in Conns
        BY <4>1, JobTyping DEF StoreInv, ClocksRead, At
      <4>3. ~IsExpired(locks[k], rd[r].now)
        BY <1>0, <1>1, <3>0, <4>2 DEF IsExpired
      <4>4. Reacquiring(r)
        BY <2>3, <3>2, <4>1, <4>3 DEF HeldByOther
      <4>5. Granted(r) \in BlockLock /\ Granted(r).conn = ReaderConn[r]
        BY <4>2, NumberAssumption DEF Granted, BlockLock
      <4> QED
        BY <2>3, <3>2, <4>4, <4>5, NoLockAssumption DEF Reacquiring
    <3>3. ASSUME NEW r \in Readers, Release(r), rd[r].key = k, Owns(r)
          PROVE  EndDue(k, c)'
      <4>1. JobMoves(r) /\ At(r, "store", "release")
        BY <3>3, JobChanges DEF Release
      <4>2. rd' = [rd EXCEPT ![r].pc = "announce", ![r].lock = locks[rd[r].key]]
        BY <3>3 DEF Release
      <4>3. rd[r] \in Job /\ rd[r].verb = "release"
        BY <4>1, JobTyping DEF StoreInv, At
      <4>4. rd'[r] = [rd[r] EXCEPT !.pc = "announce", !.lock = locks[k]]
        BY <1>0, <3>3, <4>2
      <4>5. /\ rd'[r].pc = "announce" /\ rd'[r].verb = "release"
            /\ rd'[r].key = k /\ rd'[r].lock = locks[k]
        BY <3>3, <4>3, <4>4 DEF Job
      <4>6. rd'[r] # Idle
        BY <4>5 DEF Idle
      <4> QED
        BY <2>3, <4>5, <4>6, EndPlacesNext DEF At
    <3>4. ASSUME NEW d \in Conns, ReleaseConnection(d), k \in KeysOf(d)
          PROVE  EndDue(k, c)'
      <4>1. <<k, locks[k]>> \in ending'[d]
        BY <1>0, <3>4 DEF ReleaseConnection
      <4> QED
        BY <2>3, <4>1, EndPlacesNext
    <3>5. ASSUME SweepExpired, k \in Lapsed(sweepNow) PROVE EndDue(k, c)'
      <4>1. <<k, locks[k]>> \in swept'
        BY <3>5 DEF SweepExpired
      <4> QED
        BY <2>3, <4>1, EndPlacesNext
    <3>6. EntryMoves(k)
      BY EntryChanges
    <3> QED
      BY <2>3, <3>1, <3>2, <3>3, <3>4, <3>5, <3>6 DEF EntryMoves
  <2> QED
    BY <2>1, <2>2, <2>3
<1>3. ASSUME NEW q \in Readers, AnnounceGranted(q), rd[q].key = k, heard'[k] = rd[q].lock
      PROVE  locks'[k] # NoLock /\ locks'[k].conn = c
  <2>1. At(q, "announce", "request") /\ UNCHANGED locks
    BY <1>3 DEF AnnounceGranted
  <2>2. locks[k] = h \/ IsExpired(h, clock)
    BY <1>3, <2>1 DEF BeliefInv, GrantInv
  <2> QED
    BY <1>1, <2>1, <2>2
<1>4. \/ heard'[k] = heard[k]
      \/ \E q \in Readers : AnnounceGranted(q) /\ rd[q].key = k
                            /\ heard'[k] = rd[q].lock
  BY NewsChanges
<1> QED
  BY <1>2, <1>3, <1>4

\* What a staying peer was told about a WebSocket holder is true, for every
\* number of connections, notes and blocks and every lease time: a grant it heard
\* last and whose expiresAt is ahead is in the store, or its end is on the way.
THEOREM BeliefHolds == Spec => []BeliefSound
<1>1. Init => ClocksRead /\ ExitInv /\ BeliefInv
  BY DEF Init, ClocksRead, ExitInv, KeysOf, BeliefInv, GrantInv, HeardAge, ListsFresh,
         BeliefSound, At
<1>2. StoreInv /\ ClocksRead /\ ExitInv /\ BeliefInv /\ [Next]_vars => BeliefInv'
  <2> SUFFICES ASSUME StoreInv, ClocksRead, ExitInv, BeliefInv, [Next]_vars
               PROVE  BeliefInv'
    OBVIOUS
  <2>1. StoreInv'
    BY NextStoreInv
  <2>2. GrantInv /\ HeardAge /\ ListsFresh
    BY DEF BeliefInv
  <2>3. GrantInv' /\ HeardAge' /\ ListsFresh' /\ BeliefSound'
    BY <2>1, <2>2, GrantStep, HeardAgeStep, ListsFreshStep, BeliefStep
  <2> QED
    BY <2>3 DEF BeliefInv
<1>3. BeliefInv => BeliefSound
  BY DEF BeliefInv
<1> QED
  BY <1>1, <1>2, <1>3, InitStoreInv, NextStoreInv, NextClocksRead, NextExitInv, PTL
  DEF Spec

-----------------------------------------------------------------------------
(* The window of the transform guard.                                         *)

\* What the guard let through and nothing has overtaken since: the block is
\* free, the sender's own, or its lease has lapsed by the clock the guard read.
GuardPassed ==
    \A r \in Readers :
        At(r, "relay", "transform") =>
            \/ r \in overtaken
            \/ locks[rd[r].key] = NoLock
            \/ locks[rd[r].key].conn = ReaderConn[r]
            \/ IsExpired(locks[rd[r].key], rd[r].now)

\* A reader stays overtaken until its transform has been relayed.
LEMMA OvertakenStays ==
    ASSUME StoreInv, [Next]_vars, NEW q \in Readers, q \in overtaken, rd'[q] # Idle
    PROVE  q \in overtaken'
<1>0. rd \in [Readers -> Job \cup {Idle}]
  BY DEF StoreInv, TypeOK
<1>1. ASSUME NEW r \in Readers, ReaderStep(r) PROVE q \in overtaken'
  BY <1>0, <1>1 DEF ReaderStep, ReadClock, RequestDenied, RequestGranted, Renew, Release,
                    ReleaseIgnored, AnnounceGranted, AnnounceReleased, TransformGuard,
                    RelayTransform
<1>2. ASSUME NEW c \in Conns, Disconnect(c) \/ HandlerExit(c) PROVE UNCHANGED overtaken
  BY <1>2 DEF Disconnect, HandlerExit, ReleaseConnection, AnnounceEnding, Departed
<1>3. SweeperStep => UNCHANGED overtaken
  BY DEF SweeperStep, SweepTick, SweepExpired, AnnounceExpired, SweepDone
<1> QED
  BY <1>1, <1>2, <1>3 DEF Next, vars, Tick, Frame, StartDraining, BeginDrain

\* A reader reaches the relay only past the guard; from there on a grant on the
\* block overtakes it, and so does the first renewal of a lease that has lapsed
\* by its clock, which can only have an older one.
LEMMA NextGuardPassed == StoreInv /\ GuardPassed /\ [Next]_vars => GuardPassed'
<1> SUFFICES ASSUME StoreInv, GuardPassed, [Next]_vars, NEW q \in Readers,
                    At(q, "relay", "transform")'
             PROVE  \/ q \in overtaken'
                    \/ locks'[rd'[q].key] = NoLock
                    \/ locks'[rd'[q].key].conn = ReaderConn[q]
                    \/ IsExpired(locks'[rd'[q].key], rd'[q].now)
  BY DEF GuardPassed, IsExpired
<1> DEFINE k == rd[q].key
<1>0. rd'[q] # Idle /\ rd'[q].pc = "relay" /\ rd'[q].verb = "transform"
  BY DEF At
<1>1. CASE rd'[q] = rd[q]
  <2>1. At(q, "relay", "transform")
    BY <1>0, <1>1 DEF At
  <2>2. k \in Key /\ rd[q].now \in Nat
    BY <2>1, JobTyping DEF StoreInv
  <2>3. q \in Relaying(k)
    BY <2>1 DEF Relaying
  <2>4. CASE q \in overtaken
    BY <1>0, <2>4, OvertakenStays
  <2>5. CASE locks'[k] = locks[k] \/ locks'[k] = NoLock
    BY <1>1, <2>1, <2>4, <2>5 DEF GuardPassed
  <2>6. ASSUME NEW r \in Readers, RequestGranted(r), rd[r].key = k
        PROVE  q \in overtaken'
    BY <2>3, <2>6 DEF RequestGranted
  <2>7. ASSUME NEW r \in Readers, Renew(r), rd[r].key = k, Renewable(r),
               locks'[k].conn = locks[k].conn, q \notin overtaken
        PROVE  q \in overtaken' \/ locks'[k].conn = ReaderConn[q]
    <3>1. At(r, "store", "renew") /\ locks[k] # NoLock /\ ~IsExpired(locks[k], rd[r].now)
      BY <2>7 DEF Renew, Renewable, Owns
    <3>2. rd[r].now \in Nat /\ locks[k].expires \in Nat
      BY <2>2, <3>1, JobTyping, LockTyping DEF StoreInv
    <3>3. CASE IsExpired(locks[k], rd[q].now)
      <4>1. rd[r].now < rd[q].now
        BY <2>2, <3>1, <3>2, <3>3 DEF IsExpired
      <4> QED
        BY <2>3, <2>7, <4>1 DEF Renew, JudgedLater
    <3> QED
      BY <2>1, <2>7, <3>1, <3>3 DEF GuardPassed
  <2>8. EntryMoves(k)
    BY <2>2, EntryChanges
  <2> QED
    BY <1>1, <2>4, <2>5, <2>6, <2>7, <2>8 DEF EntryMoves
<1>2. CASE rd'[q] # rd[q]
  <2>1. JobMoves(q)
    BY JobChanges
  <2>2. /\ TransformGuard(q) /\ rd'[q].now = rd[q].now /\ rd'[q].key = k
    BY <1>0, <1>2, <2>1 DEF JobMoves, RequestGranted, Release, At
  <2>3. ~BlockedBy(q) /\ UNCHANGED locks
    BY <1>0, <2>2 DEF TransformGuard, StoreInv, TypeOK
  <2> QED
    BY <2>2, <2>3 DEF BlockedBy, HeldByOther, Reacquiring
<1> QED
  BY <1>1, <1>2

\* However late a transform is relayed, and however stale the clocks its guard
\* and the renewals were judged by: a live lease of another connection that it
\* meets was granted, or renewed by an older clock, after the guard looked.
THEOREM TransformGuarded == Spec => []OnlyRacesOverlap
<1>1. Init => ClocksRead /\ GuardPassed
  BY DEF Init, ClocksRead, GuardPassed, At
<1>2. StoreInv /\ ClocksRead /\ GuardPassed => OnlyRacesOverlap
  <2> SUFFICES ASSUME StoreInv, ClocksRead, GuardPassed, NEW r \in Readers,
                      At(r, "relay", "transform"), ~Reacquiring(r),
                      IsLive(rd[r].key), r \notin overtaken
               PROVE  FALSE
    BY DEF OnlyRacesOverlap
  <2>1. /\ rd[r].key \in Key /\ rd[r].now \in Nat /\ rd[r].now <= clock
        /\ locks[rd[r].key] # NoLock /\ locks[rd[r].key].expires \in Nat
        /\ clock \in Nat
    BY JobTyping, LockTyping DEF StoreInv, ClocksRead, At, IsLive, TypeOK
  <2> QED
    BY <2>1 DEF GuardPassed, IsLive, IsExpired, Reacquiring
<1> QED
  BY <1>1, <1>2, InitStoreInv, NextStoreInv, NextClocksRead, NextGuardPassed, PTL
  DEF Spec

-----------------------------------------------------------------------------
(* BlockLocks implements LeaseService.                                        *)

\* A step of the abstract service, or none.
AbstractStep == Leases!Next \/ UNCHANGED Leases!vars

\* A reader that leaves the store is answered: its ask goes, unless another
\* reader of the connection asks the same.
LEMMA AnswerOfStore ==
    ASSUME StoreInv, NEW r \in Readers, AsksIn(r), ~AsksIn(r)',
           \A q \in Readers : q # r => rd'[q] = rd[q]
    PROVE  /\ AskOf(r) \in Asking
           /\ Asking' = Asking \/ Asking' = Asking \ {AskOf(r)}
<1>1. AskOf(r) \in Asking
  BY DEF Asking
<1>2. \A q \in Readers : q # r => (AsksIn(q)' <=> AsksIn(q)) /\ AskOf(q)' = AskOf(q)
  BY DEF AsksIn, AskOf
<1>3. \A x : x \in Asking' <=> \E q \in Readers : q # r /\ AsksIn(q) /\ x = AskOf(q)
  <2>1. \A x : x \in Asking' <=> \E q \in Readers : AsksIn(q)' /\ x = AskOf(q)'
    BY DEF Asking
  <2> QED
    BY <1>2, <2>1
<1>4. \A x : x \in Asking <=> \E q \in Readers : AsksIn(q) /\ x = AskOf(q)
  BY DEF Asking
<1>5. CASE \E q \in Readers : q # r /\ AsksIn(q) /\ AskOf(r) = AskOf(q)
  <2>1. \A x : x \in Asking' <=> x \in Asking
    BY <1>3, <1>4, <1>5
  <2> QED
    BY <1>1, <2>1
<1>6. CASE ~\E q \in Readers : q # r /\ AsksIn(q) /\ AskOf(r) = AskOf(q)
  <2>1. \A x : x \in Asking' <=> x \in Asking \ {AskOf(r)}
    BY <1>3, <1>4, <1>6
  <2> QED
    BY <1>1, <2>1
<1> QED
  BY <1>5, <1>6

\* A step that moves no reader into, out of or inside the store asks nothing.
LEMMA AsksKept ==
    ASSUME \A q \in Readers : (AsksIn(q)' <=> AsksIn(q)) /\ (AsksIn(q) => AskOf(q)' = AskOf(q))
    PROVE  Asking' = Asking
<1>1. \A x : x \in Asking' <=> \E q \in Readers : AsksIn(q)' /\ x = AskOf(q)'
  BY DEF Asking
<1>2. \A x : x \in Asking <=> \E q \in Readers : AsksIn(q) /\ x = AskOf(q)
  BY DEF Asking
<1>3. \A x : x \in Asking' <=> x \in Asking
  BY <1>1, <1>2
<1> QED
  BY <1>3

\* Steps of nobody's reader ask nothing.
LEMMA SameReaders == UNCHANGED rd => Asking' = Asking
BY DEF Asking, AsksIn, AskOf

\* A reader that enters the store asks.
LEMMA AskAdded ==
    ASSUME NEW r \in Readers, ~AsksIn(r), AsksIn(r)', AskOf(r)' = AskOf(r),
           \A q \in Readers : q # r => rd'[q] = rd[q]
    PROVE  Asking' = Asking \cup {AskOf(r)}
<1>1. \A q \in Readers : q # r => (AsksIn(q)' <=> AsksIn(q)) /\ AskOf(q)' = AskOf(q)
  BY DEF AsksIn, AskOf
<1>2. \A x : x \in Asking' <=> \E q \in Readers : AsksIn(q)' /\ x = AskOf(q)'
  BY DEF Asking
<1>3. \A x : x \in Asking <=> \E q \in Readers : AsksIn(q) /\ x = AskOf(q)
  BY DEF Asking
<1>4. \A x : x \in Asking' <=> x \in Asking \/ x = AskOf(r)
  BY <1>1, <1>2, <1>3
<1> QED
  BY <1>4

\* A grant, although judged by an old clock and an extra counter, is one the
\* service allows.
LEMMA GrantImplements ==
    ASSUME StoreInv, ClocksRead, NEW r \in Readers, RequestGranted(r)
    PROVE  AbstractStep
<1> DEFINE k == rd[r].key
           c == ReaderConn[r]
           granted == [lockId |-> rd[r].lockId, conn |-> c,
                       expires |-> rd[r].now + LeaseTime]
<1>1. /\ k \in Key /\ c \in Conns /\ Session[c] \in Sessions
      /\ rd[r].now \in Nat /\ rd[r].now <= clock /\ clock \in Nat
      /\ LeaseTime \in Nat /\ MaxPerSession \in Nat
      /\ locks \in [Key -> BlockLock \cup {NoLock}]
      /\ granted \in BlockLock
  <2>1. /\ k \in Key /\ c \in Conns /\ Session[c] \in Sessions
        /\ rd[r].now \in Nat /\ rd[r].now <= clock /\ clock \in Nat
        /\ rd[r].lockId \in LockIds
    BY JobTyping DEF RequestGranted, StoreInv, ClocksRead, At, TypeOK
  <2> QED
    BY <2>1, NumberAssumption DEF BlockLock, StoreInv, TypeOK
<1>2. locks' = [locks EXCEPT ![k] = granted] /\ UNCHANGED <<clock, conn>>
  BY DEF RequestGranted
<1>3. Leases!FreeFor(k, c)
  <2>1. locks[k] # NoLock => locks[k].expires \in Nat
    BY <1>1, LockTyping DEF StoreInv
  <2> QED
    BY <1>1, <2>1
    DEF RequestGranted, HeldByOther, Reacquiring, IsExpired,
        Leases!FreeFor, Leases!Lapsed
<1>4. Leases!WithinCeiling(k, c)
  <2>1. Leases!HeldBy(Session[c]) = LeasesOf(Session[c])
    BY DEF Leases!HeldBy, LeasesOf, SessionOf
  <2>2. /\ perSession[Session[c]] = Cardinality(Leases!HeldBy(Session[c]))
        /\ perSession[Session[c]] \in Nat
    BY <1>1, <2>1 DEF StoreInv, CounterExact, TypeOK
  <2>3. \/ MaxPerSession = 0
        \/ locks[k] # NoLock /\ locks[k].conn = c
        \/ perSession[Session[c]] < MaxPerSession
    BY <1>1, <2>2 DEF RequestGranted, TooManyLocks, Reacquiring
  <2>4. Leases!Cardinality(Leases!HeldBy(Session[c]))
           = Cardinality(Leases!HeldBy(Session[c]))
    BY DEF Leases!Cardinality, Cardinality, Leases!IsFiniteSet, IsFiniteSet
  <2> HIDE DEF k, c
  <2> QED
    BY <2>2, <2>3, <2>4 DEF Leases!WithinCeiling
<1>5. Leases!Lasts(k, c)
  <2>1. locks'[k] = granted /\ granted # NoLock
    BY <1>1, <1>2, NoLockAssumption
  <2> QED
    BY <1>1, <2>1 DEF Leases!Lasts
<1>6. Leases!OnlyChanged({k})
  BY <1>1, <1>2 DEF Leases!OnlyChanged
<1>8. Leases!Answered(c, k, "request")
  <2>1. At(r, "store", "request")
    BY DEF RequestGranted
  <2>2. AsksIn(r) /\ AskOf(r) = <<c, k, "request">>
    BY <2>1 DEF At, AsksIn, AskOf
  <2>3. ~AsksIn(r)' /\ \A q \in Readers : q # r => rd'[q] = rd[q]
    <3>1. rd[r] \in Job
      BY <2>1, JobTyping DEF StoreInv
    <3>2. rd'[r].pc = "announce"
      BY <3>1 DEF RequestGranted, StoreInv, TypeOK, Job
    <3> QED
      BY <3>2 DEF RequestGranted, StoreInv, TypeOK, AsksIn
  <2> QED
    BY <2>2, <2>3, AnswerOfStore DEF Leases!Answered
<1>7. Leases!Grant(c, k)
  BY <1>2, <1>3, <1>4, <1>5, <1>6, <1>8 DEF Leases!Grant
<1> QED
  BY <1>1, <1>7 DEF AbstractStep, Leases!Next

\* A renewal lasts no longer than a lease from now, whatever clock it used.
LEMMA RenewImplements ==
    ASSUME StoreInv, ClocksRead, NEW r \in Readers, Renew(r)
    PROVE  AbstractStep
<1> DEFINE k == rd[r].key
           c == ReaderConn[r]
<1>1. UNCHANGED <<clock, conn>>
  BY DEF Renew
<1>2. k \in Key /\ c \in Conns /\ At(r, "store", "renew")
  BY JobTyping DEF Renew, StoreInv
<1>3. Leases!Answered(c, k, "renew")
  BY <1>2, AnswerOfStore
  DEF Renew, At, AsksIn, AskOf, Leases!Answered, StoreInv, TypeOK
<1>4. CASE ~Renewable(r)
  <2>1. Leases!Refuse(c, k, "renew")
    BY <1>1, <1>3, <1>4 DEF Renew, Leases!Refuse
  <2> QED
    BY <1>2, <2>1 DEF AbstractStep, Leases!Next
<1>5. CASE Renewable(r)
  <2> DEFINE old == locks[k]
             new == [old EXCEPT !.expires = rd[r].now + LeaseTime]
  <2>1. /\ rd[r].now \in Nat /\ rd[r].now <= clock /\ clock \in Nat
        /\ LeaseTime \in Nat
        /\ locks \in [Key -> BlockLock \cup {NoLock}]
        /\ old # NoLock /\ old \in BlockLock /\ old.conn = c
    BY <1>2, <1>5, JobTyping, LockTyping, NumberAssumption
    DEF StoreInv, ClocksRead, At, TypeOK, Renewable, Owns
  <2>2. /\ new \in BlockLock /\ new.conn = c
        /\ new.expires = rd[r].now + LeaseTime
    BY <2>1 DEF BlockLock
  <2>3. locks' = [locks EXCEPT ![k] = new]
    BY <1>5 DEF Renew
  <2>4. Leases!Lasts(k, c)
    BY <1>2, <2>1, <2>2, <2>3, NoLockAssumption DEF Leases!Lasts
  <2>5. Leases!OnlyChanged({k})
    BY <2>1, <2>3 DEF Leases!OnlyChanged
  <2>6. Leases!Renew(c, k)
    BY <1>1, <1>3, <2>1, <2>4, <2>5 DEF Leases!Renew
  <2> QED
    BY <1>2, <2>6 DEF AbstractStep, Leases!Next
<1> QED
  BY <1>4, <1>5

\* What a reader at "clock" or past the store does is no business of the
\* service's; a refusal only answers.
LEMMA ReaderImplements ==
    ASSUME StoreInv, NEW r \in Readers,
           \/ ReadClock(r) \/ RequestDenied(r) \/ ReleaseIgnored(r)
           \/ AnnounceGranted(r) \/ AnnounceReleased(r)
           \/ TransformGuard(r) \/ RelayTransform(r)
    PROVE  AbstractStep
<1> DEFINE k == rd[r].key
           c == ReaderConn[r]
<1>0. /\ rd \in [Readers -> Job \cup {Idle}]
      /\ UNCHANGED <<clock, locks, conn>>
      /\ \A q \in Readers : q # r => rd'[q] = rd[q]
  BY DEF StoreInv, TypeOK, ReadClock, RequestDenied, ReleaseIgnored, AnnounceGranted,
         AnnounceReleased, TransformGuard, RelayTransform
<1>1. ASSUME NEW verb \in {"request", "release"}, At(r, "store", verb), rd'[r] = Idle
      PROVE  AbstractStep
  <2>1. k \in Key /\ c \in Conns
    BY <1>1, JobTyping DEF StoreInv
  <2>2. Leases!Answered(c, k, verb)
    BY <1>0, <1>1, AnswerOfStore DEF At, AsksIn, AskOf, Leases!Answered
  <2>3. Leases!Refuse(c, k, verb)
    BY <1>0, <2>2 DEF Leases!Refuse
  <2> QED
    BY <2>1, <2>3 DEF AbstractStep, Leases!Next
<1>2. CASE RequestDenied(r) \/ ReleaseIgnored(r)
  BY <1>0, <1>1, <1>2 DEF RequestDenied, ReleaseIgnored
<1>3. ASSUME ~AsksIn(r), ~AsksIn(r)' PROVE AbstractStep
  <2>1. Asking' = Asking
    BY <1>0, <1>3, AsksKept DEF AsksIn, AskOf
  <2> QED
    BY <1>0, <2>1 DEF AbstractStep, Leases!vars
<1>4. CASE AnnounceGranted(r) \/ AnnounceReleased(r) \/ RelayTransform(r)
  <2>1. rd[r].pc # "store" /\ rd'[r] = Idle
    BY <1>0, <1>4 DEF AnnounceGranted, AnnounceReleased, RelayTransform, At
  <2> QED
    BY <1>3, <2>1 DEF AsksIn
<1>5. CASE TransformGuard(r)
  <2>1. /\ rd[r] \in Job /\ rd[r].verb = "transform"
        /\ rd'[r] = Idle \/ rd'[r] = [rd[r] EXCEPT !.pc = "relay"]
    BY <1>0, <1>5 DEF TransformGuard, At
  <2>2. rd'[r] = Idle \/ rd'[r].pc = "relay"
    BY <2>1 DEF Job
  <2> QED
    BY <1>3, <2>1, <2>2 DEF AsksIn
<1>6. CASE ReadClock(r)
  <2>1. /\ rd[r] \in Job /\ rd[r].pc = "clock"
        /\ rd'[r] = [rd[r] EXCEPT !.pc = "store", !.now = clock]
    BY <1>0, <1>6 DEF ReadClock
  <2>2. /\ rd'[r].pc = "store" /\ rd'[r].verb = rd[r].verb /\ rd'[r].key = k
        /\ k \in Key /\ c \in Conns
    BY <2>1, ConnAssumption DEF Job
  <2>3. ~AsksIn(r)
    BY <2>1 DEF AsksIn
  <2>4. CASE ~AsksIn(r)'
    BY <1>3, <2>3, <2>4
  <2>5. CASE AsksIn(r)'
    <3>1. rd[r].verb \in {"request", "renew", "release"} /\ AskOf(r)' = AskOf(r)
      BY <2>2, <2>5 DEF AsksIn, AskOf
    <3>2. Asking' = Asking \cup {AskOf(r)}
      BY <1>0, <2>3, <2>5, <3>1, AskAdded
    <3>3. Leases!Ask(c, k, rd[r].verb)
      BY <1>0, <3>2 DEF AskOf, Leases!Ask
    <3> QED
      BY <2>2, <3>1, <3>3 DEF AbstractStep, Leases!Next
  <2> QED
    BY <2>4, <2>5
<1> QED
  BY <1>2, <1>4, <1>5, <1>6

\* The other steps that touch the store end leases the service lets end.
LEMMA EndImplements ==
    ASSUME StoreInv, ClocksRead,
           \/ \E r \in Readers : Release(r)
           \/ \E c \in Conns : ReleaseConnection(c)
           \/ SweepExpired
    PROVE  AbstractStep
<1>0. locks \in [Key -> BlockLock \cup {NoLock}]
  BY DEF StoreInv, TypeOK
<1>1. ASSUME NEW r \in Readers, Release(r) PROVE AbstractStep
  <2> DEFINE k == rd[r].key
             c == ReaderConn[r]
  <2>1. /\ k \in Key /\ c \in Conns /\ rd[r] \in Job
        /\ locks[k] # NoLock /\ locks[k].conn = c
    BY <1>1, JobTyping DEF Release, Owns, StoreInv
  <2>2. locks' = [locks EXCEPT ![k] = NoLock]
    BY <1>0, <1>1, <2>1 DEF Release, Remove
  <2>4. Leases!Answered(c, k, "release")
    <3>1. AsksIn(r) /\ AskOf(r) = <<c, k, "release">>
      BY <1>1 DEF Release, At, AsksIn, AskOf
    <3>2. rd'[r].pc = "announce" /\ \A q \in Readers : q # r => rd'[q] = rd[q]
      BY <1>1, <2>1 DEF Release, StoreInv, TypeOK, Job
    <3>3. ~AsksIn(r)'
      BY <3>2 DEF AsksIn
    <3> QED
      BY <3>1, <3>2, <3>3, AnswerOfStore DEF Leases!Answered
  <2>3. Leases!Release(c, k)
    BY <1>1, <2>1, <2>2, <2>4 DEF Leases!Release, Release
  <2> QED
    BY <2>1, <2>3 DEF AbstractStep, Leases!Next
<1>2. ASSUME NEW c \in Conns, ReleaseConnection(c) PROVE AbstractStep
  <2>1. locks' = [k \in Key |-> IF locks[k] # NoLock /\ locks[k].conn = c
                                THEN NoLock ELSE locks[k]]
    BY <1>2 DEF ReleaseConnection, Remove, KeysOf
  <2>2. /\ conn[c] = "closing"
        /\ {d \in Conns : conn'[d] # "open"} = {d \in Conns : conn[d] # "open"}
    BY <1>2 DEF ReleaseConnection, StoreInv, TypeOK
  <2>4. Asking' = Asking
    BY <1>2, SameReaders DEF ReleaseConnection
  <2>3. Leases!Forfeit(c)
    BY <1>2, <2>1, <2>2, <2>4 DEF Leases!Forfeit, ReleaseConnection
  <2> QED
    BY <2>3 DEF AbstractStep, Leases!Next
<1>3. ASSUME SweepExpired PROVE AbstractStep
  <2>1. \A k \in Key : locks'[k] = IF k \in Lapsed(sweepNow) THEN NoLock ELSE locks[k]
    BY <1>3 DEF SweepExpired, Remove
  <2>2. \A k \in Key : k \in Lapsed(sweepNow) => clock >= locks[k].expires
    BY LockTyping DEF Lapsed, IsExpired, ClocksRead, StoreInv, TypeOK
  <2>4. Asking' = Asking
    BY <1>3, SameReaders DEF SweepExpired
  <2>3. Leases!Lapse
    BY <1>3, <2>1, <2>2, <2>4 DEF Leases!Lapse, Leases!Lapsed, SweepExpired
  <2> QED
    BY <2>3 DEF AbstractStep, Leases!Next
<1> QED
  BY <1>1, <1>2, <1>3

\* Every step of the arbiter is a step of the service or invisible to it.
LEMMA StepImplements ==
    ASSUME StoreInv, ClocksRead, [Next]_vars
    PROVE  AbstractStep
<1>1. CASE Tick
  BY <1>1, SameReaders DEF Tick, AbstractStep, Leases!Next, Leases!Tick
<1>2. ASSUME NEW c \in Conns, Disconnect(c) PROVE AbstractStep
  <2>1. {d \in Conns : conn'[d] # "open"} = {d \in Conns : conn[d] # "open"} \cup {c}
    BY <1>2 DEF Disconnect, StoreInv, TypeOK
  <2>2. Leases!Depart(c)
    BY <1>2, <2>1, SameReaders DEF Leases!Depart, Disconnect
  <2> QED
    BY <2>2 DEF AbstractStep, Leases!Next
<1>3. ASSUME NEW c \in Conns, Departed(c) PROVE AbstractStep
  <2>1. {d \in Conns : conn'[d] # "open"} = {d \in Conns : conn[d] # "open"}
    BY <1>3 DEF Departed, StoreInv, TypeOK
  <2> QED
    BY <1>3, <2>1, SameReaders DEF AbstractStep, Leases!vars, Departed
<1>4. ASSUME UNCHANGED <<clock, locks, conn, rd>> PROVE AbstractStep
  BY <1>4, SameReaders DEF AbstractStep, Leases!vars
<1>5. ASSUME NEW r \in Readers, NEW v \in Verbs, NEW b \in Blocks,
             NEW i \in LockIds, Frame(r, v, b, i)
      PROVE  AbstractStep
  <2>1. /\ ~AsksIn(r)
        /\ \A q \in Readers : q # r => rd'[q] = rd[q]
        /\ rd'[r].pc = "clock"
    BY <1>5 DEF Frame, AsksIn, StoreInv, TypeOK
  <2>2. Asking' = Asking
    BY <2>1, AsksKept DEF AsksIn, AskOf
  <2> QED
    BY <1>5, <2>2 DEF Frame, AbstractStep, Leases!vars
<1>6. ASSUME NEW r \in Readers, ReaderStep(r) PROVE AbstractStep
  BY <1>6, GrantImplements, RenewImplements, EndImplements, ReaderImplements
  DEF ReaderStep
<1>7. ASSUME NEW c \in Conns, HandlerExit(c) PROVE AbstractStep
  BY <1>3, <1>4, <1>7, EndImplements DEF HandlerExit, AnnounceEnding
<1>8. CASE SweeperStep
  BY <1>4, <1>8, EndImplements DEF SweeperStep, SweepTick, AnnounceExpired, SweepDone
<1> QED
  BY <1>1, <1>2, <1>4, <1>5, <1>6, <1>7, <1>8 DEF Next, vars, StartDraining, BeginDrain

\* BlockLocks implements LeaseService, for every number of connections, blocks
\* and readers, every lease time and every ceiling.
THEOREM LeasesImplemented == Spec => ImplementsLeases
<1>1. Init => ClocksRead /\ Leases!Init
  BY DEF Init, ClocksRead, Leases!Init, Asking, AsksIn
<1>2. StoreInv /\ ClocksRead /\ [Next]_vars => [Leases!Next]_(Leases!vars)
  BY StepImplements DEF AbstractStep
<1> QED
  BY <1>1, <1>2, InitStoreInv, NextStoreInv, NextClocksRead, PTL
  DEF Spec, ImplementsLeases, Leases!Spec
=============================================================================
