------------------------ MODULE OutboundQueues_proofs ------------------------
(***************************************************************************)
(* OutboundQueues for every number of senders, streams and frames, every   *)
(* capacity and every batch size: the reliable channel and its wake-ups,   *)
(* the shutdown poll, the coalescing queue and the drop counters.          *)
(*                                                                         *)
(* The counters need what FiniteSetsExt's MapThenSumSet computes.  It is a *)
(* recursive function on the subsets of a finite set: the first lemmas     *)
(* show that the recursion has one solution, and what a change of one      *)
(* summand does to the sum, by the smallest subset for which it would fail. *)
(***************************************************************************)
EXTENDS OutboundQueues, FiniteSetTheorems, WellFoundedInduction, SequenceTheorems, TLAPS

-----------------------------------------------------------------------------
(* Sums *)

\* The element that the recursion takes out of s.
Chosen(s) == CHOOSE x \in s : TRUE

\* The parts of a set, and those of at most n elements.
Parts(S) == SUBSET S
UpTo(S, n) == {s \in Parts(S) : Cardinality(s) <= n}

\* The recursion of MapThenSumSet for the summands f, over the subsets T.
Summed(f, T, it) ==
    [s \in T |-> IF s = {} THEN 0 ELSE f[Chosen(s)] + it[s \ {Chosen(s)}]]

\* It is a solution of that recursion on all parts of S.
Solves(it, f, S) == it = Summed(f, Parts(S), it)

\* The sum of f over S.
Total(f, S) == (CHOOSE it : Solves(it, f, S))[S]

\* The summands are integers.
Summands(f, S) == \A x \in S : f[x] \in Int

\* g differs from f at k alone, by d.
Raised(g, f, S, k, d) ==
    /\ \A x \in S : x # k => g[x] = f[x]
    /\ k \in S => g[k] = f[k] + d

\* At the part r, jt is what it is, and d more if k is in r.
Follows(jt, it, r, k, d) ==
    /\ k \in r => jt[r] = it[r] + d
    /\ k \notin r => jt[r] = it[r]

\* Every non-empty set of sizes has a smallest.
LEMMA LeastNat ==
    ASSUME NEW T \in SUBSET Nat, T # {}
    PROVE  \E m \in T : \A y \in T : m <= y
<1>1. PICK m \in T : \A y \in T : ~(<<y, m>> \in OpToRel(<, Nat))
  BY NatLessThanWellFounded, WFMin, Zenon
<1>2. \A y \in T : ~(y < m)
  BY <1>1 DEF OpToRel
<1> QED
  BY <1>2

\* Taking an element out of a finite set makes it smaller by one.
LEMMA Smaller ==
    ASSUME NEW S, IsFiniteSet(S), NEW s \in Parts(S), s # {}
    PROVE  /\ Chosen(s) \in s /\ Chosen(s) \in S
           /\ s \ {Chosen(s)} \in Parts(S)
           /\ Cardinality(s) \in Nat
           /\ Cardinality(s \ {Chosen(s)}) \in Nat
           /\ Cardinality(s \ {Chosen(s)}) = Cardinality(s) - 1
<1>1. Chosen(s) \in s
  BY DEF Chosen
<1>2. IsFiniteSet(s)
  BY FS_Subset DEF Parts
<1>3. IsFiniteSet(s \ {Chosen(s)}) /\ Cardinality(s \ {Chosen(s)}) = Cardinality(s) - 1
  BY <1>1, <1>2, FS_RemoveElement
<1>4. Cardinality(s) \in Nat /\ Cardinality(s \ {Chosen(s)}) \in Nat
  BY <1>2, <1>3, FS_CardinalityType
<1> QED
  BY <1>1, <1>3, <1>4 DEF Parts

\* On the subsets of a finite set the recursion has a solution.
LEMMA SummedExists ==
    ASSUME NEW S, IsFiniteSet(S), NEW f, Summands(f, S)
    PROVE  \E it \in [Parts(S) -> Int] : Solves(it, f, S)
<1> DEFINE Solved(n) == \E it \in [UpTo(S, n) -> Int] : it = Summed(f, UpTo(S, n), it)
           Bad == {n \in Nat : ~Solved(n)}
<1>1. Solved(0)
  <2> DEFINE it == [s \in UpTo(S, 0) |-> 0]
  <2>1. ASSUME NEW s \in UpTo(S, 0) PROVE s = {}
    <3>1. s \in Parts(S) /\ Cardinality(s) <= 0 /\ IsFiniteSet(s)
      BY FS_Subset DEF UpTo, Parts
    <3>2. Cardinality(s) \in Nat
      BY <3>1, FS_CardinalityType
    <3> QED
      BY <3>1, <3>2, FS_EmptySet
  <2>2. it \in [UpTo(S, 0) -> Int] /\ it = Summed(f, UpTo(S, 0), it)
    BY <2>1 DEF Summed
  <2> QED
    BY <2>2
<1>2. ASSUME NEW n \in Nat, Solved(n) PROVE Solved(n + 1)
  <2>1. PICK it \in [UpTo(S, n) -> Int] : it = Summed(f, UpTo(S, n), it)
    BY <1>2
  <2> DEFINE jt == Summed(f, UpTo(S, n + 1), it)
  <2>2. ASSUME NEW s \in UpTo(S, n + 1), s # {}
        PROVE  /\ s \ {Chosen(s)} \in UpTo(S, n)
               /\ s \ {Chosen(s)} \in UpTo(S, n + 1)
               /\ f[Chosen(s)] \in Int
               /\ it[s \ {Chosen(s)}] \in Int
    <3>1. s \in Parts(S) /\ Cardinality(s) <= n + 1
      BY DEF UpTo
    <3>2. /\ Chosen(s) \in S /\ s \ {Chosen(s)} \in Parts(S)
          /\ Cardinality(s) \in Nat
          /\ Cardinality(s \ {Chosen(s)}) = Cardinality(s) - 1
      BY <2>2, <3>1, Smaller
    <3>3. Cardinality(s \ {Chosen(s)}) <= n /\ Cardinality(s \ {Chosen(s)}) <= n + 1
      BY <3>1, <3>2
    <3> QED
      BY <2>1, <3>2, <3>3 DEF UpTo, Summands
  <2>3. jt \in [UpTo(S, n + 1) -> Int]
    BY <2>2 DEF Summed
  <2>4. ASSUME NEW s \in UpTo(S, n) PROVE jt[s] = it[s]
    <3>1. s \in UpTo(S, n + 1)
      <4>1. s \in Parts(S) /\ Cardinality(s) <= n /\ Cardinality(s) \in Nat
        BY FS_Subset, FS_CardinalityType DEF UpTo, Parts
      <4> QED
        BY <4>1 DEF UpTo
    <3>2. jt[s] = IF s = {} THEN 0 ELSE f[Chosen(s)] + it[s \ {Chosen(s)}]
      BY <3>1 DEF Summed
    <3>3. it[s] = IF s = {} THEN 0 ELSE f[Chosen(s)] + it[s \ {Chosen(s)}]
      BY <2>1 DEF Summed
    <3> QED
      BY <3>2, <3>3
  <2>5. jt = Summed(f, UpTo(S, n + 1), jt)
    <3>1. \A s \in UpTo(S, n + 1) :
             s # {} => jt[s \ {Chosen(s)}] = it[s \ {Chosen(s)}]
      BY <2>2, <2>4
    <3> HIDE DEF jt
    <3>2. Summed(f, UpTo(S, n + 1), jt) = Summed(f, UpTo(S, n + 1), it)
      BY <3>1 DEF Summed
    <3> QED
      BY <3>2 DEF jt
  <2> QED
    BY <2>3, <2>5
<1> HIDE DEF Solved
<1>3. \A n \in Nat : Solved(n)
  <2> SUFFICES ASSUME Bad # {} PROVE FALSE
    OBVIOUS
  <2>1. PICK m \in Bad : \A y \in Bad : m <= y
    <3>1. Bad \in SUBSET Nat
      OBVIOUS
    <3> QED
      BY <3>1, LeastNat
  <2>2. m \in Nat /\ ~Solved(m)
    BY <2>1
  <2>3. m # 0
    BY <1>1, <2>2
  <2>4. m - 1 \in Nat /\ (m - 1) + 1 = m /\ ~(m <= m - 1)
    BY <2>2, <2>3
  <2>5. Solved(m - 1)
    BY <2>1, <2>4
  <2> QED
    BY <1>2, <2>2, <2>4, <2>5
<1>4. Cardinality(S) \in Nat /\ UpTo(S, Cardinality(S)) = Parts(S)
  BY FS_CardinalityType, FS_Subset DEF UpTo, Parts
<1>5. Solved(Cardinality(S))
  BY <1>3, <1>4
<1> QED
  BY <1>4, <1>5 DEF Solved, Solves

\* Two solutions that belong to summands differing at k alone, by d, differ by d
\* on the subsets with k and not at all on the others.
LEMMA SummedDiffer ==
    ASSUME NEW S, IsFiniteSet(S), NEW k, NEW d \in Int,
           NEW f, Summands(f, S),
           NEW g, Raised(g, f, S, k, d),
           NEW it \in [Parts(S) -> Int], Solves(it, f, S),
           NEW jt, Solves(jt, g, S), NEW r \in Parts(S)
    PROVE  Follows(jt, it, r, k, d)
<1> DEFINE Right(s) == /\ k \in s => jt[s] = it[s] + d
                       /\ k \notin s => jt[s] = it[s]
           Bad == {n \in Nat : \E s \in Parts(S) : Cardinality(s) = n /\ ~Right(s)}
<1>0. ASSUME NEW s \in Parts(S)
      PROVE  /\ it[s] = IF s = {} THEN 0 ELSE f[Chosen(s)] + it[s \ {Chosen(s)}]
             /\ jt[s] = IF s = {} THEN 0 ELSE g[Chosen(s)] + jt[s \ {Chosen(s)}]
  BY DEF Summed, Solves
<1>1. ASSUME NEW s \in Parts(S), s # {}, Right(s \ {Chosen(s)}) PROVE Right(s)
  <2>1. Chosen(s) \in s /\ Chosen(s) \in S /\ s \ {Chosen(s)} \in Parts(S)
    BY <1>1, Smaller
  <2> DEFINE x == Chosen(s)
             q == s \ {Chosen(s)}
  <2>2. /\ it[q] \in Int /\ f[x] \in Int
        /\ x = k => g[x] = f[x] + d
        /\ x # k => g[x] = f[x]
    BY <2>1 DEF Summands, Raised
  <2>3. it[s] = f[x] + it[q] /\ jt[s] = g[x] + jt[q]
    BY <1>0, <1>1
  <2>4. (k \in q => jt[q] = it[q] + d) /\ (k \notin q => jt[q] = it[q])
    BY <1>1
  <2>5. k \in s <=> (k \in q \/ x = k)
    BY <2>1
  <2>6. x \notin q
    OBVIOUS
  <2> HIDE DEF x, q
  <2>7. (k \in s => jt[s] = it[s] + d) /\ (k \notin s => jt[s] = it[s])
    <3>1. CASE x = k
      BY <2>2, <2>3, <2>4, <2>5, <2>6, <3>1
    <3>2. CASE x # k
      BY <2>2, <2>3, <2>4, <2>5, <3>2
    <3> QED
      BY <3>1, <3>2
  <2> QED
    BY <2>7
<1>2. Right({})
  <2>1. {} \in Parts(S) /\ it[{}] = 0 /\ jt[{}] = 0 /\ k \notin {}
    BY <1>0 DEF Parts
  <2> QED
    BY <2>1
<1> HIDE DEF Right
<1>3. Bad = {}
  <2> SUFFICES ASSUME Bad # {} PROVE FALSE
    OBVIOUS
  <2>1. PICK m \in Bad : \A y \in Bad : m <= y
    <3>1. Bad \in SUBSET Nat
      OBVIOUS
    <3> QED
      BY <3>1, LeastNat
  <2>2. PICK s \in Parts(S) : Cardinality(s) = m /\ ~Right(s)
    BY <2>1
  <2>3. s # {}
    BY <1>2, <2>2
  <2>4. /\ s \ {Chosen(s)} \in Parts(S) /\ Cardinality(s \ {Chosen(s)}) \in Nat
        /\ Cardinality(s \ {Chosen(s)}) = m - 1 /\ m \in Nat
    BY <2>2, <2>3, Smaller
  <2>5. Right(s \ {Chosen(s)})
    BY <2>1, <2>4
  <2> QED
    BY <1>1, <2>2, <2>3, <2>5
<1>4. Right(r)
  <2>1. Cardinality(r) \in Nat
    BY FS_Subset, FS_CardinalityType DEF Parts
  <2> QED
    BY <1>3, <2>1
<1> QED
  BY <1>4 DEF Right, Follows

\* So the recursion has one solution.
LEMMA SummedUnique ==
    ASSUME NEW S, IsFiniteSet(S), NEW f, Summands(f, S),
           NEW it \in [Parts(S) -> Int], Solves(it, f, S),
           NEW jt, Solves(jt, f, S)
    PROVE  jt = it
<1>1. PICK k : k \notin S
  <2>1. {x \in S : x \notin x} \notin S
    OBVIOUS
  <2> QED
    BY <2>1
<1>2. Raised(f, f, S, k, 0) /\ 0 \in Int
  BY <1>1 DEF Raised
<1>4. ASSUME NEW s \in Parts(S) PROVE jt[s] = it[s]
  <2>1. k \notin s
    BY <1>1 DEF Parts
  <2>2. Follows(jt, it, s, k, 0)
    BY <1>2, SummedDiffer
  <2> QED
    BY <2>1, <2>2 DEF Follows
<1>5. jt = [s \in Parts(S) |-> jt[s]] /\ it = [s \in Parts(S) |-> it[s]]
  BY DEF Summed, Solves
<1> QED
  BY <1>4, <1>5

\* The sum is the value of that solution at the whole set.
LEMMA TotalIs ==
    ASSUME NEW S, IsFiniteSet(S), NEW f, Summands(f, S)
    PROVE  \E it \in [Parts(S) -> Int] :
              /\ Solves(it, f, S)
              /\ \A jt : Solves(jt, f, S) => jt = it
              /\ Total(f, S) = it[S]
<1>1. PICK it \in [Parts(S) -> Int] : Solves(it, f, S)
  BY SummedExists
<1>2. \A jt : Solves(jt, f, S) => jt = it
  BY <1>1, SummedUnique
<1>3. (CHOOSE jt : Solves(jt, f, S)) = it
  BY <1>1, <1>2, Zenon
<1>4. Total(f, S) = it[S]
  BY <1>3, Zenon DEF Total
<1> QED
  BY <1>1, <1>2, <1>4

\* What the sum of g over S is then: d more than that of f, if k is in S.
Grown(g, f, S, k, d) ==
    /\ Total(f, S) \in Int
    /\ k \in S => Total(g, S) = Total(f, S) + d
    /\ k \notin S => Total(g, S) = Total(f, S)

\* A summand that grows by d makes the sum grow by d, if it is one of them.
LEMMA TotalGrows ==
    ASSUME NEW S, IsFiniteSet(S), NEW k, NEW d \in Int,
           NEW f, Summands(f, S),
           NEW g, Raised(g, f, S, k, d)
    PROVE  Grown(g, f, S, k, d)
<1>1. PICK it \in [Parts(S) -> Int] : Solves(it, f, S) /\ Total(f, S) = it[S]
  BY TotalIs
<1>2. Summands(g, S)
  BY DEF Raised, Summands
<1>3. PICK jt \in [Parts(S) -> Int] : Solves(jt, g, S) /\ Total(g, S) = jt[S]
  BY <1>2, TotalIs
<1>4. S \in Parts(S)
  BY DEF Parts
<1>5. Follows(jt, it, S, k, d)
  BY <1>1, <1>3, <1>4, SummedDiffer
<1>6. it[S] \in Int
  BY <1>1, <1>4
<1> QED
  BY <1>1, <1>3, <1>5, <1>6 DEF Follows, Grown

\* Summands that are all zero sum to zero.
LEMMA TotalZero ==
    ASSUME NEW S, IsFiniteSet(S), NEW f, \A x \in S : f[x] = 0
    PROVE  Total(f, S) = 0
<1> DEFINE it == [s \in Parts(S) |-> 0]
<1>1. Solves(it, f, S)
  <2>1. ASSUME NEW s \in Parts(S)
        PROVE  (IF s = {} THEN 0 ELSE f[Chosen(s)] + it[s \ {Chosen(s)}]) = 0
    <3>1. s # {} => Chosen(s) \in S /\ s \ {Chosen(s)} \in Parts(S)
      BY Smaller
    <3> QED
      BY <3>1
  <2> QED
    BY <2>1 DEF Summed, Solves
<1>2. PICK jt \in [Parts(S) -> Int] :
         /\ \A h : Solves(h, f, S) => h = jt
         /\ Total(f, S) = jt[S]
  <2>1. Summands(f, S)
    BY DEF Summands
  <2> QED
    BY <2>1, TotalIs, Zenon
<1>3. it = jt
  BY <1>1, <1>2
<1> QED
  BY <1>2, <1>3 DEF Parts

-----------------------------------------------------------------------------
(* The reliable channel *)

USE DEF relVars, ephVars, pollVars

\* The part of the state the reliable path works on.
ReliableTypes ==
    /\ reliable \in Seq(Frame)
    /\ accepted \in Seq(Frame)
    /\ handled \in Seq(Frame)
    /\ hand \in Seq(Frame)
    /\ sent \in [Senders -> Nat]
    /\ spc \in [Senders -> {"idle", "checked", "pushed", "refused"}]
    /\ wpc \in WriterPc

\* The writer holds one frame exactly while it is between taking and having
\* written one; a failed write keeps it.
HandInv ==
    /\ wpc \in {"taken", "writing"} => \E f \in Frame : hand = <<f>>
    /\ wpc \in {"select", "drain", "written", "flush"} => hand = <<>>

ReliableInv == ReliableTypes /\ HandInv /\ ReliableAccounted

\* Moving the head of the queue into an empty hand keeps the whole order.
LEMMA TakeKeepsOrder ==
    ASSUME NEW T, NEW w \in Seq(T), NEW q \in Seq(T), q # <<>>
    PROVE  /\ Head(q) \in T
           /\ Tail(q) \in Seq(T)
           /\ (w \o <<>>) \o q = (w \o <<Head(q)>>) \o Tail(q)
<1>1. Head(q) \in T /\ Tail(q) \in Seq(T)
  BY HeadTailProperties
<1>2. Len(q) \in Nat /\ Len(q) > 0 /\ Len(Tail(q)) = Len(q) - 1
  BY HeadTailProperties, EmptySeq, LenProperties
<1>3. <<Head(q)>> \in Seq(T) /\ Len(<<Head(q)>>) = 1 /\ <<>> \in Seq(T)
  BY <1>1
<1>4. \A i \in 1..Len(Tail(q)) : Tail(q)[i] = q[i + 1]
  BY HeadTailProperties
<1>5. <<Head(q)>> \o Tail(q) = q
  BY <1>1, <1>2
<1>6. w \o <<>> = w
  BY ConcatEmptySeq
<1>7. (w \o <<Head(q)>>) \o Tail(q) = w \o (<<Head(q)>> \o Tail(q))
  BY <1>1, <1>3, ConcatAssociative
<1> QED
  BY <1>1, <1>5, <1>6, <1>7

\* Writing the frame in hand keeps the whole order.
LEMMA WriteKeepsOrder ==
    ASSUME NEW T, NEW w \in Seq(T), NEW f \in T, NEW q \in Seq(T)
    PROVE  /\ Head(<<f>>) = f
           /\ Append(w, f) \in Seq(T)
           /\ (w \o <<f>>) \o q = (Append(w, f) \o <<>>) \o q
<1>1. Head(<<f>>) = f
  OBVIOUS
<1>2. Append(w, f) = w \o <<f>> /\ Append(w, f) \in Seq(T)
  BY AppendIsConcat, AppendProperties
<1>3. Append(w, f) \o <<>> = Append(w, f)
  BY <1>2, ConcatEmptySeq
<1> QED
  BY <1>1, <1>2, <1>3

\* Accepting a frame extends the order at its end.
LEMMA AcceptKeepsOrder ==
    \A w, h, q \in Seq(Frame), f \in Frame :
        Append((w \o h) \o q, f) = (w \o h) \o Append(q, f)
<1> TAKE w, h, q \in Seq(Frame), f \in Frame
<1>1. w \o h \in Seq(Frame) /\ <<f>> \in Seq(Frame)
  BY ConcatProperties
<1>2. (w \o h) \o q \in Seq(Frame)
  BY <1>1, ConcatProperties
<1>3. Append((w \o h) \o q, f) = ((w \o h) \o q) \o <<f>>
  BY <1>2, AppendIsConcat
<1>4. Append(q, f) = q \o <<f>>
  BY AppendIsConcat
<1> QED
  BY <1>1, <1>3, <1>4, ConcatAssociative, SMTT(30)

\* newOutboundQueues starts with nothing accepted, in hand or written.
LEMMA InitReliableInv == Init => ReliableInv
<1> SUFFICES ASSUME Init PROVE ReliableInv
  OBVIOUS
<1>1. ReliableTypes /\ HandInv
  BY DEF Init, ReliableTypes, HandInv, WriterPc
<1>2. <<>> = (<<>> \o <<>>) \o <<>>
  OBVIOUS
<1> QED
  BY <1>1, <1>2 DEF Init, ReliableInv, ReliableAccounted

\* Every step of the senders, the writer and the poll preserves the order.
LEMMA NextReliableInv == ReliableInv /\ [Next]_vars => ReliableInv'
<1> SUFFICES ASSUME ReliableInv, [Next]_vars PROVE ReliableInv'
  OBVIOUS
<1> USE DEF ReliableInv
<1>0. ASSUME UNCHANGED <<reliable, hand, accepted, handled>> PROVE ReliableAccounted'
  BY <1>0 DEF ReliableAccounted
<1>1. ASSUME NEW s \in Senders, CheckClosed(s) \/ Signal(s) \/ RefuseReliable(s)
                                \/ HandleRefusal(s)
      PROVE  ReliableInv'
  <2>1. UNCHANGED <<reliable, hand, accepted, handled, wpc>>
    BY <1>1 DEF CheckClosed, Signal, RefuseReliable, HandleRefusal
  <2>2. sent' \in [Senders -> Nat]
    BY <1>1 DEF CheckClosed, Signal, RefuseReliable, HandleRefusal, ReliableTypes
  <2>3. \E pc \in {"idle", "checked", "refused"} : spc' = [spc EXCEPT ![s] = pc]
    BY <1>1 DEF CheckClosed, Signal, RefuseReliable, HandleRefusal
  <2>4. spc' \in [Senders -> {"idle", "checked", "pushed", "refused"}]
    BY <2>3 DEF ReliableTypes
  <2>5. ReliableTypes' /\ HandInv'
    BY <2>1, <2>2, <2>4 DEF ReliableTypes, HandInv
  <2> QED
    BY <1>0, <2>1, <2>5
<1>2. ASSUME NEW s \in Senders, PushReliable(s)
      PROVE  ReliableInv'
  <2> DEFINE f == <<s, sent[s]>>
  <2>1. f \in Frame
    BY DEF Frame, ReliableTypes
  <2>2. /\ reliable' = Append(reliable, f) /\ accepted' = Append(accepted, f)
        /\ UNCHANGED <<hand, handled, wpc, sent>>
    BY <1>2 DEF PushReliable
  <2> HIDE DEF f
  <2>3. ReliableTypes' /\ HandInv'
    <3>1. reliable' \in Seq(Frame) /\ accepted' \in Seq(Frame)
      BY <2>1, <2>2, AppendProperties DEF ReliableTypes
    <3>2. spc' \in [Senders -> {"idle", "checked", "pushed", "refused"}]
      BY <1>2 DEF PushReliable, ReliableTypes
    <3> QED
      BY <2>2, <3>1, <3>2 DEF ReliableTypes, HandInv
  <2>4. ReliableAccounted'
    <3>1. /\ handled \in Seq(Frame) /\ hand \in Seq(Frame) /\ reliable \in Seq(Frame)
          /\ accepted = (handled \o hand) \o reliable
      BY DEF ReliableTypes, ReliableAccounted
    <3>2. Append((handled \o hand) \o reliable, f)
             = (handled \o hand) \o Append(reliable, f)
      BY <2>1, <3>1, AcceptKeepsOrder, ZenonT(30)
    <3>3. accepted' = (handled' \o hand') \o reliable'
      BY <2>2, <3>1, <3>2, Zenon
    <3> QED
      BY <3>3 DEF ReliableAccounted
  <2> QED
    BY <2>3, <2>4
<1>3. CASE TakeReliable
  <2>1. hand = <<>>
    BY <1>3 DEF TakeReliable, HandInv
  <2>2. /\ Head(reliable) \in Frame /\ Tail(reliable) \in Seq(Frame)
        /\ (handled \o <<>>) \o reliable
              = (handled \o <<Head(reliable)>>) \o Tail(reliable)
    BY <1>3, TakeKeepsOrder DEF TakeReliable, ReliableTypes
  <2>3. ReliableTypes' /\ HandInv'
    BY <1>3, <2>2 DEF TakeReliable, ReliableTypes, HandInv, WriterPc
  <2>4. ReliableAccounted'
    BY <1>3, <2>1, <2>2 DEF TakeReliable, ReliableAccounted
  <2> QED
    BY <2>3, <2>4
<1>4. CASE WriteReliable
  <2>1. PICK f \in Frame : hand = <<f>>
    BY <1>4 DEF WriteReliable, HandInv
  <2>2. /\ Head(hand) = f /\ Append(handled, f) \in Seq(Frame)
        /\ (handled \o <<f>>) \o reliable = (Append(handled, f) \o <<>>) \o reliable
    BY <2>1, WriteKeepsOrder DEF ReliableTypes
  <2>3. ReliableTypes' /\ HandInv'
    BY <1>4, <2>2 DEF WriteReliable, ReliableTypes, HandInv, WriterPc
  <2>4. ReliableAccounted'
    BY <1>4, <2>1, <2>2 DEF WriteReliable, ReliableAccounted
  <2> QED
    BY <2>3, <2>4
<1>5. CASE WriterWoken \/ DrainedReliable \/ BeginReliableWrite \/ EndReliableWrite
           \/ WriterExit \/ WriterCancelled \/ WriteFails
  <2>1. UNCHANGED <<reliable, hand, accepted, handled>>
    BY <1>5 DEF WriterWoken, DrainedReliable, BeginReliableWrite, EndReliableWrite,
                WriterExit, WriterCancelled, WriteFails
  <2>2. ReliableTypes' /\ HandInv'
    BY <1>5 DEF WriterWoken, DrainedReliable, BeginReliableWrite, EndReliableWrite,
                WriterExit, WriterCancelled, WriteFails, ReliableTypes, HandInv, WriterPc
  <2> QED
    BY <1>0, <2>1, <2>2
<1>6. CASE WriterTicks \/ TakeBatch \/ Flushed \/ WriteEphemeral \/ EphemeralWriteFails
  <2>1. UNCHANGED <<reliable, hand, accepted, handled>>
    BY <1>6 DEF WriterTicks, TakeBatch, Flushed, WriteEphemeral, EphemeralWriteFails
  <2>2. ReliableTypes' /\ HandInv'
    BY <1>6 DEF WriterTicks, TakeBatch, Flushed, WriteEphemeral, EphemeralWriteFails,
                ReliableTypes, HandInv, WriterPc
  <2> QED
    BY <1>0, <2>1, <2>2
<1>7. ASSUME NEW k \in Keys, PushEphemeral(k) PROVE ReliableInv'
  BY <1>0, <1>7 DEF PushEphemeral, ReliableTypes, HandInv
<1>8. CASE Close \/ PollDepth \/ PollInFlight \/ UNCHANGED vars
  BY <1>0, <1>8 DEF Close, PollDepth, PollInFlight, vars, ReliableTypes, HandInv
<1> QED
  BY <1>1, <1>2, <1>3, <1>4, <1>5, <1>6, <1>7, <1>8
  DEF Next, Sender, WriterReliable, WriterEphemeral

\* Reliable frames are written in the order the channel accepted them, none
\* lost and none twice, for any number of senders and any capacity.
THEOREM ReliableOrdered == Spec => []ReliableAccounted
<1>1. ReliableInv => ReliableAccounted
  BY DEF ReliableInv
<1> QED
  BY <1>1, InitReliableInv, NextReliableInv, PTL DEF Spec

-----------------------------------------------------------------------------
\* Every step leaves a waiting frame somebody who will write it: drainReliable
\* only sleeps on an empty channel, and every push is followed by a signal.
LEMMA NextWakeNotLost ==
    ReliableInv /\ WakeNotLost /\ [Next]_vars => WakeNotLost'
<1> SUFFICES ASSUME ReliableInv, WakeNotLost, [Next]_vars PROVE WakeNotLost'
  OBVIOUS
<1>0. spc \in [Senders -> {"idle", "checked", "pushed", "refused"}]
  BY DEF ReliableInv, ReliableTypes
<1> USE DEF WakeNotLost
<1>1. ASSUME NEW s \in Senders, CheckClosed(s) \/ RefuseReliable(s) \/ HandleRefusal(s)
      PROVE  WakeNotLost'
  <2>1. /\ UNCHANGED <<reliable, wake, wpc>> /\ (closed => closed')
        /\ \A q \in Senders : spc[q] = "pushed" => spc'[q] = "pushed"
    <3>1. UNCHANGED <<reliable, wake, wpc>>
      BY <1>1 DEF CheckClosed, RefuseReliable, HandleRefusal
    <3>2. closed => closed'
      BY <1>1, Zenon DEF CheckClosed, RefuseReliable, HandleRefusal
    <3>3. /\ spc[s] # "pushed"
          /\ \E pc \in {"idle", "checked", "refused"} : spc' = [spc EXCEPT ![s] = pc]
      BY <1>1 DEF CheckClosed, RefuseReliable, HandleRefusal
    <3>4. \A q \in Senders : spc[q] = "pushed" => spc'[q] = "pushed"
      BY <1>0, <3>3
    <3> QED
      BY <3>1, <3>2, <3>4
  <2> QED
    BY <2>1
<1>2. ASSUME NEW s \in Senders, PushReliable(s) PROVE WakeNotLost'
  BY <1>0, <1>2 DEF PushReliable
<1>3. ASSUME NEW s \in Senders, Signal(s) PROVE WakeNotLost'
  BY <1>3 DEF Signal
<1>4. CASE WriterReliable \/ WriteReliable \/ WriterExit \/ WriterCancelled
           \/ WriteFails
  BY <1>4 DEF WriterReliable, WriterWoken, TakeReliable, DrainedReliable,
              BeginReliableWrite, WriteReliable, EndReliableWrite, WriterExit, WriterCancelled, WriteFails
<1>5. CASE WriterTicks \/ WriterEphemeral \/ EphemeralWriteFails
  BY <1>5 DEF WriterTicks, WriterEphemeral, TakeBatch, Flushed, WriteEphemeral,
              EphemeralWriteFails
<1>6. ASSUME NEW k \in Keys, PushEphemeral(k) PROVE WakeNotLost'
  BY <1>6 DEF PushEphemeral
<1>7. CASE Close \/ PollDepth \/ PollInFlight \/ UNCHANGED vars
  BY <1>7 DEF Close, PollDepth, PollInFlight, vars
<1> QED
  BY <1>1, <1>2, <1>3, <1>4, <1>5, <1>6, <1>7 DEF Next, Sender

\* The one-slot wake channel is enough: frames never wait on an open connection
\* with nobody about to write them.
THEOREM WakeEnough == Spec => []WakeNotLost
<1>1. Init => WakeNotLost
  BY DEF Init, WakeNotLost
<1> QED
  BY <1>1, InitReliableInv, NextReliableInv, NextWakeNotLost, PTL DEF Spec

-----------------------------------------------------------------------------
(* The shutdown poll *)

\* reliableInFlight counts the writer's one write; a poll that has read an empty
\* channel can have missed only the frame in the writer's hand, and what has
\* been written since cannot be missed any more.
FlushInv ==
    /\ inFlight = IF wpc \in {"writing", "written"} THEN 1 ELSE 0
    /\ pollLen \in Nat /\ due \in Nat
    /\ poll \in {"idle", "len", "flushed"}
    /\ poll = "len" /\ pollLen = 0 => due <= Len(handled) + Len(hand)

\* The frames accepted are those written, in hand and queued, also by number.
LEMMA AcceptedLength ==
    ASSUME ReliableInv
    PROVE  /\ Len(accepted) = Len(handled) + Len(hand) + Len(reliable)
           /\ Len(accepted) \in Nat /\ Len(handled) \in Nat
           /\ Len(hand) \in Nat /\ Len(reliable) \in Nat
<1>1. /\ handled \in Seq(Frame) /\ hand \in Seq(Frame) /\ reliable \in Seq(Frame)
      /\ accepted = (handled \o hand) \o reliable /\ accepted \in Seq(Frame)
  BY DEF ReliableInv, ReliableTypes, ReliableAccounted
<1>2. handled \o hand \in Seq(Frame) /\ Len(handled \o hand) = Len(handled) + Len(hand)
  BY <1>1, ConcatProperties
<1>3. Len((handled \o hand) \o reliable) = Len(handled \o hand) + Len(reliable)
  BY <1>1, <1>2, ConcatProperties
<1> QED
  BY <1>1, <1>2, <1>3, LenProperties

\* The writer's hand never holds more than one frame, once its pump has ended
\* with a failed write too.
OneInHand == Len(hand) <= 1

\* Taking, writing and failing to write keep it so.
LEMMA NextOneInHand == ReliableInv /\ OneInHand /\ [Next]_vars => OneInHand'
<1> SUFFICES ASSUME ReliableInv, OneInHand, [Next]_vars PROVE OneInHand'
  OBVIOUS
<1>1. CASE TakeReliable \/ WriteReliable
  <2>1. ReliableInv'
    BY NextReliableInv
  <2>2. wpc' \in {"taken", "written"}
    BY <1>1 DEF TakeReliable, WriteReliable
  <2>3. hand' = <<>> \/ \E f \in Frame : hand' = <<f>>
    BY <2>1, <2>2 DEF ReliableInv, HandInv
  <2>4. CASE hand' = <<>>
    BY <2>4 DEF OneInHand
  <2>5. CASE \E f \in Frame : hand' = <<f>>
    <3>1. PICK f \in Frame : hand' = <<f>>
      BY <2>5
    <3>2. Len(hand') = 1
      BY <3>1
    <3> QED
      BY <3>2 DEF OneInHand
  <2> QED
    BY <2>3, <2>4, <2>5
<1>2. CASE hand' = hand
  BY <1>2 DEF OneInHand
<1>3. ASSUME NEW s \in Senders, CheckClosed(s) \/ Sender(s) PROVE hand' = hand
  BY <1>3 DEF Sender, CheckClosed, PushReliable, Signal, RefuseReliable, HandleRefusal
<1>4. ASSUME NEW k \in Keys, PushEphemeral(k) PROVE hand' = hand
  BY <1>4 DEF PushEphemeral
<1>5. ASSUME \/ WriterWoken \/ DrainedReliable \/ BeginReliableWrite
             \/ EndReliableWrite \/ WriteFails \/ WriterExit
             \/ WriterCancelled \/ WriterTicks
             \/ WriterEphemeral \/ EphemeralWriteFails
             \/ Close \/ PollDepth \/ PollInFlight \/ UNCHANGED vars
      PROVE  hand' = hand
  BY <1>5 DEF WriterWoken, DrainedReliable, BeginReliableWrite, EndReliableWrite,
     WriteFails, WriterExit, WriterCancelled, WriterTicks, WriterEphemeral, TakeBatch, Flushed,
     WriteEphemeral, EphemeralWriteFails, Close, PollDepth, PollInFlight, vars
<1>6. QED
  BY <1>1, <1>2, <1>3, <1>4, <1>5 DEF Next, WriterReliable

\* The senders, the writer and the poll keep the count right: the depth is read
\* before reliableInFlight, and nothing that was written is unwritten.
LEMMA NextFlushInv ==
    ReliableInv /\ OneInHand /\ FlushInv /\ [Next]_vars => FlushInv'
<1> SUFFICES ASSUME ReliableInv, OneInHand, FlushInv, [Next]_vars PROVE FlushInv'
  OBVIOUS
<1>0. /\ Len(accepted) = Len(handled) + Len(hand) + Len(reliable)
      /\ Len(accepted) \in Nat /\ Len(handled) \in Nat
      /\ Len(hand) \in Nat /\ Len(reliable) \in Nat
  BY AcceptedLength
<1>1. ASSUME NEW s \in Senders, CheckClosed(s) \/ Sender(s) PROVE FlushInv'
  <2>1. UNCHANGED <<inFlight, wpc, pollVars, handled, hand>>
    BY <1>1 DEF Sender, CheckClosed, PushReliable, Signal, RefuseReliable, HandleRefusal
  <2> QED BY <2>1 DEF FlushInv
<1>2. CASE WriteReliable
  <2>1. Len(handled') + Len(hand') = Len(handled) + Len(hand)
    <3>1. PICK f \in Frame : hand = <<f>>
      BY <1>2 DEF ReliableInv, HandInv, WriteReliable
    <3>2. handled' = Append(handled, f) /\ handled \in Seq(Frame) /\ hand' = <<>>
      BY <1>2, <3>1 DEF WriteReliable, ReliableInv, ReliableTypes
    <3>3. Len(handled') = Len(handled) + 1
      BY <3>2, AppendProperties
    <3>4. Len(hand) = 1 /\ Len(hand') = 0
      BY <3>1, <3>2
    <3> QED BY <1>0, <3>3, <3>4
  <2> QED
    BY <1>0, <1>2, <2>1 DEF WriteReliable, FlushInv
<1>3. CASE TakeReliable
  <2>1. Len(hand) = 0 /\ Len(hand') = 1
    BY <1>3 DEF TakeReliable, ReliableInv, HandInv
  <2> QED
    BY <1>0, <1>3, <2>1 DEF TakeReliable, FlushInv
<1>4. CASE WriterWoken \/ DrainedReliable \/ BeginReliableWrite
           \/ EndReliableWrite \/ WriteFails \/ WriterExit \/ WriterCancelled
  BY <1>4 DEF WriterWoken, DrainedReliable, BeginReliableWrite,
     EndReliableWrite, WriteFails, WriterExit, WriterCancelled, FlushInv
<1>5. CASE WriterTicks \/ TakeBatch \/ Flushed \/ WriteEphemeral \/ EphemeralWriteFails
  BY <1>5 DEF WriterTicks, TakeBatch, Flushed, WriteEphemeral, EphemeralWriteFails,
     FlushInv
<1>6. ASSUME NEW k \in Keys, PushEphemeral(k) PROVE FlushInv'
  BY <1>6 DEF PushEphemeral, FlushInv
<1>7. CASE PollDepth
  BY <1>0, <1>7 DEF PollDepth, FlushInv
<1>8. CASE PollInFlight
  BY <1>8 DEF PollInFlight, Pending, FlushInv
<1>9. CASE Close \/ UNCHANGED vars
  BY <1>9 DEF Close, vars, FlushInv
<1> QED
  BY <1>1, <1>2, <1>3, <1>4, <1>5, <1>6, <1>7, <1>8, <1>9
  DEF Next, WriterReliable, WriterEphemeral

\* The step at which a poll reports flushed: reliableInFlight is zero, so the
\* writer is not in a write, and the frame in its hand is all that can be owed.
FlushStep ==
    poll # "flushed" /\ poll' = "flushed" =>
        \/ Len(handled) >= due
        \/ wpc \in {"taken", "done"} /\ Len(handled) + 1 >= due

\* Only PollInFlight reports flushed.
LEMMA FlushStepHolds ==
    ReliableInv /\ OneInHand /\ FlushInv /\ [Next]_vars => FlushStep
<1> SUFFICES ASSUME ReliableInv, OneInHand, FlushInv, [Next]_vars,
                    poll # "flushed", poll' = "flushed"
             PROVE  FlushStep
  BY DEF FlushStep
<1>1. PollInFlight
  BY DEF Next, Sender, CheckClosed, PushReliable, Signal, RefuseReliable, HandleRefusal,
     WriterReliable, WriterWoken, TakeReliable, DrainedReliable, BeginReliableWrite,
     WriteReliable, EndReliableWrite, WriterExit, WriterCancelled, WriteFails,
     PushEphemeral, WriterTicks, WriterEphemeral, TakeBatch, Flushed, WriteEphemeral,
     EphemeralWriteFails, Close, PollDepth, vars
<1>2. /\ Len(handled) \in Nat /\ Len(hand) \in Nat
      /\ wpc \in WriterPc
  BY AcceptedLength DEF ReliableInv, ReliableTypes
<1>3. pollLen = 0 /\ inFlight = 0 /\ poll = "len"
  BY <1>1 DEF PollInFlight, Pending, FlushInv
<1>4. due <= Len(handled) + Len(hand) /\ due \in Nat
  BY <1>3 DEF FlushInv
<1>5. wpc \in {"select", "drain", "flush", "taken", "done"}
  BY <1>2, <1>3 DEF FlushInv, WriterPc
<1>6. CASE wpc \in {"select", "drain", "flush"}
  <2>1. Len(hand) = 0
    BY <1>6 DEF ReliableInv, HandInv
  <2> QED
    BY <1>2, <1>4, <2>1 DEF FlushStep
<1>7. CASE wpc \in {"taken", "done"}
  BY <1>2, <1>4, <1>7 DEF FlushStep, OneInHand
<1> QED
  BY <1>5, <1>6, <1>7

\* PendingReliable: for any capacity and any number of senders a shutdown poll
\* that reports flushed sees every frame that is being written; what it can
\* overlook is the frame taken and not begun, or one whose write failed.
THEOREM FlushSees == Spec => FlushSeesWrites
<1>1. Init => OneInHand /\ FlushInv
  BY DEF Init, OneInHand, FlushInv
<1>2. FlushStep => (poll # "flushed" /\ poll' = "flushed" =>
          \/ Len(handled) >= due
          \/ wpc \in {"taken", "done"} /\ Len(handled) + 1 >= due)
  BY DEF FlushStep
<1> QED
  BY <1>1, <1>2, InitReliableInv, NextReliableInv, NextOneInHand, NextFlushInv,
     FlushStepHolds, PTL DEF Spec, FlushSeesWrites

-----------------------------------------------------------------------------
(* The ephemeral queue *)

\* The types of the ephemeral half.
EphemeralTypes ==
    /\ eph \in [Keys -> Nat] /\ pushed \in [Keys -> Nat] /\ shed \in [Keys -> Nat]
    /\ shown \in [Keys -> [last : Nat, count : Nat]]
    /\ order \in Seq(Keys)
    /\ batch \in Seq(Keys \X Nat)

\* A stream has at most one frame in the writer's batch.
BatchDistinct ==
    \A i, j \in 1..Len(batch) : batch[i][1] = batch[j][1] => i = j

\* The newest frame of a stream is queued, or it was shed, or it is in the
\* writer's batch, or it was the last one shown and the batch holds none.
NewestInv ==
    \A k \in Keys :
        \/ eph[k] # 0 /\ eph[k] = pushed[k]
        \/ /\ eph[k] = 0
           /\ \/ shed[k] = pushed[k]
              \/ \E i \in 1..Len(batch) : batch[i] = <<k, pushed[k]>>
              \/ /\ shown[k].last = pushed[k]
                 /\ \A i \in 1..Len(batch) : batch[i][1] # k

\* The four together.
EphemeralInv == EphemeralTypes /\ EphemeralCoherent /\ BatchDistinct /\ NewestInv

\* A stream that stands in a sequence of keys.
Stands(k, keys) == \E i \in 1..Len(keys) : keys[i] = k

\* The keys of a sequence all differ.
AllDiffer(keys) == \A i, j \in 1..Len(keys) : keys[i] = keys[j] => i = j

\* Cutting the n oldest streams off: the rest keep their order.
LEMMA Cut ==
    ASSUME NEW T, NEW s \in Seq(T), NEW n \in 0..Len(s)
    PROVE  /\ SubSeq(s, n + 1, Len(s)) \in Seq(T)
           /\ Len(SubSeq(s, n + 1, Len(s))) = Len(s) - n
           /\ \A i \in 1..(Len(s) - n) : SubSeq(s, n + 1, Len(s))[i] = s[n + i]
           /\ \A i \in 1..n : SubSeq(s, 1, n)[i] = s[i]
<1>1. Len(s) \in Nat /\ s \in [1..Len(s) -> T] /\ n \in Nat /\ n <= Len(s)
  BY LenProperties
<1>2. /\ \A i \in (n + 1)..Len(s) : s[i] \in T
      /\ \A i \in 1..n : s[i] \in T
  BY <1>1
<1>3. /\ SubSeq(s, n + 1, Len(s)) \in Seq(T)
      /\ Len(SubSeq(s, n + 1, Len(s))) =
            IF n + 1 <= Len(s) THEN Len(s) - (n + 1) + 1 ELSE 0
      /\ \A i \in 1..(Len(s) - (n + 1) + 1) :
            SubSeq(s, n + 1, Len(s))[i] = s[(n + 1) + i - 1]
  <2> DEFINE a == n + 1
             b == Len(s)
  <2>1. a \in Int /\ b \in Int /\ \A i \in a..b : s[i] \in T
    BY <1>1, <1>2
  <2> HIDE DEF a, b
  <2>2. /\ SubSeq(s, a, b) \in Seq(T)
        /\ Len(SubSeq(s, a, b)) = IF a <= b THEN b - a + 1 ELSE 0
        /\ \A i \in 1..(b - a + 1) : SubSeq(s, a, b)[i] = s[a + i - 1]
    BY <2>1, SubSeqProperties
  <2> QED
    BY <2>2 DEF a, b
<1>4. \A i \in 1..n : SubSeq(s, 1, n)[i] = s[i]
  <2>1. \A i \in 1..(n - 1 + 1) : SubSeq(s, 1, n)[i] = s[1 + i - 1]
    BY <1>1, <1>2, SubSeqProperties
  <2> QED
    BY <1>1, <2>1
<1>5. Len(SubSeq(s, n + 1, Len(s))) = Len(s) - n
  <2> DEFINE r == SubSeq(s, n + 1, Len(s))
             m == Len(s)
  <2>1. Len(r) = IF n + 1 <= m THEN m - (n + 1) + 1 ELSE 0
    BY <1>3
  <2>2. m \in Nat /\ n \in Nat /\ n <= m
    BY <1>1
  <2> HIDE DEF r, m
  <2>3. Len(r) = m - n
    BY <2>1, <2>2
  <2> QED
    BY <2>3 DEF r, m
<1>6. ASSUME NEW i \in 1..(Len(s) - n)
      PROVE  SubSeq(s, n + 1, Len(s))[i] = s[n + i]
  <2>1. i \in 1..(Len(s) - (n + 1) + 1) /\ (n + 1) + i - 1 = n + i
    BY <1>1
  <2> QED
    BY <1>3, <2>1
<1> QED
  BY <1>3, <1>4, <1>5, <1>6

\* What stands in the rest stood in the whole and was not cut off.
LEMMA CutStands ==
    ASSUME NEW s \in Seq(Keys), NEW n \in 0..Len(s), AllDiffer(s), NEW k \in Keys
    PROVE  /\ AllDiffer(SubSeq(s, n + 1, Len(s)))
           /\ Stands(k, SubSeq(s, n + 1, Len(s))) <=>
                 Stands(k, s) /\ ~\E i \in 1..n : s[i] = k
<1> DEFINE rest == SubSeq(s, n + 1, Len(s))
<1>1. /\ rest \in Seq(Keys) /\ Len(rest) = Len(s) - n
      /\ \A i \in 1..(Len(s) - n) : rest[i] = s[n + i]
  BY Cut
<1>2. Len(s) \in Nat /\ n \in Nat /\ n <= Len(s)
  BY LenProperties
<1> HIDE DEF rest
<1>3. AllDiffer(rest)
  BY <1>1, <1>2 DEF AllDiffer
<1>4. ASSUME Stands(k, rest) PROVE Stands(k, s) /\ ~\E i \in 1..n : s[i] = k
  <2>1. PICK i \in 1..Len(rest) : rest[i] = k
    BY <1>4 DEF Stands
  <2>2. n + i \in 1..Len(s) /\ s[n + i] = k
    BY <1>1, <1>2, <2>1
  <2> QED
    BY <1>2, <2>2 DEF Stands, AllDiffer
<1>5. ASSUME Stands(k, s), ~\E i \in 1..n : s[i] = k PROVE Stands(k, rest)
  <2>1. PICK i \in 1..Len(s) : s[i] = k
    BY <1>5 DEF Stands
  <2>2. i > n
    BY <1>2, <1>5, <2>1
  <2>3. i - n \in 1..Len(rest) /\ rest[i - n] = k
    BY <1>1, <1>2, <2>1, <2>2
  <2> QED
    BY <2>3 DEF Stands
<1> QED
  BY <1>3, <1>4, <1>5 DEF rest

\* A pushed key stands once in the order: a replaced frame keeps its place.
LEMMA OrderedStands ==
    ASSUME EphemeralTypes, EphemeralCoherent, NEW k \in Keys
    PROVE  /\ Ordered(k) \in Seq(Keys) /\ AllDiffer(Ordered(k))
           /\ \A j \in Keys : Stands(j, Ordered(k)) <=> eph[j] # 0 \/ j = k
<1>1. /\ order \in Seq(Keys) /\ AllDiffer(order)
      /\ \A j \in Keys : Stands(j, order) <=> eph[j] # 0
  BY DEF EphemeralTypes, EphemeralCoherent, AllDiffer, Stands
<1>2. CASE eph[k] # 0
  BY <1>1, <1>2 DEF Ordered
<1>3. CASE eph[k] = 0
  <2> DEFINE all == Append(order, k)
  <2>1. Len(order) \in Nat
    BY <1>1, LenProperties
  <2>2. /\ all \in Seq(Keys) /\ Len(all) = Len(order) + 1
        /\ \A i \in 1..Len(order) : all[i] = order[i]
        /\ all[Len(order) + 1] = k
    BY <1>1, AppendProperties
  <2>3. ~Stands(k, order)
    BY <1>1, <1>3
  <2> HIDE DEF all
  <2>4. AllDiffer(all)
    BY <1>1, <2>1, <2>2, <2>3 DEF AllDiffer, Stands
  <2>5. ASSUME NEW j \in Keys PROVE Stands(j, all) <=> eph[j] # 0 \/ j = k
    <3>1. Stands(j, all) <=> Stands(j, order) \/ j = k
      BY <2>1, <2>2 DEF Stands
    <3> QED
      BY <1>1, <3>1
  <2>6. Ordered(k) = all
    BY <1>3 DEF Ordered, all
  <2> QED
    BY <2>2, <2>4, <2>5, <2>6
<1> QED
  BY <1>2, <1>3 DEF EphemeralTypes

\* pushEphemeral coalesces, appends and sheds without parting map and order.
LEMMA PushKeeps ==
    ASSUME EphemeralInv, NEW k \in Keys, PushEphemeral(k)
    PROVE  EphemeralInv'
<1> DEFINE all == Ordered(k)
           n == Excess(all)
           sheds(j) == \E i \in 1..n : all[i] = j
           queued == [eph EXCEPT ![k] = QueuedFor(k)]
<1>1. /\ all \in Seq(Keys) /\ AllDiffer(all)
      /\ \A j \in Keys : Stands(j, all) <=> eph[j] # 0 \/ j = k
  BY OrderedStands DEF EphemeralInv
<1>2. n \in 0..Len(all) /\ Len(all) - n <= MaxEphemeral /\ Len(all) \in Nat
  BY <1>1, LenProperties, SizeAssumption DEF Excess
<1>3. /\ eph \in [Keys -> Nat] /\ pushed \in [Keys -> Nat]
      /\ shed \in [Keys -> Nat]
  BY DEF EphemeralInv, EphemeralTypes
<1>4. /\ pushed' = [pushed EXCEPT ![k] = @ + 1]
      /\ order' = SubSeq(all, n + 1, Len(all))
      /\ UNCHANGED <<batch, shown>>
  BY DEF PushEphemeral
<1>5. /\ eph' = [j \in Keys |-> IF sheds(j) THEN 0 ELSE queued[j]]
      /\ shed' = [j \in Keys |-> IF sheds(j) THEN queued[j] ELSE shed[j]]
  <2>1. \A i \in 1..n : SubSeq(all, 1, n)[i] = all[i]
    BY <1>1, <1>2, Cut
  <2>2. \A j \in Keys :
           (\E i \in 1..n : SubSeq(all, 1, n)[i] = j) <=> sheds(j)
    BY <2>1
  <2>3. /\ eph' = [j \in Keys |-> IF \E i \in 1..n : SubSeq(all, 1, n)[i] = j
                                   THEN 0 ELSE queued[j]]
        /\ shed' = [j \in Keys |-> IF \E i \in 1..n : SubSeq(all, 1, n)[i] = j
                                    THEN queued[j] ELSE shed[j]]
    BY Zenon DEF PushEphemeral
  <2> HIDE DEF all, n, queued
  <2>4. ASSUME NEW j \in Keys
        PROVE  /\ (IF \E i \in 1..n : SubSeq(all, 1, n)[i] = j THEN 0 ELSE queued[j])
                     = (IF sheds(j) THEN 0 ELSE queued[j])
               /\ (IF \E i \in 1..n : SubSeq(all, 1, n)[i] = j THEN queued[j] ELSE shed[j])
                     = (IF sheds(j) THEN queued[j] ELSE shed[j])
    BY <2>2
  <2> HIDE DEF sheds
  <2> QED
    BY <2>3, <2>4, Zenon
<1>6. queued \in [Keys -> Nat] /\ queued[k] = pushed[k] + 1
      /\ \A j \in Keys \ {k} : queued[j] = eph[j]
  BY <1>3 DEF QueuedFor
<1> HIDE DEF all, n, queued
<1>7. EphemeralTypes'
  <2>1. order' \in Seq(Keys)
    BY <1>1, <1>2, <1>4, Cut
  <2>2. eph' \in [Keys -> Nat] /\ shed' \in [Keys -> Nat] /\ pushed' \in [Keys -> Nat]
    BY <1>3, <1>4, <1>5, <1>6
  <2> QED
    BY <1>4, <2>1, <2>2 DEF EphemeralInv, EphemeralTypes
<1>8. EphemeralCoherent'
  <2>1. Len(order') <= MaxEphemeral
    <3>1. Len(order') = Len(all) - n
      BY <1>1, <1>2, <1>4, Cut
    <3> QED
      BY <1>1, <1>2, <3>1
  <2>2. \A j \in Keys : AllDiffer(order') /\ (Stands(j, order') <=> Stands(j, all) /\ ~sheds(j))
    BY <1>1, <1>2, <1>4, CutStands
  <2>3. \A j \in Keys : eph'[j] # 0 <=> Stands(j, all) /\ ~sheds(j)
    BY <1>1, <1>3, <1>5, <1>6
  <2> QED
    BY <2>1, <2>2, <2>3 DEF EphemeralCoherent, AllDiffer, Stands
<1>9. NewestInv'
  <2> SUFFICES ASSUME NEW j \in Keys
               PROVE  \/ eph'[j] # 0 /\ eph'[j] = pushed'[j]
                      \/ /\ eph'[j] = 0
                         /\ \/ shed'[j] = pushed'[j]
                            \/ \E i \in 1..Len(batch) : batch[i] = <<j, pushed'[j]>>
                            \/ /\ shown[j].last = pushed'[j]
                               /\ \A i \in 1..Len(batch) : batch[i][1] # j
    BY <1>4 DEF NewestInv
  <2>0. /\ \/ eph[j] # 0 /\ eph[j] = pushed[j]
           \/ /\ eph[j] = 0
              /\ \/ shed[j] = pushed[j]
                 \/ \E i \in 1..Len(batch) : batch[i] = <<j, pushed[j]>>
                 \/ /\ shown[j].last = pushed[j]
                    /\ \A i \in 1..Len(batch) : batch[i][1] # j
        /\ pushed[j] \in Nat /\ eph[j] \in Nat
        /\ pushed'[j] = IF j = k THEN pushed[j] + 1 ELSE pushed[j]
    BY <1>3, <1>4 DEF EphemeralInv, NewestInv
  <2>1. CASE sheds(j)
    <3>1. Stands(j, all)
      BY <1>2, <2>1 DEF Stands
    <3>2. queued[j] = pushed'[j]
      BY <1>1, <1>6, <2>0, <3>1
    <3> QED
      BY <1>5, <2>1, <3>2
  <2>2. CASE ~sheds(j) /\ j = k
    BY <1>5, <1>6, <2>0, <2>2
  <2>3. CASE ~sheds(j) /\ j # k
    BY <1>5, <1>6, <2>0, <2>3
  <2> QED
    BY <2>1, <2>2, <2>3
<1>10. BatchDistinct'
  BY <1>4 DEF EphemeralInv, BatchDistinct
<1> QED
  BY <1>7, <1>8, <1>9, <1>10 DEF EphemeralInv

\* takeEphemeralBatch moves the oldest streams, each with its only frame, from
\* map and order into the writer's batch.
LEMMA TakeKeeps ==
    ASSUME EphemeralInv, TakeBatch
    PROVE  EphemeralInv'
<1> DEFINE n == BatchSize
<1>1. /\ order \in Seq(Keys) /\ AllDiffer(order) /\ Len(order) <= MaxEphemeral
      /\ \A k \in Keys : Stands(k, order) <=> eph[k] # 0
      /\ order \in [1..Len(order) -> Keys] /\ Len(order) \in Nat
      /\ eph \in [Keys -> Nat]
  BY LenProperties
  DEF EphemeralInv, EphemeralTypes, EphemeralCoherent, AllDiffer, Stands
<1>2. n \in 0..Len(order) /\ n \in Nat
  BY <1>1, SizeAssumption DEF BatchSize
<1>3. /\ batch = <<>>
      /\ batch' = [i \in 1..n |-> <<order[i], eph[order[i]]>>]
      /\ eph' = [k \in Keys |-> IF \E i \in 1..n : order[i] = k THEN 0 ELSE eph[k]]
      /\ order' = SubSeq(order, n + 1, Len(order))
      /\ UNCHANGED <<pushed, shown, shed>>
  BY DEF TakeBatch
<1> HIDE DEF n
<1>4. /\ batch' \in Seq(Keys \X Nat) /\ Len(batch') = n
      /\ \A i \in 1..n : batch'[i] = <<order[i], eph[order[i]]>>
  <2>1. \A i \in 1..n : order[i] \in Keys /\ eph[order[i]] \in Nat
    BY <1>1, <1>2
  <2>2. batch' \in [1..n -> Keys \X Nat]
    BY <1>3, <2>1
  <2>3. batch' \in Seq(Keys \X Nat)
    BY <1>2, <2>2, SeqDef
  <2>4. Len(batch') = n
    BY <1>2, <2>2, <2>3, LenProperties
  <2> QED
    BY <1>3, <2>3, <2>4
<1>5. EphemeralTypes'
  <2>1. order' \in Seq(Keys)
    BY <1>1, <1>2, <1>3, Cut
  <2> QED
    BY <1>1, <1>3, <1>4, <2>1 DEF EphemeralInv, EphemeralTypes
<1>6. EphemeralCoherent'
  <2>1. Len(order') <= MaxEphemeral
    BY <1>1, <1>2, <1>3, Cut, SizeAssumption
  <2>2. \A k \in Keys : /\ AllDiffer(order')
                        /\ Stands(k, order') <=>
                              Stands(k, order) /\ ~\E i \in 1..n : order[i] = k
    BY <1>1, <1>2, <1>3, CutStands
  <2>3. \A k \in Keys :
           eph'[k] # 0 <=> Stands(k, order) /\ ~\E i \in 1..n : order[i] = k
    BY <1>1, <1>3
  <2>4. CASE Keys = {}
    BY <1>1, <1>5, <2>1, <2>4, LenProperties
    DEF EphemeralCoherent, EphemeralTypes
  <2>5. CASE Keys # {}
    BY <2>1, <2>2, <2>3, <2>5 DEF EphemeralCoherent, AllDiffer, Stands
  <2> QED
    BY <2>4, <2>5
<1>7. BatchDistinct'
  <2>1. \A i \in 1..n : batch'[i][1] = order[i]
    BY <1>4
  <2> QED
    BY <1>1, <1>2, <1>4, <2>1 DEF BatchDistinct, AllDiffer
<1>8. NewestInv'
  <2> SUFFICES ASSUME NEW k \in Keys
               PROVE  \/ eph'[k] # 0 /\ eph'[k] = pushed[k]
                      \/ /\ eph'[k] = 0
                         /\ \/ shed[k] = pushed[k]
                            \/ \E i \in 1..n : batch'[i] = <<k, pushed[k]>>
                            \/ /\ shown[k].last = pushed[k]
                               /\ \A i \in 1..n : batch'[i][1] # k
    BY <1>3, <1>4, ZenonT(30) DEF NewestInv
  <2>1. \/ eph[k] # 0 /\ eph[k] = pushed[k]
        \/ eph[k] = 0 /\ (shed[k] = pushed[k] \/ shown[k].last = pushed[k])
    <3>1. Len(batch) = 0
      BY <1>3
    <3> QED
      BY <3>1 DEF EphemeralInv, NewestInv
  <2>2. CASE \E i \in 1..n : order[i] = k
    <3>1. PICK i \in 1..n : order[i] = k
      BY <2>2
    <3>2. Stands(k, order)
      BY <1>1, <1>2, <3>1 DEF Stands
    <3>3. eph[k] = pushed[k]
      BY <1>1, <2>1, <3>2
    <3>4. batch'[i] = <<k, pushed[k]>>
      BY <1>4, <3>1, <3>3
    <3> QED
      BY <1>3, <2>2, <3>4
  <2>3. CASE ~\E i \in 1..n : order[i] = k
    BY <1>3, <1>4, <2>1, <2>3
  <2> QED
    BY <2>2, <2>3
<1> QED
  BY <1>5, <1>6, <1>7, <1>8 DEF EphemeralInv

\* Writing one frame of the batch shows it; the rest of the batch stays.
LEMMA ShowKeeps ==
    ASSUME EphemeralInv, WriteEphemeral
    PROVE  EphemeralInv'
<1> DEFINE f == Head(batch)
<1>1. batch \in Seq(Keys \X Nat) /\ batch # <<>>
  BY DEF EphemeralInv, EphemeralTypes, WriteEphemeral
<1>2. /\ f = batch[1] /\ f \in Keys \X Nat /\ Tail(batch) \in Seq(Keys \X Nat)
      /\ Len(Tail(batch)) = Len(batch) - 1
      /\ \A i \in 1..Len(Tail(batch)) : Tail(batch)[i] = batch[i + 1]
      /\ Len(batch) \in Nat \ {0}
  BY <1>1, HeadTailProperties, LenProperties, EmptySeq
<1>3. /\ shown' = [shown EXCEPT ![f[1]] = [last |-> f[2], count |-> @.count + 1]]
      /\ batch' = Tail(batch)
      /\ UNCHANGED <<eph, order, pushed, shed>>
  BY DEF WriteEphemeral
<1> HIDE DEF f
<1>4. f[1] \in Keys /\ f[2] \in Nat
  BY <1>2
<1>5. EphemeralTypes'
  <2>1. shown \in [Keys -> [last : Nat, count : Nat]]
    BY DEF EphemeralInv, EphemeralTypes
  <2>2. shown' \in [Keys -> [last : Nat, count : Nat]]
    BY <1>3, <1>4, <2>1
  <2> QED
    BY <1>2, <1>3, <2>2 DEF EphemeralInv, EphemeralTypes
<1>6. EphemeralCoherent'
  BY <1>3 DEF EphemeralInv, EphemeralCoherent
<1>7. BatchDistinct'
  BY <1>2, <1>3 DEF EphemeralInv, BatchDistinct
<1>8. NewestInv'
  <2> SUFFICES ASSUME NEW k \in Keys
               PROVE  \/ eph[k] # 0 /\ eph[k] = pushed[k]
                      \/ /\ eph[k] = 0
                         /\ \/ shed[k] = pushed[k]
                            \/ \E i \in 1..Len(batch') : batch'[i] = <<k, pushed[k]>>
                            \/ /\ shown'[k].last = pushed[k]
                               /\ \A i \in 1..Len(batch') : batch'[i][1] # k
    BY <1>3 DEF NewestInv
  <2>1. CASE eph[k] # 0 \/ shed[k] = pushed[k]
    BY <2>1 DEF EphemeralInv, NewestInv
  <2>2. CASE eph[k] = 0 /\ \E i \in 1..Len(batch) : batch[i] = <<k, pushed[k]>>
    <3>1. PICK i \in 1..Len(batch) : batch[i] = <<k, pushed[k]>>
      BY <2>2
    <3>2. CASE i = 1
      <4>1. f[1] = k /\ f[2] = pushed[k]
        BY <1>2, <3>1, <3>2
      <4>2. shown'[k].last = pushed[k]
        BY <1>3, <4>1 DEF EphemeralInv, EphemeralTypes
      <4>3. \A j \in 1..Len(batch') : batch'[j][1] # k
        BY <1>2, <1>3, <4>1 DEF EphemeralInv, BatchDistinct
      <4> QED
        BY <2>2, <4>2, <4>3
    <3>3. CASE i # 1
      <4>1. i - 1 \in 1..Len(batch') /\ batch'[i - 1] = <<k, pushed[k]>>
        BY <1>2, <1>3, <3>1, <3>3
      <4> QED
        BY <2>2, <4>1
    <3> QED
      BY <3>2, <3>3
  <2>3. CASE /\ eph[k] = 0 /\ shown[k].last = pushed[k]
             /\ \A i \in 1..Len(batch) : batch[i][1] # k
    <3>1. f[1] # k
      BY <1>2, <2>3
    <3>2. shown'[k] = shown[k]
      BY <1>3, <3>1 DEF EphemeralInv, EphemeralTypes
    <3>3. \A i \in 1..Len(batch') : batch'[i][1] # k
      BY <1>2, <1>3, <2>3
    <3> QED
      BY <2>3, <3>2, <3>3
  <2> QED
    BY <2>1, <2>2, <2>3 DEF EphemeralInv, NewestInv
<1> QED
  BY <1>5, <1>6, <1>7, <1>8 DEF EphemeralInv

\* No other step touches the ephemeral half.
LEMMA NextEphemeralInv == EphemeralInv /\ [Next]_vars => EphemeralInv'
<1> SUFFICES ASSUME EphemeralInv, [Next]_vars PROVE EphemeralInv'
  OBVIOUS
<1>0. ASSUME UNCHANGED <<eph, order, batch, pushed, shown, shed>>
      PROVE  EphemeralInv'
  BY <1>0, ZenonT(30)
     DEF EphemeralInv, EphemeralTypes, EphemeralCoherent, BatchDistinct,
              NewestInv
<1>1. ASSUME NEW s \in Senders, CheckClosed(s) \/ Sender(s) PROVE EphemeralInv'
  <2>1. UNCHANGED ephVars
    BY <1>1 DEF Sender, CheckClosed, PushReliable, Signal, RefuseReliable,
                HandleRefusal
  <2> QED BY <1>0, <2>1
<1>2. ASSUME NEW k \in Keys, PushEphemeral(k) PROVE EphemeralInv'
  BY <1>2, PushKeeps
<1>3. CASE TakeBatch
  BY <1>3, TakeKeeps
<1>4. CASE WriteEphemeral
  BY <1>4, ShowKeeps
<1>5. CASE \/ WriterReliable \/ WriteReliable \/ WriterExit \/ WriterCancelled
           \/ WriteFails \/ WriterTicks \/ Flushed
           \/ EphemeralWriteFails \/ Close \/ PollDepth \/ PollInFlight
           \/ UNCHANGED vars
  <2>1. UNCHANGED ephVars
    BY <1>5 DEF WriterReliable, WriterWoken, TakeReliable, DrainedReliable,
       BeginReliableWrite, WriteReliable, EndReliableWrite, WriterExit, WriterCancelled, WriteFails,
       WriterTicks, Flushed, EphemeralWriteFails, Close, PollDepth, PollInFlight, vars
  <2> QED BY <1>0, <2>1
<1> QED
  BY <1>1, <1>2, <1>3, <1>4, <1>5 DEF Next, WriterEphemeral

\* newOutboundQueues starts with no stream.
LEMMA InitEphemeralInv == Init => EphemeralInv
<1> SUFFICES ASSUME Init PROVE EphemeralInv
  OBVIOUS
<1>1. /\ order = <<>> /\ batch = <<>> /\ eph = [k \in Keys |-> 0]
      /\ pushed = [k \in Keys |-> 0] /\ shed = [k \in Keys |-> 0]
      /\ shown = [k \in Keys |-> [last |-> 0, count |-> 0]]
  BY DEF Init
<1>2. EphemeralTypes
  BY <1>1 DEF EphemeralTypes
<1>3. EphemeralCoherent /\ BatchDistinct
  BY <1>1, SizeAssumption DEF EphemeralCoherent, BatchDistinct
<1>4. NewestInv
  BY <1>1 DEF NewestInv
<1> QED
  BY <1>2, <1>3, <1>4 DEF EphemeralInv

\* pushEphemeral and takeEphemeralBatch: map and order always describe the same
\* streams, each once, and never more than ephemeralSize of them, for any keys
\* and sizes.
THEOREM EphemeralHolds == Spec => []EphemeralCoherent
<1>1. EphemeralInv => EphemeralCoherent
  BY DEF EphemeralInv
<1> QED
  BY <1>1, InitEphemeralInv, NextEphemeralInv, PTL DEF Spec

\* A stream at rest was shown its last frame, or that frame was shed: coalescing,
\* shedding and batching lose nothing newer than what they keep.
THEOREM LatestHolds == Spec => []LatestShown
<1>1. EphemeralInv => LatestShown
  <2> SUFFICES ASSUME EphemeralInv, order = <<>>, batch = <<>>, NEW k \in Keys
               PROVE  pushed[k] \in {shown[k].last, shed[k]}
    BY DEF LatestShown
  <2>1. Len(order) = 0 /\ Len(batch) = 0
    OBVIOUS
  <2>2. eph[k] = 0
    BY <2>1 DEF EphemeralInv, EphemeralCoherent
  <2> QED
    BY <2>1, <2>2 DEF EphemeralInv, NewestInv
<1> QED
  BY <1>1, InitEphemeralInv, NextEphemeralInv, PTL DEF Spec
-----------------------------------------------------------------------------
(* The drop counters *)

\* What is missing of each stream, as a function.
MissingOf == [k \in Keys |-> Missing(k)]

\* A stream has one frame in the batch or none.
InBatch(k) == \E i \in 1..Len(batch) : batch[i][1] = k

\* So what waits of a stream is its queued frame and its frame in the batch.
LEMMA WaitingIs ==
    ASSUME EphemeralTypes, BatchDistinct, NEW k \in Keys
    PROVE  Waiting(k) = (IF eph[k] # 0 THEN 1 ELSE 0) + (IF InBatch(k) THEN 1 ELSE 0)
<1> DEFINE places == {i \in 1..Len(batch) : batch[i][1] = k}
<1>1. CASE InBatch(k)
  <2>1. PICK i \in 1..Len(batch) : batch[i][1] = k
    BY <1>1 DEF InBatch
  <2>2. places = {i}
    BY <2>1 DEF BatchDistinct
  <2>3. Cardinality(places) = 1
    BY <2>2, FS_Singleton
  <2> QED
    BY <1>1, <2>3 DEF Waiting
<1>2. CASE ~InBatch(k)
  <2>1. places = {}
    BY <1>2 DEF InBatch
  <2>2. Cardinality(places) = 0
    BY <2>1, FS_EmptySet
  <2> QED
    BY <1>2, <2>2 DEF Waiting
<1> QED
  BY <1>1, <1>2

\* What is missing is a number.
LEMMA MissingIs ==
    EphemeralTypes /\ BatchDistinct =>
        \A k \in Keys :
            /\ Missing(k) \in Int
            /\ Missing(k) = pushed[k] - shown[k].count
                            - ((IF eph[k] # 0 THEN 1 ELSE 0)
                               + (IF InBatch(k) THEN 1 ELSE 0))
<1> SUFFICES ASSUME EphemeralTypes, BatchDistinct, NEW k \in Keys
             PROVE  /\ Missing(k) \in Int
                    /\ Missing(k) = pushed[k] - shown[k].count
                                    - ((IF eph[k] # 0 THEN 1 ELSE 0)
                                       + (IF InBatch(k) THEN 1 ELSE 0))
  OBVIOUS
<1>1. pushed[k] \in Nat /\ shown[k].count \in Nat
  BY DEF EphemeralTypes
<1>2. Waiting(k) = (IF eph[k] # 0 THEN 1 ELSE 0) + (IF InBatch(k) THEN 1 ELSE 0)
  BY WaitingIs
<1> QED
  BY <1>1, <1>2 DEF Missing

\* The sums in DropsAccounted are sums of that function.
LEMMA DropsAre ==
    ASSUME NEW S \in SUBSET Keys, EphemeralTypes, BatchDistinct
    PROVE  MapThenSumSet(Missing, S) = Total(MissingOf, S)
<1>1. IsFiniteSet(S) /\ Summands(MissingOf, S)
  BY KeyAssumption, FS_Subset, MissingIs DEF Summands, MissingOf
<1>2. PICK it \in [Parts(S) -> Int] :
         /\ Solves(it, MissingOf, S)
         /\ \A jt : Solves(jt, MissingOf, S) => jt = it
         /\ Total(MissingOf, S) = it[S]
  BY <1>1, TotalIs, Zenon
<1>3. \A s \in SUBSET S : s # {} => Chosen(s) \in Keys
  BY DEF Chosen
<1>4. \A jt : Summed(MissingOf, SUBSET S, jt) =
               [s \in SUBSET S |-> IF s = {} THEN 0
                                   ELSE Missing(Chosen(s)) + jt[s \ {Chosen(s)}]]
  BY <1>3 DEF Summed, MissingOf
<1>5. it = CHOOSE jt : jt = [s \in SUBSET S |-> IF s = {} THEN 0
                                ELSE Missing(Chosen(s)) + jt[s \ {Chosen(s)}]]
  BY <1>2, <1>4, Zenon DEF Solves, Parts
<1> QED
  BY <1>2, <1>5, Zenon DEF MapThenSumSet, MapThenFoldSet, Chosen

\* Dropped and DroppedInk are those sums.
CountInv == dropped = Total(MissingOf, Keys) /\ droppedInk = Total(MissingOf, InkKeys)

\* The same after a step.
LEMMA MissingIsNext ==
    ASSUME EphemeralInv'
    PROVE  \A k \in Keys :
              /\ Missing(k)' \in Int
              /\ Missing(k)' = pushed'[k] - shown'[k].count
                               - ((IF eph'[k] # 0 THEN 1 ELSE 0)
                                  + (IF InBatch(k)' THEN 1 ELSE 0))
<1>1. EphemeralTypes' /\ BatchDistinct'
  BY DEF EphemeralInv
<1>2. (EphemeralTypes /\ BatchDistinct)' =>
        (\A k \in Keys :
            /\ Missing(k) \in Int
            /\ Missing(k) = pushed[k] - shown[k].count
                            - ((IF eph[k] # 0 THEN 1 ELSE 0)
                               + (IF InBatch(k) THEN 1 ELSE 0)))'
  BY MissingIs, PTL
<1> QED
  BY <1>1, <1>2

\* Steps that leave every stream as much missing as before keep the counts.
LEMMA CountKept ==
    ASSUME CountInv, UNCHANGED <<dropped, droppedInk>>,
           \A k \in Keys : Missing(k)' = Missing(k)
    PROVE  CountInv'
<1>1. MissingOf' = MissingOf
  BY DEF MissingOf
<1> QED
  BY <1>1 DEF CountInv

\* Shedding takes at most the oldest stream: before the push there were no more
\* than ephemeralSize of them.
LEMMA ShedsOne ==
    ASSUME EphemeralInv, NEW k \in Keys
    PROVE  Excess(Ordered(k)) \in {0, 1}
<1>1. order \in Seq(Keys) /\ Len(order) \in Nat /\ Len(order) <= MaxEphemeral
  BY LenProperties DEF EphemeralInv, EphemeralTypes, EphemeralCoherent
<1>2. Len(Append(order, k)) = Len(order) + 1
  BY <1>1, AppendProperties
<1>3. Len(Ordered(k)) \in {Len(order), Len(order) + 1}
  BY <1>2 DEF Ordered
<1> QED
  BY <1>1, <1>3, SizeAssumption DEF Excess

\* What pushEphemeral makes missing of each stream: the frame it replaces, and
\* the frame of a stream it sheds.
LEMMA PushMisses ==
    ASSUME EphemeralInv, EphemeralInv', NEW k \in Keys, PushEphemeral(k), NEW j \in Keys
    PROVE  Missing(j)' = Missing(j) + (IF j = k THEN Coalesced(k) ELSE 0)
                         + (IF \E i \in 1..Excess(Ordered(k)) : Ordered(k)[i] = j
                            THEN 1 ELSE 0)
<1> DEFINE all == Ordered(k)
           n == Excess(all)
           sheds == \E i \in 1..n : all[i] = j
           held(q) == IF q THEN 1 ELSE 0
<1>1. /\ all \in Seq(Keys) /\ AllDiffer(all)
      /\ Stands(j, all) <=> eph[j] # 0 \/ j = k
  BY OrderedStands DEF EphemeralInv
<1>2. n \in 0..Len(all) /\ Len(all) \in Nat
  BY <1>1, LenProperties, SizeAssumption DEF Excess
<1>3. /\ pushed' = [pushed EXCEPT ![k] = @ + 1]
      /\ order' = SubSeq(all, n + 1, Len(all))
      /\ UNCHANGED <<batch, shown>>
  BY DEF PushEphemeral
<1> HIDE DEF all, n
<1>4. Stands(j, order') <=> Stands(j, all) /\ ~sheds
  BY <1>1, <1>2, <1>3, CutStands
<1>5. eph'[j] # 0 <=> Stands(j, all) /\ ~sheds
  BY <1>4 DEF EphemeralInv, EphemeralCoherent, Stands
<1>6. sheds => Stands(j, all)
  BY <1>2 DEF Stands
<1>7. /\ pushed[j] \in Nat /\ shown[j].count \in Nat
      /\ pushed'[j] = IF j = k THEN pushed[j] + 1 ELSE pushed[j]
      /\ shown'[j].count = shown[j].count
  BY <1>3 DEF EphemeralInv, EphemeralTypes
<1>8. InBatch(j)' <=> InBatch(j)
  BY <1>3 DEF InBatch
<1>9. /\ Missing(j) = pushed[j] - shown[j].count - (held(eph[j] # 0) + held(InBatch(j)))
      /\ Missing(j)' = pushed'[j] - shown'[j].count
                       - (held(eph'[j] # 0) + held(InBatch(j)'))
  BY MissingIs, MissingIsNext DEF EphemeralInv
<1>10. Coalesced(k) = held(eph[k] # 0)
  BY DEF Coalesced
<1> DEFINE b == held(InBatch(j))
           p == pushed[j]
           c == shown[j].count
<1>11. b \in Int /\ held(InBatch(j)') = b
  BY <1>8
<1>12. /\ Missing(j) = p - c - (held(eph[j] # 0) + b)
       /\ Missing(j)' = pushed'[j] - c - (held(Stands(j, all) /\ ~sheds) + b)
  BY <1>5, <1>7, <1>9, <1>11
<1>13. p \in Nat /\ c \in Nat
  BY <1>7
<1> HIDE DEF b, p, c
<1>14. CASE j = k
  <2>1. pushed'[j] = p + 1 /\ Stands(j, all) /\ Coalesced(k) = held(eph[j] # 0)
    BY <1>1, <1>7, <1>10, <1>14 DEF p
  <2> HIDE DEF sheds
  <2> DEFINE h == held(Stands(j, all) /\ ~sheds)
             s == held(sheds)
  <2>2. Missing(j)' = p + 1 - c - (h + b) /\ h = 1 - s /\ s \in Int
    <3>1. h = 1 - s /\ s \in Int
      BY <2>1
    <3>2. Missing(j)' = pushed'[j] - c - (h + b)
      BY <1>12
    <3>3. pushed'[j] = p + 1
      BY <2>1
    <3> HIDE DEF h, s
    <3>4. Missing(j)' = p + 1 - c - (h + b)
      BY <1>11, <1>13, <3>1, <3>2, <3>3
    <3> QED
      BY <3>1, <3>4
  <2> HIDE DEF h
  <2>3. Missing(j)' = Missing(j) + Coalesced(k) + held(sheds)
    BY <1>11, <1>12, <1>13, <2>1, <2>2
  <2> QED
    BY <1>14, <2>3 DEF sheds, n, all
<1>15. CASE j # k
  <2>1. pushed'[j] = p /\ (Stands(j, all) <=> eph[j] # 0)
    BY <1>1, <1>7, <1>15 DEF p
  <2> HIDE DEF sheds
  <2>2. Missing(j)' = Missing(j) + held(sheds)
    BY <1>6, <1>11, <1>12, <1>13, <2>1
  <2>3. Missing(j) \in Int
    BY MissingIs DEF EphemeralInv
  <2> QED
    BY <1>15, <2>2, <2>3 DEF sheds, n, all
<1> QED
  BY <1>14, <1>15

\* pushEphemeral counts what it replaces and what it sheds, ink apart.
LEMMA PushCounts ==
    ASSUME EphemeralInv, EphemeralInv', CountInv, NEW k \in Keys, PushEphemeral(k)
    PROVE  CountInv'
<1> DEFINE all == Ordered(k)
           n == Excess(all)
           c == Coalesced(k)
           oldest == SubSeq(all, 1, n)
           mid == [j \in Keys |-> Missing(j) + (IF j = k THEN c ELSE 0)]
<1>1. /\ dropped' = dropped + c + n
      /\ droppedInk' = droppedInk + c * Ink(k) + InkIn(oldest)
  BY DEF PushEphemeral
<1>2. \A j \in Keys :
         Missing(j)' = Missing(j) + (IF j = k THEN c ELSE 0)
                       + (IF \E i \in 1..n : all[i] = j THEN 1 ELSE 0)
  BY PushMisses
<1>3. all \in Seq(Keys) /\ Len(all) \in Nat /\ n \in {0, 1} /\ n \in 0..Len(all)
  BY OrderedStands, ShedsOne, LenProperties, SizeAssumption DEF EphemeralInv, Excess
<1>4. c \in Int /\ c \in {0, 1}
  BY DEF Coalesced
<1>5. \A j \in Keys : Missing(j) \in Int
  BY MissingIs DEF EphemeralInv
<1>6. IsFiniteSet(Keys) /\ IsFiniteSet(InkKeys) /\ InkKeys \subseteq Keys
  BY KeyAssumption, FS_Subset
<1>7. Len(oldest) = n /\ \A i \in 1..n : oldest[i] = all[i]
  <2>1. \A i \in 1..n : all[i] \in Keys
    BY <1>3, LenProperties
  <2>2. Len(oldest) = IF 1 <= n THEN n - 1 + 1 ELSE 0
    BY <1>3, <2>1, SubSeqProperties
  <2>3. \A i \in 1..n : oldest[i] = all[i]
    BY <1>3, Cut
  <2> QED
    BY <1>3, <2>2, <2>3
<1>8. c * Ink(k) = IF k \in InkKeys THEN c ELSE 0
  BY <1>4 DEF Ink
<1> HIDE DEF all, n, c, oldest
<1>9. ASSUME NEW S \in SUBSET Keys, IsFiniteSet(S)
      PROVE  /\ Total(MissingOf, S) \in Int
             /\ Total(mid, S) \in Int
             /\ k \in S => Total(mid, S) = Total(MissingOf, S) + c
             /\ k \notin S => Total(mid, S) = Total(MissingOf, S)
             /\ Summands(mid, S)
  <2>1. Summands(MissingOf, S) /\ Summands(mid, S)
    BY <1>4, <1>5 DEF Summands, MissingOf
  <2>2. Raised(mid, MissingOf, S, k, c)
    BY <1>4, <1>5 DEF Raised, MissingOf
  <2> HIDE DEF mid
  <2>3. Grown(mid, MissingOf, S, k, c)
    BY <1>4, <1>9, <2>1, <2>2, TotalGrows
  <2> QED
    BY <1>4, <2>1, <2>3 DEF Grown
<1>10. CASE n = 0
  <2>1. MissingOf' = mid
    <3>1. \A j \in Keys : Missing(j)' = Missing(j) + (IF j = k THEN c ELSE 0)
      BY <1>2, <1>4, <1>5, <1>10
    <3> QED
      BY <3>1 DEF MissingOf
  <2>2. InkIn(oldest) = 0
    <3>1. {i \in 1..Len(oldest) : oldest[i] \in InkKeys} = {}
      BY <1>7, <1>10
    <3> QED
      BY <3>1, FS_EmptySet DEF InkIn
  <2> HIDE DEF mid
  <2>3. /\ Total(mid, Keys) = dropped + c
        /\ Total(mid, InkKeys) = droppedInk + (IF k \in InkKeys THEN c ELSE 0)
        /\ dropped \in Int /\ droppedInk \in Int
    BY <1>4, <1>6, <1>9 DEF CountInv
  <2>4. dropped' = Total(mid, Keys) /\ droppedInk' = Total(mid, InkKeys)
    BY <1>1, <1>4, <1>8, <1>10, <2>2, <2>3
  <2> QED
    BY <2>1, <2>4 DEF CountInv
<1>11. CASE n = 1
  <2> DEFINE o == all[1]
  <2>1. o \in Keys
    BY <1>3, <1>11, LenProperties
  <2>2. \A j \in Keys : MissingOf'[j] = mid[j] + (IF j = o THEN 1 ELSE 0)
    BY <1>2, <1>11 DEF MissingOf
  <2>3. InkIn(oldest) = IF o \in InkKeys THEN 1 ELSE 0
    <3>1. {i \in 1..Len(oldest) : oldest[i] \in InkKeys} =
             IF o \in InkKeys THEN {1} ELSE {}
      BY <1>7, <1>11
    <3> QED
      BY <3>1, FS_EmptySet, FS_Singleton DEF InkIn
  <2> HIDE DEF mid, o
  <2>4. ASSUME NEW S \in SUBSET Keys, IsFiniteSet(S)
        PROVE  /\ o \in S => Total(MissingOf', S) = Total(mid, S) + 1
               /\ o \notin S => Total(MissingOf', S) = Total(mid, S)
    <3>1. Summands(mid, S)
      BY <1>9, <2>4
    <3>2. Raised(MissingOf', mid, S, o, 1)
      BY <2>2, <3>1 DEF Raised, Summands
    <3>3. Grown(MissingOf', mid, S, o, 1)
      BY <2>4, <3>1, <3>2, TotalGrows
    <3> QED
      BY <3>3 DEF Grown
  <2>5. /\ Total(mid, Keys) = dropped + c
        /\ Total(mid, InkKeys) = droppedInk + (IF k \in InkKeys THEN c ELSE 0)
        /\ dropped \in Int /\ droppedInk \in Int
    BY <1>4, <1>6, <1>9 DEF CountInv
  <2>6. Total(MissingOf', Keys) = Total(mid, Keys) + 1
    BY <1>6, <2>1, <2>4
  <2>7. Total(MissingOf', InkKeys) = Total(mid, InkKeys)
                                       + (IF o \in InkKeys THEN 1 ELSE 0)
    <3>1. Total(mid, InkKeys) \in Int
      BY <1>6, <1>9
    <3> QED
      BY <1>6, <2>4, <3>1
  <2>8. dropped' = Total(MissingOf', Keys) /\ droppedInk' = Total(MissingOf', InkKeys)
    BY <1>1, <1>4, <1>8, <1>11, <2>3, <2>5, <2>6, <2>7
  <2> QED
    BY <2>8 DEF CountInv
<1> QED
  BY <1>3, <1>10, <1>11

\* takeEphemeralBatch moves frames from the queue to the batch: none is missing
\* that was not before.
LEMMA TakeCounts ==
    ASSUME EphemeralInv, EphemeralInv', CountInv, TakeBatch
    PROVE  CountInv'
<1> DEFINE n == BatchSize
           held(p) == IF p THEN 1 ELSE 0
<1>1. /\ order \in Seq(Keys) /\ Len(order) \in Nat
      /\ \A k \in Keys : Stands(k, order) <=> eph[k] # 0
  BY LenProperties DEF EphemeralInv, EphemeralTypes, EphemeralCoherent, Stands
<1>2. n \in 0..Len(order) /\ n \in Nat
  BY <1>1, SizeAssumption DEF BatchSize
<1>3. /\ batch = <<>>
      /\ batch' = [i \in 1..n |-> <<order[i], eph[order[i]]>>]
      /\ eph' = [k \in Keys |-> IF \E i \in 1..n : order[i] = k THEN 0 ELSE eph[k]]
      /\ UNCHANGED <<pushed, shown, dropped, droppedInk>>
  BY DEF TakeBatch
<1> HIDE DEF n
<1>4. Len(batch') = n /\ \A i \in 1..n : batch'[i][1] = order[i]
  <2>1. batch' \in Seq(Keys \X Nat)
    BY DEF EphemeralInv, EphemeralTypes
  <2>2. DOMAIN batch' = 1..Len(batch') /\ Len(batch') \in Nat
    BY <2>1, LenProperties
  <2>3. DOMAIN batch' = 1..n
    BY <1>3
  <2> DEFINE m == Len(batch')
  <2>4. m = n
    <3>1. m \in Nat /\ \A i \in Int : (1 <= i /\ i <= m) <=> (1 <= i /\ i <= n)
      <4>1. \A i : i \in 1..m <=> i \in 1..n
        BY <2>2, <2>3
      <4> QED
        BY <1>2, <2>2, <4>1
    <3> HIDE DEF m
    <3>2. m <= n /\ n <= m
      BY <1>2, <3>1
    <3> QED
      BY <1>2, <3>1, <3>2
  <2> QED
    BY <1>3, <2>4
<1>5. ASSUME NEW k \in Keys PROVE Missing(k)' = Missing(k)
  <2> DEFINE taken == \E i \in 1..n : order[i] = k
  <2>1. InBatch(k)' <=> taken
    BY <1>4 DEF InBatch
  <2>2. ~InBatch(k)
    <3>1. Len(batch) = 0
      BY <1>3
    <3> QED
      BY <3>1 DEF InBatch
  <2>3. taken => eph[k] # 0
    BY <1>1, <1>2 DEF Stands
  <2>4. eph'[k] # 0 <=> eph[k] # 0 /\ ~taken
    BY <1>3
  <2>5. /\ Missing(k) = pushed[k] - shown[k].count - (held(eph[k] # 0) + held(InBatch(k)))
        /\ Missing(k)' = pushed[k] - shown[k].count
                         - (held(eph'[k] # 0) + held(InBatch(k)'))
    BY <1>3, MissingIs, MissingIsNext DEF EphemeralInv
  <2> HIDE DEF taken
  <2>6. held(eph'[k] # 0) + held(InBatch(k)') = held(eph[k] # 0) + held(InBatch(k))
    BY <2>1, <2>2, <2>3, <2>4
  <2> QED
    BY <2>5, <2>6
<1> QED
  BY <1>3, <1>5, CountKept

\* A frame that was in the batch is one shown more and one waiting less.
LEMMA ShowCounts ==
    ASSUME EphemeralInv, EphemeralInv', CountInv, WriteEphemeral
    PROVE  CountInv'
<1> DEFINE f == Head(batch)
           held(p) == IF p THEN 1 ELSE 0
<1>1. batch \in Seq(Keys \X Nat) /\ batch # <<>>
  BY DEF EphemeralInv, EphemeralTypes, WriteEphemeral
<1>2. /\ f = batch[1] /\ f \in Keys \X Nat /\ Tail(batch) \in Seq(Keys \X Nat)
      /\ Len(Tail(batch)) = Len(batch) - 1
      /\ \A i \in 1..Len(Tail(batch)) : Tail(batch)[i] = batch[i + 1]
      /\ Len(batch) \in Nat \ {0}
  BY <1>1, HeadTailProperties, LenProperties, EmptySeq
<1>3. /\ shown' = [shown EXCEPT ![f[1]] = [last |-> f[2], count |-> @.count + 1]]
      /\ batch' = Tail(batch)
      /\ UNCHANGED <<eph, pushed, dropped, droppedInk>>
  BY DEF WriteEphemeral
<1> HIDE DEF f
<1>4. ASSUME NEW k \in Keys PROVE Missing(k)' = Missing(k)
  <2>1. /\ pushed[k] \in Nat /\ shown[k].count \in Nat
        /\ shown'[k].count = shown[k].count + held(k = f[1])
    <3>1. /\ pushed[k] \in Nat /\ shown[k].count \in Nat
          /\ k \in DOMAIN shown /\ f[1] \in DOMAIN shown
      BY <1>2 DEF EphemeralInv, EphemeralTypes
    <3>2. CASE k = f[1]
      <4>1. shown'[k] = [last |-> f[2], count |-> shown[k].count + 1]
        BY <1>3, <3>1, <3>2
      <4> QED
        BY <3>1, <3>2, <4>1
    <3>3. CASE k # f[1]
      <4>1. shown'[k] = shown[k]
        BY <1>3, <3>1, <3>3
      <4> QED
        BY <3>1, <3>3, <4>1
    <3> QED
      BY <3>2, <3>3
  <2>2. InBatch(k) <=> InBatch(k)' \/ k = f[1]
    <3>1. ASSUME NEW i \in 1..Len(batch), batch[i][1] = k
          PROVE  InBatch(k)' \/ k = f[1]
      <4>1. CASE i = 1
        BY <1>2, <3>1, <4>1
      <4>2. CASE i # 1
        <5>1. i - 1 \in 1..Len(batch') /\ batch'[i - 1][1] = k
          BY <1>2, <1>3, <3>1, <4>2
        <5> QED
          BY <5>1 DEF InBatch
      <4> QED
        BY <4>1, <4>2
    <3>2. ASSUME NEW i \in 1..Len(batch'), batch'[i][1] = k PROVE InBatch(k)
      <4>1. i + 1 \in 1..Len(batch) /\ batch[i + 1][1] = k
        BY <1>2, <1>3, <3>2
      <4> QED
        BY <4>1 DEF InBatch
    <3>3. k = f[1] => InBatch(k)
      BY <1>2 DEF InBatch
    <3> QED
      BY <3>1, <3>2, <3>3 DEF InBatch
  <2>3. k = f[1] => ~InBatch(k)'
    BY <1>2, <1>3 DEF InBatch, EphemeralInv, BatchDistinct
  <2>4. /\ Missing(k) = pushed[k] - shown[k].count - (held(eph[k] # 0) + held(InBatch(k)))
        /\ Missing(k)' = pushed[k] - shown'[k].count
                         - (held(eph[k] # 0) + held(InBatch(k)'))
    BY <1>3, MissingIs, MissingIsNext DEF EphemeralInv
  <2> QED
    BY <2>1, <2>2, <2>3, <2>4
<1> QED
  BY <1>3, <1>4, CountKept

\* No other step pushes, shows or drops an ephemeral frame.
LEMMA NextCountInv == EphemeralInv /\ CountInv /\ [Next]_vars => CountInv'
<1> SUFFICES ASSUME EphemeralInv, CountInv, [Next]_vars PROVE CountInv'
  OBVIOUS
<1>0. EphemeralInv'
  BY NextEphemeralInv
<1>1. ASSUME UNCHANGED ephVars PROVE CountInv'
  BY <1>1, CountKept DEF Missing, Waiting
<1>2. ASSUME NEW s \in Senders, CheckClosed(s) \/ Sender(s) PROVE UNCHANGED ephVars
  BY <1>2 DEF Sender, CheckClosed, PushReliable, Signal, RefuseReliable, HandleRefusal
<1>3. CASE \/ WriterReliable \/ WriteReliable \/ WriterExit \/ WriterCancelled
           \/ WriteFails \/ WriterTicks \/ Flushed
           \/ EphemeralWriteFails \/ Close \/ PollDepth \/ PollInFlight
           \/ UNCHANGED vars
  <2>1. UNCHANGED ephVars
    BY <1>3 DEF WriterReliable, WriterWoken, TakeReliable, DrainedReliable,
       BeginReliableWrite, WriteReliable, EndReliableWrite, WriterExit, WriterCancelled, WriteFails,
       WriterTicks, Flushed, EphemeralWriteFails, Close, PollDepth, PollInFlight, vars
  <2> QED BY <1>1, <2>1
<1> QED
  BY <1>0, <1>1, <1>2, <1>3, PushCounts, TakeCounts, ShowCounts DEF Next, WriterEphemeral

\* Before the first push nothing is missing.
LEMMA InitCountInv == Init => CountInv
<1> SUFFICES ASSUME Init PROVE CountInv
  OBVIOUS
<1>1. \A k \in Keys : Missing(k) = 0
  <2>1. EphemeralTypes /\ BatchDistinct
    BY InitEphemeralInv DEF EphemeralInv
  <2>2. Len(batch) = 0
    BY DEF Init
  <2>3. \A k \in Keys : ~InBatch(k) /\ eph[k] = 0 /\ pushed[k] = 0 /\ shown[k].count = 0
    BY <2>2 DEF Init, InBatch
  <2> QED
    BY <2>1, <2>3, MissingIs
<1>2. \A k \in Keys : MissingOf[k] = 0
  BY <1>1 DEF MissingOf
<1>3. IsFiniteSet(Keys) /\ IsFiniteSet(InkKeys) /\ InkKeys \subseteq Keys
  BY KeyAssumption, FS_Subset
<1>4. Total(MissingOf, Keys) = 0 /\ Total(MissingOf, InkKeys) = 0
  BY <1>2, <1>3, TotalZero
<1> QED
  BY <1>4 DEF CountInv, Init

\* Dropped and DroppedInk of pushEphemeral are exact: for any number of streams
\* and any queue size every frame pushed was shown, waits, or was counted, once.
THEOREM DropsCounted == Spec => []DropsAccounted
<1>1. EphemeralInv /\ CountInv => DropsAccounted
  <2> SUFFICES ASSUME EphemeralInv, CountInv PROVE DropsAccounted
    OBVIOUS
  <2>1. EphemeralTypes /\ BatchDistinct
    BY DEF EphemeralInv
  <2>2. Keys \in SUBSET Keys /\ InkKeys \in SUBSET Keys
    BY KeyAssumption
  <2>3. /\ MapThenSumSet(Missing, Keys) = Total(MissingOf, Keys)
        /\ MapThenSumSet(Missing, InkKeys) = Total(MissingOf, InkKeys)
    BY <2>1, <2>2, DropsAre
  <2> QED
    BY <2>3 DEF CountInv, DropsAccounted
<1> QED
  BY <1>1, InitEphemeralInv, NextEphemeralInv, InitCountInv, NextCountInv, PTL DEF Spec
=============================================================================
