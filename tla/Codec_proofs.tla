---------------------------- MODULE Codec_proofs ----------------------------
(***************************************************************************)
(* What the readers of the codec make of what its writers write, for every *)
(* width of the words and every list of values: they read it back, and     *)
(* stop where it ends.  The inductions are over the numbers 0, 1, 2, ...,  *)
(* by a set of numbers that holds 0 and with each number the next.         *)
(***************************************************************************)
EXTENDS Codec, SequenceTheorems, WellFoundedInduction, TLAPS

(* Induction *)

\* Every non-empty set of sizes has a smallest.
LEMMA LeastNat ==
    ASSUME NEW T \in SUBSET Nat, T # {}
    PROVE  \E m \in T : \A y \in T : m <= y
<1>1. PICK m \in T : \A y \in T : ~(<<y, m>> \in OpToRel(<, Nat))
  BY NatLessThanWellFounded, WFMin, Zenon
<1>2. \A y \in T : ~(y < m)
  BY <1>1 DEF OpToRel
<1> QED
  BY <1>2

\* A set with 0 and, with each number, the next one has all numbers.
LEMMA Induction ==
    ASSUME NEW G, 0 \in G, \A n \in Nat : n \in G => n + 1 \in G
    PROVE  \A n \in Nat : n \in G
<1> DEFINE Bad == {n \in Nat : n \notin G}
<1> SUFFICES ASSUME Bad # {} PROVE FALSE
  OBVIOUS
<1>1. PICK m \in Bad : \A y \in Bad : m <= y
  BY LeastNat
<1>2. m \in Nat /\ m \notin G /\ m # 0
  BY <1>1
<1>3. m - 1 \in Nat /\ (m - 1) + 1 = m /\ ~(m <= m - 1)
  BY <1>2
<1>4. m - 1 \in G
  BY <1>1, <1>3
<1> QED
  BY <1>2, <1>3, <1>4

\* A non-empty set of numbers has a Min.
LEMMA MinIn == ASSUME NEW S \in SUBSET Nat, S # {} PROVE Min(S) \in S
<1>1. \E m \in S : \A y \in S : m <= y
  BY LeastNat
<1> QED
  BY <1>1, Zenon DEF Min

-----------------------------------------------------------------------------
(* Sequences of whatever cells *)

\* The cells of a sequence.
CellsOf(s) == {s[i] : i \in DOMAIN s}

\* A sequence, whatever its cells are: numbers, codes, names, envelopes.
IsSeq(s) == s \in Seq(CellsOf(s))

\* A sequence of anything is one of its own cells.
LEMMA SeqIs == ASSUME NEW T, NEW s \in Seq(T) PROVE IsSeq(s)
<1>1. Len(s) \in Nat /\ s \in [1..Len(s) -> T] /\ DOMAIN s = 1..Len(s)
  BY LenProperties
<1>2. s \in [1..Len(s) -> CellsOf(s)]
  BY <1>1 DEF CellsOf
<1> QED
  BY <1>1, <1>2, SeqDef DEF IsSeq

\* A function on 1..n is a sequence.
LEMMA ListIs ==
    ASSUME NEW n \in Nat, NEW s, s = [i \in 1..n |-> s[i]]
    PROVE  IsSeq(s) /\ Len(s) = n
<1>1. DOMAIN s = 1..n
  OBVIOUS
<1>2. s \in [1..n -> CellsOf(s)]
  BY <1>1 DEF CellsOf
<1>3. s \in Seq(CellsOf(s))
  BY <1>2, SeqDef
<1>4. Len(s) = n
  BY <1>2, <1>3
<1> QED
  BY <1>3, <1>4 DEF IsSeq

\* Two sequences are sequences over one set.
LEMMA OverOne ==
    ASSUME NEW s, NEW t, IsSeq(s), IsSeq(t)
    PROVE  s \in Seq(CellsOf(s) \cup CellsOf(t)) /\ t \in Seq(CellsOf(s) \cup CellsOf(t))
  BY SeqMonotonic DEF IsSeq

\* What \o makes of two sequences.
Joins(u, s, t) ==
    /\ Len(u) = Len(s) + Len(t)
    /\ \A i \in 1..Len(s) : u[i] = s[i]
    /\ \A i \in 1..Len(t) : u[Len(s) + i] = t[i]

\* Two sequences, one after the other, are a sequence.
LEMMA JoinedSeq ==
    ASSUME NEW s, NEW t, IsSeq(s), IsSeq(t)
    PROVE  IsSeq(s \o t) /\ Joins(s \o t, s, t)
<1> DEFINE T == CellsOf(s) \cup CellsOf(t)
<1>1. s \in Seq(T) /\ t \in Seq(T)
  BY OverOne
<1> HIDE DEF T
<1>2. Len(s) \in Nat /\ Len(t) \in Nat
  BY <1>1, LenProperties
<1>3. /\ s \o t \in Seq(T)
      /\ Len(s \o t) = Len(s) + Len(t)
      /\ \A i \in 1..(Len(s) + Len(t)) :
            (s \o t)[i] = IF i <= Len(s) THEN s[i] ELSE t[i - Len(s)]
  BY <1>1, ConcatProperties
<1>4. IsSeq(s \o t)
  BY <1>3, SeqIs
<1> QED
  BY <1>2, <1>3, <1>4 DEF Joins

\* FlattenSeq's recursion over the first n sequences of ss.
Flattens(g, ss, n) ==
    g = [i \in 1..n |-> IF i = 1 THEN ss[i] ELSE g[i-1] \o ss[i]]

\* It has a solution.
LEMMA FlattensExists == ASSUME NEW ss PROVE \A n \in Nat : \E g : Flattens(g, ss, n)
<1> DEFINE Bad == {n \in Nat : ~\E g : Flattens(g, ss, n)}
<1>1. 0 \notin Bad
  <2> DEFINE g == [i \in 1..0 |-> 0]
  <2>1. Flattens(g, ss, 0)
    BY DEF Flattens
  <2> QED
    BY <2>1
<1>2. ASSUME NEW n \in Nat, n \notin Bad PROVE n + 1 \notin Bad
  <2>1. PICK g : Flattens(g, ss, n)
    BY <1>2
  <2> DEFINE h == [i \in 1..(n + 1) |-> IF i = 1 THEN ss[i] ELSE g[i-1] \o ss[i]]
  <2>2. ASSUME NEW i \in 1..n PROVE h[i] = g[i]
    <3>1. g[i] = IF i = 1 THEN ss[i] ELSE g[i-1] \o ss[i]
      BY <2>1 DEF Flattens
    <3>2. i \in 1..(n + 1)
      OBVIOUS
    <3>3. h[i] = IF i = 1 THEN ss[i] ELSE g[i-1] \o ss[i]
      BY <3>2
    <3> HIDE DEF h
    <3> QED
      BY <3>1, <3>3
  <2>3. ASSUME NEW i \in 1..(n + 1), i # 1 PROVE h[i-1] = g[i-1]
    <3>1. i - 1 \in 1..n
      BY <2>3
    <3> HIDE DEF h
    <3> QED
      BY <2>2, <3>1
  <2>4. Flattens(h, ss, n + 1)
    BY <2>3 DEF Flattens
  <2> QED
    BY <2>4
<1>3. Bad = {}
  <2> SUFFICES ASSUME Bad # {} PROVE FALSE
    OBVIOUS
  <2>1. PICK m \in Bad : \A y \in Bad : m <= y
    BY LeastNat
  <2>2. m # 0 /\ m \in Nat
    BY <1>1, <2>1
  <2>3. m - 1 \in Nat /\ m - 1 \notin Bad
    BY <2>1, <2>2
  <2>4. m - 1 + 1 \notin Bad
    BY <1>2, <2>3
  <2> QED
    BY <2>1, <2>2, <2>4
<1> QED
  BY <1>3

\* What it flattens are sequences over T, and so is what comes of them.
LEMMA FlattenedSeq ==
    ASSUME NEW T, NEW ss \in Seq(Seq(T))
    PROVE  FlattenSeq(ss) \in Seq(T)
<1>1. Len(ss) \in Nat /\ \A i \in 1..Len(ss) : ss[i] \in Seq(T)
  BY LenProperties, ElementOfSeq
<1>2. CASE Len(ss) = 0
  <2>1. ss = <<>>
    BY <1>2, EmptySeq
  <2> QED
    BY <1>2, <2>1, EmptySeq DEF FlattenSeq
<1>3. CASE Len(ss) # 0
  <2> DEFINE n == Len(ss)
             g == CHOOSE f : Flattens(f, ss, n)
  <2>1. Flattens(g, ss, n)
    BY <1>1, FlattensExists
  <2>2. FlattenSeq(ss) = g[n]
    BY <1>3, Zenon DEF FlattenSeq, Flattens
  <2> HIDE DEF g
  <2> DEFINE Bad == {i \in 1..n : g[i] \notin Seq(T)}
  <2>3. Bad = {}
    <3> SUFFICES ASSUME Bad # {} PROVE FALSE
      OBVIOUS
    <3>0. Bad \in SUBSET Nat
      BY <1>1
    <3>1. PICK m \in Bad : \A y \in Bad : m <= y
      BY <3>0, LeastNat
    <3>2. m \in 1..n /\ g[m] \notin Seq(T) /\ ss[m] \in Seq(T)
      BY <1>1, <3>1
    <3>3. g[m] = IF m = 1 THEN ss[m] ELSE g[m-1] \o ss[m]
      BY <2>1, <3>2 DEF Flattens
    <3>4. m # 1
      BY <3>2, <3>3
    <3>5. m - 1 \in 1..n /\ m - 1 \notin Bad
      BY <1>1, <3>1, <3>2, <3>4
    <3>6. g[m-1] \in Seq(T)
      BY <3>5
    <3>7. g[m-1] \o ss[m] \in Seq(T)
      BY <3>2, <3>6, ConcatProperties
    <3> QED
      BY <3>2, <3>3, <3>4, <3>7
  <2>4. n \in 1..n
    BY <1>1, <1>3
  <2> QED
    BY <2>2, <2>3, <2>4
<1> QED
  BY <1>2, <1>3

\* Sequences put one after the other are a sequence.
LEMMA FlattenedIs ==
    ASSUME NEW n \in Nat, NEW ss, ss = [i \in 1..n |-> ss[i]],
           \A i \in 1..n : IsSeq(ss[i])
    PROVE  IsSeq(FlattenSeq(ss))
<1> DEFINE T == UNION {CellsOf(ss[i]) : i \in 1..n}
<1>1. ASSUME NEW i \in 1..n PROVE ss[i] \in Seq(T)
  <2>1. CellsOf(ss[i]) \subseteq T
    OBVIOUS
  <2>2. ss[i] \in Seq(CellsOf(ss[i]))
    BY DEF IsSeq
  <2> HIDE DEF T
  <2> QED
    BY <2>1, <2>2, SeqMonotonic
<1> HIDE DEF T
<1>2. ss \in [1..n -> Seq(T)]
  BY <1>1
<1>3. ss \in Seq(Seq(T))
  BY <1>2, SeqDef
<1>4. FlattenSeq(ss) \in Seq(T)
  BY <1>3, FlattenedSeq
<1> QED
  BY <1>4, SeqIs
\* What Append makes of a sequence.
Appends(u, s, e) ==
    /\ IsSeq(u) /\ Len(u) = Len(s) + 1
    /\ \A i \in 1..Len(s) : u[i] = s[i]
    /\ u[Len(s) + 1] = e

\* Append keeps the cells and adds one.
LEMMA AppendIs == ASSUME NEW s, IsSeq(s), NEW e PROVE Appends(Append(s, e), s, e)
<1> DEFINE T == CellsOf(s) \cup {e}
<1>1. s \in Seq(T) /\ e \in T
  BY SeqMonotonic DEF IsSeq
<1> HIDE DEF T
<1>2. /\ Append(s, e) \in Seq(T) /\ Len(Append(s, e)) = Len(s) + 1
      /\ \A i \in 1..Len(s) : Append(s, e)[i] = s[i]
      /\ Append(s, e)[Len(s) + 1] = e
  BY <1>1, AppendProperties
<1>3. IsSeq(Append(s, e))
  BY <1>2, SeqIs
<1> QED
  BY <1>2, <1>3 DEF Appends

\* The part of a sequence from cell a to cell b.
Part(u, s, a, b) ==
    /\ IsSeq(u) /\ Len(u) = b - a + 1
    /\ \A i \in 1..(b - a + 1) : u[i] = s[a + i - 1]

\* SubSeq within the ends of a sequence is that part.
LEMMA PartIs ==
    ASSUME NEW s, IsSeq(s), NEW a \in 1..(Len(s) + 1), NEW b \in (a - 1)..Len(s)
    PROVE  Part(SubSeq(s, a, b), s, a, b)
<1> DEFINE T == CellsOf(s)
<1>1. Len(s) \in Nat /\ \A i \in 1..Len(s) : s[i] \in T
  BY LenProperties DEF IsSeq
<1> HIDE DEF T
<1>2. a \in Int /\ b \in Int /\ a <= b + 1 /\ \A i \in a..b : s[i] \in T
  BY <1>1
<1>3. /\ SubSeq(s, a, b) \in Seq(T)
      /\ Len(SubSeq(s, a, b)) = IF a <= b THEN b - a + 1 ELSE 0
      /\ \A i \in 1..(b - a + 1) : SubSeq(s, a, b)[i] = s[a + i - 1]
  BY <1>2, SubSeqProperties
<1>4. Len(SubSeq(s, a, b)) = b - a + 1
  BY <1>2, <1>3
<1>5. IsSeq(SubSeq(s, a, b))
  BY <1>3, SeqIs
<1> QED
  BY <1>3, <1>4, <1>5 DEF Part

\* Two sequences with the same cells are one.
LEMMA SameSeq ==
    ASSUME NEW s, NEW t, IsSeq(s), IsSeq(t), Len(s) = Len(t),
           \A i \in 1..Len(s) : s[i] = t[i]
    PROVE  s = t
<1>1. /\ s \in Seq(CellsOf(s) \cup CellsOf(t)) /\ t \in Seq(CellsOf(s) \cup CellsOf(t))
  BY OverOne
<1> QED
  BY <1>1, SeqEqual

\* A sequence has a length.
LEMMA LenIs == ASSUME NEW s, IsSeq(s) PROVE Len(s) \in Nat /\ DOMAIN s = 1..Len(s)
  BY LenProperties DEF IsSeq

\* Joining two sequences adds their lengths.
LEMMA JoinedLen ==
    ASSUME NEW s, NEW t, IsSeq(s), IsSeq(t) PROVE Len(s \o t) = Len(s) + Len(t)
  BY JoinedSeq DEF Joins

\* Three sequences, joined in either order.
Regroups(s, t, u) == (s \o t) \o u = s \o (t \o u)

\* Joining is associative.
LEMMA JoinedAssoc ==
    ASSUME NEW s, NEW t, NEW u, IsSeq(s), IsSeq(t), IsSeq(u)
    PROVE  Regroups(s, t, u)
<1> DEFINE T == CellsOf(s) \cup CellsOf(t) \cup CellsOf(u)
<1>1. s \in Seq(T) /\ t \in Seq(T) /\ u \in Seq(T)
  <2>1. CellsOf(s) \subseteq T /\ CellsOf(t) \subseteq T /\ CellsOf(u) \subseteq T
    OBVIOUS
  <2> HIDE DEF T
  <2> QED
    BY <2>1, SeqMonotonic DEF IsSeq
<1> HIDE DEF T
<1> QED
  BY <1>1, ConcatAssociative DEF Regroups

\* Nothing before or after a sequence leaves it as it is.
LEMMA JoinedEmpty == ASSUME NEW s, IsSeq(s) PROVE s \o <<>> = s /\ <<>> \o s = s
  BY ConcatEmptySeq DEF IsSeq

\* The empty sequence.
LEMMA EmptyIs == IsSeq(<<>>) /\ Len(<<>>) = 0
  BY EmptySeq, SeqIs

\* One cell.
LEMMA OneIs == ASSUME NEW x PROVE IsSeq(<<x>>) /\ Len(<<x>>) = 1 /\ <<x>>[1] = x
<1>1. <<x>> \in Seq({x}) /\ Len(<<x>>) = 1 /\ <<x>>[1] = x
  OBVIOUS
<1> QED
  BY <1>1, SeqIs

\* Behind the first of two parts comes the second.
LEMMA JoinedFrom ==
    ASSUME NEW s, NEW t, IsSeq(s), IsSeq(t)
    PROVE  From(s \o t, Len(s) + 1) = t
<1> DEFINE u == s \o t
           w == From(u, Len(s) + 1)
<1>1. IsSeq(u) /\ Joins(u, s, t) /\ Len(u) = Len(s) + Len(t)
  <2>1. IsSeq(u) /\ Joins(u, s, t)
    BY JoinedSeq, Zenon
  <2> QED
    BY <2>1, JoinedLen
<1>2. Len(s) \in Nat /\ Len(t) \in Nat
  BY LenIs
<1> HIDE DEF u
<1>3. Part(w, u, Len(s) + 1, Len(u))
  <2>1. Len(s) + 1 \in 1..(Len(u) + 1) /\ Len(u) \in (Len(s) + 1 - 1)..Len(u)
    BY <1>1, <1>2
  <2> QED
    BY <1>1, <2>1, PartIs DEF From
<1> HIDE DEF w
<1>4. IsSeq(w) /\ Len(w) = Len(t)
  BY <1>1, <1>2, <1>3 DEF Part
<1>5. \A i \in 1..Len(t) : w[i] = t[i]
  <2> SUFFICES ASSUME NEW i \in 1..Len(t) PROVE w[i] = t[i]
    OBVIOUS
  <2>1. i \in 1..(Len(u) - (Len(s) + 1) + 1) /\ Len(s) + 1 + i - 1 = Len(s) + i
    BY <1>1, <1>2
  <2>2. w[i] = u[Len(s) + i]
    BY <1>3, <2>1 DEF Part
  <2> QED
    BY <1>1, <2>2 DEF Joins
<1>6. w = t
  BY <1>4, <1>5, SameSeq
<1> QED
  BY <1>6 DEF w, u

\* As many cells as the first part has are the first part.
LEMMA JoinedFirst ==
    ASSUME NEW s, NEW t, IsSeq(s), IsSeq(t)
    PROVE  SubSeq(s \o t, 1, Len(s)) = s
<1> DEFINE u == s \o t
           w == SubSeq(u, 1, Len(s))
<1>1. IsSeq(u) /\ Joins(u, s, t) /\ Len(u) = Len(s) + Len(t)
  <2>1. IsSeq(u) /\ Joins(u, s, t)
    BY JoinedSeq, Zenon
  <2> QED
    BY <2>1, JoinedLen
<1>2. Len(s) \in Nat /\ Len(t) \in Nat
  BY LenIs
<1> HIDE DEF u
<1>3. Part(w, u, 1, Len(s))
  <2>1. 1 \in 1..(Len(u) + 1) /\ Len(s) \in (1 - 1)..Len(u)
    BY <1>1, <1>2
  <2> QED
    BY <1>1, <2>1, PartIs
<1> HIDE DEF w
<1>4. IsSeq(w) /\ Len(w) = Len(s)
  BY <1>1, <1>2, <1>3 DEF Part
<1>5. \A i \in 1..Len(s) : w[i] = s[i]
  <2> SUFFICES ASSUME NEW i \in 1..Len(s) PROVE w[i] = s[i]
    OBVIOUS
  <2>1. i \in 1..(Len(s) - 1 + 1) /\ 1 + i - 1 = i
    BY <1>1, <1>2
  <2>2. w[i] = u[i]
    BY <1>3, <2>1 DEF Part
  <2> QED
    BY <1>1, <2>2 DEF Joins
<1>6. w = s
  BY <1>2, <1>4, <1>5, SameSeq
<1> QED
  BY <1>6 DEF w, u

\* A sequence is its first n cells and the rest.
SplitAt(s, n) ==
    /\ IsSeq(SubSeq(s, 1, n)) /\ Len(SubSeq(s, 1, n)) = n
    /\ IsSeq(From(s, n + 1)) /\ Len(From(s, n + 1)) = Len(s) - n
    /\ SubSeq(s, 1, n) \o From(s, n + 1) = s

\* Every sequence can be split at each of its cells.
LEMMA Splits == ASSUME NEW s, IsSeq(s), NEW n \in 0..Len(s) PROVE SplitAt(s, n)
<1> DEFINE p == SubSeq(s, 1, n)
           q == From(s, n + 1)
<1>1. Len(s) \in Nat
  BY LenIs
<1>2. Part(p, s, 1, n)
  <2>1. 1 \in 1..(Len(s) + 1) /\ n \in (1 - 1)..Len(s)
    BY <1>1
  <2> QED
    BY <2>1, PartIs
<1>3. Part(q, s, n + 1, Len(s))
  <2>1. n + 1 \in 1..(Len(s) + 1) /\ Len(s) \in (n + 1 - 1)..Len(s)
    BY <1>1
  <2> QED
    BY <2>1, PartIs DEF From
<1> HIDE DEF p, q
<1>4. IsSeq(p) /\ Len(p) = n /\ IsSeq(q) /\ Len(q) = Len(s) - n
  BY <1>1, <1>2, <1>3 DEF Part
<1>5. IsSeq(p \o q) /\ Joins(p \o q, p, q) /\ Len(p \o q) = Len(s)
  <2>1. IsSeq(p \o q) /\ Joins(p \o q, p, q)
    BY <1>4, JoinedSeq, Zenon
  <2> QED
    BY <1>1, <1>4, <2>1 DEF Joins
<1>6. \A i \in 1..Len(s) : (p \o q)[i] = s[i]
  <2> SUFFICES ASSUME NEW i \in 1..Len(s) PROVE (p \o q)[i] = s[i]
    OBVIOUS
  <2>1. CASE i <= n
    <3>1. i \in 1..Len(p) /\ i \in 1..(n - 1 + 1) /\ 1 + i - 1 = i
      BY <1>1, <1>4, <2>1
    <3>2. p[i] = s[i]
      BY <1>2, <3>1 DEF Part
    <3>3. (p \o q)[i] = p[i]
      BY <1>5, <3>1 DEF Joins
    <3> QED
      BY <3>2, <3>3
  <2>2. CASE i > n
    <3>1. /\ i - n \in 1..Len(q) /\ i - n \in 1..(Len(s) - (n + 1) + 1)
          /\ n + 1 + (i - n) - 1 = i /\ Len(p) + (i - n) = i
      BY <1>1, <1>4, <2>2
    <3>2. q[i - n] = s[i]
      BY <1>3, <3>1 DEF Part
    <3>3. (p \o q)[i] = q[i - n]
      BY <1>5, <3>1 DEF Joins
    <3> QED
      BY <3>2, <3>3
  <2>3. i <= n \/ i > n
    BY <1>1
  <2> QED
    BY <2>1, <2>2, <2>3
<1>7. p \o q = s
  BY <1>5, <1>6, SameSeq
<1> QED
  BY <1>4, <1>7 DEF SplitAt, p, q

\* A sequence that starts with x, and what comes after it.
LEMMA HeadOf ==
    ASSUME NEW x, NEW s, IsSeq(s)
    PROVE  /\ IsSeq(<<x>> \o s) /\ Len(<<x>> \o s) = 1 + Len(s)
           /\ <<x>> \o s # <<>> /\ (<<x>> \o s)[1] = x /\ From(<<x>> \o s, 2) = s
<1> DEFINE one == <<x>>
<1>1. IsSeq(one) /\ Len(one) = 1 /\ one[1] = x /\ Len(s) \in Nat
  BY OneIs, LenIs
<1> HIDE DEF one
<1>2. IsSeq(one \o s) /\ Joins(one \o s, one, s)
  BY <1>1, JoinedSeq, Zenon
<1>3. Len(one \o s) = 1 + Len(s) /\ (one \o s)[1] = x
  BY <1>1, <1>2 DEF Joins
<1>4. one \o s # <<>>
  BY <1>1, <1>3, EmptyIs
<1>5. From(one \o s, 1 + 1) = s
  BY <1>1, JoinedFrom
<1> QED
  BY <1>2, <1>3, <1>4, <1>5 DEF one

\* A sequence that is not empty starts with a cell.
LEMMA HeadSplit ==
    ASSUME NEW s, IsSeq(s), s # <<>>
    PROVE  IsSeq(From(s, 2)) /\ s = <<s[1]>> \o From(s, 2)
<1>1. Len(s) \in Nat /\ Len(s) # 0
  BY LenIs, EmptySeq DEF IsSeq
<1>2. SplitAt(s, 1)
  BY <1>1, Splits
<1>3. Part(SubSeq(s, 1, 1), s, 1, 1)
  BY <1>1, PartIs
<1>4. SubSeq(s, 1, 1) = <<s[1]>>
  <2>1. IsSeq(SubSeq(s, 1, 1)) /\ Len(SubSeq(s, 1, 1)) = 1
    BY <1>3 DEF Part
  <2>2. SubSeq(s, 1, 1)[1] = s[1]
    BY <1>3 DEF Part
  <2>3. IsSeq(<<s[1]>>) /\ Len(<<s[1]>>) = 1 /\ <<s[1]>>[1] = s[1]
    BY OneIs
  <2>4. \A i \in 1..1 : SubSeq(s, 1, 1)[i] = <<s[1]>>[i]
    BY <2>2, <2>3
  <2> QED
    BY <2>1, <2>3, <2>4, SameSeq
<1> QED
  BY <1>2, <1>4 DEF SplitAt
-----------------------------------------------------------------------------
(* Numbers *)

\* A number is its quotient and its remainder.
LEMMA DivMod ==
    ASSUME NEW c \in Nat, c > 0, NEW v \in Int
    PROVE  /\ v \div c \in Int /\ v % c \in 0..(c - 1)
           /\ v = c * (v \div c) + (v % c)
  OBVIOUS

\* They are the only ones.
LEMMA DivModUnique ==
    ASSUME NEW c \in Nat, c > 0, NEW q \in Int, NEW r \in 0..(c - 1), NEW v \in Int,
           v = c * q + r
    PROVE  v % c = r /\ v \div c = q
<1> DEFINE a == v \div c
           b == v % c
<1>1. a \in Int /\ b \in 0..(c - 1) /\ v = c * a + b
  BY DivMod
<1> HIDE DEF a, b
<1>2. c * (a - q) = r - b /\ a - q \in Int
  <2>1. c * (a - q) = c * a - c * q
    BY <1>1
  <2>2. c * a \in Int /\ c * q \in Int
    BY <1>1
  <2> HIDE DEF a, b
  <2> QED
    BY <1>1, <2>1, <2>2
<1>3. a - q < 1 /\ a - q > -1
  <2>1. ASSUME NEW k \in Int, k >= 1 PROVE c * k >= c
    BY <2>1
  <2>2. ASSUME NEW k \in Int, k <= -1 PROVE c * k <= -c
    BY <2>2
  <2>3. r - b < c /\ r - b > -c
    BY <1>1
  <2> QED
    BY <1>2, <2>1, <2>2, <2>3
<1>4. a = q
  BY <1>1, <1>3
<1>5. b = r
  BY <1>1, <1>2, <1>4
<1> QED
  BY <1>4, <1>5 DEF a, b
-----------------------------------------------------------------------------
(* Loops *)

\* A loop of n rounds: what it has before the first round and after each.
Loops(f, a, step, n) == f = [i \in 0..n |-> IF i = 0 THEN a ELSE step[<<f[i - 1], i>>]]

\* Every loop over values of V can be run.
LEMMA LoopRuns ==
    ASSUME NEW V, NEW a \in V, NEW step \in [V \X Nat -> V]
    PROVE  \A n \in Nat : \E f \in [0..n -> V] : Loops(f, a, step, n)
<1> DEFINE G == {n \in Nat : \E f \in [0..n -> V] : Loops(f, a, step, n)}
<1>1. 0 \in G
  <2> DEFINE f == [i \in 0..0 |-> a]
  <2>1. f \in [0..0 -> V] /\ Loops(f, a, step, 0)
    BY DEF Loops
  <2> QED
    BY <2>1
<1>2. ASSUME NEW n \in Nat, n \in G PROVE n + 1 \in G
  <2>1. PICK f \in [0..n -> V] : Loops(f, a, step, n)
    BY <1>2
  <2> DEFINE g == [i \in 0..(n + 1) |-> IF i = 0 THEN a ELSE step[<<f[i - 1], i>>]]
  <2>2. g \in [0..(n + 1) -> V]
    OBVIOUS
  <2>3. ASSUME NEW i \in 0..n PROVE g[i] = f[i]
    <3>1. f[i] = IF i = 0 THEN a ELSE step[<<f[i - 1], i>>]
      BY <2>1 DEF Loops
    <3>2. i \in 0..(n + 1)
      OBVIOUS
    <3>3. g[i] = IF i = 0 THEN a ELSE step[<<f[i - 1], i>>]
      BY <3>2
    <3> HIDE DEF g
    <3> QED
      BY <3>1, <3>3
  <2>4. ASSUME NEW i \in 0..(n + 1), i # 0 PROVE g[i - 1] = f[i - 1]
    <3>1. i - 1 \in 0..n
      BY <2>4
    <3> HIDE DEF g
    <3> QED
      BY <2>3, <3>1
  <2>5. Loops(g, a, step, n + 1)
    BY <2>4 DEF Loops
  <2> HIDE DEF g
  <2> QED
    BY <2>2, <2>5
<1> HIDE DEF G
<1>3. \A n \in Nat : n \in G
  BY <1>1, <1>2, Induction
<1> QED
  BY <1>3 DEF G

\* What the code's constants are.
LEMMA WidthIs ==
    /\ Cont \in Nat /\ Cont >= 2 /\ Groups \in Nat /\ Groups >= 1
    /\ LastGroup \in Nat /\ LastGroup >= 2 /\ LastGroup <= Cont /\ LastGroup % 2 = 0
  BY WidthAssumption

\* The last k + 1 groups hold LastGroup values, times a group for each k.
LEMMA CapacityIs ==
    \A k \in 0..(Groups - 1) :
        /\ Capacity[k] = IF k = 0 THEN LastGroup ELSE Cont * Capacity[k - 1]
        /\ Capacity[k] \in Nat /\ Capacity[k] >= 2 /\ Capacity[k] % 2 = 0
<1> DEFINE n == Groups - 1
           step == [p \in Nat \X Nat |-> Cont * p[1]]
           Solves(f) == f = [k \in 0..n |-> IF k = 0 THEN LastGroup ELSE Cont * f[k - 1]]
<1>1. n \in Nat /\ LastGroup \in Nat /\ step \in [Nat \X Nat -> Nat]
  BY WidthIs
<1>2. \E f : Solves(f)
  <2>1. PICK f \in [0..n -> Nat] : Loops(f, LastGroup, step, n)
    BY <1>1, LoopRuns
  <2>2. ASSUME NEW k \in 0..n, k # 0 PROVE step[<<f[k - 1], k>>] = Cont * f[k - 1]
    <3>1. k - 1 \in 0..n /\ k \in Nat
      BY <1>1, <2>2
    <3>2. f[k - 1] \in Nat
      BY <3>1
    <3> QED
      BY <3>1, <3>2
  <2> HIDE DEF step, n
  <2>3. Solves(f)
    BY <2>1, <2>2 DEF Loops
  <2> QED
    BY <2>3
<1>3. Capacity = CHOOSE f : Solves(f)
  BY DEF Capacity
<1>4. Solves(Capacity)
  <2> HIDE DEF Solves
  <2> QED
    BY <1>2, <1>3
<1>5. ASSUME NEW k \in 0..n
      PROVE  Capacity[k] = IF k = 0 THEN LastGroup ELSE Cont * Capacity[k - 1]
  BY <1>4
<1> DEFINE G == {k \in Nat : k \in 0..n => /\ Capacity[k] \in Nat
                                           /\ Capacity[k] >= 2 /\ Capacity[k] % 2 = 0}
<1>6. 0 \in G
  BY <1>1, <1>5, WidthIs
<1>7. ASSUME NEW k \in Nat, k \in G PROVE k + 1 \in G
  <2> SUFFICES ASSUME k + 1 \in 0..n
               PROVE  /\ Capacity[k + 1] \in Nat
                      /\ Capacity[k + 1] >= 2 /\ Capacity[k + 1] % 2 = 0
    OBVIOUS
  <2>1. k \in 0..n /\ k + 1 # 0 /\ (k + 1) - 1 = k
    BY <1>1
  <2>2. Capacity[k + 1] = Cont * Capacity[k]
    BY <1>5, <2>1
  <2> DEFINE c == Capacity[k]
             h == c \div 2
  <2>3. c \in Nat /\ c >= 2 /\ c % 2 = 0
    BY <1>7, <2>1
  <2>4. h \in Int /\ c = 2 * h
    BY <2>3
  <2> HIDE DEF c, h
  <2>5. Cont * c = 2 * (Cont * h) /\ Cont * h \in Int
    BY <2>3, <2>4, WidthIs
  <2>6. Cont * c \in Nat /\ Cont * c >= c
    BY <2>3, WidthIs
  <2>7. (Cont * c) % 2 = 0
    <3>1. 2 * (Cont * h) = 2 * (Cont * h) + 0
      BY <2>5
    <3> HIDE DEF c, h
    <3> QED
      BY <2>5, <2>6, <3>1, DivModUnique
  <2> QED
    BY <2>2, <2>3, <2>6, <2>7 DEF c
<1> HIDE DEF G
<1>8. \A k \in Nat : k \in G
  BY <1>6, <1>7, Induction
<1> QED
  BY <1>1, <1>5, <1>8 DEF G

\* A word is an even number of values, at least two.
LEMMA WordIs ==
    /\ Word \in Nat /\ Word >= 2 /\ Word % 2 = 0
    /\ Word \div 2 \in Nat /\ Word = 2 * (Word \div 2)
<1>1. Groups - 1 \in 0..(Groups - 1)
  BY WidthIs
<1>2. Word \in Nat /\ Word >= 2 /\ Word % 2 = 0
  BY <1>1, CapacityIs DEF Word
<1> QED
  BY <1>2
-----------------------------------------------------------------------------
(* Varints *)

\* What is left of v after each shift.
LEMMA ShiftedIs ==
    ASSUME NEW v \in Nat
    PROVE  \A k \in 0..(Groups - 1) :
              /\ Shifted(v)[k] = IF k = 0 THEN v ELSE Shifted(v)[k - 1] \div Cont
              /\ Shifted(v)[k] \in Nat
<1> DEFINE n == Groups - 1
           step == [p \in Nat \X Nat |-> p[1] \div Cont]
           Solves(f) == f = [k \in 0..n |-> IF k = 0 THEN v ELSE f[k - 1] \div Cont]
           g == Shifted(v)
<1>0. \A x \in Nat : x \div Cont \in Nat
  BY WidthIs
<1>1. n \in Nat /\ step \in [Nat \X Nat -> Nat]
  BY <1>0, WidthIs
<1>2. \E f : Solves(f)
  <2>1. PICK f \in [0..n -> Nat] : Loops(f, v, step, n)
    BY <1>1, LoopRuns
  <2>2. ASSUME NEW k \in 0..n, k # 0 PROVE step[<<f[k - 1], k>>] = f[k - 1] \div Cont
    <3>1. k - 1 \in 0..n /\ k \in Nat
      BY <1>1, <2>2
    <3>2. f[k - 1] \in Nat
      BY <3>1
    <3> QED
      BY <3>1, <3>2
  <2> HIDE DEF step, n
  <2>3. Solves(f)
    BY <2>1, <2>2 DEF Loops
  <2> QED
    BY <2>3
<1>3. g = CHOOSE f : Solves(f)
  BY DEF Shifted
<1>4. Solves(g)
  <2> HIDE DEF Solves, g
  <2> QED
    BY <1>2, <1>3
<1> HIDE DEF g
<1>5. ASSUME NEW k \in 0..n
      PROVE  g[k] = IF k = 0 THEN v ELSE g[k - 1] \div Cont
  BY <1>4
<1> DEFINE G == {k \in Nat : k \in 0..n => g[k] \in Nat}
<1>6. 0 \in G
  BY <1>1, <1>5
<1>7. ASSUME NEW k \in Nat, k \in G PROVE k + 1 \in G
  <2> SUFFICES ASSUME k + 1 \in 0..n PROVE g[k + 1] \in Nat
    OBVIOUS
  <2>1. k \in 0..n /\ k + 1 # 0 /\ (k + 1) - 1 = k
    BY <1>1
  <2>2. g[k + 1] = g[k] \div Cont /\ g[k] \in Nat
    BY <1>5, <1>7, <2>1
  <2> QED
    BY <1>0, <2>2
<1> HIDE DEF G
<1>8. \A k \in Nat : k \in G
  BY <1>6, <1>7, Induction
<1> QED
  BY <1>1, <1>5, <1>8 DEF G, g

\* After k shifts a word fits the groups that are left.
LEMMA ShiftedFits ==
    ASSUME NEW v \in 0..(Word - 1)
    PROVE  \A k \in 0..(Groups - 1) : Shifted(v)[k] < Capacity[Groups - 1 - k]
<1> DEFINE n == Groups - 1
           g == Shifted(v)
           G == {k \in Nat : k \in 0..n => g[k] < Capacity[n - k]}
<1>1. n \in Nat /\ v \in Nat /\ v < Word
  BY WidthIs, WordIs
<1>2. \A k \in 0..n : g[k] = IF k = 0 THEN v ELSE g[k - 1] \div Cont
  BY <1>1, ShiftedIs
<1>3. \A k \in 0..n : g[k] \in Nat
  BY <1>1, ShiftedIs
<1>4. \A k \in 0..n : /\ Capacity[k] = IF k = 0 THEN LastGroup ELSE Cont * Capacity[k - 1]
                      /\ Capacity[k] \in Nat
  BY CapacityIs
<1> HIDE DEF g
<1>5. 0 \in G
  BY <1>1, <1>2 DEF Word
<1>6. ASSUME NEW k \in Nat, k \in G PROVE k + 1 \in G
  <2> SUFFICES ASSUME k + 1 \in 0..n PROVE g[k + 1] < Capacity[n - (k + 1)]
    OBVIOUS
  <2>1. k \in 0..n /\ k + 1 # 0 /\ (k + 1) - 1 = k /\ n - k \in 0..n /\ n - k # 0
        /\ (n - k) - 1 = n - (k + 1) /\ n - (k + 1) \in 0..n
    BY <1>1
  <2> DEFINE a == g[k]
             b == g[k + 1]
             c == Capacity[n - (k + 1)]
  <2>2. b = a \div Cont /\ a \in Nat /\ c \in Nat /\ b \in Nat
    BY <1>2, <1>3, <1>4, <2>1
  <2>3. Capacity[n - k] = Cont * c
    BY <1>4, <2>1
  <2>4. a < Cont * c
    BY <1>6, <2>1, <2>3
  <2> HIDE DEF a, b, c
  <2>5. a = Cont * b + (a % Cont) /\ a % Cont >= 0
    BY <2>2, DivMod, WidthIs
  <2>6. ~(b >= c)
    <3> SUFFICES ASSUME b >= c PROVE FALSE
      OBVIOUS
    <3>1. Cont * b >= Cont * c
      BY <2>2, WidthIs
    <3>2. Cont * b \in Int /\ Cont * c \in Int /\ a % Cont \in Int
      BY <2>2, WidthIs
    <3> QED
      BY <2>2, <2>4, <2>5, <3>1, <3>2
  <2>7. b < c
    BY <2>2, <2>6
  <2> QED
    BY <2>7 DEF b, c
<1> HIDE DEF G
<1>7. \A k \in Nat : k \in G
  BY <1>5, <1>6, Induction
<1> QED
  BY <1>1, <1>7 DEF G, g

\* The least of a set of numbers.
LEMMA MinLeast ==
    ASSUME NEW S \in SUBSET Nat, NEW m \in S, \A y \in S : m <= y
    PROVE  Min(S) = m
<1> DEFINE w == Min(S)
<1>1. w \in S /\ \A y \in S : w <= y
  BY Zenon DEF Min
<1> HIDE DEF w
<1>2. w <= m /\ m <= w /\ w \in Int /\ m \in Int
  BY <1>1
<1>3. w = m
  BY <1>2
<1> QED
  BY <1>3 DEF w

\* A set of numbers that is not empty has a least one.
LEMMA MinIs ==
    ASSUME NEW S \in SUBSET Nat, S # {} PROVE Min(S) \in S /\ \A y \in S : Min(S) <= y
<1>1. \E m \in S : \A y \in S : m <= y
  BY LeastNat
<1> QED
  BY <1>1, Zenon DEF Min

\* The n groups of v: all but the last marked, the last within its bounds.
Grouped(s, v, n) ==
    /\ n \in 1..Groups /\ IsSeq(s) /\ Len(s) = n
    /\ \A i \in 1..n : i < n => s[i] = (Shifted(v)[i - 1] % Cont) + Cont
    /\ s[n] = Shifted(v)[n - 1] /\ s[n] < Cont
    /\ n = Groups => s[n] < LastGroup

\* writer.varint writes a word in groups.
LEMMA VarintGroups ==
    ASSUME NEW v \in 0..(Word - 1)
    PROVE  \E n \in 1..Groups : Grouped(Varint(v), v, n)
<1> DEFINE g == Shifted(v)
           S == {i \in 1..Groups : i = Groups \/ g[i - 1] < Cont}
           n == Min(S)
           s == [i \in 1..n |-> (g[i - 1] % Cont) + (IF i < n THEN Cont ELSE 0)]
<1>1. Varint(v) = s
  BY DEF Varint
<1>2. v \in Nat
  BY WordIs
<1>3. \A k \in 0..(Groups - 1) : g[k] \in Nat /\ g[k] < Capacity[Groups - 1 - k]
  BY <1>2, ShiftedIs, ShiftedFits
<1> HIDE DEF g
<1>4. Groups \in S /\ S \in SUBSET Nat
  BY WidthIs
<1>5. n \in S
  BY <1>4, MinIn
<1> HIDE DEF S
<1>6. n \in Nat /\ n \in 1..Groups /\ (n = Groups \/ g[n - 1] < Cont)
  BY <1>4, <1>5 DEF S
<1> HIDE DEF n
<1>7. n = Groups => g[n - 1] < LastGroup
  <2>1. 0 \in 0..(Groups - 1) /\ Groups - 1 \in 0..(Groups - 1)
        /\ Groups - 1 - (Groups - 1) = 0
    BY WidthIs
  <2>2. Capacity[0] = LastGroup
    BY <2>1, CapacityIs
  <2> QED
    BY <1>3, <2>1, <2>2
<1>8. n - 1 \in 0..(Groups - 1) /\ g[n - 1] \in Nat
  BY <1>3, <1>6, WidthIs
<1>9. g[n - 1] < Cont
  BY <1>6, <1>7, <1>8, WidthIs
<1>10. g[n - 1] % Cont = g[n - 1]
  BY <1>8, <1>9, WidthIs
<1>11. s[n] = g[n - 1]
  BY <1>6, <1>8, <1>10, WidthIs
<1>12. \A i \in 1..n : i < n => s[i] = (g[i - 1] % Cont) + Cont
  OBVIOUS
<1>13. s = [i \in 1..n |-> s[i]]
  OBVIOUS
<1> HIDE DEF s
<1>14. IsSeq(s) /\ Len(s) = n
  BY <1>6, <1>13, ListIs
<1> HIDE DEF g
<1>15. Grouped(s, v, n)
  BY <1>6, <1>7, <1>9, <1>11, <1>12, <1>14 DEF Grouped, g
<1> QED
  BY <1>1, <1>6, <1>15
\* A sequence of numbers.
IsNums(s) == IsSeq(s) /\ \A i \in 1..Len(s) : s[i] \in Nat

\* Groupwise is a loop over the groups, the last first.
LEMMA GroupwiseIs ==
    ASSUME NEW s, IsNums(s)
    PROVE  \E f \in [0..Len(s) -> Nat] :
              /\ Groupwise(s) = f[Len(s)]
              /\ \A k \in 0..Len(s) :
                    f[k] = IF k = 0 THEN 0 ELSE (s[Len(s) - k + 1] % Cont) + Cont * f[k - 1]
<1> DEFINE n == Len(s)
           step == [p \in Nat \X Nat |->
                       IF p[2] \in 1..n THEN (s[n - p[2] + 1] % Cont) + Cont * p[1] ELSE 0]
           Solves(f) == f = [k \in 0..n |->
                                IF k = 0 THEN 0 ELSE (s[n - k + 1] % Cont) + Cont * f[k - 1]]
           g == CHOOSE f : Solves(f)
<1>0. n \in Nat /\ Cont \in Nat /\ Cont >= 2
  BY LenIs, WidthIs DEF IsNums
<1>1. ASSUME NEW k \in 1..n, NEW w \in Nat
      PROVE  (s[n - k + 1] % Cont) + Cont * w \in Nat
  <2>1. n - k + 1 \in 1..n
    BY <1>0
  <2>2. s[n - k + 1] \in Nat
    BY <2>1 DEF IsNums
  <2> QED
    BY <1>0, <2>2
<1>2. step \in [Nat \X Nat -> Nat]
  BY <1>1
<1>3. \E f : Solves(f)
  <2>1. PICK f \in [0..n -> Nat] : Loops(f, 0, step, n)
    BY <1>0, <1>2, LoopRuns
  <2>2. ASSUME NEW k \in 0..n, k # 0
        PROVE  step[<<f[k - 1], k>>] = (s[n - k + 1] % Cont) + Cont * f[k - 1]
    <3>1. k - 1 \in 0..n /\ k \in Nat /\ k \in 1..n
      BY <1>0, <2>2
    <3>2. f[k - 1] \in Nat
      BY <3>1
    <3> QED
      BY <3>1, <3>2
  <2> HIDE DEF step, n
  <2>3. Solves(f)
    BY <2>1, <2>2 DEF Loops
  <2> QED
    BY <2>3
<1>4. Solves(g)
  <2> HIDE DEF Solves
  <2> QED
    BY <1>3
<1>5. Groupwise(s) = g[n]
  BY DEF Groupwise
<1> HIDE DEF g
<1>6. ASSUME NEW k \in 0..n
      PROVE  g[k] = IF k = 0 THEN 0 ELSE (s[n - k + 1] % Cont) + Cont * g[k - 1]
  BY <1>4
<1> DEFINE G == {k \in Nat : k \in 0..n => g[k] \in Nat}
<1>7. 0 \in G
  BY <1>0, <1>6
<1>8. ASSUME NEW k \in Nat, k \in G PROVE k + 1 \in G
  <2> SUFFICES ASSUME k + 1 \in 0..n PROVE g[k + 1] \in Nat
    OBVIOUS
  <2>1. k \in 0..n /\ k + 1 # 0 /\ (k + 1) - 1 = k /\ k + 1 \in 1..n
    BY <1>0
  <2>2. g[k + 1] = (s[n - (k + 1) + 1] % Cont) + Cont * g[k] /\ g[k] \in Nat
    BY <1>6, <1>8, <2>1
  <2> QED
    BY <1>1, <2>1, <2>2
<1> HIDE DEF G
<1>9. \A k \in Nat : k \in G
  BY <1>7, <1>8, Induction
<1>10. \A k \in 0..n : g[k] \in Nat
  BY <1>0, <1>9 DEF G
<1>11. g \in [0..n -> Nat]
  <2>1. DOMAIN g = 0..n /\ g = [k \in 0..n |-> g[k]]
    BY <1>4
  <2> HIDE DEF Solves
  <2> QED
    BY <1>10, <2>1
<1> QED
  BY <1>5, <1>6, <1>11

\* The groups of a word add up to it.
LEMMA GroupedValue ==
    ASSUME NEW v \in Nat, NEW s, NEW n, Grouped(s, v, n)
    PROVE  IsNums(s) /\ Groupwise(s) = v
<1> DEFINE g == Shifted(v)
<1>1. /\ n \in 1..Groups /\ IsSeq(s) /\ Len(s) = n
      /\ \A i \in 1..n : i < n => s[i] = (g[i - 1] % Cont) + Cont
      /\ s[n] = g[n - 1] /\ s[n] < Cont
  BY DEF Grouped
<1>2. \A k \in 0..(Groups - 1) : g[k] = IF k = 0 THEN v ELSE g[k - 1] \div Cont
  BY ShiftedIs
<1>3. \A k \in 0..(Groups - 1) : g[k] \in Nat
  BY ShiftedIs
<1> HIDE DEF g
<1>4. ASSUME NEW i \in 1..n
      PROVE  /\ s[i] \in Nat /\ g[i - 1] \in Nat
             /\ s[i] % Cont = g[i - 1] % Cont
  <2>1. i - 1 \in 0..(Groups - 1)
    BY <1>1, WidthIs
  <2>2. g[i - 1] \in Nat
    BY <1>3, <2>1
  <2>3. CASE i < n
    <3> DEFINE r == g[i - 1] % Cont
    <3>1. r \in 0..(Cont - 1) /\ s[i] = r + Cont
      BY <1>1, <2>2, <2>3, WidthIs, SMTT(30)
    <3> HIDE DEF r
    <3>2. s[i] = Cont * 1 + r /\ s[i] \in Nat
      BY <3>1, WidthIs
    <3>3. s[i] % Cont = r
      BY <3>1, <3>2, DivModUnique, WidthIs
    <3> QED
      BY <2>2, <3>2, <3>3 DEF r
  <2>4. CASE i = n
    BY <1>1, <2>2, <2>4
  <2> QED
    BY <1>1, <2>3, <2>4
<1>5. IsNums(s)
  BY <1>1, <1>4 DEF IsNums
<1>6. PICK f \in [0..n -> Nat] :
         /\ Groupwise(s) = f[n]
         /\ \A k \in 0..n :
               f[k] = IF k = 0 THEN 0 ELSE (s[n - k + 1] % Cont) + Cont * f[k - 1]
  BY <1>1, <1>5, GroupwiseIs
<1> DEFINE G == {k \in Nat : k \in 1..n => f[k] = g[n - k]}
<1>7. ASSUME NEW k \in Nat, k \in G PROVE k + 1 \in G
  <2> SUFFICES ASSUME k + 1 \in 1..n PROVE f[k + 1] = g[n - (k + 1)]
    OBVIOUS
  <2> DEFINE i == n - (k + 1) + 1
             a == g[i - 1]
  <2>1. /\ n \in Nat /\ k + 1 \in 0..n /\ k + 1 # 0 /\ (k + 1) - 1 = k
        /\ i \in 1..n /\ i = n - k /\ i - 1 = n - (k + 1) /\ k \in 0..n
        /\ i \in 1..Groups /\ i - 1 \in 0..(Groups - 1)
    BY <1>1, WidthIs
  <2>2. f[k + 1] = (s[i] % Cont) + Cont * f[k] /\ f[k] \in Nat
    BY <1>6, <2>1
  <2>3. a \in Nat /\ s[i] % Cont = a % Cont
    BY <1>4, <2>1
  <2>4. CASE k = 0
    <3>1. f[k] = 0 /\ i = n
      BY <1>6, <2>1, <2>4
    <3>2. a = s[n]
      BY <1>1, <3>1
    <3> HIDE DEF a, i
    <3>3. a < Cont
      BY <1>1, <3>2
    <3>4. a % Cont = a
      BY <2>3, <3>3, WidthIs
    <3> QED
      BY <2>1, <2>2, <2>3, <3>1, <3>4, WidthIs DEF a
  <2>5. CASE k # 0
    <3>1. f[k] = g[i] /\ i \in 0..(Groups - 1) /\ i # 0
      BY <1>1, <1>7, <2>1, <2>5, WidthIs
    <3>2. g[i] = a \div Cont
      BY <1>2, <3>1
    <3> HIDE DEF a
    <3>3. a = Cont * (a \div Cont) + (a % Cont) /\ a \div Cont \in Int /\ a % Cont \in Int
      BY <2>3, DivMod, WidthIs
    <3>4. f[k + 1] = (a % Cont) + Cont * (a \div Cont)
      BY <2>2, <2>3, <3>1, <3>2
    <3>5. Cont * (a \div Cont) \in Int
      BY <3>3, WidthIs
    <3>6. f[k + 1] = a
      BY <3>3, <3>4, <3>5
    <3> QED
      BY <2>1, <3>6 DEF a
  <2> QED
    BY <2>4, <2>5
<1>8. 0 \in G
  OBVIOUS
<1> HIDE DEF G
<1>9. \A k \in Nat : k \in G
  BY <1>7, <1>8, Induction
<1>10. n \in Nat /\ n \in 1..n /\ n - n = 0 /\ 0 \in 0..(Groups - 1)
  BY <1>1, WidthIs
<1>11. f[n] = g[0]
  BY <1>9, <1>10 DEF G
<1>12. g[0] = v
  BY <1>2, <1>10
<1> QED
  BY <1>5, <1>6, <1>11, <1>12

\* The first cells of a sequence, and the rest of it, when more comes after it.
LEMMA SplitJoined ==
    ASSUME NEW d, NEW x, IsSeq(d), IsSeq(x), NEW n \in 0..Len(d)
    PROVE  /\ SubSeq(d \o x, 1, n) = SubSeq(d, 1, n)
           /\ From(d \o x, n + 1) = From(d, n + 1) \o x
<1> DEFINE p == SubSeq(d, 1, n)
           q == From(d, n + 1)
<1>1. IsSeq(p) /\ Len(p) = n /\ IsSeq(q) /\ p \o q = d
  BY Splits DEF SplitAt
<1> HIDE DEF p, q
<1>2. d \o x = p \o (q \o x) /\ IsSeq(q \o x)
  <2>0. IsSeq(p) /\ IsSeq(q)
    BY <1>1
  <2>1. Regroups(p, q, x)
    BY <2>0, JoinedAssoc
  <2>2. IsSeq(q \o x)
    BY <2>0, JoinedSeq
  <2> QED
    BY <1>1, <2>1, <2>2 DEF Regroups
<1>3. SubSeq(p \o (q \o x), 1, Len(p)) = p /\ From(p \o (q \o x), Len(p) + 1) = q \o x
  BY <1>1, <1>2, JoinedFirst, JoinedFrom
<1> QED
  BY <1>1, <1>2, <1>3 DEF p, q

\* A varint ends at group n.
GroupEnd(d, n) ==
    /\ n \in 1..Groups /\ n <= Len(d)
    /\ \A i \in 1..n : i < n => ~(d[i] < Cont)
    /\ d[n] < Cont /\ ~(d[n] >= Cont)
    /\ n = Groups => ~(d[n] >= LastGroup)

\* reader.varint reads up to there.
LEMMA ReadsGroups ==
    ASSUME NEW d, IsSeq(d), NEW n, GroupEnd(d, n)
    PROVE  ReadVarint(d) = Read(Groupwise(SubSeq(d, 1, n)), From(d, n + 1))
<1> DEFINE S == {i \in 1..Groups : i = Groups \/ i > Len(d) \/ d[i] < Cont}
<1>1. Len(d) \in Nat /\ n \in 1..Groups /\ n <= Len(d) /\ n \in Nat
  BY LenIs, WidthIs DEF GroupEnd
<1>2. n \in S /\ S \in SUBSET Nat
  BY <1>1, WidthIs DEF GroupEnd
<1>3. \A y \in S : n <= y
  <2> SUFFICES ASSUME NEW y \in S, ~(n <= y) PROVE FALSE
    OBVIOUS
  <2>1. y \in 1..n /\ y < n /\ y # Groups /\ ~(y > Len(d))
    BY <1>1, WidthIs
  <2> QED
    BY <2>1 DEF GroupEnd
<1> HIDE DEF S
<1>4. Min(S) = n
  BY <1>2, <1>3, MinLeast
<1>5. ~(n > Len(d)) /\ ~(d[n] >= Cont) /\ ~(n = Groups /\ d[n] >= LastGroup)
  BY <1>1 DEF GroupEnd
<1> QED
  BY <1>4, <1>5 DEF ReadVarint, S

\* What reader.varint reads of numbers ends so.
LEMMA VarintEnds ==
    ASSUME NEW d, IsNums(d), ReadVarint(d).ok
    PROVE  \E n \in 1..Groups : GroupEnd(d, n)
<1> DEFINE S == {i \in 1..Groups : i = Groups \/ i > Len(d) \/ d[i] < Cont}
           n == Min(S)
<1>1. Groups \in S /\ S \in SUBSET Nat
  BY WidthIs
<1> HIDE DEF S
<1>2. n \in S /\ \A y \in S : n <= y
  BY <1>1, MinIs
<1>3. ~(n > Len(d) \/ d[n] >= Cont \/ (n = Groups /\ d[n] >= LastGroup))
  BY DEF ReadVarint, Malformed, S
<1> HIDE DEF n
<1>4. n \in 1..Groups /\ n \in Nat /\ Len(d) \in Nat /\ n <= Len(d)
  BY <1>1, <1>2, <1>3, LenIs DEF S, IsNums
<1>5. d[n] \in Nat
  BY <1>4 DEF IsNums
<1>6. d[n] < Cont
  BY <1>3, <1>5, WidthIs
<1>7. ASSUME NEW i \in 1..n, i < n PROVE ~(d[i] < Cont)
  <2>1. i \notin S
    BY <1>2, <1>4, <1>7
  <2> QED
    BY <1>4, <1>7, <2>1, WidthIs DEF S
<1> QED
  BY <1>3, <1>4, <1>6, <1>7 DEF GroupEnd

\* writer.varint and reader.varint: a word comes back, and the rest is left.
LEMMA VarintRead ==
    ASSUME NEW v \in 0..(Word - 1), NEW rest, IsSeq(rest)
    PROVE  ReadVarint(Varint(v) \o rest) = Read(v, rest)
<1>0. v \in Nat
  BY WordIs
<1>1. PICK n \in 1..Groups : Grouped(Varint(v), v, n)
  BY VarintGroups
<1> DEFINE s == Varint(v)
           d == s \o rest
<1>2. IsNums(s) /\ Groupwise(s) = v /\ IsSeq(s) /\ Len(s) = n
  BY <1>0, <1>1, GroupedValue DEF Grouped
<1>3. \A k \in 0..(Groups - 1) : Shifted(v)[k] \in Nat
  BY <1>0, ShiftedIs
<1>4. /\ \A i \in 1..n : i < n => s[i] = (Shifted(v)[i - 1] % Cont) + Cont
      /\ s[n] < Cont
      /\ n = Groups => s[n] < LastGroup
  BY <1>1 DEF Grouped
<1> HIDE DEF s
<1>5. IsSeq(d) /\ Joins(d, s, rest)
  BY <1>2, JoinedSeq, Zenon
<1>6. Len(rest) \in Nat /\ n \in Nat
  BY LenIs, WidthIs
<1> HIDE DEF d
<1>7. Len(d) = n + Len(rest) /\ \A i \in 1..n : d[i] = s[i]
  BY <1>2, <1>5 DEF Joins
<1>8. GroupEnd(d, n)
  <2>1. n \in 1..n /\ s[n] \in Nat
    BY <1>2, <1>6 DEF IsNums
  <2>2. ASSUME NEW i \in 1..n, i < n PROVE ~(d[i] < Cont)
    <3>1. i - 1 \in 0..(Groups - 1)
      BY <1>6, <2>2, WidthIs
    <3>2. d[i] = (Shifted(v)[i - 1] % Cont) + Cont /\ Shifted(v)[i - 1] \in Nat
      BY <1>3, <1>4, <1>7, <2>2, <3>1
    <3>3. Shifted(v)[i - 1] % Cont \in 0..(Cont - 1)
      BY <3>2, WidthIs
    <3> QED
      BY <3>2, <3>3, WidthIs
  <2>3. d[n] = s[n]
    BY <1>7, <2>1
  <2>4. ~(d[n] >= Cont) /\ (n = Groups => ~(d[n] >= LastGroup)) /\ n <= Len(d)
    BY <1>4, <1>6, <1>7, <2>1, <2>3, WidthIs
  <2> QED
    BY <1>4, <2>2, <2>3, <2>4 DEF GroupEnd
<1>9. ReadVarint(d) = Read(Groupwise(SubSeq(d, 1, n)), From(d, n + 1))
  BY <1>5, <1>8, ReadsGroups
<1>10. SubSeq(d, 1, n) = s /\ From(d, n + 1) = rest
  BY <1>2, JoinedFirst, JoinedFrom DEF d
<1> QED
  BY <1>2, <1>9, <1>10 DEF d, s
-----------------------------------------------------------------------------
(* Values of every kind *)

\* The int32 values of a word.
SignedWord == (-(Word \div 2))..((Word \div 2) - 1)

\* The signed and the unsigned form of a word.
LEMMA ZigZagIs ==
    ASSUME NEW v \in SignedWord
    PROVE  ZigZag(v) \in 0..(Word - 1) /\ UnZigZag(ZigZag(v)) = v
<1> DEFINE h == Word \div 2
<1>1. h \in Nat /\ h >= 1 /\ Word = 2 * h /\ Word \in Nat /\ Word > 0
  BY WordIs
<1>2. v \in Int /\ v >= -h /\ v < h
  BY <1>1 DEF SignedWord
<1> HIDE DEF h
<1>3. CASE v >= 0
  <2>1. (2 * v) % Word = 2 * v
    BY <1>1, <1>2, <1>3
  <2>2. ZigZag(v) = 2 * v
    BY <1>2, <1>3, <2>1 DEF ZigZag
  <2>3. UnZigZag(2 * v) = v
    BY <1>2, <1>3 DEF UnZigZag
  <2> QED
    BY <1>1, <1>2, <1>3, <2>2, <2>3
<1>4. CASE v < 0
  <2>1. (2 * v) % Word = 2 * v + Word
    <3>1. 2 * v + Word \in 0..(Word - 1) /\ 2 * v = Word * (-1) + (2 * v + Word)
      BY <1>1, <1>2, <1>4
    <3>2. 2 * v \in Int /\ -1 \in Int
      BY <1>2
    <3> QED
      BY <1>1, <3>1, <3>2, DivModUnique
  <2> DEFINE u == -(2 * v) - 1
  <2>2. ZigZag(v) = u /\ u \in Nat
    BY <1>1, <1>2, <1>4, <2>1 DEF ZigZag
  <2>3. u = 2 * (-v - 1) + 1 /\ -v - 1 \in Int
    BY <1>2
  <2>4. u % 2 = 1 /\ u \div 2 = -v - 1
    <3> HIDE DEF u
    <3> QED
      BY <2>2, <2>3
  <2>5. UnZigZag(u) = v
    <3> HIDE DEF u
    <3>1. UnZigZag(u) = -(-v - 1) - 1
      BY <2>4 DEF UnZigZag
    <3> QED
      BY <1>2, <3>1
  <2> QED
    BY <1>1, <1>2, <1>4, <2>2, <2>5
<1> QED
  BY <1>2, <1>3, <1>4

\* The values that each kind can carry.
Fit(kind, v) ==
    CASE kind = "varint" -> v \in 0..(Word - 1)
      [] kind = "svarint" -> v \in SignedWord
      [] kind = "string" -> IsSeq(v) /\ Len(v) < Word
      [] kind = "optional" -> v = Absent \/ (IsSeq(v) /\ Len(v) < Word)
      [] kind = "cell" -> TRUE
      [] kind = "child" -> IsSeq(v) /\ v # <<>>

Kinds == {"varint", "svarint", "string", "optional", "cell", "child"}

\* The reader of a kind reads v, written by its writer, and leaves the rest.
ReadsBack(kind, v, rest) ==
    /\ IsSeq(Write(kind, v))
    /\ ReadOne(kind, Write(kind, v) \o rest) = Read(v, rest)

\* A varint is a sequence of numbers.
LEMMA VarintNums == ASSUME NEW v \in 0..(Word - 1) PROVE IsNums(Varint(v))
<1>1. PICK n \in 1..Groups : Grouped(Varint(v), v, n)
  BY VarintGroups
<1>2. v \in Nat
  BY WordIs
<1> QED
  BY <1>1, <1>2, GroupedValue

\* Behind its length come the cells counted.
LEMMA CountedRead ==
    ASSUME NEW v, IsSeq(v), NEW rest, IsSeq(rest)
    PROVE  Counted(Read(Len(v), v \o rest)) = Read(v, rest)
<1>1. Len(v) \in Nat /\ Len(rest) \in Nat /\ Len(v \o rest) = Len(v) + Len(rest)
  BY LenIs, JoinedLen
<1>2. ~(Len(v) > Len(v \o rest))
  BY <1>1
<1>3. SubSeq(v \o rest, 1, Len(v)) = v /\ From(v \o rest, Len(v) + 1) = rest
  BY JoinedFirst, JoinedFrom
<1> QED
  BY <1>2, <1>3, Zenon DEF Counted, Read

\* reader.string reads what writer.string writes.
LEMMA TextRead ==
    ASSUME NEW v, IsSeq(v), Len(v) < Word, NEW rest, IsSeq(rest)
    PROVE  IsSeq(Text(v)) /\ ReadText(Text(v) \o rest) = Read(v, rest)
<1> DEFINE a == Varint(Len(v))
<1>1. Len(v) \in 0..(Word - 1)
  BY LenIs, WordIs
<1>2. IsSeq(a)
  BY <1>1, VarintNums DEF IsNums
<1>3. IsSeq(v \o rest)
  BY JoinedSeq
<1>4. ReadVarint(a \o (v \o rest)) = Read(Len(v), v \o rest)
  BY <1>1, <1>3, VarintRead
<1> HIDE DEF a
<1>5. Regroups(a, v, rest) /\ IsSeq(a \o v)
  BY <1>2, JoinedAssoc, JoinedSeq
<1>6. Text(v) = a \o v
  BY DEF Text, a
<1>7. ReadText(Text(v) \o rest) = Counted(Read(Len(v), v \o rest))
  <2>1. (a \o v) \o rest = a \o (v \o rest)
    BY <1>5 DEF Regroups
  <2> QED
    BY <1>4, <1>6, <2>1, Zenon DEF ReadText
<1> QED
  BY <1>5, <1>6, <1>7, CountedRead

\* Each kind is read back.
LEMMA OneRead ==
    ASSUME NEW kind \in Kinds, NEW v, Fit(kind, v), NEW rest, IsSeq(rest)
    PROVE  ReadsBack(kind, v, rest)
<1>1. CASE kind = "varint"
  <2>1. v \in 0..(Word - 1) /\ Write(kind, v) = Varint(v)
    BY <1>1 DEF Fit, Write
  <2>2. IsSeq(Varint(v)) /\ ReadVarint(Varint(v) \o rest) = Read(v, rest)
    BY <2>1, VarintNums, VarintRead DEF IsNums
  <2> QED
    BY <1>1, <2>1, <2>2 DEF ReadsBack, ReadOne
<1>2. CASE kind = "svarint"
  <2> DEFINE u == ZigZag(v)
  <2>1. v \in SignedWord /\ Write(kind, v) = Varint(u)
    BY <1>2 DEF Fit, Write
  <2>2. u \in 0..(Word - 1) /\ UnZigZag(u) = v
    BY <2>1, ZigZagIs
  <2> HIDE DEF u
  <2>3. IsSeq(Varint(u)) /\ ReadVarint(Varint(u) \o rest) = Read(u, rest)
    BY <2>2, VarintNums, VarintRead DEF IsNums
  <2>4. Signed(Read(u, rest)) = Read(v, rest)
    BY <2>2 DEF Signed, Read
  <2>5. ReadOne(kind, Varint(u) \o rest) = Signed(ReadVarint(Varint(u) \o rest))
    BY <1>2 DEF ReadOne
  <2> QED
    BY <2>1, <2>3, <2>4, <2>5 DEF ReadsBack
<1>3. CASE kind = "string"
  <2>1. IsSeq(v) /\ Len(v) < Word /\ Write(kind, v) = Text(v)
    BY <1>3 DEF Fit, Write
  <2>2. IsSeq(Text(v)) /\ ReadText(Text(v) \o rest) = Read(v, rest)
    BY <2>1, TextRead
  <2> QED
    BY <1>3, <2>1, <2>2 DEF ReadsBack, ReadOne
<1>4. CASE kind = "optional" /\ v = Absent
  <2> DEFINE d == <<0>> \o rest
  <2>1. Write(kind, v) = <<0>> /\ IsSeq(<<0>>)
    BY <1>4, OneIs DEF Write
  <2>2. d # <<>> /\ d[1] = 0 /\ From(d, 2) = rest
    BY HeadOf
  <2>3. ReadOne(kind, d) = ReadOptional(d)
    BY <1>4 DEF ReadOne
  <2> HIDE DEF d
  <2>4. ReadOptional(d) = Read(Absent, rest)
    BY <2>2 DEF ReadOptional
  <2> QED
    BY <1>4, <2>1, <2>3, <2>4 DEF ReadsBack, d
<1>5. CASE kind = "optional" /\ v # Absent
  <2> DEFINE t == Text(v)
             d == (<<1>> \o t) \o rest
  <2>1. IsSeq(v) /\ Len(v) < Word /\ Write(kind, v) = <<1>> \o t
    BY <1>5 DEF Fit, Write
  <2>2. IsSeq(t) /\ ReadText(t \o rest) = Read(v, rest)
    BY <2>1, TextRead
  <2> HIDE DEF t
  <2>3. IsSeq(<<1>>) /\ IsSeq(t \o rest) /\ IsSeq(<<1>> \o t)
    BY <2>2, OneIs, JoinedSeq
  <2>4. d = <<1>> \o (t \o rest)
    <3>1. Regroups(<<1>>, t, rest)
      BY <2>2, <2>3, JoinedAssoc
    <3> QED
      BY <3>1 DEF Regroups
  <2>5. d # <<>> /\ d[1] = 1 /\ From(d, 2) = t \o rest
    <3> HIDE DEF d
    <3> QED
      BY <2>3, <2>4, HeadOf
  <2>6. ReadOne(kind, d) = ReadOptional(d)
    BY <1>5 DEF ReadOne
  <2> HIDE DEF d
  <2>7. ReadOptional(d) = ReadText(t \o rest)
    <3>1. ~(d[1] > 1) /\ d[1] # 0
      BY <2>5
    <3> QED
      BY <2>5, <3>1, Zenon DEF ReadOptional
  <2> QED
    BY <2>1, <2>2, <2>3, <2>6, <2>7 DEF ReadsBack, d
<1>6. CASE kind = "cell"
  <2> DEFINE d == <<v>> \o rest
  <2>1. Write(kind, v) = <<v>> /\ IsSeq(<<v>>)
    BY <1>6, OneIs DEF Write
  <2>2. d # <<>> /\ d[1] = v /\ From(d, 2) = rest
    BY HeadOf
  <2>3. ReadOne(kind, d) = ReadCell(d)
    BY <1>6 DEF ReadOne
  <2> HIDE DEF d
  <2>4. ReadCell(d) = Read(v, rest)
    BY <2>2 DEF ReadCell
  <2> QED
    BY <2>1, <2>3, <2>4 DEF ReadsBack, d
<1>7. CASE kind = "child"
  <2> DEFINE n == Len(v)
             d == (<<n>> \o v) \o rest
  <2>1. IsSeq(v) /\ v # <<>> /\ Write(kind, v) = <<n>> \o v
    BY <1>7 DEF Fit, Write
  <2>2. n \in Nat /\ n # 0
    BY <2>1, LenIs, EmptySeq DEF IsSeq
  <2>3. IsSeq(<<n>>) /\ IsSeq(v \o rest) /\ IsSeq(<<n>> \o v)
    BY <2>1, OneIs, JoinedSeq
  <2> HIDE DEF n
  <2>4. d = <<n>> \o (v \o rest)
    <3>1. Regroups(<<n>>, v, rest)
      BY <2>1, <2>3, JoinedAssoc
    <3> QED
      BY <3>1 DEF Regroups
  <2>5. d # <<>> /\ d[1] = n /\ From(d, 2) = v \o rest
    <3> HIDE DEF d
    <3> QED
      BY <2>3, <2>4, HeadOf
  <2>6. ReadOne(kind, d) = ReadChild(d)
    BY <1>7 DEF ReadOne
  <2> HIDE DEF d
  <2>7. ReadChild(d) = Counted(Read(n, v \o rest))
    BY <2>2, <2>5 DEF ReadChild
  <2>8. Counted(Read(n, v \o rest)) = Read(v, rest)
    BY <2>1, CountedRead DEF n
  <2> QED
    BY <2>1, <2>3, <2>6, <2>7, <2>8 DEF ReadsBack, d
<1> QED
  BY <1>1, <1>2, <1>3, <1>4, <1>5, <1>6, <1>7 DEF Kinds
-----------------------------------------------------------------------------
(* Lists of values *)

\* ReadAll's loop over the kinds.
Reading(f, kinds, d, n) ==
    f = [i \in 0..n |-> IF i = 0 THEN Read(<<>>, d) ELSE Further(f[i - 1], kinds[i])]

\* It can be run.
LEMMA ReadingRuns == ASSUME NEW kinds, NEW d PROVE \A n \in Nat : \E f : Reading(f, kinds, d, n)
<1> DEFINE G == {n \in Nat : \E f : Reading(f, kinds, d, n)}
           a == Read(<<>>, d)
<1>1. 0 \in G
  <2> DEFINE f == [i \in 0..0 |-> a]
  <2>1. Reading(f, kinds, d, 0)
    BY DEF Reading
  <2> HIDE DEF f
  <2> QED
    BY <2>1
<1> HIDE DEF a
<1>2. ASSUME NEW n \in Nat, n \in G PROVE n + 1 \in G
  <2>1. PICK f : Reading(f, kinds, d, n)
    BY <1>2
  <2> DEFINE g == [i \in 0..(n + 1) |-> IF i = 0 THEN a ELSE Further(f[i - 1], kinds[i])]
  <2>2. ASSUME NEW i \in 0..n PROVE g[i] = f[i]
    <3>1. f[i] = IF i = 0 THEN a ELSE Further(f[i - 1], kinds[i])
      BY <2>1 DEF Reading, a
    <3>2. i \in 0..(n + 1)
      OBVIOUS
    <3>3. g[i] = IF i = 0 THEN a ELSE Further(f[i - 1], kinds[i])
      BY <3>2
    <3> HIDE DEF g
    <3> QED
      BY <3>1, <3>3
  <2>3. ASSUME NEW i \in 0..(n + 1), i # 0 PROVE g[i - 1] = f[i - 1]
    <3>1. i - 1 \in 0..n
      BY <2>3
    <3> HIDE DEF g
    <3> QED
      BY <2>2, <3>1
  <2>4. g = [i \in 0..(n + 1) |-> IF i = 0 THEN a ELSE Further(g[i - 1], kinds[i])]
    BY <2>3
  <2> HIDE DEF g
  <2>5. Reading(g, kinds, d, n + 1)
    BY <2>4 DEF Reading, a
  <2> QED
    BY <2>5
<1> HIDE DEF G
<1>3. \A n \in Nat : n \in G
  BY <1>1, <1>2, Induction
<1> QED
  BY <1>3 DEF G

\* So ReadAll gives what it ends with.
LEMMA ReadAllIs ==
    ASSUME NEW kinds, IsSeq(kinds), NEW d
    PROVE  \E f : Reading(f, kinds, d, Len(kinds)) /\ ReadAll(kinds, d) = f[Len(kinds)]
<1> DEFINE n == Len(kinds)
           g == CHOOSE f : Reading(f, kinds, d, n)
<1>1. n \in Nat
  BY LenIs
<1>2. Reading(g, kinds, d, n)
  BY <1>1, ReadingRuns
<1>3. ReadAll(kinds, d) = g[n]
  BY Zenon DEF ReadAll, Reading
<1> HIDE DEF g
<1> QED
  BY <1>2, <1>3

\* g joins the first parts of ss, up to each.
JoinsUpTo(g, ss, n) ==
    /\ FlattenSeq(ss) = g[n]
    /\ \A i \in 1..n : IsSeq(g[i]) /\ g[i] = IF i = 1 THEN ss[i] ELSE g[i-1] \o ss[i]

\* FlattenSeq's loop over the parts ends with all of them.
LEMMA FlattenRuns ==
    ASSUME NEW n \in Nat \ {0}, NEW ss, ss = [i \in 1..n |-> ss[i]],
           \A i \in 1..n : IsSeq(ss[i])
    PROVE  \E g : JoinsUpTo(g, ss, n)
<1>0. IsSeq(ss) /\ Len(ss) = n
  BY ListIs
<1> DEFINE g == CHOOSE f : Flattens(f, ss, n)
<1>1. Flattens(g, ss, n)
  BY FlattensExists
<1>2. FlattenSeq(ss) = g[n]
  <2>1. Len(ss) # 0
    BY <1>0
  <2> QED
    BY <1>0, <2>1, Zenon DEF FlattenSeq, Flattens
<1> HIDE DEF g
<1>3. \A i \in 1..n : g[i] = IF i = 1 THEN ss[i] ELSE g[i-1] \o ss[i]
  BY <1>1 DEF Flattens
<1> DEFINE G == {k \in Nat : k + 1 \in 1..n => IsSeq(g[k + 1])}
<1>4. 0 \in G
  BY <1>3
<1>5. ASSUME NEW k \in Nat, k \in G PROVE k + 1 \in G
  <2> DEFINE m == k + 1 + 1
  <2> SUFFICES ASSUME m \in 1..n PROVE IsSeq(g[m])
    OBVIOUS
  <2>1. m - 1 \in 1..n /\ m # 1 /\ m - 1 = k + 1
    OBVIOUS
  <2>2. IsSeq(g[m - 1]) /\ IsSeq(ss[m])
    BY <1>5, <2>1
  <2> HIDE DEF m
  <2>3. g[m] = g[m - 1] \o ss[m]
    BY <1>3, <2>1
  <2> QED
    BY <2>2, <2>3, JoinedSeq
<1> HIDE DEF G
<1>6. \A k \in Nat : k \in G
  BY <1>4, <1>5, Induction
<1>7. ASSUME NEW i \in 1..n PROVE IsSeq(g[i])
  <2>1. i - 1 \in Nat /\ (i - 1) + 1 = i
    OBVIOUS
  <2> QED
    BY <1>6, <2>1 DEF G
<1> QED
  BY <1>2, <1>3, <1>7 DEF JoinsUpTo

\* Each value fits its kind.
AllFit(kinds, values) ==
    /\ IsSeq(kinds) /\ IsSeq(values) /\ Len(kinds) = Len(values)
    /\ \A i \in 1..Len(kinds) : kinds[i] \in Kinds /\ Fit(kinds[i], values[i])

\* The reader reads the values and leaves the rest.
AllBack(kinds, values, rest) ==
    /\ IsSeq(WriteAll(kinds, values))
    /\ ReadAll(kinds, WriteAll(kinds, values) \o rest) = Read(values, rest)

\* One value more than the first i.
LEMMA TakeOne ==
    ASSUME NEW s, IsSeq(s), NEW i \in 0..(Len(s) - 1)
    PROVE  SubSeq(s, 1, i + 1) = Append(SubSeq(s, 1, i), s[i + 1])
<1> DEFINE p == SubSeq(s, 1, i)
           q == SubSeq(s, 1, i + 1)
<1>1. Len(s) \in Nat /\ i \in 0..Len(s) /\ i + 1 \in 0..Len(s)
  BY LenIs
<1>2. Part(p, s, 1, i) /\ Part(q, s, 1, i + 1)
  BY <1>1, PartIs
<1> HIDE DEF p, q
<1>3. IsSeq(p) /\ Len(p) = i /\ \A j \in 1..i : p[j] = s[j]
  <2>1. IsSeq(p) /\ Len(p) = i - 1 + 1 /\ \A j \in 1..(i - 1 + 1) : p[j] = s[1 + j - 1]
    BY <1>2 DEF Part
  <2> QED
    BY <1>1, <2>1
<1>4. IsSeq(q) /\ Len(q) = i + 1 /\ \A j \in 1..(i + 1) : q[j] = s[j]
  <2>1. IsSeq(q) /\ Len(q) = i + 1 - 1 + 1 /\ \A j \in 1..(i + 1 - 1 + 1) : q[j] = s[1 + j - 1]
    BY <1>2 DEF Part
  <2> QED
    BY <1>1, <2>1
<1> DEFINE a == Append(p, s[i + 1])
<1>5. Appends(a, p, s[i + 1])
  BY <1>3, AppendIs
<1> HIDE DEF a
<1>6. IsSeq(a) /\ Len(a) = i + 1 /\ (\A j \in 1..i : a[j] = p[j]) /\ a[i + 1] = s[i + 1]
  BY <1>3, <1>5 DEF Appends
<1>7. \A j \in 1..(i + 1) : q[j] = a[j]
  <2> SUFFICES ASSUME NEW j \in 1..(i + 1) PROVE q[j] = a[j]
    OBVIOUS
  <2>1. j \in 1..i \/ j = i + 1
    BY <1>1
  <2> QED
    BY <1>3, <1>4, <1>6, <2>1
<1>8. q = a
  BY <1>4, <1>6, <1>7, SameSeq
<1> QED
  BY <1>8 DEF q, a, p

\* What comes after one beginning is settled.
LEMMA SameRest ==
    ASSUME NEW s, NEW t, NEW u, IsSeq(s), IsSeq(t), IsSeq(u), s \o t = s \o u
    PROVE  t = u
<1>1. From(s \o t, Len(s) + 1) = t
  BY JoinedFrom
<1>2. From(s \o u, Len(s) + 1) = u
  BY JoinedFrom
<1> QED
  BY <1>1, <1>2

\* What is left of X after the first i parts of a list, which g joins.
Leaves(X, g, i, r) == IsSeq(r) /\ X = (IF i = 0 THEN r ELSE g[i] \o r)

\* The parts of a list can be taken off one after the other.
LEMMA LeavesAll ==
    ASSUME NEW n \in Nat \ {0}, NEW ss, NEW g,
           \A i \in 1..n : IsSeq(ss[i]) /\ IsSeq(g[i]),
           \A i \in 1..n : g[i] = IF i = 1 THEN ss[i] ELSE g[i-1] \o ss[i],
           NEW rest, IsSeq(rest)
    PROVE  \A i \in 1..n : \E r : Leaves(g[n] \o rest, g, i, r)
<1> DEFINE X == g[n] \o rest
           G == {k \in Nat : n - k \in 1..n => \E r : Leaves(X, g, n - k, r)}
<1>1. 0 \in G
  <2>1. n - 0 = n /\ n # 0
    OBVIOUS
  <2>2. Leaves(X, g, n, rest)
    BY <2>1 DEF Leaves
  <2> HIDE DEF X
  <2> QED
    BY <2>1, <2>2
<1> HIDE DEF X
<1>2. ASSUME NEW k \in Nat, k \in G PROVE k + 1 \in G
  <2> SUFFICES ASSUME n - (k + 1) \in 1..n PROVE \E r : Leaves(X, g, n - (k + 1), r)
    OBVIOUS
  <2> DEFINE i == n - (k + 1)
             j == n - k
  <2>1. i \in 1..n /\ j \in 1..n /\ j # 1 /\ j - 1 = i /\ i # 0 /\ j # 0
    OBVIOUS
  <2>2. PICK r : Leaves(X, g, j, r)
    BY <1>2, <2>1
  <2> HIDE DEF i, j
  <2>3. IsSeq(r) /\ X = g[j] \o r
    BY <2>1, <2>2 DEF Leaves
  <2>4. g[j] = g[i] \o ss[j] /\ IsSeq(g[i]) /\ IsSeq(ss[j])
    BY <2>1
  <2>5. Regroups(g[i], ss[j], r) /\ IsSeq(ss[j] \o r)
    BY <2>3, <2>4, JoinedAssoc, JoinedSeq
  <2>6. X = g[i] \o (ss[j] \o r)
    BY <2>3, <2>4, <2>5 DEF Regroups
  <2>7. Leaves(X, g, i, ss[j] \o r)
    BY <2>1, <2>5, <2>6 DEF Leaves
  <2> QED
    BY <2>7 DEF i
<1> HIDE DEF G
<1>3. \A k \in Nat : k \in G
  BY <1>1, <1>2, Induction
<1>4. ASSUME NEW i \in 1..n PROVE \E r : Leaves(X, g, i, r)
  <2>1. n - i \in Nat /\ n - (n - i) = i
    OBVIOUS
  <2> QED
    BY <1>3, <2>1 DEF G
<1> QED
  BY <1>4 DEF X

\* One more value that comes back.
LEMMA FurtherRead ==
    ASSUME NEW a, NEW r, NEW kind, NEW v, NEW z, ReadOne(kind, r) = Read(v, z)
    PROVE  Further(Read(a, r), kind) = Read(Append(a, v), z)
<1>1. Read(a, r).ok /\ Read(a, r).v = a /\ Read(a, r).rest = r
  BY DEF Read
<1>2. Read(v, z).ok /\ Read(v, z).v = v /\ Read(v, z).rest = z
  BY DEF Read
<1>3. With(Read(a, r), Read(v, z)) = Read(Append(a, v), z)
  BY <1>1, <1>2, Zenon DEF With
<1> QED
  BY <1>1, <1>3, Zenon DEF Further

\* A list of values, each of its kind, comes back, and the rest is left.
LEMMA AllRead ==
    ASSUME NEW kinds, NEW values, AllFit(kinds, values), NEW rest, IsSeq(rest)
    PROVE  AllBack(kinds, values, rest)
<1> DEFINE n == Len(kinds)
           ss == [i \in 1..n |-> Write(kinds[i], values[i])]
           W == WriteAll(kinds, values)
<1>1. /\ IsSeq(kinds) /\ IsSeq(values) /\ Len(values) = n /\ n \in Nat
      /\ DOMAIN kinds = 1..n
      /\ \A i \in 1..n : kinds[i] \in Kinds /\ Fit(kinds[i], values[i])
  BY LenIs DEF AllFit
<1>2. W = FlattenSeq(ss)
  BY <1>1 DEF WriteAll
<1>3. \A i \in 1..n : IsSeq(ss[i]) /\ \A r : IsSeq(r) => ReadOne(kinds[i], ss[i] \o r) = Read(values[i], r)
  <2> SUFFICES ASSUME NEW i \in 1..n, NEW r, IsSeq(r)
               PROVE  IsSeq(ss[i]) /\ ReadOne(kinds[i], ss[i] \o r) = Read(values[i], r)
    BY EmptyIs
  <2>1. ReadsBack(kinds[i], values[i], r)
    BY <1>1, OneRead
  <2> QED
    BY <2>1 DEF ReadsBack
<1>4. ss = [i \in 1..n |-> ss[i]]
  OBVIOUS
<1> HIDE DEF ss
<1>5. CASE n = 0
  <2>1. IsSeq(ss) /\ Len(ss) = 0
    BY <1>1, <1>4, <1>5, ListIs
  <2>2. ss = <<>> /\ values = <<>>
    BY <1>1, <1>5, <2>1, EmptySeq DEF IsSeq
  <2>3. W = <<>>
    BY <1>2, <2>1, <2>2, Zenon DEF FlattenSeq
  <2> HIDE DEF W
  <2>4. W \o rest = rest /\ IsSeq(W)
    BY <2>3, JoinedEmpty, EmptyIs
  <2>5. PICK f : Reading(f, kinds, rest, n) /\ ReadAll(kinds, rest) = f[n]
    BY <1>1, ReadAllIs
  <2>6. f[0] = Read(<<>>, rest)
    BY <1>5, <2>5 DEF Reading
  <2> QED
    BY <1>5, <2>2, <2>4, <2>5, <2>6 DEF AllBack, W
<1>6. CASE n # 0
  <2>0. n \in Nat \ {0} /\ \A i \in 1..n : IsSeq(ss[i])
    BY <1>1, <1>3, <1>6
  <2> HIDE DEF n
  <2>a. PICK g : JoinsUpTo(g, ss, n)
    BY <1>4, <2>0, FlattenRuns
  <2>1. /\ FlattenSeq(ss) = g[n]
        /\ \A i \in 1..n : IsSeq(g[i]) /\ g[i] = IF i = 1 THEN ss[i] ELSE g[i-1] \o ss[i]
    BY <2>a DEF JoinsUpTo
  <2> DEFINE X == g[n] \o rest
  <2>2. n \in 1..n /\ W = g[n] /\ IsSeq(g[n])
    BY <1>1, <1>2, <1>6, <2>1
  <2>3. PICK f : Reading(f, kinds, X, n) /\ ReadAll(kinds, X) = f[n]
    BY <1>1, ReadAllIs DEF n
  <2>4. \A i \in 1..n : \E r : Leaves(X, g, i, r)
    <3>1. \A i \in 1..n : IsSeq(ss[i]) /\ IsSeq(g[i])
      BY <2>0, <2>1
    <3>2. \A i \in 1..n : g[i] = IF i = 1 THEN ss[i] ELSE g[i-1] \o ss[i]
      BY <2>1
    <3> QED
      BY <2>0, <3>1, <3>2, LeavesAll
  <2>5. IsSeq(X)
    BY <2>2, JoinedSeq
  <2> HIDE DEF X
  <2>6. f[0] = Read(<<>>, X) /\ \A i \in 1..n : f[i] = Further(f[i - 1], kinds[i])
    BY <1>1, <2>3 DEF Reading
  <2> DEFINE G == {i \in Nat : i \in 0..n =>
                      \E r : Leaves(X, g, i, r) /\ f[i] = Read(SubSeq(values, 1, i), r)}
  <2>7. 0 \in G
    <3>1. SubSeq(values, 1, 0) = <<>>
      <4>1. 0 \in 0..Len(values)
        BY <1>1
      <4>2. SplitAt(values, 0)
        BY <1>1, <4>1, Splits
      <4> QED
        BY <4>2, EmptySeq DEF SplitAt, IsSeq
    <3>2. Leaves(X, g, 0, X)
      BY <2>5 DEF Leaves
    <3> QED
      BY <2>6, <3>1, <3>2
  <2>8. ASSUME NEW i \in Nat, i \in G PROVE i + 1 \in G
    <3> DEFINE j == i + 1
    <3> SUFFICES ASSUME j \in 0..n
                 PROVE  \E r : Leaves(X, g, j, r) /\ f[j] = Read(SubSeq(values, 1, j), r)
      OBVIOUS
    <3>1. i \in 0..n /\ j \in 1..n /\ j - 1 = i /\ i \in 0..(n - 1) /\ j # 0
      BY <1>1
    <3>2. PICK r : Leaves(X, g, i, r) /\ f[i] = Read(SubSeq(values, 1, i), r)
      BY <2>8, <3>1
    <3>3. PICK z : Leaves(X, g, j, z)
      BY <2>4, <3>1
    <3>4. IsSeq(r) /\ IsSeq(z) /\ IsSeq(ss[j]) /\ IsSeq(ss[j] \o z) /\ X = g[j] \o z
      BY <1>3, <3>1, <3>2, <3>3, JoinedSeq DEF Leaves
    <3>5. r = ss[j] \o z
      <4>1. CASE i = 0
        <5>1. X = r /\ j = 1
          BY <3>2, <4>1 DEF Leaves
        <5>2. g[j] = ss[j]
          BY <2>1, <3>1, <5>1
        <5> QED
          BY <3>4, <5>1, <5>2
      <4>2. CASE i # 0
        <5>1. X = g[i] \o r /\ i \in 1..n /\ j # 1
          BY <3>1, <3>2, <4>2 DEF Leaves
        <5>2. g[j] = g[i] \o ss[j] /\ IsSeq(g[i])
          BY <2>1, <3>1, <5>1
        <5>3. Regroups(g[i], ss[j], z)
          BY <3>4, <5>2, JoinedAssoc
        <5>4. g[i] \o r = g[i] \o (ss[j] \o z)
          BY <3>4, <5>1, <5>2, <5>3 DEF Regroups
        <5> HIDE DEF j
        <5> QED
          BY <3>4, <5>2, <5>4, SameRest
      <4> QED
        BY <4>1, <4>2
    <3>6. ReadOne(kinds[j], r) = Read(values[j], z)
      BY <1>3, <3>1, <3>4, <3>5
    <3>7. f[j] = Further(f[i], kinds[j])
      BY <2>6, <3>1
    <3>8. Further(Read(SubSeq(values, 1, i), r), kinds[j])
          = Read(Append(SubSeq(values, 1, i), values[j]), z)
      BY <3>6, FurtherRead
    <3>9. SubSeq(values, 1, j) = Append(SubSeq(values, 1, i), values[j])
      BY <1>1, <3>1, TakeOne
    <3>10. f[j] = Read(SubSeq(values, 1, j), z)
      BY <3>2, <3>7, <3>8, <3>9
    <3> QED
      BY <3>3, <3>10
  <2> HIDE DEF G
  <2>9. \A i \in Nat : i \in G
    BY <2>7, <2>8, Induction
  <2>10. PICK r : Leaves(X, g, n, r) /\ f[n] = Read(SubSeq(values, 1, n), r)
    BY <1>1, <2>9 DEF G
  <2>11. r = rest
    <3>1. IsSeq(r) /\ X = g[n] \o r
      BY <1>6, <2>10 DEF Leaves
    <3>2. g[n] \o r = g[n] \o rest
      BY <3>1 DEF X
    <3> QED
      BY <2>2, <3>1, <3>2, SameRest
  <2>12. SubSeq(values, 1, n) = values
    <3>1. n \in 0..Len(values) /\ Len(values) - n = 0
      BY <1>1
    <3>2. SplitAt(values, n)
      BY <1>1, <3>1, Splits
    <3>3. From(values, n + 1) = <<>> /\ IsSeq(SubSeq(values, 1, n))
      BY <3>1, <3>2, EmptySeq DEF SplitAt, IsSeq
    <3>4. SubSeq(values, 1, n) \o <<>> = values
      BY <3>2, <3>3 DEF SplitAt
    <3> QED
      BY <3>3, <3>4, JoinedEmpty
  <2>13. ReadAll(kinds, W \o rest) = Read(values, rest)
    <3>1. W \o rest = X
      BY <2>2 DEF X
    <3> HIDE DEF W
    <3> QED
      BY <2>3, <2>10, <2>11, <2>12, <3>1
  <2> QED
    BY <2>2, <2>13 DEF AllBack
<1> QED
  BY <1>5, <1>6
-----------------------------------------------------------------------------
(* What is read of a beginning is read of the whole *)

\* r is what is read of d, s what is read of d with x behind it.
Steady(r, s, x) == r.ok => IsNums(r.rest) /\ s = Read(r.v, r.rest \o x)

\* The same value, with x behind the rest.
LEMMA SteadyRead ==
    ASSUME NEW v, NEW rest, IsNums(rest), NEW x
    PROVE  Steady(Read(v, rest), Read(v, rest \o x), x)
<1> DEFINE r == Read(v, rest)
<1>1. r.v = v /\ r.rest = rest
  BY DEF Read
<1> HIDE DEF r
<1>2. Steady(r, Read(v, rest \o x), x)
  BY <1>1 DEF Steady
<1> QED
  BY <1>2 DEF r

\* The parts of a sequence of numbers.
LEMMA NumsParts ==
    ASSUME NEW d, IsNums(d), NEW n \in 0..Len(d)
    PROVE  IsNums(SubSeq(d, 1, n)) /\ IsNums(From(d, n + 1))
<1> DEFINE p == SubSeq(d, 1, n)
           q == From(d, n + 1)
<1>1. IsSeq(p) /\ Len(p) = n /\ IsSeq(q) /\ Len(q) = Len(d) - n /\ p \o q = d
  BY Splits DEF IsNums, SplitAt
<1>2. Len(d) \in Nat /\ \A i \in 1..Len(d) : d[i] \in Nat
  BY LenIs DEF IsNums
<1> HIDE DEF p, q
<1>3. IsSeq(p \o q) /\ Joins(p \o q, p, q)
  BY <1>1, JoinedSeq, Zenon
<1>4. (\A i \in 1..n : d[i] = p[i]) /\ \A i \in 1..(Len(d) - n) : d[n + i] = q[i]
  BY <1>1, <1>3 DEF Joins
<1>5. \A i \in 1..n : p[i] \in Nat
  BY <1>2, <1>4
<1>6. \A i \in 1..(Len(d) - n) : q[i] \in Nat
  <2> SUFFICES ASSUME NEW i \in 1..(Len(d) - n) PROVE q[i] \in Nat
    OBVIOUS
  <2>1. n + i \in 1..Len(d)
    BY <1>2
  <2> QED
    BY <1>2, <1>4, <2>1
<1>7. IsNums(p) /\ IsNums(q)
  BY <1>1, <1>5, <1>6 DEF IsNums
<1> QED
  BY <1>7 DEF p, q

\* Numbers, then numbers.
LEMMA NumsJoined == ASSUME NEW s, NEW t, IsNums(s), IsNums(t) PROVE IsNums(s \o t)
<1>1. IsSeq(s) /\ IsSeq(t) /\ Len(s) \in Nat /\ Len(t) \in Nat
  BY LenIs DEF IsNums
<1>2. IsSeq(s \o t) /\ Joins(s \o t, s, t)
  BY <1>1, JoinedSeq, Zenon
<1>3. Len(s \o t) = Len(s) + Len(t)
  BY <1>2 DEF Joins
<1>4. ASSUME NEW i \in 1..(Len(s) + Len(t)) PROVE (s \o t)[i] \in Nat
  <2>1. CASE i <= Len(s)
    <3>1. i \in 1..Len(s)
      BY <1>1, <2>1
    <3> QED
      BY <1>2, <3>1 DEF Joins, IsNums
  <2>2. CASE i > Len(s)
    <3>1. i - Len(s) \in 1..Len(t) /\ Len(s) + (i - Len(s)) = i
      BY <1>1, <2>2
    <3>2. (s \o t)[i] = t[i - Len(s)]
      BY <1>2, <3>1 DEF Joins
    <3> QED
      BY <3>1, <3>2 DEF IsNums
  <2>3. i <= Len(s) \/ i > Len(s)
    BY <1>1
  <2> QED
    BY <2>1, <2>2, <2>3
<1> QED
  BY <1>2, <1>3, <1>4 DEF IsNums

\* reader.varint looks no further than the varint.
LEMMA VarintSteady ==
    ASSUME NEW d, IsNums(d), NEW x, IsSeq(x)
    PROVE  /\ Steady(ReadVarint(d), ReadVarint(d \o x), x)
           /\ ReadVarint(d).ok => ReadVarint(d).v \in Nat
<1> SUFFICES ASSUME ReadVarint(d).ok
             PROVE  /\ Steady(ReadVarint(d), ReadVarint(d \o x), x)
                    /\ ReadVarint(d).v \in Nat
  BY DEF Steady
<1>1. PICK n \in 1..Groups : GroupEnd(d, n)
  BY VarintEnds
<1>2. IsSeq(d) /\ Len(d) \in Nat /\ Len(x) \in Nat /\ n \in Nat /\ n >= 1 /\ n <= Len(d)
  BY <1>1, LenIs, WidthIs DEF IsNums, GroupEnd
<1>3. n \in 0..Len(d)
  BY <1>2
<1>4. IsSeq(d \o x) /\ Joins(d \o x, d, x)
  BY <1>2, JoinedSeq, Zenon
<1>5. Len(d \o x) = Len(d) + Len(x) /\ \A i \in 1..n : (d \o x)[i] = d[i]
  BY <1>2, <1>4 DEF Joins
<1>6. GroupEnd(d \o x, n)
  <2>1. n \in 1..n
    BY <1>2
  <2> QED
    BY <1>1, <1>2, <1>5, <2>1 DEF GroupEnd
<1>7. ReadVarint(d) = Read(Groupwise(SubSeq(d, 1, n)), From(d, n + 1))
  BY <1>1, <1>2, ReadsGroups
<1>8. ReadVarint(d \o x) = Read(Groupwise(SubSeq(d \o x, 1, n)), From(d \o x, n + 1))
  BY <1>4, <1>6, ReadsGroups
<1>9. SubSeq(d \o x, 1, n) = SubSeq(d, 1, n) /\ From(d \o x, n + 1) = From(d, n + 1) \o x
  BY <1>2, <1>3, SplitJoined
<1>10. IsNums(SubSeq(d, 1, n)) /\ IsNums(From(d, n + 1))
  BY <1>3, NumsParts
<1>11. Groupwise(SubSeq(d, 1, n)) \in Nat
  <2> DEFINE s == SubSeq(d, 1, n)
  <2> HIDE DEF s
  <2>1. IsNums(s) /\ Len(s) \in Nat
    BY <1>10, LenIs DEF s, IsNums
  <2>2. PICK f \in [0..Len(s) -> Nat] : Groupwise(s) = f[Len(s)]
    BY <2>1, GroupwiseIs
  <2>3. Groupwise(s) \in Nat
    BY <2>1, <2>2
  <2> QED
    BY <2>3 DEF s
<1>12. Steady(ReadVarint(d), ReadVarint(d \o x), x)
  BY <1>7, <1>8, <1>9, <1>10, SteadyRead
<1>13. ReadVarint(d).v = Groupwise(SubSeq(d, 1, n))
  <2> DEFINE a == Groupwise(SubSeq(d, 1, n))
             b == From(d, n + 1)
  <2> HIDE DEF a, b
  <2>1. Read(a, b).v = a
    BY DEF Read
  <2> QED
    BY <1>7, <2>1 DEF a, b
<1> QED
  BY <1>11, <1>12, <1>13

\* Cells counted are the same with more behind them.
LEMMA CountedSteady ==
    ASSUME NEW v \in Nat, NEW rest, IsNums(rest), NEW x, IsSeq(x)
    PROVE  Steady(Counted(Read(v, rest)), Counted(Read(v, rest \o x)), x)
<1> SUFFICES ASSUME Counted(Read(v, rest)).ok
             PROVE  Steady(Counted(Read(v, rest)), Counted(Read(v, rest \o x)), x)
  BY DEF Steady
<1>1. IsSeq(rest) /\ Len(rest) \in Nat /\ Len(x) \in Nat
  BY LenIs DEF IsNums
<1>2. Len(rest \o x) = Len(rest) + Len(x)
  BY <1>1, JoinedLen
<1>3. ~(v > Len(rest))
  BY DEF Counted, Read, Malformed
<1>4. v \in 0..Len(rest) /\ ~(v > Len(rest \o x))
  BY <1>1, <1>2, <1>3
<1>5. Counted(Read(v, rest)) = Read(SubSeq(rest, 1, v), From(rest, v + 1))
  BY <1>3, Zenon DEF Counted, Read
<1>6. Counted(Read(v, rest \o x)) = Read(SubSeq(rest \o x, 1, v), From(rest \o x, v + 1))
  BY <1>4, Zenon DEF Counted, Read
<1>7. /\ SubSeq(rest \o x, 1, v) = SubSeq(rest, 1, v)
      /\ From(rest \o x, v + 1) = From(rest, v + 1) \o x
  BY <1>1, <1>4, SplitJoined
<1>8. IsNums(From(rest, v + 1))
  BY <1>4, NumsParts
<1> QED
  BY <1>5, <1>6, <1>7, <1>8, SteadyRead

\* The kinds of which payloads consist.
Plain == {"varint", "svarint", "string", "cell"}

\* No reader looks further than its value.
LEMMA OneSteady ==
    ASSUME NEW kind \in Plain, NEW d, IsNums(d), NEW x, IsSeq(x)
    PROVE  Steady(ReadOne(kind, d), ReadOne(kind, d \o x), x)
<1> SUFFICES ASSUME ReadOne(kind, d).ok
             PROVE  Steady(ReadOne(kind, d), ReadOne(kind, d \o x), x)
  BY DEF Steady
<1> DEFINE u == ReadVarint(d)
           w == ReadVarint(d \o x)
<1>0. u.ok => IsNums(u.rest) /\ w = Read(u.v, u.rest \o x) /\ u.v \in Nat
  BY VarintSteady DEF Steady
<1>1. CASE kind = "varint"
  BY <1>1, VarintSteady DEF ReadOne
<1>2. CASE kind = "svarint"
  <2>1. ReadOne(kind, d) = Signed(u) /\ ReadOne(kind, d \o x) = Signed(w)
    BY <1>2 DEF ReadOne
  <2> HIDE DEF u, w
  <2>2. u.ok
    BY <2>1 DEF Signed, Malformed
  <2>3. Signed(u) = Read(UnZigZag(u.v), u.rest)
    BY <2>2 DEF Signed
  <2>4. Signed(w) = Read(UnZigZag(u.v), u.rest \o x)
    <3>1. w.ok /\ w.v = u.v /\ w.rest = u.rest \o x
      <4>1. w = Read(u.v, u.rest \o x)
        BY <1>0, <2>2
      <4> QED
        BY <4>1 DEF Read
    <3> QED
      BY <3>1 DEF Signed
  <2> QED
    BY <1>0, <2>1, <2>2, <2>3, <2>4, SteadyRead
<1>3. CASE kind = "string"
  <2>1. ReadOne(kind, d) = Counted(u) /\ ReadOne(kind, d \o x) = Counted(w)
    BY <1>3 DEF ReadOne, ReadText
  <2>a. ReadVarint(d) \in {Malformed} \cup {Read(ReadVarint(d).v, ReadVarint(d).rest)}
    BY DEF ReadVarint, Malformed, Read
  <2> HIDE DEF u, w
  <2>2. u.ok
    BY <2>1 DEF Counted, Malformed
  <2>3. u = Read(u.v, u.rest)
    BY <2>a, <2>2 DEF Malformed, u
  <2>4. Steady(Counted(Read(u.v, u.rest)), Counted(Read(u.v, u.rest \o x)), x)
    BY <1>0, <2>2, CountedSteady
  <2> QED
    BY <1>0, <2>1, <2>2, <2>3, <2>4
<1>4. CASE kind = "cell"
  <2>1. ReadOne(kind, d) = ReadCell(d) /\ ReadOne(kind, d \o x) = ReadCell(d \o x)
    BY <1>4 DEF ReadOne
  <2>2. d # <<>> /\ IsSeq(d)
    BY <2>1 DEF ReadCell, Malformed, IsNums
  <2> DEFINE r == From(d, 2)
             t == r \o x
             e == <<d[1]>> \o t
  <2>3. IsSeq(r) /\ d = <<d[1]>> \o r
    BY <2>2, HeadSplit
  <2>4. IsNums(r)
    <3>1. Len(d) \in Nat /\ Len(d) # 0
      BY <2>2, LenIs, EmptySeq DEF IsSeq
    <3>2. 1 \in 0..Len(d)
      BY <3>1
    <3>3. IsNums(From(d, 1 + 1))
      BY <3>2, NumsParts
    <3> QED
      BY <3>3
  <2> HIDE DEF r
  <2>5. IsSeq(t)
    BY <2>3, JoinedSeq
  <2>6. d \o x = e
    <3>1. Regroups(<<d[1]>>, r, x)
      BY <2>3, OneIs, JoinedAssoc
    <3> QED
      BY <2>3, <3>1 DEF Regroups
  <2> HIDE DEF t
  <2>7. e # <<>> /\ e[1] = d[1] /\ From(e, 2) = t
    BY <2>5, HeadOf
  <2> HIDE DEF e
  <2>8. ReadCell(d) = Read(d[1], r)
    BY <2>2 DEF ReadCell, r
  <2>9. ReadCell(e) = Read(d[1], t)
    BY <2>7 DEF ReadCell
  <2> QED
    BY <2>1, <2>4, <2>6, <2>8, <2>9, SteadyRead DEF t
<1> QED
  BY <1>1, <1>2, <1>3, <1>4 DEF Plain

\* Nor does ReadAll look further than its values.
LEMMA AllSteady ==
    ASSUME NEW kinds \in Seq(Plain), NEW d, IsNums(d), NEW x, IsSeq(x)
    PROVE  Steady(ReadAll(kinds, d), ReadAll(kinds, d \o x), x)
<1> DEFINE n == Len(kinds)
<1>1. IsSeq(kinds) /\ n \in Nat /\ \A i \in 1..n : kinds[i] \in Plain
  BY SeqIs, LenIs, ElementOfSeq
<1>2. PICK f : Reading(f, kinds, d, n) /\ ReadAll(kinds, d) = f[n]
  BY <1>1, ReadAllIs
<1>3. PICK h : Reading(h, kinds, d \o x, n) /\ ReadAll(kinds, d \o x) = h[n]
  BY <1>1, ReadAllIs
<1> HIDE DEF n
<1>4. /\ f[0] = Read(<<>>, d) /\ h[0] = Read(<<>>, d \o x)
      /\ \A i \in 1..n : f[i] = Further(f[i - 1], kinds[i]) /\ h[i] = Further(h[i - 1], kinds[i])
  BY <1>1, <1>2, <1>3 DEF Reading
<1> DEFINE G == {i \in Nat : i \in 0..n => Steady(f[i], h[i], x)}
<1>5. 0 \in G
  BY <1>4, SteadyRead
<1>6. ASSUME NEW i \in Nat, i \in G PROVE i + 1 \in G
  <2> DEFINE j == i + 1
  <2> SUFFICES ASSUME j \in 0..n PROVE Steady(f[j], h[j], x)
    OBVIOUS
  <2>1. i \in 0..n /\ j \in 1..n /\ j - 1 = i
    BY <1>1
  <2>2. f[j] = Further(f[i], kinds[j]) /\ h[j] = Further(h[i], kinds[j]) /\ kinds[j] \in Plain
    BY <1>1, <1>4, <2>1
  <2>3. Steady(f[i], h[i], x)
    BY <1>6, <2>1
  <2> HIDE DEF j
  <2> SUFFICES ASSUME f[j].ok PROVE Steady(f[j], h[j], x)
    BY DEF Steady
  <2> DEFINE r == f[i].rest
             one == ReadOne(kinds[j], r)
             two == ReadOne(kinds[j], r \o x)
  <2>4. f[i].ok
    BY <2>2 DEF Further, Malformed
  <2>5. f[j] = With(f[i], one)
    BY <2>2, <2>4 DEF Further
  <2>6. IsNums(r) /\ h[i] = Read(f[i].v, r \o x)
    BY <2>3, <2>4 DEF Steady
  <2>7. Steady(one, two, x)
    BY <2>2, <2>6, OneSteady
  <2> HIDE DEF one
  <2>8. one.ok
    BY <2>5 DEF With, Malformed
  <2>9. f[j] = Read(Append(f[i].v, one.v), one.rest)
    BY <2>5, <2>8 DEF With
  <2>10. IsNums(one.rest) /\ two = Read(one.v, one.rest \o x)
    BY <2>7, <2>8 DEF Steady
  <2>11. h[j] = Read(Append(f[i].v, one.v), one.rest \o x)
    BY <2>2, <2>6, <2>10, FurtherRead
  <2> QED
    BY <2>9, <2>10, <2>11, SteadyRead
<1> HIDE DEF G
<1>7. \A i \in Nat : i \in G
  BY <1>5, <1>6, Induction
<1>8. Steady(f[n], h[n], x)
  BY <1>1, <1>7 DEF G
<1> QED
  BY <1>2, <1>3, <1>8
-----------------------------------------------------------------------------
(* Payloads *)

\* Values of a payload: they fit their kinds and are written as numbers.
Carries(kinds, values) ==
    /\ AllFit(kinds, values)
    /\ \A i \in 1..Len(kinds) : /\ kinds[i] \in Plain
                                /\ kinds[i] = "string" => IsNums(values[i])
                                /\ kinds[i] = "cell" => values[i] \in Nat

\* They are read back, whatever comes after them.
Carried(kinds, values, rest) ==
    /\ IsNums(WriteAll(kinds, values))
    /\ ReadAll(kinds, WriteAll(kinds, values) \o rest) = Read(values, rest)

\* What a value of a payload is written as.
LEMMA OneNums ==
    ASSUME NEW kind \in Plain, NEW v, Fit(kind, v),
           kind = "string" => IsNums(v), kind = "cell" => v \in Nat
    PROVE  IsNums(Write(kind, v))
<1>1. CASE kind = "varint"
  <2>1. v \in 0..(Word - 1) /\ Write(kind, v) = Varint(v)
    BY <1>1 DEF Fit, Write
  <2> QED
    BY <2>1, VarintNums
<1>2. CASE kind = "svarint"
  <2>1. v \in SignedWord /\ Write(kind, v) = Varint(ZigZag(v))
    BY <1>2 DEF Fit, Write
  <2>2. ZigZag(v) \in 0..(Word - 1)
    BY <2>1, ZigZagIs
  <2> QED
    BY <2>1, <2>2, VarintNums
<1>3. CASE kind = "string"
  <2>1. IsNums(v) /\ Len(v) < Word /\ Write(kind, v) = Varint(Len(v)) \o v
    BY <1>3 DEF Fit, Write, Text
  <2>2. Len(v) \in 0..(Word - 1)
    BY <2>1, LenIs, WordIs DEF IsNums
  <2>3. IsNums(Varint(Len(v)))
    BY <2>2, VarintNums
  <2> QED
    BY <2>1, <2>3, NumsJoined
<1>4. CASE kind = "cell"
  <2>1. v \in Nat /\ Write(kind, v) = <<v>>
    BY <1>4 DEF Write
  <2> DEFINE s == <<v>>
  <2>2. IsSeq(s) /\ Len(s) = 1 /\ s[1] = v
    BY OneIs
  <2> HIDE DEF s
  <2>3. IsNums(s)
    BY <2>1, <2>2 DEF IsNums
  <2> QED
    BY <2>1, <2>3 DEF s
<1> QED
  BY <1>1, <1>2, <1>3, <1>4 DEF Plain

\* The values of a payload, written and read.
LEMMA PayloadRead ==
    ASSUME NEW kinds, NEW values, Carries(kinds, values), NEW rest, IsSeq(rest)
    PROVE  Carried(kinds, values, rest)
<1> DEFINE n == Len(kinds)
           ss == [i \in 1..n |-> Write(kinds[i], values[i])]
           W == WriteAll(kinds, values)
<1>1. AllFit(kinds, values) /\ AllBack(kinds, values, rest)
  BY AllRead DEF Carries
<1>2. /\ IsSeq(kinds) /\ n \in Nat /\ DOMAIN kinds = 1..n
      /\ \A i \in 1..n : Fit(kinds[i], values[i])
  BY <1>1, LenIs DEF AllFit
<1>3. IsSeq(W) /\ ReadAll(kinds, W \o rest) = Read(values, rest)
  BY <1>1 DEF AllBack
<1>4. W = FlattenSeq(ss)
  BY <1>2 DEF WriteAll
<1>5. \A i \in 1..n : IsNums(ss[i])
  <2> SUFFICES ASSUME NEW i \in 1..n PROVE IsNums(Write(kinds[i], values[i]))
    OBVIOUS
  <2>1. /\ kinds[i] \in Plain
        /\ kinds[i] = "string" => IsNums(values[i])
        /\ kinds[i] = "cell" => values[i] \in Nat
    BY DEF Carries
  <2> QED
    BY <1>2, <2>1, OneNums
<1>6. ss = [i \in 1..n |-> ss[i]]
  OBVIOUS
<1> HIDE DEF ss
<1>7. IsNums(W)
  <2>1. CASE n = 0
    <3>1. IsSeq(ss) /\ Len(ss) = 0
      BY <1>2, <1>6, <2>1, ListIs
    <3>2. W = ss
      BY <1>4, <3>1, Zenon DEF FlattenSeq
    <3> QED
      BY <3>1, <3>2 DEF IsNums
  <2>2. CASE n # 0
    <3>0. n \in Nat \ {0} /\ \A i \in 1..n : IsSeq(ss[i])
      BY <1>2, <1>5, <2>2 DEF IsNums
    <3> HIDE DEF n
    <3>1. PICK g : JoinsUpTo(g, ss, n)
      BY <1>6, <3>0, FlattenRuns
    <3>2. W = g[n] /\ \A i \in 1..n : g[i] = IF i = 1 THEN ss[i] ELSE g[i-1] \o ss[i]
      BY <1>4, <3>1 DEF JoinsUpTo
    <3> HIDE DEF W
    <3> DEFINE G == {k \in Nat : k + 1 \in 1..n => IsNums(g[k + 1])}
    <3>3. 0 \in G
      BY <1>5, <3>2
    <3>4. ASSUME NEW k \in Nat, k \in G PROVE k + 1 \in G
      <4> DEFINE m == k + 1 + 1
      <4> SUFFICES ASSUME m \in 1..n PROVE IsNums(g[m])
        OBVIOUS
      <4>1. m - 1 \in 1..n /\ m # 1 /\ m - 1 = k + 1
        BY <3>0
      <4>2. IsNums(g[m - 1]) /\ IsNums(ss[m])
        BY <1>5, <3>4, <4>1
      <4> HIDE DEF m
      <4>3. g[m] = g[m - 1] \o ss[m]
        BY <3>2, <4>1
      <4> QED
        BY <4>2, <4>3, NumsJoined
    <3> HIDE DEF G
    <3>5. \A k \in Nat : k \in G
      BY <3>3, <3>4, Induction
    <3>6. n - 1 \in Nat /\ (n - 1) + 1 = n /\ n \in 1..n
      BY <3>0
    <3> QED
      BY <3>2, <3>5, <3>6 DEF G
  <2> QED
    BY <2>1, <2>2
<1> QED
  BY <1>3, <1>7 DEF Carried

\* A name is a sequence of numbers that a length can count.
LEMMA NameIs == ASSUME NEW s \in Names PROVE IsNums(s) /\ IsSeq(s) /\ Len(s) < Word
<1>1. s \in Seq(Nat) /\ Len(s) < Word
  BY DEF Names
<1>2. IsSeq(s) /\ \A i \in 1..Len(s) : s[i] \in Nat
  BY <1>1, SeqIs, ElementOfSeq
<1> QED
  BY <1>1, <1>2 DEF IsNums

\* What fits an int32 when it is quantized.
LEMMA SignedIs == ASSUME NEW v \in Int, FitsSigned(v) PROVE Quantized(v) \in SignedWord
<1> DEFINE q == Quantized(v)
           h == Word \div 2
<1>1. q \in Int /\ h \in Nat
  BY WordIs DEF Quantized
<1>2. q >= -h /\ q < h
  BY DEF FitsSigned
<1> HIDE DEF q, h
<1>3. q \in (-h)..(h - 1)
  BY <1>1, <1>2
<1> QED
  BY <1>3 DEF SignedWord, q, h

\* What a pointer looks like after a trip over the wire.
CanonPointer(p) ==
    [id |-> p.id, x |-> Dequantized(Quantized(p.x)), y |-> Dequantized(Quantized(p.y))]

\* decodePointer reads what encodePointer wrote, to the quantum.
LEMMA PointerBack ==
    ASSUME NEW p, p \in [id : Names, x : Int, y : Int], EncodePointer(p).ok,
           NEW rest, IsSeq(rest)
    PROVE  /\ IsNums(EncodePointer(p).cells)
           /\ DecodePointer(EncodePointer(p).cells \o rest) = Read(CanonPointer(p), rest)
<1> DEFINE kinds == <<"string", "svarint", "svarint">>
           values == <<p.id, Quantized(p.x), Quantized(p.y)>>
<1>1. EncodePointer(p).cells = WriteAll(kinds, values)
  BY DEF EncodePointer
<1>2. /\ p.id \in Names /\ p.id # <<>> /\ p.x \in Int /\ p.y \in Int
      /\ FitsSigned(p.x) /\ FitsSigned(p.y)
  BY DEF EncodePointer
<1>3. IsNums(p.id) /\ IsSeq(p.id) /\ Len(p.id) < Word
  BY <1>2, NameIs
<1>4. Quantized(p.x) \in SignedWord /\ Quantized(p.y) \in SignedWord
  BY <1>2, SignedIs
<1>5. /\ kinds \in Seq(Plain) /\ Len(kinds) = 3
      /\ kinds[1] = "string" /\ kinds[2] = "svarint" /\ kinds[3] = "svarint"
  BY DEF Plain
<1>6. /\ values \in Seq({p.id, Quantized(p.x), Quantized(p.y)}) /\ Len(values) = 3
      /\ values[1] = p.id /\ values[2] = Quantized(p.x) /\ values[3] = Quantized(p.y)
  OBVIOUS
<1> HIDE DEF kinds, values
<1>7. Fit("string", p.id) /\ \A v \in SignedWord : Fit("svarint", v)
  BY <1>3 DEF Fit
<1>8. Carries(kinds, values)
  <2>1. IsSeq(kinds) /\ IsSeq(values)
    BY <1>5, <1>6, SeqIs
  <2>2. \A i \in 1..3 : i = 1 \/ i = 2 \/ i = 3
    OBVIOUS
  <2>3. {"string", "svarint"} \subseteq Kinds /\ {"string", "svarint"} \subseteq Plain
    BY DEF Kinds, Plain
  <2>4. \A i \in 1..3 : kinds[i] \in Kinds /\ kinds[i] \in Plain /\ Fit(kinds[i], values[i])
    BY <1>4, <1>5, <1>6, <1>7, <2>2, <2>3
  <2>5. \A i \in 1..3 : (kinds[i] = "string" => IsNums(values[i])) /\ kinds[i] # "cell"
    BY <1>3, <1>5, <1>6, <2>2
  <2>6. AllFit(kinds, values)
    BY <1>5, <1>6, <2>1, <2>4 DEF AllFit
  <2> QED
    BY <1>5, <2>4, <2>5, <2>6 DEF Carries
<1>9. Carried(kinds, values, rest)
  BY <1>8, PayloadRead
<1> DEFINE W == WriteAll(kinds, values)
           r == Read(values, rest)
<1>10. IsNums(W) /\ DecodePointer(W \o rest) = PointerOf(r)
  BY <1>9, Zenon DEF Carried, DecodePointer, kinds
<1>11. r.ok /\ r.v = values /\ r.rest = rest
  BY DEF Read
<1> HIDE DEF W, r
<1>12. PointerOf(r) = Read(CanonPointer(p), rest)
  BY <1>2, <1>6, <1>11 DEF PointerOf, CanonPointer
<1> QED
  BY <1>1, <1>10, <1>12 DEF W

\* What fits a uint32 when it is quantized.
LEMMA UnsignedIs == ASSUME NEW v \in Int, FitsUnsigned(v) PROVE Quantized(v) \in 0..(Word - 1)
<1> DEFINE q == Quantized(v)
<1>1. q \in Int /\ Word \in Nat
  BY WordIs DEF Quantized
<1>2. q >= 0 /\ q < Word
  BY DEF FitsUnsigned
<1> HIDE DEF q
<1>3. q \in 0..(Word - 1)
  BY <1>1, <1>2
<1> QED
  BY <1>3 DEF q

\* The payloads of a transform.
Transforms ==
    [id : Names, page : Names, x : Int, y : Int, width : Int, height : Int, rotation : Int]

\* What a transform looks like after a trip over the wire.
CanonTransform(p) ==
    [id |-> p.id, page |-> p.page,
     x |-> Dequantized(Quantized(p.x)), y |-> Dequantized(Quantized(p.y)),
     width |-> Dequantized(Quantized(p.width)), height |-> Dequantized(Quantized(p.height)),
     rotation |-> Dequantized(Quantized(p.rotation))]

\* decodeTransform reads what encodeTransform wrote, to the quantum.
LEMMA TransformBack ==
    ASSUME NEW p, p \in Transforms, EncodeTransform(p).ok, NEW rest, IsSeq(rest)
    PROVE  /\ IsNums(EncodeTransform(p).cells)
           /\ DecodeTransform(EncodeTransform(p).cells \o rest) = Read(CanonTransform(p), rest)
<1> DEFINE kinds == TransformKinds
           values == <<p.id, p.page, Quantized(p.x), Quantized(p.y), Quantized(p.width),
                       Quantized(p.height), Quantized(p.rotation)>>
<1>1. EncodeTransform(p).cells = WriteAll(kinds, values)
  BY DEF EncodeTransform
<1>2. /\ p.id \in Names /\ p.id # <<>> /\ p.page \in Names /\ p.page # <<>>
      /\ p.x \in Int /\ p.y \in Int /\ p.width \in Int /\ p.height \in Int /\ p.rotation \in Int
      /\ FitsSigned(p.x) /\ FitsSigned(p.y) /\ FitsSigned(p.rotation)
      /\ FitsUnsigned(p.width) /\ FitsUnsigned(p.height)
  BY DEF EncodeTransform, Transforms
<1>3. /\ IsNums(p.id) /\ IsSeq(p.id) /\ Len(p.id) < Word
      /\ IsNums(p.page) /\ IsSeq(p.page) /\ Len(p.page) < Word
  BY <1>2, NameIs
<1>4. /\ Quantized(p.x) \in SignedWord /\ Quantized(p.y) \in SignedWord
      /\ Quantized(p.rotation) \in SignedWord
  BY <1>2, SignedIs
<1>5. Quantized(p.width) \in 0..(Word - 1) /\ Quantized(p.height) \in 0..(Word - 1)
  BY <1>2, UnsignedIs
<1>6. /\ kinds \in Seq(Plain) /\ Len(kinds) = 7
      /\ kinds[1] = "string" /\ kinds[2] = "string" /\ kinds[3] = "svarint"
      /\ kinds[4] = "svarint" /\ kinds[5] = "varint" /\ kinds[6] = "varint"
      /\ kinds[7] = "svarint"
  BY DEF Plain, TransformKinds
<1>7. /\ values \in Seq({p.id, p.page, Quantized(p.x), Quantized(p.y), Quantized(p.width),
                         Quantized(p.height), Quantized(p.rotation)})
      /\ Len(values) = 7
      /\ values[1] = p.id /\ values[2] = p.page /\ values[3] = Quantized(p.x)
      /\ values[4] = Quantized(p.y) /\ values[5] = Quantized(p.width)
      /\ values[6] = Quantized(p.height) /\ values[7] = Quantized(p.rotation)
  OBVIOUS
<1> HIDE DEF kinds, values
<1>8. /\ Fit("string", p.id) /\ Fit("string", p.page)
      /\ \A v \in SignedWord : Fit("svarint", v)
      /\ \A v \in 0..(Word - 1) : Fit("varint", v)
  BY <1>3 DEF Fit
<1>9. Carries(kinds, values)
  <2>1. IsSeq(kinds) /\ IsSeq(values)
    BY <1>6, <1>7, SeqIs
  <2>2. \A i \in 1..7 : i = 1 \/ i = 2 \/ i = 3 \/ i = 4 \/ i = 5 \/ i = 6 \/ i = 7
    OBVIOUS
  <2>3. {"string", "svarint", "varint"} \subseteq Kinds /\ {"string", "svarint", "varint"} \subseteq Plain
    BY DEF Kinds, Plain
  <2>4. \A i \in 1..7 : kinds[i] \in Kinds /\ kinds[i] \in Plain /\ Fit(kinds[i], values[i])
    BY <1>4, <1>5, <1>6, <1>7, <1>8, <2>2, <2>3
  <2>5. \A i \in 1..7 : (kinds[i] = "string" => IsNums(values[i])) /\ kinds[i] # "cell"
    BY <1>3, <1>6, <1>7, <2>2
  <2>6. AllFit(kinds, values)
    BY <1>6, <1>7, <2>1, <2>4 DEF AllFit
  <2> QED
    BY <1>6, <2>4, <2>5, <2>6 DEF Carries
<1>10. Carried(kinds, values, rest)
  BY <1>9, PayloadRead
<1> DEFINE W == WriteAll(kinds, values)
           r == Read(values, rest)
<1>11. IsNums(W) /\ DecodeTransform(W \o rest) = TransformOf(r)
  BY <1>10, Zenon DEF Carried, DecodeTransform, kinds
<1>12. r.ok /\ r.v = values /\ r.rest = rest
  BY DEF Read
<1> HIDE DEF W, r
<1>13. TransformOf(r) = Read(CanonTransform(p), rest)
  BY <1>2, <1>7, <1>12 DEF TransformOf, CanonTransform
<1> QED
  BY <1>1, <1>11, <1>13 DEF W

-----------------------------------------------------------------------------
(* Ink: the sums of differences *)

\* A bounded set of numbers has a largest one, and Max gives it.
LEMMA MaxIs ==
    ASSUME NEW b \in Nat, NEW S \in SUBSET (0..b), S # {}
    PROVE  Max(S) \in S /\ \A y \in S : Max(S) >= y
<1> DEFINE T == {b - x : x \in S}
<1>a. \A x \in S : b - x \in Nat
  OBVIOUS
<1>1. T \in SUBSET Nat /\ T # {}
  BY <1>a
<1>2. PICK m \in T : \A y \in T : m <= y
  BY <1>1, LeastNat
<1>3. PICK x \in S : m = b - x
  OBVIOUS
<1>4. \A y \in S : x >= y
  BY <1>2, <1>3
<1>5. \E z \in S : \A y \in S : z >= y
  BY <1>4
<1> QED
  BY <1>5, Zenon DEF Max

\* The smaller of two, and the larger.
LEMMA PairIs ==
    ASSUME NEW a \in Int, NEW b \in Int
    PROVE  /\ Min({a, b}) = IF a <= b THEN a ELSE b
           /\ Max({a, b}) = IF a >= b THEN a ELSE b
<1> DEFINE lo == IF a <= b THEN a ELSE b
           hi == IF a >= b THEN a ELSE b
           m == Min({a, b})
           k == Max({a, b})
<1>1. lo \in {a, b} /\ \A y \in {a, b} : lo <= y
  OBVIOUS
<1>2. hi \in {a, b} /\ \A y \in {a, b} : hi >= y
  OBVIOUS
<1>3. m \in {a, b} /\ \A y \in {a, b} : m <= y
  <2>1. \E z \in {a, b} : \A y \in {a, b} : z <= y
    BY <1>1
  <2> QED
    BY <2>1, Zenon DEF Min
<1>4. k \in {a, b} /\ \A y \in {a, b} : k >= y
  <2>1. \E z \in {a, b} : \A y \in {a, b} : z >= y
    BY <1>2
  <2> QED
    BY <2>1, Zenon DEF Max
<1> HIDE DEF m, k
<1>5. m = lo
  BY <1>1, <1>3
<1>6. k = hi
  BY <1>2, <1>4
<1> QED
  BY <1>5, <1>6 DEF m, k

\* What a pressure is sent as is a byte.
LEMMA ByteIs ==
    ASSUME NEW v \in Int
    PROVE  /\ PressureByte(v) \in 0..MaxByte
           /\ PressureByte(v) = (IF v < 0 THEN 0 ELSE IF v > 2 * MaxByte THEN MaxByte
                                 ELSE (v + 1) \div 2)
<1>1. MaxByte \in Nat /\ 2 * MaxByte \in Int
  BY WidthAssumption
<1> DEFINE m == Min({2 * MaxByte, v})
           k == Max({0, m})
<1>2. m = (IF 2 * MaxByte <= v THEN 2 * MaxByte ELSE v) /\ m \in Int
  BY <1>1, PairIs
<1>3. k = IF 0 >= m THEN 0 ELSE m
  BY <1>2, PairIs
<1>4. PressureByte(v) = (k + 1) \div 2
  BY DEF PressureByte
<1> HIDE DEF m, k
<1> QED
  BY <1>1, <1>2, <1>3, <1>4

\* Wrap brings a value into the signed word, by whole words.
LEMMA WrapIs ==
    ASSUME NEW v \in Int
    PROVE  Wrap(v) \in SignedWord /\ \E k \in Int : Wrap(v) = v + Word * k
<1> DEFINE h == Word \div 2
           q == (v + h) \div Word
           r == (v + h) % Word
<1>1. h \in Nat /\ Word = 2 * h /\ Word \in Nat /\ Word > 0
  BY WordIs
<1> HIDE DEF h
<1>2. q \in Int /\ r \in 0..(Word - 1) /\ v + h = Word * q + r
  BY <1>1, DivMod
<1>3. Wrap(v) = r - h
  BY DEF Wrap, h
<1> HIDE DEF q, r
<1>4. Wrap(v) \in (-h)..(h - 1)
  BY <1>1, <1>2, <1>3
<1>5. Wrap(v) = v + Word * (-q) /\ -q \in Int
  BY <1>1, <1>2, <1>3
<1> QED
  BY <1>4, <1>5 DEF SignedWord, h

\* A value that fits comes back from its remainder.
LEMMA WrapBack == ASSUME NEW v \in SignedWord PROVE Wrap(v % Word) = v
<1> DEFINE h == Word \div 2
           q == v \div Word
           r == v % Word
<1>1. h \in Nat /\ Word = 2 * h /\ Word \in Nat /\ Word > 0
  BY WordIs
<1>2. v \in (-h)..(h - 1)
  BY DEF SignedWord
<1>3. Wrap(r) = ((r + h) % Word) - h
  BY DEF Wrap
<1> HIDE DEF h
<1>4. q \in Int /\ r \in 0..(Word - 1) /\ v = Word * q + r
  BY <1>1, <1>2, DivMod
<1> HIDE DEF q, r
<1>5. r + h = Word * (-q) + (v + h) /\ v + h \in 0..(Word - 1) /\ -q \in Int /\ r + h \in Int
  BY <1>1, <1>2, <1>4
<1> DEFINE a == r + h
           b == v + h
           c == -q
<1>6. (r + h) % Word = v + h
  <2>1. a = Word * c + b /\ b \in 0..(Word - 1) /\ c \in Int /\ a \in Int
    BY <1>5
  <2> HIDE DEF a, b, c
  <2>2. a % Word = b
    BY <1>1, <2>1, DivModUnique
  <2> QED
    BY <2>2 DEF a, b
<1> QED
  BY <1>1, <1>2, <1>3, <1>6 DEF r

\* The sums up to each difference, added as a word.
Runs(at, f) == at[0] = 0 /\ \A i \in 1..Len(f) : at[i] = (at[i - 1] + f[i]) % Word

\* Running gives them.
LEMMA RunningIs ==
    ASSUME NEW f, IsSeq(f), \A i \in 1..Len(f) : f[i] \in Int
    PROVE  Runs(Running(f), f)
<1> DEFINE n == Len(f)
           step == [p \in Int \X Nat |-> IF p[2] \in 1..n THEN (p[1] + f[p[2]]) % Word ELSE 0]
           Solves(g) == g = [k \in 0..n |-> IF k = 0 THEN 0 ELSE (g[k - 1] + f[k]) % Word]
           at == Running(f)
<1>0. \A x \in Int : \A y \in Int : (x + y) % Word \in Int
  BY WordIs
<1>1. n \in Nat /\ step \in [Int \X Nat -> Int]
  <2>1. n \in Nat
    BY LenIs
  <2>2. ASSUME NEW p \in Int \X Nat
        PROVE  (IF p[2] \in 1..n THEN (p[1] + f[p[2]]) % Word ELSE 0) \in Int
    <3>1. p[1] \in Int
      OBVIOUS
    <3>2. p[2] \in 1..n => f[p[2]] \in Int
      OBVIOUS
    <3> HIDE DEF n
    <3>3. p[2] \in 1..n => (p[1] + f[p[2]]) % Word \in Int
      BY <1>0, <3>1, <3>2
    <3> QED
      BY <3>3
  <2> QED
    BY <2>1, <2>2, Zenon
<1>2. \E g : Solves(g)
  <2>1. PICK g \in [0..n -> Int] : Loops(g, 0, step, n)
    <3>1. 0 \in Int
      OBVIOUS
    <3> HIDE DEF step, n
    <3> QED
      BY <1>1, <3>1, LoopRuns
  <2>2. ASSUME NEW k \in 0..n, k # 0 PROVE step[<<g[k - 1], k>>] = (g[k - 1] + f[k]) % Word
    <3>1. k - 1 \in 0..n /\ k \in Nat /\ k \in 1..n
      BY <1>1, <2>2
    <3>2. g[k - 1] \in Int
      BY <3>1
    <3> QED
      BY <3>1, <3>2
  <2> HIDE DEF step, n
  <2>3. Solves(g)
    BY <2>1, <2>2 DEF Loops
  <2> QED
    BY <2>3
<1>3. at = CHOOSE g : Solves(g)
  BY DEF Running
<1>4. Solves(at)
  <2> HIDE DEF Solves, at
  <2> QED
    BY <1>2, <1>3
<1> HIDE DEF at
<1>5. at[0] = 0
  BY <1>1, <1>4
<1>6. ASSUME NEW k \in 1..n PROVE at[k] = (at[k - 1] + f[k]) % Word
  BY <1>1, <1>4
<1> QED
  BY <1>5, <1>6 DEF Runs, at

\* f holds the differences of xs, but for whole words.
Differs(f, xs, n) ==
    /\ IsSeq(f) /\ Len(f) = n
    /\ \A i \in 1..n : \E k \in Int : f[i] = (xs[i] - Before(xs, i)) + Word * k

\* The sums of the differences are the values again, as words.
LEMMA Telescopes ==
    ASSUME NEW n \in Nat, NEW f, NEW xs, \A i \in 1..n : xs[i] \in Int, Differs(f, xs, n)
    PROVE  \A i \in 1..n : Running(f)[i] = xs[i] % Word
<1> DEFINE at == Running(f)
<1>1. IsSeq(f) /\ Len(f) = n
  BY DEF Differs
<1>2. \A i \in 1..n : Before(xs, i) \in Int
  <2> SUFFICES ASSUME NEW i \in 1..n PROVE Before(xs, i) \in Int
    OBVIOUS
  <2>1. i = 1 \/ i - 1 \in 1..n
    OBVIOUS
  <2> QED
    BY <2>1 DEF Before
<1>3. Word \in Nat /\ Word > 0
  BY WordIs
<1>4. \A i \in 1..n : f[i] \in Int
  <2> SUFFICES ASSUME NEW i \in 1..n PROVE f[i] \in Int
    OBVIOUS
  <2>1. PICK k \in Int : f[i] = (xs[i] - Before(xs, i)) + Word * k
    BY DEF Differs
  <2>2. Word * k \in Int
    BY <1>3
  <2> QED
    BY <1>2, <2>1, <2>2
<1>5. Runs(at, f)
  BY <1>1, <1>4, RunningIs
<1> HIDE DEF at
<1>6. at[0] = 0 /\ \A i \in 1..n : at[i] = (at[i - 1] + f[i]) % Word
  BY <1>1, <1>5 DEF Runs
<1> DEFINE G == {i \in Nat : i \in 1..n => at[i] = xs[i] % Word}
<1>7. ASSUME NEW i \in 1..n, NEW p \in Int, NEW q \in Int, Before(xs, i) = Word * q + p, at[i - 1] = p
      PROVE  at[i] = xs[i] % Word
  <2>1. PICK k \in Int : f[i] = (xs[i] - Before(xs, i)) + Word * k
    BY DEF Differs
  <2> DEFINE x == xs[i]
             c == x \div Word
             r == x % Word
             a == p + f[i]
  <2>2. x \in Int /\ Before(xs, i) \in Int
    BY <1>2
  <2>3. c \in Int /\ r \in 0..(Word - 1) /\ x = Word * c + r
    BY <1>3, <2>2, DivMod
  <2>4. a \in Int
    BY <1>4
  <2>5. a = p + ((x - Before(xs, i)) + Word * k)
    BY <2>1
  <2> HIDE DEF a, x, c, r
  <2>6. a = Word * (c - q + k) + r /\ c - q + k \in Int
    BY <1>3, <1>7, <2>2, <2>3, <2>5
  <2>7. a % Word = r
    BY <1>3, <2>3, <2>4, <2>6, DivModUnique
  <2> QED
    BY <1>6, <1>7, <2>7 DEF a, r, x
<1>8. 0 \in G
  OBVIOUS
<1>9. ASSUME NEW i \in Nat, i \in G PROVE i + 1 \in G
  <2> DEFINE j == i + 1
  <2> SUFFICES ASSUME j \in 1..n PROVE at[j] = xs[j] % Word
    OBVIOUS
  <2>1. CASE i = 0
    <3>1. Before(xs, j) = 0 /\ at[j - 1] = 0 /\ Word * 0 + 0 = 0
      BY <1>3, <1>6, <2>1 DEF Before
    <3> HIDE DEF j
    <3> QED
      BY <1>7, <3>1
  <2>2. CASE i # 0
    <3>1. i \in 1..n /\ j # 1 /\ j - 1 = i
      BY <2>2
    <3>2. Before(xs, j) = xs[i] /\ at[j - 1] = xs[i] % Word
      BY <1>9, <3>1 DEF Before
    <3> DEFINE q == xs[i] \div Word
               p == xs[i] % Word
    <3>3. q \in Int /\ p \in Int /\ xs[i] = Word * q + p
      BY <1>3, <3>1, DivMod
    <3> HIDE DEF j, p, q
    <3>4. at[j - 1] = p
      BY <3>2 DEF p
    <3> QED
      BY <1>7, <3>2, <3>3, <3>4
  <2> QED
    BY <2>1, <2>2
<1> HIDE DEF G
<1>10. \A i \in Nat : i \in G
  BY <1>8, <1>9, Induction
<1> QED
  BY <1>10 DEF G, at

-----------------------------------------------------------------------------
(* Ink: the points *)

\* The points of a stroke.
Points ==
    Seq([x : Int, y : Int, p : Int \cup {Absent}, t : 0..(Word - 1) \cup {Absent}])

\* Every point has a pressure; every point has a time.
HasPressure(points) == points # <<>> /\ \A i \in DOMAIN points : points[i].p # Absent
HasTimes(points) == points # <<>> /\ \A i \in DOMAIN points : points[i].t # Absent

\* A flag byte says so.
FlagsFor(flags, points) ==
    /\ flags \in 0..3
    /\ Has(flags, PressureFlag) <=> HasPressure(points)
    /\ Has(flags, TimeFlag) <=> HasTimes(points)

\* inkFlags writes such a byte.
LEMMA FlagsIs == ASSUME NEW points PROVE FlagsFor(InkFlags(points), points)
<1> DEFINE flags == InkFlags(points)
<1>1. flags = (IF HasPressure(points) THEN 1 ELSE 0) + (IF HasTimes(points) THEN 2 ELSE 0)
  BY DEF InkFlags, HasPressure, HasTimes, PressureFlag, TimeFlag
<1> HIDE DEF flags
<1>2. FlagsFor(flags, points)
  BY <1>1 DEF FlagsFor, Has, PressureFlag, TimeFlag
<1> QED
  BY <1>2 DEF flags

\* What a point is made of.
LEMMA PointIs ==
    ASSUME NEW points \in Points
    PROVE  /\ IsSeq(points) /\ Len(points) \in Nat /\ DOMAIN points = 1..Len(points)
           /\ \A i \in 1..Len(points) :
                 /\ points[i].x \in Int /\ points[i].y \in Int
                 /\ points[i].p \in Int \cup {Absent}
                 /\ points[i].t \in 0..(Word - 1) \cup {Absent}
<1>1. IsSeq(points)
  BY SeqIs DEF Points
<1>2. Len(points) \in Nat /\ DOMAIN points = 1..Len(points)
  BY <1>1, LenIs
<1>3. \A i \in 1..Len(points) : points[i] \in
         [x : Int, y : Int, p : Int \cup {Absent}, t : 0..(Word - 1) \cup {Absent}]
  BY ElementOfSeq DEF Points
<1> QED
  BY <1>1, <1>2, <1>3

\* Where the values of a point are.
LEMMA PlaceIs ==
    ASSUME NEW w \in {2, 3}, NEW n \in Nat
    PROVE  /\ \A i \in 1..n : \A k \in 1..w :
                 /\ w * (i - 1) + k \in 1..(w * n)
                 /\ (((w * (i - 1) + k) - 1) \div w) + 1 = i
                 /\ (((w * (i - 1) + k) - 1) % w) + 1 = k
           /\ \A j \in 1..(w * n) : ((j - 1) \div w) + 1 \in 1..n /\ ((j - 1) % w) + 1 \in 1..w
<1>1. CASE w = 2
  BY <1>1
<1>2. CASE w = 3
  BY <1>2
<1> QED
  BY <1>1, <1>2

\* The latest times: they are words, and never go back.
LEMMA ReachedIs ==
    ASSUME NEW points \in Points, HasTimes(points), NEW i \in 1..Len(points)
    PROVE  /\ Reached(points, i) \in 0..(Word - 1)
           /\ Reached(points, i) >= points[i].t
           /\ i > 1 => Reached(points, i) >= Reached(points, i - 1)
           /\ \E j \in 1..i : Reached(points, i) = points[j].t
<1> DEFINE b == Word - 1
           S == {points[j].t : j \in 1..i}
           T == {points[j].t : j \in 1..(i - 1)}
<1>1. b \in Nat /\ Len(points) \in Nat
  BY WordIs, PointIs
<1>2. \A j \in 1..Len(points) : points[j].t \in 0..b
  BY PointIs DEF HasTimes
<1>3. S \in SUBSET (0..b) /\ S # {} /\ points[i].t \in S
  BY <1>1, <1>2
<1>4. Reached(points, i) = Max(S) /\ Reached(points, i - 1) = Max(T)
  BY DEF Reached
<1>5. T \in SUBSET S
  BY <1>1
<1>6. i > 1 => T # {}
  <2>1. i > 1 => points[1].t \in T
    BY <1>1
  <2> QED
    BY <2>1
<1>7. Max(S) \in S /\ \A y \in S : Max(S) >= y
  <2> HIDE DEF S, b
  <2> QED
    BY <1>1, <1>3, MaxIs
<1>8. i > 1 => Max(T) \in T
  <2>1. T \in SUBSET (0..b)
    BY <1>3, <1>5
  <2> HIDE DEF T, b
  <2> QED
    BY <1>1, <1>6, <2>1, MaxIs
<1>9. \E j \in 1..i : Max(S) = points[j].t
  BY <1>7
<1> HIDE DEF S, T
<1> QED
  BY <1>3, <1>4, <1>5, <1>7, <1>8, <1>9

\* The latest times of a stroke, and its coordinates.
Times(points) == [i \in 1..Len(points) |-> Reached(points, i)]
Xs(points) == [i \in 1..Len(points) |-> Quantized(points[i].x)]
Ys(points) == [i \in 1..Len(points) |-> Quantized(points[i].y)]

\* What comes k-th for point i.
InkPart(points, i, k) ==
    CASE k = 1 -> Difference(Xs(points)[i], Before(Xs(points), i))
      [] k = 2 -> Difference(Ys(points)[i], Before(Ys(points), i))
      [] k = 3 -> PressureByte(points[i].p)

\* The kinds of the values of n points, w to a point.
PlacedKinds(kinds, flags, w, n) ==
    /\ IsSeq(kinds) /\ Len(kinds) = IF Has(flags, TimeFlag) THEN (w + 1) * n ELSE w * n
    /\ \A j \in 1..Len(kinds) :
          kinds[j] = IF j <= w * n THEN PointKinds(flags)[((j - 1) % w) + 1] ELSE "varint"

\* The values themselves.
PlacedValues(values, points, flags, w, n) ==
    /\ IsSeq(values) /\ Len(values) = IF Has(flags, TimeFlag) THEN (w + 1) * n ELSE w * n
    /\ \A j \in 1..Len(values) :
          values[j] = IF j <= w * n
                      THEN InkPart(points, ((j - 1) \div w) + 1, ((j - 1) % w) + 1)
                      ELSE Times(points)[j - w * n] - Before(Times(points), j - w * n)

\* A point takes two values, or three with its pressure.
LEMMA PointKindsIs ==
    ASSUME NEW flags
    PROVE  /\ Len(PointKinds(flags)) = IF Has(flags, PressureFlag) THEN 3 ELSE 2
           /\ PointKinds(flags)[1] = "svarint" /\ PointKinds(flags)[2] = "svarint"
           /\ Has(flags, PressureFlag) => PointKinds(flags)[3] = "cell"
<1> DEFINE a == <<"svarint", "svarint", "cell">>
           b == <<"svarint", "svarint">>
<1>1. Len(a) = 3 /\ a[1] = "svarint" /\ a[2] = "svarint" /\ a[3] = "cell"
  OBVIOUS
<1>2. Len(b) = 2 /\ b[1] = "svarint" /\ b[2] = "svarint"
  OBVIOUS
<1>3. PointKinds(flags) = IF Has(flags, PressureFlag) THEN a ELSE b
  BY DEF PointKinds
<1> HIDE DEF a, b
<1> QED
  BY <1>1, <1>2, <1>3

\* InkKinds places the kinds.
LEMMA InkKindsIs ==
    ASSUME NEW flags, NEW n \in Nat
    PROVE  PlacedKinds(InkKinds(flags, n), flags, Len(PointKinds(flags)), n)
<1> DEFINE w == Len(PointKinds(flags))
           N == IF Has(flags, TimeFlag) THEN (w + 1) * n ELSE w * n
           kinds == InkKinds(flags, n)
<1>1. w = 2 \/ w = 3
  BY PointKindsIs
<1>2. kinds = [j \in 1..N |-> IF j <= w * n THEN PointKinds(flags)[((j - 1) % w) + 1] ELSE "varint"]
  BY DEF InkKinds
<1> HIDE DEF w
<1>3. N \in Nat
  BY <1>1
<1> HIDE DEF N, kinds
<1>4. kinds = [j \in 1..N |-> kinds[j]]
  BY <1>2
<1>5. IsSeq(kinds) /\ Len(kinds) = N
  BY <1>3, <1>4, ListIs
<1>6. \A j \in 1..N : kinds[j] = IF j <= w * n THEN PointKinds(flags)[((j - 1) % w) + 1] ELSE "varint"
  BY <1>2
<1>7. PlacedKinds(kinds, flags, w, n)
  BY <1>5, <1>6 DEF PlacedKinds, N
<1> QED
  BY <1>7 DEF kinds, w

\* InkValues places the values.
LEMMA InkValuesIs ==
    ASSUME NEW points \in Points, NEW flags
    PROVE  PlacedValues(InkValues(points, flags), points, flags, Len(PointKinds(flags)), Len(points))
<1> DEFINE w == Len(PointKinds(flags))
           n == Len(points)
           kinds == InkKinds(flags, n)
           N == IF Has(flags, TimeFlag) THEN (w + 1) * n ELSE w * n
           values == InkValues(points, flags)
           xs == [i \in 1..n |-> Quantized(points[i].x)]
           ys == [i \in 1..n |-> Quantized(points[i].y)]
           ts == [i \in 1..n |-> Reached(points, i)]
           At(i, k) == CASE k = 1 -> Difference(xs[i], Before(xs, i))
                         [] k = 2 -> Difference(ys[i], Before(ys, i))
                         [] k = 3 -> PressureByte(points[i].p)
<1>1. (w = 2 \/ w = 3) /\ n \in Nat
  BY PointKindsIs, PointIs
<1>2. PlacedKinds(kinds, flags, w, n)
  BY <1>1, InkKindsIs
<1> HIDE DEF kinds
<1>3. DOMAIN kinds = 1..N /\ N \in Nat
  <2>1. IsSeq(kinds) /\ Len(kinds) = N
    BY <1>2 DEF PlacedKinds
  <2>2. DOMAIN kinds = 1..Len(kinds) /\ Len(kinds) \in Nat
    BY <2>1, LenIs
  <2> HIDE DEF N
  <2> QED
    BY <2>1, <2>2
<1>4. values = [j \in DOMAIN kinds |->
                  IF j <= w * n THEN At(((j - 1) \div w) + 1, ((j - 1) % w) + 1)
                  ELSE ts[j - w * n] - Before(ts, j - w * n)]
  BY DEF InkValues, kinds
<1>5. ts = Times(points)
  BY DEF Times
<1>6. \A i \in 1..n : \A k : At(i, k) = InkPart(points, i, k)
  BY DEF InkPart, Xs, Ys
<1>7. \A j \in 1..N : j <= w * n => ((j - 1) \div w) + 1 \in 1..n
  <2> SUFFICES ASSUME NEW j \in 1..N, j <= w * n PROVE ((j - 1) \div w) + 1 \in 1..n
    OBVIOUS
  <2> HIDE DEF w, n, N
  <2>1. j \in 1..(w * n)
    BY <1>1, <1>3
  <2> QED
    BY <1>1, <2>1, PlaceIs
<1> HIDE DEF w, n, N, At, ts, values
<1>8. \A j \in 1..N : values[j] = IF j <= w * n
                      THEN InkPart(points, ((j - 1) \div w) + 1, ((j - 1) % w) + 1)
                      ELSE Times(points)[j - w * n] - Before(Times(points), j - w * n)
  BY <1>3, <1>4, <1>5, <1>6, <1>7
<1>9. values = [j \in 1..N |-> values[j]]
  BY <1>3, <1>4
<1>10. IsSeq(values) /\ Len(values) = N
  BY <1>3, <1>9, ListIs
<1>11. PlacedValues(values, points, flags, w, n)
  BY <1>8, <1>10 DEF PlacedValues, N
<1> QED
  BY <1>11 DEF values, w, n

\* The differences of a coordinate fit, and add up to it.
LEMMA CoordinateIs ==
    ASSUME NEW n \in Nat, NEW xs, \A i \in 1..n : xs[i] \in SignedWord,
           NEW f, f = [i \in 1..n |-> Difference(xs[i], Before(xs, i))]
    PROVE  \A i \in 1..n : f[i] \in SignedWord /\ Wrap(Running(f)[i]) = xs[i]
<1>1. \A i \in 1..n : xs[i] \in Int
  BY WordIs DEF SignedWord
<1>2. \A i \in 1..n : f[i] \in SignedWord /\ \E k \in Int : f[i] = (xs[i] - Before(xs, i)) + Word * k
  <2> SUFFICES ASSUME NEW i \in 1..n
               PROVE  f[i] \in SignedWord /\ \E k \in Int : f[i] = (xs[i] - Before(xs, i)) + Word * k
    OBVIOUS
  <2> DEFINE d == xs[i] - Before(xs, i)
  <2>1. i = 1 \/ i - 1 \in 1..n
    OBVIOUS
  <2>2. d \in Int
    BY <1>1, <2>1 DEF Before
  <2>3. f[i] = Wrap(d)
    BY DEF Difference
  <2> HIDE DEF d
  <2>4. Wrap(d) \in SignedWord /\ \E k \in Int : Wrap(d) = d + Word * k
    BY <2>2, WrapIs
  <2> QED
    BY <2>3, <2>4 DEF d
<1>3. f = [i \in 1..n |-> f[i]]
  OBVIOUS
<1>4. IsSeq(f) /\ Len(f) = n
  BY <1>3, ListIs
<1>5. Differs(f, xs, n)
  BY <1>2, <1>4 DEF Differs
<1>6. \A i \in 1..n : Running(f)[i] = xs[i] % Word
  BY <1>1, <1>5, Telescopes
<1>7. \A i \in 1..n : Wrap(xs[i] % Word) = xs[i]
  BY WrapBack
<1> QED
  BY <1>2, <1>6, <1>7

\* So do the differences of the times.
LEMMA TimeIs ==
    ASSUME NEW points \in Points, HasTimes(points),
           NEW f, f = [i \in 1..Len(points) |-> Times(points)[i] - Before(Times(points), i)]
    PROVE  \A i \in 1..Len(points) : f[i] \in 0..(Word - 1) /\ Running(f)[i] = Reached(points, i)
<1> DEFINE n == Len(points)
           ts == Times(points)
<1>1. n \in Nat /\ Word \in Nat /\ Word > 0
  BY PointIs, WordIs
<1>2. \A i \in 1..n : ts[i] = Reached(points, i) /\ ts[i] \in 0..(Word - 1)
  BY ReachedIs DEF Times
<1>3. \A i \in 1..n : f[i] \in 0..(Word - 1) /\ f[i] = (ts[i] - Before(ts, i)) + Word * 0
  <2> SUFFICES ASSUME NEW i \in 1..n
               PROVE  f[i] \in 0..(Word - 1) /\ f[i] = (ts[i] - Before(ts, i)) + Word * 0
    OBVIOUS
  <2>1. f[i] = ts[i] - Before(ts, i)
    OBVIOUS
  <2>2. CASE i = 1
    <3>1. Before(ts, i) = 0
      BY <2>2 DEF Before
    <3> HIDE DEF ts, n
    <3> QED
      BY <1>1, <1>2, <2>1, <3>1
  <2>3. CASE i # 1
    <3>1. i - 1 \in 1..n /\ i > 1
      BY <2>3
    <3>2. Before(ts, i) = ts[i - 1]
      BY <2>3 DEF Before
    <3>3. Reached(points, i) >= Reached(points, i - 1)
      BY <3>1, ReachedIs
    <3>4. ts[i] \in 0..(Word - 1) /\ ts[i - 1] \in 0..(Word - 1) /\ ts[i] >= ts[i - 1]
      BY <1>2, <3>1, <3>3
    <3> HIDE DEF ts, n
    <3> QED
      BY <1>1, <2>1, <3>2, <3>4
  <2> QED
    BY <2>2, <2>3
<1>4. f = [i \in 1..n |-> f[i]]
  OBVIOUS
<1> HIDE DEF n, ts
<1>5. IsSeq(f) /\ Len(f) = n
  BY <1>1, <1>4, ListIs
<1>a. 0 \in Int
  OBVIOUS
<1>b. \A i \in 1..n : \E k \in Int : f[i] = (ts[i] - Before(ts, i)) + Word * k
  BY <1>3, <1>a
<1>6. Differs(f, ts, n)
  BY <1>5, <1>b DEF Differs
<1>7. \A i \in 1..n : Running(f)[i] = ts[i] % Word
  BY <1>1, <1>2, <1>6, Telescopes
<1>8. \A v \in 0..(Word - 1) : v % Word = v
  BY <1>1
<1> QED
  BY <1>2, <1>3, <1>7, <1>8 DEF n

\* The points of a stroke after a trip over the wire.
CanonPoints(points) ==
    [i \in 1..Len(points) |->
        [x |-> Dequantized(Quantized(points[i].x)), y |-> Dequantized(Quantized(points[i].y)),
         p |-> IF HasPressure(points) THEN Pressure(PressureByte(points[i].p)) ELSE Absent,
         t |-> IF HasTimes(points) THEN Reached(points, i) ELSE Absent]]

\* Coordinates that fit an int32.
PointsFit(points) == \A i \in 1..Len(points) : FitsSigned(points[i].x) /\ FitsSigned(points[i].y)

\* The values of a stroke: they fit their kinds, and give its points again.
LEMMA InkParts ==
    ASSUME NEW points \in Points, PointsFit(points)
    PROVE  LET flags == InkFlags(points)
               n == Len(points)
               values == InkValues(points, flags)
           IN Carries(InkKinds(flags, n), values) /\ InkPoints(flags, n, values) = CanonPoints(points)
<1> DEFINE flags == InkFlags(points)
           n == Len(points)
           w == Len(PointKinds(flags))
           kinds == InkKinds(flags, n)
           v == InkValues(points, flags)
           N == Len(kinds)
<1>1. FlagsFor(flags, points)
  BY FlagsIs
<1>2. n \in Nat
  BY PointIs
<1>3. PlacedKinds(kinds, flags, w, n) /\ PlacedValues(v, points, flags, w, n)
  BY <1>2, InkKindsIs, InkValuesIs
<1>4. w = (IF HasPressure(points) THEN 3 ELSE 2) /\ w \in {2, 3}
  BY <1>1, PointKindsIs DEF FlagsFor
<1>5. /\ PointKinds(flags)[1] = "svarint" /\ PointKinds(flags)[2] = "svarint"
      /\ HasPressure(points) => PointKinds(flags)[3] = "cell"
  BY <1>1, PointKindsIs DEF FlagsFor
<1>6. /\ \A i \in 1..n : \A k \in 1..w :
            /\ w * (i - 1) + k \in 1..(w * n)
            /\ (((w * (i - 1) + k) - 1) \div w) + 1 = i
            /\ (((w * (i - 1) + k) - 1) % w) + 1 = k
      /\ \A j \in 1..(w * n) : ((j - 1) \div w) + 1 \in 1..n /\ ((j - 1) % w) + 1 \in 1..w
  <2> HIDE DEF w, n
  <2> QED
    BY <1>2, <1>4, PlaceIs
<1> HIDE DEF flags, w, kinds, v, n
<1>7. IsSeq(kinds) /\ IsSeq(v) /\ Len(v) = N /\ N \in Nat /\ w * n \in Nat
  BY <1>2, <1>3, <1>4, LenIs DEF PlacedKinds, PlacedValues
<1>8. N = (IF HasTimes(points) THEN w * n + n ELSE w * n) /\ w * n <= N
  <2>1. N = IF HasTimes(points) THEN (w + 1) * n ELSE w * n
    BY <1>1, <1>3 DEF PlacedKinds, FlagsFor
  <2>2. (w + 1) * n = w * n + n
    BY <1>2, <1>4
  <2> QED
    BY <1>2, <1>7, <2>1, <2>2
<1>9. /\ \A j \in 1..N : kinds[j] = IF j <= w * n THEN PointKinds(flags)[((j - 1) % w) + 1] ELSE "varint"
      /\ \A j \in 1..N : v[j] = IF j <= w * n
                      THEN InkPart(points, ((j - 1) \div w) + 1, ((j - 1) % w) + 1)
                      ELSE Times(points)[j - w * n] - Before(Times(points), j - w * n)
  BY <1>3, <1>7 DEF PlacedKinds, PlacedValues
<1> HIDE DEF N
<1>10. \A i \in 1..n : \A k \in 1..w : v[w * (i - 1) + k] = InkPart(points, i, k)
  <2> SUFFICES ASSUME NEW i \in 1..n, NEW k \in 1..w
               PROVE  v[w * (i - 1) + k] = InkPart(points, i, k)
    OBVIOUS
  <2> DEFINE j == w * (i - 1) + k
  <2>1. j \in 1..(w * n) /\ ((j - 1) \div w) + 1 = i /\ ((j - 1) % w) + 1 = k
    BY <1>6
  <2> HIDE DEF j
  <2>2. j \in 1..N /\ j <= w * n
    BY <1>7, <1>8, <2>1
  <2>3. v[j] = InkPart(points, ((j - 1) \div w) + 1, ((j - 1) % w) + 1)
    BY <1>9, <2>2
  <2>4. v[j] = InkPart(points, i, k)
    BY <2>1, <2>3
  <2> QED
    BY <2>4 DEF j
<1> DEFINE fx == [i \in 1..n |-> v[w * (i - 1) + 1]]
           fy == [i \in 1..n |-> v[w * (i - 1) + 2]]
           ft == [i \in 1..n |-> v[w * n + i]]
           xs == Xs(points)
           ys == Ys(points)
<1>11. \A i \in 1..n : /\ points[i].x \in Int /\ points[i].y \in Int
                       /\ points[i].p \in Int \cup {Absent}
                       /\ FitsSigned(points[i].x) /\ FitsSigned(points[i].y)
  BY PointIs DEF n, PointsFit
<1>12. \A i \in 1..n : /\ xs[i] \in SignedWord /\ ys[i] \in SignedWord
                       /\ xs[i] = Quantized(points[i].x) /\ ys[i] = Quantized(points[i].y)
  BY <1>11, SignedIs DEF Xs, Ys, n
<1>13. fx = [i \in 1..n |-> Difference(xs[i], Before(xs, i))]
  <2>1. \A i \in 1..n : v[w * (i - 1) + 1] = Difference(xs[i], Before(xs, i))
    BY <1>4, <1>10 DEF InkPart
  <2> HIDE DEF xs
  <2> QED
    BY <2>1
<1>14. fy = [i \in 1..n |-> Difference(ys[i], Before(ys, i))]
  <2>1. \A i \in 1..n : v[w * (i - 1) + 2] = Difference(ys[i], Before(ys, i))
    BY <1>4, <1>10 DEF InkPart
  <2> HIDE DEF ys
  <2> QED
    BY <2>1
<1>15. \A i \in 1..n : fx[i] = InkPart(points, i, 1) /\ fy[i] = InkPart(points, i, 2)
  BY <1>4, <1>10
<1> HIDE DEF fx, fy, xs, ys
<1>16. \A i \in 1..n : fx[i] \in SignedWord /\ Wrap(Running(fx)[i]) = xs[i]
  BY <1>2, <1>12, <1>13, CoordinateIs
<1>17. \A i \in 1..n : fy[i] \in SignedWord /\ Wrap(Running(fy)[i]) = ys[i]
  BY <1>2, <1>12, <1>14, CoordinateIs
<1>18. HasTimes(points) => ft = [i \in 1..n |-> Times(points)[i] - Before(Times(points), i)]
  <2> SUFFICES ASSUME HasTimes(points), NEW i \in 1..n
               PROVE  v[w * n + i] = Times(points)[i] - Before(Times(points), i)
    OBVIOUS
  <2> DEFINE j == w * n + i
  <2>1. j \in 1..N /\ ~(j <= w * n) /\ j - w * n = i
    BY <1>2, <1>7, <1>8
  <2> HIDE DEF j
  <2>2. v[j] = Times(points)[i] - Before(Times(points), i)
    BY <1>9, <2>1
  <2> QED
    BY <2>2 DEF j
<1>19. HasTimes(points) =>
          \A i \in 1..n : ft[i] \in 0..(Word - 1) /\ Running(ft)[i] = Reached(points, i)
  <2> HIDE DEF ft
  <2> QED
    BY <1>18, TimeIs DEF n
<1>20. Carries(kinds, v)
  <2>1. \A i \in 1..n : \A k \in 1..w :
           /\ PointKinds(flags)[k] \in Plain /\ PointKinds(flags)[k] # "string"
           /\ Fit(PointKinds(flags)[k], InkPart(points, i, k))
           /\ PointKinds(flags)[k] = "cell" => InkPart(points, i, k) \in Nat
    <3> SUFFICES ASSUME NEW i \in 1..n, NEW k \in 1..w
                 PROVE  /\ PointKinds(flags)[k] \in Plain /\ PointKinds(flags)[k] # "string"
                        /\ Fit(PointKinds(flags)[k], InkPart(points, i, k))
                        /\ PointKinds(flags)[k] = "cell" => InkPart(points, i, k) \in Nat
      OBVIOUS
    <3>1. CASE k = 1
      BY <1>5, <1>15, <1>16, <3>1 DEF Plain, Fit
    <3>2. CASE k = 2
      BY <1>5, <1>15, <1>17, <3>2 DEF Plain, Fit
    <3>3. CASE k = 3
      <4>1. HasPressure(points) /\ PointKinds(flags)[k] = "cell"
        BY <1>4, <1>5, <3>3
      <4>2. points[i].p \in Int
        BY <1>11, <4>1, PointIs DEF HasPressure, n
      <4>3. InkPart(points, i, k) = PressureByte(points[i].p)
        BY <3>3 DEF InkPart
      <4>4. PressureByte(points[i].p) \in 0..MaxByte
        BY <4>2, ByteIs
      <4> QED
        BY <4>1, <4>3, <4>4 DEF Plain, Fit
    <3> QED
      BY <1>4, <3>1, <3>2, <3>3
  <2>2. ASSUME NEW j \in 1..N
        PROVE  /\ kinds[j] \in Plain /\ kinds[j] # "string" /\ Fit(kinds[j], v[j])
               /\ kinds[j] = "cell" => v[j] \in Nat
    <3>1. CASE j <= w * n
      <4> DEFINE i == ((j - 1) \div w) + 1
                 k == ((j - 1) % w) + 1
      <4>1. j \in 1..(w * n)
        BY <1>7, <2>2, <3>1
      <4>2. i \in 1..n /\ k \in 1..w
        BY <1>6, <4>1
      <4>3. kinds[j] = PointKinds(flags)[k] /\ v[j] = InkPart(points, i, k)
        BY <1>9, <3>1
      <4> HIDE DEF i, k
      <4> QED
        BY <2>1, <4>2, <4>3
    <3>2. CASE ~(j <= w * n)
      <4>1. HasTimes(points) /\ j - w * n \in 1..n
        BY <1>2, <1>7, <1>8, <3>2
      <4>2. v[j] = Times(points)[j - w * n] - Before(Times(points), j - w * n) /\ kinds[j] = "varint"
        BY <1>9, <3>2
      <4>3. v[j] = ft[j - w * n]
        <5>1. w * n + (j - w * n) = j
          BY <1>7
        <5> QED
          BY <4>1, <5>1
      <4> HIDE DEF ft
      <4>4. v[j] \in 0..(Word - 1)
        BY <1>19, <4>1, <4>3
      <4> QED
        BY <4>2, <4>4 DEF Plain, Fit
    <3> QED
      BY <3>1, <3>2
  <2>3. Plain \subseteq Kinds
    BY DEF Plain, Kinds
  <2>4. AllFit(kinds, v)
    BY <1>7, <2>2, <2>3 DEF AllFit, N
  <2> QED
    BY <2>2, <2>4 DEF Carries, N
<1>21. InkPoints(flags, n, v) = CanonPoints(points)
  <2> DEFINE x == Running(fx)
             y == Running(fy)
             t == Running(ft)
  <2>1. InkPoints(flags, n, v) =
          [i \in 1..n |->
            [x |-> Dequantized(Wrap(x[i])), y |-> Dequantized(Wrap(y[i])),
             p |-> IF Has(flags, PressureFlag) THEN Pressure(v[w * i]) ELSE Absent,
             t |-> IF Has(flags, TimeFlag) THEN t[i] ELSE Absent]]
    BY DEF InkPoints, fx, fy, w
  <2>2. \A i \in 1..n : HasPressure(points) => v[w * i] = PressureByte(points[i].p)
    <3> SUFFICES ASSUME NEW i \in 1..n, HasPressure(points) PROVE v[w * i] = PressureByte(points[i].p)
      OBVIOUS
    <3>1. w = 3 /\ 3 \in 1..w /\ w * (i - 1) + 3 = w * i
      BY <1>2, <1>4
    <3>2. v[w * (i - 1) + 3] = InkPart(points, i, 3)
      BY <1>10, <3>1
    <3>3. InkPart(points, i, 3) = PressureByte(points[i].p)
      BY DEF InkPart
    <3> QED
      BY <3>1, <3>2, <3>3
  <2> HIDE DEF x, y, t
  <2>3. \A i \in 1..n : /\ Wrap(x[i]) = Quantized(points[i].x) /\ Wrap(y[i]) = Quantized(points[i].y)
                        /\ HasTimes(points) => t[i] = Reached(points, i)
    BY <1>12, <1>16, <1>17, <1>19 DEF x, y, t
  <2>4. /\ Has(flags, PressureFlag) <=> HasPressure(points)
        /\ Has(flags, TimeFlag) <=> HasTimes(points)
    BY <1>1 DEF FlagsFor
  <2> QED
    BY <2>1, <2>2, <2>3, <2>4 DEF CanonPoints, n
<1> QED
  BY <1>20, <1>21 DEF kinds, v, n, flags

-----------------------------------------------------------------------------
(* Payloads there and back *)

Inks == [id : Names, points : Points]

\* What a stroke looks like after a trip over the wire.
CanonInk(p) == [id |-> p.id, points |-> CanonPoints(p.points)]

\* The head of a stroke, its name and the number of its points, comes back.
LEMMA InkHead ==
    ASSUME NEW id \in Names, NEW n \in 0..(Word - 1), NEW rest, IsSeq(rest)
    PROVE  Carried(<<"string", "varint">>, <<id, n>>, rest)
<1> DEFINE kinds == <<"string", "varint">>
           values == <<id, n>>
<1>1. kinds \in Seq(Plain) /\ Len(kinds) = 2 /\ kinds[1] = "string" /\ kinds[2] = "varint"
  BY DEF Plain
<1>2. values \in Seq({id, n}) /\ Len(values) = 2 /\ values[1] = id /\ values[2] = n
  OBVIOUS
<1> HIDE DEF kinds, values
<1>3. IsNums(id) /\ IsSeq(id) /\ Len(id) < Word
  BY NameIs
<1>4. Fit("string", id) /\ Fit("varint", n)
  BY <1>3 DEF Fit
<1>5. IsSeq(kinds) /\ IsSeq(values)
  BY <1>1, <1>2, SeqIs
<1>6. \A i \in 1..2 : i = 1 \/ i = 2
  OBVIOUS
<1>7. {"string", "varint"} \subseteq Kinds /\ {"string", "varint"} \subseteq Plain
  BY DEF Kinds, Plain
<1>8. AllFit(kinds, values)
  BY <1>1, <1>2, <1>4, <1>5, <1>6, <1>7 DEF AllFit
<1>9. \A i \in 1..2 : /\ kinds[i] \in Plain /\ kinds[i] # "cell"
                      /\ kinds[i] = "string" => IsNums(values[i])
  BY <1>1, <1>2, <1>3, <1>6, <1>7
<1>10. Carries(kinds, values)
  BY <1>1, <1>8, <1>9 DEF Carries
<1> QED
  BY <1>10, PayloadRead DEF kinds, values

\* decodeInk reads what encodeInk wrote, to the quantum and the latest times.
LEMMA InkBack ==
    ASSUME NEW p, p \in Inks, EncodeInk(p).ok, NEW rest, IsSeq(rest)
    PROVE  /\ IsNums(EncodeInk(p).cells)
           /\ DecodeInk(EncodeInk(p).flags, EncodeInk(p).cells \o rest) = Read(CanonInk(p), rest)
<1> DEFINE points == p.points
           flags == InkFlags(points)
           n == Len(points)
           hk == <<"string", "varint">>
           hv == <<p.id, n>>
           A == WriteAll(hk, hv)
           kinds == InkKinds(flags, n)
           values == InkValues(points, flags)
           B == WriteAll(kinds, values)
<1>1. EncodeInk(p).cells = A \o B /\ EncodeInk(p).flags = flags
  BY DEF EncodeInk
<1>2. p.id \in Names /\ points \in Points /\ p.id # <<>> /\ n <= MaxInkPoints
  BY DEF EncodeInk, Inks
<1>3. n \in Nat /\ DOMAIN points = 1..n
  BY <1>2, PointIs
<1>4. PointsFit(points)
  BY <1>3 DEF EncodeInk, PointsFit
<1>5. Carries(kinds, values) /\ InkPoints(flags, n, values) = CanonPoints(points)
  BY <1>2, <1>4, InkParts
<1>6. n \in 0..(Word - 1)
  BY <1>2, <1>3, LimitAssumption, WordIs
<1>7. hv[1] = p.id /\ hv[2] = n
  OBVIOUS
<1> HIDE DEF points, flags, n, kinds, values, hv
<1>8. IsNums(B) /\ ReadAll(kinds, B \o rest) = Read(values, rest)
  BY <1>5, PayloadRead DEF Carried
<1> HIDE DEF B
<1>9. IsSeq(B) /\ IsSeq(B \o rest)
  BY <1>8, JoinedSeq DEF IsNums
<1>10. Carried(hk, hv, B \o rest)
  BY <1>2, <1>6, <1>9, InkHead DEF hv
<1>11. IsNums(A) /\ ReadAll(hk, A \o (B \o rest)) = Read(hv, B \o rest)
  BY <1>10 DEF Carried
<1> HIDE DEF A
<1>12. Regroups(A, B, rest)
  BY <1>9, <1>11, JoinedAssoc DEF IsNums
<1> DEFINE head == Read(hv, B \o rest)
           body == Read(values, rest)
<1>13. DecodeInk(flags, (A \o B) \o rest) = InkAfter(flags, head)
  BY <1>11, <1>12, Zenon DEF Regroups, DecodeInk
<1>14. head.ok /\ head.v = hv /\ head.rest = B \o rest /\ body.ok /\ body.v = values /\ body.rest = rest
  BY DEF Read
<1> HIDE DEF head, body
<1>15. ~(~head.ok \/ head.v[1] = <<>> \/ head.v[2] > MaxInkPoints)
  BY <1>2, <1>6, <1>7, <1>14, LimitAssumption
<1>16. InkAfter(flags, head) = InkOf(flags, head, body)
  BY <1>7, <1>8, <1>14, <1>15, Zenon DEF InkAfter, kinds, body
<1>17. InkOf(flags, head, body) = Read(CanonInk(p), rest)
  BY <1>5, <1>7, <1>14, Zenon DEF InkOf, CanonInk, points
<1>18. IsNums(A \o B)
  BY <1>8, <1>11, NumsJoined
<1> QED
  BY <1>1, <1>13, <1>16, <1>17, <1>18

\* What a payload looks like after a trip over the wire.
Canon(code, p) ==
    CASE code = "ink" -> CanonInk(p)
      [] code = "transform" -> CanonTransform(p)
      [] OTHER -> CanonPointer(p)

\* The cells and flags that a payload may be sent with.
Sent(code, body) == IsNums(body.cells) /\ body.flags \in IF code = "ink" THEN 0..3 ELSE {0}

\* A payload is read as its canonical form, and the rest is left.
Trip(code, p, body, rest) ==
    DecodePayload(code, body.flags, body.cells \o rest) = Read(Canon(code, p), rest)

\* Every payload that has a compact form comes back from it.
LEMMA PayloadBack ==
    ASSUME NEW code \in Codes, NEW p \in Payloads(code), EncodePayload(code, p).ok,
           NEW rest, IsSeq(rest)
    PROVE  Sent(code, EncodePayload(code, p)) /\ Trip(code, p, EncodePayload(code, p), rest)
<1> DEFINE b == EncodePayload(code, p)
<1>1. CASE code = "ink"
  <2>1. p \in Inks /\ b = EncodeInk(p)
    BY <1>1 DEF Payloads, Inks, Points, EncodePayload
  <2>2. IsNums(b.cells) /\ DecodeInk(b.flags, b.cells \o rest) = Read(CanonInk(p), rest)
    BY <2>1, InkBack
  <2>3. b.flags \in 0..3
    BY <2>1, FlagsIs DEF EncodeInk, FlagsFor
  <2> HIDE DEF b
  <2> QED
    BY <1>1, <2>2, <2>3 DEF Sent, Trip, DecodePayload, Canon, b
<1>2. CASE code = "transform"
  <2>1. p \in Transforms /\ b = EncodeTransform(p)
    BY <1>2 DEF Payloads, Transforms, EncodePayload
  <2>2. IsNums(b.cells) /\ DecodeTransform(b.cells \o rest) = Read(CanonTransform(p), rest)
    BY <2>1, TransformBack
  <2>3. b.flags = 0
    BY <2>1 DEF EncodeTransform
  <2> HIDE DEF b
  <2> QED
    BY <1>2, <2>2, <2>3 DEF Sent, Trip, DecodePayload, Canon, b
<1>3. CASE code \notin {"ink", "transform"}
  <2>1. p \in [id : Names, x : Int, y : Int] /\ b = EncodePointer(p)
    BY <1>3 DEF Payloads, EncodePayload
  <2>2. IsNums(b.cells) /\ DecodePointer(b.cells \o rest) = Read(CanonPointer(p), rest)
    BY <2>1, PointerBack
  <2>3. b.flags = 0
    BY <2>1 DEF EncodePointer
  <2> HIDE DEF b
  <2> QED
    BY <1>3, <2>2, <2>3 DEF Sent, Trip, DecodePayload, Canon, b
<1> QED
  BY <1>1, <1>2, <1>3

\* A coordinate settles after one trip.
LEMMA QuantumIs ==
    ASSUME NEW v \in Int
    PROVE  /\ Quantized(v) \in Int /\ Dequantized(Quantized(v)) \in Int
           /\ Quantized(Dequantized(Quantized(v))) = Quantized(v)
           /\ Dequantized(Quantized(v)) - v \in {0, 1}
  BY DEF Quantized, Dequantized

\* So does a pressure.
LEMMA PressureIs ==
    ASSUME NEW b \in 0..MaxByte
    PROVE  Pressure(b) \in 0..(2 * MaxByte) /\ PressureByte(Pressure(b)) = b
<1>1. MaxByte \in Nat /\ MaxByte % 2 = 1
  BY WidthAssumption
<1> DEFINE v == Pressure(b)
<1>2. v \in 0..(2 * MaxByte) /\ (v + 1) \div 2 = b
  BY <1>1 DEF Pressure
<1> HIDE DEF v
<1>3. PressureByte(v) = IF v < 0 THEN 0 ELSE IF v > 2 * MaxByte THEN MaxByte ELSE (v + 1) \div 2
  <2>1. v \in Int
    BY <1>1, <1>2
  <2> QED
    BY <2>1, ByteIs
<1> QED
  BY <1>1, <1>2, <1>3 DEF v

\* The latest of the latest times is the latest time.
LEMMA ReachedTwice ==
    ASSUME NEW points \in Points, NEW c \in Points, HasTimes(points), HasTimes(c),
           Len(c) = Len(points), \A i \in 1..Len(points) : c[i].t = Reached(points, i),
           NEW i \in 1..Len(points)
    PROVE  Reached(c, i) = Reached(points, i)
<1> DEFINE n == Len(points)
           G == {k \in Nat : k \in 1..n => \A j \in 1..k : Reached(points, j) <= Reached(points, k)}
<1>1. n \in Nat
  BY PointIs
<1>2. \A k \in 1..n : /\ Reached(points, k) \in Nat
                      /\ k > 1 => Reached(points, k) >= Reached(points, k - 1)
  BY ReachedIs, WordIs
<1>3. 0 \in G
  OBVIOUS
<1>4. ASSUME NEW k \in Nat, k \in G PROVE k + 1 \in G
  <2> SUFFICES ASSUME k + 1 \in 1..n, NEW j \in 1..(k + 1)
               PROVE  Reached(points, j) <= Reached(points, k + 1)
    OBVIOUS
  <2>1. CASE j = k + 1
    BY <1>2, <2>1
  <2>2. CASE j # k + 1
    <3>1. k \in 1..n /\ j \in 1..k /\ k + 1 > 1 /\ (k + 1) - 1 = k /\ j \in 1..n
      BY <2>2
    <3>2. Reached(points, j) <= Reached(points, k) /\ Reached(points, k + 1) >= Reached(points, k)
      BY <1>2, <1>4, <3>1
    <3> QED
      BY <1>2, <3>1, <3>2
  <2> QED
    BY <2>1, <2>2
<1> HIDE DEF G
<1>5. \A k \in Nat : k \in G
  BY <1>3, <1>4, Induction
<1>6. \A j \in 1..i : Reached(points, j) <= Reached(points, i)
  BY <1>5 DEF G
<1>7. Reached(c, i) >= c[i].t /\ \E j \in 1..i : Reached(c, i) = c[j].t
  BY ReachedIs
<1>8. PICK j \in 1..i : Reached(c, i) = c[j].t
  BY <1>7
<1>9. j \in 1..n /\ i \in 1..n
  BY <1>1
<1> QED
  BY <1>2, <1>6, <1>7, <1>8, <1>9

\* Points after a trip: still points, and settled.
LEMMA PointsSettle ==
    ASSUME NEW points \in Points
    PROVE  CanonPoints(points) \in Points /\ CanonPoints(CanonPoints(points)) = CanonPoints(points)
<1> DEFINE c == CanonPoints(points)
           n == Len(points)
<1>1. /\ n \in Nat /\ DOMAIN points = 1..n /\ IsSeq(points)
      /\ \A i \in 1..n : /\ points[i].x \in Int /\ points[i].y \in Int
                         /\ points[i].p \in Int \cup {Absent}
                         /\ points[i].t \in 0..(Word - 1) \cup {Absent}
  BY PointIs
<1>2. \A i \in 1..n : HasPressure(points) => points[i].p \in Int /\ PressureByte(points[i].p) \in 0..MaxByte
  <2> SUFFICES ASSUME NEW i \in 1..n, HasPressure(points)
               PROVE  points[i].p \in Int /\ PressureByte(points[i].p) \in 0..MaxByte
    OBVIOUS
  <2>1. points[i].p \in Int
    BY <1>1 DEF HasPressure
  <2> QED
    BY <2>1, ByteIs
<1>3. \A i \in 1..n : HasPressure(points) => Pressure(PressureByte(points[i].p)) \in Int
  <2> SUFFICES ASSUME NEW i \in 1..n, HasPressure(points)
               PROVE  Pressure(PressureByte(points[i].p)) \in Int
    OBVIOUS
  <2> DEFINE b == PressureByte(points[i].p)
  <2>1. b \in 0..MaxByte /\ MaxByte \in Nat
    BY <1>2, WidthAssumption
  <2> HIDE DEF b
  <2>2. Pressure(b) \in Int
    BY <2>1 DEF Pressure
  <2> QED
    BY <2>2 DEF b
<1>4. \A i \in 1..n : HasTimes(points) => Reached(points, i) \in 0..(Word - 1)
  BY ReachedIs
<1>5. \A i \in 1..n : Dequantized(Quantized(points[i].x)) \in Int /\ Dequantized(Quantized(points[i].y)) \in Int
  BY <1>1, QuantumIs
<1>6. c \in Points /\ Len(c) = n
  <2>1. c \in [1..n -> [x : Int, y : Int, p : Int \cup {Absent}, t : 0..(Word - 1) \cup {Absent}]]
    BY <1>3, <1>4, <1>5 DEF CanonPoints
  <2> HIDE DEF c, n
  <2>2. c = [i \in 1..n |-> c[i]]
    BY <2>1
  <2>3. Len(c) = n
    BY <1>1, <2>2, ListIs
  <2> QED
    BY <1>1, <2>1, <2>3 DEF Points
<1>7. \A i \in 1..n : /\ c[i].x = Dequantized(Quantized(points[i].x))
                      /\ c[i].y = Dequantized(Quantized(points[i].y))
                      /\ c[i].p = IF HasPressure(points) THEN Pressure(PressureByte(points[i].p)) ELSE Absent
                      /\ c[i].t = IF HasTimes(points) THEN Reached(points, i) ELSE Absent
  BY DEF CanonPoints
<1>8. CanonPoints(c) =
        [i \in 1..Len(c) |->
          [x |-> Dequantized(Quantized(c[i].x)), y |-> Dequantized(Quantized(c[i].y)),
           p |-> IF HasPressure(c) THEN Pressure(PressureByte(c[i].p)) ELSE Absent,
           t |-> IF HasTimes(c) THEN Reached(c, i) ELSE Absent]]
  BY DEF CanonPoints
<1>9. c = [i \in 1..n |-> [x |-> c[i].x, y |-> c[i].y, p |-> c[i].p, t |-> c[i].t]]
  BY DEF CanonPoints
<1> HIDE DEF c
<1>10. DOMAIN c = 1..n /\ (points = <<>> <=> n = 0) /\ (c = <<>> <=> n = 0)
  <2>1. IsSeq(c)
    BY <1>6, PointIs
  <2>2. DOMAIN c = 1..n
    BY <1>6, <2>1, LenIs
  <2> QED
    BY <1>1, <1>6, <2>1, <2>2, EmptySeq DEF IsSeq
<1>11. n # 0 => 1 \in 1..n
  BY <1>1
<1>12. HasPressure(c) <=> HasPressure(points)
  BY <1>1, <1>3, <1>7, <1>10, <1>11, LimitAssumption DEF HasPressure
<1>13. HasTimes(c) <=> HasTimes(points)
  <2>1. Absent \notin 0..(Word - 1)
    BY LimitAssumption
  <2> QED
    BY <1>1, <1>4, <1>7, <1>10, <1>11, <2>1 DEF HasTimes
<1>14. \A i \in 1..n : HasTimes(points) => Reached(c, i) = c[i].t
  <2> SUFFICES ASSUME NEW i \in 1..n, HasTimes(points) PROVE Reached(c, i) = c[i].t
    OBVIOUS
  <2>1. Reached(c, i) = Reached(points, i)
    BY <1>6, <1>7, <1>13, ReachedTwice
  <2> QED
    BY <1>7, <2>1
<1>15. \A i \in 1..n : HasPressure(points) => Pressure(PressureByte(c[i].p)) = c[i].p
  BY <1>2, <1>7, PressureIs
<1>16. \A i \in 1..n : /\ Dequantized(Quantized(c[i].x)) = c[i].x
                       /\ Dequantized(Quantized(c[i].y)) = c[i].y
  BY <1>1, <1>7, QuantumIs
<1>17. CanonPoints(c) = [i \in 1..n |-> [x |-> c[i].x, y |-> c[i].y, p |-> c[i].p, t |-> c[i].t]]
  <2>1. \A i \in 1..n : /\ c[i].p = IF HasPressure(c) THEN Pressure(PressureByte(c[i].p)) ELSE Absent
                        /\ c[i].t = IF HasTimes(c) THEN Reached(c, i) ELSE Absent
    BY <1>7, <1>12, <1>13, <1>14, <1>15
  <2> QED
    BY <1>6, <1>8, <1>16, <2>1
<1>18. CanonPoints(c) = c
  BY <1>9, <1>17
<1> QED
  BY <1>6, <1>18 DEF c

\* A payload after a trip: still a payload of its code, and settled.
LEMMA PayloadSettles ==
    ASSUME NEW code \in Codes, NEW p \in Payloads(code)
    PROVE  Canon(code, p) \in Payloads(code) /\ Canon(code, Canon(code, p)) = Canon(code, p)
<1> DEFINE c == Canon(code, p)
<1>1. CASE code = "ink"
  <2>1. p \in Inks /\ c = CanonInk(p) /\ Canon(code, c) = CanonInk(c) /\ Payloads(code) = Inks
    BY <1>1 DEF Payloads, Inks, Points, Canon
  <2>2. /\ CanonPoints(p.points) \in Points
        /\ CanonPoints(CanonPoints(p.points)) = CanonPoints(p.points)
    BY <2>1, PointsSettle DEF Inks
  <2> HIDE DEF c
  <2>3. c.id = p.id /\ c.points = CanonPoints(p.points) /\ c = [id |-> c.id, points |-> c.points]
    BY <2>1 DEF CanonInk
  <2> QED
    BY <2>1, <2>2, <2>3 DEF CanonInk, Inks, c
<1>2. CASE code = "transform"
  <2>1. p \in Transforms /\ c = CanonTransform(p) /\ Canon(code, c) = CanonTransform(c) /\ Payloads(code) = Transforms
    BY <1>2 DEF Payloads, Transforms, Canon
  <2> HIDE DEF c
  <2>2. \A v \in Int : /\ Dequantized(Quantized(v)) \in Int
                       /\ Dequantized(Quantized(Dequantized(Quantized(v)))) = Dequantized(Quantized(v))
    BY QuantumIs
  <2>3. c \in Transforms /\ CanonTransform(c) = c
    BY <2>1, <2>2 DEF CanonTransform, Transforms
  <2> QED
    BY <2>1, <2>3 DEF c
<1>3. CASE code \notin {"ink", "transform"}
  <2>1. /\ p \in [id : Names, x : Int, y : Int] /\ c = CanonPointer(p) /\ Canon(code, c) = CanonPointer(c)
        /\ Payloads(code) = [id : Names, x : Int, y : Int]
    BY <1>3 DEF Payloads, Canon
  <2> HIDE DEF c
  <2>2. \A v \in Int : /\ Dequantized(Quantized(v)) \in Int
                       /\ Dequantized(Quantized(Dequantized(Quantized(v)))) = Dequantized(Quantized(v))
    BY QuantumIs
  <2>3. c \in [id : Names, x : Int, y : Int] /\ CanonPointer(c) = c
    BY <2>1, <2>2 DEF CanonPointer
  <2> QED
    BY <2>1, <2>3 DEF c
<1> QED
  BY <1>1, <1>2, <1>3

-----------------------------------------------------------------------------
(* No decoder looks further than its payload *)

\* decodePointer.
LEMMA PointerSteady ==
    ASSUME NEW d, IsNums(d), NEW x, IsSeq(x)
    PROVE  Steady(DecodePointer(d), DecodePointer(d \o x), x)
<1> DEFINE kinds == <<"string", "svarint", "svarint">>
           r == ReadAll(kinds, d)
           s == ReadAll(kinds, d \o x)
<1>1. kinds \in Seq(Plain)
  BY DEF Plain
<1> HIDE DEF kinds
<1>2. Steady(r, s, x)
  BY <1>1, AllSteady
<1>3. DecodePointer(d) = PointerOf(r) /\ DecodePointer(d \o x) = PointerOf(s)
  BY DEF DecodePointer, kinds
<1> HIDE DEF r, s
<1> SUFFICES ASSUME PointerOf(r).ok PROVE Steady(PointerOf(r), PointerOf(s), x)
  BY <1>3 DEF Steady
<1>4. r.ok /\ r.v[1] # <<>>
  BY DEF PointerOf, Malformed
<1>5. IsNums(r.rest) /\ s = Read(r.v, r.rest \o x)
  BY <1>2, <1>4 DEF Steady
<1> DEFINE p == [id |-> r.v[1], x |-> Dequantized(r.v[2]), y |-> Dequantized(r.v[3])]
<1>6. s.ok /\ s.v = r.v /\ s.rest = r.rest \o x
  BY <1>5 DEF Read
<1>7. PointerOf(r) = Read(p, r.rest) /\ PointerOf(s) = Read(p, r.rest \o x)
  BY <1>4, <1>6, Zenon DEF PointerOf
<1> HIDE DEF p
<1> QED
  BY <1>5, <1>7, SteadyRead

\* decodeTransform.
LEMMA TransformSteady ==
    ASSUME NEW d, IsNums(d), NEW x, IsSeq(x)
    PROVE  Steady(DecodeTransform(d), DecodeTransform(d \o x), x)
<1> DEFINE r == ReadAll(TransformKinds, d)
           s == ReadAll(TransformKinds, d \o x)
<1>1. TransformKinds \in Seq(Plain)
  BY DEF Plain, TransformKinds
<1>2. Steady(r, s, x)
  BY <1>1, AllSteady
<1>3. DecodeTransform(d) = TransformOf(r) /\ DecodeTransform(d \o x) = TransformOf(s)
  BY DEF DecodeTransform
<1> HIDE DEF r, s
<1> SUFFICES ASSUME TransformOf(r).ok PROVE Steady(TransformOf(r), TransformOf(s), x)
  BY <1>3 DEF Steady
<1>4. r.ok /\ r.v[1] # <<>> /\ r.v[2] # <<>>
  BY DEF TransformOf, Malformed
<1>5. IsNums(r.rest) /\ s = Read(r.v, r.rest \o x)
  BY <1>2, <1>4 DEF Steady
<1> DEFINE p == [id |-> r.v[1], page |-> r.v[2], x |-> Dequantized(r.v[3]), y |-> Dequantized(r.v[4]),
                 width |-> Dequantized(r.v[5]), height |-> Dequantized(r.v[6]),
                 rotation |-> Dequantized(r.v[7])]
<1>6. s.ok /\ s.v = r.v /\ s.rest = r.rest \o x
  BY <1>5 DEF Read
<1>7. TransformOf(r) = Read(p, r.rest) /\ TransformOf(s) = Read(p, r.rest \o x)
  BY <1>4, <1>6, Zenon DEF TransformOf
<1> HIDE DEF p
<1> QED
  BY <1>5, <1>7, SteadyRead

\* The number of points that a head gives is a number.
LEMMA HeadCount ==
    ASSUME NEW d, IsNums(d), ReadAll(<<"string", "varint">>, d).ok
    PROVE  ReadAll(<<"string", "varint">>, d).v[2] \in Nat
<1> DEFINE kinds == <<"string", "varint">>
           one == <<"string">>
<1>1. kinds \in Seq({"string", "varint"}) /\ Len(kinds) = 2 /\ kinds[1] = "string" /\ kinds[2] = "varint"
  OBVIOUS
<1> HIDE DEF kinds
<1>2. IsSeq(kinds)
  BY <1>1, SeqIs
<1>3. PICK f : Reading(f, kinds, d, Len(kinds)) /\ ReadAll(kinds, d) = f[Len(kinds)]
  BY <1>2, ReadAllIs
<1>4. f[0] = Read(<<>>, d) /\ f[1] = Further(f[0], "string") /\ f[2] = Further(f[1], "varint")
  BY <1>1, <1>3 DEF Reading
<1>5. f[2].ok
  BY <1>1, <1>3 DEF kinds
<1> DEFINE a == f[1]
           b == f[2]
           u == ReadVarint(a.rest)
<1>6. a.ok /\ u.ok /\ b = Read(Append(a.v, u.v), u.rest)
  <2>1. ~Malformed.ok
    BY DEF Malformed
  <2>2. ReadOne("varint", a.rest) = u
    BY DEF ReadOne
  <2>3. b.ok /\ b = Further(a, "varint")
    BY <1>4, <1>5
  <2> HIDE DEF a, b, u
  <2>4. a.ok /\ b = With(a, u)
    BY <2>1, <2>2, <2>3 DEF Further
  <2> QED
    BY <2>1, <2>3, <2>4 DEF With
<1> DEFINE z == Read(<<>>, d)
           t == ReadOne("string", d)
<1>7. z.ok /\ z.v = <<>> /\ z.rest = d
  BY DEF Read
<1>8. a = Further(z, "string")
  BY <1>4
<1> HIDE DEF z
<1>9. t.ok /\ a = Read(Append(<<>>, t.v), t.rest)
  BY <1>6, <1>7, <1>8 DEF Further, With, Malformed
<1> HIDE DEF a, b, u, t
<1>10. a.v = Append(<<>>, t.v) /\ a.rest = t.rest
  BY <1>9 DEF Read
<1>11. IsNums(t.rest)
  <2>1. Steady(t, ReadOne("string", d \o <<>>), <<>>)
    BY OneSteady, EmptyIs DEF t, Plain
  <2> QED
    BY <1>9, <2>1 DEF Steady
<1>12. u.v \in Nat
  BY <1>6, <1>10, <1>11, VarintSteady, EmptyIs DEF u
<1>13. Appends(a.v, <<>>, t.v)
  BY <1>10, AppendIs, EmptyIs
<1>14. IsSeq(a.v) /\ Len(a.v) = 1
  BY <1>13, EmptyIs DEF Appends
<1> DEFINE w == Append(a.v, u.v)
<1>15. Appends(w, a.v, u.v)
  BY <1>14, AppendIs
<1> HIDE DEF w
<1>16. w[2] = u.v
  BY <1>14, <1>15 DEF Appends
<1>17. b.v = w
  BY <1>6 DEF Read, w
<1> QED
  BY <1>1, <1>3, <1>12, <1>16, <1>17 DEF b, kinds

\* decodeInk.
LEMMA InkSteady ==
    ASSUME NEW flags, NEW d, IsNums(d), NEW x, IsSeq(x)
    PROVE  Steady(DecodeInk(flags, d), DecodeInk(flags, d \o x), x)
<1> DEFINE hk == <<"string", "varint">>
           r == ReadAll(hk, d)
           s == ReadAll(hk, d \o x)
<1>1. hk \in Seq(Plain)
  BY DEF Plain
<1>2. r.ok => r.v[2] \in Nat
  BY HeadCount
<1> HIDE DEF hk
<1>3. Steady(r, s, x)
  BY <1>1, AllSteady
<1>4. DecodeInk(flags, d) = InkAfter(flags, r) /\ DecodeInk(flags, d \o x) = InkAfter(flags, s)
  BY DEF DecodeInk, hk
<1> HIDE DEF r, s
<1> SUFFICES ASSUME InkAfter(flags, r).ok PROVE Steady(InkAfter(flags, r), InkAfter(flags, s), x)
  BY <1>4 DEF Steady
<1> DEFINE n == r.v[2]
           kinds == InkKinds(flags, n)
           rb == ReadAll(kinds, r.rest)
           sb == ReadAll(kinds, r.rest \o x)
<1>5. r.ok /\ r.v[1] # <<>> /\ ~(n > MaxInkPoints)
  BY DEF InkAfter, Malformed
<1>6. IsNums(r.rest) /\ s = Read(r.v, r.rest \o x)
  BY <1>3, <1>5 DEF Steady
<1>7. s.ok /\ s.v = r.v /\ s.rest = r.rest \o x
  BY <1>6 DEF Read
<1>8. InkAfter(flags, r) = InkOf(flags, r, rb) /\ InkAfter(flags, s) = InkOf(flags, s, sb)
  BY <1>5, <1>7, Zenon DEF InkAfter
<1>9. kinds \in Seq(Plain)
  <2>1. n \in Nat
    BY <1>2, <1>5
  <2> HIDE DEF n
  <2> DEFINE w == Len(PointKinds(flags))
  <2>2. PlacedKinds(kinds, flags, w, n)
    BY <2>1, InkKindsIs
  <2>3. w = (IF Has(flags, PressureFlag) THEN 3 ELSE 2) /\ w \in {2, 3}
    BY PointKindsIs
  <2>4. /\ PointKinds(flags)[1] = "svarint" /\ PointKinds(flags)[2] = "svarint"
        /\ Has(flags, PressureFlag) => PointKinds(flags)[3] = "cell"
    BY PointKindsIs
  <2> HIDE DEF w, kinds
  <2>5. \A k \in 1..w : PointKinds(flags)[k] \in Plain
    <3> SUFFICES ASSUME NEW k \in 1..w PROVE PointKinds(flags)[k] \in Plain
      OBVIOUS
    <3>1. k = 1 \/ k = 2 \/ (k = 3 /\ Has(flags, PressureFlag))
      BY <2>3
    <3> QED
      BY <2>4, <3>1 DEF Plain
  <2>6. \A j \in 1..Len(kinds) : kinds[j] \in Plain
    <3> SUFFICES ASSUME NEW j \in 1..Len(kinds) PROVE kinds[j] \in Plain
      OBVIOUS
    <3>1. ((j - 1) % w) + 1 \in 1..w
      <4>1. CASE w = 2
        BY <4>1
      <4>2. CASE w = 3
        BY <4>2
      <4> QED
        BY <2>3, <4>1, <4>2
    <3>2. kinds[j] = IF j <= w * n THEN PointKinds(flags)[((j - 1) % w) + 1] ELSE "varint"
      BY <2>2 DEF PlacedKinds
    <3>3. "varint" \in Plain
      BY DEF Plain
    <3> DEFINE k == ((j - 1) % w) + 1
    <3> HIDE DEF k
    <3>4. kinds[j] = PointKinds(flags)[k] \/ kinds[j] = "varint"
      BY <3>2 DEF k
    <3>5. k \in 1..w
      BY <3>1 DEF k
    <3> QED
      BY <2>5, <3>3, <3>4, <3>5
  <2>7. IsSeq(kinds) /\ Len(kinds) \in Nat /\ DOMAIN kinds = 1..Len(kinds)
    BY <2>2, LenIs DEF PlacedKinds
  <2> QED
    BY <2>6, <2>7, SeqDef DEF IsSeq
<1> HIDE DEF n, kinds
<1>10. Steady(rb, sb, x)
  BY <1>6, <1>9, AllSteady
<1> HIDE DEF rb, sb
<1>11. rb.ok
  BY <1>8 DEF InkOf, Malformed
<1>12. IsNums(rb.rest) /\ sb = Read(rb.v, rb.rest \o x)
  BY <1>10, <1>11 DEF Steady
<1>13. sb.ok /\ sb.v = rb.v /\ sb.rest = rb.rest \o x
  BY <1>12 DEF Read
<1> DEFINE p == [id |-> r.v[1], points |-> InkPoints(flags, r.v[2], rb.v)]
<1>14. InkOf(flags, r, rb) = Read(p, rb.rest) /\ InkOf(flags, s, sb) = Read(p, rb.rest \o x)
  BY <1>7, <1>11, <1>13, Zenon DEF InkOf
<1> HIDE DEF p
<1> QED
  BY <1>8, <1>12, <1>14, SteadyRead

\* Whatever the code.
LEMMA PayloadSteady ==
    ASSUME NEW code, NEW flags, NEW d, IsNums(d), NEW x, IsSeq(x)
    PROVE  Steady(DecodePayload(code, flags, d), DecodePayload(code, flags, d \o x), x)
<1>1. CASE code = "ink"
  BY <1>1, InkSteady DEF DecodePayload
<1>2. CASE code = "transform"
  BY <1>2, TransformSteady DEF DecodePayload
<1>3. CASE code \notin {"ink", "transform"}
  BY <1>3, PointerSteady DEF DecodePayload
<1> QED
  BY <1>1, <1>2, <1>3

-----------------------------------------------------------------------------
(* Client frames *)

\* A frame is its header and what follows.
Fronted(f, code, flags, seq, body) ==
    /\ IsSeq(f) /\ Len(f) = HeaderSize + Len(body)
    /\ f[1] = Magic /\ f[2] = Version /\ f[3] = code /\ f[4] = flags /\ f[5] = seq
    /\ From(f, HeaderSize + 1) = body
    /\ \A i \in 1..Len(body) : f[HeaderSize + i] = body[i]

\* The header before a sequence.
LEMMA HeaderIs ==
    ASSUME NEW code, NEW flags, NEW seq, NEW body, IsSeq(body)
    PROVE  Fronted(Header(code, flags, seq) \o body, code, flags, seq, body)
<1> DEFINE h == Header(code, flags, seq)
           f == h \o body
<1>1. /\ h \in Seq({Magic, Version, code, flags, seq}) /\ Len(h) = 5
      /\ h[1] = Magic /\ h[2] = Version /\ h[3] = code /\ h[4] = flags /\ h[5] = seq
  BY DEF Header
<1> HIDE DEF h
<1>2. IsSeq(h)
  BY <1>1, SeqIs
<1>3. IsSeq(f) /\ Joins(f, h, body)
  BY <1>2, JoinedSeq, Zenon
<1>4. From(f, Len(h) + 1) = body
  BY <1>2, JoinedFrom
<1> HIDE DEF f
<1>5. /\ Len(f) = 5 + Len(body) /\ \A i \in 1..5 : f[i] = h[i]
      /\ \A i \in 1..Len(body) : f[5 + i] = body[i]
  BY <1>1, <1>3 DEF Joins
<1>6. /\ f[1] = Magic /\ f[2] = Version /\ f[3] = code /\ f[4] = flags /\ f[5] = seq
  BY <1>1, <1>5
<1>7. Fronted(f, code, flags, seq, body)
  BY <1>1, <1>3, <1>4, <1>5, <1>6 DEF Fronted, HeaderSize
<1> QED
  BY <1>7 DEF f, h

\* What a client may send in compact form.
Sendable(e) == e.code \in Codes /\ e.payload \in Payloads(e.code)

\* Its frame is a header and a payload, which comes back.
Wired(e, f, body) ==
    /\ Sent(e.code, body) /\ Fronted(f, e.code, body.flags, EnvelopeSeq(e.seq), body.cells)
    /\ \A rest : IsSeq(rest) => Trip(e.code, e.payload, body, rest)

\* EncodeClientFrame writes such a frame.
LEMMA ClientFrameIs ==
    ASSUME NEW e, Sendable(e), EncodeClientFrame(e).ok
    PROVE  Wired(e, EncodeClientFrame(e).cells, EncodePayload(e.code, e.payload))
<1> DEFINE body == EncodePayload(e.code, e.payload)
           f == EncodeClientFrame(e)
<1>1. f = ClientFrameOf(e, body)
  BY DEF EncodeClientFrame
<1>2. Encodable(e, body)
  BY <1>1 DEF ClientFrameOf, Malformed
<1>3. body.ok
  BY <1>2 DEF Encodable
<1>4. e.code \in Codes /\ e.payload \in Payloads(e.code)
  BY DEF Sendable
<1>5. \A rest : IsSeq(rest) => Trip(e.code, e.payload, body, rest)
  BY <1>3, <1>4, PayloadBack
<1>6. Sent(e.code, body)
  BY <1>3, <1>4, EmptyIs, PayloadBack
<1> HIDE DEF body
<1>7. f.cells = Header(e.code, body.flags, EnvelopeSeq(e.seq)) \o body.cells
  <2> DEFINE X == Header(e.code, body.flags, EnvelopeSeq(e.seq)) \o body.cells
  <2>1. f = [ok |-> TRUE, cells |-> X]
    BY <1>1, <1>2, Zenon DEF ClientFrameOf
  <2> HIDE DEF X, f
  <2>2. f.cells = X
    BY <2>1
  <2> QED
    BY <2>2 DEF X
<1>8. Fronted(f.cells, e.code, body.flags, EnvelopeSeq(e.seq), body.cells)
  BY <1>6, <1>7, HeaderIs DEF Sent, IsNums
<1> QED
  BY <1>5, <1>6, <1>8 DEF Wired, body

\* What the server makes of a client's frame.
Arrives(e) ==
    [ok |-> TRUE, code |-> e.code,
     seq |-> IF EnvelopeSeq(e.seq) = 0 THEN Absent ELSE EnvelopeSeq(e.seq),
     payload |-> Canon(e.code, e.payload)]

\* DecodeClientFrame reads every frame that EncodeClientFrame writes.
THEOREM ClientFrameRead ==
    ASSUME NEW e, Sendable(e), EncodeClientFrame(e).ok
    PROVE  /\ IsBinaryFrame(EncodeClientFrame(e).cells)
           /\ DecodeClientFrame(EncodeClientFrame(e).cells) = Arrives(e)
<1> DEFINE f == EncodeClientFrame(e).cells
           body == EncodePayload(e.code, e.payload)
<1>1. Wired(e, f, body)
  BY ClientFrameIs
<1>2. e.code \in Codes
  BY DEF Sendable
<1> HIDE DEF f, body
<1>3. /\ Sent(e.code, body) /\ Trip(e.code, e.payload, body, <<>>)
      /\ Fronted(f, e.code, body.flags, EnvelopeSeq(e.seq), body.cells)
  BY <1>1, EmptyIs DEF Wired
<1>4. IsSeq(body.cells) /\ Len(body.cells) \in Nat
  BY <1>3, LenIs DEF Sent, IsNums
<1>5. IsBinaryFrame(f) /\ ReadableHeader(f)
  BY <1>3, <1>4 DEF Fronted, HeaderSize, IsBinaryFrame, ReadableHeader
<1> DEFINE r == Read(Canon(e.code, e.payload), <<>>)
<1>6. DecodePayload(e.code, body.flags, body.cells) = r
  BY <1>3, <1>4, JoinedEmpty DEF Trip
<1>7. DecodeClientFrame(f) = EnvelopeOf(f, r)
  BY <1>3, <1>6, Zenon DEF DecodeClientFrame, Fronted
<1>8. r.ok /\ r.v = Canon(e.code, e.payload) /\ r.rest = <<>>
  BY DEF Read
<1> HIDE DEF r
<1>9. body.flags \in (IF e.code = "ink" THEN 0..(PressureFlag + TimeFlag) ELSE {0})
  BY <1>3 DEF Sent, PressureFlag, TimeFlag
<1>10. f[3] = e.code /\ f[4] = body.flags /\ f[5] = EnvelopeSeq(e.seq)
  BY <1>3 DEF Fronted
<1>11. Consumed(r)
  BY <1>8 DEF Consumed
<1>12. EnvelopeOf(f, r) = Arrives(e)
  BY <1>2, <1>5, <1>8, <1>9, <1>10, <1>11 DEF EnvelopeOf, Arrives
<1> QED
  BY <1>5, <1>7, <1>12 DEF f

\* A compact frame tells its own end: the decoder takes no proper part of a
\* frame for one, nor a frame with anything behind it.
THEOREM FrameEnds ==
    ASSUME NEW e, Sendable(e), EncodeClientFrame(e).ok
    PROVE  LET f == EncodeClientFrame(e).cells IN
           /\ \A n \in 0..(Len(f) - 1) : ~DecodeClientFrame(SubSeq(f, 1, n)).ok
           /\ \A x : IsSeq(x) /\ x # <<>> => ~DecodeClientFrame(f \o x).ok
<1> DEFINE f == EncodeClientFrame(e).cells
           body == EncodePayload(e.code, e.payload)
           B == body.cells
<1>1. Wired(e, f, body)
  BY ClientFrameIs
<1> HIDE DEF f, body
<1>2. /\ IsNums(B) /\ IsSeq(B) /\ Len(B) \in Nat
      /\ Fronted(f, e.code, body.flags, EnvelopeSeq(e.seq), B)
      /\ \A rest : IsSeq(rest) => Trip(e.code, e.payload, body, rest)
  BY <1>1, LenIs DEF Wired, Sent, IsNums
<1>3. IsSeq(f) /\ Len(f) = 5 + Len(B) /\ f[3] = e.code /\ f[4] = body.flags
      /\ \A i \in 1..Len(B) : f[5 + i] = B[i]
  BY <1>2 DEF Fronted, HeaderSize
<1>4. \A rest : IsSeq(rest) => DecodePayload(e.code, body.flags, B \o rest) = Read(Canon(e.code, e.payload), rest)
  BY <1>2 DEF Trip
<1> HIDE DEF B
<1>5. ASSUME NEW n \in 0..(Len(f) - 1) PROVE ~DecodeClientFrame(SubSeq(f, 1, n)).ok
  <2> DEFINE q == SubSeq(f, 1, n)
             d == From(q, 6)
             m == n - 5
             x == From(B, m + 1)
  <2> SUFFICES ASSUME DecodeClientFrame(q).ok PROVE FALSE
    OBVIOUS
  <2>1. Part(q, f, 1, n)
    <3>1. 1 \in 1..(Len(f) + 1) /\ n \in (1 - 1)..Len(f)
      BY <1>2, <1>3
    <3> QED
      BY <1>3, <3>1, PartIs
  <2> HIDE DEF q
  <2>2. IsSeq(q) /\ Len(q) = n /\ \A i \in 1..n : q[i] = f[i]
    <3>1. IsSeq(q) /\ Len(q) = n - 1 + 1 /\ \A i \in 1..(n - 1 + 1) : q[i] = f[1 + i - 1]
      BY <2>1 DEF Part
    <3> QED
      BY <1>2, <1>3, <3>1
  <2> DEFINE r == DecodePayload(q[3], q[4], d)
  <2>3. ReadableHeader(q) /\ r.ok /\ r.rest = <<>>
    <3>1. DecodeClientFrame(q) = EnvelopeOf(q, r)
      BY DEF DecodeClientFrame, HeaderSize
    <3> HIDE DEF r
    <3> QED
      BY <3>1 DEF EnvelopeOf, Malformed, Consumed
  <2>4. n >= 5 /\ m \in 0..(Len(B) - 1) /\ m \in 0..Len(B) /\ n = m + 5
    BY <1>2, <1>3, <2>2, <2>3 DEF ReadableHeader, IsBinaryFrame, HeaderSize
  <2>5. q[3] = e.code /\ q[4] = body.flags
    <3>1. 3 \in 1..n /\ 4 \in 1..n
      BY <2>4
    <3> QED
      BY <1>3, <2>2, <3>1
  <2>6. d = SubSeq(B, 1, m)
    <3>1. Part(d, q, 6, n)
      <4>1. 6 \in 1..(Len(q) + 1) /\ n \in (6 - 1)..Len(q)
        BY <1>2, <1>3, <2>2, <2>4
      <4> QED
        BY <2>2, <4>1, PartIs DEF From
    <3> HIDE DEF d
    <3>2. IsSeq(d) /\ Len(d) = m /\ \A i \in 1..m : d[i] = B[i]
      <4>1. IsSeq(d) /\ Len(d) = n - 6 + 1 /\ \A i \in 1..(n - 6 + 1) : d[i] = q[6 + i - 1]
        BY <3>1 DEF Part
      <4>2. n - 6 + 1 = m
        BY <1>2, <1>3, <2>4
      <4>3. ASSUME NEW i \in 1..m PROVE d[i] = B[i]
        <5>1. 6 + i - 1 = 5 + i /\ 5 + i \in 1..n /\ i \in 1..Len(B)
          BY <1>2, <1>3, <2>4
        <5>2. d[i] = q[5 + i]
          BY <4>1, <4>2, <4>3, <5>1
        <5>3. q[5 + i] = f[5 + i] /\ f[5 + i] = B[i]
          BY <1>3, <2>2, <5>1
        <5> QED
          BY <5>2, <5>3
      <4> QED
        BY <4>1, <4>2, <4>3
    <3> DEFINE b == SubSeq(B, 1, m)
    <3>3. Part(b, B, 1, m)
      <4>1. 1 \in 1..(Len(B) + 1) /\ m \in (1 - 1)..Len(B)
        BY <1>2, <2>4
      <4> HIDE DEF m
      <4> QED
        BY <1>2, <4>1, PartIs
    <3> HIDE DEF b
    <3>4. IsSeq(b) /\ Len(b) = m /\ \A i \in 1..m : b[i] = B[i]
      <4>1. IsSeq(b) /\ Len(b) = m - 1 + 1 /\ \A i \in 1..(m - 1 + 1) : b[i] = B[1 + i - 1]
        BY <3>3 DEF Part
      <4>2. m - 1 + 1 = m /\ \A i \in 1..m : 1 + i - 1 = i
        BY <1>2, <2>4
      <4> HIDE DEF m
      <4> QED
        BY <4>1, <4>2
    <3> HIDE DEF m
    <3>5. d = b
      <4>1. Len(d) = Len(b) /\ \A i \in 1..Len(d) : d[i] = b[i]
        BY <3>2, <3>4
      <4> QED
        BY <3>2, <3>4, <4>1, SameSeq
    <3> QED
      BY <3>5 DEF b
  <2> HIDE DEF d, m
  <2>7. IsNums(d) /\ IsSeq(x) /\ Len(x) = Len(B) - m /\ d \o x = B
    <3>1. SplitAt(B, m)
      BY <1>2, <2>4, Splits
    <3>2. IsNums(SubSeq(B, 1, m))
      BY <1>2, <2>4, NumsParts
    <3> QED
      BY <2>6, <3>1, <3>2 DEF SplitAt
  <2> HIDE DEF x
  <2>8. r = DecodePayload(e.code, body.flags, d)
    BY <2>5
  <2>9. Steady(r, DecodePayload(e.code, body.flags, d \o x), x)
    <3> HIDE DEF r
    <3> QED
      BY <2>7, <2>8, PayloadSteady
  <2> HIDE DEF r
  <2>10. DecodePayload(e.code, body.flags, B) = Read(r.v, x)
    <3>1. DecodePayload(e.code, body.flags, B) = Read(r.v, <<>> \o x)
      BY <2>3, <2>7, <2>9 DEF Steady
    <3>2. <<>> \o x = x
      BY <2>7, JoinedEmpty
    <3> QED
      BY <3>1, <3>2
  <2>11. DecodePayload(e.code, body.flags, B) = Read(Canon(e.code, e.payload), <<>>)
    BY <1>2, <1>4, EmptyIs, JoinedEmpty
  <2>12. x = <<>>
    BY <2>10, <2>11 DEF Read
  <2> QED
    BY <1>2, <2>4, <2>7, <2>12, EmptyIs
<1>6. ASSUME NEW x, IsSeq(x), x # <<>> PROVE ~DecodeClientFrame(f \o x).ok
  <2> DEFINE g == f \o x
             d == From(g, 6)
             r == Read(Canon(e.code, e.payload), x)
  <2>0. Len(x) \in Nat
    BY <1>6, LenIs
  <2>1. IsSeq(g) /\ Joins(g, f, x)
    BY <1>3, <1>6, JoinedSeq, Zenon
  <2> HIDE DEF g
  <2>2. /\ IsSeq(g) /\ Len(g) = Len(f) + Len(x)
        /\ \A i \in 1..Len(f) : g[i] = f[i]
        /\ \A i \in 1..Len(x) : g[Len(f) + i] = x[i]
    BY <2>1 DEF Joins
  <2>3. d = B \o x
    <3> DEFINE b == B \o x
    <3>1. IsSeq(b) /\ Joins(b, B, x)
      BY <1>2, <1>6, JoinedSeq, Zenon
    <3> HIDE DEF b
    <3>2. /\ Len(b) = Len(B) + Len(x) /\ \A i \in 1..Len(B) : b[i] = B[i]
          /\ \A i \in 1..Len(x) : b[Len(B) + i] = x[i]
      BY <3>1 DEF Joins
    <3>3. Part(d, g, 6, Len(g))
      <4>1. 6 \in 1..(Len(g) + 1) /\ Len(g) \in (6 - 1)..Len(g)
        BY <1>2, <1>3, <2>0, <2>2
      <4> QED
        BY <2>2, <4>1, PartIs DEF From
    <3> HIDE DEF d
    <3>4. IsSeq(d) /\ Len(d) = Len(g) - 6 + 1 /\ \A i \in 1..(Len(g) - 6 + 1) : d[i] = g[6 + i - 1]
      BY <3>3 DEF Part
    <3>5. Len(g) - 6 + 1 = Len(B) + Len(x)
      BY <1>2, <1>3, <2>0, <2>2
    <3>6. ASSUME NEW i \in 1..(Len(B) + Len(x)) PROVE d[i] = b[i]
      <4>1. 6 + i - 1 = 5 + i
        BY <1>2, <2>0
      <4>2. d[i] = g[5 + i]
        BY <3>4, <3>5, <3>6, <4>1
      <4>3. CASE i \in 1..Len(B)
        <5>1. 5 + i \in 1..Len(f)
          BY <1>2, <1>3, <4>3
        <5> QED
          BY <1>3, <2>2, <3>2, <4>2, <4>3, <5>1
      <4>4. CASE i > Len(B)
        <5> DEFINE j == i - Len(B)
        <5>1. j \in 1..Len(x) /\ 5 + i = Len(f) + j /\ i = Len(B) + j
          BY <1>2, <1>3, <2>0, <4>4
        <5> HIDE DEF j
        <5> QED
          BY <2>2, <3>2, <4>2, <5>1
      <4>5. i \in 1..Len(B) \/ i > Len(B)
        BY <1>2, <2>0
      <4> QED
        BY <4>3, <4>4, <4>5
    <3>7. Len(d) = Len(b) /\ \A i \in 1..Len(d) : d[i] = b[i]
      BY <3>2, <3>4, <3>5, <3>6
    <3>8. d = b
      BY <3>1, <3>4, <3>7, SameSeq
    <3> QED
      BY <3>8 DEF b
  <2> HIDE DEF d
  <2>4. g[3] = e.code /\ g[4] = body.flags
    <3>1. 3 \in 1..Len(f) /\ 4 \in 1..Len(f)
      BY <1>2, <1>3
    <3> QED
      BY <1>3, <2>2, <3>1
  <2>5. DecodePayload(g[3], g[4], d) = r
    BY <1>4, <1>6, <2>3, <2>4
  <2>6. DecodeClientFrame(g) = EnvelopeOf(g, r)
    <3>1. DecodeClientFrame(g) = EnvelopeOf(g, DecodePayload(g[3], g[4], From(g, HeaderSize + 1)))
      BY DEF DecodeClientFrame
    <3>2. HeaderSize + 1 = 6
      BY DEF HeaderSize
    <3> QED
      BY <2>5, <3>1, <3>2, Zenon DEF d
  <2>7. r.rest = x
    BY DEF Read
  <2> HIDE DEF r
  <2>8. ~Consumed(r)
    BY <1>6, <2>7 DEF Consumed
  <2>9. ~DecodeClientFrame(g).ok
    BY <2>6, <2>8 DEF EnvelopeOf, Malformed
  <2> QED
    BY <2>9 DEF g
<1> QED
  BY <1>5, <1>6 DEF f

-----------------------------------------------------------------------------
(* Relayed frames *)

\* The middle of three sequences.
LEMMA Between ==
    ASSUME NEW a, NEW b, NEW c, IsSeq(a), IsSeq(b), IsSeq(c)
    PROVE  SubSeq((a \o b) \o c, Len(a) + 1, Len(a) + Len(b)) = b
<1> DEFINE ab == a \o b
           f == ab \o c
           q == SubSeq(f, Len(a) + 1, Len(a) + Len(b))
<1>1. Len(a) \in Nat /\ Len(b) \in Nat /\ Len(c) \in Nat
  BY LenIs
<1>2. IsSeq(ab) /\ Joins(ab, a, b)
  BY JoinedSeq, Zenon
<1> HIDE DEF ab
<1>3. IsSeq(f) /\ Joins(f, ab, c)
  BY <1>2, JoinedSeq, Zenon
<1> HIDE DEF f
<1>4. Len(ab) = Len(a) + Len(b) /\ Len(f) = Len(a) + Len(b) + Len(c)
  BY <1>1, <1>2, <1>3 DEF Joins
<1>5. \A i \in 1..Len(b) : f[Len(a) + i] = b[i]
  <2> SUFFICES ASSUME NEW i \in 1..Len(b) PROVE f[Len(a) + i] = b[i]
    OBVIOUS
  <2>1. Len(a) + i \in 1..Len(ab)
    BY <1>1, <1>4
  <2> QED
    BY <1>2, <1>3, <2>1 DEF Joins
<1>6. Part(q, f, Len(a) + 1, Len(a) + Len(b))
  <2>1. Len(a) + 1 \in 1..(Len(f) + 1) /\ Len(a) + Len(b) \in ((Len(a) + 1) - 1)..Len(f)
    BY <1>1, <1>4
  <2> QED
    BY <1>3, <2>1, PartIs
<1> HIDE DEF q
<1>7. /\ IsSeq(q) /\ Len(q) = (Len(a) + Len(b)) - (Len(a) + 1) + 1
      /\ \A i \in 1..((Len(a) + Len(b)) - (Len(a) + 1) + 1) : q[i] = f[(Len(a) + 1) + i - 1]
  BY <1>6 DEF Part
<1>8. (Len(a) + Len(b)) - (Len(a) + 1) + 1 = Len(b) /\ \A i \in 1..Len(b) : (Len(a) + 1) + i - 1 = Len(a) + i
  BY <1>1
<1>9. Len(q) = Len(b) /\ \A i \in 1..Len(q) : q[i] = b[i]
  BY <1>5, <1>7, <1>8
<1>10. q = b
  BY <1>7, <1>9, SameSeq
<1> QED
  BY <1>10 DEF q, f, ab

\* What the server may relay: a sendable preview with its stamp.
Stampable(e) ==
    /\ Sendable(e)
    /\ e.messageId \in Names /\ e.sessionId \in Names /\ e.channel \in Names
    /\ e.actorId \in Names \cup {Absent} /\ e.origin \in Names \cup {Absent}
    /\ e.sentAt \in Nat

\* The values of the stamp.
StampValues(e) == <<e.messageId, e.sessionId, e.channel, e.actorId, e.origin, e.sentAt>>

\* The trailer is read back.
Trails(e, trailer) ==
    /\ IsSeq(trailer) /\ ReadAll(MetadataKinds, trailer) = Read(StampValues(e), <<>>)

\* Metadata writes such a trailer.
LEMMA TrailerIs == ASSUME NEW e, Stampable(e) PROVE Trails(e, Metadata(e))
<1> DEFINE kinds == MetadataKinds
           values == StampValues(e)
<1>1. /\ e.messageId \in Names /\ e.sessionId \in Names /\ e.channel \in Names
      /\ e.actorId \in Names \cup {Absent} /\ e.origin \in Names \cup {Absent}
      /\ e.sentAt \in Nat
  BY DEF Stampable
<1>2. Max({e.sentAt, 0}) = e.sentAt
  <2>1. e.sentAt \in Int /\ 0 \in Int /\ e.sentAt >= 0
    BY <1>1
  <2> QED
    BY <2>1, PairIs
<1>3. Metadata(e) = WriteAll(kinds, values)
  BY <1>2 DEF Metadata, StampValues
<1>4. /\ kinds \in Seq(Kinds) /\ Len(kinds) = 6
      /\ kinds[1] = "string" /\ kinds[2] = "string" /\ kinds[3] = "string"
      /\ kinds[4] = "optional" /\ kinds[5] = "optional" /\ kinds[6] = "cell"
  BY DEF MetadataKinds, Kinds
<1>5. /\ values \in Seq({e.messageId, e.sessionId, e.channel, e.actorId, e.origin, e.sentAt})
      /\ Len(values) = 6
      /\ values[1] = e.messageId /\ values[2] = e.sessionId /\ values[3] = e.channel
      /\ values[4] = e.actorId /\ values[5] = e.origin /\ values[6] = e.sentAt
  BY DEF StampValues
<1> HIDE DEF kinds, values
<1>6. IsSeq(kinds) /\ IsSeq(values)
  BY <1>4, <1>5, SeqIs
<1>7. \A s \in Names : Fit("string", s) /\ Fit("optional", s)
  BY NameIs DEF Fit
<1>8. Fit("optional", Absent) /\ Fit("cell", e.sentAt)
  BY DEF Fit
<1>9. \A i \in 1..6 : i = 1 \/ i = 2 \/ i = 3 \/ i = 4 \/ i = 5 \/ i = 6
  OBVIOUS
<1>10. \A i \in 1..6 : Fit(kinds[i], values[i])
  BY <1>1, <1>4, <1>5, <1>7, <1>8, <1>9
<1>11. \A i \in 1..6 : kinds[i] \in Kinds
  BY <1>4, ElementOfSeq
<1>12. AllFit(kinds, values)
  BY <1>4, <1>5, <1>6, <1>10, <1>11 DEF AllFit
<1>13. AllBack(kinds, values, <<>>)
  BY <1>12, AllRead, EmptyIs
<1>14. IsSeq(WriteAll(kinds, values)) /\ ReadAll(kinds, WriteAll(kinds, values) \o <<>>) = Read(values, <<>>)
  BY <1>13 DEF AllBack
<1>15. WriteAll(kinds, values) \o <<>> = WriteAll(kinds, values)
  BY <1>14, JoinedEmpty
<1> QED
  BY <1>3, <1>14, <1>15 DEF Trails, kinds, values

\* A relayed frame as the recipient finds its parts: the stamp from the end,
\* the payload between the header and the stamp.
Relays(f, e, body) ==
    LET m == RelayMetadata(f) IN
    /\ IsSeq(f) /\ f # <<>> /\ IsBinaryFrame(f)
    /\ f[3] = e.code /\ f[4] - RelayFlag = body.flags
    /\ m.ok /\ m.seq = EnvelopeSeq(e.seq) /\ m.actorId = e.actorId /\ m.origin = e.origin
    /\ m.sentAt = e.sentAt
    /\ SubSeq(f, HeaderSize + 1, m.start - 1) = body.cells
    /\ Trip(e.code, e.payload, body, <<>>) /\ IsSeq(body.cells)

\* DecodeRelayMetadata finds the stamp of every frame that EncodeRelayFrame writes.
THEOREM RelayFrameRead ==
    ASSUME NEW e, Stampable(e), EncodeRelayFrame(e).ok
    PROVE  Relays(EncodeRelayFrame(e).cells, e, EncodePayload(e.code, e.payload))
<1> DEFINE body == EncodePayload(e.code, e.payload)
           T == Metadata(e)
           h == EncodeRelayFrame(e)
<1>1. h = RelayFrameOf(e, body, T)
  BY DEF EncodeRelayFrame
<1>2. Encodable(e, body)
  BY <1>1 DEF RelayFrameOf, Malformed
<1>3. body.ok /\ e.code \in Codes /\ e.payload \in Payloads(e.code)
  BY <1>2 DEF Encodable, Stampable, Sendable
<1>4. Sent(e.code, body) /\ Trip(e.code, e.payload, body, <<>>)
  BY <1>3, EmptyIs, PayloadBack
<1>5. Trails(e, T)
  BY TrailerIs
<1> HIDE DEF body, T
<1> DEFINE B == body.cells
           H == Header(e.code, body.flags + RelayFlag, EnvelopeSeq(e.seq))
           L == <<Len(T)>>
           f == ((H \o B) \o T) \o L
<1>6. h.cells = f
  <2>1. h = [ok |-> TRUE, cells |-> f]
    <3>1. Encodable(e, body) /\ Len(T) <= Max16
      BY <1>1 DEF RelayFrameOf, Malformed
    <3> QED
      BY <1>1, <3>1, Zenon DEF RelayFrameOf
  <2> HIDE DEF f, h
  <2> QED
    BY <2>1
<1>7. IsSeq(B) /\ Len(B) \in Nat /\ IsSeq(T) /\ Len(T) \in Nat
  BY <1>4, <1>5, LenIs DEF Sent, IsNums, Trails
<1>8. IsSeq(L) /\ Len(L) = 1 /\ L[1] = Len(T)
  BY OneIs
<1>9. IsSeq(H) /\ Len(H) = 5
  <2>1. H \in Seq({Magic, Version, e.code, body.flags + RelayFlag, EnvelopeSeq(e.seq)}) /\ Len(H) = 5
    BY DEF Header
  <2> QED
    BY <2>1, SeqIs
<1> HIDE DEF h, B, L
<1>10. Fronted(f, e.code, body.flags + RelayFlag, EnvelopeSeq(e.seq), B \o (T \o L))
  <2>1. IsSeq(T \o L)
    BY <1>7, <1>8, JoinedSeq
  <2>2. IsSeq(B \o (T \o L)) /\ IsSeq(H \o B)
    BY <1>7, <1>9, <2>1, JoinedSeq
  <2>3. Regroups(H \o B, T, L) /\ Regroups(H, B, T \o L)
    BY <1>7, <1>8, <1>9, <2>1, <2>2, JoinedAssoc
  <2>4. f = H \o (B \o (T \o L))
    BY <2>3 DEF Regroups
  <2>5. Fronted(H \o (B \o (T \o L)), e.code, body.flags + RelayFlag, EnvelopeSeq(e.seq), B \o (T \o L))
    BY <2>2, HeaderIs
  <2> QED
    BY <2>4, <2>5
<1> HIDE DEF H
<1>11. /\ Len(H \o B) = 5 + Len(B) /\ IsSeq(H \o B)
       /\ Len((H \o B) \o T) = 5 + Len(B) + Len(T) /\ IsSeq((H \o B) \o T)
  <2>1. Len(H \o B) = Len(H) + Len(B) /\ IsSeq(H \o B)
    BY <1>7, <1>9, JoinedLen, JoinedSeq
  <2>2. Len((H \o B) \o T) = Len(H \o B) + Len(T) /\ IsSeq((H \o B) \o T)
    BY <1>7, <2>1, JoinedLen, JoinedSeq
  <2> QED
    BY <1>7, <1>9, <2>1, <2>2
<1>12. Len(f) = 5 + Len(B) + Len(T) + 1 /\ f[Len(f)] = Len(T) /\ IsSeq(f)
  <2>1. IsSeq(f) /\ Joins(f, (H \o B) \o T, L)
    BY <1>8, <1>11, JoinedSeq, Zenon
  <2> HIDE DEF f
  <2>2. Len(f) = (5 + Len(B) + Len(T)) + 1
    BY <1>8, <1>11, <2>1 DEF Joins
  <2>3. f[(5 + Len(B) + Len(T)) + 1] = L[1]
    BY <1>8, <1>11, <2>1 DEF Joins
  <2> QED
    BY <1>7, <1>8, <2>1, <2>2, <2>3
<1>13. SubSeq(f, 6 + Len(B), Len(f) - 1) = T
  <2>1. SubSeq(f, Len(H \o B) + 1, Len(H \o B) + Len(T)) = T
    BY <1>7, <1>8, <1>11, Between
  <2>2. Len(H \o B) + 1 = 6 + Len(B) /\ Len(H \o B) + Len(T) = Len(f) - 1
    <3> HIDE DEF f
    <3> QED
      BY <1>7, <1>11, <1>12
  <2> QED
    BY <2>1, <2>2
<1>14. SubSeq(f, 6, 5 + Len(B)) = B
  <2>1. IsSeq(T \o L)
    BY <1>7, <1>8, JoinedSeq
  <2>2. Regroups(H \o B, T, L)
    BY <1>7, <1>8, <1>11, JoinedAssoc
  <2>3. f = (H \o B) \o (T \o L)
    BY <2>2 DEF Regroups
  <2>4. SubSeq((H \o B) \o (T \o L), Len(H) + 1, Len(H) + Len(B)) = B
    BY <1>7, <1>9, <2>1, Between
  <2>5. Len(H) + 1 = 6 /\ Len(H) + Len(B) = 5 + Len(B)
    BY <1>9
  <2>6. SubSeq((H \o B) \o (T \o L), 6, 5 + Len(B)) = B
    BY <2>4, <2>5
  <2> HIDE DEF f
  <2> QED
    BY <2>3, <2>6
<1> HIDE DEF f
<1>15. /\ f[1] = Magic /\ f[2] = Version /\ f[3] = e.code /\ f[4] = body.flags + RelayFlag
       /\ f[5] = EnvelopeSeq(e.seq)
  BY <1>10 DEF Fronted
<1>16. IsBinaryFrame(f) /\ ReadableHeader(f) /\ Len(f) > HeaderSize
  BY <1>7, <1>12, <1>15 DEF IsBinaryFrame, ReadableHeader, HeaderSize
<1>17. Has(f[4], RelayFlag) /\ f[4] - RelayFlag = body.flags
  <2>1. body.flags \in 0..3
    BY <1>4 DEF Sent
  <2> QED
    BY <1>15, <2>1 DEF Has, RelayFlag
<1> DEFINE start == 6 + Len(B)
           r == Read(StampValues(e), <<>>)
<1>18. RelayMetadata(f) = MetadataOf(f, start, r)
  <2>1. Len(f) - f[Len(f)] = start
    BY <1>7, <1>12
  <2>2. ReadAll(MetadataKinds, SubSeq(f, start, Len(f) - 1)) = r
    BY <1>5, <1>13 DEF Trails
  <2> HIDE DEF start, r
  <2> QED
    BY <2>1, <2>2, Zenon DEF RelayMetadata
<1>19. r.ok /\ r.v = StampValues(e) /\ r.rest = <<>>
  BY DEF Read
<1>20. r.v[4] = e.actorId /\ r.v[5] = e.origin /\ r.v[6] = e.sentAt
  BY <1>19 DEF StampValues
<1> HIDE DEF r
<1>21. f[3] # Aggregate /\ start > HeaderSize /\ Consumed(r)
  BY <1>3, <1>7, <1>15, <1>19 DEF Codes, Aggregate, HeaderSize, Consumed
<1> HIDE DEF start
<1>22. MetadataOf(f, start, r) =
         [ok |-> TRUE, seq |-> f[5], actorId |-> r.v[4], origin |-> r.v[5], sentAt |-> r.v[6],
          start |-> start]
  BY <1>16, <1>17, <1>21, Zenon DEF MetadataOf
<1> DEFINE m == RelayMetadata(f)
<1>23. /\ m.ok /\ m.seq = EnvelopeSeq(e.seq) /\ m.actorId = e.actorId /\ m.origin = e.origin
       /\ m.sentAt = e.sentAt /\ m.start = start
  BY <1>15, <1>18, <1>20, <1>22
<1> HIDE DEF m
<1>24. SubSeq(f, HeaderSize + 1, m.start - 1) = B
  <2>1. HeaderSize + 1 = 6 /\ m.start - 1 = 5 + Len(B)
    BY <1>7, <1>23 DEF start, HeaderSize
  <2> QED
    BY <1>14, <2>1
<1>25. f # <<>>
  BY <1>7, <1>12, EmptyIs
<1>26. Relays(f, e, body)
  BY <1>4, <1>7, <1>12, <1>15, <1>16, <1>17, <1>23, <1>24, <1>25, Zenon DEF Relays, m, B
<1> QED
  BY <1>6, <1>26 DEF h, body

\* An aggregate that is taken apart into frames.
Aggregates(f, frames) ==
    IsSeq(f) /\ IsBinaryFrame(f) /\ f[3] = Aggregate /\ Children(f) = Read(frames, <<>>)

\* DecodeRelayMetadata takes an aggregate apart into the frames it was made of.
THEOREM AggregateRead ==
    ASSUME NEW n \in Nat, NEW child, child = [i \in 1..n |-> child[i]],
           \A i \in 1..n : IsSeq(child[i].cells) /\ child[i].cells # <<>>,
           AggregateOf(child).ok
    PROVE  Aggregates(AggregateOf(child).cells, [i \in 1..n |-> child[i].cells])
<1> DEFINE kinds == ChildKinds(n)
           values == [i \in 1..n |-> child[i].cells]
           W == WriteAll(kinds, values)
           L == <<n>>
           H == Header(Aggregate, 0, 0)
           f == (H \o L) \o W
           g == AggregateOf(child)
<1>1. IsSeq(child) /\ Len(child) = n /\ DOMAIN child = 1..n
  BY ListIs, LenIs
<1>2. g.cells = f
  <2>1. /\ Len(child) >= 2 /\ Len(child) <= Max16
        /\ \A i \in DOMAIN child : child[i].ok /\ Len(child[i].cells) <= Max16
    BY DEF AggregateOf, Malformed
  <2>2. g = [ok |-> TRUE, cells |-> f]
    BY <1>1, <2>1, Zenon DEF AggregateOf
  <2> HIDE DEF f, g
  <2> QED
    BY <2>2
<1>3. /\ IsSeq(kinds) /\ Len(kinds) = n /\ \A i \in 1..n : kinds[i] = "child"
  <2>1. kinds = [i \in 1..n |-> kinds[i]] /\ \A i \in 1..n : kinds[i] = "child"
    BY DEF ChildKinds
  <2> HIDE DEF kinds
  <2> QED
    BY <2>1, ListIs
<1>4. /\ IsSeq(values) /\ Len(values) = n
      /\ \A i \in 1..n : IsSeq(values[i]) /\ values[i] # <<>>
  <2>1. values = [i \in 1..n |-> values[i]] /\ \A i \in 1..n : IsSeq(values[i]) /\ values[i] # <<>>
    OBVIOUS
  <2> HIDE DEF values
  <2> QED
    BY <2>1, ListIs
<1> HIDE DEF g, kinds, values
<1>5. AllFit(kinds, values)
  <2>1. \A i \in 1..n : Fit("child", values[i])
    BY <1>4 DEF Fit
  <2>2. "child" \in Kinds
    BY DEF Kinds
  <2> QED
    BY <1>3, <1>4, <2>1, <2>2 DEF AllFit
<1>6. IsSeq(W) /\ ReadAll(kinds, W) = Read(values, <<>>)
  <2>1. AllBack(kinds, values, <<>>)
    BY <1>5, AllRead, EmptyIs
  <2>2. IsSeq(W) /\ ReadAll(kinds, W \o <<>>) = Read(values, <<>>)
    BY <2>1 DEF AllBack
  <2>3. W \o <<>> = W
    BY <2>2, JoinedEmpty
  <2> QED
    BY <2>2, <2>3
<1> HIDE DEF W
<1>7. IsSeq(L) /\ IsSeq(L \o W) /\ Len(L \o W) = 1 + Len(W) /\ (L \o W)[1] = n /\ From(L \o W, 2) = W
  BY <1>6, OneIs, HeadOf
<1>8. IsSeq(H)
  <2>1. H \in Seq({Magic, Version, Aggregate, 0})
    BY DEF Header
  <2> QED
    BY <2>1, SeqIs
<1>9. Fronted(f, Aggregate, 0, 0, L \o W)
  <2>1. Regroups(H, L, W)
    BY <1>6, <1>7, <1>8, JoinedAssoc
  <2>2. f = H \o (L \o W)
    BY <2>1 DEF Regroups
  <2>3. Fronted(H \o (L \o W), Aggregate, 0, 0, L \o W)
    BY <1>7, HeaderIs
  <2> QED
    BY <2>2, <2>3
<1> DEFINE X == L \o W
<1> HIDE DEF f, H
<1>10. Len(W) \in Nat
  BY <1>6, LenIs
<1>11. IsSeq(X) /\ Len(X) = 1 + Len(W) /\ X[1] = n /\ From(X, 2) = W
  BY <1>7
<1>a. Fronted(f, Aggregate, 0, 0, X)
  BY <1>9
<1> HIDE DEF X
<1>12. /\ IsSeq(f) /\ Len(f) = 6 + Len(W) /\ f[1] = Magic /\ f[2] = Version /\ f[3] = Aggregate
       /\ f[4] = 0 /\ From(f, 6) = X /\ f[6] = n
  <2>1. /\ IsSeq(f) /\ Len(f) = 5 + Len(X) /\ f[1] = Magic /\ f[2] = Version /\ f[3] = Aggregate
        /\ f[4] = 0 /\ From(f, 5 + 1) = X /\ \A i \in 1..Len(X) : f[5 + i] = X[i]
    BY <1>a DEF Fronted, HeaderSize
  <2>2. 1 \in 1..Len(X) /\ 5 + 1 = 6 /\ 5 + Len(X) = 6 + Len(W)
    BY <1>10, <1>11
  <2>3. f[5 + 1] = X[1]
    BY <2>1, <2>2
  <2> QED
    BY <1>11, <2>1, <2>2, <2>3
<1>13. IsBinaryFrame(f) /\ ReadableHeader(f) /\ Len(f) > HeaderSize
  BY <1>10, <1>12 DEF IsBinaryFrame, ReadableHeader, HeaderSize
<1>14. From(f, 7) = W
  <2> DEFINE q == From(f, 7)
  <2>1. 6 \in 0..Len(f) /\ 6 + 1 = 7 /\ 5 \in 0..Len(f) /\ 5 + 1 = 6
    BY <1>10, <1>12
  <2>2. Part(q, f, 7, Len(f))
    <3>1. 7 \in 1..(Len(f) + 1) /\ Len(f) \in (7 - 1)..Len(f)
      BY <1>10, <1>12
    <3> QED
      BY <1>12, <3>1, PartIs DEF From
  <2>3. Part(X, f, 6, Len(f))
    <3>1. 6 \in 1..(Len(f) + 1) /\ Len(f) \in (6 - 1)..Len(f)
      BY <1>10, <1>12
    <3>2. Part(SubSeq(f, 6, Len(f)), f, 6, Len(f))
      BY <1>12, <3>1, PartIs
    <3> QED
      BY <1>12, <3>2 DEF From
  <2>4. Part(W, X, 2, Len(X))
    <3>1. 2 \in 1..(Len(X) + 1) /\ Len(X) \in (2 - 1)..Len(X)
      BY <1>10, <1>11
    <3>2. Part(SubSeq(X, 2, Len(X)), X, 2, Len(X))
      BY <1>11, <3>1, PartIs
    <3> QED
      BY <1>11, <3>2 DEF From
  <2> HIDE DEF q
  <2>5. /\ IsSeq(q) /\ Len(q) = Len(f) - 7 + 1
        /\ \A i \in 1..(Len(f) - 7 + 1) : q[i] = f[7 + i - 1]
    BY <2>2 DEF Part
  <2>6. \A i \in 1..(Len(f) - 6 + 1) : X[i] = f[6 + i - 1]
    BY <2>3 DEF Part
  <2>7. \A i \in 1..(Len(X) - 2 + 1) : W[i] = X[2 + i - 1]
    BY <2>4 DEF Part
  <2>8. Len(q) = Len(W)
    BY <1>10, <1>12, <2>5
  <2>9. ASSUME NEW i \in 1..Len(q) PROVE q[i] = W[i]
    <3> DEFINE j == i + 1
    <3>1. /\ i \in 1..(Len(f) - 7 + 1) /\ j \in 1..(Len(f) - 6 + 1) /\ i \in 1..(Len(X) - 2 + 1)
          /\ 7 + i - 1 = 6 + j - 1 /\ 2 + i - 1 = j
      BY <1>10, <1>11, <1>12, <2>8
    <3> HIDE DEF j
    <3>2. q[i] = f[6 + j - 1] /\ W[i] = X[j]
      BY <2>5, <2>7, <3>1
    <3> QED
      BY <2>6, <3>1, <3>2
  <2>10. q = W
    BY <1>6, <2>5, <2>8, <2>9, SameSeq
  <2> QED
    BY <2>10 DEF q
<1> DEFINE r == Read(values, <<>>)
<1>15. ReadAll(ChildKinds(f[HeaderSize + 1]), From(f, HeaderSize + 2)) = r
  <2>1. HeaderSize + 1 = 6 /\ HeaderSize + 2 = 7
    BY DEF HeaderSize
  <2> QED
    BY <1>6, <1>12, <1>14, <2>1 DEF kinds
<1>16. r.ok /\ r.rest = <<>>
  BY DEF Read
<1> HIDE DEF r
<1>17. Consumed(r)
  BY <1>16 DEF Consumed
<1>18. Children(f) = r
  BY <1>12, <1>13, <1>15, <1>17, Zenon DEF Children
<1>19. Aggregates(f, values)
  BY <1>12, <1>13, <1>18 DEF Aggregates, r
<1> QED
  BY <1>2, <1>19 DEF g, values
=============================================================================
