---------------------------- MODULE ImpactLemmas ----------------------------
(***************************************************************************)
(* Lemmas about the operators of WriteSet and Calculate, for every         *)
(* manifest, every budget and any facts; both adapters and the write       *)
(* buffer rest on them.  The first part is induction for sets instead of   *)
(* predicates, and what a fold from the left needs: a solution of its      *)
(* recursion over sets of indices, and the set of the first k indices,     *)
(* whose maximum is k.  The second says that each operation of the write   *)
(* set keeps, for each fact it was given, one that is at least as wide;    *)
(* the third that the calculator reports what any of its facts may affect. *)
(***************************************************************************)
EXTENDS Integers, WriteSet, Calculate, FiniteSetTheorems, SequenceTheorems,
        WellFoundedInduction, NaturalsInduction, TLAPS

\* A set that has zero and every successor of its numbers has all of them.
LEMMA NatSetInduction ==
    ASSUME NEW T, 0 \in T, \A n \in Nat : n \in T => n + 1 \in T
    PROVE  Nat \subseteq T
<1> SUFFICES ASSUME Nat \ T # {} PROVE FALSE
  OBVIOUS
<1> DEFINE R == OpToRel(<, Nat)
<1>1. IsWellFoundedOn(R, Nat)
  BY NatLessThanWellFounded
<1>2. PICK x \in Nat \ T : \A y \in Nat \ T : <<y, x>> \notin R
  <2> HIDE DEF R
  <2>1. Nat \ T \subseteq Nat
    OBVIOUS
  <2> QED BY <1>1, <2>1, WFMin
<1>a. x \in Nat /\ x \notin T
  BY <1>2
<1>3. x # 0
  BY <1>a
<1>b. x - 1 \in Nat /\ x - 1 < x /\ (x - 1) + 1 = x
  BY <1>a, <1>3
<1>4. x - 1 \notin T
  BY <1>a, <1>b
<1>5. <<x - 1, x>> \in R
  BY <1>a, <1>b DEF OpToRel
<1> QED BY <1>2, <1>4, <1>5, <1>b

\* h is what a fold over the indices 1 .. n takes of each set of them, when it
\* applies G[i] to the value so far at index i.
FoldTable(h, base, n, G) ==
    h = [t \in SUBSET (1 .. n) |->
           IF t = {} THEN base ELSE G[Max(t)][h[t \ {Max(t)}]]]

\* Every table over the indices 1 .. n has such an h.
LEMMA FoldExists ==
    ASSUME NEW V, NEW base \in V, NEW n \in Nat, NEW G \in [1 .. n -> [V -> V]]
    PROVE  \E h \in [SUBSET (1 .. n) -> V] : FoldTable(h, base, n, G)
<1> DEFINE Solves(h, k) ==
      /\ h \in [SUBSET (1 .. k) -> V]
      /\ \A t \in SUBSET (1 .. k) :
            h[t] = IF t = {} THEN base ELSE G[Max(t)][h[t \ {Max(t)}]]
<1> DEFINE T == {k \in Nat : k <= n => \E h : Solves(h, k)}
<1>1. 0 \in T
  <2>1. Solves([t \in SUBSET (1 .. 0) |-> base], 0)
    OBVIOUS
  <2> QED BY <2>1
<1>2. ASSUME NEW k \in Nat, k \in T PROVE k + 1 \in T
  <2>0. (k <= n => \E h : Solves(h, k)) /\ (k + 1 <= n => k <= n)
    <3> HIDE DEF Solves
    <3>1. k <= n => \E h : Solves(h, k)
      BY <1>2
    <3> QED BY <3>1
  <2> SUFFICES ASSUME k + 1 <= n PROVE \E h : Solves(h, k + 1)
    <3> HIDE DEF Solves
    <3> QED OBVIOUS
  <2>1. PICK h : Solves(h, k)
    BY <2>0
  <2> DEFINE g == [t \in SUBSET (1 .. k + 1) |->
                     IF k + 1 \in t THEN G[k + 1][h[t \ {k + 1}]] ELSE h[t]]
  <2>2. \A t \in SUBSET (1 .. k + 1) : t \ {k + 1} \in SUBSET (1 .. k)
    OBVIOUS
  <2>3. \A t \in SUBSET (1 .. k + 1) : k + 1 \notin t => t \in SUBSET (1 .. k)
    OBVIOUS
  <2>4. \A t \in SUBSET (1 .. k + 1) : k + 1 \in t => Max(t) = k + 1
    <3> SUFFICES ASSUME NEW t \in SUBSET (1 .. k + 1), k + 1 \in t PROVE Max(t) = k + 1
      OBVIOUS
    <3>1. \A y \in t : y \in Nat /\ k + 1 >= y
      BY SMT
    <3>2. \A x \in t : (\A y \in t : x >= y) => x = k + 1
      BY <3>1, SMT
    <3> QED BY <3>1, <3>2 DEF Max
  <2>5. g \in [SUBSET (1 .. k + 1) -> V]
    <3> SUFFICES ASSUME NEW t \in SUBSET (1 .. k + 1) PROVE g[t] \in V
      OBVIOUS
    <3>1. CASE k + 1 \in t
      <4>1. h[t \ {k + 1}] \in V
        BY <2>1, <2>2
      <4>2. k + 1 \in 1 .. n
        OBVIOUS
      <4> QED BY <3>1, <4>1, <4>2
    <3>2. CASE k + 1 \notin t
      BY <3>2, <2>1, <2>3
    <3> QED BY <3>1, <3>2
  <2>6. ASSUME NEW t \in SUBSET (1 .. k + 1)
        PROVE g[t] = IF t = {} THEN base ELSE G[Max(t)][g[t \ {Max(t)}]]
    <3>1. CASE k + 1 \in t
      <4>1. Max(t) = k + 1 /\ t # {}
        BY <3>1, <2>4
      <4>2. g[t \ {k + 1}] = h[t \ {k + 1}]
        BY <2>2
      <4>3. g[t] = G[k + 1][h[t \ {k + 1}]]
        BY <3>1
      <4> HIDE DEF g
      <4> QED BY <4>1, <4>2, <4>3
    <3>2. CASE k + 1 \notin t
      <4>1. t \in SUBSET (1 .. k) /\ g[t] = h[t]
        BY <3>2, <2>3
      <4>2. t \ {Max(t)} \in SUBSET (1 .. k + 1) /\ k + 1 \notin t \ {Max(t)}
        BY <4>1, <3>2
      <4>3. g[t \ {Max(t)}] = h[t \ {Max(t)}]
        <5>1. \A u \in SUBSET (1 .. k + 1) : k + 1 \notin u => g[u] = h[u]
          OBVIOUS
        <5> HIDE DEF g
        <5> QED BY <5>1, <4>2
      <4> HIDE DEF g
      <4> QED BY <2>1, <4>1, <4>3
    <3> QED BY <3>1, <3>2
  <2> HIDE DEF g
  <2> QED BY <2>5, <2>6
<1>3. n \in T
  <2> HIDE DEF T
  <2> QED BY <1>1, <1>2, NatSetInduction
<1>4. PICK h : Solves(h, n)
  <2> HIDE DEF Solves
  <2>1. n <= n
    OBVIOUS
  <2> QED BY <1>3, <2>1
<1>5. h = [t \in SUBSET (1 .. n) |-> IF t = {} THEN base ELSE G[Max(t)][h[t \ {Max(t)}]]]
  BY <1>4
<1> QED BY <1>4, <1>5 DEF FoldTable

\* Induction up to a bound.
LEMMA SegmentInduction ==
    ASSUME NEW n \in Nat, NEW T, 0 \in T,
           \A k \in 0 .. n : k < n /\ k \in T => k + 1 \in T
    PROVE  \A k \in 0 .. n : k \in T
<1> DEFINE U == {k \in Nat : k <= n => k \in T}
<1>1. 0 \in U
  OBVIOUS
<1>2. ASSUME NEW k \in Nat, k \in U PROVE k + 1 \in U
  <2> SUFFICES ASSUME k + 1 <= n PROVE k + 1 \in T
    OBVIOUS
  <2>1. k \in 0 .. n /\ k < n /\ k \in T
    BY <1>2
  <2> QED BY <2>1
<1>3. Nat \subseteq U
  <2> HIDE DEF U
  <2> QED BY <1>1, <1>2, NatSetInduction
<1> QED BY <1>3

\* A nonempty set of indices has a largest one, and Max is it.
LEMMA MaxIn ==
    ASSUME NEW n \in Nat, NEW t \in SUBSET (1 .. n), t # {}
    PROVE  Max(t) \in t /\ \A y \in t : Max(t) >= y
<1> DEFINE T == {k \in 0 .. n : \A u \in SUBSET (1 .. k) : u # {} => \E x \in u : \A y \in u : x >= y}
<1>1. 0 \in T
  <2>1. 0 \in 0 .. n /\ \A u \in SUBSET (1 .. 0) : u = {}
    OBVIOUS
  <2> QED BY <2>1
<1>2. ASSUME NEW k \in 0 .. n, k < n, k \in T PROVE k + 1 \in T
  <2> SUFFICES ASSUME NEW u \in SUBSET (1 .. k + 1), u # {}
               PROVE  \E x \in u : \A y \in u : x >= y
    BY <1>2
  <2>1. CASE k + 1 \in u
    BY <2>1
  <2>2. CASE k + 1 \notin u
    <3>1. u \in SUBSET (1 .. k)
      BY <2>2
    <3> QED BY <3>1, <1>2
  <2> QED BY <2>1, <2>2
<1>3. n \in T
  <2> HIDE DEF T
  <2>1. \A k \in 0 .. n : k \in T
    BY <1>1, <1>2, SegmentInduction
  <2> QED BY <2>1
<1>4. \E x \in t : \A y \in t : x >= y
  BY <1>3
<1> QED BY <1>4 DEF Max

\* what a fold over 1 .. n meets: the last index and the rest
LEMMA Segments ==
    ASSUME NEW k \in Nat, k # 0
    PROVE  /\ Max(1 .. k) = k
           /\ (1 .. k) \ {k} = 1 .. (k - 1)
           /\ 1 .. k # {}
<1>1. 1 .. k # {} /\ 1 .. k \in SUBSET (1 .. k)
  OBVIOUS
<1>2. Max(1 .. k) \in 1 .. k /\ \A y \in 1 .. k : Max(1 .. k) >= y
  BY <1>1, MaxIn
<1> DEFINE m == Max(1 .. k)
<1> HIDE DEF m
<1>3. m \in 1 .. k /\ \A y \in 1 .. k : m >= y
  BY <1>2 DEF m
<1>4. m = k
  BY <1>3
<1> QED BY <1>1, <1>4 DEF m

\* A sequence without its last element.
LEMMA FrontOfSequence ==
    ASSUME NEW S, NEW s \in Seq(S), s # <<>>
    PROVE  /\ Front(s) \in Seq(S) /\ Len(Front(s)) = Len(s) - 1
           /\ \A i \in 1 .. Len(s) - 1 : Front(s)[i] = s[i]
<1> DEFINE n == Len(s) - 1
<1>1. Len(s) \in Nat \ {0} /\ n \in Nat /\ \A i \in 1 .. n : s[i] \in S
  OBVIOUS
<1>2. Front(s) = SubSeq(s, 1, n)
  BY DEF Front
<1> HIDE DEF n
<1>3. 1 \in Int /\ n \in Int
  BY <1>1
<1>4. /\ SubSeq(s, 1, n) \in Seq(S)
      /\ Len(SubSeq(s, 1, n)) = IF 1 <= n THEN n - 1 + 1 ELSE 0
      /\ \A i \in 1 .. n - 1 + 1 : SubSeq(s, 1, n)[i] = s[1 + i - 1]
  BY <1>1, <1>3, SubSeqProperties
<1>5. (IF 1 <= n THEN n - 1 + 1 ELSE 0) = n /\ n - 1 + 1 = n
  BY <1>1
<1>6. \A i \in 1 .. n : 1 + i - 1 = i
  BY <1>1
<1>7. /\ Front(s) \in Seq(S) /\ Len(Front(s)) = n
      /\ \A i \in 1 .. n : Front(s)[i] = s[i]
  BY <1>2, <1>4, <1>5, <1>6
<1> QED BY <1>7 DEF n

\* h applies G index by index to the values in V.
Applies(h, base, n, G, V) ==
    /\ h[{}] = base
    /\ \A t \in SUBSET (1 .. n) :
          t # {} /\ h[t \ {Max(t)}] \in V => h[t] = G[Max(t)][h[t \ {Max(t)}]]

\* The steps of a fold: g[k] is the value after the first k indices.
FoldSteps(g, base, last, n, G, V) ==
    /\ g[0] = base /\ g[n] = last
    /\ \A k \in 0 .. n : g[k] \in V
    /\ \A k \in 1 .. n : g[k] = G[k][g[k - 1]]

\* What applies G index by index has such steps.
LEMMA FoldWalk ==
    ASSUME NEW V, NEW base \in V, NEW n \in Nat, NEW G \in [1 .. n -> [V -> V]], NEW h,
           Applies(h, base, n, G, V)
    PROVE  \E g : FoldSteps(g, base, h[1 .. n], n, G, V)
<1>0. /\ h[{}] = base
      /\ \A t \in SUBSET (1 .. n) :
            t # {} /\ h[t \ {Max(t)}] \in V => h[t] = G[Max(t)][h[t \ {Max(t)}]]
  BY DEF Applies
<1> DEFINE g == [k \in 0 .. n |-> h[1 .. k]]
<1>1. g[0] = base /\ g[n] = h[1 .. n]
  <2>1. 1 .. 0 = {} /\ 0 \in 0 .. n /\ n \in 0 .. n
    OBVIOUS
  <2>2. g[0] = h[1 .. 0] /\ g[n] = h[1 .. n]
    BY <2>1
  <2> HIDE DEF g
  <2> QED BY <1>0, <2>1, <2>2
<1>2. ASSUME NEW k \in 1 .. n, g[k - 1] \in V PROVE g[k] = G[k][g[k - 1]]
  <2>0. k \in Nat /\ k # 0
    OBVIOUS
  <2>1. Max(1 .. k) = k /\ (1 .. k) \ {k} = 1 .. (k - 1) /\ 1 .. k # {}
    BY ONLY <2>0, Segments
  <2>2. g[k] = h[1 .. k] /\ g[k - 1] = h[1 .. (k - 1)] /\ 1 .. k \in SUBSET (1 .. n)
    OBVIOUS
  <2> HIDE DEF g
  <2>3. h[(1 .. k) \ {Max(1 .. k)}] = g[k - 1]
    BY <2>1, <2>2
  <2> QED BY <1>0, <1>2, <2>1, <2>2, <2>3
<1>3. \A k \in 0 .. n : g[k] \in V
  <2> DEFINE T == {k \in 0 .. n : g[k] \in V}
  <2> HIDE DEF g
  <2>1. 0 \in T
    BY <1>1
  <2>2. ASSUME NEW k \in 0 .. n, k < n, k \in T PROVE k + 1 \in T
    <3>1. k + 1 \in 1 .. n /\ (k + 1) - 1 = k /\ g[k] \in V
      BY <2>2
    <3> QED BY <3>1, <1>2
  <2>3. \A k \in 0 .. n : k \in T
    <3> HIDE DEF T
    <3> QED BY <2>1, <2>2, SegmentInduction
  <2> QED BY <2>3
<1>4. \A k \in 1 .. n : k - 1 \in 0 .. n
  OBVIOUS
<1> HIDE DEF g
<1>5. FoldSteps(g, base, h[1 .. n], n, G, V)
  BY <1>1, <1>2, <1>3, <1>4 DEF FoldSteps
<1> QED BY <1>5

\* A finite set has an order, in which each of its elements has a place.
LEMMA SequenceOfSet ==
    ASSUME NEW S, IsFiniteSet(S)
    PROVE  /\ SetToSeq(S) \in Seq(S)
           /\ \A x \in S : \E i \in DOMAIN SetToSeq(S) : SetToSeq(S)[i] = x
<1> DEFINE n == Cardinality(S)
<1>1. PICK f \in Bijection(1 .. n, S) : TRUE
  BY FS_CardinalityType DEF ExistsBijection
<1>2. f \in [1 .. n -> S] /\ IsInjective(f)
  BY <1>1 DEF Bijection, Injection, IsInjective
<1> DEFINE s == SetToSeq(S)
<1>3. s \in [1 .. n -> S] /\ IsInjective(s)
  BY <1>2 DEF SetToSeq
<1>4. n \in Nat
  BY FS_CardinalityType
<1>5. IsFiniteSet(1 .. n) /\ Cardinality(1 .. n) = n
  BY <1>4, FS_Interval
<1> HIDE DEF s
<1>6. s \in Injection(1 .. n, S)
  BY <1>3 DEF Injection, IsInjective
<1>7. s \in Surjection(1 .. n, S)
  BY <1>5, <1>6, FS_Injection
<1>8. s \in Seq(S) /\ DOMAIN s = 1 .. n
  BY <1>3, <1>4
<1>9. \A x \in S : \E i \in DOMAIN s : s[i] = x
  BY <1>7, <1>8 DEF Surjection
<1> QED BY <1>8, <1>9 DEF s

\* Where the elements of two sequences are in their concatenation.
LEMMA Concatenated ==
    ASSUME NEW S, NEW s \in Seq(S), NEW t \in Seq(S)
    PROVE  /\ s \o t \in Seq(S)
           /\ \A m \in DOMAIN s : m \in DOMAIN (s \o t) /\ (s \o t)[m] = s[m]
           /\ \A m \in DOMAIN t : Len(s) + m \in DOMAIN (s \o t) /\ (s \o t)[Len(s) + m] = t[m]
           /\ <<>> \o t = t
  OBVIOUS

\* A flattened sequence has the elements of each of its sequences.
LEMMA Flattened ==
    ASSUME NEW S, NEW seqs \in Seq(Seq(S))
    PROVE  /\ FlattenSeq(seqs) \in Seq(S)
           /\ \A i \in DOMAIN seqs : \A k \in DOMAIN seqs[i] :
                 \E m \in DOMAIN FlattenSeq(seqs) : FlattenSeq(seqs)[m] = seqs[i][k]
<1> DEFINE n == Len(seqs)
           V == Seq(S)
           G == [k \in 1 .. n |-> [v \in V |-> v \o seqs[k]]]
           Solves(f) == f = [i \in 1 .. n |-> IF i = 1 THEN seqs[i] ELSE f[i - 1] \o seqs[i]]
<1>1. n \in Nat /\ DOMAIN seqs = 1 .. n /\ <<>> \in V /\ \A k \in 1 .. n : seqs[k] \in V
  OBVIOUS
<1>2. G \in [1 .. n -> [V -> V]]
  <2>1. ASSUME NEW k \in 1 .. n, NEW v \in V PROVE v \o seqs[k] \in V
    BY <1>1
  <2> HIDE DEF V, n
  <2> QED BY <2>1
<1>3. \E f : Solves(f)
  <2>1. PICK h \in [SUBSET (1 .. n) -> V] : FoldTable(h, <<>>, n, G)
    <3> HIDE DEF G, V, n
    <3> QED BY <1>1, <1>2, FoldExists
  <2>a. Applies(h, <<>>, n, G, V)
    <3> HIDE DEF G, V, n, Solves
    <3> QED BY <2>1 DEF FoldTable, Applies
  <2>b. PICK g : FoldSteps(g, <<>>, h[1 .. n], n, G, V)
    <3> HIDE DEF G, V, n, Solves
    <3> QED BY <1>1, <1>2, <2>a, FoldWalk
  <2>2. /\ g[0] = <<>>
        /\ \A k \in 0 .. n : g[k] \in V
        /\ \A k \in 1 .. n : g[k] = G[k][g[k - 1]]
    <3> HIDE DEF G, V, n, Solves
    <3> QED BY <2>b DEF FoldSteps
  <2> DEFINE f == [i \in 1 .. n |-> g[i]]
  <2>3. ASSUME NEW i \in 1 .. n
        PROVE  f[i] = IF i = 1 THEN seqs[i] ELSE f[i - 1] \o seqs[i]
    <3>1. i - 1 \in 0 .. n /\ g[i - 1] \in V /\ f[i] = g[i]
      BY <1>1, <2>2
    <3>2. g[i] = g[i - 1] \o seqs[i]
      <4> HIDE DEF V, n
      <4> QED BY <2>2, <3>1
    <3>3. CASE i = 1
      <4>0. i - 1 = 0
        BY <3>3
      <4>1. g[i] = <<>> \o seqs[i]
        <5> HIDE DEF f, G, V, n, Solves
        <5> QED BY <2>2, <3>2, <4>0
      <4>2. seqs[i] \in Seq(S)
        BY <1>1
      <4>3. g[i] = seqs[i]
        <5> HIDE DEF f, G, V, n, Solves
        <5> QED BY <4>1, <4>2, Concatenated
      <4> QED BY <3>1, <3>3, <4>3
    <3>4. CASE i # 1
      <4>1. i - 1 \in 1 .. n
        BY <1>1, <3>4
      <4> QED BY <3>1, <3>2, <3>4, <4>1
    <3> QED BY <3>3, <3>4
  <2>4. Solves(f)
    <3>1. f = [i \in 1 .. n |-> f[i]]
      OBVIOUS
    <3> HIDE DEF f, n
    <3> QED BY <2>3, <3>1
  <2> QED BY <2>4
<1>4. CASE n = 0
  <2>1. FlattenSeq(seqs) = seqs /\ seqs = <<>>
    BY <1>1, <1>4 DEF FlattenSeq
  <2> QED BY <2>1
<1>5. CASE n # 0
  <2>1. PICK f : Solves(f) /\ FlattenSeq(seqs) = f[n]
    <3>1. Solves(CHOOSE f : Solves(f))
      BY <1>3
    <3>2. FlattenSeq(seqs) = (CHOOSE f : Solves(f))[n]
      BY <1>5 DEF FlattenSeq
    <3> QED BY <3>1, <3>2
  <2>2. \A i \in 1 .. n : f[i] = IF i = 1 THEN seqs[i] ELSE f[i - 1] \o seqs[i]
    <3> HIDE DEF n
    <3> QED BY <2>1
  <2> DEFINE Holds(k) == \A i \in 1 .. k : \A j \in DOMAIN seqs[i] :
                            \E m \in DOMAIN f[k] : f[k][m] = seqs[i][j]
             T == {k \in 0 .. n : k # 0 => f[k] \in V /\ Holds(k)}
  <2>3. 0 \in T
    BY <1>1
  <2>4. ASSUME NEW k \in 0 .. n, k < n, k \in T PROVE k + 1 \in T
    <3>1. k + 1 \in 1 .. n /\ (k + 1) - 1 = k /\ k + 1 \in 0 .. n /\ seqs[k + 1] \in V
      BY <1>1, <2>4
    <3>2. CASE k = 0
      <4>1. f[k + 1] = seqs[k + 1] /\ k + 1 = 1
        BY <2>2, <3>1, <3>2
      <4>2. Holds(k + 1)
        BY <4>1
      <4> QED BY <3>1, <4>1, <4>2
    <3>3. CASE k # 0
      <4>1. f[k + 1] = f[k] \o seqs[k + 1] /\ f[k] \in V /\ Holds(k)
        <5>1. k \in T /\ k + 1 # 1
          <6> HIDE DEF T, n
          <6>1. k \in T
            BY <2>4
          <6>2. k \in Int
            BY <3>1
          <6> QED BY <3>3, <6>1, <6>2
        <5>2. f[k] \in V /\ Holds(k)
          <6> HIDE DEF V, Holds
          <6> QED BY <3>3, <5>1
        <5> HIDE DEF V, Holds, n
        <5> QED BY <2>2, <3>1, <5>1, <5>2
      <4>2. f[k + 1] \in V
        BY <3>1, <4>1
      <4>a. /\ \A m \in DOMAIN f[k] : m \in DOMAIN f[k + 1] /\ f[k + 1][m] = f[k][m]
            /\ \A m \in DOMAIN seqs[k + 1] :
                  Len(f[k]) + m \in DOMAIN f[k + 1] /\ f[k + 1][Len(f[k]) + m] = seqs[k + 1][m]
        <5> DEFINE a == f[k]
                   b == seqs[k + 1]
                   c == f[k + 1]
        <5>1. a \in Seq(S) /\ b \in Seq(S) /\ c = a \o b
          BY <3>1, <4>1
        <5> HIDE DEF a, b, c
        <5>2. /\ \A m \in DOMAIN a : m \in DOMAIN c /\ c[m] = a[m]
              /\ \A m \in DOMAIN b : Len(a) + m \in DOMAIN c /\ c[Len(a) + m] = b[m]
          BY ONLY <5>1, Concatenated
        <5> QED BY <5>2 DEF a, b, c
      <4>3. ASSUME NEW i \in 1 .. k + 1, NEW j \in DOMAIN seqs[i]
            PROVE  \E m \in DOMAIN f[k + 1] : f[k + 1][m] = seqs[i][j]
        <5>1. CASE i = k + 1
          <6>1. Len(f[k]) + j \in DOMAIN f[k + 1] /\ f[k + 1][Len(f[k]) + j] = seqs[i][j]
            BY <4>a, <5>1
          <6> QED BY <6>1
        <5>2. CASE i # k + 1
          <6>1. i \in 1 .. k
            BY <5>2
          <6>2. PICK m \in DOMAIN f[k] : f[k][m] = seqs[i][j]
            BY <4>1, <6>1
          <6>3. m \in DOMAIN f[k + 1] /\ f[k + 1][m] = f[k][m]
            BY <4>a, <6>2
          <6> QED BY <6>2, <6>3
        <5> QED BY <5>1, <5>2
      <4> QED BY <3>1, <4>2, <4>3
    <3> QED BY <3>2, <3>3
  <2>5. n \in T
    <3> HIDE DEF T
    <3>1. \A k \in 0 .. n : k \in T
      BY <1>1, <2>3, <2>4, SegmentInduction
    <3> QED BY <1>1, <3>1
  <2>6. f[n] \in V /\ Holds(n)
    BY <1>5, <2>5
  <2>7. DOMAIN seqs = 1 .. n
    BY <1>1
  <2> HIDE DEF n, T, G, Solves
  <2> QED BY <2>1, <2>6, <2>7
<1> QED BY <1>4, <1>5


-----------------------------------------------------------------------------
(* One fact stands for another. *)

\* wide excludes no answer that row does not exclude.
RowWider(wide, row) ==
    \/ row.kind = "absent"
    \/ wide.kind = "unknown"
    \/ /\ wide.kind = "known" /\ row.kind = "known"
       /\ wide.scope = row.scope
       /\ wide.fields \subseteq row.fields
       /\ wide.equality \subseteq row.equality

Wider(wide, fact) ==
    /\ wide.resource = fact.resource
    /\ wide.operation \in {fact.operation, "unknown"}
    /\ wide.changed = Null \/ (fact.changed # Null /\ fact.changed \subseteq wide.changed)
    /\ RowWider(wide.before, fact.before)
    /\ RowWider(wide.after, fact.after)

\* The values of a known row were all seen in one row of its scope.
From(row, seen) ==
    row.kind = "known" =>
       \E r \in seen : r.kind = "known" /\ r.scope = row.scope /\ row.fields \subseteq r.fields

FactsFrom(seen) == {fact \in WriteFact : From(fact.before, seen) /\ From(fact.after, seen)}

LEMMA Kinds ==
    ASSUME NEW row \in RowState
    PROVE  /\ row.kind \in {"absent", "unknown", "known"}
           /\ row.kind = "absent" => row = Absent
           /\ row.kind = "unknown" => row = UnknownRow
           /\ row.kind = "known" => /\ row.scope \in Scalar
                                    /\ row.fields \in SUBSET (Column \X Scalar)
                                    /\ row.equality \in SUBSET (Column \X Scalar)
  BY DEF RowState, Absent, UnknownRow

LEMMA WiderSelf ==
    ASSUME NEW fact \in WriteFact
    PROVE  Wider(fact, fact)
<1>1. fact.before \in RowState /\ fact.after \in RowState
  BY DEF WriteFact
<1>2. \A row \in RowState : RowWider(row, row)
  BY Kinds DEF RowWider
<1> QED BY <1>1, <1>2 DEF Wider

LEMMA WiderChain ==
    ASSUME NEW a \in WriteFact, NEW b \in WriteFact, NEW c \in WriteFact, Wider(a, b), Wider(b, c)
    PROVE  Wider(a, c)
<1>1. /\ a.before \in RowState /\ a.after \in RowState
      /\ b.before \in RowState /\ b.after \in RowState
      /\ c.before \in RowState /\ c.after \in RowState
  BY DEF WriteFact
<1>2. ASSUME NEW x \in RowState, NEW y \in RowState, NEW z \in RowState,
             RowWider(x, y), RowWider(y, z)
      PROVE  RowWider(x, z)
  BY <1>2, Kinds DEF RowWider
<1>3. RowWider(a.before, c.before) /\ RowWider(a.after, c.after)
  BY <1>1, <1>2 DEF Wider
<1>4. a.changed = Null \/ (c.changed # Null /\ c.changed \subseteq a.changed)
  BY DEF Wider
<1>5. a.resource = c.resource /\ a.operation \in {c.operation, "unknown"}
  BY DEF Wider
<1> QED BY <1>3, <1>4, <1>5 DEF Wider

-----------------------------------------------------------------------------
(* Summaries. *)

\* What two rows have in common stands for both.
LEMMA CommonRowWider ==
    ASSUME NEW seen, NEW left \in RowState, NEW right \in RowState,
           From(left, seen), From(right, seen)
    PROVE  /\ CommonRow(left, right) \in RowState
           /\ From(CommonRow(left, right), seen)
           /\ RowWider(CommonRow(left, right), left)
           /\ RowWider(CommonRow(left, right), right)
<1>1. \A row \in RowState : RowWider(row, row)
  BY Kinds DEF RowWider
<1>2. CASE left.kind = "absent"
  BY <1>1, <1>2 DEF CommonRow, RowWider
<1>3. CASE left.kind # "absent" /\ right.kind = "absent"
  BY <1>1, <1>3 DEF CommonRow, RowWider
<1>4. CASE left.kind # "absent" /\ right.kind # "absent"
  <2> DEFINE both == KnownRow(left.scope, left.fields \cap right.fields, left.equality \cap right.equality)
  <2>1. CASE left.kind = "known" /\ right.kind = "known" /\ left.scope = right.scope
    <3>1. CommonRow(left, right) = both
      BY <1>4, <2>1 DEF CommonRow
    <3>2. /\ both.kind = "known" /\ both.scope = left.scope
          /\ both.fields = left.fields \cap right.fields
          /\ both.equality = left.equality \cap right.equality
      BY DEF KnownRow
    <3>3. both \in RowState
      <4>1. left.scope \in Scalar /\ left.fields \in SUBSET (Column \X Scalar)
            /\ left.equality \in SUBSET (Column \X Scalar)
        BY <2>1, Kinds
      <4> QED BY <4>1 DEF RowState, KnownRow
    <3>4. From(both, seen)
      <4>1. PICK r \in seen : r.kind = "known" /\ r.scope = left.scope /\ left.fields \subseteq r.fields
        BY <2>1 DEF From
      <4> HIDE DEF both
      <4> QED BY <3>2, <4>1 DEF From
    <3>5. RowWider(both, left) /\ RowWider(both, right)
      <4> HIDE DEF both
      <4> QED BY <2>1, <3>2 DEF RowWider
    <3> HIDE DEF both
    <3> QED BY <3>1, <3>3, <3>4, <3>5
  <2>2. CASE ~(left.kind = "known" /\ right.kind = "known" /\ left.scope = right.scope)
    <3>1. CommonRow(left, right) = UnknownRow
      BY <1>4, <2>2 DEF CommonRow
    <3>2. UnknownRow.kind = "unknown" /\ UnknownRow \in RowState
      BY DEF UnknownRow, RowState
    <3> QED BY <3>1, <3>2 DEF From, RowWider
  <2> QED BY <2>1, <2>2
<1> QED BY <1>2, <1>3, <1>4

\* A row without its fields, or without its scope, stands for the row.
LEMMA WithoutWider ==
    ASSUME NEW seen, NEW row \in RowState, From(row, seen)
    PROVE  /\ WithoutFields(row) \in RowState /\ WithoutScope(row) \in RowState
           /\ WithoutScope(WithoutFields(row)) \in RowState
           /\ From(WithoutFields(row), seen) /\ From(WithoutScope(WithoutFields(row)), seen)
           /\ RowWider(WithoutFields(row), row)
           /\ RowWider(WithoutScope(WithoutFields(row)), row)
<1>1. CASE row.kind = "known"
  <2> DEFINE bare == KnownRow(row.scope, {}, {})
  <2>1. WithoutFields(row) = bare /\ WithoutScope(row) = UnknownRow
    BY <1>1 DEF WithoutFields, WithoutScope
  <2>2. bare.kind = "known" /\ bare.scope = row.scope /\ bare.fields = {} /\ bare.equality = {}
    BY DEF KnownRow
  <2>3. WithoutScope(bare) = UnknownRow
    BY <2>2 DEF WithoutScope
  <2>4. bare \in RowState
    <3>1. row.scope \in Scalar
      BY <1>1, Kinds
    <3> QED BY <3>1 DEF RowState, KnownRow
  <2>5. UnknownRow.kind = "unknown" /\ UnknownRow \in RowState
    BY DEF UnknownRow, RowState
  <2>6. From(bare, seen)
    <3> HIDE DEF bare
    <3> QED BY <1>1, <2>2 DEF From
  <2>7. RowWider(bare, row)
    <3> HIDE DEF bare
    <3> QED BY <1>1, <2>2 DEF RowWider
  <2>8. From(UnknownRow, seen) /\ RowWider(UnknownRow, row)
    BY <2>5 DEF From, RowWider
  <2> HIDE DEF bare
  <2> QED BY <2>1, <2>3, <2>4, <2>5, <2>6, <2>7, <2>8
<1>2. CASE row.kind # "known"
  <2>1. WithoutFields(row) = row /\ WithoutScope(row) = row
    BY <1>2 DEF WithoutFields, WithoutScope
  <2>2. RowWider(row, row)
    BY Kinds DEF RowWider
  <2> QED BY <2>1, <2>2
<1> QED BY <1>1, <1>2

\* A trimmed summary stands for the summary.
LEMMA TrimmedWider ==
    ASSUME NEW seen, NEW summary \in FactsFrom(seen)
    PROVE  /\ Trimmed(summary) \in FactsFrom(seen)
           /\ Wider(Trimmed(summary), summary)
<1> DEFINE bare == [resource |-> summary.resource, operation |-> summary.operation,
                    before |-> WithoutFields(summary.before), after |-> WithoutFields(summary.after),
                    changed |-> Null]
           blank == [resource |-> summary.resource, operation |-> summary.operation,
                     before |-> WithoutScope(WithoutFields(summary.before)),
                     after |-> WithoutScope(WithoutFields(summary.after)), changed |-> Null]
<1>1. /\ summary \in WriteFact
      /\ summary.before \in RowState /\ summary.after \in RowState
      /\ From(summary.before, seen) /\ From(summary.after, seen)
  BY DEF FactsFrom, WriteFact
<1>4. summary.resource \in Resource /\ summary.operation \in Operations
  BY <1>1 DEF WriteFact
<1>5. bare \in FactsFrom(seen) /\ Wider(bare, summary)
  <2>1. /\ WithoutFields(summary.before) \in RowState /\ WithoutFields(summary.after) \in RowState
        /\ From(WithoutFields(summary.before), seen) /\ From(WithoutFields(summary.after), seen)
        /\ RowWider(WithoutFields(summary.before), summary.before)
        /\ RowWider(WithoutFields(summary.after), summary.after)
    BY <1>1, WithoutWider
  <2>2. bare \in WriteFact
    BY <1>4, <2>1 DEF WriteFact
  <2> QED BY <2>1, <2>2 DEF FactsFrom, Wider
<1>6. blank \in FactsFrom(seen) /\ Wider(blank, summary)
  <2>1. /\ WithoutScope(WithoutFields(summary.before)) \in RowState
        /\ WithoutScope(WithoutFields(summary.after)) \in RowState
        /\ From(WithoutScope(WithoutFields(summary.before)), seen)
        /\ From(WithoutScope(WithoutFields(summary.after)), seen)
        /\ RowWider(WithoutScope(WithoutFields(summary.before)), summary.before)
        /\ RowWider(WithoutScope(WithoutFields(summary.after)), summary.after)
    BY <1>1, WithoutWider
  <2>2. blank \in WriteFact
    BY <1>4, <2>1 DEF WriteFact
  <2> QED BY <2>1, <2>2 DEF FactsFrom, Wider
<1>7. Wider(summary, summary)
  BY <1>1, WiderSelf
<1>8. Trimmed(summary) \in {summary, bare, blank}
  BY DEF Trimmed
<1> HIDE DEF bare, blank
<1> QED BY <1>5, <1>6, <1>7, <1>8

\* A summary that takes in one more fact stands for that fact as well.
LEMMA StepWider ==
    ASSUME NEW seen, NEW summary \in FactsFrom(seen), NEW fact \in FactsFrom(seen),
           summary.resource = fact.resource
    PROVE  /\ SummaryStep(summary, fact) \in FactsFrom(seen)
           /\ Wider(SummaryStep(summary, fact), summary)
           /\ Wider(SummaryStep(summary, fact), fact)
<1> DEFINE joined == [resource |-> summary.resource,
                      operation |-> IF summary.operation = fact.operation THEN fact.operation ELSE "unknown",
                      before |-> CommonRow(summary.before, fact.before),
                      after |-> CommonRow(summary.after, fact.after),
                      changed |-> CommonChanges(summary.changed, fact.changed)]
<1>1. /\ summary \in WriteFact /\ fact \in WriteFact
      /\ summary.before \in RowState /\ summary.after \in RowState
      /\ fact.before \in RowState /\ fact.after \in RowState
      /\ From(summary.before, seen) /\ From(summary.after, seen)
      /\ From(fact.before, seen) /\ From(fact.after, seen)
  BY DEF FactsFrom, WriteFact
<1>2. /\ summary.resource \in Resource /\ summary.operation \in Operations
      /\ fact.operation \in Operations
      /\ summary.changed \in {Null} \cup SUBSET Column /\ fact.changed \in {Null} \cup SUBSET Column
  BY <1>1 DEF WriteFact
<1>3. /\ joined.before \in RowState /\ From(joined.before, seen)
      /\ RowWider(joined.before, summary.before) /\ RowWider(joined.before, fact.before)
  BY <1>1, CommonRowWider
<1>4. /\ joined.after \in RowState /\ From(joined.after, seen)
      /\ RowWider(joined.after, summary.after) /\ RowWider(joined.after, fact.after)
  BY <1>1, CommonRowWider
<1>5. /\ joined.changed \in {Null} \cup SUBSET Column
      /\ \/ joined.changed = Null
         \/ /\ summary.changed # Null /\ summary.changed \subseteq joined.changed
            /\ fact.changed # Null /\ fact.changed \subseteq joined.changed
  BY <1>2 DEF CommonChanges
<1>6. /\ joined.operation \in Operations
      /\ joined.operation \in {summary.operation, "unknown"}
      /\ joined.operation \in {fact.operation, "unknown"}
  BY <1>2 DEF Operations
<1>7. joined.resource = summary.resource
  OBVIOUS
<1>8. joined \in WriteFact
  BY <1>2, <1>3, <1>4, <1>5, <1>6 DEF WriteFact
<1>9. SummaryStep(summary, fact) = Trimmed(joined)
  BY DEF SummaryStep
<1> HIDE DEF joined
<1>10. joined \in FactsFrom(seen) /\ Wider(joined, summary) /\ Wider(joined, fact)
  BY <1>3, <1>4, <1>5, <1>6, <1>7, <1>8 DEF FactsFrom, Wider
<1>11. Trimmed(joined) \in FactsFrom(seen) /\ Wider(Trimmed(joined), joined)
  BY <1>10, TrimmedWider
<1>12. Trimmed(joined) \in WriteFact
  BY <1>11 DEF FactsFrom
<1> QED BY <1>1, <1>8, <1>9, <1>10, <1>11, <1>12, WiderChain

\* Where a summary starts.
EmptySummary(facts) ==
    [resource |-> facts[1].resource, operation |-> facts[1].operation,
     before |-> Absent, after |-> Absent, changed |-> {}]

OfResource(seen, resource) == {fact \in FactsFrom(seen) : fact.resource = resource}

\* A summary, fact by fact.
LEMMA SummarizeFold ==
    ASSUME NEW seen, NEW resource \in Resource, NEW facts \in Seq(FactsFrom(seen)), facts # <<>>,
           \A k \in DOMAIN facts : facts[k].resource = resource
    PROVE  \E g : /\ g[0] = EmptySummary(facts) /\ g[Len(facts)] = Summarize(facts)
                  /\ \A k \in 0 .. Len(facts) : g[k] \in OfResource(seen, resource)
                  /\ \A k \in 1 .. Len(facts) : g[k] = SummaryStep(g[k - 1], facts[k])
<1> DEFINE n == Len(facts)
           V == OfResource(seen, resource)
           Op(v, k) == SummaryStep(v, facts[k])
           G == [k \in 1 .. n |-> [v \in V |-> Op(v, k)]]
           Solves(h) ==
             h = [t \in SUBSET (1 .. n) |->
                    IF t = {} THEN EmptySummary(facts) ELSE Op(h[t \ {Max(t)}], Max(t))]
<1>1. n \in Nat /\ DOMAIN facts = 1 .. n /\ EmptySummary(facts) \in V
  <2>1. Len(facts) \in Nat \ {0} /\ DOMAIN facts = 1 .. Len(facts) /\ 1 \in DOMAIN facts
    OBVIOUS
  <2>2. facts[1] \in FactsFrom(seen) /\ facts[1].resource = resource
    BY <2>1
  <2>3. facts[1].operation \in Operations
    BY <2>2 DEF FactsFrom, WriteFact
  <2>4. Absent \in RowState /\ From(Absent, seen)
    BY DEF RowState, Absent, From
  <2>5. EmptySummary(facts) \in WriteFact
    BY <2>2, <2>3, <2>4 DEF EmptySummary, WriteFact
  <2>6. EmptySummary(facts) \in OfResource(seen, resource)
    BY <2>2, <2>4, <2>5 DEF EmptySummary, OfResource, FactsFrom
  <2> QED BY <2>1, <2>6
<1>2. ASSUME NEW k \in 1 .. n, NEW v \in V PROVE Op(v, k) \in V
  <2>1. facts[k] \in FactsFrom(seen) /\ facts[k].resource = resource
    BY <1>1
  <2>2. v \in FactsFrom(seen) /\ v.resource = resource
    BY DEF OfResource
  <2>3. SummaryStep(v, facts[k]) \in FactsFrom(seen) /\ Wider(SummaryStep(v, facts[k]), v)
    BY <2>1, <2>2, StepWider
  <2> QED BY <2>2, <2>3 DEF OfResource, Wider
<1>3. G \in [1 .. n -> [V -> V]]
  <2> HIDE DEF V, n, Op
  <2> QED BY <1>2
<1>4. ASSUME NEW t \in SUBSET (1 .. n), t # {}, NEW v \in V PROVE G[Max(t)][v] = Op(v, Max(t))
  <2>1. Max(t) \in 1 .. n
    BY <1>1, <1>4, MaxIn
  <2> HIDE DEF V, n, Op
  <2> QED BY <2>1
<1>5. \E h : Solves(h)
  <2>1. PICK h \in [SUBSET (1 .. n) -> V] : FoldTable(h, EmptySummary(facts), n, G)
    <3> HIDE DEF G, V, n
    <3> QED BY <1>1, <1>3, FoldExists
  <2>2. \A t \in SUBSET (1 .. n) : h[t \ {Max(t)}] \in V
    BY <2>1
  <2>3. Solves(h)
    <3> HIDE DEF G, V, n, Op
    <3> QED BY <1>4, <2>1, <2>2 DEF FoldTable
  <2> QED BY <2>3
<1>6. PICK h : Solves(h) /\ Summarize(facts) = h[1 .. n]
  <2>1. Solves(CHOOSE h : Solves(h))
    BY <1>5
  <2>2. Summarize(facts) = (CHOOSE h : Solves(h))[1 .. n]
    BY <1>1 DEF Summarize, EmptySummary, FoldLeft, MapThenFoldSet
  <2> QED BY <2>1, <2>2
<1>7. Applies(h, EmptySummary(facts), n, G, V)
  <2> HIDE DEF G, V, n, Op
  <2> QED BY <1>4, <1>6 DEF Applies
<1>8. PICK g : FoldSteps(g, EmptySummary(facts), h[1 .. n], n, G, V)
  <2> HIDE DEF G, V, n, Op, Solves
  <2> QED BY <1>1, <1>3, <1>7, FoldWalk
<1>9. \A k \in 1 .. n : g[k] = Op(g[k - 1], k)
  <2>1. \A k \in 1 .. n : k - 1 \in 0 .. n
    BY <1>1
  <2> HIDE DEF V, n, Op
  <2> QED BY <1>8, <2>1 DEF FoldSteps
<1>10. g[0] = EmptySummary(facts) /\ g[n] = Summarize(facts) /\ \A k \in 0 .. n : g[k] \in V
  <2> HIDE DEF V, n, Op, Solves
  <2> QED BY <1>6, <1>8 DEF FoldSteps
<1> HIDE DEF Solves
<1> QED BY <1>9, <1>10

\* A summary stands for each of its facts.
LEMMA SummarizeWider ==
    ASSUME NEW seen, NEW resource \in Resource, NEW facts \in Seq(FactsFrom(seen)), facts # <<>>,
           \A k \in DOMAIN facts : facts[k].resource = resource
    PROVE  /\ Summarize(facts) \in FactsFrom(seen)
           /\ Summarize(facts).resource = resource
           /\ \A k \in DOMAIN facts : Wider(Summarize(facts), facts[k])
<1> DEFINE n == Len(facts)
<1>1. PICK g : /\ g[0] = EmptySummary(facts) /\ g[n] = Summarize(facts)
               /\ \A k \in 0 .. n : g[k] \in OfResource(seen, resource)
               /\ \A k \in 1 .. n : g[k] = SummaryStep(g[k - 1], facts[k])
  BY SummarizeFold
<1>2. n \in Nat /\ DOMAIN facts = 1 .. n
  OBVIOUS
<1> DEFINE T == {k \in 0 .. n : \A i \in 1 .. k : Wider(g[k], facts[i])}
<1>3. 0 \in T
  BY <1>2
<1>4. ASSUME NEW k \in 0 .. n, k < n, k \in T PROVE k + 1 \in T
  <2>1. k + 1 \in 1 .. n /\ (k + 1) - 1 = k /\ k + 1 \in 0 .. n
    BY <1>2, <1>4
  <2>2. g[k + 1] = SummaryStep(g[k], facts[k + 1])
    BY <1>1, <2>1
  <2>3. /\ g[k] \in FactsFrom(seen) /\ g[k].resource = resource
        /\ facts[k + 1] \in FactsFrom(seen) /\ facts[k + 1].resource = resource
    BY <1>1, <1>2, <2>1 DEF OfResource
  <2>4. g[k + 1] \in FactsFrom(seen) /\ Wider(g[k + 1], g[k]) /\ Wider(g[k + 1], facts[k + 1])
    BY <2>2, <2>3, StepWider
  <2>5. ASSUME NEW i \in 1 .. k + 1 PROVE Wider(g[k + 1], facts[i])
    <3>1. CASE i = k + 1
      BY <2>4, <3>1
    <3>2. CASE i # k + 1
      <4>1. i \in 1 .. k /\ i \in DOMAIN facts
        BY <1>2, <2>1, <3>2
      <4>2. Wider(g[k], facts[i])
        BY <1>4, <4>1
      <4>3. facts[i] \in WriteFact /\ g[k] \in WriteFact /\ g[k + 1] \in WriteFact
        BY <2>3, <2>4, <4>1 DEF FactsFrom
      <4> QED BY <2>4, <4>2, <4>3, WiderChain
    <3> QED BY <3>1, <3>2
  <2> QED BY <2>1, <2>5
<1>5. n \in T
  <2> HIDE DEF T, n
  <2>1. \A k \in 0 .. n : k \in T
    BY <1>2, <1>3, <1>4, SegmentInduction
  <2> QED BY <1>2, <2>1
<1>6. Summarize(facts) \in OfResource(seen, resource)
  BY <1>1, <1>2
<1>7. \A i \in 1 .. n : Wider(Summarize(facts), facts[i])
  <2> HIDE DEF n
  <2> QED BY <1>1, <1>5
<1> QED BY <1>2, <1>6, <1>7 DEF OfResource

-----------------------------------------------------------------------------
(* The write set. *)

\* An entry holds facts of its resource, and a summarized one just one.
Entries(seen) ==
    {entry \in [resource : Resource, facts : Seq(FactsFrom(seen)), summarized : BOOLEAN] :
        /\ entry.facts # <<>>
        /\ entry.summarized => Len(entry.facts) = 1
        /\ \A k \in DOMAIN entry.facts : entry.facts[k].resource = entry.resource}

WriteSets(seen) == Seq(Entries(seen))

\* Some fact of the write set stands for this one.
Holds(writes, fact) ==
    \E i \in DOMAIN writes : \E k \in DOMAIN writes[i].facts : Wider(writes[i].facts[k], fact)

Keeps(before, after) == \A fact \in WriteFact : Holds(before, fact) => Holds(after, fact)

LEMMA KeepsChain ==
    ASSUME NEW a, NEW b, NEW c, Keeps(a, b), Keeps(b, c)
    PROVE  Keeps(a, c)
  BY DEF Keeps

\* What the fields of an entry are.
LEMMA EntryFields ==
    ASSUME NEW seen, NEW entry \in Entries(seen)
    PROVE  /\ entry.resource \in Resource /\ entry.summarized \in BOOLEAN
           /\ entry.facts \in Seq(FactsFrom(seen)) /\ entry.facts # <<>>
           /\ entry.summarized => Len(entry.facts) = 1
           /\ \A k \in DOMAIN entry.facts :
                 /\ entry.facts[k] \in FactsFrom(seen) /\ entry.facts[k] \in WriteFact
                 /\ entry.facts[k].resource = entry.resource
<1>1. /\ entry.resource \in Resource /\ entry.summarized \in BOOLEAN
      /\ entry.facts \in Seq(FactsFrom(seen)) /\ entry.facts # <<>>
      /\ entry.summarized => Len(entry.facts) = 1
      /\ \A k \in DOMAIN entry.facts : entry.facts[k].resource = entry.resource
  BY DEF Entries
<1>2. \A k \in DOMAIN entry.facts : entry.facts[k] \in FactsFrom(seen)
  BY <1>1
<1> QED BY <1>1, <1>2 DEF FactsFrom

\* An entry replaced by one that stands for each of its facts.
LEMMA ReplaceKeeps ==
    ASSUME NEW seen, NEW writes \in WriteSets(seen), NEW i \in DOMAIN writes,
           NEW entry \in Entries(seen),
           \A k \in DOMAIN writes[i].facts :
              \E m \in DOMAIN entry.facts : Wider(entry.facts[m], writes[i].facts[k])
    PROVE  /\ [writes EXCEPT ![i] = entry] \in WriteSets(seen)
           /\ Keeps(writes, [writes EXCEPT ![i] = entry])
<1> DEFINE after == [writes EXCEPT ![i] = entry]
<1>1. /\ after \in Seq(Entries(seen)) /\ DOMAIN after = DOMAIN writes
      /\ after[i] = entry /\ \A j \in DOMAIN writes : j # i => after[j] = writes[j]
  BY DEF WriteSets
<1>2. \A j \in DOMAIN writes : writes[j] \in Entries(seen)
  BY DEF WriteSets
<1> HIDE DEF after
<1>3. ASSUME NEW fact \in WriteFact, Holds(writes, fact) PROVE Holds(after, fact)
  <2>0. PICK j \in DOMAIN writes : \E k \in DOMAIN writes[j].facts : Wider(writes[j].facts[k], fact)
    BY <1>3 DEF Holds
  <2>1. PICK k \in DOMAIN writes[j].facts : Wider(writes[j].facts[k], fact)
    BY <2>0
  <2>2. CASE j = i
    <3>1. PICK m \in DOMAIN entry.facts : Wider(entry.facts[m], writes[i].facts[k])
      BY <2>1, <2>2
    <3>2. entry.facts[m] \in WriteFact /\ writes[i].facts[k] \in WriteFact
      BY <1>2, <2>1, <2>2, <3>1, EntryFields
    <3>3. Wider(entry.facts[m], fact)
      BY <2>1, <2>2, <3>1, <3>2, WiderChain
    <3> QED BY <1>1, <3>1, <3>3 DEF Holds
  <2>3. CASE j # i
    BY <1>1, <2>1, <2>3 DEF Holds
  <2> QED BY <2>2, <2>3
<1> QED BY <1>1, <1>3 DEF Keeps, WriteSets, after

\* A compacted entry stands for the facts it had.
LEMMA CompactWider ==
    ASSUME NEW seen, NEW entry \in Entries(seen)
    PROVE  /\ Compact(entry) \in Entries(seen)
           /\ \A k \in DOMAIN entry.facts :
                 \E m \in DOMAIN Compact(entry).facts : Wider(Compact(entry).facts[m], entry.facts[k])
<1>1. /\ entry.resource \in Resource /\ entry.facts \in Seq(FactsFrom(seen)) /\ entry.facts # <<>>
      /\ \A k \in DOMAIN entry.facts : entry.facts[k].resource = entry.resource
  BY EntryFields
<1> DEFINE summary == Summarize(entry.facts)
<1>2. /\ summary \in FactsFrom(seen) /\ summary.resource = entry.resource
      /\ \A k \in DOMAIN entry.facts : Wider(summary, entry.facts[k])
  BY <1>1, SummarizeWider
<1> HIDE DEF summary
<1>3. Compact(entry) = [resource |-> entry.resource, facts |-> <<summary>>, summarized |-> TRUE]
  BY DEF Compact, summary
<1>4. <<summary>> \in Seq(FactsFrom(seen)) /\ <<summary>> # <<>> /\ Len(<<summary>>) = 1
      /\ DOMAIN <<summary>> = {1} /\ <<summary>>[1] = summary
  BY <1>2
<1>5. Compact(entry) \in Entries(seen)
  <2> DEFINE facts == <<summary>>
  <2>1. /\ facts \in Seq(FactsFrom(seen)) /\ facts # <<>> /\ Len(facts) = 1
        /\ \A k \in DOMAIN facts : facts[k].resource = entry.resource
    BY <1>2, <1>4
  <2>2. Compact(entry) = [resource |-> entry.resource, facts |-> facts, summarized |-> TRUE]
    BY <1>3
  <2> HIDE DEF facts
  <2> QED BY <1>1, <2>1, <2>2 DEF Entries
<1>6. 1 \in DOMAIN Compact(entry).facts /\ Compact(entry).facts[1] = summary
  BY <1>3, <1>4
<1> QED BY <1>2, <1>5, <1>6

\* A new fact is held, and what was held still is (add).
LEMMA PushKeeps ==
    ASSUME NEW seen, NEW writes \in WriteSets(seen), NEW fact \in FactsFrom(seen)
    PROVE  /\ Push(writes, fact) \in WriteSets(seen)
           /\ Keeps(writes, Push(writes, fact))
           /\ Holds(Push(writes, fact), fact)
<1>1. fact \in WriteFact /\ fact.resource \in Resource /\ Wider(fact, fact)
  BY WiderSelf DEF FactsFrom, WriteFact
<1>2. \A j \in DOMAIN writes : writes[j] \in Entries(seen)
  BY DEF WriteSets
<1>3. CASE \A i \in DOMAIN writes : writes[i].resource # fact.resource
  <2> DEFINE entry == [resource |-> fact.resource, facts |-> <<fact>>, summarized |-> FALSE]
             after == Append(writes, entry)
  <2>1. Push(writes, fact) = after
    BY <1>3 DEF Push
  <2>2. /\ <<fact>> \in Seq(FactsFrom(seen)) /\ <<fact>> # <<>> /\ DOMAIN <<fact>> = {1}
        /\ <<fact>>[1] = fact
    OBVIOUS
  <2>3. entry \in Entries(seen)
    BY <1>1, <2>2 DEF Entries
  <2>4. entry.facts = <<fact>>
    OBVIOUS
  <2> HIDE DEF entry
  <2>5. /\ after \in Seq(Entries(seen)) /\ Len(writes) + 1 \in DOMAIN after
        /\ after[Len(writes) + 1] = entry
        /\ \A j \in DOMAIN writes : j \in DOMAIN after /\ after[j] = writes[j]
    BY <2>3 DEF WriteSets
  <2> HIDE DEF after
  <2>6. Keeps(writes, after)
    BY <2>5 DEF Keeps, Holds
  <2>7. Holds(after, fact)
    <3>1. 1 \in DOMAIN after[Len(writes) + 1].facts /\ after[Len(writes) + 1].facts[1] = fact
      BY <2>2, <2>4, <2>5
    <3> QED BY <1>1, <2>5, <3>1 DEF Holds
  <2> QED BY <2>1, <2>5, <2>6, <2>7 DEF WriteSets
<1>4. CASE \E i \in DOMAIN writes : writes[i].resource = fact.resource
  <2> DEFINE i == EntryOf(writes, fact.resource)
             facts == Append(writes[i].facts, fact)
             entry == [resource |-> writes[i].resource,
                       facts |-> IF writes[i].summarized THEN <<Summarize(facts)>> ELSE facts,
                       summarized |-> writes[i].summarized]
             after == [writes EXCEPT ![i] = entry]
  <2>1. i \in DOMAIN writes /\ writes[i].resource = fact.resource
    BY <1>4 DEF EntryOf
  <2>2. writes[i] \in Entries(seen)
    BY <1>2, <2>1
  <2>3. /\ writes[i].summarized \in BOOLEAN
        /\ writes[i].facts \in Seq(FactsFrom(seen))
        /\ writes[i].summarized => Len(writes[i].facts) = 1
        /\ \A k \in DOMAIN writes[i].facts :
              /\ writes[i].facts[k] \in WriteFact
              /\ writes[i].facts[k].resource = fact.resource
    BY <2>1, <2>2, EntryFields
  <2>4. Push(writes, fact) = after
    <3>1. writes[i] = [resource |-> writes[i].resource, facts |-> writes[i].facts,
                       summarized |-> writes[i].summarized]
      <4> HIDE DEF i
      <4> QED BY <2>2 DEF Entries
    <3>2. Push(writes, fact) = [writes EXCEPT ![i].facts =
                                  IF writes[i].summarized THEN <<Summarize(facts)>> ELSE facts]
      BY <1>4 DEF Push
    <3>3. [writes[i] EXCEPT !.facts = IF writes[i].summarized THEN <<Summarize(facts)>> ELSE facts] = entry
      <4> HIDE DEF i, facts
      <4> QED BY <3>1
    <3> HIDE DEF i, facts, entry
    <3> QED BY <3>2, <3>3 DEF after
  <2> HIDE DEF i
  <2>5. /\ facts \in Seq(FactsFrom(seen)) /\ facts # <<>>
        /\ DOMAIN facts = 1 .. Len(writes[i].facts) + 1
        /\ facts[Len(writes[i].facts) + 1] = fact
        /\ \A k \in DOMAIN writes[i].facts : k \in DOMAIN facts /\ facts[k] = writes[i].facts[k]
    BY <2>3
  <2>6. ASSUME NEW k \in DOMAIN facts PROVE facts[k].resource = fact.resource
    <3>1. k \in DOMAIN writes[i].facts \/ k = Len(writes[i].facts) + 1
      BY <2>3, <2>5
    <3> HIDE DEF facts
    <3> QED BY <2>3, <2>5, <3>1
  <2> HIDE DEF facts
  <2>7. /\ entry \in Entries(seen)
        /\ \A k \in DOMAIN facts : \E m \in DOMAIN entry.facts : Wider(entry.facts[m], facts[k])
    <3>1. CASE writes[i].summarized
      <4> DEFINE summary == Summarize(facts)
      <4>1. /\ summary \in FactsFrom(seen) /\ summary.resource = fact.resource
            /\ \A k \in DOMAIN facts : Wider(summary, facts[k])
        BY <1>1, <2>5, <2>6, SummarizeWider
      <4> HIDE DEF summary
      <4>2. entry = [resource |-> fact.resource, facts |-> <<summary>>, summarized |-> TRUE]
        BY <2>1, <2>3, <3>1 DEF summary
      <4>3. /\ <<summary>> \in Seq(FactsFrom(seen)) /\ <<summary>> # <<>> /\ Len(<<summary>>) = 1
            /\ DOMAIN <<summary>> = {1} /\ <<summary>>[1] = summary
        BY <4>1
      <4>4. entry \in Entries(seen)
        <5> HIDE DEF entry
        <5> QED BY <1>1, <4>1, <4>2, <4>3 DEF Entries
      <4>5. 1 \in DOMAIN entry.facts /\ entry.facts[1] = summary
        <5> HIDE DEF entry
        <5> QED BY <4>2, <4>3
      <4> HIDE DEF entry
      <4> QED BY <4>1, <4>4, <4>5
    <3>2. CASE ~writes[i].summarized
      <4>1. entry = [resource |-> fact.resource, facts |-> facts, summarized |-> FALSE]
        BY <2>1, <2>3, <3>2
      <4> HIDE DEF entry
      <4>2. entry \in Entries(seen)
        BY <1>1, <2>5, <2>6, <4>1 DEF Entries
      <4>3. \A k \in DOMAIN facts : facts[k] \in WriteFact
        BY <2>5 DEF FactsFrom
      <4>4. entry.facts = facts
        BY <4>1
      <4> QED BY <4>2, <4>3, <4>4, WiderSelf
    <3> QED BY <3>1, <3>2
  <2> HIDE DEF entry
  <2>8. \A k \in DOMAIN writes[i].facts :
           \E m \in DOMAIN entry.facts : Wider(entry.facts[m], writes[i].facts[k])
    BY <2>5, <2>7
  <2>9. after \in WriteSets(seen) /\ Keeps(writes, after)
    BY <2>1, <2>7, <2>8, ReplaceKeeps
  <2>10. Holds(after, fact)
    <3>1. Len(writes[i].facts) + 1 \in DOMAIN facts
      BY <2>3, <2>5
    <3>2. \E m \in DOMAIN entry.facts : Wider(entry.facts[m], fact)
      BY <2>5, <2>7, <3>1
    <3>3. i \in DOMAIN after /\ after[i] = entry
      BY <2>1
    <3> HIDE DEF after
    <3> QED BY <3>2, <3>3 DEF Holds
  <2> QED BY <2>4, <2>9, <2>10
<1> QED BY <1>3, <1>4

\* The resource of the new fact compacted over budget.
LEMMA CompactOwnKeeps ==
    ASSUME NEW seen, NEW writes \in WriteSets(seen), NEW resource,
           \E i \in DOMAIN writes : writes[i].resource = resource
    PROVE  /\ CompactOwn(writes, resource) \in WriteSets(seen)
           /\ Keeps(writes, CompactOwn(writes, resource))
<1> DEFINE i == EntryOf(writes, resource)
<1>1. i \in DOMAIN writes
  BY DEF EntryOf
<1>2. writes[i] \in Entries(seen)
  BY <1>1 DEF WriteSets
<1>3. CompactOwn(writes, resource) \in {writes, [writes EXCEPT ![i] = Compact(writes[i])]}
  BY DEF CompactOwn
<1> HIDE DEF i
<1>4. [writes EXCEPT ![i] = Compact(writes[i])] \in WriteSets(seen)
      /\ Keeps(writes, [writes EXCEPT ![i] = Compact(writes[i])])
  BY <1>1, <1>2, CompactWider, ReplaceKeeps
<1> QED BY <1>3, <1>4 DEF Keeps

\* The largest detailed resource compacted, whichever that is.
LEMMA CompactLargestKeeps ==
    ASSUME NEW seen, NEW writes \in WriteSets(seen)
    PROVE  /\ CompactLargest(writes) \in WriteSets(seen)
           /\ Keeps(writes, CompactLargest(writes))
<1> DEFINE i == CHOOSE largest \in Detailed(writes) :
                   \A j \in Detailed(writes) : FactsSize(writes[largest].facts) >= FactsSize(writes[j].facts)
<1>1. CompactLargest(writes) = [writes EXCEPT ![i] = Compact(writes[i])]
  BY DEF CompactLargest
<1> HIDE DEF i
<1>2. CASE i \in DOMAIN writes
  <2>1. writes[i] \in Entries(seen)
    BY <1>2 DEF WriteSets
  <2> DEFINE entry == Compact(writes[i])
  <2>2. /\ entry \in Entries(seen)
        /\ \A k \in DOMAIN writes[i].facts :
              \E m \in DOMAIN entry.facts : Wider(entry.facts[m], writes[i].facts[k])
    BY <2>1, CompactWider
  <2>3. CompactLargest(writes) = [writes EXCEPT ![i] = entry]
    BY <1>1
  <2> HIDE DEF entry
  <2>4. /\ [writes EXCEPT ![i] = entry] \in WriteSets(seen)
        /\ Keeps(writes, [writes EXCEPT ![i] = entry])
    BY <1>2, <2>2, ReplaceKeeps
  <2> QED BY <2>3, <2>4
<1>3. CASE i \notin DOMAIN writes
  <2>1. CompactLargest(writes) = writes
    BY <1>1, <1>3 DEF WriteSets
  <2> QED BY <2>1 DEF Keeps
<1> QED BY <1>2, <1>3

\* The write sets that keep what this one holds.
Keeping(seen, writes) == {after \in WriteSets(seen) : Keeps(writes, after)}

ReclaimStep(writes) ==
    IF OverBudget(writes) /\ Detailed(writes) # {} THEN CompactLargest(writes) ELSE writes

\* The budget is reclaimed step by step.
LEMMA ReclaimFold ==
    ASSUME NEW seen, NEW writes \in WriteSets(seen)
    PROVE  \E g : /\ g[0] = writes /\ g[Len(writes)] = Reclaim(writes)
                  /\ \A k \in 0 .. Len(writes) : g[k] \in Keeping(seen, writes)
                  /\ \A k \in 1 .. Len(writes) : g[k] = ReclaimStep(g[k - 1])
<1> DEFINE n == Len(writes)
           V == Keeping(seen, writes)
           Op(v, k) == ReclaimStep(v)
           G == [k \in 1 .. n |-> [v \in V |-> Op(v, k)]]
           Solves(h) ==
             h = [t \in SUBSET (1 .. n) |->
                    IF t = {} THEN writes ELSE Op(h[t \ {Max(t)}], Max(t))]
<1>1. n \in Nat /\ DOMAIN [m \in 1 .. Len(writes) |-> m] = 1 .. n /\ writes \in V
  <2>1. Len(writes) \in Nat
    BY DEF WriteSets
  <2>2. writes \in Keeping(seen, writes)
    BY DEF Keeping, Keeps
  <2> QED BY <2>1, <2>2
<1>2. ASSUME NEW k \in 1 .. n, NEW v \in V PROVE Op(v, k) \in V
  <2>1. v \in WriteSets(seen) /\ Keeps(writes, v)
    BY DEF Keeping
  <2>2. CompactLargest(v) \in WriteSets(seen) /\ Keeps(v, CompactLargest(v))
    BY <2>1, CompactLargestKeeps
  <2>3. Keeps(writes, CompactLargest(v))
    BY <2>1, <2>2, KeepsChain
  <2> QED BY <2>1, <2>2, <2>3 DEF Keeping, ReclaimStep
<1>3. G \in [1 .. n -> [V -> V]]
  <2> HIDE DEF V, n, Op
  <2> QED BY <1>2
<1>4. ASSUME NEW t \in SUBSET (1 .. n), t # {}, NEW v \in V PROVE G[Max(t)][v] = Op(v, Max(t))
  <2>1. Max(t) \in 1 .. n
    BY <1>1, <1>4, MaxIn
  <2> HIDE DEF V, n, Op
  <2> QED BY <2>1
<1>5. \E h : Solves(h)
  <2>1. PICK h \in [SUBSET (1 .. n) -> V] : FoldTable(h, writes, n, G)
    <3> HIDE DEF G, V, n
    <3> QED BY <1>1, <1>3, FoldExists
  <2>2. \A t \in SUBSET (1 .. n) : h[t \ {Max(t)}] \in V
    BY <2>1
  <2>3. Solves(h)
    <3> HIDE DEF G, V, n, Op
    <3> QED BY <1>4, <2>1, <2>2 DEF FoldTable
  <2> QED BY <2>3
<1>6. PICK h : Solves(h) /\ Reclaim(writes) = h[1 .. n]
  <2>1. Solves(CHOOSE h : Solves(h))
    BY <1>5
  <2>2. Reclaim(writes) = (CHOOSE h : Solves(h))[1 .. n]
    BY <1>1 DEF Reclaim, ReclaimStep, FoldLeft, MapThenFoldSet
  <2> QED BY <2>1, <2>2
<1>7. Applies(h, writes, n, G, V)
  <2> HIDE DEF G, V, n, Op
  <2> QED BY <1>4, <1>6 DEF Applies
<1>8. PICK g : FoldSteps(g, writes, h[1 .. n], n, G, V)
  <2> HIDE DEF G, V, n, Op, Solves
  <2> QED BY <1>1, <1>3, <1>7, FoldWalk
<1>9. \A k \in 1 .. n : g[k] = Op(g[k - 1], k)
  <2>1. \A k \in 1 .. n : k - 1 \in 0 .. n
    BY <1>1
  <2> HIDE DEF V, n, Op
  <2> QED BY <1>8, <2>1 DEF FoldSteps
<1>10. g[0] = writes /\ g[n] = Reclaim(writes) /\ \A k \in 0 .. n : g[k] \in V
  <2> HIDE DEF V, n, Op, Solves
  <2> QED BY <1>6, <1>8 DEF FoldSteps
<1> HIDE DEF Solves
<1> QED BY <1>9, <1>10

\* A fact added: it is held, and so is what was held.
LEMMA AddFactKeeps ==
    ASSUME NEW seen, NEW writes \in WriteSets(seen), NEW fact \in FactsFrom(seen)
    PROVE  /\ AddFact(writes, fact) \in WriteSets(seen)
           /\ Keeps(writes, AddFact(writes, fact))
           /\ Holds(AddFact(writes, fact), fact)
<1> DEFINE pushed == Push(writes, fact)
           own == CompactOwn(pushed, fact.resource)
<1>1. pushed \in WriteSets(seen) /\ Keeps(writes, pushed) /\ Holds(pushed, fact)
  BY PushKeeps
<1>2. \E i \in DOMAIN pushed : pushed[i].resource = fact.resource
  <2>0. PICK i \in DOMAIN pushed : \E k \in DOMAIN pushed[i].facts : Wider(pushed[i].facts[k], fact)
    BY <1>1 DEF Holds
  <2>1. PICK k \in DOMAIN pushed[i].facts : Wider(pushed[i].facts[k], fact)
    BY <2>0
  <2>2. pushed[i] \in Entries(seen)
    BY <1>1, <2>1 DEF WriteSets
  <2>3. pushed[i].facts[k].resource = pushed[i].resource
    BY <2>1, <2>2, EntryFields
  <2> QED BY <2>1, <2>3 DEF Wider
<1> HIDE DEF pushed
<1>3. own \in WriteSets(seen) /\ Keeps(pushed, own)
  BY <1>1, <1>2, CompactOwnKeeps
<1>4. AddFact(writes, fact) = Reclaim(own)
  BY DEF AddFact, pushed
<1> HIDE DEF own
<1>5. Reclaim(own) \in Keeping(seen, own)
  <2>1. PICK g : /\ g[Len(own)] = Reclaim(own)
                 /\ \A k \in 0 .. Len(own) : g[k] \in Keeping(seen, own)
    BY <1>3, ReclaimFold
  <2>2. Len(own) \in 0 .. Len(own)
    BY <1>3 DEF WriteSets
  <2> QED BY <2>1, <2>2
<1>6. Reclaim(own) \in WriteSets(seen) /\ Keeps(own, Reclaim(own))
  BY <1>5 DEF Keeping
<1>7. Keeps(writes, Reclaim(own)) /\ Keeps(pushed, Reclaim(own))
  BY <1>1, <1>3, <1>6, KeepsChain
<1>8. fact \in WriteFact
  BY DEF FactsFrom
<1> QED BY <1>1, <1>4, <1>6, <1>7, <1>8 DEF Keeps

\* Facts are added one by one.
LEMMA AddFold ==
    ASSUME NEW seen, NEW writes \in WriteSets(seen), NEW facts \in Seq(FactsFrom(seen))
    PROVE  \E g : /\ g[0] = writes /\ g[Len(facts)] = Add(writes, facts)
                  /\ \A k \in 0 .. Len(facts) : g[k] \in Keeping(seen, writes)
                  /\ \A k \in 1 .. Len(facts) : g[k] = AddFact(g[k - 1], facts[k])
<1> DEFINE n == Len(facts)
           V == Keeping(seen, writes)
           Op(v, k) == AddFact(v, facts[k])
           G == [k \in 1 .. n |-> [v \in V |-> Op(v, k)]]
           Solves(h) ==
             h = [t \in SUBSET (1 .. n) |->
                    IF t = {} THEN writes ELSE Op(h[t \ {Max(t)}], Max(t))]
<1>1. n \in Nat /\ DOMAIN facts = 1 .. n /\ writes \in V
  <2>1. writes \in Keeping(seen, writes)
    BY DEF Keeping, Keeps
  <2> QED BY <2>1
<1>2. ASSUME NEW k \in 1 .. n, NEW v \in V PROVE Op(v, k) \in V
  <2>1. v \in WriteSets(seen) /\ Keeps(writes, v) /\ facts[k] \in FactsFrom(seen)
    BY <1>1 DEF Keeping
  <2>2. AddFact(v, facts[k]) \in WriteSets(seen) /\ Keeps(v, AddFact(v, facts[k]))
    BY <2>1, AddFactKeeps
  <2>3. Keeps(writes, AddFact(v, facts[k]))
    BY <2>1, <2>2, KeepsChain
  <2> QED BY <2>2, <2>3 DEF Keeping
<1>3. G \in [1 .. n -> [V -> V]]
  <2> HIDE DEF V, n, Op
  <2> QED BY <1>2
<1>4. ASSUME NEW t \in SUBSET (1 .. n), t # {}, NEW v \in V PROVE G[Max(t)][v] = Op(v, Max(t))
  <2>1. Max(t) \in 1 .. n
    BY <1>1, <1>4, MaxIn
  <2> HIDE DEF V, n, Op
  <2> QED BY <2>1
<1>5. \E h : Solves(h)
  <2>1. PICK h \in [SUBSET (1 .. n) -> V] : FoldTable(h, writes, n, G)
    <3> HIDE DEF G, V, n
    <3> QED BY <1>1, <1>3, FoldExists
  <2>2. \A t \in SUBSET (1 .. n) : h[t \ {Max(t)}] \in V
    BY <2>1
  <2>3. Solves(h)
    <3> HIDE DEF G, V, n, Op
    <3> QED BY <1>4, <2>1, <2>2 DEF FoldTable
  <2> QED BY <2>3
<1>6. PICK h : Solves(h) /\ Add(writes, facts) = h[1 .. n]
  <2>1. Solves(CHOOSE h : Solves(h))
    BY <1>5
  <2>2. Add(writes, facts) = (CHOOSE h : Solves(h))[1 .. n]
    BY <1>1 DEF Add, FoldLeft, MapThenFoldSet
  <2> QED BY <2>1, <2>2
<1>7. Applies(h, writes, n, G, V)
  <2> HIDE DEF G, V, n, Op
  <2> QED BY <1>4, <1>6 DEF Applies
<1>8. PICK g : FoldSteps(g, writes, h[1 .. n], n, G, V)
  <2> HIDE DEF G, V, n, Op, Solves
  <2> QED BY <1>1, <1>3, <1>7, FoldWalk
<1>9. \A k \in 1 .. n : g[k] = Op(g[k - 1], k)
  <2>1. \A k \in 1 .. n : k - 1 \in 0 .. n
    BY <1>1
  <2> HIDE DEF V, n, Op
  <2> QED BY <1>8, <2>1 DEF FoldSteps
<1>10. g[0] = writes /\ g[n] = Add(writes, facts) /\ \A k \in 0 .. n : g[k] \in V
  <2> HIDE DEF V, n, Op, Solves
  <2> QED BY <1>6, <1>8 DEF FoldSteps
<1> HIDE DEF Solves
<1> QED BY <1>9, <1>10

\* All the facts added are held, and so is what was held.
LEMMA AddKeeps ==
    ASSUME NEW seen, NEW writes \in WriteSets(seen), NEW facts \in Seq(FactsFrom(seen))
    PROVE  /\ Add(writes, facts) \in WriteSets(seen)
           /\ Keeps(writes, Add(writes, facts))
           /\ \A k \in DOMAIN facts : Holds(Add(writes, facts), facts[k])
<1> DEFINE n == Len(facts)
<1>1. PICK g : /\ g[0] = writes /\ g[n] = Add(writes, facts)
               /\ \A k \in 0 .. n : g[k] \in Keeping(seen, writes)
               /\ \A k \in 1 .. n : g[k] = AddFact(g[k - 1], facts[k])
  BY AddFold
<1>2. n \in Nat /\ DOMAIN facts = 1 .. n
  OBVIOUS
<1> DEFINE T == {k \in 0 .. n : \A i \in 1 .. k : Holds(g[k], facts[i])}
<1>3. 0 \in T
  BY <1>2
<1>4. ASSUME NEW k \in 0 .. n, k < n, k \in T PROVE k + 1 \in T
  <2>1. k + 1 \in 1 .. n /\ (k + 1) - 1 = k /\ k + 1 \in 0 .. n
    BY <1>2, <1>4
  <2>2. g[k + 1] = AddFact(g[k], facts[k + 1])
    BY <1>1, <2>1
  <2>3. g[k] \in WriteSets(seen) /\ facts[k + 1] \in FactsFrom(seen)
    BY <1>1, <1>2, <2>1 DEF Keeping
  <2>4. Keeps(g[k], g[k + 1]) /\ Holds(g[k + 1], facts[k + 1])
    BY <2>2, <2>3, AddFactKeeps
  <2>5. ASSUME NEW i \in 1 .. k + 1 PROVE Holds(g[k + 1], facts[i])
    <3>1. CASE i = k + 1
      BY <2>4, <3>1
    <3>2. CASE i # k + 1
      <4>1. i \in 1 .. k /\ i \in DOMAIN facts
        BY <1>2, <2>1, <3>2
      <4>2. Holds(g[k], facts[i])
        BY <1>4, <4>1
      <4>3. facts[i] \in WriteFact
        BY <4>1 DEF FactsFrom
      <4> QED BY <2>4, <4>2, <4>3 DEF Keeps
    <3> QED BY <3>1, <3>2
  <2> QED BY <2>1, <2>5
<1>5. n \in T
  <2> HIDE DEF T, n
  <2>1. \A k \in 0 .. n : k \in T
    BY <1>2, <1>3, <1>4, SegmentInduction
  <2> QED BY <1>2, <2>1
<1>6. Add(writes, facts) \in Keeping(seen, writes)
  BY <1>1, <1>2
<1>7. \A i \in 1 .. n : Holds(Add(writes, facts), facts[i])
  <2> HIDE DEF n
  <2> QED BY <1>1, <1>5
<1> QED BY <1>2, <1>6, <1>7 DEF Keeping

\* A snapshot has the facts of every entry.
LEMMA SnapshotFacts ==
    ASSUME NEW seen, NEW writes \in WriteSets(seen)
    PROVE  /\ Snapshot(writes) \in Seq(FactsFrom(seen))
           /\ \A fact \in WriteFact : Holds(writes, fact) =>
                 \E m \in DOMAIN Snapshot(writes) : Wider(Snapshot(writes)[m], fact)
<1> DEFINE seqs == [i \in DOMAIN writes |-> writes[i].facts]
<1>1. \A i \in DOMAIN writes : writes[i].facts \in Seq(FactsFrom(seen))
  BY EntryFields DEF WriteSets
<1>2. seqs \in Seq(Seq(FactsFrom(seen)))
  <2>1. DOMAIN writes = 1 .. Len(writes) /\ Len(writes) \in Nat
    BY DEF WriteSets
  <2>2. \A i \in 1 .. Len(writes) : writes[i].facts \in Seq(FactsFrom(seen))
    BY <1>1, <2>1
  <2> QED BY <2>1, <2>2
<1>3. /\ FlattenSeq(seqs) \in Seq(FactsFrom(seen))
      /\ \A i \in DOMAIN seqs : \A k \in DOMAIN seqs[i] :
            \E m \in DOMAIN FlattenSeq(seqs) : FlattenSeq(seqs)[m] = seqs[i][k]
  <2> HIDE DEF seqs
  <2> QED BY <1>2, Flattened
<1>4. Snapshot(writes) = FlattenSeq(seqs)
  BY DEF Snapshot
<1>5. DOMAIN seqs = DOMAIN writes /\ \A i \in DOMAIN writes : seqs[i] = writes[i].facts
  OBVIOUS
<1> HIDE DEF seqs
<1>6. ASSUME NEW fact \in WriteFact, Holds(writes, fact)
      PROVE  \E m \in DOMAIN FlattenSeq(seqs) : Wider(FlattenSeq(seqs)[m], fact)
  <2>0. PICK i \in DOMAIN writes : \E k \in DOMAIN writes[i].facts : Wider(writes[i].facts[k], fact)
    BY <1>6 DEF Holds
  <2>1. PICK k \in DOMAIN writes[i].facts : Wider(writes[i].facts[k], fact)
    BY <2>0
  <2>2. PICK m \in DOMAIN FlattenSeq(seqs) : FlattenSeq(seqs)[m] = writes[i].facts[k]
    BY <1>3, <1>5, <2>1
  <2> QED BY <2>1, <2>2
<1> QED BY <1>3, <1>4, <1>6

-----------------------------------------------------------------------------
(* Coverage of a fact by a wider one. *)

\* A row that may belong to an answer still may as part of a wider fact.
LEMMA WiderRowAffects ==
    ASSUME NEW wide \in WriteFact, NEW fact \in WriteFact, Wider(wide, fact),
           NEW to \in RowState, NEW row \in RowState, RowWider(to, row),
           NEW read, NEW input, NEW scope, RowMayAffect(fact, row, read, input, scope)
    PROVE  RowMayAffect(wide, to, read, input, scope)
<1>1. to.kind # "absent" /\ row.kind # "absent"
  BY Kinds DEF RowMayAffect, RowWider
<1>2. to.kind = "known" => /\ row.kind = "known" /\ to.scope = row.scope
                           /\ to.fields \subseteq row.fields /\ to.equality \subseteq row.equality
  BY <1>1 DEF RowWider
<1>3. wide.operation = "update" /\ wide.changed # Null =>
         fact.operation = "update" /\ fact.changed # Null /\ fact.changed \subseteq wide.changed
  BY DEF Wider
<1>4. ChangesRead(wide, read)
  BY <1>3 DEF RowMayAffect, ChangesRead
<1>5. MayBelong(to, read, input, scope)
  BY <1>2 DEF RowMayAffect, MayBelong
<1> QED BY <1>1, <1>4, <1>5 DEF RowMayAffect

\* What the facts of a write set may affect, any facts wider than them may.
LEMMA WiderAffects ==
    ASSUME NEW facts \in Seq(WriteFact), NEW wider \in Seq(WriteFact),
           \A i \in DOMAIN facts : \E m \in DOMAIN wider : Wider(wider[m], facts[i]),
           NEW endpoint, NEW input, NEW scope, MayAffect(facts, endpoint, input, scope)
    PROVE  MayAffect(wider, endpoint, input, scope)
<1>1. PICK i \in DOMAIN facts : \E read \in ToSet(ReadsOf(facts[i].resource)) :
         /\ read.endpoint = endpoint
         /\ \E row \in {facts[i].before, facts[i].after} :
               RowMayAffect(facts[i], row, read, input, scope)
  BY DEF MayAffect
<1>2. PICK read \in ToSet(ReadsOf(facts[i].resource)) :
         /\ read.endpoint = endpoint
         /\ \E row \in {facts[i].before, facts[i].after} :
               RowMayAffect(facts[i], row, read, input, scope)
  BY <1>1
<1>3. PICK m \in DOMAIN wider : Wider(wider[m], facts[i])
  OBVIOUS
<1> DEFINE f == facts[i]
           w == wider[m]
<1>4. f \in WriteFact /\ w \in WriteFact /\ Wider(w, f)
  BY <1>3
<1> HIDE DEF f, w
<1>5. /\ f.before \in RowState /\ f.after \in RowState
      /\ w.before \in RowState /\ w.after \in RowState
  BY <1>4 DEF WriteFact
<1>6. w.resource = f.resource /\ RowWider(w.before, f.before) /\ RowWider(w.after, f.after)
  BY <1>4 DEF Wider
<1>7. \E row \in {f.before, f.after} : RowMayAffect(f, row, read, input, scope)
  BY <1>2 DEF f
<1>8. \E row \in {w.before, w.after} : RowMayAffect(w, row, read, input, scope)
  <2>1. CASE RowMayAffect(f, f.before, read, input, scope)
    BY <1>4, <1>5, <1>6, <2>1, WiderRowAffects
  <2>2. CASE RowMayAffect(f, f.after, read, input, scope)
    BY <1>4, <1>5, <1>6, <2>2, WiderRowAffects
  <2> QED BY <1>7, <2>1, <2>2
<1>9. read \in ToSet(ReadsOf(wider[m].resource))
  BY <1>6 DEF f, w
<1>10. \E row \in {wider[m].before, wider[m].after} : RowMayAffect(wider[m], row, read, input, scope)
  BY <1>8 DEF w
<1> QED BY <1>2, <1>9, <1>10 DEF MayAffect

-----------------------------------------------------------------------------
(* The alternatives of a target. *)

Pairs == InputName \X Scalar

\* One alternative admits an input.
Admits(input, alternative) ==
    \A pair \in alternative :
        Has(input, pair[1]) => ScalarMayEqual(ValueOf(input, pair[1]), pair[2])

LEMMA MatchesAdmits ==
    ASSUME NEW input, NEW alternatives
    PROVE  Matches(input, alternatives) <=> \E a \in alternatives : Admits(input, a)
  BY DEF Matches, Admits

LEMMA AdmitsFewer ==
    ASSUME NEW input, NEW narrow, NEW broad \in SUBSET narrow, Admits(input, narrow)
    PROVE  Admits(input, broad)
  BY DEF Admits

LEMMA MatchesAll == ASSUME NEW input PROVE Matches(input, All)
  BY DEF Matches, All

\* Covering, dropping and widening alternatives loses no input.
LEMMA AddAlternativeKeeps ==
    ASSUME NEW alternatives, NEW alternative, NEW input,
           Matches(input, alternatives) \/ Admits(input, alternative)
    PROVE  Matches(input, AddAlternative(alternatives, alternative))
<1> DEFINE extended == Extended(alternatives, alternative)
<1>1. PICK a \in alternatives \cup {alternative} : Admits(input, a)
  BY MatchesAdmits
<1>2. CASE Covered(alternatives, alternative)
  <2>1. PICK b \in alternatives : b \subseteq alternative
    BY <1>2 DEF Covered, Subsumes
  <2>2. AddAlternative(alternatives, alternative) = alternatives
    BY <1>2 DEF AddAlternative
  <2>3. Admits(input, alternative) => Admits(input, b)
    BY <2>1, AdmitsFewer
  <2> QED BY <1>1, <2>1, <2>2, <2>3, MatchesAdmits
<1>3. PICK b \in extended : b \subseteq a
  BY DEF Extended, Subsumes
<1>4. Admits(input, b)
  BY <1>1, <1>3, AdmitsFewer
<1>5. CASE ~Covered(alternatives, alternative) /\ Overflows(alternatives, alternative)
  <2>1. AddAlternative(alternatives, alternative) = {CommonConstraints(extended)}
    BY <1>5 DEF AddAlternative
  <2>2. CommonConstraints(extended) \subseteq b
    BY <1>3 DEF CommonConstraints
  <2>3. Admits(input, CommonConstraints(extended))
    BY <1>4, <2>2, AdmitsFewer
  <2> QED BY <2>1, <2>3, MatchesAdmits
<1>6. CASE ~Covered(alternatives, alternative) /\ ~Overflows(alternatives, alternative)
  <2>1. AddAlternative(alternatives, alternative) = extended
    BY <1>6 DEF AddAlternative
  <2> QED BY <1>3, <1>4, <2>1, MatchesAdmits
<1> QED BY <1>2, <1>5, <1>6

\* Nor does it make up a pair.
LEMMA AddAlternativePairs ==
    ASSUME NEW P, NEW alternatives \in SUBSET SUBSET P, NEW alternative \in SUBSET P
    PROVE  AddAlternative(alternatives, alternative) \in SUBSET SUBSET P
<1>1. Extended(alternatives, alternative) \in SUBSET SUBSET P
  BY DEF Extended
<1>2. CommonConstraints(Extended(alternatives, alternative)) \in SUBSET P
  BY <1>1 DEF CommonConstraints
<1> QED BY <1>1, <1>2 DEF AddAlternative

-----------------------------------------------------------------------------
(* One read against one row. *)

Statuses == {"verified", "conservative", "unavailable"}
Codes == STRING \cup {"PRECISION_REDUCED"}
Assessments == [Endpoint -> [status : Statuses, codes : SUBSET Codes]]

\* Pairs whose value was seen in a row of the scope.
SeenPairs(seen, scope) ==
    {pair \in Pairs : \E r \in seen : /\ r.kind = "known" /\ r.scope = scope
                                      /\ \E field \in r.fields : field[2] = pair[2]}

LEMMA BroadenedRead ==
    ASSUME NEW declared \in ReadDependency, NEW assessment
    PROVE  /\ Broadened(declared, assessment) \in ReadDependency
           /\ Broadened(declared, assessment).endpoint = declared.endpoint
           /\ Broadened(declared, assessment).resource = declared.resource
           /\ Broadened(declared, assessment).filters \subseteq declared.filters
           /\ Broadened(declared, assessment).bindings \subseteq declared.bindings
           /\ assessment.status = "conservative" =>
                 /\ Broadened(declared, assessment).columns = Star
                 /\ Broadened(declared, assessment).filters = {}
                 /\ Broadened(declared, assessment).bindings = {}
           /\ assessment.status # "conservative" => Broadened(declared, assessment) = declared
  BY DEF Broadened, ReadDependency

\* A bound pair is an input with a value of the row's fields.
LEMMA BoundPairs ==
    ASSUME NEW row \in RowState, NEW read \in ReadDependency
    PROVE  /\ Bound(row, read) \in SUBSET Pairs
           /\ \A pair \in Bound(row, read) :
                 /\ row.kind = "known"
                 /\ \E b \in read.bindings : \E field \in row.fields :
                       b[2] = pair[1] /\ field[1] = b[1] /\ field[2] = pair[2]
<1>1. ASSUME NEW pair \in Bound(row, read)
      PROVE  /\ pair \in Pairs /\ row.kind = "known"
             /\ \E b \in read.bindings : \E field \in row.fields :
                   b[2] = pair[1] /\ field[1] = b[1] /\ field[2] = pair[2]
  <2>1. row.kind = "known"
    BY <1>1 DEF Bound
  <2>2. PICK b \in read.bindings : Has(row.fields, b[1]) /\ pair = <<b[2], ValueOf(row.fields, b[1])>>
    BY <1>1, <2>1 DEF Bound
  <2>3. PICK field \in row.fields : field[1] = b[1] /\ field[2] = ValueOf(row.fields, b[1])
    <3> DEFINE field == CHOOSE field \in row.fields : field[1] = b[1]
    <3>1. field \in row.fields /\ field[1] = b[1]
      BY <2>2 DEF Has
    <3>2. field[2] = ValueOf(row.fields, b[1])
      BY DEF ValueOf
    <3> HIDE DEF field
    <3> QED BY <3>1, <3>2
  <2>4. b \in Column \X InputName
    BY DEF ReadDependency
  <2>5. field \in Column \X Scalar
    BY <2>1, <2>3, Kinds
  <2>6. b[2] \in InputName /\ field[2] \in Scalar
    BY <2>4, <2>5
  <2>7. pair = <<b[2], field[2]>>
    BY <2>2, <2>3
  <2>8. pair \in Pairs /\ pair[1] = b[2] /\ pair[2] = field[2]
    BY <2>6, <2>7 DEF Pairs
  <2> QED BY <2>1, <2>3, <2>8
<1> QED BY <1>1

LEMMA AlternativePairs ==
    ASSUME NEW row \in RowState, NEW read \in ReadDependency
    PROVE  /\ Alternative(row, read) \in SUBSET Pairs
           /\ Alternative(row, read) \subseteq Bound(row, read)
  BY BoundPairs DEF Alternative

\* The alternative of a row that may belong to the answer admits its input.
LEMMA AffectedAdmits ==
    ASSUME NEW fact, NEW row \in RowState, NEW declared \in ReadDependency, NEW assessment,
           NEW input, NEW scope, RowMayAffect(fact, row, declared, input, scope)
    PROVE  Admits(input, Alternative(row, Broadened(declared, assessment)))
<1> DEFINE read == Broadened(declared, assessment)
<1>1. read \in ReadDependency /\ read.bindings \subseteq declared.bindings
  BY BroadenedRead
<1> HIDE DEF read
<1>2. ASSUME NEW pair \in Bound(row, read), Has(input, pair[1])
      PROVE  ScalarMayEqual(ValueOf(input, pair[1]), pair[2])
  <2>1. row.kind = "known"
    BY <1>1, BoundPairs
  <2>2. PICK b \in read.bindings : \E field \in row.fields :
           b[2] = pair[1] /\ field[1] = b[1] /\ field[2] = pair[2]
    BY <1>1, BoundPairs
  <2>3. PICK field \in row.fields : b[2] = pair[1] /\ field[1] = b[1] /\ field[2] = pair[2]
    BY <2>2
  <2>4. PICK arg \in input : arg[1] = pair[1] /\ arg[2] = ValueOf(input, pair[1])
    <3> DEFINE arg == CHOOSE arg \in input : arg[1] = pair[1]
    <3>1. arg \in input /\ arg[1] = pair[1]
      BY <1>2 DEF Has
    <3>2. arg[2] = ValueOf(input, pair[1])
      BY DEF ValueOf
    <3> HIDE DEF arg
    <3> QED BY <3>1, <3>2
  <2>5. b \in declared.bindings
    BY <1>1
  <2>6. ScalarMayEqual(arg[2], field[2])
    BY <2>1, <2>3, <2>4, <2>5 DEF RowMayAffect, MayBelong
  <2> QED BY <2>3, <2>4, <2>6
<1>3. Admits(input, Bound(row, read))
  BY <1>2 DEF Admits
<1>4. Alternative(row, read) \in SUBSET Bound(row, read)
  BY <1>1, AlternativePairs
<1>5. Admits(input, Alternative(row, read))
  BY <1>3, <1>4, AdmitsFewer
<1> QED BY <1>5 DEF read

\* Such a row is excluded on no ground (calculate).
LEMMA AffectedIncluded ==
    ASSUME NEW fact, NEW row \in RowState, NEW declared \in ReadDependency,
           declared.resource = fact.resource, NEW assessment,
           NEW input, NEW scope, RowMayAffect(fact, row, declared, input, scope)
    PROVE  LET read == Broadened(declared, assessment)
           IN /\ ~ScopeExcluded(row, read, scope, assessment)
              /\ ~ColumnsUnchanged(fact, read)
              /\ ~FilterExcluded(row, read)
<1> DEFINE read == Broadened(declared, assessment)
<1>1. /\ read.resource = declared.resource
      /\ read.filters \subseteq declared.filters
      /\ assessment.status = "conservative" => read.columns = Star /\ read.filters = {}
      /\ assessment.status # "conservative" => read = declared
  BY BroadenedRead
<1> HIDE DEF read
<1>2. ~ScopeExcluded(row, read, scope, assessment)
  BY <1>1 DEF ScopeExcluded, RowMayAffect, MayBelong
<1>3. ~ColumnsUnchanged(fact, read)
  <2> SUFFICES ASSUME fact.operation = "update", fact.changed # Null,
                      ScopeColumn[read.resource] \notin fact.changed
               PROVE  ~(IF read.columns = Star THEN fact.changed = {}
                        ELSE fact.changed \cap (read.columns \cup {f[1] : f \in read.filters}) = {})
    BY DEF ColumnsUnchanged
  <2>1. PICK c \in fact.changed :
           \/ declared.columns = Star
           \/ c \in declared.columns
           \/ c = ScopeColumn[fact.resource]
           \/ \E f \in declared.filters : f[1] = c
    BY DEF RowMayAffect, ChangesRead, ColumnsRead
  <2>2. CASE read.columns = Star
    BY <2>1, <2>2
  <2>3. CASE read.columns # Star
    <3>1. read = declared
      BY <1>1, <2>3
    <3> QED BY <1>1, <2>1, <2>3, <3>1
  <2> QED BY <2>2, <2>3
<1>4. ~FilterExcluded(row, read)
  <2> SUFFICES ASSUME row.kind = "known", NEW f \in read.filters, Has(row.equality, f[1])
               PROVE  FilterMayEqual(ValueOf(row.equality, f[1]), f[2])
    BY DEF FilterExcluded
  <2>1. PICK pair \in row.equality : pair[1] = f[1] /\ pair[2] = ValueOf(row.equality, f[1])
    <3> DEFINE pair == CHOOSE pair \in row.equality : pair[1] = f[1]
    <3>1. pair \in row.equality /\ pair[1] = f[1]
      BY DEF Has
    <3>2. pair[2] = ValueOf(row.equality, f[1])
      BY DEF ValueOf
    <3> HIDE DEF pair
    <3> QED BY <3>1, <3>2
  <2>2. f \in declared.filters
    BY <1>1
  <2>3. FilterMayEqual(pair[2], f[2])
    BY <2>1, <2>2 DEF RowMayAffect, MayBelong
  <2> QED BY <2>1, <2>3
<1> QED BY <1>2, <1>3, <1>4 DEF read

-----------------------------------------------------------------------------
(* The accumulation of a calculation. *)

\* The accumulators whose caller targets name values seen in the scope only.
Accs(seen, scope) ==
    {acc \in [targets : [Endpoint \X Scopes -> SUBSET SUBSET Pairs], reduced : SUBSET Endpoint] :
        \A e \in Endpoint : acc.targets[<<e, "caller">>] \in SUBSET SUBSET SeenPairs(seen, scope)}

TargetsKept(before, after) ==
    \A target \in Endpoint \X Scopes : \A input :
        Matches(input, before[target]) => Matches(input, after[target])

\* The accumulators that admit what acc admits.
Admitting(seen, scope, acc) ==
    {after \in Accs(seen, scope) : TargetsKept(acc.targets, after.targets)}

LEMMA AdmittingSelf ==
    ASSUME NEW seen, NEW scope, NEW acc \in Accs(seen, scope)
    PROVE  acc \in Admitting(seen, scope, acc)
  BY DEF Admitting, TargetsKept

LEMMA AdmittingChain ==
    ASSUME NEW seen, NEW scope, NEW acc, NEW next \in Admitting(seen, scope, acc),
           NEW last \in Admitting(seen, scope, next)
    PROVE  last \in Admitting(seen, scope, acc)
  BY DEF Admitting, TargetsKept

\* Some target of the endpoint admits the input.
Matched(acc, endpoint, input) ==
    \E s \in Scopes : Matches(input, acc.targets[<<endpoint, s>>])

LEMMA MatchedKept ==
    ASSUME NEW seen, NEW scope, NEW acc, NEW after \in Admitting(seen, scope, acc),
           NEW endpoint \in Endpoint, NEW input, Matched(acc, endpoint, input)
    PROVE  Matched(after, endpoint, input)
<1>1. PICK s \in Scopes : Matches(input, acc.targets[<<endpoint, s>>])
  BY DEF Matched
<1>2. <<endpoint, s>> \in Endpoint \X Scopes
  OBVIOUS
<1>3. Matches(input, after.targets[<<endpoint, s>>])
  BY <1>1, <1>2 DEF Admitting, TargetsKept
<1> QED BY <1>3 DEF Matched

\* The alternative of a row the scope does not exclude has values of the scope.
LEMMA AlternativeSeen ==
    ASSUME NEW seen, NEW scope, NEW row \in RowState, From(row, seen),
           NEW declared \in ReadDependency, NEW assessment,
           ScopeColumn[declared.resource] # Null,
           ~ScopeExcluded(row, Broadened(declared, assessment), scope, assessment)
    PROVE  Alternative(row, Broadened(declared, assessment)) \in SUBSET SeenPairs(seen, scope)
<1> DEFINE read == Broadened(declared, assessment)
<1>1. /\ read \in ReadDependency /\ read.resource = declared.resource
      /\ assessment.status = "conservative" => read.bindings = {}
  BY BroadenedRead
<1>2. ~ScopeExcluded(row, read, scope, assessment)
  OBVIOUS
<1> HIDE DEF read
<1>3. Alternative(row, read) \subseteq Bound(row, read) /\ Bound(row, read) \in SUBSET Pairs
  BY <1>1, AlternativePairs, BoundPairs
<1>4. ASSUME NEW pair \in Bound(row, read) PROVE pair \in SeenPairs(seen, scope)
  <2>1. row.kind = "known"
    BY <1>1, BoundPairs
  <2>2. PICK b \in read.bindings : \E field \in row.fields :
           b[2] = pair[1] /\ field[1] = b[1] /\ field[2] = pair[2]
    BY <1>1, BoundPairs
  <2>3. PICK field \in row.fields : field[2] = pair[2]
    BY <2>2
  <2>4. row.scope = scope
    BY <1>1, <1>2, <2>1, <2>2 DEF ScopeExcluded
  <2>5. PICK r \in seen : r.kind = "known" /\ r.scope = row.scope /\ row.fields \subseteq r.fields
    BY <2>1 DEF From
  <2>6. pair \in Pairs
    BY <1>3
  <2> QED BY <2>3, <2>4, <2>5, <2>6 DEF SeenPairs
<1>5. Alternative(row, read) \in SUBSET SeenPairs(seen, scope)
  BY <1>3, <1>4
<1> QED BY <1>5 DEF read

\* One read of one row: nothing admitted is lost, and what the row may affect
\* is admitted, unless the report makes the endpoint unavailable anyway.
LEMMA ContributeKeeps ==
    ASSUME NEW seen, NEW scope, NEW acc \in Accs(seen, scope), NEW fact,
           NEW row \in RowState, From(row, seen), NEW declared \in ReadDependency,
           declared.resource = fact.resource, NEW report
    PROVE  /\ Contribute(acc, fact, row, declared, scope, report) \in Admitting(seen, scope, acc)
           /\ \A input :
                 /\ report[declared.endpoint].status # "unavailable"
                 /\ RowMayAffect(fact, row, declared, input, scope)
                 => Matched(Contribute(acc, fact, row, declared, scope, report),
                            declared.endpoint, input)
<1> DEFINE assessment == report[declared.endpoint]
           read == Broadened(declared, assessment)
           endpoint == declared.endpoint
           s == TargetScope(declared.resource)
           target == <<endpoint, s>>
           alternative == Alternative(row, read)
           skipped == \/ assessment.status = "unavailable"
                      \/ ScopeExcluded(row, read, scope, assessment)
                      \/ ColumnsUnchanged(fact, read)
                      \/ FilterExcluded(row, read)
           added == AddAlternative(acc.targets[target], alternative)
           after == Contribute(acc, fact, row, declared, scope, report)
<1>1. /\ endpoint \in Endpoint /\ s \in Scopes /\ target \in Endpoint \X Scopes
      /\ s = "caller" => ScopeColumn[declared.resource] # Null
  BY DEF TargetScope, Scopes, ReadDependency
<1>2. /\ read.endpoint = endpoint /\ read.resource = declared.resource /\ read \in ReadDependency
  BY BroadenedRead
<1>3. /\ alternative \in SUBSET Pairs
      /\ ~skipped /\ s = "caller" => alternative \in SUBSET SeenPairs(seen, scope)
  BY <1>1, <1>2, AlternativePairs, AlternativeSeen
<1>4. \A input : RowMayAffect(fact, row, declared, input, scope) =>
         Admits(input, alternative)
         /\ ~ScopeExcluded(row, read, scope, assessment)
         /\ ~ColumnsUnchanged(fact, read)
         /\ ~FilterExcluded(row, read)
  <2> SUFFICES ASSUME NEW input, RowMayAffect(fact, row, declared, input, scope)
               PROVE  /\ Admits(input, alternative)
                      /\ ~ScopeExcluded(row, read, scope, assessment)
                      /\ ~ColumnsUnchanged(fact, read)
                      /\ ~FilterExcluded(row, read)
    OBVIOUS
  <2>1. Admits(input, alternative)
    BY AffectedAdmits
  <2>2. /\ ~ScopeExcluded(row, read, scope, assessment)
        /\ ~ColumnsUnchanged(fact, read)
        /\ ~FilterExcluded(row, read)
    BY AffectedIncluded
  <2> QED BY <2>1, <2>2
<1>5. PICK reduced \in SUBSET Endpoint :
         after = IF skipped THEN acc
                 ELSE [targets |-> [acc.targets EXCEPT ![target] = added], reduced |-> reduced]
  <2> DEFINE lossy == \/ Uncertain(fact, row, read)
                      \/ Incomplete(row, read)
                      \/ Overflows(acc.targets[target], alternative)
             reduced == acc.reduced \cup (IF lossy THEN {read.endpoint} ELSE {})
  <2>1. reduced \in SUBSET Endpoint
    <3> HIDE DEF lossy, read
    <3> QED BY <1>1, <1>2 DEF Accs
  <2>2. <<read.endpoint, TargetScope(read.resource)>> = target
    BY <1>2
  <2>3. after = IF skipped THEN acc
                ELSE [targets |-> [acc.targets EXCEPT ![<<read.endpoint, TargetScope(read.resource)>>] =
                                     AddAlternative(@, alternative)],
                      reduced |-> acc.reduced \cup
                         (IF \/ Uncertain(fact, row, read)
                             \/ Incomplete(row, read)
                             \/ Overflows(acc.targets[<<read.endpoint, TargetScope(read.resource)>>], alternative)
                          THEN {read.endpoint} ELSE {})]
    BY DEF Contribute
  <2> HIDE DEF read, target, alternative, skipped, after
  <2> QED BY <2>1, <2>2, <2>3
<1>6. acc \in Accs(seen, scope) /\ acc.targets \in [Endpoint \X Scopes -> SUBSET SUBSET Pairs]
      /\ acc.targets[target] \in SUBSET SUBSET Pairs
  BY <1>1 DEF Accs
<1> HIDE DEF alternative, read, skipped, added, after, s
<1>7. CASE skipped
  <2>1. after = acc
    BY <1>5, <1>7
  <2>2. ~(assessment.status # "unavailable" /\ \E input : RowMayAffect(fact, row, declared, input, scope))
    BY <1>4, <1>7 DEF skipped
  <2> QED BY <2>1, <2>2, AdmittingSelf DEF after
<1>8. CASE ~skipped
  <2> DEFINE targets == [acc.targets EXCEPT ![target] = added]
  <2>1. after = [targets |-> targets, reduced |-> reduced]
    BY <1>5, <1>8
  <2>2. added \in SUBSET SUBSET Pairs
    BY <1>3, <1>6, AddAlternativePairs DEF added
  <2>3. /\ targets \in [Endpoint \X Scopes -> SUBSET SUBSET Pairs]
        /\ targets[target] = added
        /\ \A other \in Endpoint \X Scopes : other # target => targets[other] = acc.targets[other]
    <3> HIDE DEF target
    <3> QED BY <1>1, <1>6, <2>2
  <2>4. ASSUME NEW e \in Endpoint
        PROVE  targets[<<e, "caller">>] \in SUBSET SUBSET SeenPairs(seen, scope)
    <3>1. <<e, "caller">> \in Endpoint \X Scopes
      BY DEF Scopes
    <3>2. acc.targets[<<e, "caller">>] \in SUBSET SUBSET SeenPairs(seen, scope)
      BY DEF Accs
    <3>3. CASE <<e, "caller">> = target
      <4>1. s = "caller"
        BY <3>3
      <4>2. added \in SUBSET SUBSET SeenPairs(seen, scope)
        BY <1>3, <1>8, <3>2, <3>3, <4>1, AddAlternativePairs DEF added
      <4> QED BY <2>3, <3>3, <4>2
    <3>4. CASE <<e, "caller">> # target
      <4> HIDE DEF targets, target
      <4> QED BY <2>3, <3>1, <3>2, <3>4
    <3> QED BY <3>3, <3>4
  <2>5. \A input : Matches(input, acc.targets[target]) \/ Admits(input, alternative) =>
                      Matches(input, targets[target])
    BY <2>3, AddAlternativeKeeps DEF added
  <2> HIDE DEF targets, target
  <2>6. TargetsKept(acc.targets, targets)
    BY <2>3, <2>5 DEF TargetsKept
  <2>7. after \in Accs(seen, scope)
    BY <2>1, <2>3, <2>4 DEF Accs
  <2>8. after \in Admitting(seen, scope, acc)
    BY <2>1, <2>6, <2>7 DEF Admitting
  <2>9. \A input : RowMayAffect(fact, row, declared, input, scope) => Matched(after, endpoint, input)
    BY <1>1, <1>4, <2>1, <2>5 DEF Matched, target
  <2> QED BY <2>8, <2>9 DEF after
<1> QED BY <1>7, <1>8


ReadsAbout(resource) == {read \in ReadDependency : read.resource = resource}

\* The declared reads of one resource are read off in order.
LEMMA ReadsFold ==
    ASSUME NEW resource \in Resource
    PROVE  \E g : /\ g[0] = <<>> /\ g[Len(Reads)] = ReadsOf(resource)
                  /\ \A k \in 0 .. Len(Reads) : g[k] \in Seq(ReadsAbout(resource))
                  /\ \A k \in 1 .. Len(Reads) : g[k] = (IF Reads[k].resource = resource THEN Append(g[k - 1], Reads[k]) ELSE g[k - 1])
<1> DEFINE n == Len(Reads)
           V == Seq(ReadsAbout(resource))
           Op(v, k) == (IF Reads[k].resource = resource THEN Append(v, Reads[k]) ELSE v)
           G == [k \in 1 .. n |-> [v \in V |-> Op(v, k)]]
           Solves(h) ==
             h = [t \in SUBSET (1 .. n) |->
                    IF t = {} THEN <<>> ELSE Op(h[t \ {Max(t)}], Max(t))]
<1>1. n \in Nat /\ DOMAIN Reads = 1 .. n /\ <<>> \in V
  BY CalculateAssumption
<1>2. ASSUME NEW k \in 1 .. n, NEW v \in V PROVE Op(v, k) \in V
  <2>1. Reads[k] \in ReadDependency
    BY <1>1, CalculateAssumption
  <2> QED BY <2>1 DEF ReadsAbout
<1>3. G \in [1 .. n -> [V -> V]]
  <2> HIDE DEF V, n, Op
  <2> QED BY <1>2
<1>4. ASSUME NEW t \in SUBSET (1 .. n), t # {}, NEW v \in V PROVE G[Max(t)][v] = Op(v, Max(t))
  <2>1. Max(t) \in 1 .. n
    BY <1>1, <1>4, MaxIn
  <2> HIDE DEF V, n, Op
  <2> QED BY <2>1
<1>5. \E h : Solves(h)
  <2>1. PICK h \in [SUBSET (1 .. n) -> V] : FoldTable(h, <<>>, n, G)
    <3> HIDE DEF G, V, n
    <3> QED BY <1>1, <1>3, FoldExists
  <2>2. \A t \in SUBSET (1 .. n) : h[t \ {Max(t)}] \in V
    BY <2>1
  <2>3. Solves(h)
    <3> HIDE DEF G, V, n, Op
    <3> QED BY <1>4, <2>1, <2>2 DEF FoldTable
  <2> QED BY <2>3
<1>6. PICK h : Solves(h) /\ ReadsOf(resource) = h[1 .. n]
  <2>1. Solves(CHOOSE h : Solves(h))
    BY <1>5
  <2>2. ReadsOf(resource) = (CHOOSE h : Solves(h))[1 .. n]
    BY <1>1 DEF ReadsOf, ReadIndex, FoldLeft, MapThenFoldSet
  <2> QED BY <2>1, <2>2
<1>7. Applies(h, <<>>, n, G, V)
  <2> HIDE DEF G, V, n, Op
  <2> QED BY <1>4, <1>6 DEF Applies
<1>8. PICK g : FoldSteps(g, <<>>, h[1 .. n], n, G, V)
  <2> HIDE DEF G, V, n, Op, Solves
  <2> QED BY <1>1, <1>3, <1>7, FoldWalk
<1>9. \A k \in 1 .. n : g[k] = Op(g[k - 1], k)
  <2>1. \A k \in 1 .. n : k - 1 \in 0 .. n
    BY <1>1
  <2> HIDE DEF V, n, Op
  <2> QED BY <1>8, <2>1 DEF FoldSteps
<1>10. g[0] = <<>> /\ g[n] = ReadsOf(resource) /\ \A k \in 0 .. n : g[k] \in V
  <2> HIDE DEF V, n, Op, Solves
  <2> QED BY <1>6, <1>8 DEF FoldSteps
<1> HIDE DEF Solves
<1> QED BY <1>9, <1>10

LEMMA ReadsTyped ==
    ASSUME NEW resource \in Resource
    PROVE  /\ ReadsOf(resource) \in Seq(ReadsAbout(resource))
           /\ Len(ReadsOf(resource)) \in Nat
           /\ DOMAIN ReadsOf(resource) = 1 .. Len(ReadsOf(resource))
           /\ \A k \in 1 .. Len(ReadsOf(resource)) :
                 /\ ReadsOf(resource)[k] \in ReadDependency
                 /\ ReadsOf(resource)[k].resource = resource
<1>1. PICK g : g[Len(Reads)] = ReadsOf(resource)
               /\ \A k \in 0 .. Len(Reads) : g[k] \in Seq(ReadsAbout(resource))
  BY ReadsFold
<1>2. Len(Reads) \in 0 .. Len(Reads)
  BY CalculateAssumption
<1>3. ReadsOf(resource) \in Seq(ReadsAbout(resource))
  BY <1>1, <1>2
<1>4. \A k \in 1 .. Len(ReadsOf(resource)) : ReadsOf(resource)[k] \in ReadsAbout(resource)
  BY <1>3
<1>5. Len(ReadsOf(resource)) \in Nat /\ DOMAIN ReadsOf(resource) = 1 .. Len(ReadsOf(resource))
  BY <1>3
<1> QED BY <1>3, <1>4, <1>5 DEF ReadsAbout

\* The reads of a row contribute one by one.
LEMMA ContributeRowFold ==
    ASSUME NEW seen, NEW scope, NEW acc \in Accs(seen, scope), NEW fact, fact.resource \in Resource,
           NEW row \in RowState, From(row, seen), row.kind # "absent", NEW report
    PROVE  \E g : /\ g[0] = acc /\ g[Len(ReadsOf(fact.resource))] = ContributeRow(acc, fact, row, scope, report)
                  /\ \A k \in 0 .. Len(ReadsOf(fact.resource)) : g[k] \in Admitting(seen, scope, acc)
                  /\ \A k \in 1 .. Len(ReadsOf(fact.resource)) : g[k] = Contribute(g[k - 1], fact, row, ReadsOf(fact.resource)[k], scope, report)
<1> DEFINE n == Len(ReadsOf(fact.resource))
           V == Admitting(seen, scope, acc)
           Op(v, k) == Contribute(v, fact, row, ReadsOf(fact.resource)[k], scope, report)
           G == [k \in 1 .. n |-> [v \in V |-> Op(v, k)]]
           Solves(h) ==
             h = [t \in SUBSET (1 .. n) |->
                    IF t = {} THEN acc ELSE Op(h[t \ {Max(t)}], Max(t))]
<1>1. n \in Nat /\ DOMAIN ReadsOf(fact.resource) = 1 .. n /\ acc \in V
  BY ReadsTyped, AdmittingSelf
<1>2. ASSUME NEW k \in 1 .. n, NEW v \in V PROVE Op(v, k) \in V
  <2>1. v \in Accs(seen, scope)
    BY DEF Admitting
  <2>2. ReadsOf(fact.resource)[k] \in ReadDependency /\ ReadsOf(fact.resource)[k].resource = fact.resource
    BY <1>1, ReadsTyped
  <2>3. Op(v, k) \in Admitting(seen, scope, v)
    BY <2>1, <2>2, ContributeKeeps
  <2> HIDE DEF Op
  <2> QED BY <2>3, AdmittingChain
<1>3. G \in [1 .. n -> [V -> V]]
  <2> HIDE DEF V, n, Op
  <2> QED BY <1>2
<1>4. ASSUME NEW t \in SUBSET (1 .. n), t # {}, NEW v \in V PROVE G[Max(t)][v] = Op(v, Max(t))
  <2>1. Max(t) \in 1 .. n
    BY <1>1, <1>4, MaxIn
  <2> HIDE DEF V, n, Op
  <2> QED BY <2>1
<1>5. \E h : Solves(h)
  <2>1. PICK h \in [SUBSET (1 .. n) -> V] : FoldTable(h, acc, n, G)
    <3> HIDE DEF G, V, n
    <3> QED BY <1>1, <1>3, FoldExists
  <2>2. \A t \in SUBSET (1 .. n) : h[t \ {Max(t)}] \in V
    BY <2>1
  <2>3. Solves(h)
    <3> HIDE DEF G, V, n, Op
    <3> QED BY <1>4, <2>1, <2>2 DEF FoldTable
  <2> QED BY <2>3
<1>6. PICK h : Solves(h) /\ ContributeRow(acc, fact, row, scope, report) = h[1 .. n]
  <2>1. Solves(CHOOSE h : Solves(h))
    BY <1>5
  <2>2. ContributeRow(acc, fact, row, scope, report) = (CHOOSE h : Solves(h))[1 .. n]
    BY <1>1 DEF ContributeRow, FoldLeft, MapThenFoldSet
  <2> QED BY <2>1, <2>2
<1>7. Applies(h, acc, n, G, V)
  <2> HIDE DEF G, V, n, Op
  <2> QED BY <1>4, <1>6 DEF Applies
<1>8. PICK g : FoldSteps(g, acc, h[1 .. n], n, G, V)
  <2> HIDE DEF G, V, n, Op, Solves
  <2> QED BY <1>1, <1>3, <1>7, FoldWalk
<1>9. \A k \in 1 .. n : g[k] = Op(g[k - 1], k)
  <2>1. \A k \in 1 .. n : k - 1 \in 0 .. n
    BY <1>1
  <2> HIDE DEF V, n, Op
  <2> QED BY <1>8, <2>1 DEF FoldSteps
<1>10. g[0] = acc /\ g[n] = ContributeRow(acc, fact, row, scope, report) /\ \A k \in 0 .. n : g[k] \in V
  <2> HIDE DEF V, n, Op, Solves
  <2> QED BY <1>6, <1>8 DEF FoldSteps
<1> HIDE DEF Solves
<1> QED BY <1>9, <1>10

\* All the reads of a row: what the row may affect is admitted.
LEMMA ContributeRowKeeps ==
    ASSUME NEW seen, NEW scope, NEW acc \in Accs(seen, scope), NEW fact, fact.resource \in Resource,
           NEW row \in RowState, From(row, seen), NEW report
    PROVE  /\ ContributeRow(acc, fact, row, scope, report) \in Admitting(seen, scope, acc)
           /\ \A input : \A read \in ToSet(ReadsOf(fact.resource)) :
                 /\ report[read.endpoint].status # "unavailable"
                 /\ RowMayAffect(fact, row, read, input, scope)
                 => Matched(ContributeRow(acc, fact, row, scope, report), read.endpoint, input)
<1>1. CASE row.kind = "absent"
  <2>1. ContributeRow(acc, fact, row, scope, report) = acc
    BY <1>1 DEF ContributeRow
  <2> QED BY <1>1, <2>1, AdmittingSelf DEF RowMayAffect
<1>2. CASE row.kind # "absent"
  <2> DEFINE reads == ReadsOf(fact.resource)
             n == Len(reads)
             after == ContributeRow(acc, fact, row, scope, report)
             Served(a, i) == \A input :
                 /\ report[reads[i].endpoint].status # "unavailable"
                 /\ RowMayAffect(fact, row, reads[i], input, scope)
                 => Matched(a, reads[i].endpoint, input)
  <2>1. PICK g : /\ g[0] = acc /\ g[n] = after
                 /\ \A k \in 0 .. n : g[k] \in Admitting(seen, scope, acc)
                 /\ \A k \in 1 .. n : g[k] = Contribute(g[k - 1], fact, row, reads[k], scope, report)
    <3>1. row.kind # "absent" /\ fact.resource \in Resource
      BY <1>2
    <3> HIDE DEF Served
    <3> QED BY <3>1, ContributeRowFold, SMTT(60)
  <2>2. /\ n \in Nat /\ DOMAIN reads = 1 .. n
        /\ \A k \in 1 .. n : reads[k] \in ReadDependency /\ reads[k].resource = fact.resource
                             /\ reads[k].endpoint \in Endpoint
    BY ReadsTyped DEF ReadDependency
  <2> HIDE DEF reads, n, after
  <2> DEFINE T == {k \in 0 .. n : \A i \in 1 .. k : Served(g[k], i)}
  <2>3. 0 \in T
    BY <2>2
  <2>4. ASSUME NEW k \in 0 .. n, k < n, k \in T PROVE k + 1 \in T
    <3>1. k + 1 \in 1 .. n /\ (k + 1) - 1 = k /\ k + 1 \in 0 .. n
      BY <2>2, <2>4
    <3>2. g[k + 1] = Contribute(g[k], fact, row, reads[k + 1], scope, report)
      BY <2>1, <3>1
    <3>3. g[k] \in Accs(seen, scope) /\ reads[k + 1] \in ReadDependency
          /\ reads[k + 1].resource = fact.resource
      BY <2>1, <2>2, <3>1 DEF Admitting
    <3>4. g[k + 1] \in Admitting(seen, scope, g[k]) /\ Served(g[k + 1], k + 1)
      BY <3>2, <3>3, ContributeKeeps
    <3>5. ASSUME NEW i \in 1 .. k + 1 PROVE Served(g[k + 1], i)
      <4>1. CASE i = k + 1
        BY <3>4, <4>1
      <4>2. CASE i # k + 1
        <5>1. i \in 1 .. k /\ reads[i].endpoint \in Endpoint
          BY <2>2, <3>1, <4>2
        <5>2. Served(g[k], i)
          BY <2>4, <5>1
        <5> QED BY <3>4, <5>1, <5>2, MatchedKept
      <4> QED BY <4>1, <4>2
    <3> HIDE DEF Served
    <3> QED BY <3>1, <3>5
  <2>5. n \in T
    <3> HIDE DEF T
    <3>1. \A k \in 0 .. n : k \in T
      BY <2>2, <2>3, <2>4, SegmentInduction
    <3> QED BY <2>2, <3>1
  <2>6. \A i \in 1 .. n : Served(after, i)
    <3> HIDE DEF Served
    <3> QED BY <2>1, <2>5
  <2>7. after \in Admitting(seen, scope, acc)
    BY <2>1, <2>2
  <2>8. ASSUME NEW read \in ToSet(reads), NEW input, report[read.endpoint].status # "unavailable",
               RowMayAffect(fact, row, read, input, scope)
        PROVE  Matched(after, read.endpoint, input)
    <3>1. PICK i \in 1 .. n : read = reads[i]
      BY <2>2 DEF ToSet
    <3> QED BY <2>6, <2>8, <3>1
  <2> QED BY <2>7, <2>8 DEF after, reads
<1> QED BY <1>1, <1>2

\* What one fact may affect.
FactMayAffect(fact, endpoint, input, scope) ==
    \E read \in ToSet(ReadsOf(fact.resource)) :
        /\ read.endpoint = endpoint
        /\ \E row \in {fact.before, fact.after} : RowMayAffect(fact, row, read, input, scope)

\* Both rows of a fact.
LEMMA ContributeFactKeeps ==
    ASSUME NEW seen, NEW scope, NEW acc \in Accs(seen, scope), NEW fact \in FactsFrom(seen),
           NEW report
    PROVE  /\ ContributeFact(acc, fact, scope, report) \in Admitting(seen, scope, acc)
           /\ \A input : \A endpoint \in Endpoint :
                 /\ report[endpoint].status # "unavailable"
                 /\ FactMayAffect(fact, endpoint, input, scope)
                 => Matched(ContributeFact(acc, fact, scope, report), endpoint, input)
<1> DEFINE middle == ContributeRow(acc, fact, fact.before, scope, report)
           after == ContributeRow(middle, fact, fact.after, scope, report)
<1>1. /\ fact.before \in RowState /\ fact.after \in RowState /\ fact.resource \in Resource
      /\ From(fact.before, seen) /\ From(fact.after, seen)
  BY DEF FactsFrom, WriteFact
<1>2. /\ middle \in Admitting(seen, scope, acc)
      /\ \A input : \A read \in ToSet(ReadsOf(fact.resource)) :
                 /\ report[read.endpoint].status # "unavailable"
                 /\ RowMayAffect(fact, fact.before, read, input, scope)
                 => Matched(middle, read.endpoint, input)
  BY <1>1, ContributeRowKeeps
<1>3. middle \in Accs(seen, scope)
  BY <1>2 DEF Admitting
<1>4. ContributeFact(acc, fact, scope, report) = after
  BY DEF ContributeFact
<1> HIDE DEF middle
<1>5. /\ after \in Admitting(seen, scope, middle)
      /\ \A input : \A read \in ToSet(ReadsOf(fact.resource)) :
                 /\ report[read.endpoint].status # "unavailable"
                 /\ RowMayAffect(fact, fact.after, read, input, scope)
                 => Matched(after, read.endpoint, input)
  BY <1>1, <1>3, ContributeRowKeeps
<1> HIDE DEF after
<1>6. after \in Admitting(seen, scope, acc)
  BY <1>2, <1>5, AdmittingChain
<1>7. ASSUME NEW input, NEW endpoint \in Endpoint, report[endpoint].status # "unavailable",
             FactMayAffect(fact, endpoint, input, scope)
      PROVE  Matched(after, endpoint, input)
  <2>1. PICK read \in ToSet(ReadsOf(fact.resource)) :
           /\ read.endpoint = endpoint
           /\ \/ RowMayAffect(fact, fact.before, read, input, scope)
              \/ RowMayAffect(fact, fact.after, read, input, scope)
    BY <1>7 DEF FactMayAffect
  <2>2. CASE RowMayAffect(fact, fact.before, read, input, scope)
    <3>1. Matched(middle, endpoint, input)
      BY <1>2, <1>7, <2>1, <2>2
    <3> QED BY <1>5, <3>1, MatchedKept
  <2>3. CASE RowMayAffect(fact, fact.after, read, input, scope)
    BY <1>5, <1>7, <2>1, <2>3
  <2> QED BY <2>1, <2>2, <2>3
<1> QED BY <1>4, <1>6, <1>7

NoContribution == [targets |-> NoTargets, reduced |-> {}]

LEMMA NoContributionTyped ==
    ASSUME NEW seen, NEW scope
    PROVE  NoContribution \in Accs(seen, scope)
<1>1. NoTargets \in [Endpoint \X Scopes -> SUBSET SUBSET Pairs]
      /\ \A t \in Endpoint \X Scopes : NoTargets[t] = {}
  BY DEF NoTargets
<1>2. \A e \in Endpoint : <<e, "caller">> \in Endpoint \X Scopes
  BY DEF Scopes
<1> QED BY <1>1, <1>2 DEF Accs, NoContribution

\* The facts contribute one by one.
LEMMA AccumulateFold ==
    ASSUME NEW seen, NEW scope, NEW facts \in Seq(FactsFrom(seen)), NEW report \in Assessments
    PROVE  \E g : /\ g[0] = NoContribution /\ g[Len(facts)] = Accumulate(facts, scope, report)
                  /\ \A k \in 0 .. Len(facts) : g[k] \in Accs(seen, scope)
                  /\ \A k \in 1 .. Len(facts) : g[k] = ContributeFact(g[k - 1], facts[k], scope, report)
<1> DEFINE n == Len(facts)
           V == Accs(seen, scope)
           Op(v, k) == ContributeFact(v, facts[k], scope, report)
           G == [k \in 1 .. n |-> [v \in V |-> Op(v, k)]]
           Solves(h) ==
             h = [t \in SUBSET (1 .. n) |->
                    IF t = {} THEN NoContribution ELSE Op(h[t \ {Max(t)}], Max(t))]
<1>1. n \in Nat /\ DOMAIN facts = 1 .. n /\ NoContribution \in V
  BY NoContributionTyped
<1>2. ASSUME NEW k \in 1 .. n, NEW v \in V PROVE Op(v, k) \in V
  <2>1. facts[k] \in FactsFrom(seen)
    BY <1>1
  <2>2. Op(v, k) \in Admitting(seen, scope, v)
    BY <2>1, ContributeFactKeeps
  <2> HIDE DEF Op
  <2> QED BY <2>2 DEF Admitting
<1>3. G \in [1 .. n -> [V -> V]]
  <2> HIDE DEF V, n, Op
  <2> QED BY <1>2
<1>4. ASSUME NEW t \in SUBSET (1 .. n), t # {}, NEW v \in V PROVE G[Max(t)][v] = Op(v, Max(t))
  <2>1. Max(t) \in 1 .. n
    BY <1>1, <1>4, MaxIn
  <2> HIDE DEF V, n, Op
  <2> QED BY <2>1
<1>5. \E h : Solves(h)
  <2>1. PICK h \in [SUBSET (1 .. n) -> V] : FoldTable(h, NoContribution, n, G)
    <3> HIDE DEF G, V, n
    <3> QED BY <1>1, <1>3, FoldExists
  <2>2. \A t \in SUBSET (1 .. n) : h[t \ {Max(t)}] \in V
    BY <2>1
  <2>3. Solves(h)
    <3> HIDE DEF G, V, n, Op
    <3> QED BY <1>4, <2>1, <2>2 DEF FoldTable
  <2> QED BY <2>3
<1>6. PICK h : Solves(h) /\ Accumulate(facts, scope, report) = h[1 .. n]
  <2>1. Solves(CHOOSE h : Solves(h))
    BY <1>5
  <2>2. Accumulate(facts, scope, report) = (CHOOSE h : Solves(h))[1 .. n]
    BY <1>1 DEF Accumulate, NoContribution, FoldLeft, MapThenFoldSet
  <2> QED BY <2>1, <2>2
<1>7. Applies(h, NoContribution, n, G, V)
  <2> HIDE DEF G, V, n, Op
  <2> QED BY <1>4, <1>6 DEF Applies
<1>8. PICK g : FoldSteps(g, NoContribution, h[1 .. n], n, G, V)
  <2> HIDE DEF G, V, n, Op, Solves
  <2> QED BY <1>1, <1>3, <1>7, FoldWalk
<1>9. \A k \in 1 .. n : g[k] = Op(g[k - 1], k)
  <2>1. \A k \in 1 .. n : k - 1 \in 0 .. n
    BY <1>1
  <2> HIDE DEF V, n, Op
  <2> QED BY <1>8, <2>1 DEF FoldSteps
<1>10. g[0] = NoContribution /\ g[n] = Accumulate(facts, scope, report) /\ \A k \in 0 .. n : g[k] \in V
  <2> HIDE DEF V, n, Op, Solves
  <2> QED BY <1>6, <1>8 DEF FoldSteps
<1> HIDE DEF Solves
<1> QED BY <1>9, <1>10

\* The accumulation admits whatever one of the facts may affect.
LEMMA AccumulateKeeps ==
    ASSUME NEW seen, NEW scope, NEW facts \in Seq(FactsFrom(seen)), NEW report \in Assessments
    PROVE  /\ Accumulate(facts, scope, report) \in Accs(seen, scope)
           /\ \A input : \A endpoint \in Endpoint : \A i \in DOMAIN facts :
                 /\ report[endpoint].status # "unavailable"
                 /\ FactMayAffect(facts[i], endpoint, input, scope)
                 => Matched(Accumulate(facts, scope, report), endpoint, input)
<1> DEFINE n == Len(facts)
           after == Accumulate(facts, scope, report)
<1>0. NoContribution \in Accs(seen, scope)
  BY NoContributionTyped
<1>1. PICK g : /\ g[0] = NoContribution /\ g[n] = after
               /\ \A k \in 0 .. n : g[k] \in Accs(seen, scope)
               /\ \A k \in 1 .. n : g[k] = ContributeFact(g[k - 1], facts[k], scope, report)
  BY <1>0, AccumulateFold
<1> DEFINE Served(a, i) == \A input : \A endpoint \in Endpoint :
                 /\ report[endpoint].status # "unavailable"
                 /\ FactMayAffect(facts[i], endpoint, input, scope)
                 => Matched(a, endpoint, input)
<1>2. /\ n \in Nat /\ DOMAIN facts = 1 .. n /\ \A k \in 1 .. n : facts[k] \in FactsFrom(seen)
  OBVIOUS
<1> HIDE DEF n, after
<1> DEFINE T == {k \in 0 .. n : \A i \in 1 .. k : Served(g[k], i)}
<1>3. 0 \in T
  BY <1>2
<1>4. ASSUME NEW k \in 0 .. n, k < n, k \in T PROVE k + 1 \in T
  <2>1. k + 1 \in 1 .. n /\ (k + 1) - 1 = k /\ k + 1 \in 0 .. n
    BY <1>2, <1>4
  <2>2. g[k + 1] = ContributeFact(g[k], facts[k + 1], scope, report)
    BY <1>1, <2>1
  <2>3. g[k] \in Accs(seen, scope) /\ facts[k + 1] \in FactsFrom(seen)
    BY <1>1, <1>2, <2>1
  <2>4. g[k + 1] \in Admitting(seen, scope, g[k]) /\ Served(g[k + 1], k + 1)
    BY <2>2, <2>3, ContributeFactKeeps
  <2>5. ASSUME NEW i \in 1 .. k + 1 PROVE Served(g[k + 1], i)
    <3>1. CASE i = k + 1
      BY <2>4, <3>1
    <3>2. CASE i # k + 1
      <4>1. i \in 1 .. k
        BY <2>1, <3>2
      <4>2. Served(g[k], i)
        BY <1>4, <4>1
      <4> QED BY <2>4, <4>2, MatchedKept
    <3> QED BY <3>1, <3>2
  <2> HIDE DEF Served
  <2> QED BY <2>1, <2>5
<1>5. n \in T
  <2> HIDE DEF T
  <2>1. \A k \in 0 .. n : k \in T
    BY <1>2, <1>3, <1>4, SegmentInduction
  <2> QED BY <1>2, <2>1
<1>6. \A i \in 1 .. n : Served(after, i)
  <2> HIDE DEF Served
  <2> QED BY <1>1, <1>5
<1>7. after \in Accs(seen, scope)
  BY <1>1, <1>2
<1> QED BY <1>2, <1>6, <1>7 DEF after

-----------------------------------------------------------------------------
(* The impact. *)

LEMMA CodeTyped == {"PRECISION_REDUCED"} \in SUBSET Codes
  BY DEF Codes

Impacts(seen, scope) ==
    {impact \in [Endpoint -> [status : Statuses, codes : SUBSET Codes,
                              targets : [Scopes -> SUBSET SUBSET Pairs]]] :
        \A e \in Endpoint : impact[e].targets["caller"] \in SUBSET SUBSET SeenPairs(seen, scope)}

\* An impact that admits, target by target, what this one admits.
ImpactKept(before, after) ==
    \A e \in Endpoint : \A s \in Scopes : \A input :
        Matches(input, before[e].targets[s]) => Matches(input, after[e].targets[s])

Widening(seen, scope, impact) ==
    {after \in Impacts(seen, scope) : ImpactKept(impact, after)}

LEMMA ImpactFields ==
    ASSUME NEW seen, NEW scope, NEW impact \in Impacts(seen, scope), NEW e \in Endpoint
    PROVE  /\ impact[e].status \in Statuses /\ impact[e].codes \in SUBSET Codes
           /\ impact[e].targets \in [Scopes -> SUBSET SUBSET Pairs]
           /\ impact[e].targets["caller"] \in SUBSET SUBSET SeenPairs(seen, scope)
  BY DEF Impacts

\* Widening one target to 'all' loses no input, whichever target it is.
LEMMA WidenKeeps ==
    ASSUME NEW seen, NEW scope, NEW impact \in Impacts(seen, scope)
    PROVE  WidenLargest(impact) \in Widening(seen, scope, impact)
<1> DEFINE t == LargestTarget(impact)
           e == t[1]
           s == t[2]
           targets == [impact[e].targets EXCEPT ![s] = All]
           widened == [status |-> "conservative",
                       codes |-> impact[e].codes \cup {"PRECISION_REDUCED"},
                       targets |-> targets]
           after == [impact EXCEPT ![e] = widened]
<1>1. WidenLargest(impact) = after
  BY DEF WidenLargest
<1> HIDE DEF t
<1>2. CASE e \in Endpoint
  <2>1. /\ impact[e].codes \in SUBSET Codes
        /\ impact[e].targets \in [Scopes -> SUBSET SUBSET Pairs]
        /\ impact[e].targets["caller"] \in SUBSET SUBSET SeenPairs(seen, scope)
    BY <1>2, ImpactFields
  <2>2. All \in SUBSET SUBSET Pairs /\ All \in SUBSET SUBSET SeenPairs(seen, scope)
    BY DEF All
  <2>3. /\ targets \in [Scopes -> SUBSET SUBSET Pairs]
        /\ \A u \in Scopes : targets[u] = IF u = s THEN All ELSE impact[e].targets[u]
    <3> HIDE DEF s, e
    <3> QED BY <2>1, <2>2
  <2>4. targets["caller"] \in SUBSET SUBSET SeenPairs(seen, scope)
    BY <2>1, <2>2, <2>3 DEF Scopes
  <2>5. \A u \in Scopes : \A input :
           Matches(input, impact[e].targets[u]) => Matches(input, targets[u])
    BY <2>3, MatchesAll
  <2> HIDE DEF targets, e
  <2>6. widened \in [status : Statuses, codes : SUBSET Codes,
                     targets : [Scopes -> SUBSET SUBSET Pairs]]
    <3> DEFINE codes == impact[e].codes \cup {"PRECISION_REDUCED"}
    <3>1. codes \in SUBSET Codes
      BY <2>1, CodeTyped
    <3>2. "conservative" \in Statuses
      BY DEF Statuses
    <3>3. widened = [status |-> "conservative", codes |-> codes, targets |-> targets]
      OBVIOUS
    <3> HIDE DEF codes, widened
    <3> QED BY <2>3, <3>1, <3>2, <3>3
  <2>7. widened.targets = targets
    OBVIOUS
  <2> HIDE DEF widened
  <2>8. /\ after \in [Endpoint -> [status : Statuses, codes : SUBSET Codes,
                                   targets : [Scopes -> SUBSET SUBSET Pairs]]]
        /\ \A o \in Endpoint : after[o] = IF o = e THEN widened ELSE impact[o]
    BY <1>2, <2>6 DEF Impacts
  <2> HIDE DEF after
  <2>9. after \in Impacts(seen, scope)
    BY <2>4, <2>7, <2>8 DEF Impacts
  <2>10. ImpactKept(impact, after)
    BY <2>5, <2>7, <2>8 DEF ImpactKept
  <2> QED BY <1>1, <2>9, <2>10 DEF Widening, after
<1>3. CASE e \notin Endpoint
  <2>1. after = impact
    <3> HIDE DEF widened, e
    <3> QED BY <1>3 DEF Impacts
  <2>2. ImpactKept(impact, impact)
    BY DEF ImpactKept
  <2> QED BY <1>1, <2>1, <2>2 DEF Widening
<1> QED BY <1>2, <1>3

LEMMA ConstrainingFinite ==
    ASSUME NEW impact
    PROVE  IsFiniteSet(Constraining(impact))
<1>1. IsFiniteSet(Scopes)
  BY FS_AddElement, FS_EmptySet, {"caller", "global"} = ({} \cup {"caller"}) \cup {"global"} DEF Scopes
<1>2. IsFiniteSet(Endpoint \X Scopes)
  BY <1>1, ContractsAssumption, FS_Product
<1> QED BY <1>2, FS_Subset DEF Constraining

\* Targets are widened one at a time while the response is over budget.
LEMMA BoundFold ==
    ASSUME NEW seen, NEW scope, NEW impact \in Impacts(seen, scope)
    PROVE  \E g : /\ g[0] = impact /\ g[Cardinality(Constraining(impact))] = BoundImpact(impact)
                  /\ \A k \in 0 .. Cardinality(Constraining(impact)) : g[k] \in Widening(seen, scope, impact)
                  /\ \A k \in 1 .. Cardinality(Constraining(impact)) : g[k] = (IF ImpactSize(g[k - 1]) > ImpactBudget THEN WidenLargest(g[k - 1]) ELSE g[k - 1])
<1> DEFINE n == Cardinality(Constraining(impact))
           V == Widening(seen, scope, impact)
           Op(v, k) == (IF ImpactSize(v) > ImpactBudget THEN WidenLargest(v) ELSE v)
           G == [k \in 1 .. n |-> [v \in V |-> Op(v, k)]]
           Solves(h) ==
             h = [t \in SUBSET (1 .. n) |->
                    IF t = {} THEN impact ELSE Op(h[t \ {Max(t)}], Max(t))]
<1>1. n \in Nat /\ DOMAIN [m \in 1 .. Cardinality(Constraining(impact)) |-> m] = 1 .. n /\ impact \in V
  <2>1. Cardinality(Constraining(impact)) \in Nat
    BY ConstrainingFinite, FS_CardinalityType
  <2>2. impact \in Widening(seen, scope, impact)
    BY DEF Widening, ImpactKept
  <2> QED BY <2>1, <2>2
<1>2. ASSUME NEW k \in 1 .. n, NEW v \in V PROVE Op(v, k) \in V
  <2>1. v \in Impacts(seen, scope) /\ ImpactKept(impact, v)
    BY DEF Widening
  <2>2. WidenLargest(v) \in Impacts(seen, scope) /\ ImpactKept(v, WidenLargest(v))
    BY <2>1, WidenKeeps DEF Widening
  <2>3. ImpactKept(impact, WidenLargest(v))
    BY <2>1, <2>2 DEF ImpactKept
  <2> QED BY <2>1, <2>2, <2>3 DEF Widening
<1>3. G \in [1 .. n -> [V -> V]]
  <2> HIDE DEF V, n, Op
  <2> QED BY <1>2
<1>4. ASSUME NEW t \in SUBSET (1 .. n), t # {}, NEW v \in V PROVE G[Max(t)][v] = Op(v, Max(t))
  <2>1. Max(t) \in 1 .. n
    BY <1>1, <1>4, MaxIn
  <2> HIDE DEF V, n, Op
  <2> QED BY <2>1
<1>5. \E h : Solves(h)
  <2>1. PICK h \in [SUBSET (1 .. n) -> V] : FoldTable(h, impact, n, G)
    <3> HIDE DEF G, V, n
    <3> QED BY <1>1, <1>3, FoldExists
  <2>2. \A t \in SUBSET (1 .. n) : h[t \ {Max(t)}] \in V
    BY <2>1
  <2>3. Solves(h)
    <3> HIDE DEF G, V, n, Op
    <3> QED BY <1>4, <2>1, <2>2 DEF FoldTable
  <2> QED BY <2>3
<1>6. PICK h : Solves(h) /\ BoundImpact(impact) = h[1 .. n]
  <2>1. Solves(CHOOSE h : Solves(h))
    BY <1>5
  <2>2. BoundImpact(impact) = (CHOOSE h : Solves(h))[1 .. n]
    BY <1>1 DEF BoundImpact, FoldLeft, MapThenFoldSet
  <2> QED BY <2>1, <2>2
<1>7. Applies(h, impact, n, G, V)
  <2> HIDE DEF G, V, n, Op
  <2> QED BY <1>4, <1>6 DEF Applies
<1>8. PICK g : FoldSteps(g, impact, h[1 .. n], n, G, V)
  <2> HIDE DEF G, V, n, Op, Solves
  <2> QED BY <1>1, <1>3, <1>7, FoldWalk
<1>9. \A k \in 1 .. n : g[k] = Op(g[k - 1], k)
  <2>1. \A k \in 1 .. n : k - 1 \in 0 .. n
    BY <1>1
  <2> HIDE DEF V, n, Op
  <2> QED BY <1>8, <2>1 DEF FoldSteps
<1>10. g[0] = impact /\ g[n] = BoundImpact(impact) /\ \A k \in 0 .. n : g[k] \in V
  <2> HIDE DEF V, n, Op, Solves
  <2> QED BY <1>6, <1>8 DEF FoldSteps
<1> HIDE DEF Solves
<1> QED BY <1>9, <1>10

LEMMA BoundKeeps ==
    ASSUME NEW seen, NEW scope, NEW impact \in Impacts(seen, scope)
    PROVE  BoundImpact(impact) \in Widening(seen, scope, impact)
<1> DEFINE n == Cardinality(Constraining(impact))
<1>1. PICK g : g[n] = BoundImpact(impact) /\ \A k \in 0 .. n : g[k] \in Widening(seen, scope, impact)
  BY BoundFold
<1>2. n \in Nat
  BY ConstrainingFinite, FS_CardinalityType
<1>3. n \in 0 .. n
  BY <1>2
<1> QED BY <1>1, <1>3

LEMMA MergedStatus ==
    ASSUME NEW left, NEW right, left.status \in {"verified", "conservative"},
           right.status \in Statuses, left.codes \in SUBSET Codes, right.codes \in SUBSET Codes
    PROVE  /\ MergeAssessment(left, right).status \in Statuses
           /\ MergeAssessment(left, right).codes \in SUBSET Codes
           /\ right.status # "unavailable" => MergeAssessment(left, right).status # "unavailable"
<1> DEFINE statuses == {left.status, right.status}
           Wins(s) == \/ s = "unavailable"
                      \/ s = "conservative" /\ "unavailable" \notin statuses
                      \/ statuses = {"verified"}
           status == CHOOSE s \in statuses : Wins(s)
<1>1. \E s \in statuses : Wins(s)
  <2>1. CASE right.status = "unavailable"
    BY <2>1
  <2>2. CASE right.status # "unavailable" /\ "conservative" \in statuses
    BY <2>2
  <2>3. CASE right.status # "unavailable" /\ "conservative" \notin statuses
    BY <2>3 DEF Statuses
  <2> QED BY <2>1, <2>2, <2>3
<1>2. status \in statuses /\ Wins(status)
  <2> HIDE DEF statuses, Wins
  <2> QED BY <1>1
<1>3. MergeAssessment(left, right) = [status |-> status, codes |-> left.codes \cup right.codes]
  BY DEF MergeAssessment, Assessed
<1> HIDE DEF status
<1>4. status \in Statuses /\ (right.status # "unavailable" => status # "unavailable")
  BY <1>2 DEF Statuses
<1> QED BY <1>3, <1>4

\* The impact an accumulator stands for before the report is applied.
CalculatedOf(acc) ==
    [e \in Endpoint |->
        [status |-> IF e \in acc.reduced THEN "conservative" ELSE "verified",
         codes |-> IF e \in acc.reduced THEN {"PRECISION_REDUCED"} ELSE {},
         targets |-> [s \in Scopes |-> acc.targets[<<e, s>>]]]]

LEMMA CalculatedTyped ==
    ASSUME NEW seen, NEW scope, NEW acc \in Accs(seen, scope)
    PROVE  /\ CalculatedOf(acc) \in Impacts(seen, scope)
           /\ \A e \in Endpoint :
                 /\ CalculatedOf(acc)[e].status \in {"verified", "conservative"}
                 /\ \A s \in Scopes : CalculatedOf(acc)[e].targets[s] = acc.targets[<<e, s>>]
<1> DEFINE one(e) == [status |-> IF e \in acc.reduced THEN "conservative" ELSE "verified",
                      codes |-> IF e \in acc.reduced THEN {"PRECISION_REDUCED"} ELSE {},
                      targets |-> [s \in Scopes |-> acc.targets[<<e, s>>]]]
<1>1. ASSUME NEW e \in Endpoint
      PROVE  /\ one(e) \in [status : Statuses, codes : SUBSET Codes,
                            targets : [Scopes -> SUBSET SUBSET Pairs]]
             /\ one(e).status \in {"verified", "conservative"}
             /\ one(e).targets["caller"] \in SUBSET SUBSET SeenPairs(seen, scope)
             /\ \A s \in Scopes : one(e).targets[s] = acc.targets[<<e, s>>]
  <2> DEFINE targets == [s \in Scopes |-> acc.targets[<<e, s>>]]
             codes == IF e \in acc.reduced THEN {"PRECISION_REDUCED"} ELSE {}
             status == IF e \in acc.reduced THEN "conservative" ELSE "verified"
  <2>1. /\ acc.targets \in [Endpoint \X Scopes -> SUBSET SUBSET Pairs]
        /\ acc.targets[<<e, "caller">>] \in SUBSET SUBSET SeenPairs(seen, scope)
    BY DEF Accs
  <2>2. \A s \in Scopes : <<e, s>> \in Endpoint \X Scopes
    OBVIOUS
  <2>3. targets \in [Scopes -> SUBSET SUBSET Pairs]
    BY <2>1, <2>2
  <2>4. targets["caller"] = acc.targets[<<e, "caller">>]
    BY DEF Scopes
  <2>5. codes \in SUBSET Codes /\ status \in Statuses /\ status \in {"verified", "conservative"}
    <3>1. {"PRECISION_REDUCED"} \in SUBSET Codes
      BY CodeTyped
    <3>2. codes \in {{}, {"PRECISION_REDUCED"}} /\ status \in {"verified", "conservative"}
      OBVIOUS
    <3> HIDE DEF codes, status
    <3>3. codes \in SUBSET Codes
      BY <3>1, <3>2
    <3> QED BY <3>2, <3>3 DEF Statuses
  <2>6. \A s \in Scopes : targets[s] = acc.targets[<<e, s>>]
    OBVIOUS
  <2>7. one(e) = [status |-> status, codes |-> codes, targets |-> targets]
    OBVIOUS
  <2> HIDE DEF targets, codes, status, one
  <2> QED BY <2>1, <2>3, <2>4, <2>5, <2>6, <2>7
<1>2. CalculatedOf(acc) = [e \in Endpoint |-> one(e)]
  BY DEF CalculatedOf
<1> HIDE DEF one
<1>3. \A e \in Endpoint : CalculatedOf(acc)[e] = one(e)
  BY <1>2
<1>4. CalculatedOf(acc) \in [Endpoint -> [status : Statuses, codes : SUBSET Codes,
                                          targets : [Scopes -> SUBSET SUBSET Pairs]]]
  BY <1>1, <1>2
<1> QED BY <1>1, <1>3, <1>4 DEF Impacts

\* The impact of a command reports every input one of its facts may affect, at
\* an endpoint the report does not call unavailable, and a caller's selectors
\* name only values seen in rows of its scope.
THEOREM CalculationCovers ==
    ASSUME NEW seen, NEW scope, NEW facts \in Seq(FactsFrom(seen)), NEW report \in Assessments
    PROVE  /\ \A endpoint \in Endpoint : \A input :
                 /\ report[endpoint].status # "unavailable"
                 /\ MayAffect(facts, endpoint, input, scope)
                 => Reports(CalculateImpact(facts, scope, report), endpoint, input)
           /\ \A endpoint \in Endpoint :
                 CalculateImpact(facts, scope, report)[endpoint].targets["caller"]
                    \in SUBSET SUBSET SeenPairs(seen, scope)
<1> DEFINE acc == Accumulate(facts, scope, report)
           first == CalculatedOf(acc)
           merged(e) == MergeAssessment(Assessed(first[e].status, first[e].codes), report[e])
           second == [e \in Endpoint |->
                        [status |-> merged(e).status, codes |-> merged(e).codes,
                         targets |-> IF merged(e).status = "unavailable"
                                     THEN NoScopeTargets ELSE first[e].targets]]
           last == BoundImpact(second)
<1>1. CalculateImpact(facts, scope, report) = last
  BY DEF CalculateImpact, ApplyAssessment, CalculatedOf
<1>2. /\ acc \in Accs(seen, scope)
      /\ \A input : \A endpoint \in Endpoint : \A i \in DOMAIN facts :
            /\ report[endpoint].status # "unavailable"
            /\ FactMayAffect(facts[i], endpoint, input, scope)
            => Matched(acc, endpoint, input)
  BY AccumulateKeeps
<1> HIDE DEF acc
<1>3. /\ first \in Impacts(seen, scope)
      /\ \A e \in Endpoint :
            /\ first[e].status \in {"verified", "conservative"}
            /\ \A s \in Scopes : first[e].targets[s] = acc.targets[<<e, s>>]
  BY <1>2, CalculatedTyped
<1> HIDE DEF first
<1>4. ASSUME NEW e \in Endpoint
      PROVE  /\ merged(e).status \in Statuses /\ merged(e).codes \in SUBSET Codes
             /\ report[e].status # "unavailable" => merged(e).status # "unavailable"
  <2> DEFINE left == Assessed(first[e].status, first[e].codes)
             right == report[e]
  <2>1. /\ right.status \in Statuses /\ right.codes \in SUBSET Codes
    BY DEF Assessments
  <2>2. first[e].codes \in SUBSET Codes /\ first[e].status \in {"verified", "conservative"}
    BY <1>3, ImpactFields
  <2>3. left.status \in {"verified", "conservative"} /\ left.codes \in SUBSET Codes
    BY <2>2 DEF Assessed
  <2> HIDE DEF left, right
  <2>4. /\ MergeAssessment(left, right).status \in Statuses
        /\ MergeAssessment(left, right).codes \in SUBSET Codes
        /\ right.status # "unavailable" => MergeAssessment(left, right).status # "unavailable"
    BY <2>1, <2>3, MergedStatus
  <2> QED BY <2>4 DEF left, right
<1> HIDE DEF merged
<1>5. /\ NoScopeTargets \in [Scopes -> SUBSET SUBSET Pairs]
      /\ NoScopeTargets["caller"] \in SUBSET SUBSET SeenPairs(seen, scope)
  BY DEF NoScopeTargets, Scopes
<1>6. /\ second \in Impacts(seen, scope)
      /\ \A e \in Endpoint : report[e].status # "unavailable" => second[e].targets = first[e].targets
  <2> DEFINE targets(e) == IF merged(e).status = "unavailable"
                           THEN NoScopeTargets ELSE first[e].targets
             one(e) == [status |-> merged(e).status, codes |-> merged(e).codes, targets |-> targets(e)]
  <2>1. ASSUME NEW e \in Endpoint
        PROVE  /\ targets(e) \in [Scopes -> SUBSET SUBSET Pairs]
               /\ targets(e)["caller"] \in SUBSET SUBSET SeenPairs(seen, scope)
               /\ report[e].status # "unavailable" => targets(e) = first[e].targets
    <3>1. /\ first[e].targets \in [Scopes -> SUBSET SUBSET Pairs]
          /\ first[e].targets["caller"] \in SUBSET SUBSET SeenPairs(seen, scope)
      BY <1>3, ImpactFields
    <3> QED BY <1>4, <1>5, <3>1
  <2> HIDE DEF targets
  <2>2. ASSUME NEW e \in Endpoint
        PROVE  /\ one(e) \in [status : Statuses, codes : SUBSET Codes,
                              targets : [Scopes -> SUBSET SUBSET Pairs]]
               /\ one(e).targets = targets(e)
    BY <1>4, <2>1
  <2>3. second = [e \in Endpoint |-> one(e)]
    BY DEF targets
  <2> HIDE DEF one, second
  <2>4. second \in [Endpoint -> [status : Statuses, codes : SUBSET Codes,
                                 targets : [Scopes -> SUBSET SUBSET Pairs]]]
    BY <2>2, <2>3
  <2>5. \A e \in Endpoint : second[e].targets = targets(e)
    BY <2>2, <2>3
  <2> QED BY <2>1, <2>4, <2>5 DEF Impacts
<1> HIDE DEF second
<1>7. last \in Impacts(seen, scope) /\ ImpactKept(second, last)
  BY <1>6, BoundKeeps DEF Widening
<1> HIDE DEF last
<1>8. ASSUME NEW endpoint \in Endpoint, NEW input, report[endpoint].status # "unavailable",
             MayAffect(facts, endpoint, input, scope)
      PROVE  Reports(last, endpoint, input)
  <2>1. PICK i \in DOMAIN facts : FactMayAffect(facts[i], endpoint, input, scope)
    BY <1>8 DEF MayAffect, FactMayAffect
  <2>2. Matched(acc, endpoint, input)
    BY <1>2, <1>8, <2>1
  <2>3. PICK s \in Scopes : Matches(input, acc.targets[<<endpoint, s>>])
    BY <2>2 DEF Matched
  <2>4. Matches(input, second[endpoint].targets[s])
    BY <1>3, <1>6, <1>8, <2>3
  <2>5. Matches(input, last[endpoint].targets[s])
    BY <1>7, <2>4 DEF ImpactKept
  <2> QED BY <2>5 DEF Reports
<1>9. \A endpoint \in Endpoint :
         last[endpoint].targets["caller"] \in SUBSET SUBSET SeenPairs(seen, scope)
  BY <1>7, ImpactFields
<1> QED BY <1>1, <1>8, <1>9

\* Each of its facts is one the write set holds.
LEMMA SnapshotHeld ==
    ASSUME NEW seen, NEW writes \in WriteSets(seen)
    PROVE  \A m \in DOMAIN Snapshot(writes) : Holds(writes, Snapshot(writes)[m])
<1> DEFINE held == {fact \in WriteFact : Holds(writes, fact)}
           seqs == [i \in DOMAIN writes |-> writes[i].facts]
<1>1. ASSUME NEW i \in DOMAIN writes PROVE writes[i].facts \in Seq(held)
  <2>1. writes[i] \in Entries(seen)
    BY DEF WriteSets
  <2> DEFINE facts == writes[i].facts
  <2>2. facts \in Seq(FactsFrom(seen)) /\ \A k \in DOMAIN facts : facts[k] \in WriteFact
    BY <2>1, EntryFields
  <2>3. ASSUME NEW k \in DOMAIN facts PROVE facts[k] \in held
    <3>1. facts[k] \in WriteFact /\ Wider(facts[k], facts[k])
      BY <2>2, WiderSelf
    <3>2. Holds(writes, facts[k])
      BY <3>1 DEF Holds
    <3> QED BY <3>1, <3>2
  <2> HIDE DEF facts, held
  <2>4. DOMAIN facts = 1 .. Len(facts) /\ Len(facts) \in Nat
    BY <2>2
  <2>5. facts \in Seq(held)
    BY <2>2, <2>3, <2>4
  <2> QED BY <2>5 DEF facts
<1> HIDE DEF held
<1>2. seqs \in Seq(Seq(held))
  <2>1. DOMAIN writes = 1 .. Len(writes) /\ Len(writes) \in Nat
    BY DEF WriteSets
  <2>2. \A i \in 1 .. Len(writes) : writes[i].facts \in Seq(held)
    BY <1>1, <2>1
  <2> QED BY <2>1, <2>2
<1>3. Snapshot(writes) = FlattenSeq(seqs)
  BY DEF Snapshot
<1> HIDE DEF seqs
<1>4. Snapshot(writes) \in Seq(held)
  BY <1>2, <1>3, Flattened
<1>5. \A m \in DOMAIN Snapshot(writes) : Snapshot(writes)[m] \in held
  BY <1>4
<1> QED BY <1>5 DEF held

-----------------------------------------------------------------------------
(* A write set and the facts it was given. *)

RowsOf(facts) == UNION {{facts[i].before, facts[i].after} : i \in DOMAIN facts}

\* A write set that stands for the facts it was given, and names no others' values.
Stands(writes, facts) ==
    /\ writes \in WriteSets(RowsOf(facts))
    /\ \A k \in DOMAIN facts : Holds(writes, facts[k])

\* More rows seen allow more.
LEMMA SeenMore ==
    ASSUME NEW seen, NEW more, seen \subseteq more
    PROVE  FactsFrom(seen) \subseteq FactsFrom(more) /\ WriteSets(seen) \subseteq WriteSets(more)
<1>1. FactsFrom(seen) \subseteq FactsFrom(more)
  BY DEF FactsFrom, From
<1>2. ASSUME NEW facts \in Seq(FactsFrom(seen)) PROVE facts \in Seq(FactsFrom(more))
  <2>1. \A i \in 1 .. Len(facts) : facts[i] \in FactsFrom(more)
    BY <1>1
  <2> QED BY <2>1
<1>3. ASSUME NEW entry \in Entries(seen) PROVE entry \in Entries(more)
  <2> DEFINE facts == entry.facts
  <2>1. entry = [resource |-> entry.resource, facts |-> facts, summarized |-> entry.summarized]
    BY DEF Entries
  <2>2. facts \in Seq(FactsFrom(more))
    BY <1>2, EntryFields
  <2>3. /\ entry.resource \in Resource /\ entry.summarized \in BOOLEAN
        /\ facts # <<>> /\ (entry.summarized => Len(facts) = 1)
        /\ \A k \in DOMAIN facts : facts[k].resource = entry.resource
    BY EntryFields
  <2>4. entry \in [resource : Resource, facts : Seq(FactsFrom(more)), summarized : BOOLEAN]
    <3> HIDE DEF facts
    <3> QED BY <2>1, <2>2, <2>3
  <2> QED BY <2>3, <2>4 DEF Entries
<1>4. ASSUME NEW writes \in Seq(Entries(seen)) PROVE writes \in Seq(Entries(more))
  <2>1. \A i \in 1 .. Len(writes) : writes[i] \in Entries(more)
    BY <1>3
  <2> QED BY <2>1
<1> QED BY <1>1, <1>4 DEF WriteSets

LEMMA RowsTyped ==
    ASSUME NEW facts \in Seq(WriteFact)
    PROVE  RowsOf(facts) \subseteq RowState
<1>1. \A i \in DOMAIN facts : facts[i] \in WriteFact
  OBVIOUS
<1>2. \A fact \in WriteFact : fact.before \in RowState /\ fact.after \in RowState
  BY DEF WriteFact
<1> QED BY <1>1, <1>2 DEF RowsOf

LEMMA StandsTyped ==
    ASSUME NEW writes, NEW facts \in Seq(WriteFact), Stands(writes, facts)
    PROVE  writes \in WriteSets(RowState)
  BY RowsTyped, SeenMore DEF Stands

\* A fact is made of its own rows.
LEMMA FactOfRows ==
    ASSUME NEW fact \in WriteFact, NEW seen, fact.before \in seen, fact.after \in seen
    PROVE  fact \in FactsFrom(seen)
  BY DEF FactsFrom, From

LEMMA NothingStands == Stands(NoWrites, <<>>)
<1>1. NoWrites \in WriteSets(RowsOf(<<>>))
  BY DEF NoWrites, WriteSets
<1> QED BY <1>1 DEF Stands

LEMMA HoldsWider ==
    ASSUME NEW seen, NEW writes \in WriteSets(seen), NEW wide \in WriteFact, NEW fact \in WriteFact,
           Holds(writes, wide), Wider(wide, fact)
    PROVE  Holds(writes, fact)
<1>1. PICK i \in DOMAIN writes : \E k \in DOMAIN writes[i].facts : Wider(writes[i].facts[k], wide)
  BY DEF Holds
<1>2. PICK k \in DOMAIN writes[i].facts : Wider(writes[i].facts[k], wide)
  BY <1>1
<1>3. writes[i] \in Entries(seen)
  BY DEF WriteSets
<1>4. writes[i].facts[k] \in WriteFact
  BY <1>3, EntryFields
<1>5. Wider(writes[i].facts[k], fact)
  BY <1>2, <1>4, WiderChain
<1> QED BY <1>5 DEF Holds

\* An observed fact added to the innermost buffer.
LEMMA AddStands ==
    ASSUME NEW writes, NEW facts \in Seq(WriteFact), Stands(writes, facts), NEW fact \in WriteFact
    PROVE  /\ Stands(Add(writes, <<fact>>), Append(facts, fact))
           /\ Keeps(writes, Add(writes, <<fact>>))
<1> DEFINE all == Append(facts, fact)
           seen == RowsOf(all)
           after == Add(writes, <<fact>>)
<1>1. /\ all \in Seq(WriteFact) /\ DOMAIN all = 1 .. Len(facts) + 1
      /\ DOMAIN facts = 1 .. Len(facts) /\ Len(facts) \in Nat
      /\ all[Len(facts) + 1] = fact /\ \A k \in DOMAIN facts : all[k] = facts[k]
  OBVIOUS
<1> HIDE DEF all
<1>2. RowsOf(facts) \subseteq seen
  BY <1>1 DEF RowsOf
<1>3. fact.before \in seen /\ fact.after \in seen
  <2>1. Len(facts) + 1 \in DOMAIN all
    BY <1>1
  <2> QED BY <1>1, <2>1 DEF RowsOf
<1> HIDE DEF seen
<1>4. writes \in WriteSets(seen) /\ fact \in FactsFrom(seen)
  BY <1>2, <1>3, SeenMore, FactOfRows DEF Stands
<1>5. <<fact>> \in Seq(FactsFrom(seen)) /\ 1 \in DOMAIN <<fact>> /\ <<fact>>[1] = fact
  BY <1>4
<1>6. /\ after \in WriteSets(seen) /\ Keeps(writes, after) /\ Holds(after, fact)
  <2> DEFINE new == <<fact>>
  <2> HIDE DEF new
  <2>1. new \in Seq(FactsFrom(seen)) /\ 1 \in DOMAIN new /\ new[1] = fact
    BY <1>5 DEF new
  <2>2. /\ Add(writes, new) \in WriteSets(seen) /\ Keeps(writes, Add(writes, new))
        /\ \A k \in DOMAIN new : Holds(Add(writes, new), new[k])
    BY <1>4, <2>1, AddKeeps
  <2> QED BY <2>1, <2>2 DEF new
<1> HIDE DEF after
<1>7. ASSUME NEW k \in DOMAIN all PROVE Holds(after, all[k])
  <2>1. CASE k = Len(facts) + 1
    BY <1>1, <1>6, <2>1
  <2>2. CASE k # Len(facts) + 1
    <3>1. k \in DOMAIN facts /\ all[k] = facts[k] /\ facts[k] \in WriteFact
      BY <1>1, <2>2
    <3> QED BY <1>6, <3>1 DEF Stands, Keeps
  <2> QED BY <2>1, <2>2
<1> QED BY <1>6, <1>7 DEF Stands, seen, all, after

\* A released savepoint's buffer merged into the one around it.
LEMMA MergeStands ==
    ASSUME NEW writes, NEW facts \in Seq(WriteFact), Stands(writes, facts),
           NEW child, NEW given \in Seq(WriteFact), Stands(child, given)
    PROVE  /\ Stands(Merge(writes, child), facts \o given)
           /\ Keeps(writes, Merge(writes, child))
<1> DEFINE all == facts \o given
           seen == RowsOf(all)
           added == Snapshot(child)
           after == Add(writes, added)
<1>1. /\ all \in Seq(WriteFact) /\ Len(facts) \in Nat /\ Len(given) \in Nat
      /\ DOMAIN facts = 1 .. Len(facts) /\ DOMAIN given = 1 .. Len(given)
      /\ DOMAIN all = 1 .. Len(facts) + Len(given)
      /\ \A m \in DOMAIN facts : m \in DOMAIN all /\ all[m] = facts[m]
      /\ \A m \in DOMAIN given : Len(facts) + m \in DOMAIN all /\ all[Len(facts) + m] = given[m]
  OBVIOUS
<1> HIDE DEF all
<1>2. RowsOf(facts) \subseteq seen /\ RowsOf(given) \subseteq seen
  <2>1. RowsOf(facts) \subseteq seen
    BY <1>1 DEF RowsOf
  <2>2. RowsOf(given) \subseteq seen
    BY <1>1 DEF RowsOf
  <2> QED BY <2>1, <2>2
<1> HIDE DEF seen
<1>3. writes \in WriteSets(seen) /\ child \in WriteSets(seen)
  BY <1>2, SeenMore DEF Stands
<1>4. /\ added \in Seq(FactsFrom(seen))
      /\ \A fact \in WriteFact : Holds(child, fact) => \E m \in DOMAIN added : Wider(added[m], fact)
  BY <1>3, SnapshotFacts
<1> HIDE DEF added
<1>5. /\ after \in WriteSets(seen) /\ Keeps(writes, after)
      /\ \A m \in DOMAIN added : Holds(after, added[m])
  BY <1>3, <1>4, AddKeeps
<1> HIDE DEF after
<1>6. \A k \in DOMAIN facts : Holds(after, facts[k])
  <2>1. \A k \in DOMAIN facts : facts[k] \in WriteFact
    OBVIOUS
  <2> QED BY <1>5, <2>1 DEF Stands, Keeps
<1>7. ASSUME NEW k \in DOMAIN given PROVE Holds(after, given[k])
  <2>1. given[k] \in WriteFact /\ Holds(child, given[k])
    BY DEF Stands
  <2>2. PICK m \in DOMAIN added : Wider(added[m], given[k])
    BY <1>4, <2>1
  <2>3. added[m] \in WriteFact
    BY <1>4 DEF FactsFrom
  <2> QED BY <1>5, <2>1, <2>2, <2>3, HoldsWider
<1>8. ASSUME NEW k \in DOMAIN all PROVE Holds(after, all[k])
  <2>1. CASE k \in DOMAIN facts
    BY <1>1, <1>6, <2>1
  <2>2. CASE k \notin DOMAIN facts
    <3>1. k - Len(facts) \in DOMAIN given /\ Len(facts) + (k - Len(facts)) = k
      BY <1>1, <2>2
    <3>2. all[k] = given[k - Len(facts)]
      BY <1>1, <3>1
    <3> QED BY <1>7, <3>1, <3>2
  <2> QED BY <2>1, <2>2
<1>9. Merge(writes, child) = after
  BY DEF Merge, after, added
<1> QED BY <1>5, <1>8, <1>9 DEF Stands, seen, all

-----------------------------------------------------------------------------
(* From the facts of a command to its impact. *)

\* The reads of a resource are the declared reads that name it.
LEMMA ReadsIndexed ==
    ASSUME NEW resource \in Resource, NEW read
    PROVE  read \in ToSet(ReadsOf(resource)) <=> read \in ToSet(Reads) /\ read.resource = resource
<1> DEFINE n == Len(Reads)
           Shared(k, s) == \A r : (\E i \in DOMAIN s : s[i] = r)
                              <=> (\E i \in 1 .. k : Reads[i] = r /\ r.resource = resource)
<1>1. PICK g : /\ g[0] = <<>> /\ g[n] = ReadsOf(resource)
               /\ \A k \in 0 .. n : g[k] \in Seq(ReadsAbout(resource))
               /\ \A k \in 1 .. n :
                     g[k] = (IF Reads[k].resource = resource THEN Append(g[k - 1], Reads[k]) ELSE g[k - 1])
  BY ReadsFold
<1>2. n \in Nat /\ DOMAIN Reads = 1 .. n
  BY CalculateAssumption
<1> DEFINE T == {k \in 0 .. n : Shared(k, g[k])}
<1>3. 0 \in T
  BY <1>1, <1>2
<1>4. ASSUME NEW k \in 0 .. n, k < n, k \in T PROVE k + 1 \in T
  <2>1. k + 1 \in 1 .. n /\ (k + 1) - 1 = k /\ k + 1 \in 0 .. n /\ g[k] \in Seq(ReadsAbout(resource))
    BY <1>1, <1>2, <1>4
  <2>2. \A i : i \in 1 .. k + 1 <=> i \in 1 .. k \/ i = k + 1
    BY <1>2, <2>1
  <2>3. g[k + 1] = IF Reads[k + 1].resource = resource THEN Append(g[k], Reads[k + 1]) ELSE g[k]
    BY <1>1, <2>1
  <2>4. CASE Reads[k + 1].resource = resource
    <3>1. g[k + 1] = Append(g[k], Reads[k + 1])
      BY <2>3, <2>4
    <3>2. \A r : (\E i \in DOMAIN g[k + 1] : g[k + 1][i] = r)
                <=> (\E i \in DOMAIN g[k] : g[k][i] = r) \/ r = Reads[k + 1]
      <4> DEFINE s == g[k]
                 x == Reads[k + 1]
                 m == Len(s)
      <4>1. s \in Seq(ReadsAbout(resource)) /\ m \in Nat /\ DOMAIN s = 1 .. m
        BY <2>1
      <4>2. /\ DOMAIN Append(s, x) = 1 .. m + 1 /\ Append(s, x)[m + 1] = x
            /\ \A i \in 1 .. m : Append(s, x)[i] = s[i]
        <5> HIDE DEF s, x
        <5> QED BY <4>1
      <4>3. \A i \in 1 .. m + 1 : i \in 1 .. m \/ i = m + 1
        BY <4>1
      <4>4. m + 1 \in 1 .. m + 1 /\ \A i \in 1 .. m : i \in 1 .. m + 1
        BY <4>1
      <4> HIDE DEF s, x, m
      <4>5. \A r : (\E i \in DOMAIN Append(s, x) : Append(s, x)[i] = r)
                  <=> (\E i \in DOMAIN s : s[i] = r) \/ r = x
        BY <4>1, <4>2, <4>3, <4>4
      <4> QED BY <3>1, <4>5 DEF s, x
    <3>3. Shared(k, g[k])
      BY <1>4
    <3>4. Shared(k + 1, g[k + 1])
      BY <2>2, <2>4, <3>2, <3>3
    <3> QED BY <2>1, <3>4
  <2>5. CASE Reads[k + 1].resource # resource
    <3>1. g[k + 1] = g[k]
      BY <2>3, <2>5
    <3>2. Shared(k + 1, g[k + 1])
      BY <1>4, <2>2, <2>5, <3>1
    <3> QED BY <2>1, <3>2
  <2> QED BY <2>4, <2>5
<1>5. n \in T
  <2> HIDE DEF T
  <2>1. \A k \in 0 .. n : k \in T
    BY <1>2, <1>3, <1>4, SegmentInduction
  <2> QED BY <1>2, <2>1
<1>6. Shared(n, ReadsOf(resource))
  BY <1>1, <1>5
<1>7. read \in ToSet(ReadsOf(resource)) <=> \E i \in DOMAIN ReadsOf(resource) : ReadsOf(resource)[i] = read
  BY DEF ToSet
<1>8. read \in ToSet(Reads) <=> \E i \in 1 .. n : Reads[i] = read
  BY <1>2 DEF ToSet
<1> HIDE DEF n
<1> QED BY <1>6, <1>7, <1>8

\* What is known of a row excludes fewer answers than all that is stored in it.
LEMMA CarriedExcludes ==
    ASSUME NEW scope, NEW fields, NEW equality, NEW carried,
           fields \subseteq carried, equality \subseteq carried,
           NEW read, NEW input, NEW caller,
           MayBelong(KnownRow(scope, carried, carried), read, input, caller)
    PROVE  MayBelong(KnownRow(scope, fields, equality), read, input, caller)
  BY DEF MayBelong, KnownRow

\* Whatever a fact of the command may affect is reported.
LEMMA FactsCovered ==
    ASSUME NEW facts \in Seq(WriteFact), NEW scope, NEW e \in Endpoint, NEW input,
           MayAffect(facts, e, input, scope)
    PROVE  Reports(CalculateImpact(Snapshot(Add(NoWrites, facts)), scope, [x \in Endpoint |-> Verified]),
                   e, input)
<1> DEFINE writes == Add(NoWrites, facts)
           report == [x \in Endpoint |-> Verified]
<1>1. \A fact \in WriteFact : fact \in FactsFrom(RowState)
  <2>1. \A fact \in WriteFact : fact.before \in RowState /\ fact.after \in RowState
    BY DEF WriteFact
  <2> QED BY <2>1, FactOfRows
<1>2. facts \in Seq(FactsFrom(RowState))
  BY <1>1
<1>3. NoWrites \in WriteSets(RowState)
  BY DEF NoWrites, WriteSets
<1>4. writes \in WriteSets(RowState) /\ \A k \in DOMAIN facts : Holds(writes, facts[k])
  BY <1>2, <1>3, AddKeeps
<1> HIDE DEF writes
<1>5. /\ Snapshot(writes) \in Seq(FactsFrom(RowState))
      /\ \A k \in DOMAIN facts : \E m \in DOMAIN Snapshot(writes) : Wider(Snapshot(writes)[m], facts[k])
  <2>1. \A k \in DOMAIN facts : facts[k] \in WriteFact
    OBVIOUS
  <2> QED BY <1>4, <2>1, SnapshotFacts
<1>6. Snapshot(writes) \in Seq(WriteFact)
  <2>1. FactsFrom(RowState) \subseteq WriteFact
    BY DEF FactsFrom
  <2> QED BY <1>5, <2>1, SeqMonotonic
<1>7. MayAffect(Snapshot(writes), e, input, scope)
  BY <1>5, <1>6, WiderAffects
<1>8. report \in Assessments /\ report[e].status # "unavailable"
  <2>1. Verified \in [status : Statuses, codes : SUBSET Codes] /\ Verified.status = "verified"
    BY DEF Verified, Statuses
  <2> QED BY <2>1 DEF Assessments
<1> HIDE DEF report
<1>9. Reports(CalculateImpact(Snapshot(writes), scope, report), e, input)
  BY <1>5, <1>7, <1>8, CalculationCovers
<1> QED BY <1>9 DEF writes, report

-----------------------------------------------------------------------------
(* Sums over sets. *)

Some(s) == CHOOSE x \in s : TRUE

\* h is what a sum of the numbers F[x] takes of each subset of a set.
SumTable(h, set, F) ==
    h = [s \in SUBSET set |-> IF s = {} THEN 0 ELSE F[Some(s)] + h[s \ {Some(s)}]]

LEMMA SomeIn == ASSUME NEW s, s # {} PROVE Some(s) \in s
  BY DEF Some

\* A finite set has such an h.
LEMMA SumExists ==
    ASSUME NEW set, IsFiniteSet(set), NEW F \in [set -> Nat]
    PROVE  \E h : SumTable(h, set, F)
<1> DEFINE Upto(k) == {s \in SUBSET set : Cardinality(s) <= k}
           Next(h, s) == IF s = {} THEN 0 ELSE F[Some(s)] + h[s \ {Some(s)}]
           Solves(h, k) == \A s \in Upto(k) : h[s] \in Nat /\ h[s] = Next(h, s)
           T == {k \in Nat : \E h : Solves(h, k)}
<1>1. ASSUME NEW s \in SUBSET set
      PROVE  /\ IsFiniteSet(s) /\ Cardinality(s) \in Nat /\ (Cardinality(s) = 0 <=> s = {})
             /\ s # {} => /\ Some(s) \in s /\ s \ {Some(s)} \in SUBSET set
                          /\ Cardinality(s \ {Some(s)}) = Cardinality(s) - 1
  <2>1. IsFiniteSet(s) /\ Cardinality(s) \in Nat
    BY FS_Subset, FS_CardinalityType
  <2>2. Cardinality(s) = 0 <=> s = {}
    BY <2>1, FS_EmptySet
  <2>3. s # {} => Some(s) \in s
    BY SomeIn
  <2>4. ASSUME NEW x \in s PROVE Cardinality(s \ {x}) = Cardinality(s) - 1
    BY <2>1, FS_RemoveElement
  <2> QED BY <2>1, <2>2, <2>3, <2>4
<1>2. 0 \in T
  <2> DEFINE h == [s \in SUBSET set |-> 0]
  <2>1. ASSUME NEW s \in Upto(0) PROVE s = {} /\ h[s] = 0
    <3>1. s \in SUBSET set /\ Cardinality(s) <= 0
      OBVIOUS
    <3>2. Cardinality(s) \in Nat /\ (Cardinality(s) = 0 <=> s = {})
      BY <1>1, <3>1
    <3> QED BY <3>1, <3>2
  <2>2. Solves(h, 0)
    <3> HIDE DEF h
    <3> QED BY <2>1
  <2> QED BY <2>2
<1>3. ASSUME NEW k \in Nat, k \in T PROVE k + 1 \in T
  <2>1. PICK h : Solves(h, k)
    BY <1>3
  <2> DEFINE g == [s \in SUBSET set |-> IF s \in Upto(k) THEN h[s] ELSE Next(h, s)]
  <2>2. ASSUME NEW s \in Upto(k + 1) PROVE g[s] \in Nat /\ g[s] = Next(g, s)
    <3>1. s \in SUBSET set /\ Cardinality(s) <= k + 1
      OBVIOUS
    <3>2. CASE s = {}
      <4>1. s \in Upto(k)
        <5>1. Cardinality(s) = 0
          BY <1>1, <3>1, <3>2
        <5> QED BY <3>1, <5>1
      <4>2. h[s] = 0
        BY <2>1, <3>2, <4>1
      <4> QED BY <3>2, <4>1, <4>2
    <3>3. CASE s # {}
      <4> DEFINE x == Some(s)
                 rest == s \ {x}
      <4>1. x \in s /\ rest \in Upto(k) /\ F[x] \in Nat
        BY <1>1, <3>1, <3>3
      <4>2. h[rest] \in Nat /\ g[rest] = h[rest]
        <5> HIDE DEF rest
        <5> QED BY <2>1, <4>1
      <4>3. g[s] = F[x] + h[rest]
        <5>1. CASE s \in Upto(k)
          BY <2>1, <3>3, <5>1
        <5>2. CASE s \notin Upto(k)
          BY <3>1, <3>3, <5>2
        <5> QED BY <5>1, <5>2
      <4>4. Next(g, s) = F[x] + g[rest]
        BY <3>3
      <4> HIDE DEF x, rest, g, Next
      <4> QED BY <4>1, <4>2, <4>3, <4>4
    <3> QED BY <3>2, <3>3
  <2>3. Solves(g, k + 1)
    <3> HIDE DEF g, Next, Upto
    <3> QED BY <2>2
  <2> HIDE DEF Solves, g
  <2> QED BY <2>3
<1>4. Cardinality(set) \in T
  <2> HIDE DEF T
  <2>1. Cardinality(set) \in Nat
    BY <1>1
  <2> QED BY <1>2, <1>3, <2>1, NatSetInduction
<1>5. PICK h : Solves(h, Cardinality(set))
  <2> HIDE DEF Solves
  <2> QED BY <1>4
<1>6. \A s \in SUBSET set : s \in Upto(Cardinality(set))
  BY FS_Subset
<1> DEFINE g == [s \in SUBSET set |-> h[s]]
<1>7. \A s \in SUBSET set : g[s] = Next(g, s)
  <2>1. ASSUME NEW s \in SUBSET set PROVE h[s] = Next(h, s)
    <3> HIDE DEF Next, Upto
    <3> QED BY <1>5, <1>6
  <2>2. ASSUME NEW s \in SUBSET set PROVE Next(g, s) = Next(h, s)
    <3>1. s \ {Some(s)} \in SUBSET set
      OBVIOUS
    <3> QED BY <3>1
  <2> HIDE DEF Next
  <2> QED BY <2>1, <2>2
<1>8. g = [s \in SUBSET set |-> Next(g, s)]
  <2>1. g = [s \in SUBSET set |-> g[s]]
    OBVIOUS
  <2> HIDE DEF g, Next
  <2> QED BY <1>7, <2>1
<1> QED BY <1>8 DEF SumTable

\* Whichever it is, the sum is a number, and only zeros add up to zero.
LEMMA SumTyped ==
    ASSUME NEW set, IsFiniteSet(set), NEW F \in [set -> Nat], NEW h, SumTable(h, set, F)
    PROVE  /\ h[set] \in Nat
           /\ (\A x \in set : F[x] = 0) => h[set] = 0
<1> DEFINE T == {k \in Nat : \A s \in SUBSET set : Cardinality(s) = k =>
                    h[s] \in Nat /\ ((\A x \in set : F[x] = 0) => h[s] = 0)}
<1>1. ASSUME NEW s \in SUBSET set
      PROVE  h[s] = IF s = {} THEN 0 ELSE F[Some(s)] + h[s \ {Some(s)}]
  BY DEF SumTable
<1>2. 0 \in T
  <2>1. \A s \in SUBSET set : Cardinality(s) = 0 => s = {}
    BY FS_Subset, FS_EmptySet
  <2> QED BY <1>1, <2>1
<1>3. ASSUME NEW k \in Nat, k \in T PROVE k + 1 \in T
  <2>1. ASSUME NEW s \in SUBSET set, Cardinality(s) = k + 1
        PROVE  h[s] \in Nat /\ ((\A x \in set : F[x] = 0) => h[s] = 0)
    <3> DEFINE x == Some(s)
               rest == s \ {x}
    <3>1. s # {} /\ IsFiniteSet(s)
      BY <2>1, FS_EmptySet, FS_Subset
    <3>2. x \in s
      BY <3>1, SomeIn
    <3> HIDE DEF x
    <3>3. Cardinality(rest) = k /\ rest \in SUBSET set
      <4>1. \A y : Cardinality(s \ {y}) = IF y \in s THEN Cardinality(s) - 1 ELSE Cardinality(s)
        BY <3>1, FS_RemoveElement
      <4> QED BY <2>1, <3>2, <4>1
    <3>4. h[rest] \in Nat /\ ((\A y \in set : F[y] = 0) => h[rest] = 0)
      <4>1. \A r \in SUBSET set : Cardinality(r) = k =>
               h[r] \in Nat /\ ((\A y \in set : F[y] = 0) => h[r] = 0)
        BY <1>3
      <4> HIDE DEF rest
      <4> QED BY <3>3, <4>1
    <3>5. h[s] = F[x] + h[rest]
      BY <1>1, <3>1 DEF x
    <3>6. F[x] \in Nat /\ x \in set
      BY <3>2
    <3> HIDE DEF rest
    <3> QED BY <3>4, <3>5, <3>6
  <2> QED BY <2>1
<1>4. Cardinality(set) \in T
  <2>1. Cardinality(set) \in Nat
    BY FS_CardinalityType
  <2> HIDE DEF T
  <2> QED BY <1>2, <1>3, <2>1, NatSetInduction
<1> QED BY <1>4

\* A finite set has an element of the largest number.
LEMMA LargestElement ==
    ASSUME NEW set, IsFiniteSet(set), set # {}, NEW F \in [set -> Nat]
    PROVE  \E x \in set : \A y \in set : F[x] >= F[y]
<1> DEFINE T == {k \in Nat : \A s \in SUBSET set : Cardinality(s) = k /\ s # {} =>
                    \E x \in s : \A y \in s : F[x] >= F[y]}
<1>1. 0 \in T
  <2>1. \A s \in SUBSET set : Cardinality(s) = 0 => s = {}
    BY FS_Subset, FS_EmptySet
  <2> QED BY <2>1
<1>2. ASSUME NEW k \in Nat, k \in T PROVE k + 1 \in T
  <2>1. ASSUME NEW s \in SUBSET set, Cardinality(s) = k + 1, s # {}
        PROVE  \E x \in s : \A y \in s : F[x] >= F[y]
    <3>1. PICK z \in s : TRUE
      BY <2>1
    <3> DEFINE rest == s \ {z}
    <3>2. Cardinality(rest) = k /\ rest \in SUBSET set
      <4>1. IsFiniteSet(s)
        BY FS_Subset
      <4>2. \A y : Cardinality(s \ {y}) = IF y \in s THEN Cardinality(s) - 1 ELSE Cardinality(s)
        BY <4>1, FS_RemoveElement
      <4> QED BY <2>1, <4>2
    <3>3. \A y \in s : F[y] \in Nat
      OBVIOUS
    <3>4. CASE rest = {}
      <4>1. \A y \in s : y = z
        BY <3>4
      <4> QED BY <3>3, <4>1
    <3>5. CASE rest # {}
      <4>1. \A r \in SUBSET set : Cardinality(r) = k /\ r # {} =>
               \E x \in r : \A y \in r : F[x] >= F[y]
        BY <1>2
      <4>2. PICK x \in rest : \A y \in rest : F[x] >= F[y]
        <5> HIDE DEF rest
        <5> QED BY <3>2, <3>5, <4>1
      <4>3. \A y \in s : y = z \/ F[x] >= F[y]
        BY <4>2
      <4>4. x \in s /\ F[x] \in Nat /\ F[z] \in Nat
        BY <3>3
      <4>5. CASE F[x] >= F[z]
        BY <4>3, <4>4, <4>5
      <4>6. CASE ~(F[x] >= F[z])
        <5>1. ASSUME NEW y \in s PROVE F[z] >= F[y]
          BY <3>3, <4>3, <4>4, <4>6
        <5> QED BY <5>1
      <4> QED BY <4>5, <4>6
    <3> QED BY <3>4, <3>5
  <2> QED BY <2>1
<1>3. Cardinality(set) \in T
  <2>1. Cardinality(set) \in Nat
    BY FS_CardinalityType
  <2> HIDE DEF T
  <2> QED BY <1>1, <1>2, <2>1, NatSetInduction
<1> QED BY <1>3

\* A selector that can be written down.
Sized(alternatives) ==
    IsFiniteSet(alternatives) /\ \A alternative \in alternatives : IsFiniteSet(alternative)

LEMMA SelectorSize ==
    ASSUME NEW alternatives, Sized(alternatives)
    PROVE  TargetSize(alternatives) \in Nat
<1> DEFINE F == [a \in alternatives |-> 1 + Cardinality(a)]
           Solves(h) ==
             h = [s \in SUBSET alternatives |->
                    IF s = {} THEN 0 ELSE (1 + Cardinality(Some(s))) + h[s \ {Some(s)}]]
<1>1. IsFiniteSet(alternatives) /\ F \in [alternatives -> Nat]
  BY FS_CardinalityType DEF Sized
<1>2. ASSUME NEW h PROVE SumTable(h, alternatives, F) <=> Solves(h)
  <2>1. ASSUME NEW s \in SUBSET alternatives
        PROVE  (IF s = {} THEN 0 ELSE F[Some(s)] + h[s \ {Some(s)}])
               = (IF s = {} THEN 0 ELSE (1 + Cardinality(Some(s))) + h[s \ {Some(s)}])
    BY SomeIn
  <2>2. [s \in SUBSET alternatives |-> IF s = {} THEN 0 ELSE F[Some(s)] + h[s \ {Some(s)}]]
        = [s \in SUBSET alternatives |->
             IF s = {} THEN 0 ELSE (1 + Cardinality(Some(s))) + h[s \ {Some(s)}]]
    <3> HIDE DEF F
    <3> QED BY <2>1, Zenon
  <2> HIDE DEF F
  <2> QED BY <2>2 DEF SumTable
<1>3. \E h : Solves(h)
  <2> HIDE DEF Solves, F
  <2> QED BY <1>1, <1>2, SumExists
<1>4. Solves(CHOOSE h : Solves(h))
  <2> HIDE DEF Solves
  <2> QED BY <1>3
<1>5. MapThenSumSet(LAMBDA a : 1 + Cardinality(a), alternatives)
      = (CHOOSE h : Solves(h))[alternatives]
  BY DEF MapThenSumSet, MapThenFoldSet, Some
<1>6. (CHOOSE h : Solves(h))[alternatives] \in Nat
  <2> DEFINE h == CHOOSE g : Solves(g)
  <2>1. SumTable(h, alternatives, F)
    <3> HIDE DEF Solves, F
    <3> QED BY <1>2, <1>4
  <2> HIDE DEF h, F
  <2>2. h[alternatives] \in Nat
    BY <1>1, <2>1, SumTyped
  <2> HIDE DEF Solves
  <2> QED BY <2>2 DEF h
<1>7. MapThenSumSet(LAMBDA a : 1 + Cardinality(a), alternatives) \in Nat
  <2> HIDE DEF Solves
  <2> QED BY <1>5, <1>6
<1> DEFINE total == MapThenSumSet(LAMBDA a : 1 + Cardinality(a), alternatives)
<1>8. TargetSize(alternatives) = IF alternatives \in {{}, All} THEN 0 ELSE 1 + total
  BY Zenon DEF TargetSize
<1>9. total \in Nat
  <2> HIDE DEF Solves
  <2> QED BY <1>7
<1> HIDE DEF total
<1> QED BY <1>8, <1>9

\* While a response is over budget its largest target has alternatives.
LEMMA LargestHasAlternatives ==
    ASSUME NEW impact, ImpactSize(impact) > ImpactBudget,
           \A e \in Endpoint : \A s \in Scopes : Sized(impact[e].targets[s])
    PROVE  /\ LargestTarget(impact) \in Endpoint \X Scopes
           /\ impact[LargestTarget(impact)[1]].targets[LargestTarget(impact)[2]] # {}
<1> DEFINE set == Endpoint \X Scopes
           F == [t \in set |-> TargetSize(impact[t[1]].targets[t[2]])]
           Solves(h) ==
             h = [s \in SUBSET set |->
                    IF s = {} THEN 0
                    ELSE TargetSize(impact[Some(s)[1]].targets[Some(s)[2]]) + h[s \ {Some(s)}]]
<1>1. IsFiniteSet(set)
  <2>1. IsFiniteSet(Scopes)
    BY FS_AddElement, FS_EmptySet, {"caller", "global"} = ({} \cup {"caller"}) \cup {"global"} DEF Scopes
  <2> QED BY <2>1, ContractsAssumption, FS_Product
<1>2. \A t \in set : F[t] = TargetSize(impact[t[1]].targets[t[2]]) /\ F[t] \in Nat
  BY SelectorSize
<1>3. F \in [set -> Nat]
  BY <1>2
<1>4. ASSUME NEW h PROVE SumTable(h, set, F) <=> Solves(h)
  <2>1. ASSUME NEW s \in SUBSET set
        PROVE  (IF s = {} THEN 0 ELSE F[Some(s)] + h[s \ {Some(s)}])
               = (IF s = {} THEN 0
                  ELSE TargetSize(impact[Some(s)[1]].targets[Some(s)[2]]) + h[s \ {Some(s)}])
    BY SomeIn
  <2>2. [s \in SUBSET set |-> IF s = {} THEN 0 ELSE F[Some(s)] + h[s \ {Some(s)}]]
        = [s \in SUBSET set |->
             IF s = {} THEN 0
             ELSE TargetSize(impact[Some(s)[1]].targets[Some(s)[2]]) + h[s \ {Some(s)}]]
    <3> HIDE DEF F, set
    <3> QED BY <2>1, Zenon
  <2> HIDE DEF F, set
  <2> QED BY <2>2 DEF SumTable
<1>5. \E h : Solves(h)
  <2> HIDE DEF Solves, F, set
  <2> QED BY <1>1, <1>3, <1>4, SumExists
<1>6. Solves(CHOOSE h : Solves(h))
  <2> HIDE DEF Solves
  <2> QED BY <1>5
<1>7. ImpactSize(impact) = (CHOOSE h : Solves(h))[set]
  BY DEF ImpactSize, MapThenSumSet, MapThenFoldSet, Some
<1>8. ImpactSize(impact) \in Nat /\ ((\A t \in set : F[t] = 0) => ImpactSize(impact) = 0)
  <2> DEFINE h == CHOOSE g : Solves(g)
  <2>1. SumTable(h, set, F)
    <3> HIDE DEF Solves, F, set
    <3> QED BY <1>4, <1>6
  <2>2. ImpactSize(impact) = h[set]
    <3> HIDE DEF Solves, set
    <3> QED BY <1>7
  <2> HIDE DEF h, F, set
  <2> QED BY <1>1, <1>3, <2>1, <2>2, SumTyped
<1>9. PICK t \in set : F[t] # 0
  <2>1. ImpactBudget \in Nat
    BY CalculateAssumption
  <2> HIDE DEF F, set
  <2> QED BY <1>8, <2>1
<1>10. \E u \in set : \A v \in set : F[u] >= F[v]
  <2> HIDE DEF F, set
  <2> QED BY <1>1, <1>3, <1>9, LargestElement
<1>11. \E u \in set : \A v \in set :
          TargetSize(impact[u[1]].targets[u[2]]) >= TargetSize(impact[v[1]].targets[v[2]])
  <2> HIDE DEF F, set
  <2> QED BY <1>2, <1>10
<1> DEFINE u == LargestTarget(impact)
<1>12. u \in set /\ \A v \in set :
          TargetSize(impact[u[1]].targets[u[2]]) >= TargetSize(impact[v[1]].targets[v[2]])
  BY <1>11, Zenon DEF LargestTarget
<1>13. F[u] >= F[t] /\ F[u] \in Nat /\ F[t] \in Nat
  <2> HIDE DEF F, set, u
  <2> QED BY <1>2, <1>9, <1>12
<1>14. TargetSize(impact[u[1]].targets[u[2]]) # 0
  <2> HIDE DEF F, set, u
  <2> QED BY <1>2, <1>9, <1>12, <1>13
<1>15. impact[u[1]].targets[u[2]] # {}
  <2> HIDE DEF u
  <2> QED BY <1>14 DEF TargetSize
<1> QED BY <1>12, <1>15

-----------------------------------------------------------------------------
(* Where the alternatives of a calculation come from. *)

\* A read of the endpoint declares the resource of one of the facts.
Concerned(kept, endpoint) ==
    \E fact \in kept : \E read \in ToSet(ReadsOf(fact.resource)) : read.endpoint = endpoint

\* The row certainly matters to the read, for the inputs of this alternative.
Precise(fact, row, read, scope, alternative) ==
    /\ row.kind # "absent"
    /\ ~ScopeExcluded(row, read, scope, Verified)
    /\ ~ColumnsUnchanged(fact, read)
    /\ ~FilterExcluded(row, read)
    /\ ~Uncertain(fact, row, read)
    /\ ~Incomplete(row, read)
    /\ alternative = Alternative(row, read)

FromFact(kept, endpoint, scope, alternative) ==
    \E fact \in kept : \E read \in ToSet(ReadsOf(fact.resource)) :
        /\ read.endpoint = endpoint
        /\ \E row \in {fact.before, fact.after} : Precise(fact, row, read, scope, alternative)

\* Alternatives come from facts that concern their endpoint, and without a loss
\* of precision each is that of a row of one of them.
SourcedFrom(kept, scope, endpoint, exact, alternatives) ==
    /\ Sized(alternatives)
    /\ alternatives # {} => Concerned(kept, endpoint)
    /\ exact => \A alternative \in alternatives : FromFact(kept, endpoint, scope, alternative)

Sourced(kept, scope, report, acc) ==
    \A e \in Endpoint : \A s \in Scopes :
        SourcedFrom(kept, scope, e, e \notin acc.reduced /\ report[e].status = "verified",
                    acc.targets[<<e, s>>])

\* The reads of a resource have finitely many bindings.
LEMMA ReadsFinite ==
    ASSUME NEW resource \in Resource, NEW read \in ToSet(ReadsOf(resource))
    PROVE  read \in ReadDependency /\ IsFiniteSet(read.bindings)
<1>1. read \in ToSet(Reads)
  BY ReadsIndexed
<1>2. PICK i \in DOMAIN Reads : Reads[i] = read
  BY <1>1 DEF ToSet
<1>3. IsFiniteSet(Reads[i].bindings) /\ Reads[i] \in ReadDependency
  BY CalculateAssumption
<1> QED BY <1>2, <1>3

\* So has the alternative of a row.
LEMMA AlternativeFinite ==
    ASSUME NEW row, NEW read, IsFiniteSet(read.bindings)
    PROVE  IsFiniteSet(Alternative(row, read))
<1> DEFINE held == {c \in read.bindings : Has(row.fields, c[1])}
           image == {<<b[2], ValueOf(row.fields, b[1])>> : b \in held}
           f == [b \in held |-> <<b[2], ValueOf(row.fields, b[1])>>]
<1>1. IsFiniteSet(held)
  BY FS_Subset
<1>2. f \in Surjection(held, image)
  <2>1. \A b \in held : f[b] = <<b[2], ValueOf(row.fields, b[1])>>
    OBVIOUS
  <2>2. f \in [held -> image]
    OBVIOUS
  <2>3. \A x \in image : \E b \in held : f[b] = x
    OBVIOUS
  <2> HIDE DEF f, held, image
  <2> QED BY <2>2, <2>3 DEF Surjection
<1>3. IsFiniteSet(image)
  <2> HIDE DEF f, held, image
  <2> QED BY <1>1, <1>2, FS_Surjection
<1>4. Bound(row, read) \in {image, {}}
  BY DEF Bound
<1>5. Alternative(row, read) \in {image, {}}
  BY <1>4 DEF Alternative
<1> QED BY <1>3, <1>5, FS_EmptySet

\* A selector stays one that can be written down; it has an alternative then,
\* and unless the limit is passed, none that is new but the one added.
LEMMA AddAlternativeSources ==
    ASSUME NEW alternatives, NEW alternative, Sized(alternatives), IsFiniteSet(alternative)
    PROVE  /\ Sized(AddAlternative(alternatives, alternative))
           /\ ~Overflows(alternatives, alternative) =>
                 AddAlternative(alternatives, alternative) \subseteq alternatives \cup {alternative}
<1> DEFINE extended == Extended(alternatives, alternative)
           common == CommonConstraints(extended)
<1>1. extended \subseteq alternatives \cup {alternative} /\ alternative \in extended
  BY DEF Extended
<1>2. IsFiniteSet(alternatives \cup {alternative})
  BY FS_AddElement DEF Sized
<1>3. Sized(extended)
  BY <1>1, <1>2, FS_Subset DEF Sized
<1>4. common \subseteq alternative
  BY <1>1 DEF CommonConstraints
<1>5. IsFiniteSet(common)
  BY <1>4, FS_Subset
<1> HIDE DEF common, extended
<1>6. Sized({common})
  BY <1>5, FS_Singleton DEF Sized
<1>7. AddAlternative(alternatives, alternative) =
         IF Covered(alternatives, alternative) THEN alternatives
         ELSE IF Overflows(alternatives, alternative) THEN {common} ELSE extended
  BY DEF AddAlternative, common, extended
<1>8. ~Overflows(alternatives, alternative) =>
         AddAlternative(alternatives, alternative) \in {alternatives, extended}
  BY <1>7
<1>9. AddAlternative(alternatives, alternative) \in {alternatives, {common}, extended}
  BY <1>7
<1>10. Sized(AddAlternative(alternatives, alternative))
  BY <1>3, <1>6, <1>9
<1> QED BY <1>1, <1>8, <1>10

\* One read of one row of a fact.
LEMMA ContributeSourced ==
    ASSUME NEW kept \in SUBSET WriteFact, NEW scope, NEW report,
           NEW acc \in Accs(RowState, scope), Sourced(kept, scope, report, acc),
           NEW fact \in kept, NEW row \in {fact.before, fact.after}, row.kind # "absent",
           NEW declared \in ToSet(ReadsOf(fact.resource))
    PROVE  Sourced(kept, scope, report, Contribute(acc, fact, row, declared, scope, report))
<1> DEFINE assessment == report[declared.endpoint]
           read == Broadened(declared, assessment)
           endpoint == declared.endpoint
           target == <<endpoint, TargetScope(declared.resource)>>
           alternative == Alternative(row, read)
           skipped == \/ assessment.status = "unavailable"
                      \/ ScopeExcluded(row, read, scope, assessment)
                      \/ ColumnsUnchanged(fact, read)
                      \/ FilterExcluded(row, read)
           lossy == \/ Uncertain(fact, row, read)
                    \/ Incomplete(row, read)
                    \/ Overflows(acc.targets[target], alternative)
           added == AddAlternative(acc.targets[target], alternative)
           targets == [acc.targets EXCEPT ![target] = added]
           reduced == acc.reduced \cup (IF lossy THEN {endpoint} ELSE {})
           after == Contribute(acc, fact, row, declared, scope, report)
<1>1. fact.resource \in Resource
  BY DEF WriteFact
<1>2. declared \in ReadDependency /\ IsFiniteSet(declared.bindings)
  BY <1>1, ReadsFinite
<1>3. endpoint \in Endpoint /\ target \in Endpoint \X Scopes
  BY <1>2 DEF TargetScope, Scopes, ReadDependency
<1>4. /\ read.endpoint = endpoint /\ read.resource = declared.resource
      /\ read.bindings \subseteq declared.bindings
      /\ assessment.status # "conservative" => read = declared
  BY <1>2, BroadenedRead
<1>5. IsFiniteSet(alternative)
  BY <1>2, <1>4, AlternativeFinite, FS_Subset
<1>6. after = IF skipped THEN acc ELSE [targets |-> targets, reduced |-> reduced]
  <2>1. <<read.endpoint, TargetScope(read.resource)>> = target
    BY <1>4
  <2>2. after = IF skipped THEN acc
                ELSE [targets |-> [acc.targets EXCEPT ![<<read.endpoint, TargetScope(read.resource)>>] =
                                     AddAlternative(@, alternative)],
                      reduced |-> acc.reduced \cup
                         (IF \/ Uncertain(fact, row, read)
                             \/ Incomplete(row, read)
                             \/ Overflows(acc.targets[<<read.endpoint, TargetScope(read.resource)>>], alternative)
                          THEN {read.endpoint} ELSE {})]
    BY DEF Contribute
  <2> HIDE DEF read, target, alternative, skipped, after
  <2> QED BY <1>4, <2>1, <2>2
<1>7. acc.targets \in [Endpoint \X Scopes -> SUBSET SUBSET Pairs]
  BY DEF Accs
<1>8. endpoint \notin reduced /\ report[endpoint].status = "verified" /\ ~skipped =>
         FromFact(kept, endpoint, scope, alternative)
  <2> SUFFICES ASSUME endpoint \notin reduced, report[endpoint].status = "verified", ~skipped
               PROVE  FromFact(kept, endpoint, scope, alternative)
    OBVIOUS
  <2>1. read = declared
    BY <1>4
  <2>2. ~ScopeExcluded(row, read, scope, Verified)
    BY DEF ScopeExcluded, Verified
  <2>3. ~lossy
    OBVIOUS
  <2>4. Precise(fact, row, declared, scope, alternative)
    <3>1. /\ ~ScopeExcluded(row, declared, scope, Verified)
          /\ ~ColumnsUnchanged(fact, declared)
          /\ ~FilterExcluded(row, declared)
          /\ ~Uncertain(fact, row, declared)
          /\ ~Incomplete(row, declared)
          /\ alternative = Alternative(row, declared)
      <4> HIDE DEF read
      <4> QED BY <2>1, <2>2, <2>3
    <3> HIDE DEF alternative
    <3> QED BY <3>1 DEF Precise
  <2> HIDE DEF alternative, read, lossy, skipped, reduced
  <2> QED BY <2>4 DEF FromFact
<1> HIDE DEF alternative, read, lossy, skipped, reduced, after
<1>9. CASE skipped
  BY <1>6, <1>9 DEF after
<1>10. CASE ~skipped
  <2>1. after.targets = targets /\ after.reduced = reduced
    BY <1>6, <1>10
  <2>2. ASSUME NEW e \in Endpoint, NEW s \in Scopes
        PROVE  SourcedFrom(kept, scope, e, e \notin after.reduced /\ report[e].status = "verified",
                           after.targets[<<e, s>>])
    <3>1. <<e, s>> \in Endpoint \X Scopes
      OBVIOUS
    <3>2. SourcedFrom(kept, scope, e, e \notin acc.reduced /\ report[e].status = "verified",
                      acc.targets[<<e, s>>])
      BY DEF Sourced
    <3>3. acc.reduced \subseteq reduced /\ (lossy => endpoint \in reduced)
      BY DEF reduced
    <3>4. CASE <<e, s>> = target
      <4>1. e = endpoint
        BY <3>4
      <4> DEFINE old == acc.targets[target]
      <4>2. after.targets[<<e, s>>] = added
        <5> HIDE DEF target
        <5> QED BY <1>3, <1>7, <2>1, <3>4
      <4>3. SourcedFrom(kept, scope, endpoint, endpoint \notin acc.reduced /\ report[endpoint].status = "verified",
                        old)
        <5> HIDE DEF target
        <5> QED BY <3>2, <3>4, <4>1
      <4>4. Sized(old)
        <5> HIDE DEF old
        <5> QED BY <4>3 DEF SourcedFrom
      <4>5. /\ Sized(added)
            /\ ~Overflows(old, alternative) => added \subseteq old \cup {alternative}
        <5> HIDE DEF target
        <5> QED BY <1>5, <4>4, AddAlternativeSources
      <4>6. Concerned(kept, endpoint)
        BY DEF Concerned
      <4>7. Overflows(old, alternative) => endpoint \in reduced
        BY <3>3 DEF lossy
      <4> HIDE DEF old, added, target
      <4>8. ASSUME endpoint \notin reduced, report[endpoint].status = "verified", NEW a \in added
            PROVE  FromFact(kept, endpoint, scope, a)
        <5>1. a \in old \/ a = alternative
          BY <4>5, <4>7, <4>8
        <5>2. CASE a = alternative
          BY <1>8, <1>10, <4>8, <5>2
        <5>3. CASE a \in old
          BY <3>3, <4>3, <4>8, <5>3 DEF SourcedFrom
        <5> QED BY <5>1, <5>2, <5>3
      <4> QED BY <2>1, <4>1, <4>2, <4>5, <4>6, <4>8 DEF SourcedFrom
    <3>5. CASE <<e, s>> # target
      <4>1. after.targets[<<e, s>>] = acc.targets[<<e, s>>]
        <5> HIDE DEF target, added
        <5> QED BY <1>3, <1>7, <2>1, <3>1, <3>5
      <4> HIDE DEF target
      <4> QED BY <2>1, <3>2, <3>3, <4>1 DEF SourcedFrom
    <3> QED BY <3>4, <3>5
  <2> QED BY <2>2 DEF Sourced, after
<1> QED BY <1>9, <1>10

LEMMA WriteFactsSeen == WriteFact = FactsFrom(RowState)
  BY DEF FactsFrom, From, WriteFact

\* All the reads of a row.
LEMMA ContributeRowSourced ==
    ASSUME NEW kept \in SUBSET WriteFact, NEW scope, NEW report,
           NEW acc \in Accs(RowState, scope), Sourced(kept, scope, report, acc),
           NEW fact \in kept, NEW row \in {fact.before, fact.after}
    PROVE  /\ ContributeRow(acc, fact, row, scope, report) \in Accs(RowState, scope)
           /\ Sourced(kept, scope, report, ContributeRow(acc, fact, row, scope, report))
<1>1. /\ fact.resource \in Resource /\ row \in RowState /\ From(row, RowState)
  BY DEF WriteFact, From
<1>2. CASE row.kind = "absent"
  BY <1>2 DEF ContributeRow
<1>3. CASE row.kind # "absent"
  <2> DEFINE reads == ReadsOf(fact.resource)
             n == Len(reads)
             after == ContributeRow(acc, fact, row, scope, report)
  <2>1. PICK g : /\ g[0] = acc /\ g[n] = after
                 /\ \A k \in 0 .. n : g[k] \in Admitting(RowState, scope, acc)
                 /\ \A k \in 1 .. n : g[k] = Contribute(g[k - 1], fact, row, reads[k], scope, report)
    BY <1>1, <1>3, ContributeRowFold, SMTT(60)
  <2>2. n \in Nat /\ \A k \in 1 .. n : reads[k] \in ToSet(reads)
    BY <1>1, ReadsTyped DEF ToSet
  <2> HIDE DEF reads, n, after
  <2> DEFINE T == {k \in 0 .. n : Sourced(kept, scope, report, g[k])}
  <2>3. 0 \in T
    BY <2>1, <2>2
  <2>4. ASSUME NEW k \in 0 .. n, k < n, k \in T PROVE k + 1 \in T
    <3>1. k + 1 \in 1 .. n /\ (k + 1) - 1 = k /\ k + 1 \in 0 .. n
      BY <2>2, <2>4
    <3>2. g[k + 1] = Contribute(g[k], fact, row, reads[k + 1], scope, report)
      BY <2>1, <3>1
    <3>3. g[k] \in Accs(RowState, scope) /\ Sourced(kept, scope, report, g[k])
      BY <2>1, <2>4 DEF Admitting
    <3>4. reads[k + 1] \in ToSet(ReadsOf(fact.resource))
      BY <2>2, <3>1 DEF reads
    <3>5. Sourced(kept, scope, report, g[k + 1])
      BY <1>3, <3>2, <3>3, <3>4, ContributeSourced
    <3> QED BY <3>1, <3>5
  <2>5. n \in T
    <3> HIDE DEF T
    <3>1. \A k \in 0 .. n : k \in T
      BY <2>2, <2>3, <2>4, SegmentInduction
    <3> QED BY <2>2, <3>1
  <2>6. after \in Accs(RowState, scope)
    BY <2>1, <2>2 DEF Admitting
  <2> QED BY <2>1, <2>5, <2>6 DEF after
<1> QED BY <1>2, <1>3

\* Both rows of a fact.
LEMMA ContributeFactSourced ==
    ASSUME NEW kept \in SUBSET WriteFact, NEW scope, NEW report,
           NEW acc \in Accs(RowState, scope), Sourced(kept, scope, report, acc),
           NEW fact \in kept
    PROVE  Sourced(kept, scope, report, ContributeFact(acc, fact, scope, report))
<1> DEFINE middle == ContributeRow(acc, fact, fact.before, scope, report)
           after == ContributeRow(middle, fact, fact.after, scope, report)
<1>1. middle \in Accs(RowState, scope) /\ Sourced(kept, scope, report, middle)
  BY ContributeRowSourced
<1> HIDE DEF middle
<1>2. Sourced(kept, scope, report, after)
  BY <1>1, ContributeRowSourced
<1>3. ContributeFact(acc, fact, scope, report) = after
  BY DEF ContributeFact, middle
<1> QED BY <1>2, <1>3

\* All the facts.
LEMMA AccumulateSourced ==
    ASSUME NEW kept \in SUBSET WriteFact, NEW facts \in Seq(kept), NEW scope,
           NEW report \in Assessments
    PROVE  /\ Accumulate(facts, scope, report) \in Accs(RowState, scope)
           /\ Sourced(kept, scope, report, Accumulate(facts, scope, report))
<1> DEFINE n == Len(facts)
           after == Accumulate(facts, scope, report)
<1>1. facts \in Seq(FactsFrom(RowState))
  BY WriteFactsSeen
<1>2. PICK g : /\ g[0] = NoContribution /\ g[n] = after
               /\ \A k \in 0 .. n : g[k] \in Accs(RowState, scope)
               /\ \A k \in 1 .. n : g[k] = ContributeFact(g[k - 1], facts[k], scope, report)
  BY <1>1, AccumulateFold
<1>3. n \in Nat /\ \A k \in 1 .. n : facts[k] \in kept
  OBVIOUS
<1> HIDE DEF n, after
<1> DEFINE T == {k \in 0 .. n : Sourced(kept, scope, report, g[k])}
<1>4. 0 \in T
  <2>1. ASSUME NEW e \in Endpoint, NEW s \in Scopes PROVE NoContribution.targets[<<e, s>>] = {}
    <3>1. <<e, s>> \in Endpoint \X Scopes
      OBVIOUS
    <3> QED BY <3>1 DEF NoContribution, NoTargets
  <2>2. Sized({})
    BY FS_EmptySet DEF Sized
  <2>3. Sourced(kept, scope, report, NoContribution)
    BY <2>1, <2>2 DEF Sourced, SourcedFrom
  <2> QED BY <1>2, <1>3, <2>3
<1>5. ASSUME NEW k \in 0 .. n, k < n, k \in T PROVE k + 1 \in T
  <2>1. k + 1 \in 1 .. n /\ (k + 1) - 1 = k /\ k + 1 \in 0 .. n
    BY <1>3, <1>5
  <2>2. g[k + 1] = ContributeFact(g[k], facts[k + 1], scope, report)
    BY <1>2, <2>1
  <2>3. g[k] \in Accs(RowState, scope) /\ facts[k + 1] \in kept /\ Sourced(kept, scope, report, g[k])
    BY <1>2, <1>3, <1>5, <2>1
  <2>4. Sourced(kept, scope, report, g[k + 1])
    BY <2>2, <2>3, ContributeFactSourced
  <2> QED BY <2>1, <2>4
<1>6. n \in T
  <2> HIDE DEF T
  <2>1. \A k \in 0 .. n : k \in T
    BY <1>3, <1>4, <1>5, SegmentInduction
  <2> QED BY <1>3, <2>1
<1>7. after \in Accs(RowState, scope)
  BY <1>2, <1>3
<1> QED BY <1>2, <1>6, <1>7 DEF after

\* An impact whose targets come from the facts.
ImpactSourced(kept, scope, impact) ==
    \A e \in Endpoint : \A s \in Scopes :
        SourcedFrom(kept, scope, e, impact[e].status = "verified", impact[e].targets[s])

\* Widening the largest target of a response over budget: it had alternatives.
LEMMA WidenSourced ==
    ASSUME NEW kept, NEW scope, NEW impact \in Impacts(RowState, scope),
           ImpactSourced(kept, scope, impact), ImpactSize(impact) > ImpactBudget
    PROVE  ImpactSourced(kept, scope, WidenLargest(impact))
<1> DEFINE t == LargestTarget(impact)
           e == t[1]
           s == t[2]
           targets == [impact[e].targets EXCEPT ![s] = All]
           widened == [status |-> "conservative",
                       codes |-> impact[e].codes \cup {"PRECISION_REDUCED"},
                       targets |-> targets]
           after == [impact EXCEPT ![e] = widened]
<1>1. WidenLargest(impact) = after
  BY DEF WidenLargest
<1>2. \A x \in Endpoint : \A y \in Scopes : Sized(impact[x].targets[y])
  BY DEF ImpactSourced, SourcedFrom
<1>3. t \in Endpoint \X Scopes /\ impact[e].targets[s] # {}
  BY <1>2, LargestHasAlternatives
<1> HIDE DEF t
<1>4. e \in Endpoint /\ s \in Scopes
  BY <1>3
<1>5. Concerned(kept, e)
  BY <1>3, <1>4 DEF ImpactSourced, SourcedFrom
<1>6. Sized(All)
  BY FS_EmptySet, FS_Singleton DEF Sized, All
<1>7. impact[e].targets \in [Scopes -> SUBSET SUBSET Pairs]
  BY <1>4, ImpactFields
<1> HIDE DEF e, s
<1>8. \A x \in Endpoint : after[x] = IF x = e THEN widened ELSE impact[x]
  <2> HIDE DEF widened
  <2> QED BY DEF Impacts
<1>9. \A y \in Scopes : targets[y] = IF y = s THEN All ELSE impact[e].targets[y]
  BY <1>7
<1>10. widened.status # "verified" /\ widened.targets = targets
  OBVIOUS
<1> HIDE DEF targets, widened, after
<1>11. ASSUME NEW x \in Endpoint, NEW y \in Scopes
       PROVE  SourcedFrom(kept, scope, x, after[x].status = "verified", after[x].targets[y])
  <2>1. SourcedFrom(kept, scope, x, impact[x].status = "verified", impact[x].targets[y])
    BY DEF ImpactSourced
  <2>2. CASE x # e
    BY <1>8, <2>1, <2>2
  <2>3. CASE x = e
    <3>1. after[x].status # "verified" /\ after[x].targets[y] = IF y = s THEN All ELSE impact[x].targets[y]
      BY <1>8, <1>9, <1>10, <2>3
    <3> QED BY <1>5, <1>6, <2>1, <2>3, <3>1 DEF SourcedFrom
  <2> QED BY <2>2, <2>3
<1> QED BY <1>1, <1>11 DEF ImpactSourced

LEMMA BoundSourced ==
    ASSUME NEW kept, NEW scope, NEW impact \in Impacts(RowState, scope),
           ImpactSourced(kept, scope, impact)
    PROVE  ImpactSourced(kept, scope, BoundImpact(impact))
<1> DEFINE n == Cardinality(Constraining(impact))
<1>1. PICK g : /\ g[0] = impact /\ g[n] = BoundImpact(impact)
               /\ \A k \in 0 .. n : g[k] \in Widening(RowState, scope, impact)
               /\ \A k \in 1 .. n : g[k] = (IF ImpactSize(g[k - 1]) > ImpactBudget
                                            THEN WidenLargest(g[k - 1]) ELSE g[k - 1])
  BY BoundFold
<1>2. n \in Nat
  BY ConstrainingFinite, FS_CardinalityType
<1> HIDE DEF n
<1> DEFINE T == {k \in 0 .. n : ImpactSourced(kept, scope, g[k])}
<1>3. 0 \in T
  BY <1>1, <1>2
<1>4. ASSUME NEW k \in 0 .. n, k < n, k \in T PROVE k + 1 \in T
  <2>1. k + 1 \in 1 .. n /\ (k + 1) - 1 = k /\ k + 1 \in 0 .. n
    BY <1>2, <1>4
  <2>2. g[k + 1] = IF ImpactSize(g[k]) > ImpactBudget THEN WidenLargest(g[k]) ELSE g[k]
    BY <1>1, <2>1
  <2>3. g[k] \in Impacts(RowState, scope) /\ ImpactSourced(kept, scope, g[k])
    BY <1>1, <1>4 DEF Widening
  <2>4. ImpactSourced(kept, scope, g[k + 1])
    BY <2>2, <2>3, WidenSourced
  <2> QED BY <2>1, <2>4
<1>5. n \in T
  <2> HIDE DEF T
  <2>1. \A k \in 0 .. n : k \in T
    BY <1>2, <1>3, <1>4, SegmentInduction
  <2> QED BY <1>2, <2>1
<1> QED BY <1>1, <1>5

\* A merged assessment is verified only if both are.
LEMMA MergedVerified ==
    ASSUME NEW left, NEW right, left.status \in {"verified", "conservative"},
           right.status \in Statuses,
           MergeAssessment(left, right).status = "verified"
    PROVE  left.status = "verified" /\ right.status = "verified"
<1> DEFINE statuses == {left.status, right.status}
           Wins(s) == \/ s = "unavailable"
                      \/ s = "conservative" /\ "unavailable" \notin statuses
                      \/ statuses = {"verified"}
           status == CHOOSE s \in statuses : Wins(s)
<1>1. \E s \in statuses : Wins(s)
  <2>1. CASE right.status = "unavailable"
    BY <2>1
  <2>2. CASE right.status # "unavailable" /\ "conservative" \in statuses
    BY <2>2
  <2>3. CASE right.status # "unavailable" /\ "conservative" \notin statuses
    BY <2>3 DEF Statuses
  <2> QED BY <2>1, <2>2, <2>3
<1>2. status \in statuses /\ Wins(status)
  <2> HIDE DEF statuses, Wins
  <2> QED BY <1>1
<1>3. MergeAssessment(left, right) = [status |-> status, codes |-> left.codes \cup right.codes]
  BY DEF MergeAssessment, Assessed
<1> HIDE DEF status
<1>4. status = "verified"
  BY <1>3
<1> QED BY <1>2, <1>4

\* Each target of an impact that has alternatives belongs to an endpoint that
\* reads a resource of the facts, and as long as the endpoint is verified each
\* alternative is that of a row of one of the facts that certainly matters.
THEOREM CalculationSources ==
    ASSUME NEW kept \in SUBSET WriteFact, NEW facts \in Seq(kept), NEW scope,
           NEW report \in Assessments
    PROVE  ImpactSourced(kept, scope, CalculateImpact(facts, scope, report))
<1> DEFINE acc == Accumulate(facts, scope, report)
           first == CalculatedOf(acc)
           merged(e) == MergeAssessment(Assessed(first[e].status, first[e].codes), report[e])
           second == [e \in Endpoint |->
                        [status |-> merged(e).status, codes |-> merged(e).codes,
                         targets |-> IF merged(e).status = "unavailable"
                                     THEN NoScopeTargets ELSE first[e].targets]]
           last == BoundImpact(second)
<1>1. CalculateImpact(facts, scope, report) = last
  BY DEF CalculateImpact, ApplyAssessment, CalculatedOf
<1>2. acc \in Accs(RowState, scope) /\ Sourced(kept, scope, report, acc)
  BY AccumulateSourced
<1> HIDE DEF acc
<1>3. /\ first \in Impacts(RowState, scope)
      /\ \A e \in Endpoint :
            /\ first[e].status \in {"verified", "conservative"}
            /\ \A s \in Scopes : first[e].targets[s] = acc.targets[<<e, s>>]
            /\ first[e].status = "verified" => e \notin acc.reduced
  <2>1. \A e \in Endpoint : first[e].status = IF e \in acc.reduced THEN "conservative" ELSE "verified"
    BY DEF CalculatedOf
  <2> HIDE DEF first
  <2> QED BY <1>2, <2>1, CalculatedTyped DEF first
<1> HIDE DEF first
<1>4. ASSUME NEW e \in Endpoint
      PROVE  /\ merged(e).status \in Statuses /\ merged(e).codes \in SUBSET Codes
             /\ merged(e).status = "verified" => /\ first[e].status = "verified"
                                                 /\ report[e].status = "verified"
  <2> DEFINE left == Assessed(first[e].status, first[e].codes)
             right == report[e]
  <2>1. /\ right.status \in Statuses /\ right.codes \in SUBSET Codes
    BY DEF Assessments
  <2>2. first[e].codes \in SUBSET Codes /\ first[e].status \in {"verified", "conservative"}
    BY <1>3, ImpactFields
  <2>3. /\ left.status \in {"verified", "conservative"} /\ left.codes \in SUBSET Codes
        /\ left.status = first[e].status
    BY <2>2 DEF Assessed
  <2> HIDE DEF left, right
  <2>4. /\ MergeAssessment(left, right).status \in Statuses
        /\ MergeAssessment(left, right).codes \in SUBSET Codes
        /\ MergeAssessment(left, right).status = "verified" =>
              left.status = "verified" /\ right.status = "verified"
    BY <2>1, <2>3, MergedStatus, MergedVerified
  <2> QED BY <2>3, <2>4 DEF left, right
<1> HIDE DEF merged
<1>5. /\ NoScopeTargets \in [Scopes -> SUBSET SUBSET Pairs]
      /\ NoScopeTargets["caller"] \in SUBSET SUBSET SeenPairs(RowState, scope)
      /\ \A s \in Scopes : NoScopeTargets[s] = {}
  BY DEF NoScopeTargets, Scopes
<1>6. second \in Impacts(RowState, scope) /\ ImpactSourced(kept, scope, second)
  <2> DEFINE targets(e) == IF merged(e).status = "unavailable"
                           THEN NoScopeTargets ELSE first[e].targets
             one(e) == [status |-> merged(e).status, codes |-> merged(e).codes, targets |-> targets(e)]
  <2>1. ASSUME NEW e \in Endpoint
        PROVE  /\ targets(e) \in [Scopes -> SUBSET SUBSET Pairs]
               /\ targets(e)["caller"] \in SUBSET SUBSET SeenPairs(RowState, scope)
    <3>1. /\ first[e].targets \in [Scopes -> SUBSET SUBSET Pairs]
          /\ first[e].targets["caller"] \in SUBSET SUBSET SeenPairs(RowState, scope)
      BY <1>3, ImpactFields
    <3> QED BY <1>4, <1>5, <3>1
  <2>2. ASSUME NEW e \in Endpoint, NEW s \in Scopes
        PROVE  SourcedFrom(kept, scope, e, merged(e).status = "verified", targets(e)[s])
    <3>1. SourcedFrom(kept, scope, e, e \notin acc.reduced /\ report[e].status = "verified",
                      acc.targets[<<e, s>>])
      BY <1>2 DEF Sourced
    <3>2. targets(e)[s] \in {{}, acc.targets[<<e, s>>]}
      BY <1>3, <1>5
    <3>3. Sized({})
      BY FS_EmptySet DEF Sized
    <3>4. merged(e).status = "verified" => e \notin acc.reduced /\ report[e].status = "verified"
      BY <1>3, <1>4
    <3> HIDE DEF targets
    <3> QED BY <3>1, <3>2, <3>3, <3>4 DEF SourcedFrom
  <2> HIDE DEF targets
  <2>3. ASSUME NEW e \in Endpoint
        PROVE  /\ one(e) \in [status : Statuses, codes : SUBSET Codes,
                              targets : [Scopes -> SUBSET SUBSET Pairs]]
               /\ one(e).targets = targets(e) /\ one(e).status = merged(e).status
    BY <1>4, <2>1
  <2>4. second = [e \in Endpoint |-> one(e)]
    BY DEF targets
  <2> HIDE DEF one, second
  <2>5. second \in [Endpoint -> [status : Statuses, codes : SUBSET Codes,
                                 targets : [Scopes -> SUBSET SUBSET Pairs]]]
    BY <2>3, <2>4
  <2>6. \A e \in Endpoint : second[e].targets = targets(e) /\ second[e].status = merged(e).status
    BY <2>3, <2>4
  <2>7. second \in Impacts(RowState, scope)
    BY <2>1, <2>5, <2>6 DEF Impacts
  <2>8. ImpactSourced(kept, scope, second)
    BY <2>2, <2>6 DEF ImpactSourced
  <2> QED BY <2>7, <2>8
<1> HIDE DEF second
<1>7. ImpactSourced(kept, scope, last)
  BY <1>6, BoundSourced
<1> QED BY <1>1, <1>7

-----------------------------------------------------------------------------
(* Which facts a write set can come to hold. *)

\* The summary of facts of one resource is one of kept if they are.
Closed(kept) ==
    \A resource \in Resource : \A facts \in Seq({f \in kept : f.resource = resource}) :
        facts # <<>> => Summarize(facts) \in kept

\* Every fact of the write set is one of kept.
AllIn(writes, kept) == \A i \in DOMAIN writes : \A k \in DOMAIN writes[i].facts : writes[i].facts[k] \in kept

\* The facts of one entry, when they are kept, have a kept summary.
LEMMA EntrySummary ==
    ASSUME NEW kept, Closed(kept), NEW resource \in Resource, NEW facts \in Seq(WriteFact),
           facts # <<>>, \A k \in DOMAIN facts : facts[k].resource = resource /\ facts[k] \in kept
    PROVE  Summarize(facts) \in kept
<1>1. Len(facts) \in Nat /\ DOMAIN facts = 1 .. Len(facts)
  OBVIOUS
<1>2. \A k \in 1 .. Len(facts) : facts[k] \in {f \in kept : f.resource = resource}
  BY <1>1
<1>3. facts \in Seq({f \in kept : f.resource = resource})
  BY <1>1, <1>2
<1> QED BY <1>3 DEF Closed

LEMMA CompactWithin ==
    ASSUME NEW kept, Closed(kept), NEW writes \in WriteSets(RowState), AllIn(writes, kept),
           NEW i \in DOMAIN writes
    PROVE  AllIn([writes EXCEPT ![i] = Compact(writes[i])], kept)
<1> DEFINE entry == writes[i]
           summary == Summarize(entry.facts)
           after == [writes EXCEPT ![i] = Compact(writes[i])]
<1>1. entry \in Entries(RowState)
  BY DEF WriteSets
<1>2. /\ entry.resource \in Resource /\ entry.facts \in Seq(WriteFact) /\ entry.facts # <<>>
      /\ \A k \in DOMAIN entry.facts : entry.facts[k].resource = entry.resource
  BY <1>1, EntryFields, WriteFactsSeen
<1>3. \A k \in DOMAIN entry.facts : entry.facts[k] \in kept
  BY DEF AllIn
<1> HIDE DEF entry
<1>4. summary \in kept
  BY <1>2, <1>3, EntrySummary
<1>5. Compact(writes[i]) = [resource |-> entry.resource, facts |-> <<summary>>, summarized |-> TRUE]
  BY DEF Compact, entry
<1> HIDE DEF summary
<1>6. \A k \in DOMAIN Compact(writes[i]).facts : Compact(writes[i]).facts[k] \in kept
  <2>1. Compact(writes[i]).facts = <<summary>>
    BY <1>5
  <2>2. \A k \in DOMAIN <<summary>> : <<summary>>[k] \in kept
    BY <1>4
  <2> QED BY <2>1, <2>2
<1> DEFINE compacted == Compact(writes[i])
<1> HIDE DEF compacted
<1>7. /\ DOMAIN after = DOMAIN writes /\ after[i] = compacted
      /\ \A j \in DOMAIN writes : j # i => after[j] = writes[j]
  BY DEF WriteSets, compacted
<1> HIDE DEF after
<1> QED BY <1>6, <1>7 DEF AllIn, after, compacted

LEMMA PushWithin ==
    ASSUME NEW kept, Closed(kept), NEW writes \in WriteSets(RowState), AllIn(writes, kept),
           NEW fact \in WriteFact, fact \in kept
    PROVE  AllIn(Push(writes, fact), kept)
<1>1. CASE \A i \in DOMAIN writes : writes[i].resource # fact.resource
  <2> DEFINE facts == <<fact>>
             entry == [resource |-> fact.resource, facts |-> facts, summarized |-> FALSE]
             after == Append(writes, entry)
  <2>1. Push(writes, fact) = after
    BY <1>1 DEF Push
  <2>2. \A k \in DOMAIN facts : facts[k] \in kept
    OBVIOUS
  <2>3. entry.facts = facts
    OBVIOUS
  <2> HIDE DEF entry, facts
  <2>4. \A j \in DOMAIN after : (j \in DOMAIN writes /\ after[j] = writes[j]) \/ after[j] = entry
    BY DEF WriteSets
  <2> HIDE DEF after
  <2> QED BY <2>1, <2>2, <2>3, <2>4 DEF AllIn
<1>2. CASE \E i \in DOMAIN writes : writes[i].resource = fact.resource
  <2> DEFINE i == EntryOf(writes, fact.resource)
             facts == Append(writes[i].facts, fact)
             next == IF writes[i].summarized THEN <<Summarize(facts)>> ELSE facts
             after == [writes EXCEPT ![i].facts = next]
  <2>1. i \in DOMAIN writes /\ writes[i].resource = fact.resource
    BY <1>2 DEF EntryOf
  <2>2. writes[i] \in Entries(RowState)
    BY <2>1 DEF WriteSets
  <2>3. Push(writes, fact) = after
    BY <1>2 DEF Push
  <2> HIDE DEF i
  <2>4. /\ writes[i].facts \in Seq(WriteFact)
        /\ \A k \in DOMAIN writes[i].facts : writes[i].facts[k].resource = fact.resource
                                             /\ writes[i].facts[k] \in kept
    BY <2>1, <2>2, EntryFields, WriteFactsSeen DEF AllIn
  <2>5. /\ facts \in Seq(WriteFact) /\ facts # <<>>
        /\ \A k \in DOMAIN facts : (k \in DOMAIN writes[i].facts /\ facts[k] = writes[i].facts[k])
                                   \/ facts[k] = fact
    BY <2>4
  <2> HIDE DEF facts
  <2>6. \A k \in DOMAIN facts : facts[k].resource = fact.resource /\ facts[k] \in kept
    BY <2>4, <2>5
  <2>7. Summarize(facts) \in kept
    <3>1. fact.resource \in Resource
      BY DEF WriteFact
    <3> QED BY <2>5, <2>6, <3>1, EntrySummary
  <2>8. \A k \in DOMAIN next : next[k] \in kept
    <3> DEFINE summary == Summarize(facts)
    <3> HIDE DEF summary
    <3>1. \A k \in DOMAIN <<summary>> : <<summary>>[k] \in kept
      BY <2>7 DEF summary
    <3>2. next \in {<<summary>>, facts}
      BY DEF summary
    <3> HIDE DEF next
    <3> QED BY <2>6, <3>1, <3>2
  <2> HIDE DEF next
  <2>9. /\ DOMAIN after = DOMAIN writes
        /\ \A j \in DOMAIN writes : j # i => after[j] = writes[j]
        /\ after[i].facts = next
    <3>1. after[i] = [writes[i] EXCEPT !.facts = next]
      BY <2>1 DEF WriteSets
    <3>2. [writes[i] EXCEPT !.facts = next].facts = next
      BY <2>2 DEF Entries
    <3> QED BY <2>1, <3>1, <3>2 DEF WriteSets
  <2> HIDE DEF after
  <2> QED BY <2>3, <2>8, <2>9 DEF AllIn
<1> QED BY <1>1, <1>2

LEMMA CompactOwnWithin ==
    ASSUME NEW kept, Closed(kept), NEW writes \in WriteSets(RowState), AllIn(writes, kept),
           NEW resource, \E i \in DOMAIN writes : writes[i].resource = resource
    PROVE  AllIn(CompactOwn(writes, resource), kept)
<1> DEFINE i == EntryOf(writes, resource)
<1>1. i \in DOMAIN writes
  BY DEF EntryOf
<1>2. CompactOwn(writes, resource) \in {writes, [writes EXCEPT ![i] = Compact(writes[i])]}
  BY DEF CompactOwn
<1> HIDE DEF i
<1> QED BY <1>1, <1>2, CompactWithin

LEMMA CompactLargestWithin ==
    ASSUME NEW kept, Closed(kept), NEW writes \in WriteSets(RowState), AllIn(writes, kept)
    PROVE  AllIn(CompactLargest(writes), kept)
<1> DEFINE i == CHOOSE largest \in Detailed(writes) :
                   \A j \in Detailed(writes) : FactsSize(writes[largest].facts) >= FactsSize(writes[j].facts)
<1>1. CompactLargest(writes) = [writes EXCEPT ![i] = Compact(writes[i])]
  BY DEF CompactLargest
<1> HIDE DEF i
<1>2. CASE i \in DOMAIN writes
  BY <1>1, <1>2, CompactWithin
<1>3. CASE i \notin DOMAIN writes
  <2>1. CompactLargest(writes) = writes
    BY <1>1, <1>3 DEF WriteSets
  <2> QED BY <2>1
<1> QED BY <1>2, <1>3

LEMMA ReclaimWithin ==
    ASSUME NEW kept, Closed(kept), NEW writes \in WriteSets(RowState), AllIn(writes, kept)
    PROVE  AllIn(Reclaim(writes), kept)
<1> DEFINE n == Len(writes)
<1>1. PICK g : /\ g[0] = writes /\ g[n] = Reclaim(writes)
               /\ \A k \in 0 .. n : g[k] \in Keeping(RowState, writes)
               /\ \A k \in 1 .. n : g[k] = ReclaimStep(g[k - 1])
  BY ReclaimFold
<1>2. n \in Nat
  BY DEF WriteSets
<1> HIDE DEF n
<1> DEFINE T == {k \in 0 .. n : AllIn(g[k], kept)}
<1>3. 0 \in T
  BY <1>1, <1>2
<1>4. ASSUME NEW k \in 0 .. n, k < n, k \in T PROVE k + 1 \in T
  <2>1. k + 1 \in 1 .. n /\ (k + 1) - 1 = k /\ k + 1 \in 0 .. n
    BY <1>2, <1>4
  <2>2. g[k + 1] \in {g[k], CompactLargest(g[k])}
    BY <1>1, <2>1 DEF ReclaimStep
  <2>3. g[k] \in WriteSets(RowState) /\ AllIn(g[k], kept)
    BY <1>1, <1>4 DEF Keeping
  <2>4. AllIn(g[k + 1], kept)
    BY <2>2, <2>3, CompactLargestWithin
  <2> QED BY <2>1, <2>4
<1>5. n \in T
  <2> HIDE DEF T
  <2>1. \A k \in 0 .. n : k \in T
    BY <1>2, <1>3, <1>4, SegmentInduction
  <2> QED BY <1>2, <2>1
<1> QED BY <1>1, <1>5

LEMMA AddFactWithin ==
    ASSUME NEW kept, Closed(kept), NEW writes \in WriteSets(RowState), AllIn(writes, kept),
           NEW fact \in WriteFact, fact \in kept
    PROVE  AllIn(AddFact(writes, fact), kept)
<1> DEFINE pushed == Push(writes, fact)
           own == CompactOwn(pushed, fact.resource)
<1>1. pushed \in WriteSets(RowState) /\ Holds(pushed, fact) /\ AllIn(pushed, kept)
  BY PushKeeps, PushWithin, WriteFactsSeen
<1>2. \E i \in DOMAIN pushed : pushed[i].resource = fact.resource
  <2>0. PICK i \in DOMAIN pushed : \E k \in DOMAIN pushed[i].facts : Wider(pushed[i].facts[k], fact)
    BY <1>1 DEF Holds
  <2>1. PICK k \in DOMAIN pushed[i].facts : Wider(pushed[i].facts[k], fact)
    BY <2>0
  <2>2. pushed[i] \in Entries(RowState)
    BY <1>1, <2>1 DEF WriteSets
  <2>3. pushed[i].facts[k].resource = pushed[i].resource
    BY <2>1, <2>2, EntryFields
  <2> QED BY <2>1, <2>3 DEF Wider
<1> HIDE DEF pushed
<1>3. own \in WriteSets(RowState) /\ AllIn(own, kept)
  BY <1>1, <1>2, CompactOwnKeeps, CompactOwnWithin
<1>4. AddFact(writes, fact) = Reclaim(own)
  BY DEF AddFact, pushed
<1> HIDE DEF own
<1> QED BY <1>3, <1>4, ReclaimWithin

\* A write set holds no fact but those added and summaries of them.
LEMMA AddWithin ==
    ASSUME NEW kept, Closed(kept), NEW writes \in WriteSets(RowState), AllIn(writes, kept),
           NEW facts \in Seq(WriteFact), \A k \in DOMAIN facts : facts[k] \in kept
    PROVE  AllIn(Add(writes, facts), kept)
<1> DEFINE n == Len(facts)
<1>0. facts \in Seq(FactsFrom(RowState))
  BY WriteFactsSeen
<1>1. PICK g : /\ g[0] = writes /\ g[n] = Add(writes, facts)
               /\ \A k \in 0 .. n : g[k] \in Keeping(RowState, writes)
               /\ \A k \in 1 .. n : g[k] = AddFact(g[k - 1], facts[k])
  BY <1>0, AddFold
<1>2. n \in Nat /\ DOMAIN facts = 1 .. n
  OBVIOUS
<1> HIDE DEF n
<1> DEFINE T == {k \in 0 .. n : AllIn(g[k], kept)}
<1>3. 0 \in T
  BY <1>1, <1>2
<1>4. ASSUME NEW k \in 0 .. n, k < n, k \in T PROVE k + 1 \in T
  <2>1. k + 1 \in 1 .. n /\ (k + 1) - 1 = k /\ k + 1 \in 0 .. n
    BY <1>2, <1>4
  <2>2. g[k + 1] = AddFact(g[k], facts[k + 1])
    BY <1>1, <2>1
  <2>3. g[k] \in WriteSets(RowState) /\ AllIn(g[k], kept)
    BY <1>1, <1>4 DEF Keeping
  <2>4. facts[k + 1] \in WriteFact /\ facts[k + 1] \in kept
    BY <1>2, <2>1
  <2>5. AllIn(g[k + 1], kept)
    BY <2>2, <2>3, <2>4, AddFactWithin
  <2> QED BY <2>1, <2>5
<1>5. n \in T
  <2> HIDE DEF T
  <2>1. \A k \in 0 .. n : k \in T
    BY <1>2, <1>3, <1>4, SegmentInduction
  <2> QED BY <1>2, <2>1
<1> QED BY <1>1, <1>5

LEMMA SnapshotWithin ==
    ASSUME NEW kept, NEW writes \in WriteSets(RowState), AllIn(writes, kept)
    PROVE  Snapshot(writes) \in Seq(kept)
<1> DEFINE seqs == [i \in DOMAIN writes |-> writes[i].facts]
<1>1. ASSUME NEW i \in DOMAIN writes PROVE writes[i].facts \in Seq(kept)
  <2>1. writes[i] \in Entries(RowState)
    BY DEF WriteSets
  <2> DEFINE facts == writes[i].facts
  <2>2. facts \in Seq(FactsFrom(RowState)) /\ \A k \in DOMAIN facts : facts[k] \in kept
    BY <2>1, EntryFields DEF AllIn
  <2> HIDE DEF facts
  <2>3. DOMAIN facts = 1 .. Len(facts) /\ Len(facts) \in Nat
    BY <2>2
  <2>4. facts \in Seq(kept)
    BY <2>2, <2>3
  <2> QED BY <2>4 DEF facts
<1>2. seqs \in Seq(Seq(kept))
  <2>1. DOMAIN writes = 1 .. Len(writes) /\ Len(writes) \in Nat
    BY DEF WriteSets
  <2>2. \A i \in 1 .. Len(writes) : writes[i].facts \in Seq(kept)
    BY <1>1, <2>1
  <2> QED BY <2>1, <2>2
<1>3. Snapshot(writes) = FlattenSeq(seqs)
  BY DEF Snapshot
<1> HIDE DEF seqs
<1> QED BY <1>2, <1>3, Flattened

=============================================================================
