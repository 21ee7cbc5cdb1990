------------------------ MODULE SqliteCommand_proofs ------------------------
(***************************************************************************)
(* Proofs about SqliteCommand for every database, every manifest and every *)
(* bound.  The collector is a fold over the rows of the triggers, so the   *)
(* first part says what those folds return; the second that a statement    *)
(* never changes a row unseen; the third that this survives savepoints.    *)
(***************************************************************************)
EXTENDS SqliteCommand, ImpactLemmas

-----------------------------------------------------------------------------
(* The sets the variables range over. *)

AnyRow == UNION {Row[r] : r \in Resource}
FactsOf(r) ==
    {RowFact(r, op, old, new) : op \in {"insert", "delete"},
                                old \in Row[r] \cup {Null}, new \in Row[r] \cup {Null}}
      \cup {RowFact(r, "update", old, new) : old \in Row[r], new \in Row[r]}
Facts == UNION {FactsOf(r) : r \in Resource}
Collectors == [rows : Seq(Facts), widened : SUBSET Resource]
States == [db : Databases, collector : Collectors, effects : SUBSET Resource]
Points == [level : Nat, db : Databases, collector : Collectors, effects : SUBSET Resource]

\* Rows of a table that are told apart by their keys.
Keyed(resource, rows) ==
    \A a, b \in rows : Key(resource, a) = Key(resource, b) => a = b

\* What every table of a database is.
LEMMA DatabaseRows ==
    ASSUME NEW d \in Databases
    PROVE  /\ d \in [Resource -> SUBSET AnyRow]
           /\ \A r \in Resource : d[r] \subseteq Row[r] /\ IsFiniteSet(d[r]) /\ Keyed(r, d[r])
<1>1. d \in [Resource -> UNION {Tables(r) : r \in Resource}] /\ \A r \in Resource : d[r] \in Tables(r)
  BY DEF Databases
<1>2. \A r \in Resource : d[r] \subseteq Row[r] /\ IsFiniteSet(d[r]) /\ Keyed(r, d[r])
  BY <1>1 DEF Tables, Keyed
<1>3. \A r \in Resource : d[r] \subseteq AnyRow
  BY <1>2 DEF AnyRow
<1> QED BY <1>1, <1>2, <1>3

\* And what makes a database.
LEMMA DatabaseOf ==
    ASSUME NEW d, d = [r \in Resource |-> d[r]],
           \A r \in Resource : d[r] \subseteq Row[r] /\ IsFiniteSet(d[r]) /\ Keyed(r, d[r])
    PROVE  d \in Databases
<1>1. \A r \in Resource : d[r] \in Tables(r)
  BY DEF Tables, Keyed
<1>2. \A r \in Resource : d[r] \in UNION {Tables(q) : q \in Resource}
  BY <1>1
<1>3. d \in [Resource -> UNION {Tables(q) : q \in Resource}]
  BY <1>2
<1> QED BY <1>1, <1>3 DEF Databases

-----------------------------------------------------------------------------
(* Sizes. *)

\* A stored state has a size: it keeps finitely many values.
LEMMA ObservedSize ==
    ASSUME NEW resource \in Resource, NEW row \in AnyRow
    PROVE  RowSize(Observed(resource, row)) \in Nat
<1> DEFINE fields == Restricted(row, ObservedColumns(resource))
           filtered == Restricted(row, FilterColumns(resource))
<1>1. IsFiniteSet(row)
  BY SqliteAssumption DEF AnyRow
<1>2. IsFiniteSet(fields) /\ IsFiniteSet(filtered)
  <2>1. fields \in SUBSET row /\ filtered \in SUBSET row
    BY DEF Restricted
  <2> QED BY <1>1, <2>1, FS_Subset
<1>3. ASSUME NEW object, IsFiniteSet(object) PROVE Cardinality(Json(object)) \in Nat
  <2> DEFINE f == [pair \in object |-> <<pair[1], Encoded(pair[2])>>]
  <2>1. f \in Surjection(object, Json(object))
    BY DEF Surjection, Json
  <2> QED BY <1>3, <2>1, FS_Surjection, FS_CardinalityType
<1>4. Cardinality(Json(fields)) \in Nat /\ Cardinality(Json(filtered)) \in Nat
  BY <1>2, <1>3
<1>5. RowSize(UnknownRow) = 1
  BY DEF RowSize, UnknownRow
<1>6. ASSUME NEW scope, NEW a, NEW b, Cardinality(a) \in Nat, Cardinality(b) \in Nat
      PROVE  RowSize(KnownRow(scope, a, b)) \in Nat
  BY <1>6 DEF RowSize, KnownRow
<1> HIDE DEF fields, filtered
<1>7. \/ Observed(resource, row) = UnknownRow
      \/ \E scope : Observed(resource, row) = KnownRow(scope, Json(fields), Json(filtered))
  BY DEF Observed, fields, filtered
<1> QED BY <1>4, <1>5, <1>6, <1>7

\* A collected fact has a size, of at least one unit.
LEMMA FactSizes ==
    ASSUME NEW fact \in Facts
    PROVE  fact.resource \in Resource /\ FactSize(fact) \in Nat \ {0}
<1>0. PICK r \in Resource : fact \in FactsOf(r)
  BY DEF Facts
<1>1. PICK op \in {"insert", "update", "delete"},
           old \in Row[r] \cup {Null}, new \in Row[r] \cup {Null} :
             fact = RowFact(r, op, old, new) /\ (op = "update" => old \in Row[r])
  BY <1>0 DEF FactsOf
<1>a. Row[r] \subseteq AnyRow
  BY DEF AnyRow
<1>2. fact.resource = r
  BY <1>1 DEF RowFact
<1>3. RowSize(Absent) = 0
  BY DEF RowSize, Absent
<1>4. fact.before = Absent \/ (old \in AnyRow /\ fact.before = Observed(r, old))
  BY <1>1, <1>a DEF RowFact
<1>5. fact.after = Absent \/ (new \in AnyRow /\ fact.after = Observed(r, new))
  BY <1>1, <1>a DEF RowFact
<1>6. RowSize(fact.before) \in Nat /\ RowSize(fact.after) \in Nat
  BY <1>3, <1>4, <1>5, ObservedSize
<1>7. (IF fact.changed = Null THEN 0 ELSE Cardinality(fact.changed)) \in Nat
  <2>1. CASE op # "update"
    BY <1>1, <2>1 DEF RowFact
  <2>2. CASE op = "update"
    <3> DEFINE f == [pair \in old \ new |-> pair[1]]
    <3>1. fact.changed = {pair[1] : pair \in old \ new}
      BY <1>1, <2>2 DEF RowFact
    <3>2. f \in Surjection(old \ new, fact.changed)
      BY <3>1 DEF Surjection
    <3>3. IsFiniteSet(old \ new)
      <4>1. IsFiniteSet(old) /\ old \ new \in SUBSET old
        BY <1>1, <2>2, SqliteAssumption
      <4> QED BY <4>1, FS_Subset
    <3>4. Cardinality(fact.changed) \in Nat
      BY <3>2, <3>3, FS_Surjection, FS_CardinalityType
    <3> QED BY <3>4
  <2> QED BY <2>1, <2>2
<1> QED BY <1>2, <1>6, <1>7 DEF FactSize

\* The size of the collected rows, row by row.
LEMMA RowsSizeFold ==
    ASSUME NEW rows \in Seq(Facts)
    PROVE  \E g : /\ g[0] = 0 /\ g[Len(rows)] = RowsSize(rows)
                  /\ \A k \in 0 .. Len(rows) : g[k] \in Nat
                  /\ \A k \in 1 .. Len(rows) :
                        g[k] = g[k - 1] + FactSize(rows[k]) - 1
<1> DEFINE n == Len(rows)
           V == Nat
           Op(v, k) == v + FactSize(rows[k]) - 1
           G == [k \in 1 .. n |-> [v \in V |-> Op(v, k)]]
           Solves(h) ==
             h = [t \in SUBSET (1 .. n) |->
                    IF t = {} THEN 0 ELSE Op(h[t \ {Max(t)}], Max(t))]
<1>1. n \in Nat /\ DOMAIN rows = 1 .. n /\ 0 \in V
  OBVIOUS
<1>2. ASSUME NEW k \in 1 .. n, NEW v \in V PROVE Op(v, k) \in V
  <2>1. rows[k] \in Facts
    BY <1>1
  <2>2. FactSize(rows[k]) \in Nat \ {0}
    BY <2>1, FactSizes
  <2> QED BY <2>2
<1>3. G \in [1 .. n -> [V -> V]]
  <2> HIDE DEF V, n, Op
  <2> QED BY <1>2
<1>4. \E h : Solves(h)
  <2>1. PICK h \in [SUBSET (1 .. n) -> V] : FoldTable(h, 0, n, G)
    <3> HIDE DEF G, V, n
    <3> QED BY <1>1, <1>3, FoldExists
  <2>2. ASSUME NEW t \in SUBSET (1 .. n), t # {}
        PROVE  G[Max(t)][h[t \ {Max(t)}]] = Op(h[t \ {Max(t)}], Max(t))
    <3>1. Max(t) \in 1 .. n
      BY <1>1, <2>2, MaxIn
    <3>2. h[t \ {Max(t)}] \in V
      BY <2>1
    <3> HIDE DEF V, n, Op
    <3> QED BY <3>1, <3>2
  <2>3. Solves(h)
    <3> HIDE DEF G, V, n, Op
    <3> QED BY <2>1, <2>2 DEF FoldTable
  <2> QED BY <2>3
<1>5. PICK h : Solves(h) /\ RowsSize(rows) = h[1 .. n]
  <2>1. Solves(CHOOSE h : Solves(h))
    BY <1>4
  <2>2. RowsSize(rows) = (CHOOSE h : Solves(h))[1 .. n]
    BY <1>1 DEF RowsSize, FoldLeft, MapThenFoldSet
  <2> QED BY <2>1, <2>2
<1> DEFINE g == [k \in 0 .. n |-> h[1 .. k]]
<1>6. g[0] = 0 /\ g[n] = h[1 .. n]
  <2>1. g[0] = h[1 .. 0] /\ 1 .. 0 = {} /\ g[n] = h[1 .. n]
    BY <1>1
  <2> HIDE DEF g, n, Op
  <2> QED BY <1>5, <2>1
<1>7. ASSUME NEW k \in 1 .. n PROVE g[k] = Op(g[k - 1], k)
  <2>1. Max(1 .. k) = k /\ (1 .. k) \ {k} = 1 .. (k - 1) /\ 1 .. k # {}
    BY Segments
  <2>2. g[k] = h[1 .. k] /\ g[k - 1] = h[1 .. (k - 1)] /\ 1 .. k \in SUBSET (1 .. n)
    BY <1>1
  <2>3. h[1 .. k] = Op(h[1 .. (k - 1)], k)
    <3> HIDE DEF g, n, Op
    <3> QED BY <1>5, <2>1, <2>2
  <2> HIDE DEF g, n, Op
  <2> QED BY <2>3, <2>2
<1>8. \A k \in 0 .. n : g[k] \in V
  <2> DEFINE T == {k \in 0 .. n : g[k] \in V}
  <2> HIDE DEF g, V, n, Op
  <2>1. 0 \in T
    BY <1>1, <1>6
  <2>2. ASSUME NEW k \in 0 .. n, k < n, k \in T PROVE k + 1 \in T
    <3>1. k + 1 \in 1 .. n /\ (k + 1) - 1 = k /\ g[k] \in V
      BY <1>1, <2>2
    <3> QED BY <3>1, <1>2, <1>7
  <2>3. \A k \in 0 .. n : k \in T
    <3> HIDE DEF T
    <3> QED BY <1>1, <2>1, <2>2, SegmentInduction
  <2> QED BY <2>3
<1> HIDE DEF g, Solves
<1> QED BY <1>5, <1>6, <1>7, <1>8

\* The size of one resource's rows, row by row.
LEMMA SizeForFold ==
    ASSUME NEW rows \in Seq(Facts), NEW resource
    PROVE  \E g : /\ g[0] = 0 /\ g[Len(rows)] = SizeFor(rows, resource)
                  /\ \A k \in 0 .. Len(rows) : g[k] \in Nat
                  /\ \A k \in 1 .. Len(rows) :
                        g[k] = (IF rows[k].resource = resource THEN g[k - 1] + FactSize(rows[k]) - 1 ELSE g[k - 1])
<1> DEFINE n == Len(rows)
           V == Nat
           Op(v, k) == (IF rows[k].resource = resource THEN v + FactSize(rows[k]) - 1 ELSE v)
           G == [k \in 1 .. n |-> [v \in V |-> Op(v, k)]]
           Solves(h) ==
             h = [t \in SUBSET (1 .. n) |->
                    IF t = {} THEN 0 ELSE Op(h[t \ {Max(t)}], Max(t))]
<1>1. n \in Nat /\ DOMAIN rows = 1 .. n /\ 0 \in V
  OBVIOUS
<1>2. ASSUME NEW k \in 1 .. n, NEW v \in V PROVE Op(v, k) \in V
  <2>1. rows[k] \in Facts
    BY <1>1
  <2>2. FactSize(rows[k]) \in Nat \ {0}
    BY <2>1, FactSizes
  <2> QED BY <2>2
<1>3. G \in [1 .. n -> [V -> V]]
  <2> HIDE DEF V, n, Op
  <2> QED BY <1>2
<1>4. \E h : Solves(h)
  <2>1. PICK h \in [SUBSET (1 .. n) -> V] : FoldTable(h, 0, n, G)
    <3> HIDE DEF G, V, n
    <3> QED BY <1>1, <1>3, FoldExists
  <2>2. ASSUME NEW t \in SUBSET (1 .. n), t # {}
        PROVE  G[Max(t)][h[t \ {Max(t)}]] = Op(h[t \ {Max(t)}], Max(t))
    <3>1. Max(t) \in 1 .. n
      BY <1>1, <2>2, MaxIn
    <3>2. h[t \ {Max(t)}] \in V
      BY <2>1
    <3> HIDE DEF V, n, Op
    <3> QED BY <3>1, <3>2
  <2>3. Solves(h)
    <3> HIDE DEF G, V, n, Op
    <3> QED BY <2>1, <2>2 DEF FoldTable
  <2> QED BY <2>3
<1>5. PICK h : Solves(h) /\ SizeFor(rows, resource) = h[1 .. n]
  <2>1. Solves(CHOOSE h : Solves(h))
    BY <1>4
  <2>2. SizeFor(rows, resource) = (CHOOSE h : Solves(h))[1 .. n]
    BY <1>1 DEF SizeFor, FoldLeft, MapThenFoldSet
  <2> QED BY <2>1, <2>2
<1> DEFINE g == [k \in 0 .. n |-> h[1 .. k]]
<1>6. g[0] = 0 /\ g[n] = h[1 .. n]
  <2>1. g[0] = h[1 .. 0] /\ 1 .. 0 = {} /\ g[n] = h[1 .. n]
    BY <1>1
  <2> HIDE DEF g, n, Op
  <2> QED BY <1>5, <2>1
<1>7. ASSUME NEW k \in 1 .. n PROVE g[k] = Op(g[k - 1], k)
  <2>1. Max(1 .. k) = k /\ (1 .. k) \ {k} = 1 .. (k - 1) /\ 1 .. k # {}
    BY Segments
  <2>2. g[k] = h[1 .. k] /\ g[k - 1] = h[1 .. (k - 1)] /\ 1 .. k \in SUBSET (1 .. n)
    BY <1>1
  <2>3. h[1 .. k] = Op(h[1 .. (k - 1)], k)
    <3> HIDE DEF g, n, Op
    <3> QED BY <1>5, <2>1, <2>2
  <2> HIDE DEF g, n, Op
  <2> QED BY <2>3, <2>2
<1>8. \A k \in 0 .. n : g[k] \in V
  <2> DEFINE T == {k \in 0 .. n : g[k] \in V}
  <2> HIDE DEF g, V, n, Op
  <2>1. 0 \in T
    BY <1>1, <1>6
  <2>2. ASSUME NEW k \in 0 .. n, k < n, k \in T PROVE k + 1 \in T
    <3>1. k + 1 \in 1 .. n /\ (k + 1) - 1 = k /\ g[k] \in V
      BY <1>1, <2>2
    <3> QED BY <3>1, <1>2, <1>7
  <2>3. \A k \in 0 .. n : k \in T
    <3> HIDE DEF T
    <3> QED BY <1>1, <2>1, <2>2, SegmentInduction
  <2> QED BY <2>3
<1> HIDE DEF g, Solves
<1> QED BY <1>5, <1>6, <1>7, <1>8

\* The rows that keep their detail, row by row.
LEMMA DetailFold ==
    ASSUME NEW rows \in Seq(Facts), NEW widened
    PROVE  \E g : /\ g[0] = <<>> /\ g[Len(rows)] = Detail(rows, widened)
                  /\ \A k \in 0 .. Len(rows) : g[k] \in Seq(Facts)
                  /\ \A k \in 1 .. Len(rows) :
                        g[k] = (IF rows[k].resource \in widened THEN g[k - 1] ELSE Append(g[k - 1], rows[k]))
<1> DEFINE n == Len(rows)
           V == Seq(Facts)
           Op(v, k) == (IF rows[k].resource \in widened THEN v ELSE Append(v, rows[k]))
           G == [k \in 1 .. n |-> [v \in V |-> Op(v, k)]]
           Solves(h) ==
             h = [t \in SUBSET (1 .. n) |->
                    IF t = {} THEN <<>> ELSE Op(h[t \ {Max(t)}], Max(t))]
<1>1. n \in Nat /\ DOMAIN rows = 1 .. n /\ <<>> \in V
  OBVIOUS
<1>2. ASSUME NEW k \in 1 .. n, NEW v \in V PROVE Op(v, k) \in V
  <2>1. rows[k] \in Facts
    BY <1>1
  <2> QED BY <2>1
<1>3. G \in [1 .. n -> [V -> V]]
  <2> HIDE DEF V, n, Op
  <2> QED BY <1>2
<1>4. \E h : Solves(h)
  <2>1. PICK h \in [SUBSET (1 .. n) -> V] : FoldTable(h, <<>>, n, G)
    <3> HIDE DEF G, V, n
    <3> QED BY <1>1, <1>3, FoldExists
  <2>2. ASSUME NEW t \in SUBSET (1 .. n), t # {}
        PROVE  G[Max(t)][h[t \ {Max(t)}]] = Op(h[t \ {Max(t)}], Max(t))
    <3>1. Max(t) \in 1 .. n
      BY <1>1, <2>2, MaxIn
    <3>2. h[t \ {Max(t)}] \in V
      BY <2>1
    <3> HIDE DEF V, n, Op
    <3> QED BY <3>1, <3>2
  <2>3. Solves(h)
    <3> HIDE DEF G, V, n, Op
    <3> QED BY <2>1, <2>2 DEF FoldTable
  <2> QED BY <2>3
<1>5. PICK h : Solves(h) /\ Detail(rows, widened) = h[1 .. n]
  <2>1. Solves(CHOOSE h : Solves(h))
    BY <1>4
  <2>2. Detail(rows, widened) = (CHOOSE h : Solves(h))[1 .. n]
    BY <1>1 DEF Detail, FoldLeft, MapThenFoldSet
  <2> QED BY <2>1, <2>2
<1> DEFINE g == [k \in 0 .. n |-> h[1 .. k]]
<1>6. g[0] = <<>> /\ g[n] = h[1 .. n]
  <2>1. g[0] = h[1 .. 0] /\ 1 .. 0 = {} /\ g[n] = h[1 .. n]
    BY <1>1
  <2> HIDE DEF g, n, Op
  <2> QED BY <1>5, <2>1
<1>7. ASSUME NEW k \in 1 .. n PROVE g[k] = Op(g[k - 1], k)
  <2>1. Max(1 .. k) = k /\ (1 .. k) \ {k} = 1 .. (k - 1) /\ 1 .. k # {}
    BY Segments
  <2>2. g[k] = h[1 .. k] /\ g[k - 1] = h[1 .. (k - 1)] /\ 1 .. k \in SUBSET (1 .. n)
    BY <1>1
  <2>3. h[1 .. k] = Op(h[1 .. (k - 1)], k)
    <3> HIDE DEF g, n, Op
    <3> QED BY <1>5, <2>1, <2>2
  <2> HIDE DEF g, n, Op
  <2> QED BY <2>3, <2>2
<1>8. \A k \in 0 .. n : g[k] \in V
  <2> DEFINE T == {k \in 0 .. n : g[k] \in V}
  <2> HIDE DEF g, V, n, Op
  <2>1. 0 \in T
    BY <1>1, <1>6
  <2>2. ASSUME NEW k \in 0 .. n, k < n, k \in T PROVE k + 1 \in T
    <3>1. k + 1 \in 1 .. n /\ (k + 1) - 1 = k /\ g[k] \in V
      BY <1>1, <2>2
    <3> QED BY <3>1, <1>2, <1>7
  <2>3. \A k \in 0 .. n : k \in T
    <3> HIDE DEF T
    <3> QED BY <1>1, <2>1, <2>2, SegmentInduction
  <2> QED BY <2>3
<1> HIDE DEF g, Solves
<1> QED BY <1>5, <1>6, <1>7, <1>8

-----------------------------------------------------------------------------
(* The collector. *)

\* Some resource of the rows has the largest size of them.
LEMMA LargestExists ==
    ASSUME NEW rows \in Seq(Facts), rows # <<>>
    PROVE  LET held == {rows[i].resource : i \in DOMAIN rows}
           IN \E r \in held : \A o \in held : SizeFor(rows, r) >= SizeFor(rows, o)
<1> DEFINE n == Len(rows)
           size(i) == SizeFor(rows, rows[i].resource)
           T == {k \in 0 .. n : k # 0 => \E i \in 1 .. k : \A j \in 1 .. k : size(i) >= size(j)}
<1>1. n \in Nat /\ n # 0 /\ DOMAIN rows = 1 .. n
  OBVIOUS
<1>2. \A resource : SizeFor(rows, resource) \in Nat
  <2> TAKE resource
  <2>1. \E g : /\ g[0] = 0 /\ g[Len(rows)] = SizeFor(rows, resource)
               /\ \A k \in 0 .. Len(rows) : g[k] \in Nat
    BY SizeForFold
  <2> QED BY <2>1, <1>1
<1>3. \A i \in 1 .. n : size(i) \in Nat
  BY <1>2
<1>4. 0 \in T
  BY <1>1
<1>5. ASSUME NEW k \in 0 .. n, k < n, k \in T PROVE k + 1 \in T
  <2> HIDE DEF size, n
  <2>1. k + 1 \in 0 .. n /\ \A j \in 1 .. k + 1 : j \in 1 .. n /\ (j \in 1 .. k \/ j = k + 1)
    BY <1>1, <1>5
  <2>2. CASE k = 0
    <3>1. \A j \in 1 .. k + 1 : j = 1
      BY <2>2
    <3>2. 1 \in 1 .. n /\ 1 \in 1 .. k + 1
      BY <2>1, <2>2, <1>1, <1>5
    <3>3. size(1) \in Nat
      BY <3>2, <1>3
    <3>4. size(1) >= size(1)
      BY <3>3
    <3> QED BY <2>1, <3>1, <3>2, <3>4
  <2>3. CASE k # 0
    <3>1. PICK i \in 1 .. k : \A j \in 1 .. k : size(i) >= size(j)
      BY <1>5, <2>3
    <3>2. size(i) \in Nat /\ size(k + 1) \in Nat /\ i \in 1 .. k + 1 /\ k + 1 \in 1 .. k + 1
      BY <1>1, <1>3, <1>5
    <3>3. CASE size(i) >= size(k + 1)
      BY <2>1, <3>1, <3>2, <3>3
    <3>4. CASE ~(size(i) >= size(k + 1))
      <4>1. \A j \in 1 .. k + 1 : size(k + 1) >= size(j)
        <5> TAKE j \in 1 .. k + 1
        <5>1. size(j) \in Nat
          BY <1>3, <2>1
        <5>2. j = k + 1 \/ size(i) >= size(j)
          BY <2>1, <3>1
        <5> QED BY <3>2, <3>4, <5>1, <5>2
      <4> QED BY <2>1, <3>2, <4>1
    <3> QED BY <3>3, <3>4
  <2> QED BY <2>2, <2>3
<1>6. n \in T
  <2> HIDE DEF T
  <2>1. \A k \in 0 .. n : k \in T
    BY <1>1, <1>4, <1>5, SegmentInduction
  <2> QED BY <1>1, <2>1
<1>7. PICK i \in 1 .. n : \A j \in 1 .. n : size(i) >= size(j)
  BY <1>1, <1>6
<1>8. rows[i].resource \in {rows[j].resource : j \in DOMAIN rows}
  BY <1>1
<1>9. \A o \in {rows[j].resource : j \in DOMAIN rows} :
         SizeFor(rows, rows[i].resource) >= SizeFor(rows, o)
  BY <1>1, <1>7
<1> QED BY <1>8, <1>9

\* Exactly the rows of widened resources are lost.
LEMMA DetailKeeps ==
    ASSUME NEW rows \in Seq(Facts), NEW widened
    PROVE  /\ Detail(rows, widened) \in Seq(Facts)
           /\ \A i \in DOMAIN rows : rows[i].resource \notin widened =>
                 \E j \in DOMAIN Detail(rows, widened) : Detail(rows, widened)[j] = rows[i]
<1> DEFINE n == Len(rows)
<1>1. PICK g : /\ g[0] = <<>> /\ g[n] = Detail(rows, widened)
               /\ \A k \in 0 .. n : g[k] \in Seq(Facts)
               /\ \A k \in 1 .. n :
                     g[k] = (IF rows[k].resource \in widened THEN g[k - 1] ELSE Append(g[k - 1], rows[k]))
  BY DetailFold
<1> DEFINE Held(k) == \A i \in 1 .. k : rows[i].resource \notin widened =>
                         \E j \in DOMAIN g[k] : g[k][j] = rows[i]
           T == {k \in 0 .. n : Held(k)}
<1>2. n \in Nat /\ DOMAIN rows = 1 .. n
  OBVIOUS
<1>3. 0 \in T
  BY <1>2
<1>4. ASSUME NEW k \in 0 .. n, k < n, k \in T PROVE k + 1 \in T
  <2>1. k + 1 \in 1 .. n /\ (k + 1) - 1 = k /\ g[k] \in Seq(Facts) /\ k + 1 \in 0 .. n
    BY <1>1, <1>2, <1>4
  <2>2. g[k + 1] = (IF rows[k + 1].resource \in widened THEN g[k] ELSE Append(g[k], rows[k + 1]))
    BY <1>1, <2>1
  <2>3. ASSUME NEW i \in 1 .. k + 1, rows[i].resource \notin widened
        PROVE  \E j \in DOMAIN g[k + 1] : g[k + 1][j] = rows[i]
    <3>1. CASE i = k + 1
      <4>1. g[k + 1] = Append(g[k], rows[k + 1])
        BY <2>2, <2>3, <3>1
      <4>2. Len(g[k]) + 1 \in DOMAIN g[k + 1] /\ g[k + 1][Len(g[k]) + 1] = rows[i]
        BY <2>1, <3>1, <4>1
      <4> QED BY <4>2
    <3>2. CASE i # k + 1
      <4>1. i \in 1 .. k
        BY <3>2
      <4>2. PICK j \in DOMAIN g[k] : g[k][j] = rows[i]
        BY <1>4, <2>3, <4>1
      <4>3. j \in DOMAIN g[k + 1] /\ g[k + 1][j] = g[k][j]
        BY <2>1, <2>2, <4>2
      <4> QED BY <4>2, <4>3
    <3> QED BY <3>1, <3>2
  <2> QED BY <2>1, <2>3
<1>5. n \in T
  <2> HIDE DEF T
  <2>1. \A k \in 0 .. n : k \in T
    BY <1>2, <1>3, <1>4, SegmentInduction
  <2> QED BY <1>2, <2>1
<1> QED BY <1>1, <1>2, <1>5

\* A collector without rows is not full.
LEMMA FullHasRows ==
    ASSUME NEW rows, CollectorFull(rows)
    PROVE  rows # <<>>
<1> SUFFICES ASSUME rows = <<>> PROVE FALSE
  OBVIOUS
<1>1. Len(rows) = 0 /\ MaxFacts \in Nat /\ MaxFactSize \in Nat /\ rows \in Seq(Facts)
  BY WriteSetAssumption
<1>2. RowsSize(rows) = 0
  <2>1. \E g : g[0] = 0 /\ g[Len(rows)] = RowsSize(rows)
    BY <1>1, RowsSizeFold
  <2> QED BY <1>1, <2>1
<1> QED BY <1>1, <1>2 DEF CollectorFull

\* A collected fact and the facts before it stay unless their resource is
\* widened, and a widened resource stays widened.
LEMMA CollectKeeps ==
    ASSUME NEW c \in Collectors, NEW fact \in Facts
    PROVE  LET after == Collect(c, fact)
           IN /\ after \in Collectors
              /\ c.widened \subseteq after.widened
              /\ \A f : /\ f = fact \/ \E i \in DOMAIN c.rows : c.rows[i] = f
                        /\ f.resource \notin after.widened
                        => \E j \in DOMAIN after.rows : after.rows[j] = f
<1> DEFINE rows == IF fact.resource \in c.widened THEN c.rows ELSE Append(c.rows, fact)
           held == {rows[i].resource : i \in DOMAIN rows}
           largest == CHOOSE r \in held : \A o \in held : SizeFor(rows, r) >= SizeFor(rows, o)
           widened == c.widened \cup IF CollectorFull(rows) THEN {largest} ELSE {}
           after == Collect(c, fact)
<1>1. after = [rows |-> Detail(rows, widened), widened |-> widened]
  BY DEF Collect
<1>2. rows \in Seq(Facts) /\ c.widened \subseteq Resource
  BY DEF Collectors
<1>3. CollectorFull(rows) => rows # <<>>
  <2> HIDE DEF rows
  <2> QED BY FullHasRows
<1>4. CollectorFull(rows) => largest \in Resource
  <2> SUFFICES ASSUME CollectorFull(rows) PROVE largest \in Resource
    OBVIOUS
  <2>1. \E r \in held : \A o \in held : SizeFor(rows, r) >= SizeFor(rows, o)
    <3> HIDE DEF rows
    <3> QED BY <1>2, <1>3, LargestExists
  <2>2. largest \in held
    <3> HIDE DEF rows, held
    <3> QED BY <2>1
  <2>3. \A i \in DOMAIN rows : rows[i] \in Facts
    <3> HIDE DEF rows
    <3> QED BY <1>2
  <2> HIDE DEF rows, largest
  <2> QED BY <2>2, <2>3, FactSizes
<1>5. widened \subseteq Resource
  BY <1>2, <1>4
<1>6. Detail(rows, widened) \in Seq(Facts)
  <2> HIDE DEF rows, widened
  <2> QED BY <1>2, DetailKeeps
<1>7. after \in Collectors /\ c.widened \subseteq after.widened
  <2>1. c.widened \subseteq widened
    OBVIOUS
  <2> HIDE DEF rows, widened, after
  <2> QED BY <1>1, <1>5, <1>6, <2>1 DEF Collectors
<1>8. ASSUME NEW f, f = fact \/ \E i \in DOMAIN c.rows : c.rows[i] = f,
             f.resource \notin after.widened
      PROVE  \E j \in DOMAIN after.rows : after.rows[j] = f
  <2>1. f.resource \notin widened /\ f.resource \notin c.widened
    <3>1. c.widened \subseteq widened
      OBVIOUS
    <3> HIDE DEF rows, widened, after
    <3> QED BY <1>1, <1>8, <3>1
  <2>2. c.rows \in Seq(Facts)
    BY DEF Collectors
  <2>3. \E i \in DOMAIN rows : rows[i] = f
    <3>1. CASE f = fact
      <4>1. rows = Append(c.rows, fact)
        BY <2>1, <3>1
      <4>2. Len(c.rows) + 1 \in DOMAIN rows /\ rows[Len(c.rows) + 1] = fact
        <5> HIDE DEF rows
        <5> QED BY <2>2, <4>1
      <4> HIDE DEF rows
      <4> QED BY <3>1, <4>2
    <3>2. CASE f # fact
      <4>1. PICK i \in DOMAIN c.rows : c.rows[i] = f
        BY <1>8, <3>2
      <4>2. i \in DOMAIN rows /\ rows[i] = c.rows[i]
        BY <2>2
      <4> HIDE DEF rows
      <4> QED BY <4>1, <4>2
    <3> QED BY <3>1, <3>2
  <2>4. \E j \in DOMAIN Detail(rows, widened) : Detail(rows, widened)[j] = f
    <3> HIDE DEF rows, widened
    <3>1. \A i \in DOMAIN rows : rows[i].resource \notin widened =>
             \E j \in DOMAIN Detail(rows, widened) : Detail(rows, widened)[j] = rows[i]
      BY <1>2, DetailKeeps
    <3> QED BY <2>1, <2>3, <3>1
  <2> HIDE DEF rows, widened, after
  <2> QED BY <1>1, <2>4
<1> HIDE DEF after
<1> QED BY <1>7, <1>8 DEF after

\* Detail is of rows that were there.
LEMMA DetailWithin ==
    ASSUME NEW rows \in Seq(Facts), NEW widened, NEW j \in DOMAIN Detail(rows, widened)
    PROVE  \E i \in DOMAIN rows : Detail(rows, widened)[j] = rows[i]
<1> DEFINE n == Len(rows)
<1>1. PICK g : /\ g[0] = <<>> /\ g[n] = Detail(rows, widened)
               /\ \A k \in 0 .. n : g[k] \in Seq(Facts)
               /\ \A k \in 1 .. n :
                     g[k] = (IF rows[k].resource \in widened THEN g[k - 1] ELSE Append(g[k - 1], rows[k]))
  BY DetailFold
<1> DEFINE Held(k) == \A m \in DOMAIN g[k] : \E i \in DOMAIN rows : g[k][m] = rows[i]
           T == {k \in 0 .. n : Held(k)}
<1>2. n \in Nat /\ DOMAIN rows = 1 .. n
  OBVIOUS
<1>3. 0 \in T
  BY <1>1, <1>2
<1>4. ASSUME NEW k \in 0 .. n, k < n, k \in T PROVE k + 1 \in T
  <2>1. k + 1 \in 1 .. n /\ (k + 1) - 1 = k /\ g[k] \in Seq(Facts) /\ k + 1 \in 0 .. n
    BY <1>1, <1>2, <1>4
  <2>2. g[k + 1] = (IF rows[k + 1].resource \in widened THEN g[k] ELSE Append(g[k], rows[k + 1]))
    BY <1>1, <2>1
  <2>3. ASSUME NEW m \in DOMAIN g[k + 1] PROVE \E i \in DOMAIN rows : g[k + 1][m] = rows[i]
    <3>1. (m \in DOMAIN g[k] /\ g[k + 1][m] = g[k][m]) \/ g[k + 1][m] = rows[k + 1]
      BY <2>1, <2>2
    <3> QED BY <1>2, <1>4, <2>1, <3>1
  <2> QED BY <2>1, <2>3
<1>5. n \in T
  <2> HIDE DEF T
  <2>1. \A k \in 0 .. n : k \in T
    BY <1>2, <1>3, <1>4, SegmentInduction
  <2> QED BY <1>2, <2>1
<1> QED BY <1>1, <1>2, <1>5

\* All that a collector holds is of these resources.
CollectedOf(c, resources) ==
    /\ c.widened \subseteq resources
    /\ \A i \in DOMAIN c.rows : c.rows[i].resource \in resources

\* A trigger adds its own resource, and widens one that has rows.
LEMMA CollectWithin ==
    ASSUME NEW c \in Collectors, NEW fact \in Facts, NEW resources,
           CollectedOf(c, resources), fact.resource \in resources
    PROVE  CollectedOf(Collect(c, fact), resources)
<1> DEFINE rows == IF fact.resource \in c.widened THEN c.rows ELSE Append(c.rows, fact)
           held == {rows[i].resource : i \in DOMAIN rows}
           largest == CHOOSE r \in held : \A o \in held : SizeFor(rows, r) >= SizeFor(rows, o)
           widened == c.widened \cup IF CollectorFull(rows) THEN {largest} ELSE {}
           after == Collect(c, fact)
<1>1. after = [rows |-> Detail(rows, widened), widened |-> widened]
  BY DEF Collect
<1>2. rows \in Seq(Facts)
  BY DEF Collectors
<1>3. \A i \in DOMAIN rows : rows[i].resource \in resources
  <2>1. c.rows \in Seq(Facts)
    BY DEF Collectors
  <2>2. \A i \in DOMAIN rows : (i \in DOMAIN c.rows /\ rows[i] = c.rows[i]) \/ rows[i] = fact
    BY <2>1
  <2> HIDE DEF rows
  <2> QED BY <2>2 DEF CollectedOf
<1>4. CollectorFull(rows) => largest \in held
  <2> SUFFICES ASSUME CollectorFull(rows) PROVE largest \in held
    OBVIOUS
  <2>1. rows # <<>>
    <3> HIDE DEF rows
    <3> QED BY FullHasRows
  <2>2. \E r \in held : \A o \in held : SizeFor(rows, r) >= SizeFor(rows, o)
    <3> HIDE DEF rows
    <3> QED BY <1>2, <2>1, LargestExists
  <2> HIDE DEF rows, held
  <2> QED BY <2>2
<1>5. held \subseteq resources
  <2> HIDE DEF rows
  <2> QED BY <1>3
<1>6. widened \subseteq resources
  <2> HIDE DEF rows, held, largest
  <2> QED BY <1>4, <1>5 DEF CollectedOf
<1>7. \A j \in DOMAIN Detail(rows, widened) : \E i \in DOMAIN rows : Detail(rows, widened)[j] = rows[i]
  <2> HIDE DEF rows, widened
  <2> QED BY <1>2, DetailWithin
<1> HIDE DEF rows, widened, after
<1>8. CollectedOf(after, resources)
  BY <1>1, <1>3, <1>6, <1>7 DEF CollectedOf
<1> QED BY <1>8 DEF after

-----------------------------------------------------------------------------
(* Statements. *)

\* NothingUnobserved for any state: a row in which the state differs from the
\* database base is one side of a collected fact, or its resource is widened.
Seen(state, base) ==
    \A r \in Resource \ state.collector.widened :
        \A row \in (state.db[r] \ base[r]) \cup (base[r] \ state.db[r]) :
            \E i \in DOMAIN state.collector.rows :
                /\ state.collector.rows[i].resource = r
                /\ Observed(r, row) \in {state.collector.rows[i].before, state.collector.rows[i].after}

Fresh(state, resource, old, new) ==
    \A other \in state.db[resource] \ {old} : Key(resource, other) # Key(resource, new)

\* The rows a trigger is run for, the new one with a key of its own.
Changes(state, resource, operation, old, new) ==
    \/ /\ operation = "insert" /\ old = Null /\ new \in Row[resource]
       /\ Fresh(state, resource, old, new)
    \/ /\ operation = "update" /\ old \in state.db[resource] /\ new \in Row[resource]
       /\ Fresh(state, resource, old, new)
    \/ operation = "delete" /\ old \in Row[resource] /\ new = Null

\* One row changes and its trigger runs: what was seen stays seen, and so is
\* the change.
LEMMA TouchSees ==
    ASSUME NEW state \in States, NEW resource \in Resource, NEW operation, NEW old, NEW new, NEW base,
           Changes(state, resource, operation, old, new)
    PROVE  LET after == Touch(state, resource, operation, old, new)
           IN after \in States /\ (Seen(state, base) => Seen(after, base))
<1> DEFINE after == Touch(state, resource, operation, old, new)
           fact == RowFact(resource, operation, old, new)
<1>1. /\ state.db \in Databases /\ state.collector \in Collectors /\ state.effects \subseteq Resource
      /\ state = [db |-> state.db, collector |-> state.collector, effects |-> state.effects]
  BY DEF States
<1>0. /\ operation = "insert" => old = Null /\ new \in Row[resource]
      /\ operation = "update" => old \in state.db[resource] /\ new \in Row[resource]
      /\ operation = "delete" => old \in Row[resource] /\ new = Null
      /\ operation \in {"insert", "update", "delete"}
      /\ operation # "delete" => Fresh(state, resource, old, new)
  BY DEF Changes
<1>2. /\ state.db \in [Resource -> SUBSET AnyRow] /\ IsFiniteSet(state.db[resource])
      /\ \A r \in Resource : state.db[r] \subseteq Row[r] /\ IsFiniteSet(state.db[r]) /\ Keyed(r, state.db[r])
  BY <1>1, DatabaseRows
<1>3. \A row \in Row[resource] : row \in AnyRow /\ row # Null
  BY SqliteAssumption DEF AnyRow
<1>4. old \in Row[resource] \cup {Null} /\ new \in Row[resource] \cup {Null}
  BY <1>0, <1>2
<1>5. fact \in Facts
  <2>1. fact \in FactsOf(resource)
    BY <1>0, <1>2, <1>3 DEF FactsOf
  <2> HIDE DEF fact
  <2> QED BY <2>1 DEF Facts
<1> DEFINE table == (state.db[resource] \ {old}) \cup ({new} \ {Null})
<1>6. after.db = [state.db EXCEPT ![resource] = table]
  BY DEF Touch
<1>7. after.db \in Databases
  <2>1. table \subseteq Row[resource] /\ table \subseteq AnyRow
    BY <1>2, <1>3, <1>4
  <2>2. IsFiniteSet(table)
    <3>1. {new} \ {Null} \in SUBSET {new} /\ IsFiniteSet({new})
      BY FS_Singleton
    <3>2. IsFiniteSet({new} \ {Null})
      BY <3>1, FS_Subset
    <3>3. IsFiniteSet(state.db[resource] \ {old})
      BY <1>2, FS_RemoveElement
    <3> QED BY <3>2, <3>3, FS_Union
  <2>5. Keyed(resource, table)
    <3>1. \A x \in table : x \in state.db[resource] \ {old} \/ (x = new /\ new # Null)
      OBVIOUS
    <3>2. new # Null => \A x \in state.db[resource] \ {old} : Key(resource, x) # Key(resource, new)
      BY <1>0, <1>3 DEF Fresh
    <3> HIDE DEF table
    <3> QED BY <1>2, <3>1, <3>2 DEF Keyed
  <2> HIDE DEF table, after
  <2>3. after.db = [r \in Resource |-> after.db[r]]
    BY <1>2, <1>6
  <2>4. \A r \in Resource : after.db[r] \subseteq Row[r] /\ IsFiniteSet(after.db[r]) /\ Keyed(r, after.db[r])
    BY <1>2, <1>6, <2>1, <2>2, <2>5
  <2> QED BY <2>3, <2>4, DatabaseOf
<1>8. CASE old = new
  <2>1. operation = "update" /\ old \in state.db[resource] /\ new # Null
    BY <1>0, <1>3, <1>8
  <2>2. after.db = state.db
    <3>1. table = state.db[resource]
      BY <1>8, <2>1
    <3> HIDE DEF table, after
    <3> QED BY <1>2, <1>6, <3>1
  <2>3. after.collector = state.collector /\ after.effects = state.effects
    BY <1>8 DEF Touch, Fires
  <2>4. after \in States
    <3>1. after = [db |-> after.db, collector |-> after.collector, effects |-> after.effects]
      BY DEF Touch
    <3> HIDE DEF after
    <3> QED BY <1>1, <2>2, <2>3, <3>1 DEF States
  <2> HIDE DEF after
  <2> QED BY <2>2, <2>3, <2>4 DEF Seen, after
<1>9. CASE old # new
  <2>1. after.collector = Collect(state.collector, fact) /\ after.effects = state.effects \cup {resource}
    BY <1>9 DEF Touch, Fires
  <2>2. /\ after.collector \in Collectors
        /\ state.collector.widened \subseteq after.collector.widened
        /\ \A f : /\ f = fact \/ \E i \in DOMAIN state.collector.rows : state.collector.rows[i] = f
                  /\ f.resource \notin after.collector.widened
                  => \E j \in DOMAIN after.collector.rows : after.collector.rows[j] = f
    <3> HIDE DEF fact, after
    <3> QED BY <1>1, <1>5, <2>1, CollectKeeps
  <2>3. after \in States
    <3>1. after = [db |-> after.db, collector |-> after.collector, effects |-> after.effects]
      BY DEF Touch
    <3> HIDE DEF after
    <3> QED BY <1>1, <1>7, <2>1, <2>2, <3>1 DEF States
  <2>4. ASSUME Seen(state, base) PROVE Seen(after, base)
    <3> SUFFICES ASSUME NEW r \in Resource, r \notin after.collector.widened,
                        NEW row \in (after.db[r] \ base[r]) \cup (base[r] \ after.db[r])
                 PROVE  \E i \in DOMAIN after.collector.rows :
                           /\ after.collector.rows[i].resource = r
                           /\ Observed(r, row) \in {after.collector.rows[i].before, after.collector.rows[i].after}
      <4> HIDE DEF after
      <4> QED BY DEF Seen
    <3>1. CASE row \in (state.db[r] \ base[r]) \cup (base[r] \ state.db[r])
      <4>1. PICK i \in DOMAIN state.collector.rows :
               /\ state.collector.rows[i].resource = r
               /\ Observed(r, row) \in {state.collector.rows[i].before, state.collector.rows[i].after}
        <5> HIDE DEF after
        <5> QED BY <2>2, <2>4, <3>1 DEF Seen
      <4>2. PICK j \in DOMAIN after.collector.rows : after.collector.rows[j] = state.collector.rows[i]
        <5> HIDE DEF after
        <5> QED BY <2>2, <4>1
      <4> HIDE DEF after
      <4> QED BY <4>1, <4>2
    <3>2. CASE row \notin (state.db[r] \ base[r]) \cup (base[r] \ state.db[r])
      <4>1. r = resource
        <5> HIDE DEF after, table
        <5> QED BY <1>2, <1>6, <3>2
      <4>2. after.db[r] = table
        <5> HIDE DEF after, table
        <5> QED BY <1>2, <1>6, <4>1
      <4>3. row = old \/ row = new
        <5> HIDE DEF after
        <5> QED BY <3>2, <4>1, <4>2
      <4>4. row # Null
        <5>1. row = new => new \in table \/ row = old
          <6> HIDE DEF after
          <6> QED BY <3>2, <4>1, <4>2
        <5>2. row = old => row \in state.db[r] \/ row \in table
          <6> HIDE DEF after
          <6> QED BY <3>2, <4>1, <4>2
        <5>3. \A x \in state.db[resource] : x # Null
          BY <1>2, <1>3
        <5>4. \A x \in table : x # Null
          BY <5>3
        <5> HIDE DEF table
        <5> QED BY <4>1, <4>3, <5>1, <5>2, <5>3, <5>4
      <4>5. fact.resource = r /\ Observed(r, row) \in {fact.before, fact.after}
        BY <4>1, <4>3, <4>4 DEF RowFact
      <4>6. PICK j \in DOMAIN after.collector.rows : after.collector.rows[j] = fact
        <5> HIDE DEF after, fact
        <5> QED BY <2>2, <4>5
      <4> HIDE DEF after, fact
      <4> QED BY <4>5, <4>6
    <3> QED BY <3>1, <3>2
  <2> HIDE DEF after
  <2> QED BY <2>3, <2>4 DEF after
<1> QED BY <1>8, <1>9

\* The collector has what tells that rows which show these values to the read
\* have come, gone or changed: one of them, or the resource is widened.
Moved(c, read, shown) ==
    \/ read.resource \in c.widened
    \/ \E i \in DOMAIN c.rows :
          /\ c.rows[i].resource = read.resource
          /\ ChangesRead(c.rows[i], read)
          /\ \E x \in Row[read.resource] :
                /\ Shown(read, x) = shown
                /\ Observed(read.resource, x) \in {c.rows[i].before, c.rows[i].after}

Counted(state, base) ==
    \A read \in ToSet(Reads) : \A shown :
        Count(state.db, read, shown) # Count(base, read, shown) => Moved(state.collector, read, shown)

\* Nothing that was collected is lost by the next trigger.
LEMMA CollectMoved ==
    ASSUME NEW c \in Collectors, NEW fact \in Facts, NEW read, NEW shown, Moved(c, read, shown)
    PROVE  Moved(Collect(c, fact), read, shown)
<1> DEFINE after == Collect(c, fact)
<1>1. /\ c.widened \subseteq after.widened
      /\ \A f : /\ f = fact \/ \E i \in DOMAIN c.rows : c.rows[i] = f
                /\ f.resource \notin after.widened
                => \E j \in DOMAIN after.rows : after.rows[j] = f
  BY CollectKeeps
<1> HIDE DEF after
<1>2. SUFFICES ASSUME read.resource \notin after.widened PROVE Moved(after, read, shown)
  BY DEF after, Moved
<1>3. PICK i \in DOMAIN c.rows :
          /\ c.rows[i].resource = read.resource
          /\ ChangesRead(c.rows[i], read)
          /\ \E x \in Row[read.resource] :
                /\ Shown(read, x) = shown
                /\ Observed(read.resource, x) \in {c.rows[i].before, c.rows[i].after}
  BY <1>1, <1>2 DEF Moved
<1>4. PICK j \in DOMAIN after.rows : after.rows[j] = c.rows[i]
  BY <1>1, <1>2, <1>3
<1> QED BY <1>3, <1>4 DEF Moved

\* And the fact it collects is there.
LEMMA CollectShows ==
    ASSUME NEW c \in Collectors, NEW fact \in Facts, NEW read, NEW shown,
           fact.resource = read.resource, ChangesRead(fact, read),
           \E x \in Row[read.resource] :
              Shown(read, x) = shown /\ Observed(read.resource, x) \in {fact.before, fact.after}
    PROVE  Moved(Collect(c, fact), read, shown)
<1> DEFINE after == Collect(c, fact)
<1>1. fact.resource \notin after.widened => \E j \in DOMAIN after.rows : after.rows[j] = fact
  BY CollectKeeps
<1> HIDE DEF after
<1> QED BY <1>1 DEF after, Moved

\* Two rows of a table that agree on the columns of a read show it the same.
LEMMA ShownAlike ==
    ASSUME NEW resource \in Resource, NEW old \in Row[resource], NEW new \in Row[resource], NEW read,
           {pair[1] : pair \in old \ new} \cap ColumnsRead(read) = {}
    PROVE  Shown(read, old) = Shown(read, new)
<1> DEFINE columns == ColumnsRead(read)
<1>1. ColumnsOf(old) = ColumnsOf(new) /\ IsObject(new)
  BY SqliteAssumption
<1> HIDE DEF columns
<1>2. \A pair \in old : pair[1] \in columns => pair \in new
  BY DEF columns
<1>3. ASSUME NEW pair \in new, pair[1] \in columns PROVE pair \in old
  <2>1. pair[1] \in ColumnsOf(new)
    BY DEF ColumnsOf
  <2>2. PICK other \in old : other[1] = pair[1]
    BY <1>1, <2>1 DEF ColumnsOf
  <2>3. other \in new
    BY <1>2, <1>3, <2>2
  <2> QED BY <1>1, <2>2, <2>3 DEF IsObject
<1> QED BY <1>2, <1>3 DEF Shown, Restricted, columns

\* One row for another among those that show the same, and the count stays.
LEMMA CountReplaced ==
    ASSUME NEW S, IsFiniteSet(S), NEW old \in S, NEW new, new \notin S \ {old}
    PROVE  Cardinality((S \ {old}) \cup {new}) = Cardinality(S)
<1>1. IsFiniteSet(S \ {old}) /\ Cardinality(S \ {old}) = Cardinality(S) - 1
  BY FS_RemoveElement
<1>2. Cardinality((S \ {old}) \cup {new}) = Cardinality(S \ {old}) + 1
  BY <1>1, FS_AddElement
<1>3. Cardinality(S) \in Nat
  BY FS_CardinalityType
<1> QED BY <1>1, <1>2, <1>3

\* A trigger that changes how many rows show some values collects that.
LEMMA TouchMoves ==
    ASSUME NEW state \in States, NEW resource \in Resource, NEW operation, NEW old, NEW new,
           Changes(state, resource, operation, old, new),
           NEW read, read.resource \in Resource, NEW shown,
           LET after == Touch(state, resource, operation, old, new)
           IN Count(after.db, read, shown) # Count(state.db, read, shown)
    PROVE  Moved(Touch(state, resource, operation, old, new).collector, read, shown)
<1> DEFINE after == Touch(state, resource, operation, old, new)
           fact == RowFact(resource, operation, old, new)
           rows == state.db[resource]
           table == (rows \ {old}) \cup ({new} \ {Null})
           Showing(S) == {row \in S : Shown(read, row) = shown}
<1>0. /\ operation = "insert" => old = Null /\ new \in Row[resource]
      /\ operation = "update" => old \in rows /\ new \in Row[resource]
      /\ operation = "delete" => old \in Row[resource] /\ new = Null
      /\ operation \in {"insert", "update", "delete"}
      /\ operation # "delete" => Fresh(state, resource, old, new)
  BY DEF Changes
<1>1. /\ state.db \in [Resource -> SUBSET AnyRow] /\ state.collector \in Collectors
      /\ rows \subseteq Row[resource] /\ IsFiniteSet(rows)
  BY DatabaseRows DEF States
<1>2. after.db = [state.db EXCEPT ![resource] = table]
  BY DEF Touch
<1>3. \A row \in Row[resource] : row \in AnyRow /\ row # Null
  BY SqliteAssumption DEF AnyRow
<1>4. read.resource = resource
  <2> SUFFICES ASSUME read.resource # resource PROVE FALSE
    OBVIOUS
  <2>1. after.db[read.resource] = state.db[read.resource]
    <3> HIDE DEF after, table
    <3> QED BY <1>1, <1>2
  <2> HIDE DEF after
  <2> QED BY <2>1 DEF Count, after
<1>5. after.db[resource] = table
  <2> HIDE DEF after, table, rows
  <2> QED BY <1>1, <1>2
<1>6. Cardinality(Showing(table)) # Cardinality(Showing(rows))
  <2>1. Count(after.db, read, shown) = Cardinality(Showing(table))
    <3> HIDE DEF after, table
    <3> QED BY <1>4, <1>5 DEF Count
  <2>2. Count(state.db, read, shown) = Cardinality(Showing(rows))
    BY <1>4 DEF Count
  <2> HIDE DEF Showing, table, rows
  <2> QED BY <2>1, <2>2
<1>7. PICK x \in {old, new} : x # Null /\ Shown(read, x) = shown
  <2> SUFFICES ASSUME \A x \in {old, new} : x # Null => Shown(read, x) # shown PROVE FALSE
    OBVIOUS
  <2>1. \A x \in rows : x # Null
    BY <1>1, <1>3
  <2>2. Showing(table) = Showing(rows)
    BY <2>1
  <2> HIDE DEF Showing, table, rows
  <2> QED BY <1>6, <2>2
<1>8. x \in Row[resource]
  BY <1>0, <1>1, <1>7
<1>9. old # new
  <2> SUFFICES ASSUME old = new PROVE FALSE
    OBVIOUS
  <2>1. operation = "update"
    BY <1>0, <1>3
  <2>2. old \in rows /\ new # Null
    BY <1>0, <1>3, <2>1
  <2>3. table = rows
    BY <2>2
  <2> HIDE DEF Showing, table, rows
  <2> QED BY <1>6, <2>3
<1>10. fact \in Facts
  <2>1. fact \in FactsOf(resource)
    BY <1>0, <1>1 DEF FactsOf
  <2> HIDE DEF fact
  <2> QED BY <2>1 DEF Facts
<1>11. ChangesRead(fact, read)
  <2> SUFFICES ASSUME ~ChangesRead(fact, read) PROVE FALSE
    OBVIOUS
  <2>1. fact.operation = "update" /\ fact.changed \cap ColumnsRead(read) = {}
    BY DEF ChangesRead
  <2>2. operation = "update" /\ fact.changed = {pair[1] : pair \in old \ new}
    BY <2>1 DEF RowFact
  <2>3. /\ old \in rows /\ old \in Row[resource] /\ new \in Row[resource] /\ new # Null
        /\ Fresh(state, resource, old, new)
    BY <1>0, <1>1, <1>3, <2>2
  <2>4. Shown(read, old) = Shown(read, new)
    BY <2>1, <2>2, <2>3, ShownAlike
  <2>5. Shown(read, old) = shown /\ Shown(read, new) = shown
    BY <1>7, <2>4
  <2>6. new \notin rows \ {old}
    BY <2>3 DEF Fresh
  <2>7. table = (rows \ {old}) \cup {new}
    BY <2>3
  <2> DEFINE S == Showing(rows)
  <2>8. old \in S /\ new \notin S \ {old} /\ S \in SUBSET rows
    BY <2>3, <2>5, <2>6
  <2>9. Showing(table) = (S \ {old}) \cup {new}
    <3> HIDE DEF rows, table
    <3> QED BY <2>5, <2>7
  <2>10. IsFiniteSet(S)
    <3> HIDE DEF S, rows
    <3> QED BY <1>1, <2>8, FS_Subset
  <2>11. Cardinality(Showing(table)) = Cardinality(S)
    <3> HIDE DEF S, table, rows
    <3>1. Cardinality((S \ {old}) \cup {new}) = Cardinality(S)
      BY <2>8, <2>10, CountReplaced
    <3> HIDE DEF Showing
    <3> QED BY <2>9, <3>1
  <2> HIDE DEF Showing, table, rows
  <2> QED BY <1>6, <2>11
<1>12. fact.resource = resource /\ Observed(resource, x) \in {fact.before, fact.after}
  BY <1>7 DEF RowFact
<1>13. after.collector = Collect(state.collector, fact)
  BY <1>9 DEF Touch, Fires
<1> HIDE DEF after, fact
<1>14. Moved(Collect(state.collector, fact), read, shown)
  BY <1>1, <1>4, <1>7, <1>8, <1>10, <1>11, <1>12, CollectShows
<1> QED BY <1>13, <1>14 DEF after

\* One row changes: the counts stay told.
LEMMA TouchCounts ==
    ASSUME NEW state \in States, NEW resource \in Resource, NEW operation, NEW old, NEW new, NEW base,
           Changes(state, resource, operation, old, new), Counted(state, base)
    PROVE  Counted(Touch(state, resource, operation, old, new), base)
<1> DEFINE after == Touch(state, resource, operation, old, new)
           fact == RowFact(resource, operation, old, new)
<1> SUFFICES ASSUME NEW read \in ToSet(Reads), NEW shown,
                    Count(after.db, read, shown) # Count(base, read, shown)
             PROVE  Moved(after.collector, read, shown)
  BY DEF Counted
<1>1. read.resource \in Resource
  <2>1. read \in ReadDependency
    BY CalculateAssumption DEF ToSet
  <2> QED BY <2>1 DEF ReadDependency
<1>2. CASE Count(after.db, read, shown) # Count(state.db, read, shown)
  BY <1>1, <1>2, TouchMoves
<1>3. CASE Count(after.db, read, shown) = Count(state.db, read, shown)
  <2>1. Moved(state.collector, read, shown)
    <3> HIDE DEF after
    <3> QED BY <1>3 DEF Counted
  <2>2. state.collector \in Collectors
    BY DEF States
  <2>3. fact \in Facts
    <3>1. state.db[resource] \subseteq Row[resource]
      BY DatabaseRows DEF States
    <3>2. fact \in FactsOf(resource)
      BY <3>1 DEF FactsOf, Changes
    <3> HIDE DEF fact
    <3> QED BY <3>2 DEF Facts
  <2>4. after.collector \in {state.collector, Collect(state.collector, fact)}
    BY DEF Touch
  <2> HIDE DEF after, fact
  <2> QED BY <2>1, <2>2, <2>3, <2>4, CollectMoved
<1> QED BY <1>2, <1>3

\* Nothing was collected but for what the command's statements have changed.
Own(state) == CollectedOf(state.collector, state.effects)

\* A trigger collects a row of the resource whose row changed.
LEMMA TouchOwns ==
    ASSUME NEW state \in States, NEW resource \in Resource, NEW operation, NEW old, NEW new,
           Changes(state, resource, operation, old, new), Own(state)
    PROVE  Own(Touch(state, resource, operation, old, new))
<1> DEFINE after == Touch(state, resource, operation, old, new)
           fact == RowFact(resource, operation, old, new)
<1>1. state.collector \in Collectors
  BY DEF States
<1>2. CASE old = new
  <2>1. after.collector = state.collector /\ after.effects = state.effects
    BY <1>2 DEF Touch, Fires
  <2> HIDE DEF after
  <2> QED BY <2>1 DEF Own, after
<1>3. CASE old # new
  <2>1. after.collector = Collect(state.collector, fact) /\ after.effects = state.effects \cup {resource}
    BY <1>3 DEF Touch, Fires
  <2>2. fact \in Facts /\ fact.resource = resource
    <3>1. state.db[resource] \subseteq Row[resource]
      BY DatabaseRows DEF States
    <3>2. fact \in FactsOf(resource)
      BY <3>1 DEF FactsOf, Changes
    <3>3. fact.resource = resource
      BY DEF RowFact
    <3> HIDE DEF fact
    <3> QED BY <3>2, <3>3 DEF Facts
  <2> HIDE DEF after, fact
  <2>3. CollectedOf(state.collector, state.effects \cup {resource})
    BY DEF Own, CollectedOf
  <2>4. CollectedOf(after.collector, after.effects)
    BY <1>1, <2>1, <2>2, <2>3, CollectWithin
  <2> QED BY <2>4 DEF Own, after
<1> QED BY <1>2, <1>3

\* All three: the difference of a state from the database base is in its
\* collector, and nothing but changes of its own.
Shows(state, base) == Seen(state, base) /\ Counted(state, base) /\ Own(state)

LEMMA TouchShows ==
    ASSUME NEW state \in States, NEW resource \in Resource, NEW operation, NEW old, NEW new, NEW base,
           Changes(state, resource, operation, old, new)
    PROVE  LET after == Touch(state, resource, operation, old, new)
           IN after \in States /\ (Shows(state, base) => Shows(after, base))
  BY TouchSees, TouchCounts, TouchOwns DEF Shows

\* The rows a statement may delete, each with its table.
TableRows == {pair \in Resource \X AnyRow : pair[2] \in Row[pair[1]]}

\* Rows deleted one after the other.
LEMMA CascadeFold ==
    ASSUME NEW state \in States, NEW victims \in Seq(TableRows)
    PROVE  \E g : /\ g[0] = state /\ g[Len(victims)] = FoldLeft(LAMBDA s, v : Touch(s, v[1], "delete", v[2], Null), state, victims)
                  /\ \A k \in 0 .. Len(victims) : g[k] \in States
                  /\ \A k \in 1 .. Len(victims) :
                        g[k] = Touch(g[k - 1], victims[k][1], "delete", victims[k][2], Null)
<1> DEFINE n == Len(victims)
           V == States
           Op(v, k) == Touch(v, victims[k][1], "delete", victims[k][2], Null)
           G == [k \in 1 .. n |-> [v \in V |-> Op(v, k)]]
           Solves(h) ==
             h = [t \in SUBSET (1 .. n) |->
                    IF t = {} THEN state ELSE Op(h[t \ {Max(t)}], Max(t))]
<1>1. n \in Nat /\ DOMAIN victims = 1 .. n /\ state \in V
  OBVIOUS
<1>2. ASSUME NEW k \in 1 .. n, NEW v \in V PROVE Op(v, k) \in V
  <2>1. victims[k] \in TableRows
    BY <1>1
  <2>2. victims[k][1] \in Resource /\ victims[k][2] \in Row[victims[k][1]]
    BY <2>1 DEF TableRows
  <2>3. Changes(v, victims[k][1], "delete", victims[k][2], Null)
    BY <2>2 DEF Changes
  <2> QED BY <2>2, <2>3, TouchShows
<1>3. G \in [1 .. n -> [V -> V]]
  <2> HIDE DEF V, n, Op
  <2> QED BY <1>2
<1>4. \E h : Solves(h)
  <2>1. PICK h \in [SUBSET (1 .. n) -> V] : FoldTable(h, state, n, G)
    <3> HIDE DEF G, V, n
    <3> QED BY <1>1, <1>3, FoldExists
  <2>2. ASSUME NEW t \in SUBSET (1 .. n), t # {}
        PROVE  G[Max(t)][h[t \ {Max(t)}]] = Op(h[t \ {Max(t)}], Max(t))
    <3>1. Max(t) \in 1 .. n
      BY <1>1, <2>2, MaxIn
    <3>2. h[t \ {Max(t)}] \in V
      BY <2>1
    <3> HIDE DEF V, n, Op
    <3> QED BY <3>1, <3>2
  <2>3. Solves(h)
    <3> HIDE DEF G, V, n, Op
    <3> QED BY <2>1, <2>2 DEF FoldTable
  <2> QED BY <2>3
<1>5. PICK h : Solves(h) /\ FoldLeft(LAMBDA s, v : Touch(s, v[1], "delete", v[2], Null), state, victims) = h[1 .. n]
  <2>1. Solves(CHOOSE h : Solves(h))
    BY <1>4
  <2>2. FoldLeft(LAMBDA s, v : Touch(s, v[1], "delete", v[2], Null), state, victims) = (CHOOSE h : Solves(h))[1 .. n]
    BY <1>1 DEF FoldLeft, MapThenFoldSet
  <2> QED BY <2>1, <2>2
<1> DEFINE g == [k \in 0 .. n |-> h[1 .. k]]
<1>6. g[0] = state /\ g[n] = h[1 .. n]
  <2>1. g[0] = h[1 .. 0] /\ 1 .. 0 = {} /\ g[n] = h[1 .. n]
    BY <1>1
  <2> HIDE DEF g, n, Op
  <2> QED BY <1>5, <2>1
<1>7. ASSUME NEW k \in 1 .. n PROVE g[k] = Op(g[k - 1], k)
  <2>1. Max(1 .. k) = k /\ (1 .. k) \ {k} = 1 .. (k - 1) /\ 1 .. k # {}
    BY Segments
  <2>2. g[k] = h[1 .. k] /\ g[k - 1] = h[1 .. (k - 1)] /\ 1 .. k \in SUBSET (1 .. n)
    BY <1>1
  <2>3. h[1 .. k] = Op(h[1 .. (k - 1)], k)
    <3> HIDE DEF g, n, Op
    <3> QED BY <1>5, <2>1, <2>2
  <2> HIDE DEF g, n, Op
  <2> QED BY <2>3, <2>2
<1>8. \A k \in 0 .. n : g[k] \in V
  <2> DEFINE T == {k \in 0 .. n : g[k] \in V}
  <2> HIDE DEF g, V, n, Op
  <2>1. 0 \in T
    BY <1>1, <1>6
  <2>2. ASSUME NEW k \in 0 .. n, k < n, k \in T PROVE k + 1 \in T
    <3>1. k + 1 \in 1 .. n /\ (k + 1) - 1 = k /\ g[k] \in V
      BY <1>1, <2>2
    <3> QED BY <3>1, <1>2, <1>7
  <2>3. \A k \in 0 .. n : k \in T
    <3> HIDE DEF T
    <3> QED BY <1>1, <2>1, <2>2, SegmentInduction
  <2> QED BY <2>3
<1> HIDE DEF g, Solves
<1> QED BY <1>5, <1>6, <1>7, <1>8

\* A delete and its cascades leave every change seen.
LEMMA DeleteShows ==
    ASSUME NEW state \in States, NEW resource \in Resource, NEW row \in state.db[resource], NEW base
    PROVE  LET after == DeleteRow(state, resource, row)
           IN after \in States /\ (Shows(state, base) => Shows(after, base))
<1> DEFINE cascaded(fk) == {<<fk.child, child>> : child \in Referencing(state.db, fk, row)}
           victims == UNION {cascaded(fk) : fk \in {f \in ForeignKeys : f.parent = resource}}
           list == SetToSeq(victims)
           before_ == FoldLeft(LAMBDA s, v : Touch(s, v[1], "delete", v[2], Null), state, list)
<1>1. DeleteRow(state, resource, row) = Touch(before_, resource, "delete", row, Null)
  BY DEF DeleteRow
<1>2. /\ state.db \in [Resource -> SUBSET AnyRow]
      /\ \A r \in Resource : state.db[r] \subseteq Row[r] /\ IsFiniteSet(state.db[r])
  BY DatabaseRows DEF States
<1>3. victims \subseteq TableRows /\ IsFiniteSet(victims)
  <2> DEFINE Stored(r) == {<<r, x>> : x \in state.db[r]}
             Table == [r \in Resource |-> Stored(r)]
             Stores == {Table[r] : r \in Resource}
  <2>1. ASSUME NEW v \in victims
        PROVE  v \in TableRows /\ v \in UNION Stores
    <3>1. PICK fk \in ForeignKeys : fk.parent = resource /\ v \in cascaded(fk)
      OBVIOUS
    <3>2. fk.child \in Resource
      BY SqliteAssumption
    <3>3. PICK child \in state.db[fk.child] : v = <<fk.child, child>>
      BY <3>1 DEF Referencing
    <3>4. v \in Stored(fk.child) /\ v \in TableRows
      BY <1>2, <3>2, <3>3 DEF TableRows
    <3>5. Stored(fk.child) \in Stores
      BY <3>2
    <3> HIDE DEF Stored, Stores
    <3> QED BY <3>4, <3>5
  <2>2. ASSUME NEW r \in Resource PROVE IsFiniteSet(Stored(r))
    <3> DEFINE f == [x \in state.db[r] |-> <<r, x>>]
    <3>1. f \in Surjection(state.db[r], Stored(r))
      BY DEF Surjection
    <3>2. IsFiniteSet(state.db[r])
      BY <1>2
    <3> HIDE DEF f, Stored
    <3> QED BY <3>1, <3>2, FS_Surjection
  <2>3. IsFiniteSet(Stores)
    <3>1. Table \in Surjection(Resource, Stores)
      <4>1. DOMAIN Table = Resource /\ \A r \in Resource : Table[r] \in Stores
        OBVIOUS
      <4>2. Table \in [Resource -> Stores] /\ \A t \in Stores : \E r \in Resource : Table[r] = t
        OBVIOUS
      <4> HIDE DEF Table, Stores
      <4> QED BY <4>2 DEF Surjection
    <3>2. IsFiniteSet(Resource)
      BY ContractsAssumption
    <3> HIDE DEF Table, Stores
    <3> QED BY <3>1, <3>2, FS_Surjection
  <2>4. \A t \in Stores : IsFiniteSet(t)
    <3> HIDE DEF Stored
    <3> QED BY <2>2
  <2>5. IsFiniteSet(UNION Stores)
    <3> HIDE DEF Stores
    <3> QED BY <2>3, <2>4, FS_UNION
  <2> HIDE DEF victims, Stores
  <2>6. victims \in SUBSET UNION Stores /\ victims \subseteq TableRows
    BY <2>1
  <2> QED BY <2>5, <2>6, FS_Subset
<1>4. list \in Seq(TableRows)
  <2> HIDE DEF victims
  <2>1. SetToSeq(victims) \in Seq(victims)
    BY <1>3, SequenceOfSet
  <2> QED BY <1>3, <2>1, SeqMonotonic
<1> DEFINE n == Len(list)
<1>5. PICK g : /\ g[0] = state /\ g[n] = before_
               /\ \A k \in 0 .. n : g[k] \in States
               /\ \A k \in 1 .. n : g[k] = Touch(g[k - 1], list[k][1], "delete", list[k][2], Null)
  <2> HIDE DEF list
  <2> QED BY <1>4, CascadeFold
<1>6. Shows(state, base) => Shows(before_, base)
  <2> SUFFICES ASSUME Shows(state, base) PROVE Shows(before_, base)
    OBVIOUS
  <2> DEFINE T == {k \in 0 .. n : Shows(g[k], base)}
  <2>0. n \in Nat /\ \A k \in 1 .. n : list[k] \in TableRows
    <3> HIDE DEF list
    <3> QED BY <1>4
  <2> HIDE DEF list, before_, n
  <2>1. 0 \in T
    BY <1>5, <2>0
  <2>2. ASSUME NEW k \in 0 .. n, k < n, k \in T PROVE k + 1 \in T
    <3>1. k + 1 \in 1 .. n /\ k + 1 \in 0 .. n /\ (k + 1) - 1 = k
      BY <2>0, <2>2
    <3>2. list[k + 1][1] \in Resource /\ list[k + 1][2] \in Row[list[k + 1][1]]
      BY <2>0, <3>1 DEF TableRows
    <3>3. g[k + 1] = Touch(g[k], list[k + 1][1], "delete", list[k + 1][2], Null)
      BY <1>5, <3>1
    <3>4. g[k] \in States /\ Shows(g[k], base)
      BY <1>5, <2>2
    <3>5. Changes(g[k], list[k + 1][1], "delete", list[k + 1][2], Null)
      BY <3>2 DEF Changes
    <3>6. Shows(g[k + 1], base)
      BY <3>2, <3>3, <3>4, <3>5, TouchShows
    <3> QED BY <3>1, <3>6
  <2>3. \A k \in 0 .. n : k \in T
    <3> HIDE DEF T
    <3> QED BY <2>0, <2>1, <2>2, SegmentInduction
  <2>4. n \in T
    BY <2>0, <2>3
  <2> QED BY <1>5, <2>4
<1>7. before_ \in States
  <2>1. n \in Nat
    <3> HIDE DEF list
    <3> QED BY <1>4
  <2> HIDE DEF list, before_, n
  <2> QED BY <1>5, <2>1
<1>8. row \in Row[resource]
  BY <1>2
<1> HIDE DEF before_, list
<1>9. Changes(before_, resource, "delete", row, Null)
  BY <1>8 DEF Changes
<1> QED BY <1>1, <1>6, <1>7, <1>9, TouchShows

-----------------------------------------------------------------------------
(* The invariant. *)

\* Open transaction and savepoints lie in the order of the callbacks that
\* opened them, each at the depth of its callback.
Levels ==
    /\ \A i \in 1 .. Len(saved) : saved[i].level \in i .. Depth
    /\ \A i, j \in 1 .. Len(saved) : i < j => saved[i].level < saved[j].level

\* While the command's own transaction is open, it started from before, and
\* the current and every saved state shows what it changed.
Observing ==
    InTransaction /\ saved[1].level = 1 =>
        /\ saved[1].db = before
        /\ Shows(State, before)
        /\ \A i \in 1 .. Len(saved) : Shows(saved[i], before)

\* Nothing but the command's boundary ends its transaction.
Whole ==
    ~ConflictRollback =>
        /\ Working => InTransaction /\ saved[1].level = 1
        /\ phase = "rejected" => db = before

Typed ==
    /\ db \in Databases /\ before \in Databases
    /\ collector \in Collectors /\ effects \subseteq Resource
    /\ phase \in {"idle", "working", "returned", "rejected"}
    /\ failed \in Seq(BOOLEAN) /\ Len(failed) <= MaxSavepoints + 1
    /\ Working = (failed # <<>>)
    /\ saved \in Seq(Points)

Inv == Typed /\ Levels /\ Observing /\ Whole

\* The invariant holds before the command begins.
LEMMA Initial == Init => Inv
<1> SUFFICES ASSUME Init PROVE Inv
  OBVIOUS
<1>1. db \in Databases
  BY SqliteAssumption DEF Init
<1>2. collector \in Collectors
  BY DEF Init, Collectors, NoCollected
<1>3. Typed
  BY <1>1, <1>2, SqliteAssumption DEF Init, Typed, Working
<1>4. Levels /\ Observing /\ Whole
  BY DEF Init, Levels, Observing, Whole, Working, InTransaction
<1> QED BY <1>3, <1>4 DEF Inv

\* Inserts, updates and deletes with their cascades.
LEMMA DmlShows ==
    ASSUME Typed, Dml, NEW base
    PROVE  /\ db' \in Databases /\ collector' \in Collectors /\ effects' \subseteq Resource
           /\ Shows(State, base) => Shows(State', base)
<1>1. /\ State \in States
      /\ State.db = db
  BY DEF State, States, Typed
<1>2. PICK after : Becomes(after) /\ after \in States /\ (Shows(State, base) => Shows(after, base))
  <2>1. PICK resource \in Resource :
          \/ \E row \in Row[resource] :
                Free(resource, row, Null) /\ Becomes(Touch(State, resource, "insert", Null, row))
          \/ \E old \in db[resource], new \in Row[resource] :
                Free(resource, new, old) /\ Becomes(Touch(State, resource, "update", old, new))
          \/ \E row \in db[resource] : Becomes(DeleteRow(State, resource, row))
    BY DEF Dml
  <2>2. CASE \E row \in Row[resource] :
                Free(resource, row, Null) /\ Becomes(Touch(State, resource, "insert", Null, row))
    <3>1. PICK row \in Row[resource] :
             Free(resource, row, Null) /\ Becomes(Touch(State, resource, "insert", Null, row))
      BY <2>2
    <3>2. Changes(State, resource, "insert", Null, row)
      BY <1>1, <3>1 DEF Changes, Fresh, Free
    <3> QED BY <1>1, <3>1, <3>2, TouchShows
  <2>3. CASE \E old \in db[resource], new \in Row[resource] :
                Free(resource, new, old) /\ Becomes(Touch(State, resource, "update", old, new))
    <3>1. PICK old \in db[resource], new \in Row[resource] :
             Free(resource, new, old) /\ Becomes(Touch(State, resource, "update", old, new))
      BY <2>3
    <3>2. Changes(State, resource, "update", old, new)
      BY <1>1, <3>1 DEF Changes, Fresh, Free
    <3> QED BY <1>1, <3>1, <3>2, TouchShows
  <2>4. CASE \E row \in db[resource] : Becomes(DeleteRow(State, resource, row))
    BY <1>1, <2>4, DeleteShows
  <2> QED BY <2>1, <2>2, <2>3, <2>4
<1>3. db' = after.db /\ collector' = after.collector /\ effects' = after.effects
  BY <1>2 DEF Becomes
<1>4. State' = after
  BY <1>2, <1>3 DEF State, States
<1> QED BY <1>2, <1>3, <1>4 DEF States

\* What the invariant says of saved points when the innermost is taken away.
LEMMA FrontOfSaved ==
    ASSUME Typed, Levels, InTransaction
    PROVE  /\ Len(saved) \in Nat \ {0} /\ Front(saved) \in Seq(Points)
           /\ Len(Front(saved)) = Len(saved) - 1
           /\ \A i \in 1 .. Len(saved) - 1 : Front(saved)[i] = saved[i]
           /\ Last(saved) \in Points /\ Last(saved) = saved[Len(saved)]
<1>1. saved \in Seq(Points) /\ saved # <<>>
  BY DEF Typed, InTransaction
<1>2. Len(saved) \in Nat \ {0} /\ \A i \in 1 .. Len(saved) : saved[i] \in Points
  BY <1>1
<1>3. \A i \in 1 .. Len(saved) - 1 : saved[i] \in Points
  BY <1>2
<1>4. /\ Front(saved) \in Seq(Points) /\ Len(Front(saved)) = Len(saved) - 1
      /\ \A i \in 1 .. Len(saved) - 1 : Front(saved)[i] = saved[i]
  BY <1>1, FrontOfSequence
<1>5. Last(saved) = saved[Len(saved)] /\ Last(saved) \in Points
  BY <1>2 DEF Last
<1> QED BY <1>2, <1>4, <1>5

\* The guards' frames when the innermost callback has ended.
LEMMA FailedFront ==
    ASSUME failed \in Seq(BOOLEAN), Depth > 1
    PROVE  /\ Front(failed) \in Seq(BOOLEAN) /\ Len(Front(failed)) = Depth - 1 /\ Front(failed) # <<>>
           /\ Depth \in Nat
<1>1. Len(failed) \in Nat /\ \A i \in 1 .. Len(failed) - 1 : failed[i] \in BOOLEAN
  BY DEF Depth
<1>2. Front(failed) \in Seq(BOOLEAN) /\ Len(Front(failed)) = Len(failed) - 1
  BY <1>1, SubSeqProperties DEF Front, Depth
<1> QED BY <1>1, <1>2 DEF Depth

-----------------------------------------------------------------------------
(* One lemma for each action. *)

\* A write outside any command: nothing is saved.
LEMMA StepOutsideWrite == Inv /\ OutsideWrite => Inv'
<1> SUFFICES ASSUME Inv, OutsideWrite PROVE Inv'
  OBVIOUS
<1>1. Typed /\ Levels /\ Dml /\ phase = "idle"
  BY DEF Inv, OutsideWrite
<1>2. db' \in Databases /\ collector' \in Collectors /\ effects' \subseteq Resource
  BY <1>1, DmlShows
<1>3. UNCHANGED <<saved, failed, phase, before>>
  BY DEF OutsideWrite
<1>4. Typed'
  BY <1>1, <1>2, <1>3 DEF Typed, Working
<1>5. Levels'
  BY <1>1, <1>3 DEF Levels, Depth
<1>6. failed = <<>> /\ saved \in Seq(Points)
  BY <1>1 DEF Typed, Working
<1>7. saved = <<>>
  <2>1. Len(saved) \in Nat /\ Depth = 0
    BY <1>6 DEF Depth
  <2>2. ASSUME Len(saved) # 0 PROVE FALSE
    <3>1. 1 \in 1 .. Len(saved) /\ 1 .. 0 = {}
      BY <2>1, <2>2
    <3>2. saved[1].level \in 1 .. 0
      BY <1>1, <2>1, <3>1 DEF Levels
    <3> QED BY <3>1, <3>2
  <2> QED BY <1>6, <2>1, <2>2
<1>8. Observing' /\ Whole'
  BY <1>1, <1>3, <1>7 DEF Observing, Whole, InTransaction, Working
<1> QED BY <1>4, <1>5, <1>8 DEF Inv

\* BEGIN: the command starts from the database as it is.
LEMMA StepBegin == Inv /\ Begin => Inv'
<1> SUFFICES ASSUME Inv, Begin PROVE Inv'
  OBVIOUS
<1> DEFINE point == [level |-> 1, db |-> db, collector |-> NoCollected, effects |-> {}]
<1>1. /\ saved' = <<point>> /\ failed' = <<FALSE>> /\ phase' = "working"
      /\ before' = db /\ db' = db /\ collector' = NoCollected /\ effects' = {}
  BY DEF Begin, Cleared
<1>2. NoCollected \in Collectors
  BY DEF Collectors, NoCollected
<1>3. db \in Databases
  BY DEF Inv, Typed
<1>4. point \in Points
  BY <1>2, <1>3 DEF Points
<1>5. point.level = 1 /\ point.db = db /\ point.collector = NoCollected
  OBVIOUS
<1> HIDE DEF point
<1>6. Len(saved') = 1 /\ saved'[1] = point /\ saved' \in Seq(Points) /\ saved' # <<>>
  BY <1>1, <1>4
<1>7. Len(failed') = 1 /\ failed' \in Seq(BOOLEAN) /\ failed' # <<>>
  BY <1>1
<1>8. Typed'
  BY <1>1, <1>2, <1>3, <1>6, <1>7, SqliteAssumption DEF Typed, Working
<1>9. Levels'
  BY <1>5, <1>6, <1>7 DEF Levels, Depth
<1>10. Observing'
  <2>1. Shows(State, before)'
    <3>1. State'.db = before' /\ State'.collector = NoCollected
      BY <1>1 DEF State
    <3> QED BY <3>1 DEF Shows, Seen, Counted, Own, CollectedOf, NoCollected
  <2>2. \A i \in 1 .. Len(saved') : Shows(saved'[i], before')
    <3>1. Shows(point, before')
      BY <1>1, <1>5 DEF Shows, Seen, Counted, Own, CollectedOf, NoCollected
    <3> QED BY <1>6, <3>1
  <2> QED BY <1>1, <1>5, <1>6, <2>1, <2>2 DEF Observing
<1>11. Whole'
  BY <1>1, <1>5, <1>6 DEF Whole, InTransaction
<1> QED BY <1>8, <1>9, <1>10, <1>11 DEF Inv

\* A statement of the callback.
LEMMA StepStatement == Inv /\ Statement => Inv'
<1> SUFFICES ASSUME Inv, Statement PROVE Inv'
  OBVIOUS
<1>1. Typed /\ Levels /\ Observing /\ Whole /\ Dml /\ Working
  BY DEF Inv, Statement
<1>2. /\ db' \in Databases /\ collector' \in Collectors /\ effects' \subseteq Resource
      /\ Shows(State, before) => Shows(State', before)
  BY <1>1, DmlShows
<1>3. UNCHANGED <<saved, failed, phase, before>>
  BY DEF Statement
<1>4. Typed'
  BY <1>1, <1>2, <1>3 DEF Typed, Working
<1>5. Levels'
  BY <1>1, <1>3 DEF Levels, Depth
<1>6. Observing'
  BY <1>1, <1>2, <1>3 DEF Observing, InTransaction
<1>7. Whole'
  BY <1>1, <1>3 DEF Whole, InTransaction, Working
<1> QED BY <1>4, <1>5, <1>6, <1>7 DEF Inv

\* A frame that is marked failed.
LEMMA FailedAgain ==
    ASSUME Typed, Working
    PROVE  LET now == [failed EXCEPT ![Depth] = TRUE]
           IN now \in Seq(BOOLEAN) /\ Len(now) = Len(failed) /\ now # <<>>
<1>1. failed \in Seq(BOOLEAN) /\ failed # <<>>
  BY DEF Typed, Working
<1>2. Len(failed) \in Nat \ {0}
  BY <1>1
<1> QED BY <1>1, <1>2 DEF Depth

\* A statement that is undone alone.
LEMMA StepStatementFails == Inv /\ StatementFails => Inv'
<1> SUFFICES ASSUME Inv, StatementFails PROVE Inv'
  OBVIOUS
<1>1. Typed /\ Levels /\ Observing /\ Whole /\ Working
  BY DEF Inv, StatementFails
<1>2. UNCHANGED <<db, collector, saved, phase, before, effects>>
      /\ failed' = [failed EXCEPT ![Depth] = TRUE]
  BY DEF StatementFails
<1>3. failed' \in Seq(BOOLEAN) /\ Len(failed') = Len(failed) /\ failed' # <<>>
  BY <1>1, <1>2, FailedAgain
<1>4. Typed'
  BY <1>1, <1>2, <1>3 DEF Typed, Working
<1>5. Levels'
  BY <1>1, <1>2, <1>3 DEF Levels, Depth
<1>6. Observing' /\ Whole'
  BY <1>1, <1>2 DEF Observing, Whole, InTransaction, Working, State
<1> QED BY <1>4, <1>5, <1>6 DEF Inv

\* A statement that ends the transaction: no state is saved any more.
LEMMA StepStatementRollsBack == Inv /\ StatementRollsBack => Inv'
<1> SUFFICES ASSUME Inv, StatementRollsBack PROVE Inv'
  OBVIOUS
<1>1. Typed /\ Levels /\ Working /\ InTransaction /\ ConflictRollback
  BY DEF Inv, StatementRollsBack
<1>2. /\ UNCHANGED <<phase, before>> /\ failed' = [failed EXCEPT ![Depth] = TRUE]
      /\ saved' = <<>> /\ db' = saved[1].db /\ collector' = saved[1].collector
      /\ effects' = saved[1].effects
  BY DEF StatementRollsBack, Restored, Becomes
<1>3. failed' \in Seq(BOOLEAN) /\ Len(failed') = Len(failed) /\ failed' # <<>>
  BY <1>1, <1>2, FailedAgain
<1>4. saved[1] \in Points
  BY <1>1 DEF Typed, InTransaction
<1>5. Typed'
  BY <1>1, <1>2, <1>3, <1>4 DEF Typed, Working, Points
<1>6. Levels' /\ Observing' /\ Whole'
  BY <1>1, <1>2 DEF Levels, Observing, Whole, InTransaction
<1> QED BY <1>5, <1>6 DEF Inv

\* A savepoint saves the current state.
LEMMA StepSavepoint == Inv /\ Savepoint => Inv'
<1> SUFFICES ASSUME Inv, Savepoint PROVE Inv'
  OBVIOUS
<1>1. Typed /\ Levels /\ Observing /\ Whole /\ Working /\ Depth <= MaxSavepoints
  BY DEF Inv, Savepoint
<1> DEFINE point == [level |-> Depth + 1, db |-> db, collector |-> collector, effects |-> effects]
<1>2. /\ UNCHANGED <<db, collector, phase, before, effects>>
      /\ saved' = Append(saved, point) /\ failed' = Append(failed, FALSE)
  BY DEF Savepoint
<1>a. saved \in Seq(Points) /\ failed \in Seq(BOOLEAN) /\ failed # <<>> /\ Depth = Len(failed)
  BY <1>1 DEF Typed, Depth, Working
<1>3. Depth \in Nat \ {0} /\ Len(saved) \in Nat
  BY <1>a
<1>4. point \in Points /\ point.level = Depth + 1
  BY <1>1, <1>3 DEF Typed, Points
<1>b. /\ Len(failed') = Depth + 1 /\ failed' \in Seq(BOOLEAN) /\ failed' # <<>>
  <2>1. FALSE \in BOOLEAN
    OBVIOUS
  <2> DEFINE now == Append(failed, FALSE)
  <2>2. now \in Seq(BOOLEAN) /\ Len(now) = Len(failed) + 1 /\ now # <<>>
    BY <1>a, <2>1, AppendProperties
  <2>3. failed' = now
    BY <1>2
  <2> HIDE DEF now
  <2> QED BY <1>a, <2>2, <2>3
<1>5. /\ Len(failed') = Depth + 1 /\ failed' \in Seq(BOOLEAN) /\ failed' # <<>>
      /\ Depth' = Depth + 1
  BY <1>b DEF Depth
<1>6. Shows(State, before) => Shows(point, before)
  BY DEF Shows, Seen, Counted, Own, State
<1> HIDE DEF point
<1>7. /\ saved' \in Seq(Points) /\ Len(saved') = Len(saved) + 1
      /\ \A i \in 1 .. Len(saved) : saved'[i] = saved[i]
      /\ saved'[Len(saved) + 1] = point
  BY <1>2, <1>a, <1>3, <1>4
<1>8. Typed'
  <2>1. Len(failed') <= MaxSavepoints + 1
    BY <1>1, <1>3, <1>5, SqliteAssumption
  <2> QED BY <1>1, <1>2, <1>5, <1>7, <2>1 DEF Typed, Working
<1>9. \A i \in 1 .. Len(saved') : i \in 1 .. Len(saved) \/ i = Len(saved) + 1
  BY <1>3, <1>7
<1>10. \A i \in 1 .. Len(saved) : saved[i].level \in i .. Depth /\ i \in Nat
  BY <1>1 DEF Levels
<1>11. Len(saved) <= Depth
  <2>1. Len(saved) = 0 \/ Len(saved) \in 1 .. Len(saved)
    BY <1>3
  <2> QED BY <1>3, <1>10, <2>1
<1>12. Levels'
  <2>1. ASSUME NEW i \in 1 .. Len(saved') PROVE saved'[i].level \in i .. Depth'
    <3>1. CASE i \in 1 .. Len(saved)
      BY <1>3, <1>5, <1>7, <1>10, <3>1
    <3>2. CASE i = Len(saved) + 1
      BY <1>3, <1>4, <1>5, <1>7, <1>11, <3>2
    <3> QED BY <1>9, <3>1, <3>2
  <2>2. ASSUME NEW i \in 1 .. Len(saved'), NEW j \in 1 .. Len(saved'), i < j
        PROVE  saved'[i].level < saved'[j].level
    <3>1. i \in 1 .. Len(saved)
      BY <1>3, <1>7, <2>2
    <3>2. CASE j \in 1 .. Len(saved)
      BY <1>1, <1>7, <2>2, <3>1, <3>2 DEF Levels
    <3>3. CASE j = Len(saved) + 1
      BY <1>3, <1>4, <1>7, <1>10, <3>1, <3>3
    <3> QED BY <1>9, <3>2, <3>3
  <2> QED BY <2>1, <2>2 DEF Levels
<1>13. ASSUME InTransaction', saved'[1].level = 1
       PROVE  InTransaction /\ saved[1].level = 1 /\ saved'[1] = saved[1]
  <2>1. CASE saved = <<>>
    <3>1. saved'[1] = point
      BY <1>7, <2>1
    <3> QED BY <1>3, <1>4, <1>13, <3>1
  <2>2. CASE saved # <<>>
    <3>1. 1 \in 1 .. Len(saved)
      BY <1>3, <2>2
    <3> QED BY <1>7, <1>13, <2>2, <3>1 DEF InTransaction
  <2> QED BY <2>1, <2>2
<1>14. Observing'
  <2> SUFFICES ASSUME InTransaction', saved'[1].level = 1
               PROVE  /\ saved'[1].db = before' /\ Shows(State', before')
                      /\ \A i \in 1 .. Len(saved') : Shows(saved'[i], before')
    BY DEF Observing
  <2>1. /\ saved[1].db = before /\ Shows(State, before) /\ saved'[1] = saved[1]
        /\ \A i \in 1 .. Len(saved) : Shows(saved[i], before)
    BY <1>1, <1>13 DEF Observing
  <2>2. State' = State /\ before' = before
    BY <1>2 DEF State
  <2> QED BY <1>6, <1>7, <1>9, <2>1, <2>2
<1>15. Whole'
  <2>1. ~ConflictRollback => InTransaction' /\ saved'[1] = saved[1]
    <3> SUFFICES ASSUME ~ConflictRollback PROVE InTransaction' /\ saved'[1] = saved[1]
      OBVIOUS
    <3>1. saved # <<>>
      BY <1>1 DEF Whole, InTransaction
    <3>2. 1 \in 1 .. Len(saved) /\ saved' # <<>>
      BY <1>3, <1>7, <3>1
    <3> QED BY <1>7, <3>2 DEF InTransaction
  <2> QED BY <1>1, <1>2, <2>1 DEF Whole, Working
<1> QED BY <1>8, <1>12, <1>14, <1>15 DEF Inv

\* When the innermost point goes with its callback, the others keep their order.
LEMMA InnermostLeaves ==
    ASSUME Typed, Levels, Depth \in Nat, Len(failed') = Depth - 1,
           Len(saved) \in Nat \ {0}, saved[Len(saved)].level = Depth,
           Len(saved') = Len(saved) - 1,
           \A i \in 1 .. Len(saved) - 1 : saved'[i] = saved[i]
    PROVE  Levels'
<1>1. \A i \in 1 .. Len(saved') : i \in 1 .. Len(saved) - 1 /\ i \in 1 .. Len(saved) /\ i < Len(saved)
  OBVIOUS
<1>2. Len(saved) \in 1 .. Len(saved)
  OBVIOUS
<1>3. \A i \in 1 .. Len(saved') : saved'[i].level \in i .. Depth - 1
  <2> TAKE i \in 1 .. Len(saved')
  <2>1. saved'[i] = saved[i] /\ saved[i].level \in i .. Depth /\ saved[i].level < Depth
    BY <1>1, <1>2 DEF Levels
  <2> QED BY <1>1, <2>1
<1>4. \A i, j \in 1 .. Len(saved') : i < j => saved'[i].level < saved'[j].level
  BY <1>1 DEF Levels
<1> QED BY <1>3, <1>4 DEF Levels, Depth

\* The command's own point is not the one that goes.
LEMMA OuterStays ==
    ASSUME Depth > 1, Depth \in Nat, InTransaction,
           Len(saved) \in Nat \ {0}, saved[Len(saved)].level = Depth,
           Len(saved') = Len(saved) - 1, saved' \in Seq(Points),
           \A i \in 1 .. Len(saved) - 1 : saved'[i] = saved[i],
           saved[1].level = 1
    PROVE  InTransaction' /\ saved'[1].level = 1
<1>1. Len(saved) # 1
  OBVIOUS
<1>2. 1 \in 1 .. Len(saved) - 1 /\ Len(saved') # 0
  BY <1>1
<1> QED BY <1>2 DEF InTransaction

\* RELEASE forgets the innermost saved state.
LEMMA StepRelease == Inv /\ Release => Inv'
<1> SUFFICES ASSUME Inv, Release PROVE Inv'
  OBVIOUS
<1>1. /\ Typed /\ Levels /\ Observing /\ Whole /\ Working /\ Depth > 1
      /\ InTransaction /\ Last(saved).level = Depth
  BY DEF Inv, Release, HasSavepoint
<1>2. /\ UNCHANGED <<db, collector, phase, before, effects>>
      /\ saved' = Front(saved) /\ failed' = Front(failed)
  BY DEF Release, Released
<1>3. /\ Len(saved) \in Nat \ {0} /\ saved' \in Seq(Points) /\ Len(saved') = Len(saved) - 1
      /\ \A i \in 1 .. Len(saved) - 1 : saved'[i] = saved[i]
      /\ Last(saved) = saved[Len(saved)]
  BY <1>1, <1>2, FrontOfSaved
<1>4. /\ failed' \in Seq(BOOLEAN) /\ Len(failed') = Depth - 1 /\ failed' # <<>>
      /\ Depth \in Nat /\ Len(failed) = Depth
  BY <1>1, <1>2, FailedFront DEF Typed, Depth
<1>5. Typed'
  <2>1. Len(failed') <= MaxSavepoints + 1
    BY <1>1, <1>4, SqliteAssumption DEF Typed
  <2> QED BY <1>1, <1>2, <1>3, <1>4, <2>1 DEF Typed, Working
<1>6. Levels'
  BY <1>1, <1>2, <1>3, <1>4, InnermostLeaves
<1>7. Observing'
  <2> SUFFICES ASSUME InTransaction', saved'[1].level = 1
               PROVE  /\ saved'[1].db = before' /\ Shows(State', before')
                      /\ \A i \in 1 .. Len(saved') : Shows(saved'[i], before')
    BY DEF Observing
  <2>1. Len(saved') # 0
    BY <1>3 DEF InTransaction
  <2>2. 1 \in 1 .. Len(saved) - 1 /\ \A i \in 1 .. Len(saved') : i \in 1 .. Len(saved) - 1 /\ i \in 1 .. Len(saved)
    BY <1>3, <2>1
  <2>3. State' = State /\ before' = before
    BY <1>2 DEF State
  <2>4. saved[1].level = 1
    BY <1>3, <2>2
  <2> QED BY <1>1, <1>3, <2>2, <2>3, <2>4 DEF Observing
<1>8. Whole'
  <2>1. saved[Len(saved)].level = Depth
    BY <1>1, <1>3
  <2>2. saved[1].level = 1 => InTransaction' /\ saved'[1].level = 1
    BY <1>1, <1>3, <1>4, <2>1, OuterStays
  <2> QED BY <1>1, <1>2, <2>2 DEF Whole, Working
<1> QED BY <1>5, <1>6, <1>7, <1>8 DEF Inv

\* ROLLBACK TO returns to the innermost saved state, if its callback has one.
LEMMA StepRollbackTo == Inv /\ RollbackTo => Inv'
<1> SUFFICES ASSUME Inv, RollbackTo PROVE Inv'
  OBVIOUS
<1>1. Typed /\ Levels /\ Observing /\ Whole /\ Working /\ Depth > 1
  BY DEF Inv, RollbackTo
<1>2. UNCHANGED <<phase, before>> /\ failed' = Front(failed)
  BY DEF RollbackTo
<1>4. /\ failed' \in Seq(BOOLEAN) /\ Len(failed') = Depth - 1 /\ failed' # <<>>
      /\ Depth \in Nat /\ Len(failed) = Depth
  BY <1>1, <1>2, FailedFront DEF Typed, Depth
<1>5. Len(failed') <= MaxSavepoints + 1
  BY <1>1, <1>4, SqliteAssumption DEF Typed
<1>6. CASE HasSavepoint
  <2>1. InTransaction /\ Last(saved).level = Depth
    BY <1>6 DEF HasSavepoint
  <2>2. /\ saved' = Front(saved) /\ db' = Last(saved).db /\ collector' = Last(saved).collector
        /\ effects' = Last(saved).effects
    BY <1>6 DEF RollbackTo, Restored, Becomes
  <2>3. /\ Len(saved) \in Nat \ {0} /\ saved' \in Seq(Points) /\ Len(saved') = Len(saved) - 1
        /\ \A i \in 1 .. Len(saved) - 1 : saved'[i] = saved[i]
        /\ Last(saved) = saved[Len(saved)] /\ Last(saved) \in Points
    BY <1>1, <2>1, <2>2, FrontOfSaved
  <2>4. Typed'
    BY <1>1, <1>2, <1>4, <1>5, <2>2, <2>3 DEF Typed, Working, Points
  <2>5. Levels'
    BY <1>1, <1>2, <1>4, <2>1, <2>3, InnermostLeaves
  <2>6. Observing'
    <3> SUFFICES ASSUME InTransaction', saved'[1].level = 1
                 PROVE  /\ saved'[1].db = before' /\ Shows(State', before')
                        /\ \A i \in 1 .. Len(saved') : Shows(saved'[i], before')
      BY DEF Observing
    <3>1. Len(saved') # 0
      BY <2>3 DEF InTransaction
    <3>2. /\ 1 \in 1 .. Len(saved) - 1 /\ Len(saved) \in 1 .. Len(saved)
          /\ \A i \in 1 .. Len(saved') : i \in 1 .. Len(saved) - 1 /\ i \in 1 .. Len(saved)
      BY <2>3, <3>1
    <3>3. saved[1].level = 1
      BY <2>3, <3>2
    <3>4. saved[1].db = before /\ \A i \in 1 .. Len(saved) : Shows(saved[i], before)
      BY <1>1, <2>1, <3>3 DEF Observing
    <3>5. Shows(Last(saved), before)
      BY <2>3, <3>2, <3>4
    <3>6. /\ State'.db = Last(saved).db /\ State'.collector = Last(saved).collector
          /\ State'.effects = Last(saved).effects
      BY <2>2 DEF State
    <3>7. Shows(State', before)
      BY <3>5, <3>6 DEF Shows, Seen, Counted, Own
    <3> QED BY <1>2, <2>3, <3>2, <3>4, <3>7
  <2>7. Whole'
    <3>1. saved[Len(saved)].level = Depth
      BY <2>1, <2>3
    <3>2. saved[1].level = 1 => InTransaction' /\ saved'[1].level = 1
      BY <1>1, <1>4, <2>1, <2>3, <3>1, OuterStays
    <3> QED BY <1>1, <1>2, <3>2 DEF Whole, Working
  <2> QED BY <2>4, <2>5, <2>6, <2>7 DEF Inv
<1>7. CASE ~HasSavepoint
  <2>1. UNCHANGED <<db, collector, effects, saved>>
    BY <1>7 DEF RollbackTo
  <2>2. Typed'
    BY <1>1, <1>2, <1>4, <1>5, <2>1 DEF Typed, Working
  <2>3. saved \in Seq(Points) /\ Len(saved) \in Nat
    BY <1>1 DEF Typed
  <2>4. Levels'
    <3>1. ASSUME NEW i \in 1 .. Len(saved) PROVE saved[i].level \in i .. Depth - 1
      <4>1. Len(saved) \in 1 .. Len(saved) /\ saved # <<>>
        BY <2>3, <3>1
      <4>2. saved[Len(saved)].level # Depth /\ saved[Len(saved)].level \in Len(saved) .. Depth
        BY <1>1, <1>7, <4>1 DEF HasSavepoint, InTransaction, Last, Levels
      <4>3. i < Len(saved) => saved[i].level < saved[Len(saved)].level
        BY <1>1, <3>1, <4>1 DEF Levels
      <4>4. saved[i].level \in i .. Depth
        BY <1>1, <3>1 DEF Levels
      <4>5. i = Len(saved) \/ i < Len(saved)
        BY <2>3, <3>1
      <4> QED BY <1>4, <2>3, <3>1, <4>2, <4>3, <4>4, <4>5
    <3> QED BY <1>1, <1>4, <2>1, <3>1 DEF Levels, Depth
  <2>5. Observing' /\ Whole'
    BY <1>1, <1>2, <2>1 DEF Observing, Whole, InTransaction, Working, State
  <2> QED BY <2>2, <2>4, <2>5 DEF Inv
<1> QED BY <1>6, <1>7

\* The boundary's ROLLBACK.
LEMMA StepRollback == Inv /\ Working /\ Rollback => Inv'
<1> SUFFICES ASSUME Inv, Working, Rollback PROVE Inv'
  OBVIOUS
<1>1. Typed /\ Levels /\ Observing /\ Whole
  BY DEF Inv
<1>2. /\ db' = Undone /\ collector' = NoCollected /\ saved' = <<>> /\ failed' = <<>>
      /\ phase' = "rejected" /\ UNCHANGED <<before, effects>>
  BY DEF Rollback
<1>3. Undone \in Databases
  <2>1. InTransaction => saved[1] \in Points
    BY <1>1 DEF Typed, InTransaction
  <2> QED BY <1>1, <2>1 DEF Undone, Typed, Points
<1>4. NoCollected \in Collectors
  BY DEF Collectors, NoCollected
<1>5. Typed'
  BY <1>1, <1>2, <1>3, <1>4, SqliteAssumption DEF Typed, Working
<1>6. Levels' /\ Observing'
  BY <1>2 DEF Levels, Observing, InTransaction
<1>7. ~ConflictRollback => db' = before
  BY <1>1, <1>2 DEF Whole, Observing, Undone
<1>8. Whole'
  BY <1>2, <1>7 DEF Whole, Working
<1> QED BY <1>5, <1>6, <1>8 DEF Inv

\* COMMIT.
LEMMA StepCommit == Inv /\ Commit => Inv'
<1> SUFFICES ASSUME Inv, Commit PROVE Inv'
  OBVIOUS
<1>1. Typed
  BY DEF Inv
<1>2. /\ collector' = NoCollected /\ saved' = <<>> /\ failed' = <<>>
      /\ phase' = "returned" /\ UNCHANGED <<db, before, effects>>
  BY DEF Commit
<1>3. NoCollected \in Collectors
  BY DEF Collectors, NoCollected
<1>4. Typed'
  BY <1>1, <1>2, <1>3, SqliteAssumption DEF Typed, Working
<1>5. Levels' /\ Observing' /\ Whole'
  BY <1>2 DEF Levels, Observing, Whole, InTransaction, Working
<1> QED BY <1>4, <1>5 DEF Inv

\* Every step.
LEMMA StepInv == Inv /\ [Next]_vars => Inv'
<1> SUFFICES ASSUME Inv, [Next]_vars PROVE Inv'
  OBVIOUS
<1>1. CASE OutsideWrite
  BY <1>1, StepOutsideWrite
<1>2. CASE Begin
  BY <1>2, StepBegin
<1>3. CASE Statement
  BY <1>3, StepStatement
<1>4. CASE StatementFails
  BY <1>4, StepStatementFails
<1>5. CASE StatementRollsBack
  BY <1>5, StepStatementRollsBack
<1>6. CASE Savepoint
  BY <1>6, StepSavepoint
<1>7. CASE Release
  BY <1>7, StepRelease
<1>8. CASE RollbackTo
  BY <1>8, StepRollbackTo
<1>9. CASE WorkFails
  BY <1>9, StepRollback DEF WorkFails
<1>10. CASE Commit
  BY <1>10, StepCommit
<1>11. CASE CommitFails
  BY <1>11, StepRollback DEF CommitFails
<1>12. CASE UNCHANGED vars
  <2>1. UNCHANGED <<db, collector, saved, failed, phase, before, effects>>
    BY <1>12 DEF vars
  <2>2. Typed' /\ Levels' /\ Observing' /\ Whole'
    BY <2>1 DEF Inv, Typed, Levels, Observing, Whole, InTransaction, Working, State, Depth
  <2> QED BY <2>2 DEF Inv
<1> QED BY <1>1, <1>2, <1>3, <1>4, <1>5, <1>6, <1>7, <1>8, <1>9, <1>10, <1>11, <1>12 DEF Next

\* Every reachable state has the invariant: types, the order of saved points,
\* and the observation of every change since BEGIN (command, dbFor).
THEOREM Invariance == Spec => []Inv
<1>1. Init => Inv
  BY Initial
<1>2. Inv /\ [Next]_vars => Inv'
  BY StepInv
<1> QED BY <1>1, <1>2, PTL DEF Spec

-----------------------------------------------------------------------------
(* The properties. *)

\* The database stays within its rows, the guards' frames are as many as the
\* callbacks, and never fewer than the open transactions and savepoints.
THEOREM TypeCorrect == Spec => []TypeOK
<1>1. Inv => TypeOK
  <2> SUFFICES ASSUME Inv PROVE TypeOK
    OBVIOUS
  <2>1. Typed /\ Levels
    BY DEF Inv
  <2>2. Depth \in 0 .. MaxSavepoints + 1
    BY <2>1, SqliteAssumption DEF Typed, Depth
  <2>3. Len(saved) <= Depth
    <3>1. Len(saved) \in Nat
      BY <2>1 DEF Typed
    <3>2. Len(saved) # 0 => saved[Len(saved)].level \in Len(saved) .. Depth
      BY <2>1, <3>1 DEF Levels
    <3> QED BY <2>2, <3>1, <3>2
  <2>4. \A r \in Resource : db[r] \subseteq Row[r] /\ before[r] \subseteq Row[r]
    BY <2>1, DatabaseRows DEF Typed
  <2> QED BY <2>1, <2>2, <2>3, <2>4 DEF Typed, TypeOK, Collectors
<1> QED BY <1>1, Invariance, PTL

\* While the command's transaction is open, every row that it has changed is in
\* the collector or its resource is widened.
THEOREM EveryChangeIsObserved == Spec => []NothingUnobserved
<1>1. Inv => NothingUnobserved
  BY DEF Inv, Observing, NothingUnobserved, Shows, Seen, State
<1> QED BY <1>1, Invariance, PTL

\* Unless a statement may end the transaction itself, a command that rejects
\* has changed nothing.
THEOREM RejectionLeavesNoTrace ==
    ASSUME ~ConflictRollback
    PROVE  Spec => []RejectedLeavesNoTrace
<1>1. Inv => RejectedLeavesNoTrace
  BY DEF Inv, Whole, RejectedLeavesNoTrace
<1> QED BY <1>1, Invariance, PTL

-----------------------------------------------------------------------------
(* The oracle. *)

\* What the triggers leave of a stored row is a row state, never "absent", and
\* excludes no answer that the stored row itself does not exclude.
LEMMA ObservedTyped ==
    ASSUME NEW resource \in Resource, NEW row \in Row[resource]
    PROVE  /\ Observed(resource, row) \in RowState
           /\ Observed(resource, row).kind # "absent"
           /\ \A read, input, scope :
                 MayBelong(AllCarried(resource, row), read, input, scope)
                    => MayBelong(Observed(resource, row), read, input, scope)
<1> DEFINE fields == Restricted(row, ObservedColumns(resource))
           filtered == Restricted(row, FilterColumns(resource))
           carried == Json({pair \in row : pair[2] \notin NonFinite})
           scopeOf == ScopeOf(resource, row)
<1>1. CASE \E pair \in fields : pair[2] \in NonFinite
  <2>1. Observed(resource, row) = UnknownRow
    BY <1>1 DEF Observed
  <2>2. UnknownRow.kind = "unknown" /\ UnknownRow \in RowState
    BY DEF UnknownRow, RowState
  <2> QED BY <2>1, <2>2 DEF MayBelong
<1>2. CASE ~(\E pair \in fields : pair[2] \in NonFinite)
  <2>1. Observed(resource, row) = KnownRow(scopeOf, Json(fields), Json(filtered))
    BY <1>2 DEF Observed
  <2>2. filtered \subseteq fields /\ fields \subseteq row
    BY DEF Restricted, ObservedColumns
  <2>3. \A pair \in fields : /\ pair[1] \in Column /\ Encoded(pair[2]) \in Scalar
                             /\ pair[2] \notin NonFinite
    BY <1>2, <2>2, SqliteAssumption
  <2>4. scopeOf \in Scalar
    <3>1. CASE ScopeColumn[resource] = Null
      BY <3>1, ContractsAssumption DEF ScopeOf
    <3>2. CASE ScopeColumn[resource] # Null
      <4>1. ScopeColumn[resource] \in ColumnsOf(row)
        BY <3>2, SqliteAssumption
      <4> DEFINE found == CHOOSE pair \in row : pair[1] = ScopeColumn[resource]
      <4>2. found \in row /\ found[1] = ScopeColumn[resource]
        BY <4>1 DEF ColumnsOf
      <4>3. ScopeColumn[resource] \in ObservedColumns(resource)
        BY <3>2 DEF ObservedColumns
      <4>4. found \in fields
        <5> HIDE DEF found
        <5> QED BY <4>2, <4>3 DEF Restricted
      <4>5. scopeOf = Encoded(found[2])
        BY <3>2 DEF ScopeOf, ValueOf
      <4> HIDE DEF found, fields
      <4> QED BY <2>3, <4>4, <4>5
    <3> QED BY <3>1, <3>2
  <2> HIDE DEF fields, filtered, scopeOf
  <2>5. Json(fields) \in SUBSET (Column \X Scalar) /\ Json(filtered) \in SUBSET (Column \X Scalar)
    BY <2>2, <2>3 DEF Json
  <2>6. KnownRow(scopeOf, Json(fields), Json(filtered)) \in RowState
    BY <2>4, <2>5 DEF KnownRow, RowState
  <2>7. KnownRow(scopeOf, Json(fields), Json(filtered)).kind = "known"
    BY DEF KnownRow
  <2>8. Json(fields) \subseteq carried /\ Json(filtered) \subseteq carried
    BY <2>2, <2>3 DEF Json
  <2>9. AllCarried(resource, row) = KnownRow(scopeOf, carried, carried)
    BY DEF AllCarried, scopeOf
  <2> HIDE DEF carried
  <2>10. \A read, input, scope :
            MayBelong(KnownRow(scopeOf, carried, carried), read, input, scope)
               => MayBelong(KnownRow(scopeOf, Json(fields), Json(filtered)), read, input, scope)
    BY <2>8, CarriedExcludes
  <2> QED BY <2>1, <2>6, <2>7, <2>9, <2>10
<1> QED BY <1>1, <1>2

\* What a trigger collects is a write fact.
LEMMA FactTyped ==
    ASSUME NEW fact \in Facts
    PROVE  fact \in WriteFact
<1>0. PICK r \in Resource : fact \in FactsOf(r)
  BY DEF Facts
<1>1. PICK op \in {"insert", "update", "delete"},
           old \in Row[r] \cup {Null}, new \in Row[r] \cup {Null} :
             fact = RowFact(r, op, old, new) /\ (op = "update" => old \in Row[r])
  BY <1>0 DEF FactsOf
<1>2. Absent \in RowState
  BY DEF RowState
<1>3. fact.before \in RowState /\ fact.after \in RowState
  BY <1>1, <1>2, ObservedTyped DEF RowFact
<1>4. fact.changed \in {Null} \cup SUBSET Column
  BY <1>1, SqliteAssumption DEF RowFact
<1>5. fact.resource = r /\ fact.operation = op /\ op \in Operations
  BY <1>1 DEF RowFact, Operations
<1>6. fact = [resource |-> fact.resource, operation |-> fact.operation, before |-> fact.before,
              after |-> fact.after, changed |-> fact.changed]
  BY <1>1 DEF RowFact
<1> QED BY <1>3, <1>4, <1>5, <1>6 DEF WriteFact

\* The drain returns a fact for each widened resource and every row.
LEMMA DrainedFacts ==
    ASSUME NEW c \in Collectors
    PROVE  /\ ObservedFacts(c) \in Seq(WriteFact)
           /\ \A r \in c.widened : \E i \in DOMAIN ObservedFacts(c) : ObservedFacts(c)[i] = BroadFact(r)
           /\ \A j \in DOMAIN c.rows : \E i \in DOMAIN ObservedFacts(c) : ObservedFacts(c)[i] = c.rows[j]
<1>1. c.widened \in SUBSET Resource /\ c.rows \in Seq(Facts)
  BY DEF Collectors
<1>2. IsFiniteSet(c.widened)
  BY <1>1, ContractsAssumption, FS_Subset
<1> DEFINE broad == SetToSeq(c.widened)
           first == [i \in DOMAIN broad |-> BroadFact(broad[i])]
<1>3. broad \in Seq(c.widened) /\ \A r \in c.widened : \E i \in DOMAIN broad : broad[i] = r
  BY <1>2, SequenceOfSet
<1>4. ObservedFacts(c) = first \o c.rows
  BY DEF ObservedFacts
<1>5. c.rows \in Seq(WriteFact)
  <2>1. \A i \in 1 .. Len(c.rows) : c.rows[i] \in WriteFact
    BY <1>1, FactTyped
  <2> QED BY <1>1, <2>1
<1> HIDE DEF broad
<1>6. first \in Seq(WriteFact)
  <2>1. \A r \in Resource : BroadFact(r) \in WriteFact
    BY DEF BroadFact, WriteFact, RowState, UnknownRow, Operations
  <2>2. Len(broad) \in Nat /\ DOMAIN broad = 1 .. Len(broad)
    BY <1>3
  <2>3. \A i \in 1 .. Len(broad) : broad[i] \in Resource
    BY <1>1, <1>3
  <2>4. \A i \in 1 .. Len(broad) : BroadFact(broad[i]) \in WriteFact
    BY <2>1, <2>3
  <2> QED BY <2>2, <2>4
<1>7. \A r \in c.widened : \E i \in DOMAIN first : first[i] = BroadFact(r)
  BY <1>3
<1> HIDE DEF first
<1>8. /\ first \o c.rows \in Seq(WriteFact)
      /\ \A m \in DOMAIN first : m \in DOMAIN (first \o c.rows) /\ (first \o c.rows)[m] = first[m]
      /\ \A m \in DOMAIN c.rows : /\ Len(first) + m \in DOMAIN (first \o c.rows)
                                   /\ (first \o c.rows)[Len(first) + m] = c.rows[m]
  BY <1>5, <1>6, Concatenated
<1>9. \A r \in c.widened : \E i \in DOMAIN (first \o c.rows) : (first \o c.rows)[i] = BroadFact(r)
  BY <1>7, <1>8
<1> QED BY <1>4, <1>8, <1>9

\* The rows of the collector may affect every input whose relevant rows moved.
LEMMA MovedAffects ==
    ASSUME NEW c \in Collectors, NEW read \in ToSet(Reads), NEW input, NEW scope,
           NEW shown \in Relevant(read, input, scope), Moved(c, read, shown)
    PROVE  MayAffect(ObservedFacts(c), read.endpoint, input, scope)
<1> DEFINE facts == ObservedFacts(c)
           r == read.resource
<1>1. r \in Resource
  <2>1. read \in ReadDependency
    BY CalculateAssumption DEF ToSet
  <2> QED BY <2>1 DEF ReadDependency
<1>2. read \in ToSet(ReadsOf(r))
  BY <1>1, ReadsIndexed
<1>3. /\ \A w \in c.widened : \E i \in DOMAIN facts : facts[i] = BroadFact(w)
      /\ \A j \in DOMAIN c.rows : \E i \in DOMAIN facts : facts[i] = c.rows[j]
  BY DrainedFacts
<1> HIDE DEF facts
<1>4. CASE r \in c.widened
  <2>1. PICK i \in DOMAIN facts : facts[i] = BroadFact(r)
    BY <1>3, <1>4
  <2>2. /\ facts[i].resource = r /\ facts[i].before = UnknownRow
        /\ ChangesRead(facts[i], read)
    BY <2>1 DEF BroadFact, ChangesRead
  <2>3. UnknownRow.kind = "unknown"
    BY DEF UnknownRow
  <2>4. RowMayAffect(facts[i], UnknownRow, read, input, scope)
    BY <2>2, <2>3 DEF RowMayAffect, MayBelong
  <2> QED BY <1>2, <2>2, <2>4 DEF MayAffect, facts
<1>5. CASE r \notin c.widened
  <2>1. PICK j \in DOMAIN c.rows :
           /\ c.rows[j].resource = r
           /\ ChangesRead(c.rows[j], read)
           /\ \E x \in Row[r] : /\ Shown(read, x) = shown
                                /\ Observed(r, x) \in {c.rows[j].before, c.rows[j].after}
    BY <1>5 DEF Moved
  <2>2. PICK x \in Row[r] : /\ Shown(read, x) = shown
                            /\ Observed(r, x) \in {c.rows[j].before, c.rows[j].after}
    BY <2>1
  <2>3. MayBelong(AllCarried(r, x), read, input, scope)
    BY <2>2 DEF Relevant
  <2>4. MayBelong(Observed(r, x), read, input, scope) /\ Observed(r, x).kind # "absent"
    BY <1>1, <2>3, ObservedTyped
  <2>5. PICK i \in DOMAIN facts : facts[i] = c.rows[j]
    BY <1>3
  <2>6. RowMayAffect(facts[i], Observed(r, x), read, input, scope)
    BY <2>1, <2>4, <2>5 DEF RowMayAffect
  <2> QED BY <1>2, <2>1, <2>2, <2>5, <2>6 DEF MayAffect, facts
<1> QED BY <1>4, <1>5

\* Two databases that a covering manifest tells apart: some read has a count
\* that differs among the values that may belong to the answer.
LEMMA CountsDiffer ==
    ASSUME ManifestCovers, NEW e \in Endpoint, NEW input \in Input, NEW scope \in Scope,
           NEW v \in Databases, NEW w \in Databases,
           AnswerOf(e, input, scope, v) # AnswerOf(e, input, scope, w)
    PROVE  \E read \in ToSet(Reads) : /\ read.endpoint = e
                                      /\ \E shown \in Relevant(read, input, scope) :
                                            Count(w, read, shown) # Count(v, read, shown)
<1> DEFINE reads == {read \in ToSet(Reads) : read.endpoint = e}
           relevant == [read \in reads |-> Relevant(read, input, scope)]
           counts(state) == [read \in reads |-> [shown \in relevant[read] |-> Count(state, read, shown)]]
           views == {<<counts(state), AnswerOf(e, input, scope, state)>> : state \in Databases}
<1>1. \A x, y \in views : x[1] = y[1] => x[2] = y[2]
  BY DEF ManifestCovers
<1>2. <<counts(v), AnswerOf(e, input, scope, v)>> \in views
      /\ <<counts(w), AnswerOf(e, input, scope, w)>> \in views
  OBVIOUS
<1>3. counts(v) # counts(w)
  <2> HIDE DEF counts, views
  <2> QED BY <1>1, <1>2
<1>4. SUFFICES ASSUME \A read \in reads : \A shown \in relevant[read] :
                         Count(w, read, shown) = Count(v, read, shown)
               PROVE  FALSE
  OBVIOUS
<1>5. \A read \in reads : [shown \in relevant[read] |-> Count(w, read, shown)]
                           = [shown \in relevant[read] |-> Count(v, read, shown)]
  <2> HIDE DEF reads, relevant
  <2> QED BY <1>4
<1>6. counts(v) = counts(w)
  <2> HIDE DEF reads, relevant
  <2> QED BY <1>5
<1> QED BY <1>3, <1>6

\* The commit reports every answer that the command has changed.
LEMMA CommitReports ==
    ASSUME ManifestCovers, Inv, caller \in Scope, Commit
    PROVE  Oracle'
<1>1. /\ Typed /\ Levels /\ Observing /\ InTransaction /\ Depth = 1
      /\ impact' = CalculateImpact(Snapshot(Add(NoWrites, Drained)), caller, Report)
      /\ UNCHANGED <<db, before, caller>>
  BY DEF Inv, Commit
<1>2. saved[1].level = 1
  <2>1. Len(saved) \in Nat \ {0}
    BY <1>1 DEF Typed, InTransaction
  <2>2. 1 \in 1 .. Len(saved)
    BY <2>1
  <2>3. saved[1].level \in 1 .. 1
    BY <1>1, <2>2 DEF Levels
  <2> QED BY <2>3
<1>3. Counted(State, before) /\ State.db = db /\ State.collector = collector
  BY <1>1, <1>2 DEF Observing, Shows, State
<1>4. db \in Databases /\ before \in Databases /\ collector \in Collectors
  BY <1>1 DEF Typed
<1>5. ASSUME NEW e \in Endpoint, NEW input \in Input,
             AnswerOf(e, input, caller, before) # AnswerOf(e, input, caller, db)
      PROVE  Reports(impact', e, input)
  <2>1. PICK read \in ToSet(Reads) : /\ read.endpoint = e
                                     /\ \E shown \in Relevant(read, input, caller) :
                                           Count(db, read, shown) # Count(before, read, shown)
    BY <1>4, <1>5, CountsDiffer
  <2>2. PICK shown \in Relevant(read, input, caller) : Count(db, read, shown) # Count(before, read, shown)
    BY <2>1
  <2>3. Moved(collector, read, shown)
    BY <1>3, <2>2 DEF Counted
  <2>4. MayAffect(Drained, e, input, caller)
    BY <1>4, <2>1, <2>3, MovedAffects DEF Drained
  <2>5. Drained \in Seq(WriteFact)
    BY <1>4, DrainedFacts DEF Drained
  <2>6. Reports(CalculateImpact(Snapshot(Add(NoWrites, Drained)), caller, Report), e, input)
    BY <2>4, <2>5, FactsCovered DEF Report
  <2> QED BY <1>1, <2>6
<1> QED BY <1>1, <1>5 DEF Oracle

\* If the manifest covers what the endpoints answer, every answer that differs
\* between the database before BEGIN and after COMMIT is reported for its input,
\* whatever statements, savepoints, rollbacks, summaries and limits there were.
THEOREM ChangedAnswersAreReported ==
    ASSUME ManifestCovers
    PROVE  Spec => []Oracle
<1> DEFINE Told == Inv /\ caller \in Scope /\ Oracle
<1>1. Init => Told
  <2>1. Init => caller \in Scope /\ Oracle
    BY DEF Init, Oracle
  <2> QED BY <2>1, Initial
<1>2. Told /\ [Next]_vars => Told'
  <2> SUFFICES ASSUME Told, [Next]_vars PROVE Told'
    OBVIOUS
  <2>1. Inv'
    BY StepInv
  <2>2. caller' = caller
    BY DEF Next, vars, OutsideWrite, Begin, Statement, StatementFails, StatementRollsBack, Savepoint,
           Release, RollbackTo, WorkFails, Commit, CommitFails, Rollback
  <2>3. CASE Commit
    BY <2>1, <2>2, <2>3, CommitReports
  <2>4. CASE phase' # "returned"
    BY <2>1, <2>2, <2>4 DEF Oracle
  <2>5. CASE UNCHANGED vars
    <3>1. UNCHANGED <<phase, impact, caller, before, db>>
      BY <2>5 DEF vars
    <3>2. Oracle'
      BY <3>1 DEF Oracle
    <3> QED BY <2>1, <2>2, <3>2
  <2>6. ASSUME [Next]_vars, ~Commit, ~UNCHANGED vars PROVE phase' # "returned"
    BY <2>6 DEF Next, OutsideWrite, Begin, Statement, StatementFails, StatementRollsBack, Savepoint,
                Release, RollbackTo, WorkFails, CommitFails, Rollback, Working
  <2> QED BY <2>3, <2>4, <2>5, <2>6
<1> QED BY <1>1, <1>2, PTL DEF Spec

-----------------------------------------------------------------------------
(* Nothing of others is reported. *)

\* The drain returns nothing but rows and widened resources of the collector.
LEMMA DrainedOf ==
    ASSUME NEW c \in Collectors, NEW resources, CollectedOf(c, resources)
    PROVE  \A i \in DOMAIN ObservedFacts(c) : ObservedFacts(c)[i].resource \in resources
<1>1. c.widened \in SUBSET Resource /\ c.rows \in Seq(Facts)
  BY DEF Collectors
<1>2. IsFiniteSet(c.widened)
  BY <1>1, ContractsAssumption, FS_Subset
<1> DEFINE broad == SetToSeq(c.widened)
           first == [i \in DOMAIN broad |-> BroadFact(broad[i])]
           rows == c.rows
<1>3. broad \in Seq(c.widened)
  BY <1>2, SequenceOfSet
<1>4. ObservedFacts(c) = first \o rows
  BY DEF ObservedFacts
<1> HIDE DEF broad
<1>5. Len(broad) \in Nat /\ DOMAIN broad = 1 .. Len(broad) /\ DOMAIN first = 1 .. Len(broad)
  BY <1>3
<1>6. \A i \in DOMAIN first : first[i].resource \in resources
  <2>1. \A i \in DOMAIN broad : broad[i] \in c.widened
    BY <1>3
  <2>2. \A r : BroadFact(r).resource = r
    BY DEF BroadFact
  <2>3. \A i \in DOMAIN broad : BroadFact(broad[i]).resource \in resources
    BY <2>1, <2>2 DEF CollectedOf
  <2> QED BY <2>3
<1>7. first \in Seq({first[i] : i \in DOMAIN first})
  BY <1>5
<1>8. \A i \in DOMAIN rows : rows[i].resource \in resources
  BY DEF CollectedOf
<1> HIDE DEF first, rows
<1>9. Len(first) \in Nat /\ DOMAIN first = 1 .. Len(first)
  BY <1>7
<1>10. rows \in Seq(Facts)
  BY <1>1 DEF rows
<1>11. \A i \in DOMAIN (first \o rows) :
          \/ i \in DOMAIN first /\ (first \o rows)[i] = first[i]
          \/ i - Len(first) \in DOMAIN rows /\ (first \o rows)[i] = rows[i - Len(first)]
  BY <1>7, <1>10
<1> QED BY <1>4, <1>6, <1>8, <1>11

\* What the collector of a committing command holds is its own.
LEMMA CommitOwns ==
    ASSUME Inv, Commit
    PROVE  OnlyOwnEffectsReported'
<1>1. /\ Typed /\ Levels /\ Observing /\ InTransaction /\ Depth = 1
      /\ impact' = CalculateImpact(Snapshot(Add(NoWrites, Drained)), caller, Report)
      /\ effects' = effects
  BY DEF Inv, Commit
<1>2. saved[1].level = 1
  <2>1. Len(saved) \in Nat \ {0}
    BY <1>1 DEF Typed, InTransaction
  <2>2. 1 \in 1 .. Len(saved)
    BY <2>1
  <2>3. saved[1].level \in 1 .. 1
    BY <1>1, <2>2 DEF Levels
  <2> QED BY <2>3
<1>3. CollectedOf(collector, effects) /\ collector \in Collectors
  BY <1>1, <1>2 DEF Observing, Shows, Own, State, Typed
<1> DEFINE kept == {fact \in WriteFact : fact.resource \in effects}
           writes == Add(NoWrites, Drained)
<1>4. Drained \in Seq(WriteFact) /\ \A i \in DOMAIN Drained : Drained[i].resource \in effects
  BY <1>3, DrainedFacts, DrainedOf DEF Drained
<1>5. \A i \in DOMAIN Drained : Drained[i] \in kept
  BY <1>4
<1>6. Closed(kept)
  <2> SUFFICES ASSUME NEW resource \in Resource, NEW facts \in Seq({f \in kept : f.resource = resource}),
                      facts # <<>>
               PROVE  Summarize(facts) \in kept
    BY DEF Closed
  <2>1. Len(facts) \in Nat \ {0} /\ DOMAIN facts = 1 .. Len(facts)
    OBVIOUS
  <2>2. \A k \in DOMAIN facts : facts[k] \in WriteFact /\ facts[k].resource = resource
                                /\ facts[k].resource \in effects
    BY <2>1
  <2>3. facts \in Seq(FactsFrom(RowState))
    BY <2>1, <2>2, WriteFactsSeen
  <2>4. Summarize(facts) \in FactsFrom(RowState) /\ Summarize(facts).resource = resource
    BY <2>2, <2>3, SummarizeWider
  <2>5. resource \in effects
    BY <2>1, <2>2
  <2> QED BY <2>4, <2>5, WriteFactsSeen
<1>7. writes \in WriteSets(RowState) /\ AllIn(writes, kept)
  <2>1. NoWrites \in WriteSets(RowState) /\ AllIn(NoWrites, kept)
    BY DEF NoWrites, WriteSets, AllIn
  <2>2. Drained \in Seq(FactsFrom(RowState))
    BY <1>4, WriteFactsSeen
  <2> HIDE DEF kept
  <2> QED BY <1>4, <1>5, <1>6, <2>1, <2>2, AddKeeps, AddWithin
<1> HIDE DEF kept, writes
<1>8. Snapshot(writes) \in Seq(kept) /\ kept \in SUBSET WriteFact
  BY <1>7, SnapshotWithin DEF kept
<1>9. Report \in Assessments
  <2>1. Verified \in [status : Statuses, codes : SUBSET Codes]
    BY DEF Verified, Statuses
  <2> QED BY <2>1 DEF Report, Assessments
<1>10. ImpactSourced(kept, caller, impact')
  BY <1>1, <1>8, <1>9, CalculationSources DEF writes
<1>11. ASSUME NEW e \in Endpoint, NEW s \in Scopes, impact'[e].targets[s] # {}
       PROVE  \E read \in ToSet(Reads) : read.endpoint = e /\ read.resource \in effects
  <2>1. Concerned(kept, e)
    BY <1>10, <1>11 DEF ImpactSourced, SourcedFrom
  <2>2. PICK fact \in kept : \E read \in ToSet(ReadsOf(fact.resource)) : read.endpoint = e
    BY <2>1 DEF Concerned
  <2>3. PICK read \in ToSet(ReadsOf(fact.resource)) : read.endpoint = e
    BY <2>2
  <2>4. fact.resource \in effects /\ fact.resource \in Resource
    BY DEF kept, WriteFact
  <2>5. read \in ToSet(Reads) /\ read.resource = fact.resource
    BY <2>3, <2>4, ReadsIndexed
  <2> QED BY <2>3, <2>4, <2>5
<1> QED BY <1>1, <1>11 DEF OnlyOwnEffectsReported

\* An endpoint for which a command returns targets reads a resource that the
\* command itself has changed, in statements it has not rolled back: the facts
\* of the application's own writes before the command, and of savepoints that
\* were undone, are in no impact.
THEOREM OwnEffectsAreReported == Spec => []OnlyOwnEffectsReported
<1> DEFINE Told == Inv /\ OnlyOwnEffectsReported
<1>1. Init => Told
  <2>1. Init => OnlyOwnEffectsReported
    BY DEF Init, OnlyOwnEffectsReported
  <2> QED BY <2>1, Initial
<1>2. Told /\ [Next]_vars => Told'
  <2> SUFFICES ASSUME Told, [Next]_vars PROVE Told'
    OBVIOUS
  <2>1. Inv'
    BY StepInv
  <2>3. CASE Commit
    BY <2>1, <2>3, CommitOwns
  <2>4. CASE phase' # "returned"
    BY <2>1, <2>4 DEF OnlyOwnEffectsReported
  <2>5. CASE UNCHANGED vars
    <3>1. UNCHANGED <<phase, impact, effects>>
      BY <2>5 DEF vars
    <3>2. OnlyOwnEffectsReported'
      BY <3>1 DEF OnlyOwnEffectsReported
    <3> QED BY <2>1, <3>2
  <2>6. ASSUME [Next]_vars, ~Commit, ~UNCHANGED vars PROVE phase' # "returned"
    BY <2>6 DEF Next, OutsideWrite, Begin, Statement, StatementFails, StatementRollsBack, Savepoint,
                Release, RollbackTo, WorkFails, CommitFails, Rollback, Working
  <2> QED BY <2>3, <2>4, <2>5, <2>6
<1> QED BY <1>1, <1>2, PTL DEF Spec
=============================================================================
