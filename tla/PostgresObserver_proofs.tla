---------------------- MODULE PostgresObserver_proofs ----------------------
(***************************************************************************)
(* Proofs about PostgresObserver for every database, every manifest and    *)
(* every bound.  First what the captured states keep of their rows, then   *)
(* what the facts of one statement tell of its change, then the collector: *)
(* it drops facts only for a broad one of their resource, and always gets  *)
(* under its limits.  The invariant is that the collector tells how each   *)
(* table differs from BEGIN, row by row and in the counts that reads see.  *)
(***************************************************************************)
EXTENDS PostgresObserver, ImpactLemmas

\* The facts a trigger may write: sized, and only a joined update says columns.
Facts ==
    {fact \in WriteFact :
        /\ FactSize(fact) \in Nat \ {0}
        /\ fact.changed # Null =>
              fact.operation = "update" /\ Absent \notin {fact.before, fact.after}}

\* A side of a fact that excludes no answer which the stored row does not exclude.
Reflects(side, resource, row) ==
    /\ side.kind # "absent"
    /\ RowWider(side, AllCarried(resource, row))

\* What every table of a database is, and what makes a database.
LEMMA DatabaseTables ==
    ASSUME NEW d
    PROVE  d \in Databases <=> /\ d = [r \in Resource |-> d[r]]
                               /\ \A r \in Resource : d[r] \in Tables(r)
<1>1. ASSUME d = [r \in Resource |-> d[r]], \A r \in Resource : d[r] \in Tables(r)
      PROVE  d \in [Resource -> UNION {Tables(r) : r \in Resource}]
  <2>1. \A r \in Resource : d[r] \in UNION {Tables(q) : q \in Resource}
    BY <1>1
  <2> QED BY <1>1, <2>1
<1> QED BY <1>1 DEF Databases

\* A part of a table is a table.
LEMMA PartOfTable ==
    ASSUME NEW r, NEW rows \in Tables(r), NEW part \in SUBSET rows
    PROVE  part \in Tables(r)
<1>1. IsFiniteSet(part)
  BY FS_Subset DEF Tables
<1>2. UniqueKeys(r, part)
  BY DEF Tables, UniqueKeys, Counterparts
<1> QED BY <1>1, <1>2 DEF Tables

-----------------------------------------------------------------------------
(* The states of rows. *)

LEMMA JsonSize ==
    ASSUME NEW object, IsFiniteSet(object)
    PROVE  Cardinality(Json(object)) \in Nat
<1> DEFINE f == [pair \in object |-> <<pair[1], Encoded(pair[2])>>]
<1>1. f \in Surjection(object, Json(object))
  BY DEF Surjection, Json
<1> QED BY <1>1, FS_Surjection, FS_CardinalityType

LEMMA PlainStates ==
    /\ Absent \in RowState /\ RowSize(Absent) = 0 /\ Absent.kind = "absent"
    /\ UnknownRow \in RowState /\ RowSize(UnknownRow) = 1 /\ UnknownRow.kind = "unknown"
  BY DEF Absent, UnknownRow, RowState, RowSize

\* The scope of a stored row is a scalar unless its value is an array or object.
LEMMA ScopeScalar ==
    ASSUME NEW r \in Resource, NEW row \in Row[r]
    PROVE  ScopeOf(r, row) \in NonScalar \/ Encoded(ScopeOf(r, row)) \in Scalar
<1>1. CASE ScopeColumn[r] = Null
  BY <1>1, ObserverAssumption, ContractsAssumption DEF ScopeOf
<1>2. CASE ScopeColumn[r] # Null
  <2>1. ScopeColumn[r] \in ColumnsOf(row)
    BY <1>2, ObserverAssumption
  <2> DEFINE found == CHOOSE pair \in row : pair[1] = ScopeColumn[r]
  <2>2. found \in row
    BY <2>1 DEF ColumnsOf
  <2>3. ScopeOf(r, row) = found[2]
    BY <1>2 DEF ScopeOf, ValueOf
  <2> HIDE DEF found
  <2> QED BY <2>2, <2>3, ObserverAssumption
<1> QED BY <1>1, <1>2

\* A state captured from values of a row reflects the row.
LEMMA CapturedReflects ==
    ASSUME NEW r \in Resource, NEW row \in Row[r], NEW fields \in SUBSET row,
           NEW equality \in SUBSET fields, equality \subseteq Restricted(row, Certified[r])
    PROVE  LET side == Captured(ScopeOf(r, row), fields, equality)
           IN side \in RowState /\ RowSize(side) \in Nat /\ Reflects(side, r, row)
<1> DEFINE scope == ScopeOf(r, row)
           side == Captured(scope, fields, equality)
<1>1. CASE scope \in NonScalar \/ \E pair \in fields : pair[2] \in NonScalar
  <2>1. side = UnknownRow
    BY <1>1 DEF Captured
  <2> QED BY <2>1, PlainStates DEF Reflects, RowWider
<1>2. CASE ~(scope \in NonScalar \/ \E pair \in fields : pair[2] \in NonScalar)
  <2> DEFINE carried == {pair \in row : pair[2] \notin NonScalar}
  <2>1. side = KnownRow(Encoded(scope), Json(fields), Json(equality))
    BY <1>2 DEF Captured
  <2>2. Encoded(scope) \in Scalar
    BY <1>2, ScopeScalar
  <2>3. \A pair \in fields : pair[1] \in Column /\ Encoded(pair[2]) \in Scalar
    BY <1>2, ObserverAssumption
  <2>4. fields \subseteq carried /\ equality \subseteq Restricted(carried, Certified[r])
    BY <1>2 DEF Restricted
  <2>5. Json(fields) \in SUBSET (Column \X Scalar) /\ Json(equality) \in SUBSET (Column \X Scalar)
    BY <2>3 DEF Json
  <2>6. IsFiniteSet(fields) /\ IsFiniteSet(equality)
    <3>1. IsFiniteSet(row)
      BY ObserverAssumption
    <3>2. equality \in SUBSET row
      OBVIOUS
    <3> QED BY <3>1, <3>2, FS_Subset
  <2>7. Cardinality(Json(fields)) \in Nat /\ Cardinality(Json(equality)) \in Nat
    BY <2>6, JsonSize
  <2>8. AllCarried(r, row) = KnownRow(Encoded(scope), Json(carried), Json(Restricted(carried, Certified[r])))
    BY DEF AllCarried
  <2>9. Json(fields) \subseteq Json(carried) /\ Json(equality) \subseteq Json(Restricted(carried, Certified[r]))
    <3> DEFINE certified == Restricted(carried, Certified[r])
    <3>1. fields \subseteq carried /\ equality \subseteq certified
      BY <2>4
    <3> HIDE DEF carried, certified
    <3> QED BY <3>1 DEF Json, certified
  <2> HIDE DEF scope, carried, side
  <2>10. side \in RowState /\ side.kind = "known"
    BY <2>1, <2>2, <2>5 DEF KnownRow, RowState
  <2>11. RowSize(side) \in Nat
    BY <2>1, <2>7 DEF KnownRow, RowSize
  <2>12. Reflects(side, r, row)
    BY <2>1, <2>8, <2>9 DEF Reflects, RowWider, KnownRow
  <2> QED BY <2>10, <2>11, <2>12 DEF side, scope
<1> QED BY <1>1, <1>2

\* What is compared for filters is captured as a field as well, and certified.
LEMMA EqualityObserved ==
    ASSUME NEW r
    PROVE  EqualityColumns(r) \subseteq ObservedColumns(r) /\ EqualityColumns(r) \subseteq Certified[r]
  BY DEF EqualityColumns, ObservedColumns

LEMMA RowStateReflects ==
    ASSUME NEW r \in Resource, NEW row \in Row[r]
    PROVE  LET side == RowStateOf(r, row)
           IN side \in RowState /\ RowSize(side) \in Nat /\ Reflects(side, r, row)
<1> DEFINE fields == Restricted(row, ObservedColumns(r))
           equality == Restricted(row, EqualityColumns(r))
<1>1. fields \in SUBSET row /\ equality \in SUBSET fields /\ equality \subseteq Restricted(row, Certified[r])
  BY EqualityObserved DEF Restricted
<1>2. RowStateOf(r, row) = Captured(ScopeOf(r, row), fields, equality)
  BY DEF RowStateOf
<1> HIDE DEF fields, equality
<1> QED BY <1>1, <1>2, CapturedReflects

\* The state of a batch reflects each of its rows, for it keeps what they share.
LEMMA BatchReflects ==
    ASSUME NEW r \in Resource, NEW rows \in SUBSET Row[r], IsFiniteSet(rows)
    PROVE  LET side == BatchState(r, rows)
           IN /\ side \in RowState /\ RowSize(side) \in Nat
              /\ \A row \in rows : Reflects(side, r, row)
<1> DEFINE scopes == {ScopeOf(r, row) : row \in rows}
           fields == Common(rows, BatchColumns(r, ObservedColumns(r)))
           equality == Common(rows, BatchColumns(r, EqualityColumns(r)))
           side == BatchState(r, rows)
<1>1. CASE rows = {}
  <2>0. ~(Cardinality(scopes) > 1)
    <3>1. scopes = {} /\ Cardinality({}) = 0
      BY <1>1, FS_EmptySet
    <3> HIDE DEF scopes
    <3> QED BY <3>1
  <2>1. side = Absent
    BY <1>1, <2>0 DEF BatchState
  <2> HIDE DEF side
  <2>2. side \in RowState /\ RowSize(side) \in Nat /\ \A row \in rows : Reflects(side, r, row)
    BY <1>1, <2>1, PlainStates
  <2> QED BY <2>2 DEF side
<1>2. CASE rows # {} /\ Cardinality(scopes) > 1
  <2>1. side = UnknownRow
    BY <1>2 DEF BatchState
  <2> QED BY <2>1, PlainStates DEF Reflects, RowWider
<1>3. CASE rows # {} /\ ~(Cardinality(scopes) > 1)
  <2>1. side = Captured(CHOOSE s \in scopes : TRUE, fields, equality)
    BY <1>3 DEF BatchState
  <2>2. \A s, t \in scopes : s = t
    <3> DEFINE f == [row \in rows |-> ScopeOf(r, row)]
    <3>1. f \in Surjection(rows, scopes)
      BY DEF Surjection
    <3>2. IsFiniteSet(scopes) /\ Cardinality(scopes) \in Nat /\ scopes # {}
      BY <1>3, <3>1, FS_Surjection, FS_CardinalityType
    <3>3. Cardinality(scopes) # 0
      BY <3>2, FS_EmptySet
    <3>4. Cardinality(scopes) = 1
      BY <1>3, <3>2, <3>3
    <3>5. \E s : scopes = {s}
      BY <3>2, <3>4, FS_Singleton
    <3> QED BY <3>5
  <2>3. ASSUME NEW row \in rows
        PROVE  /\ side = Captured(ScopeOf(r, row), fields, equality)
               /\ fields \in SUBSET row /\ equality \in SUBSET fields
               /\ equality \subseteq Restricted(row, Certified[r])
    <3>1. (CHOOSE s \in scopes : TRUE) = ScopeOf(r, row)
      <4>1. ScopeOf(r, row) \in scopes
        OBVIOUS
      <4> HIDE DEF scopes
      <4> QED BY <2>2, <4>1
    <3>2. BatchColumns(r, EqualityColumns(r)) \subseteq BatchColumns(r, ObservedColumns(r))
          /\ BatchColumns(r, EqualityColumns(r)) \subseteq Certified[r]
      BY EqualityObserved DEF BatchColumns
    <3>3. fields \subseteq row /\ equality \subseteq fields /\ equality \subseteq Restricted(row, Certified[r])
      BY <3>2 DEF Common, Restricted
    <3> QED BY <2>1, <3>1, <3>3
  <2> HIDE DEF side, fields, equality
  <2>4. \A row \in rows : side \in RowState /\ RowSize(side) \in Nat /\ Reflects(side, r, row)
    <3> TAKE row \in rows
    <3> QED BY <2>3, CapturedReflects
  <2> QED BY <1>3, <2>4 DEF side
<1> QED BY <1>1, <1>2, <1>3

-----------------------------------------------------------------------------
(* What a set of facts tells of a table's change. *)

\* Each row that came is reflected by the later side of a fact of the table, and
\* each row that went by the earlier side of one.
Sees(facts, r, table, after) ==
    /\ \A row \in after \ table : \E f \in facts : f.resource = r /\ Reflects(f.after, r, row)
    /\ \A row \in table \ after : \E f \in facts : f.resource = r /\ Reflects(f.before, r, row)

\* A fact that does not leave the read alone has a side for a row which shows the
\* read these values.
Tells(facts, read, shown) ==
    \E f \in facts :
        /\ f.resource = read.resource /\ ChangesRead(f, read)
        /\ \E row \in Row[read.resource] :
              /\ Shown(read, row) = shown
              /\ Reflects(f.before, read.resource, row) \/ Reflects(f.after, read.resource, row)

\* Wherever the number of rows that show some values changed, a fact tells so.
Counted(facts, r, table, after) ==
    \A read \in ToSet(Reads) : \A shown :
        read.resource = r /\ Count(after, read, shown) # Count(table, read, shown)
            => Tells(facts, read, shown)

Told(facts, r, table, after) == Sees(facts, r, table, after) /\ Counted(facts, r, table, after)

\* Nothing is lost but for a broad fact of the same resource.
Upholds(facts, kept) == \A f \in facts : f \in kept \/ BroadFact(f.resource) \in kept

LEMMA NothingTold == ASSUME NEW r, NEW table PROVE Told({}, r, table, table)
  BY DEF Told, Sees, Counted

LEMMA ToldChain ==
    ASSUME NEW facts, NEW r, NEW table, NEW between, NEW after,
           Told(facts, r, table, between), Told(facts, r, between, after)
    PROVE  Told(facts, r, table, after)
<1>1. Sees(facts, r, table, after)
  BY DEF Told, Sees
<1>2. Counted(facts, r, table, after)
  BY DEF Told, Counted
<1> QED BY <1>1, <1>2 DEF Told

\* A broad fact reflects every row, and changes every read of its resource.
LEMMA BroadReflects ==
    ASSUME NEW r, NEW row
    PROVE  /\ BroadFact(r).resource = r
           /\ Reflects(BroadFact(r).before, r, row) /\ Reflects(BroadFact(r).after, r, row)
           /\ \A read : ChangesRead(BroadFact(r), read)
<1>1. /\ BroadFact(r).resource = r /\ BroadFact(r).operation = "unknown"
      /\ BroadFact(r).before = UnknownRow /\ BroadFact(r).after = UnknownRow
  BY DEF BroadFact
<1> QED BY <1>1, PlainStates DEF Reflects, RowWider, ChangesRead

LEMMA ToldUpheld ==
    ASSUME NEW facts, NEW kept, Upholds(facts, kept), NEW r, NEW table, NEW after,
           Told(facts, r, table, after)
    PROVE  Told(kept, r, table, after)
<1>1. ASSUME NEW row, NEW f \in facts, f.resource = r, Reflects(f.after, r, row)
      PROVE  \E g \in kept : g.resource = r /\ Reflects(g.after, r, row)
  BY <1>1, BroadReflects DEF Upholds
<1>2. ASSUME NEW row, NEW f \in facts, f.resource = r, Reflects(f.before, r, row)
      PROVE  \E g \in kept : g.resource = r /\ Reflects(g.before, r, row)
  BY <1>2, BroadReflects DEF Upholds
<1>3. ASSUME NEW read, NEW shown, Tells(facts, read, shown)
      PROVE  Tells(kept, read, shown)
  <2>1. PICK f \in facts :
          /\ f.resource = read.resource /\ ChangesRead(f, read)
          /\ \E row \in Row[read.resource] :
                /\ Shown(read, row) = shown
                /\ Reflects(f.before, read.resource, row) \/ Reflects(f.after, read.resource, row)
    BY <1>3 DEF Tells
  <2>2. CASE f \in kept
    BY <2>1, <2>2 DEF Tells
  <2>3. CASE BroadFact(read.resource) \in kept
    BY <2>1, <2>3, BroadReflects DEF Tells
  <2> QED BY <2>1, <2>2, <2>3 DEF Upholds
<1>4. Sees(kept, r, table, after)
  BY <1>1, <1>2 DEF Told, Sees
<1>5. Counted(kept, r, table, after)
  BY <1>3 DEF Told, Counted
<1> QED BY <1>4, <1>5 DEF Told

LEMMA UpholdsChain ==
    ASSUME NEW facts, NEW kept, NEW later, Upholds(facts, kept), Upholds(kept, later)
    PROVE  Upholds(facts, later)
<1>1. \A r : BroadFact(r).resource = r
  BY DEF BroadFact
<1> QED BY <1>1 DEF Upholds

\* A fact that does not say what an update changed.
Broadly(fact) == fact.operation = "update" => fact.changed = Null

\* A table told of row by row, without changed columns.
LEMMA EachTold ==
    ASSUME NEW r \in Resource, NEW table \in SUBSET Row[r], NEW after \in SUBSET Row[r], NEW facts,
           \A row \in after \ table :
              \E f \in facts : f.resource = r /\ Broadly(f) /\ Reflects(f.after, r, row),
           \A row \in table \ after :
              \E f \in facts : f.resource = r /\ Broadly(f) /\ Reflects(f.before, r, row)
    PROVE  Told(facts, r, table, after)
<1>1. Sees(facts, r, table, after)
  BY DEF Sees
<1>2. ASSUME NEW read \in ToSet(Reads), NEW shown, read.resource = r,
             Count(after, read, shown) # Count(table, read, shown)
      PROVE  Tells(facts, read, shown)
  <2>1. PICK row \in (after \ table) \cup (table \ after) : Shown(read, row) = shown
    <3> SUFFICES ASSUME \A row \in (after \ table) \cup (table \ after) : Shown(read, row) # shown
                 PROVE  FALSE
      OBVIOUS
    <3>1. {row \in after : Shown(read, row) = shown} = {row \in table : Shown(read, row) = shown}
      OBVIOUS
    <3> QED BY <1>2, <3>1 DEF Count
  <2>2. row \in Row[r]
    OBVIOUS
  <2>3. PICK f \in facts : /\ f.resource = r /\ Broadly(f)
                           /\ Reflects(f.after, r, row) \/ Reflects(f.before, r, row)
    OBVIOUS
  <2>4. ChangesRead(f, read)
    BY <2>3 DEF Broadly, ChangesRead
  <2> QED BY <1>2, <2>1, <2>2, <2>3, <2>4 DEF Tells
<1>3. Counted(facts, r, table, after)
  BY <1>2 DEF Counted
<1> QED BY <1>1, <1>3 DEF Told

-----------------------------------------------------------------------------
(* The facts of one trigger run. *)

LEMMA FactIn ==
    ASSUME NEW r \in Resource, NEW operation \in Operations, NEW old \in RowState, NEW new \in RowState,
           RowSize(old) \in Nat, RowSize(new) \in Nat, NEW changed \in {Null} \cup SUBSET Column,
           changed # Null => /\ operation = "update" /\ IsFiniteSet(changed)
                             /\ Absent \notin {old, new}
    PROVE  LET fact == Fact(r, operation, old, new, changed)
           IN /\ fact \in Facts /\ fact.resource = r /\ fact.operation = operation
              /\ fact.before = old /\ fact.after = new /\ fact.changed = changed
<1> DEFINE fact == Fact(r, operation, old, new, changed)
<1>1. /\ fact.resource = r /\ fact.operation = operation
      /\ fact.before = old /\ fact.after = new /\ fact.changed = changed
  BY DEF Fact
<1>2. fact \in WriteFact
  BY DEF Fact, WriteFact
<1> HIDE DEF fact
<1>3. (IF changed = Null THEN 0 ELSE Cardinality(changed)) \in Nat
  BY FS_CardinalityType
<1>4. FactSize(fact) \in Nat \ {0}
  <2> DEFINE extra == IF changed = Null THEN 0 ELSE Cardinality(changed)
  <2>1. FactSize(fact) = 1 + RowSize(old) + RowSize(new) + extra
    BY <1>1 DEF FactSize
  <2>2. extra \in Nat
    BY <1>3
  <2> HIDE DEF extra
  <2> QED BY <2>1, <2>2
<1>5. fact \in Facts
  BY <1>1, <1>2, <1>4 DEF Facts
<1> QED BY <1>1, <1>5 DEF fact

LEMMA BroadIn ==
    ASSUME NEW r \in Resource
    PROVE  BroadFact(r) \in Facts /\ FactSize(BroadFact(r)) = 3
<1>1. /\ BroadFact(r).before = UnknownRow /\ BroadFact(r).after = UnknownRow
      /\ BroadFact(r).changed = Null /\ BroadFact(r) \in WriteFact
  BY PlainStates DEF BroadFact, WriteFact, Operations
<1>2. FactSize(BroadFact(r)) = 3
  BY <1>1, PlainStates DEF FactSize
<1> QED BY <1>1, <1>2 DEF Facts

\* A finite set of facts in any order.
LEMMA Ordered ==
    ASSUME NEW S \in SUBSET Facts, IsFiniteSet(S)
    PROVE  SetToSeq(S) \in Seq(Facts) /\ ToSet(SetToSeq(S)) = S
<1>1. SetToSeq(S) \in Seq(S) /\ \A x \in S : \E i \in DOMAIN SetToSeq(S) : SetToSeq(S)[i] = x
  BY SequenceOfSet
<1>2. ToSet(SetToSeq(S)) = S
  <2> DEFINE s == SetToSeq(S)
  <2>1. s \in Seq(S) /\ \A x \in S : \E i \in DOMAIN s : s[i] = x
    BY <1>1
  <2> HIDE DEF s
  <2>2. ToSet(s) = S
    BY <2>1 DEF ToSet
  <2> QED BY <2>2 DEF s
<1>3. Seq(S) \subseteq Seq(Facts)
  BY SeqMonotonic
<1> QED BY <1>1, <1>2, <1>3

LEMMA Joins ==
    ASSUME NEW s \in Seq(Facts), NEW t \in Seq(Facts)
    PROVE  s \o t \in Seq(Facts) /\ ToSet(s \o t) = ToSet(s) \cup ToSet(t)
<1>1. /\ s \o t \in Seq(Facts)
      /\ \A m \in DOMAIN s : m \in DOMAIN (s \o t) /\ (s \o t)[m] = s[m]
      /\ \A m \in DOMAIN t : Len(s) + m \in DOMAIN (s \o t) /\ (s \o t)[Len(s) + m] = t[m]
  BY Concatenated
<1>2. \A m \in DOMAIN (s \o t) : (s \o t)[m] \in ToSet(s) \cup ToSet(t)
  <2> TAKE m \in DOMAIN (s \o t)
  <2>1. CASE m \in DOMAIN s
    BY <1>1, <2>1 DEF ToSet
  <2>2. CASE m \notin DOMAIN s
    <3>1. m - Len(s) \in DOMAIN t /\ Len(s) + (m - Len(s)) = m
      BY <2>2
    <3>2. (s \o t)[m] = t[m - Len(s)]
      BY <1>1, <3>1
    <3> QED BY <3>1, <3>2 DEF ToSet
  <2> QED BY <2>1, <2>2
<1>3. \A x \in ToSet(s) \cup ToSet(t) : \E m \in DOMAIN (s \o t) : (s \o t)[m] = x
  BY <1>1 DEF ToSet
<1>4. ToSet(s \o t) = ToSet(s) \cup ToSet(t)
  BY <1>2, <1>3 DEF ToSet
<1> QED BY <1>1, <1>4

LEMMA Single ==
    ASSUME NEW fact \in Facts
    PROVE  <<fact>> \in Seq(Facts) /\ ToSet(<<fact>>) = {fact}
<1>1. <<fact>> \in Seq(Facts) /\ DOMAIN <<fact>> = {1} /\ <<fact>>[1] = fact
  OBVIOUS
<1> QED BY <1>1 DEF ToSet

-----------------------------------------------------------------------------
(* What each statement's facts tell. *)

LEMMA TableRows ==
    ASSUME NEW r \in Resource, NEW rows \in Tables(r)
    PROVE  rows \in SUBSET Row[r] /\ IsFiniteSet(rows) /\ UniqueKeys(r, rows)
  BY DEF Tables

LEMMA BatchTold ==
    ASSUME NEW r \in Resource, NEW table \in SUBSET Row[r], NEW after \in SUBSET Row[r],
           NEW old \in SUBSET Row[r], NEW new \in SUBSET Row[r], IsFiniteSet(old), IsFiniteSet(new),
           after \ table \subseteq new, table \ after \subseteq old
    PROVE  /\ Batch(r, old, new) \in Seq(Facts)
           /\ Told(ToSet(Batch(r, old, new)), r, table, after)
<1> DEFINE fact == Fact(r, "unknown", BatchState(r, old), BatchState(r, new), Null)
<1>1. /\ BatchState(r, old) \in RowState /\ RowSize(BatchState(r, old)) \in Nat
      /\ \A row \in old : Reflects(BatchState(r, old), r, row)
  BY BatchReflects
<1>2. /\ BatchState(r, new) \in RowState /\ RowSize(BatchState(r, new)) \in Nat
      /\ \A row \in new : Reflects(BatchState(r, new), r, row)
  BY BatchReflects
<1>3. /\ fact \in Facts /\ fact.resource = r /\ fact.operation = "unknown"
      /\ fact.before = BatchState(r, old) /\ fact.after = BatchState(r, new)
  <2>1. "unknown" \in Operations /\ Null \in {Null} \cup SUBSET Column
    BY DEF Operations
  <2> QED BY <1>1, <1>2, <2>1, FactIn
<1>4. Batch(r, old, new) = <<fact>>
  BY DEF Batch
<1> HIDE DEF fact
<1>5. Batch(r, old, new) \in Seq(Facts) /\ ToSet(Batch(r, old, new)) = {fact}
  BY <1>3, <1>4, Single
<1>6. Broadly(fact)
  BY <1>3 DEF Broadly
<1>7. Told({fact}, r, table, after)
  BY <1>1, <1>2, <1>3, <1>6, EachTold
<1> QED BY <1>5, <1>7

LEMMA InsertTold ==
    ASSUME NEW r \in Resource, NEW table \in SUBSET Row[r], NEW new \in SUBSET Row[r], IsFiniteSet(new)
    PROVE  /\ InsertFacts(r, new) \in Seq(Facts)
           /\ Told(ToSet(InsertFacts(r, new)), r, table, table \cup new)
<1>1. CASE Cardinality(new) > MaxFacts
  <2>1. InsertFacts(r, new) = Batch(r, {}, new)
    BY <1>1 DEF InsertFacts
  <2>2. IsFiniteSet({})
    BY FS_EmptySet
  <2> QED BY <2>1, <2>2, BatchTold
<1>2. CASE ~(Cardinality(new) > MaxFacts)
  <2> DEFINE f == [row \in new |-> Fact(r, "insert", Absent, RowStateOf(r, row), Null)]
             S == {Fact(r, "insert", Absent, RowStateOf(r, row), Null) : row \in new}
  <2>1. InsertFacts(r, new) = SetToSeq(S)
    BY <1>2 DEF InsertFacts, SideOf
  <2>2. f \in Surjection(new, S)
    BY DEF Surjection
  <2>3. ASSUME NEW row \in new
        PROVE  /\ f[row] \in Facts /\ f[row].resource = r /\ f[row].operation = "insert"
               /\ f[row] \in S /\ Reflects(f[row].after, r, row)
    <3>1. /\ RowStateOf(r, row) \in RowState /\ RowSize(RowStateOf(r, row)) \in Nat
          /\ Reflects(RowStateOf(r, row), r, row)
      BY RowStateReflects
    <3>2. "insert" \in Operations /\ Null \in {Null} \cup SUBSET Column
      BY DEF Operations
    <3>3. f[row] = Fact(r, "insert", Absent, RowStateOf(r, row), Null) /\ f[row] \in S
      OBVIOUS
    <3> HIDE DEF f, S
    <3> QED BY <3>1, <3>2, <3>3, PlainStates, FactIn
  <2>4. S \subseteq Facts
    BY <2>3
  <2> HIDE DEF f, S
  <2>5. IsFiniteSet(S)
    BY <2>2, FS_Surjection
  <2>6. SetToSeq(S) \in Seq(Facts) /\ ToSet(SetToSeq(S)) = S
    BY <2>4, <2>5, Ordered
  <2>7. \A row \in (table \cup new) \ table : \E g \in S : g.resource = r /\ Broadly(g) /\ Reflects(g.after, r, row)
    BY <2>3 DEF Broadly
  <2>8. Told(S, r, table, table \cup new)
    BY <2>7, EachTold
  <2> QED BY <2>1, <2>6, <2>8
<1> QED BY <1>1, <1>2

LEMMA DeleteTold ==
    ASSUME NEW r \in Resource, NEW table \in SUBSET Row[r], NEW old \in SUBSET Row[r], IsFiniteSet(old)
    PROVE  /\ DeleteFacts(r, old) \in Seq(Facts)
           /\ Told(ToSet(DeleteFacts(r, old)), r, table, table \ old)
<1>1. CASE Cardinality(old) > MaxFacts
  <2>1. DeleteFacts(r, old) = Batch(r, old, {})
    BY <1>1 DEF DeleteFacts
  <2>2. IsFiniteSet({})
    BY FS_EmptySet
  <2>3. table \ (table \ old) \subseteq old /\ (table \ old) \ table \subseteq {} /\ table \ old \in SUBSET Row[r]
    OBVIOUS
  <2> QED BY <2>1, <2>2, <2>3, BatchTold
<1>2. CASE ~(Cardinality(old) > MaxFacts)
  <2> DEFINE f == [row \in old |-> Fact(r, "delete", RowStateOf(r, row), Absent, Null)]
             S == {Fact(r, "delete", RowStateOf(r, row), Absent, Null) : row \in old}
  <2>1. DeleteFacts(r, old) = SetToSeq(S)
    BY <1>2 DEF DeleteFacts, SideOf
  <2>2. f \in Surjection(old, S)
    BY DEF Surjection
  <2>3. ASSUME NEW row \in old
        PROVE  /\ f[row] \in Facts /\ f[row].resource = r /\ f[row].operation = "delete"
               /\ f[row] \in S /\ Reflects(f[row].before, r, row)
    <3>1. /\ RowStateOf(r, row) \in RowState /\ RowSize(RowStateOf(r, row)) \in Nat
          /\ Reflects(RowStateOf(r, row), r, row)
      BY RowStateReflects
    <3>2. "delete" \in Operations /\ Null \in {Null} \cup SUBSET Column
      BY DEF Operations
    <3>3. f[row] = Fact(r, "delete", RowStateOf(r, row), Absent, Null) /\ f[row] \in S
      OBVIOUS
    <3> HIDE DEF f, S
    <3> QED BY <3>1, <3>2, <3>3, PlainStates, FactIn
  <2>4. S \subseteq Facts
    BY <2>3
  <2> HIDE DEF f, S
  <2>5. IsFiniteSet(S)
    BY <2>2, FS_Surjection
  <2>6. SetToSeq(S) \in Seq(Facts) /\ ToSet(SetToSeq(S)) = S
    BY <2>4, <2>5, Ordered
  <2>7. \A row \in table \ (table \ old) : \E g \in S : g.resource = r /\ Broadly(g) /\ Reflects(g.before, r, row)
    BY <2>3 DEF Broadly
  <2>8. Told(S, r, table, table \ old)
    BY <2>7, EachTold
  <2> QED BY <2>1, <2>6, <2>8
<1> QED BY <1>1, <1>2

LEMMA TruncateTold ==
    ASSUME NEW r \in Resource, NEW table \in SUBSET Row[r], NEW after \in SUBSET Row[r]
    PROVE  /\ <<BroadFact(r)>> \in Seq(Facts)
           /\ Told(ToSet(<<BroadFact(r)>>), r, table, after)
<1>1. <<BroadFact(r)>> \in Seq(Facts) /\ ToSet(<<BroadFact(r)>>) = {BroadFact(r)}
  BY BroadIn, Single
<1>2. Broadly(BroadFact(r)) /\ BroadFact(r).resource = r
  BY DEF Broadly, BroadFact
<1>3. Told({BroadFact(r)}, r, table, after)
  BY <1>2, BroadReflects, EachTold
<1> QED BY <1>1, <1>3

-----------------------------------------------------------------------------
(* Updates with keys: joined, or one of the two rows alone. *)

JoinedFact(r, old, new) ==
    Fact(r, "update", RowStateOf(r, old), RowStateOf(r, new), ChangedColumns(old, new))
GoneFact(r, row) == Fact(r, "update", RowStateOf(r, row), Absent, Null)
CameFact(r, row) == Fact(r, "update", Absent, RowStateOf(r, row), Null)

LEMMA UpdateFactsIn ==
    ASSUME NEW r \in Resource, NEW old \in Row[r], NEW new \in Row[r]
    PROVE  /\ JoinedFact(r, old, new) \in Facts /\ JoinedFact(r, old, new).resource = r
           /\ JoinedFact(r, old, new).changed = ChangedColumns(old, new)
           /\ JoinedFact(r, old, new).operation = "update"
           /\ Reflects(JoinedFact(r, old, new).before, r, old)
           /\ Reflects(JoinedFact(r, old, new).after, r, new)
           /\ GoneFact(r, old) \in Facts /\ GoneFact(r, old).resource = r /\ GoneFact(r, old).changed = Null
           /\ Reflects(GoneFact(r, old).before, r, old)
           /\ CameFact(r, new) \in Facts /\ CameFact(r, new).resource = r /\ CameFact(r, new).changed = Null
           /\ Reflects(CameFact(r, new).after, r, new)
<1>1. /\ RowStateOf(r, old) \in RowState /\ RowSize(RowStateOf(r, old)) \in Nat
      /\ Reflects(RowStateOf(r, old), r, old)
  BY RowStateReflects
<1>2. /\ RowStateOf(r, new) \in RowState /\ RowSize(RowStateOf(r, new)) \in Nat
      /\ Reflects(RowStateOf(r, new), r, new)
  BY RowStateReflects
<1>3. RowStateOf(r, old) # Absent /\ RowStateOf(r, new) # Absent
  BY <1>1, <1>2, PlainStates DEF Reflects
<1>4. ChangedColumns(old, new) \in SUBSET Column /\ IsFiniteSet(ChangedColumns(old, new))
  <2> DEFINE f == [pair \in old \ new |-> pair[1]]
  <2>1. f \in Surjection(old \ new, ChangedColumns(old, new))
    BY DEF Surjection, ChangedColumns
  <2>2. IsFiniteSet(old \ new)
    <3>1. IsFiniteSet(old) /\ old \ new \in SUBSET old
      BY ObserverAssumption
    <3> QED BY <3>1, FS_Subset
  <2>3. ChangedColumns(old, new) \in SUBSET Column
    BY ObserverAssumption DEF ChangedColumns
  <2> QED BY <2>1, <2>2, <2>3, FS_Surjection
<1>5. "update" \in Operations /\ Null \in {Null} \cup SUBSET Column
  BY DEF Operations
<1>6. ChangedColumns(old, new) \in {Null} \cup SUBSET Column
  BY <1>4
<1>7. /\ JoinedFact(r, old, new) \in Facts /\ JoinedFact(r, old, new).resource = r
      /\ JoinedFact(r, old, new).operation = "update"
      /\ JoinedFact(r, old, new).before = RowStateOf(r, old)
      /\ JoinedFact(r, old, new).after = RowStateOf(r, new)
      /\ JoinedFact(r, old, new).changed = ChangedColumns(old, new)
  BY <1>1, <1>2, <1>3, <1>4, <1>5, <1>6, FactIn DEF JoinedFact
<1>8. /\ GoneFact(r, old) \in Facts /\ GoneFact(r, old).resource = r
      /\ GoneFact(r, old).before = RowStateOf(r, old) /\ GoneFact(r, old).changed = Null
  BY <1>1, <1>5, PlainStates, FactIn DEF GoneFact
<1>9. /\ CameFact(r, new) \in Facts /\ CameFact(r, new).resource = r
      /\ CameFact(r, new).after = RowStateOf(r, new) /\ CameFact(r, new).changed = Null
  BY <1>2, <1>5, PlainStates, FactIn DEF CameFact
<1> QED BY <1>1, <1>2, <1>7, <1>8, <1>9

\* The facts of a keyed update: each old row has its joined fact or is gone, and
\* each new one has it or came.
Partners(r, old, new) == {p \in old \X new : Identity(r, p[2]) = Identity(r, p[1]) /\ p[1] # p[2]}
UpdateSet(r, old, new) ==
    {JoinedFact(r, p[1], p[2]) : p \in Partners(r, old, new)}
      \cup {GoneFact(r, row) : row \in Lone(r, old, new)}
      \cup {CameFact(r, row) : row \in Lone(r, new, old)}

LEMMA KeyedUpdateFacts ==
    ASSUME NEW r \in Resource, IdentityColumns[r] # {},
           NEW old \in SUBSET Row[r], NEW new \in SUBSET Row[r], IsFiniteSet(old), IsFiniteSet(new),
           ~(Cardinality(new) > MaxFacts)
    PROVE  /\ UpdateFacts(r, old, new) \in Seq(Facts)
           /\ ToSet(UpdateFacts(r, old, new)) = UpdateSet(r, old, new)
<1> DEFINE pairs == Partners(r, old, new)
           J == {JoinedFact(r, p[1], p[2]) : p \in pairs}
           G == {GoneFact(r, row) : row \in Lone(r, old, new)}
           C == {CameFact(r, row) : row \in Lone(r, new, old)}
<1>1. UpdateFacts(r, old, new) = Joined(r, old, new) \o Unjoined(r, old, new)
  BY DEF UpdateFacts
<1>2. Joined(r, old, new) = SetToSeq(J)
  <2>1. pairs = {p \in old \X new : p[2] \in Counterparts(r, p[1], {p[2]}) /\ p[1] # p[2]}
    BY DEF Partners, Counterparts
  <2> QED BY <2>1 DEF Joined, JoinedFact
<1>3. Unjoined(r, old, new) = SetToSeq(G) \o SetToSeq(C)
  BY DEF Unjoined, SideOf, GoneFact, CameFact
<1>4. J \subseteq Facts /\ IsFiniteSet(J)
  <2>1. pairs \in SUBSET (old \X new) /\ IsFiniteSet(pairs)
    <3>1. pairs \in SUBSET (old \X new)
      BY DEF Partners
    <3>2. IsFiniteSet(old \X new)
      BY FS_Product
    <3> QED BY <3>1, <3>2, FS_Subset
  <2>2. \A p \in pairs : p[1] \in Row[r] /\ p[2] \in Row[r]
    BY <2>1
  <2> DEFINE f == [p \in pairs |-> JoinedFact(r, p[1], p[2])]
  <2>3. f \in Surjection(pairs, J)
    BY DEF Surjection
  <2>4. J \subseteq Facts
    BY <2>2, UpdateFactsIn
  <2> HIDE DEF f, J, pairs
  <2> QED BY <2>1, <2>3, <2>4, FS_Surjection
<1>5. G \subseteq Facts /\ IsFiniteSet(G)
  <2>1. Lone(r, old, new) \in SUBSET old /\ IsFiniteSet(Lone(r, old, new))
    <3>1. Lone(r, old, new) \in SUBSET old
      BY DEF Lone
    <3> QED BY <3>1, FS_Subset
  <2> DEFINE f == [row \in Lone(r, old, new) |-> GoneFact(r, row)]
  <2>2. f \in Surjection(Lone(r, old, new), G)
    BY DEF Surjection
  <2>3. G \subseteq Facts
    BY <2>1, UpdateFactsIn
  <2> HIDE DEF f, G
  <2> QED BY <2>1, <2>2, <2>3, FS_Surjection
<1>6. C \subseteq Facts /\ IsFiniteSet(C)
  <2>1. Lone(r, new, old) \in SUBSET new /\ IsFiniteSet(Lone(r, new, old))
    <3>1. Lone(r, new, old) \in SUBSET new
      BY DEF Lone
    <3> QED BY <3>1, FS_Subset
  <2> DEFINE f == [row \in Lone(r, new, old) |-> CameFact(r, row)]
  <2>2. f \in Surjection(Lone(r, new, old), C)
    BY DEF Surjection
  <2>3. C \subseteq Facts
    BY <2>1, UpdateFactsIn
  <2> HIDE DEF f, C
  <2> QED BY <2>1, <2>2, <2>3, FS_Surjection
<1>7. UpdateSet(r, old, new) = J \cup G \cup C
  BY DEF UpdateSet
<1> HIDE DEF J, G, C
<1>8. SetToSeq(J) \in Seq(Facts) /\ ToSet(SetToSeq(J)) = J
  BY <1>4, Ordered
<1>9. SetToSeq(G) \in Seq(Facts) /\ ToSet(SetToSeq(G)) = G
  BY <1>5, Ordered
<1>10. SetToSeq(C) \in Seq(Facts) /\ ToSet(SetToSeq(C)) = C
  BY <1>6, Ordered
<1>11. /\ SetToSeq(G) \o SetToSeq(C) \in Seq(Facts)
       /\ ToSet(SetToSeq(G) \o SetToSeq(C)) = G \cup C
  BY <1>9, <1>10, Joins
<1>12. /\ SetToSeq(J) \o (SetToSeq(G) \o SetToSeq(C)) \in Seq(Facts)
       /\ ToSet(SetToSeq(J) \o (SetToSeq(G) \o SetToSeq(C))) = J \cup (G \cup C)
  BY <1>8, <1>11, Joins
<1> QED BY <1>1, <1>2, <1>3, <1>7, <1>12

\* Two rows of a table that agree on the columns of a read show it the same.
LEMMA ShownAlike ==
    ASSUME NEW r \in Resource, NEW old \in Row[r], NEW new \in Row[r], NEW read,
           ChangedColumns(old, new) \cap ColumnsRead(read) = {}
    PROVE  Shown(read, old) = Shown(read, new)
<1> DEFINE columns == ColumnsRead(read)
<1>1. ColumnsOf(old) = ColumnsOf(new) /\ IsObject(new)
  BY ObserverAssumption
<1> HIDE DEF columns
<1>2. \A pair \in old : pair[1] \in columns => pair \in new
  BY DEF columns, ChangedColumns
<1>3. ASSUME NEW pair \in new, pair[1] \in columns PROVE pair \in old
  <2>1. pair[1] \in ColumnsOf(new)
    BY DEF ColumnsOf
  <2>2. PICK other \in old : other[1] = pair[1]
    BY <1>1, <2>1 DEF ColumnsOf
  <2>3. other \in new
    BY <1>2, <1>3, <2>2
  <2> QED BY <1>1, <2>2, <2>3 DEF IsObject
<1> QED BY <1>2, <1>3 DEF Shown, Restricted, columns

\* Rows with unique keys, and others with the same keys: as many.
LEMMA SameKeys ==
    ASSUME NEW r, IdentityColumns[r] # {}, NEW A, NEW B, IsFiniteSet(A), IsFiniteSet(B),
           \A a, b \in A : Identity(r, a) = Identity(r, b) => a = b,
           \A a, b \in B : Identity(r, a) = Identity(r, b) => a = b,
           \A a \in A : \E b \in B : Identity(r, a) = Identity(r, b),
           \A b \in B : \E a \in A : Identity(r, a) = Identity(r, b)
    PROVE  Cardinality(A) = Cardinality(B)
<1> DEFINE f == [a \in A |-> CHOOSE b \in B : Identity(r, a) = Identity(r, b)]
<1>1. \A a \in A : f[a] \in B /\ Identity(r, a) = Identity(r, f[a])
  OBVIOUS
<1> HIDE DEF f
<1>2. f \in [A -> B]
  <2>1. f = [a \in A |-> f[a]]
    BY DEF f
  <2> QED BY <1>1, <2>1
<1>3. f \in Surjection(A, B)
  <2>1. ASSUME NEW b \in B PROVE \E a \in A : f[a] = b
    <3>1. PICK a \in A : Identity(r, a) = Identity(r, b)
      OBVIOUS
    <3>2. f[a] \in B /\ Identity(r, f[a]) = Identity(r, b)
      BY <1>1, <3>1
    <3> QED BY <3>1, <3>2
  <2> QED BY <1>2, <2>1 DEF Surjection
<1>4. f \in Injection(A, B)
  <2>1. \A a, b \in A : f[a] = f[b] => a = b
    BY <1>1
  <2> QED BY <1>2, <2>1 DEF Injection, IsInjective
<1> QED BY <1>3, <1>4, FS_Surjection

\* A keyed update: its counts stay where no joined fact touches what a read shows.
LEMMA KeyedUpdateTold ==
    ASSUME NEW r \in Resource, IdentityColumns[r] # {}, NEW table \in Tables(r),
           NEW old \in SUBSET table, NEW new \in SUBSET Row[r],
           (table \ old) \cup new \in Tables(r), new \cap (table \ old) = {}
    PROVE  Told(UpdateSet(r, old, new), r, table, (table \ old) \cup new)
<1> DEFINE after == (table \ old) \cup new
           facts == UpdateSet(r, old, new)
<1>1. /\ table \in SUBSET Row[r] /\ IsFiniteSet(table) /\ UniqueKeys(r, table)
      /\ after \in SUBSET Row[r] /\ IsFiniteSet(after) /\ UniqueKeys(r, after)
  BY TableRows
<1>2. /\ \A a, b \in table : Identity(r, a) = Identity(r, b) => a = b
      /\ \A a, b \in after : Identity(r, a) = Identity(r, b) => a = b
  <2> HIDE DEF after
  <2> QED BY <1>1 DEF UniqueKeys, Counterparts
<1>3. ASSUME NEW row \in old
      PROVE  \/ GoneFact(r, row) \in facts
             \/ \E other \in new : Identity(r, other) = Identity(r, row)
                                   /\ (row # other => JoinedFact(r, row, other) \in facts)
  <2>1. CASE row \in Lone(r, old, new)
    BY <2>1 DEF UpdateSet
  <2>2. CASE row \notin Lone(r, old, new)
    <3>1. PICK other \in new : Identity(r, other) = Identity(r, row)
      BY <2>2 DEF Lone, Counterparts
    <3>2. row # other => <<row, other>> \in Partners(r, old, new)
      BY <3>1 DEF Partners
    <3>3. row # other => JoinedFact(r, row, other) \in facts
      BY <3>2 DEF UpdateSet
    <3> QED BY <3>1, <3>3
  <2> QED BY <2>1, <2>2
<1>4. ASSUME NEW row \in new
      PROVE  \/ CameFact(r, row) \in facts
             \/ \E other \in old : Identity(r, row) = Identity(r, other)
                                   /\ (other # row => JoinedFact(r, other, row) \in facts)
  <2>1. CASE row \in Lone(r, new, old)
    BY <2>1 DEF UpdateSet
  <2>2. CASE row \notin Lone(r, new, old)
    <3>1. PICK other \in old : Identity(r, other) = Identity(r, row)
      BY <2>2 DEF Lone, Counterparts
    <3>2. row # other => <<other, row>> \in Partners(r, old, new)
      BY <3>1 DEF Partners
    <3>3. row # other => JoinedFact(r, other, row) \in facts
      BY <3>2 DEF UpdateSet
    <3> QED BY <3>1, <3>3
  <2> QED BY <2>1, <2>2
<1>5. old \in SUBSET Row[r]
  BY <1>1
<1>6. \A row \in after \ table : row \in new
  OBVIOUS
<1>7. \A row \in table \ after : row \in old /\ row \notin new
  OBVIOUS
<1> HIDE DEF facts
<1>8. Sees(facts, r, table, after)
  <2>1. ASSUME NEW row \in after \ table
        PROVE  \E f \in facts : f.resource = r /\ Reflects(f.after, r, row)
    <3>1. row \in new /\ row \in Row[r] /\ row \notin old
      BY <1>6, <2>1
    <3>2. CASE CameFact(r, row) \in facts
      BY <3>1, <3>2, UpdateFactsIn
    <3>3. CASE \E other \in old : JoinedFact(r, other, row) \in facts
      BY <1>5, <3>1, <3>3, UpdateFactsIn
    <3> QED BY <1>4, <3>1, <3>2, <3>3
  <2>2. ASSUME NEW row \in table \ after
        PROVE  \E f \in facts : f.resource = r /\ Reflects(f.before, r, row)
    <3>1. row \in old /\ row \in Row[r] /\ row \notin new
      BY <1>5, <1>7, <2>2
    <3>2. CASE GoneFact(r, row) \in facts
      BY <3>1, <3>2, UpdateFactsIn
    <3>3. CASE \E other \in new : JoinedFact(r, row, other) \in facts
      BY <3>1, <3>3, UpdateFactsIn
    <3> QED BY <1>3, <3>1, <3>2, <3>3
  <2> QED BY <2>1, <2>2 DEF Sees
<1>9. ASSUME NEW read \in ToSet(Reads), NEW shown, read.resource = r, ~Tells(facts, read, shown)
      PROVE  Count(after, read, shown) = Count(table, read, shown)
  <2> DEFINE A == {row \in table : Shown(read, row) = shown}
             B == {row \in after : Shown(read, row) = shown}
  <2>1. ASSUME NEW a \in old, Shown(read, a) = shown
        PROVE  \E b \in new : Identity(r, b) = Identity(r, a) /\ Shown(read, b) = shown
    <3>0. a \in Row[r]
      BY <1>5
    <3>1. GoneFact(r, a) \notin facts
      <4> SUFFICES ASSUME GoneFact(r, a) \in facts PROVE FALSE
        OBVIOUS
      <4>1. ChangesRead(GoneFact(r, a), read)
        BY <3>0, UpdateFactsIn DEF ChangesRead
      <4> QED BY <1>9, <2>1, <3>0, <4>1, UpdateFactsIn DEF Tells
    <3>2. PICK b \in new : /\ Identity(r, b) = Identity(r, a)
                           /\ a # b => JoinedFact(r, a, b) \in facts
      BY <1>3, <3>1
    <3>3. Shown(read, b) = shown
      <4> SUFFICES ASSUME Shown(read, b) # shown PROVE FALSE
        OBVIOUS
      <4>1. a # b
        BY <2>1
      <4>2. ChangedColumns(a, b) \cap ColumnsRead(read) # {}
        BY <2>1, <3>0, ShownAlike
      <4>3. ChangesRead(JoinedFact(r, a, b), read)
        BY <3>0, <4>2, UpdateFactsIn DEF ChangesRead
      <4> QED BY <1>9, <2>1, <3>0, <3>2, <4>1, <4>3, UpdateFactsIn DEF Tells
    <3> QED BY <3>2, <3>3
  <2>2. ASSUME NEW b \in new, Shown(read, b) = shown
        PROVE  \E a \in old : Identity(r, b) = Identity(r, a) /\ Shown(read, a) = shown
    <3>1. CameFact(r, b) \notin facts
      <4> SUFFICES ASSUME CameFact(r, b) \in facts PROVE FALSE
        OBVIOUS
      <4>1. ChangesRead(CameFact(r, b), read)
        BY UpdateFactsIn DEF ChangesRead
      <4> QED BY <1>9, <2>2, <4>1, UpdateFactsIn DEF Tells
    <3>2. PICK a \in old : /\ Identity(r, b) = Identity(r, a)
                           /\ a # b => JoinedFact(r, a, b) \in facts
      BY <1>4, <3>1
    <3>0. a \in Row[r]
      BY <1>5
    <3>3. Shown(read, a) = shown
      <4> SUFFICES ASSUME Shown(read, a) # shown PROVE FALSE
        OBVIOUS
      <4>1. a # b
        BY <2>2
      <4>2. ChangedColumns(a, b) \cap ColumnsRead(read) # {}
        BY <2>2, <3>0, ShownAlike
      <4>3. ChangesRead(JoinedFact(r, a, b), read)
        BY <3>0, <4>2, UpdateFactsIn DEF ChangesRead
      <4> QED BY <1>9, <2>2, <3>0, <3>2, <4>1, <4>3, UpdateFactsIn DEF Tells
    <3> QED BY <3>2, <3>3
  <2>3. \A a \in A : \E b \in B : Identity(r, a) = Identity(r, b)
    <3> TAKE a \in A
    <3>1. CASE a \in old
      <4>1. PICK b \in new : Identity(r, b) = Identity(r, a) /\ Shown(read, b) = shown
        BY <2>1, <3>1
      <4> QED BY <4>1
    <3>2. CASE a \notin old
      BY <3>2
    <3> QED BY <3>1, <3>2
  <2>4. \A b \in B : \E a \in A : Identity(r, a) = Identity(r, b)
    <3> TAKE b \in B
    <3>1. CASE b \in new
      <4>1. PICK a \in old : Identity(r, b) = Identity(r, a) /\ Shown(read, a) = shown
        BY <2>2, <3>1
      <4> QED BY <4>1
    <3>2. CASE b \notin new
      BY <3>2
    <3> QED BY <3>1, <3>2
  <2>5. IsFiniteSet(A) /\ IsFiniteSet(B)
    <3>1. A \in SUBSET table /\ B \in SUBSET after
      OBVIOUS
    <3> HIDE DEF A, B, after
    <3> QED BY <1>1, <3>1, FS_Subset
  <2>6. /\ \A a, b \in A : Identity(r, a) = Identity(r, b) => a = b
        /\ \A a, b \in B : Identity(r, a) = Identity(r, b) => a = b
    <3> HIDE DEF after
    <3> QED BY <1>2
  <2>7. Cardinality(A) = Cardinality(B)
    <3> HIDE DEF A, B
    <3> QED BY <2>3, <2>4, <2>5, <2>6, SameKeys
  <2> HIDE DEF after
  <2> QED BY <2>7 DEF Count
<1>10. Counted(facts, r, table, after)
  <2> HIDE DEF after
  <2> QED BY <1>9 DEF Counted
<1> QED BY <1>8, <1>10 DEF Told, facts

\* An update of any table.
LEMMA UpdateTold ==
    ASSUME NEW r \in Resource, NEW table \in Tables(r),
           NEW old \in SUBSET table, NEW new \in SUBSET Row[r],
           (table \ old) \cup new \in Tables(r), new \cap (table \ old) = {}
    PROVE  /\ UpdateFacts(r, old, new) \in Seq(Facts)
           /\ Told(ToSet(UpdateFacts(r, old, new)), r, table, (table \ old) \cup new)
<1> DEFINE after == (table \ old) \cup new
<1>1. /\ table \in SUBSET Row[r] /\ IsFiniteSet(table)
      /\ after \in SUBSET Row[r] /\ IsFiniteSet(after)
  BY TableRows
<1>2. /\ old \in SUBSET Row[r] /\ IsFiniteSet(old)
      /\ IsFiniteSet(new)
  <2>1. old \in SUBSET table /\ new \in SUBSET after
    OBVIOUS
  <2> HIDE DEF after
  <2> QED BY <1>1, <2>1, FS_Subset
<1>3. after \ table \subseteq new /\ table \ after \subseteq old
  OBVIOUS
<1>4. CASE IdentityColumns[r] = {}
  <2>1. UpdateFacts(r, old, new) = <<BroadFact(r)>>
    BY <1>4 DEF UpdateFacts
  <2> HIDE DEF after
  <2>2. Told(ToSet(<<BroadFact(r)>>), r, table, after)
    BY <1>1, TruncateTold
  <2> QED BY <1>1, <2>1, <2>2, TruncateTold DEF after
<1>5. CASE IdentityColumns[r] # {} /\ Cardinality(new) > MaxFacts
  <2>1. UpdateFacts(r, old, new) = Batch(r, old, new)
    BY <1>5 DEF UpdateFacts
  <2> HIDE DEF after
  <2> QED BY <1>1, <1>2, <1>3, <2>1, BatchTold DEF after
<1>6. CASE IdentityColumns[r] # {} /\ ~(Cardinality(new) > MaxFacts)
  <2>1. /\ UpdateFacts(r, old, new) \in Seq(Facts)
        /\ ToSet(UpdateFacts(r, old, new)) = UpdateSet(r, old, new)
    BY <1>2, <1>6, KeyedUpdateFacts
  <2>2. Told(UpdateSet(r, old, new), r, table, after)
    BY <1>6, KeyedUpdateTold
  <2> QED BY <2>1, <2>2
<1> QED BY <1>4, <1>5, <1>6


-----------------------------------------------------------------------------
(* The sequences of the collector. *)

\* A set of sequences with the empty one and every extension of its own has all.
LEMMA SequenceInduction ==
    ASSUME NEW S, NEW P, <<>> \in P,
           \A s \in Seq(S), x \in S : s \in P => Append(s, x) \in P
    PROVE  Seq(S) \subseteq P
<1> DEFINE T == {n \in Nat : \A s \in Seq(S) : Len(s) = n => s \in P}
<1>1. 0 \in T
  <2>1. \A s \in Seq(S) : Len(s) = 0 => s = <<>>
    OBVIOUS
  <2> QED BY <2>1
<1>2. ASSUME NEW n \in Nat, n \in T PROVE n + 1 \in T
  <2> SUFFICES ASSUME NEW s \in Seq(S), Len(s) = n + 1 PROVE s \in P
    BY <1>2
  <2>1. s # <<>> /\ n + 1 \in 1 .. Len(s) /\ s[n + 1] \in S
    OBVIOUS
  <2>2. /\ Front(s) \in Seq(S) /\ Len(Front(s)) = n
        /\ \A i \in 1 .. n : Front(s)[i] = s[i]
    BY <2>1, FrontOfSequence
  <2>3. Front(s) \in P
    BY <1>2, <2>2
  <2> DEFINE front == Front(s)
             last == s[n + 1]
  <2>4. front \in Seq(S) /\ last \in S /\ Len(front) = n /\ \A i \in 1 .. n : front[i] = s[i]
    BY <2>1, <2>2
  <2> HIDE DEF front
  <2>5. Append(front, last) = s
    BY <2>4
  <2> HIDE DEF last
  <2>6. Append(front, last) \in P
    BY <2>3, <2>4 DEF front
  <2> QED BY <2>5, <2>6
<1>3. Nat \subseteq T
  <2> HIDE DEF T
  <2> QED BY <1>1, <1>2, NatSetInduction
<1>4. \A s \in Seq(S) : Len(s) \in T
  BY <1>3
<1> QED BY <1>4

\* The size of the collected states, row by row.
LEMMA StatesSizeFold ==
    ASSUME NEW rows \in Seq(Facts)
    PROVE  \E g : /\ g[0] = 0 /\ g[Len(rows)] = StatesSize(rows)
                  /\ \A k \in 0 .. Len(rows) : g[k] \in Nat
                  /\ \A k \in 1 .. Len(rows) : g[k] = (g[k - 1] + FactSize(rows[k]) - 1)
<1> DEFINE n == Len(rows)
           V == Nat
           Op(v, k) == (v + FactSize(rows[k]) - 1)
           G == [k \in 1 .. n |-> [v \in V |-> Op(v, k)]]
           Solves(h) ==
             h = [t \in SUBSET (1 .. n) |->
                    IF t = {} THEN 0 ELSE Op(h[t \ {Max(t)}], Max(t))]
<1>1. n \in Nat /\ DOMAIN rows = 1 .. n /\ 0 \in V
  OBVIOUS
<1>2. ASSUME NEW k \in 1 .. n, NEW v \in V PROVE Op(v, k) \in V
  <2>1. rows[k] \in Facts
    BY <1>1
  <2>2. FactSize(rows[k]) \in Nat \ {0}
    BY <2>1 DEF Facts
  <2> QED BY <2>2
<1>3. G \in [1 .. n -> [V -> V]]
  <2> HIDE DEF V, n, Op
  <2> QED BY <1>2
<1>4. ASSUME NEW t \in SUBSET (1 .. n), t # {}, NEW v \in V PROVE G[Max(t)][v] = Op(v, Max(t))
  <2>1. Max(t) \in 1 .. n
    BY <1>1, <1>4, MaxIn
  <2> HIDE DEF V, n, Op
  <2> QED BY <2>1
<1>5. \E h : Solves(h)
  <2>1. PICK h \in [SUBSET (1 .. n) -> V] : FoldTable(h, 0, n, G)
    <3> HIDE DEF G, V, n
    <3> QED BY <1>1, <1>3, FoldExists
  <2>2. \A t \in SUBSET (1 .. n) : h[t \ {Max(t)}] \in V
    BY <2>1
  <2>3. Solves(h)
    <3> HIDE DEF G, V, n, Op
    <3> QED BY <1>4, <2>1, <2>2 DEF FoldTable
  <2> QED BY <2>3
<1>6. PICK h : Solves(h) /\ StatesSize(rows) = h[1 .. n]
  <2>1. Solves(CHOOSE h : Solves(h))
    BY <1>5
  <2>2. StatesSize(rows) = (CHOOSE h : Solves(h))[1 .. n]
    BY <1>1 DEF StatesSize, FoldLeft, MapThenFoldSet
  <2> QED BY <2>1, <2>2
<1>7. Applies(h, 0, n, G, V)
  <2> HIDE DEF G, V, n, Op
  <2> QED BY <1>4, <1>6 DEF Applies
<1>8. PICK g : FoldSteps(g, 0, h[1 .. n], n, G, V)
  <2> HIDE DEF G, V, n, Op, Solves
  <2> QED BY <1>1, <1>3, <1>7, FoldWalk
<1>9. \A k \in 1 .. n : g[k] = Op(g[k - 1], k)
  <2>1. \A k \in 1 .. n : k - 1 \in 0 .. n
    BY <1>1
  <2> HIDE DEF V, n, Op
  <2> QED BY <1>8, <2>1 DEF FoldSteps
<1>10. g[0] = 0 /\ g[n] = StatesSize(rows) /\ \A k \in 0 .. n : g[k] \in V
  <2> HIDE DEF V, n, Op, Solves
  <2> QED BY <1>6, <1>8 DEF FoldSteps
<1> HIDE DEF Solves
<1> QED BY <1>9, <1>10

\* One row more.
LEMMA StatesSizeAppend ==
    ASSUME NEW rows \in Seq(Facts), NEW fact \in Facts
    PROVE  StatesSize(rows) \in Nat /\ StatesSize(Append(rows, fact)) = (StatesSize(rows) + FactSize(fact) - 1)
<1> DEFINE n == Len(rows)
           more == Append(rows, fact)
<1>1. n \in Nat /\ more \in Seq(Facts) /\ Len(more) = n + 1 /\ more[n + 1] = fact
      /\ \A k \in 1 .. n : more[k] = rows[k]
  OBVIOUS
<1>2. PICK g : /\ g[0] = 0 /\ g[n] = StatesSize(rows)
               /\ \A k \in 0 .. n : g[k] \in Nat
               /\ \A k \in 1 .. n : g[k] = (g[k - 1] + FactSize(rows[k]) - 1)
  BY StatesSizeFold
<1> HIDE DEF more
<1>3. PICK h : /\ h[0] = 0 /\ h[n + 1] = StatesSize(more)
               /\ \A k \in 1 .. n + 1 : h[k] = (h[k - 1] + FactSize(more[k]) - 1)
  BY <1>1, StatesSizeFold
<1> DEFINE T == {k \in 0 .. n : h[k] = g[k]}
<1>4. 0 \in T
  BY <1>1, <1>2, <1>3
<1>5. ASSUME NEW k \in 0 .. n, k < n, k \in T PROVE k + 1 \in T
  <2>1. k + 1 \in 1 .. n /\ k + 1 \in 1 .. n + 1 /\ (k + 1) - 1 = k /\ k + 1 \in 0 .. n
    BY <1>1, <1>5
  <2>2. h[k + 1] = (h[k] + FactSize(more[k + 1]) - 1)
    BY <1>3, <2>1
  <2>3. g[k + 1] = (g[k] + FactSize(rows[k + 1]) - 1)
    BY <1>2, <2>1
  <2>4. more[k + 1] = rows[k + 1] /\ h[k] = g[k]
    BY <1>1, <1>5, <2>1
  <2>5. h[k + 1] = g[k + 1]
    BY <2>2, <2>3, <2>4
  <2> QED BY <2>1, <2>5
<1>6. n \in T
  <2> HIDE DEF T
  <2>1. \A k \in 0 .. n : k \in T
    BY <1>1, <1>4, <1>5, SegmentInduction
  <2> QED BY <1>1, <2>1
<1>7. h[n] = StatesSize(rows)
  BY <1>2, <1>6
<1>8. n + 1 \in 1 .. n + 1 /\ (n + 1) - 1 = n /\ n \in 0 .. n
  BY <1>1
<1>9. h[n + 1] = (h[n] + FactSize(more[n + 1]) - 1)
  BY <1>3, <1>8
<1>10. StatesSize(rows) \in Nat
  BY <1>2, <1>8
<1> HIDE DEF n
<1> QED BY <1>1, <1>3, <1>7, <1>9, <1>10 DEF more

\* g[k] is what the first k rows leave of those resources.
OnlySteps(g, rows, resources) ==
    /\ g[0] = <<>> /\ g[Len(rows)] = Only(rows, resources)
    /\ \A k \in 0 .. Len(rows) : g[k] \in Seq(Facts)
    /\ \A k \in 1 .. Len(rows) :
          g[k] = IF rows[k].resource \in resources THEN Append(g[k - 1], rows[k]) ELSE g[k - 1]

\* The rows of some resources, row by row.
LEMMA OnlyFold ==
    ASSUME NEW rows \in Seq(Facts), NEW resources
    PROVE  \E g : OnlySteps(g, rows, resources)
<1> DEFINE n == Len(rows)
           V == Seq(Facts)
           Op(v, k) == (IF rows[k].resource \in resources THEN Append(v, rows[k]) ELSE v)
           G == [k \in 1 .. n |-> [v \in V |-> Op(v, k)]]
           Solves(h) ==
             h = [t \in SUBSET (1 .. n) |->
                    IF t = {} THEN <<>> ELSE Op(h[t \ {Max(t)}], Max(t))]
<1>1. n \in Nat /\ DOMAIN rows = 1 .. n /\ <<>> \in V
  OBVIOUS
<1>2. ASSUME NEW k \in 1 .. n, NEW v \in V PROVE Op(v, k) \in V
  <2>1. rows[k] \in Facts
    BY <1>1
  <2> QED BY <2>1
<1>3. G \in [1 .. n -> [V -> V]]
  <2> HIDE DEF V, n, Op
  <2> QED BY <1>2
<1>4. ASSUME NEW t \in SUBSET (1 .. n), t # {}, NEW v \in V PROVE G[Max(t)][v] = Op(v, Max(t))
  <2>1. Max(t) \in 1 .. n
    BY <1>1, <1>4, MaxIn
  <2> HIDE DEF V, n, Op
  <2> QED BY <2>1
<1>5. \E h : Solves(h)
  <2>1. PICK h \in [SUBSET (1 .. n) -> V] : FoldTable(h, <<>>, n, G)
    <3> HIDE DEF G, V, n
    <3> QED BY <1>1, <1>3, FoldExists
  <2>2. \A t \in SUBSET (1 .. n) : h[t \ {Max(t)}] \in V
    BY <2>1
  <2>3. Solves(h)
    <3> HIDE DEF G, V, n, Op
    <3> QED BY <1>4, <2>1, <2>2 DEF FoldTable
  <2> QED BY <2>3
<1>6. PICK h : Solves(h) /\ Only(rows, resources) = h[1 .. n]
  <2>1. Solves(CHOOSE h : Solves(h))
    BY <1>5
  <2>2. Only(rows, resources) = (CHOOSE h : Solves(h))[1 .. n]
    BY <1>1 DEF Only, FoldLeft, MapThenFoldSet
  <2> QED BY <2>1, <2>2
<1>7. Applies(h, <<>>, n, G, V)
  <2> HIDE DEF G, V, n, Op
  <2> QED BY <1>4, <1>6 DEF Applies
<1>8. PICK g : FoldSteps(g, <<>>, h[1 .. n], n, G, V)
  <2> HIDE DEF G, V, n, Op, Solves
  <2> QED BY <1>1, <1>3, <1>7, FoldWalk
<1>9. \A k \in 1 .. n : g[k] = Op(g[k - 1], k)
  <2>1. \A k \in 1 .. n : k - 1 \in 0 .. n
    BY <1>1
  <2> HIDE DEF V, n, Op
  <2> QED BY <1>8, <2>1 DEF FoldSteps
<1>10. g[0] = <<>> /\ g[n] = Only(rows, resources) /\ \A k \in 0 .. n : g[k] \in V
  <2> HIDE DEF V, n, Op, Solves
  <2> QED BY <1>6, <1>8 DEF FoldSteps
<1> HIDE DEF Solves
<1>11. OnlySteps(g, rows, resources)
  BY <1>9, <1>10 DEF OnlySteps
<1> QED BY <1>11

\* One row more.
LEMMA OnlyAppend ==
    ASSUME NEW rows \in Seq(Facts), NEW fact \in Facts, NEW resources
    PROVE  Only(rows, resources) \in Seq(Facts) /\ Only(Append(rows, fact), resources) = (IF fact.resource \in resources THEN Append(Only(rows, resources), fact) ELSE Only(rows, resources))
<1> DEFINE n == Len(rows)
           more == Append(rows, fact)
<1>1. n \in Nat /\ more \in Seq(Facts) /\ Len(more) = n + 1 /\ more[n + 1] = fact
      /\ \A k \in 1 .. n : more[k] = rows[k]
  OBVIOUS
<1>2. PICK g : /\ g[0] = <<>> /\ g[n] = Only(rows, resources)
               /\ \A k \in 0 .. n : g[k] \in Seq(Facts)
               /\ \A k \in 1 .. n : g[k] = (IF rows[k].resource \in resources THEN Append(g[k - 1], rows[k]) ELSE g[k - 1])
  BY OnlyFold DEF OnlySteps
<1> HIDE DEF more
<1>3. PICK h : /\ h[0] = <<>> /\ h[n + 1] = Only(more, resources)
               /\ \A k \in 1 .. n + 1 : h[k] = (IF more[k].resource \in resources THEN Append(h[k - 1], more[k]) ELSE h[k - 1])
  <2>1. PICK h : OnlySteps(h, more, resources)
    BY <1>1, OnlyFold
  <2> QED BY <1>1, <2>1 DEF OnlySteps
<1> DEFINE T == {k \in 0 .. n : h[k] = g[k]}
<1>4. 0 \in T
  BY <1>1, <1>2, <1>3
<1>5. ASSUME NEW k \in 0 .. n, k < n, k \in T PROVE k + 1 \in T
  <2>1. k + 1 \in 1 .. n /\ k + 1 \in 1 .. n + 1 /\ (k + 1) - 1 = k /\ k + 1 \in 0 .. n
    BY <1>1, <1>5
  <2>2. h[k + 1] = (IF more[k + 1].resource \in resources THEN Append(h[k], more[k + 1]) ELSE h[k])
    BY <1>3, <2>1
  <2>3. g[k + 1] = (IF rows[k + 1].resource \in resources THEN Append(g[k], rows[k + 1]) ELSE g[k])
    BY <1>2, <2>1
  <2>4. more[k + 1] = rows[k + 1] /\ h[k] = g[k]
    BY <1>1, <1>5, <2>1
  <2>5. h[k + 1] = g[k + 1]
    BY <2>2, <2>3, <2>4
  <2> QED BY <2>1, <2>5
<1>6. n \in T
  <2> HIDE DEF T
  <2>1. \A k \in 0 .. n : k \in T
    BY <1>1, <1>4, <1>5, SegmentInduction
  <2> QED BY <1>1, <2>1
<1>7. h[n] = Only(rows, resources)
  BY <1>2, <1>6
<1>8. n + 1 \in 1 .. n + 1 /\ (n + 1) - 1 = n /\ n \in 0 .. n
  BY <1>1
<1>9. h[n + 1] = (IF more[n + 1].resource \in resources THEN Append(h[n], more[n + 1]) ELSE h[n])
  BY <1>3, <1>8
<1>10. Only(rows, resources) \in Seq(Facts)
  BY <1>2, <1>8
<1> HIDE DEF n
<1> QED BY <1>1, <1>3, <1>7, <1>9, <1>10 DEF more

LEMMA EmptyCollector == StatesSize(<<>>) = 0 /\ \A resources : Only(<<>>, resources) = <<>>
<1>1. <<>> \in Seq(Facts) /\ Len(<<>>) = 0
  OBVIOUS
<1>2. StatesSize(<<>>) = 0
  <2>1. \E g : g[0] = 0 /\ g[Len(<<>>)] = StatesSize(<<>>)
    BY <1>1, StatesSizeFold
  <2> QED BY <1>1, <2>1
<1>3. ASSUME NEW resources PROVE Only(<<>>, resources) = <<>>
  <2> DEFINE none == <<>>
  <2>1. none \in Seq(Facts) /\ Len(none) = 0
    BY <1>1
  <2> HIDE DEF none
  <2>2. PICK g : OnlySteps(g, none, resources)
    BY <2>1, OnlyFold
  <2>3. Only(none, resources) = <<>>
    BY <2>1, <2>2 DEF OnlySteps
  <2> QED BY <2>3 DEF none
<1> QED BY <1>2, <1>3

\* An appended row is one element more.
LEMMA Appended ==
    ASSUME NEW rows \in Seq(Facts), NEW fact \in Facts
    PROVE  /\ Append(rows, fact) \in Seq(Facts) /\ Len(Append(rows, fact)) = Len(rows) + 1
           /\ ToSet(Append(rows, fact)) = ToSet(rows) \cup {fact}
<1> DEFINE n == Len(rows)
           more == Append(rows, fact)
<1>1. n \in Nat /\ more \in Seq(Facts) /\ Len(more) = n + 1 /\ more[n + 1] = fact
      /\ DOMAIN rows = 1 .. n /\ DOMAIN more = 1 .. n + 1
      /\ \A k \in 1 .. n : more[k] = rows[k]
  OBVIOUS
<1>2. \A k \in 1 .. n + 1 : k \in 1 .. n \/ k = n + 1
  BY <1>1
<1>3. n + 1 \in 1 .. n + 1 /\ \A k \in 1 .. n : k \in 1 .. n + 1
  BY <1>1
<1> HIDE DEF more
<1>4. ToSet(more) = ToSet(rows) \cup {fact}
  <2>1. ASSUME NEW x \in ToSet(more) PROVE x \in ToSet(rows) \cup {fact}
    BY <1>1, <1>2, <2>1 DEF ToSet
  <2>2. ASSUME NEW x \in ToSet(rows) \cup {fact} PROVE x \in ToSet(more)
    BY <1>1, <1>3, <2>2 DEF ToSet
  <2> QED BY <2>1, <2>2
<1> QED BY <1>1, <1>4 DEF more

\* The rows of some resources are the rows that are about them, and picking twice
\* is picking what is in both.
LEMMA OnlyPicks ==
    ASSUME NEW rows \in Seq(Facts), NEW resources
    PROVE  /\ Only(rows, resources) \in Seq(Facts)
           /\ ToSet(Only(rows, resources)) = {fact \in ToSet(rows) : fact.resource \in resources}
           /\ \A others : Only(Only(rows, resources), others) = Only(rows, resources \cap others)
           /\ resources = {} => Only(rows, resources) = <<>>
<1> DEFINE Picks(s) ==
             /\ ToSet(Only(s, resources)) = {fact \in ToSet(s) : fact.resource \in resources}
             /\ \A others : Only(Only(s, resources), others) = Only(s, resources \cap others)
             /\ resources = {} => Only(s, resources) = <<>>
           P == {s \in Seq(Facts) : Picks(s)}
<1>1. <<>> \in P
  <2>1. ToSet(<<>>) = {}
    BY DEF ToSet
  <2>2. Picks(<<>>)
    BY <2>1, EmptyCollector
  <2> QED BY <2>2
<1>2. ASSUME NEW s \in Seq(Facts), NEW fact \in Facts, s \in P PROVE Append(s, fact) \in P
  <2> DEFINE more == Append(s, fact)
             picked == Only(s, resources)
  <2>1. Picks(s) /\ picked \in Seq(Facts)
    BY <1>2, OnlyAppend
  <2>2. more \in Seq(Facts) /\ ToSet(more) = ToSet(s) \cup {fact}
    BY Appended
  <2>3. Only(more, resources) = IF fact.resource \in resources THEN Append(picked, fact) ELSE picked
    BY OnlyAppend
  <2>4. \A others : Only(more, others) = IF fact.resource \in others THEN Append(Only(s, others), fact)
                                        ELSE Only(s, others)
    BY OnlyAppend
  <2>5. \A others : Only(Append(picked, fact), others)
                      = IF fact.resource \in others THEN Append(Only(picked, others), fact)
                        ELSE Only(picked, others)
    BY <2>1, OnlyAppend
  <2>6. ToSet(Append(picked, fact)) = ToSet(picked) \cup {fact}
    BY <2>1, Appended
  <2> HIDE DEF more, picked
  <2>7. ToSet(Only(more, resources)) = {f \in ToSet(more) : f.resource \in resources}
    BY <2>1, <2>2, <2>3, <2>6 DEF picked
  <2>8. ASSUME NEW others PROVE Only(Only(more, resources), others) = Only(more, resources \cap others)
    <3>1. Only(picked, others) = Only(s, resources \cap others)
      BY <2>1 DEF picked
    <3>2. CASE fact.resource \in resources
      BY <2>3, <2>4, <2>5, <3>1, <3>2
    <3>3. CASE fact.resource \notin resources
      BY <2>3, <2>4, <3>1, <3>3
    <3> QED BY <3>2, <3>3
  <2>9. resources = {} => Only(more, resources) = <<>>
    BY <2>1, <2>3 DEF picked
  <2> QED BY <2>2, <2>7, <2>8, <2>9 DEF more
<1>3. Seq(Facts) \subseteq P
  <2> HIDE DEF P
  <2> QED BY <1>1, <1>2, SequenceInduction
<1>4. Only(rows, resources) \in Seq(Facts)
  <2>1. PICK g : OnlySteps(g, rows, resources)
    BY OnlyFold
  <2>2. Len(rows) \in 0 .. Len(rows)
    OBVIOUS
  <2> QED BY <2>1, <2>2 DEF OnlySteps
<1> QED BY <1>3, <1>4

-----------------------------------------------------------------------------
(* Widening. *)

\* The resources that some rows are about.
Held(rows) == {fact.resource : fact \in ToSet(rows)}

\* Every resource has at most one row, no larger than a broad fact.
Settled(rows) ==
    \A r \in Resource : Len(RowsFor(rows, r)) <= 1 /\ StatesSize(RowsFor(rows, r)) <= 2

\* A settled collector has at most one small row for each resource it holds.
LEMMA SettledIsSmall ==
    ASSUME NEW rows \in Seq(Facts), Settled(rows)
    PROVE  /\ IsFiniteSet(Held(rows)) /\ Len(rows) = Cardinality(Held(rows))
           /\ StatesSize(rows) <= 2 * Cardinality(Held(rows))
<1> DEFINE Small(s) == /\ IsFiniteSet(Held(s)) /\ Len(s) = Cardinality(Held(s))
                       /\ StatesSize(s) <= 2 * Cardinality(Held(s))
           P == {s \in Seq(Facts) : Settled(s) => Small(s)}
<1>1. <<>> \in P
  <2>1. Held(<<>>) = {}
    BY DEF Held, ToSet
  <2>2. Len(<<>>) = 0 /\ StatesSize(<<>>) = 0 /\ <<>> \in Seq(Facts)
    BY EmptyCollector
  <2>3. IsFiniteSet({}) /\ Cardinality({}) = 0
    BY FS_EmptySet
  <2>4. Small(<<>>)
    BY <2>1, <2>2, <2>3
  <2> HIDE DEF Small
  <2> QED BY <2>2, <2>4
<1>2. ASSUME NEW s \in Seq(Facts), NEW fact \in Facts, s \in P PROVE Append(s, fact) \in P
  <2> DEFINE more == Append(s, fact)
             own == fact.resource
             size == FactSize(fact)
  <2>1. /\ more \in Seq(Facts) /\ Len(more) = Len(s) + 1 /\ ToSet(more) = ToSet(s) \cup {fact}
        /\ StatesSize(s) \in Nat /\ StatesSize(more) = StatesSize(s) + size - 1
        /\ size \in Nat \ {0} /\ own \in Resource
    BY Appended, StatesSizeAppend DEF Facts, WriteFact
  <2> SUFFICES ASSUME Settled(more) PROVE Small(more)
    BY <2>1
  <2> HIDE DEF more, own, size
  <2>2. ASSUME NEW r \in Resource
        PROVE  /\ RowsFor(s, r) \in Seq(Facts) /\ Len(RowsFor(s, r)) \in Nat
               /\ StatesSize(RowsFor(s, r)) \in Nat
               /\ r # own => RowsFor(more, r) = RowsFor(s, r)
               /\ r = own => /\ Len(RowsFor(more, r)) = Len(RowsFor(s, r)) + 1
                             /\ StatesSize(RowsFor(more, r)) = StatesSize(RowsFor(s, r)) + size - 1
    <3> DEFINE picked == RowsFor(s, r)
    <3>1. picked \in Seq(Facts)
      BY OnlyPicks DEF RowsFor
    <3>2. RowsFor(more, r) = IF own = r THEN Append(picked, fact) ELSE picked
      BY OnlyAppend DEF RowsFor, more, own
    <3> HIDE DEF picked
    <3>3. Len(picked) \in Nat /\ StatesSize(picked) \in Nat
      BY <3>1, StatesSizeAppend
    <3>4. Len(Append(picked, fact)) = Len(picked) + 1
          /\ StatesSize(Append(picked, fact)) = StatesSize(picked) + size - 1
      BY <3>1, Appended, StatesSizeAppend DEF size
    <3> QED BY <3>1, <3>2, <3>3, <3>4 DEF picked
  <2>3. Settled(s)
    <3>1. ASSUME NEW r \in Resource
          PROVE  Len(RowsFor(s, r)) <= 1 /\ StatesSize(RowsFor(s, r)) <= 2
      <4>1. Len(RowsFor(more, r)) <= 1 /\ StatesSize(RowsFor(more, r)) <= 2
        BY DEF Settled
      <4> QED BY <2>1, <2>2, <4>1
    <3> QED BY <3>1 DEF Settled
  <2>4. Small(s)
    BY <1>2, <2>3
  <2>5. Len(RowsFor(s, own)) = 0 /\ size <= 3
    <3>1. Len(RowsFor(more, own)) <= 1 /\ StatesSize(RowsFor(more, own)) <= 2
      BY <2>1 DEF Settled
    <3> QED BY <2>1, <2>2, <3>1
  <2>6. own \notin Held(s)
    <3>1. RowsFor(s, own) = <<>>
      BY <2>1, <2>2, <2>5
    <3>2. ToSet(RowsFor(s, own)) = {f \in ToSet(s) : f.resource \in {own}}
      BY OnlyPicks DEF RowsFor
    <3>3. ToSet(<<>>) = {}
      BY DEF ToSet
    <3> QED BY <3>1, <3>2, <3>3 DEF Held
  <2>7. Held(more) = Held(s) \cup {own}
    BY <2>1 DEF Held, own
  <2>8. IsFiniteSet(Held(more)) /\ Cardinality(Held(more)) = Cardinality(Held(s)) + 1
    BY <2>4, <2>6, <2>7, FS_AddElement
  <2>9. Cardinality(Held(s)) \in Nat
    BY <2>4, FS_CardinalityType
  <2> QED BY <2>1, <2>4, <2>5, <2>8, <2>9
<1>3. Seq(Facts) \subseteq P
  <2> HIDE DEF P
  <2> QED BY <1>1, <1>2, SequenceInduction
<1> QED BY <1>3

\* What is over the limits can be widened.
LEMMA FullIsWidenable ==
    ASSUME NEW rows \in Seq(Facts), Widenable(rows) = {}
    PROVE  ~CollectorFull(rows)
<1>1. Settled(rows)
  <2>1. ASSUME NEW r \in Resource
        PROVE  Len(RowsFor(rows, r)) <= 1 /\ StatesSize(RowsFor(rows, r)) <= 2
    <3>1. RowsFor(rows, r) \in Seq(Facts)
      BY OnlyPicks DEF RowsFor
    <3>2. Len(RowsFor(rows, r)) \in Nat /\ StatesSize(RowsFor(rows, r)) \in Nat
      BY <3>1, StatesSizeAppend, BroadIn
    <3>3. ~(Len(RowsFor(rows, r)) > 1) /\ ~(StatesSize(RowsFor(rows, r)) > 2)
      BY DEF Widenable
    <3> QED BY <3>2, <3>3
  <2> QED BY <2>1 DEF Settled
<1> DEFINE n == Cardinality(Held(rows))
           N == Cardinality(Resource)
<1>2. IsFiniteSet(Held(rows)) /\ Len(rows) = n /\ StatesSize(rows) <= 2 * n
  BY <1>1, SettledIsSmall
<1>3. Held(rows) \in SUBSET Resource
  <2>1. \A fact \in ToSet(rows) : fact \in Facts
    BY DEF ToSet
  <2> QED BY <2>1 DEF Held, Facts, WriteFact
<1>4. n \in Nat /\ N \in Nat /\ n <= N
  BY <1>2, <1>3, ContractsAssumption, FS_Subset, FS_CardinalityType
<1>5. N <= MaxFacts /\ 2 * N <= MaxFactSize /\ MaxFacts \in Nat /\ MaxFactSize \in Nat
  BY ObserverAssumption, WriteSetAssumption
<1>6. StatesSize(rows) \in Nat
  <2>1. \E g : g[Len(rows)] = StatesSize(rows) /\ \A k \in 0 .. Len(rows) : g[k] \in Nat
    BY StatesSizeFold
  <2>2. Len(rows) \in 0 .. Len(rows)
    OBVIOUS
  <2> QED BY <2>1, <2>2
<1> HIDE DEF n, N
<1> QED BY <1>2, <1>4, <1>5, <1>6 DEF CollectorFull

\* One round of the loop: the largest resource is settled, and nothing is lost.
WidenStep(rows) ==
    IF CollectorFull(rows) /\ Widenable(rows) # {} THEN WidenLargestOf(rows) ELSE {rows}

LEMMA WidenStepUpholds ==
    ASSUME NEW rows \in Seq(Facts), NEW t \in WidenStep(rows)
    PROVE  /\ t \in Seq(Facts) /\ Upholds(ToSet(rows), ToSet(t))
           /\ \/ t = rows /\ ~(CollectorFull(rows) /\ Widenable(rows) # {})
              \/ \E r \in Widenable(rows) : Widenable(t) \subseteq Widenable(rows) \ {r}
<1>1. CASE ~(CollectorFull(rows) /\ Widenable(rows) # {})
  BY <1>1 DEF WidenStep, Upholds
<1>2. CASE CollectorFull(rows) /\ Widenable(rows) # {}
  <2>1. PICK r \in Widenable(rows) : t = Append(Only(rows, Resource \ {r}), BroadFact(r))
    BY <1>2 DEF WidenStep, WidenLargestOf
  <2>2. r \in Resource /\ BroadFact(r) \in Facts /\ FactSize(BroadFact(r)) = 3
        /\ BroadFact(r).resource = r
    <3>1. r \in Resource
      BY DEF Widenable
    <3> QED BY <3>1, BroadIn, BroadReflects
  <2> DEFINE kept == Only(rows, Resource \ {r})
             broad == BroadFact(r)
  <2>3. /\ kept \in Seq(Facts)
        /\ ToSet(kept) = {fact \in ToSet(rows) : fact.resource \in Resource \ {r}}
        /\ \A q : RowsFor(kept, q) = Only(rows, (Resource \ {r}) \cap {q})
    BY OnlyPicks DEF RowsFor
  <2> HIDE DEF kept
  <2>4. t = Append(kept, broad) /\ broad \in Facts
    BY <2>1, <2>2 DEF kept
  <2>5. t \in Seq(Facts) /\ ToSet(t) = ToSet(kept) \cup {broad}
    BY <2>3, <2>4, Appended
  <2>6. Upholds(ToSet(rows), ToSet(t))
    <3>1. \A fact \in ToSet(rows) : fact.resource \in Resource
      BY DEF ToSet, Facts, WriteFact
    <3> QED BY <2>3, <2>5, <3>1 DEF Upholds
  <2>7. ASSUME NEW q \in Resource, q # r PROVE RowsFor(t, q) = RowsFor(rows, q)
    <3>1. RowsFor(t, q) = RowsFor(kept, q)
      BY <2>2, <2>3, <2>4, <2>7, OnlyAppend DEF RowsFor
    <3>2. (Resource \ {r}) \cap {q} = {q}
      BY <2>7
    <3> QED BY <2>3, <3>1, <3>2 DEF RowsFor
  <2>8. r \notin Widenable(t)
    <3> DEFINE none == RowsFor(kept, r)
    <3>1. RowsFor(t, r) = Append(none, broad)
      <4>1. RowsFor(t, r) = IF broad.resource \in {r} THEN Append(none, broad) ELSE none
        BY <2>3, <2>4, OnlyAppend DEF RowsFor
      <4> HIDE DEF none
      <4> QED BY <2>2, <4>1
    <3>2. none = Only(rows, {})
      <4>1. (Resource \ {r}) \cap {r} = {}
        OBVIOUS
      <4> QED BY <2>3, <4>1
    <3>3. none \in Seq(Facts) /\ Len(none) = 0 /\ StatesSize(none) = 0
      <4>1. Only(rows, {}) = <<>>
        BY OnlyPicks
      <4>2. <<>> \in Seq(Facts) /\ Len(<<>>) = 0
        OBVIOUS
      <4> HIDE DEF none
      <4> QED BY <3>2, <4>1, <4>2, EmptyCollector
    <3> HIDE DEF none
    <3>4. Len(Append(none, broad)) = 0 + 1
      BY <2>4, <3>3, Appended
    <3>5. StatesSize(Append(none, broad)) = 0 + FactSize(broad) - 1
      BY <2>4, <3>3, StatesSizeAppend
    <3>6. Len(RowsFor(t, r)) = 1 /\ StatesSize(RowsFor(t, r)) = 2
      BY <2>2, <3>1, <3>4, <3>5
    <3> HIDE DEF kept
    <3>7. ~(Len(RowsFor(t, r)) > 1) /\ ~(StatesSize(RowsFor(t, r)) > 2)
      BY <3>6
    <3> QED BY <3>7 DEF Widenable
  <2>9. Widenable(t) \subseteq Widenable(rows) \ {r}
    BY <2>7, <2>8 DEF Widenable
  <2> QED BY <2>5, <2>6, <2>9
<1> QED BY <1>1, <1>2

\* The states of the loop, round by round.
WidenSteps(g, rows) ==
    /\ g[0] = {rows} /\ g[Cardinality(Resource)] = WidenedFrom(rows)
    /\ \A k \in 0 .. Cardinality(Resource) : g[k] \in SUBSET Seq(Facts)
    /\ \A k \in 1 .. Cardinality(Resource) : g[k] = UNION {WidenStep(s) : s \in g[k - 1]}

\* The loop has such states.
LEMMA WidenedFold ==
    ASSUME NEW rows \in Seq(Facts)
    PROVE  \E g : WidenSteps(g, rows)
<1> DEFINE n == Cardinality(Resource)
           V == SUBSET Seq(Facts)
           Op(v, k) == (UNION {WidenStep(s) : s \in v})
           G == [k \in 1 .. n |-> [v \in V |-> Op(v, k)]]
           Solves(h) ==
             h = [t \in SUBSET (1 .. n) |->
                    IF t = {} THEN {rows} ELSE Op(h[t \ {Max(t)}], Max(t))]
<1>1. n \in Nat /\ DOMAIN [m \in 1 .. n |-> m] = 1 .. n /\ {rows} \in V
  BY ContractsAssumption, FS_CardinalityType
<1>2. ASSUME NEW k \in 1 .. n, NEW v \in V PROVE Op(v, k) \in V
  BY WidenStepUpholds
<1>3. G \in [1 .. n -> [V -> V]]
  <2> HIDE DEF V, n, Op
  <2> QED BY <1>2
<1>4. ASSUME NEW t \in SUBSET (1 .. n), t # {}, NEW v \in V PROVE G[Max(t)][v] = Op(v, Max(t))
  <2>1. Max(t) \in 1 .. n
    BY <1>1, <1>4, MaxIn
  <2> HIDE DEF V, n, Op
  <2> QED BY <2>1
<1>5. \E h : Solves(h)
  <2>1. PICK h \in [SUBSET (1 .. n) -> V] : FoldTable(h, {rows}, n, G)
    <3> HIDE DEF G, V, n
    <3> QED BY <1>1, <1>3, FoldExists
  <2>2. \A t \in SUBSET (1 .. n) : h[t \ {Max(t)}] \in V
    BY <2>1
  <2>3. Solves(h)
    <3> HIDE DEF G, V, n, Op
    <3> QED BY <1>4, <2>1, <2>2 DEF FoldTable
  <2> QED BY <2>3
<1>6. PICK h : Solves(h) /\ WidenedFrom(rows) = h[1 .. n]
  <2>1. Solves(CHOOSE h : Solves(h))
    BY <1>5
  <2>2. WidenedFrom(rows) = (CHOOSE h : Solves(h))[1 .. n]
    BY <1>1 DEF WidenedFrom, WidenStep, FoldLeft, MapThenFoldSet
  <2> QED BY <2>1, <2>2
<1>7. Applies(h, {rows}, n, G, V)
  <2> HIDE DEF G, V, n, Op
  <2> QED BY <1>4, <1>6 DEF Applies
<1>8. PICK g : FoldSteps(g, {rows}, h[1 .. n], n, G, V)
  <2> HIDE DEF G, V, n, Op, Solves
  <2> QED BY <1>1, <1>3, <1>7, FoldWalk
<1>9. \A k \in 1 .. n : g[k] = Op(g[k - 1], k)
  <2>1. \A k \in 1 .. n : k - 1 \in 0 .. n
    BY <1>1
  <2> HIDE DEF V, n, Op
  <2> QED BY <1>8, <2>1 DEF FoldSteps
<1>10. g[0] = {rows} /\ g[n] = WidenedFrom(rows) /\ \A k \in 0 .. n : g[k] \in V
  <2> HIDE DEF V, n, Op, Solves
  <2> QED BY <1>6, <1>8 DEF FoldSteps
<1> HIDE DEF Solves
<1> QED BY <1>9, <1>10 DEF WidenSteps

\* The loop ends under the limits, and nothing is lost but for broad facts.
LEMMA WidenedUpholds ==
    ASSUME NEW rows \in Seq(Facts), NEW t \in WidenedFrom(rows)
    PROVE  t \in Seq(Facts) /\ Upholds(ToSet(rows), ToSet(t)) /\ ~CollectorFull(t)
<1> DEFINE n == Cardinality(Resource)
<1>1. n \in Nat
  BY ContractsAssumption, FS_CardinalityType
<1>2. PICK g : WidenSteps(g, rows)
  BY WidenedFold
<1>3. /\ g[0] = {rows} /\ g[n] = WidenedFrom(rows)
      /\ \A k \in 0 .. n : g[k] \in SUBSET Seq(Facts)
      /\ \A k \in 1 .. n : g[k] = UNION {WidenStep(s) : s \in g[k - 1]}
  BY <1>2 DEF WidenSteps
<1>4. ASSUME NEW s PROVE IsFiniteSet(Widenable(s)) /\ Cardinality(Widenable(s)) \in Nat
                         /\ Cardinality(Widenable(s)) <= n
  <2>1. Widenable(s) \in SUBSET Resource
    BY DEF Widenable
  <2> QED BY <2>1, ContractsAssumption, FS_Subset, FS_CardinalityType
<1> DEFINE Rounds(s, k) ==
             /\ Upholds(ToSet(rows), ToSet(s))
             /\ \/ ~CollectorFull(s) \/ Widenable(s) = {}
                \/ Cardinality(Widenable(s)) <= n - k
           T == {k \in 0 .. n : \A s \in g[k] : Rounds(s, k)}
<1> HIDE DEF n
<1>5. 0 \in T
  <2>1. Upholds(ToSet(rows), ToSet(rows))
    BY DEF Upholds
  <2>2. Cardinality(Widenable(rows)) <= n - 0
    BY <1>1, <1>4
  <2> QED BY <1>1, <1>3, <2>1, <2>2
<1>6. ASSUME NEW k \in 0 .. n, k < n, k \in T PROVE k + 1 \in T
  <2>1. k + 1 \in 1 .. n /\ (k + 1) - 1 = k /\ k + 1 \in 0 .. n
    BY <1>1, <1>6
  <2>2. g[k + 1] = UNION {WidenStep(s) : s \in g[k]}
    BY <1>3, <2>1
  <2>3. ASSUME NEW u \in g[k + 1] PROVE Rounds(u, k + 1)
    <3>1. PICK s \in g[k] : u \in WidenStep(s)
      BY <2>2
    <3>2. s \in Seq(Facts) /\ Rounds(s, k)
      BY <1>3, <1>6
    <3>3. /\ Upholds(ToSet(s), ToSet(u))
          /\ \/ u = s /\ ~(CollectorFull(s) /\ Widenable(s) # {})
             \/ \E r \in Widenable(s) : Widenable(u) \subseteq Widenable(s) \ {r}
      BY <3>1, <3>2, WidenStepUpholds
    <3>4. Upholds(ToSet(rows), ToSet(u))
      BY <3>2, <3>3, UpholdsChain
    <3>5. CASE u = s /\ ~(CollectorFull(s) /\ Widenable(s) # {})
      BY <3>4, <3>5
    <3>6. CASE ~(u = s /\ ~(CollectorFull(s) /\ Widenable(s) # {})) /\ CollectorFull(s)
      <4>1. PICK r \in Widenable(s) : Widenable(u) \subseteq Widenable(s) \ {r}
        BY <3>3, <3>6
      <4>2. Cardinality(Widenable(s)) <= n - k
        BY <3>2, <3>6, <4>1
      <4>3. /\ IsFiniteSet(Widenable(s) \ {r})
            /\ Cardinality(Widenable(s) \ {r}) = Cardinality(Widenable(s)) - 1
        BY <1>4, FS_RemoveElement
      <4>4. Cardinality(Widenable(u)) <= Cardinality(Widenable(s) \ {r})
        BY <4>1, <4>3, FS_Subset
      <4>5. Cardinality(Widenable(u)) <= n - (k + 1)
        BY <1>1, <1>4, <4>2, <4>3, <4>4
      <4> QED BY <3>4, <4>5
    <3>7. CASE ~CollectorFull(s)
      <4>1. u = s
        BY <3>1, <3>7 DEF WidenStep
      <4> QED BY <3>4, <3>7, <4>1
    <3> QED BY <3>5, <3>6, <3>7
  <2> HIDE DEF Rounds
  <2> QED BY <2>1, <2>3
<1>7. n \in T
  <2> HIDE DEF T
  <2>1. \A k \in 0 .. n : k \in T
    BY <1>1, <1>5, <1>6, SegmentInduction
  <2> QED BY <1>1, <2>1
<1>8. Rounds(t, n) /\ t \in Seq(Facts)
  BY <1>1, <1>3, <1>7
<1>9. Widenable(t) # {} => Cardinality(Widenable(t)) # 0
  BY <1>4, FS_EmptySet
<1>10. ~CollectorFull(t) \/ Widenable(t) = {}
  BY <1>1, <1>4, <1>8, <1>9
<1> QED BY <1>8, <1>10, FullIsWidenable

\* The states of a statement, trigger by trigger.
CollectSteps(g, rows, runs) ==
    /\ g[0] = {rows} /\ g[Len(runs)] = CollectFrom(rows, runs)
    /\ \A k \in 0 .. Len(runs) : g[k] \in SUBSET Seq(Facts)
    /\ \A k \in 1 .. Len(runs) : g[k] = UNION {WidenedFrom(s \o runs[k]) : s \in g[k - 1]}

\* A statement has such states.
LEMMA CollectFold ==
    ASSUME NEW rows \in Seq(Facts), NEW runs \in Seq(Seq(Facts))
    PROVE  \E g : CollectSteps(g, rows, runs)
<1> DEFINE n == Len(runs)
           V == SUBSET Seq(Facts)
           Op(v, k) == (UNION {WidenedFrom(s \o runs[k]) : s \in v})
           G == [k \in 1 .. n |-> [v \in V |-> Op(v, k)]]
           Solves(h) ==
             h = [t \in SUBSET (1 .. n) |->
                    IF t = {} THEN {rows} ELSE Op(h[t \ {Max(t)}], Max(t))]
<1>1. n \in Nat /\ DOMAIN runs = 1 .. n /\ {rows} \in V
  OBVIOUS
<1>2. ASSUME NEW k \in 1 .. n, NEW v \in V PROVE Op(v, k) \in V
  <2>1. runs[k] \in Seq(Facts)
    BY <1>1
  <2>2. \A s \in v : s \o runs[k] \in Seq(Facts)
    BY <2>1
  <2> QED BY <2>2, WidenedUpholds
<1>3. G \in [1 .. n -> [V -> V]]
  <2> HIDE DEF V, n, Op
  <2> QED BY <1>2
<1>4. ASSUME NEW t \in SUBSET (1 .. n), t # {}, NEW v \in V PROVE G[Max(t)][v] = Op(v, Max(t))
  <2>1. Max(t) \in 1 .. n
    BY <1>1, <1>4, MaxIn
  <2> HIDE DEF V, n, Op
  <2> QED BY <2>1
<1>5. \E h : Solves(h)
  <2>1. PICK h \in [SUBSET (1 .. n) -> V] : FoldTable(h, {rows}, n, G)
    <3> HIDE DEF G, V, n
    <3> QED BY <1>1, <1>3, FoldExists
  <2>2. \A t \in SUBSET (1 .. n) : h[t \ {Max(t)}] \in V
    BY <2>1
  <2>3. Solves(h)
    <3> HIDE DEF G, V, n, Op
    <3> QED BY <1>4, <2>1, <2>2 DEF FoldTable
  <2> QED BY <2>3
<1>6. PICK h : Solves(h) /\ CollectFrom(rows, runs) = h[1 .. n]
  <2>1. Solves(CHOOSE h : Solves(h))
    BY <1>5
  <2>2. CollectFrom(rows, runs) = (CHOOSE h : Solves(h))[1 .. n]
    BY <1>1 DEF CollectFrom, FoldLeft, MapThenFoldSet
  <2> QED BY <2>1, <2>2
<1>7. Applies(h, {rows}, n, G, V)
  <2> HIDE DEF G, V, n, Op
  <2> QED BY <1>4, <1>6 DEF Applies
<1>8. PICK g : FoldSteps(g, {rows}, h[1 .. n], n, G, V)
  <2> HIDE DEF G, V, n, Op, Solves
  <2> QED BY <1>1, <1>3, <1>7, FoldWalk
<1>9. \A k \in 1 .. n : g[k] = Op(g[k - 1], k)
  <2>1. \A k \in 1 .. n : k - 1 \in 0 .. n
    BY <1>1
  <2> HIDE DEF V, n, Op
  <2> QED BY <1>8, <2>1 DEF FoldSteps
<1>10. g[0] = {rows} /\ g[n] = CollectFrom(rows, runs) /\ \A k \in 0 .. n : g[k] \in V
  <2> HIDE DEF V, n, Op, Solves
  <2> QED BY <1>6, <1>8 DEF FoldSteps
<1> HIDE DEF Solves
<1> QED BY <1>9, <1>10 DEF CollectSteps

\* What the triggers of a statement wrote is collected with what there was, and
\* the collector is under its limits.
LEMMA CollectedUpholds ==
    ASSUME NEW rows \in Seq(Facts), NEW runs \in Seq(Seq(Facts)), runs # <<>>,
           NEW t \in CollectFrom(rows, runs)
    PROVE  /\ t \in Seq(Facts) /\ Upholds(ToSet(rows), ToSet(t)) /\ ~CollectorFull(t)
           /\ \A i \in DOMAIN runs : Upholds(ToSet(runs[i]), ToSet(t))
<1> DEFINE n == Len(runs)
<1>1. n \in Nat \ {0} /\ DOMAIN runs = 1 .. n /\ \A k \in 1 .. n : runs[k] \in Seq(Facts)
  OBVIOUS
<1>2. PICK g : CollectSteps(g, rows, runs)
  BY CollectFold
<1>3. /\ g[0] = {rows} /\ g[n] = CollectFrom(rows, runs)
      /\ \A k \in 0 .. n : g[k] \in SUBSET Seq(Facts)
      /\ \A k \in 1 .. n : g[k] = UNION {WidenedFrom(s \o runs[k]) : s \in g[k - 1]}
  BY <1>2 DEF CollectSteps
<1> DEFINE Sums(s, k) ==
             /\ Upholds(ToSet(rows), ToSet(s))
             /\ \A i \in 1 .. k : Upholds(ToSet(runs[i]), ToSet(s))
             /\ k # 0 => ~CollectorFull(s)
           T == {k \in 0 .. n : \A s \in g[k] : Sums(s, k)}
<1> HIDE DEF n
<1>4. 0 \in T
  <2>1. Upholds(ToSet(rows), ToSet(rows))
    BY DEF Upholds
  <2> QED BY <1>1, <1>3, <2>1
<1>5. ASSUME NEW k \in 0 .. n, k < n, k \in T PROVE k + 1 \in T
  <2>1. k + 1 \in 1 .. n /\ (k + 1) - 1 = k /\ k + 1 \in 0 .. n
    BY <1>1, <1>5
  <2>2. g[k + 1] = UNION {WidenedFrom(s \o runs[k + 1]) : s \in g[k]}
    BY <1>3, <2>1
  <2>3. ASSUME NEW u \in g[k + 1] PROVE Sums(u, k + 1)
    <3>1. PICK s \in g[k] : u \in WidenedFrom(s \o runs[k + 1])
      BY <2>2
    <3>2. s \in Seq(Facts) /\ Sums(s, k) /\ runs[k + 1] \in Seq(Facts)
      BY <1>1, <1>3, <1>5, <2>1
    <3> DEFINE run == runs[k + 1]
    <3>3. s \o run \in Seq(Facts) /\ ToSet(s \o run) = ToSet(s) \cup ToSet(run)
      BY <3>2, Joins
    <3>4. Upholds(ToSet(s \o run), ToSet(u)) /\ ~CollectorFull(u)
      BY <3>1, <3>3, WidenedUpholds
    <3>5. Upholds(ToSet(s), ToSet(u)) /\ Upholds(ToSet(run), ToSet(u))
      BY <3>3, <3>4 DEF Upholds
    <3>6. \A i \in 1 .. k + 1 : i \in 1 .. k \/ i = k + 1
      BY <2>1
    <3> QED BY <3>2, <3>4, <3>5, <3>6, UpholdsChain
  <2> HIDE DEF Sums
  <2> QED BY <2>1, <2>3
<1>6. n \in T
  <2> HIDE DEF T
  <2>1. \A k \in 0 .. n : k \in T
    BY <1>1, <1>4, <1>5, SegmentInduction
  <2> QED BY <1>1, <2>1
<1>7. Sums(t, n) /\ t \in Seq(Facts)
  BY <1>1, <1>3, <1>6
<1> QED BY <1>1, <1>7

-----------------------------------------------------------------------------
(* The statements of a transaction. *)

\* The collector tells how each table differs from what it was at BEGIN.
Tracks == \A r \in Resource : Told(ToSet(collector), r, before[r], db[r])

Inv ==
    /\ phase \in {"idle", "collecting", "returned"}
    /\ db \in Databases /\ before \in Databases /\ collector \in Seq(Facts) /\ caller \in Scope
    /\ phase = "idle" => db = before /\ collector = <<>>
    /\ phase = "collecting" => Tracks

\* The facts of the runs tell of the change of a table, whatever is added to them.
Tell(runs, r, table, after) ==
    \A kept : (\A i \in DOMAIN runs : Upholds(ToSet(runs[i]), kept)) => Told(kept, r, table, after)

\* A statement whose triggers tell of its change is not refused, and its change is
\* told with those before it.
LEMMA WritesKept ==
    ASSUME Inv, NEW r \in Resource, NEW rows, NEW runs \in Seq(Seq(Facts)), runs # <<>>,
           Writes(r, rows, runs), Tell(runs, r, db[r], rows)
    PROVE  Inv'
<1>1. /\ phase = "collecting" /\ rows \in Tables(r) /\ db' = [db EXCEPT ![r] = rows]
      /\ Runs(runs) /\ UNCHANGED <<caller, impact, before>>
  BY DEF Writes
<1>2. db \in Databases /\ before \in Databases /\ collector \in Seq(Facts) /\ caller \in Scope /\ Tracks
  BY <1>1 DEF Inv
<1>3. PICK t \in CollectFrom(collector, runs) :
         IF CollectorFull(t) THEN phase' = "refused" /\ UNCHANGED collector
         ELSE collector' = t /\ UNCHANGED phase
  BY <1>1 DEF Runs
<1>4. /\ t \in Seq(Facts) /\ Upholds(ToSet(collector), ToSet(t)) /\ ~CollectorFull(t)
      /\ \A i \in DOMAIN runs : Upholds(ToSet(runs[i]), ToSet(t))
  BY <1>2, CollectedUpholds
<1>5. collector' = t /\ phase' = "collecting"
  BY <1>1, <1>3, <1>4
<1>6. db = [q \in Resource |-> db[q]] /\ \A q \in Resource : db[q] \in Tables(q)
  BY <1>2, DatabaseTables
<1>7. /\ db' = [q \in Resource |-> db'[q]] /\ db'[r] = rows
      /\ \A q \in Resource : q # r => db'[q] = db[q]
  BY <1>1, <1>6
<1>8. \A q \in Resource : db'[q] \in Tables(q)
  BY <1>1, <1>6, <1>7
<1>9. db' \in Databases
  BY <1>7, <1>8, DatabaseTables
<1>10. ASSUME NEW q \in Resource PROVE Told(ToSet(t), q, before[q], db'[q])
  <2>1. Told(ToSet(t), q, before[q], db[q])
    BY <1>2, <1>4, ToldUpheld DEF Tracks
  <2>2. CASE q = r
    <3>1. Told(ToSet(t), r, db[r], rows)
      BY <1>4 DEF Tell
    <3> QED BY <1>7, <2>1, <2>2, <3>1, ToldChain
  <2>3. CASE q # r
    BY <1>7, <2>1, <2>3
  <2> QED BY <2>2, <2>3
<1>11. Tracks'
  BY <1>1, <1>5, <1>10 DEF Tracks
<1> QED BY <1>1, <1>2, <1>4, <1>5, <1>9, <1>11 DEF Inv

\* One trigger run, and two.
LEMMA OneRun ==
    ASSUME NEW run \in Seq(Facts), NEW r, NEW table, NEW after, Told(ToSet(run), r, table, after)
    PROVE  <<run>> \in Seq(Seq(Facts)) /\ <<run>> # <<>> /\ Tell(<<run>>, r, table, after)
<1>1. <<run>> \in Seq(Seq(Facts)) /\ <<run>> # <<>> /\ 1 \in DOMAIN <<run>> /\ <<run>>[1] = run
  OBVIOUS
<1>2. ASSUME NEW kept, Upholds(ToSet(run), kept) PROVE Told(kept, r, table, after)
  BY <1>2, ToldUpheld
<1> QED BY <1>1, <1>2 DEF Tell

LEMMA TwoRuns ==
    ASSUME NEW first \in Seq(Facts), NEW second \in Seq(Facts), NEW r, NEW table, NEW between, NEW after,
           Told(ToSet(first), r, table, between), Told(ToSet(second), r, between, after)
    PROVE  /\ <<first, second>> \in Seq(Seq(Facts)) /\ <<first, second>> # <<>>
           /\ Tell(<<first, second>>, r, table, after)
<1> DEFINE runs == <<first, second>>
<1>1. /\ runs \in Seq(Seq(Facts)) /\ runs # <<>>
      /\ 1 \in DOMAIN runs /\ runs[1] = first /\ 2 \in DOMAIN runs /\ runs[2] = second
  OBVIOUS
<1>2. ASSUME NEW kept, Upholds(ToSet(first), kept), Upholds(ToSet(second), kept)
      PROVE  Told(kept, r, table, after)
  <2>1. Told(kept, r, table, between) /\ Told(kept, r, between, after)
    BY <1>2, ToldUpheld
  <2> QED BY <2>1, ToldChain
<1> HIDE DEF runs
<1>3. Tell(runs, r, table, after)
  BY <1>1, <1>2 DEF Tell
<1> QED BY <1>1, <1>3 DEF runs

LEMMA StatementKept ==
    ASSUME Inv, Statement
    PROVE  Inv'
<1>1. PICK r \in Resource :
       \/ \E new \in (SUBSET Row[r]) \ {{}} : InsertRows(r, new)
       \/ \E old \in (SUBSET db[r]) \ {{}} : DeleteRows(r, old)
       \/ \E old \in (SUBSET db[r]) \ {{}}, new \in SUBSET Row[r] : UpdateRows(r, old, new)
       \/ \E old \in SUBSET db[r], new \in SUBSET Row[r], added \in (SUBSET Row[r]) \ {{}} :
             Cardinality(old) = 1 /\ UpsertRows(r, old, new, added)
       \/ TruncateTable(r)
  BY DEF Statement
<1> DEFINE table == db[r]
<1>2. table \in Tables(r) /\ table \in SUBSET Row[r] /\ IsFiniteSet(table)
  BY DatabaseTables, TableRows DEF Inv
<1>3. ASSUME NEW new \in SUBSET Row[r], InsertRows(r, new) PROVE Inv'
  <2>1. /\ Writes(r, table \cup new, <<InsertFacts(r, new)>>)
        /\ table \cup new \in Tables(r)
    BY <1>3 DEF InsertRows, Writes
  <2> HIDE DEF table
  <2>2. IsFiniteSet(new)
    <3>1. new \in SUBSET (table \cup new) /\ IsFiniteSet(table \cup new)
      BY <2>1, TableRows
    <3> QED BY <3>1, FS_Subset
  <2>3. InsertFacts(r, new) \in Seq(Facts) /\ Told(ToSet(InsertFacts(r, new)), r, table, table \cup new)
    BY <1>2, <2>2, InsertTold
  <2> QED BY <2>1, <2>3, OneRun, WritesKept DEF table
<1>4. ASSUME NEW old \in SUBSET table, DeleteRows(r, old) PROVE Inv'
  <2>1. Writes(r, table \ old, <<DeleteFacts(r, old)>>)
    BY <1>4 DEF DeleteRows
  <2> HIDE DEF table
  <2>2. old \in SUBSET Row[r] /\ IsFiniteSet(old)
    BY <1>2, FS_Subset
  <2>3. DeleteFacts(r, old) \in Seq(Facts) /\ Told(ToSet(DeleteFacts(r, old)), r, table, table \ old)
    BY <1>2, <2>2, DeleteTold
  <2> QED BY <2>1, <2>3, OneRun, WritesKept DEF table
<1>5. ASSUME NEW old \in SUBSET table, NEW new \in SUBSET Row[r], UpdateRows(r, old, new) PROVE Inv'
  <2>1. /\ Writes(r, (table \ old) \cup new, <<UpdateFacts(r, old, new)>>)
        /\ (table \ old) \cup new \in Tables(r) /\ new \cap (table \ old) = {}
    BY <1>5 DEF UpdateRows, Writes
  <2> HIDE DEF table
  <2>2. /\ UpdateFacts(r, old, new) \in Seq(Facts)
        /\ Told(ToSet(UpdateFacts(r, old, new)), r, table, (table \ old) \cup new)
    BY <1>2, <2>1, UpdateTold
  <2> QED BY <2>1, <2>2, OneRun, WritesKept DEF table
<1>6. ASSUME NEW old \in SUBSET table, NEW new \in SUBSET Row[r], NEW added \in SUBSET Row[r],
             UpsertRows(r, old, new, added)
      PROVE  Inv'
  <2> DEFINE between == (table \ old) \cup new
             after == between \cup added
  <2>1. /\ Writes(r, after, <<UpdateFacts(r, old, new), InsertFacts(r, added)>>)
        /\ after \in Tables(r) /\ new \cap (table \ old) = {}
    BY <1>6 DEF UpsertRows, Writes
  <2> HIDE DEF table
  <2>2. between \in Tables(r) /\ IsFiniteSet(added)
    <3>1. between \in SUBSET after /\ added \in SUBSET after
      OBVIOUS
    <3> HIDE DEF between, after
    <3> QED BY <2>1, <3>1, PartOfTable, TableRows, FS_Subset
  <2>3. UpdateFacts(r, old, new) \in Seq(Facts) /\ Told(ToSet(UpdateFacts(r, old, new)), r, table, between)
    BY <1>2, <2>1, <2>2, UpdateTold
  <2>4. InsertFacts(r, added) \in Seq(Facts) /\ Told(ToSet(InsertFacts(r, added)), r, between, after)
    <3>1. between \in SUBSET Row[r]
      BY <2>2, TableRows
    <3> HIDE DEF between
    <3> QED BY <2>2, <3>1, InsertTold
  <2> HIDE DEF between, after
  <2> QED BY <2>1, <2>3, <2>4, TwoRuns, WritesKept DEF table
<1>7. ASSUME TruncateTable(r) PROVE Inv'
  <2>1. Writes(r, {}, <<<<BroadFact(r)>>>>)
    BY <1>7 DEF TruncateTable
  <2>2. <<BroadFact(r)>> \in Seq(Facts) /\ Told(ToSet(<<BroadFact(r)>>), r, table, {})
    BY <1>2, TruncateTold
  <2> HIDE DEF table
  <2> QED BY <2>1, <2>2, OneRun, WritesKept DEF table
<1> QED BY <1>1, <1>3, <1>4, <1>5, <1>6, <1>7

LEMMA Initial == Init => Inv
<1> SUFFICES ASSUME Init PROVE Inv
  OBVIOUS
<1>1. db \in Databases /\ before = db /\ collector = <<>> /\ phase = "idle" /\ caller \in Scope
  BY ObserverAssumption DEF Init
<1>2. <<>> \in Seq(Facts)
  OBVIOUS
<1> QED BY <1>1, <1>2 DEF Inv

LEMMA StepInv ==
    ASSUME Inv, [Next]_vars
    PROVE  Inv'
<1>1. CASE Begin
  <2>1. /\ phase = "idle" /\ phase' = "collecting" /\ UNCHANGED <<db, collector, caller, before>>
    BY <1>1 DEF Begin
  <2>2. ToSet(collector) = {} /\ before = db
    BY <2>1 DEF Inv, ToSet
  <2>3. Tracks'
    BY <2>1, <2>2, NothingTold DEF Tracks
  <2> QED BY <2>1, <2>3 DEF Inv
<1>2. CASE Statement
  BY <1>2, StatementKept
<1>3. CASE Commit
  <2>1. /\ phase = "collecting" /\ phase' = "returned" /\ collector' = <<>>
        /\ UNCHANGED <<db, caller, before>>
    BY <1>3 DEF Commit
  <2>2. <<>> \in Seq(Facts)
    OBVIOUS
  <2> QED BY <2>1, <2>2 DEF Inv
<1>4. CASE UNCHANGED vars
  BY <1>4 DEF vars, Inv, Tracks
<1> QED BY <1>1, <1>2, <1>3, <1>4 DEF Next

THEOREM Invariance == Spec => []Inv
<1>1. Inv /\ [Next]_vars => Inv'
  BY StepInv
<1> QED BY Initial, <1>1, PTL DEF Spec

-----------------------------------------------------------------------------
(* What follows from the invariant. *)

\* Every table of every state has unique keys, and only a joined fact of the
\* collector says which columns changed.
THEOREM TypeCorrect == Spec => []TypeOK
<1>1. Inv => TypeOK
  <2> SUFFICES ASSUME Inv PROVE TypeOK
    OBVIOUS
  <2>1. \A r \in Resource : db[r] \subseteq Row[r] /\ UniqueKeys(r, db[r])
    <3> TAKE r \in Resource
    <3>1. db[r] \in Tables(r)
      BY DatabaseTables DEF Inv
    <3> QED BY <3>1, TableRows
  <2>2. \A i \in DOMAIN collector : collector[i] \in Facts
    BY DEF Inv
  <2> QED BY <2>1, <2>2 DEF Inv, TypeOK, Facts, WriteFact
<1> QED BY <1>1, Invariance, PTL

\* However the statements share out the budget, none is refused.
THEOREM NoStatementIsRefused == Spec => []NeverRefused
<1>1. Inv => NeverRefused
  BY DEF Inv, NeverRefused
<1> QED BY <1>1, Invariance, PTL

LEMMA ReflectsDescribes ==
    ASSUME NEW side \in RowState, NEW r, NEW row, Reflects(side, r, row)
    PROVE  Describes(side, r, row)
<1> DEFINE carried == {pair \in row : pair[2] \notin NonScalar}
           certified == Restricted(carried, Certified[r])
<1>1. AllCarried(r, row) = KnownRow(Encoded(ScopeOf(r, row)), Json(carried), Json(certified))
  BY DEF AllCarried
<1>2. carried \subseteq row /\ certified \subseteq row
  BY DEF Restricted
<1> HIDE DEF carried, certified
<1>3. Json(carried) \subseteq Json(row) /\ Json(certified) \subseteq Json(row)
  BY <1>2 DEF Json
<1>4. side.kind \in {"unknown", "known"}
  BY Kinds DEF Reflects
<1> QED BY <1>1, <1>3, <1>4 DEF Describes, Reflects, RowWider, KnownRow

\* Every row that is new or gone since BEGIN is described by that side of a fact of
\* its table, whatever was batched, moved or widened.
THEOREM EveryChangeIsObserved == Spec => []EveryChangeObserved
<1>1. ASSUME Inv, phase = "collecting", NEW r \in Resource
      PROVE  /\ \A row \in db[r] \ before[r] :
                   \E f \in ToSet(collector) : f.resource = r /\ Describes(f.after, r, row)
             /\ \A row \in before[r] \ db[r] :
                   \E f \in ToSet(collector) : f.resource = r /\ Describes(f.before, r, row)
  <2>1. Sees(ToSet(collector), r, before[r], db[r])
    BY <1>1 DEF Inv, Tracks, Told
  <2>2. \A f \in ToSet(collector) : f.before \in RowState /\ f.after \in RowState
    BY <1>1 DEF Inv, ToSet, Facts, WriteFact
  <2> QED BY <2>1, <2>2, ReflectsDescribes DEF Sees
<1>2. ToSet(collector) = {collector[i] : i \in DOMAIN collector}
  BY DEF ToSet
<1>3. Inv => EveryChangeObserved
  BY <1>1, <1>2 DEF EveryChangeObserved
<1> QED BY <1>3, Invariance, PTL

-----------------------------------------------------------------------------
(* The oracle. *)

\* A fact that tells of relevant values may affect the answer.
LEMMA TellsAffects ==
    ASSUME NEW facts \in Seq(Facts), NEW read \in ToSet(Reads), NEW input, NEW scope,
           NEW shown \in Relevant(read, input, scope), Tells(ToSet(facts), read, shown)
    PROVE  MayAffect(facts, read.endpoint, input, scope)
<1> DEFINE r == read.resource
<1>1. r \in Resource
  <2>1. read \in ReadDependency
    BY CalculateAssumption DEF ToSet
  <2> QED BY <2>1 DEF ReadDependency
<1>2. read \in ToSet(ReadsOf(r))
  BY <1>1, ReadsIndexed
<1>3. PICK i \in DOMAIN facts :
        /\ facts[i].resource = r /\ ChangesRead(facts[i], read)
        /\ \E row \in Row[r] :
              /\ Shown(read, row) = shown
              /\ Reflects(facts[i].before, r, row) \/ Reflects(facts[i].after, r, row)
  BY DEF Tells, ToSet
<1>4. PICK row \in Row[r] : /\ Shown(read, row) = shown
                            /\ Reflects(facts[i].before, r, row) \/ Reflects(facts[i].after, r, row)
  BY <1>3
<1>5. MayBelong(AllCarried(r, row), read, input, scope)
  BY <1>4 DEF Relevant
<1>6. AllCarried(r, row).kind = "known"
  BY DEF AllCarried, KnownRow
<1>7. ASSUME NEW side, Reflects(side, r, row)
      PROVE  RowMayAffect(facts[i], side, read, input, scope)
  <2>1. side.kind # "absent" /\ RowWider(side, AllCarried(r, row))
    BY <1>7 DEF Reflects
  <2>2. side.kind = "known" => /\ side.scope = AllCarried(r, row).scope
                               /\ side.fields \subseteq AllCarried(r, row).fields
                               /\ side.equality \subseteq AllCarried(r, row).equality
    BY <1>6, <2>1 DEF RowWider
  <2>3. MayBelong(side, read, input, scope)
    BY <1>5, <1>6, <2>2 DEF MayBelong
  <2> QED BY <1>3, <2>1, <2>3 DEF RowMayAffect
<1>8. \E side \in {facts[i].before, facts[i].after} : RowMayAffect(facts[i], side, read, input, scope)
  BY <1>4, <1>7
<1> QED BY <1>2, <1>3, <1>8 DEF MayAffect

\* Two databases that a covering manifest tells apart: some read has a count
\* that differs among the values that may belong to the answer.
LEMMA CountsDiffer ==
    ASSUME ManifestCovers, NEW e \in Endpoint, NEW input \in Input, NEW scope \in Scope,
           NEW v \in Databases, NEW w \in Databases,
           AnswerOf(e, input, scope, v) # AnswerOf(e, input, scope, w)
    PROVE  \E read \in ToSet(Reads) : /\ read.endpoint = e
                                      /\ \E shown \in Relevant(read, input, scope) :
                                            Count(w[read.resource], read, shown)
                                              # Count(v[read.resource], read, shown)
<1> DEFINE reads == {read \in ToSet(Reads) : read.endpoint = e}
           relevant == [read \in reads |-> Relevant(read, input, scope)]
           counts(state) == [read \in reads |->
               [shown \in relevant[read] |-> Count(state[read.resource], read, shown)]]
           views == {<<counts(state), AnswerOf(e, input, scope, state)>> : state \in Databases}
<1>1. \A x, y \in views : x[1] = y[1] => x[2] = y[2]
  BY DEF ManifestCovers
<1>2. <<counts(v), AnswerOf(e, input, scope, v)>> \in views
      /\ <<counts(w), AnswerOf(e, input, scope, w)>> \in views
  OBVIOUS
<1>3. counts(v) # counts(w)
  <2> HIDE DEF counts, views
  <2> QED BY <1>1, <1>2
<1>4. SUFFICES ASSUME \A read \in reads : \A shown \in relevant[read] :
                         Count(w[read.resource], read, shown) = Count(v[read.resource], read, shown)
               PROVE  FALSE
  OBVIOUS
<1>5. \A read \in reads : [shown \in relevant[read] |-> Count(w[read.resource], read, shown)]
                           = [shown \in relevant[read] |-> Count(v[read.resource], read, shown)]
  <2> HIDE DEF reads, relevant
  <2> QED BY <1>4
<1>6. counts(v) = counts(w)
  <2> HIDE DEF reads, relevant
  <2> QED BY <1>5
<1> QED BY <1>3, <1>6

\* The commit reports every answer that the command has changed.
LEMMA CommitReports ==
    ASSUME ManifestCovers, Inv, Commit
    PROVE  Oracle'
<1>1. /\ phase = "collecting"
      /\ impact' = CalculateImpact(Snapshot(Add(NoWrites, collector)), caller, Report)
      /\ UNCHANGED <<db, before, caller>>
  BY DEF Commit
<1>2. db \in Databases /\ before \in Databases /\ collector \in Seq(Facts) /\ caller \in Scope /\ Tracks
  BY <1>1 DEF Inv
<1>3. collector \in Seq(WriteFact)
  <2>1. Facts \subseteq WriteFact
    BY DEF Facts
  <2> QED BY <1>2, <2>1, SeqMonotonic
<1>4. ASSUME NEW e \in Endpoint, NEW input \in Input,
             AnswerOf(e, input, caller, before) # AnswerOf(e, input, caller, db)
      PROVE  Reports(impact', e, input)
  <2>1. PICK read \in ToSet(Reads) : /\ read.endpoint = e
                                     /\ \E shown \in Relevant(read, input, caller) :
                                           Count(db[read.resource], read, shown)
                                             # Count(before[read.resource], read, shown)
    BY <1>2, <1>4, CountsDiffer
  <2>2. PICK shown \in Relevant(read, input, caller) :
           Count(db[read.resource], read, shown) # Count(before[read.resource], read, shown)
    BY <2>1
  <2>3. read.resource \in Resource
    <3>1. read \in ReadDependency
      BY CalculateAssumption DEF ToSet
    <3> QED BY <3>1 DEF ReadDependency
  <2>4. Tells(ToSet(collector), read, shown)
    BY <1>2, <2>2, <2>3 DEF Tracks, Told, Counted
  <2>5. MayAffect(collector, e, input, caller)
    BY <1>2, <2>1, <2>4, TellsAffects
  <2>6. Reports(CalculateImpact(Snapshot(Add(NoWrites, collector)), caller, Report), e, input)
    BY <1>3, <2>5, FactsCovered DEF Report
  <2> QED BY <1>1, <2>6
<1> QED BY <1>1, <1>4 DEF Oracle

\* If the manifest covers what the endpoints answer, every answer that differs
\* between the database before BEGIN and after COMMIT is reported for its input,
\* through batches, moved keys, upserts and widened resources.
THEOREM ChangedAnswersAreReported ==
    ASSUME ManifestCovers
    PROVE  Spec => []Oracle
<1> DEFINE Reported == Inv /\ Oracle
<1>1. Init => Reported
  <2>1. Init => Oracle
    BY DEF Init, Oracle
  <2> QED BY <2>1, Initial
<1>2. Reported /\ [Next]_vars => Reported'
  <2> SUFFICES ASSUME Reported, [Next]_vars PROVE Reported'
    OBVIOUS
  <2>1. Inv'
    BY StepInv
  <2>2. CASE Commit
    BY <2>1, <2>2, CommitReports
  <2>3. CASE UNCHANGED vars
    <3>1. UNCHANGED <<phase, impact, caller, before, db>>
      BY <2>3 DEF vars
    <3>2. Oracle'
      BY <3>1 DEF Oracle
    <3> QED BY <2>1, <3>2
  <2>4. CASE Begin
    <3>1. phase' # "returned"
      BY <2>4 DEF Begin
    <3> QED BY <2>1, <3>1 DEF Oracle
  <2>5. CASE Statement
    <3>1. \E r, rows, runs : Writes(r, rows, runs)
      BY <2>5 DEF Statement, InsertRows, DeleteRows, UpdateRows, UpsertRows, TruncateTable
    <3>2. PICK runs : phase = "collecting" /\ Runs(runs)
      BY <3>1 DEF Writes
    <3>3. phase' # "returned"
      BY <3>2 DEF Runs
    <3> QED BY <2>1, <3>3 DEF Oracle
  <2>6. Commit \/ UNCHANGED vars \/ Begin \/ Statement
    BY DEF Next
  <2> HIDE DEF Reported
  <2> QED BY <2>2, <2>3, <2>4, <2>5, <2>6
<1> QED BY <1>1, <1>2, PTL DEF Spec
=============================================================================
