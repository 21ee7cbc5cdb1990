-------------------------- MODULE PostgresObserver --------------------------
(***************************************************************************)
(* What the PostgreSQL triggers make of a transaction's statements         *)
(* (postgres/observer.ts): a statement trigger sees its rows in transition *)
(* tables, writes one fact for each or one for a large batch, and widens   *)
(* resources while the collector is over its limits.  At the boundary the  *)
(* collector is drained into the write set and the impact is calculated.   *)
(*                                                                         *)
(* Phases, savepoints and failures of the same transaction are in          *)
(* PostgresCommand; here statements carry rows.  Cascades arrive as        *)
(* statements of their own.                                                *)
(***************************************************************************)
EXTENDS WriteSet, Calculate

CONSTANTS
    Row,                \* [Resource -> set of rows a table may hold]
    IdentityColumns,    \* [Resource -> its primary key columns, {} without one]
    Certified,          \* [Resource -> columns of a type with a proven equality, in a
                        \* table that the validation found free of policies and rules]
    InitialDb,          \* the databases a behaviour may start from
    Scope,              \* caller scopes
    Input,              \* inputs of cached answers
    AnswerOf(_, _, _, _),   \* endpoint, input, scope, db: what a query answers
    Encoded(_),         \* the scalar to_jsonb and JSON.parse make of a stored one
    NonScalar,          \* stored values that to_jsonb makes an array or object
    MaxStatements       \* bound: statements of one command

ColumnsOf(row) == {pair[1] : pair \in row}
Identity(resource, row) == Restricted(row, IdentityColumns[resource])

Counterparts(resource, row, rows) ==
    {other \in rows : Identity(resource, other) = Identity(resource, row)}

UniqueKeys(resource, rows) ==
    \/ IdentityColumns[resource] = {}
    \/ \A row \in rows : Counterparts(resource, row, rows) = {row}

\* What a table may hold: finitely many rows, with unique keys.
Tables(resource) ==
    {rows \in SUBSET Row[resource] : IsFiniteSet(rows) /\ UniqueKeys(resource, rows)}

Databases ==
    {state \in [Resource -> UNION {Tables(r) : r \in Resource}] :
        \A r \in Resource : state[r] \in Tables(r)}

\* A row is an object with the columns of its table, among them its scope.  At
\* most one broad fact for each resource fits the collector.
ASSUME ObserverAssumption ==
    /\ \A r \in Resource : \A row \in Row[r] :
          /\ IsFiniteSet(row) /\ IsObject(row)
          /\ \A pair \in row : /\ pair = <<pair[1], pair[2]>> /\ pair[1] \in Column
                               /\ pair[2] \in NonScalar \/ Encoded(pair[2]) \in Scalar
          /\ \A other \in Row[r] : ColumnsOf(other) = ColumnsOf(row)
          /\ ScopeColumn[r] \in ColumnsOf(row) \cup {Null}
    /\ Null \notin NonScalar /\ Encoded(Null) = Null
    /\ InitialDb \subseteq Databases
    /\ IdentityColumns \in [Resource -> SUBSET Column]
    /\ Certified \in [Resource -> SUBSET Column]
    /\ Cardinality(Resource) <= MaxFacts
    /\ 2 * Cardinality(Resource) <= MaxFactSize

VARIABLES
    db,         \* the tables as the transaction sees them
    collector,  \* pg_temp.sdi_observed_facts
    phase,      \* "idle", "collecting", "returned", "refused" (SDI_COLLECTOR_LIMIT)
    caller,     \* scope of the command
    impact,     \* what the command returned
    before,     \* ghost: db at BEGIN
    statements  \* bound: statements so far

vars == <<db, collector, phase, caller, impact, before, statements>>

Report == [e \in Endpoint |-> Verified]

-----------------------------------------------------------------------------
(* The states of rows. *)

FilterColumns(resource) ==
    {f[1] : f \in UNION {read.filters : read \in ToSet(ReadsOf(resource))}}
ObservedColumns(resource) ==
    ({ScopeColumn[resource]} \ {Null}) \cup IdentityColumns[resource] \cup FilterColumns(resource)
      \cup {b[1] : b \in UNION {read.bindings : read \in ToSet(ReadsOf(resource))}}

Json(object) == {<<pair[1], Encoded(pair[2])>> : pair \in object}

\* What rowsToFacts reads from a captured state: its scope and fields are scalars.
Captured(scope, fields, equality) ==
    IF scope \in NonScalar \/ \E pair \in fields : pair[2] \in NonScalar THEN UnknownRow
    ELSE KnownRow(Encoded(scope), Json(fields), Json(equality))

ScopeOf(resource, row) ==
    IF ScopeColumn[resource] = Null THEN Null ELSE ValueOf(row, ScopeColumn[resource])

\* Fault: every filtered column is certified, whatever its type.
MutantEqualityColumns(resource) == FilterColumns(resource)
EqualityColumns(resource) == FilterColumns(resource) \cap Certified[resource]

RowStateOf(resource, row) ==
    Captured(ScopeOf(resource, row), Restricted(row, ObservedColumns(resource)),
             Restricted(row, EqualityColumns(resource)))

\* A primary key of one column has no value in common across a batch.
BatchColumns(resource, columns) ==
    IF Cardinality(IdentityColumns[resource]) = 1 THEN columns \ IdentityColumns[resource] ELSE columns

\* Fault: the batch keeps the values of any one row.
MutantCommon(rows, columns) == Restricted(CHOOSE row \in rows : TRUE, columns)
\* The values that all rows of the transition table share.
Common(rows, columns) ==
    {pair \in UNION rows : pair[1] \in columns /\ \A row \in rows : pair \in row}

BatchState(resource, rows) ==
    LET scopes == {ScopeOf(resource, row) : row \in rows}
    IN CASE rows = {} -> Absent
         [] Cardinality(scopes) > 1 -> UnknownRow
         [] OTHER -> Captured(CHOOSE s \in scopes : TRUE,
                              Common(rows, BatchColumns(resource, ObservedColumns(resource))),
                              Common(rows, BatchColumns(resource, EqualityColumns(resource))))

-----------------------------------------------------------------------------
(* The facts of one trigger run. *)

Fact(resource, operation, old, new, changed) ==
    [resource |-> resource, operation |-> operation, before |-> old, after |-> new, changed |-> changed]

Batch(resource, old, new) ==
    <<Fact(resource, "unknown", BatchState(resource, old), BatchState(resource, new), Null)>>

SideOf(resource, rows, side(_)) == SetToSeq({side(RowStateOf(resource, row)) : row \in rows})

InsertFacts(resource, new) ==
    IF Cardinality(new) > MaxFacts THEN Batch(resource, {}, new)
    ELSE SideOf(resource, new, LAMBDA state : Fact(resource, "insert", Absent, state, Null))

DeleteFacts(resource, old) ==
    IF Cardinality(old) > MaxFacts THEN Batch(resource, old, {})
    ELSE SideOf(resource, old, LAMBDA state : Fact(resource, "delete", state, Absent, Null))

ChangedColumns(old, new) == {pair[1] : pair \in old \ new}

Joined(resource, old, new) ==
    SetToSeq({Fact(resource, "update", RowStateOf(resource, pair[1]), RowStateOf(resource, pair[2]),
                   ChangedColumns(pair[1], pair[2])) :
                 pair \in {p \in old \X new : p[2] \in Counterparts(resource, p[1], {p[2]}) /\ p[1] # p[2]}})

Lone(resource, rows, others) == {row \in rows : Counterparts(resource, row, others) = {}}

\* Fault: a changed key is reported as a change of the key columns.
MutantKeyChanged(resource, old, new) ==
    SideOf(resource, Lone(resource, old, new),
           LAMBDA state : Fact(resource, "update", state, Absent, IdentityColumns[resource]))
      \o SideOf(resource, Lone(resource, new, old),
                LAMBDA state : Fact(resource, "update", Absent, state, IdentityColumns[resource]))
\* A changed key leaves both of its rows without a counterpart.
Unjoined(resource, old, new) ==
    SideOf(resource, Lone(resource, old, new), LAMBDA state : Fact(resource, "update", state, Absent, Null))
      \o SideOf(resource, Lone(resource, new, old), LAMBDA state : Fact(resource, "update", Absent, state, Null))

UpdateFacts(resource, old, new) ==
    IF IdentityColumns[resource] = {} THEN <<BroadFact(resource)>>
    ELSE IF Cardinality(new) > MaxFacts THEN Batch(resource, old, new)
    ELSE Joined(resource, old, new) \o Unjoined(resource, old, new)

-----------------------------------------------------------------------------
(* The collector. *)

\* The stored states are measured, not the resource and the operation.
StatesSize(rows) == FoldLeft(LAMBDA n, fact : n + FactSize(fact) - 1, 0, rows)
Only(rows, resources) ==
    FoldLeft(LAMBDA kept, fact : IF fact.resource \in resources THEN Append(kept, fact) ELSE kept,
             <<>>, rows)
RowsFor(rows, resource) == Only(rows, {resource})

CollectorFull(rows) == Len(rows) > MaxFacts \/ StatesSize(rows) > MaxFactSize

\* Fault: a resource is widened only when it has several rows.
MutantWidenable(rows) == {r \in Resource : Len(RowsFor(rows, r)) > 1}
\* More than one row, or larger than a broad fact.
Widenable(rows) ==
    {r \in Resource : Len(RowsFor(rows, r)) > 1 \/ StatesSize(RowsFor(rows, r)) > 2}

\* The largest resource becomes one broad fact; which of two equals is open.
WidenLargestOf(rows) ==
    LET size(r) == StatesSize(RowsFor(rows, r))
        largest == {r \in Widenable(rows) : \A o \in Widenable(rows) : size(r) >= size(o)}
    IN {Append(Only(rows, Resource \ {r}), BroadFact(r)) : r \in largest}

\* The loop at the end of every trigger.
WidenedFrom(rows) ==
    FoldLeft(LAMBDA states, n : UNION {IF CollectorFull(s) /\ Widenable(s) # {}
                                       THEN WidenLargestOf(s) ELSE {s} : s \in states},
             {rows}, [n \in 1 .. Cardinality(Resource) |-> n])

\* The triggers of one statement, in their order.
CollectFrom(rows, runs) ==
    FoldLeft(LAMBDA states, facts : UNION {WidenedFrom(s \o facts) : s \in states}, {rows}, runs)

-----------------------------------------------------------------------------
Init ==
    /\ db \in InitialDb
    /\ collector = <<>>
    /\ phase = "idle" /\ caller \in Scope
    /\ impact = UnavailableImpact("none")
    /\ before = db
    /\ statements = 0

Begin ==
    /\ phase = "idle"
    /\ phase' = "collecting"
    /\ UNCHANGED <<db, collector, caller, impact, before, statements>>

\* A trigger that cannot bring the collector under its limits raises, and with
\* it the statement and the transaction fail.
Runs(runs) ==
    \E rows \in CollectFrom(collector, runs) :
        IF CollectorFull(rows) THEN phase' = "refused" /\ UNCHANGED collector
        ELSE collector' = rows /\ UNCHANGED phase

\* A statement that turns a table into rows and runs its triggers.
Writes(resource, rows, runs) ==
    /\ phase = "collecting"
    /\ statements < MaxStatements
    /\ statements' = statements + 1
    /\ rows \in Tables(resource)
    /\ db' = [db EXCEPT ![resource] = rows]
    /\ Runs(runs)
    /\ UNCHANGED <<caller, impact, before>>

InsertRows(resource, new) ==
    /\ new \cap db[resource] = {}
    /\ Writes(resource, db[resource] \cup new, <<InsertFacts(resource, new)>>)

DeleteRows(resource, old) ==
    Writes(resource, db[resource] \ old, <<DeleteFacts(resource, old)>>)

\* The transition tables do not say which old row became which new one.
UpdateRows(resource, old, new) ==
    /\ Cardinality(old) = Cardinality(new)
    /\ new \cap (db[resource] \ old) = {}
    /\ Writes(resource, (db[resource] \ old) \cup new, <<UpdateFacts(resource, old, new)>>)

\* INSERT ... ON CONFLICT DO UPDATE runs the triggers of both.
UpsertRows(resource, old, new, added) ==
    /\ Cardinality(old) = Cardinality(new)
    /\ (new \cup added) \cap (db[resource] \ old) = {} /\ new \cap added = {}
    /\ Writes(resource, (db[resource] \ old) \cup new \cup added,
              <<UpdateFacts(resource, old, new), InsertFacts(resource, added)>>)

TruncateTable(resource) == Writes(resource, {}, <<<<BroadFact(resource)>>>>)

Statement ==
    \E resource \in Resource :
       \/ \E new \in (SUBSET Row[resource]) \ {{}} : InsertRows(resource, new)
       \/ \E old \in (SUBSET db[resource]) \ {{}} : DeleteRows(resource, old)
       \/ \E old \in (SUBSET db[resource]) \ {{}}, new \in SUBSET Row[resource] :
             UpdateRows(resource, old, new)
       \/ \E old \in SUBSET db[resource], new \in SUBSET Row[resource],
             added \in (SUBSET Row[resource]) \ {{}} :
             Cardinality(old) = 1 /\ UpsertRows(resource, old, new, added)
       \/ TruncateTable(resource)

\* The boundary: the drained rows go to the write set once COMMIT succeeded.
Commit ==
    /\ phase = "collecting"
    /\ impact' = CalculateImpact(Snapshot(Add(NoWrites, collector)), caller, Report)
    /\ collector' = <<>>
    /\ phase' = "returned"
    /\ UNCHANGED <<db, caller, before, statements>>

Next == Begin \/ Statement \/ Commit

Spec == Init /\ [][Next]_vars

-----------------------------------------------------------------------------
(* Properties. *)

\* Tables hold rows with unique keys; only a fact whose two rows were joined says
\* which columns changed, for a key that changed says nothing about columns.
TypeOK ==
    /\ phase \in {"idle", "collecting", "returned", "refused"}
    /\ \A r \in Resource : db[r] \subseteq Row[r] /\ UniqueKeys(r, db[r])
    /\ \A i \in DOMAIN collector :
          LET fact == collector[i]
          IN /\ fact.resource \in Resource /\ fact.operation \in Operations
             /\ fact.changed # Null =>
                   fact.operation = "update" /\ Absent \notin {fact.before, fact.after}

\* What the manifest must be for the oracle: an answer depends on nothing but how
\* many rows show each combination of values in the columns of one of its reads,
\* of rows that the bindings, certified filters and scope do not exclude.
AllCarried(resource, row) ==
    LET carried == {pair \in row : pair[2] \notin NonScalar}
    IN KnownRow(Encoded(ScopeOf(resource, row)), Json(carried),
                Json(Restricted(carried, Certified[resource])))

Shown(read, row) == Restricted(row, ColumnsRead(read))

\* The values that no row which shows them is excluded for.
Relevant(read, input, scope) ==
    {shown \in {Shown(read, row) : row \in Row[read.resource]} :
        \A row \in Row[read.resource] :
            Shown(read, row) = shown =>
                MayBelong(AllCarried(read.resource, row), read, input, scope)}

Count(rows, read, shown) == Cardinality({row \in rows : Shown(read, row) = shown})

ManifestCovers ==
    \A e \in Endpoint, input \in Input, scope \in Scope :
        LET reads == {read \in ToSet(Reads) : read.endpoint = e}
            relevant == [read \in reads |-> Relevant(read, input, scope)]
            counts(state) == [read \in reads |->
                [shown \in relevant[read] |-> Count(state[read.resource], read, shown)]]
            views == {<<counts(state), AnswerOf(e, input, scope, state)>> : state \in Databases}
        IN \A v, w \in views : v[1] = w[1] => v[2] = w[2]

\* The correctness oracle of semantics.md: an answer that differs between the
\* database before BEGIN and after COMMIT is reported for its input, for rows of
\* every statement, batches, moved keys and widened resources.
Oracle ==
    phase = "returned" =>
        \A e \in Endpoint, input \in Input :
            AnswerOf(e, input, caller, before) # AnswerOf(e, input, caller, db)
                => Reports(impact, e, input)

\* What a captured state says holds of the row.
Describes(state, resource, row) ==
    \/ state.kind = "unknown"
    \/ /\ state.kind = "known"
       /\ state.scope = Encoded(ScopeOf(resource, row))
       /\ state.fields \subseteq Json(row) /\ state.equality \subseteq Json(row)

\* Every row that is new or gone since BEGIN is described by that side of some fact,
\* in detail, by its batch or by its widened resource, also when an update moves
\* keys (observer.ts, triggerFunction).
EveryChangeObserved ==
    phase = "collecting" =>
        \A r \in Resource :
            LET facts == {collector[i] : i \in DOMAIN collector}
                described(side(_), row) ==
                    \E fact \in facts : fact.resource = r /\ Describes(side(fact), r, row)
            IN /\ \A row \in db[r] \ before[r] : described(LAMBDA f : f.after, row)
               /\ \A row \in before[r] \ db[r] : described(LAMBDA f : f.before, row)

\* However the statements share out the budget, a trigger can bring the collector
\* under it: no statement is refused with SDI_COLLECTOR_LIMIT.
NeverRefused == phase # "refused"

=============================================================================
