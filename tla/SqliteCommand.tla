--------------------------- MODULE SqliteCommand ---------------------------
(***************************************************************************)
(* A command on the SQLite adapter (sqlite/index.ts) from its BEGIN to the *)
(* impact it returns: the application's statements, the temporary triggers *)
(* that collect facts, savepoints, the drain and the commit, and then the  *)
(* write set and the calculation.                                          *)
(*                                                                         *)
(* The adapter's serial queue gives one command the connection at a time,  *)
(* so the interleaving that matters is the order of statements, failures,  *)
(* savepoints and of writes made on the connection outside any command.    *)
(* A table is a set of rows, a row an object with its primary key.         *)
(***************************************************************************)
EXTENDS WriteSet, Calculate

CONSTANTS
    Row,                \* [Resource -> set of rows a table may hold]
    KeyColumn,          \* [Resource -> its primary key column]
    ForeignKeys,        \* set of [child, column, parent], deferred, on delete cascade
    InitialDb,          \* the databases a behaviour may start from
    Scope,              \* caller scopes
    Input,              \* inputs of cached answers
    AnswerOf(_, _, _, _),   \* endpoint, input, scope, db: what a query answers
    Encoded(_),         \* the scalar json_object and JSON.parse make of a stored one
    NonFinite,          \* stored numbers JSON cannot carry
    ConflictRollback,   \* whether statements may fail with ON CONFLICT ROLLBACK
    MaxStatements,      \* bound: statements of one command
    MaxSavepoints,      \* bound: nesting of savepoints
    MaxOutside          \* bound: writes outside commands

ColumnsOf(row) == {pair[1] : pair \in row}
Key(resource, row) == ValueOf(row, KeyColumn[resource])

\* What a table may hold: finitely many rows with a key each of its own.
Tables(resource) ==
    {rows \in SUBSET Row[resource] :
        /\ IsFiniteSet(rows)
        /\ \A a, b \in rows : Key(resource, a) = Key(resource, b) => a = b}

Databases ==
    {state \in [Resource -> UNION {Tables(r) : r \in Resource}] :
        \A r \in Resource : state[r] \in Tables(r)}

\* A row is an object with the columns of its table, among them its scope.
ASSUME SqliteAssumption ==
    /\ \A r \in Resource : \A row \in Row[r] :
          /\ row # Null /\ IsFiniteSet(row) /\ IsObject(row)
          /\ \A pair \in row : /\ pair = <<pair[1], pair[2]>> /\ pair[1] \in Column
                               /\ pair[2] \in NonFinite \/ Encoded(pair[2]) \in Scalar
          /\ \A other \in Row[r] : ColumnsOf(other) = ColumnsOf(row)
          /\ ScopeColumn[r] \in ColumnsOf(row) \cup {Null}
    /\ InitialDb \subseteq Databases
    /\ \A fk \in ForeignKeys : {fk.child, fk.parent} \subseteq Resource
    /\ MaxSavepoints \in Nat

VARIABLES
    db,         \* the database as this connection sees it
    collector,  \* [rows, widened]: the two temporary tables
    saved,      \* open transaction and savepoints: [level, db, collector, effects]
    failed,     \* guard.failed of the callback and of each open savepoint
    phase,      \* "idle", "working", "returned", "rejected"
    caller,     \* scope of the command
    impact,     \* what the command returned
    before,     \* ghost: db at BEGIN
    effects,    \* ghost: resources changed by statements not rolled back
    statements, \* bound: statements so far
    outside     \* bound: writes outside commands so far

vars == <<db, collector, saved, failed, phase, caller, impact, before, effects, statements, outside>>

Report == [e \in Endpoint |-> Verified]
Depth == Len(failed)
InTransaction == saved # <<>>

-----------------------------------------------------------------------------
(* Observation. *)

\* The columns a trigger captures, and those it certifies for filters.
FilterColumns(resource) ==
    {f[1] : f \in UNION {read.filters : read \in ToSet(ReadsOf(resource))}}
ObservedColumns(resource) ==
    ({ScopeColumn[resource], KeyColumn[resource]} \ {Null}) \cup FilterColumns(resource)
      \cup {b[1] : b \in UNION {read.bindings : read \in ToSet(ReadsOf(resource))}}

Json(object) == {<<pair[1], Encoded(pair[2])>> : pair \in object}

ScopeOf(resource, row) ==
    IF ScopeColumn[resource] = Null THEN Null ELSE Encoded(ValueOf(row, ScopeColumn[resource]))

\* A row whose captured values are not all JSON scalars parses as unknown.
Observed(resource, row) ==
    LET fields == Restricted(row, ObservedColumns(resource))
    IN IF \E pair \in fields : pair[2] \in NonFinite THEN UnknownRow
       ELSE KnownRow(ScopeOf(resource, row), Json(fields),
                     Json(Restricted(row, FilterColumns(resource))))

RowFact(resource, operation, old, new) ==
    [resource |-> resource, operation |-> operation,
     before |-> IF old = Null THEN Absent ELSE Observed(resource, old),
     after |-> IF new = Null THEN Absent ELSE Observed(resource, new),
     changed |-> IF operation = "update" THEN {pair[1] : pair \in old \ new} ELSE Null]

NoCollected == [rows |-> <<>>, widened |-> {}]

\* The triggers measure the stored states, not the resource and operation.
RowsSize(rows) == FoldLeft(LAMBDA n, fact : n + FactSize(fact) - 1, 0, rows)
SizeFor(rows, resource) ==
    FoldLeft(LAMBDA n, fact : IF fact.resource = resource THEN n + FactSize(fact) - 1 ELSE n,
             0, rows)

CollectorFull(rows) == Len(rows) > MaxFacts \/ RowsSize(rows) > MaxFactSize

\* The rows of the resources that still have detail.
Detail(rows, widened) ==
    FoldLeft(LAMBDA kept, fact : IF fact.resource \in widened THEN kept ELSE Append(kept, fact),
             <<>>, rows)

\* Each trigger run appends one row, then widens the largest resource if the
\* two temporary tables are over budget, and forgets the widened detail.
Collect(c, fact) ==
    LET rows == IF fact.resource \in c.widened THEN c.rows ELSE Append(c.rows, fact)
        held == {rows[i].resource : i \in DOMAIN rows}
        largest == CHOOSE r \in held : \A o \in held : SizeFor(rows, r) >= SizeFor(rows, o)
        widened == c.widened \cup IF CollectorFull(rows) THEN {largest} ELSE {}
    IN [rows |-> Detail(rows, widened), widened |-> widened]

ObservedFacts(c) ==
    LET broad == SetToSeq(c.widened)
    IN [i \in DOMAIN broad |-> BroadFact(broad[i])] \o c.rows

-----------------------------------------------------------------------------
(* What one statement does: rows change and their triggers run. *)

Referencing(state, fk, row) ==
    {child \in state[fk.child] : ValueOf(child, fk.column) = Key(fk.parent, row)}

Violations(state) ==
    {fk \in ForeignKeys : \E child \in state[fk.child] :
        /\ ValueOf(child, fk.column) # Null
        /\ \A row \in state[fk.parent] : Key(fk.parent, row) # ValueOf(child, fk.column)}

\* Fault: a row that changes in no captured column is not collected.
MutantFires(resource, old, new) ==
    Null \in {old, new} \/ Observed(resource, old) # Observed(resource, new)
Fires(resource, old, new) == old # new

Touch(state, resource, operation, old, new) ==
    [db |-> [state.db EXCEPT ![resource] = (@ \ {old}) \cup ({new} \ {Null})],
     collector |-> IF Fires(resource, old, new)
                   THEN Collect(state.collector, RowFact(resource, operation, old, new))
                   ELSE state.collector,
     effects |-> IF old = new THEN state.effects ELSE state.effects \cup {resource}]

\* A delete cascades to the referencing rows first, each with its own trigger.
DeleteRow(state, resource, row) ==
    LET cascaded(fk) == {<<fk.child, child>> : child \in Referencing(state.db, fk, row)}
        victims == UNION {cascaded(fk) : fk \in {f \in ForeignKeys : f.parent = resource}}
    IN Touch(FoldLeft(LAMBDA s, v : Touch(s, v[1], "delete", v[2], Null), state, SetToSeq(victims)),
             resource, "delete", row, Null)

State == [db |-> db, collector |-> collector, effects |-> effects]
Becomes(state) ==
    /\ db' = state.db
    /\ collector' = state.collector
    /\ effects' = state.effects

\* A rollback takes the temporary tables back with the business tables.
Restored(point) == Becomes(point)

Free(resource, row, but) ==
    \A other \in db[resource] \ {but} : Key(resource, other) # Key(resource, row)

Dml ==
    \E resource \in Resource :
       \/ \E row \in Row[resource] :
             Free(resource, row, Null) /\ Becomes(Touch(State, resource, "insert", Null, row))
       \/ \E old \in db[resource], new \in Row[resource] :
             Free(resource, new, old) /\ Becomes(Touch(State, resource, "update", old, new))
       \/ \E row \in db[resource] : Becomes(DeleteRow(State, resource, row))

-----------------------------------------------------------------------------
(* The command. *)

Working == phase = "working"

Init ==
    /\ db \in InitialDb
    /\ collector = NoCollected
    /\ saved = <<>> /\ failed = <<>>
    /\ phase = "idle" /\ caller \in Scope
    /\ impact = UnavailableImpact("none")
    /\ before = db /\ effects = {}
    /\ statements = 0 /\ outside = 0

\* The application writes on the shared connection outside any command: the
\* temporary triggers are installed and collect those rows too.
OutsideWrite ==
    /\ phase = "idle"
    /\ outside < MaxOutside
    /\ Dml
    /\ Violations(db') = {}
    /\ outside' = outside + 1
    /\ UNCHANGED <<saved, failed, phase, caller, impact, before, statements>>

\* Fault: the temporary tables keep the rows of other writes.
MutantCleared == collector
Cleared == NoCollected

\* Rows left by other writes are dropped before BEGIN IMMEDIATE.
Begin ==
    /\ phase = "idle"
    /\ collector' = Cleared
    /\ saved' = <<[level |-> 1, db |-> db, collector |-> Cleared, effects |-> {}]>>
    /\ failed' = <<FALSE>>
    /\ phase' = "working"
    /\ before' = db
    /\ effects' = {}
    /\ UNCHANGED <<db, caller, impact, statements, outside>>

Statement ==
    /\ Working
    /\ statements < MaxStatements
    /\ Dml
    /\ ~InTransaction => Violations(db') = {}
    /\ statements' = statements + 1
    /\ UNCHANGED <<saved, failed, phase, caller, impact, before, outside>>

\* The statement is undone, the guard remembers, the callback may go on.
StatementFails ==
    /\ Working
    /\ statements < MaxStatements
    /\ statements' = statements + 1
    /\ failed' = [failed EXCEPT ![Depth] = TRUE]
    /\ UNCHANGED <<db, collector, saved, phase, caller, impact, before, effects, outside>>

\* INSERT OR ROLLBACK: the database ends the whole transaction, and the
\* connection is back in autocommit while the callback still runs.
StatementRollsBack ==
    /\ ConflictRollback
    /\ Working /\ InTransaction
    /\ statements < MaxStatements
    /\ statements' = statements + 1
    /\ failed' = [failed EXCEPT ![Depth] = TRUE]
    /\ Restored(saved[1])
    /\ saved' = <<>>
    /\ UNCHANGED <<phase, caller, impact, before, outside>>

-----------------------------------------------------------------------------
(* Savepoints of the command's database object. *)

Savepoint ==
    /\ Working
    /\ Depth <= MaxSavepoints
    /\ saved' = Append(saved, [level |-> Depth + 1, db |-> db, collector |-> collector,
                                effects |-> effects])
    /\ failed' = Append(failed, FALSE)
    /\ UNCHANGED <<db, collector, phase, caller, impact, before, effects, statements, outside>>

\* Fault: the savepoint is not released.
MutantReleased == saved
Released == Front(saved)

HasSavepoint == InTransaction /\ Last(saved).level = Depth

\* The guarded callback resolved and RELEASE succeeded.  Without an enclosing
\* transaction the release of the outermost savepoint commits.
Release ==
    /\ Working /\ Depth > 1
    /\ ~failed[Depth]
    /\ HasSavepoint
    /\ Len(saved) = 1 => Violations(db) = {}
    /\ saved' = Released
    /\ failed' = Front(failed)
    /\ UNCHANGED <<db, collector, phase, caller, impact, before, effects, statements, outside>>

\* The callback rejected, or its guard found a failed operation, or RELEASE
\* failed: ROLLBACK TO and RELEASE.  The parent's guard does not record it.
RollbackTo ==
    /\ Working /\ Depth > 1
    /\ failed' = Front(failed)
    /\ IF HasSavepoint
       THEN Restored(Last(saved)) /\ saved' = Front(saved)
       ELSE UNCHANGED <<db, collector, effects, saved>>
    /\ UNCHANGED <<phase, caller, impact, before, statements, outside>>

-----------------------------------------------------------------------------
(* The end of the command. *)

Undone == IF InTransaction THEN saved[1].db ELSE db

Rollback ==
    /\ db' = Undone
    /\ collector' = NoCollected
    /\ saved' = <<>> /\ failed' = <<>>
    /\ phase' = "rejected"
    /\ UNCHANGED <<caller, impact, before, effects, statements, outside>>

\* The callback rejects, or guarded.finish() reports a failed operation.
WorkFails ==
    /\ Working /\ Depth = 1
    /\ Rollback

Drained == ObservedFacts(collector)

\* The callback resolved: drain, clear, COMMIT, and only then the facts.
Commit ==
    /\ Working /\ Depth = 1
    /\ ~failed[1]
    /\ InTransaction
    /\ Violations(db) = {}
    /\ impact' = CalculateImpact(Snapshot(Add(NoWrites, Drained)), caller, Report)
    /\ collector' = NoCollected
    /\ saved' = <<>> /\ failed' = <<>>
    /\ phase' = "returned"
    /\ UNCHANGED <<db, caller, before, effects, statements, outside>>

\* COMMIT is refused: a deferred foreign key, or no transaction to commit.
CommitFails ==
    /\ Working /\ Depth = 1
    /\ ~failed[1]
    /\ ~InTransaction \/ Violations(db) # {}
    /\ Rollback

Next ==
    \/ OutsideWrite \/ Begin
    \/ Statement \/ StatementFails \/ StatementRollsBack
    \/ Savepoint \/ Release \/ RollbackTo
    \/ WorkFails \/ Commit \/ CommitFails

Spec == Init /\ [][Next]_vars

-----------------------------------------------------------------------------
(* Properties. *)

\* The database stays within its rows, and the connection never has more open
\* transactions and savepoints than the command has callbacks (dbFor, command).
TypeOK ==
    /\ \A r \in Resource : db[r] \subseteq Row[r] /\ before[r] \subseteq Row[r]
    /\ phase \in {"idle", "working", "returned", "rejected"}
    /\ Working = (failed # <<>>)
    /\ Depth \in 0 .. MaxSavepoints + 1 /\ Len(saved) <= Depth
    /\ collector.widened \subseteq Resource
    /\ effects \subseteq Resource

\* What the manifest must be for that: an answer depends on nothing but how many
\* rows show each combination of values in the columns of one of its reads, of
\* rows that the bindings, the filters and the scope of the read do not exclude.
AllCarried(resource, row) ==
    LET carried == Json({pair \in row : pair[2] \notin NonFinite})
    IN KnownRow(ScopeOf(resource, row), carried, carried)

Shown(read, row) == Restricted(row, ColumnsRead(read))

\* The values that no row which shows them is excluded for.
Relevant(read, input, scope) ==
    {shown \in {Shown(read, row) : row \in Row[read.resource]} :
        \A row \in Row[read.resource] :
            Shown(read, row) = shown =>
                MayBelong(AllCarried(read.resource, row), read, input, scope)}

Count(state, read, shown) ==
    Cardinality({row \in state[read.resource] : Shown(read, row) = shown})

ManifestCovers ==
    \A e \in Endpoint, input \in Input, scope \in Scope :
        LET reads == {read \in ToSet(Reads) : read.endpoint = e}
            relevant == [read \in reads |-> Relevant(read, input, scope)]
            counts(state) == [read \in reads |-> [shown \in relevant[read] |-> Count(state, read, shown)]]
            views == {<<counts(state), AnswerOf(e, input, scope, state)>> : state \in Databases}
        IN \A v, w \in views : v[1] = w[1] => v[2] = w[2]

\* The correctness oracle of semantics.md: an answer that differs between the
\* database before BEGIN and after COMMIT is reported for its input.
Oracle ==
    phase = "returned" =>
        \A e \in Endpoint, input \in Input :
            AnswerOf(e, input, caller, before) # AnswerOf(e, input, caller, db)
                => Reports(impact, e, input)

\* Writes that were rolled back to a savepoint, or that the connection made
\* outside the command, are never reported as effects of the command.
OnlyOwnEffectsReported ==
    phase = "returned" =>
        \A e \in Endpoint :
            (\E s \in Scopes : impact[e].targets[s] # {})
                => \E read \in ToSet(Reads) : read.endpoint = e /\ read.resource \in effects

\* While the transaction is open every row it has changed is in the collector,
\* as one side of a fact, or its resource is widened: savepoints take the
\* temporary tables back and forth with the business rows.
NothingUnobserved ==
    InTransaction /\ saved[1].level = 1 =>
        \A r \in Resource \ collector.widened :
            \A row \in (db[r] \ before[r]) \cup (before[r] \ db[r]) :
                \E i \in DOMAIN collector.rows :
                    /\ collector.rows[i].resource = r
                    /\ Observed(r, row) \in {collector.rows[i].before, collector.rows[i].after}

\* A command that rejects has changed nothing (endpoint-assessment.md, "SQL
\* failures roll back").
RejectedLeavesNoTrace == phase = "rejected" => db = before
=============================================================================
