# Verification of Server-Driven Impact

Server-Driven Impact (SDI) tells a client, after a command, which of its cached
queries may have changed: the response to a command carries an *impact set*,
for each endpoint the inputs whose answers are stale.  The promise is in
`spec/server-driven-impact/semantics.md:49`: *for every supported endpoint and
fixed input, if its result differs between pre-write and post-commit
snapshots, the committed ImpactSet must either mark that endpoint unavailable
or contain a target whose selector matches that input.*

This directory models the parts of the program on which that promise rests.
All paths below are relative to the repository; `sdi-core` and so on are under
`packages/`.

## 1. The system

| Part | State | Operations |
| --- | --- | --- |
| Calculator (`sdi-core/src/calculate.ts`, `contracts.ts`, `assessment.ts`) | none; per calculation the alternatives of each endpoint and scope | `calculate`, selector limit, `boundImpact`, `applyAssessment`, `unavailableImpact` |
| Write set (`sdi-core/src/write-set.ts`) | facts and summaries per resource, byte counts, closed | `add` (with compaction), `fork`, `merge`, `snapshot`, `close` |
| Query plans (`sdi-runtime/src/query`) | none | `compileManifest` (static reads), `executePlan`, `assertInputPreserved` |
| Command guard (`sdi-runtime/src/runtime/guard.ts`) | per scope: pending operations, failed, savepoint, open, iterators, child guards | every call of the guarded object, the four methods of its async iterators, `finish`, `close`, `settle` |
| SQLite adapter (`sdi-sqlite/src/sqlite/index.ts`) | temporary triggers and collector, cached key of installed observers, promise chain of the connection, pinned validation | `command`, `savepoint`, `validate`, `query` |
| PostgreSQL commands (`sdi-postgres/src/postgres/index.ts`, `tracked-db.ts`, `connection.ts`, `preamble.ts`) | reserved connection, transaction state, phase and token settings of the session | `command` (preamble, work, settle, constraints, drain, seal, COMMIT, release), `savepoint` |
| Transaction gate and migration (`transaction-gate.ts`, `migration.ts`) | a table lock: shared for commands, exclusive for migrations | `migratePostgresArtifacts` |
| Stored validation (`validation.ts`, `transaction-gate.ts`, `index.ts:192-244`) | the singleton row, the recorder's advisory lock; per process the live promise and the first decision | `validate`, first read of a command, `recordValidation`, owner's refresh |
| Compiled queries (`query-compiler.ts`, `catalog-resolver.ts`, `policy-analysis.ts`, `sql-references.ts`, `artifact.ts`, `catalog.ts`) | none but caches of one compilation; the artifact, and whether an endpoint may be cached | `compilePostgresArtifacts`, `validateCatalog` |
| PostgreSQL observers (`observer.ts`) | collector rows of the session | statement triggers for four operations, `rowsToFacts` |

**How they interact.**  A command runs the application's callback on a guarded
database object.  The database's triggers write one collector row for each
changed row (or a broad row at a limit); at the boundary the adapter drains the
collector, commits, adds the facts to the write set and calls the calculator
with the manifest's static reads and the assessment that validation gave to
each endpoint.  Savepoints fork and merge the write set for facts noted by the
client, while the collector follows the database's own savepoints.  In
PostgreSQL commands and migrations share the gate, and the validation row is
shared between processes.  SQL queries reach the manifest through an artifact:
the compiler asks the catalog resolver what each relation and function of a
query depends on, the resolver asks the policy analysis, and the server that
starts with the artifact asks again.

**What is hard.**  (1) Loss of precision at every limit must only widen: facts,
bytes, selectors, response size, collector.  (2) The static reads must cover
what execution reads, and captured values must compare as the database does.
(3) Operations that are not awaited, savepoints that overlap them, and deferred
triggers move writes across the boundary.  (4) COMMIT may be refused or its
answer lost.  (5) Two engines on one SQLite connection switch its triggers.
(6) DDL races with a validation that is read in pieces and recorded.
(7) What a SQL query reads hides behind views, functions and row-security
policies, each with names, rights and a search path of its own.
`PROJECT.json` lists each hazard at its line with the properties for it.

**What makes each part correct.**  The calculator and write set: whatever a fact
may affect stays reported, exactness is claimed only where it holds, limits are
kept, no values cross scopes.  Adapters: the promise above over real rows;
returned means durable, rejected means gone, nothing commits unseen, nothing
undone is reported.  Shared resources: clean connections, exclusive
transactions and migrations, settled calls.  Stored validation: a recorded
report describes the catalog of its hash and the row never goes back.  Compiled
queries: an answer that is cached changes only with writes its reads tell of,
and a sound artifact is not refused.

## 2. Modules

| Module | Models | State and actions |
| --- | --- | --- |
| `Contracts` | facts, rows, scalars, selectors, assessments | operators only |
| `Calculate` | `calculate.ts`, `assessment.ts` | operators only: from facts and a scope to an impact |
| `WriteSet` | `write-set.ts` | operators `Add`, `Fork`, `Merge`, `Snapshot` on a value |
| `WriteBuffer` | a write set through savepoints to its close | one buffer for each open savepoint; one action per operation |
| `QueryPlan` | `plan.ts` (static reads and execution), `input.ts`, SQLite's `select.ts` | operators only: `CompileManifest`, `Answer` |
| `SqliteCommand` | a SQLite command | database, collector, stack of transaction and savepoints, guard flags; one action per statement kind, savepoint operation and ending |
| `SqliteObservers` | engines sharing a connection | queue, installed triggers, cached key, pinned validations, progress of each call |
| `CommandGuard` | `guard.ts`: the tree of guards of one command | per call its kind, scope and progress, for an iterator whether it is counted down and the requests in its queue; per scope the guard's variables and the stage of its callback; one action per request and per way a call or a scope can go on |
| `CommandPromise` | nothing of the code: what a command promises | outcome, what is stored, what is told, settled; five actions |
| `PostgresCommand` | commands, pool, gate, migration | per command a program counter and guard frames; per connection a server session |
| `StoredValidation` | the validation row and its readers and recorders | catalog version, row, lock, per process live promise and decision, per call its progress |
| `PostgresObserver` | statement triggers and the conversion to facts | tables, collector, drained impact |
| `SqlReferences` | `sql-references.ts` and the walk of the compiler, on trees | operators only |
| `PolicyAnalysis`, `CatalogResolver`, `QueryCompiler` | the files of those names | operators only: `Analyze`, `ResolveRelation`, `ResolveFunction`, `Compile`, each with the error that ends it as `failed` |
| `RowSecurity` | external: how PostgreSQL answers a query under row security | operator `Answer` |
| `CompiledQuery` | an artifact from its compilation through the check at start to the writes of a serving system | what the server knows of the query, rows, clock, answer; `Build`, `Declare`, `Start`, `Write`, `Tick` |

`Calculate` and `WriteSet` are shared: `WriteBuffer`, `SqliteCommand` and
`PostgresObserver` all end in `CalculateImpact(Snapshot(...))`.  `QueryPlan` gives
the two adapters' instances their manifest (`Reads <- CompileManifest`) and the
oracle its answers (`AnswerOf <- Answer`): the plan a query *executes* and the
reads it was *compiled* to are translated separately from the source and meet
only in the property `Oracle`.  `MC...` modules hold instances, `..._proofs`
modules the theorems about the module of that name, and `ImpactLemmas` what
several of them need about folds, write set and calculator (section 4).

`PostgresCommand` abstracts a statement to the table it writes and keeps every
failure and interleaving; `PostgresObserver` abstracts the protocol to begin,
statements, commit and keeps rows.  They divide one command between them, for
their product would not be checkable: the first shows that what triggers wrote
is exactly what is drained, the second that what is drained is enough.  In the
same way `CommandGuard` has every path of a call through `guard.ts`, with
savepoints in savepoints, with iterators that are asked again while they answer
or thrown into before they were pulled, and no database, while `PostgresCommand`
and `SqliteCommand` use the guard for operations alone.

**Refinement.**  `CommandPromise` says what a caller may rely on: a command takes
effect at one moment or never, it then settles, and a command that returns tells
of exactly the resources that it stored.  `PostgresCommand` instantiates it with
`stored` as the durable writes of the command, `told` as its facts and
unavailable resources, and `settled` as the end of its steps; `outcome` is its
own.  The property `ImplementsPromise` is the whole specification, fairness
included: savepoints, deferred triggers, the drain, the seal and the retries of
the boundary are stutters, COMMIT is the one moment.

**Compiled queries.**  A query, a view, a function body and a policy are trees of
the same form, once as PostgreSQL evaluates them (`RowSecurity`: names found as
the session finds them, stored definitions bound to objects, rights of owners
and callers, permissive and restrictive policies) and once as the compiler sees
them (stored definitions *printed* for the connection that reads them, and
resolved again by name).  The two meet in `AnswersStayFresh`, where `Reports`
says for which rows the calculator tells of a write.

Operators named `Mutant...` after a comment `Fault:` are faulty versions of the
definition that follows.  No specification uses them; each was substituted for
its definition to see that the properties notice.

### Abstractions to know of

- Scalars are tokens; `Alike` is the calculator's folding (`scalarMayEqual`),
  `DbAlike` the database's own equality.  Comparisons other than `=`, `in` and
  `is null` do not become filters in the code and are left out.  So are order,
  limit, offset and output names, which no dependency uses.
- Byte lengths are replaced by a size that grows with what a fact holds.
- A SQLite trigger's row image is a set of column-value pairs; values JSON cannot
  carry (`NonFinite`) make the row unknown as `parseState` does.
- `PostgresCommand`: a `FollowUp` table is written by a deferred trigger, and
  `Caught` are writers whose trigger catches its own error, so that the seal's
  exception does not abort COMMIT but undoes the write.
- `StoredValidation`: the catalog is a version and its hash that version.  A
  report is the pair of versions its two halves were read at.  Functions that
  read through a syscache are taken as reads in the transaction's view; errors
  of the hash functions are part of `RecordFails`; a migration that takes the
  gate appears as DDL followed by the owner's refresh.
- `CommandGuard`: one guard tree, so one command; an operation is anything that
  returns a promise, and a synchronous method of SQLite is `ThrowsAtOnce` or no
  step at all.  An iterator is an async generator of the driver: it answers
  requests in the order in which they came, and one that did not begin ends
  without work when it is returned or thrown into.  Its clean-up may fail; the
  driver answers every call.
- `SqlReferences` and the modules on it: expressions are columns, parameters,
  constants, `=`, `and`, `or`, `not`, `exists`, calls of one argument and session
  values; joins are items of FROM with a condition; a function of SQL returns
  whether its query has a row.  Tables are global, so the refusals for tables
  with a scope (`catalog.ts:71`) do not occur.  A policy that cannot be analysed
  at start fails the validation as a whole; here it makes the one endpoint
  unavailable.
- `PostgresObserver`: foreign-key cascades arrive as statements of their own;
  partitions are not told apart; `Certified` stands both for the built-in types
  of `observer.ts:67-75` and for `equalityResources` of `index.ts:405-408`.

## 3. Runs

`CHECK_DEADLOCK FALSE` throughout: a behaviour ends when its commands have.

| Run | Shows | Bounds |
| --- | --- | --- |
| `MCWriteBuffer` | coverage, exactness and scope privacy of write set and calculator when every limit is exceeded, for facts in any order and any savepoint; no addition, release or rollback narrows what the facts of a buffer that stays open may affect | 2 resources, 3 endpoints, 8 facts, 2 scopes, 3 inputs; 3 additions, 1 savepoint; limits so small (2 selectors, 2 facts, size 19, response 9) that each is exceeded |
| `MCSqlite` | `Oracle` and the collector through savepoints, cascades, conflicts and writes outside the command | 2 tables with a deferred cascading foreign key, 10 endpoints (one per plan shape: scope, bindings, filters, or/not, joins, dependent steps), values alike under NOCASE; 2 statements, 1 savepoint, 1 outside write |
| `MCSqliteObservers` | own triggers where every table exists, exclusive transactions, settled calls | 2 engines that share one of 3 tables, none of them missing, 4 calls |
| `MCPostgres` | the promise of `CommandPromise`, durability, rejection, clean pool, exclusive migration, every command with a connection settles, a waiting migration runs | 2 commands and a migration on 1 connection, 4 tables in a chain of two deferred triggers, the last of which catches its own error, and a materialized view, 3 statements, 1 savepoint, discard possible |
| `MCCommandGuard` | settled scopes are quiet, one scope at a time is on the connection, a scope that passes left nothing failed or open, callbacks settle | 3 calls, each an operation, a savepoint or an iterator, in any scope; 2 unanswered `next`, `return` or `throw` of the application besides the `return` of `settle` |
| `MCCompiledQuery` | fresh answers, sound artifacts accepted, but for five named exceptions, each of which occurs (below) | 26 queries (bindings, alternatives, self-joins, correlation, joins, both kinds of views, CTEs that hide a table, functions of both modes, locking of tables and of a view, set operations, names without schema, reads declared by hand), 9 policy sets for one table and 2 for two others, 3 pairs of roles, 2 search paths; at most two rows in a table |
| `MCStoredValidation` | exact and advancing row, current gate, one recorder, failures forgotten, calls settle | a command and a `validate()` of a REPEATABLE READ process, an owner's refresh under READ COMMITTED, 2 catalog versions |
| `MCPostgresObserver` | `Oracle` and coverage for rows of any three statements | 2 tables (one without primary key), 4 endpoints, key changes, upserts, truncation, values that JSON makes objects; batches from 3 rows on, 2 collector rows |

`ManifestCovers`, on which the proofs of `Oracle` rest, is an `ASSUME` of `MCSqlite`
and `MCPostgresObserver`: TLC evaluates it for the manifest that the plans compile
to.  It holds of both instances and, as it must, not of the one of
`MCPostgresObserverTemporal`.

Why this is enough: each limit is reached with one fact more than it admits, so
two facts fill it and a third one overflows; a savepoint inside a transaction is
the whole of the nesting rule, as each level sees only its parent; two commands
on one connection make a reuse of the connection after every ending; two
versions of a catalog give every order of a change and the reads around it.  One
artifact is enough for the stored row's own rules; a second one only overwrites
it, and the theorems hold for any number.  Three calls are a savepoint, an
iterator in it and an operation beside either; an iterator is counted twice only
if something comes behind the answer that ended it, and two requests are that.  A query's answer depends on whether
some row matches, so one row that does and one that does not are the cases of
each table; combinations come from the settings.

The remaining runs each exhibit a disagreement, with one property taken from a
document or comment of the repository:

| Run | Disagreement |
| --- | --- |
| `MCSqliteConflict` | `INSERT OR ROLLBACK` inside a command ends its transaction; when the callback catches the error, its later statements autocommit and remain although the command rejects |
| `MCPostgresPipe` | `EPIPE` has the shape of an SQLSTATE, and a commit lost to it is taken for one the server refused |
| `MCStoredValidationDdl` | under REPEATABLE READ a process that begins after DDL may still accept, or record, a report from before it |
| `MCPostgresObserverTemporal` | an input bound to a `timestamptz` column is compared with the rendering of `to_jsonb` and missed |

Four further points were met and are not runs.  The *impact* of a growing write
set may narrow: with two resources on one target, compacting one of them to a
summary can bring the target's alternatives back under the selector limit, so
that a selector that was widened to `all` is not any more.  Nothing is lost, as
each fact stays covered; `CoverageGrows` is therefore a property of the facts.  When a table of the second
engine is missing, installing its observers fails after the old triggers were
dropped (`sqlite/index.ts:207-208`), the cached key still names the first engine,
and its next command runs unobserved (`sqlite/index.ts:372`): give `Missing` the
value `{"logs"}` in `MCSqliteObservers` and `OwnObservers` fails.  `json_object`
renders a REAL with 15 significant digits in SQLite versions up to at least
3.40 (`sqlite/index.ts:204`), so two stored values may be captured alike; the
instance has no REAL column.  And `validate()` that accepts a stored row leaves
an older live report in `liveValidation` (`postgres/index.ts:196`); if another
artifact then replaces the row, the next command uses that older report
although `README.md:239` says that it uses the snapshot `validate()` returned.

### Limits of compiled queries

The properties of `CompiledQuery` hold but for five exceptions.  Each is a
predicate with the code's reason, each occurs in the instance, and without it its
property fails there.  Three are exceptions of `AnswersStayFresh`: the endpoint
is cached, and a change of its answer is lost.

- `OtherPath`: `catalog.ts:58` makes the validator's resolver without the search
  path of the application, so that it looks in `public`
  (`catalog-resolver.ts:78`, `policy-analysis.ts:50`).  A policy calls a function
  with a string body that names `grants`: the session reads `app.grants`, the
  validator finds `public.grants`, and if reads declared by hand have the latter
  it accepts them (query `decoyed`, policies `may` and `owners`).
- `LocksUnseen`: the validator asks for the policies of `select` alone
  (`catalog.ts:170`), and so does the compiler below a view
  (`catalog-resolver.ts:242-246`); `SELECT ... FROM view FOR UPDATE` is also
  under the policies for UPDATE (query `listedLocked`, policies `update`).
- `RightsMixed`: functions called in a definer's view, and invoker views nested
  in it, run as the user who asks; in a *policy* they are analysed with the rights
  of the view's owner (`policy-analysis.ts:169-176`) (policies `vetted`).

Three are exceptions of `CompiledIsAccepted`: a sound artifact is refused, so that
its endpoint is unavailable, which is safe.

- `OtherPath` again, for a table with policies below a view (query `listed`): the
  table is analysed at start, in `public`, where nothing that is declared is found.
- `ReadAsOwner`: a policy reads a table through a view or function whose owner the
  policies of that table do not bind.  The compiler rightly leaves those out; the
  validator asks for them, as it does for each table in the reads
  (`catalog.ts:160-167`), and finds tables that the reads do not have.
- `FirstMet`: a table that is not declared, has row security of its own, and is
  met for the first time: `query-compiler.ts:168-176` looked it up before the
  resolver made it a resource, so that its own read is left out (223-233).

They are named in the properties rather than left out of the instance, so that
the property is known to hold everywhere else.  A function or view whose own body locks rows,
and a view that a policy reaches only through another, are not in the instance.

### Fairness

- `CommandGuard`: weak fairness of what the driver and the guard do next, and of
  the end of callbacks.  Nothing makes the application pull, return or await.
- `CompiledQuery` states no fairness: its properties are about single steps.
- `SqliteObservers`, `StoredValidation`: weak fairness of each call's own
  progress: the event loop runs settled promises and drivers settle their calls.
  Nothing makes the application start a call.
- `PostgresCommand`: weak fairness of driver and server steps and of the end of
  callbacks and savepoints.  `Enter`, the shared lock of the gate, has strong
  fairness: PostgreSQL's lock queue is first in, first out, so that a waiting
  command is not overtaken by migrations forever.  Weak fairness of `LockGate`
  suffices for migrations, since a requested exclusive lock keeps later commands
  out.  Reserving a connection has no fairness: a pool may refuse.  Commands may
  keep issuing statements only up to the bound; that callbacks end is assumed.

## 4. Proofs

The theorems hold for every value of the constants that satisfies the named
`ASSUME` of each module (typing of tables, rows, engines and maps; limits that are
natural numbers, reads with finitely many bindings, and for the write set that all
resources summarized at once still fit).  `FactsAreWhole` of `WriteBuffer` says what
collectors guarantee of facts: an object has a key once, and an update that lists
columns lists one at least and has both rows, because SQLite's trigger fires only
when a column differs (`sqlite/index.ts:251`) and PostgreSQL's joins the two rows
and keeps those that differ (`observer.ts:171-174`).  TLC evaluates these in the
runs.  A theorem that needs more says so in its own `ASSUME`, listed here under "if".

| Theorem | Says |
| --- | --- |
| **`ImpactLemmas`** | |
| `CalculationSources` | for any facts, manifest, limits and report, a target has alternatives only if a fact concerns its endpoint, and at a verified endpoint each alternative is that of a row of a fact that certainly matters |
| `CalculationCovers` | for any facts, manifest, limits and report, the impact reports every input that one of the facts may affect, and caller selectors hold only values of rows of the caller's scope |
| **`WriteBuffer_proofs`** | |
| `Invariance`, `TypeCorrect` | types; each accepted fact is held by one at least as wide |
| `CoverageIsKept` | whatever was compacted, merged, widened or cut to the budget, no affected input is missed |
| `ForeignValuesStayOut` | no value of another scope's row reaches a caller's selector |
| `VerifiedMeansExact` | an endpoint still called verified is reported for no input that the accepted facts cannot affect |
| `CoverageOnlyGrows` | a step narrows nothing that a buffer's facts may affect |
| **`SqliteCommand_proofs`** | |
| `Invariance`, `TypeCorrect` | types; saved states lie in the order of the callbacks |
| `EveryChangeIsObserved` | every row changed since BEGIN is in the collector or its resource is widened |
| `OwnEffectsAreReported` | an endpoint with targets reads a resource that the command itself changed |
| `RejectionLeavesNoTrace` | if no statement ends the transaction itself, a rejected command leaves the database as it was (otherwise: `MCSqliteConflict`) |
| `ChangedAnswersAreReported` | if `ManifestCovers`, every answer that a command changed is reported for its input |
| **`PostgresObserver_proofs`** | |
| `Invariance`, `TypeCorrect` | types; each trigger's facts tell of the change its statement made |
| `EveryChangeIsObserved` | every row changed by the command is in the collector or its resource is broad |
| `NoStatementIsRefused` | the collector's limits never make a statement fail |
| `ChangedAnswersAreReported` | if `ManifestCovers`, every answer that a command changed is reported for its input |
| **`SqliteObservers_proofs`** | |
| `TypeCorrect`, `TransactionsNeverOverlap` | types; one call at a time has the connection |
| `CommandsHaveOwnObservers` | if no table is missing, a running command has its own triggers (otherwise false, see section 3) |
| **`CommandGuard_proofs`** | |
| `GuardInvariance`, `TypeCorrect` | types; unsettled scopes form one path |
| `SettledIsQuiet` | nothing started in or inside a settled scope is on the connection |
| `ConnectionServesOneScope` | statements of two scopes are never on the connection together |
| `PassingMeansDone` | a scope that passed has nothing unsettled, and no error that a savepoint did not undo |
| **`PostgresCommand_proofs`** | |
| `Invariance`, `TypeCorrect` | types; who holds which connection at which step |
| `PooledConnectionsAreClean` | a free connection has no transaction and nothing pending |
| `MigrationsRunAlone` | a migration overlaps no command |
| `RejectionLeavesNothing` | if lost connections carry codes the adapter tells from rejections (`CodesAreTold`), a rejected command left nothing durable (otherwise: `MCPostgresPipe`) |
| `ReportsInvariance` | at every step, what a command told of its writes is what server and collector say of them |
| `ReturnedWorkIsDurable` | a command that returned an impact has committed its writes |
| `CommandsKeepTheirPromise` | if `CodesAreTold` and `ViewsAreNoted`, each step of `PostgresCommand` is a step of `CommandPromise` or a stutter |
| **`StoredValidation_proofs`** | |
| `Invariance`, `TypeCorrect` | types; hash-before ≤ reads ≤ now |
| `RecordedReportsAreExact` | a recorded report is of the catalog of its hash |
| `RecordersExclude`, `RecordedRowAdvances` | one recorder; the row never goes back |
| `ServingInvariance`, `GatedSnapshotsAreCurrent` | a stored snapshot that passed the gate describes in both parts the catalog that its transaction saw |
| `FailedValidationsAreForgotten` | a live validation that failed is never what later commands share |

**WriteBuffer.**  A fact is *wider* than another of its resource when it names no more
precise an operation or set of changed columns, and each of its rows is unknown,
or known with the same scope and no further constraints, or stands for a row
that is absent.  A wider fact
may affect whatever the narrower one may; `CommonRow` and every trim widen; so
does a summary.  `Push`, compaction, `Reclaim` and `Merge` each *keep*: a fact
held by the set before has a wider one in the set after.  The invariant says that
of every accepted fact and its buffer, that entries are made of rows that were
seen, and that buffers nest within the savepoints.  The calculator half goes
through its folds: `AddAlternative` admits the inputs that it admitted before and
those of the new alternative, widening past the selector limit or the response
budget only adds to them, and the pairs of a caller's target come from seen rows
of the scope.  The invariant was first checked by TLC on the instance.

*Exactness* is the other direction, and wider is the wrong order for it: a summary
takes constraints away.  `Exact(given)` is the set of facts that claim nothing but
what was given: what one says of a known row is true of a row given for the same
operation, and if it lists columns there is such a row for each of them.  The set
is closed under summaries (`ExactIsClosed`: a constraint is kept only if all the
rows have it, a list of columns is a union, and trimming gives lists up as a
whole), hence a buffer stays within the `Exact` of its facts through additions,
merges and compaction.  The calculator half is `CalculationSources`: what adds an
alternative without marking its endpoint as reduced is one row of one fact with
every column that the read uses.  `ExactAffects` joins the two: an input that
this alternative selects is one that a given fact may affect.

**SqliteCommand.**  `NothingUnobserved` holds because each trigger run adds the row
it saw, and because rows and collector are saved and restored together.  Hence
`Seen` is required of the current state and of every saved one as long as the
command's own BEGIN is open.  Beside it `Own` says the converse, for
`OwnEffectsAreReported`: what the collector has rows for, or has widened, is among
the resources that the transaction changed.  The collector's limit, its widening and the cascade
of a delete are folds; a lemma each says what a step of them keeps.

**The oracle.**  `Oracle` speaks of answers, and what an answer is depends on a plan.
`ManifestCovers` says what the manifest owes the plans: of each state an answer
uses only, for each read of its endpoint, how many rows show each combination of
values in the columns of the read, and only of the combinations that scope,
filters and bindings do not exclude for the input.  That a compiled manifest has
this property is checked on the instances; it is all that is assumed.  The rest
is proved of the code: an answer that changed has a read and a combination whose
count changed (`CountsDiffer`); observers leave a fact that tells so (`Counted` in
both modules: the row that gained or lost the combination is a side of a fact
whose changed columns the read has, or the resource is broad); the write set
keeps a wider fact through every compaction; and the calculator reports whatever
a fact may affect.  The chain is proved for every trigger limit, byte budget,
selector limit and response budget.

**PostgresObserver.**  A statement's trigger sees its transition tables and not the
rows' histories.  `Sees` says that the rows that a statement changed are sides of
facts, `Counted` that the counts that it changed are told by facts; both chain
over the statements of a command, because a count that no fact tells of is the
same in every state between.  An update with the primary key unchanged pairs rows
by key, so that its facts may be read one at a time; with a key changed, old and
new rows are told of separately, and a batch past the limit becomes one fact that
says no more of its rows than they share.  Every later loss, at the collector's
row and byte limits, is a broad fact in place of others of the same resource
(`Upholds`).  `NoStatementIsRefused` counts: when no
resource has more than a broad fact's size left, all of them fit, and each round
of widening settles one resource more.

**ImpactLemmas.**  The provers cannot instantiate an induction principle that takes
a predicate, and `FoldLeft` is defined by a recursion over sets of indices.  The
module states induction for *sets* of numbers, proves that a recursion of this
shape has a solution, and walks it from the first element on; the proofs about
write set, calculator and collector then use plain step tables.  Beside folds the
module has sums over finite sets (the response budget), where the alternatives of
a calculation come from (`CalculationSources`), and which facts a write set can
come to hold: if a set of facts is closed under summaries and every fact added is
in it, so is every fact held (`AddWithin`).

**CommandGuard.**  `pending` alone does not tell which calls are open in which
scope.  The invariant says that the
scopes that have not settled form one path from the root, that an open savepoint
is the only unsettled call of its scope, and that `pending` is at every time the
number of calls that were not counted down.  Until a scope returns its iterators
those are its unsettled calls, which is what `TypeOK` says; only an iterator that
`settle` itself returned ends without being counted.

**PostgresCommand.**  Its properties are not inductive: a pooled connection is
clean because the command that releases it ended its transaction and settled its
operations.  `Inv` adds who holds which connection at which step
(`HoldsConnection`), that operations are pending only while a callback works or
settles (`PendingInWork`) and which server states each step allows
(`SessionFits`).  A step touches one command and its session, so a lemma reduces
every action to "the stepping command fits again, others are kept".  Rejection
adds `DurableAfterCommit`: only a COMMIT makes writes durable, and the step that
follows its failure is "unknown" unless the code told a rejection.

`Reports` follows the writes of a command from statements
through savepoints, released or rolled back in client and server, to collector,
drained rows and commit (`Covers`, `Drained`, `Told`).  The refinement takes each
action in turn: all are stutters of the promise but COMMIT and the steps that
decide an outcome.  `ViewsAreNoted` excludes deferred triggers that refresh a
registered view: a view has no trigger (`observer.ts:18`), and only
`refreshMaterializedView` notes one.

**StoredValidation.**  The catalog only advances.  If the hash before and after a
validation is the same version, every read between them saw that version:
`CallFits` keeps, for each step, the order hash-before ≤ catalog read ≤ observer
read ≤ now, and the recorder's comparison closes the interval.  `RowAdvances`
follows from the same invariant and the serialization error that PostgreSQL
raises when a transaction updates a row changed since its view.  `Serves` adds
what calls were given: a snapshot is taken after the read it rests on, a stored
snapshot that passed the gate is of the version that its transaction saw, and
the live validation of an adapter is one of its own that did not fail.

**SqliteObservers.**  The cached key, the installed triggers and the running call
are related by one invariant: whenever a command of an engine runs, the key is
its engine's and the triggers are those of the key.

### What stays with TLC

- Liveness: `CommandsSettle` and `MigrationProceeds` of `PostgresCommand` and the
  fairness that `ImplementsPromise` asks of a decided command, `CallbacksSettle`
  of `CommandGuard`, `EveryCallSettles` of `SqliteObservers`, `CallsSettle` of
  `StoredValidation`.  They need ENABLED, which is out of reach of the prover.
- `QueryPlan` and the modules of compiled queries compute on trees with recursive
  operators, which the prover does not take.  With them stay everything of
  `CompiledQuery`, and of `Oracle` that a compiled manifest satisfies
  `ManifestCovers`, an assumption that TLC evaluates on the instances.

Every other invariant and action property of the passing runs is stated by a
theorem of the table.

## 5. Not modelled

- Read transactions of queries in PostgreSQL, `setup`'s raw session, a ROLLBACK
  that fails while the connection is up.
- Of compiled queries: table functions, recursive CTEs, casts, qualified operators
  and types (all of which the code refuses or widens), partitions and foreign
  tables, drift of declared resources, the catalog fingerprint.
- Rendering of SQL and JSON, tagging and screening of statements, resource checks,
  debug output: text and parsing without state.
- Driver adapters: modelled by what the PostgreSQL adapter relies on, and the cursor
  of `pg` by the iterator of `CommandGuard`.
- Examples and scripts.

## 6. Plan

1. Done: the modules above, in the order of the table in section 2, and the
   proofs of section 4.
2. Proofs: `ManifestCovers` for plans of bounded depth, with `QueryPlan` written
   by folds instead of recursion.
3. `CommandPromise` for `SqliteCommand` without conflict clauses.
4. Query read transactions with the transaction gate; a second collation in
   `QueryPlan`.
