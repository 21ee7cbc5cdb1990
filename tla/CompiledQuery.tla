--------------------------- MODULE CompiledQuery ---------------------------
(***************************************************************************)
(* A cached SQL query from its compilation to its life in a server: the    *)
(* artifact is compiled against the catalog (artifact.ts), the process     *)
(* that serves it validates it at start (catalog.ts), and rows are then    *)
(* written.  Instead of an artifact the application may declare the reads  *)
(* of a query by hand; the validation is then all there is.                *)
(***************************************************************************)
EXTENDS QueryCompiler, RowSecurity

CONSTANTS
    Setting,    \* names of the situations to look at
    CatalogOf,  \* [Setting -> the catalog]
    QueryOf,    \* [Setting -> the query, and the reads declared for it, if any]
    UserOf,     \* [Setting -> the role that asks]
    Choices,    \* [tables -> [keys -> the rows that may be there, at most one]]
    Input       \* the values of the input fields

VARIABLES
    setting,
    plan,       \* what the server knows of the query
    db,         \* [tables -> set of [key, row]]
    clock,      \* what current_timestamp answers
    answer      \* what the query answers

vars == <<setting, plan, db, clock, answer>>

cat == CatalogOf[setting]
query == QueryOf[setting]
AnswerIn(data, now) ==
    LET values == [n \in DOMAIN query.parameters |-> Input[query.parameters[n]]]
    IN Answer(cat, data, query.select, <<>>, Session(cat, UserOf[setting], values, now))

NoPlan == [state |-> "none", reads |-> {}, dependencies |-> {}, proven |-> {}]

-----------------------------------------------------------------------------
(* Validation at start. *)

\* Bindings are not used by an artifact, nor are they by the validation of one.
Unbound(reads) == {[r EXCEPT !.bindings = {}] : r \in reads}

Covers(read, dependency) == dependency.columns \subseteq read.columns

Verified(reads, dependencies) ==
    \A d \in dependencies :
        LET candidates == {r \in reads : r.resource = d.rel}
        IN IF d.row = "all"
           THEN \E r \in candidates : r.bindings = {} /\ Covers(r, d)
           ELSE /\ candidates # {}
                /\ \/ \E r \in candidates : r.bindings = {} /\ Covers(r, d)
                   \/ \A r \in candidates : Covers(r, d)

\* The validator knows the resources of the artifact, but neither the role nor the
\* search path: what has no schema is looked for in public.
ValidatorCatalog(p) ==
    [cat EXCEPT !.nonRow = "ignore", !.discover = FALSE, !.role = "", !.search = <<"public">>,
                !.registered = @ \cup cat.found \cup {r.resource : r \in p.reads}
                               \cup {d.rel : d \in p.dependencies}]
Pending(p) == {id \in {r.resource : r \in p.reads} \ p.proven : cat.rel[id].rls}

Accepted(p) ==
    /\ Verified(p.reads, p.dependencies)
    /\ \A id \in Pending(p) :
          LET policies == PolicyDependencies(ValidatorCatalog(p), id, "select", "")
          IN ~policies.failed /\ Verified(p.reads, policies.reads)

-----------------------------------------------------------------------------
NoRows == [t \in DOMAIN Choices |-> {}]

Init ==
    /\ setting \in Setting
    /\ plan = NoPlan
    /\ db = NoRows
    /\ clock = 1
    /\ answer = AnswerIn(db, clock)

\* A query that cannot be resolved is executed without a cache.
\* Fault: it is built all the same, with the reads that could be resolved.
MutantArtifact(compiled) ==
    [state |-> "built", reads |-> compiled.reads, dependencies |-> compiled.dependencies,
     proven |-> compiled.proven]
Artifact(compiled) ==
    IF compiled.failed THEN [NoPlan EXCEPT !.state = "no-store"]
    ELSE [state |-> "built", reads |-> compiled.reads, dependencies |-> compiled.dependencies,
          proven |-> compiled.proven]

Build ==
    /\ plan.state = "none"
    /\ query.declared = {}
    /\ plan' = Artifact(Compile(cat, query))
    /\ UNCHANGED <<setting, db, clock, answer>>

Declare ==
    /\ plan.state = "none"
    /\ query.declared # {}
    /\ plan' = [NoPlan EXCEPT !.state = "declared", !.reads = query.declared]
    /\ UNCHANGED <<setting, db, clock, answer>>

\* The endpoint is unavailable if its reads do not cover what the policies read.
Start ==
    /\ plan.state \in {"built", "declared"}
    /\ LET checked == IF plan.state = "built" THEN [plan EXCEPT !.reads = Unbound(@)] ELSE plan
       IN plan' = [plan EXCEPT !.state = IF Accepted(checked) THEN "cached" ELSE "unavailable"]
    /\ UNCHANGED <<setting, db, clock, answer>>

\* A row is inserted, updated or deleted.
Write ==
    /\ plan.state = "cached"
    /\ clock = 1
    /\ \E t \in DOMAIN Choices : \E key \in DOMAIN Choices[t] : \E row \in Choices[t][key] \cup {<<>>} :
          db' = [db EXCEPT ![t] = {r \in @ : r.key # key} \cup
                                  (IF row = <<>> THEN {} ELSE {[key |-> key, row |-> row]})]
    /\ answer' = AnswerIn(db', clock)
    /\ UNCHANGED <<setting, plan, clock>>

\* Bound: time passes once, after the writes.
Tick ==
    /\ plan.state = "cached"
    /\ clock = 1 /\ clock' = 2
    /\ answer' = AnswerIn(db, clock')
    /\ UNCHANGED <<setting, plan, db>>

Next ==
    \/ Build \/ Declare \/ Start
    \/ Write \/ Tick

Spec == Init /\ [][Next]_vars

-----------------------------------------------------------------------------
(* Properties. *)

\* What the impact calculator tells of a write: a row appears, disappears, or has
\* another value in a column of the read, and it has, before or after, the values
\* that the bindings ask for.
Reports(read) ==
    LET old == db[read.resource] \ db'[read.resource]
        new == db'[read.resource] \ db[read.resource]
        touched(c) == c \in read.columns /\ \E o \in old, n \in new : o.row[c] # n.row[c]
    IN /\ \/ (old = {}) # (new = {})
          \/ \E r \in old : \E c \in DOMAIN r.row : touched(c)
       /\ \E r \in old \cup new : \A b \in read.bindings : r.row[b.column] = Input[b.input]

\* Every variable has its type, and only a query whose dependencies are known is
\* kept in a cache: each read is of a table, with columns that it has.
TypeOK ==
    /\ setting \in Setting
    /\ plan.state \in {"none", "built", "declared", "no-store", "cached", "unavailable"}
    /\ \A r \in plan.reads :
          /\ r.resource \in DOMAIN Choices
          /\ r.columns \subseteq WholeRow(cat, r.resource)
          /\ \A b \in r.bindings : b.column \in cat.rel[r.resource].columns /\ b.input \in DOMAIN Input
    /\ plan.state = "cached" => plan.reads # {}
    /\ clock \in {1, 2}

(* What the check at start, and the analysis behind it, cannot see. *)

\* What is read by the policies that the validation analyses.
PolicyReads(id, command, path) ==
    PolicyDependencies([ValidatorCatalog(plan) EXCEPT !.search = path], id, command, "")

\* They read something else on the path of the application than in public, where the
\* validator looks (catalog.ts:58): a function with a string body names a table.
OtherPath ==
    \E id \in Pending(plan) : PolicyReads(id, "select", cat.search) # PolicyReads(id, "select", <<"public">>)

\* The query locks rows, and the policies for UPDATE read more: the validator asks for
\* SELECT (catalog.ts:170), and so does the compiler below a view
\* (catalog-resolver.ts:242-246).
LocksUnseen ==
    /\ CommandOf(query) # "select"
    /\ \E id \in Pending(plan) :
          PolicyReads(id, "select-for-update", cat.search) # PolicyReads(id, "select", cat.search)

\* A policy of a table that is read names a definer's view in which a function or an
\* invoker's view runs with the rights of the user; the analysis takes those of the
\* owner (policy-analysis.ts:173).
MixesRights(rel) ==
    LET refs == SqlReferences(rel.body)
    IN /\ rel.kind = "v" /\ ~rel.invoker
       /\ refs.functions # {} \/ \E ref \in refs.relations, id \in DOMAIN cat.rel :
                                     id \in Found(cat, ref, cat.deparse) /\ cat.rel[id].invoker
RightsMixed ==
    \E read \in plan.reads : \E policy \in cat.rel[read.resource].policies :
        \E ref \in ExpressionReferences(policy.using, {}).relations :
            \E id \in Found(cat, ref, cat.deparse) : MixesRights(cat.rel[id])

\* A table that is not declared, with policies of its own, is met for the first time
\* after the compiler looked the resources up (query-compiler.ts:168): the artifact has
\* no read of its rows.
FirstMet ==
    \E r \in plan.reads \cup {DependsOnRow(d.rel, {}, {}) : d \in plan.dependencies} :
        r.resource \notin Known(cat) /\ cat.rel[r.resource].rls

\* The policies of one table read another with the rights of an owner whom the policies
\* of that one do not bind; the validator asks for those all the same (catalog.ts:162).
ReadAsOwner ==
    LET tables(id) == {r.rel : r \in PolicyReads(id, "select", <<"public">>).reads}
    IN \E one, other \in Pending(plan) : other \in tables(one) /\ ~(tables(other) \subseteq tables(one))

\* An answer of a query in the cache changes only with a write that its reads tell of,
\* through views, functions and policies: no binding, pruned column, hidden name or
\* role loses a change (query-compiler.ts:51, "Direct relations retain proven bindings.
\* A supplied catalog resolver expands views, functions, and RLS helpers
\* conservatively").  Three exceptions, where the code does lose changes, are named.
AnswersStayFresh ==
    [][plan.state = "cached" /\ (\A read \in plan.reads : ~Reports(read)) =>
          answer' = answer \/ OtherPath \/ LocksUnseen \/ RightsMixed]_vars

\* An artifact is not refused at start, in a process that does not know its role, by
\* the catalog it was compiled against, unless the names in its policies mean something
\* else to the validator, a table with policies was not declared, or the artifact needs
\* only what the owner of a view or function reads.
CompiledIsAccepted ==
    [][plan.state = "built" /\ plan'.state = "unavailable" => OtherPath \/ FirstMet \/ ReadAsOwner]_vars
=============================================================================
