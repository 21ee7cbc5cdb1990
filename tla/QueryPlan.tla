----------------------------- MODULE QueryPlan -----------------------------
(***************************************************************************)
(* Query plans (sdi-runtime, query/plan.ts and query/input.ts): what a     *)
(* registered plan reads, as compileManifest derives it once, and what it  *)
(* answers, as executePlan and the compiled SELECT compute it per request. *)
(* The two walk the same tree separately; that they agree is the           *)
(* foundation of every impact.                                             *)
(*                                                                         *)
(* A predicate is [op: "=", field, from: "input" | "literal", value],      *)
(* [op: "test", field, holds], a comparison with another operator given by *)
(* the scalars that satisfy it, [op: "is-null", field, holds], negated when*)
(* holds is FALSE, [op: "and" | "or", predicates] or [op: "not",           *)
(* predicate].  Application callbacks (parsers, mappers, tests) are        *)
(* functions on the finite set of inputs.                                  *)
(***************************************************************************)
EXTENDS Contracts, SequencesExt

CONSTANTS
    EndpointOrder,  \* the endpoints, in the order of their names
    Queries,        \* [Endpoint -> [plan, inputRelation, parse]]
    Columns,        \* [Resource -> SUBSET Column]
    DbAlike         \* {x, y}: distinct scalars the database's = identifies

\* The reference matcher is documented to cover the database's coercions.
ASSUME QueryPlanAssumption ==
    /\ DbAlike \subseteq Alike
    /\ ToSet(EndpointOrder) = Endpoint

-----------------------------------------------------------------------------
(* Dependencies of a SELECT. *)

RECURSIVE GuaranteedBindings(_), GuaranteedFilters(_), Fields(_)

\* Equalities with an input that hold of every row the predicate accepts.
GuaranteedBindings(p) ==
    CASE p.op = "=" -> IF p.from = "input" THEN {<<p.field, p.value>>} ELSE {}
      [] p.op \in {"test", "is-null", "not"} -> {}
      [] p.op = "and" -> UNION {GuaranteedBindings(q) : q \in p.predicates}
      [] p.op = "or" -> {b \in UNION {GuaranteedBindings(q) : q \in p.predicates} :
                            \A q \in p.predicates : b \in GuaranteedBindings(q)}

GuaranteedFilters(p) ==
    CASE p.op = "=" -> IF p.from = "literal" THEN {<<p.field, p.value>>} ELSE {}
      [] p.op \in {"test", "is-null", "not"} -> {}
      [] p.op = "and" -> UNION {GuaranteedFilters(q) : q \in p.predicates}
      [] p.op = "or" -> {f \in UNION {GuaranteedFilters(q) : q \in p.predicates} :
                            \A q \in p.predicates : f \in GuaranteedFilters(q)}

\* The columns an atomic predicate anywhere in the tree compares.
Fields(p) ==
    CASE p.op \in {"=", "test", "is-null"} -> {p.field}
      [] p.op = "not" -> Fields(p.predicate)
      [] p.op \in {"and", "or"} -> UNION {Fields(q) : q \in p.predicates}

Conjunction(where) == [op |-> "and", predicates |-> where]

\* A count ignores the projection, the order and the optional joins.
ReadOptions(select) ==
    IF select.result = "count"
    THEN [select EXCEPT !.columns = {}, !.order = {},
                        !.joins = SelectSeq(@, LAMBDA join : join.required)]
    ELSE select

RECURSIVE ReadSelect(_, _, _)

\* Bindings on a join's local column pass to the joined table's foreign column.
ReadSelect(select, inherited, foreign) ==
    LET options == ReadOptions(select)
        where == Conjunction(options.where)
        bindings == inherited \cup GuaranteedBindings(where)
        joins == ToSet(options.joins)
        read == [resource |-> options.resource,
                 columns |-> IF options.columns = Star THEN Star
                             ELSE options.columns \cup Fields(where) \cup options.order
                                    \cup {join.local : join \in joins} \cup foreign,
                 bindings |-> bindings,
                 filters |-> GuaranteedFilters(where)]
        joined(join) ==
            ReadSelect(join.select,
                       {<<join.foreign, b[2]>> : b \in {c \in bindings : c[1] = join.local}},
                       {join.foreign})
    IN <<read>> \o FlattenSeq([i \in DOMAIN options.joins |-> joined(options.joins[i])])

-----------------------------------------------------------------------------
(* Dependencies of a plan. *)

Unbound(reads) == [i \in DOMAIN reads |-> [reads[i] EXCEPT !.bindings = {}]]

RECURSIVE ReadsFor(_)
ReadsFor(plan) ==
    CASE plan.kind = "select" -> ReadSelect(plan.select, {}, {})
      [] plan.kind = "value" -> <<>>
      \* Arbitrary input mapping cannot be inverted.
      [] plan.kind = "call" ->
            LET reads == ReadsFor(Queries[plan.endpoint].plan)
            IN IF plan.input # Null \/ Queries[plan.endpoint].inputRelation = "opaque"
               THEN Unbound(reads) ELSE reads
      [] plan.kind = "bind" -> ReadsFor(plan.parent) \o Unbound(ReadsFor(plan.child))
      [] plan.kind = "map" -> ReadsFor(plan.source)
      [] plan.kind = "combine" ->
            FlattenSeq([i \in DOMAIN plan.children |-> ReadsFor(plan.children[i])])
      [] plan.kind = "when" -> ReadsFor(plan.yes) \o ReadsFor(plan.no)

EndpointReads(endpoint) ==
    LET query == Queries[endpoint]
        reads == ReadsFor(query.plan)
    IN IF query.inputRelation = "opaque" THEN Unbound(reads) ELSE reads

\* The flat manifest: the endpoints in order, each with its reads.
CompileManifest ==
    LET tagged(e) == [i \in DOMAIN EndpointReads(e) |-> [endpoint |-> e] @@ EndpointReads(e)[i]]
    IN FlattenSeq([n \in DOMAIN EndpointOrder |-> tagged(EndpointOrder[n])])

PreservedInputs(endpoint) ==
    {b[2] : b \in UNION {read.bindings : read \in ToSet(EndpointReads(endpoint))}}

-----------------------------------------------------------------------------
(* Execution of a SELECT: SQL with three-valued comparisons, over the rows *)
(* of the caller's scope.  db[resource] is a set of rows, rows are objects.*)

DbEqual(x, y) ==
    IF Null \in {x, y} THEN Null ELSE x = y \/ {x, y} \in DbAlike

RECURSIVE Truth(_, _, _)
Truth(p, row, input) ==
    CASE p.op = "=" -> DbEqual(ValueOf(row, p.field),
                               IF p.from = "input" THEN ValueOf(input, p.value) ELSE p.value)
      [] p.op = "test" -> IF ValueOf(row, p.field) = Null THEN Null
                          ELSE ValueOf(row, p.field) \in p.holds
      [] p.op = "is-null" -> (ValueOf(row, p.field) = Null) = p.holds
      [] p.op = "not" -> LET t == Truth(p.predicate, row, input)
                         IN IF t = Null THEN Null ELSE ~t
      [] p.op = "and" -> LET ts == {Truth(q, row, input) : q \in p.predicates}
                         IN IF FALSE \in ts THEN FALSE ELSE IF Null \in ts THEN Null ELSE TRUE
      [] p.op = "or" -> LET ts == {Truth(q, row, input) : q \in p.predicates}
                        IN IF TRUE \in ts THEN TRUE ELSE IF Null \in ts THEN Null ELSE FALSE

Visible(db, resource, scope) ==
    IF ScopeColumn[resource] = Null THEN db[resource]
    ELSE {row \in db[resource] : ValueOf(row, ScopeColumn[resource]) = scope}

\* A result is a bag; the ordering columns count as projected, because they
\* are what an order, a limit and an offset can show of a row.
AsBag(rows, Shown(_)) ==
    [answer \in {Shown(row) : row \in rows} |-> Cardinality({row \in rows : Shown(row) = answer})]

RECURSIVE SelectAnswer(_, _, _, _, _)

\* link restricts a joined SELECT to the rows that equal the parent's column.
SelectAnswer(select, link, input, scope, db) ==
    LET nested(join, row) ==
            SelectAnswer(join.select, {<<join.foreign, ValueOf(row, join.local)>>}, input, scope, db)
        selected == {row \in Visible(db, select.resource, scope) :
            /\ Truth(Conjunction(select.where), row, input) = TRUE
            /\ \A pair \in link : DbEqual(ValueOf(row, pair[1]), pair[2]) = TRUE
            /\ \A join \in ToSet(select.joins) : join.required => nested(join, row) # <<>>}
        shown(row) ==
            <<Restricted(row, (IF select.columns = Star THEN Columns[select.resource] ELSE select.columns)
                                 \cup select.order),
              [i \in DOMAIN select.joins |-> nested(select.joins[i], row)]>>
    IN IF select.result = "count" THEN Cardinality(selected) ELSE AsBag(selected, shown)

-----------------------------------------------------------------------------
(* Execution of a plan. *)

Rejected == "QUERY_INPUT_PRESERVATION_VIOLATION"

Preserved(raw, parsed, fields) == Restricted(raw, fields) = Restricted(parsed, fields)

RECURSIVE ExecutePlan(_, _, _, _, _)

\* required: the selector fields the path must still carry unchanged, or Null
\* once an ancestor has widened the path.
ExecutePlan(plan, input, required, scope, db) ==
    CASE plan.kind = "select" -> SelectAnswer(plan.select, {}, input, scope, db)
      [] plan.kind = "value" -> plan.value
      [] plan.kind = "call" ->
            LET query == Queries[plan.endpoint]
                raw == IF plan.input # Null THEN plan.input[input] ELSE input
                carries == plan.input = Null /\ query.inputRelation = "preserve" /\ required # Null
                fields == IF carries THEN required \cup PreservedInputs(plan.endpoint) ELSE Null
            IN IF carries /\ ~Preserved(raw, query.parse[raw], fields) THEN Rejected
               ELSE ExecutePlan(query.plan, query.parse[raw], fields, scope, db)
      [] plan.kind = "combine" ->
            [i \in DOMAIN plan.children |-> ExecutePlan(plan.children[i], input, required, scope, db)]
      [] plan.kind = "when" ->
            ExecutePlan(IF input \in plan.test THEN plan.yes ELSE plan.no, input, required, scope, db)
      [] plan.kind = "bind" ->
            LET data == ExecutePlan(plan.parent, input, required, scope, db)
                next == plan.next[IF DOMAIN data = {} THEN {} ELSE (CHOOSE answer \in DOMAIN data : TRUE)[1]]
            IN IF next = Null THEN <<>> ELSE ExecutePlan(plan.child, next, Null, scope, db)
      \* A projection callback shows no more than its source and its input.
      [] plan.kind = "map" -> <<input, ExecutePlan(plan.source, input, required, scope, db)>>

\* engine.query: the raw input is the cache key, SQL runs on the parsed one.
Answer(endpoint, raw, scope, db) ==
    LET query == Queries[endpoint]
        required == PreservedInputs(endpoint)
    IN IF ~Preserved(raw, query.parse[raw], required) THEN Rejected
       ELSE ExecutePlan(query.plan, query.parse[raw], required, scope, db)
=============================================================================
