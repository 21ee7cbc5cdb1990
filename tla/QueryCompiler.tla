--------------------------- MODULE QueryCompiler ---------------------------
(***************************************************************************)
(* The reads that a cached SQL query depends on (query-compiler.ts):       *)
(* relations it names directly, with the columns it looks at and the       *)
(* inputs that rows must equal, and whatever the catalog adds.             *)
(*                                                                         *)
(* A query is [select, parameters]: the input field of each parameter.     *)
(* cat.found are tables that another query of the same artifact, or an     *)
(* earlier relation of this one, has made resources.                       *)
(***************************************************************************)
EXTENDS CatalogResolver

\* The compiler's own walk over the tree agrees with sqlReferences.
QueryReferences(query) == SqlReferences(query.select)

DependsOnRow(id, columns, bindings) == [resource |-> id, columns |-> columns, bindings |-> bindings]

\* Resources are looked up by name, whatever the search path.
ByName(cat, resources, ref) ==
    {id \in resources : cat.rel[id].name = ref.name /\ ref.schema \in {"", cat.rel[id].schema}}
Known(cat) == cat.registered \cup cat.found

CommandOf(query) == IF LocksRows(query.select) THEN "select-for-update" ELSE "select"

\* What the catalog knows of a relation that the query names.
Looked(direct, resolved, policies, prune) ==
    [failed |-> resolved.failed \/ policies.failed \/ resolved.resources = {},
     resources |-> resolved.resources, direct |-> direct, policies |-> policies.reads, prune |-> prune]
LookUp(cat, ref, command) ==
    LET found == Found(cat, ref, cat.search)
        id == CHOOSE f \in found : TRUE
        direct == ByName(cat, Known(cat), ref)
    IN IF Cardinality(direct) > 1 \/ found = {}
       THEN Looked({}, Unresolved, NoReads, FALSE)
       ELSE Looked(direct, ResolveRelation(cat, id, command),
                   PolicyDependencies(cat, id, command, cat.role), CanPruneColumns(cat, id))
Catalog(cat, query) == [ref \in QueryReferences(query).relations |-> LookUp(cat, ref, CommandOf(query))]

Functions(cat, query) ==
    AllResources({ResolveFunction(cat, f) : f \in QueryReferences(query).functions})

-----------------------------------------------------------------------------
(* Bindings: what a row must equal to matter to this input. *)

Atomic(e) ==
    LET sides == Elements(e.args)
    IN IF {a.op : a \in sides} # {"column", "param"} THEN {}
       ELSE {[alias |-> a.alias, column |-> a.column, number |-> b.number] :
                a \in {s \in sides : s.op = "column"}, b \in {s \in sides : s.op = "param"}}

RECURSIVE Guaranteed(_)
OfAlternatives(a, b) == a \cap b
Guaranteed(e) ==
    CASE e.op = "and" -> Guaranteed(e.args[1]) \cup Guaranteed(e.args[2])
      [] e.op = "or" -> OfAlternatives(Guaranteed(e.args[1]), Guaranteed(e.args[2]))
      [] e.op = "=" -> Atomic(e)
      [] OTHER -> {}

\* A direct relation is [ref, id, alias].  An unqualified column must have one owner.
OwnersOf(cat, relations, alias, column) ==
    {r \in relations : alias \in {"", r.alias} /\ column \in cat.rel[r.id].columns}
BindingsOf(cat, parameters, relations, r, conditions) ==
    {[column |-> b.column, input |-> parameters[b.number]] :
        b \in {g \in conditions : OwnersOf(cat, relations, g.alias, g.column) = {r}}}

-----------------------------------------------------------------------------
(* Columns: only a query without nested queries shows which it looks at. *)

RECURSIVE ColumnsIn(_)
ColumnsIn(e) ==
    (IF e.op = "column" THEN {e} ELSE {}) \cup UNION {ColumnsIn(a) : a \in Elements(e.args)}
RECURSIVE HasSelect(_)
HasSelect(e) == e.op = "exists" \/ \E a \in Elements(e.args) : HasSelect(a)

ColumnsLookedAt(select) == UNION {ColumnsIn(e) : e \in Expressions(select)}
IsProof(cat, select, relations) ==
    /\ ~IsComplex(select) /\ ~select.using
    /\ \A e \in Expressions(select) : ~HasSelect(e)
    /\ \A c \in ColumnsLookedAt(select) : Cardinality(OwnersOf(cat, relations, c.alias, c.column)) = 1
LookedAt(cat, select, relations, r) ==
    {c.column : c \in {d \in ColumnsLookedAt(select) : OwnersOf(cat, relations, d.alias, d.column) = {r}}}

PolicyColumns(looked) == UNION {p.columns : p \in {q \in looked.policies : q.row = "same-row"}}

-----------------------------------------------------------------------------
\* What a relation of FROM reads besides its own rows; nothing there is bound.
IndirectReads(cat, looked) ==
    LET ofPolicies == {p.rel : p \in looked.policies}
    IN {DependsOnRow(id, WholeRow(cat, id), {}) : id \in looked.resources \ (looked.direct \cup ofPolicies)} \cup
       {DependsOnRow(p.rel, p.columns, {}) : p \in {q \in looked.policies : q.row = "all"}}

RECURSIVE Visit(_, _, _, _, _), Nested(_, _, _, _, _)

\* The direct reads of a SELECT, and those of every query inside it.
Visit(cat, catalog, parameters, select, inherited) ==
    LET ctes == inherited \cup CtesOf(select)
        listed == {f.ref : f \in FromRelations(select, ctes)}
        resources == Known(cat) \cup UNION {catalog[ref].resources : ref \in DOMAIN catalog}
        relations == {[ref |-> f.ref, alias |-> f.alias,
                       id |-> CHOOSE id \in ByName(cat, resources, f.ref) : TRUE] :
                         f \in {g \in FromRelations(select, ctes) : catalog[g.ref].direct # {}}}
        ambiguous == \E r \in relations : Cardinality(ByName(cat, resources, r.ref)) > 1
        conditions == Guaranteed(select.where)
        proof == IsProof(cat, select, relations)
        direct(r) ==
            LET looked == catalog[r.ref]
                columns == LookedAt(cat, select, relations, r) \cup PolicyColumns(looked)
            IN DependsOnRow(r.id, IF proof /\ looked.prune THEN columns ELSE WholeRow(cat, r.id),
                            BindingsOf(cat, parameters, relations, r, conditions))
        inside == {Visit(cat, catalog, parameters, select.with[i].query, inherited \cup CtesBefore(select, i)) :
                      i \in DOMAIN select.with} \cup
                  {Visit(cat, catalog, parameters, q, ctes) : q \in Elements(select.arms) \cup FromQueries(select)} \cup
                  {Nested(cat, catalog, parameters, e, ctes) : e \in Expressions(select)}
    IN [reads |-> {direct(r) : r \in relations} \cup UNION {IndirectReads(cat, catalog[ref]) : ref \in listed}
                  \cup UNION {v.reads : v \in inside},
        failed |-> ambiguous \/ \E v \in inside : v.failed]

Nested(cat, catalog, parameters, e, ctes) ==
    LET inside == {Nested(cat, catalog, parameters, a, ctes) : a \in Elements(e.args)} \cup
                  IF e.op = "exists" THEN {Visit(cat, catalog, parameters, e.query, ctes)} ELSE {}
    IN [reads |-> UNION {v.reads : v \in inside}, failed |-> \E v \in inside : v.failed]

\* Reads are alternatives: those of the same resource and bindings are one, but a
\* self-join's are not.  Fault: all reads of a resource are one.
MutantMerged(reads) ==
    {DependsOnRow(r.resource, UNION {s.columns : s \in {t \in reads : t.resource = r.resource}},
                  UNION {s.bindings : s \in {t \in reads : t.resource = r.resource}}) : r \in reads}
Merged(reads) ==
    {DependsOnRow(r.resource,
                  UNION {s.columns : s \in {t \in reads : t.resource = r.resource /\ t.bindings = r.bindings}},
                  r.bindings) : r \in reads}

\* From what the catalog and the walk of the query found.
Composed(cat, refs, catalog, functions, visited) ==
    LET reads == visited.reads \cup {DependsOnRow(id, WholeRow(cat, id), {}) : id \in functions.resources}
        unproven == functions.resources \cup UNION
            {{id \in catalog[ref].resources :
                \/ catalog[ref].direct = {}
                \/ id \notin catalog[ref].direct \cup {p.rel : p \in catalog[ref].policies}} : ref \in DOMAIN catalog}
        dependencies == UNION {catalog[ref].policies : ref \in DOMAIN catalog}
        proven == (UNION {catalog[ref].direct : ref \in DOMAIN catalog} \cup {p.rel : p \in dependencies}) \ unproven
        failed == \/ refs.unresolved \/ refs.nonRow
                  \/ \E ref \in DOMAIN catalog : catalog[ref].failed
                  \/ functions.failed \/ visited.failed \/ reads = {}
    IN IF failed THEN [failed |-> TRUE, reads |-> {}, dependencies |-> {}, proven |-> {}]
       ELSE [failed |-> FALSE, reads |-> Merged(reads), dependencies |-> dependencies, proven |-> proven]

CompileWith(cat, query, catalog) ==
    Composed(cat, QueryReferences(query), catalog, Functions(cat, query),
             Visit(cat, catalog, query.parameters, query.select, {}))
Compile(cat, query) == CompileWith(cat, query, Catalog(cat, query))
=============================================================================
