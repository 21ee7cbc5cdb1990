--------------------------- MODULE PolicyAnalysis ---------------------------
(***************************************************************************)
(* What a query reads through the row-security policies of a relation      *)
(* (policy-analysis.ts): the tables and columns of the policy expressions, *)
(* of the views and functions they use, and of the policies of those.      *)
(*                                                                         *)
(* A catalog is a record: rel and fn give relations and functions by       *)
(* identity, roles their rights, search the search path of the             *)
(* application, deparse that of the connection that prints stored          *)
(* definitions.  role "" is a role that was not given.  The source's "*"   *)
(* is the set of all columns, with "*" as a column of its own.  Every      *)
(* error ends the analysis, and is failed here.                            *)
(***************************************************************************)
EXTENDS SqlReferences

WholeRow(cat, id) == cat.rel[id].columns \cup {"*"}

\* PostgreSQL prints a stored name with its schema unless it is the first of its
\* name on the path of the connection.
PositionIn(path, schema) == CHOOSE i \in DOMAIN path : path[i] = schema
FirstOn(path, objects, ids) ==
    CHOOSE id \in ids : \A other \in ids :
        PositionIn(path, objects[id].schema) <= PositionIn(path, objects[other].schema)
OnPath(objects, name, path) ==
    {id \in DOMAIN objects : objects[id].name = name /\ objects[id].schema \in Elements(path)}
Printed(cat, objects, ref) ==
    IF ref.schema # "bound" THEN ref
    ELSE LET object == objects[ref.name]
             visible == OnPath(objects, object.name, cat.deparse)
         IN IF ref.name \in visible /\ FirstOn(cat.deparse, objects, visible) = ref.name
            THEN Named("", object.name) ELSE Named(object.schema, object.name)

\* The relations a reference can mean on a search path; all but the first are hidden.
Found(cat, ref, search) ==
    LET printed == Printed(cat, cat.rel, ref)
    IN IF printed.schema # ""
       THEN {id \in DOMAIN cat.rel : cat.rel[id].schema = printed.schema /\ cat.rel[id].name = printed.name}
       ELSE LET ids == OnPath(cat.rel, printed.name, search)
            IN IF ids = {} THEN {} ELSE {FirstOn(search, cat.rel, ids)}

\* Every overload and every schema on the path is a candidate.
Candidates(cat, ref, arguments, search) ==
    LET printed == Printed(cat, cat.fn, ref)
    IN {f \in DOMAIN cat.fn :
           /\ cat.fn[f].name = printed.name /\ cat.fn[f].arity = arguments
           /\ IF printed.schema # "" THEN cat.fn[f].schema = printed.schema
              ELSE cat.fn[f].schema \in {"pg_catalog"} \cup Elements(search)}

\* Superusers and BYPASSRLS; and the owner, unless row security is forced.
Bypasses(cat, role, id) ==
    /\ role # ""
    /\ \/ cat.roles[role].bypass
       \/ ~cat.rel[id].force /\ cat.rel[id].owner \in cat.roles[role].member

AppliesTo(cat, policy, role) ==
    role = "" \/ "public" \in policy.roles \/ policy.roles \cap cat.roles[role].member # {}
Concerns(policy, command) == policy.cmd \in {"r", "*"} \/ (command # "select" /\ policy.cmd = "w")

-----------------------------------------------------------------------------
\* What a part of a tree reads: rows of relations, and the columns seen of the
\* FROM items in scope, each as <<its scope, its position there, column>>.
Nothing == [reads |-> {}, seen |-> {}, failed |-> FALSE]
Failed == [Nothing EXCEPT !.failed = TRUE]
Together(parts) ==
    [reads |-> UNION {p.reads : p \in parts}, seen |-> UNION {p.seen : p \in parts},
     failed |-> \E p \in parts : p.failed]

Read(id, columns, row) == [rel |-> id, columns |-> columns, row |-> row]
SeenOf(cat, id, out, scope, position) ==
    LET columns == {c \in cat.rel[id].columns \cup {"*"} : <<scope, position, c>> \in out.seen}
    IN IF "*" \in columns THEN WholeRow(cat, id) ELSE columns

\* Column lineage through views and complex queries is not proven.
Widened(cat, out) ==
    [out EXCEPT !.reads = {Read(r.rel, WholeRow(cat, r.rel), "all") : r \in @}]

\* Scopes are listed from the outermost.
SeenIn(scopes, e) ==
    LET owners(s) == {i \in DOMAIN scopes[s] :
                         IF e.alias # "" THEN scopes[s][i].alias = e.alias
                         ELSE e.column = "*" \/ e.column \in scopes[s][i].columns \cup {scopes[s][i].alias}}
        having == {s \in DOMAIN scopes : owners(s) # {}}
        inner == CHOOSE s \in having : \A t \in having : t <= s
        whole(i) == e.column = "*" \/ (e.alias = "" /\ scopes[inner][i].alias = e.column)
    IN IF \/ having = {} \/ (Cardinality(owners(inner)) > 1 /\ e.column # "*")
          \/ \E i \in owners(inner) : ~whole(i) /\ e.column \notin scopes[inner][i].columns
       THEN Failed
       ELSE [Nothing EXCEPT !.seen =
                {<<inner, i, IF whole(i) THEN "*" ELSE e.column>> : i \in owners(inner)}]
WholeScope(scopes, s) == {<<s, i, "*">> : i \in DOMAIN scopes[s]}

\* sqlReferences is needed where a FROM is not a plain list of relations.
IsComplex(query) == query.with # <<>> \/ query.arms # <<>> \/ FromQueries(query) # {}

RECURSIVE LocksRows(_), ExpressionLocks(_)
ExpressionLocks(e) ==
    \/ e.op = "exists" /\ LocksRows(e.query)
    \/ \E a \in Elements(e.args) : ExpressionLocks(a)
LocksRows(query) ==
    \/ query.lock
    \/ \E q \in Elements(query.arms) \cup FromQueries(query)
                \cup {query.with[i].query : i \in DOMAIN query.with} : LocksRows(q)
    \/ \E e \in Expressions(query) : ExpressionLocks(e)

\* The row that a policy decides about is read, with the columns that it looks at.
OfRow(cat, id, row, out) == [out EXCEPT !.reads = @ \cup {Read(id, SeenOf(cat, id, out, 1, 1), row)}, !.seen = {}]
\* The arguments of a function are seen where it is called.
OfFunction(cat, fn, out) ==
    IF fn.volatile /\ cat.nonRow = "reject" /\ out.reads = {} THEN Failed ELSE [out EXCEPT !.seen = {}]
\* The rows of FROM are read, with the columns seen of them.
OfScope(cat, ids, scope, out) ==
    [out EXCEPT
        !.reads = @ \cup {Read(ids[i], SeenOf(cat, ids[i], out, scope, i), "all") :
                             i \in {j \in DOMAIN ids : cat.rel[ids[j]].kind # "v"}},
        !.seen = {o \in @ : o[1] < scope}]

RECURSIVE Policies(_, _, _, _, _), Source(_, _, _, _), Routine(_, _, _, _),
          SelectReads(_, _, _, _), SimpleReads(_, _, _, _, _), ComplexReads(_, _, _, _, _),
          Expression(_, _, _, _)

\* at: the role, the search path, the paths of functions without one of their own,
\* and what is being expanded.  Permissive and restrictive policies are united, and
\* none is left out because another is true.
Policies(cat, id, command, row, at) ==
    LET rel == cat.rel[id]
        key == <<"policy", id, at.role, command>>
        inside == [at EXCEPT !.search = cat.deparse, !.path = @ \cup {key}]
        scope == <<<<[alias |-> rel.name, columns |-> rel.columns]>>>>
        reads(p) == OfRow(cat, id, row, Expression(cat, p.using, scope, inside))
    IN IF ~rel.rls \/ Bypasses(cat, at.role, id) THEN Nothing
       ELSE IF key \in at.path THEN [Nothing EXCEPT !.reads = {Read(id, WholeRow(cat, id), "all")}]
       ELSE Together({reads(p) : p \in {q \in rel.policies : Concerns(q, command) /\ AppliesTo(cat, q, at.role)}})

RightsOf(cat, id, role) == IF cat.rel[id].invoker THEN role ELSE cat.rel[id].owner

Source(cat, id, command, at) ==
    LET rel == cat.rel[id]
        key == <<"view", id, at.role>>
    IN IF rel.kind = "v"
       THEN IF key \in at.path THEN Failed
            ELSE Widened(cat, SelectReads(cat, rel.body, <<>>,
                    [at EXCEPT !.role = RightsOf(cat, id, @), !.search = cat.deparse, !.path = @ \cup {key}]))
       ELSE IF rel.kind \in {"r", "p", "m"} THEN Policies(cat, id, command, "all", at)
       ELSE Failed

PathOf(cat, fn, at) == IF fn.path = <<>> THEN at.runtime ELSE fn.path

Routine(cat, ref, arguments, at) ==
    LET candidates == Candidates(cat, ref, arguments, at.search)
        reads(f) ==
            LET fn == cat.fn[f]
                key == <<"function", f, at.role>>
                path == PathOf(cat, fn, at)
                scope == <<<<[alias |-> fn.name, columns |-> fn.parameters]>>>>
                inside == [role |-> IF fn.definer THEN fn.owner ELSE at.role,
                           search |-> IF fn.atomic THEN cat.deparse ELSE path,
                           runtime |-> path, path |-> at.path \cup {key}]
            IN IF fn.schema = "pg_catalog"
               THEN IF fn.volatile /\ cat.nonRow = "reject" THEN Failed ELSE Nothing
               ELSE IF fn.language # "sql" \/ key \in at.path THEN Failed
               ELSE OfFunction(cat, fn, SelectReads(cat, fn.body, scope, inside))
    IN IF candidates = {} THEN Failed ELSE Together({reads(f) : f \in candidates})

\* Complex queries: what sqlReferences finds, with every column.
ComplexReads(cat, refs, locks, outer, at) ==
    LET named == UNION {Found(cat, ref, at.search) : ref \in refs.relations}
        tables == {Read(r, {}, "all") : r \in {n \in named : cat.rel[n].kind # "v"}}
        command == IF locks THEN "select-for-update" ELSE "select"
        inside == Together({[Nothing EXCEPT !.reads = tables]} \cup
                           {Source(cat, r, command, at) : r \in named} \cup
                           {Routine(cat, f.ref, f.arguments, at) : f \in refs.functions})
    IN IF \/ \E ref \in refs.relations : Found(cat, ref, at.search) = {}
          \/ refs.unresolved \/ (refs.nonRow /\ cat.nonRow = "reject")
       THEN Failed
       ELSE [Widened(cat, inside) EXCEPT !.seen = UNION {WholeScope(outer, s) : s \in DOMAIN outer}]

SimpleReads(cat, query, ids, outer, at) ==
    LET command == IF query.lock THEN "select-for-update" ELSE "select"
        scope == Len(outer) + 1
        scopes == Append(outer, [i \in DOMAIN ids |->
                     [alias |-> query.from[i].alias, columns |-> cat.rel[ids[i]].columns]])
        joined == [Nothing EXCEPT !.seen = IF query.using THEN WholeScope(scopes, scope) ELSE {}]
    IN OfScope(cat, ids, scope,
               Together({Source(cat, ids[i], command, at) : i \in DOMAIN ids} \cup
                        {Expression(cat, e, scopes, at) : e \in Expressions(query)} \cup {joined}))

SelectReads(cat, query, outer, at) ==
    LET found == [i \in DOMAIN query.from |-> Found(cat, query.from[i].ref, at.search)]
    IN IF IsComplex(query) THEN ComplexReads(cat, SqlReferences(query), LocksRows(query), outer, at)
       ELSE IF \E i \in DOMAIN found : found[i] = {} THEN Failed
       ELSE SimpleReads(cat, query, [i \in DOMAIN found |-> CHOOSE id \in found[i] : TRUE], outer, at)

Expression(cat, e, scopes, at) ==
    CASE e.op = "column" -> IF e.column \in SystemColumns THEN Failed ELSE SeenIn(scopes, e)
      [] e.op = "exists" -> SelectReads(cat, e.query, scopes, at)
      [] e.op = "session" -> IF cat.nonRow = "reject" THEN Failed ELSE Nothing
      [] OTHER -> Together({Expression(cat, a, scopes, at) : a \in Elements(e.args)} \cup
                           IF e.op = "call" THEN {Routine(cat, e.ref, Len(e.args), at)} ELSE {})

\* The policies of the relation itself read the row they decide about; all others
\* may read any row.
Analyze(cat, id, command, role) ==
    Policies(cat, id, command, "same-row",
             [role |-> role, search |-> cat.search, runtime |-> cat.search, path |-> {}])
=============================================================================
