-------------------------- MODULE CatalogResolver --------------------------
(***************************************************************************)
(* The resources behind a relation or a function of a query                *)
(* (catalog-resolver.ts): its own table, what PostgreSQL recorded that it  *)
(* depends on, what the text of a function body names, and the policies    *)
(* of all of those.  A resource has the identity of its relation.          *)
(*                                                                         *)
(* cat.registered are the declared resources, cat.discover tells whether   *)
(* ordinary tables become resources when they are met, and cat.role is the *)
(* role that the artifact is compiled for.                                 *)
(***************************************************************************)
EXTENDS PolicyAnalysis

NoResource == [resources |-> {}, failed |-> FALSE]
Unresolved == [resources |-> {}, failed |-> TRUE]
AllResources(parts) ==
    [resources |-> UNION {p.resources : p \in parts}, failed |-> \E p \in parts : p.failed]

\* UNTRACKED_QUERY_RELATION and UNSUPPORTED_DISCOVERED_RELATION for the others.
Tracked(cat, id) == id \in cat.registered \/ (cat.discover /\ cat.rel[id].kind = "r")

NoReads == [reads |-> {}, failed |-> FALSE]
OnlyTracked(cat, analysis) ==
    [reads |-> analysis.reads,
     failed |-> analysis.failed \/ \E r \in analysis.reads : ~Tracked(cat, r.rel)]
PolicyDependencies(cat, id, command, role) == OnlyTracked(cat, Analyze(cat, id, command, role))
ResourcesOf(policies) == [resources |-> {r.rel : r \in policies.reads}, failed |-> policies.failed]
PolicyResources(cat, id, command, role) == ResourcesOf(PolicyDependencies(cat, id, command, role))

\* pg_depend: what the stored definition of a view or of a function with an SQL body
\* refers to.  It has no record of built-in functions, nor of a string body.
DependsOn(cat, object) ==
    LET refs == IF object[1] = "relation"
                THEN IF cat.rel[object[2]].kind = "v" THEN SqlReferences(cat.rel[object[2]].body) ELSE NoReference
                ELSE IF cat.fn[object[2]].atomic THEN SqlReferences(cat.fn[object[2]].body) ELSE NoReference
    IN {<<"relation", ref.name>> : ref \in {r \in refs.relations : r.schema = "bound"}} \cup
       {<<"function", f.ref.name>> : f \in {g \in refs.functions : g.ref.schema = "bound"}}

\* Fault: the policies of an object inside a view are those for the caller's role.
MutantRoleInside(cat, path) == cat.role
\* Views and functions unite the policies of all roles.
RoleInside(cat, path) == IF path = {} THEN cat.role ELSE ""

RECURSIVE Expand(_, _, _), ExpandFunction(_, _, _), NamedFunctions(_, _, _)

\* The functions that a text calls, on the path of the application.
NamedFunctions(cat, refs, path) ==
    LET one(f) ==
            LET candidates == Candidates(cat, f.ref, f.arguments, cat.search)
                builtin == {g \in candidates : cat.fn[g].schema = "pg_catalog"}
            IN IF candidates = {} THEN Unresolved
               ELSE IF candidates = builtin
               THEN [NoResource EXCEPT !.failed = cat.nonRow = "reject" /\ \E g \in builtin : cat.fn[g].volatile]
               ELSE AllResources({Expand(cat, <<"function", g>>, path) : g \in candidates})
    IN AllResources({one(f) : f \in refs.functions})

TextOf(cat, fn) == IF fn.atomic THEN NoReference ELSE SqlReferences(fn.body)

ExpandFunction(cat, f, path) ==
    LET fn == cat.fn[f]
        refs == TextOf(cat, fn)
        found == [r \in refs.relations |-> Found(cat, r, cat.search)]
        parsed == AllResources(
            {Expand(cat, <<"relation", id>>, path) : id \in UNION {found[r] : r \in refs.relations}} \cup
            {NamedFunctions(cat, refs, path)} \cup
            {Expand(cat, object, path) : object \in DependsOn(cat, <<"function", f>>)})
    IN IF fn.schema = "pg_catalog"
       THEN [NoResource EXCEPT !.failed = fn.volatile /\ cat.nonRow = "reject"]
       ELSE IF \/ fn.language # "sql"
               \/ ~fn.atomic /\ fn.path \notin {<<>>, cat.search}
               \/ \E r \in refs.relations : found[r] = {}
               \/ refs.unresolved
               \/ cat.nonRow = "reject" /\ SqlReferences(fn.body).nonRow
            THEN Unresolved
       ELSE [parsed EXCEPT !.failed = @ \/ (cat.nonRow = "reject" /\ ~fn.atomic /\ fn.volatile
                                            /\ parsed.resources = {})]

\* An object that is being expanded adds nothing more.
Expand(cat, object, path) ==
    LET inside == path \cup {object}
        rel == cat.rel[object[2]]
        refs == SqlReferences(rel.body)
        policies == PolicyResources(cat, object[2], "select", RoleInside(cat, path))
    IN IF object \in path THEN NoResource
       ELSE IF object[1] = "function" THEN ExpandFunction(cat, object[2], inside)
       ELSE IF rel.kind = "v"
       THEN IF refs.unresolved \/ (refs.nonRow /\ cat.nonRow = "reject") THEN Unresolved
            ELSE AllResources({policies, NamedFunctions(cat, refs, inside)} \cup
                              {Expand(cat, o, inside) : o \in DependsOn(cat, object)})
       ELSE IF rel.kind \notin {"r", "p", "m"} \/ ~Tracked(cat, object[2]) THEN Unresolved
       ELSE IF rel.kind = "m" THEN [NoResource EXCEPT !.resources = {object[2]}]
       ELSE AllResources({policies, [NoResource EXCEPT !.resources = {object[2]}]})

-----------------------------------------------------------------------------
ResolveRelation(cat, id, command) ==
    AllResources({Expand(cat, <<"relation", id>>, {}), PolicyResources(cat, id, command, cat.role)})
ResolveFunction(cat, f) == NamedFunctions(cat, [NoReference EXCEPT !.functions = {f}], {})

\* Tables without rewrite rules.
CanPruneColumns(cat, id) == cat.rel[id].kind \in {"r", "p"} /\ ~cat.rel[id].rules
=============================================================================
