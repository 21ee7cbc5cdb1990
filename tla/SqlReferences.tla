--------------------------- MODULE SqlReferences ---------------------------
(***************************************************************************)
(* Queries, view and function bodies and policy expressions as trees, and  *)
(* the relations and functions such a tree refers to (sql-references.ts,   *)
(* and the same walk in query-compiler.ts).                                *)
(*                                                                         *)
(* PostgreSQL stores views, policies and functions with an SQL body with   *)
(* the objects they were created for; a query and a function with a string *)
(* body only have names.  A reference of the first kind is Bound.          *)
(***************************************************************************)
EXTENDS Naturals, Sequences, FiniteSets

Elements(s) == {s[i] : i \in DOMAIN s}

Named(schema, name) == [schema |-> schema, name |-> name]
Bound(id) == Named("bound", id)

\* Expressions.  A column without alias has alias "", a whole row has column "*".
Column(alias, column) == [op |-> "column", alias |-> alias, column |-> column, args |-> <<>>]
Param(number) == [op |-> "param", number |-> number, args |-> <<>>]
Const(value) == [op |-> "const", value |-> value, args |-> <<>>]
Eq(a, b) == [op |-> "=", args |-> <<a, b>>]
And(a, b) == [op |-> "and", args |-> <<a, b>>]
Or(a, b) == [op |-> "or", args |-> <<a, b>>]
Not(a) == [op |-> "not", args |-> <<a>>]
Exists(query) == [op |-> "exists", query |-> query, args |-> <<>>]
Call(ref, arg) == [op |-> "call", ref |-> ref, args |-> <<arg>>]
SessionValue == [op |-> "session", args |-> <<>>]     \* current_timestamp, nextval

\* What FROM lists: a relation or a parenthesised query.
From(ref, alias) == [ref |-> ref, alias |-> alias, queries |-> <<>>]
FromQuery(query, alias) == [ref |-> Named("", ""), alias |-> alias, queries |-> <<query>>]

\* A SELECT; target gives each output column its expression.  using: it joins by
\* NATURAL or USING.  A set operation has arms, and nothing else but CTEs.
Select(from, where, target) ==
    [with |-> <<>>, arms |-> <<>>, from |-> from, where |-> where, target |-> target,
     lock |-> FALSE, using |-> FALSE]
Union(arms) == [Select(<<>>, Const(TRUE), <<>>) EXCEPT !.arms = arms]
Locking(query) == [query EXCEPT !.lock = TRUE]
With(name, cte, query) == [query EXCEPT !.with = Append(@, [name |-> name, query |-> cte])]

SystemColumns == {"ctid", "xmin"}

-----------------------------------------------------------------------------
NoReference == [relations |-> {}, functions |-> {}, nonRow |-> FALSE, unresolved |-> FALSE]
AllReferences(parts) ==
    [relations |-> UNION {p.relations : p \in parts},
     functions |-> UNION {p.functions : p \in parts},
     nonRow |-> \E p \in parts : p.nonRow,
     unresolved |-> \E p \in parts : p.unresolved]

Expressions(query) == {query.where} \cup {query.target[c] : c \in DOMAIN query.target}
FromQueries(query) == UNION {Elements(f.queries) : f \in Elements(query.from)}

\* The CTEs that the i-th CTE of a query, or the query itself, can name.
CtesBefore(query, i) == {query.with[j].name : j \in {n \in DOMAIN query.with : n < i}}
CtesOf(query) == CtesBefore(query, Len(query.with) + 1)

\* A name without schema that a visible CTE has is that CTE.
FromRelations(query, ctes) ==
    {f \in Elements(query.from) :
        f.queries = <<>> /\ (f.ref.schema # "" \/ f.ref.name \notin ctes)}

RECURSIVE SelectReferences(_, _), ExpressionReferences(_, _)

ExpressionReferences(e, ctes) ==
    AllReferences(
        {ExpressionReferences(a, ctes) : a \in Elements(e.args)} \cup
        {CASE e.op = "call" -> [NoReference EXCEPT !.functions = {[ref |-> e.ref, arguments |-> Len(e.args)]}]
           [] e.op = "exists" -> SelectReferences(e.query, ctes)
           [] OTHER -> [NoReference EXCEPT
                           !.nonRow = e.op = "session",
                           !.unresolved = e.op = "column" /\ e.column \in SystemColumns]})

SelectReferences(query, inherited) ==
    LET visible == inherited \cup CtesOf(query)
    IN AllReferences(
        {SelectReferences(query.with[i].query, inherited \cup CtesBefore(query, i)) : i \in DOMAIN query.with}
        \cup {SelectReferences(q, visible) : q \in Elements(query.arms) \cup FromQueries(query)}
        \cup {ExpressionReferences(e, visible) : e \in Expressions(query)}
        \cup {[NoReference EXCEPT !.relations = {f.ref : f \in FromRelations(query, visible)}]})

SqlReferences(query) == SelectReferences(query, {})
=============================================================================
