---------------------------- MODULE RowSecurity ----------------------------
(***************************************************************************)
(* What PostgreSQL answers to a query (external): CTEs, set operations,    *)
(* correlated queries, views with the rights of their owner or of the      *)
(* caller, functions in either mode, and row-security policies, permissive *)
(* and restrictive, with those for UPDATE when rows are locked.            *)
(*                                                                         *)
(* A database gives each table a set of [key, row].  An answer is a set of *)
(* rows, with the keys of the rows they come from so that duplicates count.*)
(* A function returns whether its query has a row.                         *)
(***************************************************************************)
EXTENDS PolicyAnalysis

\* user: who runs functions; rights: who reads tables; clock: what changes by itself.
Session(cat, user, input, clock) ==
    [user |-> user, rights |-> user, path |-> cat.search, input |-> input, clock |-> clock, ctes |-> <<>>]

RECURSIVE Answer(_, _, _, _, _), Value(_, _, _, _, _), Combined(_, _)

\* All ways to take a row of each FROM item.
Combined(items, n) ==
    IF n = 0 THEN {<<>>}
    ELSE {Append(rest, item) : rest \in Combined(items, n - 1), item \in items[n]}

Lookup(scopes, e) ==
    LET owns(i, s) == /\ e.alias \in {"", scopes[s][i].alias}
                      /\ e.column \in DOMAIN scopes[s][i].row
        inner == CHOOSE s \in DOMAIN scopes :
                    /\ \E i \in DOMAIN scopes[s] : owns(i, s)
                    /\ \A t \in s + 1..Len(scopes) : \A i \in DOMAIN scopes[t] : ~owns(i, t)
    IN scopes[inner][CHOOSE i \in DOMAIN scopes[inner] : owns(i, inner)].row[e.column]

\* A name is the first relation or function on the path; a stored one is itself.
FoundFunction(cat, ref, n, path) ==
    IF ref.schema = "bound" THEN ref.name
    ELSE LET all == Candidates(cat, ref, n, path)
             first == <<"pg_catalog">> \o path
         IN IF ref.schema # "" THEN CHOOSE f \in all : TRUE ELSE FirstOn(first, cat.fn, all)
FoundRelation(cat, ref, path) ==
    IF ref.schema = "bound" THEN ref.name ELSE CHOOSE id \in Found(cat, ref, path) : TRUE

\* A query of an expression with what it sees: an EXISTS, or the body of a function.
Inner(query, outer, session) == [query |-> query, outer |-> outer, session |-> session]
CalledBody(fn, values, s) ==
    LET user == IF fn.definer THEN fn.owner ELSE s.user
        scope == <<[alias |-> fn.name, row |-> [p \in fn.parameters |-> values[1]]]>>
    IN Inner(fn.body, <<scope>>,
             [s EXCEPT !.user = user, !.rights = user, !.ctes = <<>>,
                       !.path = IF fn.path = <<>> THEN @ ELSE fn.path])
HasRow(cat, db, inner) == Answer(cat, db, inner.query, inner.outer, inner.session) # {}

Applied(cat, db, e, values, scopes, s) ==
    CASE e.op = "=" -> values[1] = values[2]
      [] e.op = "and" -> values[1] /\ values[2]
      [] e.op = "or" -> values[1] \/ values[2]
      [] e.op = "not" -> ~values[1]
      [] OTHER ->
            LET fn == cat.fn[FoundFunction(cat, e.ref, Len(e.args), s.path)]
            IN IF e.op = "call" /\ fn.schema = "pg_catalog" THEN s.clock
               ELSE HasRow(cat, db, IF e.op = "exists" THEN Inner(e.query, scopes, s) ELSE CalledBody(fn, values, s))

Value(cat, db, e, scopes, s) ==
    CASE e.op = "column" -> IF e.column = "*" THEN [i \in DOMAIN scopes[Len(scopes)] |-> scopes[Len(scopes)][i].row]
                            ELSE Lookup(scopes, e)
      [] e.op = "const" -> e.value
      [] e.op = "param" -> s.input[e.number]
      [] e.op = "session" -> s.clock
      [] OTHER -> Applied(cat, db, e, [i \in DOMAIN e.args |-> Value(cat, db, e.args[i], scopes, s)], scopes, s)

\* Some permissive policy for the command, and every restrictive one, admits the row.
Allowed(policies, admitting) ==
    /\ \E p \in admitting : p.permissive
    /\ \A p \in policies \ admitting : p.permissive
Visible(cat, db, id, row, cmd, s) ==
    LET rel == cat.rel[id]
        policies == {p \in rel.policies : p.cmd \in {"*", cmd} /\ AppliesTo(cat, p, s.rights)}
        scopes == <<<<[alias |-> rel.name, row |-> row]>>>>
    IN \/ ~rel.rls \/ Bypasses(cat, s.rights, id)
       \/ Allowed(policies, {p \in policies : Value(cat, db, p.using, scopes, [s EXCEPT !.ctes = <<>>])})

\* The rows of a FROM item, as [key, row].  A query that locks its rows locks those of
\* its views and of the queries in FROM.
Marked(query, locking) == IF locking THEN Locking(query) ELSE query
ViewBody(cat, id, locking, s) ==
    Inner(Marked(cat.rel[id].body, locking), <<>>,
          [s EXCEPT !.rights = IF cat.rel[id].invoker THEN s.user ELSE cat.rel[id].owner, !.ctes = <<>>])
Rows(cat, db, f, locking, s) ==
    LET id == FoundRelation(cat, f.ref, s.path)
        inner == IF f.queries # <<>> THEN Inner(Marked(f.queries[1], locking), <<>>, s)
                 ELSE ViewBody(cat, id, locking, s)
    IN IF f.queries = <<>> /\ f.ref.schema = "" /\ f.ref.name \in DOMAIN s.ctes THEN s.ctes[f.ref.name]
       ELSE IF f.queries # <<>> \/ cat.rel[id].kind = "v" THEN Answer(cat, db, inner.query, inner.outer, inner.session)
       ELSE {r \in db[id] :
                \/ cat.rel[id].kind = "m"
                \/ \A cmd \in {"r"} \cup (IF locking THEN {"w"} ELSE {}) : Visible(cat, db, id, r.row, cmd, s)}

\* A CTE sees those before it.
Extended(s, name, rows) ==
    [s EXCEPT !.ctes = [c \in DOMAIN @ \cup {name} |-> IF c = name THEN rows ELSE @[c]]]

Answer(cat, db, query, outer, s) ==
    LET cte == query.with[1]
        items == [i \in DOMAIN query.from |-> Rows(cat, db, query.from[i], query.lock, s)]
        scopes(rows) == Append(outer, [i \in DOMAIN rows |-> [alias |-> query.from[i].alias, row |-> rows[i].row]])
        selected == {rows \in Combined(items, Len(query.from)) : Value(cat, db, query.where, scopes(rows), s)}
    IN IF query.with # <<>>
       THEN Answer(cat, db, [query EXCEPT !.with = Tail(@)], outer,
                   Extended(s, cte.name, Answer(cat, db, cte.query, <<>>, s)))
       ELSE IF query.arms # <<>>
       THEN UNION {{[key |-> <<i, r.key>>, row |-> r.row] : r \in Answer(cat, db, query.arms[i], outer, s)} :
                      i \in DOMAIN query.arms}
       ELSE {[key |-> [i \in DOMAIN rows |-> rows[i].key],
              row |-> [c \in DOMAIN query.target |-> Value(cat, db, query.target[c], scopes(rows), s)]] :
                rows \in selected}
=============================================================================
