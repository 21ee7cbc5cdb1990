------------------------------ MODULE MCSqlite ------------------------------
(***************************************************************************)
(* A database of lists (global) and todos (scoped by owner, referencing a  *)
(* list), and one endpoint per shape of plan that compileManifest treats   *)
(* differently.  Names and states compare with NOCASE.                     *)
(***************************************************************************)
EXTENDS SqliteCommand, QueryPlan

mcResource == {"list", "todo"}
mcColumn == {"id", "name", "owner", "list", "state", "note"}
mcColumns == ("list" :> {"id", "name"}) @@ ("todo" :> {"id", "owner", "list", "state", "note"})
mcScopeColumn == ("list" :> Null) @@ ("todo" :> "owner")
mcKeyColumn == [r \in mcResource |-> "id"]
mcForeignKeys == {[child |-> "todo", column |-> "list", parent |-> "list"]}
mcInputName == {"list", "name"}
mcScalar == {"a", "A", "b", "n", "N", "t", "s", "u1", "u2", "open", "OPEN", "done", "x", "y", Null}
mcAlike == {{"a", "A"}, {"n", "N"}, {"open", "OPEN"}}
mcTypeOf == [s \in mcScalar |-> "string"]

\* Text and integers pass through JSON unchanged.  A REAL of more than fifteen
\* digits does not, and no column here holds one.
mcEncoded(s) == s

ListRow(id, name) == {<<"id", id>>, <<"name", name>>}
TodoRow(id, owner, list, state, note) ==
    {<<"id", id>>, <<"owner", owner>>, <<"list", list>>, <<"state", state>>, <<"note", note>>}

mcRow ==
    ("list" :> {ListRow("a", "n"), ListRow("a", "N"), ListRow("b", "n")}) @@
    ("todo" :> {TodoRow("t", "u1", "a", "open", "x"), TodoRow("t", "u1", "a", "open", "y"),
                TodoRow("t", "u1", "b", "OPEN", "x"), TodoRow("t", "u2", "a", "open", "x"),
                TodoRow("t", "u1", Null, "done", "x"), TodoRow("s", "u1", "a", "done", "x")})

mcInitialDb ==
    {[r \in mcResource |-> {}],
     ("list" :> {ListRow("a", "n"), ListRow("b", "n")}) @@
     ("todo" :> {TodoRow("t", "u1", "a", "open", "x"), TodoRow("s", "u1", "a", "done", "x")})}

-----------------------------------------------------------------------------
(* Plans. *)

Eq(field, name) == [op |-> "=", field |-> field, from |-> "input", value |-> name]
Lit(field, value) == [op |-> "=", field |-> field, from |-> "literal", value |-> value]
Test(field, values) == [op |-> "test", field |-> field, holds |-> values]
IsNull(field, holds) == [op |-> "is-null", field |-> field, holds |-> holds]
And(ps) == [op |-> "and", predicates |-> ps]
Or(ps) == [op |-> "or", predicates |-> ps]
Not(p) == [op |-> "not", predicate |-> p]
Select(resource, columns, where, joins, result) ==
    [resource |-> resource, columns |-> columns, where |-> where, order |-> {},
     joins |-> joins, result |-> result]
SelectPlan(select) == [kind |-> "select", select |-> select]
Join(local, foreign, required, select) ==
    [local |-> local, foreign |-> foreign, required |-> required, select |-> select]
Call(endpoint, map) == [kind |-> "call", endpoint |-> endpoint, input |-> map]

mcInput == {{<<"list", "a">>, <<"name", "n">>}, {<<"list", "b">>, <<"name", "N">>}}
Swapped == [i \in mcInput |-> CHOOSE j \in mcInput : j # i]
Same == [i \in mcInput |-> i]
Preserve(plan) == [plan |-> plan, inputRelation |-> "preserve", parse |-> Same]

TodosOfList == SelectPlan(Select("todo", {"id", "note"}, {Eq("list", "list")}, <<>>, "rows"))
Board == SelectPlan(Select("list", Star, {Eq("name", "name")},
            <<Join("id", "list", FALSE,
                   Select("todo", {"state"}, {Not(Lit("state", "done"))}, <<>>, "rows"))>>, "rows"))
Busy == SelectPlan(Select("list", {}, {Eq("id", "list")},
            <<Join("id", "list", TRUE, Select("todo", {"id"}, {Lit("state", "open")}, <<>>, "rows"))>>, "count"))
Either == SelectPlan(Select("todo", {"id"},
            {Or({And({Eq("list", "list"), Test("note", {"y"})}),
                 And({Eq("list", "list"), Lit("state", "open")})})}, <<>>, "rows"))
Loose == SelectPlan(Select("todo", {"id"},
            {Or({IsNull("list", TRUE), And({Lit("state", "done"), IsNull("note", FALSE)})})}, <<>>, "rows"))
NextOfList == [d \in {{}, {<<"id", "a">>}, {<<"id", "b">>}} |->
                 IF d = {} THEN Null ELSE CHOOSE i \in mcInput : ValueOf(i, "list") = ValueOf(d, "id")]
ListThenTodos == [kind |-> "bind", child |-> TodosOfList, next |-> NextOfList,
            parent |-> SelectPlan(Select("list", {"id"}, {Eq("name", "name")}, <<>>, "rows"))]

mcQueries ==
    ("todos" :> Preserve(TodosOfList)) @@
    ("board" :> Preserve(Board)) @@
    ("busy" :> Preserve(Busy)) @@
    ("loose" :> Preserve(Loose)) @@
    ("either" :> Preserve(Either)) @@
    ("mapped" :> Preserve(Call("todos", Swapped))) @@
    ("opaque" :> [plan |-> TodosOfList, inputRelation |-> "opaque", parse |-> Swapped]) @@
    ("altered" :> [plan |-> TodosOfList, inputRelation |-> "preserve", parse |-> Swapped]) @@
    ("nested" :> Preserve([kind |-> "when", test |-> {i \in mcInput : <<"list", "a">> \in i},
                           yes |-> Call("opaque", Null),
                           no |-> [kind |-> "combine", children |-> <<Call("todos", Null), [kind |-> "value", value |-> 0]>>]])) @@
    ("bind" :> Preserve(ListThenTodos))
mcEndpointOrder == <<"altered", "bind", "board", "busy", "either", "loose", "mapped", "nested", "opaque", "todos">>
mcEndpoint == DOMAIN mcQueries

\* The manifest compiled from these plans covers what they answer.
ASSUME SqliteManifest == ManifestCovers
=============================================================================
