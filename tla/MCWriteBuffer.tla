--------------------------- MODULE MCWriteBuffer ---------------------------
(***************************************************************************)
(* Two resources: todo, scoped by owner, and tag, global.  The endpoints   *)
(* read todo by list (list), by list and status with the literal filter    *)
(* open (open), and read tags by name joined to the todos of a list        *)
(* (board).                                                                *)
(***************************************************************************)
EXTENDS WriteBuffer

mcResource == {"todo", "tag"}
mcEndpoint == {"list", "open", "board"}
mcColumn == {"owner", "list", "status", "note", "name"}
mcInputName == {"list", "name"}
mcScalar == {"u1", "u2", "a", "A", "b", "open", "done", Null}
mcAlike == {{"a", "A"}}
mcInexact == {}
mcTypeOf == [s \in mcScalar |-> "string"]
mcScopeColumn == ("todo" :> "owner") @@ ("tag" :> Null)

mcReads == <<
    [endpoint |-> "board", resource |-> "tag", columns |-> {"name", "list"},
     bindings |-> {<<"name", "name">>, <<"list", "list">>}, filters |-> {}],
    [endpoint |-> "board", resource |-> "todo", columns |-> {"list"},
     bindings |-> {<<"list", "list">>}, filters |-> {}],
    [endpoint |-> "list", resource |-> "todo", columns |-> Star,
     bindings |-> {<<"list", "list">>}, filters |-> {}],
    [endpoint |-> "open", resource |-> "todo", columns |-> {"list", "status"},
     bindings |-> {<<"list", "list">>}, filters |-> {<<"status", "open">>}] >>

Todo(owner, list, status) ==
    KnownRow(owner, {<<"list", list>>, <<"owner", owner>>}, {<<"status", status>>})
Tag(name, list) == KnownRow(Null, {<<"name", name>>, <<"list", list>>}, {})
Op(resource, operation, before, after, changed) ==
    [resource |-> resource, operation |-> operation,
     before |-> before, after |-> after, changed |-> changed]

mcFact == {
    Op("todo", "insert", Absent, Todo("u1", "a", "open"), Null),
    Op("todo", "insert", Absent, Todo("u2", "b", "done"), Null),
    Op("todo", "update", Todo("u1", "a", "open"), Todo("u1", "b", "open"), {"list"}),
    Op("todo", "update", Todo("u1", "a", "done"), Todo("u2", "a", "done"), {"owner"}),
    Op("todo", "update", Todo("u1", "A", "done"), Todo("u1", "A", "open"), {"status", "note"}),
    Op("tag", "delete", Tag("a", "b"), Absent, Null),
    Op("tag", "update", Tag("b", "a"), Tag("a", "a"), {"name"}),
    BroadFact("tag") }

mcInput == {{<<"list", "a">>}, {<<"list", "b">>, <<"name", "a">>}, {<<"name", "b">>}}
=============================================================================
