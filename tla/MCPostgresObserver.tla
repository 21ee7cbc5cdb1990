------------------------- MODULE MCPostgresObserver -------------------------
(***************************************************************************)
(* Todos have a scope and a primary key of one column; logs are global,    *)
(* have no primary key, a time and a payload that may be an object.        *)
(***************************************************************************)
EXTENDS PostgresObserver, QueryPlan

mcResource == {"todo", "log"}
mcColumn == {"id", "owner", "list", "state", "at", "data"}
mcColumns == ("todo" :> {"id", "owner", "list", "state"}) @@ ("log" :> {"at", "data"})
mcScopeColumn == ("todo" :> "owner") @@ ("log" :> Null)
mcIdentityColumns == ("todo" :> {"id"}) @@ ("log" :> {})
mcCertified == ("todo" :> {"id", "owner", "list", "state"}) @@ ("log" :> {})
mcInputName == {"list", "at", "data"}
mcScalar == {"t1", "t2", "t3", "u1", "u2", "a", "b", "open", "done", "noon", "noon+00", "dusk",
             "p", "q", "object", Null}
mcTypeOf == [s \in mcScalar |-> "string"]

\* A timestamptz that a caller writes with Z is rendered with its offset.
mcEncoded(s) == IF s = "noon" THEN "noon+00" ELSE s

Todo(id, owner, list, state) ==
    {<<"id", id>>, <<"owner", owner>>, <<"list", list>>, <<"state", state>>}
Log(at, data) == {<<"at", at>>, <<"data", data>>}

mcRow ==
    ("todo" :> {Todo("t1", "u1", "a", "open"), Todo("t1", "u1", "b", "open"),
                Todo("t2", "u1", "a", "open"), Todo("t2", "u2", "a", "open"),
                Todo("t3", "u1", "a", "done")}) @@
    ("log" :> {Log("noon", "p"), Log("dusk", "p"), Log("dusk", "object")})

mcInitialDb ==
    {[r \in mcResource |-> {}],
     ("todo" :> {Todo("t2", "u1", "a", "open")}) @@ ("log" :> {Log("noon", "p")}),
     ("todo" :> {Todo("t1", "u1", "a", "open"), Todo("t2", "u1", "a", "open"),
                 Todo("t3", "u1", "a", "done")}) @@
     ("log" :> {Log("dusk", "p")})}

-----------------------------------------------------------------------------
(* Plans. *)

Eq(field, name) == [op |-> "=", field |-> field, from |-> "input", value |-> name]
Lit(field, value) == [op |-> "=", field |-> field, from |-> "literal", value |-> value]
Rows(resource, columns, where) ==
    [kind |-> "select",
     select |-> [resource |-> resource, columns |-> columns, where |-> where, order |-> {},
                 joins |-> <<>>, result |-> "rows"]]

mcInput == {{<<"list", "a">>, <<"at", "noon">>, <<"data", "p">>},
            {<<"list", "b">>, <<"at", "dusk">>, <<"data", "q">>}}
Preserve(plan) == [plan |-> plan, inputRelation |-> "preserve", parse |-> [i \in mcInput |-> i]]

\* A literal filter on a time is not certified, and stays broad.
mcQueries ==
    ("todos" :> Preserve(Rows("todo", {"id", "state"}, {Eq("list", "list")}))) @@
    ("open" :> Preserve(Rows("todo", {"id"}, {Lit("state", "open")}))) @@
    ("noon" :> Preserve(Rows("log", {"data"}, {Lit("at", "noon")}))) @@
    ("payloads" :> Preserve(Rows("log", {"at"}, {Eq("data", "data")})))
mcEndpointOrder == <<"noon", "open", "payloads", "todos">>
mcEndpoint == DOMAIN mcQueries

\* An endpoint whose input is compared with a time.
mcTemporalQueries == "logs" :> Preserve(Rows("log", {"data"}, {Eq("at", "at")}))
mcTemporalOrder == <<"logs">>
mcTemporalEndpoint == {"logs"}

\* The manifest covers the answers of all of these endpoints but the last.
ASSUME ObserverManifest == ManifestCovers <=> Endpoint = mcEndpoint
=============================================================================
