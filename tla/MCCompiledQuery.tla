-------------------------- MODULE MCCompiledQuery --------------------------
(***************************************************************************)
(* Two schemas with tables of the same name: app.items, app.grants and     *)
(* app.bans are declared, public.grants (decoy) is not, except in the      *)
(* query decoyed.  app is a plain role, auditor owns a view, admin owns    *)
(* the tables.  A situation is                                             *)
(* <<query, policies of items, policies of grants, role and user, path>>.  *)
(***************************************************************************)
EXTENDS CompiledQuery

grants == From(Bound("grants"), "g")
items == From(Named("", "items"), "i")
Where(from, where) == Select(<<from>>, where, [one |-> Const(1)])

Table(schema, name, columns) ==
    [schema |-> schema, name |-> name, kind |-> "r", owner |-> "admin", columns |-> columns, rls |-> FALSE,
     force |-> FALSE, rules |-> FALSE, invoker |-> FALSE, policies |-> {}, body |-> Where(grants, Const(TRUE))]
ViewOf(name, owner, invoker, columns, body) ==
    [Table("app", name, columns) EXCEPT !.kind = "v", !.owner = owner, !.invoker = invoker, !.body = body]
Policy(cmd, roles, permissive, using) ==
    [cmd |-> cmd, roles |-> roles, permissive |-> permissive, using |-> using]
Secured(table, policies) == [table EXCEPT !.rls = TRUE, !.policies = policies]

\* A function of one argument, key; its query is all that it computes.
Function(schema, name, body) ==
    [schema |-> schema, name |-> name, arity |-> 1, language |-> "sql", volatile |-> FALSE, definer |-> FALSE,
     atomic |-> FALSE, owner |-> "admin", path |-> <<>>, parameters |-> {"key"}, body |-> body]
\* The text of a string body names grants without a schema.
HasGrant == Where(From(Named("", "grants"), "g"), Eq(Column("g", "k"), Column("", "key")))
HasBoundGrant == Where(grants, Eq(Column("g", "k"), Column("", "key")))
Functions1 ==
    [may |-> Function("app", "may", HasGrant),
     owners |-> [Function("app", "owners", HasGrant) EXCEPT !.definer = TRUE],
     stored |-> [Function("app", "stored", HasBoundGrant) EXCEPT !.atomic = TRUE],
     opaque |-> [Function("app", "opaque", HasBoundGrant) EXCEPT !.language = "plpgsql"],
     now |-> [Function("pg_catalog", "now", HasGrant) EXCEPT !.volatile = TRUE]]

-----------------------------------------------------------------------------
KeyOfItem == Column("items", "k")
ItemPolicies ==
    [none |-> {},
     own |-> {Policy("*", {"public"}, TRUE, Eq(Column("", "v"), Const(1)))},
     grant |-> {Policy("r", {"public"}, TRUE, Exists(Where(grants, Eq(Column("g", "k"), KeyOfItem)))),
                Policy("r", {"app"}, FALSE, Eq(Column("", "v"), Const(1)))},
     may |-> {Policy("*", {"public"}, TRUE, Call(Bound("may"), KeyOfItem))},
     owners |-> {Policy("*", {"public"}, TRUE, Call(Bound("owners"), KeyOfItem))},
     view |-> {Policy("*", {"public"}, TRUE,
                  Exists(Where(From(Bound("granted"), "x"), Eq(Column("x", "k"), KeyOfItem))))},
     vetted |-> {Policy("*", {"public"}, TRUE,
                    Exists(Where(From(Bound("vetted"), "x"), Eq(Column("x", "k"), KeyOfItem))))},
     either |-> {Policy("*", {"public"}, TRUE,
                   Exists(Union(<<Where(grants, Eq(Column("g", "k"), KeyOfItem)),
                                  Where(From(Bound("bans"), "b"), Eq(Column("b", "k"), KeyOfItem))>>)))},
     update |-> {Policy("r", {"public"}, TRUE, Const(TRUE)),
                 Policy("w", {"public"}, TRUE, Exists(Where(grants, Eq(Column("g", "k"), KeyOfItem))))}]
GrantPolicies ==
    [none |-> {},
     chain |-> {Policy("*", {"app", "admin"}, TRUE, Eq(Column("", "w"), Const(1))),
                Policy("*", {"auditor"}, TRUE,
                   Not(Exists(Where(From(Bound("bans"), "b"), Eq(Column("b", "k"), Column("grants", "k"))))))}]

k == Column("i", "k")
v == [v |-> Column("i", "v")]
GrantsStored ==
    Select(<<grants>>, Call(Bound("stored"), Column("g", "k")), [k |-> Column("g", "k"), w |-> Column("g", "w")])

Relations(ofItems, ofGrants) ==
    LET all == [items |-> Table("app", "items", {"k", "v"}),
                grants |-> Table("app", "grants", {"k", "w"}),
                bans |-> Table("app", "bans", {"k"}),
                decoy |-> Table("public", "grants", {"k", "w"}),
                granted |-> ViewOf("granted", "auditor", FALSE, {"k"},
                               Select(<<grants>>, Const(TRUE), [k |-> Column("g", "k")])),
                mine |-> ViewOf("mine", "admin", TRUE, {"k", "w"}, GrantsStored),
                vetted |-> ViewOf("vetted", "admin", FALSE, {"k", "w"}, GrantsStored),
                listed |-> ViewOf("listed", "admin", TRUE, {"k", "v"},
                              Select(<<From(Bound("items"), "i")>>, Const(TRUE), [k |-> k, v |-> Column("i", "v")]))]
    IN [all EXCEPT !.items = IF ofItems = {} THEN @ ELSE Secured(@, ofItems),
                   !.grants = IF ofGrants = {} THEN @ ELSE Secured(@, ofGrants),
                   !.decoy = IF ofGrants = {} THEN @ ELSE Secured(@, ofGrants)]

Catalogs(ofItems, ofGrants, role, search) ==
    [rel |-> Relations(ofItems, ofGrants), fn |-> Functions1,
     roles |-> [r \in {"app", "auditor", "admin"} |-> [bypass |-> FALSE, member |-> {r}]],
     registered |-> {"items", "grants", "bans"}, found |-> {}, discover |-> TRUE, nonRow |-> "reject",
     role |-> role, search |-> search, deparse |-> <<"public">>]

-----------------------------------------------------------------------------
OfItem == Eq(k, Param(1))
Asked(select) == [select |-> select, parameters |-> <<"id">>, declared |-> {}]
Declared(reads) == [Asked(Select(<<items>>, OfItem, [k |-> k])) EXCEPT !.declared = reads]
Grant(where) == Where(From(Named("app", "grants"), "g"), where)
ItemRead(columns) == DependsOnRow("items", columns, {[column |-> "k", input |-> "id"]})
Listed == Select(<<From(Named("app", "listed"), "i")>>, OfItem, v)

Queries ==
    [bound |-> Asked(Select(<<items>>, OfItem, v)),
     either |-> Asked(Select(<<items>>, Or(OfItem, Eq(Column("", "v"), Param(1))), v)),
     other |-> Asked(Select(<<items>>, Not(OfItem), v)),
     pair |-> [Asked(Select(<<items, From(Named("app", "items"), "j")>>,
                            And(OfItem, Eq(Column("j", "v"), Param(2))), v)) EXCEPT !.parameters = <<"id", "other">>],
     related |-> Asked(Select(<<items>>, Exists(Grant(And(Eq(Column("g", "k"), k), Eq(Column("", "w"), Param(1))))), v)),
     outer |-> Asked(Select(<<items>>, Exists(Grant(Eq(Param(1), Column("", "v")))), [k |-> k])),
     joined |-> Asked(Select(<<items, From(Named("app", "grants"), "g")>>,
                             And(Eq(Column("", "w"), Param(1)), Eq(k, Column("g", "k"))), v)),
     view |-> Asked(Select(<<From(Named("app", "granted"), "x")>>, Eq(Column("x", "k"), Param(1)),
                           [k |-> Column("x", "k")])),
     invoker |-> Asked(Select(<<From(Named("app", "mine"), "x")>>, Eq(Column("x", "k"), Param(1)),
                              [w |-> Column("x", "w")])),
     listed |-> Asked(Listed),
     listedLocked |-> Asked(Locking(Listed)),
     hidden |-> Asked(With("grants", Select(<<items>>, OfItem, v),
                           Select(<<From(Named("", "grants"), "g")>>, Const(TRUE), [v |-> Column("g", "v")]))),
     called |-> Asked(Select(<<items>>, And(OfItem, Call(Named("app", "may"), k)), v)),
     stored |-> Asked(Select(<<items>>, And(OfItem, Call(Named("app", "stored"), k)), v)),
     locked |-> Asked(Locking(Select(<<items>>, OfItem, v))),
     inner |-> Asked(Select(<<FromQuery(Locking(Select(<<items>>, OfItem, v)), "s")>>, Const(TRUE),
                            [v |-> Column("s", "v")])),
     union |-> Asked(Union(<<Select(<<items>>, OfItem, v), Grant(Eq(Column("g", "w"), Param(1)))>>)),
     byName |-> Asked(Select(<<From(Named("", "grants"), "g")>>, Eq(Column("g", "k"), Param(1)),
                             [w |-> Column("g", "w")])),
     found |-> Asked(Select(<<From(Named("public", "grants"), "g"), items>>, Eq(k, Column("g", "k")), v)),
     opaque |-> Asked(Select(<<items>>, Call(Named("app", "opaque"), k), v)),
     now |-> Asked(Select(<<items>>, Eq(k, Call(Named("", "now"), Const(1))), v)),
     session |-> Asked(Select(<<items>>, Eq(k, SessionValue), v)),
     declared |-> Declared({ItemRead({"k"})}),
     half |-> Declared({ItemRead({"k"}), DependsOnRow("grants", {"k"}, {})}),
     decoyed |-> Declared({ItemRead({"k", "v", "*"}), DependsOnRow("decoy", {"k", "w", "*"}, {}),
                           DependsOnRow("bans", {"k", "*"}, {})}),
     whole |-> Declared({ItemRead({"k", "v", "*"}), DependsOnRow("grants", {"k", "w", "*"}, {}),
                         DependsOnRow("bans", {"k", "*"}, {})})]

\* The role the compiler is told and the one that asks: roles matter where a policy
\* names one.  The order of the path matters where a name has no schema.
Roles == {<<"", "app">>, <<"app", "app">>, <<"", "auditor">>}
mcSetting ==
    {<<q, p, g, r, path>> \in (DOMAIN Queries) \X (DOMAIN ItemPolicies) \X (DOMAIN GrantPolicies) \X Roles
                              \X {<<"app">>, <<"public", "app">>} :
        /\ path = <<"app">> \/ q \in {"byName", "called", "found"} \/ p \in {"may", "none"}
        /\ r = <<"", "app">> \/ g = "chain" \/ p = "grant"}
mcCatalogOf == [s \in mcSetting |-> Catalogs(ItemPolicies[s[2]], GrantPolicies[s[3]], s[4][1], s[5])]
mcQueryOf == [s \in mcSetting |-> Queries[s[1]]]
mcUserOf == [s \in mcSetting |-> s[4][2]]

Item(a, b) == [k |-> a, v |-> b]
GrantOf(a, b) == [k |-> a, w |-> b]
mcChoices ==
    [items |-> <<{Item(1, 1), Item(1, 2), Item(2, 1)}, {Item(2, 1)}>>,
     grants |-> <<{GrantOf(1, 1), GrantOf(1, 2), GrantOf(2, 1)}>>,
     bans |-> <<{[k |-> 1]}>>,
     decoy |-> <<{GrantOf(1, 1)}>>]
mcInput == [id |-> 1, other |-> 2]
=============================================================================
