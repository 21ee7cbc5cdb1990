------------------------- MODULE MCSqliteObservers -------------------------
(***************************************************************************)
(* Two engines on one connection with a table of their own and one they    *)
(* share, and four concurrent calls.                                       *)
(***************************************************************************)
EXTENDS SqliteObservers, TLC

mcEngine == {"orders", "users"}
mcTable == {"accounts", "carts", "logs"}
mcRegistered == ("orders" :> {"accounts", "carts"}) @@ ("users" :> {"accounts", "logs"})
mcPosition == ("accounts" :> 2) @@ ("carts" :> 3) @@ ("logs" :> 1)
mcCaller == {"c1", "c2", "c3", "c4"}
mcEngineOf == ("c1" :> "orders") @@ ("c2" :> "orders") @@ ("c3" :> "users") @@ ("c4" :> "users")
=============================================================================
