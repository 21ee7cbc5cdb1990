----------------------------- MODULE MCPostgres -----------------------------
(***************************************************************************)
(* Writing orders defers a trigger that writes stock; run at the boundary, *)
(* that trigger defers again one that writes ledger, as late_source,       *)
(* late_queue and late_effect do in the integration tests.                 *)
(***************************************************************************)
EXTENDS PostgresCommand, TLC

mcTable == {"orders", "stock", "ledger", "totals"}
mcView == {"totals"}
mcFollowUp == ("orders" :> {"stock"}) @@ ("stock" :> {"ledger"}) @@ ("ledger" :> {}) @@ ("totals" :> {})
=============================================================================
