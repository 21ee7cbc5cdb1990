--------------------------- MODULE MCCommandGuard ---------------------------
(***************************************************************************)
(* A command with up to three calls: a stream and an operation inside a    *)
(* savepoint, or a stream inside a savepoint inside a savepoint.  Two      *)
(* requests to streams may be unanswered at a time: a next that waits with *)
(* a return or a throw behind it, one to each of two streams, or one that  *)
(* comes before the return of settle.                                      *)
(***************************************************************************)
EXTENDS CommandGuard
=============================================================================
