--------------------------- MODULE CommandPromise ---------------------------
(***************************************************************************)
(* What a command promises to its caller, whatever the database and its    *)
(* driver do (the contract that index.ts and tracked-db.ts implement): it  *)
(* takes effect at one moment or not at all, its promise then settles, and *)
(* a command that returns tells of exactly what it stored.                 *)
(*                                                                         *)
(* There are no connections, transactions, triggers or savepoints here.    *)
(* PostgresCommand implements this specification.                          *)
(***************************************************************************)
CONSTANTS
    Command,
    Table       \* the resources a command can store into

VARIABLES
    outcome,    \* [Command -> what has become of it]
    stored,     \* [Command -> the resources it has changed for good]
    told,       \* [Command -> the resources its response reports]
    settled     \* [Command -> its caller has the outcome]

vars == <<outcome, stored, told, settled>>

Init ==
    /\ outcome = [c \in Command |-> "none"]
    /\ stored = [c \in Command |-> {}]
    /\ told = [c \in Command |-> {}]
    /\ settled = [c \in Command |-> FALSE]

Decides(c, result) == outcome[c] = "none" /\ outcome' = [outcome EXCEPT ![c] = result]

Return(c) ==
    /\ Decides(c, "returned")
    /\ \E tables \in SUBSET Table : stored' = [stored EXCEPT ![c] = tables]
    /\ UNCHANGED <<told, settled>>

Reject(c) == Decides(c, "rejected") /\ UNCHANGED <<stored, told, settled>>

\* CommitStateUnknownError: it may have taken effect, but only now.
LoseTrack(c) ==
    /\ Decides(c, "unknown")
    /\ \E tables \in SUBSET Table : stored' = [stored EXCEPT ![c] = tables]
    /\ UNCHANGED <<told, settled>>

\* A command that is not even started.
Refuse(c) ==
    /\ Decides(c, "rejected")
    /\ settled' = [settled EXCEPT ![c] = TRUE]
    /\ UNCHANGED <<stored, told>>

Settle(c) ==
    /\ outcome[c] # "none" /\ ~settled[c]
    /\ settled' = [settled EXCEPT ![c] = TRUE]
    /\ told' = IF outcome[c] = "returned" THEN [told EXCEPT ![c] = stored[c]] ELSE told
    /\ UNCHANGED <<outcome, stored>>

Next == \E c \in Command : Return(c) \/ Reject(c) \/ LoseTrack(c) \/ Refuse(c) \/ Settle(c)

Spec == Init /\ [][Next]_vars /\ \A c \in Command : WF_vars(Settle(c))
=============================================================================
