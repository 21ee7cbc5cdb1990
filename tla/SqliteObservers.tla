-------------------------- MODULE SqliteObservers --------------------------
(***************************************************************************)
(* Engines that share one DatabaseSync (sqlite/index.ts): the serial queue *)
(* of the connection, the validation each engine pins for its commands,    *)
(* and the temporary observer triggers, of which the connection holds one  *)
(* set that prepare() replaces when another engine's policy takes over.    *)
(***************************************************************************)
EXTENDS Naturals, Sequences

CONSTANTS
    Engine,         \* engines bound to the connection, each with its policy
    Table,          \* resources' tables
    Registered,     \* [Engine -> SUBSET Table]
    Position,       \* [Table -> Nat]: the order of the resource definitions
    Missing,        \* registered tables the database does not have
    Caller,         \* concurrent calls of an engine method
    EngineOf,       \* [Caller -> Engine]
    NoEngine        \* no observers installed, or no validation pinned

ASSUME ObserversAssumption ==
    /\ Registered \in [Engine -> SUBSET Table]
    /\ EngineOf \in [Caller -> Engine]
    /\ NoEngine \notin Engine \cup Caller

VARIABLES
    queue,      \* jobs waiting for the connection, oldest first
    pinned,     \* [Engine -> caller whose validation is pinned, or NoEngine]
    report,     \* [Caller -> "none" | "pending" | "verified" | "unavailable"]
    pc,         \* [Caller -> progress of its call]
    snapshot,   \* [Caller -> the validation its command pinned]
    assessment, \* [Caller -> what its command returns for its endpoints]
    active,     \* activeObservers: the engine whose key is recorded
    installed   \* [Table -> engine whose triggers are on the table]

vars == <<queue, pinned, report, pc, snapshot, assessment, active, installed>>

Job(kind, caller) == [kind |-> kind, caller |-> caller]
Running(caller) == pc[caller] = "running"

-----------------------------------------------------------------------------
(* prepare() and installObservers(). *)

\* The creation of triggers stops at the first table that does not exist.
Reached(engine, table) ==
    \A m \in Missing \cap Registered[engine] : Position[table] < Position[m]

Dropped(engine, table) ==
    \/ active # NoEngine /\ table \in Registered[active]
    \/ /\ table \in Registered[engine]
       /\ \A m \in Missing \cap Registered[engine] : Position[table] <= Position[m]

InstallObservers(engine) ==
    installed' = [t \in Table |->
        IF t \in Registered[engine] /\ Reached(engine, t) THEN engine
        ELSE IF Dropped(engine, t) THEN NoEngine ELSE installed[t]]

Installs(engine) == Missing \cap Registered[engine] = {}

\* Fault: any recorded key is taken as current.
MutantPrepare(engine, force) ==
    IF ~force /\ active # NoEngine
    THEN UNCHANGED <<active, installed>>
    ELSE /\ InstallObservers(engine)
         /\ active' = IF Installs(engine) THEN engine ELSE active

\* The recorded key changes only when every trigger was created.
Prepare(engine, force) ==
    IF ~force /\ active = engine
    THEN UNCHANGED <<active, installed>>
    ELSE /\ InstallObservers(engine)
         /\ active' = IF Installs(engine) THEN engine ELSE active

\* Fault: jobs do not wait for the older ones.
MutantTurn(kind, caller) == \E i \in DOMAIN queue : queue[i] = Job(kind, caller)

\* The serial queue: a job runs when it is the oldest, and leaves when it ends.
Turn(kind, caller) == queue # <<>> /\ Head(queue) = Job(kind, caller)

-----------------------------------------------------------------------------
Init ==
    /\ queue = <<>>
    /\ pinned = [e \in Engine |-> NoEngine]
    /\ report = [c \in Caller |-> "none"]
    /\ pc = [c \in Caller |-> "idle"]
    /\ snapshot = [c \in Caller |-> NoEngine]
    /\ assessment = [c \in Caller |-> "none"]
    /\ active = NoEngine
    /\ installed = [t \in Table |-> NoEngine]

\* engine.validate(): a fresh validation, pinned when it is started.
Validate(caller) ==
    /\ pc[caller] = "idle"
    /\ queue' = Append(queue, Job("validate", caller))
    /\ pinned' = [pinned EXCEPT ![EngineOf[caller]] = caller]
    /\ report' = [report EXCEPT ![caller] = "pending"]
    /\ pc' = [pc EXCEPT ![caller] = "validating"]
    /\ UNCHANGED <<snapshot, assessment, active, installed>>

\* engine.command(): the first command of an engine starts a validation too.
Command(caller) ==
    LET engine == EngineOf[caller]
    IN /\ pc[caller] = "idle"
       /\ pc' = [pc EXCEPT ![caller] = "awaiting"]
       /\ IF pinned[engine] = NoEngine
          THEN /\ queue' = Append(queue, Job("validate", caller))
               /\ pinned' = [pinned EXCEPT ![engine] = caller]
               /\ report' = [report EXCEPT ![caller] = "pending"]
          ELSE UNCHANGED <<queue, pinned, report>>
       /\ snapshot' = [snapshot EXCEPT ![caller] = pinned'[engine]]
       /\ UNCHANGED <<assessment, active, installed>>

\* runValidation's job: it installs the observers even when they look current.
RunValidation(caller) ==
    LET engine == EngineOf[caller]
    IN /\ Turn("validate", caller)
       /\ Prepare(engine, TRUE)
       /\ report' = [report EXCEPT ![caller] =
                        IF Installs(engine) THEN "verified" ELSE "unavailable"]
       /\ pc' = [pc EXCEPT ![caller] = IF @ = "validating" THEN "done" ELSE @]
       /\ queue' = Tail(queue)
       /\ UNCHANGED <<pinned, snapshot, assessment>>

\* Fault: the pinned validation is not awaited.
MutantArrived(caller) == TRUE
\* Fault: the command awaits a validation of its own.
MutantOwnArrived(caller) == report[caller] \notin {"none", "pending"}
Arrived(caller) == report[snapshot[caller]] # "pending"

\* The awaited report arrived: copy it and queue the command itself.
Enqueue(caller) ==
    /\ pc[caller] = "awaiting"
    /\ Arrived(caller)
    /\ assessment' = [assessment EXCEPT ![caller] = report[snapshot[caller]]]
    /\ queue' = Append(queue, Job("command", caller))
    /\ pc' = [pc EXCEPT ![caller] = "queued"]
    /\ UNCHANGED <<pinned, report, snapshot, active, installed>>

\* The command's job starts: prepare(), whose failure makes every endpoint
\* unavailable, then the transaction.
StartCommand(caller) ==
    LET engine == EngineOf[caller]
    IN /\ Turn("command", caller)
       /\ pc[caller] = "queued"
       /\ Prepare(engine, FALSE)
       /\ assessment' = [assessment EXCEPT ![caller] =
                            IF active = engine \/ Installs(engine) THEN @ ELSE "unavailable"]
       /\ pc' = [pc EXCEPT ![caller] = "running"]
       /\ UNCHANGED <<queue, pinned, report, snapshot>>

\* The callback settled and the transaction ended; the next job may run.
FinishCommand(caller) ==
    /\ Turn("command", caller)
    /\ Running(caller)
    /\ pc' = [pc EXCEPT ![caller] = "done"]
    /\ queue' = Tail(queue)
    /\ UNCHANGED <<pinned, report, snapshot, assessment, active, installed>>

\* What the event loop does without the application.
Progress(caller) ==
    RunValidation(caller) \/ Enqueue(caller) \/ StartCommand(caller) \/ FinishCommand(caller)

Next == \E caller \in Caller : Validate(caller) \/ Command(caller) \/ Progress(caller)

\* The event loop runs every settled promise; the application's callback
\* settles.  Nothing forces the application to call an engine at all.
Fairness == \A caller \in Caller : WF_vars(Progress(caller))

Spec == Init /\ [][Next]_vars /\ Fairness

-----------------------------------------------------------------------------
(* Properties. *)

Places == {"idle", "validating", "awaiting", "queued", "running", "done"}
Reports == {"none", "pending", "verified", "unavailable"}

\* Every variable has its type; an assessment in use is never a pending one.
TypeOK ==
    /\ queue \in Seq([kind : {"validate", "command"}, caller : Caller])
    /\ pinned \in [Engine -> Caller \cup {NoEngine}]
    /\ report \in [Caller -> Reports]
    /\ pc \in [Caller -> Places]
    /\ snapshot \in [Caller -> Caller \cup {NoEngine}]
    /\ assessment \in [Caller -> Reports \ {"pending"}]
    /\ active \in Engine \cup {NoEngine}
    /\ installed \in [Table -> Engine \cup {NoEngine}]

\* While a command whose endpoints are still called verified runs, every one of
\* its tables carries the triggers of its own engine, whatever other engines
\* validated or ran in between, provided that their tables exist (Missing = {};
\* packages/sdi-sqlite/README.md, "Shared managed connections serialize commands and
\* switch observer definitions as needed").  It fails where a table is missing: the
\* installation stops after it dropped the triggers that the key still names
\* (sqlite/index.ts:207-208, 372).
OwnObservers ==
    \A caller \in Caller :
        Running(caller) /\ assessment[caller] = "verified" =>
            \A t \in Registered[EngineOf[caller]] : installed[t] = EngineOf[caller]

\* Two transactions never overlap on the connection.
OneTransaction ==
    \A c, d \in Caller : Running(c) /\ Running(d) => c = d

\* Every call on an engine eventually settles: a command waits first for a
\* validation and then, from the back of the queue, for the connection.
EveryCallSettles ==
    \A caller \in Caller : pc[caller] # "idle" ~> pc[caller] = "done"
=============================================================================
