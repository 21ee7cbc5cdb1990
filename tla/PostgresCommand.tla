-------------------------- MODULE PostgresCommand --------------------------
(***************************************************************************)
(* Commands on the PostgreSQL adapter (postgres/index.ts, tracked-db.ts,   *)
(* observer.ts, connection.ts) over a pool of connections, with the guard  *)
(* of the callback's database object (runtime/guard.ts) and a migration    *)
(* that competes for the transaction gate.                                 *)
(*                                                                         *)
(* The client's side is a program counter and the guard's frames, one per  *)
(* open savepoint.  The server's side is one session per connection.       *)
(* Calls between the two may fail with an error of the server, or lose the *)
(* connection before or after the server has acted.  What a statement      *)
(* writes is abstracted to the table it writes.                            *)
(***************************************************************************)
EXTENDS Naturals, Sequences

CONSTANTS
    Command,        \* commands, of one database handle
    Connection,     \* connections of its pool
    Table,          \* registered resources
    Direct,         \* the resources the callbacks' own statements write
    View,           \* the materialized views among them, noted by the client
    FollowUp,       \* [Table -> tables its deferred trigger writes]
    Caught,         \* tables whose deferred writer catches its own error
    CanDiscard,     \* the driver can destroy a single connection
    LossCodes,      \* error codes of a driver that lost its connection
    FiveCharacters, \* the codes made of five digits or capital letters
    NoOne,          \* no connection
    MaxStatements,  \* bound: statements and savepoints of a command
    MaxSavepoints   \* bound: nesting of savepoints

ASSUME PostgresAssumption ==
    /\ View \subseteq Table /\ Direct \subseteq Table
    /\ FollowUp \in [Table -> SUBSET Table]
    /\ CanDiscard \in BOOLEAN
    /\ NoOne \notin Connection
    /\ MaxStatements \in Nat /\ MaxSavepoints \in Nat

VARIABLES
    pool,           \* [Connection -> "free" | "held" | "lost"]
    quarantined,    \* quarantinedDatabases has the handle
    server,         \* [Connection -> the state of its session]
    durable,        \* what each command has committed
    migration,      \* "idle", "waiting", "changing"
    step,           \* [Command -> where the client is]
    conn,           \* [Command -> its connection]
    frames,         \* [Command -> the guards of the callback and its savepoints]
    statements,     \* [Command -> bound: statements and savepoints so far]
    observed,       \* [Command -> rows drained before COMMIT]
    broken,         \* [Command -> its connection must not be reused]
    outcome,        \* [Command -> how its promise settles]
    answer,         \* [Command -> facts and unavailable resources it reports]
    replyLost       \* ghost: [Command -> the connection broke during COMMIT]

client == <<step, conn, frames, statements, observed, broken, outcome, answer, replyLost>>
vars == <<pool, quarantined, server, durable, migration, client>>

NoTransaction ==
    [link |-> "up", tx |-> "none", phase |-> "off",
     wrote |-> {}, collector |-> {}, queued |-> {}, marks |-> <<>>]
Down == [NoTransaction EXCEPT !.link = "down"]
Collecting == [NoTransaction EXCEPT !.tx = "open", !.phase = "collecting"]

\* done is a ghost: the statements the application has seen succeed.
NewFrame == [pending |-> {}, failed |-> FALSE, noted |-> {}, done |-> {}]

Session(c) == server[conn[c]]
Depth(c) == Len(frames[c])
Inner(c) == frames[c][Depth(c)]
FollowUps(tables) == UNION {FollowUp[t] : t \in tables}
OwnWrites(c) == {w[2] : w \in {d \in durable : d[1] = c}}

ServerIs(c, session) == server' = [server EXCEPT ![conn[c]] = session]
GoTo(c, next) == step' = [step EXCEPT ![c] = next]

\* An error inside a transaction aborts it; losing the connection ends it.
Failures(session) ==
    {Down} \cup
    (IF session.link = "down" THEN {}
     ELSE IF session.tx = "none" THEN {session}
     ELSE {[session EXCEPT !.tx = "aborted"]})

Usable(session) == session.link = "up" /\ session.tx = "open"

-----------------------------------------------------------------------------
Init ==
    /\ pool = [k \in Connection |-> "free"]
    /\ quarantined = FALSE
    /\ server = [k \in Connection |-> NoTransaction]
    /\ durable = {}
    /\ migration = "idle"
    /\ step = [c \in Command |-> "idle"]
    /\ conn = [c \in Command |-> NoOne]
    /\ frames = [c \in Command |-> <<>>]
    /\ statements = [c \in Command |-> 0]
    /\ observed = [c \in Command |-> {}]
    /\ broken = [c \in Command |-> FALSE]
    /\ outcome = [c \in Command |-> "none"]
    /\ answer = [c \in Command |-> [facts |-> {}, unavailable |-> {}]]
    /\ replyLost = [c \in Command |-> FALSE]

-----------------------------------------------------------------------------
(* The start of a command. *)

Reserve(c) ==
    /\ step[c] = "idle"
    /\ ~quarantined
    /\ \E k \in Connection :
          /\ pool[k] = "free"
          /\ pool' = [pool EXCEPT ![k] = "held"]
          /\ conn' = [conn EXCEPT ![c] = k]
    /\ GoTo(c, "preamble")
    /\ UNCHANGED <<quarantined, server, durable, migration, frames, statements,
                   observed, broken, outcome, answer, replyLost>>

\* POSTGRES_CONNECTION_QUARANTINED
Refuse(c) ==
    /\ step[c] = "idle"
    /\ quarantined
    /\ GoTo(c, "done")
    /\ outcome' = [outcome EXCEPT ![c] = "rejected"]
    /\ UNCHANGED <<pool, quarantined, server, durable, migration, conn, frames, statements,
                   observed, broken, answer, replyLost>>

\* Fault: the preamble does not lock the gate.
MutantGateFree == TRUE
GateFree == migration = "idle"

\* BEGIN, the gate in ACCESS SHARE mode, behind any migration that waits for
\* it, the collector and the settings, then the application's setup.
Preamble(c) ==
    /\ step[c] = "preamble"
    /\ Session(c).link = "up"
    /\ GateFree
    /\ ServerIs(c, Collecting)
    /\ frames' = [frames EXCEPT ![c] = <<NewFrame>>]
    /\ GoTo(c, "working")
    /\ UNCHANGED <<pool, quarantined, durable, migration, conn, statements, observed, broken,
                   outcome, answer, replyLost>>

PreambleFails(c) ==
    /\ step[c] = "preamble"
    /\ GateFree
    /\ \E session \in Failures(Collecting) \cup {Collecting} : ServerIs(c, session)
    /\ GoTo(c, "rollback")
    /\ UNCHANGED <<pool, quarantined, durable, migration, conn, frames, statements, observed,
                   broken, outcome, answer, replyLost>>

-----------------------------------------------------------------------------
(* The callback: statements and savepoints through the guard. *)

WithFrame(c, i, frame) == frames' = [frames EXCEPT ![c] = [@ EXCEPT ![i] = frame]]

\* An admitted operation is pending until the driver settles it.  The parent's
\* object refuses every call while a savepoint is open, and a closed one too.
Issue(c, table) ==
    /\ step[c] = "working"
    /\ statements[c] < MaxStatements
    /\ table \notin Inner(c).pending
    /\ statements' = [statements EXCEPT ![c] = @ + 1]
    /\ WithFrame(c, Depth(c), [Inner(c) EXCEPT !.pending = @ \cup {table}])
    /\ UNCHANGED <<pool, quarantined, server, durable, migration, step, conn, observed, broken,
                   outcome, answer, replyLost>>

\* The statement trigger: sealed raises, no token ignores, collecting collects.
Written(session, table) ==
    [session EXCEPT !.wrote = @ \cup {table},
                    !.collector = IF table \in View THEN @ ELSE @ \cup {table},
                    !.queued = @ \cup FollowUp[table]]

\* Outside a transaction the server commits the statement by itself.
Execute(c, i, table) ==
    /\ i \in DOMAIN frames[c] /\ table \in frames[c][i].pending
    /\ Session(c).link = "up" /\ Session(c).tx # "aborted"
    /\ Session(c).phase # "sealed" \/ table \in View
    /\ IF Session(c).tx = "open"
       THEN ServerIs(c, Written(Session(c), table)) /\ UNCHANGED durable
       ELSE durable' = durable \cup {<<c, table>>} /\ UNCHANGED server
    /\ WithFrame(c, i, [frames[c][i] EXCEPT
                           !.pending = @ \ {table},
                           !.noted = IF table \in View THEN @ \cup {table} ELSE @,
                           !.done = @ \cup {table}])
    /\ UNCHANGED <<pool, quarantined, migration, step, conn, statements, observed, broken,
                   outcome, answer, replyLost>>

\* Fault: a failed operation is never settled.
MutantStillPending(frame, table) == [frame EXCEPT !.failed = TRUE]

\* The application may catch the error; the guard remembers it.
FailedFrame(frame, table) == [frame EXCEPT !.pending = @ \ {table}, !.failed = TRUE]

ExecuteFails(c, i, table) ==
    /\ i \in DOMAIN frames[c] /\ table \in frames[c][i].pending
    /\ \E session \in Failures(Session(c)) : ServerIs(c, session)
    /\ WithFrame(c, i, FailedFrame(frames[c][i], table))
    /\ UNCHANGED <<pool, quarantined, durable, migration, step, conn, statements, observed,
                   broken, outcome, answer, replyLost>>

\* Fault: a savepoint may start while an operation is pending.
MutantOverlapping(c) == TRUE
NoneOverlaps(c) == Inner(c).pending = {}

\* Refused with OVERLAPPING_SAVEPOINT while an operation is pending.
Savepoint(c) ==
    /\ step[c] = "working"
    /\ statements[c] < MaxStatements
    /\ Depth(c) <= MaxSavepoints
    /\ NoneOverlaps(c)
    /\ Usable(Session(c))
    /\ statements' = [statements EXCEPT ![c] = @ + 1]
    /\ LET s == Session(c)
           mark == [wrote |-> s.wrote, collector |-> s.collector, queued |-> s.queued]
       IN ServerIs(c, [s EXCEPT !.marks = Append(@, mark)])
    /\ frames' = [frames EXCEPT ![c] = Append(@, NewFrame)]
    /\ UNCHANGED <<pool, quarantined, durable, migration, step, conn, observed, broken, outcome,
                   answer, replyLost>>

\* SAVEPOINT itself failed: no child was started, and the guard keeps no record.
SavepointFails(c) ==
    /\ step[c] = "working"
    /\ statements[c] < MaxStatements
    /\ Depth(c) <= MaxSavepoints
    /\ NoneOverlaps(c)
    /\ \E session \in Failures(Session(c)) : ServerIs(c, session)
    /\ statements' = [statements EXCEPT ![c] = @ + 1]
    /\ UNCHANGED <<pool, quarantined, durable, migration, step, conn, frames, observed, broken,
                   outcome, answer, replyLost>>

Outer(s) == SubSeq(s, 1, Len(s) - 1)

\* writes.merge(child.writes), and a child that is dropped.
Merged(fs) ==
    LET n == Len(fs)
        parent == [fs[n - 1] EXCEPT !.noted = @ \cup fs[n].noted, !.done = @ \cup fs[n].done]
    IN [Outer(fs) EXCEPT ![n - 1] = parent]
\* Fault: a savepoint that fails is merged all the same.
MutantDiscarded(fs) == Merged(fs)
Discarded(fs) == Outer(fs)

\* Fault: the savepoint is not released.
MutantReleasedMarks(marks) == marks
ReleasedMarks(marks) == Outer(marks)

\* The child callback resolved, its guard found nothing pending or failed, and
\* RELEASE succeeded: the child's write set is merged into the parent's.
ReleaseSavepoint(c) ==
    /\ step[c] \in {"working", "settling"}
    /\ Depth(c) > 1
    /\ Inner(c).pending = {} /\ ~Inner(c).failed
    /\ Usable(Session(c))
    /\ ServerIs(c, [Session(c) EXCEPT !.marks = ReleasedMarks(@)])
    /\ frames' = [frames EXCEPT ![c] = Merged(@)]
    /\ UNCHANGED <<pool, quarantined, durable, migration, step, conn, statements, observed,
                   broken, outcome, answer, replyLost>>

\* The child rejected, or its guard or RELEASE failed.  Its operations settle
\* first; ROLLBACK TO also revives an aborted transaction.  The parent's guard
\* does not record a failed savepoint.
RollbackSavepoint(c) ==
    /\ step[c] \in {"working", "settling"}
    /\ Depth(c) > 1
    /\ Inner(c).pending = {}
    /\ \/ /\ Session(c).link = "up"
          /\ LET s == Session(c)
                 mark == s.marks[Len(s.marks)]
             IN ServerIs(c, [s EXCEPT !.tx = "open", !.marks = Outer(@), !.wrote = mark.wrote,
                                      !.collector = mark.collector, !.queued = mark.queued])
       \/ ServerIs(c, Down)
    /\ frames' = [frames EXCEPT ![c] = Discarded(@)]
    /\ UNCHANGED <<pool, quarantined, durable, migration, step, conn, statements, observed,
                   broken, outcome, answer, replyLost>>

\* The callback resolved and guarded.finish() found nothing: the guard closes.
Finish(c) ==
    /\ step[c] = "working"
    /\ Depth(c) = 1
    /\ Inner(c).pending = {} /\ ~Inner(c).failed
    /\ GoTo(c, "constrain")
    /\ UNCHANGED <<pool, quarantined, server, durable, migration, conn, frames, statements,
                   observed, broken, outcome, answer, replyLost>>

\* The callback rejected, or finish() found a pending or a failed operation.
\* The guard and its children close; what was admitted still runs.
WorkFails(c) ==
    /\ step[c] = "working"
    /\ GoTo(c, "settling")
    /\ UNCHANGED <<pool, quarantined, server, durable, migration, conn, frames, statements,
                   observed, broken, outcome, answer, replyLost>>

\* Fault: pending operations are not awaited before ROLLBACK.
MutantQuiet(c) == Depth(c) = 1
Quiet(c) == Depth(c) = 1 /\ Inner(c).pending = {}

\* guarded.settle(); the clean-up of a stream may fail.
Settle(c) ==
    /\ step[c] = "settling"
    /\ Quiet(c)
    /\ \E streamsFailed \in BOOLEAN : broken' = [broken EXCEPT ![c] = streamsFailed]
    /\ GoTo(c, "rollback")
    /\ UNCHANGED <<pool, quarantined, server, durable, migration, conn, frames, statements,
                   observed, outcome, answer, replyLost>>

-----------------------------------------------------------------------------
(* The observation boundary and the commit. *)

\* SET CONSTRAINTS ALL IMMEDIATE runs the deferred triggers, which may defer
\* their own again.
Constrain(c) ==
    /\ step[c] = "constrain"
    /\ Usable(Session(c))
    /\ LET s == Session(c)
       IN ServerIs(c, [s EXCEPT !.wrote = @ \cup s.queued,
                                !.collector = @ \cup (s.queued \ View),
                                !.queued = FollowUps(s.queued)])
    /\ GoTo(c, "drain")
    /\ UNCHANGED <<pool, quarantined, durable, migration, conn, frames, statements, observed,
                   broken, outcome, answer, replyLost>>

Drain(c) ==
    /\ step[c] = "drain"
    /\ Usable(Session(c))
    /\ observed' = [observed EXCEPT ![c] = Session(c).collector]
    /\ ServerIs(c, [Session(c) EXCEPT !.collector = {}])
    /\ GoTo(c, "seal")
    /\ UNCHANGED <<pool, quarantined, durable, migration, conn, frames, statements, broken,
                   outcome, answer, replyLost>>

\* Fault: the collector is left collecting after the drain.
MutantSealed(session) == session
Sealed(session) == [session EXCEPT !.phase = "sealed"]

Seal(c) ==
    /\ step[c] = "seal"
    /\ Usable(Session(c))
    /\ ServerIs(c, Sealed(Session(c)))
    /\ GoTo(c, "commit")
    /\ UNCHANGED <<pool, quarantined, durable, migration, conn, frames, statements, observed,
                   broken, outcome, answer, replyLost>>

BoundaryFails(c) ==
    /\ step[c] \in {"constrain", "drain", "seal"}
    /\ \E session \in Failures(Session(c)) : ServerIs(c, session)
    /\ GoTo(c, "rollback")
    /\ UNCHANGED <<pool, quarantined, durable, migration, conn, frames, statements, observed,
                   broken, outcome, answer, replyLost>>

\* What COMMIT makes durable: a trigger still deferred runs first.  Sealed, its
\* write raises, and unless the trigger catches that the commit is refused.
Refused(session) == session.phase = "sealed" /\ session.queued \ Caught # {}
CommittedBy(session) ==
    session.wrote \cup (IF session.phase = "sealed" THEN {} ELSE session.queued)

\* COMMIT of an aborted transaction rolls back, and answers without an error.
Commit(c) ==
    /\ step[c] = "commit"
    /\ Session(c).link = "up"
    /\ ~Refused(Session(c))
    /\ durable' = durable \cup
          (IF Session(c).tx = "open" THEN {c} \X CommittedBy(Session(c)) ELSE {})
    /\ ServerIs(c, NoTransaction)
    /\ outcome' = [outcome EXCEPT ![c] = "returned"]
    /\ GoTo(c, "release")
    /\ UNCHANGED <<pool, quarantined, migration, conn, frames, statements, observed, broken,
                   answer, replyLost>>

\* An error of the server, with its SQLSTATE: the transaction is over.
CommitRejected(c) ==
    /\ step[c] = "commit"
    /\ Session(c).link = "up"
    /\ ServerIs(c, NoTransaction)
    /\ GoTo(c, "rollback")
    /\ UNCHANGED <<pool, quarantined, durable, migration, conn, frames, statements, observed,
                   broken, outcome, answer, replyLost>>

\* The connection broke before or after the server committed.  The code tells a
\* rejection by five digits or capitals, but for 08... and 40003.
ConnectionCodes == {"08006", "40003"}
IsRejection(code) == code \in FiveCharacters \ ConnectionCodes

CommitLost(c) ==
    /\ step[c] = "commit"
    /\ \/ UNCHANGED durable
       \/ /\ Usable(Session(c)) /\ ~Refused(Session(c))
          /\ durable' = durable \cup ({c} \X CommittedBy(Session(c)))
    /\ ServerIs(c, Down)
    /\ replyLost' = [replyLost EXCEPT ![c] = TRUE]
    /\ \E code \in LossCodes :
          IF IsRejection(code)
          THEN GoTo(c, "rollback") /\ UNCHANGED <<outcome, broken>>
          ELSE /\ outcome' = [outcome EXCEPT ![c] = "unknown"]
               /\ broken' = [broken EXCEPT ![c] = TRUE]
               /\ GoTo(c, "release")
    /\ UNCHANGED <<pool, quarantined, migration, conn, frames, statements, observed, answer>>

-----------------------------------------------------------------------------
(* The end of a command. *)

Rollback(c) ==
    /\ step[c] = "rollback"
    /\ \/ Session(c).link = "up" /\ ServerIs(c, NoTransaction) /\ UNCHANGED broken
       \/ ServerIs(c, Down) /\ broken' = [broken EXCEPT ![c] = TRUE]
    /\ outcome' = [outcome EXCEPT ![c] = "rejected"]
    /\ GoTo(c, "release")
    /\ UNCHANGED <<pool, quarantined, durable, migration, conn, frames, statements, observed,
                   answer, replyLost>>

\* Once the connection is back, the rows of a committed command become facts,
\* and a row that cannot be converted makes its resource unavailable.
Settled(c) ==
    /\ \E garbled \in SUBSET observed[c] :
          answer' = IF outcome[c] = "returned"
                    THEN [answer EXCEPT ![c] = [facts |-> Inner(c).noted \cup (observed[c] \ garbled),
                                                unavailable |-> garbled]]
                    ELSE answer
    /\ GoTo(c, "done")

Release(c) ==
    /\ step[c] = "release"
    /\ broken[c] => CanDiscard
    /\ pool' = [pool EXCEPT ![conn[c]] = "free"]
    /\ IF broken[c] THEN ServerIs(c, NoTransaction) ELSE UNCHANGED server
    /\ Settled(c)
    /\ UNCHANGED <<quarantined, durable, migration, conn, frames, statements, observed, broken,
                   outcome, replyLost>>

\* release() or discard() threw, or the driver cannot discard.
ReleaseFails(c) ==
    /\ step[c] = "release"
    /\ pool' = [pool EXCEPT ![conn[c]] = "lost"]
    /\ quarantined' = TRUE
    /\ Settled(c)
    /\ UNCHANGED <<server, durable, migration, conn, frames, statements, observed, broken,
                   outcome, replyLost>>

-----------------------------------------------------------------------------
(* A migration on a connection of its own. *)

\* Fault: the gate is locked for the session, until it is pooled again.
MutantGateShared == \E k \in Connection : pool[k] # "free"

\* A lock of the transaction, not of the session.
GateShared == \E k \in Connection : server[k].tx # "none"

RequestGate ==
    /\ migration = "idle"
    /\ migration' = "waiting"
    /\ UNCHANGED <<pool, quarantined, server, durable, client>>

LockGate ==
    /\ migration = "waiting"
    /\ ~GateShared
    /\ migration' = "changing"
    /\ UNCHANGED <<pool, quarantined, server, durable, client>>

EndMigration ==
    /\ migration = "changing"
    /\ migration' = "idle"
    /\ UNCHANGED <<pool, quarantined, server, durable, client>>

-----------------------------------------------------------------------------
Enter(c) == Preamble(c) \/ PreambleFails(c)

Advance(c) ==
    \/ \E i \in DOMAIN frames[c], table \in Direct : Execute(c, i, table) \/ ExecuteFails(c, i, table)
    \/ Settle(c) \/ Constrain(c) \/ Drain(c) \/ Seal(c) \/ BoundaryFails(c)
    \/ Commit(c) \/ CommitRejected(c) \/ CommitLost(c)
    \/ Rollback(c) \/ Release(c) \/ ReleaseFails(c)

\* Steps of the application's callback.
EndWork(c) == ReleaseSavepoint(c) \/ RollbackSavepoint(c) \/ Finish(c) \/ WorkFails(c)

Next ==
    \/ \E c \in Command :
          \/ Reserve(c) \/ Refuse(c)
          \/ \E table \in Direct : Issue(c, table)
          \/ Savepoint(c) \/ SavepointFails(c) \/ EndWork(c) \/ Enter(c) \/ Advance(c)
    \/ RequestGate \/ LockGate \/ EndMigration

\* Drivers settle their calls, callbacks end, the server grants a free lock and
\* a migration ends.  The lock queue is first in, first out, so that a command is
\* not overtaken by migrations forever.  Nothing makes an application call or a
\* migration start.
Fairness ==
    /\ \A c \in Command : SF_vars(Enter(c)) /\ WF_vars(Advance(c)) /\ WF_vars(EndWork(c))
    /\ WF_vars(LockGate) /\ WF_vars(EndMigration)

Spec == Init /\ [][Next]_vars /\ Fairness

-----------------------------------------------------------------------------
(* Properties. *)

Frame == [pending : SUBSET Table, failed : BOOLEAN, noted : SUBSET Table, done : SUBSET Table]
Mark == [wrote : SUBSET Table, collector : SUBSET Table, queued : SUBSET Table]
ServerSession ==
    [link : {"up", "down"}, tx : {"none", "open", "aborted"}, phase : {"off", "collecting", "sealed"},
     wrote : SUBSET Table, collector : SUBSET Table, queued : SUBSET Table, marks : Seq(Mark)]

\* The server holds one savepoint for each frame but the callback's own.
MarksMatch ==
    \A c \in Command : step[c] \in {"working", "settling"} /\ Session(c).link = "up" =>
        Len(Session(c).marks) + 1 = Depth(c)

Types ==
    /\ pool \in [Connection -> {"free", "held", "lost"}]
    /\ quarantined \in BOOLEAN
    /\ server \in [Connection -> ServerSession]
    /\ durable \in SUBSET (Command \X Table)
    /\ migration \in {"idle", "waiting", "changing"}
    /\ step \in [Command -> {"idle", "preamble", "working", "settling", "constrain", "drain", "seal",
                             "commit", "rollback", "release", "done"}]
    /\ conn \in [Command -> Connection \cup {NoOne}]
    /\ frames \in [Command -> Seq(Frame)]
    /\ statements \in [Command -> Nat]
    /\ observed \in [Command -> SUBSET Table]
    /\ broken \in [Command -> BOOLEAN]
    /\ outcome \in [Command -> {"none", "returned", "rejected", "unknown"}]
    /\ answer \in [Command -> [facts : SUBSET Table, unavailable : SUBSET Table]]
    /\ replyLost \in [Command -> BOOLEAN]

\* Every variable has its type, and the server's savepoints are those that the
\* client has open, however they were released, rolled back or lost (tracked-db.ts).
TypeOK == Types /\ MarksMatch

\* A command that returns has committed every statement its callback saw succeed
\* outside a rolled back savepoint.
ReturnedIsDurable ==
    \A c \in Command : outcome[c] = "returned" => frames[c][1].done \subseteq OwnWrites(c)

\* A command that rejects without CommitStateUnknownError has left nothing in
\* the database, not even from a statement it never awaited (semantics.md,
\* "Rollback and commit errors reject with no successful impact response").
RejectedIsGone ==
    \A c \in Command : outcome[c] = "rejected" => OwnWrites(c) = {}

\* Seen from its caller a command takes effect at one moment or not at all.  What
\* it changed for good, by its statements or by triggers deferred to the boundary
\* or to COMMIT itself, becomes durable in the step that decides its outcome, is
\* not added to later, and is exactly what its response tells or marks as
\* unavailable (postgres/index.ts:346-430, "Any registered write scheduled after
\* the drain aborts instead of committing unseen"); a decided command settles.
Promise == INSTANCE CommandPromise WITH
    stored <- [c \in Command |-> OwnWrites(c)],
    told <- [c \in Command |-> answer[c].facts \cup answer[c].unavailable],
    settled <- [c \in Command |-> step[c] = "done"]
ImplementsPromise == Promise!Spec

\* A pooled connection that another command may reserve carries no transaction,
\* no broken link and no statement of an earlier command that has yet to run.
PoolIsClean ==
    \A k \in Connection : pool[k] = "free" =>
        /\ server[k] = NoTransaction
        /\ \A c \in Command : conn[c] = k =>
              \A i \in DOMAIN frames[c] : frames[c][i].pending = {}

\* Schema changes of a migration never happen inside a running command, however
\* the command's transaction began (postgres-compatibility.md, the gate).
MigrationAlone == migration = "changing" => ~GateShared

\* A connection lost during COMMIT settles as CommitStateUnknownError.
LostCommitIsUnknown ==
    \A c \in Command : replyLost[c] => outcome[c] \in {"none", "unknown"}

\* Every command settles once it has a connection: its calls, its open savepoints
\* and its clean-up all end, and a migration is not allowed to starve it (gate).
CommandsSettle == \A c \in Command : step[c] = "preamble" ~> step[c] = "done"

\* A migration that waits for the gate gets it, although commands keep arriving.
MigrationProceeds == migration = "waiting" ~> migration = "changing"
=============================================================================
