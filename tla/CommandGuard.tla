---------------------------- MODULE CommandGuard ----------------------------
(***************************************************************************)
(* The guard around the database object of a command (runtime/guard.ts):   *)
(* a tree of scopes, the callback's and one for each savepoint callback,   *)
(* with the calls that the application makes through each.  A call is an   *)
(* operation, a savepoint, or an async iterator (a cursor or a COPY) that  *)
(* the application pulls, returns, or forgets.                             *)
(*                                                                         *)
(* Promises settle in any order, so that nothing here relies on the        *)
(* application awaiting what it started.  The adapter drains and commits,  *)
(* or rolls back, when the root scope has settled; it releases a savepoint *)
(* or rolls back to it when that savepoint's scope has.                    *)
(***************************************************************************)
EXTENDS Naturals, Sequences, FiniteSets

CONSTANTS
    MaxCalls,     \* bound: calls of a command, in all of its scopes
    MaxRequests   \* bound: unanswered requests of the application to its iterators

ASSUME GuardAssumption == MaxCalls \in Nat /\ MaxRequests \in Nat

Call == 1..MaxCalls
Root == 0
Scope == {Root} \cup Call   \* the scope of a savepoint has the savepoint's number

VARIABLES
    issued,     \* how many calls have been made
    call,       \* [Call -> its kind, its scope, how far it is, whether it has been counted
                \*  down, and for an iterator the requests not answered, the first under way]
    guard       \* [Scope -> the state of guardDatabase, and the stage of its callback]

vars == <<issued, call, guard>>

Unused == [kind |-> "none", scope |-> Root, state |-> "unused", done |-> FALSE, requests |-> <<>>]
Closed == [open |-> FALSE, pending |-> 0, savepoint |-> FALSE, failed |-> FALSE,
           passed |-> FALSE, stage |-> "none"]
Opened == [Closed EXCEPT !.open = TRUE, !.stage = "callback"]

\* States in which a call has something under way on the connection.
OnConnection == {"running", "resumed", "starting", "releasing", "undoing"}
Ended == {"succeeded", "failed", "dropped", "uncleaned"}

InFlight(i) == call[i].state \in OnConnection
Listed(i) == call[i].kind = "stream" /\ ~call[i].done
Operations(s) == {i \in Call : call[i].scope = s /\ call[i].kind \in {"operation", "savepoint"}}
Streams(s) == {i \in Call : call[i].scope = s /\ call[i].kind = "stream"}
Unsettled(s) == {i \in Operations(s) \cup Streams(s) : call[i].state \notin Ended}

\* A scope and those around it: what every set that holds the scope, and with a
\* savepoint the scope it was started in, has in common.
Surrounding(T) == \A d \in T \ {Root} : call[d].scope \in T
Enclosing(s) == {a \in Scope : \A T \in SUBSET Scope : s \in T /\ Surrounding(T) => a \in T}
Inside(s) == {d \in Scope : guard[d].stage # "none" /\ s \in Enclosing(d)}

CallIs(i, state) == call' = [call EXCEPT ![i].state = state]

-----------------------------------------------------------------------------
Init ==
    /\ issued = 0
    /\ call = [i \in Call |-> Unused]
    /\ guard = [s \in Scope |-> IF s = Root THEN Opened ELSE Closed]

\* WRITE_CONTEXT_CLOSED and OVERLAPPING_SAVEPOINT refuse the others.
Admits(s) == guard[s].open /\ ~guard[s].savepoint

\* Fault: a savepoint only excludes other savepoints.
MutantNothingPending(s) == TRUE
NothingPending(s) == guard[s].pending = 0

Make(s, kind, state) ==
    /\ Admits(s)
    /\ issued < MaxCalls
    /\ issued' = issued + 1
    /\ call' = [call EXCEPT ![issued + 1] =
                   [kind |-> kind, scope |-> s, state |-> state, done |-> FALSE, requests |-> <<>>]]
    /\ guard' = [guard EXCEPT ![s].pending = @ + 1, ![s].savepoint = kind = "savepoint"]

Operation(s) == Make(s, "operation", "running")
OpenStream(s) == Make(s, "stream", "fresh")
Savepoint(s) == NothingPending(s) /\ Make(s, "savepoint", "starting")

\* A synchronous method, or the start of an operation, throws.
ThrowsAtOnce(s) ==
    /\ Admits(s)
    /\ ~guard[s].failed
    /\ guard' = [guard EXCEPT ![s].failed = TRUE]
    /\ UNCHANGED <<issued, call>>

\* Fault: the error of an operation that the application catches is forgotten.
MutantRemembers(failed, kind, error) == failed
\* A savepoint that fails is rolled back, and does not fail its parent.
Remembers(failed, kind, error) == failed \/ (error /\ kind # "savepoint")

\* Fault: finishIterator counts an iterator down each time it is called.
MutantDown(i) == 1
\* if (done) return.
Down(i) == IF call[i].done THEN 0 ELSE 1

\* A promise of call i has settled: finally, or finishIterator.
Counted(i, error) ==
    LET s == call[i].scope IN
    guard' = [guard EXCEPT
        ![s].pending = @ - Down(i),
        ![s].failed = Remembers(@, call[i].kind, error),
        ![s].savepoint = IF call[i].kind = "savepoint" THEN FALSE ELSE @]

Settles(i, state, error) ==
    /\ call' = [call EXCEPT ![i].state = state, ![i].done = TRUE]
    /\ Counted(i, error)
    /\ UNCHANGED issued

OperationEnds(i) ==
    /\ call[i].state = "running"
    /\ \/ Settles(i, "succeeded", FALSE)
       \/ Settles(i, "failed", TRUE)

-----------------------------------------------------------------------------
(* Async iterators.  They are async generators: a next, a return or a      *)
(* throw waits in a queue while one before it is under way, and one that   *)
(* comes to a generator that has ended is answered at once.                *)

\* A generator that was never pulled does not start for a return or a throw.
Enqueued(c, request) ==
    [c EXCEPT !.requests = Append(@, request),
              !.state = IF @ = "fresh" /\ request # "next" THEN "leaving"
                        ELSE IF @ \in {"fresh", "idle"} THEN "resumed" ELSE @]

Unanswered == UNION {{<<i, n>> : n \in DOMAIN call[i].requests} : i \in Call}

Ask(i, request) ==
    /\ call[i].kind = "stream"
    /\ Cardinality(Unanswered) < MaxRequests
    /\ call' = [call EXCEPT ![i] = Enqueued(call[i], request)]
    /\ UNCHANGED <<issued, guard>>

Pull(i) == guard[call[i].scope].open /\ ~call[i].done /\ Ask(i, "next")

\* The application leaves its loop, also after the guard has closed.
Return(i) == Ask(i, "return")
Throw(i) == Ask(i, "throw")

Yields(i) ==
    /\ call[i].state = "resumed"
    /\ Head(call[i].requests) = "next"
    /\ call' = [call EXCEPT ![i].requests = Tail(@),
                            ![i].state = IF Len(call[i].requests) = 1 THEN "idle" ELSE "resumed"]
    /\ UNCHANGED <<issued, guard>>

\* The request at the head is answered; settle asks past the wrapper, which then
\* neither counts nor remembers.
Answer(i, state, error) ==
    LET own == Head(call[i].requests) = "settle" IN
    /\ call' = [call EXCEPT ![i].requests = Tail(@), ![i].state = state, ![i].done = @ \/ ~own]
    /\ IF own THEN UNCHANGED guard ELSE Counted(i, error)
    /\ UNCHANGED issued

\* A clean-up that fails is the error of whoever asked for it, not of the guard.
Outcomes ==
    [next |-> {"succeeded", "failed"}, return |-> {"succeeded", "dropped"},
     throw |-> {"failed"}, settle |-> {"succeeded", "uncleaned"}]

GeneratorEnds(i) ==
    /\ call[i].state \in {"resumed", "leaving"}
    /\ \E state \in Outcomes[Head(call[i].requests)] :
          /\ call[i].state = "leaving" => state \in {"succeeded", "failed"}
          /\ Answer(i, state, state = "failed")

\* What had waited behind the end, or came after it: only a throw rejects.
AnswersLate(i) ==
    /\ call[i].state \in Ended
    /\ call[i].requests # <<>>
    /\ Answer(i, call[i].state, Head(call[i].requests) = "throw")

-----------------------------------------------------------------------------
(* Scopes. *)

\* SAVEPOINT succeeded: its callback gets a guard of its own, even if the
\* parent has closed meanwhile.
Enter(i) ==
    /\ call[i].state = "starting"
    /\ CallIs(i, "inside")
    /\ guard' = [guard EXCEPT ![i] = Opened]
    /\ UNCHANGED issued

SavepointFails(i) ==
    /\ call[i].state = "starting"
    /\ Settles(i, "failed", TRUE)

\* guarded.finish(): UNAWAITED_DATABASE_OPERATION, COMMAND_OPERATION_FAILED.
Passes(s) == guard[s].pending = 0 /\ ~guard[s].failed

\* The callback of s ends; the guard closes with those inside it.
CallbackEnds(s) ==
    /\ guard[s].stage = "callback"
    /\ LET inside == Inside(s) IN \E resolved \in BOOLEAN :
          guard' = [d \in Scope |->
              IF d = s THEN [guard[s] EXCEPT !.open = FALSE, !.stage = "settling",
                                             !.passed = resolved /\ Passes(s)]
              ELSE IF d \in inside THEN [guard[d] EXCEPT !.open = FALSE] ELSE guard[d]]
    /\ UNCHANGED <<issued, call>>

\* Fault: the guards of a command share one set of operations.
MutantAwaited(s) == Operations(s) \cup Operations(Root)
Awaited(s) == Operations(s)

\* guarded.settle(): first the operations, then every iterator is returned, past
\* the wrapper that counts it as pending.
ReturnStreams(s) ==
    /\ guard[s].stage = "settling"
    /\ \A i \in Awaited(s) : call[i].state \in Ended
    /\ guard' = [guard EXCEPT ![s].stage = "returning"]
    /\ call' = [i \in Call |-> IF i \in Streams(s) /\ Listed(i)
                               THEN Enqueued(call[i], "settle") ELSE call[i]]
    /\ UNCHANGED issued

\* Fault: the streams are told to return and not waited for.
MutantReturned(s) == TRUE
Returned(s) ==
    \A i \in Streams(s) : \A n \in DOMAIN call[i].requests : call[i].requests[n] # "settle"

\* DATABASE_STREAM_CLEANUP_FAILED, thrown from finally, fails the savepoint.
Settled(s) ==
    /\ guard[s].stage = "returning"
    /\ Returned(s)
    /\ guard' = [guard EXCEPT ![s].stage = "settled"]
    /\ call' = IF s = Root THEN call
               ELSE [call EXCEPT ![s].state =
                        IF guard[s].passed /\ \A i \in Streams(s) : call[i].state # "uncleaned"
                        THEN "releasing" ELSE "undoing"]
    /\ UNCHANGED issued

\* RELEASE SAVEPOINT; if it fails, or the scope did, ROLLBACK TO SAVEPOINT.
SavepointEnds(i) ==
    \/ /\ call[i].state = "releasing"
       /\ \/ Settles(i, "succeeded", FALSE)
          \/ CallIs(i, "undoing") /\ UNCHANGED <<issued, guard>>
    \/ call[i].state = "undoing" /\ Settles(i, "failed", TRUE)

-----------------------------------------------------------------------------
\* What a call and a scope do next, the application's part left out.
CallGoesOn(i) ==
    OperationEnds(i) \/ Yields(i) \/ GeneratorEnds(i) \/ AnswersLate(i)
    \/ Enter(i) \/ SavepointFails(i) \/ SavepointEnds(i)
ScopeGoesOn(s) == CallbackEnds(s) \/ ReturnStreams(s) \/ Settled(s)

Next ==
    \/ \E s \in Scope : Operation(s) \/ OpenStream(s) \/ Savepoint(s) \/ ThrowsAtOnce(s)
                        \/ ScopeGoesOn(s)
    \/ \E i \in Call : Pull(i) \/ Return(i) \/ Throw(i) \/ CallGoesOn(i)

\* The driver and the generators answer every call, and a callback comes to an end.
\* Nothing makes the application pull or return an iterator.  A savepoint waits while
\* its scope goes on, so that one condition serves both.
Fairness == WF_vars(ScopeGoesOn(Root)) /\ \A i \in Call : WF_vars(CallGoesOn(i) \/ ScopeGoesOn(i))

Spec == Init /\ [][Next]_vars /\ Fairness

-----------------------------------------------------------------------------
(* Properties. *)

\* Every variable has its type, and pending counts, in every scope, the calls that
\* have not settled, until settle returns the iterators that are left: an iterator is
\* counted down once, at the answer that ends it, whether it is a next, a return or a
\* throw, the generator was pulled or not, and whatever waits or comes behind
\* (guard.ts:32-126).
TypeOK ==
    /\ issued \in 0..MaxCalls
    /\ call \in [Call -> [kind : {"none", "operation", "stream", "savepoint"}, scope : Scope,
                          state : OnConnection \cup Ended
                                  \cup {"unused", "fresh", "idle", "leaving", "inside"},
                          done : BOOLEAN, requests : Seq({"next", "return", "throw", "settle"})]]
    /\ guard \in [Scope -> [open : BOOLEAN, pending : 0..MaxCalls, savepoint : BOOLEAN,
                            failed : BOOLEAN, passed : BOOLEAN,
                            stage : {"none", "callback", "settling", "returning", "settled"}]]
    /\ \A s \in Scope : guard[s].stage \in {"none", "callback", "settling"} =>
          guard[s].pending = Cardinality(Unsettled(s))

\* Once a scope has settled nothing that was started in it, or in a savepoint
\* inside it, is still on the connection, so that COMMIT, ROLLBACK, RELEASE and
\* ROLLBACK TO are never overtaken, nor the connection pooled too early ("so work
\* cannot enqueue a late raw, ORM, savepoint, cursor or COPY operation behind the
\* drain boundary", postgres/index.ts:346).
QuietOnceSettled ==
    \A s \in Scope : guard[s].stage = "settled" =>
        \A i \in Call : InFlight(i) => s \notin Enclosing(call[i].scope)

\* Statements of two scopes are never on the connection at the same time, so that
\* what a savepoint undoes is what was issued inside it.
OneScopeAtATime ==
    \A i, j \in Call : InFlight(i) /\ InFlight(j) => call[i].scope = call[j].scope

\* When a scope passes, all that was called in it has ended, and what failed was
\* undone by its own savepoint: an error the application swallowed never commits.
\* (A throw sent to an iterator that had ended fails the scope only if it is answered
\* before the callback ends; the call that it was sent to is no less done.)
PassedMeansDone ==
    \A s \in Scope : guard[s].passed =>
        \A i \in Operations(s) \cup Streams(s) :
            /\ call[i].state \in Ended
            /\ call[i].state = "failed" => call[i].kind = "savepoint"

\* A command whose callback has ended settles, whatever it left behind: operations
\* and iterators not awaited, and savepoints whose callbacks were still to start.
CallbacksSettle == guard[Root].stage = "settling" ~> guard[Root].stage = "settled"
=============================================================================
