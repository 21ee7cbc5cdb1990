----------------------- MODULE PostgresCommand_proofs -----------------------
(***************************************************************************)
(* What TLAPS proves of PostgresCommand for any commands, connections,     *)
(* tables, triggers and bounds.  The inductive invariant follows one       *)
(* connection from its reservation to its release: who holds it, what its  *)
(* session may be at each step of the holder, which operations may still   *)
(* be pending, and when the holder's writes may be durable.                *)
(*                                                                         *)
(* A second invariant follows the writes of a command from its statements, *)
(* through savepoints that are released or rolled back in the client and   *)
(* on the server, to the collector, the drained rows and the commit: what  *)
(* a response reports is what became durable, at the moment that decides   *)
(* it.  PostgresCommand implements CommandPromise up to liveness.          *)
(***************************************************************************)
EXTENDS PostgresCommand, SequenceTheorems, TLAPS

Busy(c) == step[c] \notin {"idle", "done"}
InWork(c) == step[c] \in {"working", "settling"}
InTransaction(c) ==
    step[c] \in {"working", "settling", "constrain", "drain", "seal", "commit"}

\* A busy command holds a connection of its own.
HoldsConnection ==
    /\ \A c \in Command : Busy(c) => conn[c] \in Connection /\ pool[conn[c]] = "held"
    /\ \A c, d \in Command : Busy(c) /\ Busy(d) /\ conn[c] = conn[d] => c = d

\* A command has a frame from BEGIN on, and only the innermost one has pending
\* operations.
PendingInWork ==
    \A c \in Command :
        /\ InTransaction(c) \/ outcome[c] = "returned" => frames[c] # <<>>
        /\ \A i \in DOMAIN frames[c] :
              frames[c][i].pending # {} => InWork(c) /\ i = Depth(c)

\* A session is fresh when it is reserved and when it is given back, and has a
\* transaction from BEGIN to COMMIT unless its connection is lost.
SessionFits ==
    /\ \A k \in Connection : pool[k] = "free" => server[k] = NoTransaction
    /\ \A c \in Command :
          /\ step[c] = "preamble" => Session(c) = NoTransaction
          /\ InTransaction(c) => Session(c).link = "down" \/ Session(c).tx # "none"
          /\ step[c] = "release" /\ ~broken[c] => Session(c) = NoTransaction

\* Nothing of a command is durable before COMMIT, nor after a rejection.
Uncommitted(c) == step[c] \notin {"release", "done"} \/ outcome[c] = "rejected"
DurableAfterCommit ==
    \A c \in Command : Uncommitted(c) => \A w \in durable : w[1] # c

Inv ==
    /\ TypeOK
    /\ HoldsConnection
    /\ PendingInWork
    /\ SessionFits
    /\ MigrationAlone

-----------------------------------------------------------------------------
(* Sessions and frames. *)

\* The named sessions and frames have their types.
LEMMA SessionTypes ==
    /\ NoTransaction \in ServerSession
    /\ Down \in ServerSession
    /\ Collecting \in ServerSession
    /\ NewFrame \in Frame
<1>1. <<>> \in Seq(Mark)
  BY EmptySeq
<1>2. NoTransaction \in ServerSession
  BY <1>1 DEF NoTransaction, ServerSession
<1>3. Down \in ServerSession
  BY <1>2 DEF Down, ServerSession
<1>4. Collecting \in ServerSession
  BY <1>2 DEF Collecting, ServerSession
<1>5. NewFrame \in Frame
  BY DEF NewFrame, Frame
<1> QED BY <1>2, <1>3, <1>4, <1>5

\* What of the named sessions the invariant speaks of.
LEMMA SessionFields ==
    /\ NoTransaction.link = "up" /\ NoTransaction.tx = "none"
    /\ Down.link = "down" /\ Down.tx = "none"
    /\ Collecting.link = "up" /\ Collecting.tx = "open" /\ Collecting.marks = <<>>
  BY DEF NoTransaction, Down, Collecting

\* A failure is a session again, and never opens or ends a transaction of a live link.
LEMMA FailuresType ==
    ASSUME NEW s \in ServerSession, NEW f \in Failures(s)
    PROVE  /\ f \in ServerSession
           /\ f.link = "up" => f.marks = s.marks /\ s.link = "up"
           /\ f.link = "up" /\ s.tx # "none" => f.tx # "none"
           /\ s.tx = "none" => f.tx = "none"
  BY SessionTypes DEF Failures, ServerSession, Down, NoTransaction

\* Dropping the last element of a sequence.
LEMMA OuterType ==
    ASSUME NEW S, NEW s \in Seq(S), s # <<>>
    PROVE  /\ Outer(s) \in Seq(S)
           /\ Len(Outer(s)) = Len(s) - 1
           /\ \A i \in 1 .. Len(s) - 1 : Outer(s)[i] = s[i]
<1> DEFINE m == Len(s) - 1
           front == SubSeq(s, 1, m)
<1>1. m \in Nat
  BY EmptySeq
<1>2. \A i \in 1 .. m : s[i] \in S
  BY ElementOfSeq
<1>3. /\ front \in Seq(S)
      /\ Len(front) = IF 1 <= m THEN m - 1 + 1 ELSE 0
      /\ \A i \in 1 .. m - 1 + 1 : front[i] = s[1 + i - 1]
  BY <1>1, <1>2, SubSeqProperties
<1>4. Outer(s) = front
  BY DEF Outer
<1> HIDE DEF front, m
<1>5. Len(front) = m /\ \A i \in 1 .. m : front[i] = s[i]
  BY <1>1, <1>3
<1> QED BY <1>3, <1>4, <1>5 DEF m

\* Merging the innermost frame leaves the others in place, and nothing pending in it.
LEMMA MergedType ==
    ASSUME NEW fs \in Seq(Frame), Len(fs) > 1
    PROVE  /\ Merged(fs) \in Seq(Frame)
           /\ Len(Merged(fs)) = Len(fs) - 1
           /\ \A i \in 1 .. Len(fs) - 1 : Merged(fs)[i].pending = fs[i].pending
<1> DEFINE n == Len(fs)
           parent == [fs[n - 1] EXCEPT !.noted = @ \cup fs[n].noted, !.done = @ \cup fs[n].done]
<1>1. /\ n \in Nat /\ n - 1 \in 1 .. n - 1
      /\ fs[n] \in Frame /\ fs[n - 1] \in Frame
  OBVIOUS
<1>2. parent \in Frame /\ parent.pending = fs[n - 1].pending
  BY <1>1 DEF Frame
<1>3. /\ Outer(fs) \in Seq(Frame)
      /\ Len(Outer(fs)) = n - 1
      /\ \A i \in 1 .. n - 1 : Outer(fs)[i] = fs[i]
  BY OuterType
<1>4. Merged(fs) = [Outer(fs) EXCEPT ![n - 1] = parent]
  BY DEF Merged
<1> HIDE DEF parent
<1> QED BY <1>1, <1>2, <1>3, <1>4

-----------------------------------------------------------------------------
(* What a step of a busy command sees and leaves. *)

\* A busy command acts on the session of a connection, through frames.
LEMMA Acting ==
    ASSUME Types, HoldsConnection, NEW c \in Command, Busy(c)
    PROVE  /\ conn[c] \in Connection
           /\ pool[conn[c]] = "held"
           /\ Session(c) \in ServerSession
           /\ frames[c] \in Seq(Frame)
  BY DEF Types, HoldsConnection, Session

\* Replacing the session of a command by a session.
LEMMA ServerStep ==
    ASSUME Types, NEW c \in Command, conn[c] \in Connection,
           NEW s \in ServerSession, ServerIs(c, s)
    PROVE  server' \in [Connection -> ServerSession]
  BY DEF Types, ServerIs

\* Replacing one frame of a command by a frame.
LEMMA FrameStep ==
    ASSUME Types, NEW c \in Command, NEW i \in DOMAIN frames[c], NEW frame \in Frame,
           WithFrame(c, i, frame)
    PROVE  /\ frames' \in [Command -> Seq(Frame)]
           /\ Len(frames'[c]) = Len(frames[c])
           /\ DOMAIN frames'[c] = DOMAIN frames[c]
           /\ frames'[c][i] = frame
           /\ \A j \in DOMAIN frames[c] \ {i} : frames'[c][j] = frames[c][j]
           /\ \A d \in Command \ {c} : frames'[d] = frames[d]
<1>1. frames[c] \in Seq(Frame)
  BY DEF Types
<1>2. [frames[c] EXCEPT ![i] = frame] \in Seq(Frame)
  BY <1>1
<1>3. frames' = [frames EXCEPT ![c] = [frames[c] EXCEPT ![i] = frame]]
  BY DEF WithFrame
<1> QED BY <1>1, <1>2, <1>3 DEF Types

-----------------------------------------------------------------------------
(* Type correctness, step by step. *)

\* The initial states are type correct.
LEMMA InitTypes == Init => Types
<1> SUFFICES ASSUME Init PROVE Types
  OBVIOUS
<1>1. <<>> \in Seq(Frame)
  BY EmptySeq
<1> QED BY <1>1, SessionTypes DEF Init, Types

\* Every step keeps the types.
LEMMA TypesStep ==
    ASSUME Inv, [Next]_vars
    PROVE  Types'
<1>0. Types /\ HoldsConnection
  BY DEF Inv, TypeOK
<1>1. ASSUME NEW c \in Command, Reserve(c) \/ Refuse(c) PROVE Types'
  <2>1. CASE Reserve(c)
    <3>1. PICK k \in Connection :
             pool' = [pool EXCEPT ![k] = "held"] /\ conn' = [conn EXCEPT ![c] = k]
      BY <2>1 DEF Reserve
    <3>2. /\ pool' \in [Connection -> {"free", "held", "lost"}]
          /\ conn' \in [Command -> Connection \cup {NoOne}]
      BY <1>0, <3>1 DEF Types
    <3> QED BY <1>0, <2>1, <3>2 DEF Types, Reserve, GoTo
  <2>2. CASE Refuse(c)
    BY <1>0, <2>2 DEF Types, Refuse, GoTo
  <2> QED BY <1>1, <2>1, <2>2
<1>2. ASSUME NEW c \in Command, NEW table \in Direct, Issue(c, table) PROVE Types'
  <2>1. /\ frames[c] \in Seq(Frame) /\ frames[c] # <<>>
        /\ step[c] = "working"
    <3>1. step[c] = "working"
      BY <1>2 DEF Issue
    <3>2. frames[c] # <<>>
      BY <3>1 DEF Inv, PendingInWork, InTransaction
    <3> QED BY <1>0, <3>1, <3>2 DEF Types
  <2>2. Depth(c) \in DOMAIN frames[c] /\ Inner(c) \in Frame
    BY <2>1 DEF Depth, Inner
  <2>3. [Inner(c) EXCEPT !.pending = @ \cup {table}] \in Frame
    BY <2>2, PostgresAssumption DEF Frame
  <2>4. frames' \in [Command -> Seq(Frame)]
    BY <1>0, <1>2, <2>2, <2>3, FrameStep DEF Issue
  <2>5. statements' \in [Command -> Nat]
    BY <1>0, <1>2 DEF Types, Issue
  <2> QED BY <1>0, <1>2, <2>4, <2>5 DEF Types, Issue
<1>3. ASSUME NEW c \in Command, Savepoint(c) PROVE Types'
  <2>1. conn[c] \in Connection /\ Session(c) \in ServerSession /\ frames[c] \in Seq(Frame)
    BY <1>0, <1>3, Acting DEF Savepoint, Busy
  <2> DEFINE mark == [wrote |-> Session(c).wrote, collector |-> Session(c).collector,
                      queued |-> Session(c).queued]
  <2>2. mark \in Mark /\ Session(c).marks \in Seq(Mark)
    BY <2>1 DEF ServerSession, Mark
  <2>3. Append(Session(c).marks, mark) \in Seq(Mark)
    BY <2>2, AppendProperties
  <2>4. [Session(c) EXCEPT !.marks = Append(@, mark)] \in ServerSession
    BY <2>1, <2>3 DEF ServerSession
  <2>5. server' \in [Connection -> ServerSession]
    BY <1>0, <1>3, <2>1, <2>4, ServerStep DEF Savepoint
  <2>6. Append(frames[c], NewFrame) \in Seq(Frame)
    BY <2>1, SessionTypes, AppendProperties
  <2>7. frames' \in [Command -> Seq(Frame)]
    BY <1>0, <1>3, <2>6 DEF Types, Savepoint
  <2> QED BY <1>0, <1>3, <2>5, <2>7 DEF Types, Savepoint
<1>4. ASSUME NEW c \in Command, ReleaseSavepoint(c) PROVE Types'
  <2>1. conn[c] \in Connection /\ Session(c) \in ServerSession /\ frames[c] \in Seq(Frame)
    BY <1>0, <1>4, Acting DEF ReleaseSavepoint, Busy
  <2>2. Len(Session(c).marks) + 1 = Len(frames[c]) /\ Len(frames[c]) > 1
    BY <1>4, <2>1 DEF Inv, TypeOK, MarksMatch, ReleaseSavepoint, Usable, Depth
  <2>3. Outer(Session(c).marks) \in Seq(Mark)
    <3>1. Session(c).marks \in Seq(Mark)
      BY <2>1 DEF ServerSession
    <3> QED BY <2>1, <2>2, <3>1, OuterType
  <2>4. [Session(c) EXCEPT !.marks = ReleasedMarks(@)] \in ServerSession
    BY <2>1, <2>3 DEF ServerSession, ReleasedMarks
  <2>5. server' \in [Connection -> ServerSession]
    BY <1>0, <1>4, <2>1, <2>4, ServerStep DEF ReleaseSavepoint
  <2>6. frames' \in [Command -> Seq(Frame)]
    <3>1. Merged(frames[c]) \in Seq(Frame)
      BY <2>1, <2>2, MergedType
    <3> QED BY <1>0, <1>4, <3>1 DEF Types, ReleaseSavepoint
  <2> QED BY <1>0, <1>4, <2>5, <2>6 DEF Types, ReleaseSavepoint
<1>5. ASSUME NEW c \in Command, RollbackSavepoint(c) PROVE Types'
  <2>1. conn[c] \in Connection /\ Session(c) \in ServerSession /\ frames[c] \in Seq(Frame)
    BY <1>0, <1>5, Acting DEF RollbackSavepoint, Busy
  <2>2. frames' \in [Command -> Seq(Frame)]
    <3>1. Outer(frames[c]) \in Seq(Frame)
      <4>1. frames[c] # <<>>
        BY <1>5, <2>1 DEF RollbackSavepoint, Depth
      <4> QED BY <2>1, <4>1, OuterType
    <3> QED BY <1>0, <1>5, <3>1 DEF Types, RollbackSavepoint, Discarded
  <2>3. server' \in [Connection -> ServerSession]
    <3>1. CASE ServerIs(c, Down)
      BY <1>0, <2>1, <3>1, SessionTypes, ServerStep
    <3>2. CASE Session(c).link = "up" /\ ~ServerIs(c, Down)
      <4> DEFINE marks == Session(c).marks
                 mark == marks[Len(marks)]
                 s == [Session(c) EXCEPT !.tx = "open", !.marks = Outer(@), !.wrote = mark.wrote,
                                         !.collector = mark.collector, !.queued = mark.queued]
      <4>1. Len(marks) + 1 = Len(frames[c]) /\ Len(frames[c]) > 1
        BY <1>5, <2>1, <3>2 DEF Inv, TypeOK, MarksMatch, RollbackSavepoint, Depth
      <4>2. marks \in Seq(Mark)
        BY <2>1 DEF ServerSession
      <4>3. Outer(marks) \in Seq(Mark) /\ mark \in Mark
        BY <2>1, <4>1, <4>2, OuterType
      <4>4. s \in ServerSession
        BY <2>1, <4>3 DEF ServerSession, Mark
      <4>5. ServerIs(c, s)
        BY <1>5, <3>2 DEF RollbackSavepoint
      <4> QED BY <1>0, <2>1, <4>4, <4>5, ServerStep
    <3> QED BY <1>5, <3>1, <3>2 DEF RollbackSavepoint
  <2> QED BY <1>0, <1>5, <2>2, <2>3 DEF Types, RollbackSavepoint
<1>6. ASSUME NEW c \in Command, Finish(c) \/ WorkFails(c) \/ Settle(c) PROVE Types'
  BY <1>0, <1>6 DEF Types, Finish, WorkFails, Settle, GoTo
<1>7. ASSUME NEW c \in Command, Enter(c) PROVE Types'
  <2>1. conn[c] \in Connection /\ Session(c) \in ServerSession
    BY <1>0, <1>7, Acting DEF Enter, Preamble, PreambleFails, Busy
  <2>2. CASE Preamble(c)
    <3>1. server' \in [Connection -> ServerSession]
      BY <1>0, <2>1, <2>2, SessionTypes, ServerStep DEF Preamble
    <3>2. <<NewFrame>> \in Seq(Frame)
      BY SessionTypes
    <3> QED BY <1>0, <2>2, <3>1, <3>2 DEF Types, Preamble, GoTo
  <2>3. CASE PreambleFails(c)
    <3>1. PICK session \in Failures(Collecting) \cup {Collecting} : ServerIs(c, session)
      BY <2>3 DEF PreambleFails
    <3>2. session \in ServerSession
      BY SessionTypes, FailuresType
    <3>3. server' \in [Connection -> ServerSession]
      BY <1>0, <2>1, <3>1, <3>2, ServerStep
    <3> QED BY <1>0, <2>3, <3>3 DEF Types, PreambleFails, GoTo
  <2> QED BY <1>7, <2>2, <2>3 DEF Enter
<1>8. ASSUME NEW c \in Command, NEW i \in DOMAIN frames[c], NEW table \in Direct,
             Execute(c, i, table) \/ ExecuteFails(c, i, table)
      PROVE  Types'
  <2>1. /\ frames[c] \in Seq(Frame) /\ frames[c][i] \in Frame /\ table \in Table
        /\ frames[c][i].pending # {}
    BY <1>0, <1>8, PostgresAssumption DEF Types, Execute, ExecuteFails
  <2>2. InWork(c)
    BY <1>8, <2>1 DEF Inv, PendingInWork
  <2>3. conn[c] \in Connection /\ Session(c) \in ServerSession
    BY <1>0, <2>2, Acting DEF InWork, Busy
  <2>4. CASE Execute(c, i, table)
    <3> DEFINE frame == [frames[c][i] EXCEPT
                           !.pending = @ \ {table},
                           !.noted = IF table \in View THEN @ \cup {table} ELSE @,
                           !.done = @ \cup {table}]
    <3>1. frame \in Frame
      BY <2>1 DEF Frame
    <3>2. frames' \in [Command -> Seq(Frame)]
      BY <1>0, <2>4, <3>1, FrameStep DEF Execute
    <3>3. Written(Session(c), table) \in ServerSession
      BY <2>1, <2>3, PostgresAssumption DEF Written, ServerSession
    <3>4. server' \in [Connection -> ServerSession]
      BY <1>0, <2>3, <2>4, <3>3, ServerStep DEF Execute, Types
    <3>5. durable' \in SUBSET (Command \X Table)
      BY <1>0, <2>1, <2>4 DEF Execute, Types
    <3> QED BY <1>0, <2>4, <3>2, <3>4, <3>5 DEF Types, Execute
  <2>5. CASE ExecuteFails(c, i, table)
    <3>1. PICK session \in Failures(Session(c)) : ServerIs(c, session)
      BY <2>5 DEF ExecuteFails
    <3>2. server' \in [Connection -> ServerSession]
      BY <1>0, <2>3, <3>1, FailuresType, ServerStep
    <3>3. FailedFrame(frames[c][i], table) \in Frame
      BY <2>1 DEF FailedFrame, Frame
    <3>4. frames' \in [Command -> Seq(Frame)]
      BY <1>0, <2>5, <3>3, FrameStep DEF ExecuteFails
    <3> QED BY <1>0, <2>5, <3>2, <3>4 DEF Types, ExecuteFails
  <2> QED BY <1>8, <2>4, <2>5
<1>9. ASSUME NEW c \in Command,
             Constrain(c) \/ Drain(c) \/ Seal(c) \/ BoundaryFails(c)
      PROVE  Types'
  <2>1. conn[c] \in Connection /\ Session(c) \in ServerSession
    BY <1>0, <1>9, Acting DEF Constrain, Drain, Seal, BoundaryFails, Busy
  <2>2. CASE Constrain(c)
    <3>1. FollowUps(Session(c).queued) \in SUBSET Table
      BY <2>1, PostgresAssumption DEF FollowUps, ServerSession
    <3>2. [Session(c) EXCEPT !.wrote = @ \cup Session(c).queued,
                             !.collector = @ \cup (Session(c).queued \ View),
                             !.queued = FollowUps(Session(c).queued)] \in ServerSession
      BY <2>1, <3>1 DEF ServerSession
    <3>3. server' \in [Connection -> ServerSession]
      BY <1>0, <2>1, <2>2, <3>2, ServerStep DEF Constrain
    <3> QED BY <1>0, <2>2, <3>3 DEF Types, Constrain, GoTo
  <2>3. CASE Drain(c)
    <3>1. [Session(c) EXCEPT !.collector = {}] \in ServerSession /\ Session(c).collector \in SUBSET Table
      BY <2>1 DEF ServerSession
    <3>2. server' \in [Connection -> ServerSession]
      BY <1>0, <2>1, <2>3, <3>1, ServerStep DEF Drain
    <3> QED BY <1>0, <2>3, <3>1, <3>2 DEF Types, Drain, GoTo
  <2>4. CASE Seal(c)
    <3>1. Sealed(Session(c)) \in ServerSession
      BY <2>1 DEF Sealed, ServerSession
    <3>2. server' \in [Connection -> ServerSession]
      BY <1>0, <2>1, <2>4, <3>1, ServerStep DEF Seal
    <3> QED BY <1>0, <2>4, <3>2 DEF Types, Seal, GoTo
  <2>5. CASE BoundaryFails(c)
    <3>1. server' \in [Connection -> ServerSession]
      BY <1>0, <2>1, <2>5, FailuresType, ServerStep DEF BoundaryFails
    <3> QED BY <1>0, <2>5, <3>1 DEF Types, BoundaryFails, GoTo
  <2> QED BY <1>9, <2>2, <2>3, <2>4, <2>5
<1>10. ASSUME NEW c \in Command, Commit(c) \/ CommitRejected(c) \/ CommitLost(c)
       PROVE  Types'
  <2>1. conn[c] \in Connection /\ Session(c) \in ServerSession
    BY <1>0, <1>10, Acting DEF Commit, CommitRejected, CommitLost, Busy
  <2>2. CommittedBy(Session(c)) \in SUBSET Table
    BY <2>1 DEF CommittedBy, ServerSession
  <2>3. server' \in [Connection -> ServerSession]
    BY <1>0, <1>10, <2>1, SessionTypes, ServerStep DEF Commit, CommitRejected, CommitLost
  <2>4. {c} \X CommittedBy(Session(c)) \in SUBSET (Command \X Table)
    BY <2>2
  <2> HIDE DEF CommittedBy
  <2>5. durable' \in SUBSET (Command \X Table)
    BY <1>0, <1>10, <2>4 DEF Types, Commit, CommitRejected, CommitLost
  <2>6. step' = [step EXCEPT ![c] = "release"] \/ step' = [step EXCEPT ![c] = "rollback"]
    BY <1>10 DEF Commit, CommitRejected, CommitLost, GoTo
  <2>7. /\ outcome' \in [Command -> {"none", "returned", "rejected", "unknown"}]
        /\ broken' \in [Command -> BOOLEAN]
        /\ replyLost' \in [Command -> BOOLEAN]
    BY <1>0, <1>10 DEF Types, Commit, CommitRejected, CommitLost
  <2> QED BY <1>0, <1>10, <2>3, <2>5, <2>6, <2>7 DEF Types, Commit, CommitRejected, CommitLost
<1>11. ASSUME NEW c \in Command, Rollback(c) \/ Release(c) \/ ReleaseFails(c)
       PROVE  Types'
  <2>1. conn[c] \in Connection /\ Session(c) \in ServerSession
    BY <1>0, <1>11, Acting DEF Rollback, Release, ReleaseFails, Busy
  <2>2. server' \in [Connection -> ServerSession]
    BY <1>0, <1>11, <2>1, SessionTypes, ServerStep DEF Types, Rollback, Release, ReleaseFails
  <2>3. CASE Rollback(c)
    BY <1>0, <2>2, <2>3 DEF Types, Rollback, GoTo
  <2>4. CASE Release(c) \/ ReleaseFails(c)
    <3>1. Settled(c)
      BY <2>4 DEF Release, ReleaseFails
    <3>2. step' = [step EXCEPT ![c] = "done"]
      BY <3>1 DEF Settled, GoTo
    <3>3. answer' \in [Command -> [facts : SUBSET Table, unavailable : SUBSET Table]]
      <4>1. PICK garbled \in SUBSET observed[c] :
               answer' = IF outcome[c] = "returned"
                         THEN [answer EXCEPT ![c] = [facts |-> Inner(c).noted \cup (observed[c] \ garbled),
                                                     unavailable |-> garbled]]
                         ELSE answer
        BY <3>1 DEF Settled
      <4>2. observed[c] \in SUBSET Table /\ answer \in [Command -> [facts : SUBSET Table, unavailable : SUBSET Table]]
        BY <1>0 DEF Types
      <4>3. CASE outcome[c] = "returned"
        <5>1. frames[c] # <<>> /\ frames[c] \in Seq(Frame)
          BY <1>0, <4>3 DEF Inv, PendingInWork, Types
        <5>2. Inner(c) \in Frame
          BY <5>1 DEF Inner, Depth
        <5>3. Inner(c).noted \in SUBSET Table
          BY <5>2 DEF Frame
        <5> QED BY <4>1, <4>2, <4>3, <5>3
      <4> QED BY <4>1, <4>2, <4>3
    <3> QED BY <1>0, <2>2, <2>4, <3>2, <3>3 DEF Types, Release, ReleaseFails
  <2> QED BY <1>11, <2>3, <2>4
<1>12. CASE RequestGate \/ LockGate \/ EndMigration
  BY <1>0, <1>12 DEF Types, RequestGate, LockGate, EndMigration, client
<1>13. ASSUME NEW c \in Command, SavepointFails(c) PROVE Types'
  <2>1. conn[c] \in Connection /\ Session(c) \in ServerSession
    BY <1>0, <1>13, Acting DEF SavepointFails, Busy
  <2>2. PICK session \in Failures(Session(c)) : ServerIs(c, session)
    BY <1>13 DEF SavepointFails
  <2>3. server' \in [Connection -> ServerSession]
    <3>1. session \in ServerSession
      BY <2>1, <2>2, FailuresType
    <3> QED BY <1>0, <2>1, <2>2, <3>1, ServerStep
  <2>4. statements' \in [Command -> Nat]
    BY <1>0, <1>13 DEF Types, SavepointFails
  <2> QED BY <1>0, <1>13, <2>3, <2>4 DEF Types, SavepointFails
<1>14. CASE UNCHANGED vars
  BY <1>0, <1>14 DEF Types, vars, client
<1> QED BY <1>1, <1>2, <1>3, <1>4, <1>5, <1>6, <1>7, <1>8, <1>9, <1>10, <1>11, <1>12, <1>13, <1>14
      DEF Next, Advance, EndWork

-----------------------------------------------------------------------------
(* The invariant, one command and its connection at a time. *)

CommandFits(c) ==
    /\ Busy(c) => conn[c] \in Connection /\ pool[conn[c]] = "held"
    /\ InTransaction(c) \/ outcome[c] = "returned" => frames[c] # <<>>
    /\ \A i \in DOMAIN frames[c] :
          frames[c][i].pending # {} => InWork(c) /\ i = Depth(c)
    /\ step[c] = "preamble" => Session(c) = NoTransaction
    /\ InTransaction(c) => Session(c).link = "down" \/ Session(c).tx # "none"
    /\ step[c] = "release" /\ ~broken[c] => Session(c) = NoTransaction
    /\ InWork(c) /\ Session(c).link = "up" => Len(Session(c).marks) + 1 = Depth(c)

\* A step of c disturbs no other command and no other connection; it enters a
\* transaction only past the gate.
OthersKept(c) ==
    /\ \A d \in Command \ {c} :
          /\ step'[d] = step[d] /\ conn'[d] = conn[d] /\ frames'[d] = frames[d]
          /\ broken'[d] = broken[d] /\ outcome'[d] = outcome[d]
    /\ \A k \in Connection \ {conn'[c]} : server'[k] = server[k] /\ pool'[k] = pool[k]
    /\ conn'[c] \in Connection
    /\ \/ Busy(c) /\ conn'[c] = conn[c]
       \/ pool[conn'[c]] = "free"
    /\ pool'[conn'[c]] = "free" => server'[conn'[c]] = NoTransaction
    /\ migration' = migration
    /\ server'[conn'[c]].tx # "none" => server[conn'[c]].tx # "none" \/ migration # "changing"

\* The invariant, read of one command.
LEMMA FitsNow ==
    ASSUME Inv, NEW c \in Command
    PROVE  CommandFits(c)
<1>1. /\ Busy(c) => conn[c] \in Connection /\ pool[conn[c]] = "held"
      /\ InTransaction(c) \/ outcome[c] = "returned" => frames[c] # <<>>
      /\ \A i \in DOMAIN frames[c] :
            frames[c][i].pending # {} => InWork(c) /\ i = Depth(c)
  BY DEF Inv, HoldsConnection, PendingInWork
<1>2. /\ step[c] = "preamble" => Session(c) = NoTransaction
      /\ InTransaction(c) => Session(c).link = "down" \/ Session(c).tx # "none"
      /\ step[c] = "release" /\ ~broken[c] => Session(c) = NoTransaction
  BY DEF Inv, SessionFits
<1>3. InWork(c) /\ Session(c).link = "up" => Len(Session(c).marks) + 1 = Depth(c)
  BY DEF Inv, TypeOK, MarksMatch, InWork
<1> QED BY <1>1, <1>2, <1>3 DEF CommandFits

LEMMA StepOf ==
    ASSUME Inv, Types', NEW c \in Command, OthersKept(c), CommandFits(c)'
    PROVE  Inv'
<1>1. \A d \in Command \ {c} : Busy(d) => conn[d] \in Connection \ {conn'[c]}
  BY DEF Inv, HoldsConnection, OthersKept
<1>2. ASSUME NEW d \in Command \ {c} PROVE CommandFits(d)'
  <2>1. CommandFits(d)
    BY FitsNow
  <2>2. /\ step'[d] = step[d] /\ conn'[d] = conn[d] /\ frames'[d] = frames[d]
        /\ broken'[d] = broken[d] /\ outcome'[d] = outcome[d]
    BY DEF OthersKept
  <2>3. Busy(d) => Session(d)' = Session(d) /\ pool'[conn[d]] = pool[conn[d]]
    BY <1>1, <2>2 DEF OthersKept, Session
  <2> QED BY <2>1, <2>2, <2>3 DEF CommandFits, Busy, InWork, InTransaction, Depth
<1>3. \A d \in Command : CommandFits(d)'
  BY <1>2
<1>4. HoldsConnection'
  <2>1. \A d \in Command : Busy(d)' => conn'[d] \in Connection /\ pool'[conn'[d]] = "held"
    BY <1>3 DEF CommandFits
  <2>2. \A d, e \in Command \ {c} : Busy(d)' /\ Busy(e)' /\ conn'[d] = conn'[e] => d = e
    BY DEF OthersKept, Inv, HoldsConnection, Busy
  <2>3. \A d \in Command \ {c} : Busy(d)' => conn'[d] # conn'[c]
    BY <1>1 DEF OthersKept, Busy
  <2> QED BY <2>1, <2>2, <2>3 DEF HoldsConnection
<1>5. PendingInWork'
  BY <1>3 DEF CommandFits, PendingInWork
<1>6. SessionFits'
  <2>1. \A k \in Connection : pool'[k] = "free" => server'[k] = NoTransaction
    BY DEF OthersKept, Inv, SessionFits
  <2> QED BY <1>3, <2>1 DEF CommandFits, SessionFits
<1>7. MarksMatch'
  BY <1>3 DEF CommandFits, MarksMatch, InWork
<1>8. MigrationAlone'
  BY DEF OthersKept, Inv, MigrationAlone, GateShared
<1> QED BY <1>4, <1>5, <1>6, <1>7, <1>8 DEF Inv, TypeOK

\* The session and the rest of the state after a step that replaces the session.
LEMMA SessionStep ==
    ASSUME Inv, NEW c \in Command, Busy(c), NEW s, ServerIs(c, s), UNCHANGED <<conn>>
    PROVE  /\ Session(c)' = s /\ server'[conn'[c]] = s
           /\ conn'[c] = conn[c] /\ conn[c] \in Connection /\ pool[conn[c]] = "held"
           /\ \A k \in Connection \ {conn'[c]} : server'[k] = server[k]
  BY DEF Inv, TypeOK, Types, HoldsConnection, ServerIs, Session

-----------------------------------------------------------------------------
(* Every action keeps the invariant. *)

\* Reserving a connection, or refusing to, as the pool is quarantined.
LEMMA ReserveKeeps ==
    ASSUME Inv, Types', NEW c \in Command, Reserve(c) \/ Refuse(c)
    PROVE  Inv'
<1>0. Types /\ CommandFits(c)
  BY FitsNow DEF Inv, TypeOK
<1>1. CASE Reserve(c)
  <2>1. PICK k \in Connection :
           /\ pool[k] = "free"
           /\ pool' = [pool EXCEPT ![k] = "held"] /\ conn' = [conn EXCEPT ![c] = k]
    BY <1>1 DEF Reserve
  <2>2. conn'[c] = k /\ pool'[k] = "held" /\ server' = server /\ server[k] = NoTransaction
    BY <1>0, <1>1, <2>1 DEF Types, Reserve, Inv, SessionFits
  <2>3. OthersKept(c)
    BY <1>0, <1>1, <2>1, <2>2, SessionFields DEF OthersKept, Types, Reserve, GoTo
  <2>4. CommandFits(c)'
    <3>1. step'[c] = "preamble" /\ frames' = frames /\ outcome' = outcome /\ step[c] = "idle"
      BY <1>0, <1>1 DEF Types, Reserve, GoTo
    <3>2. Session(c)' = NoTransaction
      BY <2>2 DEF Session
    <3> QED BY <1>0, <2>2, <3>1, <3>2 DEF CommandFits, Busy, InWork, InTransaction, Depth
  <2> QED BY <2>3, <2>4, StepOf
<1>2. CASE Refuse(c)
  <2>1. /\ pool' = pool /\ server' = server /\ conn' = conn /\ frames' = frames /\ broken' = broken
        /\ migration' = migration
        /\ step[c] = "idle" /\ step' = [step EXCEPT ![c] = "done"]
        /\ outcome' = [outcome EXCEPT ![c] = "rejected"]
    BY <1>2 DEF Refuse, GoTo
  <2>2. \A d \in Command :
           step'[d] = step[d] \/ (step[d] = "idle" /\ step'[d] = "done")
    BY <1>0, <2>1 DEF Types
  <2>3. HoldsConnection'
    BY <2>1, <2>2 DEF Inv, HoldsConnection, Busy
  <2>4. PendingInWork'
    <3>1. \A d \in Command : outcome'[d] = outcome[d] \/ outcome'[d] = "rejected"
      BY <1>0, <2>1 DEF Types
    <3> QED BY <2>1, <2>2, <3>1 DEF Inv, PendingInWork, InWork, InTransaction, Depth
  <2>5. SessionFits' /\ MarksMatch' /\ MigrationAlone'
    BY <2>1, <2>2 DEF Inv, TypeOK, SessionFits, InTransaction, Session, MarksMatch, Depth,
                      MigrationAlone, GateShared
  <2> QED BY <2>3, <2>4, <2>5 DEF Inv, TypeOK
<1> QED BY <1>1, <1>2

\* The preamble opens a transaction past the gate, or fails.
LEMMA EnterKeeps ==
    ASSUME Inv, Types', NEW c \in Command, Enter(c)
    PROVE  Inv'
<1>0. Types /\ CommandFits(c)
  BY FitsNow DEF Inv, TypeOK
<1>1. Busy(c) /\ conn' = conn /\ pool' = pool /\ migration' = migration /\ migration = "idle"
  BY DEF Enter, Preamble, PreambleFails, Busy, GateFree
<1>2. CASE Preamble(c)
  <2>1. /\ Session(c)' = Collecting /\ server'[conn'[c]] = Collecting
        /\ conn'[c] = conn[c] /\ conn[c] \in Connection /\ pool[conn[c]] = "held"
        /\ \A k \in Connection \ {conn'[c]} : server'[k] = server[k]
    BY <1>1, <1>2, SessionStep DEF Preamble
  <2>2. OthersKept(c)
    BY <1>0, <1>1, <1>2, <2>1 DEF OthersKept, Types, Preamble, GoTo
  <2>3. step'[c] = "working" /\ frames'[c] = <<NewFrame>>
    BY <1>0, <1>2 DEF Types, Preamble, GoTo
  <2>4. CommandFits(c)'
    BY <1>1, <2>1, <2>3, SessionFields DEF CommandFits, Busy, InWork, InTransaction, Depth, NewFrame
  <2> QED BY <2>2, <2>4, StepOf
<1>3. CASE PreambleFails(c)
  <2>1. PICK session \in Failures(Collecting) \cup {Collecting} : ServerIs(c, session)
    BY <1>3 DEF PreambleFails
  <2>2. /\ Session(c)' = session /\ server'[conn'[c]] = session
        /\ conn'[c] = conn[c] /\ conn[c] \in Connection /\ pool[conn[c]] = "held"
        /\ \A k \in Connection \ {conn'[c]} : server'[k] = server[k]
    BY <1>1, <2>1, SessionStep
  <2>3. OthersKept(c)
    BY <1>0, <1>1, <1>3, <2>2 DEF OthersKept, Types, PreambleFails, GoTo
  <2>4. step[c] = "preamble" /\ step'[c] = "rollback" /\ frames' = frames /\ outcome' = outcome
    BY <1>0, <1>3 DEF Types, PreambleFails, GoTo
  <2>5. CommandFits(c)'
    BY <1>0, <1>1, <2>2, <2>4 DEF CommandFits, Busy, InWork, InTransaction, Depth
  <2> QED BY <2>3, <2>5, StepOf
<1> QED BY <1>2, <1>3 DEF Enter

\* A statement is admitted: only the frames change.
LEMMA IssueKeeps ==
    ASSUME Inv, Types', NEW c \in Command, NEW table \in Direct, Issue(c, table)
    PROVE  Inv'
<1>0. Types /\ CommandFits(c)
  BY FitsNow DEF Inv, TypeOK
<1>1. /\ step[c] = "working" /\ step' = step /\ conn' = conn /\ pool' = pool /\ server' = server
      /\ broken' = broken /\ outcome' = outcome /\ migration' = migration
  BY DEF Issue
<1>2. Busy(c) /\ InWork(c) /\ InTransaction(c) /\ conn[c] \in Connection /\ pool[conn[c]] = "held"
  BY <1>0, <1>1 DEF CommandFits, Busy, InWork, InTransaction
<1>3. frames[c] \in Seq(Frame) /\ frames[c] # <<>> /\ Depth(c) \in DOMAIN frames[c]
  <2>1. frames[c] \in Seq(Frame) /\ frames[c] # <<>>
    BY <1>0, <1>2 DEF Types, CommandFits
  <2> QED BY <2>1 DEF Depth
<1>4. Inner(c) \in Frame
  BY <1>3 DEF Inner, Depth
<1>5. [Inner(c) EXCEPT !.pending = @ \cup {table}] \in Frame
  BY <1>4, PostgresAssumption DEF Frame
<1>6. /\ Len(frames'[c]) = Len(frames[c])
      /\ DOMAIN frames'[c] = DOMAIN frames[c]
      /\ \A j \in DOMAIN frames[c] \ {Depth(c)} : frames'[c][j] = frames[c][j]
      /\ \A d \in Command \ {c} : frames'[d] = frames[d]
  BY <1>0, <1>3, <1>5, FrameStep DEF Issue
<1>7. OthersKept(c)
  BY <1>1, <1>2, <1>6 DEF OthersKept
<1>8. CommandFits(c)'
  <2>1. Session(c)' = Session(c) /\ Depth(c)' = Depth(c) /\ frames'[c] # <<>>
    BY <1>1, <1>3, <1>6 DEF Session, Depth
  <2>2. \A i \in DOMAIN frames'[c] :
           frames'[c][i].pending # {} => i = Depth(c)
    BY <1>0, <1>6 DEF CommandFits
  <2> QED BY <1>0, <1>1, <1>2, <2>1, <2>2 DEF CommandFits, Busy, InWork, InTransaction
<1> QED BY <1>7, <1>8, StepOf

\* An admitted statement settles: its frame and its session change.
LEMMA ExecuteKeeps ==
    ASSUME Inv, Types', NEW c \in Command, NEW i \in DOMAIN frames[c], NEW table \in Direct,
           Execute(c, i, table) \/ ExecuteFails(c, i, table)
    PROVE  Inv'
<1>0. Types /\ CommandFits(c)
  BY FitsNow DEF Inv, TypeOK
<1>1. /\ step' = step /\ conn' = conn /\ pool' = pool
      /\ broken' = broken /\ outcome' = outcome /\ migration' = migration
  BY DEF Execute, ExecuteFails
<1>2. frames[c] \in Seq(Frame) /\ frames[c][i] \in Frame /\ frames[c][i].pending # {}
  BY <1>0 DEF Types, Execute, ExecuteFails
<1>3. InWork(c) /\ Busy(c) /\ InTransaction(c) /\ i = Depth(c)
  BY <1>0, <1>2 DEF CommandFits, Busy, InWork, InTransaction
<1>4. Session(c) \in ServerSession /\ conn[c] \in Connection /\ pool[conn[c]] = "held"
  BY <1>0, <1>3 DEF CommandFits, Session, Types
<1>5. PICK frame \in Frame : WithFrame(c, i, frame)
  <2>1. CASE Execute(c, i, table)
    <3> DEFINE frame == [frames[c][i] EXCEPT
                           !.pending = @ \ {table},
                           !.noted = IF table \in View THEN @ \cup {table} ELSE @,
                           !.done = @ \cup {table}]
    <3>1. frame \in Frame
      BY <1>2, PostgresAssumption DEF Frame
    <3> QED BY <2>1, <3>1 DEF Execute
  <2>2. CASE ExecuteFails(c, i, table)
    <3>1. FailedFrame(frames[c][i], table) \in Frame
      BY <1>2 DEF FailedFrame, Frame
    <3> QED BY <2>2, <3>1 DEF ExecuteFails
  <2> QED BY <2>1, <2>2
<1>6. /\ Len(frames'[c]) = Len(frames[c])
      /\ DOMAIN frames'[c] = DOMAIN frames[c]
      /\ \A j \in DOMAIN frames[c] \ {i} : frames'[c][j] = frames[c][j]
      /\ \A d \in Command \ {c} : frames'[d] = frames[d]
  BY <1>0, <1>5, FrameStep
<1>7. PICK s \in ServerSession :
         /\ ServerIs(c, s)
         /\ s.link = "up" => s.marks = Session(c).marks /\ Session(c).link = "up"
         /\ s.link = "up" /\ Session(c).tx # "none" => s.tx # "none"
         /\ Session(c).tx = "none" => s.tx = "none"
  <2>1. CASE Execute(c, i, table)
    <3>1. Session(c).link = "up" /\ Session(c).tx = "open"
      BY <1>0, <1>3, <1>4, <2>1 DEF CommandFits, Execute, ServerSession
    <3>2. ServerIs(c, Written(Session(c), table))
      BY <2>1, <3>1 DEF Execute
    <3>3. /\ Written(Session(c), table) \in ServerSession
          /\ Written(Session(c), table).marks = Session(c).marks
          /\ Written(Session(c), table).tx = Session(c).tx
      BY <1>4, PostgresAssumption DEF Written, ServerSession
    <3> HIDE DEF Written
    <3> QED BY <3>1, <3>2, <3>3
  <2>2. CASE ExecuteFails(c, i, table)
    <3>1. PICK s \in Failures(Session(c)) : ServerIs(c, s)
      BY <2>2 DEF ExecuteFails
    <3>2. /\ s \in ServerSession
          /\ s.link = "up" => s.marks = Session(c).marks /\ Session(c).link = "up"
          /\ s.link = "up" /\ Session(c).tx # "none" => s.tx # "none"
          /\ Session(c).tx = "none" => s.tx = "none"
      BY <1>4, FailuresType
    <3> QED BY <3>1, <3>2
  <2> QED BY <2>1, <2>2
<1>8. /\ Session(c)' = s /\ server'[conn'[c]] = s /\ conn'[c] = conn[c]
      /\ \A k \in Connection \ {conn'[c]} : server'[k] = server[k]
  BY <1>1, <1>3, <1>7, SessionStep
<1>9. OthersKept(c)
  <2>1. s.tx # "none" => server[conn'[c]].tx # "none" \/ migration # "changing"
    BY <1>1, <1>7 DEF Session
  <2> QED BY <1>1, <1>3, <1>4, <1>6, <1>8, <2>1 DEF OthersKept
<1>10. CommandFits(c)'
  <2>1. Depth(c)' = Depth(c) /\ frames'[c] # <<>>
    BY <1>2, <1>6 DEF Depth
  <2>2. \A j \in DOMAIN frames'[c] :
           frames'[c][j].pending # {} => j = Depth(c)
    BY <1>0, <1>3, <1>6 DEF CommandFits
  <2>3. s.link = "down" \/ s.tx # "none"
    BY <1>0, <1>3, <1>7 DEF CommandFits, ServerSession
  <2> QED BY <1>0, <1>1, <1>3, <1>4, <1>7, <1>8, <2>1, <2>2, <2>3
          DEF CommandFits, Busy, InWork, InTransaction
<1> QED BY <1>9, <1>10, StepOf

\* A savepoint starts: a frame and a mark are appended.
LEMMA SavepointKeeps ==
    ASSUME Inv, Types', NEW c \in Command, Savepoint(c)
    PROVE  Inv'
<1>0. Types /\ CommandFits(c)
  BY FitsNow DEF Inv, TypeOK
<1>1. /\ step[c] = "working" /\ step' = step /\ conn' = conn /\ pool' = pool
      /\ broken' = broken /\ outcome' = outcome /\ migration' = migration
      /\ Session(c).link = "up" /\ Session(c).tx = "open" /\ Inner(c).pending = {}
      /\ frames' = [frames EXCEPT ![c] = Append(@, NewFrame)]
  BY DEF Savepoint, Usable, NoneOverlaps
<1>2. /\ Busy(c) /\ InWork(c) /\ InTransaction(c)
      /\ conn[c] \in Connection /\ pool[conn[c]] = "held"
      /\ Session(c) \in ServerSession /\ frames[c] \in Seq(Frame)
  BY <1>0, <1>1 DEF CommandFits, Busy, InWork, InTransaction, Session, Types
<1> DEFINE mark == [wrote |-> Session(c).wrote, collector |-> Session(c).collector,
                    queued |-> Session(c).queued]
           s == [Session(c) EXCEPT !.marks = Append(@, mark)]
<1>3. s.link = "up" /\ s.tx = "open" /\ Len(s.marks) = Len(Session(c).marks) + 1
  <2>1. mark \in Mark /\ Session(c).marks \in Seq(Mark)
    BY <1>2 DEF ServerSession, Mark
  <2>2. Len(Append(Session(c).marks, mark)) = Len(Session(c).marks) + 1
    BY <2>1, AppendProperties
  <2> HIDE DEF mark
  <2> QED BY <1>1, <1>2, <2>2 DEF ServerSession
<1>4. ServerIs(c, s)
  BY DEF Savepoint
<1> HIDE DEF s
<1>5. /\ Session(c)' = s /\ server'[conn'[c]] = s /\ conn'[c] = conn[c]
      /\ \A k \in Connection \ {conn'[c]} : server'[k] = server[k]
  BY <1>1, <1>2, <1>4, SessionStep
<1>6. frames'[c] = Append(frames[c], NewFrame)
  BY <1>0, <1>1 DEF Types
<1>7. /\ Len(frames'[c]) = Len(frames[c]) + 1 /\ frames'[c] # <<>>
      /\ DOMAIN frames'[c] = 1 .. Len(frames[c]) + 1
      /\ frames'[c][Len(frames[c]) + 1] = NewFrame
      /\ \A j \in 1 .. Len(frames[c]) : frames'[c][j] = frames[c][j]
  <2>1. Append(frames[c], NewFrame) \in Seq(Frame)
    BY <1>2, SessionTypes, AppendProperties
  <2> QED BY <1>2, <1>6, <2>1, SessionTypes, AppendProperties, LenProperties
<1>8. OthersKept(c)
  <2>1. \A d \in Command \ {c} : frames'[d] = frames[d]
    BY <1>0, <1>1 DEF Types
  <2>2. server[conn'[c]].tx # "none"
    BY <1>1, <1>5 DEF Session
  <2> QED BY <1>1, <1>2, <1>5, <2>1, <2>2 DEF OthersKept
<1>9. CommandFits(c)'
  <2>1. Len(Session(c).marks) + 1 = Len(frames[c])
    BY <1>0, <1>1, <1>2 DEF CommandFits, Depth
  <2>2. \A j \in DOMAIN frames'[c] : frames'[c][j].pending = {}
    <3>1. \A j \in 1 .. Len(frames[c]) : frames[c][j].pending = {}
      BY <1>0, <1>1, <1>2 DEF CommandFits, Inner, Depth
    <3>2. NewFrame.pending = {}
      BY DEF NewFrame
    <3> QED BY <1>2, <1>7, <3>1, <3>2
  <2> QED BY <1>1, <1>2, <1>3, <1>5, <1>7, <2>1, <2>2
          DEF CommandFits, Busy, InWork, InTransaction, Depth
<1> QED BY <1>8, <1>9, StepOf

\* SAVEPOINT failed: only the session changes.
LEMMA SavepointFailsKeeps ==
    ASSUME Inv, Types', NEW c \in Command, SavepointFails(c)
    PROVE  Inv'
<1>0. Types /\ CommandFits(c)
  BY FitsNow DEF Inv, TypeOK
<1>1. /\ step[c] = "working" /\ step' = step /\ conn' = conn /\ pool' = pool
      /\ broken' = broken /\ outcome' = outcome /\ migration' = migration /\ frames' = frames
  BY DEF SavepointFails
<1>2. /\ Busy(c) /\ InWork(c) /\ InTransaction(c)
      /\ conn[c] \in Connection /\ pool[conn[c]] = "held"
      /\ Session(c) \in ServerSession
  BY <1>0, <1>1 DEF CommandFits, Busy, InWork, InTransaction, Session, Types
<1>3. PICK s \in Failures(Session(c)) : ServerIs(c, s)
  BY DEF SavepointFails
<1>4. /\ s \in ServerSession
      /\ s.link = "up" => s.marks = Session(c).marks /\ Session(c).link = "up"
      /\ s.link = "up" /\ Session(c).tx # "none" => s.tx # "none"
      /\ Session(c).tx = "none" => s.tx = "none"
  BY <1>2, FailuresType
<1>5. /\ Session(c)' = s /\ server'[conn'[c]] = s /\ conn'[c] = conn[c]
      /\ \A k \in Connection \ {conn'[c]} : server'[k] = server[k]
  BY <1>1, <1>2, <1>3, SessionStep
<1>6. OthersKept(c)
  <2>1. s.tx # "none" => server[conn'[c]].tx # "none" \/ migration # "changing"
    BY <1>1, <1>4 DEF Session
  <2> QED BY <1>1, <1>2, <1>5, <2>1 DEF OthersKept
<1>7. CommandFits(c)'
  <2>1. s.link = "down" \/ s.tx # "none"
    BY <1>0, <1>2, <1>4 DEF CommandFits, ServerSession
  <2> QED BY <1>0, <1>1, <1>2, <1>4, <1>5, <2>1
          DEF CommandFits, Busy, InWork, InTransaction, Depth
<1> QED BY <1>6, <1>7, StepOf

\* A savepoint ends: its frame is merged into its parent's, or dropped.
LEMMA EndSavepointKeeps ==
    ASSUME Inv, Types', NEW c \in Command, ReleaseSavepoint(c) \/ RollbackSavepoint(c)
    PROVE  Inv'
<1>0. Types /\ CommandFits(c)
  BY FitsNow DEF Inv, TypeOK
<1>1. /\ InWork(c) /\ step' = step /\ conn' = conn /\ pool' = pool
      /\ broken' = broken /\ outcome' = outcome /\ migration' = migration
      /\ Depth(c) > 1 /\ Inner(c).pending = {}
  BY DEF ReleaseSavepoint, RollbackSavepoint, InWork
<1>2. /\ Busy(c) /\ InTransaction(c)
      /\ conn[c] \in Connection /\ pool[conn[c]] = "held"
      /\ Session(c) \in ServerSession /\ frames[c] \in Seq(Frame)
  BY <1>0, <1>1 DEF CommandFits, Busy, InWork, InTransaction, Session, Types
<1>3. PICK fs \in Seq(Frame) :
         /\ frames' = [frames EXCEPT ![c] = fs]
         /\ Len(fs) = Len(frames[c]) - 1
         /\ \A j \in 1 .. Len(fs) : fs[j].pending = frames[c][j].pending
  <2>1. CASE ReleaseSavepoint(c)
    <3>1. /\ Merged(frames[c]) \in Seq(Frame)
          /\ Len(Merged(frames[c])) = Len(frames[c]) - 1
          /\ \A j \in 1 .. Len(frames[c]) - 1 : Merged(frames[c])[j].pending = frames[c][j].pending
      BY <1>1, <1>2, MergedType DEF Depth
    <3> QED BY <2>1, <3>1 DEF ReleaseSavepoint
  <2>2. CASE RollbackSavepoint(c)
    <3>1. frames[c] # <<>>
      BY <1>1, <1>2 DEF Depth
    <3>2. /\ Outer(frames[c]) \in Seq(Frame)
          /\ Len(Outer(frames[c])) = Len(frames[c]) - 1
          /\ \A j \in 1 .. Len(frames[c]) - 1 : Outer(frames[c])[j] = frames[c][j]
      BY <1>2, <3>1, OuterType
    <3> QED BY <2>2, <3>2 DEF RollbackSavepoint, Discarded
  <2> QED BY <2>1, <2>2
<1>4. PICK s :
         /\ ServerIs(c, s)
         /\ s.link = "down" \/ s.tx # "none"
         /\ s.tx # "none" => Session(c).tx # "none"
         /\ s.link = "up" => Len(s.marks) + 1 = Len(frames[c]) - 1
  <2>1. Session(c).link = "up" =>
           /\ Session(c).tx # "none"
           /\ Len(Session(c).marks) + 1 = Len(frames[c])
           /\ Len(Outer(Session(c).marks)) = Len(Session(c).marks) - 1
    <3>1. SUFFICES ASSUME Session(c).link = "up"
                   PROVE  /\ Session(c).tx # "none"
                          /\ Len(Session(c).marks) + 1 = Len(frames[c])
                          /\ Len(Outer(Session(c).marks)) = Len(Session(c).marks) - 1
      OBVIOUS
    <3>2. Len(Session(c).marks) + 1 = Len(frames[c]) /\ Session(c).tx # "none"
      BY <1>0, <1>1, <1>2, <3>1 DEF CommandFits, Depth, ServerSession
    <3>3. Session(c).marks \in Seq(Mark) /\ Session(c).marks # <<>>
      BY <1>1, <1>2, <3>2 DEF ServerSession, Depth
    <3> QED BY <3>2, <3>3, OuterType
  <2>2. CASE ReleaseSavepoint(c)
    <3> DEFINE s == [Session(c) EXCEPT !.marks = ReleasedMarks(@)]
    <3>1. Session(c).link = "up" /\ ServerIs(c, s)
      BY <2>2 DEF ReleaseSavepoint, Usable
    <3>2. s.link = "up" /\ s.tx = Session(c).tx /\ s.marks = Outer(Session(c).marks)
      BY <1>2, <3>1 DEF ServerSession, ReleasedMarks
    <3>3. Len(frames[c]) \in Nat /\ Len(Session(c).marks) \in Nat
      BY <1>2 DEF ServerSession
    <3> HIDE DEF s
    <3> QED BY <2>1, <3>1, <3>2, <3>3
  <2>3. CASE RollbackSavepoint(c) /\ ~ServerIs(c, Down)
    <3> DEFINE mark == Session(c).marks[Len(Session(c).marks)]
               s == [Session(c) EXCEPT !.tx = "open", !.marks = Outer(@), !.wrote = mark.wrote,
                                       !.collector = mark.collector, !.queued = mark.queued]
    <3>1. Session(c).link = "up" /\ ServerIs(c, s)
      BY <2>3 DEF RollbackSavepoint
    <3>2. s.tx = "open" /\ s.marks = Outer(Session(c).marks)
      BY <1>2 DEF ServerSession
    <3>3. Len(frames[c]) \in Nat /\ Len(Session(c).marks) \in Nat
      BY <1>2 DEF ServerSession
    <3> HIDE DEF s
    <3> QED BY <2>1, <3>1, <3>2, <3>3
  <2>4. CASE ServerIs(c, Down)
    BY <2>4, SessionFields
  <2> QED BY <2>2, <2>3, <2>4
<1>5. /\ Session(c)' = s /\ server'[conn'[c]] = s /\ conn'[c] = conn[c]
      /\ \A k \in Connection \ {conn'[c]} : server'[k] = server[k]
  BY <1>1, <1>2, <1>4, SessionStep
<1>6. OthersKept(c)
  <2>1. \A d \in Command \ {c} : frames'[d] = frames[d]
    BY <1>0, <1>3 DEF Types
  <2>2. s.tx # "none" => server[conn'[c]].tx # "none"
    BY <1>4, <1>5 DEF Session
  <2> QED BY <1>1, <1>2, <1>5, <2>1, <2>2 DEF OthersKept
<1>7. CommandFits(c)'
  <2>1. frames'[c] = fs /\ fs # <<>> /\ DOMAIN fs = 1 .. Len(fs)
    BY <1>0, <1>1, <1>2, <1>3 DEF Types, Depth
  <2>2. \A j \in 1 .. Len(fs) : fs[j].pending = {}
    BY <1>0, <1>2, <1>3 DEF CommandFits, Depth
  <2> QED BY <1>1, <1>2, <1>3, <1>4, <1>5, <2>1, <2>2
          DEF CommandFits, Busy, InWork, InTransaction, Depth
<1> QED BY <1>6, <1>7, StepOf

\* The callback ends: the session is not touched.
LEMMA EndCallbackKeeps ==
    ASSUME Inv, Types', NEW c \in Command, Finish(c) \/ WorkFails(c) \/ Settle(c)
    PROVE  Inv'
<1>0. Types /\ CommandFits(c)
  BY FitsNow DEF Inv, TypeOK
<1>1. /\ InWork(c) /\ InTransaction(c) /\ Busy(c)
      /\ frames' = frames /\ conn' = conn /\ pool' = pool /\ server' = server
      /\ outcome' = outcome /\ migration' = migration
      /\ \/ step' = [step EXCEPT ![c] = "settling"] /\ broken' = broken
         \/ step' = [step EXCEPT ![c] = "constrain"] /\ broken' = broken /\ Inner(c).pending = {}
         \/ /\ step' = [step EXCEPT ![c] = "rollback"] /\ Inner(c).pending = {}
            /\ \E b \in BOOLEAN : broken' = [broken EXCEPT ![c] = b]
  BY DEF Finish, WorkFails, Settle, Quiet, GoTo, InWork, InTransaction, Busy
<1>2. conn[c] \in Connection /\ pool[conn[c]] = "held" /\ frames[c] # <<>>
  BY <1>0, <1>1 DEF CommandFits
<1>3. OthersKept(c)
  BY <1>0, <1>1, <1>2 DEF OthersKept, Types
<1>4. CommandFits(c)'
  <2>1. \/ step'[c] = "settling"
        \/ step'[c] \in {"constrain", "rollback"} /\ Inner(c).pending = {}
    BY <1>0, <1>1 DEF Types
  <2>2. Inner(c).pending = {} => \A i \in DOMAIN frames[c] : frames[c][i].pending = {}
    BY <1>0 DEF CommandFits, Inner
  <2> QED BY <1>0, <1>1, <1>2, <2>1, <2>2 DEF CommandFits, Busy, InWork, InTransaction, Session, Depth
<1> QED BY <1>3, <1>4, StepOf

\* The boundary and COMMIT replace the session and move the client on.
LEMMA BoundaryKeeps ==
    ASSUME Inv, Types', NEW c \in Command,
           Constrain(c) \/ Drain(c) \/ Seal(c) \/ BoundaryFails(c)
             \/ Commit(c) \/ CommitRejected(c) \/ CommitLost(c)
    PROVE  Inv'
<1>0. Types /\ CommandFits(c)
  BY FitsNow DEF Inv, TypeOK
<1>1. /\ step[c] \in {"constrain", "drain", "seal", "commit"}
      /\ frames' = frames /\ conn' = conn /\ pool' = pool /\ migration' = migration
  BY DEF Constrain, Drain, Seal, BoundaryFails, Commit, CommitRejected, CommitLost
<1>2. /\ InTransaction(c) /\ Busy(c) /\ ~InWork(c)
      /\ conn[c] \in Connection /\ pool[conn[c]] = "held" /\ frames[c] # <<>>
      /\ Session(c) \in ServerSession
  BY <1>0, <1>1 DEF CommandFits, InTransaction, Busy, InWork, Session, Types
<1>3. PICK s, next :
         /\ ServerIs(c, s) /\ step' = [step EXCEPT ![c] = next]
         /\ s.tx # "none" => Session(c).tx # "none"
         /\ next \in {"drain", "seal", "commit"} => s.tx # "none"
         /\ next = "release" => s = NoTransaction \/ broken' = [broken EXCEPT ![c] = TRUE]
         /\ next \in {"drain", "seal", "commit", "release", "rollback"}
  <2>1. CASE Constrain(c)
    <3> DEFINE s == [Session(c) EXCEPT !.wrote = @ \cup Session(c).queued,
                                       !.collector = @ \cup (Session(c).queued \ View),
                                       !.queued = FollowUps(Session(c).queued)]
    <3>1. s.tx = Session(c).tx /\ Session(c).tx = "open"
      BY <1>2, <2>1 DEF Constrain, Usable, ServerSession
    <3>2. ServerIs(c, s) /\ step' = [step EXCEPT ![c] = "drain"]
      BY <2>1 DEF Constrain, GoTo
    <3> HIDE DEF s
    <3> QED BY <3>1, <3>2
  <2>2. CASE Drain(c)
    <3> DEFINE s == [Session(c) EXCEPT !.collector = {}]
    <3>1. s.tx = Session(c).tx /\ Session(c).tx = "open"
      BY <1>2, <2>2 DEF Drain, Usable, ServerSession
    <3>2. ServerIs(c, s) /\ step' = [step EXCEPT ![c] = "seal"]
      BY <2>2 DEF Drain, GoTo
    <3> HIDE DEF s
    <3> QED BY <3>1, <3>2
  <2>3. CASE Seal(c)
    <3>1. Sealed(Session(c)).tx = Session(c).tx /\ Session(c).tx = "open"
      BY <1>2, <2>3 DEF Seal, Sealed, Usable, ServerSession
    <3>2. ServerIs(c, Sealed(Session(c))) /\ step' = [step EXCEPT ![c] = "commit"]
      BY <2>3 DEF Seal, GoTo
    <3> QED BY <3>1, <3>2
  <2>4. CASE BoundaryFails(c)
    <3>1. PICK s \in Failures(Session(c)) : ServerIs(c, s)
      BY <2>4 DEF BoundaryFails
    <3>2. Session(c).tx = "none" => s.tx = "none"
      BY <1>2, FailuresType
    <3>3. step' = [step EXCEPT ![c] = "rollback"]
      BY <2>4 DEF BoundaryFails, GoTo
    <3> QED BY <3>1, <3>2, <3>3
  <2>5. CASE Commit(c)
    BY <2>5, SessionFields DEF Commit, GoTo
  <2>6. CASE CommitRejected(c)
    BY <2>6, SessionFields DEF CommitRejected, GoTo
  <2>7. CASE CommitLost(c)
    BY <2>7, SessionFields DEF CommitLost, GoTo
  <2> QED BY <2>1, <2>2, <2>3, <2>4, <2>5, <2>6, <2>7
<1>4. /\ Session(c)' = s /\ server'[conn'[c]] = s /\ conn'[c] = conn[c]
      /\ \A k \in Connection \ {conn'[c]} : server'[k] = server[k]
  BY <1>1, <1>2, <1>3, SessionStep
<1>5. \A d \in Command \ {c} : broken'[d] = broken[d] /\ outcome'[d] = outcome[d]
  BY <1>0 DEF Types, Constrain, Drain, Seal, BoundaryFails, Commit, CommitRejected, CommitLost
<1>6. step'[c] = next /\ \A d \in Command \ {c} : step'[d] = step[d]
  BY <1>0, <1>3 DEF Types
<1>7. OthersKept(c)
  <2>1. s.tx # "none" => server[conn'[c]].tx # "none"
    BY <1>3, <1>4 DEF Session
  <2> QED BY <1>1, <1>2, <1>4, <1>5, <1>6, <2>1 DEF OthersKept
<1>8. CommandFits(c)'
  <2>1. next = "release" => s = NoTransaction \/ broken'[c]
    BY <1>0, <1>3 DEF Types
  <2> QED BY <1>0, <1>1, <1>2, <1>3, <1>4, <1>6, <2>1
          DEF CommandFits, Busy, InWork, InTransaction, Depth
<1> QED BY <1>7, <1>8, StepOf

\* ROLLBACK leaves a fresh session or a broken connection.
LEMMA RollbackKeeps ==
    ASSUME Inv, Types', NEW c \in Command, Rollback(c)
    PROVE  Inv'
<1>0. Types /\ CommandFits(c)
  BY FitsNow DEF Inv, TypeOK
<1>1. /\ step[c] = "rollback" /\ step' = [step EXCEPT ![c] = "release"]
      /\ frames' = frames /\ conn' = conn /\ pool' = pool /\ migration' = migration
      /\ outcome' = [outcome EXCEPT ![c] = "rejected"]
  BY DEF Rollback, GoTo
<1>2. Busy(c) /\ ~InWork(c) /\ conn[c] \in Connection /\ pool[conn[c]] = "held"
  BY <1>0, <1>1 DEF CommandFits, Busy, InWork
<1>3. PICK s : /\ ServerIs(c, s) /\ s.tx = "none"
               /\ \/ s = NoTransaction /\ broken' = broken
                  \/ broken' = [broken EXCEPT ![c] = TRUE]
  BY SessionFields DEF Rollback
<1>4. /\ Session(c)' = s /\ server'[conn'[c]] = s /\ conn'[c] = conn[c]
      /\ \A k \in Connection \ {conn'[c]} : server'[k] = server[k]
  BY <1>1, <1>2, <1>3, SessionStep
<1>5. OthersKept(c)
  BY <1>0, <1>1, <1>2, <1>3, <1>4 DEF OthersKept, Types
<1>6. CommandFits(c)'
  <2>1. step'[c] = "release" /\ (~broken'[c] => s = NoTransaction) /\ outcome'[c] = "rejected"
    BY <1>0, <1>1, <1>3 DEF Types
  <2> QED BY <1>0, <1>1, <1>2, <1>4, <2>1 DEF CommandFits, Busy, InWork, InTransaction, Depth
<1> QED BY <1>5, <1>6, StepOf

\* The connection goes back to the pool, destroyed if broken, or is lost to it.
LEMMA ReleaseKeeps ==
    ASSUME Inv, Types', NEW c \in Command, Release(c) \/ ReleaseFails(c)
    PROVE  Inv'
<1>0. Types /\ CommandFits(c)
  BY FitsNow DEF Inv, TypeOK
<1>1. /\ step[c] = "release" /\ step' = [step EXCEPT ![c] = "done"]
      /\ frames' = frames /\ conn' = conn /\ migration' = migration
      /\ outcome' = outcome /\ broken' = broken
  BY DEF Release, ReleaseFails, Settled, GoTo
<1>2. Busy(c) /\ ~InWork(c) /\ conn[c] \in Connection /\ pool[conn[c]] = "held"
  BY <1>0, <1>1 DEF CommandFits, Busy, InWork
<1>3. /\ \A k \in Connection \ {conn[c]} : server'[k] = server[k] /\ pool'[k] = pool[k]
      /\ \/ pool'[conn[c]] = "free" /\ server'[conn[c]] = NoTransaction
         \/ pool'[conn[c]] = "lost" /\ server'[conn[c]] = server[conn[c]]
  <2>1. CASE Release(c)
    <3>1. ~broken[c] => server[conn[c]] = NoTransaction
      BY <1>0, <1>1 DEF CommandFits, Session
    <3> QED BY <1>0, <1>2, <2>1, <3>1 DEF Release, ServerIs, Types
  <2>2. CASE ReleaseFails(c)
    BY <1>0, <1>2, <2>2 DEF ReleaseFails, Types
  <2> QED BY <2>1, <2>2
<1>4. OthersKept(c)
  BY <1>0, <1>1, <1>2, <1>3, SessionFields DEF OthersKept, Types
<1>5. CommandFits(c)'
  <2>1. step'[c] = "done"
    BY <1>0, <1>1 DEF Types
  <2> QED BY <1>0, <1>1, <1>2, <2>1 DEF CommandFits, Busy, InWork, InTransaction, Depth
<1> QED BY <1>4, <1>5, StepOf

\* A migration takes the gate only while no session has a transaction.
LEMMA MigrationKeeps ==
    ASSUME Inv, Types', RequestGate \/ LockGate \/ EndMigration \/ UNCHANGED vars
    PROVE  Inv'
<1>1. /\ pool' = pool /\ server' = server /\ step' = step /\ conn' = conn /\ frames' = frames
      /\ broken' = broken /\ outcome' = outcome
      /\ migration' = "changing" => migration = "changing" \/ ~GateShared
  BY DEF RequestGate, LockGate, EndMigration, vars, client
<1>2. HoldsConnection' /\ PendingInWork'
  BY <1>1 DEF Inv, HoldsConnection, PendingInWork, Busy, InWork, InTransaction, Depth
<1>3. SessionFits' /\ MarksMatch'
  BY <1>1 DEF Inv, TypeOK, SessionFits, InTransaction, Session, MarksMatch, Depth
<1>4. MigrationAlone'
  BY <1>1 DEF Inv, MigrationAlone, GateShared
<1> QED BY <1>2, <1>3, <1>4 DEF Inv, TypeOK

\* The initial states satisfy the invariant.
LEMMA InvInit == Init => Inv
<1> SUFFICES ASSUME Init PROVE Inv
  OBVIOUS
<1>1. Types
  BY InitTypes
<1>2. \A c \in Command : step[c] = "idle" /\ frames[c] = <<>> /\ outcome[c] = "none"
  BY DEF Init
<1>3. HoldsConnection /\ PendingInWork /\ MarksMatch
  BY <1>2 DEF HoldsConnection, PendingInWork, MarksMatch, Busy, InTransaction
<1>4. SessionFits
  BY <1>2 DEF Init, SessionFits, InTransaction
<1>5. MigrationAlone
  BY DEF Init, MigrationAlone
<1> QED BY <1>1, <1>3, <1>4, <1>5 DEF Inv, TypeOK

LEMMA InvNext == Inv /\ [Next]_vars => Inv'
<1> SUFFICES ASSUME Inv, [Next]_vars PROVE Inv'
  OBVIOUS
<1>1. Types'
  BY TypesStep
<1>2. ASSUME NEW c \in Command, Reserve(c) \/ Refuse(c) PROVE Inv'
  BY <1>1, <1>2, ReserveKeeps
<1>3. ASSUME NEW c \in Command, NEW table \in Direct, Issue(c, table) PROVE Inv'
  BY <1>1, <1>3, IssueKeeps
<1>4. ASSUME NEW c \in Command, Savepoint(c) \/ SavepointFails(c) PROVE Inv'
  BY <1>1, <1>4, SavepointKeeps, SavepointFailsKeeps
<1>5. ASSUME NEW c \in Command, EndWork(c) PROVE Inv'
  BY <1>1, <1>5, EndSavepointKeeps, EndCallbackKeeps DEF EndWork
<1>6. ASSUME NEW c \in Command, Enter(c) PROVE Inv'
  BY <1>1, <1>6, EnterKeeps
<1>7. ASSUME NEW c \in Command, Advance(c) PROVE Inv'
  <2>1. CASE \E i \in DOMAIN frames[c], table \in Direct :
               Execute(c, i, table) \/ ExecuteFails(c, i, table)
    BY <1>1, <2>1, ExecuteKeeps
  <2>2. CASE Settle(c)
    BY <1>1, <2>2, EndCallbackKeeps
  <2>3. CASE Constrain(c) \/ Drain(c) \/ Seal(c) \/ BoundaryFails(c)
               \/ Commit(c) \/ CommitRejected(c) \/ CommitLost(c)
    BY <1>1, <2>3, BoundaryKeeps
  <2>4. CASE Rollback(c) \/ Release(c) \/ ReleaseFails(c)
    BY <1>1, <2>4, RollbackKeeps, ReleaseKeeps
  <2> QED BY <1>7, <2>1, <2>2, <2>3, <2>4 DEF Advance
<1>8. CASE RequestGate \/ LockGate \/ EndMigration \/ UNCHANGED vars
  BY <1>1, <1>8, MigrationKeeps
<1> QED BY <1>2, <1>3, <1>4, <1>5, <1>6, <1>7, <1>8 DEF Next

\* The invariant behind the theorems of this module.
THEOREM Invariance == Spec => []Inv
  BY InvInit, InvNext, PTL DEF Spec

-----------------------------------------------------------------------------
(* Theorems. *)

\* Every variable keeps its type, and the server holds one savepoint for each
\* guard the callback has opened, however statements, savepoints, failures and
\* lost connections interleave (tracked-db.ts, the savepoint stack).
THEOREM TypeCorrect == Spec => []TypeOK
<1>1. Inv => TypeOK
  BY DEF Inv
<1> QED BY <1>1, Invariance, PTL

\* A connection goes back to the pool without a transaction, a broken link or a
\* statement yet to run (postgres/index.ts, settle() before ROLLBACK, discard
\* and quarantine).
THEOREM PooledConnectionsAreClean == Spec => []PoolIsClean
<1>1. Inv => PoolIsClean
  <2> SUFFICES ASSUME Inv, NEW k \in Connection, pool[k] = "free"
               PROVE  /\ server[k] = NoTransaction
                      /\ \A c \in Command : conn[c] = k =>
                            \A i \in DOMAIN frames[c] : frames[c][i].pending = {}
    BY DEF PoolIsClean
  <2>1. server[k] = NoTransaction
    BY DEF Inv, SessionFits
  <2>2. ASSUME NEW c \in Command, conn[c] = k,
               NEW i \in DOMAIN frames[c], frames[c][i].pending # {}
        PROVE  FALSE
    <3>1. Busy(c)
      BY <2>2 DEF Inv, PendingInWork, InWork, Busy
    <3>2. pool[k] = "held"
      BY <2>2, <3>1 DEF Inv, HoldsConnection
    <3> QED BY <3>2
  <2> QED BY <2>1, <2>2
<1> QED BY <1>1, Invariance, PTL

\* A migration changes schemas only while no session of the pool has an open or
\* an aborted transaction (preamble.ts and transaction-gate.ts, the gate).
THEOREM MigrationsRunAlone == Spec => []MigrationAlone
<1>1. Inv => MigrationAlone
  BY DEF Inv
<1> QED BY <1>1, Invariance, PTL

-----------------------------------------------------------------------------
(* A rejected command has left nothing. *)

\* No driver reports a lost connection with a code that reads as a rejection.
CodesAreTold == \A code \in LossCodes : ~IsRejection(code)

LEMMA DurableNext ==
    ASSUME CodesAreTold, Inv, DurableAfterCommit, [Next]_vars
    PROVE  DurableAfterCommit'
<1>0. Types
  BY DEF Inv, TypeOK
<1>1. ASSUME durable' = durable, \A d \in Command : Uncommitted(d)' => Uncommitted(d)
      PROVE  DurableAfterCommit'
  BY <1>1 DEF DurableAfterCommit
<1>2. ASSUME NEW c \in Command, step[c] \notin {"release", "done"}, durable' = durable,
             \A d \in Command \ {c} : step'[d] = step[d] /\ outcome'[d] = outcome[d]
      PROVE  DurableAfterCommit'
  BY <1>1, <1>2 DEF Uncommitted
<1>3. ASSUME NEW c \in Command, Commit(c) \/ CommitLost(c)
      PROVE  DurableAfterCommit'
  <2>1. step'[c] = "release" /\ outcome'[c] \in {"returned", "unknown"}
    BY <1>0, <1>3 DEF Types, Commit, CommitLost, GoTo, CodesAreTold
  <2>2. \A w \in durable' : w \in durable \/ w[1] = c
    BY <1>3 DEF Commit, CommitLost
  <2>3. \A d \in Command \ {c} : step'[d] = step[d] /\ outcome'[d] = outcome[d]
    BY <1>0, <1>3 DEF Types, Commit, CommitLost, GoTo
  <2> QED BY <2>1, <2>2, <2>3 DEF DurableAfterCommit, Uncommitted
<1>4. ASSUME NEW c \in Command, NEW i \in DOMAIN frames[c], NEW table \in Direct,
             Execute(c, i, table) \/ ExecuteFails(c, i, table)
      PROVE  DurableAfterCommit'
  <2>1. InWork(c)
    BY <1>4 DEF Inv, PendingInWork, Execute, ExecuteFails
  <2>2. Execute(c, i, table) => Session(c).tx = "open"
    <3>1. Session(c).link = "down" \/ Session(c).tx # "none"
      BY <2>1 DEF Inv, SessionFits, InWork, InTransaction
    <3>2. conn[c] \in Connection
      BY <2>1 DEF Inv, HoldsConnection, InWork, Busy
    <3>3. Session(c).tx \in {"none", "open", "aborted"}
      BY <1>0, <3>2 DEF Types, Session, ServerSession
    <3> QED BY <3>1, <3>3 DEF Execute
  <2>3. durable' = durable /\ step' = step /\ outcome' = outcome
    BY <1>4, <2>2 DEF Execute, ExecuteFails
  <2> QED BY <1>2, <2>1, <2>3 DEF InWork
<1>5. ASSUME NEW c \in Command,
             \/ Reserve(c) \/ Refuse(c) \/ Savepoint(c) \/ SavepointFails(c)
             \/ EndWork(c) \/ Enter(c) \/ Settle(c)
             \/ \E table \in Direct : Issue(c, table)
      PROVE  DurableAfterCommit'
  <2>1. step[c] \notin {"release", "done"} /\ durable' = durable
    BY <1>5 DEF Reserve, Refuse, Savepoint, SavepointFails, EndWork, ReleaseSavepoint, RollbackSavepoint, Finish,
                WorkFails, Enter, Preamble, PreambleFails, Settle, Issue
  <2>2. \A d \in Command \ {c} : step'[d] = step[d] /\ outcome'[d] = outcome[d]
    BY <1>0, <1>5 DEF Types, GoTo, Reserve, Refuse, Savepoint, SavepointFails, EndWork, ReleaseSavepoint,
                RollbackSavepoint, Finish, WorkFails, Enter, Preamble, PreambleFails, Settle, Issue
  <2> QED BY <1>2, <2>1, <2>2
<1>6. ASSUME NEW c \in Command,
             Constrain(c) \/ Drain(c) \/ Seal(c) \/ BoundaryFails(c) \/ CommitRejected(c) \/ Rollback(c)
      PROVE  DurableAfterCommit'
  <2>1. step[c] \notin {"release", "done"} /\ durable' = durable
    BY <1>6 DEF Constrain, Drain, Seal, BoundaryFails, CommitRejected, Rollback
  <2>2. \A d \in Command \ {c} : step'[d] = step[d] /\ outcome'[d] = outcome[d]
    BY <1>0, <1>6 DEF Types, GoTo, Constrain, Drain, Seal, BoundaryFails, CommitRejected, Rollback
  <2> QED BY <1>2, <2>1, <2>2
<1>7. ASSUME NEW c \in Command, Release(c) \/ ReleaseFails(c)
      PROVE  DurableAfterCommit'
  <2>1. step' = [step EXCEPT ![c] = "done"] /\ outcome' = outcome /\ durable' = durable
    BY <1>7 DEF Release, ReleaseFails, Settled, GoTo
  <2>2. \A d \in Command : Uncommitted(d)' => Uncommitted(d)
    BY <1>0, <2>1 DEF Types, Uncommitted
  <2> QED BY <1>1, <2>1, <2>2
<1>8. CASE RequestGate \/ LockGate \/ EndMigration \/ UNCHANGED vars
  <2>1. step' = step /\ outcome' = outcome /\ durable' = durable
    BY <1>8 DEF RequestGate, LockGate, EndMigration, vars, client
  <2> QED BY <1>1, <2>1 DEF Uncommitted
<1> QED BY <1>3, <1>4, <1>5, <1>6, <1>7, <1>8 DEF Next, Advance

\* A command that rejects without CommitStateUnknownError has committed nothing,
\* not even by a statement it never awaited, if the driver's codes for a lost
\* connection are never taken for an answer of the server (index.ts, COMMIT).
THEOREM RejectionLeavesNothing ==
    ASSUME CodesAreTold
    PROVE  Spec => []RejectedIsGone
<1>1. Init => DurableAfterCommit
  BY DEF Init, DurableAfterCommit
<1>2. Inv /\ DurableAfterCommit /\ [Next]_vars => DurableAfterCommit'
  BY DurableNext
<1>3. DurableAfterCommit => RejectedIsGone
  BY DEF DurableAfterCommit, Uncommitted, RejectedIsGone, OwnWrites
<1> QED BY <1>1, <1>2, <1>3, Invariance, PTL DEF Spec

-----------------------------------------------------------------------------
(* What a response reports. *)

\* Views that a deferred trigger refreshes.  A view has no trigger of its own
\* (observer.ts:18) and only refreshMaterializedView notes it, so that a
\* response does not tell of them.
Unseen == {t \in View : \E u \in Table : t \in FollowUp[u]}
ViewsAreNoted == Unseen = {}

\* The server's record of writes, its own or that of a savepoint, holds all that
\* the first n frames have seen succeed, and but for unseen views it is what the
\* collector has and what these frames have noted.
Covers(record, fs, n) ==
    /\ \A j \in 1 .. n : fs[j].done \subseteq record.wrote
    /\ \A t \in record.queued : \E u \in Table : t \in FollowUp[u]
    /\ \A t \in Table \ Unseen :
          t \in record.wrote <=> t \in record.collector \/ \E j \in 1 .. n : t \in fs[j].noted

\* The same once the collector has been drained.
Drained(c) ==
    /\ frames[c][1].done \subseteq Session(c).wrote
    /\ \A t \in Table \ Unseen :
          t \in Session(c).wrote <=> t \in observed[c] \cup frames[c][1].noted

\* From its last statement on, a command has one frame and its transaction is
\* not aborted; sealed, it cannot commit what the drain has not seen.
Collected(c) ==
    /\ InWork(c) \/ step[c] \in {"constrain", "drain"} => Covers(Session(c), frames[c], Depth(c))
    /\ InWork(c) => \A i \in DOMAIN Session(c).marks : Covers(Session(c).marks[i], frames[c], i)
    /\ step[c] \in {"seal", "commit"} => Drained(c)
    /\ step[c] \in {"drain", "seal", "commit"} => Session(c).tx = "open"
    /\ step[c] = "commit" => Session(c).phase = "sealed"

Told(c) ==
    /\ frames[c][1].done \subseteq OwnWrites(c)
    /\ \A t \in Table \ Unseen : t \in OwnWrites(c) <=> t \in observed[c] \cup frames[c][1].noted

Decided(c) == step[c] \in {"release", "done"}

ReportFits(c) ==
    /\ outcome[c] = "none" <=> ~Decided(c)
    /\ step[c] \in {"constrain", "drain", "seal", "commit"} \/ outcome[c] = "returned" =>
          Depth(c) = 1
    /\ InTransaction(c) /\ Session(c).link = "up" => Collected(c)
    /\ ~Decided(c) /\ step[c] # "rollback" => OwnWrites(c) = {}
    /\ outcome[c] = "returned" => Told(c)

Reports == \A c \in Command : ReportFits(c)

-----------------------------------------------------------------------------
(* What covers what. *)

\* Only the writes of the record and what the frames have seen and noted matter.
LEMMA CoversSame ==
    ASSUME NEW r, NEW r2, NEW fs, NEW fs2, NEW n, Covers(r, fs, n),
           r2.wrote = r.wrote, r2.collector = r.collector, r2.queued = r.queued,
           \A j \in 1 .. n : fs2[j].done = fs[j].done /\ fs2[j].noted = fs[j].noted
    PROVE  Covers(r2, fs2, n)
  BY DEF Covers

\* A failure leaves what a transaction has written, unless it loses it.
LEMMA FailuresCover ==
    ASSUME NEW s \in ServerSession, NEW f \in Failures(s), f.link = "up"
    PROVE  /\ f.wrote = s.wrote /\ f.collector = s.collector /\ f.queued = s.queued
           /\ f.marks = s.marks /\ s.link = "up"
  BY SessionFields DEF Failures, ServerSession

\* A new frame adds nothing.
LEMMA CoversOneMore ==
    ASSUME NEW r, NEW fs, NEW fs2, NEW n \in Nat, Covers(r, fs, n),
           \A j \in 1 .. n : fs2[j] = fs[j], fs2[n + 1] = NewFrame
    PROVE  Covers(r, fs2, n + 1)
<1>1. \A j \in 1 .. n + 1 : j \in 1 .. n \/ j = n + 1
  OBVIOUS
<1>2. NewFrame.done = {} /\ NewFrame.noted = {}
  BY DEF NewFrame
<1> QED BY <1>1, <1>2 DEF Covers

\* A statement that succeeds in the last frame is covered by the record it is
\* written to: the trigger collects it, or the client notes it.
LEMMA CoversWritten ==
    ASSUME NEW s \in ServerSession, NEW fs, NEW fs2, NEW n \in Nat \ {0}, NEW table \in Table,
           Covers(s, fs, n),
           \A j \in 1 .. n - 1 : fs2[j] = fs[j],
           fs2[n].done = fs[n].done \cup {table},
           fs2[n].noted = IF table \in View THEN fs[n].noted \cup {table} ELSE fs[n].noted
    PROVE  Covers(Written(s, table), fs2, n)
<1> DEFINE w == Written(s, table)
<1>1. /\ w.wrote = s.wrote \cup {table}
      /\ w.collector = IF table \in View THEN s.collector ELSE s.collector \cup {table}
      /\ w.queued = s.queued \cup FollowUp[table]
  BY DEF Written, ServerSession
<1>2. n \in 1 .. n /\ \A j \in 1 .. n : j \in 1 .. n - 1 \/ j = n
  OBVIOUS
<1> HIDE DEF w
<1>3. \A j \in 1 .. n : fs2[j].done \subseteq w.wrote
  BY <1>1, <1>2 DEF Covers
<1>4. \A t \in w.queued : \E u \in Table : t \in FollowUp[u]
  BY <1>1 DEF Covers
<1>5. ASSUME NEW t \in Table \ Unseen
      PROVE  t \in w.wrote <=> t \in w.collector \/ \E j \in 1 .. n : t \in fs2[j].noted
  <2>1. t \in s.wrote <=> t \in s.collector \/ \E j \in 1 .. n : t \in fs[j].noted
    BY <1>5 DEF Covers
  <2>2. \A j \in 1 .. n : fs[j].noted \subseteq fs2[j].noted
    BY <1>2
  <2>3. \A j \in 1 .. n : t \in fs2[j].noted => t \in fs[j].noted \/ (t = table /\ t \in View)
    BY <1>2
  <2>4. table \in View => table \in fs2[n].noted
    OBVIOUS
  <2> QED BY <1>1, <1>2, <2>1, <2>2, <2>3, <2>4
<1> QED BY <1>3, <1>4, <1>5 DEF Covers, w

\* A released savepoint's frame is merged, and nothing it has seen is forgotten.
LEMMA CoversMerged ==
    ASSUME NEW r, NEW fs \in Seq(Frame), Len(fs) > 1, Covers(r, fs, Len(fs))
    PROVE  Covers(r, Merged(fs), Len(fs) - 1)
<1> DEFINE n == Len(fs)
           parent == [fs[n - 1] EXCEPT !.noted = @ \cup fs[n].noted, !.done = @ \cup fs[n].done]
<1>1. /\ n \in Nat /\ n - 1 \in 1 .. n - 1
      /\ fs[n] \in Frame /\ fs[n - 1] \in Frame
  OBVIOUS
<1>2. /\ parent.noted = fs[n - 1].noted \cup fs[n].noted
      /\ parent.done = fs[n - 1].done \cup fs[n].done
  BY <1>1 DEF Frame
<1>3. /\ Outer(fs) \in Seq(Frame)
      /\ Len(Outer(fs)) = n - 1
      /\ \A i \in 1 .. n - 1 : Outer(fs)[i] = fs[i]
  BY OuterType
<1>4. Merged(fs) = [Outer(fs) EXCEPT ![n - 1] = parent]
  BY DEF Merged
<1> HIDE DEF parent
<1>5. /\ Merged(fs)[n - 1] = parent
      /\ \A j \in 1 .. n - 1 : j # n - 1 => Merged(fs)[j] = fs[j]
  BY <1>1, <1>3, <1>4
<1>6. \A j \in 1 .. n : j \in 1 .. n - 1 \/ j = n
  BY <1>1
<1>7. n - 1 \in 1 .. n /\ n \in 1 .. n /\ \A j \in 1 .. n - 1 : j \in 1 .. n
  BY <1>1
<1> HIDE DEF n
<1>8. \A j \in 1 .. n - 1 : Merged(fs)[j].done \subseteq r.wrote
  BY <1>2, <1>5, <1>7 DEF Covers, n
<1>9. ASSUME NEW t
      PROVE  (\E j \in 1 .. n - 1 : t \in Merged(fs)[j].noted) <=> \E j \in 1 .. n : t \in fs[j].noted
  <2>1. ASSUME NEW j \in 1 .. n - 1, t \in Merged(fs)[j].noted
        PROVE  \E i \in 1 .. n : t \in fs[i].noted
    BY <1>2, <1>5, <1>7, <2>1
  <2>2. ASSUME NEW j \in 1 .. n, t \in fs[j].noted
        PROVE  \E i \in 1 .. n - 1 : t \in Merged(fs)[i].noted
    BY <1>1, <1>2, <1>5, <1>6, <2>2
  <2> QED BY <2>1, <2>2
<1> QED BY <1>8, <1>9 DEF Covers, n

-----------------------------------------------------------------------------
(* A step of one command, seen from the others. *)

Apart(c) ==
    \A d \in Command \ {c} :
        /\ step'[d] = step[d] /\ frames'[d] = frames[d] /\ observed'[d] = observed[d]
        /\ outcome'[d] = outcome[d] /\ answer'[d] = answer[d]
        /\ InTransaction(d) => Session(d)' = Session(d)
        /\ OwnWrites(d)' = OwnWrites(d)

\* Reports are read of one command at a time.
LEMMA ReportsStep ==
    ASSUME Reports, NEW c \in Command, Apart(c), ReportFits(c)'
    PROVE  Reports'
<1>1. ASSUME NEW d \in Command \ {c} PROVE ReportFits(d)'
  <2>1. ReportFits(d)
    BY DEF Reports
  <2>2. /\ step'[d] = step[d] /\ frames'[d] = frames[d] /\ observed'[d] = observed[d]
        /\ outcome'[d] = outcome[d]
        /\ InTransaction(d) => Session(d)' = Session(d)
        /\ OwnWrites(d)' = OwnWrites(d)
    BY DEF Apart
  <2>3. InTransaction(d)' = InTransaction(d) /\ Decided(d)' = Decided(d) /\ Depth(d)' = Depth(d)
        /\ InWork(d)' = InWork(d)
    BY <2>2 DEF InTransaction, Decided, Depth, InWork
  <2>4. Told(d)' = Told(d)
    BY <2>2 DEF Told
  <2>5. InTransaction(d) => Collected(d)' = Collected(d)
    <3>1. SUFFICES ASSUME InTransaction(d) PROVE Collected(d)' = Collected(d)
      OBVIOUS
    <3>2. Session(d)' = Session(d)
      BY <2>2, <3>1
    <3>3. Drained(d)' = Drained(d)
      BY <2>2, <3>2 DEF Drained
    <3>4. Covers(Session(d), frames[d], Depth(d))' = Covers(Session(d), frames[d], Depth(d))
      BY <2>2, <2>3, <3>2 DEF Covers, Unseen
    <3>5. \A i : Covers(Session(d).marks[i], frames[d], i)' = Covers(Session(d).marks[i], frames[d], i)
      BY <2>2, <3>2 DEF Covers, Unseen
    <3> QED BY <2>2, <2>3, <3>2, <3>3, <3>4, <3>5 DEF Collected
  <2> QED BY <2>1, <2>2, <2>3, <2>4, <2>5 DEF ReportFits
<1> QED BY <1>1 DEF Reports

\* Who owns what is written by c.
LEMMA OwnWritesGrow ==
    ASSUME NEW c \in Command, NEW tables, durable' = durable \cup ({c} \X tables)
    PROVE  /\ OwnWrites(c)' = OwnWrites(c) \cup tables
           /\ \A d \in Command \ {c} : OwnWrites(d)' = OwnWrites(d)
<1>1. \A w \in {c} \X tables : w[1] = c /\ w[2] \in tables
  OBVIOUS
<1>2. \A t \in tables : <<c, t>> \in {c} \X tables /\ <<c, t>>[1] = c /\ <<c, t>>[2] = t
  OBVIOUS
<1>3. \A d : OwnWrites(d)' = {w[2] : w \in {x \in durable' : x[1] = d}}
  BY DEF OwnWrites
<1>4. \A d : OwnWrites(d) = {w[2] : w \in {x \in durable : x[1] = d}}
  BY DEF OwnWrites
<1>5. OwnWrites(c)' = OwnWrites(c) \cup tables
  <2>1. ASSUME NEW t \in OwnWrites(c)' PROVE t \in OwnWrites(c) \cup tables
    BY <1>1, <1>3, <1>4, <2>1
  <2>2. ASSUME NEW t \in OwnWrites(c) PROVE t \in OwnWrites(c)'
    BY <1>3, <1>4, <2>2
  <2>3. ASSUME NEW t \in tables PROVE t \in OwnWrites(c)'
    BY <1>2, <1>3, <2>3
  <2> QED BY <2>1, <2>2, <2>3
<1>6. ASSUME NEW d \in Command \ {c} PROVE OwnWrites(d)' = OwnWrites(d)
  BY <1>1, <1>3, <1>4
<1> QED BY <1>5, <1>6

\* A command acts on its own session, as no two busy commands share one.
LEMMA SessionsApart ==
    ASSUME Inv, NEW c \in Command, NEW d \in Command \ {c}, InTransaction(d), conn' = conn,
           server' = server \/ (Busy(c) /\ \E s : ServerIs(c, s))
    PROVE  Session(d)' = Session(d)
<1>1. Busy(d)
  BY DEF InTransaction, Busy
<1>2. CASE server' = server
  BY <1>2 DEF Session
<1>3. CASE Busy(c) /\ \E s : ServerIs(c, s)
  <2>1. conn[d] # conn[c]
    BY <1>1, <1>3 DEF Inv, HoldsConnection
  <2> QED BY <1>3, <2>1 DEF Session, ServerIs, Inv, TypeOK, Types
<1> QED BY <1>2, <1>3

\* Every step of a command but a commit leaves what is durable as it is.
LEMMA ExecuteKeepsDurable ==
    ASSUME Inv, NEW c \in Command, NEW i \in DOMAIN frames[c], NEW table \in Direct,
           Execute(c, i, table)
    PROVE  /\ InWork(c) /\ i = Depth(c)
           /\ Session(c).link = "up" /\ Session(c).tx = "open" /\ durable' = durable
           /\ ServerIs(c, Written(Session(c), table))
<1>1. InWork(c) /\ i = Depth(c)
  BY DEF Inv, PendingInWork, Execute
<1>2. Session(c).link = "up"
  BY DEF Execute
<1>3. Session(c).tx # "none"
  BY <1>1, <1>2 DEF Inv, SessionFits, InWork, InTransaction
<1>4. Session(c).tx \in {"none", "open", "aborted"}
  <2>1. Busy(c)
    BY <1>1 DEF InWork, Busy
  <2> QED BY <2>1, Acting DEF Inv, TypeOK, ServerSession
<1> QED BY <1>1, <1>2, <1>3, <1>4 DEF Execute

\* The steps that make nothing durable disturb no other command.
LEMMA QuietStepsApart ==
    ASSUME Inv, NEW c \in Command,
           \/ Reserve(c) \/ Refuse(c) \/ Enter(c)
           \/ \E table \in Direct : Issue(c, table)
           \/ \E i \in DOMAIN frames[c], table \in Direct : Execute(c, i, table) \/ ExecuteFails(c, i, table)
           \/ Savepoint(c) \/ SavepointFails(c) \/ EndWork(c) \/ Settle(c)
           \/ Constrain(c) \/ Drain(c) \/ Seal(c) \/ BoundaryFails(c) \/ CommitRejected(c)
           \/ Rollback(c) \/ Release(c) \/ ReleaseFails(c)
    PROVE  Apart(c) /\ durable' = durable /\ OwnWrites(c)' = OwnWrites(c)
<1>0. Types
  BY DEF Inv, TypeOK
<1>1. durable' = durable
  <2>1. ASSUME NEW i \in DOMAIN frames[c], NEW table \in Direct,
               Execute(c, i, table) \/ ExecuteFails(c, i, table)
        PROVE  durable' = durable
    BY <2>1, ExecuteKeepsDurable DEF ExecuteFails
  <2> QED BY <2>1 DEF Reserve, Refuse, Enter, Preamble, PreambleFails, Issue, Savepoint, SavepointFails,
                EndWork, ReleaseSavepoint, RollbackSavepoint, Finish, WorkFails, Settle, Constrain, Drain,
                Seal, BoundaryFails, CommitRejected, Rollback, Release, ReleaseFails
<1>2. \A d \in Command : OwnWrites(d)' = OwnWrites(d)
  BY <1>1 DEF OwnWrites
<1>3. ASSUME NEW d \in Command \ {c}
      PROVE  /\ step'[d] = step[d] /\ frames'[d] = frames[d] /\ observed'[d] = observed[d]
             /\ outcome'[d] = outcome[d] /\ answer'[d] = answer[d]
  <2>1. CASE \/ Reserve(c) \/ Refuse(c) \/ Enter(c)
             \/ \E table \in Direct : Issue(c, table)
             \/ \E i \in DOMAIN frames[c], table \in Direct :
                   Execute(c, i, table) \/ ExecuteFails(c, i, table)
    BY <1>0, <2>1 DEF Types, GoTo, WithFrame, Reserve, Refuse, Enter, Preamble, PreambleFails, Issue,
                      Execute, ExecuteFails
  <2>2. CASE Savepoint(c) \/ SavepointFails(c) \/ EndWork(c) \/ Settle(c)
    BY <1>0, <2>2 DEF Types, GoTo, Savepoint, SavepointFails, EndWork, ReleaseSavepoint,
                      RollbackSavepoint, Finish, WorkFails, Settle
  <2>3. CASE Constrain(c) \/ Drain(c) \/ Seal(c) \/ BoundaryFails(c) \/ CommitRejected(c) \/ Rollback(c)
    BY <1>0, <2>3 DEF Types, GoTo, Constrain, Drain, Seal, BoundaryFails, CommitRejected, Rollback
  <2>4. CASE Release(c) \/ ReleaseFails(c)
    BY <1>0, <2>4 DEF Types, GoTo, Release, ReleaseFails, Settled
  <2> QED BY <2>1, <2>2, <2>3, <2>4
<1>4. ASSUME NEW d \in Command \ {c}, InTransaction(d)
      PROVE  Session(d)' = Session(d)
  <2>1. CASE Reserve(c)
    BY <1>0, <1>3, <2>1 DEF Reserve, Session, Types
  <2>2. CASE conn' = conn /\ server' = server
    BY <1>4, <2>2, SessionsApart
  <2>3. CASE conn' = conn /\ Busy(c) /\ \E s : ServerIs(c, s)
    BY <1>4, <2>3, SessionsApart
  <2>4. ASSUME NEW i \in DOMAIN frames[c], NEW table \in Direct,
               Execute(c, i, table) \/ ExecuteFails(c, i, table)
        PROVE  conn' = conn /\ Busy(c) /\ \E s : ServerIs(c, s)
    <3>1. InWork(c)
      BY <2>4 DEF Inv, PendingInWork, Execute, ExecuteFails
    <3> QED BY <2>4, <3>1, ExecuteKeepsDurable DEF Execute, ExecuteFails, InWork, Busy
  <2>5. CASE Enter(c) \/ Savepoint(c) \/ SavepointFails(c) \/ ReleaseSavepoint(c) \/ RollbackSavepoint(c)
    BY <2>3, <2>5 DEF Enter, Preamble, PreambleFails, Savepoint, SavepointFails, ReleaseSavepoint,
                RollbackSavepoint, Busy
  <2>6. CASE Constrain(c) \/ Drain(c) \/ Seal(c) \/ BoundaryFails(c) \/ CommitRejected(c) \/ Rollback(c)
    BY <2>3, <2>6 DEF Constrain, Drain, Seal, BoundaryFails, CommitRejected, Rollback, Busy
  <2>7. CASE Release(c) \/ ReleaseFails(c)
    BY <2>2, <2>3, <2>7 DEF Release, ReleaseFails, Busy
  <2>8. CASE Refuse(c) \/ (\E table \in Direct : Issue(c, table)) \/ Finish(c) \/ WorkFails(c) \/ Settle(c)
    BY <2>2, <2>8 DEF Refuse, Issue, Finish, WorkFails, Settle
  <2> QED BY <2>1, <2>3, <2>4, <2>5, <2>6, <2>7, <2>8 DEF EndWork
<1> QED BY <1>1, <1>2, <1>3, <1>4 DEF Apart

-----------------------------------------------------------------------------
(* Every step of a command keeps its own report. *)

\* A command that has no open transaction and no outcome has nothing to report.
LEMMA NothingToReport ==
    ASSUME NEW c \in Command, step'[c] \in {"preamble", "rollback"}, outcome'[c] = "none",
           step'[c] = "preamble" => OwnWrites(c)' = {}
    PROVE  ReportFits(c)'
  BY DEF ReportFits, Decided, InTransaction

LEMMA StartReports ==
    ASSUME Inv, Reports, NEW c \in Command, Reserve(c) \/ Refuse(c) \/ Enter(c)
    PROVE  ReportFits(c)'
<1>0. Types /\ ReportFits(c)
  BY DEF Inv, TypeOK, Reports
<1>1. OwnWrites(c)' = OwnWrites(c)
  BY QuietStepsApart
<1>2. CASE Reserve(c)
  <2>1. step[c] = "idle" /\ step'[c] = "preamble" /\ outcome' = outcome
    BY <1>0, <1>2 DEF Types, Reserve, GoTo
  <2> QED BY <1>0, <1>1, <2>1, NothingToReport DEF ReportFits, Decided
<1>3. CASE Refuse(c)
  <2>1. step[c] = "idle" /\ step'[c] = "done" /\ outcome'[c] = "rejected"
    BY <1>0, <1>3 DEF Types, Refuse, GoTo
  <2> QED BY <2>1 DEF ReportFits, Decided, InTransaction
<1>4. CASE PreambleFails(c)
  <2>1. step[c] = "preamble" /\ step'[c] = "rollback" /\ outcome' = outcome
    BY <1>0, <1>4 DEF Types, PreambleFails, GoTo
  <2> QED BY <1>0, <2>1, NothingToReport DEF ReportFits, Decided
<1>5. CASE Preamble(c)
  <2>1. /\ step[c] = "preamble" /\ step'[c] = "working" /\ outcome' = outcome
        /\ frames'[c] = <<NewFrame>> /\ ServerIs(c, Collecting) /\ conn' = conn
    BY <1>0, <1>5 DEF Types, Preamble, GoTo
  <2>2. Session(c)' = Collecting
    BY <2>1, SessionStep DEF Busy
  <2>3. Depth(c)' = 1 /\ frames'[c][1] = NewFrame
    BY <2>1 DEF Depth
  <2>4. Covers(Collecting, frames'[c], 1)
    <3>1. Collecting.wrote = {} /\ Collecting.collector = {} /\ Collecting.queued = {}
      BY DEF Collecting, NoTransaction
    <3>2. NewFrame.done = {} /\ NewFrame.noted = {}
      BY DEF NewFrame
    <3>3. \A j \in 1 .. 1 : j = 1
      OBVIOUS
    <3> QED BY <2>3, <3>1, <3>2, <3>3 DEF Covers
  <2>5. Collected(c)'
    <3>1. Covers(Session(c), frames[c], Depth(c))'
      BY <2>2, <2>3, <2>4 DEF Covers, Unseen
    <3>2. DOMAIN Session(c)'.marks = {}
      BY <2>2, SessionFields
    <3> QED BY <2>1, <3>1, <3>2 DEF Collected
  <2> QED BY <1>0, <1>1, <2>1, <2>5 DEF ReportFits, Decided
<1> QED BY <1>2, <1>3, <1>4, <1>5 DEF Enter

\* In the callback, the new session and frames must cover each other.
LEMMA WorkReports ==
    ASSUME Types, Reports, NEW c \in Command, InWork(c), InWork(c)', outcome' = outcome,
           OwnWrites(c)' = OwnWrites(c),
           Session(c)'.link = "up" =>
              /\ Covers(Session(c)', frames'[c], Len(frames'[c]))
              /\ \A i \in DOMAIN Session(c)'.marks : Covers(Session(c)'.marks[i], frames'[c], i)
    PROVE  ReportFits(c)'
<1>1. ReportFits(c) /\ ~Decided(c) /\ ~Decided(c)' /\ InTransaction(c)' /\ step[c] # "rollback"
  BY DEF Reports, InWork, Decided, InTransaction
<1>2. outcome'[c] = "none" /\ OwnWrites(c)' = {}
  BY <1>1 DEF ReportFits
<1>3. Session(c)'.link = "up" => Collected(c)'
  BY DEF Collected, InWork, Depth, Covers, Unseen
<1> QED BY <1>1, <1>2, <1>3 DEF ReportFits, Decided, InWork

\* The same where the session stays, or fails, and frames only gain or lose what is pending.
LEMMA SameReports ==
    ASSUME Inv, Reports, NEW c \in Command, InWork(c), InWork(c)', outcome' = outcome,
           OwnWrites(c)' = OwnWrites(c),
           Session(c)'.link = "up" =>
              /\ Session(c).link = "up" /\ Session(c)'.marks = Session(c).marks
              /\ Session(c)'.wrote = Session(c).wrote
              /\ Session(c)'.collector = Session(c).collector
              /\ Session(c)'.queued = Session(c).queued,
           Len(frames'[c]) = Len(frames[c]),
           \A j \in DOMAIN frames[c] : /\ frames'[c][j].done = frames[c][j].done
                                       /\ frames'[c][j].noted = frames[c][j].noted
    PROVE  ReportFits(c)'
<1>0. Types
  BY DEF Inv, TypeOK
<1>1. SUFFICES ASSUME Session(c)'.link = "up"
               PROVE  /\ Covers(Session(c)', frames'[c], Len(frames'[c]))
                      /\ \A i \in DOMAIN Session(c)'.marks : Covers(Session(c)'.marks[i], frames'[c], i)
  BY <1>0, WorkReports
<1>2. Collected(c) /\ Session(c).link = "up"
  BY <1>1 DEF Reports, ReportFits, InWork, InTransaction
<1>3. frames[c] \in Seq(Frame) /\ DOMAIN frames[c] = 1 .. Len(frames[c]) /\ Len(frames[c]) \in Nat
  BY <1>0 DEF Types
<1>4. Covers(Session(c)', frames'[c], Len(frames'[c]))
  <2>1. Covers(Session(c), frames[c], Len(frames[c]))
    BY <1>2 DEF Collected, Depth
  <2> QED BY <1>1, <1>3, <2>1, CoversSame
<1>5. ASSUME NEW i \in DOMAIN Session(c)'.marks
      PROVE  Covers(Session(c)'.marks[i], frames'[c], i)
  <2>1. Covers(Session(c).marks[i], frames[c], i) /\ Session(c)'.marks = Session(c).marks
    BY <1>1, <1>2, <1>5 DEF Collected
  <2>2. Len(Session(c).marks) + 1 = Len(frames[c])
    BY <1>2 DEF Inv, TypeOK, MarksMatch, InWork, Depth
  <2>3. Session(c).marks \in Seq(Mark)
    <3>1. Session(c) \in ServerSession
      BY <1>0, Acting DEF Inv, InWork, Busy
    <3> QED BY <3>1 DEF ServerSession
  <2>4. \A j \in 1 .. i : j \in DOMAIN frames[c]
    BY <1>3, <1>5, <2>1, <2>2, <2>3
  <2> QED BY <2>1, <2>4, CoversSame
<1> QED BY <1>4, <1>5

\* What the invariant gives a step of the callback.
LEMMA AtWork ==
    ASSUME Inv, Reports, NEW c \in Command, InWork(c)
    PROVE  /\ conn[c] \in Connection /\ Session(c) \in ServerSession /\ Session(c).marks \in Seq(Mark)
           /\ frames[c] \in Seq(Frame) /\ frames[c] # <<>> /\ Len(frames[c]) \in Nat \ {0}
           /\ DOMAIN frames[c] = 1 .. Len(frames[c]) /\ Depth(c) = Len(frames[c])
           /\ Session(c).link = "up" =>
                 /\ Len(Session(c).marks) + 1 = Len(frames[c])
                 /\ DOMAIN Session(c).marks = 1 .. Len(frames[c]) - 1
                 /\ Covers(Session(c), frames[c], Len(frames[c]))
                 /\ \A i \in DOMAIN Session(c).marks : Covers(Session(c).marks[i], frames[c], i)
<1>1. /\ conn[c] \in Connection /\ Session(c) \in ServerSession
      /\ frames[c] \in Seq(Frame)
  BY Acting DEF Inv, TypeOK, InWork, Busy
<1>2. Session(c).marks \in Seq(Mark)
  BY <1>1 DEF ServerSession
<1>3. frames[c] # <<>>
  BY DEF Inv, PendingInWork, InWork, InTransaction
<1>4. Len(frames[c]) \in Nat \ {0} /\ DOMAIN frames[c] = 1 .. Len(frames[c])
  BY <1>1, <1>3
<1>5. ASSUME Session(c).link = "up"
      PROVE  /\ Len(Session(c).marks) + 1 = Len(frames[c])
             /\ DOMAIN Session(c).marks = 1 .. Len(frames[c]) - 1
             /\ Covers(Session(c), frames[c], Len(frames[c]))
             /\ \A i \in DOMAIN Session(c).marks : Covers(Session(c).marks[i], frames[c], i)
  <2>1. Len(Session(c).marks) + 1 = Len(frames[c])
    BY <1>5 DEF Inv, TypeOK, MarksMatch, InWork, Depth
  <2>2. Collected(c)
    BY <1>5 DEF Reports, ReportFits, InWork, InTransaction
  <2> QED BY <1>2, <1>4, <2>1, <2>2 DEF Collected, Depth
<1> QED BY <1>1, <1>2, <1>3, <1>4, <1>5 DEF Depth

\* Admitting a statement, or its failure or that of SAVEPOINT, writes nothing.
LEMMA NoWriteReports ==
    ASSUME Inv, Reports, NEW c \in Command,
           \/ \E table \in Direct : Issue(c, table)
           \/ \E i \in DOMAIN frames[c], table \in Direct : ExecuteFails(c, i, table)
           \/ SavepointFails(c)
    PROVE  ReportFits(c)'
<1>0. Types
  BY DEF Inv, TypeOK
<1>1. /\ step' = step /\ conn' = conn /\ outcome' = outcome /\ OwnWrites(c)' = OwnWrites(c)
  BY QuietStepsApart DEF Issue, ExecuteFails, SavepointFails
<1>2. InWork(c)
  BY DEF Inv, PendingInWork, Issue, ExecuteFails, SavepointFails, InWork
<1>3. InWork(c)' /\ Busy(c)
  BY <1>1, <1>2 DEF InWork, Busy
<1>4. /\ Session(c) \in ServerSession /\ frames[c] \in Seq(Frame) /\ DOMAIN frames[c] = 1 .. Len(frames[c])
      /\ Depth(c) \in DOMAIN frames[c]
  BY <1>2, AtWork
<1>5. CASE \E table \in Direct : Issue(c, table)
  <2>1. PICK table \in Direct : Issue(c, table)
    BY <1>5
  <2>2. Session(c)' = Session(c)
    BY <2>1 DEF Issue, Session
  <2>3. Inner(c) = frames[c][Depth(c)] /\ Inner(c) \in Frame
    BY <1>4 DEF Inner
  <2>4. WithFrame(c, Depth(c), [Inner(c) EXCEPT !.pending = @ \cup {table}])
    BY <2>1 DEF Issue
  <2>5. [Inner(c) EXCEPT !.pending = @ \cup {table}] \in Frame
    BY <2>3, PostgresAssumption DEF Frame
  <2>6. /\ Len(frames'[c]) = Len(frames[c])
        /\ frames'[c][Depth(c)] = [Inner(c) EXCEPT !.pending = @ \cup {table}]
        /\ \A j \in DOMAIN frames[c] \ {Depth(c)} : frames'[c][j] = frames[c][j]
    BY <1>0, <1>4, <2>4, <2>5, FrameStep
  <2>7. \A j \in DOMAIN frames[c] : /\ frames'[c][j].done = frames[c][j].done
                                    /\ frames'[c][j].noted = frames[c][j].noted
    BY <2>3, <2>6 DEF Frame
  <2> QED BY <1>1, <1>2, <1>3, <2>2, <2>6, <2>7, SameReports
<1>6. ASSUME NEW f \in Failures(Session(c)), ServerIs(c, f)
      PROVE  Session(c)'.link = "up" =>
                /\ Session(c).link = "up" /\ Session(c)'.marks = Session(c).marks
                /\ Session(c)'.wrote = Session(c).wrote
                /\ Session(c)'.collector = Session(c).collector
                /\ Session(c)'.queued = Session(c).queued
  <2>1. Session(c)' = f
    BY <1>1, <1>3, <1>6, SessionStep
  <2> QED BY <1>4, <1>6, <2>1, FailuresCover
<1>7. CASE SavepointFails(c)
  <2>1. frames' = frames
    BY <1>7 DEF SavepointFails
  <2> QED BY <1>1, <1>2, <1>3, <1>6, <1>7, <2>1, SameReports DEF SavepointFails
<1>8. CASE \E i \in DOMAIN frames[c], table \in Direct : ExecuteFails(c, i, table)
  <2>1. PICK i \in DOMAIN frames[c], table \in Direct : ExecuteFails(c, i, table)
    BY <1>8
  <2>2. frames[c][i] \in Frame
    BY <1>4
  <2>3. /\ FailedFrame(frames[c][i], table) \in Frame
        /\ FailedFrame(frames[c][i], table).done = frames[c][i].done
        /\ FailedFrame(frames[c][i], table).noted = frames[c][i].noted
    BY <2>2 DEF FailedFrame, Frame
  <2>4. /\ Len(frames'[c]) = Len(frames[c])
        /\ frames'[c][i] = FailedFrame(frames[c][i], table)
        /\ \A j \in DOMAIN frames[c] \ {i} : frames'[c][j] = frames[c][j]
    BY <1>0, <2>1, <2>3, FrameStep DEF ExecuteFails
  <2>5. \A j \in DOMAIN frames[c] : /\ frames'[c][j].done = frames[c][j].done
                                    /\ frames'[c][j].noted = frames[c][j].noted
    BY <2>3, <2>4
  <2>6. PICK f \in Failures(Session(c)) : ServerIs(c, f)
    BY <2>1 DEF ExecuteFails
  <2> QED BY <1>1, <1>2, <1>3, <1>6, <2>4, <2>5, <2>6, SameReports
<1> QED BY <1>5, <1>7, <1>8

\* A statement that succeeds is written, and collected or noted.
LEMMA ExecuteReports ==
    ASSUME Inv, Reports, NEW c \in Command, NEW i \in DOMAIN frames[c], NEW table \in Direct,
           Execute(c, i, table)
    PROVE  ReportFits(c)'
<1>0. Types /\ table \in Table
  BY PostgresAssumption DEF Inv, TypeOK
<1>1. /\ step' = step /\ conn' = conn /\ outcome' = outcome /\ OwnWrites(c)' = OwnWrites(c)
  BY QuietStepsApart DEF Execute
<1>2. InWork(c) /\ i = Depth(c) /\ Session(c).link = "up" /\ ServerIs(c, Written(Session(c), table))
  BY ExecuteKeepsDurable
<1>3. InWork(c)' /\ Busy(c)
  BY <1>1, <1>2 DEF InWork, Busy
<1> DEFINE n == Len(frames[c])
           frame == [frames[c][i] EXCEPT
                       !.pending = @ \ {table},
                       !.noted = IF table \in View THEN @ \cup {table} ELSE @,
                       !.done = @ \cup {table}]
<1>4. /\ Session(c) \in ServerSession /\ frames[c] \in Seq(Frame) /\ DOMAIN frames[c] = 1 .. n
      /\ n \in Nat \ {0} /\ i = n /\ frames[c][n] \in Frame
      /\ Session(c).marks \in Seq(Mark) /\ DOMAIN Session(c).marks = 1 .. n - 1
      /\ Covers(Session(c), frames[c], n)
      /\ \A j \in DOMAIN Session(c).marks : Covers(Session(c).marks[j], frames[c], j)
  BY <1>2, AtWork
<1>5. /\ frame \in Frame
      /\ frame.done = frames[c][n].done \cup {table}
      /\ frame.noted = IF table \in View THEN frames[c][n].noted \cup {table} ELSE frames[c][n].noted
  BY <1>0, <1>4 DEF Frame
<1>6. WithFrame(c, i, frame)
  BY DEF Execute
<1> HIDE DEF frame
<1>7. /\ Len(frames'[c]) = n
      /\ frames'[c][n] = frame
      /\ \A j \in DOMAIN frames[c] \ {n} : frames'[c][j] = frames[c][j]
  BY <1>0, <1>4, <1>5, <1>6, FrameStep
<1>8. Session(c)' = Written(Session(c), table)
  BY <1>1, <1>2, <1>3, SessionStep
<1>9. Covers(Session(c)', frames'[c], Len(frames'[c]))
  <2>1. \A j \in 1 .. n - 1 : frames'[c][j] = frames[c][j]
    BY <1>4, <1>7
  <2>2. /\ frames'[c][n].done = frames[c][n].done \cup {table}
        /\ frames'[c][n].noted = IF table \in View THEN frames[c][n].noted \cup {table}
                                 ELSE frames[c][n].noted
    BY <1>5, <1>7
  <2> HIDE DEF n
  <2>3. Covers(Written(Session(c), table), frames'[c], n)
    BY <1>0, <1>4, <2>1, <2>2, CoversWritten
  <2> QED BY <1>7, <1>8, <2>3
<1>10. ASSUME NEW j \in DOMAIN Session(c)'.marks
       PROVE  Covers(Session(c)'.marks[j], frames'[c], j)
  <2>1. Session(c)'.marks = Session(c).marks
    BY <1>4, <1>8 DEF Written, ServerSession
  <2>2. \A k \in 1 .. j : k \in DOMAIN frames[c] \ {n}
    BY <1>4, <1>10, <2>1
  <2>3. Covers(Session(c).marks[j], frames[c], j)
    BY <1>4, <1>10, <2>1
  <2>4. \A k \in 1 .. j : frames'[c][k] = frames[c][k]
    BY <1>7, <2>2
  <2>5. Covers(Session(c).marks[j], frames'[c], j)
    BY <2>3, <2>4, CoversSame
  <2> QED BY <2>1, <2>5
<1> QED BY <1>0, <1>1, <1>2, <1>3, <1>9, <1>10, WorkReports

\* A savepoint starts: the server marks what the frames so far are covered by.
LEMMA SavepointReports ==
    ASSUME Inv, Reports, NEW c \in Command, Savepoint(c)
    PROVE  ReportFits(c)'
<1>0. Types
  BY DEF Inv, TypeOK
<1>1. /\ step' = step /\ conn' = conn /\ outcome' = outcome /\ OwnWrites(c)' = OwnWrites(c)
      /\ step[c] = "working" /\ Session(c).link = "up"
  BY QuietStepsApart DEF Savepoint, Usable
<1>2. InWork(c) /\ InWork(c)' /\ Busy(c)
  BY <1>1 DEF InWork, Busy
<1> DEFINE n == Len(frames[c])
           mark == [wrote |-> Session(c).wrote, collector |-> Session(c).collector,
                    queued |-> Session(c).queued]
           s == [Session(c) EXCEPT !.marks = Append(@, mark)]
<1>3. /\ Session(c) \in ServerSession /\ frames[c] \in Seq(Frame) /\ n \in Nat \ {0}
      /\ Session(c).marks \in Seq(Mark) /\ Len(Session(c).marks) + 1 = n
      /\ Covers(Session(c), frames[c], n)
      /\ \A j \in DOMAIN Session(c).marks : Covers(Session(c).marks[j], frames[c], j)
  BY <1>1, <1>2, AtWork
<1>4. Session(c)' = s
  <2>1. ServerIs(c, s)
    BY DEF Savepoint
  <2> HIDE DEF s
  <2> QED BY <1>1, <1>2, <2>1, SessionStep
<1>5. /\ s.wrote = Session(c).wrote /\ s.collector = Session(c).collector
      /\ s.queued = Session(c).queued /\ s.marks = Append(Session(c).marks, mark)
  BY <1>3 DEF ServerSession
<1>6. mark \in Mark /\ mark.wrote = Session(c).wrote /\ mark.collector = Session(c).collector
      /\ mark.queued = Session(c).queued
  BY <1>3 DEF ServerSession, Mark
<1> HIDE DEF s, mark
<1>7. /\ DOMAIN s.marks = 1 .. n /\ s.marks[n] = mark
      /\ \A j \in 1 .. n - 1 : s.marks[j] = Session(c).marks[j] /\ j \in DOMAIN Session(c).marks
  BY <1>3, <1>5, <1>6, AppendProperties
<1>8. frames'[c] = Append(frames[c], NewFrame)
  BY <1>0 DEF Types, Savepoint
<1>9. /\ Len(frames'[c]) = n + 1 /\ frames'[c][n + 1] = NewFrame
      /\ \A j \in 1 .. n : frames'[c][j] = frames[c][j]
  BY <1>3, <1>8, SessionTypes, AppendProperties
<1> HIDE DEF n
<1>10. Covers(Session(c)', frames'[c], Len(frames'[c]))
  <2>1. Covers(Session(c), frames'[c], n + 1)
    BY <1>3, <1>9, CoversOneMore
  <2>2. Covers(s, frames'[c], n + 1)
    BY <1>5, <2>1, CoversSame
  <2> QED BY <1>4, <1>9, <2>2
<1>11. ASSUME NEW j \in DOMAIN Session(c)'.marks
       PROVE  Covers(Session(c)'.marks[j], frames'[c], j)
  <2>1. j \in 1 .. n - 1 \/ j = n
    BY <1>3, <1>4, <1>7, <1>11
  <2>2. CASE j = n
    <3>1. Covers(mark, frames'[c], n)
      BY <1>3, <1>6, <1>9, CoversSame
    <3> QED BY <1>4, <1>7, <2>2, <3>1
  <2>3. CASE j \in 1 .. n - 1
    <3>1. Covers(Session(c).marks[j], frames[c], j) /\ s.marks[j] = Session(c).marks[j]
      BY <1>3, <1>7, <2>3
    <3>2. \A k \in 1 .. j : frames'[c][k] = frames[c][k]
      BY <1>3, <1>9, <2>3
    <3>3. Covers(s.marks[j], frames'[c], j)
      BY <3>1, <3>2, CoversSame
    <3> QED BY <1>4, <3>3
  <2> QED BY <2>1, <2>2, <2>3
<1> QED BY <1>0, <1>1, <1>2, <1>10, <1>11, WorkReports

\* A savepoint is released: what its frame has seen and noted is its parent's.
LEMMA ReleaseSavepointReports ==
    ASSUME Inv, Reports, NEW c \in Command, ReleaseSavepoint(c)
    PROVE  ReportFits(c)'
<1>0. Types
  BY DEF Inv, TypeOK
<1>1. /\ step' = step /\ conn' = conn /\ outcome' = outcome /\ OwnWrites(c)' = OwnWrites(c)
      /\ InWork(c) /\ Session(c).link = "up"
  BY QuietStepsApart DEF EndWork, ReleaseSavepoint, Usable, InWork
<1>2. InWork(c)' /\ Busy(c)
  BY <1>1 DEF InWork, Busy
<1> DEFINE n == Len(frames[c])
           s == [Session(c) EXCEPT !.marks = ReleasedMarks(@)]
<1>3. /\ Session(c) \in ServerSession /\ frames[c] \in Seq(Frame) /\ n \in Nat /\ n > 1
      /\ Session(c).marks \in Seq(Mark) /\ Len(Session(c).marks) = n - 1
      /\ DOMAIN Session(c).marks = 1 .. n - 1
      /\ Covers(Session(c), frames[c], n)
      /\ \A j \in DOMAIN Session(c).marks : Covers(Session(c).marks[j], frames[c], j)
  BY <1>1, AtWork DEF ReleaseSavepoint
<1>4. Session(c)' = s
  <2>1. ServerIs(c, s)
    BY DEF ReleaseSavepoint
  <2> HIDE DEF s
  <2> QED BY <1>1, <1>2, <2>1, SessionStep
<1>5. /\ s.wrote = Session(c).wrote /\ s.collector = Session(c).collector
      /\ s.queued = Session(c).queued /\ s.marks = Outer(Session(c).marks)
  BY <1>3 DEF ServerSession, ReleasedMarks
<1> HIDE DEF s
<1>6. /\ s.marks \in Seq(Mark) /\ Len(s.marks) = n - 2
      /\ \A j \in 1 .. n - 2 : s.marks[j] = Session(c).marks[j]
  <2>1. Session(c).marks # <<>>
    BY <1>3
  <2> QED BY <1>3, <1>5, <2>1, OuterType
<1>7. frames'[c] = Merged(frames[c])
  BY <1>0 DEF Types, ReleaseSavepoint
<1>8. /\ Len(frames'[c]) = n - 1
      /\ \A j \in 1 .. n - 2 : frames'[c][j] = frames[c][j]
  <2>1. Len(Merged(frames[c])) = n - 1
    BY <1>3, MergedType
  <2>2. \A j \in 1 .. n - 1 : Outer(frames[c])[j] = frames[c][j]
    BY <1>3, OuterType
  <2>3. Outer(frames[c]) \in Seq(Frame) /\ Len(Outer(frames[c])) = n - 1
    BY <1>3, OuterType
  <2> QED BY <1>3, <1>7, <2>1, <2>2, <2>3 DEF Merged
<1>9. Covers(Session(c)', frames'[c], Len(frames'[c]))
  <2>1. Covers(Session(c), Merged(frames[c]), n - 1)
    BY <1>3, CoversMerged
  <2>2. Covers(s, Merged(frames[c]), n - 1)
    BY <1>5, <2>1, CoversSame
  <2> QED BY <1>4, <1>7, <1>8, <2>2
<1> HIDE DEF n
<1>10. ASSUME NEW j \in DOMAIN Session(c)'.marks
       PROVE  Covers(Session(c)'.marks[j], frames'[c], j)
  <2>1. j \in 1 .. n - 2 /\ j \in DOMAIN Session(c).marks
    BY <1>3, <1>4, <1>6, <1>10
  <2>2. Covers(Session(c).marks[j], frames[c], j) /\ s.marks[j] = Session(c).marks[j]
    BY <1>3, <1>6, <2>1
  <2>3. \A k \in 1 .. j : frames'[c][k] = frames[c][k]
    BY <1>3, <1>8, <2>1
  <2>4. Covers(s.marks[j], frames'[c], j)
    BY <2>2, <2>3, CoversSame
  <2> QED BY <1>4, <2>4
<1> QED BY <1>0, <1>1, <1>2, <1>9, <1>10, WorkReports

\* A savepoint is rolled back: the server returns to its mark, and the client
\* drops the frame, with all it has seen and noted.
LEMMA RollbackSavepointReports ==
    ASSUME Inv, Reports, NEW c \in Command, RollbackSavepoint(c)
    PROVE  ReportFits(c)'
<1>0. Types
  BY DEF Inv, TypeOK
<1>1. /\ step' = step /\ conn' = conn /\ outcome' = outcome /\ OwnWrites(c)' = OwnWrites(c)
      /\ InWork(c)
  BY QuietStepsApart DEF EndWork, RollbackSavepoint, InWork
<1>2. InWork(c)' /\ Busy(c)
  BY <1>1 DEF InWork, Busy
<1>3. CASE ServerIs(c, Down)
  <2>1. Session(c)' = Down
    BY <1>1, <1>2, <1>3, SessionStep
  <2> QED BY <1>0, <1>1, <1>2, <2>1, SessionFields, WorkReports
<1>4. CASE ~ServerIs(c, Down)
  <2> DEFINE n == Len(frames[c])
             mark == Session(c).marks[Len(Session(c).marks)]
             s == [Session(c) EXCEPT !.tx = "open", !.marks = Outer(@), !.wrote = mark.wrote,
                                     !.collector = mark.collector, !.queued = mark.queued]
  <2>1. ServerIs(c, s) /\ Session(c).link = "up" /\ frames' = [frames EXCEPT ![c] = Outer(@)]
        /\ Len(frames[c]) > 1
    BY <1>4 DEF RollbackSavepoint, Discarded, Depth
  <2>2. /\ Session(c) \in ServerSession /\ frames[c] \in Seq(Frame) /\ n \in Nat /\ n > 1
        /\ Session(c).marks \in Seq(Mark) /\ Len(Session(c).marks) = n - 1
        /\ DOMAIN Session(c).marks = 1 .. n - 1
        /\ \A j \in DOMAIN Session(c).marks : Covers(Session(c).marks[j], frames[c], j)
    BY <1>1, <2>1, AtWork
  <2>3. Session(c)' = s
    <3> HIDE DEF s
    <3> QED BY <1>1, <1>2, <2>1, SessionStep
  <2>4. /\ s.wrote = mark.wrote /\ s.collector = mark.collector
        /\ s.queued = mark.queued /\ s.marks = Outer(Session(c).marks)
    BY <2>2 DEF ServerSession
  <2>5. Covers(mark, frames[c], n - 1)
    BY <2>2
  <2> HIDE DEF s, mark
  <2>6. /\ s.marks \in Seq(Mark) /\ Len(s.marks) = n - 2
        /\ \A j \in 1 .. n - 2 : s.marks[j] = Session(c).marks[j]
    <3>1. Session(c).marks # <<>>
      BY <2>2
    <3>2. /\ Outer(Session(c).marks) \in Seq(Mark)
          /\ Len(Outer(Session(c).marks)) = Len(Session(c).marks) - 1
          /\ \A j \in 1 .. Len(Session(c).marks) - 1 : Outer(Session(c).marks)[j] = Session(c).marks[j]
      BY <2>2, <3>1, OuterType
    <3> HIDE DEF n
    <3> QED BY <2>2, <2>4, <3>2
  <2>7. /\ Len(frames'[c]) = n - 1
        /\ \A j \in 1 .. n - 1 : frames'[c][j] = frames[c][j]
    <3>1. frames'[c] = Outer(frames[c])
      BY <1>0, <2>1 DEF Types
    <3>2. frames[c] # <<>>
      BY <2>2
    <3> QED BY <2>2, <3>1, <3>2, OuterType
  <2> HIDE DEF n
  <2>8. Covers(Session(c)', frames'[c], Len(frames'[c]))
    <3>1. Covers(s, frames'[c], n - 1)
      BY <2>4, <2>5, <2>7, CoversSame
    <3> QED BY <2>3, <2>7, <3>1
  <2>9. ASSUME NEW j \in DOMAIN Session(c)'.marks
        PROVE  Covers(Session(c)'.marks[j], frames'[c], j)
    <3>1. j \in 1 .. n - 2 /\ j \in DOMAIN Session(c).marks
      BY <2>2, <2>3, <2>6, <2>9
    <3>2. Covers(Session(c).marks[j], frames[c], j) /\ s.marks[j] = Session(c).marks[j]
      BY <2>2, <2>6, <3>1
    <3>3. \A k \in 1 .. j : frames'[c][k] = frames[c][k]
      BY <2>2, <2>7, <3>1
    <3>4. Covers(s.marks[j], frames'[c], j)
      BY <3>2, <3>3, CoversSame
    <3> QED BY <2>3, <3>4
  <2> QED BY <1>0, <1>1, <1>2, <2>8, <2>9, WorkReports
<1> QED BY <1>3, <1>4

\* The callback ends, with one frame if it resolved.
LEMMA EndCallbackReports ==
    ASSUME Inv, Reports, NEW c \in Command, Finish(c) \/ WorkFails(c) \/ Settle(c)
    PROVE  ReportFits(c)'
<1>0. Types /\ ReportFits(c)
  BY DEF Inv, TypeOK, Reports
<1>1. /\ conn' = conn /\ outcome' = outcome /\ server' = server /\ frames' = frames
      /\ OwnWrites(c)' = OwnWrites(c)
      /\ InWork(c)
  BY QuietStepsApart DEF EndWork, Finish, WorkFails, Settle, InWork
<1>2. Session(c)' = Session(c) /\ Depth(c)' = Depth(c) /\ outcome[c] = "none" /\ OwnWrites(c) = {}
  BY <1>0, <1>1 DEF Session, Depth, ReportFits, InWork, Decided
<1>3. CASE Finish(c)
  <2>1. step'[c] = "constrain" /\ Depth(c) = 1
    BY <1>0, <1>3 DEF Types, Finish, GoTo
  <2>2. Session(c).link = "up" => Collected(c)'
    <3>1. SUFFICES ASSUME Session(c).link = "up" PROVE Collected(c)'
      OBVIOUS
    <3>2. Covers(Session(c), frames[c], Depth(c))
      BY <1>1, <3>1, AtWork
    <3>3. Covers(Session(c), frames[c], Depth(c))'
      BY <1>1, <1>2, <3>2 DEF Covers, Unseen
    <3> QED BY <2>1, <3>3 DEF Collected, InWork
  <2> QED BY <1>1, <1>2, <2>1, <2>2 DEF ReportFits, Decided
<1>4. CASE WorkFails(c)
  <2>1. step'[c] = "settling"
    BY <1>0, <1>4 DEF Types, WorkFails, GoTo
  <2> QED BY <1>1, <1>2, <2>1, SameReports DEF InWork
<1>5. CASE Settle(c)
  <2>1. step'[c] = "rollback"
    BY <1>0, <1>5 DEF Types, Settle, GoTo
  <2> QED BY <1>1, <1>2, <2>1, NothingToReport
<1> QED BY <1>3, <1>4, <1>5

\* SET CONSTRAINTS runs the deferred triggers while the collector collects.
LEMMA ConstrainReports ==
    ASSUME Inv, Reports, NEW c \in Command, Constrain(c)
    PROVE  ReportFits(c)'
<1>0. Types /\ ReportFits(c)
  BY DEF Inv, TypeOK, Reports
<1>1. /\ step[c] = "constrain" /\ step'[c] = "drain" /\ conn' = conn /\ outcome' = outcome
      /\ frames' = frames /\ OwnWrites(c)' = OwnWrites(c)
      /\ Session(c).link = "up" /\ Session(c).tx = "open"
  BY <1>0, QuietStepsApart DEF Types, Constrain, GoTo, Usable
<1>2. Busy(c) /\ Session(c) \in ServerSession
  BY <1>0, <1>1, Acting DEF Busy, Inv
<1>3. Covers(Session(c), frames[c], Depth(c)) /\ Depth(c) = 1
  BY <1>0, <1>1 DEF ReportFits, Collected, InTransaction
<1> DEFINE old == Session(c)
           s == [old EXCEPT !.wrote = @ \cup old.queued,
                            !.collector = @ \cup (old.queued \ View),
                            !.queued = FollowUps(old.queued)]
<1>4. Session(c)' = s
  <2>1. ServerIs(c, s)
    BY DEF Constrain
  <2> HIDE DEF s
  <2> QED BY <1>1, <1>2, <2>1, SessionStep
<1>5. /\ s.wrote = old.wrote \cup old.queued
      /\ s.collector = old.collector \cup (old.queued \ View)
      /\ s.queued = FollowUps(old.queued) /\ s.tx = "open"
      /\ old.queued \subseteq Table
  BY <1>1, <1>2 DEF ServerSession
<1> HIDE DEF s, old
<1>6. Covers(s, frames[c], 1)
  <2>1. Covers(old, frames[c], 1)
    BY <1>3 DEF old
  <2>2. \A t \in old.queued : t \in View => t \in Unseen
    BY <2>1 DEF Covers, Unseen
  <2>3. \A t \in s.queued : \E u \in Table : t \in FollowUp[u]
    BY <1>5 DEF FollowUps
  <2> QED BY <1>5, <2>1, <2>2, <2>3 DEF Covers
<1>7. Collected(c)'
  <2>1. Covers(Session(c), frames[c], Depth(c))'
    BY <1>1, <1>3, <1>4, <1>6 DEF Covers, Unseen, Depth
  <2> QED BY <1>1, <1>4, <1>5, <2>1 DEF Collected, InWork
<1> QED BY <1>0, <1>1, <1>3, <1>7 DEF ReportFits, Decided, Depth

\* The drain and the seal: what is drained is all that was collected.
LEMMA DrainReports ==
    ASSUME Inv, Reports, NEW c \in Command, Drain(c) \/ Seal(c)
    PROVE  ReportFits(c)'
<1>0. Types /\ ReportFits(c)
  BY DEF Inv, TypeOK, Reports
<1>1. /\ step[c] \in {"drain", "seal"} /\ conn' = conn /\ outcome' = outcome
      /\ frames' = frames /\ OwnWrites(c)' = OwnWrites(c)
      /\ Session(c).link = "up" /\ Session(c).tx = "open"
  BY QuietStepsApart DEF Drain, Seal, Usable
<1>2. Busy(c) /\ Session(c) \in ServerSession /\ Collected(c) /\ Depth(c) = 1
  BY <1>0, <1>1, Acting DEF Busy, Inv, ReportFits, InTransaction
<1>3. CASE Drain(c)
  <2>1. step[c] = "drain" /\ step'[c] = "seal" /\ observed'[c] = Session(c).collector
    BY <1>0, <1>3 DEF Types, Drain, GoTo
  <2> DEFINE s == [Session(c) EXCEPT !.collector = {}]
  <2>2. Session(c)' = s
    <3>1. ServerIs(c, s)
      BY <1>3 DEF Drain
    <3> HIDE DEF s
    <3> QED BY <1>1, <1>2, <3>1, SessionStep
  <2>3. s.wrote = Session(c).wrote /\ s.tx = "open"
    BY <1>1, <1>2 DEF ServerSession
  <2> HIDE DEF s
  <2>4. Covers(Session(c), frames[c], 1)
    BY <1>2, <2>1 DEF Collected
  <2>5. Drained(c)'
    <3>1. \A j \in 1 .. 1 : j = 1
      OBVIOUS
    <3>2. 1 \in 1 .. 1
      OBVIOUS
    <3> QED BY <1>1, <2>1, <2>2, <2>3, <2>4, <3>1, <3>2 DEF Covers, Drained, Unseen
  <2>6. Collected(c)'
    BY <2>1, <2>2, <2>3, <2>5 DEF Collected, InWork
  <2> QED BY <1>0, <1>1, <1>2, <2>1, <2>6 DEF ReportFits, Decided, Depth
<1>4. CASE Seal(c)
  <2>1. step[c] = "seal" /\ step'[c] = "commit" /\ observed' = observed
    BY <1>0, <1>4 DEF Types, Seal, GoTo
  <2>2. Session(c)' = Sealed(Session(c))
    BY <1>1, <1>2, <1>4, SessionStep DEF Seal
  <2>3. /\ Sealed(Session(c)).wrote = Session(c).wrote
        /\ Sealed(Session(c)).tx = "open" /\ Sealed(Session(c)).phase = "sealed"
    BY <1>1, <1>2 DEF Sealed, ServerSession
  <2>4. Drained(c)
    BY <1>2, <2>1 DEF Collected
  <2>5. Drained(c)'
    BY <1>1, <2>1, <2>2, <2>3, <2>4 DEF Drained, Unseen
  <2>6. Collected(c)'
    BY <2>1, <2>2, <2>3, <2>5 DEF Collected, InWork
  <2> QED BY <1>0, <1>1, <1>2, <2>1, <2>6 DEF ReportFits, Decided, Depth
<1> QED BY <1>3, <1>4

\* What a sealed transaction commits is what it wrote before the seal.
LEMMA CommittedIsDrained ==
    ASSUME Inv, Reports, NEW c \in Command, step[c] = "commit", Session(c).link = "up"
    PROVE  /\ Session(c).tx = "open" /\ Drained(c) /\ Depth(c) = 1 /\ OwnWrites(c) = {}
           /\ CommittedBy(Session(c)) = Session(c).wrote
<1>1. ReportFits(c) /\ Collected(c)
  BY DEF Reports, ReportFits, InTransaction
<1>2. Session(c).tx = "open" /\ Session(c).phase = "sealed" /\ Drained(c)
  BY <1>1 DEF Collected
<1>3. Depth(c) = 1 /\ OwnWrites(c) = {}
  BY <1>1 DEF ReportFits, Decided
<1> QED BY <1>2, <1>3 DEF CommittedBy

\* COMMIT, answered, refused or lost.
LEMMA CommitReports ==
    ASSUME Inv, Reports, NEW c \in Command, Commit(c) \/ CommitRejected(c) \/ CommitLost(c)
    PROVE  Apart(c) /\ ReportFits(c)'
<1>0. Types /\ ReportFits(c)
  BY DEF Inv, TypeOK, Reports
<1>1. /\ step[c] = "commit" /\ conn' = conn /\ frames' = frames /\ observed' = observed
      /\ answer' = answer /\ Busy(c) /\ outcome[c] = "none"
  BY <1>0 DEF Commit, CommitRejected, CommitLost, Busy, ReportFits, Decided
<1>2. CASE CommitRejected(c)
  <2>1. step'[c] = "rollback" /\ outcome' = outcome
    BY <1>0, <1>2 DEF Types, CommitRejected, GoTo
  <2> QED BY <1>1, <1>2, <2>1, NothingToReport, QuietStepsApart
<1>3. ASSUME Commit(c) \/ CommitLost(c)
      PROVE  Apart(c)
  <2>1. PICK tables : durable' = durable \cup ({c} \X tables)
    <3>1. durable = durable \cup ({c} \X {})
      OBVIOUS
    <3> QED BY <1>3, <3>1 DEF Commit, CommitLost
  <2>2. ASSUME NEW d \in Command \ {c}
        PROVE  step'[d] = step[d] /\ outcome'[d] = outcome[d]
    BY <1>0, <1>3, <2>2 DEF Types, Commit, CommitLost, GoTo
  <2>3. ASSUME NEW d \in Command \ {c}, InTransaction(d)
        PROVE  Session(d)' = Session(d)
    BY <1>1, <1>3, <2>3, SessionsApart DEF Commit, CommitLost
  <2> QED BY <1>1, <2>1, <2>2, <2>3, OwnWritesGrow DEF Apart
<1>4. CASE CommitLost(c)
  <2>1. \/ step'[c] = "rollback" /\ outcome' = outcome
        \/ step'[c] = "release" /\ outcome'[c] = "unknown"
    BY <1>0, <1>4 DEF Types, CommitLost, GoTo
  <2>2. ReportFits(c)'
    BY <1>1, <2>1, NothingToReport DEF ReportFits, Decided, InTransaction
  <2> QED BY <1>3, <1>4, <2>2
<1>5. CASE Commit(c)
  <2>1. step'[c] = "release" /\ outcome'[c] = "returned" /\ Session(c).link = "up"
    BY <1>0, <1>5 DEF Types, Commit, GoTo
  <2>2. /\ Session(c).tx = "open" /\ Drained(c) /\ Depth(c) = 1 /\ OwnWrites(c) = {}
        /\ CommittedBy(Session(c)) = Session(c).wrote
    BY <1>1, <2>1, CommittedIsDrained
  <2>3. durable' = durable \cup ({c} \X Session(c).wrote)
    BY <1>5, <2>2 DEF Commit
  <2>4. OwnWrites(c)' = Session(c).wrote
    BY <2>2, <2>3, OwnWritesGrow
  <2>5. Told(c)'
    BY <1>1, <2>2, <2>4 DEF Told, Drained, Unseen
  <2>6. ReportFits(c)'
    BY <1>1, <2>1, <2>2, <2>5 DEF ReportFits, Decided, InTransaction, Depth
  <2> QED BY <1>3, <1>5, <2>6
<1> QED BY <1>2, <1>4, <1>5

\* The clean-up adds nothing.
LEMMA CleanupReports ==
    ASSUME Inv, Reports, NEW c \in Command,
           BoundaryFails(c) \/ Rollback(c) \/ Release(c) \/ ReleaseFails(c)
    PROVE  ReportFits(c)'
<1>0. Types /\ ReportFits(c)
  BY DEF Inv, TypeOK, Reports
<1>1. OwnWrites(c)' = OwnWrites(c)
  BY QuietStepsApart
<1>2. CASE BoundaryFails(c)
  <2>1. step'[c] = "rollback" /\ outcome' = outcome /\ ~Decided(c)
    BY <1>0, <1>2 DEF Types, BoundaryFails, GoTo, Decided
  <2> QED BY <1>0, <2>1, NothingToReport DEF ReportFits
<1>3. CASE Rollback(c)
  <2>1. step'[c] = "release" /\ outcome'[c] = "rejected"
    BY <1>0, <1>3 DEF Types, Rollback, GoTo
  <2> QED BY <2>1 DEF ReportFits, Decided, InTransaction
<1>4. CASE Release(c) \/ ReleaseFails(c)
  <2>1. /\ step[c] = "release" /\ step'[c] = "done" /\ outcome' = outcome
        /\ frames' = frames /\ observed' = observed
    BY <1>0, <1>4 DEF Types, Release, ReleaseFails, Settled, GoTo
  <2>2. Told(c)' = Told(c)
    BY <1>1, <2>1 DEF Told, Unseen
  <2> QED BY <1>0, <2>1, <2>2 DEF ReportFits, Decided, InTransaction, Depth
<1> QED BY <1>2, <1>3, <1>4

-----------------------------------------------------------------------------
(* The invariant, and the implementation of the promise step by step. *)

\* The initial states report nothing.
LEMMA ReportsInit == Init => Reports
<1> SUFFICES ASSUME Init, NEW c \in Command PROVE ReportFits(c)
  BY DEF Reports
<1>1. step[c] = "idle" /\ outcome[c] = "none" /\ durable = {}
  BY DEF Init
<1>2. OwnWrites(c) = {}
  BY <1>1 DEF OwnWrites
<1> QED BY <1>1, <1>2 DEF ReportFits, Decided, InTransaction

\* The steps of a command, in the order of the lemmas above.
LEMMA StepsOfCommand ==
    ASSUME [Next]_vars
    PROVE  \/ \E c \in Command :
                 \/ Reserve(c) \/ Refuse(c) \/ Enter(c)
                 \/ \E table \in Direct : Issue(c, table)
                 \/ \E i \in DOMAIN frames[c], table \in Direct : ExecuteFails(c, i, table)
                 \/ SavepointFails(c)
                 \/ \E i \in DOMAIN frames[c], table \in Direct : Execute(c, i, table)
                 \/ Savepoint(c) \/ ReleaseSavepoint(c) \/ RollbackSavepoint(c)
                 \/ Finish(c) \/ WorkFails(c) \/ Settle(c)
                 \/ Constrain(c) \/ Drain(c) \/ Seal(c) \/ BoundaryFails(c)
                 \/ Commit(c) \/ CommitRejected(c) \/ CommitLost(c)
                 \/ Rollback(c) \/ Release(c) \/ ReleaseFails(c)
           \/ RequestGate \/ LockGate \/ EndMigration \/ UNCHANGED vars
  BY DEF Next, Advance, EndWork

LEMMA ReportsNext ==
    ASSUME Inv, Reports, [Next]_vars
    PROVE  Reports'
<1>1. ASSUME NEW c \in Command, Commit(c) \/ CommitRejected(c) \/ CommitLost(c)
      PROVE  Reports'
  BY <1>1, CommitReports, ReportsStep
<1>2. ASSUME NEW c \in Command, Apart(c), ReportFits(c)' PROVE Reports'
  BY <1>2, ReportsStep
<1>3. ASSUME NEW c \in Command, Reserve(c) \/ Refuse(c) \/ Enter(c)
      PROVE  Reports'
  BY <1>2, <1>3, QuietStepsApart, StartReports
<1>4. ASSUME NEW c \in Command,
             \/ \E table \in Direct : Issue(c, table)
             \/ \E i \in DOMAIN frames[c], table \in Direct : ExecuteFails(c, i, table)
             \/ SavepointFails(c)
      PROVE  Reports'
  <2>1. ReportFits(c)'
    BY <1>4, NoWriteReports
  <2>2. Apart(c)
    BY <1>4, QuietStepsApart
  <2> QED BY <1>2, <2>1, <2>2
<1>5. ASSUME NEW c \in Command, NEW i \in DOMAIN frames[c], NEW table \in Direct, Execute(c, i, table)
      PROVE  Reports'
  <2>1. Apart(c)
    BY <1>5, QuietStepsApart
  <2> QED BY <1>2, <1>5, <2>1, ExecuteReports
<1>6. ASSUME NEW c \in Command,
             \/ Savepoint(c) \/ ReleaseSavepoint(c) \/ RollbackSavepoint(c)
             \/ Finish(c) \/ WorkFails(c) \/ Settle(c)
             \/ Constrain(c) \/ Drain(c) \/ Seal(c) \/ BoundaryFails(c)
             \/ Rollback(c) \/ Release(c) \/ ReleaseFails(c)
      PROVE  Reports'
  <2>1. Apart(c)
    BY <1>6, QuietStepsApart DEF EndWork
  <2>2. ReportFits(c)'
    BY <1>6, SavepointReports, ReleaseSavepointReports, RollbackSavepointReports, EndCallbackReports,
       ConstrainReports, DrainReports, CleanupReports
  <2> QED BY <1>2, <2>1, <2>2
<1>7. CASE RequestGate \/ LockGate \/ EndMigration \/ UNCHANGED vars
  <2>1. /\ step' = step /\ conn' = conn /\ server' = server /\ frames' = frames /\ observed' = observed
        /\ outcome' = outcome /\ durable' = durable
    BY <1>7 DEF RequestGate, LockGate, EndMigration, vars, client
  <2> SUFFICES ASSUME NEW c \in Command PROVE ReportFits(c)'
    BY DEF Reports
  <2>2. ReportFits(c)' = ReportFits(c)
    BY <2>1 DEF ReportFits, Decided, Told, Collected, Drained, Covers, Unseen, InTransaction, InWork,
                Session, Depth, OwnWrites
  <2> QED BY <2>2 DEF Reports
<1> QED BY <1>1, <1>3, <1>4, <1>5, <1>6, <1>7, StepsOfCommand

\* The invariant behind the theorems of this module.
THEOREM ReportsInvariance == Spec => [](Inv /\ Reports)
<1>1. Init => Inv /\ Reports
  BY InvInit, ReportsInit
<1>2. Inv /\ Reports /\ [Next]_vars => (Inv /\ Reports)'
  BY InvNext, ReportsNext
<1> QED BY <1>1, <1>2, PTL DEF Spec

\* A command that returns has made durable every statement that its callback saw
\* succeed outside a rolled back savepoint, whatever failed in between
\* (tracked-db.ts, the savepoint stack; index.ts, COMMIT).
THEOREM ReturnedWorkIsDurable == Spec => []ReturnedIsDurable
<1>1. Reports => ReturnedIsDurable
  BY DEF Reports, ReportFits, Told, ReturnedIsDurable
<1> QED BY <1>1, ReportsInvariance, PTL

\* Whatever commits the outcome of one command leaves the promise to others alone.
LEMMA PromiseStutters ==
    ASSUME NEW c \in Command, Apart(c), OwnWrites(c)' = OwnWrites(c), Types, Types',
           outcome'[c] = outcome[c], answer'[c] = answer[c],
           step'[c] = "done" <=> step[c] = "done"
    PROVE  UNCHANGED Promise!vars
<1>1. \A d \in Command :
         /\ OwnWrites(d)' = OwnWrites(d) /\ answer'[d] = answer[d] /\ outcome'[d] = outcome[d]
         /\ step'[d] = "done" <=> step[d] = "done"
  BY DEF Apart
<1>2. outcome' = outcome
  BY <1>1 DEF Types
<1> QED BY <1>1, <1>2 DEF Promise!vars

\* Every step of the adapter is a step of the promise or none of its business.
LEMMA PromiseNext ==
    ASSUME CodesAreTold, ViewsAreNoted,
           Inv, Inv', Reports, Reports', DurableAfterCommit', [Next]_vars
    PROVE  [Promise!Next]_(Promise!vars)
<1>0. Types /\ Types'
  BY DEF Inv, TypeOK
<1>1. ASSUME NEW c \in Command, Refuse(c)
      PROVE  Promise!Refuse(c)
  <2>1. /\ step[c] = "idle" /\ step' = [step EXCEPT ![c] = "done"]
        /\ outcome' = [outcome EXCEPT ![c] = "rejected"] /\ answer' = answer /\ durable' = durable
    BY <1>1 DEF Refuse, GoTo
  <2>2. outcome[c] = "none"
    BY <2>1 DEF Reports, ReportFits, Decided
  <2>3. \A d \in Command : OwnWrites(d)' = OwnWrites(d)
    BY <2>1 DEF OwnWrites
  <2>4. [d \in Command |-> step[d] = "done"]' = [[d \in Command |-> step[d] = "done"] EXCEPT ![c] = TRUE]
    BY <1>0, <2>1 DEF Types
  <2> QED BY <2>1, <2>2, <2>3, <2>4 DEF Promise!Refuse, Promise!Decides
<1>2. ASSUME NEW c \in Command, Rollback(c)
      PROVE  Promise!Reject(c)
  <2>1. /\ step[c] = "rollback" /\ step' = [step EXCEPT ![c] = "release"]
        /\ outcome' = [outcome EXCEPT ![c] = "rejected"] /\ answer' = answer /\ durable' = durable
    BY <1>2 DEF Rollback, GoTo
  <2>2. outcome[c] = "none"
    BY <2>1 DEF Reports, ReportFits, Decided
  <2>3. \A d \in Command : /\ OwnWrites(d)' = OwnWrites(d)
                           /\ step'[d] = "done" <=> step[d] = "done"
    BY <1>0, <2>1 DEF OwnWrites, Types
  <2> QED BY <2>1, <2>2, <2>3 DEF Promise!Reject, Promise!Decides
<1>3. ASSUME NEW c \in Command, Commit(c) \/ CommitLost(c)
      PROVE  Promise!Return(c) \/ Promise!LoseTrack(c)
  <2>1. /\ step[c] = "commit" /\ step' = [step EXCEPT ![c] = "release"] /\ answer' = answer
        /\ \/ outcome' = [outcome EXCEPT ![c] = "returned"]
           \/ outcome' = [outcome EXCEPT ![c] = "unknown"]
    BY <1>3 DEF Commit, CommitLost, GoTo, CodesAreTold
  <2>2. outcome[c] = "none"
    BY <2>1 DEF Reports, ReportFits, Decided
  <2>3. Apart(c)
    BY <1>3, CommitReports
  <2>4. \A d \in Command : step'[d] = "done" <=> step[d] = "done"
    BY <1>0, <2>1 DEF Types
  <2>5. OwnWrites(c)' \in SUBSET Table
    BY <1>0 DEF Types, OwnWrites
  <2>6. [d \in Command |-> OwnWrites(d)]' = [[d \in Command |-> OwnWrites(d)] EXCEPT ![c] = OwnWrites(c)']
    BY <2>3 DEF Apart
  <2> QED BY <2>1, <2>2, <2>4, <2>5, <2>6 DEF Promise!Return, Promise!LoseTrack, Promise!Decides
<1>4. ASSUME NEW c \in Command, Release(c) \/ ReleaseFails(c)
      PROVE  Promise!Settle(c)
  <2>1. /\ step[c] = "release" /\ step' = [step EXCEPT ![c] = "done"] /\ outcome' = outcome
        /\ durable' = durable /\ Settled(c)
    BY <1>4 DEF Release, ReleaseFails, Settled, GoTo
  <2>2. outcome[c] # "none" /\ ReportFits(c)
    BY <2>1 DEF Reports, ReportFits, Decided
  <2>3. \A d \in Command : OwnWrites(d)' = OwnWrites(d)
    BY <2>1 DEF OwnWrites
  <2>4. [d \in Command |-> step[d] = "done"]' = [[d \in Command |-> step[d] = "done"] EXCEPT ![c] = TRUE]
    BY <1>0, <2>1 DEF Types
  <2> DEFINE told == [d \in Command |-> answer[d].facts \cup answer[d].unavailable]
  <2>5. told' = IF outcome[c] = "returned" THEN [told EXCEPT ![c] = OwnWrites(c)] ELSE told
    <3>1. PICK garbled \in SUBSET observed[c] :
             answer' = IF outcome[c] = "returned"
                       THEN [answer EXCEPT ![c] = [facts |-> Inner(c).noted \cup (observed[c] \ garbled),
                                                   unavailable |-> garbled]]
                       ELSE answer
      BY <2>1 DEF Settled
    <3>2. CASE outcome[c] = "returned"
      <4>1. Told(c) /\ Inner(c) = frames[c][1] /\ frames[c] # <<>> /\ frames[c] \in Seq(Frame)
        BY <1>0, <2>2, <3>2 DEF ReportFits, Inner, Inv, PendingInWork, Types
      <4>2. frames[c][1] \in Frame
        BY <4>1
      <4>3. Inner(c).noted \subseteq Table /\ observed[c] \subseteq Table
        BY <1>0, <4>1, <4>2 DEF Frame, Types
      <4>4. OwnWrites(c) \subseteq Table
        BY <1>0 DEF Types, OwnWrites
      <4>5. OwnWrites(c) = Inner(c).noted \cup observed[c]
        BY <4>1, <4>3, <4>4 DEF Told, ViewsAreNoted
      <4>6. answer'[c].facts \cup answer'[c].unavailable = OwnWrites(c)
        BY <1>0, <3>1, <3>2, <4>5 DEF Types
      <4>7. \A d \in Command \ {c} : answer'[d] = answer[d]
        BY <1>0, <3>1 DEF Types
      <4> QED BY <3>2, <4>6, <4>7
    <3>3. CASE outcome[c] # "returned"
      BY <3>1, <3>3
    <3> QED BY <3>2, <3>3
  <2> QED BY <2>1, <2>2, <2>3, <2>4, <2>5 DEF Promise!Settle
<1>5. ASSUME NEW c \in Command,
             \/ Reserve(c) \/ Enter(c)
             \/ \E table \in Direct : Issue(c, table)
             \/ \E i \in DOMAIN frames[c], table \in Direct : Execute(c, i, table) \/ ExecuteFails(c, i, table)
             \/ Savepoint(c) \/ SavepointFails(c) \/ EndWork(c) \/ Settle(c)
             \/ Constrain(c) \/ Drain(c) \/ Seal(c) \/ BoundaryFails(c) \/ CommitRejected(c)
      PROVE  UNCHANGED Promise!vars
  <2>1. Apart(c) /\ OwnWrites(c)' = OwnWrites(c)
    BY <1>5, QuietStepsApart
  <2>2. outcome' = outcome /\ answer' = answer
    BY <1>5 DEF Reserve, Enter, Preamble, PreambleFails, Issue, Execute, ExecuteFails, Savepoint,
                SavepointFails, EndWork, ReleaseSavepoint, RollbackSavepoint, Finish, WorkFails, Settle,
                Constrain, Drain, Seal, BoundaryFails, CommitRejected
  <2>3. outcome[c] = "none"
    <3>1. step[c] \notin {"release", "done"}
      BY <1>5 DEF Reserve, Enter, Preamble, PreambleFails, Issue, Execute, ExecuteFails, Savepoint,
                  SavepointFails, EndWork, ReleaseSavepoint, RollbackSavepoint, Finish, WorkFails, Settle,
                  Constrain, Drain, Seal, BoundaryFails, CommitRejected, Inv, PendingInWork, InWork
    <3> QED BY <3>1 DEF Reports, ReportFits, Decided
  <2>4. step[c] # "done" /\ step'[c] # "done"
    BY <2>2, <2>3 DEF Reports, ReportFits, Decided
  <2> QED BY <1>0, <2>1, <2>2, <2>4, PromiseStutters
<1>6. CASE RequestGate \/ LockGate \/ EndMigration \/ UNCHANGED vars
  <2>1. step' = step /\ outcome' = outcome /\ durable' = durable /\ answer' = answer
    BY <1>6 DEF RequestGate, LockGate, EndMigration, vars, client
  <2> QED BY <2>1 DEF Promise!vars, OwnWrites
<1> QED BY <1>1, <1>2, <1>3, <1>4, <1>5, <1>6, StepsOfCommand DEF Promise!Next, EndWork

\* Seen from its caller a command keeps its promise: it takes effect in the step
\* that decides its outcome or not at all, and a response tells of exactly what
\* was stored, by statements or by triggers up to COMMIT (index.ts:346-430).  It is
\* assumed that the driver's codes for a lost connection are told from rejections,
\* and that no deferred trigger refreshes a registered view, which nothing notes.
\* That a decided command settles stays with TLC.
THEOREM CommandsKeepTheirPromise ==
    ASSUME CodesAreTold, ViewsAreNoted
    PROVE  Spec => Promise!Init /\ [][Promise!Next]_(Promise!vars)
<1>1. Init => Promise!Init
  <2> SUFFICES ASSUME Init PROVE Promise!Init
    OBVIOUS
  <2>1. \A c \in Command : OwnWrites(c) = {}
    BY DEF Init, OwnWrites
  <2>2. \A c \in Command : answer[c].facts \cup answer[c].unavailable = {}
    BY DEF Init
  <2>3. \A c \in Command : (step[c] = "done") = FALSE
    BY DEF Init
  <2> QED BY <2>1, <2>2, <2>3 DEF Init, Promise!Init
<1>2. Init => DurableAfterCommit
  BY DEF Init, DurableAfterCommit
<1>3. Inv /\ DurableAfterCommit /\ [Next]_vars => DurableAfterCommit'
  BY DurableNext
<1>4. Inv /\ Reports /\ (Inv /\ Reports)' /\ DurableAfterCommit' /\ [Next]_vars
         => [Promise!Next]_(Promise!vars)
  BY PromiseNext
<1> QED BY <1>1, <1>2, <1>3, <1>4, ReportsInvariance, PTL DEF Spec
=============================================================================
