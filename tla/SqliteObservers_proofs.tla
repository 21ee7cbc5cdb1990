----------------------- MODULE SqliteObservers_proofs -----------------------
(***************************************************************************)
(* What TLAPS proves of SqliteObservers for any engines, tables and calls: *)
(* type correctness, that transactions never overlap, and, when every      *)
(* registered table exists, that a running command has its own observers.  *)
(***************************************************************************)
EXTENDS SqliteObservers, TLAPS

\* A command that awaits its validation knows which one.
Awaits == \A c \in Caller : pc[c] = "awaiting" => snapshot[c] \in Caller

\* A running command is the oldest job.
HoldsTurn == \A c \in Caller : Running(c) => Turn("command", c)

\* The recorded engine's triggers are on all of its tables.
ActiveInstalled == active # NoEngine => \A t \in Registered[active] : installed[t] = active

\* A running command is one of the recorded engine.
RunsActive == \A c \in Caller : Running(c) => active = EngineOf[c]

TypeInv == TypeOK /\ Awaits

-----------------------------------------------------------------------------
\* prepare() keeps the types of what it records and installs.
LEMMA PrepareType ==
    ASSUME TypeOK, NEW engine \in Engine, NEW force, Prepare(engine, force)
    PROVE  /\ active' \in Engine \cup {NoEngine}
           /\ installed' \in [Table -> Engine \cup {NoEngine}]
<1>1. CASE ~force /\ active = engine
  BY <1>1 DEF TypeOK, Prepare
<1>2. CASE ~(~force /\ active = engine)
  <2>1. active' \in Engine \cup {NoEngine}
    BY <1>2 DEF TypeOK, Prepare
  <2>2. \A t \in Table : installed[t] \in Engine \cup {NoEngine}
    BY DEF TypeOK
  <2>3. installed' \in [Table -> Engine \cup {NoEngine}]
    BY <1>2, <2>2 DEF Prepare, InstallObservers
  <2> QED BY <2>1, <2>3
<1> QED BY <1>1, <1>2

LEMMA TypeStep == TypeInv /\ [Next]_vars => TypeInv'
<1> SUFFICES ASSUME TypeInv, [Next]_vars PROVE TypeInv'
  OBVIOUS
<1> USE ObserversAssumption DEF TypeInv, TypeOK, Awaits, Job, Places, Reports
<1>1. ASSUME NEW c \in Caller, Validate(c) PROVE TypeInv'
  BY <1>1 DEF Validate
<1>2. ASSUME NEW c \in Caller, Command(c) PROVE TypeInv'
  <2>1. EngineOf[c] \in Engine
    OBVIOUS
  <2>2. /\ queue' \in Seq([kind : {"validate", "command"}, caller : Caller])
        /\ pinned' \in [Engine -> Caller \cup {NoEngine}]
        /\ report' \in [Caller -> Reports]
        /\ pinned'[EngineOf[c]] \in Caller
    <3>1. CASE pinned[EngineOf[c]] = NoEngine
      <4>1. /\ queue' = Append(queue, Job("validate", c))
            /\ pinned' = [pinned EXCEPT ![EngineOf[c]] = c]
            /\ report' = [report EXCEPT ![c] = "pending"]
        BY <1>2, <3>1 DEF Command
      <4>2. Job("validate", c) \in [kind : {"validate", "command"}, caller : Caller]
        OBVIOUS
      <4> QED BY <2>1, <4>1, <4>2
    <3>2. CASE pinned[EngineOf[c]] # NoEngine
      BY <1>2, <2>1, <3>2 DEF Command
    <3> QED BY <3>1, <3>2
  <2>3. UNCHANGED <<assessment, active, installed>>
    BY <1>2 DEF Command
  <2>4. /\ pc' \in [Caller -> Places]
        /\ snapshot' = [snapshot EXCEPT ![c] = pinned'[EngineOf[c]]]
        /\ pc' = [pc EXCEPT ![c] = "awaiting"]
    BY <1>2 DEF Command
  <2> QED BY <2>2, <2>3, <2>4
<1>3. ASSUME NEW c \in Caller, RunValidation(c) PROVE TypeInv'
  <2>1. EngineOf[c] \in Engine
    OBVIOUS
  <2>2. /\ active' \in Engine \cup {NoEngine}
        /\ installed' \in [Table -> Engine \cup {NoEngine}]
    BY <1>3, <2>1, PrepareType DEF RunValidation
  <2>3. queue' \in Seq([kind : {"validate", "command"}, caller : Caller])
    BY <1>3 DEF RunValidation, Turn
  <2>4. /\ report' \in [Caller -> Reports]
        /\ pc' \in [Caller -> Places]
        /\ \A d \in Caller : pc'[d] = "awaiting" => pc[d] = "awaiting"
        /\ UNCHANGED <<pinned, snapshot, assessment>>
    BY <1>3 DEF RunValidation
  <2> QED BY <2>2, <2>3, <2>4
<1>4. ASSUME NEW c \in Caller, Enqueue(c) PROVE TypeInv'
  BY <1>4 DEF Enqueue, Arrived
<1>5. ASSUME NEW c \in Caller, StartCommand(c) PROVE TypeInv'
  <2>1. EngineOf[c] \in Engine
    OBVIOUS
  <2>2. /\ active' \in Engine \cup {NoEngine}
        /\ installed' \in [Table -> Engine \cup {NoEngine}]
    BY <1>5, <2>1, PrepareType DEF StartCommand
  <2>3. /\ assessment' \in [Caller -> Reports \ {"pending"}]
        /\ pc' \in [Caller -> Places]
        /\ \A d \in Caller : pc'[d] = "awaiting" => pc[d] = "awaiting"
        /\ UNCHANGED <<queue, pinned, report, snapshot>>
    BY <1>5 DEF StartCommand
  <2> QED BY <2>2, <2>3
<1>6. ASSUME NEW c \in Caller, FinishCommand(c) PROVE TypeInv'
  BY <1>6 DEF FinishCommand, Turn
<1>7. CASE UNCHANGED vars
  BY <1>7 DEF vars
<1> QED BY <1>1, <1>2, <1>3, <1>4, <1>5, <1>6, <1>7 DEF Next, Progress

\* Every reachable state is well typed, whatever tables are missing.
THEOREM TypeCorrect == Spec => []TypeOK
<1>1. Init => TypeInv
  BY ObserversAssumption DEF Init, TypeInv, TypeOK, Awaits, Places, Reports
<1>2. TypeInv /\ [Next]_vars => TypeInv'
  BY TypeStep
<1>3. TypeInv => TypeOK
  BY DEF TypeInv
<1> QED BY <1>1, <1>2, <1>3, PTL DEF Spec

-----------------------------------------------------------------------------
LEMMA TurnStep ==
    ASSUME TypeOK, HoldsTurn, [Next]_vars PROVE HoldsTurn'
<1> USE DEF HoldsTurn, Turn, Running, Job
<1>0. queue \in Seq([kind : {"validate", "command"}, caller : Caller])
  BY DEF TypeOK
<1>a. pc \in [Caller -> Places]
  BY DEF TypeOK
<1>1. ASSUME NEW c \in Caller, Validate(c) PROVE HoldsTurn'
  BY <1>0, <1>a, <1>1 DEF Validate
<1>2. ASSUME NEW c \in Caller, Command(c) PROVE HoldsTurn'
  BY <1>0, <1>a, <1>2 DEF Command
<1>3. ASSUME NEW c \in Caller, RunValidation(c) PROVE HoldsTurn'
  \* The oldest job is a validation, so that no command is running.
  BY <1>0, <1>a, <1>3 DEF RunValidation
<1>4. ASSUME NEW c \in Caller, Enqueue(c) PROVE HoldsTurn'
  BY <1>0, <1>a, <1>4 DEF Enqueue
<1>5. ASSUME NEW c \in Caller, StartCommand(c) PROVE HoldsTurn'
  BY <1>0, <1>a, <1>5 DEF StartCommand
<1>6. ASSUME NEW c \in Caller, FinishCommand(c) PROVE HoldsTurn'
  \* A second running command would be the oldest job too.
  BY <1>0, <1>a, <1>6 DEF FinishCommand
<1>7. CASE UNCHANGED vars
  BY <1>7 DEF vars
<1> QED BY <1>1, <1>2, <1>3, <1>4, <1>5, <1>6, <1>7 DEF Next, Progress

\* Two transactions never overlap on the shared connection.
THEOREM TransactionsNeverOverlap == Spec => []OneTransaction
<1>1. Init => HoldsTurn
  BY DEF Init, HoldsTurn, Running
<1>2. TypeOK /\ HoldsTurn /\ [Next]_vars => HoldsTurn'
  BY TurnStep
<1>3. HoldsTurn => OneTransaction
  BY DEF HoldsTurn, OneTransaction, Turn, Job
<1> QED BY <1>1, <1>2, <1>3, TypeCorrect, PTL DEF Spec

-----------------------------------------------------------------------------
\* Without missing tables, prepare() leaves the triggers of the recorded engine.
LEMMA PrepareInstalls ==
    ASSUME Missing = {}, TypeOK, ActiveInstalled,
           NEW engine \in Engine, NEW force, Prepare(engine, force)
    PROVE  active' = engine /\ ActiveInstalled'
<1> USE ObserversAssumption
<1>1. CASE ~force /\ active = engine
  BY <1>1 DEF Prepare, ActiveInstalled
<1>2. CASE ~(~force /\ active = engine)
  <2>1. active' = engine
    BY <1>2 DEF Prepare, Installs
  <2>2. \A t \in Registered[engine] : t \in Table /\ Reached(engine, t)
    BY DEF Reached
  <2>3. \A t \in Registered[engine] : installed'[t] = engine
    BY <1>2, <2>2 DEF Prepare, InstallObservers
  <2> QED BY <2>1, <2>3 DEF ActiveInstalled
<1> QED BY <1>1, <1>2

LEMMA ObserversStep ==
    ASSUME Missing = {}, TypeOK, HoldsTurn, ActiveInstalled, RunsActive, [Next]_vars
    PROVE  ActiveInstalled' /\ RunsActive'
<1> USE ObserversAssumption
<1>a. pc \in [Caller -> Places]
  BY DEF TypeOK
<1>0. ASSUME UNCHANGED <<active, installed>>, \A c \in Caller : Running(c)' => Running(c)
      PROVE  ActiveInstalled' /\ RunsActive'
  BY <1>0 DEF ActiveInstalled, RunsActive
<1>1. ASSUME NEW c \in Caller, Validate(c) PROVE ActiveInstalled' /\ RunsActive'
  BY <1>0, <1>1, <1>a DEF Validate, Running
<1>2. ASSUME NEW c \in Caller, Command(c) PROVE ActiveInstalled' /\ RunsActive'
  BY <1>0, <1>2, <1>a DEF Command, Running
<1>3. ASSUME NEW c \in Caller, RunValidation(c) PROVE ActiveInstalled' /\ RunsActive'
  <2>1. \A d \in Caller : ~Running(d)
    BY <1>3 DEF RunValidation, HoldsTurn, Turn, Job
  <2>2. \A d \in Caller : ~Running(d)'
    BY <1>3, <2>1, <1>a DEF RunValidation, Running
  <2>3. ActiveInstalled'
    BY <1>3, PrepareInstalls DEF RunValidation
  <2> QED BY <2>2, <2>3 DEF RunsActive
<1>4. ASSUME NEW c \in Caller, Enqueue(c) PROVE ActiveInstalled' /\ RunsActive'
  BY <1>0, <1>4, <1>a DEF Enqueue, Running
<1>5. ASSUME NEW c \in Caller, StartCommand(c) PROVE ActiveInstalled' /\ RunsActive'
  <2>1. active' = EngineOf[c] /\ ActiveInstalled'
    BY <1>5, PrepareInstalls DEF StartCommand
  <2>2. \A d \in Caller : Running(d)' => d = c
    BY <1>5, <1>a DEF StartCommand, HoldsTurn, Turn, Job, Running
  <2> QED BY <2>1, <2>2 DEF RunsActive
<1>6. ASSUME NEW c \in Caller, FinishCommand(c) PROVE ActiveInstalled' /\ RunsActive'
  BY <1>0, <1>6, <1>a DEF FinishCommand, Running
<1>7. CASE UNCHANGED vars
  BY <1>0, <1>7 DEF vars, Running
<1> QED BY <1>1, <1>2, <1>3, <1>4, <1>5, <1>6, <1>7 DEF Next, Progress

\* When every registered table exists, no order of validations and commands of
\* any number of engines lets a command run under another engine's observers.
THEOREM CommandsHaveOwnObservers ==
    ASSUME Missing = {} PROVE Spec => []OwnObservers
<1>1. Init => HoldsTurn /\ ActiveInstalled /\ RunsActive
  BY DEF Init, HoldsTurn, ActiveInstalled, RunsActive, Running
<1>2. /\ TypeOK /\ HoldsTurn /\ ActiveInstalled /\ RunsActive /\ [Next]_vars
      => HoldsTurn' /\ ActiveInstalled' /\ RunsActive'
  BY TurnStep, ObserversStep
<1>3. ActiveInstalled /\ RunsActive => OwnObservers
  BY ObserversAssumption DEF ActiveInstalled, RunsActive, OwnObservers
<1> QED BY <1>1, <1>2, <1>3, TypeCorrect, PTL DEF Spec
=============================================================================
