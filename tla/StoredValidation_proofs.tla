---------------------- MODULE StoredValidation_proofs ----------------------
(***************************************************************************)
(* Proofs about StoredValidation: what is recorded, and that it never goes *)
(* back.  The invariant follows the versions that a computation reads: the *)
(* catalog only advances, so a hash that is the same before and after pins *)
(* every read between the two.                                             *)
(***************************************************************************)
EXTENDS StoredValidation, TLAPS

\* Facts about what a recorder or a reader has seen stay in the past.
Seen(c) ==
    /\ reply[c].row.hash <= reply[c].version
    /\ reply[c].version <= catalog

\* The versions a computation read, in the order it read them.
Measured(c) ==
    /\ step[c] \in {"catalog", "observers", "rehashing", "recording", "writing"} =>
          /\ work[c].before <= Version(c)
          /\ Fixed(c) => work[c].before = reply[c].version
    /\ step[c] \in {"observers", "rehashing"} =>
          work[c].before <= work[c].catalog /\ work[c].catalog <= Version(c)
    /\ step[c] = "rehashing" =>
          work[c].catalog <= work[c].observers /\ work[c].observers <= Version(c)
    /\ step[c] \in {"recording", "writing"} =>
          work[c].catalog = work[c].before /\ work[c].observers = work[c].before
    /\ step[c] = "writing" /\ ~Fixed(c) => row.hash <= work[c].before

\* A row that waits for its commit is held with the lock, and is newer.
Staged(c) ==
    /\ Exact(staged[c])
    /\ staged[c].hash <= catalog
    /\ staged[c] # NoRow => lock = c /\ step[c] = "working" /\ row.hash <= staged[c].hash

CallFits(c) == Seen(c) /\ Measured(c) /\ Staged(c)

Inv ==
    /\ TypeOK
    /\ Exact(row) /\ row.hash <= catalog
    /\ \A c \in Call : CallFits(c)

\* Every variable starts in its type.
LEMMA InitType == Init => TypeOK
<1>1. NoRow \in RowType /\ Undecided \in DecisionType /\ Idle \in WorkType
      /\ NoSnapshot \in UsedType
  BY DEF NoRow, RowType, Undecided, DecisionType, Idle, WorkType, NoSnapshot, UsedType
<1>2. [row |-> NoRow, version |-> 0, now |-> 0] \in ReplyType
  BY <1>1 DEF ReplyType
<1> QED BY <1>1, <1>2 DEF Init, TypeOK, Steps

\* What a call takes, from a row or from a computation, is a snapshot.
LEMMA TakesType ==
    ASSUME TypeOK, NEW c \in Call, NEW source \in {"stored", "live"}, NEW r,
           r.catalog \in Nat, r.observers \in Nat, Takes(c, source, r)
    PROVE  used' \in [Call -> UsedType]
<1>1. used[c] \in UsedType
  BY DEF TypeOK
<1>2. [used[c] EXCEPT !.source = source, !.catalog = r.catalog, !.observers = r.observers]
          \in UsedType
  BY <1>1 DEF UsedType
<1>3. used \in [Call -> UsedType]
  BY DEF TypeOK
<1> HIDE DEF UsedType
<1> QED BY <1>2, <1>3 DEF Takes

LEMMA PublishType ==
    ASSUME TypeOK, NEW c \in Call, Publish(c)
    PROVE  /\ used' \in [Call -> UsedType]
           /\ result' = [result EXCEPT ![c] = "ready"]
           /\ step' = [step EXCEPT ![c] = "working"]
<1>1. work[c].catalog \in Nat /\ work[c].observers \in Nat
  BY DEF TypeOK, WorkType
<1>2. Takes(c, "live", work[c])
  BY DEF Publish
<1> QED BY <1>1, <1>2, TakesType DEF Publish, GoTo

\* The versions a call sees are natural numbers.
LEMMA VersionType == ASSUME TypeOK, NEW c \in Call PROVE Version(c) \in Nat
BY DEF TypeOK, Version, ReplyType

\* Setting a field keeps the type of a snapshot and of a computation.
LEMMA FieldTypes ==
    ASSUME NEW u \in UsedType, NEW w \in WorkType, NEW n \in Nat
    PROVE  /\ [u EXCEPT !.floor = n] \in UsedType
           /\ [w EXCEPT !.catalog = n] \in WorkType
           /\ [w EXCEPT !.observers = n] \in WorkType
           /\ [w EXCEPT !.before = n, !.attempt = @ + 1] \in WorkType
<1>1. [u EXCEPT !.floor = n] \in UsedType
  BY DEF UsedType
<1>2. [w EXCEPT !.catalog = n] \in WorkType /\ [w EXCEPT !.observers = n] \in WorkType
  BY DEF WorkType
<1>3. [w EXCEPT !.before = n, !.attempt = @ + 1] \in WorkType
  <2>1. [w EXCEPT !.before = n] \in WorkType
    BY DEF WorkType
  <2>2. \A v \in WorkType : [v EXCEPT !.attempt = @ + 1] \in WorkType
    BY DEF WorkType
  <2> QED BY <2>1, <2>2 DEF WorkType
<1> QED BY <1>1, <1>2, <1>3

\* Every step keeps the types, and takes the lock before it writes.
LEMMA NextType == TypeOK /\ [Next]_vars => TypeOK'
<1> SUFFICES ASSUME TypeOK, [Next]_vars PROVE TypeOK'
  OBVIOUS
<1> USE StoredAssumption DEF TypeOK, GoTo, Steps
<1>1. CASE Ddl
  BY <1>1 DEF Ddl
<1>2. CASE UNCHANGED vars
  BY <1>2 DEF vars
<1>3. ASSUME NEW c \in Call, Start(c) PROVE TypeOK'
  <2>1. decision[AdapterOf[c]].version \in Nat
    BY DEF DecisionType
  <2>2. [used[c] EXCEPT !.floor = decision[AdapterOf[c]].version] \in UsedType
    <3>1. used[c] \in UsedType /\ work[c] \in WorkType
      OBVIOUS
    <3> QED BY <2>1, <3>1, FieldTypes
  <2>3. used' = [used EXCEPT ![c] = [used[c] EXCEPT !.floor = decision[AdapterOf[c]].version]]
    BY <1>3 DEF Start
  <2>4. gated' \in [Call -> BOOLEAN]
    BY <1>3 DEF Start
  <2> QED BY <1>3, <2>2, <2>3, <2>4 DEF Start
<1>4. ASSUME NEW c \in Call, Read(c) PROVE TypeOK'
  <2>1. clock' \in Nat
    BY <1>4 DEF Read
  <2>2. [row |-> row, version |-> catalog, now |-> clock'] \in ReplyType
    BY <2>1 DEF ReplyType
  <2> QED BY <1>4, <2>1, <2>2 DEF Read
<1>5. ASSUME NEW c \in Call, Refresh(c) PROVE TypeOK'
  BY <1>5 DEF Refresh
<1>6. ASSUME NEW c \in Call, Resolve(c) PROVE TypeOK'
  <2>1. /\ reply[c] \in ReplyType /\ reply[c].row \in RowType
        /\ reply[c].row.catalog \in Nat /\ reply[c].row.observers \in Nat
        /\ reply[c].row.at \in Nat
        /\ reply[c].now \in Nat /\ reply[c].version \in Nat
    BY DEF ReplyType, RowType
  <2>2. decision' \in [Adapter -> DecisionType]
    <3>1. [made |-> TRUE, at |-> reply[c].now, version |-> reply[c].version,
           validatedAt |-> IF Matches(c) THEN reply[c].row.at ELSE 0] \in DecisionType
      BY <2>1 DEF DecisionType
    <3> QED BY <1>6, <3>1 DEF Resolve
  <2>3. CASE Matches(c) /\ Acceptable(c)
    <3>1. used' \in [Call -> UsedType]
      <4>1. Takes(c, "stored", reply[c].row)
        BY <1>6, <2>3 DEF Resolve
      <4> QED BY <4>1, <2>1, TakesType
    <3> QED BY <1>6, <2>2, <2>3, <3>1 DEF Resolve
  <2>4. CASE ~(Matches(c) /\ Acceptable(c))
    <3>1. live' \in [Adapter -> Call \cup {NoCall}]
      BY <1>6, <2>4 DEF Resolve
    <3>2. AdapterOf[c] \in Adapter /\ live'[AdapterOf[c]] \in Call \cup {NoCall}
      BY <3>1
    <3>3. owner' \in [Call -> Call \cup {NoCall}]
      BY <1>6, <2>4, <3>2 DEF Resolve
    <3> QED BY <1>6, <2>2, <2>4, <3>1, <3>3 DEF Resolve
  <2> QED BY <2>3, <2>4
<1>7. ASSUME NEW c \in Call, Share(c) PROVE TypeOK'
  <2>1. CASE UNCHANGED used
    BY <1>7, <2>1 DEF Share
  <2>2. CASE result[owner[c]] = "ready" /\ Takes(c, "live", work[owner[c]])
    <3>1. CASE owner[c] \in Call
      <4>1. work[owner[c]].catalog \in Nat /\ work[owner[c]].observers \in Nat
        BY <3>1 DEF WorkType
      <4>2. used' \in [Call -> UsedType]
        BY <2>2, <4>1, TakesType
      <4> QED BY <1>7, <4>2 DEF Share
    <3>2. owner[c] \in Call
      BY <1>7 DEF Share
    <3> QED BY <3>1, <3>2
  <2> QED BY <1>7, <2>1, <2>2 DEF Share
<1>8. ASSUME NEW c \in Call, HashBefore(c) \/ ValidateCatalog(c) \/ VerifyObservers(c)
      PROVE TypeOK'
  <2>1. Version(c) \in Nat
    BY VersionType
  <2>2. /\ [work[c] EXCEPT !.catalog = Version(c)] \in WorkType
        /\ [work[c] EXCEPT !.observers = Version(c)] \in WorkType
        /\ [work[c] EXCEPT !.before = Version(c), !.attempt = @ + 1] \in WorkType
    <3>1. used[c] \in UsedType /\ work[c] \in WorkType
      OBVIOUS
    <3> QED BY <2>1, <3>1, FieldTypes
  <2>3. CASE HashBefore(c)
    <3>1. work' = [work EXCEPT ![c] = [work[c] EXCEPT !.before = Version(c), !.attempt = @ + 1]]
      BY <2>3 DEF HashBefore
    <3>2. work' \in [Call -> WorkType]
      BY <2>2, <3>1
    <3> QED BY <2>3, <3>2 DEF HashBefore
  <2>4. CASE ValidateCatalog(c)
    BY <2>2, <2>4 DEF ValidateCatalog
  <2>5. CASE VerifyObservers(c)
    BY <2>2, <2>5 DEF VerifyObservers
  <2> QED BY <1>8, <2>3, <2>4, <2>5
<1>9. ASSUME NEW c \in Call, Widen(c) \/ HashAfter(c) PROVE TypeOK'
  <2>1. CASE Publish(c)
    <3>1. /\ used' \in [Call -> UsedType] /\ result' = [result EXCEPT ![c] = "ready"]
          /\ step' = [step EXCEPT ![c] = "working"]
      BY <2>1, PublishType
    <3> QED BY <1>9, <3>1 DEF Widen, HashAfter
  <2>2. CASE ~Publish(c)
    BY <1>9, <2>2 DEF Widen, HashAfter
  <2> QED BY <2>1, <2>2
<1>10. ASSUME NEW c \in Call, RecordCheck(c) PROVE TypeOK'
  <2>1. CASE Publish(c)
    <3>1. /\ used' \in [Call -> UsedType] /\ result' = [result EXCEPT ![c] = "ready"]
          /\ step' = [step EXCEPT ![c] = "working"]
      BY <2>1, PublishType
    <3> QED BY <1>10, <3>1 DEF RecordCheck, LockFree
  <2>2. CASE ~Publish(c)
    BY <1>10, <2>2 DEF RecordCheck, LockFree
  <2> QED BY <2>1, <2>2
<1>11. ASSUME NEW c \in Call, RecordWrite(c) PROVE TypeOK'
  <2>1. NewRow(c) \in RowType
    BY DEF NewRow, RowType, WorkType, Mine
  <2>2. clock' \in Nat
    BY <1>11 DEF RecordWrite
  <2>3. /\ used' \in [Call -> UsedType] /\ result' = [result EXCEPT ![c] = "ready"]
        /\ step' = [step EXCEPT ![c] = "working"]
    BY <1>11, PublishType DEF RecordWrite
  <2>4. lock = c
    BY <1>11 DEF RecordWrite
  <2> QED BY <1>11, <2>1, <2>2, <2>3, <2>4 DEF RecordWrite, Kept
<1>12. ASSUME NEW c \in Call, RecordFails(c) PROVE TypeOK'
  BY <1>12, PublishType DEF RecordFails
<1>13. ASSUME NEW c \in Call, ComputeFails(c) PROVE TypeOK'
  BY <1>13 DEF ComputeFails, Forget, SettledAs
<1>14. ASSUME NEW c \in Call, Commit(c) PROVE TypeOK'
  <2>1. NoRow \in RowType
    BY DEF NoRow, RowType
  <2> QED BY <1>14, <2>1 DEF Commit
<1>15. ASSUME NEW c \in Call, Rollback(c) PROVE TypeOK'
  <2>1. NoRow \in RowType /\ NoSnapshot \in UsedType
    BY DEF NoRow, RowType, NoSnapshot, UsedType
  <2> QED BY <1>15, <2>1 DEF Rollback
<1> QED
  BY <1>1, <1>2, <1>3, <1>4, <1>5, <1>6, <1>7, <1>8, <1>9, <1>10, <1>11, <1>12, <1>13, <1>14,
     <1>15 DEF Next, Progress, Compute

-----------------------------------------------------------------------------
\* Numbers of a call.
LEMMA Numbers ==
    ASSUME TypeOK, NEW c \in Call
    PROVE  /\ catalog \in Nat /\ row.hash \in Nat
           /\ reply[c].version \in Nat /\ reply[c].row.hash \in Nat
           /\ work[c].before \in Nat /\ work[c].catalog \in Nat /\ work[c].observers \in Nat
           /\ staged[c].hash \in Nat
           /\ Version(c) \in Nat
<1>1. row \in RowType /\ reply[c] \in ReplyType /\ work[c] \in WorkType /\ staged[c] \in RowType
  BY DEF TypeOK
<1> QED BY <1>1, VersionType DEF TypeOK, ReplyType, RowType, WorkType

\* A call that a step leaves alone keeps fitting, as long as the row changes
\* only while nobody else writes or holds a new one.
LEMMA OthersKept ==
    ASSUME Inv, NEW d \in Call, catalog' = catalog,
           step'[d] = step[d], reply'[d] = reply[d], work'[d] = work[d],
           staged'[d] = staged[d],
           staged[d] # NoRow => lock' = lock,
           row' = row \/ (step[d] # "writing" /\ staged[d] = NoRow)
    PROVE  CallFits(d)'
<1>1. CallFits(d)
  BY DEF Inv
<1>2. Seen(d)'
  BY <1>1 DEF CallFits, Seen
<1>3. Version(d)' = Version(d)
  BY DEF Version, Fixed
<1>4. Measured(d)'
  BY <1>1, <1>3 DEF CallFits, Measured, Fixed
<1>5. Staged(d)'
  BY <1>1 DEF CallFits, Staged, Exact, NoRow
<1> QED BY <1>2, <1>4, <1>5 DEF CallFits

\* The catalog only advances, and so does what every call sees of it.
LEMMA DdlFits == ASSUME Inv, Ddl, NEW d \in Call PROVE CallFits(d)'
<1>1. CallFits(d) /\ TypeOK
  BY DEF Inv
<1>2. /\ catalog' = catalog + 1
      /\ UNCHANGED <<row, lock, step, reply, work, staged>>
  BY DEF Ddl
<1>3. Seen(d)'
  BY <1>1, <1>2, Numbers DEF CallFits, Seen
<1>4. Version(d) <= Version(d)' /\ Version(d)' \in Nat
  BY <1>1, <1>2, Numbers DEF Version, Fixed
<1>5. Measured(d)'
  BY <1>1, <1>2, <1>4, Numbers DEF CallFits, Measured, Fixed
<1>6. Staged(d)'
  BY <1>1, <1>2, Numbers DEF CallFits, Staged, Exact
<1> QED BY <1>3, <1>5, <1>6 DEF CallFits

\* Only a call that is working has an uncommitted row.
LEMMA NothingStaged ==
    ASSUME Inv, NEW c \in Call, step[c] # "working" \/ lock # c PROVE staged[c] = NoRow
BY DEF Inv, CallFits, Staged

\* Steps that move a call to where its computation has measured nothing.
LEMMA Unmeasured ==
    ASSUME Inv, NEW c \in Call, catalog' = catalog,
           reply'[c] = reply[c] \/ reply'[c] = [row |-> row, version |-> catalog, now |-> clock'],
           step'[c] \in {"reading", "read", "sharing", "hashing", "working", "done"},
           staged'[c] = NoRow
    PROVE  CallFits(c)'
<1>1. CallFits(c) /\ TypeOK /\ row.hash <= catalog
  BY DEF Inv
<1>2. Seen(c)'
  BY <1>1, Numbers DEF CallFits, Seen
<1>3. Measured(c)'
  BY DEF Measured
<1>4. Staged(c)'
  BY <1>1, Numbers DEF CallFits, Staged, Exact, NoRow
<1> QED BY <1>2, <1>3, <1>4 DEF CallFits

\* A call before its computation.
LEMMA ReadFits ==
    ASSUME Inv, NEW c \in Call, Start(c) \/ Read(c) \/ Resolve(c) \/ Share(c) \/ Refresh(c),
           NEW d \in Call
    PROVE  CallFits(d)'
<1>1. TypeOK
  BY DEF Inv
<1>2. /\ UNCHANGED <<catalog, row, lock, work, staged>>
      /\ step[c] \in {"idle", "reading", "read", "sharing"}
      /\ \E next \in {"reading", "read", "sharing", "hashing", "working", "done"} :
            step' = [step EXCEPT ![c] = next]
      /\ \/ reply' = reply
         \/ reply' = [reply EXCEPT ![c] = [row |-> row, version |-> catalog, now |-> clock']]
  BY DEF Start, Read, Resolve, Share, Refresh, GoTo
<1>3. staged[c] = NoRow
  BY <1>2, NothingStaged
<1>4. CASE d = c
  BY <1>1, <1>2, <1>3, <1>4, Unmeasured DEF TypeOK
<1>5. CASE d # c
  <2>1. step'[d] = step[d] /\ reply'[d] = reply[d]
    BY <1>1, <1>2, <1>5 DEF TypeOK
  <2> QED BY <1>2, <2>1, OthersKept
<1> QED BY <1>4, <1>5

\* The reads of a computation, in their order.
LEMMA MeasureFits ==
    ASSUME Inv, NEW c \in Call, HashBefore(c) \/ ValidateCatalog(c) \/ VerifyObservers(c),
           NEW d \in Call
    PROVE  CallFits(d)'
<1>1. TypeOK /\ CallFits(c)
  BY DEF Inv
<1>2. /\ UNCHANGED <<catalog, row, lock, reply, staged>>
      /\ step[c] \in {"hashing", "catalog", "observers"}
  BY DEF HashBefore, ValidateCatalog, VerifyObservers
<1>3. staged[c] = NoRow
  BY <1>2, NothingStaged
<1>4. Version(c)' = Version(c)
  BY <1>2 DEF Version, Fixed
<1>5. CASE d # c
  <2>1. step'[d] = step[d] /\ work'[d] = work[d]
    BY <1>1, <1>5 DEF TypeOK, HashBefore, ValidateCatalog, VerifyObservers, GoTo
  <2> QED BY <1>2, <2>1, OthersKept
<1>6. Seen(c)' /\ Staged(c)'
  BY <1>1, <1>2, <1>3 DEF CallFits, Seen, Staged, Exact
<1>7. Measured(c)'
  <2>1. CASE HashBefore(c)
    <3>1. step'[c] = "catalog" /\ work'[c].before = Version(c)
      BY <1>1, <2>1 DEF TypeOK, WorkType, HashBefore, GoTo
    <3> QED BY <1>1, <1>2, <1>4, <3>1, Numbers DEF Measured, Version, Fixed
  <2>2. CASE ValidateCatalog(c)
    <3>1. /\ step[c] = "catalog" /\ step'[c] = "observers"
          /\ work'[c].before = work[c].before /\ work'[c].catalog = Version(c)
      BY <1>1, <2>2 DEF TypeOK, WorkType, ValidateCatalog, GoTo
    <3> QED BY <1>1, <1>2, <1>4, <3>1, Numbers DEF CallFits, Measured, Fixed
  <2>3. CASE VerifyObservers(c)
    <3>1. /\ step[c] = "observers" /\ step'[c] = "rehashing"
          /\ work'[c].before = work[c].before /\ work'[c].catalog = work[c].catalog
          /\ work'[c].observers = Version(c)
      BY <1>1, <2>3 DEF TypeOK, WorkType, VerifyObservers, GoTo
    <3> QED BY <1>1, <1>2, <1>4, <3>1, Numbers DEF CallFits, Measured, Fixed
  <2> QED BY <2>1, <2>2, <2>3
<1> QED BY <1>5, <1>6, <1>7 DEF CallFits

\* A hash that held between the two reads pins all of them; a computation that
\* is not recorded goes back, or publishes what it has.
LEMMA HeldFits ==
    ASSUME Inv, NEW c \in Call, Widen(c) \/ HashAfter(c), NEW d \in Call
    PROVE  CallFits(d)'
<1>1. TypeOK /\ CallFits(c)
  BY DEF Inv
<1>2. /\ UNCHANGED <<catalog, row, lock, reply, staged, work>>
      /\ step[c] = "rehashing"
      /\ \E next \in {"hashing", "working", "recording"} : step' = [step EXCEPT ![c] = next]
      /\ step'[c] = "recording" => Held(c)
  BY <1>1 DEF TypeOK, Widen, HashAfter, Publish, GoTo
<1>3. staged[c] = NoRow
  BY <1>2, NothingStaged
<1>4. CASE d # c
  <2>1. step'[d] = step[d]
    BY <1>1, <1>2, <1>4 DEF TypeOK
  <2> QED BY <1>2, <2>1, OthersKept
<1>5. CASE d = c /\ step'[c] # "recording"
  <2>1. step'[c] \in {"hashing", "working"}
    BY <1>1, <1>2, <1>5 DEF TypeOK
  <2> QED BY <1>2, <1>3, <1>5, <2>1, Unmeasured
<1>6. CASE d = c /\ step'[c] = "recording"
  <2>1. Version(c)' = Version(c)
    BY <1>2 DEF Version, Fixed
  <2>2. work[c].catalog = work[c].before /\ work[c].observers = work[c].before
    BY <1>1, <1>2, <1>6, Numbers DEF Held, CallFits, Measured
  <2>3. Measured(c)'
    BY <1>1, <1>2, <1>6, <2>1, <2>2 DEF CallFits, Measured, Fixed
  <2>4. Seen(c)' /\ Staged(c)'
    BY <1>1, <1>2, <1>3 DEF CallFits, Seen, Staged, Exact
  <2> QED BY <1>6, <2>3, <2>4 DEF CallFits
<1> QED BY <1>4, <1>5, <1>6

\* The recorder takes a lock that nobody holds, and a hash that still holds is
\* that of the catalog.
LEMMA CheckFits ==
    ASSUME Inv, NEW c \in Call, RecordCheck(c), NEW d \in Call PROVE CallFits(d)'
<1>1. TypeOK /\ CallFits(c) /\ row.hash <= catalog
  BY DEF Inv
<1>2. /\ UNCHANGED <<catalog, row, reply, staged, work>>
      /\ step[c] = "recording"
      /\ \/ lock = NoCall /\ Unmoved(c) /\ lock' = c /\ step'[c] = "writing"
         \/ lock' = lock /\ step'[c] = "working"
      /\ \A e \in Call : e # c => step'[e] = step[e]
  BY <1>1 DEF TypeOK, RecordCheck, LockFree, Publish, GoTo
<1>3. staged[c] = NoRow
  BY <1>2, NothingStaged
<1>4. CASE d # c
  <2>1. staged[d] # NoRow => lock' = lock
    BY <1>2, NothingStaged, StoredAssumption
  <2> QED BY <1>2, <1>4, <2>1, OthersKept
<1>5. CASE d = c /\ step'[c] = "working"
  BY <1>2, <1>3, <1>5, Unmeasured
<1>6. CASE d = c /\ step'[c] = "writing"
  <2>1. Version(c)' = Version(c) /\ (~Fixed(c) => Version(c) = catalog)
    BY <1>2 DEF Version, Fixed
  <2>2. Unmoved(c)
    BY <1>2, <1>6
  <2>3. Measured(c)'
    BY <1>1, <1>2, <1>6, <2>1, <2>2, Numbers DEF CallFits, Measured, Fixed, Unmoved
  <2>4. Seen(c)' /\ Staged(c)'
    BY <1>1, <1>2, <1>3 DEF CallFits, Seen, Staged, Exact
  <2> QED BY <1>6, <2>3, <2>4 DEF CallFits
<1> QED BY <1>2, <1>4, <1>5, <1>6

\* The holder of the lock writes a row that is newer than the recorded one.
LEMMA WriteFits ==
    ASSUME Inv, NEW c \in Call, RecordWrite(c), NEW d \in Call PROVE CallFits(d)'
<1>1. TypeOK /\ CallFits(c)
  BY DEF Inv
<1>2. /\ UNCHANGED <<catalog, row, reply, work>>
      /\ step[c] = "writing" /\ lock = c /\ step'[c] = "working"
      /\ \/ Serializable(c) /\ staged'[c] = NewRow(c) /\ lock' = c
         \/ staged'[c] = staged[c]
      /\ \A e \in Call : e # c => step'[e] = step[e] /\ staged'[e] = staged[e]
  BY <1>1 DEF TypeOK, RecordWrite, Kept, Publish, GoTo
<1>3. staged[c] = NoRow
  BY <1>2, NothingStaged
<1>4. CASE d # c
  <2>1. staged[d] = NoRow
    BY <1>2, <1>4, NothingStaged
  <2> QED BY <1>2, <1>4, <2>1, OthersKept
<1>5. CASE d = c /\ staged'[c] = staged[c]
  BY <1>2, <1>3, <1>5, Unmeasured
<1>6. CASE d = c /\ Serializable(c) /\ staged'[c] = NewRow(c) /\ lock' = c
  <2>1. /\ NewRow(c).hash = work[c].before
        /\ NewRow(c).catalog = work[c].catalog /\ NewRow(c).observers = work[c].observers
    BY DEF NewRow
  <2>2. /\ work[c].catalog = work[c].before /\ work[c].observers = work[c].before
        /\ work[c].before <= Version(c)
        /\ ~Fixed(c) => row.hash <= work[c].before
        /\ Fixed(c) => work[c].before = reply[c].version
    BY <1>1, <1>2 DEF CallFits, Measured
  <2>3. reply[c].row.hash <= reply[c].version /\ reply[c].version <= catalog
    BY <1>1 DEF CallFits, Seen
  <2>4. Fixed(c) => reply[c].row = row
    BY <1>6 DEF Serializable
  <2>5. work[c].before <= catalog
    BY <1>1, <2>2, <2>3, Numbers DEF Version
  <2>6. row.hash <= work[c].before
    BY <2>2, <2>3, <2>4
  <2>7. Staged(c)'
    BY <1>2, <1>6, <2>1, <2>2, <2>5, <2>6 DEF Staged, Exact
  <2>8. Seen(c)' /\ Measured(c)'
    BY <1>1, <1>2 DEF CallFits, Seen, Measured
  <2> QED BY <1>6, <2>7, <2>8 DEF CallFits
<1> QED BY <1>2, <1>4, <1>5, <1>6

\* A failed recorder, or computation, leaves nothing that waits for a commit.
LEMMA FailFits ==
    ASSUME Inv, NEW c \in Call, RecordFails(c) \/ ComputeFails(c), NEW d \in Call
    PROVE  CallFits(d)'
<1>1. TypeOK
  BY DEF Inv
<1>2. /\ UNCHANGED <<catalog, row, reply, work, staged>>
      /\ step[c] # "working" /\ step'[c] \in {"working", "done"}
      /\ lock' = lock \/ lock = c
      /\ \A e \in Call : e # c => step'[e] = step[e]
  BY <1>1 DEF TypeOK, RecordFails, ComputeFails, Computing, Publish, GoTo
<1>3. CASE d # c
  <2>1. staged[d] # NoRow => lock' = lock
    BY <1>2, <1>3, NothingStaged
  <2> QED BY <1>2, <1>3, <2>1, OthersKept
<1>4. CASE d = c
  BY <1>2, <1>4, NothingStaged, Unmeasured
<1> QED BY <1>3, <1>4

\* What a commit makes of the row.
LEMMA CommitMoves ==
    ASSUME Inv, NEW c \in Call, Commit(c)
    PROVE  \/ row' = row
           \/ /\ row' = staged[c] /\ staged[c] # NoRow /\ lock = c
              /\ row.hash <= row'.hash
BY DEF Inv, CallFits, Staged, Commit

\* The end of a transaction: no other call writes, or waits, while the row changes.
LEMMA EndFits ==
    ASSUME Inv, NEW c \in Call, Commit(c) \/ Rollback(c), NEW d \in Call
    PROVE  CallFits(d)'
<1>1. TypeOK
  BY DEF Inv
<1>2. /\ UNCHANGED <<catalog, reply, work>>
      /\ step'[c] = "done" /\ staged'[c] = NoRow
      /\ lock' = lock \/ lock = c
      /\ row' = row \/ lock = c
      /\ \A e \in Call : e # c => step'[e] = step[e] /\ staged'[e] = staged[e]
  BY <1>1, CommitMoves DEF TypeOK, Commit, Rollback, GoTo
<1>3. CASE d # c
  <2>1. staged[d] # NoRow => lock = d
    BY NothingStaged
  <2>2. row' = row \/ (step[d] # "writing" /\ staged[d] = NoRow)
    BY <1>1, <1>2, <1>3, <2>1 DEF TypeOK
  <2>3. staged[d] # NoRow => lock' = lock
    BY <1>2, <1>3, <2>1
  <2> QED BY <1>2, <1>3, <2>2, <2>3, OthersKept
<1>4. CASE d = c
  BY <1>2, <1>4, Unmeasured
<1> QED BY <1>3, <1>4

-----------------------------------------------------------------------------
\* The invariant holds at the start.
LEMMA InitInv == Init => Inv
<1> SUFFICES ASSUME Init PROVE Inv
  OBVIOUS
<1>1. \A c \in Call : CallFits(c)
  BY DEF Init, CallFits, Seen, Measured, Staged, Exact, NoRow
<1> QED BY <1>1, InitType DEF Init, Inv, Exact, NoRow

\* Every step keeps it.
LEMMA StepInv == Inv /\ [Next]_vars => Inv'
<1> SUFFICES ASSUME Inv, [Next]_vars PROVE Inv'
  OBVIOUS
<1>1. TypeOK /\ TypeOK'
  BY NextType DEF Inv
<1>2. CASE UNCHANGED vars
  <2>1. /\ catalog' = catalog /\ row' = row /\ lock' = lock
        /\ \A d \in Call : /\ step'[d] = step[d] /\ reply'[d] = reply[d]
                           /\ work'[d] = work[d] /\ staged'[d] = staged[d]
    BY <1>2 DEF vars
  <2>2. \A d \in Call : CallFits(d)'
    BY <2>1, OthersKept
  <2> QED BY <1>1, <2>1, <2>2 DEF Inv, Exact
<1>3. CASE Ddl
  <2>1. row' = row /\ catalog' = catalog + 1
    BY <1>3 DEF Ddl
  <2>2. row'.hash <= catalog'
    BY <1>1, <2>1 DEF Inv, TypeOK, RowType
  <2> QED BY <1>1, <1>3, <2>1, <2>2, DdlFits DEF Inv, Exact
<1>4. ASSUME NEW c \in Call, Start(c) \/ Refresh(c) \/ Progress(c) PROVE Inv'
  <2>1. catalog' = catalog /\ (row' = row \/ Commit(c))
    BY <1>4 DEF Start, Refresh, Progress, Compute, Read, Resolve, Share, HashBefore, ValidateCatalog,
       VerifyObservers, Widen, HashAfter, RecordCheck, RecordWrite, RecordFails, ComputeFails,
       Commit, Rollback
  <2>2. Exact(row)' /\ row'.hash <= catalog'
    <3>1. row' = row \/ row' = staged[c]
      BY <2>1, CommitMoves
    <3> QED BY <2>1, <3>1 DEF Inv, CallFits, Staged, Exact
  <2>3. \A d \in Call : CallFits(d)'
    BY <1>4, ReadFits, MeasureFits, HeldFits, CheckFits, WriteFits, FailFits, EndFits
       DEF Progress, Compute
  <2> QED BY <1>1, <2>2, <2>3 DEF Inv
<1> QED BY <1>2, <1>3, <1>4 DEF Next

\* The invariant holds throughout.
THEOREM Invariance == Spec => []Inv
BY InitInv, StepInv, PTL DEF Spec

\* Every variable keeps its type, only the holder of the lock writes, and who
\* shares a live validation knows whose (resolveSnapshot(), recordValidation()).
THEOREM TypeCorrect == Spec => []TypeOK
<1>1. Inv => TypeOK
  BY DEF Inv
<1> QED BY <1>1, Invariance, PTL

\* Whatever DDL runs between the reads of a computation, the recorded hash is the
\* hash of the catalog that each part of its report was read from
\* (computeValidation(), record_validation()).
THEOREM RecordedReportsAreExact == Spec => []RecordedIsExact
<1>1. Inv => RecordedIsExact
  BY DEF Inv, CallFits, Staged, RecordedIsExact
<1> QED BY <1>1, Invariance, PTL

\* At most one transaction holds an uncommitted row (record_validation(), the
\* advisory lock of the transaction).
THEOREM RecordersExclude == Spec => []OneRecorder
<1>1. Inv => OneRecorder
  BY DEF Inv, CallFits, Staged, OneRecorder
<1> QED BY <1>1, Invariance, PTL

\* The recorded row never goes back to an older catalog (record_validation(),
\* the hash that it compares under the lock).
THEOREM RecordedRowAdvances == Spec => RowAdvances
<1>1. Inv /\ [Next]_vars => [row'.hash >= row.hash]_row
  <2> SUFFICES ASSUME Inv, [Next]_vars, row' # row PROVE row'.hash >= row.hash
    OBVIOUS
  <2>1. PICK c \in Call : Commit(c)
    BY DEF Next, vars, Ddl, Start, Refresh, Progress, Compute, Read, Resolve, Share, HashBefore,
       ValidateCatalog, VerifyObservers, Widen, HashAfter, RecordCheck, RecordWrite, RecordFails,
       ComputeFails, Rollback
  <2>2. row'.hash \in Nat /\ row.hash \in Nat /\ row.hash <= row'.hash
    BY <2>1, CommitMoves DEF Inv, TypeOK, RowType
  <2> QED BY <2>2
<1> QED BY <1>1, Invariance, PTL DEF Spec, RowAdvances

-----------------------------------------------------------------------------
(* What a call is served. *)

\* A snapshot is taken at the end of what a call reads, and a stored one from a
\* row that was exact when it was recorded.
Served(c) ==
    /\ Exact(reply[c].row)
    /\ used[c].source # "none" => step[c] \in {"working", "done"}
    /\ gated[c] /\ used[c].source = "stored" =>
          /\ used[c].catalog = reply[c].version /\ used[c].observers = reply[c].version
          /\ reply[c].row.artifact = Mine(c)

\* The live validation of an adapter is one of its own calls, which did not fail.
Remembered(a) == live[a] # NoCall => AdapterOf[live[a]] = a /\ result[live[a]] # "failed"

Serves == (\A c \in Call : Served(c)) /\ \A a \in Adapter : Remembered(a)

\* A step of one call changes nothing that another has read or was given.
LEMMA OthersUntouched ==
    ASSUME TypeOK, NEW c \in Call, Start(c) \/ Refresh(c) \/ Progress(c), NEW d \in Call, d # c
    PROVE  /\ step'[d] = step[d] /\ reply'[d] = reply[d] /\ gated'[d] = gated[d]
           /\ used'[d] = used[d] /\ result'[d] = result[d]
BY DEF TypeOK, Start, Refresh, Progress, Compute, Read, Resolve, Share, HashBefore, ValidateCatalog,
   VerifyObservers, Widen, HashAfter, RecordCheck, RecordWrite, RecordFails, ComputeFails, Commit,
   Rollback, Publish, Takes, GoTo

\* What a call takes is what its source says.
LEMMA TakesWhat ==
    ASSUME TypeOK, NEW c \in Call, NEW source, NEW r, Takes(c, source, r)
    PROVE  /\ used'[c].source = source
           /\ used'[c].catalog = r.catalog /\ used'[c].observers = r.observers
<1>1. used[c] \in UsedType /\ used \in [Call -> UsedType]
  BY DEF TypeOK
<1>2. used'[c] = [used[c] EXCEPT !.source = source, !.catalog = r.catalog, !.observers = r.observers]
  BY <1>1 DEF Takes
<1> QED BY <1>1, <1>2 DEF UsedType

\* A call that was given nothing, or a live snapshot, and whose reads stay.
LEMMA ServedElse ==
    ASSUME NEW c \in Call, Served(c), reply'[c] = reply[c],
           \/ used'[c].source = "none"
           \/ used'[c].source = "live" /\ step'[c] = "working"
    PROVE  Served(c)'
BY DEF Served, Exact

\* The call that takes the step.
LEMMA ServedStep ==
    ASSUME Inv, NEW c \in Call, Served(c), Start(c) \/ Refresh(c) \/ Progress(c)
    PROVE  Served(c)'
<1>1. TypeOK /\ Exact(row)
  BY DEF Inv
<1>2. step[c] \notin {"working", "done"} => used[c].source = "none"
  BY DEF Served
<1>3. CASE Start(c)
  <2>1. used[c] \in UsedType /\ used'[c] = [used[c] EXCEPT !.floor = decision[AdapterOf[c]].version]
    BY <1>1, <1>3 DEF Start, TypeOK
  <2>2. used'[c].source = used[c].source
    BY <2>1 DEF UsedType
  <2>3. reply' = reply /\ step[c] = "idle"
    BY <1>3 DEF Start
  <2> QED BY <1>2, <2>2, <2>3, ServedElse
<1>4. CASE Read(c)
  <2>1. used' = used /\ step[c] = "reading" /\ reply'[c].row = row
    BY <1>1, <1>4 DEF Read, TypeOK
  <2> QED BY <1>1, <1>2, <2>1 DEF Served, Exact
<1>5. CASE Resolve(c)
  <2>1. step[c] = "read" /\ reply' = reply /\ gated' = gated
    BY <1>5 DEF Resolve
  <2>2. CASE Matches(c) /\ Acceptable(c)
    <3>1. Takes(c, "stored", reply[c].row) /\ step'[c] = "working"
      BY <1>1, <1>5, <2>2 DEF Resolve, GoTo, TypeOK
    <3>2. /\ used'[c].catalog = reply[c].row.catalog /\ used'[c].observers = reply[c].row.observers
      BY <1>1, <3>1, TakesWhat
    <3> QED BY <2>1, <2>2, <3>1, <3>2 DEF Served, Exact, Matches, Mine
  <2>3. CASE ~(Matches(c) /\ Acceptable(c))
    <3>1. used' = used
      BY <1>5, <2>3 DEF Resolve
    <3> QED BY <1>2, <2>1, <3>1, ServedElse
  <2> QED BY <2>2, <2>3
<1>6. CASE Share(c)
  <2>1. step[c] = "sharing" /\ reply' = reply
    BY <1>6 DEF Share
  <2>2. CASE used' = used
    BY <1>2, <2>1, <2>2, ServedElse
  <2>3. CASE used' # used
    <3>1. Takes(c, "live", work[owner[c]]) /\ step'[c] = "working"
      BY <1>1, <1>6, <2>3 DEF Share, GoTo, TypeOK
    <3> QED BY <1>1, <2>1, <3>1, TakesWhat, ServedElse
  <2> QED BY <2>2, <2>3
<1>7. CASE Refresh(c)
  BY <1>2, <1>7, ServedElse DEF Refresh
<1>8. CASE Compute(c)
  <2>1. /\ reply' = reply /\ step[c] \notin {"working", "done"}
        /\ used' = used \/ Publish(c)
    BY <1>8 DEF Compute, HashBefore, ValidateCatalog, VerifyObservers, Widen, HashAfter, RecordCheck,
       RecordWrite, RecordFails, ComputeFails, Computing
  <2>2. Publish(c) => used'[c].source = "live" /\ step'[c] = "working"
    BY <1>1, TakesWhat DEF Publish, GoTo, TypeOK
  <2> QED BY <1>2, <2>1, <2>2, ServedElse
<1>9. CASE Commit(c)
  BY <1>1, <1>9 DEF Commit, GoTo, TypeOK, Served, Exact
<1>10. CASE Rollback(c)
  <2>1. used'[c] = NoSnapshot /\ reply' = reply
    BY <1>1, <1>10 DEF Rollback, TypeOK
  <2> QED BY <2>1, ServedElse DEF NoSnapshot
<1> QED BY <1>3, <1>4, <1>5, <1>6, <1>7, <1>8, <1>9, <1>10 DEF Progress

\* The cache of an adapter: a new validation takes its place, a failed one leaves it.
LEMMA RememberedStep ==
    ASSUME Inv, NEW c \in Call, Start(c) \/ Refresh(c) \/ Progress(c), NEW a \in Adapter, Remembered(a)
    PROVE  Remembered(a)'
<1>1. TypeOK /\ AdapterOf[c] \in Adapter /\ c # NoCall
  BY StoredAssumption DEF Inv
<1>2. live[a] # NoCall => live[a] \in Call
  BY <1>1 DEF TypeOK
<1>3. \A d \in Call : d # c => result'[d] = result[d]
  BY <1>1, OthersUntouched
<1>4. CASE live' = live /\ (result'[c] = result[c] \/ result'[c] # "failed")
  BY <1>2, <1>3, <1>4 DEF Remembered
<1>5. CASE live' = [live EXCEPT ![AdapterOf[c]] = c] /\ result'[c] = "pending"
  <2>1. a # AdapterOf[c] => live[a] # c \/ live[a] = NoCall
    BY <1>1 DEF Remembered
  <2> QED BY <1>1, <1>2, <1>3, <1>5, <2>1 DEF Remembered, TypeOK
<1>6. CASE live' = Forget(c)
  <2>1. live'[a] # NoCall => live'[a] = live[a] /\ live[a] # c
    BY <1>1, <1>6 DEF Forget, Remembered, TypeOK
  <2> QED BY <1>2, <1>3, <2>1 DEF Remembered
<1>7. \/ live' = live /\ (result'[c] = result[c] \/ result'[c] # "failed")
      \/ live' = [live EXCEPT ![AdapterOf[c]] = c] /\ result'[c] = "pending"
      \/ live' = Forget(c)
  <2>1. CASE Resolve(c)
    BY <1>1, <2>1 DEF Resolve, TypeOK
  <2>2. CASE ComputeFails(c)
    BY <2>2 DEF ComputeFails
  <2>3. CASE ~Resolve(c) /\ ~ComputeFails(c)
    BY <1>1, <2>3 DEF TypeOK, Start, Refresh, Progress, Compute, Read, Share, HashBefore,
       ValidateCatalog, VerifyObservers, Widen, HashAfter, RecordCheck, RecordWrite, RecordFails,
       Commit, Rollback, Publish
  <2> QED BY <2>1, <2>2, <2>3
<1> QED BY <1>4, <1>5, <1>6, <1>7

LEMMA InitServes == Init => Serves
<1> SUFFICES ASSUME Init PROVE Serves
  OBVIOUS
<1>1. \A c \in Call : Served(c)
  BY DEF Init, Served, Exact, NoRow, NoSnapshot
<1>2. \A a \in Adapter : Remembered(a)
  BY DEF Init, Remembered
<1> QED BY <1>1, <1>2 DEF Serves

LEMMA StepServes == Inv /\ Serves /\ [Next]_vars => Serves'
<1> SUFFICES ASSUME Inv, Serves, [Next]_vars PROVE Serves'
  OBVIOUS
<1>1. CASE UNCHANGED vars
  BY <1>1 DEF vars, Serves, Served, Remembered, Exact
<1>2. CASE Ddl
  BY <1>2 DEF Ddl, Serves, Served, Remembered, Exact
<1>3. ASSUME NEW c \in Call, Start(c) \/ Refresh(c) \/ Progress(c) PROVE Serves'
  <2>1. ASSUME NEW d \in Call, d # c PROVE Served(d)'
    <3>1. /\ step'[d] = step[d] /\ reply'[d] = reply[d] /\ gated'[d] = gated[d] /\ used'[d] = used[d]
      BY <1>3, <2>1, OthersUntouched DEF Inv
    <3> QED BY <3>1 DEF Serves, Served, Exact
  <2>2. Served(c)'
    BY <1>3, ServedStep DEF Serves
  <2>3. \A a \in Adapter : Remembered(a)'
    BY <1>3, RememberedStep DEF Serves
  <2> QED BY <2>1, <2>2, <2>3 DEF Serves
<1> QED BY <1>1, <1>2, <1>3 DEF Next

\* A call is served a stored snapshot only from the row it read, and the cache of
\* live validations holds no failure.
THEOREM ServingInvariance == Spec => [](Inv /\ Serves)
BY InitInv, StepInv, InitServes, StepServes, PTL DEF Spec

\* A stored snapshot that passed the gate describes, in both of its parts, the
\* catalog that the reading transaction saw (resolveSnapshot(), matches()).
THEOREM GatedSnapshotsAreCurrent == Spec => []GatedIsCurrent
<1>1. Serves => GatedIsCurrent
  BY DEF Serves, Served, GatedIsCurrent
<1> QED BY <1>1, ServingInvariance, PTL

\* A live validation that failed is not there for later commands, whatever newer
\* validation was started while it ran (resolveSnapshot(), liveValidation).
THEOREM FailedValidationsAreForgotten == Spec => []FailureIsForgotten
<1>1. Serves => FailureIsForgotten
  BY DEF Serves, Remembered, FailureIsForgotten
<1> QED BY <1>1, ServingInvariance, PTL
=============================================================================
