-------------------------- MODULE StoredValidation --------------------------
(***************************************************************************)
(* The validation snapshot of the PostgreSQL adapter (postgres/index.ts,   *)
(* validation.ts, transaction-gate.ts): commands, validate() calls and     *)
(* owner refreshes, each in a transaction of its own, read and record the  *)
(* single row of sdi_control.validation while DDL changes the catalog.     *)
(*                                                                         *)
(* The catalog is a version number and its hash is that version, for DDL   *)
(* rewrites an xmin.  A report is abstracted to the versions its two parts *)
(* were read at: the catalog checks and the observer checks.               *)
(***************************************************************************)
EXTENDS Naturals

CONSTANTS
    Adapter,        \* bound adapters, one per process
    Artifact,       \* fingerprints of their resources and manifests
    ArtifactOf,     \* [Adapter -> Artifact]
    FixedView,      \* the adapters whose isolation keeps one view of the catalog
    Call,           \* calls, each with a transaction of its own
    AdapterOf,      \* [Call -> Adapter]
    KindOf,         \* [Call -> "command" | "validate" | "refresh"]
    Follows,        \* [Call -> the calls the application awaits first]
    NoCall,         \* no live validation, no holder of a lock
    NoArtifact,     \* the artifact of a row that does not exist
    Attempts,       \* validations in a row that meet a schema not yet hashed
    MaxVersion      \* bound: the last version of the catalog

ASSUME StoredAssumption ==
    /\ ArtifactOf \in [Adapter -> Artifact] /\ FixedView \subseteq Adapter
    /\ AdapterOf \in [Call -> Adapter]
    /\ KindOf \in [Call -> {"command", "validate", "refresh"}]
    /\ Follows \in [Call -> SUBSET Call]
    /\ NoCall \notin Call /\ NoArtifact \notin Artifact
    /\ Attempts \in Nat \ {0} /\ MaxVersion \in Nat \ {0}

VARIABLES
    catalog,    \* the committed version of the catalog
    clock,      \* clock_timestamp()
    row,        \* the committed row of sdi_control.validation
    lock,       \* holder of the recorder's advisory lock
    decision,   \* [Adapter -> decision of its first read]
    live,       \* [Adapter -> liveValidation: the call that computes it]
    step,       \* [Call -> where it is]
    gated,      \* [Call -> its read compares the catalog hash]
    reply,      \* [Call -> what its first statement read, and when]
    work,       \* [Call -> a computation of a validation]
    result,     \* [Call -> "none" | "pending" | "ready" | "failed"]
    owner,      \* [Call -> the call whose live validation it uses]
    staged,     \* [Call -> the row its transaction wrote]
    used        \* [Call -> the snapshot its command pinned, or validate() returned]

vars == <<catalog, clock, row, lock, decision, live, step, gated, reply, work, result, owner,
          staged, used>>

\* floor is a ghost: the version of the catalog that the adapter's decision saw.
NoSnapshot == [source |-> "none", catalog |-> 0, observers |-> 0, floor |-> 0]
NoRow == [artifact |-> NoArtifact, hash |-> 0, catalog |-> 0, observers |-> 0, at |-> 0]
Undecided == [made |-> FALSE, validatedAt |-> 0, at |-> 0, version |-> 0]
Idle == [attempt |-> 0, before |-> 0, catalog |-> 0, observers |-> 0]

GoTo(c, next) == step' = [step EXCEPT ![c] = next]
Mine(c) == ArtifactOf[AdapterOf[c]]

\* REPEATABLE READ, the default, keeps the catalog rows of its first statement;
\* an owner's transaction is READ COMMITTED.
Fixed(c) == KindOf[c] # "refresh" /\ AdapterOf[c] \in FixedView
Version(c) == IF Fixed(c) THEN reply[c].version ELSE catalog

-----------------------------------------------------------------------------
Init ==
    /\ catalog = 1 /\ clock = 0
    /\ row = NoRow
    /\ lock = NoCall
    /\ decision = [a \in Adapter |-> Undecided]
    /\ live = [a \in Adapter |-> NoCall]
    /\ step = [c \in Call |-> "idle"]
    /\ gated = [c \in Call |-> FALSE]
    /\ reply = [c \in Call |-> [row |-> NoRow, version |-> 0, now |-> 0]]
    /\ work = [c \in Call |-> Idle]
    /\ result = [c \in Call |-> "none"]
    /\ owner = [c \in Call |-> NoCall]
    /\ staged = [c \in Call |-> NoRow]
    /\ used = [c \in Call |-> NoSnapshot]

\* DDL outside SDI, which does not take the gate.
Ddl ==
    /\ catalog < MaxVersion
    /\ catalog' = catalog + 1
    /\ UNCHANGED <<clock, row, lock, decision, live, step, gated, reply, work, result, owner,
                   staged, used>>

Awaited(c) == \A d \in Follows[c] : step[d] = "done"

\* Whether to compare the hash is settled before the preamble is sent: only as
\* long as the adapter has not decided.  validate() always compares.
Start(c) ==
    /\ step[c] = "idle" /\ KindOf[c] # "refresh"
    /\ Awaited(c)
    /\ gated' = [gated EXCEPT ![c] = KindOf[c] = "validate" \/ ~decision[AdapterOf[c]].made]
    /\ used' = [used EXCEPT ![c].floor = decision[AdapterOf[c]].version]
    /\ GoTo(c, "reading")
    /\ UNCHANGED <<catalog, clock, row, lock, decision, live, reply, work, result, owner, staged>>

\* The last statement of the preamble, or of validate().  Only the time of a
\* read that compares the hash is ever used.
Read(c) ==
    /\ step[c] = "reading"
    /\ clock' = IF gated[c] THEN clock + 1 ELSE clock
    /\ reply' = [reply EXCEPT ![c] = [row |-> row, version |-> catalog, now |-> clock']]
    /\ GoTo(c, "read")
    /\ UNCHANGED <<catalog, row, lock, decision, live, gated, work, result, owner, staged, used>>

-----------------------------------------------------------------------------
(* resolveSnapshot(): the stored row, or a live validation. *)

\* Fault: the gate compares the artifact only.
MutantMatches(c) == reply[c].row.artifact = Mine(c)
Matches(c) ==
    /\ reply[c].row.artifact = Mine(c)
    /\ gated[c] => reply[c].row.hash = reply[c].version

\* A later command takes the row that passed, or one recorded after that.
Acceptable(c) ==
    LET d == decision[AdapterOf[c]]
        at == reply[c].row.at
    IN gated[c] \/ ~d.made \/ at = d.validatedAt \/ at > d.at

Takes(c, source, r) ==
    used' = [used EXCEPT ![c] = [@ EXCEPT !.source = source, !.catalog = r.catalog,
                                          !.observers = r.observers]]

Resolve(c) ==
    LET a == AdapterOf[c]
        seen == reply[c]
        decided == IF gated[c]
                   THEN [made |-> TRUE, at |-> seen.now, version |-> seen.version,
                         validatedAt |-> IF Matches(c) THEN seen.row.at ELSE 0]
                   ELSE decision[a]
    IN /\ step[c] = "read"
       /\ decision' = [decision EXCEPT ![a] = decided]
       /\ IF Matches(c) /\ Acceptable(c)
          THEN /\ Takes(c, "stored", seen.row)
               /\ GoTo(c, "working")
               /\ UNCHANGED <<live, result, owner>>
          ELSE /\ IF KindOf[c] = "validate" \/ live[a] = NoCall
                  THEN /\ live' = [live EXCEPT ![a] = c]
                       /\ result' = [result EXCEPT ![c] = "pending"]
                       /\ GoTo(c, "hashing")
                  ELSE /\ GoTo(c, "sharing")
                       /\ UNCHANGED <<live, result>>
               /\ owner' = [owner EXCEPT ![c] = live'[a]]
               /\ UNCHANGED used
       /\ UNCHANGED <<catalog, clock, row, lock, gated, reply, work, staged>>

\* The live validation of another call settled.
Share(c) ==
    /\ step[c] = "sharing"
    /\ \/ /\ result[owner[c]] = "ready"
          /\ Takes(c, "live", work[owner[c]])
          /\ GoTo(c, "working")
       \/ /\ result[owner[c]] = "failed"
          /\ GoTo(c, "done")
          /\ UNCHANGED used
    /\ UNCHANGED <<catalog, clock, row, lock, decision, live, gated, reply, work, result, owner,
                   staged>>

-----------------------------------------------------------------------------
(* computeValidation() and recordValidation(), in the call's transaction. *)

\* refreshPostgresValidation(): the owner validates and records.
Refresh(c) ==
    /\ step[c] = "idle" /\ KindOf[c] = "refresh"
    /\ Awaited(c)
    /\ result' = [result EXCEPT ![c] = "pending"]
    /\ GoTo(c, "hashing")
    /\ UNCHANGED <<catalog, clock, row, lock, decision, live, gated, reply, work, owner, staged,
                   used>>

HashBefore(c) ==
    /\ step[c] = "hashing"
    /\ work' = [work EXCEPT ![c].before = Version(c), ![c].attempt = @ + 1]
    /\ GoTo(c, "catalog")
    /\ UNCHANGED <<catalog, clock, row, lock, decision, live, gated, reply, result, owner, staged,
                   used>>

ValidateCatalog(c) ==
    /\ step[c] = "catalog"
    /\ work' = [work EXCEPT ![c].catalog = Version(c)]
    /\ GoTo(c, "observers")
    /\ UNCHANGED <<catalog, clock, row, lock, decision, live, gated, reply, result, owner, staged,
                   used>>

VerifyObservers(c) ==
    /\ step[c] = "observers"
    /\ work' = [work EXCEPT ![c].observers = Version(c)]
    /\ GoTo(c, "rehashing")
    /\ UNCHANGED <<catalog, clock, row, lock, decision, live, gated, reply, result, owner, staged,
                   used>>

\* The live promise fulfils; its own call goes on with that snapshot.
Publish(c) ==
    /\ result' = [result EXCEPT ![c] = "ready"]
    /\ Takes(c, "live", work[c])
    /\ GoTo(c, "working")

\* A schema that was read but not hashed, three times in a row at most.
Widen(c) ==
    /\ step[c] = "rehashing"
    /\ IF work[c].attempt < Attempts
       THEN GoTo(c, "hashing") /\ UNCHANGED <<result, used>>
       ELSE Publish(c)
    /\ UNCHANGED <<catalog, clock, row, lock, decision, live, gated, reply, work, owner, staged>>

Held(c) == work[c].before = Version(c)

HashAfter(c) ==
    /\ step[c] = "rehashing"
    /\ IF Held(c) THEN GoTo(c, "recording") /\ UNCHANGED <<result, used>> ELSE Publish(c)
    /\ UNCHANGED <<catalog, clock, row, lock, decision, live, gated, reply, work, owner, staged>>

\* Fault: the recorder does not look at the catalog again.
MutantUnmoved(c) == TRUE
Unmoved(c) == work[c].before = Version(c)

\* Fault: recorders do not exclude each other.
MutantLockFree(c) == TRUE
LockFree(c) == lock = NoCall

\* record_validation(): try the lock, compare the hash, then write.
RecordCheck(c) ==
    /\ step[c] = "recording"
    /\ IF LockFree(c) /\ Unmoved(c)
       THEN lock' = c /\ GoTo(c, "writing") /\ UNCHANGED <<result, used>>
       ELSE Publish(c) /\ UNCHANGED lock
    /\ UNCHANGED <<catalog, clock, row, decision, live, gated, reply, work, owner, staged>>

\* Fault: the row is written with the hash of that moment.
MutantNewRow(c) ==
    [artifact |-> Mine(c), hash |-> Version(c), catalog |-> work[c].catalog,
     observers |-> work[c].observers, at |-> clock + 1]
NewRow(c) ==
    [artifact |-> Mine(c), hash |-> work[c].before, catalog |-> work[c].catalog,
     observers |-> work[c].observers, at |-> clock + 1]

Serializable(c) == Fixed(c) => reply[c].row = row

\* A lock of the transaction.
Kept(c) == c

\* A row changed since the view of the transaction cannot be updated; rolling
\* back to the savepoint gives the lock back.
RecordWrite(c) ==
    /\ step[c] = "writing"
    /\ clock' = clock + 1
    /\ IF Serializable(c)
       THEN staged' = [staged EXCEPT ![c] = NewRow(c)] /\ lock' = Kept(c)
       ELSE lock' = NoCall /\ UNCHANGED staged
    /\ Publish(c)
    /\ UNCHANGED <<catalog, row, decision, live, gated, reply, work, owner>>

\* Any other error of the recorder is rolled back to the savepoint.
RecordFails(c) ==
    /\ step[c] \in {"recording", "writing"}
    /\ lock' = IF lock = c THEN NoCall ELSE lock
    /\ Publish(c)
    /\ UNCHANGED <<catalog, clock, row, decision, live, gated, reply, work, owner, staged>>

Computing(c) == step[c] \in {"hashing", "catalog", "observers", "rehashing", "recording", "writing"}

\* Fault: a rejected live validation stays cached.
MutantForget(c) == live
\* The cache forgets a rejected promise, unless a newer one took its place.
Forget(c) == [live EXCEPT ![AdapterOf[c]] = IF @ = c THEN NoCall ELSE @]

\* Fault: a lost connection leaves the promise pending.
MutantSettledAs(c) == "pending"
SettledAs(c) == "failed"

\* The connection is lost: the promise rejects, and with it all who share it.
ComputeFails(c) ==
    /\ Computing(c)
    /\ result' = [result EXCEPT ![c] = SettledAs(c)]
    /\ live' = Forget(c)
    /\ lock' = IF lock = c THEN NoCall ELSE lock
    /\ GoTo(c, "done")
    /\ UNCHANGED <<catalog, clock, row, decision, gated, reply, work, owner, staged, used>>

-----------------------------------------------------------------------------
(* The end of the transaction. *)

Commit(c) ==
    /\ step[c] = "working"
    /\ row' = IF staged[c] = NoRow THEN row ELSE staged[c]
    /\ staged' = [staged EXCEPT ![c] = NoRow]
    /\ lock' = IF lock = c THEN NoCall ELSE lock
    /\ GoTo(c, "done")
    /\ UNCHANGED <<catalog, clock, decision, live, gated, reply, work, result, owner, used>>

\* The call rejects, and returns no snapshot.
Rollback(c) ==
    /\ step[c] \in {"reading", "working"}
    /\ staged' = [staged EXCEPT ![c] = NoRow]
    /\ used' = [used EXCEPT ![c] = NoSnapshot]
    /\ lock' = IF lock = c THEN NoCall ELSE lock
    /\ GoTo(c, "done")
    /\ UNCHANGED <<catalog, clock, row, decision, live, gated, reply, work, result, owner>>

-----------------------------------------------------------------------------
Compute(c) ==
    \/ HashBefore(c) \/ ValidateCatalog(c) \/ VerifyObservers(c) \/ Widen(c) \/ HashAfter(c)
    \/ RecordCheck(c) \/ RecordWrite(c) \/ RecordFails(c) \/ ComputeFails(c)

Progress(c) == Read(c) \/ Resolve(c) \/ Share(c) \/ Compute(c) \/ Commit(c) \/ Rollback(c)

Next ==
    \/ Ddl
    \/ \E c \in Call : Start(c) \/ Refresh(c) \/ Progress(c)

\* Drivers settle their calls and callbacks end.  No call has to be made.
Fairness == \A c \in Call : WF_vars(Progress(c))

Spec == Init /\ [][Next]_vars /\ Fairness

-----------------------------------------------------------------------------
(* Properties. *)

RowType == [artifact : Artifact \cup {NoArtifact}, hash : Nat, catalog : Nat, observers : Nat, at : Nat]
WorkType == [attempt : Nat, before : Nat, catalog : Nat, observers : Nat]
DecisionType == [made : BOOLEAN, validatedAt : Nat, at : Nat, version : Nat]
ReplyType == [row : RowType, version : Nat, now : Nat]
UsedType == [source : {"none", "stored", "live"}, catalog : Nat, observers : Nat, floor : Nat]
Steps == {"idle", "reading", "read", "sharing", "hashing", "catalog", "observers", "rehashing",
          "recording", "writing", "working", "done"}

\* Every variable has its type; only the holder of the lock is writing, and who
\* shares a live validation knows whose.
TypeOK ==
    /\ catalog \in Nat /\ clock \in Nat
    /\ row \in RowType
    /\ lock \in Call \cup {NoCall}
    /\ decision \in [Adapter -> DecisionType]
    /\ live \in [Adapter -> Call \cup {NoCall}]
    /\ step \in [Call -> Steps]
    /\ gated \in [Call -> BOOLEAN]
    /\ reply \in [Call -> ReplyType]
    /\ work \in [Call -> WorkType]
    /\ result \in [Call -> {"none", "pending", "ready", "failed"}]
    /\ owner \in [Call -> Call \cup {NoCall}]
    /\ staged \in [Call -> RowType]
    /\ used \in [Call -> UsedType]
    /\ \A c \in Call : /\ step[c] = "writing" => lock = c
                       /\ step[c] = "sharing" => owner[c] \in Call

Exact(r) == r.catalog = r.hash /\ r.observers = r.hash

\* The recorded hash is the hash of the very catalog that every part of the
\* report was read from, however DDL ran between the reads (transaction-gate.ts,
\* "a concurrent DDL can never pair a newer hash with an older report").
RecordedIsExact == Exact(row) /\ \A c \in Call : Exact(staged[c])

\* A stored snapshot that passed the gate describes, in both of its parts, the
\* catalog that the reading transaction saw, and belongs to its artifact.
GatedIsCurrent ==
    \A c \in Call : gated[c] /\ used[c].source = "stored" =>
        /\ used[c].catalog = reply[c].version /\ used[c].observers = reply[c].version
        /\ reply[c].row.artifact = Mine(c)

\* Two transactions never both hold an uncommitted row: recorders exclude each
\* other until they end (docs/migrations/stored-validation.md, "only one recorder
\* runs at a time").
OneRecorder ==
    \A c, d \in Call : staged[c] # NoRow /\ staged[d] # NoRow => c = d

\* A live validation that failed is not there for later commands, whatever newer
\* validation was started while it ran.
FailureIsForgotten == \A a \in Adapter : live[a] # NoCall => result[live[a]] # "failed"

\* The recorded row never goes back to an older catalog: a transaction that still
\* sees the old one cannot overwrite what was recorded since.
RowAdvances == [][row'.hash >= row.hash]_row

\* Every call settles, also when the transaction that computes the validation it
\* shares fails.
CallsSettle == \A c \in Call : step[c] \notin {"idle", "done"} ~> step[c] = "done"

\* A process whose first read came after DDL does not use a report about an older
\* catalog (docs/migrations/stored-validation.md, "DDL applied while a process is
\* running is detected by the next process").
DdlIsDetected == \A c \in Call : used[c].source # "none" => used[c].catalog >= used[c].floor
=============================================================================
