---------------------------- MODULE WriteBuffer ----------------------------
(***************************************************************************)
(* The life of a command's write set: facts are added to the innermost     *)
(* open savepoint's buffer (TrackedDb.writes), a savepoint forks a buffer, *)
(* its release merges it into the parent's and its rollback discards it,   *)
(* and the runtime closes the set once the impact has been calculated.     *)
(*                                                                         *)
(* accepted remembers, beside each buffer, the facts it was given; the     *)
(* properties compare what the calculator says of the buffer with what     *)
(* the rules of semantics.md say of the accepted facts themselves.         *)
(***************************************************************************)
EXTENDS WriteSet, Calculate

CONSTANTS
    Fact,           \* the facts the observers may report
    Scope,          \* caller scopes
    Input,          \* inputs of cached answers, sets of <<name, value>>
    MaxAdds,        \* bound: facts added in one behaviour
    MaxSavepoints   \* bound: nesting of savepoints

ASSUME WriteBufferAssumption ==
    /\ Fact \subseteq WriteFact
    /\ MaxSavepoints \in Nat

\* A JSON object has a key once.  An update fact that says which columns changed
\* was collected for a row whose update changed one (the triggers' conditions in
\* observer.ts and index.ts of sqlite), with the row before and after.
ASSUME FactsAreWhole ==
    /\ Null \notin Column
    /\ \A input \in Input : IsObject(input)
    /\ \A fact \in Fact :
          /\ \A row \in {fact.before, fact.after} :
                row.kind = "known" => IsObject(row.fields) /\ IsObject(row.equality)
          /\ fact.operation = "update" /\ fact.changed # Null =>
                fact.changed # {} /\ "absent" \notin {fact.before.kind, fact.after.kind}

VARIABLES
    buffers,        \* the write sets of the open savepoints, outermost first
    accepted,       \* per buffer, the facts it was given
    closed          \* WriteSet.closed of the outermost buffer

vars == <<buffers, accepted, closed>>

Top == Len(buffers)
Report == [e \in Endpoint |-> Verified]
ImpactOf(facts, scope) == CalculateImpact(facts, scope, Report)

-----------------------------------------------------------------------------
Init ==
    /\ buffers = <<NoWrites>>
    /\ accepted = <<<<>>>>
    /\ closed = FALSE

AddObserved(fact) ==
    /\ ~closed
    /\ Len(FlattenSeq(accepted)) < MaxAdds
    /\ buffers' = [buffers EXCEPT ![Top] = Add(@, <<fact>>)]
    /\ accepted' = [accepted EXCEPT ![Top] = Append(@, fact)]
    /\ UNCHANGED closed

OpenSavepoint ==
    /\ ~closed
    /\ Top <= MaxSavepoints
    /\ buffers' = Append(buffers, Fork(buffers[Top]))
    /\ accepted' = Append(accepted, <<>>)
    /\ UNCHANGED closed

ReleaseSavepoint ==
    /\ Top > 1
    /\ buffers' = [Front(buffers) EXCEPT ![Top - 1] = Merge(@, buffers[Top])]
    /\ accepted' = [Front(accepted) EXCEPT ![Top - 1] = @ \o accepted[Top]]
    /\ UNCHANGED closed

RollbackSavepoint ==
    /\ Top > 1
    /\ buffers' = Front(buffers)
    /\ accepted' = Front(accepted)
    /\ UNCHANGED closed

\* executeCommand closes the set after the calculation, whatever its outcome.
Close ==
    /\ Top = 1
    /\ ~closed
    /\ closed' = TRUE
    /\ UNCHANGED <<buffers, accepted>>

Next ==
    \/ \E fact \in Fact : AddObserved(fact)
    \/ OpenSavepoint
    \/ ReleaseSavepoint
    \/ RollbackSavepoint
    \/ Close

Spec == Init /\ [][Next]_vars

-----------------------------------------------------------------------------
(* Properties.  The buffers below the innermost one were innermost before. *)

\* One buffer per open savepoint, its entries of one resource each, and a
\* summarized entry holds exactly its summary (write-set.ts).
TypeOK ==
    /\ Len(buffers) = Len(accepted)
    /\ Top \in 1 .. MaxSavepoints + 1
    /\ closed \in BOOLEAN
    /\ \A i \in 1 .. Top : \A j \in DOMAIN buffers[i] :
          LET entry == buffers[i][j]
          IN /\ entry.resource \in Resource
             /\ entry.summarized \in BOOLEAN
             /\ entry.summarized => Len(entry.facts) = 1
             /\ \A k \in DOMAIN entry.facts :
                   /\ entry.facts[k].resource = entry.resource
                   /\ entry.facts[k].operation \in Operations

\* Summaries, merges and the calculator's own widening never lose an endpoint
\* and input that one of the accepted facts may affect (calculate.ts, write-set.ts).
CoverageKept ==
    \A scope \in Scope :
        LET impact == ImpactOf(Snapshot(buffers[Top]), scope)
        IN \A e \in Endpoint, input \in Input :
              MayAffect(accepted[Top], e, input, scope) => Reports(impact, e, input)

\* An endpoint still called verified is reported for exactly the inputs its
\* facts may affect: every loss of precision carries PRECISION_REDUCED.
VerifiedIsExact ==
    \A scope \in Scope :
        LET impact == ImpactOf(Snapshot(buffers[Top]), scope)
        IN \A e \in Endpoint, input \in Input :
              impact[e].status = "verified" /\ Reports(impact, e, input)
                => MayAffect(accepted[Top], e, input, scope)

\* A caller never receives a value that occurs only in rows of another scope
\* (semantics.md:37, "An old scope cannot receive another request's private values").
\* That something was written is not hidden: rows of no known scope, or a summary of
\* several, give every caller the target "all", which names no value.
NoForeignValues ==
    \A scope \in Scope :
        LET impact == ImpactOf(Snapshot(buffers[1]), scope)
            visible == {row \in UNION {{accepted[1][i].before, accepted[1][i].after} :
                                         i \in DOMAIN accepted[1]} :
                          row.kind = "known" /\ row.scope = scope}
        IN \A e \in Endpoint : \A alternative \in impact[e].targets["caller"] :
              \A pair \in alternative :
                 \E row \in visible : \E field \in row.fields : field[2] = pair[2]

\* Adding a fact or releasing a savepoint never narrows what the facts of an
\* open buffer may affect: a constraint a summary gave up is not restored by a
\* later fact, nor by a merge (write-set.ts, add, merge and compact).
CoverageGrows ==
    [][\A i \in DOMAIN buffers \cap DOMAIN buffers' :
          \A scope \in Scope, e \in Endpoint, input \in Input :
             MayAffect(Snapshot(buffers[i]), e, input, scope)
               => MayAffect(Snapshot(buffers'[i]), e, input, scope)]_vars
=============================================================================
