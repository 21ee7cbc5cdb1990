------------------------- MODULE WriteBuffer_proofs -------------------------
(***************************************************************************)
(* Proofs about WriteBuffer for every manifest, every budget and any       *)
(* facts: every open buffer stands for the facts it was given, through     *)
(* savepoints that are released or rolled back, so the impact calculated   *)
(* from it reports what those facts may affect; and it claims no more      *)
(* than they do, so a verified endpoint is reported for nothing else.      *)
(***************************************************************************)
EXTENDS WriteBuffer, ImpactLemmas

-----------------------------------------------------------------------------
(* The buffers of the open savepoints. *)

\* What a buffer may have been given.
Histories == Seq(WriteFact)

\* Every open buffer stands for what it was given.
IInv ==
    /\ buffers \in Seq(WriteSets(RowState))
    /\ accepted \in Seq(Histories)
    /\ Len(buffers) = Len(accepted)
    /\ Len(buffers) \in 1 .. MaxSavepoints + 1
    /\ closed \in BOOLEAN
    /\ \A i \in 1 .. Len(buffers) : Stands(buffers[i], accepted[i])

-----------------------------------------------------------------------------
(* The invariant. *)

\* What a step does to the buffers it leaves open.
StepKeeps == \A i \in DOMAIN buffers \cap DOMAIN buffers' : Keeps(buffers[i], buffers'[i])

LEMMA KeepsSelf ==
    ASSUME NEW writes
    PROVE  Keeps(writes, writes)
  BY DEF Keeps

LEMMA InitHolds ==
    ASSUME Init
    PROVE  IInv
<1>1. NoWrites \in WriteSets(RowState)
  BY DEF NoWrites, WriteSets
<1>2. /\ buffers = <<NoWrites>> /\ accepted = <<<<>>>> /\ closed = FALSE
  BY DEF Init
<1>3. buffers \in Seq(WriteSets(RowState)) /\ Len(buffers) = 1 /\ buffers[1] = NoWrites
  BY <1>1, <1>2
<1>4. accepted \in Seq(Histories) /\ Len(accepted) = 1 /\ accepted[1] = <<>>
  BY <1>2 DEF Histories
<1>5. 1 \in 1 .. MaxSavepoints + 1
  BY WriteBufferAssumption
<1>6. \A i \in 1 .. Len(buffers) : Stands(buffers[i], accepted[i])
  BY <1>3, <1>4, NothingStands
<1> QED BY <1>2, <1>3, <1>4, <1>5, <1>6 DEF IInv

Replaces(t, s, i, v) == t = [s EXCEPT ![i] = v]

LEMMA Replaced ==
    ASSUME NEW S, NEW s \in Seq(S), NEW i \in 1 .. Len(s), NEW v \in S,
           NEW t, Replaces(t, s, i, v)
    PROVE  /\ t \in Seq(S) /\ Len(t) = Len(s) /\ t[i] = v
           /\ \A j \in 1 .. Len(s) : j # i => t[j] = s[j]
  BY DEF Replaces

\* A buffer and what it was given, replaced together.
LEMMA ReplaceStands ==
    ASSUME NEW bs \in Seq(WriteSets(RowState)), NEW hs \in Seq(Histories), Len(bs) = Len(hs),
           \A j \in 1 .. Len(bs) : Stands(bs[j], hs[j]),
           NEW i \in 1 .. Len(bs), NEW writes, NEW facts \in Histories, Stands(writes, facts),
           NEW bt, Replaces(bt, bs, i, writes), NEW ht, Replaces(ht, hs, i, facts)
    PROVE  /\ bt \in Seq(WriteSets(RowState)) /\ ht \in Seq(Histories)
           /\ Len(bt) = Len(bs) /\ Len(ht) = Len(bs)
           /\ \A j \in 1 .. Len(bs) : Stands(bt[j], ht[j])
           /\ bt[i] = writes /\ \A j \in 1 .. Len(bs) : j # i => bt[j] = bs[j]
<1>1. /\ bs \in Seq(WriteSets(RowState)) /\ i \in 1 .. Len(bs) /\ writes \in WriteSets(RowState)
      /\ Replaces(bt, bs, i, writes)
  BY StandsTyped DEF Histories
<1>2. /\ bt \in Seq(WriteSets(RowState)) /\ Len(bt) = Len(bs)
      /\ bt[i] = writes /\ \A j \in 1 .. Len(bs) : j # i => bt[j] = bs[j]
  BY ONLY <1>1, Replaced
<1>3. /\ hs \in Seq(Histories) /\ i \in 1 .. Len(hs) /\ facts \in Histories
      /\ Replaces(ht, hs, i, facts)
  OBVIOUS
<1>4. /\ ht \in Seq(Histories) /\ Len(ht) = Len(hs)
      /\ ht[i] = facts /\ \A j \in 1 .. Len(hs) : j # i => ht[j] = hs[j]
  BY ONLY <1>3 DEF Replaces
<1>5. \A j \in 1 .. Len(bs) : Stands(bt[j], ht[j])
  BY <1>2, <1>4
<1> QED BY <1>2, <1>4, <1>5

\* The buffers below the innermost one, when a savepoint is open.
LEMMA FrontStands ==
    ASSUME IInv, Top > 1
    PROVE  /\ Front(buffers) \in Seq(WriteSets(RowState)) /\ Len(Front(buffers)) = Top - 1
           /\ Front(accepted) \in Seq(Histories) /\ Len(Front(accepted)) = Top - 1
           /\ \A i \in 1 .. Top - 1 : Front(buffers)[i] = buffers[i] /\ Front(accepted)[i] = accepted[i]
           /\ \A i \in 1 .. Top - 1 : Stands(Front(buffers)[i], Front(accepted)[i])
           /\ Top - 1 \in 1 .. MaxSavepoints + 1 /\ Top \in Nat
<1>1. /\ buffers \in Seq(WriteSets(RowState)) /\ accepted \in Seq(Histories)
      /\ Len(accepted) = Top /\ Top \in 1 .. MaxSavepoints + 1
      /\ \A i \in 1 .. Top : Stands(buffers[i], accepted[i])
  BY DEF IInv, Top
<1>2. Top \in Nat /\ Top - 1 \in 1 .. MaxSavepoints + 1 /\ MaxSavepoints \in Nat
  BY <1>1, WriteBufferAssumption
<1>3. Len(buffers) = Top
  BY DEF Top
<1> HIDE DEF Top
<1>4. buffers # <<>> /\ accepted # <<>>
  BY <1>1, <1>3
<1>5. /\ Front(buffers) \in Seq(WriteSets(RowState)) /\ Len(Front(buffers)) = Top - 1
      /\ \A i \in 1 .. Top - 1 : Front(buffers)[i] = buffers[i]
  BY <1>1, <1>3, <1>4, FrontOfSequence
<1>6. /\ Front(accepted) \in Seq(Histories) /\ Len(Front(accepted)) = Top - 1
      /\ \A i \in 1 .. Top - 1 : Front(accepted)[i] = accepted[i]
  BY <1>1, <1>4, FrontOfSequence
<1>7. \A i \in 1 .. Top - 1 : i \in 1 .. Top
  BY <1>2
<1> QED BY <1>1, <1>2, <1>5, <1>6, <1>7

\* Every step keeps the invariant, and every buffer it leaves open keeps
\* what it held.
LEMMA StepHolds ==
    ASSUME IInv, [Next]_vars
    PROVE  IInv' /\ StepKeeps
<1>0. /\ buffers \in Seq(WriteSets(RowState)) /\ accepted \in Seq(Histories)
      /\ Len(buffers) = Len(accepted) /\ Len(buffers) \in 1 .. MaxSavepoints + 1
      /\ closed \in BOOLEAN
      /\ \A i \in 1 .. Len(buffers) : Stands(buffers[i], accepted[i])
  BY DEF IInv
<1>a. /\ MaxSavepoints \in Nat /\ Len(buffers) \in Nat /\ Len(buffers) \in 1 .. Len(buffers)
      /\ DOMAIN buffers = 1 .. Len(buffers)
      /\ \A i \in 1 .. Len(buffers) : accepted[i] \in Histories
  BY <1>0, WriteBufferAssumption
<1>1. ASSUME NEW fact \in Fact, AddObserved(fact) PROVE IInv' /\ StepKeeps
  <2> DEFINE i == Len(buffers)
             writes == Add(buffers[i], <<fact>>)
             facts == Append(accepted[i], fact)
  <2>1. /\ buffers' = [buffers EXCEPT ![i] = writes] /\ closed' = closed
        /\ accepted' = [accepted EXCEPT ![i] = facts]
    BY <1>1 DEF AddObserved, Top
  <2>2. fact \in WriteFact /\ i \in 1 .. Len(buffers)
    BY <1>a, WriteBufferAssumption
  <2>3. /\ Stands(writes, facts) /\ Keeps(buffers[i], writes) /\ facts \in Histories
    BY <1>0, <1>a, <2>2, AddStands DEF Histories
  <2> HIDE DEF writes, facts
  <2>4. /\ buffers' \in Seq(WriteSets(RowState)) /\ accepted' \in Seq(Histories)
        /\ Len(buffers') = Len(buffers) /\ Len(accepted') = Len(buffers)
        /\ \A j \in 1 .. Len(buffers) : Stands(buffers'[j], accepted'[j])
        /\ buffers'[i] = writes /\ \A j \in 1 .. Len(buffers) : j # i => buffers'[j] = buffers[j]
    <3>1. Replaces(buffers', buffers, i, writes) /\ Replaces(accepted', accepted, i, facts)
      BY <2>1 DEF Replaces
    <3> HIDE DEF i
    <3>2. /\ buffers \in Seq(WriteSets(RowState)) /\ accepted \in Seq(Histories)
          /\ Len(buffers) = Len(accepted) /\ i \in 1 .. Len(buffers)
          /\ \A j \in 1 .. Len(buffers) : Stands(buffers[j], accepted[j])
          /\ Stands(writes, facts) /\ facts \in Histories
      BY <1>0, <2>2, <2>3
    <3> QED BY ONLY <3>1, <3>2, ReplaceStands
  <2>5. IInv'
    BY <1>0, <2>1, <2>4 DEF IInv
  <2>6. StepKeeps
    BY <1>a, <2>3, <2>4, KeepsSelf DEF StepKeeps
  <2> QED BY <2>5, <2>6
<1>2. ASSUME OpenSavepoint PROVE IInv' /\ StepKeeps
  <2>1. /\ buffers' = Append(buffers, NoWrites) /\ accepted' = Append(accepted, <<>>)
        /\ closed' = closed /\ Len(buffers) <= MaxSavepoints
    BY <1>2 DEF OpenSavepoint, Top, Fork
  <2>2. NoWrites \in WriteSets(RowState) /\ <<>> \in Histories
    BY DEF NoWrites, WriteSets, Histories
  <2>3. /\ buffers' \in Seq(WriteSets(RowState)) /\ Len(buffers') = Len(buffers) + 1
        /\ buffers'[Len(buffers) + 1] = NoWrites
        /\ \A j \in 1 .. Len(buffers) : buffers'[j] = buffers[j]
    BY <1>0, <2>1, <2>2
  <2>4. /\ accepted' \in Seq(Histories) /\ Len(accepted') = Len(buffers) + 1
        /\ accepted'[Len(buffers) + 1] = <<>>
        /\ \A j \in 1 .. Len(buffers) : accepted'[j] = accepted[j]
    BY <1>0, <2>1, <2>2
  <2>5. ASSUME NEW j \in 1 .. Len(buffers') PROVE Stands(buffers'[j], accepted'[j])
    <3>1. CASE j = Len(buffers) + 1
      BY <2>3, <2>4, <3>1, NothingStands
    <3>2. CASE j # Len(buffers) + 1
      <4>1. j \in 1 .. Len(buffers)
        BY <1>a, <2>3, <3>2
      <4> QED BY <1>0, <2>3, <2>4, <4>1
    <3> QED BY <3>1, <3>2
  <2>6. Len(buffers) + 1 \in 1 .. MaxSavepoints + 1
    BY <1>a, <2>1
  <2>7. IInv'
    BY <1>0, <2>1, <2>3, <2>4, <2>5, <2>6 DEF IInv
  <2>8. StepKeeps
    BY <1>a, <2>3, KeepsSelf DEF StepKeeps
  <2> QED BY <2>7, <2>8
<1>3. ASSUME ReleaseSavepoint PROVE IInv' /\ StepKeeps
  <2> DEFINE below == Front(buffers)
             given == Front(accepted)
             i == Top - 1
             writes == Merge(below[i], buffers[Top])
             facts == given[i] \o accepted[Top]
  <2>1. /\ Top > 1 /\ closed' = closed
        /\ buffers' = [below EXCEPT ![i] = writes]
        /\ accepted' = [given EXCEPT ![i] = facts]
    BY <1>3 DEF ReleaseSavepoint
  <2>2. /\ below \in Seq(WriteSets(RowState)) /\ Len(below) = Top - 1
        /\ given \in Seq(Histories) /\ Len(given) = Top - 1
        /\ \A j \in 1 .. Top - 1 : below[j] = buffers[j]
        /\ \A j \in 1 .. Top - 1 : Stands(below[j], given[j])
        /\ Top - 1 \in 1 .. MaxSavepoints + 1 /\ Top \in Nat
    BY <2>1, FrontStands
  <2>3. i \in 1 .. Len(below) /\ Top \in 1 .. Len(buffers) /\ Top = Len(buffers)
    BY <1>a, <2>2 DEF Top
  <2> HIDE DEF below, given
  <2>4. given[i] \in Histories /\ accepted[Top] \in Histories
        /\ Stands(below[i], given[i]) /\ Stands(buffers[Top], accepted[Top])
    BY <1>0, <1>a, <2>2, <2>3
  <2>5. facts \in Histories /\ Stands(writes, facts) /\ Keeps(below[i], writes)
    BY <2>4, MergeStands DEF Histories
  <2> HIDE DEF writes, facts, i
  <2>6. /\ buffers' \in Seq(WriteSets(RowState)) /\ accepted' \in Seq(Histories)
        /\ Len(buffers') = Len(below) /\ Len(accepted') = Len(below)
        /\ \A j \in 1 .. Len(below) : Stands(buffers'[j], accepted'[j])
        /\ buffers'[i] = writes /\ \A j \in 1 .. Len(below) : j # i => buffers'[j] = below[j]
    <3>1. /\ Len(below) = Len(given) /\ i \in 1 .. Len(below)
          /\ \A j \in 1 .. Len(below) : Stands(below[j], given[j])
      BY <2>2, <2>3
    <3>2. Replaces(buffers', below, i, writes) /\ Replaces(accepted', given, i, facts)
      BY <2>1 DEF Replaces
    <3>3. /\ below \in Seq(WriteSets(RowState)) /\ given \in Seq(Histories)
          /\ Stands(writes, facts) /\ facts \in Histories
      BY <2>2, <2>5
    <3> QED BY ONLY <3>1, <3>2, <3>3, ReplaceStands
  <2>7. IInv'
    BY <1>0, <2>1, <2>2, <2>6 DEF IInv
  <2>8. StepKeeps
    <3>1. DOMAIN buffers' = 1 .. Len(below) /\ \A j \in 1 .. Len(below) : below[j] = buffers[j]
      BY <2>2, <2>6
    <3>2. \A j \in 1 .. Len(below) : Keeps(below[j], buffers'[j])
      BY <2>5, <2>6, KeepsSelf
    <3> QED BY <3>1, <3>2 DEF StepKeeps
  <2> QED BY <2>7, <2>8
<1>4. ASSUME RollbackSavepoint PROVE IInv' /\ StepKeeps
  <2>1. /\ Top > 1 /\ closed' = closed /\ buffers' = Front(buffers) /\ accepted' = Front(accepted)
    BY <1>4 DEF RollbackSavepoint
  <2>2. /\ buffers' \in Seq(WriteSets(RowState)) /\ Len(buffers') = Top - 1
        /\ accepted' \in Seq(Histories) /\ Len(accepted') = Top - 1
        /\ \A j \in 1 .. Top - 1 : buffers'[j] = buffers[j]
        /\ \A j \in 1 .. Top - 1 : Stands(buffers'[j], accepted'[j])
        /\ Top - 1 \in 1 .. MaxSavepoints + 1
    BY <2>1, FrontStands
  <2>3. IInv'
    BY <1>0, <2>1, <2>2 DEF IInv
  <2>4. StepKeeps
    BY <1>a, <2>2, KeepsSelf DEF StepKeeps
  <2> QED BY <2>3, <2>4
<1>5. ASSUME Close PROVE IInv' /\ StepKeeps
  <2>1. closed' = TRUE /\ buffers' = buffers /\ accepted' = accepted
    BY <1>5 DEF Close
  <2> QED BY <1>0, <2>1, KeepsSelf DEF IInv, StepKeeps
<1>6. ASSUME UNCHANGED vars PROVE IInv' /\ StepKeeps
  <2>1. closed' = closed /\ buffers' = buffers /\ accepted' = accepted
    BY <1>6 DEF vars
  <2> QED BY <1>0, <2>1, KeepsSelf DEF IInv, StepKeeps
<1> QED BY <1>1, <1>2, <1>3, <1>4, <1>5, <1>6 DEF Next

\* In every reachable state each open buffer stands for the facts it was given.
THEOREM Invariance == Spec => []IInv
<1>1. Init => IInv
  BY InitHolds
<1>2. IInv /\ [Next]_vars => IInv'
  BY StepHolds
<1> QED BY <1>1, <1>2, PTL DEF Spec

-----------------------------------------------------------------------------
(* The properties. *)

\* The buffers keep their shape: entries of one resource, summaries of one fact.
THEOREM TypeCorrect == Spec => []TypeOK
<1>1. IInv => TypeOK
  <2> SUFFICES ASSUME IInv PROVE TypeOK
    OBVIOUS
  <2>1. /\ buffers \in Seq(WriteSets(RowState)) /\ Len(buffers) = Len(accepted)
        /\ Len(buffers) \in 1 .. MaxSavepoints + 1 /\ closed \in BOOLEAN
    BY DEF IInv
  <2>2. ASSUME NEW i \in 1 .. Top, NEW j \in DOMAIN buffers[i]
        PROVE  LET entry == buffers[i][j]
               IN /\ entry.resource \in Resource
                  /\ entry.summarized \in BOOLEAN
                  /\ entry.summarized => Len(entry.facts) = 1
                  /\ \A k \in DOMAIN entry.facts :
                        /\ entry.facts[k].resource = entry.resource
                        /\ entry.facts[k].operation \in Operations
    <3> DEFINE entry == buffers[i][j]
    <3>1. buffers[i] \in WriteSets(RowState)
      BY <2>1 DEF Top
    <3>2. entry \in Entries(RowState)
      BY <3>1 DEF WriteSets
    <3> HIDE DEF entry
    <3>3. /\ entry.resource \in Resource /\ entry.summarized \in BOOLEAN
          /\ entry.summarized => Len(entry.facts) = 1
          /\ \A k \in DOMAIN entry.facts :
                entry.facts[k] \in WriteFact /\ entry.facts[k].resource = entry.resource
      BY <3>2, EntryFields
    <3>4. \A fact \in WriteFact : fact.operation \in Operations
      BY DEF WriteFact
    <3> QED BY <3>3, <3>4 DEF entry
  <2> QED BY <2>1, <2>2 DEF TypeOK, Top
<1> QED BY <1>1, Invariance, PTL

\* The snapshot of a buffer may affect whatever the facts it was given may.
LEMMA SnapshotAffects ==
    ASSUME NEW writes, NEW facts \in Seq(WriteFact), Stands(writes, facts)
    PROVE  /\ Snapshot(writes) \in Seq(FactsFrom(RowsOf(facts)))
           /\ \A endpoint, input, scope :
                 MayAffect(facts, endpoint, input, scope)
                    => MayAffect(Snapshot(writes), endpoint, input, scope)
<1> DEFINE all == Snapshot(writes)
<1>1. /\ all \in Seq(FactsFrom(RowsOf(facts)))
      /\ \A fact \in WriteFact : Holds(writes, fact) => \E m \in DOMAIN all : Wider(all[m], fact)
  BY SnapshotFacts DEF Stands
<1> HIDE DEF all
<1>2. all \in Seq(WriteFact)
  BY <1>1 DEF FactsFrom
<1>3. \A i \in DOMAIN facts : facts[i] \in WriteFact /\ Holds(writes, facts[i])
  BY DEF Stands
<1>4. \A i \in DOMAIN facts : \E m \in DOMAIN all : Wider(all[m], facts[i])
  BY <1>1, <1>3
<1>5. \A endpoint, input, scope :
         MayAffect(facts, endpoint, input, scope) => MayAffect(all, endpoint, input, scope)
  BY <1>2, <1>4, WiderAffects
<1> QED BY <1>1, <1>5 DEF all

LEMMA ReportTyped == Report \in Assessments /\ \A e \in Endpoint : Report[e].status # "unavailable"
<1>1. Verified \in [status : Statuses, codes : SUBSET Codes] /\ Verified.status = "verified"
  BY DEF Verified, Statuses
<1> QED BY <1>1 DEF Report, Assessments

\* Whatever was summarized, merged or widened on the way, the impact reports
\* every input that one of the accepted facts may affect.
THEOREM CoverageIsKept == Spec => []CoverageKept
<1>1. IInv => CoverageKept
  <2> SUFFICES ASSUME IInv, NEW scope \in Scope, NEW e \in Endpoint, NEW input \in Input,
                      MayAffect(accepted[Top], e, input, scope)
               PROVE  Reports(ImpactOf(Snapshot(buffers[Top]), scope), e, input)
    BY DEF CoverageKept
  <2> DEFINE writes == buffers[Top]
             facts == accepted[Top]
  <2>1. facts \in Seq(WriteFact) /\ Stands(writes, facts)
    BY DEF IInv, Top, Histories
  <2>2. MayAffect(facts, e, input, scope)
    OBVIOUS
  <2> HIDE DEF writes, facts
  <2>3. /\ Snapshot(writes) \in Seq(FactsFrom(RowsOf(facts)))
        /\ MayAffect(Snapshot(writes), e, input, scope)
    BY <2>1, <2>2, SnapshotAffects
  <2>4. Reports(CalculateImpact(Snapshot(writes), scope, Report), e, input)
    BY <2>3, ReportTyped, CalculationCovers
  <2> QED BY <2>4 DEF ImpactOf, writes
<1> QED BY <1>1, Invariance, PTL

\* A selector for the caller's own target names only values that a row of the
\* caller's scope was seen to have.
THEOREM ForeignValuesStayOut == Spec => []NoForeignValues
<1>1. IInv => NoForeignValues
  <2> SUFFICES ASSUME IInv, NEW scope \in Scope, NEW e \in Endpoint,
                      NEW alternative \in ImpactOf(Snapshot(buffers[1]), scope)[e].targets["caller"],
                      NEW pair \in alternative
               PROVE  \E row \in {row \in RowsOf(accepted[1]) : row.kind = "known" /\ row.scope = scope} :
                         \E field \in row.fields : field[2] = pair[2]
    BY DEF NoForeignValues, RowsOf
  <2> DEFINE writes == buffers[1]
             facts == accepted[1]
  <2>1. facts \in Seq(WriteFact) /\ Stands(writes, facts)
    BY DEF IInv, Histories
  <2>2. alternative \in CalculateImpact(Snapshot(writes), scope, Report)[e].targets["caller"]
    BY DEF ImpactOf
  <2> HIDE DEF writes, facts
  <2>3. Snapshot(writes) \in Seq(FactsFrom(RowsOf(facts)))
    BY <2>1, SnapshotAffects
  <2>4. CalculateImpact(Snapshot(writes), scope, Report)[e].targets["caller"]
           \in SUBSET SUBSET SeenPairs(RowsOf(facts), scope)
    BY <2>3, ReportTyped, CalculationCovers
  <2>5. pair \in SeenPairs(RowsOf(facts), scope)
    BY <2>2, <2>4
  <2> QED BY <2>5 DEF SeenPairs, facts
<1> QED BY <1>1, Invariance, PTL

\* No step narrows what the facts of a buffer it leaves open may affect.
THEOREM CoverageOnlyGrows == Spec => CoverageGrows
<1>1. ASSUME IInv, [Next]_vars, NEW i \in DOMAIN buffers \cap DOMAIN buffers',
             NEW scope, NEW e, NEW input, MayAffect(Snapshot(buffers[i]), e, input, scope)
      PROVE  MayAffect(Snapshot(buffers'[i]), e, input, scope)
  <2> DEFINE before == buffers[i]
             after == buffers'[i]
  <2>1. IInv' /\ Keeps(before, after)
    BY <1>1, StepHolds DEF StepKeeps
  <2>2. before \in WriteSets(RowState) /\ after \in WriteSets(RowState)
    BY <1>1, <2>1 DEF IInv
  <2>3. MayAffect(Snapshot(before), e, input, scope)
    BY <1>1
  <2> HIDE DEF before, after
  <2>4. Snapshot(before) \in Seq(WriteFact) /\ Snapshot(after) \in Seq(WriteFact)
    <3>1. FactsFrom(RowState) \subseteq WriteFact
      BY DEF FactsFrom
    <3>2. /\ Snapshot(before) \in Seq(FactsFrom(RowState))
          /\ Snapshot(after) \in Seq(FactsFrom(RowState))
      BY <2>2, SnapshotFacts
    <3> QED BY <3>1, <3>2
  <2>5. \A k \in DOMAIN Snapshot(before) :
           \E m \in DOMAIN Snapshot(after) : Wider(Snapshot(after)[m], Snapshot(before)[k])
    <3>1. ASSUME NEW k \in DOMAIN Snapshot(before) PROVE Holds(before, Snapshot(before)[k])
      BY <2>2, SnapshotHeld
    <3>2. \A k \in DOMAIN Snapshot(before) : Snapshot(before)[k] \in WriteFact
      BY <2>4
    <3> QED BY <2>1, <2>2, <3>1, <3>2, SnapshotFacts DEF Keeps
  <2>6. MayAffect(Snapshot(after), e, input, scope)
    BY <2>3, <2>4, <2>5, WiderAffects
  <2> QED BY <2>6 DEF after
<1>2. IInv /\ [Next]_vars =>
         \A i \in DOMAIN buffers \cap DOMAIN buffers' :
            \A scope \in Scope, e \in Endpoint, input \in Input :
               MayAffect(Snapshot(buffers[i]), e, input, scope)
                  => MayAffect(Snapshot(buffers'[i]), e, input, scope)
  BY <1>1
<1> QED BY <1>2, Invariance, PTL DEF Spec, CoverageGrows

-----------------------------------------------------------------------------
(* Facts that certify no more than a fact that was given. *)

\* One side of each of these facts.
Befores(facts) ==
    {[resource |-> f.resource, operation |-> f.operation, changed |-> f.changed, row |-> f.before] : f \in facts}
Afters(facts) ==
    {[resource |-> f.resource, operation |-> f.operation, changed |-> f.changed, row |-> f.after] : f \in facts}

\* An update that says which columns changed.
Listed(fact) == fact.operation = "update" /\ fact.changed # Null

\* The side has all the fact claims of this row.
Backs(side, fact, row) ==
    /\ side.resource = fact.resource /\ side.operation = fact.operation
    /\ side.row.kind = "known" /\ RowWider(row, side.row)

\* What a fact claims of a known row is true of a side that was given: of one
\* for each column, if the fact lists columns.
Backed(fact, row, sides) ==
    row.kind = "known" =>
        IF Listed(fact)
        THEN \A column \in fact.changed :
                \E side \in sides : Backs(side, fact, row) /\ side.changed # Null /\ column \in side.changed
        ELSE \E side \in sides : Backs(side, fact, row)

Complete(fact) ==
    Listed(fact) => fact.changed # {} /\ fact.before.kind # "absent" /\ fact.after.kind # "absent"

\* The facts that are backed by what was given, unless they are of any operation.
Exact(given) ==
    {fact \in WriteFact :
        /\ Complete(fact)
        /\ fact.operation # "unknown" => /\ Backed(fact, fact.before, Befores(given))
                                         /\ Backed(fact, fact.after, Afters(given))}

\* A fact given is backed by itself.
LEMMA GivenIsExact ==
    ASSUME NEW given \in SUBSET WriteFact, NEW fact \in given, Complete(fact)
    PROVE  fact \in Exact(given)
<1>1. fact \in WriteFact
  OBVIOUS
<1>2. ASSUME NEW sides, NEW side \in sides, side.resource = fact.resource,
             side.operation = fact.operation, side.changed = fact.changed, NEW row, side.row = row
      PROVE  Backed(fact, row, sides)
  <2>1. row.kind = "known" => Backs(side, fact, row)
    BY <1>2 DEF Backs, RowWider
  <2> QED BY <1>2, <2>1 DEF Backed, Listed
<1> DEFINE before == [resource |-> fact.resource, operation |-> fact.operation,
                      changed |-> fact.changed, row |-> fact.before]
           after == [resource |-> fact.resource, operation |-> fact.operation,
                     changed |-> fact.changed, row |-> fact.after]
<1>3. before \in Befores(given) /\ after \in Afters(given)
  BY DEF Befores, Afters
<1>4. /\ before.resource = fact.resource /\ before.operation = fact.operation
      /\ before.changed = fact.changed /\ before.row = fact.before
      /\ after.resource = fact.resource /\ after.operation = fact.operation
      /\ after.changed = fact.changed /\ after.row = fact.after
  OBVIOUS
<1> HIDE DEF before, after
<1>5. Backed(fact, fact.before, Befores(given)) /\ Backed(fact, fact.after, Afters(given))
  BY <1>2, <1>3, <1>4
<1> QED BY <1>1, <1>5 DEF Exact

\* The more is given, the more facts are backed.
LEMMA ExactGrows ==
    ASSUME NEW given, NEW more, given \subseteq more
    PROVE  Exact(given) \subseteq Exact(more)
<1>1. Befores(given) \subseteq Befores(more) /\ Afters(given) \subseteq Afters(more)
  BY DEF Befores, Afters
<1>2. ASSUME NEW fact, NEW row, NEW a, NEW b, a \subseteq b, Backed(fact, row, a)
      PROVE  Backed(fact, row, b)
  BY <1>2 DEF Backed
<1> QED BY <1>1, <1>2 DEF Exact

\* A fact that gives up the columns, and some of the row, stays backed.
LEMMA BackedLoosely ==
    ASSUME NEW fact, NEW loose, NEW row, NEW wide, NEW sides,
           Backed(fact, row, sides), Listed(fact) => fact.changed # {},
           loose.resource = fact.resource, loose.operation = fact.operation, loose.changed = Null,
           RowWider(wide, row), wide.kind = "known" => row.kind = "known"
    PROVE  Backed(loose, wide, sides)
<1> SUFFICES ASSUME wide.kind = "known" PROVE \E side \in sides : Backs(side, loose, wide)
  BY DEF Backed, Listed
<1>1. row.kind = "known"
  OBVIOUS
<1>2. PICK side \in sides : Backs(side, fact, row)
  <2>1. CASE Listed(fact)
    BY <1>1, <2>1 DEF Backed
  <2>2. CASE ~Listed(fact)
    BY <1>1, <2>2 DEF Backed
  <2> QED BY <2>1, <2>2
<1>3. RowWider(wide, side.row)
  BY <1>1, <1>2 DEF Backs, RowWider
<1> QED BY <1>2, <1>3 DEF Backs

\* What two rows have in common is backed by what backs either.
LEMMA BackedInCommon ==
    ASSUME NEW left, NEW right, NEW joined, NEW sides,
           joined.resource = left.resource, left.resource = right.resource,
           joined.operation = left.operation, left.operation = right.operation,
           joined.changed = CommonChanges(left.changed, right.changed),
           NEW l \in RowState, NEW r \in RowState,
           Listed(left) => left.changed # {} /\ l.kind # "absent",
           Listed(right) => right.changed # {} /\ r.kind # "absent",
           Backed(left, l, sides), Backed(right, r, sides)
    PROVE  Backed(joined, CommonRow(l, r), sides)
<1> DEFINE row == CommonRow(l, r)
<1>1. RowWider(row, l) /\ RowWider(row, r)
  <2>1. From(l, RowState) /\ From(r, RowState)
    BY DEF From
  <2> QED BY <2>1, CommonRowWider
<1>2. /\ l.kind \in {"absent", "unknown", "known"} /\ r.kind \in {"absent", "unknown", "known"}
      /\ l.kind = "absent" => row = r
      /\ l.kind # "absent" /\ r.kind = "absent" => row = l
      /\ l.kind # "absent" /\ r.kind # "absent" /\ row.kind = "known" => l.kind = "known" /\ r.kind = "known"
  BY Kinds DEF CommonRow, UnknownRow
<1> HIDE DEF row
<1> SUFFICES ASSUME row.kind = "known" PROVE Backed(joined, row, sides)
  BY DEF Backed, row
<1>3. CASE joined.changed = Null
  <2>1. CASE l.kind = "known"
    BY <1>1, <1>3, <2>1, BackedLoosely
  <2>2. CASE l.kind # "known"
    <3>1. r.kind = "known"
      BY <1>2, <2>2
    <3> QED BY <1>1, <1>3, <3>1, BackedLoosely
  <2> QED BY <2>1, <2>2
<1>4. CASE joined.changed # Null
  <2>1. left.changed # Null /\ right.changed # Null /\ joined.changed = left.changed \cup right.changed
    BY <1>4 DEF CommonChanges
  <2>2. CASE Listed(joined)
    <3>1. Listed(left) /\ Listed(right)
      BY <2>1, <2>2 DEF Listed
    <3>2. l.kind = "known" /\ r.kind = "known"
      BY <1>2, <3>1
    <3>3. ASSUME NEW column \in joined.changed
          PROVE  \E side \in sides : Backs(side, joined, row) /\ side.changed # Null /\ column \in side.changed
      <4>1. CASE column \in left.changed
        <5>1. PICK side \in sides : Backs(side, left, l) /\ side.changed # Null /\ column \in side.changed
          BY <3>1, <3>2, <4>1 DEF Backed
        <5>2. RowWider(row, side.row)
          BY <1>1, <3>2, <5>1 DEF Backs, RowWider
        <5> QED BY <5>1, <5>2 DEF Backs
      <4>2. CASE column \in right.changed
        <5>1. PICK side \in sides : Backs(side, right, r) /\ side.changed # Null /\ column \in side.changed
          BY <3>1, <3>2, <4>2 DEF Backed
        <5>2. RowWider(row, side.row)
          BY <1>1, <3>2, <5>1 DEF Backs, RowWider
        <5> QED BY <5>1, <5>2 DEF Backs
      <4> QED BY <2>1, <4>1, <4>2
    <3> QED BY <2>2, <3>3 DEF Backed
  <2>3. CASE ~Listed(joined)
    <3>1. ~Listed(left) /\ ~Listed(right)
      BY <1>4, <2>1, <2>3 DEF Listed
    <3>2. CASE l.kind = "known"
      <4>1. PICK side \in sides : Backs(side, left, l)
        BY <3>1, <3>2 DEF Backed
      <4>2. RowWider(row, side.row)
        BY <1>1, <3>2, <4>1 DEF Backs, RowWider
      <4>3. Backs(side, joined, row)
        BY <4>1, <4>2 DEF Backs
      <4> QED BY <2>3, <4>3 DEF Backed
    <3>3. CASE l.kind # "known"
      <4>0. r.kind = "known"
        BY <1>2, <3>3
      <4>1. PICK side \in sides : Backs(side, right, r)
        BY <3>1, <4>0 DEF Backed
      <4>2. RowWider(row, side.row)
        BY <1>1, <4>0, <4>1 DEF Backs, RowWider
      <4>3. Backs(side, joined, row)
        BY <4>1, <4>2 DEF Backs
      <4> QED BY <2>3, <4>3 DEF Backed
    <3> QED BY <3>2, <3>3
  <2> QED BY <2>2, <2>3
<1> QED BY <1>3, <1>4

\* Giving up fields, or scopes as well, claims less of a row.
LEMMA LooserRow ==
    ASSUME NEW row \in RowState
    PROVE  /\ RowWider(WithoutFields(row), row)
           /\ WithoutFields(row).kind = "known" => row.kind = "known"
           /\ RowWider(WithoutScope(WithoutFields(row)), row)
           /\ WithoutScope(WithoutFields(row)).kind = "known" => row.kind = "known"
<1>1. From(row, RowState)
  BY DEF From
<1>2. RowWider(WithoutFields(row), row) /\ RowWider(WithoutScope(WithoutFields(row)), row)
  BY <1>1, WithoutWider
<1>3. row.kind # "known" => WithoutFields(row) = row /\ WithoutScope(WithoutFields(row)) = row
  BY DEF WithoutFields, WithoutScope
<1> QED BY <1>2, <1>3

LEMMA TrimmedExact ==
    ASSUME NEW given, NEW fact \in Exact(given)
    PROVE  Trimmed(fact) \in Exact(given)
<1> DEFINE bare == [resource |-> fact.resource, operation |-> fact.operation,
                    before |-> WithoutFields(fact.before), after |-> WithoutFields(fact.after),
                    changed |-> Null]
           blank == [resource |-> fact.resource, operation |-> fact.operation,
                     before |-> WithoutScope(WithoutFields(fact.before)),
                     after |-> WithoutScope(WithoutFields(fact.after)), changed |-> Null]
<1>1. /\ fact \in WriteFact /\ fact.before \in RowState /\ fact.after \in RowState /\ Complete(fact)
      /\ fact.operation # "unknown" => /\ Backed(fact, fact.before, Befores(given))
                                       /\ Backed(fact, fact.after, Afters(given))
  BY DEF Exact, WriteFact
<1>2. ASSUME NEW loose \in WriteFact, loose.resource = fact.resource, loose.operation = fact.operation,
             loose.changed = Null,
             RowWider(loose.before, fact.before), loose.before.kind = "known" => fact.before.kind = "known",
             RowWider(loose.after, fact.after), loose.after.kind = "known" => fact.after.kind = "known"
      PROVE  loose \in Exact(given)
  <2>1. Complete(loose)
    BY <1>2 DEF Complete, Listed
  <2>2. Listed(fact) => fact.changed # {}
    BY <1>1 DEF Complete
  <2>3. loose.operation # "unknown" => /\ Backed(loose, loose.before, Befores(given))
                                      /\ Backed(loose, loose.after, Afters(given))
    BY <1>1, <1>2, <2>2, BackedLoosely
  <2> QED BY <2>1, <2>3 DEF Exact
<1>3. fact.resource \in Resource /\ fact.operation \in Operations
  BY <1>1 DEF WriteFact
<1>a. /\ WithoutFields(fact.before) \in RowState /\ WithoutFields(fact.after) \in RowState
      /\ WithoutScope(WithoutFields(fact.before)) \in RowState
      /\ WithoutScope(WithoutFields(fact.after)) \in RowState
  <2>1. From(fact.before, RowState) /\ From(fact.after, RowState)
    BY <1>1 DEF From
  <2> QED BY <1>1, <2>1, WithoutWider
<1>b. \A row \in {fact.before, fact.after} :
        /\ RowWider(WithoutFields(row), row)
        /\ WithoutFields(row).kind = "known" => row.kind = "known"
        /\ RowWider(WithoutScope(WithoutFields(row)), row)
        /\ WithoutScope(WithoutFields(row)).kind = "known" => row.kind = "known"
  BY <1>1, LooserRow
<1>4. bare \in Exact(given)
  <2>1. bare \in WriteFact
    BY <1>3, <1>a DEF WriteFact
  <2>2. /\ bare.resource = fact.resource /\ bare.operation = fact.operation /\ bare.changed = Null
        /\ bare.before = WithoutFields(fact.before) /\ bare.after = WithoutFields(fact.after)
    OBVIOUS
  <2> HIDE DEF bare
  <2> QED BY <1>b, <1>2, <2>1, <2>2
<1>5. blank \in Exact(given)
  <2>1. blank \in WriteFact
    BY <1>3, <1>a DEF WriteFact
  <2>2. /\ blank.resource = fact.resource /\ blank.operation = fact.operation /\ blank.changed = Null
        /\ blank.before = WithoutScope(WithoutFields(fact.before))
        /\ blank.after = WithoutScope(WithoutFields(fact.after))
    OBVIOUS
  <2> HIDE DEF blank
  <2> QED BY <1>b, <1>2, <2>1, <2>2
<1>6. Trimmed(fact) \in {fact, bare, blank}
  BY DEF Trimmed
<1> HIDE DEF bare, blank
<1> QED BY <1>4, <1>5, <1>6

\* A summary takes in one more fact.
LEMMA StepExact ==
    ASSUME NEW given, NEW summary \in Exact(given), NEW fact \in Exact(given),
           summary.resource = fact.resource
    PROVE  SummaryStep(summary, fact) \in Exact(given)
<1> DEFINE joined == [resource |-> summary.resource,
                      operation |-> IF summary.operation = fact.operation THEN fact.operation ELSE "unknown",
                      before |-> CommonRow(summary.before, fact.before),
                      after |-> CommonRow(summary.after, fact.after),
                      changed |-> CommonChanges(summary.changed, fact.changed)]
<1>1. /\ summary \in WriteFact /\ summary.before \in RowState /\ summary.after \in RowState
      /\ Complete(summary)
      /\ summary.operation # "unknown" => /\ Backed(summary, summary.before, Befores(given))
                                          /\ Backed(summary, summary.after, Afters(given))
  BY DEF Exact, WriteFact
<1>2. /\ fact \in WriteFact /\ fact.before \in RowState /\ fact.after \in RowState
      /\ Complete(fact)
      /\ fact.operation # "unknown" => /\ Backed(fact, fact.before, Befores(given))
                                       /\ Backed(fact, fact.after, Afters(given))
  BY DEF Exact, WriteFact
<1>3. SummaryStep(summary, fact) = Trimmed(joined)
  BY DEF SummaryStep
<1>4. /\ joined.resource = summary.resource
      /\ joined.operation = (IF summary.operation = fact.operation THEN fact.operation ELSE "unknown")
      /\ joined.before = CommonRow(summary.before, fact.before)
      /\ joined.after = CommonRow(summary.after, fact.after)
      /\ joined.changed = CommonChanges(summary.changed, fact.changed)
  OBVIOUS
<1>5. joined \in WriteFact
  <2>1. /\ summary.resource \in Resource /\ fact.operation \in Operations
        /\ summary.changed \in {Null} \cup SUBSET Column /\ fact.changed \in {Null} \cup SUBSET Column
    BY <1>1, <1>2 DEF WriteFact
  <2>2. joined.before \in RowState /\ joined.after \in RowState
    <3>1. \A row \in RowState : From(row, RowState)
      BY DEF From
    <3> HIDE DEF joined
    <3> QED BY <1>1, <1>2, <1>4, <3>1, CommonRowWider
  <2>3. joined.changed \in {Null} \cup SUBSET Column
    BY <2>1 DEF CommonChanges
  <2>4. joined.operation \in Operations
    BY <2>1 DEF Operations
  <2> QED BY <2>1, <2>2, <2>3, <2>4 DEF WriteFact
<1> HIDE DEF joined
<1>6. Listed(joined) => Listed(summary) /\ Listed(fact)
  BY <1>4 DEF Listed, CommonChanges
<1>7. Complete(joined)
  <2> SUFFICES ASSUME Listed(joined)
               PROVE  joined.changed # {} /\ joined.before.kind # "absent" /\ joined.after.kind # "absent"
    BY DEF Complete
  <2>1. /\ summary.changed # {} /\ summary.before.kind # "absent" /\ summary.after.kind # "absent"
        /\ fact.changed # {} /\ fact.before.kind # "absent" /\ fact.after.kind # "absent"
    BY <1>1, <1>2, <1>6 DEF Complete
  <2>2. joined.changed = summary.changed \cup fact.changed
    BY <1>4 DEF Listed, CommonChanges
  <2>3. joined.changed # {}
    BY <2>1, <2>2
  <2>4. \A l, r \in RowState : l.kind # "absent" /\ r.kind # "absent" => CommonRow(l, r).kind # "absent"
    BY DEF CommonRow, KnownRow, UnknownRow
  <2> QED BY <1>1, <1>2, <1>4, <2>1, <2>3, <2>4
<1>8. joined.operation # "unknown" => /\ Backed(joined, joined.before, Befores(given))
                                     /\ Backed(joined, joined.after, Afters(given))
  <2> SUFFICES ASSUME joined.operation # "unknown"
               PROVE  /\ Backed(joined, joined.before, Befores(given))
                      /\ Backed(joined, joined.after, Afters(given))
    OBVIOUS
  <2>1. joined.operation = summary.operation /\ summary.operation = fact.operation
    BY <1>4
  <2>2. /\ Backed(summary, summary.before, Befores(given)) /\ Backed(summary, summary.after, Afters(given))
        /\ Backed(fact, fact.before, Befores(given)) /\ Backed(fact, fact.after, Afters(given))
    BY <1>1, <1>2, <2>1
  <2>3. /\ Listed(summary) => /\ summary.changed # {} /\ summary.before.kind # "absent"
                              /\ summary.after.kind # "absent"
        /\ Listed(fact) => fact.changed # {} /\ fact.before.kind # "absent" /\ fact.after.kind # "absent"
    BY <1>1, <1>2 DEF Complete
  <2>4. Backed(joined, CommonRow(summary.before, fact.before), Befores(given))
    BY <1>1, <1>2, <1>4, <2>1, <2>2, <2>3, BackedInCommon
  <2>5. Backed(joined, CommonRow(summary.after, fact.after), Afters(given))
    BY <1>1, <1>2, <1>4, <2>1, <2>2, <2>3, BackedInCommon
  <2> QED BY <1>4, <2>4, <2>5
<1>9. joined \in Exact(given)
  BY <1>5, <1>7, <1>8 DEF Exact
<1> QED BY <1>3, <1>9, TrimmedExact

\* A summary starts as its first fact, or as that fact without its columns.
LEMMA FirstExact ==
    ASSUME NEW given, NEW facts, facts[1] \in Exact(given)
    PROVE  SummaryStep(EmptySummary(facts), facts[1]) \in Exact(given)
<1> DEFINE fact == facts[1]
           changed == CommonChanges({}, fact.changed)
           joined == [resource |-> fact.resource, operation |-> fact.operation,
                      before |-> fact.before, after |-> fact.after, changed |-> changed]
<1>1. SummaryStep(EmptySummary(facts), fact) = Trimmed(joined)
  <2> DEFINE empty == EmptySummary(facts)
  <2>1. /\ empty.resource = fact.resource /\ empty.operation = fact.operation
        /\ empty.before = Absent /\ empty.after = Absent /\ empty.changed = {}
    BY DEF EmptySummary
  <2>2. CommonRow(Absent, fact.before) = fact.before /\ CommonRow(Absent, fact.after) = fact.after
    <3>1. fact.before \in RowState /\ fact.after \in RowState
      BY DEF Exact, WriteFact
    <3> HIDE DEF fact
    <3> QED BY <3>1, Kinds DEF CommonRow, Absent
  <2>3. SummaryStep(empty, fact) =
           Trimmed([resource |-> empty.resource,
                    operation |-> IF empty.operation = fact.operation THEN fact.operation ELSE "unknown",
                    before |-> CommonRow(empty.before, fact.before),
                    after |-> CommonRow(empty.after, fact.after),
                    changed |-> CommonChanges(empty.changed, fact.changed)])
    <3> HIDE DEF empty, fact
    <3> QED BY Zenon DEF SummaryStep
  <2> HIDE DEF empty, fact
  <2>4. SummaryStep(empty, fact) = Trimmed(joined)
    BY <2>1, <2>2, <2>3
  <2> QED BY <2>4 DEF empty
<1>2. /\ fact \in WriteFact /\ fact.before \in RowState /\ fact.after \in RowState /\ Complete(fact)
      /\ fact.operation # "unknown" => /\ Backed(fact, fact.before, Befores(given))
                                       /\ Backed(fact, fact.after, Afters(given))
  BY DEF Exact, WriteFact
<1>3. changed \in {fact.changed, Null}
  BY DEF CommonChanges
<1>4. fact = [resource |-> fact.resource, operation |-> fact.operation, before |-> fact.before,
              after |-> fact.after, changed |-> fact.changed]
  BY <1>2 DEF WriteFact
<1>5. joined \in Exact(given)
  <2>1. CASE changed = fact.changed
    BY <1>4, <2>1
  <2>2. CASE changed = Null
    <3>1. joined \in WriteFact
      BY <1>2, <2>2 DEF WriteFact
    <3>2. /\ joined.resource = fact.resource /\ joined.operation = fact.operation
          /\ joined.changed = Null /\ joined.before = fact.before /\ joined.after = fact.after
      BY <2>2
    <3> HIDE DEF joined, fact
    <3>3. RowWider(fact.before, fact.before) /\ RowWider(fact.after, fact.after)
      BY <1>2, Kinds DEF RowWider
    <3>4. Complete(joined) /\ (Listed(fact) => fact.changed # {})
      BY <1>2, <3>2 DEF Complete, Listed
    <3>5. joined.operation # "unknown" => /\ Backed(joined, joined.before, Befores(given))
                                         /\ Backed(joined, joined.after, Afters(given))
      BY <1>2, <3>2, <3>3, <3>4, BackedLoosely
    <3> QED BY <3>1, <3>4, <3>5 DEF Exact
  <2> QED BY <1>3, <2>1, <2>2
<1> HIDE DEF joined
<1> QED BY <1>1, <1>5, TrimmedExact

LEMMA ExactIsClosed ==
    ASSUME NEW given
    PROVE  Closed(Exact(given))
<1> DEFINE kept == Exact(given)
<1> SUFFICES ASSUME NEW resource \in Resource, NEW facts \in Seq({f \in kept : f.resource = resource}),
                    facts # <<>>
             PROVE  Summarize(facts) \in kept
  BY DEF Closed
<1> DEFINE n == Len(facts)
<1>1. n \in Nat \ {0} /\ DOMAIN facts = 1 .. n
  OBVIOUS
<1>2. \A k \in 1 .. n : facts[k] \in kept /\ facts[k].resource = resource
  BY <1>1
<1>3. facts \in Seq(FactsFrom(RowState))
  <2>1. \A k \in 1 .. n : facts[k] \in FactsFrom(RowState)
    BY <1>2, WriteFactsSeen DEF Exact
  <2> QED BY <1>1, <2>1
<1>4. PICK g : /\ g[0] = EmptySummary(facts) /\ g[n] = Summarize(facts)
               /\ \A k \in 0 .. n : g[k] \in OfResource(RowState, resource)
               /\ \A k \in 1 .. n : g[k] = SummaryStep(g[k - 1], facts[k])
  BY <1>1, <1>2, <1>3, SummarizeFold
<1> HIDE DEF n, kept
<1> DEFINE T == {k \in 0 .. n : k # 0 => g[k] \in kept}
<1>5. 0 \in T
  BY <1>1
<1>6. ASSUME NEW k \in 0 .. n, k < n, k \in T PROVE k + 1 \in T
  <2>1. k + 1 \in 1 .. n /\ (k + 1) - 1 = k /\ k + 1 \in 0 .. n
    BY <1>1, <1>6
  <2>2. g[k + 1] = SummaryStep(g[k], facts[k + 1])
    BY <1>4, <2>1
  <2>3. CASE k = 0
    <3>1. g[k] = EmptySummary(facts) /\ k + 1 = 1
      BY <1>4, <2>3
    <3>2. facts[1] \in kept
      BY <1>2, <2>1, <3>1
    <3>3. g[k + 1] \in kept
      BY <2>2, <3>1, <3>2, FirstExact DEF kept
    <3> QED BY <2>1, <3>3
  <2>4. CASE k # 0
    <3>1. g[k] \in kept /\ g[k].resource = resource
      BY <1>4, <1>6, <2>4 DEF OfResource
    <3>2. facts[k + 1] \in kept /\ facts[k + 1].resource = resource
      BY <1>2, <2>1
    <3>3. g[k + 1] \in kept
      BY <2>2, <3>1, <3>2, StepExact DEF kept
    <3> QED BY <2>1, <3>3
  <2> QED BY <2>3, <2>4
<1>7. n \in T
  <2> HIDE DEF T
  <2>1. \A k \in 0 .. n : k \in T
    BY <1>1, <1>5, <1>6, SegmentInduction
  <2> QED BY <1>1, <2>1
<1> QED BY <1>1, <1>4, <1>7 DEF kept

-----------------------------------------------------------------------------
(* What an exact fact says of a read holds of a fact that was given. *)

\* An object has one value for a key.
LEMMA ValueIs ==
    ASSUME NEW object, IsObject(object), NEW pair \in object
    PROVE  Has(object, pair[1]) /\ ValueOf(object, pair[1]) = pair[2]
<1> DEFINE found == CHOOSE p \in object : p[1] = pair[1]
<1>1. found \in object /\ found[1] = pair[1]
  OBVIOUS
<1>2. ValueOf(object, pair[1]) = found[2]
  BY DEF ValueOf
<1> HIDE DEF found
<1>3. found = pair
  BY <1>1 DEF IsObject
<1> QED BY <1>2, <1>3 DEF Has

\* What FactsAreWhole says of facts that were given.
Whole(given) ==
    \A f \in given :
       /\ \A q \in {f.before, f.after} : q.kind = "known" => IsObject(q.fields) /\ IsObject(q.equality)
       /\ Complete(f)

\* The input is one of those an alternative selects.
Selects(alternative, input) ==
    \A pair \in alternative :
       Has(input, pair[1]) => ScalarMayEqual(ValueOf(input, pair[1]), pair[2])

\* An input that an alternative of the wider row matches is one of the row.
LEMMA MatchBelongs ==
    ASSUME NEW wide, wide.kind = "known", NEW row, row.kind = "known", RowWider(wide, row),
           IsObject(row.fields), IsObject(row.equality), NEW read, NEW scope,
           ~ScopeExcluded(wide, read, scope, Verified),
           \A filter \in read.filters : filter \in wide.equality,
           ~Incomplete(wide, read),
           NEW input, IsObject(input), Selects(Alternative(wide, read), input)
    PROVE  MayBelong(row, read, input, scope)
<1>1. wide.scope = row.scope /\ wide.fields \subseteq row.fields /\ wide.equality \subseteq row.equality
  BY DEF RowWider
<1>2. ScopeColumn[read.resource] # Null => row.scope = scope
  BY <1>1 DEF ScopeExcluded, Verified
<1>3. ASSUME NEW filter \in read.filters, NEW pair \in row.equality, pair[1] = filter[1]
      PROVE  FilterMayEqual(pair[2], filter[2])
  <2>1. pair = filter
    BY <1>1, <1>3 DEF IsObject
  <2> QED BY <2>1 DEF FilterMayEqual, ScalarMayEqual
<1>4. ASSUME NEW binding \in read.bindings, NEW pair \in row.fields, NEW arg \in input,
             pair[1] = binding[1], arg[1] = binding[2]
      PROVE  ScalarMayEqual(arg[2], pair[2])
  <2>1. Has(wide.fields, binding[1])
    BY DEF Incomplete
  <2>2. PICK other \in wide.fields : other[1] = binding[1]
    BY <2>1 DEF Has
  <2>3. other = pair
    BY <1>1, <1>4, <2>2 DEF IsObject
  <2>4. IsObject(wide.fields)
    BY <1>1 DEF IsObject
  <2>5. ValueOf(wide.fields, binding[1]) = pair[2]
    BY <2>2, <2>3, <2>4, ValueIs
  <2> DEFINE entry == <<binding[2], ValueOf(wide.fields, binding[1])>>
  <2>6. entry \in Bound(wide, read)
    BY <2>1 DEF Bound
  <2>7. Alternative(wide, read) = Bound(wide, read)
    BY DEF Alternative, Incomplete
  <2>8. entry[1] = arg[1] /\ entry[2] = pair[2]
    BY <1>4, <2>5
  <2> HIDE DEF entry
  <2>9. Has(input, entry[1]) /\ ValueOf(input, entry[1]) = arg[2]
    BY <2>8, ValueIs
  <2>10. ScalarMayEqual(ValueOf(input, entry[1]), entry[2])
    BY <2>6, <2>7, <2>9 DEF Selects
  <2> QED BY <2>8, <2>9, <2>10
<1> QED BY <1>2, <1>3, <1>4 DEF MayBelong

\* The facts of an exact write set certify nothing that no given fact says.
LEMMA ExactAffects ==
    ASSUME Null \notin Column, NEW given \in SUBSET WriteFact, Whole(given),
           NEW endpoint, NEW scope, NEW alternative, FromFact(Exact(given), endpoint, scope, alternative),
           NEW input, IsObject(input), Selects(alternative, input)
    PROVE  \E f \in given : \E read \in ToSet(ReadsOf(f.resource)) :
              /\ read.endpoint = endpoint
              /\ \E q \in {f.before, f.after} : RowMayAffect(f, q, read, input, scope)
<1>a. PICK fact \in Exact(given) : \E read \in ToSet(ReadsOf(fact.resource)) :
         /\ read.endpoint = endpoint
         /\ \E row \in {fact.before, fact.after} : Precise(fact, row, read, scope, alternative)
  BY DEF FromFact
<1>b. PICK read \in ToSet(ReadsOf(fact.resource)) :
         /\ read.endpoint = endpoint
         /\ \E row \in {fact.before, fact.after} : Precise(fact, row, read, scope, alternative)
  BY <1>a
<1>c. PICK row \in {fact.before, fact.after} : Precise(fact, row, read, scope, alternative)
  BY <1>b
<1>1. /\ fact \in WriteFact /\ row \in RowState
      /\ fact.operation # "unknown" => /\ Backed(fact, fact.before, Befores(given))
                                       /\ Backed(fact, fact.after, Afters(given))
  BY DEF Exact, WriteFact
<1>2. /\ row.kind = "known" /\ fact.operation # "unknown"
      /\ fact.operation = "update" /\ fact.changed = Null => read.columns = Star
      /\ \A filter \in read.filters : filter \in row.equality
      /\ ~ScopeExcluded(row, read, scope, Verified) /\ ~ColumnsUnchanged(fact, read)
      /\ ~Incomplete(row, read) /\ alternative = Alternative(row, read)
  BY <1>c, <1>1, Kinds DEF Precise, Uncertain
<1>3. PICK sides : /\ Backed(fact, row, sides)
                   /\ \A side \in sides : \E f \in given :
                         /\ side.resource = f.resource /\ side.operation = f.operation
                         /\ side.changed = f.changed /\ side.row \in {f.before, f.after}
  <2>1. \A side \in Befores(given) \cup Afters(given) : \E f \in given :
           /\ side.resource = f.resource /\ side.operation = f.operation
           /\ side.changed = f.changed /\ side.row \in {f.before, f.after}
    BY DEF Befores, Afters
  <2>2. CASE row = fact.before
    BY <1>1, <1>2, <2>1, <2>2
  <2>3. CASE row = fact.after
    BY <1>1, <1>2, <2>1, <2>3
  <2> QED BY <2>2, <2>3
<1>4. ScopeColumn[read.resource] \in Column \cup {Null} /\ fact.resource \in Resource
  <2>1. fact.resource \in Resource
    BY <1>1 DEF WriteFact
  <2>2. read.resource = fact.resource
    BY <2>1, ReadsIndexed
  <2> QED BY <2>1, <2>2, ContractsAssumption
<1>5. PICK side \in sides : /\ Backs(side, fact, row)
                            /\ side.operation = "update" /\ side.changed # Null
                                 => side.changed \cap ColumnsRead(read) # {}
  <2>1. CASE Listed(fact)
    <3>1. fact.operation = "update" /\ fact.changed # Null /\ fact.changed \subseteq Column
      BY <1>1, <2>1 DEF Listed, WriteFact
    <3>2. fact.changed \cap ColumnsRead(read) # {}
      <4>1. CASE ScopeColumn[read.resource] \in fact.changed
        <5>1. ScopeColumn[read.resource] # Null /\ ScopeColumn[read.resource] \in ColumnsRead(read)
          BY <1>4, <3>1, <4>1 DEF ColumnsRead
        <5> QED BY <4>1, <5>1
      <4>2. CASE ScopeColumn[read.resource] \notin fact.changed
        <5>1. CASE read.columns = Star
          BY <1>2, <3>1, <4>2, <5>1 DEF ColumnsUnchanged, ColumnsRead
        <5>2. CASE read.columns # Star
          <6>1. fact.changed \cap (read.columns \cup {f[1] : f \in read.filters}) # {}
            BY <1>2, <3>1, <4>2, <5>2 DEF ColumnsUnchanged
          <6>2. read.columns \cup {f[1] : f \in read.filters} \subseteq ColumnsRead(read)
            BY <5>2 DEF ColumnsRead
          <6> QED BY <6>1, <6>2
        <5> QED BY <5>1, <5>2
      <4> QED BY <4>1, <4>2
    <3>3. PICK column \in fact.changed : column \in ColumnsRead(read)
      BY <3>2
    <3>4. PICK side \in sides : Backs(side, fact, row) /\ side.changed # Null /\ column \in side.changed
      BY <1>2, <1>3, <2>1 DEF Backed
    <3> QED BY <3>3, <3>4
  <2>2. CASE ~Listed(fact)
    <3>1. PICK side \in sides : Backs(side, fact, row)
      BY <1>2, <1>3, <2>2 DEF Backed
    <3>2. ASSUME side.operation = "update", side.changed # Null
          PROVE  side.changed \cap ColumnsRead(read) # {}
      <4>1. fact.operation = "update" /\ fact.changed = Null
        BY <2>2, <3>1, <3>2 DEF Listed, Backs
      <4>2. ColumnsRead(read) = Column
        BY <1>2, <4>1 DEF ColumnsRead
      <4>3. PICK f \in given : side.operation = f.operation /\ side.changed = f.changed
        BY <1>3
      <4>4. f.changed # {} /\ f.changed \in SUBSET Column
        BY <3>2, <4>3 DEF Whole, Complete, Listed, WriteFact
      <4> QED BY <4>2, <4>3, <4>4
    <3> QED BY <3>1, <3>2
  <2> QED BY <2>1, <2>2
<1>6. PICK f \in given : /\ side.resource = f.resource /\ side.operation = f.operation
                         /\ side.changed = f.changed /\ side.row \in {f.before, f.after}
  BY <1>3
<1> DEFINE q == side.row
<1>7. q.kind = "known" /\ RowWider(row, q) /\ f.resource = fact.resource /\ q \in {f.before, f.after}
  BY <1>5, <1>6 DEF Backs
<1>8. IsObject(q.fields) /\ IsObject(q.equality)
  BY <1>7 DEF Whole
<1>9. ChangesRead(f, read)
  BY <1>5, <1>6 DEF ChangesRead
<1> HIDE DEF q
<1>10. MayBelong(q, read, input, scope)
  BY <1>2, <1>7, <1>8, MatchBelongs
<1>11. RowMayAffect(f, q, read, input, scope)
  BY <1>7, <1>9, <1>10 DEF RowMayAffect
<1> QED BY <1>b, <1>7, <1>11

-----------------------------------------------------------------------------
(* An open buffer claims no more than the facts it was given. *)

Within(writes, facts) == facts \in Seq(Fact) /\ AllIn(writes, Exact(ToSet(facts)))

\* The facts a buffer was given are whole.
LEMMA GivenAreWhole ==
    ASSUME NEW facts \in Seq(Fact)
    PROVE  /\ ToSet(facts) \in SUBSET WriteFact /\ ToSet(facts) \subseteq Fact
           /\ Whole(ToSet(facts)) /\ \A f \in ToSet(facts) : Complete(f)
<1>1. ToSet(facts) \subseteq Fact
  BY DEF ToSet
<1>2. Fact \subseteq WriteFact
  BY WriteBufferAssumption
<1>3. ASSUME NEW f \in Fact
      PROVE  /\ \A q \in {f.before, f.after} :
                   q.kind = "known" => IsObject(q.fields) /\ IsObject(q.equality)
             /\ Complete(f)
  BY FactsAreWhole DEF Complete, Listed
<1> QED BY <1>1, <1>2, <1>3 DEF Whole

LEMMA NothingWithin == Within(NoWrites, <<>>)
  BY DEF Within, AllIn, NoWrites

\* More was given: what the buffer holds is still backed.
LEMMA MoreGiven ==
    ASSUME NEW writes, NEW given, NEW more, given \subseteq more, AllIn(writes, Exact(given))
    PROVE  AllIn(writes, Exact(more))
<1>1. Exact(given) \subseteq Exact(more)
  BY ExactGrows
<1> QED BY <1>1 DEF AllIn

LEMMA AddExact ==
    ASSUME NEW writes \in WriteSets(RowState), NEW facts, Within(writes, facts), NEW fact \in Fact
    PROVE  Within(Add(writes, <<fact>>), Append(facts, fact))
<1> DEFINE all == Append(facts, fact)
           new == <<fact>>
           kept == Exact(ToSet(all))
<1>1. /\ facts \in Seq(Fact) /\ all \in Seq(Fact) /\ ToSet(facts) \subseteq ToSet(all)
      /\ fact \in ToSet(all)
  BY DEF ToSet, Within
<1>2. new \in Seq(Fact) /\ \A k \in DOMAIN new : new[k] = fact
  OBVIOUS
<1> HIDE DEF all, new
<1>3. AllIn(writes, kept)
  BY <1>1, MoreGiven DEF Within
<1>4. fact \in kept
  BY <1>1, GivenAreWhole, GivenIsExact
<1>5. Closed(kept)
  BY ExactIsClosed
<1>6. new \in Seq(WriteFact) /\ \A k \in DOMAIN new : new[k] \in kept
  BY <1>2, <1>4, WriteBufferAssumption
<1> HIDE DEF kept
<1>7. AllIn(Add(writes, new), kept)
  BY <1>3, <1>5, <1>6, AddWithin
<1> QED BY <1>1, <1>7 DEF Within, kept, all, new

LEMMA MergeExact ==
    ASSUME NEW writes \in WriteSets(RowState), NEW facts, Within(writes, facts),
           NEW child \in WriteSets(RowState), NEW given, Within(child, given)
    PROVE  Within(Merge(writes, child), facts \o given)
<1> DEFINE all == facts \o given
           new == Snapshot(child)
           kept == Exact(ToSet(all))
<1>0. facts \in Seq(Fact) /\ given \in Seq(Fact)
  BY DEF Within
<1>1. all \in Seq(Fact) /\ ToSet(facts) \subseteq ToSet(all) /\ ToSet(given) \subseteq ToSet(all)
  <2>1. /\ all \in Seq(Fact) /\ DOMAIN facts = 1 .. Len(facts) /\ DOMAIN given = 1 .. Len(given)
        /\ Len(facts) \in Nat /\ Len(given) \in Nat
        /\ \A m \in DOMAIN facts : m \in DOMAIN all /\ all[m] = facts[m]
        /\ \A m \in DOMAIN given : Len(facts) + m \in DOMAIN all /\ all[Len(facts) + m] = given[m]
    BY <1>0
  <2> HIDE DEF all
  <2> QED BY <2>1 DEF ToSet
<1> HIDE DEF all
<1>2. AllIn(writes, kept) /\ AllIn(child, kept)
  BY <1>1, MoreGiven DEF Within
<1>3. Closed(kept) /\ kept \subseteq WriteFact
  BY ExactIsClosed DEF Exact
<1> HIDE DEF kept
<1>4. new \in Seq(kept)
  BY <1>2, SnapshotWithin
<1> HIDE DEF new
<1>5. new \in Seq(WriteFact) /\ \A k \in DOMAIN new : new[k] \in kept
  BY <1>3, <1>4
<1>6. AllIn(Add(writes, new), kept)
  BY <1>2, <1>3, <1>5, AddWithin
<1> QED BY <1>1, <1>6 DEF Within, kept, all, new, Merge

\* Every open buffer claims only what the facts it was given say.
EInv == \A i \in 1 .. Len(buffers) : Within(buffers[i], accepted[i])

LEMMA ExactAtFirst ==
    ASSUME Init
    PROVE  EInv
<1>1. buffers = <<NoWrites>> /\ accepted = <<<<>>>>
  BY DEF Init
<1>2. Len(buffers) = 1 /\ buffers[1] = NoWrites /\ accepted[1] = <<>>
  BY <1>1
<1> QED BY <1>2, NothingWithin DEF EInv

\* One buffer and what it was given replaced, the others as before.
LEMMA ReplaceWithin ==
    ASSUME NEW bs \in Seq(WriteSets(RowState)), NEW hs \in Seq(Histories), Len(bs) = Len(hs),
           \A j \in 1 .. Len(bs) : Within(bs[j], hs[j]),
           NEW i \in 1 .. Len(bs), NEW writes, NEW facts, Within(writes, facts),
           NEW bt, Replaces(bt, bs, i, writes), NEW ht, Replaces(ht, hs, i, facts)
    PROVE  Len(bt) = Len(bs) /\ \A j \in 1 .. Len(bs) : Within(bt[j], ht[j])
<1>1. Len(bt) = Len(bs) /\ bt[i] = writes /\ \A j \in 1 .. Len(bs) : j # i => bt[j] = bs[j]
  BY DEF Replaces
<1>2. ht[i] = facts /\ \A j \in 1 .. Len(bs) : j # i => ht[j] = hs[j]
  BY DEF Replaces
<1> QED BY <1>1, <1>2

LEMMA StepIsExact ==
    ASSUME IInv, EInv, [Next]_vars
    PROVE  EInv'
<1>0. /\ buffers \in Seq(WriteSets(RowState)) /\ accepted \in Seq(Histories)
      /\ Len(buffers) = Len(accepted) /\ Len(buffers) \in Nat \ {0}
      /\ \A i \in 1 .. Len(buffers) : Within(buffers[i], accepted[i])
  BY WriteBufferAssumption DEF IInv, EInv
<1>a. \A i \in 1 .. Len(buffers) : buffers[i] \in WriteSets(RowState)
  BY <1>0
<1>1. ASSUME NEW fact \in Fact, AddObserved(fact) PROVE EInv'
  <2> DEFINE i == Len(buffers)
             writes == Add(buffers[i], <<fact>>)
             facts == Append(accepted[i], fact)
  <2>1. Replaces(buffers', buffers, i, writes) /\ Replaces(accepted', accepted, i, facts)
    BY <1>1 DEF AddObserved, Top, Replaces
  <2>2. i \in 1 .. Len(buffers)
    BY <1>0
  <2>3. Within(writes, facts)
    BY <1>0, <1>a, <2>2, AddExact
  <2> HIDE DEF writes, facts, i
  <2>4. Len(buffers') = Len(buffers) /\ \A j \in 1 .. Len(buffers) : Within(buffers'[j], accepted'[j])
    BY ONLY <1>0, <2>1, <2>2, <2>3, ReplaceWithin
  <2> QED BY <2>4 DEF EInv
<1>2. ASSUME OpenSavepoint PROVE EInv'
  <2>1. buffers' = Append(buffers, NoWrites) /\ accepted' = Append(accepted, <<>>)
    BY <1>2 DEF OpenSavepoint, Fork
  <2>2. /\ Len(buffers') = Len(buffers) + 1 /\ buffers'[Len(buffers) + 1] = NoWrites
        /\ \A j \in 1 .. Len(buffers) : buffers'[j] = buffers[j]
    BY <1>0, <2>1
  <2>3. /\ accepted'[Len(buffers) + 1] = <<>>
        /\ \A j \in 1 .. Len(buffers) : accepted'[j] = accepted[j]
    BY <1>0, <2>1
  <2>4. \A j \in 1 .. Len(buffers) + 1 : j = Len(buffers) + 1 \/ j \in 1 .. Len(buffers)
    BY <1>0
  <2>5. \A j \in 1 .. Len(buffers') : Within(buffers'[j], accepted'[j])
    BY <1>0, <2>2, <2>3, <2>4, NothingWithin
  <2> QED BY <2>5 DEF EInv
<1>3. ASSUME ReleaseSavepoint PROVE EInv'
  <2> DEFINE below == Front(buffers)
             given == Front(accepted)
             i == Top - 1
             writes == Merge(below[i], buffers[Top])
             facts == given[i] \o accepted[Top]
  <2>1. Top > 1 /\ Replaces(buffers', below, i, writes) /\ Replaces(accepted', given, i, facts)
    BY <1>3 DEF ReleaseSavepoint, Replaces
  <2>2. /\ below \in Seq(WriteSets(RowState)) /\ Len(below) = Top - 1
        /\ given \in Seq(Histories) /\ Len(given) = Top - 1
        /\ \A j \in 1 .. Top - 1 : below[j] = buffers[j] /\ given[j] = accepted[j]
        /\ Top \in Nat
    BY <2>1, FrontStands
  <2>3. /\ i \in 1 .. Len(below) /\ Top \in 1 .. Len(buffers) /\ Top = Len(buffers)
        /\ \A j \in 1 .. Len(below) : j \in 1 .. Len(buffers)
    BY <1>0, <2>1, <2>2 DEF Top
  <2> HIDE DEF below, given
  <2>4. \A j \in 1 .. Len(below) : Within(below[j], given[j])
    BY <1>0, <2>2, <2>3
  <2>5. Within(writes, facts)
    BY <1>0, <1>a, <2>2, <2>3, <2>4, MergeExact
  <2> HIDE DEF writes, facts, i
  <2>6. Len(buffers') = Len(below) /\ \A j \in 1 .. Len(below) : Within(buffers'[j], accepted'[j])
    <3>1. Len(below) = Len(given)
      BY <2>2
    <3> QED BY ONLY <2>1, <2>2, <2>3, <2>4, <2>5, <3>1, ReplaceWithin
  <2> QED BY <2>6 DEF EInv
<1>4. ASSUME RollbackSavepoint PROVE EInv'
  <2>1. Top > 1 /\ buffers' = Front(buffers) /\ accepted' = Front(accepted)
    BY <1>4 DEF RollbackSavepoint
  <2>2. /\ Len(buffers') = Top - 1 /\ Top \in Nat
        /\ \A j \in 1 .. Top - 1 : buffers'[j] = buffers[j] /\ accepted'[j] = accepted[j]
    BY <2>1, FrontStands
  <2>3. \A j \in 1 .. Top - 1 : j \in 1 .. Len(buffers)
    BY <2>2 DEF Top
  <2> QED BY <1>0, <2>2, <2>3 DEF EInv
<1>5. ASSUME Close PROVE EInv'
  BY <1>0, <1>5 DEF Close, EInv
<1>6. ASSUME UNCHANGED vars PROVE EInv'
  BY <1>0, <1>6 DEF vars, EInv
<1> QED BY <1>1, <1>2, <1>3, <1>4, <1>5, <1>6 DEF Next

\* No summary, merge or bound makes a write set say more than it was told: an
\* endpoint that is still verified is reported only for inputs that one of the
\* accepted facts may affect.
THEOREM VerifiedMeansExact == Spec => []VerifiedIsExact
<1>1. IInv /\ EInv => VerifiedIsExact
  <2> SUFFICES ASSUME IInv, EInv, NEW scope \in Scope, NEW e \in Endpoint, NEW input \in Input,
                      ImpactOf(Snapshot(buffers[Top]), scope)[e].status = "verified",
                      Reports(ImpactOf(Snapshot(buffers[Top]), scope), e, input)
               PROVE  MayAffect(accepted[Top], e, input, scope)
    BY DEF VerifiedIsExact
  <2> DEFINE writes == buffers[Top]
             facts == accepted[Top]
             kept == Exact(ToSet(facts))
             impact == CalculateImpact(Snapshot(writes), scope, Report)
  <2>1. writes \in WriteSets(RowState) /\ facts \in Seq(Fact) /\ AllIn(writes, kept)
    <3>1. Top \in 1 .. Len(buffers) /\ buffers \in Seq(WriteSets(RowState))
      BY WriteBufferAssumption DEF IInv, Top
    <3> HIDE DEF Top
    <3>2. Within(buffers[Top], accepted[Top])
      BY <3>1 DEF EInv
    <3> QED BY <3>1, <3>2 DEF Within
  <2>2. impact[e].status = "verified" /\ \E s \in Scopes : Matches(input, impact[e].targets[s])
    BY DEF ImpactOf, Reports
  <2> HIDE DEF writes, impact
  <2>3. kept \in SUBSET WriteFact
    BY DEF Exact
  <2> HIDE DEF kept
  <2>4. Snapshot(writes) \in Seq(kept)
    BY <2>1, SnapshotWithin
  <2>5. ImpactSourced(kept, scope, impact)
    <3> DEFINE all == Snapshot(writes)
    <3>1. all \in Seq(kept)
      BY <2>4
    <3> HIDE DEF all
    <3>2. ImpactSourced(kept, scope, CalculateImpact(all, scope, Report))
      BY <2>3, <3>1, ReportTyped, CalculationSources
    <3> QED BY <3>2 DEF all, impact
  <2>6. PICK s \in Scopes : Matches(input, impact[e].targets[s])
    BY <2>2
  <2>7. PICK alternative \in impact[e].targets[s] : Selects(alternative, input)
    BY <2>6 DEF Matches, Selects
  <2>8. FromFact(kept, e, scope, alternative)
    BY <2>2, <2>5, <2>7 DEF ImpactSourced, SourcedFrom
  <2> DEFINE given == ToSet(facts)
  <2>10. /\ Null \notin Column /\ IsObject(input) /\ given \in SUBSET WriteFact
         /\ Whole(given)
    BY <2>1, FactsAreWhole, GivenAreWhole
  <2>11. FromFact(Exact(given), e, scope, alternative)
    BY <2>8 DEF kept
  <2> HIDE DEF given, facts
  <2>12. PICK f \in given : \E read \in ToSet(ReadsOf(f.resource)) :
            /\ read.endpoint = e
            /\ \E q \in {f.before, f.after} : RowMayAffect(f, q, read, input, scope)
    BY <2>7, <2>10, <2>11, ExactAffects
  <2>13. PICK k \in DOMAIN facts : facts[k] = f
    BY DEF given, ToSet
  <2>14. MayAffect(facts, e, input, scope)
    BY <2>12, <2>13 DEF MayAffect
  <2> QED BY <2>14 DEF facts
<1>2. Init => IInv /\ EInv
  BY InitHolds, ExactAtFirst
<1>3. IInv /\ EInv /\ [Next]_vars => IInv' /\ EInv'
  BY StepHolds, StepIsExact
<1> QED BY <1>1, <1>2, <1>3, PTL DEF Spec
=============================================================================
