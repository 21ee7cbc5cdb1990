------------------------------ MODULE WriteSet ------------------------------
(***************************************************************************)
(* The transaction-owned buffer of write facts (write-set.ts): detail is   *)
(* kept per resource until the shared budget is exceeded, then a resource  *)
(* is replaced by one summary that keeps what its facts had in common.     *)
(*                                                                         *)
(* A write set is the sequence of its entries in insertion order, each     *)
(* [resource, facts, summarized].                                          *)
(***************************************************************************)
EXTENDS Contracts, SequencesExt

CONSTANTS
    MaxFacts,       \* LIMITS.facts
    MaxFactSize,    \* LIMITS.factBytes
    SummarySize     \* SUMMARY_BYTES

\* Every resource may be summarized at once and still fit.
ASSUME WriteSetAssumption ==
    /\ {MaxFacts, MaxFactSize, SummarySize} \subseteq Nat
    /\ Cardinality(Resource) <= MaxFacts
    /\ Cardinality(Resource) * (SummarySize + 1) < MaxFactSize
    /\ SummarySize >= 3

-----------------------------------------------------------------------------
(* Sizes stand for encoded byte lengths: one unit per retained value. *)

RowSize(row) ==
    CASE row.kind = "absent" -> 0
      [] row.kind = "unknown" -> 1
      [] row.kind = "known" -> 2 + Cardinality(row.fields) + Cardinality(row.equality)

FactSize(fact) ==
    1 + RowSize(fact.before) + RowSize(fact.after)
      + IF fact.changed = Null THEN 0 ELSE Cardinality(fact.changed)

FactsSize(facts) == FoldLeft(LAMBDA n, fact : n + FactSize(fact), 0, facts)

-----------------------------------------------------------------------------
(* Summaries. *)

\* Fault: rows of two scopes are summarized under the first.
MutantCommonRow(left, right) ==
    IF left.kind = "known" /\ right.kind = "known"
    THEN KnownRow(left.scope, left.fields \cap right.fields, left.equality \cap right.equality)
    ELSE IF left.kind = "absent" THEN right ELSE IF right.kind = "absent" THEN left ELSE UnknownRow

CommonRow(left, right) ==
    CASE left.kind = "absent" -> right
      [] right.kind = "absent" -> left
      [] OTHER ->
           IF left.kind = "known" /\ right.kind = "known" /\ left.scope = right.scope
           THEN KnownRow(left.scope, left.fields \cap right.fields, left.equality \cap right.equality)
           ELSE UnknownRow

CommonChanges(left, right) ==
    IF Null \in {left, right} THEN Null ELSE left \cup right

WithoutFields(row) == IF row.kind = "known" THEN KnownRow(row.scope, {}, {}) ELSE row
WithoutScope(row) == IF row.kind = "known" THEN UnknownRow ELSE row

\* Losing a constraint is conservative: first the fields, then the scopes.
Trimmed(summary) ==
    LET broader(before, after) ==
            [resource |-> summary.resource, operation |-> summary.operation,
             before |-> before, after |-> after, changed |-> Null]
        bare == broader(WithoutFields(summary.before), WithoutFields(summary.after))
    IN IF FactSize(summary) <= SummarySize THEN summary
       ELSE IF FactSize(bare) <= SummarySize THEN bare
       ELSE broader(WithoutScope(bare.before), WithoutScope(bare.after))

SummaryStep(summary, fact) ==
    Trimmed([resource |-> summary.resource,
             operation |-> IF summary.operation = fact.operation THEN fact.operation ELSE "unknown",
             before |-> CommonRow(summary.before, fact.before),
             after |-> CommonRow(summary.after, fact.after),
             changed |-> CommonChanges(summary.changed, fact.changed)])

Summarize(facts) ==
    FoldLeft(SummaryStep,
             [resource |-> facts[1].resource, operation |-> facts[1].operation,
              before |-> Absent, after |-> Absent, changed |-> {}],
             facts)

-----------------------------------------------------------------------------
(* The buffer. *)

NoWrites == <<>>

OverBudget(writes) ==
    LET count == FoldLeft(LAMBDA n, e : n + Len(e.facts), 0, writes)
        size == FoldLeft(LAMBDA n, e : n + FactsSize(e.facts), 0, writes)
    IN count > MaxFacts \/ size + count + 1 > MaxFactSize

\* Fault: the detail is kept with the summary flag.
MutantCompact(entry) == [entry EXCEPT !.summarized = TRUE]
Compact(entry) ==
    [resource |-> entry.resource, facts |-> <<Summarize(entry.facts)>>, summarized |-> TRUE]

EntryOf(writes, resource) == CHOOSE i \in DOMAIN writes : writes[i].resource = resource

\* Fault: a summarized entry keeps only the newest fact.
MutantPush(writes, fact) ==
    IF \A i \in DOMAIN writes : writes[i].resource # fact.resource
    THEN Append(writes, [resource |-> fact.resource, facts |-> <<fact>>, summarized |-> FALSE])
    ELSE [writes EXCEPT ![EntryOf(writes, fact.resource)].facts =
             IF writes[EntryOf(writes, fact.resource)].summarized THEN <<fact>> ELSE Append(@, fact)]

\* The new fact goes to its resource's entry; a summarized entry stays one fact.
Push(writes, fact) ==
    IF \A i \in DOMAIN writes : writes[i].resource # fact.resource
    THEN Append(writes, [resource |-> fact.resource, facts |-> <<fact>>, summarized |-> FALSE])
    ELSE [writes EXCEPT ![EntryOf(writes, fact.resource)].facts =
             IF writes[EntryOf(writes, fact.resource)].summarized
             THEN <<Summarize(Append(@, fact))>> ELSE Append(@, fact)]

\* Over budget, the resource being added is compacted first ...
CompactOwn(writes, resource) ==
    LET i == EntryOf(writes, resource)
        own == writes[i]
    IN IF /\ OverBudget(writes)
          /\ ~own.summarized
          /\ Len(own.facts) > 1 \/ FactsSize(own.facts) > SummarySize
       THEN [writes EXCEPT ![i] = Compact(@)]
       ELSE writes

\* ... then the largest detailed resource, as often as the budget requires.
Detailed(writes) == {i \in DOMAIN writes : ~writes[i].summarized}

CompactLargest(writes) ==
    LET largest == CHOOSE i \in Detailed(writes) :
                      \A j \in Detailed(writes) : FactsSize(writes[i].facts) >= FactsSize(writes[j].facts)
    IN [writes EXCEPT ![largest] = Compact(@)]

Reclaim(writes) ==
    FoldLeft(LAMBDA w, n : IF OverBudget(w) /\ Detailed(w) # {} THEN CompactLargest(w) ELSE w,
             writes, [n \in 1 .. Len(writes) |-> n])

AddFact(writes, fact) == Reclaim(CompactOwn(Push(writes, fact), fact.resource))

Add(writes, facts) == FoldLeft(AddFact, writes, facts)

Snapshot(writes) == FlattenSeq([i \in DOMAIN writes |-> writes[i].facts])

\* A savepoint's buffer starts empty and is added to its parent on release.
Fork(writes) == NoWrites
Merge(writes, child) == Add(writes, Snapshot(child))
=============================================================================
