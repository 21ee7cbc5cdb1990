----------------------------- MODULE Calculate -----------------------------
(***************************************************************************)
(* The pure impact calculator of sdi-core (calculate.ts, assessment.ts):   *)
(* from the write facts of a committed command, the manifest and the       *)
(* caller's scope to the endpoints and inputs whose answer may have        *)
(* changed.                                                                *)
(*                                                                         *)
(* Reads is the manifest flattened in the order indexReads visits it.      *)
(***************************************************************************)
EXTENDS Contracts, SequencesExt

CONSTANTS
    Reads,          \* the sequence of read dependencies
    SelectorLimit,  \* LIMITS.selectors
    ImpactBudget    \* LIMITS.impactBytes, beyond the fully widened envelope

ASSUME CalculateAssumption ==
    /\ Reads \in Seq(ReadDependency)
    /\ \A i \in DOMAIN Reads : IsFiniteSet(Reads[i].bindings)
    /\ SelectorLimit \in Nat \ {0}
    /\ ImpactBudget \in Nat

-----------------------------------------------------------------------------
(* One read dependency against one row of one fact. *)

\* indexReads: the reads of each resource, in the order of the manifest.
ReadIndex ==
    [resource \in Resource |->
        FoldLeft(LAMBDA kept, read : IF read.resource = resource THEN Append(kept, read) ELSE kept,
                 <<>>, Reads)]

ReadsOf(resource) == ReadIndex[resource]

TargetScope(resource) == IF ScopeColumn[resource] = Null THEN "global" ELSE "caller"

\* A conservative assessment forgets every narrowing the read declares.
Broadened(read, assessment) ==
    IF assessment.status = "conservative"
    THEN [endpoint |-> read.endpoint, resource |-> read.resource,
          columns |-> Star, bindings |-> {}, filters |-> {}]
    ELSE read

\* Fault: the scope of a known row is not compared.
MutantScopeExcluded(row, read, scope, assessment) == FALSE
ScopeExcluded(row, read, scope, assessment) ==
    /\ assessment.status # "conservative"
    /\ ScopeColumn[read.resource] # Null
    /\ row.kind = "known"
    /\ row.scope # scope

\* Fault: neither the scope column nor the filtered columns count as read.
MutantColumnsUnchanged(fact, read) ==
    /\ fact.operation = "update"
    /\ fact.changed # Null
    /\ read.columns # Star
    /\ fact.changed \cap read.columns = {}

ColumnsUnchanged(fact, read) ==
    /\ fact.operation = "update"
    /\ fact.changed # Null
    /\ ScopeColumn[read.resource] \notin fact.changed
    /\ IF read.columns = Star
       THEN fact.changed = {}
       ELSE fact.changed \cap (read.columns \cup {f[1] : f \in read.filters}) = {}

FilterExcluded(row, read) ==
    /\ row.kind = "known"
    /\ \E f \in read.filters :
          Has(row.equality, f[1]) /\ ~FilterMayEqual(ValueOf(row.equality, f[1]), f[2])

\* The fact does not certify that the row satisfied every filter.
Uncertain(fact, row, read) ==
    \/ row.kind = "unknown"
    \/ fact.operation = "unknown"
    \/ fact.operation = "update" /\ fact.changed = Null /\ read.columns # Star
    \/ \E f \in read.filters : f \notin row.equality

Bound(row, read) ==
    IF row.kind = "known"
    THEN {<<b[2], ValueOf(row.fields, b[1])>> : b \in {c \in read.bindings : Has(row.fields, c[1])}}
    ELSE {}

\* Contradictory bindings cannot be one conjunction: the alternative is empty.
Alternative(row, read) == IF IsObject(Bound(row, read)) THEN Bound(row, read) ELSE {}

\* Fault: a binding column missing from the fields goes unnoticed.
MutantIncomplete(row, read) == row.kind = "unknown"
Incomplete(row, read) ==
    \/ row.kind = "unknown"
    \/ \E b \in read.bindings : ~Has(row.fields, b[1])
    \/ ~IsObject(Bound(row, read))

-----------------------------------------------------------------------------
(* The alternatives of one target. *)

Subsumes(broad, narrow) == broad \subseteq narrow

CommonConstraints(alternatives) ==
    {pair \in UNION alternatives : \A a \in alternatives : pair \in a}

Covered(alternatives, alternative) ==
    \E a \in alternatives : Subsumes(a, alternative)

\* Adding an alternative drops those it covers, and widens past the limit to
\* the constraints every alternative shares ({{}}, that is 'all', when none).
Extended(alternatives, alternative) ==
    {a \in alternatives : ~Subsumes(alternative, a)} \cup {alternative}

Overflows(alternatives, alternative) ==
    /\ ~Covered(alternatives, alternative)
    /\ Cardinality(Extended(alternatives, alternative)) > SelectorLimit

AddAlternative(alternatives, alternative) ==
    IF Covered(alternatives, alternative) THEN alternatives
    ELSE IF Overflows(alternatives, alternative)
         THEN {CommonConstraints(Extended(alternatives, alternative))}
         ELSE Extended(alternatives, alternative)

-----------------------------------------------------------------------------
(* The accumulation over facts, their two rows and the reads of each. *)

NoTargets == [target \in Endpoint \X Scopes |-> {}]

\* What one row of a fact adds through one read.
Contribute(acc, fact, row, declared, scope, report) ==
    LET assessment == report[declared.endpoint]
        read == Broadened(declared, assessment)
        target == <<read.endpoint, TargetScope(read.resource)>>
        alternative == Alternative(row, read)
        lossy == \/ Uncertain(fact, row, read)
                 \/ Incomplete(row, read)
                 \/ Overflows(acc.targets[target], alternative)
    IN IF \/ assessment.status = "unavailable"
          \/ ScopeExcluded(row, read, scope, assessment)
          \/ ColumnsUnchanged(fact, read)
          \/ FilterExcluded(row, read)
       THEN acc
       ELSE [targets |-> [acc.targets EXCEPT ![target] = AddAlternative(@, alternative)],
             reduced |-> acc.reduced \cup (IF lossy THEN {read.endpoint} ELSE {})]

ContributeRow(acc, fact, row, scope, report) ==
    IF row.kind = "absent" THEN acc
    ELSE FoldLeft(LAMBDA a, read : Contribute(a, fact, row, read, scope, report),
                  acc, ReadsOf(fact.resource))

ContributeFact(acc, fact, scope, report) ==
    ContributeRow(ContributeRow(acc, fact, fact.before, scope, report),
                  fact, fact.after, scope, report)

Accumulate(facts, scope, report) ==
    FoldLeft(LAMBDA acc, fact : ContributeFact(acc, fact, scope, report),
             [targets |-> NoTargets, reduced |-> {}], facts)

-----------------------------------------------------------------------------
(* The impact set and its wire budget. *)

\* Encoded size of a target over the 'all' selector it may widen to.
TargetSize(alternatives) ==
    IF alternatives \in {{}, All} THEN 0
    ELSE 1 + MapThenSumSet(LAMBDA a : 1 + Cardinality(a), alternatives)

ImpactSize(impact) ==
    MapThenSumSet(LAMBDA t : TargetSize(impact[t[1]].targets[t[2]]), Endpoint \X Scopes)

LargestTarget(impact) ==
    CHOOSE t \in Endpoint \X Scopes :
        \A u \in Endpoint \X Scopes :
            TargetSize(impact[t[1]].targets[t[2]]) >= TargetSize(impact[u[1]].targets[u[2]])

WidenLargest(impact) ==
    LET t == LargestTarget(impact)
        endpoint == impact[t[1]]
    IN [impact EXCEPT ![t[1]] =
          [status |-> "conservative",
           codes |-> endpoint.codes \cup {"PRECISION_REDUCED"},
           targets |-> [endpoint.targets EXCEPT ![t[2]] = All]]]

\* The targets whose selector still constrains an input.
Constraining(impact) ==
    {t \in Endpoint \X Scopes : TargetSize(impact[t[1]].targets[t[2]]) > 0}

\* One of them at a time, and only while the response is over budget.
BoundImpact(impact) ==
    FoldLeft(LAMBDA i, n : IF ImpactSize(i) > ImpactBudget THEN WidenLargest(i) ELSE i,
             impact, [n \in 1 .. Cardinality(Constraining(impact)) |-> n])

NoScopeTargets == [s \in Scopes |-> {}]

ApplyAssessment(impact, report) ==
    BoundImpact([e \in Endpoint |->
        LET assessment == MergeAssessment(Assessed(impact[e].status, impact[e].codes), report[e])
        IN [status |-> assessment.status, codes |-> assessment.codes,
            targets |-> IF assessment.status = "unavailable"
                        THEN NoScopeTargets ELSE impact[e].targets]])

UnavailableImpact(code) ==
    [e \in Endpoint |-> [status |-> "unavailable", codes |-> {code}, targets |-> NoScopeTargets]]

CalculateImpact(facts, scope, report) ==
    LET acc == Accumulate(facts, scope, report)
        calculated(e) ==
            [status |-> IF e \in acc.reduced THEN "conservative" ELSE "verified",
             codes |-> IF e \in acc.reduced THEN {"PRECISION_REDUCED"} ELSE {},
             targets |-> [s \in Scopes |-> acc.targets[<<e, s>>]]]
    IN ApplyAssessment([e \in Endpoint |-> calculated(e)], report)

\* The impact tells a caller that the endpoint's answer to this input may be stale.
Reports(impact, endpoint, input) ==
    \/ impact[endpoint].status = "unavailable"
    \/ \E s \in Scopes : Matches(input, impact[endpoint].targets[s])

-----------------------------------------------------------------------------
(* The reference the calculator is compared with: what the rules of        *)
(* semantics.md say of a fact, without alternatives, limits or summaries.  *)

\* Nothing known of the row keeps it out of the answer of the read.
MayBelong(row, read, input, scope) ==
    row.kind = "known" =>
       /\ ScopeColumn[read.resource] # Null => row.scope = scope
       /\ \A f \in read.filters : \A pair \in row.equality :
             pair[1] = f[1] => FilterMayEqual(pair[2], f[2])
       /\ \A b \in read.bindings : \A pair \in row.fields : \A arg \in input :
             pair[1] = b[1] /\ arg[1] = b[2] => ScalarMayEqual(arg[2], pair[2])

\* The columns whose values the read's answer may show or depend on.
ColumnsRead(read) ==
    IF read.columns = Star THEN Column
    ELSE read.columns \cup {f[1] : f \in read.filters} \cup ({ScopeColumn[read.resource]} \ {Null})

\* Only an update that says what it changed may have left those columns alone.
ChangesRead(fact, read) ==
    fact.operation = "update" /\ fact.changed # Null => fact.changed \cap ColumnsRead(read) # {}

RowMayAffect(fact, row, read, input, scope) ==
    /\ row.kind # "absent"
    /\ ChangesRead(fact, read)
    /\ MayBelong(row, read, input, scope)

MayAffect(facts, endpoint, input, scope) ==
    \E i \in DOMAIN facts : \E read \in ToSet(ReadsOf(facts[i].resource)) :
        /\ read.endpoint = endpoint
        /\ \E row \in {facts[i].before, facts[i].after} :
              RowMayAffect(facts[i], row, read, input, scope)
=============================================================================
