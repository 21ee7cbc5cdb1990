----------------------------- MODULE Contracts -----------------------------
(***************************************************************************)
(* The vocabulary of sdi-core: scalars, row states, write facts, read      *)
(* dependencies, selectors and assessments (contracts.ts, assessment.ts).  *)
(*                                                                         *)
(* A JSON object with scalar members (a row's fields, a selector's input)  *)
(* is the set of its <<key, value>> pairs.  With that reading a broader    *)
(* conjunction is a SUBSET of a narrower one, and the constraints common   *)
(* to two conjunctions are their intersection.                             *)
(***************************************************************************)
EXTENDS Naturals, Sequences, FiniteSets

CONSTANTS
    Resource,       \* registered resource ids
    Endpoint,       \* registered query endpoints
    Column,         \* column names of all the resources
    InputName,      \* names of the endpoints' input fields
    Scalar,         \* JSON scalars, Null among them
    Null,           \* JSON null; also "none" for an optional member
    Star,           \* the columns '*' of a read dependency
    Alike,          \* {x, y}: distinct scalars scalarMayEqual identifies
    Inexact,        \* numbers that are not safe integers
    TypeOf,         \* typeof of each scalar
    ScopeColumn     \* each resource's scope column, or Null

Scopes == {"caller", "global"}
Operations == {"insert", "update", "delete", "unknown"}

ASSUME ContractsAssumption ==
    /\ IsFiniteSet(Resource) /\ IsFiniteSet(Endpoint)
    /\ Null \in Scalar
    /\ Inexact \subseteq Scalar
    /\ ScopeColumn \in [Resource -> Column \cup {Null}]

-----------------------------------------------------------------------------
(* Objects as sets of pairs. *)

Has(object, key) == \E pair \in object : pair[1] = key
ValueOf(object, key) == (CHOOSE pair \in object : pair[1] = key)[2]
Restricted(object, keys) == {pair \in object : pair[1] \in keys}
IsObject(object) ==
    \A p, r \in object : p[1] = r[1] => p = r

Absent == [kind |-> "absent"]
UnknownRow == [kind |-> "unknown"]
KnownRow(scope, fields, equality) ==
    [kind |-> "known", scope |-> scope, fields |-> fields, equality |-> equality]

\* fields are the captured columns, equality those certified for filters.
RowState ==
    {Absent, UnknownRow}
      \cup [kind : {"known"}, scope : Scalar,
            fields : SUBSET (Column \X Scalar), equality : SUBSET (Column \X Scalar)]

WriteFact ==
    [resource : Resource, operation : Operations, before : RowState, after : RowState,
     changed : {Null} \cup SUBSET Column]

ReadDependency ==
    [endpoint : Endpoint, resource : Resource, columns : {Star} \cup SUBSET Column,
     bindings : SUBSET (Column \X InputName), filters : SUBSET (Column \X Scalar)]

\* The fact a collector leaves for a resource whose detail it dropped.
BroadFact(resource) ==
    [resource |-> resource, operation |-> "unknown",
     before |-> UnknownRow, after |-> UnknownRow, changed |-> Null]

-----------------------------------------------------------------------------
(* Scalar comparison. *)

ScalarMayEqual(actual, expected) ==
    \/ actual = expected
    \/ Null \notin {actual, expected} /\ {actual, expected} \in Alike

\* An inequality is proved only for two exact scalars of one type.
FilterMayEqual(actual, expected) ==
    IF Null \in {actual, expected} THEN actual = expected
    ELSE \/ TypeOf[actual] # TypeOf[expected]
         \/ {actual, expected} \cap Inexact # {}
         \/ ScalarMayEqual(actual, expected)

\* A selector is a set of alternatives, {{}} is the selector 'all'.
All == {{}}
Matches(input, alternatives) ==
    \E alternative \in alternatives :
        \A pair \in alternative :
            Has(input, pair[1]) => ScalarMayEqual(ValueOf(input, pair[1]), pair[2])

-----------------------------------------------------------------------------
(* Assessments. *)

Verified == [status |-> "verified", codes |-> {}]
Assessed(status, codes) == [status |-> status, codes |-> codes]

MergeAssessment(left, right) ==
    LET statuses == {left.status, right.status}
        status == CHOOSE s \in statuses :
                    \/ s = "unavailable"
                    \/ s = "conservative" /\ "unavailable" \notin statuses
                    \/ statuses = {"verified"}
    IN Assessed(status, left.codes \cup right.codes)
=============================================================================
