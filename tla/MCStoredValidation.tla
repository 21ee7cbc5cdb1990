------------------------- MODULE MCStoredValidation -------------------------
(***************************************************************************)
(* Two processes of one artifact.  a1 and a2 are calls on the first        *)
(* process, b1 and b2 on the second; o is an owner's refresh.              *)
(***************************************************************************)
EXTENDS StoredValidation, TLC

mcArtifactOf == ("a" :> "x") @@ ("b" :> "x")
mcAdapterOf ==
    ("a1" :> "a") @@ ("a2" :> "a") @@ ("b1" :> "b") @@ ("b2" :> "b") @@ ("o" :> "b")

mcRacing == {"a1", "a2", "o"}
mcRacingAdapterOf == [c \in mcRacing |-> mcAdapterOf[c]]
mcRacingKind ==
    ("a1" :> "command") @@ ("a2" :> "validate") @@ ("o" :> "refresh")
mcRacingOrder == [c \in mcRacing |-> {}]

\* A command of each process, and a second one of the process that started late.
mcLate == {"a1", "b1", "b2"}
mcLateAdapterOf == [c \in mcLate |-> mcAdapterOf[c]]
mcLateKind == [c \in mcLate |-> "command"]
mcLateOrder == [c \in mcLate |-> IF c = "b2" THEN {"b1"} ELSE {}]
=============================================================================
