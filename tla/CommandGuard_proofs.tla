------------------------- MODULE CommandGuard_proofs -------------------------
(***************************************************************************)
(* What TLAPS proves of CommandGuard for any number of calls and of        *)
(* requests to their iterators.  The invariant is the shape of the tree of *)
(* scopes: a scope that has not settled has an unsettled savepoint in the  *)
(* scope around it, which admits nothing else, so that the scopes that     *)
(* have not settled form one path; and pending is the number of the calls  *)
(* of its scope that have not been counted down.                           *)
(***************************************************************************)
EXTENDS CommandGuard, FiniteSetTheorems, SequenceTheorems, TLAPS

Live == {s \in Scope : guard[s].stage \in {"callback", "settling", "returning"}}

Going(c) == c.kind # "none" /\ c.state \notin Ended
Open(i) == Going(call[i])

KindOfState(kind, state) ==
    \/ kind = "none" /\ state = "unused"
    \/ kind = "operation" /\ state \in {"running", "succeeded", "failed"}
    \/ kind = "savepoint" /\ state \in {"starting", "inside", "releasing", "undoing", "succeeded", "failed"}
    \/ kind = "stream" /\ state \in {"fresh", "idle", "resumed", "leaving",
                                     "succeeded", "failed", "dropped", "uncleaned"}

Request == {"next", "return", "throw", "settle"}

CallRecord == [kind : {"none", "operation", "stream", "savepoint"}, scope : Scope,
               state : OnConnection \cup Ended \cup {"unused", "fresh", "idle", "leaving", "inside"},
               done : BOOLEAN, requests : Seq(Request)]

GuardRecord == [open : BOOLEAN, pending : 0..MaxCalls, savepoint : BOOLEAN, failed : BOOLEAN,
                passed : BOOLEAN, stage : {"none", "callback", "settling", "returning", "settled"}]

Types ==
    /\ issued \in 0..MaxCalls
    /\ call \in [Call -> CallRecord]
    /\ guard \in [Scope -> GuardRecord]

\* settle waits for the answer to its own request.
HasSettle(requests) == \E n \in DOMAIN requests : requests[n] = "settle"

\* What a call is in a scope at that stage.  It is made while the scope runs its
\* callback; an operation or a savepoint ends before that scope's streams are
\* returned, and a stream before the scope settles.  Only a stream that settle
\* itself ended is left uncounted.
Fits(c, stage, failed) ==
    /\ KindOfState(c.kind, c.state)
    /\ c.kind # "none" => stage # "none"
    /\ Going(c) => /\ stage \in {"callback", "settling", "returning"} /\ ~c.done
                   /\ stage = "returning" => c.kind = "stream" /\ HasSettle(c.requests)
    /\ c.kind # "none" /\ ~Going(c) /\ ~c.done => stage \in {"returning", "settled"}
    /\ c.kind # "stream" => c.requests = <<>>
    /\ c.state \in {"resumed", "leaving"} => c.requests # <<>>
    /\ HasSettle(c.requests) => stage \in {"returning", "settled"}
    /\ c.state = "failed" /\ c.kind # "savepoint" => failed

CallFits(i) ==
    /\ issued < i => call[i].kind = "none"
    /\ Fits(call[i], guard[call[i].scope].stage, guard[call[i].scope].failed)

\* A savepoint is the only unsettled call of the scope around it, and its own
\* scope lives while its callback does.
ScopeOf(i) ==
    /\ Open(i) /\ call[i].kind = "savepoint" =>
          guard[call[i].scope].savepoint /\ Unsettled(call[i].scope) = {i}
    /\ i \in Live <=> call[i].state = "inside"
    /\ guard[i].stage # "none" => call[i].kind = "savepoint" /\ call[i].state # "starting"

Uncounted(s) == {i \in Call : call[i].scope = s /\ call[i].kind # "none" /\ ~call[i].done}

GuardFits(s) ==
    /\ guard[s].open => guard[s].stage = "callback"
    /\ guard[s].pending = Cardinality(Uncounted(s))
    /\ guard[s].passed =>
          /\ guard[s].stage \notin {"none", "callback"}
          /\ \A i \in Operations(s) \cup Streams(s) :
                call[i].state \in Ended /\ (call[i].state = "failed" => call[i].kind = "savepoint")

\* The scopes that have not settled form one path: only one has none inside it.
Leaf(s) == s \in Live /\ \A d \in Call \cap Live : call[d].scope # s
OnePath == \A s, t \in Scope : Leaf(s) /\ Leaf(t) => s = t

Inv ==
    /\ Types
    /\ \A i \in Call : CallFits(i) /\ ScopeOf(i)
    /\ \A s \in Scope : GuardFits(s)
    /\ OnePath

-----------------------------------------------------------------------------
(* The queue of an iterator. *)

\* A request joins the queue of a generator.
LEMMA AppendHas ==
    ASSUME NEW q \in Seq(Request), NEW r \in Request
    PROVE  /\ Append(q, r) \in Seq(Request) /\ Append(q, r) # <<>>
           /\ HasSettle(Append(q, r)) <=> HasSettle(q) \/ r = "settle"
<1>1. /\ Append(q, r) \in Seq(Request) /\ Append(q, r) # <<>>
      /\ Len(Append(q, r)) = Len(q) + 1
      /\ \A n \in 1 .. Len(q) : Append(q, r)[n] = q[n]
      /\ Append(q, r)[Len(q) + 1] = r
  BY AppendProperties
<1>2. /\ Len(q) \in Nat /\ DOMAIN q = 1 .. Len(q)
      /\ DOMAIN Append(q, r) = 1 .. Len(q) + 1
  BY <1>1, LenProperties
<1>3. 1 .. Len(q) + 1 = (1 .. Len(q)) \cup {Len(q) + 1}
  BY <1>2
<1> QED BY <1>1, <1>2, <1>3 DEF HasSettle

\* The request at the head of the queue is answered.
LEMMA TailHas ==
    ASSUME NEW q \in Seq(Request), q # <<>>
    PROVE  /\ Head(q) \in Request /\ Tail(q) \in Seq(Request)
           /\ HasSettle(q) <=> Head(q) = "settle" \/ HasSettle(Tail(q))
           /\ Len(q) # 1 => Tail(q) # <<>>
<1>0. /\ Head(q) \in Request /\ Tail(q) \in Seq(Request)
      /\ Len(Tail(q)) = Len(q) - 1
      /\ \A n \in 1 .. Len(Tail(q)) : Tail(q)[n] = q[n + 1]
  BY HeadTailProperties
<1>1. /\ Head(q) \in Request /\ Head(q) = q[1] /\ Tail(q) \in Seq(Request)
      /\ Len(Tail(q)) = Len(q) - 1
      /\ \A n \in 1 .. Len(q) - 1 : Tail(q)[n] = q[n + 1]
  <2>1. Head(q) = q[1]
    OBVIOUS
  <2> QED BY <1>0, <2>1
<1>2. /\ Len(q) \in Nat /\ Len(q) # 0 /\ DOMAIN q = 1 .. Len(q)
      /\ DOMAIN Tail(q) = 1 .. Len(q) - 1
  BY <1>1, LenProperties, EmptySeq
<1>3. ASSUME NEW n \in 1 .. Len(q), n # 1 PROVE n - 1 \in 1 .. Len(q) - 1 /\ q[n] = Tail(q)[n - 1]
  BY <1>1, <1>2, <1>3
<1>4. \A n \in 1 .. Len(q) - 1 : n + 1 \in 1 .. Len(q)
  BY <1>2
<1>5. HasSettle(q) => Head(q) = "settle" \/ HasSettle(Tail(q))
  <2>1. ASSUME NEW n \in 1 .. Len(q), q[n] = "settle" PROVE Head(q) = "settle" \/ HasSettle(Tail(q))
    BY <1>1, <1>2, <1>3, <2>1 DEF HasSettle
  <2> QED BY <1>2, <2>1 DEF HasSettle
<1>6. HasSettle(Tail(q)) => HasSettle(q)
  BY <1>1, <1>2, <1>4 DEF HasSettle
<1>7. Head(q) = "settle" => HasSettle(q)
  BY <1>1, <1>2 DEF HasSettle
<1>8. Len(q) # 1 => Tail(q) # <<>>
  <2>1. Tail(q) = <<>> => Len(Tail(q)) = 0
    BY EmptySeq
  <2> QED BY <1>1, <1>2, <2>1
<1> QED BY <1>1, <1>5, <1>6, <1>7, <1>8

-----------------------------------------------------------------------------
(* Calls that have not settled. *)

\* There are finitely many calls.
LEMMA FiniteCalls == IsFiniteSet(Call) /\ Cardinality(Call) = MaxCalls /\ Call \subseteq Scope /\ Root \in Scope
<1>1. MaxCalls \in Int /\ 1 \in Int
  BY GuardAssumption
<1>2. IsFiniteSet(1 .. MaxCalls) /\ Cardinality(1 .. MaxCalls) = MaxCalls
  BY <1>1, FS_Interval, GuardAssumption
<1> QED BY <1>2 DEF Call, Scope

\* No set of calls is larger than that.
LEMMA CallsBound ==
    ASSUME NEW T \in SUBSET Call
    PROVE  IsFiniteSet(T) /\ Cardinality(T) \in Nat /\ Cardinality(T) <= MaxCalls
<1>1. IsFiniteSet(T) /\ Cardinality(T) <= Cardinality(Call)
  BY FiniteCalls, FS_Subset
<1> QED BY <1>1, FiniteCalls, FS_CardinalityType

\* What is unsettled in a scope before and after a step, by the definition of its calls.
LEMMA UnsettledIs ==
    ASSUME Types
    PROVE  \A s : Unsettled(s) = {i \in Call : call[i].scope = s /\ Open(i)}
<1>1. \A i \in Call : call[i].kind \in {"none", "operation", "stream", "savepoint"}
  BY DEF Types, CallRecord, GuardRecord
<1> QED BY <1>1 DEF Unsettled, Operations, Streams, Open, Going

LEMMA UnsettledNext ==
    ASSUME Types'
    PROVE  \A s : Unsettled(s)' = {i \in Call : call'[i].scope = s /\ Open(i)'}
<1>1. \A i \in Call : call'[i].kind \in {"none", "operation", "stream", "savepoint"}
  BY DEF Types, CallRecord, GuardRecord
<1> QED BY <1>1 DEF Unsettled, Operations, Streams, Open, Going

\* Until settle returns the streams, what has not been counted down is unsettled.
LEMMA UncountedIs ==
    ASSUME Inv, NEW s \in Scope, guard[s].stage \in {"none", "callback", "settling"}
    PROVE  Uncounted(s) = Unsettled(s)
<1>1. \A i \in Call : CallFits(i)
  BY DEF Inv
<1>2. Unsettled(s) = {i \in Call : call[i].scope = s /\ Open(i)}
  BY UnsettledIs DEF Inv
<1>3. ASSUME NEW i \in Call, call[i].scope = s
      PROVE  Open(i) <=> call[i].kind # "none" /\ ~call[i].done
  BY <1>1, <1>3 DEF CallFits, Fits, Open, Going
<1> QED BY <1>2, <1>3 DEF Uncounted

\* The path is kept by a step that changes no living scope and none's parent.
LEMMA PathKept ==
    ASSUME OnePath, Live' = Live, \A d \in Call \cap Live : call'[d].scope = call[d].scope
    PROVE  OnePath'
  BY DEF OnePath, Leaf

\* The stages of the scopes are what lives.
LEMMA LiveKept ==
    ASSUME \A s \in Scope : guard'[s].stage = guard[s].stage
    PROVE  Live' = Live
  BY DEF Live

\* An error that the scope notes changes nothing for a call that fits.
LEMMA FitsStill ==
    ASSUME NEW c, NEW stage, NEW failed, NEW now, Fits(c, stage, failed), failed => now
    PROVE  Fits(c, stage, now)
  BY DEF Fits

-----------------------------------------------------------------------------
(* Steps inside a scope. *)

\* Call i goes on as c; once it has ended it stays as it ended.
Follows(i, c) ==
    /\ c.kind = call[i].kind /\ c.kind # "none" /\ c.scope = call[i].scope
    /\ call[i].done => c.done
    /\ call[i].state # "inside" /\ c.state \notin {"inside", "starting"}
    /\ call[i].state \in Ended => c.state = call[i].state

\* Its scope's guard becomes g: it counts the call down if nothing has before.
Notes(i, c, g) ==
    LET old == guard[call[i].scope] IN
    /\ guard' = [guard EXCEPT ![call[i].scope] = g]
    /\ g = [old EXCEPT !.pending = IF c.done /\ ~call[i].done THEN @ - 1 ELSE @,
                       !.failed = g.failed, !.savepoint = g.savepoint]
    /\ g.failed \in BOOLEAN /\ (old.failed => g.failed)
    /\ g.savepoint \in BOOLEAN
    /\ \/ g.savepoint = old.savepoint
       \/ c.kind = "savepoint" /\ c.state \in Ended /\ call[i].state \notin Ended

\* A step of one call, with what the guard notes of it.
LEMMA ChangeKeeps ==
    ASSUME Inv, NEW i \in Call, NEW c \in CallRecord, NEW g,
           issued' = issued, call' = [call EXCEPT ![i] = c],
           Follows(i, c), Notes(i, c, g), Fits(c, guard[call[i].scope].stage, g.failed)
    PROVE  Inv'
<1>p. PICK p \in Scope : p = call[i].scope
  BY DEF Inv, Types, CallRecord
<1>0. Types /\ CallFits(i) /\ p \in Scope /\ i \in Scope /\ call[i].scope = p
  BY <1>p, FiniteCalls DEF Inv
<1>1. /\ call'[i] = c
      /\ \A j \in Call \ {i} : call'[j] = call[j]
      /\ \A j \in Call : call'[j].kind = call[j].kind /\ call'[j].scope = call[j].scope
      /\ c.kind = call[i].kind /\ c.kind # "none" /\ c.scope = p
      /\ call[i].done => c.done
      /\ call[i].state # "inside" /\ c.state \notin {"inside", "starting"}
      /\ call[i].state \in Ended => c.state = call[i].state
  BY <1>0 DEF Follows, Types
<1>2. guard[p] \in GuardRecord /\ Fits(c, guard[p].stage, g.failed) /\ c.done \in BOOLEAN
  BY <1>0 DEF Types, CallRecord
<1>3. /\ guard' = [guard EXCEPT ![p] = g]
      /\ g = [guard[p] EXCEPT !.pending = IF c.done /\ ~call[i].done THEN @ - 1 ELSE @,
                              !.failed = g.failed, !.savepoint = g.savepoint]
      /\ g.failed \in BOOLEAN /\ (guard[p].failed => g.failed)
      /\ g.savepoint \in BOOLEAN
      /\ \/ g.savepoint = guard[p].savepoint
         \/ c.kind = "savepoint" /\ c.state \in Ended /\ call[i].state \notin Ended
  BY <1>0 DEF Notes
<1>4. /\ g.open = guard[p].open /\ g.passed = guard[p].passed /\ g.stage = guard[p].stage
      /\ g.pending = IF c.done /\ ~call[i].done THEN guard[p].pending - 1 ELSE guard[p].pending
  BY <1>2, <1>3 DEF GuardRecord
<1>5. /\ guard'[p] = g
      /\ \A s \in Scope \ {p} : guard'[s] = guard[s]
      /\ \A s \in Scope : guard'[s].stage = guard[s].stage
  BY <1>0, <1>3, <1>4 DEF Types
<1>6. ASSUME NEW s
      PROVE  Uncounted(s)' = IF s = p /\ c.done /\ ~call[i].done THEN Uncounted(s) \ {i} ELSE Uncounted(s)
  BY <1>0, <1>1 DEF Uncounted
<1>7. g.pending = Cardinality(Uncounted(p)') /\ g.pending \in 0 .. MaxCalls
  <2>1. guard[p].pending = Cardinality(Uncounted(p)) /\ guard[p].pending \in 0 .. MaxCalls
    BY <1>2 DEF Inv, GuardFits, GuardRecord
  <2>2. Uncounted(p) \in SUBSET Call
    BY DEF Uncounted
  <2>3. CASE c.done /\ ~call[i].done
    <3>1. i \in Uncounted(p) /\ Uncounted(p)' = Uncounted(p) \ {i}
      BY <1>0, <1>1, <1>6, <2>3 DEF Uncounted
    <3>2. Cardinality(Uncounted(p) \ {i}) = Cardinality(Uncounted(p)) - 1
      BY <2>2, <3>1, CallsBound, FS_RemoveElement
    <3>3. Uncounted(p) \ {i} \in SUBSET Call
      BY <2>2
    <3>4. Cardinality(Uncounted(p) \ {i}) \in Nat /\ Cardinality(Uncounted(p) \ {i}) <= MaxCalls
      BY <3>3, CallsBound
    <3> QED BY <1>4, <2>1, <2>3, <3>1, <3>2, <3>4, GuardAssumption
  <2>4. CASE ~(c.done /\ ~call[i].done)
    BY <1>4, <1>6, <2>1, <2>4
  <2> QED BY <2>3, <2>4
<1>8. Types'
  <2>1. g \in GuardRecord
    BY <1>2, <1>3, <1>4, <1>7 DEF GuardRecord
  <2> QED BY <1>0, <1>3, <2>1 DEF Types
<1>9. Live' = Live
  BY <1>5, LiveKept
<1>10. ASSUME NEW s
       PROVE  Unsettled(s)' = IF s = p /\ c.state \in Ended THEN Unsettled(s) \ {i} ELSE Unsettled(s)
  <2>1. Unsettled(s)' = {j \in Call : call'[j].scope = s /\ Open(j)'}
    BY <1>8, UnsettledNext
  <2>2. Unsettled(s) = {j \in Call : call[j].scope = s /\ Open(j)}
    BY <1>0, UnsettledIs
  <2>3. \A j \in Call \ {i} : Open(j)' <=> Open(j)
    BY <1>1 DEF Open, Going
  <2>4. /\ Open(i)' <=> c.state \notin Ended
        /\ c.state \notin Ended => Open(i)
    BY <1>1 DEF Open, Going
  <2> QED BY <1>0, <1>1, <2>1, <2>2, <2>3, <2>4
<1>11. ASSUME NEW j \in Call PROVE CallFits(j)'
  <2>1. CallFits(j) /\ call[j].scope \in Scope
    BY <1>0 DEF Inv, Types, CallRecord
  <2>2. CASE j = i
    BY <1>0, <1>1, <1>2, <1>4, <1>5, <2>2 DEF CallFits
  <2>3. CASE j # i
    <3>1. /\ guard'[call[j].scope].stage = guard[call[j].scope].stage
          /\ guard[call[j].scope].failed => guard'[call[j].scope].failed
      BY <1>3, <1>5, <2>1
    <3>2. Fits(call[j], guard[call[j].scope].stage, guard'[call[j].scope].failed)
      BY <2>1, <3>1, FitsStill DEF CallFits
    <3> QED BY <1>1, <2>1, <2>3, <3>1, <3>2 DEF CallFits
  <2> QED BY <2>2, <2>3
<1>12. ASSUME NEW j \in Call PROVE ScopeOf(j)'
  <2>1. ScopeOf(j) /\ j \in Scope /\ call[j].scope \in Scope
    BY <1>0, FiniteCalls DEF Inv, Types, CallRecord
  <2>2. ASSUME Open(j)', call[j].kind = "savepoint"
        PROVE  guard'[call[j].scope].savepoint /\ Unsettled(call[j].scope)' = {j}
    <3>1. Open(j)
      BY <1>1, <2>2 DEF Open, Going
    <3>2. guard[call[j].scope].savepoint /\ Unsettled(call[j].scope) = {j}
      BY <2>1, <2>2, <3>1 DEF ScopeOf
    <3>3. j = i => c.state \notin Ended
      BY <1>1, <2>2 DEF Open, Going
    <3>4. j # i /\ call[j].scope = p => ~Open(i)
      <4>1. Unsettled(p) = {k \in Call : call[k].scope = p /\ Open(k)}
        BY <1>0, UnsettledIs
      <4> QED BY <1>0, <3>2, <4>1
    <3>5. ~Open(i) => call[i].state \in Ended
      BY <1>1 DEF Open, Going
    <3>6. call[j].scope = p => g.savepoint = guard[p].savepoint
      BY <1>3, <3>3, <3>4, <3>5
    <3>7. guard'[call[j].scope].savepoint
      BY <1>5, <2>1, <3>2, <3>6
    <3>8. Unsettled(call[j].scope)' = Unsettled(call[j].scope)
      BY <1>0, <1>1, <1>10, <3>2, <3>3
    <3> QED BY <3>2, <3>7, <3>8
  <2>3. j \in Live' <=> call'[j].state = "inside"
    BY <1>1, <1>9, <2>1 DEF ScopeOf
  <2>4. guard'[j].stage # "none" => call'[j].kind = "savepoint" /\ call'[j].state # "starting"
    BY <1>1, <1>5, <2>1 DEF ScopeOf
  <2> QED BY <1>1, <2>2, <2>3, <2>4 DEF ScopeOf
<1>13. ASSUME NEW s \in Scope PROVE GuardFits(s)'
  <2>1. GuardFits(s)
    BY DEF Inv
  <2>2. ASSUME guard'[s].passed
        PROVE  /\ guard'[s].stage \notin {"none", "callback"}
               /\ \A j \in Operations(s)' \cup Streams(s)' :
                     call'[j].state \in Ended /\ (call'[j].state = "failed" => call'[j].kind = "savepoint")
    <3>1. guard[s].passed
      BY <1>4, <1>5, <2>2
    <3>2. /\ guard[s].stage \notin {"none", "callback"}
          /\ \A j \in Operations(s) \cup Streams(s) :
                call[j].state \in Ended /\ (call[j].state = "failed" => call[j].kind = "savepoint")
      BY <2>1, <3>1 DEF GuardFits
    <3>3. Operations(s)' = Operations(s) /\ Streams(s)' = Streams(s)
      BY <1>1 DEF Operations, Streams
    <3>4. ASSUME NEW j \in Operations(s) \cup Streams(s)
          PROVE  j \in Call /\ call'[j].state = call[j].state /\ call'[j].kind = call[j].kind
      BY <1>1, <3>2 DEF Operations, Streams
    <3> QED BY <1>5, <3>2, <3>3, <3>4
  <2>3. guard'[s].pending = Cardinality(Uncounted(s)')
    BY <1>5, <1>6, <1>7, <2>1 DEF GuardFits
  <2>4. guard'[s].open => guard'[s].stage = "callback"
    BY <1>4, <1>5, <2>1 DEF GuardFits
  <2> QED BY <2>2, <2>3, <2>4 DEF GuardFits
<1>14. OnePath'
  BY <1>1, <1>9, PathKept DEF Inv
<1> QED BY <1>8, <1>11, <1>12, <1>13, <1>14 DEF Inv

\* A call is made: nothing was known of its number, and a savepoint finds its
\* scope without an unsettled call.
LEMMA MakeKeeps ==
    ASSUME Inv, NEW s \in Scope, NEW kind \in {"operation", "stream", "savepoint"},
           NEW state \in {"running", "fresh", "starting"}, KindOfState(kind, state),
           Make(s, kind, state), kind = "savepoint" => NothingPending(s)
    PROVE  Inv'
<1>n. PICK n : n = issued + 1
  OBVIOUS
<1>0. /\ Types /\ GuardFits(s) /\ n \in Call /\ n \in Scope /\ issued \in 0 .. MaxCalls
      /\ CallFits(n) /\ ScopeOf(n)
  BY <1>n, FiniteCalls, GuardAssumption DEF Inv, Types, CallRecord, GuardRecord, Make, Call
<1>1. call[n].kind = "none" /\ call[n].state = "unused" /\ ~Open(n)
  BY <1>0, <1>n, GuardAssumption DEF CallFits, Fits, KindOfState, Open, Going
<1>2. guard[n].stage = "none" /\ n \notin Live
  BY <1>0, <1>1 DEF ScopeOf
<1>3. /\ guard[s].open /\ ~guard[s].savepoint /\ guard[s].stage = "callback" /\ s \in Live
      /\ ~guard[s].passed /\ guard[s].pending = Cardinality(Uncounted(s))
      /\ Uncounted(s) = Unsettled(s)
  <2>1. guard[s].open /\ ~guard[s].savepoint /\ guard[s].stage = "callback"
    BY <1>0 DEF GuardFits, Make, Admits
  <2> QED BY <1>0, <2>1, UncountedIs DEF GuardFits, Live
<1>4. /\ call'[n] = [kind |-> kind, scope |-> s, state |-> state, done |-> FALSE, requests |-> <<>>]
      /\ call' = [call EXCEPT ![n] = [kind |-> kind, scope |-> s, state |-> state, done |-> FALSE, requests |-> <<>>]]
      /\ \A j \in Call \ {n} : call'[j] = call[j]
      /\ call'[n].kind = kind /\ call'[n].scope = s /\ call'[n].state = state /\ ~call'[n].done
      /\ call'[n].requests = <<>>
      /\ issued' = n
  BY <1>0, <1>n DEF Make, Types, CallRecord, GuardRecord
<1>5. state \notin Ended /\ state \notin {"inside", "resumed", "leaving", "failed"} /\ Open(n)'
  BY <1>4 DEF Ended, Open, Going
<1>6. Unsettled(s) \in SUBSET Call /\ n \notin Unsettled(s)
  BY <1>0, <1>1, UnsettledIs
<1>7. /\ IsFiniteSet(Unsettled(s)) /\ Cardinality(Unsettled(s)) \in Nat
      /\ Cardinality(Unsettled(s) \cup {n}) = Cardinality(Unsettled(s)) + 1
      /\ Cardinality(Unsettled(s)) + 1 <= MaxCalls
  <2>1. IsFiniteSet(Unsettled(s)) /\ Cardinality(Unsettled(s)) \in Nat
    BY <1>6, CallsBound
  <2>2. Cardinality(Unsettled(s) \cup {n}) = Cardinality(Unsettled(s)) + 1
    BY <1>6, <2>1, FS_AddElement
  <2>3. Unsettled(s) \cup {n} \in SUBSET Call
    BY <1>0, <1>6
  <2>4. Cardinality(Unsettled(s) \cup {n}) <= MaxCalls
    BY <2>3, CallsBound
  <2> QED BY <2>1, <2>2, <2>4
<1>8. guard[s] \in GuardRecord
  BY <1>0 DEF Types, CallRecord, GuardRecord
<1>9. PICK g : g = [guard[s] EXCEPT !.pending = @ + 1, !.savepoint = kind = "savepoint"]
  OBVIOUS
<1>10. /\ g.open = guard[s].open /\ g.pending = guard[s].pending + 1
       /\ g.failed = guard[s].failed /\ g.savepoint = (kind = "savepoint")
       /\ g.passed = guard[s].passed /\ g.stage = guard[s].stage
       /\ g \in GuardRecord
  <2>1. guard[s].pending + 1 \in 0 .. MaxCalls
    BY <1>3, <1>7, GuardAssumption
  <2> QED BY <1>8, <1>9, <2>1 DEF GuardRecord
<1>11. guard' = [guard EXCEPT ![s] = g]
  BY <1>0, <1>9 DEF Make, Types, CallRecord, GuardRecord
<1>12. /\ guard'[s] = g
       /\ \A t \in Scope \ {s} : guard'[t] = guard[t]
       /\ \A t \in Scope : guard'[t].stage = guard[t].stage
  BY <1>0, <1>10, <1>11 DEF Types, CallRecord, GuardRecord
<1>13. Types'
  <2>1. state \in OnConnection \cup Ended \cup {"unused", "fresh", "idle", "leaving", "inside"}
    BY DEF OnConnection
  <2>2. n \in 0 .. MaxCalls
    BY <1>0, GuardAssumption DEF Call
  <2>3. call' \in [Call -> CallRecord]
    BY <1>0, <1>4, <2>1 DEF Types, CallRecord, GuardRecord
  <2>4. guard' \in [Scope -> GuardRecord]
    BY <1>0, <1>10, <1>11 DEF Types, CallRecord, GuardRecord
  <2> QED BY <1>4, <2>2, <2>3, <2>4 DEF Types, CallRecord, GuardRecord
<1>14. Live' = Live
  BY <1>12, LiveKept
<1>15. ASSUME NEW t
       PROVE  Unsettled(t)' = IF t = s THEN Unsettled(t) \cup {n} ELSE Unsettled(t)
  <2>1. Unsettled(t)' = {j \in Call : call'[j].scope = t /\ Open(j)'}
    BY <1>13, UnsettledNext
  <2>2. Unsettled(t) = {j \in Call : call[j].scope = t /\ Open(j)}
    BY <1>0, UnsettledIs
  <2>3. \A j \in Call \ {n} : Open(j)' <=> Open(j)
    BY <1>4 DEF Open, Going
  <2> QED BY <1>0, <1>1, <1>4, <1>5, <2>1, <2>2, <2>3
<1>u. ASSUME NEW t
      PROVE  Uncounted(t)' = IF t = s THEN Uncounted(t) \cup {n} ELSE Uncounted(t)
  BY <1>0, <1>1, <1>4 DEF Uncounted
<1>16. ASSUME NEW j \in Call PROVE CallFits(j)'
  <2>1. CallFits(j) /\ call[j].scope \in Scope /\ j \in Nat
    BY <1>0, GuardAssumption DEF Inv, Types, CallRecord, GuardRecord, Call
  <2>2. CASE j = n
    <3>1. ~(issued' < n)
      BY <1>0, <1>4 DEF Call
    <3>2. guard'[s].stage = "callback" /\ ~HasSettle(<<>>)
      BY <1>3, <1>12 DEF HasSettle
    <3>3. PICK c : c = call'[n]
      OBVIOUS
    <3>4. Fits(c, "callback", guard'[s].failed)
      BY <1>4, <1>5, <3>2, <3>3 DEF Fits, Going
    <3> QED BY <1>4, <2>2, <3>1, <3>2, <3>3, <3>4 DEF CallFits
  <2>3. CASE j # n
    <3>1. /\ guard[call[j].scope].failed = guard'[call[j].scope].failed
          /\ guard[call[j].scope].stage = guard'[call[j].scope].stage
      BY <1>10, <1>12, <2>1
    <3>2. issued' < j => issued < j
      BY <1>0, <1>4, <1>n, <2>1
    <3> QED BY <1>4, <2>1, <2>3, <3>1, <3>2 DEF CallFits
  <2> QED BY <2>2, <2>3
<1>17. ASSUME NEW j \in Call PROVE ScopeOf(j)'
  <2>1. ScopeOf(j) /\ j \in Scope /\ call[j].scope \in Scope
    BY <1>0, FiniteCalls DEF Inv, Types, CallRecord, GuardRecord
  <2>2. CASE j = n
    <3>1. kind = "savepoint" => Unsettled(s)' = {n}
      <4>1. ASSUME kind = "savepoint" PROVE Unsettled(s) = {}
        BY <1>3, <1>7, <4>1, FS_EmptySet DEF NothingPending
      <4> QED BY <1>15, <4>1
    <3>2. ScopeOf(n)'
      BY <1>0, <1>2, <1>4, <1>5, <1>10, <1>12, <1>14, <3>1 DEF ScopeOf
    <3> QED BY <2>2, <3>2
  <2>3. CASE j # n
    <3>1. Open(j)' <=> Open(j)
      BY <1>4, <2>3 DEF Open, Going
    <3>2. ASSUME Open(j), call[j].kind = "savepoint"
          PROVE  guard'[call[j].scope].savepoint /\ Unsettled(call[j].scope)' = {j}
      <4>1. guard[call[j].scope].savepoint /\ Unsettled(call[j].scope) = {j}
        BY <2>1, <3>2 DEF ScopeOf
      <4>2. call[j].scope # s
        BY <1>3, <4>1
      <4>3. Unsettled(call[j].scope)' = Unsettled(call[j].scope)
        BY <1>4, <1>15, <2>3, <4>2
      <4> QED BY <1>12, <2>1, <4>1, <4>2, <4>3
    <3> QED BY <1>4, <1>12, <1>14, <2>1, <2>3, <3>1, <3>2 DEF ScopeOf
  <2> QED BY <2>2, <2>3
<1>18. ASSUME NEW t \in Scope PROVE GuardFits(t)'
  <2>1. GuardFits(t)
    BY DEF Inv
  <2>2. CASE t # s
    <3>1. Operations(t)' = Operations(t) /\ Streams(t)' = Streams(t)
      BY <1>1, <1>4, <2>2 DEF Operations, Streams
    <3>2. \A j \in Operations(t) \cup Streams(t) : j \in Call \ {n}
      BY <1>1 DEF Operations, Streams
    <3> QED BY <1>4, <1>12, <1>u, <2>1, <2>2, <3>1, <3>2 DEF GuardFits
  <2>3. CASE t = s
    <3>1. Cardinality(Uncounted(s)') = guard'[s].pending
      <4>1. Uncounted(s)' = Unsettled(s) \cup {n}
        BY <1>3, <1>u
      <4>2. guard'[s].pending = Cardinality(Unsettled(s)) + 1
        BY <1>3, <1>10, <1>12
      <4> QED BY <1>7, <4>1, <4>2
    <3>2. GuardFits(s)'
      BY <1>3, <1>10, <1>12, <3>1 DEF GuardFits
    <3> QED BY <2>3, <3>2
  <2> QED BY <2>2, <2>3
<1>19. OnePath'
  <2>1. \A d \in Call \cap Live : call'[d].scope = call[d].scope
    BY <1>2, <1>4
  <2> QED BY <1>14, <2>1, PathKept DEF Inv
<1> QED BY <1>13, <1>16, <1>17, <1>18, <1>19 DEF Inv

\* A guard that closes, whose callback ends, or that notes an error.
GuardMoves(s) ==
    /\ guard'[s].pending = guard[s].pending /\ guard'[s].savepoint = guard[s].savepoint
    /\ guard[s].failed => guard'[s].failed
    /\ \/ guard'[s].stage = guard[s].stage
       \/ guard[s].stage = "callback" /\ guard'[s].stage = "settling"
    /\ guard'[s].open => guard'[s].stage = "callback"
    /\ guard'[s].passed =>
          \/ guard[s].passed /\ guard'[s].stage = guard[s].stage
          \/ guard'[s].stage = "settling" /\ Unsettled(s) = {} /\ ~guard[s].failed

\* Guards close, their callbacks end, or an error is noted, and no call changes.
LEMMA GuardsKeep ==
    ASSUME Inv, UNCHANGED <<issued, call>>,
           guard' \in [Scope -> GuardRecord],
           \A s \in Scope : GuardMoves(s)
    PROVE  Inv'
<1> USE DEF GuardMoves
<1>1. Types /\ Types'
  BY DEF Inv, Types, CallRecord, GuardRecord
<1>2. Live' = Live
  BY DEF Live
<1>3. /\ \A s : Unsettled(s)' = Unsettled(s) /\ Operations(s)' = Operations(s) /\ Streams(s)' = Streams(s)
      /\ \A j : Open(j)' = Open(j)
  BY DEF Unsettled, Operations, Streams, Open
<1>u. \A s : Uncounted(s)' = Uncounted(s)
  BY DEF Uncounted
<1>4. ASSUME NEW j \in Call PROVE CallFits(j)'
  <2>1. CallFits(j) /\ call[j].scope \in Scope
    BY <1>1 DEF Inv, Types, CallRecord, GuardRecord
  <2>2. PICK c, p : c = call[j] /\ p = call[j].scope
    OBVIOUS
  <2>3. Fits(c, guard[p].stage, guard[p].failed) /\ p \in Scope
    BY <2>1, <2>2 DEF CallFits
  <2>4. Fits(c, guard[p].stage, guard'[p].failed)
    BY <2>3, FitsStill
  <2>5. Fits(c, guard'[p].stage, guard'[p].failed)
    BY <2>3, <2>4 DEF Fits
  <2> QED BY <2>1, <2>2, <2>5 DEF CallFits
<1>5. ASSUME NEW j \in Call PROVE ScopeOf(j)'
  <2>1. ScopeOf(j) /\ call[j].scope \in Scope /\ j \in Scope
    BY <1>1, FiniteCalls DEF Inv, Types, CallRecord, GuardRecord
  <2> QED BY <1>2, <1>3, <2>1 DEF ScopeOf
<1>6. ASSUME NEW s \in Scope PROVE GuardFits(s)'
  <2>1. GuardFits(s)
    BY DEF Inv
  <2>2. ASSUME guard'[s].passed, ~guard[s].passed, NEW j \in Operations(s) \cup Streams(s)
        PROVE  call[j].state \in Ended /\ (call[j].state = "failed" => call[j].kind = "savepoint")
    <3>1. Unsettled(s) = {} /\ ~guard[s].failed
      BY <2>2
    <3>2. j \in Call /\ call[j].scope = s
      BY DEF Operations, Streams
    <3>3. CallFits(j)
      BY <3>2 DEF Inv
    <3> QED BY <3>1, <3>2, <3>3 DEF CallFits, Fits, Unsettled
  <2> QED BY <1>3, <1>u, <2>1, <2>2 DEF GuardFits
<1>7. OnePath'
  BY <1>2, PathKept DEF Inv
<1> QED BY <1>1, <1>4, <1>5, <1>6, <1>7 DEF Inv

\* An error is only noted while the guard is open.
LEMMA ThrowsKeep ==
    ASSUME Inv, NEW s \in Scope, ThrowsAtOnce(s)
    PROVE  Inv'
<1>1. guard' = [guard EXCEPT ![s].failed = TRUE] /\ UNCHANGED <<issued, call>>
  BY DEF ThrowsAtOnce
<1>2. Types
  BY DEF Inv
<1>3. PICK g : g = [guard[s] EXCEPT !.failed = TRUE]
  OBVIOUS
<1>4. /\ g.open = guard[s].open /\ g.pending = guard[s].pending /\ g.failed
      /\ g.savepoint = guard[s].savepoint /\ g.passed = guard[s].passed /\ g.stage = guard[s].stage
      /\ g \in GuardRecord
  BY <1>2, <1>3 DEF Types, CallRecord, GuardRecord
<1>5. guard' = [guard EXCEPT ![s] = g]
  BY <1>1, <1>2, <1>3 DEF Types, CallRecord, GuardRecord
<1>6. guard' \in [Scope -> GuardRecord]
  BY <1>2, <1>4, <1>5 DEF Types, CallRecord, GuardRecord
<1>7. guard'[s] = g /\ \A t \in Scope \ {s} : guard'[t] = guard[t]
  BY <1>2, <1>5 DEF Types, CallRecord, GuardRecord
<1>8. \A t \in Scope : guard[t].open => guard[t].stage = "callback"
  BY DEF Inv, GuardFits
<1>9. ASSUME NEW t \in Scope PROVE GuardMoves(t)
  <2>1. CASE t = s
    BY <1>4, <1>7, <1>8, <2>1 DEF GuardMoves
  <2>2. CASE t # s
    BY <1>7, <1>8, <2>2 DEF GuardMoves
  <2> QED BY <2>1, <2>2
<1> QED BY <1>1, <1>6, <1>9, GuardsKeep

\* A scope passes when nothing called in it is unsettled and nothing failed.
LEMMA CallbackEndsKeeps ==
    ASSUME Inv, NEW s \in Scope, CallbackEnds(s)
    PROVE  Inv'
<1>1. PICK resolved \in BOOLEAN :
          guard' = [d \in Scope |->
              IF d = s THEN [guard[s] EXCEPT !.open = FALSE, !.stage = "settling",
                                             !.passed = resolved /\ Passes(s)]
              ELSE IF d \in Inside(s) THEN [guard[d] EXCEPT !.open = FALSE] ELSE guard[d]]
  BY DEF CallbackEnds
<1>2. Types /\ guard[s].stage = "callback" /\ UNCHANGED <<issued, call>>
  BY DEF Inv, CallbackEnds
<1>3. Passes(s) => Unsettled(s) = {} /\ ~guard[s].failed
  <2>1. GuardFits(s)
    BY DEF Inv
  <2>2. Unsettled(s) \in SUBSET Call /\ Uncounted(s) = Unsettled(s)
    BY <1>2, UnsettledIs, UncountedIs
  <2>3. IsFiniteSet(Unsettled(s)) /\ Cardinality(Unsettled(s)) \in Nat
    BY <2>2, CallsBound
  <2> QED BY <2>1, <2>2, <2>3, FS_EmptySet DEF GuardFits, Passes
<1>4. ASSUME NEW d \in Scope
      PROVE  guard'[d] \in GuardRecord /\ GuardMoves(d)
  <2>1. /\ guard[d] \in GuardRecord
        /\ guard[d].open => guard[d].stage = "callback"
    BY <1>2 DEF Inv, Types, CallRecord, GuardRecord, GuardFits
  <2>2. CASE d = s
    <3>1. guard'[s] = [guard[s] EXCEPT !.open = FALSE, !.stage = "settling",
                                       !.passed = resolved /\ Passes(s)]
      BY <1>1
    <3>2. (resolved /\ Passes(s)) \in BOOLEAN
      OBVIOUS
    <3>3. PICK b \in BOOLEAN : b = (resolved /\ Passes(s))
      BY <3>2
    <3>4. /\ guard'[s] \in GuardRecord
          /\ guard'[s].pending = guard[s].pending /\ guard'[s].savepoint = guard[s].savepoint
          /\ guard'[s].failed = guard[s].failed /\ guard'[s].stage = "settling"
          /\ guard'[s].open = FALSE /\ guard'[s].passed = b
      BY <2>1, <2>2, <3>1, <3>3 DEF GuardRecord
    <3> QED BY <1>2, <1>3, <2>2, <3>3, <3>4 DEF GuardMoves
  <2>3. CASE d # s /\ d \in Inside(s)
    <3>1. guard'[d] = [guard[d] EXCEPT !.open = FALSE]
      BY <1>1, <2>3
    <3>2. /\ guard'[d] \in GuardRecord /\ guard'[d].pending = guard[d].pending
          /\ guard'[d].savepoint = guard[d].savepoint /\ guard'[d].failed = guard[d].failed
          /\ guard'[d].stage = guard[d].stage /\ guard'[d].passed = guard[d].passed
          /\ guard'[d].open = FALSE
      BY <2>1, <3>1 DEF GuardRecord
    <3> QED BY <3>2 DEF GuardMoves
  <2>4. CASE d # s /\ d \notin Inside(s)
    <3>1. guard'[d] = guard[d]
      BY <1>1, <2>4
    <3> QED BY <2>1, <3>1 DEF GuardMoves
  <2> QED BY <2>2, <2>3, <2>4
<1>5. guard' \in [Scope -> GuardRecord]
  <2>1. guard' = [d \in Scope |-> guard'[d]]
    BY <1>1
  <2> QED BY <1>4, <2>1
<1> QED BY <1>2, <1>4, <1>5, GuardsKeep

\* A savepoint's callback starts: its scope is the leaf of the path now.
LEMMA EnterKeeps ==
    ASSUME Inv, NEW i \in Call, Enter(i)
    PROVE  Inv'
<1>p. PICK p \in Scope : p = call[i].scope
  BY DEF Inv, Types, CallRecord
<1>0. Types /\ CallFits(i) /\ ScopeOf(i) /\ i \in Scope /\ call[i].scope = p
  BY <1>p, FiniteCalls DEF Inv
<1>1. /\ call[i].state = "starting" /\ call[i].kind = "savepoint" /\ Open(i)
      /\ p \in Live /\ Unsettled(p) = {i} /\ guard[p].savepoint
      /\ guard[i].stage = "none" /\ i \notin Live /\ i # p
  <2>1. call[i].state = "starting" /\ call[i].kind = "savepoint"
    BY <1>0 DEF Enter, CallFits, Fits, KindOfState
  <2>2. Open(i)
    BY <2>1 DEF Open, Going, Ended
  <2> QED BY <1>0, <2>1, <2>2 DEF CallFits, Fits, ScopeOf, Open, Live
<1>2. /\ call'[i] = [call[i] EXCEPT !.state = "inside"]
      /\ call' = [call EXCEPT ![i] = [@ EXCEPT !.state = "inside"]]
      /\ \A j \in Call : /\ call'[j].kind = call[j].kind /\ call'[j].scope = call[j].scope
                         /\ call'[j].done = call[j].done /\ call'[j].requests = call[j].requests
      /\ \A j \in Call \ {i} : call'[j] = call[j]
      /\ call'[i].state = "inside" /\ issued' = issued
  BY <1>0 DEF Enter, CallIs, Types, CallRecord
<1>3. /\ guard' = [guard EXCEPT ![i] = Opened] /\ guard'[i] = Opened
      /\ \A s \in Scope \ {i} : guard'[s] = guard[s]
  BY <1>0 DEF Enter, Types
<1>4. /\ Opened \in GuardRecord /\ Opened.stage = "callback" /\ Opened.open /\ Opened.pending = 0
      /\ ~Opened.savepoint /\ ~Opened.failed /\ ~Opened.passed
  <2>1. 0 \in 0 .. MaxCalls
    BY GuardAssumption
  <2>2. /\ Closed \in GuardRecord /\ Closed.pending = 0 /\ ~Closed.savepoint /\ ~Closed.failed
        /\ ~Closed.passed
    BY <2>1 DEF Closed, GuardRecord
  <2>3. Opened = [Closed EXCEPT !.open = TRUE, !.stage = "callback"]
    BY DEF Opened
  <2> QED BY <2>2, <2>3 DEF GuardRecord
<1>5. Types'
  <2>1. "inside" \in OnConnection \cup Ended \cup {"unused", "fresh", "idle", "leaving", "inside"}
    OBVIOUS
  <2>2. call' \in [Call -> CallRecord]
    BY <1>0, <1>2, <2>1 DEF Types, CallRecord
  <2>3. guard' \in [Scope -> GuardRecord]
    BY <1>0, <1>3, <1>4 DEF Types
  <2> QED BY <1>0, <1>2, <2>2, <2>3 DEF Types, CallRecord, GuardRecord
<1>6. Live' = Live \cup {i}
  BY <1>0, <1>3, <1>4 DEF Live
<1>7. \A j \in Call : Open(j)' <=> Open(j)
  BY <1>1, <1>2 DEF Open, Going, Ended
<1>u. \A s : Uncounted(s)' = Uncounted(s)
  BY <1>2 DEF Uncounted
<1>8. ASSUME NEW s PROVE Unsettled(s)' = Unsettled(s)
  <2>1. Unsettled(s)' = {j \in Call : call'[j].scope = s /\ Open(j)'}
    BY <1>5, UnsettledNext
  <2>2. Unsettled(s) = {j \in Call : call[j].scope = s /\ Open(j)}
    BY <1>0, UnsettledIs
  <2> QED BY <1>2, <1>7, <2>1, <2>2
<1>9. ASSUME NEW j \in Call, call[j].scope = i
      PROVE  call[j].kind = "none" /\ ~Open(j) /\ j # i
  <2>1. CallFits(j)
    BY DEF Inv
  <2> QED BY <1>0, <1>1, <1>9, <2>1 DEF CallFits, Fits, Open, Going
<1>10. ASSUME NEW j \in Call PROVE CallFits(j)'
  <2>1. CallFits(j) /\ call[j].scope \in Scope
    BY <1>0 DEF Inv, Types, CallRecord
  <2>2. CASE j = i
    <3>1. PICK c : c = call[i]
      OBVIOUS
    <3>2. Fits([c EXCEPT !.state = "inside"], guard[p].stage, guard[p].failed)
      <4>1. c \in CallRecord /\ Fits(c, guard[p].stage, guard[p].failed) /\ c.state = "starting"
            /\ c.kind = "savepoint"
        BY <1>0, <1>1, <3>1 DEF CallFits, Types
      <4>2. PICK d : d = [c EXCEPT !.state = "inside"]
        OBVIOUS
      <4>3. /\ d.kind = "savepoint" /\ d.state = "inside" /\ d.done = c.done
            /\ d.requests = c.requests
        BY <4>1, <4>2 DEF CallRecord
      <4>4. Fits(d, guard[p].stage, guard[p].failed)
        BY <4>1, <4>3 DEF Fits, Going, KindOfState, Ended
      <4> QED BY <4>2, <4>4
    <3>3. guard'[p] = guard[p] /\ call'[i].scope = p
      BY <1>0, <1>1, <1>2, <1>3
    <3> QED BY <1>2, <2>1, <2>2, <3>1, <3>2, <3>3 DEF CallFits
  <2>3. CASE j # i /\ call[j].scope # i
    BY <1>2, <1>3, <2>1, <2>3 DEF CallFits
  <2>4. CASE j # i /\ call[j].scope = i
    <3>1. PICK c : c = call[j]
      OBVIOUS
    <3>2. c.kind = "none" /\ Fits(c, "none", guard[i].failed)
      BY <1>1, <1>9, <2>1, <2>4, <3>1 DEF CallFits
    <3>3. ~HasSettle(<<>>)
      BY DEF HasSettle
    <3>4. Fits(c, "callback", FALSE)
      BY <3>2, <3>3 DEF Fits, Going, KindOfState
    <3>5. Fits(c, "callback", Opened.failed)
      BY <3>4, FitsStill
    <3> QED BY <1>2, <1>3, <1>4, <2>1, <2>4, <3>1, <3>5 DEF CallFits
  <2> QED BY <2>2, <2>3, <2>4
<1>11. ASSUME NEW j \in Call PROVE ScopeOf(j)'
  <2>1. ScopeOf(j) /\ j \in Scope /\ call[j].scope \in Scope
    BY <1>0, FiniteCalls DEF Inv, Types, CallRecord
  <2>2. CASE j = i
    <3>1. ScopeOf(i)'
      BY <1>0, <1>1, <1>2, <1>3, <1>4, <1>6, <1>8 DEF ScopeOf
    <3> QED BY <2>2, <3>1
  <2>3. CASE j # i
    <3>1. Unsettled(call[j].scope)' = Unsettled(call[j].scope)
      BY <1>2, <1>8
    <3>2. call[j].scope = i => ~Open(j)
      BY <1>9
    <3> QED BY <1>2, <1>3, <1>6, <1>7, <2>1, <2>3, <3>1, <3>2 DEF ScopeOf
  <2> QED BY <2>2, <2>3
<1>12. ASSUME NEW s \in Scope PROVE GuardFits(s)'
  <2>1. GuardFits(s)
    BY DEF Inv
  <2>3. CASE s = i
    <3>1. Uncounted(i)' = {}
      BY <1>9, <1>u DEF Uncounted
    <3>2. Cardinality(Uncounted(i)') = 0
      BY <3>1, FS_EmptySet
    <3>3. GuardFits(i)'
      BY <1>3, <1>4, <3>2 DEF GuardFits
    <3> QED BY <2>3, <3>3
  <2>4. CASE s # i
    <3>1. guard'[s] = guard[s]
      BY <1>3, <2>4
    <3>2. Operations(s)' = Operations(s) /\ Streams(s)' = Streams(s)
      BY <1>2 DEF Operations, Streams
    <3>3. guard[s].passed => i \notin Operations(s) \cup Streams(s)
      BY <1>1, <2>1 DEF GuardFits, Open, Going
    <3>4. \A j \in Operations(s) \cup Streams(s) : j \in Call
      BY DEF Operations, Streams
    <3> QED BY <1>2, <1>u, <2>1, <3>1, <3>2, <3>3, <3>4 DEF GuardFits
  <2> QED BY <2>3, <2>4
<1>13. OnePath'
  <2>1. Leaf(p)
    <3>1. ASSUME NEW d \in Call \cap Live, call[d].scope = p PROVE FALSE
      <4>1. call[d].state = "inside" /\ CallFits(d)
        BY DEF Inv, ScopeOf
      <4>2. Open(d)
        BY <4>1 DEF CallFits, Fits, KindOfState, Open, Going, Ended
      <4>3. d \in Unsettled(p)
        BY <1>0, <3>1, <4>2, UnsettledIs
      <4> QED BY <1>1, <4>3
    <3> QED BY <1>1, <3>1 DEF Leaf
  <2>2. ASSUME NEW t \in Scope, Leaf(t)' PROVE t = i
    <3>1. t \in Live \cup {i} /\ \A d \in Call \cap (Live \cup {i}) : call[d].scope # t
      BY <1>2, <1>6, <2>2 DEF Leaf
    <3>2. t # i => Leaf(t)
      BY <3>1 DEF Leaf
    <3>3. t # i => t = p
      BY <2>1, <3>2 DEF Inv, OnePath
    <3>4. t # p
      BY <1>0, <3>1
    <3> QED BY <3>3, <3>4
  <2> QED BY <2>2 DEF OnePath
<1> QED BY <1>5, <1>10, <1>11, <1>12, <1>13 DEF Inv

\* A request is queued: the generator goes on if nothing was under way.
LEMMA EnqueuedIs ==
    ASSUME NEW c \in CallRecord, NEW r \in Request
    PROVE  LET d == Enqueued(c, r) IN
           /\ d.kind = c.kind /\ d.scope = c.scope /\ d.done = c.done /\ d \in CallRecord
           /\ d.requests # <<>>
           /\ HasSettle(d.requests) <=> HasSettle(c.requests) \/ r = "settle"
           /\ d.state = c.state
              \/ (c.state \in {"fresh", "idle"} /\ d.state \in {"resumed", "leaving"})
<1>1. PICK q : q = Append(c.requests, r)
  OBVIOUS
<1>2. q \in Seq(Request) /\ q # <<>> /\ (HasSettle(q) <=> HasSettle(c.requests) \/ r = "settle")
  BY <1>1, AppendHas DEF CallRecord
<1>3. PICK state : state = IF c.state = "fresh" /\ r # "next" THEN "leaving"
                           ELSE IF c.state \in {"fresh", "idle"} THEN "resumed" ELSE c.state
  OBVIOUS
<1>4. Enqueued(c, r) = [c EXCEPT !.requests = q, !.state = state]
  BY <1>1, <1>3 DEF Enqueued, CallRecord
<1>5. /\ state \in OnConnection \cup Ended \cup {"unused", "fresh", "idle", "leaving", "inside"}
      /\ state = c.state \/ (c.state \in {"fresh", "idle"} /\ state \in {"resumed", "leaving"})
  BY <1>3 DEF CallRecord, OnConnection
<1> HIDE DEF Enqueued
<1> QED BY <1>2, <1>4, <1>5 DEF CallRecord

\* settle returns the streams that are left: nothing else of its scope is open.
LEMMA ReturnStreamsKeeps ==
    ASSUME Inv, NEW s \in Scope, ReturnStreams(s)
    PROVE  Inv'
<1>0. /\ Types /\ guard[s].stage = "settling" /\ s \in Live /\ issued' = issued
      /\ \A i \in Operations(s) : call[i].state \in Ended
  BY DEF Inv, ReturnStreams, Awaited, Live
<1>1. /\ guard' = [guard EXCEPT ![s].stage = "returning"]
      /\ \A t \in Scope \ {s} : guard'[t] = guard[t]
      /\ guard'[s] = [guard[s] EXCEPT !.stage = "returning"]
      /\ guard[s] \in GuardRecord
  BY <1>0 DEF ReturnStreams, Types, GuardRecord
<1>2. /\ guard'[s].open = guard[s].open /\ guard'[s].pending = guard[s].pending
      /\ guard'[s].savepoint = guard[s].savepoint /\ guard'[s].failed = guard[s].failed
      /\ guard'[s].passed = guard[s].passed /\ guard'[s].stage = "returning"
      /\ guard'[s] \in GuardRecord
  BY <1>1 DEF GuardRecord
<1>3. ASSUME NEW i \in Call
      PROVE  /\ call'[i].kind = call[i].kind /\ call'[i].scope = call[i].scope
             /\ call'[i].done = call[i].done /\ call'[i] \in CallRecord
             /\ call[i].scope # s \/ call[i].kind # "stream" \/ call[i].done => call'[i] = call[i]
             /\ call[i].scope = s /\ call[i].kind = "stream" /\ ~call[i].done =>
                   HasSettle(call'[i].requests) /\ call'[i].requests # <<>>
             /\ call'[i].state = call[i].state
                \/ (call[i].state \in {"fresh", "idle"} /\ call'[i].state \in {"resumed", "leaving"})
  <2>1. call[i] \in CallRecord
    BY <1>0 DEF Types
  <2>2. CASE i \notin Streams(s) \/ ~Listed(i)
    <3>1. call'[i] = call[i]
      BY <2>2 DEF ReturnStreams
    <3>2. ~(call[i].scope = s /\ call[i].kind = "stream" /\ ~call[i].done)
      BY <2>2 DEF Streams, Listed
    <3> QED BY <2>1, <3>1, <3>2
  <2>3. CASE i \in Streams(s) /\ Listed(i)
    <3>1. call'[i] = Enqueued(call[i], "settle")
      BY <2>3 DEF ReturnStreams
    <3>2. ~call[i].done /\ call[i].scope = s /\ call[i].kind = "stream"
      BY <2>3 DEF Listed, Streams
    <3>3. PICK c, d : c = call[i] /\ d = call'[i]
      OBVIOUS
    <3>4. c \in CallRecord /\ d = Enqueued(c, "settle") /\ "settle" \in Request
      BY <2>1, <3>1, <3>3 DEF Request
    <3>5. /\ d.kind = c.kind /\ d.scope = c.scope /\ d.done = c.done /\ d \in CallRecord
          /\ d.requests # <<>> /\ HasSettle(d.requests)
          /\ d.state = c.state
             \/ (c.state \in {"fresh", "idle"} /\ d.state \in {"resumed", "leaving"})
      BY <3>4, EnqueuedIs
    <3> QED BY <3>2, <3>3, <3>5
  <2> QED BY <2>2, <2>3
<1>4. Types'
  <2>1. call' = [i \in Call |-> call'[i]]
    BY DEF ReturnStreams
  <2>2. call' \in [Call -> CallRecord]
    BY <1>3, <2>1
  <2>3. guard' \in [Scope -> GuardRecord]
    BY <1>0, <1>1, <1>2 DEF Types, GuardRecord
  <2> QED BY <1>0, <2>2, <2>3 DEF Types
<1>5. Live' = Live
  BY <1>0, <1>1, <1>2 DEF Live
<1>6. \A j \in Call : Open(j)' <=> Open(j)
  <2>1. ASSUME NEW j \in Call PROVE call'[j].state \in Ended <=> call[j].state \in Ended
    BY <1>3 DEF Ended
  <2> QED BY <1>3, <2>1 DEF Open, Going
<1>7. /\ \A t : Uncounted(t)' = Uncounted(t)
      /\ \A t : Unsettled(t)' = Unsettled(t)
  <2>1. \A t : Unsettled(t)' = {j \in Call : call'[j].scope = t /\ Open(j)'}
    BY <1>4, UnsettledNext
  <2>2. \A t : Unsettled(t) = {j \in Call : call[j].scope = t /\ Open(j)}
    BY <1>0, UnsettledIs
  <2>3. \A t : Unsettled(t)' = Unsettled(t)
    BY <1>3, <1>6, <2>1, <2>2
  <2> QED BY <1>3, <2>3 DEF Uncounted
<1>8. ASSUME NEW j \in Call PROVE CallFits(j)'
  <2>1. CallFits(j) /\ call[j].scope \in Scope /\ call[j] \in CallRecord /\ call'[j] \in CallRecord
    BY <1>0, <1>3 DEF Inv, Types, CallRecord
  <2>2. CASE call[j].scope # s
    BY <1>0, <1>1, <1>3, <2>1, <2>2 DEF CallFits
  <2>3. CASE call[j].scope = s
    <3>1. PICK c, d : c = call[j] /\ d = call'[j]
      OBVIOUS
    <3>2. /\ Fits(c, "settling", guard[s].failed) /\ c \in CallRecord /\ d \in CallRecord
          /\ d.kind = c.kind /\ d.done = c.done
          /\ c.kind # "stream" \/ c.done => d = c
          /\ c.kind = "stream" /\ ~c.done => HasSettle(d.requests) /\ d.requests # <<>>
          /\ d.state = c.state \/ (c.state \in {"fresh", "idle"} /\ d.state \in {"resumed", "leaving"})
      BY <1>0, <1>3, <2>1, <2>3, <3>1 DEF CallFits
    <3>3. Going(c) => c.kind = "stream"
      <4>1. j \in Operations(s) => call[j].state \in Ended
        BY <1>0
      <4> QED BY <2>1, <2>3, <3>1, <4>1 DEF Operations, Going, CallRecord
    <3>4. /\ Going(d) <=> Going(c)
          /\ d.state = "failed" => c.state = "failed"
      BY <3>2 DEF Going, Ended
    <3>5. KindOfState(d.kind, d.state)
      <4>1. KindOfState(c.kind, c.state)
        BY <3>2 DEF Fits
      <4> QED BY <3>2, <4>1 DEF KindOfState
    <3>6. Fits(d, "returning", guard[s].failed)
      <4>1. ~HasSettle(c.requests)
        BY <3>2 DEF Fits
      <4>2. c.kind # "stream" => d.requests = <<>>
        BY <3>2 DEF Fits
      <4>3. /\ Going(d) => ~d.done /\ d.kind = "stream" /\ HasSettle(d.requests)
            /\ d.kind # "none" /\ ~Going(d) => d.done
        BY <3>2, <3>3, <3>4 DEF Fits
      <4>4. d.state \in {"resumed", "leaving"} => d.requests # <<>>
        <5>1. d.state \in {"resumed", "leaving"} => d.kind = "stream"
          BY <3>5 DEF KindOfState
        <5>2. c.done => d.requests = c.requests /\ d.state = c.state
          BY <3>2
        <5> QED BY <3>2, <5>1, <5>2 DEF Fits
      <4>5. d.state = "failed" /\ d.kind # "savepoint" => guard[s].failed
        BY <3>2, <3>4 DEF Fits
      <4> QED BY <3>2, <3>5, <4>2, <4>3, <4>4, <4>5 DEF Fits
    <3>7. issued < j => c.kind = "none"
      BY <2>1, <3>1 DEF CallFits
    <3> QED BY <1>0, <1>2, <1>3, <2>3, <3>1, <3>2, <3>6, <3>7 DEF CallFits
  <2> QED BY <2>2, <2>3
<1>9. ASSUME NEW j \in Call PROVE ScopeOf(j)'
  <2>1. ScopeOf(j) /\ j \in Scope /\ call[j].scope \in Scope
    BY <1>0, FiniteCalls DEF Inv, Types, CallRecord
  <2>2. \A t \in Scope : /\ guard'[t].savepoint = guard[t].savepoint
                         /\ guard'[t].stage # "none" => guard[t].stage # "none"
    BY <1>0, <1>1, <1>2
  <2>3. (call'[j].state = "inside" <=> call[j].state = "inside") /\ (call'[j].state = "starting" <=> call[j].state = "starting")
    BY <1>3
  <2> QED BY <1>3, <1>5, <1>6, <1>7, <2>1, <2>2, <2>3 DEF ScopeOf
<1>10. ASSUME NEW t \in Scope PROVE GuardFits(t)'
  <2>1. GuardFits(t)
    BY DEF Inv
  <2>2. Operations(t)' = Operations(t) /\ Streams(t)' = Streams(t)
    BY <1>3 DEF Operations, Streams
  <2>3. ASSUME guard[t].passed, NEW j \in Operations(t) \cup Streams(t)
        PROVE  j \in Call /\ call'[j].state = call[j].state /\ call'[j].kind = call[j].kind
    <3>1. j \in Call /\ call[j].state \in Ended
      BY <2>1, <2>3 DEF GuardFits, Operations, Streams
    <3> QED BY <1>3, <3>1 DEF Ended
  <2>4. CASE t # s
    BY <1>1, <1>7, <2>1, <2>2, <2>3, <2>4 DEF GuardFits
  <2>5. CASE t = s
    <3>1. guard[s].open = FALSE
      BY <1>0, <1>1, <2>1, <2>5 DEF GuardFits, GuardRecord
    <3>2. GuardFits(s)'
      BY <1>2, <1>7, <2>1, <2>2, <2>3, <2>5, <3>1 DEF GuardFits
    <3> QED BY <2>5, <3>2
  <2> QED BY <2>4, <2>5
<1>11. OnePath'
  BY <1>3, <1>5, PathKept DEF Inv
<1> QED BY <1>4, <1>8, <1>9, <1>10, <1>11 DEF Inv

\* A scope settles: it was the leaf of the path, and the scope around it is now.
LEMMA SettledKeeps ==
    ASSUME Inv, NEW s \in Scope, Settled(s)
    PROVE  Inv'
<1>0. /\ Types /\ guard[s].stage = "returning" /\ s \in Live /\ issued' = issued
      /\ \A i \in Streams(s) : ~HasSettle(call[i].requests)
  BY DEF Inv, Settled, Returned, HasSettle, Live
<1>1. /\ guard' = [guard EXCEPT ![s].stage = "settled"]
      /\ \A t \in Scope \ {s} : guard'[t] = guard[t]
      /\ guard'[s] = [guard[s] EXCEPT !.stage = "settled"]
      /\ guard[s] \in GuardRecord
  BY <1>0 DEF Settled, Types, GuardRecord
<1>2. /\ guard'[s].open = guard[s].open /\ guard'[s].pending = guard[s].pending
      /\ guard'[s].savepoint = guard[s].savepoint /\ guard'[s].failed = guard[s].failed
      /\ guard'[s].passed = guard[s].passed /\ guard'[s].stage = "settled"
      /\ guard'[s] \in GuardRecord
  BY <1>1 DEF GuardRecord
<1>3. ASSUME NEW i \in Call, call[i].scope = s PROVE ~Open(i)
  <2>1. CallFits(i)
    BY DEF Inv
  <2>2. Open(i) => call[i].kind = "stream" /\ HasSettle(call[i].requests)
    BY <1>0, <1>3, <2>1 DEF CallFits, Fits, Open
  <2> QED BY <1>0, <1>3, <2>2 DEF Streams
<1>4. Unsettled(s) = {}
  <2>1. Unsettled(s) = {j \in Call : call[j].scope = s /\ Open(j)}
    BY <1>0, UnsettledIs
  <2> QED BY <1>3, <2>1
<1>5. s \in Call => call[s].state = "inside" /\ call[s].kind = "savepoint" /\ Open(s) /\ call[s].scope # s
  <2>1. s \in Call => ScopeOf(s) /\ CallFits(s)
    BY DEF Inv
  <2>2. s \in Call => call[s].state = "inside" /\ call[s].kind = "savepoint"
    BY <1>0, <2>1 DEF ScopeOf, CallFits, Fits, KindOfState
  <2>3. s \in Call => Open(s)
    BY <2>2 DEF Open, Going, Ended
  <2> QED BY <1>3, <2>2, <2>3
<1>6. /\ \A i \in Call : /\ call'[i].kind = call[i].kind /\ call'[i].scope = call[i].scope
                         /\ call'[i].done = call[i].done /\ call'[i].requests = call[i].requests
      /\ \A i \in Call \ {s} : call'[i] = call[i]
      /\ s \in Call => call'[s].state \in {"releasing", "undoing"}
      /\ call' \in [Call -> CallRecord]
  <2>1. CASE s = Root
    <3>1. call' = call
      BY <2>1 DEF Settled
    <3>2. Root \notin Call
      BY DEF Root, Call
    <3> QED BY <1>0, <2>1, <3>1, <3>2 DEF Types, CallRecord
  <2>2. CASE s # Root
    <3>1. s \in Call
      BY <2>2 DEF Scope
    <3>2. PICK state \in {"releasing", "undoing"} : call' = [call EXCEPT ![s].state = state]
      BY <2>2 DEF Settled
    <3>3. state \in OnConnection \cup Ended \cup {"unused", "fresh", "idle", "leaving", "inside"}
      BY DEF OnConnection
    <3> QED BY <1>0, <3>1, <3>2, <3>3 DEF Types, CallRecord
  <2> QED BY <2>1, <2>2
<1>7. Types'
  <2>1. guard' \in [Scope -> GuardRecord]
    BY <1>0, <1>1, <1>2 DEF Types, GuardRecord
  <2> QED BY <1>0, <1>6, <2>1 DEF Types, CallRecord, GuardRecord
<1>8. Live' = Live \ {s}
  BY <1>0, <1>1, <1>2 DEF Live
<1>9. \A j \in Call : Open(j)' <=> Open(j)
  <2>1. s \in Call => call'[s].state \notin Ended
    BY <1>6 DEF Ended
  <2> QED BY <1>5, <1>6, <2>1 DEF Open, Going
<1>u. \A t : Uncounted(t)' = Uncounted(t)
  BY <1>6 DEF Uncounted
<1>10. ASSUME NEW t PROVE Unsettled(t)' = Unsettled(t)
  <2>1. Unsettled(t)' = {j \in Call : call'[j].scope = t /\ Open(j)'}
    BY <1>7, UnsettledNext
  <2>2. Unsettled(t) = {j \in Call : call[j].scope = t /\ Open(j)}
    BY <1>0, UnsettledIs
  <2> QED BY <1>6, <1>9, <2>1, <2>2
<1>11. ASSUME NEW j \in Call PROVE CallFits(j)'
  <2>1. CallFits(j) /\ call[j].scope \in Scope
    BY <1>0 DEF Inv, Types, CallRecord
  <2>2. Open(j) => call[j].scope # s
    BY <1>3
  <2>3. PICK c, d, p : c = call[j] /\ d = call'[j] /\ p = call[j].scope
    OBVIOUS
  <2>4. /\ Fits(c, guard[p].stage, guard[p].failed) /\ p \in Scope
        /\ p = s => ~Going(c)
        /\ d.kind = c.kind /\ d.scope = p /\ d.done = c.done /\ d.requests = c.requests
    BY <1>6, <2>1, <2>2, <2>3 DEF CallFits, Open
  <2>5. Fits(d, guard[p].stage, guard[p].failed) /\ (p = s => ~Going(d))
    <3>1. CASE j = s
      <4>1. c.kind = "savepoint" /\ Going(c) /\ d.state \in {"releasing", "undoing"} /\ p # s
        BY <1>5, <1>6, <2>3, <3>1 DEF Open
      <4> QED BY <2>4, <4>1 DEF Fits, Going, KindOfState, Ended
    <3>2. CASE j # s
      BY <1>6, <2>3, <2>4, <3>2
    <3> QED BY <3>1, <3>2
  <2>6. Fits(d, guard'[p].stage, guard'[p].failed)
    <3>1. CASE p = s
      <4>1. guard[p].stage = "returning" /\ guard'[p].stage = "settled" /\ guard'[p].failed = guard[p].failed
        BY <1>0, <1>2, <3>1
      <4> QED BY <2>5, <3>1, <4>1 DEF Fits
    <3>2. CASE p # s
      BY <1>1, <2>4, <2>5, <3>2
    <3> QED BY <3>1, <3>2
  <2>7. issued' < j => d.kind = "none"
    BY <1>0, <2>1, <2>3, <2>4 DEF CallFits
  <2> QED BY <2>3, <2>4, <2>6, <2>7 DEF CallFits
<1>12. ASSUME NEW j \in Call PROVE ScopeOf(j)'
  <2>1. ScopeOf(j) /\ j \in Scope /\ call[j].scope \in Scope
    BY <1>0, FiniteCalls DEF Inv, Types, CallRecord
  <2>2. ASSUME Open(j), call[j].kind = "savepoint"
        PROVE  guard'[call'[j].scope].savepoint /\ Unsettled(call[j].scope)' = {j}
    <3>1. call[j].scope # s
      BY <1>3, <2>2
    <3> QED BY <1>1, <1>6, <1>10, <2>1, <2>2, <3>1 DEF ScopeOf
  <2>3. j \in Live' <=> call'[j].state = "inside"
    BY <1>6, <1>8, <2>1 DEF ScopeOf
  <2>4. guard'[j].stage # "none" => call'[j].kind = "savepoint" /\ call'[j].state # "starting"
    BY <1>0, <1>1, <1>5, <1>6, <2>1 DEF ScopeOf
  <2> QED BY <1>6, <1>9, <2>2, <2>3, <2>4 DEF ScopeOf
<1>13. ASSUME NEW t \in Scope PROVE GuardFits(t)'
  <2>1. GuardFits(t) /\ Uncounted(t)' = Uncounted(t)
    BY <1>u DEF Inv
  <2>2. Operations(t)' = Operations(t) /\ Streams(t)' = Streams(t)
    BY <1>6 DEF Operations, Streams
  <2>3. \A j \in Operations(t) \cup Streams(t) : j \in Call /\ call[j].scope = t
    BY DEF Operations, Streams
  <2>4. guard[t].passed => s \notin Operations(t) \cup Streams(t)
    BY <1>5, <2>1, <2>3 DEF GuardFits, Open, Going
  <2>5. CASE t # s
    BY <1>1, <1>6, <2>1, <2>2, <2>3, <2>4, <2>5 DEF GuardFits
  <2>6. CASE t = s
    <3>1. guard[s].open = FALSE
      BY <1>0, <1>1, <2>1, <2>6 DEF GuardFits, GuardRecord
    <3>2. GuardFits(s)'
      BY <1>2, <1>6, <2>1, <2>2, <2>3, <2>4, <2>6, <3>1 DEF GuardFits
    <3> QED BY <2>6, <3>2
  <2> QED BY <2>5, <2>6
<1>14. OnePath'
  <2>1. Leaf(s)
    <3>1. ASSUME NEW d \in Call \cap Live, call[d].scope = s PROVE FALSE
      <4>1. call[d].state = "inside" /\ CallFits(d)
        BY DEF Inv, ScopeOf
      <4>2. Open(d)
        BY <4>1 DEF CallFits, Fits, KindOfState, Open, Going, Ended
      <4> QED BY <1>3, <3>1, <4>2
    <3> QED BY <1>0, <3>1 DEF Leaf
  <2>2. ASSUME NEW t \in Scope, Leaf(t)' PROVE s \in Call /\ t = call[s].scope
    <3>1. t \in Live /\ t # s /\ \A d \in Call \cap (Live \ {s}) : call[d].scope # t
      BY <1>6, <1>8, <2>2 DEF Leaf
    <3>2. ~Leaf(t)
      BY <2>1, <3>1 DEF Inv, OnePath
    <3> QED BY <3>1, <3>2 DEF Leaf
  <2> QED BY <2>2 DEF OnePath
<1> QED BY <1>7, <1>11, <1>12, <1>13, <1>14 DEF Inv

-----------------------------------------------------------------------------
(* The steps of a call. *)

\* What the state of a call says of it.
LEMMA StateTells ==
    ASSUME Inv, NEW i \in Call
    PROVE  /\ call[i].state = "running" => call[i].kind = "operation" /\ Open(i)
           /\ call[i].state \in {"starting", "releasing", "undoing"} => call[i].kind = "savepoint" /\ Open(i)
           /\ call[i].state \in {"fresh", "idle", "resumed", "leaving"} => call[i].kind = "stream" /\ Open(i)
           /\ call[i].state \in {"resumed", "leaving"} => call[i].requests # <<>>
           /\ call[i].requests # <<>> => call[i].kind = "stream"
<1>1. CallFits(i)
  BY DEF Inv
<1> QED BY <1>1 DEF CallFits, Fits, KindOfState, Open, Going, Ended

\* The guard of a call has nothing to note.
LEMMA NothingNoted ==
    ASSUME Inv, NEW i \in Call, NEW c, guard' = guard, c.done = call[i].done
    PROVE  Notes(i, c, guard[call[i].scope])
<1>1. PICK p, old : p = call[i].scope /\ old = guard[p]
  OBVIOUS
<1>2. p \in Scope /\ old \in GuardRecord /\ guard \in [Scope -> GuardRecord]
  BY <1>1 DEF Inv, Types, CallRecord
<1>3. /\ guard' = [guard EXCEPT ![p] = old]
      /\ old = [old EXCEPT !.pending = @, !.failed = old.failed, !.savepoint = old.savepoint]
      /\ old.failed \in BOOLEAN /\ old.savepoint \in BOOLEAN
  BY <1>1, <1>2 DEF GuardRecord
<1> QED BY <1>1, <1>3 DEF Notes

\* A promise of the call settles: the guard counts it down if nothing has before.
LEMMA CountedNotes ==
    ASSUME Inv, NEW i \in Call, NEW c, NEW error \in BOOLEAN, Counted(i, error), c.done,
           c.kind = call[i].kind,
           c.kind = "savepoint" => c.state \in Ended /\ call[i].state \notin Ended
    PROVE  \E g : /\ Notes(i, c, g)
                  /\ guard[call[i].scope].failed => g.failed
                  /\ error /\ c.kind # "savepoint" => g.failed
<1>1. PICK p, old : p = call[i].scope /\ old = guard[p]
  OBVIOUS
<1>2. /\ p \in Scope /\ old \in GuardRecord /\ guard \in [Scope -> GuardRecord]
      /\ call[i].done \in BOOLEAN
  BY <1>1 DEF Inv, Types, CallRecord
<1> DEFINE g == [old EXCEPT !.pending = @ - Down(i),
                            !.failed = Remembers(@, call[i].kind, error),
                            !.savepoint = IF call[i].kind = "savepoint" THEN FALSE ELSE @]
<1>3. guard' = [guard EXCEPT ![p] = g]
  <2>1. guard' = [guard EXCEPT ![p].pending = @ - Down(i),
                               ![p].failed = Remembers(@, call[i].kind, error),
                               ![p].savepoint = IF call[i].kind = "savepoint" THEN FALSE ELSE @]
    BY <1>1 DEF Counted
  <2> QED BY <1>1, <1>2, <2>1
<1>4. /\ g.pending = IF c.done /\ ~call[i].done THEN old.pending - 1 ELSE old.pending
      /\ g.failed = (old.failed \/ (error /\ call[i].kind # "savepoint"))
      /\ g.savepoint = IF call[i].kind = "savepoint" THEN FALSE ELSE old.savepoint
      /\ g = [old EXCEPT !.pending = g.pending, !.failed = g.failed, !.savepoint = g.savepoint]
  <2>1. old.pending \in Int
    BY <1>2, GuardAssumption DEF GuardRecord
  <2> QED BY <1>2, <2>1 DEF GuardRecord, Remembers, Down
<1> HIDE DEF g
<1>5. Notes(i, c, g)
  <2>1. g.failed \in BOOLEAN /\ (old.failed => g.failed) /\ g.savepoint \in BOOLEAN
    BY <1>2, <1>4 DEF GuardRecord
  <2>2. \/ g.savepoint = old.savepoint
        \/ c.kind = "savepoint" /\ c.state \in Ended /\ call[i].state \notin Ended
    BY <1>4
  <2> QED BY <1>1, <1>3, <1>4, <2>1, <2>2 DEF Notes
<1> QED BY <1>1, <1>4, <1>5

\* A request of the application.
LEMMA AskKeeps ==
    ASSUME Inv, NEW i \in Call, NEW r \in {"next", "return", "throw"}, Ask(i, r)
    PROVE  Inv'
<1>1. PICK c, d : c = call[i] /\ d = Enqueued(c, r)
  OBVIOUS
<1>2. /\ c \in CallRecord /\ c.kind = "stream" /\ r \in Request /\ r # "settle"
      /\ Fits(c, guard[c.scope].stage, guard[c.scope].failed)
      /\ call' = [call EXCEPT ![i] = d] /\ issued' = issued /\ guard' = guard
  BY <1>1 DEF Inv, Types, CallFits, Ask, Request
<1>3. /\ d.kind = c.kind /\ d.scope = c.scope /\ d.done = c.done /\ d \in CallRecord
      /\ d.requests # <<>>
      /\ HasSettle(d.requests) <=> HasSettle(c.requests)
      /\ d.state = c.state
         \/ (c.state \in {"fresh", "idle"} /\ d.state \in {"resumed", "leaving"})
  BY <1>1, <1>2, EnqueuedIs
<1>4. KindOfState(c.kind, c.state)
  BY <1>2 DEF Fits
<1>5. Follows(i, d)
  <2>1. c.state \notin {"inside", "starting"}
    BY <1>2, <1>4 DEF KindOfState
  <2>2. c.state \in Ended => d.state = c.state
    BY <1>3 DEF Ended
  <2> QED BY <1>1, <1>2, <1>3, <2>1, <2>2 DEF Follows
<1>6. Fits(d, guard[c.scope].stage, guard[c.scope].failed)
  <2>1. /\ Going(d) <=> Going(c)
        /\ d.state = "failed" => c.state = "failed"
    BY <1>3 DEF Going, Ended
  <2>2. KindOfState(d.kind, d.state)
    BY <1>2, <1>3, <1>4 DEF KindOfState
  <2> QED BY <1>2, <1>3, <2>1, <2>2 DEF Fits
<1>7. Notes(i, d, guard[c.scope])
  BY <1>1, <1>2, <1>3, NothingNoted
<1> QED BY <1>1, <1>2, <1>3, <1>5, <1>6, <1>7, ChangeKeeps

\* A generator yields, and goes on with what waits.
LEMMA YieldsKeep ==
    ASSUME Inv, NEW i \in Call, Yields(i)
    PROVE  Inv'
<1>1. PICK c, q, state : /\ c = call[i] /\ q = Tail(c.requests)
                         /\ state = IF Len(c.requests) = 1 THEN "idle" ELSE "resumed"
  OBVIOUS
<1>2. /\ c \in CallRecord /\ c.kind = "stream" /\ Open(i) /\ c.state = "resumed"
      /\ c.requests # <<>> /\ Head(c.requests) = "next"
      /\ Fits(c, guard[c.scope].stage, guard[c.scope].failed)
  BY <1>1, StateTells DEF Inv, Types, CallFits, Yields
<1>3. /\ q \in Seq(Request) /\ (HasSettle(q) <=> HasSettle(c.requests))
      /\ state \in {"idle", "resumed"} /\ (state = "resumed" => q # <<>>)
  BY <1>1, <1>2, TailHas DEF CallRecord
<1>4. PICK d : d = [c EXCEPT !.requests = q, !.state = state]
  OBVIOUS
<1>5. /\ d.kind = c.kind /\ d.scope = c.scope /\ d.done = c.done /\ d.requests = q
      /\ d.state = state /\ d \in CallRecord
  <2>1. state \in OnConnection \cup Ended \cup {"unused", "fresh", "idle", "leaving", "inside"}
    BY <1>3 DEF OnConnection
  <2> QED BY <1>2, <1>3, <1>4, <2>1 DEF CallRecord
<1>6. call' = [call EXCEPT ![i] = d] /\ issued' = issued /\ guard' = guard
  BY <1>1, <1>2, <1>4 DEF Yields, Inv, Types, CallRecord
<1>7. Follows(i, d)
  BY <1>1, <1>2, <1>3, <1>5 DEF Follows, Ended
<1>8. Fits(d, guard[c.scope].stage, guard[c.scope].failed)
  BY <1>2, <1>3, <1>5 DEF Fits, Going, KindOfState, Ended
<1>9. Notes(i, d, guard[c.scope])
  BY <1>1, <1>5, <1>6, NothingNoted
<1> QED BY <1>1, <1>5, <1>6, <1>7, <1>8, <1>9, ChangeKeeps

\* A request of an iterator is answered, which has ended by then.
LEMMA AnswerKeeps ==
    ASSUME Inv, NEW i \in Call, NEW state \in Ended, NEW error \in BOOLEAN,
           call[i].kind = "stream", call[i].requests # <<>>,
           call[i].state \in Ended => state = call[i].state,
           state = "failed" /\ call[i].state # "failed" => error /\ Head(call[i].requests) # "settle",
           Answer(i, state, error)
    PROVE  Inv'
<1>1. PICK c, q, own : /\ c = call[i] /\ q = Tail(c.requests)
                       /\ own = (Head(c.requests) = "settle")
  OBVIOUS
<1>2. /\ c \in CallRecord /\ c.kind = "stream" /\ c.requests # <<>> /\ c.scope \in Scope
      /\ Fits(c, guard[c.scope].stage, guard[c.scope].failed)
  BY <1>1 DEF Inv, Types, CallFits, CallRecord
<1>3. /\ q \in Seq(Request) /\ (HasSettle(c.requests) <=> own \/ HasSettle(q))
      /\ own \in BOOLEAN
  BY <1>1, <1>2, TailHas DEF CallRecord
<1>4. PICK d : d = [c EXCEPT !.requests = q, !.state = state, !.done = c.done \/ ~own]
  OBVIOUS
<1>5. /\ d.kind = c.kind /\ d.scope = c.scope /\ d.done = (c.done \/ ~own) /\ d.requests = q
      /\ d.state = state /\ d \in CallRecord
  BY <1>2, <1>3, <1>4 DEF CallRecord
<1>6. call' = [call EXCEPT ![i] = d] /\ issued' = issued
  <2>1. call' = [call EXCEPT ![i].requests = Tail(@), ![i].state = state, ![i].done = @ \/ ~own]
    BY <1>1 DEF Answer
  <2>2. call \in [Call -> CallRecord]
    BY DEF Inv, Types
  <2>3. call' = [call EXCEPT ![i] = [c EXCEPT !.requests = q, !.state = state, !.done = c.done \/ ~own]]
    BY <1>1, <1>2, <2>1, <2>2 DEF CallRecord
  <2> QED BY <1>4, <2>3 DEF Answer
<1>7. Follows(i, d)
  <2>1. KindOfState(c.kind, c.state)
    BY <1>2 DEF Fits
  <2>2. c.state # "inside" /\ state \notin {"inside", "starting"}
    BY <1>2, <2>1 DEF KindOfState, Ended
  <2> QED BY <1>1, <1>2, <1>5, <2>2 DEF Follows
<1>8. \E g : /\ Notes(i, d, g)
             /\ guard[c.scope].failed => g.failed
             /\ error /\ ~own => g.failed
  <2>1. CASE own
    <3>1. guard' = guard /\ d.done = c.done
      BY <1>1, <1>2, <1>5, <2>1 DEF Answer, CallRecord
    <3>2. Notes(i, d, guard[c.scope])
      BY <1>1, <3>1, NothingNoted
    <3> QED BY <2>1, <3>2
  <2>2. CASE ~own
    <3>1. Counted(i, error) /\ d.done
      BY <1>1, <1>5, <2>2 DEF Answer
    <3>2. d.kind = call[i].kind /\ d.kind # "savepoint"
      BY <1>1, <1>2, <1>5
    <3>3. \E g : /\ Notes(i, d, g)
                 /\ guard[call[i].scope].failed => g.failed
                 /\ error /\ d.kind # "savepoint" => g.failed
      BY <3>1, <3>2, CountedNotes
    <3> QED BY <1>1, <3>2, <3>3
  <2> QED BY <1>3, <2>1, <2>2
<1>9. PICK g : /\ Notes(i, d, g)
               /\ guard[c.scope].failed => g.failed
               /\ error /\ ~own => g.failed
  BY <1>8
<1>10. Fits(d, guard[c.scope].stage, g.failed)
  <2>1. KindOfState(d.kind, d.state) /\ ~Going(d) /\ d.state \notin {"resumed", "leaving"}
    BY <1>2, <1>5 DEF KindOfState, Going, Ended
  <2>2. ~d.done => guard[c.scope].stage \in {"returning", "settled"}
    BY <1>2, <1>3, <1>5 DEF Fits
  <2>3. d.state = "failed" => g.failed
    BY <1>1, <1>2, <1>5, <1>9 DEF Fits
  <2> QED BY <1>2, <1>3, <1>5, <2>1, <2>2, <2>3 DEF Fits
<1> QED BY <1>1, <1>5, <1>6, <1>7, <1>9, <1>10, ChangeKeeps

\* The promise of an operation or a savepoint settles.
LEMMA SettlesKeep ==
    ASSUME Inv, NEW i \in Call, NEW state \in {"succeeded", "failed"}, NEW error \in BOOLEAN,
           Settles(i, state, error), Open(i), call[i].kind \in {"operation", "savepoint"},
           call[i].state # "inside", error <=> state = "failed"
    PROVE  Inv'
<1>1. PICK c : c = call[i]
  OBVIOUS
<1>2. /\ c \in CallRecord /\ c.kind \in {"operation", "savepoint"} /\ c.scope \in Scope
      /\ Fits(c, guard[c.scope].stage, guard[c.scope].failed) /\ Going(c)
  BY <1>1 DEF Inv, Types, CallFits, CallRecord, Open
<1>3. PICK d : d = [c EXCEPT !.state = state, !.done = TRUE]
  OBVIOUS
<1>4. /\ d.kind = c.kind /\ d.scope = c.scope /\ d.done /\ d.requests = c.requests
      /\ d.state = state /\ d \in CallRecord
  BY <1>2, <1>3 DEF CallRecord, Ended
<1>5. call' = [call EXCEPT ![i] = d] /\ issued' = issued /\ Counted(i, error)
  BY <1>1, <1>3 DEF Settles, Inv, Types, CallRecord
<1>6. c.state \notin Ended /\ state \in Ended
  BY <1>2 DEF Going, Ended
<1>7. Follows(i, d)
  BY <1>1, <1>2, <1>4, <1>6 DEF Follows
<1>8. PICK g : /\ Notes(i, d, g)
               /\ guard[call[i].scope].failed => g.failed
               /\ error /\ d.kind # "savepoint" => g.failed
  BY <1>1, <1>4, <1>5, <1>6, CountedNotes
<1>9. Fits(d, guard[c.scope].stage, g.failed)
  BY <1>1, <1>2, <1>4, <1>6, <1>8 DEF Fits, Going, KindOfState
<1> QED BY <1>1, <1>4, <1>5, <1>7, <1>8, <1>9, ChangeKeeps

\* RELEASE SAVEPOINT fails, and the savepoint is rolled back to.
LEMMA UndoKeeps ==
    ASSUME Inv, NEW i \in Call, call[i].state = "releasing", CallIs(i, "undoing"),
           UNCHANGED <<issued, guard>>
    PROVE  Inv'
<1>1. PICK c, d : c = call[i] /\ d = [c EXCEPT !.state = "undoing"]
  OBVIOUS
<1>2. /\ c \in CallRecord /\ c.kind = "savepoint" /\ c.scope \in Scope /\ c.state = "releasing"
      /\ Fits(c, guard[c.scope].stage, guard[c.scope].failed)
  BY <1>1, StateTells DEF Inv, Types, CallFits, CallRecord
<1>3. /\ d.kind = c.kind /\ d.scope = c.scope /\ d.done = c.done /\ d.requests = c.requests
      /\ d.state = "undoing" /\ d \in CallRecord
  BY <1>1, <1>2 DEF CallRecord, OnConnection
<1>4. call' = [call EXCEPT ![i] = d]
  BY <1>1 DEF CallIs, Inv, Types
<1>5. Follows(i, d)
  BY <1>1, <1>2, <1>3 DEF Follows, Ended
<1>6. Fits(d, guard[c.scope].stage, guard[c.scope].failed)
  BY <1>2, <1>3 DEF Fits, Going, KindOfState, Ended
<1>7. Notes(i, d, guard[c.scope])
  BY <1>1, <1>3, NothingNoted
<1> QED BY <1>1, <1>3, <1>4, <1>5, <1>6, <1>7, ChangeKeeps

-----------------------------------------------------------------------------
(* The invariant. *)

LEMMA InvInit == Init => Inv
<1> SUFFICES ASSUME Init PROVE Inv
  OBVIOUS
<1>0. /\ issued = 0 /\ Root \notin Call /\ Call \subseteq Scope /\ Root \in Scope
      /\ \A i \in Call : call[i] = Unused
      /\ guard[Root] = Opened /\ \A s \in Scope \ {Root} : guard[s] = Closed
  BY FiniteCalls DEF Init, Root, Call
<1>1. 0 \in 0 .. MaxCalls
  BY GuardAssumption
<1>2. /\ Closed \in GuardRecord /\ Closed.pending = 0 /\ ~Closed.savepoint /\ ~Closed.failed
      /\ ~Closed.passed /\ ~Closed.open /\ Closed.stage = "none"
  BY <1>1 DEF Closed, GuardRecord
<1>3. /\ Opened \in GuardRecord /\ Opened.pending = 0 /\ ~Opened.savepoint /\ ~Opened.failed
      /\ ~Opened.passed /\ Opened.stage = "callback"
  <2>1. Opened = [Closed EXCEPT !.open = TRUE, !.stage = "callback"]
    BY DEF Opened
  <2> QED BY <1>2, <2>1 DEF GuardRecord
<1>4. /\ Unused \in CallRecord /\ Unused.kind = "none" /\ Unused.state = "unused" /\ Unused.requests = <<>>
  <2>1. <<>> \in Seq(Request)
    BY EmptySeq
  <2> QED BY <1>0, <2>1 DEF Unused, CallRecord
<1>5. Types
  BY <1>0, <1>1, <1>2, <1>3, <1>4 DEF Types, Init, CallRecord, GuardRecord
<1>6. \A i \in Call : ~Open(i)
  BY <1>0, <1>4 DEF Open, Going
<1>7. Live = {Root}
  BY <1>0, <1>2, <1>3 DEF Live
<1>8. ASSUME NEW i \in Call PROVE CallFits(i) /\ ScopeOf(i)
  <2>1. call[i] = Unused /\ guard[i].stage = "none" /\ i \notin Live
    BY <1>0, <1>2, <1>7
  <2>2. ~HasSettle(<<>>)
    BY DEF HasSettle
  <2>3. Fits(Unused, guard[call[i].scope].stage, guard[call[i].scope].failed)
    BY <1>4, <2>2 DEF Fits, Going, KindOfState
  <2> QED BY <1>4, <1>6, <2>1, <2>3 DEF CallFits, ScopeOf
<1>9. ASSUME NEW s \in Scope PROVE GuardFits(s)
  <2>1. Uncounted(s) = {}
    BY <1>0, <1>4 DEF Uncounted
  <2>2. Cardinality(Uncounted(s)) = 0
    BY <2>1, FS_EmptySet
  <2>3. guard[s].pending = 0 /\ ~guard[s].passed /\ (guard[s].open => guard[s].stage = "callback")
    BY <1>0, <1>2, <1>3
  <2> QED BY <2>2, <2>3 DEF GuardFits
<1>10. OnePath
  BY <1>7 DEF OnePath, Leaf
<1> QED BY <1>5, <1>8, <1>9, <1>10 DEF Inv

LEMMA InvNext == Inv /\ [Next]_vars => Inv'
<1> SUFFICES ASSUME Inv, [Next]_vars PROVE Inv'
  OBVIOUS
<1>1. CASE UNCHANGED vars
  <2>1. UNCHANGED <<issued, call, guard>> /\ guard' \in [Scope -> GuardRecord]
    BY <1>1 DEF vars, Inv, Types, GuardRecord
  <2>2. \A s \in Scope : guard[s].open => guard[s].stage = "callback"
    BY DEF Inv, GuardFits
  <2>3. \A s \in Scope : GuardMoves(s)
    BY <2>1, <2>2 DEF GuardMoves
  <2> QED BY <2>1, <2>3, GuardsKeep
<1>2. ASSUME NEW s \in Scope, Operation(s) PROVE Inv'
  <2>1. KindOfState("operation", "running")
    BY DEF KindOfState
  <2> QED BY <1>2, <2>1, MakeKeeps DEF Operation
<1>3. ASSUME NEW s \in Scope, OpenStream(s) PROVE Inv'
  <2>1. KindOfState("stream", "fresh")
    BY DEF KindOfState
  <2> QED BY <1>3, <2>1, MakeKeeps DEF OpenStream
<1>4. ASSUME NEW s \in Scope, Savepoint(s) PROVE Inv'
  <2>1. KindOfState("savepoint", "starting")
    BY DEF KindOfState
  <2> QED BY <1>4, <2>1, MakeKeeps DEF Savepoint
<1>5. ASSUME NEW s \in Scope, ThrowsAtOnce(s) PROVE Inv'
  BY <1>5, ThrowsKeep
<1>6. ASSUME NEW s \in Scope, CallbackEnds(s) PROVE Inv'
  BY <1>6, CallbackEndsKeeps
<1>7. ASSUME NEW s \in Scope, ReturnStreams(s) PROVE Inv'
  BY <1>7, ReturnStreamsKeeps
<1>8. ASSUME NEW s \in Scope, Settled(s) PROVE Inv'
  BY <1>8, SettledKeeps
<1>9. ASSUME NEW i \in Call, Enter(i) PROVE Inv'
  BY <1>9, EnterKeeps
<1>10. ASSUME NEW i \in Call, Pull(i) PROVE Inv'
  BY <1>10, AskKeeps DEF Pull
<1>11. ASSUME NEW i \in Call, Return(i) PROVE Inv'
  BY <1>11, AskKeeps DEF Return
<1>12. ASSUME NEW i \in Call, Throw(i) PROVE Inv'
  BY <1>12, AskKeeps DEF Throw
<1>13. ASSUME NEW i \in Call, Yields(i) PROVE Inv'
  BY <1>13, YieldsKeep
<1>14. ASSUME NEW i \in Call, GeneratorEnds(i) PROVE Inv'
  <2>1. PICK state \in Outcomes[Head(call[i].requests)] : Answer(i, state, state = "failed")
    BY <1>14 DEF GeneratorEnds
  <2>2. /\ call[i].state \in {"resumed", "leaving"} /\ call[i].kind = "stream"
        /\ call[i].requests # <<>> /\ Head(call[i].requests) \in Request
    BY <1>14, StateTells, TailHas DEF GeneratorEnds, Inv, Types, CallRecord
  <2>3. state \in Ended /\ (state = "failed" => Head(call[i].requests) # "settle")
    BY <2>1, <2>2 DEF Outcomes, Request, Ended
  <2>4. call[i].state \notin Ended
    BY <2>2 DEF Ended
  <2> QED BY <2>1, <2>2, <2>3, <2>4, AnswerKeeps
<1>15. ASSUME NEW i \in Call, AnswersLate(i) PROVE Inv'
  <2>1. /\ call[i].state \in Ended /\ call[i].requests # <<>> /\ call[i].kind = "stream"
        /\ Answer(i, call[i].state, Head(call[i].requests) = "throw")
    BY <1>15, StateTells DEF AnswersLate
  <2> QED BY <2>1, AnswerKeeps
<1>16. ASSUME NEW i \in Call, OperationEnds(i) PROVE Inv'
  <2>1. call[i].state = "running" /\ call[i].kind = "operation" /\ Open(i)
    BY <1>16, StateTells DEF OperationEnds
  <2>2. CASE Settles(i, "succeeded", FALSE)
    BY <2>1, <2>2, SettlesKeep
  <2>3. CASE Settles(i, "failed", TRUE)
    BY <2>1, <2>3, SettlesKeep
  <2> QED BY <1>16, <2>2, <2>3 DEF OperationEnds
<1>17. ASSUME NEW i \in Call, SavepointFails(i) PROVE Inv'
  <2>1. call[i].state = "starting" /\ call[i].kind = "savepoint" /\ Open(i) /\ Settles(i, "failed", TRUE)
    BY <1>17, StateTells DEF SavepointFails
  <2> QED BY <2>1, SettlesKeep
<1>18. ASSUME NEW i \in Call, SavepointEnds(i) PROVE Inv'
  <2>0. call[i].state \in {"releasing", "undoing"} /\ call[i].kind = "savepoint" /\ Open(i)
    BY <1>18, StateTells DEF SavepointEnds
  <2>1. CASE Settles(i, "succeeded", FALSE)
    BY <2>0, <2>1, SettlesKeep
  <2>2. CASE call[i].state = "releasing" /\ CallIs(i, "undoing") /\ UNCHANGED <<issued, guard>>
    BY <2>2, UndoKeeps
  <2>3. CASE Settles(i, "failed", TRUE)
    BY <2>0, <2>3, SettlesKeep
  <2> QED BY <1>18, <2>1, <2>2, <2>3 DEF SavepointEnds
<1> QED BY <1>1, <1>2, <1>3, <1>4, <1>5, <1>6, <1>7, <1>8, <1>9, <1>10, <1>11, <1>12, <1>13, <1>14,
           <1>15, <1>16, <1>17, <1>18 DEF Next, CallGoesOn, ScopeGoesOn

\* In every state of the guard, the scopes that have not settled form one path.
THEOREM GuardInvariance == Spec => []Inv
<1> QED BY InvInit, InvNext, PTL DEF Spec

-----------------------------------------------------------------------------
(* What the guard promises. *)

\* Every variable has its type, and pending is the number of unsettled calls of
\* the scope until settle returns its iterators (guard.ts:32-126).
THEOREM TypeCorrect == Spec => []TypeOK
<1>1. Inv => TypeOK
  BY UncountedIs DEF Inv, Types, CallRecord, GuardRecord, Request, GuardFits, TypeOK
<1> QED BY <1>1, GuardInvariance, PTL

\* A scope that lives lies in scopes that live.
LEMMA LiveSurround ==
    ASSUME Inv
    PROVE  Live \in SUBSET Scope /\ Surrounding(Live)
<1>1. ASSUME NEW d \in Live \ {Root} PROVE call[d].scope \in Live
  <2>1. d \in Call
    BY <1>1 DEF Live, Scope
  <2>2. call[d].state = "inside" /\ CallFits(d)
    BY <1>1, <2>1 DEF Inv, ScopeOf
  <2>3. Open(d)
    BY <2>2 DEF CallFits, Fits, KindOfState, Open, Going, Ended
  <2>4. call[d].scope \in Scope
    BY <2>1 DEF Inv, Types, CallRecord
  <2> QED BY <2>2, <2>3, <2>4 DEF CallFits, Fits, Open, Live
<1> QED BY <1>1 DEF Surrounding, Live

\* A call on the connection is an open one.
LEMMA InFlightIsOpen ==
    ASSUME Inv, NEW i \in Call, InFlight(i)
    PROVE  Open(i) /\ call[i].scope \in Live /\ i \in Unsettled(call[i].scope) /\ call[i].state # "inside"
<1>1. CallFits(i) /\ Types
  BY DEF Inv
<1>2. Open(i) /\ call[i].state # "inside"
  BY <1>1 DEF CallFits, Fits, KindOfState, InFlight, OnConnection, Ended, Open, Going
<1> QED BY <1>1, <1>2, UnsettledIs DEF CallFits, Fits, Open, Live, Types, CallRecord

\* COMMIT, ROLLBACK, RELEASE and ROLLBACK TO are never overtaken by what was
\* started in the scope they end, or inside it (postgres/index.ts:346).
THEOREM SettledIsQuiet == Spec => []QuietOnceSettled
<1>1. ASSUME Inv PROVE QuietOnceSettled
  <2>1. ASSUME NEW s \in Scope, guard[s].stage = "settled", NEW i \in Call,
               s \in Enclosing(call[i].scope), InFlight(i)
        PROVE  FALSE
    <3>1. call[i].scope \in Live /\ Live \in SUBSET Scope /\ Surrounding(Live)
      BY <1>1, <2>1, InFlightIsOpen, LiveSurround
    <3>2. s \in Live
      BY <2>1, <3>1 DEF Enclosing
    <3> QED BY <2>1, <3>2 DEF Live
  <2> QED BY <2>1 DEF QuietOnceSettled
<1> QED BY <1>1, GuardInvariance, PTL

\* Statements of two scopes are never on the connection at the same time, so that
\* what a savepoint undoes is what was issued inside it.
THEOREM ConnectionServesOneScope == Spec => []OneScopeAtATime
<1>1. ASSUME Inv PROVE OneScopeAtATime
  <2>1. ASSUME NEW i \in Call, InFlight(i) PROVE Leaf(call[i].scope) /\ call[i].scope \in Scope
    <3>1. /\ call[i].scope \in Live /\ i \in Unsettled(call[i].scope) /\ call[i].state # "inside"
      BY <1>1, <2>1, InFlightIsOpen
    <3>2. ASSUME NEW d \in Call \cap Live, call[d].scope = call[i].scope PROVE FALSE
      <4>1. call[d].state = "inside" /\ CallFits(d) /\ ScopeOf(d)
        BY <1>1 DEF Inv, ScopeOf
      <4>2. Open(d) /\ call[d].kind = "savepoint"
        BY <4>1 DEF CallFits, Fits, KindOfState, Open, Going, Ended
      <4>3. Unsettled(call[i].scope) = {d}
        BY <3>2, <4>1, <4>2 DEF ScopeOf
      <4> QED BY <3>1, <4>1, <4>3
    <3> QED BY <3>1, <3>2 DEF Leaf, Live
  <2> QED BY <1>1, <2>1 DEF OneScopeAtATime, Inv, OnePath
<1> QED BY <1>1, GuardInvariance, PTL

\* When a scope passes, all that was called in it has ended, and what failed was
\* undone by its own savepoint: an error the application swallowed never commits.
THEOREM PassingMeansDone == Spec => []PassedMeansDone
<1>1. Inv => PassedMeansDone
  BY DEF Inv, GuardFits, PassedMeansDone
<1> QED BY <1>1, GuardInvariance, PTL
=============================================================================
