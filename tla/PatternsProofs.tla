--------------------------- MODULE PatternsProofs ---------------------------
(***************************************************************************)
(* Theorems about Patterns, for any number of calls and any stack of       *)
(* decorators, each as often as one likes and with any parameters.         *)
(***************************************************************************)
EXTENDS Patterns, FiniteSetTheorems, TLAPS

-----------------------------------------------------------------------------
(* What a call is in the loop of: the retries above the layer it is at,    *)
(* and the one it sleeps in.                                               *)
Nested(c) ==
    /\ pc[c] = "idle" => layer[c] = 1 /\ ctx[c] = <<>>
    /\ pc[c] \notin {"sleep", "done"} =>
          \A m \in Retries : attempt[c][m] > 0 <=> m < layer[c]
    /\ pc[c] = "sleep" =>
          /\ layer[c] \in Retries /\ TriesLeft(c, layer[c])
          /\ \A m \in Retries : attempt[c][m] > 0 <=> m <= layer[c]
    /\ pc[c] \in {"body", "unwind"} => layer[c] = Len(hook) + 1

TypeInv == TypeOK /\ \A c \in Calls : Nested(c)

(* A power of two, as the number of subsets of 1..n.                       *)
LEMMA PowerType ==
    ASSUME NEW n \in Nat
    PROVE  2 ^ n \in Nat
<1>1. IsFiniteSet(1..n) /\ Cardinality(1..n) = n
  BY FS_Interval
<1>2. IsFiniteSet(SUBSET (1..n)) /\ Cardinality(SUBSET (1..n)) = 2 ^ Cardinality(1..n)
  BY <1>1, FS_SUBSET
<1> QED
  BY <1>1, <1>2, FS_CardinalityType

(* The arguments of the decorators.                                        *)
LEMMA HookTyped ==
    ASSUME hook \in Hooks
    PROVE  /\ Places = 1..Len(hook) /\ Len(hook) \in Nat /\ Places \subseteq Nat \ {0}
           /\ \A m \in Places : hook[m] \in Decorators
           /\ Retries \subseteq Places /\ Limiters \subseteq Places /\ EditLayers \subseteq Places
           /\ Retries \cap EditLayers = {}
<1>1. hook \in Seq(Decorators)
  BY PatternsAssumption
<1> QED
  BY <1>1 DEF Places, Retries, Limiters, EditLayers

LEMMA RetryTyped ==
    ASSUME hook \in Hooks, NEW m \in Retries
    PROVE  hook[m].attempts \in Nat /\ hook[m].backoff \in Nat
<1>1. hook[m] \in Decorators /\ hook[m].kind = "retry"
  BY HookTyped DEF Retries
<1> QED
  BY <1>1 DEF Decorators

LEMMA LimiterTyped ==
    ASSUME hook \in Hooks, NEW m \in Limiters
    PROVE  hook[m].limit \in Nat /\ hook[m].window \in Nat
<1>1. hook[m] \in Decorators /\ hook[m].kind = "rate_limit"
  BY HookTyped DEF Limiters
<1> QED
  BY <1>1 DEF Decorators

(* The attempts of one call.                                               *)
LEMMA AttemptTyped ==
    ASSUME TypeOK, NEW c \in Calls
    PROVE  /\ attempt[c] \in [Places -> Nat]
           /\ \A m \in Retries : attempt[c][m] \in Nat /\ attempt[c][m] <= hook[m].attempts
           /\ \A m \in Retries : hook[m].attempts \in Nat
<1>1. attempt[c] \in [Places -> Nat] /\ hook \in Hooks
  BY DEF TypeOK
<1>2. ASSUME NEW m \in Retries
      PROVE  attempt[c][m] \in Nat /\ hook[m].attempts \in Nat /\ attempt[c][m] <= hook[m].attempts
  <2>1. m \in Places /\ hook[m].attempts \in Nat /\ attempt[c][m] \in Nat
    BY <1>1, HookTyped, RetryTyped
  <2>2. attempt[c][m] = 0 \/ (m \in Retries /\ attempt[c][m] <= hook[m].attempts)
    BY <2>1 DEF TypeOK
  <2> QED
    BY <2>1, <2>2
<1> QED
  BY <1>1, <1>2

-----------------------------------------------------------------------------
(***************************************************************************)
(* What a step does to the call that takes it, whatever layer it is at.    *)
(***************************************************************************)
SameRuns(c) == seen'[c] = seen[c]

Ran(c, e) ==
    /\ pc[c] \in {"body", "unwind"}
    /\ seen'[c] = Append(seen[c], [tries |-> attempt[c], how |-> e])

Starts(c) ==
    /\ pc[c] = "idle" /\ pc'[c] = "down"
    /\ layer'[c] = layer[c] /\ ctx'[c] = ctx[c] /\ attempt'[c] = attempt[c]
    /\ given'[c] = given[c] /\ outcome'[c] = outcome[c] /\ SameRuns(c)

GoesOn(c) ==
    /\ pc[c] = "down" /\ pc'[c] = "down"
    /\ layer[c] \in Places \ Retries /\ layer'[c] = layer[c] + 1
    /\ ctx'[c] = IF layer[c] \in EditLayers THEN Edited(c) ELSE ctx[c]
    /\ attempt'[c] = attempt[c] /\ given'[c] = given[c]
    /\ outcome'[c] = outcome[c] /\ SameRuns(c)

Enters(c) ==
    /\ pc[c] = "down" /\ pc'[c] = "down"
    /\ layer[c] \in Retries /\ hook[layer[c]].attempts # 0
    /\ layer'[c] = layer[c] + 1 /\ ctx'[c] = ctx[c]
    /\ attempt'[c] = [attempt[c] EXCEPT ![layer[c]] = 1]
    /\ given'[c] = [given[c] EXCEPT ![layer[c]] = ctx[c]]
    /\ outcome'[c] = outcome[c] /\ SameRuns(c)

Reaches(c) ==
    /\ pc[c] = "down" /\ pc'[c] = "body" /\ layer[c] = Len(hook) + 1
    /\ layer'[c] = layer[c] /\ ctx'[c] = ctx[c] /\ attempt'[c] = attempt[c]
    /\ given'[c] = given[c] /\ outcome'[c] = outcome[c] /\ SameRuns(c)

Finishes(c) ==
    /\ pc[c] \notin {"idle", "done"} /\ pc'[c] = "done"
    /\ outcome'[c] \in Outcomes \ {"none"}
    /\ layer'[c] = 1 /\ ctx'[c] = <<>> /\ attempt'[c] = attempt[c] /\ given'[c] = given[c]
    /\ outcome'[c] = "error" => pc[c] # "sleep" /\ Trying(c) = {}
    /\ \/ SameRuns(c) /\ outcome'[c] # "ok"
       \/ \E e \in Ends : Ran(c, e) /\ (outcome'[c] = "ok" => e = "ok")

FallsAsleep(c, m) ==
    /\ pc[c] \in {"down", "body", "unwind"} /\ pc'[c] = "sleep"
    /\ m \in Trying(c) /\ \A l \in Trying(c) : l <= m
    /\ layer'[c] = m /\ ctx'[c] = ctx[c] /\ given'[c] = given[c]
    /\ attempt'[c] = [l \in Places |-> IF l > m THEN 0 ELSE attempt[c][l]]
    /\ outcome'[c] = outcome[c]
    /\ SameRuns(c) \/ Ran(c, "error")

Wakes(c) ==
    /\ pc[c] = "sleep" /\ pc'[c] = "down"
    /\ layer'[c] = layer[c] + 1 /\ ctx'[c] = given[c][layer[c]]
    /\ attempt'[c] = [attempt[c] EXCEPT ![layer[c]] = @ + 1]
    /\ given'[c] = given[c] /\ outcome'[c] = outcome[c] /\ SameRuns(c)

Cancels(c) ==
    /\ pc[c] = "body" /\ pc'[c] = "unwind"
    /\ layer'[c] = layer[c] /\ ctx'[c] = ctx[c] /\ attempt'[c] = attempt[c]
    /\ given'[c] = given[c] /\ outcome'[c] = outcome[c] /\ SameRuns(c)

Move(c) ==
    \/ Starts(c) \/ GoesOn(c) \/ Enters(c) \/ Reaches(c) \/ Finishes(c)
    \/ (\E m \in Places : FallsAsleep(c, m))
    \/ Wakes(c) \/ Cancels(c)

(* The step leaves the call alone.                                         *)
Rests(d) ==
    /\ pc'[d] = pc[d] /\ layer'[d] = layer[d] /\ ctx'[d] = ctx[d] /\ attempt'[d] = attempt[d]
    /\ given'[d] = given[d] /\ outcome'[d] = outcome[d] /\ seen'[d] = seen[d]

Acts(c) ==
    \/ Call(c) \/ Layer(c) \/ Return(c) \/ Stop(c) \/ Fail(c) \/ Wake(c) \/ Expire(c)
    \/ Unwind(c)

(* A step of one call is its own.                                          *)
LEMMA OnlyOne ==
    ASSUME TypeOK, NEW c \in Calls, Acts(c)
    PROVE  /\ hook' = hook /\ \A d \in Calls \ {c} : Rests(d)
           /\ pc' = [d \in Calls |-> pc'[d]] /\ layer' = [d \in Calls |-> layer'[d]]
           /\ ctx' = [d \in Calls |-> ctx'[d]] /\ outcome' = [d \in Calls |-> outcome'[d]]
           /\ attempt' = [d \in Calls |-> attempt'[d]] /\ given' = [d \in Calls |-> given'[d]]
           /\ seen' = [d \in Calls |-> seen'[d]]
<1>1. /\ hook' = hook
      /\ \/ UNCHANGED pc \/ \E x : pc' = [pc EXCEPT ![c] = x]
      /\ \/ UNCHANGED layer \/ \E x : layer' = [layer EXCEPT ![c] = x]
      /\ \/ UNCHANGED ctx \/ \E x : ctx' = [ctx EXCEPT ![c] = x]
      /\ \/ UNCHANGED outcome \/ \E x : outcome' = [outcome EXCEPT ![c] = x]
  BY DEF Acts, Call, Layer, Inject, BlockIf, Redact, RequireTenant, RateLimit, Retry, Body,
         Return, Stop, Fail, Wake, Expire, Unwind, Below, End, Throw
<1>2. /\ \/ UNCHANGED attempt \/ \E x : attempt' = [attempt EXCEPT ![c] = x]
      /\ \/ UNCHANGED given \/ \E x : given' = [given EXCEPT ![c] = x]
      /\ \/ UNCHANGED seen \/ \E x : seen' = [seen EXCEPT ![c] = x]
  BY DEF Acts, Call, Layer, Inject, BlockIf, Redact, RequireTenant, RateLimit, Retry, Body,
         Return, Stop, Fail, Wake, Expire, Unwind, Throw, Saw
<1> QED
  BY <1>1, <1>2 DEF Rests, TypeOK

LEMMA BelowMoves ==
    ASSUME TypeOK, NEW c \in Calls, NEW x, Below(c, x), pc[c] = "down",
           layer[c] \in Places \ Retries,
           x = IF layer[c] \in EditLayers THEN Edited(c) ELSE ctx[c],
           UNCHANGED <<attempt, given, seen>>
    PROVE  GoesOn(c)
BY DEF Below, GoesOn, SameRuns, TypeOK

LEMMA EndMoves ==
    ASSUME TypeOK, NEW c \in Calls, NEW o \in Outcomes \ {"none", "ok"}, End(c, o),
           pc[c] \notin {"idle", "done"}, UNCHANGED <<attempt, given>>,
           o = "error" => pc[c] # "sleep" /\ Trying(c) = {},
           SameRuns(c) \/ \E e \in Ends : Ran(c, e)
    PROVE  Finishes(c)
BY DEF End, Finishes, TypeOK

LEMMA ThrowMoves ==
    ASSUME TypeOK, NEW c \in Calls, Throw(c), pc[c] \in {"down", "body", "unwind"},
           UNCHANGED given, SameRuns(c) \/ Ran(c, "error")
    PROVE  Finishes(c) \/ \E m \in Places : FallsAsleep(c, m)
<1>1. CASE Trying(c) = {}
  <2>1. End(c, "error") /\ UNCHANGED attempt
    BY <1>1 DEF Throw
  <2>2. "error" \in Outcomes \ {"none", "ok"} /\ "error" \in Ends
    BY DEF Outcomes, Ends
  <2> QED
    BY <1>1, <2>1, <2>2, EndMoves
<1>2. CASE Trying(c) # {}
  <2>1. PICK m \in Trying(c) :
           /\ \A l \in Trying(c) : l <= m
           /\ pc' = [pc EXCEPT ![c] = "sleep"]
           /\ layer' = [layer EXCEPT ![c] = m]
           /\ attempt' = [attempt EXCEPT ![c] = [l \in Places |-> IF l > m THEN 0 ELSE @[l]]]
           /\ UNCHANGED <<ctx, outcome>>
    BY <1>2 DEF Throw
  <2>2. m \in Places
    BY DEF Trying, Retries
  <2> QED
    BY <2>1, <2>2 DEF FallsAsleep, TypeOK
<1> QED
  BY <1>1, <1>2

LEMMA LayerMoves ==
    ASSUME TypeOK, NEW c \in Calls, Layer(c)
    PROVE  Move(c)
<1>1. /\ {"stopped", "limited", "degraded"} \subseteq Outcomes \ {"none", "ok", "error"}
      /\ pc[c] = "down"
  BY DEF Outcomes, Layer, Inject, BlockIf, Redact, RequireTenant, RateLimit, Retry, Body, AtLayer
<1>2. ASSUME NEW o \in {"stopped", "limited", "degraded"}, End(c, o),
             UNCHANGED <<attempt, given, seen>>
      PROVE  Finishes(c)
  BY <1>1, <1>2, EndMoves DEF SameRuns
<1>3. ASSUME NEW l \in {"inject", "redact"}, AtLayer(c, l), Below(c, Edited(c)),
             UNCHANGED <<attempt, given, seen>>
      PROVE  GoesOn(c)
  <2>1. layer[c] \in Places \ Retries /\ layer[c] \in EditLayers
    BY <1>3 DEF AtLayer, Places, Retries, EditLayers
  <2> QED
    BY <1>1, <1>3, <2>1, BelowMoves
<1>4. ASSUME NEW l \in {"block_if", "require_tenant", "rate_limit"}, AtLayer(c, l),
             Below(c, ctx[c]), UNCHANGED <<attempt, given, seen>>
      PROVE  GoesOn(c)
  <2>1. layer[c] \in Places \ Retries /\ layer[c] \notin EditLayers
    BY <1>4 DEF AtLayer, Places, Retries, EditLayers
  <2> QED
    BY <1>1, <1>4, <2>1, BelowMoves
<1>5. CASE Inject(c)
  BY <1>1, <1>2, <1>3, <1>5, ThrowMoves DEF Inject, Move, SameRuns
<1>6. CASE BlockIf(c)
  BY <1>1, <1>2, <1>4, <1>6, ThrowMoves DEF BlockIf, Move, SameRuns
<1>7. CASE Redact(c)
  BY <1>3, <1>7 DEF Redact, Move
<1>8. CASE RequireTenant(c)
  BY <1>2, <1>4, <1>8 DEF RequireTenant, Move
<1>9. CASE RateLimit(c)
  BY <1>2, <1>4, <1>9 DEF RateLimit, Move
<1>10. CASE Retry(c)
  <2>1. CASE hook[layer[c]].attempts = 0
    BY <1>1, <1>10, <2>1, ThrowMoves DEF Retry, Move, SameRuns
  <2>2. CASE hook[layer[c]].attempts # 0
    <3>1. layer[c] \in Retries
      BY <1>10 DEF Retry, AtLayer, Places, Retries
    <3>2. /\ attempt' = [attempt EXCEPT ![c][layer[c]] = 1]
          /\ given' = [given EXCEPT ![c][layer[c]] = ctx[c]]
          /\ Below(c, ctx[c]) /\ UNCHANGED seen
      BY <1>10, <2>2 DEF Retry
    <3> QED
      BY <1>1, <2>2, <3>1, <3>2 DEF Below, Enters, Move, SameRuns, TypeOK
  <2> QED
    BY <2>1, <2>2
<1>11. CASE Body(c)
  BY <1>11 DEF Body, Reaches, Move, SameRuns, TypeOK
<1> QED
  BY <1>5, <1>6, <1>7, <1>8, <1>9, <1>10, <1>11 DEF Layer

LEMMA Moves ==
    ASSUME TypeOK, NEW c \in Calls, Acts(c)
    PROVE  Move(c)
<1>0. {"stopped", "timeout"} \subseteq Outcomes \ {"none", "ok", "error"}
      /\ {"ok", "stopped", "error", "timeout"} \subseteq Ends /\ "ok" \in Outcomes \ {"none"}
  BY DEF Outcomes, Ends
<1>1. CASE Call(c)
  BY <1>1 DEF Call, Starts, Move, SameRuns, TypeOK
<1>2. ASSUME NEW e, Saw(c, e), InBody(c)
      PROVE  Ran(c, e)
  BY <1>2 DEF Saw, InBody, Ran, TypeOK
<1>3. CASE Return(c)
  <2>1. Ran(c, "ok") /\ End(c, "ok") /\ UNCHANGED <<attempt, given>> /\ pc[c] \in {"body", "unwind"}
    BY <1>2, <1>3 DEF Return, InBody
  <2> QED
    BY <1>0, <2>1 DEF End, Finishes, Move, TypeOK
<1>4. CASE Stop(c)
  BY <1>0, <1>2, <1>4, EndMoves DEF Stop, InBody, Move
<1>5. CASE Fail(c)
  BY <1>2, <1>5, ThrowMoves DEF Fail, InBody, Move
<1>6. CASE Wake(c)
  BY <1>6 DEF Wake, Again, Wakes, Move, SameRuns, TypeOK
<1>7. CASE Expire(c)
  <2>1. CASE pc[c] = "sleep"
    BY <1>0, <1>7, <2>1, EndMoves DEF Expire, Move, SameRuns
  <2>2. CASE pc[c] # "sleep"
    BY <1>7, <2>2 DEF Expire, Cancels, Move, SameRuns, TypeOK
  <2> QED
    BY <2>1, <2>2
<1>8. CASE Unwind(c)
  <2>1. Ran(c, "timeout") /\ End(c, "timeout") /\ UNCHANGED <<attempt, given>> /\ pc[c] = "unwind"
    BY <1>8 DEF Unwind, Saw, Ran, TypeOK
  <2> QED
    BY <1>0, <2>1, EndMoves DEF Move
<1> QED
  BY <1>1, <1>3, <1>4, <1>5, <1>6, <1>7, <1>8, LayerMoves DEF Acts, Move

-----------------------------------------------------------------------------
(* Type correctness.  A move of a call keeps the types of what it touches  *)
(* ...                                                                     *)
LEMMA CallTyped ==
    ASSUME TypeOK, NEW c \in Calls
    PROVE  /\ layer[c] \in Nat \ {0} /\ ctx[c] \in Seq(Nat) /\ given[c] \in [Places -> Seq(Nat)]
           /\ attempt[c] \in [Places -> Nat] /\ pc[c] \in Stations /\ outcome[c] \in Outcomes
           /\ seen[c] \in Seq([tries : [Places -> Nat], how : Ends])
BY DEF TypeOK

LEMMA NestedMoves ==
    ASSUME TypeInv, NEW c \in Calls, Move(c), hook' = hook
    PROVE  Nested(c)'
<1>1. /\ Nested(c) /\ TypeOK /\ hook \in Hooks /\ layer[c] \in Nat \ {0}
      /\ attempt[c] \in [Places -> Nat] /\ Retries \subseteq Places /\ Places \subseteq Nat \ {0}
      /\ \A m \in Retries : attempt[c][m] \in Nat
  BY CallTyped, AttemptTyped, HookTyped DEF TypeInv, TypeOK
<1>2. Retries' = Retries /\ Places' = Places
  BY DEF Retries, Places
<1>3. CASE Starts(c)
  BY <1>1, <1>2, <1>3 DEF Starts, Nested
<1>4. CASE GoesOn(c)
  <2>1. layer[c] \in Nat /\ layer[c] \notin Retries /\ Retries \subseteq Nat
    BY <1>1, <1>4 DEF GoesOn
  <2>2. \A m \in Retries : m < layer[c] <=> m < layer[c] + 1
    BY <2>1
  <2>3. \A m \in Retries : attempt[c][m] > 0 <=> m < layer[c]
    BY <1>1, <1>4 DEF GoesOn, Nested
  <2> QED
    BY <1>2, <1>4, <2>2, <2>3 DEF GoesOn, Nested
<1>5. CASE Enters(c)
  <2>1. \A m \in Retries : attempt'[c][m] = IF m = layer[c] THEN 1 ELSE attempt[c][m]
    BY <1>1, <1>5 DEF Enters
  <2> QED
    BY <1>1, <1>2, <1>5, <2>1 DEF Enters, Nested
<1>6. CASE Reaches(c)
  BY <1>1, <1>2, <1>6 DEF Reaches, Nested
<1>7. CASE Finishes(c)
  BY <1>7 DEF Finishes, Nested
<1>8. ASSUME NEW m \in Places, FallsAsleep(c, m) PROVE Nested(c)'
  <2>1. m \in Retries /\ m < layer[c] /\ TriesLeft(c, m)
    BY <1>8 DEF FallsAsleep, Trying
  <2>2. \A l \in Retries : attempt'[c][l] = IF l > m THEN 0 ELSE attempt[c][l]
    BY <1>1, <1>8 DEF FallsAsleep
  <2>3. \A l \in Retries : attempt[c][l] > 0 <=> l < layer[c]
    BY <1>1, <1>8 DEF FallsAsleep, Nested
  <2>4. \A l \in Retries : attempt'[c][l] > 0 <=> l <= m
    <3> SUFFICES ASSUME NEW l \in Retries PROVE attempt'[c][l] > 0 <=> l <= m
      OBVIOUS
    <3>1. l \in Nat /\ m \in Nat /\ layer[c] \in Nat /\ attempt[c][l] \in Nat
      BY <1>1
    <3> QED
      BY <2>1, <2>2, <2>3, <3>1
  <2>5. TriesLeft(c, m)'
    BY <1>1, <2>1, <2>2 DEF TriesLeft
  <2> QED
    BY <1>2, <1>8, <2>1, <2>4, <2>5 DEF FallsAsleep, Nested, TriesLeft
<1>9. CASE Wakes(c)
  <2>1. layer[c] \in Retries /\ \A m \in Retries : attempt[c][m] > 0 <=> m <= layer[c]
    BY <1>1, <1>9 DEF Wakes, Nested
  <2>2. \A m \in Retries : attempt'[c][m] = IF m = layer[c] THEN attempt[c][m] + 1 ELSE attempt[c][m]
    BY <1>1, <1>9, <2>1 DEF Wakes
  <2> QED
    BY <1>1, <1>2, <1>9, <2>1, <2>2 DEF Wakes, Nested
<1>10. CASE Cancels(c)
  BY <1>1, <1>2, <1>10 DEF Cancels, Nested
<1> QED
  BY <1>3, <1>4, <1>5, <1>6, <1>7, <1>8, <1>9, <1>10 DEF Move

LEMMA NestedRests ==
    ASSUME NEW d \in Calls, Nested(d), Rests(d), hook' = hook
    PROVE  Nested(d)'
BY DEF Nested, Rests, Retries, Places, TriesLeft

(* The attempts of one call after its move.                                *)
AttemptsOK(c) ==
    /\ attempt[c] \in [Places -> Nat]
    /\ \A m \in Places : attempt[c][m] = 0 \/ (m \in Retries /\ attempt[c][m] <= hook[m].attempts)

LEMMA AttemptMoves ==
    ASSUME TypeInv, NEW c \in Calls, Move(c), hook' = hook
    PROVE  AttemptsOK(c)'
<1>1. /\ Nested(c) /\ TypeOK /\ AttemptsOK(c) /\ hook \in Hooks
      /\ Retries \subseteq Places /\ Places \subseteq Nat \ {0}
      /\ \A m \in Retries : hook[m].attempts \in Nat /\ attempt[c][m] \in Nat
  BY AttemptTyped, HookTyped DEF TypeInv, TypeOK, AttemptsOK
<1>2. Retries' = Retries /\ Places' = Places
  BY DEF Retries, Places
<1>3. CASE attempt'[c] = attempt[c]
  BY <1>1, <1>2, <1>3 DEF AttemptsOK
<1>4. CASE Enters(c)
  <2> DEFINE n == layer[c]
  <2>1. n \in Retries /\ n \in Places /\ attempt'[c] = [attempt[c] EXCEPT ![n] = 1]
    BY <1>1, <1>4 DEF Enters
  <2>2. hook[n].attempts \in Nat /\ hook[n].attempts # 0
    BY <1>1, <1>4, <2>1 DEF Enters
  <2>3. 1 <= hook[n].attempts
    BY <2>2
  <2> HIDE DEF n
  <2> QED
    <3>1. attempt'[c] \in [Places -> Nat]
      BY <1>1, <2>1 DEF AttemptsOK
    <3>2. \A m \in Places : attempt'[c][m] = IF m = n THEN 1 ELSE attempt[c][m]
      BY <1>1, <2>1 DEF AttemptsOK
    <3>3. \A m \in Places : attempt'[c][m] = 0
                            \/ (m \in Retries /\ attempt'[c][m] <= hook[m].attempts)
      BY <1>1, <2>1, <2>3, <3>2 DEF AttemptsOK
    <3> QED
      BY <1>2, <3>1, <3>3 DEF AttemptsOK
<1>5. ASSUME NEW m \in Places, FallsAsleep(c, m) PROVE AttemptsOK(c)'
  BY <1>1, <1>2, <1>5 DEF AttemptsOK, FallsAsleep
<1>6. CASE Wakes(c)
  <2>1. layer[c] \in Retries /\ attempt[c][layer[c]] < hook[layer[c]].attempts
    BY <1>1, <1>6 DEF Wakes, Nested, TriesLeft
  <2>2. attempt[c][layer[c]] + 1 \in Nat /\ attempt[c][layer[c]] + 1 <= hook[layer[c]].attempts
    <3>1. hook[layer[c]].attempts \in Nat /\ attempt[c][layer[c]] \in Nat
      BY <1>1, <2>1
    <3> QED
      BY <2>1, <3>1
  <2> DEFINE n == layer[c]
  <2>3. n \in Places /\ attempt'[c] = [attempt[c] EXCEPT ![n] = attempt[c][n] + 1]
    BY <1>1, <1>6, <2>1 DEF Wakes
  <2> HIDE DEF n
  <2> QED
    <3>1. attempt'[c] \in [Places -> Nat]
      BY <1>1, <2>2, <2>3 DEF AttemptsOK, n
    <3>2. \A m \in Places : attempt'[c][m] = IF m = n THEN attempt[c][n] + 1 ELSE attempt[c][m]
      BY <1>1, <2>3 DEF AttemptsOK
    <3>3. \A m \in Places : attempt'[c][m] = 0
                            \/ (m \in Retries /\ attempt'[c][m] <= hook[m].attempts)
      BY <1>1, <2>1, <2>2, <3>2 DEF AttemptsOK, n
    <3> QED
      BY <1>2, <3>1, <3>3 DEF AttemptsOK
<1> QED
  BY <1>3, <1>4, <1>5, <1>6 DEF Move, Starts, GoesOn, Reaches, Finishes, Cancels

LEMMA RestMoves ==
    ASSUME TypeInv, NEW c \in Calls, Move(c), hook' = hook
    PROVE  /\ pc'[c] \in Stations /\ layer'[c] \in Nat \ {0} /\ outcome'[c] \in Outcomes
           /\ ctx'[c] \in Seq(Nat) /\ given'[c] \in [Places -> Seq(Nat)]
           /\ seen'[c] \in Seq([tries : [Places -> Nat], how : Ends])
<1>1. /\ layer[c] \in Nat \ {0} /\ ctx[c] \in Seq(Nat) /\ given[c] \in [Places -> Seq(Nat)]
      /\ attempt[c] \in [Places -> Nat] /\ outcome[c] \in Outcomes
      /\ seen[c] \in Seq([tries : [Places -> Nat], how : Ends])
  BY CallTyped DEF TypeInv
<1>2. /\ Retries \subseteq Places /\ Places \subseteq Nat \ {0}
      /\ Edited(c) \in Seq(Nat) /\ <<>> \in Seq(Nat) /\ "error" \in Ends
  BY <1>1, HookTyped DEF TypeInv, TypeOK, Edited, Ends
<1>3. pc'[c] \in Stations
  BY <1>1 DEF Move, Starts, GoesOn, Enters, Reaches, Finishes, FallsAsleep, Wakes, Cancels, Stations
<1>4. layer'[c] \in Nat \ {0}
  <2>1. layer[c] + 1 \in Nat \ {0} /\ 1 \in Nat \ {0}
    BY <1>1
  <2>2. layer'[c] \in {layer[c], layer[c] + 1, 1} \/ layer'[c] \in Places
    BY DEF Move, Starts, GoesOn, Enters, Reaches, Finishes, FallsAsleep, Wakes, Cancels
  <2> QED
    BY <1>1, <1>2, <2>1, <2>2
<1>8. outcome'[c] \in Outcomes
  BY <1>1 DEF Move, Starts, GoesOn, Enters, Reaches, Finishes, FallsAsleep, Wakes, Cancels
<1>5. given'[c] \in [Places -> Seq(Nat)]
  BY <1>1, <1>2 DEF Move, Starts, GoesOn, Enters, Reaches, Finishes, FallsAsleep, Wakes, Cancels
<1>6. seen'[c] \in Seq([tries : [Places -> Nat], how : Ends])
  <2>1. ASSUME NEW e \in Ends, Ran(c, e)
        PROVE  seen'[c] \in Seq([tries : [Places -> Nat], how : Ends])
    <3>1. [tries |-> attempt[c], how |-> e] \in [tries : [Places -> Nat], how : Ends]
      BY <1>1
    <3> QED
      BY <1>1, <2>1, <3>1 DEF Ran
  <2> QED
    BY <1>1, <1>2, <2>1
       DEF Move, Starts, GoesOn, Enters, Reaches, Finishes, FallsAsleep, Wakes, Cancels, SameRuns
<1>7. ctx'[c] \in Seq(Nat)
  <2>1. pc[c] = "sleep" => layer[c] \in Places
    BY <1>2 DEF TypeInv, Nested
  <2> QED
    BY <1>1, <1>2, <2>1
       DEF Move, Starts, GoesOn, Enters, Reaches, Finishes, FallsAsleep, Wakes, Cancels
<1> QED
  BY <1>3, <1>4, <1>5, <1>6, <1>7, <1>8

(* A step of a call keeps the types of all the calls ...                   *)
LEMMA CallsTyped ==
    ASSUME TypeInv, NEW c \in Calls, Acts(c)
    PROVE  /\ hook' = hook /\ hook' \in Hooks
           /\ \A d \in Calls : Nested(d)' /\ AttemptsOK(d)'
           /\ \A d \in Calls :
                 /\ pc'[d] \in Stations /\ layer'[d] \in Nat \ {0} /\ outcome'[d] \in Outcomes
                 /\ ctx'[d] \in Seq(Nat) /\ given'[d] \in [Places -> Seq(Nat)]
                 /\ seen'[d] \in Seq([tries : [Places -> Nat], how : Ends])
<1>1. /\ TypeOK /\ Move(c) /\ hook' = hook /\ hook' \in Hooks
      /\ \A d \in Calls \ {c} : Rests(d)
  BY Moves, OnlyOne DEF TypeInv, TypeOK
<1>2. ASSUME NEW d \in Calls, d # c
      PROVE  /\ Nested(d)' /\ AttemptsOK(d)' /\ pc'[d] \in Stations /\ layer'[d] \in Nat \ {0}
             /\ outcome'[d] \in Outcomes /\ ctx'[d] \in Seq(Nat)
             /\ given'[d] \in [Places -> Seq(Nat)]
             /\ seen'[d] \in Seq([tries : [Places -> Nat], how : Ends])
  <2>1. Rests(d) /\ Nested(d) /\ AttemptsOK(d)
    BY <1>1, <1>2 DEF TypeInv, TypeOK, AttemptsOK
  <2>2. Nested(d)'
    BY <1>1, <2>1, NestedRests
  <2>3. AttemptsOK(d)'
    BY <1>1, <2>1 DEF Rests, AttemptsOK, Retries, Places
  <2> QED
    BY <1>1, <2>1, <2>2, <2>3, CallTyped DEF Rests
<1>3. /\ Nested(c)' /\ AttemptsOK(c)' /\ pc'[c] \in Stations /\ layer'[c] \in Nat \ {0}
      /\ outcome'[c] \in Outcomes /\ ctx'[c] \in Seq(Nat) /\ given'[c] \in [Places -> Seq(Nat)]
      /\ seen'[c] \in Seq([tries : [Places -> Nat], how : Ends])
  BY <1>1, NestedMoves, AttemptMoves, RestMoves
<1> QED
  BY <1>1, <1>2, <1>3

(* ... and so does the rest: pauses and time limits,                       *)
LEMMA TimersTyped ==
    ASSUME TypeInv, NEW c \in Calls, Acts(c)
    PROVE  pause' \in [Calls -> Nat] /\ budget' \in [Calls -> Nat] /\ expired' \in [Calls -> BOOLEAN]
<1>1. TypeOK /\ Nested(c)
  BY DEF TypeInv
<1>2. budget' \in [Calls -> Nat] /\ expired' \in [Calls -> BOOLEAN]
  <2>1. budget' = budget /\ (expired' = expired \/ expired' = [expired EXCEPT ![c] = TRUE])
    BY DEF Acts, Call, Layer, Inject, BlockIf, Redact, RequireTenant, RateLimit, Retry, Body,
           Return, Stop, Fail, Wake, Expire, Unwind, timers
  <2> QED
    BY <1>1, <2>1 DEF TypeOK
<1>3. ASSUME Throw(c), pc[c] \in {"down", "body", "unwind"}
      PROVE  pause' \in [Calls -> Nat]
  <2>1. CASE Trying(c) = {}
    BY <1>1, <1>3, <2>1 DEF Throw, TypeOK
  <2>2. CASE Trying(c) # {}
    <3>1. PICK m \in Trying(c) :
             pause' = [pause EXCEPT ![c] = hook[m].backoff * 2 ^ (attempt[c][m] - 1)]
      BY <1>3, <2>2 DEF Throw
    <3>2. m \in Retries /\ m < layer[c] /\ hook[m].backoff \in Nat /\ attempt[c][m] \in Nat
      BY <1>1, RetryTyped, AttemptTyped DEF Trying, TypeOK
    <3>3. attempt[c][m] - 1 \in Nat
      BY <1>1, <1>3, <3>2 DEF Nested
    <3> DEFINE p == 2 ^ (attempt[c][m] - 1)
    <3>4. p \in Nat
      BY <3>3, PowerType
    <3> HIDE DEF p
    <3>5. hook[m].backoff * p \in Nat
      BY <3>2, <3>4
    <3>6. pause' = [pause EXCEPT ![c] = hook[m].backoff * p]
      BY <3>1 DEF p
    <3> QED
      BY <1>1, <3>5, <3>6 DEF TypeOK
  <2> QED
    BY <2>1, <2>2
<1>4. \/ UNCHANGED pause
      \/ Throw(c) /\ pc[c] \in {"down", "body", "unwind"}
  BY DEF Acts, Call, Layer, Inject, BlockIf, Redact, RequireTenant, RateLimit, Retry, Body, Return,
         Stop, Fail, Wake, Expire, Unwind, timers, AtLayer, InBody
<1> QED
  BY <1>1, <1>2, <1>3, <1>4 DEF TypeOK

(* and the stamps of the limiters.                                         *)
LEMMA StampsTyped ==
    ASSUME TypeInv, NEW c \in Calls, Acts(c)
    PROVE  /\ window' \in [Places -> [Keys -> SUBSET (Calls \X Nat)]]
           /\ age' \in [Places -> [Calls -> Seq(Nat)]]
<1>1. TypeOK
  BY DEF TypeInv
<1>2. CASE RateLimit(c)
  <2> DEFINE m == layer[c]
             k == KeyOf(m, c)
             a == <<c, Len(age[m][c]) + 1>>
  <2>1. m \in Places /\ k \in Keys
    BY <1>2 DEF RateLimit, AtLayer, KeyOf, Keys
  <2>2. age[m] \in [Calls -> Seq(Nat)] /\ window[m] \in [Keys -> SUBSET (Calls \X Nat)]
    BY <1>1, <2>1 DEF TypeOK
  <2>3. Kept(m, k) \in SUBSET (Calls \X Nat)
    BY <2>1, <2>2 DEF Kept
  <2>4. a \in Calls \X Nat
    BY <2>2
  <2>5. Append(age[m][c], 0) \in Seq(Nat)
    BY <2>2
  <2>6. /\ \/ window' = [window EXCEPT ![m][k] = Kept(m, k)]
           \/ window' = [window EXCEPT ![m][k] = Kept(m, k) \cup {a}]
        /\ \/ age' = age
           \/ age' = [age EXCEPT ![m][c] = Append(@, 0)]
    BY <1>2 DEF RateLimit
  <2> HIDE DEF m, k, a
  <2>7. window' \in [Places -> [Keys -> SUBSET (Calls \X Nat)]]
    <3>1. Kept(m, k) \cup {a} \in SUBSET (Calls \X Nat)
      BY <2>3, <2>4
    <3>2. ASSUME NEW S \in SUBSET (Calls \X Nat), window' = [window EXCEPT ![m][k] = S]
          PROVE  window' \in [Places -> [Keys -> SUBSET (Calls \X Nat)]]
      <4>1. [window[m] EXCEPT ![k] = S] \in [Keys -> SUBSET (Calls \X Nat)]
        BY <2>1, <2>2
      <4>2. window' = [window EXCEPT ![m] = [window[m] EXCEPT ![k] = S]]
        BY <3>2
      <4> QED
        BY <1>1, <4>1, <4>2 DEF TypeOK
    <3> QED
      BY <2>3, <2>6, <3>1, <3>2
  <2>8. age' \in [Places -> [Calls -> Seq(Nat)]]
    <3>1. CASE age' = age
      BY <1>1, <3>1 DEF TypeOK
    <3>2. CASE age' = [age EXCEPT ![m][c] = Append(@, 0)]
      <4>1. [age[m] EXCEPT ![c] = Append(@, 0)] \in [Calls -> Seq(Nat)]
        BY <2>2, <2>5
      <4>2. age' = [age EXCEPT ![m] = [age[m] EXCEPT ![c] = Append(@, 0)]]
        BY <3>2
      <4> QED
        BY <1>1, <4>1, <4>2 DEF TypeOK
    <3> QED
      BY <2>6, <3>1, <3>2
  <2> QED
    BY <2>7, <2>8
<1>3. CASE ~RateLimit(c)
  <2>1. UNCHANGED limiter
    BY <1>3 DEF Acts, Call, Layer, Inject, BlockIf, Redact, RequireTenant, Retry, Body, Return,
                Stop, Fail, Wake, Expire, Unwind
  <2> QED
    BY <1>1, <2>1 DEF limiter, TypeOK
<1> QED
  BY <1>2, <1>3


LEMMA TypeStep ==
    ASSUME TypeInv, [Next]_vars
    PROVE  TypeInv'
<1>0. TypeOK /\ \A c \in Calls : Nested(c)
  BY DEF TypeInv
<1>1. ASSUME NEW c \in Calls, Acts(c) PROVE TypeInv'
  <2>1. /\ hook' \in Hooks /\ Places' = Places /\ pc' \in [Calls -> Stations]
        /\ layer' \in [Calls -> Nat \ {0}] /\ ctx' \in [Calls -> Seq(Nat)]
        /\ outcome' \in [Calls -> Outcomes]
    BY <1>0, <1>1, OnlyOne, CallsTyped DEF Places
  <2>2. /\ attempt' \in [Calls -> [Places -> Nat]]
        /\ given' \in [Calls -> [Places -> Seq(Nat)]]
        /\ seen' \in [Calls -> Seq([tries : [Places -> Nat], how : Ends])]
    <3>1. \A d \in Calls : attempt'[d] \in [Places -> Nat]
      BY <1>1, <2>1, CallsTyped DEF AttemptsOK
    <3> QED
      BY <1>0, <1>1, <3>1, OnlyOne, CallsTyped
  <2>3. \A d \in Calls : AttemptsOK(d)' /\ Nested(d)'
    BY <1>1, CallsTyped
  <2> QED
    BY <1>1, <2>1, <2>2, <2>3, TimersTyped, StampsTyped DEF TypeInv, TypeOK, AttemptsOK
<1>2. CASE Tick
  <2>1. \A n \in Nat : Less(n) \in Nat
    BY DEF Less
  <2>2. pause' \in [Calls -> Nat] /\ budget' \in [Calls -> Nat]
    BY <1>0, <1>2, <2>1, PatternsAssumption DEF Tick, TypeOK
  <2>3. age' \in [Places -> [Calls -> Seq(Nat)]]
    <3> SUFFICES ASSUME NEW m \in Places, NEW c \in Calls
                 PROVE  [n \in DOMAIN age[m][c] |-> IF age[m][c][n] < hook[m].window
                           THEN age[m][c][n] + 1 ELSE age[m][c][n]] \in Seq(Nat)
      BY <1>2 DEF Tick
    <3>1. age[m][c] \in Seq(Nat)
      BY <1>0 DEF TypeOK
    <3> QED
      BY <3>1
  <2>4. UNCHANGED <<hook, pc, layer, ctx, attempt, given, expired, outcome, window, seen>>
    BY <1>2 DEF Tick
  <2>5. \A c \in Calls : Nested(c)'
    BY <1>0, <2>4 DEF Nested, Retries, Places, TriesLeft
  <2> QED
    BY <1>0, <2>2, <2>3, <2>4, <2>5 DEF TypeInv, TypeOK, Retries, Places
<1>3. CASE UNCHANGED vars
  <2>1. \A c \in Calls : Nested(c)'
    BY <1>0, <1>3 DEF vars, timers, limiter, Nested, Retries, Places, TriesLeft
  <2> QED
    BY <1>0, <1>3, <2>1 DEF vars, timers, limiter, TypeInv, TypeOK, Retries, Places
<1> QED
  BY <1>1, <1>2, <1>3 DEF Next, Acts

LEMMA TypeInit == Init => TypeInv
<1> SUFFICES ASSUME Init PROVE TypeInv
  OBVIOUS
<1>1. hook \in Hooks /\ Places \subseteq Nat \ {0} /\ Retries \subseteq Places
  BY HookTyped DEF Init
<1>2. \A c \in Calls : Nested(c)
  BY <1>1 DEF Init, Nested
<1>3. /\ attempt \in [Calls -> [Places -> Nat]] /\ given \in [Calls -> [Places -> Seq(Nat)]]
      /\ \A c \in Calls, m \in Places : attempt[c][m] = 0
  BY <1>1 DEF Init
<1>4. /\ window \in [Places -> [Keys -> SUBSET (Calls \X Nat)]]
      /\ age \in [Places -> [Calls -> Seq(Nat)]]
  BY DEF Init
<1> QED
  BY <1>1, <1>2, <1>3, <1>4, PatternsAssumption DEF Init, TypeInv, TypeOK, Stations, Outcomes

(* Every variable keeps its type, and a call is in the loop of exactly the *)
(* retries it has passed.                                                  *)
THEOREM TypeCorrect == Spec => []TypeInv
BY TypeInit, TypeStep, PTL DEF Spec

(* The type invariant alone, as the run checks it: no attempt past         *)
(* max_attempts, whatever the retries around and inside it do.             *)
THEOREM TypeTheorem == Spec => []TypeOK
BY TypeCorrect, PTL DEF TypeInv

-----------------------------------------------------------------------------
(***************************************************************************)
(* The limiters.  What one keeps under a key contains the recent           *)
(* admissions under it, and nothing admitted under another: after          *)
(* eviction, it is exactly the recent ones.                                *)
(***************************************************************************)
LimiterInv ==
    \A m \in Limiters, k \in Keys :
        /\ IsFiniteSet(window[m][k]) /\ Cardinality(window[m][k]) <= hook[m].limit
        /\ Recent(m, k) \subseteq window[m][k]
        /\ \A a \in window[m][k] : a \in Admissions(m) /\ KeyOf(m, a[1]) = k

PatternsInv == TypeInv /\ LimiterInv

LEMMA AdmissionTyped ==
    ASSUME NEW m, NEW a
    PROVE  a \in Admissions(m) <=>
              \E c \in Calls : \E n \in DOMAIN age[m][c] : a = <<c, n>>
BY DEF Admissions

LEMMA AgeTyped ==
    ASSUME TypeOK, NEW m \in Limiters, NEW c \in Calls
    PROVE  /\ age[m][c] \in Seq(Nat) /\ hook[m].window \in Nat /\ hook[m].limit \in Nat
           /\ m \in Places
BY LimiterTyped, HookTyped DEF TypeOK

LEMMA KeptIsRecent ==
    ASSUME PatternsInv, NEW m \in Limiters, NEW k \in Keys
    PROVE  Kept(m, k) = Recent(m, k) /\ IsFiniteSet(Kept(m, k)) /\ Cardinality(Kept(m, k)) \in Nat
<1>1. Kept(m, k) = Recent(m, k) /\ Kept(m, k) \subseteq window[m][k] /\ IsFiniteSet(window[m][k])
  BY DEF PatternsInv, LimiterInv, Kept, Recent
<1> QED
  BY <1>1, FS_Subset, FS_CardinalityType

(* A limiter that a step evicts and admits nothing at: time passes there,  *)
(* at most.                                                                *)
LEMMA LimiterRests ==
    ASSUME PatternsInv, NEW m \in Limiters, NEW k \in Keys, hook' = hook,
           window'[m][k] = window[m][k],
           \A c \in Calls : /\ DOMAIN age'[m][c] = DOMAIN age[m][c]
                            /\ \A n \in DOMAIN age[m][c] :
                                  age'[m][c][n] < hook[m].window => age[m][c][n] < hook[m].window
    PROVE  /\ IsFiniteSet(window'[m][k]) /\ Cardinality(window'[m][k]) <= hook[m].limit
           /\ Recent(m, k)' \subseteq window'[m][k]
           /\ \A a \in window'[m][k] : a \in Admissions(m)' /\ KeyOf(m, a[1])' = k
<1>1. Admissions(m)' = Admissions(m)
  BY DEF Admissions
<1>2. Recent(m, k)' \subseteq Recent(m, k)
  <2> SUFFICES ASSUME NEW a \in Recent(m, k)' PROVE a \in Recent(m, k)
    OBVIOUS
  <2>1. /\ a \in Admissions(m) /\ KeyOf(m, a[1]) = k
        /\ age'[m][a[1]][a[2]] < hook[m].window
    BY <1>1 DEF Recent, KeyOf
  <2>2. a[1] \in Calls /\ a[2] \in DOMAIN age[m][a[1]]
    BY <2>1, AdmissionTyped
  <2> QED
    BY <2>1, <2>2 DEF Recent
<1> QED
  BY <1>1, <1>2 DEF PatternsInv, LimiterInv, KeyOf

(* An admission, or a rejection, by one of them.                           *)
LEMMA LimiterActs ==
    ASSUME PatternsInv, NEW c \in Calls, RateLimit(c)
    PROVE  LimiterInv'
<1>a. PICK m : m = layer[c]
  OBVIOUS
<1>b. PICK k : k = KeyOf(m, c)
  OBVIOUS
<1>c. PICK s : s = age[m][c]
  OBVIOUS
<1>d. PICK a : a = <<c, Len(s) + 1>>
  OBVIOUS
<1>e. a[1] = c
  BY <1>d
<1>1. /\ m \in Limiters /\ k \in Keys /\ hook' = hook /\ TypeOK
      /\ s \in Seq(Nat) /\ hook[m].limit \in Nat /\ hook[m].window \in Nat
  <2>1. m \in Limiters /\ k \in Keys /\ hook' = hook /\ TypeOK
    BY <1>a, <1>b DEF RateLimit, AtLayer, Limiters, Places, KeyOf, Keys, PatternsInv, TypeInv
  <2> QED
    BY <1>c, <2>1, AgeTyped
<1>2. Kept(m, k) = Recent(m, k) /\ IsFiniteSet(Kept(m, k)) /\ Cardinality(Kept(m, k)) \in Nat
      /\ Kept(m, k) \subseteq window[m][k]
  BY <1>1, KeptIsRecent DEF Kept
<1>3. /\ Limiters' = Limiters /\ \A l, d : KeyOf(l, d)' = KeyOf(l, d)
      /\ window \in [Places -> [Keys -> SUBSET (Calls \X Nat)]]
      /\ age \in [Places -> [Calls -> Seq(Nat)]] /\ Limiters \subseteq Places
  BY <1>1 DEF Limiters, Places, KeyOf, TypeOK
<1>4. \/ /\ Cardinality(Kept(m, k)) >= hook[m].limit
         /\ window' = [window EXCEPT ![m][k] = Kept(m, k)] /\ age' = age
      \/ /\ ~(Cardinality(Kept(m, k)) >= hook[m].limit)
         /\ window' = [window EXCEPT ![m][k] = Kept(m, k) \cup {a}]
         /\ age' = [age EXCEPT ![m][c] = Append(@, 0)]
  BY <1>a, <1>b, <1>c, <1>d DEF RateLimit
<1>5. \A l \in Limiters, j \in Keys : l # m \/ j # k => window'[l][j] = window[l][j]
  BY <1>1, <1>3, <1>4
<1>6. CASE Cardinality(Kept(m, k)) >= hook[m].limit
  <2>1. window'[m][k] = Kept(m, k) /\ age' = age
    BY <1>1, <1>3, <1>4, <1>6
  <2>2. Cardinality(Kept(m, k)) <= hook[m].limit
    <3>1. IsFiniteSet(window[m][k]) /\ Cardinality(window[m][k]) <= hook[m].limit
      BY <1>1 DEF PatternsInv, LimiterInv
    <3>2. /\ Cardinality(Kept(m, k)) <= Cardinality(window[m][k])
          /\ Cardinality(window[m][k]) \in Nat
      BY <1>2, <3>1, FS_Subset, FS_CardinalityType
    <3> QED
      BY <1>1, <1>2, <3>1, <3>2
  <2>3. \A l, j : Recent(l, j)' = Recent(l, j) /\ Admissions(l)' = Admissions(l)
    BY <1>1, <1>3, <2>1 DEF Recent, Admissions
  <2>4. ASSUME NEW l \in Limiters, NEW j \in Keys
        PROVE  /\ IsFiniteSet(window'[l][j]) /\ Cardinality(window'[l][j]) <= hook[l].limit
               /\ Recent(l, j)' \subseteq window'[l][j]
               /\ \A b \in window'[l][j] : b \in Admissions(l)' /\ KeyOf(l, b[1])' = j
    <3>1. CASE l # m \/ j # k
      BY <1>3, <1>5, <2>3, <3>1 DEF PatternsInv, LimiterInv
    <3>2. CASE l = m /\ j = k
      <4>1. \A b \in Kept(m, k) : b \in Admissions(m) /\ KeyOf(m, b[1]) = k
        BY <1>1, <1>2 DEF PatternsInv, LimiterInv
      <4> QED
        BY <1>2, <1>3, <2>1, <2>2, <2>3, <3>2, <4>1
    <3> QED
      BY <3>1, <3>2
  <2> QED
    BY <1>1, <1>3, <2>4 DEF LimiterInv
<1>7. CASE ~(Cardinality(Kept(m, k)) >= hook[m].limit)
  <2>1. /\ window'[m][k] = Kept(m, k) \cup {a}
        /\ age'[m][c] = Append(s, 0)
        /\ \A l \in Limiters, d \in Calls : l # m \/ d # c => age'[l][d] = age[l][d]
    BY <1>1, <1>3, <1>4, <1>7, <1>c
  <2>2. /\ IsFiniteSet(Kept(m, k) \cup {a})
        /\ Cardinality(Kept(m, k) \cup {a}) <= hook[m].limit
    <3>1. /\ IsFiniteSet(Kept(m, k) \cup {a})
          /\ \/ Cardinality(Kept(m, k) \cup {a}) = Cardinality(Kept(m, k))
             \/ Cardinality(Kept(m, k) \cup {a}) = Cardinality(Kept(m, k)) + 1
      BY <1>2, FS_AddElement
    <3> QED
      BY <1>1, <1>2, <1>7, <3>1
  <2>3. /\ DOMAIN s = 1..Len(s) /\ Len(s) \in Nat /\ DOMAIN Append(s, 0) = 1..(Len(s) + 1)
        /\ \A n \in 1..Len(s) : Append(s, 0)[n] = s[n]
    BY <1>1
  (* The admissions are those there were, with their ages, and a.          *)
  <2>4. a \in Admissions(m)' /\ \A l \in Limiters : Admissions(l) \subseteq Admissions(l)'
    <3>1. \A l \in Limiters, d \in Calls : DOMAIN age[l][d] \subseteq DOMAIN age'[l][d]
      BY <2>1, <2>3, <1>c
    <3>2. Len(s) + 1 \in DOMAIN age'[m][c]
      BY <2>1, <2>3
    <3> QED
      BY <1>1, <1>d, <3>1, <3>2 DEF Admissions
  <2>5. ASSUME NEW l \in Limiters, NEW b \in Admissions(l)', ~(l = m /\ b = a)
        PROVE  b \in Admissions(l) /\ age'[l][b[1]][b[2]] = age[l][b[1]][b[2]]
    <3>1. PICK d \in Calls : \E n \in DOMAIN age'[l][d] : b = <<d, n>>
      BY <2>5 DEF Admissions
    <3>2. PICK n \in DOMAIN age'[l][d] : b = <<d, n>>
      BY <3>1
    <3>3. CASE l # m \/ d # c
      BY <2>1, <3>2, <3>3 DEF Admissions
    <3>4. CASE l = m /\ d = c
      <4>1. n \in 1..Len(s)
        BY <2>1, <2>3, <2>5, <3>2, <3>4, <1>d
      <4>2. n \in DOMAIN age[l][d] /\ age'[l][d][n] = age[l][d][n]
        BY <2>1, <2>3, <3>4, <4>1, <1>c
      <4> QED
        BY <3>2, <4>2 DEF Admissions
    <3> QED
      BY <3>3, <3>4
  <2>6. \A l \in Limiters, j \in Keys :
           \A b \in Recent(l, j)' : (l = m /\ b = a) \/ b \in Recent(l, j)
    BY <1>1, <1>3, <2>5 DEF Recent
  <2>7. \A j \in Keys : a \in Recent(m, j)' => j = k
    BY <1>1, <1>3, <1>b, <1>e DEF Recent
  <2>8. ASSUME NEW l \in Limiters, NEW j \in Keys
        PROVE  /\ IsFiniteSet(window'[l][j]) /\ Cardinality(window'[l][j]) <= hook[l].limit
               /\ Recent(l, j)' \subseteq window'[l][j]
               /\ \A b \in window'[l][j] : b \in Admissions(l)' /\ KeyOf(l, b[1])' = j
    <3>1. CASE l # m \/ j # k
      BY <1>3, <1>5, <2>4, <2>6, <2>7, <3>1 DEF PatternsInv, LimiterInv
    <3>2. CASE l = m /\ j = k
      <4>1. \A b \in Kept(m, k) : b \in Admissions(m) /\ KeyOf(m, b[1]) = k
        BY <1>1, <1>2 DEF PatternsInv, LimiterInv
      <4>2. KeyOf(m, a[1]) = k
        BY <1>b, <1>e
      <4>3. Recent(m, k)' \subseteq Kept(m, k) \cup {a}
        BY <1>1, <1>2, <2>6
      <4> QED
        BY <1>1, <1>3, <2>1, <2>2, <2>4, <3>2, <4>1, <4>2, <4>3
    <3> QED
      BY <3>1, <3>2
  <2> QED
    BY <1>1, <1>3, <2>8 DEF LimiterInv
<1> QED
  BY <1>6, <1>7

LEMMA LimiterStep ==
    ASSUME PatternsInv, [Next]_vars
    PROVE  PatternsInv'
<1>1. TypeInv' /\ TypeOK
  BY TypeStep DEF PatternsInv, TypeInv
<1>2. ASSUME NEW c \in Calls, RateLimit(c) PROVE LimiterInv'
  BY <1>2, LimiterActs
<1>3. ASSUME UNCHANGED <<hook, limiter>> PROVE LimiterInv'
  <2>1. Limiters' = Limiters
    BY <1>3 DEF Limiters, Places
  <2> QED
    BY <1>3, <2>1, LimiterRests DEF limiter, LimiterInv
<1>4. ASSUME Tick PROVE LimiterInv'
  <2>1. UNCHANGED <<hook, window>> /\ Limiters' = Limiters
    BY <1>4 DEF Tick, Limiters, Places
  <2>2. ASSUME NEW m \in Limiters, NEW c \in Calls
        PROVE  /\ DOMAIN age'[m][c] = DOMAIN age[m][c]
               /\ \A n \in DOMAIN age[m][c] :
                     age'[m][c][n] < hook[m].window => age[m][c][n] < hook[m].window
    <3>1. /\ age[m][c] \in Seq(Nat) /\ hook[m].window \in Nat /\ m \in Places
      BY <1>1, AgeTyped
    <3>2. age'[m][c] = [n \in DOMAIN age[m][c] |->
                           IF age[m][c][n] < hook[m].window
                           THEN age[m][c][n] + 1 ELSE age[m][c][n]]
      BY <1>4, <3>1 DEF Tick
    <3> QED
      BY <3>1, <3>2
  <2> QED
    BY <2>1, <2>2, LimiterRests DEF LimiterInv
<1>5. [Next]_vars => \/ \E c \in Calls : RateLimit(c)
                     \/ Tick
                     \/ UNCHANGED <<hook, limiter>>
  BY DEF Next, Layer, Call, Inject, BlockIf, Redact, RequireTenant, Retry, Body, Return, Stop,
         Fail, Wake, Expire, Unwind, vars, limiter
<1> QED
  BY <1>1, <1>2, <1>3, <1>4, <1>5 DEF PatternsInv

(* The limiters' invariant holds throughout: what is kept is what is       *)
(* recent, and a few stale stamps until the next eviction.                 *)
THEOREM LimiterInvariance == Spec => []PatternsInv
<1>1. Init => LimiterInv
  <2> SUFFICES ASSUME Init, NEW m \in Limiters, NEW k \in Keys
               PROVE  /\ IsFiniteSet(window[m][k]) /\ Cardinality(window[m][k]) <= hook[m].limit
                      /\ window[m][k] = {} /\ Recent(m, k) = {}
    BY DEF LimiterInv
  <2>1. hook[m].limit \in Nat /\ m \in Places /\ IsFiniteSet({}) /\ Cardinality({}) = 0
    BY LimiterTyped, HookTyped, FS_EmptySet DEF Init
  <2>2. window[m][k] = {} /\ \A c \in Calls : DOMAIN age[m][c] = {}
    BY <2>1 DEF Init
  <2> QED
    BY <2>1, <2>2 DEF Recent, Admissions
<1>2. Init /\ TypeInv => PatternsInv
  BY <1>1 DEF PatternsInv
<1> QED
  BY <1>2, LimiterStep, TypeCorrect, PTL DEF Spec

(* In no stretch of its window does a limiter let more than its limit      *)
(* through under one key: one of several in the stack, inside or outside   *)
(* of any retry.                                                           *)
THEOREM LimitTheorem == Spec => []NeverOverLimit
<1>1. PatternsInv => NeverOverLimit
  <2> SUFFICES ASSUME PatternsInv, NEW m \in Limiters, NEW k \in Keys
               PROVE  Cardinality(Recent(m, k)) <= hook[m].limit
    BY DEF NeverOverLimit
  <2>1. /\ IsFiniteSet(window[m][k]) /\ Cardinality(window[m][k]) <= hook[m].limit
        /\ Recent(m, k) \subseteq window[m][k] /\ hook[m].limit \in Nat
    BY LimiterTyped DEF PatternsInv, LimiterInv, TypeInv, TypeOK
  <2>2. /\ Cardinality(Recent(m, k)) <= Cardinality(window[m][k])
        /\ Cardinality(Recent(m, k)) \in Nat /\ Cardinality(window[m][k]) \in Nat
    BY <2>1, FS_Subset, FS_CardinalityType
  <2> QED
    BY <2>1, <2>2
<1> QED
  BY <1>1, LimiterInvariance, PTL

(* A limiter turns a call away only when its limit was really let through  *)
(* under the key within its window.                                        *)
THEOREM RejectionTheorem == Spec => RejectedOnlyWhenFull
<1> DEFINE Full == \A c \in Calls :
                      outcome[c] = "none" /\ outcome'[c] \in {"limited", "degraded"} =>
                          LET m == layer[c]
                          IN  /\ m \in Limiters
                              /\ Cardinality(Recent(m, KeyOf(m, c))) >= hook[m].limit
<1>1. PatternsInv /\ [Next]_vars => [Full]_vars
  <2> SUFFICES ASSUME PatternsInv, Next, NEW c \in Calls, outcome[c] = "none",
                      outcome'[c] \in {"limited", "degraded"}
               PROVE  /\ layer[c] \in Limiters
                      /\ Cardinality(Recent(layer[c], KeyOf(layer[c], c))) >= hook[layer[c]].limit
    OBVIOUS
  <2>0. outcome \in [Calls -> Outcomes]
    BY DEF PatternsInv, TypeInv, TypeOK
  <2>1. RateLimit(c)
    <3>1. PICK d \in Calls : Acts(d)
      BY <2>0 DEF Next, Acts, Tick
    <3>2. d = c
      <4>1. d # c => outcome'[c] = outcome[c]
        BY <3>1, OnlyOne DEF PatternsInv, TypeInv, Rests
      <4> QED
        BY <4>1
    <3>3. /\ Throw(c) => outcome'[c] \in {"none", "error"}
          /\ \A o : End(c, o) => outcome'[c] = o
          /\ \A x : Below(c, x) => outcome'[c] = "none"
      BY <2>0 DEF Throw, End, Below
    <3>4. ~Layer(c) => outcome'[c] \notin {"limited", "degraded"}
      BY <2>0, <3>1, <3>2, <3>3 DEF Acts, Call, Return, Stop, Fail, Wake, Expire, Unwind
    <3>5. CASE Layer(c)
      BY <2>0, <3>3, <3>5 DEF Layer, Inject, BlockIf, Redact, RequireTenant, Retry, Body
    <3> QED
      BY <3>4, <3>5
  <2>2. layer[c] \in Limiters /\ KeyOf(layer[c], c) \in Keys
    BY <2>1 DEF RateLimit, AtLayer, Limiters, Places, KeyOf, Keys
  <2>3. Cardinality(Kept(layer[c], KeyOf(layer[c], c))) >= hook[layer[c]].limit
    BY <2>1 DEF RateLimit, Below
  <2> QED
    BY <2>2, <2>3, KeptIsRecent
<1> QED
  BY <1>1, LimiterInvariance, PTL DEF Spec, RejectedOnlyWhenFull

-----------------------------------------------------------------------------
(***************************************************************************)
(* Retry.  The attempts a call is in, read from the outermost retry        *)
(* inwards, only ever count upwards: an attempt of an inner retry starts   *)
(* again from none only when one further out is on its next.               *)
(***************************************************************************)
Before(s, t) ==
    \E m \in Retries : s[m] < t[m] /\ \A l \in Retries : l < m => s[l] = t[l]

(* The attempts of the next run of the body at the earliest.               *)
Ahead(c) ==
    [m \in Places |-> IF pc[c] = "sleep" /\ m = layer[c] THEN attempt[c][m] + 1
                      ELSE attempt[c][m]]

Tried(c) ==
    /\ (outcome[c] = "none") <=> (pc[c] # "done")
    /\ pc[c] = "idle" => seen[c] = <<>>
    /\ \A n \in DOMAIN seen[c] : n < Len(seen[c]) \/ pc[c] # "done" => seen[c][n].how = "error"
    /\ outcome[c] = "ok" => seen[c] # <<>> /\ seen[c][Len(seen[c])].how = "ok"
    /\ outcome[c] = "error" => \A m \in Retries : attempt[c][m] \in {0, hook[m].attempts}
    /\ \A n \in DOMAIN seen[c], m \in Retries : seen[c][n].tries[m] \in 1..hook[m].attempts
    /\ \A n, l \in DOMAIN seen[c] : n < l => Before(seen[c][n].tries, seen[c][l].tries)
    /\ pc[c] # "done" => \A n \in DOMAIN seen[c] : Before(seen[c][n].tries, Ahead(c))

RetryInv == TypeInv /\ \A c \in Calls : Tried(c)

LEMMA TriedRests ==
    ASSUME NEW d \in Calls, Tried(d), Rests(d), hook' = hook
    PROVE  Tried(d)'
<1>1. Retries' = Retries /\ Places' = Places
  BY DEF Retries, Places
<1>2. Ahead(d)' = Ahead(d)
  BY <1>1 DEF Ahead, Rests
<1>3. \A s, t : Before(s, t)' = Before(s, t)
  BY <1>1 DEF Before
<1> QED
  BY <1>1, <1>2, <1>3 DEF Tried, Rests

(* A run behind another, of a call whose body ends.                        *)
LEMMA AppendTyped ==
    ASSUME NEW S, NEW s \in Seq(S), NEW e \in S
    PROVE  /\ DOMAIN s = 1..Len(s) /\ Len(s) \in Nat
           /\ Len(Append(s, e)) = Len(s) + 1 /\ DOMAIN Append(s, e) = 1..(Len(s) + 1)
           /\ \A n \in 1..Len(s) : Append(s, e)[n] = s[n]
           /\ Append(s, e)[Len(s) + 1] = e /\ Append(s, e) # <<>>
OBVIOUS

(* The runs of the body, after a move in which it did not run, or ended.   *)
Orderly(c) ==
    /\ \A n \in DOMAIN seen[c], m \in Retries : seen[c][n].tries[m] \in 1..hook[m].attempts
    /\ \A n, l \in DOMAIN seen[c] : n < l => Before(seen[c][n].tries, seen[c][l].tries)

LEMMA RunsOrderly ==
    ASSUME TypeInv, NEW c \in Calls, Tried(c), hook' = hook, pc[c] # "done",
           NEW e \in Ends, SameRuns(c) \/ Ran(c, e)
    PROVE  /\ Orderly(c)'
           /\ \A n \in DOMAIN seen'[c] : \/ Before(seen'[c][n].tries, Ahead(c))
                                         \/ pc[c] # "sleep" /\ seen'[c][n].tries = attempt[c]
           /\ \A n \in DOMAIN seen'[c] : n < Len(seen'[c]) => seen'[c][n].how = "error"
           /\ (SameRuns(c) \/ e = "error") =>
                 \A n \in DOMAIN seen'[c] : seen'[c][n].how = "error"
           /\ Ran(c, e) => seen'[c] # <<>> /\ seen'[c][Len(seen'[c])].how = e
<1>1. /\ TypeOK /\ Nested(c) /\ Retries \subseteq Places
      /\ attempt[c] \in [Places -> Nat] /\ seen[c] \in Seq([tries : [Places -> Nat], how : Ends])
  BY CallTyped, HookTyped DEF TypeInv, TypeOK
<1>2. Retries' = Retries /\ \A s, t : Before(s, t)' = Before(s, t)
  BY DEF Retries, Places, Before
<1>3. DOMAIN seen[c] = 1..Len(seen[c]) /\ Len(seen[c]) \in Nat
  BY <1>1
<1>4. /\ Orderly(c)
      /\ \A n \in DOMAIN seen[c] : Before(seen[c][n].tries, Ahead(c)) /\ seen[c][n].how = "error"
  BY DEF Tried, Orderly
<1>5. CASE SameRuns(c)
  <2>1. ~Ran(c, e)
    BY <1>1, <1>5, AppendTyped DEF SameRuns, Ran
  <2>2. Orderly(c)'
    BY <1>2, <1>4, <1>5 DEF Orderly, SameRuns
  <2> QED
    BY <1>4, <1>5, <2>1, <2>2 DEF SameRuns
<1>6. CASE Ran(c, e)
  <2> DEFINE r == [tries |-> attempt[c], how |-> e]
             s == seen[c]
             t == Append(s, r)
  <2>1. seen'[c] = t /\ pc[c] \in {"body", "unwind"} /\ r.tries = attempt[c] /\ r.how = e
    BY <1>6 DEF Ran
  <2>2. /\ r \in [tries : [Places -> Nat], how : Ends]
        /\ DOMAIN t = 1..(Len(s) + 1) /\ Len(t) = Len(s) + 1 /\ t # <<>>
        /\ \A n \in 1..Len(s) : t[n] = s[n]
        /\ t[Len(s) + 1] = r
    <3> DEFINE Run == [tries : [Places -> Nat], how : Ends]
    <3>1. r \in Run /\ s \in Seq(Run)
      BY <1>1
    <3> HIDE DEF Run, r, s
    <3>2. /\ DOMAIN t = 1..(Len(s) + 1) /\ Len(t) = Len(s) + 1 /\ t # <<>>
          /\ \A n \in 1..Len(s) : t[n] = s[n]
          /\ t[Len(s) + 1] = r
      BY <3>1, AppendTyped
    <3> QED
      BY <3>1, <3>2 DEF Run
  <2>3. \A m \in Retries : attempt[c][m] \in 1..hook[m].attempts
    <3> SUFFICES ASSUME NEW m \in Retries PROVE attempt[c][m] \in 1..hook[m].attempts
      OBVIOUS
    <3>1. /\ layer[c] = Len(hook) + 1 /\ m \in 1..Len(hook) /\ Len(hook) \in Nat
          /\ attempt[c][m] > 0 <=> m < layer[c]
      BY <1>1, <2>1, HookTyped DEF Nested, TypeOK
    <3>2. attempt[c][m] > 0
      BY <3>1
    <3> QED
      BY <1>1, <3>2, AttemptTyped
  <2>4. Ahead(c) = attempt[c]
    BY <1>1, <2>1 DEF Ahead
  <2> HIDE DEF r, s, t
  <2>5. \A n \in 1..Len(s) : /\ t[n] = seen[c][n] /\ Before(t[n].tries, attempt[c])
                             /\ t[n].how = "error" /\ n \in DOMAIN seen[c]
    BY <1>3, <1>4, <2>2, <2>4 DEF s
  <2>6. Len(s) \in Nat
    BY <1>3 DEF s
  <2>7. \A n \in DOMAIN t, m \in Retries : t[n].tries[m] \in 1..hook[m].attempts
    BY <1>4, <2>1, <2>2, <2>3, <2>5, <2>6 DEF Orderly
  <2>8. \A n, l \in DOMAIN t : n < l => Before(t[n].tries, t[l].tries)
    <3> SUFFICES ASSUME NEW n \in DOMAIN t, NEW l \in DOMAIN t, n < l
                 PROVE  Before(t[n].tries, t[l].tries)
      OBVIOUS
    <3>1. n \in 1..Len(s)
      BY <2>2, <2>6
    <3>2. CASE l = Len(s) + 1
      BY <2>1, <2>2, <2>5, <3>1, <3>2
    <3>3. CASE l # Len(s) + 1
      <4>1. l \in 1..Len(s)
        BY <2>2, <2>6, <3>3
      <4> QED
        BY <1>4, <2>5, <3>1, <4>1 DEF Orderly
    <3> QED
      BY <3>2, <3>3
  <2>9. Orderly(c)'
    BY <1>2, <2>1, <2>7, <2>8 DEF Orderly
  <2>10. \A n \in DOMAIN t : n \in 1..Len(s) \/ t[n] = r
    BY <2>2, <2>6
  <2>11. ~SameRuns(c)
    BY <2>1, <2>2, <2>6 DEF SameRuns, s
  <2> QED
    BY <2>1, <2>2, <2>4, <2>5, <2>6, <2>9, <2>10, <2>11
<1> QED
  BY <1>5, <1>6

(* What comes before the attempts of a call still does after the move.     *)
LEMMA AheadKeeps ==
    ASSUME TypeInv, NEW c \in Calls, Move(c), hook' = hook, pc'[c] # "done",
           NEW s \in [Places -> Nat],
           Before(s, Ahead(c)) \/ (pc[c] # "sleep" /\ s = attempt[c] /\ pc'[c] = "sleep")
    PROVE  Before(s, Ahead(c)')
<1>1. /\ TypeOK /\ Nested(c) /\ Retries \subseteq Places /\ Places \subseteq Nat
      /\ attempt[c] \in [Places -> Nat] /\ layer[c] \in Nat
      /\ \A m \in Retries : attempt[c][m] \in Nat /\ s[m] \in Nat
  BY CallTyped, HookTyped, AttemptTyped DEF TypeInv, TypeOK
<1>2. Places' = Places
  BY DEF Places
<1>3. CASE Starts(c) \/ GoesOn(c) \/ Reaches(c) \/ Cancels(c)
  <2>1. Ahead(c)' = Ahead(c)
    BY <1>2, <1>3 DEF Ahead, Starts, GoesOn, Reaches, Cancels
  <2>2. pc'[c] # "sleep"
    BY <1>3 DEF Starts, GoesOn, Reaches, Cancels
  <2> QED
    BY <2>1, <2>2
<1>4. CASE Enters(c)
  <2>1. /\ Ahead(c) = attempt[c] /\ pc'[c] # "sleep"
        /\ \A m \in Places : Ahead(c)'[m] = IF m = layer[c] THEN 1 ELSE attempt[c][m]
    BY <1>1, <1>2, <1>4 DEF Ahead, Enters
  <2>2. \A m \in Retries : attempt[c][m] > 0 <=> m < layer[c]
    BY <1>1, <1>4 DEF Enters, Nested
  <2>3. PICK m \in Retries : s[m] < attempt[c][m] /\ \A l \in Retries : l < m => s[l] = attempt[c][l]
    BY <2>1 DEF Before
  <2>4. m < layer[c]
    BY <1>1, <2>2, <2>3
  <2>5. \A l \in Retries : l <= m => Ahead(c)'[l] = attempt[c][l]
    BY <1>1, <2>1, <2>4
  <2> QED
    <3>1. \A l \in Retries : l < m => l <= m
      BY <1>1
    <3>2. s[m] < Ahead(c)'[m] /\ \A l \in Retries : l < m => s[l] = Ahead(c)'[l]
      BY <1>1, <2>3, <2>5, <3>1
    <3> QED
      BY <3>2 DEF Before
<1>5. ASSUME NEW n \in Places, FallsAsleep(c, n) PROVE Before(s, Ahead(c)')
  <2>1. Ahead(c) = attempt[c] /\ n \in Retries
    BY <1>1, <1>5 DEF Ahead, FallsAsleep, Trying
  <2>2. \A m \in Retries : Ahead(c)'[m] = IF m > n THEN 0
                                          ELSE IF m = n THEN attempt[c][m] + 1 ELSE attempt[c][m]
    BY <1>1, <1>2, <1>5 DEF Ahead, FallsAsleep
  <2>3. CASE s = attempt[c]
    <3>1. s[n] < Ahead(c)'[n] /\ \A l \in Retries : l < n => s[l] = Ahead(c)'[l]
      BY <1>1, <2>1, <2>2, <2>3
    <3> QED
      BY <2>1, <3>1 DEF Before
  <2>4. CASE Before(s, attempt[c])
    <3>1. PICK m \in Retries : /\ s[m] < attempt[c][m]
                               /\ \A l \in Retries : l < m => s[l] = attempt[c][l]
      BY <2>4 DEF Before
    <3>2. CASE m <= n
      <4>1. s[m] < Ahead(c)'[m] /\ \A l \in Retries : l < m => s[l] = Ahead(c)'[l]
        BY <1>1, <2>1, <2>2, <3>1, <3>2
      <4> QED
        BY <4>1 DEF Before
    <3>3. CASE n < m
      <4>1. s[n] < Ahead(c)'[n] /\ \A l \in Retries : l < n => s[l] = Ahead(c)'[l]
        BY <1>1, <2>1, <2>2, <3>1, <3>3
      <4> QED
        BY <2>1, <4>1 DEF Before
    <3> QED
      BY <1>1, <3>2, <3>3
  <2> QED
    BY <2>1, <2>3, <2>4
<1>6. CASE Wakes(c)
  <2>1. Ahead(c)' = Ahead(c)
    BY <1>1, <1>2, <1>6 DEF Ahead, Wakes
  <2> QED
    BY <1>6, <2>1 DEF Wakes
<1> QED
  BY <1>3, <1>4, <1>5, <1>6 DEF Move, Finishes

LEMMA TriedMoves ==
    ASSUME TypeInv, NEW c \in Calls, Tried(c), Move(c), hook' = hook
    PROVE  Tried(c)'
<1>1. /\ pc[c] # "done" /\ outcome[c] = "none" /\ TypeOK
      /\ seen[c] \in Seq([tries : [Places -> Nat], how : Ends])
  BY CallTyped DEF Move, Starts, GoesOn, Enters, Reaches, Finishes, FallsAsleep, Wakes, Cancels,
                  Tried, TypeInv
<1>2. Retries' = Retries /\ \A s, t : Before(s, t)' = Before(s, t)
  BY DEF Retries, Places, Before
<1>3. "error" \in Ends /\ attempt[c] \in [Places -> Nat]
  BY <1>1, CallTyped DEF Ends
<1>4. CASE Finishes(c)
  <2>1. PICK e \in Ends : /\ SameRuns(c) \/ Ran(c, e)
                          /\ outcome'[c] = "ok" => Ran(c, e) /\ e = "ok"
    BY <1>3, <1>4 DEF Finishes
  <2>2. /\ Orderly(c)'
        /\ \A n \in DOMAIN seen'[c] : n < Len(seen'[c]) => seen'[c][n].how = "error"
        /\ Ran(c, e) => seen'[c] # <<>> /\ seen'[c][Len(seen'[c])].how = e
    BY <1>1, <2>1, RunsOrderly
  <2>3. ASSUME outcome'[c] = "error", NEW m \in Retries
        PROVE  attempt'[c][m] \in {0, hook[m].attempts}
    <3>1. /\ Trying(c) = {} /\ pc[c] \in {"down", "body", "unwind"} /\ attempt'[c] = attempt[c]
      BY <1>1, <1>4, <2>3, CallTyped DEF Finishes, Stations
    <3>2. attempt[c][m] > 0 <=> m < layer[c]
      BY <3>1 DEF TypeInv, Nested
    <3>3. /\ attempt[c][m] \in Nat /\ hook[m].attempts \in Nat
          /\ attempt[c][m] <= hook[m].attempts
      BY <1>1, AttemptTyped
    <3>4. ~(m < layer[c] /\ attempt[c][m] < hook[m].attempts)
      BY <3>1 DEF Trying, TriesLeft
    <3> QED
      BY <3>1, <3>2, <3>3, <3>4
  <2>4. pc'[c] = "done" /\ outcome'[c] # "none"
    BY <1>4 DEF Finishes
  <2> QED
    BY <1>2, <2>1, <2>2, <2>3, <2>4 DEF Tried, Orderly
<1>5. CASE ~Finishes(c)
  <2>1. /\ pc'[c] \notin {"idle", "done"} /\ outcome'[c] = "none"
        /\ SameRuns(c) \/ (Ran(c, "error") /\ pc'[c] = "sleep")
    BY <1>1, <1>5 DEF Move, Starts, GoesOn, Enters, Reaches, FallsAsleep, Wakes, Cancels
  <2>2. /\ Orderly(c)'
        /\ \A n \in DOMAIN seen'[c] : seen'[c][n].how = "error"
        /\ \A n \in DOMAIN seen'[c] : \/ Before(seen'[c][n].tries, Ahead(c))
                                      \/ pc[c] # "sleep" /\ seen'[c][n].tries = attempt[c]
    <3>1. PICK e \in Ends : e = "error"
      BY <1>3
    <3>2. SameRuns(c) \/ Ran(c, e)
      BY <2>1, <3>1
    <3>3. /\ Orderly(c)'
          /\ \A n \in DOMAIN seen'[c] : \/ Before(seen'[c][n].tries, Ahead(c))
                                        \/ pc[c] # "sleep" /\ seen'[c][n].tries = attempt[c]
      BY <1>1, <3>2, RunsOrderly
    <3>4. (SameRuns(c) \/ e = "error") => \A n \in DOMAIN seen'[c] : seen'[c][n].how = "error"
      BY <1>1, <3>2, RunsOrderly
    <3> QED
      BY <3>1, <3>3, <3>4
  <2>3. ASSUME NEW n \in DOMAIN seen'[c]
        PROVE  Before(seen'[c][n].tries, Ahead(c)')
    <3>1. seen'[c][n].tries \in [Places -> Nat]
      <4> DEFINE Run == [tries : [Places -> Nat], how : Ends]
      <4>1. seen'[c] \in Seq(Run)
        BY RestMoves
      <4>2. seen'[c][n] \in Run
        <5> HIDE DEF Run
        <5> QED
          BY <4>1
      <4> QED
        BY <4>2
    <3>2. \/ Before(seen'[c][n].tries, Ahead(c))
          \/ pc[c] # "sleep" /\ seen'[c][n].tries = attempt[c] /\ pc'[c] = "sleep"
      <4>1. CASE SameRuns(c)
        BY <1>1, <4>1 DEF SameRuns, Tried
      <4> QED
        BY <2>1, <2>2, <4>1
    <3>3. PICK s : s = seen'[c][n].tries
      OBVIOUS
    <3> QED
      BY <2>1, <3>1, <3>2, <3>3, AheadKeeps
  <2>4. \A n \in DOMAIN seen'[c] : Before(seen[c][n].tries, Ahead(c))'
    BY <1>2, <2>3 DEF Before
  <2> QED
    BY <1>2, <2>1, <2>2, <2>4 DEF Tried, Orderly
<1> QED
  BY <1>4, <1>5

(* The invariant of the calls' attempts holds throughout.                  *)
THEOREM RetryInvariance == Spec => []RetryInv
<1>1. Init => RetryInv
  <2> SUFFICES ASSUME Init PROVE \A c \in Calls : Tried(c)
    BY TypeInit DEF RetryInv
  <2> QED
    BY DEF Init, Tried
<1>2. RetryInv /\ [Next]_vars => RetryInv'
  <2> SUFFICES ASSUME RetryInv, [Next]_vars PROVE RetryInv'
    OBVIOUS
  <2>1. TypeInv /\ TypeOK /\ TypeInv' /\ \A c \in Calls : Tried(c)
    BY TypeStep DEF RetryInv, TypeInv
  <2>2. ASSUME NEW c \in Calls, Acts(c) PROVE \A d \in Calls : Tried(d)'
    <3>1. hook' = hook /\ Move(c) /\ \A d \in Calls \ {c} : Rests(d)
      BY <2>1, <2>2, Moves, OnlyOne
    <3>2. Tried(c)'
      BY <2>1, <3>1, TriedMoves
    <3>3. ASSUME NEW d \in Calls \ {c} PROVE Tried(d)'
      BY <2>1, <3>1, TriedRests
    <3> QED
      BY <3>2, <3>3
  <2>3. ASSUME Tick \/ UNCHANGED vars PROVE \A d \in Calls : Tried(d)'
    <3>1. hook' = hook /\ \A d \in Calls : Rests(d)
      BY <2>3 DEF Tick, vars, Rests, timers, limiter
    <3> QED
      BY <2>1, <3>1, TriedRests
  <2> QED
    BY <2>1, <2>2, <2>3 DEF Next, Acts, RetryInv
<1> QED
  BY <1>1, <1>2, PTL DEF Spec

(* A body runs again only after it failed, and in another combination of   *)
(* attempts of the retries around it; the call ends as its last run did:   *)
(* for any stack, with any number of retries in one another, any timing    *)
(* and any other calls.                                                    *)
THEOREM RetryTheorem == Spec => []RetriesOnlyFailures
<1>1. RetryInv => RetriesOnlyFailures
  <2> SUFFICES ASSUME RetryInv, NEW c \in Calls
               PROVE  /\ \A n \in DOMAIN seen[c] :
                            n < Len(seen[c]) \/ pc[c] # "done" => seen[c][n].how = "error"
                      /\ outcome[c] = "ok" => seen[c] # <<>> /\ seen[c][Len(seen[c])].how = "ok"
                      /\ outcome[c] = "error" =>
                            \A m \in Retries : attempt[c][m] \in {0, hook[m].attempts}
                      /\ OncePerAttempt(seen[c])
    BY DEF RetriesOnlyFailures
  <2>1. Tried(c) /\ TypeInv /\ TypeOK
    BY DEF RetryInv, TypeInv
  <2>2. ASSUME NEW n \in DOMAIN seen[c], NEW l \in DOMAIN seen[c], n < l
        PROVE  \E m \in Retries : seen[c][n].tries[m] # seen[c][l].tries[m]
    <3>1. PICK m \in Retries : seen[c][n].tries[m] < seen[c][l].tries[m]
      BY <2>1, <2>2 DEF Tried, Before
    <3>2. seen[c][n].tries[m] \in Nat /\ seen[c][l].tries[m] \in Nat
      <4>1. hook[m].attempts \in Nat
        BY <2>1, AttemptTyped
      <4>2. /\ seen[c][n].tries[m] \in 1..hook[m].attempts
            /\ seen[c][l].tries[m] \in 1..hook[m].attempts
        BY <2>1 DEF Tried
      <4> QED
        BY <4>1, <4>2
    <3> QED
      BY <3>1, <3>2
  <2>3. OncePerAttempt(seen[c])
    BY <2>1, <2>2 DEF Tried, OncePerAttempt
  <2> QED
    BY <2>1, <2>3 DEF Tried
<1> QED
  BY <1>1, RetryInvariance, PTL

-----------------------------------------------------------------------------
(***************************************************************************)
(* The context.  A call on its way down carries the edits of the layers    *)
(* behind it, and a retry keeps those of the layers around it.             *)
(***************************************************************************)
Fresh(c) ==
    /\ pc[c] \notin {"sleep", "done"} => HoldsEditsBefore(ctx[c], layer[c])
    /\ pc[c] # "done" => \A m \in Retries : attempt[c][m] > 0 => HoldsEditsBefore(given[c][m], m)

FreshInv == TypeInv /\ \A c \in Calls : Fresh(c)

(* A layer that edits nothing leaves the edits complete ...                *)
LEMMA EditsSame ==
    ASSUME hook \in Hooks, NEW x \in Seq(Nat), NEW n \in Nat, n \notin EditLayers,
           HoldsEditsBefore(x, n)
    PROVE  HoldsEditsBefore(x, n + 1)
<1>1. EditLayers \subseteq Nat
  BY HookTyped
<1>2. \A k \in DOMAIN x : x[k] \in Nat /\ (x[k] < n => x[k] < n + 1)
  OBVIOUS
<1>3. \A m \in EditLayers : m < n + 1 => m < n
  BY <1>1
<1> QED
  BY <1>2, <1>3 DEF HoldsEditsBefore

(* ... and one that edits adds its own behind them.                        *)
LEMMA EditsMade ==
    ASSUME hook \in Hooks, NEW x \in Seq(Nat), NEW n \in EditLayers, HoldsEditsBefore(x, n)
    PROVE  HoldsEditsBefore(Append(x, n), n + 1)
<1> DEFINE y == Append(x, n)
<1>1. n \in Nat /\ EditLayers \subseteq Nat
  BY HookTyped
<1>2. /\ DOMAIN x = 1..Len(x) /\ Len(x) \in Nat /\ DOMAIN y = 1..(Len(x) + 1)
      /\ \A k \in DOMAIN x : y[k] = x[k] /\ x[k] \in Nat
      /\ y[Len(x) + 1] = n
  BY <1>1
<1>3. /\ \A k \in DOMAIN x : x[k] \in EditLayers /\ x[k] < n
      /\ \A m \in EditLayers : m < n => \E k \in DOMAIN x : x[k] = m
      /\ \A k, l \in DOMAIN x : k < l => x[k] < x[l]
  BY DEF HoldsEditsBefore
<1> HIDE DEF y
<1>4. \A k \in DOMAIN y : y[k] \in EditLayers /\ y[k] < n + 1
  BY <1>1, <1>2, <1>3
<1>5. \A m \in EditLayers : m < n + 1 => \E k \in DOMAIN y : y[k] = m
  <2> SUFFICES ASSUME NEW m \in EditLayers, m < n + 1
               PROVE  \E k \in DOMAIN y : y[k] = m
    OBVIOUS
  <2>1. CASE m = n
    BY <1>2, <2>1
  <2>2. CASE m # n
    <3>1. m < n
      BY <1>1, <2>2
    <3>2. PICK k \in DOMAIN x : x[k] = m
      BY <1>3, <3>1
    <3> QED
      BY <1>2, <3>2
  <2> QED
    BY <2>1, <2>2
<1>6. \A k, l \in DOMAIN y : k < l => y[k] < y[l]
  <2> SUFFICES ASSUME NEW k \in DOMAIN y, NEW l \in DOMAIN y, k < l
               PROVE  y[k] < y[l]
    OBVIOUS
  <2>1. k \in DOMAIN x
    BY <1>2
  <2>2. CASE l \in DOMAIN x
    BY <1>2, <1>3, <2>1, <2>2
  <2>3. CASE l = Len(x) + 1
    BY <1>2, <1>3, <2>1, <2>3
  <2> QED
    BY <1>2, <2>2, <2>3
<1> QED
  BY <1>4, <1>5, <1>6 DEF HoldsEditsBefore, y

(* A step keeps the stack, so it keeps what is before a layer.             *)
LEMMA EditsKept ==
    ASSUME hook' = hook
    PROVE  \A x, n : HoldsEditsBefore(x, n)' = HoldsEditsBefore(x, n)
BY DEF HoldsEditsBefore, EditLayers, Places

LEMMA FreshRests ==
    ASSUME NEW d \in Calls, Fresh(d), Rests(d), hook' = hook
    PROVE  Fresh(d)'
<1>1. Retries' = Retries
  BY DEF Retries, Places
<1> QED
  BY <1>1 DEF Fresh, Rests, HoldsEditsBefore, EditLayers, Places

LEMMA FreshMoves ==
    ASSUME TypeInv, NEW c \in Calls, Fresh(c), Move(c), hook' = hook
    PROVE  Fresh(c)'
<1>1. /\ TypeOK /\ Nested(c) /\ hook \in Hooks /\ layer[c] \in Nat
      /\ ctx[c] \in Seq(Nat) /\ given[c] \in [Places -> Seq(Nat)]
      /\ attempt[c] \in [Places -> Nat]
      /\ Retries \subseteq Places /\ Places \subseteq Nat /\ Retries \cap EditLayers = {}
  BY CallTyped, HookTyped DEF TypeInv, TypeOK
<1>2. Retries' = Retries /\ \A x, n : HoldsEditsBefore(x, n)' = HoldsEditsBefore(x, n)
  BY EditsKept DEF Retries, Places
<1>3. /\ pc[c] \notin {"sleep", "done"} => HoldsEditsBefore(ctx[c], layer[c])
      /\ pc[c] # "done" =>
            \A m \in Retries : attempt[c][m] > 0 => HoldsEditsBefore(given[c][m], m)
  BY DEF Fresh
(* It is enough to look at the values after the step.                      *)
<1>4. ASSUME pc'[c] \notin {"sleep", "done"} => HoldsEditsBefore(ctx'[c], layer'[c]),
             pc'[c] # "done" =>
                \A m \in Retries : attempt'[c][m] > 0 => HoldsEditsBefore(given'[c][m], m)
      PROVE  Fresh(c)'
  BY <1>2, <1>4 DEF Fresh, HoldsEditsBefore, EditLayers, Places
<1>5. CASE Starts(c) \/ Reaches(c) \/ Cancels(c)
  BY <1>3, <1>4, <1>5 DEF Starts, Reaches, Cancels
<1>6. CASE GoesOn(c)
  <2>1. HoldsEditsBefore(ctx'[c], layer[c] + 1)
    BY <1>1, <1>3, <1>6, EditsSame, EditsMade DEF GoesOn, Edited
  <2> QED
    BY <1>3, <1>4, <1>6, <2>1 DEF GoesOn
<1>7. CASE Enters(c)
  <2>1. HoldsEditsBefore(ctx[c], layer[c]) /\ layer[c] \in Retries
    BY <1>3, <1>7 DEF Enters
  <2>2. HoldsEditsBefore(ctx[c], layer[c] + 1)
    BY <1>1, <2>1, EditsSame
  <2>3. \A m \in Retries : attempt'[c][m] > 0 => HoldsEditsBefore(given'[c][m], m)
    <3>1. \A m \in Retries : /\ attempt'[c][m] = IF m = layer[c] THEN 1 ELSE attempt[c][m]
                             /\ given'[c][m] = IF m = layer[c] THEN ctx[c] ELSE given[c][m]
      BY <1>1, <1>7 DEF Enters
    <3> QED
      BY <1>3, <1>7, <2>1, <3>1 DEF Enters
  <2> QED
    BY <1>4, <1>7, <2>2, <2>3 DEF Enters
<1>8. CASE Finishes(c)
  BY <1>4, <1>8 DEF Finishes
<1>9. ASSUME NEW n \in Places, FallsAsleep(c, n) PROVE Fresh(c)'
  <2>1. \A m \in Retries : attempt'[c][m] > 0 => HoldsEditsBefore(given'[c][m], m)
    <3>1. \A m \in Retries : attempt'[c][m] = IF m > n THEN 0 ELSE attempt[c][m]
      BY <1>1, <1>9 DEF FallsAsleep
    <3> QED
      BY <1>3, <1>9, <3>1 DEF FallsAsleep
  <2> QED
    BY <1>4, <1>9, <2>1 DEF FallsAsleep
<1>10. CASE Wakes(c)
  <2>1. /\ layer[c] \in Retries /\ attempt[c][layer[c]] > 0
    BY <1>1, <1>10 DEF Wakes, Nested
  <2>2. HoldsEditsBefore(given[c][layer[c]], layer[c])
    BY <1>3, <1>10, <2>1 DEF Wakes
  <2>3. HoldsEditsBefore(ctx'[c], layer'[c])
    <3>1. given[c][layer[c]] \in Seq(Nat)
      BY <1>1, <2>1
    <3> QED
      BY <1>1, <1>10, <2>1, <2>2, <3>1, EditsSame DEF Wakes
  <2>4. \A m \in Retries : attempt'[c][m] > 0 => HoldsEditsBefore(given'[c][m], m)
    <3>1. \A m \in Retries : m # layer[c] => attempt'[c][m] = attempt[c][m]
      BY <1>1, <1>10 DEF Wakes
    <3> QED
      BY <1>3, <1>10, <2>2, <3>1 DEF Wakes
  <2> QED
    BY <1>4, <2>3, <2>4
<1> QED
  BY <1>5, <1>6, <1>7, <1>8, <1>9, <1>10 DEF Move

(* The invariant of the contexts holds throughout.                         *)
THEOREM FreshInvariance == Spec => []FreshInv
<1>1. Init => FreshInv
  <2> SUFFICES ASSUME Init PROVE \A c \in Calls : Fresh(c)
    BY TypeInit DEF FreshInv
  <2>1. EditLayers \subseteq Nat \ {0} /\ Retries \subseteq Places
    BY HookTyped DEF Init
  <2>2. HoldsEditsBefore(<<>>, 1)
    BY <2>1 DEF HoldsEditsBefore
  <2> QED
    BY <2>1, <2>2 DEF Init, Fresh
<1>2. FreshInv /\ [Next]_vars => FreshInv'
  <2> SUFFICES ASSUME FreshInv, [Next]_vars PROVE FreshInv'
    OBVIOUS
  <2>1. TypeInv /\ TypeOK /\ TypeInv' /\ \A c \in Calls : Fresh(c)
    BY TypeStep DEF FreshInv, TypeInv
  <2>2. ASSUME NEW c \in Calls, Acts(c) PROVE \A d \in Calls : Fresh(d)'
    <3>1. hook' = hook /\ Move(c) /\ \A d \in Calls \ {c} : Rests(d)
      BY <2>1, <2>2, Moves, OnlyOne
    <3>2. Fresh(c)'
      BY <2>1, <3>1, FreshMoves
    <3>3. ASSUME NEW d \in Calls \ {c} PROVE Fresh(d)'
      BY <2>1, <3>1, FreshRests
    <3> QED
      BY <3>2, <3>3
  <2>3. ASSUME Tick \/ UNCHANGED vars PROVE \A d \in Calls : Fresh(d)'
    <3>1. hook' = hook /\ \A d \in Calls : Rests(d)
      BY <2>3 DEF Tick, vars, Rests, timers, limiter
    <3> QED
      BY <2>1, <3>1, FreshRests
  <2> QED
    BY <2>1, <2>2, <2>3 DEF Next, Acts, FreshInv
<1> QED
  BY <1>1, <1>2, PTL DEF Spec

(* Every attempt's body is given each edit of the stack once and in order, *)
(* for any stack, wherever its retries stand and however often an edit is  *)
(* in it.                                                                  *)
THEOREM FreshTheorem == Spec => []FreshContext
<1>1. FreshInv => FreshContext
  BY DEF FreshInv, Fresh, FreshContext, TypeInv, Nested
<1> QED
  BY <1>1, FreshInvariance, PTL
=============================================================================
