------------------------------ MODULE Patterns ------------------------------
(***************************************************************************)
(* One hook function wrapped in decorators of patterns.py, and the runs of *)
(* it: each is a wait_for(reg.fn(ctx), timeout) of core/hookpoint.py.      *)
(*                                                                         *)
(* Nothing awaits between the decorators, so a call goes from layer to     *)
(* layer ("down") without interruption: the other calls and the clock move *)
(* only while every call is in the hook's body or sleeps between attempts. *)
(* Time is a number of ticks; a timer may be served any time after it is   *)
(* due.                                                                    *)
(***************************************************************************)
EXTENDS Naturals, Sequences, FiniteSets

CONSTANTS
    Calls,      \* runs of the decorated hook
    Tenant,     \* ctx.tenant_id of each call, or NoTenant
    Session,    \* ctx.session_id of each call
    NoTenant,   \* Python's None
    Hooks,      \* stacks of decorators, the outermost first
    Budget,     \* timeout_ms of the registration, in ticks
    Mangling    \* calls whose body may turn its cancellation into an exception

(* A decorator with its arguments, times in ticks.  Any of them may stand  *)
(* in a stack several times.                                               *)
Decorators ==
    [kind : {"inject", "redact", "block_if"}]
    \cup [kind : {"require_tenant"}, allowed : SUBSET {Tenant[c] : c \in Calls}]
    \cup [kind : {"rate_limit"}, limit : Nat, window : Nat,
          per : {"tenant", "session"}, exceeded : {"block", "degrade"}]
    \cup [kind : {"retry"}, attempts : Nat, backoff : Nat]

ASSUME PatternsAssumption ==
    /\ Budget \in Nat
    /\ Hooks \subseteq Seq(Decorators)
    /\ Mangling \subseteq Calls

VARIABLES
    hook,      \* the decorated function
    pc,        \* where each call stands
    layer,     \* the decorator it is at or sleeps in; one past the last: the body
    ctx,       \* the layers whose edits were made on the context so far
    attempt,   \* attempt of each retry, 0 outside its loop
    given,     \* the context each retry was called with
    pause,     \* ticks left of asyncio.sleep
    budget,    \* ticks left of wait_for's timer
    expired,   \* the timer has fired
    outcome,   \* what wait_for returns or raises
    window,    \* _windows of each limiter: the admissions it has stamps of, by key
    age,       \* ticks since each admission of a call by a limiter, up to its window
    seen       \* history: the runs of the body, in which attempts, and their ends

vars == <<hook, pc, layer, ctx, attempt, given, pause, budget, expired,
          outcome, window, age, seen>>

limiter == <<window, age>>
timers  == <<pause, budget, expired>>

Stations == {"idle", "down", "body", "unwind", "sleep", "done"}
Outcomes == {"none", "ok", "error", "stopped", "limited", "degraded", "timeout"}
Ends     == {"ok", "error", "stopped", "timeout"}
Keys     == {Tenant[c] : c \in Calls} \cup {Session[c] : c \in Calls}

Places    == DOMAIN hook
Retries   == {m \in Places : hook[m].kind = "retry"}
Limiters  == {m \in Places : hook[m].kind = "rate_limit"}
EditLayers == {m \in Places : hook[m].kind \in {"inject", "redact"}}

-----------------------------------------------------------------------------
Init ==
    /\ hook \in Hooks
    /\ pc = [c \in Calls |-> "idle"]
    /\ layer = [c \in Calls |-> 1]
    /\ ctx = [c \in Calls |-> <<>>]
    /\ attempt = [c \in Calls |-> [m \in Places |-> 0]]
    /\ given = [c \in Calls |-> [m \in Places |-> <<>>]]
    /\ pause = [c \in Calls |-> 0]
    /\ budget = [c \in Calls |-> Budget]
    /\ expired = [c \in Calls |-> FALSE]
    /\ outcome = [c \in Calls |-> "none"]
    /\ window = [m \in Places |-> [k \in Keys |-> {}]]
    /\ age = [m \in Places |-> [c \in Calls |-> <<>>]]
    /\ seen = [c \in Calls |-> <<>>]

(* No call is between two awaits.                                          *)
Quiet == \A c \in Calls : pc[c] # "down"

AtLayer(c, l) ==
    /\ pc[c] = "down"
    /\ layer[c] \in Places
    /\ hook[layer[c]].kind = l

(* The call goes on to the next layer, with context x.                     *)
Below(c, x) ==
    /\ layer' = [layer EXCEPT ![c] = @ + 1]
    /\ ctx' = [ctx EXCEPT ![c] = x]
    /\ UNCHANGED <<pc, outcome>>

(* It ends: a return, or an exception no layer catches.  Its locals are    *)
(* gone (their values are reset).                                          *)
End(c, o) ==
    /\ pc' = [pc EXCEPT ![c] = "done"]
    /\ outcome' = [outcome EXCEPT ![c] = o]
    /\ layer' = [layer EXCEPT ![c] = 1]
    /\ ctx' = [ctx EXCEPT ![c] = <<>>]

(* Mutant: one attempt too many.                                           *)
TriesLeftOneMore(c, m) == attempt[c][m] <= hook[m].attempts

TriesLeft(c, m) == attempt[c][m] < hook[m].attempts

(* The retries around the layer of the call that would try again.          *)
Trying(c) == {m \in Retries : m < layer[c] /\ TriesLeft(c, m)}

(* An exception other than HookBlocked and HookSkip: the innermost of them *)
(* sleeps before another attempt; those inside it, on their last attempt,  *)
(* have raised the error again.                                            *)
Throw(c) ==
    IF Trying(c) = {}
    THEN End(c, "error") /\ UNCHANGED <<pause, attempt>>
    ELSE \E m \in Trying(c) :
            /\ \A l \in Trying(c) : l <= m
            /\ pc' = [pc EXCEPT ![c] = "sleep"]
            /\ layer' = [layer EXCEPT ![c] = m]
            /\ pause' = [pause EXCEPT ![c] = hook[m].backoff * 2 ^ (attempt[c][m] - 1)]
            /\ attempt' = [attempt EXCEPT ![c] = [l \in Places |-> IF l > m THEN 0 ELSE @[l]]]
            /\ UNCHANGED <<ctx, outcome>>

-----------------------------------------------------------------------------
(* The layers *)

Call(c) ==
    /\ Quiet /\ pc[c] = "idle"
    /\ pc' = [pc EXCEPT ![c] = "down"]
    /\ UNCHANGED <<hook, layer, ctx, attempt, given, timers, outcome, limiter, seen>>

Edited(c) == Append(ctx[c], layer[c])

(* A value may be a callable(ctx), which may raise anything.               *)
Inject(c) ==
    /\ AtLayer(c, "inject")
    /\ \/ Below(c, Edited(c)) /\ UNCHANGED <<pause, attempt>>
       \/ End(c, "stopped") /\ UNCHANGED <<pause, attempt>>
       \/ Throw(c)
    /\ UNCHANGED <<hook, given, budget, expired, limiter, seen>>

(* The condition holds, or itself raises.                                  *)
BlockIf(c) ==
    /\ AtLayer(c, "block_if")
    /\ \/ Below(c, ctx[c]) /\ UNCHANGED <<pause, attempt>>
       \/ End(c, "stopped") /\ UNCHANGED <<pause, attempt>>
       \/ Throw(c)
    /\ UNCHANGED <<hook, given, budget, expired, limiter, seen>>

Redact(c) ==
    /\ AtLayer(c, "redact")
    /\ Below(c, Edited(c))
    /\ UNCHANGED <<hook, attempt, given, timers, limiter, seen>>

RequireTenant(c) ==
    /\ AtLayer(c, "require_tenant")
    /\ IF Tenant[c] \in hook[layer[c]].allowed THEN Below(c, ctx[c]) ELSE End(c, "stopped")
    /\ UNCHANGED <<hook, attempt, given, timers, limiter, seen>>

(* The key of a call at limiter m.                                         *)
KeyOf(m, c) ==
    IF hook[m].per = "tenant" /\ Tenant[c] # NoTenant THEN Tenant[c] ELSE Session[c]

(* An admission by limiter m: a call, which may pass it in each attempt,   *)
(* and the how manieth of the call it is.                                  *)
Admissions(m) == UNION {{c} \X DOMAIN age[m][c] : c \in Calls}

(* Mutants: stamps evicted one tick early, or never.                       *)
KeptTooShort(m, k) == {a \in window[m][k] : age[m][a[1]][a[2]] + 1 < hook[m].window}
KeptForever(m, k)  == window[m][k]

Kept(m, k) == {a \in window[m][k] : age[m][a[1]][a[2]] < hook[m].window}

RateLimit(c) ==
    LET m == layer[c]
        k == KeyOf(m, c)
    IN
    /\ AtLayer(c, "rate_limit")
    /\ IF Cardinality(Kept(m, k)) >= hook[m].limit
       THEN /\ window' = [window EXCEPT ![m][k] = Kept(m, k)]
            /\ End(c, IF hook[m].exceeded = "block" THEN "limited" ELSE "degraded")
            /\ UNCHANGED age
       ELSE /\ window' = [window EXCEPT ![m][k] = Kept(m, k) \cup {<<c, Len(age[m][c]) + 1>>}]
            /\ age' = [age EXCEPT ![m][c] = Append(@, 0)]
            /\ Below(c, ctx[c])
    /\ UNCHANGED <<hook, attempt, given, timers, seen>>

(* With max_attempts = 0 the loop is never entered, and `raise None` is a  *)
(* TypeError.                                                              *)
Retry(c) ==
    LET m == layer[c] IN
    /\ AtLayer(c, "retry")
    /\ IF hook[m].attempts = 0
       THEN Throw(c) /\ UNCHANGED given
       ELSE /\ attempt' = [attempt EXCEPT ![c][m] = 1]
            /\ given' = [given EXCEPT ![c][m] = ctx[c]]
            /\ Below(c, ctx[c]) /\ UNCHANGED pause
    /\ UNCHANGED <<hook, budget, expired, limiter, seen>>

(* Below the last layer the body starts, and runs up to its first await.   *)
Body(c) ==
    /\ pc[c] = "down" /\ layer[c] = Len(hook) + 1
    /\ pc' = [pc EXCEPT ![c] = "body"]
    /\ UNCHANGED <<hook, layer, ctx, attempt, given, timers, outcome, limiter, seen>>

-----------------------------------------------------------------------------
(* How a run of the body ends *)

Saw(c, e) == seen' = [seen EXCEPT ![c] = Append(@, [tries |-> attempt[c], how |-> e])]

InBody(c) == Quiet /\ pc[c] \in {"body", "unwind"}

Return(c) ==
    /\ InBody(c)
    /\ Saw(c, "ok") /\ End(c, "ok")
    /\ UNCHANGED <<hook, attempt, given, timers, limiter>>

(* Mutant: the first handler of retry is missing.                          *)
StopRetried(c) ==
    /\ InBody(c)
    /\ Saw(c, "stopped") /\ Throw(c)
    /\ UNCHANGED <<hook, given, budget, expired, limiter>>

(* HookBlocked or HookSkip.                                                *)
Stop(c) ==
    /\ InBody(c)
    /\ Saw(c, "stopped") /\ End(c, "stopped")
    /\ UNCHANGED <<hook, attempt, given, timers, limiter>>

(* Any other exception.  A body that is being cancelled may raise one in   *)
(* place of CancelledError, from its clean-up.                             *)
Fail(c) ==
    /\ InBody(c) /\ (pc[c] = "unwind" => c \in Mangling)
    /\ Saw(c, "error") /\ Throw(c)
    /\ UNCHANGED <<hook, given, budget, expired, limiter>>

-----------------------------------------------------------------------------
(* Time *)

(* Mutant: the wrapper rebinds its own ctx.                                *)
AgainWithLastCtx(c) == ctx[c]

(* What a retry calls again: the layer below it, with its own ctx.         *)
Again(c) == given[c][layer[c]]

(* The sleep is over: the next attempt.                                    *)
Wake(c) ==
    /\ Quiet /\ pc[c] = "sleep" /\ pause[c] = 0
    /\ pc' = [pc EXCEPT ![c] = "down"]
    /\ attempt' = [attempt EXCEPT ![c][layer[c]] = @ + 1]
    /\ layer' = [layer EXCEPT ![c] = @ + 1]
    /\ ctx' = [ctx EXCEPT ![c] = Again(c)]
    /\ UNCHANGED <<hook, given, timers, outcome, limiter, seen>>

(* Mutant: the time limit covers the first attempts only.                  *)
DueInFirstTry(c) == budget[c] = 0 /\ ~expired[c] /\ \A m \in Places : attempt[c][m] <= 1

Due(c) == budget[c] = 0 /\ ~expired[c]

(* wait_for's timer fires, once: CancelledError is thrown at the await.    *)
(* Nothing in retry catches it.                                            *)
Expire(c) ==
    /\ Quiet /\ pc[c] \in {"body", "sleep"} /\ Due(c)
    /\ expired' = [expired EXCEPT ![c] = TRUE]
    /\ IF pc[c] = "sleep" THEN End(c, "timeout")
       ELSE pc' = [pc EXCEPT ![c] = "unwind"] /\ UNCHANGED <<layer, ctx, outcome>>
    /\ UNCHANGED <<hook, attempt, given, pause, budget, limiter, seen>>

Unwind(c) ==
    /\ Quiet /\ pc[c] = "unwind"
    /\ Saw(c, "timeout") /\ End(c, "timeout")
    /\ UNCHANGED <<hook, attempt, given, timers, limiter>>

Less(n) == IF n = 0 THEN 0 ELSE n - 1

Tick ==
    /\ Quiet
    /\ age' = [m \in Places |-> [c \in Calls |-> [n \in DOMAIN age[m][c] |->
                  IF age[m][c][n] < hook[m].window
                  THEN age[m][c][n] + 1 ELSE age[m][c][n]]]]
    /\ pause' = [c \in Calls |-> Less(pause[c])]
    /\ budget' = [c \in Calls |-> IF pc[c] \in {"idle", "done"} THEN Budget
                                  ELSE Less(budget[c])]
    /\ UNCHANGED <<hook, pc, layer, ctx, attempt, given, expired, outcome, window, seen>>

-----------------------------------------------------------------------------
Layer(c) ==
    \/ Inject(c)
    \/ BlockIf(c)
    \/ Redact(c)
    \/ RequireTenant(c)
    \/ RateLimit(c)
    \/ Retry(c)
    \/ Body(c)

Next ==
    \/ \E c \in Calls :
          \/ Call(c)
          \/ Layer(c)
          \/ Return(c)
          \/ Stop(c)
          \/ Fail(c)
          \/ Wake(c)
          \/ Expire(c)
          \/ Unwind(c)
    \/ Tick

Spec == Init /\ [][Next]_vars

(* The loop runs what is ready, time passes, due timers are served, and a  *)
(* cancelled body unwinds.  Nothing is assumed of a body that runs.        *)
Fairness ==
    /\ WF_vars(Tick)
    /\ \A c \in Calls :
          WF_vars(Layer(c)) /\ WF_vars(Wake(c)) /\ WF_vars(Expire(c)) /\ WF_vars(Unwind(c))

FairSpec == Spec /\ Fairness
-----------------------------------------------------------------------------
(* Properties *)

TypeOK ==
    /\ hook \in Hooks
    /\ pc \in [Calls -> Stations]
    /\ layer \in [Calls -> Nat \ {0}]
    /\ ctx \in [Calls -> Seq(Nat)]
    /\ attempt \in [Calls -> [Places -> Nat]]
    /\ \A c \in Calls, m \in Places :
          attempt[c][m] = 0 \/ (m \in Retries /\ attempt[c][m] <= hook[m].attempts)
    /\ given \in [Calls -> [Places -> Seq(Nat)]]
    /\ pause \in [Calls -> Nat]
    /\ budget \in [Calls -> Nat]
    /\ expired \in [Calls -> BOOLEAN]
    /\ outcome \in [Calls -> Outcomes]
    /\ window \in [Places -> [Keys -> SUBSET (Calls \X Nat)]]
    /\ age \in [Places -> [Calls -> Seq(Nat)]]
    /\ seen \in [Calls -> Seq([tries : [Places -> Nat], how : Ends])]

(* What limiter m let through under a key within its window.               *)
Recent(m, k) ==
    {a \in Admissions(m) : KeyOf(m, a[1]) = k /\ age[m][a[1]][a[2]] < hook[m].window}

(* Whatever attempts, retries and other calls do, and wherever it stands   *)
(* in the stack: in no stretch of its window does a limiter let more than  *)
(* its limit of calls through under one key.                               *)
NeverOverLimit ==
    \A m \in Limiters, k \in Keys : Cardinality(Recent(m, k)) <= hook[m].limit

(* A call is turned away only when the limiter it is at really let limit   *)
(* calls through under its key within the window: stale stamps never count. *)
RejectedOnlyWhenFull ==
    [][\A c \in Calls :
          outcome[c] = "none" /\ outcome'[c] \in {"limited", "degraded"} =>
              LET m == layer[c]
              IN  /\ m \in Limiters
                  /\ Cardinality(Recent(m, KeyOf(m, c))) >= hook[m].limit]_vars

(* The body runs again only after it failed: never after it returned,      *)
(* blocked, skipped or was cancelled, and what it did last is the outcome. *)
(* A failure is final only when every retry the call has got into is on    *)
(* its last attempt.  The body runs at most once for each combination of   *)
(* attempts of the stack's retries, so never more often than the product   *)
(* of their max_attempts.                                                  *)
OncePerAttempt(runs) ==
    /\ \A n \in DOMAIN runs, m \in Retries : runs[n].tries[m] \in 1..hook[m].attempts
    /\ \A n, l \in DOMAIN runs : n < l =>
          \E m \in Retries : runs[n].tries[m] # runs[l].tries[m]

RetriesOnlyFailures ==
    \A c \in Calls :
        /\ \A n \in DOMAIN seen[c] :
              n < Len(seen[c]) \/ pc[c] # "done" => seen[c][n].how = "error"
        /\ outcome[c] = "ok" => seen[c] # <<>> /\ seen[c][Len(seen[c])].how = "ok"
        /\ outcome[c] = "error" =>
              \A m \in Retries : attempt[c][m] \in {0, hook[m].attempts}
        /\ OncePerAttempt(seen[c])

(* The edits in x are those of the layers before the n-th, each once and   *)
(* in the stack's order.                                                   *)
HoldsEditsBefore(x, n) ==
    /\ \A k \in DOMAIN x : x[k] \in EditLayers /\ x[k] < n
    /\ \A m \in EditLayers : m < n => \E k \in DOMAIN x : x[k] = m
    /\ \A k, l \in DOMAIN x : k < l => x[k] < x[l]

(* Each attempt's body is given the context every edit of the stack was    *)
(* made on exactly once, in the stack's order, whichever of them are       *)
(* inside a retry, or inside several.                                      *)
FreshContext ==
    \A c \in Calls : pc[c] \in {"body", "unwind"} =>
        HoldsEditsBefore(ctx[c], Len(hook) + 1)

(* Every run of a decorated hook ends when its body honours cancellation.  *)
EventuallyEnds ==
    \A c \in Calls \ Mangling : pc[c] # "idle" ~> pc[c] = "done"

(* security.md:73: a hook that hangs cannot stall the agent indefinitely.  *)
NeverStalls == \A c \in Calls : pc[c] # "idle" ~> pc[c] = "done"
=============================================================================
