---------------------------- MODULE HookPipeline ----------------------------
(***************************************************************************)
(* One hook point and the requests that run through it                     *)
(* (core/hookpoint.py, with the filter and order of core/registry.py).     *)
(*                                                                         *)
(* A request is one `async with agent.hp.run(ctx)`.  It takes a snapshot   *)
(* of the matching implementations, runs them one after the other or all   *)
(* at once, and hands a context to the agent or raises.  All requests      *)
(* share one asyncio event loop, so a step of this module is what happens  *)
(* between two awaits; requests, hook bodies, timers and cancellations     *)
(* interleave at the awaits.                                               *)
(*                                                                         *)
(* What a hook body does is unknown: it returns one of the contexts its    *)
(* edits allow, or raises HookBlocked, HookSkip, TimeoutError, a           *)
(* CancelledError of its own or any other exception, at any moment, or     *)
(* never ends.                                                             *)
(*                                                                         *)
(* asyncio.wait_for runs the body as a task of its own in Python 3.11, the *)
(* minimum, and inside _run_one's task since 3.12 (OwnTasks).  That makes  *)
(* no difference until the agent's task is cancelled.                      *)
(***************************************************************************)
EXTENDS HookImpls, Sequences

CONSTANTS
    Requests,        \* calls of run() on the hook point
    Contexts,        \* the contexts agents pass to run()
    OwnTasks         \* wait_for makes a task of the body (Python 3.11)

ASSUME PipelineAssumption == Contexts \subseteq Ctx /\ OwnTasks \in BOOLEAN

(* A process makes finitely many calls through finitely many hooks.        *)
ASSUME FiniteAssumption == IsFiniteSet(Requests) /\ IsFiniteSet(Impls)

VARIABLES
    position,      \* place of each implementation in its registry, 0: not registered
    registrations, \* how many implementations are registered
    auditOpen,     \* the default AuditTrail exists (created or installed)
    phase,         \* where each request stands
    asked,         \* the context the agent passed
    value,         \* the local ctx of the executor loop
    cause,         \* the exception a raised request ended with
    plan,          \* the snapshot of implementations a request runs
    st,            \* where each _run_one of a request stands
    in,            \* the context given to each hook body
    out,           \* the context each hook body returned
    unaudited,     \* the _run_one that get_default_audit's exception left
    recovered,     \* the _run_one whose second call of get_default_audit did not raise
    metric,        \* the process-wide instruments
    log            \* the audit entries each request has scheduled, oldest first

vars == <<position, registrations, auditOpen, phase, asked, value, cause, plan,
          st, in, out, unaudited, recovered, metric, log>>

Active   == {"running", "expired", "cancelling"}
Live     == {"sequential", "parallel", "gathering"}
Ended    == {"delivered", "raised", "cancelled"}
Phases   == {"idle"} \cup Live \cup Ended
Causes   == {"none", "blocked", "timeout", "error", "oserror", "attribute", "cancelled"}
Stations == {"none", "queued", "cancelled", "orphaned"} \cup Active \cup Statuses

Entry == [impl : Impls, status : Statuses \ {"skip"},
          shown : [Keys -> Vals \cup {Absent, Hidden}]]

-----------------------------------------------------------------------------
(* The snapshot and its order *)

Before(i, j) == \/ Order[i] < Order[j]
                \/ Order[i] = Order[j] /\ position[i] < position[j]

GetImpls(c) == {i \in Impls : position[i] # 0 /\ Matches(i, c)}

Queued(q)  == {i \in Impls : st[q][i] = "queued"}

(* Mutants: a wait that does not stay for a body that unwinds.             *)
RunningNotExpired(q) == {i \in Impls : st[q][i] \in Active \ {"expired"}}
RunningNotCancelled(q) == {i \in Impls : st[q][i] \in Active \ {"cancelling"}}

Running(q) == {i \in Impls : st[q][i] \in Active}

(* _run_one sees how the body of i ends.  A cancelled wait_for of 3.11     *)
(* raises CancelledError whatever the body's task returns or raises.       *)
Heard(q, i) == st[q][i] \in Active /\ ~(OwnTasks /\ st[q][i] = "cancelling")

IsFirst(q, i) == \A j \in Queued(q) \ {i} : Before(i, j)

(* The results of _run_one with status "ok" that reach the executor.       *)
Good(q) == {i \in Impls : st[q][i] = "ok" /\ i \notin unaudited[q]}

-----------------------------------------------------------------------------
Init ==
    /\ position = [i \in Impls |-> 0]
    /\ registrations = 0
    /\ auditOpen \in BOOLEAN
    /\ phase = [q \in Requests |-> "idle"]
    /\ asked = [q \in Requests |-> NoCtx]
    /\ value = [q \in Requests |-> NoCtx]
    /\ cause = [q \in Requests |-> "none"]
    /\ plan = [q \in Requests |-> {}]
    /\ st = [q \in Requests |-> [i \in Impls |-> "none"]]
    /\ in = [q \in Requests |-> [i \in Impls |-> NoCtx]]
    /\ out = [q \in Requests |-> [i \in Impls |-> NoCtx]]
    /\ unaudited = [q \in Requests |-> {}]
    /\ recovered = [q \in Requests |-> {}]
    /\ metric = Fresh
    /\ log = [q \in Requests |-> <<>>]

(* HookRegistry.implement in mode "multi": any time, also while requests   *)
(* are in flight.                                                          *)
Implement(i) ==
    /\ position[i] = 0
    /\ registrations' = registrations + 1
    /\ position' = [position EXCEPT ![i] = registrations + 1]
    /\ UNCHANGED <<auditOpen, phase, asked, value, cause, plan, st, in, out,
                   unaudited, recovered, metric, log>>

(* HookPointDescriptor.run up to its first await.                          *)
Run(q, c) ==
    LET s == GetImpls(c) IN
    /\ phase[q] = "idle"
    /\ asked' = [asked EXCEPT ![q] = c]
    /\ value' = [value EXCEPT ![q] = c]
    /\ plan' = [plan EXCEPT ![q] = s]
    /\ st' = [st EXCEPT ![q] = [i \in Impls |-> IF i \in s THEN "queued" ELSE "none"]]
    /\ phase' = [phase EXCEPT ![q] = IF s = {} THEN "delivered"
                                     ELSE IF RunsParallel(s) THEN "parallel"
                                     ELSE "sequential"]
    /\ UNCHANGED <<position, registrations, auditOpen, cause, in, out,
                   unaudited, recovered, metric, log>>

(* _run_one calls reg.fn(ctx) under wait_for.  The sequential executor     *)
(* takes the next one of the list; gather starts its tasks in any order.   *)
Enter(q, i) ==
    /\ st[q][i] = "queued"
    /\ \/ phase[q] = "parallel"
       \/ phase[q] = "sequential" /\ Running(q) = {} /\ IsFirst(q, i)
    /\ st' = [st EXCEPT ![q][i] = "running"]
    /\ in' = [in EXCEPT ![q][i] = value[q]]
    /\ UNCHANGED <<position, registrations, auditOpen, phase, asked, value,
                   cause, plan, out, unaudited, recovered, metric, log>>

-----------------------------------------------------------------------------
(* How one _run_one ends *)

(* hook_span puts the context's identity into the span's attributes: with  *)
(* None in its place it raises AttributeError, and nothing is called.      *)
SpanOpens(v) == v # NoCtx

(* Mutant: None ends the pipeline quietly.                                 *)
GoOnUnlessNone(q, v) ==
    IF phase[q] = "sequential"
    THEN /\ value' = [value EXCEPT ![q] = v]
         /\ phase' = [phase EXCEPT ![q] = IF Queued(q) = {} \/ v = NoCtx
                                          THEN "delivered" ELSE @]
         /\ UNCHANGED cause
    ELSE UNCHANGED <<value, phase, cause>>

(* The executor goes on with context v: the loop reaches its end, or opens *)
(* the span of the next implementation.  gather only keeps the result.     *)
GoOn(q, v) ==
    LET left == Queued(q) IN
    IF phase[q] = "sequential"
    THEN /\ value' = [value EXCEPT ![q] = v]
         /\ phase' = [phase EXCEPT ![q] = IF left = {} THEN "delivered"
                                          ELSE IF SpanOpens(v) THEN @ ELSE "raised"]
         /\ cause' = [cause EXCEPT ![q] =
                         IF left = {} \/ SpanOpens(v) THEN @ ELSE "attribute"]
    ELSE UNCHANGED <<value, phase, cause>>

(* An exception leaves _run_one: it leaves the sequential executor too,    *)
(* while gather(return_exceptions=True) keeps it as a result.              *)
Escape(q, e) ==
    /\ IF phase[q] = "sequential"
       THEN /\ phase' = [phase EXCEPT ![q] = "raised"]
            /\ cause' = [cause EXCEPT ![q] = e]
       ELSE UNCHANGED <<phase, cause>>
    /\ UNCHANGED value

Settle(q, i, s) == st' = [st EXCEPT ![q][i] = s]

(* Mutant: skips are not counted.                                          *)
CountNoSkip(i, s) == metric' = IF s = "skip" THEN metric ELSE Recorded(metric, i, s)

Count(i, s) == metric' = Recorded(metric, i, s)

(* Mutant: the first entry only opens the trail.                           *)
AuditOnceOpen(q, i, s) ==
    /\ auditOpen' = TRUE
    /\ log' = IF auditOpen
              THEN [log EXCEPT ![q] = Append(@, [impl |-> i, status |-> s,
                                                 shown |-> SafeMeta(in[q][i])])]
              ELSE log
    /\ UNCHANGED unaudited

(* get_default_audit().record(ctx=ctx, ...) as a task of its own.  ctx is  *)
(* the context the body was GIVEN.                                         *)
Audit(q, i, s) ==
    /\ auditOpen' = TRUE
    /\ log' = [log EXCEPT ![q] = Append(@, [impl |-> i, status |-> s,
                                            shown |-> SafeMeta(in[q][i])])]
    /\ UNCHANGED unaudited

Return(q, i) ==
    /\ Heard(q, i)
    /\ Settle(q, i, "ok")
    /\ Count(i, "ok")
    /\ Audit(q, i, "ok")
    /\ \E v \in Results(i, in[q][i]) :
          /\ out' = [out EXCEPT ![q][i] = v]
          /\ GoOn(q, v)
    /\ UNCHANGED <<position, registrations, asked, plan, in, recovered>>

(* Mutants: the fallback flag read the wrong way round; degrading to the   *)
(* request's context instead of the one the hook was given.                *)
MaskedUnlessFallback(i)  == i \notin Fallbacks
DegradedToAsked(q, i)    == asked[q]

Masked(i)        == i \in Fallbacks
DegradedTo(q, i) == in[q][i]

(* A timeout or an exception other than HookBlocked and HookSkip: degraded *)
(* to the unchanged context, or raised.                                    *)
Degrade(q, i, s) ==
    /\ Settle(q, i, s)
    /\ Count(i, s)
    /\ Audit(q, i, s)
    /\ IF Masked(i) THEN GoOn(q, DegradedTo(q, i)) ELSE Escape(q, s)
    /\ UNCHANGED <<position, registrations, asked, plan, in, out, recovered>>

Fail(q, i) ==
    /\ Heard(q, i)
    /\ Degrade(q, i, "error")

(* The body itself raises TimeoutError, for a call of its own.             *)
OwnTimeout(q, i) ==
    /\ Heard(q, i)
    /\ Degrade(q, i, "timeout")

(* Mutant: only hooks with fallback get a timer.                           *)
ExpireFallback(q, i) ==
    /\ st[q][i] = "running" /\ i \in Fallbacks
    /\ st' = [st EXCEPT ![q][i] = "expired"]
    /\ UNCHANGED <<position, registrations, auditOpen, phase, asked, value,
                   cause, plan, in, out, unaudited, recovered, metric, log>>

(* The timer of wait_for fires and cancels the body ...                    *)
Expire(q, i) ==
    /\ st[q][i] = "running"
    /\ st' = [st EXCEPT ![q][i] = "expired"]
    /\ UNCHANGED <<position, registrations, auditOpen, phase, asked, value,
                   cause, plan, in, out, unaudited, recovered, metric, log>>

(* ... which has unwound: wait_for raises TimeoutError.                    *)
Unwind(q, i) ==
    /\ st[q][i] = "expired"
    /\ Degrade(q, i, "timeout")

Block(q, i) ==
    /\ Heard(q, i)
    /\ Settle(q, i, "blocked")
    /\ Count(i, "blocked")
    /\ Audit(q, i, "blocked")
    /\ Escape(q, "blocked")
    /\ UNCHANGED <<position, registrations, asked, plan, in, out, recovered>>

(* HookSkip: a metric, no audit entry; the sequential loop breaks.         *)
Skip(q, i) ==
    /\ Heard(q, i)
    /\ Settle(q, i, "skip")
    /\ Count(i, "skip")
    /\ IF phase[q] = "sequential"
       THEN phase' = [phase EXCEPT ![q] = "delivered"]
       ELSE UNCHANGED phase
    /\ UNCHANGED <<position, registrations, auditOpen, asked, value, cause,
                   plan, in, out, unaudited, recovered, log>>

(* The default audit file's directory cannot be made: get_default_audit    *)
(* raises OSError.  After a good result that lands in the handler of       *)
(* _run_one, which counts an error and calls get_default_audit again; in a *)
(* handler (here: also the second time) it leaves _run_one whatever the    *)
(* fallback is.                                                            *)
AuditFails(q, i, s) ==
    /\ Heard(q, i)
    /\ ~auditOpen
    /\ Settle(q, i, s)
    /\ unaudited' = [unaudited EXCEPT ![q] = @ \cup {i}]
    /\ metric' = LET m == Recorded(metric, i, s)
                 IN  IF s = "ok" THEN Recorded(m, i, "error") ELSE m
    /\ Escape(q, "oserror")
    /\ UNCHANGED <<position, registrations, auditOpen, asked, plan, in, out,
                   recovered, log>>

(* The second call of get_default_audit goes through: the good result is   *)
(* an error now, and counted as both.                                      *)
AuditRecovers(q, i) ==
    /\ Heard(q, i)
    /\ ~auditOpen
    /\ Settle(q, i, "error")
    /\ recovered' = [recovered EXCEPT ![q] = @ \cup {i}]
    /\ metric' = Recorded(Recorded(metric, i, "ok"), i, "error")
    /\ Audit(q, i, "error")
    /\ IF Masked(i) THEN GoOn(q, DegradedTo(q, i)) ELSE Escape(q, "error")
    /\ UNCHANGED <<position, registrations, asked, plan, in, out>>

-----------------------------------------------------------------------------
(* Cancellation of the agent's task, and the end of a parallel run *)

(* What a CancelledError at the await of wait_for makes of the body: it is *)
(* cancelled and waited for.  The wait itself cannot be cancelled where    *)
(* the body runs inside it; in 3.11, one that waits for a timed-out or     *)
(* cancelled body to unwind leaves at once, and the body unwinds alone.    *)
Thrown(s) == IF OwnTasks /\ s \in {"expired", "cancelling"} THEN "orphaned"
             ELSE "cancelling"

(* The agent's task is cancelled while it awaits the pipeline, perhaps     *)
(* once more: the await passes the cancellation to every _run_one that has *)
(* not ended; tasks of gather that have not started never will.            *)
Cancel(q) ==
    /\ phase[q] \in Live
    /\ st' = [st EXCEPT ![q] =
                [i \in Impls |-> IF @[i] \in Active THEN Thrown(@[i])
                                 ELSE IF @[i] = "queued" /\ phase[q] # "sequential"
                                      THEN "cancelled" ELSE @[i]]]
    /\ phase' = [phase EXCEPT ![q] =
                   IF @ # "sequential" THEN "gathering"
                   ELSE IF \E i \in Running(q) : Thrown(st[q][i]) \in Active THEN @
                   ELSE "cancelled"]
    /\ UNCHANGED <<position, registrations, auditOpen, asked, value, cause,
                   plan, in, out, unaudited, recovered, metric, log>>

(* A cancelled body has unwound, and CancelledError has no handler in      *)
(* _run_one: there is neither metric nor audit entry.  (In 3.12 a body     *)
(* that returns or raises all the same takes one of the actions above, and *)
(* the sequential executor goes on.)                                       *)
Abandon(q, i) ==
    /\ st[q][i] = "cancelling"
    /\ Settle(q, i, "cancelled")
    /\ phase' = [phase EXCEPT ![q] = IF @ = "sequential" THEN "cancelled" ELSE @]
    /\ UNCHANGED <<position, registrations, auditOpen, asked, value, cause,
                   plan, in, out, unaudited, recovered, metric, log>>

(* The body itself raises CancelledError, say because it awaits a task     *)
(* that somebody cancelled.  It is no Exception: neither counted, audited  *)
(* nor masked by fallback.                                                 *)
OwnCancel(q, i) ==
    /\ st[q][i] = "running"
    /\ Settle(q, i, "cancelled")
    /\ Escape(q, "cancelled")
    /\ UNCHANGED <<position, registrations, auditOpen, asked, plan, in, out,
                   unaudited, recovered, metric, log>>

(* Mutant: the task of an orphaned body still reports to its request.      *)
OrphanReports(q, i) ==
    /\ st[q][i] = "orphaned"
    /\ Settle(q, i, "ok")
    /\ Count(i, "ok")
    /\ Audit(q, i, "ok")
    /\ UNCHANGED <<position, registrations, phase, asked, value, cause, plan,
                   in, out, recovered>>

(* An orphaned body ends; its result or exception reaches nobody.          *)
OrphanEnds(q, i) ==
    /\ st[q][i] = "orphaned"
    /\ Settle(q, i, "cancelled")
    /\ UNCHANGED <<position, registrations, auditOpen, phase, asked, value, cause,
                   plan, in, out, unaudited, recovered, metric, log>>

(* Mutant: earlier results win.                                            *)
IsEarliest(i, s) == i \in s /\ \A j \in s \ {i} : Before(i, j)

(* merged_metadata: the dictionaries of the good results, laid over the    *)
(* input's one in the order of the list.  m is the result for the keys and *)
(* r for "__redacted__", an entry that a dictionary has once it is used.   *)
Writers(q, k)  == {i \in Good(q) : out[q][i].meta[k] # Absent}
Redacters(q)   == {i \in Good(q) : out[q][i].redacted # {}}
IsLast(i, s)   == i \in s /\ \A j \in s \ {i} : Before(j, i)

IsMerge(q, m, r) ==
    /\ \A k \in Keys :
          IF Writers(q, k) = {} THEN m[k] = value[q].meta[k]
          ELSE \E i \in Writers(q, k) : IsLast(i, Writers(q, k)) /\ m[k] = out[q][i].meta[k]
    /\ IF Redacters(q) = {} THEN r = value[q].redacted
       ELSE \E i \in Redacters(q) : IsLast(i, Redacters(q)) /\ r = out[q][i].redacted

(* gather has all its results: the merge, which raises AttributeError when *)
(* a good result is None.                                                  *)
Merge(q) ==
    /\ phase[q] = "parallel"
    /\ Queued(q) = {} /\ Running(q) = {}
    /\ IF \E i \in Good(q) : out[q][i] = NoCtx
       THEN /\ phase' = [phase EXCEPT ![q] = "raised"]
            /\ cause' = [cause EXCEPT ![q] = "attribute"]
            /\ UNCHANGED value
       ELSE /\ \E m \in Meta, r \in SUBSET Keys :
                  /\ IsMerge(q, m, r)
                  /\ value' = [value EXCEPT ![q] =
                                 [tool |-> @.tool, meta |-> m, redacted |-> r]]
            /\ phase' = [phase EXCEPT ![q] = "delivered"]
            /\ UNCHANGED cause
    /\ UNCHANGED <<position, registrations, auditOpen, asked, plan, st, in, out,
                   unaudited, recovered, metric, log>>

(* gather of a cancelled task has all its results: it raises CancelledError. *)
GatherCancelled(q) ==
    /\ phase[q] = "gathering"
    /\ Running(q) = {}
    /\ phase' = [phase EXCEPT ![q] = "cancelled"]
    /\ UNCHANGED <<position, registrations, auditOpen, asked, value, cause,
                   plan, st, in, out, unaudited, recovered, metric, log>>

-----------------------------------------------------------------------------
Step(q, i) ==
    \/ Enter(q, i)
    \/ Return(q, i)
    \/ Fail(q, i)
    \/ OwnTimeout(q, i)
    \/ Expire(q, i)
    \/ Unwind(q, i)
    \/ Block(q, i)
    \/ Skip(q, i)
    \/ \E s \in Statuses \ {"skip"} : AuditFails(q, i, s)
    \/ AuditRecovers(q, i)
    \/ Abandon(q, i)
    \/ OwnCancel(q, i)
    \/ OrphanEnds(q, i)

Next ==
    \/ \E i \in Impls : Implement(i)
    \/ \E q \in Requests, c \in Contexts : Run(q, c)
    \/ \E q \in Requests, i \in Impls : Step(q, i)
    \/ \E q \in Requests : Cancel(q) \/ Merge(q) \/ GatherCancelled(q)

Spec == Init /\ [][Next]_vars

(***************************************************************************)
(* What the event loop owes: it starts ready tasks and resumes finished    *)
(* awaits, its timers fire, and a body that is thrown CancelledError       *)
(* unwinds, unless it is a stubborn one.  Nothing is assumed of a body     *)
(* that is merely running, and nothing makes an agent call or cancel.      *)
(***************************************************************************)
Fairness ==
    \A q \in Requests :
        /\ \A i \in Impls : WF_vars(Enter(q, i)) /\ WF_vars(Expire(q, i))
        /\ \A i \in Impls \ Stubborn : WF_vars(Unwind(q, i)) /\ WF_vars(Abandon(q, i))
        /\ WF_vars(Merge(q))
        /\ WF_vars(GatherCancelled(q))

FairSpec == Spec /\ Fairness
-----------------------------------------------------------------------------
(* Properties *)

TypeOK ==
    /\ position \in [Impls -> Nat]
    /\ registrations \in Nat
    /\ auditOpen \in BOOLEAN
    /\ phase \in [Requests -> Phases]
    /\ asked \in [Requests -> Ctx \cup {NoCtx}]
    /\ value \in [Requests -> Ctx \cup {NoCtx}]
    /\ cause \in [Requests -> Causes]
    /\ plan \in [Requests -> SUBSET Impls]
    /\ st \in [Requests -> [Impls -> Stations]]
    /\ in \in [Requests -> [Impls -> Ctx \cup {NoCtx}]]
    /\ out \in [Requests -> [Impls -> Ctx \cup {NoCtx}]]
    /\ unaudited \in [Requests -> SUBSET Impls]
    /\ recovered \in [Requests -> SUBSET Impls]
    /\ metric \in Meter
    /\ log \in [Requests -> Seq(Entry)]

Sequential(q) == plan[q] # {} /\ ~RunsParallel(plan[q])
Begun(q)      == {i \in plan[q] : st[q][i] # "queued"}

(* _run_one of i handed a context back to the executor.                    *)
Proceeded(q, i) ==
    /\ i \notin unaudited[q]
    /\ \/ st[q][i] = "ok"
       \/ st[q][i] \in {"timeout", "error"} /\ i \in Fallbacks

(* In a sequential request a body begins only after every implementation   *)
(* in front of it has ended and let the pipeline go on: none runs beside   *)
(* another (not even beside one that timed out and still unwinds), and     *)
(* none runs after a block, a skip or a raise.                             *)
InOrder ==
    \A q \in Requests : Sequential(q) =>
        \A i \in Begun(q), j \in plan[q] : Before(j, i) => Proceeded(q, j)

(* A context is delivered only when the whole snapshot was dealt with:     *)
(* every implementation proceeded, or the last one begun skipped the rest; *)
(* in parallel, every _run_one ended, be it by its body's own cancellation.*)
Complete(q) ==
    IF Sequential(q)
    THEN \/ \A i \in plan[q] : Proceeded(q, i)
         \/ \E i \in plan[q] : /\ st[q][i] = "skip"
                               /\ \A j \in Begun(q) \ {i} : Before(j, i) /\ Proceeded(q, j)
    ELSE \A i \in plan[q] : st[q][i] \in Statuses \cup {"cancelled"}

DeliveredIsComplete ==
    \A q \in Requests : phase[q] = "delivered" => Complete(q)

(* A request raises only for a reason the registration allows, or one that *)
(* fallback does not cover: a hook blocked, one without fallback timed out *)
(* or failed, one returned None, one raised CancelledError by itself, or   *)
(* the audit file could not be opened.                                     *)
Earned(q) ==
    \E i \in plan[q] :
        \/ cause[q] = "oserror" /\ i \in unaudited[q]
        \/ cause[q] = "attribute" /\ st[q][i] = "ok" /\ out[q][i] = NoCtx
        \/ cause[q] \in {"blocked", "cancelled"} /\ st[q][i] = cause[q]
        \/ cause[q] \in {"timeout", "error"} /\ st[q][i] = cause[q] /\ i \notin Fallbacks

RaisesAreEarned ==
    \A q \in Requests : phase[q] = "raised" => Earned(q)

(* In a sequential request the context that is carried is what the last    *)
(* good hook returned, or the agent's own: one that fails, times out,      *)
(* blocks or skips leaves no edit in it that it made by the context's      *)
(* operations.                                                             *)
LastGoodIsCarried(q) ==
    IF Good(q) = {} THEN value[q] = asked[q]
    ELSE \E i \in Good(q) : IsLast(i, Good(q)) /\ value[q] = out[q][i]

CarriesLastGood ==
    \A q \in Requests : Sequential(q) => LastGoodIsCarried(q)

(* A key redacted by a good hook of a sequential request is hidden (or not *)
(* shown) in the audit entry of every later hook of the request, and is    *)
(* redacted in what the agent gets, unless a good hook in between, which   *)
(* may replace the whole metadata (where the list of redacted keys is      *)
(* kept) or that list, returned less of the list than it was given.        *)
RewroteAfter(q, i) == {j \in Good(q) : Before(i, j) /\ out[q][j] # NoCtx
                                        /\ MayHaveReplaced(j, out[q][j])
                                        /\ ~(in[q][j].redacted \subseteq out[q][j].redacted)}

RedactionSticks ==
    \A q \in Requests : Sequential(q) =>
        \A i \in Good(q) : out[q][i] # NoCtx =>
            \A k \in out[q][i].redacted :
                /\ \A n \in DOMAIN log[q] :
                      \/ log[q][n].shown[k] \in {Absent, Hidden}
                      \/ ~Before(i, log[q][n].impl)
                      \/ \E j \in RewroteAfter(q, i) : Before(j, log[q][n].impl)
                /\ \/ phase[q] # "delivered" \/ value[q] = NoCtx
                   \/ k \in value[q].redacted
                   \/ RewroteAfter(q, i) # {}

(* The merge of a parallel request depends on the order of the list, never *)
(* on who finished first, and takes nothing from a hook that did not       *)
(* succeed: a delivered value is the agent's or a good hook's, and a good  *)
(* hook that reported another value stands before one that reported it.    *)
(* The list of redacted keys is one value: a redaction is lost only to a   *)
(* hook further behind that reported a list of its own.                    *)
RankedMerge(q) ==
    /\ value[q].tool = asked[q].tool
    /\ \A k \in Keys :
          \/ /\ \A i \in Good(q) : out[q][i].meta[k] = Absent
             /\ value[q].meta[k] = asked[q].meta[k]
          \/ \E j \in Good(q) :
                /\ out[q][j].meta[k] = value[q].meta[k]
                /\ \A i \in Good(q) :
                      out[q][i].meta[k] \notin {Absent, value[q].meta[k]} => Before(i, j)
    /\ \A i \in Good(q) : \A k \in out[q][i].redacted :
          \/ k \in value[q].redacted
          \/ \E j \in Good(q) : Before(i, j) /\ out[q][j].redacted # {}

MergeByRank ==
    \A q \in Requests : phase[q] = "delivered" /\ RunsParallel(plan[q]) /\ plan[q] # {}
                           => RankedMerge(q)

(* Each hook that ended with a status other than skip (for those see       *)
(* SkipsAreAudited) is in the audit once and with that status, unless the  *)
(* audit could not be opened; nothing else is in it, and a sequential      *)
(* request's entries stand in its order.                                   *)
EntriesTell(q) ==
    /\ \A n \in DOMAIN log[q] : /\ st[q][log[q][n].impl] = log[q][n].status
                                /\ log[q][n].impl \notin unaudited[q]
    /\ \A i \in Impls : st[q][i] \in Statuses \ {"skip"} /\ i \notin unaudited[q] =>
          \E n \in DOMAIN log[q] : log[q][n].impl = i
    /\ \A m, n \in DOMAIN log[q] : m < n =>
          IF Sequential(q) THEN Before(log[q][m].impl, log[q][n].impl)
          ELSE log[q][m].impl # log[q][n].impl

AuditTellsTheRun == \A q \in Requests : EntriesTell(q)

(* The executions counter of a status counts the hook runs that ended with *)
(* it; cancelled ones count nowhere.  A good run whose audit could not be  *)
(* opened counts for "ok" and for "error", whichever of the two it ended   *)
(* with.  The other instruments count the same by fewer attributes.        *)
EndedWith(i, s)  == {q \in Requests : st[q][i] = s}
CountedTwice(i)  == {q \in Requests : st[q][i] = "ok" /\ i \in unaudited[q]}
WasRecovered(i)  == {q \in Requests : i \in recovered[q]}

Runs == Requests \X Impls

MetricsCountRuns ==
    /\ \A i \in Impls, s \in Statuses :
          metric.executions[i][s] = Cardinality(EndedWith(i, s))
                       + (IF s = "error" THEN Cardinality(CountedTwice(i)) ELSE 0)
                       + (IF s = "ok" THEN Cardinality(WasRecovered(i)) ELSE 0)
    /\ \A i \in Impls : /\ metric.errors[i] = metric.executions[i]["error"]
                        /\ metric.blocked[i] = metric.executions[i]["blocked"]
    /\ metric.timeouts = Cardinality({r \in Runs : st[r[1]][r[2]] = "timeout"})
    /\ metric.observations = Cardinality({r \in Runs : st[r[1]][r[2]] \in Statuses})
                             + Cardinality({r \in Runs : r[1] \in CountedTwice(r[2])})
                             + Cardinality({r \in Runs : r[1] \in WasRecovered(r[2])})

(* Once the agent has its answer nothing of the request moves any more: no *)
(* body still runs or unwinds, no late result changes the context, and no  *)
(* audit entry is scheduled.  Only in a cancelled request of Python 3.11 a *)
(* body may be left that a second cancellation, or one after its timer,    *)
(* has orphaned; it ends without a trace.                                  *)
EndedIsFinal ==
    [][\A q \in Requests : phase[q] \in Ended =>
          /\ UNCHANGED <<phase[q], value[q], log[q]>>
          /\ \A i \in Impls :
                \/ st'[q][i] = st[q][i]
                \/ /\ OwnTasks /\ phase[q] = "cancelled"
                   /\ st[q][i] = "orphaned" /\ st'[q][i] = "cancelled"]_vars

(* A request whose pipeline has started ends, whatever its hooks do, as    *)
(* long as a cancelled body unwinds.                                       *)
EventuallyEnds ==
    \A q \in Requests : phase[q] \in Live ~> phase[q] \in Ended
-----------------------------------------------------------------------------
(* Whatever the timers, cancellations, failures of the audit and other     *)
(* requests do meanwhile, a request is served as if each hook of its       *)
(* snapshot took its turn at once: in the order of the list, each with the *)
(* context the last good one left, or all from the agent's context with    *)
(* their results laid over it in that order; and it is answered once.      *)
Unended(q) == {i \in Impls : st[q][i] = "queued" \/ st[q][i] \in Active}
Reports(q) == {<<i, out[q][i]>> : i \in Good(q)}

Promise == INSTANCE HookPromise WITH
    stage <- phase, carried <- value,
    left <- [q \in Requests |-> Unended(q)],
    reports <- [q \in Requests |-> Reports(q)]

KeepsPromise == Promise!Spec
-----------------------------------------------------------------------------
(* What the documents say and the code does not do *)

(* architecture.md:98, flow.md:170: HookBlocked always propagates.         *)
BlockAlwaysPropagates ==
    \A q \in Requests, i \in Impls :
        phase[q] = "delivered" => st[q][i] # "blocked"

(* architecture.md:151: with fallback (the default) no timeout and no      *)
(* exception crashes the agent; only a block raises.  A CancelledError,    *)
(* which is no Exception and escapes as well, is not held against it.      *)
FailureNeverCrashes ==
    \A q \in Requests : phase[q] = "raised" =>
        \E i \in plan[q] : st[q][i] \in {"blocked", "cancelled"} \/ i \notin Fallbacks

(* security.md:64, audit.py:35: every hook execution event writes an       *)
(* entry, skips included.                                                  *)
SkipsAreAudited ==
    \A q \in Requests, i \in Impls : st[q][i] = "skip" =>
        \E n \in DOMAIN log[q] : log[q][n].impl = i

(* architecture.md:104-115: the executor evaluates the filters, hook code  *)
(* cannot bypass them and all conditions must match: a hook is only called *)
(* with a context its filter accepts.                                      *)
CalledOnlyForItsFilter ==
    \A q \in Requests, i \in Impls : in[q][i] # NoCtx => Matches(i, in[q][i])

(* flow.md:206: the merge takes the metadata of all good results, and the  *)
(* last write wins on conflicts: a key some good hook wrote carries what   *)
(* one of its writers wrote.                                               *)
WroteKey(q, i, k) == i \in Good(q) /\ out[q][i].meta[k] # in[q][i].meta[k]

MergeKeepsWrites ==
    \A q \in Requests, k \in Keys :
        phase[q] = "delivered" /\ ~Sequential(q) =>
            \/ ~ \E i \in Impls : WroteKey(q, i, k)
            \/ \E i \in Impls : WroteKey(q, i, k) /\ value[q].meta[k] = out[q][i].meta[k]
=============================================================================
