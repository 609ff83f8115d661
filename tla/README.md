# agenthooks in TLA+

agenthooks lets other teams hook into an AI agent: the agent declares *hook points*, customers register
*implementations* (async functions from a `HookContext` to a `HookContext`) in *registries*, and the agent runs
`async with self.before_call.run(ctx) as ctx:`. This directory models that machinery, checks it with TLC on small
instances, and proves its main safety properties with TLAPS for all instances. Paths below are relative to the
repository; `core/`, `audit.py` and so on are under `src/agenthooks/`.

## 1. Inventory

| Component | State | Operations | Interacts with |
|---|---|---|---|
| Hook point and executors (`core/hookpoint.py`, `executor/`) | per run: the snapshot of implementations, the local `ctx`, one `_run_one` per implementation under `wait_for` | `run`, `_run_one`, `_run_sequential`, `_run_parallel` | reads the registries, calls the hook bodies, records metrics, schedules audit tasks |
| Context (`core/context.py`) | identity fields, `tool_name`, `metadata` with `__redacted__`; the operations copy, but the dictionary itself can be edited | `enrich`, `replace`, `redact`, `block`, `skip` | produced by hook bodies, read by filters and audit |
| Registry (`core/registry.py`) | per hook point: list of registrations, mode | `implement`, `get_impls` | read by hook points at the start of every run |
| Contracts (`core/contract.py`) | none | `check_compatibility` | called by `implement` |
| Audit trail (`audit.py`) | default trail (lazy), lock, file | `record`, `get_default_audit`, `set_default_audit` | tasks scheduled by `_run_one`, writes on an executor thread |
| Metrics and spans (`observability.py`) | process-wide counters and histogram | `record_metric`, `hook_span` | called by `_run_one` |
| Agent and binding (`agent/base.py`), store (`store/memory.py`) | list of registries, one hook point object per instance | `add_registry`, `_bind_registries`, `get_registries`, `clear` | hands registries to hook points |
| Patterns (`patterns.py`) | `rate_limit`: time stamps per key; `retry`: attempt counter | `inject`, `block_if`, `redact`, `rate_limit`, `require_tenant`, `retry`: decorators around hook bodies | run inside `_run_one`'s time budget |
| Guards, wrapper, release scripts | - | a regex scan; a call-through; git and PyPI tooling | nothing in the library |

What is hard here:

* **Interleaving.** Everything runs on one asyncio loop. Requests, hook bodies, timers, registrations and audit tasks
  interleave at every await; between awaits steps are atomic.
* **Cancellation and timeouts.** `wait_for` cancels a body and waits for it to unwind; the agent's own task may be
  cancelled meanwhile, and again; a body may swallow the cancellation or raise something else while it unwinds, or
  raise `CancelledError` when nobody cancelled it.
* **Partial failure.** One of several hooks blocks, fails, returns `None`; the audit directory cannot be made.
* **Stale values.** Filters are evaluated once, parallel results carry the input's keys, audit entries are built from
  the context a hook was *given*.
* **Ordering.** Parallel results, audit tasks and registrations happen in any order.
* **Sharing.** Lists of registries are handed from stores to agents to hook points; some are copied, some are not.
* **Time.** A sliding window, exponential backoff and the time limit around both.

What makes each part correct: hooks run in order and stop when one says so, exactly the promised context reaches the
agent and nothing moves afterwards, fallback masks failures and only those, each run is counted and audited once,
redaction sticks, every run ends (hook point); a single implementation is alone (registry); lines appear whole, once
and in scheduling order (audit); no window ever admits more than the limit (rate limit); no attempt beyond the
maximum, and none after a block or skip (retry); what an agent was given is what its hook points run (binding).

The hazards, each at its line and with the properties that watch it, are in `PROJECT.json`.

## 2. Modules

| Module | Models |
|---|---|
| `HookContext` | the context value and its operations, and the redacted view the audit shows (`core/context.py`, `audit.py:74-102`) |
| `Instruments` | the counters and the histogram of the in-process meter, and p95 (`observability.py`) |
| `HookImpls` | what is fixed about the implementations of a hook point: order, filter, flags, and what their bodies may return; EXTENDS `HookContext`, `Instruments` |
| `HookPromise` | what `run` promises the agent: every matching hook has one turn, and the request one answer; EXTENDS `HookImpls` |
| `HookPipeline` | one hook point with its requests: snapshot, sequential and parallel execution, every end of `_run_one`, timers, cancellation, merge, metrics, scheduled audit entries; EXTENDS `HookImpls`, refines `HookPromise` |
| `HookPipelineProofs`, `...Answers`, `...Redaction`, `...Counts` | theorems about `HookPipeline` |
| `AuditLog` | what an audit trail promises: every entry handed over is settled once, as a line at the end of the file or as a loss |
| `AuditTrail`, `AuditTrailProofs` | the `record` tasks, the trail's lock, the executor threads and the files; refines `AuditLog`; theorems |
| `Contract` | `check_compatibility` (`core/contract.py`) |
| `HookRegistry` | declarations, conflicts, filters and the ranked look-up (`core/registry.py`); EXTENDS `Contract` |
| `AgentBinding`, `AgentBindingProofs`, `RankingProofs` | store, agents and hook points with the lists that connect them; EXTENDS `HookRegistry`; theorems about the lists, the contracts and the ranking |
| `Patterns`, `PatternsProofs` | a decorated hook, its runs under `wait_for`, and time; theorems |
| `MCHookPipeline`, `MCAuditTrail`, `MCAgentBinding`, `MCPatterns` | small instances for TLC |

`HookPipeline` takes from the registry only what a run can see of it: a relation `Before` on the implementations and whether a
filter matches. That the code's lists and two stable sorts come to such a ranking is `ResolvedIsRanked` of `AgentBinding`. The
audit entries `HookPipeline` schedules are the inputs of `AuditTrail`; the hook bodies it leaves open are, when decorated,
`Patterns`.

### HookPipeline

A *request* is one `run(ctx)`. Its `phase` is where the coroutine stands: `sequential` and `parallel` inside an
executor, `gathering` when a cancelled `gather` waits for its children, then `delivered` (the context is yielded to
the agent), `raised` or `cancelled`. `plan` is the snapshot `_get_impls` takes; it is a set, and the list order of the
code is the relation `Before` (order, then place in the registry).
`st[q][i]` is where `_run_one` of implementation `i` stands: `queued`, `running` (awaiting the body), `expired` (timer
fired, body unwinding), `cancelling`, `orphaned` (it unwinds and nobody waits for it), or ended with its status or `cancelled`. `value` is the executor's local `ctx`, `in` and `out`
the contexts given to and returned by each body, `log` the audit entries a request has scheduled, `unaudited` the runs whose
`get_default_audit()` raised, `recovered` those where it raised once only.

| Action | Code |
|---|---|
| `Implement` | `HookRegistry.implement`, any time |
| `Run` | `HookPointDescriptor.run` up to the first await |
| `Enter` | `_run_one` calls the body |
| `Return`, `Fail`, `OwnTimeout`, `Block`, `Skip` | the body ends; the whole branch of `_run_one` to where its caller awaits again: metric, audit task, fallback, next context, next span (`SpanOpens`), end of the loop |
| `Expire`, `Unwind` | the timer fires; the cancelled body has unwound and `wait_for` raises `TimeoutError` |
| `AuditFails` | a body ends, and `get_default_audit()` raises `OSError` because the directory cannot be made; after a good result the handler of that `OSError` calls it again, and it raises again |
| `AuditRecovers` | the same after a good result, but the second call goes through: the run is an error now, counted as both |
| `OwnCancel` | the body raises `CancelledError` by itself: no handler, no metric, no entry, no fallback |
| `Cancel`, `Abandon`, `GatherCancelled` | the agent's task is cancelled, perhaps again; a body unwinds with `CancelledError`; `gather` raises it |
| `OrphanEnds` | a body that was left behind ends |
| `Merge` | the end of `_run_parallel` |

A step is what the loop does between two awaits, so a hook's end, its metric, its audit task and the decision what
comes next are one action. Hook bodies are unknown code: any of their ends may happen at any moment, or never. What they
may write, redact and replace is a constant, and `Results` is what chains of such edits come to: a replaced metadata
dictionary or list of redacted keys, and what was enriched and redacted after it. `Return`, `Fail` and `Block` are also enabled
while a body unwinds: a body may swallow `CancelledError`, and then the sequential executor simply goes on.

`wait_for` differs between Python versions, and the constant `OwnTasks` says which one is meant. In 3.11 the body is a task of
its own. When the agent's task is cancelled, `wait_for` cancels the body, waits for it and then raises `CancelledError`
whatever the body answers (`Heard`); when a cancellation meets it while it already waits for a timed-out or cancelled
body, it leaves at once and the body unwinds alone (`Thrown`, `orphaned`). Since 3.12 the body runs inside `_run_one`'s task:
a cancellation is thrown into the body again and again, and what the body answers counts.

`HookPromise` says the same of a request without awaits: a turn is one step. In a sequential request the first one left takes it
(`Pass`, `PassOver`, `Stop`), in a parallel one any (`Report`), and `Answer` lays the reports over the agent's context. The
mapping is short: a hook has not had its turn (`Unended`) while it is queued or active, `carried` is the executor's `value`, and the
reports are what the good hooks returned. So `Enter`, `Expire` and `OrphanEnds` are stutters, and so is a `Cancel` that waits for the body of a sequential
request; one that orphans it ends that turn. An invariant about order or merge looks at one state; the refinement adds that every
context a hook starts from, and every answer, is reached by turns of the hooks in front, one after the other.

Abstractions: filters other than `tool_name` (all kinds of key are in `HookRegistry`; this one shows how filters go stale);
the sealed identity fields, which no operation changes; error texts, durations and what OTel spans record; the audit directory's
state, which may differ at every attempt. A body that edits the metadata dictionary in place (`core/context.py:28`) is left out: its
edit would survive a failure. So is a metadata entry `__redacted__` that is an empty list: it counts as absent, while the merge
of the code would let it hide an earlier hook's list. One registry per hook point: a list of registries only changes the place in `Before`.

### AuditTrail

Every hook run but one that skips schedules `record()` as a task nobody awaits. `task[r]` is where that task stands (`ready`, `waiting` or
`woken` in the lock's queue, `writing` while it awaits its thread, or ended), `job[r]` where its `_write_line` stands on
the executor. A trail has a lock of its own and a path (`PathOf`), and several trails may have the same path. The queues of asyncio are first in, first out; the model keeps sets and compares `ticket`s, the turn in which
an entry was handed over.

| Action | Code |
|---|---|
| `SetDefault` | `set_default_audit` |
| `HandOver` | `asyncio.ensure_future(get_default_audit().record(...))` |
| `Start` | `record` up to its first await: the line is built, which may raise; then the free lock is taken, or the task queues |
| `Resume` | a woken waiter takes the lock and submits its write |
| `Pick`, `Write`, `WriteFails` | a thread takes the write, and appends the line or gets `OSError` |
| `Finish` | the awaited write has ended; the lock goes to the first waiter |
| `Cancel` | the task is cancelled at its await: a write no thread has taken is withdrawn, one that runs goes on, the lock is given back |
| `Shutdown`, `Restart` | `asyncio.run` cancels what is left and joins the executor; it is called again with the same trails |

`Leave`, `Free` and `Queues` are `asyncio.Lock` of Python 3.11 (the project's minimum): `release` and a cancelled
`acquire` tell the first waiter when the lock is free, a newcomer does not overtake a waiter, and the first task that has to queue
binds the lock to its loop. A cancelled task ends in the step that cancels it; the code takes one more turn of the
loop for it, in which only the cancelled tasks themselves move. A line is appended whole: the file is opened with `O_APPEND`,
and a line that fits its buffer is one write.

### HookRegistry and AgentBinding

A registry is a sequence of declarations and a mode; `Implement` is the decorator's body up to its append, and its guards are
the three refusals (contract mismatch, a version or clause that does not parse, conflict). `Verdict` walks the clauses in
order: `FirstStop` is the clause at which the loop leaves. `GetImpls` and `Resolve` are the code's list expressions:
select, sort stably, concatenate the registries, sort stably again.

In `AgentBinding` a list of registries is an object: `cell` says which object each variable of the program refers to, `heap`
what is in it, so copying (`list(...)`, `[*...]`) and sharing (`registries or []` of a list that is not empty) differ as they
do in Python. `NewAgent` is `HookAgent.__init__` with `_bind_registries`; `AddRegistry` makes a new bound hook point, as the
code does; `AddToBound`, `NewHookpoint` and `AppendTo` are hook points and lists used directly; `StoreAdd` and `StoreClear`
are the store. `given` and `direct` are history.

### Patterns

One hook function under a stack of decorators, each of which may stand in it several times, and calls of it. Nothing awaits
between the layers, so a call that goes down (`pc = "down"`) goes from layer to layer while everything else stands still
(`Quiet`); other calls and `Tick` move while every call is in the body or sleeps. Decorators are told apart by their place in
the stack: `attempt[c][m]` is the loop variable of the retry at place `m`, `given[c][m]` the context its closure calls again,
`window[m]` the time stamps a limiter keeps, as admissions with their `age`. A context is the list of the layers whose edits
are in it. `seen` is history: in which attempts the body ran, and how that ended.

| Action | Code |
|---|---|
| `Call` | `wait_for(reg.fn(ctx), ...)` enters the outermost decorator |
| `Inject`, `BlockIf`, `Redact`, `RequireTenant`, `RateLimit`, `Retry` | the wrapper of that decorator up to the call of the next one |
| `Body`, `Return`, `Stop`, `Fail` | the body starts; it returns, raises `HookBlocked` or `HookSkip`, or raises something else, with what `retry`'s handlers make of it: the innermost retry that has an attempt left sleeps (`Throw`) |
| `Wake` | the backoff sleep is over |
| `Expire`, `Unwind` | the time limit of `wait_for`, once, at whatever await the call is in |
| `Tick` | time |

A value of `@inject` may be a callable and the condition of `@block_if` is one: they may raise, a block or skip (which ends the
call) or anything else (which `retry` catches). Every number of ticks is a constant; a due timer may be served late, never early.

## 3. Runs

| Run | Instance | Shows |
|---|---|---|
| `pipeline_sequential` | Python 3.12, 2 requests, 3 hooks, two with equal order, one without fallback, one that may return `None` or replace the metadata and then redact, one that may store a list of redacted keys of its own | `InOrder`, `DeliveredIsComplete`, `RaisesAreEarned`, `CarriesLastGood`, `RedactionSticks`, `AuditTellsTheRun`, `MetricsCountRuns`, `EndedIsFinal`, `KeepsPromise` |
| `pipeline_mixed` | Python 3.11, 1 request, 3 hooks, one parallel and filtered, so that the hook point is sequential for one tool and gathers for the other; two hooks write the same key | `MergeByRank`, `DeliveredIsComplete`, `AuditTellsTheRun`, `MetricsCountRuns`, `EndedIsFinal`, `KeepsPromise`, `EventuallyEnds` |
| `agent_binding` | 2 registries, 1 agent, a store with one id, an application list and a hook point on it; declarations with both modes, versions inside, under and above a range, and malformed ones | `SingleIsAlone`, `OnlyCompatible`, `PointsRunWhatWasGiven`, `ResolvedIsRanked` |
| `decorators` | 2 calls, 5 stacks: limiter inside retry, outside of it, without it, no attempt allowed, and two limiters, two edits and a retry inside a retry | `NeverOverLimit`, `RejectedOnlyWhenFull`, `RetriesOnlyFailures`, `FreshContext`, `EventuallyEnds` |
| `audit_trail` | 3 entries, one of which may not serialise, 2 trails on one path | `LockMatchesTasks`, `OverlapOnlyAfterCancel`, `InHandOverOrder`, `EventuallySettled`, `ImplementsLog` |
| `block_in_parallel` | violated | a block among parallel hooks is dropped |
| `failure_crashes` | violated | an audit directory that cannot be made crashes a run whose hooks all have fallback |
| `stale_filter` | violated | a hook runs with a context its filter rejects |
| `lost_write` | violated | a parallel write is undone by a hook that only read the key |
| `retry_outlives_budget` | violated | a body that raises from its cancellation clean-up is retried without a time limit |
| `skips_unaudited` | violated | a hook that skips leaves no audit entry |
| `record_raises` | violated | a trail used by a second event loop makes `record` raise under contention |

**Bounds.** Three hooks are enough for one in front, one running and one behind, with a tie in the order; requests share only
the registry, the audit trail's existence and the counters, so two show every interference. Gathered hooks of one request
interfere only in the merge, for which one request is enough. Three entries put one at the lock, one behind it and
one that arrives, is cancelled or is started in a new loop; two trails meet only in the file they share. `record_raises` needs four: two contend in each loop. In `agent_binding`, `MaxImpls = 2` and `MaxList = 2` bound
the implementations in a registry and the registries in a list: two registries of two give every tie in a rank (same
registry, other registry, the same one twice); one agent is enough because agents meet only in lists the
application and the store hold, which are there, and one id because the store's entries never meet. In `decorators` a window of 2 ticks, a backoff of 1 and a budget of 2 let a retry come before, at
and after the end of both; up to three attempts of two calls under one key pass a limit of 2 and of 1, the call without tenant
has a session id that is the other's tenant, and two attempts in each of two retries run the body up to four times. The hooks' `attempts` bound all counters; ages stop at the window.

The runs set `CHECK_DEADLOCK FALSE`: when all requests, calls or entries have ended, or every list is full, nothing is left to do.
`agent_binding` uses the symmetry of the registries and `pipeline_sequential` that of the requests, which no constant tells
apart; what they check are invariants and properties of single steps. `pipeline_sequential` has 323,000 distinct states,
`pipeline_mixed` 142,000, `audit_trail` 360,000, `decorators` 142,000.

The pipeline runs take one Python version each: 3.12, in which a cancelled body's answer counts, where two sequential requests
interleave; 3.11, in which bodies can be orphaned, where one request runs in both ways. The theorems hold for both versions.

**Fairness** (`FairSpec`). In `HookPipeline` the loop starts ready tasks (`Enter`), timers fire (`Expire`), a cancelled body unwinds unless
it is in `Stubborn` (`Unwind`, `Abandon`), and `gather` resumes (`Merge`, `GatherCancelled`). In `Patterns` time passes, the loop
runs what is ready, due timers are served and cancelled bodies unwind. In `AuditTrail` the loop starts and resumes tasks, and
threads take and end the writes. That is asyncio's own promise. Nothing is assumed of a body that runs, and no agent has to call
or cancel. `EventuallyEnds` of `Patterns` excludes bodies that answer their cancellation with an exception (`Mangling`): for them
`retry_outlives_budget` shows that it fails.

`MergeByRank` says what becomes of redaction when hooks are gathered: the list of redacted keys is one entry of the metadata, so
the last hook that has one decides, and what hooks in front of it redacted is shown again by later hook points. `RedactionSticks`
is about sequential requests, and excepts what the code excepts: a body that replaces the metadata, or stores a list of its own
under `__redacted__`, shows again what was redacted before, also when it redacts other keys afterwards.

`audit_trail` allows what the code does at a shutdown: entries whose tasks have not got a thread are lost, although
`docs/security.md:64` says that every event writes an entry. `skips_unaudited` refutes the same sentence for a hook that
skips, which has no entry to lose; `AuditTellsTheRun` is about the other statuses.

## 4. Proofs

All theorems hold for every value of the constants, from the assumptions the modules name: the constants have their types,
`None` is not a context (`NoCtxAssumption`), and a process makes
finitely many calls through finitely many hooks (`FiniteAssumption`, used by `HookPipelineCounts` alone).

`HookPipelineProofs`:

* `TypeTheorem`: `TypeOK`. `TypeOK` alone is not inductive: a body must have been given a context for its result
  to be one, so `TypeInv` adds `GivenInv`: an executor that runs holds a context, never `None`.
* `InOrderTheorem`: `InOrder`. The inductive `PipelineInv` adds that registered places are distinct (so `Before` is
  total on a snapshot, `BeforeTotal`), that a snapshot is exactly what has a `_run_one`, that each executor runs its kind,
  and that while the sequential executor runs every hook begun either still runs or let it go on. From these at most one
  body runs (`OneAtATime`), and outside the executors none does but an orphan, which only a cancelled request of Python 3.11
  has (`QuietInv`, `OrphanInv`). `StepCases` sums up the thirteen ways a `_run_one` moves; the rest argues over four.
* `FinalityTheorem`: `EndedIsFinal`, from the same invariant.
* `P95InRange`: p95 of any number of observations is taken inside the list of them.

`HookPipelineAnswers`: `DeliveredTheorem`, `RaisesTheorem`, `CarriesTheorem`, `MergeTheorem`, `AuditTheorem`, `PromiseTheorem`. The first five
properties are not inductive one by one; `AnswersInv` is `PipelineInv` and, for each request, the five together with
`CarriedInv`: a running body was given what its executor carries, a parallel request still carries the agent's
context, and a cancelled `gather` starts nothing any more. `StepLands` sums up a step as a beginning, an expiry, the end of an orphan, or a landing (`Lands`, `Logs`); `LandingKeeps` is the
core: whoever lands stands behind all that has begun (`OthersBefore`), so it becomes the last good hook and the last entry.

`PromiseTheorem` is `Spec => Promise!Spec`, from the same invariant. `TurnEnds` shows that a `_run_one` that ends has exactly its own
turn ended, `FirstTurn` that in a sequential request this is the first turn left (by `InOrder`, whoever is behind is still
queued). `StepPromised` maps the thirteen ways a `_run_one` moves to turns, a given-up request or stutters, and `MergePromised`
translates the merge from good hooks to reports.

`HookPipelineRedaction`: `RedactionTheorem`. `RedactInv` strengthens `RedactionSticks` from delivered requests to running ones: the
carried context still has the key, or a later good hook has replaced the metadata. A landing hook was given that
context, so its audit entry hides the key (`SafeMetaHides`) and its result keeps it, or may come after a replacement of the metadata or of the list, however the
body chained its edits (`ResultsRedact`).

`HookPipelineCounts`: `MetricsTheorem`. `MetricsCountRuns` with `RecoveredInv` (a recovered run has ended) is inductive relative to
`PipelineInv`; each ending adds one run to the finite sets the property counts (`FiniteAssumption`).

`AuditTrailProofs`, for any entries, trails on any files and fragile entries, without further assumptions:

* `AuditTypeTheorem`: `TypeOK`, inductive as it stands.
* `LockTheorem`, `OverlapTheorem`, `OrderTheorem`: `LockMatchesTasks`, `OverlapOnlyAfterCancel`, `InHandOverOrder`. The
  inductive `AuditInv` adds how far a write is for each state of its task (`JobInv`), that tickets are given in turn
  (`TicketInv`), that tasks are never overtaken at their trail (`TurnInv`: done before writing before queued before not
  started), and that every line belongs to a written entry of a trail on that path (`FileInv`). `LeaveInv` is the core: whoever
  leaves the lock, the first of the queue is told exactly when the lock is free.
* `Refinement`: `Spec => Log!Spec`. `Fate` maps a task and its write to the entry's fate; `AuditInv` is needed for each step to
  map to a hand-over, a line, a loss of a set, or a stutter (`LogStep`).

`PatternsProofs`, for any calls and any stacks, with each decorator as often as one likes. `Moves` sums up what a step does to a
call as eight cases (`Move`): it starts, goes on to the next layer, enters a retry, reaches the body, ends, falls asleep in a retry,
wakes, or is cancelled in its body. The theorems argue over those:

* `TypeTheorem`: `TypeOK`, with `Nested`: a call is in the loop of exactly the retries above the layer it is at, and only a retry
  with attempts left sleeps.
* `LimitTheorem`, `RejectionTheorem`: `NeverOverLimit`, `RejectedOnlyWhenFull`. By `LimiterInv` what a limiter keeps under a key
  contains its recent admissions and none of another key, and never exceeds the limit; after eviction it is exactly the
  recent ones (`KeptIsRecent`).
* `RetryTheorem`: `RetriesOnlyFailures`. The attempts a call is in, read from the outermost retry inwards, only count upwards:
  an inner retry starts again only in a later attempt of an outer one. So the runs of the body are ordered
  lexicographically by their attempts (`Before`), and the next run stands behind them all (`Ahead`, `RunsOrderly`,
  `AheadKeeps`): no combination of attempts comes twice.
* `FreshTheorem`: `FreshContext`. `Fresh` says what a call holds wherever it stands: on its way down exactly the edits of the layers
  in front, in the body those of the whole stack, and in `given` of each retry those in front of that retry. Entering a
  layer either adds its edit (`EditsMade`) or has none (`EditsSame`), and another attempt starts from `given`.

`AgentBindingProofs`: `BindingTypeTheorem`, `SingleTheorem`, `CompatibleTheorem`, `BindingTheorem`. `BindingInv` adds to the types
that the list of an agent and of its hook point is shared with nobody (`Unshared`), that both hold what history says (`Lists`), that
the registry's mode tells of its single implementation (`ModesTell`), and `OnlyCompatible`. For the last, `Verdict` says "ok" only
when no clause stops the loop: of clauses that stop, one is the first (`NoneStops`). `OnlyCompatible` compares versions as numbers,
in a base above both minors (`Fits`), the code pair by pair; `HoldsSatisfies` proves that the two agree where the code accepts.

`RankingProofs`: `RankingTheorem`, `ResolvedIsRanked` for any registries and lists of them. It needs two facts the library does not
have. `FlattenJoins`: the concatenation of a list of lists has each of them in turn as a stretch (`Joins`); the recursive function
behind `FlattenSeq` exists by `JoiningExists`. `SortedPermutes`: `Rank`, the number of places not behind a place, is a bijection
of the places, so a stable sort permutes the list and has ranks grow. With them `GetImplsRanked` and `CollectedRanked`
follow the code's list from one registry to all; the second sort leaves equal orders in the sequence the first left
them, which is what `ResolveRanked` needs. Where data calls for induction, these proofs take the least counterexample instead
(`LeastNumber`), because the library's induction theorems have operators as parameters.

Model-checked only: liveness (`EventuallyEnds` of both modules, `EventuallySettled`), which the prover cannot treat. Every
invariant and every action property a passing run checks is stated by a theorem.

## 5. Plan

Done: the pipeline, its context, metrics and the promise it keeps; the audit trail and its refinement; contracts, registries,
binding and store; the decorators; their runs and theorems. Left: a composition of pipeline and audit trail, which would relate the
lines in the file to the hooks that ran, over a shutdown.

## 6. Not modelled

* `security/guards.py`: a stateless scan by regular expressions nothing in the library calls.
* Bodies that edit `ctx.metadata` in place, and a `__redacted__` entry with an empty list (see HookPipeline).
* `HookWrapper.invoke`: calls the wrapped agent and no hook; its registries are never read.
* `SequentialExecutor`, `ParallelExecutor` and the protocol `BaseExecutor` under `executor/`: the loops of
  `_run_sequential` and `_run_parallel` once more around `_run_one`; hook points do not use them.
* `on_error`, `retry_max` and `retry_backoff_ms` of a registration and `HookPointDescriptor.mode` are kept and never read;
  `HookRecursionError` is never raised. There is no behaviour to model.
* Exception texts, log formatting, what spans and exporters record, the bucket structure of OTel histograms.
* `examples/` (programs on top of the library, which show its use), the release scripts, and `docs/superpowers`, which describes another product.
