----------------------------- MODULE AuditTrail -----------------------------
(***************************************************************************)
(* The JSONL audit trails (audit.py) and the tasks that write to them.     *)
(*                                                                         *)
(* A hook run hands one entry to the default trail: a task that calls      *)
(* record().  The task builds its line, takes the trail's asyncio lock,    *)
(* has a thread of the default executor append the line, and gives the     *)
(* lock back.  Nobody awaits the task; it can be cancelled at any await,   *)
(* and all of them are when the event loop shuts down.  The trails outlive *)
(* the loop, and asyncio.run() may be called again.                        *)
(*                                                                         *)
(* The queues of the code are first in, first out; here they are sets      *)
(* ordered by the ticket an entry got when it was handed over.             *)
(***************************************************************************)
EXTENDS Naturals, Sequences

CONSTANTS
    Records,    \* audit entries, one per call of record()
    Trails,     \* AuditTrail objects, each with a lock of its own
    Files,      \* audit files
    PathOf,     \* the file of each trail; several trails may have the same
    Fragile     \* entries json.dumps or the key filter may choke on

ASSUME AuditAssumption == Fragile \subseteq Records /\ PathOf \in [Trails -> Files]

VARIABLES
    default,   \* the trail get_default_audit() returns
    trail,     \* the trail each entry was handed to
    ticket,    \* the turn in which it was handed over, 0: not yet
    tickets,   \* how many were handed over
    task,      \* where the task of each record() stands
    job,       \* where its _write_line stands on the executor
    locked,    \* each trail's lock
    bound,     \* the loop the lock is bound to: none, this one or a past one
    file,      \* the lines in each file
    looping    \* the event loop runs

vars == <<default, trail, ticket, tickets, task, job, locked, bound, file, looping>>

Pending == {"ready", "waiting", "woken", "writing"}
Tasks   == {"none", "done", "failed", "cancelled"} \cup Pending
Jobs    == {"none", "submitted", "running", "written", "oserror", "revoked"}

(* The tasks in the lock's queue; "woken" has been told but not resumed.   *)
Waiters(t) == {r \in Records : trail[r] = t /\ task[r] \in {"waiting", "woken"}}

IsFirst(r, S) == r \in S /\ \A x \in S \ {r} : ticket[r] < ticket[x]

-----------------------------------------------------------------------------
Init ==
    /\ default \in Trails
    /\ trail = [r \in Records |-> default]
    /\ ticket = [r \in Records |-> 0]
    /\ tickets = 0
    /\ task = [r \in Records |-> "none"]
    /\ job = [r \in Records |-> "none"]
    /\ locked = [t \in Trails |-> FALSE]
    /\ bound = [t \in Trails |-> "none"]
    /\ file = [f \in Files |-> <<>>]
    /\ looping = TRUE

(* Mutant: None is accepted.                                               *)
SetDefaultOrNone(t) ==
    /\ looping
    /\ default' \in {t, "None"}
    /\ UNCHANGED <<trail, ticket, tickets, task, job, locked, bound, file, looping>>

SetDefault(t) ==
    /\ looping
    /\ default' = t
    /\ UNCHANGED <<trail, ticket, tickets, task, job, locked, bound, file, looping>>

(* asyncio.ensure_future(get_default_audit().record(...))                  *)
HandOver(r) ==
    /\ looping /\ task[r] = "none"
    /\ trail' = [trail EXCEPT ![r] = default]
    /\ tickets' = tickets + 1
    /\ ticket' = [ticket EXCEPT ![r] = tickets + 1]
    /\ task' = [task EXCEPT ![r] = "ready"]
    /\ UNCHANGED <<default, job, locked, bound, file, looping>>

(* Mutant: a newcomer takes a lock that was promised to a waiter.          *)
FreeForAll(t) == ~locked[t]

(* Lock.acquire takes the lock without waiting when it is free and nobody  *)
(* is in front.                                                            *)
Free(t) == ~locked[t] /\ Waiters(t) = {}

(* record() up to its first await.  The loop starts tasks in turn.  A task *)
(* that must queue for the lock binds it to this loop, or raises           *)
(* RuntimeError when it is bound to a past one.  Nobody sees an exception. *)
Queues(t) == IF bound[t] = "past" THEN "failed" ELSE "waiting"

Start(r) ==
  \E wellFormed \in IF r \in Fragile THEN BOOLEAN ELSE {TRUE} :
    LET t == trail[r]
        free == Free(t)
    IN
    /\ IsFirst(r, {x \in Records : task[x] = "ready"})
    /\ task' = [task EXCEPT ![r] = IF ~wellFormed THEN "failed"
                                   ELSE IF free THEN "writing" ELSE Queues(t)]
    /\ locked' = [locked EXCEPT ![t] = @ \/ (wellFormed /\ free)]
    /\ job' = [job EXCEPT ![r] = IF wellFormed /\ free THEN "submitted" ELSE @]
    /\ bound' = [bound EXCEPT ![t] = IF wellFormed /\ ~free /\ @ = "none" THEN "this" ELSE @]
    /\ UNCHANGED <<default, trail, ticket, tickets, file, looping>>

(* A woken task takes the lock and submits its write.                      *)
Resume(r) ==
    /\ task[r] = "woken"
    /\ task' = [task EXCEPT ![r] = "writing"]
    /\ locked' = [locked EXCEPT ![trail[r]] = TRUE]
    /\ job' = [job EXCEPT ![r] = "submitted"]
    /\ UNCHANGED <<default, trail, ticket, tickets, bound, file, looping>>

(* Mutant: the lock goes back to free and no waiter is told.               *)
LeaveSilently(r, end) ==
    LET t == trail[r]
        free == task[r] = "writing" \/ ~locked[t]
    IN
    /\ locked' = [locked EXCEPT ![t] = ~free]
    /\ task' = [task EXCEPT ![r] = end]

(* Mutant: a task that leaves always frees the lock, also one that only    *)
(* waited for it.                                                          *)
LeaveFree(r, end) ==
    LET t == trail[r] IN
    /\ locked' = [locked EXCEPT ![t] = FALSE]
    /\ task' = [x \in Records |->
                  IF x = r THEN end
                  ELSE IF IsFirst(x, Waiters(t) \ {r}) THEN "woken" ELSE task[x]]

(* A task leaves the lock, as owner or from its queue: Lock.release, or    *)
(* the handler in Lock.acquire.  The first waiter is told when the lock is *)
(* free.                                                                   *)
Leave(r, end) ==
    LET t == trail[r]
        free == task[r] = "writing" \/ ~locked[t]
    IN
    /\ locked' = [locked EXCEPT ![t] = ~free]
    /\ task' = [x \in Records |->
                  IF x = r THEN end
                  ELSE IF free /\ IsFirst(x, Waiters(t) \ {r}) THEN "woken"
                  ELSE task[x]]

(* A thread of the executor takes the write ...                            *)
Pick(r) ==
    /\ job[r] = "submitted"
    /\ job' = [job EXCEPT ![r] = "running"]
    /\ UNCHANGED <<default, trail, ticket, tickets, task, locked, bound, file, looping>>

(* Mutant: the file is opened with mode "w".                               *)
Truncated(f, r) == <<r>>

Appended(f, r) == Append(file[f], r)

(* ... and appends the line, or fails with OSError.                        *)
Write(r) ==
    /\ job[r] = "running"
    /\ job' = [job EXCEPT ![r] = "written"]
    /\ LET f == PathOf[trail[r]] IN file' = [file EXCEPT ![f] = Appended(f, r)]
    /\ UNCHANGED <<default, trail, ticket, tickets, task, locked, bound, looping>>

WriteFails(r) ==
    /\ job[r] = "running"
    /\ job' = [job EXCEPT ![r] = "oserror"]
    /\ UNCHANGED <<default, trail, ticket, tickets, task, locked, bound, file, looping>>

(* The awaited write has ended, well or with an OSError that record()      *)
(* only prints.                                                            *)
Finish(r) ==
    /\ task[r] = "writing" /\ job[r] \in {"written", "oserror"}
    /\ Leave(r, "done")
    /\ UNCHANGED <<default, trail, ticket, tickets, job, bound, file, looping>>

(* A write that no thread has taken is withdrawn with its task; one that   *)
(* a thread has taken goes on by itself.                                   *)
Revoked(r) == IF job[r] = "submitted" THEN "revoked" ELSE job[r]

Cancel(r) ==
    /\ task[r] \in Pending
    /\ IF task[r] = "ready"
       THEN /\ task' = [task EXCEPT ![r] = "cancelled"]
            /\ UNCHANGED locked
       ELSE Leave(r, "cancelled")
    /\ job' = [job EXCEPT ![r] = Revoked(r)]
    /\ UNCHANGED <<default, trail, ticket, tickets, bound, file, looping>>

(* asyncio.run() returns: every task that is left is cancelled, threads    *)
(* finish what they have taken.                                            *)
Shutdown ==
    /\ looping
    /\ looping' = FALSE
    /\ task' = [r \in Records |-> IF task[r] \in Pending THEN "cancelled" ELSE task[r]]
    /\ job' = [r \in Records |-> Revoked(r)]
    /\ locked' = [t \in Trails |-> FALSE]
    /\ bound' = [t \in Trails |-> IF bound[t] = "this" THEN "past" ELSE bound[t]]
    /\ UNCHANGED <<default, trail, ticket, tickets, file>>

(* asyncio.run() again, once the executor of the first call is joined.     *)
Restart ==
    /\ ~looping
    /\ \A r \in Records : job[r] # "running"
    /\ looping' = TRUE
    /\ UNCHANGED <<default, trail, ticket, tickets, task, job, locked, bound, file>>

RecordStep(r) ==
    \/ HandOver(r) \/ Start(r) \/ Resume(r) \/ Pick(r) \/ Write(r) \/ WriteFails(r)
    \/ Finish(r) \/ Cancel(r)

Next ==
    \/ \E t \in Trails : SetDefault(t)
    \/ \E r \in Records : RecordStep(r)
    \/ Shutdown
    \/ Restart

Spec == Init /\ [][Next]_vars

(* The loop runs what is ready, and threads end what they are given.       *)
Fairness ==
    \A r \in Records : /\ WF_vars(Start(r)) /\ WF_vars(Resume(r)) /\ WF_vars(Finish(r))
                       /\ WF_vars(Pick(r)) /\ WF_vars(Write(r) \/ WriteFails(r))

FairSpec == Spec /\ Fairness

-----------------------------------------------------------------------------
(* Properties *)

TypeOK ==
    /\ default \in Trails
    /\ trail \in [Records -> Trails]
    /\ ticket \in [Records -> Nat]
    /\ tickets \in Nat
    /\ task \in [Records -> Tasks]
    /\ job \in [Records -> Jobs]
    /\ locked \in [Trails -> BOOLEAN]
    /\ bound \in [Trails -> {"none", "this", "past"}]
    /\ file \in [Files -> Seq(Records)]
    /\ looping \in BOOLEAN

(* A trail's lock is taken exactly while one task writes, and a free lock  *)
(* with a queue has told its first waiter, and only that one: no wake-up   *)
(* is lost and none is given twice.                                        *)
LockMatchesTasks ==
    \A t \in Trails :
        /\ locked[t] <=> \E r \in Records : trail[r] = t /\ task[r] = "writing"
        /\ \A r, x \in Records : trail[r] = t /\ task[r] = "writing"
                                 /\ trail[x] = t /\ task[x] = "writing" => r = x
        /\ \A r \in Waiters(t) : task[r] = "woken" <=> ~locked[t] /\ IsFirst(r, Waiters(t))

(* Two threads write for the same trail only when the task of one of them  *)
(* was cancelled: its write goes on although the lock is free again.  (Two *)
(* trails on one path have two locks, and nothing keeps them apart.)       *)
OverlapOnlyAfterCancel ==
    \A r, x \in Records :
        r # x /\ trail[r] = trail[x] /\ job[r] = "running" /\ job[x] = "running"
            => "cancelled" \in {task[r], task[x]}

(* The lines one trail wrote for entries whose tasks were not cancelled    *)
(* stand in its file in the order the entries were handed over, whatever   *)
(* other trails write to the same file.                                    *)
InHandOverOrder ==
    \A f \in Files : \A m, n \in DOMAIN file[f] :
        LET r == file[f][m]
            x == file[f][n]
        IN  m < n /\ trail[r] = trail[x] /\ "cancelled" \notin {task[r], task[x]}
                => ticket[r] < ticket[x]

(* No line was written for the entry, and none will be.                    *)
Lost(r) ==
    \/ job[r] \in {"oserror", "revoked"}
    \/ task[r] \in {"failed", "cancelled"} /\ job[r] = "none"

(* A handed over entry is settled: as a line or as a loss.                 *)
EventuallySettled ==
    \A r \in Records :
        task[r] = "ready" ~> job[r] = "written" \/ Lost(r)

(* The trails implement the abstract log.                                  *)
Fate(r) ==
    IF task[r] = "none" THEN "none"
    ELSE IF job[r] = "written" THEN "kept"
    ELSE IF Lost(r) THEN "lost" ELSE "open"

Log == INSTANCE AuditLog WITH fate <- [r \in Records |-> Fate(r)], lines <- file

ImplementsLog == Log!Spec

-----------------------------------------------------------------------------
(* audit.py:69: record() "never raises".                                   *)
NeverRaises == \A r \in Records : task[r] # "failed"
=============================================================================
