----------------------------- MODULE HookPromise -----------------------------
(***************************************************************************)
(* What run() of a hook point promises the agent (core/hookpoint.py), said *)
(* without timers, cancellations in progress, metrics and audit: the       *)
(* matching implementations of that moment each have one turn, as if a     *)
(* turn took no time, and the request is answered once.                    *)
(*                                                                         *)
(* In a sequential request turns are taken in the order of the list, and   *)
(* each may change what is carried, end the request or raise.  In a        *)
(* parallel one they are taken in any order from the agent's own context,  *)
(* and what they report is laid over it in the order of the list.          *)
(***************************************************************************)
EXTENDS HookImpls

CONSTANTS Requests, Contexts

VARIABLES
    position,   \* place of each implementation in its registry, 0: not registered
    stage,      \* of each request: how it is served, or how it was answered
    left,       \* the implementations whose turn has not ended
    carried,    \* the context of the request so far
    reports     \* <<implementation, result>> of the turns that succeeded

promiseVars == <<position, stage, left, carried, reports>>

Ahead(i, j) == \/ Order[i] < Order[j]
               \/ Order[i] = Order[j] /\ position[i] < position[j]

Init ==
    /\ position = [i \in Impls |-> 0]
    /\ stage = [q \in Requests |-> "idle"]
    /\ left = [q \in Requests |-> {}]
    /\ carried = [q \in Requests |-> NoCtx]
    /\ reports = [q \in Requests |-> {}]

(* An implementation gets a place behind all others, at any time.          *)
Register(i) ==
    /\ position[i] = 0
    /\ \A j \in Impls : IF j = i THEN \A k \in Impls : position'[i] > position[k]
                        ELSE position'[j] = position[j]
    /\ UNCHANGED <<stage, left, carried, reports>>

Ask(q, c) ==
    LET found == {i \in Impls : position[i] # 0 /\ Matches(i, c)} IN
    /\ stage[q] = "idle"
    /\ stage' = [stage EXCEPT ![q] = IF found = {} THEN "delivered"
                                     ELSE IF RunsParallel(found) THEN "parallel"
                                     ELSE "sequential"]
    /\ left' = [left EXCEPT ![q] = found]
    /\ carried' = [carried EXCEPT ![q] = c]
    /\ UNCHANGED <<position, reports>>

EndTurn(q, i)   == i \in left[q] /\ left' = [left EXCEPT ![q] = @ \ {i}]
Becomes(q, s)   == stage' = [stage EXCEPT ![q] = s]
Reported(q, i, v) == reports' = [reports EXCEPT ![q] = @ \cup {<<i, v>>}]

-----------------------------------------------------------------------------
(* Sequential requests *)

HasTurn(q, i) ==
    /\ stage[q] = "sequential"
    /\ \A j \in left[q] \ {i} : Ahead(i, j)

(* Its result is carried on; with None nothing but the end can follow.     *)
Pass(q, i) ==
    /\ HasTurn(q, i) /\ EndTurn(q, i)
    /\ \E v \in Results(i, carried[q]) :
          /\ Reported(q, i, v)
          /\ carried' = [carried EXCEPT ![q] = v]
          /\ Becomes(q, IF left[q] = {i} THEN "delivered"
                        ELSE IF v = NoCtx THEN "raised" ELSE "sequential")
    /\ UNCHANGED position

(* It failed and has fallback: as if it were not there.                    *)
PassOver(q, i) ==
    /\ i \in Fallbacks
    /\ HasTurn(q, i) /\ EndTurn(q, i)
    /\ Becomes(q, IF left[q] = {i} THEN "delivered" ELSE "sequential")
    /\ UNCHANGED <<position, carried, reports>>

(* It skips the rest, or raises: those behind it have no turn.             *)
Stop(q, i) ==
    /\ HasTurn(q, i) /\ EndTurn(q, i)
    /\ \E s \in {"delivered", "raised"} : Becomes(q, s)
    /\ UNCHANGED <<position, carried, reports>>

(* The agent's task is cancelled, between two turns or during one.         *)
GiveUp(q) ==
    /\ stage[q] = "sequential"
    /\ Becomes(q, "cancelled")
    /\ \/ UNCHANGED left
       \/ \E i \in left[q] : HasTurn(q, i) /\ EndTurn(q, i)
    /\ UNCHANGED <<position, carried, reports>>

-----------------------------------------------------------------------------
(* Parallel requests *)

(* A turn ends, with a result or without one.                              *)
Report(q, i) ==
    /\ stage[q] \in {"parallel", "gathering"}
    /\ EndTurn(q, i)
    /\ \/ \E v \in Results(i, carried[q]) : Reported(q, i, v)
       \/ UNCHANGED reports
    /\ UNCHANGED <<position, stage, carried>>

(* The reports of S laid over one another: the last in the list counts.    *)
LastOf(S, r) == r \in S /\ \A other \in S \ {r} : Ahead(other[1], r[1])

LaidOver(q, v) ==
    LET writes(k) == {r \in reports[q] : r[2].meta[k] # Absent}
        lists     == {r \in reports[q] : r[2].redacted # {}}
    IN  /\ v.tool = carried[q].tool
        /\ \A k \in Keys :
              IF writes(k) = {} THEN v.meta[k] = carried[q].meta[k]
              ELSE \E r \in writes(k) : LastOf(writes(k), r) /\ v.meta[k] = r[2].meta[k]
        /\ IF lists = {} THEN v.redacted = carried[q].redacted
           ELSE \E r \in lists : LastOf(lists, r) /\ v.redacted = r[2].redacted

(* All turns have ended.                                                   *)
Answer(q) ==
    /\ stage[q] = "parallel" /\ left[q] = {}
    /\ IF \E r \in reports[q] : r[2] = NoCtx
       THEN Becomes(q, "raised") /\ UNCHANGED carried
       ELSE /\ Becomes(q, "delivered")
            /\ \E v \in Ctx : LaidOver(q, v) /\ carried' = [carried EXCEPT ![q] = v]
    /\ UNCHANGED <<position, left, reports>>

(* The agent's task is cancelled, perhaps again: some have no turn any     *)
(* more, the others are waited for, and there is no answer.                *)
Leave(q) ==
    /\ stage[q] \in {"parallel", "gathering"}
    /\ Becomes(q, "gathering")
    /\ \E S \in SUBSET left[q] : left' = [left EXCEPT ![q] = S]
    /\ UNCHANGED <<position, carried, reports>>

Gone(q) ==
    /\ stage[q] = "gathering" /\ left[q] = {}
    /\ Becomes(q, "cancelled")
    /\ UNCHANGED <<position, left, carried, reports>>

-----------------------------------------------------------------------------
Turn(q, i) ==
    \/ Pass(q, i)
    \/ PassOver(q, i)
    \/ Stop(q, i)
    \/ Report(q, i)

Next ==
    \/ \E i \in Impls : Register(i)
    \/ \E q \in Requests, c \in Contexts : Ask(q, c)
    \/ \E q \in Requests, i \in Impls : Turn(q, i)
    \/ \E q \in Requests : GiveUp(q) \/ Answer(q) \/ Leave(q) \/ Gone(q)

Spec == Init /\ [][Next]_promiseVars
=============================================================================
