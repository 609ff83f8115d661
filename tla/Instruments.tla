----------------------------- MODULE Instruments -----------------------------
(***************************************************************************)
(* The metrics of hook runs (observability.py), for one hook point: the    *)
(* in-process meter that is used when OpenTelemetry is not installed.      *)
(* Durations are left out; a histogram is the number of its observations.  *)
(***************************************************************************)
EXTENDS Naturals, FiniteSets

CONSTANT Impls      \* implementations that may be registered

Statuses == {"ok", "timeout", "error", "blocked", "skip"}

(* A counter keeps a number per attribute set: executions by hook.impl and *)
(* hook.status, errors and blocked by hook.impl, timeouts by hook.name     *)
(* alone.  The histogram ignores its attributes.                           *)
Meter == [executions : [Impls -> [Statuses -> Nat]], observations : Nat,
          errors : [Impls -> Nat], timeouts : Nat, blocked : [Impls -> Nat]]

Fresh == [executions |-> [i \in Impls |-> [s \in Statuses |-> 0]], observations |-> 0,
          errors |-> [i \in Impls |-> 0], timeouts |-> 0, blocked |-> [i \in Impls |-> 0]]

Added(counter, i) == [counter EXCEPT ![i] = @ + 1]

(* Mutant: a timeout is an error, too.                                     *)
RecordedTimeoutAsError(m, i, s) ==
    [executions   |-> [m.executions EXCEPT ![i] = Added(@, s)],
     observations |-> m.observations + 1,
     errors       |-> IF s \in {"error", "timeout"} THEN Added(m.errors, i) ELSE m.errors,
     timeouts     |-> IF s = "timeout" THEN m.timeouts + 1 ELSE m.timeouts,
     blocked      |-> IF s = "blocked" THEN Added(m.blocked, i) ELSE m.blocked]

(* _Instruments.record: i ended with status s.                             *)
Recorded(m, i, s) ==
    [executions   |-> [m.executions EXCEPT ![i] = Added(@, s)],
     observations |-> m.observations + 1,
     errors       |-> IF s = "error" THEN Added(m.errors, i) ELSE m.errors,
     timeouts     |-> IF s = "timeout" THEN m.timeouts + 1 ELSE m.timeouts,
     blocked      |-> IF s = "blocked" THEN Added(m.blocked, i) ELSE m.blocked]

(* The place of p95 in the n sorted observations, counted from 0.          *)
P95Index(n) == IF (19 * n) \div 20 > 1 THEN (19 * n) \div 20 - 1 ELSE 0
=============================================================================
