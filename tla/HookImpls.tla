------------------------------ MODULE HookImpls ------------------------------
(***************************************************************************)
(* The implementations that may be registered on one hook point, and what  *)
(* their bodies may do to a context (core/registry.py, core/context.py).   *)
(***************************************************************************)
EXTENDS HookContext, Instruments

CONSTANTS
    Order,           \* ImplRegistration.order of each implementation
    FilterTools,     \* the tool_name values each one's filter accepts
    Fallbacks,       \* implementations registered with fallback=True
    ParallelImpls,   \* implementations registered with parallel=True
    HookpointParallel, \* hookpoint(..., parallel=True)
    Enriches,        \* what each body may write: a set of <<key, value>>
    Redacts,         \* the keys each body may redact
    Retools,         \* the tool_name values each body may set
    Rewrites,        \* what each body may replace the whole metadata by
    Relists,         \* the lists each body may store under "__redacted__" itself
    Forgetful,       \* bodies that may return None instead of a context
    Stubborn         \* bodies that may swallow CancelledError and keep running

ASSUME ImplsAssumption ==
    /\ Order \in [Impls -> Nat]
    /\ FilterTools \in [Impls -> SUBSET Tools]
    /\ HookpointParallel \in BOOLEAN
    /\ Enriches \in [Impls -> SUBSET (Keys \X Vals)]
    /\ Redacts \in [Impls -> SUBSET Keys]
    /\ Retools \in [Impls -> SUBSET Tools]
    /\ Rewrites \in [Impls -> SUBSET Meta]
    \* A context with an empty list counts as one without a list.
    /\ Relists \in [Impls -> SUBSET ((SUBSET Keys) \ {{}})]

(* Its filter accepts the context.                                         *)
Matches(i, c) == c.tool \in FilterTools[i]

(* One parallel implementation makes the whole snapshot parallel.          *)
RunsParallel(s) == HookpointParallel \/ s \cap ParallelImpls # {}

(* What several calls of enrich by the body of i may write.                *)
Writes(i) == {e \in Meta : \A k \in Keys : e[k] = Absent \/ <<k, e[k]>> \in Enriches[i]}

(* What the body of i may return for the context c, by any number of edits *)
(* in any order: of those that touch the metadata, only what comes after   *)
(* the last replacement counts, and of those that touch the list of        *)
(* redacted keys, what comes after the last list stored under it.          *)
Results(i, c) ==
    LET replaced == {c} \cup {ReplaceMeta(c, m) : m \in Rewrites[i]}
        relisted == replaced \cup {Relist(s, L) : s \in replaced, L \in Relists[i]}
        retooled == relisted \cup {ReplaceTool(s, t) : s \in relisted, t \in Retools[i]}
    IN {Redact(Enrich(s, e), R) : s \in retooled, e \in Writes(i), R \in SUBSET Redacts[i]}
       \cup (IF i \in Forgetful THEN {NoCtx} ELSE {})

(* v may be what the body of i returned after it had replaced the metadata *)
(* or the list of redacted keys.                                           *)
MayHaveReplaced(i, v) ==
    \/ \E m \in Rewrites[i] : \A k \in Keys :
          v.meta[k] = m[k] \/ <<k, v.meta[k]>> \in Enriches[i]
    \/ \E L \in Relists[i] : L \subseteq v.redacted
=============================================================================
