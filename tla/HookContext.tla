----------------------------- MODULE HookContext -----------------------------
(***************************************************************************)
(* The context object that travels through a hook pipeline                 *)
(* (core/context.py), as far as the properties tell contexts apart: the    *)
(* tool_name field, the metadata dictionary and the list of redacted keys, *)
(* which the code keeps in the metadata under "__redacted__".  The sealed  *)
(* identity fields (session_id, tenant_id, ...) never change and are left  *)
(* out.                                                                    *)
(*                                                                         *)
(* Each operation returns a new context and leaves the old one as it was.  *)
(* The model takes it that hook bodies use these operations.  The code     *)
(* does not enforce that: the metadata is a plain dictionary, which a body *)
(* could also edit in place, for all who hold the context.                 *)
(***************************************************************************)
CONSTANTS
    Keys,       \* metadata keys
    Vals,       \* values a hook may store under a key
    Absent,     \* "the key is not in the dictionary"
    Hidden,     \* the text "[REDACTED]" that replaces a value in an audit entry
    Tools,      \* values of ctx.tool_name
    NoCtx       \* Python's None, where a context was expected

ASSUME ContextAssumption ==
    /\ Absent \notin Vals
    /\ Hidden \notin Vals \cup {Absent}

Meta == [Keys -> Vals \cup {Absent}]

Ctx == [tool : Tools, meta : Meta, redacted : SUBSET Keys]

ASSUME NoCtxAssumption == NoCtx \notin Ctx

(* Mutants: redacting forgets the keys redacted before; redacting          *)
(* overwrites the values in the context itself.                            *)
RedactOnly(c, R)    == IF R = {} THEN c ELSE [c EXCEPT !.redacted = R]
RedactInPlace(c, R) ==
    [c EXCEPT !.meta = [k \in Keys |-> IF k \in R THEN Hidden ELSE c.meta[k]]]

(* ctx.enrich for each key that e has, ctx.enrich of "__redacted__" by a   *)
(* list, ctx.replace("tool_name", t), ctx.replace("metadata", m), which    *)
(* drops the "__redacted__" entry, and ctx.redact of the keys in R.        *)
Enrich(c, e) ==
    [c EXCEPT !.meta = [k \in Keys |-> IF e[k] = Absent THEN c.meta[k] ELSE e[k]]]
Relist(c, L)      == [c EXCEPT !.redacted = L]
ReplaceTool(c, t) == [c EXCEPT !.tool = t]
ReplaceMeta(c, m) == [c EXCEPT !.meta = m, !.redacted = {}]
Redact(c, R)      == [c EXCEPT !.redacted = @ \cup R]

(* What AuditTrail.record shows of the metadata: a redacted key that is    *)
(* present appears with its value hidden, an absent key does not appear.   *)
SafeMeta(c) ==
    [k \in Keys |-> IF k \in c.redacted /\ c.meta[k] # Absent
                    THEN Hidden ELSE c.meta[k]]
=============================================================================
