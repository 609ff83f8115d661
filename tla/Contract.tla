------------------------------ MODULE Contract ------------------------------
(***************************************************************************)
(* Contract versions (core/contract.py): whether the version an            *)
(* implementation declares satisfies the clauses a hook point asks for,    *)
(* such as ">=1.0,<2.0".                                                   *)
(***************************************************************************)
EXTENDS Naturals, Sequences

CONSTANTS
    None,       \* Python's None
    Malformed   \* a version or a clause that does not parse

Version == [major : Nat, minor : Nat]
Clause  == [op : {">=", "<=", ">", "<", "==", ""}, version : Version]

(* What may be asked for, and what may be declared.                        *)
Requirements == Seq(Clause \cup {Malformed}) \cup {None}
Declared     == Version \cup {None, Malformed}

Below(v, w) ==
    \/ v.major < w.major
    \/ v.major = w.major /\ v.minor < w.minor

(* A clause without an operator asks for equality.                         *)
Holds(op, v, w) ==
    \/ op \in {">=", "<=", "==", ""} /\ v = w
    \/ op \in {">=", ">"} /\ Below(w, v)
    \/ op \in {"<=", "<"} /\ Below(v, w)

Stops(c, got) == IF c = Malformed THEN TRUE ELSE ~Holds(c.op, got, c.version)

(* Mutant: the last clause that speaks decides.                            *)
LastStop(required, got) ==
    {n \in DOMAIN required : n = Len(required) /\ Stops(required[n], got)}

(* The clause at which the loop ends: those after it are never parsed.     *)
FirstStop(required, got) ==
    {n \in DOMAIN required : /\ Stops(required[n], got)
                             /\ \A m \in 1..(n - 1) : ~Stops(required[m], got)}

(* check_compatibility: True, False, or a ValueError.                      *)
Verdict(required, got) ==
    IF required = None THEN "ok"
    ELSE IF got = None THEN "mismatch"
    ELSE IF got = Malformed THEN "malformed"
    ELSE IF FirstStop(required, got) = {} THEN "ok"
    ELSE IF \E n \in FirstStop(required, got) : required[n] = Malformed THEN "malformed"
    ELSE "mismatch"
=============================================================================
