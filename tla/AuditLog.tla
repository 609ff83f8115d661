------------------------------ MODULE AuditLog ------------------------------
(***************************************************************************)
(* What the audit trail promises of the entries handed to it: each one is  *)
(* settled once, as a line at the end of its file or as a loss, and lines  *)
(* are never changed, moved or removed.                                    *)
(***************************************************************************)
EXTENDS Naturals, Sequences

CONSTANTS Records, Files

VARIABLES
    fate,   \* of each entry: not handed over, open, kept or lost
    lines   \* the lines of each file

logVars == <<fate, lines>>

Init ==
    /\ fate = [r \in Records |-> "none"]
    /\ lines = [f \in Files |-> <<>>]

HandOver(r) ==
    /\ fate[r] = "none"
    /\ fate' = [fate EXCEPT ![r] = "open"]
    /\ UNCHANGED lines

Keep(r, f) ==
    /\ fate[r] = "open"
    /\ fate' = [fate EXCEPT ![r] = "kept"]
    /\ lines' = [lines EXCEPT ![f] = Append(@, r)]

(* Any number of entries at once: a shutdown loses all that are open.      *)
Lose(S) ==
    /\ \A r \in S : fate[r] = "open"
    /\ fate' = [r \in Records |-> IF r \in S THEN "lost" ELSE fate[r]]
    /\ UNCHANGED lines

Next ==
    \/ \E r \in Records : HandOver(r)
    \/ \E r \in Records, f \in Files : Keep(r, f)
    \/ \E S \in SUBSET Records : Lose(S)

Spec == Init /\ [][Next]_logVars
=============================================================================
