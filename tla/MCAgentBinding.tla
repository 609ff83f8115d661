--------------------------- MODULE MCAgentBinding ---------------------------
(* Small instances of AgentBinding.                                        *)
EXTENDS AgentBinding, TLC

CONSTANTS r1, r2

V(major, minor)   == [major |-> major, minor |-> minor]
C(op, version)    == [op |-> op, version |-> version]

Decl(mode, order, filter, required, version) ==
    [mode |-> mode, order |-> order, filter |-> filter,
     required |-> required, version |-> version]

(* One in front, for tenant A with the flag on; one that wants to be       *)
(* alone; versions inside, under and above ">=1.2,<2.0", a malformed one,  *)
(* and a clause that does not parse.                                       *)
OneToTwo == <<C(">=", V(1, 2)), C("<", V(2, 0))>>

MCDecls ==
    { Decl("multi", 1, {<<"tenant", "A">>, <<"flag", "on">>}, None, None),
      Decl("single", 1, {<<"tool_name", "t">>}, None, None),
      Decl("multi", 2, {}, OneToTwo, V(1, 10)) }
    \cup { Decl("multi", 2, {}, OneToTwo, v) :
              v \in {V(1, 1), V(0, 9), V(2, 0), Malformed, None} }
    \cup { Decl("multi", 2, {}, <<C(op, V(1, 1)), Malformed>>, V(1, 1)) :
              op \in {"", "==", "<=", ">"} }

Context(tenant, flag) ==
    [tenant |-> tenant, tool |-> "t", meta |-> [k \in MetaKeys |-> flag]]

Symmetry == Permutations(Registries)

MCContexts == {Context("A", "on"), Context("A", None), Context(None, "on")}
=============================================================================
