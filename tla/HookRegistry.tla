---------------------------- MODULE HookRegistry ----------------------------
(***************************************************************************)
(* Registries of implementations (core/registry.py), for one hook point:   *)
(* what a registry keeps for another hook point's name is independent.     *)
(***************************************************************************)
EXTENDS Contract, SequencesExt

CONSTANTS
    Registries,
    Decls,      \* the implement(...) declarations of the program, see DeclType
    MetaKeys,   \* metadata keys a filter may name
    MetaVals,   \* values of context fields and metadata
    MaxImpls    \* bound: implementations in one registry

Modes == {"single", "multi"}

FilterKeys == {"tenant", "tool_name"} \cup MetaKeys

(* A declaration; required is its hookpoint_contract.                      *)
DeclType == [mode : Modes, order : Nat, filter : SUBSET (FilterKeys \X MetaVals),
             required : Requirements, version : Declared]

(* The context fields a filter sees; metadata.get is None for a key the    *)
(* dictionary lacks.                                                       *)
CtxType == [tenant : MetaVals \cup {None}, tool : MetaVals \cup {None},
            meta : [MetaKeys -> MetaVals \cup {None}]]

ASSUME RegistryAssumption ==
    /\ Decls \subseteq DeclType
    /\ MaxImpls \in Nat
    /\ MetaKeys \cap {"tenant", "tool_name"} = {}

VARIABLES
    impls,      \* _impls of each registry
    modes       \* _modes of each registry

registryVars == <<impls, modes>>

-----------------------------------------------------------------------------
RegistryInit ==
    /\ impls = [r \in Registries |-> <<>>]
    /\ modes = [r \in Registries |-> "none"]

(* Mutant: only the new declaration's mode is looked at.                   *)
ConflictsByMode(r, d) == impls[r] # <<>> /\ d.mode = "single"

Conflicts(r, d) == impls[r] # <<>> /\ (modes[r] = "single" \/ d.mode = "single")

(* implement()'s decorator: HookContractError, ValueError and HookConflict *)
(* leave the registry as it was.                                           *)
Implement(r, d) ==
    /\ Len(impls[r]) < MaxImpls
    /\ Verdict(d.required, d.version) = "ok"
    /\ ~Conflicts(r, d)
    /\ modes' = [modes EXCEPT ![r] = d.mode]
    /\ impls' = [impls EXCEPT ![r] = Append(@, d)]

-----------------------------------------------------------------------------
(* Looking up *)

Actual(c, key) ==
    IF key = "tenant" THEN c.tenant
    ELSE IF key = "tool_name" THEN c.tool
    ELSE c.meta[key]

Matches(d, c) == \A w \in d.filter : Actual(c, w[1]) = w[2]

(* sorted(s, key=order): element m goes to the place that counts how many  *)
(* are not behind it.  The sort is stable.                                 *)
Rank(order, m) ==
    Cardinality({l \in DOMAIN order : \/ order[l] < order[m]
                                      \/ order[l] = order[m] /\ l <= m})

(* Mutant: elements of equal order in reverse.                             *)
UnstableSorted(s, order) ==
    [n \in DOMAIN s |-> s[CHOOSE m \in DOMAIN s :
        n = Cardinality({l \in DOMAIN s : \/ order[l] < order[m]
                                          \/ order[l] = order[m] /\ l >= m})]]

Sorted(s, order) == [n \in DOMAIN s |-> s[CHOOSE m \in DOMAIN s : Rank(order, m) = n]]

(* get_impls: the places of the matching implementations, ordered.         *)
GetImpls(r, c) ==
    LET matched == FlattenSeq([n \in DOMAIN impls[r] |->
                                  IF Matches(impls[r][n], c) THEN <<n>> ELSE <<>>])
    IN  Sorted(matched, [n \in DOMAIN matched |-> impls[r][matched[n]].order])

-----------------------------------------------------------------------------
RegistryTypeOK ==
    /\ impls \in [Registries -> Seq(Decls)]
    /\ modes \in [Registries -> Modes \cup {"none"}]

(* Whatever was declared before or after it, an implementation with mode   *)
(* "single" has its hook point of the registry to itself.                  *)
SingleIsAlone ==
    \A r \in Registries : \A n \in DOMAIN impls[r] :
        impls[r][n].mode = "single" => Len(impls[r]) = 1

(* Versions compare as numbers, major before minor: in a base that is      *)
(* above either minor part.                                                *)
Number(v, base) == base * v.major + v.minor

Satisfies(v, c) ==
    LET base  == v.minor + c.version.minor + 1
        got   == Number(v, base)
        asked == Number(c.version, base)
    IN  CASE c.op = ">=" -> got >= asked
          [] c.op = "<=" -> got <= asked
          [] c.op = ">"  -> got > asked
          [] c.op = "<"  -> got < asked
          [] OTHER       -> got = asked

Fits(d) ==
    d.required # None =>
        /\ d.version \notin {None, Malformed}
        /\ \A m \in DOMAIN d.required :
              d.required[m] # Malformed /\ Satisfies(d.version, d.required[m])

(* A registered implementation satisfies every clause its hook point asks  *)
(* for: none was dropped because an earlier one decided, and a version or  *)
(* clause that does not parse never passes.                                *)
OnlyCompatible ==
    \A r \in Registries : \A n \in DOMAIN impls[r] : Fits(impls[r][n])
=============================================================================
