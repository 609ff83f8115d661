---------------------------- MODULE AgentBinding ----------------------------
(***************************************************************************)
(* How registries reach the hook points that run them: the store           *)
(* (store/memory.py), agents (agent/base.py) and hook points of their own  *)
(* (core/hookpoint.py).                                                    *)
(*                                                                         *)
(* All of them keep Python lists of registries, handed from one to the     *)
(* other, some copied and some shared.  So a list is an object here: an    *)
(* owner's variable refers to a cell, and two owners may refer to one.     *)
(***************************************************************************)
EXTENDS HookRegistry

CONSTANTS
    Agents,
    AgentIds,   \* keys of the store
    Contexts,   \* contexts run() is called with
    MaxList     \* bound: registries in one list

ASSUME BindingAssumption == Contexts \subseteq CtxType /\ MaxList \in Nat

(* The variables that refer to a list: one of the application, a hook      *)
(* point made with hookpoint(), and, for each agent, its _registries and   *)
(* the _registries of its bound hook point.                                *)
AppList   == <<"list", "app">>
Hookpoint == <<"hookpoint", "app">>

AgentList(a) == <<"agent", a>>
Bound(a)     == <<"bound", a>>

Owners == {AppList, Hookpoint} \cup {AgentList(a) : a \in Agents} \cup {Bound(a) : a \in Agents}

VARIABLES
    cell,       \* the list object each owner refers to
    heap,       \* what is in each list object
    store,      \* the registries of InMemoryStore, by agent id
    agents,     \* the agents that exist
    given,      \* history: the registries each agent was given
    direct      \* history: those added to its hook point since it was bound

bindingVars == <<cell, heap, store, agents, given, direct>>

vars == <<registryVars, bindingVars>>

ListAt(o) == heap[cell[o]]

-----------------------------------------------------------------------------
Init ==
    /\ RegistryInit
    /\ cell = [o \in Owners |-> o]
    /\ heap = [o \in Owners |-> <<>>]
    /\ store = [i \in AgentIds |-> <<>>]
    /\ agents = {}
    /\ given = [a \in Agents |-> <<>>]
    /\ direct = [a \in Agents |-> <<>>]

Declare(r, d) == Implement(r, d) /\ UNCHANGED bindingVars

(* list.append on what an owner refers to.                                 *)
Put(h, o, r) == [h EXCEPT ![cell[o]] = Append(@, r)]

HasRoom(o) == Len(ListAt(o)) < MaxList

(* Mutants: an agent, or its hook point, keeps the very list it is given.  *)
AgentSharesList(a, from) ==
    IF from = "list" THEN [cell EXCEPT ![AgentList(a)] = cell[AppList]] ELSE cell
BoundSharesList(a) == [cell EXCEPT ![Bound(a)] = cell[AgentList(a)]]

AgentCopies(a, from) == [cell EXCEPT ![AgentList(a)] = AgentList(a)]
BoundCopies(a)       == [cell EXCEPT ![Bound(a)] = Bound(a)]

(* Mutant: no list for an id the store does not know.                      *)
SourceOrNone(from) == IF from = "list" THEN ListAt(AppList)
                      ELSE IF from \in AgentIds /\ store[from] # <<>> THEN store[from]
                      ELSE None

(* HookAgent(registries=...): with the application's list, with what the   *)
(* store returns for an id, or with nothing.                               *)
Source(from) == IF from = "list" THEN ListAt(AppList)
                ELSE IF from \in AgentIds THEN store[from] ELSE <<>>

NewAgent(a, from) ==
    /\ a \notin agents
    /\ agents' = agents \cup {a}
    /\ cell' = [AgentCopies(a, from) EXCEPT ![Bound(a)] = BoundCopies(a)[Bound(a)]]
    /\ heap' = [heap EXCEPT ![AgentList(a)] = Source(from), ![Bound(a)] = Source(from)]
    /\ given' = [given EXCEPT ![a] = Source(from)]
    /\ direct' = [direct EXCEPT ![a] = <<>>]
    /\ UNCHANGED <<registryVars, store>>

(* HookAgent.add_registry makes a new bound hook point: what was added to  *)
(* the last one directly is gone.                                          *)
AddRegistry(a, r) ==
    /\ a \in agents /\ HasRoom(AgentList(a))
    /\ cell' = BoundCopies(a)
    /\ heap' = [Put(heap, AgentList(a), r) EXCEPT ![Bound(a)] = Append(ListAt(AgentList(a)), r)]
    /\ given' = [given EXCEPT ![a] = Append(@, r)]
    /\ direct' = [direct EXCEPT ![a] = <<>>]
    /\ UNCHANGED <<registryVars, store, agents>>

(* agent.hp.add_registry(r).                                               *)
AddToBound(a, r) ==
    /\ a \in agents /\ HasRoom(Bound(a))
    /\ heap' = Put(heap, Bound(a), r)
    /\ direct' = [direct EXCEPT ![a] = Append(@, r)]
    /\ UNCHANGED <<registryVars, cell, store, agents, given>>

(* hookpoint(registries=list): `registries or []` shares a list that has   *)
(* an element and replaces an empty one by a new list.                     *)
NewHookpoint ==
    /\ cell' = [cell EXCEPT ![Hookpoint] =
                   IF ListAt(AppList) # <<>> THEN cell[AppList] ELSE Hookpoint]
    /\ heap' = [heap EXCEPT ![Hookpoint] = <<>>]
    /\ UNCHANGED <<registryVars, store, agents, given, direct>>

(* HookPointDescriptor.add_registry on it, and the application's append.   *)
AppendTo(o, r) ==
    /\ o \in {Hookpoint, AppList} /\ HasRoom(o)
    /\ heap' = Put(heap, o, r)
    /\ UNCHANGED <<registryVars, cell, store, agents, given, direct>>

StoreAdd(i, r) ==
    /\ Len(store[i]) < MaxList
    /\ store' = [store EXCEPT ![i] = Append(@, r)]
    /\ UNCHANGED <<registryVars, cell, heap, agents, given, direct>>

(* clear(id); without an id (or with "") it empties the store.             *)
StoreClear(ids) ==
    /\ (ids = AgentIds \/ \E i \in AgentIds : ids = {i})
    /\ store' = [i \in AgentIds |-> IF i \in ids THEN <<>> ELSE store[i]]
    /\ UNCHANGED <<registryVars, cell, heap, agents, given, direct>>

Next ==
    \/ \E r \in Registries, d \in Decls : Declare(r, d)
    \/ \E a \in Agents, from \in {"list", "none"} \cup AgentIds : NewAgent(a, from)
    \/ \E a \in Agents, r \in Registries : AddRegistry(a, r) \/ AddToBound(a, r)
    \/ NewHookpoint
    \/ \E o \in {Hookpoint, AppList}, r \in Registries : AppendTo(o, r)
    \/ \E i \in AgentIds, r \in Registries : StoreAdd(i, r)
    \/ \E ids \in SUBSET AgentIds : StoreClear(ids)

Spec == Init /\ [][Next]_vars
-----------------------------------------------------------------------------
(* The snapshot a run takes *)

(* One after the other, the registries' ordered implementations: each as   *)
(* the place of its registry in the list and its own in the registry.      *)
Collected(o, c) ==
    FlattenSeq([g \in DOMAIN ListAt(o) |->
                   LET found == GetImpls(ListAt(o)[g], c)
                   IN  [n \in DOMAIN found |-> <<g, found[n]>>]])

DeclOf(o, p) == impls[ListAt(o)[p[1]]][p[2]]

(* HookPointDescriptor._get_impls.                                         *)
Resolve(o, c) ==
    LET all == Collected(o, c)
    IN  Sorted(all, [n \in DOMAIN all |-> DeclOf(o, all[n]).order])

-----------------------------------------------------------------------------
(* Properties *)

TypeOK ==
    /\ RegistryTypeOK
    /\ cell \in [Owners -> Owners]
    /\ heap \in [Owners -> Seq(Registries)]
    /\ store \in [AgentIds -> Seq(Registries)]
    /\ agents \in SUBSET Agents
    /\ given \in [Agents -> Seq(Registries)]
    /\ direct \in [Agents -> Seq(Registries)]

(* An agent's hook point runs the registries the agent was given, in that  *)
(* order, and those added to it since it was last bound: what becomes of   *)
(* the store, of the application's list, of another agent or of another    *)
(* hook point changes nothing in it.                                       *)
PointsRunWhatWasGiven ==
    \A a \in agents : ListAt(Bound(a)) = given[a] \o direct[a]

(* Two sorts, in the registry and across them, come to one ranking: by     *)
(* order, then by the registry's place, then by the time of registration;  *)
(* every matching implementation is in it once per time its registry is.   *)
RanksBefore(o, p, q) ==
    LET x == DeclOf(o, p).order  y == DeclOf(o, q).order IN
    \/ x < y
    \/ x = y /\ p[1] < q[1]
    \/ x = y /\ p[1] = q[1] /\ p[2] < q[2]

ResolvedIsRanked ==
    \A o \in Owners, c \in Contexts :
        LET s == Resolve(o, c)
            matching == UNION {{<<g, n>> : n \in {m \in DOMAIN impls[ListAt(o)[g]] :
                                                     Matches(impls[ListAt(o)[g]][m], c)}} :
                               g \in DOMAIN ListAt(o)}
        IN  /\ {s[n] : n \in DOMAIN s} = matching
            /\ \A m, n \in DOMAIN s : m < n => RanksBefore(o, s[m], s[n])
=============================================================================
