------------------------- MODULE AgentBindingProofs -------------------------
(***************************************************************************)
(* What every agent, registry and store keeps: the types, modes, versions, *)
(* and the lists the hook points run.                                      *)
(***************************************************************************)
EXTENDS AgentBinding, WellFoundedInduction, TLAPS

(***************************************************************************)
(* Nobody but an agent refers to its lists.  The hook point that was made  *)
(* with hookpoint() may refer to the application's.                        *)
(***************************************************************************)
Unshared ==
    /\ cell[AppList] = AppList
    /\ cell[Hookpoint] \in {AppList, Hookpoint}
    /\ \A a \in Agents : cell[AgentList(a)] = AgentList(a) /\ cell[Bound(a)] = Bound(a)

Lists ==
    \A a \in agents : heap[AgentList(a)] = given[a] /\ heap[Bound(a)] = given[a] \o direct[a]

(* A single implementation is alone in its registry, and the registry's    *)
(* mode says so.                                                           *)
ModesTell ==
    \A r \in Registries : \A n \in DOMAIN impls[r] :
        impls[r][n].mode = "single" => Len(impls[r]) = 1 /\ modes[r] = "single"

BindingInv == TypeOK /\ Unshared /\ Lists /\ ModesTell /\ OnlyCompatible

-----------------------------------------------------------------------------
(* Induction over the places of a sequence is by the least counterexample: *)
(* a set of numbers that is not empty has a least element.                 *)
Smaller == {p \in Nat \X Nat : p[1] < p[2]}

LEMMA LeastNumber ==
    \A T \in SUBSET Nat : T # {} => \E n \in T : \A m \in T : n <= m
<1> SUFFICES ASSUME NEW T \in SUBSET Nat, T # {}
             PROVE  \E n \in T : \A m \in T : n <= m
  OBVIOUS
<1>1. IsWellFoundedOn(Smaller, Nat)
  BY NatLessThanWellFounded DEF OpToRel, Smaller
<1>2. PICK n \in T : \A m \in T : <<m, n>> \notin Smaller
  BY <1>1, WFMin
<1>3. ASSUME NEW m \in T PROVE ~(m < n)
  <2>1. <<m, n>> \in Nat \X Nat /\ <<m, n>> \notin Smaller
    BY <1>2
  <2> QED
    BY <2>1 DEF Smaller
<1> QED
  BY <1>3

-----------------------------------------------------------------------------
(* The numbers of two versions compare as the versions do.                 *)
LEMMA NumberOrder ==
    ASSUME NEW v \in Version, NEW w \in Version, NEW base \in Nat,
           v.minor < base, w.minor < base, Below(v, w)
    PROVE  Number(v, base) < Number(w, base)
<1>1. v.major \in Nat /\ w.major \in Nat /\ v.minor \in Nat /\ w.minor \in Nat
  BY DEF Version
<1>2. CASE v.major < w.major
  <2>1. PICK k \in Nat : w.major = v.major + 1 + k
    <3>1. w.major - v.major - 1 \in Nat
      BY <1>1, <1>2
    <3> QED
      BY <1>1, <3>1
  <2>2. base * w.major = base * v.major + base + base * k
    BY <1>1, <2>1
  <2>3. base * k \in Nat /\ base * v.major \in Nat
    BY <1>1
  <2> QED
    BY <1>1, <2>2, <2>3 DEF Number
<1>3. CASE v.major = w.major /\ v.minor < w.minor
  <2>1. base * v.major \in Nat
    BY <1>1
  <2> QED
    BY <1>1, <1>3, <2>1 DEF Number
<1> QED
  BY <1>2, <1>3 DEF Below

(* What the loop lets pass for one clause satisfies it as a number.        *)
LEMMA HoldsSatisfies ==
    ASSUME NEW v \in Version, NEW c \in Clause, Holds(c.op, v, c.version)
    PROVE  Satisfies(v, c)
<1> DEFINE w == c.version
           base == v.minor + w.minor + 1
<1>1. w \in Version /\ c.op \in {">=", "<=", ">", "<", "==", ""}
  BY DEF Clause
<1>2. v.minor \in Nat /\ w.minor \in Nat /\ v.major \in Nat /\ w.major \in Nat
  BY <1>1 DEF Version
<1>3. base \in Nat /\ v.minor < base /\ w.minor < base
  BY <1>2
<1>4. Number(v, base) \in Nat /\ Number(w, base) \in Nat
  <2>1. base * v.major \in Nat /\ base * w.major \in Nat
    BY <1>2, <1>3
  <2> QED
    BY <1>2, <2>1 DEF Number
<1>5. Below(v, w) => Number(v, base) < Number(w, base)
  BY <1>1, <1>3, NumberOrder
<1>6. Below(w, v) => Number(w, base) < Number(v, base)
  BY <1>1, <1>3, NumberOrder
<1> DEFINE x == Number(v, base)
           y == Number(w, base)
<1>7. v = w => x = y
  OBVIOUS
<1> HIDE DEF x, y
<1>8. /\ c.op = ">=" => x >= y
      /\ c.op = "<=" => x <= y
      /\ c.op = ">" => x > y
      /\ c.op = "<" => x < y
      /\ c.op \in {"==", ""} => x = y
  <2>1. \/ c.op \in {">=", "<=", "==", ""} /\ x = y
        \/ c.op \in {">=", ">"} /\ y < x
        \/ c.op \in {"<=", "<"} /\ x < y
    BY <1>5, <1>6, <1>7 DEF Holds, x, y
  <2>2. /\ x = y => x >= y /\ x <= y
        /\ y < x => x > y /\ x >= y
        /\ x < y => x <= y
    BY <1>4 DEF x, y
  <2> QED
    BY <2>1, <2>2, Zenon
<1> QED
  BY <1>1, <1>8 DEF Satisfies, x, y

(* No clause stops the loop: were there one, there would be a first one.   *)
LEMMA NoneStops ==
    ASSUME NEW required \in Seq(Clause \cup {Malformed}), NEW got \in Declared,
           FirstStop(required, got) = {}
    PROVE  \A m \in DOMAIN required : ~Stops(required[m], got)
<1> DEFINE T == {m \in DOMAIN required : Stops(required[m], got)}
<1> SUFFICES ASSUME T # {} PROVE FALSE
  OBVIOUS
<1>1. T \in SUBSET Nat /\ DOMAIN required = 1..Len(required) /\ Len(required) \in Nat
  OBVIOUS
<1>2. PICK n \in T : \A m \in T : n <= m
  BY <1>1, LeastNumber
<1>3. ASSUME NEW m \in 1..(n - 1) PROVE ~Stops(required[m], got)
  <2>1. m \in DOMAIN required /\ ~(n <= m)
    BY <1>1
  <2> QED
    BY <1>2, <2>1
<1>4. n \in FirstStop(required, got)
  BY <1>2, <1>3 DEF FirstStop
<1> QED
  BY <1>4

(* What implement() accepts fits what its hook point asks for.             *)
LEMMA AcceptedFits ==
    ASSUME NEW d \in Decls, Verdict(d.required, d.version) = "ok"
    PROVE  Fits(d)
<1> SUFFICES ASSUME d.required # None
             PROVE  /\ d.version \notin {None, Malformed}
                    /\ \A m \in DOMAIN d.required :
                          d.required[m] # Malformed /\ Satisfies(d.version, d.required[m])
  BY DEF Fits
<1>1. /\ d.required \in Seq(Clause \cup {Malformed})
      /\ d.version \in Declared
  BY RegistryAssumption DEF DeclType, Requirements
<1>2. /\ d.version # None /\ d.version # Malformed
      /\ FirstStop(d.required, d.version) = {}
  BY DEF Verdict
<1>3. d.version \in Version
  BY <1>1, <1>2 DEF Declared
<1>4. ASSUME NEW m \in DOMAIN d.required
      PROVE  d.required[m] # Malformed /\ Satisfies(d.version, d.required[m])
  <2>1. ~Stops(d.required[m], d.version)
    BY <1>1, <1>2, NoneStops
  <2>2. d.required[m] # Malformed /\ Holds(d.required[m].op, d.version, d.required[m].version)
    BY <2>1 DEF Stops
  <2>3. d.required[m] \in Clause
    BY <1>1, <2>2
  <2> QED
    BY <1>3, <2>2, <2>3, HoldsSatisfies
<1> QED
  BY <1>2, <1>4

-----------------------------------------------------------------------------
(* The variables that refer to lists are all different.                    *)
LEMMA OwnersDiffer ==
    /\ AppList \in Owners /\ Hookpoint \in Owners /\ AppList # Hookpoint
    /\ \A a \in Agents :
          /\ AgentList(a) \in Owners /\ Bound(a) \in Owners
          /\ AgentList(a) \notin {AppList, Hookpoint} /\ Bound(a) \notin {AppList, Hookpoint}
    /\ \A a, b \in Agents :
          /\ AgentList(a) # Bound(b)
          /\ AgentList(a) = AgentList(b) => a = b
          /\ Bound(a) = Bound(b) => a = b
BY DEF Owners, AppList, Hookpoint, AgentList, Bound

LEMMA AppendKeeps ==
    ASSUME NEW S, NEW s \in Seq(S), NEW t \in Seq(S), NEW e \in S
    PROVE  /\ Append(s, e) \in Seq(S) /\ s \o t \in Seq(S)
           /\ Append(s \o t, e) = s \o Append(t, e) /\ s \o <<>> = s
OBVIOUS

LEMMA AppendAfter ==
    \A s, t \in Seq(Registries), e \in Registries :
        Append(s \o t, e) = s \o Append(t, e)
<1> SUFFICES ASSUME NEW s \in Seq(Registries), NEW t \in Seq(Registries), NEW e \in Registries
             PROVE  Append(s \o t, e) = s \o Append(t, e)
  OBVIOUS
<1> QED
  OBVIOUS

(* What becomes of the lists when r is appended to what o refers to.       *)
LEMMA PutType ==
    ASSUME TypeOK, NEW o \in Owners, NEW r \in Registries
    PROVE  /\ Put(heap, o, r) \in [Owners -> Seq(Registries)]
           /\ \A p \in Owners : Put(heap, o, r)[p] =
                 IF p = cell[o] THEN Append(heap[p], r) ELSE heap[p]
<1>1. cell[o] \in Owners /\ heap \in [Owners -> Seq(Registries)]
  BY DEF TypeOK
<1>2. Append(heap[cell[o]], r) \in Seq(Registries)
  BY <1>1, AppendKeeps
<1> QED
  BY <1>1, <1>2 DEF Put

LEMMA SourceType ==
    ASSUME TypeOK, NEW from \in {"list", "none"} \cup AgentIds
    PROVE  Source(from) \in Seq(Registries)
<1>1. ListAt(AppList) \in Seq(Registries)
  BY OwnersDiffer DEF TypeOK, ListAt
<1>2. <<>> \in Seq(Registries)
  OBVIOUS
<1> QED
  BY <1>1, <1>2 DEF Source, TypeOK

-----------------------------------------------------------------------------
(* A declaration keeps the single ones alone: it is refused next to one,   *)
(* and refused if it would become one.  It adds one that fits.             *)
LEMMA DeclareStep ==
    ASSUME BindingInv, NEW r \in Registries, NEW d \in Decls, Implement(r, d)
    PROVE  RegistryTypeOK' /\ ModesTell' /\ OnlyCompatible'
<1>1. /\ impls \in [Registries -> Seq(Decls)] /\ impls[r] \in Seq(Decls)
      /\ modes \in [Registries -> Modes \cup {"none"}]
  BY DEF BindingInv, TypeOK, RegistryTypeOK
<1>2. d.mode \in Modes
  BY RegistryAssumption DEF DeclType
<1>3. /\ impls' = [impls EXCEPT ![r] = Append(impls[r], d)]
      /\ modes' = [modes EXCEPT ![r] = d.mode]
      /\ impls[r] # <<>> => modes[r] # "single" /\ d.mode # "single"
  BY DEF Implement, Conflicts
<1>4. RegistryTypeOK'
  BY <1>1, <1>2, <1>3 DEF RegistryTypeOK
<1>5. ASSUME NEW s \in Registries, NEW n \in DOMAIN impls'[s], impls'[s][n].mode = "single"
      PROVE  Len(impls'[s]) = 1 /\ modes'[s] = "single"
  <2>1. CASE s # r
    BY <1>1, <1>3, <1>5, <2>1 DEF BindingInv, ModesTell
  <2>2. CASE s = r /\ impls[r] = <<>>
    BY <1>1, <1>3, <1>5, <2>2
  <2>3. CASE s = r /\ impls[r] # <<>>
    <3>1. d.mode # "single" /\ modes[r] # "single"
      BY <1>3, <2>3
    <3>2. impls'[s] = Append(impls[r], d) /\ n \in 1..(Len(impls[r]) + 1)
      BY <1>1, <1>3, <1>5, <2>3
    <3>3. CASE n \in 1..Len(impls[r])
      <4>1. impls[r][n].mode = "single" /\ n \in DOMAIN impls[r]
        BY <1>1, <1>5, <3>2, <3>3
      <4> QED
        BY <3>1, <4>1 DEF BindingInv, ModesTell
    <3>4. CASE n = Len(impls[r]) + 1
      BY <1>1, <1>5, <3>1, <3>2, <3>4
    <3> QED
      BY <1>1, <3>2, <3>3, <3>4
  <2> QED
    BY <2>1, <2>2, <2>3
<1>6. ASSUME NEW s \in Registries, NEW n \in DOMAIN impls'[s] PROVE Fits(impls'[s][n])
  <2>1. Fits(d)
    BY AcceptedFits DEF Implement
  <2>2. CASE s # r
    BY <1>1, <1>3, <2>2 DEF BindingInv, OnlyCompatible
  <2>3. CASE s = r
    <3>1. impls'[s] = Append(impls[r], d) /\ n \in 1..(Len(impls[r]) + 1)
      BY <1>1, <1>3, <2>3
    <3>2. CASE n \in 1..Len(impls[r])
      <4>1. impls'[s][n] = impls[r][n] /\ n \in DOMAIN impls[r]
        BY <1>1, <3>1, <3>2
      <4> QED
        BY <4>1 DEF BindingInv, OnlyCompatible
    <3>3. CASE n = Len(impls[r]) + 1
      BY <1>1, <2>1, <3>1, <3>3
    <3> QED
      BY <1>1, <3>1, <3>2, <3>3
  <2> QED
    BY <2>2, <2>3
<1> QED
  BY <1>4, <1>5, <1>6 DEF ModesTell, OnlyCompatible

-----------------------------------------------------------------------------
(* Every step keeps the invariant.                                         *)
LEMMA BindingStep ==
    ASSUME BindingInv, [Next]_vars
    PROVE  BindingInv'
<1> USE DEF BindingInv
<1>0. /\ cell \in [Owners -> Owners] /\ heap \in [Owners -> Seq(Registries)]
      /\ store \in [AgentIds -> Seq(Registries)] /\ agents \subseteq Agents
      /\ given \in [Agents -> Seq(Registries)] /\ direct \in [Agents -> Seq(Registries)]
  BY DEF TypeOK
<1>1. UNCHANGED registryVars => RegistryTypeOK' /\ ModesTell' /\ OnlyCompatible'
  BY DEF registryVars, TypeOK, RegistryTypeOK, ModesTell, OnlyCompatible
<1>2. ASSUME NEW r \in Registries, NEW d \in Decls, Declare(r, d) PROVE BindingInv'
  BY <1>2, DeclareStep DEF Declare, bindingVars, TypeOK, Unshared, Lists
<1>3. ASSUME NEW a \in Agents, NEW from \in {"list", "none"} \cup AgentIds, NewAgent(a, from)
      PROVE  BindingInv'
  <2> DEFINE s == Source(from)
  <2>1. s \in Seq(Registries) /\ s \o <<>> = s /\ <<>> \in Seq(Registries)
    BY SourceType, AppendKeeps
  <2> HIDE DEF s
  <2>2. /\ agents' = agents \cup {a} /\ given' = [given EXCEPT ![a] = s]
        /\ direct' = [direct EXCEPT ![a] = <<>>] /\ UNCHANGED <<registryVars, store>>
        /\ heap' = [heap EXCEPT ![AgentList(a)] = s, ![Bound(a)] = s]
    BY <1>3 DEF NewAgent, s
  <2>3. cell' = cell
    BY <1>0, <1>3, OwnersDiffer DEF NewAgent, AgentCopies, BoundCopies, Unshared
  <2>4. \A o \in Owners : heap'[o] = IF o \in {AgentList(a), Bound(a)} THEN s ELSE heap[o]
    BY <1>0, <2>2
  <2>5. Lists'
    BY <1>0, <2>1, <2>2, <2>4, OwnersDiffer DEF Lists
  <2>6. Unshared'
    BY <2>3 DEF Unshared
  <2> QED
    BY <1>0, <1>1, <2>1, <2>2, <2>3, <2>5, <2>6 DEF TypeOK
<1>4. ASSUME NEW a \in Agents, NEW r \in Registries, AddRegistry(a, r) PROVE BindingInv'
  <2> DEFINE s == Append(heap[AgentList(a)], r)
  <2>1. s \in Seq(Registries) /\ s \o <<>> = s /\ <<>> \in Seq(Registries)
    BY <1>0, OwnersDiffer, AppendKeeps
  <2>2. cell' = cell
    BY <1>0, <1>4, OwnersDiffer DEF AddRegistry, BoundCopies, Unshared
  <2>3. /\ a \in agents /\ agents' = agents /\ given' = [given EXCEPT ![a] = Append(given[a], r)]
        /\ direct' = [direct EXCEPT ![a] = <<>>] /\ UNCHANGED <<registryVars, store>>
        /\ heap' = [Put(heap, AgentList(a), r) EXCEPT ![Bound(a)] = s]
    BY <1>4, OwnersDiffer DEF AddRegistry, ListAt, Unshared
  <2>4. /\ \A o \in Owners : heap'[o] = IF o \in {AgentList(a), Bound(a)} THEN s ELSE heap[o]
        /\ heap' \in [Owners -> Seq(Registries)]
    <3>1. AgentList(a) \in Owners /\ Bound(a) \in Owners /\ cell[AgentList(a)] = AgentList(a)
      BY OwnersDiffer DEF Unshared
    <3>2. /\ Put(heap, AgentList(a), r) \in [Owners -> Seq(Registries)]
          /\ \A o \in Owners : Put(heap, AgentList(a), r)[o] =
                IF o = AgentList(a) THEN s ELSE heap[o]
      BY <3>1, PutType
    <3> QED
      BY <2>1, <2>3, <3>1, <3>2
  <2>5. given[a] = heap[AgentList(a)]
    BY <2>3 DEF Lists
  <2> HIDE DEF s
  <2>6. given'[a] = s /\ direct'[a] = <<>>
    BY <1>0, <2>3, <2>5 DEF s
  <2>7. Lists'
    <3>1. ASSUME NEW b \in agents, b # a
          PROVE  /\ heap'[AgentList(b)] = heap[AgentList(b)] /\ heap'[Bound(b)] = heap[Bound(b)]
                 /\ given'[b] = given[b] /\ direct'[b] = direct[b]
      BY <1>0, <2>3, <2>4, <3>1, OwnersDiffer
    <3>2. heap'[AgentList(a)] = s /\ heap'[Bound(a)] = s
      BY <2>4, OwnersDiffer
    <3> QED
      BY <2>1, <2>3, <2>6, <3>1, <3>2 DEF Lists
  <2>8. given' \in [Agents -> Seq(Registries)] /\ direct' \in [Agents -> Seq(Registries)]
    BY <1>0, <2>1, <2>3, <2>5 DEF s
  <2>9. Unshared'
    BY <2>2 DEF Unshared
  <2> QED
    BY <1>0, <1>1, <2>2, <2>3, <2>4, <2>7, <2>8, <2>9 DEF TypeOK
<1>5. ASSUME NEW a \in Agents, NEW r \in Registries, AddToBound(a, r) PROVE BindingInv'
  <2>1. /\ a \in agents /\ UNCHANGED <<registryVars, cell, store, agents, given>>
        /\ heap' = Put(heap, Bound(a), r) /\ direct' = [direct EXCEPT ![a] = Append(direct[a], r)]
    BY <1>5 DEF AddToBound
  <2>2. /\ heap' \in [Owners -> Seq(Registries)]
        /\ \A o \in Owners : heap'[o] = IF o = Bound(a) THEN Append(heap[o], r) ELSE heap[o]
    <3>1. Bound(a) \in Owners /\ cell[Bound(a)] = Bound(a)
      BY OwnersDiffer DEF Unshared
    <3>2. /\ Put(heap, Bound(a), r) \in [Owners -> Seq(Registries)]
          /\ \A o \in Owners : Put(heap, Bound(a), r)[o] =
                IF o = Bound(a) THEN Append(heap[o], r) ELSE heap[o]
      BY <3>1, PutType
    <3> QED
      BY <2>1, <3>2
  <2>3. /\ Append(direct[a], r) \in Seq(Registries)
        /\ Append(given[a] \o direct[a], r) = given[a] \o Append(direct[a], r)
    <3>1. a \in Agents /\ given[a] \in Seq(Registries) /\ direct[a] \in Seq(Registries)
      BY <1>0
    <3>2. Append(direct[a], r) \in Seq(Registries)
      BY <3>1
    <3>3. Append(given[a] \o direct[a], r) = given[a] \o Append(direct[a], r)
      BY <3>1, AppendAfter
    <3> QED
      BY <3>2, <3>3
  <2>4. Lists'
    BY <1>0, <2>1, <2>2, <2>3, OwnersDiffer DEF Lists
  <2> QED
    BY <1>0, <1>1, <2>1, <2>2, <2>3, <2>4 DEF TypeOK, Unshared
<1>6. CASE NewHookpoint
  <2>1. /\ UNCHANGED <<registryVars, store, agents, given, direct>>
        /\ heap' = [heap EXCEPT ![Hookpoint] = <<>>]
        /\ \/ cell' = [cell EXCEPT ![Hookpoint] = AppList]
           \/ cell' = [cell EXCEPT ![Hookpoint] = Hookpoint]
    BY <1>6 DEF NewHookpoint, Unshared
  <2>2. cell' \in [Owners -> Owners] /\ Unshared'
    <3>1. cell'[Hookpoint] \in {AppList, Hookpoint} /\ cell' \in [Owners -> Owners]
      <4>1. AppList \in Owners /\ Hookpoint \in Owners
        BY OwnersDiffer
      <4>2. PICK o \in {AppList, Hookpoint} : cell' = [cell EXCEPT ![Hookpoint] = o]
        BY <2>1
      <4> QED
        BY <1>0, <4>1, <4>2
    <3>2. \A o \in Owners : o # Hookpoint => cell'[o] = cell[o]
      BY <1>0, <2>1
    <3>3. \A a \in Agents : cell'[AgentList(a)] = AgentList(a) /\ cell'[Bound(a)] = Bound(a)
      BY <3>2, OwnersDiffer DEF Unshared
    <3>4. cell'[AppList] = AppList
      BY <3>2, OwnersDiffer DEF Unshared
    <3> QED
      BY <3>1, <3>3, <3>4 DEF Unshared
  <2>3. heap' \in [Owners -> Seq(Registries)] /\ Lists'
    BY <1>0, <2>1, OwnersDiffer DEF Lists
  <2> QED
    BY <1>0, <1>1, <2>1, <2>2, <2>3 DEF TypeOK
<1>7. ASSUME NEW o \in {Hookpoint, AppList}, NEW r \in Registries, AppendTo(o, r)
      PROVE  BindingInv'
  <2>1. /\ UNCHANGED <<registryVars, cell, store, agents, given, direct>>
        /\ heap' = Put(heap, o, r) /\ o \in Owners /\ cell[o] \in {AppList, Hookpoint}
    BY <1>7, OwnersDiffer DEF AppendTo, Unshared
  <2>2. /\ heap' \in [Owners -> Seq(Registries)]
        /\ \A a \in Agents : /\ heap'[AgentList(a)] = heap[AgentList(a)]
                             /\ heap'[Bound(a)] = heap[Bound(a)]
    <3>1. /\ heap' \in [Owners -> Seq(Registries)]
          /\ \A p \in Owners : heap'[p] = IF p = cell[o] THEN Append(heap[p], r) ELSE heap[p]
      BY <2>1, PutType
    <3> QED
      BY <2>1, <3>1, OwnersDiffer
  <2> QED
    BY <1>0, <1>1, <2>1, <2>2 DEF TypeOK, Unshared, Lists
<1>8. ASSUME NEW i \in AgentIds, NEW r \in Registries, StoreAdd(i, r) PROVE BindingInv'
  <2>1. Append(store[i], r) \in Seq(Registries)
    BY <1>0, AppendKeeps
  <2> QED
    BY <1>0, <1>1, <1>8, <2>1 DEF StoreAdd, TypeOK, Unshared, Lists
<1>9. ASSUME NEW ids \in SUBSET AgentIds, StoreClear(ids) PROVE BindingInv'
  <2>1. store' \in [AgentIds -> Seq(Registries)]
    BY <1>0, <1>9 DEF StoreClear
  <2> QED
    BY <1>0, <1>1, <1>9, <2>1 DEF StoreClear, TypeOK, Unshared, Lists
<1>10. CASE UNCHANGED vars
  BY <1>1, <1>10 DEF vars, bindingVars, TypeOK, Unshared, Lists
<1> QED
  BY <1>2, <1>3, <1>4, <1>5, <1>6, <1>7, <1>8, <1>9, <1>10 DEF Next

(* The invariant holds throughout.                                         *)
THEOREM BindingInvariance == Spec => []BindingInv
<1>1. Init => BindingInv
  <2> SUFFICES ASSUME Init PROVE BindingInv
    OBVIOUS
  <2>1. <<>> \in Seq(Registries) /\ <<>> \in Seq(Decls)
    OBVIOUS
  <2>2. cell = [o \in Owners |-> o] /\ agents = {} /\ \A r \in Registries : impls[r] = <<>>
    BY DEF Init, RegistryInit
  <2>3. Unshared /\ Lists /\ ModesTell /\ OnlyCompatible
    BY <2>2, OwnersDiffer DEF Unshared, Lists, ModesTell, OnlyCompatible
  <2>4. TypeOK
    BY <2>1 DEF Init, RegistryInit, TypeOK, RegistryTypeOK
  <2> QED
    BY <2>3, <2>4 DEF BindingInv
<1> QED
  BY <1>1, BindingStep, PTL DEF Spec

(* Every variable of the registries, agents and the store keeps its type.  *)
THEOREM BindingTypeTheorem == Spec => []TypeOK
BY BindingInvariance, PTL DEF BindingInv

(* An implementation with mode "single" never has another beside it in its *)
(* registry.                                                               *)
THEOREM SingleTheorem == Spec => []SingleIsAlone
<1>1. BindingInv => SingleIsAlone
  BY DEF BindingInv, ModesTell, SingleIsAlone
<1> QED
  BY <1>1, BindingInvariance, PTL

(* Every registered implementation satisfies every clause of what its hook *)
(* point asks for, whatever the versions and however many the clauses.     *)
THEOREM CompatibleTheorem == Spec => []OnlyCompatible
BY BindingInvariance, PTL DEF BindingInv

(* An agent's hook point runs what the agent was given and what was added  *)
(* to it, for any number of agents and lists that change around it.        *)
THEOREM BindingTheorem == Spec => []PointsRunWhatWasGiven
<1>1. BindingInv => PointsRunWhatWasGiven
  <2> SUFFICES ASSUME BindingInv, NEW a \in agents
               PROVE  ListAt(Bound(a)) = given[a] \o direct[a]
    BY DEF PointsRunWhatWasGiven
  <2>1. a \in Agents
    BY DEF BindingInv, TypeOK
  <2> QED
    BY <2>1 DEF BindingInv, Unshared, Lists, ListAt
<1> QED
  BY <1>1, BindingInvariance, PTL
=============================================================================
