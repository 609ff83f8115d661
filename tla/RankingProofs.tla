--------------------------- MODULE RankingProofs ---------------------------
(***************************************************************************)
(* The implementations a run takes, and their order: what filtering,       *)
(* joining and sorting come to, for any lists, orders and contexts.        *)
(***************************************************************************)
EXTENDS AgentBindingProofs, FiniteSetTheorems

-----------------------------------------------------------------------------
(* The function FlattenSeq is computed by exists: the least length at      *)
(* which it did not would be one more than a length at which it does.      *)
Joining(f, X, n) == f = [i \in 1..n |-> IF i = 1 THEN X[i] ELSE f[i - 1] \o X[i]]

LEMMA JoiningExists ==
    ASSUME NEW X, NEW n \in Nat \ {0}
    PROVE  \E f : Joining(f, X, n)
<1> DEFINE T == {m \in Nat \ {0} : ~\E f : Joining(f, X, m)}
<1> SUFFICES ASSUME T # {} PROVE FALSE
  OBVIOUS
<1>1. T \in SUBSET Nat
  OBVIOUS
<1>2. PICK m \in T : \A l \in T : m <= l
  BY <1>1, LeastNumber
<1>3. CASE m = 1
  <2> DEFINE f == [i \in 1..1 |-> X[i]]
  <2>1. Joining(f, X, 1)
    BY DEF Joining
  <2> QED
    BY <1>2, <1>3, <2>1
<1>4. CASE m # 1
  <2>1. m - 1 \in Nat \ {0} /\ ~(m <= m - 1) /\ m \in Nat
    BY <1>4
  <2>2. PICK f : Joining(f, X, m - 1)
    BY <1>2, <2>1
  <2> DEFINE g == [i \in 1..m |-> IF i = m THEN f[m - 1] \o X[m] ELSE f[i]]
  <2>3. ASSUME NEW i \in 1..m
        PROVE  g[i] = IF i = 1 THEN X[i] ELSE g[i - 1] \o X[i]
    <3>1. CASE i = m
      <4>1. m - 1 \in 1..m /\ m \in 1..m /\ m - 1 # m /\ i # 1
        BY <1>4, <2>1, <3>1
      <4>2. g[i] = f[m - 1] \o X[m] /\ g[m - 1] = f[m - 1]
        BY <3>1, <4>1
      <4> QED
        BY <3>1, <4>1, <4>2
    <3>2. CASE i # m /\ i = 1
      BY <2>1, <2>2, <3>2 DEF Joining
    <3>3. CASE i # m /\ i # 1
      <4>1. i \in 1..(m - 1) /\ i - 1 \in 1..m /\ i - 1 # m
        BY <2>1, <3>3
      <4>2. f[i] = f[i - 1] \o X[i]
        BY <2>2, <3>3, <4>1 DEF Joining
      <4> QED
        BY <3>3, <4>1, <4>2
    <3> QED
      BY <3>1, <3>2, <3>3
  <2>4. g = [i \in 1..m |-> IF i = 1 THEN X[i] ELSE g[i - 1] \o X[i]]
    BY <2>3
  <2> QED
    BY <1>2, <2>4 DEF Joining
<1> QED
  BY <1>3, <1>4

(***************************************************************************)
(* What t has to do with the first n sequences of X: all their elements,   *)
(* those of an earlier one first, those of the same one as they are in it. *)
(***************************************************************************)
Joins(t, X, n) ==
    /\ \A i \in DOMAIN t : \E g \in 1..n : \E k \in DOMAIN X[g] : t[i] = X[g][k]
    /\ \A g \in 1..n : \A k \in DOMAIN X[g] : \E i \in DOMAIN t : t[i] = X[g][k]
    /\ \A i, j \in DOMAIN t : i < j =>
          \E g, h \in 1..n : \E k \in DOMAIN X[g] : \E l \in DOMAIN X[h] :
              /\ t[i] = X[g][k] /\ t[j] = X[h][l]
              /\ g < h \/ (g = h /\ k < l)

LEMMA JoinsNext ==
    ASSUME NEW S, NEW t \in Seq(S), NEW n \in Nat, NEW X, Joins(t, X, n),
           X[n + 1] \in Seq(S)
    PROVE  t \o X[n + 1] \in Seq(S) /\ Joins(t \o X[n + 1], X, n + 1)
<1> DEFINE x == X[n + 1]
           u == t \o x
<1>1. /\ u \in Seq(S) /\ Len(u) = Len(t) + Len(x) /\ Len(t) \in Nat /\ Len(x) \in Nat
      /\ DOMAIN u = 1..(Len(t) + Len(x)) /\ DOMAIN t = 1..Len(t) /\ DOMAIN x = 1..Len(x)
      /\ \A i \in 1..Len(t) : u[i] = t[i]
      /\ \A i \in 1..Len(x) : u[Len(t) + i] = x[i]
  OBVIOUS
<1> HIDE DEF u
<1>2. ASSUME NEW i \in DOMAIN u, i \notin DOMAIN t
      PROVE  i - Len(t) \in DOMAIN x /\ u[i] = x[i - Len(t)]
  <2>1. i - Len(t) \in 1..Len(x) /\ Len(t) + (i - Len(t)) = i
    BY <1>1, <1>2
  <2> QED
    BY <1>1, <2>1
<1>3. 1..n \subseteq 1..(n + 1) /\ n + 1 \in 1..(n + 1) /\ \A g \in 1..n : g < n + 1
  OBVIOUS
<1>4. /\ \A i \in DOMAIN t : \E g \in 1..n : \E k \in DOMAIN X[g] : t[i] = X[g][k]
      /\ \A g \in 1..n : \A k \in DOMAIN X[g] : \E i \in DOMAIN t : t[i] = X[g][k]
      /\ \A i, j \in DOMAIN t : i < j =>
            \E g, h \in 1..n : \E k \in DOMAIN X[g] : \E l \in DOMAIN X[h] :
                /\ t[i] = X[g][k] /\ t[j] = X[h][l]
                /\ g < h \/ (g = h /\ k < l)
  BY DEF Joins
<1>5. \A i \in DOMAIN u : \E g \in 1..(n + 1) : \E k \in DOMAIN X[g] : u[i] = X[g][k]
  <2> SUFFICES ASSUME NEW i \in DOMAIN u
               PROVE  \E g \in 1..(n + 1) : \E k \in DOMAIN X[g] : u[i] = X[g][k]
    OBVIOUS
  <2>1. CASE i \in DOMAIN t
    BY <1>1, <1>3, <1>4, <2>1
  <2>2. CASE i \notin DOMAIN t
    BY <1>2, <1>3, <2>2
  <2> QED
    BY <2>1, <2>2
<1>6. \A g \in 1..(n + 1) : \A k \in DOMAIN X[g] : \E i \in DOMAIN u : u[i] = X[g][k]
  <2> SUFFICES ASSUME NEW g \in 1..(n + 1), NEW k \in DOMAIN X[g]
               PROVE  \E i \in DOMAIN u : u[i] = X[g][k]
    OBVIOUS
  <2>1. CASE g \in 1..n
    <3>1. PICK i \in DOMAIN t : t[i] = X[g][k]
      BY <1>4, <2>1
    <3>2. i \in DOMAIN u /\ u[i] = t[i]
      BY <1>1
    <3> QED
      BY <3>1, <3>2
  <2>2. CASE g = n + 1
    <3>1. k \in 1..Len(x)
      BY <1>1, <2>2
    <3>2. Len(t) + k \in DOMAIN u /\ u[Len(t) + k] = X[g][k]
      BY <1>1, <2>2, <3>1
    <3> QED
      BY <3>2
  <2> QED
    BY <2>1, <2>2
<1>7. ASSUME NEW i \in DOMAIN u, NEW j \in DOMAIN u, i < j
      PROVE  \E g, h \in 1..(n + 1) : \E k \in DOMAIN X[g] : \E l \in DOMAIN X[h] :
                /\ u[i] = X[g][k] /\ u[j] = X[h][l]
                /\ g < h \/ (g = h /\ k < l)
  <2>1. CASE j \in DOMAIN t
    <3>1. i \in DOMAIN t /\ u[i] = t[i] /\ u[j] = t[j]
      BY <1>1, <1>7, <2>1
    <3>2. PICK g \in 1..n, h \in 1..n : \E k \in DOMAIN X[g] : \E l \in DOMAIN X[h] :
              /\ t[i] = X[g][k] /\ t[j] = X[h][l]
              /\ g < h \/ (g = h /\ k < l)
      BY <1>4, <1>7, <2>1, <3>1
    <3> QED
      BY <1>3, <3>1, <3>2
  <2>2. CASE i \in DOMAIN t /\ j \notin DOMAIN t
    <3>1. PICK g \in 1..n : \E k \in DOMAIN X[g] : t[i] = X[g][k]
      BY <1>4, <2>2
    <3>2. PICK k \in DOMAIN X[g] : t[i] = X[g][k]
      BY <3>1
    <3>3. u[i] = X[g][k] /\ g \in 1..(n + 1) /\ g < n + 1
      BY <1>1, <1>3, <2>2, <3>2
    <3>4. j - Len(t) \in DOMAIN X[n + 1] /\ u[j] = X[n + 1][j - Len(t)] /\ n + 1 \in 1..(n + 1)
      BY <1>2, <1>3, <2>2
    <3> QED
      BY <3>3, <3>4
  <2>3. CASE i \notin DOMAIN t
    <3>1. j \notin DOMAIN t
      BY <1>1, <1>7, <2>3
    <3>2. /\ i - Len(t) \in DOMAIN X[n + 1] /\ u[i] = X[n + 1][i - Len(t)]
          /\ j - Len(t) \in DOMAIN X[n + 1] /\ u[j] = X[n + 1][j - Len(t)]
      BY <1>2, <2>3, <3>1
    <3>3. i - Len(t) < j - Len(t) /\ n + 1 \in 1..(n + 1)
      BY <1>1, <1>3, <1>7
    <3> QED
      BY <3>2, <3>3
  <2> QED
    BY <2>1, <2>2, <2>3
<1> QED
  BY <1>1, <1>5, <1>6, <1>7 DEF Joins, u

(* FlattenSeq joins all the sequences it is given.                         *)
LEMMA FlattenJoins ==
    ASSUME NEW S, NEW X \in Seq(Seq(S))
    PROVE  FlattenSeq(X) \in Seq(S) /\ Joins(FlattenSeq(X), X, Len(X))
<1> DEFINE N == Len(X)
           f == CHOOSE f : Joining(f, X, N)
<1>1. N \in Nat /\ \A n \in 1..N : X[n] \in Seq(S)
  OBVIOUS
<1>2. CASE N = 0
  <2>1. FlattenSeq(X) = X /\ X = <<>> /\ <<>> \in Seq(S)
    BY <1>2 DEF FlattenSeq
  <2> QED
    BY <1>2, <2>1 DEF Joins
<1>3. CASE N # 0
  <2>1. FlattenSeq(X) = f[N]
    BY <1>3 DEF FlattenSeq, Joining
  <2>2. Joining(f, X, N)
    <3>1. N \in Nat \ {0}
      BY <1>1, <1>3
    <3> QED
      BY <3>1, JoiningExists
  <2> HIDE DEF f
  <2>3. /\ f[1] = X[1]
        /\ \A n \in 1..N : n + 1 \in 1..N => f[n + 1] = f[n] \o X[n + 1]
    <3>1. 1 \in 1..N
      BY <1>1, <1>3
    <3>2. \A i \in 1..N : f[i] = IF i = 1 THEN X[i] ELSE f[i - 1] \o X[i]
      BY <2>2 DEF Joining
    <3>3. ASSUME NEW n \in 1..N, n + 1 \in 1..N PROVE f[n + 1] = f[n] \o X[n + 1]
      <4>1. n + 1 # 1 /\ (n + 1) - 1 = n
        OBVIOUS
      <4>2. f[n + 1] = f[(n + 1) - 1] \o X[n + 1]
        BY <3>2, <3>3, <4>1
      <4> QED
        BY <4>1, <4>2
    <3> QED
      BY <3>1, <3>2, <3>3
  <2> DEFINE T == {n \in 1..N : ~(f[n] \in Seq(S) /\ Joins(f[n], X, n))}
  <2>4. T = {}
    <3> SUFFICES ASSUME T # {} PROVE FALSE
      OBVIOUS
    <3>1. PICK m \in T : \A l \in T : m <= l
      <4>1. T \in SUBSET Nat
        BY <1>1
      <4> QED
        BY <4>1, LeastNumber
    <3>2. CASE m = 1
      <4>1. f[1] \in Seq(S)
        BY <1>1, <1>3, <2>3
      <4>2. Joins(f[1], X, 1)
        BY <1>1, <1>3, <2>3 DEF Joins
      <4> QED
        BY <3>1, <3>2, <4>1, <4>2
    <3>3. CASE m # 1
      <4> DEFINE n == m - 1
      <4>1. n \in 1..N /\ n \in Nat /\ n + 1 = m /\ n + 1 \in 1..N /\ ~(m <= n)
        BY <1>1, <3>1, <3>3
      <4>2. f[n] \in Seq(S) /\ Joins(f[n], X, n)
        BY <3>1, <4>1
      <4>3. X[n + 1] \in Seq(S) /\ f[n + 1] = f[n] \o X[n + 1]
        BY <1>1, <2>3, <4>1
      <4>4. f[n + 1] \in Seq(S) /\ Joins(f[n + 1], X, n + 1)
        BY <4>1, <4>2, <4>3, JoinsNext
      <4> QED
        BY <3>1, <4>1, <4>4
    <3> QED
      BY <3>2, <3>3
  <2>5. N \in 1..N
    BY <1>1, <1>3
  <2> QED
    BY <2>1, <2>4, <2>5
<1> QED
  BY <1>2, <1>3

-----------------------------------------------------------------------------
(***************************************************************************)
(* Sorting.  Rank counts those that are not behind; it grows along the     *)
(* order, so no two elements have one rank and every place is somebody's.  *)
(***************************************************************************)
NotBehind(order, l, m) ==
    \/ order[l] < order[m]
    \/ order[l] = order[m] /\ l <= m

Ahead(order, l, m) ==
    \/ order[l] < order[m]
    \/ order[l] = order[m] /\ l < m

LEMMA RankGrows ==
    ASSUME NEW n \in Nat, NEW order \in [1..n -> Nat],
           NEW l \in 1..n, NEW m \in 1..n, NotBehind(order, l, m), l # m
    PROVE  Rank(order, l) < Rank(order, m)
<1> DEFINE P == {k \in 1..n : NotBehind(order, k, l)}
           Q == {k \in 1..n : NotBehind(order, k, m)}
<1>1. Rank(order, l) = Cardinality(P) /\ Rank(order, m) = Cardinality(Q)
  BY DEF Rank, NotBehind
<1>2. P \subseteq Q
  <2> SUFFICES ASSUME NEW k \in 1..n, NotBehind(order, k, l) PROVE NotBehind(order, k, m)
    OBVIOUS
  <2>1. order[k] \in Nat /\ order[l] \in Nat /\ order[m] \in Nat
    OBVIOUS
  <2> QED
    BY <2>1 DEF NotBehind
<1>3. m \in Q /\ m \notin P
  <2>1. order[l] \in Nat /\ order[m] \in Nat
    OBVIOUS
  <2> QED
    BY <2>1 DEF NotBehind
<1>4. IsFiniteSet(Q)
  <2>1. IsFiniteSet(1..n)
    BY FS_Interval
  <2> QED
    BY <2>1, FS_Subset
<1> HIDE DEF P, Q
<1>5. Cardinality(P) <= Cardinality(Q) /\ Cardinality(P) # Cardinality(Q)
  BY <1>2, <1>3, <1>4, FS_Subset
<1>6. Cardinality(P) \in Nat /\ Cardinality(Q) \in Nat
  BY <1>2, <1>4, FS_Subset, FS_CardinalityType
<1> QED
  BY <1>1, <1>5, <1>6

LEMMA RankPlaces ==
    ASSUME NEW n \in Nat, NEW order \in [1..n -> Nat]
    PROVE  /\ \A m \in 1..n : Rank(order, m) \in 1..n
           /\ \A l, m \in 1..n : Rank(order, l) = Rank(order, m) => l = m
           /\ \A k \in 1..n : \E m \in 1..n : Rank(order, m) = k
<1>1. IsFiniteSet(1..n) /\ Cardinality(1..n) = n
  BY FS_Interval
<1>2. ASSUME NEW m \in 1..n PROVE Rank(order, m) \in 1..n
  <2> DEFINE P == {k \in 1..n : NotBehind(order, k, m)}
  <2>1. Rank(order, m) = Cardinality(P)
    BY DEF Rank, NotBehind
  <2>2. m \in P /\ P \subseteq 1..n
    BY DEF NotBehind
  <2> HIDE DEF P
  <2>3. /\ IsFiniteSet(P) /\ Cardinality(P) <= n /\ Cardinality(P) \in Nat
    <3>1. IsFiniteSet(P) /\ Cardinality(P) <= Cardinality(1..n)
      BY <1>1, <2>2, FS_Subset
    <3> QED
      BY <1>1, <3>1, FS_CardinalityType
  <2>4. Cardinality(P) # 0
    BY <2>2, <2>3, FS_EmptySet
  <2> QED
    BY <2>1, <2>3, <2>4
<1>3. ASSUME NEW l \in 1..n, NEW m \in 1..n, l # m
      PROVE  Rank(order, l) # Rank(order, m)
  <2>1. NotBehind(order, l, m) \/ NotBehind(order, m, l)
    <3>1. order[l] \in Nat /\ order[m] \in Nat
      OBVIOUS
    <3> QED
      BY <3>1 DEF NotBehind
  <2>2. Rank(order, l) < Rank(order, m) \/ Rank(order, m) < Rank(order, l)
    BY <1>3, <2>1, RankGrows
  <2>3. Rank(order, l) \in Nat /\ Rank(order, m) \in Nat
    BY <1>2
  <2> QED
    BY <2>2, <2>3
<1> DEFINE f == [m \in 1..n |-> Rank(order, m)]
<1>4. f \in Injection(1..n, 1..n)
  BY <1>2, <1>3 DEF Injection, IsInjective
<1>5. f \in Surjection(1..n, 1..n)
  BY <1>1, <1>4, FS_Injection
<1>6. \A k \in 1..n : \E m \in 1..n : Rank(order, m) = k
  BY <1>5 DEF Surjection
<1> QED
  BY <1>2, <1>3, <1>6

(***************************************************************************)
(* So sorting is a permutation: the element at place k comes from place    *)
(* p[k], every place is come from, and of two elements the one of lower    *)
(* order is first, or of equal order the one that was.                     *)
(***************************************************************************)
LEMMA SortedPermutes ==
    ASSUME NEW s, NEW n \in Nat, NEW order \in [1..n -> Nat], DOMAIN s = 1..n
    PROVE  \E p \in [1..n -> 1..n] :
              /\ Sorted(s, order) = [k \in 1..n |-> s[p[k]]]
              /\ \A m \in 1..n : \E k \in 1..n : p[k] = m
              /\ \A j, k \in 1..n : j < k => Ahead(order, p[j], p[k])
<1> DEFINE p == [k \in 1..n |-> CHOOSE m \in DOMAIN s : Rank(order, m) = k]
<1>1. \A k \in 1..n : p[k] \in 1..n /\ Rank(order, p[k]) = k
  <2>1. \A k \in 1..n : \E m \in 1..n : Rank(order, m) = k
    BY RankPlaces
  <2> QED
    BY <2>1
<1>2. Sorted(s, order) = [k \in 1..n |-> s[p[k]]]
  BY DEF Sorted
<1>3. p \in [1..n -> 1..n]
  BY <1>1
<1> HIDE DEF p
<1>4. ASSUME NEW m \in 1..n PROVE \E k \in 1..n : p[k] = m
  <2>1. Rank(order, m) \in 1..n
    BY RankPlaces
  <2>2. p[Rank(order, m)] \in 1..n /\ Rank(order, p[Rank(order, m)]) = Rank(order, m)
    BY <1>1, <2>1
  <2>3. p[Rank(order, m)] = m
    BY <2>2, RankPlaces
  <2> QED
    BY <2>1, <2>3
<1>5. ASSUME NEW j \in 1..n, NEW k \in 1..n, j < k
      PROVE  Ahead(order, p[j], p[k])
  <2>1. p[j] \in 1..n /\ p[k] \in 1..n /\ Rank(order, p[j]) = j /\ Rank(order, p[k]) = k
    BY <1>1
  <2>2. p[k] # p[j]
    BY <1>5, <2>1
  <2>3. ~NotBehind(order, p[k], p[j])
    <3> SUFFICES ASSUME NotBehind(order, p[k], p[j]) PROVE FALSE
      OBVIOUS
    <3>1. k < j
      BY <2>1, <2>2, RankGrows
    <3> QED
      BY <1>5, <3>1
  <2>4. order[p[j]] \in Nat /\ order[p[k]] \in Nat
    BY <2>1
  <2> QED
    BY <2>1, <2>2, <2>3, <2>4 DEF NotBehind, Ahead
<1> QED
  BY <1>2, <1>3, <1>4, <1>5

-----------------------------------------------------------------------------
(* The registries.                                                         *)
Found(r, c) == {n \in DOMAIN impls[r] : Matches(impls[r][n], c)}

LEMMA ImplsTyped ==
    ASSUME TypeOK, NEW r \in Registries
    PROVE  /\ impls[r] \in Seq(Decls) /\ DOMAIN impls[r] = 1..Len(impls[r])
           /\ Len(impls[r]) \in Nat
           /\ \A n \in DOMAIN impls[r] : impls[r][n].order \in Nat
<1>1. impls[r] \in Seq(Decls)
  BY DEF TypeOK, RegistryTypeOK
<1>2. \A d \in Decls : d.order \in Nat
  BY RegistryAssumption DEF DeclType
<1> QED
  BY <1>1, <1>2

(* Filtering keeps the matching ones, in the order of registration.        *)
LEMMA MatchedInTurn ==
    ASSUME TypeOK, NEW r \in Registries, NEW c
    PROVE  LET matched == FlattenSeq([n \in DOMAIN impls[r] |->
                                         IF Matches(impls[r][n], c) THEN <<n>> ELSE <<>>])
           IN  /\ matched \in Seq(Nat)
               /\ \A i \in DOMAIN matched : matched[i] \in Found(r, c)
               /\ \A n \in Found(r, c) : \E i \in DOMAIN matched : matched[i] = n
               /\ \A i, j \in DOMAIN matched : i < j => matched[i] < matched[j]
<1> DEFINE X == [n \in DOMAIN impls[r] |-> IF Matches(impls[r][n], c) THEN <<n>> ELSE <<>>]
           t == FlattenSeq(X)
<1>1. /\ DOMAIN impls[r] = 1..Len(impls[r]) /\ Len(impls[r]) \in Nat
  BY ImplsTyped
<1>2. X \in Seq(Seq(Nat)) /\ Len(X) = Len(impls[r])
  <2>1. \A n \in 1..Len(impls[r]) : X[n] \in Seq(Nat)
    <3> SUFFICES ASSUME NEW n \in 1..Len(impls[r]) PROVE X[n] \in Seq(Nat)
      OBVIOUS
    <3>1. <<n>> \in Seq(Nat) /\ <<>> \in Seq(Nat)
      OBVIOUS
    <3> QED
      BY <1>1, <3>1
  <2> QED
    BY <1>1, <2>1
<1>3. \A n \in 1..Len(X) : \A k \in DOMAIN X[n] : X[n][k] = n /\ n \in Found(r, c) /\ k = 1
  BY <1>1, <1>2 DEF Found
<1>4. \A n \in Found(r, c) : n \in 1..Len(X) /\ 1 \in DOMAIN X[n]
  BY <1>1, <1>2 DEF Found
<1> HIDE DEF X
<1>5. t \in Seq(Nat) /\ Joins(t, X, Len(X))
  BY <1>2, FlattenJoins
<1> HIDE DEF t
<1>6. \A i \in DOMAIN t : t[i] \in Found(r, c)
  BY <1>3, <1>5 DEF Joins
<1>7. \A n \in Found(r, c) : \E i \in DOMAIN t : t[i] = n
  BY <1>3, <1>4, <1>5 DEF Joins
<1>8. ASSUME NEW i \in DOMAIN t, NEW j \in DOMAIN t, i < j
      PROVE  t[i] < t[j]
  <2>1. PICK g \in 1..Len(X), h \in 1..Len(X) :
            \E k \in DOMAIN X[g] : \E l \in DOMAIN X[h] :
                t[i] = X[g][k] /\ t[j] = X[h][l] /\ (g < h \/ (g = h /\ k < l))
    BY <1>5, <1>8 DEF Joins
  <2>2. PICK k \in DOMAIN X[g], l \in DOMAIN X[h] :
            t[i] = X[g][k] /\ t[j] = X[h][l] /\ (g < h \/ (g = h /\ k < l))
    BY <2>1
  <2>3. t[i] = g /\ t[j] = h /\ k = 1 /\ l = 1
    BY <1>3, <2>2
  <2> QED
    BY <2>2, <2>3
<1> QED
  BY <1>5, <1>6, <1>7, <1>8 DEF t, X

(* A registry's answer: the matching ones, by order and then by the time   *)
(* of their registration.                                                  *)
LEMMA GetImplsRanked ==
    ASSUME TypeOK, NEW r \in Registries, NEW c
    PROVE  LET found == GetImpls(r, c)
           IN  /\ found \in Seq(Nat)
               /\ \A i \in DOMAIN found : found[i] \in Found(r, c)
               /\ \A n \in Found(r, c) : \E i \in DOMAIN found : found[i] = n
               /\ \A i, j \in DOMAIN found : i < j =>
                     \/ impls[r][found[i]].order < impls[r][found[j]].order
                     \/ /\ impls[r][found[i]].order = impls[r][found[j]].order
                        /\ found[i] < found[j]
<1> DEFINE t == FlattenSeq([n \in DOMAIN impls[r] |->
                               IF Matches(impls[r][n], c) THEN <<n>> ELSE <<>>])
           order == [n \in DOMAIN t |-> impls[r][t[n]].order]
           found == GetImpls(r, c)
<1>1. found = Sorted(t, order)
  BY DEF GetImpls
<1>2. /\ t \in Seq(Nat)
      /\ \A i \in DOMAIN t : t[i] \in Found(r, c)
      /\ \A n \in Found(r, c) : \E i \in DOMAIN t : t[i] = n
      /\ \A i, j \in DOMAIN t : i < j => t[i] < t[j]
  BY MatchedInTurn
<1> HIDE DEF t, found
<1>3. DOMAIN t = 1..Len(t) /\ Len(t) \in Nat
  BY <1>2
<1>4. order \in [1..Len(t) -> Nat]
  BY <1>2, <1>3, ImplsTyped DEF Found
<1>5. \A i \in 1..Len(t) : order[i] = impls[r][t[i]].order
  BY <1>3
<1> HIDE DEF order
<1>6. PICK p \in [1..Len(t) -> 1..Len(t)] :
          /\ found = [k \in 1..Len(t) |-> t[p[k]]]
          /\ \A m \in 1..Len(t) : \E k \in 1..Len(t) : p[k] = m
          /\ \A j, k \in 1..Len(t) : j < k => Ahead(order, p[j], p[k])
  BY <1>1, <1>3, <1>4, SortedPermutes
<1>7. DOMAIN found = 1..Len(t) /\ \A k \in 1..Len(t) : p[k] \in 1..Len(t) /\ found[k] = t[p[k]]
  BY <1>6
<1>8. found \in Seq(Nat)
  <2>1. \A m \in 1..Len(t) : t[m] \in Nat
    BY <1>2
  <2>2. \A k \in 1..Len(t) : t[p[k]] \in Nat
    BY <1>7, <2>1
  <2>3. found \in [1..Len(t) -> Nat]
    BY <1>6, <2>2
  <2> QED
    BY <1>3, <2>3
<1>9. \A i \in DOMAIN found : found[i] \in Found(r, c)
  BY <1>2, <1>3, <1>7
<1>10. \A n \in Found(r, c) : \E i \in DOMAIN found : found[i] = n
  BY <1>2, <1>3, <1>6, <1>7
<1>11. ASSUME NEW i \in DOMAIN found, NEW j \in DOMAIN found, i < j
       PROVE  \/ impls[r][found[i]].order < impls[r][found[j]].order
              \/ /\ impls[r][found[i]].order = impls[r][found[j]].order
                 /\ found[i] < found[j]
  <2>1. Ahead(order, p[i], p[j]) /\ p[i] \in 1..Len(t) /\ p[j] \in 1..Len(t)
    BY <1>6, <1>7, <1>11
  <2>2. /\ order[p[i]] = impls[r][found[i]].order /\ order[p[j]] = impls[r][found[j]].order
        /\ found[i] = t[p[i]] /\ found[j] = t[p[j]]
    BY <1>5, <1>7, <1>11, <2>1
  <2>3. p[i] < p[j] => found[i] < found[j]
    BY <1>2, <1>3, <2>1, <2>2
  <2> QED
    BY <2>1, <2>2, <2>3 DEF Ahead
<1> QED
  BY <1>8, <1>9, <1>10, <1>11 DEF found

-----------------------------------------------------------------------------
(* The lists.                                                              *)
ListMatching(o, c) ==
    UNION {{<<g, n>> : n \in {m \in DOMAIN impls[ListAt(o)[g]] :
                                  Matches(impls[ListAt(o)[g]][m], c)}} :
           g \in DOMAIN ListAt(o)}

LEMMA ListTyped ==
    ASSUME TypeOK, NEW o \in Owners
    PROVE  /\ ListAt(o) \in Seq(Registries) /\ DOMAIN ListAt(o) = 1..Len(ListAt(o))
           /\ Len(ListAt(o)) \in Nat
           /\ \A g \in DOMAIN ListAt(o) : ListAt(o)[g] \in Registries
           /\ \A c, g, n : <<g, n>> \in ListMatching(o, c) <=>
                 g \in DOMAIN ListAt(o) /\ n \in Found(ListAt(o)[g], c)
           /\ \A c : \A p \in ListMatching(o, c) : p = <<p[1], p[2]>>
<1>1. ListAt(o) \in Seq(Registries)
  BY DEF TypeOK, ListAt
<1>2. \A c, g, n : <<g, n>> \in ListMatching(o, c) <=>
         g \in DOMAIN ListAt(o) /\ n \in Found(ListAt(o)[g], c)
  BY DEF ListMatching, Found
<1>3. \A c : \A p \in ListMatching(o, c) : p = <<p[1], p[2]>>
  BY DEF ListMatching
<1> QED
  BY <1>1, <1>2, <1>3

LEMMA MatchingTyped ==
    ASSUME TypeOK, NEW o \in Owners, NEW c, NEW p \in ListMatching(o, c)
    PROVE  p \in Nat \X Nat /\ DeclOf(o, p).order \in Nat
<1>1. p = <<p[1], p[2]>> /\ p[1] \in DOMAIN ListAt(o) /\ p[2] \in Found(ListAt(o)[p[1]], c)
  BY ListTyped
<1>2. p[1] \in Nat /\ ListAt(o)[p[1]] \in Registries
  BY <1>1, ListTyped
<1>3. /\ p[2] \in DOMAIN impls[ListAt(o)[p[1]]] /\ p[2] \in Nat
      /\ impls[ListAt(o)[p[1]]][p[2]].order \in Nat
  BY <1>1, <1>2, ImplsTyped DEF Found
<1> QED
  BY <1>1, <1>2, <1>3 DEF DeclOf

(* Joined, the answers of the registries are in the order of the list, and *)
(* those of one registry ranked among themselves.                          *)
LEMMA CollectedRanked ==
    ASSUME TypeOK, NEW o \in Owners, NEW c
    PROVE  LET all == Collected(o, c)
           IN  /\ all \in Seq(Nat \X Nat)
               /\ \A i \in DOMAIN all : all[i] \in ListMatching(o, c)
               /\ \A p \in ListMatching(o, c) : \E i \in DOMAIN all : all[i] = p
               /\ \A i, j \in DOMAIN all : i < j =>
                     \/ all[i][1] < all[j][1]
                     \/ all[i][1] = all[j][1] /\ RanksBefore(o, all[i], all[j])
<1> DEFINE list == ListAt(o)
           Answer(g) == GetImpls(list[g], c)
           X == [g \in DOMAIN list |-> [n \in DOMAIN Answer(g) |-> <<g, Answer(g)[n]>>]]
           all == Collected(o, c)
<1>1. /\ DOMAIN list = 1..Len(list) /\ Len(list) \in Nat
      /\ \A g \in DOMAIN list : list[g] \in Registries
  BY ListTyped
<1>2. ASSUME NEW g \in DOMAIN list
      PROVE  /\ Answer(g) \in Seq(Nat)
             /\ \A i \in DOMAIN Answer(g) : Answer(g)[i] \in Found(list[g], c)
             /\ \A n \in Found(list[g], c) : \E i \in DOMAIN Answer(g) : Answer(g)[i] = n
             /\ \A i, j \in DOMAIN Answer(g) : i < j =>
                   \/ impls[list[g]][Answer(g)[i]].order < impls[list[g]][Answer(g)[j]].order
                   \/ /\ impls[list[g]][Answer(g)[i]].order = impls[list[g]][Answer(g)[j]].order
                      /\ Answer(g)[i] < Answer(g)[j]
  <2>1. list[g] \in Registries
    BY <1>1
  <2> QED
    BY <2>1, GetImplsRanked
<1>3. all = FlattenSeq(X)
  BY DEF Collected
<1> HIDE DEF Answer, all
<1>4. X \in Seq(Seq(Nat \X Nat)) /\ Len(X) = Len(list)
  <2>1. ASSUME NEW g \in 1..Len(list) PROVE X[g] \in Seq(Nat \X Nat)
    <3>1. Answer(g) \in Seq(Nat) /\ g \in Nat /\ g \in DOMAIN list
      BY <1>1, <1>2
    <3>2. X[g] = [n \in 1..Len(Answer(g)) |-> <<g, Answer(g)[n]>>]
      BY <3>1
    <3>3. Len(Answer(g)) \in Nat /\ \A n \in 1..Len(Answer(g)) : <<g, Answer(g)[n]>> \in Nat \X Nat
      BY <3>1
    <3> QED
      BY <3>2, <3>3
  <2> QED
    BY <1>1, <2>1
<1>5. \A g \in 1..Len(X) :
         /\ DOMAIN X[g] = DOMAIN Answer(g) /\ g \in DOMAIN list
         /\ \A k \in DOMAIN X[g] : X[g][k] = <<g, Answer(g)[k]>>
  BY <1>1, <1>4
<1> HIDE DEF X
<1>6. all \in Seq(Nat \X Nat) /\ Joins(all, X, Len(X))
  BY <1>3, <1>4, FlattenJoins
<1>7. ASSUME NEW i \in DOMAIN all PROVE all[i] \in ListMatching(o, c)
  <2>1. PICK g \in 1..Len(X) : \E k \in DOMAIN X[g] : all[i] = X[g][k]
    BY <1>6 DEF Joins
  <2>2. PICK k \in DOMAIN X[g] : all[i] = X[g][k]
    BY <2>1
  <2>3. all[i] = <<g, Answer(g)[k]>> /\ g \in DOMAIN list /\ Answer(g)[k] \in Found(list[g], c)
    BY <1>2, <1>5, <2>2
  <2> QED
    BY <2>3, ListTyped
<1>8. ASSUME NEW p \in ListMatching(o, c) PROVE \E i \in DOMAIN all : all[i] = p
  <2>1. p = <<p[1], p[2]>> /\ p[1] \in DOMAIN list /\ p[2] \in Found(list[p[1]], c)
    BY ListTyped
  <2>2. PICK k \in DOMAIN Answer(p[1]) : Answer(p[1])[k] = p[2]
    BY <1>2, <2>1
  <2>3. p[1] \in 1..Len(X) /\ k \in DOMAIN X[p[1]] /\ X[p[1]][k] = p
    <3>1. p[1] \in 1..Len(X)
      BY <1>1, <1>4, <2>1
    <3>2. k \in DOMAIN X[p[1]] /\ X[p[1]][k] = <<p[1], Answer(p[1])[k]>>
      BY <1>5, <2>2, <3>1
    <3> QED
      BY <2>1, <2>2, <3>1, <3>2
  <2> QED
    BY <1>6, <2>3 DEF Joins
<1>9. ASSUME NEW i \in DOMAIN all, NEW j \in DOMAIN all, i < j
      PROVE  \/ all[i][1] < all[j][1]
             \/ all[i][1] = all[j][1] /\ RanksBefore(o, all[i], all[j])
  <2>1. PICK g \in 1..Len(X), h \in 1..Len(X) :
            \E k \in DOMAIN X[g] : \E l \in DOMAIN X[h] :
                all[i] = X[g][k] /\ all[j] = X[h][l] /\ (g < h \/ (g = h /\ k < l))
    BY <1>6, <1>9 DEF Joins
  <2>2. PICK k \in DOMAIN X[g], l \in DOMAIN X[h] :
            all[i] = X[g][k] /\ all[j] = X[h][l] /\ (g < h \/ (g = h /\ k < l))
    BY <2>1
  <2>3. /\ all[i] = <<g, Answer(g)[k]>> /\ all[j] = <<h, Answer(h)[l]>>
        /\ g \in DOMAIN list /\ k \in DOMAIN Answer(g) /\ l \in DOMAIN Answer(h)
    BY <1>5, <2>2
  <2>4. CASE g < h
    BY <2>3, <2>4
  <2>5. CASE g = h /\ k < l
    <3>1. \/ impls[list[g]][Answer(g)[k]].order < impls[list[g]][Answer(g)[l]].order
          \/ /\ impls[list[g]][Answer(g)[k]].order = impls[list[g]][Answer(g)[l]].order
             /\ Answer(g)[k] < Answer(g)[l]
      BY <1>2, <2>3, <2>5
    <3> QED
      BY <2>3, <2>5, <3>1 DEF RanksBefore, DeclOf
  <2> QED
    BY <2>2, <2>4, <2>5
<1> QED
  BY <1>6, <1>7, <1>8, <1>9 DEF all

(* What a run takes: every matching implementation of every registry in    *)
(* the list, ranked by order, place of the registry and registration.      *)
LEMMA ResolveRanked ==
    ASSUME TypeOK, NEW o \in Owners, NEW c
    PROVE  LET s == Resolve(o, c)
           IN  /\ {s[n] : n \in DOMAIN s} = ListMatching(o, c)
               /\ \A m, n \in DOMAIN s : m < n => RanksBefore(o, s[m], s[n])
<1> DEFINE all == Collected(o, c)
           order == [n \in DOMAIN all |-> DeclOf(o, all[n]).order]
           s == Resolve(o, c)
<1>1. s = Sorted(all, order)
  BY DEF Resolve
<1>2. /\ all \in Seq(Nat \X Nat)
      /\ \A i \in DOMAIN all : all[i] \in ListMatching(o, c)
      /\ \A p \in ListMatching(o, c) : \E i \in DOMAIN all : all[i] = p
      /\ \A i, j \in DOMAIN all : i < j =>
            \/ all[i][1] < all[j][1]
            \/ all[i][1] = all[j][1] /\ RanksBefore(o, all[i], all[j])
  BY CollectedRanked
<1> HIDE DEF all, s
<1>3. DOMAIN all = 1..Len(all) /\ Len(all) \in Nat
  BY <1>2
<1>4. order \in [1..Len(all) -> Nat]
  BY <1>2, <1>3, MatchingTyped
<1>5. \A i \in 1..Len(all) : order[i] = DeclOf(o, all[i]).order
  BY <1>3
<1> HIDE DEF order
<1>6. PICK p \in [1..Len(all) -> 1..Len(all)] :
          /\ s = [k \in 1..Len(all) |-> all[p[k]]]
          /\ \A m \in 1..Len(all) : \E k \in 1..Len(all) : p[k] = m
          /\ \A j, k \in 1..Len(all) : j < k => Ahead(order, p[j], p[k])
  BY <1>1, <1>3, <1>4, SortedPermutes
<1>7. DOMAIN s = 1..Len(all) /\ \A k \in 1..Len(all) : p[k] \in 1..Len(all) /\ s[k] = all[p[k]]
  BY <1>6
<1>8. \A k \in DOMAIN s : s[k] \in ListMatching(o, c)
  BY <1>2, <1>3, <1>7
<1>9. \A q \in ListMatching(o, c) : \E k \in DOMAIN s : s[k] = q
  BY <1>2, <1>3, <1>6, <1>7
<1>10. ASSUME NEW m \in DOMAIN s, NEW n \in DOMAIN s, m < n
       PROVE  RanksBefore(o, s[m], s[n])
  <2>1. /\ Ahead(order, p[m], p[n]) /\ p[m] \in 1..Len(all) /\ p[n] \in 1..Len(all)
        /\ s[m] = all[p[m]] /\ s[n] = all[p[n]]
    BY <1>6, <1>7, <1>10
  <2>2. order[p[m]] = DeclOf(o, s[m]).order /\ order[p[n]] = DeclOf(o, s[n]).order
    BY <1>5, <2>1
  <2>3. CASE order[p[m]] < order[p[n]]
    BY <2>2, <2>3 DEF RanksBefore
  <2>4. CASE order[p[m]] = order[p[n]] /\ p[m] < p[n]
    <3>1. \/ s[m][1] < s[n][1]
          \/ s[m][1] = s[n][1] /\ RanksBefore(o, s[m], s[n])
      <4>1. p[m] \in DOMAIN all /\ p[n] \in DOMAIN all
        BY <1>3, <2>1
      <4>2. \/ all[p[m]][1] < all[p[n]][1]
            \/ all[p[m]][1] = all[p[n]][1] /\ RanksBefore(o, all[p[m]], all[p[n]])
        BY <1>2, <2>4, <4>1
      <4> QED
        BY <2>1, <4>2
    <3> QED
      BY <2>2, <2>4, <3>1 DEF RanksBefore
  <2> QED
    BY <2>1, <2>3, <2>4 DEF Ahead
<1> QED
  BY <1>8, <1>9, <1>10 DEF s

(* The two sorts come to one ranking of what matches, for any lists of     *)
(* registries, shared or not, any orders and any context.                  *)
THEOREM RankingTheorem == Spec => []ResolvedIsRanked
<1>1. TypeOK => ResolvedIsRanked
  BY ResolveRanked DEF ResolvedIsRanked, ListMatching
<1> QED
  BY <1>1, BindingTypeTheorem, PTL
=============================================================================
