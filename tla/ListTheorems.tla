---------------------------- MODULE ListTheorems ----------------------------
(***************************************************************************)
(* Facts about lists that the components' proofs share.  A loop over a     *)
(* list is a function f with f[0] its initial value and f[n] what the n-th *)
(* pass makes of f[n - 1]; a table is a list of rows, of which a step      *)
(* changes one or to which it appends one.  The facts have sets and        *)
(* functions for parameters, so that a proof can cite them by name.        *)
(***************************************************************************)
EXTENDS Integers, Sequences, FiniteSets, FiniteSetsExt, FiniteSetTheorems,
        SequenceTheorems, WellFoundedInduction, TLAPS

(* A set of naturals that is not empty has a least element. *)
LEMMA LeastNat ==
  ASSUME NEW T, T \subseteq Nat, T # {}
  PROVE  \E n \in T : \A m \in T : n <= m
<1> DEFINE R == OpToRel(<, Nat)
<1>1. IsWellFoundedOn(R, Nat)
  BY NatLessThanWellFounded
<1>2. PICK n \in T : \A m \in T : ~(<<m, n>> \in R)
  BY <1>1, WFMin
<1>3. \A m \in T : m < n => <<m, n>> \in R
  BY DEF OpToRel
<1>4. \A m \in T : ~(m < n)
  BY <1>2, <1>3
<1> QED BY <1>4

(* A set of naturals that holds 0 and the successor of each member is Nat. *)
LEMMA SetInduction ==
  ASSUME NEW P, P \subseteq Nat, 0 \in P, \A n \in P : n + 1 \in P
  PROVE  P = Nat
<1> SUFFICES ASSUME P # Nat PROVE FALSE
  OBVIOUS
<1>1. PICK n \in Nat \ P : \A m \in Nat \ P : n <= m
  BY LeastNat
<1>2. n # 0 /\ n - 1 \in Nat /\ n - 1 \in P
  BY <1>1
<1> QED BY <1>1, <1>2

(* A property that each pass keeps holds after every pass. *)
LEMMA LoopInvariant ==
  ASSUME NEW N \in Nat, NEW V, NEW f, f[0] \in V[0],
         \A n \in 1..N : f[n - 1] \in V[n - 1] => f[n] \in V[n]
  PROVE  \A n \in 0..N : f[n] \in V[n]
<1> DEFINE P == {n \in Nat : n <= N => f[n] \in V[n]}
<1>1. P \subseteq Nat /\ 0 \in P
  OBVIOUS
<1>2. ASSUME NEW n \in P PROVE n + 1 \in P
  <2>1. n \in Nat /\ (n + 1) - 1 = n
    OBVIOUS
  <2>2. n + 1 <= N => n + 1 \in 1..N /\ f[n] \in V[n]
    BY <2>1
  <2> QED BY <2>1, <2>2
<1>3. P = Nat
  <2> HIDE DEF P
  <2> QED BY <1>1, <1>2, SetInduction
<1> QED BY <1>3

(* Pass n of the loop leads from a value of V[n - 1] to one of V[n]. *)
Leads(F, N, V) == \A n \in 1..N : \A v \in V[n - 1] : F[n][v] \in V[n]

IsLoop(f, N, v0, F) == f[0] = v0 /\ \A n \in 1..N : f[n] = F[n][f[n - 1]]

(* A loop whose n-th pass leads from V[n - 1] to V[n] is well-defined. *)
LEMMA Recursion ==
  ASSUME NEW N \in Nat, NEW U, NEW V, V \in [0..N -> SUBSET U], NEW v0, v0 \in V[0], NEW F,
         Leads(F, N, V)
  PROVE  \E f \in [0..N -> U] : IsLoop(f, N, v0, F) /\ \A n \in 0..N : f[n] \in V[n]
<1> USE DEF Leads, IsLoop
<1> DEFINE Ok(m, f) == /\ IsLoop(f, m, v0, F)
                       /\ \A n \in 0..m : f[n] \in V[n]
           P == {m \in Nat : m <= N => \E f \in [0..m -> U] : Ok(m, f)}
<1>1. 0 \in P
  <2> DEFINE g == [n \in 0..0 |-> v0]
  <2>1. g \in [0..0 -> U] /\ Ok(0, g)
    OBVIOUS
  <2> QED BY <2>1
<1>2. ASSUME NEW m \in P PROVE m + 1 \in P
  <2>0. m \in Nat
    OBVIOUS
  <2>1. SUFFICES ASSUME m + 1 <= N
                 PROVE  \E f \in [0..(m + 1) -> U] : Ok(m + 1, f)
    BY <2>0
  <2>2. PICK f \in [0..m -> U] : Ok(m, f)
    BY <2>1
  <2> DEFINE g == [n \in 0..(m + 1) |-> IF n <= m THEN f[n] ELSE F[m + 1][f[m]]]
  <2> HIDE DEF P
  <2>3. F[m + 1][f[m]] \in V[m + 1]
    <3>1. f[m] \in V[m]
      BY <2>0, <2>2
    <3>2. m + 1 \in 1..N /\ (m + 1) - 1 = m
      BY <2>0, <2>1
    <3> QED BY <3>1, <3>2
  <2>4. /\ \A n \in 0..m : g[n] = f[n]
        /\ g[m + 1] = F[m + 1][f[m]]
        /\ g \in [0..(m + 1) -> U]
    BY <2>0, <2>1, <2>3
  <2> HIDE DEF g
  <2>5. g[0] = v0
    BY <2>0, <2>2, <2>4
  <2>6. ASSUME NEW n \in 1..(m + 1) PROVE g[n] = F[n][g[n - 1]]
    <3>1. CASE n <= m
      <4>1. n \in 1..m /\ n - 1 \in 0..m /\ n \in 0..m
        BY <2>0, <3>1
      <4> QED BY <2>2, <2>4, <4>1
    <3>2. CASE n = m + 1
      <4>1. n - 1 = m /\ m \in 0..m
        BY <2>0, <3>2
      <4> QED BY <2>4, <3>2, <4>1
    <3> QED BY <3>1, <3>2, <2>0
  <2>7. ASSUME NEW n \in 0..(m + 1) PROVE g[n] \in V[n]
    <3>1. CASE n <= m
      BY <2>0, <2>2, <2>4, <3>1
    <3>2. CASE n = m + 1
      BY <2>3, <2>4, <3>2
    <3> QED BY <3>1, <3>2, <2>0
  <2> QED BY <2>4, <2>5, <2>6, <2>7
<1>3. N \in P
  <2>1. P \subseteq Nat
    OBVIOUS
  <2> HIDE DEF P
  <2> QED BY <1>1, <1>2, <2>1, SetInduction
<1> QED BY <1>3

StrictOrder(R, S) ==
  /\ \A i \in S : <<i, i>> \notin R
  /\ \A i, j, k \in S : <<i, j>> \in R /\ <<j, k>> \in R => <<i, k>> \in R
  /\ \A i, j \in S : i # j => <<i, j>> \in R \/ <<j, i>> \in R

(* A finite set under a strict total order has a first element. *)
LEMMA FirstExists ==
  ASSUME NEW S, IsFiniteSet(S), S # {}, NEW R, StrictOrder(R, S)
  PROVE  \E i \in S : \A j \in S \ {i} : <<i, j>> \in R
<1> USE DEF StrictOrder
<1> DEFINE before(i) == {j \in S : <<j, i>> \in R}
           rank == [i \in S |-> Cardinality(before(i))]
<1>1. \A i \in S : IsFiniteSet(before(i)) /\ Cardinality(before(i)) \in Nat
  BY FS_Subset, FS_CardinalityType
<1>2. \A i, j \in S : before(j) \subseteq before(i) /\ before(j) # before(i) => rank[j] < rank[i]
  <2> SUFFICES ASSUME NEW i \in S, NEW j \in S, before(j) \subseteq before(i), before(j) # before(i)
               PROVE  Cardinality(before(j)) < Cardinality(before(i))
    OBVIOUS
  <2> HIDE DEF before
  <2> QED BY <1>1, FS_Subset
<1>3. rank \in [S -> Nat]
  BY <1>1
<1>4. PICK i \in S : \A j \in S : rank[i] <= rank[j]
  <2> HIDE DEF rank
  <2> DEFINE T == {rank[i] : i \in S}
  <2>1. T \subseteq Nat /\ T # {}
    BY <1>3
  <2>2. PICK n \in T : \A m \in T : n <= m
    <3> HIDE DEF T
    <3> QED BY <2>1, LeastNat
  <2> QED BY <2>2
<1>5. ASSUME NEW j \in S \ {i}, <<i, j>> \notin R PROVE FALSE
  <2>1. <<j, i>> \in R
    BY <1>5
  <2>2. before(j) \subseteq before(i) /\ j \in before(i) /\ j \notin before(j)
    BY <2>1
  <2> HIDE DEF before, rank
  <2> QED BY <1>2, <1>3, <1>4, <2>2
<1> QED BY <1>5

(* Min and Max of a pair of integers. *)
LEMMA PairBounds ==
  ASSUME NEW a \in Int, NEW b \in Int
  PROVE  /\ Min({a, b}) \in {a, b} /\ Min({a, b}) <= a /\ Min({a, b}) <= b
         /\ Max({a, b}) \in {a, b} /\ a <= Max({a, b}) /\ b <= Max({a, b})
<1>1. \E x \in {a, b} : \A y \in {a, b} : x <= y
  BY SMT
<1>2. \E x \in {a, b} : \A y \in {a, b} : x >= y
  BY SMT
<1> QED BY <1>1, <1>2 DEF Min, Max

(* Table t is table s with row i replaced by e. *)
Updated(s, t, i, e) ==
  /\ Len(t) = Len(s) /\ DOMAIN t = DOMAIN s
  /\ \A j \in DOMAIN s : t[j] = IF j = i THEN e ELSE s[j]

(* Table t is table s with row e at its end. *)
Extended(s, t, e) ==
  /\ Len(t) = Len(s) + 1 /\ DOMAIN t = DOMAIN s \cup {Len(t)} /\ Len(t) \notin DOMAIN s
  /\ t[Len(t)] = e
  /\ \A j \in DOMAIN s : t[j] = s[j]

(* A row of a table, and the last one. *)
LEMMA EntryOf ==
  ASSUME NEW S, NEW s \in Seq(S), NEW i \in DOMAIN s
  PROVE  s[i] \in S /\ i \in Nat /\ i <= Len(s) /\ s # <<>>
OBVIOUS

LEMMA LastEntry ==
  ASSUME NEW S, NEW s \in Seq(S), s # <<>>
  PROVE  Len(s) \in DOMAIN s /\ s[Len(s)] \in S /\ Len(s) \in Nat /\ Len(s) > 0
OBVIOUS

LEMMA UpdatedTable ==
  ASSUME NEW S, NEW s \in Seq(S), NEW i \in DOMAIN s, NEW e \in S, NEW t, t = [s EXCEPT ![i] = e]
  PROVE  t \in Seq(S) /\ Updated(s, t, i, e)
<1>1. DOMAIN s = 1..Len(s) /\ DOMAIN t = DOMAIN s
  OBVIOUS
<1>2. /\ t \in Seq(S) /\ Len(t) = Len(s)
      /\ \A j \in 1..Len(s) : t[j] = IF j = i THEN e ELSE s[j]
  BY <1>1, ExceptSeq
<1> QED BY <1>1, <1>2 DEF Updated

LEMMA UntouchedTable ==
  ASSUME NEW S, NEW s \in Seq(S), NEW i, i \notin DOMAIN s, NEW e, NEW t, t = [s EXCEPT ![i] = e]
  PROVE  t = s
OBVIOUS

LEMMA ExtendedTable ==
  ASSUME NEW S, NEW s \in Seq(S), NEW e \in S, NEW t, t = Append(s, e)
  PROVE  t \in Seq(S) /\ Extended(s, t, e)
<1>1. /\ t \in Seq(S) /\ Len(t) = Len(s) + 1 /\ t[Len(s) + 1] = e
      /\ \A j \in 1..Len(s) : t[j] = s[j]
  BY AppendProperties
<1>2. Len(s) \in Nat /\ DOMAIN s = 1..Len(s) /\ DOMAIN t = 1..Len(t)
  BY <1>1
<1>3. DOMAIN t = DOMAIN s \cup {Len(t)} /\ Len(t) \notin DOMAIN s
  BY <1>1, <1>2
<1>4. Extended(s, t, e)
  BY <1>1, <1>2, <1>3 DEF Extended
<1> QED BY <1>1, <1>4
(* A list that gained an entry and kept the others is that entry appended. *)
LEMMA AppendedEntry ==
  ASSUME NEW n \in Nat, NEW U, NEW f \in [1..n -> U], NEW g \in [1..(n + 1) -> U],
         \A j \in 1..n : g[j] = f[j]
  PROVE  g = Append(f, g[n + 1])
<1> DEFINE x == g[n + 1]
<1>1. n + 1 \in Nat /\ n + 1 \in 1..(n + 1)
  OBVIOUS
<1>2. f \in Seq(U) /\ Len(f) = n
  <2>1. f \in Seq(U)
    BY SeqDef
  <2> QED BY <2>1
<1>3. g \in Seq(U) /\ Len(g) = n + 1 /\ x \in U
  <2>1. g \in Seq(U)
    BY <1>1, SeqDef
  <2> QED BY <1>1, <2>1
<1> HIDE DEF x
<1>4. /\ Append(f, x) \in Seq(U) /\ Len(Append(f, x)) = n + 1
      /\ Append(f, x)[n + 1] = x /\ \A j \in 1..n : Append(f, x)[j] = f[j]
  BY <1>2, <1>3, AppendProperties
<1>5. ASSUME NEW j \in 1..(n + 1) PROVE g[j] = Append(f, x)[j]
  <2>1. CASE j = n + 1
    BY <1>4, <2>1 DEF x
  <2>2. CASE j # n + 1
    BY <1>4, <2>2
  <2> QED BY <2>1, <2>2
<1>6. g = Append(f, x)
  BY <1>3, <1>4, <1>5, SeqEqual
<1> QED BY <1>6 DEF x
=============================================================================
