--------------------------- MODULE ListOps_proofs ---------------------------
(***************************************************************************)
(* What Keep and Total give for every list.                                *)
(*                                                                         *)
(* The argument.  Induction is used in the form of a set of numbers that   *)
(* has 0 and the successor of each member (Induction): it follows from the *)
(* theorem that inclusion is well-founded on finite sets, with n as the    *)
(* set 1..n.  It gives the function that the recursion defines (KeepWalk,  *)
(* TotalWalk), and then what the function is on a changed list.            *)
(***************************************************************************)
EXTENDS ListOps, FiniteSets, SequencesExt, FiniteSetTheorems, SequenceTheorems,
        WellFoundedInduction, TLAPS

-----------------------------------------------------------------------------
(* A set of naturals has a least member.                                   *)
LEMMA Least ==
  ASSUME NEW T, T \subseteq Nat, T # {}
  PROVE  \E n \in T : \A k \in T : n <= k
<1> DEFINE U == {1..n : n \in T}
           R == StrictSubsetOrdering(Nat)
<1>1. IsWellFoundedOn(R, FiniteSubsetsOf(Nat))
  BY FS_StrictSubsetOrderingWellFounded
<1>2. U \subseteq FiniteSubsetsOf(Nat)
  BY FS_Interval DEF FiniteSubsetsOf
<1>3. U # {}
  OBVIOUS
<1> HIDE DEF R
<1>6. PICK x \in U : \A y \in U : ~(<<y, x>> \in R)
  BY <1>1, <1>2, <1>3, WFMin
<1>4. PICK n \in T : x = 1..n
  OBVIOUS
<1>5. ASSUME NEW k \in T, ~(n <= k) PROVE FALSE
  <2>1. k < n /\ k \in Nat /\ n \in Nat
    BY <1>5
  <2>2. n \in 1..n /\ n \notin 1..k
    BY <2>1
  <2>3. 1..k \in SUBSET (1..n) /\ 1..k # 1..n
    BY <2>1, <2>2
  <2>4. <<1..k, 1..n>> \in R
    BY <2>3 DEF R, StrictSubsetOrdering
  <2> QED BY <2>4, <1>6, <1>4
<1> QED BY <1>4, <1>5

(* Induction, for the numbers up to a given one.                           *)
LEMMA Induction ==
  ASSUME NEW m \in Nat, NEW S, 0 \in S, \A n \in 0..m - 1 : n \in S => n + 1 \in S
  PROVE  0..m \subseteq S
<1> DEFINE T == 0..m \ S
<1> SUFFICES ASSUME T # {} PROVE FALSE
  OBVIOUS
<1>1. T \subseteq Nat
  OBVIOUS
<1> HIDE DEF T
<1>2. PICK n \in T : \A k \in T : n <= k
  BY <1>1, Least
<1>3. n \in 1..m /\ n \notin S
  BY DEF T
<1>4. n - 1 \in 0..m - 1 /\ n - 1 \notin T
  BY <1>1, <1>2, <1>3
<1>5. n - 1 \in S
  BY <1>4 DEF T
<1>6. n - 1 + 1 \in S
  BY <1>4, <1>5
<1> QED BY <1>3, <1>6

-----------------------------------------------------------------------------
(* k is the walk of Keep over the first m elements of q.                   *)
IsKeep(k, q, S, m) ==
  k = [i \in 0..m |->
         IF i = 0 THEN << >>
         ELSE IF q[i] \in S THEN Append(k[i - 1], q[i]) ELSE k[i - 1]]

(* The walk that the recursion means exists.                               *)
LEMMA KeepExists ==
  ASSUME NEW E, NEW q \in Seq(E), NEW S
  PROVE  \E k : IsKeep(k, q, S, Len(q))
<1> DEFINE N == {m \in 0..Len(q) : \E k : IsKeep(k, q, S, m)}
<1>1. Len(q) \in Nat
  OBVIOUS
<1>2. 0 \in N
  <2>1. IsKeep([i \in 0..0 |-> << >>], q, S, 0)
    BY DEF IsKeep
  <2> QED BY <1>1, <2>1
<1>3. ASSUME NEW n \in 0..Len(q) - 1, n \in N PROVE n + 1 \in N
  <2>1. PICK k : IsKeep(k, q, S, n)
    BY <1>3
  <2> DEFINE h == [i \in 0..n + 1 |->
                     IF i = n + 1
                       THEN IF q[i] \in S THEN Append(k[n], q[i]) ELSE k[n]
                       ELSE k[i]]
  <2>2. \A i \in 0..n : h[i] = k[i] /\ i \in 0..n + 1
    OBVIOUS
  <2>3. ASSUME NEW i \in 0..n + 1
        PROVE  h[i] = IF i = 0 THEN << >>
                      ELSE IF q[i] \in S THEN Append(h[i - 1], q[i]) ELSE h[i - 1]
    <3>1. CASE i = n + 1
      <4>1. i # 0 /\ i - 1 = n /\ n \in 0..n BY <3>1
      <4> QED BY <3>1, <4>1, <2>2
    <3>2. CASE i # n + 1
      <4>1. i \in 0..n /\ h[i] = k[i] BY <3>2, <2>2
      <4>2. k[i] = IF i = 0 THEN << >>
                   ELSE IF q[i] \in S THEN Append(k[i - 1], q[i]) ELSE k[i - 1]
        BY <2>1, <4>1 DEF IsKeep
      <4>3. i # 0 => h[i - 1] = k[i - 1] BY <4>1, <2>2
      <4> HIDE DEF h
      <4> QED BY <4>1, <4>2, <4>3
    <3> QED BY <3>1, <3>2
  <2>4. h = [i \in 0..n + 1 |-> h[i]]
    OBVIOUS
  <2> HIDE DEF h
  <2>5. IsKeep(h, q, S, n + 1)
    BY <2>3, <2>4 DEF IsKeep
  <2> QED BY <2>5, <1>1
<1> HIDE DEF N
<1>4. 0..Len(q) \subseteq N
  BY <1>1, <1>2, <1>3, Induction
<1>5. Len(q) \in N
  BY <1>1, <1>4
<1> QED BY <1>5 DEF N

LEMMA KeepWalk ==
  ASSUME NEW E, NEW q \in Seq(E), NEW S
  PROVE  \E k : /\ IsKeep(k, q, S, Len(q)) /\ Keep(q, S) = k[Len(q)]
                /\ k[0] = << >>
                /\ \A i \in 1..Len(q) :
                     k[i] = IF q[i] \in S THEN Append(k[i - 1], q[i]) ELSE k[i - 1]
<1> DEFINE k == CHOOSE k : IsKeep(k, q, S, Len(q))
<1>1. IsKeep(k, q, S, Len(q))
  BY KeepExists
<1>2. Keep(q, S) = k[Len(q)]
  BY DEF Keep, IsKeep
<1> HIDE DEF k
<1>3. Len(q) \in Nat
  OBVIOUS
<1>4. k[0] = << >>
  BY <1>1, <1>3 DEF IsKeep
<1>5. ASSUME NEW i \in 1..Len(q)
      PROVE  k[i] = IF q[i] \in S THEN Append(k[i - 1], q[i]) ELSE k[i - 1]
  <2>1. i \in 0..Len(q) /\ i # 0 BY <1>3
  <2> QED BY <1>1, <2>1 DEF IsKeep
<1> QED BY <1>1, <1>2, <1>4, <1>5

(* w is what is kept of the first m elements of q; f says where each was.  *)
Placed(w, q, S, m, f) ==
  /\ f \in [1..Len(w) -> 1..m]
  /\ \A i, j \in 1..Len(w) : i < j => f[i] < f[j]
  /\ \A p \in 1..m : q[p] \in S => \E i \in 1..Len(w) : f[i] = p
  /\ \A i \in 1..Len(w) : w[i] = q[f[i]]

KeptOf(w, q, S, m) == Len(w) <= m /\ \E f : Placed(w, q, S, m, f)

(* One more element, which is kept.                                        *)
LEMMA PlacedMore ==
  ASSUME NEW E, NEW q \in Seq(E), NEW S, NEW m \in Nat, m + 1 \in 1..Len(q),
         q[m + 1] \in S, NEW w \in Seq(E), KeptOf(w, q, S, m)
  PROVE  KeptOf(Append(w, q[m + 1]), q, S, m + 1)
<1>1. PICK f : Placed(w, q, S, m, f)
  BY DEF KeptOf
<1>2. PICK l : l = Len(w) /\ l \in Nat /\ l <= m
  BY DEF KeptOf
<1>3. PICK v : v = Append(w, q[m + 1])
  OBVIOUS
<1>4. q[m + 1] \in E
  OBVIOUS
<1>5. /\ Len(v) = l + 1 /\ v[l + 1] = q[m + 1]
      /\ \A i \in 1..l : v[i] = w[i]
  BY <1>2, <1>3, <1>4
<1>6. \A i \in 1..l + 1 : i \in 1..l \/ i = l + 1
  BY <1>2
<1>7. \A i \in 1..l : f[i] \in 1..m /\ i # l + 1
  BY <1>1, <1>2 DEF Placed
<1> DEFINE g == [i \in 1..l + 1 |-> IF i = l + 1 THEN m + 1 ELSE f[i]]
<1>8. g[l + 1] = m + 1 /\ l + 1 \in 1..l + 1
  BY <1>2
<1>9. \A i \in 1..l : g[i] = f[i] /\ i \in 1..l + 1
  BY <1>2, <1>7
<1>10. \A i \in 1..l + 1 : g[i] \in 1..m + 1
  <2> HIDE DEF g
  <2>1. 1..m \subseteq 1..m + 1 /\ m + 1 \in 1..m + 1 OBVIOUS
  <2> QED BY <1>6, <1>7, <1>8, <1>9, <2>1
<1>11. g \in [1..l + 1 -> 1..m + 1]
  BY <1>10
<1> HIDE DEF g
<1>12. ASSUME NEW i \in 1..l + 1, NEW j \in 1..l + 1, i < j PROVE g[i] < g[j]
  <2>1. i \in 1..l BY <1>6, <1>2, <1>12
  <2>2. CASE j \in 1..l BY <2>1, <2>2, <1>9, <1>1, <1>2, <1>12 DEF Placed
  <2>3. CASE j = l + 1 BY <2>1, <2>3, <1>7, <1>8, <1>9
  <2> QED BY <2>2, <2>3, <1>6
<1>13. ASSUME NEW p \in 1..m + 1, q[p] \in S PROVE \E i \in 1..l + 1 : g[i] = p
  <2>1. CASE p = m + 1 BY <2>1, <1>8
  <2>2. CASE p \in 1..m
    <3>1. PICK i \in 1..l : f[i] = p BY <2>2, <1>1, <1>2, <1>13 DEF Placed
    <3> QED BY <3>1, <1>9
  <2> QED BY <2>1, <2>2
<1>14. ASSUME NEW i \in 1..l + 1 PROVE v[i] = q[g[i]]
  <2>1. CASE i = l + 1 BY <2>1, <1>5, <1>8
  <2>2. CASE i \in 1..l
    <3>1. w[i] = q[f[i]] BY <2>2, <1>1, <1>2 DEF Placed
    <3> QED BY <2>2, <3>1, <1>5, <1>9
  <2> QED BY <2>1, <2>2, <1>6
<1>15. Placed(v, q, S, m + 1, g)
  BY <1>5, <1>11, <1>12, <1>13, <1>14 DEF Placed
<1> QED BY <1>2, <1>3, <1>5, <1>15 DEF KeptOf

(* One more element, which is not.                                         *)
LEMMA PlacedSame ==
  ASSUME NEW E, NEW q \in Seq(E), NEW S, NEW m \in Nat, m + 1 \in 1..Len(q),
         q[m + 1] \notin S, NEW w \in Seq(E), KeptOf(w, q, S, m)
  PROVE  KeptOf(w, q, S, m + 1)
<1>1. PICK f : Placed(w, q, S, m, f)
  BY DEF KeptOf
<1>2. f \in [1..Len(w) -> 1..m + 1]
  BY <1>1 DEF Placed
<1>3. \A p \in 1..m + 1 : q[p] \in S => p \in 1..m
  OBVIOUS
<1>4. Placed(w, q, S, m + 1, f)
  BY <1>1, <1>2, <1>3 DEF Placed
<1>5. Len(w) <= m + 1
  BY DEF KeptOf
<1> QED BY <1>4, <1>5 DEF KeptOf

(* What is kept, and where it was.                                         *)
LEMMA KeepPlaces ==
  ASSUME NEW E, NEW q \in Seq(E), NEW S
  PROVE  /\ Keep(q, S) \in Seq(E \cap S)
         /\ KeptOf(Keep(q, S), q, S, Len(q))
<1>1. PICK k : /\ Keep(q, S) = k[Len(q)] /\ k[0] = << >>
               /\ \A i \in 1..Len(q) :
                    k[i] = IF q[i] \in S THEN Append(k[i - 1], q[i]) ELSE k[i - 1]
  BY KeepWalk
<1> DEFINE N == {m \in 0..Len(q) : k[m] \in Seq(E \cap S) /\ KeptOf(k[m], q, S, m)}
<1>2. Len(q) \in Nat
  OBVIOUS
<1>3. 0 \in N
  <2>1. k[0] \in Seq(E \cap S) /\ Len(k[0]) = 0 /\ 1..0 = {}
    BY <1>1
  <2>2. Placed(k[0], q, S, 0, << >>)
    BY <2>1 DEF Placed
  <2> QED BY <1>2, <2>1, <2>2 DEF KeptOf
<1>4. ASSUME NEW n \in 0..Len(q) - 1, n \in N PROVE n + 1 \in N
  <2>1. n \in Nat /\ n + 1 \in 1..Len(q) /\ q[n + 1] \in E /\ n + 1 - 1 = n
    BY <1>2
  <2>2. k[n + 1] = IF q[n + 1] \in S THEN Append(k[n], q[n + 1]) ELSE k[n]
    BY <1>1, <2>1
  <2>3. k[n] \in Seq(E \cap S) /\ k[n] \in Seq(E) /\ KeptOf(k[n], q, S, n)
    BY <1>4
  <2>4. CASE q[n + 1] \notin S
    <3>1. k[n + 1] = k[n] BY <2>2, <2>4
    <3>2. KeptOf(k[n], q, S, n + 1) BY <2>1, <2>3, <2>4, PlacedSame
    <3> QED BY <1>2, <2>1, <2>3, <3>1, <3>2
  <2>5. CASE q[n + 1] \in S
    <3>1. k[n + 1] = Append(k[n], q[n + 1]) BY <2>2, <2>5
    <3>2. KeptOf(Append(k[n], q[n + 1]), q, S, n + 1) BY <2>1, <2>3, <2>5, PlacedMore
    <3>3. Append(k[n], q[n + 1]) \in Seq(E \cap S)
      <4>1. q[n + 1] \in E \cap S BY <2>1, <2>5
      <4> QED BY <4>1, <2>3, AppendProperties
    <3>4. k[n + 1] \in Seq(E \cap S) /\ KeptOf(k[n + 1], q, S, n + 1)
      BY <3>1, <3>2, <3>3
    <3>5. n + 1 \in 0..Len(q)
      BY <1>2, <2>1
    <3> QED BY <3>4, <3>5
  <2> QED BY <2>4, <2>5
<1> HIDE DEF N
<1>5. Len(q) \in N
  <2>1. 0..Len(q) \subseteq N BY <1>2, <1>3, <1>4, Induction
  <2> QED BY <1>2, <2>1
<1> QED BY <1>1, <1>5 DEF N

(* What is kept, as a set; and once only if it was there once only.        *)
LEMMA KeepSet ==
  ASSUME NEW E, NEW q \in Seq(E), NEW S
  PROVE  ToSet(Keep(q, S)) = ToSet(q) \cap S
<1>1. PICK w : w = Keep(q, S)
  OBVIOUS
<1>2. w \in Seq(E \cap S) /\ KeptOf(w, q, S, Len(q))
  BY <1>1, KeepPlaces
<1>3. PICK f : Placed(w, q, S, Len(q), f)
  BY <1>2 DEF KeptOf
<1>4. ASSUME NEW e \in ToSet(w) PROVE e \in ToSet(q) \cap S
  <2>1. PICK i \in 1..Len(w) : w[i] = e
    BY <1>2 DEF ToSet
  <2>2. f[i] \in 1..Len(q) /\ q[f[i]] = e
    BY <1>3, <2>1 DEF Placed
  <2>3. e \in E \cap S
    BY <1>2, <2>1, ElementOfSeq
  <2> QED BY <2>2, <2>3 DEF ToSet
<1>5. ASSUME NEW e \in ToSet(q) \cap S PROVE e \in ToSet(w)
  <2>1. PICK p \in 1..Len(q) : q[p] = e
    BY DEF ToSet
  <2>2. PICK i \in 1..Len(w) : f[i] = p
    BY <1>3, <2>1 DEF Placed
  <2>3. w[i] = e
    BY <1>3, <2>1, <2>2 DEF Placed
  <2> QED BY <2>2, <2>3 DEF ToSet
<1> QED BY <1>1, <1>4, <1>5

LEMMA KeepInjective ==
  ASSUME NEW E, NEW q \in Seq(E), NEW S, IsInjective(q)
  PROVE  Keep(q, S) \in Seq(E) /\ IsInjective(Keep(q, S))
<1>1. PICK w : w = Keep(q, S)
  OBVIOUS
<1>2. w \in Seq(E \cap S) /\ KeptOf(w, q, S, Len(q))
  BY <1>1, KeepPlaces
<1>3. PICK f : Placed(w, q, S, Len(q), f)
  BY <1>2 DEF KeptOf
<1>4. ASSUME NEW i \in 1..Len(w), NEW j \in 1..Len(w), w[i] = w[j] PROVE i = j
  <2>1. f[i] \in 1..Len(q) /\ f[j] \in 1..Len(q) /\ q[f[i]] = q[f[j]]
    BY <1>3, <1>4 DEF Placed
  <2>2. f[i] = f[j]
    BY <2>1 DEF IsInjective
  <2>3. i < j => f[i] < f[j]
    BY <1>3 DEF Placed
  <2>4. j < i => f[j] < f[i]
    BY <1>3 DEF Placed
  <2> QED BY <1>2, <2>1, <2>2, <2>3, <2>4
<1>5. DOMAIN w = 1..Len(w) /\ w \in Seq(E)
  BY <1>2
<1> QED BY <1>1, <1>4, <1>5 DEF IsInjective

-----------------------------------------------------------------------------
(* r is q without its p-th element.                                        *)
Without(q, p, r) ==
  /\ Len(r) = Len(q) - 1
  /\ \A i \in 1..Len(r) : r[i] = IF i < p THEN q[i] ELSE q[i + 1]

(* It makes no difference to lose an element that is not kept.             *)
LEMMA KeepWithout ==
  ASSUME NEW E, NEW q \in Seq(E), NEW S, NEW p \in 1..Len(q), q[p] \notin S,
         NEW r \in Seq(E), Without(q, p, r)
  PROVE  Keep(r, S) = Keep(q, S)
<1>1. PICK k : /\ Keep(q, S) = k[Len(q)] /\ k[0] = << >>
               /\ \A i \in 1..Len(q) :
                    k[i] = IF q[i] \in S THEN Append(k[i - 1], q[i]) ELSE k[i - 1]
  BY KeepWalk
<1>2. PICK h : /\ Keep(r, S) = h[Len(r)] /\ h[0] = << >>
               /\ \A i \in 1..Len(r) :
                    h[i] = IF r[i] \in S THEN Append(h[i - 1], r[i]) ELSE h[i - 1]
  BY KeepWalk
<1>3. Len(q) \in Nat /\ Len(r) = Len(q) - 1 /\ Len(r) \in Nat /\ p \in 1..Len(r) + 1
  BY DEF Without
<1> DEFINE N == {m \in 0..Len(r) : h[m] = k[IF m < p THEN m ELSE m + 1]}
<1>4. 0 \in N
  BY <1>1, <1>2, <1>3
<1>5. ASSUME NEW n \in 0..Len(r) - 1, n \in N PROVE n + 1 \in N
  <2>1. n + 1 \in 1..Len(r) /\ n \in Nat /\ n + 1 - 1 = n /\ n + 2 - 1 = n + 1
    BY <1>3
  <2>2. h[n + 1] = IF r[n + 1] \in S THEN Append(h[n], r[n + 1]) ELSE h[n]
    BY <1>2, <2>1
  <2>3. CASE n + 1 < p
    <3>1. r[n + 1] = q[n + 1] /\ n + 1 \in 1..Len(q) /\ n < p
      BY <2>1, <2>3, <1>3 DEF Without
    <3>2. k[n + 1] = IF q[n + 1] \in S THEN Append(k[n], q[n + 1]) ELSE k[n]
      BY <1>1, <2>1, <3>1
    <3>3. h[n] = k[n] BY <1>5, <3>1
    <3> QED BY <2>1, <2>2, <2>3, <3>1, <3>2, <3>3
  <2>4. CASE ~(n + 1 < p)
    <3>1. r[n + 1] = q[n + 2] /\ n + 2 \in 1..Len(q)
      <4>1. n + 1 + 1 = n + 2 BY <2>1
      <4> QED BY <2>1, <2>4, <4>1, <1>3 DEF Without
    <3>2. k[n + 2] = IF q[n + 2] \in S THEN Append(k[n + 1], q[n + 2]) ELSE k[n + 1]
      BY <1>1, <2>1, <3>1
    <3>3. h[n] = k[n + 1]
      <4>1. CASE n < p
        <5>1. p = n + 1 BY <4>1, <2>1, <2>4, <1>3
        <5>2. k[n + 1] = k[n] BY <5>1, <1>1, <2>1
        <5> QED BY <1>5, <4>1, <5>2
      <4>2. CASE ~(n < p) BY <1>5, <4>2
      <4> QED BY <4>1, <4>2
    <3>4. n + 1 + 1 = n + 2 BY <2>1
    <3> QED BY <2>1, <2>2, <2>4, <3>1, <3>2, <3>3, <3>4
  <2> QED BY <2>3, <2>4
<1> HIDE DEF N
<1>6. Len(r) \in N
  <2>1. 0..Len(r) \subseteq N BY <1>3, <1>4, <1>5, Induction
  <2> QED BY <1>3, <2>1
<1>7. h[Len(r)] = k[IF Len(r) < p THEN Len(r) ELSE Len(r) + 1]
  BY <1>6 DEF N
<1>8. CASE Len(r) < p
  <2>1. p = Len(q) BY <1>3, <1>8
  <2>2. k[Len(q)] = k[Len(q) - 1] BY <1>1, <2>1
  <2> QED BY <1>1, <1>2, <1>3, <1>7, <1>8, <2>2
<1>9. CASE ~(Len(r) < p)
  <2>1. Len(r) + 1 = Len(q) BY <1>3
  <2> QED BY <1>1, <1>2, <1>7, <1>9, <2>1
<1> QED BY <1>8, <1>9

(* w is the list of the first m elements of q.                             *)
Prefix(w, q, m) == Len(w) = m /\ \A i \in 1..m : w[i] = q[i]

(* A list of which everything is kept stays as it is.                      *)
LEMMA KeepAll ==
  ASSUME NEW E, NEW q \in Seq(E), NEW S, \A i \in 1..Len(q) : q[i] \in S
  PROVE  Keep(q, S) = q
<1>1. PICK k : /\ Keep(q, S) = k[Len(q)] /\ k[0] = << >>
               /\ \A i \in 1..Len(q) :
                    k[i] = IF q[i] \in S THEN Append(k[i - 1], q[i]) ELSE k[i - 1]
  BY KeepWalk
<1> DEFINE N == {m \in 0..Len(q) : k[m] \in Seq(E) /\ Prefix(k[m], q, m)}
<1>2. Len(q) \in Nat
  OBVIOUS
<1>3. 0 \in N
  <2>1. k[0] \in Seq(E) /\ Len(k[0]) = 0 /\ 1..0 = {}
    BY <1>1
  <2> QED BY <1>2, <2>1 DEF Prefix
<1>4. ASSUME NEW n \in 0..Len(q) - 1, n \in N PROVE n + 1 \in N
  <2>1. n \in Nat /\ n + 1 \in 1..Len(q) /\ q[n + 1] \in E /\ n + 1 - 1 = n
    BY <1>2
  <2>2. k[n] \in Seq(E) /\ Len(k[n]) = n /\ \A i \in 1..n : k[n][i] = q[i]
    BY <1>4 DEF Prefix
  <2>3. q[n + 1] \in S
    BY <2>1
  <2>4. k[n + 1] = Append(k[n], q[n + 1])
    <3>1. k[n + 1] = IF q[n + 1] \in S THEN Append(k[n], q[n + 1]) ELSE k[n]
      BY <1>1, <2>1
    <3> QED BY <3>1, <2>3
  <2>5. /\ k[n + 1] \in Seq(E) /\ Len(k[n + 1]) = n + 1 /\ k[n + 1][n + 1] = q[n + 1]
        /\ \A i \in 1..n : k[n + 1][i] = k[n][i]
    BY <2>1, <2>2, <2>4
  <2>6. \A i \in 1..n + 1 : i \in 1..n \/ i = n + 1
    BY <2>1
  <2>7. Prefix(k[n + 1], q, n + 1)
    BY <2>2, <2>5, <2>6 DEF Prefix
  <2> QED BY <1>2, <2>1, <2>5, <2>7
<1> HIDE DEF N
<1>5. Len(q) \in N
  <2>1. 0..Len(q) \subseteq N BY <1>2, <1>3, <1>4, Induction
  <2> QED BY <1>2, <2>1
<1>6. k[Len(q)] \in Seq(E) /\ Prefix(k[Len(q)], q, Len(q))
  BY <1>5 DEF N
<1> QED BY <1>1, <1>6, SeqEqual DEF Prefix

-----------------------------------------------------------------------------
(* s is the walk of Total over the first m elements of q.                  *)
IsTotal(s, q, w, m) ==
  s = [i \in 0..m |-> IF i = 0 THEN 0 ELSE s[i - 1] + w[q[i]]]

LEMMA TotalExists ==
  ASSUME NEW E, NEW q \in Seq(E), NEW w
  PROVE  \E s : IsTotal(s, q, w, Len(q))
<1> DEFINE N == {m \in 0..Len(q) : \E s : IsTotal(s, q, w, m)}
<1>1. Len(q) \in Nat
  OBVIOUS
<1>2. 0 \in N
  <2>1. IsTotal([i \in 0..0 |-> 0], q, w, 0)
    BY DEF IsTotal
  <2> QED BY <1>1, <2>1
<1>3. ASSUME NEW n \in 0..Len(q) - 1, n \in N PROVE n + 1 \in N
  <2>1. PICK s : IsTotal(s, q, w, n)
    BY <1>3
  <2> DEFINE h == [i \in 0..n + 1 |-> IF i = n + 1 THEN s[n] + w[q[i]] ELSE s[i]]
  <2>2. \A i \in 0..n : h[i] = s[i] /\ i \in 0..n + 1
    OBVIOUS
  <2>3. ASSUME NEW i \in 0..n + 1
        PROVE  h[i] = IF i = 0 THEN 0 ELSE h[i - 1] + w[q[i]]
    <3>1. CASE i = n + 1
      <4>1. i # 0 /\ i - 1 = n /\ n \in 0..n BY <3>1
      <4> QED BY <3>1, <4>1, <2>2
    <3>2. CASE i # n + 1
      <4>1. i \in 0..n /\ h[i] = s[i] BY <3>2, <2>2
      <4>2. s[i] = IF i = 0 THEN 0 ELSE s[i - 1] + w[q[i]]
        BY <2>1, <4>1 DEF IsTotal
      <4>3. i # 0 => h[i - 1] = s[i - 1] BY <4>1, <2>2
      <4> HIDE DEF h
      <4> QED BY <4>1, <4>2, <4>3
    <3> QED BY <3>1, <3>2
  <2>4. h = [i \in 0..n + 1 |-> h[i]]
    OBVIOUS
  <2> HIDE DEF h
  <2>5. IsTotal(h, q, w, n + 1)
    BY <2>3, <2>4 DEF IsTotal
  <2> QED BY <2>5, <1>1
<1> HIDE DEF N
<1>4. 0..Len(q) \subseteq N
  BY <1>1, <1>2, <1>3, Induction
<1>5. Len(q) \in N
  BY <1>1, <1>4
<1> QED BY <1>5 DEF N

LEMMA TotalWalk ==
  ASSUME NEW E, NEW q \in Seq(E), NEW w
  PROVE  \E s : /\ Total(q, w) = s[Len(q)] /\ s[0] = 0
                /\ \A i \in 1..Len(q) : s[i] = s[i - 1] + w[q[i]]
<1> DEFINE s == CHOOSE s : IsTotal(s, q, w, Len(q))
<1>1. IsTotal(s, q, w, Len(q))
  BY TotalExists
<1>2. Total(q, w) = s[Len(q)]
  BY DEF Total, IsTotal
<1> HIDE DEF s
<1>3. Len(q) \in Nat
  OBVIOUS
<1>4. s[0] = 0
  BY <1>1, <1>3 DEF IsTotal
<1>5. ASSUME NEW i \in 1..Len(q)
      PROVE  s[i] = s[i - 1] + w[q[i]]
  <2>1. i \in 0..Len(q) /\ i # 0 BY <1>3
  <2> QED BY <1>1, <2>1 DEF IsTotal
<1> QED BY <1>2, <1>4, <1>5

(* A list of numbers in Nat has a sum in Nat.                              *)
LEMMA TotalType ==
  ASSUME NEW E, NEW q \in Seq(E), NEW w \in [E -> Nat]
  PROVE  \E s \in [0..Len(q) -> Nat] :
           /\ Total(q, w) = s[Len(q)] /\ s[0] = 0
           /\ \A i \in 1..Len(q) : s[i] = s[i - 1] + w[q[i]]
<1>1. PICK s : /\ Total(q, w) = s[Len(q)] /\ s[0] = 0
               /\ \A i \in 1..Len(q) : s[i] = s[i - 1] + w[q[i]]
  BY TotalWalk
<1> DEFINE N == {m \in 0..Len(q) : s[m] \in Nat}
<1>2. Len(q) \in Nat
  OBVIOUS
<1>3. 0 \in N
  BY <1>1, <1>2
<1>4. ASSUME NEW n \in 0..Len(q) - 1, n \in N PROVE n + 1 \in N
  <2>1. n + 1 \in 1..Len(q) /\ n + 1 \in 0..Len(q) /\ n + 1 - 1 = n /\ s[n] \in Nat
    BY <1>2, <1>4
  <2>2. w[q[n + 1]] \in Nat
    BY <2>1
  <2>3. s[n + 1] = s[n] + w[q[n + 1]]
    BY <1>1, <2>1
  <2> QED BY <2>1, <2>2, <2>3
<1>5. 0..Len(q) \subseteq N
  <2> HIDE DEF N
  <2> QED BY <1>2, <1>3, <1>4, Induction
<1> DEFINE r == [i \in 0..Len(q) |-> s[i]]
<1>6. r \in [0..Len(q) -> Nat]
  BY <1>5
<1>7. r[Len(q)] = s[Len(q)] /\ r[0] = s[0]
  BY <1>2
<1>8. \A i \in 1..Len(q) : r[i] = s[i] /\ r[i - 1] = s[i - 1]
  BY <1>2
<1> HIDE DEF r
<1>9. \A i \in 1..Len(q) : r[i] = r[i - 1] + w[q[i]]
  BY <1>1, <1>8
<1> QED BY <1>1, <1>6, <1>7, <1>9

LEMMA TotalEmpty ==
  ASSUME NEW w
  PROVE  Total(<< >>, w) = 0
<1>1. << >> \in Seq({0}) /\ Len(<< >>) = 0
  OBVIOUS
<1> QED BY <1>1, TotalWalk

LEMMA Swap == \A a, b, c \in Nat : (a + b) + c = (a + c) + b
  OBVIOUS

(* Losing one element takes its number off the sum.                        *)
LEMMA TotalWithout ==
  ASSUME NEW E, NEW q \in Seq(E), NEW w \in [E -> Nat], NEW p \in 1..Len(q),
         NEW r \in Seq(E), Without(q, p, r)
  PROVE  Total(q, w) = Total(r, w) + w[q[p]]
<1>1. PICK s \in [0..Len(q) -> Nat] :
        /\ Total(q, w) = s[Len(q)] /\ s[0] = 0
        /\ \A i \in 1..Len(q) : s[i] = s[i - 1] + w[q[i]]
  BY TotalType
<1>2. PICK h \in [0..Len(r) -> Nat] :
        /\ Total(r, w) = h[Len(r)] /\ h[0] = 0
        /\ \A i \in 1..Len(r) : h[i] = h[i - 1] + w[r[i]]
  BY TotalType
<1>3. /\ Len(q) \in Nat /\ Len(r) = Len(q) - 1 /\ Len(r) \in Nat /\ p \in 1..Len(r) + 1
      /\ w[q[p]] \in Nat
  BY DEF Without
<1>4. PICK c \in Nat : c = w[q[p]]
  BY <1>3
<1> DEFINE N == {m \in 0..Len(r) : /\ m < p => h[m] = s[m]
                                   /\ ~(m < p) => s[m + 1] = h[m] + c}
<1>5. 0 \in N
  BY <1>1, <1>2, <1>3
<1>6. ASSUME NEW n \in 0..Len(r) - 1, n \in N PROVE n + 1 \in N
  <2>1. /\ n + 1 \in 1..Len(r) /\ n \in 0..Len(r) /\ n + 1 - 1 = n /\ n + 2 - 1 = n + 1
        /\ n + 1 \in 1..Len(q) /\ n \in 0..Len(q) /\ n + 2 \in 1..Len(q) /\ n + 1 + 1 = n + 2
    BY <1>3
  <2>2. h[n + 1] = h[n] + w[r[n + 1]] /\ h[n] \in Nat /\ w[r[n + 1]] \in Nat
    <3>1. r[n + 1] \in E BY <2>1
    <3>2. h[n + 1] = h[n + 1 - 1] + w[r[n + 1]] BY <1>2, <2>1
    <3>3. h[n] \in Nat BY <2>1
    <3> QED BY <2>1, <3>1, <3>2, <3>3
  <2>9. w[q[n + 1]] \in Nat /\ w[q[n + 2]] \in Nat
    <3>1. q[n + 1] \in E /\ q[n + 2] \in E BY <2>1
    <3> QED BY <3>1
  <2>3. s[n + 1] = s[n] + w[q[n + 1]] /\ s[n + 1] \in Nat /\ s[n] \in Nat /\ w[q[n + 1]] \in Nat
    <3>1. n \in 0..Len(q) /\ n + 1 \in 0..Len(q) BY <2>1, <1>3
    <3>2. s[n + 1] = s[n + 1 - 1] + w[q[n + 1]] BY <1>1, <2>1
    <3>3. s[n] \in Nat /\ s[n + 1] \in Nat BY <3>1
    <3> QED BY <2>1, <2>9, <3>2, <3>3
  <2>4. s[n + 2] = s[n + 1] + w[q[n + 2]] /\ w[q[n + 2]] \in Nat
    <3>1. s[n + 2] = s[n + 2 - 1] + w[q[n + 2]] BY <1>1, <2>1
    <3> QED BY <2>1, <2>9, <3>1
  <2>5. CASE n + 1 < p
    <3>1. r[n + 1] = q[n + 1] BY <2>1, <2>5, <1>3 DEF Without
    <3>2. h[n] = s[n] BY <1>6, <2>1, <2>5
    <3>3. h[n + 1] = s[n + 1] BY <3>1, <3>2, <2>2, <2>3
    <3> QED BY <2>1, <2>5, <3>3
  <2>6. CASE ~(n + 1 < p)
    <3>1. r[n + 1] = q[n + 2] BY <2>1, <2>6, <1>3 DEF Without
    <3>2. s[n + 1] = h[n] + c
      <4>1. CASE n < p
        <5>1. p = n + 1 BY <4>1, <2>1, <2>6, <1>3
        <5>2. h[n] = s[n] BY <4>1, <1>6
        <5> QED BY <5>1, <5>2, <2>3, <1>4
      <4>2. CASE ~(n < p) BY <1>6, <4>2
      <4> QED BY <4>1, <4>2
    <3>3. s[n + 2] = h[n + 1] + c
      <4>1. s[n + 2] = (h[n] + c) + w[q[n + 2]] BY <3>2, <2>4
      <4>2. h[n + 1] = h[n] + w[q[n + 2]] BY <3>1, <2>2
      <4>3. (h[n] + c) + w[q[n + 2]] = (h[n] + w[q[n + 2]]) + c BY <2>2, <2>9, Swap
      <4> QED BY <4>1, <4>2, <4>3
    <3> QED BY <2>1, <2>6, <3>3
  <2> QED BY <2>5, <2>6
<1>7. Len(r) \in N
  <2> HIDE DEF N
  <2>1. 0..Len(r) \subseteq N BY <1>3, <1>5, <1>6, Induction
  <2>2. Len(r) \in 0..Len(r) BY <1>3
  <2> QED BY <2>1, <2>2
<1>8. CASE Len(r) < p
  <2>1. p = Len(q) /\ p - 1 = Len(r) BY <1>3, <1>8
  <2>2. s[p] = s[p - 1] + w[q[p]] BY <1>1
  <2>3. h[Len(r)] = s[Len(r)] BY <1>7, <1>8
  <2> QED BY <1>1, <1>2, <2>1, <2>2, <2>3
<1>9. CASE ~(Len(r) < p)
  <2>1. Len(r) + 1 = Len(q) BY <1>3
  <2>2. s[Len(r) + 1] = h[Len(r)] + c BY <1>7, <1>9
  <2>3. s[Len(q)] = h[Len(r)] + c BY <2>1, <2>2
  <2>4. Total(q, w) = s[Len(q)] /\ Total(r, w) = h[Len(r)] BY <1>1, <1>2
  <2>5. Total(q, w) = Total(r, w) + c BY <2>3, <2>4
  <2> QED BY <1>4, <2>5
<1> QED BY <1>8, <1>9

(* The sum reads the numbers of the list's elements only.                  *)
LEMMA TotalSame ==
  ASSUME NEW E, NEW q \in Seq(E), NEW w, NEW v,
         \A i \in 1..Len(q) : w[q[i]] = v[q[i]]
  PROVE  Total(q, w) = Total(q, v)
<1>1. PICK s : /\ Total(q, w) = s[Len(q)] /\ s[0] = 0
               /\ \A i \in 1..Len(q) : s[i] = s[i - 1] + w[q[i]]
  BY TotalWalk
<1>2. PICK h : /\ Total(q, v) = h[Len(q)] /\ h[0] = 0
               /\ \A i \in 1..Len(q) : h[i] = h[i - 1] + v[q[i]]
  BY TotalWalk
<1> DEFINE N == {m \in 0..Len(q) : s[m] = h[m]}
<1>3. Len(q) \in Nat
  OBVIOUS
<1>4. 0 \in N
  BY <1>1, <1>2, <1>3
<1>5. ASSUME NEW n \in 0..Len(q) - 1, n \in N PROVE n + 1 \in N
  <2>1. n + 1 \in 1..Len(q) /\ n + 1 - 1 = n /\ n + 1 \in 0..Len(q) BY <1>3
  <2>2. s[n + 1] = s[n] + w[q[n + 1]] BY <1>1, <2>1
  <2>3. h[n + 1] = h[n] + v[q[n + 1]] BY <1>2, <2>1
  <2>4. w[q[n + 1]] = v[q[n + 1]] BY <2>1
  <2> QED BY <1>5, <2>1, <2>2, <2>3, <2>4
<1>6. Len(q) \in N
  <2> HIDE DEF N
  <2>1. 0..Len(q) \subseteq N BY <1>3, <1>4, <1>5, Induction
  <2> QED BY <1>3, <2>1
<1> QED BY <1>1, <1>2, <1>6

-----------------------------------------------------------------------------
(* The ways in which the code makes a list shorter or longer by one.       *)
LEMMA WithoutHead ==
  ASSUME NEW E, NEW q \in Seq(E), q # << >>
  PROVE  1 \in 1..Len(q) /\ q[1] = Head(q) /\ Tail(q) \in Seq(E) /\ Without(q, 1, Tail(q))
<1>1. Len(q) \in Nat /\ Len(q) # 0 /\ Tail(q) \in Seq(E) /\ Len(Tail(q)) = Len(q) - 1
  OBVIOUS
<1>2. \A i \in 1..Len(Tail(q)) : Tail(q)[i] = q[i + 1] /\ ~(i < 1)
  OBVIOUS
<1> QED BY <1>1, <1>2 DEF Without

LEMMA WithoutLast ==
  ASSUME NEW E, NEW q \in Seq(E), NEW e \in E
  PROVE  /\ Append(q, e) \in Seq(E) /\ Len(q) + 1 \in 1..Len(Append(q, e))
         /\ Append(q, e)[Len(q) + 1] = e /\ Without(Append(q, e), Len(q) + 1, q)
<1>1. PICK r : r = Append(q, e)
  OBVIOUS
<1>2. /\ Len(q) \in Nat /\ r \in Seq(E) /\ Len(r) = Len(q) + 1 /\ r[Len(q) + 1] = e
      /\ \A i \in 1..Len(q) : r[i] = q[i]
  BY <1>1
<1>3. Len(q) = Len(r) - 1 /\ Len(q) + 1 \in 1..Len(r)
  BY <1>2
<1>4. \A i \in 1..Len(q) : i < Len(q) + 1
  BY <1>2
<1>5. Without(r, Len(q) + 1, q)
  BY <1>2, <1>3, <1>4 DEF Without
<1> QED BY <1>1, <1>2, <1>3, <1>5

LEMMA WithoutFirst ==
  ASSUME NEW E, NEW q \in Seq(E), NEW e \in E
  PROVE  /\ <<e>> \o q \in Seq(E) /\ 1 \in 1..Len(<<e>> \o q)
         /\ (<<e>> \o q)[1] = e /\ Without(<<e>> \o q, 1, q)
<1>1. PICK r : r = <<e>> \o q
  OBVIOUS
<1>2. /\ Len(q) \in Nat /\ r \in Seq(E) /\ Len(r) = Len(q) + 1 /\ r[1] = e
      /\ \A i \in 1..Len(q) : r[i + 1] = q[i] /\ ~(i < 1)
  BY <1>1
<1>3. Len(q) = Len(r) - 1 /\ 1 \in 1..Len(r)
  BY <1>2
<1>4. Without(r, 1, q)
  BY <1>2, <1>3 DEF Without
<1> QED BY <1>1, <1>2, <1>3, <1>4

LEMMA TotalTail ==
  ASSUME NEW E, NEW q \in Seq(E), q # << >>, NEW w \in [E -> Nat]
  PROVE  Total(q, w) = Total(Tail(q), w) + w[Head(q)]
<1>1. PICK r \in Seq(E) : r = Tail(q)
  BY WithoutHead
<1>2. 1 \in 1..Len(q) /\ q[1] = Head(q) /\ Without(q, 1, r)
  BY <1>1, WithoutHead
<1>3. Total(q, w) = Total(r, w) + w[q[1]]
  BY <1>2, TotalWithout
<1> QED BY <1>1, <1>2, <1>3

LEMMA TotalAppend ==
  ASSUME NEW E, NEW q \in Seq(E), NEW e \in E, NEW w \in [E -> Nat]
  PROVE  Total(Append(q, e), w) = Total(q, w) + w[e]
<1>1. PICK r \in Seq(E) : r = Append(q, e)
  BY WithoutLast
<1>2. PICK p \in 1..Len(r) : r[p] = e /\ Without(r, p, q)
  BY <1>1, WithoutLast
<1> QED BY <1>1, <1>2, TotalWithout

LEMMA TotalPrepend ==
  ASSUME NEW E, NEW q \in Seq(E), NEW e \in E, NEW w \in [E -> Nat]
  PROVE  Total(<<e>> \o q, w) = Total(q, w) + w[e]
<1>1. PICK r \in Seq(E) : r = <<e>> \o q
  BY WithoutFirst
<1>2. PICK p \in 1..Len(r) : r[p] = e /\ Without(r, p, q)
  BY <1>1, WithoutFirst
<1> QED BY <1>1, <1>2, TotalWithout

LEMMA TotalNat ==
  ASSUME NEW E, NEW q \in Seq(E), NEW w \in [E -> Nat]
  PROVE  Total(q, w) \in Nat
<1>1. Len(q) \in 0..Len(q)
  OBVIOUS
<1>2. PICK s \in [0..Len(q) -> Nat] : Total(q, w) = s[Len(q)]
  BY TotalType
<1> QED BY <1>1, <1>2

(* Elements with the number 0 may be dropped from a sum.                   *)
LEMMA TotalKeep ==
  ASSUME NEW E, NEW q \in Seq(E), NEW S, NEW w \in [E -> Nat],
         \A e \in E \ S : w[e] = 0
  PROVE  Total(Keep(q, S), w) = Total(q, w)
<1>1. PICK k : /\ Keep(q, S) = k[Len(q)] /\ k[0] = << >>
               /\ \A i \in 1..Len(q) :
                    k[i] = IF q[i] \in S THEN Append(k[i - 1], q[i]) ELSE k[i - 1]
  BY KeepWalk
<1>2. PICK s \in [0..Len(q) -> Nat] :
        /\ Total(q, w) = s[Len(q)] /\ s[0] = 0
        /\ \A i \in 1..Len(q) : s[i] = s[i - 1] + w[q[i]]
  BY TotalType
<1> DEFINE N == {m \in 0..Len(q) : k[m] \in Seq(E) /\ Total(k[m], w) = s[m]}
<1>3. Len(q) \in Nat
  OBVIOUS
<1>4. 0 \in N
  <2>1. k[0] \in Seq(E) /\ Total(k[0], w) = 0 /\ s[0] = 0
    BY <1>1, <1>2, TotalEmpty
  <2> QED BY <1>3, <2>1
<1>5. ASSUME NEW n \in 0..Len(q) - 1, n \in N PROVE n + 1 \in N
  <2>1. n + 1 \in 1..Len(q) /\ n + 1 - 1 = n /\ n + 1 \in 0..Len(q) /\ q[n + 1] \in E
    BY <1>3
  <2>2. k[n] \in Seq(E) /\ Total(k[n], w) = s[n] /\ s[n] \in Nat
    BY <1>2, <1>3, <1>5
  <2>3. s[n + 1] = s[n] + w[q[n + 1]]
    BY <1>2, <2>1
  <2>4. k[n + 1] = IF q[n + 1] \in S THEN Append(k[n], q[n + 1]) ELSE k[n]
    BY <1>1, <2>1
  <2>5. CASE q[n + 1] \in S
    <3>1. k[n + 1] = Append(k[n], q[n + 1]) /\ k[n + 1] \in Seq(E)
      BY <2>1, <2>2, <2>4, <2>5
    <3>2. Total(Append(k[n], q[n + 1]), w) = Total(k[n], w) + w[q[n + 1]]
      BY <2>1, <2>2, TotalAppend
    <3> QED BY <2>1, <2>2, <2>3, <3>1, <3>2
  <2>6. CASE q[n + 1] \notin S
    <3>1. k[n + 1] = k[n] /\ w[q[n + 1]] = 0
      BY <2>1, <2>4, <2>6
    <3> QED BY <2>1, <2>2, <2>3, <3>1
  <2> QED BY <2>5, <2>6
<1>6. Len(q) \in N
  <2> HIDE DEF N
  <2>1. 0..Len(q) \subseteq N BY <1>3, <1>4, <1>5, Induction
  <2> QED BY <1>3, <2>1
<1> QED BY <1>1, <1>2, <1>6
=============================================================================
