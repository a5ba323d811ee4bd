---------------------------- MODULE Lists_proofs ----------------------------
(***************************************************************************)
(* Lemmas about lists that the proofs of the components share: what is     *)
(* found at a set of positions, and what the folds of the community        *)
(* modules give, along the prefixes of a sequence.  Both take the place of *)
(* an induction over lists.                                                *)
(***************************************************************************)
EXTENDS Lists, SequencesExt, FiniteSetTheorems, SequenceTheorems, WellFoundedInduction, TLAPS

LEMMA LeastOf ==
  ASSUME NEW S \in SUBSET Nat, S # {}
  PROVE  \E n \in S : \A i \in S : n <= i
<1>1. \E n \in S : \A i \in S : ~(<<i, n>> \in OpToRel(<, Nat))
  BY NatLessThanWellFounded, WFMin, Zenon
<1>2. ASSUME NEW i \in Nat, NEW n \in Nat PROVE i < n => <<i, n>> \in OpToRel(<, Nat)
  BY DEF OpToRel
<1>3. \E n \in S : \A i \in S : ~(i < n)
  BY <1>1, <1>2, Zenon
<1> QED
  BY <1>3

LEMMA GreatestOf ==
  ASSUME NEW N \in Nat, NEW S, S # {}, \A i \in S : i \in Nat /\ i <= N
  PROVE  \E n \in S : \A i \in S : i <= n
<1>1. PICK T : T = {N - i : i \in S}
  OBVIOUS
<1>2. T \in SUBSET Nat /\ T # {}
  BY <1>1
<1>3. PICK t \in T : \A i \in T : t <= i
  BY <1>2, LeastOf
<1>4. PICK n \in S : t = N - n
  BY <1>1
<1>5. ASSUME NEW i \in S PROVE i <= n
  <2>1. N - i \in T
    BY <1>1
  <2>2. N - n <= N - i
    BY <2>1, <1>3, <1>4
  <2> QED
    BY <2>2
<1> QED
  BY <1>4, <1>5

(* Induction over the prefixes of a sequence, for a set of lengths.         *)
LEMMA PrefixInduction ==
  ASSUME NEW N \in Nat, NEW S, 0 \in S, \A n \in 1 .. N : n - 1 \in S => n \in S
  PROVE  \A n \in 0 .. N : n \in S
<1>1. PICK B : B = {n \in 0 .. N : n \notin S}
  OBVIOUS
<1> SUFFICES ASSUME B # {} PROVE FALSE
  BY <1>1
<1>5. B \in SUBSET Nat
  BY <1>1
<1>2. PICK n \in B : \A i \in B : n <= i
  BY <1>5, LeastOf, Zenon
<1>3. n \in 1 .. N /\ n - 1 \in 0 .. N
  BY <1>1, <1>2
<1>4. n - 1 \notin B
  BY <1>2, <1>3
<1> QED
  BY <1>1, <1>2, <1>3, <1>4

LEMMA LastIsMax == \A n \in Nat : \A t \in SUBSET (1 .. n) : n \in t => Max(t) = n
<1> SUFFICES ASSUME NEW n \in Nat, NEW t \in SUBSET (1 .. n), n \in t PROVE Max(t) = n
  OBVIOUS
<1>1. \A y \in t : n >= y
  OBVIOUS
<1>2. \A x \in t : (\A y \in t : x >= y) => x = n
  OBVIOUS
<1> QED
  BY <1>1, <1>2 DEF Max

LEMMA PrefixStep == \A n \in Nat \ {0} : Max(1 .. n) = n /\ (1 .. n) \ {n} = 1 .. (n - 1) /\ 1 .. n # {}
<1> SUFFICES ASSUME NEW n \in Nat \ {0} PROVE Max(1 .. n) = n /\ (1 .. n) \ {n} = 1 .. (n - 1) /\ 1 .. n # {}
  OBVIOUS
<1>1. n \in 1 .. n
  OBVIOUS
<1> QED
  BY <1>1, LastIsMax

FoldsBy(N, V, base, step) ==
  {f \in [SUBSET (1 .. N) -> V] :
     \A t \in SUBSET (1 .. N) : f[t] = IF t = {} THEN base ELSE step[Max(t)][f[t \ {Max(t)}]]}
RunsOf(N, V, base, step) == {p \in [0 .. N -> V] : p[0] = base /\ \A n \in 1 .. N : p[n] = step[n][p[n - 1]]}

(* A fold of the community modules is a function of the sets of positions;  *)
(* there is one, whatever is folded.                                        *)
LEMMA FoldExists ==
  ASSUME NEW N \in Nat, NEW V, NEW base \in V, NEW step \in [1 .. N -> [V -> V]]
  PROVE  FoldsBy(N, V, base, step) # {}
<1>1. PICK Good : Good = {n \in 0 .. N : \E f \in [SUBSET (1 .. n) -> V] :
           \A t \in SUBSET (1 .. n) : f[t] = IF t = {} THEN base ELSE step[Max(t)][f[t \ {Max(t)}]]}
  OBVIOUS
<1>2. 0 \in Good
  <2>1. PICK f : f = [t \in SUBSET (1 .. 0) |-> base]
    OBVIOUS
  <2>2. \A t \in SUBSET (1 .. 0) : t = {}
    OBVIOUS
  <2>3. f \in [SUBSET (1 .. 0) -> V] /\ \A t \in SUBSET (1 .. 0) : f[t] = base
    BY <2>1
  <2>4. \E h \in [SUBSET (1 .. 0) -> V] :
           \A t \in SUBSET (1 .. 0) : h[t] = IF t = {} THEN base ELSE step[Max(t)][h[t \ {Max(t)}]]
    BY <2>2, <2>3, Zenon
  <2>5. 0 \in 0 .. N
    OBVIOUS
  <2> QED
    BY <1>1, <2>4, <2>5, Zenon
<1>3. ASSUME NEW n \in 1 .. N, n - 1 \in Good PROVE n \in Good
  <2>1. PICK f \in [SUBSET (1 .. (n - 1)) -> V] :
           \A t \in SUBSET (1 .. (n - 1)) : f[t] = IF t = {} THEN base ELSE step[Max(t)][f[t \ {Max(t)}]]
    BY <1>1, <1>3
  <2>2. \A t \in SUBSET (1 .. n) : t \ {n} \in SUBSET (1 .. (n - 1)) /\ (n \notin t => t \in SUBSET (1 .. (n - 1)))
    OBVIOUS
  <2>3. PICK g : g = [t \in SUBSET (1 .. n) |-> IF n \in t THEN step[n][f[t \ {n}]] ELSE f[t]]
    OBVIOUS
  <2>4. g \in [SUBSET (1 .. n) -> V]
    BY <2>2, <2>3
  <2>5. ASSUME NEW t \in SUBSET (1 .. n)
        PROVE  g[t] = IF t = {} THEN base ELSE step[Max(t)][g[t \ {Max(t)}]]
    <3>1. CASE n \in t
      <4>1. Max(t) = n
        BY <3>1, LastIsMax
      <4>2. g[t \ {n}] = f[t \ {n}]
        BY <2>3
      <4> QED
        BY <2>3, <3>1, <4>1, <4>2
    <3>2. CASE n \notin t
      <4>1. t \in SUBSET (1 .. (n - 1)) /\ g[t] = f[t]
        BY <2>2, <2>3, <3>2
      <4>2. CASE t = {}
        BY <2>1, <4>1, <4>2
      <4>3. CASE t # {}
        <5>1. t \ {Max(t)} \in SUBSET (1 .. (n - 1)) /\ n \notin t \ {Max(t)} /\ t \ {Max(t)} \in SUBSET (1 .. n)
          BY <3>2, <4>1
        <5>2. g[t \ {Max(t)}] = f[t \ {Max(t)}]
          BY <2>3, <5>1
        <5> QED
          BY <2>1, <4>1, <4>3, <5>2
      <4> QED
        BY <4>2, <4>3
    <3> QED
      BY <3>1, <3>2
  <2>6. \E h \in [SUBSET (1 .. n) -> V] :
           \A t \in SUBSET (1 .. n) : h[t] = IF t = {} THEN base ELSE step[Max(t)][h[t \ {Max(t)}]]
    BY <2>4, <2>5, Zenon
  <2>7. n \in 0 .. N
    OBVIOUS
  <2> QED
    BY <1>1, <2>6, <2>7, Zenon
<1>5. \A n \in 1 .. N : n - 1 \in Good => n \in Good
  BY <1>3
<1>6. \A n \in 0 .. N : n \in Good
  BY <1>2, <1>5, PrefixInduction
<1>7. N \in Good
  BY <1>6
<1>8. \E f \in [SUBSET (1 .. N) -> V] :
           \A t \in SUBSET (1 .. N) : f[t] = IF t = {} THEN base ELSE step[Max(t)][f[t \ {Max(t)}]]
  BY <1>1, <1>7
<1> QED
  BY <1>8 DEF FoldsBy
LEMMA MaxIn == ASSUME NEW N \in Nat PROVE \A t \in SUBSET (1 .. N) : t # {} => Max(t) \in t
<1> SUFFICES ASSUME NEW t \in SUBSET (1 .. N), t # {} PROVE Max(t) \in t
  OBVIOUS
<1>1. PICK T : T = {N - i : i \in t}
  OBVIOUS
<1>2. T \in SUBSET Nat /\ T # {}
  <2>1. \A i \in t : N - i \in Nat
    OBVIOUS
  <2> QED
    BY <1>1, <2>1
<1>3. PICK k \in T : \A i \in T : k <= i
  BY <1>2, LeastOf
<1>4. PICK n \in t : k = N - n
  BY <1>1
<1>5. ASSUME NEW i \in t PROVE n >= i
  <2>1. N - i \in T
    BY <1>1
  <2>2. N - n <= N - i
    BY <2>1, <1>3, <1>4
  <2> QED
    BY <2>2
<1> QED
  BY <1>4, <1>5 DEF Max

(* What such a function is on all the positions is what the steps make of   *)
(* the base one after the other.                                            *)
LEMMA FoldRun ==
  ASSUME NEW N \in Nat, NEW V, NEW base \in V, NEW step \in [1 .. N -> [V -> V]], NEW iter,
         iter[{}] = base,
         \A t \in SUBSET (1 .. N) : t # {} /\ iter[t \ {Max(t)}] \in V => iter[t] = step[Max(t)][iter[t \ {Max(t)}]]
  PROVE  iter[1 .. N] \in {p[N] : p \in RunsOf(N, V, base, step)}
<1>1. \A n \in 1 .. N : 1 .. n \in SUBSET (1 .. N) /\ 1 .. n # {} /\ Max(1 .. n) = n /\ (1 .. n) \ {n} = 1 .. (n - 1)
  BY PrefixStep
<1>2. \A n \in 1 .. N : iter[1 .. (n - 1)] \in V => iter[1 .. n] = step[n][iter[1 .. (n - 1)]]
  <2> SUFFICES ASSUME NEW n \in 1 .. N, iter[1 .. (n - 1)] \in V PROVE iter[1 .. n] = step[n][iter[1 .. (n - 1)]]
    OBVIOUS
  <2>1. PICK t : t = 1 .. n
    OBVIOUS
  <2>2. t \in SUBSET (1 .. N) /\ t # {} /\ Max(t) = n /\ t \ {Max(t)} = 1 .. (n - 1)
    BY <1>1, <2>1
  <2>3. iter[t] = step[n][iter[t \ {Max(t)}]]
    BY <2>2
  <2> QED
    BY <2>1, <2>2, <2>3
<1>3. PICK S : S = {n \in 0 .. N : iter[1 .. n] \in V}
  OBVIOUS
<1>4. 1 .. 0 = {}
  OBVIOUS
<1>5. 0 \in S
  BY <1>3, <1>4
<1>6. \A n \in 1 .. N : n - 1 \in S => n \in S
  BY <1>2, <1>3
<1>7. \A n \in 0 .. N : n \in S
  BY <1>5, <1>6, PrefixInduction
<1>8. \A n \in 0 .. N : iter[1 .. n] \in V
  BY <1>3, <1>7
<1>9. PICK p : p = [n \in 0 .. N |-> iter[1 .. n]]
  OBVIOUS
<1>10. p \in [0 .. N -> V] /\ p[0] = base /\ p[N] = iter[1 .. N]
  BY <1>4, <1>8, <1>9
<1>11. \A n \in 1 .. N : p[n] = step[n][p[n - 1]]
  BY <1>2, <1>8, <1>9
<1>12. p \in RunsOf(N, V, base, step)
  BY <1>10, <1>11 DEF RunsOf
<1> QED
  BY <1>10, <1>12

---------------------------------------------------------------------------
(* The n-th of the items at some positions is at the position with n of     *)
(* them at or before it.                                                    *)
LEMMA Ranks ==
  ASSUME NEW n \in Nat, NEW at \in SUBSET (1..n)
  PROVE  /\ IsFiniteSet(at) /\ Cardinality(at) \in Nat
         /\ at = {} <=> Cardinality(at) = 0
         /\ \A i \in at : Cardinality({j \in at : j <= i}) \in 1..Cardinality(at)
         /\ \A i \in at : \A k \in at :
              Cardinality({j \in at : j <= i}) = Cardinality({j \in at : j <= k}) => i = k
         /\ \A k \in 1..Cardinality(at) : \E i \in at : Cardinality({j \in at : j <= i}) = k
<1> DEFINE Upto(i) == {j \in at : j <= i}
           N == Cardinality(at)
           f == [i \in at |-> Cardinality(Upto(i))]
<1>1. IsFiniteSet(at) /\ N \in Nat
  <2>1. IsFiniteSet(1..n)
    BY FS_Interval
  <2>2. IsFiniteSet(at)
    BY <2>1, FS_Subset
  <2> QED
    BY <2>2, FS_CardinalityType
<1>2. at = {} <=> N = 0
  BY <1>1, FS_EmptySet
<1>3. ASSUME NEW i \in at PROVE IsFiniteSet(Upto(i)) /\ Cardinality(Upto(i)) \in 1..N
  <2>1. Upto(i) \in SUBSET at
    OBVIOUS
  <2>2. IsFiniteSet(Upto(i)) /\ Cardinality(Upto(i)) <= N
    BY <2>1, <1>1, FS_Subset
  <2>3. Cardinality(Upto(i)) \in Nat
    BY <2>2, FS_CardinalityType
  <2>4. i \in Upto(i)
    OBVIOUS
  <2>5. Upto(i) # {}
    BY <2>4
  <2>6. Cardinality(Upto(i)) # 0
    BY <2>2, <2>5, FS_EmptySet
  <2> HIDE DEF Upto
  <2> QED
    BY <2>2, <2>3, <2>6, <1>1
<1>4. ASSUME NEW i \in at, NEW k \in at, i < k PROVE Cardinality(Upto(i)) # Cardinality(Upto(k))
  <2>0. at \subseteq Int
    OBVIOUS
  <2>1. Upto(i) \in SUBSET Upto(k) /\ k \notin Upto(i) /\ k \in Upto(k)
    <3>1. i \in Int /\ k \in Int
      BY <2>0
    <3>2. \A j \in Upto(i) : j \in Upto(k)
      BY <1>4, <2>0, <3>1
    <3>3. ~(k <= i) /\ k <= k
      BY <1>4, <3>1
    <3> QED
      BY <3>2, <3>3
  <2>2. IsFiniteSet(Upto(k))
    BY <1>3
  <2>3. Upto(k) # Upto(i)
    BY <2>1
  <2> HIDE DEF Upto
  <2> QED
    BY <2>1, <2>2, <2>3, FS_Subset
<1>5. ASSUME NEW i \in at, NEW k \in at, Cardinality(Upto(i)) = Cardinality(Upto(k)) PROVE i = k
  <2>1. i < k \/ k < i \/ i = k
    OBVIOUS
  <2> HIDE DEF Upto
  <2> QED
    BY <2>1, <1>4, <1>5
<1> HIDE DEF Upto
<1>6. f \in Injection(at, 1..N)
  <2>1. f \in [at -> 1..N]
    BY <1>3
  <2>2. \A i \in at : f[i] = Cardinality(Upto(i))
    OBVIOUS
  <2>3. \A i \in at : \A k \in at : f[i] = f[k] => i = k
    BY <2>2, <1>5
  <2> HIDE DEF f, N
  <2> QED
    BY <2>1, <2>3 DEF Injection, IsInjective
<1>7. IsFiniteSet(1..N) /\ Cardinality(1..N) = N
  BY <1>1, FS_Interval
<1>8. f \in Surjection(at, 1..N)
  BY <1>6, <1>7, FS_Injection
<1>9. \A k \in 1..N : \E i \in at : f[i] = k
  BY <1>8 DEF Surjection
<1>10. \A k \in 1..N : \E i \in at : Cardinality(Upto(i)) = k
  BY <1>9
<1> QED
  BY <1>1, <1>2, <1>3, <1>5, <1>10 DEF Upto

LEMMA ItemsThere ==
  ASSUME NEW S, NEW list \in Seq(S), NEW at \in SUBSET (1..Len(list))
  PROVE  /\ ItemsAt(list, at) \in Seq(S)
         /\ Len(ItemsAt(list, at)) = Cardinality(at)
         /\ \A k \in 1..Len(ItemsAt(list, at)) : \E i \in at : ItemsAt(list, at)[k] = list[i]
         /\ \A i \in at : \E k \in 1..Len(ItemsAt(list, at)) : ItemsAt(list, at)[k] = list[i]
         /\ ItemsAt(list, at) = <<>> <=> at = {}
<1> DEFINE Count(i) == Cardinality({j \in at : j <= i})
           N == Cardinality(at)
           Pos(k) == CHOOSE i \in at : Count(i) = k
<1>1. Len(list) \in Nat
  OBVIOUS
<1>2. /\ N \in Nat
      /\ at = {} <=> N = 0
      /\ \A i \in at : Count(i) \in 1..N
      /\ \A i \in at : \A k \in at : Count(i) = Count(k) => i = k
      /\ \A k \in 1..N : \E i \in at : Count(i) = k
  BY <1>1, Ranks
<1>3. ItemsAt(list, at) = [k \in 1..N |-> list[Pos(k)]]
  BY DEF ItemsAt
<1> HIDE DEF Count, N
<1>4. ASSUME NEW k \in 1..N PROVE Pos(k) \in at /\ Count(Pos(k)) = k
  BY <1>2
<1>5. ASSUME NEW i \in at PROVE Count(i) \in 1..N /\ Pos(Count(i)) = i
  BY <1>2, <1>4
<1> HIDE DEF Pos
<1>0. \A i \in 1..Len(list) : list[i] \in S
  OBVIOUS
<1>6. \A k \in 1..N : list[Pos(k)] \in S
  BY <1>0, <1>4
<1>7. ItemsAt(list, at) \in Seq(S) /\ Len(ItemsAt(list, at)) = N
  BY <1>2, <1>3, <1>6
<1>8. \A k \in 1..N : ItemsAt(list, at)[k] = list[Pos(k)]
  BY <1>3
<1>9. ItemsAt(list, at) = <<>> <=> N = 0
  BY <1>7
<1> QED
  BY <1>2, <1>4, <1>5, <1>7, <1>8, <1>9 DEF N

(* The positions themselves, one for each item.                             *)
Placed(list, at, pos) ==
  /\ pos \in [1 .. Cardinality(at) -> at]
  /\ ItemsAt(list, at) = [k \in 1 .. Cardinality(at) |-> list[pos[k]]]
  /\ \A k, m \in 1 .. Cardinality(at) : pos[k] = pos[m] => k = m
  /\ \A i \in at : \E k \in 1 .. Cardinality(at) : pos[k] = i

LEMMA ItemsPlaced ==
  ASSUME NEW n \in Nat, NEW list, NEW at \in SUBSET (1 .. n)
  PROVE  \E pos : Placed(list, at, pos)
<1> DEFINE Count(i) == Cardinality({j \in at : j <= i})
           N == Cardinality(at)
           Pos(k) == CHOOSE i \in at : Count(i) = k
<1>2. /\ \A i \in at : Count(i) \in 1 .. N
      /\ \A i \in at : \A k \in at : Count(i) = Count(k) => i = k
      /\ \A k \in 1 .. N : \E i \in at : Count(i) = k
  BY Ranks
<1>3. ItemsAt(list, at) = [k \in 1 .. N |-> list[Pos(k)]]
  BY DEF ItemsAt
<1> HIDE DEF Count, N
<1>4. ASSUME NEW k \in 1 .. N PROVE Pos(k) \in at /\ Count(Pos(k)) = k
  BY <1>2
<1>5. ASSUME NEW i \in at PROVE Count(i) \in 1 .. N /\ Pos(Count(i)) = i
  BY <1>2, <1>4
<1> HIDE DEF Pos
<1>6. PICK pos : pos = [k \in 1 .. N |-> Pos(k)]
  OBVIOUS
<1>7. pos \in [1 .. N -> at] /\ \A k \in 1 .. N : pos[k] = Pos(k)
  BY <1>4, <1>6
<1>8. ItemsAt(list, at) = [k \in 1 .. N |-> list[pos[k]]]
  BY <1>3, <1>7
<1>9. ASSUME NEW k \in 1 .. N, NEW m \in 1 .. N, pos[k] = pos[m] PROVE k = m
  BY <1>4, <1>7, <1>9
<1>10. ASSUME NEW i \in at PROVE \E k \in 1 .. N : pos[k] = i
  BY <1>5, <1>7
<1> QED
  BY <1>7, <1>8, <1>9, <1>10 DEF N, Placed

---------------------------------------------------------------------------
(* Lists of lists put together                                              *)

LEMMA RunExists ==
  ASSUME NEW N \in Nat, NEW V, NEW base \in V, NEW step \in [1 .. N -> [V -> V]]
  PROVE  RunsOf(N, V, base, step) # {}
<1>1. PICK iter : iter \in FoldsBy(N, V, base, step)
  BY FoldExists
<1>2. /\ iter \in [SUBSET (1 .. N) -> V]
      /\ \A t \in SUBSET (1 .. N) : iter[t] = IF t = {} THEN base ELSE step[Max(t)][iter[t \ {Max(t)}]]
  BY <1>1 DEF FoldsBy
<1>3. iter[{}] = base
  BY <1>2
<1>4. \A t \in SUBSET (1 .. N) : t # {} /\ iter[t \ {Max(t)}] \in V => iter[t] = step[Max(t)][iter[t \ {Max(t)}]]
  BY <1>2
<1>5. iter[1 .. N] \in {p[N] : p \in RunsOf(N, V, base, step)}
  BY <1>3, <1>4, FoldRun
<1> QED
  BY <1>5

LEMMA FlattenRun ==
  ASSUME NEW S, NEW seqs \in Seq(Seq(S))
  PROVE  \E p \in [0 .. Len(seqs) -> Seq(S)] :
           /\ p[0] = <<>>
           /\ \A n \in 1 .. Len(seqs) : p[n] = p[n - 1] \o seqs[n]
           /\ p[Len(seqs)] = FlattenSeq(seqs)
<1>1. PICK N : N = Len(seqs) /\ N \in Nat
  OBVIOUS
<1>2. \A n \in 1 .. N : seqs[n] \in Seq(S)
  BY <1>1
<1>3. PICK V : V = Seq(S)
  OBVIOUS
<1>4. PICK step : step = [n \in 1 .. N |-> [v \in V |-> v \o seqs[n]]]
  OBVIOUS
<1>5. step \in [1 .. N -> [V -> V]] /\ <<>> \in V
  <2>1. \A n \in 1 .. N : \A v \in V : v \o seqs[n] \in V
    BY <1>2, <1>3
  <2> QED
    BY <1>3, <1>4, <2>1
<1>6. PICK p \in [0 .. N -> V] : p[0] = <<>> /\ \A n \in 1 .. N : p[n] = step[n][p[n - 1]]
  <2>0. N \in Nat
    BY <1>1
  <2>1. RunsOf(N, V, <<>>, step) # {}
    BY <1>5, <2>0, RunExists, Zenon
  <2> QED
    BY <2>1 DEF RunsOf
<1>7. \A n \in 1 .. N : n - 1 \in 0 .. N
  BY <1>1
<1>8. \A n \in 1 .. N : p[n] = p[n - 1] \o seqs[n]
  BY <1>4, <1>6, <1>7
<1>9. CASE N = 0
  <2>1. FlattenSeq(seqs) = <<>>
    <3>0. seqs \in Seq(V) /\ Len(seqs) = 0
      BY <1>1, <1>3, <1>9
    <3>1. Len(seqs) = 0 /\ seqs = <<>>
      BY <3>0
    <3>2. FlattenSeq(seqs) = seqs
      BY <3>1, Zenon DEF FlattenSeq
    <3> QED
      BY <3>1, <3>2
  <2>2. p[N] = FlattenSeq(seqs)
    BY <1>6, <1>9, <2>1
  <2> QED
    BY <1>1, <1>3, <1>6, <1>8, <2>2
<1>10. CASE N # 0
  <2>1. PICK flatten : flatten = CHOOSE f : f = [i \in 1 .. N |-> IF i = 1 THEN seqs[i] ELSE f[i - 1] \o seqs[i]]
    OBVIOUS
  <2>2. FlattenSeq(seqs) = flatten[N]
    BY <1>1, <1>10, <2>1 DEF FlattenSeq
  <2>3. PICK g : g = [i \in 1 .. N |-> p[i]]
    OBVIOUS
  <2>4. \A i \in 1 .. N : p[i] = IF i = 1 THEN seqs[i] ELSE g[i - 1] \o seqs[i]
    <3> SUFFICES ASSUME NEW i \in 1 .. N PROVE p[i] = IF i = 1 THEN seqs[i] ELSE g[i - 1] \o seqs[i]
      OBVIOUS
    <3>1. CASE i = 1
      <4>0. p[1] = p[1 - 1] \o seqs[1]
        BY <1>8, <3>1
      <4>a. 1 - 1 = 0
        OBVIOUS
      <4>1. p[1] = <<>> \o seqs[1]
        BY <1>6, <4>0, <4>a, Zenon
      <4>2. seqs[1] \in Seq(S)
        BY <1>2, <3>1
      <4> QED
        BY <3>1, <4>1, <4>2
    <3>2. CASE i # 1
      <4>1. i - 1 \in 1 .. N
        BY <1>1, <3>2
      <4> QED
        BY <1>8, <2>3, <3>2, <4>1
    <3> QED
      BY <3>1, <3>2
  <2>5. g = [i \in 1 .. N |-> IF i = 1 THEN seqs[i] ELSE g[i - 1] \o seqs[i]]
    BY <2>3, <2>4
  <2>6. flatten = [i \in 1 .. N |-> IF i = 1 THEN seqs[i] ELSE flatten[i - 1] \o seqs[i]]
    BY <2>1, <2>5
  <2>7. PICK Good : Good = {i \in 0 .. N : i = 0 \/ flatten[i] = p[i]}
    OBVIOUS
  <2>8. 0 \in Good
    BY <1>1, <2>7
  <2>9. \A i \in 1 .. N : i - 1 \in Good => i \in Good
    <3> SUFFICES ASSUME NEW i \in 1 .. N, i - 1 \in Good PROVE flatten[i] = p[i]
      BY <2>7
    <3>1. CASE i = 1
      BY <2>4, <2>6, <3>1
    <3>2. CASE i # 1
      <4>1. i - 1 \in 1 .. N
        BY <1>1, <3>2
      <4>2. flatten[i - 1] = p[i - 1]
        BY <2>7, <4>1
      <4> QED
        BY <1>8, <2>6, <3>2, <4>2
    <3> QED
      BY <3>1, <3>2
  <2>10. \A i \in 0 .. N : i \in Good
    BY <1>1, <2>8, <2>9, PrefixInduction
  <2>11. flatten[N] = p[N]
    BY <1>1, <1>10, <2>7, <2>10
  <2> QED
    BY <1>1, <1>3, <1>6, <1>8, <2>2, <2>11
<1> QED
  BY <1>9, <1>10

LEMMA ConcatSet ==
  ASSUME NEW L, NEW p \in Seq(L), NEW q \in Seq(L)
  PROVE  p \o q \in Seq(L) /\ ToSet(p \o q) = ToSet(p) \cup ToSet(q)
<1>1. PICK r : r = p \o q OBVIOUS
<1>2. /\ r \in Seq(L) /\ Len(p) \in Nat /\ Len(q) \in Nat
      /\ DOMAIN p = 1 .. Len(p) /\ DOMAIN q = 1 .. Len(q) /\ DOMAIN r = 1 .. (Len(p) + Len(q))
      /\ \A i \in 1 .. Len(p) : r[i] = p[i]
      /\ \A i \in 1 .. Len(q) : r[Len(p) + i] = q[i]
  BY <1>1
<1>3. ASSUME NEW x \in ToSet(r) PROVE x \in ToSet(p) \cup ToSet(q)
  <2>1. PICK i \in 1 .. (Len(p) + Len(q)) : x = r[i] BY <1>2, <1>3 DEF ToSet
  <2>2. CASE i \in 1 .. Len(p) BY <1>2, <2>1, <2>2 DEF ToSet
  <2>3. CASE i \notin 1 .. Len(p)
    <3>1. i - Len(p) \in 1 .. Len(q) /\ i = Len(p) + (i - Len(p)) BY <1>2, <2>3
    <3>2. x = q[i - Len(p)] BY <1>2, <2>1, <3>1
    <3> QED BY <1>2, <3>1, <3>2 DEF ToSet
  <2> QED BY <2>2, <2>3
<1>4. ASSUME NEW x \in ToSet(p) PROVE x \in ToSet(r)
  <2>1. PICK i \in 1 .. Len(p) : x = p[i] BY <1>2, <1>4 DEF ToSet
  <2>2. i \in DOMAIN r /\ r[i] = x BY <1>2, <2>1
  <2> QED BY <2>2 DEF ToSet
<1>5. ASSUME NEW x \in ToSet(q) PROVE x \in ToSet(r)
  <2>1. PICK i \in 1 .. Len(q) : x = q[i] BY <1>2, <1>5 DEF ToSet
  <2>2. Len(p) + i \in DOMAIN r /\ r[Len(p) + i] = x BY <1>2, <2>1
  <2> QED BY <2>2 DEF ToSet
<1> QED BY <1>1, <1>2, <1>3, <1>4, <1>5

LEMMA FlattenThere ==
  ASSUME NEW S, NEW seqs \in Seq(Seq(S))
  PROVE  /\ FlattenSeq(seqs) \in Seq(S)
         /\ ToSet(FlattenSeq(seqs)) = UNION {ToSet(seqs[i]) : i \in 1 .. Len(seqs)}
<1>1. PICK N : N = Len(seqs) /\ N \in Nat
  OBVIOUS
<1>2. \A n \in 1 .. N : seqs[n] \in Seq(S)
  BY <1>1
<1>3. PICK p \in [0 .. N -> Seq(S)] :
           p[0] = <<>> /\ (\A n \in 1 .. N : p[n] = p[n - 1] \o seqs[n]) /\ p[N] = FlattenSeq(seqs)
  BY <1>1, FlattenRun
<1>4. PICK Good : Good = {n \in 0 .. N : ToSet(p[n]) = UNION {ToSet(seqs[i]) : i \in 1 .. n}}
  OBVIOUS
<1>5. 0 \in Good
  <2>1. ToSet(p[0]) = {}
    BY <1>3 DEF ToSet
  <2> QED
    BY <1>1, <1>4, <2>1
<1>6. ASSUME NEW n \in 1 .. N, n - 1 \in Good PROVE n \in Good
  <2>1. n - 1 \in 0 .. N /\ n \in 0 .. N
    BY <1>1
  <2>2. p[n - 1] \in Seq(S) /\ seqs[n] \in Seq(S) /\ p[n] = p[n - 1] \o seqs[n]
    BY <1>2, <1>3, <2>1
  <2>3. ToSet(p[n]) = ToSet(p[n - 1]) \cup ToSet(seqs[n])
    BY <2>2, ConcatSet
  <2>4. ToSet(p[n - 1]) = UNION {ToSet(seqs[i]) : i \in 1 .. (n - 1)}
    BY <1>4, <1>6
  <2>5. 1 .. n = (1 .. (n - 1)) \cup {n}
    BY <1>1
  <2>6. UNION {ToSet(seqs[i]) : i \in 1 .. n} = (UNION {ToSet(seqs[i]) : i \in 1 .. (n - 1)}) \cup ToSet(seqs[n])
    BY <2>5
  <2> QED
    BY <1>4, <2>1, <2>3, <2>4, <2>6
<1>7. \A n \in 0 .. N : n \in Good
  <2>1. \A n \in 1 .. N : n - 1 \in Good => n \in Good
    BY <1>6
  <2> QED
    BY <1>1, <1>5, <2>1, PrefixInduction
<1>8. ToSet(p[N]) = UNION {ToSet(seqs[i]) : i \in 1 .. N}
  BY <1>1, <1>4, <1>7
<1> QED
  BY <1>1, <1>3, <1>8

(* A list, whatever is in it.                                               *)
IsList(s) == s \in Seq(ToSet(s))

LEMMA ListIs ==
  ASSUME NEW n \in Nat, NEW s, s = [i \in 1 .. n |-> s[i]]
  PROVE  IsList(s) /\ Len(s) = n /\ DOMAIN s = 1 .. n /\ (s = <<>> <=> n = 0)
<1>1. PICK S : S = ToSet(s)
  OBVIOUS
<1>2. DOMAIN s = 1 .. n
  OBVIOUS
<1>3. \A i \in 1 .. n : s[i] \in S
  BY <1>1, <1>2 DEF ToSet
<1>4. s \in Seq(S) /\ Len(s) = n
  BY <1>3
<1> QED
  BY <1>1, <1>2, <1>4 DEF IsList

LEMMA ListFacts ==
  ASSUME NEW s, IsList(s)
  PROVE  /\ Len(s) \in Nat /\ DOMAIN s = 1 .. Len(s) /\ s = [i \in 1 .. Len(s) |-> s[i]]
         /\ s = <<>> <=> Len(s) = 0
<1>1. PICK S : S = ToSet(s)
  OBVIOUS
<1>2. s \in Seq(S)
  BY <1>1 DEF IsList
<1> QED
  BY <1>2

LEMMA SeqIsList == ASSUME NEW S, NEW s \in Seq(S) PROVE IsList(s)
<1>1. PICK n : n = Len(s) /\ n \in Nat
  OBVIOUS
<1>2. s = [i \in 1 .. n |-> s[i]]
  BY <1>1
<1> QED
  BY <1>1, <1>2, ListIs

(* The items of a list at some positions, the first at the least of them.   *)
LEMMA ItemsOf ==
  ASSUME NEW list, IsList(list), NEW at \in SUBSET (DOMAIN list)
  PROVE  /\ IsList(ItemsAt(list, at)) /\ Len(ItemsAt(list, at)) = Cardinality(at)
         /\ DOMAIN ItemsAt(list, at) = 1 .. Cardinality(at) /\ Cardinality(at) \in Nat
         /\ ItemsAt(list, at) = <<>> <=> at = {}
         /\ \A k \in DOMAIN ItemsAt(list, at) : \E i \in at : ItemsAt(list, at)[k] = list[i]
         /\ \A i \in at : \E k \in DOMAIN ItemsAt(list, at) : ItemsAt(list, at)[k] = list[i]
<1>1. PICK n : n = Len(list) /\ n \in Nat /\ DOMAIN list = 1 .. n
  BY ListFacts
<1>2. at \in SUBSET (1 .. n)
  BY <1>1
<1>3. PICK pos : Placed(list, at, pos)
  BY <1>1, <1>2, ItemsPlaced
<1>4. Cardinality(at) \in Nat /\ (at = {} <=> Cardinality(at) = 0)
  BY <1>1, <1>2, Ranks
<1>5. PICK r : r = ItemsAt(list, at)
  OBVIOUS
<1>6. r = [k \in 1 .. Cardinality(at) |-> r[k]] /\ \A k \in 1 .. Cardinality(at) : r[k] = list[pos[k]]
  BY <1>3, <1>5 DEF Placed
<1>7. IsList(r) /\ Len(r) = Cardinality(at) /\ DOMAIN r = 1 .. Cardinality(at) /\ (r = <<>> <=> Cardinality(at) = 0)
  BY <1>4, <1>6, ListIs
<1> QED
  BY <1>3, <1>4, <1>5, <1>6, <1>7 DEF Placed

LEMMA FirstItem ==
  ASSUME NEW list, IsList(list), NEW at \in SUBSET (DOMAIN list), at # {}
  PROVE  \E i \in at : ItemsAt(list, at)[1] = list[i] /\ \A j \in at : i <= j
<1> DEFINE Upto(i) == {j \in at : j <= i}
           Pos(k) == CHOOSE i \in at : Cardinality(Upto(i)) = k
<1>1. PICK n : n = Len(list) /\ n \in Nat /\ DOMAIN list = 1 .. n
  BY ListFacts
<1>2. at \in SUBSET (1 .. n)
  BY <1>1
<1>3. /\ IsFiniteSet(at) /\ Cardinality(at) \in Nat /\ Cardinality(at) # 0
      /\ \A i \in at : Cardinality(Upto(i)) \in 1 .. Cardinality(at)
      /\ \A i \in at : \A k \in at : Cardinality(Upto(i)) = Cardinality(Upto(k)) => i = k
      /\ \A k \in 1 .. Cardinality(at) : \E i \in at : Cardinality(Upto(i)) = k
  BY <1>1, <1>2, Ranks
<1>4. 1 \in 1 .. Cardinality(at)
  BY <1>3
<1>5. Pos(1) \in at /\ Cardinality(Upto(Pos(1))) = 1
  BY <1>3, <1>4
<1>6. ItemsAt(list, at)[1] = list[Pos(1)]
  BY <1>4 DEF ItemsAt
<1> HIDE DEF Pos
<1>7. ASSUME NEW j \in at PROVE Pos(1) <= j
  <2>1. Pos(1) \in Int /\ j \in Int /\ at \subseteq Int
    BY <1>2, <1>5
  <2> SUFFICES ASSUME j < Pos(1) PROVE FALSE
    BY <2>1
  <2>2. Upto(j) \in SUBSET Upto(Pos(1))
    BY <2>1
  <2>3. IsFiniteSet(Upto(Pos(1)))
    <3>1. Upto(Pos(1)) \in SUBSET at
      OBVIOUS
    <3> QED
      BY <1>3, <3>1, FS_Subset
  <2>4. Cardinality(Upto(j)) <= Cardinality(Upto(Pos(1)))
    BY <2>2, <2>3, FS_Subset
  <2> HIDE DEF Upto
  <2>5. Cardinality(Upto(j)) = 1
    BY <1>3, <1>5, <2>4
  <2>6. j = Pos(1)
    BY <1>3, <1>5, <2>5
  <2> QED
    BY <2>1, <2>6
<1> QED
  BY <1>5, <1>6, <1>7

LEMMA AppendIs ==
  ASSUME NEW s, IsList(s), NEW x
  PROVE  /\ IsList(Append(s, x)) /\ DOMAIN Append(s, x) = 1 .. (Len(s) + 1) /\ Len(Append(s, x)) = Len(s) + 1
         /\ Append(s, x)[Len(s) + 1] = x /\ (\A i \in DOMAIN s : Append(s, x)[i] = s[i])
         /\ Append(s, x) # <<>> /\ Last(Append(s, x)) = x
         /\ ToSet(Append(s, x)) = ToSet(s) \cup {x}
<1>1. PICK n : n = Len(s) /\ n \in Nat /\ DOMAIN s = 1 .. n
  BY ListFacts
<1>2. PICK S : S = ToSet(s) \cup {x}
  OBVIOUS
<1>3. s = [i \in 1 .. n |-> s[i]] /\ \A i \in 1 .. n : s[i] \in S
  BY <1>1, <1>2, ListFacts DEF ToSet
<1>4. s \in Seq(S) /\ x \in S
  BY <1>1, <1>2, <1>3
<1>5. PICK r : r = Append(s, x)
  OBVIOUS
<1>6. /\ r \in Seq(S) /\ Len(r) = n + 1 /\ DOMAIN r = 1 .. (n + 1) /\ r[n + 1] = x
      /\ \A i \in 1 .. n : r[i] = s[i]
  BY <1>1, <1>4, <1>5
<1>7. IsList(r)
  BY <1>6, SeqIsList
<1>8. r # <<>> /\ Last(r) = x
  BY <1>1, <1>6 DEF Last
<1>9. ToSet(r) = ToSet(s) \cup {x}
  <2>1. {r[i] : i \in 1 .. (n + 1)} = {s[i] : i \in 1 .. n} \cup {x}
    BY <1>1, <1>6
  <2> QED
    BY <1>1, <1>6, <2>1 DEF ToSet
<1> QED
  BY <1>1, <1>5, <1>6, <1>7, <1>8, <1>9

---------------------------------------------------------------------------
(* A list split by position: as long as the positions are many.             *)

LEMMA Cardinals ==
  ASSUME NEW n \in Nat, NEW S \in SUBSET (1 .. n), NEW T \in SUBSET (1 .. n)
  PROVE  /\ Cardinality(S) \in Nat /\ Cardinality(1 .. n) = n
         /\ S \cap T = {} => Cardinality(S \cup T) = Cardinality(S) + Cardinality(T)
         /\ Cardinality((1 .. n) \ S) = n - Cardinality(S)
<1>1. IsFiniteSet(1 .. n) /\ Cardinality(1 .. n) = n
  BY FS_Interval
<1>2. IsFiniteSet(S) /\ IsFiniteSet(T)
  BY <1>1, FS_Subset
<1>3. Cardinality(S) \in Nat /\ Cardinality(T) \in Nat
  BY <1>2, FS_CardinalityType
<1>4. Cardinality(S \cup T) = Cardinality(S) + Cardinality(T) - Cardinality(S \cap T)
  BY <1>2, FS_Union
<1>5. Cardinality({}) = 0
  BY FS_EmptySet
<1>6. Cardinality((1 .. n) \ S) = Cardinality(1 .. n) - Cardinality((1 .. n) \cap S)
  BY <1>1, FS_Difference
<1>7. (1 .. n) \cap S = S
  OBVIOUS
<1>8. ASSUME S \cap T = {} PROVE Cardinality(S \cup T) = Cardinality(S) + Cardinality(T)
  <2>1. Cardinality(S \cap T) = 0
    BY <1>5, <1>8
  <2> QED
    BY <1>3, <1>4, <2>1
<1> QED
  BY <1>1, <1>3, <1>6, <1>7, <1>8

Together(part, N) == UNION {part[q] : q \in 1 .. N}
Counted(seqs, n, part) ==
  /\ \A q \in 1 .. Len(seqs) : part[q] \in SUBSET (1 .. n) /\ Len(seqs[q]) = Cardinality(part[q])
  /\ \A q, r \in 1 .. Len(seqs) : q # r => part[q] \cap part[r] = {}
LEMMA FlattenCount ==
  ASSUME NEW S, NEW seqs \in Seq(Seq(S)), NEW n \in Nat, NEW part, Counted(seqs, n, part)
  PROVE  Len(FlattenSeq(seqs)) = Cardinality(Together(part, Len(seqs)))
<1> DEFINE Upto(m) == UNION {part[q] : q \in 1 .. m}
<1>1. PICK N : N = Len(seqs) /\ N \in Nat
  OBVIOUS
<1>7. /\ \A q \in 1 .. N : part[q] \in SUBSET (1 .. n) /\ Len(seqs[q]) = Cardinality(part[q]) /\ seqs[q] \in Seq(S)
      /\ \A q, r \in 1 .. N : q # r => part[q] \cap part[r] = {}
  BY <1>1 DEF Counted
<1>2. PICK p \in [0 .. N -> Seq(S)] :
           p[0] = <<>> /\ (\A m \in 1 .. N : p[m] = p[m - 1] \o seqs[m]) /\ p[N] = FlattenSeq(seqs)
  BY <1>1, FlattenRun
<1>3. PICK Good : Good = {m \in 0 .. N : Len(p[m]) = Cardinality(Upto(m))}
  OBVIOUS
<1>4. 0 \in Good
  <2>1. Upto(0) = {}
    OBVIOUS
  <2>2. Cardinality(Upto(0)) = 0
    BY <2>1, FS_EmptySet
  <2>3. Len(p[0]) = 0
    BY <1>2
  <2> QED
    BY <1>1, <1>3, <2>2, <2>3
<1>5. ASSUME NEW m \in 1 .. N, m - 1 \in Good PROVE m \in Good
  <2>1. Upto(m) = Upto(m - 1) \cup part[m]
    <3>1. 1 .. m = 1 .. (m - 1) \cup {m}
      OBVIOUS
    <3> QED
      BY <3>1
  <2>2. Upto(m - 1) \cap part[m] = {}
    <3>1. \A q \in 1 .. (m - 1) : q \in 1 .. N /\ q # m
      BY <1>1
    <3>2. \A q \in 1 .. (m - 1) : part[q] \cap part[m] = {}
      BY <1>7, <3>1
    <3> QED
      BY <3>2
  <2>3. Upto(m - 1) \in SUBSET (1 .. n) /\ part[m] \in SUBSET (1 .. n)
    <3>1. \A q \in 1 .. m : q \in 1 .. N
      BY <1>1
    <3>2. \A q \in 1 .. m : part[q] \in SUBSET (1 .. n)
      BY <1>7, <3>1
    <3> QED
      BY <3>2
  <2> HIDE DEF Upto
  <2>4. Cardinality(Upto(m)) = Cardinality(Upto(m - 1)) + Cardinality(part[m])
    <3>1. PICK before : before = Upto(m - 1)
      OBVIOUS
    <3>2. PICK here : here = part[m]
      OBVIOUS
    <3>3. Cardinality(before \cup here) = Cardinality(before) + Cardinality(here)
      BY <2>2, <2>3, <3>1, <3>2, Cardinals
    <3> QED
      BY <2>1, <3>1, <3>2, <3>3
  <2>5. Len(p[m]) = Len(p[m - 1]) + Len(seqs[m])
    <3>0. m - 1 \in 0 .. N
      BY <1>1
    <3>1. p[m] = p[m - 1] \o seqs[m] /\ p[m - 1] \in Seq(S) /\ seqs[m] \in Seq(S)
      BY <1>2, <1>7, <3>0
    <3> QED
      BY <3>1
  <2>6. Len(p[m - 1]) = Cardinality(Upto(m - 1))
    BY <1>3, <1>5
  <2>7. Len(seqs[m]) = Cardinality(part[m])
    BY <1>7
  <2>8. Len(p[m]) = Cardinality(Upto(m))
    BY <2>4, <2>5, <2>6, <2>7
  <2> QED
    BY <1>1, <1>3, <2>8
<1> HIDE DEF Upto
<1>6. \A m \in 0 .. N : m \in Good
  BY <1>1, <1>4, <1>5, PrefixInduction
<1>8. Len(p[N]) = Cardinality(Upto(N))
  BY <1>1, <1>3, <1>6
<1> QED
  BY <1>1, <1>2, <1>8 DEF Upto, Together

(* The good items among those at some positions are at the good positions   *)
(* among them: as many, and the same.                                       *)
AsMany(items, list, at) ==
  /\ IsList(items) /\ Len(items) = Cardinality(at)
  /\ ToSet(items) = {list[i] : i \in at}
  /\ items = <<>> <=> at = {}
LEMMA ItemsAmong ==
  ASSUME NEW list, IsList(list), NEW at \in SUBSET (DOMAIN list), NEW good \in SUBSET (DOMAIN list),
         NEW own, own = ItemsAt(list, at), NEW those,
         those \in SUBSET (DOMAIN own),
         NEW G, \A i \in at : i \in good <=> list[i] \in G,
         \A k \in DOMAIN own : k \in those <=> own[k] \in G
  PROVE  AsMany(ItemsAt(own, those), list, at \cap good)
<1>1. PICK n : n = Len(list) /\ n \in Nat /\ DOMAIN list = 1 .. n
  BY ListFacts
<1>2. at \in SUBSET (1 .. n)
  BY <1>1
<1>3. PICK pos : Placed(list, at, pos)
  BY <1>1, <1>2, ItemsPlaced
<1>4. PICK N : N = Cardinality(at)
  OBVIOUS
<1>5. /\ pos \in [1 .. N -> at]
      /\ own = [k \in 1 .. N |-> list[pos[k]]]
      /\ \A k, m \in 1 .. N : pos[k] = pos[m] => k = m
      /\ \A i \in at : \E k \in 1 .. N : pos[k] = i
  BY <1>3, <1>4, Zenon DEF Placed
<1>6. IsList(own) /\ N \in Nat /\ DOMAIN own = 1 .. N
  BY <1>4, ItemsOf
<1>7. PICK picked : picked = ItemsAt(own, those)
  OBVIOUS
<1>8. /\ IsList(picked) /\ Len(picked) = Cardinality(those) /\ DOMAIN picked = 1 .. Cardinality(those)
      /\ picked = <<>> <=> those = {}
      /\ \A k \in DOMAIN picked : \E i \in those : picked[k] = own[i]
      /\ \A i \in those : \E k \in DOMAIN picked : picked[k] = own[i]
  BY <1>6, <1>7, ItemsOf
<1>9. \A k \in 1 .. N : k \in those <=> pos[k] \in at \cap good
  BY <1>5, <1>6
<1>10. PICK g : g = [k \in those |-> pos[k]]
  OBVIOUS
<1>11. g \in Bijection(those, at \cap good)
  <2>1. g \in [those -> at \cap good]
    BY <1>6, <1>9, <1>10
  <2>2. \A k, m \in those : g[k] = g[m] => k = m
    BY <1>5, <1>6, <1>10
  <2>3. \A i \in at \cap good : \E k \in those : g[k] = i
    BY <1>5, <1>9, <1>10
  <2> QED
    BY <2>1, <2>2, <2>3 DEF Bijection, Injection, Surjection, IsInjective
<1>12. Cardinality(those) = Cardinality(at \cap good)
  <2>1. IsFiniteSet(those)
    BY <1>6, FS_Interval, FS_Subset
  <2>2. ExistsBijection(those, at \cap good)
    BY <1>11 DEF ExistsBijection
  <2> QED
    BY <2>1, <2>2, FS_Bijection
<1>13. those = {} <=> at \cap good = {}
  BY <1>5, <1>6, <1>9
<1>14. ToSet(picked) = {list[i] : i \in at \cap good}
  <2>1. ASSUME NEW x \in ToSet(picked) PROVE x \in {list[i] : i \in at \cap good}
    <3>1. PICK k \in DOMAIN picked : x = picked[k]
      BY <2>1 DEF ToSet
    <3>2. PICK j \in those : x = own[j]
      BY <1>8, <3>1
    <3>3. x = list[pos[j]] /\ pos[j] \in at \cap good
      BY <1>5, <1>6, <1>9, <3>2
    <3> QED
      BY <3>3
  <2>2. ASSUME NEW i \in at \cap good PROVE list[i] \in ToSet(picked)
    <3>1. PICK j \in 1 .. N : pos[j] = i
      BY <1>5
    <3>2. j \in those /\ own[j] = list[i]
      BY <1>5, <1>9, <3>1
    <3>3. PICK k \in DOMAIN picked : picked[k] = list[i]
      BY <1>8, <3>2
    <3> QED
      BY <3>3 DEF ToSet
  <2> QED
    BY <2>1, <2>2
<1> QED
  BY <1>7, <1>8, <1>12, <1>13, <1>14 DEF AsMany
---------------------------------------------------------------------------
(* What comes before each member of a set, in an order total on it.         *)
Precedes(S, below) ==
    /\ below \in [S -> SUBSET S]
    /\ \A x \in S : x \notin below[x]
    /\ \A x \in S : \A y \in below[x] : below[y] \subseteq below[x]
    /\ \A x \in S : \A y \in S : x # y => x \in below[y] \/ y \in below[x]

\* Finitely many things have finitely many images.
LEMMA ImageFinite ==
  ASSUME NEW S, IsFiniteSet(S), NEW f
  PROVE  IsFiniteSet({f[x] : x \in S})
<1>1. PICK T, g : T = {f[x] : x \in S} /\ g = [x \in S |-> f[x]]
  OBVIOUS
<1>2. g \in Surjection(S, T)
  BY <1>1 DEF Surjection
<1> QED
  BY <1>1, <1>2, FS_Surjection

(* A set in an order: each of its members once, after those before it.      *)
LEMMA OrderIs ==
  ASSUME NEW S, IsFiniteSet(S), NEW below, Precedes(S, below)
  PROVE  \E list \in [1..Cardinality(S) -> S] :
           /\ \A i \in 1..Cardinality(S) : \A x \in S : Cardinality(below[x]) = i - 1 <=> x = list[i]
           /\ \A x \in S : \E i \in 1..Cardinality(S) : x = list[i]
           /\ \A i, k \in 1..Cardinality(S) : i < k => list[i] \in below[list[k]]
           /\ \A i, k \in 1..Cardinality(S) : list[i] = list[k] => i = k
<1> DEFINE N == Cardinality(S)
           rank == [x \in S |-> Cardinality(below[x]) + 1]
           list == [i \in 1..N |-> CHOOSE x \in S : rank[x] = i]
<1>1. N \in Nat /\ IsFiniteSet(1..N) /\ Cardinality(1..N) = N
  BY FS_CardinalityType, FS_Interval
<1>2. ASSUME NEW x \in S PROVE IsFiniteSet(below[x]) /\ Cardinality(below[x]) \in 0..(N - 1)
  <2>1. below[x] \in SUBSET S /\ below[x] # S
    BY DEF Precedes
  <2>2. IsFiniteSet(below[x]) /\ Cardinality(below[x]) <= N /\ Cardinality(below[x]) # N
    BY <2>1, FS_Subset
  <2>3. Cardinality(below[x]) \in Nat
    BY <2>2, FS_CardinalityType
  <2> QED
    BY <1>1, <2>2, <2>3
<1>3. ASSUME NEW x \in S, NEW y \in S, y \in below[x] PROVE Cardinality(below[y]) < Cardinality(below[x])
  <2>1. below[y] \in SUBSET below[x] /\ below[y] # below[x]
    BY <1>3 DEF Precedes
  <2>2. Cardinality(below[y]) <= Cardinality(below[x]) /\ Cardinality(below[y]) # Cardinality(below[x])
    BY <1>2, <2>1, FS_Subset
  <2> QED
    BY <1>1, <1>2, <2>2
<1>4. rank \in [S -> 1..N]
  BY <1>1, <1>2
<1>5. ASSUME NEW x \in S, NEW y \in S, x # y PROVE rank[x] # rank[y]
  <2>1. x \in below[y] \/ y \in below[x]
    BY <1>5 DEF Precedes
  <2> QED
    BY <1>2, <1>3, <2>1
<1>6. \A x \in S : rank[x] = Cardinality(below[x]) + 1 /\ Cardinality(below[x]) \in Nat
  BY <1>2
<1> HIDE DEF rank, N
<1>7. rank \in Injection(S, 1..N)
  BY <1>4, <1>5 DEF Injection, IsInjective
<1>8. rank \in Surjection(S, 1..N)
  BY <1>1, <1>7, FS_Injection DEF N
<1>9. \A i \in 1..N : \E x \in S : rank[x] = i
  BY <1>8 DEF Surjection
<1>10. \A i \in 1..N : list[i] \in S /\ rank[list[i]] = i
  BY <1>9
<1>11. list \in [1..N -> S]
  BY <1>10
<1> HIDE DEF list
<1>12. \A i \in 1..N : \A x \in S : rank[x] = i <=> x = list[i]
  BY <1>5, <1>10
<1>13. \A i \in 1..N : \A x \in S : Cardinality(below[x]) = i - 1 <=> x = list[i]
  BY <1>1, <1>6, <1>12
<1>14. \A x \in S : \E i \in 1..N : x = list[i]
  <2>1. \A x \in S : rank[x] \in 1..N
    BY <1>4
  <2> QED
    BY <1>12, <2>1
<1>15. ASSUME NEW i \in 1..N, NEW k \in 1..N, i < k PROVE list[i] \in below[list[k]]
  <2>1. list[i] \in S /\ list[k] \in S /\ rank[list[i]] = i /\ rank[list[k]] = k
    BY <1>10
  <2>2. list[i] # list[k]
    BY <1>1, <1>15, <2>1
  <2>3. ~(list[k] \in below[list[i]])
    BY <1>1, <1>3, <1>6, <1>15, <2>1
  <2> QED
    BY <2>1, <2>2, <2>3 DEF Precedes
<1>16. \A i, k \in 1..N : list[i] = list[k] => i = k
  BY <1>10
<1> QED
  BY <1>11, <1>13, <1>14, <1>15, <1>16 DEF N
=============================================================================
