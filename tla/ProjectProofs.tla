---------------------------- MODULE ProjectProofs ----------------------------
(***************************************************************************)
(* What holds in a project for any number of sessions: the history of a    *)
(* document is unbroken and never written over, and what is stored stays   *)
(* within the plan (Documents); the plan of tasks is a forest of a few     *)
(* levels, its pendings are dated (PlanTree) and its chart is exact        *)
(* (Gantt); threads, titles, receipts and relations of the backlog are     *)
(* what they say (Backlog) and its order of work respects the relations    *)
(* (WorkOrder).  For each specification an inductive invariant, a lemma    *)
(* for each action, and the theorems; for each of the two modules of       *)
(* functions, what its recursions compute.                                 *)
(***************************************************************************)
EXTENDS Documents, PlanTree, Backlog, TLAPS, FiniteSetTheorems, WellFoundedInduction

(***************************************************************************)
(* Numbers and sums.                                                       *)
(***************************************************************************)

(* Induction over the numbers, as a fact about a set of them. *)
LEMMA NatSetInduction ==
    ASSUME NEW S \in SUBSET Nat, 0 \in S, \A n \in S : n + 1 \in S
    PROVE  S = Nat
<1>1. CASE Nat \ S # {}
  <2>1. PICK n \in Nat \ S : \A m \in Nat \ S : ~(<<m, n>> \in OpToRel(<, Nat))
    BY <1>1, NatLessThanWellFounded, WFMin
  <2>2. \A m \in Nat \ S : ~(m < n)
    BY <2>1 DEF OpToRel
  <2>3. n - 1 \in Nat /\ n - 1 < n /\ n = (n - 1) + 1
    OBVIOUS
  <2> QED BY <2>2, <2>3
<1> QED BY <1>1

(* The numbers of a set have a least. *)
LEMMA LeastNumber ==
    ASSUME NEW S \in SUBSET Nat, S # {}
    PROVE  \E n \in S : \A m \in S : n <= m
<1>1. PICK n \in S : \A m \in S : ~(<<m, n>> \in OpToRel(<, Nat))
  BY NatLessThanWellFounded, WFMin
<1>2. \A m \in S : ~(m < n)
  BY <1>1 DEF OpToRel
<1> QED BY <1>2

(* The sum that MapThenSumSet computes, of weights in a function.          *)
AnyOf(S) == CHOOSE x \in S : TRUE

IsTotal(g, weight, S) ==
    g = [T \in SUBSET S |-> IF T = {} THEN 0 ELSE weight[AnyOf(T)] + g[T \ {AnyOf(T)}]]

LEMMA AnyOfIn == ASSUME NEW S, S # {} PROVE AnyOf(S) \in S
BY DEF AnyOf

LEMMA Fewer ==
    ASSUME NEW T, IsFiniteSet(T), NEW e \in T
    PROVE  /\ IsFiniteSet(T \ {e}) /\ Cardinality(T \ {e}) \in Nat
           /\ Cardinality(T) = Cardinality(T \ {e}) + 1
<1>1. IsFiniteSet(T \ {e}) /\ Cardinality(T \ {e}) = Cardinality(T) - 1
  BY FS_RemoveElement
<1>2. Cardinality(T) \in Nat /\ Cardinality(T \ {e}) \in Nat
  BY <1>1, FS_CardinalityType
<1> QED BY <1>1, <1>2

LEMMA TotalExists ==
    ASSUME NEW S, IsFiniteSet(S), NEW weight
    PROVE  \E g : IsTotal(g, weight, S)
<1> DEFINE Upto(n) == {T \in SUBSET S : Cardinality(T) <= n}
           Partial(g, n) == g = [T \in Upto(n) |->
                              IF T = {} THEN 0 ELSE weight[AnyOf(T)] + g[T \ {AnyOf(T)}]]
           Sizes == {n \in Nat : \E g : Partial(g, n)}
<1>1. \A T \in SUBSET S : IsFiniteSet(T) /\ Cardinality(T) \in Nat /\ (Cardinality(T) = 0 <=> T = {})
  BY FS_Subset, FS_CardinalityType, FS_EmptySet
<1>2. 0 \in Sizes
  <2>1. Upto(0) = {{}}
    BY <1>1
  <2> DEFINE g == [T \in {{}} |-> 0]
  <2>2. Partial(g, 0)
    BY <2>1
  <2> QED BY <2>2
<1>3. ASSUME NEW n \in Sizes
      PROVE  n + 1 \in Sizes
  <2>1. PICK f : Partial(f, n)
    OBVIOUS
  <2> DEFINE g == [T \in Upto(n + 1) |->
                     IF T = {} THEN 0 ELSE weight[AnyOf(T)] + f[T \ {AnyOf(T)}]]
  <2>2. \A T \in Upto(n) : f[T] = IF T = {} THEN 0 ELSE weight[AnyOf(T)] + f[T \ {AnyOf(T)}]
    BY <2>1
  <2>3. ASSUME NEW T \in Upto(n + 1), T # {}
        PROVE  g[T \ {AnyOf(T)}] = f[T \ {AnyOf(T)}]
    <3>1. PICK V : V = T \ {AnyOf(T)}
      OBVIOUS
    <3>2. AnyOf(T) \in T
      BY <2>3, AnyOfIn
    <3>3. V \in Upto(n) /\ V \in Upto(n + 1)
      BY <1>1, <2>3, <3>1, <3>2, Fewer
    <3>4. g[V] = f[V]
      BY <2>2, <3>3
    <3> QED BY <3>1, <3>4
  <2>4. \A T \in Upto(n + 1) : g[T] = IF T = {} THEN 0 ELSE weight[AnyOf(T)] + g[T \ {AnyOf(T)}]
    BY <2>3
  <2>5. g = [T \in Upto(n + 1) |-> g[T]]
    OBVIOUS
  <2> HIDE DEF g
  <2>6. Partial(g, n + 1)
    BY <2>4, <2>5
  <2> HIDE DEF Partial, Upto
  <2>7. \E h : Partial(h, n + 1)
    BY <2>6
  <2> QED BY <2>7
<1> HIDE DEF Sizes
<1>4. Sizes = Nat
  <2>1. Sizes \in SUBSET Nat
    BY DEF Sizes
  <2> QED BY <1>2, <1>3, <2>1, NatSetInduction
<1>5. PICK g : Partial(g, Cardinality(S))
  <2>1. Cardinality(S) \in Sizes
    BY <1>1, <1>4
  <2> QED BY <2>1 DEF Sizes
<1>6. Upto(Cardinality(S)) = SUBSET S
  BY FS_Subset
<1> QED BY <1>5, <1>6 DEF IsTotal

(* Any element may be taken out first. *)
LEMMA TotalFacts ==
    ASSUME NEW S, IsFiniteSet(S), NEW weight \in [S -> Nat], NEW g, IsTotal(g, weight, S)
    PROVE  /\ g[{}] = 0
           /\ \A T \in SUBSET S : g[T] \in Nat /\ \A e \in T : g[T] = weight[e] + g[T \ {e}]
<1>1. \A T \in SUBSET S : g[T] = IF T = {} THEN 0 ELSE weight[AnyOf(T)] + g[T \ {AnyOf(T)}]
  BY DEF IsTotal
<1> DEFINE Good(T) == g[T] \in Nat /\ \A e \in T : g[T] = weight[e] + g[T \ {e}]
           Sizes == {n \in Nat : \A T \in SUBSET S : Cardinality(T) <= n => Good(T)}
<1>2. \A T \in SUBSET S : IsFiniteSet(T) /\ Cardinality(T) \in Nat /\ (Cardinality(T) = 0 <=> T = {})
  BY FS_Subset, FS_CardinalityType, FS_EmptySet
<1>3. 0 \in Sizes
  <2>1. g[{}] = 0
    BY <1>1
  <2>2. \A T \in SUBSET S : Cardinality(T) <= 0 => T = {}
    BY <1>2
  <2> QED BY <2>1, <2>2
<1>4. ASSUME NEW n \in Sizes
      PROVE  n + 1 \in Sizes
  <2> SUFFICES ASSUME NEW T \in SUBSET S, ~(Cardinality(T) <= n), Cardinality(T) <= n + 1
               PROVE  Good(T)
    OBVIOUS
  <2>1. \A e \in T : T \ {e} \in SUBSET S /\ Good(T \ {e})
    <3> TAKE e \in T
    <3>1. Cardinality(T \ {e}) <= n
      BY <1>2, Fewer
    <3> QED BY <3>1
  <2>2. T # {}
    BY <1>2
  <2>3. PICK c \in T : c = AnyOf(T)
    BY <2>2, AnyOfIn
  <2>4. g[T] = weight[c] + g[T \ {c}] /\ g[T \ {c}] \in Nat /\ weight[c] \in Nat
    BY <1>1, <2>1, <2>2, <2>3
  <2>5. ASSUME NEW e \in T, e # c
        PROVE  g[T] = weight[e] + g[T \ {e}]
    <3> DEFINE V == T \ {c}
               W == T \ {e}
    <3>1. V \in SUBSET S /\ W \in SUBSET S /\ V \ {e} = W \ {c}
      OBVIOUS
    <3>2. g[V] = weight[e] + g[V \ {e}] /\ g[W] = weight[c] + g[W \ {c}]
      BY <2>1, <2>5, <3>1
    <3>3. g[V \ {e}] \in Nat
      <4>1. V \ {e} \in SUBSET S /\ n \in Nat
        BY <3>1
      <4>2. Cardinality(V) <= n /\ Cardinality(V) \in Nat
        BY <1>2, <3>1, Fewer
      <4>3. Cardinality(V \ {e}) \in Nat /\ Cardinality(V) = Cardinality(V \ {e}) + 1
        BY <1>2, <2>5, <3>1, Fewer
      <4>4. Cardinality(V \ {e}) <= n
        BY <4>1, <4>2, <4>3
      <4>5. \A U \in SUBSET S : Cardinality(U) <= n => Good(U)
        OBVIOUS
      <4> HIDE DEF V
      <4>6. Good(V \ {e})
        BY <4>1, <4>4, <4>5
      <4> QED BY <4>6
    <3>4. weight[e] \in Nat
      OBVIOUS
    <3>5. g[T] = weight[c] + g[V] /\ weight[c] \in Nat
      BY <2>4
    <3>6. g[W] = weight[c] + g[V \ {e}]
      BY <3>1, <3>2
    <3> HIDE DEF V, W
    <3>7. g[T] = weight[e] + g[W]
      BY <3>2, <3>3, <3>4, <3>5, <3>6
    <3> QED BY <3>7 DEF W
  <2>6. g[T] \in Nat
    BY <2>4
  <2>7. \A e \in T : g[T] = weight[e] + g[T \ {e}]
    BY <2>4, <2>5
  <2> QED BY <2>6, <2>7
<1> HIDE DEF Sizes
<1>5. Sizes = Nat
  <2>1. Sizes \in SUBSET Nat
    BY DEF Sizes
  <2> QED BY <1>3, <1>4, <2>1, NatSetInduction
<1>6. \A T \in SUBSET S : Good(T)
  BY <1>2, <1>5 DEF Sizes
<1> QED BY <1>1, <1>6

(* Two sums are the same on what both weigh alike. *)
LEMMA TotalsAgree ==
    ASSUME NEW S, IsFiniteSet(S), NEW weight, NEW g, IsTotal(g, weight, S),
           NEW R, NEW load, NEW h, IsTotal(h, load, R),
           NEW V, V \subseteq S, V \subseteq R, \A x \in V : weight[x] = load[x]
    PROVE  g[V] = h[V]
<1> DEFINE Sizes == {n \in Nat : \A T \in SUBSET V : Cardinality(T) <= n => g[T] = h[T]}
<1>1. \A T \in SUBSET V : IsFiniteSet(T) /\ Cardinality(T) \in Nat /\ (Cardinality(T) = 0 <=> T = {})
  BY FS_Subset, FS_CardinalityType, FS_EmptySet
<1>2. \A T \in SUBSET V : /\ g[T] = IF T = {} THEN 0 ELSE weight[AnyOf(T)] + g[T \ {AnyOf(T)}]
                          /\ h[T] = IF T = {} THEN 0 ELSE load[AnyOf(T)] + h[T \ {AnyOf(T)}]
  <2> TAKE T \in SUBSET V
  <2>1. T \in SUBSET S /\ T \in SUBSET R
    OBVIOUS
  <2>2. g[T] = IF T = {} THEN 0 ELSE weight[AnyOf(T)] + g[T \ {AnyOf(T)}]
    BY <2>1 DEF IsTotal
  <2>3. h[T] = IF T = {} THEN 0 ELSE load[AnyOf(T)] + h[T \ {AnyOf(T)}]
    BY <2>1 DEF IsTotal
  <2> QED BY <2>2, <2>3
<1>3. 0 \in Sizes
  <2>1. \A T \in SUBSET V : Cardinality(T) <= 0 => T = {}
    BY <1>1
  <2>2. {} \in SUBSET V
    OBVIOUS
  <2>3. g[{}] = h[{}]
    BY <1>2, <2>2
  <2> QED BY <2>1, <2>3
<1>4. ASSUME NEW n \in Sizes
      PROVE  n + 1 \in Sizes
  <2> SUFFICES ASSUME NEW T \in SUBSET V, Cardinality(T) <= n + 1, T # {}
               PROVE  g[T] = h[T]
    <3>1. {} \in SUBSET V
      OBVIOUS
    <3>2. g[{}] = h[{}]
      BY <1>2, <3>1
    <3> QED BY <3>2
  <2>1. PICK c \in T : c = AnyOf(T)
    BY AnyOfIn
  <2>2. T \ {c} \in SUBSET V /\ Cardinality(T \ {c}) <= n
    BY <1>1, Fewer
  <2>3. g[T \ {c}] = h[T \ {c}]
    BY <2>2
  <2>4. weight[c] = load[c]
    OBVIOUS
  <2> QED BY <1>2, <2>1, <2>3, <2>4
<1> HIDE DEF Sizes
<1>5. Sizes = Nat
  <2>1. Sizes \in SUBSET Nat
    BY DEF Sizes
  <2> QED BY <1>3, <1>4, <2>1, NatSetInduction
<1>6. IsFiniteSet(V) /\ Cardinality(V) \in Nat
  BY FS_Subset, FS_CardinalityType
<1> QED BY <1>5, <1>6 DEF Sizes

(* The first and the last of some numbers. *)
LEMMA FirstAndLast ==
    ASSUME NEW S \in SUBSET Int, IsFiniteSet(S), S # {}
    PROVE  /\ Min(S) \in S /\ \A x \in S : Min(S) <= x
           /\ Max(S) \in S /\ \A x \in S : x <= Max(S)
<1> DEFINE Ends(T) == \E a, b \in T : \A x \in T : a <= x /\ x <= b
           P(n) == \A T \in SUBSET Int : IsFiniteSet(T) /\ Cardinality(T) = n + 1 => Ends(T)
           H == {n \in Nat : P(n)}
<1>1. P(0)
  <2> SUFFICES ASSUME NEW T \in SUBSET Int, IsFiniteSet(T), Cardinality(T) = 0 + 1
               PROVE  Ends(T)
    OBVIOUS
  <2>1. T # {}
    BY FS_EmptySet
  <2>2. PICK e \in T : TRUE
    BY <2>1
  <2>3. Cardinality(T \ {e}) = 0 /\ IsFiniteSet(T \ {e})
    BY <2>2, Fewer
  <2>4. T \ {e} = {}
    BY <2>3, FS_EmptySet
  <2>5. \A x \in T : e <= x /\ x <= e
    BY <2>2, <2>4
  <2> QED BY <2>2, <2>5
<1>2. ASSUME NEW n \in Nat, P(n)
      PROVE  P(n + 1)
  <2> SUFFICES ASSUME NEW T \in SUBSET Int, IsFiniteSet(T), Cardinality(T) = (n + 1) + 1
               PROVE  Ends(T)
    OBVIOUS
  <2>1. T # {}
    BY FS_EmptySet
  <2>2. PICK e \in T : TRUE
    BY <2>1
  <2>3. Cardinality(T \ {e}) = n + 1 /\ IsFiniteSet(T \ {e})
    BY <2>2, Fewer
  <2>4. Ends(T \ {e})
    BY <1>2, <2>3
  <2>5. PICK a, b \in T \ {e} : \A x \in T \ {e} : a <= x /\ x <= b
    BY <2>4
  <2> DEFINE lo == IF e < a THEN e ELSE a
             hi == IF e > b THEN e ELSE b
  <2>6. lo \in T /\ hi \in T /\ \A x \in T : lo <= x /\ x <= hi
    BY <2>2, <2>5
  <2> QED BY <2>6
<1>3. H = Nat
  <2>1. 0 \in H /\ \A n \in H : n + 1 \in H
    BY <1>1, <1>2
  <2> HIDE DEF P
  <2> QED BY <2>1, NatSetInduction
<1>4. \A n \in Nat : P(n)
  BY <1>3
<1>5. Cardinality(S) \in Nat /\ Cardinality(S) # 0
  BY FS_CardinalityType, FS_EmptySet
<1>6. Ends(S)
  <2>1. Cardinality(S) - 1 \in Nat /\ Cardinality(S) = (Cardinality(S) - 1) + 1
    BY <1>5
  <2> QED BY <1>4, <2>1
<1>7. PICK a, b \in S : \A x \in S : a <= x /\ x <= b
  BY <1>6
<1>8. Min(S) \in S /\ \A x \in S : Min(S) <= x
  BY <1>7 DEF Min
<1>9. Max(S) \in S /\ \A x \in S : x <= Max(S)
  <2>1. \A x \in S : b >= x
    BY <1>7
  <2>2. Max(S) \in S /\ \A x \in S : Max(S) >= x
    BY <2>1 DEF Max
  <2> QED BY <2>2
<1> QED BY <1>8, <1>9

(* What a function makes of a finite set is finite. *)
LEMMA FiniteImage ==
    ASSUME NEW S, IsFiniteSet(S), NEW T, NEW f \in [S -> T]
    PROVE  IsFiniteSet(Range(f)) /\ Range(f) \subseteq T
<1>1. f \in Surjection(S, Range(f))
  BY DEF Surjection, Range
<1>2. Range(f) \subseteq T
  BY DEF Range
<1> QED BY <1>1, <1>2, FS_Surjection

(* The places of a sort are filled, each by one: no two members have as    *)
(* many before them.                                                       *)
LEMMA ByRankFacts ==
    ASSUME NEW S, IsFiniteSet(S), NEW before \in [S -> SUBSET S],
           \A a \in S : a \notin before[a],
           \A a, b \in S : a = b \/ a \in before[b] \/ b \in before[a],
           \A a, b \in S : a \in before[b] => before[a] \subseteq before[b]
    PROVE  /\ ByRank(before) \in [1..Cardinality(S) -> S]
           /\ Range(ByRank(before)) = S
           /\ IsInjective(ByRank(before))
<1> DEFINE Rank(n) == Cardinality(before[n])
           N == Cardinality(S)
           order == ByRank(before)
<1>1. N \in Nat
  BY FS_CardinalityType
<1>2. \A n \in S : IsFiniteSet(before[n]) /\ Rank(n) \in Nat /\ Rank(n) < N
  <2> TAKE n \in S
  <2>1. before[n] \subseteq S /\ n \notin before[n]
    OBVIOUS
  <2>2. IsFiniteSet(before[n]) /\ Rank(n) <= N /\ Rank(n) # N /\ Rank(n) \in Nat
    BY <2>1, FS_Subset, FS_CardinalityType
  <2> QED BY <1>1, <2>2
<1>3. ASSUME NEW a \in S, NEW b \in S, a \in before[b]
      PROVE  Rank(a) # Rank(b)
  <2>1. before[a] \subseteq before[b] /\ before[a] # before[b]
    BY <1>3
  <2> QED BY <1>2, <2>1, FS_Subset
<1> HIDE DEF Rank
<1>4. \A a, b \in S : Rank(a) = Rank(b) => a = b
  BY <1>3
<1> DEFINE rank == [n \in S |-> Rank(n)]
<1>5. \A k \in 0..(N - 1) : \E n \in S : Rank(n) = k
  <2>1. IsFiniteSet(0..(N - 1)) /\ Cardinality(0..(N - 1)) = N
    <3>1. 0 \in Int /\ N - 1 \in Int
      BY <1>1
    <3>2. /\ IsFiniteSet(0..(N - 1))
          /\ Cardinality(0..(N - 1)) = IF 0 > N - 1 THEN 0 ELSE (N - 1) - 0 + 1
      BY <3>1, FS_Interval
    <3> QED BY <1>1, <3>2
  <2>2. rank \in Injection(S, 0..(N - 1))
    <3>1. rank \in [S -> 0..(N - 1)]
      BY <1>1, <1>2
    <3>2. \A a, b \in S : rank[a] = rank[b] => a = b
      BY <1>4
    <3> QED BY <3>1, <3>2 DEF Injection, IsInjective
  <2>3. rank \in Surjection(S, 0..(N - 1))
    BY <2>1, <2>2, FS_Injection
  <2> QED BY <2>3 DEF Surjection
<1>6. order = [k \in 1..N |-> CHOOSE n \in S : Rank(n) = k - 1]
  BY DEF ByRank, Rank
<1>7. \A k \in 1..N : order[k] \in S /\ Rank(order[k]) = k - 1
  <2> TAKE k \in 1..N
  <2>1. \E n \in S : Rank(n) = k - 1
    BY <1>1, <1>5
  <2>2. order[k] = CHOOSE n \in S : Rank(n) = k - 1
    BY <1>6
  <2> QED BY <2>1, <2>2
<1>8. order \in [1..N -> S]
  BY <1>6, <1>7
<1> HIDE DEF order
<1>9. ASSUME NEW n \in S
      PROVE  n \in Range(order)
  <2>1. Rank(n) + 1 \in 1..N /\ (Rank(n) + 1) - 1 = Rank(n)
    BY <1>1, <1>2
  <2>2. order[Rank(n) + 1] = n
    BY <1>4, <1>7, <2>1
  <2> QED BY <1>8, <2>1, <2>2 DEF Range
<1>10. Range(order) \subseteq S
  BY <1>8 DEF Range
<1>11. ASSUME NEW j \in 1..N, NEW k \in 1..N, order[j] = order[k]
       PROVE  j = k
  BY <1>1, <1>7, <1>11
<1>12. IsInjective(order)
  BY <1>8, <1>11 DEF IsInjective
<1> QED BY <1>8, <1>9, <1>10, <1>12 DEF order

(* A recursion that takes a value to the next exists. *)
Unfolds(f, A, base, F, k) ==
    /\ f \in [0..k -> A] /\ f[0] = base
    /\ \A n \in 1..k : f[n] = F[<<n, f[n - 1]>>]

LEMMA StepsExist ==
    ASSUME NEW A, NEW base \in A, NEW F \in [Nat \X A -> A], NEW k \in Nat
    PROVE  \E f : Unfolds(f, A, base, F, k)
<1> DEFINE Is(f, j) == Unfolds(f, A, base, F, j)
           S == {j \in Nat : \E f : Is(f, j)}
<1>1. 0 \in S
  <2> DEFINE f == [n \in 0..0 |-> base]
  <2>1. Is(f, 0)
    BY DEF Unfolds
  <2> QED BY <2>1
<1>2. ASSUME NEW j \in S
      PROVE  j + 1 \in S
  <2>1. PICK f : Is(f, j)
    OBVIOUS
  <2> DEFINE x == F[<<j + 1, f[j]>>]
             g == [n \in 0..(j + 1) |-> IF n = j + 1 THEN x ELSE f[n]]
  <2>2. j \in Nat /\ j \in 0..j /\ f[j] \in A /\ x \in A
    BY <2>1 DEF Unfolds
  <2>3. (\A n \in 0..j : g[n] = f[n] /\ n \in 0..(j + 1)) /\ g[j + 1] = x
    BY <2>2
  <2>4. g \in [0..(j + 1) -> A]
    BY <2>1, <2>2 DEF Unfolds
  <2> HIDE DEF g
  <2>5. ASSUME NEW n \in 1..(j + 1)
        PROVE  g[n] = F[<<n, g[n - 1]>>]
    <3>1. CASE n = j + 1
      <4>1. n - 1 = j /\ g[j] = f[j]
        BY <2>2, <2>3, <3>1
      <4> QED BY <2>3, <3>1, <4>1
    <3>2. CASE n \in 1..j
      <4>1. g[n] = f[n] /\ g[n - 1] = f[n - 1]
        BY <2>2, <2>3, <3>2
      <4> QED BY <2>1, <3>2, <4>1 DEF Unfolds
    <3> QED BY <2>2, <3>1, <3>2
  <2>6. Is(g, j + 1)
    <3>1. g[0] = base
      BY <2>1, <2>2, <2>3 DEF Unfolds
    <3> QED BY <2>4, <2>5, <3>1 DEF Unfolds
  <2> QED BY <2>2, <2>6
<1> HIDE DEF S
<1>3. S \in SUBSET Nat
  BY DEF S
<1>4. S = Nat
  BY <1>1, <1>2, <1>3, NatSetInduction
<1> QED BY <1>4 DEF S

(* The recursion of FlattenSeq, and what it gives: sequences joined one    *)
(* after the other.                                                        *)
IsFlat(f, seqs) ==
    f = [i \in 1..Len(seqs) |-> IF i = 1 THEN seqs[i] ELSE f[i - 1] \o seqs[i]]

JoinedUp(g, seqs, R) ==
    /\ g \in [0..Len(seqs) -> Seq(R)] /\ g[0] = <<>>
    /\ \A n \in 1..Len(seqs) : g[n] = g[n - 1] \o seqs[n]

LEMMA FlattenIs ==
    ASSUME NEW R, NEW seqs \in Seq(Seq(R))
    PROVE  \E g : JoinedUp(g, seqs, R) /\ FlattenSeq(seqs) = g[Len(seqs)]
<1> DEFINE k == Len(seqs)
           A == Seq(R)
           F == [p \in Nat \X A |-> IF p[1] \in 1..k THEN p[2] \o seqs[p[1]] ELSE p[2]]
<1>1. k \in Nat /\ <<>> \in A /\ \A n \in 1..k : seqs[n] \in A
  OBVIOUS
<1>2. F \in [Nat \X A -> A]
  <2>1. \A a, b \in A : a \o b \in A
    OBVIOUS
  <2> HIDE DEF A
  <2> QED BY <1>1, <2>1
<1>3. PICK g : Unfolds(g, A, <<>>, F, k)
  <2> DEFINE base == <<>>
  <2>1. base \in A
    BY <1>1
  <2> HIDE DEF F, A, base
  <2>2. \E g : Unfolds(g, A, base, F, k)
    BY <1>1, <1>2, <2>1, StepsExist
  <2> QED BY <2>2 DEF base
<1>4. g \in [0..k -> A] /\ g[0] = <<>> /\ \A n \in 1..k : g[n] = F[<<n, g[n - 1]>>]
  <2> HIDE DEF A, F
  <2> QED BY <1>3 DEF Unfolds
<1>5. \A n \in 1..k : g[n] = g[n - 1] \o seqs[n]
  <2> TAKE n \in 1..k
  <2>1. n - 1 \in 0..k /\ n \in Nat
    BY <1>1
  <2>2. g[n] = F[<<n, g[n - 1]>>] /\ g[n - 1] \in A
    BY <1>4, <2>1
  <2> HIDE DEF A
  <2> QED BY <2>1, <2>2
<1>6. JoinedUp(g, seqs, R)
  BY <1>4, <1>5 DEF JoinedUp
<1> DEFINE h == [i \in 1..k |-> g[i]]
           flat == CHOOSE f : IsFlat(f, seqs)
<1>7. IsFlat(h, seqs)
  <2>1. \A i \in 1..k : h[i] = IF i = 1 THEN seqs[i] ELSE h[i - 1] \o seqs[i]
    <3> TAKE i \in 1..k
    <3>1. CASE i = 1
      <4>1. 1 \in 1..k /\ 1 - 1 = 0 /\ g[0] = <<>>
        BY <1>4, <3>1
      <4>2. g[1] = g[0] \o seqs[1]
        BY <1>5, <4>1
      <4>3. seqs[1] \in Seq(R)
        BY <1>1, <3>1
      <4> QED BY <3>1, <4>1, <4>2, <4>3
    <3>2. CASE i # 1
      <4>1. i - 1 \in 1..k
        BY <1>1, <3>2
      <4> QED BY <1>5, <3>2, <4>1
    <3> QED BY <3>1, <3>2
  <2> HIDE DEF h
  <2>2. h = [i \in 1..k |-> h[i]]
    BY DEF h
  <2> QED BY <2>1, <2>2 DEF IsFlat
<1> HIDE DEF h
<1>8. IsFlat(flat, seqs)
  BY <1>7
<1>9. k # 0 => FlattenSeq(seqs) = flat[k]
  BY Zenon DEF FlattenSeq, IsFlat
<1> HIDE DEF flat, F
<1>10. \A n \in Nat : n + 1 \in 1..k => flat[n + 1] = g[n + 1]
  <2> DEFINE P(n) == n + 1 \in 1..k => flat[n + 1] = g[n + 1]
             S == {n \in Nat : P(n)}
  <2>1. \A i \in 1..k : flat[i] = IF i = 1 THEN seqs[i] ELSE flat[i - 1] \o seqs[i]
    BY <1>8 DEF IsFlat
  <2>2. \A i \in 1..k : g[i] = IF i = 1 THEN seqs[i] ELSE g[i - 1] \o seqs[i]
    <3>1. \A i \in 1..k : h[i] = IF i = 1 THEN seqs[i] ELSE h[i - 1] \o seqs[i]
      BY <1>7 DEF IsFlat
    <3>2. \A i \in 1..k : h[i] = g[i]
      BY DEF h
    <3> TAKE i \in 1..k
    <3>3. i # 1 => i - 1 \in 1..k
      BY <1>1
    <3> QED BY <3>1, <3>2, <3>3
  <2>3. P(0)
    BY <2>1, <2>2
  <2>4. ASSUME NEW n \in Nat, P(n)
        PROVE  P(n + 1)
    <3> SUFFICES ASSUME (n + 1) + 1 \in 1..k
                 PROVE  flat[(n + 1) + 1] = g[(n + 1) + 1]
      OBVIOUS
    <3>1. n + 1 \in 1..k /\ (n + 1) + 1 # 1 /\ ((n + 1) + 1) - 1 = n + 1
      BY <1>1
    <3> QED BY <2>1, <2>2, <2>4, <3>1
  <2>5. S = Nat
    <3>1. 0 \in S /\ \A n \in S : n + 1 \in S
      BY <2>3, <2>4
    <3> HIDE DEF P
    <3> QED BY <3>1, NatSetInduction
  <2> QED BY <2>5
<1>11. FlattenSeq(seqs) = g[k]
  <2>1. CASE k = 0
    <3>1. seqs = <<>>
      BY <2>1
    <3>2. FlattenSeq(seqs) = seqs
      BY <2>1, Zenon DEF FlattenSeq
    <3> QED BY <1>4, <2>1, <3>1, <3>2
  <2>2. CASE k # 0
    <3>1. k - 1 \in Nat /\ (k - 1) + 1 = k /\ k \in 1..k
      BY <1>1, <2>2
    <3> QED BY <1>9, <1>10, <2>2, <3>1
  <2> QED BY <2>1, <2>2
<1> QED BY <1>6, <1>11

(***************************************************************************)
(* Documents.                                                              *)
(***************************************************************************)

SessState == {Idle} \cup Write \cup Edit

Writing(x) == x.at \in {"checked", "reserved"}

(* CurrentIsNewest, number by number. *)
Series ==
    \A d \in Docs, n \in Numbers :
        versions[d][n] # None <=> docs[d] # None /\ n <= docs[d].current

(* What a session saw may be older than the row, but not newer, and a      *)
(* document that it found missing is missing still.                        *)
Saw(x) ==
    /\ Writing(x) => IF x.seen = None THEN docs[x.doc] = None /\ x.content # None
                     ELSE docs[x.doc] # None /\ x.seen.current <= docs[x.doc].current
    /\ x.at = "editing" => docs[x.doc] # None

(* Only the session that makes a document knows its id. *)
Alone ==
    \A s, t \in Sessions :
        /\ Writing(sess[s]) /\ sess[s].seen = None
        /\ sess[t] # Idle /\ sess[t].doc = sess[s].doc
        => s = t

IInv == TypeOK /\ Series /\ (\A s \in Sessions : Saw(sess[s])) /\ Alone

-----------------------------------------------------------------------------
(* What a session is from where it is. *)
LEMMA SessFields ==
    ASSUME NEW x \in SessState
    PROVE  /\ x.at = "idle" => x = Idle
           /\ Writing(x) => x \in Write
           /\ x.at = "editing" => x \in Edit
           /\ x # Idle => x.doc \in Docs /\ x.at # "idle"
BY DEF SessState, Writing, Idle, Write, Edit

LEMMA IdleSaw == Saw(Idle) /\ Idle \in SessState
BY DEF Saw, Idle, Writing, SessState

(* A step that moves one session: it ends, or starts from what there is.   *)
LEMMA SessionMoves ==
    ASSUME IInv, NEW s \in Sessions, NEW x \in SessState,
           sess' = [sess EXCEPT ![s] = x], UNCHANGED <<docs, versions>>,
           comps' \in [Comps -> Names \cup {None}],
           Saw(x),
           \/ x = Idle
           \/ sess[s] # Idle /\ x.doc = sess[s].doc /\ Writing(sess[s]) /\ x.seen = sess[s].seen
           \/ docs[x.doc] # None
           \/ FreshDoc(x.doc)
    PROVE  IInv'
<1>1. \A t \in Sessions : sess'[t] = IF t = s THEN x ELSE sess[t]
  BY DEF IInv, TypeOK
<1>2. TypeOK'
  BY DEF IInv, TypeOK, SessState
<1>3. Series' /\ \A t \in Sessions : Saw(sess[t])'
  BY <1>1 DEF IInv, Series, Saw
<1>4. ASSUME NEW t \in Sessions, NEW u \in Sessions,
             Writing(sess'[t]), sess'[t].seen = None, sess'[u] # Idle, sess'[u].doc = sess'[t].doc
      PROVE  t = u
  <2>1. sess'[t] # Idle /\ Saw(sess'[t]) /\ docs[sess'[t].doc] = None
    <3>1. Saw(sess'[t]) BY <1>1 DEF IInv
    <3> QED BY <3>1, <1>4 DEF Saw, Writing, Idle
  <2>2. CASE t = s /\ u # s
    BY <1>1, <1>4, <2>1, <2>2 DEF IInv, Alone, FreshDoc
  <2>3. CASE u = s /\ t # s
    BY <1>1, <1>4, <2>1, <2>3 DEF IInv, Alone, FreshDoc
  <2>4. CASE t # s /\ u # s
    BY <1>1, <1>4, <2>4 DEF IInv, Alone
  <2> QED BY <2>2, <2>3, <2>4
<1> QED BY <1>2, <1>3, <1>4 DEF IInv, Alone

LEMMA PutSafe ==
    ASSUME IInv, NEW s \in Sessions, NEW compName \in Names, NEW name \in Names,
           NEW type \in Types, NEW content \in Contents,
           PutDeliverable(s, compName, name, type, content)
    PROVE  IInv'
<1>1. PICK c \in Comps, d \in Docs :
         /\ IF DocsNamed(c, name) = {} THEN FreshDoc(d) ELSE DocsNamed(c, name) = {d}
         /\ sess' = [sess EXCEPT ![s] =
                [at |-> IF docs[d] # None /\ CurrentContent(d) = content
                        THEN "reserved" ELSE "checked",
                 doc |-> d, seen |-> docs[d],
                 comp |-> c, compName |-> IF comps[c] = None THEN compName ELSE None,
                 name |-> name, type |-> type,
                 content |-> IF docs[d] # None /\ CurrentContent(d) = content
                             THEN None ELSE content,
                 mime |-> type]]
  BY Zenon DEF PutDeliverable
<1> DEFINE same == docs[d] # None /\ CurrentContent(d) = content
           x == [at |-> IF same THEN "reserved" ELSE "checked",
                 doc |-> d, seen |-> docs[d],
                 comp |-> c, compName |-> IF comps[c] = None THEN compName ELSE None,
                 name |-> name, type |-> type,
                 content |-> IF same THEN None ELSE content, mime |-> type]
<1>2. docs[d] \in Doc \cup {None}
  BY DEF IInv, TypeOK
<1>3. x \in SessState
  BY <1>2 DEF SessState, Write
<1>4. docs[d] # None \/ FreshDoc(d)
  BY <1>1 DEF DocsNamed
<1>5. Saw(x)
  BY <1>2, DocumentsAssumption DEF Saw, Writing, Doc, Numbers
<1>6. UNCHANGED <<comps, docs, versions>> /\ comps \in [Comps -> Names \cup {None}]
  BY DEF PutDeliverable, IInv, TypeOK
<1>7. sess' = [sess EXCEPT ![s] = x]
  BY <1>1
<1> HIDE DEF same
<1>8. x.doc = d
  OBVIOUS
<1> HIDE DEF x
<1> QED BY <1>3, <1>4, <1>5, <1>6, <1>7, <1>8, SessionMoves

LEMMA RollbackSafe ==
    ASSUME IInv, NEW s \in Sessions, NEW d \in Docs, NEW number \in Numbers,
           RollbackDeliverable(s, d, number)
    PROVE  IInv'
<1> DEFINE x == [at |-> "checked", doc |-> d, seen |-> docs[d],
                 comp |-> docs[d].comp, compName |-> None, name |-> docs[d].name,
                 type |-> docs[d].type, content |-> versions[d][number].content,
                 mime |-> versions[d][number].type]
<1>1. docs[d] \in Doc /\ docs[d] # None /\ versions[d][number] \in Version
  BY DEF RollbackDeliverable, IInv, TypeOK
<1>2. x \in SessState /\ x.content # None
  BY <1>1, DocumentsAssumption DEF SessState, Write, Doc, Version
<1>3. Saw(x)
  BY <1>1, <1>2, DocumentsAssumption DEF Saw, Writing, Doc, Numbers
<1> QED BY <1>1, <1>2, <1>3, SessionMoves DEF RollbackDeliverable, IInv, TypeOK

LEMMA EnsureSafe ==
    ASSUME IInv, NEW s \in Sessions, EnsureStorageCapacity(s)
    PROVE  IInv'
<1>1. sess[s] \in SessState /\ sess[s] \in Write /\ Writing(sess[s]) /\ Saw(sess[s]) /\ sess[s] # Idle
  BY SessFields DEF EnsureStorageCapacity, IInv, TypeOK, SessState, Writing, Idle
<1> DEFINE y == [sess[s] EXCEPT !.at = "reserved"]
<1>2. y \in SessState /\ y.doc = sess[s].doc /\ y.seen = sess[s].seen /\ y.content = sess[s].content
      /\ y.at = "reserved"
  BY <1>1 DEF SessState, Write
<1>3. Saw(y)
  BY <1>1, <1>2 DEF Saw, Writing
<1> HIDE DEF y
<1>4. PICK x \in {Idle, y} : sess' = [sess EXCEPT ![s] = x]
  BY DEF EnsureStorageCapacity, y
<1>5. UNCHANGED <<comps, docs, versions>> /\ comps \in [Comps -> Names \cup {None}]
  BY DEF EnsureStorageCapacity, IInv, TypeOK
<1>6. CASE x = Idle
  BY <1>4, <1>5, <1>6, IdleSaw, SessionMoves
<1>7. CASE x = y
  BY <1>1, <1>2, <1>3, <1>4, <1>5, <1>7, SessionMoves
<1> QED BY <1>6, <1>7

LEMMA LoadSafe ==
    ASSUME IInv, NEW s \in Sessions, NEW d \in Docs, NEW name \in Names, NEW c \in Comps,
           LoadDeliverable(s, d, name, c)
    PROVE  IInv'
<1> DEFINE x == [at |-> "editing", doc |-> d, seen |-> docs[d], name |-> name, comp |-> c]
<1>1. docs[d] \in Doc /\ docs[d] # None
  BY DEF LoadDeliverable, IInv, TypeOK
<1>2. x \in SessState
  BY <1>1 DEF SessState, Edit
<1>3. Saw(x)
  BY <1>1 DEF Saw, Writing
<1> QED BY <1>1, <1>2, <1>3, SessionMoves DEF LoadDeliverable, IInv, TypeOK

LEMMA FailSafe ==
    ASSUME IInv, NEW s \in Sessions, Fail(s)
    PROVE  IInv'
BY IdleSaw, SessionMoves DEF Fail, End, IInv, TypeOK

-----------------------------------------------------------------------------
(* The new number is the one after the newest: an older one is taken, and  *)
(* the row was never ahead of the table.                                   *)
LEMMA CommitSafe ==
    ASSUME IInv, NEW s \in Sessions, CommitWrite(s)
    PROVE  /\ IInv'
           /\ \A d \in Docs, n \in Numbers :
                 versions[d][n] # None => versions'[d][n] = versions[d][n]
<1> DEFINE w == sess[s]
           number == NewNumber(w.seen)
           v == [content |-> w.content, type |-> w.mime]
           row == Written(w, docs[w.doc], number)
<1>1. w \in Write /\ Writing(w) /\ Saw(w) /\ w # Idle
  BY SessFields DEF CommitWrite, IInv, TypeOK, SessState, Writing, Idle
<1>2. /\ w.doc \in Docs /\ w.comp \in Comps /\ w.name \in Names /\ w.type \in Types
      /\ w.mime \in Types /\ w.seen \in Doc \cup {None} /\ w.content \in Contents \cup {None}
      /\ w.compName \in Names \cup {None}
  BY <1>1 DEF Write
<1>3. docs[w.doc] \in Doc \cup {None}
  BY <1>2 DEF IInv, TypeOK
<1>4. IF w.seen = None THEN docs[w.doc] = None /\ w.content # None
      ELSE docs[w.doc] # None /\ w.seen.current <= docs[w.doc].current
  BY <1>1 DEF Saw
<1>5. w.content # None => number \in Numbers /\ versions[w.doc][number] = None
  <2>1. number \in Nat \ {0}
    BY <1>2 DEF NewNumber, Doc, Numbers
  <2> QED BY <2>1, DocumentsAssumption DEF CommitWrite, VersionTaken, Numbers
<1>6. w.content # None =>
        number = IF docs[w.doc] = None THEN 1 ELSE docs[w.doc].current + 1
  BY <1>2, <1>3, <1>4, <1>5, DocumentsAssumption DEF NewNumber, IInv, Series, Doc, Numbers
<1>7. row \in Doc
  BY <1>2, <1>3, <1>4, <1>5 DEF Doc, Written
<1>8. row.current = IF w.content = None THEN docs[w.doc].current ELSE number
  BY <1>3, <1>4 DEF Doc, Written
<1>9. row # None /\ v \in Version \cup {[content |-> None, type |-> w.mime]}
      /\ (w.content # None => v \in Version /\ v # None)
  BY <1>2, <1>7, DocumentsAssumption DEF Version
<1>10. /\ docs' = [docs EXCEPT ![w.doc] = row]
       /\ comps' = IF w.compName = None THEN comps ELSE [comps EXCEPT ![w.comp] = w.compName]
       /\ versions' = IF w.content = None THEN versions
                      ELSE [versions EXCEPT ![w.doc][number] = v]
       /\ sess' = [sess EXCEPT ![s] = Idle]
  <2>1. docs' = [docs EXCEPT ![w.doc] = row]
    BY DEF CommitWrite
  <2>2. versions' = IF w.content = None THEN versions
                    ELSE [versions EXCEPT ![w.doc][number] = v]
    BY DEF CommitWrite
  <2>3. /\ comps' = IF w.compName = None THEN comps ELSE [comps EXCEPT ![w.comp] = w.compName]
        /\ sess' = [sess EXCEPT ![s] = Idle]
    BY DEF CommitWrite, End
  <2> QED BY <2>1, <2>2, <2>3
<1> HIDE DEF row, v, number
<1>11. \A d \in Docs : docs'[d] = IF d = w.doc THEN row ELSE docs[d]
  BY <1>10 DEF IInv, TypeOK
<1>12. \A d \in Docs, n \in Numbers : versions'[d][n] =
          IF d = w.doc /\ w.content # None /\ n = number THEN v ELSE versions[d][n]
  BY <1>5, <1>10 DEF IInv, TypeOK
<1>13. \A t \in Sessions : sess'[t] = IF t = s THEN Idle ELSE sess[t]
  BY <1>10 DEF IInv, TypeOK
<1>14. TypeOK'
  <2>1. docs' \in [Docs -> Doc \cup {None}] /\ comps' \in [Comps -> Names \cup {None}]
    BY <1>2, <1>7, <1>10 DEF IInv, TypeOK
  <2>2. versions' \in [Docs -> [Numbers -> Version \cup {None}]]
    BY <1>5, <1>9, <1>10 DEF IInv, TypeOK
  <2>3. sess' \in [Sessions -> SessState]
    BY <1>10, IdleSaw DEF IInv, TypeOK, SessState
  <2> QED BY <2>1, <2>2, <2>3 DEF TypeOK, SessState
<1>15. Series'
  <2> SUFFICES ASSUME NEW d \in Docs, NEW n \in Numbers
               PROVE  versions'[d][n] # None <=> docs'[d] # None /\ n <= docs'[d].current
    BY DEF Series
  <2>1. CASE d # w.doc
    BY <2>1, <1>11, <1>12 DEF IInv, Series
  <2>2. CASE d = w.doc /\ w.content = None
    BY <2>2, <1>4, <1>8, <1>9, <1>11, <1>12 DEF IInv, Series
  <2>3. CASE d = w.doc /\ w.content # None
    <3>1. versions[d][n] # None <=> docs[d] # None /\ n <= docs[d].current
      BY DEF IInv, Series
    <3>2. docs'[d] # None /\ docs'[d].current = number
      BY <2>3, <1>8, <1>9, <1>11
    <3>3. versions'[d][n] = IF n = number THEN v ELSE versions[d][n]
      BY <2>3, <1>12
    <3>4. docs[d] # None => docs[d].current \in Nat
      BY <2>3, <1>3 DEF Doc, Numbers
    <3>5. n <= number <=> (n = number \/ (docs[d] # None /\ n <= docs[d].current))
      BY <2>3, <1>5, <1>6, <3>4 DEF Numbers
    <3> QED BY <2>3, <3>1, <3>2, <3>3, <3>5, <1>9
  <2> QED BY <2>1, <2>2, <2>3
<1>16. ASSUME NEW t \in Sessions PROVE Saw(sess[t])'
  <2>1. CASE t = s
    BY <2>1, <1>13, IdleSaw DEF Saw, Writing, Idle
  <2>2. CASE t # s
    <3>1. sess'[t] = sess[t] /\ sess[t] \in SessState /\ Saw(sess[t])
      BY <2>2, <1>13 DEF IInv, TypeOK, SessState
    <3>2. CASE sess[t].at = "idle"
      BY <3>1, <3>2 DEF Saw, Writing
    <3>3. CASE sess[t].at # "idle" /\ sess[t].doc # w.doc
      <4>1. docs'[sess[t].doc] = docs[sess[t].doc]
        BY <3>1, <3>3, <1>11, SessFields DEF Idle
      <4> QED BY <3>1, <4>1 DEF Saw
    <3>4. CASE sess[t].at # "idle" /\ sess[t].doc = w.doc
      <4>1. docs'[sess[t].doc] = row
        BY <3>4, <1>2, <1>11
      <4>2. w.seen # None
        BY <2>2, <3>4, <1>1 DEF IInv, Alone, Idle
      <4>3. docs[w.doc] # None /\ docs[w.doc].current \in Nat
        BY <4>2, <1>3, <1>4 DEF Doc, Numbers
      <4>4. row.current \in Nat /\ docs[w.doc].current <= row.current
        BY <4>3, <1>6, <1>8
      <4>5. Writing(sess[t]) => sess[t].seen # None /\ sess[t].seen.current \in Nat
        BY <3>1, <3>4, <4>3, SessFields DEF Saw, Write, Doc, Numbers
      <4> QED BY <3>1, <3>4, <4>1, <4>3, <4>4, <4>5, <1>9 DEF Saw
    <3> QED BY <3>2, <3>3, <3>4
  <2> QED BY <2>1, <2>2
<1>17. Alone'
  BY <1>13 DEF IInv, Alone, Idle, Writing
<1>18. ASSUME NEW d \in Docs, NEW n \in Numbers, versions[d][n] # None
       PROVE  versions'[d][n] = versions[d][n]
  BY <1>5, <1>12, <1>18
<1> QED BY <1>14, <1>15, <1>16, <1>17, <1>18 DEF IInv

LEMMA UpdateSafe ==
    ASSUME IInv, NEW s \in Sessions, UpdateDeliverable(s)
    PROVE  IInv'
<1> DEFINE e == sess[s]
           name == IF e.name = e.seen.name THEN docs[e.doc].name ELSE e.name
           comp == IF e.comp = e.seen.comp THEN docs[e.doc].comp ELSE e.comp
<1>1. e \in Edit /\ docs[e.doc] # None
  BY SessFields DEF UpdateDeliverable, IInv, TypeOK, SessState, Saw
<1>2. e.doc \in Docs /\ docs[e.doc] \in Doc /\ name \in Names /\ comp \in Comps
  BY <1>1 DEF Edit, IInv, TypeOK, Doc
<1> HIDE DEF name, comp
<1>3. docs' = [docs EXCEPT ![e.doc].name = name, ![e.doc].comp = comp]
  BY DEF UpdateDeliverable, name, comp
<1>4. /\ docs' \in [Docs -> Doc \cup {None}]
      /\ docs'[e.doc] \in Doc /\ docs'[e.doc].current = docs[e.doc].current
      /\ \A d \in Docs \ {e.doc} : docs'[d] = docs[d]
  BY <1>2, <1>3 DEF IInv, TypeOK, Doc
<1>5. \A d \in Docs : /\ docs'[d] = None <=> docs[d] = None
                      /\ docs[d] # None => docs'[d].current = docs[d].current
  BY <1>1, <1>4, DocumentsAssumption
<1>6. \A t \in Sessions : sess'[t] = IF t = s THEN Idle ELSE sess[t]
  BY DEF UpdateDeliverable, End, IInv, TypeOK
<1>7. UNCHANGED <<comps, versions>> /\ sess' \in [Sessions -> SessState]
  BY IdleSaw DEF UpdateDeliverable, End, IInv, TypeOK, SessState
<1>8. TypeOK' /\ Series'
  BY <1>4, <1>5, <1>7 DEF IInv, TypeOK, Series, SessState
<1>9. ASSUME NEW t \in Sessions PROVE Saw(sess[t])'
  <2>1. sess'[t] \in SessState /\ (sess'[t] = Idle \/ (sess'[t] = sess[t] /\ Saw(sess[t])))
    BY <1>6, <1>7 DEF IInv
  <2>2. CASE sess'[t] = Idle
    BY <2>2 DEF Saw, Writing, Idle
  <2>3. CASE sess'[t] = sess[t] /\ Saw(sess[t]) /\ sess[t] # Idle
    <3>1. sess[t].doc \in Docs
      BY <2>1, <2>3, SessFields
    <3> QED BY <2>3, <3>1, <1>5 DEF Saw
  <2> QED BY <2>1, <2>2, <2>3
<1>10. Alone'
  BY <1>6 DEF IInv, Alone, Idle, Writing
<1> QED BY <1>8, <1>9, <1>10 DEF IInv

LEMMA UpsertSafe ==
    ASSUME IInv, NEW c \in Comps, NEW name \in Names, UpsertCompartment(c, name)
    PROVE  IInv'
<1>1. comps' \in [Comps -> Names \cup {None}] /\ UNCHANGED <<docs, versions, sess>>
  BY DEF UpsertCompartment, IInv, TypeOK
<1> QED BY <1>1 DEF IInv, TypeOK, Series, Saw, Alone

LEMMA StepSafe ==
    ASSUME IInv, [Next]_vars
    PROVE  /\ IInv'
           /\ \A d \in Docs, n \in Numbers :
                 versions[d][n] # None => versions'[d][n] = versions[d][n]
<1>1. CASE UNCHANGED vars
  BY <1>1 DEF vars, IInv, TypeOK, Series, Saw, Alone
<1>2. ASSUME NEW s \in Sessions, Step(s), ~CommitWrite(s) PROVE IInv' /\ UNCHANGED versions
  <2>1. CASE \E c, n \in Names, t \in Types, x \in Contents : PutDeliverable(s, c, n, t, x)
    <3>1. IInv'
      BY <2>1, PutSafe
    <3>2. UNCHANGED versions
      BY <2>1, Zenon DEF PutDeliverable
    <3> QED BY <3>1, <3>2
  <2>2. CASE \E d \in Docs, v \in Numbers : RollbackDeliverable(s, d, v)
    BY <2>2, RollbackSafe DEF RollbackDeliverable
  <2>3. CASE \E d \in Docs, n \in Names, c \in Comps : LoadDeliverable(s, d, n, c)
    BY <2>3, LoadSafe DEF LoadDeliverable
  <2>4. CASE EnsureStorageCapacity(s)
    BY <2>4, EnsureSafe DEF EnsureStorageCapacity
  <2>5. CASE UpdateDeliverable(s)
    BY <2>5, UpdateSafe DEF UpdateDeliverable
  <2>6. CASE Fail(s)
    BY <2>6, FailSafe DEF Fail
  <2> QED BY <1>2, <2>1, <2>2, <2>3, <2>4, <2>5, <2>6 DEF Step
<1>3. ASSUME NEW c \in Comps, NEW n \in Names, UpsertCompartment(c, n)
      PROVE  IInv' /\ UNCHANGED versions
  BY <1>3, UpsertSafe DEF UpsertCompartment
<1> QED BY <1>1, <1>2, <1>3, CommitSafe DEF Next

LEMMA DocumentsInductive == Spec => []IInv
<1>1. Init => IInv
  <2> SUFFICES ASSUME Init PROVE IInv
    OBVIOUS
  <2>1. TypeOK /\ Series /\ \A s \in Sessions : sess[s] = Idle
    BY DEF Init, TypeOK, Series
  <2> QED BY <2>1, IdleSaw DEF IInv, Alone
<1>2. IInv /\ [Next]_vars => IInv'
  BY StepSafe
<1> QED BY <1>1, <1>2, PTL DEF Spec

(* Every document points to the end of an unbroken series of versions.     *)
THEOREM DocumentsVersionsAreSound == Spec => []VersionsAreSound
<1>1. IInv => VersionsAreSound
  <2> SUFFICES ASSUME IInv, NEW d \in Docs
               PROVE  {n \in Numbers : versions[d][n] # None} =
                         IF docs[d] = None THEN {} ELSE 1..docs[d].current
    BY DEF VersionsAreSound, CurrentIsNewest, IInv
  <2>1. docs[d] # None => docs[d].current \in Numbers
    BY DEF IInv, TypeOK, Doc
  <2> QED BY <2>1, DocumentsAssumption DEF IInv, Series, Numbers
<1> QED BY <1>1, DocumentsInductive, PTL

(* No session writes over a version, however stale the row it numbered     *)
(* its own from.                                                           *)
THEOREM DocumentsAppendOnly == Spec => AppendOnly
<1>1. IInv /\ [Next]_vars =>
        [\A d \in Docs, n \in Numbers :
            versions[d][n] # None => versions'[d][n] = versions[d][n]]_vars
  BY StepSafe
<1> QED BY <1>1, DocumentsInductive, PTL DEF Spec, AppendOnly

-----------------------------------------------------------------------------
(* The bytes of a version. *)
Bytes(v) == Size[versions[v[1]][v[2]].content]

Weights == [v \in Stored |-> Bytes(v)]

StoredTyped == IsFiniteSet(Stored) /\ \A v \in Stored : Bytes(v) \in Nat

UsedIsTotal == StoredTyped => \E g : IsTotal(g, Weights, Stored) /\ UsedStorage = g[Stored]

LEMMA UsedIsTheTotal == UsedIsTotal
<1> SUFFICES ASSUME StoredTyped
             PROVE  \E g : IsTotal(g, Weights, Stored) /\ UsedStorage = g[Stored]
  BY DEF UsedIsTotal
<1> DEFINE IsIter(g) == g = [s \in SUBSET Stored |->
                   IF s = {} THEN 0
                   ELSE Size[versions[(CHOOSE x \in s : TRUE)[1]][(CHOOSE x \in s : TRUE)[2]].content]
                        + g[s \ {CHOOSE x \in s : TRUE}]]
<1>1. UsedStorage = (CHOOSE g : IsIter(g))[Stored]
  BY Zenon DEF UsedStorage, MapThenSumSet, MapThenFoldSet
<1>2. \A g : IsIter(g) <=> IsTotal(g, Weights, Stored)
  <2> TAKE g
  <2>1. ASSUME NEW T \in SUBSET Stored, T # {}
        PROVE  Weights[AnyOf(T)] = Size[versions[AnyOf(T)[1]][AnyOf(T)[2]].content]
    <3>1. AnyOf(T) \in Stored
      BY <2>1, AnyOfIn
    <3> QED BY <3>1 DEF Weights, Bytes
  <2>2. \A T \in SUBSET Stored :
           (IF T = {} THEN 0 ELSE Weights[AnyOf(T)] + g[T \ {AnyOf(T)}])
           = (IF T = {} THEN 0 ELSE Size[versions[AnyOf(T)[1]][AnyOf(T)[2]].content]
                                   + g[T \ {AnyOf(T)}])
    BY <2>1
  <2>3. IsIter(g) <=> g = [T \in SUBSET Stored |->
           IF T = {} THEN 0 ELSE Size[versions[AnyOf(T)[1]][AnyOf(T)[2]].content]
                                   + g[T \ {AnyOf(T)}]]
    BY Zenon DEF AnyOf
  <2> HIDE DEF IsIter
  <2> QED BY <2>2, <2>3 DEF IsTotal
<1> HIDE DEF IsIter
<1>3. \E g : IsIter(g)
  <2>1. \E g : IsTotal(g, Weights, Stored)
    BY TotalExists DEF StoredTyped
  <2> QED BY <1>2, <2>1
<1>4. IsIter(CHOOSE g : IsIter(g))
  BY <1>3, Zenon
<1> QED BY <1>1, <1>2, <1>4

LEMMA UsedStaysTheTotal == UsedIsTotal'
BY UsedIsTheTotal, PTL

(* What is used grows by what one new version holds. *)
LEMMA UsedGrows ==
    ASSUME StoredTyped, StoredTyped', NEW e, e \notin Stored, Stored' = Stored \cup {e},
           \A v \in Stored : versions'[v[1]][v[2]] = versions[v[1]][v[2]]
    PROVE  UsedStorage' = UsedStorage + Bytes(e)' /\ UsedStorage \in Nat
<1>1. PICK g : IsTotal(g, Weights, Stored) /\ UsedStorage = g[Stored]
  BY UsedIsTheTotal DEF UsedIsTotal
<1>2. PICK h : IsTotal(h, Weights', Stored') /\ UsedStorage' = h[Stored']
  BY UsedStaysTheTotal DEF UsedIsTotal
<1>3. Weights \in [Stored -> Nat] /\ Weights' \in [Stored' -> Nat] /\ IsFiniteSet(Stored) /\ IsFiniteSet(Stored')
  BY DEF StoredTyped, Weights
<1>4. \A v \in Stored : Weights[v] = Weights'[v]
  BY DEF Weights, Bytes
<1>5. g[Stored] = h[Stored]
  BY <1>1, <1>2, <1>3, <1>4, TotalsAgree
<1>6. h[Stored'] = Weights'[e] + h[Stored' \ {e}] /\ h[Stored' \ {e}] \in Nat
  <2>1. PICK R, load : R = Stored' /\ load = Weights'
    OBVIOUS
  <2>2. IsFiniteSet(R) /\ load \in [R -> Nat] /\ IsTotal(h, load, R) /\ e \in R
    BY <1>2, <1>3, <2>1
  <2>3. \A T \in SUBSET R : h[T] \in Nat /\ \A x \in T : h[T] = load[x] + h[T \ {x}]
    BY <2>2, TotalFacts
  <2>4. R \in SUBSET R /\ R \ {e} \in SUBSET R
    OBVIOUS
  <2>5. h[R] = load[e] + h[R \ {e}] /\ h[R \ {e}] \in Nat
    BY <2>2, <2>3, <2>4
  <2> QED BY <2>1, <2>5
<1>7. Stored' \ {e} = Stored /\ Weights'[e] = Bytes(e)' /\ Weights'[e] \in Nat
  BY <1>3 DEF Weights
<1>8. h[Stored' \ {e}] = UsedStorage
  BY <1>1, <1>5, <1>7
<1>9. UsedStorage' = Weights'[e] + UsedStorage /\ UsedStorage \in Nat
  BY <1>2, <1>6, <1>8
<1> QED BY <1>7, <1>9

LEMMA UsedStays ==
    ASSUME UNCHANGED versions
    PROVE  UsedStorage' = UsedStorage /\ Stored' = Stored
BY DEF UsedStorage, Stored, MapThenSumSet, MapThenFoldSet

StorageInv ==
    /\ IsFiniteSet(Stored)
    /\ UsedStorage <= StorageLimit
    /\ \A s \in Sessions : HoldsSubscription(s) =>
          /\ UsedStorage + Size[sess[s].content] <= StorageLimit
          /\ \A t \in Sessions : HoldsSubscription(t) => s = t

LEMMA UsedIsNumber ==
    ASSUME IInv, IsFiniteSet(Stored)
    PROVE  StoredTyped /\ UsedStorage \in Nat
<1>1. StoredTyped
  <2> SUFFICES ASSUME NEW v \in Stored
               PROVE  Bytes(v) \in Nat
    BY DEF StoredTyped
  <2>1. versions[v[1]][v[2]] \in Version
    BY DEF Stored, IInv, TypeOK
  <2> QED BY <2>1, DocumentsAssumption DEF Bytes, Version
<1>2. PICK g : IsTotal(g, Weights, Stored) /\ UsedStorage = g[Stored]
  BY <1>1, UsedIsTheTotal DEF UsedIsTotal
<1>3. Weights \in [Stored -> Nat]
  BY <1>1 DEF StoredTyped, Weights
<1>4. g[Stored] \in Nat
  BY <1>2, <1>3, TotalFacts
<1> QED BY <1>1, <1>2, <1>4

(* A step that stores nothing and after which nobody new has passed the    *)
(* check.                                                                  *)
LEMMA StorageKept ==
    ASSUME StorageInv, UNCHANGED versions,
           \A s \in Sessions : sess'[s] = sess[s] \/ ~(HoldsSubscription(s)')
    PROVE  StorageInv'
<1>1. UsedStorage' = UsedStorage /\ Stored' = Stored
  BY UsedStays
<1>2. PICK u : u = UsedStorage
  OBVIOUS
<1>3. \A s \in Sessions : HoldsSubscription(s)' => HoldsSubscription(s) /\ sess'[s] = sess[s]
  BY DEF HoldsSubscription
<1> QED BY <1>1, <1>3 DEF StorageInv

LEMMA EnsureStorageSafe ==
    ASSUME IInv, StorageInv, NEW s \in Sessions, EnsureStorageCapacity(s)
    PROVE  StorageInv'
<1>1. sess[s] \in Write /\ UNCHANGED versions /\ SubscriptionFree
  BY SessFields DEF EnsureStorageCapacity, IInv, TypeOK, SessState, Writing
<1>2. CASE sess' = [sess EXCEPT ![s] = Idle]
  <2>1. \A t \in Sessions : sess'[t] = sess[t] \/ sess'[t] = Idle
    BY <1>2 DEF IInv, TypeOK
  <2>2. \A t \in Sessions : sess'[t] = sess[t] \/ ~(HoldsSubscription(t)')
    BY <2>1 DEF HoldsSubscription, Idle
  <2> QED BY <1>1, <2>2, StorageKept
<1>3. CASE /\ sess' = [sess EXCEPT ![s] = [sess[s] EXCEPT !.at = "reserved"]]
           /\ ~(UsedStorage + Size[sess[s].content] > StorageLimit)
  <2>1. sess'[s].content = sess[s].content /\ sess'[s].at = "reserved"
        /\ \A t \in Sessions : t # s => sess'[t] = sess[t]
    BY <1>1, <1>3 DEF IInv, TypeOK, Write
  <2>2. \A t \in Sessions : t # s => ~(HoldsSubscription(t)')
    BY <1>1, <2>1 DEF SubscriptionFree, HoldsSubscription
  <2>3. HoldsSubscription(s)' => sess[s].content \in Contents
    BY <1>1, <2>1 DEF HoldsSubscription, Write
  <2>4. UsedStorage' = UsedStorage /\ Stored' = Stored /\ UsedStorage \in Nat
    BY <1>1, UsedStays, UsedIsNumber DEF StorageInv
  <2>5. PICK c : c = sess[s].content
    OBVIOUS
  <2>6. HoldsSubscription(s)' => UsedStorage + Size[c] <= StorageLimit
    BY <1>3, <2>3, <2>4, <2>5, DocumentsAssumption
  <2> QED BY <2>1, <2>2, <2>4, <2>5, <2>6 DEF StorageInv
<1> QED BY <1>2, <1>3 DEF EnsureStorageCapacity

LEMMA CommitStorageSafe ==
    ASSUME IInv, StorageInv, IInv', NEW s \in Sessions, CommitWrite(s)
    PROVE  StorageInv'
<1> DEFINE w == sess[s]
           number == NewNumber(w.seen)
<1>1. w \in Write
  BY SessFields DEF CommitWrite, IInv, TypeOK, SessState, Writing
<1>2. \A t \in Sessions : t # s => sess'[t] = sess[t]
  BY DEF CommitWrite, End, IInv, TypeOK
<1>3. ~(HoldsSubscription(s)')
  <2>1. sess'[s] = Idle
    BY DEF CommitWrite, End, IInv, TypeOK
  <2> QED BY <2>1 DEF HoldsSubscription, Idle
<1>4. CASE w.content = None
  <2>1. UNCHANGED versions
    BY <1>4 DEF CommitWrite
  <2> QED BY <1>2, <1>3, <2>1, StorageKept
<1>5. CASE w.content # None
  <2>1. HoldsSubscription(s)
    BY <1>5 DEF HoldsSubscription, CommitWrite
  <2>2. number \in Numbers /\ versions[w.doc][number] = None
    <3>1. number \in Nat \ {0}
      BY <1>1 DEF NewNumber, Write, Doc, Numbers
    <3> QED BY <1>5, <3>1, DocumentsAssumption DEF CommitWrite, VersionTaken, Numbers
  <2>3. w.doc \in Docs /\ w.content \in Contents /\ w.mime \in Types
    BY <1>1, <1>5 DEF Write
  <2>4. versions' = [versions EXCEPT ![w.doc][number] = [content |-> w.content, type |-> w.mime]]
    BY <1>5 DEF CommitWrite
  <2>5. [content |-> w.content, type |-> w.mime] # None
    BY <2>3, DocumentsAssumption DEF Version
  <2> HIDE DEF number
  <2>6. \A d \in Docs, n \in Numbers : versions'[d][n] =
           IF d = w.doc /\ n = number THEN [content |-> w.content, type |-> w.mime] ELSE versions[d][n]
    BY <2>2, <2>3, <2>4 DEF IInv, TypeOK
  <2> PICK e : e = <<w.doc, number>>
    OBVIOUS
  <2>7. e \notin Stored /\ e \in Docs \X Numbers
    BY <2>2, <2>3 DEF Stored
  <2>8. \A v \in Docs \X Numbers : v # e => versions'[v[1]][v[2]] = versions[v[1]][v[2]]
    <3> TAKE v \in Docs \X Numbers
    <3>1. v[1] \in Docs /\ v[2] \in Numbers /\ v = <<v[1], v[2]>>
      OBVIOUS
    <3> QED BY <2>6, <3>1
  <2>9. versions'[e[1]][e[2]] # None /\ Bytes(e)' = Size[w.content]
    BY <2>2, <2>3, <2>5, <2>6 DEF Bytes
  <2>10. Stored' = Stored \cup {e}
    BY <2>7, <2>8, <2>9 DEF Stored
  <2>11. IsFiniteSet(Stored')
    BY <2>10, FS_AddElement DEF StorageInv
  <2>12. StoredTyped /\ StoredTyped'
    <3>1. StoredTyped
      BY UsedIsNumber DEF StorageInv
    <3>2. \A v \in Stored : Bytes(v)' = Bytes(v)
      BY <2>7, <2>8 DEF Stored, Bytes
    <3>3. Bytes(e)' \in Nat
      BY <2>3, <2>9, DocumentsAssumption
    <3> QED BY <2>10, <2>11, <3>1, <3>2, <3>3 DEF StoredTyped
  <2>13. \A v \in Stored : versions'[v[1]][v[2]] = versions[v[1]][v[2]]
    BY <2>7, <2>8 DEF Stored
  <2>14. UsedStorage' = UsedStorage + Bytes(e)'
    BY <2>7, <2>10, <2>12, <2>13, UsedGrows
  <2>15. UsedStorage' <= StorageLimit
    BY <2>1, <2>9, <2>14 DEF StorageInv
  <2>16. \A t \in Sessions : ~(HoldsSubscription(t)')
    <3> TAKE t \in Sessions
    <3>1. t # s => ~HoldsSubscription(t)
      BY <2>1 DEF StorageInv
    <3> QED BY <1>2, <1>3, <3>1 DEF HoldsSubscription
  <2> QED BY <2>11, <2>15, <2>16 DEF StorageInv
<1> QED BY <1>4, <1>5

LEMMA StorageStepSafe ==
    ASSUME IInv, StorageInv, [Next]_vars
    PROVE  StorageInv'
<1>1. CASE UNCHANGED vars
  BY <1>1, StorageKept DEF vars
<1>2. ASSUME NEW s \in Sessions, NEW x, sess' = [sess EXCEPT ![s] = x],
             x.at # "reserved" \/ x.content = None, UNCHANGED versions
      PROVE  StorageInv'
  <2>1. \A t \in Sessions : sess'[t] = IF t = s THEN x ELSE sess[t]
    BY <1>2 DEF IInv, TypeOK
  <2>2. \A t \in Sessions : sess'[t] = sess[t] \/ ~(HoldsSubscription(t)')
    BY <1>2, <2>1 DEF HoldsSubscription
  <2> QED BY <1>2, <2>2, StorageKept
<1>3. Idle.at # "reserved"
  BY DEF Idle
<1>4. ASSUME NEW s \in Sessions, NEW c, NEW n, NEW t, NEW x, PutDeliverable(s, c, n, t, x)
      PROVE  StorageInv'
  <2>1. PICK k \in Comps, d \in Docs :
           sess' = [sess EXCEPT ![s] =
                [at |-> IF docs[d] # None /\ CurrentContent(d) = x
                        THEN "reserved" ELSE "checked",
                 doc |-> d, seen |-> docs[d],
                 comp |-> k, compName |-> IF comps[k] = None THEN c ELSE None,
                 name |-> n, type |-> t,
                 content |-> IF docs[d] # None /\ CurrentContent(d) = x
                             THEN None ELSE x,
                 mime |-> t]]
    BY <1>4, Zenon DEF PutDeliverable
  <2>2. UNCHANGED versions
    BY <1>4, Zenon DEF PutDeliverable
  <2> DEFINE y == [at |-> IF docs[d] # None /\ CurrentContent(d) = x
                        THEN "reserved" ELSE "checked",
                 doc |-> d, seen |-> docs[d],
                 comp |-> k, compName |-> IF comps[k] = None THEN c ELSE None,
                 name |-> n, type |-> t,
                 content |-> IF docs[d] # None /\ CurrentContent(d) = x
                             THEN None ELSE x,
                 mime |-> t]
  <2>3. y.at # "reserved" \/ y.content = None
    OBVIOUS
  <2>4. sess' = [sess EXCEPT ![s] = y]
    BY <2>1
  <2> HIDE DEF y
  <2> QED BY <1>2, <2>2, <2>3, <2>4
<1>5. ASSUME NEW s \in Sessions, NEW d, NEW v, RollbackDeliverable(s, d, v)
      PROVE  StorageInv'
  <2> DEFINE x == [at |-> "checked", doc |-> d, seen |-> docs[d],
                   comp |-> docs[d].comp, compName |-> None, name |-> docs[d].name,
                   type |-> docs[d].type, content |-> versions[d][v].content,
                   mime |-> versions[d][v].type]
  <2>1. sess' = [sess EXCEPT ![s] = x] /\ x.at # "reserved" /\ UNCHANGED versions
    BY <1>5 DEF RollbackDeliverable
  <2> HIDE DEF x
  <2> QED BY <1>2, <2>1
<1>6. ASSUME NEW s \in Sessions, NEW d, NEW n, NEW c, LoadDeliverable(s, d, n, c)
      PROVE  StorageInv'
  <2> DEFINE x == [at |-> "editing", doc |-> d, seen |-> docs[d], name |-> n, comp |-> c]
  <2>1. sess' = [sess EXCEPT ![s] = x] /\ x.at # "reserved" /\ UNCHANGED versions
    BY <1>6 DEF LoadDeliverable
  <2> HIDE DEF x
  <2> QED BY <1>2, <2>1
<1>7. ASSUME NEW s \in Sessions, UpdateDeliverable(s) \/ Fail(s)
      PROVE  StorageInv'
  BY <1>2, <1>3, <1>7 DEF UpdateDeliverable, Fail, End
<1>8. ASSUME NEW s \in Sessions, CommitWrite(s)
      PROVE  StorageInv'
  BY <1>8, StepSafe, CommitStorageSafe
<1>9. ASSUME NEW c, NEW n, UpsertCompartment(c, n)
      PROVE  StorageInv'
  BY <1>9, StorageKept DEF UpsertCompartment
<1> QED BY <1>1, <1>4, <1>5, <1>6, <1>7, <1>8, <1>9, EnsureStorageSafe DEF Next, Step

LEMMA StorageInitSafe == Init => StorageInv
<1> SUFFICES ASSUME Init
             PROVE  StorageInv
  OBVIOUS
<1>1. Stored = {} /\ IsFiniteSet(Stored)
  BY FS_EmptySet DEF Init, Stored
<1>2. UsedStorage = 0
  <2>1. StoredTyped
    BY <1>1 DEF StoredTyped
  <2>2. PICK g : IsTotal(g, Weights, Stored) /\ UsedStorage = g[Stored]
    BY <2>1, UsedIsTheTotal DEF UsedIsTotal
  <2> QED BY <1>1, <2>2 DEF IsTotal
<1>3. \A s \in Sessions : ~HoldsSubscription(s)
  BY DEF Init, HoldsSubscription, Idle
<1> QED BY <1>1, <1>2, <1>3, DocumentsAssumption DEF StorageInv

(* However many uploads and rollbacks check the storage at once, what is   *)
(* stored stays within the plan: the one that passes keeps the             *)
(* subscription locked until it commits (plans.py:261-268), and no other   *)
(* version is stored in between.                                           *)
THEOREM DocumentsStorageWithinLimit == Spec => []StorageWithinLimit
<1>1. Init => StorageInv
  BY StorageInitSafe
<1>2. IInv /\ StorageInv /\ [Next]_vars => StorageInv'
  BY StorageStepSafe
<1>3. StorageInv => StorageWithinLimit
  BY DEF StorageInv, StorageWithinLimit
<1> QED BY <1>1, <1>2, <1>3, DocumentsInductive, PTL DEF Spec

(***************************************************************************)
(* PlanTree.                                                               *)
(***************************************************************************)

(* The recursion of ChainUp, up to a number. *)
Above(S) == S \cup ({tasks[u].parent : u \in S} \ {None})

IsUp(f, t, k) == f = [n \in 0..k |-> IF n = 0 THEN {t} ELSE Above(f[n - 1])]

LEMMA UpExists ==
    ASSUME NEW t, NEW k \in Nat
    PROVE  \E f : IsUp(f, t, k)
<1> DEFINE S == {n \in Nat : \E f : IsUp(f, t, n)}
<1>1. 0 \in S
  <2> DEFINE f == [n \in 0..0 |-> {t}]
  <2>1. IsUp(f, t, 0)
    BY DEF IsUp
  <2> QED BY <2>1
<1>2. ASSUME NEW n \in S
      PROVE  n + 1 \in S
  <2>1. PICK f : IsUp(f, t, n)
    OBVIOUS
  <2> DEFINE g == [m \in 0..(n + 1) |-> IF m = n + 1 THEN Above(f[n]) ELSE f[m]]
  <2>2. (\A m \in 0..n : g[m] = f[m]) /\ g[n + 1] = Above(f[n])
    OBVIOUS
  <2>3. \A m \in 0..n : f[m] = IF m = 0 THEN {t} ELSE Above(f[m - 1])
    BY <2>1 DEF IsUp
  <2>4. ASSUME NEW m \in 0..(n + 1)
        PROVE  g[m] = IF m = 0 THEN {t} ELSE Above(g[m - 1])
    <3>1. CASE m = n + 1
      <4>1. m # 0 /\ m - 1 = n /\ g[n] = f[n]
        BY <3>1, <2>2
      <4> QED BY <2>2, <3>1, <4>1
    <3>2. CASE m \in 0..n
      <4>1. g[m] = f[m] /\ (m # 0 => g[m - 1] = f[m - 1])
        BY <3>2, <2>2
      <4> QED BY <2>3, <3>2, <4>1
    <3> QED BY <3>1, <3>2
  <2>5. IsUp(g, t, n + 1)
    BY <2>4 DEF IsUp
  <2> QED BY <2>5
<1> HIDE DEF S
<1>3. S \in SUBSET Nat
  BY DEF S
<1>4. S = Nat
  BY <1>1, <1>2, <1>3, NatSetInduction
<1> QED BY <1>4 DEF S

(* No task goes under one that is not there. *)
ParentsThere ==
    \A u \in DOMAIN tasks : tasks[u].parent # None => tasks[u].parent \in DOMAIN tasks

(* A set of tasks that holds the parents of its own. *)
Closed(S) == \A u \in S \cap DOMAIN tasks : tasks[u].parent # None => tasks[u].parent \in S

LEMMA TasksFinite == IsFiniteSet(Tasks) /\ Cardinality(Tasks) \in Nat
<1>1. TaskOrder \in Seq(Tasks) /\ Tasks = {TaskOrder[n] : n \in 1..Len(TaskOrder)}
  BY PlanTreeAssumption DEF Range
<1>2. IsFiniteSet(1..Len(TaskOrder))
  BY <1>1, FS_Interval
<1>3. IsFiniteSet({TaskOrder[n] : n \in 1..Len(TaskOrder)})
  <2> DEFINE f == [n \in 1..Len(TaskOrder) |-> TaskOrder[n]]
  <2>1. f \in Surjection(1..Len(TaskOrder), {TaskOrder[n] : n \in 1..Len(TaskOrder)})
    BY DEF Surjection
  <2> QED BY <1>2, <2>1, FS_Surjection
<1> QED BY <1>1, <1>3, FS_CardinalityType

(* What the loop of ChainUp computes: the smallest set with the task and   *)
(* with the parents of its own.  It has stopped growing by then, as it     *)
(* cannot have more members than there are tasks.                          *)
LEMMA ChainUpFacts ==
    ASSUME tasks \in [DOMAIN tasks -> Task], DOMAIN tasks \subseteq Tasks, ParentsThere,
           NEW t \in DOMAIN tasks
    PROVE  /\ t \in ChainUp(t) /\ ChainUp(t) \subseteq DOMAIN tasks
           /\ Closed(ChainUp(t))
           /\ \A S : t \in S /\ Closed(S) => ChainUp(t) \subseteq S
           /\ IsFiniteSet(ChainUp(t)) /\ Cardinality(ChainUp(t)) \in Nat
<1> DEFINE N == Cardinality(Tasks)
<1>1. N \in Nat /\ IsFiniteSet(Tasks)
  BY TasksFinite
<1> DEFINE up == CHOOSE f : IsUp(f, t, N)
<1>2. IsUp(up, t, N)
  BY <1>1, UpExists
<1>3. ChainUp(t) = up[N]
  BY Zenon DEF ChainUp, IsUp, Above
<1> HIDE DEF up, N
<1>4. up[0] = {t} /\ \A n \in 0..N : n + 1 \in 0..N => up[n + 1] = Above(up[n])
  <2>1. \A n \in 0..N : up[n] = IF n = 0 THEN {t} ELSE Above(up[n - 1])
    BY <1>2 DEF IsUp
  <2>2. ASSUME NEW n \in 0..N, n + 1 \in 0..N
        PROVE  up[n + 1] = Above(up[n])
    <3>1. n + 1 # 0 /\ (n + 1) - 1 = n
      BY <1>1
    <3>2. up[n + 1] = IF n + 1 = 0 THEN {t} ELSE Above(up[(n + 1) - 1])
      BY <2>1, <2>2
    <3> QED BY <3>1, <3>2
  <2> QED BY <1>1, <2>1, <2>2
<1>5. \A S : S \subseteq DOMAIN tasks => Above(S) \subseteq DOMAIN tasks
  BY DEF Above, ParentsThere
<1>6. \A S : S \subseteq DOMAIN tasks => (Closed(S) <=> Above(S) = S)
  BY DEF Above, Closed
<1>7. \A n \in Nat : n \in 0..N =>
        /\ t \in up[n] /\ up[n] \subseteq DOMAIN tasks
        /\ \A S : t \in S /\ Closed(S) => up[n] \subseteq S
        /\ Closed(up[n]) \/ Cardinality(up[n]) >= n + 1
  <2> DEFINE P(n) == n \in 0..N =>
        /\ t \in up[n] /\ up[n] \subseteq DOMAIN tasks
        /\ \A S : t \in S /\ Closed(S) => up[n] \subseteq S
        /\ Closed(up[n]) \/ Cardinality(up[n]) >= n + 1
  <2>1. P(0)
    <3>1. Cardinality({t}) = 1
      BY FS_Singleton
    <3> QED BY <1>4, <3>1
  <2>2. ASSUME NEW n \in Nat, P(n)
        PROVE  P(n + 1)
    <3> SUFFICES ASSUME n + 1 \in 0..N
                 PROVE  /\ t \in up[n + 1] /\ up[n + 1] \subseteq DOMAIN tasks
                        /\ \A S : t \in S /\ Closed(S) => up[n + 1] \subseteq S
                        /\ Closed(up[n + 1]) \/ Cardinality(up[n + 1]) >= (n + 1) + 1
      OBVIOUS
    <3>1. n \in 0..N /\ up[n + 1] = Above(up[n])
      BY <1>1, <1>4
    <3>2. t \in up[n] /\ up[n] \subseteq DOMAIN tasks /\ up[n] \subseteq up[n + 1]
      BY <2>2, <3>1 DEF Above
    <3>3. t \in up[n + 1] /\ up[n + 1] \subseteq DOMAIN tasks
      BY <1>5, <3>1, <3>2
    <3>4. ASSUME NEW S, t \in S, Closed(S)
          PROVE  up[n + 1] \subseteq S
      <4>1. up[n] \subseteq S
        BY <2>2, <3>1, <3>4
      <4> QED BY <3>1, <3>2, <3>4, <4>1 DEF Above, Closed
    <3>5. CASE Closed(up[n])
      <4>1. up[n + 1] = up[n]
        BY <1>6, <3>1, <3>2, <3>5
      <4> QED BY <3>3, <3>4, <3>5, <4>1
    <3>6. CASE ~Closed(up[n])
      <4>1. Cardinality(up[n]) >= n + 1
        BY <2>2, <3>1, <3>6
      <4>2. up[n + 1] # up[n]
        BY <1>6, <3>1, <3>2, <3>6
      <4>3. IsFiniteSet(up[n + 1])
        BY <1>1, <3>3, FS_Subset
      <4>4. Cardinality(up[n]) <= Cardinality(up[n + 1]) /\ Cardinality(up[n]) # Cardinality(up[n + 1])
            /\ Cardinality(up[n]) \in Nat /\ Cardinality(up[n + 1]) \in Nat
        BY <3>2, <4>2, <4>3, FS_Subset, FS_CardinalityType
      <4> QED BY <3>3, <3>4, <4>1, <4>4
    <3> QED BY <3>5, <3>6
  <2> DEFINE S == {n \in Nat : P(n)}
  <2> HIDE DEF P
  <2>3. S = Nat
    <3>1. 0 \in S /\ \A n \in S : n + 1 \in S
      BY <2>1, <2>2
    <3> QED BY <3>1, NatSetInduction
  <2>4. \A n \in Nat : P(n)
    BY <2>3
  <2> QED BY <2>4 DEF P
<1>8. /\ t \in up[N] /\ up[N] \subseteq DOMAIN tasks
      /\ \A S : t \in S /\ Closed(S) => up[N] \subseteq S
      /\ Closed(up[N]) \/ Cardinality(up[N]) >= N + 1
  BY <1>1, <1>7
<1>9. IsFiniteSet(up[N]) /\ Cardinality(up[N]) <= N /\ Cardinality(up[N]) \in Nat
  BY <1>1, <1>8, FS_Subset, FS_CardinalityType DEF N
<1> QED BY <1>1, <1>3, <1>8, <1>9

-----------------------------------------------------------------------------
TaskWork == [at : {"task"}, task : Tasks, new : BOOLEAN, parent : Tasks \cup {None}, edit : Edits]
PendingWork == [at : {"pending"}, pending : Pendings, seen : Pending]
PlanWork == {Idle} \cup TaskWork \cup PendingWork

PlanTypes ==
    /\ DOMAIN tasks \subseteq Tasks /\ tasks \in [DOMAIN tasks -> Task]
    /\ DOMAIN pendings \subseteq Pendings /\ pendings \in [DOMAIN pendings -> Pending]
    /\ sess \in [Sessions -> PlanWork]
    /\ slipped \subseteq {"overlap", "subtree"} \cup Pendings

(* The task may go under the parent: it is not above it, and there is a    *)
(* level left.                                                             *)
Fits(t, parent) ==
    t \notin ChainUp(parent) /\ Cardinality(ChainUp(parent)) + 1 <= MaxPlanDepth

(* What a session checked of a task holds until two moves overlap, unless  *)
(* the parent is gone; one that comes back has nothing above it.           *)
TaskChecked(x) ==
    /\ x.new => x.task \notin DOMAIN tasks
    /\ x.parent # None => \/ "overlap" \in slipped
                          \/ /\ x.parent # x.task /\ 2 <= MaxPlanDepth
                             /\ x.parent \in DOMAIN tasks => Fits(x.task, x.parent)

(* A session that alone has a pending knows its status and date.           *)
PendingSeen(x) ==
    x.pending \in DOMAIN pendings /\ x.pending \notin slipped =>
        /\ x.seen.status = pendings[x.pending].status
        /\ x.seen.closed = pendings[x.pending].closed

Prepared(x) == (x.at = "task" => TaskChecked(x)) /\ (x.at = "pending" => PendingSeen(x))

(* Only one session makes the task of an id. *)
NewAlone ==
    \A s, o \in Sessions :
        sess[s].at = "task" /\ sess[o].at = "task" /\ sess[s].new /\ sess[s].task = sess[o].task
        => s = o

(* No tasks whose parents are all among them: a forest, seen from below.   *)
NoLoop ==
    \A S \in SUBSET DOMAIN tasks : S # {} => \E u \in S : tasks[u].parent \notin S

PlanInv ==
    /\ PlanTypes
    /\ ParentsThere /\ PendingsHaveTasks /\ DatedUnlessOverlap
    /\ \A s \in Sessions : Prepared(sess[s])
    /\ NewAlone
    /\ "overlap" \in slipped \/ NoLoop
    /\ DepthUnlessMoved

-----------------------------------------------------------------------------
TreeTypes == DOMAIN tasks \subseteq Tasks /\ tasks \in [DOMAIN tasks -> Task] /\ ParentsThere

(* ChainUpFacts, of whatever the tasks are. *)
ChainsSound ==
    TreeTypes => \A t \in DOMAIN tasks :
        /\ t \in ChainUp(t) /\ ChainUp(t) \subseteq DOMAIN tasks
        /\ Closed(ChainUp(t))
        /\ \A S : t \in S /\ Closed(S) => ChainUp(t) \subseteq S
        /\ IsFiniteSet(ChainUp(t)) /\ Cardinality(ChainUp(t)) \in Nat

LEMMA ChainsAreSound == ChainsSound
BY ChainUpFacts DEF ChainsSound, TreeTypes

LEMMA ChainsStaySound == ChainsSound'
BY ChainsAreSound, PTL

(* In a forest every task is below a root. *)
LEMMA NoLoopRooted ==
    ASSUME TreeTypes, NoLoop, NEW t \in DOMAIN tasks
    PROVE  Rooted(t)
<1>1. ChainUp(t) # {} /\ ChainUp(t) \in SUBSET DOMAIN tasks /\ Closed(ChainUp(t))
  BY ChainsAreSound DEF ChainsSound
<1>2. PICK u \in ChainUp(t) : tasks[u].parent \notin ChainUp(t)
  BY <1>1 DEF NoLoop
<1>3. tasks[u].parent = None
  BY <1>1, <1>2 DEF Closed
<1> QED BY <1>3 DEF Rooted

(* A chain in the next state is within any set that is closed there. *)
LEMMA ChainWithin ==
    ASSUME TreeTypes', NEW t \in DOMAIN tasks', NEW S, t \in S, IsFiniteSet(S),
           \A u \in S \cap DOMAIN tasks' : tasks'[u].parent # None => tasks'[u].parent \in S
    PROVE  ChainUp(t)' \subseteq S /\ Cardinality(ChainUp(t)') <= Cardinality(S)
<1>1. Closed(S)'
  BY DEF Closed
<1>2. ChainUp(t)' \subseteq S
  BY <1>1, ChainsStaySound DEF ChainsSound
<1> QED BY <1>2, FS_Subset

(* A step that moves no task: what is left keeps its parent, what is new   *)
(* has none.                                                               *)
LEMMA NothingMoves ==
    ASSUME TreeTypes, TreeTypes',
           \A u \in DOMAIN tasks' : IF u \in DOMAIN tasks THEN tasks'[u].parent = tasks[u].parent
                                    ELSE tasks'[u].parent = None
    PROVE  /\ NoLoop => NoLoop'
           /\ \A t \in DOMAIN tasks' : /\ Cardinality(ChainUp(t)') \in Nat
                                       /\ IF t \in DOMAIN tasks
                                          THEN /\ ChainUp(t)' \subseteq ChainUp(t)
                                               /\ Cardinality(ChainUp(t)') <= Cardinality(ChainUp(t))
                                          ELSE /\ ChainUp(t)' \subseteq {t}
                                               /\ Cardinality(ChainUp(t)') <= 1
<1>1. ASSUME NoLoop, NEW S \in SUBSET DOMAIN tasks', S # {}
      PROVE  \E u \in S : tasks'[u].parent \notin S
  <2>1. CASE S \subseteq DOMAIN tasks
    BY <1>1, <2>1 DEF NoLoop
  <2>2. ASSUME NEW u \in S, u \notin DOMAIN tasks
        PROVE  tasks'[u].parent \notin S
    <3>1. tasks'[u].parent = None /\ S \subseteq Tasks
      BY <1>1, <2>2 DEF TreeTypes
    <3> QED BY <3>1, PlanTreeAssumption
  <2> QED BY <2>1, <2>2
<1>2. NoLoop => NoLoop'
  BY <1>1 DEF NoLoop
<1>3. ASSUME NEW t \in DOMAIN tasks', t \in DOMAIN tasks
      PROVE  ChainUp(t)' \subseteq ChainUp(t) /\ Cardinality(ChainUp(t)') <= Cardinality(ChainUp(t))
  <2>1. t \in ChainUp(t) /\ ChainUp(t) \subseteq DOMAIN tasks /\ Closed(ChainUp(t)) /\ IsFiniteSet(ChainUp(t))
    BY <1>3, ChainsAreSound DEF ChainsSound
  <2>2. \A u \in ChainUp(t) \cap DOMAIN tasks' : tasks'[u].parent # None => tasks'[u].parent \in ChainUp(t)
    BY <2>1 DEF Closed
  <2> QED BY <2>1, <2>2, ChainWithin
<1>4. ASSUME NEW t \in DOMAIN tasks', t \notin DOMAIN tasks
      PROVE  ChainUp(t)' \subseteq {t} /\ Cardinality(ChainUp(t)') <= 1
  <2>1. IsFiniteSet({t}) /\ Cardinality({t}) = 1
    BY FS_Singleton
  <2>2. \A u \in {t} \cap DOMAIN tasks' : tasks'[u].parent # None => tasks'[u].parent \in {t}
    BY <1>4
  <2> QED BY <2>1, <2>2, ChainWithin
<1>5. \A t \in DOMAIN tasks' : Cardinality(ChainUp(t)') \in Nat
  BY ChainsStaySound DEF ChainsSound
<1> QED BY <1>2, <1>3, <1>4, <1>5

(* What that means for the invariant. *)
LEMMA TreeKept ==
    ASSUME PlanInv, TreeTypes', slipped \cap {"overlap", "subtree"} \subseteq slipped',
           \A u \in DOMAIN tasks' : IF u \in DOMAIN tasks THEN tasks'[u].parent = tasks[u].parent
                                    ELSE tasks'[u].parent = None
    PROVE  /\ "overlap" \in slipped' \/ NoLoop'
           /\ DepthUnlessMoved'
           /\ \A t, p : p \in DOMAIN tasks' /\ p # t /\ 2 <= MaxPlanDepth /\ (p \in DOMAIN tasks => Fits(t, p))
                 => Fits(t, p)'
<1>1. TreeTypes
  BY DEF PlanInv, PlanTypes, TreeTypes
<1>2. "overlap" \in slipped' \/ NoLoop'
  BY <1>1, NothingMoves DEF PlanInv
<1>3. DepthUnlessMoved'
  <2> SUFFICES ASSUME slipped' \cap {"overlap", "subtree"} = {}, NEW t \in DOMAIN tasks'
               PROVE  Cardinality(ChainUp(t)') <= MaxPlanDepth
    BY DEF DepthUnlessMoved
  <2>1. \A u \in DOMAIN tasks : Cardinality(ChainUp(u)) <= MaxPlanDepth /\ Cardinality(ChainUp(u)) \in Nat
    BY <1>1, ChainsAreSound DEF PlanInv, DepthUnlessMoved, ChainsSound
  <2>2. MaxPlanDepth \in Nat /\ 1 <= MaxPlanDepth
    BY PlanTreeAssumption
  <2>3. Cardinality(ChainUp(t)') \in Nat /\ Cardinality(ChainUp(t)') <= MaxPlanDepth
    <3>1. CASE t \in DOMAIN tasks
      BY <1>1, <2>1, <2>2, <3>1, NothingMoves
    <3>2. CASE t \notin DOMAIN tasks
      BY <1>1, <2>2, <3>2, NothingMoves
    <3> QED BY <3>1, <3>2
  <2> QED BY <2>3
<1>4. ASSUME NEW t, NEW p, p \in DOMAIN tasks', p # t, 2 <= MaxPlanDepth, p \in DOMAIN tasks => Fits(t, p)
      PROVE  Fits(t, p)'
  <2>1. MaxPlanDepth \in Nat /\ Cardinality(ChainUp(p)') \in Nat
    BY <1>1, <1>4, PlanTreeAssumption, NothingMoves
  <2>2. CASE p \in DOMAIN tasks
    <3>1. Cardinality(ChainUp(p)) \in Nat
      BY <1>1, <2>2, ChainsAreSound DEF ChainsSound
    <3>2. ChainUp(p)' \subseteq ChainUp(p) /\ Cardinality(ChainUp(p)') <= Cardinality(ChainUp(p))
      BY <1>1, <1>4, <2>2, NothingMoves
    <3> QED BY <1>4, <2>1, <2>2, <3>1, <3>2 DEF Fits
  <2>3. CASE p \notin DOMAIN tasks
    <3>1. ChainUp(p)' \subseteq {p} /\ Cardinality(ChainUp(p)') <= 1
      BY <1>1, <1>4, <2>3, NothingMoves
    <3> QED BY <1>4, <2>1, <3>1 DEF Fits
  <2> QED BY <2>2, <2>3
<1> QED BY <1>2, <1>3, <1>4

-----------------------------------------------------------------------------
(* What a session is from where it is. *)
LEMMA PlanWorkFields ==
    ASSUME NEW x \in PlanWork
    PROVE  /\ x.at = "idle" => x = Idle
           /\ x.at = "task" => x \in TaskWork
           /\ x.at = "pending" => x \in PendingWork
           /\ x # Idle => x.at # "idle"
           /\ x.at \in {"idle", "task", "pending"}
BY DEF PlanWork, TaskWork, PendingWork, Idle

LEMMA IdlePrepared == Idle \in PlanWork /\ Prepared(Idle) /\ Idle.at = "idle"
BY DEF Prepared, Idle, PlanWork

(* A step that moves one session and writes nothing. *)
LEMMA WorkMoves ==
    ASSUME PlanInv, NEW s \in Sessions, NEW x \in PlanWork,
           sess' = [sess EXCEPT ![s] = x], UNCHANGED <<tasks, pendings, slipped>>,
           Prepared(x),
           x.at = "task" => \/ x.task \in DOMAIN tasks /\ ~x.new
                            \/ \A o \in Sessions : sess[o].at = "task" => sess[o].task # x.task
    PROVE  PlanInv'
<1>1. \A o \in Sessions : sess'[o] = IF o = s THEN x ELSE sess[o]
  BY DEF PlanInv, PlanTypes
<1>2. PlanTypes'
  BY DEF PlanInv, PlanTypes
<1>3. ParentsThere' /\ PendingsHaveTasks' /\ DatedUnlessOverlap'
  BY DEF PlanInv, ParentsThere, PendingsHaveTasks, DatedUnlessOverlap
<1>4. \A o \in Sessions : Prepared(sess[o])'
  <2> TAKE o \in Sessions
  <2>1. Prepared(sess'[o])
    BY <1>1 DEF PlanInv
  <2> QED BY <2>1 DEF Prepared, TaskChecked, PendingSeen, Fits, ChainUp
<1>5. ASSUME NEW o \in Sessions, NEW v \in Sessions, sess'[o].at = "task", sess'[v].at = "task",
             sess'[o].new, sess'[o].task = sess'[v].task
      PROVE  o = v
  <2>1. CASE o # s /\ v # s
    BY <1>1, <1>5, <2>1 DEF PlanInv, NewAlone
  <2>2. CASE o = s /\ v # s
    BY <1>1, <1>5, <2>2 DEF PlanInv, Prepared, TaskChecked
  <2>3. CASE o # s /\ v = s
    <3>1. Prepared(sess[o])
      BY DEF PlanInv
    <3> QED BY <1>1, <1>5, <2>3, <3>1 DEF Prepared, TaskChecked
  <2> QED BY <2>1, <2>2, <2>3
<1>6. ("overlap" \in slipped' \/ NoLoop') /\ DepthUnlessMoved'
  <2>1. TreeTypes'
    BY <1>2, <1>3 DEF PlanTypes, TreeTypes
  <2> QED BY <2>1, TreeKept
<1> QED BY <1>2, <1>3, <1>4, <1>5, <1>6 DEF PlanInv, NewAlone

LEMMA UpsertTaskSafe ==
    ASSUME PlanInv, NEW s \in Sessions, NEW t \in Tasks, NEW parent \in Tasks \cup {None},
           NEW edit \in Edits, UpsertPlanTask(s, t, parent, edit)
    PROVE  PlanInv'
<1> DEFINE x == [at |-> "task", task |-> t, new |-> t \notin DOMAIN tasks,
                 parent |-> parent, edit |-> edit]
<1>1. x \in PlanWork
  BY DEF PlanWork, TaskWork
<1>2. sess' = [sess EXCEPT ![s] = x] /\ UNCHANGED <<tasks, pendings, slipped>>
  BY DEF UpsertPlanTask
<1>3. parent # None => parent \in DOMAIN tasks /\ Fits(t, parent)
  BY DEF UpsertPlanTask, ParentAllowed, Fits
<1>4. parent # None => parent # t /\ 2 <= MaxPlanDepth
  <2> SUFFICES ASSUME parent # None
               PROVE  parent # t /\ 2 <= MaxPlanDepth
    OBVIOUS
  <2>1. parent \in ChainUp(parent) /\ IsFiniteSet(ChainUp(parent)) /\ Cardinality(ChainUp(parent)) \in Nat
    BY <1>3, ChainsAreSound DEF ChainsSound, TreeTypes, PlanInv, PlanTypes
  <2>2. Cardinality(ChainUp(parent)) # 0
    BY <2>1, FS_EmptySet
  <2> QED BY <1>3, <2>1, <2>2, PlanTreeAssumption DEF Fits
<1>5. TaskChecked(x)
  BY <1>3, <1>4 DEF TaskChecked
<1>6. Prepared(x)
  BY <1>5 DEF Prepared
<1>7. x.at = "task" => \/ x.task \in DOMAIN tasks /\ ~x.new
                       \/ \A o \in Sessions : sess[o].at = "task" => sess[o].task # x.task
  <2>1. \A o \in Sessions : sess[o].at = "task" => o \in OnTask
    BY IdlePrepared DEF OnTask
  <2>2. t \in DOMAIN tasks \/ \A o \in OnTask : sess[o].task # t
    BY DEF UpsertPlanTask
  <2> QED BY <2>1, <2>2
<1> HIDE DEF x
<1> QED BY <1>1, <1>2, <1>6, <1>7, WorkMoves

LEMMA LoadPendingSafe ==
    ASSUME PlanInv, NEW s \in Sessions, NEW p \in Pendings, LoadPending(s, p)
    PROVE  PlanInv'
<1> DEFINE x == [at |-> "pending", pending |-> p, seen |-> pendings[p]]
<1>1. x \in PlanWork
  BY DEF PlanWork, PendingWork, LoadPending, PlanInv, PlanTypes
<1>2. Prepared(x) /\ x.at # "task"
  BY DEF Prepared, PendingSeen
<1>3. sess' = [sess EXCEPT ![s] = x] /\ UNCHANGED <<tasks, pendings, slipped>>
  BY DEF LoadPending
<1> HIDE DEF x
<1> QED BY <1>1, <1>2, <1>3, WorkMoves

LEMMA PlanFailSafe ==
    ASSUME PlanInv, NEW s \in Sessions, PlanFail(s)
    PROVE  PlanInv'
BY IdlePrepared, WorkMoves DEF PlanFail, End

-----------------------------------------------------------------------------
(* A step that moves no task and in which every session ends or stays.     *)
LEMMA QuietSafe ==
    ASSUME PlanInv, PlanTypes', ParentsThere', PendingsHaveTasks', DatedUnlessOverlap',
           slipped \cap {"overlap", "subtree"} \subseteq slipped',
           \A u \in DOMAIN tasks' : IF u \in DOMAIN tasks THEN tasks'[u].parent = tasks[u].parent
                                    ELSE tasks'[u].parent = None,
           \A o \in Sessions : sess'[o] # Idle =>
              /\ sess'[o] = sess[o]
              /\ sess[o].at = "task" /\ sess[o].new => sess[o].task \notin DOMAIN tasks'
              /\ sess[o].at = "pending" => PendingSeen(sess[o])'
    PROVE  PlanInv'
<1>1. TreeTypes'
  BY DEF PlanTypes, TreeTypes
<1>2. /\ "overlap" \in slipped' \/ NoLoop'
      /\ DepthUnlessMoved'
      /\ \A t, p : p \in DOMAIN tasks' /\ p # t /\ 2 <= MaxPlanDepth /\ (p \in DOMAIN tasks => Fits(t, p))
                 => Fits(t, p)'
  BY <1>1, TreeKept
<1>3. \A o \in Sessions : Prepared(sess[o])'
  <2> TAKE o \in Sessions
  <2>1. CASE sess'[o] = Idle
    BY <2>1, IdlePrepared DEF Prepared
  <2>2. CASE sess'[o] # Idle
    <3>1. sess'[o] = sess[o] /\ Prepared(sess[o])
      BY <2>2 DEF PlanInv
    <3>2. PICK x : x = sess[o]
      OBVIOUS
    <3>3. x.at = "task" => TaskChecked(x)'
      <4> SUFFICES ASSUME x.at = "task"
                   PROVE  TaskChecked(x)'
        OBVIOUS
      <4>1. TaskChecked(x) /\ (x.new => x.task \notin DOMAIN tasks')
        BY <2>2, <3>1, <3>2 DEF Prepared
      <4> QED BY <1>2, <4>1 DEF TaskChecked
    <3>4. x.at = "pending" => PendingSeen(sess[o])'
      BY <2>2, <3>1, <3>2
    <3>5. TaskChecked(x)' => TaskChecked(sess[o])'
      BY <3>1, <3>2 DEF TaskChecked
    <3> QED BY <3>1, <3>2, <3>3, <3>4, <3>5 DEF Prepared
  <2> QED BY <2>1, <2>2
<1>4. NewAlone'
  BY IdlePrepared DEF PlanInv, NewAlone
<1> QED BY <1>2, <1>3, <1>4 DEF PlanInv

LEMMA CreatePendingSafe ==
    ASSUME PlanInv, NEW p \in Pendings, NEW status \in {"open", "done"},
           NEW t \in Tasks \cup {None}, CreatePending(p, status, t)
    PROVE  PlanInv'
<1>1. /\ DOMAIN pendings' = {p} \cup DOMAIN pendings
      /\ pendings'[p] = [status |-> status, closed |-> status = "done", task |-> t]
      /\ \A q \in DOMAIN pendings : pendings'[q] = pendings[q]
      /\ pendings' \in [{p} \cup DOMAIN pendings -> Pending]
      /\ p \notin DOMAIN pendings
      /\ t # None => t \in DOMAIN tasks
  BY DEF CreatePending, With, PlanInv, PlanTypes, Pending
<1>2. \A o \in Sessions : sess[o].at = "pending" => sess[o].pending # p
  BY IdlePrepared DEF CreatePending, OnPending
<1>3. PlanTypes' /\ ParentsThere'
  BY <1>1 DEF CreatePending, PlanInv, PlanTypes, ParentsThere
<1>4. PendingsHaveTasks' /\ DatedUnlessOverlap'
  <2>1. pendings'[p].status = status /\ pendings'[p].task = t
    BY <1>1
  <2>2. pendings'[p].closed <=> status = "done"
    <3>1. CASE status = "done"
      <4>1. pendings'[p] = [status |-> status, closed |-> TRUE, task |-> t]
        BY <1>1, <3>1
      <4> QED BY <3>1, <4>1
    <3>2. CASE status # "done"
      <4>1. pendings'[p] = [status |-> status, closed |-> FALSE, task |-> t]
        BY <1>1, <3>2
      <4> QED BY <3>2, <4>1
    <3> QED BY <3>1, <3>2
  <2> QED BY <1>1, <2>1, <2>2 DEF CreatePending, PlanInv, PendingsHaveTasks, DatedUnlessOverlap
<1>5. ASSUME NEW o \in Sessions, sess[o].at = "pending"
      PROVE  PendingSeen(sess[o])'
  <2>1. PendingSeen(sess[o])
    BY <1>5 DEF PlanInv, Prepared
  <2> QED BY <1>1, <1>2, <1>5, <2>1 DEF CreatePending, PendingSeen
<1>6. \A o \in Sessions : sess[o].at = "task" /\ sess[o].new => sess[o].task \notin DOMAIN tasks'
  BY DEF CreatePending, PlanInv, Prepared, TaskChecked
<1> QED BY <1>3, <1>4, <1>5, <1>6, QuietSafe DEF CreatePending

LEMMA DeletePendingSafe ==
    ASSUME PlanInv, NEW p \in Pendings, DeletePending(p)
    PROVE  PlanInv'
<1>1. /\ DOMAIN pendings' = DOMAIN pendings \ {p}
      /\ \A q \in DOMAIN pendings' : pendings'[q] = pendings[q]
      /\ pendings' \in [DOMAIN pendings' -> Pending]
      /\ slipped' = slipped \ {p} /\ p \notin {"overlap", "subtree"}
  BY PlanTreeAssumption DEF DeletePending, PlanInv, PlanTypes
<1>2. PlanTypes' /\ ParentsThere'
  BY <1>1 DEF DeletePending, PlanInv, PlanTypes, ParentsThere
<1>3. PendingsHaveTasks' /\ DatedUnlessOverlap'
  BY <1>1 DEF DeletePending, PlanInv, PendingsHaveTasks, DatedUnlessOverlap
<1>4. ASSUME NEW o \in Sessions, sess[o].at = "pending"
      PROVE  PendingSeen(sess[o])'
  <2>1. PendingSeen(sess[o])
    BY <1>4 DEF PlanInv, Prepared
  <2> QED BY <1>1, <1>4, <2>1 DEF DeletePending, PendingSeen
<1>5. \A o \in Sessions : sess[o].at = "task" /\ sess[o].new => sess[o].task \notin DOMAIN tasks'
  BY DEF DeletePending, PlanInv, Prepared, TaskChecked
<1> QED BY <1>1, <1>2, <1>3, <1>4, <1>5, QuietSafe DEF DeletePending

LEMMA FlushPendingSafe ==
    ASSUME PlanInv, NEW s \in Sessions, NEW status \in {"open", "done", None},
           NEW t \in Tasks \cup {None}, FlushPending(s, status, t)
    PROVE  PlanInv'
<1>1. PICK w : w = sess[s]
  OBVIOUS
<1> DEFINE p == w.pending
           changed == IF status = None THEN w.seen ELSE ApplyPendingStatus(w.seen, status)
           new == [changed EXCEPT !.task = Given(t, @)]
           merged == Merged(new, w.seen, pendings[p])
           row == IF status = None THEN merged ELSE [merged EXCEPT !.closed = new.closed]
<1>2. w \in PendingWork /\ p \in DOMAIN pendings /\ (t # None => t \in DOMAIN tasks)
  BY <1>1, PlanWorkFields DEF FlushPending, OnPending, PlanInv, PlanTypes
<1>3. /\ pendings' = [pendings EXCEPT ![p] = row]
      /\ slipped' = slipped \cup {q \in {p} : \E o \in OnPending \ {s} : sess[o].pending = q}
      /\ sess' = [sess EXCEPT ![s] = Idle] /\ UNCHANGED tasks
  <2>1. slipped' = slipped \cup {q \in {p} : \E o \in OnPending \ {s} : sess[o].pending = q}
    BY <1>1 DEF FlushPending
  <2>2. sess' = [sess EXCEPT ![s] = Idle] /\ UNCHANGED tasks
    BY <1>1 DEF FlushPending, End
  <2>3. pendings' = [pendings EXCEPT ![p] = row]
    BY <1>1 DEF FlushPending
  <2> QED BY <2>1, <2>2, <2>3
<1>4. w.seen \in Pending /\ pendings[p] \in Pending /\ w.pending \in Pendings
  BY <1>2 DEF PendingWork, PlanInv, PlanTypes
<1>5. \A u, v \in Pending :
        /\ Merged(u, v, pendings[p]) \in Pending
        /\ Merged(u, v, pendings[p]).status = IF u.status = v.status THEN pendings[p].status ELSE u.status
        /\ Merged(u, v, pendings[p]).closed = IF u.closed = v.closed THEN pendings[p].closed ELSE u.closed
        /\ Merged(u, v, pendings[p]).task = IF u.task = v.task THEN pendings[p].task ELSE u.task
  BY <1>4 DEF Pending, Merged
<1>6. changed \in Pending /\ changed.task = w.seen.task
      /\ IF status = None THEN changed = w.seen
         ELSE changed.status = status /\ (changed.closed <=> status = "done")
  BY <1>4, PlanTreeAssumption DEF Pending, ApplyPendingStatus
<1> HIDE DEF changed
<1>7. new \in Pending /\ new.status = changed.status /\ (new.closed <=> changed.closed)
      /\ (new.task = w.seen.task \/ (new.task = t /\ t # None))
  BY <1>4, <1>6 DEF Pending, Given
<1> HIDE DEF new
<1>8. row \in Pending
  BY <1>4, <1>5, <1>7 DEF Pending
<1>9. row.task = pendings[p].task \/ (row.task = t /\ t # None)
  BY <1>4, <1>5, <1>7 DEF Pending
<1>10. p \notin slipped => (row.closed <=> row.status = "done")
  <2> SUFFICES ASSUME p \notin slipped
               PROVE  row.closed <=> row.status = "done"
    OBVIOUS
  <2>1. w.seen.status = pendings[p].status /\ w.seen.closed = pendings[p].closed
    BY <1>1, <1>2 DEF PlanInv, Prepared, PendingSeen, PendingWork
  <2>2. row.status = new.status
    BY <1>4, <1>5, <1>7, <2>1 DEF Pending
  <2>3. pendings[p].closed <=> pendings[p].status = "done"
    BY <1>2 DEF PlanInv, DatedUnlessOverlap
  <2>4. CASE status = None
    <3>1. row.closed = pendings[p].closed
      BY <1>4, <1>5, <1>7, <2>1, <2>4, <1>6 DEF Pending
    <3> QED BY <1>6, <1>7, <2>1, <2>2, <2>3, <2>4, <3>1
  <2>5. CASE status # None
    <3>1. row.closed = new.closed
      BY <1>4, <1>5, <1>7, <2>5 DEF Pending
    <3> QED BY <1>6, <1>7, <2>2, <2>5, <3>1
  <2> QED BY <2>4, <2>5
<1> HIDE DEF row
<1>11. /\ DOMAIN pendings' = DOMAIN pendings /\ pendings'[p] = row
       /\ \A q \in DOMAIN pendings : q # p => pendings'[q] = pendings[q]
       /\ pendings' \in [DOMAIN pendings -> Pending]
  BY <1>2, <1>3, <1>8 DEF PlanInv, PlanTypes
<1>12. \A o \in Sessions : sess'[o] = IF o = s THEN Idle ELSE sess[o]
  BY <1>3 DEF PlanInv, PlanTypes
<1>13. slipped \subseteq slipped' /\ slipped' \subseteq slipped \cup {p}
  BY <1>3
<1>14. PlanTypes' /\ ParentsThere'
  <2>1. sess' \in [Sessions -> PlanWork]
    BY <1>3, IdlePrepared DEF PlanInv, PlanTypes
  <2> QED BY <1>3, <1>4, <1>11, <1>13, <2>1 DEF PlanInv, PlanTypes, ParentsThere
<1>15. PendingsHaveTasks'
  <2>1. row.task # None => row.task \in DOMAIN tasks
    BY <1>2, <1>9 DEF PlanInv, PendingsHaveTasks
  <2> QED BY <1>3, <1>11, <2>1 DEF PlanInv, PendingsHaveTasks
<1>16. DatedUnlessOverlap'
  BY <1>10, <1>11, <1>13 DEF PlanInv, DatedUnlessOverlap
<1>17. ASSUME NEW o \in Sessions, o # s, sess[o].at = "pending"
       PROVE  PendingSeen(sess[o])'
  <2>1. PendingSeen(sess[o])
    BY <1>17 DEF PlanInv, Prepared
  <2>2. sess[o].pending = p => p \in slipped'
    <3>1. o \in OnPending
      BY <1>17, IdlePrepared DEF OnPending
    <3> QED BY <1>3, <1>17, <3>1
  <2> QED BY <1>11, <1>12, <1>13, <1>17, <2>1, <2>2 DEF PendingSeen
<1>18. \A o \in Sessions : sess[o].at = "task" /\ sess[o].new => sess[o].task \notin DOMAIN tasks'
  BY <1>3 DEF PlanInv, Prepared, TaskChecked
<1> QED BY <1>3, <1>12, <1>13, <1>14, <1>15, <1>16, <1>17, <1>18, QuietSafe

-----------------------------------------------------------------------------
(* A task under a parent that it is not above: the forest stays one.  No   *)
(* other task may be under it for the depth to stay within the limit.      *)
LEMMA MoveKeeps ==
    ASSUME TreeTypes, TreeTypes', NoLoop, NEW t \in Tasks, NEW p \in DOMAIN tasks, Fits(t, p),
           DOMAIN tasks' = {t} \cup DOMAIN tasks, tasks'[t].parent = p,
           \A u \in DOMAIN tasks : u # t => tasks'[u].parent = tasks[u].parent
    PROVE  /\ NoLoop'
           /\ \/ \E c \in DOMAIN tasks : tasks[c].parent = t
              \/ \E v \in DOMAIN tasks : Cardinality(ChainUp(v)) > MaxPlanDepth
              \/ \A v \in DOMAIN tasks' : Cardinality(ChainUp(v)') <= MaxPlanDepth
<1> DEFINE C == ChainUp(p)
<1>1. /\ p \in C /\ C \subseteq DOMAIN tasks /\ IsFiniteSet(C) /\ Cardinality(C) \in Nat
      /\ \A u \in C : tasks[u].parent # None => tasks[u].parent \in C
      /\ t \notin C /\ Cardinality(C) + 1 <= MaxPlanDepth
  BY ChainsAreSound DEF ChainsSound, Closed, Fits
<1> HIDE DEF C
<1>2. ASSUME NEW S \in SUBSET DOMAIN tasks', S # {}
      PROVE  \E u \in S : tasks'[u].parent \notin S
  <2>1. CASE t \notin S
    <3>1. S \subseteq DOMAIN tasks
      BY <1>2, <2>1
    <3>2. PICK u \in S : tasks[u].parent \notin S
      BY <1>2, <3>1 DEF NoLoop
    <3> QED BY <2>1, <3>1, <3>2
  <2>2. CASE S \cap C = {} /\ t \in S
    BY <1>1, <2>2
  <2>3. CASE S \cap C # {}
    <3>1. PICK u \in S \cap C : tasks[u].parent \notin S \cap C
      BY <1>1, <2>3 DEF NoLoop
    <3>2. tasks'[u].parent = tasks[u].parent
      BY <1>1, <3>1
    <3>3. None \notin S
      BY <1>2, PlanTreeAssumption DEF TreeTypes
    <3> QED BY <1>1, <3>1, <3>2, <3>3
  <2> QED BY <2>1, <2>2, <2>3
<1>3. NoLoop'
  BY <1>2 DEF NoLoop
<1>4. ASSUME \A c \in DOMAIN tasks : tasks[c].parent # t,
             \A v \in DOMAIN tasks : Cardinality(ChainUp(v)) <= MaxPlanDepth,
             NEW v \in DOMAIN tasks'
      PROVE  Cardinality(ChainUp(v)') <= MaxPlanDepth
  <2>1. Cardinality(ChainUp(v)') \in Nat /\ MaxPlanDepth \in Nat
    BY ChainsStaySound, PlanTreeAssumption DEF ChainsSound
  <2>2. CASE v = t
    <3>1. IsFiniteSet(C \cup {t}) /\ Cardinality(C \cup {t}) = Cardinality(C) + 1
      BY <1>1, FS_AddElement
    <3>2. \A u \in (C \cup {t}) \cap DOMAIN tasks' :
             tasks'[u].parent # None => tasks'[u].parent \in C \cup {t}
      BY <1>1
    <3>3. Cardinality(ChainUp(v)') <= Cardinality(C \cup {t})
      BY <2>2, <3>1, <3>2, ChainWithin
    <3> QED BY <1>1, <2>1, <3>1, <3>3
  <2>3. CASE v # t
    <3>1. PICK D : D = ChainUp(v)
      OBVIOUS
    <3>2. /\ v \in D /\ D \subseteq DOMAIN tasks /\ IsFiniteSet(D) /\ Cardinality(D) \in Nat
          /\ \A u \in D : tasks[u].parent # None => tasks[u].parent \in D
          /\ Cardinality(D) <= MaxPlanDepth
      BY <1>4, <2>3, <3>1, ChainsAreSound DEF ChainsSound, Closed
    <3>3. /\ IsFiniteSet(D \ {t}) /\ Cardinality(D \ {t}) <= Cardinality(D)
          /\ Cardinality(D \ {t}) \in Nat
      BY <3>2, FS_Subset, FS_CardinalityType
    <3>4. \A u \in (D \ {t}) \cap DOMAIN tasks' :
             tasks'[u].parent # None => tasks'[u].parent \in D \ {t}
      BY <1>4, <3>2
    <3>5. Cardinality(ChainUp(v)') <= Cardinality(D \ {t})
      BY <2>3, <3>2, <3>3, <3>4, ChainWithin
    <3> QED BY <2>1, <3>2, <3>3, <3>5
  <2> QED BY <2>2, <2>3
<1>5. MaxPlanDepth \in Nat /\ \A v \in DOMAIN tasks : Cardinality(ChainUp(v)) \in Nat
  BY ChainsAreSound, PlanTreeAssumption DEF ChainsSound
<1> QED BY <1>3, <1>4, <1>5

(* What the flush of a task writes. *)
LEMMA FlushTaskFacts ==
    ASSUME PlanInv, NEW s \in Sessions, FlushPlanTask(s)
    PROVE  \E w \in TaskWork, row \in Task :
              /\ w = sess[s]
              /\ w.parent # None => w.parent \in DOMAIN tasks
              /\ row.parent = IF w.parent # None THEN w.parent
                              ELSE IF w.task \in DOMAIN tasks THEN tasks[w.task].parent ELSE None
              /\ tasks' = With(tasks, w.task, row)
              /\ slipped' = slipped
                    \cup {x \in {"overlap"} : w.parent # None /\ \E o \in OnTask \ {s} : sess[o].parent # None}
                    \cup {x \in {"subtree"} : w.parent # None /\ \E c \in DOMAIN tasks : tasks[c].parent = w.task}
              /\ sess' = [sess EXCEPT ![s] = Idle] /\ UNCHANGED pendings
<1>1. PICK w : w = sess[s]
  OBVIOUS
<1> DEFINE old == IF w.new THEN NewTask ELSE tasks[w.task]
           row == [parent |-> Given(w.parent, old.parent),
                   start |-> Given(w.edit.start, old.start),
                   end |-> Given(w.edit.end, old.end),
                   milestone |-> Given(w.edit.milestone, old.milestone)]
<1>2. w \in TaskWork
  BY <1>1, PlanWorkFields DEF FlushPlanTask, OnTask, PlanInv, PlanTypes
<1>3. /\ w.new \/ w.task \in DOMAIN tasks
      /\ w.parent # None => w.parent \in DOMAIN tasks
      /\ tasks' = With(tasks, w.task, row)
      /\ slipped' = slipped
            \cup {x \in {"overlap"} : w.parent # None /\ \E o \in OnTask \ {s} : sess[o].parent # None}
            \cup {x \in {"subtree"} : w.parent # None /\ \E c \in DOMAIN tasks : tasks[c].parent = w.task}
      /\ sess' = [sess EXCEPT ![s] = Idle] /\ UNCHANGED pendings
  BY <1>1 DEF FlushPlanTask, End
<1>4. (w.new => w.task \notin DOMAIN tasks) /\ w.new \in BOOLEAN
  BY <1>1, <1>2 DEF PlanInv, Prepared, TaskChecked, TaskWork
<1>5. old \in Task /\ old.parent = IF w.task \in DOMAIN tasks THEN tasks[w.task].parent ELSE None
  BY <1>3, <1>4 DEF Task, NewTask, PlanInv, PlanTypes
<1> HIDE DEF old
<1>6. w.edit \in [start : Int \cup {None}, end : Int \cup {None}, milestone : BOOLEAN \cup {None}]
      /\ w.parent \in Tasks \cup {None}
  BY <1>2, PlanTreeAssumption DEF TaskWork
<1>7. row \in Task
  BY <1>5, <1>6 DEF Task, Given
<1>8. row.parent = IF w.parent # None THEN w.parent ELSE old.parent
  BY DEF Given
<1> HIDE DEF row
<1> QED BY <1>1, <1>2, <1>3, <1>5, <1>7, <1>8

LEMMA FlushTaskSafe ==
    ASSUME PlanInv, NEW s \in Sessions, FlushPlanTask(s)
    PROVE  PlanInv'
<1>1. PICK w \in TaskWork, row \in Task :
         /\ w = sess[s]
         /\ w.parent # None => w.parent \in DOMAIN tasks
         /\ row.parent = IF w.parent # None THEN w.parent
                         ELSE IF w.task \in DOMAIN tasks THEN tasks[w.task].parent ELSE None
         /\ tasks' = With(tasks, w.task, row)
         /\ slipped' = slipped
               \cup {x \in {"overlap"} : w.parent # None /\ \E o \in OnTask \ {s} : sess[o].parent # None}
               \cup {x \in {"subtree"} : w.parent # None /\ \E c \in DOMAIN tasks : tasks[c].parent = w.task}
         /\ sess' = [sess EXCEPT ![s] = Idle] /\ UNCHANGED pendings
  BY FlushTaskFacts
<1> DEFINE t == w.task
           p == w.parent
<1>2. t \in Tasks /\ p \in Tasks \cup {None} /\ w.at = "task"
  BY DEF TaskWork
<1>3. /\ DOMAIN tasks' = {t} \cup DOMAIN tasks /\ tasks'[t] = row
      /\ \A u \in DOMAIN tasks : u # t => tasks'[u] = tasks[u]
      /\ tasks' \in [DOMAIN tasks' -> Task]
  BY <1>1 DEF With, PlanInv, PlanTypes
<1>4. \A o \in Sessions : sess'[o] = IF o = s THEN Idle ELSE sess[o]
  BY <1>1 DEF PlanInv, PlanTypes
<1>5. slipped \subseteq slipped' /\ slipped' \subseteq slipped \cup {"overlap", "subtree"}
  BY <1>1
<1>6. PlanTypes'
  <2>1. sess' \in [Sessions -> PlanWork]
    BY <1>1, IdlePrepared DEF PlanInv, PlanTypes
  <2> QED BY <1>1, <1>2, <1>3, <1>5, <2>1 DEF PlanInv, PlanTypes
<1>7. ParentsThere'
  BY <1>1, <1>3 DEF PlanInv, ParentsThere
<1>8. PendingsHaveTasks' /\ DatedUnlessOverlap'
  <2>1. \A q \in Pendings : q \in slipped => q \in slipped'
    BY <1>5
  <2> QED BY <1>1, <1>3, <2>1 DEF PlanInv, PlanTypes, PendingsHaveTasks, DatedUnlessOverlap
<1>9. ASSUME NEW o \in Sessions, o # s
      PROVE  /\ sess[o].at = "task" /\ sess[o].new => sess[o].task \notin DOMAIN tasks'
             /\ sess[o].at = "pending" => PendingSeen(sess[o])'
  <2>1. Prepared(sess[o])
    BY DEF PlanInv
  <2>2. sess[o].at = "task" /\ sess[o].new => sess[o].task # t /\ sess[o].task \notin DOMAIN tasks
    BY <1>1, <1>2, <1>9, <2>1 DEF PlanInv, NewAlone, Prepared, TaskChecked
  <2>3. sess[o].at = "pending" => PendingSeen(sess[o])'
    BY <1>1, <1>4, <1>5, <1>9, <2>1 DEF Prepared, PendingSeen
  <2> QED BY <1>3, <2>2, <2>3
<1>10. CASE p = None
  <2>1. \A u \in DOMAIN tasks' : IF u \in DOMAIN tasks THEN tasks'[u].parent = tasks[u].parent
                                 ELSE tasks'[u].parent = None
    BY <1>1, <1>3, <1>10
  <2> QED BY <1>4, <1>5, <1>6, <1>7, <1>8, <1>9, <2>1, QuietSafe
<1>11. CASE p # None
  <2>1. TreeTypes /\ TreeTypes'
    BY <1>6, <1>7 DEF PlanInv, PlanTypes, TreeTypes
  <2>2. "overlap" \in slipped' \/ (NoLoop /\ Fits(t, p))
    BY <1>1, <1>2, <1>5, <1>11 DEF PlanInv, Prepared, TaskChecked
  <2>3. "overlap" \in slipped' \/ NoLoop'
    BY <1>1, <1>2, <1>3, <1>11, <2>1, <2>2, MoveKeeps
  <2>4. DepthUnlessMoved'
    <3> SUFFICES ASSUME slipped' \cap {"overlap", "subtree"} = {}
                 PROVE  \A v \in DOMAIN tasks' : Cardinality(ChainUp(v)') <= MaxPlanDepth
      BY DEF DepthUnlessMoved
    <3>1. \A c \in DOMAIN tasks : tasks[c].parent # t
      BY <1>1, <1>11
    <3>2. \A v \in DOMAIN tasks : ~(Cardinality(ChainUp(v)) > MaxPlanDepth)
      <4>1. \A v \in DOMAIN tasks : Cardinality(ChainUp(v)) \in Nat /\ Cardinality(ChainUp(v)) <= MaxPlanDepth
        BY <1>5, <2>1, ChainsAreSound DEF PlanInv, DepthUnlessMoved, ChainsSound
      <4> QED BY <4>1, PlanTreeAssumption
    <3> QED BY <1>1, <1>2, <1>3, <1>11, <2>1, <2>2, <3>1, <3>2, MoveKeeps
  <2>5. ASSUME NEW o \in Sessions
        PROVE  Prepared(sess[o])'
    <3>1. CASE o = s
      BY <1>4, <3>1, IdlePrepared DEF Prepared
    <3>2. CASE o # s
      <4>1. sess[o].at = "task" => o \in OnTask \ {s}
        BY <3>2, IdlePrepared DEF OnTask
      <4>2. sess[o].at = "task" => sess[o].parent = None \/ "overlap" \in slipped'
        BY <1>1, <1>11, <4>1
      <4> QED BY <1>4, <1>9, <3>2, <4>2 DEF Prepared, TaskChecked
    <3> QED BY <3>1, <3>2
  <2>6. NewAlone'
    BY <1>4, IdlePrepared DEF PlanInv, NewAlone
  <2> QED BY <1>6, <1>7, <1>8, <2>3, <2>4, <2>5, <2>6 DEF PlanInv
<1> QED BY <1>10, <1>11

(* All that is below a removed task goes with it, so no parent is missed.  *)
LEMMA RemoveTaskSafe ==
    ASSUME PlanInv, NEW t \in Tasks, RemovePlanTask(t)
    PROVE  PlanInv'
<1>1. TreeTypes
  BY DEF PlanInv, PlanTypes, TreeTypes
<1>2. PICK gone : gone = {u \in DOMAIN tasks : t \in ChainUp(u)}
  OBVIOUS
<1>3. /\ DOMAIN tasks' = DOMAIN tasks \ gone
      /\ \A u \in DOMAIN tasks' : tasks'[u] = tasks[u]
      /\ tasks' \in [DOMAIN tasks' -> Task]
  BY <1>2 DEF RemovePlanTask, PlanInv, PlanTypes
<1>4. /\ DOMAIN pendings' = DOMAIN pendings
      /\ \A q \in DOMAIN pendings :
            pendings'[q] = [pendings[q] EXCEPT !.task = IF @ \in gone THEN None ELSE @]
      /\ UNCHANGED <<sess, slipped>>
  BY <1>2 DEF RemovePlanTask
<1>5. \A q \in DOMAIN pendings :
         /\ pendings'[q] \in Pending
         /\ pendings'[q].status = pendings[q].status /\ pendings'[q].closed = pendings[q].closed
         /\ pendings'[q].task = IF pendings[q].task \in gone THEN None ELSE pendings[q].task
  BY <1>4 DEF PlanInv, PlanTypes, Pending
<1>6. PlanTypes'
  <2>1. pendings' = [q \in DOMAIN pendings |-> pendings'[q]]
    BY <1>2 DEF RemovePlanTask
  <2> QED BY <1>3, <1>4, <1>5, <2>1 DEF PlanInv, PlanTypes
<1>7. ParentsThere'
  <2> SUFFICES ASSUME NEW u \in DOMAIN tasks', tasks[u].parent # None
               PROVE  tasks[u].parent \notin gone
    BY <1>3 DEF PlanInv, ParentsThere
  <2>1. u \in DOMAIN tasks /\ t \notin ChainUp(u)
    BY <1>2, <1>3
  <2>2. PICK D : D = ChainUp(u)
    OBVIOUS
  <2>3. u \in D /\ Closed(D)
    BY <1>1, <2>1, <2>2, ChainsAreSound DEF ChainsSound
  <2>4. PICK p \in DOMAIN tasks : p = tasks[u].parent /\ p \in D
    BY <2>1, <2>3 DEF Closed, PlanInv, ParentsThere
  <2>5. ChainUp(p) \subseteq D
    BY <1>1, <2>3, <2>4, ChainsAreSound DEF ChainsSound
  <2> QED BY <1>2, <2>1, <2>2, <2>4, <2>5
<1>8. PendingsHaveTasks' /\ DatedUnlessOverlap'
  BY <1>3, <1>4, <1>5 DEF PlanInv, PendingsHaveTasks, DatedUnlessOverlap
<1>9. ASSUME NEW o \in Sessions, sess[o].at = "pending"
      PROVE  PendingSeen(sess[o])'
  <2>1. PendingSeen(sess[o])
    BY <1>9 DEF PlanInv, Prepared
  <2> QED BY <1>4, <1>5, <2>1 DEF PendingSeen
<1>10. \A o \in Sessions : sess[o].at = "task" /\ sess[o].new => sess[o].task \notin DOMAIN tasks'
  BY <1>3 DEF PlanInv, Prepared, TaskChecked
<1> QED BY <1>3, <1>4, <1>6, <1>7, <1>8, <1>9, <1>10, QuietSafe

-----------------------------------------------------------------------------
LEMMA PlanInitSafe == PlanInit => PlanInv
<1> SUFFICES ASSUME PlanInit
             PROVE  PlanInv
  OBVIOUS
<1>1. DOMAIN tasks = {} /\ DOMAIN pendings = {} /\ slipped = {} /\ \A s \in Sessions : sess[s] = Idle
  BY DEF PlanInit
<1>2. PlanTypes
  BY <1>1, IdlePrepared DEF PlanInit, PlanTypes
<1>3. \A s \in Sessions : Prepared(sess[s])
  BY <1>1, IdlePrepared DEF Prepared
<1>4. NewAlone
  BY <1>1, IdlePrepared DEF NewAlone
<1> QED BY <1>1, <1>2, <1>3, <1>4
        DEF PlanInv, ParentsThere, PendingsHaveTasks, DatedUnlessOverlap, NoLoop, DepthUnlessMoved

LEMMA PlanStepSafe == PlanInv /\ [PlanNext]_planVars => PlanInv'
<1> SUFFICES ASSUME PlanInv, [PlanNext]_planVars
             PROVE  PlanInv'
  OBVIOUS
<1>1. ASSUME NEW s \in Sessions, NEW t \in Tasks, NEW p \in Tasks \cup {None}, NEW e \in Edits,
             UpsertPlanTask(s, t, p, e)
      PROVE  PlanInv'
  BY <1>1, UpsertTaskSafe
<1>2. ASSUME NEW s \in Sessions, FlushPlanTask(s)
      PROVE  PlanInv'
  BY <1>2, FlushTaskSafe
<1>3. ASSUME NEW s \in Sessions, NEW p \in Pendings, LoadPending(s, p)
      PROVE  PlanInv'
  BY <1>3, LoadPendingSafe
<1>4. ASSUME NEW s \in Sessions, NEW status \in {"open", "done", None}, NEW t \in Tasks \cup {None},
             FlushPending(s, status, t)
      PROVE  PlanInv'
  BY <1>4, FlushPendingSafe
<1>5. ASSUME NEW s \in Sessions, PlanFail(s)
      PROVE  PlanInv'
  BY <1>5, PlanFailSafe
<1>6. ASSUME NEW t \in Tasks, RemovePlanTask(t)
      PROVE  PlanInv'
  BY <1>6, RemoveTaskSafe
<1>7. ASSUME NEW p \in Pendings, NEW status \in {"open", "done"}, NEW t \in Tasks \cup {None},
             CreatePending(p, status, t)
      PROVE  PlanInv'
  BY <1>7, CreatePendingSafe
<1>8. ASSUME NEW p \in Pendings, DeletePending(p)
      PROVE  PlanInv'
  BY <1>8, DeletePendingSafe
<1>9. CASE UNCHANGED planVars
  <2>1. PlanTypes' /\ ParentsThere' /\ PendingsHaveTasks' /\ DatedUnlessOverlap'
    BY <1>9
       DEF planVars, PlanInv, PlanTypes, ParentsThere, PendingsHaveTasks, DatedUnlessOverlap
  <2>2. \A o \in Sessions : sess[o].at = "pending" => PendingSeen(sess[o])'
    BY <1>9 DEF planVars, PlanInv, Prepared, PendingSeen
  <2>3. \A o \in Sessions : sess[o].at = "task" /\ sess[o].new => sess[o].task \notin DOMAIN tasks'
    BY <1>9 DEF planVars, PlanInv, Prepared, TaskChecked
  <2>4. UNCHANGED <<tasks, sess, slipped>>
    BY <1>9 DEF planVars
  <2> QED BY <2>1, <2>2, <2>3, <2>4, QuietSafe
<1> QED BY <1>1, <1>2, <1>3, <1>4, <1>5, <1>6, <1>7, <1>8, <1>9 DEF PlanNext

LEMMA PlanInductive == PlanSpec => []PlanInv
<1>1. PlanInit => PlanInv
  BY PlanInitSafe
<1>2. PlanInv /\ [PlanNext]_planVars => PlanInv'
  BY PlanStepSafe
<1> QED BY <1>1, <1>2, PTL DEF PlanSpec

(* The plan of a project is a forest in every order of creations, moves    *)
(* and removals as long as no two moves overlap: the walk up from the      *)
(* parent refuses a cycle (service.py:560-573) and a removal takes all     *)
(* that is below with it.                                                  *)
THEOREM PlanIsForest == PlanSpec => []ForestUnlessOverlap
<1>1. PlanInv => ForestUnlessOverlap
  <2>1. PlanInv => TreeTypes
    BY DEF PlanInv, PlanTypes, TreeTypes
  <2> QED BY <2>1, NoLoopRooted DEF PlanInv, ForestUnlessOverlap
<1> QED BY <1>1, PlanInductive, PTL

(* No task is deeper than the limit unless two moves overlapped or a task  *)
(* was moved with others under it (service.py:569).                        *)
THEOREM PlanIsShallow == PlanSpec => []DepthUnlessMoved
<1>1. PlanInv => DepthUnlessMoved
  BY DEF PlanInv
<1> QED BY <1>1, PlanInductive, PTL

(* A pending is dated when it is done and only then unless two sessions    *)
(* had it open at once (service.py:480-482), and its task exists.          *)
THEOREM PendingsStaySound == PlanSpec => []PendingsAreSound
<1>1. PlanInv => PendingsAreSound
  <2> SUFFICES ASSUME PlanInv
               PROVE  PlanTypeOK
    BY DEF PlanInv, PendingsAreSound
  <2>1. Range(tasks) \subseteq Task /\ Range(pendings) \subseteq Pending
    BY DEF PlanInv, PlanTypes, Range
  <2>2. ASSUME NEW s \in Sessions
        PROVE  sess[s] = Idle \/
                  \/ sess[s].at = "task" /\ sess[s].task \in Tasks /\ sess[s].edit \in Edits
                  \/ sess[s].at = "pending" /\ sess[s].pending \in Pendings /\ sess[s].seen \in Pending
    BY DEF PlanInv, PlanTypes, PlanWork, TaskWork, PendingWork
  <2> QED BY <2>1, <2>2 DEF PlanInv, PlanTypes, PlanTypeOK
<1> QED BY <1>1, PlanInductive, PTL

(***************************************************************************)
(* Gantt.                                                                  *)
(***************************************************************************)

(* The same of dates, some of which may be missing. *)
LEMMA DatesSpan ==
    ASSUME NEW S \in SUBSET (Int \cup {None}), IsFiniteSet(S)
    PROVE  /\ MinDate(S) \in S \cup {None} /\ MaxDate(S) \in S \cup {None}
           /\ \A x \in S \ {None} : /\ MinDate(S) # None /\ MinDate(S) <= x
                                    /\ MaxDate(S) # None /\ x <= MaxDate(S)
<1>1. S \ {None} \in SUBSET Int /\ IsFiniteSet(S \ {None})
  BY FS_Subset
<1>2. CASE S \ {None} = {}
  BY <1>2 DEF MinDate, MaxDate
<1>3. CASE S \ {None} # {}
  <2>1. MinDate(S) = Min(S \ {None}) /\ MaxDate(S) = Max(S \ {None})
    BY <1>3 DEF MinDate, MaxDate
  <2> QED BY <1>1, <1>3, <2>1, FirstAndLast
<1> QED BY <1>2, <1>3

(* Columns one after the other: no day is in two of them. *)
InTime(columns) ==
    /\ columns \in Seq(Column)
    /\ \A i \in DOMAIN columns : columns[i].start <= columns[i].end
    /\ \A i, j \in DOMAIN columns : i < j => columns[i].end < columns[j].start

Meeting(start, end, columns) ==
    {i \in DOMAIN columns : columns[i].start <= Later(start, end) /\ start <= columns[i].end}

(* What is drawn over such columns is what the dates meet, or nothing is   *)
(* met.                                                                    *)
LEMMA BarFacts ==
    ASSUME NEW columns, InTime(columns), columns # <<>>, NEW start \in Int, NEW end \in Int
    PROVE  LET bar == BarGeometry(start, end, columns)
               meets == Meeting(start, end, columns)
           IN IF bar = None THEN meets = {}
              ELSE meets \in {{}, bar.first..(bar.first + bar.span - 1)}
<1> DEFINE n == Len(columns)
           end1 == Later(start, end)
           F == {i \in DOMAIN columns : columns[i].end >= start}
           T == {i \in DOMAIN columns : columns[i].start <= end1}
           from == Min(F)
           to == Max(T)
           bar == BarGeometry(start, end, columns)
           meets == Meeting(start, end, columns)
           off == end1 < columns[1].start \/ start > columns[n].end
<1>1. n \in Nat /\ n >= 1 /\ DOMAIN columns = 1..n /\ end1 \in Int /\ start <= end1
  BY DEF InTime, Later
<1>2. \A i \in 1..n : columns[i].start \in Int /\ columns[i].end \in Int /\ columns[i].start <= columns[i].end
  <2>1. \A i \in DOMAIN columns : columns[i] \in Column
    BY DEF InTime
  <2>2. \A i \in DOMAIN columns : columns[i].start \in Int /\ columns[i].end \in Int
    BY <2>1 DEF Column
  <2> QED BY <1>1, <2>2 DEF InTime
<1>3. \A i, j \in 1..n : i < j => columns[i].end < columns[j].start
  BY <1>1 DEF InTime
<1>4. bar = IF off THEN None ELSE [first |-> from, span |-> Later(from, to) - from + 1]
  <2>1. None \notin Int
    BY PlanTreeAssumption
  <2> QED BY <1>1, <2>1 DEF BarGeometry, Last
<1>5. meets = F \cap T
  BY <1>1, <1>2 DEF Meeting
<1> HIDE DEF bar, meets, end1, n
<1>6. CASE off
  <2>1. ASSUME NEW i \in 1..n
        PROVE  ~(columns[i].start <= end1 /\ start <= columns[i].end)
    <3>1. columns[1].start <= columns[i].start /\ columns[i].end <= columns[n].end
      <4>0. 1 \in 1..n /\ n \in 1..n
        BY <1>1
      <4>1. i = 1 \/ columns[1].end < columns[i].start
        BY <1>1, <1>3, <4>0
      <4>2. i = n \/ columns[i].end < columns[n].start
        BY <1>1, <1>3, <4>0
      <4> QED BY <1>2, <4>0, <4>1, <4>2
    <3>2. columns[1].start \in Int /\ columns[n].end \in Int
      BY <1>1, <1>2
    <3> QED BY <1>1, <1>2, <1>6, <3>1, <3>2
  <2>2. meets = {}
    BY <1>1, <1>2, <1>5, <2>1
  <2> QED BY <1>4, <1>6, <2>2 DEF bar, meets
<1>7. CASE ~off
  <2>1. n \in F /\ 1 \in T
    BY <1>1, <1>2, <1>7
  <2>2. F \in SUBSET Int /\ T \in SUBSET Int /\ IsFiniteSet(F) /\ IsFiniteSet(T)
    <3>1. IsFiniteSet(1..n)
      BY <1>1, FS_Interval
    <3> QED BY <1>1, <3>1, FS_Subset
  <2>3. /\ from \in F /\ \A x \in F : from <= x
        /\ to \in T /\ \A x \in T : x <= to
    BY <2>1, <2>2, FirstAndLast
  <2> HIDE DEF from, to
  <2>4. from \in 1..n /\ to \in 1..n
    BY <1>1, <2>3
  <2>5. \A i \in 1..n : i \in F <=> from <= i
    <3> TAKE i \in 1..n
    <3>1. ASSUME from < i
          PROVE  columns[i].end >= start
      <4>1. columns[from].end < columns[i].start /\ columns[from].end >= start
        BY <1>3, <2>3, <2>4, <3>1
      <4> QED BY <1>2, <2>4, <4>1
    <3> QED BY <1>1, <2>3, <2>4, <3>1
  <2>6. \A i \in 1..n : i \in T <=> i <= to
    <3> TAKE i \in 1..n
    <3>1. ASSUME i < to
          PROVE  columns[i].start <= end1
      <4>1. columns[i].end < columns[to].start /\ columns[to].start <= end1
        BY <1>3, <2>3, <2>4, <3>1
      <4> QED BY <1>1, <1>2, <2>4, <4>1
    <3> QED BY <1>1, <2>3, <2>4, <3>1
  <2> HIDE DEF F, T
  <2>7. meets = from..to
    <3>1. F \subseteq 1..n /\ T \subseteq 1..n
      BY <1>1 DEF F, T
    <3>2. \A i \in Int : i \in from..to <=> i \in 1..n /\ from <= i /\ i <= to
      BY <1>1, <2>4
    <3>3. from..to \subseteq Int /\ 1..n \subseteq Int
      BY <2>4
    <3> QED BY <1>5, <2>5, <2>6, <3>1, <3>2, <3>3
  <2>8. bar = [first |-> from, span |-> Later(from, to) - from + 1] /\ bar \in Bar
    BY <1>4, <1>7, <2>4 DEF Later, Bar
  <2>9. bar # None
    BY <2>8, PlanTreeAssumption
  <2>10. meets \in {{}, bar.first..(bar.first + bar.span - 1)}
    <3>1. CASE to < from
      BY <2>4, <2>7, <3>1
    <3>2. CASE from <= to
      <4>1. bar.first = from /\ bar.first + bar.span - 1 = to
        BY <2>4, <2>8, <3>2 DEF Later
      <4> QED BY <2>7, <4>1
    <3> QED BY <2>4, <3>1, <3>2
  <2> QED BY <2>9, <2>10 DEF bar, meets
<1> QED BY <1>6, <1>7

-----------------------------------------------------------------------------
(* The first columns are the weeks up to the end, unless they are too many. *)
LEMMA WeeksFacts ==
    ASSUME NEW start \in Int, NEW end \in Int, start <= end
    PROVE  LET weeks == Weeks(start, end) IN
           /\ InTime(weeks) /\ weeks # <<>>
           /\ weeks[1].start <= start
           /\ Len(weeks) = WeeklyLimit \/ end <= Last(weeks).end
<1> DEFINE mon == Monday(start)
           q == (end - mon) \div 7
           n == Min({WeeklyLimit, q + 1})
           weeks == Weeks(start, end)
<1>1. mon \in Int /\ mon <= start
  BY DEF Monday
<1>2. weeks = [i \in 1..n |-> [start |-> mon + 7 * (i - 1), end |-> mon + 7 * i - 1]]
  BY DEF Weeks
<1> HIDE DEF mon, weeks
<1>3. q \in Nat /\ end - mon < 7 * q + 7
  <2> DEFINE d == end - mon
  <2>1. d \in Nat
    BY <1>1
  <2> HIDE DEF d
  <2>2. d \div 7 \in Nat /\ d < 7 * (d \div 7) + 7
    BY <2>1
  <2> QED BY <2>2 DEF d
<1> HIDE DEF q
<1>4. n \in {WeeklyLimit, q + 1} /\ n <= WeeklyLimit /\ n <= q + 1
  <2>1. {WeeklyLimit, q + 1} \in SUBSET Int /\ IsFiniteSet({WeeklyLimit, q + 1})
    <3>1. IsFiniteSet({WeeklyLimit} \cup {q + 1})
      BY FS_Singleton, FS_Union
    <3>2. {WeeklyLimit} \cup {q + 1} = {WeeklyLimit, q + 1}
      OBVIOUS
    <3>3. IsFiniteSet({WeeklyLimit, q + 1})
      BY <3>1, <3>2, Zenon
    <3>4. WeeklyLimit \in Int /\ q + 1 \in Int
      BY <1>3, GanttAssumption
    <3>5. {WeeklyLimit, q + 1} \in SUBSET Int
      BY <3>4, Zenon
    <3> QED BY <3>3, <3>5, Zenon
  <2> QED BY <2>1, FirstAndLast
<1> HIDE DEF n
<1>5. n \in Nat /\ 1 <= n /\ (n = WeeklyLimit \/ n = q + 1)
  BY <1>3, <1>4, GanttAssumption
<1>6. \A i \in 1..n : weeks[i].start = mon + 7 * (i - 1) /\ weeks[i].end = mon + 7 * i - 1
  BY <1>2
<1>7. weeks \in Seq(Column) /\ DOMAIN weeks = 1..n /\ Len(weeks) = n
  <2>1. weeks \in [1..n -> Column]
    BY <1>1, <1>2, <1>5 DEF Column
  <2> QED BY <1>5, <2>1
<1>8. InTime(weeks)
  <2>1. \A i \in 1..n : weeks[i].start <= weeks[i].end
    BY <1>1, <1>5, <1>6
  <2>2. \A i, j \in 1..n : i < j => weeks[i].end < weeks[j].start
    BY <1>1, <1>5, <1>6
  <2> QED BY <1>7, <2>1, <2>2 DEF InTime
<1>9. weeks # <<>> /\ weeks[1].start <= start
  BY <1>1, <1>5, <1>6, <1>7
<1>10. n = WeeklyLimit \/ end <= weeks[n].end
  <2>1. CASE n = q + 1
    <3>1. weeks[n].end = mon + 7 * n - 1
      BY <1>5, <1>6
    <3> QED BY <1>1, <1>3, <1>5, <2>1, <3>1
  <2> QED BY <1>5, <2>1
<1> QED BY <1>7, <1>8, <1>9, <1>10 DEF Last, weeks

(* After them come the months that begin by the end, the last of which     *)
(* ends no earlier.                                                        *)
LEMMA MonthsFacts ==
    ASSUME NEW after \in Int, NEW end \in Int, MonthStart # <<>>, end < Last(MonthStart)
    PROVE  LET months == Months(after, end) IN
           /\ InTime(months)
           /\ \A i \in DOMAIN months : after < months[i].start
           /\ months # <<>> => end <= Last(months).end
           /\ months = <<>> => \A m \in DOMAIN MonthStart : MonthStart[m] \notin (after + 1)..end
<1> DEFINE M == {m \in DOMAIN MonthStart : after < MonthStart[m] /\ MonthStart[m] <= end}
           L == Len(MonthStart)
           k == Cardinality(M)
           a == Min(M)
           months == Months(after, end)
<1>1. L \in Nat /\ 1 <= L /\ DOMAIN MonthStart = 1..L /\ end < MonthStart[L]
      /\ \A m \in 1..L : MonthStart[m] \in Int
  BY GanttAssumption DEF Last
<1>2. \A m, p \in 1..L : m < p => MonthStart[m] < MonthStart[p]
  BY <1>1, GanttAssumption
<1>3. months = [i \in 1..k |-> [start |-> MonthStart[a + i - 1], end |-> MonthStart[a + i] - 1]]
  BY DEF Months
<1>4. M \subseteq 1..L /\ IsFiniteSet(M) /\ k \in Nat
  <2>1. M \subseteq 1..L
    BY <1>1
  <2>2. IsFiniteSet(1..L)
    BY <1>1, FS_Interval
  <2> QED BY <2>1, <2>2, FS_Subset, FS_CardinalityType
<1>5. \A m \in 1..L : m \in M <=> after < MonthStart[m] /\ MonthStart[m] <= end
  BY <1>1
<1> HIDE DEF L, M, months
<1>6. CASE M = {}
  <2>1. k = 0
    BY <1>6, FS_EmptySet
  <2>2. months = <<>>
    BY <1>3, <2>1
  <2>3. \A m \in 1..L : MonthStart[m] \notin (after + 1)..end
    BY <1>1, <1>5, <1>6
  <2>4. InTime(<<>>)
    BY DEF InTime
  <2> QED BY <1>1, <2>2, <2>3, <2>4 DEF months
<1>7. CASE M # {}
  <2> DEFINE b == Max(M)
  <2>1. a \in M /\ b \in M /\ \A x \in M : a <= x /\ x <= b
    BY <1>4, <1>7, FirstAndLast
  <2> HIDE DEF a, b
  <2>2. a \in 1..L /\ b \in 1..L /\ a <= b /\ MonthStart[b] <= end
    BY <1>4, <1>5, <2>1
  <2>3. b < L
    <3>1. b # L
      BY <1>1, <2>2
    <3> QED BY <1>1, <2>2, <3>1
  <2>4. M = a..b
    <3>1. ASSUME NEW m \in a..b
          PROVE  m \in M
      <4>1. m \in 1..L /\ a <= m /\ m <= b
        BY <1>1, <2>2
      <4>2. (a = m \/ MonthStart[a] < MonthStart[m]) /\ (m = b \/ MonthStart[m] < MonthStart[b])
        BY <1>2, <2>2, <4>1
      <4>3. after < MonthStart[a] /\ MonthStart[b] <= end
        BY <1>5, <2>1, <2>2
      <4>4. MonthStart[a] \in Int /\ MonthStart[b] \in Int /\ MonthStart[m] \in Int
        BY <1>1, <2>2, <4>1
      <4>5. after < MonthStart[m] /\ MonthStart[m] <= end
        BY <4>2, <4>3, <4>4
      <4> QED BY <1>5, <4>1, <4>5
    <3>2. ASSUME NEW m \in M
          PROVE  m \in a..b
      <4>1. m \in 1..L /\ a <= m /\ m <= b
        BY <1>4, <2>1
      <4> QED BY <2>2, <4>1
    <3> QED BY <3>1, <3>2
  <2>5. k = b - a + 1
    <3>1. Cardinality(a..b) = IF a > b THEN 0 ELSE b - a + 1
      BY <2>2, FS_Interval
    <3> QED BY <2>2, <2>4, <3>1
  <2>6. \A i \in 1..k : /\ months[i].start = MonthStart[a + i - 1] /\ months[i].end = MonthStart[a + i] - 1
                        /\ a + i - 1 \in a..b /\ a + i \in 1..L
    BY <1>1, <1>3, <2>2, <2>3, <2>5
  <2>7. months \in Seq(Column) /\ DOMAIN months = 1..k /\ Len(months) = k
    <3>1. months \in [1..k -> Column]
      BY <1>1, <1>3, <2>2, <2>3, <2>5 DEF Column
    <3> QED BY <1>4, <3>1
  <2> HIDE DEF k
  <2>8. \A i \in 1..k : months[i].start <= months[i].end /\ after < months[i].start
    <3> TAKE i \in 1..k
    <3>1. a + i - 1 \in 1..L /\ a + i \in 1..L /\ a + i - 1 \in M
      BY <1>1, <2>2, <2>4, <2>6
    <3>2. MonthStart[a + i - 1] < MonthStart[a + i]
      BY <1>2, <2>2, <3>1
    <3> QED BY <1>1, <1>5, <2>6, <3>1, <3>2
  <2>9. \A i, j \in 1..k : i < j => months[i].end < months[j].start
    <3> SUFFICES ASSUME NEW i \in 1..k, NEW j \in 1..k, i < j
                 PROVE  months[i].end < months[j].start
      OBVIOUS
    <3>0. i < j /\ i \in 1..k /\ j \in 1..k
      OBVIOUS
    <3>1. a + i \in 1..L /\ a + j - 1 \in 1..L /\ a + i <= a + j - 1
      <4>1. i <= j - 1 /\ i \in Int /\ j \in Int /\ a \in Int
        BY <1>4, <2>2, <3>0
      <4>2. a + j - 1 \in a..b /\ a + i \in 1..L
        BY <2>6
      <4> QED BY <1>1, <2>2, <4>1, <4>2
    <3>2. MonthStart[a + i] <= MonthStart[a + j - 1]
      <4>1. a + i = a + j - 1 \/ MonthStart[a + i] < MonthStart[a + j - 1]
        BY <1>2, <2>2, <3>1
      <4> QED BY <1>1, <3>1, <4>1
    <3> QED BY <1>1, <2>6, <3>1, <3>2
  <2>10. months # <<>> /\ end <= months[k].end
    <3>1. k \in 1..k /\ a + k = b + 1 /\ b + 1 \in 1..L /\ b + 1 \notin M
      BY <1>1, <2>2, <2>3, <2>4, <2>5
    <3>2. after < MonthStart[b] /\ MonthStart[b] < MonthStart[b + 1]
      BY <1>2, <1>5, <2>1, <2>2, <3>1
    <3>3. end < MonthStart[b + 1]
      <4>1. MonthStart[b] \in Int /\ MonthStart[b + 1] \in Int
        BY <1>1, <2>2, <3>1
      <4>2. after < MonthStart[b + 1]
        BY <3>2, <4>1
      <4>3. ~(MonthStart[b + 1] <= end)
        BY <1>5, <3>1, <4>2, Zenon
      <4> QED BY <4>1, <4>3
    <3>4. months[k].end = MonthStart[b + 1] - 1
      <4>1. months[k].end = MonthStart[a + k] - 1
        <5> HIDE DEF a, b
        <5> QED BY <2>6, <3>1, Zenon
      <4> QED BY <3>1, <4>1
    <3>5. end <= months[k].end
      <4>1. MonthStart[b + 1] \in Int
        BY <1>1, <3>1
      <4> HIDE DEF months, a, b
      <4> QED BY <3>3, <3>4, <4>1
    <3>6. Len(months) # 0
      BY <2>2, <2>7, <3>1
    <3> QED BY <3>5, <3>6
  <2>11. InTime(months)
    BY <2>7, <2>8, <2>9 DEF InTime
  <2> QED BY <2>7, <2>8, <2>10, <2>11 DEF Last, months
<1> QED BY <1>6, <1>7

(* The whole axis reaches from the start to the end, but for a gap between *)
(* the weeks and the first month.                                          *)
LEMMA AxisFacts ==
    ASSUME NEW start \in Int, NEW end \in Int, MonthStart # <<>>, Later(start, end) < Last(MonthStart)
    PROVE  LET columns == BuildAxis(start, end) IN
           /\ InTime(columns) /\ columns # <<>>
           /\ columns[1].start <= start
           /\ \/ Later(start, end) <= Last(columns).end
              \/ /\ Len(columns) = WeeklyLimit
                 /\ \A m \in DOMAIN MonthStart :
                       MonthStart[m] \notin (Last(columns).end + 1)..Later(start, end)
<1> DEFINE end1 == Later(start, end)
           weeks == Weeks(start, end1)
           n == Len(weeks)
           after == Last(weeks).end
           months == Months(after, end1)
           columns == BuildAxis(start, end)
<1>1. end1 \in Int /\ start <= end1
  BY DEF Later
<1>2. columns = weeks \o months
  BY DEF BuildAxis
<1> HIDE DEF end1, columns
<1>3. InTime(weeks) /\ weeks # <<>> /\ weeks[1].start <= start /\ (n = WeeklyLimit \/ end1 <= after)
  BY <1>1, WeeksFacts
<1> HIDE DEF weeks
<1>4. n \in Nat /\ 1 <= n /\ after = weeks[n].end /\ DOMAIN weeks = 1..n /\ weeks \in Seq(Column)
  BY <1>3 DEF InTime, Last
<1> HIDE DEF n, after
<1>5. \A i \in 1..n : weeks[i].start \in Int /\ weeks[i].end \in Int /\ weeks[i].end <= after
  <2>1. \A i \in 1..n : weeks[i] \in Column
    BY <1>4
  <2>2. \A i \in 1..n : weeks[i].start \in Int /\ weeks[i].end \in Int
    BY <2>1 DEF Column
  <2> TAKE i \in 1..n
  <2>3. n \in 1..n /\ weeks[n].start <= weeks[n].end /\ (i = n \/ weeks[i].end < weeks[n].start)
    <3>1. n \in 1..n
      BY <1>4
    <3>2. i = n \/ i < n
      BY <1>4
    <3> QED BY <1>3, <1>4, <3>1, <3>2 DEF InTime
  <2> QED BY <1>4, <2>2, <2>3
<1>6. after \in Int
  BY <1>4, <1>5
<1>7. /\ InTime(months) /\ \A i \in DOMAIN months : after < months[i].start
      /\ months # <<>> => end1 <= Last(months).end
      /\ months = <<>> => \A m \in DOMAIN MonthStart : MonthStart[m] \notin (after + 1)..end1
  BY <1>1, <1>6, MonthsFacts DEF end1, after
<1> HIDE DEF months
<1> DEFINE k == Len(months)
<1>8. k \in Nat /\ DOMAIN months = 1..k /\ months \in Seq(Column) /\ (months = <<>> <=> k = 0)
  <2>1. months \in Seq(Column)
    BY <1>7 DEF InTime
  <2> QED BY <2>1
<1>9. /\ columns \in Seq(Column) /\ Len(columns) = n + k /\ DOMAIN columns = 1..(n + k)
      /\ \A i \in 1..n : columns[i] = weeks[i]
      /\ \A i \in (n + 1)..(n + k) : columns[i] = months[i - n] /\ i - n \in 1..k
  <2>1. columns \in Seq(Column) /\ Len(columns) = n + k
    BY <1>2, <1>4, <1>8 DEF n
  <2>2. \A i \in 1..(n + k) : columns[i] = IF i <= n THEN weeks[i] ELSE months[i - n]
    BY <1>2, <1>4, <1>8 DEF n
  <2> QED BY <1>4, <1>8, <2>1, <2>2
<1> HIDE DEF k
<1>10. \A i \in 1..k : months[i].start \in Int /\ months[i].end \in Int
  <2>1. \A i \in 1..k : months[i] \in Column
    BY <1>8
  <2> QED BY <2>1 DEF Column
<1>11. InTime(columns)
  <2>1. \A i \in 1..(n + k) : columns[i].start <= columns[i].end
    <3> TAKE i \in 1..(n + k)
    <3>1. CASE i \in 1..n
      BY <1>3, <1>4, <1>9, <3>1 DEF InTime
    <3>2. CASE i \in (n + 1)..(n + k)
      BY <1>7, <1>8, <1>9, <3>2 DEF InTime
    <3> QED BY <1>4, <1>8, <3>1, <3>2
  <2>2. ASSUME NEW i \in 1..(n + k), NEW j \in 1..(n + k), i < j
        PROVE  columns[i].end < columns[j].start
    <3>1. CASE j \in 1..n
      <4>1. i \in 1..n
        BY <1>4, <2>2, <3>1
      <4>2. weeks[i].end < weeks[j].start
        BY <1>3, <1>4, <2>2, <3>1, <4>1 DEF InTime
      <4> QED BY <1>9, <3>1, <4>1, <4>2
    <3>2. CASE i \in 1..n /\ j \in (n + 1)..(n + k)
      <4>1. columns[i] = weeks[i] /\ columns[j] = months[j - n] /\ j - n \in 1..k
        BY <1>9, <3>2
      <4>2. weeks[i].end <= after /\ after < months[j - n].start
        BY <1>5, <1>7, <1>8, <3>2, <4>1
      <4> QED BY <1>5, <1>6, <1>10, <3>2, <4>1, <4>2
    <3>3. CASE i \in (n + 1)..(n + k) /\ j \in (n + 1)..(n + k)
      <4>1. i - n \in 1..k /\ j - n \in 1..k /\ i - n < j - n
        BY <1>4, <1>8, <2>2, <3>3
      <4>2. months[i - n].end < months[j - n].start
        BY <1>7, <1>8, <4>1 DEF InTime
      <4> QED BY <1>9, <3>3, <4>2
    <3> QED BY <1>4, <1>8, <2>2, <3>1, <3>2, <3>3
  <2> QED BY <1>9, <2>1, <2>2 DEF InTime
<1>12. columns # <<>> /\ columns[1].start <= start
  BY <1>3, <1>4, <1>8, <1>9
<1>13. CASE months = <<>>
  <2>1. k = 0 /\ Len(columns) = n /\ Last(columns) = weeks[n]
    BY <1>4, <1>8, <1>9, <1>13 DEF Last
  <2> QED BY <1>3, <1>4, <1>7, <1>11, <1>12, <1>13, <2>1 DEF n, columns, end1
<1>14. CASE months # <<>>
  <2>1. k >= 1 /\ n + k \in (n + 1)..(n + k) /\ (n + k) - n = k
    BY <1>4, <1>8, <1>14
  <2>2. Last(columns) = months[k] /\ Last(months) = months[k]
    BY <1>9, <2>1 DEF Last, k
  <2> QED BY <1>7, <1>11, <1>12, <1>14, <2>2 DEF columns, end1
<1> QED BY <1>13, <1>14

-----------------------------------------------------------------------------
Kids(p) == {c \in DOMAIN tasks : tasks[c].parent = p}

Level(t) == Cardinality(ChainUp(t))

(* A chain is the task and the chain of its parent. *)
LEMMA ChainOfParent ==
    ASSUME TreeTypes, NEW t \in DOMAIN tasks
    PROVE  IF tasks[t].parent = None THEN ChainUp(t) = {t}
           ELSE tasks[t].parent \in DOMAIN tasks /\ ChainUp(t) = {t} \cup ChainUp(tasks[t].parent)
<1>1. t \in ChainUp(t) /\ Closed(ChainUp(t)) /\ \A S : t \in S /\ Closed(S) => ChainUp(t) \subseteq S
  BY ChainsAreSound DEF ChainsSound
<1>2. CASE tasks[t].parent = None
  <2>1. Closed({t})
    BY <1>2 DEF Closed
  <2> QED BY <1>1, <1>2, <2>1
<1>3. CASE tasks[t].parent # None
  <2> DEFINE p == tasks[t].parent
  <2>1. p \in DOMAIN tasks
    BY <1>3 DEF TreeTypes, ParentsThere
  <2>2. p \in ChainUp(p) /\ Closed(ChainUp(p)) /\ \A S : p \in S /\ Closed(S) => ChainUp(p) \subseteq S
    BY <2>1, ChainsAreSound DEF ChainsSound
  <2>3. Closed({t} \cup ChainUp(p))
    BY <2>2 DEF Closed
  <2>4. ChainUp(p) \subseteq ChainUp(t)
    <3>1. p \in ChainUp(t)
      BY <1>1, <1>3 DEF Closed
    <3> QED BY <1>1, <2>2, <3>1
  <2> QED BY <1>1, <1>3, <2>1, <2>3, <2>4
<1> QED BY <1>2, <1>3

(* A task of a chain has a chain within it. *)
LEMMA ChainOfMember ==
    ASSUME TreeTypes, NEW t \in DOMAIN tasks, NEW u \in ChainUp(t)
    PROVE  /\ u \in DOMAIN tasks /\ ChainUp(u) \subseteq ChainUp(t)
           /\ Level(u) <= Level(t) /\ Level(u) \in Nat /\ Level(t) \in Nat
<1>1. ChainUp(t) \subseteq DOMAIN tasks /\ Closed(ChainUp(t)) /\ IsFiniteSet(ChainUp(t))
  BY ChainsAreSound DEF ChainsSound
<1>2. ChainUp(u) \subseteq ChainUp(t)
  BY <1>1, ChainsAreSound DEF ChainsSound
<1> QED BY <1>1, <1>2, FS_Subset, FS_CardinalityType DEF Level

(* Of two tasks of a chain, one is above the other. *)
LEMMA ChainIsOrdered ==
    ASSUME TreeTypes, NEW t \in DOMAIN tasks, NEW x \in ChainUp(t), NEW y \in ChainUp(t)
    PROVE  x \in ChainUp(y) \/ y \in ChainUp(x)
<1> DEFINE S == {z \in ChainUp(t) : x \in ChainUp(z) \/ z \in ChainUp(x)}
<1>1. t \in S
  BY ChainsAreSound DEF ChainsSound
<1>2. Closed(S)
  <2> SUFFICES ASSUME NEW z \in S \cap DOMAIN tasks, tasks[z].parent # None
               PROVE  tasks[z].parent \in S
    BY DEF Closed
  <2> DEFINE p == tasks[z].parent
  <2>1. p \in ChainUp(t)
    BY ChainsAreSound DEF ChainsSound, Closed
  <2>2. x \in DOMAIN tasks /\ x \in ChainUp(x) /\ Closed(ChainUp(x))
    BY ChainsAreSound DEF ChainsSound
  <2>3. ChainUp(z) = {z} \cup ChainUp(p)
    BY <2>1, ChainOfParent
  <2>4. z \in ChainUp(x) => p \in ChainUp(x)
    BY <2>2 DEF Closed
  <2> QED BY <2>1, <2>2, <2>3, <2>4
<1>3. ChainUp(t) \subseteq S
  BY <1>1, <1>2, ChainsAreSound DEF ChainsSound
<1> QED BY <1>3

(* Below a task that leads up to a root, the same holds and each level is  *)
(* one more.                                                               *)
LEMMA KidsAreBelow ==
    ASSUME TreeTypes, NEW t \in DOMAIN tasks, Rooted(t), NEW c \in Kids(t)
    PROVE  c \in DOMAIN tasks /\ Rooted(c) /\ c \notin ChainUp(t) /\ Level(c) = Level(t) + 1
<1>1. c \in DOMAIN tasks /\ tasks[c].parent = t /\ t # None
  BY PlanTreeAssumption DEF Kids, TreeTypes
<1>2. ChainUp(c) = {c} \cup ChainUp(t)
  BY <1>1, ChainOfParent
<1>3. t \in ChainUp(t) /\ Closed(ChainUp(t)) /\ IsFiniteSet(ChainUp(t)) /\ ChainUp(t) \subseteq DOMAIN tasks
  BY ChainsAreSound DEF ChainsSound
<1>4. PICK r \in ChainUp(t) : tasks[r].parent = None
  BY DEF Rooted
<1>5. c \notin ChainUp(t)
  <2> SUFFICES ASSUME c \in ChainUp(t)
               PROVE  FALSE
    OBVIOUS
  <2> DEFINE S == {u \in ChainUp(t) : c \in ChainUp(u)}
  <2>1. Closed(S)
    <3> SUFFICES ASSUME NEW u \in S \cap DOMAIN tasks, tasks[u].parent # None
                 PROVE  tasks[u].parent \in S
      BY DEF Closed
    <3>1. tasks[u].parent \in ChainUp(t)
      BY <1>3 DEF Closed
    <3>2. ChainUp(u) = {u} \cup ChainUp(tasks[u].parent)
      BY ChainOfParent
    <3> QED BY <1>1, <3>1, <3>2
  <2>2. ChainUp(t) \subseteq S
    BY <1>3, <2>1, ChainsAreSound DEF ChainsSound
  <2>3. r \in DOMAIN tasks /\ ChainUp(r) = {r}
    BY <1>3, <1>4, ChainOfParent
  <2> QED BY <1>1, <1>4, <2>2, <2>3
<1>6. Rooted(c)
  BY <1>2, <1>4 DEF Rooted
<1>7. Level(c) = Level(t) + 1
  <2>1. ChainUp(c) = ChainUp(t) \cup {c}
    BY <1>2
  <2>2. Cardinality(ChainUp(t) \cup {c}) = Cardinality(ChainUp(t)) + 1
    BY <1>3, <1>5, FS_AddElement
  <2> QED BY <2>1, <2>2 DEF Level
<1> QED BY <1>1, <1>5, <1>6, <1>7

(* What is above a root, or nothing, has no task above two of its kids.    *)
LeadsUp(p) == p = None \/ (p \in DOMAIN tasks /\ Rooted(p))

LEMMA KidsAreApart ==
    ASSUME TreeTypes, NEW p, LeadsUp(p), NEW c \in Kids(p), NEW d \in Kids(p),
           NEW u \in DOMAIN tasks, c \in ChainUp(u), d \in ChainUp(u)
    PROVE  c = d
<1>1. ASSUME NEW a \in Kids(p), NEW b \in Kids(p), a \in ChainUp(b)
      PROVE  a = b
  <2>1. a \in DOMAIN tasks /\ b \in DOMAIN tasks /\ tasks[b].parent = p
    BY DEF Kids
  <2>2. CASE p = None
    BY <1>1, <2>1, <2>2, ChainOfParent
  <2>3. CASE p # None
    <3>1. ChainUp(b) = {b} \cup ChainUp(p)
      BY <2>1, <2>3, ChainOfParent
    <3>2. a \notin ChainUp(p)
      BY <2>3, KidsAreBelow DEF LeadsUp
    <3> QED BY <1>1, <3>1, <3>2
  <2> QED BY <2>2, <2>3
<1> QED BY <1>1, ChainIsOrdered

(* What is below a task is below one of its kids. *)
LEMMA BelowIsBelowKid ==
    ASSUME TreeTypes, NEW t \in DOMAIN tasks, NEW u \in DOMAIN tasks, t \in ChainUp(u), u # t
    PROVE  \E c \in Kids(t) : c \in ChainUp(u)
<1> SUFFICES ASSUME \A c \in Kids(t) : c \notin ChainUp(u)
             PROVE  FALSE
  OBVIOUS
<1> DEFINE S == ChainUp(u) \ {t}
<1>1. u \in ChainUp(u) /\ Closed(ChainUp(u)) /\ ChainUp(u) \subseteq DOMAIN tasks
  BY ChainsAreSound DEF ChainsSound
<1>2. Closed(S)
  <2> SUFFICES ASSUME NEW v \in S \cap DOMAIN tasks, tasks[v].parent # None
               PROVE  tasks[v].parent \in S
    BY DEF Closed
  <2>1. v \in ChainUp(u) /\ tasks[v].parent \in ChainUp(u)
    BY <1>1 DEF Closed
  <2>2. tasks[v].parent # t
    BY <2>1 DEF Kids
  <2> QED BY <2>1, <2>2
<1>3. ChainUp(u) \subseteq S
  BY <1>1, <1>2, ChainsAreSound DEF ChainsSound
<1> QED BY <1>3

-----------------------------------------------------------------------------
(* Rows that show all that is below some tasks, each once and after its    *)
(* parent, with only deeper rows between the two.                          *)
Row == [task : Tasks, level : Int]

After1(rows, i) ==
    \E j \in 1..(i - 1) : /\ tasks[rows[i].task].parent = rows[j].task
                          /\ \A m \in (j + 1)..(i - 1) : rows[m].level > rows[j].level

Told(rows, K) ==
    \A i \in DOMAIN rows : /\ rows[i].task \in DOMAIN tasks /\ rows[i].level = Level(rows[i].task)
                           /\ \E c \in K : c \in ChainUp(rows[i].task)

Complete(rows, K) ==
    \A u \in DOMAIN tasks : (\E c \in K : c \in ChainUp(u)) => \E i \in DOMAIN rows : rows[i].task = u

Distinct(rows) == \A i, j \in DOMAIN rows : rows[i].task = rows[j].task => i = j

Nested(rows, K) == \A i \in DOMAIN rows : rows[i].task \in K \/ After1(rows, i)

Preorder(rows, K) ==
    rows \in Seq(Row) /\ Told(rows, K) /\ Complete(rows, K) /\ Distinct(rows) /\ Nested(rows, K)

LEMMA NothingBelow == Preorder(<<>>, {})
<1>1. DOMAIN <<>> = {} /\ <<>> \in Seq(Row)
  OBVIOUS
<1> QED BY <1>1 DEF Preorder, Told, Complete, Distinct, Nested

(* Where the rows of a joined sequence come from.                          *)
IsJoin(rows, r1, r2) ==
    /\ rows \in Seq(Row) /\ r1 \in Seq(Row) /\ r2 \in Seq(Row)
    /\ Len(rows) = Len(r1) + Len(r2)
    /\ \A i \in 1..Len(r1) : rows[i] = r1[i]
    /\ \A i \in 1..Len(r2) : rows[Len(r1) + i] = r2[i]

LEMMA ConcatIsJoin ==
    ASSUME NEW r1 \in Seq(Row), NEW r2 \in Seq(Row)
    PROVE  IsJoin(r1 \o r2, r1, r2)
BY DEF IsJoin

LEMMA JoinPlaces ==
    ASSUME NEW rows, NEW r1, NEW r2, IsJoin(rows, r1, r2)
    PROVE  /\ Len(r1) \in Nat /\ Len(r2) \in Nat
           /\ DOMAIN rows = 1..(Len(r1) + Len(r2)) /\ DOMAIN r1 = 1..Len(r1) /\ DOMAIN r2 = 1..Len(r2)
           /\ \A i \in DOMAIN rows : \/ i \in DOMAIN r1 /\ rows[i] = r1[i]
                                     \/ i - Len(r1) \in DOMAIN r2 /\ rows[i] = r2[i - Len(r1)]
<1>1. /\ Len(r1) \in Nat /\ Len(r2) \in Nat
      /\ DOMAIN rows = 1..(Len(r1) + Len(r2)) /\ DOMAIN r1 = 1..Len(r1) /\ DOMAIN r2 = 1..Len(r2)
  <2>1. rows \in Seq(Row) /\ r1 \in Seq(Row) /\ r2 \in Seq(Row) /\ Len(rows) = Len(r1) + Len(r2)
    BY DEF IsJoin
  <2> QED BY <2>1
<1>2. ASSUME NEW i \in DOMAIN rows
      PROVE  \/ i \in DOMAIN r1 /\ rows[i] = r1[i]
             \/ i - Len(r1) \in DOMAIN r2 /\ rows[i] = r2[i - Len(r1)]
  <2>1. CASE i <= Len(r1)
    BY <1>1, <2>1 DEF IsJoin
  <2>2. CASE i > Len(r1)
    <3>1. i - Len(r1) \in 1..Len(r2) /\ Len(r1) + (i - Len(r1)) = i
      BY <1>1, <2>2
    <3>2. rows[Len(r1) + (i - Len(r1))] = r2[i - Len(r1)]
      BY <3>1 DEF IsJoin
    <3> QED BY <1>1, <3>1, <3>2
  <2> QED BY <1>1, <2>1, <2>2
<1> QED BY <1>1, <1>2

(* A row keeps its place under its parent in what the rows are joined to.  *)
LEMMA JoinKeepsAfter ==
    ASSUME NEW rows, NEW r1, NEW r2, IsJoin(rows, r1, r2)
    PROVE  /\ \A i \in DOMAIN r1 : After1(r1, i) => After1(rows, i)
           /\ \A i \in DOMAIN r2 : After1(r2, i) => After1(rows, Len(r1) + i)
<1>1. Len(r1) \in Nat /\ Len(r2) \in Nat /\ DOMAIN r1 = 1..Len(r1) /\ DOMAIN r2 = 1..Len(r2)
  BY JoinPlaces
<1>2. (\A i \in 1..Len(r1) : rows[i] = r1[i]) /\ \A i \in 1..Len(r2) : rows[Len(r1) + i] = r2[i]
  BY DEF IsJoin
<1>3. ASSUME NEW i \in DOMAIN r1, After1(r1, i)
      PROVE  After1(rows, i)
  <2>1. PICK j \in 1..(i - 1) : /\ tasks[r1[i].task].parent = r1[j].task
                                /\ \A m \in (j + 1)..(i - 1) : r1[m].level > r1[j].level
    BY <1>3 DEF After1
  <2>2. j \in 1..Len(r1) /\ i \in 1..Len(r1) /\ \A m \in (j + 1)..(i - 1) : m \in 1..Len(r1)
    BY <1>1
  <2> QED BY <1>2, <2>1, <2>2 DEF After1
<1>4. ASSUME NEW i \in DOMAIN r2, After1(r2, i)
      PROVE  After1(rows, Len(r1) + i)
  <2> DEFINE k == Len(r1)
  <2>1. PICK j \in 1..(i - 1) : /\ tasks[r2[i].task].parent = r2[j].task
                                /\ \A m \in (j + 1)..(i - 1) : r2[m].level > r2[j].level
    BY <1>4 DEF After1
  <2>2. j \in 1..Len(r2) /\ i \in 1..Len(r2) /\ k + j \in 1..(k + i - 1)
    BY <1>1
  <2>3. tasks[rows[k + i].task].parent = rows[k + j].task
    BY <1>2, <2>1, <2>2
  <2>4. ASSUME NEW m \in (k + j + 1)..(k + i - 1)
        PROVE  rows[m].level > rows[k + j].level
    <3>1. m - k \in (j + 1)..(i - 1) /\ m - k \in 1..Len(r2) /\ k + (m - k) = m
      BY <1>1, <2>2
    <3>2. rows[k + (m - k)] = r2[m - k] /\ rows[k + j] = r2[j]
      BY <1>2, <2>2, <3>1
    <3> QED BY <2>1, <3>1, <3>2
  <2> QED BY <2>2, <2>3, <2>4 DEF After1
<1> QED BY <1>3, <1>4

(* The rows of some kids and then the rows of others. *)
LEMMA PreorderJoin ==
    ASSUME TreeTypes, NEW p, LeadsUp(p), NEW K \in SUBSET Kids(p), NEW L \in SUBSET Kids(p), K \cap L = {},
           NEW r1, NEW r2, Preorder(r1, K), Preorder(r2, L)
    PROVE  Preorder(r1 \o r2, K \cup L)
<1> DEFINE rows == r1 \o r2
           k == Len(r1)
<1>1. IsJoin(rows, r1, r2)
  BY ConcatIsJoin DEF Preorder
<1> HIDE DEF rows
<1>2. rows \in Seq(Row)
  BY <1>1 DEF IsJoin
<1>3. /\ DOMAIN r1 \subseteq DOMAIN rows /\ \A i \in DOMAIN r1 : rows[i] = r1[i]
      /\ \A i \in DOMAIN r2 : k + i \in DOMAIN rows /\ rows[k + i] = r2[i]
      /\ \A i \in DOMAIN rows : \/ i \in DOMAIN r1 /\ rows[i] = r1[i]
                                \/ i - k \in DOMAIN r2 /\ rows[i] = r2[i - k]
      /\ \A i \in DOMAIN rows : k + (i - k) = i
      /\ \A i, j \in DOMAIN rows : i - k = j - k => i = j
  <2>1. /\ k \in Nat /\ Len(r2) \in Nat
        /\ DOMAIN rows = 1..(k + Len(r2)) /\ DOMAIN r1 = 1..k /\ DOMAIN r2 = 1..Len(r2)
    BY <1>1, JoinPlaces
  <2>2. (\A i \in 1..Len(r1) : rows[i] = r1[i]) /\ \A i \in 1..Len(r2) : rows[Len(r1) + i] = r2[i]
    BY <1>1 DEF IsJoin
  <2>3. \A i \in DOMAIN rows : \/ i \in DOMAIN r1 /\ rows[i] = r1[i]
                               \/ i - k \in DOMAIN r2 /\ rows[i] = r2[i - k]
    BY <1>1, JoinPlaces
  <2> QED BY <2>1, <2>2, <2>3
<1> HIDE DEF k
<1>4. Told(rows, K \cup L)
  BY <1>3 DEF Preorder, Told
<1>5. Complete(rows, K \cup L)
  <2> SUFFICES ASSUME NEW u \in DOMAIN tasks, NEW c \in K \cup L, c \in ChainUp(u)
               PROVE  \E i \in DOMAIN rows : rows[i].task = u
    BY DEF Complete
  <2>1. CASE c \in K
    <3>1. PICK i \in DOMAIN r1 : r1[i].task = u
      BY <2>1 DEF Preorder, Complete
    <3> QED BY <1>3, <3>1
  <2>2. CASE c \in L
    <3>1. PICK i \in DOMAIN r2 : r2[i].task = u
      BY <2>2 DEF Preorder, Complete
    <3> QED BY <1>3, <3>1
  <2> QED BY <2>1, <2>2
<1>6. Distinct(rows)
  <2>1. \A i \in DOMAIN r1, j \in DOMAIN r2 : r1[i].task # r2[j].task
    <3> SUFFICES ASSUME NEW i \in DOMAIN r1, NEW j \in DOMAIN r2, r1[i].task = r2[j].task
                 PROVE  FALSE
      OBVIOUS
    <3>1. PICK c \in K : c \in ChainUp(r1[i].task) /\ r1[i].task \in DOMAIN tasks
      BY DEF Preorder, Told
    <3>2. PICK d \in L : d \in ChainUp(r1[i].task)
      BY DEF Preorder, Told
    <3>3. c = d
      BY <3>1, <3>2, KidsAreApart
    <3> QED BY <3>1, <3>2, <3>3
  <2> SUFFICES ASSUME NEW i \in DOMAIN rows, NEW j \in DOMAIN rows, rows[i].task = rows[j].task
               PROVE  i = j
    BY DEF Distinct
  <2>2. CASE i \in DOMAIN r1 /\ rows[i] = r1[i] /\ j \in DOMAIN r1 /\ rows[j] = r1[j]
    BY <2>2 DEF Preorder, Distinct
  <2>3. CASE i - k \in DOMAIN r2 /\ rows[i] = r2[i - k] /\ j - k \in DOMAIN r2 /\ rows[j] = r2[j - k]
    BY <1>3, <2>3 DEF Preorder, Distinct
  <2> QED BY <1>3, <2>1, <2>2, <2>3
<1>7. Nested(rows, K \cup L)
  <2> SUFFICES ASSUME NEW i \in DOMAIN rows
               PROVE  rows[i].task \in K \cup L \/ After1(rows, i)
    BY DEF Nested
  <2>1. CASE i \in DOMAIN r1 /\ rows[i] = r1[i]
    BY <1>1, <2>1, JoinKeepsAfter DEF Preorder, Nested
  <2>2. CASE i - k \in DOMAIN r2 /\ rows[i] = r2[i - k]
    <3>1. r2[i - k].task \in L \/ After1(r2, i - k)
      BY <2>2 DEF Preorder, Nested
    <3>2. After1(r2, i - k) => After1(rows, k + (i - k))
      BY <1>1, <2>2, JoinKeepsAfter DEF k
    <3> QED BY <1>3, <2>2, <3>1, <3>2
  <2> QED BY <1>3, <2>1, <2>2
<1> QED BY <1>2, <1>4, <1>5, <1>6, <1>7 DEF Preorder, rows

(* A task, and then the rows of its kids. *)
LEMMA PreorderNode ==
    ASSUME TreeTypes, NEW t \in DOMAIN tasks, Rooted(t), NEW r2, Preorder(r2, Kids(t))
    PROVE  Preorder(<<[task |-> t, level |-> Level(t)]>> \o r2, {t})
<1> DEFINE row == [task |-> t, level |-> Level(t)]
           r1 == <<row>>
           rows == r1 \o r2
<1>1. r1 \in Seq(Row) /\ Len(r1) = 1 /\ r1[1].task = t /\ r1[1].level = Level(t) /\ Level(t) \in Nat
  <2>1. t \in Tasks /\ Level(t) \in Nat
    BY ChainsAreSound DEF ChainsSound, TreeTypes, Level
  <2>2. row.task = t /\ row.level = Level(t) /\ row \in Row
    BY <2>1 DEF Row
  <2> HIDE DEF row
  <2>3. r1 \in Seq(Row) /\ Len(r1) = 1 /\ r1[1] = row
    BY <2>2
  <2> QED BY <2>1, <2>2, <2>3
<1> HIDE DEF r1
<1>2. IsJoin(rows, r1, r2)
  BY <1>1, ConcatIsJoin DEF Preorder
<1> HIDE DEF rows
<1>3. rows \in Seq(Row)
  BY <1>2 DEF IsJoin
<1>4. /\ 1 \in DOMAIN rows /\ rows[1].task = t /\ rows[1].level = Level(t)
      /\ \A i \in DOMAIN r2 : 1 + i \in DOMAIN rows /\ rows[1 + i] = r2[i]
      /\ \A i \in DOMAIN rows : i = 1 \/ (i - 1 \in DOMAIN r2 /\ rows[i] = r2[i - 1] /\ i > 1 /\ i \in Nat)
      /\ \A i \in DOMAIN rows : 1 + (i - 1) = i
      /\ \A i, j \in DOMAIN rows : i - 1 = j - 1 => i = j
      /\ \A i \in DOMAIN rows : \A m \in 2..(i - 1) : m \in DOMAIN rows
  <2>1. /\ Len(r2) \in Nat /\ DOMAIN rows = 1..(1 + Len(r2)) /\ DOMAIN r2 = 1..Len(r2) /\ DOMAIN r1 = 1..1
    BY <1>1, <1>2, JoinPlaces
  <2>2. rows[1] = r1[1] /\ \A i \in 1..Len(r2) : rows[1 + i] = r2[i]
    BY <1>1, <1>2 DEF IsJoin
  <2>3. \A i \in DOMAIN rows : i \in DOMAIN r1 \/ (i - 1 \in DOMAIN r2 /\ rows[i] = r2[i - 1])
    BY <1>1, <1>2, JoinPlaces
  <2> QED BY <1>1, <2>1, <2>2, <2>3
<1>5. ASSUME NEW i \in DOMAIN r2
      PROVE  /\ r2[i].task \in DOMAIN tasks /\ t \in ChainUp(r2[i].task)
             /\ r2[i].level \in Nat /\ r2[i].level > Level(t)
             /\ r2[i].task # t /\ r2[i].level = Level(r2[i].task)
  <2>1. r2[i].task \in DOMAIN tasks /\ r2[i].level = Level(r2[i].task)
    BY DEF Preorder, Told
  <2>2. PICK c \in Kids(t) : c \in ChainUp(r2[i].task)
    BY DEF Preorder, Told
  <2>3. c \in DOMAIN tasks /\ Level(c) = Level(t) + 1 /\ c \notin ChainUp(t)
    BY KidsAreBelow
  <2>4. t \in ChainUp(c)
    <3>1. t \in ChainUp(t) /\ c \in ChainUp(c) /\ Closed(ChainUp(c)) /\ tasks[c].parent = t /\ t # None
      BY <2>3, PlanTreeAssumption, ChainsAreSound DEF ChainsSound, Kids, TreeTypes
    <3> QED BY <2>3, <3>1 DEF Closed
  <2>5. ChainUp(c) \subseteq ChainUp(r2[i].task) /\ Level(c) <= Level(r2[i].task)
        /\ Level(r2[i].task) \in Nat
    BY <2>1, <2>2, ChainOfMember
  <2>6. r2[i].task # t
    BY <2>2, <2>3
  <2> QED BY <1>1, <2>1, <2>3, <2>4, <2>5, <2>6
<1>6. Told(rows, {t})
  <2>1. t \in ChainUp(t)
    BY ChainsAreSound DEF ChainsSound
  <2> QED BY <1>4, <1>5, <2>1 DEF Told
<1>7. Complete(rows, {t})
  <2> SUFFICES ASSUME NEW u \in DOMAIN tasks, t \in ChainUp(u)
               PROVE  \E i \in DOMAIN rows : rows[i].task = u
    BY DEF Complete
  <2>1. CASE u = t
    BY <1>4, <2>1
  <2>2. CASE u # t
    <3>1. \E c \in Kids(t) : c \in ChainUp(u)
      BY <2>2, BelowIsBelowKid
    <3>2. PICK i \in DOMAIN r2 : r2[i].task = u
      BY <3>1 DEF Preorder, Complete
    <3> QED BY <1>4, <3>2
  <2> QED BY <2>1, <2>2
<1>8. Distinct(rows)
  <2> SUFFICES ASSUME NEW i \in DOMAIN rows, NEW j \in DOMAIN rows, rows[i].task = rows[j].task
               PROVE  i = j
    BY DEF Distinct
  <2>1. CASE i = 1 \/ j = 1
    BY <1>4, <1>5, <2>1
  <2>2. CASE i # 1 /\ j # 1
    <3>1. i - 1 \in DOMAIN r2 /\ j - 1 \in DOMAIN r2 /\ r2[i - 1].task = r2[j - 1].task
      BY <1>4, <2>2
    <3>2. i - 1 = j - 1
      BY <3>1 DEF Preorder, Distinct
    <3> QED BY <1>4, <3>2
  <2> QED BY <2>1, <2>2
<1>9. Nested(rows, {t})
  <2> SUFFICES ASSUME NEW i \in DOMAIN rows, i # 1
               PROVE  After1(rows, i)
    BY <1>4 DEF Nested
  <2>1. i - 1 \in DOMAIN r2 /\ rows[i] = r2[i - 1] /\ i > 1 /\ i \in Nat /\ 1 + (i - 1) = i
    BY <1>4
  <2>2. CASE After1(r2, i - 1)
    <3>1. After1(rows, Len(r1) + (i - 1))
      BY <1>2, <2>1, <2>2, JoinKeepsAfter
    <3> QED BY <1>1, <2>1, <3>1
  <2>3. CASE r2[i - 1].task \in Kids(t)
    <3>1. tasks[rows[i].task].parent = rows[1].task /\ 1 \in 1..(i - 1)
      BY <1>4, <2>1, <2>3 DEF Kids
    <3>2. \A m \in (1 + 1)..(i - 1) : rows[m].level > rows[1].level
      <4> TAKE m \in (1 + 1)..(i - 1)
      <4>1. m \in DOMAIN rows /\ m # 1
        BY <1>4, <2>1
      <4>2. m - 1 \in DOMAIN r2 /\ rows[m] = r2[m - 1]
        BY <1>4, <4>1
      <4> QED BY <1>4, <1>5, <4>2
    <3> QED BY <3>1, <3>2 DEF After1
  <2> QED BY <2>1, <2>2, <2>3 DEF Preorder, Nested
<1> QED BY <1>3, <1>6, <1>7, <1>8, <1>9 DEF Preorder, rows, r1

(* The children of a task, or the roots, come once each. *)
LEMMA ChildrenAreKids ==
    ASSUME DOMAIN tasks \subseteq Tasks, NEW p
    PROVE  /\ Children(tasks, p) \in [1..Cardinality(Kids(p)) -> Kids(p)]
           /\ Range(Children(tasks, p)) = Kids(p)
           /\ IsInjective(Children(tasks, p))
           /\ Cardinality(Kids(p)) \in Nat
<1> DEFINE K == Kids(p)
           before == [c \in K |-> {d \in K : Turn(d) < Turn(c)}]
<1>1. IsFiniteSet(K) /\ Cardinality(K) \in Nat /\ K \subseteq Tasks
  <2>1. K \subseteq Tasks
    BY DEF Kids
  <2> QED BY <2>1, TasksFinite, FS_Subset, FS_CardinalityType
<1>2. \A c \in K : Turn(c) \in Int /\ TaskOrder[Turn(c)] = c
  <2> TAKE c \in K
  <2>1. \E i \in DOMAIN TaskOrder : TaskOrder[i] = c
    BY <1>1, PlanTreeAssumption DEF Range
  <2>2. Turn(c) \in DOMAIN TaskOrder /\ TaskOrder[Turn(c)] = c
    BY <2>1 DEF Turn
  <2>3. DOMAIN TaskOrder \subseteq Int
    BY PlanTreeAssumption
  <2> QED BY <2>2, <2>3
<1>3. \A c, d \in K : c = d \/ Turn(c) < Turn(d) \/ Turn(d) < Turn(c)
  BY <1>2
<1>4. Children(tasks, p) = ByRank(before)
  BY DEF Children, Kids
<1>5. before \in [K -> SUBSET K] /\ \A c, d \in K : d \in before[c] <=> Turn(d) < Turn(c)
  OBVIOUS
<1> HIDE DEF before, K
<1>6. /\ \A c \in K : c \notin before[c]
      /\ \A c, d \in K : c = d \/ c \in before[d] \/ d \in before[c]
      /\ \A c, d \in K : c \in before[d] => before[c] \subseteq before[d]
  <2>1. \A c \in K : c \notin before[c]
    BY <1>2, <1>5
  <2>2. \A c, d \in K : c = d \/ c \in before[d] \/ d \in before[c]
    BY <1>3, <1>5
  <2>3. ASSUME NEW c \in K, NEW d \in K, c \in before[d], NEW e \in before[c]
        PROVE  e \in before[d]
    <3>1. e \in K
      BY <1>5, <2>3
    <3>2. Turn(e) < Turn(c) /\ Turn(c) < Turn(d)
      BY <1>5, <2>3, <3>1
    <3>3. Turn(e) < Turn(d)
      BY <1>2, <2>3, <3>1, <3>2
    <3> QED BY <1>5, <2>3, <3>1, <3>3
  <2> QED BY <2>1, <2>2, <2>3
<1>7. /\ ByRank(before) \in [1..Cardinality(K) -> K]
      /\ Range(ByRank(before)) = K
      /\ IsInjective(ByRank(before))
  BY <1>1, <1>5, <1>6, ByRankFacts
<1> QED BY <1>1, <1>4, <1>7 DEF K

(* The rows of all kids, from rows of each. *)
LEMMA RowsUnderTyped ==
    ASSUME DOMAIN tasks \subseteq Tasks, NEW p, NEW rows \in [DOMAIN tasks -> Seq(Row)]
    PROVE  RowsUnder(tasks, p, rows) \in Seq(Row)
           /\ \E g : /\ g[0] = <<>>
                     /\ \A n \in 1..Cardinality(Kids(p)) : g[n] = g[n - 1] \o rows[Children(tasks, p)[n]]
                     /\ RowsUnder(tasks, p, rows) = g[Cardinality(Kids(p))]
<1> DEFINE kids == Children(tasks, p)
           k == Cardinality(Kids(p))
           seqs == [i \in 1..Len(kids) |-> rows[kids[i]]]
<1>1. kids \in [1..k -> Kids(p)] /\ k \in Nat /\ Kids(p) \subseteq DOMAIN tasks
  BY ChildrenAreKids DEF Kids
<1> HIDE DEF kids, k
<1>2. Len(kids) = k
  BY <1>1
<1>3. \A i \in 1..k : rows[kids[i]] \in Seq(Row)
  BY <1>1
<1>4. seqs = [i \in 1..k |-> rows[kids[i]]]
  BY <1>2
<1>5. RowsUnder(tasks, p, rows) = FlattenSeq(seqs)
  BY DEF RowsUnder, kids
<1> HIDE DEF seqs
<1>6. seqs \in Seq(Seq(Row)) /\ Len(seqs) = k
  <2> DEFINE R == Seq(Row)
  <2>1. seqs \in [1..k -> R]
    BY <1>3, <1>4
  <2> HIDE DEF R
  <2>2. seqs \in Seq(R) /\ Len(seqs) = k
    BY <1>1, <2>1
  <2> QED BY <2>2 DEF R
<1>7. PICK g : JoinedUp(g, seqs, Row) /\ FlattenSeq(seqs) = g[Len(seqs)]
  BY <1>6, FlattenIs
<1>8. g[0] = <<>> /\ g[k] \in Seq(Row) /\ \A n \in 1..k : g[n] = g[n - 1] \o seqs[n]
  <2>1. /\ g \in [0..k -> Seq(Row)] /\ g[0] = <<>>
        /\ \A n \in 1..k : g[n] = g[n - 1] \o seqs[n]
    BY <1>6, <1>7 DEF JoinedUp
  <2>2. k \in 0..k
    BY <1>1
  <2> QED BY <2>1, <2>2
<1>9. \A n \in 1..k : g[n] = g[n - 1] \o rows[kids[n]]
  BY <1>4, <1>8
<1> QED BY <1>5, <1>6, <1>7, <1>8, <1>9 DEF k, kids

LEMMA PreorderUnder ==
    ASSUME TreeTypes, NEW p, LeadsUp(p), NEW rows \in [DOMAIN tasks -> Seq(Row)],
           \A c \in Kids(p) : Preorder(rows[c], {c})
    PROVE  Preorder(RowsUnder(tasks, p, rows), Kids(p))
<1> DEFINE kids == Children(tasks, p)
           k == Cardinality(Kids(p))
           First(n) == {kids[i] : i \in 1..n}
<1>1. kids \in [1..k -> Kids(p)] /\ k \in Nat /\ Range(kids) = Kids(p) /\ IsInjective(kids)
  BY ChildrenAreKids DEF TreeTypes
<1>2. PICK g : /\ g[0] = <<>>
               /\ \A n \in 1..k : g[n] = g[n - 1] \o rows[kids[n]]
               /\ RowsUnder(tasks, p, rows) = g[k]
  BY RowsUnderTyped DEF TreeTypes
<1> HIDE DEF kids, k
<1>3. \A n \in Nat : n \in 0..k => Preorder(g[n], First(n))
  <2> DEFINE P(n) == n \in 0..k => Preorder(g[n], First(n))
             S == {n \in Nat : P(n)}
  <2>1. P(0)
    <3>1. First(0) = {}
      OBVIOUS
    <3> QED BY <1>2, <3>1, NothingBelow
  <2>2. ASSUME NEW n \in Nat, P(n)
        PROVE  P(n + 1)
    <3> SUFFICES ASSUME n + 1 \in 0..k
                 PROVE  Preorder(g[n + 1], First(n + 1))
      OBVIOUS
    <3>1. n \in 0..k /\ n + 1 \in 1..k /\ (n + 1) - 1 = n
      BY <1>1
    <3>2. g[n + 1] = g[n] \o rows[kids[n + 1]] /\ kids[n + 1] \in Kids(p)
      BY <1>1, <1>2, <3>1
    <3>3. First(n + 1) = First(n) \cup {kids[n + 1]} /\ First(n) \subseteq Kids(p)
      <4>1. \A i \in 1..(n + 1) : (i \in 1..n \/ i = n + 1) /\ i \in 1..k
        BY <1>1, <3>1
      <4> QED BY <1>1, <4>1
    <3>4. kids[n + 1] \notin First(n)
      <4>1. \A i \in 1..n : i # n + 1 /\ i \in DOMAIN kids /\ n + 1 \in DOMAIN kids
        BY <1>1, <3>1
      <4> QED BY <1>1, <4>1 DEF IsInjective
    <3>5. Preorder(g[n], First(n)) /\ Preorder(rows[kids[n + 1]], {kids[n + 1]})
      BY <2>2, <3>1, <3>2
    <3> HIDE DEF First
    <3>6. First(n) \cap {kids[n + 1]} = {} /\ {kids[n + 1]} \in SUBSET Kids(p)
      BY <3>2, <3>4
    <3> DEFINE joined == g[n] \o rows[kids[n + 1]]
               more == First(n) \cup {kids[n + 1]}
    <3>7. Preorder(g[n] \o rows[kids[n + 1]], First(n) \cup {kids[n + 1]})
      BY <3>3, <3>5, <3>6, PreorderJoin
    <3>8. g[n + 1] = joined /\ First(n + 1) = more /\ Preorder(joined, more)
      BY <3>2, <3>3, <3>7
    <3> HIDE DEF joined, more
    <3> QED BY <3>8
  <2> HIDE DEF P
  <2>3. S = Nat
    <3>1. 0 \in S /\ \A n \in S : n + 1 \in S
      BY <2>1, <2>2
    <3> QED BY <3>1, NatSetInduction
  <2>4. \A n \in Nat : P(n)
    BY <2>3
  <2> QED BY <2>4 DEF P
<1>4. First(k) = Kids(p)
  BY <1>1 DEF Range
<1>5. k \in 0..k
  BY <1>1
<1> QED BY <1>1, <1>2, <1>3, <1>4, <1>5

(* The recursion of DepthFirst, which goes down as many levels as there    *)
(* are tasks.                                                              *)
Height == Cardinality(DOMAIN tasks)

Emitted(t, n, below) == <<[task |-> t, level |-> Height - n + 1]>> \o RowsUnder(tasks, t, below)

NoRows == [t \in DOMAIN tasks |-> <<>>]

IsEmit(f) ==
    f = [n \in 0..Height |->
            IF n = 0 THEN NoRows
            ELSE [t \in DOMAIN tasks |-> Emitted(t, n, f[n - 1])]]

LEMMA HeightFacts ==
    ASSUME TreeTypes
    PROVE  Height \in Nat /\ \A t \in DOMAIN tasks : Level(t) \in 1..Height
<1>1. IsFiniteSet(DOMAIN tasks) /\ Height \in Nat
  BY TasksFinite, FS_Subset, FS_CardinalityType DEF TreeTypes, Height
<1>2. ASSUME NEW t \in DOMAIN tasks
      PROVE  Level(t) \in 1..Height
  <2>1. t \in ChainUp(t) /\ ChainUp(t) \subseteq DOMAIN tasks /\ IsFiniteSet(ChainUp(t)) /\ Level(t) \in Nat
    BY ChainsAreSound DEF ChainsSound, Level
  <2>2. Level(t) <= Height
    BY <1>1, <2>1, FS_Subset DEF Level, Height
  <2>3. Level(t) # 0
    BY <2>1, FS_EmptySet DEF Level
  <2> QED BY <1>1, <2>1, <2>2, <2>3
<1> QED BY <1>1, <1>2

LEMMA EmittedTyped ==
    ASSUME TreeTypes, NEW n \in Nat, NEW below \in [DOMAIN tasks -> Seq(Row)], NEW t \in DOMAIN tasks
    PROVE  Emitted(t, n, below) \in Seq(Row)
<1> DEFINE row == [task |-> t, level |-> Height - n + 1]
<1>1. row \in Row
  BY HeightFacts DEF Row, TreeTypes
<1> HIDE DEF row
<1>2. <<row>> \in Seq(Row)
  BY <1>1
<1>3. RowsUnder(tasks, t, below) \in Seq(Row)
  BY RowsUnderTyped DEF TreeTypes
<1>4. <<row>> \o RowsUnder(tasks, t, below) \in Seq(Row)
  BY <1>2, <1>3
<1> QED BY <1>4 DEF Emitted, row

LEMMA EmitExists == ASSUME TreeTypes PROVE \E f : IsEmit(f)
<1> DEFINE A == [DOMAIN tasks -> Seq(Row)]
           base == NoRows
           F == [x \in Nat \X A |-> [t \in DOMAIN tasks |-> Emitted(t, x[1], x[2])]]
<1>1. Height \in Nat
  BY HeightFacts
<1>2. base \in A
  <2>1. <<>> \in Seq(Row)
    OBVIOUS
  <2> QED BY <2>1 DEF NoRows
<1>3. F \in [Nat \X A -> A]
  <2>1. ASSUME NEW n \in Nat, NEW below \in A, NEW t \in DOMAIN tasks
        PROVE  Emitted(t, n, below) \in Seq(Row)
    BY <2>1, EmittedTyped
  <2> QED BY <2>1
<1> HIDE DEF A, base, F
<1>4. PICK f : Unfolds(f, A, base, F, Height)
  BY <1>1, <1>2, <1>3, StepsExist
<1>5. f = [n \in 0..Height |-> IF n = 0 THEN base ELSE [t \in DOMAIN tasks |-> Emitted(t, n, f[n - 1])]]
  <2>1. f \in [0..Height -> A] /\ f[0] = base /\ \A n \in 1..Height : f[n] = F[<<n, f[n - 1]>>]
    BY <1>4 DEF Unfolds
  <2>2. ASSUME NEW n \in 1..Height
        PROVE  f[n] = [t \in DOMAIN tasks |-> Emitted(t, n, f[n - 1])]
    <3>1. n - 1 \in 0..Height /\ n \in Nat
      BY <1>1
    <3>2. <<n, f[n - 1]>> \in Nat \X A
      BY <2>1, <3>1
    <3>3. F[<<n, f[n - 1]>>] = [t \in DOMAIN tasks |-> Emitted(t, n, f[n - 1])]
      BY <3>2 DEF F
    <3> QED BY <2>1, <3>3
  <2>3. \A n \in 0..Height : n = 0 \/ n \in 1..Height
    BY <1>1
  <2> QED BY <2>1, <2>2, <2>3
<1> QED BY <1>5 DEF IsEmit, base

(* The rows of the plan: all that leads up to a root, in order. *)
LEMMA DepthFirstIs ==
    ASSUME TreeTypes
    PROVE  Preorder(DepthFirst(tasks), Kids(None))
<1> DEFINE f == CHOOSE g : IsEmit(g)
<1>1. IsEmit(f)
  BY EmitExists
<1>2. DepthFirst(tasks) = RowsUnder(tasks, None, f[Height])
  BY Zenon DEF DepthFirst, IsEmit, Height, Emitted, NoRows
<1> HIDE DEF f
<1>3. Height \in Nat /\ \A t \in DOMAIN tasks : Level(t) \in 1..Height
  BY HeightFacts
<1>4. \A n \in 0..Height : f[n] = IF n = 0 THEN NoRows
                                  ELSE [t \in DOMAIN tasks |-> Emitted(t, n, f[n - 1])]
  BY <1>1 DEF IsEmit
<1> DEFINE Good(n) == n \in 0..Height =>
               /\ f[n] \in [DOMAIN tasks -> Seq(Row)]
               /\ \A t \in DOMAIN tasks : Rooted(t) /\ Level(t) + n = Height + 1 => Preorder(f[n][t], {t})
<1>5. Good(0)
  <2>1. f[0] = NoRows
    <3>1. 0 \in 0..Height
      BY <1>3
    <3> QED BY <1>4, <3>1, Zenon
  <2>2. f[0] \in [DOMAIN tasks -> Seq(Row)]
    <3>1. <<>> \in Seq(Row)
      OBVIOUS
    <3> QED BY <2>1, <3>1 DEF NoRows
  <2>3. \A t \in DOMAIN tasks : Level(t) + 0 # Height + 1
    BY <1>3
  <2> QED BY <2>2, <2>3
<1>6. ASSUME NEW n \in Nat, Good(n)
      PROVE  Good(n + 1)
  <2> SUFFICES ASSUME n + 1 \in 0..Height
               PROVE  /\ f[n + 1] \in [DOMAIN tasks -> Seq(Row)]
                      /\ \A t \in DOMAIN tasks :
                            Rooted(t) /\ Level(t) + (n + 1) = Height + 1 => Preorder(f[n + 1][t], {t})
    OBVIOUS
  <2>1. n \in 0..Height /\ n + 1 # 0 /\ (n + 1) - 1 = n
    BY <1>3
  <2>2. f[n + 1] = [t \in DOMAIN tasks |-> Emitted(t, n + 1, f[n])]
    BY <1>4, <2>1
  <2>3. f[n] \in [DOMAIN tasks -> Seq(Row)]
    BY <1>6, <2>1
  <2>4. \A t \in DOMAIN tasks : Emitted(t, n + 1, f[n]) \in Seq(Row)
    BY <1>3, <2>3, EmittedTyped
  <2>5. ASSUME NEW t \in DOMAIN tasks, Rooted(t), Level(t) + (n + 1) = Height + 1
        PROVE  Preorder(Emitted(t, n + 1, f[n]), {t})
    <3>1. \A c \in Kids(t) : Preorder(f[n][c], {c})
      <4> TAKE c \in Kids(t)
      <4>1. c \in DOMAIN tasks /\ Rooted(c) /\ Level(c) = Level(t) + 1
        BY <2>5, KidsAreBelow
      <4>2. Level(c) + n = Height + 1
        BY <1>3, <2>5, <4>1
      <4> QED BY <1>6, <2>1, <4>1, <4>2
    <3>2. Preorder(RowsUnder(tasks, t, f[n]), Kids(t))
      BY <2>3, <2>5, <3>1, PreorderUnder DEF LeadsUp
    <3>3. Height - (n + 1) + 1 = Level(t)
      BY <1>3, <2>5
    <3>4. Preorder(<<[task |-> t, level |-> Level(t)]>> \o RowsUnder(tasks, t, f[n]), {t})
      BY <2>5, <3>2, PreorderNode
    <3>5. Emitted(t, n + 1, f[n]) = <<[task |-> t, level |-> Level(t)]>> \o RowsUnder(tasks, t, f[n])
      BY <3>3 DEF Emitted
    <3> QED BY <3>4, <3>5
  <2>6. \A t \in DOMAIN tasks : f[n + 1][t] = Emitted(t, n + 1, f[n])
    BY <2>2
  <2> QED BY <2>2, <2>4, <2>5, <2>6
<1> HIDE DEF Good
<1>7. \A n \in Nat : Good(n)
  <2> DEFINE S == {n \in Nat : Good(n)}
  <2>1. 0 \in S /\ \A n \in S : n + 1 \in S
    BY <1>5, <1>6
  <2>2. S = Nat
    BY <2>1, NatSetInduction
  <2> QED BY <2>2
<1>8. f[Height] \in [DOMAIN tasks -> Seq(Row)] /\ \A r \in Kids(None) : Preorder(f[Height][r], {r})
  <2>1. Height \in 0..Height /\ Good(Height)
    BY <1>3, <1>7
  <2>2. ASSUME NEW r \in Kids(None)
        PROVE  r \in DOMAIN tasks /\ Rooted(r) /\ Level(r) + Height = Height + 1
    <3>1. r \in DOMAIN tasks /\ tasks[r].parent = None
      BY DEF Kids
    <3>2. ChainUp(r) = {r}
      BY <3>1, ChainOfParent
    <3>3. Level(r) = 1
      BY <3>2, FS_Singleton DEF Level
    <3> QED BY <1>3, <3>1, <3>2, <3>3 DEF Rooted
  <2> QED BY <2>1, <2>2 DEF Good
<1>9. LeadsUp(None)
  BY DEF LeadsUp
<1>10. Preorder(RowsUnder(tasks, None, f[Height]), Kids(None))
  BY <1>8, <1>9, PreorderUnder
<1> QED BY <1>2, <1>10

(* So the screen shows the forest. *)
LEMMA ForestIsShown == ASSUME TreeTypes PROVE RowsAreTheForest
<1> DEFINE rows == DepthFirst(tasks)
<1>1. Preorder(rows, Kids(None))
  BY DepthFirstIs
<1> HIDE DEF rows
<1>2. \A u \in DOMAIN tasks : Rooted(u) <=> \E c \in Kids(None) : c \in ChainUp(u)
  <2> TAKE u \in DOMAIN tasks
  <2>1. ChainUp(u) \subseteq DOMAIN tasks
    BY ChainsAreSound DEF ChainsSound
  <2> QED BY <2>1 DEF Rooted, Kids
<1>3. \A i \in DOMAIN rows : rows[i].task \in DOMAIN tasks /\ rows[i].level = Level(rows[i].task)
                             /\ Rooted(rows[i].task)
  BY <1>1, <1>2 DEF Preorder, Told
<1>4. {r.task : r \in Range(rows)} = {t \in DOMAIN tasks : Rooted(t)}
  <2>1. \A u \in DOMAIN tasks : Rooted(u) => \E i \in DOMAIN rows : rows[i].task = u
    BY <1>1, <1>2 DEF Preorder, Complete
  <2> QED BY <1>3, <2>1 DEF Range
<1>5. \A i, j \in DOMAIN rows : rows[i].task = rows[j].task => i = j
  BY <1>1 DEF Preorder, Distinct
<1>6. ASSUME NEW i \in DOMAIN rows, rows[i].level > 1
      PROVE  tasks[rows[i].task].parent =
                 rows[Max({j \in 1..(i - 1) : rows[j].level = rows[i].level - 1})].task
  <2> DEFINE J == {j \in 1..(i - 1) : rows[j].level = rows[i].level - 1}
             t == rows[i].task
  <2>1. t \in DOMAIN tasks /\ rows[i].level = Level(t) /\ Level(t) \in Nat
    BY <1>3, HeightFacts
  <2>2. t \notin Kids(None)
    <3> SUFFICES ASSUME tasks[t].parent = None
                 PROVE  FALSE
      BY DEF Kids
    <3>1. ChainUp(t) = {t}
      BY <2>1, ChainOfParent
    <3>2. Level(t) = 1
      BY <3>1, FS_Singleton DEF Level
    <3> QED BY <1>6, <2>1, <3>2
  <2>3. PICK j \in 1..(i - 1) : /\ tasks[t].parent = rows[j].task
                                /\ \A m \in (j + 1)..(i - 1) : rows[m].level > rows[j].level
    BY <1>1, <2>2 DEF Preorder, Nested, After1
  <2>4. DOMAIN rows = 1..Len(rows) /\ Len(rows) \in Nat
    BY <1>1 DEF Preorder
  <2>5. \A m \in 1..(i - 1) : m \in DOMAIN rows /\ rows[m].level \in Nat
    BY <1>3, <2>4, HeightFacts
  <2>6. rows[j].level = Level(t) - 1
    <3>1. rows[j].task \in DOMAIN tasks /\ Rooted(rows[j].task) /\ rows[j].level = Level(rows[j].task)
          /\ Level(rows[j].task) \in Nat
      BY <1>3, <2>3, <2>5, HeightFacts
    <3>2. t \in Kids(rows[j].task)
      BY <2>1, <2>3 DEF Kids
    <3>3. Level(t) = Level(rows[j].task) + 1
      BY <3>1, <3>2, KidsAreBelow
    <3> QED BY <3>1, <3>3
  <2>7. j \in J /\ J \in SUBSET Int /\ IsFiniteSet(J)
    <3>1. J \subseteq 1..(i - 1) /\ i \in Nat
      BY <2>4
    <3>2. IsFiniteSet(1..(i - 1))
      BY <3>1, FS_Interval
    <3> QED BY <2>1, <2>3, <2>6, <3>1, <3>2, FS_Subset
  <2>8. Max(J) \in J /\ j <= Max(J)
    BY <2>7, FirstAndLast
  <2>9. Max(J) = j
    <3> SUFFICES ASSUME Max(J) # j
                 PROVE  FALSE
      OBVIOUS
    <3> DEFINE x == Max(J)
    <3>1. x \in 1..(i - 1) /\ rows[x].level = rows[i].level - 1 /\ j < x
      BY <2>7, <2>8
    <3> HIDE DEF x, J
    <3>2. x \in (j + 1)..(i - 1)
      BY <2>4, <3>1
    <3> QED BY <2>1, <2>3, <2>5, <2>6, <3>1, <3>2
  <2> QED BY <2>3, <2>9
<1> QED BY <1>4, <1>5, <1>6 DEF RowsAreTheForest, rows

-----------------------------------------------------------------------------
(* The dates of all tasks are before the last month of the calendar. *)
Covered == {d \in Int : MonthStart # <<>> /\ d < Last(MonthStart)}

DatesInCalendar ==
    \A t \in DOMAIN tasks : /\ tasks[t].start \in Covered \cup {None}
                            /\ tasks[t].end \in Covered \cup {None}

Span == [start : Covered \cup {None}, end : Covered \cup {None}]

(* A task has its own dates or, where it has none, those of its kids,      *)
(* which none of them ends after.                                          *)
LEMMA DatesFacts ==
    ASSUME TreeTypes, DatesInCalendar, NEW t \in DOMAIN tasks, NEW below \in [DOMAIN tasks -> Span]
    PROVE  /\ Dates(tasks, t, below) \in Span
           /\ tasks[t].end = None /\ ~tasks[t].milestone =>
                 \A c \in Kids(t) : below[c].end # None =>
                     /\ Dates(tasks, t, below).end # None
                     /\ below[c].end <= Dates(tasks, t, below).end
<1> DEFINE K == Kids(t)
           D == Covered \cup {None}
           starts == [c \in K |-> below[c].start]
           ends == [c \in K |-> below[c].end]
<1>1. IsFiniteSet(K) /\ K \subseteq DOMAIN tasks /\ Range(Children(tasks, t)) = K
  <2>1. K \subseteq Tasks /\ K \subseteq DOMAIN tasks
    BY DEF Kids, TreeTypes
  <2> QED BY <2>1, TasksFinite, FS_Subset, ChildrenAreKids DEF TreeTypes
<1>2. \A c \in K : below[c].start \in D /\ below[c].end \in D
  BY <1>1 DEF Span
<1> HIDE DEF K
<1>3. starts \in [K -> D] /\ ends \in [K -> D]
  BY <1>2
<1> HIDE DEF starts, ends, D
<1>4. /\ IsFiniteSet(Range(starts)) /\ Range(starts) \subseteq D
      /\ IsFiniteSet(Range(ends)) /\ Range(ends) \subseteq D
  BY <1>1, <1>3, FiniteImage
<1> DEFINE kids == {below[c] : c \in Range(Children(tasks, t))}
           start == IF tasks[t].start # None THEN tasks[t].start ELSE MinDate({d.start : d \in kids})
           end == IF tasks[t].end # None THEN tasks[t].end ELSE MaxDate({d.end : d \in kids})
<1>5. {d.start : d \in kids} = Range(starts) /\ {d.end : d \in kids} = Range(ends)
  BY <1>1 DEF Range, starts, ends
<1>6. Dates(tasks, t, below) = [start |-> start, end |-> IF tasks[t].milestone THEN start ELSE end]
  BY DEF Dates
<1> HIDE DEF kids
<1>7. D \subseteq Int \cup {None}
  BY DEF Covered, D
<1>8. /\ MinDate(Range(starts)) \in Range(starts) \cup {None}
      /\ MaxDate(Range(ends)) \in Range(ends) \cup {None}
      /\ \A x \in Range(ends) \ {None} : MaxDate(Range(ends)) # None /\ x <= MaxDate(Range(ends))
  BY <1>4, <1>7, DatesSpan
<1>9. start \in D /\ end \in D
  BY <1>4, <1>5, <1>8 DEF D, DatesInCalendar
<1>10. Dates(tasks, t, below) \in Span
  BY <1>6, <1>9 DEF Span, D
<1>11. ASSUME tasks[t].end = None, ~tasks[t].milestone, NEW c \in K, below[c].end # None
       PROVE  Dates(tasks, t, below).end # None /\ below[c].end <= Dates(tasks, t, below).end
  <2>1. Dates(tasks, t, below).end = MaxDate(Range(ends))
    <3>1. end = MaxDate(Range(ends))
      BY <1>5, <1>11
    <3> HIDE DEF start, end
    <3>2. (IF tasks[t].milestone THEN start ELSE end) = end
      BY <1>11, Zenon
    <3> QED BY <1>6, <3>1, <3>2
  <2>2. below[c].end \in Range(ends) \ {None}
    BY <1>11 DEF ends, Range
  <2> QED BY <1>8, <2>1, <2>2
<1> QED BY <1>10, <1>11 DEF K

(* The recursion of Effective. *)
NoSpan == [t \in DOMAIN tasks |-> [start |-> None, end |-> None]]

DatesOver(below) == [t \in DOMAIN tasks |-> Dates(tasks, t, below)]

IsEff(f) == f = [n \in 0..Height |-> IF n = 0 THEN NoSpan ELSE DatesOver(f[n - 1])]

LEMMA EffExists ==
    ASSUME TreeTypes, DatesInCalendar
    PROVE  \E f : IsEff(f) /\ f \in [0..Height -> [DOMAIN tasks -> Span]]
<1> DEFINE A == [DOMAIN tasks -> Span]
           F == [x \in Nat \X A |-> DatesOver(x[2])]
<1>1. Height \in Nat
  BY HeightFacts
<1>2. NoSpan \in A
  BY DEF NoSpan, Span
<1>3. F \in [Nat \X A -> A]
  <2>1. ASSUME NEW below \in A
        PROVE  DatesOver(below) \in A
    BY DatesFacts DEF DatesOver
  <2> HIDE DEF A
  <2> QED BY <2>1
<1> HIDE DEF A, F
<1>4. PICK f : Unfolds(f, A, NoSpan, F, Height)
  BY <1>1, <1>2, <1>3, StepsExist
<1>5. f \in [0..Height -> A] /\ f[0] = NoSpan /\ \A n \in 1..Height : f[n] = F[<<n, f[n - 1]>>]
  BY <1>4 DEF Unfolds
<1>6. ASSUME NEW n \in 0..Height
      PROVE  f[n] = IF n = 0 THEN NoSpan ELSE DatesOver(f[n - 1])
  <2>1. CASE n = 0
    BY <1>5, <2>1
  <2>2. CASE n # 0
    <3>1. n - 1 \in 0..Height /\ n \in Nat /\ n \in 1..Height
      BY <1>1, <2>2
    <3>2. <<n, f[n - 1]>> \in Nat \X A
      BY <1>5, <3>1
    <3>3. F[<<n, f[n - 1]>>] = DatesOver(f[n - 1])
      BY <3>2 DEF F
    <3> QED BY <1>5, <2>2, <3>1, <3>3
  <2> QED BY <2>1, <2>2
<1>7. IsEff(f)
  BY <1>5, <1>6 DEF IsEff
<1> QED BY <1>5, <1>7 DEF A

(* What the dates of a plan are: a phase without an end of its own ends    *)
(* when the last of its kids does.                                         *)
LEMMA EffectiveIs ==
    ASSUME TreeTypes, DatesInCalendar
    PROVE  /\ Effective(tasks) \in [DOMAIN tasks -> Span]
           /\ \A t \in DOMAIN tasks : Rooted(t) /\ tasks[t].end = None /\ ~tasks[t].milestone =>
                 \A c \in Kids(t) : Effective(tasks)[c].end # None =>
                     /\ Effective(tasks)[t].end # None
                     /\ Effective(tasks)[c].end <= Effective(tasks)[t].end
<1> DEFINE f == CHOOSE g : IsEff(g)
           A == [DOMAIN tasks -> Span]
<1>1. IsEff(f)
  BY EffExists
<1>2. Effective(tasks) = f[Height]
  BY Zenon DEF Effective, IsEff, Height, DatesOver, NoSpan
<1> HIDE DEF f
<1>3. Height \in Nat /\ \A t \in DOMAIN tasks : Level(t) \in 1..Height
  BY HeightFacts
<1>4. \A n \in 0..Height : f[n] = IF n = 0 THEN NoSpan ELSE DatesOver(f[n - 1])
  BY <1>1 DEF IsEff
<1>5. \A n \in Nat : n + 1 \in 0..Height => f[n + 1] = DatesOver(f[n])
  <2> TAKE n \in Nat
  <2> SUFFICES ASSUME n + 1 \in 0..Height
               PROVE  f[n + 1] = DatesOver(f[n])
    OBVIOUS
  <2>1. n + 1 # 0 /\ (n + 1) - 1 = n
    OBVIOUS
  <2>2. f[n + 1] = IF n + 1 = 0 THEN NoSpan ELSE DatesOver(f[(n + 1) - 1])
    BY <1>4
  <2> QED BY <2>1, <2>2
<1> DEFINE Typed(n) == n \in 0..Height => f[n] \in A
           Stable(n) == n + 1 \in 0..Height =>
               \A t \in DOMAIN tasks : Rooted(t) /\ Level(t) + n > Height => f[n + 1][t] = f[n][t]
           S == {n \in Nat : Typed(n) /\ Stable(n)}
<1>6. \A below \in A : DatesOver(below) \in A
  BY DatesFacts DEF DatesOver
<1>7. 0 \in S
  <2>1. NoSpan \in A
    BY DEF NoSpan, Span
  <2>2. f[0] = NoSpan
    <3>1. 0 \in 0..Height
      BY <1>3
    <3> QED BY <1>4, <3>1, Zenon
  <2>3. Stable(0)
    BY <1>3
  <2> QED BY <2>1, <2>2, <2>3
<1>8. ASSUME NEW n \in S
      PROVE  n + 1 \in S
  <2>1. n \in Nat /\ Typed(n) /\ Stable(n)
    OBVIOUS
  <2>2. Typed(n + 1)
    <3> SUFFICES ASSUME n + 1 \in 0..Height
                 PROVE  f[n + 1] \in A
      OBVIOUS
    <3>1. n \in 0..Height
      BY <1>3, <2>1
    <3> QED BY <1>5, <1>6, <2>1, <3>1
  <2>3. Stable(n + 1)
    <3> SUFFICES ASSUME (n + 1) + 1 \in 0..Height, NEW t \in DOMAIN tasks, Rooted(t), Level(t) + (n + 1) > Height
                 PROVE  f[(n + 1) + 1][t] = f[n + 1][t]
      OBVIOUS
    <3>1. n + 1 \in 0..Height /\ n + 1 \in Nat
      BY <1>3, <2>1
    <3>2. f[(n + 1) + 1] = DatesOver(f[n + 1]) /\ f[n + 1] = DatesOver(f[n])
      BY <1>5, <2>1, <3>1
    <3>3. \A c \in Kids(t) : f[n + 1][c] = f[n][c]
      <4> TAKE c \in Kids(t)
      <4>1. c \in DOMAIN tasks /\ Rooted(c) /\ Level(c) = Level(t) + 1
        BY KidsAreBelow
      <4>2. Level(c) + n > Height
        BY <1>3, <2>1, <4>1
      <4> QED BY <2>1, <3>1, <4>1, <4>2
    <3>4. Range(Children(tasks, t)) = Kids(t)
      BY ChildrenAreKids DEF TreeTypes
    <3>5. Dates(tasks, t, f[n + 1]) = Dates(tasks, t, f[n])
      <4> DEFINE x == f[n + 1]
                 y == f[n]
      <4>1. {x[c] : c \in Range(Children(tasks, t))} = {y[c] : c \in Range(Children(tasks, t))}
        BY <3>3, <3>4
      <4> HIDE DEF x, y
      <4>2. Dates(tasks, t, x) = Dates(tasks, t, y)
        BY <4>1, Zenon DEF Dates
      <4> QED BY <4>2 DEF x, y
    <3> QED BY <3>2, <3>5 DEF DatesOver
  <2> QED BY <2>1, <2>2, <2>3
<1> HIDE DEF S
<1>9. \A n \in Nat : Typed(n) /\ Stable(n)
  <2>1. S \subseteq Nat
    BY DEF S
  <2>2. S = Nat
    BY <1>7, <1>8, <2>1, NatSetInduction
  <2> QED BY <2>2 DEF S
<1>10. f[Height] \in A
  BY <1>3, <1>9
<1>11. ASSUME NEW t \in DOMAIN tasks, Rooted(t), tasks[t].end = None, ~tasks[t].milestone,
              NEW c \in Kids(t), f[Height][c].end # None
       PROVE  f[Height][t].end # None /\ f[Height][c].end <= f[Height][t].end
  <2> DEFINE n == Height - 1
  <2>1. n \in Nat /\ n + 1 = Height /\ n + 1 \in 0..Height /\ n \in 0..Height
    BY <1>3
  <2> HIDE DEF n
  <2>2. f[Height] = DatesOver(f[n]) /\ f[n] \in A
    BY <1>5, <1>9, <2>1
  <2>3. c \in DOMAIN tasks /\ Rooted(c) /\ Level(c) = Level(t) + 1
    BY <1>11, KidsAreBelow
  <2>4. Level(c) + n > Height
    BY <1>3, <2>1, <2>3
  <2>5. f[n + 1][c] = f[n][c]
    BY <1>9, <2>1, <2>3, <2>4
  <2>6. f[Height][t] = Dates(tasks, t, f[n])
    BY <2>2 DEF DatesOver
  <2>7. f[n][c].end # None
    BY <1>11, <2>1, <2>5
  <2>8. Dates(tasks, t, f[n]).end # None /\ f[n][c].end <= Dates(tasks, t, f[n]).end
    BY <1>11, <2>2, <2>7, DatesFacts
  <2> QED BY <2>1, <2>5, <2>6, <2>8
<1> QED BY <1>2, <1>10, <1>11

(* The plan as a whole has a first and a last day of the calendar, or none. *)
LEMMA BoundsFacts ==
    ASSUME TreeTypes, DatesInCalendar
    PROVE  PlanBounds(tasks) \in Span
<1> DEFINE eff == Effective(tasks)
           shown == {row.task : row \in Range(DepthFirst(tasks))}
           D == Covered \cup {None}
           starts == [t \in shown |-> eff[t].start]
           ends == [t \in shown |-> eff[t].end]
<1>1. shown \subseteq DOMAIN tasks
  BY ForestIsShown DEF RowsAreTheForest
<1>2. IsFiniteSet(shown)
  BY <1>1, TasksFinite, FS_Subset DEF TreeTypes
<1>3. eff \in [DOMAIN tasks -> Span]
  BY EffectiveIs
<1>4. PlanBounds(tasks) = [start |-> MinDate({eff[t].start : t \in shown}),
                           end |-> MaxDate({eff[t].end : t \in shown})]
  BY DEF PlanBounds
<1> HIDE DEF eff, shown
<1>5. starts \in [shown -> D] /\ ends \in [shown -> D]
  BY <1>1, <1>3 DEF Span
<1>6. Range(starts) = {eff[t].start : t \in shown} /\ Range(ends) = {eff[t].end : t \in shown}
  BY DEF Range
<1> HIDE DEF starts, ends, D
<1>7. /\ IsFiniteSet(Range(starts)) /\ Range(starts) \subseteq D
      /\ IsFiniteSet(Range(ends)) /\ Range(ends) \subseteq D
  BY <1>2, <1>5, FiniteImage
<1>8. D \subseteq Int \cup {None} /\ None \in D
  BY DEF Covered, D
<1>9. MinDate(Range(starts)) \in D /\ MaxDate(Range(ends)) \in D
  BY <1>7, <1>8, DatesSpan
<1> QED BY <1>4, <1>6, <1>9 DEF Span, D

(* The axis that is drawn. *)
LEMMA PlanAxisFacts ==
    ASSUME TreeTypes, DatesInCalendar, NEW bounds, bounds = PlanBounds(tasks),
           bounds.start # None, bounds.end # None
    PROVE  /\ bounds.start \in Int /\ bounds.end \in Int /\ MonthStart # <<>>
           /\ Later(bounds.start, bounds.end) < Last(MonthStart)
<1>1. bounds.start \in Covered /\ bounds.end \in Covered
  BY BoundsFacts DEF Span
<1>2. bounds.start < Last(MonthStart) /\ bounds.end < Last(MonthStart)
  BY <1>1 DEF Covered
<1> QED BY <1>1, <1>2 DEF Covered, Later

(* A day is in one column at most. *)
LEMMA ColumnFacts ==
    ASSUME NEW columns, InTime(columns), NEW day \in Int
    PROVE  LET column == ColumnOf(day, columns)
               holding == {i \in DOMAIN columns : columns[i].start <= day /\ day <= columns[i].end}
           IN holding = IF column = None THEN {} ELSE {column}
<1> DEFINE holding == {i \in DOMAIN columns : columns[i].start <= day /\ day <= columns[i].end}
           n == Len(columns)
<1>1. n \in Nat /\ DOMAIN columns = 1..n /\ None \notin Int
  BY PlanTreeAssumption DEF InTime
<1>2. holding \in SUBSET Int /\ IsFiniteSet(holding)
  <2>1. IsFiniteSet(1..n) /\ 1..n \subseteq Int
    BY <1>1, FS_Interval
  <2>2. holding \subseteq 1..n
    BY <1>1
  <2> HIDE DEF holding, n
  <2> QED BY <2>1, <2>2, FS_Subset
<1>3. ColumnOf(day, columns) = IF holding = {} THEN None ELSE Min(holding)
  <2>1. day # None
    BY <1>1
  <2>2. ColumnOf(day, columns) = IF day = None \/ holding = {} THEN None ELSE Min(holding)
    BY Zenon DEF ColumnOf
  <2> HIDE DEF holding
  <2> QED BY <2>1, <2>2
<1>4. \A i, j \in holding : i = j
  <2>1. \A i \in DOMAIN columns : columns[i].start \in Int /\ columns[i].end \in Int
    <3>1. \A i \in DOMAIN columns : columns[i] \in Column
      BY DEF InTime
    <3> QED BY <3>1 DEF Column
  <2>2. ASSUME NEW i \in holding, NEW j \in holding, i < j
        PROVE  FALSE
    <3>1. columns[i].end < columns[j].start
      BY <1>1, <2>2 DEF InTime
    <3> QED BY <2>1, <3>1
  <2> QED BY <1>2, <2>2
<1> HIDE DEF holding, n
<1>5. CASE holding = {}
  BY <1>3, <1>5 DEF holding
<1>6. CASE holding # {}
  <2>1. Min(holding) \in holding
    BY <1>2, <1>6, FirstAndLast
  <2>2. ColumnOf(day, columns) = Min(holding) /\ ColumnOf(day, columns) # None
    BY <1>1, <1>2, <1>3, <1>6, <2>1
  <2>3. holding = {Min(holding)}
    BY <1>4, <2>1
  <2> QED BY <2>2, <2>3 DEF holding
<1> QED BY <1>5, <1>6

(* A row has the dates of its task, and the chart shows it there. *)
LEMMA BarsShown ==
    ASSUME TreeTypes, DatesInCalendar
    PROVE  BarsAreExact /\ MilestonesAreExact
<1> DEFINE rows == PlanRows(tasks)
           bounds == PlanBounds(tasks)
           columns == BuildAxis(bounds.start, bounds.end)
           eff == Effective(tasks)
           order == DepthFirst(tasks)
           Shown(t, level) ==
               [task |-> t, level |-> level, start |-> eff[t].start, end |-> eff[t].end,
                bar |-> IF tasks[t].milestone THEN None
                        ELSE BarGeometry(eff[t].start, eff[t].end, columns),
                milestone |-> IF tasks[t].milestone THEN ColumnOf(eff[t].start, columns) ELSE None]
<1>1. rows = IF bounds.start = None \/ bounds.end = None THEN <<>>
             ELSE [i \in DOMAIN order |-> Shown(order[i].task, order[i].level)]
  BY Zenon DEF PlanRows
<1>2. \A i \in DOMAIN order : order[i].task \in DOMAIN tasks
  BY ForestIsShown DEF RowsAreTheForest, Range
<1>3. eff \in [DOMAIN tasks -> Span] /\ Covered \subseteq Int
  BY EffectiveIs DEF Covered
<1>4. ASSUME bounds.start # None, bounds.end # None
      PROVE  InTime(columns) /\ columns # <<>>
  <2>1. /\ bounds.start \in Int /\ bounds.end \in Int /\ MonthStart # <<>>
        /\ Later(bounds.start, bounds.end) < Last(MonthStart)
    BY <1>4, PlanAxisFacts
  <2> QED BY <2>1, AxisFacts
<1> HIDE DEF rows, bounds, columns, eff, order
<1>5. ASSUME NEW i \in DOMAIN rows, NEW r, r = rows[i]
      PROVE  /\ InTime(columns) /\ columns # <<>>
             /\ r.start \in Int \cup {None} /\ r.end \in Int \cup {None}
             /\ ~tasks[r.task].milestone => r.bar = BarGeometry(r.start, r.end, columns)
             /\ tasks[r.task].milestone => r.milestone = ColumnOf(r.start, columns)
  <2>1. bounds.start # None /\ bounds.end # None
    <3> SUFFICES ASSUME bounds.start = None \/ bounds.end = None
                 PROVE  FALSE
      OBVIOUS
    <3>1. rows = <<>>
      BY <1>1
    <3> QED BY <1>5, <3>1
  <2>2. rows = [j \in DOMAIN order |-> Shown(order[j].task, order[j].level)]
    BY <1>1, <2>1
  <2>3. i \in DOMAIN order /\ r = Shown(order[i].task, order[i].level)
    BY <1>5, <2>2
  <2>4. PICK t \in DOMAIN tasks : t = order[i].task
    BY <1>2, <2>3
  <2>5. /\ r.task = t /\ r.start = eff[t].start /\ r.end = eff[t].end
        /\ r.bar = IF tasks[t].milestone THEN None ELSE BarGeometry(eff[t].start, eff[t].end, columns)
        /\ r.milestone = IF tasks[t].milestone THEN ColumnOf(eff[t].start, columns) ELSE None
    BY <2>3, <2>4
  <2>6. r.start \in Int \cup {None} /\ r.end \in Int \cup {None}
    BY <1>3, <2>5 DEF Span
  <2> QED BY <1>4, <2>1, <2>5, <2>6
<1>6. ASSUME NEW i \in DOMAIN rows, NEW r, r = rows[i],
             ~tasks[r.task].milestone, r.start # None, r.end # None
      PROVE  IF r.bar = None THEN Meeting(r.start, r.end, columns) = {}
             ELSE Meeting(r.start, r.end, columns) \in {{}, r.bar.first..(r.bar.first + r.bar.span - 1)}
  BY <1>5, <1>6, BarFacts
<1>7. ASSUME NEW i \in DOMAIN rows, NEW r, r = rows[i], tasks[r.task].milestone, r.start # None
      PROVE  {k \in DOMAIN columns : columns[k].start <= r.start /\ r.start <= columns[k].end}
             = IF r.milestone = None THEN {} ELSE {r.milestone}
  <2>1. InTime(columns) /\ r.start \in Int /\ r.milestone = ColumnOf(r.start, columns)
    BY <1>5, <1>7
  <2> QED BY <2>1, ColumnFacts
<1>8. BarsAreExact
  BY <1>6, Zenon DEF BarsAreExact, Meeting, rows, bounds, columns
<1>9. MilestonesAreExact
  BY <1>7, Zenon DEF MilestonesAreExact, rows, bounds, columns
<1> QED BY <1>8, <1>9

LEMMA AxisShown == ASSUME TreeTypes, DatesInCalendar PROVE AxisReaches
<1> DEFINE bounds == PlanBounds(tasks)
           columns == BuildAxis(bounds.start, bounds.end)
           end == Later(bounds.start, bounds.end)
           eff == Effective(tasks)
<1>1. ASSUME bounds.start # None, bounds.end # None
      PROVE  /\ columns[1].start <= bounds.start
             /\ \/ end <= Last(columns).end
                \/ Len(columns) = WeeklyLimit /\ \A m \in DOMAIN MonthStart :
                      MonthStart[m] \notin (Last(columns).end + 1)..end
  <2>1. /\ bounds.start \in Int /\ bounds.end \in Int /\ MonthStart # <<>>
        /\ Later(bounds.start, bounds.end) < Last(MonthStart)
    BY <1>1, PlanAxisFacts
  <2> HIDE DEF bounds
  <2> QED BY <2>1, AxisFacts
<1>2. ASSUME NEW r \in Range(DepthFirst(tasks)), NEW p, p = tasks[r.task].parent,
             p # None, tasks[p].end = None, ~tasks[p].milestone, eff[r.task].end # None
      PROVE  eff[p].end # None /\ eff[p].end >= eff[r.task].end
  <2>1. PICK t : t = r.task /\ t \in DOMAIN tasks /\ Rooted(t)
    BY ForestIsShown DEF RowsAreTheForest
  <2>2. p \in DOMAIN tasks /\ ChainUp(t) = {t} \cup ChainUp(p) /\ t \in Kids(p)
    BY <1>2, <2>1, ChainOfParent DEF Kids
  <2>3. Rooted(p)
    BY <1>2, <2>1, <2>2 DEF Rooted
  <2>4. eff[p].end # None /\ eff[t].end <= eff[p].end
    BY <1>2, <2>1, <2>2, <2>3, EffectiveIs
  <2>5. eff[t].end \in Int /\ eff[p].end \in Int
    BY <1>2, <2>1, <2>2, <2>4, EffectiveIs DEF Span, Covered
  <2> QED BY <2>1, <2>4, <2>5
<1> QED BY <1>1, <1>2, Zenon DEF AxisReaches

(* Only the flush of a task brings dates in, and an edit has no others     *)
(* than those of the calendar.                                             *)
LEMMA StepInCalendar == PlanInv /\ DatesInCalendar /\ [PlanNext]_planVars => DatesInCalendar'
<1> SUFFICES ASSUME PlanInv, DatesInCalendar, [PlanNext]_planVars
             PROVE  DatesInCalendar'
  OBVIOUS
<1>1. ASSUME UNCHANGED tasks
      PROVE  DatesInCalendar'
  BY <1>1 DEF DatesInCalendar
<1>2. ASSUME NEW s \in Sessions, FlushPlanTask(s)
      PROVE  DatesInCalendar'
  <2> DEFINE w == sess[s]
             old == IF w.new THEN NewTask ELSE tasks[w.task]
             start == Given(w.edit.start, old.start)
             end == Given(w.edit.end, old.end)
             row == [parent |-> Given(w.parent, old.parent), start |-> start, end |-> end,
                     milestone |-> Given(w.edit.milestone, old.milestone)]
  <2>1. /\ w.new \/ w.task \in DOMAIN tasks
        /\ tasks' = With(tasks, w.task, row)
    BY <1>2 DEF FlushPlanTask
  <2>2. w \in TaskWork
    BY <1>2, PlanWorkFields DEF FlushPlanTask, OnTask, PlanInv, PlanTypes
  <2>3. w.edit.start \in Covered \cup {None} /\ w.edit.end \in Covered \cup {None}
    <3>1. w.edit \in Edits
      BY <2>2 DEF TaskWork
    <3> QED BY <3>1, PlanTreeAssumption DEF Covered
  <2>4. old.start \in Covered \cup {None} /\ old.end \in Covered \cup {None}
    BY <2>1 DEF DatesInCalendar, NewTask
  <2>5. start \in Covered \cup {None} /\ end \in Covered \cup {None}
    BY <2>3, <2>4 DEF Given
  <2>6. row.start = start /\ row.end = end
    OBVIOUS
  <2> HIDE DEF row, w
  <2>7. \A t \in DOMAIN tasks' : tasks'[t] = row \/ (t \in DOMAIN tasks /\ tasks'[t] = tasks[t])
    BY <2>1 DEF With
  <2> QED BY <2>5, <2>6, <2>7 DEF DatesInCalendar
<1>3. ASSUME NEW t \in Tasks, RemovePlanTask(t)
      PROVE  DatesInCalendar'
  BY <1>3 DEF RemovePlanTask, DatesInCalendar
<1>4. /\ \A s, t, p, e : UpsertPlanTask(s, t, p, e) => UNCHANGED tasks
      /\ \A s, status, t : FlushPending(s, status, t) => UNCHANGED tasks
      /\ \A p, status, t : CreatePending(p, status, t) => UNCHANGED tasks
  BY DEF UpsertPlanTask, FlushPending, CreatePending
<1>5. /\ \A s, p : LoadPending(s, p) => UNCHANGED tasks
      /\ \A s : PlanFail(s) => UNCHANGED tasks
      /\ \A p : DeletePending(p) => UNCHANGED tasks
  BY DEF LoadPending, PlanFail, DeletePending
<1>6. CASE UNCHANGED planVars
  BY <1>1, <1>6 DEF planVars
<1>7. CASE PlanNext
  BY <1>1, <1>2, <1>3, <1>4, <1>5, <1>7, Zenon DEF PlanNext
<1> QED BY <1>6, <1>7

(* What the screen draws of a plan is exact in every plan that the         *)
(* sessions can make together, for every calendar that goes on past the    *)
(* dates they send: its rows are the tasks that lead up to a root, each    *)
(* below its parent (gantt.py:185-215), a bar covers the columns its dates *)
(* meet (gantt.py:105-126), a milestone stands in the column of its day    *)
(* (gantt.py:129-138), and the axis and the phases reach as far as what    *)
(* they span (gantt.py:38-76, 141-182).                                    *)
THEOREM ChartStaysExact == PlanSpec => []ChartIsExact
<1>1. PlanInit => DatesInCalendar
  BY DEF PlanInit, DatesInCalendar
<1>2. PlanInv /\ DatesInCalendar /\ [PlanNext]_planVars => DatesInCalendar'
  BY StepInCalendar
<1>3. PlanInv /\ DatesInCalendar => ChartIsExact
  <2>1. PlanInv => TreeTypes
    BY DEF PlanInv, PlanTypes, TreeTypes
  <2> QED BY <2>1, ForestIsShown, BarsShown, AxisShown DEF ChartIsExact
<1> QED BY <1>1, <1>2, <1>3, PlanInductive, PTL DEF PlanSpec

(***************************************************************************)
(* WorkOrder.                                                              *)
(***************************************************************************)

LEMMA SortedFacts ==
    ASSUME NEW S \in SUBSET Int, IsFiniteSet(S), NEW impact, \A n \in S : impact[n] \in Int
    PROVE  /\ Sorted(S, impact) \in [1..Cardinality(S) -> S]
           /\ Range(Sorted(S, impact)) = S
<1> DEFINE before == [n \in S |-> {m \in S : Sooner(m, n, impact)}]
<1>1. before \in [S -> SUBSET S] /\ \A a, b \in S : a \in before[b] <=> Sooner(a, b, impact)
  OBVIOUS
<1>2. \A a \in S : ~Sooner(a, a, impact)
  BY DEF Sooner
<1>3. \A a, b \in S : a = b \/ Sooner(a, b, impact) \/ Sooner(b, a, impact)
  BY DEF Sooner
<1>4. ASSUME NEW a \in S, NEW b \in S, Sooner(a, b, impact), NEW m \in S, Sooner(m, a, impact)
      PROVE  Sooner(m, b, impact)
  <2>1. impact[m] \in Int /\ impact[a] \in Int /\ impact[b] \in Int
        /\ m \in Int /\ a \in Int /\ b \in Int
    OBVIOUS
  <2> QED BY <1>4, <2>1 DEF Sooner
<1>5. Sorted(S, impact) = ByRank(before)
  BY DEF Sorted
<1> HIDE DEF before
<1>6. \A a, b \in S : a \in before[b] => before[a] \subseteq before[b]
  BY <1>1, <1>4
<1>7. /\ \A a \in S : a \notin before[a]
      /\ \A a, b \in S : a = b \/ a \in before[b] \/ b \in before[a]
  BY <1>1, <1>2, <1>3
<1>8. ByRank(before) \in [1..Cardinality(S) -> S] /\ Range(ByRank(before)) = S
  BY <1>1, <1>6, <1>7, ByRankFacts
<1> QED BY <1>5, <1>8

(* The recursion of After, up to a number. *)
Follow(S, before) == {p[2] : p \in {x \in before : x[1] \in S}}

IsReach(f, starts, before, k) ==
    f = [n \in 0..k |-> IF n = 0 THEN Follow(starts, before)
                        ELSE f[n - 1] \cup Follow(f[n - 1], before)]

LEMMA ReachExists ==
    ASSUME NEW starts, NEW before, NEW k \in Nat
    PROVE  \E f : IsReach(f, starts, before, k)
<1> DEFINE S == {n \in Nat : \E f : IsReach(f, starts, before, n)}
           Next1(T) == T \cup Follow(T, before)
<1>1. 0 \in S
  <2> DEFINE f == [n \in 0..0 |-> Follow(starts, before)]
  <2>1. IsReach(f, starts, before, 0)
    BY DEF IsReach
  <2> QED BY <2>1
<1>2. ASSUME NEW n \in S
      PROVE  n + 1 \in S
  <2>1. PICK f : IsReach(f, starts, before, n)
    OBVIOUS
  <2> DEFINE g == [m \in 0..(n + 1) |-> IF m = n + 1 THEN Next1(f[n]) ELSE f[m]]
  <2>2. (\A m \in 0..n : g[m] = f[m]) /\ g[n + 1] = Next1(f[n])
    OBVIOUS
  <2>3. \A m \in 0..n : f[m] = IF m = 0 THEN Follow(starts, before) ELSE Next1(f[m - 1])
    BY <2>1 DEF IsReach
  <2> HIDE DEF Next1
  <2>4. ASSUME NEW m \in 0..(n + 1)
        PROVE  g[m] = IF m = 0 THEN Follow(starts, before) ELSE Next1(g[m - 1])
    <3>1. CASE m = n + 1
      <4>1. m # 0 /\ m - 1 = n /\ g[n] = f[n]
        BY <3>1, <2>2
      <4> QED BY <2>2, <3>1, <4>1
    <3>2. CASE m \in 0..n
      <4>1. g[m] = f[m] /\ (m # 0 => g[m - 1] = f[m - 1])
        BY <3>2, <2>2
      <4> QED BY <2>3, <3>2, <4>1
    <3> QED BY <3>1, <3>2
  <2>5. IsReach(g, starts, before, n + 1)
    BY <2>4 DEF IsReach, Next1
  <2> QED BY <2>5
<1> HIDE DEF S
<1>3. S \in SUBSET Nat
  BY DEF S
<1>4. S = Nat
  BY <1>1, <1>2, <1>3, NatSetInduction
<1> QED BY <1>4 DEF S

(* What a set must hold to hold all that comes after the nodes. *)
Follows(S, starts, before) == \A p \in before : p[1] \in starts \/ p[1] \in S => p[2] \in S

(* After is the smallest such set. *)
LEMMA AfterFacts ==
    ASSUME NEW nodes, IsFiniteSet(nodes), NEW before \in SUBSET (nodes \X nodes), NEW starts
    PROVE  /\ After(starts, before, nodes) \subseteq nodes
           /\ Follows(After(starts, before, nodes), starts, before)
           /\ \A S : Follows(S, starts, before) => After(starts, before, nodes) \subseteq S
<1> DEFINE N == Cardinality(nodes)
<1>1. N \in Nat
  BY FS_CardinalityType
<1> DEFINE f == CHOOSE h : IsReach(h, starts, before, N)
<1>2. IsReach(f, starts, before, N)
  BY <1>1, ReachExists
<1>3. After(starts, before, nodes) = f[N]
  BY Zenon DEF After, IsReach, Follow
<1> HIDE DEF f, N
<1>4. f[0] = Follow(starts, before)
      /\ \A n \in 0..N : n + 1 \in 0..N => f[n + 1] = f[n] \cup Follow(f[n], before)
  <2>1. \A n \in 0..N : f[n] = IF n = 0 THEN Follow(starts, before)
                               ELSE f[n - 1] \cup Follow(f[n - 1], before)
    BY <1>2 DEF IsReach
  <2>2. ASSUME NEW n \in 0..N, n + 1 \in 0..N
        PROVE  f[n + 1] = f[n] \cup Follow(f[n], before)
    <3>1. n + 1 # 0 /\ (n + 1) - 1 = n
      BY <1>1
    <3>2. f[n + 1] = IF n + 1 = 0 THEN Follow(starts, before)
                     ELSE f[(n + 1) - 1] \cup Follow(f[(n + 1) - 1], before)
      BY <2>1, <2>2
    <3> QED BY <3>1, <3>2
  <2>3. f[0] = Follow(starts, before)
    <3>1. 0 \in 0..N
      BY <1>1
    <3> QED BY <2>1, <3>1
  <2> QED BY <2>2, <2>3
<1>5. \A p \in before : p[1] \in nodes /\ p[2] \in nodes
  OBVIOUS
<1>6. \A S : Follow(S, before) \subseteq nodes /\ \A x : x \in Follow(S, before) <=> \E p \in before : p[1] \in S /\ p[2] = x
  BY <1>5 DEF Follow
<1> DEFINE Good(n) == n \in 0..N =>
             /\ f[n] \subseteq nodes /\ Follow(starts, before) \subseteq f[n]
             /\ \A S : Follows(S, starts, before) => f[n] \subseteq S
             /\ Follow(f[n], before) \subseteq f[n] \/ Cardinality(f[n]) >= n
           Sizes == {n \in Nat : Good(n)}
<1>7. 0 \in Sizes
  <2>1. IsFiniteSet(f[0]) /\ Cardinality(f[0]) >= 0
    BY <1>4, <1>6, FS_Subset, FS_CardinalityType
  <2>2. \A S : Follows(S, starts, before) => f[0] \subseteq S
    BY <1>4, <1>6 DEF Follows
  <2> QED BY <1>4, <1>6, <2>1, <2>2
<1>8. ASSUME NEW n \in Sizes
      PROVE  n + 1 \in Sizes
  <2> SUFFICES ASSUME n + 1 \in 0..N
               PROVE  /\ f[n + 1] \subseteq nodes /\ Follow(starts, before) \subseteq f[n + 1]
                      /\ \A S : Follows(S, starts, before) => f[n + 1] \subseteq S
                      /\ Follow(f[n + 1], before) \subseteq f[n + 1] \/ Cardinality(f[n + 1]) >= n + 1
    OBVIOUS
  <2>1. n \in 0..N /\ f[n + 1] = f[n] \cup Follow(f[n], before)
    BY <1>1, <1>4
  <2>2. /\ f[n] \subseteq nodes /\ Follow(starts, before) \subseteq f[n]
        /\ \A S : Follows(S, starts, before) => f[n] \subseteq S
        /\ Follow(f[n], before) \subseteq f[n] \/ Cardinality(f[n]) >= n
    BY <2>1
  <2>3. f[n + 1] \subseteq nodes /\ Follow(starts, before) \subseteq f[n + 1]
    BY <1>6, <2>1, <2>2
  <2>4. ASSUME NEW S, Follows(S, starts, before)
        PROVE  f[n + 1] \subseteq S
    <3>1. f[n] \subseteq S
      BY <2>2, <2>4
    <3>2. Follow(f[n], before) \subseteq S
      BY <1>6, <2>4, <3>1 DEF Follows
    <3> QED BY <2>1, <3>1, <3>2
  <2>5. CASE Follow(f[n], before) \subseteq f[n]
    <3>1. f[n + 1] = f[n]
      BY <2>1, <2>5
    <3> QED BY <2>3, <2>4, <2>5, <3>1
  <2>6. CASE ~(Follow(f[n], before) \subseteq f[n])
    <3>1. Cardinality(f[n]) >= n /\ f[n] # f[n + 1] /\ f[n] \subseteq f[n + 1]
      BY <2>1, <2>2, <2>6
    <3>2. IsFiniteSet(f[n + 1]) /\ IsFiniteSet(f[n])
      BY <2>2, <2>3, FS_Subset
    <3>3. Cardinality(f[n]) <= Cardinality(f[n + 1]) /\ Cardinality(f[n]) # Cardinality(f[n + 1])
          /\ Cardinality(f[n]) \in Nat /\ Cardinality(f[n + 1]) \in Nat
      BY <3>1, <3>2, FS_Subset, FS_CardinalityType
    <3> QED BY <2>3, <2>4, <3>1, <3>3
  <2> QED BY <2>5, <2>6
<1> HIDE DEF Sizes
<1>9. Sizes = Nat
  <2>1. Sizes \in SUBSET Nat
    BY DEF Sizes
  <2> QED BY <1>7, <1>8, <2>1, NatSetInduction
<1>10. /\ f[N] \subseteq nodes /\ Follow(starts, before) \subseteq f[N]
       /\ \A S : Follows(S, starts, before) => f[N] \subseteq S
       /\ Follow(f[N], before) \subseteq f[N] \/ Cardinality(f[N]) >= N
  BY <1>1, <1>9 DEF Sizes
<1>11. Follow(f[N], before) \subseteq f[N]
  <2>1. CASE Cardinality(f[N]) >= N
    <3>1. IsFiniteSet(f[N]) /\ Cardinality(f[N]) \in Nat /\ Cardinality(f[N]) <= N
      BY <1>10, FS_Subset, FS_CardinalityType DEF N
    <3>2. f[N] = nodes
      BY <1>1, <1>10, <2>1, <3>1, FS_Subset DEF N
    <3> QED BY <1>6, <3>2
  <2> QED BY <1>10, <2>1
<1>12. Follows(f[N], starts, before)
  BY <1>6, <1>10, <1>11 DEF Follows
<1> QED BY <1>3, <1>10, <1>12

(* The recursion of the order, up to a number. *)
ReadyAfter(order, nodes, before) ==
    {n \in nodes \ Range(order) : \A p \in before : p[2] = n => p[1] \in Range(order)}

OneMore(order, nodes, before, impact) ==
    IF ReadyAfter(order, nodes, before) = {} THEN order
    ELSE Append(order, Sorted(ReadyAfter(order, nodes, before), impact)[1])

IsKahn(f, nodes, before, impact, k) ==
    f = [n \in 0..k |-> IF n = 0 THEN <<>> ELSE OneMore(f[n - 1], nodes, before, impact)]

LEMMA KahnExists ==
    ASSUME NEW nodes, NEW before, NEW impact, NEW k \in Nat
    PROVE  \E f : IsKahn(f, nodes, before, impact, k)
<1> DEFINE S == {n \in Nat : \E f : IsKahn(f, nodes, before, impact, n)}
           Next1(T) == OneMore(T, nodes, before, impact)
<1>1. 0 \in S
  <2> DEFINE f == [n \in 0..0 |-> <<>>]
  <2>1. IsKahn(f, nodes, before, impact, 0)
    BY DEF IsKahn
  <2> QED BY <2>1
<1>2. ASSUME NEW n \in S
      PROVE  n + 1 \in S
  <2>1. PICK f : IsKahn(f, nodes, before, impact, n)
    OBVIOUS
  <2> DEFINE g == [m \in 0..(n + 1) |-> IF m = n + 1 THEN Next1(f[n]) ELSE f[m]]
  <2>2. (\A m \in 0..n : g[m] = f[m]) /\ g[n + 1] = Next1(f[n])
    OBVIOUS
  <2>3. \A m \in 0..n : f[m] = IF m = 0 THEN <<>> ELSE Next1(f[m - 1])
    BY <2>1 DEF IsKahn
  <2> HIDE DEF Next1
  <2>4. ASSUME NEW m \in 0..(n + 1)
        PROVE  g[m] = IF m = 0 THEN <<>> ELSE Next1(g[m - 1])
    <3>1. CASE m = n + 1
      <4>1. m # 0 /\ m - 1 = n /\ g[n] = f[n]
        BY <3>1, <2>2
      <4> QED BY <2>2, <3>1, <4>1
    <3>2. CASE m \in 0..n
      <4>1. g[m] = f[m] /\ (m # 0 => g[m - 1] = f[m - 1])
        BY <3>2, <2>2
      <4> QED BY <2>3, <3>2, <4>1
    <3> QED BY <3>1, <3>2
  <2>5. IsKahn(g, nodes, before, impact, n + 1)
    BY <2>4 DEF IsKahn, Next1
  <2> QED BY <2>5
<1> HIDE DEF S
<1>3. S \in SUBSET Nat
  BY DEF S
<1>4. S = Nat
  BY <1>1, <1>2, <1>3, NatSetInduction
<1> QED BY <1>4 DEF S

(* Every node once, and none without those that come before it. *)
InOrder(order, nodes, before) ==
    /\ order \in Seq(nodes)
    /\ \A i, j \in 1..Len(order) : order[i] = order[j] => i = j
    /\ \A p \in before, i \in 1..Len(order) :
         p[2] = order[i] => \E j \in 1..(i - 1) : order[j] = p[1]

LEMMA OneMoreInOrder ==
    ASSUME NEW nodes \in SUBSET Int, IsFiniteSet(nodes), NEW before,
           NEW impact, \A n \in nodes : impact[n] \in Int,
           NEW order, InOrder(order, nodes, before), ReadyAfter(order, nodes, before) # {}
    PROVE  /\ InOrder(OneMore(order, nodes, before, impact), nodes, before)
           /\ Len(OneMore(order, nodes, before, impact)) = Len(order) + 1
<1> DEFINE R == ReadyAfter(order, nodes, before)
           n == Sorted(R, impact)[1]
           next == Append(order, n)
<1>1. R \in SUBSET nodes /\ R \in SUBSET Int /\ IsFiniteSet(R)
  <2>1. R \subseteq nodes
    BY DEF ReadyAfter
  <2> HIDE DEF R
  <2> QED BY <2>1, FS_Subset
<1>2. n \in R
  <2> HIDE DEF R
  <2>1. Cardinality(R) \in Nat /\ Cardinality(R) # 0
    BY <1>1, FS_CardinalityType, FS_EmptySet DEF R
  <2>2. Sorted(R, impact) \in [1..Cardinality(R) -> R]
    BY <1>1, SortedFacts
  <2>3. 1 \in 1..Cardinality(R)
    BY <2>1
  <2> QED BY <2>2, <2>3
<1>3. OneMore(order, nodes, before, impact) = next
  BY DEF OneMore
<1>4. n \in nodes /\ n \notin Range(order) /\ \A p \in before : p[2] = n => p[1] \in Range(order)
  BY <1>2 DEF ReadyAfter
<1> HIDE DEF R, n
<1>5. order \in Seq(nodes) /\ Len(order) \in Nat /\ DOMAIN order = 1..Len(order)
  BY DEF InOrder
<1>6. \A x : x \in Range(order) <=> \E i \in 1..Len(order) : order[i] = x
  BY <1>5 DEF Range
<1>7. /\ next \in Seq(nodes) /\ Len(next) = Len(order) + 1 /\ next[Len(order) + 1] = n
      /\ \A i \in 1..Len(order) : next[i] = order[i]
  BY <1>4, <1>5
<1> HIDE DEF next
<1>8. \A i, j \in 1..Len(next) : next[i] = next[j] => i = j
  <2>1. \A i \in 1..Len(next) : i = Len(order) + 1 \/ i \in 1..Len(order)
    BY <1>5, <1>7
  <2>2. \A i \in 1..Len(order) : next[i] # n
    BY <1>4, <1>6, <1>7
  <2>3. \A i, j \in 1..Len(order) : next[i] = next[j] => i = j
    BY <1>7 DEF InOrder
  <2> QED BY <1>7, <2>1, <2>2, <2>3
<1>9. ASSUME NEW p \in before, NEW i \in 1..Len(next), p[2] = next[i]
      PROVE  \E j \in 1..(i - 1) : next[j] = p[1]
  <2>1. CASE i \in 1..Len(order)
    <3>1. p[2] = order[i]
      BY <1>7, <1>9, <2>1
    <3>2. PICK j \in 1..(i - 1) : order[j] = p[1]
      BY <2>1, <3>1 DEF InOrder
    <3>3. j \in 1..Len(order)
      BY <1>5, <2>1
    <3> QED BY <1>7, <3>2, <3>3
  <2>2. CASE i = Len(order) + 1
    <3>1. PICK j \in 1..Len(order) : order[j] = p[1]
      BY <1>4, <1>6, <1>7, <1>9, <2>2
    <3>2. j \in 1..(i - 1) /\ next[j] = p[1]
      BY <1>5, <1>7, <2>2, <3>1
    <3> QED BY <3>2
  <2> QED BY <1>5, <1>7, <2>1, <2>2
<1> QED BY <1>3, <1>7, <1>8, <1>9 DEF InOrder

(* In order, there are no more than there are nodes. *)
LEMMA InOrderFits ==
    ASSUME NEW nodes, IsFiniteSet(nodes), NEW before,
           NEW order, InOrder(order, nodes, before)
    PROVE  /\ Len(order) \in Nat /\ Len(order) <= Cardinality(nodes)
           /\ Range(order) \subseteq nodes
           /\ Cardinality(Range(order)) = Len(order)
           /\ Len(order) = Cardinality(nodes) => Range(order) = nodes
<1>1. order \in [1..Len(order) -> nodes] /\ Len(order) \in Nat /\ order \in Seq(nodes)
  BY DEF InOrder
<1> DEFINE D == 1..Len(order)
<1>2. IsFiniteSet(D) /\ Cardinality(D) = Len(order)
  <2>1. 1 \in Int /\ Len(order) \in Int
    BY <1>1
  <2>2. IsFiniteSet(1..Len(order)) /\ Cardinality(1..Len(order)) =
            IF 1 > Len(order) THEN 0 ELSE Len(order) - 1 + 1
    BY <2>1, FS_Interval
  <2> QED BY <1>1, <2>2
<1> DEFINE R == Range(order)
<1>3. R \subseteq nodes /\ order \in [D -> R] /\ \A x \in R : \E i \in D : order[i] = x
  BY <1>1 DEF Range
<1>4. \A i, j \in D : order[i] = order[j] => i = j
  BY DEF InOrder
<1> HIDE DEF D, R
<1>5. order \in Injection(D, R) /\ order \in Surjection(D, R)
  BY <1>3, <1>4 DEF Injection, Surjection, IsInjective
<1>6. Cardinality(R) = Cardinality(D)
  BY <1>2, <1>5, FS_Surjection
<1>7. IsFiniteSet(R) /\ Cardinality(R) <= Cardinality(nodes)
      /\ (Cardinality(R) = Cardinality(nodes) => R = nodes)
  BY <1>3, FS_Subset
<1> QED BY <1>1, <1>2, <1>3, <1>6, <1>7 DEF R

(* The order goes on until no node is ready. *)
LEMMA KahnFacts ==
    ASSUME NEW nodes \in SUBSET Int, IsFiniteSet(nodes), NEW before,
           NEW impact, \A n \in nodes : impact[n] \in Int,
           NEW f, IsKahn(f, nodes, before, impact, Cardinality(nodes))
    PROVE  /\ InOrder(f[Cardinality(nodes)], nodes, before)
           /\ ReadyAfter(f[Cardinality(nodes)], nodes, before) = {}
<1> DEFINE N == Cardinality(nodes)
           Good(n) == n \in 0..N =>
             /\ InOrder(f[n], nodes, before)
             /\ ReadyAfter(f[n], nodes, before) = {} \/ Len(f[n]) = n
           Sizes == {n \in Nat : Good(n)}
<1>1. N \in Nat
  BY FS_CardinalityType
<1>2. \A n \in 0..N : f[n] = IF n = 0 THEN <<>> ELSE OneMore(f[n - 1], nodes, before, impact)
  BY DEF IsKahn
<1> HIDE DEF N
<1>3. 0 \in Sizes
  <2>1. 0 \in 0..N
    BY <1>1
  <2>2. f[0] = <<>>
    BY <1>2, <2>1
  <2>3. Len(<<>>) = 0 /\ <<>> \in Seq(nodes)
    OBVIOUS
  <2>4. InOrder(<<>>, nodes, before)
    BY <2>3 DEF InOrder
  <2> QED BY <2>2, <2>3, <2>4
<1>4. ASSUME NEW n \in Sizes
      PROVE  n + 1 \in Sizes
  <2> SUFFICES ASSUME n + 1 \in 0..N
               PROVE  /\ InOrder(f[n + 1], nodes, before)
                      /\ ReadyAfter(f[n + 1], nodes, before) = {} \/ Len(f[n + 1]) = n + 1
    OBVIOUS
  <2>1. n \in 0..N /\ n + 1 # 0 /\ (n + 1) - 1 = n
    BY <1>1
  <2>2. f[n + 1] = OneMore(f[n], nodes, before, impact)
    <3>1. f[n + 1] = IF n + 1 = 0 THEN <<>> ELSE OneMore(f[(n + 1) - 1], nodes, before, impact)
      BY <1>2
    <3> QED BY <2>1, <3>1
  <2>3. /\ InOrder(f[n], nodes, before)
        /\ ReadyAfter(f[n], nodes, before) = {} \/ Len(f[n]) = n
    BY <2>1
  <2>4. CASE ReadyAfter(f[n], nodes, before) = {}
    <3>1. f[n + 1] = f[n]
      BY <2>2, <2>4 DEF OneMore
    <3> QED BY <2>3, <2>4, <3>1
  <2>5. CASE ReadyAfter(f[n], nodes, before) # {}
    BY <2>2, <2>3, <2>5, OneMoreInOrder
  <2> QED BY <2>4, <2>5
<1> HIDE DEF Sizes
<1>5. Sizes = Nat
  <2>1. Sizes \in SUBSET Nat
    BY DEF Sizes
  <2> QED BY <1>3, <1>4, <2>1, NatSetInduction
<1>6. /\ InOrder(f[N], nodes, before)
      /\ ReadyAfter(f[N], nodes, before) = {} \/ Len(f[N]) = N
  BY <1>1, <1>5 DEF Sizes
<1>7. CASE Len(f[N]) = N
  <2>1. Range(f[N]) = nodes
    BY <1>6, <1>7, InOrderFits DEF N
  <2> QED BY <1>6, <2>1 DEF ReadyAfter, N
<1> QED BY <1>6, <1>7 DEF N

(* Finitely many ids, each with an impact. *)
Listed(nodes, impact) ==
    nodes \subseteq Int /\ IsFiniteSet(nodes) /\ \A n \in nodes : impact[n] \in Int

Finished(done, nodes, impact) ==
    [order |-> done \o Sorted(nodes \ Range(done), impact), cycle |-> nodes \ Range(done)]

(* What the order is made of: those in order, then those no order reaches. *)
LEMMA TopologicalOrderIs ==
    ASSUME NEW nodes, NEW arcs, NEW impact, Listed(nodes, impact)
    PROVE  \E done : /\ InOrder(done, nodes, Before(arcs, nodes))
                     /\ ReadyAfter(done, nodes, Before(arcs, nodes)) = {}
                     /\ TopologicalOrder(nodes, arcs, impact) = Finished(done, nodes, impact)
<1> DEFINE N == Cardinality(nodes)
           f == CHOOSE h : IsKahn(h, nodes, Before(arcs, nodes), impact, N)
<1>1. N \in Nat /\ nodes \in SUBSET Int /\ IsFiniteSet(nodes) /\ \A n \in nodes : impact[n] \in Int
  BY FS_CardinalityType DEF Listed
<1>2. IsKahn(f, nodes, Before(arcs, nodes), impact, N)
  BY <1>1, KahnExists
<1>3. TopologicalOrder(nodes, arcs, impact) = Finished(f[N], nodes, impact)
  BY Zenon DEF TopologicalOrder, Finished, IsKahn, OneMore, ReadyAfter
<1> HIDE DEF f
<1>4. /\ InOrder(f[N], nodes, Before(arcs, nodes))
      /\ ReadyAfter(f[N], nodes, Before(arcs, nodes)) = {}
  BY <1>1, <1>2, KahnFacts
<1> QED BY <1>3, <1>4

Joined(c, a, b) ==
    /\ Len(c) = Len(a) + Len(b)
    /\ \A i \in 1..Len(a) : c[i] = a[i]
    /\ \A i \in 1..Len(b) : c[Len(a) + i] = b[i]

LEMMA JoinedFacts ==
    ASSUME NEW S, NEW a \in Seq(S), NEW b \in Seq(S), NEW c, c = a \o b
    PROVE  c \in Seq(S) /\ Joined(c, a, b)
<1>1. c \in Seq(S) /\ Len(c) = Len(a) + Len(b)
  OBVIOUS
<1>2. \A i \in 1..Len(a) : c[i] = a[i]
  OBVIOUS
<1>3. ASSUME NEW i \in 1..Len(b)
      PROVE  c[Len(a) + i] = b[i]
  <2>1. /\ Len(a) + i \in 1..(Len(a) + Len(b)) /\ Len(a) + i > Len(a)
        /\ (Len(a) + i) - Len(a) = i
    OBVIOUS
  <2> QED BY <2>1
<1> QED BY <1>1, <1>2, <1>3 DEF Joined

LEMMA RangeFacts ==
    ASSUME NEW S, NEW s \in Seq(S)
    PROVE  /\ Range(s) \subseteq S
           /\ \A x : x \in Range(s) <=> \E i \in 1..Len(s) : s[i] = x
BY DEF Range

LEMMA PlacesFacts ==
    ASSUME NEW S, NEW n \in Nat, NEW s \in [1..n -> S]
    PROVE  s \in Seq(S) /\ Len(s) = n
OBVIOUS

(* The whole order: every node once, those no order reaches at the end. *)
Whole(order, done, nodes) ==
    /\ Len(order) = Cardinality(nodes) /\ Len(order) \in Nat
    /\ order \in Seq(nodes) /\ Range(order) = nodes
    /\ \A i, j \in 1..Len(order) : order[i] = order[j] => i = j
    /\ Len(done) \in Nat /\ Len(done) <= Len(order)
    /\ \A i \in 1..Len(done) : order[i] = done[i]
    /\ \A i \in 1..Len(order) : order[i] \in Range(done) <=> i <= Len(done)

LEMMA WholeOrder ==
    ASSUME NEW nodes, NEW impact, Listed(nodes, impact), NEW before,
           NEW done, InOrder(done, nodes, before), 
           NEW rest, rest = Sorted(nodes \ Range(done), impact),
           NEW order, order \in Seq(nodes), Joined(order, done, rest)
    PROVE  Whole(order, done, nodes)
<1> DEFINE L == nodes \ Range(done)
           N == Cardinality(nodes)
<1>1. nodes \in SUBSET Int /\ IsFiniteSet(nodes) /\ \A n \in nodes : impact[n] \in Int
  BY DEF Listed
<1>2. /\ Len(done) \in Nat /\ Len(done) <= N /\ Range(done) \subseteq nodes
      /\ Cardinality(Range(done)) = Len(done) /\ N \in Nat
  BY <1>1, InOrderFits, FS_CardinalityType
<1>3. IsFiniteSet(L) /\ L \in SUBSET Int /\ L \in SUBSET nodes /\ Cardinality(L) = N - Len(done)
  <2>1. L \subseteq nodes /\ nodes \cap Range(done) = Range(done)
    BY <1>1, <1>2
  <2>2. IsFiniteSet(L) /\ Cardinality(L) = N - Cardinality(nodes \cap Range(done))
    BY <1>1, FS_Difference
  <2> QED BY <1>1, <1>2, <2>1, <2>2
<1> DEFINE C == Cardinality(L)
<1>4. C \in Nat /\ rest \in [1..C -> L] /\ Range(rest) = L /\ C = N - Len(done)
  <2>1. rest \in [1..C -> L] /\ Range(rest) = L
    BY <1>1, <1>3, SortedFacts
  <2>2. C \in Nat
    BY <1>3, FS_CardinalityType
  <2> QED BY <1>3, <2>1, <2>2
<1> HIDE DEF C
<1> HIDE DEF L, N
<1>5. rest \in Seq(nodes) /\ Len(rest) = C
  <2>1. rest \in [1..C -> nodes]
    BY <1>3, <1>4
  <2> QED BY <1>4, <2>1, PlacesFacts
<1>6. done \in Seq(nodes)
  BY DEF InOrder
<1>7. /\ order \in Seq(nodes) /\ Len(order) = N
      /\ \A i \in 1..Len(done) : order[i] = done[i]
      /\ \A i \in 1..C : order[Len(done) + i] = rest[i]
  <2>1. Len(order) = N
    BY <1>2, <1>4, <1>5 DEF Joined
  <2>2. \A i \in 1..C : order[Len(done) + i] = rest[i]
    BY <1>5 DEF Joined
  <2>3. \A i \in 1..Len(done) : order[i] = done[i]
    BY DEF Joined
  <2> QED BY <2>1, <2>2, <2>3
<1>8. /\ \A x : x \in Range(done) <=> \E i \in 1..Len(done) : done[i] = x
      /\ \A x : x \in Range(order) <=> \E i \in 1..Len(order) : order[i] = x
      /\ \A x : x \in L <=> \E i \in 1..C : rest[i] = x
      /\ Range(order) \subseteq nodes
  <2>1. \A x : x \in L <=> \E i \in 1..C : rest[i] = x
    BY <1>4, <1>5, RangeFacts
  <2>2. \A x : x \in Range(done) <=> \E i \in 1..Len(done) : done[i] = x
    BY <1>6, RangeFacts
  <2>3. /\ Range(order) \subseteq nodes
        /\ \A x : x \in Range(order) <=> \E i \in 1..Len(order) : order[i] = x
    BY <1>7, RangeFacts
  <2> QED BY <2>1, <2>2, <2>3
<1>9. \A i \in 1..N : i \in 1..Len(done) \/ \E j \in 1..C : i = Len(done) + j
  <2> TAKE i \in 1..N
  <2>1. CASE ~(i \in 1..Len(done))
    <3>1. i - Len(done) \in 1..C /\ i = Len(done) + (i - Len(done))
      BY <1>2, <1>4, <2>1
    <3> QED BY <3>1
  <2> QED BY <2>1
<1>10. \A i \in 1..Len(done) : i \in 1..N /\ order[i] \in Range(done)
  BY <1>2, <1>7, <1>8
<1>11. \A i \in 1..N : i > Len(done) => order[i] \in L
  <2> TAKE i \in 1..N
  <2>1. CASE i > Len(done)
    <3>1. PICK j \in 1..C : i = Len(done) + j
      <4>1. i \notin 1..Len(done)
        BY <1>2, <2>1
      <4> QED BY <1>9, <4>1
    <3> QED BY <1>7, <1>8, <3>1
  <2> QED BY <2>1
<1>12. Range(order) = nodes
  <2>1. ASSUME NEW x \in nodes
        PROVE  \E i \in 1..N : order[i] = x
    <3>1. CASE x \in Range(done)
      <4>1. PICK i \in 1..Len(done) : done[i] = x
        BY <1>8, <3>1
      <4> QED BY <1>7, <1>10, <4>1
    <3>2. CASE x \in L
      <4>1. PICK j \in 1..C : rest[j] = x
        BY <1>8, <3>2
      <4>2. Len(done) + j \in 1..N
        BY <1>2, <1>4
      <4> QED BY <1>7, <4>1, <4>2
    <3> QED BY <3>1, <3>2 DEF L
  <2> QED BY <1>7, <1>8, <2>1
<1>13. \A i, j \in 1..N : order[i] = order[j] => i = j
  <2> DEFINE D == 1..N
  <2>1. IsFiniteSet(D) /\ Cardinality(D) = N
    <3>1. 1 \in Int /\ N \in Int
      BY <1>2
    <3>2. IsFiniteSet(1..N) /\ Cardinality(1..N) = IF 1 > N THEN 0 ELSE N - 1 + 1
      BY <3>1, FS_Interval
    <3> QED BY <1>2, <3>2
  <2>2. order \in [D -> nodes]
    BY <1>7
  <2>3. \A x \in nodes : \E i \in D : order[i] = x
    BY <1>7, <1>8, <1>12
  <2> HIDE DEF D
  <2>4. order \in Surjection(D, nodes)
    BY <2>2, <2>3 DEF Surjection
  <2>5. order \in Injection(D, nodes)
    BY <2>1, <2>4, FS_Surjection DEF N
  <2> QED BY <2>5 DEF Injection, IsInjective, D
<1>14. \A i \in 1..N : order[i] \in Range(done) <=> i <= Len(done)
  <2> TAKE i \in 1..N
  <2>1. CASE i <= Len(done)
    <3>1. i \in 1..Len(done)
      BY <1>2, <2>1
    <3> QED BY <1>10, <2>1, <3>1
  <2>2. CASE ~(i <= Len(done))
    <3>1. i > Len(done)
      BY <1>2, <2>2
    <3>2. order[i] \in L
      BY <1>11, <3>1
    <3> QED BY <2>2, <3>2 DEF L
  <2> QED BY <2>1, <2>2
<1> QED BY <1>2, <1>7, <1>12, <1>13, <1>14 DEF N, Whole

(* The nodes that come after themselves. *)
OnCycle(before, nodes) == {n \in nodes : n \in After({n}, before, nodes)}

(* What no order reaches is what is on a cycle or after one: every node of *)
(* it has one of it before it, and going back from node to node must meet  *)
(* a cycle, for each step leaves fewer nodes to come from.                 *)
LEMMA LeftOverIs ==
    ASSUME NEW nodes, IsFiniteSet(nodes), NEW before \in SUBSET (nodes \X nodes),
           NEW done, InOrder(done, nodes, before), ReadyAfter(done, nodes, before) = {}
    PROVE  nodes \ Range(done) =
             OnCycle(before, nodes) \cup After(OnCycle(before, nodes), before, nodes)
<1> DEFINE left == nodes \ Range(done)
           A(S) == After(S, before, nodes)
           C == OnCycle(before, nodes)
<1>1. \A p \in before : p[1] \in nodes /\ p[2] \in nodes
  OBVIOUS
<1>2. \A S : A(S) \subseteq nodes /\ Follows(A(S), S, before)
             /\ \A T : Follows(T, S, before) => A(S) \subseteq T
  BY AfterFacts
<1> HIDE DEF A
<1>3. C = {n \in nodes : n \in A({n})}
  BY DEF OnCycle, A
<1> HIDE DEF C
<1>4. done \in Seq(nodes) /\ Len(done) \in Nat
  BY DEF InOrder
<1>5. \A x : x \in Range(done) <=> \E i \in 1..Len(done) : done[i] = x
  BY <1>4, RangeFacts
<1>6. /\ \A i, j \in 1..Len(done) : done[i] = done[j] => i = j
      /\ \A p \in before, i \in 1..Len(done) :
           p[2] = done[i] => \E j \in 1..(i - 1) : done[j] = p[1]
  BY DEF InOrder
<1>7. \A n \in left : \E p \in before : p[2] = n /\ p[1] \in left
  BY <1>1 DEF ReadyAfter
<1>8. ASSUME NEW p \in before, p[1] \in left
      PROVE  p[2] \in left
  <2>1. ASSUME NEW i \in 1..Len(done), done[i] = p[2]
        PROVE  FALSE
    <3>1. PICK j \in 1..(i - 1) : done[j] = p[1]
      BY <1>6, <2>1
    <3>2. j \in 1..Len(done)
      BY <1>4
    <3> QED BY <1>5, <1>8, <3>1, <3>2
  <2> QED BY <1>1, <1>5, <2>1
<1>9. ASSUME NEW n \in C
      PROVE  n \in left
  <2>1. ASSUME NEW i \in 1..Len(done), done[i] = n
        PROVE  FALSE
    <3> DEFINE S == {m \in nodes : \A j \in 1..Len(done) : done[j] = m => j > i}
    <3>1. ASSUME NEW p \in before, p[1] \in {n} \/ p[1] \in S
          PROVE  p[2] \in S
      <4>1. ASSUME NEW k \in 1..Len(done), done[k] = p[2]
            PROVE  k > i
        <5>1. PICK j \in 1..(k - 1) : done[j] = p[1]
          BY <1>6, <4>1
        <5>2. j \in 1..Len(done)
          BY <1>4
        <5>3. j >= i
          BY <1>6, <2>1, <3>1, <5>1, <5>2
        <5> QED BY <1>4, <5>1, <5>3
      <4> QED BY <1>1, <4>1
    <3>2. Follows(S, {n}, before)
      BY <3>1 DEF Follows
    <3>3. n \in S
      BY <1>2, <1>3, <3>2
    <3> QED BY <2>1, <3>3
  <2> QED BY <1>3, <1>5, <2>1
<1>10. A(C) \subseteq left
  <2>1. Follows(left, C, before)
    BY <1>8, <1>9 DEF Follows
  <2> QED BY <1>2, <2>1
<1>11. ASSUME NEW S, NEW T, \A n \in S : n \in T \/ n \in A(T)
       PROVE  A(S) \subseteq A(T)
  <2>1. Follows(A(T), S, before)
    BY <1>2, <1>11 DEF Follows
  <2> QED BY <1>2, <2>1
<1>12. ASSUME NEW n \in left
       PROVE  n \in C \/ n \in A(C)
  <2> DEFINE Back(a) == {m \in nodes : a \in A({m})}
             B == {a \in left : a = n \/ n \in A({a})}
             Sizes == {Cardinality(Back(a)) : a \in B}
  <2>1. \A a : IsFiniteSet(Back(a)) /\ Cardinality(Back(a)) \in Nat
    <3> TAKE a
    <3>1. Back(a) \subseteq nodes
      OBVIOUS
    <3> HIDE DEF Back
    <3> QED BY <3>1, FS_Subset, FS_CardinalityType
  <2>2. PICK a \in B : \A b \in B : Cardinality(Back(a)) <= Cardinality(Back(b))
    <3>1. n \in B
      OBVIOUS
    <3> HIDE DEF Back, B
    <3>2. Sizes \in SUBSET Nat /\ Sizes # {}
      BY <2>1, <3>1
    <3>3. PICK k \in Sizes : \A m \in Sizes : k <= m
      <4> HIDE DEF Sizes
      <4> QED BY <3>2, LeastNumber
    <3> QED BY <3>3
  <2>3. PICK p \in before : p[2] = a /\ p[1] \in left
    BY <1>7
  <2> DEFINE b == p[1]
  <2>4. a \in A({b}) /\ \A m : b \in A({m}) => a \in A({m})
    <3>1. Follows(A({b}), {b}, before) /\ \A m : Follows(A({m}), {m}, before)
      BY <1>2
    <3> QED BY <2>3, <3>1 DEF Follows
  <2>5. n \in A({b}) /\ b \in left
    <3>1. A({a}) \subseteq A({b})
      BY <1>11, <2>4
    <3> QED BY <2>3, <2>4, <3>1
  <2>6. b \in A({b})
    <3>1. Cardinality(Back(a)) <= Cardinality(Back(b))
      BY <2>2, <2>5
    <3>2. Back(b) \subseteq Back(a) /\ b \in Back(a)
      BY <2>4, <2>5
    <3>3. b \in Back(b)
      <4> HIDE DEF Back
      <4>1. Cardinality(Back(b)) <= Cardinality(Back(a))
            /\ (Cardinality(Back(b)) = Cardinality(Back(a)) => Back(b) = Back(a))
        BY <2>1, <3>2, FS_Subset
      <4>2. Cardinality(Back(b)) = Cardinality(Back(a))
        BY <2>1, <3>1, <4>1
      <4> QED BY <3>2, <4>1, <4>2
    <3> QED BY <3>3
  <2>7. b \in C
    BY <1>3, <2>5, <2>6
  <2>8. A({b}) \subseteq A(C)
    BY <1>11, <2>7
  <2> QED BY <2>5, <2>8
<1>13. left = C \cup A(C)
  BY <1>9, <1>10, <1>12
<1> QED BY <1>13 DEF A, C

(* WholeOrder, of the sequence that TopologicalOrder makes. *)
LEMMA JoinedOrder ==
    ASSUME NEW nodes, NEW impact, Listed(nodes, impact), NEW before,
           NEW done, InOrder(done, nodes, before)
    PROVE  Whole(done \o Sorted(nodes \ Range(done), impact), done, nodes)
<1>1. PICK left : left = nodes \ Range(done)
  OBVIOUS
<1>2. PICK rest : rest = Sorted(left, impact)
  OBVIOUS
<1>3. PICK order : order = done \o rest
  OBVIOUS
<1>4. left \in SUBSET Int /\ left \in SUBSET nodes /\ IsFiniteSet(left)
      /\ \A n \in left : impact[n] \in Int
  BY <1>1, FS_Subset DEF Listed
<1>5. done \in Seq(nodes)
  BY DEF InOrder
<1>6. rest \in Seq(nodes)
  <2>1. rest \in [1..Cardinality(left) -> left] /\ Cardinality(left) \in Nat
    BY <1>2, <1>4, SortedFacts, FS_CardinalityType
  <2>2. rest \in [1..Cardinality(left) -> nodes]
    BY <1>4, <2>1
  <2> QED BY <2>1, <2>2, PlacesFacts
<1>7. order \in Seq(nodes) /\ Joined(order, done, rest)
  BY <1>3, <1>5, <1>6, JoinedFacts
<1>8. rest = Sorted(nodes \ Range(done), impact)
  BY <1>1, <1>2
<1>9. Whole(order, done, nodes)
  BY <1>7, <1>8, WholeOrder
<1> QED BY Zenon, <1>1, <1>2, <1>3, <1>9

(* Where the nodes stand in it. *)
PlaceIn(order, nodes) == [n \in nodes |-> CHOOSE k \in DOMAIN order : order[k] = n]

WellPlaced(pos, before, late, nodes) ==
    /\ \A p \in before : p[2] \notin late => pos[p[1]] < pos[p[2]]
    /\ \A n \in late, m \in nodes \ late : pos[m] < pos[n]

LEMMA PlacesOfOrder ==
    ASSUME NEW nodes, NEW before \in SUBSET (nodes \X nodes),
           NEW done, InOrder(done, nodes, before),
           NEW order, Whole(order, done, nodes),
           NEW late, late = nodes \ Range(done)
    PROVE  WellPlaced(PlaceIn(order, nodes), before, late, nodes)
<1> DEFINE pos == PlaceIn(order, nodes)
<1>1. /\ order \in Seq(nodes) /\ Range(order) = nodes
      /\ \A i, j \in 1..Len(order) : order[i] = order[j] => i = j
      /\ Len(done) \in Nat /\ Len(done) <= Len(order)
      /\ \A i \in 1..Len(done) : order[i] = done[i]
      /\ \A i \in 1..Len(order) : order[i] \in Range(done) <=> i <= Len(done)
  BY DEF Whole
<1>2. \A p \in before : p[1] \in nodes /\ p[2] \in nodes
  OBVIOUS
<1>3. Len(order) \in Nat /\ DOMAIN order = 1..Len(order)
  BY <1>1
<1>4. \A n \in nodes : pos[n] \in 1..Len(order) /\ order[pos[n]] = n
  <2> TAKE n \in nodes
  <2>1. \E k \in 1..Len(order) : order[k] = n
    BY <1>1, RangeFacts
  <2> QED BY <1>3, <2>1 DEF PlaceIn
<1> HIDE DEF pos
<1>5. \A i \in 1..Len(order) : pos[order[i]] = i
  <2> TAKE i \in 1..Len(order)
  <2>1. order[i] \in nodes
    BY <1>1
  <2>2. pos[order[i]] \in 1..Len(order) /\ order[pos[order[i]]] = order[i]
    BY <1>4, <2>1
  <2> QED BY <1>1, <2>2
<1>6. \A n \in nodes : n \notin late => pos[n] \in 1..Len(done) /\ done[pos[n]] = n
  <2> TAKE n \in nodes
  <2>1. CASE n \notin late
    <3>1. pos[n] \in 1..Len(order) /\ order[pos[n]] = n /\ n \in Range(done)
      BY <1>4, <2>1
    <3>2. pos[n] <= Len(done)
      BY <1>1, <3>1
    <3>3. pos[n] \in 1..Len(done)
      BY <1>1, <3>1, <3>2
    <3> QED BY <1>1, <3>1, <3>3
  <2> QED BY <2>1
<1>7. ASSUME NEW p \in before, p[2] \notin late
      PROVE  pos[p[1]] < pos[p[2]]
  <2>1. pos[p[2]] \in 1..Len(done) /\ done[pos[p[2]]] = p[2]
    BY <1>2, <1>6, <1>7
  <2>2. PICK j \in 1..(pos[p[2]] - 1) : done[j] = p[1]
    BY <2>1 DEF InOrder
  <2>3. j \in 1..Len(done) /\ j \in 1..Len(order) /\ j < pos[p[2]]
    BY <1>1, <1>3, <2>1
  <2>4. order[j] = p[1]
    BY <1>1, <2>2, <2>3
  <2> QED BY <1>5, <2>3, <2>4
<1>8. ASSUME NEW n \in late, NEW m \in nodes \ late
      PROVE  pos[m] < pos[n]
  <2>1. n \in nodes /\ n \notin Range(done)
    OBVIOUS
  <2>2. pos[m] \in 1..Len(done)
    BY <1>6
  <2>3. pos[n] \in 1..Len(order) /\ order[pos[n]] = n
    BY <1>4, <2>1
  <2>4. ~(pos[n] <= Len(done))
    BY <1>1, <2>1, <2>3
  <2> QED BY <1>1, <1>3, <2>2, <2>3, <2>4
<1> QED BY <1>7, <1>8 DEF WellPlaced, pos

(* The order has every node once, leaves to the end what is on a cycle or  *)
(* after one, and puts the rest behind all that must come before it.       *)
LEMMA TopologicalFacts ==
    ASSUME NEW nodes, NEW arcs, NEW impact, Listed(nodes, impact),
           NEW before, before = Before(arcs, nodes),
           NEW result, result = TopologicalOrder(nodes, arcs, impact)
    PROVE  /\ Range(result.order) = nodes /\ Len(result.order) = Cardinality(nodes)
           /\ result.cycle = OnCycle(before, nodes) \cup After(OnCycle(before, nodes), before, nodes)
           /\ WellPlaced(PlaceIn(result.order, nodes), before, result.cycle, nodes)
<1>1. before = Before(arcs, nodes)
  OBVIOUS
<1>2. PICK done : /\ InOrder(done, nodes, before) /\ ReadyAfter(done, nodes, before) = {}
                  /\ TopologicalOrder(nodes, arcs, impact) = Finished(done, nodes, impact)
  BY Zenon, <1>1, TopologicalOrderIs
<1>3. PICK order : order = done \o Sorted(nodes \ Range(done), impact)
  OBVIOUS
<1>4. PICK late : late = nodes \ Range(done)
  OBVIOUS
<1>6. before \in SUBSET (nodes \X nodes)
  BY <1>1 DEF Before
<1>7. Whole(order, done, nodes)
  BY Zenon, <1>2, <1>3, JoinedOrder
<1>8. WellPlaced(PlaceIn(order, nodes), before, late, nodes)
  BY <1>2, <1>4, <1>6, <1>7, PlacesOfOrder
<1>9. late = OnCycle(before, nodes) \cup After(OnCycle(before, nodes), before, nodes)
  BY <1>2, <1>4, <1>6, LeftOverIs DEF Listed
<1>11. result.order = order /\ result.cycle = late
  BY <1>2, <1>3, <1>4 DEF Finished
<1>12. Range(order) = nodes /\ Len(order) = Cardinality(nodes)
  BY <1>7 DEF Whole
<1> QED BY <1>8, <1>9, <1>11, <1>12

(***************************************************************************)
(* Backlog.                                                                *)
(***************************************************************************)

StageWork == [at : {"stage"}, thread : Threads, seen : Stages, new : Stages,
              art : BOOLEAN, set : BOOLEAN]
EditWork == [at : {"edit"}, item : Items, seen : Item]
CreateWork == [at : {"create"}, item : Items, row : Item]
ArcSet == [source : Items, target : Items, relation : Relations]
RelateWork == [at : {"relate"}, arc : ArcSet]

BacklogWork == {Idle} \cup StageWork \cup EditWork \cup CreateWork \cup RelateWork

Values == Titles \cup Priorities \cup Impacts

BacklogTypes ==
    /\ DOMAIN items \subseteq Items /\ items \in [DOMAIN items -> Item]
    /\ DOMAIN threads \subseteq Threads /\ threads \in [DOMAIN threads -> Stages]
    /\ artifacts \in [DOMAIN threads -> Seq(Stages)]
    /\ rels \subseteq ArcSet
    /\ told \in [DOMAIN items -> [Fields -> Values]]
    /\ sess \in [Sessions -> BacklogWork]
    /\ excused \in [title : BOOLEAN, funnel : SUBSET Threads, done : SUBSET Threads,
                    receipt : SUBSET (Items \X Fields)]

(* A relation between two items there are, a symmetric one from the lower. *)
ArcFine(arc) ==
    /\ {arc.source, arc.target} \subseteq DOMAIN items
    /\ arc.source # arc.target
    /\ arc.relation \in Symmetric => arc.source < arc.target

(* Where a stage stands in the funnel. *)
Place(stage) == CHOOSE n \in DOMAIN Funnel : Funnel[n] = stage

InFunnel(stage) == \E n \in DOMAIN Funnel : Funnel[n] = stage

Ahead(a, b) == InFunnel(a) /\ InFunnel(b) /\ Place(a) < Place(b)

Rising(way) == \A n \in 2..Len(way) : Ahead(way[n - 1], way[n])

(* What the rest of the proof knows of a session: its thread or item is    *)
(* there, and what it found out holds still, or the change that ended it   *)
(* is excused.                                                             *)
Informed(x) ==
    /\ x.at = "stage" =>
          /\ x.thread \in DOMAIN threads
          /\ x.new = "done" => OpenLinked(x.thread) = {} \/ x.thread \in excused.done
          /\ x.thread \notin excused.funnel /\ ~x.set =>
                x.seen = threads[x.thread] /\ NextStage(x.seen) = x.new /\ x.new # None
    /\ x.at = "edit" => x.item \in DOMAIN items
    /\ x.at = "create" =>
          /\ x.item \notin DOMAIN items
          /\ x.row.open /\ (x.row.thread # None => x.row.thread \in DOMAIN threads)
          /\ OpenTitled(x.row.title) = {} \/ excused.title
    /\ x.at = "relate" => ArcFine(x.arc)

(* Only one session makes the item of an id. *)
OwnIds ==
    \A s, u \in Sessions :
        sess[s].at = "create" /\ sess[u].at = "create" /\ sess[s].item = sess[u].item => s = u

(* Two open items have different titles. *)
TitlesApart ==
    excused.title \/ \A i, j \in DOMAIN items :
        items[i].open /\ items[j].open /\ items[i].title = items[j].title => i = j

(* A thread has no open item when it is done and has come its way. *)
ThreadFine(t) ==
    /\ threads[t] = "done" => OpenLinked(t) = {} \/ t \in excused.done
    /\ t \notin excused.funnel =>
          InFunnel(threads[t]) /\ Rising(artifacts[t] \o <<threads[t]>>)

LinksThere == \A i \in DOMAIN items : items[i].thread # None => items[i].thread \in DOMAIN threads

BacklogInv ==
    /\ BacklogTypes
    /\ \A s \in Sessions : Informed(sess[s])
    /\ OwnIds
    /\ \A arc \in rels : ArcFine(arc)
    /\ TitlesApart
    /\ ReceiptsAreTrue
    /\ \A t \in DOMAIN threads : ThreadFine(t)
    /\ LinksThere
-----------------------------------------------------------------------------
LEMMA WithRow ==
    ASSUME NEW f, NEW S, f \in [DOMAIN f -> S], NEW x, NEW y \in S
    PROVE  /\ With(f, x, y) \in [{x} \cup DOMAIN f -> S]
           /\ DOMAIN With(f, x, y) = {x} \cup DOMAIN f
           /\ \A z \in {x} \cup DOMAIN f : With(f, x, y)[z] = IF z = x THEN y ELSE f[z]
BY DEF With

(* What a session is from where it is. *)
LEMMA BacklogWorkFields ==
    ASSUME NEW x \in BacklogWork
    PROVE  /\ x.at = "stage" => x \in StageWork
           /\ x.at = "edit" => x \in EditWork
           /\ x.at = "create" => x \in CreateWork
           /\ x.at = "relate" => x \in RelateWork
           /\ x.at \in {"idle", "stage", "edit", "create", "relate"}
BY DEF BacklogWork, Idle, StageWork, EditWork, CreateWork, RelateWork

LEMMA IdleIsWork == Idle \in BacklogWork /\ Idle.at = "idle" /\ Informed(Idle)
BY DEF BacklogWork, Idle, Informed

LEMMA NextStageFacts ==
    ASSUME NEW stage, NextStage(stage) # None
    PROVE  Ahead(stage, NextStage(stage)) /\ NextStage(stage) \in Stages
<1>1. PICK n \in 2..Len(Funnel) : Funnel[n - 1] = stage /\ NextStage(stage) = Funnel[n]
  BY DEF NextStage
<1>2. n \in DOMAIN Funnel /\ n - 1 \in DOMAIN Funnel /\ n - 1 < n
  BY BacklogAssumption
<1>3. \A m \in DOMAIN Funnel : Place(Funnel[m]) = m
  BY BacklogAssumption DEF IsInjective, Place
<1> QED BY <1>1, <1>2, <1>3 DEF Ahead, InFunnel, Stages, Range

LEMMA AheadOf ==
    ASSUME NEW a, NEW b, NEW c, Ahead(a, b), Ahead(b, c)
    PROVE  Ahead(a, c)
<1>1. \A stage : InFunnel(stage) => Place(stage) \in Int
  BY BacklogAssumption DEF InFunnel, Place
<1> QED BY <1>1 DEF Ahead

(* A step that moves one session and writes nothing. *)
LEMMA SessionSafe ==
    ASSUME BacklogInv, NEW s \in Sessions, NEW x \in BacklogWork, sess' = [sess EXCEPT ![s] = x],
           UNCHANGED <<items, threads, artifacts, rels, told, excused>>,
           Informed(x),
           x.at = "create" => \A u \in Sessions : sess[u].at = "create" => sess[u].item # x.item
    PROVE  BacklogInv'
<1>1. \A u \in Sessions : sess'[u] = IF u = s THEN x ELSE sess[u]
  BY DEF BacklogInv, BacklogTypes
<1>2. BacklogTypes'
  BY DEF BacklogInv, BacklogTypes, Item
<1>3. \A u \in Sessions : Informed(sess[u])'
  BY <1>1 DEF BacklogInv, Informed, ArcFine, OpenLinked, OpenTitled
<1>4. OwnIds'
  BY <1>1 DEF BacklogInv, OwnIds
<1>5. (\A arc \in rels : ArcFine(arc))' /\ TitlesApart' /\ ReceiptsAreTrue' /\ LinksThere'
      /\ (\A t \in DOMAIN threads : ThreadFine(t))'
  BY DEF BacklogInv, ArcFine, TitlesApart, ReceiptsAreTrue, LinksThere, ThreadFine, OpenLinked
<1> QED BY <1>2, <1>3, <1>4, <1>5 DEF BacklogInv

LEMMA BacklogFailSafe ==
    ASSUME BacklogInv, NEW s \in Sessions, BacklogFail(s)
    PROVE  BacklogInv'
BY SessionSafe, IdleIsWork DEF BacklogFail, End

LEMMA AdvanceSafe ==
    ASSUME BacklogInv, NEW s \in Sessions, NEW t \in Threads, NEW art \in BOOLEAN, AdvanceStage(s, t, art)
    PROVE  BacklogInv'
<1> DEFINE x == [at |-> "stage", thread |-> t, seen |-> threads[t],
                 new |-> NextStage(threads[t]), art |-> art, set |-> FALSE]
<1>1. x \in BacklogWork
  BY NextStageFacts DEF AdvanceStage, BacklogInv, BacklogTypes, BacklogWork, StageWork
<1>2. Informed(x)
  BY DEF AdvanceStage, Informed, StageAllowed
<1> QED BY <1>1, <1>2, SessionSafe DEF AdvanceStage, Begin

LEMMA SetStageSafe ==
    ASSUME BacklogInv, NEW s \in Sessions, NEW t \in Threads, NEW stage \in Stages, SetStage(s, t, stage)
    PROVE  BacklogInv'
<1> DEFINE x == [at |-> "stage", thread |-> t, seen |-> threads[t],
                 new |-> stage, art |-> FALSE, set |-> TRUE]
<1>1. x \in BacklogWork
  BY DEF SetStage, BacklogInv, BacklogTypes, BacklogWork, StageWork
<1>2. Informed(x)
  BY DEF SetStage, Informed, StageAllowed
<1> QED BY <1>1, <1>2, SessionSafe DEF SetStage, Begin

LEMMA PulsyrCreateSafe ==
    ASSUME BacklogInv, NEW s \in Sessions, NEW i \in Items, NEW title \in Titles, NEW impact \in Impacts,
           NEW t \in Threads \cup {None}, PulsyrCreate(s, i, title, impact, t)
    PROVE  BacklogInv'
<1> DEFINE row == [title |-> title, priority |-> None, impact |-> impact,
                   open |-> TRUE, thread |-> t]
           x == [at |-> "create", item |-> i, row |-> row]
<1>1. x \in BacklogWork
  BY BacklogAssumption DEF BacklogWork, CreateWork, Item
<1>2. Informed(x)
  BY DEF PulsyrCreate, Informed, AlreadyOpen
<1>3. \A u \in Sessions : sess[u].at = "create" => sess[u].item # i
  BY DEF PulsyrCreate, At
<1> QED BY <1>1, <1>2, <1>3, SessionSafe DEF PulsyrCreate, Begin

LEMMA LoadItemSafe ==
    ASSUME BacklogInv, NEW s \in Sessions, NEW i \in Items, LoadItem(s, i)
    PROVE  BacklogInv'
<1> DEFINE x == [at |-> "edit", item |-> i, seen |-> items[i]]
<1>1. x \in BacklogWork
  BY DEF LoadItem, BacklogInv, BacklogTypes, BacklogWork, EditWork
<1>2. Informed(x)
  BY DEF LoadItem, Informed
<1> QED BY <1>1, <1>2, SessionSafe DEF LoadItem, Begin

LEMMA CreateRelationshipSafe ==
    ASSUME BacklogInv, NEW s \in Sessions, NEW a \in Items, NEW b \in Items, NEW r \in Relations,
           CreateRelationship(s, a, b, r)
    PROVE  BacklogInv'
<1> DEFINE x == [at |-> "relate", arc |-> Normal(a, b, r)]
<1>1. Normal(a, b, r) \in ArcSet
  BY DEF Normal, Arc, ArcSet
<1>2. x \in BacklogWork
  BY <1>1 DEF BacklogWork, RelateWork
<1>3. a # b /\ {a, b} \subseteq DOMAIN items /\ a \in Int /\ b \in Int
  BY BacklogAssumption DEF CreateRelationship
<1>4. ArcFine(Normal(a, b, r))
  BY <1>3 DEF ArcFine, Normal, Arc
<1>5. Informed(x)
  BY <1>4 DEF Informed
<1> QED BY <1>2, <1>5, SessionSafe DEF CreateRelationship, Begin

LEMMA CreateThreadSafe ==
    ASSUME BacklogInv, NEW t \in Threads, CreateThread(t)
    PROVE  BacklogInv'
<1>1. /\ threads' \in [{t} \cup DOMAIN threads -> Stages] /\ DOMAIN threads' = {t} \cup DOMAIN threads
      /\ \A u \in DOMAIN threads' : threads'[u] = IF u = t THEN "idea" ELSE threads[u]
      /\ artifacts' \in [DOMAIN threads' -> Seq(Stages)]
      /\ \A u \in DOMAIN threads' : artifacts'[u] = IF u = t THEN <<>> ELSE artifacts[u]
  <2>1. "idea" \in Stages
    BY BacklogAssumption DEF Stages, Range
  <2>2. <<>> \in Seq(Stages)
    OBVIOUS
  <2> QED BY <2>1, <2>2 DEF CreateThread, With, BacklogInv, BacklogTypes
<1>2. BacklogTypes'
  BY <1>1 DEF CreateThread, BacklogInv, BacklogTypes
<1>3. \A u \in Sessions : Informed(sess[u])'
  BY <1>1 DEF CreateThread, BacklogInv, Informed, ArcFine, OpenLinked, OpenTitled
<1>4. ThreadFine(t)'
  <2>1. InFunnel("idea") /\ Rising(<<>> \o <<"idea">>)
    BY BacklogAssumption DEF InFunnel, Rising
  <2> QED BY <1>1, <2>1 DEF ThreadFine
<1>5. \A u \in DOMAIN threads : ThreadFine(u)'
  BY <1>1 DEF CreateThread, BacklogInv, ThreadFine, OpenLinked
<1>6. OwnIds' /\ (\A arc \in rels : ArcFine(arc))' /\ TitlesApart' /\ ReceiptsAreTrue' /\ LinksThere'
  BY <1>1
     DEF CreateThread, BacklogInv, OwnIds, ArcFine, TitlesApart, ReceiptsAreTrue, LinksThere
<1> QED BY <1>1, <1>2, <1>3, <1>4, <1>5, <1>6 DEF BacklogInv

(* One more stage at the end of a way. *)
LEMMA RisingOn ==
    ASSUME NEW way \in Seq(Stages), NEW stage \in Stages, NEW next \in Stages,
           Rising(way \o <<stage>>), Ahead(stage, next)
    PROVE  Rising(Append(way, stage) \o <<next>>)
<1> DEFINE longer == Append(way, stage) \o <<next>>
<1>1. Len(longer) = Len(way) + 2 /\ Len(way \o <<stage>>) = Len(way) + 1
  OBVIOUS
<1>2. \A n \in 1..(Len(way) + 1) : longer[n] = (way \o <<stage>>)[n]
  OBVIOUS
<1>3. longer[Len(way) + 1] = stage /\ longer[Len(way) + 2] = next
  OBVIOUS
<1>4. ASSUME NEW n \in 2..Len(longer)
      PROVE  Ahead(longer[n - 1], longer[n])
  <2>1. CASE n = Len(way) + 2
    BY <1>3, <2>1
  <2>2. CASE n \in 2..(Len(way) + 1)
    BY <1>1, <1>2, <2>2 DEF Rising
  <2> QED BY <1>1, <2>1, <2>2
<1> QED BY <1>4 DEF Rising

(* Another stage, further on, at the end of it. *)
LEMMA RisingInstead ==
    ASSUME NEW way \in Seq(Stages), NEW stage \in Stages, NEW next \in Stages,
           Rising(way \o <<stage>>), Ahead(stage, next)
    PROVE  Rising(way \o <<next>>)
<1>1. Len(way \o <<next>>) = Len(way) + 1 /\ Len(way \o <<stage>>) = Len(way) + 1
  OBVIOUS
<1>2. \A n \in 1..Len(way) : (way \o <<stage>>)[n] = (way \o <<next>>)[n]
  OBVIOUS
<1>3. (way \o <<stage>>)[Len(way) + 1] = stage /\ (way \o <<next>>)[Len(way) + 1] = next
  OBVIOUS
<1>4. ASSUME NEW n \in 2..(Len(way) + 1)
      PROVE  Ahead((way \o <<next>>)[n - 1], (way \o <<next>>)[n])
  <2>0. Ahead((way \o <<stage>>)[n - 1], (way \o <<stage>>)[n])
    BY <1>1 DEF Rising
  <2>1. CASE n = Len(way) + 1
    BY <1>2, <1>3, <2>0, <2>1, AheadOf
  <2>2. CASE n \in 2..Len(way)
    BY <1>2, <2>0, <2>2
  <2> QED BY <2>1, <2>2
<1> QED BY <1>1, <1>4 DEF Rising

LEMMA CommitStageSafe ==
    ASSUME BacklogInv, NEW s \in Sessions, CommitStage(s)
    PROVE  BacklogInv'
<1>1. PICK w \in StageWork : w = sess[s]
  BY BacklogWorkFields DEF CommitStage, At, BacklogInv, BacklogTypes
<1>2. PICK t \in DOMAIN threads : t = w.thread
  BY <1>1 DEF BacklogInv, Informed, CommitStage, At
<1> DEFINE overlaps == \E o \in At("stage") \ {s} : sess[o].thread = t
<1>3. /\ w = sess[s] /\ t = w.thread /\ w.at = "stage" /\ Informed(w) /\ t \in DOMAIN threads
      /\ \A u \in Sessions : sess'[u] = IF u = s THEN Idle ELSE sess[u]
  BY <1>1, <1>2 DEF CommitStage, At, End, BacklogInv, BacklogTypes
<1>4. /\ threads' \in [DOMAIN threads -> Stages] /\ artifacts' \in [DOMAIN threads -> Seq(Stages)]
      /\ \A u \in DOMAIN threads : u # t => threads'[u] = threads[u] /\ artifacts'[u] = artifacts[u]
      /\ threads'[t] = IF w.new = w.seen THEN threads[t] ELSE w.new
      /\ artifacts'[t] = IF w.art THEN Append(artifacts[t], w.seen) ELSE artifacts[t]
  BY <1>3 DEF CommitStage, WrittenField, StageOfArtifact, BacklogInv, BacklogTypes, StageWork
<1>5. /\ excused'.title = excused.title /\ excused'.done = excused.done
      /\ excused'.receipt = excused.receipt
      /\ excused'.funnel = excused.funnel \cup {u \in {t} : w.set \/ overlaps}
      /\ excused' \in [title : BOOLEAN, funnel : SUBSET Threads, done : SUBSET Threads,
                       receipt : SUBSET (Items \X Fields)]
  BY <1>3 DEF CommitStage, BacklogInv, BacklogTypes, StageWork
<1>6. BacklogTypes'
  BY <1>4, <1>5, IdleIsWork DEF CommitStage, End, BacklogInv, BacklogTypes
<1>7. \A u \in Sessions : Informed(sess[u])'
  <2>1. ASSUME NEW u \in Sessions, u # s
        PROVE  Informed(sess[u])'
    <3>1. sess[u].at = "stage" /\ sess[u].thread = t => t \in excused'.funnel
      BY <1>5, <2>1 DEF At
    <3>2. Informed(sess[u]) /\ sess'[u] = sess[u]
      BY <1>3, <2>1 DEF BacklogInv
    <3> QED BY <1>3, <1>4, <1>5, <3>1, <3>2
            DEF Informed, CommitStage, ArcFine, OpenLinked, OpenTitled
  <2>2. Informed(Idle)'
    BY IdleIsWork DEF Informed
  <2> QED BY <1>3, <2>1, <2>2
<1>8. ThreadFine(t)'
  <2>1. threads'[t] = "done" => OpenLinked(t)' = {} \/ t \in excused'.done
    <3>1. OpenLinked(t)' = OpenLinked(t)
      BY DEF CommitStage, OpenLinked
    <3>2. threads[t] = "done" \/ w.new = "done" => OpenLinked(t) = {} \/ t \in excused.done
      BY <1>3 DEF BacklogInv, ThreadFine, Informed
    <3> QED BY <1>4, <1>5, <3>1, <3>2
  <2>2. ASSUME t \notin excused'.funnel
        PROVE  InFunnel(threads'[t]) /\ Rising(artifacts'[t] \o <<threads'[t]>>)
    <3>1. ~w.set /\ t \notin excused.funnel
      BY <1>3, <1>5, <2>2
    <3>2. w.seen = threads[t] /\ NextStage(w.seen) = w.new /\ w.new # None
      BY <1>3, <3>1 DEF Informed
    <3>3. Ahead(w.seen, w.new)
      BY <3>2, NextStageFacts
    <3>4. Rising(artifacts[t] \o <<w.seen>>) /\ artifacts[t] \in Seq(Stages)
          /\ w.seen \in Stages /\ w.new \in Stages
      BY <1>3, <3>1, <3>2 DEF BacklogInv, BacklogTypes, ThreadFine, StageWork
    <3>5. Rising(artifacts[t] \o <<w.new>>) /\ Rising(Append(artifacts[t], w.seen) \o <<w.new>>)
      BY <3>3, <3>4, RisingOn, RisingInstead
    <3>6. threads'[t] = w.new
      BY <1>4, <3>3, <3>2
    <3> QED BY <1>4, <3>3, <3>5, <3>6 DEF Ahead
  <2> QED BY <2>1, <2>2 DEF ThreadFine
<1>9. \A u \in DOMAIN threads : ThreadFine(u)'
  <2> SUFFICES ASSUME NEW u \in DOMAIN threads, u # t
               PROVE  ThreadFine(u)'
    BY <1>8
  <2>1. OpenLinked(u)' = OpenLinked(u)
    BY DEF CommitStage, OpenLinked
  <2>2. ThreadFine(u)
    BY DEF BacklogInv
  <2>3. threads'[u] = threads[u] /\ artifacts'[u] = artifacts[u]
    BY <1>4
  <2>4. u \notin excused'.funnel => u \notin excused.funnel
    BY <1>5
  <2> QED BY <1>5, <2>1, <2>2, <2>3, <2>4 DEF ThreadFine
<1>10. OwnIds'
  BY <1>3, IdleIsWork DEF BacklogInv, OwnIds
<1>11. (\A arc \in rels : ArcFine(arc))' /\ TitlesApart' /\ ReceiptsAreTrue' /\ LinksThere'
  BY <1>4, <1>5 DEF CommitStage, BacklogInv, ArcFine, TitlesApart, ReceiptsAreTrue, LinksThere
<1> QED BY <1>4, <1>6, <1>7, <1>9, <1>10, <1>11 DEF BacklogInv

LEMMA AddArtifactSafe ==
    ASSUME BacklogInv, NEW t \in Threads, NEW stage \in Stages, AddArtifact(t, stage)
    PROVE  BacklogInv'
<1>1. /\ excused' = [excused EXCEPT !.funnel = @ \cup {t}] /\ excused'.title = excused.title
      /\ excused'.done = excused.done /\ excused'.receipt = excused.receipt
      /\ excused'.funnel = excused.funnel \cup {t}
      /\ \A u \in DOMAIN threads : u # t => artifacts'[u] = artifacts[u]
  BY DEF AddArtifact, BacklogInv, BacklogTypes
<1>2. BacklogTypes'
  <2>1. artifacts' \in [DOMAIN threads -> Seq(Stages)]
    <3>1. Append(artifacts[t], stage) \in Seq(Stages)
      BY DEF AddArtifact, BacklogInv, BacklogTypes
    <3> QED BY <3>1 DEF AddArtifact, BacklogInv, BacklogTypes
  <2>2. excused' \in [title : BOOLEAN, funnel : SUBSET Threads, done : SUBSET Threads,
                      receipt : SUBSET (Items \X Fields)]
    BY DEF AddArtifact, BacklogInv, BacklogTypes
  <2> QED BY <2>1, <2>2 DEF AddArtifact, BacklogInv, BacklogTypes
<1>3. \A u \in Sessions : Informed(sess[u])'
  BY <1>1 DEF AddArtifact, BacklogInv, Informed, ArcFine, OpenLinked, OpenTitled
<1>4. \A u \in DOMAIN threads : ThreadFine(u)'
  BY <1>1 DEF AddArtifact, BacklogInv, ThreadFine, OpenLinked
<1>5. OwnIds' /\ (\A arc \in rels : ArcFine(arc))' /\ TitlesApart' /\ ReceiptsAreTrue' /\ LinksThere'
  BY <1>1 DEF AddArtifact, BacklogInv, OwnIds, ArcFine, TitlesApart, ReceiptsAreTrue, LinksThere
<1> QED BY <1>2, <1>3, <1>4, <1>5 DEF BacklogInv, AddArtifact

LEMMA CloseItemSafe ==
    ASSUME BacklogInv, NEW i \in Items, CloseItem(i)
    PROVE  BacklogInv'
<1>1. /\ items' \in [DOMAIN items -> Item] /\ DOMAIN items' = DOMAIN items
      /\ \A j \in DOMAIN items : /\ items'[j].open => items[j].open
                                 /\ items'[j].thread = items[j].thread
                                 /\ \A f \in Fields : items'[j][f] = items[j][f]
  BY DEF CloseItem, BacklogInv, BacklogTypes, Item, Fields
<1>2. /\ \A t : OpenLinked(t)' \subseteq OpenLinked(t)
      /\ \A title : OpenTitled(title)' \subseteq OpenTitled(title)
  BY <1>1 DEF OpenLinked, OpenTitled, Fields
<1>3. BacklogTypes'
  BY <1>1 DEF CloseItem, BacklogInv, BacklogTypes
<1>4. \A u \in Sessions : Informed(sess[u])'
  <2>1. UNCHANGED <<threads, sess, excused>>
    BY DEF CloseItem
  <2>2. \A u \in Sessions : Informed(sess[u])
    BY DEF BacklogInv
  <2> QED BY <1>1, <1>2, <2>1, <2>2 DEF Informed, ArcFine
<1>5. \A t \in DOMAIN threads : ThreadFine(t)'
  BY <1>2 DEF CloseItem, BacklogInv, ThreadFine
<1>6. OwnIds' /\ (\A arc \in rels : ArcFine(arc))' /\ TitlesApart' /\ ReceiptsAreTrue' /\ LinksThere'
  BY <1>1
     DEF CloseItem, BacklogInv, OwnIds, ArcFine, TitlesApart, ReceiptsAreTrue, LinksThere, Fields
<1> QED BY <1>3, <1>4, <1>5, <1>6 DEF BacklogInv, CloseItem

(* No session has a name that stands for nothing. *)
LEMMA NoClash ==
    ASSUME NEW title, ~Clashes(title, None)
    PROVE  OpenTitled(title) = {} /\ \A u \in Sessions : sess[u].at = "create" => sess[u].row.title # title
BY BacklogAssumption DEF Clashes, At

LEMMA NotFinishing ==
    ASSUME NEW t \in Threads, ~Finishing(t)
    PROVE  threads[t] # "done" /\ \A u \in Sessions : sess[u].at = "stage" /\ sess[u].thread = t => sess[u].new # "done"
BY BacklogAssumption DEF Finishing, At

LEMMA ReopenItemSafe ==
    ASSUME BacklogInv, NEW i \in Items, ReopenItem(i)
    PROVE  BacklogInv'
<1> DEFINE clash == Clashes(items[i].title, None)
<1>1. /\ items' \in [DOMAIN items -> Item] /\ DOMAIN items' = DOMAIN items
      /\ \A j \in DOMAIN items : /\ j # i => items'[j].open = items[j].open
                                 /\ items'[j].thread = items[j].thread
                                 /\ \A f \in Fields : items'[j][f] = items[j][f]
      /\ i \in DOMAIN items /\ ~items[i].open
  BY DEF ReopenItem, BacklogInv, BacklogTypes, Item, Fields
<1>2. /\ \A t : t # items[i].thread => OpenLinked(t)' = OpenLinked(t)
      /\ \A title : title # items[i].title => OpenTitled(title)' = OpenTitled(title)
  BY <1>1 DEF OpenLinked, OpenTitled, Fields
<1>3. /\ (excused'.title <=> excused.title \/ clash) /\ excused'.funnel = excused.funnel
      /\ excused'.done = excused.done \cup {t \in {items[i].thread} : Finishing(t)}
      /\ excused'.receipt = excused.receipt
  BY DEF ReopenItem, BacklogInv, BacklogTypes
<1>4. {t \in {items[i].thread} : Finishing(t)} \subseteq Threads
  BY <1>1 DEF Finishing, BacklogInv, BacklogTypes, Item
<1>5. BacklogTypes'
  <2>1. excused' \in [title : BOOLEAN, funnel : SUBSET Threads, done : SUBSET Threads,
                      receipt : SUBSET (Items \X Fields)]
    BY <1>4 DEF ReopenItem, BacklogInv, BacklogTypes
  <2> QED BY <1>1, <2>1 DEF ReopenItem, BacklogInv, BacklogTypes
<1>6. \A t \in DOMAIN threads : Finishing(t) \/ t # items[i].thread \/ 
        (threads[t] # "done" /\ \A u \in Sessions : sess[u].at = "stage" /\ sess[u].thread = t => sess[u].new # "done")
  BY NotFinishing DEF BacklogInv, BacklogTypes
<1>7. \A u \in Sessions : Informed(sess[u])'
  <2> TAKE u \in Sessions
  <2>1. Informed(sess[u])
    BY DEF BacklogInv
  <2>2. \A t \in DOMAIN threads : sess[u].at = "stage" /\ sess[u].thread = t /\ sess[u].new = "done" =>
            OpenLinked(t)' = {} \/ t \in excused'.done
    BY <1>2, <1>3, <1>6, <2>1 DEF Informed
  <2>3. \A title : sess[u].at = "create" /\ sess[u].row.title = title =>
            OpenTitled(title)' = {} \/ excused'.title
    BY <1>2, <1>3, <2>1, NoClash DEF Informed
  <2> QED BY <1>1, <1>3, <2>1, <2>2, <2>3
          DEF ReopenItem, Informed, ArcFine, OpenLinked, OpenTitled
<1>8. \A t \in DOMAIN threads : ThreadFine(t)'
  <2> TAKE t \in DOMAIN threads
  <2>1. ThreadFine(t)
    BY DEF BacklogInv
  <2>2. threads[t] = "done" => OpenLinked(t)' = {} \/ t \in excused'.done
    BY <1>2, <1>3, <1>6, <2>1 DEF ThreadFine
  <2> QED BY <1>3, <2>1, <2>2 DEF ReopenItem, ThreadFine
<1>9. TitlesApart'
  <2>1. clash \/ \A j \in DOMAIN items : items[j].open => items[j].title # items[i].title
    BY NoClash DEF OpenTitled
  <2> QED BY <1>1, <1>3, <2>1 DEF BacklogInv, TitlesApart, Fields
<1>10. OwnIds' /\ (\A arc \in rels : ArcFine(arc))' /\ ReceiptsAreTrue' /\ LinksThere'
  BY <1>1, <1>3 DEF ReopenItem, BacklogInv, OwnIds, ArcFine, ReceiptsAreTrue, LinksThere, Fields
<1> QED BY <1>5, <1>7, <1>8, <1>9, <1>10 DEF BacklogInv, ReopenItem

LEMMA ThreadLinkSafe ==
    ASSUME BacklogInv, NEW i \in Items, NEW t \in Threads, PulsyrThreadLink(i, t)
    PROVE  BacklogInv'
<1>1. /\ items' \in [DOMAIN items -> Item] /\ DOMAIN items' = DOMAIN items
      /\ \A j \in DOMAIN items : /\ j # i => items'[j].thread = items[j].thread
                                 /\ items'[j].open = items[j].open
                                 /\ \A f \in Fields : items'[j][f] = items[j][f]
      /\ i \in DOMAIN items /\ t \in DOMAIN threads /\ items'[i].thread = t
  BY DEF PulsyrThreadLink, BacklogInv, BacklogTypes, Item, Fields
<1>2. /\ \A u : u # t => OpenLinked(u)' \subseteq OpenLinked(u)
      /\ ~items[i].open => OpenLinked(t)' \subseteq OpenLinked(t)
      /\ \A title : OpenTitled(title)' = OpenTitled(title)
  BY <1>1 DEF OpenLinked, OpenTitled, Fields
<1>3. /\ excused'.title = excused.title /\ excused'.funnel = excused.funnel
      /\ excused'.done = excused.done \cup {u \in {t} : items[i].open /\ Finishing(u)}
      /\ excused'.receipt = excused.receipt
  BY DEF PulsyrThreadLink, BacklogInv, BacklogTypes
<1>4. BacklogTypes'
  <2>1. excused' \in [title : BOOLEAN, funnel : SUBSET Threads, done : SUBSET Threads,
                      receipt : SUBSET (Items \X Fields)]
    BY DEF PulsyrThreadLink, BacklogInv, BacklogTypes
  <2> QED BY <1>1, <2>1 DEF PulsyrThreadLink, BacklogInv, BacklogTypes
<1>5. Finishing(t) \/
        (threads[t] # "done" /\ \A u \in Sessions : sess[u].at = "stage" /\ sess[u].thread = t => sess[u].new # "done")
  BY NotFinishing
<1>6. \A u \in Sessions : Informed(sess[u])'
  <2> TAKE u \in Sessions
  <2>1. Informed(sess[u])
    BY DEF BacklogInv
  <2>2. \A k \in DOMAIN threads : sess[u].at = "stage" /\ sess[u].thread = k /\ sess[u].new = "done" =>
            OpenLinked(k)' = {} \/ k \in excused'.done
    BY <1>2, <1>3, <1>5, <2>1 DEF Informed
  <2> QED BY <1>1, <1>2, <1>3, <2>1, <2>2 DEF PulsyrThreadLink, Informed, ArcFine
<1>7. \A u \in DOMAIN threads : ThreadFine(u)'
  BY <1>2, <1>3, <1>5 DEF PulsyrThreadLink, BacklogInv, ThreadFine
<1>8. OwnIds' /\ (\A arc \in rels : ArcFine(arc))' /\ TitlesApart' /\ ReceiptsAreTrue' /\ LinksThere'
  BY <1>1, <1>3 DEF PulsyrThreadLink, BacklogInv, OwnIds, ArcFine, TitlesApart,
     ReceiptsAreTrue, LinksThere, Fields
<1> QED BY <1>4, <1>6, <1>7, <1>8 DEF BacklogInv, PulsyrThreadLink

(* What one more item does to the open ones. *)
LEMMA ItemAdded ==
    ASSUME BacklogInv, NEW i \in Items, NEW row \in Item, i \notin DOMAIN items,
           items' = With(items, i, row), told' = With(told, i, Receipt(row))
    PROVE  /\ items' \in [DOMAIN items' -> Item] /\ DOMAIN items' = {i} \cup DOMAIN items
           /\ DOMAIN items' \subseteq Items
           /\ told' \in [DOMAIN items' -> [Fields -> Values]]
           /\ \A j \in DOMAIN items : items'[j] = items[j] /\ told'[j] = told[j]
           /\ items'[i] = row /\ \A f \in Fields : told'[i][f] = row[f]
           /\ \A t : ~row.open \/ t # row.thread => OpenLinked(t)' = OpenLinked(t)
           /\ \A title : ~row.open \/ title # row.title => OpenTitled(title)' = OpenTitled(title)
<1>1. /\ items' \in [{i} \cup DOMAIN items -> Item] /\ DOMAIN items' = {i} \cup DOMAIN items
      /\ items'[i] = row /\ \A j \in DOMAIN items : items'[j] = items[j]
  BY DEF With, BacklogInv, BacklogTypes
<1>2. Receipt(row) \in [Fields -> Values] /\ \A f \in Fields : Receipt(row)[f] = row[f]
  BY DEF Receipt, Fields, Values, Item
<1>3. /\ told' \in [{i} \cup DOMAIN items -> [Fields -> Values]]
      /\ told'[i] = Receipt(row) /\ \A j \in DOMAIN items : told'[j] = told[j]
  BY <1>2 DEF With, BacklogInv, BacklogTypes
<1>4. DOMAIN items \subseteq Items
  BY DEF BacklogInv, BacklogTypes
<1> QED BY <1>1, <1>2, <1>3, <1>4 DEF OpenLinked, OpenTitled

LEMMA CreateItemSafe ==
    ASSUME BacklogInv, NEW i \in Items, NEW title \in Titles, NEW priority \in Priorities,
           NEW open \in BOOLEAN, CreateItem(i, title, priority, open)
    PROVE  BacklogInv'
<1> DEFINE row == [title |-> title, priority |-> priority, impact |-> None,
                   open |-> open, thread |-> None]
           clash == Clashes(title, None)
<1>1. row \in Item /\ i \notin DOMAIN items
  BY BacklogAssumption DEF Item, CreateItem
<1>2. \A u \in Sessions : sess[u].at = "create" => sess[u].item # i
  BY DEF CreateItem, At
<1>3. /\ items' \in [DOMAIN items' -> Item] /\ DOMAIN items' = {i} \cup DOMAIN items
      /\ DOMAIN items' \subseteq Items
      /\ told' \in [DOMAIN items' -> [Fields -> Values]]
      /\ \A j \in DOMAIN items : items'[j] = items[j] /\ told'[j] = told[j]
      /\ items'[i] = row /\ \A f \in Fields : told'[i][f] = row[f]
      /\ \A t : ~open \/ t # None => OpenLinked(t)' = OpenLinked(t)
      /\ \A other : ~open \/ other # title => OpenTitled(other)' = OpenTitled(other)
  <2>1. items' = With(items, i, row) /\ told' = With(told, i, Receipt(row))
    BY DEF CreateItem
  <2>2. row.title = title /\ row.open = open /\ row.thread = None
    OBVIOUS
  <2> HIDE DEF row
  <2> QED BY <1>1, <2>1, <2>2, ItemAdded
<1>4. /\ (excused'.title <=> excused.title \/ (open /\ clash)) /\ excused'.funnel = excused.funnel
      /\ excused'.done = excused.done /\ excused'.receipt = excused.receipt
      /\ excused' \in [title : BOOLEAN, funnel : SUBSET Threads, done : SUBSET Threads,
                       receipt : SUBSET (Items \X Fields)]
  BY DEF CreateItem, BacklogInv, BacklogTypes
<1>5. BacklogTypes'
  BY <1>3, <1>4 DEF CreateItem, BacklogInv, BacklogTypes
<1>6. \A t \in DOMAIN threads : OpenLinked(t)' = OpenLinked(t)
  BY <1>3, BacklogAssumption DEF BacklogInv, BacklogTypes
<1>7. \A u \in Sessions : Informed(sess[u])'
  <2> TAKE u \in Sessions
  <2>1. Informed(sess[u])
    BY DEF BacklogInv
  <2>2. \A other : sess[u].at = "create" /\ sess[u].row.title = other =>
            OpenTitled(other)' = {} \/ excused'.title
    BY <1>3, <1>4, <2>1, NoClash DEF Informed
  <2> QED BY <1>2, <1>3, <1>4, <1>6, <2>1, <2>2 DEF CreateItem, Informed, ArcFine
<1>8. \A t \in DOMAIN threads : ThreadFine(t)'
  BY <1>4, <1>6 DEF CreateItem, BacklogInv, ThreadFine
<1>9. TitlesApart'
  <2>1. clash \/ \A j \in DOMAIN items : items[j].open => items[j].title # title
    BY NoClash DEF OpenTitled
  <2> QED BY <1>3, <1>4, <2>1 DEF BacklogInv, TitlesApart
<1>10. OwnIds' /\ (\A arc \in rels : ArcFine(arc))' /\ LinksThere'
  BY <1>3 DEF CreateItem, BacklogInv, OwnIds, ArcFine, LinksThere
<1>11. ReceiptsAreTrue'
  <2>1. /\ DOMAIN items' = {i} \cup DOMAIN items
        /\ \A j \in DOMAIN items : items'[j] = items[j] /\ told'[j] = told[j]
        /\ \A f \in Fields : told'[i][f] = items'[i][f]
    BY <1>3
  <2>2. excused'.receipt = excused.receipt
    BY <1>4
  <2>3. ReceiptsAreTrue
    BY DEF BacklogInv
  <2> SUFFICES ASSUME NEW j \in {i} \cup DOMAIN items, NEW f \in Fields
               PROVE  told'[j][f] = items'[j][f] \/ <<j, f>> \in excused.receipt
    BY <2>1, <2>2 DEF ReceiptsAreTrue
  <2> QED BY <2>1, <2>3 DEF ReceiptsAreTrue
<1> QED BY <1>5, <1>7, <1>8, <1>9, <1>10, <1>11 DEF BacklogInv, CreateItem

LEMMA CommitCreateSafe ==
    ASSUME BacklogInv, NEW s \in Sessions, CommitCreate(s)
    PROVE  BacklogInv'
<1>1. PICK w \in CreateWork : w = sess[s] /\ Informed(w) /\ w.at = "create"
  BY BacklogWorkFields DEF CommitCreate, At, BacklogInv, BacklogTypes
<1> DEFINE i == w.item
           row == w.row
           clash == \E o \in At("create") \ {s} : sess[o].row.title = row.title
<1>2. row \in Item /\ i \in Items /\ i \notin DOMAIN items /\ row.open
      /\ (row.thread # None => row.thread \in DOMAIN threads)
      /\ (OpenTitled(row.title) = {} \/ excused.title)
  BY <1>1 DEF CreateWork, Informed
<1>3. \A u \in Sessions : sess'[u] = IF u = s THEN Idle ELSE sess[u]
  BY DEF CommitCreate, End, BacklogInv, BacklogTypes
<1>4. \A u \in Sessions : sess[u].at = "create" /\ u # s => sess[u].item # i
  BY <1>1 DEF BacklogInv, OwnIds
<1>5. /\ items' \in [DOMAIN items' -> Item] /\ DOMAIN items' = {i} \cup DOMAIN items
      /\ DOMAIN items' \subseteq Items
      /\ told' \in [DOMAIN items' -> [Fields -> Values]]
      /\ \A j \in DOMAIN items : items'[j] = items[j] /\ told'[j] = told[j]
      /\ items'[i] = row /\ \A f \in Fields : told'[i][f] = row[f]
      /\ \A t : t # row.thread => OpenLinked(t)' = OpenLinked(t)
      /\ \A other : other # row.title => OpenTitled(other)' = OpenTitled(other)
  BY <1>1, <1>2, ItemAdded DEF CommitCreate
<1>6. {t \in {row.thread} : Finishing(t)} \subseteq Threads
  BY <1>2 DEF Finishing, BacklogInv, BacklogTypes
<1>7. /\ (excused'.title <=> excused.title \/ clash) /\ excused'.funnel = excused.funnel
      /\ excused'.done = excused.done \cup {t \in {row.thread} : Finishing(t)}
      /\ excused'.receipt = excused.receipt
      /\ excused' \in [title : BOOLEAN, funnel : SUBSET Threads, done : SUBSET Threads,
                       receipt : SUBSET (Items \X Fields)]
  BY <1>1, <1>6 DEF CommitCreate, BacklogInv, BacklogTypes
<1>8. BacklogTypes'
  BY <1>5, <1>7, IdleIsWork DEF CommitCreate, End, BacklogInv, BacklogTypes
<1>9. \A t \in DOMAIN threads : Finishing(t) \/ t # row.thread \/
        (threads[t] # "done" /\ \A u \in Sessions : sess[u].at = "stage" /\ sess[u].thread = t => sess[u].new # "done")
  BY NotFinishing DEF BacklogInv, BacklogTypes
<1>10. \A u \in Sessions : Informed(sess[u])'
  <2>1. Informed(Idle)'
    BY IdleIsWork DEF Informed
  <2>2. ASSUME NEW u \in Sessions, u # s
        PROVE  Informed(sess[u])'
    <3>1. Informed(sess[u]) /\ sess'[u] = sess[u]
      BY <1>3, <2>2 DEF BacklogInv
    <3>2. \A t \in DOMAIN threads : sess[u].at = "stage" /\ sess[u].thread = t /\ sess[u].new = "done" =>
              OpenLinked(t)' = {} \/ t \in excused'.done
      BY <1>5, <1>7, <1>9, <3>1 DEF Informed
    <3>3. \A title : sess[u].at = "create" /\ sess[u].row.title = title =>
              OpenTitled(title)' = {} \/ excused'.title
      BY <1>5, <1>7, <2>2, <3>1 DEF Informed, At
    <3>4. threads' = threads
      BY DEF CommitCreate
    <3>5. sess[u].at = "relate" => ArcFine(sess[u].arc)'
      BY <1>5, <3>1 DEF Informed, ArcFine
    <3>6. sess[u].at = "create" => sess[u].item \notin DOMAIN items'
      BY <1>4, <1>5, <2>2, <3>1 DEF Informed
    <3> QED BY <1>5, <1>7, <3>1, <3>2, <3>3, <3>4, <3>5, <3>6 DEF Informed
  <2> QED BY <1>3, <2>1, <2>2
<1>11. \A t \in DOMAIN threads : ThreadFine(t)'
  <2> TAKE t \in DOMAIN threads
  <2>1. ThreadFine(t)
    BY DEF BacklogInv
  <2>2. threads[t] = "done" => OpenLinked(t)' = {} \/ t \in excused'.done
    BY <1>5, <1>7, <1>9, <2>1 DEF ThreadFine
  <2> QED BY <1>7, <2>1, <2>2 DEF CommitCreate, ThreadFine
<1>12. TitlesApart'
  <2>1. excused.title \/ \A j \in DOMAIN items : items[j].open => items[j].title # row.title
    BY <1>2 DEF OpenTitled
  <2> QED BY <1>5, <1>7, <2>1 DEF BacklogInv, TitlesApart
<1>13. OwnIds'
  BY <1>3, IdleIsWork DEF BacklogInv, OwnIds
<1>14. (\A arc \in rels : ArcFine(arc))'
  BY <1>5 DEF CommitCreate, BacklogInv, ArcFine
<1>15. ReceiptsAreTrue'
  BY <1>5, <1>7 DEF BacklogInv, ReceiptsAreTrue
<1>16. LinksThere'
  BY <1>2, <1>5 DEF CommitCreate, BacklogInv, LinksThere
<1> QED BY <1>8, <1>10, <1>11, <1>12, <1>13, <1>14, <1>15, <1>16 DEF BacklogInv, CommitCreate

LEMMA CommitRelationshipSafe ==
    ASSUME BacklogInv, NEW s \in Sessions, CommitRelationship(s)
    PROVE  BacklogInv'
<1>1. /\ sess[s] \in RelateWork /\ ArcFine(sess[s].arc)
      /\ \A u \in Sessions : sess'[u] = IF u = s THEN Idle ELSE sess[u]
  BY BacklogWorkFields DEF CommitRelationship, At, End, BacklogInv, BacklogTypes, Informed
<1>2. BacklogTypes'
  BY <1>1, IdleIsWork DEF CommitRelationship, End, BacklogInv, BacklogTypes, RelateWork, Item
<1>3. \A u \in Sessions : Informed(sess[u])'
  BY <1>1, IdleIsWork
     DEF CommitRelationship, BacklogInv, Informed, ArcFine, OpenLinked, OpenTitled
<1>4. OwnIds'
  BY <1>1, IdleIsWork DEF BacklogInv, OwnIds
<1>5. (\A arc \in rels : ArcFine(arc))'
  <2>1. rels' = rels \cup {sess[s].arc}
    BY DEF CommitRelationship
  <2>2. \A arc \in rels' : ArcFine(arc)
    BY <1>1, <2>1 DEF BacklogInv
  <2> QED BY <2>2 DEF ArcFine, CommitRelationship
<1>6. (\A t \in DOMAIN threads : ThreadFine(t))' /\ TitlesApart' /\ ReceiptsAreTrue' /\ LinksThere'
  BY DEF CommitRelationship, BacklogInv, ThreadFine, OpenLinked, TitlesApart,
     ReceiptsAreTrue, LinksThere
<1> QED BY <1>2, <1>3, <1>4, <1>5, <1>6 DEF BacklogInv

LEMMA DeleteRelationshipSafe ==
    ASSUME BacklogInv, NEW a \in Items, NEW b \in Items, NEW r \in Relations, DeleteRelationship(a, b, r)
    PROVE  BacklogInv'
<1>1. rels' \subseteq rels
  BY DEF DeleteRelationship
<1>2. BacklogTypes'
  BY <1>1 DEF DeleteRelationship, BacklogInv, BacklogTypes, Item
<1>3. \A u \in Sessions : Informed(sess[u])'
  BY DEF DeleteRelationship, BacklogInv, Informed, ArcFine, OpenLinked, OpenTitled
<1>4. OwnIds' /\ (\A arc \in rels : ArcFine(arc))'
  BY <1>1 DEF DeleteRelationship, BacklogInv, OwnIds, ArcFine
<1>5. (\A t \in DOMAIN threads : ThreadFine(t))' /\ TitlesApart' /\ ReceiptsAreTrue' /\ LinksThere'
  BY DEF DeleteRelationship, BacklogInv, ThreadFine, OpenLinked, TitlesApart,
     ReceiptsAreTrue, LinksThere
<1> QED BY <1>2, <1>3, <1>4, <1>5 DEF BacklogInv

LEMMA UpdateItemSafe ==
    ASSUME BacklogInv, NEW s \in Sessions, NEW ch,
           \A f \in DOMAIN ch : \/ f = "title" /\ ch[f] \in Titles
                                \/ f = "priority" /\ ch[f] \in Priorities
                                \/ f = "impact" /\ ch[f] \in Impacts,
           UpdateItem(s, ch)
    PROVE  BacklogInv'
<1>1. PICK w \in EditWork : w = sess[s] /\ w.at = "edit" /\ w.item \in DOMAIN items
  BY BacklogWorkFields DEF UpdateItem, At, BacklogInv, BacklogTypes, Informed
<1>2. PICK i \in DOMAIN items : i = w.item
  BY <1>1
<1>3. PICK clash \in BOOLEAN : clash <=> "title" \in DOMAIN ch /\ Clashes(ch.title, None)
  OBVIOUS
<1>4. PICK hidden : hidden = {f \in DOMAIN ch : ch[f] = w.seen[f] /\ items[i][f] # ch[f]}
  OBVIOUS
<1>5. \A u \in Sessions : sess'[u] = IF u = s THEN Idle ELSE sess[u]
  BY DEF UpdateItem, End, BacklogInv, BacklogTypes
<1>6. DOMAIN ch \subseteq Fields
  BY DEF Fields
<1>7. /\ Edited(items[i], w.seen, ch) \in Item
      /\ Edited(items[i], w.seen, ch).open = items[i].open
      /\ Edited(items[i], w.seen, ch).thread = items[i].thread
      /\ \A f \in Fields : Edited(items[i], w.seen, ch)[f] =
            IF f \in DOMAIN ch THEN (IF ch[f] = w.seen[f] THEN items[i][f] ELSE ch[f]) ELSE items[i][f]
  <2>1. items[i] \in Item
    BY DEF BacklogInv, BacklogTypes
  <2> QED BY <2>1 DEF Edited, WrittenField, Item, Fields
<1>8. /\ items' \in [DOMAIN items -> Item] /\ DOMAIN items' = DOMAIN items
      /\ \A j \in DOMAIN items : j # i => items'[j] = items[j]
      /\ items'[i] = Edited(items[i], w.seen, ch)
  BY <1>1, <1>2, <1>7 DEF UpdateItem, BacklogInv, BacklogTypes
<1>9. /\ told' \in [DOMAIN items -> [Fields -> Values]]
      /\ \A j \in DOMAIN items : j # i => told'[j] = told[j]
      /\ \A f \in Fields : told'[i][f] = IF f \in DOMAIN ch THEN ch[f] ELSE told[i][f]
  BY <1>1, <1>2 DEF UpdateItem, BacklogInv, BacklogTypes, Values
<1>10. /\ (excused'.title <=> excused.title \/ clash) /\ excused'.funnel = excused.funnel
       /\ excused'.done = excused.done
       /\ excused'.receipt = (excused.receipt \ ({i} \X DOMAIN ch)) \cup ({i} \X hidden)
       /\ excused' \in [title : BOOLEAN, funnel : SUBSET Threads, done : SUBSET Threads,
                        receipt : SUBSET (Items \X Fields)]
  <2>1. {i} \X hidden \subseteq Items \X Fields
    BY <1>6, <1>4 DEF BacklogInv, BacklogTypes
  <2>2. excused' = [excused EXCEPT
          !.receipt = (@ \ ({i} \X DOMAIN ch)) \cup ({i} \X hidden),
          !.title = @ \/ ("title" \in DOMAIN ch /\ Clashes(ch.title, None))]
    BY <1>1, <1>2, <1>4 DEF UpdateItem
  <2> QED BY <1>3, <2>1, <2>2 DEF BacklogInv, BacklogTypes
<1>11. \A t : OpenLinked(t)' = OpenLinked(t)
  BY <1>7, <1>8 DEF OpenLinked
<1>12. /\ items'[i].open = items[i].open
       /\ items'[i].title = items[i].title \/ ("title" \in DOMAIN ch /\ items'[i].title = ch.title)
  BY <1>7, <1>8 DEF Fields
<1>13. BacklogTypes'
  BY <1>8, <1>9, <1>10, IdleIsWork DEF UpdateItem, End, BacklogInv, BacklogTypes
<1>14. \A u \in Sessions : Informed(sess[u])'
  <2>1. Informed(Idle)'
    BY IdleIsWork DEF Informed
  <2>2. ASSUME NEW u \in Sessions, u # s
        PROVE  Informed(sess[u])'
    <3>1. Informed(sess[u]) /\ sess'[u] = sess[u] /\ threads' = threads
      BY <1>5, <2>2 DEF BacklogInv, UpdateItem
    <3>2. \A title : sess[u].at = "create" /\ sess[u].row.title = title =>
              OpenTitled(title)' = {} \/ excused'.title
      BY <1>3, <1>8, <1>10, <1>12, <2>2, <3>1, NoClash DEF Informed, OpenTitled
    <3>3. sess[u].at = "relate" => ArcFine(sess[u].arc)'
      BY <1>8, <3>1 DEF Informed, ArcFine
    <3> QED BY <1>8, <1>10, <1>11, <3>1, <3>2, <3>3 DEF Informed
  <2> QED BY <1>5, <2>1, <2>2
<1>15. \A t \in DOMAIN threads : ThreadFine(t)'
  BY <1>10, <1>11 DEF UpdateItem, BacklogInv, ThreadFine
<1>16. TitlesApart'
  <2>1. (clash /\ "title" \in DOMAIN ch) \/
          ("title" \in DOMAIN ch => \A j \in DOMAIN items : items[j].open => items[j].title # ch.title)
    BY <1>3, NoClash DEF OpenTitled
  <2> QED BY <1>8, <1>10, <1>12, <2>1 DEF BacklogInv, TitlesApart
<1>17. OwnIds'
  BY <1>5, IdleIsWork DEF BacklogInv, OwnIds
<1>18. (\A arc \in rels : ArcFine(arc))'
  BY <1>8 DEF UpdateItem, BacklogInv, ArcFine
<1>19. ReceiptsAreTrue'
  <2> SUFFICES ASSUME NEW j \in DOMAIN items, NEW f \in Fields
               PROVE  told'[j][f] = items'[j][f] \/ <<j, f>> \in excused'.receipt
    BY <1>8 DEF ReceiptsAreTrue
  <2>1. told[j][f] = items[j][f] \/ <<j, f>> \in excused.receipt
    BY DEF BacklogInv, ReceiptsAreTrue
  <2>2. CASE j # i
    BY <1>8, <1>9, <1>10, <2>1, <2>2
  <2>3. CASE j = i /\ f \notin DOMAIN ch
    BY <1>7, <1>8, <1>9, <1>10, <2>1, <2>3
  <2>4. CASE j = i /\ f \in DOMAIN ch
    BY <1>4, <1>7, <1>8, <1>9, <1>10, <2>4
  <2> QED BY <2>2, <2>3, <2>4
<1>20. LinksThere'
  BY <1>7, <1>8 DEF UpdateItem, BacklogInv, LinksThere
<1> QED BY <1>13, <1>14, <1>15, <1>16, <1>17, <1>18, <1>19, <1>20 DEF BacklogInv, UpdateItem

LEMMA BacklogInitSafe == BacklogInit => BacklogInv
<1> SUFFICES ASSUME BacklogInit PROVE BacklogInv
  OBVIOUS
<1>1. DOMAIN items = {} /\ DOMAIN threads = {} /\ DOMAIN told = {} /\ DOMAIN artifacts = {}
  BY DEF BacklogInit
<1>2. BacklogTypes
  BY IdleIsWork DEF BacklogInit, BacklogTypes
<1>3. \A s \in Sessions : Informed(sess[s]) /\ sess[s].at = "idle"
  BY IdleIsWork DEF BacklogInit
<1> QED BY <1>1, <1>2, <1>3
        DEF BacklogInit, BacklogInv, OwnIds, TitlesApart, ReceiptsAreTrue, LinksThere

LEMMA BacklogNextSafe == BacklogInv /\ [BacklogNext]_backlogVars => BacklogInv'
<1> SUFFICES ASSUME BacklogInv, [BacklogNext]_backlogVars PROVE BacklogInv'
  OBVIOUS
<1>1. CASE UNCHANGED backlogVars
  <2>1. UNCHANGED <<items, threads, artifacts, rels, told, sess, excused>>
    BY <1>1 DEF backlogVars
  <2>2. BacklogTypes' /\ OwnIds' /\ TitlesApart' /\ ReceiptsAreTrue' /\ LinksThere'
    BY <2>1 DEF BacklogInv, BacklogTypes, OwnIds, TitlesApart, ReceiptsAreTrue, LinksThere
  <2>3. (\A s \in Sessions : Informed(sess[s]))' /\ (\A arc \in rels : ArcFine(arc))'
    BY <2>1 DEF BacklogInv, Informed, ArcFine, OpenLinked, OpenTitled
  <2>4. (\A t \in DOMAIN threads : ThreadFine(t))'
    BY <2>1 DEF BacklogInv, ThreadFine, OpenLinked
  <2> QED BY <2>2, <2>3, <2>4 DEF BacklogInv
<1>2. ASSUME NEW t \in Threads,
             \/ CreateThread(t)
             \/ \E stage \in Stages : AddArtifact(t, stage)
             \/ \E i \in Items : PulsyrThreadLink(i, t)
      PROVE  BacklogInv'
  BY <1>2, CreateThreadSafe, AddArtifactSafe, ThreadLinkSafe
<1>3. ASSUME NEW s \in Sessions,
             \/ \E t \in Threads, art \in BOOLEAN : AdvanceStage(s, t, art)
             \/ \E t \in Threads, stage \in Stages : SetStage(s, t, stage)
             \/ CommitStage(s)
             \/ \E i \in Items, title \in Titles, impact \in Impacts, t \in Threads \cup {None} :
                   PulsyrCreate(s, i, title, impact, t)
             \/ CommitCreate(s)
             \/ \E i \in Items : LoadItem(s, i)
      PROVE  BacklogInv'
  BY <1>3, AdvanceSafe, SetStageSafe, CommitStageSafe, PulsyrCreateSafe, CommitCreateSafe,
     LoadItemSafe
<1>4. ASSUME NEW s \in Sessions,
             \/ \E ch \in Changes : UpdateItem(s, ch)
             \/ \E impact \in Impacts \ {None} : Enrich(s, impact)
      PROVE  BacklogInv'
  <2>1. ASSUME NEW ch \in Changes, UpdateItem(s, ch)
        PROVE  BacklogInv'
    BY <2>1, UpdateItemSafe, BacklogAssumption
  <2>2. ASSUME NEW impact \in Impacts, Enrich(s, impact)
        PROVE  BacklogInv'
    BY <2>2, UpdateItemSafe DEF Enrich
  <2> QED BY <1>4, <2>1, <2>2
<1>5. ASSUME NEW s \in Sessions,
             \/ \E a, b \in Items, r \in Relations : CreateRelationship(s, a, b, r)
             \/ CommitRelationship(s)
             \/ BacklogFail(s)
      PROVE  BacklogInv'
  BY <1>5, CreateRelationshipSafe, CommitRelationshipSafe, BacklogFailSafe
<1>6. ASSUME NEW i \in Items,
             \/ \E title \in Titles, priority \in Priorities, open \in BOOLEAN :
                   CreateItem(i, title, priority, open)
             \/ CloseItem(i)
             \/ ReopenItem(i)
      PROVE  BacklogInv'
  BY <1>6, CreateItemSafe, CloseItemSafe, ReopenItemSafe
<1>7. ASSUME NEW a \in Items, NEW b \in Items, NEW r \in Relations, DeleteRelationship(a, b, r)
      PROVE  BacklogInv'
  BY <1>7, DeleteRelationshipSafe
<1> QED BY <1>1, <1>2, <1>3, <1>4, <1>5, <1>6, <1>7 DEF BacklogNext

LEMMA BacklogInductive == BacklogSpec => []BacklogInv
BY BacklogInitSafe, BacklogNextSafe, PTL DEF BacklogSpec

-----------------------------------------------------------------------------
(* A finished thread has no open item but those the named windows let in,  *)
(* and artifacts tell the way of a thread that only ever advanced          *)
(* (threads/service.py:75-99), for any funnel and any number of sessions.  *)
THEOREM BacklogThreadsAreSound == BacklogSpec => []ThreadsAreSound
<1>1. ASSUME BacklogInv PROVE ThreadsAreSound
  <2>1. DoneUnlessReopened
    BY <1>1 DEF BacklogInv, ThreadFine, DoneUnlessReopened
  <2>2. ArtifactsTellTheWay
    BY <1>1 DEF BacklogInv, ThreadFine, ArtifactsTellTheWay, Rising, Ahead, Place
  <2> QED BY <2>1, <2>2 DEF ThreadsAreSound
<1> QED BY <1>1, BacklogInductive, PTL

(* Agents leave at most one open item of a title outside of the windows of *)
(* two calls at once (mcp/tools.py:416-427).                               *)
THEOREM BacklogOneOpenPerTitle == BacklogSpec => []OneOpenPerTitle
<1>1. ASSUME BacklogInv PROVE OneOpenPerTitle
  <2> SUFFICES ASSUME ~excused.title, NEW title \in Titles
               PROVE  Cardinality(OpenTitled(title)) <= 1
    BY DEF OneOpenPerTitle
  <2>1. \A i, j \in OpenTitled(title) : i = j
    BY <1>1 DEF BacklogInv, TitlesApart, OpenTitled
  <2>2. CASE OpenTitled(title) = {}
    BY <2>2, FS_EmptySet
  <2>3. ASSUME NEW i \in OpenTitled(title)
        PROVE  Cardinality(OpenTitled(title)) <= 1
    <3>1. OpenTitled(title) = {i}
      BY <2>1
    <3> QED BY <3>1, FS_Singleton
  <2> QED BY <2>2, <2>3
<1> QED BY <1>1, BacklogInductive, PTL

(* What the latest receipts say of an item is what it is, but for an edit  *)
(* to the value that was read (items/service.py:181-199).                  *)
THEOREM BacklogReceiptsAreTrue == BacklogSpec => []ReceiptsAreTrue
BY BacklogInductive, PTL DEF BacklogInv

(* The tables are typed, and one deletion removes a symmetric relation     *)
(* whichever way round it was created (items/relationships.py:85-116).     *)
THEOREM BacklogRelationsAreSound == BacklogSpec => []RelationsAreSound
<1>1. ASSUME BacklogInv PROVE RelationsAreSound
  <2>1. BacklogTypeOK
    <3>1. Range(items) \subseteq Item /\ Range(threads) \subseteq Stages /\ Range(artifacts) \subseteq Seq(Stages)
      BY <1>1 DEF BacklogInv, BacklogTypes, Range
    <3>2. \A s \in Sessions : sess[s].at \in {"idle", "stage", "edit", "create", "relate"}
      BY <1>1, BacklogWorkFields DEF BacklogInv, BacklogTypes
    <3>3. \A r \in rels : r.source \in DOMAIN items /\ r.target \in DOMAIN items
                          /\ r.source # r.target /\ r.relation \in Relations
      BY <1>1 DEF BacklogInv, BacklogTypes, ArcFine, ArcSet
    <3> QED BY <1>1, <3>1, <3>2, <3>3 DEF BacklogInv, BacklogTypes, BacklogTypeOK
  <2>2. OneDeletionIsEnough
    <3> SUFFICES ASSUME NEW a \in DOMAIN items, NEW b \in DOMAIN items, NEW r \in Symmetric
                 PROVE  {Arc(a, b, r), Arc(b, a, r)} \cap (rels \ Found(a, b, r)) = {}
      BY DEF OneDeletionIsEnough
    <3>1. a \in Int /\ b \in Int
      BY <1>1, BacklogAssumption DEF BacklogInv, BacklogTypes
    <3>2. Arc(a, b, r) \in rels => a < b
      BY <1>1 DEF BacklogInv, ArcFine, Arc
    <3>3. Arc(b, a, r) \in rels => b < a
      BY <1>1 DEF BacklogInv, ArcFine, Arc
    <3> QED BY <3>1, <3>2, <3>3 DEF Found
  <2> QED BY <2>1, <2>2 DEF RelationsAreSound
<1> QED BY <1>1, BacklogInductive, PTL

-----------------------------------------------------------------------------
(* There are finitely many items: each came with an action. *)
FiniteItems == IsFiniteSet(DOMAIN items)

LEMMA OneItemMore ==
    ASSUME [BacklogNext]_backlogVars
    PROVE  \E i : DOMAIN items' \subseteq DOMAIN items \cup {i}
<1>1. CASE UNCHANGED items
  BY <1>1
<1>2. ASSUME NEW i \in Items, \E t \in Threads : PulsyrThreadLink(i, t)
      PROVE  DOMAIN items' = DOMAIN items
  BY <1>2 DEF PulsyrThreadLink
<1>3. ASSUME NEW s \in Sessions, CommitCreate(s)
      PROVE  DOMAIN items' = DOMAIN items \cup {sess[s].item}
  BY <1>3 DEF CommitCreate, With
<1>4. ASSUME NEW s \in Sessions, NEW ch, UpdateItem(s, ch)
      PROVE  DOMAIN items' = DOMAIN items
  BY <1>4 DEF UpdateItem
<1>5. ASSUME NEW i \in Items,
             \E title \in Titles, priority \in Priorities, open \in BOOLEAN :
                CreateItem(i, title, priority, open)
      PROVE  DOMAIN items' = DOMAIN items \cup {i}
  BY <1>5 DEF CreateItem, With
<1>6. ASSUME NEW i \in Items, CloseItem(i) \/ ReopenItem(i)
      PROVE  DOMAIN items' = DOMAIN items
  BY <1>6 DEF CloseItem, ReopenItem
<1>7. CASE \/ \E t \in Threads : CreateThread(t) \/ \E stage \in Stages : AddArtifact(t, stage)
           \/ \E s \in Sessions :
                \/ \E t \in Threads, art \in BOOLEAN : AdvanceStage(s, t, art)
                \/ \E t \in Threads, stage \in Stages : SetStage(s, t, stage)
                \/ CommitStage(s)
                \/ \E i \in Items, title \in Titles, impact \in Impacts, t \in Threads \cup {None} :
                      PulsyrCreate(s, i, title, impact, t)
                \/ \E i \in Items : LoadItem(s, i)
                \/ \E a, b \in Items, r \in Relations : CreateRelationship(s, a, b, r)
                \/ CommitRelationship(s)
                \/ BacklogFail(s)
           \/ \E a, b \in Items, r \in Relations : DeleteRelationship(a, b, r)
  <2>1. UNCHANGED items
    BY <1>7 DEF CreateThread, AddArtifact, AdvanceStage, SetStage, CommitStage, PulsyrCreate,
                LoadItem, CreateRelationship, CommitRelationship, BacklogFail, DeleteRelationship
  <2> QED BY <2>1
<1>8. CASE UNCHANGED backlogVars
  BY <1>8 DEF backlogVars
<1>9. CASE BacklogNext
  BY <1>2, <1>3, <1>4, <1>5, <1>6, <1>7, <1>9 DEF BacklogNext, Enrich
<1> QED BY <1>8, <1>9

LEMMA ItemsFinite == BacklogSpec => []FiniteItems
<1>1. BacklogInit => FiniteItems
  <2> SUFFICES ASSUME BacklogInit PROVE FiniteItems
    OBVIOUS
  <2>1. DOMAIN items = {}
    BY DEF BacklogInit
  <2> QED BY <2>1, FS_EmptySet DEF FiniteItems
<1>2. ASSUME FiniteItems, [BacklogNext]_backlogVars PROVE FiniteItems'
  <2>1. PICK i : DOMAIN items' \subseteq DOMAIN items \cup {i}
    BY <1>2, OneItemMore
  <2>2. IsFiniteSet(DOMAIN items \cup {i})
    BY <1>2, FS_AddElement DEF FiniteItems
  <2> QED BY <2>1, <2>2, FS_Subset DEF FiniteItems
<1> QED BY <1>1, <1>2, PTL DEF BacklogSpec

(* Whatever the relations of whatever items, the order has every item      *)
(* once, keeps what a relation says unless a cycle forbids it, and reports *)
(* the items on and behind a cycle (items/graph.py:197-247).               *)
THEOREM BacklogOrderIsTopological == BacklogSpec => []OrderIsTopological
<1>1. ASSUME BacklogInv, FiniteItems PROVE OrderIsTopological
  <2> DEFINE nodes == DOMAIN items
             impact == [i \in nodes |-> IF items[i].impact = None THEN 0 ELSE items[i].impact]
             before == Before(rels, nodes)
             result == TopologicalOrder(nodes, rels, impact)
             onCycle == {n \in nodes : n \in After({n}, before, nodes)}
             pos == [n \in nodes |-> CHOOSE k \in DOMAIN result.order : result.order[k] = n]
  <2>1. nodes = DOMAIN items
    OBVIOUS
  <2>2. impact = [i \in nodes |-> IF items[i].impact = None THEN 0 ELSE items[i].impact]
    OBVIOUS
  <2>3. before = Before(rels, nodes)
    OBVIOUS
  <2>4. result = TopologicalOrder(nodes, rels, impact)
    OBVIOUS
  <2>5. pos = PlaceIn(result.order, nodes) /\ onCycle = OnCycle(before, nodes)
    BY DEF PlaceIn, OnCycle
  <2> HIDE DEF nodes, impact, before, result, onCycle, pos
  <2>6. Listed(nodes, impact)
    <3>1. nodes \subseteq Int /\ IsFiniteSet(nodes)
      BY <1>1, <2>1, BacklogAssumption DEF BacklogInv, BacklogTypes, FiniteItems
    <3>2. ASSUME NEW i \in nodes
          PROVE  impact[i] \in Int
      <4>1. items[i].impact \in Impacts
        BY <1>1, <2>1 DEF BacklogInv, BacklogTypes, Item
      <4>2. items[i].impact = None \/ items[i].impact \in 1..5
        BY <4>1, BacklogAssumption
      <4> QED BY <2>2, <4>2
    <3> QED BY <3>1, <3>2 DEF Listed
  <2>7. /\ Range(result.order) = nodes /\ Len(result.order) = Cardinality(nodes)
        /\ result.cycle = OnCycle(before, nodes) \cup After(OnCycle(before, nodes), before, nodes)
        /\ WellPlaced(PlaceIn(result.order, nodes), before, result.cycle, nodes)
    BY <2>3, <2>4, <2>6, TopologicalFacts
  <2>8. ASSUME NEW r \in rels
        PROVE  /\ r.relation = "blocks" => <<r.source, r.target>> \in before
               /\ r.relation = "requires" => <<r.target, r.source>> \in before
    <3>1. r.source \in nodes /\ r.target \in nodes
      BY <1>1, <2>1 DEF BacklogInv, ArcFine
    <3> QED BY <2>3, <3>1 DEF Before
  <2>9. /\ \A p \in before : p[2] \notin result.cycle => pos[p[1]] < pos[p[2]]
        /\ \A n \in result.cycle, m \in nodes \ result.cycle : pos[m] < pos[n]
    BY <2>7, <2>5 DEF WellPlaced
  <2>10. ASSUME NEW r \in rels
         PROVE  /\ r.relation = "blocks" /\ r.target \notin result.cycle => pos[r.source] < pos[r.target]
                /\ r.relation = "requires" /\ r.source \notin result.cycle => pos[r.target] < pos[r.source]
    <3>1. ASSUME r.relation = "blocks", r.target \notin result.cycle
          PROVE  pos[r.source] < pos[r.target]
      <4>1. <<r.source, r.target>> \in before
        BY <2>8, <3>1
      <4>2. <<r.source, r.target>>[2] \notin result.cycle
        BY <3>1
      <4>3. pos[<<r.source, r.target>>[1]] < pos[<<r.source, r.target>>[2]]
        BY <2>9, <4>1, <4>2
      <4> QED BY <4>3
    <3>2. ASSUME r.relation = "requires", r.source \notin result.cycle
          PROVE  pos[r.target] < pos[r.source]
      <4>1. <<r.target, r.source>> \in before
        BY <2>8, <3>2
      <4>2. <<r.target, r.source>>[2] \notin result.cycle
        BY <3>2
      <4>3. pos[<<r.target, r.source>>[1]] < pos[<<r.target, r.source>>[2]]
        BY <2>9, <4>1, <4>2
      <4> QED BY <4>3
    <3> QED BY <3>1, <3>2
  <2>11. /\ Range(result.order) = nodes /\ Len(result.order) = Cardinality(nodes)
         /\ result.cycle = onCycle \cup After(onCycle, before, nodes)
         /\ \A r \in rels :
              /\ r.relation = "blocks" /\ r.target \notin result.cycle => pos[r.source] < pos[r.target]
              /\ r.relation = "requires" /\ r.source \notin result.cycle => pos[r.target] < pos[r.source]
         /\ \A n \in result.cycle, m \in nodes \ result.cycle : pos[m] < pos[n]
    BY <2>7, <2>5, <2>9, <2>10
  <2> QED BY <2>11 DEF OrderIsTopological, nodes, impact, before, result, onCycle, pos
<1> QED BY <1>1, BacklogInductive, ItemsFinite, PTL
=============================================================================
