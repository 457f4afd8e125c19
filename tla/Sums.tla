-------------------------------- MODULE Sums --------------------------------
(***************************************************************************)
(* Facts about the sums of finite sets that MapThenSumSet computes: the sum *)
(* does not depend on the order in which elements are chosen, so that it    *)
(* can be taken apart at any element and compared with another term by      *)
(* term.                                                                   *)
(***************************************************************************)
EXTENDS FiniteSetsExt, FiniteSetTheorems, WellFoundedInduction, TLAPS

Some(s) == CHOOSE x \in s : TRUE

\* h is the function by which MapThenSumSet sums f over the subsets of S.
SumFn(h, f, S) ==
  h = [s \in SUBSET S |-> IF s = {} THEN 0 ELSE f[Some(s)] + h[s \ {Some(s)}]]

\* The sum of the values of f on S.
Total(f, S) == MapThenSumSet(LAMBDA x : f[x], S)

-----------------------------------------------------------------------------
(* Induction over finite sets, without a predicate for a parameter: a set   *)
(* of finite sets that is not empty has a least one.                        *)

LEMMA LeastNumber ==
  ASSUME NEW S \in SUBSET Nat, S # {}
  PROVE  \E m \in S : \A k \in S : m <= k
<1>1. PICK m \in S : \A k \in S : ~(<<k, m>> \in OpToRel(<, Nat))
  BY NatLessThanWellFounded, WFMin
<1>2. \A k \in S : ~(k < m)
  BY <1>1 DEF OpToRel
<1> QED BY <1>2

LEMMA LeastSet ==
  ASSUME NEW F, F # {}, \A s \in F : IsFiniteSet(s)
  PROVE  \E s \in F : \A t \in F : t \subseteq s => t = s
<1> DEFINE Cards == {Cardinality(s) : s \in F}
<1>1. \A s \in F : Cardinality(s) \in Nat BY FS_CardinalityType
<1>2. Cards \in SUBSET Nat /\ Cards # {} BY <1>1
<1> HIDE DEF Cards
<1>3. PICK n \in Cards : \A k \in Cards : n <= k BY <1>2, LeastNumber
<1> USE DEF Cards
<1>4. PICK s \in F : n = Cardinality(s) BY <1>3
<1>5. \A t \in F : t \subseteq s => t = s
  <2> SUFFICES ASSUME NEW t \in F, t \subseteq s PROVE t = s OBVIOUS
  <2>1. Cardinality(t) <= Cardinality(s) /\ (Cardinality(s) = Cardinality(t) => s = t)
    BY FS_Subset
  <2>2. Cardinality(s) <= Cardinality(t) BY <1>3, <1>4
  <2>3. Cardinality(s) \in Nat /\ Cardinality(t) \in Nat BY <1>1
  <2> QED BY <2>1, <2>2, <2>3
<1> QED BY <1>5

-----------------------------------------------------------------------------
(* The function that sums.                                                  *)

LEMMA SomeIs ==
  ASSUME NEW s, s # {}
  PROVE  Some(s) \in s /\ s \ {Some(s)} \subseteq s /\ s \ {Some(s)} # s
BY DEF Some

LEMMA SumFnStep ==
  ASSUME NEW S, NEW f, NEW h, SumFn(h, f, S), NEW s \in SUBSET S
  PROVE  h[s] = IF s = {} THEN 0 ELSE f[Some(s)] + h[s \ {Some(s)}]
<1> DEFINE g == [t \in SUBSET S |-> IF t = {} THEN 0 ELSE f[Some(t)] + h[t \ {Some(t)}]]
<1>1. h = g BY DEF SumFn
<1>2. g[s] = IF s = {} THEN 0 ELSE f[Some(s)] + h[s \ {Some(s)}] OBVIOUS
<1> HIDE DEF g
<1> QED BY <1>1, <1>2

\* What such functions say depends on the terms only.
LEMMA SumFnUnique ==
  ASSUME NEW S, IsFiniteSet(S), NEW T, NEW f, NEW g, NEW h, NEW k,
         SumFn(h, f, S), SumFn(k, g, T), \A x \in S \cap T : f[x] = g[x]
  PROVE  \A s \in SUBSET (S \cap T) : h[s] = k[s]
<1> DEFINE Bad == {s \in SUBSET (S \cap T) : h[s] # k[s]}
<1> SUFFICES ASSUME Bad # {} PROVE FALSE OBVIOUS
<1>1. \A s \in Bad : IsFiniteSet(s) BY FS_Subset
<1>2. PICK s \in Bad : \A t \in Bad : t \subseteq s => t = s
  <2> HIDE DEF Bad
  <2> QED BY <1>1, LeastSet
<1>3. s \in SUBSET S /\ s \in SUBSET T BY <1>2
<1>4. h[s] = IF s = {} THEN 0 ELSE f[Some(s)] + h[s \ {Some(s)}] BY <1>3, SumFnStep
<1>5. k[s] = IF s = {} THEN 0 ELSE g[Some(s)] + k[s \ {Some(s)}] BY <1>3, SumFnStep
<1>6. CASE s = {} BY <1>2, <1>4, <1>5, <1>6
<1>7. CASE s # {}
  <2>1. Some(s) \in s /\ s \ {Some(s)} # s BY <1>7, SomeIs
  <2>2. s \ {Some(s)} \notin Bad BY <1>2, <2>1
  <2>3. h[s \ {Some(s)}] = k[s \ {Some(s)}] BY <1>3, <2>2
  <2>4. f[Some(s)] = g[Some(s)] BY <1>3, <2>1
  <2> QED BY <1>2, <1>4, <1>5, <1>7, <2>3, <2>4
<1> QED BY <1>6, <1>7

LEMMA SumFnExists ==
  ASSUME NEW S, IsFiniteSet(S), NEW f
  PROVE  \E h : SumFn(h, f, S)
<1> DEFINE Bad == {s \in SUBSET S : ~\E h : SumFn(h, f, s)}
<1> SUFFICES ASSUME Bad # {} PROVE FALSE OBVIOUS
<1>1. \A s \in Bad : IsFiniteSet(s) BY FS_Subset
<1>2. PICK s \in Bad : \A t \in Bad : t \subseteq s => t = s
  <2> HIDE DEF Bad
  <2> QED BY <1>1, LeastSet
<1> DEFINE fn(t) == CHOOSE h : SumFn(h, f, t)
           val(t) == fn(t)[t]
           h == [t \in SUBSET s |-> IF t = {} THEN 0 ELSE f[Some(t)] + val(t \ {Some(t)})]
<1>3. \A t \in SUBSET s : t # s => SumFn(fn(t), f, t) BY <1>2
<1> HIDE DEF fn
<1>4. \A t \in SUBSET s : t # s =>
        val(t) = IF t = {} THEN 0 ELSE f[Some(t)] + val(t \ {Some(t)})
  <2> SUFFICES ASSUME NEW t \in SUBSET s, t # s
               PROVE  val(t) = IF t = {} THEN 0 ELSE f[Some(t)] + val(t \ {Some(t)})
    OBVIOUS
  <2>1. SumFn(fn(t), f, t) BY <1>3
  <2>2. fn(t)[t] = IF t = {} THEN 0 ELSE f[Some(t)] + fn(t)[t \ {Some(t)}]
    BY <2>1, SumFnStep
  <2>3. CASE t = {} BY <2>2, <2>3
  <2>4. CASE t # {}
    <3> DEFINE u == t \ {Some(t)}
    <3>1. u \subseteq t /\ u # t BY <2>4, SomeIs
    <3> HIDE DEF u
    <3>2. u \in SUBSET s /\ u # s BY <3>1
    <3>3. SumFn(fn(u), f, u) BY <1>3, <3>2
    <3>4. IsFiniteSet(t) BY <1>1, <1>2, FS_Subset
    <3>5. \A v \in SUBSET (t \cap u) : fn(t)[v] = fn(u)[v] BY <2>1, <3>3, <3>4, SumFnUnique
    <3>6. fn(t)[u] = val(u) BY <3>1, <3>5
    <3> QED BY <2>2, <2>4, <3>6 DEF u
  <2> QED BY <2>3, <2>4
<1> HIDE DEF val
<1>5. \A t \in SUBSET s : t # {} => h[t \ {Some(t)}] = val(t \ {Some(t)})
  <2> TAKE t \in SUBSET s
  <2> HAVE t # {}
  <2> DEFINE u == t \ {Some(t)}
  <2>1. u \subseteq t /\ u # t BY SomeIs
  <2> HIDE DEF u
  <2>2. u \in SUBSET s /\ u # s BY <2>1
  <2>3. h[u] = IF u = {} THEN 0 ELSE f[Some(u)] + val(u \ {Some(u)}) BY <2>2
  <2>4. h[u] = val(u) BY <1>4, <2>2, <2>3
  <2> QED BY <2>4 DEF u
<1>6. h = [t \in SUBSET s |-> IF t = {} THEN 0 ELSE f[Some(t)] + h[t \ {Some(t)}]]
  <2>1. \A t \in SUBSET s : h[t] = IF t = {} THEN 0 ELSE f[Some(t)] + h[t \ {Some(t)}]
    BY <1>5
  <2> QED BY <2>1
<1> HIDE DEF h
<1>7. SumFn(h, f, s) BY <1>6 DEF SumFn
<1> QED BY <1>2, <1>7


\* The sums of naturals are naturals.
LEMMA SumFnType ==
  ASSUME NEW S, IsFiniteSet(S), NEW f, NEW h, SumFn(h, f, S), \A x \in S : f[x] \in Nat
  PROVE  \A s \in SUBSET S : h[s] \in Nat
<1> DEFINE Bad == {s \in SUBSET S : h[s] \notin Nat}
<1> SUFFICES ASSUME Bad # {} PROVE FALSE OBVIOUS
<1>1. \A s \in Bad : IsFiniteSet(s) BY FS_Subset
<1>2. PICK s \in Bad : \A t \in Bad : t \subseteq s => t = s
  <2> HIDE DEF Bad
  <2> QED BY <1>1, LeastSet
<1>3. s \in SUBSET S /\ h[s] \notin Nat
      /\ \A t \in SUBSET S : t \subseteq s /\ t # s => h[t] \in Nat
  BY <1>2
<1> HIDE DEF Bad
<1>4. h[s] = IF s = {} THEN 0 ELSE f[Some(s)] + h[s \ {Some(s)}] BY <1>3, SumFnStep
<1>5. s # {} BY <1>3, <1>4
<1>6. Some(s) \in s /\ s \ {Some(s)} \subseteq s /\ s \ {Some(s)} # s BY <1>5, SomeIs
<1>7. h[s \ {Some(s)}] \in Nat /\ f[Some(s)] \in Nat BY <1>3, <1>6
<1> QED BY <1>3, <1>4, <1>5, <1>7

\* A sum can be taken apart at any element.
LEMMA SumFnAt ==
  ASSUME NEW S, IsFiniteSet(S), NEW f, NEW h, SumFn(h, f, S), \A x \in S : f[x] \in Nat,
         NEW u \in SUBSET S, NEW z \in u
  PROVE  h[u] = f[z] + h[u \ {z}]
<1> DEFINE Bad == {s \in SUBSET S : \E x \in s : h[s] # f[x] + h[s \ {x}]}
<1> SUFFICES ASSUME Bad # {} PROVE FALSE OBVIOUS
<1>1. \A s \in Bad : IsFiniteSet(s) BY FS_Subset
<1>2. PICK s \in Bad : \A t \in Bad : t \subseteq s => t = s
  <2> HIDE DEF Bad
  <2> QED BY <1>1, LeastSet
<1>3. s \in SUBSET S /\ \E x \in s : h[s] # f[x] + h[s \ {x}] BY <1>2
<1>4. PICK x \in s : h[s] # f[x] + h[s \ {x}] BY <1>3
<1> DEFINE y == Some(s)
           rest == s \ {x, y}
<1>5. y \in s /\ h[s] = f[y] + h[s \ {y}]
  <2>1. s # {} BY <1>4
  <2> HIDE DEF Bad
  <2>2. h[s] = IF s = {} THEN 0 ELSE f[Some(s)] + h[s \ {Some(s)}] BY <1>3, SumFnStep
  <2> QED BY <2>1, <2>2, SomeIs
<1> HIDE DEF y
<1>6. x # y BY <1>4, <1>5
<1>7. /\ s \ {y} \in SUBSET S /\ s \ {y} \subseteq s /\ s \ {y} # s /\ x \in s \ {y}
      /\ s \ {x} \in SUBSET S /\ s \ {x} \subseteq s /\ s \ {x} # s /\ y \in s \ {x}
      /\ (s \ {y}) \ {x} = rest /\ (s \ {x}) \ {y} = rest /\ rest \in SUBSET S
  BY <1>3, <1>4, <1>5, <1>6
<1>8. h[s \ {y}] = f[x] + h[rest]
  <2>1. s \ {y} \notin Bad BY <1>2, <1>7
  <2>2. \A a \in s \ {y} : h[s \ {y}] = f[a] + h[(s \ {y}) \ {a}] BY <1>7, <2>1
  <2>3. h[s \ {y}] = f[x] + h[(s \ {y}) \ {x}] BY <1>7, <2>2
  <2> QED BY <1>7, <2>3
<1>9. h[s \ {x}] = f[y] + h[rest]
  <2>1. s \ {x} \notin Bad BY <1>2, <1>7
  <2>2. \A a \in s \ {x} : h[s \ {x}] = f[a] + h[(s \ {x}) \ {a}] BY <1>7, <2>1
  <2>3. h[s \ {x}] = f[y] + h[(s \ {x}) \ {y}] BY <1>7, <2>2
  <2> QED BY <1>7, <2>3
<1>10. f[x] \in Nat /\ f[y] \in Nat /\ h[rest] \in Nat
  BY <1>3, <1>4, <1>5, <1>7, SumFnType
<1> HIDE DEF rest
<1>11. h[s] = f[x] + h[s \ {x}] BY <1>5, <1>8, <1>9, <1>10
<1> QED BY <1>4, <1>11

-----------------------------------------------------------------------------
(* The sum.                                                                 *)

LEMMA TotalIs ==
  ASSUME NEW S, IsFiniteSet(S), NEW f
  PROVE  \E h : SumFn(h, f, S) /\ Total(f, S) = h[S]
<1> DEFINE Is(g) == g = [s \in SUBSET S |-> IF s = {} THEN 0
                          ELSE f[CHOOSE x \in s : TRUE] + g[s \ {CHOOSE x \in s : TRUE}]]
           h == CHOOSE g : Is(g)
<1>1. Total(f, S) = h[S] BY Zenon DEF Total, MapThenSumSet, MapThenFoldSet
<1>2. \A g : Is(g) <=> SumFn(g, f, S) BY Zenon DEF SumFn, Some
<1> HIDE DEF Is
<1>3. \E g : Is(g)
  <2>1. PICK k : SumFn(k, f, S) BY SumFnExists
  <2> QED BY <1>2, <2>1
<1>4. Is(h) BY <1>3
<1> HIDE DEF h
<1> QED BY <1>1, <1>2, <1>4

LEMMA TotalOn ==
  ASSUME NEW S, IsFiniteSet(S), NEW f, NEW g, NEW h, SumFn(h, f, S), NEW T \in SUBSET S,
         \A x \in T : g[x] = f[x]
  PROVE  Total(g, T) = h[T]
<1>1. IsFiniteSet(T) BY FS_Subset
<1>2. PICK k : SumFn(k, g, T) /\ Total(g, T) = k[T] BY <1>1, TotalIs
<1>3. \A s \in SUBSET (T \cap S) : k[s] = h[s] BY <1>1, <1>2, SumFnUnique
<1>4. T \in SUBSET (T \cap S) OBVIOUS
<1> QED BY <1>2, <1>3, <1>4

LEMMA TotalEmpty == \A f : Total(f, {}) = 0
<1> TAKE f
<1>1. IsFiniteSet({}) BY FS_EmptySet
<1>2. PICK h : SumFn(h, f, {}) /\ Total(f, {}) = h[{}] BY <1>1, TotalIs
<1>3. h[{}] = 0 BY <1>2, SumFnStep
<1> QED BY <1>2, <1>3

LEMMA TotalType ==
  ASSUME NEW S, IsFiniteSet(S), NEW f, \A x \in S : f[x] \in Nat
  PROVE  Total(f, S) \in Nat
<1>1. PICK h : SumFn(h, f, S) /\ Total(f, S) = h[S] BY TotalIs
<1> QED BY <1>1, SumFnType

LEMMA TotalSame ==
  ASSUME NEW S, IsFiniteSet(S), NEW f, NEW g, \A x \in S : f[x] = g[x]
  PROVE  Total(f, S) = Total(g, S)
<1>1. PICK h : SumFn(h, g, S) /\ Total(g, S) = h[S] BY TotalIs
<1>2. Total(f, S) = h[S] BY <1>1, TotalOn
<1> QED BY <1>1, <1>2

\* An element counts once.
LEMMA TotalAt ==
  ASSUME NEW S, IsFiniteSet(S), NEW f, \A y \in S : f[y] \in Nat, NEW x \in S
  PROVE  Total(f, S) = f[x] + Total(f, S \ {x})
<1>1. PICK h : SumFn(h, f, S) /\ Total(f, S) = h[S] BY TotalIs
<1>2. S \in SUBSET S OBVIOUS
<1>3. h[S] = f[x] + h[S \ {x}] BY <1>1, <1>2, SumFnAt
<1>4. Total(f, S \ {x}) = h[S \ {x}] BY <1>1, TotalOn
<1> QED BY <1>1, <1>3, <1>4

LEMMA TotalAdded ==
  ASSUME NEW S, IsFiniteSet(S), NEW f, NEW x, x \notin S, \A y \in S \cup {x} : f[y] \in Nat
  PROVE  Total(f, S \cup {x}) = f[x] + Total(f, S)
<1> DEFINE T == S \cup {x}
<1>1. IsFiniteSet(T) BY FS_AddElement
<1>2. x \in T /\ T \ {x} = S OBVIOUS
<1>3. \A y \in T : f[y] \in Nat OBVIOUS
<1> HIDE DEF T
<1>4. Total(f, T) = f[x] + Total(f, S) BY <1>1, <1>2, <1>3, TotalAt
<1> QED BY <1>4 DEF T

\* A sum does not change when its terms are given other names.
LEMMA TotalImage ==
  ASSUME NEW S, IsFiniteSet(S), NEW f, NEW g, NEW h,
         \A x \in S : f[x] \in Nat /\ g[h[x]] = f[x],
         \A x, y \in S : h[x] = h[y] => x = y
  PROVE  IsFiniteSet({h[x] : x \in S}) /\ Total(g, {h[x] : x \in S}) = Total(f, S)
<1> DEFINE Im(s) == {h[x] : x \in s}
           Bad == {s \in SUBSET S : ~(IsFiniteSet(Im(s)) /\ Total(g, Im(s)) = Total(f, s))}
<1> SUFFICES ASSUME Bad # {} PROVE FALSE
  <2>1. S \notin Bad => IsFiniteSet(Im(S)) /\ Total(g, Im(S)) = Total(f, S) OBVIOUS
  <2> QED BY <2>1
<1>1. \A s \in Bad : IsFiniteSet(s) BY FS_Subset
<1>2. PICK s \in Bad : \A t \in Bad : t \subseteq s => t = s
  <2> HIDE DEF Bad
  <2> QED BY <1>1, LeastSet
<1>3. s \in SUBSET S /\ IsFiniteSet(s) /\ ~(IsFiniteSet(Im(s)) /\ Total(g, Im(s)) = Total(f, s))
  BY <1>1, <1>2
<1>4. s # {}
  <2> SUFFICES ASSUME s = {} PROVE FALSE OBVIOUS
  <2>1. Im(s) = {} OBVIOUS
  <2> QED BY <1>3, <2>1, TotalEmpty, FS_EmptySet
<1>5. PICK x \in s : TRUE BY <1>4
<1> DEFINE t == s \ {x}
<1>6. t \in SUBSET S /\ t \subseteq s /\ t # s BY <1>3, <1>5
<1>7. IsFiniteSet(Im(t)) /\ Total(g, Im(t)) = Total(f, t) BY <1>2, <1>6
<1>8. h[x] \notin Im(t) /\ Im(s) = Im(t) \cup {h[x]} BY <1>3, <1>5
<1>9. Total(f, s) = f[x] + Total(f, t) BY <1>3, <1>5, TotalAt
<1>10. \A y \in Im(t) \cup {h[x]} : g[y] \in Nat BY <1>3, <1>5
<1>11. g[h[x]] = f[x] BY <1>3, <1>5
<1> HIDE DEF Im, t
<1>12. IsFiniteSet(Im(s)) BY <1>7, <1>8, FS_AddElement
<1>13. Total(g, Im(s)) = g[h[x]] + Total(g, Im(t)) BY <1>7, <1>8, <1>10, TotalAdded
<1> QED BY <1>3, <1>7, <1>9, <1>11, <1>12, <1>13

\* Nothing is added when only the terms of one element grow less.
LEMMA TotalLe ==
  ASSUME NEW S, IsFiniteSet(S), NEW f, NEW g,
         \A x \in S : f[x] \in Nat /\ g[x] \in Nat /\ f[x] <= g[x]
  PROVE  Total(f, S) <= Total(g, S)
<1> DEFINE Bad == {s \in SUBSET S : ~(Total(f, s) <= Total(g, s))}
<1> SUFFICES ASSUME Bad # {} PROVE FALSE
  <2>1. S \notin Bad => Total(f, S) <= Total(g, S) OBVIOUS
  <2> QED BY <2>1
<1>1. \A s \in Bad : IsFiniteSet(s) BY FS_Subset
<1>2. PICK s \in Bad : \A t \in Bad : t \subseteq s => t = s
  <2> HIDE DEF Bad
  <2> QED BY <1>1, LeastSet
<1>3. s \in SUBSET S /\ IsFiniteSet(s) /\ ~(Total(f, s) <= Total(g, s)) BY <1>1, <1>2
<1>4. s # {} BY <1>3, TotalEmpty
<1>5. PICK x \in s : TRUE BY <1>4
<1> DEFINE t == s \ {x}
<1>6. t \in SUBSET S /\ t \subseteq s /\ t # s BY <1>3, <1>5
<1>7. Total(f, s) = f[x] + Total(f, t) BY <1>3, <1>5, TotalAt
<1>8. Total(g, s) = g[x] + Total(g, t) BY <1>3, <1>5, TotalAt
<1>9. IsFiniteSet(t) BY <1>6, FS_Subset
<1> HIDE DEF t
<1>10. Total(f, t) <= Total(g, t) BY <1>2, <1>6
<1>11. Total(f, t) \in Nat /\ Total(g, t) \in Nat BY <1>6, <1>9, TotalType
<1>12. f[x] \in Nat /\ g[x] \in Nat /\ f[x] <= g[x] BY <1>3, <1>5
<1> QED BY <1>3, <1>7, <1>8, <1>10, <1>11, <1>12


\* Part of a set of naturals adds up to no more, by at least what is left out.
LEMMA TotalPart ==
  ASSUME NEW S, IsFiniteSet(S), NEW f, \A x \in S : f[x] \in Nat, NEW T \in SUBSET S
  PROVE  Total(f, T) <= Total(f, S)
<1> DEFINE Bad == {s \in SUBSET S : T \subseteq s /\ ~(Total(f, T) <= Total(f, s))}
<1> SUFFICES ASSUME Bad # {} PROVE FALSE
  <2>1. S \notin Bad => Total(f, T) <= Total(f, S) OBVIOUS
  <2> QED BY <2>1
<1>1. \A s \in Bad : IsFiniteSet(s) BY FS_Subset
<1>2. PICK s \in Bad : \A t \in Bad : t \subseteq s => t = s
  <2> HIDE DEF Bad
  <2> QED BY <1>1, LeastSet
<1>3. s \in SUBSET S /\ T \subseteq s /\ IsFiniteSet(s) /\ ~(Total(f, T) <= Total(f, s))
  BY <1>1, <1>2
<1>4. Total(f, T) \in Nat /\ \A t \in SUBSET S : Total(f, t) \in Nat
  <2> SUFFICES ASSUME NEW t \in SUBSET S PROVE Total(f, t) \in Nat OBVIOUS
  <2>1. IsFiniteSet(t) BY FS_Subset
  <2> QED BY <2>1, TotalType
<1>5. s # T BY <1>3, <1>4
<1>6. PICK x \in s : x \notin T BY <1>3, <1>5
<1> DEFINE t == s \ {x}
<1>7. t \in SUBSET S /\ T \subseteq t /\ t \subseteq s /\ t # s BY <1>3, <1>6
<1>8. Total(f, s) = f[x] + Total(f, t) BY <1>3, <1>6, TotalAt
<1> HIDE DEF t
<1>9. Total(f, T) <= Total(f, t) BY <1>2, <1>7
<1>10. f[x] \in Nat BY <1>3, <1>6
<1> QED BY <1>3, <1>4, <1>7, <1>8, <1>9, <1>10

LEMMA TotalWithout ==
  ASSUME NEW S, IsFiniteSet(S), NEW f, \A y \in S : f[y] \in Nat, NEW x \in S,
         NEW T \in SUBSET (S \ {x})
  PROVE  Total(f, T) + f[x] <= Total(f, S)
<1> DEFINE R == S \ {x}
<1>1. IsFiniteSet(R) /\ (\A y \in R : f[y] \in Nat) /\ T \in SUBSET R
  BY FS_RemoveElement
<1>2. Total(f, S) = f[x] + Total(f, R) BY TotalAt
<1> HIDE DEF R
<1>3. Total(f, T) <= Total(f, R) BY <1>1, TotalPart
<1>4. IsFiniteSet(T) /\ \A y \in T : f[y] \in Nat BY <1>1, FS_Subset
<1>5. Total(f, T) \in Nat /\ Total(f, R) \in Nat /\ f[x] \in Nat BY <1>1, <1>4, TotalType
<1> QED BY <1>2, <1>3, <1>5

=============================================================================
