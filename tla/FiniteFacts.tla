----------------------------- MODULE FiniteFacts -----------------------------
(* Facts about sums over finite sets, which the books are full of, and about *)
(* their orders, on which the chains rest: a sum is that of its elements in  *)
(* any order, and what follows from it; a set can be sorted. The sum is a    *)
(* recursion over the subsets of the set; a smallest counterexample takes    *)
(* the place of induction.                                                   *)
EXTENDS FiniteSetsExt, FiniteSetTheorems, WellFoundedInduction, TLAPS

SumOver(f, S) == MapThenSumSet(LAMBDA x : f[x], S)

LEMMA LeastOf ==
  ASSUME NEW T, T \subseteq Nat, T # {}
  PROVE  \E t \in T : \A x \in T : t <= x
<1>1. PICK t \in T : \A x \in T : ~(<<x, t>> \in OpToRel(<, Nat))
  BY NatLessThanWellFounded, WFMin
<1>2. \A x \in T : ~(x < t)
  BY <1>1 DEF OpToRel
<1> QED
  BY <1>2

Some(s) == CHOOSE x \in s : TRUE

(* g takes the elements of every subset in the order of their choice.        *)
SumsInOrder(g, f, S) ==
    g = [s \in SUBSET S |-> IF s = {} THEN 0 ELSE f[Some(s)] + g[s \ {Some(s)}]]

LEMMA SumUnfolds ==
  ASSUME NEW f, NEW S, \E g : SumsInOrder(g, f, S)
  PROVE  \E g : SumsInOrder(g, f, S) /\ SumOver(f, S) = g[S]
<1> DEFINE h == CHOOSE g : SumsInOrder(g, f, S)
<1>1. SumsInOrder(h, f, S)
  OBVIOUS
<1>2. SumOver(f, S) = h[S]
  BY DEF SumOver, MapThenSumSet, MapThenFoldSet, SumsInOrder, Some
<1> QED
  BY <1>1, <1>2

LEMMA SmallerSubset ==
  ASSUME NEW S, IsFiniteSet(S), NEW s \in SUBSET S, NEW x \in s
  PROVE  /\ Cardinality(s) \in Nat \ {0} /\ s \ {x} \in SUBSET S
         /\ Cardinality(s \ {x}) = Cardinality(s) - 1
<1>1. IsFiniteSet(s) /\ Cardinality(s) \in Nat
  BY FS_Subset, FS_CardinalityType
<1>2. Cardinality(s \ {x}) = Cardinality(s) - 1 /\ IsFiniteSet(s \ {x})
  BY <1>1, FS_RemoveElement
<1>3. Cardinality(s \ {x}) \in Nat
  BY <1>2, FS_CardinalityType
<1> QED
  BY <1>1, <1>2, <1>3

(* A counterexample among the subsets gives a smallest one.                  *)
LEMMA LeastSubset ==
  ASSUME NEW S, IsFiniteSet(S), NEW B \in SUBSET (SUBSET S), B # {}
  PROVE  \E s \in B : \A t \in B : Cardinality(s) <= Cardinality(t)
<1> DEFINE C == {Cardinality(s) : s \in B}
<1>1. \A s \in B : Cardinality(s) \in Nat
  BY FS_Subset, FS_CardinalityType
<1>2. C \subseteq Nat /\ C # {}
  BY <1>1
<1> HIDE DEF C
<1>3. PICK n \in C : \A m \in C : n <= m
  BY <1>2, LeastOf
<1> QED
  BY <1>3 DEF C

(* Up to each number of elements there is a sum, hence for the set.          *)
SumsUpTo(n, g, f, S) ==
    /\ g \in [{s \in SUBSET S : Cardinality(s) <= n} -> Int]
    /\ \A s \in SUBSET S : Cardinality(s) <= n =>
         g[s] = IF s = {} THEN 0 ELSE f[Some(s)] + g[s \ {Some(s)}]

LEMMA SumsUpToExist ==
  ASSUME NEW S, IsFiniteSet(S), NEW f, \A x \in S : f[x] \in Int
  PROVE  \A n \in Nat : \E g : SumsUpTo(n, g, f, S)
<1> DEFINE T == {n \in Nat : ~\E g : SumsUpTo(n, g, f, S)}
<1>1. SUFFICES ASSUME T # {} PROVE FALSE
  OBVIOUS
<1>2. PICK n \in T : \A m \in T : n <= m
  BY <1>1, LeastOf
<1>3. \A s \in SUBSET S : /\ IsFiniteSet(s) /\ Cardinality(s) \in Nat
                          /\ s # {} => Some(s) \in s
  BY FS_Subset, FS_CardinalityType DEF Some
<1>4. CASE n = 0
  <2> DEFINE g == [s \in {s \in SUBSET S : Cardinality(s) <= 0} |-> 0]
  <2>1. \A s \in SUBSET S : Cardinality(s) <= 0 => s = {}
    BY <1>3, FS_EmptySet
  <2>2. SumsUpTo(0, g, f, S)
    BY <2>1 DEF SumsUpTo
  <2> QED
    BY <1>2, <1>4, <2>2
<1>5. CASE n # 0
  <2>1. n - 1 \in Nat /\ n - 1 \notin T
    BY <1>2, <1>5
  <2>2. PICK g : SumsUpTo(n - 1, g, f, S)
    BY <2>1
  <2> DEFINE Small == {s \in SUBSET S : Cardinality(s) <= n}
             h == [s \in Small |-> IF s = {} THEN 0 ELSE f[Some(s)] + g[s \ {Some(s)}]]
  <2>3. \A s \in SUBSET S : Cardinality(s) <= n /\ s # {} =>
           /\ s \ {Some(s)} \in SUBSET S /\ Cardinality(s \ {Some(s)}) <= n - 1
           /\ g[s \ {Some(s)}] \in Int /\ f[Some(s)] \in Int
    <3> SUFFICES ASSUME NEW s \in SUBSET S, Cardinality(s) <= n, s # {}
                 PROVE  /\ s \ {Some(s)} \in SUBSET S /\ Cardinality(s \ {Some(s)}) <= n - 1
                        /\ g[s \ {Some(s)}] \in Int /\ f[Some(s)] \in Int
      OBVIOUS
    <3>1. Some(s) \in s
      BY <1>3
    <3>2. Cardinality(s \ {Some(s)}) = Cardinality(s) - 1 /\ s \ {Some(s)} \in SUBSET S
      BY <3>1, SmallerSubset
    <3>3. Cardinality(s \ {Some(s)}) <= n - 1
      BY <1>3, <2>1, <3>2
    <3> QED
      BY <2>2, <3>1, <3>2, <3>3 DEF SumsUpTo
  <2>4. h \in [Small -> Int]
    <3>1. \A s \in Small : (IF s = {} THEN 0 ELSE f[Some(s)] + g[s \ {Some(s)}]) \in Int
      <4> SUFFICES ASSUME NEW s \in Small
                   PROVE  (IF s = {} THEN 0 ELSE f[Some(s)] + g[s \ {Some(s)}]) \in Int
        OBVIOUS
      <4>1. CASE s = {}
        BY <4>1
      <4>2. CASE s # {}
        <5>1. g[s \ {Some(s)}] \in Int /\ f[Some(s)] \in Int
          BY <2>3, <4>2
        <5> QED
          BY <4>2, <5>1
      <4> QED
        BY <4>1, <4>2
    <3> QED
      BY <3>1
  <2>5. \A s \in SUBSET S : Cardinality(s) <= n - 1 => h[s] = g[s]
    BY <1>3, <2>1, <2>2 DEF SumsUpTo
  <2>6. SumsUpTo(n, h, f, S)
    <3>1. ASSUME NEW s \in SUBSET S, Cardinality(s) <= n
          PROVE  h[s] = IF s = {} THEN 0 ELSE f[Some(s)] + h[s \ {Some(s)}]
      BY <2>3, <2>5, <3>1
    <3> HIDE DEF h
    <3> QED
      BY <2>4, <3>1 DEF SumsUpTo
  <2> QED
    BY <1>2, <2>6
<1> QED
  BY <1>4, <1>5

(* What is needed of a sum: whichever element is taken first.                *)
IsSum(g, f, S) ==
    /\ g \in [SUBSET S -> Int] /\ g[{}] = 0
    /\ \A s \in SUBSET S : \A x \in s : g[s] = f[x] + g[s \ {x}]

LEMMA SumExists ==
  ASSUME NEW S, IsFiniteSet(S), NEW f, \A x \in S : f[x] \in Int
  PROVE  \E g : IsSum(g, f, S) /\ SumOver(f, S) = g[S]
<1>1. \A s \in SUBSET S : /\ IsFiniteSet(s) /\ Cardinality(s) \in Nat
                          /\ Cardinality(s) <= Cardinality(S)
                          /\ s # {} => Some(s) \in s
  BY FS_Subset, FS_CardinalityType DEF Some
<1>2. Cardinality(S) \in Nat
  BY FS_CardinalityType
<1>3. PICK k : SumsUpTo(Cardinality(S), k, f, S)
  BY <1>2, SumsUpToExist
<1>4. {s \in SUBSET S : Cardinality(s) <= Cardinality(S)} = SUBSET S
  BY <1>1
<1>5. /\ k \in [SUBSET S -> Int]
      /\ \A s \in SUBSET S : k[s] = IF s = {} THEN 0 ELSE f[Some(s)] + k[s \ {Some(s)}]
  BY <1>1, <1>3, <1>4 DEF SumsUpTo
<1>6. SumsInOrder(k, f, S)
  BY <1>5 DEF SumsInOrder
<1>7. PICK g : SumsInOrder(g, f, S) /\ SumOver(f, S) = g[S]
  BY <1>6, SumUnfolds
<1>8. \A s \in SUBSET S : g[s] = IF s = {} THEN 0 ELSE f[Some(s)] + g[s \ {Some(s)}]
  BY <1>7 DEF SumsInOrder
<1>9. g \in [SUBSET S -> Int]
  <2>1. DOMAIN g = SUBSET S /\ g = [s \in DOMAIN g |-> g[s]]
    BY <1>7 DEF SumsInOrder
  <2> DEFINE Bad == {s \in SUBSET S : g[s] \notin Int}
  <2>2. ASSUME Bad # {} PROVE FALSE
    <3>1. PICK s \in Bad : \A t \in Bad : Cardinality(s) <= Cardinality(t)
      BY <2>2, LeastSubset
    <3>2. s # {} /\ Some(s) \in s
      BY <1>1, <1>8
    <3>3. s \ {Some(s)} \in SUBSET S /\ Cardinality(s \ {Some(s)}) < Cardinality(s)
      BY <1>1, <3>2, SmallerSubset
    <3>4. g[s \ {Some(s)}] \in Int /\ f[Some(s)] \in Int
      BY <1>1, <3>1, <3>2, <3>3
    <3>5. s \in SUBSET S /\ g[s] = f[Some(s)] + g[s \ {Some(s)}]
      BY <1>8, <3>1, <3>2
    <3>6. g[s] \in Int
      BY <3>4, <3>5
    <3> QED
      BY <3>1, <3>6
  <2> QED
    BY <2>1, <2>2
<1>10. ASSUME NEW s \in SUBSET S, NEW x \in s
       PROVE  g[s] = f[x] + g[s \ {x}]
  <2> DEFINE Bad == {t \in SUBSET S : \E y \in t : g[t] # f[y] + g[t \ {y}]}
  <2>1. ASSUME Bad # {} PROVE FALSE
    <3>1. PICK t \in Bad : \A u \in Bad : Cardinality(t) <= Cardinality(u)
      BY <2>1, LeastSubset
    <3>2. PICK y \in t : g[t] # f[y] + g[t \ {y}]
      BY <3>1
    <3> DEFINE c == Some(t)
    <3>3. c \in t /\ g[t] = f[c] + g[t \ {c}]
      BY <1>1, <1>8, <3>2
    <3>4. y # c
      BY <3>2, <3>3
    <3> HIDE DEF c
    <3>5. \A z \in t : t \ {z} \in SUBSET S /\ t \ {z} \notin Bad
      <4> SUFFICES ASSUME NEW z \in t PROVE t \ {z} \in SUBSET S /\ t \ {z} \notin Bad
        OBVIOUS
      <4>1. t \ {z} \in SUBSET S /\ Cardinality(t \ {z}) < Cardinality(t)
        BY <1>1, SmallerSubset
      <4>2. Cardinality(t \ {z}) \in Nat /\ Cardinality(t) \in Nat
        BY <1>1, <4>1
      <4>3. t \ {z} \notin Bad
        BY <3>1, <4>1, <4>2
      <4> QED
        BY <4>1, <4>3
    <3>6. \A z, w \in t : z # w => g[t \ {z}] = f[w] + g[(t \ {z}) \ {w}]
      BY <3>5
    <3>7. /\ g[t \ {c}] = f[y] + g[(t \ {c}) \ {y}]
          /\ g[t \ {y}] = f[c] + g[(t \ {y}) \ {c}]
      BY <3>2, <3>3, <3>4, <3>6
    <3>8. (t \ {c}) \ {y} = (t \ {y}) \ {c} /\ (t \ {c}) \ {y} \in SUBSET S
      OBVIOUS
    <3> DEFINE rest == g[(t \ {c}) \ {y}]
    <3>9. f[y] \in Int /\ f[c] \in Int /\ rest \in Int
      BY <1>9, <3>3, <3>8
    <3>10. g[t] = f[c] + (f[y] + rest) /\ g[t \ {y}] = f[c] + rest
      BY <3>3, <3>7, <3>8
    <3> HIDE DEF rest
    <3> QED
      BY <3>2, <3>9, <3>10
  <2> QED
    BY <2>1
<1> QED
  BY <1>7, <1>8, <1>9, <1>10 DEF IsSum

(* Two sums added give the sum of the elements added, on any subset.         *)
LEMMA SumsAdd ==
  ASSUME NEW S, IsFiniteSet(S), NEW g, NEW f, IsSum(g, f, S),
         NEW T, NEW h, NEW k, IsSum(h, k, T), NEW U, NEW j, NEW l, IsSum(j, l, U),
         NEW D, D \subseteq S, D \subseteq T, D \subseteq U,
         \A x \in D : f[x] = k[x] + l[x] /\ k[x] \in Int /\ l[x] \in Int
  PROVE  g[D] = h[D] + j[D]
<1> DEFINE Bad == {s \in SUBSET D : g[s] # h[s] + j[s]}
<1>1. IsFiniteSet(D)
  BY FS_Subset
<1>2. SUFFICES ASSUME Bad # {} PROVE FALSE
  OBVIOUS
<1>3. PICK s \in Bad : \A t \in Bad : Cardinality(s) <= Cardinality(t)
  BY <1>1, <1>2, LeastSubset
<1>4. s # {}
  <2>1. g[{}] = 0 /\ h[{}] = 0 /\ j[{}] = 0
    BY DEF IsSum
  <2>2. g[{}] = h[{}] + j[{}]
    BY <2>1
  <2> QED
    BY <1>3, <2>2
<1>5. PICK x \in s : TRUE
  BY <1>4
<1>6. s \ {x} \in SUBSET D /\ Cardinality(s \ {x}) < Cardinality(s)
      /\ Cardinality(s \ {x}) \in Nat /\ Cardinality(s) \in Nat
  BY <1>1, <1>3, SmallerSubset
<1>7. g[s \ {x}] = h[s \ {x}] + j[s \ {x}]
  BY <1>3, <1>6
<1> DEFINE hr == h[s \ {x}]
           jr == j[s \ {x}]
<1>8. hr \in Int /\ jr \in Int /\ k[x] \in Int /\ l[x] \in Int
  BY <1>3, <1>6 DEF IsSum
<1>9. /\ g[s] = (k[x] + l[x]) + (hr + jr)
      /\ h[s] = k[x] + hr /\ j[s] = l[x] + jr
  <2>1. s \in SUBSET S /\ s \in SUBSET T /\ s \in SUBSET U /\ x \in D
    BY <1>3
  <2>2. g[s] = f[x] + g[s \ {x}] /\ h[s] = k[x] + hr /\ j[s] = l[x] + jr
    BY <2>1 DEF IsSum
  <2> QED
    BY <1>7, <2>1, <2>2
<1> HIDE DEF hr, jr
<1> QED
  BY <1>3, <1>8, <1>9

LEMMA SumType ==
  ASSUME NEW S, IsFiniteSet(S), NEW f, \A x \in S : f[x] \in Int
  PROVE  SumOver(f, S) \in Int
<1>1. PICK g : IsSum(g, f, S) /\ SumOver(f, S) = g[S]
  BY SumExists
<1> QED
  BY <1>1 DEF IsSum

LEMMA SumAdd ==
  ASSUME NEW S, IsFiniteSet(S), NEW f, NEW k, NEW l,
         \A x \in S : f[x] = k[x] + l[x] /\ k[x] \in Int /\ l[x] \in Int
  PROVE  SumOver(f, S) = SumOver(k, S) + SumOver(l, S)
<1>1. PICK g : IsSum(g, f, S) /\ SumOver(f, S) = g[S]
  BY SumExists
<1>2. PICK h : IsSum(h, k, S) /\ SumOver(k, S) = h[S]
  BY SumExists
<1>3. PICK j : IsSum(j, l, S) /\ SumOver(l, S) = j[S]
  BY SumExists
<1> QED
  BY <1>1, <1>2, <1>3, SumsAdd

LEMMA SumZero ==
  ASSUME NEW S, IsFiniteSet(S), NEW f, \A x \in S : f[x] = 0
  PROVE  SumOver(f, S) = 0
<1>1. \A x \in S : f[x] = f[x] + f[x] /\ f[x] \in Int
  OBVIOUS
<1> DEFINE sum == SumOver(f, S)
<1>2. sum \in Int
  BY <1>1, SumType
<1>3. sum = sum + sum
  BY <1>1, SumAdd
<1> HIDE DEF sum
<1>4. sum = 0
  BY <1>2, <1>3
<1> QED
  BY <1>4 DEF sum

(* The same elements, perhaps of a function on a larger set.                 *)
LEMMA SumSame ==
  ASSUME NEW S, IsFiniteSet(S), NEW f, NEW k, \A x \in S : f[x] = k[x] /\ k[x] \in Int
  PROVE  SumOver(f, S) = SumOver(k, S)
<1> DEFINE z == [x \in S |-> 0]
<1>1. SumOver(f, S) = SumOver(k, S) + SumOver(z, S)
  <2>1. \A x \in S : f[x] = k[x] + z[x] /\ k[x] \in Int /\ z[x] \in Int
    OBVIOUS
  <2> HIDE DEF z
  <2> QED
    BY <2>1, SumAdd
<1>2. SumOver(z, S) = 0
  BY SumZero
<1> HIDE DEF z
<1> QED
  BY <1>1, <1>2, SumType

LEMMA SumRemove ==
  ASSUME NEW S, IsFiniteSet(S), NEW f, \A x \in S : f[x] \in Int, NEW e \in S
  PROVE  SumOver(f, S) = f[e] + SumOver(f, S \ {e})
<1> DEFINE z == [x \in S |-> 0]
           R == S \ {e}
<1>1. IsFiniteSet(R)
  BY FS_RemoveElement
<1>2. PICK g : IsSum(g, f, S) /\ SumOver(f, S) = g[S]
  BY SumExists
<1>3. PICK h : IsSum(h, f, R) /\ SumOver(f, R) = h[R]
  BY <1>1, SumExists
<1>4. PICK j : IsSum(j, z, S) /\ SumOver(z, S) = j[S]
  BY SumExists
<1>5. PICK i : IsSum(i, z, R) /\ SumOver(z, R) = i[R]
  BY <1>1, SumExists
<1>6. i[R] = 0
  BY <1>1, <1>5, SumZero
<1>7. g[R] = h[R] + i[R]
  <2>1. \A x \in R : f[x] = f[x] + z[x] /\ f[x] \in Int /\ z[x] \in Int
    OBVIOUS
  <2> HIDE DEF z, R
  <2>2. R \subseteq S /\ R \subseteq R
    BY DEF R
  <2> QED
    BY <1>2, <1>3, <1>5, <2>1, <2>2, SumsAdd
<1>8. h[R] \in Int /\ g[S] = f[e] + g[R]
  BY <1>2, <1>3 DEF IsSum
<1> QED
  BY <1>2, <1>3, <1>6, <1>7, <1>8

(* One element changes.                                                      *)
LEMMA SumChange ==
  ASSUME NEW S, IsFiniteSet(S), NEW f, NEW k, NEW e \in S,
         \A x \in S : f[x] \in Int /\ k[x] \in Int,
         \A x \in S \ {e} : f[x] = k[x]
  PROVE  SumOver(f, S) = SumOver(k, S) + (f[e] - k[e])
<1>1. IsFiniteSet(S \ {e})
  BY FS_RemoveElement
<1>2. SumOver(f, S \ {e}) = SumOver(k, S \ {e}) /\ SumOver(k, S \ {e}) \in Int
  BY <1>1, SumSame, SumType
<1>3. /\ SumOver(f, S) = f[e] + SumOver(f, S \ {e})
      /\ SumOver(k, S) = k[e] + SumOver(k, S \ {e})
  BY SumRemove
<1> QED
  BY <1>2, <1>3

LEMMA SumUnion ==
  ASSUME NEW S, NEW T, IsFiniteSet(S), IsFiniteSet(T), S \intersect T = {},
         NEW f, \A x \in S \union T : f[x] \in Int
  PROVE  SumOver(f, S \union T) = SumOver(f, S) + SumOver(f, T)
<1> DEFINE Bad == {t \in SUBSET T : SumOver(f, S \union t) # SumOver(f, S) + SumOver(f, t)}
<1>1. SUFFICES ASSUME Bad # {} PROVE FALSE
  OBVIOUS
<1>2. PICK t \in Bad : \A u \in Bad : Cardinality(t) <= Cardinality(u)
  BY <1>1, LeastSubset
<1>3. IsFiniteSet(t) /\ t \subseteq T /\ IsFiniteSet(S \union t) /\ SumOver(f, S) \in Int
  <2>1. IsFiniteSet(t) /\ t \subseteq T
    BY <1>2, FS_Subset
  <2> QED
    BY <2>1, FS_Union, SumType
<1>4. CASE t = {}
  <2>1. SumOver(f, {}) = 0
    BY SumZero, FS_EmptySet
  <2>2. S \union t = S
    BY <1>4
  <2> QED
    BY <1>2, <1>3, <1>4, <2>1, <2>2
<1>5. CASE t # {}
  <2>1. PICK x \in t : TRUE
    BY <1>5
  <2> DEFINE u == t \ {x}
  <2>2. u \in SUBSET T /\ IsFiniteSet(u) /\ SumOver(f, u) \in Int /\ f[x] \in Int
    <3>1. u \in SUBSET T /\ IsFiniteSet(u)
      BY <1>3, FS_Subset
    <3> QED
      BY <1>3, <2>1, <3>1, SumType
  <2>3. u \notin Bad
    <3>1. Cardinality(t) \in Nat \ {0} /\ Cardinality(u) = Cardinality(t) - 1
      BY <1>3, <2>1, SmallerSubset
    <3> QED
      BY <1>2, <3>1
  <2>4. SumOver(f, S \union u) = SumOver(f, S) + SumOver(f, u)
    BY <2>2, <2>3
  <2>5. SumOver(f, t) = f[x] + SumOver(f, u)
    BY <1>3, <2>1, SumRemove
  <2>6. SumOver(f, S \union t) = f[x] + SumOver(f, S \union u)
    <3>1. (S \union t) \ {x} = S \union u
      BY <1>3, <2>1
    <3>2. x \in S \union t /\ \A y \in S \union t : f[y] \in Int
      BY <1>3, <2>1
    <3> QED
      BY <1>3, <3>1, <3>2, SumRemove
  <2>7. SumOver(f, S \union t) # SumOver(f, S) + SumOver(f, t)
    BY <1>2
  <2> HIDE DEF u
  <2> QED
    BY <1>3, <2>2, <2>4, <2>5, <2>6, <2>7
<1> QED
  BY <1>4, <1>5

(* A sum taken apart: g sums f over the parts of D that belong to each p.    *)
LEMMA SumOfParts ==
  ASSUME NEW P, IsFiniteSet(P), NEW D, IsFiniteSet(D), NEW f, \A x \in D : f[x] \in Int,
         NEW part, \A x \in D : part[x] \in P,
         NEW g, \A p \in P : g[p] = SumOver(f, {x \in D : part[x] = p})
  PROVE  SumOver(g, P) = SumOver(f, D)
<1> DEFINE In(s) == {x \in D : part[x] \in s}
           One(p) == {x \in D : part[x] = p}
           Bad == {s \in SUBSET P : SumOver(g, s) # SumOver(f, In(s))}
<1>1. \A p \in P : g[p] = SumOver(f, One(p)) /\ g[p] \in Int
  <2>1. ASSUME NEW p \in P PROVE SumOver(f, One(p)) \in Int
    <3>1. IsFiniteSet(One(p)) /\ One(p) \subseteq D
      BY FS_Subset
    <3> HIDE DEF One
    <3> QED
      BY <3>1, SumType
  <2> QED
    BY <2>1
<1>2. SUFFICES ASSUME Bad # {} PROVE FALSE
  <2>1. P \notin Bad /\ In(P) = D
    BY <1>2
  <2> QED
    BY <2>1
<1>3. PICK s \in Bad : \A t \in Bad : Cardinality(s) <= Cardinality(t)
  BY <1>2, LeastSubset
<1>4. s \subseteq P /\ IsFiniteSet(s) /\ SumOver(g, s) # SumOver(f, In(s))
  BY <1>3, FS_Subset
<1>5. CASE s = {}
  <2>1. In(s) = {}
    BY <1>5
  <2>2. SumOver(g, {}) = 0 /\ SumOver(f, {}) = 0
    BY SumZero, FS_EmptySet
  <2> QED
    BY <1>4, <1>5, <2>1, <2>2
<1>6. CASE s # {}
  <2>1. PICK p \in s : TRUE
    BY <1>6
  <2> DEFINE t == s \ {p}
  <2>2. t \in SUBSET P /\ p \in P
    BY <1>4, <2>1
  <2>3. SumOver(g, t) = SumOver(f, In(t))
    <3>1. Cardinality(s) \in Nat \ {0} /\ Cardinality(t) = Cardinality(s) - 1
      BY <1>4, <2>1, SmallerSubset
    <3>2. t \notin Bad
      BY <1>3, <3>1
    <3> QED
      BY <2>2, <3>2
  <2>4. SumOver(g, s) = g[p] + SumOver(g, t)
    <3>1. \A x \in s : g[x] \in Int
      BY <1>1, <1>4
    <3> QED
      BY <1>4, <2>1, <3>1, SumRemove
  <2>5. In(s) = One(p) \union In(t) /\ One(p) \intersect In(t) = {}
    BY <2>1
  <2>6. IsFiniteSet(One(p)) /\ IsFiniteSet(In(t)) /\ One(p) \union In(t) \subseteq D
    <3>1. One(p) \subseteq D /\ In(t) \subseteq D
      OBVIOUS
    <3> HIDE DEF One, In
    <3> QED
      BY <3>1, FS_Subset
  <2> HIDE DEF One, In, t
  <2>7. SumOver(f, In(s)) = SumOver(f, One(p)) + SumOver(f, In(t))
    BY <2>5, <2>6, SumUnion
  <2> QED
    BY <1>1, <1>4, <2>2, <2>3, <2>4, <2>7
<1> QED
  BY <1>5, <1>6

LEMMA SumNegate ==
  ASSUME NEW S, IsFiniteSet(S), NEW f, NEW k, \A x \in S : f[x] = -k[x] /\ k[x] \in Int
  PROVE  SumOver(f, S) = -SumOver(k, S)
<1> DEFINE z == [x \in S |-> 0]
<1>1. SumOver(z, S) = SumOver(f, S) + SumOver(k, S)
  <2>1. \A x \in S : z[x] = f[x] + k[x] /\ f[x] \in Int /\ k[x] \in Int
    OBVIOUS
  <2> HIDE DEF z
  <2> QED
    BY <2>1, SumAdd
<1>2. SumOver(z, S) = 0
  BY SumZero
<1>3. SumOver(f, S) \in Int /\ SumOver(k, S) \in Int
  <2>1. \A x \in S : f[x] \in Int
    OBVIOUS
  <2> QED
    BY <2>1, SumType
<1> HIDE DEF z
<1> QED
  BY <1>1, <1>2, <1>3

LEMMA SumSubtract ==
  ASSUME NEW S, IsFiniteSet(S), NEW f, NEW k, NEW l,
         \A x \in S : f[x] = k[x] - l[x] /\ k[x] \in Int /\ l[x] \in Int
  PROVE  SumOver(f, S) = SumOver(k, S) - SumOver(l, S)
<1>1. \A x \in S : k[x] = f[x] + l[x] /\ f[x] \in Int /\ l[x] \in Int
  OBVIOUS
<1>2. SumOver(k, S) = SumOver(f, S) + SumOver(l, S)
  BY <1>1, SumAdd
<1>3. SumOver(f, S) \in Int /\ SumOver(l, S) \in Int
  BY <1>1, SumType
<1> QED
  BY <1>2, <1>3

LEMMA SumScale ==
  ASSUME NEW S, IsFiniteSet(S), NEW f, NEW k, NEW c \in Int,
         \A x \in S : f[x] = c * k[x] /\ k[x] \in Int
  PROVE  SumOver(f, S) = c * SumOver(k, S)
<1>1. \A x \in S : f[x] \in Int
  OBVIOUS
<1>2. PICK g : IsSum(g, f, S) /\ SumOver(f, S) = g[S]
  BY <1>1, SumExists
<1>3. PICK h : IsSum(h, k, S) /\ SumOver(k, S) = h[S]
  BY SumExists
<1> DEFINE Bad == {s \in SUBSET S : g[s] # c * h[s]}
<1>4. ASSUME Bad # {} PROVE FALSE
  <2>1. PICK s \in Bad : \A t \in Bad : Cardinality(s) <= Cardinality(t)
    BY <1>4, LeastSubset
  <2>2. s # {}
    <3>1. g[{}] = 0 /\ h[{}] = 0
      BY <1>2, <1>3 DEF IsSum
    <3>2. g[{}] = c * h[{}]
      BY <3>1
    <3> QED
      BY <2>1, <3>2
  <2>3. PICK x \in s : TRUE
    BY <2>2
  <2> DEFINE n == Cardinality(s \ {x})
  <2>4. s \ {x} \in SUBSET S /\ n \in Nat /\ Cardinality(s) = n + 1
    BY <2>1, SmallerSubset
  <2>5. g[s \ {x}] = c * h[s \ {x}]
    <3>1. ~(Cardinality(s) <= n)
      BY <2>4
    <3> QED
      BY <2>1, <2>4, <3>1
  <2> DEFINE r == h[s \ {x}]
  <2>6. r \in Int /\ k[x] \in Int /\ f[x] = c * k[x]
    BY <1>3, <2>1, <2>4 DEF IsSum
  <2>7. g[s] = f[x] + g[s \ {x}] /\ h[s] = k[x] + h[s \ {x}]
    BY <1>2, <1>3, <2>1 DEF IsSum
  <2>8. g[s] = c * k[x] + c * r /\ h[s] = k[x] + r
    BY <2>5, <2>6, <2>7
  <2> HIDE DEF r
  <2> DEFINE e == k[x]
  <2>9. e \in Int /\ g[s] = c * e + c * r /\ h[s] = e + r
    BY <2>6, <2>8
  <2> HIDE DEF e
  <2>10. c * (e + r) = c * e + c * r
    BY <2>6, <2>9
  <2> QED
    BY <2>1, <2>9, <2>10
<1> QED
  BY <1>2, <1>3, <1>4

LEMMA SumBound ==
  ASSUME NEW S, IsFiniteSet(S), NEW f, NEW c \in Int, \A x \in S : f[x] \in Int /\ f[x] <= c
  PROVE  SumOver(f, S) <= c * Cardinality(S)
<1>1. \A x \in S : f[x] \in Int
  OBVIOUS
<1>2. PICK g : IsSum(g, f, S) /\ SumOver(f, S) = g[S]
  BY <1>1, SumExists
<1> DEFINE Bad == {s \in SUBSET S : ~(g[s] <= c * Cardinality(s))}
<1>3. ASSUME Bad # {} PROVE FALSE
  <2>1. PICK s \in Bad : \A t \in Bad : Cardinality(s) <= Cardinality(t)
    BY <1>3, LeastSubset
  <2>2. s # {}
    <3>1. g[{}] = 0 /\ Cardinality({}) = 0
      BY <1>2, FS_EmptySet DEF IsSum
    <3>2. g[{}] <= c * Cardinality({})
      BY <3>1
    <3> QED
      BY <2>1, <3>2
  <2>3. PICK x \in s : TRUE
    BY <2>2
  <2> DEFINE n == Cardinality(s \ {x})
  <2>4. s \ {x} \in SUBSET S /\ n \in Nat /\ Cardinality(s) = n + 1
    BY <2>1, SmallerSubset
  <2>5. g[s \ {x}] <= c * n
    <3>1. ~(Cardinality(s) <= n)
      BY <2>4
    <3> QED
      BY <2>1, <2>4, <3>1
  <2>6. g[s] = f[x] + g[s \ {x}] /\ f[x] \in Int /\ f[x] <= c /\ g[s \ {x}] \in Int
    BY <1>2, <2>1, <2>4 DEF IsSum
  <2> HIDE DEF n
  <2>7. c * (n + 1) = c * n + c /\ c * n \in Int
    BY <2>4
  <2>8. g[s] <= c * (n + 1)
    BY <2>5, <2>6, <2>7
  <2> QED
    BY <2>1, <2>4, <2>8
<1> QED
  BY <1>2, <1>3

(* What is taken from nothing adds nothing to a sum. *)
LEMMA SumWithin ==
  ASSUME NEW S, IsFiniteSet(S), NEW D, D \subseteq S, NEW f, \A x \in S : f[x] \in Int,
         \A x \in S \ D : f[x] = 0
  PROVE  SumOver(f, S) = SumOver(f, D)
<1> DEFINE E == S \ D
<1>1. IsFiniteSet(D) /\ IsFiniteSet(E) /\ D \intersect E = {} /\ S = D \union E
  BY FS_Subset
<1>2. SumOver(f, E) = 0
  BY <1>1, SumZero
<1>3. SumOver(f, D) \in Int
  BY <1>1, SumType
<1> HIDE DEF E
<1>4. SumOver(f, D \union E) = SumOver(f, D) + SumOver(f, E)
  BY <1>1, SumUnion
<1> QED
  BY <1>1, <1>2, <1>3, <1>4

LEMMA SumAtLeastZero ==
  ASSUME NEW S, IsFiniteSet(S), NEW f, \A x \in S : f[x] \in Nat
  PROVE  SumOver(f, S) \in Nat
<1> DEFINE k == [x \in S |-> -f[x]]
<1>1. \A x \in S : f[x] \in Int /\ k[x] = -f[x] /\ k[x] \in Int /\ k[x] <= 0
  OBVIOUS
<1> HIDE DEF k
<1>2. SumOver(k, S) = -SumOver(f, S) /\ SumOver(f, S) \in Int
  BY <1>1, SumNegate, SumType
<1>3. \A c \in Int : (\A x \in S : k[x] <= c) => SumOver(k, S) <= c * Cardinality(S)
  BY <1>1, SumBound
<1>4. SumOver(k, S) <= 0
  <2> DEFINE n == Cardinality(S)
  <2>1. n \in Nat /\ SumOver(k, S) <= 0 * n
    BY <1>1, <1>3, FS_CardinalityType
  <2> HIDE DEF n
  <2>2. 0 * n = 0
    BY <2>1
  <2> QED
    BY <2>1, <2>2
<1> QED
  BY <1>2, <1>4

-----------------------------------------------------------------------------
(* Orders. R is a strict total order on S.                                   *)
Ordered(R, S) ==
    /\ \A x \in S : <<x, x>> \notin R
    /\ \A x, y \in S : x # y => <<x, y>> \in R \/ <<y, x>> \in R
    /\ \A x, y, z \in S : <<x, y>> \in R /\ <<y, z>> \in R => <<x, z>> \in R

InOrder(s, R, S) ==
    /\ s \in [1..Cardinality(S) -> S]
    /\ \A i, j \in 1..Cardinality(S) : i < j => <<s[i], s[j]>> \in R

LEMMA HasGreatest ==
  ASSUME NEW S, IsFiniteSet(S), NEW R, Ordered(R, S), NEW T \in SUBSET S, T # {}
  PROVE  \E m \in T : \A x \in T \ {m} : <<x, m>> \in R
<1> DEFINE Bad == {s \in SUBSET S : s # {} /\ ~\E m \in s : \A x \in s \ {m} : <<x, m>> \in R}
<1>1. SUFFICES ASSUME Bad # {} PROVE FALSE
  OBVIOUS
<1>2. PICK s \in Bad : \A t \in Bad : Cardinality(s) <= Cardinality(t)
  BY <1>1, LeastSubset
<1>3. PICK y \in s : TRUE
  BY <1>2
<1>4. /\ s \ {y} \in SUBSET S /\ Cardinality(s) \in Nat
      /\ Cardinality(s \ {y}) = Cardinality(s) - 1
  BY <1>2, SmallerSubset
<1>5. s \ {y} \notin Bad
  <2>1. ~(Cardinality(s) <= Cardinality(s \ {y}))
    BY <1>4
  <2> QED
    BY <1>2, <2>1
<1>6. s \ {y} # {}
  BY <1>2, <1>3
<1>7. PICK m \in s \ {y} : \A x \in (s \ {y}) \ {m} : <<x, m>> \in R
  BY <1>4, <1>5, <1>6
<1>8. m \in S /\ y \in S /\ m # y /\ s \subseteq S
  BY <1>2, <1>7
<1>9. CASE <<y, m>> \in R
  BY <1>2, <1>7, <1>9
<1>10. CASE <<m, y>> \in R
  <2>1. \A x \in s \ {y} : <<x, y>> \in R
    BY <1>7, <1>8, <1>10 DEF Ordered
  <2> QED
    BY <1>2, <1>3, <2>1
<1> QED
  BY <1>8, <1>9, <1>10 DEF Ordered

LEMMA SortExists ==
  ASSUME NEW S, IsFiniteSet(S), NEW R, Ordered(R, S)
  PROVE  \E s : InOrder(s, R, S)
<1> DEFINE Bad == {t \in SUBSET S : ~\E s : InOrder(s, R, t)}
<1>1. SUFFICES ASSUME Bad # {} PROVE FALSE
  OBVIOUS
<1>2. PICK t \in Bad : \A u \in Bad : Cardinality(t) <= Cardinality(u)
  BY <1>1, LeastSubset
<1>3. t # {}
  <2>1. Cardinality({}) = 0
    BY FS_EmptySet
  <2>2. InOrder([i \in 1..0 |-> 0], R, {})
    BY <2>1 DEF InOrder
  <2> QED
    BY <1>2, <2>2
<1>4. PICK m \in t : \A x \in t \ {m} : <<x, m>> \in R
  BY <1>2, <1>3, HasGreatest
<1> DEFINE n == Cardinality(t)
           u == t \ {m}
<1>5. n \in Nat \ {0} /\ u \in SUBSET S /\ Cardinality(u) = n - 1
  BY <1>2, SmallerSubset
<1>6. PICK s : InOrder(s, R, u)
  BY <1>2, <1>5
<1> DEFINE q == [i \in 1..n |-> IF i = n THEN m ELSE s[i]]
<1>7. s \in [1..(n - 1) -> u] /\ \A i, j \in 1..(n - 1) : i < j => <<s[i], s[j]>> \in R
  BY <1>5, <1>6 DEF InOrder
<1>8. \A i \in 1..n : i # n => i \in 1..(n - 1) /\ q[i] = s[i] /\ s[i] \in u
  BY <1>5, <1>7
<1>9. q[n] = m /\ q \in [1..n -> t]
  BY <1>5, <1>8
<1> HIDE DEF q, n
<1>10. ASSUME NEW i \in 1..n, NEW j \in 1..n, i < j
       PROVE  <<q[i], q[j]>> \in R
  <2>1. i # n /\ i \in 1..(n - 1)
    BY <1>5, <1>10
  <2>2. CASE j = n
    BY <1>4, <1>8, <1>9, <2>1, <2>2
  <2>3. CASE j # n
    BY <1>7, <1>8, <1>10, <2>1, <2>3
  <2> QED
    BY <2>2, <2>3
<1>11. InOrder(q, R, t)
  BY <1>9, <1>10 DEF InOrder, n
<1> QED
  BY <1>2, <1>11

(* Each element has one place. *)
LEMMA InOrderOnto ==
  ASSUME NEW S, IsFiniteSet(S), NEW R, Ordered(R, S), NEW s, InOrder(s, R, S)
  PROVE  /\ Cardinality(S) \in Nat
         /\ \A x \in S : \E i \in 1..Cardinality(S) : s[i] = x
         /\ \A i, j \in 1..Cardinality(S) : s[i] = s[j] => i = j
<1> DEFINE n == Cardinality(S)
<1>1. n \in Nat /\ IsFiniteSet(1..n) /\ Cardinality(1..n) = n
  BY FS_CardinalityType, FS_Interval
<1>2. s \in [1..n -> S] /\ \A i, j \in 1..n : i < j => <<s[i], s[j]>> \in R
  BY DEF InOrder
<1>3. ASSUME NEW i \in 1..n, NEW j \in 1..n, s[i] = s[j] PROVE i = j
  <2>1. s[i] \in S /\ s[j] \in S
    BY <1>2
  <2>2. ~(i < j) /\ ~(j < i)
    BY <1>2, <1>3, <2>1 DEF Ordered
  <2> QED
    BY <1>1, <2>2
<1> HIDE DEF n
<1>4. s \in Injection(1..n, S)
  BY <1>2, <1>3 DEF Injection, IsInjective
<1>5. s \in Surjection(1..n, S)
  BY <1>1, <1>4, FS_Injection DEF n
<1> QED
  BY <1>1, <1>3, <1>5 DEF Surjection, n

(* If the elements of D come before the others, they are sorted alike, alone *)
(* and among the others. A sorting is thus the only one.                     *)
LEMMA SortedAlike ==
  ASSUME NEW S, IsFiniteSet(S), NEW R, Ordered(R, S), NEW D \in SUBSET S,
         \A d \in D, e \in S \ D : <<d, e>> \in R,
         NEW s, InOrder(s, R, S), NEW t, InOrder(t, R, D)
  PROVE  /\ Cardinality(D) <= Cardinality(S)
         /\ \A i \in 1..Cardinality(D) : s[i] = t[i]
<1> DEFINE n == Cardinality(S)
           m == Cardinality(D)
           Bad == {i \in 1..m : s[i] # t[i]}
<1>1. IsFiniteSet(D) /\ Ordered(R, D)
  BY FS_Subset DEF Ordered
<1>2. m \in Nat /\ n \in Nat /\ m <= n
  BY <1>1, FS_Subset, FS_CardinalityType
<1>3. /\ s \in [1..n -> S] /\ t \in [1..m -> D]
      /\ \A i, j \in 1..n : i < j => <<s[i], s[j]>> \in R
      /\ \A i, j \in 1..m : i < j => <<t[i], t[j]>> \in R
      /\ \A x \in S : \E i \in 1..n : s[i] = x
      /\ \A x \in D : \E i \in 1..m : t[i] = x
      /\ \A i, j \in 1..n : s[i] = s[j] => i = j
      /\ \A i, j \in 1..m : t[i] = t[j] => i = j
  <2>1. /\ \A x \in S : \E i \in 1..n : s[i] = x
        /\ \A i, j \in 1..n : s[i] = s[j] => i = j
    BY InOrderOnto
  <2>2. /\ \A x \in D : \E i \in 1..m : t[i] = x
        /\ \A i, j \in 1..m : t[i] = t[j] => i = j
    BY <1>1, InOrderOnto
  <2> QED
    BY <2>1, <2>2 DEF InOrder
<1>4. \A x, y \in S : <<x, y>> \in R => <<y, x>> \notin R
  BY DEF Ordered
<1> HIDE DEF n, m
<1>5. ASSUME Bad # {} PROVE FALSE
  <2>1. Bad \subseteq Nat
    BY <1>2
  <2>2. PICK i \in Bad : \A k \in Bad : i <= k
    <3> HIDE DEF Bad
    <3> QED
      BY <1>5, <2>1, LeastOf
  <2>3. i \in 1..m /\ i \in 1..n /\ s[i] # t[i] /\ s[i] \in S /\ t[i] \in D /\ t[i] \in S
    BY <1>2, <1>3, <2>2
  <2>4. \A k \in 1..m : k < i => s[k] = t[k] /\ k \in 1..n
    <3> SUFFICES ASSUME NEW k \in 1..m, k < i PROVE s[k] = t[k] /\ k \in 1..n
      OBVIOUS
    <3>1. ~(i <= k)
      BY <2>3
    <3> QED
      BY <1>2, <2>2, <3>1
  <2>5. PICK j \in 1..n : s[j] = t[i]
    BY <1>3, <2>3
  <2>6. i < j
    <3>1. i # j
      BY <2>3, <2>5
    <3>2. ~(j < i)
      <4>1. ASSUME j < i PROVE FALSE
        <5>1. j \in 1..m
          BY <1>2, <2>3, <4>1
        <5>2. t[j] = t[i]
          BY <2>4, <2>5, <4>1, <5>1
        <5> QED
          BY <1>3, <2>3, <4>1, <5>1, <5>2
      <4> QED
        BY <4>1
    <3> QED
      BY <2>3, <3>1, <3>2
  <2>7. <<s[i], t[i]>> \in R
    BY <1>3, <2>3, <2>5, <2>6
  <2>8. s[i] \in D
    BY <1>4, <2>3, <2>7
  <2>9. PICK k \in 1..m : t[k] = s[i]
    BY <1>3, <2>8
  <2>10. i < k
    <3>1. i # k
      BY <2>3, <2>9
    <3>2. ~(k < i)
      <4>1. ASSUME k < i PROVE FALSE
        <5>1. s[k] = s[i] /\ k \in 1..n
          BY <2>4, <2>9, <4>1
        <5> QED
          BY <1>3, <2>3, <4>1, <5>1
      <4> QED
        BY <4>1
    <3> QED
      BY <2>3, <3>1, <3>2
  <2>11. <<t[i], s[i]>> \in R
    BY <1>3, <2>3, <2>9, <2>10
  <2> QED
    BY <1>4, <2>3, <2>7, <2>11
<1> QED
  BY <1>2, <1>5 DEF n, m

-----------------------------------------------------------------------------
(* Folds over a sequence. The step is a function of the position and of what *)
(* has been folded so far, within a set that it does not leave.              *)
LEMMA MaxOf ==
  ASSUME NEW n \in Nat, NEW s \in SUBSET (1..n), s # {}
  PROVE  Max(s) \in s /\ \A x \in s : x <= Max(s)
<1> DEFINE T == {n - x : x \in s}
<1>1. T \subseteq Nat /\ T # {}
  <2>1. \A x \in 1..n : n - x \in Nat
    OBVIOUS
  <2>2. \A x \in s : x \in 1..n
    OBVIOUS
  <2>3. \A t \in T : t \in Nat
    BY <2>1, <2>2
  <2> QED
    BY <2>3
<1> HIDE DEF T
<1>2. PICK t \in T : \A u \in T : t <= u
  BY <1>1, LeastOf
<1>3. PICK m \in s : t = n - m
  BY <1>2 DEF T
<1>4. \A x \in s : m >= x
  <2> TAKE x \in s
  <2>1. n - x \in T
    BY DEF T
  <2>2. x \in Nat /\ m \in Nat
    OBVIOUS
  <2> QED
    BY <1>2, <1>3, <2>1, <2>2
<1>5. Max(s) \in s /\ \A x \in s : Max(s) >= x
  BY <1>4 DEF Max
<1> QED
  BY <1>5

LEMMA MaxOfPrefix ==
  ASSUME NEW i \in Nat \ {0}
  PROVE  Max(1..i) = i /\ (1..i) \ {i} = 1..(i - 1)
<1> DEFINE m == Max(1..i)
<1>1. i \in 1..i /\ 1..i \in SUBSET (1..i) /\ 1..i # {}
  OBVIOUS
<1>2. m \in 1..i /\ \A x \in 1..i : x <= m
  BY <1>1, MaxOf
<1> HIDE DEF m
<1>3. m = i
  BY <1>1, <1>2
<1> QED
  BY <1>3 DEF m

FoldsUp(h, step, base, n) ==
    h = [s \in SUBSET (1..n) |->
           IF s = {} THEN base ELSE step[<<Max(s), h[s \ {Max(s)}]>>]]

LEMMA FoldExists ==
  ASSUME NEW n \in Nat, NEW A, NEW base \in A, NEW step \in [(1..n) \X A -> A]
  PROVE  \E h \in [SUBSET (1..n) -> A] : FoldsUp(h, step, base, n)
<1> DEFINE D == SUBSET (1..n)
           After(h, s) == IF s = {} THEN base ELSE step[<<Max(s), h[s \ {Max(s)}]>>]
           UpTo(h, k) == h \in [D -> A] /\ \A s \in D : s \subseteq 1..k => h[s] = After(h, s)
           Bad == {k \in Nat : ~\E h : UpTo(h, k)}
<1>1. \A s \in D : s # {} => /\ Max(s) \in s /\ Max(s) \in 1..n /\ s \ {Max(s)} \in D
                             /\ \A x \in s : x <= Max(s)
  BY MaxOf
<1>2. \A h \in [D -> A], s \in D : After(h, s) \in A
  <2> SUFFICES ASSUME NEW h \in [D -> A], NEW s \in D, s # {}
               PROVE  step[<<Max(s), h[s \ {Max(s)}]>>] \in A
    OBVIOUS
  <2>1. h[s \ {Max(s)}] \in A /\ Max(s) \in 1..n
    BY <1>1
  <2> QED
    BY <2>1
<1>3. Bad = {}
  <2> SUFFICES ASSUME Bad # {} PROVE FALSE
    OBVIOUS
  <2>1. PICK k \in Bad : \A j \in Bad : k <= j
    BY LeastOf
  <2>k. k \in Nat /\ ~\E h : UpTo(h, k)
    BY <2>1
  <2>2. k # 0
    <3> DEFINE h == [s \in D |-> base]
    <3>1. \A s \in D : s \subseteq 1..0 => s = {}
      OBVIOUS
    <3>2. UpTo(h, 0)
      BY <3>1
    <3> HIDE DEF h, UpTo
    <3> QED
      BY <2>k, <3>2
  <2>3. k - 1 \in Nat /\ k - 1 \notin Bad
    <3>1. k - 1 \in Nat /\ ~(k <= k - 1)
      BY <2>k, <2>2
    <3> QED
      BY <2>1, <3>1
  <2>4. PICK g : UpTo(g, k - 1)
    BY <2>3
  <2> DEFINE h == [s \in D |-> After(g, s)]
  <2>5. h \in [D -> A] /\ \A s \in D : h[s] = After(g, s)
    BY <1>2, <2>4
  <2> HIDE DEF h
  <2>6. \A s \in D : s \subseteq 1..(k - 1) => h[s] = g[s]
    BY <2>4, <2>5
  <2>7. ASSUME NEW s \in D, s \subseteq 1..k PROVE h[s] = After(h, s)
    <3>1. CASE s = {}
      BY <2>5, <3>1
    <3>2. CASE s # {}
      <4>1. Max(s) \in s /\ s \ {Max(s)} \in D /\ \A x \in s : x <= Max(s)
        BY <1>1, <3>2
      <4> DEFINE m == Max(s)
      <4>2. s \ {m} \subseteq 1..(k - 1)
        <5> HIDE DEF m
        <5>1. \A x \in s : x \in 1..k /\ x <= m
          BY <2>7, <4>1 DEF m
        <5>2. m \in 1..k /\ k \in Nat
          BY <4>1, <5>1 DEF m
        <5> QED
          BY <5>1, <5>2
      <4>3. h[s \ {m}] = g[s \ {m}]
        BY <2>6, <4>1, <4>2
      <4> QED
        BY <2>5, <3>2, <4>3
    <3> QED
      BY <3>1, <3>2
  <2>8. UpTo(h, k)
    BY <2>5, <2>7
  <2> QED
    BY <2>1, <2>8
<1>4. PICK h : UpTo(h, n)
  BY <1>3
<1>5. h \in [D -> A] /\ \A s \in D : h[s] = After(h, s)
  BY <1>4
<1>6. FoldsUp(h, step, base, n)
  <2>1. h = [s \in D |-> h[s]]
    BY <1>5
  <2> QED
    BY <1>5, <2>1 DEF FoldsUp
<1> QED
  BY <1>5, <1>6

LEMMA OneAtMost ==
  ASSUME NEW S, \A x, y \in S : x = y
  PROVE  Cardinality(S) <= 1
<1>1. CASE S = {}
  BY <1>1, FS_EmptySet
<1>2. CASE S # {}
  <2>1. PICK x \in S : TRUE
    BY <1>2
  <2>2. S = {x}
    BY <2>1
  <2> QED
    BY <2>2, FS_Singleton
<1> QED
  BY <1>1, <1>2

LEMMA PrefixFacts ==
  ASSUME NEW n \in Nat
  PROVE  /\ 1..0 = {} /\ {} \in SUBSET (1..n)
         /\ \A i \in 1..n : /\ 1..i \in SUBSET (1..n) /\ 1..i # {} /\ i - 1 \in 0..n /\ i \in 0..n
                            /\ Max(1..i) = i /\ (1..i) \ {i} = 1..(i - 1)
<1>1. 1..0 = {} /\ {} \in SUBSET (1..n)
  OBVIOUS
<1>2. ASSUME NEW i \in 1..n
      PROVE  /\ 1..i \in SUBSET (1..n) /\ 1..i # {} /\ i - 1 \in 0..n /\ i \in 0..n
             /\ Max(1..i) = i /\ (1..i) \ {i} = 1..(i - 1)
  <2>1. i \in Nat \ {0} /\ i - 1 \in 0..n /\ i \in 0..n /\ \A x \in 1..i : x \in 1..n
    BY <1>2
  <2>2. 1..i \in SUBSET (1..n) /\ 1..i # {}
    BY <2>1
  <2>3. Max(1..i) = i /\ (1..i) \ {i} = 1..(i - 1)
    BY <2>1, MaxOfPrefix
  <2> QED
    BY <2>1, <2>2, <2>3
<1> QED
  BY <1>1, <1>2

(* What holds at the start and is kept by each step holds to the end.        *)
LEMMA StepByStep ==
  ASSUME NEW n \in Nat, NEW G, 0 \in G, \A i \in 1..n : i - 1 \in G => i \in G
  PROVE  \A i \in 0..n : i \in G
<1> DEFINE Bad == {i \in Nat : i <= n /\ i \notin G}
<1>1. SUFFICES ASSUME Bad # {} PROVE FALSE
  OBVIOUS
<1>2. \A j \in Bad : j \in Nat
  OBVIOUS
<1>3. PICK i \in Bad : \A j \in Bad : i <= j
  BY <1>1, <1>2, LeastOf
<1>4. i \in Nat /\ i <= n /\ i \notin G
  BY <1>3
<1>5. i \in 1..n /\ i - 1 \in Nat /\ i - 1 <= n /\ ~(i <= i - 1)
  BY <1>4
<1>6. i - 1 \notin Bad
  BY <1>3, <1>5
<1> QED
  BY <1>4, <1>5, <1>6

(* A fold whose steps do not leave a set ends in it. *)
LEMMA FoldWithin ==
  ASSUME NEW n \in Nat, NEW A, NEW h, h[{}] \in A,
         \A i \in 1..n : h[1..(i - 1)] \in A => h[1..i] \in A
  PROVE  h[1..n] \in A
<1> DEFINE G == {i \in 0..n : h[1..i] \in A}
<1>1. 0 \in G
  <2>1. 1..0 = {} /\ 0 \in 0..n
    OBVIOUS
  <2> QED
    BY <2>1
<1>2. \A i \in 1..n : i - 1 \in G => i \in G
  OBVIOUS
<1>3. n \in 0..n
  OBVIOUS
<1> HIDE DEF G
<1>4. n \in G
  BY <1>1, <1>2, <1>3, StepByStep
<1> QED
  BY <1>4 DEF G
=============================================================================
