------------------------- MODULE TopicStatsProofs --------------------------
(***************************************************************************)
(* TopicStats and the acknowledged records, for consumers that seek        *)
(* anywhere.  Compaction may then leave gaps between the files, so the     *)
(* invariant speaks of the listed segments only: each ends where the next  *)
(* one begins, because a rotation names the new segment after the tail and *)
(* open() takes the ends from the names.                                   *)
(***************************************************************************)
EXTENDS Topic, FiniteSetTheorems, TLAPS

(* A leaf is tried with Zenon, then with SMT; those that need arithmetic   *)
(* or are too large for Zenon name SMT.                                    *)
USE ZenonT(10), SMTT(20)

(* A non-empty set of natural numbers has a least element. *)
LEMMA LeastExists ==
  ASSUME NEW S \in SUBSET Nat, S # {}
  PROVE  \E x \in S : \A y \in S : x <= y
<1> DEFINE R == {ss \in Nat \X Nat : ss[1] < ss[2]}
<1>1. IsWellFoundedOn(R, Nat)
  BY NatLessThanWellFounded DEF OpToRel
<1> HIDE DEF R
<1>2. PICK x \in S : \A y \in S : ~ (<<y, x>> \in R)
  BY <1>1, WFMin, Zenon
<1>3. \A y \in S : ~ (y < x)
  BY <1>2, Zenon DEF R
<1> QED BY <1>3, SMTT(20)

(* The minimum of a set, once a least element is known. *)
LEMMA MinIs ==
  ASSUME NEW S \in SUBSET Int, NEW m \in S, \A y \in S : m <= y
  PROVE  Min(S) = m
<1>1. Min(S) \in S /\ \A y \in S : Min(S) <= y
  <2>1. \E x \in S : \A y \in S : x <= y
    OBVIOUS
  <2> QED BY <2>1, Zenon DEF Min
<1> DEFINE k == Min(S)
<1>2. k \in S /\ k <= m
  BY <1>1
<1> HIDE DEF k
<1>3. k = m
  BY <1>2, SMTT(20)
<1> QED BY <1>3 DEF k

LEMMA MinLeast ==
  ASSUME NEW S \in SUBSET Nat, S # {}
  PROVE  Min(S) \in S /\ \A y \in S : Min(S) <= y
<1>1. PICK m \in S : \A y \in S : m <= y
  BY LeastExists
<1>2. Min(S) = m
  BY <1>1, MinIs, SMTT(20)
<1> QED BY <1>1, <1>2
---------------------------------------------------------------------------
(* One unrolling of the recursion that sums f over the subsets of S. *)
First(s) == CHOOSE x \in s : TRUE
Unroll(f, S, g) ==
  [s \in SUBSET S |-> IF s = {} THEN 0 ELSE f[First(s)] + g[s \ {First(s)}]]

(* Unrolled n times from anything, the recursion is right for the subsets    *)
(* with fewer than n elements, so it has a solution.                         *)
LEMMA UnrollFixed ==
  ASSUME NEW f, NEW S, IsFiniteSet(S), \A x \in S : f[x] \in Int
  PROVE  \E g \in [SUBSET S -> Int] : g = Unroll(f, S, g)
<1> DEFINE Good(g, n) == \A s \in SUBSET S : Cardinality(s) < n => g[s] = Unroll(f, S, g)[s]
           Bad == {n \in Nat : ~ \E g \in [SUBSET S -> Int] : Good(g, n)}
<1>1. \A s \in SUBSET S : /\ IsFiniteSet(s) /\ Cardinality(s) \in Nat /\ Cardinality(s) <= Cardinality(S)
                          /\ s # {} => First(s) \in s
  BY FS_Subset, FS_CardinalityType DEF First
<1>2. ASSUME NEW g \in [SUBSET S -> Int] PROVE Unroll(f, S, g) \in [SUBSET S -> Int]
  <2>1. \A s \in SUBSET S : (IF s = {} THEN 0 ELSE f[First(s)] + g[s \ {First(s)}]) \in Int
    <3> SUFFICES ASSUME NEW s \in SUBSET S, s # {} PROVE f[First(s)] + g[s \ {First(s)}] \in Int
      BY SMTT(20)
    <3>1. First(s) \in S /\ s \ {First(s)} \in SUBSET S
      BY <1>1
    <3>2. f[First(s)] \in Int /\ g[s \ {First(s)}] \in Int
      BY <3>1
    <3> QED BY <3>2, SMTT(20)
  <2> QED BY <2>1 DEF Unroll
<1>3. ASSUME NEW g \in [SUBSET S -> Int], NEW n \in Nat, Good(g, n) PROVE Good(Unroll(f, S, g), n + 1)
  <2> DEFINE h == Unroll(f, S, g)
  <2> SUFFICES ASSUME NEW s \in SUBSET S, Cardinality(s) < n + 1, s # {}
               PROVE  h[s] = Unroll(f, S, h)[s]
    BY Zenon DEF Unroll
  <2> DEFINE r == s \ {First(s)}
  <2>1. r \in SUBSET S /\ First(s) \in s /\ Cardinality(r) = Cardinality(s) - 1
    BY <1>1, FS_RemoveElement
  <2>2. Cardinality(r) < n
    BY <1>1, <2>1, SMTT(20)
  <2>3. h[r] = g[r]
    BY <1>3, <2>1, <2>2
  <2>4. h[s] = f[First(s)] + g[r]
    BY DEF Unroll
  <2> HIDE DEF h
  <2>5. Unroll(f, S, h)[s] = f[First(s)] + h[r]
    BY DEF Unroll
  <2> QED BY <2>3, <2>4, <2>5
<1>4. Bad = {}
  <2> SUFFICES ASSUME Bad # {} PROVE FALSE
    BY Zenon
  <2> HIDE DEF Good
  <2>1. PICK m \in Bad : \A k \in Bad : m <= k
    BY LeastExists, Zenon
  <2>2. m # 0
    <3> DEFINE g == [s \in SUBSET S |-> 0]
    <3>1. g \in [SUBSET S -> Int]
      BY SMTT(20)
    <3>2. Good(g, 0)
      BY <1>1, SMTT(20) DEF Good
    <3> QED BY <3>1, <3>2, Zenon
  <2>3. Bad \in SUBSET Nat
    OBVIOUS
  <2>4. PICK k \in Nat : m = k + 1 /\ k \notin Bad
    <3> HIDE DEF Bad
    <3>1. m - 1 \in Nat /\ m = (m - 1) + 1 /\ ~(m <= m - 1)
      BY <2>2, <2>3, SMTT(20)
    <3> QED BY <2>1, <3>1
  <2>5. PICK g \in [SUBSET S -> Int] : Good(g, k)
    BY <2>4, Zenon
  <2>6. Good(Unroll(f, S, g), k + 1)
    BY <1>3, <2>5, Zenon
  <2> QED BY <1>2, <2>4, <2>6, Zenon
<1>5. Cardinality(S) + 1 \in Nat
  BY FS_CardinalityType, SMTT(20)
<1>6. PICK g \in [SUBSET S -> Int] : Good(g, Cardinality(S) + 1)
  BY <1>4, <1>5, Zenon
<1>7. \A s \in SUBSET S : Cardinality(s) < Cardinality(S) + 1
  BY <1>1, <1>5, FS_CardinalityType, SMTT(20)
<1>8. \A s \in SUBSET S : g[s] = Unroll(f, S, g)[s]
  BY <1>6, <1>7
<1>9. Unroll(f, S, g) \in [SUBSET S -> Int]
  BY <1>2, Zenon
<1> QED BY <1>8, <1>9, SMTT(20)

(* The recursion has one solution on the subsets of T, also when it starts   *)
(* from a larger set or from another function with the same values on T.     *)
LEMMA UnrollUnique ==
  ASSUME NEW f, NEW e, NEW S, NEW T \in SUBSET S, IsFiniteSet(S), \A x \in T : f[x] = e[x],
         NEW g, g = Unroll(f, S, g), NEW h, h = Unroll(e, T, h)
  PROVE  \A s \in SUBSET T : g[s] = h[s]
<1> DEFINE Bad == {n \in Nat : \E s \in SUBSET T : Cardinality(s) = n /\ g[s] # h[s]}
<1>1. \A s \in SUBSET T : IsFiniteSet(s) /\ Cardinality(s) \in Nat /\ (s # {} => First(s) \in s)
  BY FS_Subset, FS_CardinalityType DEF First
<1>2. ASSUME Bad # {} PROVE FALSE
  <2>1. PICK m \in Bad : \A k \in Bad : m <= k
    BY <1>2, LeastExists, Zenon
  <2>2. PICK s \in SUBSET T : Cardinality(s) = m /\ g[s] # h[s]
    OBVIOUS
  <2>3. \A k \in Nat : k < m => \A r \in SUBSET T : Cardinality(r) = k => g[r] = h[r]
    BY <2>1, SMTT(20)
  <2> HIDE DEF Bad
  <2>4. s # {}
    BY <2>2 DEF Unroll
  <2> DEFINE r == s \ {First(s)}
  <2>5. r \in SUBSET T /\ First(s) \in s /\ Cardinality(r) = Cardinality(s) - 1 /\ Cardinality(r) \in Nat
    BY <1>1, <2>4, FS_RemoveElement
  <2>6. g[r] = h[r]
    BY <1>1, <2>2, <2>3, <2>5, SMTT(20)
  <2>7. g[s] = f[First(s)] + g[r] /\ h[s] = e[First(s)] + h[r]
    BY <2>4, Zenon DEF Unroll
  <2> QED BY <2>2, <2>5, <2>6, <2>7
<1> QED BY <1>1, <1>2

(* The sum, element by element in the order CHOOSE takes them. *)
LEMMA SumUnrolls ==
  ASSUME NEW f, NEW S, IsFiniteSet(S), \A x \in S : f[x] \in Int
  PROVE  \E g \in [SUBSET S -> Int] : g = Unroll(f, S, g) /\ SumFunctionOnSet(f, S) = g[S]
<1> DEFINE G == CHOOSE g : g = [s \in SUBSET S |-> IF s = {} THEN 0
                                 ELSE f[CHOOSE x \in s : TRUE] + g[s \ {CHOOSE x \in s : TRUE}]]
<1>1. SumFunctionOnSet(f, S) = G[S]
  BY DEF SumFunctionOnSet, FoldFunctionOnSet, MapThenFoldSet
<1>2. \E g : g = [s \in SUBSET S |-> IF s = {} THEN 0
                    ELSE f[CHOOSE x \in s : TRUE] + g[s \ {CHOOSE x \in s : TRUE}]]
  <2>1. PICK g : g = Unroll(f, S, g)
    BY UnrollFixed, Zenon
  <2> QED BY <2>1, Zenon DEF Unroll, First
<1>3. G = Unroll(f, S, G)
  BY <1>2, Zenon DEF Unroll, First
<1> HIDE DEF G
<1>4. PICK h \in [SUBSET S -> Int] : h = Unroll(f, S, h)
  BY UnrollFixed, Zenon
<1>5. G = h
  <2>1. \A s \in SUBSET S : G[s] = h[s]
    BY <1>3, <1>4, UnrollUnique, SMTT(20)
  <2>2. DOMAIN G = SUBSET S /\ G = [s \in DOMAIN G |-> G[s]]
    BY <1>3, Zenon DEF Unroll
  <2> QED BY <2>1, <2>2
<1> QED BY <1>1, <1>4, <1>5

LEMMA SumEmpty ==
  ASSUME NEW f
  PROVE  SumFunctionOnSet(f, {}) = 0
<1>1. PICK g : g = Unroll(f, {}, g) /\ SumFunctionOnSet(f, {}) = g[{}]
  BY SumUnrolls, FS_EmptySet, Zenon
<1> QED BY <1>1, Zenon DEF Unroll

LEMMA SumInt ==
  ASSUME NEW f, NEW S, IsFiniteSet(S), \A x \in S : f[x] \in Int
  PROVE  SumFunctionOnSet(f, S) \in Int
<1>1. PICK g \in [SUBSET S -> Int] : SumFunctionOnSet(f, S) = g[S]
  BY SumUnrolls, Zenon
<1> QED BY <1>1

(* The sum depends on the values of the function on the set only. *)
LEMMA SumEqual ==
  ASSUME NEW f, NEW e, NEW S, IsFiniteSet(S), \A x \in S : f[x] \in Int /\ e[x] = f[x]
  PROVE  SumFunctionOnSet(f, S) = SumFunctionOnSet(e, S)
<1>1. PICK g : g = Unroll(f, S, g) /\ SumFunctionOnSet(f, S) = g[S]
  BY SumUnrolls, Zenon
<1>2. PICK h : h = Unroll(e, S, h) /\ SumFunctionOnSet(e, S) = h[S]
  BY SumUnrolls, Zenon
<1> QED BY <1>1, <1>2, UnrollUnique, SMTT(20)

(* Any element may be taken out first. *)
LEMMA SumRemove ==
  ASSUME NEW f, NEW S, IsFiniteSet(S), \A x \in S : f[x] \in Int, NEW a \in S
  PROVE  SumFunctionOnSet(f, S) = f[a] + SumFunctionOnSet(f, S \ {a})
<1>1. PICK g \in [SUBSET S -> Int] : g = Unroll(f, S, g) /\ SumFunctionOnSet(f, S) = g[S]
  BY SumUnrolls, Zenon
<1> DEFINE Bad == {n \in Nat : \E s \in SUBSET S : \E x \in s :
                                 Cardinality(s) = n /\ g[s] # f[x] + g[s \ {x}]}
<1>2. \A s \in SUBSET S : IsFiniteSet(s) /\ Cardinality(s) \in Nat /\ (s # {} => First(s) \in s)
  BY FS_Subset, FS_CardinalityType DEF First
<1>3. ASSUME Bad # {} PROVE FALSE
  <2>1. PICK m \in Bad : \A k \in Bad : m <= k
    BY <1>3, LeastExists, Zenon
  <2>0. PICK s \in SUBSET S : \E x \in s : Cardinality(s) = m /\ g[s] # f[x] + g[s \ {x}]
    OBVIOUS
  <2>2. PICK x \in s : Cardinality(s) = m /\ g[s] # f[x] + g[s \ {x}]
    BY <2>0, Zenon
  <2>3. m \in Nat /\ \A k \in Nat : k < m =>
          \A r \in SUBSET S : \A y \in r : Cardinality(r) = k => g[r] = f[y] + g[r \ {y}]
    <3>1. m \in Nat /\ Bad \in SUBSET Nat
      OBVIOUS
    <3>2. \A k \in Nat : k < m => k \notin Bad
      <4> HIDE DEF Bad
      <4> QED BY <2>1, <3>1, SMTT(20)
    <3> QED BY <3>1, <3>2, Zenon
  <2> HIDE DEF Bad
  <2> DEFINE c == First(s)
             p == s \ {c}
             q == s \ {x}
             r == s \ {c, x}
  <2>4. c \in s /\ p \in SUBSET S /\ q \in SUBSET S /\ r \in SUBSET S
    BY <1>2
  <2>5. g[s] = f[c] + g[p]
    BY <1>1, <2>2, Zenon DEF Unroll
  <2>6. c # x
    BY <2>2, <2>5, Zenon
  <2>7. Cardinality(p) = m - 1 /\ Cardinality(q) = m - 1 /\ m - 1 \in Nat
    BY <1>2, <2>2, <2>4, FS_RemoveElement, SMTT(20)
  <2>8. x \in p /\ c \in q /\ p \ {x} = r /\ q \ {c} = r
    BY <2>4, <2>6
  <2>9. g[p] = f[x] + g[r] /\ g[q] = f[c] + g[r]
    BY <2>3, <2>4, <2>7, <2>8, SMTT(20)
  <2>10. f[x] \in Int /\ f[c] \in Int /\ g[r] \in Int
    BY <1>1, <2>4
  <2> HIDE DEF c, p, r
  <2> QED BY <2>2, <2>5, <2>9, <2>10, SMTT(20)
<1>4. g[S] = f[a] + g[S \ {a}]
  BY <1>2, <1>3, ZenonT(60)
<1>5. PICK h : h = Unroll(f, S \ {a}, h) /\ SumFunctionOnSet(f, S \ {a}) = h[S \ {a}]
  BY SumUnrolls, FS_RemoveElement, Zenon
<1>6. h[S \ {a}] = g[S \ {a}]
  BY <1>1, <1>5, UnrollUnique, SMTT(20)
<1> QED BY <1>1, <1>4, <1>5, <1>6

(* The sum over a set is the sum over a part and the sum over the rest. *)
LEMMA SumSplit ==
  ASSUME NEW f, NEW S, IsFiniteSet(S), \A x \in S : f[x] \in Int, NEW T \in SUBSET S
  PROVE  SumFunctionOnSet(f, S) = SumFunctionOnSet(f, T) + SumFunctionOnSet(f, S \ T)
<1> DEFINE Sum(r) == SumFunctionOnSet(f, r)
           Bad == {n \in Nat : \E r \in SUBSET S : Cardinality(r) = n /\ Sum(S) # Sum(r) + Sum(S \ r)}
<1>1. \A r \in SUBSET S : IsFiniteSet(r) /\ Cardinality(r) \in Nat /\ Sum(r) \in Int
  BY FS_Subset, FS_CardinalityType, SumInt
<1>2. ASSUME NEW r \in SUBSET S, NEW x \in r PROVE Sum(r) = f[x] + Sum(r \ {x})
  BY <1>1, SumRemove, SMTT(20)
<1>3. Sum({}) = 0
  BY SumEmpty
<1> HIDE DEF Sum
<1>4. ASSUME Bad # {} PROVE FALSE
  <2>1. PICK m \in Bad : \A k \in Bad : m <= k
    BY <1>4, LeastExists, Zenon
  <2>2. PICK r \in SUBSET S : Cardinality(r) = m /\ Sum(S) # Sum(r) + Sum(S \ r)
    OBVIOUS
  <2>3. m \in Nat /\ \A k \in Nat : k < m =>
          \A q \in SUBSET S : Cardinality(q) = k => Sum(S) = Sum(q) + Sum(S \ q)
    <3>1. m \in Nat /\ Bad \in SUBSET Nat
      OBVIOUS
    <3>2. \A k \in Nat : k < m => k \notin Bad
      <4> HIDE DEF Bad
      <4> QED BY <2>1, <3>1, SMTT(20)
    <3> QED BY <3>1, <3>2, Zenon
  <2> HIDE DEF Bad
  <2>4. r # {}
    <3>1. S \ {} = S /\ Sum(S) \in Int
      BY <1>1
    <3>2. Sum(S) = Sum({}) + Sum(S \ {})
      BY <1>3, <3>1, SMTT(20)
    <3> QED BY <2>2, <3>2, Zenon
  <2>5. PICK x \in r : TRUE
    BY <2>4
  <2> DEFINE q == r \ {x}
  <2>6. q \in SUBSET S /\ Cardinality(q) = m - 1 /\ m - 1 \in Nat
    BY <1>1, <2>2, FS_RemoveElement, SMTT(20)
  <2>7. Sum(S) = Sum(q) + Sum(S \ q)
    BY <2>3, <2>6, SMTT(20)
  <2>8. Sum(r) = f[x] + Sum(q)
    BY <1>2
  <2>9. Sum(S \ q) = f[x] + Sum(S \ r)
    <3>1. x \in S \ q /\ (S \ q) \ {x} = S \ r /\ S \ q \in SUBSET S
      OBVIOUS
    <3> QED BY <1>2, <3>1, SMTT(20)
  <2>10. f[x] \in Int /\ Sum(q) \in Int /\ Sum(S \ r) \in Int
    BY <1>1, <2>6
  <2> HIDE DEF q
  <2> QED BY <2>2, <2>7, <2>8, <2>9, <2>10, SMTT(20)
<1>5. Sum(S) = Sum(T) + Sum(S \ T)
  BY <1>1, <1>4, Zenon
<1> QED BY <1>5 DEF Sum

(* The same facts for all subsets of a finite set at once. *)
LEMMA SumSubsets ==
  ASSUME NEW f, NEW S, IsFiniteSet(S), \A x \in S : f[x] \in Int
  PROVE  \A T \in SUBSET S :
           /\ IsFiniteSet(T) /\ Cardinality(T) \in Nat /\ SumFunctionOnSet(f, T) \in Int
           /\ \A x \in T : SumFunctionOnSet(f, T) = f[x] + SumFunctionOnSet(f, T \ {x})
<1> SUFFICES ASSUME NEW T \in SUBSET S
             PROVE  /\ IsFiniteSet(T) /\ Cardinality(T) \in Nat /\ SumFunctionOnSet(f, T) \in Int
                    /\ \A x \in T : SumFunctionOnSet(f, T) = f[x] + SumFunctionOnSet(f, T \ {x})
  OBVIOUS
<1>1. IsFiniteSet(T) /\ Cardinality(T) \in Nat
  BY FS_Subset, FS_CardinalityType
<1> QED BY <1>1, SumInt, SumRemove, SMTT(20)

(* Segments that each end where the next one begins, the last at z: their    *)
(* lengths add up to the distance from the first to z.                       *)
LEMMA Telescope ==
  ASSUME NEW S \in SUBSET Nat, IsFiniteSet(S), S # {}, NEW z \in Nat, NEW e,
         \A b \in S : /\ e[b] \in Nat /\ b < e[b] /\ e[b] <= z /\ e[b] \in S \cup {z}
                      /\ \A c \in S : b < c => e[b] <= c
  PROVE  SumFunction([b \in S |-> e[b] - b]) = z - Min(S)
<1>f. PICK f : f = [b \in S |-> e[b] - b]
  BY Zenon
<1> DEFINE Sum(T) == SumFunctionOnSet(f, T)
           Closed(T) == T # {} /\ \A b \in T : e[b] \in T \cup {z}
           Bad == {n \in Nat : \E T \in SUBSET S : Closed(T) /\ Cardinality(T) = n /\ Sum(T) # z - Min(T)}
<1>1. \A x \in S : f[x] \in Int /\ f[x] = e[x] - x
  BY <1>f, SMTT(20)
<1>0. SumFunction([b \in S |-> e[b] - b]) = Sum(S)
  BY <1>f DEF SumFunction
<1>2. \A T \in SUBSET S : /\ IsFiniteSet(T) /\ Cardinality(T) \in Nat /\ Sum(T) \in Int
                          /\ \A x \in T : Sum(T) = f[x] + Sum(T \ {x})
  <2>1. \A x \in S : f[x] \in Int
    BY <1>1
  <2> QED BY <2>1, SumSubsets, ZenonT(40)
<1>4. Sum({}) = 0
  BY SumEmpty
<1> HIDE DEF Sum
<1>6. ASSUME Bad # {} PROVE FALSE
  <2>1. PICK m \in Bad : \A k \in Bad : m <= k
    BY <1>6, LeastExists, Zenon
  <2>2. PICK T \in SUBSET S : Closed(T) /\ Cardinality(T) = m /\ Sum(T) # z - Min(T)
    OBVIOUS
  <2>3. m \in Nat /\ \A k \in Nat : k < m =>
          \A R \in SUBSET S : Closed(R) /\ Cardinality(R) = k => Sum(R) = z - Min(R)
    <3>1. m \in Nat /\ Bad \in SUBSET Nat
      OBVIOUS
    <3>2. \A k \in Nat : k < m => k \notin Bad
      <4> HIDE DEF Bad
      <4> QED BY <2>1, <3>1, SMTT(20)
    <3> QED BY <3>1, <3>2, Zenon
  <2> HIDE DEF Bad
  <2> DEFINE a == Min(T)
             R == T \ {a}
  <2>4. a \in T /\ (\A y \in T : a <= y) /\ R = T \ {a} /\ Min(T) = a
    BY <2>2, MinLeast
  <2> HIDE DEF a, R
  <2>5. a \in Nat /\ z \in Nat /\ e[a] \in Nat /\ a < e[a] /\ e[a] \in T \cup {z} /\ \A c \in R : e[a] <= c
    BY <2>2, <2>4, SMTT(20)
  <2>6. Cardinality(R) = m - 1 /\ m - 1 \in Nat /\ R \in SUBSET S
    <3>1. R \in SUBSET S /\ IsFiniteSet(T) /\ Cardinality(R) \in Nat
      BY <1>2, <2>4
    <3>2. Cardinality(T \ {a}) = Cardinality(T) - 1
      BY <2>4, <3>1, FS_RemoveElement, Zenon
    <3> QED BY <2>2, <2>3, <2>4, <3>1, <3>2
  <2>7. Sum(T) = (e[a] - a) + Sum(R)
    BY <1>1, <1>2, <2>4
  <2>8. CASE R = {}
    <3>1. e[a] = z
      BY <2>4, <2>5, <2>8, SMTT(20)
    <3>2. Sum(T) = z - a
      BY <1>4, <2>5, <2>7, <2>8, <3>1, SMTT(20)
    <3> QED BY <2>2, <2>4, <3>2
  <2>9. CASE R # {}
    <3>1. e[a] # z
      <4>1. PICK c \in R : TRUE
        BY <2>9
      <4>2. c < e[c] /\ e[c] <= z /\ c \in Nat /\ e[c] \in Nat /\ e[a] <= c
        BY <2>5, <2>6, <4>1
      <4> QED BY <4>2, <2>5, SMTT(20)
    <3>2. e[a] \in R
      BY <2>4, <2>5, <3>1, SMTT(20)
    <3>3. Closed(R)
      <4>1. ASSUME NEW b \in R PROVE e[b] # a
        BY <2>4, <2>5, <2>6, SMTT(20)
      <4> QED BY <2>2, <2>4, <2>9, <4>1
    <3>4. Min(R) = e[a]
      BY <2>5, <2>6, <3>2, MinIs, SMTT(20)
    <3>5. Sum(R) = z - e[a]
      BY <2>3, <2>6, <3>3, <3>4, SMTT(20)
    <3>6. Sum(T) = z - a
      BY <2>5, <2>7, <3>5, SMTT(20)
    <3> QED BY <2>2, <2>4, <3>6
  <2> QED BY <2>8, <2>9
<1>7. Closed(S)
  OBVIOUS
<1>8. Sum(S) = z - Min(S)
  BY <1>2, <1>6, <1>7, Zenon
<1> QED BY <1>0, <1>8
---------------------------------------------------------------------------
(* The listed segments are a chain that ends at the tail of the log.         *)
Listing(f, l, t, sg, h) ==
  /\ DOMAIN f = Live(l, h) /\ DOMAIN sg = Live(l, h) /\ h \in [Name -> SUBSET DOMAIN f]
  /\ DOMAIN f \in SUBSET (0 .. MaxOffset)
  /\ \A b \in DOMAIN f : f[b] \in File /\ b <= t /\ sg[b].end \in Nat /\ sg[b].bytes = f[b].len
  /\ t \in l /\ ~f[t].torn /\ sg[t].end = t + f[t].n
  /\ \A b \in l \ {t} : /\ sg[b].end \in l /\ b < sg[b].end
                        /\ \A c \in l : b < c => sg[b].end <= c

(* What open() would compute. *)
Totals(f, l, nx) ==
  [earliest |-> Min(l), records |-> nx - Min(l), retained |-> FileBytes(f, l)]

(* What a process that goes away leaves: t is the base of the last file. *)
Stored(f, t) ==
  /\ DOMAIN f \in SUBSET (0 .. MaxOffset) /\ \A b \in DOMAIN f : f[b] \in File /\ b <= t
  /\ t \in DOMAIN f /\ t + f[t].n <= MaxOffset /\ acked <= t + f[t].n

Counted ==
  /\ up \in BOOLEAN /\ acked \in Nat
  /\ up => /\ Listing(file, list, tail, seg, held)
           /\ next = tail + file[tail].n /\ next <= MaxOffset /\ acked <= next
           /\ stats = Totals(file, list, next)
  /\ ~up => (\E t \in DOMAIN file : Stored(file, t)) /\ active = {} /\ held = NoHandles
---------------------------------------------------------------------------
(* The bytes of a set of files are those of a part and those of the rest. *)
LEMMA BytesSplit ==
  ASSUME NEW f, NEW l, IsFiniteSet(l), \A b \in l : f[b].len \in Nat
  PROVE  \A T \in SUBSET l : /\ FileBytes(f, T) \in Int /\ FileBytes(f, l \ T) \in Int
                             /\ FileBytes(f, l) = FileBytes(f, T) + FileBytes(f, l \ T)
<1>1. PICK e : e = [b \in l |-> f[b].len]
  BY Zenon
<1>2. \A b \in l : e[b] \in Int
  BY <1>1, SMTT(20)
<1>3. ASSUME NEW S \in SUBSET l
      PROVE  FileBytes(f, S) = SumFunctionOnSet(e, S) /\ SumFunctionOnSet(e, S) \in Int
  <2>1. PICK d : d = [b \in S |-> f[b].len]
    BY Zenon
  <2>2. IsFiniteSet(S) /\ (\A b \in S : e[b] \in Int /\ d[b] = e[b]) /\ DOMAIN d = S
    BY <1>1, <1>2, <2>1, FS_Subset
  <2>3. SumFunctionOnSet(e, S) = SumFunctionOnSet(d, S) /\ SumFunctionOnSet(e, S) \in Int
    BY <2>2, SumEqual, SumInt
  <2>4. FileBytes(f, S) = SumFunctionOnSet(d, S)
    BY <2>1, <2>2 DEF FileBytes, SumFunction
  <2> QED BY <2>3, <2>4
<1>4. \A T \in SUBSET l : SumFunctionOnSet(e, l) = SumFunctionOnSet(e, T) + SumFunctionOnSet(e, l \ T)
  BY <1>2, SumSplit, SMTT(20)
<1> QED BY <1>3, <1>4

(* Files that keep their lengths keep their total. *)
LEMMA BytesSame ==
  ASSUME NEW f, NEW g, NEW l, \A b \in l : g[b].len = f[b].len
  PROVE  FileBytes(g, l) = FileBytes(f, l)
<1>1. [b \in l |-> g[b].len] = [b \in l |-> f[b].len]
  OBVIOUS
<1> QED BY <1>1, Zenon DEF FileBytes

(* One file more, or one that grows. *)
LEMMA BytesGrow ==
  ASSUME NEW f, NEW g, NEW l, IsFiniteSet(l), NEW t \in l,
         \A b \in l \ {t} : f[b].len \in Nat /\ g[b].len = f[b].len,
         g[t].len \in Nat
  PROVE  FileBytes(g, l) = FileBytes(f, l \ {t}) + g[t].len
<1>1. \A b \in l : g[b].len \in Nat
  OBVIOUS
<1>2. FileBytes(g, l) = FileBytes(g, {t}) + FileBytes(g, l \ {t}) /\ FileBytes(g, l \ {t}) \in Int
  <2>1. {t} \in SUBSET l
    OBVIOUS
  <2>2. \A T \in SUBSET l : /\ FileBytes(g, T) \in Int /\ FileBytes(g, l \ T) \in Int
                            /\ FileBytes(g, l) = FileBytes(g, T) + FileBytes(g, l \ T)
    BY <1>1, BytesSplit, SMTT(20)
  <2> QED BY <2>1, <2>2
<1>3. FileBytes(g, l \ {t}) = FileBytes(f, l \ {t})
  BY BytesSame, SMTT(20), ZenonT(20)
<1>4. FileBytes(g, {t}) = g[t].len
  <2>1. PICK d : d = [b \in {t} |-> g[b].len]
    BY Zenon
  <2>2. FileBytes(g, {t}) = SumFunctionOnSet(d, {t}) /\ d[t] = g[t].len
    BY <2>1 DEF FileBytes, SumFunction
  <2>3. {t} \ {t} = {} /\ \A b \in {t} : d[b] \in Int
    BY <2>2, <1>1, SMTT(20)
  <2>4. IsFiniteSet({t})
    BY FS_Singleton, Zenon
  <2>5. SumFunctionOnSet(d, {t}) = d[t] + SumFunctionOnSet(d, {})
    BY <2>3, <2>4, SumRemove, SMTT(20), ZenonT(20)
  <2> QED BY <1>1, <2>2, <2>5, SumEmpty, SMTT(20)
<1> QED BY <1>1, <1>2, <1>3, <1>4, SMTT(20)

(* The numbers of a listing. *)
LEMMA ListingFacts ==
  ASSUME NEW f, NEW l, NEW t, NEW sg, NEW h, Listing(f, l, t, sg, h)
  PROVE  /\ l \in SUBSET DOMAIN f /\ l \in SUBSET Nat /\ IsFiniteSet(l) /\ t \in Nat /\ t \in l /\ l # {}
         /\ \A b \in DOMAIN f : /\ b \in Nat /\ b <= MaxOffset /\ f[b].len \in Nat /\ f[b].n \in Nat
                                /\ sg[b].end \in Nat /\ sg[b].bytes = f[b].len
         /\ \A n \in Name : h[n] \in SUBSET DOMAIN f
<1>1. l \in SUBSET DOMAIN f /\ DOMAIN f \in SUBSET (0 .. MaxOffset) /\ t \in l
  BY DEF Listing, Live
<1>2. MaxOffset \in Nat
  BY TopicConstants
<1>3. IsFiniteSet(0 .. MaxOffset)
  BY <1>2, FS_Interval, SMTT(20)
<1>4. IsFiniteSet(l)
  BY <1>1, <1>3, FS_Subset, Zenon
<1>5. \A b \in DOMAIN f : f[b].len \in Nat /\ f[b].n \in Nat
  BY DEF Listing, File
<1>6. \A b \in DOMAIN f : sg[b].end \in Nat /\ sg[b].bytes = f[b].len
  BY DEF Listing
<1>7. \A n \in Name : h[n] \in SUBSET DOMAIN f
  BY DEF Listing
<1> QED BY <1>1, <1>2, <1>4, <1>5, <1>6, <1>7, SMTT(20)

(* The records of a leading part of the list reach to the first that stays.  *)
LEMMA RecordsCut ==
  ASSUME NEW f, NEW l, NEW t, NEW sg, NEW h, Listing(f, l, t, sg, h),
         NEW gone \in SUBSET (l \ {t}), gone # {}, \A b \in gone : \A c \in l : c <= b => c \in gone
  PROVE  Records(sg, gone) = Min(l \ gone) - Min(l) /\ Min(l) \in Int /\ Min(l \ gone) \in Int
<1>1. l \in SUBSET Nat /\ IsFiniteSet(l) /\ l \in SUBSET DOMAIN f
  BY ListingFacts
<1>0. t \in l
  BY DEF Listing
<1>2. PICK z \in l \ gone : \A c \in l \ gone : z <= c
  BY <1>0, <1>1, LeastExists, Zenon
<1>3. PICK m \in gone : \A c \in gone : m <= c
  BY <1>1, LeastExists
<1>4. Min(l \ gone) = z
  <2>1. l \ gone \in SUBSET Int
    BY <1>1, SMTT(20)
  <2> QED BY <1>2, <2>1, MinIs, Zenon
<1>5. \A b \in gone : \A c \in l \ gone : b < c
  BY <1>1, SMTT(20)
<1>6. Min(l) = m
  BY <1>1, <1>3, <1>5, MinIs, SMTT(20)
<1>7. Min(gone) = m
  BY <1>1, <1>3, MinIs, SMTT(20)
<1>8. PICK e : e = [b \in gone |-> sg[b].end]
  BY Zenon
<1>9. ASSUME NEW b \in gone
      PROVE  /\ e[b] \in Nat /\ b < e[b] /\ e[b] <= z /\ e[b] \in gone \cup {z}
             /\ \A c \in gone : b < c => e[b] <= c
  <2>1. e[b] = sg[b].end /\ b \in l \ {t}
    BY <1>8
  <2>2. e[b] \in l /\ b < e[b] /\ \A c \in l : b < c => e[b] <= c
    BY <2>1 DEF Listing
  <2>3. e[b] <= z
    BY <1>2, <1>5, <2>2
  <2>4. e[b] \notin gone => e[b] = z
    <3>1. e[b] \notin gone => z <= e[b]
      BY <1>2, <2>2
    <3>2. e[b] \in Nat /\ z \in Nat
      BY <1>1, <1>2, <2>2, Zenon
    <3> QED BY <2>3, <3>1, <3>2, SMTT(20)
  <2> QED BY <1>1, <2>2, <2>3, <2>4, Zenon
<1>10. IsFiniteSet(gone) /\ gone \in SUBSET Nat /\ z \in Nat
  BY <1>1, FS_Subset, Zenon
<1>11. SumFunction([b \in gone |-> e[b] - b]) = z - Min(gone)
  BY <1>9, <1>10, Telescope, Zenon
<1>12. [b \in gone |-> e[b] - b] = [b \in gone |-> sg[b].end - b]
  BY <1>8
<1>13. Records(sg, gone) = z - m
  BY <1>7, <1>11, <1>12 DEF Records
<1> QED BY <1>1, <1>2, <1>3, <1>4, <1>6, <1>13, SMTT(20)

(* compact: what it takes leads the list and is not the last segment. *)
LEMMA RemovableLeads ==
  ASSUME NEW f, NEW l, NEW t, NEW sg, NEW h, Listing(f, l, t, sg, h),
         NEW gone, gone = {} \/ gone = Removable(sg, l, t)
  PROVE  gone \in SUBSET (l \ {t}) /\ \A b \in gone : \A c \in l : c <= b => c \in gone
<1>0. l \in SUBSET DOMAIN f /\ l \in SUBSET Nat
  BY ListingFacts
<1>1. l \in SUBSET Nat /\ t \in l /\ \A b \in l : b <= t
  BY <1>0 DEF Listing
<1>2. gone \in SUBSET (l \ {t})
  BY DEF Removable
<1>3. ASSUME NEW b \in gone, NEW c \in l, c <= b PROVE c \in gone
  <2>1. b \in l \ {t} /\ c # t
    BY <1>1, <1>2, <1>3, SMTT(20)
  <2>2. \A d \in l : d <= c => d <= b
    BY <1>1, <1>3, <2>1, SMTT(20)
  <2> QED BY <2>1, <2>2, <1>3 DEF Removable
<1> QED BY <1>2, <1>3

(* compact: the list that is left, and the totals after its subtractions. *)
LEMMA CutListing ==
  ASSUME NEW f, NEW l, NEW t, NEW sg, NEW h, Listing(f, l, t, sg, h),
         NEW gone \in SUBSET (l \ {t}), \A b \in gone : \A c \in l : c <= b => c \in gone,
         NEW S, S = Live(l \ gone, h), NEW nx \in Nat
  PROVE  /\ Listing(Restrict(f, S), l \ gone, t, Restrict(sg, S), h)
         /\ Reclaim(Totals(f, l, nx), sg, l, gone) = Totals(Restrict(f, S), l \ gone, nx)
         /\ t \in S /\ Restrict(f, S)[t] = f[t]
<1> DEFINE g == Restrict(f, S)
           q == Restrict(sg, S)
<1>1. /\ l \in SUBSET DOMAIN f /\ l \in SUBSET Nat /\ IsFiniteSet(l)
      /\ \A b \in DOMAIN f : b \in Nat /\ f[b].len \in Nat /\ sg[b].bytes = f[b].len
  BY ListingFacts, SMTT(20)
<1>2. DOMAIN f = Live(l, h) /\ t \in l /\ h \in [Name -> SUBSET DOMAIN f]
  BY DEF Listing
<1>3. S \in SUBSET DOMAIN f /\ l \ gone \in SUBSET S /\ t \in l \ gone /\ \A n \in Name : h[n] \in SUBSET S
  BY <1>2 DEF Live
<1>4. DOMAIN g = S /\ DOMAIN q = S /\ \A b \in S : g[b] = f[b] /\ q[b] = sg[b]
  BY DEF Restrict
<1> HIDE DEF g, q
<1>5. Listing(g, l \ gone, t, q, h)
  <2>1. ASSUME NEW b \in (l \ gone) \ {t}
        PROVE  q[b].end \in l \ gone /\ b < q[b].end /\ \A c \in l \ gone : b < c => q[b].end <= c
    <3>1. q[b].end \in l /\ b < q[b].end /\ \A c \in l : b < c => q[b].end <= c
      BY <1>3, <1>4, Zenon DEF Listing
    <3>2. q[b].end \notin gone
      BY <1>1, <3>1, SMTT(20)
    <3> QED BY <3>1, <3>2
  <2>2. h \in [Name -> SUBSET DOMAIN g] /\ DOMAIN g \in SUBSET (0 .. MaxOffset)
    BY <1>2, <1>3, <1>4, Zenon DEF Listing
  <2>3. \A b \in DOMAIN g : g[b] \in File /\ b <= t /\ q[b].end \in Nat /\ q[b].bytes = g[b].len
    BY <1>3, <1>4, Zenon DEF Listing
  <2>4. ~g[t].torn /\ q[t].end = t + g[t].n
    BY <1>3, <1>4, Zenon DEF Listing
  <2> QED BY <1>3, <1>4, <2>1, <2>2, <2>3, <2>4, Zenon DEF Listing
<1>6. FileBytes(g, l \ gone) = FileBytes(f, l \ gone)
  BY <1>3, <1>4, BytesSame, SMTT(20)
<1>7. CASE gone = {}
  <2>1. l \ gone = l
    BY <1>7
  <2> QED BY <1>3, <1>4, <1>5, <1>6, <1>7, <2>1 DEF Reclaim, Totals, g, q
<1>8. CASE gone # {}
  <2>1. Records(sg, gone) = Min(l \ gone) - Min(l) /\ Min(l) \in Int /\ Min(l \ gone) \in Int
    BY <1>8, RecordsCut
  <2>2. SegmentBytes(sg, gone) = FileBytes(f, gone)
    <3>1. [b \in gone |-> sg[b].bytes] = [b \in gone |-> f[b].len]
      BY <1>1
    <3> QED BY <3>1, Zenon DEF SegmentBytes, FileBytes
  <2>3. /\ FileBytes(f, gone) \in Int /\ FileBytes(f, l \ gone) \in Int
        /\ FileBytes(f, l) = FileBytes(f, gone) + FileBytes(f, l \ gone)
    <3>1. gone \in SUBSET l /\ \A b \in l : f[b].len \in Nat
      BY <1>1
    <3>2. \A T \in SUBSET l : /\ FileBytes(f, T) \in Int /\ FileBytes(f, l \ T) \in Int
                              /\ FileBytes(f, l) = FileBytes(f, T) + FileBytes(f, l \ T)
      BY <1>1, <3>1, BytesSplit, ZenonT(60)
    <3> QED BY <3>1, <3>2
  <2>4. FileBytes(f, l) - SegmentBytes(sg, gone) = FileBytes(g, l \ gone)
    BY <1>6, <2>2, <2>3, SMTT(20)
  <2>5. (nx - Min(l)) - Records(sg, gone) = nx - Min(l \ gone)
    BY <2>1, SMTT(20)
  <2>6. Reclaim(Totals(f, l, nx), sg, l, gone) = Totals(g, l \ gone, nx)
    BY <1>8, <2>4, <2>5 DEF Reclaim, Totals
  <2> QED BY <1>3, <1>4, <1>5, <2>6, Zenon DEF g, q
<1> QED BY <1>7, <1>8

(* The segments before rotate_segment compacts, or as they are. *)
LEMMA TailListing ==
  ASSUME Counted, up, NEW s \in RecordSize
  PROVE  /\ Listing(Files(s), Listed(s), TailBase(s), Segments(s), held)
         /\ TailBase(s) + Files(s)[TailBase(s)].n = next
         /\ [stats EXCEPT !.retained = IF Rotates(s) THEN @ + HeaderSize ELSE @]
              = Totals(Files(s), Listed(s), next)
<1>1. /\ Listing(file, list, tail, seg, held) /\ next = tail + file[tail].n /\ next <= MaxOffset
      /\ stats = Totals(file, list, next)
  BY DEF Counted
<1>2. /\ list \in SUBSET DOMAIN file /\ list \in SUBSET Nat /\ IsFiniteSet(list) /\ tail \in Nat
      /\ \A b \in DOMAIN file : b \in Nat /\ file[b].len \in Nat /\ file[b].n \in Nat
  BY <1>1, ListingFacts
<1>3. /\ DOMAIN file = Live(list, held) /\ DOMAIN seg = DOMAIN file /\ held \in [Name -> SUBSET DOMAIN file]
      /\ tail \in list /\ seg[tail].end = next /\ \A b \in DOMAIN file : b <= tail
  BY <1>1 DEF Listing
<1>4. /\ DOMAIN Files(s) = DOMAIN file \cup {TailBase(s)} /\ DOMAIN Segments(s) = DOMAIN file \cup {TailBase(s)}
      /\ \A b \in DOMAIN file : Files(s)[b] = file[b] /\ Segments(s)[b] = seg[b]
  BY <1>3 DEF Files, Segments
<1>5. next \in Nat /\ tail <= next
  BY <1>1, <1>2, <1>3, SMTT(20)
<1>6. CASE ~Rotates(s)
  <2>1. TailBase(s) = tail /\ Listed(s) = list /\ DOMAIN Files(s) = DOMAIN file
    BY <1>2, <1>3, <1>4, <1>6 DEF TailBase, Listed
  <2>2. FileBytes(Files(s), list) = FileBytes(file, list)
    BY <1>2, <1>4, BytesSame
  <2>3. Listing(Files(s), list, tail, Segments(s), held)
    BY <1>1, <1>2, <1>3, <1>4, <2>1 DEF Listing
  <2>4. [stats EXCEPT !.retained = @] = Totals(Files(s), list, next)
    BY <1>1, <2>2 DEF Totals
  <2> QED BY <1>1, <1>2, <1>3, <1>4, <1>6, <2>1, <2>3, <2>4
<1>7. CASE Rotates(s)
  <2>1. TailBase(s) = next /\ Listed(s) = list \cup {next} /\ tail < next
    <3>1. TailBase(s) = next /\ Listed(s) = list \cup {next}
      BY <1>7 DEF TailBase, Listed
    <3>2. seg[tail].end # tail
      BY <1>7 DEF Rotates
    <3> QED BY <1>2, <1>3, <1>5, <3>1, <3>2, SMTT(20)
  <2>2. next \notin DOMAIN file
    BY <1>2, <1>3, <1>5, <2>1, SMTT(20)
  <2>3. Files(s)[next] = NewFile(TRUE) /\ Segments(s)[next] = NewSegment(next)
    BY <1>3, <2>1, <2>2 DEF Files, Segments
  <2>4. /\ NewFile(TRUE) \in File /\ NewFile(TRUE).n = 0 /\ ~NewFile(TRUE).torn /\ NewFile(TRUE).len = HeaderSize
        /\ NewSegment(next).end = next /\ NewSegment(next).bytes = HeaderSize /\ HeaderSize \in Nat
    BY TopicConstants DEF NewFile, NewSegment, File
  <2>0. /\ Files(s)[next] \in File /\ Files(s)[next].n = 0 /\ ~Files(s)[next].torn
        /\ Files(s)[next].len = HeaderSize
        /\ Segments(s)[next].end = next /\ Segments(s)[next].bytes = HeaderSize
    BY <2>3, <2>4, Zenon
  <2>5. Live(Listed(s), held) = DOMAIN file \cup {next}
    BY <1>3, <2>1 DEF Live
  <2>6. Listing(Files(s), Listed(s), next, Segments(s), held)
    <3>1. held \in [Name -> SUBSET DOMAIN Files(s)] /\ DOMAIN Files(s) \in SUBSET (0 .. MaxOffset)
      <4>1. DOMAIN file \in SUBSET (0 .. MaxOffset) /\ next \in 0 .. MaxOffset
        BY <1>1, <1>5, TopicConstants, SMTT(20) DEF Listing
      <4> QED BY <1>3, <1>4, <2>1, <4>1
    <3>2. ASSUME NEW b \in DOMAIN Files(s)
          PROVE  /\ Files(s)[b] \in File /\ b <= next /\ Segments(s)[b].end \in Nat
                 /\ Segments(s)[b].bytes = Files(s)[b].len
      <4>1. CASE b = next
        BY <4>1, <1>5, <2>0, SMTT(20)
      <4>2. CASE b \in DOMAIN file
        <5>1. file[b] \in File /\ seg[b].end \in Nat /\ seg[b].bytes = file[b].len
          BY <1>1, <4>2 DEF Listing
        <5>2. b <= next
          BY <1>2, <1>3, <1>5, <4>2, SMTT(20)
        <5> QED BY <1>4, <4>2, <5>1, <5>2
      <4> QED BY <1>4, <2>1, <4>1, <4>2
    <3>3. ~Files(s)[next].torn /\ Segments(s)[next].end = next + Files(s)[next].n
      BY <1>5, <2>0, SMTT(20)
    <3>4. ASSUME NEW b \in Listed(s) \ {next}
          PROVE  /\ Segments(s)[b].end \in Listed(s) /\ b < Segments(s)[b].end
                 /\ \A c \in Listed(s) : b < c => Segments(s)[b].end <= c
      <4>1. b \in list /\ Segments(s)[b] = seg[b] /\ b <= tail
        BY <1>2, <1>3, <1>4, <2>1
      <4>2. CASE b = tail
        BY <1>2, <1>3, <1>5, <2>1, <4>1, <4>2, SMTT(20)
      <4>3. CASE b # tail
        <5>1. seg[b].end \in list /\ b < seg[b].end /\ \A c \in list : b < c => seg[b].end <= c
          BY <1>1, <4>1, <4>3 DEF Listing
        <5>2. seg[b].end <= next
          BY <1>2, <1>3, <1>5, <5>1, SMTT(20)
        <5> QED BY <2>1, <4>1, <5>1, <5>2
      <4> QED BY <4>2, <4>3
    <3> QED BY <1>4, <2>1, <2>5, <3>1, <3>2, <3>3, <3>4, Zenon DEF Listing
  <2>7. Min(Listed(s)) = Min(list)
    <3>1. PICK m \in list : \A c \in list : m <= c
      BY <1>2, <1>3, LeastExists
    <3>2. Min(list) = m
      BY <1>2, <3>1, MinIs, SMTT(20)
    <3>3. Listed(s) \in SUBSET Int /\ m \in Listed(s) /\ \A c \in Listed(s) : m <= c
      BY <1>2, <1>3, <1>5, <2>1, <3>1, SMTT(20)
    <3> QED BY <3>2, <3>3, MinIs
  <2>8. FileBytes(Files(s), Listed(s)) = FileBytes(file, list) + HeaderSize
    <3> DEFINE g == Files(s)
               l == Listed(s)
    <3>1. IsFiniteSet(l)
      BY <1>2, <2>1, FS_AddElement, SMTT(20)
    <3>2. next \in l /\ l \ {next} = list /\ g[next].len = HeaderSize /\ HeaderSize \in Nat
      BY <1>2, <2>1, <2>2, <2>3, <2>4, Zenon
    <3>3. \A b \in l \ {next} : file[b].len \in Nat /\ g[b].len = file[b].len
      BY <1>2, <1>4, <3>2
    <3> HIDE DEF g, l
    <3>4. FileBytes(g, l) = FileBytes(file, l \ {next}) + g[next].len
      BY <3>1, <3>2, <3>3, BytesGrow, SMTT(20)
    <3> QED BY <3>2, <3>4 DEF g, l
  <2>9. [stats EXCEPT !.retained = @ + HeaderSize] = Totals(Files(s), Listed(s), next)
    BY <1>1, <2>7, <2>8, SMTT(20) DEF Totals
  <2>10. next + Files(s)[next].n = next
    BY <1>5, <2>0, SMTT(20)
  <2> QED BY <1>7, <2>1, <2>6, <2>9, <2>10
<1> QED BY <1>6, <1>7

(* The record is written behind the whole ones. *)
LEMMA RecordWritten ==
  ASSUME NEW r \in File, ~r.torn, NEW s \in Nat
  PROVE  /\ WriteRecord(r, s) \in File /\ WriteRecord(r, s).n = r.n + 1
         /\ WriteRecord(r, s).len = r.len + s /\ ~WriteRecord(r, s).torn
<1> DEFINE i == r.n + 1
           j == r.len + s
<1>1. i \in Nat /\ j \in Nat
  BY SMTT(20) DEF File
<1>2. WriteRecord(r, s) = [r EXCEPT !.n = i, !.len = j]
  BY DEF WriteRecord
<1> HIDE DEF i, j
<1>3. /\ [r EXCEPT !.n = i, !.len = j] \in File /\ [r EXCEPT !.n = i, !.len = j].n = i
      /\ [r EXCEPT !.n = i, !.len = j].len = j /\ ~[r EXCEPT !.n = i, !.len = j].torn
  BY <1>1, Zenon DEF File
<1> QED BY <1>2, <1>3, Zenon DEF i, j

(* Files f and segments sg with a record of s bytes more in the segment t. *)
Wrote(f, sg, g, q, t, s) ==
  /\ DOMAIN g = DOMAIN f /\ g[t] = WriteRecord(f[t], s) /\ \A b \in DOMAIN f \ {t} : g[b] = f[b]
  /\ DOMAIN q = DOMAIN sg /\ q[t] = [end |-> t + f[t].n + 1, bytes |-> sg[t].bytes + s]
  /\ \A b \in DOMAIN f \ {t} : q[b] = sg[b]

(* append: the record goes to the last segment. *)
LEMMA WriteListing ==
  ASSUME NEW f, NEW l, NEW t, NEW sg, NEW h, Listing(f, l, t, sg, h), NEW s \in Nat,
         NEW g, NEW q, Wrote(f, sg, g, q, t, s)
  PROVE  /\ Listing(g, l, t, q, h) /\ t + g[t].n = t + f[t].n + 1
         /\ FileBytes(g, l) = FileBytes(f, l) + s
<1>0. /\ DOMAIN g = DOMAIN f /\ g[t] = WriteRecord(f[t], s) /\ \A b \in DOMAIN f \ {t} : g[b] = f[b]
      /\ DOMAIN q = DOMAIN sg /\ q[t] = [end |-> t + f[t].n + 1, bytes |-> sg[t].bytes + s]
      /\ \A b \in DOMAIN f \ {t} : q[b] = sg[b]
  BY Zenon DEF Wrote
<1>1. /\ l \in SUBSET DOMAIN f /\ l \in SUBSET Nat /\ IsFiniteSet(l) /\ t \in Nat
      /\ \A b \in DOMAIN f : b \in Nat /\ f[b].len \in Nat /\ f[b].n \in Nat /\ sg[b].bytes = f[b].len
  BY ListingFacts, SMTT(20)
<1>2. t \in l /\ f[t] \in File /\ ~f[t].torn
  BY <1>1 DEF Listing
<1>3. g[t] \in File /\ g[t].n = f[t].n + 1 /\ g[t].len = f[t].len + s /\ ~g[t].torn
  BY <1>0, <1>2, RecordWritten, SMTT(20)
<1>4. \A b \in DOMAIN g : g[b] \in File /\ b <= t /\ q[b].end \in Nat /\ q[b].bytes = g[b].len
  <2>1. q[t].end \in Nat /\ q[t].bytes = g[t].len /\ t <= t
    BY <1>0, <1>1, <1>2, <1>3, SMTT(20)
  <2>2. \A b \in DOMAIN f \ {t} : g[b] \in File /\ b <= t /\ q[b].end \in Nat /\ q[b].bytes = g[b].len
    BY <1>0 DEF Listing
  <2> QED BY <1>0, <1>3, <2>1, <2>2
<1>5. \A b \in l \ {t} : q[b].end \in l /\ b < q[b].end /\ \A c \in l : b < c => q[b].end <= c
  BY <1>0, <1>1 DEF Listing
<1>6. Listing(g, l, t, q, h)
  <2>1. q[t].end = t + g[t].n
    BY <1>0, <1>1, <1>2, <1>3, SMTT(20)
  <2> QED BY <1>0, <1>2, <1>3, <1>4, <1>5, <2>1 DEF Listing
<1>7. FileBytes(f, l) = FileBytes(f, l \ {t}) + f[t].len
  <2>1. (\A b \in l \ {t} : f[b].len \in Nat /\ f[b].len = f[b].len) /\ f[t].len \in Nat
    BY <1>1, <1>2
  <2> QED BY <1>1, <1>2, <2>1, BytesGrow, SMTT(20)
<1>8. FileBytes(g, l) = FileBytes(f, l \ {t}) + g[t].len
  <2>1. \A b \in l \ {t} : f[b].len \in Nat /\ g[b].len = f[b].len
    BY <1>0, <1>1, Zenon
  <2>2. g[t].len \in Nat
    BY <1>3, Zenon DEF File
  <2> QED BY <1>1, <1>2, <2>1, <2>2, BytesGrow, SMTT(20)
<1>9. FileBytes(f, l \ {t}) \in Int
  <2>1. \A T \in SUBSET l : FileBytes(f, l \ T) \in Int
    BY <1>1, BytesSplit, Zenon
  <2>2. {t} \in SUBSET l
    BY <1>2
  <2> QED BY <2>1, <2>2, Zenon
<1>10. FileBytes(g, l) = FileBytes(f, l) + s
  BY <1>1, <1>2, <1>3, <1>7, <1>8, <1>9, SMTT(20)
<1> QED BY <1>1, <1>2, <1>3, <1>6, <1>10, SMTT(20)
---------------------------------------------------------------------------
LEMMA InitCounted == Init => Counted
<1> SUFFICES ASSUME Init PROVE Counted
  OBVIOUS
<1>0. file[0] = NewFile(TRUE) /\ seg[0] = NewSegment(0)
  BY DEF Init
<1>1. /\ up /\ up \in BOOLEAN /\ DOMAIN file = {0} /\ DOMAIN seg = {0} /\ list = {0} /\ tail = 0 /\ next = 0 /\ held = [n \in Name |-> {}]
      /\ stats = [earliest |-> 0, records |-> 0, retained |-> HeaderSize] /\ acked = 0
  BY DEF Init, NoHandles
<1>2. /\ NewFile(TRUE) \in File /\ NewFile(TRUE).n = 0 /\ ~NewFile(TRUE).torn /\ NewFile(TRUE).len = HeaderSize
      /\ NewSegment(0).end = 0 /\ NewSegment(0).bytes = HeaderSize /\ HeaderSize \in Nat /\ MaxOffset \in Nat
  BY TopicConstants DEF NewFile, NewSegment, File
<1>3. /\ file[0] \in File /\ file[0].n = 0 /\ ~file[0].torn /\ file[0].len = HeaderSize
      /\ seg[0].end = 0 /\ seg[0].bytes = HeaderSize
  BY <1>0, <1>2, Zenon
<1>4. Live(list, held) = {0}
  BY <1>1 DEF Live
<1>5. Listing(file, list, tail, seg, held)
  <2>1. held \in [Name -> SUBSET DOMAIN file] /\ DOMAIN file \in SUBSET (0 .. MaxOffset)
    BY <1>1, <1>2, SMTT(20)
  <2>2. \A b \in DOMAIN file : file[b] \in File /\ b <= tail /\ seg[b].end \in Nat /\ seg[b].bytes = file[b].len
    BY <1>1, <1>3, <1>2, SMTT(20)
  <2>3. tail \in list /\ ~file[tail].torn /\ seg[tail].end = tail + file[tail].n /\ list \ {tail} = {}
    BY <1>1, <1>3, SMTT(20)
  <2> QED BY <1>1, <1>4, <2>1, <2>2, <2>3, Zenon DEF Listing
<1>6. Min({0}) = 0
  <2>1. {0} \in SUBSET Int /\ 0 \in {0} /\ \A y \in {0} : 0 <= y
    BY SMTT(20)
  <2> QED BY <2>1, MinIs
<1>7. FileBytes(file, {0}) = HeaderSize
  <2>1. IsFiniteSet({0}) /\ IsFiniteSet({})
    BY FS_Singleton, FS_EmptySet, Zenon
  <2>2. FileBytes(file, {0}) = FileBytes(file, {0} \ {0}) + file[0].len
    BY <1>2, <1>3, <2>1, BytesGrow, SMTT(20)
  <2>3. FileBytes(file, {}) = 0
    <3>1. FileBytes(file, {}) = SumFunctionOnSet([b \in {} |-> file[b].len], {})
      BY DEF FileBytes, SumFunction
    <3> QED BY <3>1, SumEmpty
  <2>4. {0} \ {0} = {}
    OBVIOUS
  <2>5. FileBytes(file, {0} \ {0}) = 0
    BY <2>3, <2>4, Zenon
  <2> QED BY <1>2, <1>3, <2>2, <2>5, SMTT(20)
<1>8. stats = Totals(file, list, next)
  BY <1>1, <1>6, <1>7, SMTT(20) DEF Totals
<1> QED BY <1>1, <1>2, <1>3, <1>5, <1>8, SMTT(20) DEF Counted

(* append keeps the totals: rotation, compaction and the record. *)
LEMMA AppendCounted ==
  ASSUME Counted, NEW s \in RecordSize, AppendRecord(s)
  PROVE  Counted'
<1> DEFINE t == TailBase(s)
           f0 == Files(s)
           sg0 == Segments(s)
           l0 == Listed(s)
           gone == Dropped(s)
           S == Live(l0 \ gone, held)
           f == Restrict(f0, S)
           sg == Restrict(sg0, S)
           l == l0 \ gone
           st0 == [stats EXCEPT !.retained = IF Rotates(s) THEN @ + HeaderSize ELSE @]
           st == Reclaim(st0, sg0, l0, gone)
<1>1. up /\ next < MaxOffset /\ s \in Nat /\ MaxOffset \in Nat /\ up' = up /\ held' = held
  BY TopicConstants DEF AppendRecord
<1>2. Listing(f0, l0, t, sg0, held) /\ t + f0[t].n = next /\ st0 = Totals(f0, l0, next)
  BY <1>1, TailListing
<1>3. gone = {} \/ gone = Removable(sg0, l0, t)
  BY DEF Dropped
<1>4. /\ list' = l /\ tail' = t /\ next' = next + 1 /\ acked' = next + 1
      /\ seg' = [b \in S |-> IF b = t THEN [end |-> next + 1, bytes |-> sg0[b].bytes + s] ELSE sg0[b]]
      /\ file' = [b \in S |-> IF b = t THEN WriteRecord(f0[b], s) ELSE f0[b]]
      /\ stats' = [st EXCEPT !.records = @ + 1, !.retained = @ + s]
  BY DEF AppendRecord
<1>5. S = Live(l0 \ gone, held) /\ l = l0 \ gone /\ st = Reclaim(st0, sg0, l0, gone)
  OBVIOUS
<1>6. next \in Nat
  <2>1. Listing(file, list, tail, seg, held) /\ next = tail + file[tail].n
    BY <1>1 DEF Counted
  <2>2. tail \in list
    BY <2>1 DEF Listing
  <2>3. tail \in Nat /\ file[tail].n \in Nat
    BY <2>1, <2>2, ListingFacts
  <2> QED BY <2>1, <2>3, SMTT(20)
<1> HIDE DEF t, f0, sg0, l0, gone, S, st0, l, st
<1>7. gone \in SUBSET (l0 \ {t}) /\ \A b \in gone : \A c \in l0 : c <= b => c \in gone
  BY <1>2, <1>3, RemovableLeads
<1>8. /\ Listing(f, l, t, sg, held) /\ st = Totals(f, l, next)
      /\ t \in S /\ f[t] = f0[t]
  <2>1. /\ Listing(Restrict(f0, S), l0 \ gone, t, Restrict(sg0, S), held)
        /\ Reclaim(Totals(f0, l0, next), sg0, l0, gone) = Totals(Restrict(f0, S), l0 \ gone, next)
        /\ t \in S /\ Restrict(f0, S)[t] = f0[t]
    BY <1>2, <1>5, <1>6, <1>7, CutListing, SMTT(20)
  <2> QED BY <1>2, <1>5, <2>1
<1>9. DOMAIN f = S /\ DOMAIN sg = S /\ \A b \in S : f[b] = f0[b] /\ sg[b] = sg0[b]
  BY DEF Restrict
<1> HIDE DEF f, sg
<1>10. t + f[t].n = next
  BY <1>2, <1>8
<1>11. Wrote(f, sg, file', seg', t, s)
  BY <1>4, <1>8, <1>9, <1>10 DEF Wrote
<1>12. /\ Listing(file', l, t, seg', held) /\ t + file'[t].n = t + f[t].n + 1
       /\ FileBytes(file', l) = FileBytes(f, l) + s
  BY <1>1, <1>8, <1>11, WriteListing, SMTT(20)
<1>13. next' = t + file'[t].n /\ next' <= MaxOffset /\ acked' <= next' /\ acked' \in Nat
  BY <1>1, <1>4, <1>6, <1>10, <1>12, SMTT(20)
<1>14. Min(l) \in Int
  <2>1. l \in SUBSET Nat /\ l # {}
    BY <1>8, ListingFacts
  <2>2. ASSUME NEW S0 \in SUBSET Nat, S0 # {} PROVE Min(S0) \in Int
    <3>1. PICK m : m = Min(S0)
      OBVIOUS
    <3>2. m \in S0
      BY <2>2, <3>1, MinLeast
    <3>3. m \in Int
      BY <3>2, SMTT(20)
    <3> QED BY <3>1, <3>3
  <2> QED BY <2>1, <2>2
<1>15. stats' = Totals(file', l, next')
  <2>1. (next - Min(l)) + 1 = (next + 1) - Min(l)
    BY <1>6, <1>14, SMTT(20)
  <2> QED BY <1>4, <1>8, <1>12, <2>1, Zenon DEF Totals
<1>16. Listing(file, list, tail, seg, held)'
  BY <1>1, <1>4, <1>12
<1>17. (next = tail + file[tail].n)' /\ (stats = Totals(file, list, next))'
  BY <1>4, <1>13, <1>15, ZenonT(60) DEF Totals, FileBytes
<1> QED BY <1>1, <1>13, <1>16, <1>17 DEF Counted

LEMMA CompactCounted ==
  ASSUME Counted, Compact
  PROVE  Counted'
<1> DEFINE gone == Removable(seg, list, tail)
           S == Live(list \ gone, held)
<1>1. /\ up /\ Listing(file, list, tail, seg, held) /\ next = tail + file[tail].n /\ next <= MaxOffset
      /\ acked <= next /\ acked \in Nat /\ stats = Totals(file, list, next)
  BY DEF Counted, Compact
<1>2. /\ list' = list \ gone /\ seg' = Restrict(seg, S) /\ file' = Restrict(file, S)
      /\ stats' = Reclaim(stats, seg, list, gone)
      /\ UNCHANGED <<up, tail, next, held, acked>>
  BY DEF Compact
<1>3. S = Live(list \ gone, held) /\ (gone = {} \/ gone = Removable(seg, list, tail))
  OBVIOUS
<1>4. next \in Nat
  <2>1. tail \in Nat /\ file[tail].n \in Nat
    BY <1>1, ListingFacts
  <2> QED BY <1>1, <2>1, SMTT(20)
<1> HIDE DEF gone, S
<1>5. gone \in SUBSET (list \ {tail}) /\ \A b \in gone : \A c \in list : c <= b => c \in gone
  BY <1>1, <1>3, RemovableLeads
<1>6. /\ Listing(Restrict(file, S), list \ gone, tail, Restrict(seg, S), held)
      /\ Reclaim(Totals(file, list, next), seg, list, gone) = Totals(Restrict(file, S), list \ gone, next)
      /\ tail \in S /\ Restrict(file, S)[tail] = file[tail]
  <2>1. Listing(file, list, tail, seg, held)
    BY <1>1
  <2> QED BY <2>1, <1>3, <1>4, <1>5, CutListing, SMTT(20)
<1>7. Listing(file, list, tail, seg, held)'
  BY <1>2, <1>6
<1>8. (stats = Totals(file, list, next))'
  <2>1. stats' = Totals(file', list', next')
    BY <1>1, <1>2, <1>6
  <2> QED BY <2>1 DEF Totals, FileBytes
<1>9. (next = tail + file[tail].n)'
  BY <1>1, <1>2, <1>6
<1> QED BY <1>1, <1>2, <1>7, <1>8, <1>9 DEF Counted

(* A step of a handle: the list stays, and the files of the listed segments. *)
LEMMA HandleCounted ==
  ASSUME Counted, up, UNCHANGED <<up, list, tail, next, stats, acked>>,
         \/ UNCHANGED <<file, seg, held>>
         \/ \E n \in Name : \E h \in SUBSET DOMAIN file : Hold(n, h)
  PROVE  Counted'
<1>1. /\ Listing(file, list, tail, seg, held) /\ next = tail + file[tail].n /\ next <= MaxOffset
      /\ acked <= next /\ acked \in Nat /\ stats = Totals(file, list, next)
  BY DEF Counted
<1>2. CASE UNCHANGED <<file, seg, held>>
  BY <1>1, <1>2, ZenonT(60) DEF Counted, Totals, FileBytes
<1>3. CASE \E n \in Name : \E h \in SUBSET DOMAIN file : Hold(n, h)
  <2>1. PICK n \in Name, h \in SUBSET DOMAIN file : Hold(n, h)
    BY <1>3
  <2> DEFINE S == Live(list, held')
  <2>2. /\ held' = [held EXCEPT ![n] = h] /\ file' = Restrict(file, S) /\ seg' = Restrict(seg, S)
    BY <2>1 DEF Hold
  <2>3. held \in [Name -> SUBSET DOMAIN file] /\ list \in SUBSET DOMAIN file /\ tail \in list
    <3>1. held \in [Name -> SUBSET DOMAIN file] /\ tail \in list
      BY <1>1 DEF Listing
    <3>2. list \in SUBSET DOMAIN file
      BY <1>1, ListingFacts
    <3> QED BY <3>1, <3>2
  <2>4. held' \in [Name -> SUBSET DOMAIN file]
    BY <2>2, <2>3
  <2>5. S \in SUBSET DOMAIN file /\ list \in SUBSET S /\ (\A m \in Name : held'[m] \in SUBSET S)
        /\ S = Live(list, held')
    BY <2>3, <2>4 DEF Live
  <2>6. DOMAIN file' = S /\ DOMAIN seg' = S /\ \A b \in S : file'[b] = file[b] /\ seg'[b] = seg[b]
    BY <2>2 DEF Restrict
  <2> HIDE DEF S
  <2>7. Listing(file', list, tail, seg', held')
    <3>1. held' \in [Name -> SUBSET DOMAIN file'] /\ DOMAIN file' \in SUBSET (0 .. MaxOffset)
      BY <1>1, <2>4, <2>5, <2>6 DEF Listing
    <3>2. \A b \in DOMAIN file' : /\ file'[b] \in File /\ b <= tail /\ seg'[b].end \in Nat
                                  /\ seg'[b].bytes = file'[b].len
      BY <1>1, <2>5, <2>6 DEF Listing
    <3>3. ~file'[tail].torn /\ seg'[tail].end = tail + file'[tail].n
      BY <1>1, <2>3, <2>5, <2>6 DEF Listing
    <3>4. \A b \in list \ {tail} : /\ seg'[b].end \in list /\ b < seg'[b].end
                                   /\ \A c \in list : b < c => seg'[b].end <= c
      BY <1>1, <2>5, <2>6 DEF Listing
    <3> QED BY <2>3, <2>5, <2>6, <3>1, <3>2, <3>3, <3>4 DEF Listing
  <2>8. FileBytes(file', list) = FileBytes(file, list)
    BY <2>5, <2>6, BytesSame
  <2>9. Listing(file, list, tail, seg, held)'
    BY <2>7
  <2>10. (stats = Totals(file, list, next))'
    BY <1>1, <2>8 DEF Totals, FileBytes
  <2>11. (next = tail + file[tail].n)'
    BY <1>1, <2>3, <2>5, <2>6
  <2> QED BY <1>1, <2>9, <2>10, <2>11, Zenon DEF Counted
<1> QED BY <1>2, <1>3
---------------------------------------------------------------------------
(* What is left of a listing when the process goes away. *)
LEMMA DownCounted ==
  ASSUME Counted, NEW f, NEW t \in DOMAIN f, Stored(f, t), Down(f)
  PROVE  Counted'
<1>1. up' = FALSE /\ file' = f /\ active' = {} /\ held' = NoHandles /\ acked' = acked
  BY DEF Down
<1>2. Stored(f, t)' 
  BY <1>1 DEF Stored
<1>4. (\E u \in DOMAIN file : Stored(file, u))'
  BY <1>1, <1>2
<1>5. acked \in Nat
  BY DEF Counted
<1>6. ~up' /\ up' \in BOOLEAN
  BY <1>1, ZenonT(60)
<1>7. (held = NoHandles)'
  BY <1>1 DEF NoHandles
<1> QED BY <1>1, <1>4, <1>5, <1>6, <1>7 DEF Counted

(* A listing whose tail holds the acknowledged records is stored, also when  *)
(* some of the files before the tail are gone.                               *)
LEMMA ListingStored ==
  ASSUME NEW f, NEW l, NEW t, NEW sg, NEW h, Listing(f, l, t, sg, h),
         NEW S \in SUBSET DOMAIN f, t \in S, t + f[t].n <= MaxOffset, acked <= t + f[t].n
  PROVE  Stored(Restrict(f, S), t)
<1>1. DOMAIN Restrict(f, S) = S /\ \A b \in S : Restrict(f, S)[b] = f[b]
  BY DEF Restrict
<1>2. DOMAIN f \in SUBSET (0 .. MaxOffset) /\ \A b \in DOMAIN f : f[b] \in File /\ b <= t
  BY DEF Listing
<1> QED BY <1>1, <1>2 DEF Stored

LEMMA UnlinkedStored ==
  ASSUME NEW f, NEW l, NEW t, NEW sg, NEW h, Listing(f, l, t, sg, h),
         t + f[t].n <= MaxOffset, acked <= t + f[t].n,
         NEW gone, t \notin gone, NEW keep, NEW g \in Unlinked(f, gone, keep)
  PROVE  t \in DOMAIN g /\ Stored(g, t)
<1>1. PICK b \in gone : g = Restrict(f, DOMAIN f \ ({c \in gone : c <= b} \ keep))
  BY DEF Unlinked
<1> DEFINE S == DOMAIN f \ ({c \in gone : c <= b} \ keep)
<1>2. t \in DOMAIN f
  BY ListingFacts
<1>3. S \in SUBSET DOMAIN f /\ t \in S /\ g = Restrict(f, S)
  BY <1>1, <1>2
<1> HIDE DEF S
<1>4. Stored(g, t)
  BY <1>3, ListingStored
<1> QED BY <1>4 DEF Stored

LEMMA CrashCounted ==
  ASSUME Counted, Close \/ Crash \/ CrashInCompact
  PROVE  Counted'
<1>1. up
  BY DEF Close, Crash, CrashInCompact
<1>2. Listing(file, list, tail, seg, held) /\ tail + file[tail].n <= MaxOffset /\ acked <= tail + file[tail].n
  BY <1>1 DEF Counted
<1>3. CASE Down(file)
  <2>1. tail \in DOMAIN file
    BY <1>2, ListingFacts
  <2>2. Stored(file, tail)
    BY <1>2, <2>1 DEF Stored, Listing
  <2> QED BY <1>3, <2>1, <2>2, DownCounted
<1>4. CASE CrashInCompact
  <2> DEFINE gone == Removable(seg, list, tail)
             keep == Live({}, held)
  <2>1. PICK f \in Unlinked(file, gone, keep) : Down(f)
    BY <1>4 DEF CrashInCompact
  <2>2. tail \notin gone
    BY DEF Removable
  <2> HIDE DEF gone, keep
  <2>3. tail \in DOMAIN f /\ Stored(f, tail)
    BY <1>2, <2>1, <2>2, UnlinkedStored
  <2> QED BY <2>1, <2>3, DownCounted
<1> QED BY <1>3, <1>4 DEF Close, Crash

LEMMA CrashInAppendCounted ==
  ASSUME Counted, NEW s \in RecordSize, CrashInAppend(s)
  PROVE  Counted'
<1> DEFINE t == TailBase(s)
           f0 == Files(s)
           gone == Dropped(s)
           keep == Live({}, held)
           S == Live(Listed(s) \ gone, held)
           left == Restrict(f0, S)
<1>1. up /\ next < MaxOffset /\ s \in Nat /\ MaxOffset \in Nat
  BY TopicConstants DEF CrashInAppend
<1>2. Listing(f0, Listed(s), t, Segments(s), held) /\ t + f0[t].n = next
  BY <1>1, TailListing
<1>3. acked \in Nat /\ acked <= next
  BY <1>1 DEF Counted
<1>4. gone = {} \/ gone = Removable(Segments(s), Listed(s), t)
  BY DEF Dropped
<1>5. t \notin gone
  BY <1>4 DEF Removable
<1>6. t \in Listed(s) /\ t \in DOMAIN f0
  BY DEF Listed, Files
<1>7. f0[t] \in File /\ f0[t].n \in Nat /\ t \in Nat /\ f0[t].len \in Nat /\ next \in Nat
  <2>1. f0[t] \in File
    BY <1>2, <1>6 DEF Listing
  <2>2. f0[t].n \in Nat /\ f0[t].len \in Nat /\ t \in Nat
    BY <1>2, <1>6, ListingFacts, SMTT(20), ZenonT(20)
  <2> HIDE DEF t, f0
  <2> QED BY <1>2, <2>1, <2>2, SMTT(20)
<1>8. t \in S /\ S \in SUBSET DOMAIN f0
  <2>1. DOMAIN f0 = Live(Listed(s), held)
    BY <1>2 DEF Listing
  <2> QED BY <2>1, <1>5, <1>6 DEF Live
<1>9. \/ \E whole \in BOOLEAN : Rotates(s) /\ Down([f0 EXCEPT ![t] = NewFile(whole)])
      \/ \E f \in Unlinked(f0, gone, keep) : Down(f)
      \/ Down([left EXCEPT ![t].torn = TRUE])
      \/ Down([left EXCEPT ![t] = WriteRecord(@, s)])
  BY DEF CrashInAppend
<1>10. Rotates(s) => t = next
  BY DEF TailBase
<1> HIDE DEF t, f0, gone, keep, S
<1>0. /\ t + f0[t].n <= MaxOffset /\ acked <= t + f0[t].n
      /\ t + (f0[t].n + 1) <= MaxOffset /\ acked <= t + (f0[t].n + 1)
  BY <1>1, <1>2, <1>3, <1>7, SMTT(20)
<1>11. Stored(f0, t)
  <2>1. DOMAIN f0 \in SUBSET (0 .. MaxOffset) /\ \A b \in DOMAIN f0 : f0[b] \in File /\ b <= t
    BY <1>2, Zenon DEF Listing
  <2> QED BY <1>0, <1>6, <2>1, Zenon DEF Stored
<1>12. Stored(left, t) /\ DOMAIN left = S /\ left[t] = f0[t]
  <2>1. Stored(left, t)
    BY <1>0, <1>2, <1>8, ListingStored
  <2>2. DOMAIN left = S /\ left[t] = f0[t]
    BY <1>8 DEF Restrict
  <2> QED BY <2>1, <2>2
<1> HIDE DEF left
<1>13. ASSUME NEW f, t \in DOMAIN f, Stored(f, t), NEW r \in File,
              t + r.n <= MaxOffset, acked <= t + r.n, Down([f EXCEPT ![t] = r])
       PROVE  Counted'
  <2>1. PICK g : g = [f EXCEPT ![t] = r]
    BY Zenon
  <2>2. DOMAIN g = DOMAIN f /\ g[t] = r /\ \A b \in DOMAIN f \ {t} : g[b] = f[b]
    BY <1>13, <2>1
  <2>3. Stored(g, t)
    BY <1>13, <2>2 DEF Stored
  <2>4. Down(g) /\ t \in DOMAIN g
    BY <1>13, <2>1, <2>2
  <2> QED BY <2>3, <2>4, DownCounted
<1>14. ASSUME NEW whole \in BOOLEAN, Rotates(s), Down([f0 EXCEPT ![t] = NewFile(whole)]) PROVE Counted'
  <2>1. NewFile(whole) \in File /\ NewFile(whole).n = 0
    BY TopicConstants DEF NewFile, File
  <2>2. t + 0 = next
    BY <1>7, <1>10, <1>14, SMTT(20)
  <2> QED BY <1>1, <1>3, <1>6, <1>7, <1>11, <1>13, <1>14, <2>1, <2>2, SMTT(20)
<1>15. ASSUME NEW f \in Unlinked(f0, gone, keep), Down(f) PROVE Counted'
  <2>1. t \in DOMAIN f /\ Stored(f, t)
    BY <1>0, <1>2, <1>5, UnlinkedStored
  <2> QED BY <1>15, <2>1, DownCounted
<1>16. ASSUME Down([left EXCEPT ![t].torn = TRUE]) PROVE Counted'
  <2>1. PICK r : r = [left[t] EXCEPT !.torn = TRUE]
    BY Zenon
  <2>2. r \in File /\ r.n = f0[t].n
    BY <1>7, <1>12, <2>1, Zenon DEF File
  <2>3. [left EXCEPT ![t].torn = TRUE] = [left EXCEPT ![t] = r]
    BY <2>1
  <2>4. t + r.n <= MaxOffset /\ acked <= t + r.n
    BY <1>0, <2>2
  <2> QED BY <1>8, <1>12, <1>13, <1>16, <2>2, <2>3, <2>4, Zenon
<1>17. ASSUME Down([left EXCEPT ![t] = WriteRecord(@, s)]) PROVE Counted'
  <2>1. PICK r : r = WriteRecord(left[t], s)
    OBVIOUS
  <2>2. r \in File /\ r.n = f0[t].n + 1
    <3>1. ~f0[t].torn
      BY <1>2 DEF Listing
    <3> QED BY <1>1, <1>7, <1>12, <2>1, <3>1, RecordWritten, SMTT(20), ZenonT(20)
  <2>3. [left EXCEPT ![t] = WriteRecord(@, s)] = [left EXCEPT ![t] = r]
    BY <2>1
  <2>4. t + r.n <= MaxOffset /\ acked <= t + r.n
    BY <1>0, <2>2, Zenon
  <2> QED BY <1>8, <1>12, <1>13, <1>17, <2>2, <2>3, <2>4, ZenonT(60)
<1> QED BY <1>9, <1>14, <1>15, <1>16, <1>17, Zenon

(* open: the list is the files, the ends are the names.                      *)
LEMMA OpenCounted ==
  ASSUME Counted, Open
  PROVE  Counted'
<1>1. ~up /\ held = NoHandles /\ acked \in Nat
  BY Zenon DEF Counted, Open
<1>2. PICK t \in DOMAIN file : Stored(file, t)
  BY <1>1 DEF Counted
<1>3. /\ DOMAIN file \in SUBSET Nat /\ DOMAIN file \in SUBSET (0 .. MaxOffset) /\ MaxOffset \in Nat
      /\ t \in Nat /\ \A b \in DOMAIN file : file[b] \in File /\ b <= t
      /\ t + file[t].n <= MaxOffset /\ acked <= t + file[t].n
  BY <1>2, TopicConstants, SMTT(20) DEF Stored
<1>4. LastBase = t
  <2>1. t \in DOMAIN file /\ \A c \in DOMAIN file : c <= t
    BY <1>3
  <2>2. \E x \in DOMAIN file : \A y \in DOMAIN file : x >= y
    BY <1>3, <2>1
  <2>3. LastBase \in DOMAIN file /\ \A y \in DOMAIN file : LastBase >= y
    BY <2>2, Zenon DEF LastBase, Max
  <2> QED BY <1>3, <2>1, <2>3, SMTT(20)
<1>5. ASSUME NEW b \in DOMAIN file, b # t
      PROVE  /\ SealedEnd(b) \in DOMAIN file /\ b < SealedEnd(b)
             /\ \A c \in DOMAIN file : b < c => SealedEnd(b) <= c
  <2> DEFINE T == {c \in DOMAIN file : c > b}
  <2>1. T \in SUBSET Nat /\ t \in T
    BY <1>3, <1>5, SMTT(20)
  <2>2. SealedEnd(b) = Min(T)
    BY DEF SealedEnd
  <2>3. Min(T) \in T /\ \A y \in T : Min(T) <= y
    <3> HIDE DEF T
    <3> QED BY <2>1, MinLeast
  <2> QED BY <2>2, <2>3
<1>6. PICK g : g = [file EXCEPT ![t].torn = FALSE]
  BY Zenon
<1>7. /\ up' = TRUE /\ file' = g /\ list' = DOMAIN file /\ tail' = t /\ held' = NoHandles /\ acked' = acked
      /\ seg' = [b \in DOMAIN file |->
                   [end |-> IF b = t THEN b + file[b].n ELSE SealedEnd(b), bytes |-> file[b].len]]
      /\ next' = t + file[t].n
      /\ stats' = Totals(file, DOMAIN file, t + file[t].n)
  BY <1>1, <1>4, <1>6 DEF Open, Scanned, Totals
<1>8. /\ DOMAIN g = DOMAIN file /\ \A b \in DOMAIN file : g[b] \in File /\ g[b].n = file[b].n /\ g[b].len = file[b].len
      /\ ~g[t].torn
  <2>1. DOMAIN g = DOMAIN file /\ \A b \in DOMAIN file \ {t} : g[b] = file[b]
    BY <1>6
  <2>2. g[t] = [file[t] EXCEPT !.torn = FALSE]
    BY <1>6
  <2>3. ASSUME NEW r \in File
        PROVE  /\ [r EXCEPT !.torn = FALSE] \in File /\ [r EXCEPT !.torn = FALSE].n = r.n
               /\ [r EXCEPT !.torn = FALSE].len = r.len /\ ~[r EXCEPT !.torn = FALSE].torn
    BY Zenon DEF File
  <2>4. file[t] \in File
    BY <1>3
  <2>5. g[t] \in File /\ g[t].n = file[t].n /\ g[t].len = file[t].len /\ ~g[t].torn
    BY <2>2, <2>3, <2>4
  <2> QED BY <1>3, <2>1, <2>5
<1>9. Live(DOMAIN file, NoHandles) = DOMAIN file /\ NoHandles \in [Name -> SUBSET DOMAIN file]
  BY DEF Live, NoHandles
<1>10. \A b \in DOMAIN file : file[b].n \in Nat /\ file[b].len \in Nat /\ b \in Nat
  BY <1>3 DEF File
<1>11. /\ DOMAIN seg' = DOMAIN file /\ seg'[t].end = t + file[t].n
       /\ \A b \in DOMAIN file : seg'[b].bytes = file[b].len
       /\ \A b \in DOMAIN file \ {t} : seg'[b].end = SealedEnd(b)
  BY <1>7
<1>12. \A b \in DOMAIN file : seg'[b].end \in Nat
  <2>1. seg'[t].end \in Nat
    BY <1>10, <1>11, SMTT(20)
  <2>2. ASSUME NEW b \in DOMAIN file, b # t PROVE seg'[b].end \in Nat
    BY <1>3, <1>5, <1>11, <2>2
  <2> QED BY <2>1, <2>2
<1>13. Listing(g, DOMAIN file, t, seg', NoHandles)
  <2>1. \A b \in DOMAIN file \ {t} : /\ seg'[b].end \in DOMAIN file /\ b < seg'[b].end
                                     /\ \A c \in DOMAIN file : b < c => seg'[b].end <= c
    BY <1>5, <1>11
  <2> QED BY <1>3, <1>8, <1>9, <1>11, <1>12, <2>1 DEF Listing
<1>14. stats' = Totals(g, DOMAIN file, t + g[t].n)
  <2>1. FileBytes(g, DOMAIN file) = FileBytes(file, DOMAIN file)
    BY <1>8, BytesSame, SMTT(20)
  <2> QED BY <1>7, <1>8, <2>1 DEF Totals
<1>15. Listing(file, list, tail, seg, held)'
  BY <1>7, <1>13, Zenon
<1>16. (stats = Totals(file, list, next))'
  <2>1. stats' = Totals(file', list', next')
    BY <1>7, <1>8, <1>14
  <2> QED BY <2>1 DEF Totals, FileBytes
<1>17. (next = tail + file[tail].n /\ next <= MaxOffset /\ acked <= next)' /\ up' /\ up' \in BOOLEAN
  BY <1>3, <1>7, <1>8
<1> QED BY <1>1, <1>7, <1>15, <1>16, <1>17, ZenonT(60) DEF Counted

(* Everything else leaves the list and the totals alone. *)
LEMMA ReaderCounted ==
  ASSUME Counted, up, NEW n \in Name,
         \/ Consumer(n) \/ ReadNext(n) \/ ReadFails(n) \/ ReadPanics(n)
         \/ Commit(n) \/ Reset(n) \/ DropConsumer(n) \/ DeleteConsumer(n)
         \/ \E o \in Offset : Seek(n, o)
  PROVE  Counted'
<1>1. Listing(file, list, tail, seg, held)
  BY ZenonT(60) DEF Counted
<1>2. list \in SUBSET DOMAIN file /\ \A m \in Name : held[m] \in SUBSET DOMAIN file
  BY <1>1, ListingFacts, Zenon
<1>3. UNCHANGED <<up, list, tail, next, stats, acked>>
  BY Zenon DEF Consumer, ReadNext, ReadFails, ReadPanics, Commit, Reset, DropConsumer, DeleteConsumer, Seek, Move, Release
<1>4. \A b \in Source(n) : {b} \in SUBSET DOMAIN file
  BY <1>2, Zenon DEF Source, Current, Containing
<1>5. \/ UNCHANGED <<file, seg, held>>
      \/ \E h \in SUBSET DOMAIN file : Hold(n, h)
  <2>1. {} \in SUBSET DOMAIN file
    OBVIOUS
  <2>2. CASE Consumer(n) \/ Commit(n)
    BY <2>2, Zenon DEF Consumer, Commit
  <2>3. CASE ReadNext(n)
    BY <2>3, <1>4 DEF ReadNext
  <2>4. CASE ReadFails(n)
    <3>1. PICK b \in Source(n) : Hold(n, IF b \in held[n] \/ cons[n].volatile - b = file[b].n THEN {b} ELSE {})
      BY <2>4, Zenon DEF ReadFails
    <3>2. Hold(n, {b}) \/ Hold(n, {})
      BY <3>1, Zenon
    <3> QED BY <1>4, <2>1, <3>2
  <2>5. CASE ReadPanics(n) \/ DropConsumer(n) \/ Reset(n) \/ DeleteConsumer(n) \/ \E o \in Offset : Seek(n, o)
    <3>1. Hold(n, {})
      BY <2>5, Zenon DEF ReadPanics, DropConsumer, Release, Reset, Move, DeleteConsumer, Seek
    <3> QED BY <2>1, <3>1
  <2> QED BY <2>2, <2>3, <2>4, <2>5
<1> QED BY <1>3, <1>5, HandleCounted

LEMMA StepCounted == Counted /\ [Next]_vars => Counted'
<1> SUFFICES ASSUME Counted, [Next]_vars PROVE Counted'
  OBVIOUS
<1>1. CASE UNCHANGED vars
  BY <1>1 DEF vars, Counted, Stored
<1>2. ASSUME NEW s \in RecordSize, AppendRecord(s) \/ CrashInAppend(s) PROVE Counted'
  BY <1>2, AppendCounted, CrashInAppendCounted
<1>3. ASSUME NEW n \in Name,
             \/ Consumer(n) \/ ReadNext(n) \/ ReadFails(n) \/ ReadPanics(n)
             \/ Commit(n) \/ Reset(n) \/ DropConsumer(n) \/ DeleteConsumer(n)
             \/ \E o \in Offset : Seek(n, o)
      PROVE  Counted'
  <2>1. up \/ n \in active
    BY <1>3 DEF Consumer, ReadNext, ReadFails, ReadPanics, Commit, Reset, DropConsumer, DeleteConsumer,
                Seek, Pending
  <2>2. up
    BY <2>1 DEF Counted
  <2> QED BY <1>3, <2>2, ReaderCounted
<1>4. CASE Compact
  BY <1>4, CompactCounted
<1>5. CASE Close \/ Crash \/ CrashInCompact
  BY <1>5, CrashCounted
<1>6. CASE Open
  BY <1>6, OpenCounted
<1>7. CASE OpenFails
  BY <1>1, <1>7 DEF OpenFails
<1> QED BY <1>1, <1>2, <1>3, <1>4, <1>5, <1>6, <1>7 DEF Next

LEMMA AlwaysCounted == Spec => []Counted
BY InitCounted, StepCounted, PTL DEF Spec

(* Whatever the consumers do, seeking below what is left included, the       *)
(* statistics that append and compact keep by addition and subtraction are   *)
(* those open() would compute from the listed files; in particular none of   *)
(* the subtractions goes below zero.                                         *)
THEOREM TopicStatsExact == Spec => []StatsExact
<1>1. Counted => StatsExact
  BY DEF Counted, StatsExact, Totals
<1> QED BY <1>1, AlwaysCounted, PTL

(* Whatever the consumers do, a process crash inside append, compact or      *)
(* between calls and the next open keep every acknowledged record.           *)
THEOREM TopicAckedSurvive == Spec => []AckedSurvive
<1>1. Counted => AckedSurvive
  <2> SUFFICES ASSUME Counted, up PROVE next >= acked
    BY DEF AckedSurvive
  <2>1. /\ Listing(file, list, tail, seg, held) /\ next = tail + file[tail].n /\ acked <= next /\ acked \in Nat
    BY DEF Counted
  <2>2. tail \in Nat /\ file[tail].n \in Nat
    BY <2>1, ListingFacts
  <2> QED BY <2>1, <2>2
<1> QED BY <1>1, AlwaysCounted, PTL
=============================================================================
