------------------------------ MODULE FoldProofs ------------------------------
(***************************************************************************)
(* Facts about finite sets and sequences that the proofs keep needing.  A  *)
(* finite set has a greatest and a least element by any measure.  A fold   *)
(* is a recursion over the places still to come: SolutionExists gives the  *)
(* recursion a solution, so that it is the one the fold chooses, and       *)
(* Counting and ByAppending are inductions whose statement is a set.  With *)
(* them: what Only, SumOf, InOrderOf, Joined, SortedOn and FirstBy of      *)
(* Sequencing give.                                                        *)
(***************************************************************************)
EXTENDS Sequencing, FiniteSetTheorems, WellFoundedInduction, SequenceTheorems, TLAPS

-----------------------------------------------------------------------------
(* Extremes *)

Tops(S, f) == {m \in S : \A x \in S : f[x] <= f[m]}

\* Shown on a smallest subset without a greatest element: there is none.
LEMMA Topmost ==
  ASSUME NEW S, IsFiniteSet(S), S # {}, NEW f, \A x \in S : f[x] \in Int
  PROVE  \E m \in S : \A x \in S : f[x] <= f[m]
<1> DEFINE Topless == {U \in SUBSET S : U # {} /\ Tops(U, f) = {}}
<1>1. SUFFICES ASSUME Topless # {} PROVE FALSE
  BY DEF Tops
<1>2. IsWellFoundedOn(StrictSubsetOrdering(S), SUBSET S)
  BY FS_StrictSubsetOrderingWellFounded, FS_FiniteSubsetsOfFinite
<1>3. PICK U \in Topless : \A V \in Topless : <<V, U>> \notin StrictSubsetOrdering(S)
  <2> DEFINE R == StrictSubsetOrdering(S)
  <2>1. Topless \subseteq SUBSET S
    OBVIOUS
  <2> HIDE DEF R, Topless
  <2>2. \E U \in Topless : \A V \in Topless : ~ (<<V, U>> \in R)
    BY <1>1, <1>2, <2>1, WFMin DEF R
  <2> QED BY <2>2 DEF R
<1>4. PICK u \in U : TRUE
  OBVIOUS
<1>5. U \ {u} \notin Topless
  BY <1>3, <1>4 DEF StrictSubsetOrdering
<1>6. CASE U \ {u} = {}
  BY <1>4, <1>6 DEF Tops
<1>7. CASE U \ {u} # {}
  <2>1. PICK m \in U \ {u} : \A x \in U \ {u} : f[x] <= f[m]
    BY <1>5, <1>7 DEF Tops
  <2>2. f[u] \in Int /\ f[m] \in Int /\ \A x \in U : f[x] \in Int
    BY <1>4
  <2>3. CASE f[u] <= f[m]
    BY <2>1, <2>2, <2>3 DEF Tops
  <2>4. CASE f[m] <= f[u]
    BY <1>4, <2>1, <2>2, <2>4 DEF Tops
  <2> QED BY <2>2, <2>3, <2>4
<1> QED BY <1>6, <1>7

\* The same for a least element.
LEMMA Bottommost ==
  ASSUME NEW S, IsFiniteSet(S), S # {}, NEW f, \A x \in S : f[x] \in Int
  PROVE  \E m \in S : \A x \in S : f[m] <= f[x]
<1> DEFINE g == [x \in S |-> -f[x]]
<1>1. \A x \in S : g[x] \in Int
  OBVIOUS
<1> HIDE DEF g
<1>2. PICK m \in S : \A x \in S : g[x] <= g[m]
  BY <1>1, Topmost
<1> QED BY <1>2 DEF g

\* The values a function takes on a finite set are finitely many.
LEMMA FiniteImage ==
  ASSUME NEW D, IsFiniteSet(D), NEW f
  PROVE  IsFiniteSet({f[x] : x \in D})
<1> DEFINE T == {f[x] : x \in D}
           g == [x \in D |-> f[x]]
<1>1. g \in Surjection(D, T)
  BY DEF Surjection
<1> HIDE DEF T, g
<1>2. IsFiniteSet(T)
  BY <1>1, FS_Surjection
<1> QED BY <1>2 DEF T

-----------------------------------------------------------------------------
(* Orders, as sets of pairs of an earlier and a later element.               *)

StrictOrder(R, D) ==
  /\ \A x \in D : <<x, x>> \notin R
  /\ \A x, y, z \in D : <<x, y>> \in R /\ <<y, z>> \in R => <<x, z>> \in R

Predecessors(x, D, R) == {y \in D : <<y, x>> \in R}

\* Fewer elements are before an earlier element.
LEMMA FewerBefore ==
  ASSUME NEW D, IsFiniteSet(D), NEW R, StrictOrder(R, D)
  PROVE  /\ \A x \in D : Cardinality(Predecessors(x, D, R)) \in 0..(Cardinality(D) - 1)
         /\ \A x, y \in D : <<x, y>> \in R =>
               Cardinality(Predecessors(x, D, R)) < Cardinality(Predecessors(y, D, R))
<1>1. ASSUME NEW x \in D PROVE Cardinality(Predecessors(x, D, R)) \in 0..(Cardinality(D) - 1)
  <2>1. Predecessors(x, D, R) \in SUBSET D /\ Predecessors(x, D, R) # D
    BY DEF Predecessors, StrictOrder
  <2>2. /\ IsFiniteSet(Predecessors(x, D, R))
        /\ Cardinality(Predecessors(x, D, R)) <= Cardinality(D)
        /\ Cardinality(D) # Cardinality(Predecessors(x, D, R))
    BY <2>1, FS_Subset
  <2>3. Cardinality(D) \in Nat /\ Cardinality(Predecessors(x, D, R)) \in Nat
    BY <2>2, FS_CardinalityType
  <2> QED BY <2>2, <2>3
<1>2. ASSUME NEW x \in D, NEW y \in D, <<x, y>> \in R
      PROVE  Cardinality(Predecessors(x, D, R)) < Cardinality(Predecessors(y, D, R))
  <2>1. Predecessors(x, D, R) \in SUBSET Predecessors(y, D, R)
    BY <1>2 DEF Predecessors, StrictOrder
  <2>2. x \in Predecessors(y, D, R) /\ x \notin Predecessors(x, D, R)
    BY <1>2 DEF Predecessors, StrictOrder
  <2>3. IsFiniteSet(Predecessors(y, D, R))
    BY FS_Subset DEF Predecessors
  <2>4. /\ Cardinality(Predecessors(x, D, R)) <= Cardinality(Predecessors(y, D, R))
        /\ Cardinality(Predecessors(y, D, R)) # Cardinality(Predecessors(x, D, R))
    BY <2>1, <2>2, <2>3, FS_Subset
  <2>5. Cardinality(Predecessors(x, D, R)) \in Int /\ Cardinality(Predecessors(y, D, R)) \in Int
    BY <1>1, FS_CardinalityType
  <2> QED BY <2>4, <2>5
<1> QED BY <1>1, <1>2

\* A finite ordered set has an element with none before it.
LEMMA Minimal ==
  ASSUME NEW D, IsFiniteSet(D), D # {}, NEW R, StrictOrder(R, D)
  PROVE  \E m \in D : \A o \in D : <<o, m>> \notin R
<1> DEFINE f == [x \in D |-> Cardinality(Predecessors(x, D, R))]
<1>1. \A x \in D : f[x] \in Int
  BY FewerBefore, FS_CardinalityType
<1>2. \A x, y \in D : <<x, y>> \in R => f[x] < f[y]
  BY FewerBefore
<1> HIDE DEF f
<1>3. PICK m \in D : \A x \in D : f[m] <= f[x]
  BY <1>1, Bottommost
<1> QED BY <1>1, <1>2, <1>3

\* InOrderOf lists every element of a set that R orders once, and nothing else.
LEMMA ListedInOrder ==
  ASSUME NEW D, IsFiniteSet(D), NEW R, StrictOrder(R, D),
         \A x, y \in D : x = y \/ <<x, y>> \in R \/ <<y, x>> \in R
  PROVE  /\ InOrderOf(D, R) \in Seq(D)
         /\ Len(InOrderOf(D, R)) = Cardinality(D)
         /\ \A x \in D : \E k \in 1..Cardinality(D) : InOrderOf(D, R)[k] = x
         /\ \A k, j \in 1..Cardinality(D) : InOrderOf(D, R)[k] = InOrderOf(D, R)[j] => k = j
<1> DEFINE n == Cardinality(D)
           rank == [x \in D |-> Cardinality(Predecessors(x, D, R))]
           At(k) == CHOOSE x \in D : rank[x] = k - 1
<1>1. n \in Nat
  BY FS_CardinalityType
<1>2. rank \in [D -> 0..(n - 1)]
  BY FewerBefore
<1>3. \A x, y \in D : x # y => rank[x] # rank[y]
  <2>1. \A x, y \in D : <<x, y>> \in R => rank[x] < rank[y]
    BY FewerBefore
  <2>2. \A x \in D : rank[x] \in Int
    BY <1>1, <1>2
  <2> HIDE DEF rank
  <2> TAKE x, y \in D
  <2> HAVE x # y
  <2>3. rank[x] < rank[y] \/ rank[y] < rank[x]
    BY <2>1
  <2> QED BY <2>2, <2>3
<1>4. InOrderOf(D, R) = [k \in 1..n |-> At(k)]
  <2>1. \A k \in 1..n : At(k) = CHOOSE x \in D : Cardinality({y \in D : <<y, x>> \in R}) = k - 1
    BY DEF Predecessors
  <2> QED BY <2>1 DEF InOrderOf
<1> HIDE DEF rank
<1>5. rank \in Surjection(D, 0..(n - 1))
  <2>1. rank \in Injection(D, 0..(n - 1))
    BY <1>2, <1>3 DEF Injection, IsInjective
  <2>2. IsFiniteSet(0..(n - 1)) /\ Cardinality(0..(n - 1)) = n
    BY <1>1, FS_Interval
  <2> QED BY <2>1, <2>2, FS_Injection
<1>6. ASSUME NEW k \in 1..n PROVE At(k) \in D /\ rank[At(k)] = k - 1
  <2>1. k - 1 \in 0..(n - 1)
    BY <1>1
  <2>2. \E x \in D : rank[x] = k - 1
    BY <1>5, <2>1 DEF Surjection
  <2> QED BY <2>2
<1>7. ASSUME NEW x \in D PROVE \E k \in 1..n : At(k) = x
  <2>1. rank[x] \in 0..(n - 1)
    BY <1>2
  <2>2. rank[x] + 1 \in 1..n /\ (rank[x] + 1) - 1 = rank[x]
    BY <1>1, <2>1
  <2>3. At(rank[x] + 1) \in D /\ rank[At(rank[x] + 1)] = rank[x]
    BY <1>6, <2>2
  <2> HIDE DEF At
  <2> QED BY <1>3, <2>2, <2>3
<1> HIDE DEF At
<1>8. [k \in 1..n |-> At(k)] \in Seq(D) /\ Len([k \in 1..n |-> At(k)]) = n
  <2>1. [k \in 1..n |-> At(k)] \in [1..n -> D]
    BY <1>6
  <2> QED BY <1>1, <2>1
<1>9. ASSUME NEW k \in 1..n, NEW j \in 1..n, At(k) = At(j) PROVE k = j
  <2>1. k - 1 = j - 1 /\ k \in Int /\ j \in Int
    BY <1>1, <1>6, <1>9
  <2> QED BY <2>1
<1>10. \A k \in 1..n : InOrderOf(D, R)[k] = At(k)
  BY <1>4
<1>11. \A x \in D : \E k \in 1..n : InOrderOf(D, R)[k] = x
  BY <1>7, <1>10
<1>12. \A k, j \in 1..n : InOrderOf(D, R)[k] = InOrderOf(D, R)[j] => k = j
  BY <1>9, <1>10
<1> QED BY <1>4, <1>8, <1>11, <1>12

-----------------------------------------------------------------------------
(* The order of tuples                                                       *)

Keyed(K, D, n) ==
  \A x \in D : DOMAIN K[x] = 1..n /\ \A k \in 1..n : K[x][k] \in Int

Earlier(K, D) == {p \in D \X D : LexLess(K[p[1]], K[p[2]])}

\* Keys of one length and of numbers are strictly ordered.
LEMMA LexOrder ==
  ASSUME NEW n \in Nat, NEW D, NEW K, Keyed(K, D, n)
  PROVE  StrictOrder(Earlier(K, D), D)
<1>1. ASSUME NEW x \in D PROVE <<x, x>> \notin Earlier(K, D)
  BY DEF Earlier, LexLess, Keyed
<1>2. ASSUME NEW x \in D, NEW y \in D, NEW z \in D,
             <<x, y>> \in Earlier(K, D), <<y, z>> \in Earlier(K, D)
      PROVE  <<x, z>> \in Earlier(K, D)
  <2> DEFINE a == K[x]
             b == K[y]
             c == K[z]
  <2>1. /\ DOMAIN a = 1..n /\ DOMAIN b = 1..n
        /\ \A k \in 1..n : a[k] \in Int /\ b[k] \in Int /\ c[k] \in Int
    BY DEF Keyed
  <2>2. LexLess(a, b) /\ LexLess(b, c)
    BY <1>2 DEF Earlier
  <2>3. SUFFICES LexLess(a, c)
    BY DEF Earlier
  <2> HIDE DEF a, b, c
  <2>4. PICK i \in 1..n : a[i] < b[i] /\ \A j \in 1..(i - 1) : a[j] = b[j]
    BY <2>1, <2>2 DEF LexLess
  <2>5. PICK k \in 1..n : b[k] < c[k] /\ \A j \in 1..(k - 1) : b[j] = c[j]
    BY <2>1, <2>2 DEF LexLess
  <2>6. CASE i <= k
    <3>1. b[i] <= c[i] /\ a[i] < c[i]
      <4>1. CASE i = k
        BY <2>1, <2>4, <2>5, <4>1
      <4>2. CASE i < k
        BY <2>1, <2>4, <2>5, <4>2
      <4> QED BY <2>6, <4>1, <4>2
    <3>2. \A j \in 1..(i - 1) : a[j] = c[j]
      BY <2>4, <2>5, <2>6
    <3> QED BY <2>1, <3>1, <3>2 DEF LexLess
  <2>7. CASE k < i
    <3>1. a[k] < c[k]
      BY <2>1, <2>4, <2>5, <2>7
    <3>2. \A j \in 1..(k - 1) : a[j] = c[j]
      BY <2>4, <2>5, <2>7
    <3> QED BY <2>1, <3>1, <3>2 DEF LexLess
  <2> QED BY <2>6, <2>7
<1> QED BY <1>1, <1>2 DEF StrictOrder

\* Some element of a finite set has no key before its own.
LEMMA LexLeast ==
  ASSUME NEW n \in Nat, NEW D, IsFiniteSet(D), D # {}, NEW K, Keyed(K, D, n)
  PROVE  \E m \in D : \A o \in D : ~LexLess(K[o], K[m])
<1>1. StrictOrder(Earlier(K, D), D)
  BY LexOrder
<1>2. PICK m \in D : \A o \in D : <<o, m>> \notin Earlier(K, D)
  BY <1>1, Minimal
<1> QED BY <1>2 DEF Earlier

-----------------------------------------------------------------------------
(* Recursion over a finite set: f[T] is made of the element ch[T] and of   *)
(* what f gives for the rest.                                              *)

Solutions(U, ch, V, base, G) ==
  {f \in [SUBSET U -> V] : \A T \in SUBSET U :
     f[T] = IF T = {} THEN base ELSE G[<<ch[T], f[T \ {ch[T]}]>>]}

\* What f does to the subsets of T.
Restricted(f, T) == [X \in SUBSET T |-> f[X]]

\* A solution of the recursion solves it on every subset.
LEMMA SolutionsRestrict ==
  ASSUME NEW U, NEW ch, NEW V, NEW base, NEW G, NEW f \in Solutions(U, ch, V, base, G),
         NEW T \in SUBSET U, \A X \in SUBSET U : X # {} => ch[X] \in X
  PROVE  Restricted(f, T) \in Solutions(T, ch, V, base, G)
<1> DEFINE g == Restricted(f, T)
<1>1. \A X \in SUBSET T : g[X] = f[X] /\ X \in SUBSET U
  BY DEF Restricted
<1>2. g \in [SUBSET T -> V]
  BY DEF Restricted, Solutions
<1>3. ASSUME NEW X \in SUBSET T
      PROVE  g[X] = IF X = {} THEN base ELSE G[<<ch[X], g[X \ {ch[X]}]>>]
  <2>1. X \ {ch[X]} \in SUBSET T
    OBVIOUS
  <2>2. f[X] = IF X = {} THEN base ELSE G[<<ch[X], f[X \ {ch[X]}]>>]
    BY DEF Solutions
  <2> HIDE DEF g
  <2> QED BY <1>1, <2>1, <2>2
<1> QED BY <1>2, <1>3 DEF Solutions

\* The recursion has a solution on every finite set: there is no smallest set without one.
LEMMA SolutionExists ==
  ASSUME NEW S, IsFiniteSet(S), NEW ch, \A T \in SUBSET S : T # {} => ch[T] \in T,
         NEW V, NEW base \in V, NEW G, \A x \in S, v \in V : G[<<x, v>>] \in V
  PROVE  Solutions(S, ch, V, base, G) # {}
<1> DEFINE Sol(U) == Solutions(U, ch, V, base, G)
           Unsolved == {U \in SUBSET S : ~ \E f \in Sol(U) : \A g \in Sol(U) : g = f}
<1>1. SUFFICES ASSUME Unsolved # {} PROVE FALSE
  OBVIOUS
<1>2. IsWellFoundedOn(StrictSubsetOrdering(S), SUBSET S)
  BY FS_StrictSubsetOrderingWellFounded, FS_FiniteSubsetsOfFinite
<1>3. PICK U \in Unsolved : \A W \in Unsolved : <<W, U>> \notin StrictSubsetOrdering(S)
  <2> DEFINE R == StrictSubsetOrdering(S)
  <2>1. Unsolved \subseteq SUBSET S
    OBVIOUS
  <2> HIDE DEF R, Unsolved
  <2>2. \E W \in Unsolved : \A X \in Unsolved : ~ (<<X, W>> \in R)
    BY <1>1, <1>2, <2>1, WFMin DEF R
  <2> QED BY <2>2 DEF R
<1> DEFINE Own(T) == CHOOSE f \in Sol(T) : \A g \in Sol(T) : g = f
<1>4. ASSUME NEW T \in SUBSET U, T # U
      PROVE  Own(T) \in Sol(T) /\ \A g \in Sol(T) : g = Own(T)
  <2>1. T \notin Unsolved
    BY <1>3, <1>4 DEF StrictSubsetOrdering
  <2> QED BY <2>1
<1> HIDE DEF Sol, Own
<1> DEFINE last == ch[U]
           top == IF U = {} THEN base ELSE G[<<last, Own(U \ {last})[U \ {last}]>>]
           f == [T \in SUBSET U |-> IF T = U THEN top ELSE Own(T)[T]]
<1>5. U \subseteq S
  OBVIOUS
<1>6. ASSUME NEW T \in SUBSET U, T # U PROVE Own(T)[T] \in V
  <2>1. Own(T) \in [SUBSET T -> V]
    BY <1>4, <1>6 DEF Sol, Solutions
  <2> QED BY <2>1
<1>7. f \in [SUBSET U -> V]
  <2>1. U # {} => last \in U /\ U \ {last} # U
    BY <1>5
  <2>2. top \in V
    BY <1>5, <1>6, <2>1
  <2> HIDE DEF top
  <2> QED BY <1>6, <2>2
<1>8. ASSUME NEW T \in SUBSET U, T # U, NEW X \in SUBSET T
      PROVE  Own(T)[X] = Own(X)[X] /\ X # U
  <2>1. Restricted(Own(T), X) \in Sol(X)
    BY <1>4, <1>5, <1>8, SolutionsRestrict DEF Sol
  <2>2. X # U
    BY <1>8
  <2>3. Restricted(Own(T), X) = Own(X)
    BY <1>4, <2>1, <2>2
  <2>4. Restricted(Own(T), X)[X] = Own(T)[X]
    BY DEF Restricted
  <2> QED BY <2>2, <2>3, <2>4
<1>9. ASSUME NEW T \in SUBSET U
      PROVE  f[T] = IF T = {} THEN base ELSE G[<<ch[T], f[T \ {ch[T]}]>>]
  <2>1. T # {} => ch[T] \in T /\ T \ {ch[T]} # U /\ T \ {ch[T]} \in SUBSET U
    BY <1>5
  <2>2. CASE T = U
    BY <2>1, <2>2
  <2>3. CASE T # U
    <3>1. f[T] = Own(T)[T]
      BY <2>3
    <3>2. Own(T)[T] = IF T = {} THEN base ELSE G[<<ch[T], Own(T)[T \ {ch[T]}]>>]
      BY <1>4, <2>3 DEF Sol, Solutions
    <3>3. T # {} => Own(T)[T \ {ch[T]}] = f[T \ {ch[T]}]
      <4> SUFFICES ASSUME T # {} PROVE Own(T)[T \ {ch[T]}] = f[T \ {ch[T]}]
        OBVIOUS
      <4> DEFINE X == T \ {ch[T]}
      <4>1. X \in SUBSET T /\ X \in SUBSET U
        OBVIOUS
      <4> HIDE DEF X
      <4>2. Own(T)[X] = Own(X)[X] /\ X # U
        BY <1>8, <2>3, <4>1
      <4>3. f[X] = Own(X)[X]
        BY <4>1, <4>2
      <4> QED BY <4>2, <4>3 DEF X
    <3> HIDE DEF f
    <3> QED BY <3>1, <3>2, <3>3
  <2> QED BY <2>2, <2>3
<1>10. f \in Sol(U)
  <2> HIDE DEF f
  <2> QED BY <1>7, <1>9 DEF Sol, Solutions
<1>11. ASSUME NEW g \in Sol(U) PROVE g = f
  <2>1. g \in [SUBSET U -> V]
    BY DEF Sol, Solutions
  <2>2. ASSUME NEW T \in SUBSET U, T # U PROVE g[T] = f[T]
    <3>1. Restricted(g, T) \in Sol(T)
      BY <1>5, SolutionsRestrict DEF Sol
    <3>2. Restricted(g, T) = Own(T)
      BY <1>4, <2>2, <3>1
    <3>3. Restricted(g, T)[T] = g[T]
      BY DEF Restricted
    <3> QED BY <2>2, <3>2, <3>3
  <2>3. g[U] = f[U]
    <3>1. g[U] = IF U = {} THEN base ELSE G[<<last, g[U \ {last}]>>]
      BY DEF Sol, Solutions
    <3>2. f[U] = IF U = {} THEN base ELSE G[<<last, f[U \ {last}]>>]
      BY <1>9
    <3>3. U # {} => U \ {last} # U
      BY <1>5
    <3>4. U # {} => g[U \ {last}] = f[U \ {last}]
      BY <2>2, <3>3
    <3> HIDE DEF f
    <3> QED BY <3>1, <3>2, <3>4
  <2> HIDE DEF f
  <2>4. f \in [SUBSET U -> V]
    BY <1>7
  <2>5. \A T \in SUBSET U : g[T] = f[T]
    BY <2>2, <2>3
  <2> QED BY <2>1, <2>4, <2>5
<1> HIDE DEF f
<1> QED BY <1>10, <1>11 DEF Sol

-----------------------------------------------------------------------------
(* Only *)

\* A set of numbers has a least one.
LEMMA LeastNumber ==
  ASSUME NEW n \in Nat, NEW K \in SUBSET (0..n), K # {}
  PROVE  \E k \in K : \A j \in K : k <= j
<1> DEFINE f == [k \in K |-> k]
<1>1. IsFiniteSet(K)
  <2>1. IsFiniteSet(0..n)
    BY FS_Interval
  <2> QED BY <2>1, FS_Subset
<1>2. \A k \in K : f[k] \in Int
  OBVIOUS
<1> HIDE DEF f
<1>3. \E k \in K : \A j \in K : f[k] <= f[j]
  BY <1>1, <1>2, Bottommost
<1> QED BY <1>3 DEF f

\* What holds of 0 and, after k - 1, of k holds of every number up to n.
LEMMA Counting ==
  ASSUME NEW n \in Nat, NEW K, 0 \in K, \A k \in 1..n : k - 1 \in K => k \in K
  PROVE  \A k \in 0..n : k \in K
<1> DEFINE Bad == {k \in 0..n : k \notin K}
<1>1. SUFFICES ASSUME Bad # {} PROVE FALSE
  OBVIOUS
<1>2. PICK k \in Bad : \A j \in Bad : k <= j
  BY <1>1, LeastNumber
<1>3. k \in 1..n /\ k - 1 \in 0..n /\ ~ (k <= k - 1)
  BY <1>2
<1>4. k - 1 \in K
  BY <1>2, <1>3
<1> QED BY <1>2, <1>3, <1>4

\* The last of the first k places is k.
LEMMA MaxOfInterval ==
  ASSUME NEW n \in Nat, NEW k \in 1..n
  PROVE  /\ 1..k \in SUBSET (1..n) /\ 1..k # {}
         /\ Max(1..k) = k /\ (1..k) \ {k} = 1..(k - 1)
<1>1. k \in 1..k /\ \A j \in 1..k : k >= j
  OBVIOUS
<1>2. \A m \in 1..k : (\A j \in 1..k : m >= j) => m = k
  BY <1>1
<1>3. Max(1..k) = k
  BY <1>1, <1>2 DEF Max
<1>4. 1..k \in SUBSET (1..n) /\ 1..k # {}
  OBVIOUS
<1>5. (1..k) \ {k} = 1..(k - 1)
  OBVIOUS
<1> QED BY <1>3, <1>4, <1>5

\* A set of places has a last one in it.
LEMMA MaxOfPlaces ==
  ASSUME NEW n \in Nat, NEW T \in SUBSET (1..n), T # {}
  PROVE  Max(T) \in T
<1> DEFINE f == [k \in T |-> k]
<1>1. IsFiniteSet(T)
  <2>1. IsFiniteSet(1..n)
    BY FS_Interval
  <2> QED BY <2>1, FS_Subset
<1>2. \A k \in T : f[k] \in Int
  OBVIOUS
<1> HIDE DEF f
<1>3. \E k \in T : \A j \in T : f[j] <= f[k]
  BY <1>1, <1>2, Topmost
<1>4. \E k \in T : \A j \in T : k >= j
  BY <1>3 DEF f
<1> QED BY <1>4 DEF Max

OnlyTrace(h, T, s, S) ==
  /\ h \in [0..Len(s) -> Seq(T)]
  /\ h[0] = <<>>
  /\ \A k \in 1..Len(s) :
       h[k] = IF s[k] \in S THEN Append(h[k - 1], s[k]) ELSE h[k - 1]

\* Only, place after place.
LEMMA OnlyFold ==
  ASSUME NEW T, NEW s \in Seq(T), NEW S
  PROVE  \E h : OnlyTrace(h, T, s, S) /\ Only(s, S) = h[Len(s)]
<1> DEFINE n == Len(s)
           D == 1..n
           V == Seq(T)
           ch == [X \in SUBSET D |-> Max(X)]
           G == [p \in D \X V |-> IF s[p[1]] \in S THEN Append(p[2], s[p[1]]) ELSE p[2]]
           Eq(F) == F = [X \in SUBSET D |->
                           IF X = {} THEN <<>>
                           ELSE IF s[Max(X)] \in S
                                THEN Append(F[X \ {Max(X)}], s[Max(X)])
                                ELSE F[X \ {Max(X)}]]
           H == CHOOSE F : Eq(F)
<1>1. /\ n \in Nat /\ DOMAIN s = D /\ \A i \in D : s[i] \in T
      /\ <<>> \in V /\ IsFiniteSet(D)
      /\ \A v \in V, e \in T : Append(v, e) \in V
  BY LenProperties, ElementOfSeq, EmptySeq, AppendProperties, FS_Interval
<1>2. Only(s, S) = H[D]
  BY <1>1 DEF Only, FoldLeft, MapThenFoldSet
<1>3. \E F : Eq(F)
  <2>1. \A X \in SUBSET D : X # {} => ch[X] \in X
    BY <1>1, MaxOfPlaces
  <2>2. \A i \in D, v \in V : G[<<i, v>>] \in V
    BY <1>1
  <2>3. PICK F \in Solutions(D, ch, V, <<>>, G) : TRUE
    <3> HIDE DEF D, ch, V, G
    <3> QED BY <1>1, <2>1, <2>2, SolutionExists
  <2>4. F \in [SUBSET D -> V]
    BY DEF Solutions
  <2>5. ASSUME NEW X \in SUBSET D
        PROVE  F[X] = IF X = {} THEN <<>>
                      ELSE IF s[Max(X)] \in S
                           THEN Append(F[X \ {Max(X)}], s[Max(X)])
                           ELSE F[X \ {Max(X)}]
    <3>1. F[X] = IF X = {} THEN <<>> ELSE G[<<ch[X], F[X \ {ch[X]}]>>]
      BY DEF Solutions
    <3>2. X # {} => /\ ch[X] = Max(X) /\ Max(X) \in D
                    /\ F[X \ {Max(X)}] \in V
      BY <2>1, <2>4
    <3> QED BY <3>1, <3>2
  <2> QED BY <2>4, <2>5
<1>4. Eq(H)
  BY <1>3
<1> DEFINE h == [k \in 0..n |-> H[1..k]]
<1>5. h[0] = <<>>
  <2>2. H[{}] = <<>>
    BY <1>4
  <2> HIDE DEF H
  <2>1. 1..0 = {} /\ {} \in SUBSET D /\ 0 \in 0..n
    BY <1>1
  <2> HIDE DEF D
  <2> QED BY <2>1, <2>2
<1>6. ASSUME NEW k \in 1..n
      PROVE  h[k] = IF s[k] \in S THEN Append(h[k - 1], s[k]) ELSE h[k - 1]
  <2>1. 1..k \in SUBSET D /\ 1..k # {} /\ Max(1..k) = k /\ (1..k) \ {k} = 1..(k - 1)
    BY <1>1, MaxOfInterval
  <2>2. H[1..k] = IF s[k] \in S THEN Append(H[1..(k - 1)], s[k]) ELSE H[1..(k - 1)]
    BY <1>4, <2>1
  <2> HIDE DEF H
  <2> QED BY <1>1, <2>2
<1> HIDE DEF H, h
<1>7. \A k \in 0..n : h[k] \in V
  <2> DEFINE K == {k \in 0..n : h[k] \in V}
  <2>1. 0 \in K
    <3>1. 0 \in 0..n /\ h[0] \in V
      BY <1>1, <1>5
    <3> HIDE DEF V
    <3> QED BY <3>1
  <2>2. ASSUME NEW k \in 1..n, k - 1 \in K PROVE k \in K
    <3>1. k \in 0..n /\ h[k - 1] \in V /\ s[k] \in T
      BY <1>1, <2>2
    <3>2. h[k] \in V
      BY <1>1, <1>6, <3>1
    <3> HIDE DEF V
    <3> QED BY <3>1, <3>2
  <2> HIDE DEF K
  <2>3. n \in Nat
    BY <1>1
  <2>4. \A k \in 0..n : k \in K
    BY <2>1, <2>2, <2>3, Counting
  <2> QED BY <2>4 DEF K
<1>8. h \in [0..n -> V] /\ h[n] = H[D]
  BY <1>1, <1>7 DEF h
<1> QED BY <1>2, <1>5, <1>6, <1>8 DEF OnlyTrace

\* The entries kept are entries of the sequence.
LEMMA OnlyType ==
  ASSUME NEW T, NEW s \in Seq(T), NEW S
  PROVE  Only(s, S) \in Seq(T)
<1>1. PICK h : OnlyTrace(h, T, s, S) /\ Only(s, S) = h[Len(s)]
  BY OnlyFold
<1> QED BY <1>1, LenProperties DEF OnlyTrace

\* The empty sequence has no entries to keep.
LEMMA OnlyOfNothing ==
  ASSUME NEW S
  PROVE  Only(<<>>, S) = <<>>
<1>1. <<>> \in Seq({}) /\ Len(<<>>) = 0
  BY EmptySeq
<1>2. PICK h : OnlyTrace(h, {}, <<>>, S) /\ Only(<<>>, S) = h[Len(<<>>)]
  BY <1>1, OnlyFold
<1> QED BY <1>1, <1>2 DEF OnlyTrace

\* A last entry is kept or not.
LEMMA OnlyOfAppend ==
  ASSUME NEW T, NEW s \in Seq(T), NEW e \in T, NEW S
  PROVE  Only(Append(s, e), S) = IF e \in S THEN Append(Only(s, S), e) ELSE Only(s, S)
<1> DEFINE n == Len(s)
           t == Append(s, e)
<1>1. /\ n \in Nat /\ t \in Seq(T) /\ Len(t) = n + 1
      /\ \A i \in 1..n : t[i] = s[i]
      /\ t[n + 1] = e
  BY LenProperties, AppendProperties
<1>2. PICK g : OnlyTrace(g, T, s, S) /\ Only(s, S) = g[n]
  BY OnlyFold
<1> HIDE DEF t
<1>3. PICK h : OnlyTrace(h, T, t, S) /\ Only(t, S) = h[n + 1]
  BY <1>1, OnlyFold
<1>4. h[n] = g[n]
  <2> DEFINE K == {k \in 0..n : h[k] = g[k]}
  <2>1. 0 \in K
    BY <1>1, <1>2, <1>3 DEF OnlyTrace
  <2>2. ASSUME NEW k \in 1..n, k - 1 \in K PROVE k \in K
    BY <1>1, <1>2, <1>3, <2>2 DEF OnlyTrace
  <2> HIDE DEF K
  <2>3. \A k \in 0..n : k \in K
    BY <1>1, <2>1, <2>2, Counting
  <2> QED BY <1>1, <2>3 DEF K
<1>5. h[n + 1] = IF e \in S THEN Append(h[n], e) ELSE h[n]
  BY <1>1, <1>3 DEF OnlyTrace
<1> QED BY <1>2, <1>3, <1>4, <1>5 DEF t

\* A sequence grows from nothing by appending, one place after the other.
LEMMA Growing ==
  ASSUME NEW T, NEW s \in Seq(T)
  PROVE  /\ Len(s) \in Nat
         /\ SubSeq(s, 1, 0) = <<>> /\ SubSeq(s, 1, Len(s)) = s
         /\ \A k \in 0..Len(s) : SubSeq(s, 1, k) \in Seq(T)
         /\ \A k \in 1..Len(s) : /\ s[k] \in T
                                  /\ SubSeq(s, 1, k) = Append(SubSeq(s, 1, k - 1), s[k])
<1>1. Len(s) \in Nat /\ \A k \in 1..Len(s) : s[k] \in T
  BY LenProperties, ElementOfSeq
<1>2. SubSeq(s, 1, 0) = <<>> /\ SubSeq(s, 1, Len(s)) = s
  BY SubSeqEmpty, SubSeqFull
<1>3. \A k \in 0..Len(s) : SubSeq(s, 1, k) \in Seq(T)
  BY <1>1, SubSeqProperties
<1>4. \A k \in 1..Len(s) : SubSeq(s, 1, k) = Append(SubSeq(s, 1, k - 1), s[k])
  BY <1>1, SubSeqRecursiveSecond
<1> QED BY <1>1, <1>2, <1>3, <1>4

\* Induction over sequences: Z holds the empty one and is closed under Append.
LEMMA ByAppending ==
  ASSUME NEW T, NEW Z, <<>> \in Z, \A q \in Seq(T), e \in T : q \in Z => Append(q, e) \in Z
  PROVE  \A s \in Seq(T) : s \in Z
<1> SUFFICES ASSUME NEW s \in Seq(T) PROVE s \in Z
  OBVIOUS
<1> DEFINE p == [k \in 0..Len(s) |-> SubSeq(s, 1, k)]
           K == {k \in 0..Len(s) : p[k] \in Z}
<1>1. /\ Len(s) \in Nat /\ p[0] = <<>> /\ p[Len(s)] = s
      /\ \A k \in 0..Len(s) : p[k] \in Seq(T)
      /\ \A k \in 1..Len(s) : s[k] \in T /\ p[k] = Append(p[k - 1], s[k])
  <2>1. Len(s) \in Nat /\ 0 \in 0..Len(s) /\ Len(s) \in 0..Len(s)
    BY LenProperties
  <2>2. \A k \in 1..Len(s) : k \in 0..Len(s) /\ k - 1 \in 0..Len(s)
    BY <2>1
  <2> QED BY <2>1, <2>2, Growing
<1> HIDE DEF p
<1>2. 0 \in K
  BY <1>1
<1>3. ASSUME NEW k \in 1..Len(s), k - 1 \in K PROVE k \in K
  <2>1. p[k - 1] \in Z /\ p[k - 1] \in Seq(T) /\ s[k] \in T /\ p[k] = Append(p[k - 1], s[k])
    BY <1>1, <1>3
  <2>2. p[k] \in Z
    BY <2>1
  <2> QED BY <2>2
<1> HIDE DEF K
<1>4. \A k \in 0..Len(s) : k \in K
  BY <1>1, <1>2, <1>3, Counting
<1> QED BY <1>1, <1>4 DEF K

\* Filtering goes through concatenation.
LEMMA OnlyOfConcat ==
  ASSUME NEW T, NEW s \in Seq(T), NEW t \in Seq(T), NEW S
  PROVE  Only(s \o t, S) = Only(s, S) \o Only(t, S)
<1> DEFINE Z == {q \in Seq(T) : Only(s \o q, S) = Only(s, S) \o Only(q, S)}
<1>1. Only(s, S) \in Seq(T)
  BY OnlyType
<1>2. <<>> \in Z
  <2>1. s \o <<>> = s /\ Only(s, S) \o <<>> = Only(s, S) /\ <<>> \in Seq(T)
    BY <1>1, ConcatEmptySeq, EmptySeq
  <2> QED BY <2>1, OnlyOfNothing
<1>3. ASSUME NEW q \in Seq(T), NEW e \in T, q \in Z PROVE Append(q, e) \in Z
  <2> DEFINE sq == s \o q
  <2>1. sq \in Seq(T) /\ s \o Append(q, e) = Append(sq, e) /\ Append(q, e) \in Seq(T)
    OBVIOUS
  <2>2. Only(sq, S) = Only(s, S) \o Only(q, S)
    BY <1>3
  <2> HIDE DEF sq
  <2>3. Only(Append(sq, e), S) = IF e \in S THEN Append(Only(sq, S), e) ELSE Only(sq, S)
    BY <2>1, OnlyOfAppend
  <2>4. Only(q, S) \in Seq(T)
        /\ Only(Append(q, e), S) = IF e \in S THEN Append(Only(q, S), e) ELSE Only(q, S)
    BY OnlyOfAppend, OnlyType
  <2>5. Only(s, S) \o Append(Only(q, S), e) = Append(Only(s, S) \o Only(q, S), e)
    BY <1>1, <2>4
  <2>6. Only(s \o Append(q, e), S) = Only(s, S) \o Only(Append(q, e), S)
    BY <2>1, <2>2, <2>3, <2>4, <2>5
  <2> QED BY <2>1, <2>6
<1> HIDE DEF Z
<1>4. t \in Z
  BY <1>2, <1>3, ByAppending
<1> QED BY <1>4 DEF Z

\* Entries that are all in S, or in neither or both of S and R.
LEMMA OnlySame ==
  ASSUME NEW T, NEW s \in Seq(T), NEW S, NEW R,
         \A i \in DOMAIN s : s[i] \in S <=> s[i] \in R
  PROVE  Only(s, S) = Only(s, R)
<1>1. PICK g : OnlyTrace(g, T, s, S) /\ Only(s, S) = g[Len(s)]
  BY OnlyFold
<1>2. PICK h : OnlyTrace(h, T, s, R) /\ Only(s, R) = h[Len(s)]
  BY OnlyFold
<1>3. Len(s) \in Nat /\ DOMAIN s = 1..Len(s)
  BY LenProperties
<1> DEFINE K == {k \in 0..Len(s) : g[k] = h[k]}
<1>4. 0 \in K
  BY <1>1, <1>2, <1>3 DEF OnlyTrace
<1>5. ASSUME NEW k \in 1..Len(s), k - 1 \in K PROVE k \in K
  BY <1>1, <1>2, <1>3, <1>5 DEF OnlyTrace
<1> HIDE DEF K
<1>6. \A k \in 0..Len(s) : k \in K
  BY <1>3, <1>4, <1>5, Counting
<1> QED BY <1>1, <1>2, <1>3, <1>6 DEF K

\* A filter that every entry passes.
LEMMA OnlyOfAll ==
  ASSUME NEW T, NEW S, T \subseteq S, NEW s \in Seq(T)
  PROVE  Only(s, S) = s
<1> DEFINE Z == {q \in Seq(T) : Only(q, S) = q}
<1>1. <<>> \in Z
  BY OnlyOfNothing, EmptySeq
<1>2. ASSUME NEW q \in Seq(T), NEW e \in T, q \in Z PROVE Append(q, e) \in Z
  <2>1. Append(q, e) \in Seq(T) /\ Only(Append(q, e), S) = Append(Only(q, S), e)
    BY OnlyOfAppend
  <2> QED BY <1>2, <2>1
<1> HIDE DEF Z
<1>3. s \in Z
  BY <1>1, <1>2, ByAppending
<1> QED BY <1>3 DEF Z

\* A filter that no entry passes.
LEMMA OnlyOfNone ==
  ASSUME NEW T, NEW S, T \cap S = {}, NEW s \in Seq(T)
  PROVE  Only(s, S) = <<>>
<1> DEFINE Z == {q \in Seq(T) : Only(q, S) = <<>>}
<1>1. <<>> \in Z
  BY OnlyOfNothing, EmptySeq
<1>2. ASSUME NEW q \in Seq(T), NEW e \in T, q \in Z PROVE Append(q, e) \in Z
  <2>1. Append(q, e) \in Seq(T) /\ e \notin S /\ Only(Append(q, e), S) = Only(q, S)
    BY OnlyOfAppend
  <2> QED BY <1>2, <2>1
<1> HIDE DEF Z
<1>3. s \in Z
  BY <1>1, <1>2, ByAppending
<1> QED BY <1>3 DEF Z

\* Two filters are one.
LEMMA OnlyTwice ==
  ASSUME NEW T, NEW s \in Seq(T), NEW A, NEW B
  PROVE  Only(Only(s, A), B) = Only(s, A \cap B)
<1> DEFINE C == A \cap B
<1>0. \A e : e \in C <=> e \in A /\ e \in B
  OBVIOUS
<1> HIDE DEF C
<1> DEFINE Z == {q \in Seq(T) : Only(Only(q, A), B) = Only(q, C)}
<1>1. <<>> \in Z
  BY OnlyOfNothing, EmptySeq
<1>2. ASSUME NEW q \in Seq(T), NEW e \in T, q \in Z PROVE Append(q, e) \in Z
  <2> DEFINE r == Only(q, A)
  <2>1. /\ Append(q, e) \in Seq(T) /\ r \in Seq(T)
        /\ Only(Append(q, e), A) = IF e \in A THEN Append(r, e) ELSE r
    BY OnlyOfAppend, OnlyType
  <2>5. Only(Append(q, e), C) = IF e \in C THEN Append(Only(q, C), e) ELSE Only(q, C)
    BY OnlyOfAppend
  <2>2. Only(r, B) = Only(q, C)
    BY <1>2
  <2> HIDE DEF r
  <2>3. Only(Append(r, e), B) = IF e \in B THEN Append(Only(r, B), e) ELSE Only(r, B)
    BY <2>1, OnlyOfAppend
  <2>4. Only(Only(Append(q, e), A), B) = Only(Append(q, e), C)
    <3>1. CASE e \in A
      BY <1>0, <2>1, <2>2, <2>3, <2>5, <3>1
    <3>2. CASE e \notin A
      BY <1>0, <2>1, <2>2, <2>5, <3>2
    <3> QED BY <3>1, <3>2
  <2> QED BY <2>1, <2>4
<1> HIDE DEF Z
<1>3. s \in Z
  BY <1>1, <1>2, ByAppending
<1> QED BY <1>3 DEF Z, C

\* The entries after one more.
LEMMA ToSetOfAppend ==
  ASSUME NEW T, NEW s \in Seq(T), NEW e \in T
  PROVE  ToSet(Append(s, e)) = ToSet(s) \cup {e}
<1>1. /\ Append(s, e) \in Seq(T) /\ Len(Append(s, e)) = Len(s) + 1
      /\ \A i \in 1..Len(s) : Append(s, e)[i] = s[i]
      /\ Append(s, e)[Len(s) + 1] = e
      /\ Len(s) \in Nat
  BY AppendProperties, LenProperties
<1>2. DOMAIN s = 1..Len(s) /\ DOMAIN Append(s, e) = (1..Len(s)) \cup {Len(s) + 1}
  BY <1>1
<1> QED BY <1>1, <1>2 DEF ToSet

\* What is kept is what was there and passes.
LEMMA OnlyRange ==
  ASSUME NEW T, NEW s \in Seq(T), NEW S
  PROVE  ToSet(Only(s, S)) = ToSet(s) \cap S
<1> DEFINE Z == {q \in Seq(T) : ToSet(Only(q, S)) = ToSet(q) \cap S}
<1>1. <<>> \in Z
  <2>1. ToSet(<<>>) = {}
    BY EmptySeq DEF ToSet
  <2> QED BY <2>1, OnlyOfNothing, EmptySeq
<1>2. ASSUME NEW q \in Seq(T), NEW e \in T, q \in Z PROVE Append(q, e) \in Z
  <2> DEFINE r == Only(q, S)
  <2>1. /\ Append(q, e) \in Seq(T) /\ r \in Seq(T)
        /\ Only(Append(q, e), S) = IF e \in S THEN Append(r, e) ELSE r
        /\ ToSet(Append(q, e)) = ToSet(q) \cup {e}
    BY OnlyOfAppend, OnlyType, ToSetOfAppend
  <2>2. ToSet(r) = ToSet(q) \cap S
    BY <1>2
  <2> HIDE DEF r
  <2>3. ToSet(Append(r, e)) = ToSet(r) \cup {e}
    BY <2>1, ToSetOfAppend
  <2>4. ToSet(Only(Append(q, e), S)) = ToSet(Append(q, e)) \cap S
    BY <2>1, <2>2, <2>3
  <2> QED BY <2>1, <2>4
<1> HIDE DEF Z
<1>3. s \in Z
  BY <1>1, <1>2, ByAppending
<1> QED BY <1>3 DEF Z

\* What is kept is a sequence of what passes.
LEMMA OnlyWithin ==
  ASSUME NEW T, NEW s \in Seq(T), NEW S
  PROVE  Only(s, S) \in Seq(T \cap S)
<1> DEFINE r == Only(s, S)
<1>1. r \in Seq(T) /\ ToSet(r) = ToSet(s) \cap S
  BY OnlyType, OnlyRange
<1> HIDE DEF r
<1>2. Len(r) \in Nat /\ r \in [1..Len(r) -> T] /\ DOMAIN r = 1..Len(r)
  BY <1>1, LenProperties
<1>3. \A i \in 1..Len(r) : r[i] \in T \cap S
  BY <1>1, <1>2 DEF ToSet
<1>4. r \in [1..Len(r) -> T \cap S]
  BY <1>2, <1>3
<1> QED BY <1>2, <1>4 DEF r

\* Two sets that share nothing and hold every entry divide a sequence.
LEMMA OnlyLen ==
  ASSUME NEW T, NEW s \in Seq(T), NEW A, NEW B, T \subseteq A \cup B, A \cap B = {}
  PROVE  Len(s) = Len(Only(s, A)) + Len(Only(s, B))
<1> DEFINE Z == {q \in Seq(T) : Len(q) = Len(Only(q, A)) + Len(Only(q, B))}
<1>1. <<>> \in Z
  BY OnlyOfNothing, EmptySeq
<1>2. ASSUME NEW q \in Seq(T), NEW e \in T, q \in Z PROVE Append(q, e) \in Z
  <2> DEFINE a == Only(q, A)
             b == Only(q, B)
  <2>1. /\ Append(q, e) \in Seq(T) /\ a \in Seq(T) /\ b \in Seq(T)
        /\ Only(Append(q, e), A) = IF e \in A THEN Append(a, e) ELSE a
        /\ Only(Append(q, e), B) = IF e \in B THEN Append(b, e) ELSE b
    BY OnlyOfAppend, OnlyType
  <2>2. Len(q) = Len(a) + Len(b)
    BY <1>2
  <2> HIDE DEF a, b
  <2>3. /\ Len(a) \in Nat /\ Len(b) \in Nat /\ Len(Append(q, e)) = Len(q) + 1
        /\ Len(Append(a, e)) = Len(a) + 1 /\ Len(Append(b, e)) = Len(b) + 1
    BY <2>1, AppendProperties, LenProperties
  <2>4. \/ e \in A /\ e \notin B
        \/ e \notin A /\ e \in B
    OBVIOUS
  <2>5. Len(Append(q, e)) = Len(Only(Append(q, e), A)) + Len(Only(Append(q, e), B))
    <3>1. CASE e \in A /\ e \notin B
      BY <2>1, <2>2, <2>3, <3>1
    <3>2. CASE e \notin A /\ e \in B
      BY <2>1, <2>2, <2>3, <3>2
    <3> QED BY <2>4, <3>1, <3>2
  <2> QED BY <2>1, <2>5
<1> HIDE DEF Z
<1>3. s \in Z
  BY <1>1, <1>2, ByAppending
<1> QED BY <1>3 DEF Z

-----------------------------------------------------------------------------
(* Any fold over a sequence of n entries, G[<<k, v>>] being what it makes of *)
(* v with the k-th entry.                                                    *)

Steps(n, V, G) == \A k \in 1..n, v \in V : G[<<k, v>>] \in V

Folds(n, V, base, G) ==
  {F \in [SUBSET (1..n) -> V] :
     \A X \in SUBSET (1..n) : F[X] = IF X = {} THEN base ELSE G[<<Max(X), F[X \ {Max(X)}]>>]}

\* H takes the same steps from wherever V has been reached.
FollowsSteps(H, n, V, base, G) ==
  /\ H[{}] = base
  /\ \A X \in SUBSET (1..n) :
       X # {} /\ H[X \ {Max(X)}] \in V => H[X] = G[<<Max(X), H[X \ {Max(X)}]>>]

States(n, V, base, G, last) ==
  {h \in [0..n -> V] : /\ h[0] = base /\ h[n] = last
                       /\ \A k \in 1..n : h[k] = G[<<k, h[k - 1]>>]}

\* The recursion behind the fold has a solution.
LEMMA FoldExists ==
  ASSUME NEW n \in Nat, NEW V, NEW base \in V, NEW G, Steps(n, V, G)
  PROVE  \E F : F \in Folds(n, V, base, G)
<1> DEFINE D == 1..n
           ch == [X \in SUBSET D |-> Max(X)]
<1>1. \A X \in SUBSET D : X # {} => ch[X] \in X
  BY MaxOfPlaces
<1>2. PICK F \in Solutions(D, ch, V, base, G) : TRUE
  <2>1. IsFiniteSet(D) /\ \A k \in D, v \in V : G[<<k, v>>] \in V
    BY FS_Interval DEF Steps
  <2> HIDE DEF D, ch
  <2> QED BY <1>1, <2>1, SolutionExists
<1> QED BY <1>2 DEF Solutions, Folds

\* What the fold gives after each entry, H being the recursion it is defined by.
LEMMA FoldStates ==
  ASSUME NEW n \in Nat, NEW V, NEW base \in V, NEW G, Steps(n, V, G),
         NEW H, FollowsSteps(H, n, V, base, G)
  PROVE  \E h : h \in States(n, V, base, G, H[1..n])
<1> DEFINE h == [k \in 0..n |-> H[1..k]]
           K == {k \in 0..n : h[k] \in V}
<1>1. 0 \in 0..n /\ n \in 0..n /\ 1..0 = {} /\ h[0] = base /\ h[n] = H[1..n]
  BY DEF FollowsSteps
<1>2. ASSUME NEW k \in 1..n, h[k - 1] \in V
      PROVE  h[k] = G[<<k, h[k - 1]>>]
  <2>1. 1..k \in SUBSET (1..n) /\ 1..k # {} /\ Max(1..k) = k /\ (1..k) \ {k} = 1..(k - 1)
    BY MaxOfInterval
  <2>2. k \in 0..n /\ k - 1 \in 0..n
    OBVIOUS
  <2> QED BY <1>2, <2>1, <2>2 DEF FollowsSteps
<1> HIDE DEF h
<1>3. 0 \in K
  BY <1>1
<1>4. ASSUME NEW k \in 1..n, k - 1 \in K PROVE k \in K
  <2>1. h[k] = G[<<k, h[k - 1]>>] /\ h[k - 1] \in V
    BY <1>2, <1>4
  <2> QED BY <2>1 DEF Steps
<1>5. \A k \in 0..n : h[k] \in V
  <2> HIDE DEF K
  <2>1. \A k \in 0..n : k \in K
    BY <1>3, <1>4, Counting
  <2> QED BY <2>1 DEF K
<1>6. \A k \in 1..n : h[k] = G[<<k, h[k - 1]>>]
  BY <1>2, <1>5
<1>7. h \in [0..n -> V]
  BY <1>5 DEF h
<1> QED BY <1>1, <1>6, <1>7 DEF States

-----------------------------------------------------------------------------
(* SumOf *)

SumTrace(h, s) ==
  h \in [0..Len(s) -> Int] /\ h[0] = 0 /\ \A k \in 1..Len(s) : h[k] = h[k - 1] + s[k]

\* SumOf, place after place.
LEMMA SumFold ==
  ASSUME NEW s \in Seq(Int)
  PROVE  \E h : SumTrace(h, s) /\ SumOf(s) = h[Len(s)]
<1> DEFINE n == Len(s)
           V == Int
           G == [p \in (1..n) \X V |-> p[2] + s[p[1]]]
           Eq(F) == F = [X \in SUBSET (1..n) |->
                           IF X = {} THEN 0 ELSE F[X \ {Max(X)}] + s[Max(X)]]
           H == CHOOSE F : Eq(F)
<1>1. n \in Nat /\ DOMAIN s = 1..n /\ \A k \in 1..n : s[k] \in V
  BY LenProperties, ElementOfSeq
<1>2. SumOf(s) = H[1..n]
  BY <1>1 DEF SumOf, FoldLeft, MapThenFoldSet
<1>3. \A k \in 1..n, v \in V : G[<<k, v>>] = v + s[k] /\ v + s[k] \in V
  BY <1>1
<1>4. \A X \in SUBSET (1..n) : X # {} => Max(X) \in 1..n
  BY <1>1, MaxOfPlaces
<1>5. Steps(n, V, G) /\ 0 \in V
  BY <1>3 DEF Steps
<1> HIDE DEF G, n, V
<1>6. Eq(H)
  <2>1. PICK F : F \in Folds(n, V, 0, G)
    BY <1>1, <1>5, FoldExists
  <2>2. ASSUME NEW X \in SUBSET (1..n)
        PROVE  F[X] = IF X = {} THEN 0 ELSE F[X \ {Max(X)}] + s[Max(X)]
    <3>1. F[X] = IF X = {} THEN 0 ELSE G[<<Max(X), F[X \ {Max(X)}]>>]
      BY <2>1 DEF Folds
    <3>2. X # {} => Max(X) \in 1..n /\ F[X \ {Max(X)}] \in V
      BY <1>4, <2>1 DEF Folds
    <3> QED BY <1>3, <3>1, <3>2
  <2>3. Eq(F)
    BY <2>1, <2>2 DEF Folds
  <2> QED BY <2>3
<1>7. H[{}] = 0
  BY <1>6
<1>8. ASSUME NEW X \in SUBSET (1..n), X # {}, H[X \ {Max(X)}] \in V
      PROVE  H[X] = G[<<Max(X), H[X \ {Max(X)}]>>]
  <2>1. H[X] = H[X \ {Max(X)}] + s[Max(X)]
    BY <1>6, <1>8
  <2>2. Max(X) \in 1..n
    BY <1>4, <1>8
  <2> HIDE DEF H
  <2> QED BY <1>3, <1>8, <2>1, <2>2
<1> HIDE DEF H
<1>9. PICK h : h \in States(n, V, 0, G, H[1..n])
  <2>1. FollowsSteps(H, n, V, 0, G)
    BY <1>7, <1>8 DEF FollowsSteps
  <2> QED BY <1>1, <1>5, <2>1, FoldStates
<1>10. ASSUME NEW k \in 1..n PROVE h[k] = h[k - 1] + s[k]
  <2>1. h[k - 1] \in V /\ h[k] = G[<<k, h[k - 1]>>]
    BY <1>1, <1>9 DEF States
  <2> QED BY <1>3, <2>1
<1> QED BY <1>2, <1>9, <1>10 DEF SumTrace, States, n, V

\* A sum of numbers is a number.
LEMMA SumType ==
  ASSUME NEW s \in Seq(Int)
  PROVE  SumOf(s) \in Int
<1>1. PICK h : SumTrace(h, s) /\ SumOf(s) = h[Len(s)]
  BY SumFold
<1> QED BY <1>1, LenProperties DEF SumTrace

\* The sum of nothing.
LEMMA SumOfNothing == SumOf(<<>>) = 0
<1>1. <<>> \in Seq(Int) /\ Len(<<>>) = 0
  OBVIOUS
<1>2. PICK h : SumTrace(h, <<>>) /\ SumOf(<<>>) = h[Len(<<>>)]
  BY <1>1, SumFold
<1> QED BY <1>1, <1>2 DEF SumTrace

\* The sum of zeros.
LEMMA SumOfZeros ==
  ASSUME NEW s \in Seq(Int), \A k \in 1..Len(s) : s[k] = 0
  PROVE  SumOf(s) = 0
<1>1. PICK h : SumTrace(h, s) /\ SumOf(s) = h[Len(s)]
  BY SumFold
<1> DEFINE K == {k \in 0..Len(s) : h[k] = 0}
<1>2. Len(s) \in Nat
  BY LenProperties
<1>3. 0 \in K
  BY <1>1, <1>2 DEF SumTrace
<1>4. ASSUME NEW k \in 1..Len(s), k - 1 \in K PROVE k \in K
  BY <1>1, <1>4 DEF SumTrace
<1> HIDE DEF K
<1>5. \A k \in 0..Len(s) : k \in K
  BY <1>2, <1>3, <1>4, Counting
<1> QED BY <1>1, <1>2, <1>5 DEF K

\* A sum of natural numbers is one, and none of them is more than the sum.
LEMMA SumOfNaturals ==
  ASSUME NEW s \in Seq(Nat)
  PROVE  SumOf(s) \in Nat /\ \A k \in 1..Len(s) : s[k] <= SumOf(s)
<1>1. Len(s) \in Nat /\ s \in Seq(Int) /\ \A k \in 1..Len(s) : s[k] \in Nat
  BY LenProperties, ElementOfSeq
<1>2. PICK h : SumTrace(h, s) /\ SumOf(s) = h[Len(s)]
  BY <1>1, SumFold
<1> DEFINE K == {k \in 0..Len(s) : h[k] \in Nat /\ \A j \in 1..k : s[j] <= h[k]}
<1>3. 0 \in K
  BY <1>1, <1>2 DEF SumTrace
<1>4. ASSUME NEW k \in 1..Len(s), k - 1 \in K PROVE k \in K
  <2>1. /\ h[k] = h[k - 1] + s[k] /\ h[k - 1] \in Nat /\ s[k] \in Nat /\ k \in 0..Len(s)
        /\ \A j \in 1..(k - 1) : s[j] <= h[k - 1] /\ s[j] \in Nat
    BY <1>1, <1>2, <1>4 DEF SumTrace
  <2>2. \A j \in 1..k : j = k \/ j \in 1..(k - 1)
    BY <2>1
  <2>3. h[k] \in Nat /\ \A j \in 1..k : s[j] <= h[k]
    BY <2>1, <2>2
  <2> QED BY <2>1, <2>3
<1> HIDE DEF K
<1>5. \A k \in 0..Len(s) : k \in K
  BY <1>1, <1>3, <1>4, Counting
<1>6. Len(s) \in K
  BY <1>1, <1>5
<1> QED BY <1>2, <1>6 DEF K

\* A sum of numbers from one up is at least as large as there are of them.
LEMMA SumOfOnes ==
  ASSUME NEW s \in Seq(Nat), \A k \in 1..Len(s) : s[k] >= 1
  PROVE  SumOf(s) >= Len(s)
<1>1. Len(s) \in Nat /\ s \in Seq(Int) /\ \A k \in 1..Len(s) : s[k] \in Nat
  BY LenProperties, ElementOfSeq
<1>2. PICK h : SumTrace(h, s) /\ SumOf(s) = h[Len(s)]
  BY <1>1, SumFold
<1> DEFINE K == {k \in 0..Len(s) : h[k] \in Int /\ h[k] >= k}
<1>3. 0 \in K
  BY <1>1, <1>2 DEF SumTrace
<1>4. ASSUME NEW k \in 1..Len(s), k - 1 \in K PROVE k \in K
  <2>1. /\ h[k] = h[k - 1] + s[k] /\ h[k - 1] \in Int /\ h[k - 1] >= k - 1
        /\ s[k] \in Nat /\ s[k] >= 1 /\ k \in 0..Len(s) /\ k \in Int
    BY <1>1, <1>2, <1>4 DEF SumTrace
  <2>2. h[k] \in Int /\ h[k] >= k
    BY <2>1
  <2> QED BY <2>1, <2>2
<1> HIDE DEF K
<1>5. \A k \in 0..Len(s) : k \in K
  BY <1>1, <1>3, <1>4, Counting
<1>6. Len(s) \in K
  BY <1>1, <1>5
<1> QED BY <1>2, <1>6 DEF K

\* The sum of one number.
LEMMA SumOfOne ==
  ASSUME NEW n \in Int
  PROVE  SumOf(<<n>>) = n
<1>1. <<n>> \in Seq(Int) /\ Len(<<n>>) = 1 /\ <<n>>[1] = n
  OBVIOUS
<1>2. PICK h : SumTrace(h, <<n>>) /\ SumOf(<<n>>) = h[Len(<<n>>)]
  BY <1>1, SumFold
<1> QED BY <1>1, <1>2 DEF SumTrace

\* The sum with one more number.
LEMMA SumOfAppend ==
  ASSUME NEW s \in Seq(Int), NEW m \in Int
  PROVE  SumOf(Append(s, m)) = SumOf(s) + m
<1> DEFINE n == Len(s)
           t == Append(s, m)
<1>1. /\ n \in Nat /\ t \in Seq(Int) /\ Len(t) = n + 1
      /\ \A i \in 1..n : t[i] = s[i]
      /\ t[n + 1] = m
  BY LenProperties, AppendProperties
<1>2. PICK g : SumTrace(g, s) /\ SumOf(s) = g[n]
  BY SumFold
<1> HIDE DEF t
<1>3. PICK h : SumTrace(h, t) /\ SumOf(t) = h[n + 1]
  BY <1>1, SumFold
<1>4. h[n] = g[n]
  <2> DEFINE K == {k \in 0..n : h[k] = g[k]}
  <2>1. 0 \in K
    BY <1>1, <1>2, <1>3 DEF SumTrace
  <2>2. ASSUME NEW k \in 1..n, k - 1 \in K PROVE k \in K
    BY <1>1, <1>2, <1>3, <2>2 DEF SumTrace
  <2> HIDE DEF K
  <2>3. \A k \in 0..n : k \in K
    BY <1>1, <2>1, <2>2, Counting
  <2> QED BY <1>1, <2>3 DEF K
<1>5. h[n + 1] = h[n] + m
  <2>1. n + 1 \in 1..Len(t) /\ (n + 1) - 1 = n
    BY <1>1
  <2>2. h[n + 1] = h[(n + 1) - 1] + t[n + 1]
    BY <1>3, <2>1 DEF SumTrace
  <2> QED BY <1>1, <2>1, <2>2
<1> QED BY <1>2, <1>3, <1>4, <1>5 DEF t

\* A sum of negative numbers is negative.
LEMMA SumOfNegatives ==
  ASSUME NEW s \in Seq(Int), s # <<>>, \A k \in 1..Len(s) : s[k] < 0
  PROVE  SumOf(s) < 0
<1>1. PICK h : SumTrace(h, s) /\ SumOf(s) = h[Len(s)]
  BY SumFold
<1> DEFINE K == {k \in 0..Len(s) : h[k] <= 0 /\ (k > 0 => h[k] < 0)}
<1>2. Len(s) \in Nat /\ Len(s) # 0 /\ \A k \in 1..Len(s) : s[k] \in Int
  BY LenProperties, ElementOfSeq, EmptySeq
<1>3. 0 \in K
  BY <1>1, <1>2 DEF SumTrace
<1>4. ASSUME NEW k \in 1..Len(s), k - 1 \in K PROVE k \in K
  <2>1. h[k] = h[k - 1] + s[k] /\ h[k - 1] \in Int /\ s[k] \in Int /\ s[k] < 0 /\ h[k - 1] <= 0
    BY <1>1, <1>2, <1>4 DEF SumTrace
  <2>2. k \in 0..Len(s) /\ h[k] < 0
    BY <2>1
  <2> QED BY <2>1, <2>2
<1> HIDE DEF K
<1>5. \A k \in 0..Len(s) : k \in K
  BY <1>2, <1>3, <1>4, Counting
<1>6. Len(s) \in K
  BY <1>2, <1>5
<1> QED BY <1>1, <1>2, <1>6 DEF K

-----------------------------------------------------------------------------
(* Joined, SortedOn, FirstBy *)

JoinTrace(h, T, s) ==
  h \in [0..Len(s) -> Seq(T)] /\ h[0] = <<>> /\ \A k \in 1..Len(s) : h[k] = h[k - 1] \o s[k]

\* Joined, sequence after sequence.
LEMMA JoinFold ==
  ASSUME NEW T, NEW s \in Seq(Seq(T))
  PROVE  \E h : JoinTrace(h, T, s) /\ Joined(s) = h[Len(s)]
<1> DEFINE n == Len(s)
           V == Seq(T)
           G == [p \in (1..n) \X V |-> p[2] \o s[p[1]]]
           Eq(F) == F = [X \in SUBSET (1..n) |->
                           IF X = {} THEN <<>> ELSE F[X \ {Max(X)}] \o s[Max(X)]]
           H == CHOOSE F : Eq(F)
<1>1. n \in Nat /\ DOMAIN s = 1..n /\ \A k \in 1..n : s[k] \in V
  BY LenProperties, ElementOfSeq
<1>2. Joined(s) = H[1..n]
  BY <1>1 DEF Joined, FoldLeft, MapThenFoldSet
<1>3. \A k \in 1..n, v \in V : G[<<k, v>>] = v \o s[k] /\ v \o s[k] \in V
  BY <1>1, ConcatProperties
<1>4. \A X \in SUBSET (1..n) : X # {} => Max(X) \in 1..n
  BY <1>1, MaxOfPlaces
<1>5. Steps(n, V, G) /\ <<>> \in V
  BY <1>3, EmptySeq DEF Steps
<1> HIDE DEF G, n, V
<1>6. Eq(H)
  <2>1. PICK F : F \in Folds(n, V, <<>>, G)
    BY <1>1, <1>5, FoldExists
  <2>2. ASSUME NEW X \in SUBSET (1..n)
        PROVE  F[X] = IF X = {} THEN <<>> ELSE F[X \ {Max(X)}] \o s[Max(X)]
    <3>1. F[X] = IF X = {} THEN <<>> ELSE G[<<Max(X), F[X \ {Max(X)}]>>]
      BY <2>1 DEF Folds
    <3>2. X # {} => Max(X) \in 1..n /\ F[X \ {Max(X)}] \in V
      BY <1>4, <2>1 DEF Folds
    <3> QED BY <1>3, <3>1, <3>2
  <2>3. Eq(F)
    BY <2>1, <2>2 DEF Folds
  <2> QED BY <2>3
<1>7. H[{}] = <<>>
  BY <1>6
<1>8. ASSUME NEW X \in SUBSET (1..n), X # {}, H[X \ {Max(X)}] \in V
      PROVE  H[X] = G[<<Max(X), H[X \ {Max(X)}]>>]
  <2>1. H[X] = H[X \ {Max(X)}] \o s[Max(X)]
    BY <1>6, <1>8
  <2>2. Max(X) \in 1..n
    BY <1>4, <1>8
  <2> HIDE DEF H
  <2> QED BY <1>3, <1>8, <2>1, <2>2
<1> HIDE DEF H
<1>9. PICK h : h \in States(n, V, <<>>, G, H[1..n])
  <2>1. FollowsSteps(H, n, V, <<>>, G)
    BY <1>7, <1>8 DEF FollowsSteps
  <2> QED BY <1>1, <1>5, <2>1, FoldStates
<1>10. ASSUME NEW k \in 1..n PROVE h[k] = h[k - 1] \o s[k]
  <2>1. h[k - 1] \in V /\ h[k] = G[<<k, h[k - 1]>>]
    BY <1>1, <1>9 DEF States
  <2> QED BY <1>3, <2>1
<1> QED BY <1>2, <1>9, <1>10 DEF JoinTrace, States, n, V

\* Sequences put one after the other are a sequence of the same entries.
LEMMA JoinedType ==
  ASSUME NEW T, NEW s \in Seq(Seq(T))
  PROVE  Joined(s) \in Seq(T)
<1>1. PICK h : JoinTrace(h, T, s) /\ Joined(s) = h[Len(s)]
  BY JoinFold
<1> QED BY <1>1, LenProperties DEF JoinTrace

\* The entries of two sequences, one after the other.
LEMMA ToSetOfConcat ==
  ASSUME NEW T, NEW s \in Seq(T), NEW t \in Seq(T)
  PROVE  ToSet(s \o t) = ToSet(s) \cup ToSet(t)
<1> DEFINE m == Len(s)
           n == Len(t)
           u == s \o t
<1>1. /\ m \in Nat /\ n \in Nat /\ DOMAIN s = 1..m /\ DOMAIN t = 1..n
      /\ DOMAIN u = 1..(m + n)
      /\ \A i \in 1..(m + n) : u[i] = IF i <= m THEN s[i] ELSE t[i - m]
  BY ConcatProperties, LenProperties
<1> HIDE DEF m, n, u
<1>2. \A i \in 1..(m + n) : i \in 1..m \/ (i - m \in 1..n /\ ~(i <= m))
  BY <1>1
<1>3. \A i \in 1..m : i \in 1..(m + n) /\ u[i] = s[i]
  BY <1>1
<1>4. \A i \in 1..n : m + i \in 1..(m + n) /\ u[m + i] = t[i]
  BY <1>1
<1>5. ToSet(u) \subseteq ToSet(s) \cup ToSet(t)
  BY <1>1, <1>2, <1>3 DEF ToSet
<1>6. ToSet(s) \subseteq ToSet(u)
  BY <1>1, <1>3 DEF ToSet
<1>7. ToSet(t) \subseteq ToSet(u)
  BY <1>1, <1>4 DEF ToSet
<1> QED BY <1>5, <1>6, <1>7 DEF u

\* The entries differ in their keys.
Apart(s, key) == \A i, j \in DOMAIN s : key[s[i]] = key[s[j]] => i = j

\* The entries of s differ from those of t.
Between(s, t, key) == \A x \in ToSet(s), y \in ToSet(t) : key[x] # key[y]

\* One more entry, with a new key.
LEMMA ApartAppend ==
  ASSUME NEW T, NEW s \in Seq(T), NEW e \in T, NEW key
  PROVE  Apart(Append(s, e), key) <=>
           Apart(s, key) /\ \A i \in DOMAIN s : key[s[i]] # key[e]
<1> DEFINE n == Len(s)
           t == Append(s, e)
<1>1. /\ n \in Nat /\ DOMAIN s = 1..n /\ DOMAIN t = 1..(n + 1)
      /\ \A i \in 1..n : t[i] = s[i]
      /\ t[n + 1] = e
  BY LenProperties, AppendProperties
<1> HIDE DEF n, t
<1>2. ASSUME Apart(t, key) PROVE Apart(s, key) /\ \A i \in DOMAIN s : key[s[i]] # key[e]
  <2>1. \A i, j \in 1..(n + 1) : key[t[i]] = key[t[j]] => i = j
    BY <1>1, <1>2 DEF Apart
  <2>2. \A i \in 1..n : i \in 1..(n + 1) /\ n + 1 \in 1..(n + 1) /\ i # n + 1
    BY <1>1
  <2> QED BY <1>1, <2>1, <2>2 DEF Apart
<1>3. ASSUME Apart(s, key), \A i \in DOMAIN s : key[s[i]] # key[e] PROVE Apart(t, key)
  <2>1. \A i \in 1..(n + 1) : i \in 1..n \/ i = n + 1
    BY <1>1
  <2>2. \A i \in 1..n : key[s[i]] # key[e]
    BY <1>1, <1>3
  <2>3. \A i, j \in 1..n : key[s[i]] = key[s[j]] => i = j
    BY <1>1, <1>3 DEF Apart
  <2> QED BY <1>1, <2>1, <2>2, <2>3 DEF Apart
<1> QED BY <1>2, <1>3 DEF t

\* Two sequences one after the other.
LEMMA ApartConcat ==
  ASSUME NEW T, NEW s \in Seq(T), NEW t \in Seq(T), NEW key,
         Apart(s, key), Apart(t, key), Between(s, t, key)
  PROVE  Apart(s \o t, key)
<1> DEFINE m == Len(s)
           n == Len(t)
           u == s \o t
<1>1. /\ m \in Nat /\ n \in Nat /\ DOMAIN s = 1..m /\ DOMAIN t = 1..n
      /\ DOMAIN u = 1..(m + n)
      /\ \A i \in 1..(m + n) : u[i] = IF i <= m THEN s[i] ELSE t[i - m]
  BY ConcatProperties, LenProperties
<1>2. \A i \in 1..m, j \in 1..n : key[s[i]] # key[t[j]]
  BY <1>1 DEF Between, ToSet
<1> HIDE DEF m, n, u
<1> SUFFICES ASSUME NEW i \in 1..(m + n), NEW j \in 1..(m + n), key[u[i]] = key[u[j]]
             PROVE  i = j
  BY <1>1 DEF Apart, u
<1>3. CASE i <= m /\ j <= m
  <2>1. i \in 1..m /\ j \in 1..m /\ u[i] = s[i] /\ u[j] = s[j]
    BY <1>1, <1>3
  <2> QED BY <1>1, <2>1 DEF Apart
<1>4. CASE i <= m /\ ~(j <= m)
  <2>1. i \in 1..m /\ j - m \in 1..n /\ u[i] = s[i] /\ u[j] = t[j - m]
    BY <1>1, <1>4
  <2> QED BY <1>2, <2>1
<1>5. CASE ~(i <= m) /\ j <= m
  <2>1. j \in 1..m /\ i - m \in 1..n /\ u[j] = s[j] /\ u[i] = t[i - m]
    BY <1>1, <1>5
  <2> QED BY <1>2, <2>1
<1>6. CASE ~(i <= m) /\ ~(j <= m)
  <2>1. i - m \in 1..n /\ j - m \in 1..n /\ u[i] = t[i - m] /\ u[j] = t[j - m]
    BY <1>1, <1>6
  <2>2. i - m = j - m
    BY <1>1, <2>1 DEF Apart
  <2> QED BY <1>1, <2>2
<1> QED BY <1>3, <1>4, <1>5, <1>6

\* The entries of s.
AllOf(s) == UNION {ToSet(s[k]) : k \in 1..Len(s)}

\* What sequences joined hold, and that the entries differ when they do within
\* each sequence and between any two.
LEMMA JoinedEntries ==
  ASSUME NEW T, NEW s \in Seq(Seq(T))
  PROVE  /\ ToSet(Joined(s)) = AllOf(s)
         /\ \A key : /\ \A k \in 1..Len(s) : Apart(s[k], key)
                     /\ \A k, j \in 1..Len(s) : k # j => Between(s[k], s[j], key)
                     => Apart(Joined(s), key)
<1>1. PICK h : JoinTrace(h, T, s) /\ Joined(s) = h[Len(s)]
  BY JoinFold
<1> DEFINE n == Len(s)
           Upto(k) == UNION {ToSet(s[j]) : j \in 1..k}
           K == {k \in 0..n : ToSet(h[k]) = Upto(k)}
<1>2. /\ n \in Nat /\ \A k \in 1..n : s[k] \in Seq(T)
      /\ h[0] = <<>> /\ \A k \in 0..n : h[k] \in Seq(T)
      /\ \A k \in 1..n : h[k] = h[k - 1] \o s[k]
  BY <1>1, LenProperties, ElementOfSeq DEF JoinTrace
<1> HIDE DEF n
<1>3. 0 \in K
  <2>1. ToSet(<<>>) = {} /\ Upto(0) = {}
    BY EmptySeq DEF ToSet
  <2> QED BY <1>2, <2>1
<1>4. ASSUME NEW k \in 1..n, k - 1 \in K PROVE k \in K
  <2>0. k \in 0..n /\ k - 1 \in 0..n
    BY <1>2
  <2>1. /\ h[k - 1] \in Seq(T) /\ s[k] \in Seq(T) /\ h[k] = h[k - 1] \o s[k]
        /\ ToSet(h[k - 1]) = Upto(k - 1)
    <3>1. ToSet(h[k - 1]) = Upto(k - 1)
      BY <1>4
    <3> HIDE DEF Upto, K
    <3> QED BY <1>2, <2>0, <3>1
  <2>2. ToSet(h[k]) = ToSet(h[k - 1]) \cup ToSet(s[k])
    BY <2>1, ToSetOfConcat
  <2>3. \A j : j \in 1..k <=> j \in 1..(k - 1) \/ j = k
    BY <1>2
  <2>4. Upto(k) = Upto(k - 1) \cup ToSet(s[k])
    BY <2>3
  <2> QED BY <2>0, <2>1, <2>2, <2>4
<1>5. \A k \in 0..n : ToSet(h[k]) = Upto(k)
  <2> HIDE DEF K
  <2>1. \A k \in 0..n : k \in K
    BY <1>2, <1>3, <1>4, Counting
  <2> QED BY <2>1 DEF K
<1>6. ASSUME NEW key,
             \A k \in 1..n : Apart(s[k], key),
             \A k, j \in 1..n : k # j => Between(s[k], s[j], key)
      PROVE  Apart(h[n], key)
  <2> DEFINE A == {k \in 0..n : Apart(h[k], key)}
  <2>1. 0 \in A
    BY <1>2, EmptySeq DEF Apart
  <2>2. ASSUME NEW k \in 1..n, k - 1 \in A PROVE k \in A
    <3>0. k \in 0..n /\ k - 1 \in 0..n /\ Apart(h[k - 1], key)
      BY <1>2, <2>2
    <3>1. /\ h[k - 1] \in Seq(T) /\ s[k] \in Seq(T) /\ h[k] = h[k - 1] \o s[k]
          /\ ToSet(h[k - 1]) = Upto(k - 1) /\ Apart(s[k], key)
      <4> HIDE DEF Upto, K, A
      <4> QED BY <1>2, <1>5, <1>6, <3>0
    <3>2. \A j \in 1..(k - 1) : j \in 1..n /\ j # k
      BY <1>2
    <3>3. \A j \in 1..(k - 1) : Between(s[j], s[k], key)
      BY <1>6, <3>2
    <3>4. Between(h[k - 1], s[k], key)
      BY <3>1, <3>3 DEF Between
    <3> HIDE DEF Upto
    <3>5. Apart(h[k], key)
      BY <3>0, <3>1, <3>4, ApartConcat
    <3> QED BY <3>0, <3>5
  <2> HIDE DEF A
  <2>3. \A k \in 0..n : k \in A
    BY <1>2, <2>1, <2>2, Counting
  <2>4. n \in A
    BY <1>2, <2>3
  <2> QED BY <2>4 DEF A
<1>7. ToSet(h[n]) = Upto(n)
  <2>1. n \in 0..n
    BY <1>2
  <2> HIDE DEF Upto
  <2> QED BY <1>5, <2>1
<1>8. Joined(s) = h[n] /\ Upto(n) = AllOf(s)
  BY <1>1 DEF AllOf, n
<1> HIDE DEF Upto
<1>9. ToSet(Joined(s)) = AllOf(s)
  BY <1>7, <1>8
<1> QED BY <1>6, <1>8, <1>9 DEF n

\* Filtering keeps entries apart.
LEMMA OnlyApart ==
  ASSUME NEW T, NEW s \in Seq(T), NEW S, NEW key, Apart(s, key)
  PROVE  Apart(Only(s, S), key)
<1> DEFINE Z == {q \in Seq(T) : Apart(q, key) => Apart(Only(q, S), key)}
<1>1. <<>> \in Z
  BY OnlyOfNothing, EmptySeq DEF Apart
<1>2. ASSUME NEW q \in Seq(T), NEW e \in T, q \in Z PROVE Append(q, e) \in Z
  <2> DEFINE k == Only(q, S)
  <2>1. /\ Append(q, e) \in Seq(T) /\ k \in Seq(T)
        /\ Only(Append(q, e), S) = IF e \in S THEN Append(k, e) ELSE k
        /\ ToSet(k) \subseteq ToSet(q)
    BY OnlyOfAppend, OnlyType, OnlyRange
  <2>2. Apart(q, key) => Apart(k, key)
    BY <1>2
  <2> HIDE DEF k
  <2>3. Apart(Append(k, e), key) <=> Apart(k, key) /\ \A i \in DOMAIN k : key[k[i]] # key[e]
    BY <2>1, ApartAppend
  <2>4. Apart(Append(q, e), key) <=> Apart(q, key) /\ \A i \in DOMAIN q : key[q[i]] # key[e]
    BY ApartAppend
  <2>5. (\A i \in DOMAIN q : key[q[i]] # key[e]) => \A i \in DOMAIN k : key[k[i]] # key[e]
    BY <2>1 DEF ToSet
  <2>6. Apart(Append(q, e), key) => Apart(Only(Append(q, e), S), key)
    BY <2>1, <2>2, <2>3, <2>4, <2>5
  <2> QED BY <2>1, <2>6
<1> HIDE DEF Z
<1>3. s \in Z
  BY <1>1, <1>2, ByAppending
<1> QED BY <1>3 DEF Z

\* A sequence of different entries is as long as they are many.
LEMMA ApartLen ==
  ASSUME NEW T, NEW s \in Seq(T), \A i, j \in DOMAIN s : s[i] = s[j] => i = j
  PROVE  IsFiniteSet(ToSet(s)) /\ Cardinality(ToSet(s)) = Len(s)
<1> DEFINE key == [e \in T |-> e]
           Z == {q \in Seq(T) : Apart(q, key) => /\ IsFiniteSet(ToSet(q))
                                                 /\ Cardinality(ToSet(q)) = Len(q)}
<1>1. <<>> \in Z
  <2>1. ToSet(<<>>) = {} /\ <<>> \in Seq(T) /\ Len(<<>>) = 0
    BY EmptySeq DEF ToSet
  <2> QED BY <2>1, FS_EmptySet
<1>2. ASSUME NEW q \in Seq(T), NEW e \in T, q \in Z PROVE Append(q, e) \in Z
  <2>1. /\ Append(q, e) \in Seq(T) /\ ToSet(Append(q, e)) = ToSet(q) \cup {e}
        /\ Len(Append(q, e)) = Len(q) + 1 /\ Len(q) \in Nat
        /\ DOMAIN q = 1..Len(q) /\ \A i \in 1..Len(q) : q[i] \in T
    BY ToSetOfAppend, AppendProperties, LenProperties, ElementOfSeq
  <2> SUFFICES ASSUME Apart(Append(q, e), key)
               PROVE  /\ IsFiniteSet(ToSet(q) \cup {e})
                      /\ Cardinality(ToSet(q) \cup {e}) = Len(q) + 1
    BY <2>1
  <2> HIDE DEF key
  <2>2. Apart(q, key) /\ \A i \in DOMAIN q : key[q[i]] # key[e]
    BY ApartAppend
  <2>3. e \notin ToSet(q)
    BY <2>2 DEF ToSet
  <2>4. IsFiniteSet(ToSet(q)) /\ Cardinality(ToSet(q)) = Len(q)
    BY <1>2, <2>2
  <2> QED BY <2>3, <2>4, FS_AddElement
<1>3. DOMAIN s = 1..Len(s) /\ \A i \in 1..Len(s) : s[i] \in T
  BY LenProperties, ElementOfSeq
<1>4. Apart(s, key)
  BY <1>3 DEF Apart
<1> HIDE DEF Z
<1>5. s \in Z
  BY <1>1, <1>2, ByAppending
<1> HIDE DEF key
<1> QED BY <1>4, <1>5 DEF Z

\* Two tuples that differ somewhere are in order one way or the other.
LEMMA LexTotal ==
  ASSUME NEW n \in Nat, NEW D, NEW K, Keyed(K, D, n), NEW x \in D, NEW y \in D,
         NEW d \in 1..n, K[x][d] # K[y][d]
  PROVE  LexLess(K[x], K[y]) \/ LexLess(K[y], K[x])
<1> DEFINE a == K[x]
           b == K[y]
           P == {k \in 1..n : a[k] # b[k]}
<1>1. /\ DOMAIN a = 1..n /\ DOMAIN b = 1..n
      /\ \A k \in 1..n : a[k] \in Int /\ b[k] \in Int
  BY DEF Keyed
<1>2. a[d] # b[d]
  OBVIOUS
<1> HIDE DEF a, b
<1>3. P \in SUBSET (0..n) /\ P # {}
  BY <1>2
<1>4. PICK k \in P : \A j \in P : k <= j
  BY <1>3, LeastNumber
<1>5. k \in 1..n /\ \A j \in 1..(k - 1) : j \in 1..n /\ a[j] = b[j]
  BY <1>4
<1>6. a[k] < b[k] \/ b[k] < a[k]
  BY <1>1, <1>4
<1> HIDE DEF P
<1>7. LexLess(a, b) \/ LexLess(b, a)
  <2>1. CASE a[k] < b[k]
    BY <1>1, <1>5, <2>1 DEF LexLess
  <2>2. CASE b[k] < a[k]
    BY <1>1, <1>5, <2>2 DEF LexLess
  <2> QED BY <1>6, <2>1, <2>2
<1> QED BY <1>7 DEF a, b

\* order lists the places up to n, each once.
Permutes(order, n) ==
  /\ order \in [1..n -> 1..n]
  /\ \A k, j \in 1..n : order[k] = order[j] => k = j

Tuples(K, D, n) == \A x \in D : K[x] \in Seq(Int) /\ Len(K[x]) = n

\* Sorting gives the entries of a sequence in another order.
LEMMA SortedOnPermutes ==
  ASSUME NEW T, NEW s \in Seq(T), NEW n \in Nat, NEW keys, Tuples(keys, DOMAIN s, n)
  PROVE  \E order : /\ Permutes(order, Len(s))
                    /\ SortedOn(s, keys) = [k \in 1..Len(s) |-> s[order[k]]]
<1> DEFINE D == DOMAIN s
           K == [i \in D |-> Append(keys[i], i)]
           R == Earlier(K, D)
           order == InOrderOf(D, R)
<1>1. D = 1..Len(s) /\ Len(s) \in Nat /\ \A i \in D : i \in Int
  BY LenProperties
<1>2. IsFiniteSet(D) /\ Cardinality(D) = Len(s)
  <2> DEFINE m == Len(s)
  <2>1. m \in Nat /\ D = 1..m
    BY <1>1
  <2> HIDE DEF D, m
  <2>2. IsFiniteSet(1..m) /\ Cardinality(1..m) = m
    BY <2>1, FS_Interval
  <2> QED BY <2>1, <2>2 DEF m
<1>3. ASSUME NEW i \in D
      PROVE  /\ DOMAIN K[i] = 1..(n + 1) /\ K[i][n + 1] = i
             /\ \A k \in 1..(n + 1) : K[i][k] \in Int
  <2>1. keys[i] \in Seq(Int) /\ Len(keys[i]) = n /\ i \in Int
    BY <1>1 DEF Tuples
  <2>2. K[i] = Append(keys[i], i)
    OBVIOUS
  <2> HIDE DEF K, D
  <2>3. Append(keys[i], i) \in Seq(Int) /\ Len(Append(keys[i], i)) = n + 1
        /\ Append(keys[i], i)[n + 1] = i
    BY <2>1, AppendProperties
  <2> QED BY <2>2, <2>3, LenProperties, ElementOfSeq
<1>4. Keyed(K, D, n + 1)
  BY <1>3 DEF Keyed
<1>5. ASSUME NEW i \in D, NEW j \in D
      PROVE  i = j \/ <<i, j>> \in R \/ <<j, i>> \in R
  <2>1. K[i][n + 1] = i /\ K[j][n + 1] = j /\ n + 1 \in 1..(n + 1) /\ n + 1 \in Nat
    BY <1>3
  <2> HIDE DEF K, D
  <2>2. i # j => LexLess(K[i], K[j]) \/ LexLess(K[j], K[i])
    BY <1>4, <2>1, LexTotal
  <2> QED BY <2>2 DEF Earlier
<1>6. StrictOrder(R, D)
  <2> HIDE DEF K, D
  <2>1. n + 1 \in Nat
    OBVIOUS
  <2> QED BY <1>4, <2>1, LexOrder
<1>7. /\ order \in Seq(D) /\ Len(order) = Len(s)
      /\ \A k, j \in 1..Len(s) : order[k] = order[j] => k = j
  <2> HIDE DEF K, D, R
  <2> QED BY <1>2, <1>5, <1>6, ListedInOrder
<1>8. SortedOn(s, keys) = [k \in DOMAIN order |-> s[order[k]]]
  <2>1. R = {p \in D \X D : LexLess(Append(keys[p[1]], p[1]), Append(keys[p[2]], p[2]))}
    BY DEF Earlier
  <2> QED BY <2>1 DEF SortedOn
<1> HIDE DEF order, D
<1>9. DOMAIN order = 1..Len(s) /\ order \in [1..Len(s) -> D]
  BY <1>7, LenProperties
<1> QED BY <1>1, <1>7, <1>8, <1>9, ZenonT(40) DEF Permutes

\* Sorting keeps the type.
LEMMA SortedOnType ==
  ASSUME NEW T, NEW s \in Seq(T), NEW n \in Nat, NEW keys, Tuples(keys, DOMAIN s, n)
  PROVE  SortedOn(s, keys) \in Seq(T) /\ Len(SortedOn(s, keys)) = Len(s)
<1> DEFINE t == SortedOn(s, keys)
<1>1. PICK order : Permutes(order, Len(s)) /\ t = [k \in 1..Len(s) |-> s[order[k]]]
  BY SortedOnPermutes
<1>2. Len(s) \in Nat /\ DOMAIN s = 1..Len(s) /\ \A i \in 1..Len(s) : s[i] \in T
  BY LenProperties, ElementOfSeq
<1> HIDE DEF t
<1>3. t \in [1..Len(s) -> T]
  BY <1>1, <1>2 DEF Permutes
<1>4. t \in Seq(T) /\ Len(t) = Len(s)
  BY <1>2, <1>3
<1> QED BY <1>4 DEF t

\* The first by a key is one of them.
LEMMA FirstByOneOf ==
  ASSUME NEW T, NEW s \in Seq(T), s # <<>>, NEW n \in Nat, NEW keys,
         Tuples(keys, DOMAIN s, n)
  PROVE  \E i \in DOMAIN s : FirstBy(s, keys) = s[i]
<1> DEFINE D == DOMAIN s
           least == {i \in D : \A j \in D : ~LexLess(keys[j], keys[i])}
<1>1. D = 1..Len(s) /\ Len(s) \in Nat /\ D # {}
  BY LenProperties, EmptySeq
<1>2. Keyed(keys, D, n)
  BY LenProperties, ElementOfSeq DEF Tuples, Keyed
<1>3. IsFiniteSet(D)
  BY <1>1, FS_Interval
<1>4. FirstBy(s, keys) = s[CHOOSE i \in least : \A j \in least : i <= j]
  BY DEF FirstBy
<1> HIDE DEF D
<1>5. least # {}
  BY <1>1, <1>2, <1>3, LexLeast
<1>6. least \in SUBSET (0..Len(s)) /\ least \subseteq D
  BY <1>1
<1> HIDE DEF least
<1>7. \E i \in least : \A j \in least : i <= j
  BY <1>1, <1>5, <1>6, LeastNumber
<1>8. (CHOOSE i \in least : \A j \in least : i <= j) \in D
  BY <1>6, <1>7
<1> QED BY <1>4, <1>8 DEF D
=============================================================================
