-------------------------------- MODULE Sums --------------------------------
(***************************************************************************)
(* Sums of the values of a function over a finite set: that they exist and *)
(* do not depend on the order in which the elements are taken, and how two *)
(* sums compare.  The sum is defined as MapThenSumSet of FiniteSetsExt     *)
(* evaluates it, by a recursive function on the subsets.                   *)
(***************************************************************************)
EXTENDS Naturals, FiniteSets, FiniteSetTheorems, WellFoundedInduction, TLAPS

First(S) == CHOOSE x \in S : TRUE

IsSum(sum, f, D) ==
  sum = [S \in SUBSET D |-> IF S = {} THEN 0 ELSE f[First(S)] + sum[S \ {First(S)}]]

Sums(f, D) == CHOOSE sum : IsSum(sum, f, D)
Sum(f, S)  == Sums(f, S)[S]

\* The element that is summed up first is one of the set.
LEMMA FirstIn ==
  ASSUME NEW S, S # {}
  PROVE  First(S) \in S
  BY DEF First

\* A sum is that of its first element and of the others.
LEMMA SumRecursion ==
  ASSUME NEW sum, NEW f, NEW D, IsSum(sum, f, D), NEW S \in SUBSET D
  PROVE  /\ S = {} => sum[S] = 0
         /\ S # {} => /\ sum[S] = f[First(S)] + sum[S \ {First(S)}]
                      /\ First(S) \in S /\ S \ {First(S)} \in SUBSET D
  <1>1. sum[S] = IF S = {} THEN 0 ELSE f[First(S)] + sum[S \ {First(S)}]
    BY DEF IsSum
  <1> QED
    BY <1>1, FirstIn

\* What holds of a set if it holds of the sets with one element less.
LEMMA SetInduction ==
  ASSUME NEW D, IsFiniteSet(D), NEW T,
         \A S \in SUBSET D : (\A x \in S : S \ {x} \in T) => S \in T
  PROVE  \A S \in SUBSET D : S \in T
  <1> DEFINE Bad == {S \in SUBSET D : S \notin T}
             N   == {Cardinality(S) : S \in Bad}
  <1> SUFFICES ASSUME Bad # {} PROVE FALSE
    OBVIOUS
  <1>1. \A S \in SUBSET D : IsFiniteSet(S)
    BY FS_Subset
  <1>2. \A S \in SUBSET D : Cardinality(S) \in Nat
    BY <1>1, FS_CardinalityType
  <1>3. N \subseteq Nat /\ N # {}
    BY <1>2
  <1>4. IsWellFoundedOn(OpToRel(<, Nat), Nat)
    BY NatLessThanWellFounded
  <1> HIDE DEF N
  <1>5. PICK n \in N : \A m \in N : <<m, n>> \notin OpToRel(<, Nat)
    BY <1>3, <1>4, WFMin
  <1>6. \A m \in N : ~(m < n)
    BY <1>3, <1>5 DEF OpToRel
  <1>7. PICK S \in Bad : Cardinality(S) = n
    BY <1>5 DEF N
  <1>8. ASSUME NEW x \in S PROVE S \ {x} \in T
    <2>1. S \ {x} \in SUBSET D /\ IsFiniteSet(S)
      BY <1>1
    <2>2. Cardinality(S \ {x}) = Cardinality(S) - 1
      BY <2>1, FS_RemoveElement
    <2>3. Cardinality(S \ {x}) < n
      BY <1>2, <1>7, <2>1, <2>2
    <2>4. S \ {x} \in Bad => Cardinality(S \ {x}) \in N
      BY DEF N
    <2> QED
      BY <1>6, <2>1, <2>3, <2>4
  <1> QED
    BY <1>8

\* Two ways to sum up the same values give the same.
LEMMA SumsAgree ==
  ASSUME NEW sum, NEW f, NEW D, IsSum(sum, f, D), IsFiniteSet(D),
         NEW tum, NEW g, NEW E, IsSum(tum, g, E),
         NEW S \in SUBSET D, S \in SUBSET E, \A x \in S : f[x] = g[x]
  PROVE  sum[S] = tum[S]
  <1> DEFINE T == {R \in SUBSET D : R \subseteq S => sum[R] = tum[R]}
  <1>1. ASSUME NEW R \in SUBSET D, \A x \in R : R \ {x} \in T
        PROVE  R \in T
    <2> SUFFICES ASSUME R \subseteq S PROVE sum[R] = tum[R]
      OBVIOUS
    <2>1. R \in SUBSET E
      OBVIOUS
    <2>2. CASE R = {}
      BY <2>1, <2>2, SumRecursion
    <2>3. CASE R # {}
      <3> DEFINE c == First(R)
      <3>1. sum[R] = f[c] + sum[R \ {c}] /\ c \in R
        BY <2>3, SumRecursion
      <3>2. tum[R] = g[c] + tum[R \ {c}]
        BY <2>1, <2>3, SumRecursion
      <3> HIDE DEF c
      <3>3. sum[R \ {c}] = tum[R \ {c}] /\ f[c] = g[c]
        BY <1>1, <3>1
      <3> QED
        BY <3>1, <3>2, <3>3
    <2> QED
      BY <2>2, <2>3
  <1> HIDE DEF T
  <1>2. \A R \in SUBSET D : R \in T
    BY <1>1, SetInduction
  <1> QED
    BY <1>2 DEF T

\* The sums of a set are those of its subsets as well.
LEMMA SumRestricted ==
  ASSUME NEW sum, NEW f, NEW D, IsSum(sum, f, D), NEW E \in SUBSET D
  PROVE  IsSum([S \in SUBSET E |-> sum[S]], f, E)
  <1> DEFINE r == [S \in SUBSET E |-> sum[S]]
  <1>1. ASSUME NEW S \in SUBSET E
        PROVE  r[S] = IF S = {} THEN 0 ELSE f[First(S)] + r[S \ {First(S)}]
    <2>1. S \in SUBSET D /\ r[S] = sum[S]
      OBVIOUS
    <2>2. S \ {First(S)} \in SUBSET E /\ r[S \ {First(S)}] = sum[S \ {First(S)}]
      OBVIOUS
    <2> HIDE DEF r
    <2> QED
      BY <2>1, <2>2, SumRecursion
  <1> QED
    BY <1>1 DEF IsSum

\* Finite sets have sums.
LEMMA SumsExist ==
  ASSUME NEW f, NEW D, IsFiniteSet(D)
  PROVE  IsSum(Sums(f, D), f, D)
  <1> DEFINE T == {S \in SUBSET D : \E sum : IsSum(sum, f, S)}
  <1>1. ASSUME NEW S \in SUBSET D, \A x \in S : S \ {x} \in T
        PROVE  S \in T
    <2>1. CASE S = {}
      <3>1. IsSum([R \in SUBSET {} |-> 0], f, {})
        BY DEF IsSum
      <3> QED
        BY <2>1, <3>1
    <2>2. CASE S # {}
      <3>1. ASSUME NEW R \in SUBSET S, R # S PROVE IsSum(Sums(f, R), f, R)
        <4>1. PICK x \in S : x \notin R
          BY <3>1
        <4>2. PICK sum : IsSum(sum, f, S \ {x})
          BY <1>1, <4>1
        <4>3. R \in SUBSET (S \ {x})
          BY <4>1
        <4>4. IsSum([Q \in SUBSET R |-> sum[Q]], f, R)
          BY <4>2, <4>3, SumRestricted
        <4> QED
          BY <4>4 DEF Sums
      <3> DEFINE c == First(S)
                 s == [R \in SUBSET S |-> IF R = S THEN f[c] + Sum(f, S \ {c}) ELSE Sum(f, R)]
      <3>2. c \in S
        BY <2>2, FirstIn
      <3>3. ASSUME NEW R \in SUBSET S
            PROVE  s[R] = IF R = {} THEN 0 ELSE f[First(R)] + s[R \ {First(R)}]
        <4>1. CASE R = {}
          <5>1. R # S /\ IsSum(Sums(f, R), f, R) /\ R \in SUBSET R
            BY <2>2, <3>1, <4>1
          <5>2. Sum(f, R) = 0
            BY <4>1, <5>1, SumRecursion DEF Sum
          <5> QED
            BY <4>1, <5>1, <5>2
        <4>2. CASE R = S
          BY <2>2, <3>2, <4>2
        <4>3. CASE R # {} /\ R # S
          <5> DEFINE d == First(R)
                     Q == R \ {d}
          <5>1. d \in R /\ Q \in SUBSET S /\ Q # S /\ Q \in SUBSET R /\ Q \in SUBSET Q
            BY <4>3, FirstIn
          <5>2. IsSum(Sums(f, R), f, R) /\ IsSum(Sums(f, Q), f, Q)
            BY <3>1, <4>3, <5>1
          <5>3. IsFiniteSet(R) /\ R \in SUBSET R
            BY FS_Subset
          <5>4. Sums(f, R)[R] = f[d] + Sums(f, R)[Q]
            BY <4>3, <5>2, <5>3, SumRecursion
          <5>5. Sums(f, R)[Q] = Sums(f, Q)[Q]
            BY <5>1, <5>2, <5>3, SumsAgree
          <5>6. Sum(f, R) = f[d] + Sum(f, Q)
            BY <5>4, <5>5 DEF Sum
          <5>7. s[R] = Sum(f, R) /\ s[Q] = Sum(f, Q)
            BY <4>3, <5>1
          <5> QED
            BY <4>3, <5>6, <5>7
        <4> QED
          BY <4>1, <4>2, <4>3
      <3>4. IsSum(s, f, S)
        BY <3>3 DEF IsSum
      <3> QED
        BY <3>4
    <2> QED
      BY <2>1, <2>2
  <1> HIDE DEF T
  <1>2. D \in T
    <2>1. \A S \in SUBSET D : S \in T
      BY <1>1, SetInduction
    <2> QED
      BY <2>1
  <1>3. \E sum : IsSum(sum, f, D)
    BY <1>2 DEF T
  <1> QED
    BY <1>3 DEF Sums

\* A sum depends only on the values that are summed up.
LEMMA SumSame ==
  ASSUME NEW S, IsFiniteSet(S), NEW f, NEW g, \A x \in S : f[x] = g[x]
  PROVE  Sum(f, S) = Sum(g, S)
  <1>1. IsSum(Sums(f, S), f, S) /\ IsSum(Sums(g, S), g, S)
    BY SumsExist
  <1>2. S \in SUBSET S
    OBVIOUS
  <1> QED
    BY <1>1, <1>2, SumsAgree DEF Sum

\* Nothing sums up to zero.
LEMMA SumEmpty ==
  ASSUME NEW f
  PROVE  Sum(f, {}) = 0
  <1>1. IsSum(Sums(f, {}), f, {})
    BY SumsExist, FS_EmptySet
  <1> QED
    BY <1>1, SumRecursion DEF Sum

\* A sum is that of the first element and of the others.
LEMMA SumFirst ==
  ASSUME NEW f, NEW S, IsFiniteSet(S), S # {}
  PROVE  Sum(f, S) = f[First(S)] + Sum(f, S \ {First(S)}) /\ First(S) \in S
  <1> DEFINE c == First(S)
             R == S \ {c}
  <1>1. c \in S /\ R \in SUBSET S /\ R \in SUBSET R /\ S \in SUBSET S /\ IsFiniteSet(R)
    BY FirstIn, FS_Subset
  <1>2. IsSum(Sums(f, S), f, S) /\ IsSum(Sums(f, R), f, R)
    BY <1>1, SumsExist
  <1>3. Sums(f, S)[S] = f[c] + Sums(f, S)[R]
    BY <1>1, <1>2, SumRecursion
  <1>4. Sums(f, S)[R] = Sums(f, R)[R]
    BY <1>1, <1>2, SumsAgree
  <1> QED
    BY <1>1, <1>3, <1>4 DEF Sum

\* A sum of natural numbers is one, and any element may be taken out of it.
LEMMA SumElement ==
  ASSUME NEW f, NEW D, IsFiniteSet(D), \A x \in D : f[x] \in Nat
  PROVE  /\ Sum(f, D) \in Nat
         /\ \A y \in D : Sum(f, D \ {y}) \in Nat /\ Sum(f, D) = f[y] + Sum(f, D \ {y})
  <1> DEFINE Good(S) ==
               /\ Sum(f, S) \in Nat
               /\ \A y \in S : Sum(f, S \ {y}) \in Nat /\ Sum(f, S) = f[y] + Sum(f, S \ {y})
             T == {S \in SUBSET D : Good(S)}
  <1>1. ASSUME NEW S \in SUBSET D, \A x \in S : S \ {x} \in T
        PROVE  S \in T
    <2>1. CASE S = {}
      BY <2>1, SumEmpty
    <2>2. CASE S # {}
      <3> DEFINE c == First(S)
                 t == Sum(f, S)
      <3>1. t = f[c] + Sum(f, S \ {c}) /\ c \in S
        BY <2>2, FS_Subset, SumFirst
      <3> HIDE DEF c, t
      <3>2. \A x \in S : Sum(f, S \ {x}) \in Nat /\ f[x] \in Nat
        BY <1>1
      <3>3. t \in Nat
        BY <3>1, <3>2
      <3>4. ASSUME NEW y \in S PROVE t = f[y] + Sum(f, S \ {y})
        <4>1. CASE y = c
          BY <3>1, <4>1
        <4>2. CASE y # c
          <5> DEFINE R == (S \ {c}) \ {y}
          <5>1. R = (S \ {y}) \ {c} /\ y \in S \ {c} /\ c \in S \ {y}
            BY <3>1, <4>2
          <5>2. S \ {c} \in T /\ S \ {y} \in T
            BY <1>1, <3>1
          <5>3. Sum(f, S \ {c}) = f[y] + Sum(f, R) /\ Sum(f, R) \in Nat
            BY <5>1, <5>2
          <5>4. Sum(f, S \ {y}) = f[c] + Sum(f, R)
            BY <5>1, <5>2
          <5> HIDE DEF R
          <5>5. f[c] \in Nat /\ f[y] \in Nat
            BY <3>1, <3>2
          <5> QED
            BY <3>1, <5>3, <5>4, <5>5
        <4> QED
          BY <4>1, <4>2
      <3> QED
        BY <3>2, <3>3, <3>4 DEF t
    <2> QED
      BY <2>1, <2>2
  <1> HIDE DEF T
  <1>2. D \in T
    <2>1. \A S \in SUBSET D : S \in T
      BY <1>1, SetInduction
    <2> QED
      BY <2>1
  <1> QED
    BY <1>2 DEF T

\* The same for a subset.
LEMMA SumTake ==
  ASSUME NEW f, NEW D, IsFiniteSet(D), \A x \in D : f[x] \in Nat,
         NEW S \in SUBSET D, NEW x \in S
  PROVE  /\ Sum(f, S) = f[x] + Sum(f, S \ {x})
         /\ Sum(f, S) \in Nat /\ Sum(f, S \ {x}) \in Nat /\ f[x] \in Nat
  <1>1. IsFiniteSet(S) /\ \A y \in S : f[y] \in Nat
    BY FS_Subset
  <1> QED
    BY <1>1, SumElement

\* A greater value makes a sum no smaller.
LEMMA SumOrder ==
  ASSUME NEW f, NEW g, NEW D, IsFiniteSet(D),
         \A x \in D : f[x] \in Nat /\ g[x] \in Nat /\ f[x] <= g[x]
  PROVE  Sum(f, D) <= Sum(g, D)
  <1> DEFINE T == {S \in SUBSET D : Sum(f, S) <= Sum(g, S)}
  <1>1. ASSUME NEW S \in SUBSET D, \A x \in S : S \ {x} \in T
        PROVE  S \in T
    <2>1. CASE S = {}
      BY <2>1, SumEmpty
    <2>2. CASE S # {}
      <3>1. PICK x \in S : TRUE
        BY <2>2
      <3>3. Sum(f, S) = f[x] + Sum(f, S \ {x}) /\ Sum(f, S \ {x}) \in Nat
        BY SumTake
      <3>4. Sum(g, S) = g[x] + Sum(g, S \ {x}) /\ Sum(g, S \ {x}) \in Nat
        BY SumTake
      <3>5. Sum(f, S \ {x}) <= Sum(g, S \ {x}) /\ f[x] \in Nat /\ g[x] \in Nat /\ f[x] <= g[x]
        BY <1>1
      <3>6. Sum(f, S) <= Sum(g, S)
        BY <3>3, <3>4, <3>5
      <3> QED
        BY <3>6
    <2> QED
      BY <2>1, <2>2
  <1> HIDE DEF T
  <1>2. \A S \in SUBSET D : S \in T
    BY <1>1, SetInduction
  <1> QED
    BY <1>2 DEF T

\* The sum of quotients and remainders.
LEMMA SumSplit ==
  ASSUME NEW D, IsFiniteSet(D), NEW u \in Nat, NEW f, NEW q, NEW r,
         \A x \in D : q[x] \in Nat /\ r[x] \in Nat /\ f[x] = u * q[x] + r[x]
  PROVE  Sum(f, D) = u * Sum(q, D) + Sum(r, D)
  <1> DEFINE T == {S \in SUBSET D : Sum(f, S) = u * Sum(q, S) + Sum(r, S)}
  <1>0. \A x \in D : f[x] \in Nat
    BY SMT
  <1>3. \A x \in D : q[x] \in Nat
    OBVIOUS
  <1>4. \A x \in D : r[x] \in Nat
    OBVIOUS
  <1>1. ASSUME NEW S \in SUBSET D, \A x \in S : S \ {x} \in T
        PROVE  S \in T
    <2>1. CASE S = {}
      BY <2>1, SumEmpty
    <2>2. CASE S # {}
      <3>1. PICK x \in S : TRUE
        BY <2>2
      <3> DEFINE a == Sum(f, S \ {x})
                 b == Sum(q, S \ {x})
                 c == Sum(r, S \ {x})
      <3>3. Sum(f, S) = f[x] + a
        BY <1>0, SumTake
      <3>4. Sum(q, S) = q[x] + b
        BY <1>3, SumTake
      <3>5. Sum(r, S) = r[x] + c
        BY <1>4, SumTake
      <3>11. b \in Nat
        BY <1>3, SumTake
      <3>12. c \in Nat
        BY <1>4, SumTake
      <3>6. a = u * b + c
        BY <1>1
      <3>7. q[x] \in Nat /\ r[x] \in Nat /\ f[x] = u * q[x] + r[x]
        OBVIOUS
      <3> HIDE DEF a, b, c
      <3>8. \A m, n \in Nat : u * (m + n) = u * m + u * n /\ u * m \in Nat
        OBVIOUS
      <3>9. u * (q[x] + b) = u * q[x] + u * b /\ u * q[x] \in Nat /\ u * b \in Nat
        BY <3>11, <3>7, <3>8
      <3>10. Sum(f, S) = u * Sum(q, S) + Sum(r, S)
        BY <3>3, <3>4, <3>5, <3>6, <3>7, <3>9, <3>11, <3>12
      <3> QED
        BY <3>10
    <2> QED
      BY <2>1, <2>2
  <1> HIDE DEF T
  <1>2. \A S \in SUBSET D : S \in T
    BY <1>1, SetInduction
  <1> QED
    BY <1>2 DEF T

\* Zeros do not count.
LEMMA SumSupport ==
  ASSUME NEW f, NEW D, IsFiniteSet(D), \A x \in D : f[x] \in Nat,
         NEW E \in SUBSET D, \A x \in D \ E : f[x] = 0
  PROVE  Sum(f, D) = Sum(f, E)
  <1> DEFINE T == {S \in SUBSET D : Sum(f, S) = Sum(f, S \cap E)}
  <1>1. ASSUME NEW S \in SUBSET D, \A x \in S : S \ {x} \in T
        PROVE  S \in T
    <2>1. CASE S \subseteq E
      <3>1. S \cap E = S
        BY <2>1
      <3> QED
        BY <3>1
    <2>2. CASE ~(S \subseteq E)
      <3>1. PICK x \in S : x \notin E
        BY <2>2
      <3> DEFINE a == Sum(f, S \ {x})
      <3>3. Sum(f, S) = f[x] + a
        BY <3>1, SumTake
      <3>7. a \in Nat
        BY <3>1, SumTake
      <3>4. f[x] = 0 /\ (S \ {x}) \cap E = S \cap E
        BY <3>1
      <3>5. a = Sum(f, (S \ {x}) \cap E)
        BY <1>1, <3>1
      <3> HIDE DEF a
      <3>8. Sum(f, S) = a
        BY <3>3, <3>4, <3>7
      <3>6. Sum(f, S) = Sum(f, S \cap E)
        BY <3>4, <3>5, <3>8
      <3> QED
        BY <3>6
    <2> QED
      BY <2>1, <2>2
  <1> HIDE DEF T
  <1>2. \A S \in SUBSET D : S \in T
    BY <1>1, SetInduction
  <1>3. D \in T /\ D \cap E = E
    BY <1>2
  <1> QED
    BY <1>3 DEF T

\* A sum over other names of the same elements.
LEMMA SumRenamed ==
  ASSUME NEW f, NEW D, IsFiniteSet(D), \A x \in D : f[x] \in Nat,
         NEW g, NEW E, IsFiniteSet(E), NEW h, \A x \in D : h[x] \in E /\ g[h[x]] = f[x],
         \A x, y \in D : h[x] = h[y] => x = y
  PROVE  Sum(f, D) = Sum(g, {h[x] : x \in D})
  <1> DEFINE T == {S \in SUBSET D : Sum(f, S) = Sum(g, {h[x] : x \in S})}
  <1>1. ASSUME NEW S \in SUBSET D, \A x \in S : S \ {x} \in T
        PROVE  S \in T
    <2> DEFINE image == {h[x] : x \in S}
    <2>1. CASE S = {}
      <3>1. image = {}
        BY <2>1
      <3> HIDE DEF image
      <3>2. Sum(f, S) = Sum(g, image)
        BY <2>1, <3>1, SumEmpty
      <3> QED
        BY <3>2 DEF image
    <2>2. CASE S # {}
      <3>1. PICK x \in S : TRUE
        BY <2>2
      <3>2. IsFiniteSet(S) /\ IsFiniteSet(image)
        <4>1. image \subseteq E
          OBVIOUS
        <4> QED
          BY <4>1, FS_Subset
      <3>3. Sum(f, S) = f[x] + Sum(f, S \ {x})
        BY SumTake
      <3>4. \A z \in image : g[z] \in Nat
        OBVIOUS
      <3>5. h[x] \in image /\ image \ {h[x]} = {h[y] : y \in S \ {x}}
        OBVIOUS
      <3> HIDE DEF image
      <3>6. Sum(g, image) = g[h[x]] + Sum(g, image \ {h[x]})
        BY <3>2, <3>4, <3>5, SumElement
      <3>7. Sum(f, S \ {x}) = Sum(g, image \ {h[x]})
        BY <1>1, <3>5
      <3>8. Sum(f, S) = Sum(g, image)
        BY <3>3, <3>6, <3>7
      <3> QED
        BY <3>8 DEF image
    <2> QED
      BY <2>1, <2>2
  <1> HIDE DEF T
  <1>2. \A S \in SUBSET D : S \in T
    BY <1>1, SetInduction
  <1> QED
    BY <1>2 DEF T

\* A sum of ones counts.
LEMMA SumOfOnes ==
  ASSUME NEW f, NEW D, IsFiniteSet(D), \A x \in D : f[x] = 1
  PROVE  Sum(f, D) = Cardinality(D)
  <1> DEFINE T == {S \in SUBSET D : Sum(f, S) = Cardinality(S)}
  <1>1. ASSUME NEW S \in SUBSET D, \A x \in S : S \ {x} \in T
        PROVE  S \in T
    <2>1. CASE S = {}
      BY <2>1, SumEmpty, FS_EmptySet
    <2>2. CASE S # {}
      <3>1. PICK x \in S : TRUE
        BY <2>2
      <3>2. \A y \in D : f[y] \in Nat
        OBVIOUS
      <3>3. Sum(f, S) = f[x] + Sum(f, S \ {x})
        BY <3>2, SumTake
      <3>4. Sum(f, S \ {x}) = Cardinality(S \ {x}) /\ f[x] = 1
        BY <1>1
      <3>5. IsFiniteSet(S)
        BY FS_Subset
      <3>6. Cardinality(S \ {x}) = Cardinality(S) - 1 /\ Cardinality(S) \in Nat
        BY <3>5, FS_RemoveElement, FS_CardinalityType
      <3>7. Sum(f, S) = Cardinality(S)
        BY <3>3, <3>4, <3>6
      <3> QED
        BY <3>7
    <2> QED
      BY <2>1, <2>2
  <1> HIDE DEF T
  <1>2. \A S \in SUBSET D : S \in T
    BY <1>1, SetInduction
  <1>3. D \in T
    BY <1>2
  <1> QED
    BY <1>3 DEF T

\* A value that changes changes the sum by as much.
LEMMA SumChange ==
  ASSUME NEW f, NEW g, NEW D, IsFiniteSet(D),
         \A x \in D : f[x] \in Nat, \A x \in D : g[x] \in Nat,
         NEW a \in D, \A x \in D : x # a => f[x] = g[x]
  PROVE  Sum(g, D) + f[a] = Sum(f, D) + g[a]
  <1> DEFINE R == D \ {a}
  <1>1. D \in SUBSET D /\ IsFiniteSet(R)
    BY FS_Subset
  <1>2. Sum(f, D) = f[a] + Sum(f, R)
    BY <1>1, SumTake
  <1>3. Sum(g, D) = g[a] + Sum(g, R)
    BY <1>1, SumTake
  <1>4. Sum(f, R) \in Nat
    BY <1>1, SumTake
  <1>5. Sum(f, R) = Sum(g, R)
    BY <1>1, SumSame
  <1>6. f[a] \in Nat /\ g[a] \in Nat
    OBVIOUS
  <1> HIDE DEF R
  <1> QED
    BY <1>2, <1>3, <1>4, <1>5, <1>6

\* Two values that change in the opposite way leave the sum.
LEMMA SumMove ==
  ASSUME NEW f, NEW g, NEW D, IsFiniteSet(D),
         \A x \in D : f[x] \in Nat, \A x \in D : g[x] \in Nat,
         NEW a \in D, NEW b \in D, a # b,
         \A x \in D : x # a /\ x # b => f[x] = g[x],
         f[a] = g[a] + 1, g[b] = f[b] + 1
  PROVE  Sum(g, D) = Sum(f, D)
  <1> DEFINE h == [x \in D |-> IF x = a THEN g[a] ELSE f[x]]
  <1>1. /\ \A x \in D : x # a => f[x] = h[x]
        /\ \A x \in D : x # b => h[x] = g[x]
        /\ h[a] = g[a] /\ h[b] = f[b]
    OBVIOUS
  <1>2. \A x \in D : h[x] \in Nat
    OBVIOUS
  <1> HIDE DEF h
  <1>3. Sum(h, D) + f[a] = Sum(f, D) + h[a]
    BY <1>1, <1>2, SumChange
  <1>4. Sum(g, D) + h[b] = Sum(h, D) + g[b]
    BY <1>1, <1>2, SumChange
  <1>5. Sum(f, D) \in Nat /\ Sum(g, D) \in Nat /\ Sum(h, D) \in Nat
    BY <1>2, SumElement
  <1>6. f[a] \in Nat /\ g[a] \in Nat /\ f[b] \in Nat
    OBVIOUS
  <1> QED
    BY <1>1, <1>3, <1>4, <1>5, <1>6
=============================================================================
