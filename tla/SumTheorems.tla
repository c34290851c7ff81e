----------------------------- MODULE SumTheorems -----------------------------
(***************************************************************************)
(* Facts about the sum of a function over a finite set, whatever order the *)
(* elements are added in.  The amounts of rows (TransactionEngine), the    *)
(* money that transactions moved (Settlement) and the attempts that        *)
(* members have left (EventConsumer) are such sums.                        *)
(***************************************************************************)
EXTENDS Integers, FiniteSetTheorems, WellFoundedInduction, TLAPS

\* The element of a set that the folds of the community modules take first.
Pick(s) == CHOOSE x \in s : TRUE

\* The function g holds the sums of f over the subsets of S.
Sums(g, f, S) ==
  g = [s \in SUBSET S |-> IF s = {} THEN 0 ELSE f[Pick(s)] + g[s \ {Pick(s)}]]

SumOf(f, S) == (CHOOSE g : Sums(g, f, S))[S]

-----------------------------------------------------------------------------

\* Among the subsets of a finite set that are bad, one has no bad proper subset.
LEMMA SmallestBad ==
  ASSUME NEW S, IsFiniteSet(S), NEW B, B \subseteq SUBSET S, B # {}
  PROVE  \E T \in B : \A U \in B : U \subseteq T => U = T
<1> DEFINE N == {Cardinality(T) : T \in B}
<1>1. \A T \in B : IsFiniteSet(T) /\ Cardinality(T) \in Nat
  BY FS_Subset, FS_CardinalityType
<1>2. N \subseteq Nat /\ N # {}
  BY <1>1
<1>3. PICK n \in N : \A m \in N : ~(<<m, n>> \in OpToRel(<, Nat))
  <2> HIDE DEF N
  <2>1. QED
    BY <1>2, NatLessThanWellFounded, WFMin
<1>4. PICK T \in B : n = Cardinality(T)
  BY <1>3
<1>5. ASSUME NEW U \in B, U \subseteq T PROVE U = T
  <2>1. Cardinality(U) \in N /\ Cardinality(U) \in Nat /\ n \in Nat
    BY <1>1, <1>4
  <2>2. ~(Cardinality(U) < n)
    BY <1>3, <2>1 DEF OpToRel
  <2>3. Cardinality(U) <= n /\ (Cardinality(T) = Cardinality(U) => T = U)
    BY <1>1, <1>4, <1>5, FS_Subset
  <2>4. QED
    BY <1>4, <2>1, <2>2, <2>3
<1>6. QED
  BY <1>5

LEMMA PickIsIn == ASSUME NEW s, s # {} PROVE Pick(s) \in s
BY DEF Pick

\* The sum over a set does not depend on the set its subsets are taken from.
LEMMA SumsAgree ==
  ASSUME NEW S, NEW R, NEW f, NEW g, NEW h, Sums(g, f, S), Sums(h, f, R),
         NEW T, IsFiniteSet(T), T \subseteq S, T \subseteq R
  PROVE  g[T] = h[T]
<1> DEFINE B == {U \in SUBSET T : g[U] # h[U]}
<1>1. SUFFICES ASSUME B # {} PROVE FALSE
  OBVIOUS
<1>2. PICK U \in B : \A V \in B : V \subseteq U => V = U
  <2>1. B \subseteq SUBSET T
    OBVIOUS
  <2> HIDE DEF B
  <2>2. QED
    BY <1>1, <2>1, SmallestBad
<1>3. U \in SUBSET S /\ U \in SUBSET R /\ U \subseteq T /\ g[U] # h[U]
  BY <1>2
<1>4. /\ g[U] = IF U = {} THEN 0 ELSE f[Pick(U)] + g[U \ {Pick(U)}]
      /\ h[U] = IF U = {} THEN 0 ELSE f[Pick(U)] + h[U \ {Pick(U)}]
  BY <1>3 DEF Sums
<1>5. U # {}
  BY <1>3, <1>4
<1>6. Pick(U) \in U
  BY <1>5, PickIsIn
<1>7. g[U \ {Pick(U)}] = h[U \ {Pick(U)}]
  BY <1>2, <1>3, <1>6
<1>8. QED
  BY <1>3, <1>4, <1>5, <1>7

\* A function that holds the sums over the subsets of a finite set exists.
LEMMA SumsExist ==
  ASSUME NEW f, NEW S, IsFiniteSet(S)
  PROVE  Sums(CHOOSE g : Sums(g, f, S), f, S)
<1> DEFINE B == {T \in SUBSET S : ~Sums(CHOOSE g : Sums(g, f, T), f, T)}
<1>1. SUFFICES ASSUME B # {} PROVE FALSE
  OBVIOUS
<1>2. PICK T \in B : \A U \in B : U \subseteq T => U = T
  <2>1. B \subseteq SUBSET S
    OBVIOUS
  <2> HIDE DEF B
  <2>2. QED
    BY <1>1, <2>1, SmallestBad
<1>3. T \subseteq S /\ IsFiniteSet(T)
  BY <1>2, FS_Subset
<1>4. ASSUME NEW U \in SUBSET T, U # T
      PROVE  /\ IsFiniteSet(U) /\ Sums(CHOOSE g : Sums(g, f, U), f, U)
  <2>1. IsFiniteSet(U)
    BY <1>3, FS_Subset
  <2>2. U \notin B
    BY <1>2, <1>4
  <2>3. QED
    BY <1>3, <2>1, <2>2
<1>5. ASSUME NEW U \in SUBSET T, U # T
      PROVE  SumOf(f, U) = IF U = {} THEN 0 ELSE f[Pick(U)] + SumOf(f, U \ {Pick(U)})
  <2> DEFINE g == CHOOSE q : Sums(q, f, U)
             V == U \ {Pick(U)}
             h == CHOOSE q : Sums(q, f, V)
  <2>1. Sums(g, f, U)
    BY <1>4, <1>5
  <2>2. g[U] = IF U = {} THEN 0 ELSE f[Pick(U)] + g[V]
    <3>1. U \in SUBSET U
      OBVIOUS
    <3>2. QED
      BY <2>1, <3>1 DEF Sums
  <2>3. CASE U # {}
    <3>1. V \in SUBSET T /\ V # T /\ V \subseteq U
      BY <1>5
    <3>2. Sums(h, f, V) /\ IsFiniteSet(V)
      BY <1>4, <3>1
    <3>3. g[V] = h[V]
      <4> HIDE DEF g, h, V
      <4>1. QED
        BY <2>1, <3>1, <3>2, SumsAgree
    <3>4. QED
      BY <2>2, <2>3, <3>3 DEF SumOf
  <2>4. QED
    BY <2>2, <2>3 DEF SumOf
<1> DEFINE w(U) == IF U = T /\ T # {} THEN f[Pick(T)] + SumOf(f, T \ {Pick(T)}) ELSE
                   IF U = {} THEN 0 ELSE SumOf(f, U)
           k == [U \in SUBSET T |-> w(U)]
<1>6. ASSUME NEW U \in SUBSET T
      PROVE  w(U) = IF U = {} THEN 0 ELSE f[Pick(U)] + k[U \ {Pick(U)}]
  <2>1. CASE U = {}
    BY <2>1
  <2>2. CASE U # {}
    <3>1. /\ U \ {Pick(U)} \in SUBSET T /\ U \ {Pick(U)} # T /\ U \ {Pick(U)} # U
          /\ Pick(U) \in U
      BY <2>2, PickIsIn
    <3>2. k[U \ {Pick(U)}] = SumOf(f, U \ {Pick(U)})
      BY <1>5, <3>1
    <3>3. CASE U = T
      BY <2>2, <3>2, <3>3
    <3>4. CASE U # T
      BY <1>5, <2>2, <3>2, <3>4
    <3>5. QED
      BY <3>3, <3>4
  <2>3. QED
    BY <2>1, <2>2
<1>7. k = [U \in SUBSET T |-> IF U = {} THEN 0 ELSE f[Pick(U)] + k[U \ {Pick(U)}]]
  <2>1. \A U \in SUBSET T : w(U) = IF U = {} THEN 0 ELSE f[Pick(U)] + k[U \ {Pick(U)}]
    BY <1>6
  <2> DEFINE v(U) == IF U = {} THEN 0 ELSE f[Pick(U)] + k[U \ {Pick(U)}]
  <2>2. \A U \in SUBSET T : w(U) = v(U)
    BY <2>1
  <2>3. k = [U \in SUBSET T |-> w(U)]
    OBVIOUS
  <2> HIDE DEF k, w, v
  <2>4. k = [U \in SUBSET T |-> v(U)]
    BY <2>2, <2>3
  <2> USE DEF v
  <2>5. QED
    BY <2>4
<1>8. \E g : Sums(g, f, T)
  <2> HIDE DEF k
  <2>1. Sums(k, f, T)
    BY <1>7 DEF Sums
  <2>2. QED
    BY <2>1
<1>9. Sums(CHOOSE g : Sums(g, f, T), f, T)
  BY <1>8
<1>10. QED
  BY <1>2, <1>9

-----------------------------------------------------------------------------

\* Whoever holds the sums over the subsets of S knows the sum over S.
LEMMA SumIsUnique ==
  ASSUME NEW f, NEW S, IsFiniteSet(S), NEW g, Sums(g, f, S)
  PROVE  g[S] = SumOf(f, S)
BY SumsExist, SumsAgree DEF SumOf

\* The equation of the sum.
LEMMA SumEquation ==
  ASSUME NEW f, NEW S, IsFiniteSet(S)
  PROVE  SumOf(f, S) = IF S = {} THEN 0 ELSE f[Pick(S)] + SumOf(f, S \ {Pick(S)})
<1> DEFINE g == CHOOSE q : Sums(q, f, S)
           T == S \ {Pick(S)}
           h == CHOOSE q : Sums(q, f, T)
<1>1. Sums(g, f, S) /\ IsFiniteSet(T)
  BY SumsExist, FS_Subset
<1>2. Sums(h, f, T)
  BY <1>1, SumsExist
<1>3. g[S] = IF S = {} THEN 0 ELSE f[Pick(S)] + g[T]
  <2>1. S \in SUBSET S
    OBVIOUS
  <2>2. QED
    BY <1>1, <2>1 DEF Sums
<1>4. g[T] = h[T]
  <2>1. T \subseteq S
    OBVIOUS
  <2> HIDE DEF g, h, T
  <2>2. QED
    BY <1>1, <1>2, <2>1, SumsAgree
<1>5. QED
  BY <1>3, <1>4 DEF SumOf

\* Nothing adds up to nothing.
LEMMA SumOfNothing == ASSUME NEW f PROVE SumOf(f, {}) = 0
BY SumEquation, FS_EmptySet

\* A sum of integers is an integer.
LEMMA SumIsInt ==
  ASSUME NEW f, NEW S, IsFiniteSet(S), \A x \in S : f[x] \in Int
  PROVE  SumOf(f, S) \in Int
<1> DEFINE B == {T \in SUBSET S : SumOf(f, T) \notin Int}
<1>1. SUFFICES ASSUME B # {} PROVE FALSE
  OBVIOUS
<1>2. PICK T \in B : \A U \in B : U \subseteq T => U = T
  <2>1. B \subseteq SUBSET S
    OBVIOUS
  <2> HIDE DEF B
  <2>2. QED
    BY <1>1, <2>1, SmallestBad
<1>3. IsFiniteSet(T) /\ T \subseteq S
  BY <1>2, FS_Subset
<1>4. T # {} /\ Pick(T) \in T
  <2>1. SumOf(f, T) \notin Int
    BY <1>2
  <2>2. T # {}
    BY <2>1, SumOfNothing
  <2>3. QED
    BY <2>2, PickIsIn
<1>5. SumOf(f, T \ {Pick(T)}) \in Int /\ f[Pick(T)] \in Int
  BY <1>2, <1>3, <1>4
<1>6. SumOf(f, T) \in Int
  BY <1>3, <1>4, <1>5, SumEquation
<1>7. QED
  BY <1>2, <1>6

\* Any element may be taken out first.
LEMMA SumWithout ==
  ASSUME NEW f, NEW S, IsFiniteSet(S), \A x \in S : f[x] \in Int, NEW y \in S
  PROVE  SumOf(f, S) = f[y] + SumOf(f, S \ {y})
<1> DEFINE Fails(T, x) == SumOf(f, T) # f[x] + SumOf(f, T \ {x})
           B == {T \in SUBSET S : \E x \in T : Fails(T, x)}
<1>1. SUFFICES ASSUME B # {} PROVE FALSE
  OBVIOUS
<1>2. PICK T \in B : \A U \in B : U \subseteq T => U = T
  <2>1. B \subseteq SUBSET S
    OBVIOUS
  <2> HIDE DEF B
  <2>2. QED
    BY <1>1, <2>1, SmallestBad
<1>3. PICK x \in T : Fails(T, x)
  BY <1>2
<1>4. IsFiniteSet(T) /\ T \subseteq S
  BY <1>2, FS_Subset
<1> DEFINE p == Pick(T)
<1>5. p \in T /\ SumOf(f, T) = f[p] + SumOf(f, T \ {p})
  BY <1>3, <1>4, SumEquation, PickIsIn
<1>6. x # p
  BY <1>3, <1>5
<1>7. SumOf(f, T \ {p}) = f[x] + SumOf(f, (T \ {p}) \ {x})
  <2>1. T \ {p} \in SUBSET S /\ T \ {p} \notin B /\ x \in T \ {p}
    BY <1>2, <1>4, <1>5, <1>6
  <2>2. QED
    BY <2>1
<1>8. SumOf(f, T \ {x}) = f[p] + SumOf(f, (T \ {x}) \ {p})
  <2>1. T \ {x} \in SUBSET S /\ T \ {x} \notin B /\ p \in T \ {x}
    BY <1>2, <1>3, <1>4, <1>5, <1>6
  <2>2. QED
    BY <2>1
<1>9. (T \ {x}) \ {p} = (T \ {p}) \ {x}
  OBVIOUS
<1>10. SumOf(f, (T \ {p}) \ {x}) \in Int /\ f[x] \in Int /\ f[p] \in Int
  <2>1. IsFiniteSet((T \ {p}) \ {x}) /\ \A z \in (T \ {p}) \ {x} : f[z] \in Int
    BY <1>4, FS_Subset
  <2>2. QED
    BY <1>4, <1>5, <2>1, SumIsInt
<1>11. SumOf(f, T) = f[x] + SumOf(f, T \ {x})
  <2>1. SumOf(f, T) = f[p] + (f[x] + SumOf(f, (T \ {p}) \ {x}))
    BY <1>5, <1>7
  <2>2. SumOf(f, T \ {x}) = f[p] + SumOf(f, (T \ {p}) \ {x})
    BY <1>8, <1>9
  <2> DEFINE rest == SumOf(f, (T \ {p}) \ {x})
             fx == f[x]
             fp == f[p]
  <2>3. rest \in Int /\ fx \in Int /\ fp \in Int
    BY <1>10
  <2>4. fp + (fx + rest) = fx + (fp + rest)
    <3> HIDE DEF rest, fx, fp
    <3>1. QED
      BY <2>3
  <2>5. QED
    BY <2>1, <2>2, <2>4
<1>12. QED
  BY <1>3, <1>11

\* One element more.
LEMMA SumWith ==
  ASSUME NEW f, NEW S, IsFiniteSet(S), NEW y, y \notin S,
         \A x \in S \cup {y} : f[x] \in Int
  PROVE  SumOf(f, S \cup {y}) = SumOf(f, S) + f[y]
<1>1. IsFiniteSet(S \cup {y}) /\ (S \cup {y}) \ {y} = S
  BY FS_AddElement
<1>2. SumOf(f, S \cup {y}) = f[y] + SumOf(f, S)
  BY <1>1, SumWithout
<1>3. SumOf(f, S) \in Int /\ f[y] \in Int
  BY SumIsInt
<1>4. QED
  BY <1>2, <1>3

\* Less of what is not negative adds up to no more.
LEMMA SumOfFewer ==
  ASSUME NEW f, NEW S, IsFiniteSet(S), \A x \in S : f[x] \in Nat,
         NEW T, T \subseteq S
  PROVE  SumOf(f, T) <= SumOf(f, S)
<1> DEFINE B == {U \in SUBSET S : T \subseteq U /\ ~(SumOf(f, T) <= SumOf(f, U))}
<1>1. SUFFICES ASSUME B # {} PROVE FALSE
  OBVIOUS
<1>2. PICK U \in B : \A V \in B : V \subseteq U => V = U
  <2>1. B \subseteq SUBSET S
    OBVIOUS
  <2> HIDE DEF B
  <2>2. QED
    BY <1>1, <2>1, SmallestBad
<1>3. U \subseteq S /\ T \subseteq U /\ IsFiniteSet(U) /\ IsFiniteSet(T)
  BY <1>2, FS_Subset
<1>4. SumOf(f, T) \in Int
  BY <1>3, SumIsInt
<1>5. U # T
  BY <1>2, <1>4
<1>6. PICK y \in U : y \notin T
  BY <1>3, <1>5
<1>7. SumOf(f, T) <= SumOf(f, U \ {y})
  BY <1>2, <1>3, <1>6
<1>8. IsFiniteSet(U \ {y}) /\ \A x \in U \ {y} : f[x] \in Int
  BY <1>3, FS_Subset
<1>9. SumOf(f, U \ {y}) \in Int /\ f[y] \in Nat
  BY <1>3, <1>6, <1>8, SumIsInt
<1>10. SumOf(f, U) = f[y] + SumOf(f, U \ {y})
  BY <1>3, <1>6, SumWithout
<1>11. QED
  BY <1>2, <1>4, <1>7, <1>9, <1>10

\* Only the elements that are added matter.
LEMMA SumSame ==
  ASSUME NEW f, NEW g, NEW S, IsFiniteSet(S), \A x \in S : f[x] = g[x]
  PROVE  SumOf(f, S) = SumOf(g, S)
<1> DEFINE B == {T \in SUBSET S : SumOf(f, T) # SumOf(g, T)}
<1>1. SUFFICES ASSUME B # {} PROVE FALSE
  OBVIOUS
<1>2. PICK T \in B : \A U \in B : U \subseteq T => U = T
  <2>1. B \subseteq SUBSET S
    OBVIOUS
  <2> HIDE DEF B
  <2>2. QED
    BY <1>1, <2>1, SmallestBad
<1>3. IsFiniteSet(T) /\ T \subseteq S /\ SumOf(f, T) # SumOf(g, T)
  BY <1>2, FS_Subset
<1>4. T # {}
  BY <1>3, SumOfNothing
<1>5. Pick(T) \in T
  BY <1>4, PickIsIn
<1>6. SumOf(f, T \ {Pick(T)}) = SumOf(g, T \ {Pick(T)}) /\ f[Pick(T)] = g[Pick(T)]
  BY <1>2, <1>3, <1>5
<1>7. SumOf(f, T) = SumOf(g, T)
  BY <1>3, <1>4, <1>6, SumEquation
<1>8. QED
  BY <1>3, <1>7

\* One term changes; an element outside of a set adds nothing to its sum.
LEMMA SumChange ==
  ASSUME NEW f, NEW S, IsFiniteSet(S), NEW g, NEW R, NEW y,
         S \ {y} = R \ {y}, \A x \in S \ {y} : f[x] = g[x] /\ f[x] \in Int,
         f[y] \in Int, g[y] \in Int, y \notin S => f[y] = 0, y \notin R => g[y] = 0
  PROVE  /\ IsFiniteSet(R) /\ SumOf(f, S) \in Int /\ SumOf(g, R) \in Int
         /\ SumOf(g, R) + f[y] = SumOf(f, S) + g[y]
<1> DEFINE T == S \ {y}
<1>1. IsFiniteSet(T)
  BY FS_Subset
<1>2. IsFiniteSet(R)
  <2>1. R = T \/ R = T \cup {y}
    OBVIOUS
  <2> HIDE DEF T
  <2>2. QED
    BY <1>1, <2>1, FS_AddElement
<1>3. SumOf(f, T) = SumOf(g, T) /\ SumOf(f, T) \in Int
  BY <1>1, SumSame, SumIsInt
<1>4. SumOf(f, S) = SumOf(f, T) + f[y]
  <2>1. CASE y \in S
    <3>1. \A x \in S : f[x] \in Int
      OBVIOUS
    <3>2. SumOf(f, S) = f[y] + SumOf(f, T)
      BY <2>1, <3>1, SumWithout
    <3>3. QED
      BY <1>3, <3>2
  <2>2. CASE y \notin S
    <3>1. S = T /\ f[y] = 0
      BY <2>2
    <3>2. QED
      BY <1>3, <3>1
  <2>3. QED
    BY <2>1, <2>2
<1>5. SumOf(g, R) = SumOf(g, T) + g[y]
  <2>1. CASE y \in R
    <3>1. \A x \in R : g[x] \in Int
      OBVIOUS
    <3>2. SumOf(g, R) = g[y] + SumOf(g, T)
      BY <1>2, <2>1, <3>1, SumWithout
    <3>3. QED
      BY <1>3, <3>2
  <2>2. CASE y \notin R
    <3>1. R = T /\ g[y] = 0
      BY <2>2
    <3>2. QED
      BY <1>3, <3>1
  <2>3. QED
    BY <2>1, <2>2
<1>6. QED
  <2> HIDE DEF T
  <2>1. QED
    BY <1>2, <1>3, <1>4, <1>5
==============================================================================
