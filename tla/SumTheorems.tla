---------------------------- MODULE SumTheorems -----------------------------
(***************************************************************************)
(* Lemmas about SumFunctionOnSet, the sum of the values v[x] of a function *)
(* for the x of a finite set, in which the books of WalletFees, Collections*)
(* and FriendPackages are written.                                         *)
(*                                                                         *)
(* The sum is a fold, hence a recursive function, and nothing follows from *)
(* its definition before such a function is known to exist.  For natural   *)
(* numbers the function that counts v[x] units for every x is one          *)
(* (CountStep); the difference of two such functions serves for integers   *)
(* (SumsExist).  The fold agrees with it on every set, because there is no *)
(* smallest set on which it does not (Least).                              *)
(***************************************************************************)
EXTENDS Integers, Functions, FiniteSetTheorems, WellFoundedInduction, TLAPS

(* A set of natural numbers has a least member.                            *)
LEMMA Least ==
  ASSUME NEW N \in SUBSET Nat, N # {}
  PROVE  \E n \in N : \A m \in N : n <= m
<1>1. IsWellFoundedOn(OpToRel(<, Nat), Nat)
  BY NatLessThanWellFounded
<1>2. PICK n \in N : \A m \in N : ~(<<m, n>> \in OpToRel(<, Nat))
  BY <1>1, WFMin
<1>3. \A m \in N : <<m, n>> \in Nat \X Nat
  OBVIOUS
<1>4. \A m \in N : ~(m < n)
  BY <1>2, <1>3 DEF OpToRel
<1> QED BY <1>4

-----------------------------------------------------------------------------
(* Counting                                                                *)

Units(v, T) == {p \in T \X Nat : p[2] \in 1..v[p[1]]}

(* Finitely many x have finitely many units.                               *)
LEMMA UnitsFinite ==
  ASSUME NEW T, IsFiniteSet(T), NEW v, \A x \in T : v[x] \in Nat
  PROVE  IsFiniteSet(Units(v, T))
<1> DEFINE f == [x \in T |-> {x} \X (1..v[x])]
           R == {f[x] : x \in T}
<1>1. f \in Surjection(T, R)
  BY DEF Surjection
<1>2. IsFiniteSet(R)
  BY <1>1, FS_Surjection
<1>3. ASSUME NEW U \in R PROVE IsFiniteSet(U)
  <2>1. PICK x \in T : U = {x} \X (1..v[x])
    OBVIOUS
  <2>2. IsFiniteSet({x})
    BY FS_Singleton
  <2>3. v[x] \in Int
    OBVIOUS
  <2>4. IsFiniteSet(1..v[x])
    BY <2>3, FS_Interval
  <2> QED BY <2>1, <2>2, <2>4, FS_Product
<1>4. IsFiniteSet(UNION R)
  BY <1>2, <1>3, FS_UNION
<1>5. Units(v, T) \subseteq UNION R
  <2> SUFFICES ASSUME NEW p \in Units(v, T) PROVE p \in UNION R
    OBVIOUS
  <2>1. p[1] \in T /\ p[2] \in 1..v[p[1]] /\ p = <<p[1], p[2]>>
    BY DEF Units
  <2>2. p \in {p[1]} \X (1..v[p[1]])
    BY <2>1
  <2> QED BY <2>1, <2>2
<1> QED BY <1>4, <1>5, FS_Subset

(* The units of x are v[x] and are nobody else's.                          *)
LEMMA CountStep ==
  ASSUME NEW T, IsFiniteSet(T), NEW x \in T, NEW v, \A y \in T : v[y] \in Nat
  PROVE  /\ Cardinality(Units(v, T)) \in Nat
         /\ Cardinality(Units(v, T)) = v[x] + Cardinality(Units(v, T \ {x}))
<1> DEFINE A == Units(v, T \ {x})
           B == {x} \X (1..v[x])
<1>1. IsFiniteSet(T \ {x}) /\ IsFiniteSet(A)
  BY FS_RemoveElement, UnitsFinite
<1>2. IsFiniteSet(B) /\ Cardinality(B) = v[x]
  <2>1. IsFiniteSet({x}) /\ Cardinality({x}) = 1
    BY FS_Singleton
  <2>2. IsFiniteSet(1..v[x]) /\ Cardinality(1..v[x]) = v[x]
    BY FS_Interval
  <2>3. IsFiniteSet(B) /\ Cardinality(B) = 1 * v[x]
    BY <2>1, <2>2, FS_Product
  <2> QED BY <2>3
<1>3. Units(v, T) = A \cup B
  <2>1. ASSUME NEW p \in Units(v, T) PROVE p \in A \cup B
    BY DEF Units
  <2>2. ASSUME NEW p \in A \cup B PROVE p \in Units(v, T)
    BY DEF Units
  <2> QED BY <2>1, <2>2
<1>4. A \cap B = {}
  BY DEF Units
<1>5. Cardinality(A) \in Nat /\ Cardinality({}) = 0 /\ v[x] \in Nat
  BY <1>1, FS_CardinalityType, FS_EmptySet
<1> HIDE DEF A, B
<1>6. Cardinality(A \cup B) = Cardinality(A) + Cardinality(B) - Cardinality(A \cap B)
  BY <1>1, <1>2, FS_Union
<1>7. Cardinality(Units(v, T)) = Cardinality(A \cup B) /\ Cardinality(A \cap B) = 0
  BY <1>3, <1>4, <1>5
<1>8. Cardinality(Units(v, T)) = v[x] + Cardinality(A)
  BY <1>2, <1>5, <1>6, <1>7
<1> QED BY <1>5, <1>8 DEF A

-----------------------------------------------------------------------------
(* The sum                                                                 *)

(* What a function of sets must satisfy to be the sum, for any element     *)
(* taken out.                                                              *)
SumsUp(g, v, S) ==
  /\ g \in [SUBSET S -> Int]
  /\ g[{}] = 0
  /\ \A T \in SUBSET S : \A x \in T : g[T] = v[x] + g[T \ {x}]

(* And for some element taken out.                                         *)
SumsSomehow(f, v, S) ==
  /\ f[{}] = 0
  /\ \A T \in SUBSET S : T # {} => \E x \in T : f[T] = v[x] + f[T \ {x}]

LEMMA CountsSumUp ==
  ASSUME NEW S, IsFiniteSet(S), NEW v, \A x \in S : v[x] \in Nat
  PROVE  SumsUp([T \in SUBSET S |-> Cardinality(Units(v, T))], v, S)
<1> DEFINE g == [T \in SUBSET S |-> Cardinality(Units(v, T))]
<1>1. ASSUME NEW T \in SUBSET S PROVE g[T] \in Int
  <2>1. IsFiniteSet(T) /\ \A x \in T : v[x] \in Nat
    BY FS_Subset
  <2>2. Cardinality(Units(v, T)) \in Nat
    BY <2>1, UnitsFinite, FS_CardinalityType
  <2> QED BY <2>2
<1>2. g[{}] = 0
  <2>1. Units(v, {}) = {}
    BY DEF Units
  <2> QED BY <2>1, FS_EmptySet
<1>3. ASSUME NEW T \in SUBSET S, NEW x \in T PROVE g[T] = v[x] + g[T \ {x}]
  <2>1. IsFiniteSet(T) /\ \A y \in T : v[y] \in Nat
    BY FS_Subset
  <2>2. Cardinality(Units(v, T)) = v[x] + Cardinality(Units(v, T \ {x}))
    BY <2>1, CountStep
  <2> QED BY <2>2
<1>4. g \in [SUBSET S -> Int]
  BY <1>1
<1> HIDE DEF g
<1>5. SumsUp(g, v, S)
  BY <1>2, <1>3, <1>4 DEF SumsUp
<1> QED BY <1>5 DEF g

LEMMA SumsExist ==
  ASSUME NEW S, IsFiniteSet(S), NEW v, \A x \in S : v[x] \in Int
  PROVE  \E g : SumsUp(g, v, S)
<1> DEFINE gain == [x \in S |-> IF v[x] > 0 THEN v[x] ELSE 0]
           loss == [x \in S |-> IF v[x] > 0 THEN 0 ELSE -v[x]]
<1>1. gain \in [S -> Nat] /\ loss \in [S -> Nat]
  OBVIOUS
<1>2. \A x \in S : v[x] = gain[x] - loss[x]
  OBVIOUS
<1> HIDE DEF gain, loss
<1>3. PICK p : SumsUp(p, gain, S)
  BY <1>1, CountsSumUp
<1>4. PICK q : SumsUp(q, loss, S)
  BY <1>1, CountsSumUp
<1> DEFINE g == [T \in SUBSET S |-> p[T] - q[T]]
<1>5. g \in [SUBSET S -> Int] /\ g[{}] = 0
  BY <1>3, <1>4 DEF SumsUp
<1>6. ASSUME NEW T \in SUBSET S, NEW x \in T PROVE g[T] = v[x] + g[T \ {x}]
  <2>1. T \ {x} \in SUBSET S /\ x \in S
    OBVIOUS
  <2>2. p[T] = gain[x] + p[T \ {x}] /\ q[T] = loss[x] + q[T \ {x}]
    BY <1>3, <1>4 DEF SumsUp
  <2>3. p[T \ {x}] \in Int /\ q[T \ {x}] \in Int
    BY <1>3, <1>4, <2>1 DEF SumsUp
  <2>4. gain[x] \in Int /\ loss[x] \in Int
    BY <1>1
  <2>5. g[T] = p[T] - q[T] /\ g[T \ {x}] = p[T \ {x}] - q[T \ {x}]
    BY <2>1
  <2> QED BY <1>2, <2>1, <2>2, <2>3, <2>4, <2>5
<1> HIDE DEF g
<1> QED BY <1>5, <1>6 DEF SumsUp

(* Two functions that sum up by some element agree: a smallest set on which*)
(* they differ would lose an element to a smaller one.                     *)
LEMMA SumsUnique ==
  ASSUME NEW S, IsFiniteSet(S), NEW v, NEW g, SumsUp(g, v, S), NEW f, SumsSomehow(f, v, S)
  PROVE  \A T \in SUBSET S : f[T] = g[T]
<1> DEFINE Bad == {T \in SUBSET S : f[T] # g[T]}
           Sizes == {n \in Nat : \E T \in Bad : n = Cardinality(T)}
<1> SUFFICES ASSUME NEW U \in Bad PROVE FALSE
  OBVIOUS
<1>1. \A T \in SUBSET S : IsFiniteSet(T) /\ Cardinality(T) \in Nat
  BY FS_Subset, FS_CardinalityType
<1>2. Sizes \in SUBSET Nat /\ Sizes # {}
  BY <1>1
<1>3. PICK n \in Sizes : \A m \in Sizes : n <= m
  BY <1>2, Least
<1>4. PICK T \in Bad : n = Cardinality(T)
  OBVIOUS
<1>5. T # {}
  BY DEF SumsUp, SumsSomehow
<1>6. PICK x \in T : f[T] = v[x] + f[T \ {x}]
  BY <1>5 DEF SumsSomehow
<1>7. g[T] = v[x] + g[T \ {x}]
  BY DEF SumsUp
<1>8. T \ {x} \in Bad
  BY <1>6, <1>7
<1>9. Cardinality(T \ {x}) = n - 1
  BY <1>1, <1>4, FS_RemoveElement
<1>10. n - 1 \in Nat
  BY <1>1, <1>8, <1>9
<1>11. n - 1 \in Sizes
  BY <1>8, <1>9, <1>10
<1> QED BY <1>2, <1>3, <1>11

(* The fold is a sum.                                                      *)
LEMMA FoldSumsUp ==
  ASSUME NEW S, IsFiniteSet(S), NEW v, \A x \in S : v[x] \in Int
  PROVE  \E g : SumsUp(g, v, S) /\ \A T \in SUBSET S : SumFunctionOnSet(v, T) = g[T]
<1>1. PICK g : SumsUp(g, v, S)
  BY SumsExist
<1> SUFFICES ASSUME NEW T \in SUBSET S PROVE SumFunctionOnSet(v, T) = g[T]
  BY <1>1
<1> DEFINE Body(f) == [U \in SUBSET T |->
             IF U = {} THEN 0
             ELSE v[CHOOSE x \in U : TRUE] + f[U \ {CHOOSE x \in U : TRUE}]]
           h == [U \in SUBSET T |-> g[U]]
           iter == CHOOSE f : f = Body(f)
<1>2. h = Body(h)
  <2>1. ASSUME NEW U \in SUBSET T, U # {}
        PROVE  g[U] = v[CHOOSE x \in U : TRUE] + g[U \ {CHOOSE x \in U : TRUE}]
    BY <1>1, <2>1 DEF SumsUp
  <2>2. g[{}] = 0
    BY <1>1 DEF SumsUp
  <2> QED BY <2>1, <2>2
<1>3. iter = Body(iter)
  BY <1>2
<1>4. SumFunctionOnSet(v, T) = iter[T]
  BY DEF SumFunctionOnSet, FoldFunctionOnSet, MapThenFoldSet
<1>5. iter[{}] = 0
  BY <1>3
<1>6. SumsSomehow(iter, v, T)
  <2>1. \A U \in SUBSET T : U # {} => \E x \in U : iter[U] = v[x] + iter[U \ {x}]
    BY <1>3
  <2> HIDE DEF iter
  <2> QED BY <1>5, <2>1 DEF SumsSomehow
<1>7. IsFiniteSet(T) /\ SumsUp(h, v, T)
  <2>1. h \in [SUBSET T -> Int] /\ h[{}] = 0
    BY <1>1 DEF SumsUp
  <2>2. ASSUME NEW U \in SUBSET T, NEW x \in U PROVE h[U] = v[x] + h[U \ {x}]
    BY <1>1 DEF SumsUp
  <2>3. IsFiniteSet(T)
    BY FS_Subset
  <2> HIDE DEF h
  <2> QED BY <2>1, <2>2, <2>3 DEF SumsUp
<1> HIDE DEF iter, h, Body
<1>8. \A U \in SUBSET T : iter[U] = h[U]
  BY <1>6, <1>7, SumsUnique
<1> QED BY <1>4, <1>8 DEF h

-----------------------------------------------------------------------------
(* What the proofs use                                                     *)

LEMMA SumEmpty == ASSUME NEW v PROVE SumFunctionOnSet(v, {}) = 0
<1>1. PICK g : SumsUp(g, v, {}) /\ \A T \in SUBSET {} : SumFunctionOnSet(v, T) = g[T]
  BY FoldSumsUp, FS_EmptySet
<1> QED BY <1>1 DEF SumsUp

LEMMA SumType ==
  ASSUME NEW S, IsFiniteSet(S), NEW v, \A x \in S : v[x] \in Int
  PROVE  SumFunctionOnSet(v, S) \in Int
<1>1. PICK g : SumsUp(g, v, S) /\ \A T \in SUBSET S : SumFunctionOnSet(v, T) = g[T]
  BY FoldSumsUp
<1> QED BY <1>1 DEF SumsUp

LEMMA SumRemove ==
  ASSUME NEW S, IsFiniteSet(S), NEW v, \A x \in S : v[x] \in Int, NEW x \in S
  PROVE  SumFunctionOnSet(v, S) = v[x] + SumFunctionOnSet(v, S \ {x})
<1>1. PICK g : SumsUp(g, v, S) /\ \A T \in SUBSET S : SumFunctionOnSet(v, T) = g[T]
  BY FoldSumsUp
<1>2. g[S] = v[x] + g[S \ {x}]
  BY <1>1 DEF SumsUp
<1> QED BY <1>1, <1>2

LEMMA SumAdd ==
  ASSUME NEW S, IsFiniteSet(S), NEW v, NEW x, x \notin S,
         \A y \in S \cup {x} : v[y] \in Int
  PROVE  SumFunctionOnSet(v, S \cup {x}) = v[x] + SumFunctionOnSet(v, S)
<1>1. IsFiniteSet(S \cup {x}) /\ x \in S \cup {x} /\ (S \cup {x}) \ {x} = S
  BY FS_AddElement
<1> HIDE DEF SumFunctionOnSet
<1>2. SumFunctionOnSet(v, S \cup {x}) = v[x] + SumFunctionOnSet(v, (S \cup {x}) \ {x})
  BY <1>1, SumRemove
<1> QED BY <1>1, <1>2

(* The sum of the sums; the other laws follow from it.                     *)
LEMMA SumPlus ==
  ASSUME NEW S, IsFiniteSet(S), NEW u, NEW v, NEW w,
         \A x \in S : u[x] \in Int /\ v[x] \in Int /\ w[x] = u[x] + v[x]
  PROVE  SumFunctionOnSet(w, S) = SumFunctionOnSet(u, S) + SumFunctionOnSet(v, S)
<1>1. PICK f : SumsUp(f, u, S) /\ \A T \in SUBSET S : SumFunctionOnSet(u, T) = f[T]
  BY FoldSumsUp
<1>2. PICK g : SumsUp(g, v, S) /\ \A T \in SUBSET S : SumFunctionOnSet(v, T) = g[T]
  BY FoldSumsUp
<1>3. \A x \in S : w[x] \in Int
  OBVIOUS
<1>4. PICK h : SumsUp(h, w, S) /\ \A T \in SUBSET S : SumFunctionOnSet(w, T) = h[T]
  BY <1>3, FoldSumsUp
<1> DEFINE k == [T \in SUBSET S |-> f[T] + g[T]]
<1>5. k[{}] = 0
  BY <1>1, <1>2 DEF SumsUp
<1>6. ASSUME NEW T \in SUBSET S, NEW x \in T PROVE k[T] = w[x] + k[T \ {x}]
  <2>1. T \ {x} \in SUBSET S /\ x \in S
    OBVIOUS
  <2>2. f[T] = u[x] + f[T \ {x}] /\ g[T] = v[x] + g[T \ {x}]
    BY <1>1, <1>2 DEF SumsUp
  <2>3. f[T \ {x}] \in Int /\ g[T \ {x}] \in Int
    BY <1>1, <1>2, <2>1 DEF SumsUp
  <2>4. k[T] = f[T] + g[T] /\ k[T \ {x}] = f[T \ {x}] + g[T \ {x}]
    BY <2>1
  <2> HIDE DEF k
  <2> QED BY <2>1, <2>2, <2>3, <2>4
<1>7. k[S] = f[S] + g[S]
  OBVIOUS
<1> HIDE DEF k
<1>8. SumsSomehow(k, w, S)
  BY <1>5, <1>6 DEF SumsSomehow
<1>9. k[S] = h[S]
  BY <1>4, <1>8, SumsUnique
<1> QED BY <1>1, <1>2, <1>4, <1>7, <1>9

LEMMA SumNat ==
  ASSUME NEW S, IsFiniteSet(S), NEW v, \A x \in S : v[x] \in Nat
  PROVE  SumFunctionOnSet(v, S) \in Nat
<1>1. PICK g : SumsUp(g, v, S) /\ \A T \in SUBSET S : SumFunctionOnSet(v, T) = g[T]
  BY FoldSumsUp
<1> DEFINE c == [T \in SUBSET S |-> Cardinality(Units(v, T))]
<1>2. SumsUp(c, v, S)
  BY CountsSumUp
<1>3. SumsSomehow(g, v, S)
  BY <1>1 DEF SumsUp, SumsSomehow
<1>4. c[S] = Cardinality(Units(v, S))
  OBVIOUS
<1> HIDE DEF c
<1>5. g[S] = c[S]
  BY <1>2, <1>3, SumsUnique
<1>6. Cardinality(Units(v, S)) \in Nat
  BY UnitsFinite, FS_CardinalityType
<1> QED BY <1>1, <1>4, <1>5, <1>6

LEMMA SumZero ==
  ASSUME NEW S, IsFiniteSet(S), NEW v, \A x \in S : v[x] = 0
  PROVE  SumFunctionOnSet(v, S) = 0
<1>1. SumFunctionOnSet(v, S) = SumFunctionOnSet(v, S) + SumFunctionOnSet(v, S)
  <2>1. \A x \in S : v[x] \in Int /\ v[x] \in Int /\ v[x] = v[x] + v[x]
    OBVIOUS
  <2> QED BY <2>1, SumPlus
<1>2. SumFunctionOnSet(v, S) \in Int
  BY SumType
<1>3. \A a \in Int : a = a + a => a = 0
  OBVIOUS
<1> QED BY <1>1, <1>2, <1>3

LEMMA SumEqual ==
  ASSUME NEW S, IsFiniteSet(S), NEW v, NEW w, \A x \in S : v[x] \in Int /\ w[x] = v[x]
  PROVE  SumFunctionOnSet(w, S) = SumFunctionOnSet(v, S)
<1> DEFINE zero == [x \in S |-> 0]
<1>1. SumFunctionOnSet(zero, S) = 0
  <2>1. \A x \in S : zero[x] = 0
    OBVIOUS
  <2> QED BY <2>1, SumZero
<1>2. SumFunctionOnSet(w, S) = SumFunctionOnSet(v, S) + SumFunctionOnSet(zero, S)
  <2>1. \A x \in S : v[x] \in Int /\ zero[x] \in Int /\ w[x] = v[x] + zero[x]
    OBVIOUS
  <2> HIDE DEF zero
  <2> QED BY <2>1, SumPlus
<1>3. SumFunctionOnSet(v, S) \in Int
  BY SumType
<1> HIDE DEF zero
<1> QED BY <1>1, <1>2, <1>3

(* One term changes.                                                       *)
LEMMA SumChange ==
  ASSUME NEW S, IsFiniteSet(S), NEW v, NEW w, NEW x \in S,
         \A y \in S : v[y] \in Int /\ w[y] \in Int,
         \A y \in S \ {x} : w[y] = v[y]
  PROVE  SumFunctionOnSet(w, S) = SumFunctionOnSet(v, S) + w[x] - v[x]
<1> DEFINE R == S \ {x}
<1>1. IsFiniteSet(R) /\ (\A y \in R : v[y] \in Int /\ w[y] = v[y])
  BY FS_RemoveElement
<1>2. /\ SumFunctionOnSet(v, S) = v[x] + SumFunctionOnSet(v, R)
      /\ SumFunctionOnSet(w, S) = w[x] + SumFunctionOnSet(w, R)
  BY SumRemove
<1> HIDE DEF R
<1>3. SumFunctionOnSet(w, R) = SumFunctionOnSet(v, R) /\ SumFunctionOnSet(v, R) \in Int
  BY <1>1, SumEqual, SumType
<1>4. v[x] \in Int /\ w[x] \in Int
  OBVIOUS
<1> QED BY <1>2, <1>3, <1>4

LEMMA SumConstant ==
  ASSUME NEW S, IsFiniteSet(S), NEW v, NEW c \in Int, \A x \in S : v[x] = c
  PROVE  SumFunctionOnSet(v, S) = c * Cardinality(S)
<1>1. PICK g : SumsUp(g, v, S) /\ \A T \in SUBSET S : SumFunctionOnSet(v, T) = g[T]
  BY FoldSumsUp
<1> DEFINE k == [T \in SUBSET S |-> c * Cardinality(T)]
<1>2. k[{}] = 0
  BY FS_EmptySet
<1>3. ASSUME NEW T \in SUBSET S, NEW x \in T PROVE k[T] = v[x] + k[T \ {x}]
  <2>1. IsFiniteSet(T) /\ Cardinality(T) \in Nat
    BY FS_Subset, FS_CardinalityType
  <2>2. Cardinality(T \ {x}) = Cardinality(T) - 1
    BY <2>1, FS_RemoveElement
  <2>3. k[T] = c * Cardinality(T) /\ k[T \ {x}] = c * Cardinality(T \ {x}) /\ v[x] = c
    OBVIOUS
  <2>4. \A n \in Nat : c * n = c + c * (n - 1)
    OBVIOUS
  <2> HIDE DEF k
  <2> QED BY <2>1, <2>2, <2>3, <2>4
<1>4. k[S] = c * Cardinality(S)
  OBVIOUS
<1> HIDE DEF k
<1>5. SumsSomehow(k, v, S)
  BY <1>2, <1>3 DEF SumsSomehow
<1> QED BY <1>1, <1>4, <1>5, SumsUnique

LEMMA SumDisjoint ==
  ASSUME NEW S, IsFiniteSet(S), NEW T, IsFiniteSet(T), S \cap T = {},
         NEW v, \A x \in S \cup T : v[x] \in Int
  PROVE  SumFunctionOnSet(v, S \cup T) = SumFunctionOnSet(v, S) + SumFunctionOnSet(v, T)
<1>1. PICK g : SumsUp(g, v, T) /\ \A U \in SUBSET T : SumFunctionOnSet(v, U) = g[U]
  BY FoldSumsUp
<1> DEFINE k == [U \in SUBSET T |-> SumFunctionOnSet(v, S \cup U) - SumFunctionOnSet(v, S)]
<1>2. SumFunctionOnSet(v, S) \in Int
  BY SumType
<1>3. k[{}] = 0
  <2>1. S \cup {} = S
    OBVIOUS
  <2> QED BY <1>2, <2>1
<1>4. ASSUME NEW U \in SUBSET T, NEW x \in U PROVE k[U] = v[x] + k[U \ {x}]
  <2>1. IsFiniteSet(S \cup (U \ {x})) /\ IsFiniteSet(S \cup U)
    BY FS_Subset, FS_Union, FS_RemoveElement
  <2>2. x \in S \cup U /\ (S \cup U) \ {x} = S \cup (U \ {x}) /\ v[x] \in Int
    OBVIOUS
  <2>3. SumFunctionOnSet(v, S \cup U) = v[x] + SumFunctionOnSet(v, (S \cup U) \ {x})
    BY <2>1, <2>2, SumRemove
  <2>4. SumFunctionOnSet(v, S \cup (U \ {x})) \in Int
    BY <2>1, SumType
  <2>5. /\ k[U] = SumFunctionOnSet(v, S \cup U) - SumFunctionOnSet(v, S)
        /\ k[U \ {x}] = SumFunctionOnSet(v, S \cup (U \ {x})) - SumFunctionOnSet(v, S)
    OBVIOUS
  <2>6. SumFunctionOnSet(v, S \cup U) = v[x] + SumFunctionOnSet(v, S \cup (U \ {x}))
    BY <2>2, <2>3
  <2> HIDE DEF k
  <2> QED BY <1>2, <2>2, <2>4, <2>5, <2>6
<1>5. k[T] = SumFunctionOnSet(v, S \cup T) - SumFunctionOnSet(v, S)
  OBVIOUS
<1> HIDE DEF k
<1>6. SumsSomehow(k, v, T)
  BY <1>3, <1>4 DEF SumsSomehow
<1>7. k[T] = g[T]
  BY <1>1, <1>6, SumsUnique
<1>8. SumFunctionOnSet(v, S \cup T) \in Int
  <2>1. IsFiniteSet(S \cup T)
    BY FS_Union
  <2> QED BY <2>1, SumType
<1> QED BY <1>1, <1>2, <1>5, <1>7, <1>8

(* A part of non-negative terms is no more than the whole.                 *)
LEMMA SumPart ==
  ASSUME NEW S, IsFiniteSet(S), NEW T \in SUBSET S, NEW v, \A x \in S : v[x] \in Nat
  PROVE  SumFunctionOnSet(v, T) <= SumFunctionOnSet(v, S)
<1> DEFINE R == S \ T
<1>1. IsFiniteSet(T) /\ IsFiniteSet(R)
  BY FS_Subset, FS_Difference
<1>2. T \cap R = {} /\ T \cup R = S
  OBVIOUS
<1> HIDE DEF R
<1>3. SumFunctionOnSet(v, T \cup R) = SumFunctionOnSet(v, T) + SumFunctionOnSet(v, R)
  BY <1>1, <1>2, SumDisjoint
<1>4. SumFunctionOnSet(v, T) \in Nat /\ SumFunctionOnSet(v, R) \in Nat
  BY <1>1, <1>2, SumNat
<1>5. \A a, b \in Nat : a <= a + b
  OBVIOUS
<1> QED BY <1>2, <1>3, <1>4, <1>5

(* Terms numbered by an injective index sum up to those of their numbers.  *)
LEMMA SumIndexed ==
  ASSUME NEW S, IsFiniteSet(S), NEW index, NEW v, NEW w,
         \A x, y \in S : index[x] = index[y] => x = y,
         \A x \in S : v[x] \in Int /\ w[index[x]] = v[x]
  PROVE  SumFunctionOnSet(v, S) = SumFunctionOnSet(w, {index[x] : x \in S})
<1>1. PICK g : SumsUp(g, v, S) /\ \A T \in SUBSET S : SumFunctionOnSet(v, T) = g[T]
  BY FoldSumsUp
<1> DEFINE Numbers(T) == {index[x] : x \in T}
           k == [T \in SUBSET S |-> SumFunctionOnSet(w, Numbers(T))]
<1>2. k[{}] = 0
  <2>1. Numbers({}) = {}
    OBVIOUS
  <2> QED BY <2>1, SumEmpty
<1>3. ASSUME NEW T \in SUBSET S, NEW x \in T PROVE k[T] = v[x] + k[T \ {x}]
  <2> DEFINE f == [y \in T |-> index[y]]
  <2>1. IsFiniteSet(T) /\ f \in Surjection(T, Numbers(T))
    BY FS_Subset DEF Surjection
  <2>2. IsFiniteSet(Numbers(T))
    BY <2>1, FS_Surjection
  <2>3. \A n \in Numbers(T) : w[n] \in Int
    OBVIOUS
  <2>4. index[x] \in Numbers(T) /\ Numbers(T) \ {index[x]} = Numbers(T \ {x})
    OBVIOUS
  <2>5. k[T] = SumFunctionOnSet(w, Numbers(T))
        /\ k[T \ {x}] = SumFunctionOnSet(w, Numbers(T \ {x}))
    OBVIOUS
  <2> HIDE DEF k, f, Numbers
  <2>6. SumFunctionOnSet(w, Numbers(T))
          = w[index[x]] + SumFunctionOnSet(w, Numbers(T) \ {index[x]})
    BY <2>2, <2>3, <2>4, SumRemove
  <2> QED BY <2>4, <2>5, <2>6
<1>4. k[S] = SumFunctionOnSet(w, {index[x] : x \in S})
  OBVIOUS
<1> HIDE DEF k
<1>5. SumsSomehow(k, v, S)
  BY <1>2, <1>3 DEF SumsSomehow
<1>6. k[S] = g[S]
  BY <1>1, <1>5, SumsUnique
<1> QED BY <1>1, <1>4, <1>6

=============================================================================
