---------------------------- MODULE Stock_proofs ----------------------------
(***************************************************************************)
(* The stock invariants of Stock, for any ingredients, products, recipes   *)
(* and quantities, and any finite number of orders and lines; and, for any *)
(* amounts, methods, dates and opening balances, what Daybook and          *)
(* Suppliers promise of entries, corrections and suppliers' accounts.      *)
(***************************************************************************)
EXTENDS Stock, Suppliers, FiniteSetTheorems, SequenceTheorems, WellFoundedInduction, TLAPS

-----------------------------------------------------------------------------
(* Sums, as in Settlement_proofs.                                          *)

LEMMA LeastExists ==
  ASSUME NEW S, S \subseteq Nat, S # {}
  PROVE  \E x \in S : \A y \in S : x =< y
<1>1. \E x \in S : \A y \in S : ~ (<<y, x>> \in OpToRel(<, Nat))
  BY NatLessThanWellFounded, WFMin
<1>2. \A x, y \in Nat : <<y, x>> \in OpToRel(<, Nat) <=> y < x
  BY DEF OpToRel
<1>3. PICK x \in S : \A y \in S : ~ (y < x)
  BY <1>1, <1>2, Zenon
<1> QED
  BY <1>3

Some(T) == CHOOSE x \in T : TRUE

\* One member taken out of a finite set.
LEMMA TakeOut ==
  ASSUME NEW S, IsFiniteSet(S), NEW T \in SUBSET S, T # {}
  PROVE  /\ Some(T) \in T /\ T \ {Some(T)} \in SUBSET S
         /\ Cardinality(T) \in Nat /\ Cardinality(T \ {Some(T)}) \in Nat
         /\ Cardinality(T \ {Some(T)}) = Cardinality(T) - 1
<1>1. Some(T) \in T
  BY DEF Some
<1>2. IsFiniteSet(T)
  BY FS_Subset
<1> QED
  BY <1>1, <1>2, FS_RemoveElement, FS_CardinalityType

\* What the recursive function behind SumFunctionOnSet computes on the sets in Ts.
Adds(f, Ts, g) ==
  g = [T \in Ts |-> IF T = {} THEN 0 ELSE f[Some(T)] + g[T \ {Some(T)}]]

LEMMA SumIs ==
  ASSUME NEW f, NEW S
  PROVE  SumFunctionOnSet(f, S) = (CHOOSE g : Adds(f, SUBSET S, g))[S]
BY DEF SumFunctionOnSet, FoldFunctionOnSet, MapThenFoldSet, Adds, Some

\* There is such a function, by induction on the size of the sets.
LEMMA SumExists ==
  ASSUME NEW f, NEW S, IsFiniteSet(S)
  PROVE  \E g : Adds(f, SUBSET S, g)
<1> DEFINE Upto(n) == {T \in SUBSET S : Cardinality(T) <= n}
           Bad == {n \in Nat : ~ \E g : Adds(f, Upto(n), g)}
<1>1. Bad = {}
  <2> SUFFICES ASSUME Bad # {} PROVE FALSE
    OBVIOUS
  <2>1. PICK n \in Bad : \A m \in Bad : n <= m
    BY LeastExists
  <2>2. n # 0
    <3> DEFINE g == [T \in Upto(0) |-> 0]
    <3>1. \A T \in Upto(0) : T = {}
      <4> TAKE T \in Upto(0)
      <4>1. IsFiniteSet(T) /\ Cardinality(T) <= 0
        BY FS_Subset
      <4> QED
        BY <4>1, FS_EmptySet, FS_CardinalityType
    <3>2. g = [T \in Upto(0) |-> IF T = {} THEN 0 ELSE f[Some(T)] + g[T \ {Some(T)}]]
      BY <3>1, Zenon
    <3> HIDE DEF g
    <3>3. Adds(f, Upto(0), g)
      BY <3>2 DEF Adds
    <3>4. 0 \notin Bad
      BY <3>3
    <3> QED
      BY <3>4
  <2>3. n - 1 \in Nat /\ n - 1 \notin Bad
    <3>1. n \in Nat
      OBVIOUS
    <3> HIDE DEF Bad
    <3> QED
      BY <2>1, <2>2, <3>1
  <2>4. PICK h : Adds(f, Upto(n - 1), h)
    BY <2>3
  <2> DEFINE g == [T \in Upto(n) |-> IF T = {} THEN 0 ELSE f[Some(T)] + h[T \ {Some(T)}]]
  <2>5. \A T \in Upto(n - 1) : T \in Upto(n) /\ g[T] = h[T]
    <3> TAKE T \in Upto(n - 1)
    <3>1. Cardinality(T) \in Nat
      BY FS_Subset, FS_CardinalityType
    <3>2. T \in Upto(n)
      BY <2>1, <3>1
    <3>3. h = [U \in Upto(n - 1) |-> IF U = {} THEN 0 ELSE f[Some(U)] + h[U \ {Some(U)}]]
      BY <2>4 DEF Adds
    <3>4. h[T] = IF T = {} THEN 0 ELSE f[Some(T)] + h[T \ {Some(T)}]
      <4> HIDE DEF Upto
      <4> QED
        BY <3>3, Zenon
    <3>5. g[T] = IF T = {} THEN 0 ELSE f[Some(T)] + h[T \ {Some(T)}]
      <4> HIDE DEF Upto
      <4> QED
        BY <3>2, Zenon
    <3> QED
      BY <3>2, <3>4, <3>5
  <2>6. \A T \in Upto(n) : T # {} => T \ {Some(T)} \in Upto(n - 1)
    BY <2>1, TakeOut
  <2> DEFINE k == [T \in Upto(n) |-> IF T = {} THEN 0 ELSE f[Some(T)] + g[T \ {Some(T)}]]
  <2>7. \A T \in Upto(n) : g[T] = k[T]
    <3> TAKE T \in Upto(n)
    <3>1. T # {} => g[T \ {Some(T)}] = h[T \ {Some(T)}]
      BY <2>5, <2>6
    <3>2. g[T] = IF T = {} THEN 0 ELSE f[Some(T)] + h[T \ {Some(T)}]
      <4> HIDE DEF Upto
      <4> QED
        BY Zenon
    <3>3. k[T] = IF T = {} THEN 0 ELSE f[Some(T)] + g[T \ {Some(T)}]
      <4> HIDE DEF Upto, g
      <4> QED
        BY Zenon
    <3> HIDE DEF g, k, Upto
    <3> QED
      BY <3>1, <3>2, <3>3
  <2>8. g = k
    <3>1. g = [T \in Upto(n) |-> g[T]] /\ k = [T \in Upto(n) |-> k[T]]
      <4> HIDE DEF Upto
      <4> QED
        OBVIOUS
    <3> HIDE DEF g, k, Upto
    <3> QED
      BY <2>7, <3>1
  <2>9. Adds(f, Upto(n), g)
    <3> HIDE DEF g
    <3> QED
      BY <2>8 DEF Adds
  <2> QED
    BY <2>1, <2>9
<1>2. Cardinality(S) \in Nat /\ \A T \in SUBSET S : Cardinality(T) <= Cardinality(S)
  BY FS_Subset, FS_CardinalityType
<1>3. Upto(Cardinality(S)) = SUBSET S
  BY <1>2
<1>4. Cardinality(S) \notin Bad
  BY <1>1
<1> QED
  BY <1>2, <1>3, <1>4

\* And only one, whichever larger set of sets it is defined on.
LEMMA SumUnique ==
  ASSUME NEW f, NEW S, IsFiniteSet(S), NEW U \in SUBSET S, NEW g, NEW h,
         Adds(f, SUBSET S, g), Adds(f, SUBSET U, h)
  PROVE  g[U] = h[U]
<1> DEFINE Bad == {n \in Nat : \E T \in SUBSET U : Cardinality(T) = n /\ g[T] # h[T]}
<1>1. IsFiniteSet(U) /\ SUBSET U \subseteq SUBSET S
  BY FS_Subset
<1>2. Bad = {}
  <2> SUFFICES ASSUME Bad # {} PROVE FALSE
    OBVIOUS
  <2>1. PICK n \in Bad : \A m \in Bad : n <= m
    BY LeastExists
  <2>2. PICK T \in SUBSET U : Cardinality(T) = n /\ g[T] # h[T]
    OBVIOUS
  <2>3. /\ g[T] = IF T = {} THEN 0 ELSE f[Some(T)] + g[T \ {Some(T)}]
        /\ h[T] = IF T = {} THEN 0 ELSE f[Some(T)] + h[T \ {Some(T)}]
    <3>1. T \in SUBSET S /\ T \in SUBSET U
      BY <1>1
    <3>2. g = [X \in SUBSET S |-> IF X = {} THEN 0 ELSE f[Some(X)] + g[X \ {Some(X)}]]
      BY DEF Adds
    <3>3. h = [X \in SUBSET U |-> IF X = {} THEN 0 ELSE f[Some(X)] + h[X \ {Some(X)}]]
      BY DEF Adds
    <3> QED
      BY <3>1, <3>2, <3>3, Zenon
  <2>4. T # {}
    BY <2>2, <2>3
  <2>5. T \ {Some(T)} \in SUBSET U /\ Cardinality(T \ {Some(T)}) \in Nat /\ Cardinality(T \ {Some(T)}) = n - 1
    BY <1>1, <2>2, <2>4, TakeOut
  <2>6. n \in Nat
    OBVIOUS
  <2>7. n - 1 \notin Bad
    <3> HIDE DEF Bad
    <3> QED
      BY <2>1, <2>5, <2>6
  <2>8. g[T \ {Some(T)}] = h[T \ {Some(T)}]
    BY <2>5, <2>7
  <2> QED
    BY <2>2, <2>3, <2>8
<1>3. Cardinality(U) \in Nat
  BY <1>1, FS_CardinalityType
<1> QED
  BY <1>2, <1>3

\* A sum is an integer and is added up one element at a time: first the one the
\* definition chooses,
LEMMA SumFirst ==
  ASSUME NEW f, NEW S, IsFiniteSet(S)
  PROVE  SumFunctionOnSet(f, S) =
           IF S = {} THEN 0 ELSE f[Some(S)] + SumFunctionOnSet(f, S \ {Some(S)})
<1> DEFINE U == S \ {Some(S)}
           g == CHOOSE x : Adds(f, SUBSET S, x)
           h == CHOOSE x : Adds(f, SUBSET U, x)
<1>1. IsFiniteSet(U) /\ U \in SUBSET S
  BY FS_Subset
<1>2. Adds(f, SUBSET S, g)
  BY SumExists
<1>3. Adds(f, SUBSET U, h)
  BY <1>1, SumExists
<1> HIDE DEF g, h
<1>4. g[U] = h[U]
  BY <1>1, <1>2, <1>3, SumUnique
<1>5. SumFunctionOnSet(f, S) = g[S] /\ SumFunctionOnSet(f, U) = h[U]
  BY SumIs DEF g, h
<1>6. g[S] = IF S = {} THEN 0 ELSE f[Some(S)] + g[U]
  <2>1. g = [X \in SUBSET S |-> IF X = {} THEN 0 ELSE f[Some(X)] + g[X \ {Some(X)}]]
    BY <1>2 DEF Adds
  <2>2. S \in SUBSET S
    OBVIOUS
  <2> QED
    BY <2>1, <2>2, Zenon
<1> QED
  BY <1>4, <1>5, <1>6

LEMMA SumEmpty ==
  ASSUME NEW f
  PROVE  SumFunctionOnSet(f, {}) = 0
BY SumFirst, FS_EmptySet

LEMMA SumInt ==
  ASSUME NEW f, NEW S, IsFiniteSet(S), \A x \in S : f[x] \in Int
  PROVE  SumFunctionOnSet(f, S) \in Int
<1> DEFINE Bad == {n \in Nat : \E T \in SUBSET S : Cardinality(T) = n /\ SumFunctionOnSet(f, T) \notin Int}
<1>1. Bad = {}
  <2> SUFFICES ASSUME Bad # {} PROVE FALSE
    OBVIOUS
  <2>1. PICK n \in Bad : \A m \in Bad : n <= m
    BY LeastExists
  <2>2. PICK T \in SUBSET S : Cardinality(T) = n /\ SumFunctionOnSet(f, T) \notin Int
    OBVIOUS
  <2>3. SumFunctionOnSet(f, T) = IF T = {} THEN 0 ELSE f[Some(T)] + SumFunctionOnSet(f, T \ {Some(T)})
    BY SumFirst, FS_Subset
  <2>4. T # {}
    BY <2>2, <2>3
  <2>5. /\ T \ {Some(T)} \in SUBSET S /\ f[Some(T)] \in Int
        /\ Cardinality(T \ {Some(T)}) \in Nat /\ Cardinality(T \ {Some(T)}) = n - 1
    BY <2>2, <2>4, TakeOut
  <2>6. n \in Nat
    OBVIOUS
  <2>7. n - 1 \notin Bad
    <3> HIDE DEF Bad
    <3> QED
      BY <2>1, <2>5, <2>6
  <2>8. SumFunctionOnSet(f, T \ {Some(T)}) \in Int
    BY <2>5, <2>7
  <2> QED
    BY <2>2, <2>3, <2>4, <2>5, <2>8
<1>2. Cardinality(S) \in Nat
  BY FS_CardinalityType
<1> QED
  BY <1>1, <1>2

\* Any member may be added first.
LEMMA SumStep ==
  ASSUME NEW f, NEW S, IsFiniteSet(S), \A x \in S : f[x] \in Int, NEW y \in S
  PROVE  SumFunctionOnSet(f, S) = f[y] + SumFunctionOnSet(f, S \ {y})
<1> DEFINE Sum(T) == SumFunctionOnSet(f, T)
           Bad == {n \in Nat : \E T \in SUBSET S : \E z \in T :
                     Cardinality(T) = n /\ Sum(T) # f[z] + Sum(T \ {z})}
<1>0. \A T \in SUBSET S : IsFiniteSet(T) /\ Sum(T) \in Int
  BY SumInt, FS_Subset
<1>1. Bad = {}
  <2> SUFFICES ASSUME Bad # {} PROVE FALSE
    OBVIOUS
  <2>1. PICK n \in Bad : \A m \in Bad : n <= m
    BY LeastExists
  <2>2. PICK T \in SUBSET S : \E z \in T : Cardinality(T) = n /\ Sum(T) # f[z] + Sum(T \ {z})
    OBVIOUS
  <2>3. PICK z \in T : Cardinality(T) = n /\ Sum(T) # f[z] + Sum(T \ {z})
    BY <2>2
  <2> DEFINE c == Some(T)
             A == T \ {c}
             B == T \ {z}
             C == (T \ {c}) \ {z}
  <2>4. /\ c \in T /\ A \in SUBSET S /\ B \in SUBSET S /\ C \in SUBSET S
        /\ Cardinality(A) \in Nat /\ Cardinality(A) = n - 1
        /\ Cardinality(B) \in Nat /\ Cardinality(B) = n - 1
    BY <1>0, <2>3, TakeOut, FS_RemoveElement, FS_CardinalityType
  <2>5. Sum(T) = f[c] + Sum(A)
    BY <1>0, SumFirst
  <2>6. c # z
    BY <2>3, <2>5
  <2>7. n \in Nat /\ n - 1 \in Nat
    BY <2>4
  <2>8. n - 1 \notin Bad
    <3> HIDE DEF Bad
    <3> QED
      BY <2>1, <2>7
  <2> HIDE DEF Sum
  <2>9. Sum(A) = f[z] + Sum(A \ {z})
    BY <2>4, <2>6, <2>7, <2>8
  <2>10. Sum(B) = f[c] + Sum(B \ {c})
    BY <2>4, <2>6, <2>7, <2>8
  <2>11. A \ {z} = C /\ B \ {c} = C
    OBVIOUS
  <2>12. f[c] \in Int /\ f[z] \in Int /\ Sum(C) \in Int
    BY <1>0, <2>4
  <2>13. Sum(T) # f[z] + Sum(B) /\ Sum(A) = f[z] + Sum(C) /\ Sum(B) = f[c] + Sum(C)
    BY <2>3, <2>9, <2>10, <2>11
  <2> HIDE DEF c, A, B, C
  <2> DEFINE a == f[c] b == f[z] d == Sum(C)
  <2>14. a \in Int /\ b \in Int /\ d \in Int
    BY <2>12
  <2>15. Sum(T) # b + (a + d) /\ Sum(T) = a + (b + d)
    BY <2>5, <2>13
  <2> HIDE DEF a, b, d
  <2> QED
    BY <2>14, <2>15
<1>2. Cardinality(S) \in Nat /\ S \in SUBSET S
  BY FS_CardinalityType
<1> QED
  BY <1>1, <1>2

\* The sum of two functions.
LEMMA SumPlus ==
  ASSUME NEW S, IsFiniteSet(S), NEW f, NEW g, NEW h,
         \A x \in S : f[x] \in Int /\ g[x] \in Int /\ h[x] = f[x] + g[x]
  PROVE  SumFunctionOnSet(h, S) = SumFunctionOnSet(f, S) + SumFunctionOnSet(g, S)
<1> DEFINE F(T) == SumFunctionOnSet(f, T)
           G(T) == SumFunctionOnSet(g, T)
           H(T) == SumFunctionOnSet(h, T)
           Bad == {n \in Nat : \E T \in SUBSET S : Cardinality(T) = n /\ H(T) # F(T) + G(T)}
<1>0. \A T \in SUBSET S : IsFiniteSet(T) /\ F(T) \in Int /\ G(T) \in Int
  BY SumInt, FS_Subset
<1>1. Bad = {}
  <2> SUFFICES ASSUME Bad # {} PROVE FALSE
    OBVIOUS
  <2>1. PICK n \in Bad : \A m \in Bad : n <= m
    BY LeastExists
  <2>2. PICK T \in SUBSET S : Cardinality(T) = n /\ H(T) # F(T) + G(T)
    OBVIOUS
  <2>3. T # {}
    <3>1. H({}) = 0 /\ F({}) = 0 /\ G({}) = 0
      BY SumEmpty
    <3>2. H(T) # F(T) + G(T)
      BY <2>2
    <3> HIDE DEF F, G, H, Bad
    <3> SUFFICES ASSUME T = {} PROVE FALSE
      OBVIOUS
    <3>3. H({}) # F({}) + G({})
      BY <3>2
    <3> QED
      BY <3>1, <3>3
  <2> DEFINE x == Some(T)
             U == T \ {x}
  <2>4. x \in T /\ U \in SUBSET S /\ Cardinality(U) \in Nat /\ Cardinality(U) = n - 1
    BY <2>2, <2>3, TakeOut
  <2>5. F(T) = f[x] + F(U) /\ G(T) = g[x] + G(U) /\ H(T) = h[x] + H(U)
    BY <1>0, <2>3, SumFirst
  <2>6. n \in Nat
    OBVIOUS
  <2>7. n - 1 \notin Bad
    <3> HIDE DEF Bad
    <3> QED
      BY <2>1, <2>4, <2>6
  <2>8. H(U) = F(U) + G(U)
    BY <2>4, <2>7
  <2> HIDE DEF x, U, F, G, H
  <2>9. f[x] \in Int /\ g[x] \in Int /\ h[x] = f[x] + g[x] /\ F(U) \in Int /\ G(U) \in Int
    BY <1>0, <2>4
  <2> QED
    BY <2>2, <2>5, <2>8, <2>9
<1>2. Cardinality(S) \in Nat /\ S \in SUBSET S
  BY FS_CardinalityType
<1> QED
  BY <1>1, <1>2

\* Members that count nothing may be left out.
LEMMA SumZeros ==
  ASSUME NEW f, NEW S, IsFiniteSet(S), NEW A \in SUBSET S,
         \A x \in S : f[x] \in Int, \A x \in S \ A : f[x] = 0
  PROVE  SumFunctionOnSet(f, S) = SumFunctionOnSet(f, A)
<1> DEFINE Sum(T) == SumFunctionOnSet(f, T)
           R == S \ A
           Bad == {n \in Nat : \E T \in SUBSET R : Cardinality(T) = n /\ Sum(A \cup T) # Sum(A)}
<1>0. IsFiniteSet(R) /\ \A T \in SUBSET R : IsFiniteSet(A \cup T) /\ Sum(A \cup T) \in Int
  <2>1. IsFiniteSet(R)
    BY FS_Subset
  <2>2. ASSUME NEW T \in SUBSET R PROVE IsFiniteSet(A \cup T) /\ Sum(A \cup T) \in Int
    <3>1. A \cup T \subseteq S
      OBVIOUS
    <3>2. IsFiniteSet(A \cup T)
      BY <3>1, FS_Subset
    <3> QED
      BY <3>1, <3>2, SumInt
  <2> QED
    BY <2>1, <2>2
<1>1. Bad = {}
  <2> SUFFICES ASSUME Bad # {} PROVE FALSE
    OBVIOUS
  <2>1. PICK n \in Bad : \A m \in Bad : n <= m
    BY LeastExists
  <2>2. PICK T \in SUBSET R : Cardinality(T) = n /\ Sum(A \cup T) # Sum(A)
    OBVIOUS
  <2>3. T # {}
    <3>1. A \cup {} = A
      OBVIOUS
    <3> QED
      BY <2>2, <3>1
  <2> DEFINE x == Some(T)
             U == T \ {x}
  <2>4. x \in T /\ U \in SUBSET R /\ Cardinality(U) \in Nat /\ Cardinality(U) = n - 1
    BY <1>0, <2>2, <2>3, TakeOut
  <2>5. (A \cup T) \ {x} = A \cup U /\ x \in A \cup T /\ f[x] = 0
    BY <2>4
  <2>6. \A y \in A \cup T : f[y] \in Int
    OBVIOUS
  <2>7. SumFunctionOnSet(f, A \cup T) = f[x] + SumFunctionOnSet(f, (A \cup T) \ {x})
    <3> DEFINE W == A \cup T
    <3>1. IsFiniteSet(W) /\ x \in W /\ \A y \in W : f[y] \in Int
      BY <1>0, <2>5, <2>6
    <3> HIDE DEF x, W
    <3>2. SumFunctionOnSet(f, W) = f[x] + SumFunctionOnSet(f, W \ {x})
      BY <3>1, SumStep
    <3> QED
      BY <3>2 DEF W
  <2>8. n \in Nat
    OBVIOUS
  <2>9. n - 1 \notin Bad
    <3> HIDE DEF Bad
    <3> QED
      BY <2>1, <2>4, <2>8
  <2>10. Sum(A \cup U) = Sum(A)
    BY <2>4, <2>9
  <2>11. Sum(A \cup U) \in Int
    BY <1>0, <2>4
  <2> HIDE DEF x, U
  <2> QED
    BY <2>2, <2>5, <2>7, <2>10, <2>11
<1>2. Cardinality(R) \in Nat /\ R \in SUBSET R /\ A \cup R = S
  BY <1>0, FS_CardinalityType
<1>3. Cardinality(R) \notin Bad
  BY <1>1
<1> QED
  BY <1>2, <1>3

\* Functions that agree have the same sum, and one that counts a single member has its value.
LEMMA SumSame ==
  ASSUME NEW f, NEW g, NEW S, IsFiniteSet(S), \A x \in S : f[x] \in Int /\ g[x] = f[x]
  PROVE  SumFunctionOnSet(g, S) = SumFunctionOnSet(f, S)
<1> DEFINE z == [x \in S |-> 0]
<1>1. \A x \in S : z[x] = 0
  OBVIOUS
<1> HIDE DEF z
<1>2. SumFunctionOnSet(z, S) = SumFunctionOnSet(z, {})
  <2>1. {} \in SUBSET S
    OBVIOUS
  <2> QED
    BY <1>1, <2>1, SumZeros
<1>3. SumFunctionOnSet(g, S) = SumFunctionOnSet(f, S) + SumFunctionOnSet(z, S)
  BY <1>1, SumPlus
<1>4. SumFunctionOnSet(f, S) \in Int
  BY SumInt
<1> QED
  BY <1>2, <1>3, <1>4, SumEmpty

LEMMA SumOne ==
  ASSUME NEW f, NEW S, IsFiniteSet(S), NEW y \in S, f[y] \in Int, \A x \in S \ {y} : f[x] = 0
  PROVE  SumFunctionOnSet(f, S) = f[y]
<1>1. \A x \in S : f[x] \in Int
  OBVIOUS
<1>2. SumFunctionOnSet(f, S) = SumFunctionOnSet(f, {y})
  <2>1. {y} \in SUBSET S
    OBVIOUS
  <2> QED
    BY <1>1, <2>1, SumZeros
<1>3. IsFiniteSet({y}) /\ {y} \ {y} = {} /\ \A x \in {y} : f[x] \in Int
  BY FS_Singleton
<1>4. SumFunctionOnSet(f, {y}) = f[y] + SumFunctionOnSet(f, {y} \ {y})
  BY <1>3, SumStep
<1> QED
  BY <1>2, <1>3, <1>4, SumEmpty

-----------------------------------------------------------------------------
(* The inductive invariant.  HeldAsRecorded is stated of the charged lines, *)
(* which every command changes; here each line of the outlet counts with    *)
(* what it charges, so that a command moves some of the terms of one sum.   *)

ChargedIn(its, r, o) ==
  {l \in Lines : /\ its[l].order = o
                 /\ ~(its[l].state = "WAITING" /\ (its[l].voided \/ r.status = "CANCELLED"))}

Charge(its, r, o, i) ==
  [l \in Lines |-> IF l \in ChargedIn(its, r, o) THEN its[l].used[i] ELSE 0]

Recorded(its, r, o, i) == SumFunctionOnSet(Charge(its, r, o, i), Lines)

Unserved(its, o) == \A l \in Lines : its[l].order = o => its[l].state # "SERVED"

Holds(its, r, m, o) ==
  \A i \in Items : /\ Recorded(its, r, o, i) <= -m[i]
                   /\ Unserved(its, o) => Recorded(its, r, o, i) = -m[i]

\* An order that is not there, or no longer, has no lines and moved nothing.
Gone(r) == r.status \in {"ABSENT", "DELETED"}

StockSound(its, r, m, o) ==
  /\ Gone(r) => (\A l \in Lines : its[l].order # o) /\ (\A i \in Items : m[i] = 0)
  /\ ~r.web => Holds(its, r, m, o)

\* The code that registers an item sets its stock instead of adding to it, so what is
\* not registered must be nowhere in the books.
Untouched(i) ==
  /\ stock[i] = 0
  /\ \A p \in Products : recipe[p][i] = 0
  /\ \A l \in Lines : line[l].used[i] = 0
  /\ \A o \in Orders : moved[o][i] = 0

NewItemsUntouched ==
  /\ draft.item \in listed \cup {NoItem}
  /\ \A i \in Items \ listed : Untouched(i)

IInv ==
  /\ TypeOK
  /\ \A o \in Orders : StockSound(line, order[o], moved[o], o)
  /\ MovementsExplainStock
  /\ NewItemsUntouched

LinesStay(its, o) ==
  \A l \in Lines :
    /\ line[l].order # o /\ its[l].order # o => its[l] = line[l]
    /\ line[l].order \in Orders \ {o} => its[l].order # o
    /\ line[l].order = o => its[l].order \notin Orders \ {o}

OthersKept(o) == \A p \in Orders \ {o} : order'[p] = order[p] /\ moved'[p] = moved[p]

LEMMA Rows ==
  ASSUME TypeOK
  PROVE  /\ \A l \in Lines : line[l] \in LineRow
         /\ \A l \in Lines, i \in Items : line[l].used[i] \in Nat
         /\ \A l \in Lines : line[l].quantity \in Nat \ {0}
         /\ \A o \in Orders, i \in Items : moved[o][i] \in Int
         /\ \A i \in Items : stock[i] \in Int /\ other[i] \in Int
<1>1. \A l \in Lines : line[l] \in LineRow
  BY DEF TypeOK
<1>2. ASSUME NEW l \in Lines
      PROVE  (\A i \in Items : line[l].used[i] \in Nat) /\ line[l].quantity \in Nat \ {0}
  <2>1. line[l].used \in [Items -> Nat] /\ line[l].quantity \in Quantities
    BY <1>1 DEF LineRow
  <2> QED
    BY <2>1, StockAssumption DEF Quantities
<1>3. \A o \in Orders : moved[o] \in [Items -> Int]
  BY DEF TypeOK
<1> QED
  BY <1>1, <1>2, <1>3 DEF TypeOK

\* What a line charges is an integer, and so is what an order recorded.
LEMMA ChargeInt ==
  ASSUME NEW its \in [Lines -> LineRow], NEW r, NEW o, NEW i \in Items
  PROVE  /\ \A l \in Lines : Charge(its, r, o, i)[l] \in Nat
         /\ Recorded(its, r, o, i) \in Int
<1>1. \A l \in Lines : its[l].used[i] \in Nat
  <2> TAKE l \in Lines
  <2>1. its[l].used \in [Items -> Nat]
    BY DEF LineRow
  <2> QED
    BY <2>1
<1>2. \A l \in Lines : Charge(its, r, o, i)[l] \in Nat
  BY <1>1 DEF Charge
<1> QED
  BY <1>2, SumInt, StockAssumption DEF Recorded

\* An order without lines recorded nothing.
LEMMA NoLinesNothing ==
  ASSUME NEW its, NEW r, NEW o, NEW i, \A l \in Lines : its[l].order # o
  PROVE  Recorded(its, r, o, i) = 0
<1> DEFINE c == Charge(its, r, o, i)
<1>1. \A l \in Lines : c[l] = 0
  BY DEF Charge, ChargedIn
<1> HIDE DEF c
<1>2. {} \in SUBSET Lines
  OBVIOUS
<1>3. SumFunctionOnSet(c, Lines) = SumFunctionOnSet(c, {})
  BY <1>1, <1>2, SumZeros, StockAssumption
<1> QED
  BY <1>3, SumEmpty DEF c, Recorded

\* A command that writes one order and its lines keeps what holds of the others.
LEMMA OneOrder ==
  ASSUME IInv, TypeOK', NEW o \in Orders, OthersKept(o), LinesStay(line', o),
         StockSound(line', order'[o], moved'[o], o), MovementsExplainStock',
         NewItemsUntouched'
  PROVE  IInv'
<1>1. ASSUME NEW p \in Orders \ {o}
      PROVE  StockSound(line', order'[p], moved'[p], p)
  <2>1. \A l \in Lines : /\ line[l].order = p => line'[l] = line[l]
                         /\ line'[l].order = p <=> line[l].order = p
    BY DEF LinesStay
  <2>2. order'[p] = order[p] /\ moved'[p] = moved[p]
    BY DEF OthersKept
  <2>3. ChargedIn(line', order[p], p) = ChargedIn(line, order[p], p)
    BY <2>1 DEF ChargedIn
  <2>4. \A i : Charge(line', order[p], p, i) = Charge(line, order[p], p, i)
    BY <2>1, <2>3 DEF Charge, ChargedIn
  <2>5. Unserved(line', p) <=> Unserved(line, p)
    BY <2>1 DEF Unserved
  <2>6. StockSound(line, order[p], moved[p], p)
    BY DEF IInv
  <2> QED
    BY <2>1, <2>2, <2>4, <2>5, <2>6 DEF StockSound, Holds, Recorded
<1> QED
  BY <1>1 DEF IInv

\* When the movements of one order change, so does their sum.
LEMMA MovedSum ==
  ASSUME NEW m \in [Orders -> [Items -> Int]], NEW n \in [Orders -> [Items -> Int]],
         NEW o \in Orders, \A p \in Orders \ {o} : n[p] = m[p], NEW i \in Items
  PROVE  /\ SumFunction([p \in Orders |-> m[p][i]]) \in Int
         /\ SumFunction([p \in Orders |-> n[p][i]])
              = SumFunction([p \in Orders |-> m[p][i]]) + (n[o][i] - m[o][i])
<1> DEFINE f == [p \in Orders |-> m[p][i]]
           d == [p \in Orders |-> IF p = o THEN n[o][i] - m[o][i] ELSE 0]
           h == [p \in Orders |-> n[p][i]]
<1>1. \A p \in Orders : m[p][i] \in Int /\ n[p][i] \in Int
  <2> TAKE p \in Orders
  <2>1. m[p] \in [Items -> Int] /\ n[p] \in [Items -> Int]
    OBVIOUS
  <2> QED
    BY <2>1
<1>2. \A p \in Orders : f[p] \in Int /\ d[p] \in Int /\ h[p] = f[p] + d[p]
  <2> TAKE p \in Orders
  <2>1. CASE p = o
    BY <1>1, <2>1
  <2>2. CASE p # o
    BY <1>1, <2>2
  <2> QED
    BY <2>1, <2>2
<1>3. d[o] = n[o][i] - m[o][i] /\ (\A p \in Orders \ {o} : d[p] = 0)
  OBVIOUS
<1>4. SumFunction(f) = SumFunctionOnSet(f, Orders) /\ SumFunction(h) = SumFunctionOnSet(h, Orders)
  BY DEF SumFunction
<1> HIDE DEF f, d, h
<1>5. SumFunctionOnSet(h, Orders) = SumFunctionOnSet(f, Orders) + SumFunctionOnSet(d, Orders)
  BY <1>2, StockAssumption, SumPlus
<1>6. SumFunctionOnSet(d, Orders) = d[o]
  BY <1>2, <1>3, StockAssumption, SumOne
<1>7. SumFunctionOnSet(f, Orders) \in Int
  BY <1>2, StockAssumption, SumInt
<1> QED
  BY <1>3, <1>4, <1>5, <1>6, <1>7 DEF f, h

\* Giving back, or taking, ingredients for one order is explained by its movements.
LEMMA GiveBackKeeps ==
  ASSUME IInv, NEW o \in Orders, NEW given \in [Items -> Int], GiveBack(o, given)
  PROVE  /\ MovementsExplainStock'
         /\ stock' \in [Items -> Int] /\ moved' \in [Orders -> [Items -> Int]]
         /\ \A p \in Orders \ {o} : moved'[p] = moved[p]
         /\ \A i \in Items : moved'[o][i] = moved[o][i] + given[i]
<1>1. /\ stock \in [Items -> Int] /\ other \in [Items -> Int]
      /\ moved \in [Orders -> [Items -> Int]]
  BY DEF IInv, TypeOK
<1>2. \A i \in Items : /\ given[i] \in Int /\ stock[i] \in Int /\ other[i] \in Int
                       /\ moved[o][i] \in Int
  BY <1>1, Rows DEF IInv
<1>3. Plus(stock, given) \in [Items -> Int] /\ Plus(moved[o], given) \in [Items -> Int]
  BY <1>2 DEF Plus
<1>4. stock' = Plus(stock, given) /\ moved' = [moved EXCEPT ![o] = Plus(moved[o], given)] /\ other' = other
  BY DEF GiveBack
<1>5. moved' \in [Orders -> [Items -> Int]] /\ stock' \in [Items -> Int]
  BY <1>1, <1>3, <1>4
<1>6. /\ \A p \in Orders \ {o} : moved'[p] = moved[p]
      /\ \A i \in Items : moved'[o][i] = moved[o][i] + given[i] /\ stock'[i] = stock[i] + given[i]
  BY <1>1, <1>4 DEF Plus
<1>7. ASSUME NEW i \in Items
      PROVE  stock'[i] = other'[i] + SumFunction([p \in Orders |-> moved'[p][i]])
  <2>1. /\ SumFunction([p \in Orders |-> moved[p][i]]) \in Int
        /\ SumFunction([p \in Orders |-> moved'[p][i]])
             = SumFunction([p \in Orders |-> moved[p][i]]) + (moved'[o][i] - moved[o][i])
    BY <1>1, <1>5, <1>6, MovedSum
  <2>2. stock[i] = other[i] + SumFunction([p \in Orders |-> moved[p][i]])
    BY DEF IInv, MovementsExplainStock
  <2> QED
    BY <1>2, <1>4, <1>6, <2>1, <2>2
<1> QED
  BY <1>5, <1>6, <1>7 DEF MovementsExplainStock

\* The same, with what the command leaves alone and what unregistered items need.
LEMMA GaveBack ==
  ASSUME IInv, NEW o \in Orders, NEW given \in [Items -> Int], GiveBack(o, given),
         \A i \in Items \ listed : given[i] = 0,
         line' \in [Lines -> LineRow], order' \in [Orders -> OrderRow],
         \A p \in Orders \ {o} : order'[p] = order[p], LinesStay(line', o),
         \A l \in Lines, i \in Items \ listed : line'[l].used[i] = 0,
         StockSound(line', order'[o], moved'[o], o)
  PROVE  IInv'
<1>1. /\ MovementsExplainStock'
      /\ stock' \in [Items -> Int] /\ moved' \in [Orders -> [Items -> Int]]
      /\ \A p \in Orders \ {o} : moved'[p] = moved[p]
      /\ \A i \in Items : moved'[o][i] = moved[o][i] + given[i]
  BY GiveBackKeeps
<1>2. /\ listed' = listed /\ draft' = draft /\ recipe' = recipe /\ other' = other
      /\ stock' = Plus(stock, given)
  BY DEF GiveBack, store
<1>3. TypeOK'
  BY <1>1, <1>2 DEF IInv, TypeOK
<1>4. OthersKept(o)
  BY <1>1 DEF OthersKept
<1>5. ASSUME NEW i \in Items \ listed PROVE Untouched(i)'
  <2>1. Untouched(i) /\ given[i] = 0
    BY DEF IInv, NewItemsUntouched
  <2>2. stock'[i] = 0
    BY <1>2, <2>1 DEF Plus, Untouched
  <2>3. \A p \in Orders : moved'[p][i] = 0
    BY <1>1, <2>1 DEF Untouched
  <2> QED
    BY <1>2, <2>1, <2>2, <2>3 DEF Untouched
<1>6. NewItemsUntouched'
  BY <1>2, <1>5 DEF IInv, NewItemsUntouched
<1> QED
  BY <1>1, <1>3, <1>4, <1>6, OneOrder

LEMMA NothingMoved ==
  ASSUME IInv, NEW o \in Orders, UNCHANGED <<stock, store, moved, other>>,
         line' \in [Lines -> LineRow], order' \in [Orders -> OrderRow],
         \A p \in Orders \ {o} : order'[p] = order[p], LinesStay(line', o),
         \A l \in Lines, i \in Items \ listed : line'[l].used[i] = 0,
         StockSound(line', order'[o], moved[o], o)
  PROVE  IInv'
<1>1. /\ listed' = listed /\ draft' = draft /\ recipe' = recipe /\ other' = other
      /\ stock' = stock /\ moved' = moved
  BY DEF store
<1>2. TypeOK'
  BY <1>1 DEF IInv, TypeOK
<1>3. OthersKept(o)
  BY <1>1 DEF OthersKept
<1>4. ASSUME NEW i \in Items \ listed PROVE Untouched(i)'
  BY <1>1 DEF IInv, NewItemsUntouched, Untouched
<1>5. NewItemsUntouched' /\ MovementsExplainStock'
  BY <1>1, <1>4 DEF IInv, NewItemsUntouched, MovementsExplainStock
<1> QED
  BY <1>1, <1>2, <1>3, <1>5, OneOrder

\* Units of a line hold a share of what it took; all of them, all of it.
LEMMA Portion ==
  ASSUME NEW a \in Nat, NEW n \in Nat \ {0}, NEW q \in 1..n
  PROVE  /\ (a * q) \div n \in Nat /\ (a * q) \div n <= a
         /\ (a * n) \div n = a
<1> DEFINE x == a * q
           y == a * n
           d == x \div n
<1>1. x \in Nat /\ y \in Nat
  OBVIOUS
<1>2. x <= y
  <2>1. n - q \in Nat
    OBVIOUS
  <2>2. a * (n - q) \in Nat
    BY <2>1
  <2>3. a * (n - q) = a * n - a * q
    OBVIOUS
  <2> QED
    BY <1>1, <2>2, <2>3
<1>3. y \div n = a
  OBVIOUS
<1>4. d \in Nat /\ d <= a
  OBVIOUS
<1> QED
  BY <1>3, <1>4

-----------------------------------------------------------------------------
(* Totals over the lines of a command.                                     *)

Taken(S, take, i) == [l \in Lines |-> IF l \in S THEN take[l][i] ELSE 0]

\* A total is the sum over all lines of the outlet, those left out counting nothing.
LEMMA TotalOver ==
  ASSUME NEW S \in SUBSET Lines, NEW take, \A l \in S, i \in Items : take[l][i] \in Int
  PROVE  /\ Total(S, take) \in [Items -> Int]
         /\ \A i \in Items :
              /\ (\A l \in S : take[l][i] = 0) => Total(S, take)[i] = 0
              /\ Total(S, take)[i] =
                   SumFunctionOnSet(Taken(S, take, i), Lines)
<1>0. IsFiniteSet(S) /\ IsFiniteSet(Lines) /\ {} \in SUBSET S
  BY StockAssumption, FS_Subset
<1>1. ASSUME NEW i \in Items
      PROVE  /\ Total(S, take)[i] \in Int
             /\ (\A l \in S : take[l][i] = 0) => Total(S, take)[i] = 0
             /\ Total(S, take)[i] =
                  SumFunctionOnSet(Taken(S, take, i), Lines)
  <2> DEFINE f == [l \in S |-> take[l][i]]
             h == [l \in Lines |-> IF l \in S THEN take[l][i] ELSE 0]
  <2>1. Total(S, take)[i] = SumFunctionOnSet(f, S)
    BY DEF Total
  <2>2. \A l \in S : f[l] = take[l][i] /\ f[l] \in Int /\ h[l] = f[l]
    OBVIOUS
  <2>3. \A l \in Lines : h[l] \in Int
    OBVIOUS
  <2>4. \A l \in Lines \ S : h[l] = 0
    OBVIOUS
  <2> HIDE DEF f, h
  <2>5. SumFunctionOnSet(h, S) = SumFunctionOnSet(f, S)
    BY <1>0, <2>2, SumSame
  <2>6. SumFunctionOnSet(h, Lines) = SumFunctionOnSet(h, S)
    BY <1>0, <2>3, <2>4, SumZeros
  <2>7. SumFunctionOnSet(f, S) \in Int
    BY <1>0, <2>2, SumInt
  <2>8. ASSUME \A l \in S : take[l][i] = 0 PROVE SumFunctionOnSet(f, S) = 0
    <3>1. \A l \in S : f[l] \in Int
      BY <2>2
    <3>2. \A l \in S \ {} : f[l] = 0
      BY <2>2, <2>8
    <3>3. SumFunctionOnSet(f, S) = SumFunctionOnSet(f, {})
      BY <1>0, <3>1, <3>2, SumZeros
    <3> QED
      BY <3>3, SumEmpty
  <2> QED
    BY <2>1, <2>5, <2>6, <2>7, <2>8 DEF h, Taken
<1> QED
  BY <1>1 DEF Total

Needs(b) == [l \in DOMAIN b |-> [i \in Items |-> recipe[b[l].product][i] * b[l].quantity]]

\* What the lines of a request need.
LEMMA Needed ==
  ASSUME IInv, NEW b \in Baskets
  PROVE  /\ DOMAIN b \in SUBSET Lines
         /\ \A l \in DOMAIN b : /\ b[l].quantity \in Quantities /\ b[l].kitchen \in BOOLEAN
                                /\ Needs(b)[l] \in [Items -> Nat]
         /\ \A l \in DOMAIN b, i \in Items : Needs(b)[l][i] \in Nat
         /\ \A l \in DOMAIN b, i \in Items \ listed : Needs(b)[l][i] = 0
<1>1. PICK new \in (SUBSET Lines) \ {{}} :
        b \in [new -> [product: Products, quantity: Quantities, kitchen: BOOLEAN]]
  BY DEF Baskets
<1>2. DOMAIN b \in SUBSET Lines
  BY <1>1
<1>3. \A l \in DOMAIN b : b[l].quantity \in Quantities /\ b[l].kitchen \in BOOLEAN /\ b[l].product \in Products
  BY <1>1
<1>4. ASSUME NEW l \in DOMAIN b, NEW i \in Items
      PROVE  /\ recipe[b[l].product][i] * b[l].quantity \in Nat
             /\ i \notin listed => recipe[b[l].product][i] * b[l].quantity = 0
  <2>1. recipe[b[l].product] \in Recipes
    BY <1>3 DEF IInv, TypeOK
  <2>2. recipe[b[l].product][i] \in Nat /\ b[l].quantity \in Nat
    BY <1>3, <2>1, StockAssumption DEF Recipes, Quantities
  <2>3. i \notin listed => recipe[b[l].product][i] = 0
    BY <1>3 DEF IInv, NewItemsUntouched, Untouched
  <2> DEFINE x == recipe[b[l].product][i]
             y == b[l].quantity
  <2>4. x \in Nat /\ y \in Nat /\ (i \notin listed => x = 0)
    BY <2>2, <2>3
  <2> HIDE DEF x, y
  <2>5. x * y \in Nat /\ (i \notin listed => x * y = 0)
    BY <2>4
  <2> QED
    BY <2>5 DEF x, y
<1>5. \A l \in DOMAIN b : Needs(b)[l] = [i \in Items |-> recipe[b[l].product][i] * b[l].quantity]
  BY DEF Needs
<1> QED
  BY <1>2, <1>3, <1>4, <1>5

\* Lines sent to the kitchen.
LEMMA AddLinesKeeps ==
  ASSUME IInv, NEW o \in Orders, NEW b \in Baskets, AddLines(o, b),
         order' \in [Orders -> OrderRow], \A p \in Orders \ {o} : order'[p] = order[p],
         Gone(order[o]) \/ order'[o].web = order[o].web, ~Gone(order'[o]),
         order[o].status # "CANCELLED", order'[o].status # "CANCELLED"
  PROVE  IInv'
<1> DEFINE total == Total(DOMAIN b, Needs(b))
           cooked == \E l \in DOMAIN b : b[l].kitchen
<1>1. /\ \A l \in DOMAIN b : line[l].order = NoOrder
      /\ line' = [l \in Lines |->
           IF l \in DOMAIN b
           THEN [order |-> o, used |-> Needs(b)[l], quantity |-> b[l].quantity,
                 kitchen |-> b[l].kitchen,
                 state |-> IF cooked THEN "WAITING" ELSE "STARTED", voided |-> FALSE]
           ELSE line[l]]
      /\ GiveBack(o, Minus(Nothing, total))
  BY DEF AddLines, Needs
<1>2. /\ DOMAIN b \in SUBSET Lines
      /\ \A l \in DOMAIN b : /\ b[l].quantity \in Quantities /\ b[l].kitchen \in BOOLEAN
                             /\ Needs(b)[l] \in [Items -> Nat]
      /\ \A l \in DOMAIN b, i \in Items : Needs(b)[l][i] \in Nat
      /\ \A l \in DOMAIN b, i \in Items \ listed : Needs(b)[l][i] = 0
  BY Needed
<1>3. /\ total \in [Items -> Int]
      /\ \A i \in Items \ listed : total[i] = 0
      /\ \A i \in Items : total[i] =
           SumFunctionOnSet(Taken(DOMAIN b, Needs(b), i), Lines)
  <2> DEFINE S == DOMAIN b
             take == Needs(b)
  <2>1. /\ S \in SUBSET Lines /\ \A l \in S, i \in Items : take[l][i] \in Int
        /\ \A i \in Items \ listed : \A l \in S : take[l][i] = 0
    BY <1>2
  <2> HIDE DEF S, take
  <2>2. /\ Total(S, take) \in [Items -> Int]
        /\ \A i \in Items \ listed : Total(S, take)[i] = 0
        /\ \A i \in Items : Total(S, take)[i] =
             SumFunctionOnSet(Taken(S, take, i), Lines)
    <3>1. /\ Total(S, take) \in [Items -> Int]
          /\ \A i \in Items :
              /\ (\A l \in S : take[l][i] = 0) => Total(S, take)[i] = 0
              /\ Total(S, take)[i] =
                   SumFunctionOnSet(Taken(S, take, i), Lines)
      BY <2>1, TotalOver, Zenon
    <3> QED
      BY <2>1, <3>1, Zenon
  <2> QED
    BY <2>2 DEF S, take
<1> HIDE DEF total
<1>4. /\ \A l \in DOMAIN b :
           /\ line'[l].order = o /\ line'[l].used = Needs(b)[l]
           /\ line'[l].state \in {"WAITING", "STARTED"} /\ ~line'[l].voided
           /\ line'[l] \in LineRow
      /\ \A l \in Lines \ DOMAIN b : line'[l] = line[l]
  BY <1>1, <1>2 DEF LineRow
<1>5. line' \in [Lines -> LineRow]
  <2>1. \A l \in Lines : line'[l] \in LineRow
    BY <1>2, <1>4, Rows DEF IInv
  <2>2. line' = [l \in Lines |-> line'[l]]
    BY <1>1
  <2> QED
    BY <2>1, <2>2
<1>6. Minus(Nothing, total) \in [Items -> Int] /\ \A i \in Items : Minus(Nothing, total)[i] = -total[i]
  BY <1>3 DEF Minus, Nothing
<1>7. LinesStay(line', o)
  BY <1>1, <1>2, <1>4, StockAssumption DEF LinesStay
<1>8. \A l \in Lines, i \in Items \ listed : line'[l].used[i] = 0
  BY <1>2, <1>4 DEF IInv, NewItemsUntouched, Untouched
<1>9. \A i \in Items : moved'[o][i] = moved[o][i] - total[i]
  <2>1. \A i \in Items : moved'[o][i] = moved[o][i] + Minus(Nothing, total)[i]
    BY <1>1, <1>6, GiveBackKeeps
  <2>2. \A i \in Items : moved[o][i] \in Int /\ total[i] \in Int
    BY <1>3, Rows DEF IInv
  <2> QED
    BY <1>6, <2>1, <2>2
<1>10. ASSUME NEW i \in Items
       PROVE  Recorded(line', order'[o], o, i) = Recorded(line, order[o], o, i) + total[i]
  <2> DEFINE c == Charge(line, order[o], o, i)
             d == Taken(DOMAIN b, Needs(b), i)
             e == Charge(line', order'[o], o, i)
  <2>1. \A l \in Lines : c[l] \in Int /\ d[l] \in Int
    BY <1>2, ChargeInt DEF IInv, TypeOK, Taken
  <2>2. ASSUME NEW l \in Lines PROVE e[l] = c[l] + d[l]
    <3>1. CASE l \in DOMAIN b
      <4>1. e[l] = Needs(b)[l][i] /\ d[l] = Needs(b)[l][i]
        BY <1>4, <3>1 DEF Charge, ChargedIn, Taken
      <4>2. c[l] = 0
        BY <1>1, <3>1, StockAssumption DEF Charge, ChargedIn, Taken
      <4> QED
        BY <1>2, <3>1, <4>1, <4>2
    <3>2. CASE l \notin DOMAIN b
      <4>1. e[l] = c[l] /\ d[l] = 0
        BY <1>4, <3>2 DEF Charge, ChargedIn, Taken
      <4> QED
        BY <2>1, <4>1
    <3> QED
      BY <3>1, <3>2
  <2>3. total[i] = SumFunctionOnSet(d, Lines)
    BY <1>3
  <2> HIDE DEF c, d, e
  <2>4. SumFunctionOnSet(e, Lines) = SumFunctionOnSet(c, Lines) + SumFunctionOnSet(d, Lines)
    BY <2>1, <2>2, SumPlus, StockAssumption
  <2> QED
    BY <2>3, <2>4 DEF c, e, Recorded
<1>11. ~order'[o].web => Holds(line, order[o], moved[o], o)
  <2>1. StockSound(line, order[o], moved[o], o)
    BY DEF IInv
  <2>2. CASE Gone(order[o])
    <3>1. ASSUME NEW i \in Items PROVE Recorded(line, order[o], o, i) = 0
      BY <2>1, <2>2, NoLinesNothing DEF StockSound
    <3>2. \A i \in Items : moved[o][i] = 0
      BY <2>1, <2>2 DEF StockSound
    <3> QED
      BY <3>1, <3>2 DEF Holds
  <2>3. CASE ~Gone(order[o])
    BY <2>1, <2>3 DEF StockSound
  <2> QED
    BY <2>2, <2>3
<1>12. Unserved(line', o) => Unserved(line, o)
  BY <1>1, <1>2, <1>4, StockAssumption DEF Unserved
<1>13. StockSound(line', order'[o], moved'[o], o)
  <2>1. ASSUME ~order'[o].web, NEW i \in Items
        PROVE  /\ Recorded(line', order'[o], o, i) <= -moved'[o][i]
               /\ Unserved(line', o) => Recorded(line', order'[o], o, i) = -moved'[o][i]
    <3>1. /\ Recorded(line, order[o], o, i) <= -moved[o][i]
          /\ Unserved(line, o) => Recorded(line, order[o], o, i) = -moved[o][i]
      BY <1>11, <2>1 DEF Holds
    <3>2. Recorded(line, order[o], o, i) \in Int /\ moved[o][i] \in Int /\ total[i] \in Int
      BY <1>3, Rows, ChargeInt DEF IInv, TypeOK
    <3> QED
      BY <1>9, <1>10, <1>12, <3>1, <3>2
  <2> QED
    BY <2>1 DEF StockSound, Holds
<1>14. \A i \in Items \ listed : Minus(Nothing, total)[i] = 0
  BY <1>3, <1>6
<1> QED
  BY <1>1, <1>5, <1>6, <1>7, <1>8, <1>13, <1>14, GaveBack

\* The kitchen changes the state of lines, which charge what they charged.
LEMMA ProgressKeeps ==
  ASSUME IInv, NEW o \in Orders, NEW lines \in SUBSET Lines, NEW state \in {"STARTED", "SERVED"},
         Progress(lines, state), UNCHANGED <<stock, store, moved, other>>,
         order' \in [Orders -> OrderRow], \A p \in Orders \ {o} : order'[p] = order[p],
         \A l \in lines : /\ line[l].order = o /\ ~line[l].voided
                          /\ line[l].state = "SERVED" => state = "SERVED",
         order'[o].web = order[o].web, ~Gone(order[o]), ~Gone(order'[o]),
         order[o].status # "CANCELLED", order'[o].status # "CANCELLED"
  PROVE  IInv'
<1>1. line' = [l \in Lines |-> IF l \in lines THEN [line[l] EXCEPT !.state = state] ELSE line[l]]
  BY DEF Progress
<1>2. \A l \in Lines : line[l] \in LineRow
  BY Rows DEF IInv
<1>3. ASSUME NEW l \in Lines
      PROVE  /\ line'[l] \in LineRow
             /\ line'[l].order = line[l].order /\ line'[l].used = line[l].used
             /\ line'[l].voided = line[l].voided
             /\ l \in lines => line'[l].state = state
             /\ l \notin lines => line'[l] = line[l]
  <2> DEFINE r == line[l]
             s == line'[l]
  <2>1. r \in LineRow
    BY <1>2
  <2>2. s = IF l \in lines THEN [r EXCEPT !.state = state] ELSE r
    BY <1>1
  <2> HIDE DEF r, s
  <2>3. /\ s \in LineRow /\ s.order = r.order /\ s.used = r.used /\ s.voided = r.voided
        /\ l \in lines => s.state = state
        /\ l \notin lines => s = r
    BY <2>1, <2>2 DEF LineRow
  <2> QED
    BY <2>3 DEF r, s
<1>4. line' \in [Lines -> LineRow]
  <2>1. line' = [l \in Lines |-> line'[l]]
    BY <1>1
  <2> QED
    BY <1>3, <2>1
<1>5. LinesStay(line', o)
  BY <1>3 DEF LinesStay
<1>6. \A l \in Lines, i \in Items \ listed : line'[l].used[i] = 0
  BY <1>3 DEF IInv, NewItemsUntouched, Untouched
<1>7. \A i : Charge(line', order'[o], o, i) = Charge(line, order[o], o, i)
  BY <1>3 DEF Charge, ChargedIn
<1>8. Unserved(line', o) => Unserved(line, o)
  BY <1>3 DEF Unserved
<1>9. StockSound(line, order[o], moved[o], o)
  BY DEF IInv
<1>10. StockSound(line', order'[o], moved[o], o)
  BY <1>7, <1>8, <1>9 DEF StockSound, Holds, Recorded
<1> QED
  BY <1>4, <1>5, <1>6, <1>10, NothingMoved

\* Commands that only write the order.
LEMMA StatusKeeps ==
  ASSUME IInv, NEW o \in Orders, UNCHANGED <<stock, store, line, moved, other>>,
         order' \in [Orders -> OrderRow], \A p \in Orders \ {o} : order'[p] = order[p],
         order'[o].web = order[o].web, ~Gone(order[o]), ~Gone(order'[o]),
         order[o].status # "CANCELLED", order'[o].status # "CANCELLED"
  PROVE  IInv'
<1>1. line = [l \in Lines |-> line[l]]
  BY DEF IInv, TypeOK
<1>2. line' = line /\ Progress({}, "STARTED")
  <2> SUFFICES line' = [l \in Lines |-> IF l \in {} THEN [line[l] EXCEPT !.state = "STARTED"] ELSE line[l]]
    BY DEF Progress
  <2>1. \A l \in Lines : (IF l \in {} THEN [line[l] EXCEPT !.state = "STARTED"] ELSE line[l]) = line[l]
    OBVIOUS
  <2> QED
    BY <1>1, <2>1
<1>3. {} \in SUBSET Lines
  OBVIOUS
<1> QED
  BY <1>2, <1>3, ProgressKeeps

\* What a line gives back is a share of what it took, so nothing of an item it did not take.
LEMMA ShareIs ==
  ASSUME IInv, NEW l \in Lines, NEW q \in 1..line[l].quantity
  PROVE  \A i \in Items :
           /\ Share(l, q)[i] \in Nat /\ Share(l, q)[i] <= line[l].used[i]
           /\ q = line[l].quantity => Share(l, q)[i] = line[l].used[i]
           /\ i \notin listed => Share(l, q)[i] = 0
<1> TAKE i \in Items
<1> DEFINE a == line[l].used[i]
           n == line[l].quantity
<1>1. a \in Nat /\ n \in Nat \ {0} /\ q \in 1..n
  BY Rows DEF IInv
<1>2. i \notin listed => a = 0
  BY DEF IInv, NewItemsUntouched, Untouched
<1>3. Share(l, q)[i] = (a * q) \div n
  BY DEF Share
<1> HIDE DEF a, n
<1>4. (a * q) \div n \in Nat /\ (a * q) \div n <= a /\ (a * n) \div n = a
  BY <1>1, Portion
<1>5. Share(l, q)[i] \in Nat /\ Share(l, q)[i] <= a /\ (q = n => Share(l, q)[i] = a)
  BY <1>3, <1>4
<1>6. i \notin listed => Share(l, q)[i] = 0
  BY <1>1, <1>2, <1>5
<1> QED
  BY <1>5, <1>6 DEF a, n

LEMMA RestoredIs ==
  ASSUME IInv, NEW l \in Lines, NEW q \in 1..line[l].quantity
  PROVE  /\ Restored(l, q) \in [Items -> Int]
         /\ \A i \in Items : /\ line[l].state = "WAITING" => Restored(l, q)[i] = Share(l, q)[i]
                             /\ line[l].state # "WAITING" => Restored(l, q)[i] = 0
                             /\ i \notin listed => Restored(l, q)[i] = 0
<1>1. \A i \in Items : Share(l, q)[i] \in Nat /\ (i \notin listed => Share(l, q)[i] = 0)
  BY ShareIs
<1>2. Share(l, q) \in [Items -> Int]
  <2>1. Share(l, q) = [i \in Items |-> Share(l, q)[i]]
    BY DEF Share
  <2> QED
    BY <1>1, <2>1
<1>3. Nothing \in [Items -> Int] /\ \A i \in Items : Nothing[i] = 0
  BY DEF Nothing
<1>4. CASE line[l].state = "WAITING"
  <2>1. Restored(l, q) = Share(l, q)
    BY <1>4 DEF Restored
  <2> QED
    BY <1>1, <1>2, <1>4, <2>1
<1>5. CASE line[l].state # "WAITING"
  <2>1. Restored(l, q) = Nothing
    BY <1>5 DEF Restored
  <2> QED
    BY <1>3, <1>5, <2>1
<1> QED
  BY <1>4, <1>5

LEMMA RemoveKeeps ==
  ASSUME IInv, NEW o \in Orders, NEW l \in Lines, NEW q \in Quantities, RemoveItem(o, l, q)
  PROVE  IInv'
<1> DEFINE r == line[l]
           full == q = line[l].quantity
           new == [r EXCEPT !.used = RecordLeft(l, q), !.voided = full, !.quantity = UnitsLeft(l, q)]
           cut == [line EXCEPT ![l] = new]
<1>0. /\ \A m \in Lines : line[m] \in LineRow
      /\ \A m \in Lines, i \in Items : line[m].used[i] \in Nat
      /\ r \in LineRow /\ r.quantity \in Nat \ {0}
  BY Rows DEF IInv
<1>1. /\ order[o].status \in {"PENDING", "ACTIVE", "COMPLETED"}
      /\ r.order = o /\ ~r.voided /\ r.state \in {"WAITING", "SERVED"} /\ q \in 1..r.quantity
      /\ GiveBack(o, Restored(l, q))
  BY DEF RemoveItem, Live, LinesOf
<1>2. PICK ready \in SUBSET {m \in Live(o) : line[m].state = "WAITING" /\ ~line[m].kitchen
                                             /\ ~cut[m].voided} :
        line' = [m \in Lines |-> IF m \in ready THEN [cut[m] EXCEPT !.state = "STARTED"] ELSE cut[m]]
  BY DEF RemoveItem
<1>3. /\ order' \in [Orders -> OrderRow] /\ \A p \in Orders \ {o} : order'[p] = order[p]
      /\ order'[o].web = order[o].web
      /\ order'[o].status \in {"PENDING", "ACTIVE", "COMPLETED"}
  <2> DEFINE done == \A m \in Lines : line'[m].order = o /\ ~line'[m].voided => line'[m].state = "SERVED"
  <2>1. order' = [order EXCEPT ![o].status =
          IF order[o].status = "PENDING" THEN order[o].status
          ELSE IF done THEN "COMPLETED" ELSE order[o].status]
    BY DEF RemoveItem
  <2> HIDE DEF done
  <2> DEFINE st == IF order[o].status = "PENDING" THEN order[o].status
                   ELSE IF done THEN "COMPLETED" ELSE order[o].status
  <2>2. st \in {"PENDING", "ACTIVE", "COMPLETED"}
    BY <1>1
  <2>3. order' = [order EXCEPT ![o].status = st]
    BY <2>1
  <2> HIDE DEF st
  <2>4. order \in [Orders -> OrderRow] /\ order[o] \in OrderRow
    BY DEF IInv, TypeOK
  <2> QED
    BY <2>2, <2>3, <2>4 DEF OrderRow, Open
<1>4. \A i \in Items : /\ Share(l, q)[i] \in Nat /\ Share(l, q)[i] <= r.used[i]
                       /\ full => Share(l, q)[i] = r.used[i]
                       /\ i \notin listed => Share(l, q)[i] = 0
  BY <1>1, ShareIs
<1>5. /\ RecordLeft(l, q) \in [Items -> Nat]
      /\ full => RecordLeft(l, q) = r.used
      /\ ~full => \A i \in Items : RecordLeft(l, q)[i] = r.used[i] - Share(l, q)[i]
      /\ \A i \in Items \ listed : RecordLeft(l, q)[i] = 0
  <2>1. CASE full
    <3>1. RecordLeft(l, q) = r.used
      BY <2>1 DEF RecordLeft
    <3>2. r.used \in [Items -> Nat] /\ \A i \in Items \ listed : r.used[i] = 0
      BY <1>0 DEF LineRow, IInv, NewItemsUntouched, Untouched
    <3> QED
      BY <2>1, <3>1, <3>2
  <2>2. CASE ~full
    <3>1. RecordLeft(l, q) = [i \in Items |-> r.used[i] - Share(l, q)[i]]
      BY <2>2 DEF RecordLeft, Minus
    <3>2. \A i \in Items : r.used[i] - Share(l, q)[i] \in Nat
      BY <1>0, <1>4
    <3>3. \A i \in Items \ listed : r.used[i] - Share(l, q)[i] = 0
      BY <1>0, <1>4 DEF IInv, NewItemsUntouched, Untouched
    <3> HIDE DEF full, r
    <3> QED
      BY <2>2, <3>1, <3>2, <3>3
  <2> QED
    BY <2>1, <2>2
<1>6. UnitsLeft(l, q) \in Quantities
  <2>1. r.quantity \in Quantities /\ MaxQuantity \in Nat
    BY <1>0, StockAssumption DEF LineRow
  <2> QED
    BY <1>1, <2>1 DEF UnitsLeft, Quantities
<1>7. /\ new \in LineRow /\ new.order = o /\ new.used = RecordLeft(l, q)
      /\ new.voided = full /\ new.state = r.state
  <2> DEFINE u == RecordLeft(l, q)
             k == UnitsLeft(l, q)
             v == full
  <2>1. u \in [Items -> Nat] /\ k \in Quantities /\ v \in BOOLEAN /\ r \in LineRow /\ r.order = o
    BY <1>0, <1>1, <1>5, <1>6
  <2>2. new = [r EXCEPT !.used = u, !.voided = v, !.quantity = k]
    OBVIOUS
  <2> HIDE DEF u, k, v, r, new
  <2>3. new \in LineRow /\ new.order = o /\ new.used = u /\ new.voided = v /\ new.state = r.state
    BY <2>1, <2>2 DEF LineRow
  <2> QED
    BY <2>3 DEF u, v
<1>8. line \in [Lines -> LineRow]
  BY DEF IInv, TypeOK
<1> HIDE DEF new
<1>9. cut[l] = new /\ \A m \in Lines \ {l} : cut[m] = line[m]
  BY <1>8
<1>10. ASSUME NEW m \in Lines
       PROVE  /\ cut[m] \in LineRow
              /\ m \in ready => /\ cut[m].state = "WAITING" /\ cut[m].order = o
                                /\ ~cut[m].voided /\ ~line[m].voided
  <2>1. cut[m] \in LineRow
    BY <1>0, <1>7, <1>9
  <2>2. ASSUME m \in ready
        PROVE  cut[m].state = "WAITING" /\ cut[m].order = o /\ ~cut[m].voided /\ ~line[m].voided
    <3>1. line[m].state = "WAITING" /\ line[m].order = o /\ ~line[m].voided /\ ~cut[m].voided
      BY <2>2 DEF Live, LinesOf
    <3> QED
      BY <1>7, <1>9, <3>1
  <2> QED
    BY <2>1, <2>2
<1> HIDE DEF cut, r
<1>11. ASSUME NEW m \in Lines
       PROVE  /\ line'[m] \in LineRow
              /\ line'[m].order = cut[m].order /\ line'[m].used = cut[m].used
              /\ line'[m].voided = cut[m].voided
              /\ m \in ready => line'[m].state = "STARTED"
              /\ m \notin ready => line'[m] = cut[m]
  <2> DEFINE t == cut[m]
             s == line'[m]
  <2>1. t \in LineRow
    BY <1>10
  <2>2. s = IF m \in ready THEN [t EXCEPT !.state = "STARTED"] ELSE t
    BY <1>2
  <2> HIDE DEF t, s
  <2>3. /\ s \in LineRow /\ s.order = t.order /\ s.used = t.used /\ s.voided = t.voided
        /\ m \in ready => s.state = "STARTED"
        /\ m \notin ready => s = t
    BY <2>1, <2>2 DEF LineRow
  <2> QED
    BY <2>3 DEF t, s
<1>12. line' \in [Lines -> LineRow]
  <2>1. line' = [m \in Lines |-> line'[m]]
    BY <1>2
  <2> QED
    BY <1>11, <2>1
<1>13. LinesStay(line', o)
  <2>1. \A m \in Lines : line'[m].order = line[m].order
    BY <1>1, <1>7, <1>9, <1>11 DEF r
  <2>2. \A m \in Lines : line[m].order # o => line'[m] = line[m]
    BY <1>1, <1>7, <1>9, <1>10, <1>11 DEF r
  <2> QED
    BY <2>1, <2>2 DEF LinesStay
<1>14. \A m \in Lines, i \in Items \ listed : line'[m].used[i] = 0
  BY <1>5, <1>7, <1>9, <1>11 DEF IInv, NewItemsUntouched, Untouched
<1>15. Unserved(line', o) => Unserved(line, o)
  <2>1. ASSUME NEW m \in Lines, line[m].order = o, line[m].state = "SERVED"
        PROVE  line'[m].order = o /\ line'[m].state = "SERVED"
    <3>1. cut[m].state = "SERVED" /\ cut[m].order = o
      BY <1>7, <1>9, <2>1 DEF r
    <3> QED
      BY <1>10, <1>11, <3>1
  <2> QED
    BY <2>1 DEF Unserved
<1>16. /\ Restored(l, q) \in [Items -> Int]
       /\ \A i \in Items : /\ r.state = "WAITING" => Restored(l, q)[i] = Share(l, q)[i]
                           /\ r.state # "WAITING" => Restored(l, q)[i] = 0
                           /\ i \notin listed => Restored(l, q)[i] = 0
  BY <1>1, RestoredIs DEF r
<1>17. \A i \in Items : moved'[o][i] = moved[o][i] + Restored(l, q)[i]
  BY <1>1, <1>16, GiveBackKeeps
<1>18. ASSUME NEW i \in Items
       PROVE  LET d == IF full THEN IF r.state = "WAITING" THEN -r.used[i] ELSE 0
                       ELSE -Share(l, q)[i]
              IN Recorded(line', order'[o], o, i) = Recorded(line, order[o], o, i) + d
  <2> DEFINE d == IF full THEN IF r.state = "WAITING" THEN -r.used[i] ELSE 0
                  ELSE -Share(l, q)[i]
             c == Charge(line, order[o], o, i)
             e == Charge(line', order'[o], o, i)
             only == [m \in Lines |-> IF m = l THEN d ELSE 0]
  <2>0. r.used[i] \in Nat /\ Share(l, q)[i] \in Nat
    BY <1>0, <1>4 DEF r
  <2>1. d \in Int /\ \A m \in Lines : c[m] \in Int
    BY <1>8, <2>0, ChargeInt
  <2>2. c[l] = r.used[i]
    BY <1>1, <1>3 DEF r, Charge, ChargedIn
  <2>3. e[l] = c[l] + d
    <3>1. CASE full
      <4>1. l \notin ready /\ line'[l] = new
        BY <1>7, <1>9, <1>10, <1>11, <3>1
      <4>2. CASE r.state = "WAITING"
        <5>1. e[l] = 0
          BY <1>7, <3>1, <4>1, <4>2 DEF Charge, ChargedIn
        <5> QED
          BY <2>0, <2>2, <3>1, <4>2, <5>1
      <4>3. CASE r.state = "SERVED"
        <5>1. e[l] = r.used[i]
          BY <1>5, <1>7, <3>1, <4>1, <4>3 DEF Charge, ChargedIn
        <5> QED
          BY <2>0, <2>2, <3>1, <4>3, <5>1
      <4> QED
        BY <1>1, <4>2, <4>3
    <3>2. CASE ~full
      <4>1. line'[l].order = o /\ ~line'[l].voided /\ line'[l].used[i] = r.used[i] - Share(l, q)[i]
        <5>1. /\ line'[l].order = new.order /\ line'[l].voided = new.voided
              /\ line'[l].used = new.used
          BY <1>9, <1>11
        <5>2. new.used[i] = r.used[i] - Share(l, q)[i] /\ ~new.voided
          BY <1>5, <1>7, <3>2
        <5> QED
          BY <1>7, <5>1, <5>2
      <4>2. order'[o].status # "CANCELLED"
        BY <1>3
      <4>3. e[l] = r.used[i] - Share(l, q)[i]
        BY <4>1, <4>2 DEF Charge, ChargedIn
      <4> QED
        BY <2>0, <2>2, <3>2, <4>3
    <3> QED
      BY <3>1, <3>2
  <2>4. ASSUME NEW m \in Lines \ {l} PROVE e[m] = c[m]
    <3>1. CASE m \in ready
      <4>1. /\ line'[m].state = "STARTED" /\ line'[m].order = o /\ line'[m].used = line[m].used
            /\ line[m].order = o /\ ~line[m].voided
        BY <1>9, <1>10, <1>11, <3>1
      <4> QED
        BY <1>1, <4>1 DEF Charge, ChargedIn
    <3>2. CASE m \notin ready
      <4>1. line'[m] = line[m]
        BY <1>9, <1>11, <3>2
      <4> QED
        BY <1>1, <1>3, <4>1 DEF Charge, ChargedIn
    <3> QED
      BY <3>1, <3>2
  <2>5. only[l] = d /\ \A m \in Lines \ {l} : only[m] = 0
    OBVIOUS
  <2> HIDE DEF c, e, only, d
  <2>6. \A m \in Lines : only[m] \in Int /\ e[m] = c[m] + only[m]
    <3> TAKE m \in Lines
    <3>1. CASE m = l
      BY <2>1, <2>3, <2>5, <3>1
    <3>2. CASE m # l
      BY <2>1, <2>4, <2>5, <3>2
    <3> QED
      BY <3>1, <3>2
  <2>7. SumFunctionOnSet(e, Lines) = SumFunctionOnSet(c, Lines) + SumFunctionOnSet(only, Lines)
    BY <2>1, <2>6, SumPlus, StockAssumption
  <2>8. SumFunctionOnSet(only, Lines) = d
    BY <2>1, <2>5, SumOne, StockAssumption
  <2> QED
    BY <2>7, <2>8 DEF c, e, d, Recorded
<1>19. StockSound(line, order[o], moved[o], o) /\ ~Gone(order'[o])
  BY <1>3 DEF IInv, Gone
<1>20. r.state = "SERVED" => ~Unserved(line', o)
  <2> SUFFICES ASSUME r.state = "SERVED" PROVE line'[l].order = o /\ line'[l].state = "SERVED"
    BY DEF Unserved
  <2>1. cut[l].state = "SERVED" /\ cut[l].order = o
    BY <1>7, <1>9
  <2> QED
    BY <1>10, <1>11, <2>1
<1>21. ASSUME ~order'[o].web, NEW i \in Items
       PROVE  /\ Recorded(line', order'[o], o, i) <= -moved'[o][i]
              /\ Unserved(line', o) => Recorded(line', order'[o], o, i) = -moved'[o][i]
  <2> DEFINE u == r.used[i]
             h == Share(l, q)[i]
             a == Recorded(line, order[o], o, i)
             b == moved[o][i]
             a2 == Recorded(line', order'[o], o, i)
             b2 == moved'[o][i]
             g == Restored(l, q)[i]
  <2>1. a <= -b /\ (Unserved(line, o) => a = -b)
    BY <1>3, <1>19, <1>21 DEF StockSound, Holds
  <2>2. a \in Int /\ b \in Int /\ u \in Nat /\ h \in Nat /\ (full => h = u)
    <3>1. a \in Int
      BY <1>8, ChargeInt
    <3>2. b \in Int
      BY Rows DEF IInv
    <3> QED
      BY <1>0, <1>4, <3>1, <3>2 DEF r
  <2>3. a2 = a + (IF full THEN IF r.state = "WAITING" THEN -u ELSE 0 ELSE -h)
    BY <1>18
  <2>4. b2 = b + g /\ (r.state = "WAITING" => g = h) /\ (r.state # "WAITING" => g = 0)
    BY <1>16, <1>17
  <2> HIDE DEF u, h, a, b, a2, b2, g, full
  <2>5. a2 <= -b2 /\ (Unserved(line', o) => a2 = -b2)
    <3>1. CASE r.state = "WAITING"
      BY <1>15, <2>1, <2>2, <2>3, <2>4, <3>1
    <3>2. CASE r.state = "SERVED"
      BY <1>20, <2>1, <2>2, <2>3, <2>4, <3>2
    <3> QED
      BY <1>1, <3>1, <3>2
  <2> QED
    BY <2>5 DEF a2, b2
<1>22. StockSound(line', order'[o], moved'[o], o)
  BY <1>19, <1>21 DEF StockSound, Holds
<1>23. \A i \in Items \ listed : Restored(l, q)[i] = 0
  BY <1>16
<1> QED
  BY <1>1, <1>3, <1>12, <1>13, <1>14, <1>16, <1>22, <1>23, GaveBack

LEMMA CancelKeeps ==
  ASSUME IInv, NEW o \in Orders, Cancel(o)
  PROVE  IInv'
<1> DEFINE S == Live(o)
           take == [l \in Lines |-> Restored(l, line[l].quantity)]
           given == Total(S, take)
<1>1. /\ order[o].status \in {"PENDING", "ACTIVE"}
      /\ order' = [order EXCEPT ![o].status = "CANCELLED"]
      /\ GiveBack(o, given) /\ line' = line
  BY DEF Cancel
<1>2. line \in [Lines -> LineRow] /\ order \in [Orders -> OrderRow] /\ order[o] \in OrderRow
  BY DEF IInv, TypeOK
<1>3. /\ order' \in [Orders -> OrderRow] /\ \A p \in Orders \ {o} : order'[p] = order[p]
      /\ order'[o].web = order[o].web /\ order'[o].status = "CANCELLED"
  BY <1>1, <1>2 DEF OrderRow
<1>4. ASSUME NEW l \in Lines, NEW i \in Items
      PROVE  /\ take[l][i] \in Int
             /\ take[l][i] = IF line[l].state = "WAITING" THEN line[l].used[i] ELSE 0
             /\ i \notin listed => take[l][i] = 0
  <2> DEFINE n == line[l].quantity
  <2>1. n \in 1..n
    BY Rows DEF IInv
  <2>2. take[l] = Restored(l, n)
    OBVIOUS
  <2>3. /\ Restored(l, n) \in [Items -> Int]
        /\ line[l].state = "WAITING" => Restored(l, n)[i] = Share(l, n)[i]
        /\ line[l].state # "WAITING" => Restored(l, n)[i] = 0
        /\ i \notin listed => Restored(l, n)[i] = 0
    BY <2>1, RestoredIs
  <2>4. Share(l, n)[i] = line[l].used[i]
    BY <2>1, ShareIs
  <2>5. Restored(l, n)[i] \in Int
    BY <2>3
  <2> HIDE DEF take
  <2> QED
    BY <2>2, <2>3, <2>4, <2>5
<1>5. S \in SUBSET Lines
  BY DEF Live, LinesOf
<1> HIDE DEF take
<1>6. /\ given \in [Items -> Int]
      /\ \A i \in Items :
           /\ (\A l \in S : take[l][i] = 0) => given[i] = 0
           /\ given[i] = SumFunctionOnSet(Taken(S, take, i), Lines)
  <2>1. \A l \in S, i \in Items : take[l][i] \in Int
    BY <1>4, <1>5
  <2>2. S \in SUBSET Lines /\ \A l \in S, i \in Items : take[l][i] \in Int
    BY <1>5, <2>1
  <2> HIDE DEF S
  <2>3. /\ Total(S, take) \in [Items -> Int]
        /\ \A i \in Items :
             /\ (\A l \in S : take[l][i] = 0) => Total(S, take)[i] = 0
             /\ Total(S, take)[i] =
                  SumFunctionOnSet(Taken(S, take, i), Lines)
    BY <2>2, TotalOver
  <2> QED
    BY <2>3, Zenon
<1>7. \A i \in Items \ listed : given[i] = 0
  <2> HIDE DEF given, S
  <2> QED
    BY <1>4, <1>5, <1>6
<1> HIDE DEF given
<1>8. ASSUME NEW i \in Items
      PROVE  Recorded(line, order[o], o, i) = Recorded(line', order'[o], o, i) + given[i]
  <2> DEFINE c == Charge(line, order[o], o, i)
             d == Taken(S, take, i)
             e == Charge(line', order'[o], o, i)
  <2>1. \A l \in Lines : e[l] \in Int /\ d[l] \in Int
    BY <1>1, <1>2, <1>4, ChargeInt DEF Taken
  <2>2. ASSUME NEW l \in Lines PROVE c[l] = e[l] + d[l]
    <3>0. line[l].used[i] \in Int
      BY Rows DEF IInv
    <3>1. CASE line[l].order # o
      <4>1. c[l] = 0 /\ e[l] = 0 /\ d[l] = 0
        BY <1>1, <3>1 DEF Taken, Charge, ChargedIn, Live, LinesOf
      <4> QED
        BY <4>1
    <3>2. CASE line[l].order = o /\ line[l].state # "WAITING"
      <4>1. c[l] = line[l].used[i] /\ e[l] = line[l].used[i] /\ d[l] = 0
        BY <1>1, <1>4, <3>2 DEF Taken, Charge, ChargedIn
      <4> QED
        BY <3>0, <4>1
    <3>3. CASE line[l].order = o /\ line[l].state = "WAITING" /\ ~line[l].voided
      <4>1. c[l] = line[l].used[i] /\ e[l] = 0 /\ d[l] = line[l].used[i]
        BY <1>1, <1>3, <1>4, <3>3 DEF Taken, Charge, ChargedIn, Live, LinesOf
      <4> QED
        BY <3>0, <4>1
    <3>4. CASE line[l].order = o /\ line[l].state = "WAITING" /\ line[l].voided
      <4>1. c[l] = 0 /\ e[l] = 0 /\ d[l] = 0
        BY <1>1, <3>4 DEF Taken, Charge, ChargedIn, Live
      <4> QED
        BY <4>1
    <3> QED
      BY <3>1, <3>2, <3>3, <3>4
  <2>3. given[i] = SumFunctionOnSet(d, Lines)
    BY <1>6
  <2> HIDE DEF c, d, e
  <2>4. SumFunctionOnSet(c, Lines) = SumFunctionOnSet(e, Lines) + SumFunctionOnSet(d, Lines)
    BY <2>1, <2>2, SumPlus, StockAssumption
  <2> QED
    BY <2>3, <2>4 DEF c, e, Recorded
<1>9. \A i \in Items : moved'[o][i] = moved[o][i] + given[i]
  BY <1>1, <1>6, GiveBackKeeps
<1>10. StockSound(line, order[o], moved[o], o) /\ ~Gone(order'[o])
  BY <1>3 DEF IInv, Gone
<1>11. ASSUME ~order'[o].web, NEW i \in Items
       PROVE  /\ Recorded(line', order'[o], o, i) <= -moved'[o][i]
              /\ Unserved(line', o) => Recorded(line', order'[o], o, i) = -moved'[o][i]
  <2>1. /\ Recorded(line, order[o], o, i) <= -moved[o][i]
        /\ Unserved(line', o) => Recorded(line, order[o], o, i) = -moved[o][i]
    BY <1>1, <1>3, <1>10, <1>11 DEF StockSound, Holds
  <2>2. /\ Recorded(line', order'[o], o, i) \in Int /\ moved[o][i] \in Int /\ given[i] \in Int
        /\ Recorded(line, order[o], o, i) \in Int
    BY <1>1, <1>2, <1>6, Rows, ChargeInt DEF IInv
  <2> QED
    BY <1>8, <1>9, <2>1, <2>2
<1>12. StockSound(line', order'[o], moved'[o], o)
  BY <1>10, <1>11 DEF StockSound, Holds
<1>13. LinesStay(line', o) /\ \A l \in Lines, i \in Items \ listed : line'[l].used[i] = 0
  BY <1>1 DEF LinesStay, IInv, NewItemsUntouched, Untouched
<1> QED
  BY <1>1, <1>2, <1>3, <1>6, <1>7, <1>12, <1>13, GaveBack

\* The customer's cancellation gives back whatever its lines say; the order is a website one.
LEMMA CustomerCancelKeeps ==
  ASSUME IInv, NEW o \in Orders, CustomerCancel(o)
  PROVE  IInv'
<1> DEFINE S == LinesOf(o)
           take == [l \in Lines |-> Restored(l, line[l].quantity)]
           given == Total(S, take)
<1>1. /\ order[o].web /\ order' = [order EXCEPT ![o].status = "CANCELLED"]
      /\ GiveBack(o, given) /\ line' = line
  BY DEF CustomerCancel
<1>2. line \in [Lines -> LineRow] /\ order \in [Orders -> OrderRow] /\ order[o] \in OrderRow
  BY DEF IInv, TypeOK
<1>3. /\ order' \in [Orders -> OrderRow] /\ \A p \in Orders \ {o} : order'[p] = order[p]
      /\ order'[o].web /\ order'[o].status = "CANCELLED"
  BY <1>1, <1>2 DEF OrderRow
<1>4. ASSUME NEW l \in Lines, NEW i \in Items
      PROVE  take[l][i] \in Int /\ (i \notin listed => take[l][i] = 0)
  <2> DEFINE n == line[l].quantity
  <2>1. n \in 1..n
    BY Rows DEF IInv
  <2>2. Restored(l, n) \in [Items -> Int] /\ (i \notin listed => Restored(l, n)[i] = 0)
    BY <2>1, RestoredIs
  <2>3. take[l] = Restored(l, n)
    OBVIOUS
  <2> HIDE DEF take
  <2> QED
    BY <2>2, <2>3
<1>5. S \in SUBSET Lines
  BY DEF LinesOf
<1> HIDE DEF take
<1>6. given \in [Items -> Int] /\ \A i \in Items : (\A l \in S : take[l][i] = 0) => given[i] = 0
  <2>1. \A l \in S, i \in Items : take[l][i] \in Int
    BY <1>4, <1>5
  <2> HIDE DEF S
  <2> QED
    BY <1>5, <2>1, TotalOver, Zenon
<1>7. \A i \in Items \ listed : given[i] = 0
  <2> HIDE DEF given, S
  <2> QED
    BY <1>4, <1>5, <1>6
<1> HIDE DEF given
<1>8. StockSound(line', order'[o], moved'[o], o)
  BY <1>3 DEF StockSound, Gone
<1>9. LinesStay(line', o) /\ \A l \in Lines, i \in Items \ listed : line'[l].used[i] = 0
  BY <1>1 DEF LinesStay, IInv, NewItemsUntouched, Untouched
<1> QED
  BY <1>1, <1>2, <1>3, <1>6, <1>7, <1>8, <1>9, GaveBack

\* A deleted order leaves no lines and no movements.
LEMMA DeleteKeeps ==
  ASSUME IInv, NEW o \in Orders, NEW restore \in BOOLEAN, Delete(o, restore)
  PROVE  IInv'
<1>1. /\ stock' = IF restore THEN Minus(stock, moved[o]) ELSE stock
      /\ other' = IF restore THEN other ELSE Plus(other, moved[o])
      /\ moved' = [moved EXCEPT ![o] = Nothing]
      /\ order' = [order EXCEPT ![o] = [NoRow EXCEPT !.status = "DELETED"]]
      /\ line' = [l \in Lines |-> IF line[l].order = o THEN NoLine ELSE line[l]]
      /\ listed' = listed /\ draft' = draft /\ recipe' = recipe
  BY DEF Delete, Undo, store
<1>2. /\ line \in [Lines -> LineRow] /\ order \in [Orders -> OrderRow]
      /\ moved \in [Orders -> [Items -> Int]]
      /\ \A i \in Items : stock[i] \in Int /\ other[i] \in Int /\ moved[o][i] \in Int
  BY Rows DEF IInv, TypeOK
<1>3. Nothing \in [Items -> Nat] /\ \A i \in Items : Nothing[i] = 0
  BY DEF Nothing
<1>4. NoLine \in LineRow /\ NoLine.order = NoOrder /\ NoLine.used = Nothing
  BY <1>3, StockAssumption DEF NoLine, LineRow, Quantities
<1>5. /\ order'[o] = [NoRow EXCEPT !.status = "DELETED"] /\ order' \in [Orders -> OrderRow]
      /\ \A p \in Orders \ {o} : order'[p] = order[p]
  BY <1>1, <1>2 DEF NoRow, OrderRow
<1>6. /\ moved' \in [Orders -> [Items -> Int]] /\ moved'[o] = Nothing
      /\ \A p \in Orders \ {o} : moved'[p] = moved[p]
  BY <1>1, <1>2, <1>3
<1>7. line' \in [Lines -> LineRow] /\ \A l \in Lines : line'[l].order # o
  BY <1>1, <1>2, <1>4, StockAssumption
<1>8. ASSUME NEW i \in Items
      PROVE  /\ stock'[i] = IF restore THEN stock[i] - moved[o][i] ELSE stock[i]
             /\ other'[i] = IF restore THEN other[i] ELSE other[i] + moved[o][i]
  BY <1>1 DEF Minus, Plus
<1>9. stock' \in [Items -> Int] /\ other' \in [Items -> Int]
  <2>1. Minus(stock, moved[o]) \in [Items -> Int] /\ Plus(other, moved[o]) \in [Items -> Int]
    BY <1>2 DEF Minus, Plus
  <2> QED
    BY <1>1, <2>1 DEF IInv, TypeOK
<1>10. TypeOK'
  BY <1>1, <1>5, <1>6, <1>7, <1>9 DEF IInv, TypeOK
<1>11. ASSUME NEW i \in Items
       PROVE  stock'[i] = other'[i] + SumFunction([p \in Orders |-> moved'[p][i]])
  <2>1. /\ SumFunction([p \in Orders |-> moved[p][i]]) \in Int
        /\ SumFunction([p \in Orders |-> moved'[p][i]])
             = SumFunction([p \in Orders |-> moved[p][i]]) + (moved'[o][i] - moved[o][i])
    BY <1>2, <1>6, MovedSum
  <2>2. stock[i] = other[i] + SumFunction([p \in Orders |-> moved[p][i]]) /\ moved'[o][i] = 0
    BY <1>3, <1>6 DEF IInv, MovementsExplainStock
  <2> QED
    BY <1>2, <1>8, <2>1, <2>2
<1>12. LinesStay(line', o) /\ OthersKept(o)
  BY <1>1, <1>4, <1>5, <1>6, <1>7, StockAssumption DEF LinesStay, OthersKept
<1>13. ASSUME NEW i \in Items \ listed PROVE Untouched(i)'
  <2>1. Untouched(i)
    BY DEF IInv, NewItemsUntouched
  <2>2. stock'[i] = 0
    BY <1>2, <1>8, <2>1 DEF Untouched
  <2>3. \A p \in Orders : moved'[p][i] = 0
    BY <1>3, <1>6, <2>1 DEF Untouched
  <2>4. \A l \in Lines : line'[l].used[i] = 0
    BY <1>1, <1>3, <1>4, <2>1 DEF Untouched
  <2> QED
    BY <1>1, <2>1, <2>2, <2>3, <2>4 DEF Untouched
<1>14. NewItemsUntouched'
  BY <1>1, <1>13 DEF IInv, NewItemsUntouched
<1>15. ASSUME NEW i \in Items PROVE Recorded(line', order'[o], o, i) = 0 /\ moved'[o][i] = 0
  BY <1>3, <1>6, <1>7, NoLinesNothing
<1>16. StockSound(line', order'[o], moved'[o], o)
  BY <1>3, <1>6, <1>7, <1>15 DEF StockSound, Holds
<1> QED
  BY <1>10, <1>11, <1>12, <1>14, <1>16, OneOrder DEF MovementsExplainStock

-----------------------------------------------------------------------------
(* The store room and the menu.                                            *)

\* A change of the stock that no order makes is in the books next to the orders'.
LEMMA StoreKeeps ==
  ASSUME IInv, UNCHANGED <<line, order, moved>>,
         listed' \subseteq Items, stock' \in [Items -> Int], other' \in [Items -> Int],
         draft' \in [item: Items \cup {NoItem}, stock: Int], recipe' \in [Products -> Recipes],
         \A i \in Items : stock'[i] - stock[i] = other'[i] - other[i],
         listed \subseteq listed', draft'.item \in listed' \cup {NoItem},
         \A i \in Items \ listed' : stock'[i] = stock[i] /\ \A p \in Products : recipe'[p][i] = 0
  PROVE  IInv'
<1>1. TypeOK'
  BY DEF IInv, TypeOK
<1>2. ASSUME NEW i \in Items
      PROVE  stock'[i] = other'[i] + SumFunction([p \in Orders |-> moved'[p][i]])
  <2>1. SumFunction([p \in Orders |-> moved[p][i]]) \in Int
    <3>1. \A p \in Orders : [q \in Orders |-> moved[q][i]][p] \in Int
      BY Rows DEF IInv
    <3> QED
      BY <3>1, SumInt, StockAssumption DEF SumFunction
  <2>2. stock[i] = other[i] + SumFunction([p \in Orders |-> moved[p][i]])
    BY DEF IInv, MovementsExplainStock
  <2>3. stock[i] \in Int /\ other[i] \in Int /\ stock'[i] \in Int /\ other'[i] \in Int
    BY Rows DEF IInv
  <2>4. SumFunction([p \in Orders |-> moved'[p][i]]) = SumFunction([p \in Orders |-> moved[p][i]])
    OBVIOUS
  <2> QED
    BY <2>1, <2>2, <2>3, <2>4
<1>3. ASSUME NEW i \in Items \ listed' PROVE Untouched(i)'
  <2>1. Untouched(i)
    BY DEF IInv, NewItemsUntouched
  <2> QED
    BY <2>1 DEF Untouched
<1>4. NewItemsUntouched'
  BY <1>3 DEF NewItemsUntouched
<1>5. \A o \in Orders : StockSound(line', order'[o], moved'[o], o)
  BY DEF IInv
<1> QED
  BY <1>1, <1>2, <1>4, <1>5 DEF IInv, MovementsExplainStock

\* What the books of one item change with its stock.
LEMMA OneItem ==
  ASSUME IInv, NEW i, NEW n \in Int, NEW d \in Int,
         stock' = [stock EXCEPT ![i] = n], Booked(i, d),
         i \in Items => d = n - stock[i]
  PROVE  /\ stock' \in [Items -> Int] /\ other' \in [Items -> Int]
         /\ \A j \in Items : stock'[j] - stock[j] = other'[j] - other[j]
         /\ \A j \in Items \ {i} : stock'[j] = stock[j]
<1>1. stock \in [Items -> Int] /\ other \in [Items -> Int]
  BY DEF IInv, TypeOK
<1>2. other' = [other EXCEPT ![i] = other[i] + d]
  BY DEF Booked
<1>3. \A j \in Items : stock[j] \in Int /\ other[j] \in Int
  BY <1>1
<1>4. other' \in [Items -> Int] /\ stock' \in [Items -> Int]
  <2>1. stock' \in [Items -> Int]
    BY <1>1
  <2>2. CASE i \in Items
    <3>1. other[i] + d \in Int
      BY <1>3, <2>2
    <3> QED
      BY <1>1, <1>2, <2>1, <3>1
  <2>3. CASE i \notin Items
    <3>1. other' = other
      BY <1>1, <1>2, <2>3
    <3> QED
      BY <1>1, <2>1, <3>1
  <2> QED
    BY <2>2, <2>3
<1>5. ASSUME NEW j \in Items PROVE stock'[j] - stock[j] = other'[j] - other[j]
  <2>1. CASE j = i
    <3>1. stock'[j] = n /\ other'[j] = other[j] + (n - stock[j])
      BY <1>1, <1>2, <2>1
    <3> QED
      BY <1>3, <3>1
  <2>2. CASE j # i
    <3>1. stock'[j] = stock[j] /\ other'[j] = other[j]
      BY <1>1, <1>2, <2>2
    <3> QED
      BY <1>3, <3>1
  <2> QED
    BY <2>1, <2>2
<1>6. \A j \in Items \ {i} : stock'[j] = stock[j]
  BY <1>1
<1> QED
  BY <1>4, <1>5, <1>6

LEMMA StoreStepKeeps ==
  ASSUME IInv, StoreStep
  PROVE  IInv'
<1>0. /\ listed \subseteq Items /\ stock \in [Items -> Int] /\ other \in [Items -> Int]
      /\ draft \in [item: Items \cup {NoItem}, stock: Int] /\ recipe \in [Products -> Recipes]
      /\ draft.item \in listed \cup {NoItem}
      /\ \A i \in Items : stock[i] \in Int /\ other[i] \in Int
      /\ \A i \in Items \ listed : stock[i] = 0 /\ \A p \in Products : recipe[p][i] = 0
      /\ Amounts \subseteq Int
  BY Rows, StockAssumption DEF IInv, TypeOK, NewItemsUntouched, Untouched, Amounts
<1>1. ASSUME NEW i \in Items, NEW n \in Amounts, RegisterItem(i, n)
      PROVE  IInv'
  <2>1. /\ i \notin listed /\ listed' = listed \cup {i} /\ stock' = [stock EXCEPT ![i] = n]
        /\ Booked(i, n) /\ draft' = draft /\ recipe' = recipe /\ UNCHANGED <<line, order, moved>>
    BY <1>1 DEF RegisterItem
  <2>2. n \in Int /\ n = n - stock[i]
    BY <1>0, <2>1
  <2>3. /\ stock' \in [Items -> Int] /\ other' \in [Items -> Int]
        /\ \A j \in Items : stock'[j] - stock[j] = other'[j] - other[j]
        /\ \A j \in Items \ {i} : stock'[j] = stock[j]
    BY <2>1, <2>2, OneItem
  <2> QED
    BY <1>0, <2>1, <2>3, StoreKeeps
<1>2. ASSUME NEW i \in Items, NEW q \in Amounts, Restock(i, q)
      PROVE  IInv'
  <2>1. /\ i \in listed /\ stock' = [stock EXCEPT ![i] = stock[i] + q] /\ Booked(i, q)
        /\ listed' = listed /\ draft' = draft /\ recipe' = recipe /\ UNCHANGED <<line, order, moved>>
    BY <1>2 DEF Restock, store
  <2>2. q \in Int /\ stock[i] + q \in Int /\ q = (stock[i] + q) - stock[i]
    BY <1>0
  <2>3. /\ stock' \in [Items -> Int] /\ other' \in [Items -> Int]
        /\ \A j \in Items : stock'[j] - stock[j] = other'[j] - other[j]
        /\ \A j \in Items \ {i} : stock'[j] = stock[j]
    BY <2>1, <2>2, OneItem
  <2> QED
    BY <1>0, <2>1, <2>3, StoreKeeps
<1>3. ASSUME NEW got \in Bills, Receive(got)
      PROVE  IInv'
  <2>1. /\ listed' = listed \cup {i \in Items : got[i] > 0}
        /\ stock' = Plus(stock, got) /\ other' = Plus(other, got)
        /\ draft' = draft /\ recipe' = recipe /\ UNCHANGED <<line, order, moved>>
    BY <1>3 DEF Receive
  <2>2. \A i \in Items : got[i] \in Nat
    BY StockAssumption DEF Bills, Amounts
  <2>3. Plus(stock, got) \in [Items -> Int] /\ Plus(other, got) \in [Items -> Int]
    BY <1>0, <2>2 DEF Plus
  <2>4. \A i \in Items : stock'[i] = stock[i] + got[i] /\ other'[i] = other[i] + got[i]
    BY <2>1 DEF Plus
  <2>5. \A i \in Items : stock'[i] - stock[i] = other'[i] - other[i]
    BY <1>0, <2>2, <2>4
  <2>6. \A i \in Items \ listed' : stock'[i] = stock[i]
    <3> TAKE i \in Items \ listed'
    <3>1. got[i] = 0
      BY <2>1, <2>2
    <3> QED
      BY <1>0, <2>4, <3>1
  <2> QED
    BY <1>0, <2>1, <2>3, <2>5, <2>6, StoreKeeps
<1>4. ASSUME NEW some \in SUBSET Items, NEW counted \in [some -> Amounts], Recount(counted)
      PROVE  IInv'
  <2>1. /\ some \subseteq listed
        /\ stock' = [i \in Items |-> IF i \in some THEN counted[i] ELSE stock[i]]
        /\ other' = Plus(other, Minus(stock', stock))
        /\ listed' = listed /\ draft' = draft /\ recipe' = recipe /\ UNCHANGED <<line, order, moved>>
    BY <1>4 DEF Recount, store
  <2>2. \A i \in Items : stock'[i] \in Int
    BY <1>0, <2>1
  <2>3. stock' \in [Items -> Int]
    BY <2>1, <2>2
  <2>4. \A i \in Items : other'[i] = other[i] + (stock'[i] - stock[i])
    BY <2>1 DEF Plus, Minus
  <2>5. \A i \in Items : other'[i] \in Int /\ stock'[i] - stock[i] = other'[i] - other[i]
    BY <1>0, <2>2, <2>4
  <2>6. other' \in [Items -> Int]
    <3>1. other' = [i \in Items |-> other'[i]]
      BY <2>1 DEF Plus
    <3> QED
      BY <2>5, <3>1
  <2>7. \A i \in Items \ listed' : stock'[i] = stock[i]
    BY <2>1
  <2> QED
    BY <1>0, <2>1, <2>3, <2>5, <2>6, <2>7, StoreKeeps
<1>5. ASSUME NEW i \in Items, ReadItem(i)
      PROVE  IInv'
  <2>1. /\ i \in listed /\ draft' = [item |-> i, stock |-> stock[i]]
        /\ UNCHANGED <<listed, recipe, stock, line, order, moved, other>>
    BY <1>5 DEF ReadItem
  <2>2. \A j \in Items : stock'[j] - stock[j] = other'[j] - other[j]
    BY <1>0, <2>1
  <2> QED
    BY <1>0, <2>1, <2>2, StoreKeeps
<1>6. ASSUME SaveItem
      PROVE  IInv'
  <2>1. PICK n \in SavedStock : /\ stock' = [stock EXCEPT ![draft.item] = n]
                                /\ Booked(draft.item, n - stock[draft.item])
    BY <1>6 DEF SaveItem
  <2>2. /\ draft # NoDraft /\ draft' = NoDraft
        /\ UNCHANGED <<listed, recipe, line, order, moved>>
    BY <1>6 DEF SaveItem
  <2>3. n \in Int /\ NoDraft \in [item: Items \cup {NoItem}, stock: Int] /\ NoDraft.item = NoItem
    BY <1>0 DEF SavedStock, NoDraft
  <2>4. CASE draft.item \in listed
    <3> DEFINE i == draft.item
    <3>1. i \in Items /\ n - stock[i] \in Int
      BY <1>0, <2>3, <2>4
    <3>2. /\ stock' = [stock EXCEPT ![i] = n] /\ Booked(i, n - stock[i])
      BY <2>1
    <3>3. i \in listed
      BY <2>4
    <3> HIDE DEF i
    <3>4. /\ stock' \in [Items -> Int] /\ other' \in [Items -> Int]
          /\ \A j \in Items : stock'[j] - stock[j] = other'[j] - other[j]
          /\ \A j \in Items \ {i} : stock'[j] = stock[j]
      BY <2>3, <3>1, <3>2, OneItem
    <3> QED
      BY <1>0, <2>2, <2>3, <3>3, <3>4, StoreKeeps
  <2>5. CASE draft.item = NoItem
    <3>1. stock' = stock /\ other' = other
      BY <1>0, <2>1, <2>5, StockAssumption DEF Booked
    <3>2. \A j \in Items : stock'[j] - stock[j] = other'[j] - other[j]
      BY <1>0, <3>1
    <3> QED
      BY <1>0, <2>2, <2>3, <3>1, <3>2, StoreKeeps
  <2> QED
    BY <1>0, <2>4, <2>5
<1>7. ASSUME NEW p \in Products, NEW i \in Items, NEW n \in 1..MaxRecipe, AddIngredient(p, i, n)
      PROVE  IInv'
  <2>1. /\ i \in listed /\ recipe[p][i] + n <= MaxRecipe
        /\ recipe' = [recipe EXCEPT ![p][i] = recipe[p][i] + n]
        /\ UNCHANGED <<listed, draft, stock, line, order, moved, other>>
    BY <1>7 DEF AddIngredient
  <2>2. recipe[p] \in [Items -> 0..MaxRecipe] /\ recipe[p][i] \in 0..MaxRecipe
    BY <1>0 DEF Recipes
  <2>3. recipe[p][i] + n \in 0..MaxRecipe
    BY <2>1, <2>2, StockAssumption
  <2> DEFINE k == recipe[p][i] + n
             row == [recipe[p] EXCEPT ![i] = k]
  <2>4. k \in 0..MaxRecipe
    BY <2>3
  <2>5. recipe' = [recipe EXCEPT ![p] = row]
    BY <2>1
  <2> HIDE DEF k
  <2>6. row \in Recipes /\ \A j \in Items \ {i} : row[j] = recipe[p][j]
    BY <2>2, <2>4 DEF Recipes
  <2> HIDE DEF row
  <2>7. recipe' \in [Products -> Recipes] /\ recipe'[p] = row
        /\ \A x \in Products \ {p} : recipe'[x] = recipe[x]
    BY <1>0, <2>5, <2>6
  <2>8. \A j \in Items \ listed' : \A x \in Products : recipe'[x][j] = 0
    BY <1>0, <2>1, <2>6, <2>7
  <2>9. \A j \in Items : stock'[j] - stock[j] = other'[j] - other[j]
    BY <1>0, <2>1
  <2> QED
    BY <1>0, <2>1, <2>7, <2>8, <2>9, StoreKeeps
<1>8. ASSUME NEW p \in Products, NEW r \in Recipes, EditRecipe(p, r)
      PROVE  IInv'
  <2>1. /\ \A i \in Items : r[i] > 0 => i \in listed
        /\ recipe' = [recipe EXCEPT ![p] = r]
        /\ UNCHANGED <<listed, draft, stock, line, order, moved, other>>
    BY <1>8 DEF EditRecipe
  <2>2. \A i \in Items : r[i] \in Nat
    BY StockAssumption DEF Recipes
  <2>3. recipe' \in [Products -> Recipes] /\ recipe'[p] = r
        /\ \A x \in Products \ {p} : recipe'[x] = recipe[x]
    BY <1>0, <2>1
  <2>4. \A j \in Items \ listed' : r[j] = 0
    BY <2>1, <2>2
  <2>5. \A j \in Items \ listed' : \A x \in Products : recipe'[x][j] = 0
    BY <1>0, <2>1, <2>3, <2>4
  <2>6. \A j \in Items : stock'[j] - stock[j] = other'[j] - other[j]
    BY <1>0, <2>1
  <2> QED
    BY <1>0, <2>1, <2>3, <2>5, <2>6, StoreKeeps
<1>9. /\ \A i \in Items, n \in Amounts : (RegisterItem(i, n) => IInv') /\ (Restock(i, n) => IInv')
      /\ \A got \in Bills : Receive(got) => IInv'
      /\ \A some \in SUBSET Items : \A counted \in [some -> Amounts] : Recount(counted) => IInv'
      /\ \A i \in Items : ReadItem(i) => IInv'
      /\ \A p \in Products, i \in Items, n \in 1..MaxRecipe : AddIngredient(p, i, n) => IInv'
      /\ \A p \in Products, r \in Recipes : EditRecipe(p, r) => IInv'
  BY <1>1, <1>2, <1>3, <1>4, <1>5, <1>7, <1>8
<1>10. ASSUME NEW counted \in UNION {[some -> Amounts] : some \in SUBSET Items \ {{}}},
              Recount(counted)
       PROVE  IInv'
  <2>1. PICK some \in SUBSET Items \ {{}} : counted \in [some -> Amounts]
    OBVIOUS
  <2> QED
    BY <1>4, <1>10, <2>1
<1> HIDE DEF IInv
<1> QED
  BY <1>6, <1>9, <1>10 DEF StoreStep

-----------------------------------------------------------------------------
(* The theorems.                                                           *)

LEMMA InitIInv ==
  ASSUME Init
  PROVE  IInv
<1>1. Nothing \in [Items -> Nat] /\ \A i \in Items : Nothing[i] = 0
  BY DEF Nothing
<1>2. NoLine \in LineRow /\ NoRow \in OrderRow /\ Nothing \in Recipes
  <2>1. 0 \in 0..MaxRecipe /\ 1 \in Quantities
    BY StockAssumption DEF Quantities
  <2> QED
    BY <1>1, <2>1 DEF NoLine, LineRow, NoRow, OrderRow, Recipes, Nothing
<1>3. /\ listed = {} /\ stock = Nothing /\ draft = NoDraft /\ other = Nothing
      /\ recipe = [p \in Products |-> Nothing] /\ line = [l \in Lines |-> NoLine]
      /\ order = [o \in Orders |-> NoRow] /\ moved = [o \in Orders |-> Nothing]
  BY DEF Init
<1>4. /\ \A l \in Lines : line[l] = NoLine
      /\ \A o \in Orders : order[o] = NoRow /\ moved[o] = Nothing
      /\ \A p \in Products : recipe[p] = Nothing
  BY <1>3
<1>5. TypeOK
  BY <1>1, <1>2, <1>3 DEF TypeOK, NoDraft
<1>6. ASSUME NEW o \in Orders PROVE StockSound(line, order[o], moved[o], o)
  <2>1. \A l \in Lines : line[l].order # o
    BY <1>4, StockAssumption DEF NoLine
  <2>2. \A i \in Items : Recorded(line, order[o], o, i) = 0
    BY <2>1, NoLinesNothing
  <2> QED
    BY <1>1, <1>4, <2>1, <2>2 DEF StockSound, Holds
<1>7. ASSUME NEW i \in Items
      PROVE  stock[i] = other[i] + SumFunction([p \in Orders |-> moved[p][i]])
  <2> DEFINE f == [p \in Orders |-> moved[p][i]]
  <2>1. \A p \in Orders : f[p] = 0
    BY <1>1, <1>4
  <2>2. SumFunction(f) = SumFunctionOnSet(f, Orders)
    BY DEF SumFunction
  <2> HIDE DEF f
  <2>3. {} \in SUBSET Orders
    OBVIOUS
  <2>4. SumFunctionOnSet(f, Orders) = SumFunctionOnSet(f, {})
    BY <2>1, <2>3, SumZeros, StockAssumption
  <2>5. SumFunction(f) = 0
    BY <2>2, <2>4, SumEmpty
  <2> QED
    BY <1>1, <1>3, <2>5 DEF f
<1>8. NewItemsUntouched
  <2>1. \A i \in Items : Untouched(i)
    BY <1>1, <1>3, <1>4 DEF Untouched, NoLine
  <2> QED
    BY <1>3, <2>1 DEF NewItemsUntouched, NoDraft
<1> QED
  BY <1>5, <1>6, <1>7, <1>8 DEF IInv, MovementsExplainStock

LEMMA OrderStepKeeps ==
  ASSUME IInv, NEW o \in Orders
  PROVE  /\ \A b \in Baskets : (\A web \in BOOLEAN : Create(o, web, b) => IInv')
                               /\ (AppendItems(o, b) => IInv')
         /\ \A lines \in SUBSET Lines : (Start(o, lines) => IInv') /\ (Serve(o, lines) => IInv')
         /\ (Accept(o) => IInv') /\ (Bill(o) => IInv')
         /\ (Dispatch(o) => IInv') /\ (Deliver(o) => IInv')
<1>0. order \in [Orders -> OrderRow] /\ order[o] \in OrderRow
  BY DEF IInv, TypeOK
<1>1. ASSUME NEW b \in Baskets, NEW web \in BOOLEAN, Create(o, web, b)
      PROVE  IInv'
  <2> DEFINE st == IF web THEN "PENDING" ELSE "ACTIVE"
             row == [status |-> st, web |-> web, billed |-> FALSE]
  <2>1. order[o].status = "ABSENT" /\ order' = [order EXCEPT ![o] = row] /\ AddLines(o, b)
    BY <1>1 DEF Create
  <2>2. st \in {"PENDING", "ACTIVE"}
    OBVIOUS
  <2> HIDE DEF st
  <2>3. row \in OrderRow /\ row.status = st
    BY <2>2 DEF OrderRow, Open
  <2> HIDE DEF row
  <2>4. /\ order' \in [Orders -> OrderRow] /\ \A p \in Orders \ {o} : order'[p] = order[p]
        /\ order'[o].status = st
    BY <1>0, <2>1, <2>3
  <2>5. Gone(order[o]) /\ ~Gone(order'[o])
    BY <2>1, <2>2, <2>4 DEF Gone
  <2> QED
    BY <2>1, <2>2, <2>4, <2>5, AddLinesKeeps
<1>2. ASSUME NEW b \in Baskets, AppendItems(o, b)
      PROVE  IInv'
  <2>1. /\ order[o].status \in {"ACTIVE", "COMPLETED"}
        /\ order' = [order EXCEPT ![o].status = "ACTIVE"] /\ AddLines(o, b)
    BY <1>2 DEF AppendItems
  <2>2. /\ order' \in [Orders -> OrderRow] /\ \A p \in Orders \ {o} : order'[p] = order[p]
        /\ order'[o].status = "ACTIVE" /\ order'[o].web = order[o].web
    BY <1>0, <2>1 DEF OrderRow, Open
  <2>3. ~Gone(order'[o])
    BY <2>2 DEF Gone
  <2> QED
    BY <2>1, <2>2, <2>3, AddLinesKeeps
<1>3. ASSUME NEW lines \in SUBSET Lines, Start(o, lines)
      PROVE  IInv'
  <2>1. /\ order[o].status = "ACTIVE" /\ order' = order
        /\ lines \subseteq {l \in Live(o) : line[l].state = "WAITING"}
        /\ Progress(lines, "STARTED") /\ UNCHANGED <<stock, store, moved, other>>
    BY <1>3 DEF Start
  <2>2. \A l \in lines : line[l].order = o /\ ~line[l].voided /\ line[l].state = "WAITING"
    BY <2>1 DEF Live, LinesOf
  <2>3. ~Gone(order[o])
    BY <2>1 DEF Gone
  <2> QED
    BY <1>0, <2>1, <2>2, <2>3, ProgressKeeps
<1>4. ASSUME NEW lines \in SUBSET Lines, Serve(o, lines)
      PROVE  IInv'
  <2> DEFINE done == \A l \in Live(o) \ lines : line[l].state = "SERVED"
             st == IF done THEN "COMPLETED" ELSE order[o].status
  <2>1. /\ order[o].status = "ACTIVE" /\ order' = [order EXCEPT ![o].status = st]
        /\ lines \subseteq {l \in Live(o) : line[l].state = "STARTED"}
        /\ Progress(lines, "SERVED") /\ UNCHANGED <<stock, store, moved, other>>
    BY <1>4 DEF Serve
  <2>2. st \in {"ACTIVE", "COMPLETED"}
    BY <2>1
  <2> HIDE DEF st
  <2>3. \A l \in lines : line[l].order = o /\ ~line[l].voided
    BY <2>1 DEF Live, LinesOf
  <2>4. /\ order' \in [Orders -> OrderRow] /\ \A p \in Orders \ {o} : order'[p] = order[p]
        /\ order'[o].status = st /\ order'[o].web = order[o].web
    BY <1>0, <2>1, <2>2 DEF OrderRow, Open
  <2>5. ~Gone(order[o]) /\ ~Gone(order'[o])
    BY <2>1, <2>2, <2>4 DEF Gone
  <2> QED
    BY <2>1, <2>2, <2>3, <2>4, <2>5, ProgressKeeps
<1>5. ASSUME Accept(o)
      PROVE  IInv'
  <2>1. /\ order[o].status = "PENDING" /\ order' = [order EXCEPT ![o].status = "ACTIVE"]
        /\ UNCHANGED <<stock, store, line, moved, other>>
    BY <1>5 DEF Accept
  <2>2. /\ order' \in [Orders -> OrderRow] /\ \A p \in Orders \ {o} : order'[p] = order[p]
        /\ order'[o].status = "ACTIVE" /\ order'[o].web = order[o].web
    BY <1>0, <2>1 DEF OrderRow, Open
  <2>3. ~Gone(order[o]) /\ ~Gone(order'[o])
    BY <2>1, <2>2 DEF Gone
  <2> QED
    BY <2>1, <2>2, <2>3, StatusKeeps
<1>6. ASSUME Bill(o)
      PROVE  IInv'
  <2>1. /\ order[o].status \in Open \cup {"COMPLETED"}
        /\ order' = [order EXCEPT ![o].billed = TRUE]
        /\ UNCHANGED <<stock, store, line, moved, other>>
    BY <1>6 DEF Bill
  <2>2. /\ order' \in [Orders -> OrderRow] /\ \A p \in Orders \ {o} : order'[p] = order[p]
        /\ order'[o].status = order[o].status /\ order'[o].web = order[o].web
    BY <1>0, <2>1 DEF OrderRow
  <2>3. ~Gone(order[o]) /\ ~Gone(order'[o]) /\ order[o].status # "CANCELLED"
    BY <2>1, <2>2 DEF Gone, Open
  <2> QED
    BY <2>1, <2>2, <2>3, StatusKeeps
<1>7. ASSUME Dispatch(o)
      PROVE  IInv'
  <2>1. /\ order[o].status = "ACTIVE" /\ order' = [order EXCEPT ![o].status = "DISPATCHED"]
        /\ UNCHANGED <<stock, store, line, moved, other>>
    BY <1>7 DEF Dispatch
  <2>2. /\ order' \in [Orders -> OrderRow] /\ \A p \in Orders \ {o} : order'[p] = order[p]
        /\ order'[o].status = "DISPATCHED" /\ order'[o].web = order[o].web
    BY <1>0, <2>1 DEF OrderRow, Open
  <2>3. ~Gone(order[o]) /\ ~Gone(order'[o])
    BY <2>1, <2>2 DEF Gone
  <2> QED
    BY <2>1, <2>2, <2>3, StatusKeeps
<1>8. ASSUME Deliver(o)
      PROVE  IInv'
  <2>1. /\ order[o].status = "DISPATCHED" /\ order' = [order EXCEPT ![o].status = "COMPLETED"]
        /\ Progress(Live(o), "SERVED") /\ UNCHANGED <<stock, store, moved, other>>
    BY <1>8 DEF Deliver
  <2>2. /\ order' \in [Orders -> OrderRow] /\ \A p \in Orders \ {o} : order'[p] = order[p]
        /\ order'[o].status = "COMPLETED" /\ order'[o].web = order[o].web
    BY <1>0, <2>1 DEF OrderRow
  <2>3. ~Gone(order[o]) /\ ~Gone(order'[o])
    BY <2>1, <2>2 DEF Gone
  <2> DEFINE lines == Live(o)
  <2>4. lines \in SUBSET Lines /\ \A l \in lines : line[l].order = o /\ ~line[l].voided
    BY DEF Live, LinesOf
  <2>5. Progress(lines, "SERVED")
    BY <2>1
  <2> HIDE DEF lines
  <2> QED
    BY <2>1, <2>2, <2>3, <2>4, <2>5, ProgressKeeps
<1> HIDE DEF IInv
<1> QED
  BY <1>1, <1>2, <1>3, <1>4, <1>5, <1>6, <1>7, <1>8

LEMMA NextIInv ==
  ASSUME IInv, [Next]_vars
  PROVE  IInv'
<1>1. CASE UNCHANGED vars
  <2>1. UNCHANGED <<listed, draft, recipe, stock, line, order, moved, other>>
    BY <1>1 DEF vars, store
  <2> QED
    BY <2>1 DEF IInv, TypeOK, MovementsExplainStock, NewItemsUntouched, Untouched
<1>2. ASSUME NEW o \in Orders, NEW l \in Lines, NEW q \in Quantities, RemoveItem(o, l, q)
      PROVE  IInv'
  BY <1>2, RemoveKeeps
<1>3. ASSUME NEW o \in Orders, Cancel(o) \/ CustomerCancel(o)
      PROVE  IInv'
  BY <1>3, CancelKeeps, CustomerCancelKeeps
<1>4. ASSUME NEW o \in Orders, NEW restore \in BOOLEAN, Delete(o, restore)
      PROVE  IInv'
  BY <1>4, DeleteKeeps
<1>5. ASSUME StoreStep
      PROVE  IInv'
  BY <1>5, StoreStepKeeps
<1> HIDE DEF IInv
<1> QED
  BY <1>1, <1>2, <1>3, <1>4, <1>5, OrderStepKeeps DEF Next

\* The inductive invariant holds in every reachable state.
LEMMA AlwaysIInv ==
  Spec => []IInv
<1>1. Init => IInv
  BY InitIInv
<1>2. IInv /\ [Next]_vars => IInv'
  BY NextIInv
<1> QED
  BY <1>1, <1>2, PTL DEF Spec

\* Every variable of the stock model stays within its type: no line records or holds a
\* negative number of units (remove_order_item), though the stock itself may be negative.
THEOREM TypeCorrect == Spec => []TypeOK
<1>1. IInv => TypeOK
  BY DEF IInv
<1> QED
  BY <1>1, AlwaysIInv, PTL

\* The stock of every ingredient is what deliveries, counts and edits left of it and what
\* the movements of the orders add or take (consume_stock, restore_stock, delete_order).
THEOREM StockAlwaysExplained == Spec => []MovementsExplainStock
<1>1. IInv => MovementsExplainStock
  BY DEF IInv
<1> QED
  BY <1>1, AlwaysIInv, PTL

\* What staff and guests order is held in the books of the order: at least what its charged
\* lines recorded, and exactly that until something of it is served.
THEOREM AlwaysHeldAsRecorded == Spec => []HeldAsRecorded
<1>1. ASSUME IInv, NEW o \in Orders, NEW i \in Items
      PROVE  Total(Charged(o), [l \in Lines |-> line[l].used])[i] = Recorded(line, order[o], o, i)
  <2> DEFINE S == Charged(o)
             take == [l \in Lines |-> line[l].used]
  <2>1. \A l \in Lines, j \in Items : take[l] = line[l].used /\ take[l][j] \in Int
    BY <1>1, Rows DEF IInv
  <2>2. S = ChargedIn(line, order[o], o)
    BY DEF Charged, ChargedIn, LinesOf
  <2>3. S \in SUBSET Lines
    BY DEF Charged, LinesOf
  <2> HIDE DEF S, take
  <2>4. Total(S, take)[i] =
          SumFunctionOnSet(Taken(S, take, i), Lines)
    <3>1. \A l \in S, j \in Items : take[l][j] \in Int
      BY <2>1, <2>3
    <3>2. /\ Total(S, take) \in [Items -> Int]
          /\ \A j \in Items :
               /\ (\A l \in S : take[l][j] = 0) => Total(S, take)[j] = 0
               /\ Total(S, take)[j] =
                    SumFunctionOnSet(Taken(S, take, j), Lines)
      BY <2>3, <3>1, TotalOver
    <3> QED
      BY <3>2, Zenon
  <2>5. Taken(S, take, i) = Charge(line, order[o], o, i)
    BY <2>1, <2>2 DEF Charge, Taken
  <2> QED
    BY <2>4, <2>5 DEF Recorded, S, take
<1>2. IInv => HeldAsRecorded
  <2> SUFFICES ASSUME IInv, NEW o \in Orders, NEW i \in Items, ~order[o].web
               PROVE  LET recorded == Total(Charged(o), [l \in Lines |-> line[l].used])[i]
                          unserved == \A l \in LinesOf(o) : line[l].state # "SERVED"
                      IN /\ recorded <= -moved[o][i]
                         /\ unserved => recorded = -moved[o][i]
    BY DEF HeldAsRecorded
  <2>1. Total(Charged(o), [l \in Lines |-> line[l].used])[i] = Recorded(line, order[o], o, i)
    BY <1>1
  <2>2. StockSound(line, order[o], moved[o], o)
    BY DEF IInv
  <2>3. (\A l \in LinesOf(o) : line[l].state # "SERVED") <=> Unserved(line, o)
    BY DEF LinesOf, Unserved
  <2> QED
    BY <2>1, <2>2, <2>3 DEF StockSound, Holds
<1> QED
  BY <1>2, AlwaysIInv, PTL

-----------------------------------------------------------------------------
(* Daybook.                                                                *)

\* What places name exists.
Places ==
  /\ \A e \in DOMAIN entry : entry[e].taking \in 0..Len(taking)
  /\ \A i \in DOMAIN correction :
       /\ correction[i].kind = "payment" => correction[i].target \in DOMAIN taking
       /\ correction[i].kind = "daybook" => correction[i].target \in DOMAIN entry

\* CorrectionsExplainMethod of one payment.
Explained(x) ==
  /\ \A i \in About(x) : correction[i].from \in {MethodBefore(x, i), Listed(MethodBefore(x, i))}
  /\ taking[x].method = MethodBefore(x, Len(correction) + 1)

DayInv == DayTypeOK /\ Places /\ EntriesFollowPayments /\ CorrectionsExplainMethod

\* A sequence whose members are changed in place is one still.
LEMMA InPlace ==
  ASSUME NEW S, NEW s \in Seq(S), NEW t \in [DOMAIN s -> S]
  PROVE  t \in Seq(S) /\ Len(t) = Len(s) /\ DOMAIN t = DOMAIN s
<1>1. DOMAIN s = 1..Len(s) /\ Len(s) \in Nat
  OBVIOUS
<1>2. t \in [1..Len(s) -> S] /\ DOMAIN t = 1..Len(s)
  BY <1>1
<1>3. t \in Seq(S)
  BY <1>1, <1>2
<1> QED
  BY <1>1, <1>2, <1>3

\* The members of the three sequences.
LEMMA DayTypes ==
  ASSUME DayTypeOK
  PROVE  /\ taking \in Seq(Taking) /\ DOMAIN taking = 1..Len(taking) /\ Len(taking) \in Nat
         /\ entry \in Seq(Entry) /\ DOMAIN entry = 1..Len(entry) /\ Len(entry) \in Nat
         /\ correction \in Seq(Correction) /\ DOMAIN correction = 1..Len(correction) /\ Len(correction) \in Nat
         /\ \A x \in DOMAIN taking : taking[x] \in Taking
         /\ \A e \in DOMAIN entry : entry[e] \in Entry
         /\ \A i \in DOMAIN correction : correction[i] \in Correction
BY DEF DayTypeOK

\* What a correction explained it still explains after a step that makes none and changes
\* no method.
LEMMA TrailKept ==
  ASSUME DayInv, correction' = correction, NEW x \in DOMAIN taking,
         taking'[x].first = taking[x].first, taking'[x].method = taking[x].method,
         \A e \in DOMAIN entry : e \in DOMAIN entry' /\ entry'[e].taking = entry[e].taking
  PROVE  Explained(x)'
<1>1. About(x)' = About(x)
  <2>1. \A i \in DOMAIN correction : correction[i].kind = "daybook" => correction[i].target \in DOMAIN entry
    BY DEF DayInv, Places
  <2> QED
    BY <2>1 DEF About
<1>2. \A i : MethodBefore(x, i)' = MethodBefore(x, i)
  BY <1>1 DEF MethodBefore
<1>3. Explained(x)
  BY DEF DayInv, CorrectionsExplainMethod, Explained
<1> QED
  BY <1>1, <1>2, <1>3 DEF Explained

\* Some place among the first n is the latest of those given.
LEMMA LatestIs ==
  ASSUME NEW n \in Nat, NEW places \in SUBSET (1..n), places # {}
  PROVE  Latest(places) \in places
<1> DEFINE Gaps == {d \in Nat : \E j \in places : d = n - j}
<1>1. \A j \in places : j \in Nat /\ n - j \in Nat
  OBVIOUS
<1>2. Gaps # {}
  <2>1. PICK j \in places : TRUE
    OBVIOUS
  <2>2. n - j \in Gaps
    BY <1>1
  <2> QED
    BY <2>2
<1>3. PICK d \in Gaps : \A e \in Gaps : d <= e
  BY <1>2, LeastExists
<1>4. PICK j \in places : d = n - j
  OBVIOUS
<1>5. \A k \in places : n - k \in Gaps
  BY <1>1
<1>6. \A k \in places : d <= n - k
  BY <1>3, <1>5
<1> HIDE DEF Gaps
<1>7. \A k \in places : k <= j
  BY <1>1, <1>4, <1>6
<1> QED
  BY <1>7 DEF Latest

\* The trail of a payment grows by one correction, which starts from the method the payment
\* has.
LEMMA TrailGrows ==
  ASSUME DayInv, NEW n \in Nat, n = Len(correction),
         NEW x \in DOMAIN taking, NEW c \in Correction, correction' = Append(correction, c),
         \/ c.kind = "payment" /\ c.target = x
         \/ c.kind = "daybook" /\ c.target \in DOMAIN entry /\ entry[c.target].taking = x,
         c.from \in {taking[x].method, Listed(taking[x].method)},
         taking'[x].first = taking[x].first, taking'[x].method = c.to,
         \A e \in DOMAIN entry : e \in DOMAIN entry' /\ entry'[e].taking = entry[e].taking
  PROVE  Explained(x)'
<1>0. DOMAIN correction = 1..n /\ correction \in Seq(Correction)
  BY DayTypes DEF DayInv
<1>1. /\ DOMAIN correction' = 1..(n + 1) /\ Len(correction') = n + 1
      /\ correction'[n + 1] = c /\ \A i \in 1..n : correction'[i] = correction[i]
  BY <1>0
<1>2. About(x) \subseteq 1..n
  BY <1>0 DEF About
<1>3. About(x)' = About(x) \cup {n + 1}
  <2>1. \A i \in DOMAIN correction : correction[i].kind = "daybook" => correction[i].target \in DOMAIN entry
    BY DEF DayInv, Places
  <2>2. \A i \in 1..n : i \in About(x)' <=> i \in About(x)
    BY <1>0, <1>1, <2>1 DEF About
  <2>3. n + 1 \in About(x)'
    BY <1>0, <1>1 DEF About
  <2>4. About(x)' \subseteq 1..(n + 1)
    BY <1>1 DEF About
  <2>5. \A i \in 1..(n + 1) : i \in 1..n \/ i = n + 1
    BY <1>0
  <2> QED
    BY <1>2, <2>2, <2>3, <2>4, <2>5
<1>4. \A i \in 1..(n + 1) : MethodBefore(x, i)' = MethodBefore(x, i)
  <2> SUFFICES ASSUME NEW i \in 1..(n + 1) PROVE MethodBefore(x, i)' = MethodBefore(x, i)
    OBVIOUS
  <2> DEFINE earlier == {j \in About(x) : j < i}
             last == Latest(earlier)
  <2>1. {j \in About(x)' : j < i} = earlier
    BY <1>0, <1>2, <1>3
  <2>2. MethodBefore(x, i)' = IF earlier = {} THEN taking'[x].first ELSE correction'[last].to
    BY <2>1 DEF MethodBefore
  <2>3. MethodBefore(x, i) = IF earlier = {} THEN taking[x].first ELSE correction[last].to
    BY DEF MethodBefore
  <2>4. earlier # {} => last \in 1..n
    <3>1. earlier \subseteq 1..n
      BY <1>2
    <3> HIDE DEF earlier
    <3> QED
      BY <3>1, LatestIs
  <2> HIDE DEF earlier, last
  <2> QED
    BY <1>1, <2>2, <2>3, <2>4
<1>5. Explained(x)
  BY DEF DayInv, CorrectionsExplainMethod, Explained
<1>6. MethodBefore(x, n + 1) = taking[x].method
  BY <1>5 DEF Explained
<1>7. \A i \in About(x)' : correction'[i].from \in {MethodBefore(x, i)', Listed(MethodBefore(x, i)')}
  <2> SUFFICES ASSUME NEW i \in About(x)'
               PROVE  correction'[i].from \in {MethodBefore(x, i)', Listed(MethodBefore(x, i)')}
    OBVIOUS
  <2>1. CASE i = n + 1
    BY <1>0, <1>1, <1>4, <1>6, <2>1
  <2>2. CASE i \in About(x)
    <3>1. i \in 1..n /\ i \in 1..(n + 1)
      BY <1>0, <1>2, <2>2
    <3> QED
      BY <1>1, <1>4, <1>5, <2>2, <3>1 DEF Explained
  <2> QED
    BY <1>3, <2>1, <2>2
<1>8. MethodBefore(x, n + 2)' = c.to
  <2> DEFINE earlier == {j \in About(x)' : j < n + 2}
             last == Latest(earlier)
  <2>1. n + 1 \in earlier /\ \A k \in earlier : k \in 1..(n + 1)
    BY <1>0, <1>2, <1>3
  <2>2. \A j \in earlier : (\A k \in earlier : k <= j) <=> j = n + 1
    BY <1>0, <2>1
  <2> HIDE DEF earlier
  <2>3. last = n + 1
    BY <2>1, <2>2 DEF Latest
  <2>4. MethodBefore(x, n + 2)' = IF earlier = {} THEN taking'[x].first ELSE correction'[last].to
    BY DEF MethodBefore, earlier
  <2> HIDE DEF last
  <2> QED
    BY <1>1, <2>1, <2>3, <2>4
<1>9. Len(correction') + 1 = n + 2
  BY <1>0, <1>1
<1> QED
  BY <1>7, <1>8, <1>9 DEF Explained, Listed

\* A correction that is not about a payment leaves its trail.
LEMMA TrailAside ==
  ASSUME DayInv, NEW n \in Nat, n = Len(correction), NEW x \in DOMAIN taking, NEW c \in Correction, correction' = Append(correction, c),
         ~(\/ c.kind = "payment" /\ c.target = x
           \/ c.kind = "daybook" /\ entry[c.target].taking = x),
         c.kind = "daybook" => c.target \in DOMAIN entry,
         taking'[x].first = taking[x].first, taking'[x].method = taking[x].method,
         \A e \in DOMAIN entry : e \in DOMAIN entry' /\ entry'[e].taking = entry[e].taking
  PROVE  Explained(x)'
<1>0. DOMAIN correction = 1..n /\ correction \in Seq(Correction)
  BY DayTypes DEF DayInv
<1>1. /\ DOMAIN correction' = 1..(n + 1) /\ Len(correction') = n + 1
      /\ correction'[n + 1] = c /\ \A i \in 1..n : correction'[i] = correction[i]
  BY <1>0
<1>2. About(x) \subseteq 1..n
  BY <1>0 DEF About
<1>3. About(x)' = About(x)
  <2>1. \A i \in DOMAIN correction : correction[i].kind = "daybook" => correction[i].target \in DOMAIN entry
    BY DEF DayInv, Places
  <2>2. \A i \in 1..n : i \in About(x)' <=> i \in About(x)
    BY <1>0, <1>1, <2>1 DEF About
  <2>3. n + 1 \notin About(x)'
    BY <1>0, <1>1 DEF About
  <2>4. About(x)' \subseteq 1..(n + 1)
    BY <1>1 DEF About
  <2>5. \A i \in 1..(n + 1) : i \in 1..n \/ i = n + 1
    BY <1>0
  <2> QED
    BY <1>2, <2>2, <2>3, <2>4, <2>5
<1>4. ASSUME NEW i
      PROVE  MethodBefore(x, i)' = MethodBefore(x, i)
  <2> DEFINE earlier == {j \in About(x) : j < i}
             last == Latest(earlier)
  <2>1. {j \in About(x)' : j < i} = earlier
    BY <1>3
  <2>2. MethodBefore(x, i)' = IF earlier = {} THEN taking'[x].first ELSE correction'[last].to
    BY <2>1 DEF MethodBefore
  <2>3. MethodBefore(x, i) = IF earlier = {} THEN taking[x].first ELSE correction[last].to
    BY DEF MethodBefore
  <2>4. earlier # {} => last \in 1..n
    <3>1. earlier \subseteq 1..n
      BY <1>2
    <3> HIDE DEF earlier
    <3> QED
      BY <1>0, <3>1, LatestIs
  <2> HIDE DEF earlier, last
  <2> QED
    BY <1>1, <2>2, <2>3, <2>4
<1>5. Explained(x)
  BY DEF DayInv, CorrectionsExplainMethod, Explained
<1>6. MethodBefore(x, n + 2) = MethodBefore(x, n + 1)
  <2>1. {j \in About(x) : j < n + 2} = {j \in About(x) : j < n + 1}
    BY <1>0, <1>2
  <2> QED
    BY <2>1 DEF MethodBefore
<1>7. Len(correction') + 1 = n + 2
  BY <1>0, <1>1
<1>8. MethodBefore(x, n + 2)' = taking[x].method
  BY <1>4, <1>5, <1>6 DEF Explained
<1>9. \A i \in About(x)' : correction'[i].from \in {MethodBefore(x, i)', Listed(MethodBefore(x, i)')}
  BY <1>1, <1>2, <1>3, <1>4, <1>5 DEF Explained
<1> QED
  BY <1>7, <1>8, <1>9 DEF Explained, Listed

\* EntriesFollowPayments of one entry.
FollowsPayment(e) ==
  LET x == entry[e].taking
  IN /\ taking[x].kept
     /\ entry[e].amount = taking[x].amount
     /\ entry[e].method = Listed(taking[x].method)
     /\ entry[e].source = taking[x].kind
     /\ \A f \in DOMAIN entry : entry[f].kept /\ entry[f].taking = x => f = e

LEMMA Follow ==
  EntriesFollowPayments <=> \A e \in DOMAIN entry : entry[e].kept /\ entry[e].taking # 0 => FollowsPayment(e)
BY DEF EntriesFollowPayments, FollowsPayment

\* The four parts of the invariant.
LEMMA DayKept ==
  ASSUME DayTypeOK', Places', EntriesFollowPayments', \A x \in DOMAIN taking' : Explained(x)'
  PROVE  DayInv'
BY DEF DayInv, CorrectionsExplainMethod, Explained

\* A new payment has no entry and no correction yet.
LEMMA TakeKeeps ==
  ASSUME DayInv, NEW amount \in Rupees, NEW method \in TakingMethods, NEW kind \in Kinds,
         NEW o \in PaidOrders, NEW collected \in BOOLEAN, Take(amount, method, kind, o, collected)
  PROVE  DayInv'
<1> DEFINE row == [amount |-> amount, method |-> method, first |-> method,
                   kind |-> kind, order |-> o, collected |-> collected, kept |-> TRUE]
<1>1. taking' = Append(taking, row) /\ entry' = entry /\ correction' = correction
  BY DEF Take
<1>2. row \in Taking /\ row.first = row.method
  BY DEF Taking
<1> HIDE DEF row
<1>3. DayTypeOK
  BY DEF DayInv
<1>4. /\ taking' \in Seq(Taking) /\ Len(taking') = Len(taking) + 1 /\ DOMAIN taking' = 1..(Len(taking) + 1)
      /\ taking'[Len(taking) + 1] = row /\ \A x \in DOMAIN taking : taking'[x] = taking[x]
  BY <1>1, <1>2, <1>3, DayTypes
<1>5. DayTypeOK'
  BY <1>1, <1>3, <1>4 DEF DayTypeOK
<1>6. \A e \in DOMAIN entry : entry[e].taking # 0 => entry[e].taking \in DOMAIN taking
  BY <1>3, DayTypes DEF DayInv, Places
<1>7. Places'
  <2>1. \A e \in DOMAIN entry : entry[e].taking \in 0..(Len(taking) + 1)
    BY <1>3, DayTypes DEF DayInv, Places
  <2>2. DOMAIN taking \subseteq DOMAIN taking'
    BY <1>3, <1>4, DayTypes
  <2> QED
    BY <1>1, <1>4, <2>1, <2>2 DEF DayInv, Places
<1>8. EntriesFollowPayments'
  BY <1>1, <1>4, <1>6 DEF DayInv, EntriesFollowPayments
<1>9. ASSUME NEW x \in DOMAIN taking'
      PROVE  Explained(x)'
  <2>1. CASE x \in DOMAIN taking
    BY <1>1, <1>4, <2>1, TrailKept
  <2>2. CASE x \notin DOMAIN taking
    <3>1. x = Len(taking) + 1
      BY <1>3, <1>4, <2>2, DayTypes
    <3>2. About(x)' = {}
      BY <1>1, <1>6, <2>2 DEF About, DayInv, Places
    <3>3. x \in Nat \ {0}
      BY <1>3, <3>1, DayTypes
    <3>4. \A i : MethodBefore(x, i)' = taking'[x].first
      BY <3>2 DEF MethodBefore
    <3> QED
      BY <1>2, <1>4, <3>1, <3>2, <3>4 DEF Explained
  <2> QED
    BY <2>1, <2>2
<1> QED
  BY <1>5, <1>7, <1>8, <1>9, DayKept

\* Entries go with the payments of a deleted order.
LEMMA DeleteOrderKeeps ==
  ASSUME DayInv, NEW o, DeleteOrder(o)
  PROVE  /\ DayInv' /\ DOMAIN entry' = DOMAIN entry
         /\ \A e \in DOMAIN entry : entry[e].taking = 0 => entry'[e] = entry[e]
         /\ \A e \in DOMAIN entry : entry'[e].taking = entry[e].taking /\ entry'[e].source = entry[e].source
<1>0. DayTypeOK
  BY DEF DayInv
<1>1. /\ taking' = [x \in DOMAIN taking |->
           IF taking[x].order = o THEN [taking[x] EXCEPT !.kept = FALSE] ELSE taking[x]]
      /\ entry' = [e \in DOMAIN entry |->
           IF entry[e].taking # 0 /\ taking[entry[e].taking].order = o
           THEN [entry[e] EXCEPT !.kept = FALSE] ELSE entry[e]]
      /\ correction' = correction
  BY DEF DeleteOrder
<1>2. ASSUME NEW x \in DOMAIN taking
      PROVE  /\ taking'[x] \in Taking /\ taking'[x].first = taking[x].first
             /\ taking'[x].method = taking[x].method /\ taking'[x].amount = taking[x].amount
             /\ taking'[x].kind = taking[x].kind /\ taking'[x].order = taking[x].order
             /\ taking'[x].kept <=> taking[x].kept /\ taking[x].order # o
  <2>1. taking[x] \in Taking
    BY <1>0, DayTypes
  <2>2. taking'[x] = IF taking[x].order = o THEN [taking[x] EXCEPT !.kept = FALSE] ELSE taking[x]
    BY <1>1
  <2> QED
    BY <2>1, <2>2 DEF Taking
<1>3. ASSUME NEW e \in DOMAIN entry
      PROVE  /\ entry'[e] \in Entry /\ entry'[e].taking = entry[e].taking
             /\ entry'[e].method = entry[e].method /\ entry'[e].amount = entry[e].amount
             /\ entry'[e].source = entry[e].source
             /\ entry'[e].kept <=> entry[e].kept /\ ~(entry[e].taking # 0 /\ taking[entry[e].taking].order = o)
  <2>1. entry[e] \in Entry
    BY <1>0, DayTypes
  <2>2. entry'[e] = IF entry[e].taking # 0 /\ taking[entry[e].taking].order = o
                    THEN [entry[e] EXCEPT !.kept = FALSE] ELSE entry[e]
    BY <1>1
  <2> QED
    BY <2>1, <2>2 DEF Entry
<1>4. taking' \in Seq(Taking) /\ Len(taking') = Len(taking) /\ DOMAIN taking' = DOMAIN taking
  <2>1. taking' \in [DOMAIN taking -> Taking] /\ taking \in Seq(Taking)
    BY <1>0, <1>1, <1>2, DayTypes
  <2> QED
    BY <2>1, InPlace
<1>5. entry' \in Seq(Entry) /\ Len(entry') = Len(entry) /\ DOMAIN entry' = DOMAIN entry
  <2>1. entry' \in [DOMAIN entry -> Entry] /\ entry \in Seq(Entry)
    BY <1>0, <1>1, <1>3, DayTypes
  <2> QED
    BY <2>1, InPlace
<1>6. DayTypeOK'
  BY <1>0, <1>1, <1>4, <1>5 DEF DayTypeOK
<1>7. \A e \in DOMAIN entry : entry[e].taking # 0 => entry[e].taking \in DOMAIN taking
  BY <1>0, DayTypes DEF DayInv, Places
<1>8. Places'
  BY <1>1, <1>3, <1>4, <1>5 DEF DayInv, Places
<1>9. EntriesFollowPayments'
  <2> SUFFICES ASSUME NEW e \in DOMAIN entry, entry'[e].kept, entry'[e].taking # 0
               PROVE  FollowsPayment(e)'
    BY <1>5, Follow DEF EntriesFollowPayments, FollowsPayment
  <2>1. entry[e].kept /\ entry[e].taking # 0 /\ entry[e].taking \in DOMAIN taking /\ taking[entry[e].taking].order # o
    BY <1>3, <1>7
  <2>2. FollowsPayment(e)
    BY <2>1, Follow DEF DayInv
  <2> QED
    BY <1>2, <1>3, <1>5, <2>1, <2>2 DEF FollowsPayment
<1>10. \A x \in DOMAIN taking' : Explained(x)'
  BY <1>1, <1>2, <1>3, <1>4, <1>5, TrailKept
<1>11. \A e \in DOMAIN entry : entry[e].taking = 0 => entry'[e] = entry[e]
  BY <1>1
<1> QED
  BY <1>3, <1>5, <1>6, <1>8, <1>9, <1>10, <1>11, DayKept

\* An entry of no payment is written.
LEMMA NewEntryKeeps ==
  ASSUME DayInv, NEW amount \in Rupees, NEW method \in Methods, NEW source \in Sources,
         entry' = Append(entry, NewEntry(amount, method, source, 0)), UNCHANGED <<taking, correction>>
  PROVE  /\ DayInv' /\ DOMAIN entry' = DOMAIN entry \cup {Len(entry) + 1}
         /\ entry'[Len(entry) + 1] = NewEntry(amount, method, source, 0)
         /\ \A e \in DOMAIN entry : entry'[e] = entry[e]
<1> DEFINE row == NewEntry(amount, method, source, 0)
<1>0. DayTypeOK
  BY DEF DayInv
<1>1. row \in Entry /\ row.taking = 0
  BY DEF NewEntry, Entry
<1> HIDE DEF row
<1>2. /\ entry' \in Seq(Entry) /\ Len(entry') = Len(entry) + 1 /\ DOMAIN entry' = DOMAIN entry \cup {Len(entry) + 1}
      /\ entry'[Len(entry) + 1] = row /\ \A e \in DOMAIN entry : entry'[e] = entry[e]
  <2>1. entry' = Append(entry, row)
    BY DEF row
  <2> QED
    BY <1>0, <1>1, <2>1, DayTypes
<1>3. DayTypeOK'
  BY <1>0, <1>2 DEF DayTypeOK
<1>4. Places'
  <2>1. 0 \in 0..Len(taking)
    BY <1>0, DayTypes
  <2> QED
    BY <1>1, <1>2, <2>1 DEF DayInv, Places
<1>5. EntriesFollowPayments'
  <2> SUFFICES ASSUME NEW e \in DOMAIN entry', entry'[e].kept, entry'[e].taking # 0
               PROVE  FollowsPayment(e)'
    BY Follow DEF EntriesFollowPayments, FollowsPayment
  <2>1. e \in DOMAIN entry /\ FollowsPayment(e)
    BY <1>1, <1>2, Follow DEF DayInv
  <2> QED
    BY <1>1, <1>2, <2>1 DEF FollowsPayment
<1>6. \A x \in DOMAIN taking' : Explained(x)'
  BY <1>2, TrailKept
<1> QED
  BY <1>2, <1>3, <1>4, <1>5, <1>6, DayKept DEF row

\* An entry is marked voided.
LEMMA VoidedKeeps ==
  ASSUME DayInv, NEW n \in DOMAIN entry, entry' = [entry EXCEPT ![n].voided = TRUE],
         UNCHANGED <<taking, correction>>
  PROVE  /\ DayInv' /\ DOMAIN entry' = DOMAIN entry
         /\ \A e \in DOMAIN entry : e # n => entry'[e] = entry[e]
         /\ entry'[n] \in Entry /\ entry'[n].voided
         /\ entry'[n].taking = entry[n].taking /\ entry'[n].source = entry[n].source
         /\ entry'[n].kept = entry[n].kept /\ entry'[n].amount = entry[n].amount
         /\ entry'[n].method = entry[n].method
<1> DEFINE row == [entry[n] EXCEPT !.voided = TRUE]
<1>0. DayTypeOK /\ entry[n] \in Entry
  BY DayTypes DEF DayInv
<1>1. /\ row \in Entry /\ row.taking = entry[n].taking /\ row.source = entry[n].source
      /\ row.kept = entry[n].kept /\ row.amount = entry[n].amount /\ row.method = entry[n].method /\ row.voided
  BY <1>0 DEF Entry
<1>2. entry' = [entry EXCEPT ![n] = row]
  OBVIOUS
<1> HIDE DEF row
<1>3. entry' \in Seq(Entry) /\ Len(entry') = Len(entry) /\ DOMAIN entry' = DOMAIN entry
  <2>1. entry \in Seq(Entry) /\ \A e \in DOMAIN entry : entry[e] \in Entry
    BY <1>0, DayTypes
  <2>2. entry' \in [DOMAIN entry -> Entry]
    BY <1>1, <1>2, <2>1
  <2> QED
    BY <2>1, <2>2, InPlace
<1>4. entry'[n] = row /\ \A e \in DOMAIN entry : e # n => entry'[e] = entry[e]
  BY <1>0, <1>2, DayTypes
<1>5. DayTypeOK'
  BY <1>0, <1>3 DEF DayTypeOK
<1>6. \A e \in DOMAIN entry : /\ entry'[e].taking = entry[e].taking /\ entry'[e].source = entry[e].source
                              /\ entry'[e].kept = entry[e].kept /\ entry'[e].amount = entry[e].amount
                              /\ entry'[e].method = entry[e].method
  BY <1>1, <1>4
<1>7. Places'
  BY <1>3, <1>6 DEF DayInv, Places
<1>8. EntriesFollowPayments'
  <2> SUFFICES ASSUME NEW e \in DOMAIN entry, entry'[e].kept, entry'[e].taking # 0
               PROVE  FollowsPayment(e)'
    BY <1>3, Follow DEF EntriesFollowPayments, FollowsPayment
  <2>1. FollowsPayment(e)
    BY <1>6, Follow DEF DayInv
  <2> QED
    BY <1>3, <1>6, <2>1 DEF FollowsPayment
<1>9. \A x \in DOMAIN taking' : Explained(x)'
  BY <1>3, <1>6, TrailKept
<1> QED
  BY <1>1, <1>3, <1>4, <1>5, <1>7, <1>8, <1>9, DayKept

\* The payments imported are each imported once.
LEMMA ImportKeeps ==
  ASSUME DayInv, NEW xs \in SUBSET DOMAIN taking, NEW kind \in Kinds, Import(xs, kind)
  PROVE  /\ DayInv' /\ DOMAIN entry \subseteq DOMAIN entry'
         /\ \A e \in DOMAIN entry : entry'[e] = entry[e]
         /\ \A e \in DOMAIN entry' \ DOMAIN entry : entry'[e].source \in Kinds
<1> DEFINE new == {x \in xs : ~Imported(x)}
           places == SetToSeq(new)
           row(x) == NewEntry(taking[x].amount, Listed(taking[x].method), kind, x)
           rows == [i \in DOMAIN places |-> row(places[i])]
           n == Len(entry)
           k == Cardinality(new)
<1>0. DayTypeOK
  BY DEF DayInv
<1>1. /\ \A x \in xs : Importable(x, kind)
      /\ entry' = entry \o rows /\ UNCHANGED <<taking, correction>>
  BY DEF Import
<1>2. new \subseteq 1..Len(taking) /\ Len(taking) \in Nat /\ n \in Nat
  BY <1>0, DayTypes
<1>3. IsFiniteSet(new) /\ k \in Nat
  <2>1. IsFiniteSet(1..Len(taking))
    BY <1>2, FS_Interval
  <2>2. IsFiniteSet(new)
    BY <1>2, <2>1, FS_Subset
  <2> QED
    BY <2>2, FS_CardinalityType
<1>4. places \in [1..k -> new] /\ \A i, j \in 1..k : places[i] = places[j] => i = j
  <2>1. ExistsBijection(1..k, new)
    BY <1>3, FS_CardinalityType
  <2>2. PICK f \in Bijection(1..k, new) : TRUE
    BY <2>1 DEF ExistsBijection
  <2>3. f \in [1..k -> new] /\ IsInjective(f)
    BY <2>2 DEF Bijection, Injection, Surjection, IsInjective
  <2> HIDE DEF new
  <2>4. places \in [1..k -> new] /\ IsInjective(places)
    BY <2>3 DEF SetToSeq
  <2> QED
    BY <2>4 DEF IsInjective
<1> HIDE DEF new, places, k
<1>5. ASSUME NEW x \in new
      PROVE  /\ row(x) \in Entry /\ row(x).taking = x /\ row(x).source = kind /\ row(x).kept
             /\ row(x).amount = taking[x].amount /\ row(x).method = Listed(taking[x].method)
             /\ x \in DOMAIN taking /\ taking[x].kept /\ taking[x].kind = kind
             /\ \A e \in DOMAIN entry : ~(entry[e].kept /\ entry[e].taking = x)
  <2>1. x \in xs /\ ~Imported(x) /\ Importable(x, kind)
    BY <1>1 DEF new
  <2>2. taking[x] \in Taking /\ x \in DOMAIN taking /\ x \in Nat
    BY <1>0, <1>2, <2>1, DayTypes
  <2>3. Listed(taking[x].method) \in Methods
    BY DaybookAssumption DEF Listed
  <2>4. kind \in Sources
    BY DEF Sources
  <2>5. row(x) \in Entry
    BY <2>2, <2>3, <2>4 DEF NewEntry, Entry, Taking
  <2> QED
    BY <2>1, <2>2, <2>5 DEF NewEntry, Imported, Importable
<1> HIDE DEF row
<1>6. rows \in Seq(Entry) /\ Len(rows) = k /\ \A i \in 1..k : rows[i] = row(places[i])
  <2>1. rows \in [1..k -> Entry]
    BY <1>4, <1>5
  <2>2. rows \in Seq(Entry)
    BY <1>3, <2>1
  <2> QED
    BY <1>3, <1>4, <2>1, <2>2
<1> HIDE DEF rows
<1>7. /\ entry' \in Seq(Entry) /\ Len(entry') = n + k /\ DOMAIN entry' = 1..(n + k)
      /\ \A e \in 1..n : entry'[e] = entry[e]
      /\ \A i \in 1..k : entry'[n + i] = rows[i]
  <2>1. entry \in Seq(Entry) /\ entry' = entry \o rows
    BY <1>0, <1>1, DayTypes
  <2>2. Len(entry') = n + k /\ entry' \in Seq(Entry)
    BY <1>6, <2>1, ConcatProperties
  <2>3. DOMAIN entry' = 1..(n + k)
    BY <2>2
  <2>4. \A j \in 1..(n + k) : entry'[j] = IF j <= n THEN entry[j] ELSE rows[j - n]
    BY <1>6, <2>1, ConcatProperties
  <2> HIDE DEF n
  <2> QED
    BY <1>2, <1>3, <2>2, <2>3, <2>4
<1>8. DOMAIN entry = 1..n
  BY <1>0, DayTypes
<1> HIDE DEF n
<1>9. ASSUME NEW e \in DOMAIN entry', e \notin DOMAIN entry
      PROVE  \E i \in 1..k : /\ e = n + i /\ entry'[e] = row(places[i]) /\ places[i] \in new
                             /\ entry'[e].taking = places[i]
  <2>1. e \in (n + 1)..(n + k)
    BY <1>2, <1>3, <1>7, <1>8, <1>9
  <2> DEFINE i == e - n
  <2>2. i \in 1..k /\ e = n + i
    BY <1>2, <1>3, <2>1
  <2> HIDE DEF i
  <2>3. entry'[e] = row(places[i]) /\ places[i] \in new
    BY <1>4, <1>6, <1>7, <2>2
  <2>4. entry'[e].taking = places[i]
    BY <1>5, <2>3
  <2> QED
    BY <2>2, <2>3, <2>4
<1>10. DOMAIN entry \subseteq DOMAIN entry' /\ \A e \in DOMAIN entry : entry'[e] = entry[e]
  BY <1>2, <1>3, <1>7, <1>8
<1>11. DayTypeOK'
  BY <1>0, <1>1, <1>7 DEF DayTypeOK
<1>12. Places'
  <2>1. ASSUME NEW e \in DOMAIN entry' PROVE entry'[e].taking \in 0..Len(taking)
    <3>1. CASE e \in DOMAIN entry
      BY <1>10, <3>1 DEF DayInv, Places
    <3>2. CASE e \notin DOMAIN entry
      <4>1. entry'[e].taking \in new
        BY <1>9, <3>2
      <4>2. entry'[e].taking \in 1..Len(taking)
        BY <1>2, <4>1
      <4>3. 1..Len(taking) \subseteq 0..Len(taking)
        BY <1>2
      <4> QED
        BY <4>2, <4>3
    <3> QED
      BY <3>1, <3>2
  <2> QED
    BY <1>1, <1>10, <2>1 DEF DayInv, Places
<1>13. EntriesFollowPayments'
  <2> SUFFICES ASSUME NEW e \in DOMAIN entry', entry'[e].kept, entry'[e].taking # 0
               PROVE  FollowsPayment(e)'
    BY Follow DEF EntriesFollowPayments, FollowsPayment
  <2>1. CASE e \in DOMAIN entry
    <3>1. FollowsPayment(e) /\ entry'[e] = entry[e] /\ entry[e].kept
      BY <1>10, <2>1, Follow DEF DayInv
    <3>2. ASSUME NEW f \in DOMAIN entry', entry'[f].kept, entry'[f].taking = entry[e].taking
          PROVE  f = e
      <4>1. CASE f \in DOMAIN entry
        BY <1>10, <3>1, <3>2, <4>1 DEF FollowsPayment
      <4>2. CASE f \notin DOMAIN entry
        BY <1>5, <1>9, <2>1, <3>1, <3>2, <4>2
      <4> QED
        BY <4>1, <4>2
    <3> QED
      BY <1>1, <3>1, <3>2 DEF FollowsPayment
  <2>2. CASE e \notin DOMAIN entry
    <3>1. PICK i \in 1..k : /\ e = n + i /\ entry'[e] = row(places[i]) /\ places[i] \in new
                            /\ entry'[e].taking = places[i]
      BY <1>9, <2>2
    <3>2. ASSUME NEW f \in DOMAIN entry', entry'[f].kept, entry'[f].taking = entry'[e].taking
          PROVE  f = e
      <4>1. CASE f \in DOMAIN entry
        BY <1>5, <1>10, <3>1, <3>2, <4>1
      <4>2. CASE f \notin DOMAIN entry
        BY <1>4, <1>9, <3>1, <3>2, <4>2
      <4> QED
        BY <4>1, <4>2
    <3> QED
      BY <1>1, <1>5, <3>1, <3>2 DEF FollowsPayment
  <2> QED
    BY <2>1, <2>2
<1>14. \A x \in DOMAIN taking' : Explained(x)'
  BY <1>1, <1>10, TrailKept
<1>15. \A e \in DOMAIN entry' \ DOMAIN entry : entry'[e].source \in Kinds
  BY <1>5, <1>9
<1> QED
  BY <1>10, <1>11, <1>12, <1>13, <1>14, <1>15, DayKept

\* A correction of payment x, and of the entry imported from it.
LEMMA SetMethodKeeps ==
  ASSUME DayInv, NEW x \in DOMAIN taking, taking[x].kept, NEW m \in Methods, SetTakingMethod(x, m),
         NEW c \in Correction, correction' = Append(correction, c), c.to = m,
         \/ c.kind = "payment" /\ c.target = x
         \/ c.kind = "daybook" /\ c.target \in DOMAIN entry /\ entry[c.target].taking = x,
         c.from \in {taking[x].method, Listed(taking[x].method)}
  PROVE  /\ DayInv' /\ DOMAIN entry' = DOMAIN entry
         /\ \A e \in DOMAIN entry : entry[e].taking = 0 => entry'[e] = entry[e]
<1> DEFINE to == [taking[x] EXCEPT !.method = m]
           new(e) == [entry[e] EXCEPT !.method = m]
<1>0. DayTypeOK /\ taking[x] \in Taking /\ x # 0
  BY DayTypes DEF DayInv
<1>1. /\ to \in Taking /\ to.first = taking[x].first /\ to.method = m /\ to.amount = taking[x].amount
      /\ to.kind = taking[x].kind /\ to.kept
  <2>1. m \in TakingMethods
    BY DEF TakingMethods
  <2> QED
    BY <1>0, <2>1 DEF Taking
<1>2. /\ taking' = [taking EXCEPT ![x] = to]
      /\ entry' = [e \in DOMAIN entry |-> IF entry[e].taking = x /\ entry[e].kept THEN new(e) ELSE entry[e]]
  BY DEF SetTakingMethod
<1>3. ASSUME NEW e \in DOMAIN entry
      PROVE  /\ entry[e] \in Entry
             /\ new(e) \in Entry /\ new(e).taking = entry[e].taking /\ new(e).method = m
             /\ new(e).amount = entry[e].amount /\ new(e).source = entry[e].source /\ new(e).kept = entry[e].kept
  <2>1. entry[e] \in Entry
    BY <1>0, DayTypes
  <2> QED
    BY <2>1 DEF Entry
<1> HIDE DEF to, new
<1>4. /\ taking' \in Seq(Taking) /\ Len(taking') = Len(taking) /\ DOMAIN taking' = DOMAIN taking
      /\ taking'[x] = to /\ \A y \in DOMAIN taking : y # x => taking'[y] = taking[y]
  <2>1. taking \in Seq(Taking) /\ \A y \in DOMAIN taking : taking[y] \in Taking
    BY <1>0, DayTypes
  <2>2. taking' \in [DOMAIN taking -> Taking]
    BY <1>1, <1>2, <2>1
  <2>3. taking'[x] = to /\ \A y \in DOMAIN taking : y # x => taking'[y] = taking[y]
    BY <1>2, <2>1
  <2> QED
    BY <2>1, <2>2, <2>3, InPlace
<1>5. entry' \in Seq(Entry) /\ Len(entry') = Len(entry) /\ DOMAIN entry' = DOMAIN entry
  <2>1. entry \in Seq(Entry)
    BY <1>0, DayTypes
  <2>2. entry' \in [DOMAIN entry -> Entry]
    BY <1>2, <1>3
  <2> QED
    BY <2>1, <2>2, InPlace
<1>6. \A e \in DOMAIN entry : /\ entry'[e].taking = entry[e].taking /\ entry'[e].source = entry[e].source
                              /\ entry'[e].kept = entry[e].kept /\ entry'[e].amount = entry[e].amount
                              /\ entry'[e].method = IF entry[e].taking = x /\ entry[e].kept THEN m ELSE entry[e].method
  BY <1>2, <1>3
<1>7. /\ correction' \in Seq(Correction) /\ DOMAIN correction = 1..Len(correction)
      /\ DOMAIN correction' = 1..(Len(correction) + 1) /\ Len(correction') = Len(correction) + 1 /\ Len(correction) \in Nat
      /\ correction'[Len(correction) + 1] = c /\ \A i \in DOMAIN correction : correction'[i] = correction[i]
  BY <1>0, DayTypes
<1>8. DayTypeOK'
  BY <1>4, <1>5, <1>7 DEF DayTypeOK
<1>9. Places'
  <2>1. \A e \in DOMAIN entry' : entry'[e].taking \in 0..Len(taking')
    BY <1>4, <1>5, <1>6 DEF DayInv, Places
  <2>2. ASSUME NEW i \in DOMAIN correction'
        PROVE  /\ correction'[i].kind = "payment" => correction'[i].target \in DOMAIN taking
               /\ correction'[i].kind = "daybook" => correction'[i].target \in DOMAIN entry
    <3>1. CASE i \in DOMAIN correction
      BY <1>7, <3>1 DEF DayInv, Places
    <3>2. CASE i = Len(correction) + 1
      BY <1>7, <3>2
    <3>3. i \in DOMAIN correction \/ i = Len(correction) + 1
      BY <1>7
    <3> QED
      BY <3>1, <3>2, <3>3
  <2> QED
    BY <1>4, <1>5, <2>1, <2>2 DEF Places
<1>10. EntriesFollowPayments'
  <2> SUFFICES ASSUME NEW e \in DOMAIN entry, entry'[e].kept, entry'[e].taking # 0
               PROVE  FollowsPayment(e)'
    BY <1>5, Follow DEF EntriesFollowPayments, FollowsPayment
  <2>1. FollowsPayment(e) /\ entry[e].kept /\ entry[e].taking # 0
    BY <1>6, Follow DEF DayInv
  <2>2. entry[e].taking \in DOMAIN taking
    BY <1>0, <2>1, DayTypes DEF DayInv, Places
  <2>3. Listed(m) = m
    BY DEF Listed
  <2>4. \A f \in DOMAIN entry' : entry'[f].kept /\ entry'[f].taking = entry'[e].taking => f = e
    BY <1>5, <1>6, <2>1 DEF FollowsPayment
  <2>5. CASE entry[e].taking = x
    BY <1>1, <1>4, <1>6, <2>1, <2>3, <2>4, <2>5 DEF FollowsPayment
  <2>6. CASE entry[e].taking # x
    BY <1>4, <1>6, <2>1, <2>2, <2>4, <2>6 DEF FollowsPayment, Listed
  <2> QED
    BY <2>5, <2>6
<1>11. Explained(x)'
  <2>1. \A e \in DOMAIN entry : e \in DOMAIN entry' /\ entry'[e].taking = entry[e].taking
    BY <1>5, <1>6
  <2>2. taking'[x].first = taking[x].first /\ taking'[x].method = c.to
    BY <1>1, <1>4
  <2> QED
    BY <1>7, <2>1, <2>2, TrailGrows
<1>12. ASSUME NEW y \in DOMAIN taking', y # x
       PROVE  Explained(y)'
  <2>1. \A e \in DOMAIN entry : e \in DOMAIN entry' /\ entry'[e].taking = entry[e].taking
    BY <1>5, <1>6
  <2>2. y \in DOMAIN taking /\ taking'[y] = taking[y]
    BY <1>4, <1>12
  <2>3. ~(\/ c.kind = "payment" /\ c.target = y
          \/ c.kind = "daybook" /\ entry[c.target].taking = y)
    BY <1>12
  <2> QED
    BY <1>7, <2>1, <2>2, <2>3, TrailAside
<1>13. \A e \in DOMAIN entry : entry[e].taking = 0 => entry'[e] = entry[e]
  BY <1>0, <1>2
<1> QED
  BY <1>5, <1>8, <1>9, <1>10, <1>11, <1>12, <1>13, DayKept

\* A correction made at a payment.
LEMMA CorrectTakingKeeps ==
  ASSUME DayInv, NEW x, NEW expected, NEW m \in Methods, CorrectTaking(x, expected, m)
  PROVE  /\ DayInv' /\ DOMAIN entry' = DOMAIN entry
         /\ \A e \in DOMAIN entry : entry[e].taking = 0 => entry'[e] = entry[e]
<1> DEFINE c == [kind |-> "payment", target |-> x, from |-> taking[x].method, to |-> m]
<1>1. x \in DOMAIN taking /\ taking[x].kept /\ SetTakingMethod(x, m) /\ correction' = Append(correction, c)
  BY DEF CorrectTaking, Log
<1>2. c \in Correction /\ c.to = m /\ c.kind = "payment" /\ c.target = x /\ c.from = taking[x].method
  <2>1. taking[x] \in Taking /\ x \in Nat \ {0}
    BY <1>1, DayTypes DEF DayInv
  <2>2. m \in TakingMethods /\ taking[x].method \in TakingMethods
    BY <2>1 DEF TakingMethods, Taking
  <2> QED
    BY <2>1, <2>2 DEF Correction
<1> HIDE DEF c
<1> QED
  BY <1>1, <1>2, SetMethodKeeps

\* An entry is corrected with its payment, or by itself.
LEMMA CorrectEntryKeeps ==
  ASSUME DayInv, NEW n, NEW expected, NEW m \in Methods, CorrectEntry(n, expected, m)
  PROVE  /\ DayInv' /\ DOMAIN entry' = DOMAIN entry /\ n \in DOMAIN entry
         /\ \A e \in DOMAIN entry : e # n /\ entry[e].taking = 0 => entry'[e] = entry[e]
         /\ entry[n].taking = 0 =>
              /\ entry'[n].method = m /\ entry'[n].amount = entry[n].amount
              /\ entry'[n].source = entry[n].source /\ entry'[n].kept = entry[n].kept
              /\ entry'[n].voided = entry[n].voided /\ entry'[n].taking = 0
<1> DEFINE c == [kind |-> "daybook", target |-> n, from |-> entry[n].method, to |-> m]
<1>1. n \in DOMAIN entry /\ entry[n].kept /\ correction' = Append(correction, c)
  BY DEF CorrectEntry, Log
<1>2. DayTypeOK /\ entry[n] \in Entry /\ n \in Nat \ {0}
  BY <1>1, DayTypes DEF DayInv
<1>3. c \in Correction /\ c.to = m /\ c.kind = "daybook" /\ c.target = n /\ c.from = entry[n].method
  <2>1. m \in TakingMethods /\ entry[n].method \in TakingMethods
    BY <1>2 DEF TakingMethods, Entry
  <2> QED
    BY <1>2, <2>1 DEF Correction
<1> HIDE DEF c
<1>4. CASE entry[n].taking # 0
  <2> DEFINE x == entry[n].taking
  <2>1. SetTakingMethod(x, m)
    BY <1>4 DEF CorrectEntry
  <2>2. x \in DOMAIN taking
    BY <1>1, <1>2, <1>4, DayTypes DEF DayInv, Places
  <2>3. taking[x].kept /\ entry[n].method = Listed(taking[x].method)
    BY <1>1, <1>4 DEF DayInv, EntriesFollowPayments
  <2> QED
    BY <1>1, <1>3, <1>4, <2>1, <2>2, <2>3, SetMethodKeeps
<1>5. CASE entry[n].taking = 0
  <2> DEFINE row == [entry[n] EXCEPT !.method = m]
  <2>1. entry' = [entry EXCEPT ![n] = row] /\ taking' = taking
    BY <1>5 DEF CorrectEntry
  <2>2. /\ row \in Entry /\ row.method = m /\ row.amount = entry[n].amount /\ row.source = entry[n].source
        /\ row.kept = entry[n].kept /\ row.voided = entry[n].voided /\ row.taking = entry[n].taking
    BY <1>2 DEF Entry
  <2> HIDE DEF row
  <2>3. entry \in Seq(Entry) /\ \A e \in DOMAIN entry : entry[e] \in Entry
    BY <1>2, DayTypes
  <2>4. entry'[n] = row /\ \A e \in DOMAIN entry : e # n => entry'[e] = entry[e]
    BY <1>1, <2>1
  <2>5. entry' \in Seq(Entry) /\ DOMAIN entry' = DOMAIN entry /\ Len(entry') = Len(entry)
    <3>1. entry' \in [DOMAIN entry -> Entry]
      BY <2>1, <2>2, <2>3
    <3> QED
      BY <2>3, <3>1, InPlace
  <2>6. \A e \in DOMAIN entry : /\ entry'[e].taking = entry[e].taking /\ entry'[e].source = entry[e].source
                                /\ entry'[e].kept = entry[e].kept /\ entry'[e].amount = entry[e].amount
    BY <2>2, <2>4
  <2>7. /\ correction' \in Seq(Correction) /\ DOMAIN correction = 1..Len(correction)
        /\ DOMAIN correction' = 1..(Len(correction) + 1) /\ Len(correction) \in Nat
        /\ correction'[Len(correction) + 1] = c /\ \A i \in DOMAIN correction : correction'[i] = correction[i]
    BY <1>1, <1>2, <1>3, DayTypes
  <2>8. DayTypeOK'
    BY <1>2, <2>1, <2>5, <2>7 DEF DayTypeOK
  <2>9. Places'
    <3>1. \A e \in DOMAIN entry' : entry'[e].taking \in 0..Len(taking')
      BY <2>1, <2>5, <2>6 DEF DayInv, Places
    <3>2. ASSUME NEW i \in DOMAIN correction'
          PROVE  /\ correction'[i].kind = "payment" => correction'[i].target \in DOMAIN taking
                 /\ correction'[i].kind = "daybook" => correction'[i].target \in DOMAIN entry
      <4>1. CASE i \in DOMAIN correction
        BY <2>7, <4>1 DEF DayInv, Places
      <4>2. CASE i = Len(correction) + 1
        BY <1>1, <1>3, <2>7, <4>2
      <4>3. i \in DOMAIN correction \/ i = Len(correction) + 1
        BY <2>7
      <4> QED
        BY <4>1, <4>2, <4>3
    <3> QED
      BY <2>1, <2>5, <3>1, <3>2 DEF Places
  <2>10. EntriesFollowPayments'
    <3> SUFFICES ASSUME NEW e \in DOMAIN entry, entry'[e].kept, entry'[e].taking # 0
                 PROVE  FollowsPayment(e)'
      BY <2>5, Follow DEF EntriesFollowPayments, FollowsPayment
    <3>1. FollowsPayment(e) /\ e # n
      BY <1>5, <2>6, Follow DEF DayInv
    <3> QED
      BY <2>1, <2>4, <2>5, <2>6, <3>1 DEF FollowsPayment
  <2>11. \A x \in DOMAIN taking' : Explained(x)'
    <3> SUFFICES ASSUME NEW x \in DOMAIN taking PROVE Explained(x)'
      BY <2>1
    <3>1. ~(\/ c.kind = "payment" /\ c.target = x
            \/ c.kind = "daybook" /\ entry[c.target].taking = x)
      BY <1>2, <1>3, <1>5, DayTypes
    <3> QED
      BY <1>1, <1>3, <2>1, <2>5, <2>6, <2>7, <3>1, TrailAside
  <2>12. DayInv'
    BY <2>8, <2>9, <2>10, <2>11, DayKept
  <2> QED
    BY <1>1, <1>5, <2>2, <2>4, <2>5, <2>12
<1> QED
  BY <1>4, <1>5

\* No request at the daybook touches the entry of a supplier's payment.
LEMMA DayStepKeeps ==
  ASSUME DayInv, Day
  PROVE  /\ DayInv' /\ DOMAIN entry \subseteq DOMAIN entry'
         /\ \A e \in DOMAIN entry : entry[e].taking = 0 /\ entry[e].source = "SUPPLIER" => entry'[e] = entry[e]
<1>1. ASSUME NEW amount \in Small, NEW method \in TakingMethods, NEW kind \in Kinds, NEW o \in PaidOrders,
             NEW collected \in BOOLEAN, Take(amount, method, kind, o, collected)
      PROVE  DayInv' /\ entry' = entry
  <2>1. amount \in Rupees
    BY SuppliersAssumption
  <2>2. entry' = entry
    BY <1>1 DEF Take
  <2> QED
    BY <1>1, <2>1, <2>2, TakeKeeps
<1>2. ASSUME NEW o \in PaidOrders, DeleteOrder(o)
      PROVE  /\ DayInv' /\ DOMAIN entry' = DOMAIN entry
             /\ \A e \in DOMAIN entry : entry[e].taking = 0 => entry'[e] = entry[e]
  BY <1>2, DeleteOrderKeeps
<1>3. ASSUME NEW amount \in Small, NEW method \in Methods, Write(amount, method)
      PROVE  /\ DayInv' /\ DOMAIN entry \subseteq DOMAIN entry'
             /\ \A e \in DOMAIN entry : entry'[e] = entry[e]
  <2>1. amount \in Rupees /\ "MANUAL" \in Sources
    BY SuppliersAssumption DEF Sources
  <2>2. entry' = Append(entry, NewEntry(amount, method, "MANUAL", 0)) /\ UNCHANGED <<taking, correction>>
    BY <1>3 DEF Write
  <2> QED
    BY <2>1, <2>2, NewEntryKeeps
<1>4. ASSUME NEW n \in DOMAIN entry, Void(n)
      PROVE  /\ DayInv' /\ DOMAIN entry' = DOMAIN entry /\ entry[n].source # "SUPPLIER"
             /\ \A e \in DOMAIN entry : e # n => entry'[e] = entry[e]
  <2>1. entry' = [entry EXCEPT ![n].voided = TRUE] /\ UNCHANGED <<taking, correction>> /\ entry[n].source # "SUPPLIER"
    BY <1>4 DEF Void
  <2> QED
    BY <2>1, VoidedKeeps
<1>5. ASSUME NEW xs \in SUBSET DOMAIN taking, NEW kind \in Kinds, Import(xs, kind)
      PROVE  /\ DayInv' /\ DOMAIN entry \subseteq DOMAIN entry'
             /\ \A e \in DOMAIN entry : entry'[e] = entry[e]
  BY <1>5, ImportKeeps
<1>6. ASSUME NEW x \in DOMAIN taking, NEW expected \in TakingMethods, NEW m \in Methods, CorrectTaking(x, expected, m)
      PROVE  /\ DayInv' /\ DOMAIN entry' = DOMAIN entry
             /\ \A e \in DOMAIN entry : entry[e].taking = 0 => entry'[e] = entry[e]
  BY <1>6, CorrectTakingKeeps
<1> QED
  BY <1>1, <1>2, <1>3, <1>4, <1>5, <1>6 DEF Day

-----------------------------------------------------------------------------
(* Suppliers' accounts.                                                    *)

\* A sum of natural numbers is one.
LEMMA SumNat ==
  ASSUME NEW f, NEW S, IsFiniteSet(S), \A x \in S : f[x] \in Nat
  PROVE  SumFunctionOnSet(f, S) \in Nat
<1> DEFINE Bad == {n \in Nat : \E T \in SUBSET S : Cardinality(T) = n /\ SumFunctionOnSet(f, T) \notin Nat}
<1>1. Bad = {}
  <2> SUFFICES ASSUME Bad # {} PROVE FALSE
    OBVIOUS
  <2>1. PICK n \in Bad : \A m \in Bad : n <= m
    BY LeastExists
  <2>2. PICK T \in SUBSET S : Cardinality(T) = n /\ SumFunctionOnSet(f, T) \notin Nat
    OBVIOUS
  <2>3. SumFunctionOnSet(f, T) = IF T = {} THEN 0 ELSE f[Some(T)] + SumFunctionOnSet(f, T \ {Some(T)})
    BY SumFirst, FS_Subset
  <2>4. T # {}
    BY <2>2, <2>3
  <2>5. /\ T \ {Some(T)} \in SUBSET S /\ f[Some(T)] \in Nat
        /\ Cardinality(T \ {Some(T)}) \in Nat /\ Cardinality(T \ {Some(T)}) = n - 1
    BY <2>2, <2>4, TakeOut
  <2>6. n \in Nat
    OBVIOUS
  <2>7. n - 1 \notin Bad
    <3> HIDE DEF Bad
    <3> QED
      BY <2>1, <2>5, <2>6
  <2>8. SumFunctionOnSet(f, T \ {Some(T)}) \in Nat
    BY <2>5, <2>7
  <2> QED
    BY <2>2, <2>3, <2>4, <2>5, <2>8
<1>2. Cardinality(S) \in Nat
  BY FS_CardinalityType
<1> QED
  BY <1>1, <1>2

\* Adding more members never makes less of a sum of natural numbers.
LEMMA SumGrows ==
  ASSUME NEW f, NEW S, IsFiniteSet(S), \A x \in S : f[x] \in Nat, NEW T \in SUBSET S
  PROVE  SumFunctionOnSet(f, T) <= SumFunctionOnSet(f, S)
<1> DEFINE g == [x \in S |-> IF x \in T THEN f[x] ELSE 0]
           h == [x \in S |-> IF x \in T THEN 0 ELSE f[x]]
<1>1. \A x \in S : g[x] \in Nat /\ h[x] \in Nat /\ f[x] = g[x] + h[x]
  OBVIOUS
<1>2. (\A x \in S \ T : g[x] = 0) /\ (\A x \in T : g[x] = f[x] /\ f[x] \in Int)
  OBVIOUS
<1> HIDE DEF g, h
<1>3. IsFiniteSet(T)
  BY FS_Subset
<1>4. \A x \in S : g[x] \in Int /\ h[x] \in Int
  BY <1>1
<1>5. SumFunctionOnSet(f, S) = SumFunctionOnSet(g, S) + SumFunctionOnSet(h, S)
  BY <1>1, <1>4, SumPlus
<1>6. SumFunctionOnSet(g, S) = SumFunctionOnSet(g, T)
  BY <1>2, <1>4, SumZeros
<1>7. SumFunctionOnSet(g, T) = SumFunctionOnSet(f, T)
  BY <1>2, <1>3, SumSame
<1>8. SumFunctionOnSet(h, S) \in Nat /\ SumFunctionOnSet(g, S) \in Nat
  BY <1>1, SumNat
<1> QED
  BY <1>5, <1>6, <1>7, <1>8

\* The members of a bill.
LEMMA BillIs ==
  ASSUME NEW r \in Invoice
  PROVE  /\ r.supplier \in Suppliers /\ r.date \in Nat /\ r.total \in Nat /\ r.initial \in Nat /\ r.paid \in Nat
         /\ PaidAtOnce(r) \in Nat /\ Unpaid(r) \in Nat /\ Overpaid(r) \in Nat
         /\ PaidAtOnce(r) + Unpaid(r) = r.total
         /\ Unpaid(r) = (r.total - r.initial) + Overpaid(r)
         /\ Unpaid(r) = AtLeast0(r.total - r.initial)
<1>1. /\ r.supplier \in Suppliers /\ r.date \in Nat /\ r.total \in Nat /\ r.initial \in Nat /\ r.paid \in Nat
  <2>1. r.supplier \in Suppliers /\ r.date \in Dates /\ r.total \in Rupees /\ r.initial \in Rupees \cup {0} /\ r.paid \in Nat
    BY DEF Invoice
  <2>2. (\A d \in Dates : d \in Nat) /\ (\A a \in Rupees : a \in Nat)
    BY DaybookAssumption, SuppliersAssumption
  <2> QED
    BY <2>1, <2>2
<1> QED
  BY <1>1 DEF PaidAtOnce, Unpaid, Overpaid, Least, AtLeast0

\* What the bills of a supplier are, and what they add up to.
LEMMA BillsAre ==
  ASSUME NEW bills \in Seq(Invoice), NEW s
  PROVE  /\ DOMAIN bills = 1..Len(bills) /\ Len(bills) \in Nat
         /\ BillsOf(s, bills) \subseteq DOMAIN bills /\ IsFiniteSet(BillsOf(s, bills))
         /\ \A b \in DOMAIN bills : /\ bills[b] \in Invoice /\ b \in Nat
                                    /\ UnpaidOf(bills)[b] = Unpaid(bills[b]) /\ UnpaidOf(bills)[b] \in Nat
                                    /\ OverpaidOf(bills)[b] = Overpaid(bills[b]) /\ OverpaidOf(bills)[b] \in Nat
         /\ SumFunctionOnSet(UnpaidOf(bills), BillsOf(s, bills)) \in Nat
         /\ SumFunctionOnSet(OverpaidOf(bills), BillsOf(s, bills)) \in Nat
<1>1. DOMAIN bills = 1..Len(bills) /\ Len(bills) \in Nat /\ \A b \in DOMAIN bills : bills[b] \in Invoice /\ b \in Nat
  OBVIOUS
<1>2. BillsOf(s, bills) \subseteq DOMAIN bills
  BY DEF BillsOf
<1>3. IsFiniteSet(BillsOf(s, bills))
  <2>1. IsFiniteSet(1..Len(bills))
    BY <1>1, FS_Interval
  <2> QED
    BY <1>1, <1>2, <2>1, FS_Subset
<1>4. \A b \in DOMAIN bills : /\ UnpaidOf(bills)[b] = Unpaid(bills[b]) /\ UnpaidOf(bills)[b] \in Nat
                              /\ OverpaidOf(bills)[b] = Overpaid(bills[b]) /\ OverpaidOf(bills)[b] \in Nat
  BY <1>1, BillIs DEF UnpaidOf, OverpaidOf
<1> QED
  BY <1>1, <1>2, <1>3, <1>4, SumNat

\* The payments to a supplier that stand, and what they add up to.
LEMMA PaymentsAre ==
  ASSUME NEW payments \in Seq(Payment), NEW s
  PROVE  /\ DOMAIN payments = 1..Len(payments) /\ Len(payments) \in Nat
         /\ Standing(s, payments) \subseteq DOMAIN payments /\ IsFiniteSet(Standing(s, payments))
         /\ \A p \in DOMAIN payments : /\ payments[p] \in Payment /\ p \in Nat
                                       /\ AmountOf(payments)[p] = payments[p].amount /\ AmountOf(payments)[p] \in Nat
         /\ PaidLater(s, payments) \in Nat
<1>1. DOMAIN payments = 1..Len(payments) /\ Len(payments) \in Nat /\ \A p \in DOMAIN payments : payments[p] \in Payment /\ p \in Nat
  OBVIOUS
<1>2. Standing(s, payments) \subseteq DOMAIN payments
  BY DEF Standing
<1>3. IsFiniteSet(Standing(s, payments))
  <2>1. IsFiniteSet(1..Len(payments))
    BY <1>1, FS_Interval
  <2> QED
    BY <1>1, <1>2, <2>1, FS_Subset
<1>4. \A p \in DOMAIN payments : AmountOf(payments)[p] = payments[p].amount /\ AmountOf(payments)[p] \in Nat
  BY <1>1, DaybookAssumption DEF AmountOf, Payment
<1> QED
  BY <1>1, <1>2, <1>3, <1>4, SumNat DEF PaidLater

\* What is allocated depends on what the bills before leave of the pool.
Earlier(b, bills) == {a \in BillsOf(bills[b].supplier, bills) : Before(a, b, bills)}

LEMMA AllocatedIs ==
  ASSUME NEW bills \in Seq(Invoice), NEW b \in DOMAIN bills, NEW pool \in Nat
  PROVE  /\ Earlier(b, bills) \subseteq BillsOf(bills[b].supplier, bills) /\ IsFiniteSet(Earlier(b, bills))
         /\ SumFunctionOnSet(UnpaidOf(bills), Earlier(b, bills)) \in Nat
         /\ Allocated(b, pool, bills) =
              Least(AtLeast0(pool - SumFunctionOnSet(UnpaidOf(bills), Earlier(b, bills))), Unpaid(bills[b]))
         /\ Allocated(b, pool, bills) \in Nat
<1> DEFINE s == bills[b].supplier
<1>1. Earlier(b, bills) \subseteq BillsOf(s, bills)
  BY DEF Earlier
<1>2. IsFiniteSet(Earlier(b, bills)) /\ Earlier(b, bills) \subseteq DOMAIN bills
  BY <1>1, BillsAre, FS_Subset
<1>3. SumFunctionOnSet(UnpaidOf(bills), Earlier(b, bills)) \in Nat
  <2>1. \A a \in Earlier(b, bills) : UnpaidOf(bills)[a] \in Nat
    BY <1>2, BillsAre
  <2> QED
    BY <1>2, <2>1, SumNat
<1>4. Allocated(b, pool, bills) =
        Least(AtLeast0(pool - SumFunctionOnSet(UnpaidOf(bills), Earlier(b, bills))), Unpaid(bills[b]))
  BY DEF Allocated, Earlier
<1>5. Unpaid(bills[b]) \in Nat
  BY BillsAre, BillIs
<1> QED
  BY <1>1, <1>2, <1>3, <1>4, <1>5 DEF Least, AtLeast0

\* The bill every other one of a set comes before.
LEMMA LastBill ==
  ASSUME NEW bills \in Seq(Invoice), NEW T \in SUBSET DOMAIN bills, T # {}, IsFiniteSet(T)
  PROVE  \E z \in T : \A t \in T : t # z => Before(t, z, bills)
<1> DEFINE Later(t) == {u \in T : Before(t, u, bills)}
           Sizes == {n \in Nat : \E t \in T : n = Cardinality(Later(t))}
<1>0. \A t \in T : bills[t].date \in Nat /\ t \in Nat
  BY BillsAre, BillIs
<1>1. \A t \in T : Later(t) \in SUBSET T /\ IsFiniteSet(Later(t)) /\ Cardinality(Later(t)) \in Nat
  BY FS_Subset, FS_CardinalityType
<1>2. Sizes # {}
  <2>1. PICK t \in T : TRUE
    OBVIOUS
  <2>2. Cardinality(Later(t)) \in Sizes
    BY <1>1
  <2> QED
    BY <2>2
<1>3. PICK n \in Sizes : \A m \in Sizes : n <= m
  BY <1>2, LeastExists
<1>4. PICK z \in T : n = Cardinality(Later(z))
  OBVIOUS
<1>5. Later(z) = {}
  <2> SUFFICES ASSUME NEW u \in Later(z) PROVE FALSE
    OBVIOUS
  <2>1. Later(u) \in SUBSET Later(z) /\ u \notin Later(u)
    BY <1>0 DEF Before
  <2>2. Cardinality(Later(u)) <= n /\ Cardinality(Later(u)) # n /\ Cardinality(Later(u)) \in Nat /\ n \in Nat
    <3> HIDE DEF Later
    <3> QED
      BY <1>1, <1>4, <2>1, FS_Subset
  <2>3. Cardinality(Later(u)) \in Sizes
    BY <1>1
  <2> HIDE DEF Later, Sizes
  <2> QED
    BY <1>3, <2>2, <2>3
<1>6. \A t \in T : t # z => Before(t, z, bills)
  BY <1>0, <1>5 DEF Before
<1> QED
  BY <1>6

\* A bill takes whatever the pool still has: a set of bills with all that come before them
\* takes the pool or what they are owed, whichever is less.
LEMMA PoolSpent ==
  ASSUME NEW bills \in Seq(Invoice), NEW s, NEW pool \in Nat, NEW alloc,
         \A b \in DOMAIN bills : alloc[b] = Allocated(b, pool, bills)
  PROVE  SumFunctionOnSet(alloc, BillsOf(s, bills)) =
           Least(pool, SumFunctionOnSet(UnpaidOf(bills), BillsOf(s, bills)))
<1> DEFINE B == BillsOf(s, bills)
           un == UnpaidOf(bills)
           Closed(T) == \A t \in T : \A a \in B : Before(a, t, bills) => a \in T
           Right(T) == SumFunctionOnSet(alloc, T) = Least(pool, SumFunctionOnSet(un, T))
           Wrong == {n \in Nat : \E T \in SUBSET B : Cardinality(T) = n /\ Closed(T) /\ ~Right(T)}
<1>1. IsFiniteSet(B) /\ B \subseteq DOMAIN bills /\ \A b \in B : bills[b].supplier = s /\ un[b] \in Nat /\ alloc[b] \in Nat
  BY BillsAre, AllocatedIs DEF BillsOf
<1>2. ASSUME NEW b \in B
      PROVE  alloc[b] = Least(AtLeast0(pool - SumFunctionOnSet(un, Earlier(b, bills))), un[b])
  <2>1. b \in DOMAIN bills /\ alloc[b] = Allocated(b, pool, bills)
    BY <1>1
  <2>2. un[b] = Unpaid(bills[b])
    BY <2>1, BillsAre
  <2> QED
    BY <2>1, <2>2, AllocatedIs
<1>3. \A b \in B : Earlier(b, bills) = {a \in B : Before(a, b, bills)}
  BY <1>1 DEF Earlier
<1>4. \A a, b \in DOMAIN bills : ~Before(a, a, bills) /\ ~(Before(a, b, bills) /\ Before(b, a, bills))
  <2>1. \A b \in DOMAIN bills : bills[b].date \in Nat /\ b \in Nat
    BY BillsAre, BillIs
  <2> QED
    BY <2>1 DEF Before
<1>5. ASSUME NEW T \in SUBSET B, Closed(T), T # {}
      PROVE  \E z \in T : /\ Closed(T \ {z}) /\ Earlier(z, bills) = T \ {z}
  <2>1. IsFiniteSet(T) /\ T \in SUBSET DOMAIN bills
    BY <1>1, FS_Subset
  <2>2. PICK z \in T : \A t \in T : t # z => Before(t, z, bills)
    BY <1>5, <2>1, LastBill
  <2>3. Closed(T \ {z})
    BY <1>4, <1>5, <2>1, <2>2
  <2>4. Earlier(z, bills) = T \ {z}
    <3>1. z \in B /\ z \in DOMAIN bills
      BY <1>1
    <3>2. \A a \in B : Before(a, z, bills) <=> a \in T /\ a # z
      BY <1>4, <1>5, <2>2, <3>1
    <3> QED
      BY <1>3, <3>1, <3>2
  <2> QED
    BY <2>3, <2>4
<1> HIDE DEF B, un, Closed
<1>6. Wrong = {}
  <2> SUFFICES ASSUME Wrong # {} PROVE FALSE
    OBVIOUS
  <2>1. PICK n \in Wrong : \A m \in Wrong : n <= m
    BY LeastExists
  <2>2. PICK T \in SUBSET B : Cardinality(T) = n /\ Closed(T) /\ ~Right(T)
    OBVIOUS
  <2>3. T # {}
    <3>1. Right({})
      BY SumEmpty DEF Least
    <3> QED
      BY <2>2, <3>1
  <2>4. PICK z \in T : Closed(T \ {z}) /\ Earlier(z, bills) = T \ {z}
    BY <1>5, <2>2, <2>3
  <2> DEFINE R == T \ {z}
  <2>5. IsFiniteSet(T) /\ IsFiniteSet(R) /\ R \in SUBSET B /\ Cardinality(R) = n - 1 /\ Cardinality(R) \in Nat /\ n \in Nat
    BY <1>1, <2>2, FS_Subset, FS_RemoveElement, FS_CardinalityType
  <2>6. Right(R)
    <3>1. n - 1 \notin Wrong
      <4> HIDE DEF Wrong
      <4> QED
        BY <2>1, <2>5
    <3> HIDE DEF Right
    <3>2. n - 1 \in Nat
      BY <2>5
    <3> QED
      BY <2>4, <2>5, <3>1, <3>2
  <2>7. SumFunctionOnSet(alloc, T) = alloc[z] + SumFunctionOnSet(alloc, R)
    <3>1. \A t \in T : alloc[t] \in Int
      BY <1>1
    <3> QED
      BY <2>5, <3>1, SumStep
  <2>8. SumFunctionOnSet(un, T) = un[z] + SumFunctionOnSet(un, R)
    <3>1. \A t \in T : un[t] \in Int
      BY <1>1
    <3> QED
      BY <2>5, <3>1, SumStep
  <2>9. SumFunctionOnSet(un, R) \in Nat /\ un[z] \in Nat
    <3>1. \A t \in R : un[t] \in Nat
      BY <1>1, <2>5
    <3> QED
      BY <1>1, <2>5, <3>1, SumNat
  <2>10. alloc[z] = Least(AtLeast0(pool - SumFunctionOnSet(un, R)), un[z])
    BY <1>2, <2>4
  <2> HIDE DEF R
  <2>11. Right(T)
    BY <2>6, <2>7, <2>8, <2>9, <2>10 DEF Least, AtLeast0
  <2> QED
    BY <2>2, <2>11
<1>7. Closed(B)
  BY DEF Closed
<1>8. Cardinality(B) \in Nat
  BY <1>1, FS_CardinalityType
<1>9. Right(B)
  <2> HIDE DEF Right
  <2> QED
    BY <1>6, <1>7, <1>8
<1> QED
  BY <1>9 DEF B, un

\* An account: the bills show what payments and overpaid bills allocate, oldest first, the
\* balance is what is owed in all, and the vouchers tell what was due on receipt and paid
\* since.
Account(s, row, bills, payments, vouchers) ==
  LET unpaid == SumFunctionOnSet(UnpaidOf(bills), BillsOf(s, bills))
      overpaid == SumFunctionOnSet(OverpaidOf(bills), BillsOf(s, bills))
  IN /\ \A b \in BillsOf(s, bills) :
          bills[b].paid = PaidAtOnce(bills[b]) + Allocated(b, Pool(s, row.opening, bills, payments), bills)
     /\ row.balance = row.opening + unpaid - overpaid - PaidLater(s, payments)
     /\ vouchers = unpaid - PaidLater(s, payments)
     /\ ~row.known => BillsOf(s, bills) = {} /\ Standing(s, payments) = {}

\* The pool is never negative.
LEMMA PoolIs ==
  ASSUME NEW s, NEW opening \in Int, NEW bills \in Seq(Invoice), NEW payments \in Seq(Payment)
  PROVE  Pool(s, opening, bills, payments) \in Nat
<1>1. PaidLater(s, payments) \in Nat
  BY PaymentsAre
<1>2. SumFunctionOnSet(OverpaidOf(bills), BillsOf(s, bills)) \in Nat
  BY BillsAre
<1> QED
  BY <1>1, <1>2 DEF Pool, AtLeast0

\* An account says what its bills, their value and what was paid say, and nothing else.
Alike(r, q) == r.supplier = q.supplier /\ r.date = q.date /\ r.total = q.total /\ r.initial = q.initial

LEMMA SameAccount ==
  ASSUME NEW s, NEW bills \in Seq(Invoice), NEW after \in Seq(Invoice), NEW payments \in Seq(Payment), NEW later \in Seq(Payment),
         BillsOf(s, after) = BillsOf(s, bills), \A b \in BillsOf(s, bills) : Alike(after[b], bills[b]),
         Standing(s, later) = Standing(s, payments), \A p \in Standing(s, payments) : later[p].amount = payments[p].amount
  PROVE  /\ SumFunctionOnSet(UnpaidOf(after), BillsOf(s, after)) = SumFunctionOnSet(UnpaidOf(bills), BillsOf(s, bills))
         /\ SumFunctionOnSet(OverpaidOf(after), BillsOf(s, after)) = SumFunctionOnSet(OverpaidOf(bills), BillsOf(s, bills))
         /\ PaidLater(s, later) = PaidLater(s, payments)
         /\ \A opening : Pool(s, opening, after, later) = Pool(s, opening, bills, payments)
         /\ \A b \in BillsOf(s, bills), pool \in Nat :
              /\ Allocated(b, pool, after) = Allocated(b, pool, bills)
              /\ PaidAtOnce(after[b]) = PaidAtOnce(bills[b])
<1> DEFINE B == BillsOf(s, bills)
           P == Standing(s, payments)
<1>1. /\ IsFiniteSet(B) /\ B \subseteq DOMAIN bills /\ B \subseteq DOMAIN after
      /\ \A b \in B : /\ bills[b].supplier = s /\ after[b].supplier = s
                      /\ UnpaidOf(bills)[b] \in Nat /\ OverpaidOf(bills)[b] \in Nat
                      /\ UnpaidOf(bills)[b] = Unpaid(bills[b]) /\ OverpaidOf(bills)[b] = Overpaid(bills[b])
                      /\ UnpaidOf(after)[b] = Unpaid(after[b]) /\ OverpaidOf(after)[b] = Overpaid(after[b])
  BY BillsAre DEF BillsOf
<1>2. \A b \in B : UnpaidOf(after)[b] = UnpaidOf(bills)[b] /\ OverpaidOf(after)[b] = OverpaidOf(bills)[b]
  BY <1>1 DEF Alike, Unpaid, PaidAtOnce, Overpaid
<1>3. \A b \in B : PaidAtOnce(after[b]) = PaidAtOnce(bills[b]) /\ Unpaid(after[b]) = Unpaid(bills[b])
  BY DEF Alike, Unpaid, PaidAtOnce
<1>4. \A a, b \in B : Before(a, b, after) <=> Before(a, b, bills)
  BY DEF Alike, Before
<1>5. BillsOf(s, after) = B
  OBVIOUS
<1> HIDE DEF B
<1>6. \A T \in SUBSET B : SumFunctionOnSet(UnpaidOf(after), T) = SumFunctionOnSet(UnpaidOf(bills), T)
  <2> SUFFICES ASSUME NEW T \in SUBSET B
               PROVE  SumFunctionOnSet(UnpaidOf(after), T) = SumFunctionOnSet(UnpaidOf(bills), T)
    OBVIOUS
  <2>1. IsFiniteSet(T) /\ \A b \in T : UnpaidOf(bills)[b] \in Int /\ UnpaidOf(after)[b] = UnpaidOf(bills)[b]
    BY <1>1, <1>2, FS_Subset
  <2> QED
    BY <2>1, SumSame
<1>7. SumFunctionOnSet(OverpaidOf(after), B) = SumFunctionOnSet(OverpaidOf(bills), B)
  <2>1. \A b \in B : OverpaidOf(bills)[b] \in Int /\ OverpaidOf(after)[b] = OverpaidOf(bills)[b]
    BY <1>1, <1>2
  <2> QED
    BY <1>1, <2>1, SumSame
<1>8. PaidLater(s, later) = PaidLater(s, payments)
  <2>1. IsFiniteSet(P) /\ \A p \in P : AmountOf(payments)[p] \in Int /\ AmountOf(later)[p] = AmountOf(payments)[p]
    BY PaymentsAre
  <2>2. SumFunctionOnSet(AmountOf(later), P) = SumFunctionOnSet(AmountOf(payments), P)
    BY <2>1, SumSame
  <2> QED
    BY <2>2 DEF PaidLater
<1>9. \A opening : Pool(s, opening, after, later) = Pool(s, opening, bills, payments)
  BY <1>5, <1>7, <1>8 DEF Pool, B
<1>10. ASSUME NEW b \in B, NEW pool \in Nat
       PROVE  Allocated(b, pool, after) = Allocated(b, pool, bills)
  <2>1. Earlier(b, after) = Earlier(b, bills) /\ Earlier(b, bills) \in SUBSET B
    BY <1>1, <1>4, <1>5 DEF Earlier, B
  <2>2. b \in DOMAIN bills /\ b \in DOMAIN after
    BY <1>1
  <2>3. SumFunctionOnSet(UnpaidOf(after), Earlier(b, after)) = SumFunctionOnSet(UnpaidOf(bills), Earlier(b, bills))
    BY <1>6, <2>1
  <2>4. Allocated(b, pool, bills) =
          Least(AtLeast0(pool - SumFunctionOnSet(UnpaidOf(bills), Earlier(b, bills))), Unpaid(bills[b]))
    BY <2>2, AllocatedIs
  <2>5. Allocated(b, pool, after) =
          Least(AtLeast0(pool - SumFunctionOnSet(UnpaidOf(after), Earlier(b, after))), Unpaid(after[b]))
    BY <2>2, AllocatedIs
  <2> QED
    BY <1>3, <2>3, <2>4, <2>5
<1> QED
  BY <1>3, <1>5, <1>6, <1>7, <1>8, <1>9, <1>10 DEF B

\* An account stays as it is while its bills and what was paid for them do.
LEMMA AccountSame ==
  ASSUME NEW s, NEW row \in SupplierRow, NEW vouchers, NEW bills \in Seq(Invoice), NEW after \in Seq(Invoice),
         NEW payments \in Seq(Payment), NEW later \in Seq(Payment),
         BillsOf(s, after) = BillsOf(s, bills), \A b \in BillsOf(s, bills) : after[b] = bills[b],
         Standing(s, later) = Standing(s, payments), \A p \in Standing(s, payments) : later[p].amount = payments[p].amount,
         Account(s, row, bills, payments, vouchers)
  PROVE  Account(s, row, after, later, vouchers)
<1>1. \A b \in BillsOf(s, bills) : Alike(after[b], bills[b])
  BY DEF Alike
<1>2. Pool(s, row.opening, bills, payments) \in Nat
  <2>1. row.opening \in Int
    BY SuppliersAssumption DEF SupplierRow
  <2> QED
    BY <2>1, PoolIs
<1>3. /\ SumFunctionOnSet(UnpaidOf(after), BillsOf(s, after)) = SumFunctionOnSet(UnpaidOf(bills), BillsOf(s, bills))
      /\ SumFunctionOnSet(OverpaidOf(after), BillsOf(s, after)) = SumFunctionOnSet(OverpaidOf(bills), BillsOf(s, bills))
      /\ PaidLater(s, later) = PaidLater(s, payments)
      /\ \A opening : Pool(s, opening, after, later) = Pool(s, opening, bills, payments)
      /\ \A b \in BillsOf(s, bills), pool \in Nat :
              /\ Allocated(b, pool, after) = Allocated(b, pool, bills)
              /\ PaidAtOnce(after[b]) = PaidAtOnce(bills[b])
  BY <1>1, SameAccount
<1> QED
  BY <1>2, <1>3 DEF Account

\* A sum with one more member.
LEMMA SumAdded ==
  ASSUME NEW f, NEW g, NEW S, IsFiniteSet(S), \A x \in S : f[x] \in Int /\ g[x] = f[x],
         NEW y, y \notin S, g[y] \in Int, NEW T, T = S \cup {y}
  PROVE  SumFunctionOnSet(g, T) = g[y] + SumFunctionOnSet(f, S)
<1>1. IsFiniteSet(T)
  BY FS_AddElement
<1>2. \A x \in T : g[x] \in Int
  OBVIOUS
<1>3. y \in T /\ T \ {y} = S
  OBVIOUS
<1>4. SumFunctionOnSet(g, T) = g[y] + SumFunctionOnSet(g, S)
  BY <1>1, <1>2, <1>3, SumStep
<1>5. SumFunctionOnSet(g, S) = SumFunctionOnSet(f, S)
  BY SumSame
<1> QED
  BY <1>4, <1>5

\* reconcile_supplier leaves an account in order, and those of the others alone.
LEMMA Reconciled ==
  ASSUME supplier \in [Suppliers -> SupplierRow], NEW s \in Suppliers, NEW r \in SupplierRow, r.known,
         NEW bills \in Seq(Invoice), NEW payments \in Seq(Payment), Reconcile(s, r, bills, payments),
         NEW vouchers, vouchers = SumFunctionOnSet(UnpaidOf(bills), BillsOf(s, bills)) - PaidLater(s, payments)
  PROVE  /\ bill' \in Seq(Invoice) /\ supplier' \in [Suppliers -> SupplierRow]
         /\ Account(s, supplier'[s], bill', payments, vouchers)
         /\ \A t \in Suppliers : t # s =>
              /\ supplier'[t] = supplier[t]
              /\ BillsOf(t, bill') = BillsOf(t, bills)
              /\ \A b \in BillsOf(t, bills) : bill'[b] = bills[b]
<1> DEFINE pool == Pool(s, r.opening, bills, payments)
           charge == [b \in DOMAIN bills |-> bills[b].total - bills[b].initial]
           balance == r.opening + SumFunctionOnSet(charge, BillsOf(s, bills)) - PaidLater(s, payments)
           new(b) == [bills[b] EXCEPT !.paid = PaidAtOnce(bills[b]) + Allocated(b, pool, bills)]
           to == [r EXCEPT !.balance = balance]
           B == BillsOf(s, bills)
<1>1. /\ bill' = [b \in DOMAIN bills |-> IF bills[b].supplier = s THEN new(b) ELSE bills[b]]
      /\ supplier' = [supplier EXCEPT ![s] = to]
  BY DEF Reconcile
<1>2. r.opening \in Int /\ pool \in Nat
  <2>1. r.opening \in Int
    BY SuppliersAssumption DEF SupplierRow
  <2> QED
    BY <2>1, PoolIs
<1> HIDE DEF pool
<1>3. ASSUME NEW b \in DOMAIN bills
      PROVE  /\ new(b) \in Invoice /\ Alike(new(b), bills[b])
             /\ new(b).paid = PaidAtOnce(bills[b]) + Allocated(b, pool, bills)
  <2>1. bills[b] \in Invoice
    BY BillsAre
  <2>2. PaidAtOnce(bills[b]) + Allocated(b, pool, bills) \in Nat
    <3>1. PaidAtOnce(bills[b]) \in Nat
      BY <2>1, BillIs
    <3>2. Allocated(b, pool, bills) \in Nat
      BY <1>2, AllocatedIs
    <3> QED
      BY <3>1, <3>2
  <2> QED
    BY <2>1, <2>2 DEF Invoice, Alike
<1> HIDE DEF new
<1>4. bill' \in Seq(Invoice) /\ DOMAIN bill' = DOMAIN bills
  <2>1. bill' \in [DOMAIN bills -> Invoice]
    BY <1>1, <1>3, BillsAre
  <2> QED
    BY <2>1, InPlace
<1>5. \A b \in DOMAIN bills : Alike(bill'[b], bills[b])
  BY <1>1, <1>3 DEF Alike
<1>6. \A t : BillsOf(t, bill') = BillsOf(t, bills)
  BY <1>4, <1>5 DEF BillsOf, Alike
<1>7. /\ IsFiniteSet(B) /\ B \subseteq DOMAIN bills
      /\ SumFunctionOnSet(UnpaidOf(bills), B) \in Nat /\ SumFunctionOnSet(OverpaidOf(bills), B) \in Nat
      /\ PaidLater(s, payments) \in Nat
  BY BillsAre, PaymentsAre
<1>8. SumFunctionOnSet(charge, B) \in Int /\
      SumFunctionOnSet(UnpaidOf(bills), B) = SumFunctionOnSet(charge, B) + SumFunctionOnSet(OverpaidOf(bills), B)
  <2>1. \A b \in B : /\ charge[b] \in Int /\ OverpaidOf(bills)[b] \in Int
                     /\ UnpaidOf(bills)[b] = charge[b] + OverpaidOf(bills)[b]
    <3> SUFFICES ASSUME NEW b \in B
                 PROVE  /\ charge[b] \in Int /\ OverpaidOf(bills)[b] \in Int
                        /\ UnpaidOf(bills)[b] = charge[b] + OverpaidOf(bills)[b]
      OBVIOUS
    <3>1. b \in DOMAIN bills /\ bills[b] \in Invoice
      BY <1>7, BillsAre
    <3>2. charge[b] = bills[b].total - bills[b].initial
      BY <3>1
    <3>3. UnpaidOf(bills)[b] = Unpaid(bills[b]) /\ OverpaidOf(bills)[b] = Overpaid(bills[b])
      BY <3>1, BillsAre
    <3> QED
      BY <3>1, <3>2, <3>3, BillIs
  <2> HIDE DEF charge, B
  <2> QED
    BY <1>7, <2>1, SumPlus, SumInt
<1>9. balance \in Int /\ balance = r.opening + SumFunctionOnSet(UnpaidOf(bills), B)
                                   - SumFunctionOnSet(OverpaidOf(bills), B) - PaidLater(s, payments)
  <2> HIDE DEF charge, B
  <2> QED
    BY <1>2, <1>7, <1>8 DEF B
<1> HIDE DEF balance
<1>10. to \in SupplierRow /\ to.known /\ to.opening = r.opening /\ to.balance = balance
  BY <1>9 DEF SupplierRow
<1> HIDE DEF to
<1>11. supplier' \in [Suppliers -> SupplierRow] /\ supplier'[s] = to
       /\ \A t \in Suppliers : t # s => supplier'[t] = supplier[t]
  BY <1>1, <1>10
<1>12. /\ SumFunctionOnSet(UnpaidOf(bill'), BillsOf(s, bill')) = SumFunctionOnSet(UnpaidOf(bills), B)
       /\ SumFunctionOnSet(OverpaidOf(bill'), BillsOf(s, bill')) = SumFunctionOnSet(OverpaidOf(bills), B)
       /\ \A opening : Pool(s, opening, bill', payments) = Pool(s, opening, bills, payments)
       /\ \A b \in B, p \in Nat :
              /\ Allocated(b, p, bill') = Allocated(b, p, bills)
              /\ PaidAtOnce(bill'[b]) = PaidAtOnce(bills[b])
  <2>1. \A b \in BillsOf(s, bills) : Alike(bill'[b], bills[b])
    BY <1>5, <1>7
  <2> QED
    BY <1>4, <1>6, <2>1, SameAccount
<1>13. \A b \in B : bill'[b].paid = PaidAtOnce(bill'[b]) + Allocated(b, Pool(s, to.opening, bill', payments), bill')
  <2> SUFFICES ASSUME NEW b \in B
               PROVE  bill'[b].paid = PaidAtOnce(bill'[b]) + Allocated(b, Pool(s, to.opening, bill', payments), bill')
    OBVIOUS
  <2>1. b \in DOMAIN bills /\ bills[b].supplier = s
    BY DEF BillsOf
  <2>2. Pool(s, to.opening, bill', payments) = pool
    BY <1>10, <1>12 DEF pool
  <2>3. bill'[b].paid = PaidAtOnce(bills[b]) + Allocated(b, pool, bills)
    BY <1>1, <1>3, <2>1
  <2> QED
    BY <1>2, <1>12, <2>2, <2>3
<1>14. Account(s, supplier'[s], bill', payments, vouchers)
  BY <1>6, <1>9, <1>10, <1>11, <1>12, <1>13 DEF Account
<1>15. \A t \in Suppliers : t # s => \A b \in BillsOf(t, bills) : bill'[b] = bills[b]
  BY <1>1 DEF BillsOf
<1> QED
  BY <1>4, <1>6, <1>11, <1>14, <1>15

\* A payment has its entry.
HasEntry(p) ==
  /\ payment[p].entry \in DOMAIN entry
  /\ LET e == entry[payment[p].entry]
     IN /\ e.source = "SUPPLIER" /\ e.taking = 0 /\ e.kept
        /\ e.amount = payment[p].amount
        /\ e.method = payment[p].method
        /\ e.voided = payment[p].voided

BooksInv ==
  /\ BooksTypeOK
  /\ DayInv
  /\ \A p \in DOMAIN payment : HasEntry(p)
  /\ \A p, q \in DOMAIN payment : payment[p].entry = payment[q].entry => p = q
  /\ \A s \in Suppliers : Account(s, supplier[s], bill, payment, khata[s])

LEMMA InitBooks == BooksInit => BooksInv
<1> SUFFICES ASSUME BooksInit PROVE BooksInv
  OBVIOUS
<1>1. taking = <<>> /\ entry = <<>> /\ correction = <<>> /\ bill = <<>> /\ payment = <<>>
  BY DEF BooksInit, DayInit
<1>2. BooksTypeOK /\ DayTypeOK
  <2>1. [known |-> FALSE, opening |-> 0, balance |-> 0] \in SupplierRow
    BY SuppliersAssumption DEF SupplierRow
  <2> QED
    BY <1>1, <2>1 DEF BooksInit, BooksTypeOK, DayTypeOK
<1>3. DayInv
  BY <1>1, <1>2 DEF DayInv, Places, EntriesFollowPayments, CorrectionsExplainMethod
<1>4. ASSUME NEW s \in Suppliers
      PROVE  Account(s, supplier[s], bill, payment, khata[s])
  <2>1. BillsOf(s, bill) = {} /\ Standing(s, payment) = {}
    BY <1>1 DEF BillsOf, Standing
  <2>2. PaidLater(s, payment) = 0
    BY <2>1, SumEmpty DEF PaidLater
  <2>3. supplier[s].balance = 0 /\ supplier[s].opening = 0 /\ khata[s] = 0
    BY DEF BooksInit
  <2>4. SumFunctionOnSet(UnpaidOf(bill), {}) = 0 /\ SumFunctionOnSet(OverpaidOf(bill), {}) = 0
    BY SumEmpty
  <2> QED
    BY <2>1, <2>2, <2>3, <2>4 DEF Account
<1> QED
  BY <1>1, <1>2, <1>3, <1>4 DEF BooksInv

\* Each request keeps the books.
LEMMA DayBooks ==
  ASSUME BooksInv, Day
  PROVE  BooksInv'
<1>1. UNCHANGED <<supplier, bill, payment, khata>>
  BY DEF Day
<1>2. /\ DayInv' /\ DOMAIN entry \subseteq DOMAIN entry'
      /\ \A e \in DOMAIN entry : entry[e].taking = 0 /\ entry[e].source = "SUPPLIER" => entry'[e] = entry[e]
  BY DayStepKeeps DEF BooksInv
<1>3. BooksTypeOK'
  BY <1>1, <1>2 DEF BooksInv, BooksTypeOK, DayInv
<1>4. \A p \in DOMAIN payment : HasEntry(p)'
  BY <1>1, <1>2 DEF BooksInv, HasEntry
<1> QED
  BY <1>1, <1>2, <1>3, <1>4 DEF BooksInv

\* A request that leaves the daybook leaves its invariant.
LEMMA SameDay ==
  ASSUME DayInv, UNCHANGED dayVars
  PROVE  DayInv'
<1>1. UNCHANGED <<taking, entry, correction>>
  BY DEF dayVars
<1>2. DayTypeOK' /\ Places'
  BY <1>1 DEF DayInv, DayTypeOK, Places
<1>3. EntriesFollowPayments'
  BY <1>1 DEF DayInv, EntriesFollowPayments
<1>4. \A x \in DOMAIN taking' : Explained(x)'
  BY <1>1, TrailKept
<1> QED
  BY <1>2, <1>3, <1>4, DayKept

LEMMA RegisterBooks ==
  ASSUME BooksInv, NEW s \in Suppliers, NEW opening \in Openings, Register(s, opening)
  PROVE  BooksInv'
<1> DEFINE r == [known |-> TRUE, opening |-> opening, balance |-> opening]
<1>1. /\ ~supplier[s].known /\ supplier' = [supplier EXCEPT ![s] = r]
      /\ UNCHANGED <<dayVars, bill, payment, khata>>
  BY DEF Register
<1>2. r \in SupplierRow /\ opening \in Int
  BY SuppliersAssumption DEF SupplierRow
<1>3. /\ supplier \in [Suppliers -> SupplierRow] /\ bill \in Seq(Invoice) /\ payment \in Seq(Payment)
      /\ khata \in [Suppliers -> Int]
  BY DEF BooksInv, BooksTypeOK
<1>4. Account(s, r, bill, payment, khata[s])
  <2>1. Account(s, supplier[s], bill, payment, khata[s])
    BY DEF BooksInv
  <2>2. BillsOf(s, bill) = {} /\ Standing(s, payment) = {} /\
        khata[s] = SumFunctionOnSet(UnpaidOf(bill), BillsOf(s, bill)) - PaidLater(s, payment)
    BY <1>1, <2>1 DEF Account
  <2>3. PaidLater(s, payment) = 0
    BY <2>2, SumEmpty DEF PaidLater
  <2>4. SumFunctionOnSet(UnpaidOf(bill), {}) = 0 /\ SumFunctionOnSet(OverpaidOf(bill), {}) = 0
    BY SumEmpty
  <2> QED
    BY <1>2, <2>2, <2>3, <2>4 DEF Account
<1> HIDE DEF r
<1>5. supplier' \in [Suppliers -> SupplierRow] /\ supplier'[s] = r
      /\ \A t \in Suppliers : t # s => supplier'[t] = supplier[t]
  BY <1>1, <1>2, <1>3
<1>6. UNCHANGED <<taking, entry, correction>>
  BY <1>1 DEF dayVars
<1>7. DayTypeOK' /\ DayInv'
  BY <1>1, SameDay DEF BooksInv, DayInv
<1>8. BooksTypeOK'
  BY <1>1, <1>3, <1>5, <1>7 DEF BooksTypeOK
<1>9. \A p \in DOMAIN payment : HasEntry(p)'
  BY <1>1, <1>6 DEF BooksInv, HasEntry
<1>10. \A t \in Suppliers : Account(t, supplier'[t], bill, payment, khata[t])
  BY <1>4, <1>5 DEF BooksInv
<1> QED
  BY <1>1, <1>7, <1>8, <1>9, <1>10 DEF BooksInv

LEMMA PurchaseBooks ==
  ASSUME BooksInv, NEW s \in Suppliers, NEW date \in Dates, NEW total \in Rupees, NEW initial \in Rupees \cup {0},
         Purchase(s, date, total, initial)
  PROVE  BooksInv'
<1> DEFINE r == IF supplier[s].known THEN supplier[s]
                ELSE [known |-> TRUE, opening |-> 0, balance |-> 0]
           new == [supplier |-> s, date |-> date, total |-> total, initial |-> initial, paid |-> initial]
           bills == Append(bill, new)
           n == Len(bill)
           B == BillsOf(s, bill)
           vouchers == khata[s] + AtLeast0(total - initial)
<1>1. /\ khata' = [khata EXCEPT ![s] = vouchers] /\ Reconcile(s, r, bills, payment)
      /\ UNCHANGED <<dayVars, payment>>
  BY DEF Purchase
<1>2. /\ supplier \in [Suppliers -> SupplierRow] /\ bill \in Seq(Invoice) /\ payment \in Seq(Payment)
      /\ khata \in [Suppliers -> Int]
  BY DEF BooksInv, BooksTypeOK
<1>3. r \in SupplierRow /\ r.known
  BY <1>2, SuppliersAssumption DEF SupplierRow
<1>4. new \in Invoice /\ new.supplier = s /\ Unpaid(new) = AtLeast0(total - initial)
  <2>1. initial \in Nat
    BY DaybookAssumption
  <2>2. new \in Invoice
    BY <2>1 DEF Invoice
  <2> QED
    BY <2>2, BillIs
<1> HIDE DEF r, new
<1>5. /\ bills \in Seq(Invoice) /\ DOMAIN bill = 1..n /\ n \in Nat /\ DOMAIN bills = DOMAIN bill \cup {n + 1}
      /\ n + 1 \notin DOMAIN bill /\ bills[n + 1] = new /\ \A b \in DOMAIN bill : bills[b] = bill[b]
  BY <1>2, <1>4
<1> HIDE DEF bills, n
<1>6. BillsOf(s, bills) = B \cup {n + 1} /\ n + 1 \notin B
  BY <1>4, <1>5 DEF BillsOf
<1>7. \A t \in Suppliers : t # s => BillsOf(t, bills) = BillsOf(t, bill) /\ \A b \in BillsOf(t, bill) : bills[b] = bill[b]
  BY <1>4, <1>5 DEF BillsOf
<1>8. SumFunctionOnSet(UnpaidOf(bills), BillsOf(s, bills)) = Unpaid(new) + SumFunctionOnSet(UnpaidOf(bill), B)
  <2>1. IsFiniteSet(B) /\ B \subseteq DOMAIN bill
    BY <1>2, BillsAre
  <2>2. \A b \in B : UnpaidOf(bill)[b] \in Int /\ UnpaidOf(bill)[b] = Unpaid(bill[b])
    BY <1>2, <2>1, BillsAre
  <2>3. \A b \in DOMAIN bills : UnpaidOf(bills)[b] \in Int /\ UnpaidOf(bills)[b] = Unpaid(bills[b])
    BY <1>5, BillsAre
  <2>4. \A b \in B : UnpaidOf(bill)[b] \in Int /\ UnpaidOf(bills)[b] = UnpaidOf(bill)[b]
    BY <1>5, <2>1, <2>2, <2>3
  <2>5. UnpaidOf(bills)[n + 1] \in Int /\ UnpaidOf(bills)[n + 1] = Unpaid(new)
    BY <1>5, <2>3
  <2> HIDE DEF B
  <2> QED
    BY <1>6, <2>1, <2>4, <2>5, SumAdded
<1>9. Account(s, supplier[s], bill, payment, khata[s])
  BY DEF BooksInv
<1>10. vouchers = SumFunctionOnSet(UnpaidOf(bills), BillsOf(s, bills)) - PaidLater(s, payment)
  <2>1. khata[s] = SumFunctionOnSet(UnpaidOf(bill), B) - PaidLater(s, payment)
    BY <1>9 DEF Account
  <2>2. SumFunctionOnSet(UnpaidOf(bill), B) \in Nat /\ PaidLater(s, payment) \in Nat /\ Unpaid(new) \in Nat
    BY <1>2, <1>4, BillsAre, PaymentsAre, BillIs
  <2> HIDE DEF B
  <2> QED
    BY <1>4, <1>8, <2>1, <2>2
<1>11. vouchers \in Int
  <2>1. Unpaid(new) \in Nat /\ khata[s] \in Int
    BY <1>2, <1>4, BillIs
  <2> QED
    BY <1>4, <2>1
<1> HIDE DEF vouchers, B
<1>12. /\ bill' \in Seq(Invoice) /\ supplier' \in [Suppliers -> SupplierRow]
       /\ Account(s, supplier'[s], bill', payment, vouchers)
       /\ \A t \in Suppliers : t # s =>
            /\ supplier'[t] = supplier[t]
            /\ BillsOf(t, bill') = BillsOf(t, bills)
            /\ \A b \in BillsOf(t, bills) : bill'[b] = bills[b]
  BY <1>1, <1>2, <1>3, <1>5, <1>10, Reconciled
<1>13. khata' \in [Suppliers -> Int] /\ khata'[s] = vouchers /\ \A t \in Suppliers : t # s => khata'[t] = khata[t]
  BY <1>1, <1>2, <1>11
<1>14. ASSUME NEW t \in Suppliers, t # s
       PROVE  Account(t, supplier'[t], bill', payment, khata'[t])
  <2>1. Account(t, supplier[t], bill, payment, khata[t]) /\ supplier[t] \in SupplierRow
    BY <1>2 DEF BooksInv
  <2>2. BillsOf(t, bill') = BillsOf(t, bill) /\ \A b \in BillsOf(t, bill) : bill'[b] = bill[b]
    BY <1>7, <1>12, <1>14
  <2>3. Account(t, supplier[t], bill', payment, khata[t])
    BY <1>2, <1>12, <2>1, <2>2, AccountSame
  <2> QED
    BY <1>12, <1>13, <1>14, <2>3
<1>15. DayInv' /\ payment' = payment /\ entry' = entry
  <2>1. UNCHANGED dayVars /\ payment' = payment
    BY <1>1
  <2> QED
    BY <2>1, SameDay DEF BooksInv, dayVars
<1>16. BooksTypeOK'
  BY <1>2, <1>12, <1>13, <1>15 DEF BooksTypeOK, DayInv
<1>17. \A p \in DOMAIN payment : HasEntry(p)'
  BY <1>15 DEF BooksInv, HasEntry
<1> QED
  BY <1>12, <1>13, <1>14, <1>15, <1>16, <1>17 DEF BooksInv

LEMMA PayBooks ==
  ASSUME BooksInv, NEW s \in Suppliers, NEW amount \in Rupees, NEW method \in PurchaseMethods, NEW expected,
         Pay(s, amount, method, expected)
  PROVE  BooksInv'
<1> DEFINE row == [supplier |-> s, amount |-> amount, method |-> method, voided |-> FALSE,
                   entry |-> Len(entry) + 1]
           n == Len(payment)
           P == Standing(s, payment)
           vouchers == khata[s] - amount
<1>1. /\ supplier[s].known /\ entry' = Append(entry, NewEntry(amount, method, "SUPPLIER", 0))
      /\ payment' = Append(payment, row) /\ khata' = [khata EXCEPT ![s] = vouchers]
      /\ Reconcile(s, supplier[s], bill, payment') /\ UNCHANGED <<taking, correction>>
  BY DEF Pay
<1>2. /\ supplier \in [Suppliers -> SupplierRow] /\ bill \in Seq(Invoice) /\ payment \in Seq(Payment)
      /\ khata \in [Suppliers -> Int] /\ amount \in Nat /\ method \in Methods
  BY DaybookAssumption DEF BooksInv, BooksTypeOK, PurchaseMethods
<1>3. /\ DayInv' /\ DOMAIN entry' = DOMAIN entry \cup {Len(entry) + 1}
      /\ entry'[Len(entry) + 1] = NewEntry(amount, method, "SUPPLIER", 0)
      /\ \A e \in DOMAIN entry : entry'[e] = entry[e]
  <2>1. "SUPPLIER" \in Sources
    BY DEF Sources
  <2> QED
    BY <1>1, <1>2, <2>1, NewEntryKeeps DEF BooksInv
<1>4. Len(entry) \in Nat /\ Len(entry) + 1 \notin DOMAIN entry
  BY DayTypes DEF BooksInv, DayInv
<1>5. row \in Payment /\ row.supplier = s /\ row.amount = amount /\ ~row.voided /\ row.method = method /\ row.entry = Len(entry) + 1
  BY <1>2, <1>4 DEF Payment
<1> HIDE DEF row
<1>6. /\ payment' \in Seq(Payment) /\ DOMAIN payment = 1..n /\ n \in Nat /\ DOMAIN payment' = DOMAIN payment \cup {n + 1}
      /\ n + 1 \notin DOMAIN payment /\ payment'[n + 1] = row /\ \A p \in DOMAIN payment : payment'[p] = payment[p]
  BY <1>1, <1>2, <1>5
<1> HIDE DEF n
<1>7. Standing(s, payment') = P \cup {n + 1} /\ n + 1 \notin P
  BY <1>5, <1>6 DEF Standing
<1>8. \A t \in Suppliers : t # s => Standing(t, payment') = Standing(t, payment)
  BY <1>5, <1>6 DEF Standing
<1>9. PaidLater(s, payment') = amount + PaidLater(s, payment)
  <2>1. IsFiniteSet(P) /\ P \subseteq DOMAIN payment
    BY <1>2, PaymentsAre
  <2>2. \A p \in DOMAIN payment : AmountOf(payment)[p] \in Int /\ AmountOf(payment)[p] = payment[p].amount
    <3>1. \A p \in DOMAIN payment : AmountOf(payment)[p] \in Nat /\ AmountOf(payment)[p] = payment[p].amount
      BY <1>2, PaymentsAre
    <3> QED
      BY <3>1
  <2>3. \A p \in DOMAIN payment' : AmountOf(payment')[p] = payment'[p].amount
    BY DEF AmountOf
  <2>4. \A p \in P : AmountOf(payment)[p] \in Int /\ AmountOf(payment')[p] = AmountOf(payment)[p]
    BY <1>6, <2>1, <2>2, <2>3
  <2>5. AmountOf(payment')[n + 1] \in Int /\ AmountOf(payment')[n + 1] = amount
    BY <1>2, <1>5, <1>6, <2>3
  <2> HIDE DEF P
  <2>6. SumFunctionOnSet(AmountOf(payment'), Standing(s, payment')) = amount + SumFunctionOnSet(AmountOf(payment), P)
    BY <1>7, <2>1, <2>4, <2>5, SumAdded
  <2> QED
    BY <2>6 DEF PaidLater, P
<1>10. Account(s, supplier[s], bill, payment, khata[s])
  BY DEF BooksInv
<1>11. vouchers = SumFunctionOnSet(UnpaidOf(bill), BillsOf(s, bill)) - PaidLater(s, payment') /\ vouchers \in Int
  <2>1. khata[s] = SumFunctionOnSet(UnpaidOf(bill), BillsOf(s, bill)) - PaidLater(s, payment) /\ khata[s] \in Int
    BY <1>2, <1>10 DEF Account
  <2>2. SumFunctionOnSet(UnpaidOf(bill), BillsOf(s, bill)) \in Nat /\ PaidLater(s, payment) \in Nat
    BY <1>2, BillsAre, PaymentsAre
  <2> QED
    BY <1>2, <1>9, <2>1, <2>2
<1> HIDE DEF vouchers, P
<1>12. /\ bill' \in Seq(Invoice) /\ supplier' \in [Suppliers -> SupplierRow]
       /\ Account(s, supplier'[s], bill', payment', vouchers)
       /\ \A t \in Suppliers : t # s =>
            /\ supplier'[t] = supplier[t]
            /\ BillsOf(t, bill') = BillsOf(t, bill)
            /\ \A b \in BillsOf(t, bill) : bill'[b] = bill[b]
  BY <1>1, <1>2, <1>6, <1>11, Reconciled
<1>13. khata' \in [Suppliers -> Int] /\ khata'[s] = vouchers /\ \A t \in Suppliers : t # s => khata'[t] = khata[t]
  BY <1>1, <1>2, <1>11
<1>14. ASSUME NEW t \in Suppliers, t # s
       PROVE  Account(t, supplier'[t], bill', payment', khata'[t])
  <2>1. Account(t, supplier[t], bill, payment, khata[t]) /\ supplier[t] \in SupplierRow
    BY <1>2 DEF BooksInv
  <2>2. BillsOf(t, bill') = BillsOf(t, bill) /\ \A b \in BillsOf(t, bill) : bill'[b] = bill[b]
    BY <1>12, <1>14
  <2>3. Standing(t, payment') = Standing(t, payment) /\ \A p \in Standing(t, payment) : payment'[p].amount = payment[p].amount
    BY <1>6, <1>8, <1>14 DEF Standing
  <2>4. Account(t, supplier[t], bill', payment', khata[t])
    BY <1>2, <1>6, <1>12, <2>1, <2>2, <2>3, AccountSame
  <2> QED
    BY <1>12, <1>13, <1>14, <2>4
<1>15. BooksTypeOK'
  BY <1>3, <1>6, <1>12, <1>13 DEF BooksTypeOK, DayInv
<1>16. ASSUME NEW p \in DOMAIN payment'
       PROVE  HasEntry(p)'
  <2>1. CASE p \in DOMAIN payment
    <3>1. HasEntry(p) /\ payment'[p] = payment[p]
      BY <1>6, <2>1 DEF BooksInv
    <3>2. payment[p].entry \in DOMAIN entry /\ payment[p].entry \in DOMAIN entry'
      BY <1>3, <3>1 DEF HasEntry
    <3>3. entry'[payment[p].entry] = entry[payment[p].entry]
      BY <1>3, <3>2
    <3> QED
      BY <3>1, <3>2, <3>3 DEF HasEntry
  <2>2. CASE p = n + 1
    <3> DEFINE new == NewEntry(amount, method, "SUPPLIER", 0)
    <3>1. payment'[p] = row /\ row.entry \in DOMAIN entry' /\ entry'[row.entry] = new
      BY <1>3, <1>5, <1>6, <2>2
    <3>2. /\ new.source = "SUPPLIER" /\ new.taking = 0 /\ new.kept /\ new.amount = amount /\ new.method = method
          /\ ~new.voided /\ new.voided \in BOOLEAN /\ row.voided \in BOOLEAN
      BY <1>5 DEF NewEntry, Payment
    <3> HIDE DEF new
    <3> QED
      BY <1>5, <3>1, <3>2 DEF HasEntry
  <2> QED
    BY <1>6, <2>1, <2>2
<1>17. \A p, q \in DOMAIN payment' : payment'[p].entry = payment'[q].entry => p = q
  <2>1. \A p \in DOMAIN payment : payment'[p].entry = payment[p].entry /\ payment[p].entry # Len(entry) + 1
    BY <1>4, <1>6 DEF BooksInv, HasEntry
  <2>2. payment'[n + 1].entry = Len(entry) + 1
    BY <1>5, <1>6
  <2> QED
    BY <1>6, <2>1, <2>2 DEF BooksInv
<1> QED
  BY <1>3, <1>12, <1>13, <1>14, <1>15, <1>16, <1>17 DEF BooksInv

LEMMA VoidBooks ==
  ASSUME BooksInv, NEW n \in DOMAIN payment, VoidPayment(n)
  PROVE  BooksInv'
<1> DEFINE s == payment[n].supplier
           amount == payment[n].amount
           row == [payment[n] EXCEPT !.voided = TRUE]
           P == Standing(s, payment)
           vouchers == khata[s] + amount
<1>1. /\ ~payment[n].voided /\ payment' = [payment EXCEPT ![n] = row]
      /\ entry' = [entry EXCEPT ![payment[n].entry].voided = TRUE]
      /\ khata' = [khata EXCEPT ![s] = vouchers]
      /\ Reconcile(s, supplier[s], bill, payment') /\ UNCHANGED <<taking, correction>>
  BY DEF VoidPayment
<1>2. /\ supplier \in [Suppliers -> SupplierRow] /\ bill \in Seq(Invoice) /\ payment \in Seq(Payment)
      /\ khata \in [Suppliers -> Int]
  BY DEF BooksInv, BooksTypeOK
<1>3. payment[n] \in Payment /\ s \in Suppliers /\ amount \in Nat /\ HasEntry(n)
  <2>1. payment[n] \in Payment
    BY <1>2
  <2> QED
    BY <2>1, DaybookAssumption DEF Payment, BooksInv
<1>4. /\ row \in Payment /\ row.voided /\ row.supplier = s /\ row.amount = amount
      /\ row.entry = payment[n].entry /\ row.method = payment[n].method
  BY <1>3 DEF Payment
<1> HIDE DEF row
<1>5. /\ payment' \in Seq(Payment) /\ DOMAIN payment' = DOMAIN payment
      /\ payment'[n] = row /\ \A p \in DOMAIN payment : p # n => payment'[p] = payment[p]
  <2>1. payment' \in [DOMAIN payment -> Payment]
    BY <1>1, <1>2, <1>4
  <2> QED
    BY <1>1, <1>2, <2>1, InPlace
<1>6. /\ DayInv' /\ DOMAIN entry' = DOMAIN entry
      /\ \A e \in DOMAIN entry : e # payment[n].entry => entry'[e] = entry[e]
      /\ LET e == payment[n].entry
         IN /\ entry'[e].voided
            /\ entry'[e].taking = entry[e].taking /\ entry'[e].source = entry[e].source
            /\ entry'[e].kept = entry[e].kept /\ entry'[e].amount = entry[e].amount
            /\ entry'[e].method = entry[e].method
  <2>1. payment[n].entry \in DOMAIN entry
    BY <1>3 DEF HasEntry
  <2> QED
    BY <1>1, <2>1, VoidedKeeps DEF BooksInv
<1>7. n \in P /\ Standing(s, payment') = P \ {n}
  BY <1>1, <1>4, <1>5 DEF Standing
<1>8. \A t \in Suppliers : t # s => Standing(t, payment') = Standing(t, payment)
  BY <1>4, <1>5 DEF Standing
<1>9. \A p \in DOMAIN payment : payment'[p].amount = payment[p].amount
  BY <1>4, <1>5
<1>10. PaidLater(s, payment) = amount + PaidLater(s, payment')
  <2> DEFINE Q == P \ {n}
  <2>1. IsFiniteSet(P) /\ P \subseteq DOMAIN payment
    BY <1>2, PaymentsAre
  <2>2. \A p \in DOMAIN payment : AmountOf(payment)[p] \in Int /\ AmountOf(payment)[p] = payment[p].amount
    <3>1. \A p \in DOMAIN payment : AmountOf(payment)[p] \in Nat /\ AmountOf(payment)[p] = payment[p].amount
      BY <1>2, PaymentsAre
    <3> QED
      BY <3>1
  <2>3. \A p \in DOMAIN payment : AmountOf(payment')[p] = payment'[p].amount
    BY <1>5 DEF AmountOf
  <2>4. \A p \in Q : AmountOf(payment')[p] \in Int /\ AmountOf(payment)[p] = AmountOf(payment')[p]
    BY <1>9, <2>1, <2>2, <2>3
  <2>5. AmountOf(payment)[n] \in Int /\ AmountOf(payment)[n] = amount
    BY <2>2
  <2>6. IsFiniteSet(Q) /\ n \notin Q /\ P = Q \cup {n}
    BY <1>7, <2>1, FS_Subset
  <2> HIDE DEF P, Q, amount
  <2>7. SumFunctionOnSet(AmountOf(payment), P) = amount + SumFunctionOnSet(AmountOf(payment'), Q)
    BY <2>4, <2>5, <2>6, SumAdded
  <2> QED
    BY <1>7, <2>7 DEF PaidLater, P, Q
<1>11. Account(s, supplier[s], bill, payment, khata[s])
  BY <1>3 DEF BooksInv
<1>12. vouchers = SumFunctionOnSet(UnpaidOf(bill), BillsOf(s, bill)) - PaidLater(s, payment') /\ vouchers \in Int
  <2>1. khata[s] = SumFunctionOnSet(UnpaidOf(bill), BillsOf(s, bill)) - PaidLater(s, payment) /\ khata[s] \in Int
    BY <1>2, <1>3, <1>11 DEF Account
  <2>2. SumFunctionOnSet(UnpaidOf(bill), BillsOf(s, bill)) \in Nat /\ PaidLater(s, payment') \in Nat
    BY <1>2, <1>5, BillsAre, PaymentsAre
  <2> HIDE DEF amount, s
  <2> QED
    BY <1>3, <1>10, <2>1, <2>2
<1>13. supplier[s].known /\ supplier[s] \in SupplierRow
  BY <1>2, <1>3, <1>7, <1>11 DEF Account
<1> HIDE DEF vouchers, P, s, amount
<1>14. /\ bill' \in Seq(Invoice) /\ supplier' \in [Suppliers -> SupplierRow]
       /\ Account(s, supplier'[s], bill', payment', vouchers)
       /\ \A t \in Suppliers : t # s =>
            /\ supplier'[t] = supplier[t]
            /\ BillsOf(t, bill') = BillsOf(t, bill)
            /\ \A b \in BillsOf(t, bill) : bill'[b] = bill[b]
  BY <1>1, <1>2, <1>3, <1>5, <1>12, <1>13, Reconciled
<1>15. khata' \in [Suppliers -> Int] /\ khata'[s] = vouchers /\ \A t \in Suppliers : t # s => khata'[t] = khata[t]
  BY <1>1, <1>2, <1>3, <1>12
<1>16. ASSUME NEW t \in Suppliers, t # s
       PROVE  Account(t, supplier'[t], bill', payment', khata'[t])
  <2>1. Account(t, supplier[t], bill, payment, khata[t]) /\ supplier[t] \in SupplierRow
    BY <1>2 DEF BooksInv
  <2>2. BillsOf(t, bill') = BillsOf(t, bill) /\ \A b \in BillsOf(t, bill) : bill'[b] = bill[b]
    BY <1>14, <1>16
  <2>3. Standing(t, payment') = Standing(t, payment) /\ \A p \in Standing(t, payment) : payment'[p].amount = payment[p].amount
    BY <1>8, <1>9, <1>16 DEF Standing
  <2>4. Account(t, supplier[t], bill', payment', khata[t])
    BY <1>2, <1>5, <1>14, <2>1, <2>2, <2>3, AccountSame
  <2> QED
    BY <1>14, <1>15, <1>16, <2>4
<1>17. BooksTypeOK'
  BY <1>5, <1>6, <1>14, <1>15 DEF BooksTypeOK, DayInv
<1>18. \A p \in DOMAIN payment : payment'[p].entry = payment[p].entry /\ payment'[p].method = payment[p].method
  BY <1>4, <1>5
<1>19. ASSUME NEW p \in DOMAIN payment
       PROVE  HasEntry(p)'
  <2>1. HasEntry(p)
    BY DEF BooksInv
  <2>2. CASE p = n
    BY <1>4, <1>5, <1>6, <1>9, <1>18, <2>1, <2>2 DEF HasEntry
  <2>3. CASE p # n
    <3>1. payment[p].entry # payment[n].entry
      BY <2>3 DEF BooksInv
    <3> QED
      BY <1>5, <1>6, <2>1, <2>3, <3>1 DEF HasEntry
  <2> QED
    BY <2>2, <2>3
<1>20. \A p, q \in DOMAIN payment' : payment'[p].entry = payment'[q].entry => p = q
  BY <1>5, <1>18 DEF BooksInv
<1> QED
  BY <1>5, <1>6, <1>14, <1>15, <1>16, <1>17, <1>19, <1>20 DEF BooksInv

LEMMA CorrectBooks ==
  ASSUME BooksInv, NEW n, NEW expected, NEW m \in Methods, CorrectBooked(n, expected, m)
  PROVE  BooksInv'
<1> DEFINE row(p) == [payment[p] EXCEPT !.method = m]
<1>1. /\ CorrectEntry(n, expected, m) /\ UNCHANGED <<supplier, bill, khata>>
      /\ payment' = [p \in DOMAIN payment |-> IF payment[p].entry = n THEN row(p) ELSE payment[p]]
  BY DEF CorrectBooked
<1>2. /\ DayInv' /\ DOMAIN entry' = DOMAIN entry /\ n \in DOMAIN entry
      /\ \A e \in DOMAIN entry : e # n /\ entry[e].taking = 0 => entry'[e] = entry[e]
      /\ entry[n].taking = 0 =>
           /\ entry'[n].method = m /\ entry'[n].amount = entry[n].amount
           /\ entry'[n].source = entry[n].source /\ entry'[n].kept = entry[n].kept
           /\ entry'[n].voided = entry[n].voided /\ entry'[n].taking = 0
  BY <1>1, CorrectEntryKeeps DEF BooksInv
<1>3. /\ supplier \in [Suppliers -> SupplierRow] /\ bill \in Seq(Invoice) /\ payment \in Seq(Payment)
      /\ khata \in [Suppliers -> Int]
  BY DEF BooksInv, BooksTypeOK
<1>4. ASSUME NEW p \in DOMAIN payment
      PROVE  /\ row(p) \in Payment /\ row(p).method = m /\ row(p).supplier = payment[p].supplier
             /\ row(p).amount = payment[p].amount /\ row(p).entry = payment[p].entry
             /\ row(p).voided = payment[p].voided
  <2>1. payment[p] \in Payment
    BY <1>3
  <2> QED
    BY <2>1 DEF Payment
<1> HIDE DEF row
<1>5. payment' \in Seq(Payment) /\ DOMAIN payment' = DOMAIN payment
  <2>1. payment' \in [DOMAIN payment -> Payment]
    BY <1>1, <1>3, <1>4
  <2> QED
    BY <1>3, <2>1, InPlace
<1>6. \A p \in DOMAIN payment :
        /\ payment'[p].supplier = payment[p].supplier /\ payment'[p].amount = payment[p].amount
        /\ payment'[p].entry = payment[p].entry /\ payment'[p].voided = payment[p].voided
        /\ payment'[p].method = IF payment[p].entry = n THEN m ELSE payment[p].method
  BY <1>1, <1>4
<1>7. ASSUME NEW t \in Suppliers
      PROVE  Account(t, supplier[t], bill, payment', khata[t])
  <2>1. Account(t, supplier[t], bill, payment, khata[t]) /\ supplier[t] \in SupplierRow
    BY <1>3 DEF BooksInv
  <2>2. Standing(t, payment') = Standing(t, payment) /\ \A p \in Standing(t, payment) : payment'[p].amount = payment[p].amount
    BY <1>5, <1>6 DEF Standing
  <2> QED
    BY <1>3, <1>5, <2>1, <2>2, AccountSame
<1>8. BooksTypeOK'
  BY <1>1, <1>2, <1>3, <1>5 DEF BooksTypeOK, DayInv
<1>9. ASSUME NEW p \in DOMAIN payment
      PROVE  HasEntry(p)'
  <2>1. HasEntry(p)
    BY DEF BooksInv
  <2>2. CASE payment[p].entry = n
    BY <1>2, <1>6, <2>1, <2>2 DEF HasEntry
  <2>3. CASE payment[p].entry # n
    BY <1>2, <1>6, <2>1, <2>3 DEF HasEntry
  <2> QED
    BY <2>2, <2>3
<1>10. \A p, q \in DOMAIN payment' : payment'[p].entry = payment'[q].entry => p = q
  BY <1>5, <1>6 DEF BooksInv
<1> QED
  BY <1>1, <1>2, <1>5, <1>7, <1>8, <1>9, <1>10 DEF BooksInv

LEMMA NextBooks == BooksInv /\ [BooksNext]_booksVars => BooksInv'
<1> SUFFICES ASSUME BooksInv, [BooksNext]_booksVars PROVE BooksInv'
  OBVIOUS
<1>1. CASE UNCHANGED booksVars
  <2>1. UNCHANGED <<supplier, bill, payment, khata>> /\ UNCHANGED dayVars
    BY <1>1 DEF booksVars
  <2>2. DayInv' /\ entry' = entry
    BY <2>1, SameDay DEF BooksInv, dayVars
  <2>3. BooksTypeOK'
    BY <2>1, <2>2 DEF BooksInv, BooksTypeOK, DayInv
  <2>4. \A p \in DOMAIN payment : HasEntry(p)'
    BY <2>1, <2>2 DEF BooksInv, HasEntry
  <2> QED
    BY <2>1, <2>2, <2>3, <2>4 DEF BooksInv
<1>2. CASE Step
  <2>1. CASE Day
    BY <2>1, DayBooks
  <2>2. ASSUME NEW s \in Suppliers, NEW opening \in Openings, Register(s, opening)
        PROVE  BooksInv'
    BY <2>2, RegisterBooks
  <2>3. ASSUME NEW s \in Suppliers, NEW date \in Dates, NEW total \in Rupees, NEW initial \in Rupees \cup {0},
               Purchase(s, date, total, initial)
        PROVE  BooksInv'
    BY <2>3, PurchaseBooks
  <2>4. ASSUME NEW s \in Suppliers, NEW amount \in Rupees, NEW method \in PurchaseMethods,
               Pay(s, amount, method, supplier[s].balance)
        PROVE  BooksInv'
    BY <2>4, PayBooks
  <2>5. ASSUME NEW p \in DOMAIN payment, VoidPayment(p)
        PROVE  BooksInv'
    BY <2>5, VoidBooks
  <2>6. ASSUME NEW e \in DOMAIN entry, NEW expected \in Methods, NEW new \in Methods, CorrectBooked(e, expected, new)
        PROVE  BooksInv'
    BY <2>6, CorrectBooks
  <2> QED
    BY <1>2, <2>1, <2>2, <2>3, <2>4, <2>5, <2>6 DEF Step
<1> QED
  BY <1>1, <1>2 DEF BooksNext

\* The invariant of the books holds always.
LEMMA AlwaysBooks == BooksSpec => []BooksInv
BY InitBooks, NextBooks, PTL DEF BooksSpec

\* AccountsAgree of one supplier: what bills are due adds up to what the account owes.
LEMMA AccountIs ==
  ASSUME BooksInv, NEW s \in Suppliers
  PROVE  LET unpaid == SumFunctionOnSet(UnpaidOf(bill), BillsOf(s, bill))
             overpaid == SumFunctionOnSet(OverpaidOf(bill), BillsOf(s, bill))
         IN /\ Due(s) = Least(unpaid, AtLeast0(supplier[s].balance))
            /\ \A b \in BillsOf(s, bill) : bill[b].paid \in PaidAtOnce(bill[b])..bill[b].total
            /\ supplier[s].balance = supplier[s].opening + khata[s] - overpaid
<1> DEFINE B == BillsOf(s, bill)
           unpaid == SumFunctionOnSet(UnpaidOf(bill), B)
           overpaid == SumFunctionOnSet(OverpaidOf(bill), B)
           later == PaidLater(s, payment)
           opening == supplier[s].opening
           pool == Pool(s, opening, bill, payment)
           alloc == [b \in DOMAIN bill |-> Allocated(b, pool, bill)]
           due == [b \in DOMAIN bill |-> bill[b].total - bill[b].paid]
<1>1. supplier[s] \in SupplierRow /\ bill \in Seq(Invoice) /\ payment \in Seq(Payment) /\ Account(s, supplier[s], bill, payment, khata[s])
  BY DEF BooksInv, BooksTypeOK
<1>2. opening \in Int
  BY <1>1, SuppliersAssumption DEF SupplierRow
<1>3. /\ IsFiniteSet(B) /\ B \subseteq DOMAIN bill /\ unpaid \in Nat /\ overpaid \in Nat /\ later \in Nat /\ pool \in Nat
  BY <1>1, <1>2, BillsAre, PaymentsAre, PoolIs
<1>4. pool = AtLeast0(later - opening + overpaid)
  BY DEF Pool
<1>5. /\ \A b \in B : bill[b].paid = PaidAtOnce(bill[b]) + Allocated(b, pool, bill)
      /\ supplier[s].balance = opening + unpaid - overpaid - later
      /\ khata[s] = unpaid - later
  BY <1>1 DEF Account
<1>6. SumFunctionOnSet(alloc, B) = Least(pool, unpaid)
  <2>1. \A b \in DOMAIN bill : alloc[b] = Allocated(b, pool, bill)
    OBVIOUS
  <2> HIDE DEF alloc, pool
  <2> QED
    BY <1>1, <1>3, <2>1, PoolSpent
<1>7. ASSUME NEW b \in B
      PROVE  /\ UnpaidOf(bill)[b] \in Int /\ alloc[b] \in Int /\ due[b] \in Int
             /\ UnpaidOf(bill)[b] = alloc[b] + due[b]
             /\ bill[b].paid \in PaidAtOnce(bill[b])..bill[b].total
  <2>1. b \in DOMAIN bill /\ bill[b] \in Invoice
    BY <1>1, <1>3, BillsAre
  <2>2. /\ bill[b].total \in Nat /\ bill[b].paid \in Nat /\ PaidAtOnce(bill[b]) \in Nat /\ Unpaid(bill[b]) \in Nat
        /\ PaidAtOnce(bill[b]) + Unpaid(bill[b]) = bill[b].total
    BY <2>1, BillIs
  <2>3. UnpaidOf(bill)[b] = Unpaid(bill[b])
    BY <1>1, <2>1, BillsAre
  <2>4. alloc[b] = Allocated(b, pool, bill) /\ due[b] = bill[b].total - bill[b].paid
    BY <2>1
  <2>5. Allocated(b, pool, bill) \in Nat /\ Allocated(b, pool, bill) <= Unpaid(bill[b])
    <3> DEFINE earlier == SumFunctionOnSet(UnpaidOf(bill), Earlier(b, bill))
    <3>1. earlier \in Nat /\ Allocated(b, pool, bill) = Least(AtLeast0(pool - earlier), Unpaid(bill[b]))
          /\ Allocated(b, pool, bill) \in Nat
      BY <1>1, <1>3, <2>1, AllocatedIs
    <3> HIDE DEF earlier, pool
    <3> QED
      BY <1>3, <2>2, <3>1 DEF Least, AtLeast0
  <2>6. bill[b].paid = PaidAtOnce(bill[b]) + Allocated(b, pool, bill)
    BY <1>5
  <2> HIDE DEF alloc, due, pool
  <2> QED
    BY <2>2, <2>3, <2>4, <2>5, <2>6
<1>8. Due(s) = SumFunctionOnSet(due, B) /\ SumFunctionOnSet(due, B) \in Int
  <2>1. \A b \in B : due[b] \in Int
    BY <1>7
  <2>2. Due(s) = SumFunctionOnSet(due, B)
    BY DEF Due
  <2> HIDE DEF due, B
  <2> QED
    BY <1>3, <2>1, <2>2, SumInt
<1>9. unpaid = SumFunctionOnSet(alloc, B) + SumFunctionOnSet(due, B)
  <2>1. \A b \in B : alloc[b] \in Int /\ due[b] \in Int /\ UnpaidOf(bill)[b] = alloc[b] + due[b]
    BY <1>7
  <2> HIDE DEF due, alloc, B
  <2> QED
    BY <1>3, <2>1, SumPlus
<1>10. \A b \in B : bill[b].paid \in PaidAtOnce(bill[b])..bill[b].total
  BY <1>7
<1> HIDE DEF unpaid, overpaid, later, opening, pool, due, alloc, B
<1>11. Due(s) = Least(unpaid, AtLeast0(supplier[s].balance))
  BY <1>2, <1>3, <1>4, <1>5, <1>6, <1>8, <1>9 DEF Least, AtLeast0
<1>12. supplier[s].balance = opening + khata[s] - overpaid
  BY <1>2, <1>3, <1>5
<1> QED
  BY <1>10, <1>11, <1>12 DEF unpaid, overpaid, opening, B

\* The supplier's account, its bills, its vouchers and the daybook tell the same story after any
\* order of bills, payments, reversals, imports, corrections and deletions, and the corrections
\* of a payment explain its method (reconcile_supplier, supplier_mutate, correct_method).
THEOREM BooksAlwaysAgree == BooksSpec => []BooksAgree
<1>1. BooksInv => BooksAgree
  <2> SUFFICES ASSUME BooksInv PROVE BooksAgree
    OBVIOUS
  <2>1. AccountsAgree
    BY AccountIs DEF AccountsAgree
  <2>2. DaybookAgrees
    BY DEF BooksInv, DayInv, DaybookAgrees, HasEntry
  <2>3. CorrectionsExplainMethod
    BY DEF BooksInv, DayInv
  <2> QED
    BY <2>1, <2>2, <2>3 DEF BooksAgree
<1> QED
  BY <1>1, AlwaysBooks, PTL

\* No bill receives anything from later payments before an older bill of the supplier is paid
\* in full, whatever order the bills were entered in.
THEOREM OldestAlwaysFirst == BooksSpec => []OldestPaidFirst
<1>1. BooksInv => OldestPaidFirst
  <2> SUFFICES ASSUME BooksInv, NEW a \in DOMAIN bill, NEW b \in DOMAIN bill,
                      bill[a].supplier = bill[b].supplier, Before(a, b, bill), bill[b].paid > PaidAtOnce(bill[b])
               PROVE  bill[a].paid = bill[a].total
    BY DEF OldestPaidFirst
  <2> DEFINE s == bill[b].supplier
             pool == Pool(s, supplier[s].opening, bill, payment)
             B == BillsOf(s, bill)
             un == UnpaidOf(bill)
             Ea == Earlier(a, bill)
             Eb == Earlier(b, bill)
  <2>1. bill \in Seq(Invoice) /\ payment \in Seq(Payment) /\ supplier \in [Suppliers -> SupplierRow]
    BY DEF BooksInv, BooksTypeOK
  <2>2. /\ bill[a] \in Invoice /\ bill[b] \in Invoice /\ s \in Suppliers /\ a \in B /\ b \in B
        /\ \A x \in DOMAIN bill : bill[x].date \in Nat /\ x \in Nat
    BY <2>1, BillsAre, BillIs DEF BillsOf
  <2>3. pool \in Nat
    <3>1. supplier[s].opening \in Int
      BY <2>1, <2>2, SuppliersAssumption DEF SupplierRow
    <3> QED
      BY <2>1, <3>1, PoolIs
  <2>4. bill[a].paid = PaidAtOnce(bill[a]) + Allocated(a, pool, bill) /\ bill[b].paid = PaidAtOnce(bill[b]) + Allocated(b, pool, bill)
    BY <2>2 DEF BooksInv, Account
  <2> HIDE DEF pool
  <2>5. /\ Ea \subseteq B /\ Eb \subseteq B /\ IsFiniteSet(Ea) /\ IsFiniteSet(Eb)
        /\ SumFunctionOnSet(un, Ea) \in Nat /\ SumFunctionOnSet(un, Eb) \in Nat
        /\ Allocated(a, pool, bill) = Least(AtLeast0(pool - SumFunctionOnSet(un, Ea)), Unpaid(bill[a]))
        /\ Allocated(b, pool, bill) = Least(AtLeast0(pool - SumFunctionOnSet(un, Eb)), Unpaid(bill[b]))
        /\ Allocated(b, pool, bill) \in Nat
    BY <2>1, <2>3, AllocatedIs
  <2>6. B \subseteq DOMAIN bill /\ \A x \in B : un[x] \in Nat /\ un[x] = Unpaid(bill[x])
    BY <2>1, BillsAre
  <2>7. a \in Eb /\ Ea \subseteq Eb \ {a}
    BY <2>2, <2>6 DEF Earlier, Before
  <2>8. SumFunctionOnSet(un, Eb) = un[a] + SumFunctionOnSet(un, Eb \ {a})
    <3>1. \A x \in Eb : un[x] \in Int
      BY <2>5, <2>6
    <3> QED
      BY <2>5, <2>7, <3>1, SumStep
  <2>9. SumFunctionOnSet(un, Ea) <= SumFunctionOnSet(un, Eb \ {a}) /\ SumFunctionOnSet(un, Eb \ {a}) \in Nat
    <3>1. IsFiniteSet(Eb \ {a}) /\ Ea \in SUBSET (Eb \ {a})
      BY <2>5, <2>7, FS_Subset
    <3>2. \A x \in Eb \ {a} : un[x] \in Nat
      BY <2>5, <2>6
    <3> QED
      BY <3>1, <3>2, SumGrows, SumNat
  <2>10. /\ PaidAtOnce(bill[a]) \in Nat /\ Unpaid(bill[a]) \in Nat /\ PaidAtOnce(bill[a]) + Unpaid(bill[a]) = bill[a].total
         /\ PaidAtOnce(bill[b]) \in Nat /\ Unpaid(bill[b]) \in Nat
    BY <2>2, BillIs
  <2>11. un[a] = Unpaid(bill[a])
    BY <2>2, <2>6
  <2> HIDE DEF s, B, un, Ea, Eb
  <2> QED
    BY <2>3, <2>4, <2>5, <2>8, <2>9, <2>10, <2>11 DEF Least, AtLeast0
<1> QED
  BY <1>1, AlwaysBooks, PTL
=============================================================================
