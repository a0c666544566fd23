-------------------------- MODULE Settlement_proofs --------------------------
(***************************************************************************)
(* The money invariants of Settlement, for any number of orders, any       *)
(* prices, payment methods, rewards, service rate and cash unit; and the   *)
(* invariants of Menu, for any products, combos, deals, overrides, changes *)
(* and screens.                                                            *)
(***************************************************************************)
EXTENDS Settlement, Menu, FiniteSetTheorems, WellFoundedInduction, TLAPS

-----------------------------------------------------------------------------
(* Sums.                                                                   *)

LEMMA LeastExists ==
  ASSUME NEW S, S \subseteq Nat, S # {}
  PROVE  \E x \in S : \A y \in S : x =< y
<1>1. \E x \in S : \A y \in S : ~ (<<y, x>> \in OpToRel(<, Nat))
  BY NatLessThanWellFounded, WFMin
<1>2. \A x, y \in Nat : <<y, x>> \in OpToRel(<, Nat) <=> y < x
  BY DEF OpToRel
<1>3. PICK x \in S : \A y \in S : ~ (y < x)
  BY <1>1, <1>2, Zenon
<1> QED
  BY <1>3

Some(T) == CHOOSE x \in T : TRUE

\* One member taken out of a finite set.
LEMMA TakeOut ==
  ASSUME NEW S, IsFiniteSet(S), NEW T \in SUBSET S, T # {}
  PROVE  /\ Some(T) \in T /\ T \ {Some(T)} \in SUBSET S
         /\ Cardinality(T) \in Nat /\ Cardinality(T \ {Some(T)}) \in Nat
         /\ Cardinality(T \ {Some(T)}) = Cardinality(T) - 1
<1>1. Some(T) \in T
  BY DEF Some
<1>2. IsFiniteSet(T)
  BY FS_Subset
<1> QED
  BY <1>1, <1>2, FS_RemoveElement, FS_CardinalityType

\* What the recursive function behind SumFunctionOnSet computes on the sets in Ts.
Adds(f, Ts, g) ==
  g = [T \in Ts |-> IF T = {} THEN 0 ELSE f[Some(T)] + g[T \ {Some(T)}]]

LEMMA SumIs ==
  ASSUME NEW f, NEW S
  PROVE  SumFunctionOnSet(f, S) = (CHOOSE g : Adds(f, SUBSET S, g))[S]
BY DEF SumFunctionOnSet, FoldFunctionOnSet, MapThenFoldSet, Adds, Some

\* There is such a function, by induction on the size of the sets.
LEMMA SumExists ==
  ASSUME NEW f, NEW S, IsFiniteSet(S)
  PROVE  \E g : Adds(f, SUBSET S, g)
<1> DEFINE Upto(n) == {T \in SUBSET S : Cardinality(T) <= n}
           Bad == {n \in Nat : ~ \E g : Adds(f, Upto(n), g)}
<1>1. Bad = {}
  <2> SUFFICES ASSUME Bad # {} PROVE FALSE
    OBVIOUS
  <2>1. PICK n \in Bad : \A m \in Bad : n <= m
    BY LeastExists
  <2>2. n # 0
    <3> DEFINE g == [T \in Upto(0) |-> 0]
    <3>1. \A T \in Upto(0) : T = {}
      <4> TAKE T \in Upto(0)
      <4>1. IsFiniteSet(T) /\ Cardinality(T) <= 0
        BY FS_Subset
      <4> QED
        BY <4>1, FS_EmptySet, FS_CardinalityType
    <3>2. g = [T \in Upto(0) |-> IF T = {} THEN 0 ELSE f[Some(T)] + g[T \ {Some(T)}]]
      BY <3>1, Zenon
    <3> HIDE DEF g
    <3>3. Adds(f, Upto(0), g)
      BY <3>2 DEF Adds
    <3>4. 0 \notin Bad
      BY <3>3
    <3> QED
      BY <3>4
  <2>3. n - 1 \in Nat /\ n - 1 \notin Bad
    <3>1. n \in Nat
      OBVIOUS
    <3> HIDE DEF Bad
    <3> QED
      BY <2>1, <2>2, <3>1
  <2>4. PICK h : Adds(f, Upto(n - 1), h)
    BY <2>3
  <2> DEFINE g == [T \in Upto(n) |-> IF T = {} THEN 0 ELSE f[Some(T)] + h[T \ {Some(T)}]]
  <2>5. \A T \in Upto(n - 1) : T \in Upto(n) /\ g[T] = h[T]
    <3> TAKE T \in Upto(n - 1)
    <3>1. Cardinality(T) \in Nat
      BY FS_Subset, FS_CardinalityType
    <3>2. T \in Upto(n)
      BY <2>1, <3>1
    <3>3. h = [U \in Upto(n - 1) |-> IF U = {} THEN 0 ELSE f[Some(U)] + h[U \ {Some(U)}]]
      BY <2>4 DEF Adds
    <3>4. h[T] = IF T = {} THEN 0 ELSE f[Some(T)] + h[T \ {Some(T)}]
      <4> HIDE DEF Upto
      <4> QED
        BY <3>3, Zenon
    <3>5. g[T] = IF T = {} THEN 0 ELSE f[Some(T)] + h[T \ {Some(T)}]
      <4> HIDE DEF Upto
      <4> QED
        BY <3>2, Zenon
    <3> QED
      BY <3>2, <3>4, <3>5
  <2>6. \A T \in Upto(n) : T # {} => T \ {Some(T)} \in Upto(n - 1)
    BY <2>1, TakeOut
  <2> DEFINE k == [T \in Upto(n) |-> IF T = {} THEN 0 ELSE f[Some(T)] + g[T \ {Some(T)}]]
  <2>7. \A T \in Upto(n) : g[T] = k[T]
    <3> TAKE T \in Upto(n)
    <3>1. T # {} => g[T \ {Some(T)}] = h[T \ {Some(T)}]
      BY <2>5, <2>6
    <3>2. g[T] = IF T = {} THEN 0 ELSE f[Some(T)] + h[T \ {Some(T)}]
      <4> HIDE DEF Upto
      <4> QED
        BY Zenon
    <3>3. k[T] = IF T = {} THEN 0 ELSE f[Some(T)] + g[T \ {Some(T)}]
      <4> HIDE DEF Upto, g
      <4> QED
        BY Zenon
    <3> HIDE DEF g, k, Upto
    <3> QED
      BY <3>1, <3>2, <3>3
  <2>8. g = k
    <3>1. g = [T \in Upto(n) |-> g[T]] /\ k = [T \in Upto(n) |-> k[T]]
      <4> HIDE DEF Upto
      <4> QED
        OBVIOUS
    <3> HIDE DEF g, k, Upto
    <3> QED
      BY <2>7, <3>1
  <2>9. Adds(f, Upto(n), g)
    <3> HIDE DEF g
    <3> QED
      BY <2>8 DEF Adds
  <2> QED
    BY <2>1, <2>9
<1>2. Cardinality(S) \in Nat /\ \A T \in SUBSET S : Cardinality(T) <= Cardinality(S)
  BY FS_Subset, FS_CardinalityType
<1>3. Upto(Cardinality(S)) = SUBSET S
  BY <1>2
<1>4. Cardinality(S) \notin Bad
  BY <1>1
<1> QED
  BY <1>2, <1>3, <1>4

\* And only one, whichever larger set of sets it is defined on.
LEMMA SumUnique ==
  ASSUME NEW f, NEW S, IsFiniteSet(S), NEW U \in SUBSET S, NEW g, NEW h,
         Adds(f, SUBSET S, g), Adds(f, SUBSET U, h)
  PROVE  g[U] = h[U]
<1> DEFINE Bad == {n \in Nat : \E T \in SUBSET U : Cardinality(T) = n /\ g[T] # h[T]}
<1>1. IsFiniteSet(U) /\ SUBSET U \subseteq SUBSET S
  BY FS_Subset
<1>2. Bad = {}
  <2> SUFFICES ASSUME Bad # {} PROVE FALSE
    OBVIOUS
  <2>1. PICK n \in Bad : \A m \in Bad : n <= m
    BY LeastExists
  <2>2. PICK T \in SUBSET U : Cardinality(T) = n /\ g[T] # h[T]
    OBVIOUS
  <2>3. /\ g[T] = IF T = {} THEN 0 ELSE f[Some(T)] + g[T \ {Some(T)}]
        /\ h[T] = IF T = {} THEN 0 ELSE f[Some(T)] + h[T \ {Some(T)}]
    <3>1. T \in SUBSET S /\ T \in SUBSET U
      BY <1>1
    <3>2. g = [X \in SUBSET S |-> IF X = {} THEN 0 ELSE f[Some(X)] + g[X \ {Some(X)}]]
      BY DEF Adds
    <3>3. h = [X \in SUBSET U |-> IF X = {} THEN 0 ELSE f[Some(X)] + h[X \ {Some(X)}]]
      BY DEF Adds
    <3> QED
      BY <3>1, <3>2, <3>3, Zenon
  <2>4. T # {}
    BY <2>2, <2>3
  <2>5. T \ {Some(T)} \in SUBSET U /\ Cardinality(T \ {Some(T)}) \in Nat /\ Cardinality(T \ {Some(T)}) = n - 1
    BY <1>1, <2>2, <2>4, TakeOut
  <2>6. n \in Nat
    OBVIOUS
  <2>7. n - 1 \notin Bad
    <3> HIDE DEF Bad
    <3> QED
      BY <2>1, <2>5, <2>6
  <2>8. g[T \ {Some(T)}] = h[T \ {Some(T)}]
    BY <2>5, <2>7
  <2> QED
    BY <2>2, <2>3, <2>8
<1>3. Cardinality(U) \in Nat
  BY <1>1, FS_CardinalityType
<1> QED
  BY <1>2, <1>3

\* A sum is an integer and is added up one element at a time: first the one the
\* definition chooses,
LEMMA SumFirst ==
  ASSUME NEW f, NEW S, IsFiniteSet(S)
  PROVE  SumFunctionOnSet(f, S) =
           IF S = {} THEN 0 ELSE f[Some(S)] + SumFunctionOnSet(f, S \ {Some(S)})
<1> DEFINE U == S \ {Some(S)}
           g == CHOOSE x : Adds(f, SUBSET S, x)
           h == CHOOSE x : Adds(f, SUBSET U, x)
<1>1. IsFiniteSet(U) /\ U \in SUBSET S
  BY FS_Subset
<1>2. Adds(f, SUBSET S, g)
  BY SumExists
<1>3. Adds(f, SUBSET U, h)
  BY <1>1, SumExists
<1> HIDE DEF g, h
<1>4. g[U] = h[U]
  BY <1>1, <1>2, <1>3, SumUnique
<1>5. SumFunctionOnSet(f, S) = g[S] /\ SumFunctionOnSet(f, U) = h[U]
  BY SumIs DEF g, h
<1>6. g[S] = IF S = {} THEN 0 ELSE f[Some(S)] + g[U]
  <2>1. g = [X \in SUBSET S |-> IF X = {} THEN 0 ELSE f[Some(X)] + g[X \ {Some(X)}]]
    BY <1>2 DEF Adds
  <2>2. S \in SUBSET S
    OBVIOUS
  <2> QED
    BY <2>1, <2>2, Zenon
<1> QED
  BY <1>4, <1>5, <1>6

LEMMA SumInt ==
  ASSUME NEW D, NEW f \in [D -> Int], NEW S \in SUBSET D, IsFiniteSet(S)
  PROVE  SumFunctionOnSet(f, S) \in Int
<1> DEFINE Bad == {n \in Nat : \E T \in SUBSET S : Cardinality(T) = n /\ SumFunctionOnSet(f, T) \notin Int}
<1>1. Bad = {}
  <2> SUFFICES ASSUME Bad # {} PROVE FALSE
    OBVIOUS
  <2>1. PICK n \in Bad : \A m \in Bad : n <= m
    BY LeastExists
  <2>2. PICK T \in SUBSET S : Cardinality(T) = n /\ SumFunctionOnSet(f, T) \notin Int
    OBVIOUS
  <2>3. SumFunctionOnSet(f, T) = IF T = {} THEN 0 ELSE f[Some(T)] + SumFunctionOnSet(f, T \ {Some(T)})
    BY SumFirst, FS_Subset
  <2>4. T # {}
    BY <2>2, <2>3
  <2>5. /\ T \ {Some(T)} \in SUBSET S /\ Some(T) \in D
        /\ Cardinality(T \ {Some(T)}) \in Nat /\ Cardinality(T \ {Some(T)}) = n - 1
    BY <2>2, <2>4, TakeOut
  <2>6. n \in Nat
    OBVIOUS
  <2>7. n - 1 \notin Bad
    <3> HIDE DEF Bad
    <3> QED
      BY <2>1, <2>5, <2>6
  <2>8. SumFunctionOnSet(f, T \ {Some(T)}) \in Int
    BY <2>5, <2>7
  <2> QED
    BY <2>2, <2>3, <2>4, <2>5, <2>8
<1>2. Cardinality(S) \in Nat
  BY FS_CardinalityType
<1> QED
  BY <1>1, <1>2

\* then any.
LEMMA SumStep ==
  ASSUME NEW D, NEW f \in [D -> Int], NEW S \in SUBSET D, IsFiniteSet(S), NEW x \in S
  PROVE  SumFunctionOnSet(f, S) = f[x] + SumFunctionOnSet(f, S \ {x})
<1> DEFINE Sum(T) == SumFunctionOnSet(f, T)
           Bad == {n \in Nat : \E T \in SUBSET S : \E y \in T :
                     Cardinality(T) = n /\ Sum(T) # f[y] + Sum(T \ {y})}
<1>0. \A T \in SUBSET S : IsFiniteSet(T) /\ T \in SUBSET D /\ Sum(T) \in Int
  BY SumInt, FS_Subset
<1>1. Bad = {}
  <2> SUFFICES ASSUME Bad # {} PROVE FALSE
    OBVIOUS
  <2>1. PICK n \in Bad : \A m \in Bad : n <= m
    BY LeastExists
  <2>2. PICK T \in SUBSET S : \E y \in T : Cardinality(T) = n /\ Sum(T) # f[y] + Sum(T \ {y})
    OBVIOUS
  <2>3. PICK y \in T : Cardinality(T) = n /\ Sum(T) # f[y] + Sum(T \ {y})
    BY <2>2
  <2> DEFINE c == Some(T)
             A == T \ {c}
             B == T \ {y}
             C == (T \ {c}) \ {y}
  <2>4. /\ c \in T /\ A \in SUBSET S /\ B \in SUBSET S /\ C \in SUBSET S
        /\ Cardinality(A) \in Nat /\ Cardinality(A) = n - 1
        /\ Cardinality(B) \in Nat /\ Cardinality(B) = n - 1
    BY <1>0, <2>3, TakeOut, FS_RemoveElement, FS_CardinalityType
  <2>5. Sum(T) = f[c] + Sum(A)
    BY <1>0, SumFirst
  <2>6. c # y
    BY <2>3, <2>5
  <2>7. n \in Nat /\ n - 1 \in Nat
    BY <2>4
  <2>8. n - 1 \notin Bad
    <3> HIDE DEF Bad
    <3> QED
      BY <2>1, <2>7
  <2> HIDE DEF Sum
  <2>9. Sum(A) = f[y] + Sum(A \ {y})
    BY <2>4, <2>6, <2>7, <2>8
  <2>10. Sum(B) = f[c] + Sum(B \ {c})
    BY <2>4, <2>6, <2>7, <2>8
  <2>11. A \ {y} = C /\ B \ {c} = C
    OBVIOUS
  <2>12. f[c] \in Int /\ f[y] \in Int /\ Sum(C) \in Int
    BY <1>0, <2>4
  <2>13. Sum(T) # f[y] + Sum(B) /\ Sum(A) = f[y] + Sum(C) /\ Sum(B) = f[c] + Sum(C)
    BY <2>3, <2>9, <2>10, <2>11
  <2> HIDE DEF c, A, B, C
  <2> DEFINE a == f[c] b == f[y] d == Sum(C)
  <2>14. a \in Int /\ b \in Int /\ d \in Int
    BY <2>12
  <2>15. Sum(T) # b + (a + d) /\ Sum(T) = a + (b + d)
    BY <2>5, <2>13
  <2> HIDE DEF a, b, d
  <2> QED
    BY <2>14, <2>15
<1>2. Cardinality(S) \in Nat /\ S \in SUBSET S
  BY FS_CardinalityType
<1> QED
  BY <1>1, <1>2

LEMMA SumEmpty ==
  ASSUME NEW f
  PROVE  SumFunctionOnSet(f, {}) = 0
BY SumFirst, FS_EmptySet

LEMMA SumTo ==
  ASSUME NEW N \in Nat, NEW f \in [1..N -> Int], NEW n \in 1..N
  PROVE  SumFunctionOnSet(f, 1..n) = f[n] + SumFunctionOnSet(f, 1..(n - 1))
<1> DEFINE D == 1..N
           S == 1..n
<1>1. S \in SUBSET D /\ n \in S /\ S \ {n} = 1..(n - 1)
  OBVIOUS
<1>2. IsFiniteSet(S)
  BY FS_Interval
<1>3. f \in [D -> Int]
  OBVIOUS
<1> HIDE DEF D, S
<1>4. SumFunctionOnSet(f, S) = f[n] + SumFunctionOnSet(f, S \ {n})
  BY <1>1, <1>2, <1>3, SumStep
<1> QED
  BY <1>1, <1>4 DEF S

\* The sum of two functions.
LEMMA SumPlus ==
  ASSUME NEW S, IsFiniteSet(S), NEW f \in [S -> Int], NEW g \in [S -> Int], NEW h \in [S -> Int],
         \A x \in S : h[x] = f[x] + g[x]
  PROVE  SumFunctionOnSet(h, S) = SumFunctionOnSet(f, S) + SumFunctionOnSet(g, S)
<1> DEFINE F(T) == SumFunctionOnSet(f, T)
           G(T) == SumFunctionOnSet(g, T)
           H(T) == SumFunctionOnSet(h, T)
           Bad == {n \in Nat : \E T \in SUBSET S : Cardinality(T) = n /\ H(T) # F(T) + G(T)}
<1>0. \A T \in SUBSET S : IsFiniteSet(T) /\ F(T) \in Int /\ G(T) \in Int /\ H(T) \in Int
  BY SumInt, FS_Subset
<1>1. Bad = {}
  <2> SUFFICES ASSUME Bad # {} PROVE FALSE
    OBVIOUS
  <2>1. PICK n \in Bad : \A m \in Bad : n <= m
    BY LeastExists
  <2>2. PICK T \in SUBSET S : Cardinality(T) = n /\ H(T) # F(T) + G(T)
    OBVIOUS
  <2>3. T # {}
    BY <2>2, SumEmpty
  <2> DEFINE x == Some(T)
             U == T \ {x}
  <2>4. x \in T /\ U \in SUBSET S /\ Cardinality(U) \in Nat /\ Cardinality(U) = n - 1
    BY <2>2, <2>3, TakeOut
  <2>5. F(T) = f[x] + F(U) /\ G(T) = g[x] + G(U) /\ H(T) = h[x] + H(U)
    BY <1>0, <2>3, SumFirst
  <2>6. n \in Nat
    OBVIOUS
  <2>7. n - 1 \notin Bad
    <3> HIDE DEF Bad
    <3> QED
      BY <2>1, <2>4, <2>6
  <2>8. H(U) = F(U) + G(U)
    BY <2>4, <2>7
  <2> HIDE DEF x, U, F, G, H
  <2>9. f[x] \in Int /\ g[x] \in Int /\ h[x] = f[x] + g[x] /\ F(U) \in Int /\ G(U) \in Int
    BY <1>0, <2>4
  <2> QED
    BY <2>2, <2>5, <2>8, <2>9
<1>2. Cardinality(S) \in Nat /\ S \in SUBSET S
  BY FS_CardinalityType
<1> QED
  BY <1>1, <1>2

-----------------------------------------------------------------------------
(* A payment handed out oldest first.                                      *)

\* What is handed out to the first n is the payment, as far as they have room.
LEMMA Spread ==
  ASSUME NEW N \in Nat, NEW limit \in [1..N -> Nat], NEW amount \in Nat, NEW part \in [1..N -> Int],
         \A o \in 1..N : part[o] =
           AtMost(limit[o], AtLeast(amount - SumFunctionOnSet(limit, {p \in 1..N : p < o}), 0)),
         amount <= SumFunctionOnSet(limit, 1..N)
  PROVE  SumFunctionOnSet(part, 1..N) = amount
<1> DEFINE Room(n) == SumFunctionOnSet(limit, 1..n)
           Given(n) == SumFunctionOnSet(part, 1..n)
           Bad == {n \in Nat : n <= N /\ Given(n) # AtMost(amount, Room(n))}
<1>0. \A n \in Nat : n <= N => IsFiniteSet(1..n) /\ Room(n) \in Int /\ Given(n) \in Int
  <2> TAKE n \in Nat
  <2>1. IsFiniteSet(1..n)
    BY FS_Interval
  <2> SUFFICES ASSUME n <= N PROVE Room(n) \in Int /\ Given(n) \in Int
    BY <2>1
  <2>2. 1..n \in SUBSET (1..N) /\ limit \in [1..N -> Int]
    OBVIOUS
  <2> QED
    BY <2>1, <2>2, SumInt
<1>3. \A n \in 1..N : Given(n) = part[n] + Given(n - 1) /\ Room(n) = limit[n] + Room(n - 1)
  <2> TAKE n \in 1..N
  <2>1. limit \in [1..N -> Int]
    OBVIOUS
  <2>2. SumFunctionOnSet(part, 1..n) = part[n] + SumFunctionOnSet(part, 1..(n - 1))
    BY SumTo
  <2>3. SumFunctionOnSet(limit, 1..n) = limit[n] + SumFunctionOnSet(limit, 1..(n - 1))
    BY <2>1, SumTo
  <2> QED
    BY <2>2, <2>3
<1>1. Bad = {}
  <2> SUFFICES ASSUME Bad # {} PROVE FALSE
    OBVIOUS
  <2>1. PICK n \in Bad : \A m \in Bad : n <= m
    BY LeastExists
  <2>2. n \in Nat /\ n <= N /\ Given(n) # AtMost(amount, Room(n))
    OBVIOUS
  <2>3. n # 0
    <3> SUFFICES ASSUME n = 0 PROVE FALSE
      OBVIOUS
    <3>1. 1..n = {}
      OBVIOUS
    <3>2. Given(n) = 0 /\ Room(n) = 0
      BY <3>1, SumEmpty
    <3> QED
      BY <2>2, <3>2 DEF AtMost
  <2>4. n - 1 \in Nat /\ n - 1 \notin Bad
    <3> HIDE DEF Bad
    <3> QED
      BY <2>1, <2>2, <2>3
  <2>5. Given(n - 1) = AtMost(amount, Room(n - 1))
    BY <2>2, <2>4
  <2>6. n \in 1..N /\ n \in 1..n /\ (1..n) \ {n} = 1..(n - 1) /\ {p \in 1..N : p < n} = 1..(n - 1)
    BY <2>2, <2>3
  <2>7. Given(n) = part[n] + Given(n - 1) /\ Room(n) = limit[n] + Room(n - 1)
    BY <1>3, <2>6
  <2>8. part[n] = AtMost(limit[n], AtLeast(amount - Room(n - 1), 0)) /\ limit[n] \in Nat
    BY <2>6
  <2>9. Room(n - 1) \in Int
    BY <1>0, <2>2, <2>4
  <2> HIDE DEF Given, Room
  <2> DEFINE a == limit[n] b == Room(n - 1) c == part[n]
  <2>10. a \in Nat /\ b \in Int
    BY <2>8, <2>9
  <2>11. c = AtMost(a, AtLeast(amount - b, 0)) /\ c + AtMost(amount, b) # AtMost(amount, a + b)
    BY <2>2, <2>5, <2>7, <2>8
  <2> HIDE DEF a, b, c
  <2> QED
    BY <2>10, <2>11 DEF AtMost, AtLeast
<1>2. Given(N) = AtMost(amount, Room(N))
  BY <1>1
<1>4. Room(N) \in Int
  BY <1>0
<1> HIDE DEF Given, Room
<1>5. amount <= Room(N)
  BY DEF Room
<1> QED
  BY <1>2, <1>4, <1>5 DEF AtMost, Given

-----------------------------------------------------------------------------
(* The inductive invariant.                                                *)

\* What an order's total may be: its price, with or without cash rounding.
Prices(r) ==
  LET n == Net(r.subtotal, r.discount) IN {n, n - (n % UnitsPerRupee)}

Sound(r) ==
  /\ r.discount <= r.subtotal /\ r.total \in Prices(r)
  /\ r.paid = r.received /\ r.refunded = r.returned /\ r.credit = r.khata
  /\ r.paid + r.credit <= Net(r.subtotal, r.discount) /\ r.refunded <= r.paid
  /\ PaidMeansCovered(r) /\ CreditHasDebtor(r) /\ CancelledHoldsNothing(r)
  /\ r.status = "NONE" => r = NoBill
  /\ r.status = "DELETED" => r = Gone

Shared ==
  /\ collections = SumFunction(allocated)
  /\ \A o \in Orders : bill[o].status # "DELETED" => bill[o].collected = allocated[o]

IInv == TypeOK /\ (\A o \in Orders : Sound(bill[o])) /\ Shared

-----------------------------------------------------------------------------
(* Prices.                                                                 *)

LEMMA Price ==
  ASSUME NEW s \in Nat, NEW d \in Nat, d <= s
  PROVE  Net(s, d) \in Nat
<1> DEFINE n == s - d
           m == n * ServicePercent + 50
<1>1. n \in Nat
  OBVIOUS
<1> HIDE DEF n
<1>2. n * ServicePercent \in Nat
  BY <1>1, MoneyAssumption
<1>3. m \in Nat
  BY <1>2
<1> HIDE DEF m
<1>4. m \div 100 \in Nat
  BY <1>3
<1> QED
  BY <1>1, <1>4 DEF Net, n, m

LEMMA Rounding ==
  ASSUME NEW n \in Nat
  PROVE  n % UnitsPerRupee \in Nat /\ n % UnitsPerRupee < UnitsPerRupee /\ n % UnitsPerRupee <= n
BY MoneyAssumption

LEMMA PriceRange ==
  ASSUME NEW r \in BillRow, r.discount <= r.subtotal, NEW t \in Prices(r)
  PROVE  /\ t \in Nat /\ Net(r.subtotal, r.discount) \in Nat
         /\ t <= Net(r.subtotal, r.discount) /\ Net(r.subtotal, r.discount) - UnitsPerRupee < t
<1> DEFINE n == Net(r.subtotal, r.discount)
<1>1. n \in Nat
  BY Price DEF BillRow
<1>2. t \in {n, n - (n % UnitsPerRupee)}
  BY DEF Prices
<1> HIDE DEF n
<1>3. t \in Nat /\ t <= n /\ n - UnitsPerRupee < t
  BY <1>1, <1>2, Rounding, MoneyAssumption
<1> QED
  BY <1>1, <1>3 DEF n

-----------------------------------------------------------------------------
(* What the commands make of a row.                                        *)

\* A row under which a discount and a total are saved.
LEMMA RetotalledSound ==
  ASSUME NEW r \in BillRow, NEW manual \in Nat, NEW reward \in Nat,
         Priceable(r, manual, reward),
         r.status \notin {"NONE", "DELETED"},
         r.paid = r.received, r.refunded = r.returned, r.credit = r.khata, r.refunded <= r.paid,
         CreditHasDebtor(r), CancelledHoldsNothing(r),
         r.paid + r.credit <= Net(r.subtotal, DiscountOf(r, manual, reward))
  PROVE  LET s == Retotalled(r, manual, reward)
         IN /\ s \in BillRow /\ Sound(s) /\ s.collected = r.collected /\ s.subtotal = r.subtotal
            /\ s.discount = DiscountOf(r, manual, reward) /\ s.status = r.status
            /\ s.paid = r.paid /\ s.credit = r.credit /\ s.named = r.named /\ s.billed = r.billed
<1> DEFINE d == DiscountOf(r, manual, reward)
           n == Net(r.subtotal, d)
           t == Total(r.subtotal, d, r.method)
           m == IF Frozen(r) THEN r.manual ELSE manual
           p == PaymentStatus(r.paid, t)
           s == Retotalled(r, manual, reward)
<1>1. s = [r EXCEPT !.discount = d, !.manual = m, !.total = t, !.payment = p]
  BY DEF Retotalled
<1>2. d \in Nat /\ d <= r.subtotal /\ r.subtotal \in Nat
  BY DEF Priceable, BillRow
<1> HIDE DEF d
<1>3. n \in Nat
  BY <1>2, Price
<1>4. t \in {n, n - (n % UnitsPerRupee)}
  BY DEF Total
<1>5. m \in Nat
  BY DEF BillRow
<1>6. p = IF r.paid >= t THEN "PAID" ELSE "UNPAID"
  BY DEF PaymentStatus
<1> HIDE DEF n
<1>7. t \in Nat
  BY <1>3, <1>4, Rounding
<1> HIDE DEF m, t, p, s
<1>8. /\ s \in BillRow
      /\ s.discount = d /\ s.total = t /\ s.payment = p
      /\ \A f \in {"status", "named", "subtotal", "paid", "credit", "refunded", "received", "collected",
                   "returned", "khata", "billed"} : s[f] = r[f]
  <2>1. p \in {"UNPAID", "PAID", "REFUNDED"}
    BY <1>6
  <2> QED
    BY <1>1, <1>2, <1>5, <1>7, <2>1 DEF BillRow
<1>9. /\ s.status = r.status /\ s.named = r.named /\ s.subtotal = r.subtotal /\ s.paid = r.paid
      /\ s.credit = r.credit /\ s.refunded = r.refunded /\ s.received = r.received
      /\ s.collected = r.collected /\ s.returned = r.returned /\ s.khata = r.khata /\ s.billed = r.billed
  BY <1>8
<1>10. s.total \in Prices(s) /\ s.paid + s.credit <= Net(s.subtotal, s.discount)
  BY <1>4, <1>8, <1>9 DEF Prices, n, d
<1>11. PaidMeansCovered(s)
  BY <1>6, <1>8, <1>9 DEF PaidMeansCovered
<1>12. CreditHasDebtor(s) /\ CancelledHoldsNothing(s)
  BY <1>9 DEF CreditHasDebtor, CancelledHoldsNothing
<1>13. Sound(s)
  BY <1>2, <1>8, <1>9, <1>10, <1>11, <1>12 DEF Sound
<1> QED
  BY <1>8, <1>9, <1>13 DEF s, d

LEMMA MethodKind ==
  ASSUME NEW by \in SUBSET Methods, NEW credit, NEW old \in OrderMethods
  PROVE  MethodOf(by, credit, old) \in OrderMethods
<1> DEFINE methods == by \cup (IF credit > 0 THEN {"CREDIT"} ELSE {})
           m == MethodOf(by, credit, old)
<1>1. methods \subseteq OrderMethods
  BY DEF OrderMethods
<1>2. m = IF methods = {} THEN old
          ELSE IF \E x \in methods : methods = {x} THEN CHOOSE x \in methods : TRUE ELSE "SPLIT"
  BY DEF MethodOf
<1>3. methods # {} => (CHOOSE x \in methods : TRUE) \in methods
  OBVIOUS
<1> HIDE DEF methods, m
<1>4. m \in OrderMethods
  BY <1>1, <1>2, <1>3 DEF OrderMethods
<1> QED
  BY <1>4 DEF m

\* A row under which money or khata is taken.
LEMMA TenderedSound ==
  ASSUME NEW r \in BillRow, Sound(r), r.status \in {"PENDING", "OPEN"},
         NEW cash \in Nat, NEW credit \in Nat, NEW used \in SUBSET Methods,
         r.paid + cash + credit <= r.total,
         credit > 0 => r.paid + r.credit + cash + credit <= r.total /\ r.named
  PROVE  LET s == Tendered(r, cash, credit, used)
         IN /\ s \in BillRow /\ Sound(s) /\ s.collected = r.collected /\ s.subtotal = r.subtotal
            /\ s.discount = r.discount /\ s.status = r.status
<1> DEFINE cleared == AtMost(cash, r.credit)
           s == Tendered(r, cash, credit, used)
           c == r.credit + credit - cleared
           k == r.khata + credit - cleared
           p == PaymentStatus(r.paid + cash, r.total)
           m == MethodOf(r.paidBy \cup used, c, r.method)
           n == Net(r.subtotal, r.discount)
<1>1. s = [r EXCEPT !.paid = r.paid + cash, !.credit = c, !.billed = TRUE, !.payment = p, !.method = m,
                    !.received = r.received + cash, !.khata = k, !.paidBy = r.paidBy \cup used]
  BY DEF Tendered
<1>2. /\ r.credit \in Nat /\ r.paid \in Nat /\ r.total \in Nat /\ r.khata \in Int /\ r.received \in Nat
      /\ r.paidBy \subseteq Methods /\ r.method \in OrderMethods
  BY DEF BillRow
<1>3. cleared \in Nat /\ cleared <= r.credit /\ cleared <= cash /\ (cleared = cash \/ cleared = r.credit)
  BY <1>2 DEF AtMost
<1> HIDE DEF cleared
<1>4. c \in Nat /\ k \in Int
  BY <1>2, <1>3
<1>5. p = IF r.paid + cash >= r.total THEN "PAID" ELSE "UNPAID"
  BY DEF PaymentStatus
<1>6. m \in OrderMethods
  BY <1>2, MethodKind
<1>7. /\ n \in Nat /\ r.total <= n /\ r.paid + r.credit <= n /\ r.refunded <= r.paid /\ r.paid = r.received
      /\ r.credit = r.khata
  BY PriceRange DEF Sound
<1> HIDE DEF p, m, s
<1>8. /\ s \in BillRow
      /\ s.paid = r.paid + cash /\ s.credit = c /\ s.payment = p /\ s.received = r.received + cash /\ s.khata = k
      /\ \A f \in {"status", "named", "subtotal", "discount", "total", "refunded", "collected", "returned"} :
           s[f] = r[f]
  <2>1. p \in {"UNPAID", "PAID", "REFUNDED"}
    BY <1>5
  <2>2. r.paid + cash \in Nat /\ r.received + cash \in Nat
    BY <1>2
  <2>3. r.paidBy \cup used \in SUBSET Methods
    BY <1>2
  <2> HIDE DEF c, k
  <2> QED
    BY <1>1, <1>4, <1>6, <2>1, <2>2, <2>3 DEF BillRow
<1>9. /\ s.status = r.status /\ s.named = r.named /\ s.subtotal = r.subtotal /\ s.discount = r.discount
      /\ s.total = r.total /\ s.refunded = r.refunded /\ s.collected = r.collected /\ s.returned = r.returned
  BY <1>8
<1>10. s.total \in Prices(s) /\ Net(s.subtotal, s.discount) = n
  BY <1>9 DEF Prices, Sound
<1> HIDE DEF n
<1>11. s.paid + s.credit <= n
  BY <1>2, <1>3, <1>7, <1>8
<1>12. s.paid = s.received /\ s.credit = s.khata /\ s.refunded <= s.paid
  <2>1. r.refunded \in Nat
    BY DEF BillRow
  <2> QED
    BY <1>2, <1>3, <1>7, <1>8, <1>9, <2>1
<1>13. PaidMeansCovered(s)
  BY <1>2, <1>5, <1>7, <1>8, <1>9 DEF PaidMeansCovered
<1>14. CreditHasDebtor(s)
  <2>1. r.credit > 0 => r.named
    BY DEF Sound, CreditHasDebtor
  <2> QED
    BY <1>2, <1>3, <1>8, <1>9, <2>1 DEF CreditHasDebtor
<1>15. Sound(s)
  BY <1>9, <1>10, <1>11, <1>12, <1>13, <1>14 DEF Sound, CancelledHoldsNothing
<1> QED
  BY <1>8, <1>9, <1>15 DEF s

LEMMA OutcomeSound ==
  ASSUME NEW r \in BillRow, Sound(r), r.status \in {"PENDING", "OPEN"}, NEW s \in TenderOutcomes(r)
  PROVE  /\ s \in BillRow /\ Sound(s) /\ s.collected = r.collected
         /\ s.subtotal = r.subtotal /\ s.discount = r.discount
<1>1. PICK a \in (0..r.total) \X (0..r.total) \X SUBSET Methods :
        TenderAllowed(r, a[1], a[2]) /\ s = Tendered(r, a[1], a[2], a[3])
  BY DEF TenderOutcomes
<1>2. r.total \in Nat
  BY DEF BillRow
<1>3. a[1] \in Nat /\ a[2] \in Nat /\ a[3] \in SUBSET Methods
  BY <1>1, <1>2
<1>4. /\ r.paid + a[1] + a[2] <= r.total
      /\ a[2] > 0 => r.paid + r.credit + a[1] + a[2] <= r.total /\ r.named
  BY <1>1 DEF TenderAllowed
<1> QED
  BY <1>1, <1>3, <1>4, TenderedSound

-----------------------------------------------------------------------------
(* Steps that save one order.                                              *)

BillStep ==
  \A o \in Orders :
    Charged(bill[o]) /\ bill'[o].status # "DELETED" =>
      /\ bill'[o].subtotal = bill[o].subtotal
      /\ bill'[o].discount = bill[o].discount
      /\ bill'[o].total - bill[o].total \in (1 - UnitsPerRupee)..(UnitsPerRupee - 1)

\* Two totals of one price are less than a rupee apart.
LEMMA LessThanARupee ==
  ASSUME NEW r \in BillRow, NEW s \in BillRow, Sound(r), Sound(s),
         s.subtotal = r.subtotal, s.discount = r.discount
  PROVE  s.total - r.total \in (1 - UnitsPerRupee)..(UnitsPerRupee - 1)
<1> DEFINE n == Net(r.subtotal, r.discount)
<1>1. r.total \in Nat /\ n \in Nat /\ r.total <= n /\ n - UnitsPerRupee < r.total
  BY PriceRange DEF Sound
<1>2. s.total \in Nat /\ s.total <= n /\ n - UnitsPerRupee < s.total
  BY PriceRange DEF Sound
<1> HIDE DEF n
<1> QED
  BY <1>1, <1>2, MoneyAssumption

LEMMA SaveKeeps ==
  ASSUME IInv, NEW o \in Orders, NEW s \in BillRow, Save(o, s), Sound(s),
         s.collected = bill[o].collected, bill[o].status # "DELETED",
         Charged(bill[o]) => s.subtotal = bill[o].subtotal /\ s.discount = bill[o].discount
  PROVE  IInv' /\ BillStep
<1>1. \A p \in Orders : bill[p] \in BillRow /\ Sound(bill[p])
  BY DEF IInv, TypeOK
<1>2. \A p \in Orders : bill'[p] = IF p = o THEN s ELSE bill[p]
  BY DEF Save, IInv, TypeOK
<1>3. TypeOK'
  BY DEF Save, account, IInv, TypeOK
<1>4. ASSUME NEW p \in Orders
      PROVE  /\ Sound(bill'[p]) /\ bill'[p].collected = bill[p].collected
             /\ bill[p].status = "DELETED" => bill'[p].status = "DELETED"
  BY <1>1, <1>2
<1>5. Shared'
  BY <1>4 DEF Save, account, IInv, Shared
<1>6. BillStep
  <2> SUFFICES ASSUME NEW p \in Orders, Charged(bill[p])
               PROVE  /\ bill'[p].subtotal = bill[p].subtotal /\ bill'[p].discount = bill[p].discount
                      /\ bill'[p].total - bill[p].total \in (1 - UnitsPerRupee)..(UnitsPerRupee - 1)
    BY DEF BillStep, Charged
  <2>1. bill'[p].subtotal = bill[p].subtotal /\ bill'[p].discount = bill[p].discount
    BY <1>2
  <2>2. bill'[p] \in BillRow /\ Sound(bill'[p])
    BY <1>1, <1>2
  <2> QED
    BY <1>1, <2>1, <2>2, LessThanARupee
<1> QED
  BY <1>3, <1>4, <1>5, <1>6 DEF IInv

LEMMA NoBillRow ==
  /\ NoBill \in BillRow /\ NoBill.status = "NONE" /\ NoBill.payment = "UNPAID"
  /\ NoBill.paid = 0 /\ NoBill.credit = 0 /\ NoBill.refunded = 0 /\ NoBill.received = 0
  /\ NoBill.collected = 0 /\ NoBill.returned = 0 /\ NoBill.khata = 0 /\ NoBill.billed = FALSE
  /\ NoBill.paidBy = {}
BY MethodAssumption DEF NoBill, BillRow, OrderMethods

\* What a deleted order amounts to.
LEMMA GoneRow ==
  /\ Gone \in BillRow /\ Gone.status = "DELETED" /\ Gone.paidBy = {}
  /\ Gone.paid = 0 /\ Gone.credit = 0 /\ Gone.refunded = 0 /\ Gone.received = 0
  /\ Gone.returned = 0 /\ Gone.khata = 0 /\ Gone.payment = "UNPAID"
  /\ Gone.subtotal = 0 /\ Gone.discount = 0 /\ Gone.total = 0
<1>1. NoBill \in BillRow /\ Gone = [NoBill EXCEPT !.status = "DELETED"]
  BY NoBillRow DEF Gone
<1>2. NoBill.subtotal = 0 /\ NoBill.discount = 0 /\ NoBill.total = 0
  BY DEF NoBill
<1> QED
  BY <1>1, <1>2, NoBillRow DEF BillRow

LEMMA NothingNet == Net(0, 0) = 0
<1>1. (0 - 0) * ServicePercent = 0
  BY MoneyAssumption
<1>2. 50 \div 100 = 0
  OBVIOUS
<1> QED
  BY <1>1, <1>2 DEF Net

LEMMA GoneSound == Sound(Gone)
<1>1. Gone.total \in Prices(Gone)
  BY GoneRow, NothingNet DEF Prices
<1> QED
  BY <1>1, GoneRow, NothingNet DEF Sound, PaidMeansCovered, CreditHasDebtor, CancelledHoldsNothing

\* Nobody has paid, owed or been billed anything before an order is created.
LEMMA NewRow ==
  ASSUME IInv, NEW o \in Orders, IsNew(o)
  PROVE  bill[o].collected = 0 /\ ~Charged(bill[o]) /\ bill[o].status # "DELETED"
<1>1. bill[o] = NoBill
  BY DEF IInv, Sound, IsNew
<1> QED
  BY <1>1, NoBillRow DEF Charged

LEMMA CreateKeeps ==
  ASSUME IInv, NEW o \in Orders, NEW subtotal \in Nat, NEW manual \in Nat, NEW reward \in Nat,
         NEW method \in Methods, NEW named \in BOOLEAN,
         Create(o, subtotal, manual, reward, method, named)
  PROVE  IInv' /\ BillStep
<1> DEFINE d == AtLeast(manual, reward)
           t == Total(subtotal, d, method)
           n == Net(subtotal, d)
           r == [NoBill EXCEPT !.status = "OPEN", !.named = named, !.subtotal = subtotal,
                               !.manual = manual, !.method = method, !.discount = d, !.total = t]
<1>1. IsNew(o) /\ d <= subtotal /\ \E saved \in {r} \cup TenderOutcomes(r) : Save(o, saved)
  BY DEF Create
<1>2. d \in Nat
  BY DEF AtLeast
<1> HIDE DEF d
<1>3. n \in Nat
  BY <1>1, <1>2, Price
<1>4. t \in {n, n - (n % UnitsPerRupee)}
  BY DEF Total
<1> HIDE DEF n
<1>5. t \in Nat
  BY <1>3, <1>4, Rounding
<1> HIDE DEF t
<1>6. r = [NoBill EXCEPT !.status = "OPEN", !.named = named, !.subtotal = subtotal,
                         !.manual = manual, !.method = method, !.discount = d, !.total = t]
  OBVIOUS
<1> HIDE DEF r
<1>7. /\ r \in BillRow /\ r.status = "OPEN" /\ r.subtotal = subtotal /\ r.discount = d /\ r.total = t
      /\ r.payment = "UNPAID" /\ r.collected = 0
      /\ r.paid = 0 /\ r.credit = 0 /\ r.refunded = 0 /\ r.received = 0 /\ r.returned = 0 /\ r.khata = 0
  BY <1>2, <1>5, <1>6, NoBillRow DEF BillRow, OrderMethods
<1>8. r.total \in Prices(r) /\ Net(r.subtotal, r.discount) = n
  BY <1>4, <1>7 DEF Prices, n
<1>9. Sound(r)
  BY <1>1, <1>3, <1>7, <1>8 DEF Sound, PaidMeansCovered, CreditHasDebtor, CancelledHoldsNothing
<1>10. PICK saved \in {r} \cup TenderOutcomes(r) : Save(o, saved)
  BY <1>1
<1>11. saved \in BillRow /\ Sound(saved) /\ saved.collected = 0
  BY <1>7, <1>9, OutcomeSound
<1> QED
  BY <1>1, <1>10, <1>11, NewRow, SaveKeeps

LEMMA WebCheckoutKeeps ==
  ASSUME IInv, NEW o \in Orders, NEW subtotal \in Nat, NEW reward \in Nat, WebCheckout(o, subtotal, reward)
  PROVE  IInv' /\ BillStep
<1> DEFINE t == Total(subtotal, reward, "FONEPAY")
           r == [NoBill EXCEPT !.status = "PENDING", !.web = TRUE, !.named = TRUE,
                               !.subtotal = subtotal, !.method = "FONEPAY",
                               !.discount = reward, !.total = t]
<1>1. IsNew(o) /\ reward <= subtotal /\ Save(o, r)
  BY DEF WebCheckout
<1>2. t = Net(subtotal, reward) /\ t \in Nat
  BY <1>1, Price DEF Total
<1> HIDE DEF t
<1>3. r = [NoBill EXCEPT !.status = "PENDING", !.web = TRUE, !.named = TRUE,
                         !.subtotal = subtotal, !.method = "FONEPAY",
                         !.discount = reward, !.total = t]
  OBVIOUS
<1> HIDE DEF r
<1>4. /\ r \in BillRow /\ r.status = "PENDING" /\ r.subtotal = subtotal /\ r.discount = reward /\ r.total = t
      /\ r.payment = "UNPAID" /\ r.collected = 0
      /\ r.paid = 0 /\ r.credit = 0 /\ r.refunded = 0 /\ r.received = 0 /\ r.returned = 0 /\ r.khata = 0
  BY <1>2, <1>3, NoBillRow, MethodAssumption DEF BillRow, OrderMethods
<1>5. Sound(r)
  BY <1>1, <1>2, <1>4 DEF Sound, Prices, PaidMeansCovered, CreditHasDebtor, CancelledHoldsNothing
<1> QED
  BY <1>1, <1>4, <1>5, NewRow, SaveKeeps

Money == {"subtotal", "discount", "total", "paid", "credit", "refunded", "received", "collected",
          "returned", "khata"}

\* A row of which only what is no amount changes.
LEMMA SameMoney ==
  ASSUME NEW r \in BillRow, NEW s \in BillRow, Sound(r), \A f \in Money : s[f] = r[f],
         s.payment = r.payment, s.status \notin {"NONE", "DELETED"}, CreditHasDebtor(s), CancelledHoldsNothing(s)
  PROVE  Sound(s) /\ s.collected = r.collected /\ s.subtotal = r.subtotal /\ s.discount = r.discount
<1>1. /\ s.subtotal = r.subtotal /\ s.discount = r.discount /\ s.total = r.total /\ s.paid = r.paid
      /\ s.credit = r.credit /\ s.refunded = r.refunded /\ s.received = r.received
      /\ s.collected = r.collected /\ s.returned = r.returned /\ s.khata = r.khata
  BY DEF Money
<1>2. s.total \in Prices(s)
  BY <1>1 DEF Sound, Prices
<1> QED
  BY <1>1, <1>2 DEF Sound, PaidMeansCovered

\* The row of an order that exists.
LEMMA OldRow ==
  ASSUME IInv, NEW o \in Orders
  PROVE  bill[o] \in BillRow /\ Sound(bill[o])
BY DEF IInv, TypeOK

LEMMA AcceptKeeps ==
  ASSUME IInv, NEW o \in Orders, Accept(o)
  PROVE  IInv' /\ BillStep
<1> DEFINE r == bill[o]
           s == [bill[o] EXCEPT !.status = "OPEN"]
<1>1. r.status = "PENDING" /\ Save(o, s) /\ r \in BillRow /\ Sound(r)
  BY OldRow DEF Accept
<1>2. s = [r EXCEPT !.status = "OPEN"]
  OBVIOUS
<1> HIDE DEF r, s
<1>3. s \in BillRow /\ s.status = "OPEN" /\ s.payment = r.payment /\ s.named = r.named /\ s.credit = r.credit
      /\ \A f \in Money : s[f] = r[f]
  BY <1>1, <1>2 DEF BillRow, Money
<1>4. CreditHasDebtor(s) /\ CancelledHoldsNothing(s)
  BY <1>1, <1>3 DEF Sound, CreditHasDebtor, CancelledHoldsNothing
<1>5. Sound(s) /\ s.collected = r.collected /\ s.subtotal = r.subtotal /\ s.discount = r.discount
  BY <1>1, <1>3, <1>4, SameMoney
<1> QED
  BY <1>1, <1>3, <1>5, SaveKeeps DEF r

\* A row that is not frozen is priced anew.
LEMMA RepricedKeeps ==
  ASSUME IInv, NEW o \in Orders, NEW reward \in Nat, NEW subtotal \in Nat,
         ~Charged(bill[o]), bill[o].status \in {"PENDING", "OPEN"},
         LET r == [bill[o] EXCEPT !.subtotal = subtotal]
         IN Priceable(r, r.manual, reward) /\ Save(o, Retotalled(r, r.manual, reward))
  PROVE  IInv' /\ BillStep
<1> DEFINE b == bill[o]
           r == [bill[o] EXCEPT !.subtotal = subtotal]
<1>1. b \in BillRow /\ Sound(b) /\ b.status \in {"PENDING", "OPEN"} /\ ~Charged(b)
  BY OldRow
<1>2. r = [b EXCEPT !.subtotal = subtotal]
  OBVIOUS
<1>3. Priceable(r, r.manual, reward) /\ Save(o, Retotalled(r, r.manual, reward))
  OBVIOUS
<1> HIDE DEF b, r
<1>4. /\ r \in BillRow /\ r.subtotal = subtotal /\ r.status = b.status /\ r.manual = b.manual
      /\ r.paid = b.paid /\ r.credit = b.credit /\ r.received = b.received /\ r.refunded = b.refunded
      /\ r.returned = b.returned /\ r.khata = b.khata /\ r.named = b.named /\ r.collected = b.collected
      /\ r.manual \in Nat
  BY <1>1, <1>2 DEF BillRow
<1>5. b.paid \in Nat /\ b.credit \in Nat
  BY <1>1 DEF BillRow
<1>6. r.paid = 0 /\ r.credit = 0
  BY <1>1, <1>4, <1>5 DEF Charged
<1> DEFINE d == DiscountOf(r, r.manual, reward)
           n == Net(r.subtotal, d)
<1>7. n \in Nat
  <2>1. d \in Nat /\ d <= r.subtotal /\ r.subtotal \in Nat
    BY <1>3, <1>4 DEF Priceable
  <2> HIDE DEF d
  <2> QED
    BY <2>1, Price
<1>8. r.paid + r.credit <= n
  <2> HIDE DEF n
  <2> QED
    BY <1>6, <1>7
<1> HIDE DEF n
<1>9. CreditHasDebtor(r) /\ CancelledHoldsNothing(r) /\ r.status \notin {"NONE", "DELETED"}
      /\ r.paid = r.received
      /\ r.refunded = r.returned /\ r.credit = r.khata /\ r.refunded <= r.paid
  BY <1>1, <1>4, <1>6 DEF CreditHasDebtor, CancelledHoldsNothing, Sound
<1> DEFINE s == Retotalled(r, r.manual, reward)
<1>10. s \in BillRow /\ Sound(s) /\ s.collected = r.collected
  BY <1>3, <1>4, <1>8, <1>9, RetotalledSound DEF n
<1> HIDE DEF s, r
<1>11. Save(o, s)
  BY <1>3 DEF s
<1> QED
  BY <1>1, <1>4, <1>10, <1>11, SaveKeeps DEF b

LEMMA AppendKeeps ==
  ASSUME IInv, NEW o \in Orders, NEW price \in Nat, NEW reward \in Nat, Append(o, price, reward)
  PROVE  IInv' /\ BillStep
<1>1. ~Charged(bill[o]) /\ bill[o].status \in {"PENDING", "OPEN"}
  BY DEF Append, Frozen, Charged
<1>2. bill[o].subtotal + price \in Nat
  BY OldRow DEF BillRow
<1>3. LET r == [bill[o] EXCEPT !.subtotal = bill[o].subtotal + price]
      IN Priceable(r, r.manual, reward) /\ Save(o, Retotalled(r, r.manual, reward))
  BY DEF Append
<1> QED
  BY <1>1, <1>2, <1>3, RepricedKeeps

LEMMA RemoveItemKeeps ==
  ASSUME IInv, NEW o \in Orders, NEW price \in Nat, NEW reward \in Nat, RemoveItem(o, price, reward)
  PROVE  IInv' /\ BillStep
<1>1. ~Charged(bill[o]) /\ bill[o].status \in {"PENDING", "OPEN"}
  <2>1. CASE bill[o].status = "OPEN" /\ ~Frozen(bill[o])
    BY <2>1 DEF Frozen, Charged
  <2>2. CASE bill[o].status = "PENDING" /\ ~Frozen([bill[o] EXCEPT !.web = FALSE])
    <3> DEFINE r == [bill[o] EXCEPT !.web = FALSE]
    <3>1. r.billed = bill[o].billed /\ r.paid = bill[o].paid /\ r.credit = bill[o].credit
      BY OldRow DEF BillRow
    <3> HIDE DEF r
    <3>2. ~Frozen(r)
      BY <2>2 DEF r
    <3> QED
      BY <2>2, <3>1, <3>2 DEF Frozen, Charged
  <2> QED
    BY <2>1, <2>2 DEF RemoveItem
<1>2. bill[o].subtotal - price \in Nat
  BY OldRow DEF BillRow, RemoveItem
<1>3. LET r == [bill[o] EXCEPT !.subtotal = bill[o].subtotal - price]
      IN Priceable(r, r.manual, reward) /\ Save(o, Retotalled(r, r.manual, reward))
  BY DEF RemoveItem
<1> QED
  BY <1>1, <1>2, <1>3, RepricedKeeps

\* A row whose customer is corrected and which is priced anew.
LEMMA RenamedSound ==
  ASSUME IInv, NEW o \in Orders, NEW manual \in Nat, NEW reward \in Nat, NEW named \in BOOLEAN,
         bill[o].status \in {"PENDING", "OPEN"}, bill[o].credit > 0 => named,
         NEW r, r = [bill[o] EXCEPT !.named = named],
         Priceable(r, manual, reward)
  PROVE  LET s == Retotalled(r, manual, reward)
         IN /\ s \in BillRow /\ Sound(s) /\ s.collected = bill[o].collected /\ s.subtotal = bill[o].subtotal
            /\ Charged(bill[o]) => s.discount = bill[o].discount
            /\ s.status = bill[o].status
<1> DEFINE b == bill[o]
<1>1. b \in BillRow /\ Sound(b) /\ b.status \in {"PENDING", "OPEN"} /\ r = [b EXCEPT !.named = named]
      /\ (b.credit > 0 => named)
  BY OldRow
<1> HIDE DEF b
<1>2. /\ r \in BillRow /\ r.subtotal = b.subtotal /\ r.status = b.status /\ r.manual = b.manual
      /\ r.paid = b.paid /\ r.credit = b.credit /\ r.received = b.received /\ r.refunded = b.refunded
      /\ r.returned = b.returned /\ r.khata = b.khata /\ r.named = named /\ r.collected = b.collected
      /\ r.billed = b.billed /\ r.discount = b.discount
  BY <1>1 DEF BillRow
<1> DEFINE d == DiscountOf(r, manual, reward)
           n == Net(r.subtotal, d)
<1>3. Charged(b) => d = b.discount
  BY <1>2 DEF Charged, DiscountOf, Frozen
<1>4. n \in Nat
  <2>1. d \in Nat /\ d <= r.subtotal /\ r.subtotal \in Nat
    BY <1>2 DEF Priceable, BillRow
  <2> HIDE DEF d
  <2> QED
    BY <2>1, Price
<1>5. r.paid + r.credit <= n
  <2>1. CASE Charged(b)
    <3>1. n = Net(b.subtotal, b.discount)
      BY <1>2, <1>3, <2>1
    <3> HIDE DEF n
    <3> QED
      BY <1>1, <1>2, <3>1 DEF Sound
  <2>2. CASE ~Charged(b)
    <3>1. b.paid = 0 /\ b.credit = 0
      BY <1>1, <2>2 DEF Charged, BillRow
    <3> HIDE DEF n
    <3> QED
      BY <1>2, <1>4, <3>1
  <2> QED
    BY <2>1, <2>2
<1> HIDE DEF n
<1>6. CreditHasDebtor(r) /\ CancelledHoldsNothing(r) /\ r.status \notin {"NONE", "DELETED"}
      /\ r.paid = r.received
      /\ r.refunded = r.returned /\ r.credit = r.khata /\ r.refunded <= r.paid
  BY <1>1, <1>2 DEF CreditHasDebtor, CancelledHoldsNothing, Sound
<1> DEFINE s == Retotalled(r, manual, reward)
<1>7. s \in BillRow /\ Sound(s) /\ s.collected = r.collected /\ s.subtotal = r.subtotal /\ s.discount = d
      /\ s.status = r.status
  BY <1>2, <1>5, <1>6, RetotalledSound DEF n
<1> HIDE DEF s, d
<1> QED
  BY <1>2, <1>3, <1>7 DEF s, b

\* What settle and bill work on.
LEMMA BillableSound ==
  ASSUME IInv, NEW o \in Orders, NEW manual \in Nat, NEW reward \in Nat, NEW named \in BOOLEAN,
         Billable(o, manual, reward, named)
  PROVE  LET s == BillableRow(o, manual, reward, named)
         IN /\ s \in BillRow /\ Sound(s) /\ s.collected = bill[o].collected /\ s.subtotal = bill[o].subtotal
            /\ Charged(bill[o]) => s.discount = bill[o].discount
            /\ s.status \in {"PENDING", "OPEN"}
<1> DEFINE b == bill[o]
<1>1. b \in BillRow /\ Sound(b) /\ b.status \in {"PENDING", "OPEN"} /\ Priceable(b, manual, reward)
  BY OldRow DEF Billable
<1>2. CASE Charged(b)
  <2>1. BillableRow(o, manual, reward, named) = Retotalled(b, b.manual, reward)
    BY <1>2 DEF BillableRow, Charged
  <2>2. b.manual \in Nat /\ b.named \in BOOLEAN /\ b = [b EXCEPT !.named = b.named]
    BY <1>1 DEF BillRow
  <2>3. Priceable(b, b.manual, reward)
    BY <1>1, <1>2 DEF Priceable, DiscountOf, Frozen, Charged
  <2>4. b.credit > 0 => b.named
    BY <1>1 DEF Sound, CreditHasDebtor
  <2> QED
    BY <1>1, <1>2, <2>1, <2>2, <2>3, <2>4, RenamedSound
<1>3. CASE ~Charged(b)
  <2> DEFINE r == [b EXCEPT !.named = named]
  <2>1. BillableRow(o, manual, reward, named) = Retotalled(r, manual, reward)
    BY <1>3 DEF BillableRow, Charged
  <2>2. r.subtotal = b.subtotal /\ r.discount = b.discount /\ r.billed = b.billed /\ r.paid = b.paid
        /\ r.credit = b.credit /\ r.web = b.web
    <3> HIDE DEF b
    <3> QED
      BY <1>1 DEF BillRow
  <2> HIDE DEF r
  <2>3. Priceable(r, manual, reward)
    BY <1>1, <2>2 DEF Priceable, DiscountOf, Frozen
  <2>4. b.credit > 0 => named
    BY <1>3 DEF Charged
  <2>5. r = [bill[o] EXCEPT !.named = named]
    BY DEF r
  <2> QED
    BY <1>1, <2>1, <2>3, <2>4, <2>5, RenamedSound
<1> QED
  BY <1>2, <1>3

LEMMA BillKeeps ==
  ASSUME IInv, NEW o \in Orders, NEW manual \in Nat, NEW reward \in Nat, NEW named \in BOOLEAN,
         Bill(o, manual, reward, named)
  PROVE  IInv' /\ BillStep
<1> DEFINE r == BillableRow(o, manual, reward, named)
           s == [r EXCEPT !.billed = TRUE]
<1>1. Billable(o, manual, reward, named) /\ Save(o, s)
  BY DEF Bill
<1>2. /\ r \in BillRow /\ Sound(r) /\ r.collected = bill[o].collected /\ r.subtotal = bill[o].subtotal
      /\ Charged(bill[o]) => r.discount = bill[o].discount
      /\ r.status \in {"PENDING", "OPEN"}
  BY <1>1, BillableSound
<1>3. s = [r EXCEPT !.billed = TRUE]
  OBVIOUS
<1> HIDE DEF r, s
<1>4. s \in BillRow /\ s.status = r.status /\ s.payment = r.payment /\ s.named = r.named /\ s.credit = r.credit
      /\ \A f \in Money : s[f] = r[f]
  BY <1>2, <1>3 DEF BillRow, Money
<1>5. CreditHasDebtor(s) /\ CancelledHoldsNothing(s)
  BY <1>2, <1>4 DEF Sound, CreditHasDebtor, CancelledHoldsNothing
<1>6. Sound(s) /\ s.collected = r.collected /\ s.subtotal = r.subtotal /\ s.discount = r.discount
  BY <1>2, <1>4, <1>5, SameMoney
<1>7. bill[o].status \in {"PENDING", "OPEN"}
  BY <1>1 DEF Billable
<1> QED
  BY <1>1, <1>2, <1>4, <1>6, <1>7, SaveKeeps

LEMMA SettleKeeps ==
  ASSUME IInv, NEW o \in Orders, NEW manual \in Nat, NEW reward \in Nat, NEW named \in BOOLEAN,
         Settle(o, manual, reward, named)
  PROVE  IInv' /\ BillStep
<1> DEFINE r == BillableRow(o, manual, reward, named)
<1>1. Billable(o, manual, reward, named) /\ \E s \in TenderOutcomes(r) : Save(o, s)
  BY DEF Settle
<1>2. /\ r \in BillRow /\ Sound(r) /\ r.collected = bill[o].collected /\ r.subtotal = bill[o].subtotal
      /\ Charged(bill[o]) => r.discount = bill[o].discount
      /\ r.status \in {"PENDING", "OPEN"}
  BY <1>1, BillableSound
<1> HIDE DEF r
<1>3. PICK s \in TenderOutcomes(r) : Save(o, s)
  BY <1>1
<1>4. /\ s \in BillRow /\ Sound(s) /\ s.collected = r.collected
      /\ s.subtotal = r.subtotal /\ s.discount = r.discount
  BY <1>2, <1>3, OutcomeSound
<1>5. bill[o].status \in {"PENDING", "OPEN"}
  BY <1>1 DEF Billable
<1> QED
  BY <1>2, <1>3, <1>4, <1>5, SaveKeeps

LEMMA RefundKeeps ==
  ASSUME IInv, NEW o \in Orders, NEW amount \in Nat, Refund(o, amount)
  PROVE  IInv' /\ BillStep
<1> DEFINE r == bill[o]
           s == [bill[o] EXCEPT !.refunded = @ + amount, !.returned = @ + amount, !.payment = "REFUNDED"]
<1>1. r \in BillRow /\ Sound(r) /\ Save(o, s) /\ amount \in 1..(r.paid - r.refunded)
  BY OldRow DEF Refund
<1>2. s = [r EXCEPT !.refunded = r.refunded + amount, !.returned = r.returned + amount, !.payment = "REFUNDED"]
  OBVIOUS
<1> HIDE DEF r, s
<1>3. /\ r.refunded \in Nat /\ r.returned \in Nat /\ r.paid \in Nat
      /\ r.refunded + amount \in Nat /\ r.returned + amount \in Nat
  BY <1>1 DEF BillRow
<1>4. /\ s \in BillRow /\ s.refunded = r.refunded + amount /\ s.returned = r.returned + amount
      /\ s.payment = "REFUNDED"
      /\ s.subtotal = r.subtotal /\ s.discount = r.discount /\ s.total = r.total /\ s.paid = r.paid
      /\ s.credit = r.credit /\ s.received = r.received /\ s.khata = r.khata /\ s.named = r.named
      /\ s.status = r.status /\ s.collected = r.collected
  BY <1>1, <1>2, <1>3 DEF BillRow
<1>5. s.total \in Prices(s) /\ s.paid + s.credit <= Net(s.subtotal, s.discount)
  BY <1>1, <1>4 DEF Sound, Prices
<1>6. r.status \notin {"NONE", "CANCELLED", "DELETED"}
  <2>1. r.status # "CANCELLED"
    BY <1>1, <1>3 DEF Sound, CancelledHoldsNothing
  <2>2. r.status # "NONE"
    BY <1>1, <1>3, NoBillRow DEF Sound
  <2>3. r.status # "DELETED"
    BY <1>1, <1>3, GoneRow DEF Sound
  <2> QED
    BY <2>1, <2>2, <2>3
<1>7. Sound(s)
  BY <1>1, <1>3, <1>4, <1>5, <1>6 DEF Sound, PaidMeansCovered, CreditHasDebtor, CancelledHoldsNothing
<1> QED
  BY <1>1, <1>4, <1>6, <1>7, SaveKeeps DEF r

LEMMA CancelKeeps ==
  ASSUME IInv, NEW o \in Orders, Cancel(o)
  PROVE  IInv' /\ BillStep
<1> DEFINE r == bill[o]
           s == [bill[o] EXCEPT !.status = "CANCELLED", !.credit = 0, !.khata = @ - bill[o].credit]
<1>1. r \in BillRow /\ Sound(r) /\ Save(o, s) /\ r.paid <= r.refunded /\ r.status # "DELETED"
  BY OldRow DEF Cancel
<1>2. s = [r EXCEPT !.status = "CANCELLED", !.credit = 0, !.khata = r.khata - r.credit]
  OBVIOUS
<1> HIDE DEF r, s
<1>3. r.refunded \in Nat /\ r.paid \in Nat /\ r.khata \in Int /\ r.credit \in Nat /\ r.khata - r.credit = 0
  BY <1>1 DEF BillRow, Sound
<1>8. s = [r EXCEPT !.status = "CANCELLED", !.credit = 0, !.khata = 0]
  BY <1>2, <1>3
<1>9. s \in BillRow
  <2>1. 0 \in Nat /\ 0 \in Int /\ "CANCELLED" \in {"NONE", "PENDING", "OPEN", "CANCELLED", "DELETED"}
    OBVIOUS
  <2> QED
    BY <1>1, <1>8, <2>1 DEF BillRow
<1>10. s.credit = 0 /\ s.khata = 0 /\ s.status = "CANCELLED"
  BY <1>1, <1>8 DEF BillRow
<1>11. \A f \in {"payment", "refunded", "returned", "subtotal", "discount", "total", "paid",
                  "received", "collected"} : s[f] = r[f]
  BY <1>1, <1>8 DEF BillRow
<1>4. /\ s \in BillRow /\ s.credit = 0 /\ s.khata = 0 /\ s.payment = r.payment /\ s.refunded = r.refunded
      /\ s.returned = r.returned
      /\ s.subtotal = r.subtotal /\ s.discount = r.discount /\ s.total = r.total /\ s.paid = r.paid
      /\ s.received = r.received /\ s.status = "CANCELLED" /\ s.collected = r.collected
  BY <1>9, <1>10, <1>11
<1>5. s.total \in Prices(s)
  BY <1>1, <1>4 DEF Sound, Prices
<1>6. s.paid + s.credit <= Net(s.subtotal, s.discount)
  <2> DEFINE n == Net(r.subtotal, r.discount)
  <2>1. n \in Nat /\ r.paid + r.credit <= n /\ n = Net(s.subtotal, s.discount)
    BY <1>1, <1>4, PriceRange DEF Sound
  <2> HIDE DEF n
  <2> QED
    BY <1>3, <1>4, <2>1
<1>7. Sound(s)
  BY <1>1, <1>3, <1>4, <1>5, <1>6 DEF Sound, PaidMeansCovered, CreditHasDebtor, CancelledHoldsNothing
<1> QED
  BY <1>1, <1>4, <1>7, SaveKeeps DEF r

LEMMA CustomerCancelKeeps ==
  ASSUME IInv, NEW o \in Orders, CustomerCancel(o)
  PROVE  IInv' /\ BillStep
<1> DEFINE r == bill[o]
           s == [bill[o] EXCEPT !.status = "CANCELLED"]
<1>1. r \in BillRow /\ Sound(r) /\ Save(o, s) /\ r.paid = 0 /\ r.status # "DELETED"
  BY OldRow DEF CustomerCancel, Withdrawable
<1>2. s = [r EXCEPT !.status = "CANCELLED"]
  OBVIOUS
<1> HIDE DEF r, s
<1>3. s \in BillRow /\ s.status = "CANCELLED" /\ s.payment = r.payment /\ s.named = r.named /\ s.credit = r.credit
      /\ s.paid = r.paid /\ s.refunded = r.refunded /\ r.refunded \in Nat /\ \A f \in Money : s[f] = r[f]
  BY <1>1, <1>2 DEF BillRow, Money
<1>4. CreditHasDebtor(s) /\ CancelledHoldsNothing(s)
  BY <1>1, <1>3 DEF Sound, CreditHasDebtor, CancelledHoldsNothing
<1>5. Sound(s) /\ s.collected = r.collected /\ s.subtotal = r.subtotal /\ s.discount = r.discount
  BY <1>1, <1>3, <1>4, SameMoney
<1> QED
  BY <1>1, <1>3, <1>5, SaveKeeps DEF r

LEMMA CorrectCustomerKeeps ==
  ASSUME IInv, NEW o \in Orders, NEW named \in BOOLEAN, NEW reward \in Nat, CorrectCustomer(o, named, reward)
  PROVE  IInv' /\ BillStep
<1> DEFINE b == bill[o]
           r == [bill[o] EXCEPT !.named = named]
<1>1. b \in BillRow /\ Sound(b) /\ b.status \notin {"NONE", "DELETED"} /\ (b.credit > 0 => named)
  BY OldRow DEF CorrectCustomer, NameAllowed
<1>2. IF r.status = "CANCELLED" THEN Save(o, r)
      ELSE Priceable(r, r.manual, reward) /\ Save(o, Retotalled(r, r.manual, reward))
  BY DEF CorrectCustomer
<1>3. r = [b EXCEPT !.named = named]
  OBVIOUS
<1> HIDE DEF b, r
<1>4. r \in BillRow /\ r.status = b.status /\ r.payment = b.payment /\ r.named = named /\ r.credit = b.credit
      /\ r.paid = b.paid /\ r.refunded = b.refunded /\ r.manual \in Nat /\ \A f \in Money : r[f] = b[f]
  BY <1>1, <1>3 DEF BillRow, Money
<1>5. CASE r.status = "CANCELLED"
  <2>1. CreditHasDebtor(r) /\ CancelledHoldsNothing(r)
    BY <1>1, <1>4 DEF Sound, CreditHasDebtor, CancelledHoldsNothing
  <2>2. Sound(r) /\ r.collected = b.collected /\ r.subtotal = b.subtotal /\ r.discount = b.discount
    BY <1>1, <1>4, <1>5, <2>1, SameMoney
  <2> QED
    BY <1>2, <1>4, <1>5, <2>2, SaveKeeps DEF b
<1>6. CASE r.status # "CANCELLED"
  <2> DEFINE s == Retotalled(r, r.manual, reward)
  <2>1. Save(o, s) /\ Priceable(r, r.manual, reward)
    BY <1>2, <1>6
  <2>2. bill[o].status \in {"PENDING", "OPEN"} /\ r = [bill[o] EXCEPT !.named = named]
        /\ (bill[o].credit > 0 => named)
    BY <1>1, <1>3, <1>4, <1>6 DEF b, BillRow
  <2>3. /\ s \in BillRow /\ Sound(s) /\ s.collected = bill[o].collected /\ s.subtotal = bill[o].subtotal
        /\ Charged(bill[o]) => s.discount = bill[o].discount
    BY <1>4, <2>1, <2>2, RenamedSound
  <2> HIDE DEF s
  <2> QED
    BY <2>1, <2>2, <2>3, SaveKeeps
<1> QED
  BY <1>5, <1>6

LEMMA CorrectMethodKeeps ==
  ASSUME IInv, NEW o \in Orders, NEW old \in Methods, NEW new \in Methods, NEW left \in BOOLEAN,
         CorrectMethod(o, old, new, left)
  PROVE  IInv' /\ BillStep
<1> DEFINE r == bill[o]
<1>1. r \in BillRow /\ Sound(r)
  BY OldRow
<1>2. PICK by \in SUBSET Methods :
        /\ Save(o, [r EXCEPT !.paidBy = by, !.method = MethodOf(by, r.credit, r.method)])
        /\ r.paidBy # {} \/ r.returned > 0
  <2> DEFINE by == (IF left THEN r.paidBy ELSE r.paidBy \ {old}) \cup {new}
  <2>1. CASE /\ old \in r.paidBy
             /\ Save(o, [r EXCEPT !.paidBy = by, !.method = MethodOf(by, r.credit, r.method)])
    <3>1. by \in SUBSET Methods
      BY <1>1 DEF BillRow
    <3> HIDE DEF by, r
    <3> QED
      BY <2>1, <3>1
  <2>2. CASE /\ r.returned > 0
             /\ Save(o, [r EXCEPT !.method = MethodOf(r.paidBy, r.credit, r.method)])
    <3> HIDE DEF r
    <3>1. [r EXCEPT !.method = MethodOf(r.paidBy, r.credit, r.method)] =
          [r EXCEPT !.paidBy = r.paidBy, !.method = MethodOf(r.paidBy, r.credit, r.method)]
      BY <1>1 DEF BillRow
    <3>2. r.paidBy \in SUBSET Methods
      BY <1>1 DEF BillRow
    <3> QED
      BY <2>2, <3>1, <3>2
  <2> QED
    BY <2>1, <2>2 DEF CorrectMethod
<1> DEFINE m == MethodOf(by, r.credit, r.method)
           s == [r EXCEPT !.paidBy = by, !.method = m]
<1>3. m \in OrderMethods
  BY <1>1, MethodKind DEF BillRow
<1>4. Save(o, s) /\ s = [r EXCEPT !.paidBy = by, !.method = m]
  BY <1>2
<1> HIDE DEF r, m, s
<1>5. s \in BillRow /\ s.status = r.status /\ s.payment = r.payment /\ s.named = r.named /\ s.credit = r.credit
      /\ s.paid = r.paid /\ s.refunded = r.refunded /\ \A f \in Money : s[f] = r[f]
  BY <1>1, <1>3, <1>4 DEF BillRow, Money
<1>6. r.status \notin {"NONE", "DELETED"}
  BY <1>1, <1>2, NoBillRow, GoneRow DEF Sound
<1>7. CreditHasDebtor(s) /\ CancelledHoldsNothing(s)
  BY <1>1, <1>5 DEF Sound, CreditHasDebtor, CancelledHoldsNothing
<1>8. Sound(s) /\ s.collected = r.collected /\ s.subtotal = r.subtotal /\ s.discount = r.discount
  BY <1>1, <1>5, <1>6, <1>7, SameMoney
<1> QED
  BY <1>4, <1>5, <1>6, <1>8, SaveKeeps DEF r

\* A deleted order leaves nothing behind but what the account keeps of it.
LEMMA DeleteKeeps ==
  ASSUME IInv, NEW o \in Orders, Delete(o)
  PROVE  IInv' /\ BillStep
<1>1. Gone \in BillRow /\ Gone.status = "DELETED" /\ Sound(Gone)
  BY GoneRow, GoneSound
<1>2. \A p \in Orders : bill'[p] = IF p = o THEN Gone ELSE bill[p]
  BY DEF Delete, Save, IInv, TypeOK
<1>3. TypeOK'
  BY <1>1 DEF Delete, Save, account, IInv, TypeOK
<1>4. \A p \in Orders : Sound(bill'[p])
  BY <1>1, <1>2, OldRow
<1>5. Shared'
  BY <1>1, <1>2 DEF Delete, Save, account, IInv, Shared
<1>6. BillStep
  <2> SUFFICES ASSUME NEW p \in Orders, bill'[p].status # "DELETED"
               PROVE  /\ bill'[p].subtotal = bill[p].subtotal /\ bill'[p].discount = bill[p].discount
                      /\ bill'[p].total - bill[p].total \in (1 - UnitsPerRupee)..(UnitsPerRupee - 1)
    BY DEF BillStep
  <2>1. bill'[p] = bill[p]
    BY <1>1, <1>2
  <2>2. bill[p] \in BillRow /\ Sound(bill[p])
    BY OldRow
  <2> QED
    BY <2>1, <2>2, LessThanARupee
<1> QED
  BY <1>3, <1>4, <1>5, <1>6 DEF IInv

-----------------------------------------------------------------------------
(* One payment for everything the customer owes.                           *)

LEMMA Room ==
  ASSUME IInv, NEW o \in Orders, NEW scope
  PROVE  /\ Due(o) \in Nat /\ Limit(o, scope) \in Nat /\ Limit(o, scope) <= Due(o)
         /\ Due(o) > 0 => /\ bill[o].status \in {"PENDING", "OPEN"}
                          /\ bill[o].paid + Due(o) = bill[o].total
<1>1. bill[o].total \in Nat /\ bill[o].paid \in Nat /\ bill[o].credit \in Nat
  BY OldRow DEF BillRow
<1> DEFINE d == Due(o)
<1>2. d \in Nat /\ (d > 0 => bill[o].status \in {"PENDING", "OPEN"} /\ bill[o].paid + d = bill[o].total)
  BY <1>1 DEF Due, AtLeast
<1> HIDE DEF d
<1>3. Limit(o, scope) = IF scope = "CREDIT" THEN AtMost(bill[o].credit, d) ELSE d
  BY DEF Limit, d
<1>4. Limit(o, scope) \in Nat /\ Limit(o, scope) <= d
  BY <1>1, <1>2, <1>3 DEF AtMost
<1> QED
  BY <1>2, <1>4 DEF d

LEMMA Part ==
  ASSUME IInv, NEW o \in Orders, NEW scope, NEW amount \in Nat
  PROVE  Applied(o, amount, scope) \in Nat /\ Applied(o, amount, scope) <= Limit(o, scope)
<1> DEFINE limit == [p \in Orders |-> Limit(p, scope)]
           before == {p \in Orders : p < o}
<1>1. limit \in [Orders -> Int]
  BY Room
<1>2. IsFiniteSet(before) /\ before \in SUBSET Orders
  <2>1. IsFiniteSet(Orders)
    BY FS_Interval, MoneyAssumption DEF Orders
  <2>2. before \in SUBSET Orders
    OBVIOUS
  <2> HIDE DEF before
  <2> QED
    BY <2>1, <2>2, FS_Subset
<1> DEFINE sum == SumFunctionOnSet(limit, before)
<1>3. sum \in Int
  <2> HIDE DEF limit, before
  <2> QED
    BY <1>1, <1>2, SumInt
<1>4. Applied(o, amount, scope) = AtMost(Limit(o, scope), AtLeast(amount - sum, 0))
  BY DEF Applied, Available
<1> HIDE DEF sum
<1> QED
  BY <1>3, <1>4, Room DEF AtMost, AtLeast

LEMMA CollectKeeps ==
  ASSUME IInv, NEW scope \in {"DUE", "CREDIT"}, NEW method \in Methods, NEW amount \in Nat,
         Collect(amount, scope, method)
  PROVE  IInv' /\ BillStep
<1> DEFINE a(o) == Applied(o, amount, scope)
<1>1. \A o \in Orders : bill'[o] =
        IF a(o) = 0 THEN bill[o]
        ELSE [Tendered(bill[o], a(o), 0, {method}) EXCEPT !.collected = @ + a(o)]
  BY DEF Collect
<1>2. ASSUME NEW o \in Orders
      PROVE  /\ bill'[o] \in BillRow /\ Sound(bill'[o])
             /\ bill'[o].collected = bill[o].collected + a(o)
             /\ bill'[o].subtotal = bill[o].subtotal /\ bill'[o].discount = bill[o].discount
             /\ bill'[o].status = bill[o].status
  <2> DEFINE r == bill[o]
             n == a(o)
             t == Tendered(r, n, 0, {method})
             s == bill'[o]
  <2>1. r \in BillRow /\ Sound(r) /\ n \in Nat /\ n <= Due(o) /\ Due(o) \in Nat
    BY OldRow, Part, Room
  <2>2. CASE n = 0
    <3>1. s = r /\ r.collected \in Nat
      BY <1>1, <2>1, <2>2 DEF BillRow
    <3> QED
      BY <2>1, <2>2, <3>1
  <2>3. CASE n # 0
    <3>1. r.status \in {"PENDING", "OPEN"} /\ r.paid + Due(o) = r.total
      BY <2>1, <2>3, Room
    <3> HIDE DEF a
    <3>2. s = [t EXCEPT !.collected = t.collected + n]
      BY <1>1, <2>3
    <3> HIDE DEF r, n, s
    <3>3. r.paid \in Nat /\ r.total \in Nat
      BY <2>1 DEF BillRow
    <3>4. r.paid + n + 0 <= r.total
      BY <2>1, <3>1, <3>3
    <3>5. {method} \in SUBSET Methods
      OBVIOUS
    <3>6. /\ t \in BillRow /\ Sound(t) /\ t.collected = r.collected /\ t.subtotal = r.subtotal
          /\ t.discount = r.discount /\ t.status = r.status
      BY <2>1, <3>1, <3>4, <3>5, TenderedSound
    <3> HIDE DEF t
    <3>7. t.collected + n \in Nat
      BY <2>1, <3>6 DEF BillRow
    <3>8. /\ s \in BillRow /\ s.collected = t.collected + n
          /\ s.subtotal = t.subtotal /\ s.discount = t.discount /\ s.total = t.total /\ s.paid = t.paid
          /\ s.credit = t.credit /\ s.received = t.received /\ s.khata = t.khata /\ s.named = t.named
          /\ s.refunded = t.refunded /\ s.returned = t.returned
          /\ s.status = t.status /\ s.payment = t.payment
      BY <3>2, <3>6, <3>7 DEF BillRow
    <3>9. s.total \in Prices(s)
      BY <3>6, <3>8 DEF Sound, Prices
    <3>10. Sound(s)
      BY <3>1, <3>6, <3>8, <3>9 DEF Sound, PaidMeansCovered, CreditHasDebtor, CancelledHoldsNothing
    <3> QED
      BY <3>6, <3>8, <3>10 DEF r, n, s
  <2> QED
    BY <2>2, <2>3
<1>3. collections' = collections + amount /\ amount <= Available(Orders, scope)
  BY DEF Collect
<1>4. TypeOK'
  <2>1. bill' = [o \in Orders |-> bill'[o]]
    BY DEF Collect
  <2>2. collections' \in Nat
    BY <1>3 DEF IInv, TypeOK
  <2>3. \A o \in Orders : a(o) \in Nat /\ allocated[o] \in Nat
    BY Part DEF IInv, TypeOK
  <2>4. allocated' = [o \in Orders |-> allocated[o] + a(o)]
    BY DEF Collect
  <2> HIDE DEF a
  <2>5. allocated' \in [Orders -> Nat]
    BY <2>3, <2>4
  <2> QED
    BY <1>2, <2>1, <2>2, <2>5 DEF TypeOK
<1>5. Shared'
  <2> DEFINE limit == [o \in Orders |-> Limit(o, scope)]
             part == [o \in Orders |-> a(o)]
             old == allocated
             new == allocated'
  <2>1. /\ limit \in [Orders -> Nat] /\ part \in [Orders -> Int]
        /\ old \in [Orders -> Int] /\ new \in [Orders -> Int]
    <3>1. \A o \in Orders : Limit(o, scope) \in Nat /\ a(o) \in Nat
      BY Room, Part
    <3>2. allocated \in [Orders -> Nat] /\ allocated' \in [Orders -> Nat]
      BY <1>4 DEF IInv, TypeOK
    <3> HIDE DEF a
    <3> QED
      BY <3>1, <3>2
  <2>2. \A o \in Orders : part[o] =
          AtMost(limit[o], AtLeast(amount - SumFunctionOnSet(limit, {p \in Orders : p < o}), 0))
    BY DEF Applied, Available
  <2>3. amount <= SumFunctionOnSet(limit, Orders)
    BY <1>3 DEF Available
  <2>4. \A o \in Orders : new[o] = old[o] + part[o]
    BY DEF Collect
  <2>5. IsFiniteSet(Orders) /\ MaxOrders \in Nat /\ Orders = 1..MaxOrders
    BY FS_Interval, MoneyAssumption DEF Orders
  <2>6. DOMAIN old = Orders /\ DOMAIN new = Orders
    BY <2>1
  <2>7. collections = SumFunctionOnSet(old, Orders)
    BY <2>6 DEF IInv, Shared, SumFunction
  <2>8. SumFunction(new) = SumFunctionOnSet(new, Orders)
    BY <2>6 DEF SumFunction
  <2> HIDE DEF limit, part, old, new, a
  <2>9. SumFunctionOnSet(part, Orders) = amount
    <3>1. /\ limit \in [1..MaxOrders -> Nat] /\ part \in [1..MaxOrders -> Int]
          /\ amount <= SumFunctionOnSet(limit, 1..MaxOrders)
      BY <2>1, <2>3, <2>5
    <3>2. \A o \in 1..MaxOrders : part[o] =
            AtMost(limit[o], AtLeast(amount - SumFunctionOnSet(limit, {p \in 1..MaxOrders : p < o}), 0))
      BY <2>2 DEF Orders
    <3>3. SumFunctionOnSet(part, 1..MaxOrders) = amount
      BY <2>5, <3>1, <3>2, Spread
    <3> QED
      BY <2>5, <3>3
  <2>10. SumFunctionOnSet(new, Orders) = SumFunctionOnSet(old, Orders) + SumFunctionOnSet(part, Orders)
    BY <2>1, <2>4, <2>5, SumPlus
  <2>11. collections' = SumFunction(new)
    BY <1>3, <2>7, <2>8, <2>9, <2>10
  <2>12. ASSUME NEW o \in Orders, bill'[o].status # "DELETED"
         PROVE  bill'[o].collected = allocated'[o]
    <3>1. bill[o].collected = allocated[o]
      BY <1>2, <2>12 DEF IInv, Shared
    <3>2. allocated'[o] = allocated[o] + part[o] /\ bill'[o].collected = bill[o].collected + part[o]
      BY <1>2, <2>4 DEF new, old, part
    <3> QED
      BY <3>1, <3>2
  <2> QED
    BY <2>11, <2>12 DEF Shared, new
<1>6. BillStep
  <2> SUFFICES ASSUME NEW o \in Orders
               PROVE  /\ bill'[o].subtotal = bill[o].subtotal /\ bill'[o].discount = bill[o].discount
                      /\ bill'[o].total - bill[o].total \in (1 - UnitsPerRupee)..(UnitsPerRupee - 1)
    BY DEF BillStep
  <2> QED
    BY <1>2, OldRow, LessThanARupee
<1> QED
  BY <1>2, <1>4, <1>5, <1>6 DEF IInv

-----------------------------------------------------------------------------
(* The beginning, and every step.                                          *)

LEMMA InitIInv == Init => IInv
<1> SUFFICES ASSUME Init PROVE IInv
  OBVIOUS
<1>1. \A o \in Orders : bill[o] = NoBill
  BY DEF Init
<1>2. TypeOK
  BY NoBillRow DEF Init, TypeOK
<1>3. Net(0, 0) = 0
  BY NothingNet
<1>4. /\ NoBill.subtotal = 0 /\ NoBill.discount = 0 /\ NoBill.total = 0
  BY DEF NoBill
<1>5. NoBill.total \in Prices(NoBill)
  BY <1>3, <1>4 DEF Prices
<1>6. Sound(NoBill)
  BY <1>3, <1>4, <1>5, NoBillRow DEF Sound, PaidMeansCovered, CreditHasDebtor, CancelledHoldsNothing
<1>7. Shared
  <2> DEFINE z == [o \in Orders |-> 0]
  <2>1. z \in [Orders -> Int] /\ (\A o \in Orders : z[o] = z[o] + z[o]) /\ DOMAIN z = Orders
    OBVIOUS
  <2>2. IsFiniteSet(Orders) /\ Orders \in SUBSET Orders
    BY FS_Interval, MoneyAssumption DEF Orders
  <2> HIDE DEF z
  <2>3. SumFunctionOnSet(z, Orders) = SumFunctionOnSet(z, Orders) + SumFunctionOnSet(z, Orders)
    BY <2>1, <2>2, SumPlus
  <2>4. SumFunctionOnSet(z, Orders) \in Int
    BY <2>1, <2>2, SumInt
  <2>5. SumFunctionOnSet(z, Orders) = 0
    <3>1. \A x \in Int : x = x + x => x = 0
      OBVIOUS
    <3> QED
      BY <2>3, <2>4, <3>1
  <2>6. collections = SumFunction(z)
    BY <2>1, <2>5 DEF Init, SumFunction, z
  <2> QED
    BY <1>1, <2>6, NoBillRow DEF Init, Shared, z
<1> QED
  BY <1>1, <1>2, <1>6, <1>7 DEF IInv

LEMMA NextKeeps ==
  ASSUME IInv, Next
  PROVE  IInv' /\ BillStep
<1>1. Amounts \subseteq Nat /\ Rewards \subseteq Nat
  BY MoneyAssumption DEF Amounts
<1>2. ASSUME NEW o \in Orders, NEW reward \in Rewards, NEW subtotal \in Amounts \ {0},
             NEW manual \in Amounts, NEW method \in Methods, NEW named \in BOOLEAN,
             Create(o, subtotal, manual, reward, method, named)
      PROVE  IInv' /\ BillStep
  <2>1. subtotal \in Nat /\ manual \in Nat /\ reward \in Nat
    BY <1>1
  <2> QED
    BY <1>2, <2>1, CreateKeeps
<1>3. ASSUME NEW o \in Orders, NEW reward \in Rewards, NEW subtotal \in Amounts \ {0},
             WebCheckout(o, subtotal, reward)
      PROVE  IInv' /\ BillStep
  BY <1>1, <1>3, WebCheckoutKeeps
<1>4. ASSUME NEW o \in Orders, NEW reward \in Rewards, NEW price \in Amounts \ {0},
             Append(o, price, reward) \/ RemoveItem(o, price, reward)
      PROVE  IInv' /\ BillStep
  BY <1>1, <1>4, AppendKeeps, RemoveItemKeeps
<1>5. ASSUME NEW o \in Orders, NEW reward \in Rewards, NEW manual \in Amounts, NEW named \in BOOLEAN,
             Bill(o, manual, reward, named) \/ Settle(o, manual, reward, named)
      PROVE  IInv' /\ BillStep
  BY <1>1, <1>5, BillKeeps, SettleKeeps
<1>6. ASSUME NEW o \in Orders, NEW reward \in Rewards, NEW named \in BOOLEAN,
             CorrectCustomer(o, named, reward)
      PROVE  IInv' /\ BillStep
  BY <1>1, <1>6, CorrectCustomerKeeps
<1>7. ASSUME NEW o \in Orders, Accept(o) \/ Cancel(o) \/ CustomerCancel(o) \/ Delete(o)
      PROVE  IInv' /\ BillStep
  BY <1>7, AcceptKeeps, CancelKeeps, CustomerCancelKeeps, DeleteKeeps
<1>8. ASSUME NEW o \in Orders, NEW amount \in 1..bill[o].total, Refund(o, amount)
      PROVE  IInv' /\ BillStep
  <2>1. bill[o].total \in Nat
    BY OldRow DEF BillRow
  <2>2. amount \in Nat
    BY <2>1
  <2> QED
    BY <1>8, <2>2, RefundKeeps
<1>9. ASSUME NEW o \in Orders, NEW old \in Methods, NEW new \in Methods, NEW left \in BOOLEAN,
             CorrectMethod(o, old, new, left)
      PROVE  IInv' /\ BillStep
  BY <1>9, CorrectMethodKeeps
<1>10. ASSUME NEW scope \in {"DUE", "CREDIT"}, NEW method \in Methods,
              NEW amount \in 1..Available(Orders, scope), Collect(amount, scope, method)
       PROVE  IInv' /\ BillStep
  <2> DEFINE limit == [o \in Orders |-> Limit(o, scope)]
  <2>1. limit \in [Orders -> Int]
    <3>1. \A o \in Orders : Limit(o, scope) \in Nat
      BY Room
    <3> QED
      BY <3>1
  <2>2. IsFiniteSet(Orders) /\ Orders \in SUBSET Orders
    BY FS_Interval, MoneyAssumption DEF Orders
  <2>3. SumFunctionOnSet(limit, Orders) \in Int
    <3> HIDE DEF limit
    <3> QED
      BY <2>1, <2>2, SumInt
  <2>4. Available(Orders, scope) \in Int
    BY <2>3 DEF Available
  <2>5. amount \in Nat
    BY <2>4
  <2> QED
    BY <1>10, <2>5, CollectKeeps
<1> QED
  BY <1>2, <1>3, <1>4, <1>5, <1>6, <1>7, <1>8, <1>9, <1>10 DEF Next

LEMMA NextIInv == IInv /\ [Next]_vars => IInv'
<1>1. ASSUME IInv, UNCHANGED vars PROVE IInv'
  BY <1>1 DEF IInv, vars, account, TypeOK, Shared
<1> QED
  BY <1>1, NextKeeps

-----------------------------------------------------------------------------
(* Theorems.                                                               *)

LEMMA AlwaysIInv == Spec => []IInv
BY InitIInv, NextIInv, PTL DEF Spec

\* The orders' amounts and the customer's collections keep their types: no sequence of
\* commands makes an amount negative.
THEOREM TypeCorrect == Spec => []TypeOK
<1>1. IInv => TypeOK
  BY DEF IInv
<1> QED
  BY <1>1, AlwaysIInv, PTL

\* Each order's paid, refunded and khata amounts are the sums of its payments, refunds
\* and credit entries, and what is received against a customer's account is accounted
\* for, order by order, to the last unit, among the payments of every order that stands
\* (record_tenders, receive_customer_payment, delete_order).
THEOREM LedgerAlwaysAgrees == Spec => []LedgerAgrees
<1>1. IInv => LedgerAgrees
  BY DEF IInv, Sound, Shared, LedgerAgrees
<1> QED
  BY <1>1, AlwaysIInv, PTL

\* What is paid and promised never passes an order's price, and what is returned never
\* passes what was paid.
THEOREM NeverTooMuch == Spec => []NeverOverCollected
<1>1. IInv => NeverOverCollected
  BY DEF IInv, Sound, NeverOverCollected
<1> QED
  BY <1>1, AlwaysIInv, PTL

\* An order marked paid is covered by its payments, khata has a debtor, and a cancelled
\* order holds no money, whatever is corrected afterwards.
THEOREM AlwaysJustified == Spec => []StandingJustified
<1>1. IInv => StandingJustified
  BY DEF IInv, Sound, StandingJustified
<1> QED
  BY <1>1, AlwaysIInv, PTL

\* Until it is deleted, a billed, paid or promised order's subtotal and discount stay, and
\* its total moves by less than a rupee (totals, apply_totals, edit_customer_identity).
THEOREM BillsStayFrozen == Spec => BillFrozen
<1>1. IInv /\ [Next]_vars => [BillStep]_vars
  BY NextKeeps
<1> QED
  BY <1>1, AlwaysIInv, PTL DEF Spec, BillFrozen, BillStep

-----------------------------------------------------------------------------
(* Menu.                                                                   *)

\* Only combos have parts.
PlainAlone == \A p \in Plain : product[p].parts = {}

\* Menu m shows the rows of minute `at' under the ETag of that minute.
Shows(menu, at) ==
  /\ menu.until = Until(schedule, at)
  /\ \A p \in Products : Offered(menu.rows[p]) = Offered(RowOf(product, closed, stocked, override, schedule, at, p))

\* A menu is not labelled with a revision to come, and if with the current one, it is
\* that of some minute.
Labelled(menu) ==
  menu # NoMenu => /\ menu.revision <= revision
                   /\ menu.revision = revision => \E at \in Nat : Shows(menu, at)

\* What a request has read is what it still would read, unless the revision moved on.
Reads(r) ==
  r.step # "idle" =>
    /\ r.key.revision <= revision
    /\ r.step \in {"products", "overrides"} =>
         /\ r.product \in [Products -> ProductRow]
         /\ r.key.revision = revision => r.product = product /\ r.closed = closed
    /\ r.step = "overrides" =>
         /\ r.override \in [Products -> OverrideRow]
         /\ r.key.revision = revision => r.override = override

MenuInv ==
  /\ MenuTypeOK /\ PlainAlone /\ CombosFollowParts
  /\ \A n \in Revisions : Labelled(cache[n])
  /\ \A s \in Screens : Labelled(screen[s]) /\ Reads(request[s])

\* Prices are never negative.
LEMMA SumNat ==
  ASSUME NEW S, IsFiniteSet(S), NEW f \in [S -> Nat]
  PROVE  SumFunctionOnSet(f, S) \in Nat
<1> DEFINE Bad == {n \in Nat : \E T \in SUBSET S : Cardinality(T) = n /\ SumFunctionOnSet(f, T) \notin Nat}
<1>1. Bad = {}
  <2> SUFFICES ASSUME Bad # {} PROVE FALSE
    OBVIOUS
  <2>1. PICK n \in Bad : \A m \in Bad : n <= m
    BY LeastExists
  <2>2. PICK T \in SUBSET S : Cardinality(T) = n /\ SumFunctionOnSet(f, T) \notin Nat
    OBVIOUS
  <2>3. SumFunctionOnSet(f, T) = IF T = {} THEN 0 ELSE f[Some(T)] + SumFunctionOnSet(f, T \ {Some(T)})
    <3>1. IsFiniteSet(T) /\ f \in [S -> Int]
      BY FS_Subset
    <3> QED
      BY <3>1, SumFirst
  <2>4. T # {}
    BY <2>2, <2>3
  <2>5. /\ T \ {Some(T)} \in SUBSET S /\ Some(T) \in S
        /\ Cardinality(T \ {Some(T)}) \in Nat /\ Cardinality(T \ {Some(T)}) = n - 1
    BY <2>2, <2>4, TakeOut
  <2>6. n \in Nat
    OBVIOUS
  <2>7. n - 1 \notin Bad
    <3> HIDE DEF Bad
    <3> QED
      BY <2>1, <2>5, <2>6
  <2>8. SumFunctionOnSet(f, T \ {Some(T)}) \in Nat
    BY <2>5, <2>7
  <2> QED
    BY <2>2, <2>3, <2>4, <2>5, <2>8
<1>2. Cardinality(S) \in Nat
  BY FS_CardinalityType
<1> QED
  BY <1>1, <1>2

LEMMA PercentNat ==
  ASSUME NEW n \in Nat, NEW percent \in 0..100
  PROVE  Percent(n, percent) \in Nat
<1>1. n * percent \in Nat
  OBVIOUS
<1> DEFINE k == n * percent
<1>2. k \in Nat
  BY <1>1
<1> HIDE DEF k
<1>3. (k + 50) \div 100 \in Nat
  BY <1>2
<1> QED
  BY <1>3 DEF Percent, k

LEMMA DealNat ==
  ASSUME NEW deal \in Deals \cup {NoDeal}, NEW n \in Nat
  PROVE  Deal(deal, n) \in Nat
<1>1. deal.value \in Nat
  BY MenuAssumption DEF NoDeal
<1>2. CASE deal.kind = "percentage"
  <2>1. deal.value <= 100
    BY <1>2, MenuAssumption DEF NoDeal
  <2>2. 100 - deal.value \in 0..100
    BY <1>1, <2>1
  <2> QED
    BY <1>2, <2>2, PercentNat DEF Deal
<1>3. CASE deal.kind # "percentage"
  BY <1>1, <1>3 DEF Deal, AtLeast0
<1> QED
  BY <1>2, <1>3

LEMMA PartsNat ==
  ASSUME NEW parts \in SUBSET Plain, NEW price \in [parts -> Nat]
  PROVE  PriceOfParts(price) \in Nat
<1>1. IsFiniteSet(parts) /\ DOMAIN price = parts
  BY MenuAssumption, FS_Subset
<1> QED
  BY <1>1, SumNat DEF PriceOfParts

\* A combo priced again keeps everything but its price, and the same prices of its parts
\* give it the same price.
LEMMA RepricedIs ==
  ASSUME NEW row \in ProductRow, NEW P \in [Products -> ProductRow]
  PROVE  /\ Repriced(row, P) \in ProductRow
         /\ Repriced(row, P).state = row.state
         /\ Repriced(row, P).parts = row.parts
         /\ Repriced(row, P).deal = row.deal
         /\ Repriced(Repriced(row, P), P) = Repriced(row, P)
<1> DEFINE price == [q \in row.parts |-> P[q].price]
           n == Deal(row.deal, PriceOfParts(price))
<1>1. row.parts \in SUBSET Plain /\ row.deal \in Deals \cup {NoDeal}
  BY DEF ProductRow
<1>2. price \in [row.parts -> Nat]
  BY <1>1 DEF ProductRow, Products
<1>3. n \in Nat
  <2>1. PriceOfParts(price) \in Nat
    BY <1>1, <1>2, PartsNat
  <2> HIDE DEF price
  <2> QED
    BY <1>1, <2>1, DealNat
<1> DEFINE to == [row EXCEPT !.price = n]
<1>4. Repriced(row, P) = to
  BY DEF Repriced
<1> HIDE DEF n
<1>5. to \in ProductRow /\ to.state = row.state /\ to.parts = row.parts /\ to.deal = row.deal /\ to.price = n
  BY <1>3 DEF ProductRow
<1>6. Repriced(to, P) = [to EXCEPT !.price = n]
  BY <1>5 DEF Repriced, n
<1>7. [to EXCEPT !.price = n] = to
  <2> HIDE DEF to
  <2> QED
    BY <1>5 DEF ProductRow
<1> QED
  BY <1>4, <1>5, <1>6, <1>7

LEMMA RepricedSame ==
  ASSUME NEW row, NEW P, NEW Q, \A q \in row.parts : P[q].price = Q[q].price
  PROVE  Repriced(row, P) = Repriced(row, Q)
<1>1. [q \in row.parts |-> P[q].price] = [q \in row.parts |-> Q[q].price]
  OBVIOUS
<1> QED
  BY <1>1 DEF Repriced

\* A change leaves nothing labelled with the revision it makes.
LEMMA RevisionMoves ==
  ASSUME MenuInv, MenuChanged, UNCHANGED <<screen, delivery>>
  PROVE  /\ revision' \in 0..MaxRevision /\ revision' > revision
         /\ \A n \in Revisions : Labelled(cache[n])'
         /\ \A s \in Screens : Labelled(screen[s])' /\ Reads(request[s])'
<1>1. revision \in Nat /\ MaxRevision \in Nat
  BY MenuAssumption DEF MenuInv, MenuTypeOK
<1>2. revision' \in 0..MaxRevision /\ revision' > revision
  BY <1>1 DEF MenuChanged
<1>3. cache' = cache /\ screen' = screen /\ request' = request
  BY DEF delivery
<1>4. ASSUME NEW menu \in Compiled \cup {NoMenu}, Labelled(menu)
      PROVE  Labelled(menu)'
  <2>1. menu.revision \in Nat
    BY DEF Compiled, NoMenu
  <2>2. menu # NoMenu => menu.revision <= revision
    BY <1>4 DEF Labelled
  <2> QED
    BY <1>1, <1>2, <2>1, <2>2 DEF Labelled
<1>5. ASSUME NEW r \in Request, Reads(r)
      PROVE  Reads(r)'
  <2>1. r.key.revision \in Nat
    BY MenuAssumption DEF Request, Keys, Revisions
  <2>2. r.step # "idle" => r.key.revision <= revision
    BY <1>5 DEF Reads
  <2>3. r.step \in {"products", "overrides"} => r.product \in [Products -> ProductRow]
    BY <1>5 DEF Reads
  <2>4. r.step = "overrides" => r.override \in [Products -> OverrideRow]
    BY <1>5 DEF Reads
  <2>5. r.step # "idle" => r.key.revision <= revision' /\ r.key.revision # revision'
    BY <1>1, <1>2, <2>1, <2>2
  <2> QED
    BY <2>3, <2>4, <2>5 DEF Reads
<1>6. \A n \in Revisions : cache[n] \in Compiled \cup {NoMenu} /\ Labelled(cache[n])
  BY DEF MenuInv, MenuTypeOK
<1>7. \A s \in Screens : /\ screen[s] \in Compiled \cup {NoMenu} /\ Labelled(screen[s])
                         /\ request[s] \in Request /\ Reads(request[s])
  BY DEF MenuInv, MenuTypeOK
<1>8. ASSUME NEW n \in Revisions PROVE Labelled(cache[n])'
  BY <1>3, <1>4, <1>6
<1>9. ASSUME NEW s \in Screens PROVE Labelled(screen[s])' /\ Reads(request[s])'
  BY <1>3, <1>4, <1>5, <1>7
<1> QED
  BY <1>2, <1>8, <1>9

\* What a change of the catalogue has to keep.
CatalogueOK ==
  /\ product \in [Products -> ProductRow] /\ closed \subseteq Categories
  /\ override \in [Products -> OverrideRow] /\ schedule \in BOOLEAN /\ stocked \subseteq Products
  /\ PlainAlone /\ CombosFollowParts

LEMMA CatalogueOf ==
  ASSUME MenuInv
  PROVE  CatalogueOK
BY DEF MenuInv, MenuTypeOK, CatalogueOK

LEMMA ChangeKeeps ==
  ASSUME MenuInv, CatalogueOK', MenuChanged, UNCHANGED <<screen, delivery>>
  PROVE  MenuInv'
<1>1. MenuTypeOK'
  BY RevisionMoves DEF MenuInv, MenuTypeOK, CatalogueOK, delivery
<1> QED
  BY <1>1, RevisionMoves DEF MenuInv, CatalogueOK

\* The parts of active combos follow whatever is saved.
LEMMA SaveProductKeeps ==
  ASSUME MenuInv, NEW p \in Products, NEW row \in ProductRow, row.state = "active",
         p \in Plain => row.parts = {}, SaveProduct(p, row)
  PROVE  MenuInv'
<1> DEFINE saved == IF p \in Combos THEN Repriced(row, product) ELSE row
           with == [product EXCEPT ![p] = saved]
<1>0. CatalogueOK /\ product \in [Products -> ProductRow]
  BY CatalogueOf DEF CatalogueOK
<1>1. saved \in ProductRow /\ saved.state = "active" /\ saved.parts = row.parts
      /\ (p \in Combos => saved = Repriced(row, product) /\ Repriced(saved, product) = saved)
  BY <1>0, RepricedIs
<1>2. /\ p \in Combos => Composable(row, product)
      /\ \A c \in Containing(p) : Composable(with[c], with)
      /\ product' = Following(p, with)
      /\ MenuChanged
      /\ UNCHANGED <<closed, override, schedule, stocked, screen, delivery>>
  BY DEF SaveProduct
<1> HIDE DEF saved
<1>3. with \in [Products -> ProductRow] /\ with[p] = saved /\ \A q \in Products \ {p} : with[q] = product[q]
  BY <1>0, <1>1
<1> HIDE DEF with
<1>4. /\ product' \in [Products -> ProductRow]
      /\ \A c \in Containing(p) : product'[c] = Repriced(with[c], with)
      /\ \A c \in Products \ Containing(p) : product'[c] = with[c]
  <2>1. Containing(p) \subseteq Products
    BY DEF Containing, Products
  <2>2. \A c \in Products : Repriced(with[c], with) \in ProductRow
    BY <1>3, RepricedIs
  <2> HIDE DEF Containing
  <2> QED
    BY <1>2, <1>3, <2>1, <2>2 DEF Following
<1>5. Plain \cap Combos = {} /\ Containing(p) \subseteq Combos \ {p} /\ Plain \subseteq Products /\ Combos \subseteq Products
  BY MenuAssumption DEF Containing, Products
<1>6. \A q \in Plain : product'[q] = with[q]
  BY <1>4, <1>5
<1>7. PlainAlone'
  <2> SUFFICES ASSUME NEW q \in Plain PROVE with[q].parts = {}
    BY <1>6 DEF PlainAlone
  <2>1. CASE q = p
    BY <1>1, <1>3, <2>1
  <2>2. CASE q # p
    BY <1>0, <1>3, <1>5, <2>2 DEF CatalogueOK, PlainAlone
  <2> QED
    BY <2>1, <2>2
<1>8. ASSUME NEW c \in Combos, product'[c].state = "active"
      PROVE  /\ product'[c] = Repriced(product'[c], product')
             /\ product'[c].parts # {} /\ \A q \in product'[c].parts : product'[q].state = "active"
  <2>1. CASE c \in Containing(p)
    <3>1. with[c] \in ProductRow /\ product'[c] = Repriced(with[c], with) /\ Composable(with[c], with)
      BY <1>2, <1>3, <1>4, <1>5, <2>1
    <3>2. product'[c].parts = with[c].parts /\ Repriced(product'[c], with) = product'[c]
      BY <1>3, <3>1, RepricedIs
    <3>3. \A q \in product'[c].parts : q \in Plain /\ product'[q] = with[q]
      BY <1>6, <3>1, <3>2 DEF ProductRow
    <3>4. Repriced(product'[c], product') = Repriced(product'[c], with)
      BY <3>3, RepricedSame
    <3> QED
      BY <3>1, <3>2, <3>3, <3>4 DEF Composable
  <2>2. CASE c = p
    <3>1. product'[c] = saved /\ Composable(row, product) /\ Repriced(saved, product) = saved
      BY <1>1, <1>2, <1>3, <1>4, <1>5, <2>2
    <3>2. \A q \in saved.parts : q \in Plain /\ q # p
      BY <1>1, <1>5, <2>2 DEF ProductRow
    <3>3. \A q \in saved.parts : product'[q] = product[q]
      BY <1>3, <1>5, <1>6, <3>2
    <3>4. Repriced(saved, product') = Repriced(saved, product)
      BY <3>3, RepricedSame
    <3> QED
      BY <1>1, <3>1, <3>3, <3>4 DEF Composable
  <2>3. CASE c \notin Containing(p) /\ c # p
    <3>1. product'[c] = product[c] /\ product[c].state = "active" /\ product[c] \in ProductRow
      BY <1>0, <1>3, <1>4, <1>5, <1>8, <2>3
    <3>2. p \notin product[c].parts
      BY <2>3, <3>1 DEF Containing
    <3>3. \A q \in product[c].parts : q \in Plain
      BY <3>1 DEF ProductRow
    <3>4. \A q \in product[c].parts : product'[q] = product[q]
      BY <1>3, <1>5, <1>6, <3>2, <3>3
    <3>5. Repriced(product[c], product') = Repriced(product[c], product)
      BY <3>4, RepricedSame
    <3>6. /\ product[c] = Repriced(product[c], product)
          /\ product[c].parts # {} /\ \A q \in product[c].parts : product[q].state = "active"
      BY <1>0, <3>1 DEF CatalogueOK, CombosFollowParts
    <3> QED
      BY <3>1, <3>4, <3>5, <3>6
  <2> QED
    BY <2>1, <2>2, <2>3
<1>9. CombosFollowParts'
  BY <1>8 DEF CombosFollowParts
<1>10. CatalogueOK'
  BY <1>0, <1>2, <1>4, <1>7, <1>9 DEF CatalogueOK
<1> QED
  BY <1>2, <1>10, ChangeKeeps

LEMMA ProductKeeps ==
  ASSUME MenuInv
  PROVE  /\ \A p \in Plain, price \in BasePrices : ProductCreate(p, price, {}, NoDeal) => MenuInv'
         /\ \A p \in Combos, parts \in SUBSET Plain, deal \in Deals : ProductCreate(p, 0, parts, deal) => MenuInv'
         /\ \A p \in Products : ProductUpdate(p) => MenuInv'
<1>0. CatalogueOK /\ product \in [Products -> ProductRow]
  BY CatalogueOf DEF CatalogueOK
<1>1. Plain \cap Combos = {} /\ Plain \subseteq Products /\ Combos \subseteq Products /\ BasePrices \subseteq Nat
  BY MenuAssumption DEF Products
<1>2. ASSUME NEW p \in Plain, NEW price \in BasePrices, ProductCreate(p, price, {}, NoDeal)
      PROVE  MenuInv'
  <2> DEFINE row == [state |-> "active", price |-> price, parts |-> {}, deal |-> NoDeal]
  <2>1. row \in ProductRow /\ row.state = "active" /\ row.parts = {}
    BY <1>1 DEF ProductRow
  <2>2. SaveProduct(p, row)
    BY <1>2 DEF ProductCreate
  <2> HIDE DEF row
  <2> QED
    BY <1>1, <2>1, <2>2, SaveProductKeeps
<1>3. ASSUME NEW p \in Combos, NEW parts \in SUBSET Plain, NEW deal \in Deals, ProductCreate(p, 0, parts, deal)
      PROVE  MenuInv'
  <2> DEFINE row == [state |-> "active", price |-> 0, parts |-> parts, deal |-> deal]
  <2>1. row \in ProductRow /\ row.state = "active"
    BY DEF ProductRow
  <2>2. SaveProduct(p, row)
    BY <1>3 DEF ProductCreate
  <2> HIDE DEF row
  <2> QED
    BY <1>1, <2>1, <2>2, SaveProductKeeps
<1>4. ASSUME NEW p \in Products, ProductUpdate(p)
      PROVE  MenuInv'
  <2>1. product[p] \in ProductRow /\ product[p].state = "active" /\ (p \in Plain => product[p].parts = {})
    BY <1>0, <1>4 DEF ProductUpdate, CatalogueOK, PlainAlone
  <2>2. ASSUME NEW price \in BasePrices, SaveProduct(p, [product[p] EXCEPT !.price = price])
        PROVE  MenuInv'
    <3> DEFINE row == [product[p] EXCEPT !.price = price]
    <3>1. row \in ProductRow /\ row.state = "active" /\ row.parts = product[p].parts
      BY <1>1, <2>1 DEF ProductRow
    <3>2. SaveProduct(p, row)
      BY <2>2
    <3> HIDE DEF row
    <3> QED
      BY <2>1, <3>1, <3>2, SaveProductKeeps
  <2>3. ASSUME NEW parts \in SUBSET Plain, NEW deal \in Deals, p \in Combos,
               SaveProduct(p, [product[p] EXCEPT !.parts = parts, !.deal = deal])
        PROVE  MenuInv'
    <3> DEFINE row == [product[p] EXCEPT !.parts = parts, !.deal = deal]
    <3>1. row \in ProductRow /\ row.state = "active"
      BY <2>1 DEF ProductRow
    <3>2. SaveProduct(p, row) /\ p \notin Plain
      BY <1>1, <2>3
    <3> HIDE DEF row
    <3> QED
      BY <3>1, <3>2, SaveProductKeeps
  <2> QED
    BY <1>4, <2>2, <2>3 DEF ProductUpdate
<1> QED
  BY <1>2, <1>3, <1>4

LEMMA ProductArchiveKeeps ==
  ASSUME MenuInv, NEW p \in Products, ProductArchive(p)
  PROVE  MenuInv'
<1>0. CatalogueOK /\ product \in [Products -> ProductRow]
  BY CatalogueOf DEF CatalogueOK
<1> DEFINE to == [product[p] EXCEPT !.state = "archived"]
<1>1. /\ Containing(p) = {} /\ product' = [product EXCEPT ![p] = to] /\ MenuChanged
      /\ UNCHANGED <<closed, override, schedule, stocked, screen, delivery>>
  BY DEF ProductArchive, Archivable
<1>2. to \in ProductRow /\ to.state = "archived" /\ to.parts = product[p].parts /\ to.price = product[p].price
  BY <1>0 DEF ProductRow
<1> HIDE DEF to
<1>3. /\ product' \in [Products -> ProductRow] /\ product'[p] = to
      /\ \A q \in Products \ {p} : product'[q] = product[q]
  BY <1>0, <1>1, <1>2
<1>4. Plain \subseteq Products /\ Combos \subseteq Products
  BY DEF Products
<1>5. PlainAlone'
  BY <1>0, <1>2, <1>3, <1>4 DEF CatalogueOK, PlainAlone
<1>6. ASSUME NEW c \in Combos, product'[c].state = "active"
      PROVE  /\ product'[c] = Repriced(product'[c], product')
             /\ product'[c].parts # {} /\ \A q \in product'[c].parts : product'[q].state = "active"
  <2>1. c # p /\ product'[c] = product[c] /\ product[c] \in ProductRow
    BY <1>0, <1>2, <1>3, <1>4, <1>6
  <2>2. p \notin product[c].parts
    BY <1>1, <1>6, <2>1 DEF Containing
  <2>3. \A q \in product[c].parts : product'[q] = product[q]
    BY <1>3, <1>4, <2>1, <2>2 DEF ProductRow
  <2>4. Repriced(product[c], product') = Repriced(product[c], product)
    BY <2>3, RepricedSame
  <2>5. /\ product[c] = Repriced(product[c], product)
        /\ product[c].parts # {} /\ \A q \in product[c].parts : product[q].state = "active"
    BY <1>0, <1>6, <2>1 DEF CatalogueOK, CombosFollowParts
  <2> QED
    BY <2>1, <2>3, <2>4, <2>5
<1>7. CombosFollowParts'
  BY <1>6 DEF CombosFollowParts
<1>8. CatalogueOK'
  BY <1>0, <1>1, <1>3, <1>5, <1>7 DEF CatalogueOK
<1> QED
  BY <1>1, <1>8, ChangeKeeps

LEMMA OtherChangesKeep ==
  ASSUME MenuInv
  PROVE  /\ \A k \in Categories, archived \in BOOLEAN : CategoryUpdate(k, archived) => MenuInv'
         /\ \A p \in Products : OutletUpdate(p) => MenuInv'
         /\ \A active \in BOOLEAN : ScheduleChange(active) => MenuInv'
         /\ \A stock \in SUBSET Products : OrderStock(stock) => MenuInv'
<1>0. CatalogueOK
  BY CatalogueOf
<1>1. ASSUME NEW k \in Categories, NEW archived \in BOOLEAN, CategoryUpdate(k, archived)
      PROVE  MenuInv'
  <2>1. CatalogueOK'
    BY <1>0, <1>1 DEF CategoryUpdate, CatalogueOK, PlainAlone, CombosFollowParts
  <2> QED
    BY <1>1, <2>1, ChangeKeeps DEF CategoryUpdate
<1>2. ASSUME NEW p \in Products, OutletUpdate(p)
      PROVE  MenuInv'
  <2>1. override \in [Products -> OverrideRow]
    BY <1>0 DEF CatalogueOK
  <2>2. override' \in [Products -> OverrideRow]
    <3>1. ASSUME NEW on \in BOOLEAN, override' = [override EXCEPT ![p].on = on]
          PROVE  override' \in [Products -> OverrideRow]
      BY <2>1, <3>1 DEF OverrideRow
    <3>2. ASSUME NEW price \in OutletPrices \cup {NoPrice}, override' = [override EXCEPT ![p].price = price]
          PROVE  override' \in [Products -> OverrideRow]
      BY <2>1, <3>2 DEF OverrideRow
    <3>3. ASSUME NEW hidden \in BOOLEAN, override' = [override EXCEPT ![p].hidden = hidden]
          PROVE  override' \in [Products -> OverrideRow]
      BY <2>1, <3>3 DEF OverrideRow
    <3> QED
      BY <1>2, <3>1, <3>2, <3>3 DEF OutletUpdate
  <2>3. CatalogueOK'
    BY <1>0, <1>2, <2>2 DEF OutletUpdate, CatalogueOK, PlainAlone, CombosFollowParts
  <2> QED
    BY <1>2, <2>3, ChangeKeeps DEF OutletUpdate
<1>3. ASSUME NEW active \in BOOLEAN, ScheduleChange(active)
      PROVE  MenuInv'
  <2>1. CatalogueOK'
    BY <1>0, <1>3 DEF ScheduleChange, CatalogueOK, PlainAlone, CombosFollowParts
  <2> QED
    BY <1>3, <2>1, ChangeKeeps DEF ScheduleChange
<1>4. ASSUME NEW stock \in SUBSET Products, OrderStock(stock)
      PROVE  MenuInv'
  <2>1. CatalogueOK'
    BY <1>0, <1>4 DEF OrderStock, CatalogueOK, PlainAlone, CombosFollowParts
  <2> QED
    BY <1>4, <2>1, ChangeKeeps DEF OrderStock
<1> QED
  BY <1>1, <1>2, <1>3, <1>4

-----------------------------------------------------------------------------
(* Requests for the menu.                                                  *)

\* What a row offers depends neither on the stock nor on the minute, but for happy hours.
LEMMA SameOffer ==
  ASSUME NEW P, NEW C, NEW S, NEW T, NEW O, NEW sched, NEW m, NEW n, NEW p,
         Happy(sched, m) <=> Happy(sched, n)
  PROVE  Offered(RowOf(P, C, S, O, sched, m, p)) = Offered(RowOf(P, C, T, O, sched, n, p))
<1>1. ItemPrice(P, O, p, sched, m) = ItemPrice(P, O, p, sched, n)
  BY DEF ItemPrice
<1> QED
  BY <1>1 DEF Offered, RowOf

LEMMA BasePriceNat ==
  ASSUME NEW P \in [Products -> ProductRow], NEW O \in [Products -> OverrideRow], NEW p \in Products
  PROVE  BasePrice(P, O, p) \in Nat
<1>1. P[p].price \in Nat /\ (O[p].price # NoPrice => O[p].price \in Nat)
  BY MenuAssumption DEF ProductRow, OverrideRow
<1> QED
  BY <1>1 DEF BasePrice

LEMMA RowTyped ==
  ASSUME NEW P \in [Products -> ProductRow], NEW C, NEW S, NEW O \in [Products -> OverrideRow],
         NEW sched \in BOOLEAN, NEW m \in Nat, NEW p \in Products
  PROVE  RowOf(P, C, S, O, sched, m, p) \in Row
<1>1. P[p] \in ProductRow /\ P[p].price \in Nat /\ P[p].parts \in SUBSET Plain /\ P[p].deal \in Deals \cup {NoDeal}
  BY DEF ProductRow
<1>2. HappyPercent \in 0..100 /\ 100 - HappyPercent \in 0..100
  BY MenuAssumption
<1>3. Baseline(P, O, p) \in Nat
  <2> DEFINE price == [q \in P[p].parts |-> BasePrice(P, O, q)]
  <2>1. price \in [P[p].parts -> Nat]
    BY <1>1, BasePriceNat DEF Products
  <2>2. PriceOfParts(price) \in Nat
    BY <1>1, <2>1, PartsNat
  <2>3. Baseline(P, O, p) = Deal(P[p].deal, PriceOfParts(price))
    BY DEF Baseline
  <2> HIDE DEF price
  <2> QED
    BY <1>1, <2>2, <2>3, DealNat
<1>4. ItemPrice(P, O, p, sched, m) \in Nat
  <2> DEFINE amount == IF p \in Combos /\ O[p].price = NoPrice
                       THEN Baseline(P, O, p) ELSE BasePrice(P, O, p)
  <2>1. amount \in Nat
    BY <1>3, BasePriceNat
  <2>2. ItemPrice(P, O, p, sched, m) = IF Happy(sched, m) THEN Percent(amount, 100 - HappyPercent) ELSE amount
    BY DEF ItemPrice
  <2> HIDE DEF amount
  <2> QED
    BY <1>2, <2>1, <2>2, PercentNat
<1>5. Percent(P[p].price, 100 - HappyPercent) \in Nat
  BY <1>1, <1>2, PercentNat
<1> DEFINE r == RowOf(P, C, S, O, sched, m, p)
<1>6. r = [shown |-> r.shown, available |-> r.available, stocked |-> r.stocked, price |-> r.price]
      /\ r.shown \in BOOLEAN /\ r.available \in BOOLEAN /\ r.stocked \in BOOLEAN
  BY DEF RowOf
<1>7. r.price \in Nat
  BY <1>1, <1>4, <1>5 DEF RowOf
<1> HIDE DEF r
<1>8. r \in Row
  BY <1>6, <1>7 DEF Row
<1> QED
  BY <1>8 DEF r

LEMMA CompileTyped ==
  ASSUME NEW key \in Keys, NEW P \in [Products -> ProductRow], NEW C, NEW S,
         NEW O \in [Products -> OverrideRow], NEW sched \in BOOLEAN
  PROVE  Compile(key, P, C, S, O, sched) \in Compiled
<1>1. key.revision \in Nat /\ key.minute \in Nat
  BY MenuAssumption DEF Keys, Revisions
<1>2. Until(sched, key.minute) \in Nat
  BY <1>1 DEF Until
<1>3. \A p \in Products : RowOf(P, C, S, O, sched, key.minute, p) \in Row
  BY <1>1, RowTyped
<1> QED
  BY <1>1, <1>2, <1>3 DEF Compile, Compiled

\* A menu compiled from what was current under its revision is labelled honestly.
LEMMA CompileLabelled ==
  ASSUME NEW key \in Keys, NEW P, NEW C, NEW S, NEW O, key.revision <= revision,
         key.revision = revision => P = product /\ C = closed /\ O = override
  PROVE  Labelled(Compile(key, P, C, S, O, schedule))
<1> DEFINE menu == Compile(key, P, C, S, O, schedule)
<1>1. key.minute \in Nat
  BY MenuAssumption DEF Keys
<1>2. /\ menu.revision = key.revision /\ menu.until = Until(schedule, key.minute)
      /\ \A p \in Products : menu.rows[p] = RowOf(P, C, S, O, schedule, key.minute, p)
  BY DEF Compile
<1> HIDE DEF menu
<1>3. ASSUME key.revision = revision
      PROVE  Shows(menu, key.minute)
  <2> SUFFICES ASSUME NEW p \in Products
               PROVE  Offered(menu.rows[p]) = Offered(RowOf(product, closed, stocked, override, schedule, key.minute, p))
    BY <1>2 DEF Shows
  <2>1. menu.rows[p] = RowOf(product, closed, S, override, schedule, key.minute, p)
    BY <1>2, <1>3
  <2> QED
    BY <2>1, SameOffer
<1>4. Labelled(menu)
  BY <1>1, <1>2, <1>3 DEF Labelled
<1> QED
  BY <1>4 DEF menu

LEMMA StoreStockKeeps ==
  ASSUME MenuInv, NEW stock \in SUBSET Products, StoreStock(stock)
  PROVE  MenuInv'
<1>1. /\ UNCHANGED <<product, closed, override, schedule, revision, minute, cache, screen, request>>
      /\ stocked' \subseteq Products
  BY DEF StoreStock, delivery
<1>2. ASSUME NEW menu, Labelled(menu)
      PROVE  Labelled(menu)'
  <2>1. ASSUME NEW at \in Nat, Shows(menu, at)
        PROVE  Shows(menu, at)'
    <3>1. \A p \in Products :
            Offered(RowOf(product, closed, stocked, override, schedule, at, p))
              = Offered(RowOf(product, closed, stocked', override, schedule, at, p))
      BY SameOffer
    <3> QED
      BY <1>1, <2>1, <3>1 DEF Shows
  <2> QED
    BY <1>1, <1>2, <2>1 DEF Labelled
<1>3. MenuTypeOK' /\ PlainAlone' /\ CombosFollowParts'
  BY <1>1 DEF MenuInv, MenuTypeOK, PlainAlone, CombosFollowParts
<1>4. \A n \in Revisions : Labelled(cache[n])'
  BY <1>1, <1>2 DEF MenuInv
<1>5. \A s \in Screens : Labelled(screen[s])' /\ Reads(request[s])'
  BY <1>1, <1>2 DEF MenuInv, Reads
<1> QED
  BY <1>3, <1>4, <1>5 DEF MenuInv

\* What a step of a request has to keep.
LEMMA ServiceKeeps ==
  ASSUME MenuInv, UNCHANGED <<catalogue, revision>>, minute' \in 0..MaxMinute,
         cache' \in [Revisions -> Compiled \cup {NoMenu}],
         screen' \in [Screens -> Compiled \cup {NoMenu}],
         request' \in [Screens -> Request],
         \A n \in Revisions : Labelled(cache'[n]),
         \A s \in Screens : Labelled(screen'[s]) /\ Reads(request'[s])
  PROVE  MenuInv'
<1>1. UNCHANGED <<product, closed, override, schedule, stocked, revision>>
  BY DEF catalogue
<1>2. ASSUME NEW n \in Revisions PROVE Labelled(cache[n])'
  <2>1. Labelled(cache'[n])
    OBVIOUS
  <2> QED
    BY <1>1, <2>1 DEF Labelled, Shows
<1>3. ASSUME NEW s \in Screens PROVE Labelled(screen[s])' /\ Reads(request[s])'
  <2>1. Labelled(screen'[s]) /\ Reads(request'[s])
    OBVIOUS
  <2> QED
    BY <1>1, <2>1 DEF Labelled, Shows, Reads
<1>4. MenuTypeOK' /\ PlainAlone' /\ CombosFollowParts'
  BY <1>1 DEF MenuInv, MenuTypeOK, PlainAlone, CombosFollowParts
<1> QED
  BY <1>2, <1>3, <1>4 DEF MenuInv

LEMMA ServiceTyped ==
  ASSUME MenuInv
  PROVE  /\ revision \in Revisions /\ revision \in Nat /\ minute \in 0..MaxMinute /\ MaxMinute \in Nat
         /\ cache \in [Revisions -> Compiled \cup {NoMenu}]
         /\ screen \in [Screens -> Compiled \cup {NoMenu}]
         /\ request \in [Screens -> Request]
         /\ \A n \in Revisions : Labelled(cache[n])
         /\ \A s \in Screens : Labelled(screen[s]) /\ Reads(request[s])
BY MenuAssumption DEF MenuInv, MenuTypeOK, Revisions

LEMMA MenuMinuteKeeps ==
  ASSUME MenuInv, MinutePasses
  PROVE  MenuInv'
<1>1. /\ minute' \in 0..MaxMinute /\ cache' = [n \in Revisions |-> NoMenu]
      /\ UNCHANGED <<catalogue, revision, screen, request>>
  BY ServiceTyped DEF MinutePasses
<1>2. Labelled(NoMenu)
  BY DEF Labelled
<1> QED
  BY <1>1, <1>2, ServiceTyped, ServiceKeeps

\* A step of the request of s alone, which answers nothing.
LEMMA ReadKeeps ==
  ASSUME MenuInv, NEW s \in Screens, NEW r \in Request, Reads(r),
         request' = [request EXCEPT ![s] = r], Unchanged, UNCHANGED <<cache, screen>>
  PROVE  MenuInv'
<1>1. request' \in [Screens -> Request] /\ \A t \in Screens : Reads(request'[t])
  BY ServiceTyped
<1>2. minute' \in 0..MaxMinute /\ UNCHANGED <<catalogue, revision>>
  BY ServiceTyped DEF Unchanged
<1> QED
  BY <1>1, <1>2, ServiceTyped, ServiceKeeps

LEMMA NoRequestReads == NoRequest \in Request /\ Reads(NoRequest)
BY MenuAssumption DEF NoRequest, Request, Keys, Revisions, Step, Reads

\* An honestly labelled menu may be answered, or left for one with the same ETag.
LEMMA AnswerKeeps ==
  ASSUME MenuInv, NEW s \in Screens, NEW menu \in Compiled \cup {NoMenu}, Labelled(menu),
         Answer(s, menu), Unchanged,
         cache' \in [Revisions -> Compiled \cup {NoMenu}], \A n \in Revisions : Labelled(cache'[n])
  PROVE  MenuInv'
<1>1. request' = [request EXCEPT ![s] = NoRequest]
  BY DEF Answer
<1>2. request' \in [Screens -> Request] /\ \A t \in Screens : Reads(request'[t])
  BY <1>1, NoRequestReads, ServiceTyped
<1>3. screen' = [screen EXCEPT ![s] = screen[s]] \/ screen' = [screen EXCEPT ![s] = menu]
  BY DEF Answer
<1>4. screen' \in [Screens -> Compiled \cup {NoMenu}] /\ \A t \in Screens : Labelled(screen'[t])
  BY <1>3, ServiceTyped
<1>5. minute' \in 0..MaxMinute /\ UNCHANGED <<catalogue, revision>>
  BY ServiceTyped DEF Unchanged
<1> QED
  BY <1>2, <1>4, <1>5, ServiceKeeps

LEMMA ServeKeeps ==
  ASSUME MenuInv, NEW s \in Screens, Serve(s)
  PROVE  MenuInv'
<1>0. CatalogueOK
  BY CatalogueOf
<1> DEFINE r == request[s]
<1>1. r \in Request /\ r.key \in Keys /\ r.key.revision \in Revisions /\ Reads(r)
  BY ServiceTyped DEF Request, Keys
<1>2. CASE Ask(s)
  <2> DEFINE to == [NoRequest EXCEPT !.step = "asked", !.key = [revision |-> revision, minute |-> minute]]
  <2>1. to \in Request
    BY NoRequestReads, ServiceTyped DEF Request, Keys, Step, NoRequest
  <2>2. to.step = "asked" /\ to.key.revision = revision
    BY DEF NoRequest
  <2>3. request' = [request EXCEPT ![s] = to] /\ Unchanged /\ UNCHANGED <<cache, screen>>
    BY <1>2 DEF Ask
  <2> HIDE DEF to
  <2>4. Reads(to)
    BY <2>2, ServiceTyped DEF Reads
  <2> QED
    BY <2>1, <2>3, <2>4, ReadKeeps
<1>3. CASE Hit(s)
  <2>1. /\ cache[r.key.revision] \in Compiled \cup {NoMenu} /\ Labelled(cache[r.key.revision])
        /\ Answer(s, cache[r.key.revision]) /\ Unchanged /\ cache' = cache
    BY <1>1, <1>3, ServiceTyped DEF Hit
  <2> QED
    BY <2>1, AnswerKeeps, ServiceTyped
<1>4. CASE GiveUp(s)
  BY <1>4, NoRequestReads, ReadKeeps DEF GiveUp
<1>5. CASE ReadProducts(s)
  <2> DEFINE to == [r EXCEPT !.step = "products", !.product = product, !.closed = closed, !.stocked = stocked]
  <2>1. to \in Request
    BY <1>0, <1>1 DEF Request, Step, CatalogueOK
  <2>2. r.step # "idle" /\ request' = [request EXCEPT ![s] = to] /\ Unchanged /\ UNCHANGED <<cache, screen>>
    BY <1>5, ServiceTyped DEF ReadProducts
  <2>3. to.step = "products" /\ to.key = r.key /\ to.product = product /\ to.closed = closed
    BY <1>1 DEF Request
  <2> HIDE DEF to
  <2>4. Reads(to)
    BY <1>0, <1>1, <2>2, <2>3 DEF Reads, CatalogueOK
  <2> QED
    BY <2>1, <2>2, <2>4, ReadKeeps
<1>6. CASE ReadOverrides(s)
  <2> DEFINE to == [r EXCEPT !.step = "overrides", !.override = override]
  <2>1. to \in Request
    BY <1>0, <1>1 DEF Request, Step, CatalogueOK
  <2>2. r.step = "products" /\ request' = [request EXCEPT ![s] = to] /\ Unchanged /\ UNCHANGED <<cache, screen>>
    BY <1>6, ServiceTyped DEF ReadOverrides
  <2>3. to.step = "overrides" /\ to.key = r.key /\ to.product = r.product /\ to.closed = r.closed /\ to.override = override
    BY <1>1 DEF Request
  <2> HIDE DEF to
  <2>4. Reads(to)
    BY <1>0, <1>1, <2>2, <2>3 DEF Reads, CatalogueOK
  <2> QED
    BY <2>1, <2>2, <2>4, ReadKeeps
<1>7. CASE Finish(s)
  <2> DEFINE menu == Compile(r.key, r.product, r.closed, r.stocked, r.override, schedule)
  <2>1. /\ r.step = "overrides"
        /\ cache' = [cache EXCEPT ![r.key.revision] = menu] \/ cache' = cache
        /\ Answer(s, menu) /\ Unchanged
    BY <1>7 DEF Finish, Label
  <2>2. /\ r.product \in [Products -> ProductRow] /\ r.override \in [Products -> OverrideRow]
        /\ r.key.revision <= revision
        /\ r.key.revision = revision => r.product = product /\ r.closed = closed /\ r.override = override
    BY <1>1, <2>1 DEF Reads
  <2>3. schedule \in BOOLEAN
    BY <1>0 DEF CatalogueOK
  <2> HIDE DEF r
  <2>4. menu \in Compiled
    BY <1>1, <2>2, <2>3, CompileTyped
  <2>5. Labelled(menu)
    BY <1>1, <2>2, CompileLabelled
  <2> HIDE DEF menu
  <2>6. cache' \in [Revisions -> Compiled \cup {NoMenu}] /\ \A n \in Revisions : Labelled(cache'[n])
    BY <1>1, <2>1, <2>4, <2>5, ServiceTyped
  <2> QED
    BY <2>1, <2>4, <2>5, <2>6, AnswerKeeps
<1> QED
  BY <1>2, <1>3, <1>4, <1>5, <1>6, <1>7 DEF Serve

LEMMA BuildElsewhereKeeps ==
  ASSUME MenuInv, NEW n \in Revisions, BuildElsewhere(n)
  PROVE  MenuInv'
<1> DEFINE key == [revision |-> n, minute |-> minute]
           menu == Compile(key, product, closed, stocked, override, schedule)
<1>1. cache' = [cache EXCEPT ![n] = menu] /\ Unchanged /\ UNCHANGED <<screen, request>>
  BY DEF BuildElsewhere
<1>2. n <= revision
  <2>1. CASE n = revision
    BY <2>1, ServiceTyped
  <2>2. ASSUME NEW s \in Screens, request[s].step # "idle", request[s].key.revision = n
        PROVE  n <= revision
    BY <2>2, ServiceTyped DEF Reads
  <2> QED
    BY <2>1, <2>2 DEF BuildElsewhere
<1>3. key \in Keys /\ key.revision = n
  BY ServiceTyped DEF Keys
<1> HIDE DEF key
<1>4. menu \in Compiled
  BY <1>3, CatalogueOf, CompileTyped DEF CatalogueOK
<1>5. Labelled(menu)
  BY <1>2, <1>3, CompileLabelled
<1> HIDE DEF menu
<1>6. cache' \in [Revisions -> Compiled \cup {NoMenu}] /\ \A k \in Revisions : Labelled(cache'[k])
  BY <1>1, <1>4, <1>5, ServiceTyped
<1>7. minute' \in 0..MaxMinute /\ UNCHANGED <<catalogue, revision>>
  BY <1>1, ServiceTyped DEF Unchanged
<1> QED
  BY <1>1, <1>6, <1>7, ServiceTyped, ServiceKeeps

LEMMA LoadedOK ==
  ASSUME NEW parts \in {{}, Plain}, NEW deal \in Deals, product = Loaded(parts, deal)
  PROVE  product \in [Products -> ProductRow] /\ PlainAlone /\ CombosFollowParts
<1> DEFINE plain == [p \in Products |->
                      [state |-> IF p \in Plain THEN "active" ELSE "absent",
                       price |-> IF p \in Plain THEN CHOOSE n \in BasePrices : TRUE ELSE 0,
                       parts |-> {}, deal |-> NoDeal]]
           new(p) == [plain[p] EXCEPT !.state = "active", !.parts = parts, !.deal = deal]
<1>1. Plain \cap Combos = {} /\ Plain \subseteq Products /\ Combos \subseteq Products
  BY MenuAssumption DEF Products
<1>2. (CHOOSE n \in BasePrices : TRUE) \in Nat
  BY MenuAssumption
<1>3. product = [p \in Products |-> IF p \in Plain \/ parts = {} THEN plain[p] ELSE Repriced(new(p), plain)]
  BY DEF Loaded
<1>4. /\ plain \in [Products -> ProductRow]
      /\ \A p \in Products : plain[p].parts = {}
      /\ \A p \in Combos : plain[p].state = "absent"
      /\ \A p \in Plain : plain[p].state = "active"
  BY <1>1, <1>2 DEF ProductRow
<1> HIDE DEF plain
<1>5. ASSUME NEW p \in Products
      PROVE  new(p) \in ProductRow /\ new(p).state = "active" /\ new(p).parts = parts
  <2>1. plain[p] \in ProductRow /\ parts \in SUBSET Plain
    BY <1>4
  <2> QED
    BY <2>1 DEF ProductRow
<1> HIDE DEF new
<1>6. \A p \in Products : Repriced(new(p), plain) \in ProductRow
  BY <1>4, <1>5, RepricedIs
<1>7. product \in [Products -> ProductRow]
  BY <1>3, <1>4, <1>6
<1>8. PlainAlone
  BY <1>1, <1>3, <1>4 DEF PlainAlone
<1>9. ASSUME NEW c \in Combos, product[c].state = "active"
      PROVE  /\ product[c] = Repriced(product[c], product)
             /\ product[c].parts # {} /\ \A q \in product[c].parts : product[q].state = "active"
  <2>1. c \in Products /\ c \notin Plain
    BY <1>1
  <2>2. parts = Plain /\ parts # {} /\ product[c] = Repriced(new(c), plain)
    BY <1>3, <1>4, <1>9, <2>1
  <2>3. product[c].parts = Plain /\ Repriced(product[c], plain) = product[c]
    BY <1>4, <1>5, <2>1, <2>2, RepricedIs
  <2>4. \A q \in Plain : product[q] = plain[q]
    BY <1>1, <1>3
  <2>5. Repriced(product[c], product) = Repriced(product[c], plain)
    BY <2>3, <2>4, RepricedSame
  <2> QED
    BY <1>4, <2>2, <2>3, <2>4, <2>5
<1> QED
  BY <1>7, <1>8, <1>9 DEF CombosFollowParts

LEMMA MenuInitInv == MenuInit => MenuInv
<1> SUFFICES ASSUME MenuInit PROVE MenuInv
  OBVIOUS
<1>1. product \in [Products -> ProductRow] /\ PlainAlone /\ CombosFollowParts
  BY LoadedOK DEF MenuInit
<1>2. override \in [Products -> OverrideRow]
  BY DEF MenuInit, NoOverride, OverrideRow
<1>3. MenuTypeOK
  <2>1. /\ cache \in [Revisions -> Compiled \cup {NoMenu}]
        /\ screen \in [Screens -> Compiled \cup {NoMenu}]
        /\ request \in [Screens -> Request]
    BY NoRequestReads DEF MenuInit
  <2>2. closed \subseteq Categories /\ schedule \in BOOLEAN /\ stocked \subseteq Products
    BY DEF MenuInit
  <2>3. revision \in 0..MaxRevision /\ minute \in 0..MaxMinute
    BY MenuAssumption DEF MenuInit
  <2> QED
    BY <1>1, <1>2, <2>1, <2>2, <2>3 DEF MenuTypeOK
<1>4. Labelled(NoMenu)
  BY DEF Labelled
<1>5. \A n \in Revisions : Labelled(cache[n])
  BY <1>4 DEF MenuInit
<1>6. \A s \in Screens : Labelled(screen[s]) /\ Reads(request[s])
  BY <1>4, NoRequestReads DEF MenuInit
<1> QED
  BY <1>1, <1>3, <1>5, <1>6 DEF MenuInv

LEMMA MenuNextInv == MenuInv /\ [MenuNext]_menuVars => MenuInv'
<1> SUFFICES ASSUME MenuInv, [MenuNext]_menuVars PROVE MenuInv'
  OBVIOUS
<1>1. CASE Change
  <2>1. \A gone \in SUBSET Scarce : Products \ gone \in SUBSET Products /\ stocked \ gone \in SUBSET Products
    BY DEF MenuInv, MenuTypeOK
  <2> QED
    BY <1>1, <2>1, ProductKeeps, ProductArchiveKeeps, OtherChangesKeep, StoreStockKeeps DEF Change
<1>2. CASE MinutePasses
  BY <1>2, MenuMinuteKeeps
<1>3. CASE \E s \in Screens : Serve(s)
  BY <1>3, ServeKeeps
<1>4. CASE \E n \in Revisions : BuildElsewhere(n)
  BY <1>4, BuildElsewhereKeeps
<1>5. CASE UNCHANGED menuVars
  <2>1. UNCHANGED <<catalogue, revision, minute, cache, screen, request>>
    BY <1>5 DEF menuVars, delivery
  <2> QED
    BY <2>1, ServiceTyped, ServiceKeeps
<1> QED
  BY <1>1, <1>2, <1>3, <1>4, <1>5 DEF MenuNext

LEMMA AlwaysMenuInv == MenuSpec => []MenuInv
BY MenuInitInv, MenuNextInv, PTL DEF MenuSpec

LEMMA HonestTag ==
  ASSUME MenuInv
  PROVE  ETagHonest
<1> SUFFICES ASSUME NEW s \in Screens, screen[s] # NoMenu, UpToDate(s), NEW p \in Products
             PROVE  Offered(screen[s].rows[p]) = Offered(Now.rows[p])
  BY DEF ETagHonest
<1>1. screen[s].revision = revision /\ screen[s].until = Until(schedule, minute)
  BY DEF UpToDate, Now, Compile
<1>2. PICK at \in Nat : Shows(screen[s], at)
  BY <1>1, ServiceTyped DEF Labelled
<1>3. Until(schedule, at) = Until(schedule, minute) /\ minute \in Nat
  BY <1>1, <1>2, ServiceTyped DEF Shows
<1>4. Happy(schedule, at) <=> Happy(schedule, minute)
  <2>1. CASE schedule
    <3>1. at = minute
      BY <1>3, <2>1 DEF Until
    <3> QED
      BY <3>1
  <2>2. CASE ~schedule
    BY <2>2 DEF Happy
  <2> QED
    BY <2>1, <2>2
<1>5. Now.rows[p] = RowOf(product, closed, stocked, override, schedule, minute, p)
  BY DEF Now, Compile
<1>6. Offered(screen[s].rows[p]) = Offered(RowOf(product, closed, stocked, override, schedule, at, p))
  BY <1>2 DEF Shows
<1> QED
  BY <1>4, <1>5, <1>6, SameOffer

LEMMA QuoteIsRow ==
  ASSUME MenuInv
  PROVE  MenuMatchesQuote
<1> SUFFICES ASSUME NEW p \in Products
             PROVE  /\ Quotable(p) <=> Now.rows[p].shown /\ Now.rows[p].available
                    /\ Quotable(p) => Quote(p) = Now.rows[p].price
  BY DEF MenuMatchesQuote
<1>1. Now.rows[p] = RowOf(product, closed, stocked, override, schedule, minute, p)
  BY DEF Now, Compile
<1>2. Plain \cap Combos = {} /\ (p \in Plain \/ p \in Combos) /\ (p \in Plain => product[p].parts = {})
  BY MenuAssumption DEF Products, MenuInv, PlainAlone
<1> DEFINE whole == p \in Plain \/ Whole(product, closed, p)
           row == Now.rows[p]
<1>3. /\ row.shown <=> /\ product[p].state = "active" /\ CategoryOf[p] \notin closed
                       /\ ~override[p].hidden
      /\ row.available <=> /\ OnSale(product, closed, override, p) /\ whole
                           /\ \A q \in product[p].parts : OnSale(product, closed, override, q)
      /\ whole => row.price = ItemPrice(product, override, p, schedule, minute)
  BY <1>1 DEF RowOf
<1> HIDE DEF row
<1>4. Quotable(p) <=> row.shown /\ row.available
  BY <1>2, <1>3 DEF Quotable, OnSale
<1>5. Quotable(p) => Quote(p) = row.price
  BY <1>2, <1>3 DEF Quotable, Quote
<1> QED
  BY <1>4, <1>5 DEF row

\* A screen whose ETag is the current one shows the current menu, however many requests
\* build menus between the changes of however many managers (get_outlet_menu).
THEOREM ETagAlwaysHonest == MenuSpec => []ETagHonest
<1>1. MenuInv => ETagHonest
  BY HonestTag
<1> QED
  BY <1>1, AlwaysMenuInv, PTL

\* Exactly the items a menu shows as available can be ordered, at the price shown, for any
\* products, combos, deals, overrides and happy hours (quote_items, _compile_menu).
THEOREM MenuAlwaysMatches == MenuSpec => []MenuMatchesQuote
<1>1. MenuInv => MenuMatchesQuote
  BY QuoteIsRow
<1> QED
  BY <1>1, AlwaysMenuInv, PTL

\* The stored price of an active combo is that of its parts as they are, and none of them
\* is archived, after any edits in any order (_save_product, product_archive).
THEOREM CombosAlwaysFollow == MenuSpec => []CombosFollowParts
<1>1. MenuInv => CombosFollowParts
  BY DEF MenuInv
<1> QED
  BY <1>1, AlwaysMenuInv, PTL
=============================================================================
