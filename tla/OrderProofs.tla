---------------------------- MODULE OrderProofs ----------------------------
(***************************************************************************)
(* Lemmas about Order for every finite set of numbers: InOrder lists each  *)
(* number once, at the place given by how many come before it; a number    *)
(* that is added moves others back, never forward; and the part of a       *)
(* sequence grows at its end when the sequence does.                       *)
(***************************************************************************)
EXTENDS Order, FiniteSetTheorems, TLAPS

(* The larger of two numbers of a set has more numbers before it.          *)
LEMMA RankType ==
  ASSUME NEW S \in SUBSET Nat, IsFiniteSet(S), NEW x \in Nat
  PROVE  /\ IsFiniteSet(Before(S, x)) /\ Cardinality(Before(S, x)) \in Nat
         /\ Cardinality(S) \in Nat /\ Cardinality(Before(S, x)) <= Cardinality(S)
         /\ x \in S => Cardinality(Before(S, x)) < Cardinality(S)
<1>1. Before(S, x) \subseteq S
  BY DEF Before
<1>2. /\ IsFiniteSet(Before(S, x)) /\ Cardinality(Before(S, x)) <= Cardinality(S)
      /\ (Cardinality(S) = Cardinality(Before(S, x)) => S = Before(S, x))
  BY <1>1, FS_Subset
<1>3. Cardinality(Before(S, x)) \in Nat /\ Cardinality(S) \in Nat
  BY <1>2, FS_CardinalityType
<1>4. x \notin Before(S, x)
  BY DEF Before
<1> QED
  BY <1>2, <1>3, <1>4

LEMMA RankGrows ==
  ASSUME NEW S \in SUBSET Nat, IsFiniteSet(S), NEW x \in S, NEW y \in S, x < y
  PROVE  Cardinality(Before(S, x)) < Cardinality(Before(S, y))
<1>1. Before(S, x) = Before(Before(S, y), x)
  <2>1. ASSUME NEW z \in S, z < x PROVE z < y
    <3> z \in Nat /\ x \in Nat /\ y \in Nat
      OBVIOUS
    <3> QED
      BY <2>1
  <2> QED
    BY <2>1 DEF Before
<1>2. /\ IsFiniteSet(Before(S, y)) /\ Before(S, y) \subseteq Nat /\ x \in Before(S, y)
  BY RankType DEF Before
<1> HIDE DEF Before
<1> QED
  BY <1>1, <1>2, RankType

LEMMA RankDiffers ==
  ASSUME NEW S \in SUBSET Nat, IsFiniteSet(S), NEW x \in S, NEW y \in S,
         Cardinality(Before(S, x)) = Cardinality(Before(S, y))
  PROVE  x = y
<1>1. CASE x < y
  BY <1>1, RankGrows, RankType
<1>2. CASE y < x
  <2>1. Cardinality(Before(S, y)) < Cardinality(Before(S, x))
    BY <1>2, RankGrows
  <2> QED
    BY <2>1, RankType
<1> QED
  BY <1>1, <1>2

(* Every place in the order is some number's: two numbers share none.      *)
LEMMA RankReached ==
  ASSUME NEW S \in SUBSET Nat, IsFiniteSet(S), NEW k \in 1..Cardinality(S)
  PROVE  \E x \in S : Cardinality(Before(S, x)) = k - 1
<1> SUFFICES ASSUME \A x \in S : Cardinality(Before(S, x)) # k - 1 PROVE FALSE
  OBVIOUS
<1>1. Cardinality(S) \in Nat
  BY FS_CardinalityType
<1> DEFINE n == Cardinality(S)
           T == (0..(n - 1)) \ {k - 1}
           rank == [x \in S |-> Cardinality(Before(S, x))]
<1>2. IsFiniteSet(0..(n - 1)) /\ Cardinality(0..(n - 1)) = n
  <2>1. 0 \in Int /\ n - 1 \in Int /\ (IF 0 > n - 1 THEN 0 ELSE (n - 1) - 0 + 1) = n
    BY <1>1
  <2> HIDE DEF n
  <2> QED
    BY <2>1, FS_Interval
<1>3. IsFiniteSet(T) /\ Cardinality(T) = n - 1
  <2>1. k - 1 \in 0..(n - 1)
    BY <1>1
  <2>2. PICK A : A = 0..(n - 1)
    OBVIOUS
  <2>3. IsFiniteSet(A \ {k - 1}) /\ Cardinality(A \ {k - 1}) = Cardinality(A) - 1
    BY <1>2, <2>1, <2>2, FS_RemoveElement
  <2> QED
    BY <1>2, <2>2, <2>3
<1>4. rank \in [S -> T]
  BY <1>1, RankType
<1>5. Cardinality(T) < Cardinality(S)
  BY <1>1, <1>3
<1>6. \E x, y \in S : x # y /\ rank[x] = rank[y]
  <2> HIDE DEF T, rank
  <2> QED
    BY <1>3, <1>4, <1>5, FS_PigeonHole
<1> QED
  BY <1>6, RankDiffers

(* InOrder lists the numbers, each at the place its rank says.             *)
LEMMA InOrderLists ==
  ASSUME NEW S \in SUBSET Nat, IsFiniteSet(S)
  PROVE  /\ InOrder(S) \in Seq(S) /\ Len(InOrder(S)) = Cardinality(S)
         /\ DOMAIN InOrder(S) = 1..Cardinality(S)
         /\ \A k \in 1..Cardinality(S) :
              InOrder(S)[k] \in S /\ Cardinality(Before(S, InOrder(S)[k])) = k - 1
         /\ \A x \in S : /\ Cardinality(Before(S, x)) + 1 \in 1..Cardinality(S)
                         /\ InOrder(S)[Cardinality(Before(S, x)) + 1] = x
<1>1. Cardinality(S) \in Nat
  BY FS_CardinalityType
<1>2. ASSUME NEW k \in 1..Cardinality(S)
      PROVE  InOrder(S)[k] \in S /\ Cardinality(Before(S, InOrder(S)[k])) = k - 1
  BY RankReached DEF InOrder
<1>3. InOrder(S) \in [1..Cardinality(S) -> S]
  BY <1>2 DEF InOrder
<1>4. ASSUME NEW x \in S
      PROVE  /\ Cardinality(Before(S, x)) + 1 \in 1..Cardinality(S)
             /\ InOrder(S)[Cardinality(Before(S, x)) + 1] = x
  <2>1. Cardinality(Before(S, x)) + 1 \in 1..Cardinality(S)
    BY <1>1, RankType
  <2>2. PICK k \in 1..Cardinality(S) : k = Cardinality(Before(S, x)) + 1
    BY <2>1
  <2>3. InOrder(S)[k] \in S /\ Cardinality(Before(S, InOrder(S)[k])) = Cardinality(Before(S, x))
    BY <1>1, <1>2, <2>2, RankType
  <2> QED
    BY <2>1, <2>2, <2>3, RankDiffers
<1> QED
  BY <1>1, <1>2, <1>3, <1>4

(* A finite set of numbers that has any has a greatest.                    *)
LEMMA Greatest ==
  ASSUME NEW S \in SUBSET Nat, IsFiniteSet(S), S # {}
  PROVE  \E x \in S : \A y \in S : x >= y
<1>1. Cardinality(S) \in Nat /\ Cardinality(S) \in 1..Cardinality(S)
  BY FS_CardinalityType, FS_EmptySet
<1>2. PICK x \in S : Cardinality(Before(S, x)) = Cardinality(S) - 1
  BY <1>1, RankReached
<1>3. ASSUME NEW y \in S, x < y PROVE FALSE
  <2>1. Cardinality(Before(S, x)) < Cardinality(Before(S, y))
    BY <1>3, RankGrows
  <2>2. Cardinality(Before(S, y)) < Cardinality(S) /\ Cardinality(Before(S, y)) \in Nat
    BY RankType
  <2> QED
    BY <1>1, <1>2, <2>1, <2>2
<1> QED
  BY <1>3

(* A number stays where it is in the order, or moves back, when others     *)
(* arrive.                                                                 *)
LEMMA RankOfMore ==
  ASSUME NEW S \in SUBSET Nat, NEW T \in SUBSET Nat, S \subseteq T, IsFiniteSet(T),
         NEW x \in Nat
  PROVE  /\ IsFiniteSet(S)
         /\ Cardinality(Before(S, x)) \in Nat /\ Cardinality(Before(T, x)) \in Nat
         /\ Cardinality(Before(S, x)) <= Cardinality(Before(T, x))
<1>1. IsFiniteSet(S)
  BY FS_Subset
<1>2. Before(S, x) \subseteq Before(T, x)
  BY DEF Before
<1> QED
  BY <1>1, <1>2, RankType, FS_Subset

(* A number behind all others goes to the end.                             *)
LEMMA InOrderAppend ==
  ASSUME NEW S \in SUBSET Nat, IsFiniteSet(S), NEW m \in Nat, \A x \in S : x < m
  PROVE  /\ IsFiniteSet(S \cup {m}) /\ Cardinality(S \cup {m}) = Cardinality(S) + 1
         /\ \A k \in 1..Cardinality(S) : InOrder(S \cup {m})[k] = InOrder(S)[k]
         /\ InOrder(S \cup {m})[Cardinality(S) + 1] = m
<1> DEFINE T == S \cup {m}
<1>1. IsFiniteSet(T) /\ Cardinality(T) = Cardinality(S) + 1 /\ T \in SUBSET Nat
      /\ Cardinality(S) \in Nat
  <2>1. m \notin S
    OBVIOUS
  <2>2. T \in SUBSET Nat
    OBVIOUS
  <2> QED
    BY <2>1, <2>2, FS_AddElement, FS_CardinalityType
<1>2. ASSUME NEW x \in S PROVE Before(T, x) = Before(S, x)
  <2>1. ~ (m < x)
    <3> x \in Nat /\ x < m
      OBVIOUS
    <3> QED
      OBVIOUS
  <2> QED
    BY <2>1 DEF Before
<1>3. Before(T, m) = S
  <2>1. ~ (m < m)
    OBVIOUS
  <2> QED
    BY <2>1 DEF Before
<1> HIDE DEF T
<1>4. ASSUME NEW k \in 1..Cardinality(S) PROVE InOrder(T)[k] = InOrder(S)[k]
  <2>1. InOrder(S)[k] \in S /\ Cardinality(Before(S, InOrder(S)[k])) = k - 1
    BY InOrderLists
  <2>2. InOrder(S)[k] \in T /\ Cardinality(Before(T, InOrder(S)[k])) + 1 = k
    <3>1. Before(T, InOrder(S)[k]) = Before(S, InOrder(S)[k])
      BY <1>2, <2>1
    <3> QED
      BY <1>1, <2>1, <3>1 DEF T
  <2> QED
    BY <1>1, <2>2, InOrderLists
<1>5. InOrder(T)[Cardinality(S) + 1] = m
  BY <1>1, <1>3, InOrderLists DEF T
<1> QED
  BY <1>1, <1>4, <1>5 DEF T
----------------------------------------------------------------------------
(* Positions of a sequence are a finite set of numbers.                    *)
LEMMA Positions ==
  ASSUME NEW T, NEW s \in Seq(T), NEW I \in SUBSET (DOMAIN s)
  PROVE  /\ I \in SUBSET Nat /\ IsFiniteSet(I) /\ Cardinality(I) \in Nat
         /\ \A k \in 1..Cardinality(I) : InOrder(I)[k] \in I
<1>1. DOMAIN s = 1..Len(s) /\ Len(s) \in Nat
  OBVIOUS
<1>2. IsFiniteSet(1..Len(s))
  BY <1>1, FS_Interval
<1>3. I \in SUBSET Nat /\ IsFiniteSet(I)
  BY <1>1, <1>2, FS_Subset
<1> QED
  BY <1>3, InOrderLists, FS_CardinalityType

(* A part of a list is a list of the same things.                          *)
LEMMA PartType ==
  ASSUME NEW T, NEW s \in Seq(T), NEW I \in SUBSET (DOMAIN s)
  PROVE  Part(s, I) \in Seq(T) /\ Len(Part(s, I)) = Cardinality(I)
<1>1. Cardinality(I) \in Nat /\ \A k \in 1..Cardinality(I) : InOrder(I)[k] \in I
  BY Positions
<1>2. \A k \in 1..Cardinality(I) : s[InOrder(I)[k]] \in T
  BY <1>1
<1> QED
  BY <1>1, <1>2 DEF Part

(* The first n elements are a part in their own order.                     *)
LEMMA FirstPart ==
  ASSUME NEW T, NEW s \in Seq(T), NEW n \in 0..Len(s)
  PROVE  Part(s, 1..n) = [k \in 1..n |-> s[k]]
<1>1. n \in Nat /\ 1..n \in SUBSET Nat /\ IsFiniteSet(1..n) /\ Cardinality(1..n) = n
  BY FS_Interval
<1>2. ASSUME NEW k \in 1..n PROVE InOrder(1..n)[k] = k
  <2>1. Before(1..n, k) = 1..(k - 1)
    BY <1>1 DEF Before
  <2>2. Cardinality(1..(k - 1)) = k - 1
    BY <1>1, FS_Interval
  <2>3. InOrder(1..n)[Cardinality(Before(1..n, k)) + 1] = k
    BY <1>1, InOrderLists
  <2> QED
    BY <1>1, <2>1, <2>2, <2>3
<1> QED
  BY <1>1, <1>2 DEF Part

LEMMA SameElements ==
  ASSUME NEW T, NEW f \in Seq(T), NEW g \in Seq(T), Len(f) = Len(g),
         \A i \in 1..Len(f) : f[i] = g[i]
  PROVE  f = g
OBVIOUS

LEMMA Appended ==
  ASSUME NEW T, NEW f \in Seq(T), NEW e \in T
  PROVE  /\ Append(f, e) \in Seq(T) /\ Len(Append(f, e)) = Len(f) + 1 /\ Len(f) \in Nat
         /\ Append(f, e)[Len(f) + 1] = e /\ \A i \in 1..Len(f) : Append(f, e)[i] = f[i]
OBVIOUS

(* What is appended to a sequence is behind what any part of it holds.     *)
LEMMA PartAppend ==
  ASSUME NEW T, NEW s \in Seq(T), NEW e \in T, NEW I \in SUBSET (DOMAIN s)
  PROVE  /\ Part(Append(s, e), I) = Part(s, I)
         /\ Part(Append(s, e), I \cup {Len(s) + 1}) = Append(Part(s, I), e)
<1>1. PICK r, m : r = Append(s, e) /\ m = Len(s) + 1
  OBVIOUS
<1>2. /\ m \in Nat /\ r[m] = e /\ DOMAIN s = 1..Len(s) /\ Len(s) \in Nat
      /\ \A i \in DOMAIN s : r[i] = s[i] /\ i < m /\ i \in Nat
  BY <1>1, Appended
<1>3. PICK n \in Nat : n = Cardinality(I)
  BY Positions
<1>4. /\ I \in SUBSET Nat /\ IsFiniteSet(I) /\ \A k \in 1..n : InOrder(I)[k] \in I
  BY <1>3, Positions
<1>5. \A x \in I : x < m
  BY <1>2
<1>6. \A k \in 1..n : r[InOrder(I)[k]] = s[InOrder(I)[k]]
  BY <1>2, <1>4
<1>7. Part(r, I) = Part(s, I)
  BY <1>3, <1>6 DEF Part
<1>8. /\ Cardinality(I \cup {m}) = n + 1
      /\ \A k \in 1..n : InOrder(I \cup {m})[k] = InOrder(I)[k]
      /\ InOrder(I \cup {m})[n + 1] = m
  BY <1>2, <1>3, <1>4, <1>5, InOrderAppend
<1>9. PICK f, g : f = Part(s, I) /\ g = Part(r, I \cup {m})
  OBVIOUS
<1>10. f \in Seq(T) /\ Len(f) = n
  BY <1>3, <1>9, PartType
<1>11. /\ DOMAIN g = 1..(n + 1) /\ g = [k \in 1..(n + 1) |-> r[InOrder(I \cup {m})[k]]]
       /\ f = [k \in 1..n |-> s[InOrder(I)[k]]]
  BY <1>3, <1>8, <1>9 DEF Part
<1>12. \A k \in 1..(n + 1) : g[k] = IF k = n + 1 THEN e ELSE f[k]
  <2> TAKE k \in 1..(n + 1)
  <2>1. CASE k = n + 1
    BY <1>2, <1>8, <1>11, <2>1
  <2>2. CASE k # n + 1
    <3>1. k \in 1..n
      BY <2>2
    <3> QED
      BY <1>6, <1>8, <1>11, <2>2, <3>1
  <2> QED
    BY <2>1, <2>2
<1>13. g \in Seq(T) /\ Len(g) = n + 1
  <2>1. r \in Seq(T) /\ I \cup {m} \in SUBSET (DOMAIN r)
    BY <1>1, Appended
  <2> QED
    BY <1>8, <1>9, <2>1, PartType
<1>14. PICK a : a = Append(f, e)
  OBVIOUS
<1>15. a \in Seq(T) /\ Len(a) = n + 1 /\ a[n + 1] = e /\ \A k \in 1..n : a[k] = f[k]
  BY <1>10, <1>14, Appended
<1>16. \A k \in 1..(n + 1) : g[k] = a[k]
  BY <1>12, <1>15
<1>17. g = a
  BY <1>13, <1>15, <1>16, SameElements
<1> QED
  BY <1>1, <1>7, <1>9, <1>14, <1>17

(* What is taken from the front of a sequence and put behind another one   *)
(* keeps its place in the two together.                                    *)
LEMMA Concatenated ==
  ASSUME NEW T, NEW A \in Seq(T), NEW B \in Seq(T)
  PROVE  /\ A \o B \in Seq(T) /\ Len(A \o B) = Len(A) + Len(B)
         /\ Len(A) \in Nat /\ Len(B) \in Nat
         /\ \A i \in 1..Len(A) : (A \o B)[i] = A[i]
         /\ \A i \in 1..Len(B) : (A \o B)[Len(A) + i] = B[i]
OBVIOUS

LEMMA TakenIsSent ==
  ASSUME NEW T, NEW A \in Seq(T), NEW h \in T, NEW B \in Seq(T), NEW C \in Seq(T)
  PROVE  Len(C) = Len(B) + 1 /\ C[1] = h /\ (\A i \in 1..Len(B) : C[i + 1] = B[i])
           => Append(A, h) \o B = A \o C
<1>0. /\ A \o C \in Seq(T) /\ Len(A \o C) = Len(A) + Len(C) /\ Len(A) \in Nat
      /\ \A i \in 1..Len(A) : (A \o C)[i] = A[i]
      /\ \A i \in 1..Len(C) : (A \o C)[Len(A) + i] = C[i]
  BY Concatenated
<1> HAVE Len(C) = Len(B) + 1 /\ C[1] = h /\ (\A i \in 1..Len(B) : C[i + 1] = B[i])
<1>1. PICK P, X, Y : P = Append(A, h) /\ X = P \o B /\ Y = A \o C
  OBVIOUS
<1>2. /\ P \in Seq(T) /\ Len(P) = Len(A) + 1 /\ P[Len(A) + 1] = h
      /\ \A i \in 1..Len(A) : P[i] = A[i]
  BY <1>1, Appended
<1>3. /\ X \in Seq(T) /\ Len(X) = Len(P) + Len(B) /\ Len(B) \in Nat
      /\ \A i \in 1..Len(P) : X[i] = P[i]
      /\ \A i \in 1..Len(B) : X[Len(P) + i] = B[i]
  BY <1>1, <1>2, Concatenated
<1>4. /\ Y \in Seq(T) /\ Len(Y) = Len(A) + Len(C) /\ Len(A) \in Nat
      /\ \A i \in 1..Len(A) : Y[i] = A[i]
      /\ \A i \in 1..Len(C) : Y[Len(A) + i] = C[i]
  <2>1. Y = A \o C
    BY <1>1
  <2> QED
    BY <1>0, <2>1
<1>5. Len(X) = Len(Y) /\ Len(X) = Len(A) + 1 + Len(B)
  BY <1>2, <1>3, <1>4
<1>6. ASSUME NEW i \in 1..Len(X) PROVE X[i] = Y[i]
  <2>1. CASE i <= Len(A)
    BY <1>2, <1>3, <1>4, <2>1
  <2>2. CASE i = Len(A) + 1
    <3>1. X[i] = P[Len(A) + 1]
      BY <1>2, <1>3, <1>4, <2>2
    <3>2. 1 \in 1..Len(C)
      BY <1>3
    <3>3. Y[Len(A) + 1] = C[1]
      BY <1>4, <3>2
    <3> QED
      BY <1>2, <2>2, <3>1, <3>3
  <2>3. CASE i > Len(A) + 1
    <3>1. PICK j \in Nat : j = i - (Len(A) + 1)
      BY <1>4, <2>3
    <3>2. j \in 1..Len(B) /\ j + 1 \in 1..Len(C) /\ i = Len(P) + j /\ i = Len(A) + (j + 1)
      BY <1>2, <1>3, <1>4, <1>5, <2>3, <3>1
    <3>3. X[i] = B[j]
      BY <1>3, <3>2
    <3>4. Y[i] = C[j + 1]
      BY <1>4, <3>2
    <3> QED
      BY <3>2, <3>3, <3>4
  <2>4. i \in Nat /\ Len(A) \in Nat
    BY <1>3, <1>4, <1>5
  <2>5. i <= Len(A) \/ i = Len(A) + 1 \/ i > Len(A) + 1
    BY <2>4
  <2> QED
    BY <2>1, <2>2, <2>3, <2>5
<1> QED
  BY <1>1, <1>3, <1>4, <1>5, <1>6, SameElements

LEMMA Taken ==
  ASSUME NEW T, NEW s \in Seq(T), s # <<>>
  PROVE  /\ Head(s) \in T /\ Tail(s) \in Seq(T) /\ Len(s) = Len(Tail(s)) + 1 /\ s[1] = Head(s)
         /\ \A i \in 1..Len(Tail(s)) : s[i + 1] = Tail(s)[i]
OBVIOUS

(* Taking from the front and appending at the end do not meet.             *)
LEMMA AppendFirst ==
  ASSUME NEW T, NEW s \in Seq(T), s # <<>>, NEW e
  PROVE  Head(Append(s, e)) = Head(s) /\ Tail(Append(s, e)) = Append(Tail(s), e)
<1> DEFINE U == T \cup {e}
<1>1. PICK f, g, n : f = Tail(Append(s, e)) /\ g = Append(Tail(s), e) /\ n = Len(s)
  OBVIOUS
<1>2. n \in Nat /\ n > 0 /\ s \in Seq(U) /\ e \in U
  BY <1>1
<1> HIDE DEF U
<1>3. PICK t, r : t = Tail(s) /\ r = Append(s, e)
  OBVIOUS
<1>4. t \in Seq(U) /\ Len(t) = n - 1 /\ \A i \in 1..(n - 1) : t[i] = s[i + 1]
  BY <1>1, <1>2, <1>3
<1>5. /\ r \in Seq(U) /\ Len(r) = n + 1 /\ r[n + 1] = e /\ \A i \in 1..n : r[i] = s[i]
  BY <1>1, <1>2, <1>3, Appended
<1>6. f \in Seq(U) /\ Len(f) = n /\ \A i \in 1..n : f[i] = r[i + 1]
  BY <1>1, <1>2, <1>3, <1>5
<1>7. g \in Seq(U) /\ Len(g) = n /\ g[n] = e /\ \A i \in 1..(n - 1) : g[i] = t[i]
  <2>1. /\ Append(t, e) \in Seq(U) /\ Len(Append(t, e)) = Len(t) + 1 /\ Append(t, e)[Len(t) + 1] = e
        /\ \A i \in 1..Len(t) : Append(t, e)[i] = t[i]
    BY <1>2, <1>4, Appended
  <2> QED
    BY <1>1, <1>2, <1>3, <1>4, <2>1
<1>8. ASSUME NEW i \in 1..n PROVE f[i] = g[i]
  <2>1. CASE i = n
    BY <1>2, <1>5, <1>6, <1>7, <2>1
  <2>2. CASE i # n
    <3>1. i \in 1..(n - 1) /\ i + 1 \in 1..n
      BY <1>2, <2>2
    <3> QED
      BY <1>4, <1>5, <1>6, <1>7, <3>1
  <2> QED
    BY <2>1, <2>2
<1>9. f = g
  BY <1>6, <1>7, <1>8, SameElements
<1>10. Head(r) = Head(s)
  BY <1>2, <1>5, <1>1
<1> QED
  BY <1>1, <1>3, <1>9, <1>10

LEMMA AppendToSecond ==
  ASSUME NEW T, NEW A \in Seq(T), NEW B \in Seq(T), NEW e \in T
  PROVE  A \o Append(B, e) = Append(A \o B, e) /\ A \o <<>> = A
OBVIOUS
=============================================================================
