------------------------------ MODULE Stock_proofs -----------------------------
(* Proofs about stock: type correctness and references for any overlap of     *)
(* handlers at once, the books and the log for handlers that take turns.      *)
EXTENDS Stock, FiniteSetTheorems, TLAPS

-----------------------------------------------------------------------------
(* Induction over the naturals in a form without operator parameters: what is *)
(* to be shown of every number is that a set has it.                          *)

\* A set of naturals that is not empty has a least element.
LEMMA LeastOf ==
  ASSUME NEW S \in SUBSET Nat, S # {}
  PROVE  \E m \in S : \A n \in S : m <= n
<1>1. PICK m \in S : \A n \in S : <<n, m>> \notin OpToRel(<, Nat)
  BY NatLessThanWellFounded, WFMin, Zenon
<1>2. \A n \in S : ~ (n < m)
  BY <1>1 DEF OpToRel
<1> QED
  BY <1>2

\* Induction: a set that has zero, and with each number the next, has every number.
LEMMA AllNat ==
  ASSUME NEW S, 0 \in S, \A n \in Nat : n \in S => n + 1 \in S
  PROVE  Nat \subseteq S
<1> SUFFICES ASSUME Nat \ S # {}
             PROVE  FALSE
  OBVIOUS
<1>1. PICK m \in Nat \ S : \A n \in Nat \ S : m <= n
  BY LeastOf
<1> QED
  BY <1>1

-----------------------------------------------------------------------------
(* Induction over finite sets, and sums. *)

\* What holds of the empty set, and of each set when it holds of the sets with one
\* element less, holds of every finite set and its subsets.
LEMMA BySize ==
  ASSUME NEW S, IsFiniteSet(S), NEW good, {} \in good,
         \A T \in SUBSET S : T # {} /\ (\A x \in T : T \ {x} \in good) => T \in good
  PROVE  SUBSET S \subseteq good
<1> DEFINE Sized == {n \in Nat : \A T \in SUBSET S : IsFiniteSet(T) /\ Cardinality(T) = n => T \in good}
<1>1. 0 \in Sized
  BY FS_EmptySet
<1>2. ASSUME NEW n \in Nat, n \in Sized
      PROVE  n + 1 \in Sized
  <2> SUFFICES ASSUME NEW T \in SUBSET S, IsFiniteSet(T), Cardinality(T) = n + 1
               PROVE  T \in good
    OBVIOUS
  <2>1. T # {}
    BY FS_EmptySet
  <2>2. ASSUME NEW x \in T
        PROVE  T \ {x} \in good
    <3>1. IsFiniteSet(T \ {x}) /\ Cardinality(T \ {x}) = Cardinality(T) - 1
      BY FS_RemoveElement
    <3>2. Cardinality(T \ {x}) = n
      BY <3>1
    <3> QED
      BY <1>2, <3>1, <3>2
  <2> QED
    BY <2>1, <2>2
<1>3. Nat \subseteq Sized
  <2> HIDE DEF Sized
  <2> QED
    BY <1>1, <1>2, AllNat
<1> SUFFICES ASSUME NEW T \in SUBSET S
             PROVE  T \in good
  OBVIOUS
<1> QED
  BY <1>3, FS_Subset, FS_CardinalityType

Pick(S) == CHOOSE x \in S : TRUE

\* g sums up f over the subsets of D.
Sums(f, D, g) ==
  g = [S \in SUBSET D |-> IF S = {} THEN 0 ELSE f[Pick(S)] + g[S \ {Pick(S)}]]

\* The sum of all values of f, as MapThenSumSet takes it.
SumOf(f) == (CHOOSE g : Sums(f, DOMAIN f, g))[DOMAIN f]

LEMMA PickIn == ASSUME NEW S, S # {} PROVE Pick(S) \in S
BY DEF Pick

LEMMA SumsStep ==
  ASSUME NEW f, NEW D, NEW g, Sums(f, D, g), NEW S \in SUBSET D
  PROVE  /\ S = {} => g[S] = 0
         /\ S # {} => g[S] = f[Pick(S)] + g[S \ {Pick(S)}]
BY DEF Sums

\* Two sums of functions that agree on S agree on S.
LEMMA SumsAgree ==
  ASSUME NEW f, NEW D, NEW g, Sums(f, D, g), NEW e, NEW E, NEW h, Sums(e, E, h),
         NEW S, S \subseteq D, S \subseteq E, IsFiniteSet(S), \A x \in S : f[x] = e[x]
  PROVE  g[S] = h[S]
<1> DEFINE good == {T \in SUBSET S : g[T] = h[T]}
<1>1. {} \in good
  <2>1. g[{}] = 0
    BY SumsStep
  <2>2. h[{}] = 0
    BY DEF Sums
  <2> QED
    BY <2>1, <2>2
<1>2. ASSUME NEW T \in SUBSET S, T # {}, \A x \in T : T \ {x} \in good
      PROVE  T \in good
  <2>1. Pick(T) \in T
    BY <1>2, PickIn
  <2>2. g[T \ {Pick(T)}] = h[T \ {Pick(T)}] /\ f[Pick(T)] = e[Pick(T)]
    BY <1>2, <2>1
  <2>3. g[T] = f[Pick(T)] + g[T \ {Pick(T)}] /\ h[T] = e[Pick(T)] + h[T \ {Pick(T)}]
    BY <1>2, SumsStep
  <2> QED
    BY <2>2, <2>3
<1> HIDE DEF good
<1>3. SUBSET S \subseteq good
  BY <1>1, <1>2, BySize
<1> QED
  BY <1>3 DEF good

\* Sums over a finite set are numbers.
LEMMA SumsType ==
  ASSUME NEW f, NEW D, NEW g, Sums(f, D, g), IsFiniteSet(D), \A x \in D : f[x] \in Nat
  PROVE  \A S \in SUBSET D : g[S] \in Nat
<1> DEFINE good == {S \in SUBSET D : g[S] \in Nat}
<1>1. {} \in good
  <2>1. g[{}] = 0
    BY SumsStep
  <2> QED
    BY <2>1
<1>2. ASSUME NEW T \in SUBSET D, T # {}, \A x \in T : T \ {x} \in good
      PROVE  T \in good
  <2>1. Pick(T) \in T
    BY <1>2, PickIn
  <2>2. f[Pick(T)] \in Nat /\ g[T \ {Pick(T)}] \in Nat
    BY <1>2, <2>1
  <2>3. g[T] = f[Pick(T)] + g[T \ {Pick(T)}]
    BY <1>2, SumsStep
  <2>4. g[T] \in Nat
    BY <2>2, <2>3
  <2> QED
    BY <2>4
<1> HIDE DEF good
<1>3. SUBSET D \subseteq good
  BY <1>1, <1>2, BySize
<1> QED
  BY <1>3 DEF good

\* Any element can be taken out of a sum first.
LEMMA SumsTake ==
  ASSUME NEW f, NEW D, NEW g, Sums(f, D, g), IsFiniteSet(D), \A x \in D : f[x] \in Nat,
         NEW S \in SUBSET D, NEW y \in S
  PROVE  g[S] = f[y] + g[S \ {y}]
<1> DEFINE good == {T \in SUBSET D : \A x \in T : g[T] = f[x] + g[T \ {x}]}
<1>1. {} \in good
  OBVIOUS
<1>2. ASSUME NEW T \in SUBSET D, T # {}, \A x \in T : T \ {x} \in good
      PROVE  T \in good
  <2> DEFINE p == Pick(T)
  <2>1. p \in T
    BY <1>2, PickIn
  <2>2. g[T] = f[p] + g[T \ {p}]
    BY <1>2, SumsStep
  <2>3. ASSUME NEW x \in T
        PROVE  g[T] = f[x] + g[T \ {x}]
    <3>1. CASE x = p
      BY <2>2, <3>1
    <3>2. CASE x # p
      <4>1. T \ {x} \in good /\ T \ {p} \in good /\ p \in T \ {x} /\ x \in T \ {p}
        BY <1>2, <2>1, <3>2
      <4>2. g[T \ {x}] = f[p] + g[(T \ {x}) \ {p}] /\ g[T \ {p}] = f[x] + g[(T \ {p}) \ {x}]
        BY <4>1
      <4>3. (T \ {x}) \ {p} = (T \ {p}) \ {x}
        OBVIOUS
      <4>4. f[x] \in Nat /\ f[p] \in Nat /\ g[(T \ {p}) \ {x}] \in Nat
        BY <2>1, SumsType
      <4> DEFINE r == g[(T \ {p}) \ {x}]
      <4>5. g[T \ {x}] = f[p] + r /\ g[T \ {p}] = f[x] + r /\ r \in Nat
        BY <4>2, <4>3, <4>4
      <4> HIDE DEF p, r
      <4>6. g[T] = f[p] + (f[x] + r)
        BY <2>2, <4>5
      <4>7. f[p] + (f[x] + r) = f[x] + (f[p] + r)
        BY <4>4, <4>5
      <4> QED
        BY <4>5, <4>6, <4>7
    <3> QED
      BY <3>1, <3>2
  <2> HIDE DEF p
  <2> QED
    BY <2>3
<1> HIDE DEF good
<1>3. SUBSET D \subseteq good
  BY <1>1, <1>2, BySize
<1> QED
  BY <1>3 DEF good

\* Over a finite set there is a function that sums up f.
LEMMA SumsExist ==
  ASSUME NEW f, NEW D, IsFiniteSet(D)
  PROVE  \E g : Sums(f, D, g)
<1> DEFINE On(n) == {S \in SUBSET D : Cardinality(S) <= n}
           Part(n, g) == /\ g = [S \in On(n) |-> g[S]]
                         /\ \A S \in On(n) : g[S] = IF S = {} THEN 0 ELSE f[Pick(S)] + g[S \ {Pick(S)}]
           ok == {n \in Nat : \E g : Part(n, g)}
<1>1. \A S \in SUBSET D : IsFiniteSet(S) /\ Cardinality(S) \in Nat /\ (Cardinality(S) = 0 => S = {})
  BY FS_Subset, FS_CardinalityType, FS_EmptySet
<1>2. \A S \in SUBSET D : S # {} => /\ Pick(S) \in S /\ S \ {Pick(S)} \in SUBSET D
                                   /\ Cardinality(S \ {Pick(S)}) = Cardinality(S) - 1
  BY <1>1, PickIn, FS_RemoveElement
<1>3. 0 \in ok
  <2> DEFINE g == [S \in On(0) |-> 0]
  <2>1. \A S \in On(0) : S = {}
    BY <1>1
  <2>2. Part(0, g)
    BY <2>1
  <2> QED
    BY <2>2
<1>4. ASSUME NEW n \in Nat, n \in ok
      PROVE  n + 1 \in ok
  <2>1. PICK g : Part(n, g)
    BY <1>4
  <2> DEFINE h == [S \in On(n + 1) |-> IF S \in On(n) THEN g[S] ELSE f[Pick(S)] + g[S \ {Pick(S)}]]
  <2>2. ASSUME NEW S \in On(n + 1)
        PROVE  h[S] = IF S = {} THEN 0 ELSE f[Pick(S)] + h[S \ {Pick(S)}]
    <3>1. S = {} => S \in On(n) /\ g[S] = 0
      <4>1. S = {} => S \in On(n)
        BY FS_EmptySet
      <4> QED
        BY <2>1, <4>1
    <3>2. S # {} => S \ {Pick(S)} \in On(n) /\ S \ {Pick(S)} \in On(n + 1)
      BY <1>1, <1>2
    <3>3. h[S] = IF S \in On(n) THEN g[S] ELSE f[Pick(S)] + g[S \ {Pick(S)}]
      OBVIOUS
    <3>4. S # {} => h[S \ {Pick(S)}] = g[S \ {Pick(S)}]
      BY <3>2
    <3>5. S # {} /\ S \in On(n) => g[S] = f[Pick(S)] + g[S \ {Pick(S)}]
      BY <2>1
    <3> HIDE DEF h, On
    <3> QED
      BY <3>1, <3>3, <3>4, <3>5
  <2>3. Part(n + 1, h)
    BY <2>2
  <2>4. \E k : Part(n + 1, k)
    <3> HIDE DEF Part, h
    <3> QED
      BY <2>3
  <2> HIDE DEF Part
  <2> QED
    BY <2>4
<1>5. Cardinality(D) \in ok
  <2>1. Nat \subseteq ok
    <3> HIDE DEF ok
    <3> QED
      BY <1>3, <1>4, AllNat
  <2> QED
    BY <1>1, <2>1
<1>6. PICK g : Part(Cardinality(D), g)
  BY <1>5
<1>7. On(Cardinality(D)) = SUBSET D
  BY FS_Subset
<1>8. Sums(f, D, g)
  BY <1>6, <1>7 DEF Sums
<1> QED
  BY <1>8

LEMMA SumOfIs ==
  ASSUME NEW f, IsFiniteSet(DOMAIN f)
  PROVE  \E g : Sums(f, DOMAIN f, g) /\ SumOf(f) = g[DOMAIN f]
BY SumsExist DEF SumOf

-----------------------------------------------------------------------------
(* What the sums are used for. *)

LEMMA SumOfType ==
  ASSUME NEW D, IsFiniteSet(D), NEW f \in [D -> Nat]
  PROVE  SumOf(f) \in Nat
BY SumOfIs, SumsType

LEMMA SumOfEmpty == ASSUME NEW f, DOMAIN f = {} PROVE SumOf(f) = 0
BY SumOfIs, SumsStep, FS_EmptySet

\* One value taken out of the sum.
LEMMA SumOfStep ==
  ASSUME NEW D, IsFiniteSet(D), NEW f \in [D -> Nat], NEW x \in D
  PROVE  SumOf(f) = f[x] + SumOf([y \in D \ {x} |-> f[y]])
<1> DEFINE E == D \ {x}
           e == [y \in E |-> f[y]]
<1>1. IsFiniteSet(E) /\ DOMAIN e = E /\ DOMAIN f = D /\ \A y \in D : f[y] \in Nat
  BY FS_Subset
<1>2. PICK g : Sums(f, D, g) /\ SumOf(f) = g[D]
  BY <1>1, SumOfIs
<1> HIDE DEF e
<1>3. PICK h : Sums(e, E, h) /\ SumOf(e) = h[E]
  BY <1>1, SumOfIs
<1>4. g[D] = f[x] + g[E]
  BY <1>1, <1>2, SumsTake
<1>5. g[E] = h[E]
  <2>1. \A y \in E : f[y] = e[y]
    BY DEF e
  <2>2. E \subseteq D /\ E \subseteq E
    OBVIOUS
  <2> HIDE DEF E
  <2> QED
    BY <1>1, <1>2, <1>3, <2>1, <2>2, SumsAgree
<1> QED
  BY <1>2, <1>3, <1>4, <1>5 DEF e

\* One value put into the sum.
LEMMA SumOfMore ==
  ASSUME NEW D, IsFiniteSet(D), NEW x, x \notin D, NEW f \in [D \cup {x} -> Nat]
  PROVE  SumOf(f) = f[x] + SumOf([y \in D |-> f[y]])
<1>1. IsFiniteSet(D \cup {x}) /\ x \in D \cup {x} /\ (D \cup {x}) \ {x} = D
  BY FS_AddElement
<1>2. SumOf(f) = f[x] + SumOf([y \in (D \cup {x}) \ {x} |-> f[y]])
  BY <1>1, SumOfStep
<1> QED
  BY <1>1, <1>2

\* Functions that are equal everywhere but at x.
LEMMA SumOfUpdate ==
  ASSUME NEW D, IsFiniteSet(D), NEW f \in [D -> Nat], NEW g \in [D -> Nat], NEW x \in D,
         \A y \in D \ {x} : g[y] = f[y]
  PROVE  SumOf(g) + f[x] = SumOf(f) + g[x]
<1> DEFINE r == SumOf([y \in D \ {x} |-> f[y]])
<1>1. [y \in D \ {x} |-> f[y]] = [y \in D \ {x} |-> g[y]]
  OBVIOUS
<1>2. SumOf(f) = f[x] + r
  BY SumOfStep
<1>3. SumOf(g) = g[x] + r
  BY <1>1, SumOfStep
<1>4. r \in Nat
  <2>1. IsFiniteSet(D \ {x}) /\ [y \in D \ {x} |-> f[y]] \in [D \ {x} -> Nat]
    BY FS_Subset
  <2> QED
    BY <2>1, SumOfType
<1> HIDE DEF r
<1> QED
  BY <1>2, <1>3, <1>4

\* A sum of nothing but zeros.
LEMMA SumOfZeros ==
  ASSUME NEW D, IsFiniteSet(D), NEW f \in [D -> Nat], \A x \in D : f[x] = 0
  PROVE  SumOf(f) = 0
<1> DEFINE p(T) == [x \in T |-> f[x]]
           good == {T \in SUBSET D : SumOf(p(T)) = 0}
<1>1. {} \in good
  <2>1. DOMAIN p({}) = {}
    OBVIOUS
  <2> QED
    BY <2>1, SumOfEmpty
<1>2. ASSUME NEW T \in SUBSET D, T # {}, \A x \in T : T \ {x} \in good
      PROVE  T \in good
  <2>1. PICK x \in T : TRUE
    BY <1>2
  <2>2. IsFiniteSet(T) /\ p(T) \in [T -> Nat] /\ p(T)[x] = 0
    BY <2>1, FS_Subset
  <2>3. [y \in T \ {x} |-> p(T)[y]] = p(T \ {x})
    OBVIOUS
  <2>4. SumOf(p(T)) = p(T)[x] + SumOf([y \in T \ {x} |-> p(T)[y]])
    BY <2>1, <2>2, SumOfStep
  <2>5. SumOf(p(T \ {x})) = 0
    BY <1>2, <2>1
  <2>6. SumOf(p(T)) = 0
    BY <2>2, <2>3, <2>4, <2>5
  <2> QED
    BY <2>6
<1> HIDE DEF good
<1>3. D \in good
  BY <1>1, <1>2, BySize
<1>4. p(D) = f
  OBVIOUS
<1> QED
  BY <1>3, <1>4 DEF good

\* Sums are added value by value.
LEMMA SumOfAdd ==
  ASSUME NEW D, IsFiniteSet(D), NEW f \in [D -> Nat], NEW g \in [D -> Nat]
  PROVE  SumOf([x \in D |-> f[x] + g[x]]) = SumOf(f) + SumOf(g)
<1> DEFINE p(T) == [x \in T |-> f[x]]
           q(T) == [x \in T |-> g[x]]
           s(T) == [x \in T |-> f[x] + g[x]]
           good == {T \in SUBSET D : SumOf(s(T)) = SumOf(p(T)) + SumOf(q(T))}
<1>1. {} \in good
  <2>1. DOMAIN p({}) = {} /\ DOMAIN q({}) = {} /\ DOMAIN s({}) = {}
    OBVIOUS
  <2>2. SumOf(p({})) = 0 /\ SumOf(q({})) = 0 /\ SumOf(s({})) = 0
    BY <2>1, SumOfEmpty
  <2> HIDE DEF p, q, s
  <2> QED
    BY <2>2
<1>2. ASSUME NEW T \in SUBSET D, T # {}, \A x \in T : T \ {x} \in good
      PROVE  T \in good
  <2>1. PICK x \in T : TRUE
    BY <1>2
  <2>2. IsFiniteSet(T) /\ IsFiniteSet(T \ {x})
    BY FS_Subset
  <2>3. /\ p(T) \in [T -> Nat] /\ q(T) \in [T -> Nat] /\ s(T) \in [T -> Nat]
        /\ p(T)[x] = f[x] /\ q(T)[x] = g[x] /\ s(T)[x] = f[x] + g[x] /\ f[x] \in Nat /\ g[x] \in Nat
        /\ p(T \ {x}) \in [T \ {x} -> Nat] /\ q(T \ {x}) \in [T \ {x} -> Nat]
    BY <2>1
  <2>4. /\ [y \in T \ {x} |-> p(T)[y]] = p(T \ {x})
        /\ [y \in T \ {x} |-> q(T)[y]] = q(T \ {x})
        /\ [y \in T \ {x} |-> s(T)[y]] = s(T \ {x})
    OBVIOUS
  <2>5. T \ {x} \in good
    BY <1>2, <2>1
  <2>6. SumOf(s(T \ {x})) = SumOf(p(T \ {x})) + SumOf(q(T \ {x}))
    BY <2>5
  <2> HIDE DEF p, q, s
  <2>7. /\ SumOf(p(T)) = f[x] + SumOf(p(T \ {x}))
        /\ SumOf(q(T)) = g[x] + SumOf(q(T \ {x}))
        /\ SumOf(s(T)) = f[x] + g[x] + SumOf(s(T \ {x}))
    <3>a. \A h \in [T -> Nat] : SumOf(h) = h[x] + SumOf([y \in T \ {x} |-> h[y]])
      BY <2>1, <2>2, SumOfStep
    <3>1. SumOf(p(T)) = p(T)[x] + SumOf([y \in T \ {x} |-> p(T)[y]])
      BY <2>3, <3>a, Zenon
    <3>2. SumOf(q(T)) = q(T)[x] + SumOf([y \in T \ {x} |-> q(T)[y]])
      BY <2>3, <3>a, Zenon
    <3>3. SumOf(s(T)) = s(T)[x] + SumOf([y \in T \ {x} |-> s(T)[y]])
      BY <2>3, <3>a, Zenon
    <3> QED
      BY <2>3, <2>4, <3>1, <3>2, <3>3
  <2>8. SumOf(p(T \ {x})) \in Nat /\ SumOf(q(T \ {x})) \in Nat
    BY <2>2, <2>3, SumOfType
  <2>9. SumOf(s(T)) = SumOf(p(T)) + SumOf(q(T))
    BY <2>3, <2>6, <2>7, <2>8
  <2> QED
    BY <2>9
<1> HIDE DEF good
<1>3. D \in good
  BY <1>1, <1>2, BySize
<1>4. p(D) = f /\ q(D) = g
  OBVIOUS
<1> QED
  BY <1>3, <1>4 DEF good

\* A table is summed up by rows or by columns.
LEMMA SumOfTable ==
  ASSUME NEW A, IsFiniteSet(A), NEW B, IsFiniteSet(B), NEW u \in [A -> [B -> Nat]]
  PROVE  SumOf([a \in A |-> SumOf(u[a])]) = SumOf([b \in B |-> SumOf([a \in A |-> u[a][b]])])
<1> DEFINE row(T) == [a \in T |-> SumOf(u[a])]
           one(T, b) == [a \in T |-> u[a][b]]
           col(T) == [b \in B |-> SumOf(one(T, b))]
           good == {T \in SUBSET A : SumOf(row(T)) = SumOf(col(T))}
<1>1. {} \in good
  <2>1. DOMAIN row({}) = {} /\ \A b \in B : DOMAIN one({}, b) = {}
    OBVIOUS
  <2>2. SumOf(row({})) = 0 /\ \A b \in B : SumOf(one({}, b)) = 0
    BY <2>1, SumOfEmpty
  <2>3. col({}) \in [B -> Nat] /\ \A b \in B : col({})[b] = 0
    BY <2>2
  <2>4. SumOf(col({})) = 0
    BY <2>3, SumOfZeros
  <2> QED
    BY <2>2, <2>4
<1>2. ASSUME NEW T \in SUBSET A, T # {}, \A x \in T : T \ {x} \in good
      PROVE  T \in good
  <2>1. PICK x \in T : TRUE
    BY <1>2
  <2> DEFINE R == T \ {x}
  <2>2. IsFiniteSet(T) /\ IsFiniteSet(R) /\ \A a \in A : SumOf(u[a]) \in Nat
    BY FS_Subset, SumOfType
  <2>3. \A b \in B : /\ one(T, b) \in [T -> Nat] /\ one(R, b) \in [R -> Nat]
                     /\ one(T, b)[x] = u[x][b] /\ [y \in R |-> one(T, b)[y]] = one(R, b)
    BY <2>1
  <2>4. row(T) \in [T -> Nat] /\ row(T)[x] = SumOf(u[x]) /\ [y \in R |-> row(T)[y]] = row(R)
    BY <2>1, <2>2
  <2>5. SumOf(row(T)) = SumOf(u[x]) + SumOf(row(R))
    <3> DEFINE r == row(T)
    <3>1. r \in [T -> Nat]
      BY <2>4
    <3> HIDE DEF r
    <3>2. SumOf(r) = r[x] + SumOf([y \in T \ {x} |-> r[y]])
      BY <2>1, <2>2, <3>1, SumOfStep
    <3> HIDE DEF row
    <3> QED
      BY <2>4, <3>2 DEF r
  <2>6. \A b \in B : SumOf(one(T, b)) = u[x][b] + SumOf(one(R, b)) /\ SumOf(one(R, b)) \in Nat
    <3> HIDE DEF one
    <3> TAKE b \in B
    <3> DEFINE r == one(T, b)
    <3>1. SumOf(r) = r[x] + SumOf([y \in T \ {x} |-> r[y]])
      <4>1. r \in [T -> Nat]
        BY <2>3
      <4> HIDE DEF r
      <4> QED
        BY <2>1, <2>2, <4>1, SumOfStep
    <3>2. SumOf(one(R, b)) \in Nat
      BY <2>2, <2>3, SumOfType
    <3> QED
      BY <2>3, <3>1, <3>2
  <2>7. col(T) = [b \in B |-> u[x][b] + col(R)[b]]
    <3> HIDE DEF one, R
    <3> QED
      BY <2>6
  <2>8. col(R) \in [B -> Nat] /\ u[x] \in [B -> Nat]
    <3> HIDE DEF one, R
    <3> QED
      BY <2>1, <2>6
  <2>9. SumOf(col(T)) = SumOf(u[x]) + SumOf(col(R))
    <3> DEFINE c == col(R)
               d == u[x]
    <3>1. c \in [B -> Nat] /\ d \in [B -> Nat]
      BY <2>8
    <3> HIDE DEF c, d
    <3>2. SumOf([b \in B |-> d[b] + c[b]]) = SumOf(d) + SumOf(c)
      BY <3>1, SumOfAdd
    <3> HIDE DEF col
    <3> QED
      BY <2>7, <3>2 DEF c, d
  <2>10. SumOf(row(R)) = SumOf(col(R))
    BY <1>2, <2>1
  <2>11. SumOf(row(T)) = SumOf(col(T))
    BY <2>5, <2>9, <2>10
  <2> HIDE DEF row, col
  <2> QED
    BY <2>11
<1> HIDE DEF good
<1>3. A \in good
  BY <1>1, <1>2, BySize
<1> QED
  BY <1>3 DEF good

\* Where a function is zero does not count.
LEMMA SumOfPart ==
  ASSUME NEW D, IsFiniteSet(D), NEW f \in [D -> Nat], NEW E \in SUBSET D, \A x \in D \ E : f[x] = 0
  PROVE  SumOf(f) = SumOf([x \in E |-> f[x]])
<1> DEFINE p(T) == [x \in T |-> f[x]]
           good == {T \in SUBSET D : SumOf(p(T)) = SumOf(p(T \cap E))}
<1>1. {} \in good
  <2>1. {} \cap E = {}
    OBVIOUS
  <2> HIDE DEF p
  <2> QED
    BY <2>1
<1>2. ASSUME NEW T \in SUBSET D, T # {}, \A x \in T : T \ {x} \in good
      PROVE  T \in good
  <2>1. PICK x \in T : TRUE
    BY <1>2
  <2> DEFINE R == T \ {x}
  <2>2. SumOf(p(R)) = SumOf(p(R \cap E))
    BY <1>2, <2>1
  <2>3. IsFiniteSet(T) /\ IsFiniteSet(T \cap E) /\ IsFiniteSet(R)
    BY FS_Subset
  <2>4. \A U \in SUBSET D : \A y \in U : IsFiniteSet(U) => SumOf(p(U)) = f[y] + SumOf(p(U \ {y}))
    <3> TAKE U \in SUBSET D
    <3> TAKE y \in U
    <3> HAVE IsFiniteSet(U)
    <3> DEFINE r == p(U)
    <3>1. r \in [U -> Nat] /\ r[y] = f[y] /\ [z \in U \ {y} |-> r[z]] = p(U \ {y})
      OBVIOUS
    <3>2. SumOf(r) = r[y] + SumOf([z \in U \ {y} |-> r[z]])
      <4>1. r \in [U -> Nat]
        BY <3>1
      <4> HIDE DEF r
      <4> QED
        BY <4>1, SumOfStep
    <3> HIDE DEF p
    <3> QED
      BY <3>1, <3>2 DEF r
  <2>5. SumOf(p(T)) = f[x] + SumOf(p(R))
    BY <2>1, <2>3, <2>4
  <2>6. CASE x \in E
    <3>1. (T \cap E) \ {x} = R \cap E
      OBVIOUS
    <3>2. SumOf(p(T \cap E)) = f[x] + SumOf(p((T \cap E) \ {x}))
      BY <2>1, <2>3, <2>4, <2>6
    <3>3. SumOf(p(T \cap E)) = SumOf(p(T))
      BY <2>2, <2>5, <3>1, <3>2
    <3> HIDE DEF p
    <3> QED
      BY <3>3
  <2>7. CASE x \notin E
    <3>1. T \cap E = R \cap E /\ f[x] = 0
      BY <2>1, <2>7
    <3>2. SumOf(p(R)) \in Nat
      <4>1. p(R) \in [R -> Nat]
        OBVIOUS
      <4> HIDE DEF p, R
      <4> QED
        BY <2>3, <4>1, SumOfType
    <3>3. SumOf(p(T)) = SumOf(p(R))
      BY <2>5, <3>1, <3>2
    <3>4. SumOf(p(T)) = SumOf(p(T \cap E))
      BY <2>2, <3>1, <3>3
    <3> HIDE DEF p
    <3> QED
      BY <3>4
  <2> QED
    BY <2>6, <2>7
<1> HIDE DEF good
<1>3. D \in good
  BY <1>1, <1>2, BySize
<1>4. p(D) = f /\ D \cap E = E
  OBVIOUS
<1> QED
  BY <1>3, <1>4 DEF good

-----------------------------------------------------------------------------
(* Totals. *)

\* Total is the sum SumOf.
LEMMA TotalIs == ASSUME NEW f PROVE Total(f) = SumOf(f)
BY DEF Total, MapThenSumSet, MapThenFoldSet, SumOf, Sums, Pick

LEMMA Ids ==
  /\ LotId \subseteq Nat \ {0} /\ IsFiniteSet(LotId) /\ SignId \subseteq Nat \ {0} /\ IsFiniteSet(SignId)
  /\ MaxLots \in Nat /\ MaxSignOuts \in Nat /\ Slack \in Nat
BY FS_Interval, ConstantsAssumption DEF LotId, SignId, ConstantsAssumption

-----------------------------------------------------------------------------
(* Rows and transactions. *)

LEMMA Constants ==
  /\ Misc \subseteq Vendor /\ VendorOf \in [Product -> Vendor]
  /\ NoOne \notin Customer /\ NoOne \notin Site /\ NoOne \notin Vendor /\ NoOne \notin Item
  /\ Quantity \subseteq Nat \ {0}
  /\ Absent \notin ItemRow /\ Absent \notin LotRow /\ NoLog \notin LogRow
BY ConstantsAssumption, RowsAssumption DEF ConstantsAssumption, RowsAssumption

\* The fields of each kind of transaction, told apart by op.
LEMMA TxFields ==
  ASSUME NEW t, TxOK(t)
  PROVE  /\ t.op \in {"idle", "delete", "sign_out", "list"} \cup HandOps
         /\ t.op \in HandOps \cup {"list"} => \E S \in SUBSET Item : t \in ItemTx(S)
         /\ t.op = "delete" => t \in DeleteTx
         /\ t.op = "sign_out" => \E S \in SUBSET LotId : t \in SignTx(S)
BY DEF TxOK, Idle, ItemTx, DeleteTx, SignTx, HandOps

LEMMA ItemTxIs ==
  ASSUME NEW S \in SUBSET Item, NEW t \in ItemTx(S)
  PROVE  /\ t.op \in HandOps \cup {"list"} /\ t.step \in {"read", "scan"} /\ t.item \in Item \cup {NoOne}
         /\ t.who \in Holder /\ t.scan \in [S -> Holder] /\ t.from \in Status /\ t.held \in Holder
         /\ DOMAIN t.scan = S
BY DEF ItemTx

LEMMA SignTxIs ==
  ASSUME NEW S \in SUBSET LotId, NEW t \in SignTx(S)
  PROVE  /\ t.op = "sign_out" /\ t.step \in {"read", "inserted"} /\ t.qty \in Quantity
         /\ t.left \in [S -> Nat] /\ t.id \in 0..MaxSignOuts /\ DOMAIN t.left = S
BY DEF SignTx

TxGood(t) ==
  /\ TxOK(t)
  /\ t.op \in HandOps => t.item \in Item
  /\ t.op \in {"assign", "pre_allocate"} => t.who # NoOne
  /\ t.op = "scrap" => t.held # NoOne
  /\ t.op = "sign_out" /\ t.step = "inserted" => t.id # 0
TxsGood == DOMAIN tx = Worker /\ \A w \in Worker : TxGood(tx[w])

\* The rows, without the transactions.
ItemsOK ==
  /\ item \in [Item -> ItemRow \cup {Absent}]
  /\ last \in [Item -> LogRow \cup {NoLog}]
  /\ scrapped \subseteq [item : Item, who : Customer \cup Site]
  /\ \A i \in Item : item[i] # Absent =>
       item[i].product \in products /\ (item[i].status = "assigned" => item[i].who # NoOne)
  /\ \A s \in scrapped : item[s.item] = Absent
LotsOK ==
  /\ vendors \subseteq Vendor /\ products \subseteq Product
  /\ \A p \in products : VendorOf[p] \in vendors
  /\ lot \in [LotId -> LotRow \cup {Absent}]
  /\ booked \in 0..MaxLots /\ begun \in 0..MaxSignOuts
  /\ signed \in [SignId -> Nat]
  /\ usage \in [SignId -> [LotId -> Nat]]
  /\ \A l \in LotId : lot[l] # Absent => lot[l].product \in products

LEMMA Parts == IInv <=> ItemsOK /\ LotsOK /\ TxsGood
BY DEF IInv, TypeOK, Informed, References, ItemsOK, LotsOK, TxsGood, TxGood

\* The fields of a row of an item.
LEMMA ItemRowIs ==
  ASSUME ItemsOK, NEW i \in Item, item[i] # Absent
  PROVE  /\ item[i] \in ItemRow /\ item[i].product \in Product /\ item[i].status \in Status
         /\ item[i].who \in Holder /\ item[i].out \in BOOLEAN
         /\ item[i].hold \in {"none", "running", "over"}
<1>1. item[i] \in ItemRow
  BY DEF ItemsOK
<1> QED
  BY <1>1 DEF ItemRow, Holder

LEMMA InitParts == Init => ItemsOK /\ LotsOK /\ TxsGood
<1> SUFFICES ASSUME Init
             PROVE  ItemsOK /\ LotsOK /\ TxsGood
  OBVIOUS
<1>1. ItemsOK
  BY DEF Init, ItemsOK
<1>2. LotsOK
  BY Ids, Constants DEF Init, LotsOK
<1>3. TxsGood
  BY DEF Init, TxsGood, TxGood, TxOK, Idle, HandOps
<1> QED
  BY <1>1, <1>2, <1>3

-----------------------------------------------------------------------------
(* Transactions stay well formed. *)

LEMMA TxSet ==
  ASSUME TxsGood, NEW w \in Worker, NEW t, TxGood(t), tx' = [tx EXCEPT ![w] = t]
  PROVE  TxsGood'
BY DEF TxsGood

LEMMA IdleGood == TxGood(Idle)
BY DEF TxGood, TxOK, Idle, HandOps

LEMMA NextTxs == ItemsOK /\ LotsOK /\ TxsGood /\ [Next]_vars => TxsGood'
<1> SUFFICES ASSUME ItemsOK, LotsOK, TxsGood, [Next]_vars
             PROVE  TxsGood'
  OBVIOUS
<1>1. CASE UNCHANGED tx
  BY <1>1 DEF TxsGood
<1>2. ASSUME NEW w \in Worker, End(w)
      PROVE  TxsGood'
  BY <1>2, TxSet, IdleGood DEF End
<1>3. ASSUME NEW w \in Worker, NEW op \in {"assign", "return", "scrap", "rma"}, NEW i \in Item,
             NEW c \in Holder, op = "assign" => c # NoOne, BeginItem(w, op, i, c)
      PROVE  TxsGood'
  <2> DEFINE t == [op |-> op, step |-> "read", item |-> i, who |-> c, scan |-> <<>>,
                   from |-> item[i].status, held |-> item[i].who]
  <2>1. item[i].status \in Status /\ item[i].who \in Holder
    BY <1>3, ItemRowIs DEF BeginItem
  <2>2. <<>> \in [{} -> Holder]
    OBVIOUS
  <2>3. t \in ItemTx({})
    BY <2>1, <2>2 DEF ItemTx, HandOps
  <2>4. op = "scrap" => item[i].who # NoOne
    BY <1>3 DEF BeginItem, Admits, ItemsOK
  <2>5. TxGood(t)
    BY <1>3, <2>3, <2>4 DEF TxGood, TxOK
  <2> QED
    BY <1>3, <2>5, TxSet DEF BeginItem, Start
<1>4. ASSUME NEW w \in Worker, NEW op \in {"pre_allocate", "release", "list"}, NEW i \in Item \cup {NoOne},
             NEW c \in Holder, op = "pre_allocate" => c # NoOne, op # "list" => i \in Item,
             BeginScan(w, op, i, c)
      PROVE  TxsGood'
  <2> DEFINE t == [op |-> op, step |-> "scan", item |-> i, who |-> c, scan |-> Scan,
                   from |-> "new", held |-> NoOne]
  <2>1. Scan \in [DueHolds -> Holder] /\ DueHolds \in SUBSET Item
    BY ItemRowIs DEF Scan, DueHolds
  <2>2. t \in ItemTx(DueHolds)
    BY <2>1 DEF ItemTx, HandOps, Holder, Status
  <2>3. TxGood(t)
    BY <1>4, <2>1, <2>2 DEF TxGood, TxOK, HandOps
  <2> QED
    BY <1>4, <2>3, TxSet DEF BeginScan, Start
<1>5. ASSUME NEW w \in Worker, Look(w)
      PROVE  TxsGood'
  <2> DEFINE t == tx[w]
             u == [t EXCEPT !.step = "read", !.from = Found(w, t.item), !.held = item[t.item].who]
  <2>1. TxGood(t) /\ t.op \in {"pre_allocate", "release"}
    BY <1>5 DEF TxsGood, Look
  <2>2. PICK S \in SUBSET Item : t \in ItemTx(S)
    BY <2>1, TxFields DEF TxGood, HandOps
  <2>3. t.item \in Item /\ item[t.item] # Absent
    BY <1>5, <2>1 DEF Look, TxGood, HandOps
  <2>4. Found(w, t.item) \in Status /\ item[t.item].who \in Holder
    BY <2>3, ItemRowIs DEF Found, Status
  <2>5. u \in ItemTx(S) /\ u.op = t.op /\ u.item = t.item /\ u.who = t.who
    <3> HIDE DEF t
    <3> QED
      BY <2>2, <2>4 DEF ItemTx
  <2>6. TxGood(u)
    BY <2>1, <2>5 DEF TxGood, TxOK, HandOps
  <2> QED
    BY <1>5, <2>6, TxSet DEF Look
<1>6. ASSUME NEW w \in Worker, BeginDeletion(w)
      PROVE  TxsGood'
  <2>1. PICK gone \in SUBSET Product, whole \in Vendor \cup {NoOne} : BeginDelete(w, gone, whole)
    <3>1. CASE \E p \in Product : BeginDelete(w, {p}, NoOne)
      BY <3>1
    <3>2. CASE \E v \in Vendor : BeginDelete(w, {p \in products : VendorOf[p] = v}, v)
      <4>1. PICK v \in Vendor : BeginDelete(w, {p \in products : VendorOf[p] = v}, v)
        BY <3>2
      <4>2. {p \in products : VendorOf[p] = v} \in SUBSET Product
        BY DEF LotsOK
      <4> QED
        BY <4>1, <4>2
    <3> QED
      BY <1>6, <3>1, <3>2 DEF BeginDeletion
  <2>2. TxGood([op |-> "delete", gone |-> gone, whole |-> whole])
    BY DEF TxGood, TxOK, DeleteTx, HandOps
  <2> QED
    BY <2>1, <2>2, TxSet DEF BeginDelete, Start
<1>7. ASSUME NEW w \in Worker, NEW n, NEW q \in Quantity, BeginSignOut(w, n, q)
      PROVE  TxsGood'
  <2> DEFINE S == DOMAIN Left(n)
             t == [op |-> "sign_out", step |-> "read", qty |-> q, left |-> Left(n), id |-> 0]
  <2>1. S \in SUBSET LotId /\ Left(n) \in [S -> Nat]
    BY DEF Left, LotsOK, LotRow
  <2>2. t \in SignTx(S)
    BY <2>1, Ids DEF SignTx
  <2>3. TxGood(t)
    BY <2>1, <2>2 DEF TxGood, TxOK, HandOps
  <2> QED
    BY <1>7, <2>3, TxSet DEF BeginSignOut, Start
<1>8. ASSUME NEW w \in Worker, InsertAssignment(w)
      PROVE  TxsGood'
  <2> DEFINE t == tx[w]
             u == [t EXCEPT !.step = "inserted", !.id = begun + 1]
  <2>1. TxGood(t) /\ t.op = "sign_out"
    BY <1>8 DEF TxsGood, InsertAssignment
  <2>2. PICK S \in SUBSET LotId : t \in SignTx(S)
    BY <2>1, TxFields DEF TxGood
  <2>3. begun + 1 \in 0..MaxSignOuts /\ begun + 1 # 0
    BY <1>8, Ids DEF InsertAssignment, LotsOK
  <2>4. u \in SignTx(S) /\ u.op = "sign_out" /\ u.id = begun + 1
    <3> HIDE DEF t
    <3> QED
      BY <2>2, <2>3 DEF SignTx
  <2>5. TxGood(u)
    BY <2>3, <2>4 DEF TxGood, TxOK, HandOps
  <2>6. tx' = [tx EXCEPT ![w] = u]
    BY <1>8, <2>2 DEF InsertAssignment, TxsGood, SignTx
  <2> QED
    BY <2>5, <2>6, TxSet
<1>9. ASSUME NEW w \in Worker, BeginOnItem(w)
      PROVE  TxsGood'
  BY <1>3, <1>4, <1>9, Constants DEF BeginOnItem, Holder
<1>10. ASSUME NEW w \in Worker, HandItem(w) \/ CommitDelete(w) \/ CommitSignOut(w) \/ Rollback(w)
       PROVE  TxsGood'
  <2>1. End(w)
    BY <1>10 DEF HandItem, CommitDelete, CommitSignOut, Rollback, CommitAssign, CommitPreAllocate,
                 CommitRelease, CommitReturn, CommitScrap, CommitRma, CommitList, Write
  <2> QED
    BY <1>2, <2>1
<1>11. ASSUME BringIn \/ (\E i \in Item : HoldRunsOut(i)) \/ UNCHANGED vars
       PROVE  TxsGood'
  <2>1. UNCHANGED tx
    BY <1>11 DEF BringIn, AddVendor, AddProduct, AddItems, AddLot, HoldRunsOut, vars
  <2> QED
    BY <1>1, <2>1
<1> QED
  BY <1>5, <1>6, <1>7, <1>8, <1>9, <1>10, <1>11 DEF Next

-----------------------------------------------------------------------------
(* Rows of items. *)

\* The row of an item as a handler writes it: kept under its product, and with
\* somebody when it is handed out.
Writable(w, row) ==
  row # Absent => /\ row \in ItemRow /\ row.product = Row(w).product
                  /\ (row.status = "assigned" => row.who # NoOne)

LEMMA FreedRow ==
  ASSUME NEW row \in ItemRow
  PROVE  /\ Freed(row) \in ItemRow /\ Freed(row).product = row.product /\ Freed(row).status = "new"
         /\ Freed(row).who = NoOne /\ ~Freed(row).out /\ Freed(row).hold = "none"
BY DEF Freed, ItemRow, Status

LEMMA HandedRows ==
  ASSUME NEW r \in ItemRow, NEW c \in Holder
  PROVE  /\ [r EXCEPT !.status = "assigned", !.who = c, !.out = TRUE, !.hold = "none"] \in ItemRow
         /\ [r EXCEPT !.status = "pre_allocated", !.who = c, !.out = TRUE, !.hold = "running"] \in ItemRow
         /\ [r EXCEPT !.status = "returned"] \in ItemRow
BY DEF ItemRow, Status, Holder

LEMMA TouchesAre ==
  ASSUME NEW t
  PROVE  /\ t.op \in HandOps \cup {"list"} => Touches(t) = ({t.item} \ {NoOne}) \cup DOMAIN t.scan
         /\ t.op = "delete" =>
              Touches(t) = {i \in Item : item[i] # Absent /\ (\/ item[i].product \in t.gone
                                                           \/ VendorOf[item[i].product] = t.whole)}
BY DEF Touches, HandOps

\* A step keeps an item under its product, and leaves those alone that w has not read.
Keeps(w) ==
  \A i \in Item : /\ i \notin Touches(tx[w]) => item'[i] = item[i]
                  /\ item'[i] # Absent => item[i] # Absent /\ item'[i].product = item[i].product

LEMMA WriteItems ==
  ASSUME ItemsOK, LotsOK, TxsGood, NEW w \in Worker, tx[w].op \in HandOps,
         NEW row, Writable(w, row), NEW to \in Status \cup {"scrapped"}, Write(w, row, to),
         \/ UNCHANGED scrapped
         \/ /\ tx[w].op = "scrap" /\ row = Absent
            /\ scrapped' = scrapped \cup {[item |-> tx[w].item, who |-> tx[w].held]}
  PROVE  ItemsOK' /\ Keeps(w)
<1> DEFINE t == tx[w]
           S == DOMAIN t.scan
<1>1. TxGood(t)
  BY DEF TxsGood
<1>2. /\ t.who \in Holder /\ t.held \in Holder /\ t.from \in Status /\ S \subseteq Item
      /\ \A j \in S : t.scan[j] \in Holder
  BY <1>1, TxFields, ItemTxIs DEF TxGood
<1>3. t.item \in Item /\ item[t.item] # Absent /\ \A j \in S : item[j] # Absent
  BY <1>1 DEF TxGood, Write
<1>4. \A i \in Item : item[i] # Absent => item[i] \in ItemRow
  BY DEF ItemsOK
<1>5. /\ item' = [j \in Item |-> IF j = t.item THEN row ELSE IF j \in S THEN Freed(item[j]) ELSE item[j]]
      /\ last' = [j \in Item |->
                   IF row = Absent /\ j = t.item THEN NoLog
                   ELSE IF j = t.item THEN [from |-> t.from, to |-> to, who |-> IF t.who = NoOne THEN t.held ELSE t.who]
                   ELSE IF j \in S THEN [from |-> "pre_allocated", to |-> "new", who |-> t.scan[j]]
                   ELSE last[j]]
      /\ UNCHANGED products
  BY DEF Write
<1>6. ASSUME NEW j \in Item
      PROVE  /\ item'[j] \in ItemRow \cup {Absent}
             /\ item'[j] # Absent => /\ item[j] # Absent /\ item'[j].product = item[j].product
                                    /\ (item'[j].status = "assigned" => item'[j].who # NoOne)
  <2>1. CASE j = t.item
    BY <1>3, <1>5, <2>1 DEF Writable, Row
  <2>2. CASE j # t.item /\ j \in S
    <3>1. item'[j] = Freed(item[j])
      BY <1>5, <2>2
    <3> QED
      BY <1>3, <1>4, <2>2, <3>1, FreedRow
  <2>3. CASE j # t.item /\ j \notin S
    <3>1. item'[j] = item[j]
      BY <1>5, <2>3
    <3> QED
      BY <3>1 DEF ItemsOK
  <2> QED
    BY <2>1, <2>2, <2>3
<1>7. item' \in [Item -> ItemRow \cup {Absent}]
  BY <1>5, <1>6
<1>8. last' \in [Item -> LogRow \cup {NoLog}]
  <2>1. \A j \in S : [from |-> "pre_allocated", to |-> "new", who |-> t.scan[j]] \in LogRow
    BY <1>2 DEF LogRow, Status, Holder
  <2>2. [from |-> t.from, to |-> to, who |-> IF t.who = NoOne THEN t.held ELSE t.who] \in LogRow
    BY <1>2 DEF LogRow, Holder
  <2>3. last \in [Item -> LogRow \cup {NoLog}]
    BY DEF ItemsOK
  <2> HIDE DEF S, t
  <2> QED
    BY <1>5, <2>1, <2>2, <2>3
<1>9. /\ scrapped' \subseteq [item : Item, who : Customer \cup Site]
      /\ \A s \in scrapped' : item'[s.item] = Absent
  <2>1. \A s \in scrapped : s.item \in Item /\ item'[s.item] = Absent
    BY <1>6 DEF ItemsOK
  <2>2. CASE UNCHANGED scrapped
    BY <2>1, <2>2 DEF ItemsOK
  <2>3. CASE /\ t.op = "scrap" /\ row = Absent
             /\ scrapped' = scrapped \cup {[item |-> t.item, who |-> t.held]}
    <3>1. t.held \in Customer \cup Site
      BY <1>1, <1>2, <2>3 DEF TxGood, Holder
    <3>2. item'[t.item] = Absent
      BY <1>3, <1>5, <2>3
    <3> QED
      BY <1>3, <2>1, <2>3, <3>1, <3>2 DEF ItemsOK
  <2> QED
    BY <2>2, <2>3
<1>10. Keeps(w)
  <2>1. Touches(t) = ({t.item} \ {NoOne}) \cup S /\ t.item # NoOne
    BY <1>3, TouchesAre, Constants
  <2>2. \A i \in Item : i \notin Touches(t) => item'[i] = item[i]
    BY <1>5, <2>1
  <2> QED
    BY <1>6, <2>2 DEF Keeps
<1> QED
  BY <1>5, <1>6, <1>7, <1>8, <1>9, <1>10 DEF ItemsOK

LEMMA HandItems ==
  ASSUME ItemsOK, LotsOK, TxsGood, NEW w \in Worker, HandItem(w)
  PROVE  ItemsOK' /\ Keeps(w)
<1> DEFINE t == tx[w]
           r == Row(w)
<1>1. TxGood(t)
  BY DEF TxsGood
<1>2. t.op \in HandOps => t.item \in Item /\ t.who \in Holder
  BY <1>1, TxFields, ItemTxIs DEF TxGood
<1>3. t.op \in HandOps /\ r # Absent => r \in ItemRow /\ (r.status = "assigned" => r.who # NoOne)
  BY <1>2 DEF ItemsOK, Row
<1>4. CASE CommitAssign(w)
  <2> DEFINE row == [r EXCEPT !.status = "assigned", !.who = t.who, !.out = TRUE, !.hold = "none"]
  <2>1. t.op \in HandOps /\ t.who \in Holder /\ t.who # NoOne /\ r \in ItemRow
    BY <1>1, <1>2, <1>3, <1>4 DEF CommitAssign, TxGood, HandOps
  <2>2. row \in ItemRow /\ row.product = r.product /\ row.who = t.who
    <3> HIDE DEF r, t
    <3> QED
      BY <2>1 DEF ItemRow, Status, Holder
  <2>3. Writable(w, row)
    BY <2>1, <2>2 DEF Writable
  <2> QED
    BY <1>4, <2>1, <2>3, WriteItems DEF CommitAssign, Status
<1>5. CASE CommitPreAllocate(w)
  <2> DEFINE row == [r EXCEPT !.status = "pre_allocated", !.who = t.who, !.out = TRUE, !.hold = "running"]
  <2>1. t.op \in HandOps /\ t.who \in Holder /\ r \in ItemRow
    BY <1>1, <1>2, <1>3, <1>5 DEF CommitPreAllocate, TxGood, HandOps
  <2>2. row \in ItemRow /\ row.product = r.product /\ row.status = "pre_allocated"
    <3> HIDE DEF r, t
    <3> QED
      BY <2>1 DEF ItemRow, Status, Holder
  <2>3. Writable(w, row)
    BY <2>2 DEF Writable
  <2> QED
    BY <1>5, <2>1, <2>3, WriteItems DEF CommitPreAllocate, Status
<1>6. CASE CommitRelease(w)
  <2>1. t.op \in HandOps /\ r \in ItemRow
    BY <1>3, <1>6 DEF CommitRelease, HandOps
  <2>2. Writable(w, Freed(r))
    BY <2>1, FreedRow DEF Writable
  <2> QED
    BY <1>6, <2>1, <2>2, WriteItems DEF CommitRelease, Status
<1>7. CASE CommitReturn(w)
  <2> DEFINE row == [r EXCEPT !.status = "returned"]
  <2>1. t.op \in HandOps /\ r \in ItemRow
    BY <1>3, <1>7 DEF CommitReturn, HandOps
  <2>2. row \in ItemRow /\ row.product = r.product /\ row.status = "returned"
    <3> HIDE DEF r, t
    <3> QED
      BY <2>1 DEF ItemRow, Status
  <2>3. Writable(w, row)
    BY <2>2 DEF Writable
  <2> QED
    BY <1>7, <2>1, <2>3, WriteItems DEF CommitReturn, Status
<1>8. CASE CommitScrap(w)
  <2>1. t.op \in HandOps /\ t.op = "scrap" /\ Writable(w, Absent)
    BY <1>8 DEF CommitScrap, HandOps, Writable
  <2> QED
    BY <1>8, <2>1, WriteItems DEF CommitScrap
<1>9. CASE CommitRma(w)
  <2>1. t.op \in HandOps /\ Writable(w, r)
    BY <1>3, <1>9 DEF CommitRma, HandOps, Writable
  <2> QED
    BY <1>9, <2>1, WriteItems DEF CommitRma, Status
<1>10. CASE CommitList(w)
  <2> DEFINE S == DOMAIN t.scan
  <2>1. S \subseteq Item /\ \A j \in S : t.scan[j] \in Holder /\ item[j] \in ItemRow /\ item[j] # Absent
    BY <1>1, <1>10, TxFields, ItemTxIs DEF CommitList, TxGood, ItemsOK
  <2>2. /\ item' = [j \in Item |-> IF j \in S THEN Freed(item[j]) ELSE item[j]]
        /\ last' = [j \in Item |-> IF j \in S
                     THEN [from |-> "pre_allocated", to |-> "new", who |-> t.scan[j]] ELSE last[j]]
        /\ UNCHANGED <<products, scrapped>>
    BY <1>10 DEF CommitList
  <2>3. \A j \in S : [from |-> "pre_allocated", to |-> "new", who |-> t.scan[j]] \in LogRow
    BY <2>1 DEF LogRow, Status, Holder
  <2>4. \A j \in S : /\ Freed(item[j]) \in ItemRow /\ Freed(item[j]).product = item[j].product
                     /\ Freed(item[j]).status = "new"
    BY <2>1, FreedRow
  <2>5. S \subseteq Touches(t)
    BY <1>10, TouchesAre DEF CommitList
  <2> HIDE DEF S, t
  <2>6. \A i \in Item : /\ i \notin S => item'[i] = item[i]
                        /\ i \in S => item[i] # Absent /\ item'[i].product = item[i].product
    BY <2>1, <2>2, <2>4
  <2>7. Keeps(w)
    BY <2>5, <2>6 DEF Keeps, t
  <2> QED
    BY <2>1, <2>2, <2>3, <2>4, <2>7 DEF ItemsOK
<1> QED
  BY <1>4, <1>5, <1>6, <1>7, <1>8, <1>9, <1>10 DEF HandItem

LEMMA DeleteItems ==
  ASSUME ItemsOK, NEW w \in Worker, CommitDelete(w)
  PROVE  ItemsOK'
BY DEF CommitDelete, ItemsOK, Items

LEMMA DeleteKeeps ==
  ASSUME ItemsOK, NEW w \in Worker, CommitDelete(w)
  PROVE  Keeps(w)
<1> DEFINE t == tx[w]
           gone == {p \in products : p \in t.gone \/ VendorOf[p] = t.whole}
<1>1. t.op = "delete" /\ item' = [i \in Item |-> IF \E p \in gone : i \in Items(p) THEN Absent ELSE item[i]]
  BY DEF CommitDelete
<1>2. \A i \in Item : (\E p \in gone : i \in Items(p)) => i \in Touches(t)
  BY <1>1, TouchesAre DEF Items
<1> HIDE DEF gone
<1> QED
  BY <1>1, <1>2 DEF Keeps

LEMMA BringItems == ItemsOK /\ BringIn => ItemsOK'
<1> SUFFICES ASSUME ItemsOK, BringIn
             PROVE  ItemsOK'
  OBVIOUS
<1>1. CASE \E v \in Vendor : AddVendor(v)
  BY <1>1 DEF AddVendor, ItemsOK, itemvars
<1>2. CASE \E p \in Product : AddProduct(p)
  BY <1>2 DEF AddProduct, ItemsOK, itemvars
<1>3. CASE \E p \in Product, batch \in SUBSET Item : AddItems(p, batch)
  <2>1. PICK p \in Product, batch \in SUBSET Item : AddItems(p, batch)
    BY <1>3
  <2>2. /\ NewItem(p) \in ItemRow /\ NewItem(p).product = p /\ NewItem(p).status = "new"
    BY DEF NewItem, ItemRow, Status
  <2>3. /\ item' = [i \in Item |-> IF i \in batch THEN NewItem(p) ELSE item[i]]
        /\ p \in products /\ \A i \in batch : \A s \in scrapped : s.item # i
        /\ UNCHANGED <<products, last, scrapped>>
    BY <2>1 DEF AddItems
  <2> QED
    BY <2>2, <2>3 DEF ItemsOK
<1>4. CASE \E p \in Product, q \in Quantity : AddLot(p, q)
  BY <1>4 DEF AddLot, ItemsOK, itemvars
<1> QED
  BY <1>1, <1>2, <1>3, <1>4 DEF BringIn

LEMMA HoldItems ==
  ASSUME ItemsOK, NEW i \in Item, HoldRunsOut(i)
  PROVE  ItemsOK'
<1>1. item[i] \in ItemRow /\ item[i] # Absent /\ item' = [item EXCEPT ![i] = [item[i] EXCEPT !.hold = "over"]]
  BY DEF HoldRunsOut, ItemsOK
<1>2. LET r == [item[i] EXCEPT !.hold = "over"]
      IN r \in ItemRow /\ r.product = item[i].product /\ r.status = item[i].status /\ r.who = item[i].who
  BY <1>1 DEF ItemRow
<1>3. UNCHANGED <<products, last, scrapped>>
  BY DEF HoldRunsOut
<1> QED
  BY <1>1, <1>2, <1>3 DEF ItemsOK

LEMMA NextItems == ItemsOK /\ LotsOK /\ TxsGood /\ [Next]_vars => ItemsOK'
<1> SUFFICES ASSUME ItemsOK, LotsOK, TxsGood, [Next]_vars
             PROVE  ItemsOK'
  OBVIOUS
<1>1. ASSUME UNCHANGED <<itemvars, products>>
      PROVE  ItemsOK'
  BY <1>1 DEF ItemsOK, itemvars
<1>2. ASSUME NEW w \in Worker,
             \/ BeginOnItem(w) \/ Look(w) \/ BeginDeletion(w)
             \/ \E p \in Product, q \in Quantity : BeginSignOut(w, NameOf[p], q)
             \/ InsertAssignment(w) \/ CommitSignOut(w) \/ Rollback(w)
      PROVE  ItemsOK'
  <2>1. UNCHANGED <<itemvars, products>>
    BY <1>2 DEF BeginOnItem, BeginItem, BeginScan, Look, BeginDeletion, BeginDelete, BeginSignOut,
                InsertAssignment, CommitSignOut, Rollback
  <2> QED
    BY <1>1, <2>1
<1>3. CASE UNCHANGED vars
  BY <1>1, <1>3 DEF vars, itemvars
<1> QED
  BY <1>2, <1>3, HandItems, DeleteItems, BringItems, HoldItems DEF Next

-----------------------------------------------------------------------------
(* Rows of lots, products and vendors. *)

\* No lot gives more than it has.
LEMMA TakesUpto ==
  ASSUME NEW S \in SUBSET LotId, NEW t \in SignTx(S)
  PROVE  /\ Takes(t) \in [S -> Nat] /\ DOMAIN Takes(t) = S
         /\ \A l \in S : t.left[l] \in Nat /\ Takes(t)[l] <= t.left[l] /\ t.left[l] - Takes(t)[l] \in Nat
<1>1. /\ t.left \in [S -> Nat] /\ DOMAIN t.left = S /\ t.qty \in Nat
  BY SignTxIs, Constants
<1> DEFINE older(l) == {k \in S : k < l}
           ask(l) == t.qty - Total([k \in older(l) |-> t.left[k]])
           give(l) == IF ask(l) <= 0 THEN 0 ELSE IF t.left[l] <= ask(l) THEN t.left[l] ELSE ask(l)
<1>2. Takes(t) = [l \in S |-> give(l)]
  BY <1>1 DEF Takes
<1>3. ASSUME NEW l \in S
      PROVE  t.left[l] \in Nat /\ give(l) \in Nat /\ give(l) <= t.left[l] /\ t.left[l] - give(l) \in Nat
  <2>1. ask(l) \in Int
    <3>1. IsFiniteSet(older(l)) /\ [k \in older(l) |-> t.left[k]] \in [older(l) -> Nat]
      BY <1>1, Ids, FS_Subset
    <3>2. Total([k \in older(l) |-> t.left[k]]) \in Nat
      BY <3>1, SumOfType, TotalIs
    <3> QED
      BY <1>1, <3>2
  <2>2. t.left[l] \in Nat
    BY <1>1
  <2> HIDE DEF ask
  <2> QED
    BY <2>1, <2>2
<1> HIDE DEF give
<1> QED
  BY <1>2, <1>3

LEMMA SignOutLots ==
  ASSUME LotsOK, TxsGood, NEW w \in Worker, CommitSignOut(w)
  PROVE  LotsOK'
<1> DEFINE t == tx[w]
           takes == Takes(t)
           target == Max({t.id} \cup {a \in SignId : signed[a] > 0})
<1>1. TxGood(t) /\ t.op = "sign_out"
  BY DEF TxsGood, CommitSignOut
<1>2. PICK S \in SUBSET LotId : t \in SignTx(S)
  BY <1>1, TxFields DEF TxGood
<1>3. /\ takes \in [S -> Nat] /\ DOMAIN takes = S
      /\ \A l \in S : t.left[l] - takes[l] \in Nat
  BY <1>2, TakesUpto
<1>4. t.qty \in Nat
  BY <1>2, SignTxIs, Constants
<1>5. /\ \A l \in S : takes[l] > 0 => lot[l] # Absent
      /\ signed' = [signed EXCEPT ![t.id] = t.qty]
      /\ lot' = [l \in LotId |-> IF l \in S /\ takes[l] > 0
                                 THEN [lot[l] EXCEPT !.rem = t.left[l] - takes[l]] ELSE lot[l]]
      /\ usage' = [usage EXCEPT ![target] = [l \in LotId |->
                     IF l \in S THEN usage[target][l] + takes[l] ELSE usage[target][l]]]
      /\ UNCHANGED <<vendors, products, booked, begun>>
  BY <1>3 DEF CommitSignOut
<1> HIDE DEF takes, target, t
<1>6. ASSUME NEW l \in LotId
      PROVE  lot'[l] \in LotRow \cup {Absent} /\ (lot'[l] # Absent => lot[l] # Absent /\ lot'[l].product = lot[l].product)
  <2>1. lot[l] \in LotRow \cup {Absent}
    BY DEF LotsOK
  <2>2. CASE l \in S /\ takes[l] > 0
    <3>1. lot[l] \in LotRow /\ lot'[l] = [lot[l] EXCEPT !.rem = t.left[l] - takes[l]]
      BY <1>5, <2>1, <2>2
    <3> QED
      BY <1>3, <1>5, <2>2, <3>1 DEF LotRow
  <2>3. CASE ~(l \in S /\ takes[l] > 0)
    BY <1>5, <2>1, <2>3
  <2> QED
    BY <2>2, <2>3
<1>7. lot' \in [LotId -> LotRow \cup {Absent}] /\ \A l \in LotId : lot'[l] # Absent => lot'[l].product \in products'
  BY <1>5, <1>6 DEF LotsOK
<1>8. usage' \in [SignId -> [LotId -> Nat]]
  <2>1. CASE target \in SignId
    <3>1. usage[target] \in [LotId -> Nat]
      BY <2>1 DEF LotsOK
    <3>2. [l \in LotId |-> IF l \in S THEN usage[target][l] + takes[l] ELSE usage[target][l]] \in [LotId -> Nat]
      BY <1>3, <3>1
    <3> QED
      BY <1>5, <3>2 DEF LotsOK
  <2>2. CASE target \notin SignId
    BY <1>5, <2>2 DEF LotsOK
  <2> QED
    BY <2>1, <2>2
<1> QED
  BY <1>4, <1>5, <1>7, <1>8 DEF LotsOK

LEMMA DeleteLots ==
  ASSUME LotsOK, NEW w \in Worker, CommitDelete(w)
  PROVE  LotsOK'
<1> DEFINE t == tx[w]
           gone == {p \in products : p \in t.gone \/ VendorOf[p] = t.whole}
<1>1. /\ vendors' = vendors \ {t.whole} /\ products' = products \ gone
      /\ lot' = [l \in LotId |-> IF \E p \in gone : l \in Lots(p) THEN Absent ELSE lot[l]]
      /\ UNCHANGED <<booked, signed, begun, usage>>
  BY DEF CommitDelete
<1>2. \A p \in products' : VendorOf[p] \in vendors'
  BY <1>1 DEF LotsOK
<1>3. \A l \in LotId : lot'[l] # Absent => lot'[l] = lot[l] /\ lot'[l].product \in products'
  BY <1>1 DEF Lots, LotsOK
<1> QED
  BY <1>1, <1>2, <1>3 DEF LotsOK

LEMMA BringLots == LotsOK /\ BringIn => LotsOK'
<1> SUFFICES ASSUME LotsOK, BringIn
             PROVE  LotsOK'
  OBVIOUS
<1>1. CASE \E v \in Vendor : AddVendor(v)
  BY <1>1 DEF AddVendor, LotsOK, lotvars
<1>2. CASE \E p \in Product : AddProduct(p)
  BY <1>2 DEF AddProduct, LotsOK, lotvars
<1>3. CASE \E p \in Product, batch \in SUBSET Item : AddItems(p, batch)
  BY <1>3 DEF AddItems, LotsOK, lotvars
<1>4. CASE \E p \in Product, q \in Quantity : AddLot(p, q)
  <2>1. PICK p \in Product, q \in Quantity : AddLot(p, q)
    BY <1>4
  <2> DEFINE r == [product |-> p, in |-> q, rem |-> q]
  <2>2. r \in LotRow /\ r.product = p
    BY Constants DEF LotRow
  <2>3. /\ p \in products /\ booked < MaxLots /\ booked' = booked + 1 /\ lot' = [lot EXCEPT ![booked + 1] = r]
        /\ UNCHANGED <<vendors, products, signed, begun, usage>>
    BY <2>1 DEF AddLot
  <2>4. booked' \in 0..MaxLots
    BY <2>3, Ids DEF LotsOK
  <2> HIDE DEF r
  <2> QED
    BY <2>2, <2>3, <2>4 DEF LotsOK
<1> QED
  BY <1>1, <1>2, <1>3, <1>4 DEF BringIn

LEMMA NextLots == LotsOK /\ TxsGood /\ [Next]_vars => LotsOK'
<1> SUFFICES ASSUME LotsOK, TxsGood, [Next]_vars
             PROVE  LotsOK'
  OBVIOUS
<1>1. ASSUME UNCHANGED <<vendors, products, lotvars, begun>>
      PROVE  LotsOK'
  BY <1>1 DEF LotsOK, lotvars
<1>2. ASSUME NEW w \in Worker,
             \/ BeginOnItem(w) \/ Look(w) \/ BeginDeletion(w)
             \/ \E p \in Product, q \in Quantity : BeginSignOut(w, NameOf[p], q)
             \/ HandItem(w) \/ Rollback(w)
      PROVE  LotsOK'
  <2>1. UNCHANGED <<vendors, products, lotvars, begun>>
    BY <1>2 DEF BeginOnItem, BeginItem, BeginScan, Look, BeginDeletion, BeginDelete, BeginSignOut,
                Rollback, HandItem, CommitAssign, CommitPreAllocate,
                CommitRelease, CommitReturn, CommitScrap, CommitRma, CommitList, Write
  <2> QED
    BY <1>1, <2>1
<1>3. ASSUME NEW w \in Worker, InsertAssignment(w)
      PROVE  LotsOK'
  <2>1. begun' \in 0..MaxSignOuts /\ UNCHANGED <<vendors, products, lotvars>>
    BY <1>3, Ids DEF InsertAssignment, LotsOK
  <2> QED
    BY <2>1 DEF LotsOK, lotvars
<1>4. CASE UNCHANGED vars \/ \E i \in Item : HoldRunsOut(i)
  BY <1>1, <1>4 DEF vars, lotvars, HoldRunsOut
<1> QED
  BY <1>2, <1>3, <1>4, SignOutLots, DeleteLots, BringLots DEF Next

\* The part of the invariant that any number of workers keep: types, and items, lots
\* and scrap records that refer to rows that exist, whatever deletions cascade.
THEOREM Inductive == Spec => []IInv
<1>1. Init => IInv
  BY InitParts, Parts
<1>2. IInv /\ [Next /\ (TakeTurns => Apart')]_vars => IInv'
  <2> SUFFICES ASSUME IInv, [Next]_vars
               PROVE  IInv'
    OBVIOUS
  <2>1. ItemsOK' /\ LotsOK' /\ TxsGood'
    BY Parts, NextItems, NextLots, NextTxs
  <2> QED
    BY <2>1 DEF IInv, TypeOK, Informed, References, ItemsOK, LotsOK, TxsGood, TxGood
<1> QED
  BY <1>1, <1>2, PTL DEF Spec

\* Items, lots, holds, logs and what open transactions have read stay what they are
\* meant to be, for any number of workers.
THEOREM TypeCorrect == Spec => []TypeOK
<1>1. IInv => TypeOK
  BY DEF IInv
<1> QED
  BY <1>1, Inductive, PTL

-----------------------------------------------------------------------------
(* Handlers that take turns: what an open transaction has read is touched by  *)
(* no other.                                                                  *)

ReadOK(t) ==
  /\ t.op \in HandOps \cup {"list"} => ReadItem(t)
  /\ t.op = "delete" => ReadDelete(t)
  /\ t.op = "sign_out" => ReadSign(t)

LEMMA CurrentIs == Current <=> \A w \in Worker : ReadOK(tx[w])
BY DEF Current, ReadOK

\* What has been read stays so while its items are left alone, and a sign-out alone.
LEMMA StillRead ==
  ASSUME NEW t, TxGood(t), ReadOK(t), \A i \in Touches(t) : item'[i] = item[i],
         \A i \in Item : item'[i] # Absent => item[i] # Absent /\ item'[i].product = item[i].product,
         t.op = "sign_out" => UNCHANGED <<booked, signed, begun>>,
         \A l \in LotId : lot'[l] = lot[l] \/ lot'[l] = Absent \/ t.op # "sign_out"
  PROVE  ReadOK(t)'
<1>1. t.op \in HandOps \cup {"list"} => ReadItem(t)'
  <2> SUFFICES ASSUME t.op \in HandOps \cup {"list"}
               PROVE  ReadItem(t)'
    OBVIOUS
  <2>1. ReadItem(t) /\ Touches(t) = ({t.item} \ {NoOne}) \cup DOMAIN t.scan
    BY TouchesAre DEF ReadOK
  <2>2. \A j \in DOMAIN t.scan : item'[j] = item[j]
    BY <2>1
  <2>3. t.step = "read" => item'[t.item] = item[t.item]
    <3>1. t.step = "read" => t.item \in Item
      BY <2>1 DEF ReadItem, TxGood, HandOps
    <3> QED
      BY <2>1, <3>1, Constants
  <2> QED
    BY <2>1, <2>2, <2>3 DEF ReadItem
<1>2. t.op = "delete" => ReadDelete(t)'
  <2> SUFFICES ASSUME t.op = "delete"
               PROVE  ReadDelete(t)'
    OBVIOUS
  <2>1. /\ ReadDelete(t)
        /\ Touches(t) = {i \in Item : item[i] # Absent /\ (\/ item[i].product \in t.gone
                                                        \/ VendorOf[item[i].product] = t.whole)}
    BY TouchesAre DEF ReadOK
  <2>2. ASSUME NEW i \in Item, item'[i] # Absent,
               item'[i].product \in t.gone \/ VendorOf[item'[i].product] = t.whole
        PROVE  item'[i].status \notin {"assigned", "pre_allocated"}
    <3>1. i \in Touches(t) /\ item[i] # Absent
      BY <2>1, <2>2
    <3>2. item'[i] = item[i]
      BY <3>1
    <3> QED
      BY <2>1, <2>2, <3>2 DEF ReadDelete
  <2> QED
    BY <2>2 DEF ReadDelete
<1>3. t.op = "sign_out" => ReadSign(t)'
  <2> SUFFICES ASSUME t.op = "sign_out"
               PROVE  ReadSign(t)'
    OBVIOUS
  <2>1. ReadSign(t) /\ DOMAIN t.left \subseteq LotId
    BY TxFields, SignTxIs DEF ReadOK, TxGood
  <2> QED
    BY <2>1 DEF ReadSign
<1> QED
  BY <1>1, <1>2, <1>3 DEF ReadOK

\* What the others than w have read, after a step.
OthersRead(w) == \A v \in Worker \ {w} : ReadOK(tx[v])'

LEMMA OthersCurrent ==
  ASSUME TxsGood, Current, Apart, NEW w \in Worker, Keeps(w), \A v \in Worker \ {w} : tx'[v] = tx[v],
         tx[w].op # "sign_out" => UNCHANGED <<booked, signed, begun>>,
         \A l \in LotId : lot'[l] = lot[l] \/ lot'[l] = Absent \/ tx[w].op = "sign_out"
  PROVE  OthersRead(w)
<1> SUFFICES ASSUME NEW v \in Worker \ {w}
             PROVE  ReadOK(tx[v])'
  BY DEF OthersRead
<1>1. PICK u : u = tx[v]
  OBVIOUS
<1>2. TxGood(u) /\ ReadOK(u)
  BY <1>1, CurrentIs DEF TxsGood
<1>3. /\ Touches(u) \cap Touches(tx[w]) = {}
      /\ u.op = "sign_out" => tx[w].op # "sign_out"
  BY <1>1 DEF Apart
<1>4. \A i \in Item : item'[i] # Absent => item[i] # Absent /\ item'[i].product = item[i].product
  BY DEF Keeps
<1>5. Touches(u) \subseteq Item
  <2>1. u.op \in HandOps \cup {"list"} => DOMAIN u.scan \subseteq Item /\ u.item \in Item \cup {NoOne}
    BY <1>2, TxFields, ItemTxIs DEF TxGood
  <2>2. u.op \in {"idle", "delete", "sign_out", "list"} \cup HandOps
    BY <1>2, TxFields DEF TxGood
  <2> QED
    BY <2>1, <2>2, TouchesAre DEF Touches
<1>6. \A i \in Touches(u) : item'[i] = item[i]
  BY <1>3, <1>5 DEF Keeps
<1>7. ReadOK(u)'
  BY <1>2, <1>3, <1>4, <1>6, StillRead
<1>8. u = tx'[v]
  BY <1>1
<1> QED
  BY <1>7, <1>8 DEF ReadOK, ReadItem, ReadDelete, ReadSign

\* When a transaction goes on, what it has read by then is to be shown.
LEMMA StepCurrent ==
  ASSUME TxsGood, NEW w \in Worker, NEW t, tx' = [tx EXCEPT ![w] = t], ReadOK(t)',
         OthersRead(w)
  PROVE  Current'
<1>1. t = tx'[w]
  BY DEF TxsGood
<1>2. ReadOK(tx[w])'
  BY <1>1 DEF ReadOK, ReadItem, ReadDelete, ReadSign
<1> QED
  BY <1>2 DEF Current, ReadOK, OthersRead

-----------------------------------------------------------------------------
(* The books of lots. *)

Books == Unused /\ LotsUsed /\ SignOutsCovered

\* What is used of lot l, by sign-out.
Uses(l) == [a \in SignId |-> usage[a][l]]

LEMMA UsesType ==
  ASSUME LotsOK, NEW l \in LotId
  PROVE  Uses(l) \in [SignId -> Nat] /\ SumOf(Uses(l)) \in Nat
<1>1. Uses(l) \in [SignId -> Nat]
  BY DEF Uses, LotsOK
<1> QED
  BY <1>1, Ids, SumOfType

\* When there is enough, the lots give what is asked but for the tolerance, and no
\* more: up to the n-th lot they have given what was asked or all they had.
LEMMA TakesAll ==
  ASSUME NEW S \in SUBSET LotId, NEW t \in SignTx(S), Total(t.left) + Slack >= t.qty
  PROVE  SumOf(Takes(t)) \in Nat /\ t.qty - SumOf(Takes(t)) \in 0..Slack
<1> DEFINE left == t.left
           takes == Takes(t)
           q == t.qty
           F(n) == {k \in S : k <= n}
           L(n) == SumOf([k \in F(n) |-> left[k]])
           G(n) == SumOf([k \in F(n) |-> takes[k]])
           good == {n \in Nat : G(n) = IF L(n) <= q THEN L(n) ELSE q}
<1>1. left \in [S -> Nat] /\ DOMAIN left = S /\ q \in Nat /\ takes \in [S -> Nat]
  BY SignTxIs, TakesUpto, Constants
<1>2. S \subseteq Nat \ {0} /\ IsFiniteSet(S) /\ \A n \in Nat : IsFiniteSet(F(n))
  BY Ids, FS_Subset
<1>3. \A l \in S : takes[l] = LET older == {k \in S : k < l}
                                ask   == q - SumOf([k \in older |-> left[k]])
                            IN IF ask <= 0 THEN 0 ELSE IF left[l] <= ask THEN left[l] ELSE ask
  BY <1>1, TotalIs DEF Takes
<1> HIDE DEF left, takes, q
<1>4. ASSUME NEW n \in Nat
      PROVE  L(n) \in Nat /\ G(n) \in Nat
  <2>1. [k \in F(n) |-> left[k]] \in [F(n) -> Nat] /\ [k \in F(n) |-> takes[k]] \in [F(n) -> Nat]
    BY <1>1
  <2> QED
    BY <1>2, <2>1, SumOfType
<1>5. 0 \in good
  <2>1. F(0) = {}
    <3>1. \A k \in S : ~(k <= 0)
      BY <1>2
    <3> QED
      BY <3>1
  <2>2. L(0) = 0 /\ G(0) = 0
    <3>1. DOMAIN [k \in F(0) |-> left[k]] = {} /\ DOMAIN [k \in F(0) |-> takes[k]] = {}
      BY <2>1
    <3> QED
      BY <3>1, SumOfEmpty
  <2> HIDE DEF L, G
  <2> QED
    BY <1>1, <2>2
<1>6. ASSUME NEW n \in Nat, n \in good
      PROVE  n + 1 \in good
  <2>1. G(n) = IF L(n) <= q THEN L(n) ELSE q
    BY <1>6
  <2>2. CASE n + 1 \notin S
    <3>1. F(n + 1) = F(n)
      <4>1. \A k \in S : (k <= n + 1) <=> (k <= n)
        BY <1>2, <2>2
      <4> QED
        BY <4>1
    <3>2. L(n + 1) = L(n) /\ G(n + 1) = G(n)
      BY <3>1
    <3> HIDE DEF L, G
    <3> QED
      BY <2>1, <3>2
  <2>3. CASE n + 1 \in S
    <3> DEFINE m == n + 1
    <3>1. F(m) = F(n) \cup {m} /\ m \notin F(n) /\ m \in S /\ F(n) = {k \in S : k < m}
      <4>1. \A k \in S : /\ (k <= n + 1) <=> (k <= n \/ k = n + 1)
                         /\ (k <= n) <=> (k < n + 1)
        BY <1>2
      <4>2. ~(n + 1 <= n)
        OBVIOUS
      <4> QED
        BY <2>3, <4>1, <4>2
    <3> DEFINE f == [k \in F(m) |-> left[k]]
               g == [k \in F(m) |-> takes[k]]
    <3>2. /\ f \in [F(n) \cup {m} -> Nat] /\ g \in [F(n) \cup {m} -> Nat]
          /\ f[m] = left[m] /\ g[m] = takes[m] /\ left[m] \in Nat
          /\ [k \in F(n) |-> f[k]] = [k \in F(n) |-> left[k]]
          /\ [k \in F(n) |-> g[k]] = [k \in F(n) |-> takes[k]]
      BY <1>1, <3>1
    <3>3. SumOf(f) = f[m] + SumOf([k \in F(n) |-> f[k]])
      <4>1. f \in [F(n) \cup {m} -> Nat] /\ IsFiniteSet(F(n)) /\ m \notin F(n)
        BY <1>2, <3>1, <3>2
      <4> HIDE DEF f, F, m
      <4> QED
        BY <4>1, SumOfMore
    <3>4. SumOf(g) = g[m] + SumOf([k \in F(n) |-> g[k]])
      <4>1. g \in [F(n) \cup {m} -> Nat] /\ IsFiniteSet(F(n)) /\ m \notin F(n)
        BY <1>2, <3>1, <3>2
      <4> HIDE DEF g, F, m
      <4> QED
        BY <4>1, SumOfMore
    <3>5. L(m) = left[m] + L(n) /\ G(m) = takes[m] + G(n)
      BY <3>2, <3>3, <3>4
    <3>6. takes[m] = LET ask == q - L(n)
                     IN IF ask <= 0 THEN 0 ELSE IF left[m] <= ask THEN left[m] ELSE ask
      BY <1>3, <3>1
    <3>7. L(n) \in Nat /\ left[m] \in Nat /\ q \in Nat
      BY <1>1, <1>4, <3>2
    <3>8. G(m) = IF L(m) <= q THEN L(m) ELSE q
      <4> HIDE DEF L, G, m
      <4> QED
        BY <2>1, <3>5, <3>6, <3>7
    <3> HIDE DEF L, G
    <3> QED
      BY <3>8
  <2> QED
    BY <2>2, <2>3
<1>7. MaxLots \in good
  <2> HIDE DEF good
  <2> QED
    BY <1>5, <1>6, AllNat, Ids
<1>8. F(MaxLots) = S
  <2>1. \A k \in S : k <= MaxLots
    BY Ids DEF LotId
  <2> QED
    BY <2>1
<1>9. [k \in S |-> left[k]] = left /\ [k \in S |-> takes[k]] = takes
  BY <1>1
<1>10. L(MaxLots) = SumOf(left) /\ G(MaxLots) = SumOf(takes)
  BY <1>8, <1>9
<1>11. SumOf(left) + Slack >= q /\ SumOf(left) \in Nat
  BY <1>1, <1>2, TotalIs, SumOfType DEF left, q
<1>12. G(MaxLots) = IF L(MaxLots) <= q THEN L(MaxLots) ELSE q
  BY <1>7
<1> HIDE DEF L, G
<1>13. SumOf(takes) \in Nat /\ q - SumOf(takes) \in 0..Slack
  BY <1>1, <1>10, <1>11, <1>12, Ids
<1> QED
  BY <1>13 DEF takes, q

LEMMA MaxIs ==
  ASSUME NEW T \in SUBSET Nat, NEW b \in T, \A a \in T : b >= a
  PROVE  Max(T) = b
<1>1. Max(T) \in T /\ \A a \in T : Max(T) >= a
  BY DEF Max
<1>2. Max(T) >= b /\ b >= Max(T) /\ Max(T) \in Nat /\ b \in Nat
  BY <1>1
<1> QED
  BY <1>2

LEMMA BooksAre ==
  LotsOK => (Books <=> /\ Unused
                       /\ \A l \in LotId : lot[l] # Absent => lot[l].in = lot[l].rem + SumOf(Uses(l))
                       /\ \A a \in SignId : signed[a] - SumOf(usage[a]) \in 0..Slack)
BY TotalIs DEF Books, LotsUsed, SignOutsCovered, Uses

LEMMA LotRowIs ==
  ASSUME LotsOK, NEW l \in LotId, lot[l] # Absent
  PROVE  lot[l] \in LotRow /\ lot[l].in \in Nat /\ lot[l].rem \in Nat /\ lot[l].product \in Product
<1>1. lot[l] \in LotRow
  BY DEF LotsOK
<1> QED
  BY <1>1 DEF LotRow

\* A sign-out with no other open: its id is the highest, the lots give what was
\* asked, and each of them has as much less as was used of it.
LEMMA SignOutBooks ==
  ASSUME LotsOK, LotsOK', TxsGood, Books, NEW w \in Worker, ReadSign(tx[w]), CommitSignOut(w)
  PROVE  Books'
<1> DEFINE t == tx[w]
           takes == Takes(t)
           b == t.id
           extra == [l \in LotId |-> IF l \in DOMAIN takes THEN takes[l] ELSE 0]
<1>1. TxGood(t) /\ t.op = "sign_out" /\ t.step = "inserted"
  BY DEF TxsGood, CommitSignOut
<1>2. PICK S \in SUBSET LotId : t \in SignTx(S)
  BY <1>1, TxFields DEF TxGood
<1>3. /\ takes \in [S -> Nat] /\ DOMAIN takes = S /\ DOMAIN t.left = S
      /\ \A l \in S : /\ t.left[l] \in Nat /\ t.left[l] - takes[l] \in Nat
                      /\ takes[l] > 0 => lot[l] # Absent
                      /\ lot[l] # Absent => lot[l].rem = t.left[l]
  BY <1>2, TakesUpto, SignTxIs DEF ReadSign, CommitSignOut
<1>4. /\ b \in SignId /\ b = begun /\ signed[b] = 0 /\ t.qty \in Nat
  <2>1. b \in 0..MaxSignOuts /\ b # 0 /\ t.qty \in Nat
    BY <1>1, <1>2, SignTxIs, Constants DEF TxGood
  <2>2. b = begun /\ signed[b] = 0
    BY <1>1 DEF ReadSign
  <2> HIDE DEF b
  <2> QED
    BY <2>1, <2>2, Ids DEF SignId
<1>5. Max({b} \cup {a \in SignId : signed[a] > 0}) = b
  <2>1. \A a \in SignId : signed[a] > 0 => b >= a /\ a \in Nat
    BY <1>4, Ids DEF Books, Unused, LotsOK
  <2> DEFINE T == {b} \cup {a \in SignId : signed[a] > 0}
  <2>2. b \in Nat /\ T \subseteq Nat /\ b \in T /\ \A a \in T : b >= a
    <3>1. b \in Nat
      BY <1>4, Ids
    <3> HIDE DEF t, b, takes, extra
    <3>2. \A a \in T : a = b \/ (a \in SignId /\ signed[a] > 0)
      OBVIOUS
    <3>3. b \in T
      OBVIOUS
    <3> HIDE DEF T
    <3>4. \A a \in T : a \in Nat /\ b >= a
      BY <2>1, <3>1, <3>2
    <3> QED
      BY <3>1, <3>3, <3>4
  <2>3. Max(T) = b
    <3> HIDE DEF T, b
    <3> QED
      BY <2>2, MaxIs
  <2> QED
    BY <2>3
<1>6. /\ signed' = [signed EXCEPT ![b] = t.qty]
      /\ lot' = [l \in LotId |-> IF l \in S /\ takes[l] > 0
                                 THEN [lot[l] EXCEPT !.rem = t.left[l] - takes[l]] ELSE lot[l]]
      /\ usage' = [usage EXCEPT ![b] = [l \in LotId |->
                     IF l \in S THEN usage[b][l] + takes[l] ELSE usage[b][l]]]
      /\ UNCHANGED <<booked, begun>>
  BY <1>3, <1>5 DEF CommitSignOut
<1>7. SumOf(takes) \in Nat /\ t.qty - SumOf(takes) \in 0..Slack
  BY <1>2, TakesAll DEF ReadSign
<1> HIDE DEF takes, b, t
<1>8. extra \in [LotId -> Nat] /\ \A l \in LotId : extra[l] = IF l \in S THEN takes[l] ELSE 0
  BY <1>3
<1>9. SumOf(extra) = SumOf(takes)
  <2>1. [l \in S |-> extra[l]] = takes /\ \A l \in LotId \ S : extra[l] = 0
    BY <1>3, <1>8
  <2> HIDE DEF extra
  <2>2. SumOf(extra) = SumOf([l \in S |-> extra[l]])
    BY <1>2, <1>8, <2>1, Ids, SumOfPart
  <2> QED
    BY <2>1, <2>2
<1> HIDE DEF extra
<1>10. usage[b] \in [LotId -> Nat] /\ usage'[b] = [l \in LotId |-> usage[b][l] + extra[l]]
       /\ \A a \in SignId : a # b => usage'[a] = usage[a]
  <2>1. usage[b] \in [LotId -> Nat] /\ usage \in [SignId -> [LotId -> Nat]]
    BY <1>4 DEF LotsOK
  <2> QED
    BY <1>4, <1>6, <1>8, <2>1
<1>11. ASSUME NEW a \in SignId
       PROVE  signed'[a] - SumOf(usage'[a]) \in 0..Slack
  <2>1. /\ signed[a] - SumOf(usage[a]) \in 0..Slack
        /\ SumOf(usage[a]) \in Nat /\ signed[a] \in Nat
    <3>1. usage[a] \in [LotId -> Nat] /\ signed[a] \in Nat
      BY DEF LotsOK
    <3> QED
      BY <3>1, BooksAre, SumOfType, Ids
  <2>2. CASE a = b
    <3>1. SumOf(usage'[b]) = SumOf(usage[b]) + SumOf(extra)
      <4> DEFINE f == usage[b]
      <4>1. f \in [LotId -> Nat]
        BY <1>10
      <4> HIDE DEF f
      <4>2. SumOf([l \in LotId |-> f[l] + extra[l]]) = SumOf(f) + SumOf(extra)
        BY <1>8, <4>1, Ids, SumOfAdd
      <4> QED
        BY <1>10, <4>2 DEF f
    <3>2. signed'[b] = t.qty
      BY <1>4, <1>6 DEF LotsOK
    <3>3. SumOf(usage[b]) = 0
      BY <1>4, <2>1, <2>2, Ids
    <3> QED
      BY <1>7, <1>9, <2>2, <3>1, <3>2, <3>3
  <2>3. CASE a # b
    BY <1>6, <1>10, <2>1, <2>3 DEF LotsOK
  <2> QED
    BY <2>2, <2>3
<1>12. ASSUME NEW l \in LotId, lot'[l] # Absent
       PROVE  lot'[l].in = lot'[l].rem + SumOf(Uses(l)')
  <2>1. lot[l] # Absent
    BY <1>3, <1>6, <1>12
  <2>2. lot[l].in = lot[l].rem + SumOf(Uses(l)) /\ lot[l] \in LotRow /\ lot[l].rem \in Nat
    BY <2>1, BooksAre, LotRowIs
  <2>3. SumOf(Uses(l)') = SumOf(Uses(l)) + extra[l]
    <3> DEFINE f == Uses(l)
               g == Uses(l)'
    <3>1. f \in [SignId -> Nat] /\ g \in [SignId -> Nat] /\ SumOf(f) \in Nat
      <4>1. f \in [SignId -> Nat] /\ SumOf(f) \in Nat
        BY UsesType
      <4>2. g \in [SignId -> Nat]
        BY DEF Uses, LotsOK
      <4> QED
        BY <4>1, <4>2
    <3>2. \A a \in SignId \ {b} : g[a] = f[a]
      BY <1>10 DEF Uses
    <3>3. g[b] = f[b] + extra[l] /\ f[b] \in Nat /\ extra[l] \in Nat
      BY <1>4, <1>8, <1>10 DEF Uses
    <3> HIDE DEF f, g
    <3>4. SumOf(g) + f[b] = SumOf(f) + g[b]
      <4>1. IsFiniteSet(SignId) /\ b \in SignId
        BY <1>4, Ids
      <4> QED
        BY <3>1, <3>2, <4>1, SumOfUpdate
    <3>5. SumOf(g) \in Nat
      BY <3>1, Ids, SumOfType
    <3>6. SumOf(g) = SumOf(f) + extra[l]
      BY <3>1, <3>3, <3>4, <3>5
    <3> QED
      BY <3>6 DEF f, g
  <2>4. lot'[l].in = lot[l].in /\ lot'[l].rem + extra[l] = lot[l].rem
    <3>1. CASE l \in S /\ takes[l] > 0
      <4>1. lot'[l] = [lot[l] EXCEPT !.rem = t.left[l] - takes[l]]
        BY <1>6, <3>1
      <4>2. lot'[l].in = lot[l].in /\ lot'[l].rem = t.left[l] - takes[l]
        BY <2>2, <4>1 DEF LotRow
      <4>3. extra[l] = takes[l] /\ takes[l] \in Nat /\ t.left[l] \in Nat /\ lot[l].rem = t.left[l]
        BY <1>3, <1>8, <3>1
      <4> QED
        BY <4>2, <4>3
    <3>2. CASE ~(l \in S /\ takes[l] > 0)
      <4>1. lot'[l] = lot[l] /\ extra[l] = 0
        BY <1>3, <1>6, <1>8, <3>2
      <4> QED
        BY <2>2, <4>1
    <3> QED
      BY <3>1, <3>2
  <2>5. lot'[l].rem \in Nat /\ SumOf(Uses(l)) \in Nat /\ extra[l] \in Nat
    <3>1. lot'[l] \in LotRow
      BY <1>12 DEF LotsOK
    <3> QED
      BY <1>8, <3>1, UsesType DEF LotRow
  <2> QED
    BY <2>2, <2>3, <2>4, <2>5
<1>13. Unused'
  <2>1. \A l \in LotId : lot'[l] = Absent => lot[l] = Absent /\ extra[l] = 0
    <3> TAKE l \in LotId
    <3> HAVE lot'[l] = Absent
    <3>1. CASE l \in S /\ takes[l] > 0
      <4>1. lot[l] \in LotRow /\ lot'[l] = [lot[l] EXCEPT !.rem = t.left[l] - takes[l]]
        BY <1>2, <1>3, <1>6, <3>1, LotRowIs
      <4>2. lot'[l] \in LotRow
        BY <1>3, <3>1, <4>1 DEF LotRow
      <4> QED
        BY <4>2, Constants
    <3>2. CASE ~(l \in S /\ takes[l] > 0)
      <4>1. l \in S => takes[l] \in Nat
        BY <1>3
      <4> QED
        BY <1>6, <1>8, <3>2, <4>1
    <3> QED
      BY <3>1, <3>2
  <2>2. \A l \in LotId, a \in SignId : lot'[l] = Absent => usage'[a][l] = 0
    <3> TAKE l \in LotId, a \in SignId
    <3> HAVE lot'[l] = Absent
    <3>1. usage[a][l] = 0 /\ extra[l] = 0
      BY <1>8, <2>1 DEF Books, Unused
    <3>2. CASE a = b
      BY <1>10, <3>1, <3>2
    <3>3. CASE a # b
      BY <1>10, <3>1, <3>3
    <3> QED
      BY <3>2, <3>3
  <2>3. \A l \in LotId : l > booked' => lot'[l] = Absent
    BY <1>3, <1>6 DEF Books, Unused
  <2>4. \A a \in SignId : a > begun' => signed'[a] = 0
    <3>1. \A a \in SignId : a > begun => a # b
      BY <1>4, Ids
    <3> QED
      BY <1>6, <3>1 DEF Books, Unused, LotsOK
  <2> QED
    BY <2>2, <2>3, <2>4 DEF Unused
<1> QED
  BY <1>11, <1>12, <1>13, TotalIs DEF Books, LotsUsed, SignOutsCovered, Uses

\* A new lot is one that no sign-out has used.
LEMMA AddLotBooks ==
  ASSUME LotsOK, Books, NEW p \in Product, NEW q \in Quantity, AddLot(p, q)
  PROVE  Books'
<1> DEFINE n == booked + 1
           r == [product |-> p, in |-> q, rem |-> q]
<1>1. /\ n \in LotId /\ n > booked /\ booked \in Nat /\ booked' = n /\ q \in Nat
      /\ lot' = [lot EXCEPT ![n] = r] /\ UNCHANGED <<signed, begun, usage>>
  BY Ids, Constants DEF AddLot, LotsOK, LotId
<1>2. r.in = q /\ r.rem = q
  OBVIOUS
<1> HIDE DEF n, r
<1>3. lot[n] = Absent /\ \A a \in SignId : usage[a][n] = 0
  BY <1>1 DEF Books, Unused
<1>4. SumOf(Uses(n)) = 0
  <2>1. \A a \in SignId : Uses(n)[a] = 0
    BY <1>3 DEF Uses
  <2> QED
    BY <1>1, <2>1, UsesType, SumOfZeros, Ids
<1>5. \A l \in LotId : lot'[l] = IF l = n THEN r ELSE lot[l]
  BY <1>1 DEF LotsOK
<1>6. ASSUME NEW l \in LotId, lot'[l] # Absent
      PROVE  lot'[l].in = lot'[l].rem + SumOf(Uses(l))
  <2>1. CASE l = n
    BY <1>1, <1>2, <1>4, <1>5, <2>1
  <2>2. CASE l # n
    BY <1>5, <1>6, <2>2, BooksAre
  <2> QED
    BY <2>1, <2>2
<1>7. \A a \in SignId : signed[a] - SumOf(usage[a]) \in 0..Slack
  BY BooksAre
<1>8. Unused'
  <2>1. \A l \in LotId : l > n => l # n /\ l > booked
    BY <1>1, Ids
  <2> QED
    BY <1>1, <1>3, <1>5, <2>1 DEF Books, Unused
<1> QED
  BY <1>1, <1>6, <1>7, <1>8, TotalIs DEF Books, LotsUsed, SignOutsCovered, Uses

\* A lot goes with its product only when none of it was used.
LEMMA DeleteBooks ==
  ASSUME LotsOK, Books, NEW w \in Worker, CommitDelete(w)
  PROVE  Books'
<1> DEFINE t == tx[w]
           gone == {p \in products : p \in t.gone \/ VendorOf[p] = t.whole}
<1>1. /\ \A p \in gone, l \in LotId, a \in SignId : l \in Lots(p) => usage[a][l] = 0
      /\ lot' = [l \in LotId |-> IF \E p \in gone : l \in Lots(p) THEN Absent ELSE lot[l]]
      /\ UNCHANGED <<booked, signed, begun, usage>>
  BY DEF CommitDelete
<1> HIDE DEF gone
<1>2. \A l \in LotId : \/ lot'[l] = lot[l]
                       \/ lot'[l] = Absent /\ \A a \in SignId : usage[a][l] = 0
  BY <1>1
<1>3. Unused'
  BY <1>1, <1>2 DEF Books, Unused
<1> QED
  BY <1>1, <1>2, <1>3 DEF Books, LotsUsed, SignOutsCovered

LEMMA InsertBooks ==
  ASSUME LotsOK, Books, NEW w \in Worker, InsertAssignment(w)
  PROVE  Books'
<1>1. UNCHANGED lotvars /\ begun' = begun + 1 /\ \A a \in SignId : a > begun + 1 => a > begun
  BY Ids DEF InsertAssignment, LotsOK
<1> QED
  BY <1>1 DEF Books, Unused, LotsUsed, SignOutsCovered, lotvars

LEMMA NextBooks ==
  LotsOK /\ LotsOK' /\ TxsGood /\ Current /\ Books /\ [Next]_vars => Books'
<1> SUFFICES ASSUME LotsOK, LotsOK', TxsGood, Current, Books, [Next]_vars
             PROVE  Books'
  OBVIOUS
<1>1. ASSUME UNCHANGED <<lotvars, begun>>
      PROVE  Books'
  BY <1>1 DEF Books, Unused, LotsUsed, SignOutsCovered, lotvars
<1>2. ASSUME NEW w \in Worker,
             \/ BeginOnItem(w) \/ Look(w) \/ BeginDeletion(w)
             \/ \E p \in Product, q \in Quantity : BeginSignOut(w, NameOf[p], q)
             \/ HandItem(w) \/ Rollback(w)
      PROVE  Books'
  <2>1. UNCHANGED <<lotvars, begun>>
    BY <1>2 DEF BeginOnItem, BeginItem, BeginScan, Look, BeginDeletion, BeginDelete, BeginSignOut,
                Rollback, HandItem, CommitAssign, CommitPreAllocate,
                CommitRelease, CommitReturn, CommitScrap, CommitRma, CommitList, Write
  <2> QED
    BY <1>1, <2>1
<1>3. ASSUME NEW w \in Worker, CommitSignOut(w)
      PROVE  Books'
  <2>1. ReadSign(tx[w])
    BY <1>3 DEF Current, CommitSignOut
  <2> QED
    BY <1>3, <2>1, SignOutBooks
<1>4. CASE UNCHANGED vars \/ \E i \in Item : HoldRunsOut(i)
  BY <1>1, <1>4 DEF vars, HoldRunsOut, lotvars
<1>5. CASE BringIn
  <2>1. CASE \E p \in Product, q \in Quantity : AddLot(p, q)
    BY <2>1, AddLotBooks
  <2>2. CASE \/ \E v \in Vendor : AddVendor(v)
             \/ \E p \in Product : AddProduct(p)
             \/ \E p \in Product, batch \in SUBSET Item : AddItems(p, batch)
    BY <1>1, <2>2 DEF AddVendor, AddProduct, AddItems
  <2> QED
    BY <1>5, <2>1, <2>2 DEF BringIn
<1> QED
  BY <1>2, <1>3, <1>4, <1>5, DeleteBooks, InsertBooks DEF Next

LEMMA InitBooks == Init => Books
<1> SUFFICES ASSUME Init
             PROVE  Books
  OBVIOUS
<1>1. ASSUME NEW a \in SignId
      PROVE  SumOf(usage[a]) = 0
  <2>1. usage[a] \in [LotId -> Nat] /\ \A l \in LotId : usage[a][l] = 0
    BY DEF Init
  <2> QED
    BY <2>1, SumOfZeros, Ids
<1>2. Unused /\ \A l \in LotId : lot[l] = Absent
  BY DEF Init, Unused
<1>3. ASSUME NEW a \in SignId
      PROVE  signed[a] - SumOf(usage[a]) \in 0..Slack
  <2>1. signed[a] = 0 /\ SumOf(usage[a]) = 0 /\ Slack \in Nat
    BY <1>1, Ids DEF Init
  <2> QED
    BY <2>1
<1> QED
  BY <1>2, <1>3, TotalIs DEF Books, LotsUsed, SignOutsCovered

-----------------------------------------------------------------------------
(* What an open transaction has read.                                         *)

\* Nothing that comes in, and no hold that runs out, makes it stale.
LEMMA BringRead ==
  ASSUME ItemsOK, LotsOK, Unused, NEW t, TxGood(t), ReadOK(t), BringIn \/ \E i \in Item : HoldRunsOut(i)
  PROVE  ReadOK(t)'
<1>1. /\ t.op \in HandOps \cup {"list"} => t.item \in Item \cup {NoOne} /\ DOMAIN t.scan \subseteq Item
      /\ t.op \in HandOps => t.item \in Item
      /\ t.op = "sign_out" => DOMAIN t.left \subseteq LotId
  BY TxFields, ItemTxIs, SignTxIs DEF TxGood
<1>2. ASSUME UNCHANGED <<item, lot, booked, signed, begun>>
      PROVE  ReadOK(t)'
  BY <1>2 DEF ReadOK, ReadItem, ReadDelete, ReadSign
<1>3. ASSUME UNCHANGED <<lot, booked, signed, begun>>,
             \A i \in Item : item[i] # Absent =>
               /\ item'[i] # Absent /\ item'[i].product = item[i].product
               /\ item'[i].status = item[i].status /\ item'[i].who = item[i].who
               /\ item[i].hold = "over" => item'[i].hold = "over",
             \A i \in Item : item[i] = Absent /\ item'[i] # Absent => item'[i].status = "new"
      PROVE  ReadOK(t)'
  <2>1. t.op \in HandOps \cup {"list"} => ReadItem(t)'
    <3> SUFFICES ASSUME t.op \in HandOps \cup {"list"}
                 PROVE  ReadItem(t)'
      OBVIOUS
    <3>1. ReadItem(t)
      BY DEF ReadOK
    <3>2. \A j \in DOMAIN t.scan : item'[j] # Absent /\ item'[j].status = "pre_allocated"
                                  /\ item'[j].hold = "over" /\ item'[j].who = t.scan[j]
      BY <1>1, <1>3, <3>1 DEF ReadItem
    <3>3. t.step = "read" => t.item \in Item /\ item[t.item] # Absent
      BY <1>1, <3>1 DEF ReadItem, HandOps
    <3>4. t.step = "read" => /\ item'[t.item] # Absent /\ item'[t.item].who = item[t.item].who
                             /\ item'[t.item].status = item[t.item].status
      BY <1>3, <3>3
    <3> QED
      BY <3>1, <3>2, <3>4 DEF ReadItem
  <2>2. t.op = "delete" => ReadDelete(t)'
    BY <1>3 DEF ReadOK, ReadDelete
  <2>3. t.op = "sign_out" => ReadSign(t)'
    BY <1>3 DEF ReadOK, ReadSign
  <2> QED
    BY <2>1, <2>2, <2>3 DEF ReadOK
<1>4. CASE (\E v \in Vendor : AddVendor(v)) \/ (\E p \in Product : AddProduct(p))
  BY <1>2, <1>4 DEF AddVendor, AddProduct, itemvars, lotvars
<1>5. CASE \E p \in Product, batch \in SUBSET Item : AddItems(p, batch)
  <2>1. PICK p \in Product, batch \in SUBSET Item : AddItems(p, batch)
    BY <1>5
  <2>2. /\ item' = [i \in Item |-> IF i \in batch THEN NewItem(p) ELSE item[i]]
        /\ \A i \in batch : item[i] = Absent
        /\ UNCHANGED <<lot, booked, signed, begun>> /\ NewItem(p).status = "new"
    BY <2>1 DEF AddItems, lotvars, NewItem
  <2> QED
    BY <1>3, <2>2
<1>6. CASE \E p \in Product, q \in Quantity : AddLot(p, q)
  <2>1. PICK n \in LotId : n > booked /\ (\A l \in LotId : l # n => lot'[l] = lot[l])
                           /\ UNCHANGED <<item, signed, begun>> /\ booked' = booked + 1 /\ booked \in Nat
    <3>1. PICK p \in Product, q \in Quantity : AddLot(p, q)
      BY <1>6
    <3>2. booked + 1 \in LotId /\ booked + 1 > booked /\ booked \in Nat
      BY <3>1, Ids DEF AddLot, LotsOK, LotId
    <3> QED
      BY <3>1, <3>2 DEF AddLot, itemvars, LotsOK
  <2>2. t.op = "sign_out" => ReadSign(t)'
    <3> SUFFICES ASSUME t.op = "sign_out"
                 PROVE  ReadSign(t)'
      OBVIOUS
    <3>1. ReadSign(t)
      BY DEF ReadOK
    <3>2. \A l \in DOMAIN t.left : l \in Nat /\ l <= booked
      BY <1>1, <3>1, Ids DEF ReadSign
    <3>3. \A l \in DOMAIN t.left : l <= booked'
      BY <2>1, <3>2
    <3>4. \A l \in DOMAIN t.left : l \in LotId /\ l # n
      BY <1>1, <2>1, <3>2
    <3> QED
      BY <2>1, <3>1, <3>3, <3>4 DEF ReadSign
  <2> QED
    BY <2>1, <2>2 DEF ReadOK, ReadItem, ReadDelete
<1>7. CASE \E i \in Item : HoldRunsOut(i)
  <2>1. PICK i \in Item : HoldRunsOut(i)
    BY <1>7
  <2>2. item[i] \in ItemRow /\ item[i] # Absent /\ item' = [item EXCEPT ![i] = [item[i] EXCEPT !.hold = "over"]]
    BY <2>1 DEF HoldRunsOut, ItemsOK
  <2> DEFINE r == [item[i] EXCEPT !.hold = "over"]
  <2>3. /\ r \in ItemRow /\ r.product = item[i].product /\ r.status = item[i].status /\ r.who = item[i].who
        /\ r.hold = "over"
    BY <2>2 DEF ItemRow
  <2>4. UNCHANGED <<lot, booked, signed, begun>>
    BY <2>1 DEF HoldRunsOut, lotvars
  <2>5. r # Absent
    BY <2>3, Constants
  <2>6. \A j \in Item : item'[j] = IF j = i THEN r ELSE item[j]
    BY <2>2 DEF ItemsOK
  <2> HIDE DEF r
  <2> QED
    BY <1>3, <2>2, <2>3, <2>4, <2>5, <2>6
<1> QED
  BY <1>4, <1>5, <1>6, <1>7 DEF BringIn

LEMMA BeginRead ==
  ASSUME ItemsOK, LotsOK, TxsGood, NEW w \in Worker, BeginOnItem(w), OthersRead(w)
  PROVE  Current'
<1>1. ASSUME NEW op \in {"assign", "return", "scrap", "rma"}, NEW i \in Item, NEW c,
             op # "assign" => c = NoOne, BeginItem(w, op, i, c)
      PROVE  Current'
  <2>1. PICK t : t = [op |-> op, step |-> "read", item |-> i, who |-> c, scan |-> <<>>,
                      from |-> item[i].status, held |-> item[i].who]
    OBVIOUS
  <2>2. /\ t.op = op /\ t.step = "read" /\ t.item = i /\ t.who = c /\ t.scan = <<>>
        /\ t.from = item[i].status /\ t.held = item[i].who /\ DOMAIN t.scan = {}
    BY <2>1
  <2>3. item[i] # Absent /\ Admits(op, item[i].status) /\ UNCHANGED item
    BY <1>1 DEF BeginItem, itemvars
  <2>4. ReadItem(t)'
    BY <1>1, <2>2, <2>3 DEF ReadItem
  <2>5. ReadOK(t)'
    BY <2>2, <2>4 DEF ReadOK
  <2> QED
    BY <1>1, <2>1, <2>5, StepCurrent DEF BeginItem, Start
<1>2. ASSUME NEW op \in {"pre_allocate", "release", "list"}, NEW i, NEW c,
             op = "release" => c = NoOne, BeginScan(w, op, i, c)
      PROVE  Current'
  <2>1. PICK t : t = [op |-> op, step |-> "scan", item |-> i, who |-> c, scan |-> Scan,
                      from |-> "new", held |-> NoOne]
    OBVIOUS
  <2>2. t.op = op /\ t.step = "scan" /\ t.who = c /\ t.scan = Scan
    BY <2>1
  <2>3. \A j \in DOMAIN Scan : item[j] # Absent /\ item[j].status = "pre_allocated"
                              /\ item[j].hold = "over" /\ item[j].who = Scan[j]
    BY DEF Scan, DueHolds
  <2>4. UNCHANGED item
    BY <1>2 DEF BeginScan, itemvars
  <2>5. ReadItem(t)'
    BY <1>2, <2>2, <2>3, <2>4 DEF ReadItem
  <2>6. ReadOK(t)'
    BY <2>2, <2>5 DEF ReadOK
  <2> QED
    BY <1>2, <2>1, <2>6, StepCurrent DEF BeginScan, Start
<1> QED
  BY <1>1, <1>2 DEF BeginOnItem

LEMMA LookRead ==
  ASSUME ItemsOK, LotsOK, TxsGood, Current, NEW w \in Worker, Look(w), OthersRead(w)
  PROVE  Current'
<1>1. PICK t : t = tx[w]
  OBVIOUS
<1>2. PICK u : u = [t EXCEPT !.step = "read", !.from = Found(w, t.item), !.held = item[t.item].who]
  OBVIOUS
<1>3. /\ TxGood(t) /\ t.op \in {"pre_allocate", "release"} /\ item[t.item] # Absent
      /\ Admits(t.op, Found(w, t.item)) /\ UNCHANGED item /\ tx' = [tx EXCEPT ![w] = u]
  BY <1>1, <1>2 DEF TxsGood, Look, itemvars
<1>4. PICK S \in SUBSET Item : t \in ItemTx(S)
  BY <1>3, TxFields DEF TxGood, HandOps
<1>5. /\ u.op = t.op /\ u.item = t.item /\ u.who = t.who /\ u.scan = t.scan
      /\ u.step = "read" /\ u.from = Found(w, t.item) /\ u.held = item[t.item].who
  BY <1>2, <1>4 DEF ItemTx
<1>6. ReadItem(t)
  BY <1>1, <1>3 DEF Current, HandOps
<1>7. Found(w, t.item) = IF t.item \in DOMAIN t.scan THEN "new" ELSE item[t.item].status
  BY <1>1 DEF Found
<1>8. ReadItem(u)'
  BY <1>3, <1>5, <1>6, <1>7 DEF ReadItem
<1>9. ReadOK(u)'
  BY <1>3, <1>5, <1>8 DEF ReadOK
<1> QED
  BY <1>3, <1>9, StepCurrent

LEMMA DeleteRead ==
  ASSUME ItemsOK, LotsOK, TxsGood, NEW w \in Worker, BeginDeletion(w), OthersRead(w)
  PROVE  Current'
<1>1. ASSUME NEW gone, NEW whole, BeginDelete(w, gone, whole),
             \A p \in products : p \in gone \/ VendorOf[p] = whole => p \in gone
      PROVE  Current'
  <2>1. PICK t : t = [op |-> "delete", gone |-> gone, whole |-> whole]
    OBVIOUS
  <2>2. t.op = "delete" /\ t.gone = gone /\ t.whole = whole
    BY <2>1
  <2>3. UNCHANGED item /\ \A p \in gone : ~Blocked(p)
    BY <1>1 DEF BeginDelete, itemvars
  <2>4. ReadDelete(t)
    BY <1>1, <2>2, <2>3 DEF ReadDelete, Blocked, Items, ItemsOK
  <2>5. ReadOK(t)'
    BY <2>2, <2>3, <2>4 DEF ReadOK, ReadDelete, HandOps
  <2> QED
    BY <1>1, <2>1, <2>5, StepCurrent DEF BeginDelete, Start
<1>2. CASE \E p \in Product : BeginDelete(w, {p}, NoOne)
  <2>1. \A p \in products : VendorOf[p] # NoOne
    BY Constants DEF LotsOK
  <2> QED
    BY <1>1, <1>2, <2>1
<1>3. CASE \E v \in Vendor : BeginDelete(w, {p \in products : VendorOf[p] = v}, v)
  BY <1>1, <1>3
<1> QED
  BY <1>2, <1>3 DEF BeginDeletion

LEMMA SignRead ==
  ASSUME LotsOK, TxsGood, Current, Unused, NEW w \in Worker, OthersRead(w),
         (\E p \in Product, q \in Quantity : BeginSignOut(w, NameOf[p], q)) \/ InsertAssignment(w)
  PROVE  Current'
<1>1. ASSUME NEW n, NEW q \in Quantity, BeginSignOut(w, n, q)
      PROVE  Current'
  <2> DEFINE left == Left(n)
  <2>1. PICK t : t = [op |-> "sign_out", step |-> "read", qty |-> q, left |-> left, id |-> 0]
    OBVIOUS
  <2>2. t.op = "sign_out" /\ t.step = "read" /\ t.left = left /\ t.qty = q
    BY <2>1
  <2>3. /\ Total(left) + Slack >= q /\ UNCHANGED <<lot, booked, signed>>
        /\ \A l \in DOMAIN left : l \in LotId /\ lot[l] # Absent /\ lot[l].rem = left[l]
    BY <1>1 DEF BeginSignOut, lotvars, Left
  <2>4a. ASSUME NEW l \in DOMAIN left
         PROVE  l <= booked
    <3>1. l \in LotId /\ lot[l] # Absent
      BY <2>3
    <3>2. l \in Nat /\ booked \in Nat
      BY <3>1, Ids DEF LotsOK
    <3>3. ~(l > booked)
      BY <3>1 DEF Unused
    <3> QED
      BY <3>2, <3>3
  <2> HIDE DEF left
  <2>4. ReadSign(t)'
    BY <2>2, <2>3, <2>4a DEF ReadSign
  <2>5. ReadOK(t)'
    BY <2>2, <2>4 DEF ReadOK, HandOps
  <2> QED
    BY <1>1, <2>1, <2>5, StepCurrent DEF BeginSignOut, Start, left
<1>2. ASSUME InsertAssignment(w)
      PROVE  Current'
  <2>1. PICK t : t = tx[w]
    OBVIOUS
  <2>2. PICK u : u = [t EXCEPT !.step = "inserted", !.id = begun + 1]
    OBVIOUS
  <2>3. /\ TxGood(t) /\ t.op = "sign_out" /\ begun < MaxSignOuts /\ begun' = begun + 1
        /\ UNCHANGED <<lot, booked, signed>>
    BY <1>2, <2>1 DEF TxsGood, InsertAssignment, lotvars
  <2>4. PICK S \in SUBSET LotId : t \in SignTx(S)
    BY <2>3, TxFields DEF TxGood
  <2>5. tx' = [tx EXCEPT ![w] = u]
    BY <1>2, <2>1, <2>2, <2>4 DEF InsertAssignment, TxsGood, SignTx
  <2>6. /\ u.op = "sign_out" /\ u.qty = t.qty /\ u.left = t.left /\ u.id = begun + 1
    BY <2>2, <2>4 DEF SignTx
  <2>7. ReadSign(t)
    BY <2>1, <2>3 DEF Current
  <2>8. signed[begun + 1] = 0
    <3>1. begun + 1 \in SignId /\ begun + 1 > begun
      BY <2>3, Ids DEF LotsOK, SignId
    <3> QED
      BY <3>1 DEF Unused
  <2>9. ReadSign(u)'
    BY <2>3, <2>6, <2>7, <2>8 DEF ReadSign
  <2>10. ReadOK(u)'
    BY <2>6, <2>9 DEF ReadOK, HandOps
  <2> QED
    BY <2>5, <2>10, StepCurrent
<1> QED
  BY <1>1, <1>2

\* The steps of a worker leave what the others have read.
LEMMA StepOthers ==
  ASSUME ItemsOK, LotsOK, TxsGood, Current, Apart, NEW w \in Worker,
         \/ BeginOnItem(w) \/ Look(w) \/ HandItem(w) \/ BeginDeletion(w) \/ CommitDelete(w)
         \/ \E p \in Product, q \in Quantity : BeginSignOut(w, NameOf[p], q)
         \/ InsertAssignment(w) \/ CommitSignOut(w) \/ Rollback(w)
  PROVE  OthersRead(w)
<1>1. \A v \in Worker \ {w} : tx'[v] = tx[v]
  BY DEF TxsGood, BeginOnItem, BeginItem, BeginScan, Look, BeginDeletion, BeginDelete, BeginSignOut, Start,
         InsertAssignment, Rollback, HandItem, CommitDelete, CommitSignOut, CommitAssign, CommitPreAllocate,
         CommitRelease, CommitReturn, CommitScrap, CommitRma, CommitList, Write, End
<1>2. UNCHANGED item => Keeps(w)
  BY DEF Keeps
<1>3. CASE \/ BeginOnItem(w) \/ Look(w) \/ BeginDeletion(w)
           \/ \E p \in Product, q \in Quantity : BeginSignOut(w, NameOf[p], q)
           \/ Rollback(w)
  <2>1. UNCHANGED <<itemvars, lotvars, begun>>
    BY <1>3 DEF BeginOnItem, BeginItem, BeginScan, Look, BeginDeletion, BeginDelete, BeginSignOut, Rollback
  <2>2. UNCHANGED <<item, lot, booked, signed, begun>>
    BY <2>1 DEF itemvars, lotvars
  <2> QED
    BY <1>1, <1>2, <2>2, OthersCurrent
<1>4. CASE HandItem(w)
  <2>1. UNCHANGED <<lotvars, begun>>
    BY <1>4 DEF HandItem, CommitAssign, CommitPreAllocate,
                CommitRelease, CommitReturn, CommitScrap, CommitRma, CommitList, Write
  <2>2. UNCHANGED <<lot, booked, signed, begun>> /\ Keeps(w)
    BY <1>4, <2>1, HandItems DEF lotvars
  <2> QED
    BY <1>1, <2>2, OthersCurrent
<1>5. CASE CommitDelete(w)
  <2>1. UNCHANGED <<booked, signed, begun>> /\ \A l \in LotId : lot'[l] = lot[l] \/ lot'[l] = Absent
    BY <1>5 DEF CommitDelete
  <2> QED
    BY <1>1, <1>5, <2>1, DeleteKeeps, OthersCurrent
<1>6. CASE InsertAssignment(w) \/ CommitSignOut(w)
  <2>1. tx[w].op = "sign_out" /\ UNCHANGED item
    BY <1>6 DEF InsertAssignment, CommitSignOut, itemvars
  <2> QED
    BY <1>1, <1>2, <2>1, OthersCurrent
<1> QED
  BY <1>3, <1>4, <1>5, <1>6

\* When a transaction ends, it has nothing left to be so.
LEMMA EndCurrent ==
  ASSUME TxsGood, NEW w \in Worker, End(w), OthersRead(w)
  PROVE  Current'
<1>1. ReadOK(Idle)'
  BY DEF ReadOK, Idle, HandOps
<1> QED
  BY <1>1, StepCurrent DEF End

LEMMA NextCurrent ==
  Apart /\ ItemsOK /\ LotsOK /\ TxsGood /\ Unused /\ Current /\ [Next]_vars => Current'
<1> SUFFICES ASSUME Apart, ItemsOK, LotsOK, TxsGood, Unused, Current, [Next]_vars
             PROVE  Current'
  OBVIOUS
<1>1. ASSUME NEW w \in Worker, HandItem(w) \/ CommitDelete(w) \/ CommitSignOut(w) \/ Rollback(w)
      PROVE  Current'
  <2>1. End(w)
    BY <1>1 DEF HandItem, CommitDelete, CommitSignOut, Rollback, CommitAssign, CommitPreAllocate,
                CommitRelease, CommitReturn, CommitScrap, CommitRma, CommitList, Write
  <2>2. OthersRead(w)
    BY <1>1, StepOthers
  <2> QED
    BY <2>1, <2>2, EndCurrent
<1>2. CASE BringIn \/ \E i \in Item : HoldRunsOut(i)
  <2>1. UNCHANGED tx
    BY <1>2 DEF BringIn, AddVendor, AddProduct, AddItems, AddLot, HoldRunsOut
  <2>2. ASSUME NEW w \in Worker
        PROVE  ReadOK(tx[w])'
    <3>1. PICK t : t = tx[w]
      OBVIOUS
    <3>2. TxGood(t) /\ ReadOK(t)
      BY <3>1, CurrentIs DEF TxsGood
    <3>3. ReadOK(t)'
      BY <1>2, <3>2, BringRead
    <3>4. t = tx'[w]
      BY <2>1, <3>1
    <3> QED
      BY <3>3, <3>4 DEF ReadOK, ReadItem, ReadDelete, ReadSign
  <2> QED
    BY <2>2 DEF Current, ReadOK
<1>3. CASE UNCHANGED vars
  BY <1>3 DEF vars, itemvars, lotvars, Current, ReadItem, ReadDelete, ReadSign
<1>4. ASSUME NEW w \in Worker,
             \/ BeginOnItem(w) \/ Look(w) \/ BeginDeletion(w)
             \/ \E p \in Product, q \in Quantity : BeginSignOut(w, NameOf[p], q)
             \/ InsertAssignment(w)
      PROVE  Current'
  <2>1. OthersRead(w)
    BY <1>4, StepOthers
  <2> QED
    BY <1>4, <2>1, BeginRead, LookRead, DeleteRead, SignRead
<1> QED
  BY <1>1, <1>2, <1>3, <1>4 DEF Next

-----------------------------------------------------------------------------
(* Row and log.                                                              *)

RowTells(row, log) ==
  /\ row.status = IF log = NoLog THEN "new" ELSE log.to
  /\ row.status # "new" => row.who = log.who /\ row.who # NoOne
  /\ row.status = "new" => row.who = NoOne
  /\ row.out <=> row.status # "new"
  /\ row.hold # "none" <=> row.status = "pre_allocated"

LEMMA TellsIs == LogTellsState <=> \A i \in Item : item[i] # Absent => RowTells(item[i], last[i])
BY DEF LogTellsState, RowTells

\* A hold that ran out, with the log row of the expiry.
LEMMA FreedTells ==
  ASSUME NEW row \in ItemRow, NEW who \in Holder
  PROVE  RowTells(Freed(row), [from |-> "pre_allocated", to |-> "new", who |-> who])
<1> DEFINE log == [from |-> "pre_allocated", to |-> "new", who |-> who]
<1>1. log \in LogRow /\ log.to = "new"
  BY DEF LogRow, Status, Holder
<1>2. log # NoLog
  BY <1>1, Constants
<1> HIDE DEF log
<1> QED
  BY <1>1, <1>2, FreedRow DEF RowTells, log

\* A handler writes the log row that tells the row it writes.
LEMMA WriteTells ==
  ASSUME ItemsOK, LotsOK, TxsGood, LogTellsState, NEW w \in Worker, tx[w].op \in HandOps,
         NEW row, NEW to \in Status \cup {"scrapped"}, Write(w, row, to),
         row # Absent => RowTells(row, [from |-> tx[w].from, to |-> to,
                                        who |-> IF tx[w].who = NoOne THEN tx[w].held ELSE tx[w].who])
  PROVE  LogTellsState'
<1> DEFINE t == tx[w]
           S == DOMAIN t.scan
           log == [from |-> t.from, to |-> to, who |-> IF t.who = NoOne THEN t.held ELSE t.who]
           freed(j) == [from |-> "pre_allocated", to |-> "new", who |-> t.scan[j]]
<1>1. S \subseteq Item /\ \A j \in S : t.scan[j] \in Holder
  BY TxFields, ItemTxIs DEF TxGood, TxsGood
<1>2. /\ item' = [j \in Item |-> IF j = t.item THEN row ELSE IF j \in S THEN Freed(item[j]) ELSE item[j]]
      /\ last' = [j \in Item |-> IF row = Absent /\ j = t.item THEN NoLog
                                 ELSE IF j = t.item THEN log ELSE IF j \in S THEN freed(j) ELSE last[j]]
      /\ \A j \in S : item[j] # Absent
  BY DEF Write
<1>3. \A j \in S : RowTells(Freed(item[j]), freed(j))
  <2> TAKE j \in S
  <2>1. item[j] \in ItemRow /\ t.scan[j] \in Holder
    BY <1>1, <1>2 DEF ItemsOK
  <2> HIDE DEF t
  <2> QED
    BY <2>1, FreedTells
<1>4. row # Absent => RowTells(row, log)
  OBVIOUS
<1> HIDE DEF t, S, log, freed
<1>5. ASSUME NEW j \in Item, item'[j] # Absent
      PROVE  RowTells(item'[j], last'[j])
  <2>1. CASE j = t.item
    BY <1>2, <1>4, <1>5, <2>1
  <2>2. CASE j # t.item /\ j \in S
    BY <1>2, <1>3, <2>2
  <2>3. CASE j # t.item /\ j \notin S
    BY <1>2, <1>5, <2>3, TellsIs
  <2> QED
    BY <2>1, <2>2, <2>3
<1> QED
  BY <1>5 DEF LogTellsState, RowTells

\* What a handler that was admitted finds when it commits.
LEMMA Admitted ==
  ASSUME ItemsOK, TxsGood, LogTellsState, NEW w \in Worker, tx[w].op \in HandOps, ReadItem(tx[w]),
         tx[w].step = "read", Row(w) # Absent
  PROVE  /\ Row(w) \in ItemRow /\ tx[w].item \in Item /\ RowTells(Row(w), last[tx[w].item])
         /\ tx[w].op \in {"return", "rma"} =>
              Row(w).status = "assigned" /\ tx[w].who = NoOne /\ tx[w].held = Row(w).who
         /\ tx[w].op = "scrap" => tx[w].held = Row(w).who
<1> DEFINE t == tx[w]
<1>1. t.item \in Item
  BY DEF TxsGood, TxGood
<1>2. Row(w) \in ItemRow /\ RowTells(Row(w), last[t.item])
  BY <1>1, TellsIs DEF Row, ItemsOK
<1>3. t.op \in {"return", "rma"} => Row(w).status = "assigned" /\ t.who = NoOne
  BY DEF ReadItem, Row, Admits
<1> QED
  BY <1>1, <1>2, <1>3 DEF ReadItem, Row

LEMMA HandTells ==
  ASSUME ItemsOK, LotsOK, TxsGood, Current, LogTellsState, NEW w \in Worker, HandItem(w)
  PROVE  LogTellsState'
<1> DEFINE t == tx[w]
           r == Row(w)
           who == IF t.who = NoOne THEN t.held ELSE t.who
           log(to) == [from |-> t.from, to |-> to, who |-> who]
<1>1. TxGood(t) /\ (t.op \in HandOps => ReadItem(t))
  BY DEF TxsGood, Current
<1>2. \A to \in Status \cup {"scrapped"} : t.op \in HandOps => log(to) # NoLog /\ log(to).to = to /\ log(to).who = who
  <2>1. t.op \in HandOps => t.from \in Status /\ who \in Holder
    BY <1>1, TxFields, ItemTxIs DEF TxGood
  <2>2. \A to \in Status \cup {"scrapped"} : t.op \in HandOps => log(to) \in LogRow
    BY <2>1 DEF LogRow, Holder
  <2> QED
    BY <2>2, Constants
<1>3. t.op \in HandOps /\ t.step = "read" /\ r # Absent =>
        /\ r \in ItemRow /\ RowTells(r, last[t.item])
        /\ t.op \in {"return", "rma"} => r.status = "assigned" /\ t.who = NoOne /\ t.held = r.who
  BY <1>1, Admitted
<1>4. CASE CommitAssign(w)
  <2> DEFINE row == [r EXCEPT !.status = "assigned", !.who = t.who, !.out = TRUE, !.hold = "none"]
  <2>1. t.op = "assign" /\ t.who # NoOne /\ r \in ItemRow /\ who = t.who /\ Write(w, row, "assigned")
    BY <1>1, <1>3, <1>4 DEF CommitAssign, TxGood, HandOps, Write
  <2>2. row.status = "assigned" /\ row.who = t.who /\ row.out /\ row.hold = "none"
    <3> HIDE DEF r, t
    <3> QED
      BY <2>1 DEF ItemRow
  <2>3. RowTells(row, log("assigned"))
    <3> HIDE DEF row, log, t
    <3> QED
      BY <1>2, <2>1, <2>2 DEF RowTells, Status, HandOps
  <2> QED
    BY <2>1, <2>3, WriteTells DEF Status, HandOps
<1>5. CASE CommitPreAllocate(w)
  <2> DEFINE row == [r EXCEPT !.status = "pre_allocated", !.who = t.who, !.out = TRUE, !.hold = "running"]
  <2>1. t.op = "pre_allocate" /\ t.who # NoOne /\ r \in ItemRow /\ who = t.who /\ Write(w, row, "pre_allocated")
    BY <1>1, <1>3, <1>5 DEF CommitPreAllocate, TxGood, HandOps, Write
  <2>2. row.status = "pre_allocated" /\ row.who = t.who /\ row.out /\ row.hold = "running"
    <3> HIDE DEF r, t
    <3> QED
      BY <2>1 DEF ItemRow
  <2>3. RowTells(row, log("pre_allocated"))
    <3> HIDE DEF row, log, t
    <3> QED
      BY <1>2, <2>1, <2>2 DEF RowTells, Status, HandOps
  <2> QED
    BY <2>1, <2>3, WriteTells DEF Status, HandOps
<1>6. CASE CommitRelease(w)
  <2>1. t.op = "release" /\ r \in ItemRow /\ Write(w, Freed(r), "new")
    BY <1>3, <1>6 DEF CommitRelease, HandOps, Write
  <2>2. RowTells(Freed(r), log("new"))
    <3> HIDE DEF log, t, r
    <3> QED
      BY <1>2, <2>1, FreedRow DEF RowTells, Status, HandOps
  <2> QED
    BY <2>1, <2>2, WriteTells DEF Status, HandOps
<1>7. CASE CommitReturn(w)
  <2> DEFINE row == [r EXCEPT !.status = "returned"]
  <2>1. /\ t.op = "return" /\ r \in ItemRow /\ Write(w, row, "returned")
        /\ RowTells(r, last[t.item]) /\ r.status = "assigned" /\ who = r.who
    BY <1>3, <1>7 DEF CommitReturn, HandOps, Write
  <2>2. row.status = "returned" /\ row.who = r.who /\ row.out = r.out /\ row.hold = r.hold
    <3> HIDE DEF r, t
    <3> QED
      BY <2>1 DEF ItemRow
  <2>3. RowTells(row, log("returned"))
    <3> HIDE DEF row, log, t, r
    <3> QED
      BY <1>2, <2>1, <2>2 DEF RowTells, Status, HandOps
  <2> QED
    BY <2>1, <2>3, WriteTells DEF Status, HandOps
<1>8. CASE CommitScrap(w)
  <2>1. t.op = "scrap" /\ Write(w, Absent, "scrapped")
    BY <1>8 DEF CommitScrap
  <2> QED
    BY <2>1, WriteTells DEF HandOps
<1>9. CASE CommitRma(w)
  <2>1. /\ t.op = "rma" /\ r \in ItemRow /\ Write(w, r, "assigned")
        /\ RowTells(r, last[t.item]) /\ r.status = "assigned" /\ who = r.who
    BY <1>3, <1>9 DEF CommitRma, HandOps, Write
  <2>2. RowTells(r, log("assigned"))
    <3> HIDE DEF log, t, r
    <3> QED
      BY <1>2, <2>1 DEF RowTells, Status, HandOps
  <2> QED
    BY <2>1, <2>2, WriteTells DEF Status, HandOps
<1>10. CASE CommitList(w)
  <2> DEFINE S == DOMAIN t.scan
  <2>1. \A j \in S : j \in Item /\ t.scan[j] \in Holder /\ item[j] \in ItemRow
    BY <1>1, <1>10, TxFields, ItemTxIs DEF CommitList, TxGood, ItemsOK
  <2>2. /\ item' = [j \in Item |-> IF j \in S THEN Freed(item[j]) ELSE item[j]]
        /\ last' = [j \in Item |-> IF j \in S
                     THEN [from |-> "pre_allocated", to |-> "new", who |-> t.scan[j]] ELSE last[j]]
    BY <1>10 DEF CommitList
  <2>3. \A j \in S : RowTells(Freed(item[j]), [from |-> "pre_allocated", to |-> "new", who |-> t.scan[j]])
    <3> HIDE DEF t
    <3> QED
      BY <2>1, FreedTells
  <2> HIDE DEF S, t
  <2>4. \A j \in Item : item'[j] # Absent => RowTells(item'[j], last'[j])
    BY <2>2, <2>3, TellsIs
  <2> QED
    BY <2>4 DEF LogTellsState, RowTells
<1> QED
  BY <1>4, <1>5, <1>6, <1>7, <1>8, <1>9, <1>10 DEF HandItem

LEMMA NextTells ==
  ItemsOK /\ LotsOK /\ TxsGood /\ Current /\ LogTellsState /\ [Next]_vars => LogTellsState'
<1> SUFFICES ASSUME ItemsOK, LotsOK, TxsGood, Current, LogTellsState, [Next]_vars
             PROVE  LogTellsState'
  OBVIOUS
<1>1. ASSUME UNCHANGED itemvars
      PROVE  LogTellsState'
  BY <1>1 DEF LogTellsState, itemvars
<1>2. ASSUME NEW w \in Worker,
             \/ BeginOnItem(w) \/ Look(w) \/ BeginDeletion(w)
             \/ \E p \in Product, q \in Quantity : BeginSignOut(w, NameOf[p], q)
             \/ InsertAssignment(w) \/ CommitSignOut(w) \/ Rollback(w)
      PROVE  LogTellsState'
  <2>1. UNCHANGED itemvars
    BY <1>2 DEF BeginOnItem, BeginItem, BeginScan, Look, BeginDeletion, BeginDelete, BeginSignOut,
                InsertAssignment, CommitSignOut, Rollback
  <2> QED
    BY <1>1, <2>1
<1>3. ASSUME NEW w \in Worker, CommitDelete(w)
      PROVE  LogTellsState'
  <2> DEFINE gone == {p \in products : p \in tx[w].gone \/ VendorOf[p] = tx[w].whole}
             goes(i) == \E p \in gone : i \in Items(p)
  <2>2. /\ item' = [i \in Item |-> IF goes(i) THEN Absent ELSE item[i]]
        /\ last' = [i \in Item |-> IF goes(i) THEN NoLog ELSE last[i]]
    BY <1>3 DEF CommitDelete
  <2> HIDE DEF goes
  <2>1. \A i \in Item : item'[i] = Absent \/ (item'[i] = item[i] /\ last'[i] = last[i])
    BY <2>2
  <2> QED
    BY <2>1 DEF LogTellsState
<1>4. CASE BringIn
  <2>1. CASE \E p \in Product, batch \in SUBSET Item : AddItems(p, batch)
    <3>1. PICK p \in Product, batch \in SUBSET Item : AddItems(p, batch)
      BY <2>1
    <3>2. /\ item' = [i \in Item |-> IF i \in batch THEN NewItem(p) ELSE item[i]]
          /\ \A i \in batch : last[i] = NoLog
          /\ UNCHANGED last
      BY <3>1 DEF AddItems
    <3>3. RowTells(NewItem(p), NoLog)
      BY DEF RowTells, NewItem
    <3>4. \A i \in Item : item'[i] # Absent => RowTells(item'[i], last'[i])
      BY <3>2, <3>3, TellsIs
    <3> QED
      BY <3>4 DEF LogTellsState, RowTells
  <2>2. CASE \/ \E v \in Vendor : AddVendor(v)
             \/ \E p \in Product : AddProduct(p)
             \/ \E p \in Product, q \in Quantity : AddLot(p, q)
    BY <1>1, <2>2 DEF AddVendor, AddProduct, AddLot
  <2> QED
    BY <1>4, <2>1, <2>2 DEF BringIn
<1>5. ASSUME NEW i \in Item, HoldRunsOut(i)
      PROVE  LogTellsState'
  <2>1. /\ item[i] \in ItemRow /\ item[i] # Absent /\ item[i].hold = "running" /\ UNCHANGED last
        /\ item' = [item EXCEPT ![i] = [item[i] EXCEPT !.hold = "over"]]
    BY <1>5 DEF HoldRunsOut, ItemsOK
  <2> DEFINE r == [item[i] EXCEPT !.hold = "over"]
  <2>2. r.status = item[i].status /\ r.who = item[i].who /\ r.hold = "over" /\ r.out = item[i].out
    BY <2>1 DEF ItemRow
  <2>3. \A j \in Item : item'[j] = IF j = i THEN r ELSE item[j]
    BY <2>1 DEF ItemsOK
  <2>4. RowTells(r, last[i])
    <3> HIDE DEF r
    <3> QED
      BY <2>1, <2>2, TellsIs DEF RowTells
  <2> HIDE DEF r
  <2>5. \A j \in Item : item'[j] # Absent => RowTells(item'[j], last'[j])
    BY <2>1, <2>3, <2>4, TellsIs
  <2> QED
    BY <2>5 DEF LogTellsState, RowTells
<1>6. CASE UNCHANGED vars
  BY <1>1, <1>6 DEF vars, itemvars
<1> QED
  BY <1>2, <1>3, <1>4, <1>5, <1>6, HandTells DEF Next

-----------------------------------------------------------------------------
(* Theorems about handlers that take turns.                                  *)

LEMMA TurnParts == TurnInv <=> ItemsOK /\ LotsOK /\ TxsGood /\ Apart /\ LogTellsState /\ Current /\ Books
BY Parts DEF TurnInv, Books

\* A step of the specification where handlers take turns.
Turn == Next /\ Apart'

LEMMA Turns == ASSUME TakeTurns PROVE Spec => Init /\ [][Turn]_vars
<1>1. [Next /\ (TakeTurns => Apart')]_vars => [Turn]_vars
  BY DEF Turn
<1> QED
  BY <1>1, PTL DEF Spec

\* What handlers that take turns keep: books and log in step with the tables, and
\* what an open transaction has read still so.
THEOREM TurnInductive == ASSUME TakeTurns PROVE Spec => []TurnInv
<1>1. Init => TurnInv
  <2> SUFFICES ASSUME Init
               PROVE  TurnInv
    OBVIOUS
  <2>1. LogTellsState /\ Current /\ Apart
    BY DEF Init, LogTellsState, Current, Idle, HandOps, Apart, Touches
  <2> QED
    BY <2>1, InitParts, InitBooks, TurnParts
<1>2. TurnInv /\ [Turn]_vars => TurnInv'
  <2> SUFFICES ASSUME TurnInv, [Turn]_vars
               PROVE  TurnInv'
    OBVIOUS
  <2>1. ItemsOK /\ LotsOK /\ TxsGood /\ Apart /\ LogTellsState /\ Current /\ Books /\ Unused /\ [Next]_vars
    BY TurnParts DEF Books, Turn
  <2>2. ItemsOK' /\ LotsOK' /\ TxsGood'
    BY <2>1, NextItems, NextLots, NextTxs
  <2>3. LogTellsState' /\ Current' /\ Books'
    BY <2>1, <2>2, NextTells, NextCurrent, NextBooks
  <2>4. IInv'
    BY <2>2 DEF IInv, TypeOK, Informed, References, ItemsOK, LotsOK, TxsGood, TxGood
  <2>5. Apart'
    <3>1. UNCHANGED vars => UNCHANGED <<item, tx>>
      BY DEF vars
    <3>2. UNCHANGED <<item, tx>> => Apart'
      BY <2>1 DEF Apart, Touches
    <3> QED
      BY <3>1, <3>2 DEF Turn
  <2> QED
    BY <2>3, <2>4, <2>5 DEF TurnInv, Books
<1> QED
  BY <1>1, <1>2, Turns, PTL

\* The latest log row of an item tells its status and its holder, if the handlers of
\* one item take turns: of two that overlap, each may log what the other undid.
THEOREM LogTells == ASSUME TakeTurns PROVE Spec => []LogTellsState
<1>1. TurnInv => LogTellsState
  BY DEF TurnInv
<1> QED
  BY <1>1, TurnInductive, PTL

\* Only a scrap takes an item from who holds it, and it names the holder: deletions
\* of products and vendors look for holders first (_product_delete_blockers).
THEOREM HeldStay == ASSUME TakeTurns PROVE Spec => HeldItemsStay
<1>1. ASSUME TurnInv, [Next]_vars, NEW i \in Item, item[i] # Absent,
             item[i].status \in {"assigned", "pre_allocated"}, item'[i] = Absent
      PROVE  \E s \in scrapped' \ scrapped : s.item = i /\ s.who = item[i].who
  <2>1. ItemsOK /\ LotsOK /\ TxsGood /\ LogTellsState /\ Current
    BY <1>1, TurnParts
  <2>2. item[i] \in ItemRow /\ Freed(item[i]) # Absent
    BY <1>1, <2>1, FreedRow, Constants DEF ItemsOK
  <2>3. ASSUME NEW w \in Worker, NEW row, NEW to, row # Absent, Write(w, row, to)
        PROVE  FALSE
    BY <1>1, <2>2, <2>3 DEF Write
  <2>4. ASSUME NEW w \in Worker, HandItem(w), ~CommitScrap(w)
        PROVE  FALSE
    <3> DEFINE t == tx[w]
               r == Row(w)
    <3>1. t.op \in HandOps /\ r # Absent => r \in ItemRow /\ t.who \in Holder
      BY <2>1, TxFields, ItemTxIs DEF TxsGood, TxGood, Row, ItemsOK
    <3>2. CASE CommitAssign(w)
      <4>1. r \in ItemRow /\ t.who \in Holder
        BY <3>1, <3>2 DEF CommitAssign, HandOps
      <4>2. [r EXCEPT !.status = "assigned", !.who = t.who, !.out = TRUE, !.hold = "none"] # Absent
        BY <4>1, HandedRows, Constants
      <4> QED
        BY <2>3, <3>2, <4>2 DEF CommitAssign
    <3>3. CASE CommitPreAllocate(w)
      <4>1. r \in ItemRow /\ t.who \in Holder
        BY <3>1, <3>3 DEF CommitPreAllocate, HandOps
      <4>2. [r EXCEPT !.status = "pre_allocated", !.who = t.who, !.out = TRUE, !.hold = "running"] # Absent
        BY <4>1, HandedRows, Constants
      <4> QED
        BY <2>3, <3>3, <4>2 DEF CommitPreAllocate
    <3>4. CASE CommitRelease(w)
      <4>1. r \in ItemRow
        BY <3>1, <3>4 DEF CommitRelease, HandOps
      <4> QED
        BY <2>3, <3>4, <4>1, FreedRow, Constants DEF CommitRelease
    <3>5. CASE CommitReturn(w)
      <4>1. r \in ItemRow
        BY <3>1, <3>5 DEF CommitReturn, HandOps
      <4>2. [r EXCEPT !.status = "returned"] # Absent
        BY <4>1, HandedRows, Constants DEF Holder
      <4> QED
        BY <2>3, <3>5, <4>2 DEF CommitReturn
    <3>6. CASE CommitRma(w)
      BY <2>3, <3>6 DEF CommitRma
    <3>7. CASE CommitList(w)
      BY <1>1, <2>2, <3>7 DEF CommitList
    <3> QED
      BY <2>4, <3>2, <3>3, <3>4, <3>5, <3>6, <3>7 DEF HandItem
  <2>5. ASSUME NEW w \in Worker, CommitScrap(w)
        PROVE  \E s \in scrapped' \ scrapped : s.item = i /\ s.who = item[i].who
    <3> DEFINE t == tx[w]
               s == [item |-> t.item, who |-> t.held]
    <3>1. /\ t.op = "scrap" /\ t.step = "read" /\ Row(w) # Absent /\ Write(w, Absent, "scrapped")
          /\ scrapped' = scrapped \cup {s}
      BY <2>5 DEF CommitScrap, Write
    <3>2. i = t.item
      BY <1>1, <2>2, <3>1 DEF Write
    <3>3. ReadItem(t)
      BY <2>1, <3>1 DEF Current, HandOps
    <3>4. t.held = item[i].who
      BY <3>1, <3>2, <3>3 DEF ReadItem
    <3>5. s \notin scrapped
      BY <1>1, <2>1, <3>2 DEF ItemsOK
    <3> QED
      BY <3>1, <3>2, <3>4, <3>5
  <2>6. ASSUME NEW w \in Worker, CommitDelete(w)
        PROVE  FALSE
    <3> DEFINE t == tx[w]
               gone == {p \in products : p \in t.gone \/ VendorOf[p] = t.whole}
    <3>1. t.op = "delete" /\ item' = [j \in Item |-> IF \E p \in gone : j \in Items(p) THEN Absent ELSE item[j]]
      BY <2>6 DEF CommitDelete
    <3>2. ReadDelete(t)
      BY <2>1, <3>1 DEF Current
    <3>3. PICK p \in gone : i \in Items(p)
      BY <1>1, <3>1
    <3> QED
      BY <1>1, <3>2, <3>3 DEF ReadDelete, Items
  <2>7. ASSUME \/ \E w \in Worker : \/ BeginOnItem(w) \/ Look(w) \/ BeginDeletion(w)
                                    \/ \E p \in Product, q \in Quantity : BeginSignOut(w, NameOf[p], q)
                                    \/ InsertAssignment(w) \/ CommitSignOut(w) \/ Rollback(w)
               \/ UNCHANGED vars
        PROVE  FALSE
    <3>1. UNCHANGED item
      BY <2>7 DEF BeginOnItem, BeginItem, BeginScan, Look, BeginDeletion, BeginDelete, BeginSignOut,
                  InsertAssignment, CommitSignOut, Rollback, vars, itemvars
    <3> QED
      BY <1>1, <3>1
  <2>8. ASSUME BringIn
        PROVE  FALSE
    <3>1. item'[i] = item[i]
      BY <1>1, <2>8 DEF BringIn, AddVendor, AddProduct, AddItems, AddLot, itemvars
    <3> QED
      BY <1>1, <3>1
  <2>9. ASSUME NEW j \in Item, HoldRunsOut(j)
        PROVE  FALSE
    <3>1. item' = [item EXCEPT ![j] = [item[j] EXCEPT !.hold = "over"]] /\ item[j] # Absent
      BY <2>9 DEF HoldRunsOut
    <3>2. item[j] \in ItemRow
      BY <2>1, <3>1 DEF ItemsOK
    <3>3. [item[j] EXCEPT !.hold = "over"] # Absent
      <4>1. [item[j] EXCEPT !.hold = "over"] \in ItemRow
        BY <3>2 DEF ItemRow
      <4> QED
        BY <4>1, Constants
    <3> QED
      BY <1>1, <2>1, <3>1, <3>3 DEF ItemsOK
  <2> QED
    BY <1>1, <2>4, <2>5, <2>6, <2>7, <2>8, <2>9 DEF Next
<1>2. TurnInv /\ [Next]_vars =>
        [\A i \in Item :
           item[i] # Absent /\ item[i].status \in {"assigned", "pre_allocated"} /\ item'[i] = Absent
             => \E s \in scrapped' \ scrapped : s.item = i /\ s.who = item[i].who]_vars
  BY <1>1
<1>3. [Turn]_vars => [Next]_vars
  BY DEF Turn
<1> QED
  BY <1>2, <1>3, Turns, TurnInductive, PTL DEF HeldItemsStay

\* What came in and is not out can be signed out: the sum over the lots of what
\* was used is the sum over the sign-outs, and lots that are gone had no use.
LEMMA LotTotals == ASSUME LotsOK, Books PROVE BookedIn - BookedOut \in (Available - Allowance)..Available
<1> DEFINE P == {k \in LotId : lot[k] # Absent}
           in == [l \in P |-> lot[l].in]
           rem == [l \in P |-> lot[l].rem]
           used == [l \in LotId |-> SumOf([a \in SignId |-> usage[a][l]])]
           part == [l \in P |-> used[l]]
<1>1. P \in SUBSET LotId /\ IsFiniteSet(P)
  BY Ids, FS_Subset
<1>2. used \in [LotId -> Nat] /\ part \in [P -> Nat] /\ rem \in [P -> Nat] /\ \A l \in P : in[l] = rem[l] + part[l]
  <2>1. \A l \in LotId : used[l] = SumOf(Uses(l)) /\ SumOf(Uses(l)) \in Nat
    BY UsesType DEF Uses
  <2>2. \A l \in P : lot[l].rem \in Nat /\ lot[l].in = lot[l].rem + SumOf(Uses(l))
    BY LotRowIs, BooksAre
  <2> QED
    BY <2>1, <2>2
<1>3. SumOf(in) = SumOf(rem) + SumOf(part)
  <2>1. in = [l \in P |-> rem[l] + part[l]]
    BY <1>2
  <2> HIDE DEF in, rem, part, used, P
  <2>2. SumOf([l \in P |-> rem[l] + part[l]]) = SumOf(rem) + SumOf(part)
    BY <1>1, <1>2, SumOfAdd
  <2> QED
    BY <2>1, <2>2
<1>4. SumOf(used) = SumOf(part)
  <2>1. \A l \in LotId \ P : used[l] = 0
    <3> TAKE l \in LotId \ P
    <3>1. \A a \in SignId : Uses(l)[a] = 0
      BY DEF Books, Unused, Uses
    <3>2. SumOf(Uses(l)) = 0
      BY <3>1, UsesType, SumOfZeros, Ids
    <3> QED
      BY <3>2 DEF Uses
  <2> HIDE DEF used, P
  <2> QED
    BY <1>1, <1>2, <2>1, Ids, SumOfPart
<1> DEFINE uses == [a \in SignId |-> SumOf(usage[a])]
           over == [a \in SignId |-> signed[a] - uses[a]]
           allowed == [a \in SignId |-> IF signed[a] = 0 THEN 0 ELSE Slack]
           spare == [a \in SignId |-> allowed[a] - over[a]]
<1>5. SumOf(uses) = SumOf(used)
  <2>1. usage \in [SignId -> [LotId -> Nat]]
    BY DEF LotsOK
  <2> DEFINE u == usage
  <2>2. u \in [SignId -> [LotId -> Nat]] /\ IsFiniteSet(SignId) /\ IsFiniteSet(LotId)
    BY <2>1, Ids
  <2> HIDE DEF u
  <2>3. SumOf([a \in SignId |-> SumOf(u[a])]) = SumOf([l \in LotId |-> SumOf([a \in SignId |-> u[a][l]])])
    BY <2>2, SumOfTable
  <2> QED
    BY <2>3 DEF u
<1>8. /\ uses \in [SignId -> Nat] /\ over \in [SignId -> Nat] /\ allowed \in [SignId -> Nat]
      /\ spare \in [SignId -> Nat] /\ IsFiniteSet(SignId)
      /\ signed = [a \in SignId |-> uses[a] + over[a]] /\ allowed = [a \in SignId |-> over[a] + spare[a]]
  <2>1. ASSUME NEW a \in SignId
        PROVE  /\ SumOf(usage[a]) \in Nat /\ signed[a] \in Nat /\ Slack \in Nat
               /\ signed[a] - SumOf(usage[a]) \in 0..Slack
    <3>1. usage[a] \in [LotId -> Nat] /\ signed[a] \in Nat
      BY DEF LotsOK
    <3> QED
      BY <3>1, BooksAre, SumOfType, Ids
  <2>2. \A a \in SignId : uses[a] = SumOf(usage[a])
    OBVIOUS
  <2> HIDE DEF uses
  <2>3. ASSUME NEW a \in SignId
        PROVE  /\ uses[a] \in Nat /\ over[a] \in Nat /\ allowed[a] \in Nat /\ spare[a] \in Nat
               /\ signed[a] = uses[a] + over[a] /\ allowed[a] = over[a] + spare[a]
    <3>1. /\ uses[a] \in Nat /\ signed[a] \in Nat /\ Slack \in Nat /\ signed[a] - uses[a] \in 0..Slack
      BY <2>1, <2>2
    <3>2. over[a] = signed[a] - uses[a] /\ spare[a] = allowed[a] - over[a]
      OBVIOUS
    <3>3. allowed[a] = IF signed[a] = 0 THEN 0 ELSE Slack
      OBVIOUS
    <3> HIDE DEF over, allowed, spare
    <3>4. over[a] \in Nat /\ over[a] <= Slack /\ (signed[a] = 0 => over[a] = 0)
      BY <3>1, <3>2
    <3> QED
      BY <3>1, <3>2, <3>3, <3>4
  <2>4. signed = [a \in SignId |-> signed[a]] /\ uses = [a \in SignId |-> uses[a]]
    BY DEF LotsOK, uses
  <2> HIDE DEF over, allowed, spare
  <2>5. /\ over = [a \in SignId |-> over[a]] /\ allowed = [a \in SignId |-> allowed[a]]
        /\ spare = [a \in SignId |-> spare[a]]
    BY DEF over, allowed, spare
  <2> QED
    BY <2>3, <2>4, <2>5, Ids
<1> HIDE DEF uses, over, spare, allowed
<1>9. SumOf(signed) = SumOf(uses) + SumOf(over)
  BY <1>8, SumOfAdd
<1>10. SumOf(allowed) = SumOf(over) + SumOf(spare)
  BY <1>8, SumOfAdd
<1>11. SumOf(over) \in Nat /\ SumOf(spare) \in Nat
  BY <1>8, SumOfType
<1>6. SumOf(rem) \in Nat /\ SumOf(part) \in Nat
  <2> HIDE DEF rem, part, P
  <2> QED
    BY <1>1, <1>2, SumOfType
<1>7. BookedIn = SumOf(in) /\ Available = SumOf(rem) /\ BookedOut = SumOf(signed) /\ Allowance = SumOf(allowed)
  BY TotalIs DEF BookedIn, Available, BookedOut, Allowance, allowed
<1> HIDE DEF in, rem, part, used
<1> QED
  BY <1>3, <1>4, <1>5, <1>6, <1>7, <1>9, <1>10, <1>11

\* The pages agree with each other, and the books with the lots: what was booked in
\* is what is left and what the sign-outs took, first in first out.
THEOREM BooksBalanced == ASSUME TakeTurns PROVE Spec => []BooksBalance
<1>1. TurnInv => BooksBalance
  <2> SUFFICES ASSUME TurnInv
               PROVE  BooksBalance
    OBVIOUS
  <2>1. ItemsOK /\ LotsOK /\ LogTellsState /\ Books
    BY TurnParts
  <2>2. BookedIn - BookedOut \in (Available - Allowance)..Available
    BY <2>1, LotTotals
  <2>3. \A l \in LotId : lot[l] # Absent => lot[l].rem = lot[l].in - Total([a \in SignId |-> usage[a][l]])
    <3> SUFFICES ASSUME NEW l \in LotId, lot[l] # Absent
                 PROVE  lot[l].rem = lot[l].in - SumOf(Uses(l))
      BY TotalIs DEF Uses
    <3>1. lot[l].in = lot[l].rem + SumOf(Uses(l)) /\ lot[l].rem \in Nat /\ SumOf(Uses(l)) \in Nat
      BY <2>1, BooksAre, LotRowIs, UsesType
    <3> QED
      BY <3>1
  <2>4. /\ ItemsOut \ AssignedPage = {i \in StockPage : item[i].status = "pre_allocated"}
        /\ StockPage \cap AssignedPage = {i \in StockPage : item[i].status = "returned"}
        /\ AssignedPage \subseteq ItemsOut /\ ByVendor \subseteq AssignedPage
    <3>1. \A i \in Item : item[i] # Absent =>
            /\ item[i].status \in Status /\ (item[i].out <=> item[i].status # "new")
            /\ (item[i].status = "returned" => item[i].who # NoOne)
      BY <2>1, ItemRowIs DEF LogTellsState
    <3> QED
      BY <3>1 DEF ItemsOut, AssignedPage, StockPage, ByVendor, Joined, Status
  <2>5. Catalog \cup ByVendor = {i \in Item : item[i] # Absent}
    <3>1. \A i \in Item : item[i] # Absent => Joined(i)
      BY <2>1 DEF Joined, ItemsOK, LotsOK
    <3> QED
      BY <3>1 DEF Catalog, ByVendor, Joined
  <2>6. \A a \in SignId : signed[a] - Total(usage[a]) \in 0..Slack
    BY <2>1 DEF Books, SignOutsCovered
  <2> QED
    BY <2>2, <2>3, <2>4, <2>5, <2>6 DEF BooksBalance
<1> QED
  BY <1>1, TurnInductive, PTL
================================================================================
