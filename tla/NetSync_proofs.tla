---------------------------- MODULE NetSync_proofs -----------------------------
(* Proofs about the location sync: type correctness, the fit of the rows with *)
(* the sessions they are from, and the cache that only moves forward.         *)
EXTENDS NetSync, FiniteSetTheorems, TLAPS

-----------------------------------------------------------------------------
(* Induction over the naturals in a form without operator parameters: what is *)
(* to be shown of every number is that a set has it.                          *)

\* A set of naturals that is not empty has a least element.
LEMMA LeastOf ==
  ASSUME NEW S \in SUBSET Nat, S # {}
  PROVE  \E m \in S : \A n \in S : m <= n
<1>1. PICK m \in S : \A n \in S : <<n, m>> \notin OpToRel(<, Nat)
  BY NatLessThanWellFounded, WFMin, Zenon
<1>2. \A n \in S : ~ (n < m)
  BY <1>1 DEF OpToRel
<1> QED
  BY <1>2

\* Induction: a set that has zero, and with each number the next, has every number.
LEMMA AllNat ==
  ASSUME NEW S, 0 \in S, \A n \in Nat : n \in S => n + 1 \in S
  PROVE  Nat \subseteq S
<1> SUFFICES ASSUME Nat \ S # {}
             PROVE  FALSE
  OBVIOUS
<1>1. PICK m \in Nat \ S : \A n \in Nat \ S : m <= n
  BY LeastOf
<1> QED
  BY <1>1

\* A function that is computed step by step, up to N.
Steps(F, start, N, g) == g[0] = start /\ \A n \in 1..N : g[n] = F[n][g[n - 1]]

LEMMA Iterates ==
  ASSUME NEW X, NEW start \in X, NEW F, \A n \in Nat, x \in X : F[n][x] \in X, NEW N \in Nat
  PROVE  \E g : g \in [0..N -> X] /\ Steps(F, start, N, g)
<1> DEFINE Run(M, g) == g[0] = start /\ \A n \in 1..M : g[n] = F[n][g[n - 1]]
           good == {M \in Nat : \E g \in [0..M -> X] : Run(M, g)}
<1>1. 0 \in good
  <2>1. Run(0, [n \in 0..0 |-> start])
    OBVIOUS
  <2> QED
    BY <2>1
<1>2. ASSUME NEW M \in Nat, M \in good
      PROVE  M + 1 \in good
  <2>1. PICK g \in [0..M -> X] : Run(M, g)
    BY <1>2
  <2> DEFINE h == [n \in 0..(M + 1) |-> IF n <= M THEN g[n] ELSE F[M + 1][g[M]]]
  <2>2. h \in [0..(M + 1) -> X]
    <3>1. g[M] \in X /\ F[M + 1][g[M]] \in X
      OBVIOUS
    <3>2. \A n \in 0..(M + 1) : n <= M => g[n] \in X
      OBVIOUS
    <3> QED
      BY <3>1, <3>2
  <2>3. \A n \in 0..M : h[n] = g[n]
    OBVIOUS
  <2>4. h[M + 1] = F[M + 1][h[M]]
    BY <2>3
  <2> HIDE DEF h
  <2>5. ASSUME NEW n \in 1..(M + 1)
        PROVE  h[n] = F[n][h[n - 1]]
    <3>1. CASE n <= M
      <4>1. n \in 1..M /\ n \in 0..M /\ n - 1 \in 0..M
        BY <3>1
      <4>2. g[n] = F[n][g[n - 1]]
        BY <2>1, <4>1
      <4> QED
        BY <2>3, <4>1, <4>2
    <3>2. CASE n = M + 1
      BY <2>4, <3>2
    <3> QED
      BY <3>1, <3>2
  <2>6. h[0] = start
    BY <2>1, <2>3
  <2> QED
    BY <2>2, <2>5, <2>6
<1>3. N \in good
  <2> HIDE DEF good
  <2> QED
    BY <1>1, <1>2, AllNat
<1> QED
  BY <1>3 DEF Steps

\* A finite set of naturals has an upper bound.
LEMMA Bounded ==
  ASSUME NEW S \in SUBSET Nat, IsFiniteSet(S)
  PROVE  \E b \in Nat : \A n \in S : n <= b
<1> DEFINE Good == {k \in Nat : \A T \in SUBSET Nat : IsFiniteSet(T) /\ Cardinality(T) = k
                                   => \E b \in Nat : \A n \in T : n <= b}
<1>1. 0 \in Good
  BY FS_EmptySet
<1>2. ASSUME NEW k \in Good
      PROVE  k + 1 \in Good
  <2> SUFFICES ASSUME NEW T \in SUBSET Nat, IsFiniteSet(T), Cardinality(T) = k + 1
               PROVE  \E b \in Nat : \A n \in T : n <= b
    OBVIOUS
  <2> k \in Nat
    OBVIOUS
  <2>1. PICK x \in T : TRUE
    <3>1. T # {}
      BY FS_EmptySet
    <3> QED
      BY <3>1
  <2>2. IsFiniteSet(T \ {x}) /\ Cardinality(T \ {x}) = k
    <3>1. IsFiniteSet(T \ {x}) /\ Cardinality(T \ {x}) = Cardinality(T) - 1
      BY <2>1, FS_RemoveElement
    <3> QED
      BY <3>1
  <2>3. PICK b \in Nat : \A n \in T \ {x} : n <= b
    BY <2>2
  <2>4. x \in Nat /\ b + x \in Nat /\ \A n \in T : n <= b + x
    BY <2>1, <2>3
  <2> QED
    BY <2>4
<1>3. Nat \subseteq Good
  <2> HIDE DEF Good
  <2> QED
    BY <1>1, <1>2, AllNat
<1> QED
  BY <1>3, FS_CardinalityType

\* A finite set of naturals that is not empty has a greatest element.
LEMMA GreatestOf ==
  ASSUME NEW S \in SUBSET Nat, IsFiniteSet(S), S # {}
  PROVE  \E m \in S : \A n \in S : n <= m
<1>1. PICK b \in {c \in Nat : \A n \in S : n <= c} : \A c \in {c \in Nat : \A n \in S : n <= c} : b <= c
  BY Bounded, LeastOf
<1>2. b \in S
  <2> SUFFICES ASSUME b \notin S
               PROVE  FALSE
    OBVIOUS
  <2>1. PICK x \in S : TRUE
    OBVIOUS
  <2>2. b - 1 \in Nat /\ \A n \in S : n <= b - 1
    BY <1>1, <2>1
  <2> QED
    BY <1>1, <2>2
<1> QED
  BY <1>1, <1>2

-----------------------------------------------------------------------------
(* Sequences that lose an element.                                           *)

LEMMA ConcatIs ==
  ASSUME NEW T, NEW a \in Seq(T), NEW b \in Seq(T)
  PROVE  /\ a \o b \in Seq(T) /\ Len(a \o b) = Len(a) + Len(b)
         /\ \A j \in 1..(Len(a) + Len(b)) : (a \o b)[j] = IF j <= Len(a) THEN a[j] ELSE b[j - Len(a)]
OBVIOUS

LEMMA RemoveAtIs ==
  ASSUME NEW T, NEW s \in Seq(T), NEW i \in 1..Len(s)
  PROVE  /\ RemoveAt(s, i) \in Seq(T) /\ Len(RemoveAt(s, i)) = Len(s) - 1
         /\ \A j \in 1..(Len(s) - 1) : RemoveAt(s, i)[j] = IF j < i THEN s[j] ELSE s[j + 1]
<1> DEFINE a == SubSeq(s, 1, i - 1)
           b == SubSeq(s, i + 1, Len(s))
<1>1. /\ a \in Seq(T) /\ Len(a) = i - 1 /\ \A j \in 1..(i - 1) : a[j] = s[j]
      /\ b \in Seq(T) /\ Len(b) = Len(s) - i /\ \A j \in 1..(Len(s) - i) : b[j] = s[j + i]
  OBVIOUS
<1>2. RemoveAt(s, i) = a \o b
  BY DEF RemoveAt
<1> HIDE DEF a, b
<1>3. /\ a \o b \in Seq(T) /\ Len(a \o b) = Len(s) - 1
      /\ \A j \in 1..(Len(s) - 1) : (a \o b)[j] = IF j <= i - 1 THEN a[j] ELSE b[j - (i - 1)]
  <2>1. /\ a \o b \in Seq(T) /\ Len(a \o b) = Len(a) + Len(b)
        /\ \A j \in 1..(Len(a) + Len(b)) : (a \o b)[j] = IF j <= Len(a) THEN a[j] ELSE b[j - Len(a)]
    BY <1>1, ConcatIs
  <2>2. Len(a) + Len(b) = Len(s) - 1 /\ Len(a) = i - 1
    BY <1>1
  <2> QED
    BY <2>1, <2>2
<1>4. ASSUME NEW j \in 1..(Len(s) - 1)
      PROVE  (a \o b)[j] = IF j < i THEN s[j] ELSE s[j + 1]
  <2>1. CASE j < i
    BY <1>1, <1>3, <2>1
  <2>2. CASE ~(j < i)
    <3>1. j - (i - 1) \in 1..(Len(s) - i) /\ (j - (i - 1)) + i = j + 1
      BY <2>2
    <3>2. b[j - (i - 1)] = s[(j - (i - 1)) + i]
      BY <1>1, <3>1
    <3>3. ~(j <= i - 1)
      BY <2>2
    <3> QED
      BY <1>3, <2>2, <3>1, <3>2, <3>3
  <2> QED
    BY <2>1, <2>2
<1> QED
  BY <1>2, <1>3, <1>4

LEMMA PlacesFinite ==
  ASSUME NEW T, NEW s \in Seq(T), NEW m
  PROVE  IsFiniteSet(Places(s, m)) /\ Cardinality(Places(s, m)) \in Nat
<1>1. Places(s, m) \in SUBSET (1..Len(s)) /\ IsFiniteSet(1..Len(s))
  BY FS_Interval DEF Places
<1> QED
  BY <1>1, FS_Subset, FS_CardinalityType

\* An element that is removed is one less of its kind, and no more of any other.
LEMMA RemovePlaces ==
  ASSUME NEW T, NEW s \in Seq(T), NEW i \in 1..Len(s), NEW m
  PROVE  Cardinality(Places(RemoveAt(s, i), m)) <= Cardinality(Places(s, m) \ {i})
<1> DEFINE r == RemoveAt(s, i)
           A == Places(r, m)
           B == Places(s, m) \ {i}
           f == [j \in A |-> IF j < i THEN j ELSE j + 1]
<1>1. /\ r \in Seq(T) /\ Len(r) = Len(s) - 1
      /\ \A j \in 1..(Len(s) - 1) : r[j] = IF j < i THEN s[j] ELSE s[j + 1]
  BY RemoveAtIs
<1> HIDE DEF r
<1>2. A \subseteq 1..(Len(s) - 1) /\ \A j \in A : r[j] = m
  BY <1>1 DEF Places
<1>3. \A j \in A : f[j] \in B
  <2> TAKE j \in A
  <2>1. j \in 1..(Len(s) - 1) /\ f[j] = IF j < i THEN j ELSE j + 1
    BY <1>2
  <2>2. f[j] \in 1..Len(s) /\ f[j] # i
    BY <2>1
  <2>3. s[f[j]] = m
    BY <1>1, <1>2, <2>1
  <2> QED
    BY <2>2, <2>3 DEF Places
<1>4. \A j, k \in A : f[j] = f[k] => j = k
  BY <1>2
<1>5. f \in Injection(A, B)
  BY <1>3, <1>4 DEF Injection, IsInjective
<1>6. IsFiniteSet(B)
  BY PlacesFinite, FS_RemoveElement
<1> HIDE DEF A, B, f
<1>7. Cardinality(A) <= Cardinality(B)
  BY <1>5, <1>6, FS_Injection
<1> QED
  BY <1>7 DEF A, B, r

\* Rest takes one place of the MAC, if it has one.
LEMMA RestIs ==
  ASSUME NEW pool \in Seq(Mac), NEW mac
  PROVE  /\ Rest(pool, mac) \in Seq(Mac)
         /\ \A m : Cardinality(Places(Rest(pool, mac), m)) <= Cardinality(Places(pool, m))
         /\ (\E i \in DOMAIN pool : pool[i] = mac) =>
              Cardinality(Places(Rest(pool, mac), mac)) + 1 <= Cardinality(Places(pool, mac))
<1>1. CASE ~\E i \in DOMAIN pool : pool[i] = mac
  <2>1. Rest(pool, mac) = pool
    BY <1>1 DEF Rest
  <2>2. \A m : Cardinality(Places(pool, m)) \in Nat
    BY PlacesFinite
  <2> QED
    BY <1>1, <2>1, <2>2
<1>2. CASE \E i \in DOMAIN pool : pool[i] = mac
  <2> DEFINE first(i) == pool[i] = mac /\ \A j \in 1..(i-1) : pool[j] # mac
             i == CHOOSE i \in DOMAIN pool : first(i)
  <2>1. \E k \in DOMAIN pool : first(k)
    <3> DEFINE S == {k \in DOMAIN pool : pool[k] = mac}
    <3>1. S \in SUBSET Nat /\ S # {} /\ DOMAIN pool = 1..Len(pool)
      BY <1>2
    <3>2. PICK k \in S : \A n \in S : k <= n
      BY <3>1, LeastOf
    <3>3. \A j \in 1..(k - 1) : pool[j] # mac
      BY <3>1, <3>2
    <3> QED
      BY <3>2, <3>3
  <2>2. i \in DOMAIN pool /\ pool[i] = mac
    BY <2>1
  <2>3. Rest(pool, mac) = RemoveAt(pool, i)
    BY <1>2 DEF Rest
  <2> HIDE DEF i
  <2>4. i \in 1..Len(pool)
    BY <2>2
  <2>5. RemoveAt(pool, i) \in Seq(Mac)
    BY <2>4, RemoveAtIs
  <2>6. ASSUME NEW m
        PROVE  /\ Cardinality(Places(RemoveAt(pool, i), m)) <= Cardinality(Places(pool, m))
               /\ pool[i] = m => Cardinality(Places(RemoveAt(pool, i), m)) + 1 <= Cardinality(Places(pool, m))
    <3> DEFINE a == Cardinality(Places(RemoveAt(pool, i), m))
               b == Cardinality(Places(pool, m))
               c == Cardinality(Places(pool, m) \ {i})
    <3>1. a \in Nat
      BY <2>5, PlacesFinite
    <3>2. IsFiniteSet(Places(pool, m)) /\ b \in Nat
      BY PlacesFinite
    <3>3. a <= c
      BY <2>4, RemovePlaces
    <3>4. c = IF i \in Places(pool, m) THEN b - 1 ELSE b
      BY <3>2, FS_RemoveElement
    <3>5. pool[i] = m => i \in Places(pool, m)
      BY <2>2 DEF Places
    <3> HIDE DEF a, b, c
    <3>6. a <= b /\ (pool[i] = m => a + 1 <= b)
      BY <3>1, <3>2, <3>3, <3>4, <3>5
    <3> QED
      BY <3>6 DEF a, b, c
  <2> QED
    BY <2>2, <2>3, <2>5, <2>6
<1> QED
  BY <1>1, <1>2

-----------------------------------------------------------------------------
(* Rows of a sync.                                                           *)

MacOrNone == Mac \cup {None}

LEMMA Constants ==
  /\ MaxKey \in Nat /\ None \notin Mac /\ Key \subseteq Nat /\ IsFiniteSet(Key)
  /\ MaxFaults \in Nat /\ MaxEdits \in Nat /\ Worlds \subseteq WorldType
  /\ 0 \in Key
<1>1. MaxKey \in Nat /\ MaxFaults \in Nat /\ MaxEdits \in Nat /\ None \notin Mac /\ Worlds \subseteq WorldType
  BY ConstantsAssumption DEF ConstantsAssumption
<1>2. Key = 0..MaxKey
  BY DEF Key
<1> QED
  BY <1>1, <1>2, FS_Interval

LEMMA PoolIs ==
  ASSUME NEW s \in Seq(Session)
  PROVE  PoolMacs(s) \in Seq(Mac)
<1>1. \A i \in 1..Len(s) : s[i] \in Session
  OBVIOUS
<1>2. [i \in 1..Len(s) |-> s[i].mac] \in [1..Len(s) -> Mac]
  BY <1>1 DEF Session
<1>3. DOMAIN s = 1..Len(s) /\ Len(s) \in Nat
  OBVIOUS
<1> QED
  BY <1>2, <1>3 DEF PoolMacs

LEMMA NewestIs ==
  ASSUME NEW s \in Seq(Session), NEW I \in SUBSET DOMAIN s
  PROVE  Newest(s, I) \in MacOrNone
<1>1. CASE I = {}
  BY <1>1 DEF Newest, MacOrNone
<1>2. CASE I # {}
  <2>1. I \in SUBSET Nat /\ IsFiniteSet(I)
    <3>1. I \in SUBSET (1..Len(s)) /\ IsFiniteSet(1..Len(s))
      BY FS_Interval
    <3> QED
      BY <3>1, FS_Subset
  <2> DEFINE i == CHOOSE i \in I : \A j \in I : j <= i
  <2>2. i \in I
    BY <1>2, <2>1, GreatestOf
  <2>3. Newest(s, I) = s[i].mac
    BY <1>2 DEF Newest
  <2> HIDE DEF i
  <2>4. s[i] \in Session
    BY <2>2
  <2> QED
    BY <2>3, <2>4 DEF Session, MacOrNone
<1> QED
  BY <1>1, <1>2

LEMMA ExactIs ==
  ASSUME NEW s \in Seq(Session), NEW k
  PROVE  OfId(s, k) \in MacOrNone /\ Exact(s, k) \in MacOrNone
<1>1. \A j : OfLogin(s, j) \in MacOrNone
  BY NewestIs DEF OfLogin
<1>2. OfId(s, k) \in MacOrNone
  BY NewestIs DEF OfId
<1> QED
  BY <1>1, <1>2 DEF Exact

\* What a service takes, if the pool has it, leaves the pool once.
Taken == {"online", "online_any"}

\* The row of a service, and what it takes from the pool.
LEMMA MatchIs ==
  ASSUME NEW s \in Seq(Session), NEW last \in [Key -> MacOrNone], NEW pool \in Seq(Mac), NEW k \in Key
  PROVE  LET m == Match(s, last, pool, k)
         IN /\ m.row \in Row /\ m.pool \in Seq(Mac) /\ m.row # Absent
            /\ OfId(s, k) # None => m.row.mac = OfId(s, k)
            /\ \A x : Cardinality(Places(m.pool, x)) <= Cardinality(Places(pool, x))
            /\ m.row.src \in Taken => m.row.mac \in Mac
            /\ m.row.src = "online_any" => Cardinality(Places(pool, m.row.mac)) > 0
            /\ m.row.src \in Taken /\ Cardinality(Places(pool, m.row.mac)) > 0 =>
                 Cardinality(Places(m.pool, m.row.mac)) + 1 <= Cardinality(Places(pool, m.row.mac))
<1> DEFINE e == Exact(s, k)
           p == Past(last, k)
           m == Match(s, last, pool, k)
           size(x) == Cardinality(Places(pool, x))
<1>1. e \in MacOrNone /\ p \in MacOrNone /\ (OfId(s, k) # None => e = OfId(s, k))
  BY Constants, ExactIs DEF Exact, Past
<1>2. \A x : IsFiniteSet(Places(pool, x)) /\ size(x) \in Nat
  BY PlacesFinite
<1>3. ASSUME NEW x
      PROVE  size(x) > 0 <=> \E i \in DOMAIN pool : pool[i] = x
  <2>1. size(x) = 0 <=> Places(pool, x) = {}
    BY <1>2, FS_EmptySet
  <2>2. size(x) > 0 <=> Places(pool, x) # {}
    BY <1>2, <2>1
  <2> HIDE DEF size
  <2> QED
    BY <2>2 DEF Places
<1>4. CASE e # None
  <2>1. m = [row |-> [mac |-> e, src |-> "online"], pool |-> Rest(pool, e)]
    BY <1>4 DEF Match
  <2> HIDE DEF e, m
  <2>2. m.row = [mac |-> e, src |-> "online"] /\ m.pool = Rest(pool, e)
    BY <2>1
  <2>3. /\ m.row \in Row /\ m.row # Absent /\ m.row.mac = e /\ e \in Mac /\ m.row.src = "online"
    BY <1>1, <1>4, <2>2 DEF Row, MacOrNone, Absent
  <2>4. size(e) > 0 => Cardinality(Places(m.pool, e)) + 1 <= size(e)
    BY <1>3, <2>2, RestIs
  <2>5. m.pool \in Seq(Mac) /\ \A x : Cardinality(Places(m.pool, x)) <= size(x)
    BY <2>2, RestIs
  <2> QED
    BY <1>1, <2>3, <2>4, <2>5 DEF m
<1>5. CASE e = None /\ pool # <<>>
  <2>1. m = [row |-> [mac |-> Head(pool), src |-> "online_any"], pool |-> Rest(pool, Head(pool))]
    BY <1>5 DEF Match
  <2>2. Head(pool) \in Mac /\ 1 \in DOMAIN pool /\ pool[1] = Head(pool)
    BY <1>5
  <2> DEFINE h == Head(pool)
  <2> HIDE DEF e, m, h
  <2>3. m.row = [mac |-> h, src |-> "online_any"] /\ m.pool = Rest(pool, h)
    BY <2>1 DEF h
  <2>4. /\ m.row \in Row /\ m.row # Absent /\ m.row.mac = h /\ h \in Mac /\ m.row.src = "online_any"
    BY <2>2, <2>3 DEF Row, Absent, h
  <2>5. size(h) > 0
    BY <1>3, <2>2 DEF h
  <2>6. Cardinality(Places(m.pool, h)) + 1 <= size(h)
    BY <1>3, <2>3, <2>5, RestIs
  <2>7. m.pool \in Seq(Mac) /\ \A x : Cardinality(Places(m.pool, x)) <= size(x)
    BY <2>3, RestIs
  <2> QED
    BY <1>1, <1>5, <2>4, <2>5, <2>6, <2>7 DEF m
<1>6. CASE e = None /\ pool = <<>>
  <2>1. m = [row |-> [mac |-> p, src |-> IF p = None THEN "none" ELSE "last_session"], pool |-> pool]
    BY <1>6 DEF Match
  <2> HIDE DEF e, p, m
  <2>2. m.row = [mac |-> p, src |-> IF p = None THEN "none" ELSE "last_session"] /\ m.pool = pool
    BY <2>1
  <2>3. m.row.src \in {"none", "last_session"} /\ m.row \in Row
    <3>1. CASE p = None
      BY <2>2, <3>1, <1>1 DEF Row, MacOrNone
    <3>2. CASE p # None
      BY <2>2, <3>2, <1>1 DEF Row, MacOrNone
    <3> QED
      BY <3>1, <3>2
  <2>4. m.row # Absent /\ m.row.src \notin Taken
    BY <2>3 DEF Absent, Taken
  <2>5. \A x : Cardinality(Places(m.pool, x)) <= size(x)
    BY <1>2, <2>2
  <2>6. OfId(s, k) = None
    BY <1>1, <1>6 DEF e
  <2> QED
    BY <2>2, <2>3, <2>4, <2>5, <2>6 DEF m, Taken
<1> QED
  BY <1>4, <1>5, <1>6

LEMMA GotFinite ==
  ASSUME NEW rows, NEW m
  PROVE  /\ IsFiniteSet(Got(rows, m)) /\ Cardinality(Got(rows, m)) \in Nat
         /\ \A k : IsFiniteSet(GotBy(rows, k)) /\ Cardinality(GotBy(rows, k)) \in Nat
<1>1. Got(rows, m) \in SUBSET Key /\ \A k : GotBy(rows, k) \in SUBSET Key
  BY DEF Got, GotBy
<1> QED
  BY <1>1, Constants, FS_Subset, FS_CardinalityType

\* What the services have of a MAC and the pool still has of it were read.
Account(rows, pool, read, m) ==
  \/ Cardinality(Places(pool, m)) = 0
  \/ Cardinality(Got(rows, m)) + Cardinality(Places(pool, m)) <= Cardinality(Places(read, m))

\* One row more, of a service after those that have one: what it takes leaves the pool.
LEMMA RowAccounted ==
  ASSUME NEW rows \in [Key -> Row], NEW pool \in Seq(Mac), NEW rest \in Seq(Mac), NEW read \in Seq(Mac),
         NEW k \in Key, rows[k] = Absent, NEW row \in Row, NEW m \in Mac, Account(rows, pool, read, m),
         Cardinality(Places(rest, m)) <= Cardinality(Places(pool, m)),
         row.src \in Taken /\ row.mac = m /\ Cardinality(Places(pool, m)) > 0 =>
           Cardinality(Places(rest, m)) + 1 <= Cardinality(Places(pool, m))
  PROVE  Account([rows EXCEPT ![k] = row], rest, read, m)
<1> DEFINE next == [rows EXCEPT ![k] = row]
           c == Cardinality(Got(next, m))
           d == Cardinality(Got(rows, m))
           p == Cardinality(Places(pool, m))
           q == Cardinality(Places(rest, m))
           t == Cardinality(Places(read, m))
<1>1. c \in Nat /\ d \in Nat /\ p \in Nat /\ q \in Nat /\ t \in Nat
  BY GotFinite, PlacesFinite
<1>2. \A j \in Key : next[j] = IF j = k THEN row ELSE rows[j]
  OBVIOUS
<1>3. q <= p /\ (p = 0 \/ d + p <= t)
  BY DEF Account
<1> HIDE DEF next
<1>4. CASE row.src \in Taken /\ row.mac = m
  <2>1. k \notin Got(rows, m)
    BY DEF Absent, Got
  <2>2. Got(next, m) = Got(rows, m) \cup {k}
    BY <1>2, <1>4, <2>1 DEF Got, Taken
  <2>3. c = d + 1
    BY <2>1, <2>2, GotFinite, FS_AddElement
  <2>4. p > 0 => q + 1 <= p
    BY <1>4
  <2> HIDE DEF c, d, p, q, t
  <2>5. q = 0 \/ c + q <= t
    BY <1>1, <1>3, <2>3, <2>4
  <2> QED
    BY <2>5 DEF c, d, p, q, t, next, Account
<1>5. CASE ~(row.src \in Taken /\ row.mac = m)
  <2>1. Got(next, m) = Got(rows, m)
    BY <1>2, <1>5 DEF Got, Taken, Absent
  <2>2. c = d
    BY <2>1
  <2> HIDE DEF c, d, p, q, t
  <2>3. q = 0 \/ c + q <= t
    BY <1>1, <1>3, <2>2
  <2> QED
    BY <2>3 DEF c, d, p, q, t, next, Account
<1> QED
  BY <1>4, <1>5

LEMMA RowFits ==
  ASSUME NEW rows \in [Key -> Row], NEW s, PoolMacs(s) \in Seq(Mac), NEW pool \in Seq(Mac),
         NEW k \in Key, \A j \in Key : j >= k => rows[j] = Absent, NEW row \in Row,
         LentFits(rows, s), \A m \in Mac : Account(rows, pool, PoolMacs(s), m),
         row.src = "online_any" => row.mac \in Mac /\ Cardinality(Places(pool, row.mac)) > 0
  PROVE  LentFits([rows EXCEPT ![k] = row], s)
<1> DEFINE next == [rows EXCEPT ![k] = row]
<1>1. \A j \in Key : next[j] = IF j = k THEN row ELSE rows[j]
  OBVIOUS
<1> HIDE DEF next
<1> SUFFICES ASSUME NEW l \in Key, next[l].src = "online_any"
             PROVE  Cardinality(GotBy(next, l)) <= Cardinality(Places(PoolMacs(s), next[l].mac))
  BY DEF LentFits, next
<1>2. CASE l # k
  <2>1. next[l] = rows[l] /\ rows[l] # Absent
    BY <1>1, <1>2 DEF Absent
  <2>2. ~(k <= l)
    BY <2>1, Constants
  <2>3. GotBy(next, l) = GotBy(rows, l)
    BY <1>1, <2>1, <2>2 DEF GotBy, Got
  <2> QED
    BY <2>1, <2>3 DEF LentFits
<1>3. CASE l = k
  <2> DEFINE m == row.mac
             c == Cardinality(GotBy(next, k))
             d == Cardinality(Got(rows, m))
             p == Cardinality(Places(pool, m))
             t == Cardinality(Places(PoolMacs(s), m))
  <2>1. next[k] = row /\ m \in Mac /\ p > 0
    BY <1>1, <1>3
  <2>2. k \notin Got(rows, m)
    BY Constants DEF Absent, Got
  <2>3. \A j \in Got(rows, m) : j <= k /\ j # k
    <3> TAKE j \in Got(rows, m)
    <3>1. j \in Key /\ rows[j] # Absent
      BY <2>1 DEF Absent, Got
    <3>2. ~(j >= k) /\ j \in Nat /\ k \in Nat
      BY <3>1, Constants
    <3> QED
      BY <3>2
  <2>4. \A j \in Key : j <= k /\ j # k => ~(j >= k)
    BY Constants
  <2>5. GotBy(next, k) = Got(rows, m) \cup {k}
    <3>1. k \in GotBy(next, k)
      BY <1>3, <2>1, Constants DEF GotBy, Got
    <3>2. \A j \in Key \ {k} : next[j] = rows[j]
      BY <1>1
    <3>3. \A j \in Key \ {k} : j \in GotBy(next, k) <=> j \in Got(rows, m)
      BY <2>1, <2>3, <3>2 DEF GotBy, Got
    <3>4. GotBy(next, k) \subseteq Key /\ Got(rows, m) \subseteq Key
      BY DEF GotBy, Got
    <3> QED
      BY <3>1, <3>3, <3>4
  <2>6. c = d + 1
    BY <2>2, <2>5, GotFinite, FS_AddElement
  <2>7. d + p <= t
    BY <2>1 DEF Account
  <2>8. c \in Nat /\ d \in Nat /\ p \in Nat /\ t \in Nat
    BY GotFinite, PlacesFinite
  <2> HIDE DEF c, d, p, t
  <2>9. c <= t
    BY <2>1, <2>6, <2>7, <2>8
  <2> QED
    BY <1>3, <2>1, <2>9 DEF c, t
<1> QED
  BY <1>2, <1>3

\* Rows of all services fit the sessions: along the services, what they got so far
\* and what is left in the pool were read.
LEMMA MergedFits ==
  ASSUME NEW services \in (SUBSET (1..MaxKey)) \cup {None}, NEW s \in Seq(Session),
         NEW last \in [Key -> MacOrNone]
  PROVE  Merged(services, s, last) \in [Key -> Row] /\ Fits(Merged(services, s, last), s)
<1> DEFINE jobs == IF services = None THEN {} ELSE IF services = {} THEN {0} ELSE services
           N == MaxKey + 1
           X == [rows : [Key -> Row], pool : Seq(Mac)]
           start == [rows |-> [k \in Key |-> Absent], pool |-> PoolMacs(s)]
           match(x, k) == Match(s, last, x.pool, k)
           step(n, x) == IF n - 1 \notin jobs THEN x
                         ELSE [rows |-> [x.rows EXCEPT ![n - 1] = match(x, n - 1).row],
                               pool |-> match(x, n - 1).pool]
           upto == CHOOSE g : g = [n \in 0..(MaxKey + 1) |-> IF n = 0 THEN start ELSE step(n, g[n - 1])]
<1>1. Merged(services, s, last) = upto[N].rows
  BY DEF Merged
<1>2. N \in Nat /\ jobs \subseteq Key
  <2>1. N \in Nat /\ 1..MaxKey \subseteq Key /\ 0 \in Key
    BY Constants DEF Key
  <2>2. services # None => services \subseteq 1..MaxKey
    OBVIOUS
  <2> QED
    BY <2>1, <2>2
<1>3. start \in X
  BY PoolIs DEF Row, Absent
<1>4. ASSUME NEW x \in X, NEW n \in Nat
      PROVE  step(n, x) \in X
  <2>1. CASE n - 1 \notin jobs
    BY <2>1
  <2>2. CASE n - 1 \in jobs
    <3>1. n - 1 \in Key /\ x.pool \in Seq(Mac) /\ x.rows \in [Key -> Row]
      BY <1>2, <2>2
    <3>2. match(x, n - 1).row \in Row /\ match(x, n - 1).pool \in Seq(Mac)
      BY <3>1, MatchIs
    <3> HIDE DEF match, jobs
    <3> QED
      BY <2>2, <3>1, <3>2
  <2> QED
    BY <2>1, <2>2
<1>5. upto = [n \in 0..N |-> IF n = 0 THEN start ELSE step(n, upto[n - 1])]
  <2> DEFINE F == [n \in Nat |-> [x \in X |-> step(n, x)]]
  <2> HIDE DEF X, start, step, N
  <2>1. F \in [Nat -> [X -> X]]
    BY <1>4
  <2>2. PICK g \in [0..N -> X] : g[0] = start /\ \A n \in 1..N : g[n] = F[n][g[n - 1]]
    <3> HIDE DEF F
    <3>1. N \in Nat /\ start \in X /\ \A n \in Nat, x \in X : F[n][x] \in X
      BY <1>2, <1>3, <2>1
    <3>2. \E g : g \in [0..N -> X] /\ Steps(F, start, N, g)
      BY <3>1, Iterates, Zenon
    <3> QED
      BY <3>2 DEF Steps
  <2>3. \A n \in 1..N : n \in Nat /\ n - 1 \in 0..N /\ n # 0 /\ g[n - 1] \in X
    BY <1>2
  <2>4. \A n \in 1..N : g[n] = step(n, g[n - 1])
    BY <2>2, <2>3
  <2>5. g = [n \in 0..N |-> IF n = 0 THEN start ELSE step(n, g[n - 1])]
    <3>1. \A n \in 0..N : n = 0 \/ n \in 1..N
      BY <1>2
    <3> QED
      BY <2>2, <2>4, <3>1
  <2> QED
    BY <2>5 DEF N
<1>6. upto[0] = start /\ \A n \in Nat : n < N => upto[n + 1] = step(n + 1, upto[n])
  <2> HIDE DEF upto, start, step, N
  <2>1. \A n \in Nat : n < N => n + 1 \in 0..N /\ n + 1 # 0 /\ (n + 1) - 1 = n
    BY <1>2
  <2>2. 0 \in 0..N
    BY <1>2
  <2> QED
    BY <1>5, <2>1, <2>2
<1> DEFINE Fine(n, x) ==
             /\ x \in X
             /\ \A k \in Key : k >= n => x.rows[k] = Absent
             /\ \A k \in Keys(x.rows) : OfId(s, k) # None => x.rows[k].mac = OfId(s, k)
             /\ LentFits(x.rows, s)
             /\ \A m \in Mac : Account(x.rows, x.pool, PoolMacs(s), m)
           good == {n \in Nat : n <= N => Fine(n, upto[n])}
<1>7. 0 \in good
  <2>1. \A k \in Key : start.rows[k] = Absent
    OBVIOUS
  <2>2. Keys(start.rows) = {} /\ LentFits(start.rows, s) /\ \A m : Got(start.rows, m) = {}
    BY <2>1 DEF Keys, Got, LentFits, Absent
  <2>3. ASSUME NEW m \in Mac
        PROVE  Account(start.rows, start.pool, PoolMacs(s), m)
    <3>1. Cardinality(Got(start.rows, m)) = 0
      BY <2>2, FS_EmptySet
    <3>2. start.pool = PoolMacs(s) /\ Cardinality(Places(PoolMacs(s), m)) \in Nat
      BY PoolIs, PlacesFinite
    <3> HIDE DEF start
    <3> QED
      BY <3>1, <3>2 DEF Account
  <2> HIDE DEF start, X
  <2> QED
    BY <1>3, <1>6, <2>1, <2>2, <2>3
<1>8. ASSUME NEW n \in Nat, n \in good
      PROVE  n + 1 \in good
  <2> SUFFICES ASSUME n + 1 <= N
               PROVE  Fine(n + 1, upto[n + 1])
    <3> HIDE DEF Fine, upto, N
    <3> QED
      OBVIOUS
  <2> DEFINE x == upto[n]
             y == upto[n + 1]
  <2>1. Fine(n, x) /\ y = step(n + 1, x) /\ (n + 1) - 1 = n
    <3>1. n < N /\ n <= N
      BY <1>2
    <3> HIDE DEF step, upto, Fine
    <3> QED
      BY <1>6, <1>8, <3>1
  <2>2. y \in X
    <3>1. x \in X /\ n + 1 \in Nat
      <4>1. x \in X
        BY <2>1
      <4> QED
        BY <4>1
    <3> HIDE DEF step, x, X, upto
    <3>2. step(n + 1, x) \in X
      BY <1>4, <3>1
    <3> QED
      BY <2>1, <3>2
  <2> HIDE DEF x, y
  <2>3. CASE n \notin jobs
    <3>1. y = x
      BY <2>1, <2>3
    <3>2. \A k \in Key : k >= n + 1 => k >= n
      BY Constants
    <3>3. Fine(n + 1, y)
      BY <2>1, <3>1, <3>2
    <3> QED
      BY <3>3 DEF y
  <2>4. CASE n \in jobs
    <3> DEFINE row == match(x, n).row
               rest == match(x, n).pool
    <3>1. n \in Key /\ x.pool \in Seq(Mac) /\ x.rows \in [Key -> Row] /\ x.rows[n] = Absent
      BY <1>2, <2>1, <2>4
    <3>2. /\ row \in Row /\ rest \in Seq(Mac) /\ row # Absent
          /\ OfId(s, n) # None => row.mac = OfId(s, n)
          /\ row.src = "online_any" => row.mac \in Mac /\ Cardinality(Places(x.pool, row.mac)) > 0
      BY <3>1, MatchIs DEF Taken
    <3>3. ASSUME NEW m
          PROVE  /\ Cardinality(Places(rest, m)) <= Cardinality(Places(x.pool, m))
                 /\ row.src \in Taken /\ row.mac = m /\ Cardinality(Places(x.pool, m)) > 0 =>
                      Cardinality(Places(rest, m)) + 1 <= Cardinality(Places(x.pool, m))
      BY <3>1, MatchIs
    <3>4. y.rows = [x.rows EXCEPT ![n] = row] /\ y.pool = rest
      <4> HIDE DEF jobs, match
      <4> QED
        BY <2>1, <2>4
    <3> HIDE DEF row, rest, match
    <3>5. \A m \in Mac : Account(y.rows, y.pool, PoolMacs(s), m)
      <4>1. PoolMacs(s) \in Seq(Mac) /\ \A m \in Mac : Account(x.rows, x.pool, PoolMacs(s), m)
        BY <2>1, PoolIs
      <4>2. ASSUME NEW m \in Mac
            PROVE  Account([x.rows EXCEPT ![n] = row], rest, PoolMacs(s), m)
        <5> DEFINE rows == x.rows
                   pool == x.pool
                   read == PoolMacs(s)
        <5>1. /\ rows \in [Key -> Row] /\ pool \in Seq(Mac) /\ rest \in Seq(Mac) /\ read \in Seq(Mac)
              /\ n \in Key /\ rows[n] = Absent /\ row \in Row /\ Account(rows, pool, read, m)
          BY <3>1, <3>2, <4>1
        <5>2. /\ Cardinality(Places(rest, m)) <= Cardinality(Places(pool, m))
              /\ row.src \in Taken /\ row.mac = m /\ Cardinality(Places(pool, m)) > 0 =>
                   Cardinality(Places(rest, m)) + 1 <= Cardinality(Places(pool, m))
          BY <3>3
        <5> HIDE DEF rows, pool, read
        <5>3. Account([rows EXCEPT ![n] = row], rest, read, m)
          BY <5>1, <5>2, RowAccounted
        <5> QED
          BY <5>3 DEF rows, read
      <4> QED
        BY <3>4, <4>2
    <3>6. LentFits(y.rows, s)
      <4>1. /\ PoolMacs(s) \in Seq(Mac) /\ LentFits(x.rows, s) /\ \A j \in Key : j >= n => x.rows[j] = Absent
            /\ \A m \in Mac : Account(x.rows, x.pool, PoolMacs(s), m)
        BY <2>1, PoolIs
      <4> DEFINE rows == x.rows
                 pool == x.pool
      <4>2. /\ rows \in [Key -> Row] /\ pool \in Seq(Mac) /\ n \in Key /\ row \in Row
            /\ \A j \in Key : j >= n => rows[j] = Absent
            /\ \A m \in Mac : Account(rows, pool, PoolMacs(s), m)
            /\ PoolMacs(s) \in Seq(Mac) /\ LentFits(rows, s)
            /\ row.src = "online_any" => row.mac \in Mac /\ Cardinality(Places(pool, row.mac)) > 0
        BY <3>1, <3>2, <4>1
      <4> HIDE DEF rows, pool
      <4>3. LentFits([rows EXCEPT ![n] = row], s)
        BY <4>2, RowFits
      <4> QED
        BY <3>4, <4>3 DEF rows
    <3>7. \A k \in Key : k >= n + 1 => y.rows[k] = Absent
      <4>1. \A k \in Key : k >= n + 1 => k >= n /\ k # n
        BY Constants
      <4> QED
        BY <2>1, <3>1, <3>4, <4>1
    <3>8. \A k \in Keys(y.rows) : OfId(s, k) # None => y.rows[k].mac = OfId(s, k)
      BY <2>1, <3>1, <3>2, <3>4 DEF Keys
    <3>9. Fine(n + 1, y)
      BY <2>2, <3>5, <3>6, <3>7, <3>8
    <3> QED
      BY <3>9 DEF y
  <2> QED
    BY <2>3, <2>4
<1>9. N \in good
  <2> HIDE DEF good, N
  <2> QED
    BY <1>2, <1>7, <1>8, AllNat
<1>10. Fine(N, upto[N])
  <2> HIDE DEF Fine, upto, N
  <2> QED
    BY <1>2, <1>9
<1> DEFINE z == upto[N]
<1>11. /\ z \in X /\ LentFits(z.rows, s)
       /\ \A k \in Keys(z.rows) : OfId(s, k) # None => z.rows[k].mac = OfId(s, k)
  BY <1>10
<1> HIDE DEF upto
<1> QED
  BY <1>1, <1>11 DEF Fits

-----------------------------------------------------------------------------
(* Types.                                                                    *)

LEMMA ThreadFields ==
  ASSUME NEW t, ThreadOK(t)
  PROVE  /\ t.step = "sessions" => t \in [step : {"sessions"}, version : 0..MaxEdits,
                                          services : (SUBSET (1..MaxKey)) \cup {None}, path : Nat, read : Seq(Session)]
         /\ t.step = "write" => t.rows \in [Key -> Row] /\ t.from \in From
         /\ t.step = "match" => t.router \in Router /\ t.macs \subseteq Mac
         /\ t.step = "store" => t.router \in Router /\ t.keys \subseteq Key
<1>1. ASSUME t.step = "sessions"
      PROVE  t \in [step : {"sessions"}, version : 0..MaxEdits,
                    services : (SUBSET (1..MaxKey)) \cup {None}, path : Nat, read : Seq(Session)]
  BY <1>1 DEF ThreadOK, Idle
<1>2. ASSUME t.step = "write"
      PROVE  t.rows \in [Key -> Row] /\ t.from \in From
  <2>1. t \in [step : {"write"}, rows : [Key -> Row], from : From]
    BY <1>2 DEF ThreadOK, Idle
  <2> QED
    BY <2>1
<1>3. ASSUME t.step = "match"
      PROVE  t.router \in Router /\ t.macs \subseteq Mac
  <2>1. t \in [step : {"match"}, router : Router, macs : SUBSET Mac]
    BY <1>3 DEF ThreadOK, Idle
  <2> QED
    BY <2>1
<1>4. ASSUME t.step = "store"
      PROVE  t.router \in Router /\ t.keys \subseteq Key
  <2>1. t \in [step : {"store"}, router : Router, keys : SUBSET Key]
    BY <1>4 DEF ThreadOK, Idle
  <2> QED
    BY <2>1
<1> QED
  BY <1>1, <1>2, <1>3, <1>4

Threads == DOMAIN thread = Syncer \cup Crosser /\ \A w \in DOMAIN thread : ThreadOK(thread[w])

LEMMA ThreadSet ==
  ASSUME Threads, NEW w \in Syncer \cup Crosser, NEW t, ThreadOK(t), thread' = [thread EXCEPT ![w] = t]
  PROVE  Threads'
BY DEF Threads

LEMMA WorldIs ==
  ASSUME TypeOK
  PROVE  /\ world.services \in (SUBSET (1..MaxKey)) \cup {None} /\ world.last \in [Key -> MacOrNone]
         /\ world.online \in Seq(Session) /\ NonePast \in [Key -> MacOrNone]
<1>1. world \in WorldType
  BY Constants DEF TypeOK
<1> QED
  BY <1>1 DEF WorldType, MacOrNone, NonePast

\* One address more, or one that failed.
LEMMA OnlineIs ==
  ASSUME TypeOK, NEW w \in Syncer, FetchOnline(w)
  PROVE  \E t : /\ thread' = [thread EXCEPT ![w] = t] /\ ThreadOK(t)
                /\ t.step = "sessions" /\ thread[w].step = "sessions" /\ t.version = thread[w].version
                /\ faults' >= faults /\ faults' \in 0..MaxFaults
<1> DEFINE t == thread[w]
<1>1. PICK rows \in {world.online, <<>>} :
        /\ faults' = faults + (IF rows # world.online THEN 1 ELSE 0) /\ faults' <= MaxFaults
        /\ thread' = [thread EXCEPT ![w].path = t.path + 1, ![w].read = t.read \o rows]
  BY DEF FetchOnline
<1>2. /\ t.step = "sessions"
      /\ t \in [step : {"sessions"}, version : 0..MaxEdits,
                services : (SUBSET (1..MaxKey)) \cup {None}, path : Nat, read : Seq(Session)]
  BY ThreadFields DEF FetchOnline, TypeOK
<1>3. rows \in Seq(Session)
  <2>1. <<>> \in Seq(Session) /\ world.online \in Seq(Session)
    BY WorldIs
  <2> QED
    BY <2>1
<1>4. t.path + 1 \in Nat /\ t.read \o rows \in Seq(Session)
  BY <1>2, <1>3
<1> DEFINE u == [t EXCEPT !.path = t.path + 1, !.read = t.read \o rows]
<1>5. /\ u \in [step : {"sessions"}, version : 0..MaxEdits,
                services : (SUBSET (1..MaxKey)) \cup {None}, path : Nat, read : Seq(Session)]
      /\ u.step = "sessions" /\ u.version = t.version
  BY <1>2, <1>4
<1>6. thread' = [thread EXCEPT ![w] = u]
  BY <1>1
<1>7. faults' >= faults /\ faults' \in 0..MaxFaults
  BY <1>1, Constants DEF TypeOK
<1>8. ThreadOK(u)
  BY <1>5 DEF ThreadOK
<1> QED
  BY <1>2, <1>5, <1>6, <1>7, <1>8

\* What a sync fetched: the rows, the sessions they are from, and nothing else.
LEMMA FetchIs ==
  ASSUME TypeOK, NEW w \in Syncer, FetchPast(w)
  PROVE  \E rows, from : /\ thread' = [thread EXCEPT ![w] = [step |-> "write", rows |-> rows, from |-> from]]
                         /\ rows \in [Key -> Row] /\ from \in From /\ Fits(rows, from.sessions)
                         /\ from.version = thread[w].version /\ thread[w].step = "sessions"
                         /\ faults' >= faults
<1> DEFINE t == thread[w]
<1>1. PICK last \in {world.last, NonePast} :
        /\ faults' = faults + (IF last # world.last THEN 1 ELSE 0)
        /\ thread' = [thread EXCEPT ![w] =
             [step |-> "write", rows |-> Merged(t.services, t.read, last),
              from |-> [version |-> t.version, sessions |-> t.read]]]
  BY DEF FetchPast
<1>2. last \in [Key -> MacOrNone]
  BY WorldIs
<1>3. /\ t.step = "sessions" /\ t.version \in 0..MaxEdits /\ t.read \in Seq(Session)
      /\ t.services \in (SUBSET (1..MaxKey)) \cup {None}
  BY ThreadFields DEF FetchPast, TypeOK
<1> DEFINE rows == Merged(t.services, t.read, last)
           from == [version |-> t.version, sessions |-> t.read]
<1>4. rows \in [Key -> Row] /\ Fits(rows, t.read)
  <2> DEFINE services == t.services
             s == t.read
  <2>1. services \in (SUBSET (1..MaxKey)) \cup {None} /\ s \in Seq(Session)
    BY <1>3
  <2> HIDE DEF services, s
  <2>2. Merged(services, s, last) \in [Key -> Row] /\ Fits(Merged(services, s, last), s)
    BY <1>2, <2>1, MergedFits
  <2> QED
    BY <2>2 DEF services, s
<1>5. from \in From /\ from.sessions = t.read /\ from.version = t.version
  BY <1>3 DEF From
<1>6. faults' >= faults
  BY <1>1 DEF TypeOK
<1> HIDE DEF rows
<1> QED
  BY <1>1, <1>3, <1>4, <1>5, <1>6 DEF rows

LEMMA InitTypes == Init => TypeOK
<1> SUFFICES ASSUME Init
             PROVE  TypeOK
  OBVIOUS
<1>1. cache \in [Key -> Row] /\ xref \in [Router -> SUBSET Key]
  BY DEF Init, Row, Absent
<1>2. cached \in From
  <2>1. <<>> \in Seq(Session) /\ 0 \in 0..MaxEdits
    BY Constants
  <2> QED
    BY <2>1 DEF Init, From
<1>3. DOMAIN thread = Syncer \cup Crosser /\ \A w \in DOMAIN thread : ThreadOK(thread[w])
  BY DEF Init, ThreadOK
<1>4. /\ world \in Worlds /\ edits \in 0..MaxEdits /\ version \in 0..edits /\ routers \subseteq Router
      /\ faults \in 0..MaxFaults
  BY Constants DEF Init
<1>5. /\ failed \in BOOLEAN /\ busy \in BOOLEAN /\ stale \in BOOLEAN /\ taken \in BOOLEAN /\ crossed \in BOOLEAN
      /\ (stale => busy)
  BY DEF Init
<1> QED
  BY <1>1, <1>2, <1>3, <1>4, <1>5 DEF TypeOK

LEMMA SyncTypes ==
  ASSUME TypeOK, NEW w \in Syncer, Begin(w) \/ SyncStep(w) \/ Fail(w)
  PROVE  TypeOK'
<1>1. Threads /\ ThreadOK(thread[w])
  BY DEF TypeOK, Threads
<1>2. \A step \in {"customers", "prune", "done"} : ThreadOK([step |-> step])
  BY DEF ThreadOK
<1>3. ThreadOK(Idle)
  BY DEF ThreadOK
<1>4. CASE Begin(w)
  <2>1. Threads'
    BY <1>1, <1>2, <1>4, ThreadSet DEF Begin
  <2> QED
    BY <1>4, <2>1 DEF Begin, TypeOK, Threads, outside, tables
<1>5. CASE FetchCustomers(w)
  <2>1. PICK seen \in {world.services, None} :
          /\ faults' = faults + (IF seen # world.services THEN 1 ELSE 0) /\ faults' <= MaxFaults
          /\ thread' = [thread EXCEPT ![w] = [step |-> "sessions", version |-> version, services |-> seen,
                                              path |-> 1, read |-> <<>>]]
    BY <1>5 DEF FetchCustomers
  <2>2. version \in 0..MaxEdits /\ faults' \in 0..MaxFaults
    BY <2>1, Constants DEF TypeOK
  <2>3. ThreadOK([step |-> "sessions", version |-> version, services |-> seen, path |-> 1, read |-> <<>>])
    <3>1. seen \in (SUBSET (1..MaxKey)) \cup {None} /\ <<>> \in Seq(Session) /\ 1 \in Nat
      BY WorldIs
    <3>2. [step |-> "sessions", version |-> version, services |-> seen, path |-> 1, read |-> <<>>]
            \in [step : {"sessions"}, version : 0..MaxEdits, services : (SUBSET (1..MaxKey)) \cup {None},
                 path : Nat, read : Seq(Session)]
      BY <2>2, <3>1
    <3> QED
      BY <3>2 DEF ThreadOK
  <2>4. Threads'
    BY <1>1, <2>1, <2>3, ThreadSet
  <2> QED
    BY <1>5, <2>2, <2>4 DEF FetchCustomers, TypeOK, Threads, outside, tables, flags
<1>6. CASE FetchPast(w)
  <2>1. PICK rows, from : /\ thread' = [thread EXCEPT ![w] = [step |-> "write", rows |-> rows, from |-> from]]
                          /\ rows \in [Key -> Row] /\ from \in From
    BY <1>6, FetchIs
  <2>2. ThreadOK([step |-> "write", rows |-> rows, from |-> from])
    BY <2>1 DEF ThreadOK
  <2>3. Threads'
    BY <1>1, <2>1, <2>2, ThreadSet
  <2>4. faults' \in 0..MaxFaults
    BY <1>6, Constants DEF FetchPast, TypeOK
  <2>5. UNCHANGED <<outside, tables, flags, crossed>>
    BY <1>6 DEF FetchPast
  <2> QED
    BY <2>3, <2>4, <2>5 DEF TypeOK, Threads, outside, tables, flags
<1>11. CASE FetchOnline(w)
  <2>1. PICK t : thread' = [thread EXCEPT ![w] = t] /\ ThreadOK(t) /\ faults' \in 0..MaxFaults
    BY <1>11, OnlineIs
  <2>2. Threads'
    BY <1>1, <2>1, ThreadSet
  <2>3. UNCHANGED <<outside, tables, flags, crossed>>
    BY <1>11 DEF FetchOnline
  <2> QED
    BY <2>1, <2>2, <2>3 DEF TypeOK, Threads, outside, tables, flags
<1>7. CASE WriteCache(w)
  <2>1. Threads'
    BY <1>1, <1>2, <1>7, ThreadSet DEF WriteCache
  <2>2. cache' \in [Key -> Row] /\ cached' \in From /\ failed' \in BOOLEAN /\ crossed' \in BOOLEAN
    BY <1>1, <1>7, ThreadFields DEF WriteCache, TypeOK
  <2>3. UNCHANGED <<outside, xref, flags, faults>>
    BY <1>7 DEF WriteCache
  <2> QED
    BY <2>1, <2>2, <2>3 DEF TypeOK, Threads, outside, flags
<1>8. CASE Prune(w)
  <2>1. Threads'
    BY <1>1, <1>2, <1>8, ThreadSet DEF Prune
  <2>2. xref' \in [Router -> SUBSET Key]
    BY <1>8 DEF Prune, Pruned, TypeOK
  <2>3. UNCHANGED <<outside, cache, cached, failed, flags, crossed, faults>>
    BY <1>8 DEF Prune
  <2> QED
    BY <2>1, <2>2, <2>3 DEF TypeOK, Threads, outside, flags
<1>9. CASE Release(w)
  <2>1. Threads'
    BY <1>1, <1>3, <1>9, ThreadSet DEF Release
  <2> QED
    BY <1>9, <2>1 DEF Release, Clear, TypeOK, Threads, outside, tables
<1>10. CASE Fail(w)
  <2>1. Threads'
    BY <1>1, <1>2, <1>10, ThreadSet DEF Fail
  <2>2. faults' \in 0..MaxFaults /\ failed' \in BOOLEAN
    BY <1>10, Constants DEF Fail, TypeOK
  <2>3. UNCHANGED <<outside, cache, cached, xref, flags, crossed>>
    BY <1>10 DEF Fail
  <2> QED
    BY <2>1, <2>2, <2>3 DEF TypeOK, Threads, outside, flags
<1> QED
  BY <1>4, <1>5, <1>6, <1>7, <1>8, <1>9, <1>10, <1>11 DEF SyncStep

\* The service that a MAC leads to is cached.
LEMMA OwnerIs ==
  ASSUME TypeOK, NEW m \in Mac
  PROVE  Owner(m) \subseteq Keys(cache)
<1> DEFINE S == {k \in Key : cache[k].mac = m}
<1>1. ASSUME S # {}
      PROVE  \E k \in S : \A j \in S : j <= k
  BY <1>1, Constants, FS_Subset, GreatestOf
<1>2. \A k \in S : k \in Keys(cache)
  BY Constants DEF Keys, Absent
<1>3. S # {} => (CHOOSE k \in S : \A j \in S : j <= k) \in S
  BY <1>1
<1> QED
  BY <1>2, <1>3 DEF Owner

LEMMA CrossIs ==
  ASSUME TypeOK, NEW w \in Crosser, MatchMacs(w)
  PROVE  \E t : /\ thread' = [thread EXCEPT ![w] = t] /\ ThreadOK(t) /\ t.step = "store"
                /\ t.keys \subseteq Keys(cache)
<1> DEFINE keys == UNION {Owner(m) : m \in thread[w].macs}
           t == [step |-> "store", router |-> thread[w].router, keys |-> keys]
<1>1. thread[w].router \in Router /\ thread[w].macs \subseteq Mac
  BY ThreadFields DEF MatchMacs, TypeOK
<1>2. keys \subseteq Keys(cache) /\ keys \subseteq Key
  <2>1. \A m \in thread[w].macs : Owner(m) \subseteq Keys(cache)
    BY <1>1, OwnerIs
  <2> QED
    BY <2>1 DEF Keys
<1>3. thread' = [thread EXCEPT ![w] = t]
  BY DEF MatchMacs
<1> HIDE DEF keys
<1>4. ThreadOK(t) /\ t.step = "store" /\ t.keys = keys
  BY <1>1, <1>2 DEF ThreadOK
<1> QED
  BY <1>2, <1>3, <1>4

LEMMA OtherTypes ==
  ASSUME TypeOK,
         \/ \E w \in Crosser : CrossStep(w) \/ \E r \in Router : ReadRouter(w, r)
         \/ Age \/ Status \/ Edit \/ UNCHANGED vars
  PROVE  TypeOK'
<1>1. Threads
  BY DEF TypeOK, Threads
<1>2. ASSUME NEW w \in Crosser, MatchMacs(w)
      PROVE  TypeOK'
  <2>1. Threads'
    BY <1>1, <1>2, CrossIs, ThreadSet
  <2> QED
    BY <1>2, <2>1 DEF MatchMacs, TypeOK, Threads, outside, tables, flags
<1>3. ASSUME NEW w \in Crosser, StoreXref(w)
      PROVE  TypeOK'
  <2>1. ThreadOK(Idle) /\ ThreadOK(thread[w]) /\ thread[w].step = "store"
    BY <1>3 DEF ThreadOK, StoreXref, TypeOK
  <2>2. Threads'
    BY <1>1, <1>3, <2>1, ThreadSet DEF StoreXref
  <2>3. xref' \in [Router -> SUBSET Key]
    BY <1>3, <2>1, ThreadFields DEF StoreXref, TypeOK
  <2>4. UNCHANGED <<outside, cache, cached, failed, flags, crossed, faults>>
    BY <1>3 DEF StoreXref
  <2> QED
    BY <2>2, <2>3, <2>4 DEF TypeOK, Threads, outside, flags
<1>4. ASSUME NEW w \in Crosser, NEW r \in Router, ReadRouter(w, r)
      PROVE  TypeOK'
  <2>1. ThreadOK([step |-> "match", router |-> r, macs |-> {m \in Mac : world.at[m] = r}])
    BY DEF ThreadOK
  <2>2. Threads'
    BY <1>1, <1>4, <2>1, ThreadSet DEF ReadRouter
  <2> QED
    BY <1>4, <2>2 DEF ReadRouter, TypeOK, Threads, outside, tables, flags
<1>5. CASE Age \/ Status \/ UNCHANGED vars
  <2>1. CASE Age
    BY <2>1 DEF Age, TypeOK, outside, tables
  <2>2. CASE Status
    BY <2>2 DEF Status, Cleared, Clear, TypeOK, outside, tables
  <2>3. CASE UNCHANGED vars
    BY <2>3 DEF vars, TypeOK
  <2> QED
    BY <1>5, <2>1, <2>2, <2>3
<1>6. CASE Edit
  <2>1. edits' \in 0..MaxEdits /\ world' \in Worlds /\ routers' \subseteq Router /\ version' \in 0..edits'
    <3>1. edits < MaxEdits /\ edits' = edits + 1 /\ edits \in 0..MaxEdits /\ version \in 0..edits
      BY <1>6 DEF Edit, TypeOK
    <3>2. version' = version \/ version' = version + 1
      BY <1>6 DEF Edit
    <3>3. world' \in Worlds /\ routers' \subseteq Router
      BY <1>6 DEF Edit, TypeOK, AddRouter, DeleteRouter
    <3> QED
      BY <3>1, <3>2, <3>3, Constants
  <2>2. UNCHANGED <<tables, flags, crossed, thread, faults>>
    BY <1>6 DEF Edit
  <2> QED
    BY <2>1, <2>2 DEF TypeOK, tables, flags
<1> QED
  BY <1>2, <1>3, <1>4, <1>5, <1>6 DEF CrossStep

LEMMA NextTypes == TypeOK /\ [Next]_vars => TypeOK'
BY SyncTypes, OtherTypes DEF Next

\* Rows, locks and what threads hold of them stay what they are meant to be,
\* whatever fetch fails, lock goes stale or router is deleted meanwhile.
THEOREM TypeCorrect == Spec => []TypeOK
<1>1. TypeOK /\ [Next]_vars => TypeOK'
  BY NextTypes
<1> QED
  BY <1>1, InitTypes, PTL DEF Spec

-----------------------------------------------------------------------------
(* Tables that fit, and one sync at a time.                                  *)

SyncSteps == {"customers", "sessions", "write", "prune", "done"}

\* A step of one thread that writes no table.
LEMMA KeepFits ==
  ASSUME TypeOK, TypeOK', TablesFit, Written, NEW w \in Syncer \cup Crosser, NEW t,
         thread' = [thread EXCEPT ![w] = t], UNCHANGED <<cache, cached, xref, crossed>>, faults' >= faults,
         t.step = "write" => Fits(t.rows, t.from.sessions), t.step = "store" => t.keys \subseteq Keys(cache),
         thread[w].step # "prune" \/ faults' > 0
  PROVE  TablesFit' /\ Written'
<1>1. \A v \in Syncer \cup Crosser : thread'[v] = IF v = w THEN t ELSE thread[v]
  BY DEF TypeOK
<1>2. faults > 0 => faults' > 0
  BY Constants DEF TypeOK
<1>3. TablesFit'
  BY <1>1, <1>2 DEF TablesFit
<1>4. Written'
  BY <1>1 DEF Written
<1> QED
  BY <1>3, <1>4

LEMMA KeepOne ==
  ASSUME TypeOK, OneSync, NEW w \in Syncer \cup Crosser, NEW t, thread' = [thread EXCEPT ![w] = t],
         UNCHANGED <<version, cached, busy, taken>>, t.step \in SyncSteps => Syncing(w),
         t.step = "sessions" => t.version <= version /\ (~taken => t.version >= cached.version),
         t.step = "write" => t.from.version <= version /\ (~taken => t.from.version >= cached.version)
  PROVE  OneSync'
<1>1. \A v \in Syncer \cup Crosser : thread'[v] = IF v = w THEN t ELSE thread[v]
  BY DEF TypeOK
<1>2. \A v \in Syncer : Syncing(v)' => Syncing(v)
  BY <1>1 DEF Syncing, SyncSteps
<1> QED
  BY <1>1, <1>2 DEF OneSync

\* Everything but types, of a step that changes neither tables nor threads.
LEMMA KeepAll ==
  ASSUME TypeOK, TypeOK', IInv, UNCHANGED <<cache, cached, xref, crossed, thread, faults>>,
         version' >= version, taken' \/ ((busy' <=> busy) /\ (taken' <=> taken))
  PROVE  IInv'
<1>1. version \in Int /\ version' \in Int /\ cached.version \in Int
  BY Constants DEF TypeOK, From
<1>2. TablesFit' /\ Written'
  BY DEF IInv, TablesFit, Written
<1>3. cached.version <= version'
  BY <1>1 DEF IInv, OneSync
<1>5. ASSUME NEW v \in Syncer
      PROVE  /\ thread[v].step = "sessions" => thread[v].version <= version'
             /\ thread[v].step = "write" => thread[v].from.version <= version'
  <2>1. /\ thread[v].step = "sessions" => thread[v].version \in Int /\ thread[v].version <= version
        /\ thread[v].step = "write" => thread[v].from.version \in Int /\ thread[v].from.version <= version
    BY ThreadFields, Constants DEF TypeOK, From, IInv, OneSync
  <2> QED
    BY <1>1, <2>1
<1>4. OneSync'
  <2>1. \A v \in Syncer : Syncing(v)' <=> Syncing(v)
    BY DEF Syncing
  <2> QED
    BY <1>3, <1>5, <2>1 DEF IInv, OneSync
<1> QED
  BY <1>2, <1>4 DEF IInv

LEMMA SyncInductive ==
  ASSUME IInv, TypeOK', NEW w \in Syncer, Begin(w) \/ SyncStep(w) \/ Fail(w)
  PROVE  IInv'
<1>1. TypeOK /\ TablesFit /\ Written /\ OneSync
  BY DEF IInv
<1>2. cached.version \in Int /\ version \in Int /\ faults \in Int
  BY <1>1, Constants DEF TypeOK, From
<1>3. CASE Begin(w)
  <2>1. /\ thread' = [thread EXCEPT ![w] = [step |-> "customers"]] /\ thread[w] = Idle
        /\ UNCHANGED <<cache, cached, xref, crossed, faults, version>>
    BY <1>3 DEF Begin, tables, outside
  <2>2. TablesFit' /\ Written'
    <3>1. thread[w].step # "prune" /\ faults' >= faults
      BY <1>2, <2>1 DEF Idle
    <3>2. \A t : t = [step |-> "customers"] => t.step = "customers"
      OBVIOUS
    <3> QED
      BY <1>1, <2>1, <3>1, <3>2, KeepFits
  <2>3. OneSync'
    <3>1. busy' /\ (~taken' => ~taken /\ ~busy)
      BY <1>3 DEF Begin, Refused, TypeOK
    <3>2. \A v \in Syncer : thread'[v] = IF v = w THEN [step |-> "customers"] ELSE thread[v]
      BY <1>1, <2>1 DEF TypeOK
    <3>3. ~taken' => \A v \in Syncer : Syncing(v)' => v = w
      BY <1>1, <3>1, <3>2 DEF OneSync, Syncing
    <3> QED
      BY <1>1, <2>1, <3>1, <3>2, <3>3 DEF OneSync
  <2> QED
    BY <2>2, <2>3 DEF IInv
<1>4. CASE FetchCustomers(w)
  <2>1. PICK seen : thread' = [thread EXCEPT ![w] = [step |-> "sessions", version |-> version, services |-> seen,
                                                     path |-> 1, read |-> <<>>]]
    BY <1>4 DEF FetchCustomers
  <2>2. PICK t : t = [step |-> "sessions", version |-> version, services |-> seen, path |-> 1, read |-> <<>>]
    OBVIOUS
  <2>3. t.step = "sessions" /\ t.version = version /\ thread' = [thread EXCEPT ![w] = t]
    BY <2>1, <2>2
  <2>4. /\ thread[w].step = "customers" /\ faults' >= faults
        /\ UNCHANGED <<cache, cached, xref, crossed, version, busy, taken>>
    BY <1>2, <1>4 DEF FetchCustomers, outside, tables, flags
  <2>5. TablesFit' /\ Written'
    BY <1>1, <2>3, <2>4, KeepFits
  <2>6. OneSync'
    <3>1. t.version >= cached.version /\ t.version <= version /\ Syncing(w)
      BY <1>1, <1>2, <2>3, <2>4 DEF OneSync, Syncing
    <3> QED
      BY <1>1, <2>3, <2>4, <3>1, KeepOne
  <2> QED
    BY <2>5, <2>6 DEF IInv
<1>5. CASE FetchPast(w)
  <2>1. PICK rows, from : /\ thread' = [thread EXCEPT ![w] = [step |-> "write", rows |-> rows, from |-> from]]
                          /\ Fits(rows, from.sessions) /\ from.version = thread[w].version
                          /\ thread[w].step = "sessions" /\ faults' >= faults
    BY <1>1, <1>5, FetchIs
  <2>2. PICK t : t = [step |-> "write", rows |-> rows, from |-> from]
    OBVIOUS
  <2>3. t.step = "write" /\ t.rows = rows /\ t.from = from /\ thread' = [thread EXCEPT ![w] = t]
    BY <2>1, <2>2
  <2>4. UNCHANGED <<cache, cached, xref, crossed, version, busy, taken>>
    BY <1>5 DEF FetchPast, outside, tables, flags
  <2>5. TablesFit' /\ Written'
    BY <1>1, <2>1, <2>3, <2>4, KeepFits
  <2>6. OneSync'
    <3>1. (~taken => t.from.version >= cached.version) /\ t.from.version <= version /\ Syncing(w)
      BY <1>1, <2>1, <2>3 DEF OneSync, Syncing
    <3> QED
      BY <1>1, <2>3, <2>4, <3>1, KeepOne
  <2> QED
    BY <2>5, <2>6 DEF IInv
<1>10. CASE FetchOnline(w)
  <2>1. PICK t : /\ thread' = [thread EXCEPT ![w] = t] /\ t.step = "sessions"
                 /\ thread[w].step = "sessions" /\ t.version = thread[w].version /\ faults' >= faults
    BY <1>1, <1>10, OnlineIs
  <2>2. UNCHANGED <<cache, cached, xref, crossed, version, busy, taken>>
    BY <1>10 DEF FetchOnline, outside, tables, flags
  <2>3. TablesFit' /\ Written'
    BY <1>1, <2>1, <2>2, KeepFits
  <2>4. OneSync'
    <3>1. t.version <= version /\ (~taken => t.version >= cached.version) /\ Syncing(w)
      BY <1>1, <2>1 DEF OneSync, Syncing
    <3> QED
      BY <1>1, <2>1, <2>2, <3>1, KeepOne
  <2> QED
    BY <2>3, <2>4 DEF IInv
<1>6. CASE WriteCache(w)
  <2>1. /\ thread[w].step = "write" /\ cache' = thread[w].rows /\ cached' = thread[w].from
        /\ crossed' = (crossed \/ \E v \in Crosser : thread[v].step = "store")
        /\ thread' = [thread EXCEPT ![w] = [step |-> "prune"]]
        /\ UNCHANGED <<xref, faults, version, busy, taken>>
    BY <1>6 DEF WriteCache, outside, flags
  <2>2. \A v \in Syncer \cup Crosser : thread'[v] = IF v = w THEN [step |-> "prune"] ELSE thread[v]
    BY <1>1, <2>1 DEF TypeOK
  <2>3. TablesFit'
    BY <1>1, <2>1, <2>2 DEF TablesFit, Written
  <2>4. Written'
    <3>1. \A v \in Syncer \cup Crosser : thread'[v].step \in {"write", "store"} => thread'[v] = thread[v]
      BY <2>2
    <3>2. \A v \in Syncer : thread'[v].step = "write" => Fits(thread'[v].rows, thread'[v].from.sessions)
      BY <1>1, <3>1 DEF Written
    <3>3. crossed' \/ \A v \in Crosser : thread'[v].step # "store"
      BY <2>1, <3>1
    <3> QED
      BY <3>2, <3>3 DEF Written
  <2>5. OneSync'
    <3>1. cached'.version <= version
      <4>1. thread[w].from.version <= version
        BY <1>1, <2>1 DEF OneSync
      <4> QED
        BY <2>1, <4>1
    <3>2. \A v \in Syncer : Syncing(v)' => Syncing(v)
      BY <2>1, <2>2 DEF Syncing
    <3>3. ~taken => \A v \in Syncer : v # w => thread[v].step \notin {"sessions", "write"}
      BY <1>1, <2>1 DEF OneSync, Syncing
    <3> QED
      BY <1>1, <2>1, <2>2, <3>1, <3>2, <3>3 DEF OneSync
  <2> QED
    BY <2>3, <2>4, <2>5 DEF IInv
<1>7. CASE Prune(w)
  <2>1. /\ thread[w].step = "prune" /\ xref' = Pruned(cache)
        /\ thread' = [thread EXCEPT ![w] = [step |-> "done"]]
        /\ UNCHANGED <<cache, cached, crossed, faults, version, busy, taken>>
    BY <1>7 DEF Prune, outside, flags
  <2>2. \A v \in Syncer \cup Crosser : thread'[v] = IF v = w THEN [step |-> "done"] ELSE thread[v]
    BY <1>1, <2>1 DEF TypeOK
  <2>3. TablesFit'
    <3>1. \A r \in Router : xref'[r] \subseteq Keys(cache')
      BY <2>1 DEF Pruned
    <3> QED
      BY <1>1, <2>1, <3>1 DEF TablesFit
  <2>4. Written'
    <3>1. \A v \in Syncer \cup Crosser : thread'[v].step \in {"write", "store"} => thread'[v] = thread[v]
      BY <2>2
    <3> QED
      BY <1>1, <2>1, <3>1 DEF Written
  <2>5. OneSync'
    <3>1. PICK t : t = [step |-> "done"]
      OBVIOUS
    <3>2. t.step = "done" /\ thread' = [thread EXCEPT ![w] = t] /\ Syncing(w)
      BY <2>1, <3>1 DEF Syncing
    <3> QED
      BY <1>1, <2>1, <3>2, KeepOne
  <2> QED
    BY <2>3, <2>4, <2>5 DEF IInv
<1>8. CASE Release(w)
  <2>1. /\ thread[w].step = "done" /\ thread' = [thread EXCEPT ![w] = Idle]
        /\ UNCHANGED <<cache, cached, xref, crossed, faults, version, taken>>
    BY <1>8 DEF Release, outside, tables
  <2>2. Idle.step = "idle" /\ faults' >= faults
    BY <1>2, <2>1 DEF Idle
  <2>3. TablesFit' /\ Written'
    BY <1>1, <2>1, <2>2, KeepFits
  <2>4. OneSync'
    <3>1. \A v \in Syncer : thread'[v] = IF v = w THEN Idle ELSE thread[v]
      BY <1>1, <2>1 DEF TypeOK
    <3>2. ~taken => \A v \in Syncer : ~Syncing(v)'
      BY <1>1, <2>1, <2>2, <3>1 DEF OneSync, Syncing
    <3> QED
      BY <1>1, <2>1, <2>2, <3>1, <3>2 DEF OneSync, Syncing
  <2> QED
    BY <2>3, <2>4 DEF IInv
<1>9. CASE Fail(w)
  <2>1. PICK t : t = [step |-> "done"]
    OBVIOUS
  <2>2. t.step = "done" /\ thread' = [thread EXCEPT ![w] = t] /\ Syncing(w)
    BY <1>9, <2>1 DEF Fail, Syncing
  <2>3. UNCHANGED <<cache, cached, xref, crossed, version, busy, taken>> /\ faults' = faults + 1
    BY <1>9 DEF Fail, outside, flags
  <2>4. faults' > 0 /\ faults' >= faults
    BY <1>1, <2>3, Constants DEF TypeOK
  <2>5. TablesFit' /\ Written'
    BY <1>1, <2>2, <2>3, <2>4, KeepFits
  <2>6. OneSync'
    BY <1>1, <2>2, <2>3, KeepOne
  <2> QED
    BY <2>5, <2>6 DEF IInv
<1> QED
  BY <1>3, <1>4, <1>5, <1>6, <1>7, <1>8, <1>9, <1>10 DEF SyncStep

LEMMA OtherInductive ==
  ASSUME IInv, TypeOK',
         \/ \E w \in Crosser : CrossStep(w) \/ \E r \in Router : ReadRouter(w, r)
         \/ Age \/ Status \/ Edit \/ UNCHANGED vars
  PROVE  IInv'
<1>1. TypeOK /\ TablesFit /\ Written /\ OneSync
  BY DEF IInv
<1>2. version \in Int /\ faults \in Int
  BY <1>1, Constants DEF TypeOK
<1>3. ASSUME NEW w \in Crosser, MatchMacs(w)
      PROVE  IInv'
  <2>1. PICK t : thread' = [thread EXCEPT ![w] = t] /\ t.step = "store" /\ t.keys \subseteq Keys(cache)
    BY <1>1, <1>3, CrossIs
  <2>2. /\ UNCHANGED <<cache, cached, xref, crossed, faults, version, busy, taken>> /\ thread[w].step = "match"
        /\ faults' >= faults
    BY <1>2, <1>3 DEF MatchMacs, outside, tables, flags
  <2>3. TablesFit' /\ Written'
    BY <1>1, <2>1, <2>2, KeepFits
  <2>4. OneSync'
    BY <1>1, <2>1, <2>2, KeepOne DEF SyncSteps
  <2> QED
    BY <2>3, <2>4 DEF IInv
<1>4. ASSUME NEW w \in Crosser, StoreXref(w)
      PROVE  IInv'
  <2>1. /\ thread[w].step = "store" /\ xref' = [xref EXCEPT ![thread[w].router] = thread[w].keys]
        /\ thread' = [thread EXCEPT ![w] = Idle] /\ Idle.step = "idle"
        /\ UNCHANGED <<cache, cached, crossed, faults, version, busy, taken>>
    BY <1>4 DEF StoreXref, outside, flags, Idle
  <2>2. \A v \in Syncer \cup Crosser : thread'[v] = IF v = w THEN Idle ELSE thread[v]
    BY <1>1, <2>1 DEF TypeOK
  <2>3. TablesFit'
    <3>1. \A r \in Router : xref'[r] = xref[r] \/ xref'[r] = thread[w].keys
      BY <1>1, <2>1 DEF TypeOK
    <3>2. crossed \/ thread[w].keys \subseteq Keys(cache)
      BY <1>1, <2>1 DEF Written
    <3>3. \A v \in Syncer : thread[v].step = "prune" => thread'[v].step = "prune"
      BY <2>1, <2>2
    <3> QED
      BY <1>1, <2>1, <3>1, <3>2, <3>3 DEF TablesFit
  <2>4. Written'
    BY <1>1, <2>1, <2>2 DEF Written
  <2>5. OneSync'
    BY <1>1, <2>1, KeepOne DEF SyncSteps
  <2> QED
    BY <2>3, <2>4, <2>5 DEF IInv
<1>5. ASSUME NEW w \in Crosser, NEW r \in Router, ReadRouter(w, r)
      PROVE  IInv'
  <2>1. PICK t : t = [step |-> "match", router |-> r, macs |-> {m \in Mac : world.at[m] = r}]
    OBVIOUS
  <2>2. /\ t.step = "match" /\ thread' = [thread EXCEPT ![w] = t] /\ thread[w].step = "idle" /\ faults' >= faults
        /\ UNCHANGED <<cache, cached, xref, crossed, faults, version, busy, taken>>
    BY <1>2, <1>5, <2>1 DEF ReadRouter, Idle, outside, tables, flags
  <2>3. TablesFit' /\ Written'
    BY <1>1, <2>2, KeepFits
  <2>4. OneSync'
    BY <1>1, <2>2, KeepOne DEF SyncSteps
  <2> QED
    BY <2>3, <2>4 DEF IInv
<1>6. CASE Age \/ Status
  BY <1>1, <1>2, <1>6, KeepAll DEF Age, Status, Cleared, outside, tables
<1>7. CASE Edit
  <2>1. version' >= version /\ UNCHANGED <<cache, cached, xref, crossed, thread, faults, busy, taken>>
    BY <1>2, <1>7 DEF Edit, tables, flags
  <2> QED
    BY <1>1, <2>1, KeepAll
<1>8. CASE UNCHANGED vars
  BY <1>1, <1>2, <1>8, KeepAll DEF vars
<1> QED
  BY <1>3, <1>4, <1>5, <1>6, <1>7, <1>8 DEF CrossStep

\* The inductive invariant: rows fit before they are written, and while no flag was
\* taken over one sync runs at a time, with data no older than the cache's.
THEOREM Inductive == Spec => []IInv
<1>1. Init => IInv
  <2> SUFFICES ASSUME Init
               PROVE  IInv
    OBVIOUS
  <2>1. Keys(cache) = {} /\ \A k \in Key : cache[k] = Absent
    BY DEF Init, Keys
  <2>2. Fits(cache, cached.sessions)
    BY <2>1 DEF Fits, LentFits, Absent
  <2>3. TablesFit
    BY <2>2 DEF TablesFit, Init
  <2>4. Written /\ OneSync
    BY DEF Init, Written, OneSync, Syncing, Idle
  <2> QED
    BY <2>3, <2>4, InitTypes DEF IInv
<1>2. IInv /\ [Next]_vars => IInv'
  <2> SUFFICES ASSUME IInv, [Next]_vars
               PROVE  IInv'
    OBVIOUS
  <2>1. TypeOK'
    BY NextTypes DEF IInv
  <2> QED
    BY <2>1, SyncInductive, OtherInductive DEF Next
<1> QED
  BY <1>1, <1>2, PTL DEF Spec

\* The cache holds what its sync fetched, and the cross
\* reference matched what the cache holds, unless a sync or a failure came between.
THEOREM TablesAlwaysFit == Spec => []TablesFit
<1>1. IInv => TablesFit
  BY DEF IInv
<1> QED
  BY <1>1, Inductive, PTL

\* No sync replaces the cache by data older than it has, but where a flag that was
\* too old was taken over (run_full_sync).
THEOREM CacheMovesOn == Spec => CacheAdvances
<1>1. IInv /\ [Next]_vars => [cached'.version >= cached.version \/ taken]_vars
  <2> SUFFICES ASSUME IInv, [Next]_vars, ~taken
               PROVE  cached'.version >= cached.version
    OBVIOUS
  <2>1. cached.version \in Int
    BY Constants DEF IInv, TypeOK, From
  <2>2. CASE \E w \in Syncer : WriteCache(w)
    BY <2>2 DEF WriteCache, IInv, OneSync
  <2>3. CASE ~\E w \in Syncer : WriteCache(w)
    <3>1. UNCHANGED cached
      BY <2>3 DEF Next, Begin, SyncStep, Fail, FetchCustomers, FetchOnline, FetchPast, Prune, Release, CrossStep,
                  MatchMacs, StoreXref, ReadRouter, Age, Status, Edit, vars, tables
    <3> QED
      BY <2>1, <3>1
  <2> QED
    BY <2>2, <2>3
<1> QED
  BY <1>1, Inductive, PTL DEF Spec, CacheAdvances
================================================================================
