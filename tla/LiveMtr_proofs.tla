----------------------------- MODULE LiveMtr_proofs ----------------------------
(* Proofs about a live MTR run, for any number of hops, probes and samples    *)
(* and for every order of the lines mtr prints.                               *)
EXTENDS LiveMtr, FiniteSetTheorems, TLAPS

-----------------------------------------------------------------------------
(* Induction over the naturals in a form without operator parameters: what is *)
(* to be shown of every number is that a set has it.                          *)

\* A set of naturals that is not empty has a least element.
LEMMA LeastOf ==
  ASSUME NEW S \in SUBSET Nat, S # {}
  PROVE  \E m \in S : \A n \in S : m <= n
<1>1. PICK m \in S : \A n \in S : <<n, m>> \notin OpToRel(<, Nat)
  BY NatLessThanWellFounded, WFMin, Zenon
<1>2. \A n \in S : ~ (n < m)
  BY <1>1 DEF OpToRel
<1> QED
  BY <1>2

\* Induction: a set that has zero, and with each number the next, has every number.
LEMMA AllNat ==
  ASSUME NEW S, 0 \in S, \A n \in Nat : n \in S => n + 1 \in S
  PROVE  Nat \subseteq S
<1> SUFFICES ASSUME Nat \ S # {}
             PROVE  FALSE
  OBVIOUS
<1>1. PICK m \in Nat \ S : \A n \in Nat \ S : m <= n
  BY LeastOf
<1> QED
  BY <1>1

\* A finite set of naturals has an upper bound.
LEMMA Bounded ==
  ASSUME NEW S \in SUBSET Nat, IsFiniteSet(S)
  PROVE  \E b \in Nat : \A n \in S : n <= b
<1> DEFINE Good == {k \in Nat : \A T \in SUBSET Nat : IsFiniteSet(T) /\ Cardinality(T) = k
                                   => \E b \in Nat : \A n \in T : n <= b}
<1>1. 0 \in Good
  BY FS_EmptySet
<1>2. ASSUME NEW k \in Good
      PROVE  k + 1 \in Good
  <2> SUFFICES ASSUME NEW T \in SUBSET Nat, IsFiniteSet(T), Cardinality(T) = k + 1
               PROVE  \E b \in Nat : \A n \in T : n <= b
    OBVIOUS
  <2> k \in Nat
    OBVIOUS
  <2>1. PICK x \in T : TRUE
    <3>1. T # {}
      BY FS_EmptySet
    <3> QED
      BY <3>1
  <2>2. IsFiniteSet(T \ {x}) /\ Cardinality(T \ {x}) = k
    <3>1. IsFiniteSet(T \ {x}) /\ Cardinality(T \ {x}) = Cardinality(T) - 1
      BY <2>1, FS_RemoveElement
    <3> QED
      BY <3>1
  <2>3. PICK b \in Nat : \A n \in T \ {x} : n <= b
    BY <2>2
  <2>4. x \in Nat /\ b + x \in Nat /\ \A n \in T : n <= b + x
    BY <2>1, <2>3
  <2> QED
    BY <2>4
<1>3. Nat \subseteq Good
  <2> HIDE DEF Good
  <2> QED
    BY <1>1, <1>2, AllNat
<1> QED
  BY <1>3, FS_CardinalityType

\* A finite set of naturals that is not empty has a greatest element.
LEMMA GreatestOf ==
  ASSUME NEW S \in SUBSET Nat, IsFiniteSet(S), S # {}
  PROVE  \E m \in S : \A n \in S : n <= m
<1>1. PICK b \in {c \in Nat : \A n \in S : n <= c} : \A c \in {c \in Nat : \A n \in S : n <= c} : b <= c
  BY Bounded, LeastOf
<1>2. b \in S
  <2> SUFFICES ASSUME b \notin S
               PROVE  FALSE
    OBVIOUS
  <2>1. PICK x \in S : TRUE
    OBVIOUS
  <2>2. b - 1 \in Nat /\ \A n \in S : n <= b - 1
    BY <1>1, <2>1
  <2> QED
    BY <1>1, <2>2
<1> QED
  BY <1>1, <1>2

-----------------------------------------------------------------------------
(* HopStats: a probe and a reply keep the row of a hop.                       *)

\* Taken together: the row, and the probes a hop is waiting for.
Sane(h, o, l) ==
  /\ h \in HopRow /\ o \subseteq 1..h.sent /\ l \subseteq 1..Warmup
  /\ h.rcvd + Cardinality(o) = h.sent

LEMMA PartOf ==
  ASSUME NEW n \in Nat, NEW S \in SUBSET (1..n)
  PROVE  IsFiniteSet(S) /\ Cardinality(S) \in Nat
<1>1. IsFiniteSet(1..n)
  BY FS_Interval
<1>2. IsFiniteSet(S)
  BY <1>1, FS_Subset
<1> QED
  BY <1>2, FS_CardinalityType

\* The fields of a row.
LEMMA RowFields ==
  ASSUME NEW h \in HopRow
  PROVE  /\ h.sent \in Nat /\ h.rcvd \in Nat /\ h.sentEff \in Nat /\ h.rcvdEff \in Nat
         /\ h.warm \in BOOLEAN /\ h.ip \in Ip \cup {None} /\ h.samples \in Seq(Latency)
         /\ {h.best, h.worst, h.prev} \subseteq Latency \cup {None}
         /\ h.sum \in Nat /\ h.jitterSum \in Nat /\ h.jitterN \in Nat
BY DEF HopRow, Number

LEMMA OneMore ==
  ASSUME NEW S, IsFiniteSet(S), NEW x
  PROVE  x \notin S => Cardinality(S \cup {x}) = Cardinality(S) + 1
BY FS_AddElement

LEMMA NewRow ==
  /\ NewHop \in HopRow /\ Sane(NewHop, {}, {})
  /\ Counted(NewHop, {}, {}) /\ Figures(NewHop)
<1>1. NewHop \in HopRow
  BY DEF NewHop, HopRow, Number
<1>2. \A S : S = {} => Cardinality(S) = 0
  BY FS_EmptySet
<1>3. {n \in {} : n > Warmup} = {}
  OBVIOUS
<1> QED
  BY <1>1, <1>2, <1>3, ConstantsAssumption DEF Sane, Counted, Figures, NewHop, ConstantsAssumption

\* What a probe that is sent changes of the row.
LEMMA SentRow ==
  ASSUME NEW h \in HopRow
  PROVE  LET g == OnSent(h)
             n == h.sent + 1
         IN /\ g \in HopRow /\ g.sent = n /\ g.rcvd = h.rcvd
            /\ n = Warmup /\ ~h.warm => g.warm /\ g.sentEff = 0 /\ g.rcvdEff = 0 /\ Figures(g)
            /\ ~(n = Warmup /\ ~h.warm) =>
                 /\ g.warm = h.warm /\ g.rcvdEff = h.rcvdEff /\ (Figures(h) => Figures(g))
                 /\ g.sentEff = IF n > Warmup /\ h.warm THEN h.sentEff + 1 ELSE h.sentEff
<1> DEFINE g == OnSent(h)
           n == h.sent + 1
<1>1. n \in Nat /\ h.sentEff \in Nat /\ h.sentEff + 1 \in Nat /\ h.rcvd \in Nat /\ h.ip \in Ip \cup {None}
  BY RowFields
<1>2. CASE n = Warmup /\ ~h.warm
  <2>1. g = [NewHop EXCEPT !.ip = h.ip, !.sent = n, !.rcvd = h.rcvd, !.warm = TRUE]
    BY <1>2 DEF OnSent
  <2>2. h.ip \in Ip \cup {None} /\ h.rcvd \in Nat
    BY <1>1
  <2>3. g \in HopRow /\ g.sent = n /\ g.rcvd = h.rcvd
    <3> HIDE DEF n, g
    <3> QED
      BY <1>1, <2>1, <2>2, NewRow DEF HopRow
  <2>4. /\ g.warm /\ g.sentEff = 0 /\ g.rcvdEff = 0 /\ Figures(g)
    BY <2>1, NewRow DEF NewHop, Figures
  <2> QED
    BY <1>2, <2>3, <2>4
<1>3. CASE ~(n = Warmup /\ ~h.warm)
  <2> DEFINE e == IF n > Warmup /\ h.warm THEN h.sentEff + 1 ELSE h.sentEff
  <2>1. g = [h EXCEPT !.sent = n, !.sentEff = e]
    BY <1>3 DEF OnSent
  <2>2. e \in Nat
    BY <1>1
  <2>3. g \in HopRow /\ g.sent = n /\ g.rcvd = h.rcvd
    BY <1>1, <2>1, <2>2 DEF HopRow
  <2>4. g.warm = h.warm /\ g.rcvdEff = h.rcvdEff /\ g.sentEff = e
    BY <2>1 DEF HopRow
  <2>5. Figures(h) => Figures(g)
    BY <2>1 DEF HopRow, Figures
  <2> QED
    BY <1>3, <2>3, <2>4, <2>5
<1> QED
  BY <1>2, <1>3

\* A probe that is sent.
LEMMA SentKeeps ==
  ASSUME NEW h, NEW o, NEW l, Sane(h, o, l), Counted(h, o, l), Figures(h)
  PROVE  LET n == h.sent + 1
             k == o \cup {n}
             m == IF n = Warmup THEN k ELSE l
         IN Sane(OnSent(h), k, m) /\ Counted(OnSent(h), k, m) /\ Figures(OnSent(h))
<1> DEFINE n == h.sent + 1
           k == o \cup {n}
           m == IF n = Warmup THEN k ELSE l
           g == OnSent(h)
           Past(S) == {i \in S : i > Warmup}
<1>1. h \in HopRow /\ o \subseteq 1..h.sent /\ l \subseteq 1..Warmup /\ h.rcvd + Cardinality(o) = h.sent
  BY DEF Sane
<1>2. /\ h.sent \in Nat /\ h.rcvd \in Nat /\ h.sentEff \in Nat /\ h.rcvdEff \in Nat /\ h.warm \in BOOLEAN
  BY <1>1, RowFields
<1>3. Warmup \in Nat /\ Warmup > 0
  BY ConstantsAssumption DEF ConstantsAssumption
<1>4. n \notin o /\ k \subseteq 1..n /\ n \in Nat
  <2>1. n \in Nat /\ \A i \in 1..h.sent : i # n /\ i \in 1..n
    BY <1>2
  <2>2. n \in 1..n
    BY <1>2
  <2> QED
    BY <1>1, <2>1, <2>2
<1>5. (n = Warmup => m = k) /\ (n # Warmup => m = l) /\ m \subseteq 1..Warmup
  BY <1>1, <1>4
<1>6. IsFiniteSet(o) /\ Cardinality(o) \in Nat /\ Cardinality(k) = Cardinality(o) + 1
  BY <1>1, <1>2, <1>4, PartOf, OneMore
<1>7. g \in HopRow /\ g.sent = n /\ g.rcvd = h.rcvd /\ Figures(g)
  BY <1>1, SentRow
<1>8. Sane(g, k, m)
  BY <1>1, <1>2, <1>4, <1>5, <1>6, <1>7 DEF Sane
<1>9. Counted(g, k, m)
  <2> DEFINE a == Cardinality(Past(o))
             b == Cardinality(l \ o)
  <2>1. /\ a + h.rcvdEff = h.sentEff + b
        /\ h.warm  => h.sent >= Warmup /\ h.sentEff = h.sent - Warmup /\ o \cap (1..Warmup) \subseteq l
        /\ ~h.warm => h.sent < Warmup /\ h.sentEff = 0 /\ h.rcvdEff = 0 /\ l = {}
    BY DEF Counted
  <2>2. SUFFICES /\ Cardinality(Past(k)) + g.rcvdEff = g.sentEff + Cardinality(m \ k)
                 /\ g.warm  => n >= Warmup /\ g.sentEff = n - Warmup /\ k \cap (1..Warmup) \subseteq m
                 /\ ~g.warm => n < Warmup /\ g.sentEff = 0 /\ g.rcvdEff = 0 /\ m = {}
    BY <1>7 DEF Counted
  <2>6. /\ n = Warmup /\ ~h.warm => g.warm /\ g.sentEff = 0 /\ g.rcvdEff = 0
        /\ ~(n = Warmup /\ ~h.warm) =>
             /\ g.warm = h.warm /\ g.rcvdEff = h.rcvdEff
             /\ g.sentEff = IF n > Warmup /\ h.warm THEN h.sentEff + 1 ELSE h.sentEff
    BY <1>1, SentRow
  <2>7. \A S : S = {} => Cardinality(S) = 0
    BY FS_EmptySet
  <2> HIDE DEF m, g
  <2>3. CASE n < Warmup
    <3>1. ~h.warm
      BY <1>2, <1>3, <2>1, <2>3
    <3>2. ~g.warm /\ g.sentEff = 0 /\ g.rcvdEff = 0 /\ m = {}
      BY <1>3, <1>4, <1>5, <2>1, <2>3, <2>6, <3>1
    <3>3. \A i \in k : ~(i > Warmup)
      BY <1>3, <1>4, <2>3
    <3>4. Past(k) = {} /\ m \ k = {}
      BY <3>2, <3>3
    <3> QED
      BY <2>3, <2>7, <3>2, <3>4
  <2>4. CASE n = Warmup
    <3>1. ~h.warm /\ m = k
      BY <1>2, <1>3, <1>5, <2>1, <2>4
    <3>2. g.warm /\ g.sentEff = 0 /\ g.rcvdEff = 0
      BY <2>4, <2>6, <3>1
    <3>3. \A i \in k : ~(i > Warmup)
      BY <1>3, <1>4, <2>4
    <3>4. Past(k) = {} /\ m \ k = {}
      BY <3>1, <3>3
    <3>5. n - Warmup = 0
      BY <1>3, <2>4
    <3> QED
      BY <1>3, <2>4, <2>7, <3>1, <3>2, <3>4, <3>5
  <2>5. CASE n > Warmup
    <3>1. h.warm /\ m = l
      BY <1>2, <1>3, <1>5, <2>1, <2>5
    <3>2. g.warm /\ g.sentEff = h.sentEff + 1 /\ g.rcvdEff = h.rcvdEff
      BY <1>3, <1>4, <2>5, <2>6, <3>1
    <3>3. n \notin 1..Warmup
      BY <1>3, <2>5
    <3>4. m \ k = l \ o /\ k \cap (1..Warmup) \subseteq l
      BY <1>1, <2>1, <3>1, <3>3
    <3>5. Past(k) = Past(o) \cup {n} /\ n \notin Past(o) /\ Past(o) \subseteq o
      BY <1>4, <2>5
    <3>6. Cardinality(Past(k)) = a + 1 /\ a \in Nat
      BY <1>6, <3>5, FS_Subset, FS_CardinalityType, OneMore
    <3>7. b \in Nat
      <4>1. l \ o \subseteq 1..Warmup
        BY <1>1
      <4> QED
        BY <1>3, <4>1, PartOf
    <3> HIDE DEF k, Past
    <3>8. n - Warmup = (h.sent - Warmup) + 1
      BY <1>2, <1>3
    <3>9. Cardinality(m \ k) = b
      BY <3>4
    <3>10. Cardinality(Past(k)) + g.rcvdEff = g.sentEff + Cardinality(m \ k)
      <4> HIDE DEF a, b
      <4> QED
        BY <1>2, <2>1, <3>2, <3>6, <3>7, <3>9
    <3> QED
      BY <1>2, <1>3, <1>4, <2>1, <2>5, <3>1, <3>2, <3>4, <3>8, <3>10
  <2> QED
    BY <1>3, <1>4, <2>3, <2>4, <2>5
<1> QED
  BY <1>7, <1>8, <1>9

\* The samples that are kept are some of the samples, and the last is kept.
LEMMA LastOf ==
  ASSUME NEW s \in Seq(Latency), NEW n \in Nat \ {0}, s # <<>>
  PROVE  /\ Last(s, n) \in Seq(Latency) /\ Last(s, n) # <<>>
         /\ \A j \in DOMAIN Last(s, n) : \E i \in DOMAIN s : Last(s, n)[j] = s[i]
<1>1. CASE Len(s) <= n
  BY <1>1 DEF Last
<1>2. CASE ~(Len(s) <= n)
  <2> DEFINE d == Len(s) - n
  <2>1. Len(s) \in Nat /\ d \in Nat /\ d + n = Len(s)
    BY <1>2
  <2>2. Last(s, n) = SubSeq(s, d + 1, Len(s))
    BY <1>2 DEF Last
  <2>3. Len(Last(s, n)) = n /\ \A j \in 1..n : Last(s, n)[j] = s[j + d] /\ j + d \in 1..Len(s)
    BY <2>1, <2>2
  <2>4. Last(s, n) \in Seq(Latency)
    BY <2>1, <2>2
  <2> QED
    BY <2>3, <2>4
<1> QED
  BY <1>1, <1>2

\* Sums stay between the least and the greatest times their number.
LEMMA Upto ==
  ASSUME NEW n \in Nat, NEW s \in Nat, NEW x \in Nat, NEW w \in Nat, NEW v \in Nat,
         s <= w * n, w <= v, x <= v
  PROVE  s + x <= v * (n + 1)
<1>1. w * n <= v * n
  OBVIOUS
<1>2. v * (n + 1) = v * n + v
  OBVIOUS
<1> QED
  BY <1>1, <1>2

LEMMA From ==
  ASSUME NEW n \in Nat, NEW s \in Nat, NEW x \in Nat, NEW b \in Nat, NEW c \in Nat,
         b * n <= s, c <= b, c <= x
  PROVE  c * (n + 1) <= s + x
<1>1. c * n <= b * n
  OBVIOUS
<1>2. c * (n + 1) = c * n + c
  OBVIOUS
<1> QED
  BY <1>1, <1>2

\* The best and the worst with one more reply.
LEMMA Extremes ==
  ASSUME NEW a \in Latency \cup {None}, NEW x \in Latency
  PROVE  /\ Lower(a, x) \in Latency /\ Lower(a, x) <= x /\ (a # None => Lower(a, x) <= a)
         /\ Higher(a, x) \in Latency /\ x <= Higher(a, x) /\ (a # None => a <= Higher(a, x))
         /\ (a # None => Abs(x - a) \in Nat)
<1>1. Latency \subseteq Nat /\ None \notin Latency
  BY ConstantsAssumption DEF ConstantsAssumption
<1>2. x \in Nat
  BY <1>1
<1>3. CASE a = None
  BY <1>2, <1>3 DEF Lower, Higher
<1>4. CASE a # None
  <2>1. a \in Latency /\ a \in Nat
    BY <1>1, <1>4
  <2> QED
    BY <1>2, <1>4, <2>1 DEF Lower, Higher, Abs
<1> QED
  BY <1>3, <1>4

\* What a reply changes of the row.
LEMMA ReplyRow ==
  ASSUME NEW h \in HopRow, NEW ms \in Latency, Figures(h)
  PROVE  LET g == OnReply(h, ms)
         IN /\ g \in HopRow /\ g.sent = h.sent /\ g.rcvd = h.rcvd + 1
            /\ g.sentEff = h.sentEff /\ g.warm = h.warm /\ Figures(g)
            /\ g.rcvdEff = IF h.warm THEN h.rcvdEff + 1 ELSE h.rcvdEff
<1> DEFINE g == OnReply(h, ms)
           n == h.rcvd + 1
           m == h.rcvdEff + 1
           b == Lower(h.best, ms)
           w == Higher(h.worst, ms)
           t == h.sum + ms
           s == Last(Append(h.samples, ms), SampleCap)
           js == IF h.prev = None THEN h.jitterSum ELSE h.jitterSum + Abs(ms - h.prev)
           jn == IF h.prev = None THEN h.jitterN ELSE h.jitterN + 1
<1>1. /\ h.rcvd \in Nat /\ h.rcvdEff \in Nat /\ h.sum \in Nat /\ h.jitterSum \in Nat /\ h.jitterN \in Nat
      /\ h.samples \in Seq(Latency) /\ {h.best, h.worst, h.prev} \subseteq Latency \cup {None}
  BY RowFields
<1>2. Latency \subseteq Nat /\ None \notin Latency /\ SampleCap \in Nat \ {0}
  BY ConstantsAssumption DEF ConstantsAssumption
<1>3. CASE ~h.warm
  <2>1. g = [h EXCEPT !.rcvd = n]
    BY <1>3 DEF OnReply
  <2>2. n \in Nat
    BY <1>1
  <2>3. g \in HopRow /\ g.sent = h.sent /\ g.rcvd = n /\ g.sentEff = h.sentEff /\ g.warm = h.warm
        /\ g.rcvdEff = h.rcvdEff
    BY <2>1, <2>2 DEF HopRow
  <2>4. Figures(g)
    BY <2>1 DEF HopRow, Figures
  <2> QED
    BY <1>3, <2>3, <2>4
<1>4. CASE h.warm
  <2>1. g = [h EXCEPT !.rcvd = n, !.rcvdEff = m, !.sum = t, !.best = b, !.worst = w,
                      !.samples = s, !.prev = ms, !.jitterSum = js, !.jitterN = jn]
    BY <1>4 DEF OnReply
  <2>2. n \in Nat /\ m \in Nat /\ t \in Nat /\ ms \in Nat
    BY <1>1, <1>2
  <2>3. {b, w} \subseteq Latency /\ b <= ms /\ ms <= w
    BY <1>1, Extremes
  <2>4. js \in Nat /\ jn \in Nat
    BY <1>1, Extremes
  <2>5. /\ Append(h.samples, ms) \in Seq(Latency) /\ Append(h.samples, ms) # <<>>
        /\ \A i \in DOMAIN Append(h.samples, ms) :
             Append(h.samples, ms)[i] = ms \/ \E j \in DOMAIN h.samples : Append(h.samples, ms)[i] = h.samples[j]
    BY <1>1
  <2>6. /\ s \in Seq(Latency) /\ s # <<>>
        /\ \A j \in DOMAIN s : s[j] = ms \/ \E i \in DOMAIN h.samples : s[j] = h.samples[i]
    <3> DEFINE q == Append(h.samples, ms)
    <3>1. /\ s \in Seq(Latency) /\ s # <<>>
          /\ \A j \in DOMAIN s : \E i \in DOMAIN q : s[j] = q[i]
      <4>1. q \in Seq(Latency) /\ q # <<>>
        BY <2>5
      <4>2. s = Last(q, SampleCap)
        OBVIOUS
      <4> HIDE DEF q, s
      <4> QED
        BY <1>2, <4>1, <4>2, LastOf
    <3> QED
      BY <2>5, <3>1
  <2> HIDE DEF g, n, m, t, b, w, s, js, jn
  <2>7. /\ g \in HopRow /\ g.sent = h.sent /\ g.rcvd = n /\ g.sentEff = h.sentEff
        /\ g.warm = h.warm /\ g.rcvdEff = m /\ g.sum = t /\ g.best = b /\ g.worst = w /\ g.samples = s
        /\ g.prev = ms /\ g.jitterSum = js /\ g.jitterN = jn
    BY <2>1, <2>2, <2>3, <2>4, <2>6 DEF HopRow, Number
  <2>8. /\ \A j \in DOMAIN s : b <= s[j] /\ s[j] <= w
        /\ b * m <= t /\ t <= w * m
        /\ jn = m - 1 /\ js <= jn * (w - b)
    <3>1. CASE h.rcvdEff = 0
      <4>1. h.best = None /\ h.worst = None /\ h.prev = None /\ h.samples = <<>>
            /\ h.sum = 0 /\ h.jitterSum = 0 /\ h.jitterN = 0
        BY <3>1 DEF Figures
      <4>2. b = ms /\ w = ms /\ m = 1 /\ t = ms /\ js = 0 /\ jn = 0
        BY <1>2, <2>2, <3>1, <4>1 DEF b, w, m, t, js, jn, Lower, Higher
      <4> QED
        BY <2>2, <2>6, <4>1, <4>2
    <3>2. CASE h.rcvdEff # 0
      <4>1. /\ {h.best, h.worst, h.prev} \subseteq Latency /\ h.best <= h.prev /\ h.prev <= h.worst
            /\ \A j \in DOMAIN h.samples : h.best <= h.samples[j] /\ h.samples[j] <= h.worst
            /\ h.best * h.rcvdEff <= h.sum /\ h.sum <= h.worst * h.rcvdEff
            /\ h.jitterN = h.rcvdEff - 1 /\ h.jitterSum <= h.jitterN * (h.worst - h.best)
        BY <3>2 DEF Figures
      <4>2. b <= h.best /\ h.worst <= w
        BY <1>2, <4>1, Extremes DEF b, w
      <4>3. h.best \in Nat /\ h.worst \in Nat /\ h.prev \in Nat /\ b \in Nat /\ w \in Nat
        BY <1>2, <2>3, <4>1
      <4>4. \A j \in DOMAIN s : b <= s[j] /\ s[j] <= w
        <5>1. \A i \in DOMAIN h.samples : h.samples[i] \in Nat
          <6>1. \A i \in DOMAIN h.samples : h.samples[i] \in Latency
            BY <1>1
          <6> QED
            BY <1>2, <6>1
        <5> QED
          BY <2>2, <2>3, <2>6, <4>1, <4>2, <4>3, <5>1
      <4>5. b * m <= t /\ t <= w * m
        BY <1>1, <2>2, <2>3, <4>1, <4>2, <4>3, Upto, From DEF m, t
      <4>6. jn = h.jitterN + 1 /\ jn = m - 1
        BY <1>1, <1>2, <4>1 DEF jn, m
      <4>7. js <= jn * (w - b)
        <5>1. js = h.jitterSum + Abs(ms - h.prev) /\ Abs(ms - h.prev) \in Nat /\ Abs(ms - h.prev) <= w - b
          BY <1>2, <2>2, <2>3, <4>1, <4>2, <4>3 DEF js, Abs
        <5>2. w - b \in Nat /\ h.worst - h.best \in Nat /\ h.worst - h.best <= w - b
          BY <4>1, <4>2, <4>3
        <5>3. h.jitterSum <= (h.worst - h.best) * h.jitterN
          BY <1>1, <4>1, <4>3
        <5>4. js <= (w - b) * (h.jitterN + 1)
          BY <1>1, <5>1, <5>2, <5>3, Upto
        <5> QED
          BY <1>1, <4>3, <4>6, <5>4
      <4> QED
        BY <4>4, <4>5, <4>6, <4>7
    <3> QED
      BY <3>1, <3>2
  <2>9. Figures(g)
    <3>1. m # 0
      BY <1>1 DEF m
    <3> QED
      BY <2>2, <2>3, <2>6, <2>7, <2>8, <3>1 DEF Figures
  <2> QED
    BY <1>4, <2>7, <2>9 DEF g, n, m
<1> QED
  BY <1>3, <1>4

\* A probe that is answered.
LEMMA ReplyKeeps ==
  ASSUME NEW h, NEW o, NEW l, Sane(h, o, l), Counted(h, o, l), Figures(h),
         NEW n \in o, NEW ms \in Latency
  PROVE  LET g == OnReply(h, ms)
         IN Sane(g, o \ {n}, l) /\ Counted(g, o \ {n}, l) /\ Figures(g)
<1> DEFINE g == OnReply(h, ms)
           k == o \ {n}
           Past(S) == {i \in S : i > Warmup}
<1>1. /\ h \in HopRow /\ o \subseteq 1..h.sent /\ l \subseteq 1..Warmup
      /\ h.rcvd + Cardinality(o) = h.sent
  BY DEF Sane
<1>2. /\ h.sent \in Nat /\ h.rcvd \in Nat /\ h.sentEff \in Nat /\ h.rcvdEff \in Nat
      /\ h.warm \in BOOLEAN
  BY <1>1, RowFields
<1>3. Warmup \in Nat /\ Warmup > 0 /\ n \in Nat /\ n >= 1 /\ n <= h.sent
  BY <1>1, <1>2, ConstantsAssumption DEF ConstantsAssumption
<1>4. /\ g \in HopRow /\ g.sent = h.sent /\ g.rcvd = h.rcvd + 1
      /\ g.sentEff = h.sentEff /\ g.warm = h.warm /\ Figures(g)
      /\ g.rcvdEff = IF h.warm THEN h.rcvdEff + 1 ELSE h.rcvdEff
  BY <1>1, ReplyRow
<1>5. IsFiniteSet(o) /\ Cardinality(o) \in Nat /\ Cardinality(k) = Cardinality(o) - 1
  <2>1. IsFiniteSet(o)
    BY <1>1, <1>2, PartOf
  <2> QED
    BY <2>1, FS_CardinalityType, FS_RemoveElement
<1> HIDE DEF g
<1>6. Sane(g, k, l)
  BY <1>1, <1>2, <1>4, <1>5 DEF Sane
<1>7. Counted(g, k, l)
  <2> DEFINE a == Cardinality(Past(o))
             b == Cardinality(l \ o)
  <2>1. /\ a + h.rcvdEff = h.sentEff + b
        /\ h.warm  => h.sent >= Warmup /\ h.sentEff = h.sent - Warmup /\ o \cap (1..Warmup) \subseteq l
        /\ ~h.warm => h.sent < Warmup /\ h.sentEff = 0 /\ h.rcvdEff = 0 /\ l = {}
    BY DEF Counted
  <2>2. SUFFICES Cardinality(Past(k)) + g.rcvdEff = h.sentEff + Cardinality(l \ k)
    BY <1>4, <2>1 DEF Counted
  <2>3. IsFiniteSet(Past(o)) /\ a \in Nat /\ IsFiniteSet(l \ o) /\ b \in Nat
    <3>1. Past(o) \subseteq o /\ l \ o \subseteq 1..Warmup
      BY <1>1
    <3> QED
      BY <1>3, <1>5, <3>1, FS_Subset, FS_CardinalityType, PartOf
  <2>4. CASE ~h.warm
    <3>1. \A i \in o : ~(i > Warmup)
      BY <1>1, <1>2, <1>3, <2>1, <2>4
    <3>2. Past(k) = Past(o) /\ l \ k = l \ o
      BY <2>1, <2>4, <3>1
    <3> QED
      BY <1>4, <2>1, <2>4, <3>2
  <2>5. CASE h.warm /\ n > Warmup
    <3>1. n \in Past(o) /\ Past(k) = Past(o) \ {n}
      BY <2>5
    <3>2. Cardinality(Past(k)) = a - 1
      BY <2>3, <3>1, FS_RemoveElement
    <3>3. n \notin 1..Warmup
      BY <1>3, <2>5
    <3>4. l \ k = l \ o
      BY <1>1, <3>3
    <3>5. Cardinality(l \ k) = b
      BY <3>4
    <3> HIDE DEF a, b, k, Past
    <3> QED
      BY <1>2, <1>4, <2>1, <2>3, <2>5, <3>2, <3>5
  <2>6. CASE h.warm /\ ~(n > Warmup)
    <3>1. n \in 1..Warmup
      BY <1>3, <2>6
    <3>2. n \in l /\ n \notin l \ o
      BY <2>1, <2>6, <3>1
    <3>3. l \ k = (l \ o) \cup {n}
      BY <3>2
    <3>4. Cardinality(l \ k) = b + 1
      BY <2>3, <3>2, <3>3, OneMore
    <3>5. Past(k) = Past(o)
      BY <2>6
    <3>6. Cardinality(Past(k)) = a
      BY <3>5
    <3> HIDE DEF a, b, k, Past
    <3> QED
      BY <1>2, <1>4, <2>1, <2>3, <2>6, <3>4, <3>6
  <2> QED
    BY <2>4, <2>5, <2>6
<1> QED
  BY <1>4, <1>6, <1>7 DEF g

-----------------------------------------------------------------------------
(* Percentiles. *)

\* Every rank of the samples has a value: of the samples that at least k do not
\* exceed, the least.
LEMMA RankedOf ==
  ASSUME NEW s \in Seq(Nat), NEW k \in 1..Len(s)
  PROVE  LET x == Ranked(s, k)
         IN /\ x \in {s[i] : i \in DOMAIN s}
            /\ Cardinality({i \in DOMAIN s : s[i] < x}) < k
            /\ k <= Cardinality({i \in DOMAIN s : s[i] <= x})
<1> DEFINE R == {s[i] : i \in DOMAIN s}
           Below(x) == {i \in DOMAIN s : s[i] < x}
           AtMost(x) == {i \in DOMAIN s : s[i] <= x}
           T == {x \in R : k <= Cardinality(AtMost(x))}
<1>1. /\ Len(s) \in Nat /\ DOMAIN s = 1..Len(s) /\ k \in Nat /\ 1 <= k /\ k <= Len(s)
      /\ \A i \in DOMAIN s : s[i] \in Nat
  OBVIOUS
<1>2. IsFiniteSet(DOMAIN s) /\ Cardinality(DOMAIN s) = Len(s)
  BY <1>1, FS_Interval
<1>3. R \subseteq Nat /\ IsFiniteSet(R)
  <2>1. R \subseteq Nat
    BY <1>1
  <2>2. IsFiniteSet(R)
    <3> DEFINE f == [i \in DOMAIN s |-> s[i]]
    <3>1. R = {f[i] : i \in DOMAIN s} /\ f \in [DOMAIN s -> R]
      OBVIOUS
    <3>2. R = {r \in R : \E i \in DOMAIN s : f[i] = r}
      OBVIOUS
    <3> HIDE DEF f, R
    <3> QED
      BY <1>2, <3>1, <3>2, FS_Surjection DEF Surjection
  <2> QED
    BY <2>1, <2>2
<1>4. \A S \in SUBSET DOMAIN s : IsFiniteSet(S) /\ Cardinality(S) \in Nat /\ Cardinality(S) <= Len(s)
  BY <1>2, FS_Subset, FS_CardinalityType
<1>5. T # {}
  <2>1. R # {}
    BY <1>1
  <2>2. PICK x \in R : \A y \in R : y <= x
    BY <1>3, <2>1, GreatestOf
  <2>3. AtMost(x) = DOMAIN s
    BY <2>2
  <2> QED
    BY <1>1, <1>2, <2>2, <2>3
<1>6. PICK x \in T : \A y \in T : x <= y
  <2>1. T \in SUBSET Nat
    BY <1>3
  <2> QED
    BY <1>5, <2>1, LeastOf
<1>7. Cardinality(Below(x)) < k
  <2> SUFFICES ASSUME k <= Cardinality(Below(x))
               PROVE  FALSE
    BY <1>1, <1>4
  <2> DEFINE B == {s[i] : i \in Below(x)}
  <2>1. Below(x) # {}
    <3>1. Below(x) = {} => Cardinality(Below(x)) = 0
      BY FS_EmptySet
    <3> HIDE DEF Below
    <3> QED
      BY <1>1, <3>1
  <2>2. B \subseteq Nat /\ IsFiniteSet(B) /\ B # {}
    <3>1. IsFiniteSet(Below(x))
      BY <1>4
    <3>2. B \subseteq R
      OBVIOUS
    <3> QED
      BY <1>3, <2>1, <3>2, FS_Subset
  <2>3. PICK y \in B : \A z \in B : z <= y
    BY <2>2, GreatestOf
  <2>4. y \in R /\ y < x
    BY <2>3
  <2>5. AtMost(y) = Below(x)
    BY <1>1, <1>3, <1>6, <2>3, <2>4
  <2>6. y \in T
    BY <2>4, <2>5
  <2>7. x <= y /\ x \in Nat /\ y \in Nat
    BY <1>3, <1>6, <2>4, <2>6
  <2> QED
    BY <2>4, <2>7
<1>8. x \in R /\ k <= Cardinality(AtMost(x))
  BY <1>6
<1> QED
  BY <1>7, <1>8 DEF Ranked

\* The ranks are in order.
LEMMA RanksRise ==
  ASSUME NEW s \in Seq(Nat), NEW k \in 1..Len(s), NEW m \in 1..Len(s), k <= m
  PROVE  Ranked(s, k) <= Ranked(s, m)
<1> DEFINE a == Ranked(s, k)
           b == Ranked(s, m)
           A == {i \in DOMAIN s : s[i] < a}
           B == {i \in DOMAIN s : s[i] <= b}
<1>1. /\ a \in {s[i] : i \in DOMAIN s} /\ Cardinality(A) < k
      /\ b \in {s[i] : i \in DOMAIN s} /\ m <= Cardinality(B)
  BY RankedOf
<1> HIDE DEF a, b
<1>2. a \in Nat /\ b \in Nat
  BY <1>1
<1> SUFFICES ASSUME b < a
             PROVE  FALSE
  BY <1>2 DEF a, b
<1>3. B \subseteq A
  BY <1>2
<1>4. IsFiniteSet(DOMAIN s)
  BY FS_Interval
<1>5. IsFiniteSet(A) /\ Cardinality(B) <= Cardinality(A) /\ Cardinality(A) \in Nat /\ Cardinality(B) \in Nat
  BY <1>3, <1>4, FS_Subset, FS_CardinalityType
<1> HIDE DEF A, B
<1> QED
  BY <1>1, <1>5

\* Division by a hundred.
LEMMA Hundreds ==
  ASSUME NEW k \in Nat
  PROVE  /\ k \div 100 \in Nat /\ k % 100 \in Nat /\ k % 100 < 100
         /\ k = 100 * (k \div 100) + (k % 100)
OBVIOUS

LEMMA Products ==
  ASSUME NEW x \in Nat, NEW y \in Nat, NEW z \in Nat, y <= z
  PROVE  x * y \in Nat /\ x * y <= x * z
OBVIOUS

\* A percentile lies between its two ranks, and a higher one is not lower.
LEMMA PctlOf ==
  ASSUME NEW h \in HopRow, h.samples # <<>>, NEW b \in Nat, NEW w \in Nat,
         \A j \in DOMAIN h.samples : b <= h.samples[j] /\ h.samples[j] <= w
  PROVE  100 * b <= Pctl(h, 95) /\ Pctl(h, 95) <= Pctl(h, 99) /\ Pctl(h, 99) <= 100 * w
<1> DEFINE s == h.samples
           n == Len(s) - 1
           k(p) == p * n
           f(p) == 1 + k(p) \div 100
           r(p) == k(p) % 100
           a(p) == Ranked(s, f(p))
           c(p) == Ranked(s, f(p) + 1)
<1>1. s \in Seq(Nat) /\ n \in Nat /\ Len(s) = n + 1 /\ Len(s) \in Nat
  <2>1. s \in Seq(Latency) /\ Latency \subseteq Nat
    BY RowFields, ConstantsAssumption DEF ConstantsAssumption
  <2>2. \A i \in 1..Len(s) : s[i] \in Nat
    <3>1. \A i \in 1..Len(s) : s[i] \in Latency
      BY <2>1
    <3> QED
      BY <2>1, <3>1
  <2>3. s \in Seq(Nat)
    BY <2>1, <2>2
  <2> QED
    BY <2>1, <2>3
<1>2. \A i \in 1..Len(s) : Ranked(s, i) \in Nat /\ b <= Ranked(s, i) /\ Ranked(s, i) <= w
  <2> TAKE i \in 1..Len(s)
  <2>1. Ranked(s, i) \in {s[j] : j \in DOMAIN s}
    BY <1>1, RankedOf
  <2>2. \A j \in DOMAIN s : s[j] \in Nat
    BY <1>1
  <2> QED
    BY <2>1, <2>2
<1>3. \A i, j \in 1..Len(s) : i <= j => Ranked(s, i) <= Ranked(s, j)
  BY <1>1, RanksRise
<1>4. ASSUME NEW p \in {95, 99}
      PROVE  /\ k(p) \in Nat /\ f(p) \in 1..Len(s) /\ r(p) \in Nat /\ r(p) < 100
             /\ k(p) = 100 * (f(p) - 1) + r(p)
             /\ (r(p) # 0 => f(p) + 1 \in 1..Len(s))
             /\ Pctl(h, p) = IF r(p) = 0 THEN 100 * a(p) ELSE 100 * a(p) + (c(p) - a(p)) * r(p)
  <2>1. k(p) \in Nat /\ k(p) <= 100 * n /\ p \in Nat /\ (n > 0 => k(p) < 100 * n)
    BY <1>1
  <2>2. Pctl(h, p) = IF r(p) = 0 THEN 100 * a(p) ELSE 100 * a(p) + (c(p) - a(p)) * r(p)
    BY DEF Pctl
  <2>3. /\ k(p) \div 100 \in Nat /\ r(p) \in Nat /\ r(p) < 100
        /\ k(p) = 100 * (k(p) \div 100) + r(p)
    BY <2>1, Hundreds
  <2>4. f(p) \in 1..Len(s) /\ (r(p) # 0 => f(p) + 1 \in 1..Len(s))
    <3> DEFINE q == k(p) \div 100
    <3>1. q \in Nat /\ f(p) = 1 + q
      BY <2>3
    <3>2. 100 * q + r(p) <= 100 * n
      BY <2>1, <2>3
    <3> HIDE DEF q, k, f, r
    <3>3. q <= n
      BY <1>1, <2>3, <3>1, <3>2
    <3>4. r(p) # 0 => q < n
      <4>1. q = n /\ r(p) # 0 => FALSE
        BY <1>1, <2>3, <3>1, <3>2
      <4> QED
        BY <1>1, <3>1, <3>3, <4>1
    <3> QED
      BY <1>1, <3>1, <3>3, <3>4
  <2>5. k(p) = 100 * (f(p) - 1) + r(p)
    <3> DEFINE q == k(p) \div 100
    <3> HIDE DEF k, r, q
    <3>1. f(p) = 1 + q
      BY DEF q
    <3> QED
      BY <2>1, <2>3, <3>1 DEF q
  <2> HIDE DEF k, f, r, a, c
  <2> QED
    BY <2>1, <2>2, <2>3, <2>4, <2>5
<1>5. ASSUME NEW p \in {95, 99}
      PROVE  /\ a(p) \in Nat /\ b <= a(p) /\ a(p) <= w
             /\ Pctl(h, p) \in Nat /\ 100 * a(p) <= Pctl(h, p) /\ Pctl(h, p) <= 100 * w
             /\ (r(p) # 0 => c(p) \in Nat /\ a(p) <= c(p) /\ Pctl(h, p) <= 100 * c(p))
  <2> HIDE DEF k, f, r
  <2>1. a(p) \in Nat /\ b <= a(p) /\ a(p) <= w
    BY <1>2, <1>4
  <2>2. r(p) # 0 => c(p) \in Nat /\ a(p) <= c(p) /\ c(p) <= w
    <3>1. f(p) \in 1..Len(s) /\ (r(p) # 0 => f(p) + 1 \in 1..Len(s)) /\ f(p) <= f(p) + 1
      BY <1>1, <1>4
    <3> QED
      BY <1>2, <1>3, <3>1
  <2> HIDE DEF a, c
  <2>3. CASE r(p) = 0
    BY <1>4, <2>1, <2>3
  <2>4. CASE r(p) # 0
    <3>1. Pctl(h, p) = 100 * a(p) + (c(p) - a(p)) * r(p)
      BY <1>4, <2>4
    <3>2. /\ (c(p) - a(p)) * r(p) \in Nat
          /\ (c(p) - a(p)) * r(p) <= (c(p) - a(p)) * 100
      <4>1. c(p) - a(p) \in Nat
        BY <2>1, <2>2, <2>4
      <4>2. r(p) \in Nat /\ r(p) <= 100
        BY <1>4
      <4> QED
        BY <4>1, <4>2, Products
    <3> QED
      BY <2>1, <2>2, <2>4, <3>1, <3>2
  <2> QED
    BY <2>3, <2>4
<1>6. Pctl(h, 95) <= Pctl(h, 99)
  <2>1. k(95) <= k(99)
    BY <1>1
  <2>2. f(95) <= f(99) /\ (f(95) = f(99) => r(95) <= r(99))
    <3> HIDE DEF k, f, r
    <3> QED
      BY <1>4, <2>1
  <2>3. CASE f(95) = f(99)
    <3>1. a(95) = a(99) /\ c(95) = c(99)
      BY <2>3
    <3>2. CASE r(95) = 0
      BY <1>4, <1>5, <3>1, <3>2
    <3>3. CASE r(95) # 0
      <4> HIDE DEF k, f, r, a, c
      <4>1. r(99) # 0
        BY <1>4, <2>2, <2>3, <3>3
      <4>2. c(95) - a(95) \in Nat /\ r(95) \in Nat /\ r(99) \in Nat /\ r(95) <= r(99)
        <5>1. c(95) \in Nat /\ a(95) \in Nat /\ a(95) <= c(95)
          BY <1>5, <3>3
        <5>2. r(95) \in Nat /\ r(99) \in Nat
          BY <1>4
        <5> QED
          BY <2>2, <2>3, <5>1, <5>2
      <4>3. (c(95) - a(95)) * r(95) <= (c(95) - a(95)) * r(99)
        BY <4>2, Products
      <4>4. /\ Pctl(h, 95) = 100 * a(95) + (c(95) - a(95)) * r(95)
            /\ Pctl(h, 99) = 100 * a(95) + (c(95) - a(95)) * r(99)
        BY <1>4, <3>1, <3>3, <4>1
      <4>5. 100 * a(95) \in Nat /\ (c(95) - a(95)) * r(95) \in Nat /\ (c(95) - a(95)) * r(99) \in Nat
        BY <1>5, <4>2
      <4> QED
        BY <4>3, <4>4, <4>5
    <3> QED
      BY <3>2, <3>3
  <2>4. CASE f(95) # f(99)
    <3>1. f(95) + 1 <= f(99) /\ f(95) + 1 \in 1..Len(s)
      <4>1. f(95) \in 1..Len(s) /\ f(99) \in 1..Len(s)
        BY <1>4
      <4> HIDE DEF k, f, r
      <4> QED
        BY <1>1, <2>2, <2>4, <4>1
    <3>2. c(95) <= a(99) /\ c(95) \in Nat /\ a(95) <= c(95)
      <4> HIDE DEF k, f, r
      <4> QED
        BY <1>1, <1>2, <1>3, <1>4, <3>1
    <3>3. Pctl(h, 95) <= 100 * c(95)
      <4> HIDE DEF k, f, r, a, c
      <4>1. CASE r(95) = 0
        BY <1>4, <1>5, <3>2, <4>1
      <4>2. CASE r(95) # 0
        BY <1>5, <4>2
      <4> QED
        BY <4>1, <4>2
    <3> HIDE DEF k, f, r, a, c
    <3> QED
      BY <1>5, <3>2, <3>3
  <2> QED
    BY <2>3, <2>4
<1>7. 100 * b <= Pctl(h, 95)
  <2> HIDE DEF k, f, r, a, c
  <2> QED
    BY <1>5
<1> QED
  BY <1>5, <1>6, <1>7

-----------------------------------------------------------------------------
(* The rows of all hops. *)

HopOK(i) ==
  Sane(At(i), open[i], late[i]) /\ Counted(At(i), open[i], late[i]) /\ Figures(At(i))

RowsOK ==
  /\ DOMAIN hops \subseteq Hop /\ IsFiniteSet(DOMAIN hops) /\ hops \in [DOMAIN hops -> HopRow]
  /\ open \in [Hop -> SUBSET Nat] /\ late \in [Hop -> SUBSET (1..Warmup)]
  /\ \A i \in Hop : HopOK(i)

LEMMA RowsAre == TypeOK /\ HopsInv => RowsOK
<1> SUFFICES ASSUME TypeOK, HopsInv
             PROVE  RowsOK
  OBVIOUS
<1>1. ASSUME NEW i \in Hop
      PROVE  At(i) \in HopRow
  BY NewRow DEF TypeOK, At
<1> QED
  BY <1>1 DEF TypeOK, HopsInv, RowsOK, HopOK, Sane

\* One row is replaced.
LEMMA PutKeeps ==
  ASSUME RowsOK, NEW i \in Hop, NEW h, NEW o, NEW l,
         Sane(h, o, l), Counted(h, o, l), Figures(h),
         Put(i, h), open' = [open EXCEPT ![i] = o], late' = [late EXCEPT ![i] = l]
  PROVE  RowsOK'
<1>1. h \in HopRow
  BY DEF Sane
<1>2. /\ DOMAIN hops' = DOMAIN hops \cup {i} /\ hops' \in [DOMAIN hops' -> HopRow]
      /\ \A j \in DOMAIN hops' : hops'[j] = IF j = i THEN h ELSE hops[j]
  BY <1>1 DEF RowsOK, Put
<1>3. DOMAIN hops' \subseteq Hop /\ IsFiniteSet(DOMAIN hops')
  BY <1>2, FS_AddElement DEF RowsOK
<1>6. open' \in [Hop -> SUBSET Nat] /\ late' \in [Hop -> SUBSET (1..Warmup)]
  <2>1. h.sent \in Nat /\ o \subseteq Nat /\ l \subseteq 1..Warmup
    BY <1>1, RowFields DEF Sane
  <2> QED
    BY <2>1 DEF RowsOK
<1>4. ASSUME NEW j \in Hop
      PROVE  /\ At(j)' = IF j = i THEN h ELSE At(j)
             /\ open'[j] = IF j = i THEN o ELSE open[j]
             /\ late'[j] = IF j = i THEN l ELSE late[j]
  BY <1>2 DEF At, RowsOK
<1>5. ASSUME NEW j \in Hop
      PROVE  HopOK(j)'
  <2>1. CASE j = i
    <3>1. At(j)' = h /\ open'[j] = o /\ late'[j] = l
      BY <1>4, <2>1
    <3> QED
      BY <3>1 DEF HopOK
  <2>2. CASE j # i
    <3>1. At(j)' = At(j) /\ open'[j] = open[j] /\ late'[j] = late[j]
      BY <1>4, <2>2
    <3>2. HopOK(j)
      BY DEF RowsOK
    <3> QED
      BY <3>1, <3>2 DEF HopOK
  <2> QED
    BY <2>1, <2>2
<1> QED
  BY <1>2, <1>3, <1>6, <1>5 DEF RowsOK

\* What a line of mtr does to the rows.
Lines == \E i \in Hop : \/ SentLine(i) \/ \E ip \in Ip : HostLine(i, ip)
                       \/ \E n \in open[i], ms \in Latency : ReplyLine(i, n, ms)

LEMMA RowsStep == RowsOK /\ Lines => RowsOK'
<1> SUFFICES ASSUME RowsOK, NEW i \in Hop,
                    \/ SentLine(i) \/ \E ip \in Ip : HostLine(i, ip)
                    \/ \E n \in open[i], ms \in Latency : ReplyLine(i, n, ms)
             PROVE  RowsOK'
  BY DEF Lines
<1>1. HopOK(i)
  BY DEF RowsOK
<1>2. ASSUME NEW ip \in Ip, HostLine(i, ip)
      PROVE  RowsOK'
  <2> DEFINE h == [At(i) EXCEPT !.ip = ip]
  <2>1. /\ h \in HopRow /\ Sane(h, open[i], late[i]) /\ Counted(h, open[i], late[i]) /\ Figures(h)
    <3>1. At(i) \in HopRow
      BY <1>1 DEF HopOK, Sane
    <3>2. h \in HopRow
      BY <3>1 DEF HopRow
    <3>3. \A f \in {"sent", "rcvd", "warm", "sentEff", "rcvdEff", "best", "worst", "sum", "samples",
                    "prev", "jitterSum", "jitterN"} : h[f] = At(i)[f]
      BY <3>1 DEF HopRow
    <3>4. /\ h.sent = At(i).sent /\ h.rcvd = At(i).rcvd /\ h.warm = At(i).warm
          /\ h.sentEff = At(i).sentEff /\ h.rcvdEff = At(i).rcvdEff
          /\ h.best = At(i).best /\ h.worst = At(i).worst /\ h.sum = At(i).sum
          /\ h.samples = At(i).samples /\ h.prev = At(i).prev
          /\ h.jitterSum = At(i).jitterSum /\ h.jitterN = At(i).jitterN
      BY <3>3
    <3> HIDE DEF h
    <3> QED
      BY <1>1, <3>2, <3>4 DEF HopOK, Sane, Counted, Figures
  <2>2. /\ Put(i, h) /\ open' = [open EXCEPT ![i] = open[i]] /\ late' = [late EXCEPT ![i] = late[i]]
    BY <1>2 DEF HostLine, RowsOK
  <2> HIDE DEF h
  <2> QED
    BY <2>1, <2>2, PutKeeps
<1>3. ASSUME SentLine(i)
      PROVE  RowsOK'
  <2> DEFINE n == At(i).sent + 1
             k == open[i] \cup {n}
             m == IF n = Warmup THEN k ELSE late[i]
  <2>1. Sane(OnSent(At(i)), k, m) /\ Counted(OnSent(At(i)), k, m) /\ Figures(OnSent(At(i)))
    BY <1>1, SentKeeps DEF HopOK
  <2>2. /\ Put(i, OnSent(At(i))) /\ open' = [open EXCEPT ![i] = k] /\ late' = [late EXCEPT ![i] = m]
    BY <1>3 DEF SentLine, RowsOK
  <2> HIDE DEF k, m
  <2> QED
    BY <2>1, <2>2, PutKeeps
<1>4. ASSUME NEW n \in open[i], NEW ms \in Latency, ReplyLine(i, n, ms)
      PROVE  RowsOK'
  <2> DEFINE k == open[i] \ {n}
  <2>1. /\ Sane(OnReply(At(i), ms), k, late[i]) /\ Counted(OnReply(At(i), ms), k, late[i])
        /\ Figures(OnReply(At(i), ms))
    BY <1>1, ReplyKeeps DEF HopOK
  <2>2. /\ Put(i, OnReply(At(i), ms)) /\ open' = [open EXCEPT ![i] = k]
        /\ late' = [late EXCEPT ![i] = late[i]]
    BY <1>4 DEF ReplyLine, RowsOK
  <2> HIDE DEF k
  <2> QED
    BY <2>1, <2>2, PutKeeps
<1> QED
  BY <1>2, <1>3, <1>4

-----------------------------------------------------------------------------
(* The run. *)

LEMMA InitInv == Init => IInv
<1> SUFFICES ASSUME Init
             PROVE  IInv
  OBVIOUS
<1>1. /\ DOMAIN hops = {} /\ hops = [i \in {} |-> NewHop]
      /\ open = [i \in Hop |-> {}] /\ late = [i \in Hop |-> {}]
  BY DEF Init
<1>2. \A i \in Hop : At(i) = NewHop
  BY <1>1 DEF At
<1>3. IsFiniteSet({}) /\ Cardinality({}) = 0
  BY FS_EmptySet
<1>4. TypeOK
  BY <1>1, <1>2, <1>3, NewRow DEF Init, TypeOK, Sane
<1>5. HopsInv
  BY <1>1, <1>2, NewRow DEF HopsInv
<1>6. EndInv
  BY DEF Init, EndInv
<1> QED
  BY <1>4, <1>5, <1>6 DEF IInv

LEMMA NextControl == TypeOK /\ [Next]_vars =>
  /\ at' \in {"open", "start", "greet", "loop", "term", "kill", "settle", "stop", "log", "pop", "closed"}
  /\ client' \in {"here", "gone"} /\ active' \in {"no", "running", "stopped"}
  /\ proc' \in {"none", "alive", "dead", "killed"} /\ mtr' \in {"none", "alive", "dead"}
BY DEF TypeOK, Next, Hello, Handle, Start, Greet, Terminate, Kill, Settle, Stop, WriteLog, Pop, Beat, Eof,
       Leave, Exit, Ended, SentLine, HostLine, ReplyLine, Line, Snapshot, Onward, vars, counts

LEMMA NextRows == RowsOK /\ [Next]_vars => RowsOK'
<1> SUFFICES ASSUME RowsOK, [Next]_vars
             PROVE  RowsOK'
  OBVIOUS
<1>1. CASE Lines
  BY <1>1, RowsStep
<1>2. CASE UNCHANGED counts
  BY <1>2 DEF RowsOK, HopOK, Sane, Counted, Figures, At, counts
<1> QED
  BY <1>1, <1>2 DEF Next, Lines, Hello, Handle, Start, Greet, Terminate, Kill, Settle, Stop, WriteLog, Pop,
                    Beat, Eof, Leave, Exit, vars, counts

LEMMA NextEnd == EndInv /\ [Next]_vars => EndInv'
<1> SUFFICES ASSUME EndInv, [Next]_vars
             PROVE  EndInv'
  OBVIOUS
<1>1. UNCHANGED hops => FinalHop(hops)' = FinalHop(hops)
  BY DEF FinalHop, Listed, PrevIp
<1>2. hops = <<>> => FinalHop(hops) = None
  BY DEF FinalHop, Listed
<1>3. CASE Lines
  BY <1>3 DEF EndInv, Lines, SentLine, HostLine, ReplyLine, Line, Snapshot, Onward
<1>4. CASE Hello
  BY <1>1, <1>2, <1>4 DEF EndInv, Hello, counts
<1>5. CASE Start \/ Greet \/ Terminate
  BY <1>1, <1>2, <1>5 DEF EndInv, Start, Greet, Terminate, Ended, Onward, counts
<1>6. CASE Kill \/ Settle
  BY <1>1, <1>6 DEF EndInv, Kill, Settle, counts
<1>7. CASE Stop \/ WriteLog \/ Pop
  BY <1>1, <1>7 DEF EndInv, Stop, WriteLog, Pop, counts
<1>8. CASE Beat \/ Eof \/ Leave \/ Exit
  BY <1>1, <1>8 DEF EndInv, Beat, Eof, Leave, Exit, Ended, Onward, counts
<1>9. CASE UNCHANGED vars
  BY <1>1, <1>9 DEF EndInv, vars, counts
<1> QED
  BY <1>3, <1>4, <1>5, <1>6, <1>7, <1>8, <1>9 DEF Next, Handle, Lines

\* The invariant: every probe is where the counts say, every figure lies between
\* best and worst, and what a stopped run shows is its last hop.
THEOREM Inductive == Spec => []IInv
<1>1. Init => IInv
  BY InitInv
<1>2. IInv /\ [Next]_vars => IInv'
  <2> SUFFICES ASSUME IInv, [Next]_vars
               PROVE  IInv'
    OBVIOUS
  <2>1. RowsOK
    BY RowsAre DEF IInv
  <2>2. RowsOK'
    BY <2>1, NextRows
  <2>3. HopsInv'
    BY <2>2 DEF RowsOK, HopOK, HopsInv
  <2>4. TypeOK'
    BY <2>2, NextControl DEF IInv, TypeOK, RowsOK, HopOK, Sane
  <2>5. EndInv'
    BY NextEnd DEF IInv
  <2> QED
    BY <2>3, <2>4, <2>5 DEF IInv
<1> QED
  BY <1>1, <1>2, PTL DEF Spec

\* Type correctness.
THEOREM TypeCorrect == Spec => []TypeOK
<1>1. IInv => TypeOK
  BY DEF IInv
<1> QED
  BY <1>1, Inductive, PTL

\* CountsHonest: the loss shown is what was lost after the warm-up, but for the probes
\* of the warm-up that were answered after it, and every figure lies where best and
\* worst put it, for every order of probes and replies and any number of samples kept.
THEOREM FiguresHonest == Spec => []CountsHonest
<1>1. IInv => CountsHonest
  <2> SUFFICES ASSUME IInv, NEW i \in DOMAIN hops
               PROVE  LET h == hops[i]
                          lost == Cardinality({n \in open[i] : n > Warmup})
                      IN /\ Lost(h) <= lost /\ lost <= Lost(h) + Cardinality(late[i] \ open[i])
                         /\ (h.rcvdEff = 0) = (h.best = None)
                         /\ h.rcvdEff > 0 =>
                              /\ h.best * h.rcvdEff <= h.sum /\ h.sum <= h.worst * h.rcvdEff
                              /\ 100 * h.best <= Pctl(h, 95) /\ Pctl(h, 95) <= Pctl(h, 99)
                              /\ Pctl(h, 99) <= 100 * h.worst
                              /\ h.jitterN = h.rcvdEff - 1 /\ h.jitterSum <= h.jitterN * (h.worst - h.best)
    BY DEF CountsHonest
  <2> DEFINE h == hops[i]
             a == Cardinality({n \in open[i] : n > Warmup})
             b == Cardinality(late[i] \ open[i])
  <2>1. i \in Hop /\ At(i) = h
    BY DEF IInv, TypeOK, At
  <2>2. Sane(h, open[i], late[i]) /\ Counted(h, open[i], late[i]) /\ Figures(h)
    BY <2>1, RowsAre DEF IInv, RowsOK, HopOK
  <2>3. /\ h \in HopRow /\ h.sent \in Nat /\ h.sentEff \in Nat /\ h.rcvdEff \in Nat
        /\ open[i] \subseteq 1..h.sent /\ late[i] \subseteq 1..Warmup /\ Warmup \in Nat
    BY <2>2, RowFields, ConstantsAssumption DEF Sane, ConstantsAssumption
  <2>4. a \in Nat /\ b \in Nat
    BY <2>3, PartOf
  <2>5. a + h.rcvdEff = h.sentEff + b
    BY <2>2 DEF Counted
  <2>6. Lost(h) <= a /\ a <= Lost(h) + b
    <3> HIDE DEF a, b, h
    <3> QED
      BY <2>3, <2>4, <2>5 DEF Lost
  <2>7. CASE h.rcvdEff = 0
    <3>1. h.best = None
      BY <2>2, <2>7 DEF Figures
    <3> QED
      BY <2>6, <2>7, <3>1
  <2>8. CASE h.rcvdEff # 0
    <3>1. /\ {h.best, h.worst, h.prev} \subseteq Latency /\ h.samples # <<>>
          /\ \A j \in DOMAIN h.samples : h.best <= h.samples[j] /\ h.samples[j] <= h.worst
          /\ h.best * h.rcvdEff <= h.sum /\ h.sum <= h.worst * h.rcvdEff
          /\ h.jitterN = h.rcvdEff - 1 /\ h.jitterSum <= h.jitterN * (h.worst - h.best)
      BY <2>2, <2>8 DEF Figures
    <3>2. h.best \in Nat /\ h.worst \in Nat /\ h.best # None
      BY <3>1, ConstantsAssumption DEF ConstantsAssumption
    <3>3. 100 * h.best <= Pctl(h, 95) /\ Pctl(h, 95) <= Pctl(h, 99) /\ Pctl(h, 99) <= 100 * h.worst
      BY <2>3, <3>1, <3>2, PctlOf
    <3> QED
      BY <2>6, <2>8, <3>1, <3>2, <3>3
  <2> QED
    BY <2>7, <2>8
<1> QED
  BY <1>1, Inductive, PTL

\* LogTellsRun: a line of the log tells of the last hop as it was at the end, what the
\* history lists was complete, and without sudo mtr is gone or has SIGKILL, wherever
\* browser, mtr or log fail.
THEOREM LogTells == Spec => []LogTellsRun
<1>1. IInv => LogTellsRun
  <2> SUFFICES ASSUME IInv, log # None
               PROVE  /\ at \in {"pop", "closed"} /\ log.final = FinalHop(hops)
                      /\ InHistory(log) => log.complete
    BY DEF LogTellsRun, IInv, EndInv
  <2>1. /\ at \in {"pop", "closed"} /\ log.final = FinalHop(hops)
        /\ log.complete = Complete(FinalHop(hops))
    BY DEF IInv, EndInv
  <2>2. InHistory(log) => log.complete
    <3> SUFFICES ASSUME InHistory(log)
                 PROVE  FinalHop(hops).snt > 0
      BY <2>1 DEF InHistory, Complete
    <3> DEFINE f == FinalHop(hops)
    <3>1. f # None /\ f.sntEff > 0
      BY <2>1 DEF InHistory
    <3>2. Listed(hops) # {} /\ Listed(hops) \subseteq DOMAIN hops
      BY <3>1 DEF FinalHop, Listed
    <3>3. IsFiniteSet(Listed(hops)) /\ Listed(hops) \subseteq Nat
      BY <3>2, FS_Subset, ConstantsAssumption DEF IInv, TypeOK, ConstantsAssumption
    <3>4. PICK i \in Listed(hops) : f.snt = hops[i].sent /\ f.sntEff = hops[i].sentEff
      <4>1. \E i \in Listed(hops) : \A j \in Listed(hops) : j <= i
        BY <3>2, <3>3, GreatestOf
      <4> QED
        BY <3>2, <4>1 DEF FinalHop
    <3>5. i \in Hop /\ At(i) = hops[i]
      BY <3>2, <3>4 DEF IInv, TypeOK, At
    <3>6. Sane(hops[i], open[i], late[i]) /\ Counted(hops[i], open[i], late[i])
      BY <3>5, RowsAre DEF IInv, RowsOK, HopOK
    <3>7. hops[i].sent \in Nat /\ hops[i].sentEff \in Nat /\ hops[i].warm \in BOOLEAN /\ Warmup \in Nat
      BY <3>6, RowFields, ConstantsAssumption DEF Sane, ConstantsAssumption
    <3> QED
      BY <3>1, <3>4, <3>6, <3>7 DEF Counted
  <2> QED
    BY <2>1, <2>2
<1> QED
  BY <1>1, Inductive, PTL
================================================================================
