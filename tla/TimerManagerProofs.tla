---- MODULE TimerManagerProofs ----
(***************************************************************************)
(* For every number of timers, every clock and every set of delays and     *)
(* periods: the two maps agree with each other and with the batch that is  *)
(* being run, timers wait in the order they should, poll(2) never sleeps   *)
(* past the earliest of them, periods are kept, and the manager implements *)
(* TimerLife.                                                              *)
(***************************************************************************)
EXTENDS TimerManager, SequenceTheorems, FiniteSetTheorems, TLAPS

----------------------------------------------------------------------------
\* Sequences with an element more or less

\* InsertAt, element by element.
LEMMA InsertFacts ==
  ASSUME NEW S, NEW s \in Seq(S), NEW e \in S, NEW p \in 1..(Len(s) + 1)
  PROVE  /\ InsertAt(s, p, e) \in Seq(S)
         /\ Len(InsertAt(s, p, e)) = Len(s) + 1
         /\ \A j \in 1..(Len(s) + 1) :
              InsertAt(s, p, e)[j]
                = IF j < p THEN s[j] ELSE IF j = p THEN e ELSE s[j - 1]
<1> DEFINE n == Len(s)
           front == SubSeq(s, 1, p - 1)
           back == SubSeq(s, p, n)
           head == front \o <<e>>
<1>1. n \in Nat /\ p \in Nat /\ 1 <= p /\ p <= n + 1
  BY LenProperties
<1>2. /\ front \in Seq(S) /\ Len(front) = p - 1
      /\ \A j \in 1..(p - 1) : front[j] = s[j]
  <2>1. \A j \in 1..(p - 1) : s[j] \in S
    BY <1>1, ElementOfSeq
  <2>2. /\ front \in Seq(S)
        /\ Len(front) = IF 1 <= p - 1 THEN (p - 1) - 1 + 1 ELSE 0
        /\ \A j \in 1..((p - 1) - 1 + 1) : front[j] = s[1 + j - 1]
    BY <1>1, <2>1, SubSeqProperties
  <2>3. (p - 1) - 1 + 1 = p - 1 /\ \A j \in 1..(p - 1) : 1 + j - 1 = j
    BY <1>1
  <2> HIDE DEF front
  <2> QED
    BY <1>1, <2>2, <2>3
<1>3. /\ back \in Seq(S) /\ Len(back) = n - p + 1
      /\ \A j \in 1..(n - p + 1) : back[j] = s[p + j - 1]
  <2>1. \A j \in p..n : s[j] \in S
    BY <1>1, ElementOfSeq
  <2>2. /\ back \in Seq(S)
        /\ Len(back) = IF p <= n THEN n - p + 1 ELSE 0
        /\ \A j \in 1..(n - p + 1) : back[j] = s[p + j - 1]
    BY <1>1, <2>1, SubSeqProperties
  <2> HIDE DEF back
  <2> QED
    BY <1>1, <2>2
<1>4. <<e>> \in Seq(S) /\ Len(<<e>>) = 1 /\ <<e>>[1] = e
  OBVIOUS
<1> HIDE DEF n, front, back
<1>5. /\ head \in Seq(S) /\ Len(head) = p
      /\ \A j \in 1..p : head[j] = IF j <= p - 1 THEN s[j] ELSE e
  <2>1. /\ head \in Seq(S) /\ Len(head) = (p - 1) + 1
        /\ \A j \in 1..((p - 1) + 1) :
             head[j] = IF j <= p - 1 THEN front[j] ELSE <<e>>[j - (p - 1)]
    BY <1>2, <1>4, ConcatProperties
  <2>2. (p - 1) + 1 = p
    BY <1>1
  <2> HIDE DEF head
  <2>3. ASSUME NEW j \in 1..p
        PROVE  head[j] = IF j <= p - 1 THEN s[j] ELSE e
    <3>1. CASE j <= p - 1
      BY <1>1, <1>2, <2>1, <2>2, <3>1
    <3>2. CASE ~(j <= p - 1)
      <4>1. j - (p - 1) = 1
        BY <1>1, <3>2
      <4> QED
        BY <1>4, <2>1, <2>2, <3>2, <4>1
    <3> QED
      BY <3>1, <3>2
  <2> QED
    BY <2>1, <2>2, <2>3
<1>6. InsertAt(s, p, e) = head \o back
  BY DEF InsertAt, front, back, n
<1> HIDE DEF head
<1>7. /\ head \o back \in Seq(S) /\ Len(head \o back) = p + (n - p + 1)
      /\ \A j \in 1..(p + (n - p + 1)) :
           (head \o back)[j] = IF j <= p THEN head[j] ELSE back[j - p]
  <2>1. head \in Seq(S) /\ back \in Seq(S)
    BY <1>3, <1>5
  <2>2. /\ head \o back \in Seq(S) /\ Len(head \o back) = Len(head) + Len(back)
        /\ \A j \in 1..(Len(head) + Len(back)) :
             (head \o back)[j] = IF j <= Len(head) THEN head[j]
                                ELSE back[j - Len(head)]
    BY <2>1, ConcatProperties
  <2>3. Len(head) = p /\ Len(back) = n - p + 1
    BY <1>3, <1>5
  <2> QED
    BY <2>2, <2>3, Zenon
<1>8. p + (n - p + 1) = n + 1
  BY <1>1
<1> DEFINE r == InsertAt(s, p, e)
<1>9. /\ r \in Seq(S) /\ Len(r) = n + 1
      /\ \A j \in 1..(n + 1) : r[j] = IF j <= p THEN head[j] ELSE back[j - p]
  BY <1>6, <1>7, <1>8
<1> HIDE DEF r
<1>10. ASSUME NEW j \in 1..(n + 1)
       PROVE  r[j] = IF j < p THEN s[j] ELSE IF j = p THEN e ELSE s[j - 1]
  <2>1. CASE j < p
    <3>1. j \in 1..p /\ j <= p - 1 /\ j <= p
      BY <1>1, <2>1
    <3> QED
      BY <1>5, <1>9, <2>1, <3>1
  <2>2. CASE j = p
    <3>1. j \in 1..p /\ ~(j <= p - 1) /\ j <= p /\ ~(j < p)
      BY <1>1, <2>2
    <3> QED
      BY <1>5, <1>9, <2>2, <3>1
  <2>3. CASE j > p
    <3>1. j - p \in 1..(n - p + 1) /\ p + (j - p) - 1 = j - 1
          /\ ~(j <= p) /\ ~(j < p) /\ j # p
      BY <1>1, <2>3
    <3> QED
      BY <1>3, <1>9, <3>1
  <2> QED
    BY <1>1, <2>1, <2>2, <2>3
<1> QED
  BY <1>9, <1>10 DEF r, n

\* The rest of a sequence, element by element.
LEMMA RestFacts ==
  ASSUME NEW S, NEW s \in Seq(S), NEW d \in 0..Len(s)
  PROVE  /\ SubSeq(s, d + 1, Len(s)) \in Seq(S)
         /\ Len(SubSeq(s, d + 1, Len(s))) = Len(s) - d
         /\ \A j \in 1..(Len(s) - d) : SubSeq(s, d + 1, Len(s))[j] = s[d + j]
<1> DEFINE n == Len(s)
           r == SubSeq(s, d + 1, n)
<1>1. n \in Nat /\ d \in Nat /\ d <= n
  BY LenProperties
<1>2. \A j \in (d + 1)..n : s[j] \in S
  BY <1>1, ElementOfSeq
<1>3. /\ r \in Seq(S)
      /\ Len(r) = IF d + 1 <= n THEN n - (d + 1) + 1 ELSE 0
      /\ \A j \in 1..(n - (d + 1) + 1) : r[j] = s[(d + 1) + j - 1]
  BY <1>1, <1>2, SubSeqProperties
<1>4. n - (d + 1) + 1 = n - d /\ \A j \in 1..(n - d) : (d + 1) + j - 1 = d + j
  BY <1>1
<1> HIDE DEF n, r
<1> QED
  BY <1>1, <1>3, <1>4 DEF n, r

\* RemoveAt, element by element.
LEMMA RemoveFacts ==
  ASSUME NEW S, NEW s \in Seq(S), NEW p \in 1..Len(s)
  PROVE  /\ RemoveAt(s, p) \in Seq(S)
         /\ Len(RemoveAt(s, p)) = Len(s) - 1
         /\ \A j \in 1..(Len(s) - 1) :
              RemoveAt(s, p)[j] = IF j < p THEN s[j] ELSE s[j + 1]
<1> DEFINE n == Len(s)
           front == SubSeq(s, 1, p - 1)
           back == SubSeq(s, p + 1, n)
           r == RemoveAt(s, p)
<1>1. n \in Nat /\ p \in Nat /\ 1 <= p /\ p <= n
  BY LenProperties
<1>2. /\ front \in Seq(S) /\ Len(front) = p - 1
      /\ \A j \in 1..(p - 1) : front[j] = s[j]
  <2>1. \A j \in 1..(p - 1) : s[j] \in S
    BY <1>1, ElementOfSeq
  <2>2. /\ front \in Seq(S)
        /\ Len(front) = IF 1 <= p - 1 THEN (p - 1) - 1 + 1 ELSE 0
        /\ \A j \in 1..((p - 1) - 1 + 1) : front[j] = s[1 + j - 1]
    BY <1>1, <2>1, SubSeqProperties
  <2>3. (p - 1) - 1 + 1 = p - 1 /\ \A j \in 1..(p - 1) : 1 + j - 1 = j
    BY <1>1
  <2> HIDE DEF front
  <2> QED
    BY <1>1, <2>2, <2>3
<1>3. /\ back \in Seq(S) /\ Len(back) = n - p
      /\ \A j \in 1..(n - p) : back[j] = s[p + j]
  BY <1>1, RestFacts
<1>4. r = front \o back
  BY DEF RemoveAt
<1> HIDE DEF n, front, back, r
<1>5. /\ r \in Seq(S) /\ Len(r) = (p - 1) + (n - p)
      /\ \A j \in 1..((p - 1) + (n - p)) :
           r[j] = IF j <= p - 1 THEN front[j] ELSE back[j - (p - 1)]
  <2>1. /\ front \o back \in Seq(S)
        /\ Len(front \o back) = Len(front) + Len(back)
        /\ \A j \in 1..(Len(front) + Len(back)) :
             (front \o back)[j] = IF j <= Len(front) THEN front[j]
                                 ELSE back[j - Len(front)]
    BY <1>2, <1>3, ConcatProperties
  <2>2. Len(front) = p - 1 /\ Len(back) = n - p
    BY <1>2, <1>3
  <2> QED
    BY <1>4, <2>1, <2>2, Zenon
<1>6. (p - 1) + (n - p) = n - 1
  BY <1>1
<1>7. ASSUME NEW j \in 1..(n - 1)
      PROVE  r[j] = IF j < p THEN s[j] ELSE s[j + 1]
  <2>1. CASE j < p
    <3>1. j \in 1..(p - 1) /\ j <= p - 1
      BY <1>1, <2>1
    <3> QED
      BY <1>2, <1>5, <1>6, <2>1, <3>1
  <2>2. CASE ~(j < p)
    <3>1. j - (p - 1) \in 1..(n - p) /\ ~(j <= p - 1) /\ p + (j - (p - 1)) = j + 1
      BY <1>1, <2>2
    <3> QED
      BY <1>3, <1>5, <1>6, <2>2, <3>1
  <2> QED
    BY <2>1, <2>2
<1> QED
  BY <1>5, <1>6, <1>7 DEF r, n

----------------------------------------------------------------------------
\* Counting an initial segment

\* A set of positions that contains all positions before its members ends
\* where its cardinality says.
LEMMA SegmentCount ==
  ASSUME NEW n \in Nat, NEW K \in SUBSET (1..n),
         \A i \in K : \A j \in 1..i : j \in K
  PROVE  /\ Cardinality(K) \in 0..n
         /\ \A i \in 1..n : i \in K <=> i <= Cardinality(K)
<1> DEFINE c == Cardinality(K)
<1>1. IsFiniteSet(1..n) /\ Cardinality(1..n) = n
  BY FS_Interval
<1>2. IsFiniteSet(K) /\ c <= n
  <2>1. IsFiniteSet(K) /\ Cardinality(K) <= Cardinality(1..n)
    BY <1>1, FS_Subset, Zenon
  <2> QED
    BY <1>1, <2>1
<1>3. c \in Nat
  BY <1>2, FS_CardinalityType
<1>4. ASSUME NEW i \in 1..n, i \in K
      PROVE  i <= c
  <2>1. (1..i) \in SUBSET K
    BY <1>4
  <2>2. Cardinality(1..i) = i
    BY FS_Interval
  <2> QED
    BY <1>2, <2>1, <2>2, FS_Subset
<1>5. ASSUME NEW i \in 1..n, i \notin K
      PROVE  c < i
  <2>1. K \in SUBSET (1..(i - 1))
    <3>1. ASSUME NEW j \in K
          PROVE  j \in 1..(i - 1)
      <4>1. ~(i \in 1..j)
        BY <1>5
      <4> QED
        BY <4>1
    <3> QED
      BY <3>1
  <2>2. IsFiniteSet(1..(i - 1)) /\ Cardinality(1..(i - 1)) = i - 1
    BY FS_Interval
  <2>3. c <= i - 1
    BY <2>1, <2>2, FS_Subset
  <2> QED
    BY <1>3, <2>3
<1>6. \A i \in 1..n : i \in K <=> i <= c
  BY <1>3, <1>4, <1>5
<1> QED
  BY <1>2, <1>3, <1>6

----------------------------------------------------------------------------
\* The invariant

\* The map m holds the timers ts, each once and under its expiry.
AgreeOn(m, ts, expiry) ==
  /\ {m[i].timer : i \in DOMAIN m} = ts
  /\ \A i, j \in DOMAIN m : m[i].timer = m[j].timer => i = j
  /\ \A i \in DOMAIN m : m[i].when = expiry[m[i].timer]

\* The map m is in the order FirstComeFirstServed asks for.
Before(x, y, period) ==
  /\ x.when <= y.when
  /\ x.when = y.when /\ period[x.timer] = 0 /\ period[y.timer] = 0
       => x.timer < y.timer

Ordered(m, period) ==
  \A i, j \in DOMAIN m : i < j => Before(m[i], m[j], period)

\* Only ids that were handed out are in use.
IdsHandedOut ==
  /\ \A t \in active : t < nextId
  /\ \A i \in DOMAIN batch : batch[i] < nextId
  /\ \A t \in Timer : t >= nextId => interval[t] = 0

\* The batch lives as long as DoExpiredTimers does.
BatchIsLocal == phase \notin {"batch", "reset"} => batch = <<>>

\* What Reset has passed by and must be armed again is armed.
ResetSoFar ==
  phase = "reset" =>
    \A i \in DOMAIN batch : i <= pos /\ ToRearm(batch[i]) => batch[i] \in active

\* No timer is in the batch twice, or armed again before Reset came to it.
BatchApart ==
  /\ IsInjective(batch)
  /\ \A i \in DOMAIN batch :
       batch[i] \in active => phase = "reset" /\ i <= pos

IInv ==
  /\ TypeOK
  /\ AgreeOn(timerMap, active, expires)
  /\ Ordered(timerMap, interval)
  /\ BatchApart
  /\ IdsHandedOut
  /\ BatchIsLocal
  /\ ResetSoFar

MapEntry == [when : Nat, timer : Timer]

\* In a sorted map the upper bound of a key separates the entries that are
\* not after it from the entries that are.
LEMMA UpperBoundSplits ==
  ASSUME timerMap \in Seq(MapEntry), Ordered(timerMap, interval), NEW w \in Nat
  PROVE  /\ UpperBound(w) \in 1..(Len(timerMap) + 1)
         /\ \A j \in 1..Len(timerMap) :
              j < UpperBound(w) <=> timerMap[j].when <= w
<1> DEFINE n == Len(timerMap)
           K == {i \in 1..n : timerMap[i].when <= w}
<1>1. n \in Nat /\ DOMAIN timerMap = 1..n
  BY LenProperties
<1>2. \A i \in 1..n : timerMap[i] \in MapEntry
  BY <1>1, ElementOfSeq
<1>3. ASSUME NEW i \in K, NEW j \in 1..i
      PROVE  j \in K
  <2>1. i \in 1..n /\ j \in 1..n /\ (j < i \/ j = i)
    BY <1>1
  <2>2. timerMap[j].when <= timerMap[i].when
    BY <1>1, <1>2, <2>1 DEF Ordered, Before, MapEntry
  <2> QED
    BY <1>2, <2>1, <2>2 DEF MapEntry
<1>4. K \in SUBSET (1..n)
  OBVIOUS
<1> HIDE DEF n, K
<1>5. /\ Cardinality(K) \in 0..n
      /\ \A i \in 1..n : i \in K <=> i <= Cardinality(K)
  BY <1>1, <1>3, <1>4, SegmentCount
<1>6. UpperBound(w) = Cardinality(K) + 1
  BY <1>1 DEF UpperBound, K
<1>7. \A i \in 1..n : i \in K <=> timerMap[i].when <= w
  BY DEF K
<1>8. /\ UpperBound(w) \in 1..(n + 1)
      /\ \A j \in 1..n : j < UpperBound(w) <=> timerMap[j].when <= w
  BY <1>1, <1>5, <1>6, <1>7
<1> QED
  BY <1>8 DEF n

\* A new entry goes after the entries that are not after it.
LEMMA EmplacedShape ==
  ASSUME timerMap \in Seq(MapEntry), Ordered(timerMap, interval),
         NEW w \in Nat, NEW t \in Timer
  PROVE  /\ Emplaced(w, t) \in Seq(MapEntry)
         /\ Len(Emplaced(w, t)) = Len(timerMap) + 1
         /\ \A j \in 1..(Len(timerMap) + 1) :
              Emplaced(w, t)[j]
                = IF j < UpperBound(w) THEN timerMap[j]
                  ELSE IF j = UpperBound(w) THEN Entry(w, t)
                  ELSE timerMap[j - 1]
<1> DEFINE p == UpperBound(w)
           e == Entry(w, t)
<1>1. p \in 1..(Len(timerMap) + 1)
  BY UpperBoundSplits
<1>2. e \in MapEntry
  BY DEF Entry, MapEntry
<1>3. Emplaced(w, t) = InsertAt(timerMap, p, e)
  BY DEF Emplaced
<1> HIDE DEF p, e
<1>4. /\ InsertAt(timerMap, p, e) \in Seq(MapEntry)
      /\ Len(InsertAt(timerMap, p, e)) = Len(timerMap) + 1
      /\ \A j \in 1..(Len(timerMap) + 1) :
           InsertAt(timerMap, p, e)[j]
             = IF j < p THEN timerMap[j] ELSE IF j = p THEN e ELSE timerMap[j - 1]
  BY <1>1, <1>2, InsertFacts
<1> QED
  BY <1>3, <1>4 DEF p, e

\* An entry for a timer that is not in the map joins the others.
LEMMA EmplacedAgrees ==
  ASSUME timerMap \in Seq(MapEntry), Ordered(timerMap, interval),
         expires \in [Timer -> Nat], AgreeOn(timerMap, active, expires),
         NEW w \in Nat, NEW t \in Timer, t \notin active
  PROVE  /\ Emplaced(w, t) \in Seq(MapEntry)
         /\ AgreeOn(Emplaced(w, t), active \cup {t}, [expires EXCEPT ![t] = w])
<1> DEFINE n == Len(timerMap)
           p == UpperBound(w)
           e == Entry(w, t)
           m == Emplaced(w, t)
           ex == [expires EXCEPT ![t] = w]
<1>1. n \in Nat /\ DOMAIN timerMap = 1..n
  BY LenProperties
<1>2. \A i \in 1..n : timerMap[i] \in MapEntry
  BY <1>1, ElementOfSeq
<1>3. p \in 1..(n + 1)
  BY UpperBoundSplits
<1>4. e \in MapEntry /\ e.when = w /\ e.timer = t
  BY DEF Entry, MapEntry
<1>5. /\ m \in Seq(MapEntry) /\ Len(m) = n + 1
      /\ \A j \in 1..(n + 1) :
           m[j] = IF j < p THEN timerMap[j] ELSE IF j = p THEN e ELSE timerMap[j - 1]
  BY EmplacedShape
<1> HIDE DEF n, p, e, m
<1>6. DOMAIN m = 1..(n + 1)
  BY <1>5, LenProperties
<1>7. ASSUME NEW j \in 1..(n + 1)
      PROVE  \/ j < p /\ j \in 1..n /\ m[j] = timerMap[j]
             \/ j = p /\ m[j] = e
             \/ j > p /\ j - 1 \in 1..n /\ m[j] = timerMap[j - 1]
  BY <1>1, <1>3, <1>5
<1>8. \A i \in 1..n : timerMap[i].timer \in active
  BY <1>1 DEF AgreeOn
<1>9. {m[j].timer : j \in 1..(n + 1)} = active \cup {t}
  <2>1. ASSUME NEW j \in 1..(n + 1)
        PROVE  m[j].timer \in active \cup {t}
    BY <1>4, <1>7, <1>8
  <2>2. t \in {m[j].timer : j \in 1..(n + 1)}
    BY <1>3, <1>4, <1>5
  <2>3. ASSUME NEW u \in active
        PROVE  u \in {m[j].timer : j \in 1..(n + 1)}
    <3>1. PICK i \in 1..n : timerMap[i].timer = u
      BY <1>1 DEF AgreeOn
    <3>2. CASE i < p
      BY <1>1, <1>5, <3>1, <3>2
    <3>3. CASE ~(i < p)
      <4>1. i + 1 \in 1..(n + 1) /\ ~(i + 1 < p) /\ i + 1 # p /\ (i + 1) - 1 = i
        BY <1>1, <1>3, <3>3
      <4>2. m[i + 1] = timerMap[i]
        BY <1>5, <4>1
      <4> QED
        BY <3>1, <4>1, <4>2
    <3> QED
      BY <3>2, <3>3
  <2> QED
    BY <2>1, <2>2, <2>3
<1>10. ASSUME NEW i \in 1..(n + 1), NEW j \in 1..(n + 1), m[i].timer = m[j].timer
       PROVE  i = j
  <2>1. \A k, l \in 1..n : timerMap[k].timer = timerMap[l].timer => k = l
    BY <1>1 DEF AgreeOn
  <2>2. \A k \in 1..n : timerMap[k].timer # t
    BY <1>8
  <2>3. /\ \/ i < p /\ i \in 1..n /\ m[i] = timerMap[i]
           \/ i = p /\ m[i] = e
           \/ i > p /\ i - 1 \in 1..n /\ m[i] = timerMap[i - 1]
        /\ \/ j < p /\ j \in 1..n /\ m[j] = timerMap[j]
           \/ j = p /\ m[j] = e
           \/ j > p /\ j - 1 \in 1..n /\ m[j] = timerMap[j - 1]
    BY <1>7
  <2> QED
    BY <1>1, <1>3, <1>4, <1>10, <2>1, <2>2, <2>3
<1>11. ASSUME NEW j \in 1..(n + 1)
       PROVE  m[j].when = ex[m[j].timer]
  <2>1. \A i \in 1..n : timerMap[i].when = ex[timerMap[i].timer]
    <3>1. ASSUME NEW i \in 1..n
          PROVE  timerMap[i].when = ex[timerMap[i].timer]
      <4>1. timerMap[i].when = expires[timerMap[i].timer]
        BY <1>1 DEF AgreeOn
      <4>2. timerMap[i].timer \in Timer /\ timerMap[i].timer # t
        BY <1>2, <1>8 DEF MapEntry
      <4> QED
        BY <4>1, <4>2
    <3> QED
      BY <3>1
  <2>2. ex[t] = w
    OBVIOUS
  <2> HIDE DEF ex
  <2> QED
    BY <1>4, <1>7, <2>1, <2>2
<1> QED
  BY <1>5, <1>6, <1>9, <1>10, <1>11 DEF m, AgreeOn

\* An entry that repeats, or is younger than all others, keeps the order.
LEMMA EmplacedInOrder ==
  ASSUME timerMap \in Seq(MapEntry), Ordered(timerMap, interval),
         AgreeOn(timerMap, active, expires), active \subseteq Timer,
         NEW w \in Nat, NEW t \in Timer, NEW period,
         \A u \in active : period[u] = interval[u],
         period[t] = 0 => \A u \in active : u < t
  PROVE  Ordered(Emplaced(w, t), period)
<1> DEFINE n == Len(timerMap)
           p == UpperBound(w)
           e == Entry(w, t)
           m == Emplaced(w, t)
<1>1. n \in Nat /\ DOMAIN timerMap = 1..n
  BY LenProperties
<1>2. \A i \in 1..n : timerMap[i] \in MapEntry /\ timerMap[i].timer \in active
  BY <1>1, ElementOfSeq DEF AgreeOn
<1>3. /\ p \in 1..(n + 1)
      /\ \A j \in 1..n : j < p <=> timerMap[j].when <= w
  BY UpperBoundSplits
<1>4. e \in MapEntry /\ e.when = w /\ e.timer = t
  BY DEF Entry, MapEntry
<1>5. /\ m \in Seq(MapEntry) /\ Len(m) = n + 1
      /\ \A j \in 1..(n + 1) :
           m[j] = IF j < p THEN timerMap[j] ELSE IF j = p THEN e ELSE timerMap[j - 1]
  BY EmplacedShape
<1> HIDE DEF n, p, e, m
<1>6. DOMAIN m = 1..(n + 1)
  BY <1>5, LenProperties
<1>7. \A i, j \in 1..n : i < j => Before(timerMap[i], timerMap[j], period)
  BY <1>1, <1>2 DEF Ordered, Before
<1>8. \A i \in 1..n : i < p => Before(timerMap[i], e, period)
  BY <1>2, <1>3, <1>4 DEF Before
<1>9. \A i \in 1..n : ~(i < p) => Before(e, timerMap[i], period)
  <2>1. ASSUME NEW i \in 1..n, ~(i < p)
        PROVE  Before(e, timerMap[i], period)
    <3>1. ~(timerMap[i].when <= w) /\ timerMap[i].when \in Nat
      BY <1>2, <1>3, <2>1 DEF MapEntry
    <3> QED
      BY <1>4, <3>1 DEF Before
  <2> QED
    BY <2>1
<1>10. ASSUME NEW i \in 1..(n + 1), NEW j \in 1..(n + 1), i < j
       PROVE  Before(m[i], m[j], period)
  <2>1. CASE j < p
    BY <1>1, <1>3, <1>5, <1>7, <1>10, <2>1
  <2>2. CASE j = p
    BY <1>1, <1>3, <1>5, <1>8, <1>10, <2>2
  <2>3. CASE j > p
    <3>1. j - 1 \in 1..n /\ ~(j - 1 < p) /\ m[j] = timerMap[j - 1]
      BY <1>1, <1>3, <1>5, <2>3
    <3>2. CASE i < p
      <4>1. i \in 1..n /\ i < j - 1 /\ m[i] = timerMap[i]
        BY <1>1, <1>3, <1>5, <2>3, <3>2
      <4> QED
        BY <1>7, <3>1, <4>1
    <3>3. CASE i = p
      BY <1>5, <1>9, <3>1, <3>3
    <3>4. CASE i > p
      <4>1. i - 1 \in 1..n /\ i - 1 < j - 1 /\ m[i] = timerMap[i - 1]
        BY <1>1, <1>3, <1>5, <1>10, <3>4
      <4> QED
        BY <1>7, <3>1, <4>1
    <3> QED
      BY <1>3, <3>2, <3>3, <3>4
  <2> QED
    BY <1>3, <2>1, <2>2, <2>3
<1> QED
  BY <1>6, <1>10 DEF m, Ordered

\* Taking one entry out leaves the others as they were.
LEMMA RemovedKeeps ==
  ASSUME timerMap \in Seq(MapEntry), Ordered(timerMap, interval),
         AgreeOn(timerMap, active, expires), NEW p \in DOMAIN timerMap
  PROVE  /\ RemoveAt(timerMap, p) \in Seq(MapEntry)
         /\ AgreeOn(RemoveAt(timerMap, p), active \ {timerMap[p].timer}, expires)
         /\ Ordered(RemoveAt(timerMap, p), interval)
<1> DEFINE n == Len(timerMap)
           m == RemoveAt(timerMap, p)
           Old(j) == IF j < p THEN j ELSE j + 1
<1>1. n \in Nat /\ DOMAIN timerMap = 1..n /\ p \in 1..n
  BY LenProperties
<1>2. /\ m \in Seq(MapEntry) /\ Len(m) = n - 1
      /\ \A j \in 1..(n - 1) :
           m[j] = IF j < p THEN timerMap[j] ELSE timerMap[j + 1]
  BY <1>1, RemoveFacts
<1> HIDE DEF n, m
<1>3. DOMAIN m = 1..(n - 1)
  BY <1>2, LenProperties
<1>4. \A j \in 1..(n - 1) :
        Old(j) \in 1..n /\ Old(j) # p /\ m[j] = timerMap[Old(j)]
  BY <1>1, <1>2
<1>5. \A i, j \in 1..(n - 1) : i < j <=> Old(i) < Old(j)
  BY <1>1
<1>6. ASSUME NEW i \in 1..n, i # p
      PROVE  \E j \in 1..(n - 1) : m[j] = timerMap[i]
  <2>1. CASE i < p
    BY <1>1, <1>2, <2>1
  <2>2. CASE i > p
    <3>1. i - 1 \in 1..(n - 1) /\ ~(i - 1 < p) /\ (i - 1) + 1 = i
      BY <1>1, <2>2
    <3> QED
      BY <1>2, <3>1
  <2> QED
    BY <1>1, <1>6, <2>1, <2>2
<1> HIDE DEF Old
<1>7. \A i, j \in 1..n : timerMap[i].timer = timerMap[j].timer => i = j
  BY <1>1 DEF AgreeOn
<1>8. {m[j].timer : j \in 1..(n - 1)} = active \ {timerMap[p].timer}
  <2>1. active = {timerMap[i].timer : i \in 1..n}
    BY <1>1 DEF AgreeOn
  <2>2. ASSUME NEW j \in 1..(n - 1)
        PROVE  m[j].timer \in active \ {timerMap[p].timer}
    BY <1>1, <1>4, <1>7, <2>1
  <2>3. ASSUME NEW t \in active, t # timerMap[p].timer
        PROVE  t \in {m[j].timer : j \in 1..(n - 1)}
    BY <1>6, <2>1, <2>3
  <2> QED
    BY <2>2, <2>3
<1>9. \A i, j \in 1..(n - 1) : m[i].timer = m[j].timer => i = j
  <2>1. ASSUME NEW i \in 1..(n - 1), NEW j \in 1..(n - 1), m[i].timer = m[j].timer
        PROVE  i = j
    <3>1. Old(i) = Old(j)
      BY <1>4, <1>7, <2>1
    <3>2. ~(i < j) /\ ~(j < i)
      BY <1>1, <1>4, <1>5, <3>1
    <3> QED
      BY <1>1, <3>2
  <2> QED
    BY <2>1
<1>10. \A j \in 1..(n - 1) : m[j].when = expires[m[j].timer]
  BY <1>1, <1>4 DEF AgreeOn
<1>11. \A i, j \in 1..(n - 1) : i < j => Before(m[i], m[j], interval)
  BY <1>1, <1>4, <1>5 DEF Ordered
<1> QED
  BY <1>2, <1>3, <1>8, <1>9, <1>10, <1>11 DEF m, AgreeOn, Ordered

\* Taking the first entries out leaves the others as they were.
LEMMA RestKeeps ==
  ASSUME timerMap \in Seq(MapEntry), Ordered(timerMap, interval),
         AgreeOn(timerMap, active, expires), NEW d \in 0..Len(timerMap)
  PROVE  LET m == SubSeq(timerMap, d + 1, Len(timerMap))
         IN  /\ m \in Seq(MapEntry)
             /\ AgreeOn(m, active \ {timerMap[i].timer : i \in 1..d}, expires)
             /\ Ordered(m, interval)
<1> DEFINE n == Len(timerMap)
           m == SubSeq(timerMap, d + 1, Len(timerMap))
           taken == {timerMap[i].timer : i \in 1..d}
<1>1. n \in Nat /\ DOMAIN timerMap = 1..n /\ d \in Nat /\ d <= n
  BY LenProperties
<1>2. /\ m \in Seq(MapEntry) /\ Len(m) = n - d
      /\ \A j \in 1..(n - d) : m[j] = timerMap[d + j]
  BY RestFacts
<1> HIDE DEF n, m
<1>3. DOMAIN m = 1..(n - d)
  BY <1>1, <1>2, LenProperties
<1>4. \A j \in 1..(n - d) : d + j \in 1..n /\ d + j \notin 1..d
  BY <1>1
<1>5. \A i, j \in 1..n : timerMap[i].timer = timerMap[j].timer => i = j
  BY <1>1 DEF AgreeOn
<1>6. {m[j].timer : j \in 1..(n - d)} = active \ taken
  <2>1. active = {timerMap[i].timer : i \in 1..n}
    BY <1>1 DEF AgreeOn
  <2>2. ASSUME NEW j \in 1..(n - d)
        PROVE  m[j].timer \in active \ taken
    <3>1. d + j \in 1..n /\ m[j].timer = timerMap[d + j].timer
      BY <1>2, <1>4
    <3>2. \A i \in 1..d : i \in 1..n /\ i # d + j
      BY <1>1, <1>4
    <3> QED
      BY <1>5, <2>1, <3>1, <3>2
  <2>3. ASSUME NEW t \in active, t \notin taken
        PROVE  t \in {m[j].timer : j \in 1..(n - d)}
    <3>1. PICK i \in 1..n : timerMap[i].timer = t
      BY <2>1
    <3>2. i \notin 1..d
      BY <2>3, <3>1
    <3>3. i - d \in 1..(n - d) /\ d + (i - d) = i
      BY <1>1, <3>2
    <3> QED
      BY <1>2, <3>1, <3>3
  <2> QED
    BY <2>2, <2>3
<1>7. \A i, j \in 1..(n - d) : m[i].timer = m[j].timer => i = j
  <2>1. ASSUME NEW i \in 1..(n - d), NEW j \in 1..(n - d), m[i].timer = m[j].timer
        PROVE  i = j
    <3>1. d + i = d + j
      BY <1>2, <1>4, <1>5, <2>1
    <3> QED
      BY <1>1, <3>1
  <2> QED
    BY <2>1
<1>8. \A j \in 1..(n - d) : m[j].when = expires[m[j].timer]
  <2>1. \A i \in 1..n : timerMap[i].when = expires[timerMap[i].timer]
    BY <1>1 DEF AgreeOn
  <2> QED
    BY <1>2, <1>4, <2>1
<1>9. \A i, j \in 1..(n - d) : i < j => Before(m[i], m[j], interval)
  <2>1. \A i, j \in 1..(n - d) : i < j => d + i < d + j
    BY <1>1
  <2> QED
    BY <1>1, <1>2, <1>4, <2>1 DEF Ordered
<1> QED
  BY <1>2, <1>3, <1>6, <1>7, <1>8, <1>9 DEF m, taken, AgreeOn, Ordered

\* The batch is made of the first entries of the map.
LEMMA BatchFacts ==
  ASSUME timerMap \in Seq(MapEntry), AgreeOn(timerMap, active, expires)
  PROVE  LET d == Cardinality(DuePrefix)
             expired == [i \in 1..d |-> timerMap[i].timer]
         IN  /\ d \in 0..Len(timerMap)
             /\ expired \in Seq(Timer)
             /\ DOMAIN expired = 1..d
             /\ IsInjective(expired)
             /\ ToSet(expired) = {timerMap[i].timer : i \in 1..d}
             /\ ToSet(expired) \subseteq active
<1> DEFINE n == Len(timerMap)
           d == Cardinality(DuePrefix)
           expired == [i \in 1..d |-> timerMap[i].timer]
<1>1. n \in Nat /\ DOMAIN timerMap = 1..n
  BY LenProperties
<1>2. \A i \in 1..n : timerMap[i] \in MapEntry
  BY <1>1, ElementOfSeq
<1>3. DuePrefix \in SUBSET (1..n)
  BY <1>1 DEF DuePrefix
<1>4. ASSUME NEW i \in DuePrefix, NEW j \in 1..i
      PROVE  j \in DuePrefix
  <2>1. i \in 1..n /\ \A k \in 1..i : timerMap[k].when < now
    BY <1>1, <1>4 DEF DuePrefix
  <2>2. j \in 1..n /\ \A k \in 1..j : k \in 1..i
    BY <1>1, <2>1
  <2> QED
    BY <1>1, <2>1, <2>2 DEF DuePrefix
<1>5. d \in 0..n
  BY <1>1, <1>3, <1>4, SegmentCount
<1> HIDE DEF n, d
<1>6. \A i \in 1..d : i \in 1..n /\ timerMap[i].timer \in Timer
  BY <1>1, <1>2, <1>5 DEF MapEntry
<1>7. expired \in Seq(Timer) /\ DOMAIN expired = 1..d
  <2>1. d \in Nat /\ expired \in [1..d -> Timer]
    BY <1>1, <1>5, <1>6
  <2> QED
    BY <2>1, SeqDef
<1>8. IsInjective(expired)
  BY <1>1, <1>6 DEF IsInjective, AgreeOn
<1>9. ToSet(expired) = {timerMap[i].timer : i \in 1..d}
  BY DEF ToSet
<1>10. ToSet(expired) \subseteq active
  BY <1>1, <1>6, <1>9 DEF AgreeOn
<1> QED
  BY <1>5, <1>7, <1>8, <1>9, <1>10 DEF n, d

----------------------------------------------------------------------------
\* The invariant is one

\* The invariant says what the two properties say.
LEMMA IInvImplies ==
  ASSUME IInv
  PROVE  MapsAgree /\ FirstComeFirstServed
  BY DEF IInv, BatchApart, MapsAgree, AgreeOn, FirstComeFirstServed, Ordered, Before

LEMMA InitEstablishes ==
  ASSUME Init
  PROVE  IInv
<1>1. timerMap \in Seq(MapEntry) /\ DOMAIN timerMap = {} /\ Len(batch) = 0
      /\ batch \in Seq(Timer) /\ DOMAIN batch = {}
  BY DEF Init
<1>2. TypeOK
  BY <1>1, TimeAssumption DEF Init, TypeOK, MapEntry
<1>3. AgreeOn(timerMap, active, expires) /\ Ordered(timerMap, interval)
  BY <1>1 DEF Init, AgreeOn, Ordered
<1>4. BatchApart /\ IdsHandedOut /\ BatchIsLocal /\ ResetSoFar
  BY <1>1 DEF Init, BatchApart, IsInjective, IdsHandedOut, BatchIsLocal, ResetSoFar
<1> QED
  BY <1>2, <1>3, <1>4 DEF IInv

\* A new timer.
LEMMA AddTimerKeeps ==
  ASSUME IInv, NEW delay \in Delay, NEW every \in Interval, AddTimer(delay, every)
  PROVE  IInv'
<1> DEFINE t == nextId
           w == now + delay
<1>1. TypeOK /\ timerMap \in Seq(MapEntry)
  BY DEF IInv, TypeOK, MapEntry
<1>2. w \in Nat /\ t \in Timer
  BY <1>1, TimeAssumption DEF TypeOK, AddTimer
<1>3. \A u \in active : u < t
  BY DEF IInv, IdsHandedOut
<1>4. t \notin active
  BY <1>1, <1>2, <1>3 DEF Timer
<1>5. /\ timerMap' \in Seq(MapEntry)
      /\ AgreeOn(timerMap', active', expires')
  <2>1. /\ Emplaced(w, t) \in Seq(MapEntry)
        /\ AgreeOn(Emplaced(w, t), active \cup {t}, [expires EXCEPT ![t] = w])
    BY <1>1, <1>2, <1>4, EmplacedAgrees DEF IInv, TypeOK
  <2> QED
    BY <2>1 DEF AddTimer
<1>6. Ordered(timerMap', interval')
  <2>1. \A u \in active : interval'[u] = interval[u]
    BY <1>1, <1>4 DEF AddTimer, TypeOK
  <2>2. Ordered(Emplaced(w, t), interval')
    BY <1>1, <1>2, <1>3, <2>1, EmplacedInOrder DEF IInv, TypeOK
  <2> QED
    BY <2>2 DEF AddTimer
<1>7. TypeOK'
  <2>1. timerMap' \in Seq([when : Nat, timer : Timer])
    BY <1>5 DEF MapEntry
  <2>2. expires' \in [Timer -> Nat] /\ interval' \in [Timer -> Interval \cup {0}]
    BY <1>1, <1>2 DEF AddTimer, TypeOK
  <2>3. nextId' \in 1..(MaxTimers + 1) /\ active' \subseteq Timer
    BY <1>1, <1>2, TimeAssumption DEF AddTimer, TypeOK, Timer
  <2> QED
    BY <1>1, <2>1, <2>2, <2>3 DEF AddTimer, TypeOK
<1>8. \A i \in DOMAIN batch : batch[i] # t
  BY <1>1, <1>2, ElementOfSeq, LenProperties DEF IInv, IdsHandedOut, TypeOK, Timer
<1>9. BatchApart'
  BY <1>8 DEF IInv, BatchApart, AddTimer
<1>10. IdsHandedOut'
  <2>1. \A u \in active' : u < nextId'
    BY <1>1, <1>2, <1>3 DEF AddTimer, TypeOK, Timer
  <2>2. \A i \in DOMAIN batch' : batch'[i] < nextId'
    <3>1. \A i \in DOMAIN batch : batch[i] \in Timer /\ batch[i] < nextId
      BY <1>1, ElementOfSeq, LenProperties DEF IInv, IdsHandedOut, TypeOK
    <3>2. batch' = batch /\ nextId' = nextId + 1 /\ nextId \in Nat
      BY <1>1 DEF AddTimer, TypeOK
    <3> QED
      BY <3>1, <3>2 DEF Timer
  <2>3. \A u \in Timer : u >= nextId' => interval'[u] = 0
    BY <1>1, <1>2 DEF IInv, IdsHandedOut, AddTimer, TypeOK, Timer
  <2> QED
    BY <2>1, <2>2, <2>3 DEF IdsHandedOut
<1>11. BatchIsLocal' /\ ResetSoFar'
  BY DEF IInv, BatchIsLocal, ResetSoFar, AddTimer, InCallback, ToRearm
<1> QED
  BY <1>5, <1>6, <1>7, <1>9, <1>10, <1>11 DEF IInv

\* A timer is cancelled.
LEMMA DeleteTimerKeeps ==
  ASSUME IInv, NEW t \in Timer, DeleteTimer(t)
  PROVE  IInv'
<1>1. TypeOK /\ timerMap \in Seq(MapEntry)
  BY DEF IInv, TypeOK, MapEntry
<1>2. phase' # "reset" /\ UNCHANGED <<phase, nextId, expires, interval, batch, pos>>
  BY DEF DeleteTimer, InCallback
<1>3. /\ timerMap' \in Seq(MapEntry)
      /\ AgreeOn(timerMap', active', expires')
      /\ Ordered(timerMap', interval')
      /\ active' \subseteq active
      /\ canceled' \subseteq Timer
  <2>1. CASE t \in active
    <3>1. PICK p \in DOMAIN timerMap :
            timerMap[p] = Entry(expires[t], t) /\ timerMap' = RemoveAt(timerMap, p)
      BY <2>1 DEF DeleteTimer, Erase
    <3>2. timerMap[p].timer = t
      BY <3>1 DEF Entry
    <3>3. /\ RemoveAt(timerMap, p) \in Seq(MapEntry)
          /\ AgreeOn(RemoveAt(timerMap, p), active \ {timerMap[p].timer}, expires)
          /\ Ordered(RemoveAt(timerMap, p), interval)
      BY <1>1, RemovedKeeps DEF IInv
    <3>4. active' = active \ {t} /\ canceled' = canceled
      BY <2>1 DEF DeleteTimer, Erase
    <3> QED
      BY <1>1, <1>2, <3>1, <3>2, <3>3, <3>4 DEF TypeOK
  <2>2. CASE t \notin active
    <3>1. active' = active /\ timerMap' = timerMap /\ canceled' = canceled \cup {t}
      BY <2>2 DEF DeleteTimer, Erase
    <3> QED
      BY <1>1, <1>2, <3>1 DEF IInv, TypeOK
  <2> QED
    BY <2>1, <2>2
<1>4. TypeOK'
  <2>1. timerMap' \in Seq([when : Nat, timer : Timer])
    BY <1>3 DEF MapEntry
  <2> QED
    BY <1>1, <1>3, <2>1 DEF DeleteTimer, TypeOK
<1>5. BatchApart' /\ IdsHandedOut' /\ BatchIsLocal' /\ ResetSoFar'
  BY <1>2, <1>3 DEF IInv, BatchApart, IdsHandedOut, BatchIsLocal, ResetSoFar
<1> QED
  BY <1>3, <1>4, <1>5 DEF IInv

\* What is due leaves the map as one batch.
LEMMA BeginBatchKeeps ==
  ASSUME IInv, BeginBatch
  PROVE  IInv'
<1> DEFINE d == Cardinality(DuePrefix)
           expired == [i \in 1..d |-> timerMap[i].timer]
           m == SubSeq(timerMap, d + 1, Len(timerMap))
<1>1. TypeOK /\ timerMap \in Seq(MapEntry)
  BY DEF IInv, TypeOK, MapEntry
<1>2. /\ d \in 0..Len(timerMap)
      /\ expired \in Seq(Timer)
      /\ DOMAIN expired = 1..d
      /\ IsInjective(expired)
      /\ ToSet(expired) = {timerMap[i].timer : i \in 1..d}
      /\ ToSet(expired) \subseteq active
  BY <1>1, BatchFacts DEF IInv
<1>3. /\ phase' = "batch" /\ batch' = expired /\ timerMap' = m
      /\ active' = active \ ToSet(expired)
      /\ canceled' = {} /\ pos' = 0
      /\ UNCHANGED <<now, wake, nextId, expires, interval, resetAt, lastRun>>
  BY DEF BeginBatch
<1> HIDE DEF d, expired
<1>4. /\ m \in Seq(MapEntry)
      /\ AgreeOn(m, active \ {timerMap[i].timer : i \in 1..d}, expires)
      /\ Ordered(m, interval)
  BY <1>1, <1>2, RestKeeps DEF IInv
<1> HIDE DEF m
<1>5. AgreeOn(timerMap', active', expires') /\ Ordered(timerMap', interval')
  BY <1>2, <1>3, <1>4
<1>6. TypeOK'
  <2>1. timerMap' \in Seq([when : Nat, timer : Timer])
    BY <1>3, <1>4 DEF MapEntry
  <2>2. batch' \in Seq(Timer) /\ pos' \in 0..Len(batch')
    BY <1>2, <1>3, LenProperties
  <2> QED
    BY <1>1, <1>3, <2>1, <2>2 DEF TypeOK
<1>7. \A i \in DOMAIN batch' : batch'[i] \in active /\ batch'[i] \notin active'
  <2>1. \A i \in DOMAIN expired : expired[i] \in ToSet(expired)
    BY DEF ToSet
  <2> QED
    BY <1>2, <1>3, <2>1
<1>8. BatchApart' /\ IdsHandedOut' /\ BatchIsLocal' /\ ResetSoFar'
  BY <1>2, <1>3, <1>7
     DEF IInv, BatchApart, IdsHandedOut, BatchIsLocal, ResetSoFar
<1> QED
  BY <1>5, <1>6, <1>8 DEF IInv

\* A timer of the batch is armed again, or let go.
LEMMA ResetTimerKeeps ==
  ASSUME IInv, ResetTimer
  PROVE  IInv'
<1> DEFINE t == batch[pos + 1]
           w == Restart(t)
<1>1. TypeOK /\ timerMap \in Seq(MapEntry)
  BY DEF IInv, TypeOK, MapEntry
<1>2. /\ phase = "reset" /\ pos' = pos + 1
      /\ UNCHANGED <<now, phase, wake, nextId, interval, canceled, batch,
                     resetAt, lastRun>>
  BY DEF ResetTimer
<1>3. /\ DOMAIN batch = 1..Len(batch) /\ Len(batch) \in Nat
      /\ pos + 1 \in DOMAIN batch /\ pos \in Nat
  BY <1>1, LenProperties DEF TypeOK, ResetTimer
<1>4. t \in Timer /\ t < nextId /\ t \notin active
  BY <1>1, <1>3, ElementOfSeq DEF IInv, TypeOK, IdsHandedOut, BatchApart
<1>5. CASE ToRearm(t)
  <2>1. /\ expires' = [expires EXCEPT ![t] = w]
        /\ timerMap' = Emplaced(w, t)
        /\ active' = active \cup {t}
    BY <1>5 DEF ResetTimer
  <2>2. interval[t] \in Nat /\ interval[t] # 0 /\ w \in Nat
    <3> HIDE DEF t
    <3>1. interval[t] \in Interval \cup {0} /\ resetAt \in Nat
      BY <1>1, <1>4 DEF TypeOK
    <3>2. interval[t] > 0
      BY <1>5 DEF ToRearm
    <3>3. interval[t] \in Nat
      <4>1. Interval \subseteq Nat /\ 0 \in Nat
        BY TimeAssumption
      <4> QED
        BY <3>1, <4>1, Zenon
    <3> QED
      BY <3>1, <3>2, <3>3 DEF Restart
  <2>3. /\ Emplaced(w, t) \in Seq(MapEntry)
        /\ AgreeOn(Emplaced(w, t), active \cup {t}, [expires EXCEPT ![t] = w])
    BY <1>1, <1>4, <2>2, EmplacedAgrees DEF IInv, TypeOK
  <2>4. Ordered(Emplaced(w, t), interval)
    BY <1>1, <1>4, <2>2, EmplacedInOrder DEF IInv, TypeOK
  <2>5. AgreeOn(timerMap', active', expires') /\ Ordered(timerMap', interval')
    BY <1>2, <2>1, <2>3, <2>4
  <2>6. TypeOK'
    <3>1. timerMap' \in Seq([when : Nat, timer : Timer])
      BY <2>1, <2>3 DEF MapEntry
    <3>2. expires' \in [Timer -> Nat] /\ active' \subseteq Timer
      BY <1>1, <1>4, <2>1, <2>2 DEF TypeOK
    <3>3. pos' \in 0..Len(batch')
      BY <1>2, <1>3
    <3> QED
      BY <1>1, <1>2, <3>1, <3>2, <3>3 DEF TypeOK
  <2>7. BatchApart'
    <3>1. \A i \in DOMAIN batch : batch[i] = t => i = pos + 1
      BY <1>3 DEF IInv, BatchApart, IsInjective
    <3>2. \A i \in DOMAIN batch : i <= pos => i <= pos + 1
      BY <1>3
    <3> HIDE DEF t
    <3> QED
      BY <1>2, <1>3, <2>1, <3>1, <3>2 DEF IInv, BatchApart
  <2>8. ResetSoFar'
    <3>1. \A i \in DOMAIN batch : i <= pos + 1 => i <= pos \/ batch[i] = t
      BY <1>3
    <3> HIDE DEF t
    <3> QED
      BY <1>2, <2>1, <3>1 DEF IInv, ResetSoFar, ToRearm
  <2>9. IdsHandedOut' /\ BatchIsLocal'
    BY <1>2, <1>4, <2>1 DEF IInv, IdsHandedOut, BatchIsLocal
  <2> QED
    BY <2>5, <2>6, <2>7, <2>8, <2>9 DEF IInv
<1>6. CASE ~ToRearm(t)
  <2>1. UNCHANGED <<expires, timerMap, active>>
    BY <1>6 DEF ResetTimer
  <2>2. TypeOK'
    <3>1. pos' \in 0..Len(batch')
      BY <1>2, <1>3
    <3> QED
      BY <1>1, <1>2, <2>1, <3>1 DEF TypeOK
  <2>3. BatchApart'
    BY <1>2, <1>3, <2>1 DEF IInv, BatchApart
  <2>4. ResetSoFar'
    <3>1. \A i \in DOMAIN batch : i <= pos + 1 => i <= pos \/ batch[i] = t
      BY <1>3
    <3> HIDE DEF t
    <3> QED
      BY <1>2, <1>6, <2>1, <3>1 DEF IInv, ResetSoFar, ToRearm
  <2>5. IdsHandedOut' /\ BatchIsLocal'
    BY <1>2, <2>1 DEF IInv, IdsHandedOut, BatchIsLocal
  <2> QED
    BY <1>2, <2>1, <2>2, <2>3, <2>4, <2>5 DEF IInv
<1> QED
  BY <1>5, <1>6

\* The rest of the loop, and time, leave the timers alone.
LEMMA OtherStepsKeep ==
  ASSUME IInv,
         \/ StartPoll \/ PollTimesOut \/ PollReportsIo \/ RunTimer
         \/ BeginReset \/ EndReset \/ Tick \/ UNCHANGED vars
  PROVE  IInv'
<1>1. TypeOK
  BY DEF IInv
<1>2. UNCHANGED timers
  BY DEF StartPoll, PollTimesOut, PollReportsIo, RunTimer, BeginReset, EndReset,
         Tick, vars
<1>3. UNCHANGED <<nextId, expires, interval, timerMap, active, canceled>>
  BY <1>2 DEF timers
<1>4. DOMAIN batch = 1..Len(batch) /\ Len(batch) \in Nat
  BY <1>1, LenProperties DEF TypeOK
<1>5. AgreeOn(timerMap', active', expires') /\ Ordered(timerMap', interval')
  BY <1>3 DEF IInv
<1>6. wake' \in Nat
  <2>1. CASE StartPoll
    <3>1. GetNextExpiredDuration \in Nat
      <4>1. CASE timerMap = <<>>
        BY <4>1, TimeAssumption DEF GetNextExpiredDuration
      <4>2. CASE timerMap # <<>>
        <5>1. timerMap[1].when \in Nat
          <6>1. timerMap \in Seq(MapEntry)
            BY <1>1 DEF TypeOK, MapEntry
          <6>2. Len(timerMap) \in Nat /\ Len(timerMap) # 0
            BY <4>2, <6>1, LenProperties, EmptySeq
          <6>3. 1 \in 1..Len(timerMap)
            BY <6>2
          <6>4. timerMap[1] \in MapEntry
            BY <6>1, <6>3, ElementOfSeq
          <6> QED
            BY <6>4 DEF MapEntry
        <5>2. timerMap[1].when \div TicksPerMs \in Int /\ now \div TicksPerMs \in Int
          BY <1>1, <5>1, TimeAssumption DEF TypeOK
        <5> QED
          BY <4>2, <5>2 DEF GetNextExpiredDuration
      <4> QED
        BY <4>1, <4>2
    <3>2. GetNextExpiredDuration * TicksPerMs \in Nat
      BY <3>1, TimeAssumption
    <3> QED
      BY <1>1, <2>1, <3>2, TimeAssumption DEF StartPoll, TypeOK
  <2>2. CASE ~StartPoll
    BY <1>1, <2>2
       DEF PollTimesOut, PollReportsIo, RunTimer, BeginReset, EndReset, Tick, vars,
           TypeOK
  <2> QED
    BY <2>1, <2>2
<1>7. now' \in 0..MaxTime
  BY <1>1, TimeAssumption
     DEF StartPoll, PollTimesOut, PollReportsIo, RunTimer, BeginReset, EndReset,
         Tick, vars, TypeOK
<1>8. batch' \in Seq(Timer) /\ pos' \in 0..Len(batch')
  <2>1. <<>> \in Seq(Timer) /\ Len(<<>>) = 0
    OBVIOUS
  <2>2. batch \in Seq(Timer) /\ pos \in 0..Len(batch)
    BY <1>1 DEF TypeOK
  <2>3. \/ batch' = batch /\ pos' = pos
        \/ batch' = batch /\ pos' = 0
        \/ batch' = batch /\ pos < Len(batch) /\ pos' = pos + 1
        \/ batch' = <<>> /\ pos' = 0
    BY DEF StartPoll, PollTimesOut, PollReportsIo, RunTimer, BeginReset, EndReset,
           Tick, vars
  <2>4. CASE batch' = batch
    <3>1. pos' \in 0..Len(batch)
      BY <1>4, <2>1, <2>2, <2>3, <2>4
    <3> QED
      BY <2>2, <2>4, <3>1
  <2>5. CASE batch' = <<>> /\ pos' = 0
    <3>1. 0 \in 0..0
      OBVIOUS
    <3> QED
      BY <2>1, <2>5, <3>1, Zenon
  <2> QED
    BY <2>3, <2>4, <2>5
<1>9. lastRun' \in [Timer -> Nat \cup {-1}]
  <2>1. now \in Nat
    BY <1>1 DEF TypeOK
  <2> QED
    BY <1>1, <2>1
       DEF StartPoll, PollTimesOut, PollReportsIo, RunTimer, BeginReset, EndReset,
           Tick, vars, TypeOK
<1>10. /\ phase' \in {"top", "poll", "io", "batch", "reset"}
       /\ resetAt' \in Nat
  BY <1>1
     DEF StartPoll, PollTimesOut, PollReportsIo, RunTimer, BeginReset, EndReset,
         Tick, vars, TypeOK
<1>11. TypeOK'
  BY <1>1, <1>3, <1>6, <1>7, <1>8, <1>9, <1>10 DEF TypeOK
<1>12. /\ batch' = batch \/ batch' = <<>>
       /\ phase' \notin {"batch", "reset"} => batch' = <<>>
  BY <1>1
     DEF StartPoll, PollTimesOut, PollReportsIo, RunTimer, BeginReset, EndReset,
         Tick, vars, TypeOK, IInv, BatchIsLocal
<1>13. phase' = "reset" => pos' = 0 \/ (phase = "reset" /\ pos' = pos)
  BY DEF StartPoll, PollTimesOut, PollReportsIo, RunTimer, BeginReset, EndReset,
         Tick, vars
<1>14. phase = "reset" => batch' = <<>> \/ (phase' = "reset" /\ pos' = pos)
  BY DEF StartPoll, PollTimesOut, PollReportsIo, RunTimer, BeginReset, EndReset,
         Tick, vars
<1>15. BatchApart'
  BY <1>3, <1>12, <1>14 DEF IInv, BatchApart, IsInjective
<1>16. ResetSoFar'
  <2>1. \A i \in DOMAIN batch : ~(i <= 0)
    BY <1>4
  <2> QED
    BY <1>3, <1>12, <1>13, <2>1 DEF IInv, ResetSoFar, ToRearm
<1>17. IdsHandedOut' /\ BatchIsLocal'
  BY <1>3, <1>12 DEF IInv, IdsHandedOut, BatchIsLocal
<1> QED
  BY <1>5, <1>11, <1>15, <1>16, <1>17 DEF IInv

LEMMA NextKeeps == IInv /\ [Next]_vars => IInv'
<1> SUFFICES ASSUME IInv, [Next]_vars
             PROVE  IInv'
  OBVIOUS
<1>1. ASSUME NEW delay \in Delay, NEW every \in Interval, AddTimer(delay, every)
      PROVE  IInv'
  BY <1>1, AddTimerKeeps
<1>2. ASSUME NEW t \in Timer, DeleteTimer(t)
      PROVE  IInv'
  BY <1>2, DeleteTimerKeeps
<1>3. CASE BeginBatch
  BY <1>3, BeginBatchKeeps
<1>4. CASE ResetTimer
  BY <1>4, ResetTimerKeeps
<1>5. CASE \/ StartPoll \/ PollTimesOut \/ PollReportsIo \/ RunTimer
           \/ BeginReset \/ EndReset \/ Tick \/ UNCHANGED vars
  BY <1>5, OtherStepsKeep
<1> QED
  BY <1>1, <1>2, <1>3, <1>4, <1>5 DEF Next, Loop

\* The timers keep the invariant in every behaviour of the loop.
LEMMA Invariance == Spec => []IInv
<1>1. Init => IInv
  BY InitEstablishes
<1> QED
  BY <1>1, NextKeeps, PTL DEF Spec

\* Every part of the state has its type.
THEOREM TypeCorrect == Spec => []TypeOK
<1>1. IInv => TypeOK
  BY DEF IInv
<1> QED
  BY <1>1, Invariance, PTL

\* The sizes of timer_map_ and activate_timers_ that the code asserts agree,
\* DeleteTimer finds the entry it looks up, and no timer is armed while the
\* batch it expired in runs (AddTimerInLoop, DeleteTimerInLoop,
\* GetExpiredTimers, Reset).
THEOREM MapsAlwaysAgree == Spec => []MapsAgree
<1>1. IInv => MapsAgree
  BY IInvImplies
<1> QED
  BY <1>1, Invariance, PTL

\* CallLater(0) runs callbacks in the order they were posted, and all timers
\* wait in the order of their expiry (the multimap of AddTimerInLoop).
THEOREM AlwaysFirstComeFirstServed == Spec => []FirstComeFirstServed
<1>1. IInv => FirstComeFirstServed
  BY IInvImplies
<1> QED
  BY <1>1, Invariance, PTL

----------------------------------------------------------------------------
\* The manager implements TimerLife

\* Whether a timer is in the batch, and has yet to run.
InBatch(t) == t \in ToSet(batch)
ToRun(t) == phase = "batch" /\ t \in Waiting

\* The cases of Life exclude one another.
LEMMA LifeCases ==
  ASSUME NEW t
  PROVE  /\ t >= nextId /\ t \notin active /\ ~InBatch(t) /\ ~ToRun(t)
              => Life(t) = "unused"
         /\ ~(t >= nextId) /\ t \in active /\ ~ToRun(t) => Life(t) = "armed"
         /\ ~(t >= nextId) /\ t \notin active =>
              /\ ~InBatch(t) /\ ~ToRun(t) => Life(t) = "gone"
              /\ ToRun(t) => Life(t) = IF t \in canceled THEN "doomed" ELSE "due"
              /\ InBatch(t) /\ ~ToRun(t) =>
                   Life(t) = IF t \in canceled THEN "gone" ELSE "ran"
<1>1. t >= nextId /\ t \notin active /\ ~InBatch(t) /\ ~ToRun(t)
        => Life(t) = "unused"
  BY DEF Life, InBatch, ToRun
<1>2. ~(t >= nextId) /\ t \in active /\ ~ToRun(t) => Life(t) = "armed"
  BY DEF Life, InBatch, ToRun
<1>3. ~(t >= nextId) /\ t \notin active /\ ~InBatch(t) /\ ~ToRun(t)
        => Life(t) = "gone"
  BY DEF Life, InBatch, ToRun
<1>4. ~(t >= nextId) /\ t \notin active /\ ToRun(t)
        => Life(t) = IF t \in canceled THEN "doomed" ELSE "due"
  BY DEF Life, InBatch, ToRun
<1>5. ~(t >= nextId) /\ t \notin active /\ InBatch(t) /\ ~ToRun(t)
        => Life(t) = IF t \in canceled THEN "gone" ELSE "ran"
  BY DEF Life, InBatch, ToRun
<1> QED
  BY <1>1, <1>2, <1>3, <1>4, <1>5

\* One timer changes, the others stay as they were.
LEMMA OneBecomes ==
  ASSUME NEW t \in Timer, NEW from, NEW to,
         Life(t) = from, Life(t)' = to,
         \A u \in Timer : u # t => Life(u)' = Life(u)
  PROVE  Abstract!Becomes(t, from, to)
  BY DEF Abstract!Becomes

LifeState(t) ==
  Life(t) = IF t >= nextId THEN "unused"
            ELSE IF t \in active THEN "armed"
            ELSE IF ToRun(t) THEN (IF t \in canceled THEN "doomed" ELSE "due")
            ELSE IF InBatch(t) /\ t \notin canceled THEN "ran" ELSE "gone"

LEMMA LifeIs == IInv => \A t \in Timer : LifeState(t)
<1> SUFFICES ASSUME IInv, NEW t \in Timer
             PROVE  LifeState(t)
  OBVIOUS
<1>1. /\ DOMAIN batch = 1..Len(batch) /\ Len(batch) \in Nat /\ pos \in Nat
      /\ nextId \in Nat /\ t \in Nat
  BY LenProperties DEF IInv, TypeOK, Timer
<1>2. ToRun(t) => InBatch(t) /\ t \notin active
  BY <1>1 DEF ToRun, InBatch, Waiting, ToSet, IInv, BatchApart
<1>3. InBatch(t) => ~(t >= nextId)
  <2>1. \A i \in DOMAIN batch : batch[i] < nextId
    BY DEF IInv, IdsHandedOut
  <2> QED
    BY <1>1, <2>1 DEF InBatch, ToSet
<1>4. t \in active => ~(t >= nextId)
  BY <1>1 DEF IInv, IdsHandedOut
<1> QED
  BY <1>2, <1>3, <1>4, LifeCases DEF LifeState

LEMMA LifeIsNext == IInv' => (\A t \in Timer : LifeState(t))'
  BY LifeIs, PTL

\* What TimerLife sees is the same when the parts it is made of are.
LEMMA SameLife ==
  ASSUME IInv, IInv', NEW t \in Timer,
         t >= nextId <=> t >= nextId',
         t \in active <=> t \in active',
         t \in canceled <=> t \in canceled',
         ToRun(t) <=> ToRun(t)',
         InBatch(t) <=> InBatch(t)'
  PROVE  Life(t)' = Life(t)
<1>1. LifeState(t)
  BY LifeIs
<1>2. LifeState(t)'
  BY LifeIsNext
<1> QED
  BY <1>1, <1>2 DEF LifeState

LEMMA AddTimerMaps ==
  ASSUME IInv, IInv', NEW delay \in Delay, NEW every \in Interval,
         AddTimer(delay, every)
  PROVE  Abstract!Next
<1>0. PICK t \in Timer : t = nextId
  BY DEF AddTimer
<1>1. nextId \in Nat /\ interval \in [Timer -> Interval \cup {0}] /\ t = nextId
  BY <1>0 DEF IInv, TypeOK
<1>2. /\ nextId' = nextId + 1 /\ active' = active \cup {t}
      /\ interval' = [interval EXCEPT ![t] = every]
      /\ UNCHANGED <<phase, canceled, batch, pos>>
  BY <1>1 DEF AddTimer
<1>3. \A u \in Timer : ToRun(u)' = ToRun(u) /\ InBatch(u)' = InBatch(u)
  BY <1>2 DEF ToRun, InBatch, Waiting, ToSet
<1>4. \A u \in Timer : u # t => Life(u)' = Life(u)
  <2> SUFFICES ASSUME NEW u \in Timer, u # t
               PROVE  Life(u)' = Life(u)
    OBVIOUS
  <2>1. u >= nextId <=> u >= nextId'
    BY <1>1, <1>2 DEF Timer
  <2>2. u \in active <=> u \in active'
    BY <1>2
  <2> QED
    BY <1>2, <1>3, <2>1, <2>2, SameLife
<1>5. Life(t) = "unused"
  BY <1>1, LifeIs DEF LifeState
<1>6. Life(t)' = "armed"
  BY <1>1, <1>2, LifeIsNext DEF LifeState
<1>7. Abstract!Becomes(t, "unused", "armed")
  BY <1>4, <1>5, <1>6, OneBecomes
<1>8. interval[t] = 0
  BY <1>1 DEF IInv, IdsHandedOut
<1> DEFINE R == {u \in Timer : interval[u] > 0}
<1>9. R' = R \/ R' = R \cup {t}
  <2>1. \A u \in Timer : u # t => interval'[u] = interval[u]
    BY <1>1, <1>2
  <2>2. ~(interval[t] > 0)
    BY <1>8
  <2> QED
    BY <2>1, <2>2
<1>10. Abstract!Create(t)
  BY <1>7, <1>9 DEF Abstract!Create
<1> QED
  BY <1>10 DEF Abstract!Next

LEMMA DeleteTimerMaps ==
  ASSUME IInv, IInv', NEW t \in Timer, DeleteTimer(t)
  PROVE  Abstract!Next \/ UNCHANGED Abstract!vars
<1>1. UNCHANGED <<phase, nextId, interval, batch, pos>>
  BY DEF DeleteTimer
<1>2. nextId \in Nat /\ t \in Nat
  BY DEF IInv, TypeOK, Timer
<1>3. \A u \in Timer : ToRun(u)' = ToRun(u) /\ InBatch(u)' = InBatch(u)
  BY <1>1 DEF ToRun, InBatch, Waiting, ToSet
<1>4. \A u \in Timer : u # t => Life(u)' = Life(u)
  <2> SUFFICES ASSUME NEW u \in Timer, u # t
               PROVE  Life(u)' = Life(u)
    OBVIOUS
  <2>1. u \in active <=> u \in active'
    BY DEF DeleteTimer, Erase
  <2>2. u \in canceled <=> u \in canceled'
    BY DEF DeleteTimer, Erase
  <2> QED
    BY <1>1, <1>3, <2>1, <2>2, SameLife
<1>5. LifeState(t) /\ LifeState(t)'
  BY LifeIs, LifeIsNext
<1>6. UNCHANGED {u \in Timer : interval[u] > 0}
  BY <1>1
<1>7. ASSUME NEW from, NEW to, Life(t) = from, Life(t)' = to,
             \/ from = "armed" /\ to = "gone"
             \/ from = "due" /\ to = "doomed"
             \/ from = "ran" /\ to = "gone"
      PROVE  Abstract!Next
  <2>1. Abstract!Becomes(t, from, to)
    BY <1>4, <1>7, OneBecomes
  <2>2. Abstract!Cancel(t)
    BY <1>6, <1>7, <2>1 DEF Abstract!Cancel
  <2> QED
    BY <2>2 DEF Abstract!Next
<1>8. ASSUME Life(t)' = Life(t)
      PROVE  UNCHANGED Abstract!vars
  <2>1. \A u \in Timer : Life(u)' = Life(u)
    BY <1>4, <1>8
  <2> QED
    BY <1>6, <2>1 DEF Abstract!vars
<1>9. CASE t \in active
  <2>1. active' = active \ {t}
    BY <1>9 DEF DeleteTimer, Erase
  <2>2. ~ToRun(t) /\ ~InBatch(t) /\ ~(t >= nextId)
    <3>1. phase # "reset"
      BY DEF DeleteTimer, InCallback
    <3>2. ~InBatch(t)
      BY <1>9, <3>1 DEF InBatch, ToSet, IInv, BatchApart
    <3>3. ToRun(t) => InBatch(t)
      <4>1. DOMAIN batch = 1..Len(batch) /\ Len(batch) \in Nat /\ pos \in Nat
        BY LenProperties DEF IInv, TypeOK
      <4> QED
        BY <4>1 DEF ToRun, Waiting, InBatch, ToSet
    <3>4. ~(t >= nextId)
      BY <1>2, <1>9 DEF IInv, IdsHandedOut
    <3> QED
      BY <3>2, <3>3, <3>4
  <2>3. Life(t) = "armed" /\ Life(t)' = "gone"
    BY <1>1, <1>3, <1>5, <1>9, <2>1, <2>2 DEF LifeState
  <2> QED
    BY <1>7, <2>3
<1>10. CASE t \notin active
  <2>1. canceled' = canceled \cup {t} /\ active' = active
    BY <1>10 DEF DeleteTimer, Erase
  <2>2. InBatch(t) /\ ~(t >= nextId)
    <3>1. InBatch(t)
      BY <1>10 DEF DeleteTimer, Valid, InBatch
    <3>2. \A i \in DOMAIN batch : batch[i] < nextId
      BY DEF IInv, IdsHandedOut
    <3> QED
      BY <1>2, <3>1, <3>2 DEF InBatch, ToSet
  <2>3. CASE t \in canceled
    <3>1. Life(t)' = Life(t)
      BY <1>1, <1>3, <1>5, <1>10, <2>1, <2>2, <2>3 DEF LifeState
    <3> QED
      BY <1>8, <3>1
  <2>4. CASE t \notin canceled /\ ToRun(t)
    <3>1. Life(t) = "due" /\ Life(t)' = "doomed"
      BY <1>1, <1>3, <1>5, <1>10, <2>1, <2>2, <2>4 DEF LifeState
    <3> QED
      BY <1>7, <3>1
  <2>5. CASE t \notin canceled /\ ~ToRun(t)
    <3>1. Life(t) = "ran" /\ Life(t)' = "gone"
      BY <1>1, <1>3, <1>5, <1>10, <2>1, <2>2, <2>5 DEF LifeState
    <3> QED
      BY <1>7, <3>1
  <2> QED
    BY <2>3, <2>4, <2>5
<1> QED
  BY <1>9, <1>10

LEMMA BeginBatchMaps ==
  ASSUME IInv, IInv', BeginBatch
  PROVE  Abstract!Next
<1> DEFINE d == Cardinality(DuePrefix)
           expired == [i \in 1..d |-> timerMap[i].timer]
<1>0. PICK ts : ts = ToSet(expired)
  OBVIOUS
<1>1. ts \subseteq active /\ active \subseteq Timer
  <2>1. timerMap \in Seq(MapEntry)
    BY DEF IInv, TypeOK, MapEntry
  <2> QED
    BY <1>0, <2>1, BatchFacts DEF IInv, TypeOK
<1>2. /\ phase = "io" /\ batch = <<>>
      /\ phase' = "batch" /\ batch' = expired /\ pos' = 0
      /\ active' = active \ ts /\ canceled' = {}
      /\ nextId' = nextId /\ interval' = interval
  BY <1>0 DEF BeginBatch, IInv, BatchIsLocal
<1> HIDE DEF expired
<1>3. \A u \in Timer : ~ToRun(u) /\ ~InBatch(u)
  BY <1>2 DEF ToRun, InBatch, ToSet
<1>4. \A u \in Timer : InBatch(u)' <=> u \in ts
  BY <1>0, <1>2 DEF InBatch
<1>5. \A u \in Timer : ToRun(u)' <=> u \in ts
  <2>1. DOMAIN batch' = 1..Len(batch')
    BY LenProperties DEF IInv, TypeOK
  <2>2. Waiting' = ToSet(batch')
    BY <1>2, <2>1 DEF Waiting, ToSet
  <2> QED
    BY <1>0, <1>2, <2>2 DEF ToRun
<1>6. \A u \in Timer : Life(u)' = IF u \in ts THEN "due" ELSE Life(u)
  <2> SUFFICES ASSUME NEW u \in Timer
               PROVE  Life(u)' = IF u \in ts THEN "due" ELSE Life(u)
    OBVIOUS
  <2>1. LifeState(u) /\ LifeState(u)'
    BY LifeIs, LifeIsNext
  <2>2. u \in active => ~(u >= nextId)
    BY DEF IInv, TypeOK, IdsHandedOut, Timer
  <2> QED
    BY <1>1, <1>2, <1>3, <1>4, <1>5, <2>1, <2>2 DEF LifeState
<1>7. \A u \in ts : u \in Timer /\ Life(u) = "armed"
  <2>1. \A u \in active : u \in Timer /\ ~(u >= nextId)
    BY <1>1 DEF IInv, TypeOK, IdsHandedOut, Timer
  <2> QED
    BY <1>1, <2>1, LifeIs DEF LifeState
<1>8. ts \in SUBSET Timer
  BY <1>1
<1>9. Abstract!ComeDue(ts)
  BY <1>2, <1>6, <1>7 DEF Abstract!ComeDue
<1> QED
  BY <1>8, <1>9 DEF Abstract!Next

LEMMA RunTimerMaps ==
  ASSUME IInv, IInv', RunTimer
  PROVE  Abstract!Next
<1>1. /\ DOMAIN batch = 1..Len(batch) /\ Len(batch) \in Nat
      /\ pos \in Nat /\ pos + 1 \in DOMAIN batch
  BY LenProperties DEF IInv, TypeOK, RunTimer
<1>2. PICK t \in Timer : t = batch[pos + 1]
  BY <1>1, ElementOfSeq DEF IInv, TypeOK
<1>3. /\ phase = "batch" /\ pos' = pos + 1
      /\ UNCHANGED <<phase, batch, nextId, interval, active, canceled>>
  BY DEF RunTimer, timers
<1>4. \A u \in Timer : InBatch(u)' = InBatch(u)
  BY <1>3 DEF InBatch
<1>5. \A i, j \in DOMAIN batch : batch[i] = batch[j] => i = j
  BY DEF IInv, BatchApart, IsInjective
<1>6. ASSUME NEW u \in Timer, u # t
      PROVE  ToRun(u)' <=> ToRun(u)
  <2>1. \A i \in (pos + 1)..Len(batch) : batch[i] = u => i \in (pos + 2)..Len(batch)
    BY <1>1, <1>2, <1>6
  <2>2. \A i \in (pos + 2)..Len(batch) : i \in (pos + 1)..Len(batch)
    BY <1>1
  <2>3. (pos + 1) + 1 = pos + 2
    BY <1>1
  <2> QED
    BY <1>3, <2>1, <2>2, <2>3 DEF ToRun, Waiting
<1>7. ToRun(t) /\ InBatch(t)
  <2>1. pos + 1 \in (pos + 1)..Len(batch)
    BY <1>1
  <2> QED
    BY <1>1, <1>2, <1>3, <2>1 DEF ToRun, InBatch, Waiting, ToSet
<1>8. ~ToRun(t)'
  <2>1. \A i \in (pos + 1 + 1)..Len(batch) : i \in DOMAIN batch /\ i # pos + 1
    BY <1>1
  <2>2. \A i \in (pos + 1 + 1)..Len(batch) : batch[i] # t
    BY <1>1, <1>2, <1>5, <2>1
  <2> QED
    BY <1>3, <2>2 DEF ToRun, Waiting
<1>9. \A u \in Timer : u # t => Life(u)' = Life(u)
  BY <1>3, <1>4, <1>6, SameLife
<1>10. t \notin active /\ ~(t >= nextId)
  <2>1. t \notin active
    BY <1>1, <1>2, <1>3 DEF IInv, BatchApart
  <2>2. t < nextId /\ t \in Nat /\ nextId \in Nat
    <3>1. \A i \in DOMAIN batch : batch[i] < nextId
      BY DEF IInv, IdsHandedOut
    <3>2. t \in Nat /\ nextId \in Nat
      BY DEF IInv, TypeOK, Timer
    <3> QED
      BY <1>1, <1>2, <3>1, <3>2
  <2> QED
    BY <2>1, <2>2
<1>11. LifeState(t) /\ LifeState(t)'
  BY LifeIs, LifeIsNext
<1>12. \/ Life(t) = "due" /\ Life(t)' = "ran"
       \/ Life(t) = "doomed" /\ Life(t)' = "gone"
  BY <1>3, <1>4, <1>7, <1>8, <1>10, <1>11 DEF LifeState
<1>13. Abstract!Becomes(t, "due", "ran") \/ Abstract!Becomes(t, "doomed", "gone")
  BY <1>9, <1>12, OneBecomes
<1>14. Abstract!Run(t)
  BY <1>3, <1>13 DEF Abstract!Run
<1> QED
  BY <1>14 DEF Abstract!Next

LEMMA ResetTimerMaps ==
  ASSUME IInv, IInv', ResetTimer
  PROVE  Abstract!Next \/ UNCHANGED Abstract!vars
<1>1. /\ DOMAIN batch = 1..Len(batch) /\ Len(batch) \in Nat
      /\ pos \in Nat /\ pos + 1 \in DOMAIN batch
  BY LenProperties DEF IInv, TypeOK, ResetTimer
<1>2. PICK t \in Timer : t = batch[pos + 1]
  BY <1>1, ElementOfSeq DEF IInv, TypeOK
<1>3. /\ phase = "reset"
      /\ UNCHANGED <<phase, batch, nextId, interval, canceled>>
      /\ active' = IF ToRearm(t) THEN active \cup {t} ELSE active
  BY <1>2 DEF ResetTimer
<1>4. \A u \in Timer : InBatch(u)' = InBatch(u) /\ ~ToRun(u) /\ ~ToRun(u)'
  BY <1>3 DEF InBatch, ToRun
<1>5. \A u \in Timer : u # t => Life(u)' = Life(u)
  BY <1>3, <1>4, SameLife
<1>6. InBatch(t) /\ t \notin active /\ ~(t >= nextId)
  <2>1. InBatch(t)
    BY <1>1, <1>2 DEF InBatch, ToSet
  <2>2. t \notin active
    BY <1>1, <1>2 DEF IInv, BatchApart
  <2>3. \A i \in DOMAIN batch : batch[i] < nextId
    BY DEF IInv, IdsHandedOut
  <2>4. t \in Nat /\ nextId \in Nat
    BY DEF IInv, TypeOK, Timer
  <2> QED
    BY <1>1, <1>2, <2>1, <2>2, <2>3, <2>4
<1>7. LifeState(t) /\ LifeState(t)'
  BY LifeIs, LifeIsNext
<1>8. CASE ToRearm(t)
  <2>1. Life(t) = "ran" /\ Life(t)' = "armed"
    BY <1>3, <1>4, <1>6, <1>7, <1>8 DEF LifeState, ToRearm
  <2>2. Abstract!Becomes(t, "ran", "armed")
    BY <1>5, <2>1, OneBecomes
  <2>3. Abstract!Rearm(t)
    BY <1>3, <1>8, <2>2 DEF Abstract!Rearm, ToRearm
  <2> QED
    BY <2>3 DEF Abstract!Next
<1>9. CASE ~ToRearm(t)
  <2>1. Life(t)' = Life(t)
    BY <1>3, <1>4, <1>9, SameLife
  <2>2. \A u \in Timer : Life(u)' = Life(u)
    BY <1>5, <2>1
  <2> QED
    BY <1>3, <2>2 DEF Abstract!vars
<1> QED
  BY <1>8, <1>9

LEMMA EndResetMaps ==
  ASSUME IInv, IInv', EndReset
  PROVE  Abstract!Next
<1>1. /\ DOMAIN batch = 1..Len(batch) /\ Len(batch) \in Nat
      /\ phase = "reset" /\ pos = Len(batch)
      /\ phase' = "top" /\ batch' = <<>>
      /\ UNCHANGED <<nextId, interval, active, canceled>>
  BY LenProperties DEF IInv, TypeOK, EndReset, timers
<1>2. \A u \in Timer : ~ToRun(u) /\ ~ToRun(u)' /\ ~InBatch(u)'
  BY <1>1 DEF InBatch, ToRun, ToSet
<1>3. PICK ts \in SUBSET Timer :
        ts = {u \in Timer : InBatch(u) /\ u \notin active /\ u \notin canceled}
  OBVIOUS
<1>4. \A u \in Timer : InBatch(u) => ~(u >= nextId)
  <2>1. \A i \in DOMAIN batch : batch[i] < nextId /\ batch[i] \in Timer
    BY <1>1, ElementOfSeq DEF IInv, IdsHandedOut, TypeOK
  <2>2. nextId \in Nat /\ Timer \subseteq Nat
    <3>1. nextId \in 1..(MaxTimers + 1) /\ MaxTimers \in Nat
      BY TimeAssumption DEF IInv, TypeOK
    <3> QED
      BY <3>1 DEF Timer
  <2>3. \A i \in DOMAIN batch : ~(batch[i] >= nextId)
    <3> SUFFICES ASSUME NEW i \in DOMAIN batch
                 PROVE  ~(batch[i] >= nextId)
      OBVIOUS
    <3>1. batch[i] \in Nat /\ batch[i] < nextId
      BY <2>1, <2>2, Zenon
    <3> QED
      BY <2>2, <3>1
  <2> QED
    BY <2>3 DEF InBatch, ToSet
<1>5. \A u \in ts : Life(u) = "ran"
  BY <1>2, <1>3, <1>4, LifeIs DEF LifeState
<1>6. \A u \in ts : ~(interval[u] > 0)
  <2>1. \A i \in DOMAIN batch : ToRearm(batch[i]) => batch[i] \in active
    BY <1>1 DEF IInv, ResetSoFar
  <2> QED
    BY <1>3, <2>1 DEF ToRearm, InBatch, ToSet
<1>7. \A u \in Timer : Life(u)' = IF u \in ts THEN "gone" ELSE Life(u)
  <2> SUFFICES ASSUME NEW u \in Timer
               PROVE  Life(u)' = IF u \in ts THEN "gone" ELSE Life(u)
    OBVIOUS
  <2>1. LifeState(u) /\ LifeState(u)'
    BY LifeIs, LifeIsNext
  <2> QED
    BY <1>1, <1>2, <1>3, <1>4, <2>1 DEF LifeState
<1>8. Abstract!Forget(ts)
  BY <1>1, <1>5, <1>6, <1>7 DEF Abstract!Forget
<1> QED
  BY <1>8 DEF Abstract!Next

LEMMA OtherStepsStutter ==
  ASSUME IInv, IInv',
         \/ StartPoll \/ PollTimesOut \/ PollReportsIo \/ BeginReset \/ Tick
         \/ UNCHANGED vars
  PROVE  UNCHANGED Abstract!vars
<1>1. UNCHANGED <<nextId, interval, active, canceled, batch>>
  BY DEF StartPoll, PollTimesOut, PollReportsIo, BeginReset, Tick, vars, timers
<1>2. ASSUME NEW u \in Timer
      PROVE  ToRun(u)' <=> ToRun(u)
  <2>1. CASE BeginReset
    <3>1. ~ToRun(u)'
      BY <2>1 DEF BeginReset, ToRun
    <3>2. (pos + 1)..Len(batch) = {}
      BY <2>1, LenProperties DEF BeginReset, IInv, TypeOK
    <3>3. ~ToRun(u)
      BY <3>2 DEF ToRun, Waiting
    <3> QED
      BY <3>1, <3>3
  <2>2. CASE StartPoll \/ PollTimesOut \/ PollReportsIo
    BY <2>2 DEF StartPoll, PollTimesOut, PollReportsIo, ToRun
  <2>3. CASE Tick \/ UNCHANGED vars
    BY <1>1, <2>3 DEF Tick, vars, ToRun, Waiting
  <2> QED
    BY <2>1, <2>2, <2>3
<1>3. \A u \in Timer : InBatch(u)' = InBatch(u)
  BY <1>1 DEF InBatch
<1>4. \A u \in Timer : Life(u)' = Life(u)
  BY <1>1, <1>2, <1>3, SameLife
<1> QED
  BY <1>1, <1>4 DEF Abstract!vars

\* Seen timer by timer the manager behaves as TimerLife promises: no timer
\* runs before it is due or a second time without being armed again, and a
\* timer that was cancelled before it came due never runs (AddTimerInLoop,
\* DeleteTimerInLoop, DoExpiredTimers, Reset).
THEOREM Refinement == Spec => ImplementsTimerLife
<1>1. Init => Abstract!Init
  <2> SUFFICES ASSUME Init
               PROVE  Abstract!Init
    OBVIOUS
  <2>1. IInv
    BY InitEstablishes
  <2>2. \A t \in Timer : Life(t) = "unused"
    BY <2>1, LifeIs DEF LifeState, Init, Timer
  <2>3. {t \in Timer : interval[t] > 0} = {}
    BY DEF Init
  <2> QED
    BY <2>2, <2>3 DEF Abstract!Init
<1>2. IInv /\ IInv' /\ [Next]_vars => [Abstract!Next]_(Abstract!vars)
  <2> SUFFICES ASSUME IInv, IInv', [Next]_vars
               PROVE  Abstract!Next \/ UNCHANGED Abstract!vars
    OBVIOUS
  <2>1. ASSUME NEW delay \in Delay, NEW every \in Interval, AddTimer(delay, every)
        PROVE  Abstract!Next
    BY <2>1, AddTimerMaps
  <2>2. ASSUME NEW t \in Timer, DeleteTimer(t)
        PROVE  Abstract!Next \/ UNCHANGED Abstract!vars
    BY <2>2, DeleteTimerMaps
  <2>3. CASE BeginBatch
    BY <2>3, BeginBatchMaps
  <2>4. CASE RunTimer
    BY <2>4, RunTimerMaps
  <2>5. CASE ResetTimer
    BY <2>5, ResetTimerMaps
  <2>6. CASE EndReset
    BY <2>6, EndResetMaps
  <2>7. CASE \/ StartPoll \/ PollTimesOut \/ PollReportsIo \/ BeginReset \/ Tick
             \/ UNCHANGED vars
    BY <2>7, OtherStepsStutter
  <2> QED
    BY <2>1, <2>2, <2>3, <2>4, <2>5, <2>6, <2>7 DEF Next, Loop
<1> QED
  BY <1>1, <1>2, Invariance, PTL DEF Spec, ImplementsTimerLife, Abstract!Spec

----------------------------------------------------------------------------
\* Sleeping no longer than the earliest timer allows

\* What poll(2) was told stays right while it sleeps.
WakeInTime ==
  phase = "poll" /\ timerMap # <<>> =>
    wake <= now \/ wake < timerMap[1].when + TicksPerMs

\* The difference of two truncated times, against the difference itself.
LEMMA TruncatedDifference ==
  ASSUME NEW a \in Nat, NEW b \in Nat, NEW k \in Nat \ {0}
  PROVE  a + (b \div k - a \div k) * k < b + k
<1> DEFINE p == a \div k
           q == b \div k
<1>1. p \in Nat /\ a < p * k + k /\ p * k \in Nat
  OBVIOUS
<1>2. q \in Nat /\ q * k <= b /\ q * k \in Nat
  OBVIOUS
<1> HIDE DEF p, q
<1>3. (q - p) * k = q * k - p * k
  BY <1>1, <1>2
<1>4. a + (q * k - p * k) < b + k
  BY <1>1, <1>2
<1> QED
  BY <1>3, <1>4 DEF p, q

LEMMA WakeStep == IInv /\ WakeInTime /\ [Next]_vars => WakeInTime'
<1> SUFFICES ASSUME IInv, WakeInTime, [Next]_vars, phase' = "poll",
                    timerMap' # <<>>
             PROVE  wake' <= now' \/ wake' < timerMap'[1].when + TicksPerMs
  BY DEF WakeInTime
<1>1. CASE StartPoll
  <2> DEFINE first == timerMap[1].when
  <2>1. timerMap' = timerMap /\ now' = now
        /\ wake' = now + GetNextExpiredDuration * TicksPerMs
    BY <1>1 DEF StartPoll, timers
  <2>2. first \in Nat
    <3>1. timerMap \in Seq(MapEntry) /\ timerMap # <<>>
      BY <2>1 DEF IInv, TypeOK, MapEntry
    <3>2. Len(timerMap) \in Nat \ {0}
      BY <3>1, EmptySeq
    <3>3. 1 \in 1..Len(timerMap)
      BY <3>2
    <3>4. timerMap[1] \in MapEntry
      BY <3>1, <3>3, ElementOfSeq
    <3> QED
      BY <3>4 DEF MapEntry
  <2>3. now \in Nat /\ TicksPerMs \in Nat \ {0}
    BY TimeAssumption DEF IInv, TypeOK
  <2> DEFINE left == first \div TicksPerMs - now \div TicksPerMs
  <2>4. GetNextExpiredDuration = IF left < 0 THEN 0 ELSE left
    BY <2>1 DEF GetNextExpiredDuration
  <2>5. now + left * TicksPerMs < first + TicksPerMs
    BY <2>2, <2>3, TruncatedDifference
  <2> HIDE DEF first, left
  <2>6. CASE left < 0
    BY <2>1, <2>3, <2>4, <2>6
  <2>7. CASE ~(left < 0)
    BY <2>1, <2>4, <2>5, <2>7 DEF first
  <2> QED
    BY <2>6, <2>7
<1>2. CASE Tick \/ UNCHANGED vars
  <2>1. UNCHANGED <<phase, wake, timerMap>> /\ (now' = now \/ now' = now + 1)
    BY <1>2 DEF Tick, vars, timers
  <2>2. now \in Nat /\ wake \in Nat
    BY DEF IInv, TypeOK
  <2> QED
    BY <2>1, <2>2 DEF WakeInTime
<1> QED
  BY <1>1, <1>2
     DEF Next, Loop, AddTimer, DeleteTimer, InCallback, PollTimesOut, PollReportsIo,
         BeginBatch, RunTimer, BeginReset, ResetTimer, EndReset

\* The timeout of poll(2) is the difference of two truncated times, and still
\* the loop is never more than a millisecond late because it slept
\* (GetNextExpiredDuration).
THEOREM NeverOversleeps == Spec => []NoOversleep
<1>1. Init => WakeInTime
  BY DEF Init, WakeInTime
<1>2. IInv /\ WakeInTime => NoOversleep
  BY DEF IInv, TypeOK, WakeInTime, NoOversleep
<1> QED
  BY <1>1, <1>2, Invariance, WakeStep, PTL DEF Spec

----------------------------------------------------------------------------
\* The period between two runs

\* An armed timer that ran before is not due before its period has passed.
PeriodAhead(t) == lastRun[t] >= 0 => lastRun[t] + interval[t] <= expires[t]

RunsSpaced ==
  /\ \A t \in Timer : lastRun[t] <= now
  /\ \A t \in Timer : lastRun[t] >= 0 => interval[t] > 0
  /\ phase = "reset" => \A t \in Timer : lastRun[t] <= resetAt
  /\ \A t \in active : PeriodAhead(t)
  /\ phase = "batch" =>
       \A i \in DOMAIN batch :
         i > pos => PeriodAhead(batch[i]) /\ expires[batch[i]] < now

LEMMA SpacedStep == IInv /\ RunsSpaced /\ [Next]_vars => RunsSpaced'
<1> SUFFICES ASSUME IInv, RunsSpaced, [Next]_vars
             PROVE  RunsSpaced'
  OBVIOUS
<1>1. /\ now \in Nat /\ pos \in Nat /\ resetAt \in Nat /\ nextId \in Nat
      /\ active \subseteq Timer
      /\ expires \in [Timer -> Nat]
      /\ lastRun \in [Timer -> Nat \cup {-1}]
      /\ interval \in [Timer -> Nat]
      /\ DOMAIN batch = 1..Len(batch) /\ Len(batch) \in Nat
      /\ \A i \in DOMAIN batch : batch[i] \in Timer
  <2>1. Interval \cup {0} \subseteq Nat
    BY TimeAssumption
  <2> QED
    BY <2>1, LenProperties, ElementOfSeq DEF IInv, TypeOK
<1>2. ASSUME NEW delay \in Delay, NEW every \in Interval, AddTimer(delay, every)
      PROVE  RunsSpaced'
  <2>0. PICK t \in Timer : t = nextId
    BY <1>2 DEF AddTimer
  <2>1. /\ expires' = [expires EXCEPT ![t] = now + delay]
        /\ interval' = [interval EXCEPT ![t] = every]
        /\ active' = active \cup {t}
        /\ phase # "reset"
        /\ UNCHANGED <<now, phase, batch, pos, resetAt, lastRun>>
    BY <1>2, <2>0 DEF AddTimer, InCallback
  <2>2. ~(lastRun[t] >= 0)
    <3>1. interval[t] = 0
      BY <1>1, <2>0 DEF IInv, IdsHandedOut
    <3> QED
      BY <3>1 DEF RunsSpaced
  <2>3. \A u \in Timer : u # t => expires'[u] = expires[u] /\ interval'[u] = interval[u]
    BY <1>1, <2>1
  <2>4. \A u \in Timer : PeriodAhead(u) => PeriodAhead(u)'
    BY <2>1, <2>2, <2>3 DEF PeriodAhead
  <2>5. \A i \in DOMAIN batch : batch[i] # t
    BY <1>1, <2>0 DEF IInv, IdsHandedOut
  <2>6. PeriodAhead(t)'
    BY <2>1, <2>2 DEF PeriodAhead
  <2>7. \A u \in active' : PeriodAhead(u)'
    BY <1>1, <2>1, <2>4, <2>6 DEF RunsSpaced
  <2>8. \A u \in Timer : lastRun'[u] >= 0 => interval'[u] > 0
    BY <2>1, <2>2, <2>3 DEF RunsSpaced
  <2>9. ASSUME phase = "batch", NEW i \in DOMAIN batch, i > pos
        PROVE  PeriodAhead(batch[i])' /\ expires'[batch[i]] < now
    <3>1. PICK u \in Timer : u = batch[i] /\ u # t
      BY <1>1, <2>5, <2>9
    <3>2. PeriodAhead(u) /\ expires[u] < now
      BY <2>9, <3>1 DEF RunsSpaced
    <3>3. PeriodAhead(u)' /\ expires'[u] < now
      BY <2>3, <2>4, <3>1, <3>2
    <3> QED
      BY <2>1, <3>1, <3>3 DEF PeriodAhead
  <2> QED
    BY <2>1, <2>7, <2>8, <2>9 DEF RunsSpaced
<1>3. ASSUME NEW t \in Timer, DeleteTimer(t)
      PROVE  RunsSpaced'
  <2>1. /\ UNCHANGED <<now, phase, expires, interval, batch, pos, resetAt, lastRun>>
        /\ active' \subseteq active
    BY <1>3 DEF DeleteTimer, Erase
  <2> QED
    BY <2>1 DEF RunsSpaced, PeriodAhead
<1>4. CASE BeginBatch
  <2> DEFINE d == Cardinality(DuePrefix)
             expired == [i \in 1..d |-> timerMap[i].timer]
  <2>1. /\ phase' = "batch" /\ batch' = expired
        /\ active' \subseteq active
        /\ UNCHANGED <<now, expires, interval, lastRun>>
    BY <1>4 DEF BeginBatch
  <2>2. timerMap \in Seq(MapEntry) /\ AgreeOn(timerMap, active, expires)
    BY DEF IInv, TypeOK, MapEntry
  <2>3. \A i \in 1..d : /\ timerMap[i].timer \in active
                        /\ expires[timerMap[i].timer] < now
    <3>1. DOMAIN timerMap = 1..Len(timerMap) /\ Len(timerMap) \in Nat
      BY <2>2, LenProperties
    <3>2. DuePrefix \in SUBSET (1..Len(timerMap))
      BY <3>1 DEF DuePrefix
    <3>3. ASSUME NEW i \in DuePrefix, NEW j \in 1..i
          PROVE  j \in DuePrefix
      <4>1. i \in 1..Len(timerMap) /\ \A k \in 1..i : timerMap[k].when < now
        BY <3>1, <3>3 DEF DuePrefix
      <4>2. j \in 1..Len(timerMap) /\ \A k \in 1..j : k \in 1..i
        BY <3>1, <4>1
      <4> QED
        BY <3>1, <4>1, <4>2 DEF DuePrefix
    <3>4. /\ d \in 0..Len(timerMap)
          /\ \A i \in 1..Len(timerMap) : i \in DuePrefix <=> i <= d
      BY <3>1, <3>2, <3>3, SegmentCount
    <3> HIDE DEF d
    <3>5. \A i \in 1..d : i \in DOMAIN timerMap /\ i \in DuePrefix
      BY <3>1, <3>4
    <3>6. \A i \in DuePrefix : i \in 1..i /\ timerMap[i].when < now
      BY <3>1 DEF DuePrefix
    <3> QED
      BY <2>2, <3>5, <3>6 DEF AgreeOn
  <2>4. DOMAIN expired = 1..d /\ \A i \in 1..d : expired[i] = timerMap[i].timer
    OBVIOUS
  <2> HIDE DEF d, expired
  <2>5. \A u \in active : PeriodAhead(u)'
    BY <2>1 DEF RunsSpaced, PeriodAhead
  <2>6. \A i \in DOMAIN batch' : batch'[i] \in active /\ expires'[batch'[i]] < now'
    BY <2>1, <2>3, <2>4
  <2>7. (\A i \in DOMAIN batch : PeriodAhead(batch[i]) /\ expires[batch[i]] < now)'
    BY <2>5, <2>6 DEF PeriodAhead
  <2>8. (\A u \in active : PeriodAhead(u))'
    BY <2>1, <2>5
  <2> QED
    BY <2>1, <2>7, <2>8 DEF RunsSpaced
<1>5. CASE RunTimer
  <2> pos + 1 \in DOMAIN batch
    BY <1>1, <1>5 DEF RunTimer
  <2>0. PICK t \in Timer : t = batch[pos + 1]
    BY <1>1
  <2>1. /\ phase = "batch" /\ pos' = pos + 1
        /\ lastRun' = [lastRun EXCEPT ![t] = IF interval[t] > 0 THEN now ELSE @]
        /\ UNCHANGED <<now, phase, expires, interval, active, batch, resetAt>>
    BY <1>5, <2>0 DEF RunTimer, timers
  <2>2. \A u \in Timer : u # t => lastRun'[u] = lastRun[u]
    BY <1>1, <2>1
  <2>3. lastRun'[t] = IF interval[t] > 0 THEN now ELSE lastRun[t]
    BY <1>1, <2>1
  <2>4. t \notin active
    BY <2>0, <2>1 DEF IInv, BatchApart
  <2>5. \A i \in DOMAIN batch : i > pos + 1 => batch[i] # t /\ i > pos
    <3>1. \A i, j \in DOMAIN batch : batch[i] = batch[j] => i = j
      BY DEF IInv, BatchApart, IsInjective
    <3>2. \A i \in DOMAIN batch : i > pos + 1 => i # pos + 1 /\ i > pos
      BY <1>1
    <3> QED
      BY <2>0, <3>1, <3>2
  <2>6. \A u \in active : PeriodAhead(u)'
    BY <1>1, <2>1, <2>2, <2>4 DEF RunsSpaced, PeriodAhead
  <2>7. ASSUME NEW i \in DOMAIN batch, i > pos + 1
        PROVE  PeriodAhead(batch[i])' /\ expires[batch[i]] < now
    <3>1. PICK u \in Timer : u = batch[i] /\ u # t
      BY <1>1, <2>5, <2>7
    <3>2. i > pos
      BY <2>5, <2>7
    <3>3. PeriodAhead(u) /\ expires[u] < now
      BY <2>1, <3>1, <3>2 DEF RunsSpaced
    <3>4. PeriodAhead(u)'
      BY <2>1, <2>2, <3>1, <3>3 DEF PeriodAhead
    <3> QED
      BY <2>1, <3>1, <3>3, <3>4 DEF PeriodAhead
  <2>8. ASSUME NEW u \in Timer
        PROVE  lastRun'[u] <= now /\ (lastRun'[u] >= 0 => interval[u] > 0)
    <3>1. lastRun[u] <= now /\ (lastRun[u] >= 0 => interval[u] > 0)
      BY DEF RunsSpaced
    <3>2. now <= now
      BY <1>1
    <3> QED
      BY <2>2, <2>3, <3>1, <3>2
  <2> QED
    BY <2>1, <2>6, <2>7, <2>8 DEF RunsSpaced, PeriodAhead
<1>6. CASE BeginReset
  BY <1>6 DEF BeginReset, timers, RunsSpaced, PeriodAhead
<1>7. CASE ResetTimer
  <2>0. PICK t \in Timer : t = batch[pos + 1]
    BY <1>1, <1>7 DEF ResetTimer
  <2>1. /\ phase = "reset" /\ phase' = "reset"
        /\ UNCHANGED <<now, interval, resetAt, lastRun>>
        /\ \/ /\ expires' = [expires EXCEPT ![t] = resetAt + interval[t]]
              /\ active' = active \cup {t}
           \/ UNCHANGED <<expires, active>>
    BY <1>7, <2>0 DEF ResetTimer, Restart
  <2>2. CASE UNCHANGED <<expires, active>>
    BY <2>1, <2>2 DEF RunsSpaced, PeriodAhead
  <2>3. CASE /\ expires' = [expires EXCEPT ![t] = resetAt + interval[t]]
             /\ active' = active \cup {t}
    <3>1. expires'[t] = resetAt + interval[t]
          /\ \A u \in Timer : u # t => expires'[u] = expires[u]
      BY <1>1, <2>3
    <3>2. lastRun[t] + interval[t] <= resetAt + interval[t]
      <4>1. lastRun[t] <= resetAt
        BY <2>1 DEF RunsSpaced
      <4>2. lastRun[t] \in Int /\ interval[t] \in Int
        BY <1>1
      <4> QED
        BY <1>1, <4>1, <4>2
    <3>3. \A u \in active' : PeriodAhead(u)'
      BY <1>1, <2>1, <2>3, <3>1, <3>2 DEF RunsSpaced, PeriodAhead
    <3> QED
      BY <2>1, <3>3 DEF RunsSpaced
  <2> QED
    BY <2>1, <2>2, <2>3
<1>8. CASE StartPoll \/ PollTimesOut \/ PollReportsIo \/ EndReset
  BY <1>8 DEF StartPoll, PollTimesOut, PollReportsIo, EndReset, timers, RunsSpaced,
              PeriodAhead
<1>9. CASE Tick
  <2>1. /\ now' = now + 1
        /\ UNCHANGED <<phase, expires, interval, active, batch, pos, resetAt, lastRun>>
    BY <1>9 DEF Tick, timers
  <2>2. \A u \in Timer : lastRun[u] \in Int /\ expires[u] \in Int
    BY <1>1
  <2> QED
    BY <1>1, <2>1, <2>2 DEF RunsSpaced, PeriodAhead
<1>10. CASE UNCHANGED vars
  BY <1>10 DEF vars, timers, RunsSpaced, PeriodAhead
<1> QED
  BY <1>2, <1>3, <1>4, <1>5, <1>6, <1>7, <1>8, <1>9, <1>10 DEF Next, Loop

\* However late a repeating timer runs, its next run is at least a period
\* away: Reset counts from the time the batch was done, never from the expiry
\* that was missed (Timer::Restart).
THEOREM PeriodsAreKept == Spec => PeriodKept
<1>1. Init => RunsSpaced
  BY DEF Init, RunsSpaced
<1>2. IInv /\ RunsSpaced /\ [Next]_vars =>
        [\A t \in Timer :
           lastRun'[t] # lastRun[t] /\ lastRun[t] >= 0
             => lastRun'[t] > lastRun[t] + interval[t]]_vars
  <2> SUFFICES ASSUME IInv, RunsSpaced, [Next]_vars, NEW t \in Timer,
                      lastRun'[t] # lastRun[t], lastRun[t] >= 0
               PROVE  lastRun'[t] > lastRun[t] + interval[t]
    OBVIOUS
  <2>1. RunTimer
    BY DEF Next, Loop, AddTimer, DeleteTimer, StartPoll, PollTimesOut,
           PollReportsIo, BeginBatch, BeginReset, ResetTimer, EndReset, Tick, vars
  <2>2. lastRun \in [Timer -> Nat \cup {-1}] /\ pos \in Nat
        /\ expires \in [Timer -> Nat] /\ now \in Nat
    BY DEF IInv, TypeOK
  <2>3. interval[t] \in Nat
    <3>1. Interval \cup {0} \subseteq Nat /\ interval[t] \in Interval \cup {0}
      BY TimeAssumption DEF IInv, TypeOK
    <3> QED
      BY <3>1, Zenon
  <2>4. t = batch[pos + 1] /\ lastRun'[t] = now
    BY <2>1, <2>2 DEF RunTimer
  <2>5. pos + 1 \in DOMAIN batch /\ pos + 1 > pos /\ phase = "batch"
    BY <2>1, <2>2, LenProperties DEF RunTimer, IInv, TypeOK
  <2>6. PeriodAhead(t) /\ expires[t] < now
    BY <2>4, <2>5 DEF RunsSpaced
  <2> QED
    BY <2>2, <2>3, <2>4, <2>6 DEF PeriodAhead
<1> QED
  BY <1>1, <1>2, Invariance, SpacedStep, PTL DEF Spec, PeriodKept
====
