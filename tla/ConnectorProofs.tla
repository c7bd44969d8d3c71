---- MODULE ConnectorProofs ----
(***************************************************************************)
(* For all delays, and all that connect(2) may return.  Whatever the user  *)
(* calls, and when: no descriptor leaks and no wish to connect is dropped, *)
(* however many retries are armed.  If nobody connects while a retry is    *)
(* due that was stopped too late: descriptor, event and retry are those of *)
(* one attempt that is wanted, and what the owner of a client sees is an   *)
(* Attempt.  If nobody stops in the middle of an attempt either, no        *)
(* assertion of connector.cc fails.                                        *)
(***************************************************************************)
EXTENDS Connector, SequenceTheorems, TLAPS

Kind == {"reset", "start"}

\* timer_id_ names an armed retry, or none.
Proper(t) ==
  /\ t \in [armed : Seq(Kind), named : Nat]
  /\ t.named # 0 => t.named <= Len(t.armed) /\ t.armed[t.named] = "start"

Single(queue) ==
  \A i, j \in DOMAIN queue : queue[i] = "reset" /\ queue[j] = "reset" => i = j

----------------------------------------------------------------------------
\* What the operations on timers do, for any number of them

LEMMA Joined ==
  ASSUME NEW p \in Seq(Kind), NEW q \in Seq(Kind)
  PROVE  /\ p \o q \in Seq(Kind)
         /\ Len(p \o q) = Len(p) + Len(q)
         /\ \A i \in 1..Len(p) : (p \o q)[i] = p[i]
         /\ \A i \in 1..Len(q) : (p \o q)[Len(p) + i] = q[i]
  <1>1. /\ p \o q \in Seq(Kind) /\ Len(p \o q) = Len(p) + Len(q)
        /\ \A i \in 1..(Len(p) + Len(q)) :
             (p \o q)[i] = IF i <= Len(p) THEN p[i] ELSE q[i - Len(p)]
    BY ConcatProperties
  <1>2. Len(p) \in Nat /\ Len(q) \in Nat
    OBVIOUS
  <1>3. ASSUME NEW i \in 1..Len(q) PROVE (p \o q)[Len(p) + i] = q[i]
    <2>1. /\ Len(p) + i \in 1..(Len(p) + Len(q)) /\ ~(Len(p) + i <= Len(p))
          /\ (Len(p) + i) - Len(p) = i
      BY <1>2
    <2> QED  BY <1>1, <2>1
  <1> QED  BY <1>1, <1>2, <1>3

LEMMA Suffix ==
  ASSUME NEW q \in Seq(Kind), NEW n \in 1..Len(q)
  PROVE  /\ SubSeq(q, n + 1, Len(q)) \in Seq(Kind)
         /\ Len(SubSeq(q, n + 1, Len(q))) = Len(q) - n
         /\ \A j \in 1..(Len(q) - n) : SubSeq(q, n + 1, Len(q))[j] = q[n + j]
  <1>1. Len(q) \in Nat /\ n \in Nat /\ n <= Len(q)
    OBVIOUS
  <1> DEFINE c == SubSeq(q, n + 1, Len(q))
             m == IF n + 1 <= Len(q) THEN Len(q) - (n + 1) + 1 ELSE 0
  <1>2. /\ c \in Seq(Kind) /\ Len(c) = m
        /\ \A j \in 1..m : c[j] = q[(n + 1) + j - 1]
    BY <1>1, SubSeqProperties
  <1> HIDE DEF c
  <1>3. m = Len(q) - n
    BY <1>1
  <1>4. \A j \in 1..(Len(q) - n) : (n + 1) + j - 1 = n + j
    BY <1>1
  <1>5. /\ c \in Seq(Kind) /\ Len(c) = Len(q) - n
        /\ \A j \in 1..(Len(q) - n) : c[j] = q[n + j]
    BY <1>2, <1>3, <1>4
  <1> QED  BY <1>5 DEF c

\* A reset put anywhere moves the retry that is named, and timer_id_ with it.
LEMMA ResetProper ==
  ASSUME NEW t, Proper(t), NEW u \in WithReset(t)
  PROVE  /\ Proper(u)
         /\ ~Holds(t.armed, "reset") => Holds(u.armed, "reset") /\ Single(u.armed)
  <1>1. PICK i \in 1..(Len(t.armed) + 1) :
          u = [armed |-> InsertAt(t.armed, i, "reset"),
               named |-> IF i <= t.named THEN t.named + 1 ELSE t.named]
    BY DEF WithReset
  <1> DEFINE a == t.armed
             one == <<"reset">>
             left == SubSeq(a, 1, i - 1)
             right == SubSeq(a, i, Len(a))
             begin == left \o one
  <1>2. a \in Seq(Kind) /\ t.named \in Nat /\ Len(a) \in Nat
    BY DEF Proper
  <1>3. left \in Seq(Kind) /\ Len(left) = i - 1 /\ \A j \in 1..(i - 1) : left[j] = a[j]
    BY <1>2, SubSeqProperties
  <1>4. /\ right \in Seq(Kind) /\ Len(right) = Len(a) + 1 - i
        /\ \A j \in 1..(Len(a) + 1 - i) : right[j] = a[i + j - 1]
    BY <1>2, SubSeqProperties
  <1>5. one \in Seq(Kind) /\ Len(one) = 1 /\ one[1] = "reset"
    BY DEF Kind
  <1>6. u.armed = begin \o right
    BY <1>1 DEF InsertAt
  <1> HIDE DEF one, left, right, begin
  <1>7. /\ begin \in Seq(Kind) /\ Len(begin) = i
        /\ \A j \in 1..(i - 1) : begin[j] = a[j]
        /\ begin[i] = "reset"
    <2>1. /\ begin \in Seq(Kind) /\ Len(begin) = Len(left) + Len(one)
          /\ \A j \in 1..Len(left) : begin[j] = left[j]
          /\ \A j \in 1..Len(one) : begin[Len(left) + j] = one[j]
      BY <1>3, <1>5, Joined DEF begin
    <2>2. (i - 1) + 1 = i /\ i \in Nat
      BY <1>2
    <2> QED  BY <1>3, <1>5, <2>1, <2>2
  <1>8. /\ u.armed \in Seq(Kind) /\ Len(u.armed) = Len(a) + 1
        /\ \A j \in 1..(i - 1) : u.armed[j] = a[j]
        /\ \A j \in i..Len(a) : u.armed[j + 1] = a[j]
        /\ u.armed[i] = "reset"
    <2>1. /\ u.armed \in Seq(Kind) /\ Len(u.armed) = i + Len(right)
          /\ \A j \in 1..i : u.armed[j] = begin[j]
          /\ \A j \in 1..Len(right) : u.armed[i + j] = right[j]
      <3>1. /\ begin \o right \in Seq(Kind) /\ Len(begin \o right) = Len(begin) + Len(right)
            /\ \A j \in 1..Len(begin) : (begin \o right)[j] = begin[j]
            /\ \A j \in 1..Len(right) : (begin \o right)[Len(begin) + j] = right[j]
        BY <1>4, <1>7, Joined
      <3> QED  BY <1>6, <1>7, <3>1
    <2>2. i + (Len(a) + 1 - i) = Len(a) + 1 /\ i \in 1..i
      BY <1>2
    <2>3. \A j \in 1..(i - 1) : j \in 1..i
      BY <1>2
    <2>4. ASSUME NEW j \in i..Len(a) PROVE u.armed[j + 1] = a[j]
      <3>1. /\ j + 1 - i \in 1..(Len(a) + 1 - i) /\ i + (j + 1 - i) = j + 1
            /\ i + (j + 1 - i) - 1 = j
        BY <1>2
      <3>2. u.armed[i + (j + 1 - i)] = right[j + 1 - i]
        BY <1>4, <2>1, <3>1
      <3> QED  BY <1>4, <3>1, <3>2
    <2> QED  BY <1>4, <1>7, <2>1, <2>2, <2>3, <2>4
  <1>9. /\ u.named = (IF i <= t.named THEN t.named + 1 ELSE t.named)
        /\ u = [armed |-> u.armed, named |-> u.named]
    BY <1>1
  <1>10. u.named # 0 => u.named <= Len(u.armed) /\ u.armed[u.named] = "start"
    BY <1>2, <1>8, <1>9 DEF Proper
  <1>11. ASSUME ~Holds(a, "reset")
         PROVE  Holds(u.armed, "reset") /\ Single(u.armed)
    <2>1. DOMAIN a = 1..Len(a) /\ DOMAIN u.armed = 1..(Len(a) + 1)
      BY <1>2, <1>8
    <2>2. ASSUME NEW j \in 1..(Len(a) + 1), j # i PROVE u.armed[j] # "reset"
      <3>1. CASE j < i
        <4>1. j \in 1..(i - 1) /\ j \in DOMAIN a
          BY <1>2, <2>1, <3>1
        <4> QED  BY <1>8, <1>11, <4>1 DEF Holds
      <3>2. CASE j > i
        <4>1. j - 1 \in i..Len(a) /\ (j - 1) + 1 = j
          BY <1>2, <3>2
        <4>2. u.armed[j] = a[j - 1] /\ j - 1 \in 1..Len(a)
          BY <1>2, <1>8, <4>1
        <4> QED  BY <1>11, <2>1, <4>2 DEF Holds
      <3> QED  BY <1>2, <2>2, <3>1, <3>2
    <2> QED  BY <1>8, <2>1, <2>2 DEF Holds, Single
  <1>12. Proper(u)
    BY <1>2, <1>8, <1>9, <1>10 DEF Proper
  <1> QED  BY <1>11, <1>12

\* A new retry is the one that is named.
LEMMA RetryProper ==
  ASSUME NEW t, Proper(t)
  PROVE  /\ Proper(WithRetry(t)) /\ WithRetry(t).named # 0
         /\ Holds(WithRetry(t).armed, "reset") <=> Holds(t.armed, "reset")
         /\ Single(t.armed) => Single(WithRetry(t).armed)
  <1>1. t.armed \in Seq(Kind) /\ "start" \in Kind
    BY DEF Proper, Kind
  <1>2. /\ Append(t.armed, "start") \in Seq(Kind)
        /\ Len(Append(t.armed, "start")) = Len(t.armed) + 1
        /\ Append(t.armed, "start")[Len(t.armed) + 1] = "start"
        /\ \A i \in 1..Len(t.armed) : Append(t.armed, "start")[i] = t.armed[i]
    BY <1>1, AppendProperties
  <1>3. /\ DOMAIN t.armed = 1..Len(t.armed)
        /\ DOMAIN Append(t.armed, "start") = 1..(Len(t.armed) + 1)
    BY <1>1, <1>2
  <1>4. WithRetry(t).armed = Append(t.armed, "start")
    BY DEF WithRetry
  <1>5. Proper(WithRetry(t)) /\ WithRetry(t).named # 0
    BY <1>1, <1>2 DEF Proper, WithRetry
  <1> QED  BY <1>1, <1>2, <1>3, <1>4, <1>5 DEF Holds, Single

\* Deleting the named retry leaves the others, and the reset.
LEMMA CancelProper ==
  ASSUME NEW t, Proper(t)
  PROVE  /\ Proper(WithoutRetry(t))
         /\ Holds(WithoutRetry(t).armed, "reset") <=> Holds(t.armed, "reset")
         /\ Single(t.armed) => Single(WithoutRetry(t).armed)
  <1>1. CASE t.named = 0
    BY <1>1 DEF WithoutRetry
  <1>2. CASE t.named # 0
    <2> DEFINE a == t.armed
               k == t.named
               b == RemoveAt(a, k)
    <2>1. a \in Seq(Kind) /\ k \in 1..Len(a) /\ a[k] = "start" /\ Len(a) \in Nat
      BY <1>2 DEF Proper
    <2>2. /\ SubSeq(a, 1, k - 1) \in Seq(Kind) /\ Len(SubSeq(a, 1, k - 1)) = k - 1
          /\ \A i \in 1..(k - 1) : SubSeq(a, 1, k - 1)[i] = a[i]
      BY <2>1, SubSeqProperties
    <2>3. /\ SubSeq(a, k + 1, Len(a)) \in Seq(Kind)
          /\ Len(SubSeq(a, k + 1, Len(a))) = Len(a) - k
          /\ \A i \in 1..(Len(a) - k) : SubSeq(a, k + 1, Len(a))[i] = a[k + i]
      BY <2>1, Suffix
    <2> DEFINE l == SubSeq(a, 1, k - 1)
               c == SubSeq(a, k + 1, Len(a))
    <2> HIDE DEF b, l, c
    <2>4. /\ l \in Seq(Kind) /\ Len(l) = k - 1 /\ \A i \in 1..(k - 1) : l[i] = a[i]
          /\ c \in Seq(Kind) /\ Len(c) = Len(a) - k
          /\ \A i \in 1..(Len(a) - k) : c[i] = a[k + i]
      BY <2>2, <2>3 DEF l, c
    <2>5. b = l \o c
      BY DEF RemoveAt, b, l, c
    <2>6. /\ b \in Seq(Kind) /\ Len(b) = Len(l) + Len(c)
          /\ \A i \in 1..Len(l) : b[i] = l[i]
          /\ \A i \in 1..Len(c) : b[Len(l) + i] = c[i]
      BY <2>4, <2>5, Joined
    <2>7. b \in Seq(Kind) /\ Len(b) = Len(a) - 1
      BY <2>1, <2>4, <2>6
    <2>8. \A i \in 1..(k - 1) : b[i] = a[i]
      BY <2>4, <2>6
    <2>9. ASSUME NEW i \in k..(Len(a) - 1) PROVE b[i] = a[i + 1]
      <3> DEFINE n == Len(a)
      <3>1. n \in Nat /\ k \in 1..n /\ i \in k..(n - 1)
        BY <2>1
      <3> HIDE DEF k, n
      <3>2. /\ i + 1 - k \in 1..(n - k) /\ (k - 1) + (i + 1 - k) = i
            /\ k + (i + 1 - k) = i + 1
        BY <3>1
      <3> USE DEF k, n
      <3>3. b[(k - 1) + (i + 1 - k)] = c[i + 1 - k]
        BY <2>4, <2>6, <3>2
      <3> QED  BY <2>4, <3>2, <3>3
    <2>10. DOMAIN a = 1..Len(a) /\ DOMAIN b = 1..(Len(a) - 1)
      BY <2>1, <2>7
    <2>11. Holds(b, "reset") <=> Holds(a, "reset")
      <3>1. ASSUME NEW i \in 1..Len(a), a[i] = "reset" PROVE Holds(b, "reset")
        <4>1. CASE i < k
          <5>1. i \in 1..(k - 1) /\ i \in DOMAIN b
            BY <2>1, <2>10, <4>1
          <5> QED  BY <2>8, <3>1, <5>1 DEF Holds
        <4>2. CASE i > k
          <5>1. i - 1 \in k..(Len(a) - 1) /\ i - 1 \in DOMAIN b
            BY <2>1, <2>10, <4>2
          <5>2. b[i - 1] = a[i]
            BY <2>1, <2>9, <5>1
          <5> QED  BY <3>1, <5>1, <5>2 DEF Holds
        <4> QED  BY <2>1, <3>1, <4>1, <4>2
      <3>2. ASSUME NEW i \in 1..(Len(a) - 1), b[i] = "reset" PROVE Holds(a, "reset")
        <4>1. CASE i < k
          <5>1. i \in 1..(k - 1) /\ i \in DOMAIN a
            BY <2>1, <2>10, <4>1
          <5> QED  BY <2>8, <3>2, <5>1 DEF Holds
        <4>2. CASE ~(i < k)
          <5>1. i \in k..(Len(a) - 1) /\ i + 1 \in DOMAIN a
            BY <2>1, <2>10, <4>2
          <5>2. a[i + 1] = "reset"
            BY <2>9, <3>2, <5>1
          <5> QED  BY <5>1, <5>2 DEF Holds
        <4> QED  BY <4>1, <4>2
      <3> QED  BY <2>10, <3>1, <3>2 DEF Holds
    <2>12. ASSUME Single(a) PROVE Single(b)
      <3> DEFINE At(i) == IF i < k THEN i ELSE i + 1
      <3>1. \A i \in DOMAIN b : At(i) \in DOMAIN a /\ b[i] = a[At(i)]
        BY <2>1, <2>8, <2>9, <2>10
      <3>2. \A i, j \in DOMAIN b : At(i) = At(j) => i = j
        BY <2>1, <2>10
      <3> HIDE DEF At
      <3> QED  BY <2>12, <3>1, <3>2 DEF Single
    <2>13. WithoutRetry(t) = [armed |-> b, named |-> 0]
      BY <1>2 DEF WithoutRetry, b
    <2>14. Proper(WithoutRetry(t)) /\ WithoutRetry(t).armed = b
      BY <2>7, <2>13 DEF Proper
    <2> QED  BY <2>11, <2>12, <2>14
  <1> QED  BY <1>1, <1>2

\* A batch takes what expires first; a retry that is due has no name any more.
LEMMA BatchProper ==
  ASSUME Proper(timers), BeginBatch
  PROVE  /\ Proper(timers') /\ batch' \in Seq(Kind)
         /\ timers.named # 0 => timers'.named # 0 \/ RetryDue'
         /\ Holds(timers.armed, "reset")
              <=> Holds(timers'.armed, "reset") \/ Holds(batch', "reset")
         /\ Single(timers.armed)
              => /\ Single(timers'.armed) /\ Single(batch')
                 /\ ~(Holds(timers'.armed, "reset") /\ Holds(batch', "reset"))
  <1> DEFINE a == timers.armed
             k == timers.named
  <1>1. PICK n \in 1..Len(a) :
          /\ batch' = SubSeq(a, 1, n)
          /\ timers' = [armed |-> SubSeq(a, n + 1, Len(a)),
                        named |-> IF k > n THEN k - n ELSE 0]
    BY DEF BeginBatch
  <1>2. /\ a \in Seq(Kind) /\ Len(a) \in Nat /\ k \in Nat
        /\ k # 0 => k <= Len(a) /\ a[k] = "start"
    BY DEF Proper
  <1>3. batch' \in Seq(Kind) /\ Len(batch') = n /\ \A j \in 1..n : batch'[j] = a[j]
    BY <1>1, <1>2, SubSeqProperties
  <1>4. /\ SubSeq(a, n + 1, Len(a)) \in Seq(Kind)
        /\ Len(SubSeq(a, n + 1, Len(a))) = Len(a) - n
        /\ \A j \in 1..(Len(a) - n) : SubSeq(a, n + 1, Len(a))[j] = a[n + j]
    BY <1>2, Suffix
  <1> DEFINE c == SubSeq(a, n + 1, Len(a))
  <1>5. /\ timers'.armed = c
        /\ DOMAIN a = 1..Len(a) /\ DOMAIN c = 1..(Len(a) - n) /\ DOMAIN batch' = 1..n
    BY <1>1, <1>2, <1>3, <1>4
  <1>6. /\ Holds(a, "reset") <=> Holds(timers'.armed, "reset") \/ Holds(batch', "reset")
        /\ Single(a)
             => /\ Single(timers'.armed) /\ Single(batch')
                /\ ~(Holds(timers'.armed, "reset") /\ Holds(batch', "reset"))
    <2>1. ASSUME NEW j \in DOMAIN c PROVE n + j \in DOMAIN a /\ c[j] = a[n + j]
      <3>1. j \in 1..(Len(a) - n) /\ n + j \in 1..Len(a)
        BY <1>2, <1>5
      <3> QED  BY <1>4, <1>5, <3>1
    <2>2. \A j \in DOMAIN batch' : j \in DOMAIN a /\ batch'[j] = a[j]
      BY <1>2, <1>3, <1>5
    <2>3. \A j \in DOMAIN a : j \in DOMAIN batch' \/ (j - n \in DOMAIN c /\ n + (j - n) = j)
      BY <1>2, <1>5
    <2>4. \A i, j \in DOMAIN c : n + i = n + j => i = j
      BY <1>2, <1>5
    <2>5. \A i \in DOMAIN c, j \in DOMAIN batch' : n + i # j
      BY <1>2, <1>5
    <2> HIDE DEF c
    <2>6. Holds(a, "reset") <=> Holds(c, "reset") \/ Holds(batch', "reset")
      <3>1. ASSUME NEW j \in DOMAIN a, a[j] = "reset"
            PROVE  Holds(c, "reset") \/ Holds(batch', "reset")
        <4>1. CASE j \in DOMAIN batch'
          BY <2>2, <3>1, <4>1 DEF Holds
        <4>2. CASE j - n \in DOMAIN c /\ n + (j - n) = j
          <5>1. c[j - n] = "reset"
            BY <2>1, <3>1, <4>2
          <5> QED  BY <4>2, <5>1 DEF Holds
        <4> QED  BY <2>3, <4>1, <4>2
      <3>2. Holds(c, "reset") => Holds(a, "reset")
        BY <2>1 DEF Holds
      <3>3. Holds(batch', "reset") => Holds(a, "reset")
        BY <2>2 DEF Holds
      <3> QED  BY <3>1, <3>2, <3>3 DEF Holds
    <2>7. ASSUME Single(a)
          PROVE  Single(c) /\ Single(batch') /\ ~(Holds(c, "reset") /\ Holds(batch', "reset"))
      <3>1. Single(c)
        BY <2>1, <2>4, <2>7 DEF Single
      <3>2. Single(batch')
        BY <2>2, <2>7 DEF Single
      <3>3. ~(Holds(c, "reset") /\ Holds(batch', "reset"))
        BY <2>1, <2>2, <2>5, <2>7 DEF Single, Holds
      <3> QED  BY <3>1, <3>2, <3>3
    <2> QED  BY <1>5, <2>6, <2>7
  <1> HIDE DEF c
  <1>7. CASE k > n
    <2>1. timers'.named = k - n /\ timers'.armed = SubSeq(a, n + 1, Len(a))
      BY <1>1, <1>7
    <2>2. k - n \in 1..(Len(a) - n) /\ n + (k - n) = k
      BY <1>2, <1>7
    <2>3. timers'.armed[k - n] = "start"
      <3>1. timers'.armed[k - n] = a[n + (k - n)]
        BY <1>4, <2>1, <2>2
      <3>2. a[k] = "start"
        BY <1>2, <1>7
      <3> QED  BY <2>2, <3>1, <3>2
    <2>4. Proper(timers')
      BY <1>1, <1>4, <1>7, <2>1, <2>2, <2>3 DEF Proper
    <2> QED  BY <1>3, <1>7, <1>6, <2>1, <2>2, <2>4
  <1>8. CASE ~(k > n)
    <2>1. timers' = [armed |-> SubSeq(a, n + 1, Len(a)), named |-> 0]
      BY <1>1, <1>8
    <2>2. Proper(timers')
      BY <1>4, <2>1 DEF Proper
    <2>3. k # 0 => k \in DOMAIN batch' /\ batch'[k] = "start"
      BY <1>2, <1>3, <1>8
    <2>4. k # 0 => RetryDue'
      BY <2>3 DEF RetryDue, Holds
    <2> QED  BY <1>3, <1>6, <2>2, <2>4
  <1> QED  BY <1>7, <1>8

\* A doubled delay keeps to the limits.
LEMMA DoubledInRange ==
  ASSUME NEW d \in InitDelay..MaxDelay
  PROVE  Doubled(d) \in InitDelay..MaxDelay
  BY DelayAssumption DEF Doubled

\* Running the first timer of a batch takes away no other.
LEMMA TailProper ==
  ASSUME batch \in Seq(Kind), batch # <<>>
  PROVE  /\ Tail(batch) \in Seq(Kind)
         /\ \A kind \in Kind :
              Holds(batch, kind) <=> Head(batch) = kind \/ Holds(Tail(batch), kind)
         /\ Single(batch) => Single(Tail(batch))
         /\ Single(batch) /\ Head(batch) = "reset" => ~Holds(Tail(batch), "reset")
  <1>1. /\ Tail(batch) \in Seq(Kind) /\ Len(Tail(batch)) = Len(batch) - 1
        /\ \A i \in 1..Len(Tail(batch)) : Tail(batch)[i] = batch[i + 1]
        /\ Head(batch) = batch[1]
    BY HeadTailProperties
  <1>2. /\ DOMAIN batch = 1..Len(batch) /\ DOMAIN Tail(batch) = 1..(Len(batch) - 1)
        /\ Len(batch) \in Nat /\ 1 \in DOMAIN batch
    BY <1>1
  <1>3. \A i \in DOMAIN Tail(batch) : i + 1 \in DOMAIN batch /\ Tail(batch)[i] = batch[i + 1]
    BY <1>1, <1>2
  <1>4. \A i \in DOMAIN batch : i = 1 \/ (i - 1 \in DOMAIN Tail(batch) /\ (i - 1) + 1 = i)
    BY <1>2
  <1>5. ASSUME NEW kind \in Kind
        PROVE  Holds(batch, kind) <=> Head(batch) = kind \/ Holds(Tail(batch), kind)
    <2>1. ASSUME NEW i \in DOMAIN batch, batch[i] = kind
          PROVE  Head(batch) = kind \/ Holds(Tail(batch), kind)
      <3>1. CASE i = 1
        BY <1>1, <2>1, <3>1
      <3>2. CASE i - 1 \in DOMAIN Tail(batch) /\ (i - 1) + 1 = i
        <4>1. Tail(batch)[i - 1] = kind
          BY <1>3, <2>1, <3>2
        <4> QED  BY <3>2, <4>1 DEF Holds
      <3> QED  BY <1>4, <3>1, <3>2
    <2>2. Holds(Tail(batch), kind) => Holds(batch, kind)
      BY <1>3 DEF Holds
    <2>3. Head(batch) = kind => Holds(batch, kind)
      BY <1>1, <1>2 DEF Holds
    <2> QED  BY <2>1, <2>2, <2>3 DEF Holds
  <1>6. \A i, j \in DOMAIN Tail(batch) : (i + 1 = j + 1 => i = j) /\ i + 1 # 1
    BY <1>2
  <1>7. Single(batch) => Single(Tail(batch))
    BY <1>3, <1>6 DEF Single
  <1>8. Single(batch) /\ Head(batch) = "reset" => ~Holds(Tail(batch), "reset")
    BY <1>1, <1>2, <1>3, <1>6 DEF Single, Holds
  <1> QED  BY <1>1, <1>5, <1>7, <1>8

----------------------------------------------------------------------------
\* Whatever the user calls, and whenever

\* An event that was taken out of the table waits for one reset, posted or due.
ResetsAgree ==
  /\ event = "spent" <=> Holds(timers.armed, "reset") \/ Holds(batch, "reset")
  /\ ~(Holds(timers.armed, "reset") /\ Holds(batch, "reset"))
  /\ Single(timers.armed) /\ Single(batch)

Kept == TypeOK /\ NoFdLeak /\ NeverGivesUp /\ ResetsAgree

LEMMA TimersProper == TypeOK => Proper(timers) /\ batch \in Seq(Kind)
  BY DEF TypeOK, Proper, Kind

LEMMA InitKept == Init => Kept
  <1> SUFFICES ASSUME Init PROVE Kept
    OBVIOUS
  <1>1. {connect, handed, stopped, gaveUp, peerUp} \subseteq BOOLEAN
    BY DEF Init
  <1>2. Proper(timers) /\ batch \in Seq(Kind) /\ timers.named = 0
    BY DEF Init, NoTimers, Proper
  <1>3. TypeOK
    BY <1>1, <1>2, DelayAssumption DEF Init, TypeOK, Proper, Kind
  <1>4. timers.armed = <<>> /\ batch = <<>> /\ event = "none"
    BY DEF Init, NoTimers
  <1>5. ResetsAgree
    BY <1>4 DEF ResetsAgree, Holds, Single
  <1> QED  BY <1>3, <1>5 DEF Init, Kept, NoFdLeak, NeverGivesUp

\* What Start leaves of the timers: a batch that holds a reset if it held one.
LEMMA StartKept ==
  ASSUME Kept, Start, batch' \in Seq(Kind), stopped' \in BOOLEAN, Single(batch'),
         Holds(batch', "reset") <=> Holds(batch, "reset")
  PROVE  Kept'
  <1>1. PICK result \in Results :
          ConnectReturns(result) /\ gaveUp' = (result = "fatal")
    BY DEF Start
  <1>2. /\ state = "disconnected" /\ connect' = TRUE
        /\ handed' = handed /\ peerUp' = peerUp
    BY DEF Start
  <1>3. {connect', handed', stopped', gaveUp', peerUp'} \subseteq BOOLEAN
    BY <1>1, <1>2 DEF Kept, TypeOK
  <1>4. Proper(timers)
    BY TimersProper DEF Kept
  <1> USE DEF Kept, NoFdLeak, NeverGivesUp
  <1>5. CASE result = "progress"
    <2>1. TypeOK'
      BY <1>1, <1>2, <1>3, <1>5 DEF ConnectReturns, TypeOK, Kind
    <2>2. ResetsAgree'
      BY <1>1, <1>5 DEF ConnectReturns, ResetsAgree
    <2> QED  BY <1>1, <1>2, <1>5, <2>1, <2>2 DEF ConnectReturns
  <1>6. CASE result = "retry"
    <2>1. timers' = WithRetry(timers) /\ delay' = Doubled(delay)
      BY <1>1, <1>6 DEF ConnectReturns, Retry
    <2>2. Proper(timers') /\ timers'.named # 0
      BY <1>4, <2>1, RetryProper
    <2>3. state' = "disconnected" /\ open' = 0 /\ UNCHANGED <<event, sock>>
      BY <1>1, <1>6 DEF ConnectReturns, Retry
    <2>4. delay' \in InitDelay..MaxDelay
      BY <2>1, DoubledInRange DEF TypeOK
    <2>5. TypeOK'
      BY <1>3, <2>2, <2>3, <2>4 DEF TypeOK, Proper, Kind
    <2>6. event # "live" /\ open = 0
      BY <1>2 DEF TypeOK
    <2>7. ResetsAgree'
      BY <1>4, <2>1, <2>3, RetryProper DEF ResetsAgree
    <2> QED  BY <2>2, <2>3, <2>5, <2>6, <2>7
  <1>7. CASE result = "fatal"
    <2>1. TypeOK'
      BY <1>1, <1>2, <1>3, <1>7 DEF ConnectReturns, TypeOK, Kind
    <2>2. ResetsAgree'
      BY <1>1, <1>7 DEF ConnectReturns, ResetsAgree
    <2> QED  BY <1>1, <1>2, <1>7, <2>1, <2>2 DEF ConnectReturns
  <1> QED  BY <1>5, <1>6, <1>7, ResultAssumption

LEMMA StopKept == ASSUME Kept, Stop PROVE Kept'
  <1>1. Proper(timers)
    BY TimersProper DEF Kept
  <1>2. {connect', handed', stopped', gaveUp', peerUp'} \subseteq BOOLEAN
    BY DEF Stop, Kept, TypeOK
  <1>3. CASE state = "connecting"
    <2>1. PICK t \in WithReset(timers) : timers' = WithoutRetry(t)
      BY <1>3 DEF Stop
    <2>2. event = "live" /\ ~Holds(timers.armed, "reset") /\ ~Holds(batch, "reset")
      BY <1>3 DEF Kept, NoFdLeak, ResetsAgree
    <2>3. Proper(t) /\ Holds(t.armed, "reset") /\ Single(t.armed)
      BY <1>1, <2>2, ResetProper
    <2>4. Proper(timers') /\ Holds(timers'.armed, "reset") /\ Single(timers'.armed)
      BY <2>1, <2>3, CancelProper
    <2>5. event' = "spent" /\ batch' = batch
      BY <1>3 DEF Stop, RemoveEvent
    <2>6. TypeOK'
      BY <1>2, <1>3, <2>4 DEF Stop, RemoveEvent, Kept, TypeOK, Proper, Kind
    <2>7. ResetsAgree'
      BY <2>2, <2>4, <2>5 DEF Kept, ResetsAgree
    <2> QED  BY <1>3, <2>6, <2>7 DEF Stop, RemoveEvent, Kept, NoFdLeak, NeverGivesUp
  <1>4. CASE state # "connecting"
    <2>1. /\ timers' = WithoutRetry(timers) /\ batch' = batch
          /\ UNCHANGED <<state, event, sock, open>>
      BY <1>4 DEF Stop
    <2>2. /\ Proper(timers')
          /\ Holds(timers'.armed, "reset") <=> Holds(timers.armed, "reset")
          /\ Single(timers.armed) => Single(timers'.armed)
      BY <1>1, <2>1, CancelProper
    <2>3. TypeOK'
      BY <1>2, <2>1, <2>2 DEF Stop, Kept, TypeOK, Proper, Kind
    <2>4. ResetsAgree'
      BY <2>1, <2>2 DEF Kept, ResetsAgree
    <2> QED  BY <2>1, <2>3, <2>4 DEF Stop, Kept, NoFdLeak, NeverGivesUp
  <1> QED  BY <1>3, <1>4

LEMMA OnConnectKept == ASSUME Kept, OnConnect PROVE Kept'
  <1>1. PICK t \in WithReset(timers) :
          IF sock = "failed"
          THEN Retry(connect, t) /\ UNCHANGED handed
          ELSE /\ state' = "connected" /\ open' = 0
               /\ handed' = connect
               /\ timers' = t /\ UNCHANGED delay
    BY DEF OnConnect
  <1>2. /\ event' = "spent" /\ sock' = "none" /\ event = "live"
        /\ UNCHANGED <<connect, batch, stopped, gaveUp, peerUp>>
    BY DEF OnConnect, RemoveEvent
  <1>3. ~Holds(timers.armed, "reset") /\ ~Holds(batch, "reset")
    BY <1>2 DEF Kept, ResetsAgree
  <1>4. Proper(t) /\ Holds(t.armed, "reset") /\ Single(t.armed)
    BY <1>3, TimersProper, ResetProper DEF Kept
  <1>5. /\ Proper(timers') /\ Holds(timers'.armed, "reset") /\ Single(timers'.armed)
        /\ state' # "disconnected" \/ (connect => timers'.named # 0)
        /\ open' = 0 /\ state' \in {"connected", "disconnected"}
        /\ delay' \in {delay, Doubled(delay)} /\ handed' \in BOOLEAN
    <2>1. CASE sock = "failed"
      <3>1. /\ open' = 0 /\ state' = "disconnected" /\ UNCHANGED handed
            /\ connect => timers' = WithRetry(t) /\ delay' = Doubled(delay)
            /\ ~connect => timers' = t /\ UNCHANGED delay
        BY <1>1, <2>1 DEF Retry
      <3> QED  BY <1>4, <3>1, RetryProper DEF Kept, TypeOK
    <2>2. CASE sock # "failed"
      BY <1>1, <1>4, <2>2 DEF Kept, TypeOK
    <2> QED  BY <2>1, <2>2
  <1>6. delay' \in InitDelay..MaxDelay
    BY <1>5, DoubledInRange DEF Kept, TypeOK
  <1>7. TypeOK'
    BY <1>2, <1>5, <1>6 DEF Kept, TypeOK, Proper, Kind
  <1>8. ResetsAgree'
    BY <1>2, <1>3, <1>5 DEF Kept, ResetsAgree
  <1> QED  BY <1>2, <1>5, <1>7, <1>8 DEF Kept, NoFdLeak, NeverGivesUp

LEMMA BeginBatchKept == ASSUME Kept, BeginBatch PROVE Kept'
  <1>1. Proper(timers)
    BY TimersProper DEF Kept
  <1>2. /\ ~RetryDue /\ ~Holds(batch, "reset")
        /\ UNCHANGED <<state, connect, event, sock, delay, open, handed, stopped,
                       gaveUp, peerUp>>
    BY DEF BeginBatch, RetryDue, Holds
  <1>3. /\ Proper(timers') /\ batch' \in Seq(Kind)
        /\ timers.named # 0 => timers'.named # 0 \/ RetryDue'
    BY <1>1, BatchProper
  <1>4. TypeOK'
    BY <1>2, <1>3 DEF Kept, TypeOK, Proper, Kind
  <1>5. ResetsAgree'
    BY <1>1, <1>2, BatchProper DEF Kept, ResetsAgree
  <1> QED  BY <1>2, <1>3, <1>4, <1>5 DEF Kept, NoFdLeak, NeverGivesUp

LEMMA RunResetKept == ASSUME Kept, RunReset PROVE Kept'
  <1>1. batch # <<>> /\ Head(batch) = "reset" /\ batch' = Tail(batch)
    BY DEF RunReset
  <1>2. batch \in Seq(Kind) /\ Kind = {"reset", "start"}
    BY TimersProper DEF Kept, Kind
  <1>3. /\ batch' \in Seq(Kind) /\ (RetryDue => RetryDue')
        /\ Holds(batch, "reset") /\ ~Holds(batch', "reset") /\ Single(batch')
    BY <1>1, <1>2, TailProper DEF Kept, RetryDue, ResetsAgree
  <1>4. /\ event' = "none"
        /\ UNCHANGED <<state, connect, sock, delay, timers, open, handed, stopped,
                       gaveUp, peerUp>>
    BY DEF RunReset
  <1>5. event = "spent"
    BY <1>3 DEF Kept, ResetsAgree
  <1>6. TypeOK'
    BY <1>3, <1>4 DEF Kept, TypeOK, Kind
  <1>7. ResetsAgree'
    BY <1>3, <1>4 DEF Kept, ResetsAgree
  <1> QED  BY <1>3, <1>4, <1>5, <1>6, <1>7 DEF Kept, NoFdLeak, NeverGivesUp

LEMMA RunStartKept == ASSUME Kept, RunStart PROVE Kept'
  <1>1. /\ batch # <<>> /\ Head(batch) = "start" /\ batch' = Tail(batch)
        /\ Start /\ stopped' = stopped
    BY DEF RunStart
  <1>2. batch \in Seq(Kind) /\ Kind = {"reset", "start"}
    BY TimersProper DEF Kept, Kind
  <1>3. /\ batch' \in Seq(Kind) /\ stopped' \in BOOLEAN /\ Single(batch')
        /\ Holds(batch', "reset") <=> Holds(batch, "reset")
    BY <1>1, <1>2, TailProper DEF Kept, TypeOK, ResetsAgree
  <1> QED  BY <1>1, <1>3, StartKept

LEMMA NextKept == ASSUME Kept, [Next]_vars PROVE Kept'
  <1>1. CASE UserStart
    <2>1. Start /\ batch' = batch /\ stopped' = FALSE
      BY <1>1 DEF UserStart
    <2>2. batch' \in Seq(Kind) /\ Single(batch') /\ stopped' \in BOOLEAN
      BY <2>1, TimersProper DEF Kept, ResetsAgree
    <2> QED  BY <2>1, <2>2, StartKept
  <1>2. CASE Stop
    BY <1>2, StopKept
  <1> USE DEF Kept, TypeOK, NoFdLeak, NeverGivesUp, ResetsAgree, RetryDue, Holds, Single
  <1>3. CASE SocketReady
    BY <1>3 DEF SocketReady
  <1>4. CASE ConnectionLost
    BY <1>4 DEF ConnectionLost
  <1>5. CASE Loop
    BY <1>5, OnConnectKept, BeginBatchKept, RunResetKept, RunStartKept DEF Loop
  <1>6. CASE PeerComesUp
    BY <1>6 DEF PeerComesUp
  <1>7. CASE UNCHANGED vars
    BY <1>7 DEF vars
  <1> QED  BY <1>1, <1>2, <1>3, <1>4, <1>5, <1>6, <1>7 DEF Next

LEMMA AlwaysKept == Spec => []Kept
  BY InitKept, NextKept, PTL DEF Spec

\* Every part of the state keeps its type, the delay its limits, and timer_id_
\* names an armed retry or none (TypeOK), whatever users call and whenever.
THEOREM TypeCorrect == Spec => []TypeOK
  <1>1. Kept => TypeOK
    BY DEF Kept
  <1> QED  BY <1>1, AlwaysKept, PTL

\* Whatever users call and whenever, and however many retries a Connect while one
\* is due leaves armed: no descriptor leaks (NoFdLeak) and no wish to connect is
\* dropped (NeverGivesUp).
THEOREM NothingLeaksOrIsForgotten == Spec => [](NoFdLeak /\ NeverGivesUp)
  <1>1. Kept => NoFdLeak /\ NeverGivesUp
    BY DEF Kept
  <1> QED  BY <1>1, AlwaysKept, PTL

----------------------------------------------------------------------------
\* Nobody connects while a retry is due

Shapes == {<<>>, <<"reset">>, <<"start">>, <<"reset", "start">>}

\* timer_id_ names the one retry that is armed, behind the reset if there is one.
Tidy(t) ==
  /\ t.armed \in Shapes
  /\ t.named = IF Holds(t.armed, "start") THEN Len(t.armed) ELSE 0

\* There is one retry, armed or due, and only where no attempt is under way.
RetriesAgree ==
  /\ Tidy(timers) /\ batch \in Shapes
  /\ timers.named # 0 => connect /\ ~gaveUp /\ ~RetryDue
  /\ timers.named # 0 \/ RetryDue => state = "disconnected"
  /\ state = "connecting" => connect /\ ~gaveUp
  /\ stopped => ~RetryDue

\* No reset is posted while timers run.
QuietBatch == batch # <<>> => ~Holds(timers.armed, "reset")

Orderly == StopIsFinal /\ RetriesAgree /\ QuietBatch

Inv == Kept /\ Orderly

\* What the four queues hold.
LEMMA ShapeFacts ==
  /\ ~Holds(<<>>, "reset") /\ ~Holds(<<>>, "start")
  /\ Holds(<<"reset">>, "reset") /\ ~Holds(<<"reset">>, "start")
  /\ ~Holds(<<"start">>, "reset") /\ Holds(<<"start">>, "start")
  /\ Holds(<<"reset", "start">>, "reset") /\ Holds(<<"reset", "start">>, "start")
  /\ <<"reset">> # <<>> /\ <<"start">> # <<>> /\ <<"reset", "start">> # <<>>
  /\ Head(<<"reset">>) = "reset" /\ Tail(<<"reset">>) = <<>>
  /\ Head(<<"start">>) = "start" /\ Tail(<<"start">>) = <<>>
  /\ Head(<<"reset", "start">>) = "reset" /\ Tail(<<"reset", "start">>) = <<"start">>
  /\ Len(<<>>) = 0 /\ Len(<<"reset">>) = 1
  /\ Len(<<"start">>) = 1 /\ Len(<<"reset", "start">>) = 2
  <1>1. ~Holds(<<>>, "reset") /\ ~Holds(<<>>, "start")
    BY DEF Holds
  <1>2. Holds(<<"reset">>, "reset") /\ ~Holds(<<"reset">>, "start")
    BY DEF Holds
  <1>3. ~Holds(<<"start">>, "reset") /\ Holds(<<"start">>, "start")
    BY DEF Holds
  <1>4. Holds(<<"reset", "start">>, "reset") /\ Holds(<<"reset", "start">>, "start")
    <2> DEFINE q == <<"reset", "start">>
    <2>1. 1 \in DOMAIN q /\ 2 \in DOMAIN q /\ q[1] = "reset" /\ q[2] = "start"
      OBVIOUS
    <2> HIDE DEF q
    <2>2. Holds(q, "reset") /\ Holds(q, "start")
      BY <2>1 DEF Holds
    <2> QED  BY <2>2 DEF q
  <1>5. <<"reset">> # <<>> /\ <<"start">> # <<>> /\ <<"reset", "start">> # <<>>
    OBVIOUS
  <1>6. Head(<<"reset">>) = "reset" /\ Head(<<"start">>) = "start"
    OBVIOUS
  <1>7. Head(<<"reset", "start">>) = "reset"
    OBVIOUS
  <1>8. Tail(<<"reset">>) = <<>> /\ Tail(<<"start">>) = <<>>
    OBVIOUS
  <1>9. Tail(<<"reset", "start">>) = <<"start">>
    OBVIOUS
  <1>10. /\ Len(<<>>) = 0 /\ Len(<<"reset">>) = 1
         /\ Len(<<"start">>) = 1 /\ Len(<<"reset", "start">>) = 2
    OBVIOUS
  <1> QED
    BY <1>1, <1>2, <1>3, <1>4, <1>5, <1>6, <1>7, <1>8, <1>9, <1>10

\* The reset is the only timer, or in front of the retry.
LEMMA PartFacts ==
  /\ InsertAt(<<>>, 1, "reset") = <<"reset">>
  /\ Append(<<>>, "start") = <<"start">>
  /\ Append(<<"reset">>, "start") = <<"reset", "start">>
  /\ RemoveAt(<<"start">>, 1) = <<>>
  /\ RemoveAt(<<"reset", "start">>, 2) = <<"reset">>
  <1> DEFINE r == <<"reset">>
             s == <<"start">>
             both == <<"reset", "start">>
  <1>1. /\ r \in Seq(Kind) /\ s \in Seq(Kind) /\ both \in Seq(Kind) /\ <<>> \in Seq(Kind)
        /\ Len(r) = 1 /\ Len(s) = 1 /\ Len(both) = 2 /\ Len(<<>>) = 0
        /\ r[1] = "reset" /\ both[1] = "reset"
    BY DEF Kind
  <1>2. Append(<<>>, "start") = s
    OBVIOUS
  <1> HIDE DEF r, s, both
  <1>3. Append(r, "start") = both
    <2>1. "start" \in Kind /\ both[2] = "start"
      BY DEF Kind, both
    <2>2. r \in Seq(Kind) /\ "start" \in Kind
      BY <1>1, <2>1
    <2> DEFINE p == Append(r, "start")
    <2>3. /\ p \in Seq(Kind) /\ Len(p) = Len(r) + 1
          /\ \A i \in 1..Len(r) : p[i] = r[i]
          /\ p[Len(r) + 1] = "start"
      BY <2>2, AppendProperties
    <2> HIDE DEF p
    <2>4. Len(p) = 2 /\ p[1] = "reset" /\ p[2] = "start"
      BY <1>1, <2>3
    <2>5. \A i \in 1..2 : p[i] = both[i]
      BY <1>1, <2>1, <2>4
    <2>6. p = both
      BY <1>1, <2>3, <2>4, <2>5, SeqEqual
    <2> QED  BY <2>6 DEF p
  <1>4. InsertAt(<<>>, 1, "reset") = r
    <2>1. SubSeq(<<>>, 1, 0) = <<>> /\ SubSeq(<<>>, 1, Len(<<>>)) = <<>>
      BY SubSeqEmpty
    <2>2. InsertAt(<<>>, 1, "reset")
            = SubSeq(<<>>, 1, 1 - 1) \o r \o SubSeq(<<>>, 1, Len(<<>>))
      BY Zenon DEF InsertAt, r
    <2>3. 1 - 1 = 0
      OBVIOUS
    <2>4. InsertAt(<<>>, 1, "reset") = <<>> \o r \o <<>>
      BY <2>1, <2>2, <2>3, Zenon
    <2> QED  BY <1>1, <2>4, ConcatEmptySeq
  <1>5. RemoveAt(s, 1) = <<>>
    <2>1. SubSeq(s, 1, 0) = <<>> /\ SubSeq(s, 2, 1) = <<>>
      BY SubSeqEmpty
    <2>2. RemoveAt(s, 1) = <<>> \o <<>>
      BY <1>1, <2>1 DEF RemoveAt
    <2> QED  BY <1>1, <2>2, ConcatEmptySeq
  <1>6. RemoveAt(both, 2) = r
    <2>1. SubSeq(both, 3, 2) = <<>>
      BY SubSeqEmpty
    <2>2. /\ SubSeq(both, 1, 1) \in Seq(Kind) /\ Len(SubSeq(both, 1, 1)) = 1
          /\ SubSeq(both, 1, 1)[1] = "reset"
      BY <1>1, SubSeqProperties
    <2>3. SubSeq(both, 1, 1) = r
      BY <1>1, <2>2, SeqEqual
    <2>4. RemoveAt(both, 2) = r \o <<>>
      BY <1>1, <2>1, <2>3 DEF RemoveAt
    <2> QED  BY <1>1, <2>4, ConcatEmptySeq
  <1> QED  BY <1>2, <1>3, <1>4, <1>5, <1>6 DEF r, s, both

\* What the loop may take of them.
LEMMA PrefixFacts ==
  ASSUME NEW q \in Shapes, NEW n \in 1..Len(q)
  PROVE  /\ SubSeq(q, 1, n) \in Shapes \ {<<>>}
         /\ SubSeq(q, n + 1, Len(q)) \in Shapes
         /\ ~Holds(SubSeq(q, n + 1, Len(q)), "reset")
         /\ Holds(q, "start")
              <=> Holds(SubSeq(q, 1, n), "start") \/ Holds(SubSeq(q, n + 1, Len(q)), "start")
         /\ Holds(q, "start")
              => (Holds(SubSeq(q, n + 1, Len(q)), "start") <=> Len(q) > n)
         /\ ~(Holds(SubSeq(q, 1, n), "start") /\ Holds(SubSeq(q, n + 1, Len(q)), "start"))
  <1> DEFINE r == <<"reset">>
             s == <<"start">>
             both == <<"reset", "start">>
  <1>1. /\ r \in Seq(Kind) /\ s \in Seq(Kind) /\ both \in Seq(Kind)
        /\ Len(r) = 1 /\ Len(s) = 1 /\ Len(both) = 2 /\ Len(<<>>) = 0
        /\ r[1] = "reset" /\ s[1] = "start" /\ both[1] = "reset" /\ both[2] = "start"
    BY DEF Kind
  <1>2. Shapes = {<<>>, r, s, both}
    BY DEF Shapes
  <1>3. /\ ~Holds(<<>>, "reset") /\ ~Holds(<<>>, "start")
        /\ ~Holds(r, "start") /\ ~Holds(s, "reset") /\ Holds(s, "start")
        /\ Holds(both, "start") /\ r # <<>> /\ s # <<>> /\ both # <<>>
    BY ShapeFacts
  <1> HIDE DEF r, s, both
  <1>4. \A p \in {r, s, both} : p \in Seq(Kind) /\ Len(p) \in Nat
    BY <1>1
  <1>5. ASSUME NEW p \in {r, s, both}
        PROVE  SubSeq(p, 1, Len(p)) = p /\ SubSeq(p, Len(p) + 1, Len(p)) = <<>>
    BY <1>4, SubSeqFull, SubSeqEmpty
  <1>6. SubSeq(both, 1, 1) = r /\ SubSeq(both, 2, 2) = s
    <2>1. /\ SubSeq(both, 1, 1) \in Seq(Kind) /\ Len(SubSeq(both, 1, 1)) = 1
          /\ SubSeq(both, 1, 1)[1] = "reset"
      BY <1>1, SubSeqProperties
    <2>2. /\ SubSeq(both, 2, 2) \in Seq(Kind) /\ Len(SubSeq(both, 2, 2)) = 1
          /\ SubSeq(both, 2, 2)[1] = "start"
      BY <1>1, SubSeqProperties
    <2> QED  BY <1>1, <2>1, <2>2, SeqEqual
  <1>7. q \in {r, s, both}
    BY <1>1, <1>2
  <1>8. CASE n = Len(q)
    <2>1. SubSeq(q, 1, n) = q /\ SubSeq(q, n + 1, Len(q)) = <<>>
      BY <1>5, <1>7, <1>8
    <2>2. ~(Len(q) > n) /\ q \in Shapes \ {<<>>} /\ <<>> \in Shapes
      BY <1>2, <1>3, <1>4, <1>7, <1>8
    <2> QED  BY <1>3, <2>1, <2>2
  <1>9. CASE n # Len(q)
    <2>1. Len(q) = 2 /\ q = both
      <3>1. Len(q) \in {1, 2} /\ (Len(q) = 2 => q = both)
        BY <1>1, <1>7
      <3>2. ASSUME Len(q) = 1 PROVE FALSE
        <4>1. n \in 1..1
          BY <3>2
        <4> QED  BY <1>9, <3>2, <4>1
      <3> QED  BY <3>1, <3>2
    <2>2. n = 1 /\ n + 1 = 2
      BY <1>9, <2>1
    <2>3. SubSeq(q, 1, n) = r /\ SubSeq(q, n + 1, Len(q)) = s
      BY <1>6, <2>1, <2>2
    <2>4. Len(q) > n /\ r \in Shapes \ {<<>>} /\ s \in Shapes
      BY <1>2, <1>3, <2>1, <2>2
    <2> QED  BY <1>3, <2>1, <2>3, <2>4
  <1> QED  BY <1>8, <1>9

\* A retry has a name exactly while it is armed.
LEMMA TidyNamed ==
  ASSUME NEW t, Tidy(t)
  PROVE  /\ t.named # 0 <=> Holds(t.armed, "start")
         /\ ~Holds(t.armed, "start") /\ ~Holds(t.armed, "reset") => t.armed = <<>>
  <1>1. Holds(t.armed, "start") => Len(t.armed) # 0
    BY ShapeFacts DEF Tidy, Shapes
  <1> QED  BY <1>1, ShapeFacts DEF Tidy, Shapes

\* A first reset, a first retry and a cancelled one leave the timers tidy.
LEMMA TidyReset ==
  ASSUME NEW t, t.armed = <<>>, t.named = 0, NEW u \in WithReset(t)
  PROVE  u.armed = <<"reset">> /\ u.named = 0 /\ Tidy(u)
  <1>1. PICK i \in 1..(Len(t.armed) + 1) :
          u = [armed |-> InsertAt(t.armed, i, "reset"),
               named |-> IF i <= t.named THEN t.named + 1 ELSE t.named]
    BY DEF WithReset
  <1>2. i = 1
    BY ShapeFacts
  <1>3. u.armed = <<"reset">> /\ u.named = 0
    BY <1>1, <1>2, PartFacts
  <1> QED  BY <1>3, ShapeFacts DEF Tidy, Shapes

LEMMA TidyRetry ==
  ASSUME NEW t, t.armed \in {<<>>, <<"reset">>}
  PROVE  /\ Tidy(WithRetry(t)) /\ WithRetry(t).named # 0
         /\ Holds(WithRetry(t).armed, "reset") <=> Holds(t.armed, "reset")
  <1>1. WithRetry(t).armed = Append(t.armed, "start")
    BY DEF WithRetry
  <1>2. WithRetry(t).named = Len(t.armed) + 1
    BY DEF WithRetry
  <1>3. CASE t.armed = <<>>
    <2>1. WithRetry(t).armed = <<"start">> /\ WithRetry(t).named = 1
      BY <1>1, <1>2, <1>3, PartFacts, ShapeFacts
    <2> QED  BY <1>3, <2>1, ShapeFacts DEF Tidy, Shapes
  <1>4. CASE t.armed = <<"reset">>
    <2>1. WithRetry(t).armed = <<"reset", "start">> /\ WithRetry(t).named = 2
      BY <1>1, <1>2, <1>4, PartFacts, ShapeFacts
    <2> QED  BY <1>4, <2>1, ShapeFacts DEF Tidy, Shapes
  <1> QED  BY <1>3, <1>4

LEMMA TidyCancel ==
  ASSUME NEW t, Tidy(t)
  PROVE  /\ Tidy(WithoutRetry(t)) /\ WithoutRetry(t).named = 0
         /\ ~Holds(WithoutRetry(t).armed, "start")
         /\ Holds(WithoutRetry(t).armed, "reset") <=> Holds(t.armed, "reset")
         /\ t.named = 0 => WithoutRetry(t) = t
  <1>1. CASE t.named = 0
    BY <1>1, TidyNamed DEF WithoutRetry
  <1>2. CASE t.named # 0
    <2>1. Holds(t.armed, "start") /\ t.named = Len(t.armed)
      BY <1>2, TidyNamed DEF Tidy
    <2>2. /\ WithoutRetry(t).armed = RemoveAt(t.armed, t.named)
          /\ WithoutRetry(t).named = 0
      BY <1>2 DEF WithoutRetry
    <2>3. t.armed \in {<<"start">>, <<"reset", "start">>}
      BY <2>1, ShapeFacts DEF Tidy, Shapes
    <2>4. CASE t.armed = <<"start">>
      <3>1. WithoutRetry(t).armed = <<>>
        BY <2>1, <2>2, <2>4, PartFacts, ShapeFacts
      <3> QED  BY <1>2, <2>2, <2>4, <3>1, ShapeFacts DEF Tidy, Shapes
    <2>5. CASE t.armed = <<"reset", "start">>
      <3>1. WithoutRetry(t).armed = <<"reset">>
        BY <2>1, <2>2, <2>5, PartFacts, ShapeFacts
      <3> QED  BY <1>2, <2>2, <2>5, <3>1, ShapeFacts DEF Tidy, Shapes
    <2> QED  BY <2>3, <2>4, <2>5
  <1> QED  BY <1>1, <1>2

LEMMA InitInv == Init => Inv
  <1> SUFFICES ASSUME Init PROVE Inv
    OBVIOUS
  <1>1. timers.armed = <<>> /\ timers.named = 0 /\ batch = <<>>
    BY DEF Init, NoTimers
  <1>2. Tidy(timers) /\ batch \in Shapes /\ ~RetryDue
    BY <1>1, ShapeFacts DEF Tidy, Shapes, RetryDue
  <1>3. Orderly
    BY <1>1, <1>2 DEF Init, Orderly, StopIsFinal, RetriesAgree, QuietBatch
  <1> QED  BY <1>3, InitKept DEF Inv

\* Where an attempt may begin there is nothing left of the last one, and no
\* retry is to come.
LEMMA StartFinds ==
  ASSUME Inv, ~StartWhenever, UserStart \/ RunStart
  PROVE  /\ Start /\ batch' = <<>> /\ stopped' = FALSE /\ ~RetryDue'
         /\ timers.armed = <<>> /\ timers.named = 0 /\ StartAsserts
  <1>1. /\ Tidy(timers) /\ batch \in Shapes
        /\ timers.named # 0 => connect /\ ~gaveUp /\ ~RetryDue
        /\ event = "spent" <=> Holds(timers.armed, "reset") \/ Holds(batch, "reset")
    BY DEF Inv, Orderly, RetriesAgree, Kept, ResetsAgree
  <1>2. CASE UserStart
    <2>1. /\ Start /\ batch' = batch /\ stopped' = FALSE
          /\ StartAsserts /\ ~RetryDue /\ (~connect \/ gaveUp)
      BY <1>2 DEF UserStart, MayStart
    <2>2. timers.named = 0 /\ ~Holds(timers.armed, "reset") /\ ~Holds(batch, "reset")
      BY <1>1, <2>1 DEF StartAsserts
    <2>3. batch = <<>>
      BY <1>1, <2>1, <2>2, ShapeFacts DEF Shapes, RetryDue
    <2> QED  BY <1>1, <2>1, <2>2, <2>3, TidyNamed, ShapeFacts DEF RetryDue
  <1>3. CASE RunStart
    <2>1. /\ batch # <<>> /\ Head(batch) = "start" /\ batch' = Tail(batch)
          /\ Start /\ stopped' = stopped
      BY <1>3 DEF RunStart
    <2>2. batch = <<"start">> /\ batch' = <<>>
      BY <1>1, <2>1, ShapeFacts DEF Shapes
    <2>3. RetryDue /\ ~Holds(batch, "reset") /\ ~Holds(timers.armed, "reset")
      BY <2>1, <2>2, ShapeFacts DEF Inv, Orderly, QuietBatch, RetryDue
    <2>4. timers.named = 0 /\ event # "spent" /\ stopped = FALSE
      BY <1>1, <2>3 DEF Inv, Orderly, RetriesAgree, Kept, TypeOK
    <2>5. state = "disconnected" /\ event \in {"none", "live", "spent"}
      BY <2>1 DEF Start, Inv, Kept, TypeOK
    <2>6. StartAsserts
      BY <2>4, <2>5 DEF StartAsserts, Inv, Kept, NoFdLeak
    <2> QED
      BY <1>1, <2>1, <2>2, <2>3, <2>4, <2>6, TidyNamed, ShapeFacts DEF RetryDue
  <1> QED  BY <1>2, <1>3

LEMMA StartInv ==
  ASSUME Inv, ~StartWhenever, UserStart \/ RunStart
  PROVE  Orderly'
  <1>1. /\ Start /\ batch' = <<>> /\ stopped' = FALSE /\ ~RetryDue'
        /\ timers.armed = <<>> /\ timers.named = 0
    BY StartFinds
  <1>2. Tidy(timers) /\ Tidy(WithRetry(timers)) /\ batch' \in Shapes
    BY <1>1, TidyRetry DEF Inv, Orderly, RetriesAgree, Shapes
  <1>3. PICK result \in Results :
          ConnectReturns(result) /\ gaveUp' = (result = "fatal")
    BY <1>1 DEF Start
  <1>4. connect' = TRUE /\ state = "disconnected"
    BY <1>1 DEF Start
  <1>5. CASE result = "retry"
    <2>1. timers' = WithRetry(timers) /\ state' = "disconnected" /\ ~gaveUp'
      BY <1>3, <1>5 DEF ConnectReturns, Retry
    <2> QED
      BY <1>1, <1>2, <1>4, <2>1 DEF Orderly, StopIsFinal, RetriesAgree, QuietBatch
  <1>6. CASE result # "retry"
    <2>1. /\ timers' = timers /\ (state' = "connecting" => ~gaveUp')
          /\ timers'.named = 0
      BY <1>1, <1>3, <1>4, <1>6, ResultAssumption DEF ConnectReturns
    <2> QED
      BY <1>1, <1>2, <1>4, <2>1 DEF Orderly, StopIsFinal, RetriesAgree, QuietBatch
  <1> QED  BY <1>5, <1>6

\* No timer is armed or due while an attempt is under way.
LEMMA NoTimerWhileConnecting ==
  ASSUME Inv, state = "connecting"
  PROVE  timers.armed = <<>> /\ timers.named = 0 /\ batch = <<>> /\ event = "live"
  <1>1. event = "live" /\ timers.named = 0 /\ ~RetryDue
    BY DEF Inv, Orderly, RetriesAgree, Kept, NoFdLeak
  <1>2. ~Holds(timers.armed, "reset") /\ ~Holds(batch, "reset")
    BY <1>1 DEF Inv, Kept, ResetsAgree
  <1>3. Tidy(timers) /\ batch \in Shapes
    BY DEF Inv, Orderly, RetriesAgree
  <1> QED  BY <1>1, <1>2, <1>3, TidyNamed, ShapeFacts DEF Shapes, RetryDue

LEMMA StopInv == ASSUME Inv, Stop PROVE Orderly'
  <1>1. /\ Tidy(timers) /\ batch' = batch /\ batch \in Shapes
        /\ gaveUp' = gaveUp /\ connect' = FALSE /\ stopped' = ~RetryDue
        /\ RetryDue' = RetryDue
    BY DEF Inv, Orderly, RetriesAgree, Stop, RetryDue
  <1>2. CASE state = "connecting"
    <2>1. timers.armed = <<>> /\ timers.named = 0 /\ batch = <<>>
      BY <1>2, NoTimerWhileConnecting
    <2>2. PICK t \in WithReset(timers) : timers' = WithoutRetry(t)
      BY <1>2 DEF Stop
    <2>3. /\ Tidy(timers') /\ timers'.named = 0 /\ ~Holds(timers'.armed, "start")
      BY <2>1, <2>2, TidyReset, TidyCancel
    <2>4. state' = "disconnected" /\ ~RetryDue
      BY <1>2, <2>1, ShapeFacts DEF Stop, RetryDue
    <2> QED
      BY <1>1, <2>1, <2>3, <2>4 DEF Orderly, StopIsFinal, RetriesAgree, QuietBatch
  <1>3. CASE state # "connecting"
    <2>1. timers' = WithoutRetry(timers) /\ state' = state
      BY <1>3 DEF Stop
    <2>2. /\ Tidy(timers') /\ timers'.named = 0 /\ ~Holds(timers'.armed, "start")
          /\ Holds(timers'.armed, "reset") <=> Holds(timers.armed, "reset")
      BY <1>1, <2>1, TidyCancel
    <2> QED
      BY <1>1, <1>3, <2>1, <2>2
         DEF Inv, Orderly, StopIsFinal, RetriesAgree, QuietBatch
  <1> QED  BY <1>2, <1>3

LEMMA OnConnectInv == ASSUME Inv, OnConnect PROVE Orderly'
  <1>1. /\ state = "connecting" /\ connect /\ ~gaveUp /\ ~stopped
        /\ timers.armed = <<>> /\ timers.named = 0 /\ batch = <<>>
        /\ UNCHANGED <<connect, batch, stopped, gaveUp>>
    BY NoTimerWhileConnecting
       DEF OnConnect, Inv, Orderly, RetriesAgree, StopIsFinal
  <1>2. batch' = <<>> /\ batch' \in Shapes /\ ~RetryDue'
    BY <1>1, ShapeFacts DEF RetryDue, Shapes
  <1>3. PICK t \in WithReset(timers) :
          IF sock = "failed"
          THEN Retry(connect, t) /\ UNCHANGED handed
          ELSE /\ state' = "connected" /\ open' = 0
               /\ handed' = connect
               /\ timers' = t /\ UNCHANGED delay
    BY DEF OnConnect
  <1>4. t.armed = <<"reset">> /\ t.named = 0 /\ Tidy(t)
    BY <1>1, TidyReset
  <1>5. CASE sock = "failed"
    <2>1. state' = "disconnected" /\ timers' = WithRetry(t)
      BY <1>1, <1>3, <1>5 DEF Retry
    <2>2. Tidy(timers')
      <3>1. t.armed \in {<<>>, <<"reset">>}
        BY <1>4
      <3>2. Tidy(WithRetry(t))
        BY <3>1, TidyRetry
      <3> QED  BY <2>1, <3>2 DEF Tidy
    <2> QED
      BY <1>1, <1>2, <2>1, <2>2 DEF Orderly, StopIsFinal, RetriesAgree, QuietBatch
  <1>6. CASE sock # "failed"
    BY <1>1, <1>2, <1>3, <1>4, <1>6
       DEF Orderly, StopIsFinal, RetriesAgree, QuietBatch
  <1> QED  BY <1>5, <1>6

\* A batch of the armed timers: the retry is armed or due as it was armed.
LEMMA BatchTidy ==
  ASSUME Inv, BeginBatch
  PROVE  /\ Tidy(timers') /\ batch' \in Shapes /\ ~RetryDue
         /\ ~Holds(timers'.armed, "reset")
         /\ timers.named # 0 <=> timers'.named # 0 \/ RetryDue'
         /\ timers'.named # 0 => ~RetryDue'
  <1> DEFINE q == timers.armed
  <1>1. Tidy(timers) /\ q \in Shapes /\ batch = <<>>
    BY DEF BeginBatch, Inv, Orderly, RetriesAgree, Tidy
  <1>2. PICK n \in 1..Len(q) :
          /\ batch' = SubSeq(q, 1, n)
          /\ timers' = [armed |-> SubSeq(q, n + 1, Len(q)),
                        named |-> IF timers.named > n THEN timers.named - n ELSE 0]
    BY DEF BeginBatch
  <1> DEFINE c == SubSeq(q, n + 1, Len(q))
             b == SubSeq(q, 1, n)
  <1>3. /\ b \in Shapes /\ c \in Shapes /\ ~Holds(c, "reset")
        /\ Holds(q, "start") <=> Holds(b, "start") \/ Holds(c, "start")
        /\ Holds(q, "start") => (Holds(c, "start") <=> Len(q) > n)
        /\ ~(Holds(b, "start") /\ Holds(c, "start"))
    BY <1>1, PrefixFacts
  <1>4. Len(q) \in Nat /\ n \in Nat /\ Len(c) = Len(q) - n
    <2>1. q \in Seq(Kind) /\ Len(q) \in Nat
      BY TimersProper DEF Inv, Kept, Proper
    <2> QED  BY <2>1, Suffix
  <1>5. /\ batch' = b /\ timers'.armed = c
        /\ timers'.named = IF timers.named > n THEN timers.named - n ELSE 0
        /\ timers.named = IF Holds(q, "start") THEN Len(q) ELSE 0
    BY <1>1, <1>2 DEF Tidy
  <1> HIDE DEF b, c
  <1>6. timers'.named = IF Holds(c, "start") THEN Len(c) ELSE 0
    <2>1. CASE Holds(q, "start")
      BY <1>3, <1>4, <1>5, <2>1
    <2>2. CASE ~Holds(q, "start")
      <3>1. timers.named = 0 /\ ~Holds(c, "start") /\ ~(0 > n)
        BY <1>3, <1>4, <1>5, <2>2
      <3> QED  BY <1>5, <3>1
    <2> QED  BY <2>1, <2>2
  <1>7. Tidy(timers')
    BY <1>3, <1>5, <1>6 DEF Tidy
  <1>8. timers.named # 0 <=> Holds(q, "start")
    BY <1>1, TidyNamed
  <1>9. timers'.named # 0 <=> Holds(c, "start")
    BY <1>5, <1>7, TidyNamed
  <1>10. RetryDue' <=> Holds(b, "start")
    BY <1>5 DEF RetryDue
  <1>11. ~RetryDue
    BY <1>1, ShapeFacts DEF RetryDue
  <1> QED  BY <1>3, <1>5, <1>7, <1>8, <1>9, <1>10, <1>11

LEMMA BeginBatchInv == ASSUME Inv, BeginBatch PROVE Orderly'
  <1>1. UNCHANGED <<state, connect, stopped, gaveUp>>
    BY DEF BeginBatch
  <1>2. /\ stopped => state # "connecting" /\ ~connect /\ timers.named = 0
        /\ timers.named # 0 => connect /\ ~gaveUp /\ state = "disconnected"
        /\ state = "connecting" => connect /\ ~gaveUp
    BY TidyNamed DEF Inv, Orderly, StopIsFinal, RetriesAgree
  <1>3. timers'.named # 0 <=> Holds(timers'.armed, "start")
    BY BatchTidy, TidyNamed
  <1> QED
    BY <1>1, <1>2, <1>3, BatchTidy DEF Orderly, StopIsFinal, RetriesAgree, QuietBatch

LEMMA RunResetTidy ==
  ASSUME Inv, RunReset
  PROVE  batch' \in Shapes /\ RetryDue' = RetryDue /\ batch # <<>>
  <1>1. /\ batch # <<>> /\ Head(batch) = "reset" /\ batch' = Tail(batch)
        /\ batch \in Shapes
    BY DEF RunReset, Inv, Orderly, RetriesAgree
  <1>2. \/ batch = <<"reset">> /\ batch' = <<>>
        \/ batch = <<"reset", "start">> /\ batch' = <<"start">>
    BY <1>1, ShapeFacts DEF Shapes
  <1>3. batch' \in Shapes /\ (RetryDue' <=> RetryDue)
    BY <1>2, ShapeFacts DEF Shapes, RetryDue
  <1> QED  BY <1>1, <1>3 DEF RetryDue, Holds

LEMMA RunResetInv == ASSUME Inv, RunReset PROVE Orderly'
  <1>1. UNCHANGED <<state, connect, timers, stopped, gaveUp>>
    BY DEF RunReset
  <1> QED
    BY <1>1, RunResetTidy
       DEF Inv, Orderly, StopIsFinal, RetriesAgree, QuietBatch

LEMMA NextInv == ASSUME Inv, ~StartWhenever, [Next]_vars PROVE Inv'
  <1>1. Kept'
    BY NextKept DEF Inv
  <1>2. CASE UserStart \/ RunStart
    BY <1>1, <1>2, StartInv DEF Inv
  <1>3. CASE Stop
    BY <1>1, <1>3, StopInv DEF Inv
  <1>4. CASE OnConnect \/ BeginBatch \/ RunReset
    BY <1>1, <1>4, OnConnectInv, BeginBatchInv, RunResetInv DEF Inv
  <1>5. CASE SocketReady \/ ConnectionLost \/ PeerComesUp \/ UNCHANGED vars
    <2>1. UNCHANGED <<state, connect, timers, batch, stopped, gaveUp>>
      BY <1>5 DEF SocketReady, ConnectionLost, PeerComesUp, vars
    <2>2. Orderly'
      BY <2>1 DEF Inv, Orderly, StopIsFinal, RetriesAgree, QuietBatch, RetryDue, Tidy
    <2> QED  BY <1>1, <2>2 DEF Inv
  <1> QED  BY <1>2, <1>3, <1>4, <1>5 DEF Next, Loop

LEMMA AlwaysInv == ASSUME ~StartWhenever PROVE Spec => []Inv
  BY InitInv, NextInv, PTL DEF Spec

\* If nobody connects while a retry is due that was stopped too late: no
\* descriptor leaks, no wish to connect is dropped, and a stop is final, also for
\* a user who stops in the middle of an attempt (AttemptsAgree).
THEOREM AttemptsAlwaysAgree ==
  ASSUME ~StartWhenever
  PROVE  Spec => []AttemptsAgree
  <1>1. Inv => AttemptsAgree
    BY DEF Inv, Kept, Orderly, AttemptsAgree
  <1> QED  BY <1>1, AlwaysInv, PTL

\* The assertions of connector.cc (AssertsHold) do not fail, if moreover users
\* stop only between attempts.
THEOREM NoAssertFails ==
  ASSUME ~StartWhenever, ~StopWhenever
  PROVE  Spec => []AssertsHold
  <1>1. Inv => AssertsHold
    <2> SUFFICES ASSUME Inv PROVE AssertsHold
      OBVIOUS
    <2>1. ASSUME batch # <<>>, Head(batch) = "start" PROVE StartAsserts
      <3>1. batch = <<"start">>
        BY <2>1, ShapeFacts DEF Inv, Orderly, RetriesAgree, Shapes
      <3>2. RetryDue /\ ~Holds(batch, "reset") /\ ~Holds(timers.armed, "reset")
        BY <3>1, ShapeFacts DEF Inv, Orderly, QuietBatch, RetryDue
      <3>3. state = "disconnected" /\ event # "spent"
        BY <3>2 DEF Inv, Orderly, RetriesAgree, Kept, ResetsAgree
      <3> QED  BY <3>3 DEF StartAsserts, Inv, Kept, TypeOK, NoFdLeak
    <2>2. MayStart => StartAsserts
      BY DEF MayStart
    <2>3. event = "live" => state = "connecting"
      BY DEF Inv, Kept, NoFdLeak
    <2>4. MayStop => StopAsserts
      BY DEF MayStop, StopAsserts, Inv, Kept, NoFdLeak
    <2> QED  BY <2>1, <2>2, <2>3, <2>4 DEF AssertsHold
  <1> QED  BY <1>1, AlwaysInv, PTL

----------------------------------------------------------------------------
\* The connector implements Attempt

\* A step that the owner does not see.
LEMMA Unseen ==
  ASSUME UNCHANGED <<state, event, stopped, gaveUp>>,
         (timers.named # 0 \/ RetryDue)' = (timers.named # 0 \/ RetryDue)
  PROVE  UNCHANGED <<Phase, event = "spent">>
  BY DEF Phase

\* Where an attempt begins, and where that leads.
LEMMA StartBegins ==
  ASSUME Inv, Inv', ~StartWhenever, UserStart \/ RunStart
  PROVE  /\ Phase' \in {"connecting", "waiting", "gaveUp"}
         /\ event # "spent" /\ event' # "spent"
  <1>1. /\ Start /\ ~stopped' /\ ~RetryDue'
        /\ state = "disconnected" /\ event = "none"
    BY StartFinds DEF StartAsserts
  <1>2. PICK result \in Results :
          ConnectReturns(result) /\ gaveUp' = (result = "fatal")
    BY <1>1 DEF Start
  <1>3. CASE result = "progress"
    BY <1>1, <1>2, <1>3 DEF ConnectReturns, Phase
  <1>4. CASE result = "retry"
    <2>1. state' = "disconnected" /\ connect' /\ ~gaveUp' /\ event' = event
      BY <1>1, <1>2, <1>4 DEF ConnectReturns, Retry, Start
    <2>2. timers'.named # 0
      BY <1>1, <2>1 DEF Inv, Kept, NeverGivesUp
    <2> QED  BY <1>1, <2>1, <2>2 DEF Phase
  <1>5. CASE result = "fatal"
    BY <1>1, <1>2, <1>5 DEF ConnectReturns, Phase
  <1> QED  BY <1>3, <1>4, <1>5, ResultAssumption

LEMMA StepAttempts ==
  ASSUME Inv, Inv', ~StartWhenever, [Next]_vars
  PROVE  [Promised!Next]_<<Phase, event = "spent">>
  <1>1. CASE UserStart
    <2>1. /\ state = "disconnected" /\ event # "spent" /\ timers.named = 0
          /\ ~RetryDue
      BY <1>1, StartFinds DEF StartAsserts, UserStart, MayStart
    <2>2. Phase \in {"idle", "gaveUp", "stopped"}
      BY <2>1 DEF Phase
    <2>3. /\ Phase' \in {"connecting", "waiting", "gaveUp"}
          /\ event # "spent" /\ event' # "spent"
      BY <1>1, StartBegins
    <2> QED
      BY <2>2, <2>3 DEF Promised!Next, Promised!Starts, Promised!Begins
  <1>2. CASE Stop
    <2>1. CASE RetryDue
      <3>1. timers.named = 0 /\ state = "disconnected" /\ Tidy(timers)
        BY <2>1 DEF Inv, Orderly, RetriesAgree
      <3>2. UNCHANGED <<state, event, stopped, gaveUp>>
        BY <1>2, <2>1, <3>1 DEF Stop, Inv, Kept, TypeOK
      <3>3. RetryDue'
        BY <1>2, <2>1 DEF Stop, RetryDue
      <3> QED  BY <2>1, <3>2, <3>3, Unseen
    <2>2. CASE ~RetryDue
      <3>1. Phase \notin {"idle", "stopped"}
        BY <1>2, <2>2 DEF Stop, Phase, Inv, Kept, TypeOK, NeverGivesUp
      <3>2. Phase' = "stopped"
        BY <1>2, <2>2 DEF Stop, Phase
      <3>3. Phase = "connecting" <=> state = "connecting"
        BY <1>2 DEF Stop, Phase, Inv, Kept, TypeOK
      <3>4. (event = "spent")' = ((event = "spent") \/ Phase = "connecting")
        BY <1>2, <3>3 DEF Stop, RemoveEvent
      <3> QED
        BY <3>1, <3>2, <3>4 DEF Promised!Next, Promised!Stops
    <2> QED  BY <2>1, <2>2
  <1>3. CASE SocketReady \/ ConnectionLost \/ PeerComesUp \/ UNCHANGED vars
    <2>1. UNCHANGED <<state, event, stopped, gaveUp, timers, batch>>
      BY <1>3 DEF SocketReady, ConnectionLost, PeerComesUp, vars
    <2> QED  BY <2>1, Unseen DEF RetryDue
  <1>4. CASE OnConnect
    <2>1. /\ state = "connecting" /\ connect /\ ~gaveUp /\ ~stopped
          /\ event' = "spent" /\ UNCHANGED <<connect, stopped, gaveUp, batch>>
      BY <1>4 DEF OnConnect, RemoveEvent, Inv, Orderly, StopIsFinal, RetriesAgree
    <2>2. Phase = "connecting"
      BY <2>1 DEF Phase
    <2>3. CASE sock = "failed"
      <3>1. state' = "disconnected"
        BY <1>4, <2>3 DEF OnConnect, Retry
      <3>2. timers'.named # 0 \/ RetryDue'
        BY <2>1, <3>1 DEF Inv, Kept, NeverGivesUp
      <3>3. Phase' = "waiting"
        BY <2>1, <3>1, <3>2 DEF Phase
      <3> QED  BY <2>1, <2>2, <3>3 DEF Promised!Next, Promised!Ends
    <2>4. CASE sock # "failed"
      <3>1. Phase' = "connected"
        BY <1>4, <2>1, <2>4 DEF OnConnect, Phase
      <3> QED  BY <2>1, <2>2, <3>1 DEF Promised!Next, Promised!Ends
    <2> QED  BY <2>3, <2>4
  <1>5. CASE BeginBatch
    <2>1. UNCHANGED <<state, event, stopped, gaveUp>>
      BY <1>5 DEF BeginBatch
    <2>2. (timers.named # 0 \/ RetryDue)' = (timers.named # 0 \/ RetryDue)
      BY <1>5, BatchTidy
    <2> QED  BY <2>1, <2>2, Unseen
  <1>6. CASE RunReset
    <2>1. UNCHANGED Phase
      BY <1>6, RunResetTidy DEF RunReset, Phase
    <2>2. event = "spent" /\ event' = "none"
      <3>1. batch # <<>> /\ Head(batch) = "reset" /\ batch \in Seq(Kind)
        BY <1>6, TimersProper DEF RunReset, Inv, Kept
      <3>2. Holds(batch, "reset")
        BY <3>1, TailProper DEF Kind
      <3> QED  BY <1>6, <3>2 DEF RunReset, Inv, Kept, ResetsAgree
    <2> QED  BY <2>1, <2>2 DEF Promised!Next, Promised!EventGoes
  <1>7. CASE RunStart
    <2>1. RetryDue /\ ~stopped /\ state = "disconnected"
      <3>1. batch # <<>> /\ Head(batch) = "start" /\ batch \in Seq(Kind)
        BY <1>7, TimersProper DEF RunStart, Inv, Kept
      <3>2. RetryDue
        BY <3>1, TailProper DEF Kind, RetryDue
      <3> QED  BY <3>2 DEF Inv, Orderly, RetriesAgree
    <2>2. Phase \in {"gaveUp", "waiting"}
      BY <2>1 DEF Phase
    <2>3. /\ Phase' \in {"connecting", "waiting", "gaveUp"}
          /\ event # "spent" /\ event' # "spent"
      BY <1>7, StartBegins
    <2> QED
      BY <2>2, <2>3
         DEF Promised!Next, Promised!Starts, Promised!Repeats, Promised!Begins
  <1> QED
    BY <1>1, <1>2, <1>3, <1>4, <1>5, <1>6, <1>7 DEF Next, Loop

\* What the connector's timers and its socket do is what the owners of a client
\* expect of an attempt (ImplementsAttempt), also if they stop it at any time,
\* but not if they connect while a retry is due that was stopped too late.
THEOREM Refinement ==
  ASSUME ~StartWhenever
  PROVE  Spec => ImplementsAttempt
  <1>1. Init => Promised!Init
    <2> SUFFICES ASSUME Init PROVE Promised!Init
      OBVIOUS
    <2>1. timers.named = 0 /\ batch = <<>>
      BY DEF Init, NoTimers
    <2> QED
      BY <2>1, ShapeFacts DEF Init, Promised!Init, Phase, RetryDue
  <1>2. Inv /\ Inv' /\ [Next]_vars => [Promised!Next]_Promised!vars
    BY StepAttempts DEF Promised!vars
  <1> QED
    BY <1>1, <1>2, AlwaysInv, PTL DEF Spec, ImplementsAttempt, Promised!Spec
====
