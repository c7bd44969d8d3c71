---- MODULE TcpEventProofs ----
(***************************************************************************)
(* For any amount of data, any room in the kernel, any high-water mark and *)
(* any nesting of callbacks: the stream of a connection is intact, and no  *)
(* assertion on its way fails, if the high-water callback does no more     *)
(* than pause and resume reading.  Then it is a Connection to its owner.   *)
(***************************************************************************)
EXTENDS TcpEvent, SequenceTheorems, TLAPS

Frames ==
  [do : {"user", "buffer", "onclose", "read", "write", "drained"},
   arg : {"", "up", "down", "message", "writedone", "highwater"} \cup Seq(Nat)]

Types ==
  /\ owner \in Owners
  /\ state \in {"connecting", "connected", "disconnecting", "disconnected"}
  /\ events \subseteq {"READ", "WRITE"} /\ polled \subseteq {"IN", "OUT"}
  /\ table \in {"never", "in", "out"}
  /\ unread \in 0..SndBuf /\ produced \in 0..MaxData
  /\ fin \in BOOLEAN /\ doomed \in BOOLEAN
  /\ arrived \in 0..MaxIn /\ incoming \in 0..arrived
  /\ peer \in {"open", "fin", "reset"}
  /\ stack \in Seq(Frames)

Has(s, name) == \E i \in 1..Len(s) : s[i].do = name
IsMark(f) == f.do = "user" /\ f.arg = "highwater"

\* What a Send in progress is about to buffer.
Buffers(s, items) == \A i \in 1..Len(s) : s[i].do = "buffer" => s[i].arg = items

\* A Send that buffers is on top, or right below the high-water callback; a
\* read is on top; the owner is told of a close once.
Shape(s) ==
  /\ \A i \in 1..Len(s) : s[i].do = "buffer" => i = 1 \/ (i = 2 /\ IsMark(s[1]))
  /\ \A i \in 1..Len(s) : IsMark(s[i]) => i = 1 /\ Len(s) >= 2 /\ s[2].do = "buffer"
  /\ \A i \in 1..Len(s) : s[i].do = "read" => i = 1
  /\ \A i, j \in 1..Len(s) : s[i].do = "onclose" /\ s[j].do = "onclose" => i = j

\* What is below a frame that is neither a high-water callback nor on it.
Settled(s) ==
  /\ \A i \in 1..Len(s) : s[i].do \notin {"buffer", "read"} /\ ~IsMark(s[i])
  /\ \A i, j \in 1..Len(s) : s[i].do = "onclose" /\ s[j].do = "onclose" => i = j

\* From the first registration to the destruction.
Life ==
  /\ state = "connecting" =>
       /\ table = "never" /\ stack = <<>> /\ events = {}
       /\ ~doomed /\ ~fin /\ wire = <<>> /\ outBuf = <<>> /\ produced = 0
  /\ Open => table = "in" /\ ~doomed
  /\ state = "disconnected" =>
       /\ events = {}
       /\ IF Has(stack, "onclose") THEN table = "in" /\ ~doomed
          ELSE table = IF doomed THEN "in" ELSE "out"
  /\ Has(stack, "onclose") => state = "disconnected"
  /\ Has(stack, "read") => Open

\* What has gone out, what is buffered and what a Send is about to buffer are
\* consecutive.
Total == Len(wire) + Len(outBuf)

Flow ==
  /\ Len(wire) \in Nat /\ Len(outBuf) \in Nat /\ Total <= produced
  /\ wire = Numbers(0, Len(wire)) /\ outBuf = Numbers(Len(wire), Total)
  /\ Open /\ ~Has(stack, "buffer") => Total = produced
  /\ Has(stack, "buffer") => state = "connected" /\ Total < produced
  /\ Buffers(stack, Numbers(Total, produced))

\* What is buffered is waited for, and FIN has nothing before it.
Waits ==
  /\ Open => (IsWriting <=> outBuf # <<>>) /\ (IsWriting => "OUT" \in polled)
  /\ fin => state \in {"disconnecting", "disconnected"}
  /\ fin /\ Open => outBuf = <<>>

Inv == Types /\ Shape(stack) /\ Life /\ Flow /\ Waits

----------------------------------------------------------------------------
\* Numbers

LEMMA NumbersType ==
  ASSUME NEW a \in Nat, NEW b \in Nat, a <= b
  PROVE  /\ Numbers(a, b) \in Seq(Nat)
         /\ Len(Numbers(a, b)) = b - a
         /\ \A i \in 1..(b - a) : Numbers(a, b)[i] = a + i
  <1> DEFINE n == b - a
  <1>1. n \in Nat
    OBVIOUS
  <1> HIDE DEF n
  <1>2. \A i \in 1..n : a + i \in Nat
    OBVIOUS
  <1>3. /\ [i \in 1..n |-> a + i] \in Seq(Nat)
        /\ Len([i \in 1..n |-> a + i]) = n
        /\ \A i \in 1..n : [j \in 1..n |-> a + j][i] = a + i
    BY <1>1, <1>2
  <1>4. Numbers(a, b) = [i \in 1..n |-> a + i]
    BY DEF Numbers, n
  <1>5. /\ Numbers(a, b) \in Seq(Nat)
        /\ Len(Numbers(a, b)) = n
        /\ \A i \in 1..n : Numbers(a, b)[i] = a + i
    BY <1>3, <1>4
  <1> QED  BY <1>5 DEF n

LEMMA NumbersNone ==
  ASSUME NEW a \in Nat
  PROVE  Numbers(a, a) = <<>>
  <1>1. a <= a /\ a - a = 0
    OBVIOUS
  <1>2. Numbers(a, a) \in Seq(Nat) /\ Len(Numbers(a, a)) = 0
    BY <1>1, NumbersType
  <1> QED  BY <1>2

LEMMA NumbersInRange ==
  ASSUME NEW a \in Nat, NEW b \in Nat, NEW m \in Nat, a <= b, b <= m
  PROVE  Numbers(a, b) \in Seq(1..m)
  <1> DEFINE s == Numbers(a, b)
  <1>1. s \in Seq(Nat) /\ Len(s) = b - a /\ \A i \in 1..(b - a) : s[i] = a + i
    BY NumbersType
  <1>2. \A i \in 1..(b - a) : a + i \in 1..m
    OBVIOUS
  <1> HIDE DEF s
  <1>3. \A i \in 1..Len(s) : s[i] \in 1..m
    BY <1>1, <1>2
  <1>4. s \in Seq(1..m)
    BY <1>1, <1>3
  <1> QED  BY <1>4 DEF s

LEMMA NumbersConcat ==
  ASSUME NEW a \in Nat, NEW b \in Nat, NEW c \in Nat, a <= b, b <= c
  PROVE  Numbers(a, b) \o Numbers(b, c) = Numbers(a, c)
  <1> DEFINE s == Numbers(a, b) t == Numbers(b, c) u == Numbers(a, c)
  <1>a. s \in Seq(Nat) /\ Len(s) = b - a /\ \A i \in 1..(b - a) : s[i] = a + i
    BY NumbersType
  <1>b. t \in Seq(Nat) /\ Len(t) = c - b /\ \A i \in 1..(c - b) : t[i] = b + i
    BY NumbersType
  <1>c. a <= c
    OBVIOUS
  <1>d. u \in Seq(Nat) /\ Len(u) = c - a /\ \A i \in 1..(c - a) : u[i] = a + i
    BY <1>c, NumbersType
  <1>1. s \in Seq(Nat) /\ t \in Seq(Nat) /\ u \in Seq(Nat)
    BY <1>a, <1>b, <1>d
  <1> HIDE DEF s, t, u
  <1>2. /\ s \o t \in Seq(Nat) /\ Len(s \o t) = Len(s) + Len(t)
        /\ \A i \in 1..(Len(s) + Len(t)) :
             (s \o t)[i] = IF i <= Len(s) THEN s[i] ELSE t[i - Len(s)]
    BY <1>1, ConcatProperties
  <1>3. Len(s \o t) = Len(u)
    BY <1>a, <1>b, <1>d, <1>2
  <1>4. \A i \in 1..Len(u) : (s \o t)[i] = u[i]
    <2> SUFFICES ASSUME NEW i \in 1..(c - a) PROVE (s \o t)[i] = a + i
      BY <1>d
    <2>1. i \in 1..(Len(s) + Len(t))
      BY <1>a, <1>b
    <2>2. CASE i <= b - a
      BY <2>1, <2>2, <1>a, <1>2
    <2>3. CASE ~(i <= b - a)
      <3>1. i - (b - a) \in 1..(c - b) /\ b + (i - (b - a)) = a + i
        BY <2>3
      <3>2. (s \o t)[i] = t[i - (b - a)]
        BY <2>1, <2>3, <1>a, <1>2
      <3> QED  BY <3>1, <3>2, <1>b
    <2> QED  BY <2>2, <2>3
  <1>5. s \o t = u
    BY <1>1, <1>2, <1>3, <1>4, SeqEqual
  <1> QED  BY <1>5 DEF s, t, u

LEMMA NumbersCut ==
  ASSUME NEW a \in Nat, NEW b \in Nat, a <= b, NEW n \in 0..(b - a)
  PROVE  /\ SubSeq(Numbers(a, b), 1, n) = Numbers(a, a + n)
         /\ SubSeq(Numbers(a, b), n + 1, b - a) = Numbers(a + n, b)
  <1> DEFINE s == Numbers(a, b)
  <1>1. s \in Seq(Nat) /\ Len(s) = b - a /\ \A i \in 1..(b - a) : s[i] = a + i
    BY NumbersType
  <1>2. n \in Nat /\ n <= b - a /\ a + n \in Nat /\ a + n <= b /\ b - a \in Nat
    OBVIOUS
  <1> HIDE DEF s
  <1>3. SubSeq(s, 1, n) = Numbers(a, a + n)
    <2> DEFINE u == SubSeq(s, 1, n) v == Numbers(a, a + n)
    <2>1. \A i \in 1..n : s[i] \in Nat
      BY <1>1, <1>2
    <2>2. u \in Seq(Nat) /\ Len(u) = n /\ \A i \in 1..n : u[i] = s[i]
      BY <1>2, <2>1
    <2>3. v \in Seq(Nat) /\ Len(v) = n /\ \A i \in 1..n : v[i] = a + i
      BY <1>2, NumbersType
    <2> HIDE DEF u, v
    <2>4. \A i \in 1..Len(u) : u[i] = v[i]
      <3> SUFFICES ASSUME NEW i \in 1..n PROVE u[i] = v[i]
        BY <2>2
      <3>1. i \in 1..(b - a)
        BY <1>2
      <3> QED  BY <1>1, <2>2, <2>3, <3>1
    <2>5. u = v
      BY <2>2, <2>3, <2>4, SeqEqual
    <2> QED  BY <2>5 DEF u, v
  <1>4. SubSeq(s, n + 1, b - a) = Numbers(a + n, b)
    <2> DEFINE u == SubSeq(s, n + 1, b - a) v == Numbers(a + n, b)
    <2>1. \A i \in (n + 1)..(b - a) : s[i] \in Nat
      BY <1>1, <1>2
    <2>2. /\ u \in Seq(Nat) /\ Len(u) = b - a - n
          /\ \A i \in 1..(b - a - n) : u[i] = s[n + i]
      BY <1>2, <2>1
    <2>3. v \in Seq(Nat) /\ Len(v) = b - a - n /\ \A i \in 1..(b - a - n) : v[i] = a + n + i
      BY <1>2, NumbersType
    <2> HIDE DEF u, v
    <2>4. \A i \in 1..Len(u) : u[i] = v[i]
      <3> SUFFICES ASSUME NEW i \in 1..(b - a - n) PROVE u[i] = v[i]
        BY <2>2
      <3>1. n + i \in 1..(b - a) /\ a + (n + i) = a + n + i
        BY <1>2
      <3> QED  BY <1>1, <2>2, <2>3, <3>1
    <2>5. u = v
      BY <2>2, <2>3, <2>4, SeqEqual
    <2> QED  BY <2>5 DEF u, v
  <1> QED  BY <1>3, <1>4 DEF s

----------------------------------------------------------------------------
\* The stack

LEMMA FrameTypes ==
  /\ \A callback \in {"up", "down", "message", "writedone", "highwater"} :
       /\ User(callback) \in Frames /\ User(callback).do = "user"
       /\ IsMark(User(callback)) <=> callback = "highwater"
  /\ \A items \in Seq(Nat) :
       /\ Buffer(items) \in Frames /\ Buffer(items).do = "buffer" /\ Buffer(items).arg = items
       /\ ~IsMark(Buffer(items))
  /\ \A name \in {"onclose", "read", "write", "drained"} :
       /\ Frame(name) \in Frames /\ Frame(name).do = name
       /\ ~IsMark(Frame(name))
  BY DEF User, Buffer, Frame, Frames, IsMark

LEMMA PushIndexes ==
  ASSUME NEW f \in Frames, NEW s \in Seq(Frames)
  PROVE  LET t == <<f>> \o s IN
         /\ t \in Seq(Frames) /\ Len(t) = Len(s) + 1 /\ Len(s) \in Nat
         /\ t[1] = f /\ Head(t) = f /\ Tail(t) = s /\ t # <<>>
         /\ \A i \in 1..Len(s) : i + 1 \in 1..Len(t) /\ t[i + 1] = s[i]
         /\ \A i \in 1..Len(t) : i = 1 \/ (i - 1 \in 1..Len(s) /\ t[i] = s[i - 1])
  <1> DEFINE u == <<f>> t == u \o s
  <1>1. u \in Seq(Frames) /\ Len(u) = 1 /\ u[1] = f
    OBVIOUS
  <1>2. Len(s) \in Nat
    OBVIOUS
  <1> HIDE DEF u
  <1>3. /\ t \in Seq(Frames) /\ Len(t) = Len(u) + Len(s)
        /\ \A i \in 1..(Len(u) + Len(s)) :
             t[i] = IF i <= Len(u) THEN u[i] ELSE s[i - Len(u)]
    BY <1>1, ConcatProperties
  <1> HIDE DEF t
  <1>4. Len(t) = Len(s) + 1 /\ t[1] = f
    BY <1>1, <1>2, <1>3
  <1>5. \A i \in 1..Len(s) : i + 1 \in 1..Len(t) /\ t[i + 1] = s[i]
    <2> SUFFICES ASSUME NEW i \in 1..Len(s)
                 PROVE  i + 1 \in 1..Len(t) /\ t[i + 1] = s[i]
      OBVIOUS
    <2>1. i + 1 \in 1..(1 + Len(s)) /\ ~(i + 1 <= 1) /\ (i + 1) - 1 = i
      BY <1>2
    <2> QED  BY <1>1, <1>3, <1>4, <2>1
  <1>6. \A i \in 1..Len(t) : i = 1 \/ (i - 1 \in 1..Len(s) /\ t[i] = s[i - 1])
    <2> SUFFICES ASSUME NEW i \in 1..Len(t), i # 1
                 PROVE  i - 1 \in 1..Len(s) /\ t[i] = s[i - 1]
      OBVIOUS
    <2>1. i \in 1..(1 + Len(s)) /\ ~(i <= 1) /\ i - 1 \in 1..Len(s)
      BY <1>2, <1>4
    <2> QED  BY <1>1, <1>3, <2>1
  <1>7. t # <<>> /\ Head(t) = f
    BY <1>2, <1>3, <1>4
  <1>8. Tail(t) = s
    <2>1. Tail(t) \in Seq(Frames) /\ Len(Tail(t)) = Len(s)
      BY <1>2, <1>3, <1>4, <1>7
    <2>2. \A i \in 1..Len(s) : Tail(t)[i] = s[i]
      <3> SUFFICES ASSUME NEW i \in 1..Len(s) PROVE Tail(t)[i] = s[i]
        OBVIOUS
      <3>1. Tail(t)[i] = t[i + 1]
        BY <1>3, <1>4, <1>7, <1>2
      <3> QED  BY <3>1, <1>5
    <2> QED  BY <2>1, <2>2, SeqEqual
  <1> QED  BY <1>2, <1>3, <1>4, <1>5, <1>6, <1>7, <1>8 DEF t, u

LEMMA TwoFrames ==
  ASSUME NEW f \in Frames, NEW g \in Frames, NEW s \in Seq(Frames)
  PROVE  <<f, g>> \o s = <<f>> \o (<<g>> \o s)
  <1>1. <<f>> \in Seq(Frames) /\ <<g>> \in Seq(Frames)
    OBVIOUS
  <1>2. <<f, g>> = <<f>> \o <<g>>
    <2> DEFINE t == <<f>> \o <<g>> u == <<f, g>>
    <2>1. u \in Seq(Frames) /\ Len(u) = 2 /\ u[1] = f /\ u[2] = g
      OBVIOUS
    <2>2. /\ t \in Seq(Frames) /\ Len(t) = 1 + 1
          /\ t[1] = f /\ t[1 + 1] = g
      BY <1>1, PushIndexes
    <2> HIDE DEF t, u
    <2>3. \A i \in 1..Len(u) : u[i] = t[i]
      BY <2>1, <2>2
    <2>4. u = t
      BY <2>1, <2>2, <2>3, SeqEqual
    <2> QED  BY <2>4 DEF t, u
  <1>3. (<<f>> \o <<g>>) \o s = <<f>> \o (<<g>> \o s)
    BY <1>1, ConcatAssociative
  <1> QED  BY <1>2, <1>3

\* A frame is pushed on what is settled.
LEMMA Push ==
  ASSUME NEW f \in Frames, NEW s \in Seq(Frames)
  PROVE  LET t == <<f>> \o s IN
         /\ t \in Seq(Frames) /\ Len(t) = Len(s) + 1 /\ t # <<>>
         /\ \A name : Has(t, name) <=> f.do = name \/ Has(s, name)
         /\ \A items : Buffers(t, items) <=>
              Buffers(s, items) /\ (f.do = "buffer" => f.arg = items)
         /\ Settled(s) /\ ~IsMark(f) /\ (f.do = "onclose" => ~Has(s, "onclose")) => Shape(t)
         /\ Settled(s) /\ ~IsMark(f) /\ f.do \notin {"buffer", "read"}
              /\ (f.do = "onclose" => ~Has(s, "onclose")) => Settled(t)
  <1> DEFINE t == <<f>> \o s
  <1>1. /\ t \in Seq(Frames) /\ Len(t) = Len(s) + 1 /\ Len(s) \in Nat
        /\ t[1] = f /\ t # <<>>
        /\ \A i \in 1..Len(s) : i + 1 \in 1..Len(t) /\ t[i + 1] = s[i]
        /\ \A i \in 1..Len(t) : i = 1 \/ (i - 1 \in 1..Len(s) /\ t[i] = s[i - 1])
    BY PushIndexes
  <1> HIDE DEF t
  <1>2. 1 \in 1..Len(t)
    BY <1>1
  <1>3. \A name : Has(t, name) <=> f.do = name \/ Has(s, name)
    BY <1>1, <1>2 DEF Has
  <1>4. \A items : Buffers(t, items) <=>
          Buffers(s, items) /\ (f.do = "buffer" => f.arg = items)
    <2> SUFFICES ASSUME NEW items
                 PROVE  Buffers(t, items) <=>
                          Buffers(s, items) /\ (f.do = "buffer" => f.arg = items)
      OBVIOUS
    <2>1. Buffers(t, items) => Buffers(s, items)
      BY <1>1 DEF Buffers
    <2>2. Buffers(t, items) => (f.do = "buffer" => f.arg = items)
      BY <1>1, <1>2 DEF Buffers
    <2>3. Buffers(s, items) /\ (f.do = "buffer" => f.arg = items) => Buffers(t, items)
      BY <1>1 DEF Buffers
    <2> QED  BY <2>1, <2>2, <2>3
  <1>5. ASSUME Settled(s), ~IsMark(f), f.do = "onclose" => ~Has(s, "onclose")
        PROVE  Shape(t)
    <2>1. \A i \in 1..Len(t) : i # 1 => t[i].do \notin {"buffer", "read"} /\ ~IsMark(t[i])
      BY <1>1, <1>5 DEF Settled
    <2>2. \A i \in 1..Len(t) : ~IsMark(t[i])
      BY <1>1, <1>5, <2>1
    <2>3. ASSUME NEW i \in 1..Len(t), NEW j \in 1..Len(t),
                 t[i].do = "onclose", t[j].do = "onclose"
          PROVE  i = j
      <3>1. CASE i = 1 /\ j # 1
        BY <3>1, <2>3, <1>1, <1>5 DEF Has
      <3>2. CASE i # 1 /\ j = 1
        BY <3>2, <2>3, <1>1, <1>5 DEF Has
      <3>3. CASE i # 1 /\ j # 1
        <4>1. i - 1 \in 1..Len(s) /\ j - 1 \in 1..Len(s)
              /\ s[i - 1].do = "onclose" /\ s[j - 1].do = "onclose"
          BY <3>3, <2>3, <1>1
        <4>2. i - 1 = j - 1
          BY <4>1, <1>5 DEF Settled
        <4> QED  BY <4>2, <1>1
      <3> QED  BY <3>1, <3>2, <3>3
    <2> QED  BY <2>1, <2>2, <2>3 DEF Shape
  <1>6. ASSUME Shape(t), Settled(s), ~IsMark(f), f.do \notin {"buffer", "read"}
        PROVE  Settled(t)
    <2>1. \A i \in 1..Len(t) : t[i].do \notin {"buffer", "read"} /\ ~IsMark(t[i])
      BY <1>1, <1>6 DEF Settled
    <2> QED  BY <2>1, <1>6 DEF Settled, Shape
  <1> QED  BY <1>1, <1>3, <1>4, <1>5, <1>6 DEF t

\* A Send that reports the high-water mark before it buffers.
LEMMA PushMark ==
  ASSUME NEW items \in Seq(Nat), NEW s \in Seq(Frames), Settled(s)
  PROVE  LET t == <<User("highwater")>> \o (<<Buffer(items)>> \o s) IN
         /\ t \in Seq(Frames) /\ Shape(t)
         /\ \A name : Has(t, name) <=> name \in {"user", "buffer"} \/ Has(s, name)
         /\ Buffers(t, items)
  <1> DEFINE f == User("highwater") g == Buffer(items) r == <<g>> \o s t == <<f>> \o r
  <1>1. /\ f \in Frames /\ f.do = "user" /\ IsMark(f)
        /\ g \in Frames /\ g.do = "buffer" /\ g.arg = items /\ ~IsMark(g)
    BY FrameTypes
  <1> HIDE DEF f, g
  <1>2. /\ r \in Seq(Frames) /\ Len(r) = Len(s) + 1 /\ Len(s) \in Nat /\ r[1] = g
        /\ \A i \in 1..Len(r) : i = 1 \/ (i - 1 \in 1..Len(s) /\ r[i] = s[i - 1])
    BY <1>1, PushIndexes
  <1>3. /\ \A name : Has(r, name) <=> g.do = name \/ Has(s, name)
        /\ Buffers(r, items) <=> Buffers(s, items) /\ (g.do = "buffer" => g.arg = items)
        /\ Shape(r)
    BY <1>1, Push
  <1> HIDE DEF r
  <1>4. /\ t \in Seq(Frames) /\ Len(t) = Len(r) + 1 /\ t[1] = f
        /\ \A i \in 1..Len(r) : i + 1 \in 1..Len(t) /\ t[i + 1] = r[i]
        /\ \A i \in 1..Len(t) : i = 1 \/ (i - 1 \in 1..Len(r) /\ t[i] = r[i - 1])
    BY <1>1, <1>2, PushIndexes
  <1>5. /\ \A name : Has(t, name) <=> f.do = name \/ Has(r, name)
        /\ Buffers(t, items) <=> Buffers(r, items) /\ (f.do = "buffer" => f.arg = items)
    BY <1>1, <1>2, Push
  <1> HIDE DEF t
  <1>6. Buffers(s, items)
    BY DEF Settled, Buffers
  <1>7. t[2] = g /\ Len(t) >= 2
    BY <1>2, <1>4
  <1>8. ASSUME NEW i \in 1..Len(t), i # 1, i # 2
        PROVE  t[i].do \notin {"buffer", "read"} /\ ~IsMark(t[i])
    <2>1. i - 1 \in 1..Len(r) /\ i - 1 # 1 /\ t[i] = r[i - 1]
      BY <1>8, <1>4
    <2>2. (i - 1) - 1 \in 1..Len(s) /\ r[i - 1] = s[(i - 1) - 1]
      BY <2>1, <1>2
    <2> QED  BY <2>1, <2>2 DEF Settled
  <1>9. ASSUME NEW i \in 1..Len(t), NEW j \in 1..Len(t),
               t[i].do = "onclose", t[j].do = "onclose"
        PROVE  i = j
    <2>1. i # 1 /\ j # 1
      BY <1>9, <1>1, <1>4
    <2>2. i - 1 \in 1..Len(r) /\ j - 1 \in 1..Len(r) /\ t[i] = r[i - 1] /\ t[j] = r[j - 1]
      BY <2>1, <1>4
    <2>3. i - 1 = j - 1
      BY <2>2, <1>3, <1>9 DEF Shape
    <2> QED  BY <2>3
  <1>10. Shape(t)
    <2>1. \A i \in 1..Len(t) : t[i].do = "buffer" => i = 1 \/ (i = 2 /\ IsMark(t[1]))
      BY <1>8, <1>1, <1>4
    <2>2. \A i \in 1..Len(t) : IsMark(t[i]) => i = 1 /\ Len(t) >= 2 /\ t[2].do = "buffer"
      BY <1>8, <1>1, <1>7
    <2>3. \A i \in 1..Len(t) : t[i].do = "read" => i = 1
      BY <1>8, <1>1, <1>7
    <2> QED  BY <2>1, <2>2, <2>3, <1>9 DEF Shape
  <1> QED  BY <1>1, <1>3, <1>4, <1>5, <1>6, <1>10 DEF t, r, f, g

\* The top frame is done.
LEMMA Pop ==
  ASSUME NEW s \in Seq(Frames), s # <<>>, Shape(s)
  PROVE  /\ Head(s) \in Frames
         /\ Tail(s) \in Seq(Frames) /\ Len(Tail(s)) < Len(s)
         /\ Shape(Tail(s))
         /\ ~IsMark(Head(s)) => Settled(Tail(s))
         /\ Head(s).do = "onclose" => ~Has(Tail(s), "onclose")
         /\ Head(s).do = "buffer" => ~Has(Tail(s), "buffer")
         /\ \A name : Has(s, name) <=> Head(s).do = name \/ Has(Tail(s), name)
         /\ \A items : Buffers(s, items) =>
              Buffers(Tail(s), items) /\ (Head(s).do = "buffer" => Head(s).arg = items)
  <1> DEFINE h == Head(s) t == Tail(s)
  <1>1. /\ Len(s) \in Nat /\ Len(s) >= 1 /\ h = s[1] /\ h \in Frames
        /\ t \in Seq(Frames) /\ Len(t) = Len(s) - 1
        /\ \A i \in 1..Len(t) : t[i] = s[i + 1]
    OBVIOUS
  <1> HIDE DEF h, t
  <1>2. \A i \in 1..Len(t) : i + 1 \in 1..Len(s) /\ i + 1 # 1 /\ t[i] = s[i + 1]
    BY <1>1
  <1>3. \A i \in 1..Len(s) : i = 1 \/ (i - 1 \in 1..Len(t) /\ s[i] = t[i - 1])
    <2> SUFFICES ASSUME NEW i \in 1..Len(s), i # 1
                 PROVE  i - 1 \in 1..Len(t) /\ s[i] = t[i - 1]
      OBVIOUS
    <2>1. i - 1 \in 1..Len(t) /\ (i - 1) + 1 = i
      BY <1>1
    <2> QED  BY <1>1, <2>1
  <1>4. 1 \in 1..Len(s)
    BY <1>1
  <1>5. \A i \in 1..Len(t) : t[i].do # "read" /\ ~IsMark(t[i])
    BY <1>2 DEF Shape
  <1>6. ASSUME NEW i \in 1..Len(t), NEW j \in 1..Len(t),
               t[i].do = "onclose", t[j].do = "onclose"
        PROVE  i = j
    <2>1. i + 1 = j + 1
      BY <1>2, <1>6 DEF Shape
    <2> QED  BY <2>1
  <1>7. \A i \in 1..Len(t) : t[i].do = "buffer" => i = 1 /\ IsMark(h)
    <2> SUFFICES ASSUME NEW i \in 1..Len(t), t[i].do = "buffer" PROVE i = 1 /\ IsMark(h)
      OBVIOUS
    <2>1. i + 1 = 2 /\ IsMark(s[1])
      BY <1>2 DEF Shape
    <2> QED  BY <2>1, <1>1
  <1>8. Shape(t)
    BY <1>5, <1>6, <1>7 DEF Shape
  <1>9. ~IsMark(h) => Settled(t)
    BY <1>5, <1>6, <1>7 DEF Settled
  <1>10. h.do = "onclose" => ~Has(t, "onclose")
    BY <1>1, <1>2, <1>4 DEF Has, Shape
  <1>11. h.do = "buffer" => ~Has(t, "buffer")
    BY <1>7 DEF Has, IsMark
  <1>12. \A name : Has(s, name) <=> h.do = name \/ Has(t, name)
    BY <1>1, <1>2, <1>3, <1>4 DEF Has
  <1>13. \A items : Buffers(s, items) =>
           Buffers(t, items) /\ (h.do = "buffer" => h.arg = items)
    BY <1>1, <1>2, <1>4 DEF Buffers
  <1> QED  BY <1>1, <1>8, <1>9, <1>10, <1>11, <1>12, <1>13 DEF h, t

\* Where a callback that is not the high-water one, or nothing at all, is on
\* top, no Send is in progress.
LEMMA NoSendBelow ==
  ASSUME NEW s \in Seq(Frames), Shape(s),
         s = <<>> \/ (Head(s).do \notin {"buffer", "read"} /\ ~IsMark(Head(s)))
  PROVE  Settled(s) /\ ~Has(s, "buffer")
  <1>1. CASE s = <<>>
    BY <1>1 DEF Settled, Has
  <1>2. CASE s # <<>>
    <2>1. Len(s) \in Nat /\ Len(s) >= 1 /\ Head(s) = s[1]
      BY <1>2
    <2>2. \A i \in 1..Len(s) : s[i].do \notin {"buffer", "read"} /\ ~IsMark(s[i])
      BY <1>2, <2>1 DEF Shape
    <2> QED  BY <2>2 DEF Settled, Shape, Has
  <1> QED  BY <1>1, <1>2

\* A callback on an empty stack.
LEMMA Single ==
  ASSUME NEW f \in Frames, ~IsMark(f)
  PROVE  /\ <<f>> \in Seq(Frames) /\ Shape(<<f>>)
         /\ \A name : Has(<<f>>, name) <=> f.do = name
         /\ f.do # "buffer" => \A items : Buffers(<<f>>, items)
         /\ f.do \notin {"buffer", "read"} => Settled(<<f>>)
  <1>1. <<>> \in Seq(Frames) /\ <<f>> \o <<>> = <<f>>
    OBVIOUS
  <1>2. /\ Settled(<<>>) /\ \A name : ~Has(<<>>, name)
        /\ \A items : Buffers(<<>>, items)
    BY DEF Settled, Has, Buffers
  <1> QED  BY <1>1, <1>2, Push

----------------------------------------------------------------------------
\* What the operations do

MarkPauses == MarkOps \subseteq {"stopreading", "startreading"}

LEMMA WantEffect ==
  ASSUME NEW interest, interest \subseteq {"READ", "WRITE"},
         polled \subseteq {"IN", "OUT"}, Want(interest)
  PROVE  /\ table # "out" /\ table' = "in" /\ events' = interest
         /\ polled' \subseteq {"IN", "OUT"}
         /\ "WRITE" \in interest => "OUT" \in polled'
  <1>1. BitOf["READ"] = "IN" /\ BitOf["WRITE"] = "OUT"
    BY DEF BitOf
  <1> QED  BY <1>1 DEF Want

LEMMA AcceptedRange ==
  ASSUME Types, NEW n \in Nat
  PROVE  Accepted(n) \in 0..n /\ unread + Accepted(n) \in 0..SndBuf
  BY SizeAssumption DEF Types, Accepted

\* Nobody but a user who is not in the middle of a Send makes these calls.
LEMMA CallerIsSettled ==
  ASSUME Inv, MarkPauses, NEW op \in {"send", "shutdown", "forceclose"}, MayCall(op)
  PROVE  Settled(stack) /\ ~Has(stack, "buffer")
  <1>1. stack \in Seq(Frames) /\ Shape(stack)
    BY DEF Inv, Types
  <1>2. CASE Idle
    BY <1>1, <1>2, NoSendBelow DEF Idle
  <1>3. CASE Running("user") /\ (Head(stack).arg = "highwater" => op \in MarkOps)
    <2>1. op \notin MarkOps
      BY DEF MarkPauses
    <2>2. stack # <<>> /\ Head(stack).do = "user" /\ ~IsMark(Head(stack))
      BY <1>3, <2>1 DEF Running, Idle, IsMark
    <2> QED  BY <1>1, <2>2, NoSendBelow
  <1> QED  BY <1>2, <1>3 DEF MayCall

LEMMA CallerIsUp ==
  ASSUME Inv, NEW op, MayCall(op)
  PROVE  state # "connecting"
  BY DEF Inv, Life, MayCall, Running, Idle

----------------------------------------------------------------------------
\* The invariant, action by action

LEMMA InitInv == Init => Inv
  <1> SUFFICES ASSUME Init PROVE Inv
    OBVIOUS
  <1>1. stack = <<>> /\ <<>> \in Seq(Frames)
    BY DEF Init
  <1>2. /\ Shape(<<>>) /\ \A name : ~Has(<<>>, name)
        /\ \A items : Buffers(<<>>, items)
    BY DEF Shape, Has, Buffers
  <1>a. 0 \in 0..SndBuf /\ 0 \in 0..MaxData /\ 0 \in 0..MaxIn /\ 0 \in 0..0
    BY SizeAssumption
  <1>3. Types
    BY <1>1, <1>a DEF Init, Types
  <1>4. Numbers(0, 0) = <<>>
    BY NumbersType
  <1>5. Len(<<>>) = 0
    OBVIOUS
  <1>6. Flow
    BY <1>1, <1>2, <1>4, <1>5 DEF Init, Flow, Total, Open
  <1>7. Life /\ Waits
    BY <1>1, <1>2 DEF Init, Life, Waits, Open
  <1> QED  BY <1>1, <1>2, <1>3, <1>6, <1>7 DEF Inv

LEMMA ConnectEstablishedInv ==
  ASSUME Inv, ConnectEstablished
  PROVE  Inv'
  <1>1. /\ stack' = <<User("up")>> /\ User("up") \in Frames /\ User("up").do = "user"
        /\ ~IsMark(User("up"))
    BY FrameTypes DEF ConnectEstablished
  <1>2. /\ stack' \in Seq(Frames) /\ Shape(stack')
        /\ \A name : Has(stack', name) <=> name = "user"
        /\ \A items : Buffers(stack', items)
    BY <1>1, Single
  <1>3. /\ table' = "in" /\ events' = {"READ"} /\ polled' \subseteq {"IN", "OUT"}
    BY WantEffect DEF ConnectEstablished, Inv, Types
  <1>4. /\ state = "connecting" /\ state' = "connected"
        /\ UNCHANGED <<outBuf, wire, unread, fin, produced>>
        /\ UNCHANGED <<incoming, arrived, peer, owner>> /\ doomed' = doomed
    BY DEF ConnectEstablished, data, world
  <1>5. ~doomed /\ ~fin /\ wire = <<>> /\ outBuf = <<>> /\ produced = 0
    BY <1>4 DEF Inv, Life
  <1>6. Types'
    BY <1>2, <1>3, <1>4 DEF Inv, Types
  <1>7. Life' /\ Waits'
    BY <1>2, <1>3, <1>4, <1>5 DEF Life, Waits, Open, IsWriting
  <1>8. Flow'
    BY <1>2, <1>4, <1>5 DEF Inv, Flow, Total, Open
  <1> QED  BY <1>2, <1>6, <1>7, <1>8 DEF Inv

LEMMA OnCloseInv ==
  ASSUME Inv, OnClose
  PROVE  Inv'
  <1>1. stack \in Seq(Frames) /\ stack # <<>> /\ Shape(stack) /\ Head(stack).do = "onclose"
    BY DEF Inv, Types, OnClose, Running, Idle
  <1>2. stack' = Tail(stack) /\ ~IsMark(Head(stack))
    BY <1>1 DEF OnClose, Return, IsMark
  <1>3. /\ stack' \in Seq(Frames) /\ Shape(stack') /\ Settled(stack')
        /\ ~Has(stack', "onclose") /\ Has(stack, "onclose")
        /\ \A name : name # "onclose" => (Has(stack', name) <=> Has(stack, name))
        /\ \A items : Buffers(stack, items) => Buffers(stack', items)
    BY <1>1, <1>2, Pop
  <1>4. /\ state = "disconnected" /\ events = {} /\ table = "in" /\ ~doomed
        /\ ~Has(stack, "buffer") /\ ~Has(stack, "read")
    BY <1>3 DEF Inv, Life, Flow, Open
  <1>5. /\ UNCHANGED <<state, events, polled, outBuf, wire, unread, fin, produced>>
        /\ UNCHANGED <<incoming, arrived, peer, owner>>
        /\ \/ doomed' = TRUE /\ table' = "in"
           \/ doomed' = FALSE /\ table' = "out"
    BY <1>4 DEF OnClose, ConnectDestroyed, conn, data, world, Inv, Types
  <1>6. Types'
    BY <1>3, <1>5 DEF Inv, Types
  <1>7. Life' /\ Waits'
    BY <1>3, <1>4, <1>5 DEF Inv, Life, Waits, Open
  <1>8. Flow'
    BY <1>3, <1>4, <1>5 DEF Inv, Flow, Total, Open
  <1> QED  BY <1>3, <1>6, <1>7, <1>8 DEF Inv

LEMMA RunDestroyInv ==
  ASSUME Inv, RunDestroy
  PROVE  Inv'
  <1>1. /\ doomed /\ ~doomed' /\ state = "disconnected" /\ events = {} /\ table' = "out"
        /\ UNCHANGED <<state, events, polled, outBuf, wire, unread, fin, produced>>
        /\ UNCHANGED <<incoming, arrived, peer, owner, stack>> /\ stack = <<>>
    BY DEF RunDestroy, ConnectDestroyed, data, world, Idle
  <1>2. \A name : ~Has(<<>>, name)
    BY DEF Has
  <1>3. Types'
    BY <1>1 DEF Inv, Types, RunDestroy
  <1>4. Life' /\ Waits'
    BY <1>1, <1>2 DEF Inv, Life, Waits, Open
  <1>5. Flow'
    BY <1>1 DEF Inv, Flow, Total, Open
  <1> QED  BY <1>1, <1>3, <1>4, <1>5 DEF Inv

\* The rest of a Send goes behind what is buffered already.
LEMMA BufferRestInv ==
  ASSUME Inv, BufferRest
  PROVE  Inv'
  <1>1. stack \in Seq(Frames) /\ stack # <<>> /\ Shape(stack) /\ Head(stack).do = "buffer"
    BY DEF Inv, Types, BufferRest, Running, Idle
  <1>2. /\ stack' = Tail(stack) /\ ~IsMark(Head(stack))
        /\ outBuf' = outBuf \o Head(stack).arg
        /\ UNCHANGED <<state, wire, unread, fin, produced>>
        /\ UNCHANGED <<incoming, arrived, peer, owner, doomed>>
    BY <1>1 DEF BufferRest, Return, IsMark, world
  <1>3. /\ stack' \in Seq(Frames) /\ Shape(stack') /\ Settled(stack')
        /\ ~Has(stack', "buffer") /\ Has(stack, "buffer")
        /\ \A name : name # "buffer" => (Has(stack', name) <=> Has(stack, name))
        /\ \A items : Buffers(stack, items) => Head(stack).arg = items
    BY <1>1, <1>2, Pop
  <1>4. state = "connected" /\ Total < produced /\ Head(stack).arg = Numbers(Total, produced)
    BY <1>3 DEF Inv, Flow
  <1>5. /\ Len(wire) \in Nat /\ Len(outBuf) \in Nat /\ produced \in Nat
        /\ Total \in Nat /\ Len(wire) <= Total
        /\ outBuf = Numbers(Len(wire), Total)
    BY DEF Inv, Flow, Total, Types
  <1>a. Total <= produced /\ Len(wire) <= produced /\ produced - Len(wire) > 0
    BY <1>4, <1>5
  <1>6. outBuf' = Numbers(Len(wire), produced)
    <2>1. outBuf' = Numbers(Len(wire), Total) \o Numbers(Total, produced)
      BY <1>2, <1>4, <1>5
    <2>2. Numbers(Len(wire), Total) \o Numbers(Total, produced) = Numbers(Len(wire), produced)
      BY <1>5, <1>a, NumbersConcat
    <2> QED  BY <2>1, <2>2
  <1>7. Len(outBuf') = produced - Len(wire) /\ produced - Len(wire) > 0
    <2>1. Len(Numbers(Len(wire), produced)) = produced - Len(wire)
      BY <1>5, <1>a, NumbersType
    <2> QED  BY <2>1, <1>6, <1>a
  <1>8. Total' = produced /\ Len(outBuf') \in Nat /\ outBuf' # <<>>
    BY <1>2, <1>5, <1>7 DEF Total
  <1>9. events \cup {"WRITE"} \subseteq {"READ", "WRITE"} /\ polled \subseteq {"IN", "OUT"}
    BY DEF Inv, Types
  <1>10. /\ table' = "in" /\ events' = events \cup {"WRITE"}
         /\ polled' \subseteq {"IN", "OUT"} /\ "OUT" \in polled'
    BY <1>9, WantEffect DEF BufferRest
  <1>11. Types'
    BY <1>2, <1>3, <1>9, <1>10 DEF Inv, Types
  <1>12. Life' /\ Waits'
    BY <1>2, <1>3, <1>4, <1>8, <1>10 DEF Inv, Life, Waits, Open, IsWriting
  <1>13. Buffers(stack', Numbers(produced, produced))
    BY <1>3 DEF Settled, Buffers
  <1>14. Flow'
    BY <1>2, <1>3, <1>5, <1>6, <1>8, <1>13 DEF Inv, Flow, Open
  <1> QED  BY <1>3, <1>11, <1>12, <1>14 DEF Inv

\* What Send writes at once and what it leaves to buffer continue the stream.
LEMMA SendInv ==
  ASSUME Inv, MarkPauses, NEW n \in 1..MaxSend, Send(n)
  PROVE  Inv'
  <1> DEFINE items == Numbers(produced, produced + n)
             done == IF WritesDirectly THEN Accepted(n) ELSE 0
             rest == SubSeq(items, done + 1, n)
  <1>1. /\ state = "connected" /\ produced + n <= MaxData /\ produced' = produced + n
        /\ wire' = wire \o SubSeq(items, 1, done) /\ unread' = unread + done
        /\ stack' = IF rest = <<>> THEN <<User("writedone")>> \o stack
                    ELSE IF Len(outBuf) + Len(rest) >= HighWater
                         THEN <<User("highwater"), Buffer(rest)>> \o stack
                         ELSE <<Buffer(rest)>> \o stack
        /\ UNCHANGED <<state, events, polled, table, outBuf, fin>>
        /\ UNCHANGED <<incoming, arrived, peer, owner, doomed>>
    BY DEF Send, ToKernel, conn, world
  <1>2. Settled(stack) /\ ~Has(stack, "buffer") /\ stack \in Seq(Frames)
    BY CallerIsSettled DEF Send, Inv, Types
  <1>3. n \in Nat /\ n >= 1 /\ produced \in Nat /\ produced + n \in 0..MaxData
    BY <1>1, SizeAssumption DEF Inv, Types
  <1>4. done \in 0..n /\ unread + done \in 0..SndBuf
    BY <1>3, AcceptedRange DEF Inv, Types
  <1>5. outBuf # <<>> => done = 0
    BY DEF WritesDirectly
  <1> HIDE DEF done
  <1>6. (produced + n) - produced = n /\ done \in 0..((produced + n) - produced)
        /\ produced <= produced + n /\ produced + n \in Nat
    BY <1>3, <1>4
  <1>7. SubSeq(items, 1, done) = Numbers(produced, produced + done)
        /\ rest = Numbers(produced + done, produced + n)
    BY <1>3, <1>6, NumbersCut
  <1> HIDE DEF rest
  <1>8. /\ Len(wire) \in Nat /\ Len(outBuf) \in Nat /\ Total = produced
        /\ wire = Numbers(0, Len(wire)) /\ outBuf = Numbers(Len(wire), produced)
        /\ Total = Len(wire) + Len(outBuf)
    BY <1>1, <1>2 DEF Inv, Flow, Open, Total
  <1>9. /\ produced + done \in Nat /\ produced + done <= produced + n
        /\ produced <= produced + done
    BY <1>3, <1>4
  <1>10. /\ Len(rest) = n - done /\ rest \in Seq(Nat)
         /\ rest = <<>> <=> done = n
    <2>1. Len(rest) = (produced + n) - (produced + done) /\ rest \in Seq(Nat)
      BY <1>3, <1>6, <1>7, <1>9, NumbersType
    <2>2. (produced + n) - (produced + done) = n - done
      BY <1>3, <1>4
    <2>3. Len(rest) = n - done
      BY <2>1, <2>2
    <2>4. rest = <<>> <=> Len(rest) = 0
      BY <2>1
    <2>5. n - done = 0 <=> done = n
      BY <1>3, <1>4
    <2> QED  BY <2>1, <2>3, <2>4, <2>5
  <1>11. /\ wire' = Numbers(0, Len(wire) + done) /\ outBuf = Numbers(Len(wire) + done, produced + done)
    <2>1. CASE outBuf = <<>>
      <3>1. Len(outBuf) = 0
        BY <2>1
      <3>2. Len(wire) = produced
        BY <3>1, <1>3, <1>8
      <3>3. wire' = Numbers(0, produced + done)
        <4>1. wire' = Numbers(0, produced) \o Numbers(produced, produced + done)
          BY <3>2, <1>1, <1>7, <1>8
        <4>2. 0 \in Nat /\ 0 <= produced
          BY <1>3
        <4>3. Numbers(0, produced) \o Numbers(produced, produced + done)
                = Numbers(0, produced + done)
          BY <4>2, <1>3, <1>9, NumbersConcat
        <4> QED  BY <4>1, <4>3
      <3>4. Numbers(produced + done, produced + done) = <<>>
        BY <1>9, NumbersNone
      <3> QED  BY <2>1, <3>2, <3>3, <3>4
    <2>2. CASE outBuf # <<>>
      <3>1. done = 0
        BY <2>2, <1>5
      <3>2. Numbers(produced, produced + 0) = <<>>
        <4>1. produced + 0 = produced
          BY <1>3
        <4> QED  BY <4>1, <1>3, NumbersNone
      <3>3. wire' = wire \o <<>>
        BY <3>1, <3>2, <1>1, <1>7
      <3>4. wire \in Seq(Nat)
        <4>1. Numbers(0, Len(wire)) \in Seq(Nat)
          BY <1>8, NumbersType
        <4> QED  BY <4>1, <1>8
      <3>5. wire' = wire
        BY <3>3, <3>4, ConcatEmptySeq
      <3>6. Len(wire) + done = Len(wire) /\ produced + done = produced
        BY <3>1, <1>3, <1>8
      <3> QED  BY <3>5, <3>6, <1>8
    <2> QED  BY <2>1, <2>2
  <1>12. /\ Len(wire') = Len(wire) + done /\ Len(wire') \in Nat
         /\ Total' = produced + done
    <2>1. Len(wire) + done \in Nat /\ 0 <= Len(wire) + done
      BY <1>4, <1>8
    <2>2. Len(Numbers(0, Len(wire) + done)) = Len(wire) + done
      BY <2>1, NumbersType
    <2>3. Len(wire') = Len(wire) + done
      BY <2>2, <1>11
    <2>4. Len(outBuf') = Len(outBuf)
      BY <1>1
    <2>5. Total' = (Len(wire) + done) + Len(outBuf)
      BY <2>3, <2>4 DEF Total
    <2>6. Total' = produced + done
      BY <2>5, <1>3, <1>4, <1>8
    <2> QED  BY <2>1, <2>3, <2>6
  <1>13. /\ stack' \in Seq(Frames) /\ Shape(stack')
         /\ \A name : name \notin {"user", "buffer"} => (Has(stack', name) <=> Has(stack, name))
         /\ Has(stack', "buffer") <=> done # n
         /\ Buffers(stack', rest)
    <2>1. Buffers(stack, rest)
      BY <1>2 DEF Settled, Buffers
    <2>2. CASE rest = <<>>
      <3> DEFINE f == User("writedone")
      <3>1. f \in Frames /\ f.do = "user" /\ ~IsMark(f)
        BY FrameTypes
      <3>2. stack' = <<f>> \o stack
        BY <2>2, <1>1
      <3> HIDE DEF f
      <3> QED  BY <3>1, <3>2, <2>1, <2>2, <1>2, <1>10, Push
    <2>3. CASE rest # <<>> /\ Len(outBuf) + Len(rest) >= HighWater
      <3>1. stack' = <<User("highwater"), Buffer(rest)>> \o stack
        BY <2>3, <1>1
      <3>2. <<User("highwater"), Buffer(rest)>> \o stack
              = <<User("highwater")>> \o (<<Buffer(rest)>> \o stack)
        <4>1. User("highwater") \in Frames /\ Buffer(rest) \in Frames
          BY <1>10, FrameTypes
        <4> QED  BY <4>1, <1>2, TwoFrames
      <3>3. /\ stack' \in Seq(Frames) /\ Shape(stack')
            /\ \A name : Has(stack', name) <=> name \in {"user", "buffer"} \/ Has(stack, name)
            /\ Buffers(stack', rest)
        BY <3>1, <3>2, <1>2, <1>10, PushMark
      <3> QED  BY <3>3, <2>3, <1>10
    <2>4. CASE rest # <<>> /\ ~(Len(outBuf) + Len(rest) >= HighWater)
      <3> DEFINE f == Buffer(rest)
      <3>1. f \in Frames /\ f.do = "buffer" /\ f.arg = rest /\ ~IsMark(f)
        BY <1>10, FrameTypes
      <3>2. stack' = <<f>> \o stack
        BY <2>4, <1>1
      <3> HIDE DEF f
      <3> QED  BY <3>1, <3>2, <2>1, <2>4, <1>2, <1>10, Push
    <2> QED  BY <2>2, <2>3, <2>4
  <1>14. Types'
    BY <1>1, <1>3, <1>4, <1>13 DEF Inv, Types
  <1>15. Life'
    BY <1>1, <1>13 DEF Inv, Life, Open
  <1>16. Waits'
    BY <1>1 DEF Inv, Waits, Open, IsWriting
  <1>17. Flow'
    <2>1. Total' <= produced' /\ (done = n => Total' = produced') /\ (done # n => Total' < produced')
      BY <1>1, <1>3, <1>4, <1>12
    <2>2. Buffers(stack', Numbers(Total', produced'))
      BY <1>1, <1>7, <1>12, <1>13
    <2>3. wire' = Numbers(0, Len(wire')) /\ outBuf' = Numbers(Len(wire'), Total')
      BY <1>1, <1>11, <1>12
    <2>4. Len(outBuf') \in Nat
      BY <1>1, <1>8
    <2> QED  BY <2>1, <2>2, <2>3, <2>4, <1>1, <1>12, <1>13 DEF Flow, Open
  <1> QED  BY <1>13, <1>14, <1>15, <1>16, <1>17 DEF Inv

LEMMA ShutDownInv ==
  ASSUME Inv, MarkPauses, ShutDown
  PROVE  Inv'
  <1>1. Settled(stack) /\ ~Has(stack, "buffer")
    BY CallerIsSettled DEF ShutDown
  <1>2. /\ state = "connected" /\ state' = "disconnecting" /\ fin' = (fin \/ ~IsWriting)
        /\ UNCHANGED <<events, polled, table, outBuf, wire, unread, produced>>
        /\ UNCHANGED <<incoming, arrived, peer, owner, stack, doomed>>
    BY DEF ShutDown, TryEagerShutDown, world
  <1>3. ~fin /\ (~IsWriting => outBuf = <<>>)
    BY <1>2 DEF Inv, Waits, Open
  <1>4. fin' \in BOOLEAN
    BY <1>2 DEF IsWriting
  <1>5. Types'
    BY <1>2, <1>4 DEF Inv, Types
  <1>6. Life'
    BY <1>2 DEF Inv, Life, Open
  <1>7. fin' => ~IsWriting
    BY <1>2, <1>3
  <1>8. Waits'
    BY <1>2, <1>3, <1>7 DEF Inv, Waits, Open, IsWriting
  <1>9. Flow'
    BY <1>1, <1>2 DEF Inv, Flow, Total, Open
  <1>10. Shape(stack')
    BY <1>2 DEF Inv
  <1> QED  BY <1>5, <1>6, <1>8, <1>9, <1>10 DEF Inv

\* A close, from wherever it is called.
LEMMA DoCloseInv ==
  ASSUME Inv, Open, NEW rest \in Seq(Frames), Settled(rest), ~Has(rest, "onclose"),
         DoClose(rest), UNCHANGED <<outBuf, wire, unread, fin, produced>>,
         UNCHANGED <<arrived, peer, owner, doomed>>, incoming' \in 0..arrived
  PROVE  Inv'
  <1> DEFINE f == User("down") g == Frame("onclose") r == <<g>> \o rest
  <1>1. /\ f \in Frames /\ f.do = "user" /\ ~IsMark(f)
        /\ g \in Frames /\ g.do = "onclose" /\ ~IsMark(g)
    BY FrameTypes
  <1>2. stack' = <<f, g>> \o rest
    BY DEF DoClose
  <1> HIDE DEF f, g
  <1>3. /\ r \in Seq(Frames) /\ Settled(r)
        /\ \A name : Has(r, name) <=> g.do = name \/ Has(rest, name)
    BY <1>1, Push
  <1>4. stack' = <<f>> \o r
    BY <1>1, <1>2, TwoFrames
  <1> HIDE DEF r
  <1>5. /\ stack' \in Seq(Frames) /\ Shape(stack') /\ Settled(stack')
        /\ Has(stack', "onclose")
    <2>1. /\ stack' \in Seq(Frames) /\ Shape(stack') /\ Settled(stack')
          /\ \A name : Has(stack', name) <=> f.do = name \/ Has(r, name)
      BY <1>1, <1>3, <1>4, Push
    <2> QED  BY <2>1, <1>1, <1>3
  <1>6. /\ ~Has(stack', "buffer") /\ ~Has(stack', "read")
        /\ \A items : Buffers(stack', items)
    BY <1>5 DEF Settled, Has, Buffers
  <1>7. /\ state' = "disconnected" /\ table' = "in" /\ events' = {}
        /\ polled' \subseteq {"IN", "OUT"}
    BY WantEffect DEF DoClose, Inv, Types
  <1>8. ~doomed
    BY DEF Inv, Life
  <1>9. Types'
    BY <1>5, <1>7 DEF Inv, Types
  <1>10. Life' /\ Waits'
    BY <1>5, <1>6, <1>7, <1>8 DEF Life, Waits, Open, IsWriting
  <1>11. Flow'
    BY <1>6, <1>7 DEF Inv, Flow, Total, Open
  <1> QED  BY <1>5, <1>9, <1>10, <1>11 DEF Inv

LEMMA ForceCloseInv ==
  ASSUME Inv, MarkPauses, ForceClose
  PROVE  Inv'
  <1>1. Settled(stack)
    BY CallerIsSettled DEF ForceClose
  <1>2. Open
    BY DEF ForceClose, Open
  <1>3. ~Has(stack, "onclose")
    BY <1>2 DEF Inv, Life, Open
  <1>4. stack \in Seq(Frames) /\ incoming \in 0..arrived
    BY DEF Inv, Types
  <1>5. /\ DoClose(stack) /\ UNCHANGED <<outBuf, wire, unread, fin, produced>>
        /\ UNCHANGED <<arrived, peer, owner, doomed>> /\ incoming' = incoming
    BY DEF ForceClose, data, world
  <1>6. incoming' \in 0..arrived
    BY <1>4, <1>5
  <1> QED  BY <1>1, <1>2, <1>3, <1>4, <1>5, <1>6, DoCloseInv

\* Reading is paused or resumed, also by the high-water callback.
LEMMA PauseInv ==
  ASSUME Inv, NEW op, MayCall(op), state # "disconnected",
         NEW interest, interest \subseteq {"READ", "WRITE"},
         "WRITE" \in interest <=> IsWriting,
         Want(interest), UNCHANGED <<state, data, world, stack, doomed>>
  PROVE  Inv'
  <1>1. Open
    BY CallerIsUp DEF Open, Inv, Types
  <1>2. /\ table' = "in" /\ events' = interest /\ polled' \subseteq {"IN", "OUT"}
        /\ "WRITE" \in interest => "OUT" \in polled'
    BY WantEffect DEF Inv, Types
  <1>3. /\ UNCHANGED <<outBuf, wire, unread, fin, produced>>
        /\ UNCHANGED <<incoming, arrived, peer, owner, stack, state, doomed>>
    BY DEF data, world
  <1>4. Types'
    BY <1>2, <1>3 DEF Inv, Types
  <1>5. Life' /\ Waits'
    BY <1>1, <1>2, <1>3 DEF Inv, Life, Waits, Open, IsWriting
  <1>6. Flow'
    BY <1>3 DEF Inv, Flow, Total, Open
  <1>7. Shape(stack')
    BY <1>3 DEF Inv
  <1> QED  BY <1>4, <1>5, <1>6, <1>7 DEF Inv

LEMMA ReadingInv ==
  ASSUME Inv, StopReading \/ StartReading
  PROVE  Inv'
  <1>1. events \subseteq {"READ", "WRITE"}
    BY DEF Inv, Types
  <1>2. CASE StopReading
    <2> DEFINE interest == events \ {"READ"}
    <2>1. interest \subseteq {"READ", "WRITE"} /\ ("WRITE" \in interest <=> IsWriting)
      BY <1>1 DEF IsWriting
    <2>2. /\ MayCall("stopreading") /\ state # "disconnected" /\ Want(interest)
          /\ UNCHANGED <<state, data, world, stack, doomed>>
      BY <1>2 DEF StopReading
    <2> HIDE DEF interest
    <2> QED  BY <2>1, <2>2, PauseInv
  <1>3. CASE StartReading
    <2> DEFINE interest == events \cup {"READ"}
    <2>1. interest \subseteq {"READ", "WRITE"} /\ ("WRITE" \in interest <=> IsWriting)
      BY <1>1 DEF IsWriting
    <2>2. /\ MayCall("startreading") /\ state # "disconnected" /\ Want(interest)
          /\ UNCHANGED <<state, data, world, stack, doomed>>
      BY <1>3 DEF StartReading
    <2> HIDE DEF interest
    <2> QED  BY <2>1, <2>2, PauseInv
  <1> QED  BY <1>2, <1>3

LEMMA UserReturnsInv ==
  ASSUME Inv, UserReturns
  PROVE  Inv'
  <1>1. stack \in Seq(Frames) /\ stack # <<>> /\ Shape(stack) /\ Head(stack).do = "user"
    BY DEF Inv, Types, UserReturns, Running, Idle
  <1>2. /\ stack' = Tail(stack)
        /\ UNCHANGED <<state, events, polled, table, outBuf, wire, unread, fin, produced>>
        /\ UNCHANGED <<incoming, arrived, peer, owner, doomed>>
    BY DEF UserReturns, Return, conn, data, world
  <1>3. /\ stack' \in Seq(Frames) /\ Shape(stack')
        /\ \A name : name # "user" => (Has(stack', name) <=> Has(stack, name))
        /\ \A items : Buffers(stack, items) => Buffers(stack', items)
    BY <1>1, <1>2, Pop
  <1>4. Types'
    BY <1>2, <1>3 DEF Inv, Types
  <1>5. Life' /\ Waits'
    <2>1. state # "connecting"
      BY <1>1 DEF Inv, Life
    <2> QED  BY <2>1, <1>2, <1>3 DEF Inv, Life, Waits, Open, IsWriting
  <1>6. Flow'
    BY <1>2, <1>3 DEF Inv, Flow, Total, Open
  <1> QED  BY <1>3, <1>4, <1>5, <1>6 DEF Inv

LEMMA DispatchInv ==
  ASSUME Inv, Dispatch
  PROVE  Inv'
  <1> DEFINE r == Frame("read") w == Frame("write")
  <1>1. /\ r \in Frames /\ r.do = "read" /\ ~IsMark(r)
        /\ w \in Frames /\ w.do = "write" /\ ~IsMark(w)
    BY FrameTypes
  <1>2. PICK reads \in BOOLEAN, writes \in BOOLEAN :
          /\ reads => "READ" \in events
          /\ reads \/ (writes /\ IsWriting)
          /\ stack' = (IF reads THEN <<r>> ELSE <<>>) \o (IF writes THEN <<w>> ELSE <<>>)
    <2> DEFINE rd == Readable /\ "READ" \in events
               wr == Writable
    <2>1. rd \in BOOLEAN /\ wr \in BOOLEAN
      BY DEF Readable, Writable
    <2>2. /\ rd => "READ" \in events
          /\ rd \/ (wr /\ IsWriting)
          /\ stack' = (IF rd THEN <<r>> ELSE <<>>) \o (IF wr THEN <<w>> ELSE <<>>)
      BY DEF Dispatch
    <2> HIDE DEF rd, wr, r, w
    <2> QED  BY <2>1, <2>2
  <1> HIDE DEF r, w
  <1>3. /\ stack = <<>> /\ state # "connecting"
        /\ UNCHANGED <<state, events, polled, table, outBuf, wire, unread, fin, produced>>
        /\ UNCHANGED <<incoming, arrived, peer, owner, doomed>>
    BY DEF Dispatch, Idle, conn, data, world
  <1>4. /\ <<w>> \in Seq(Frames) /\ Settled(<<w>>) /\ Shape(<<w>>)
        /\ \A name : Has(<<w>>, name) <=> w.do = name
        /\ <<r>> \in Seq(Frames) /\ Shape(<<r>>)
        /\ \A name : Has(<<r>>, name) <=> r.do = name
    BY <1>1, Single
  <1>5. /\ <<r>> \o <<w>> \in Seq(Frames) /\ Shape(<<r>> \o <<w>>)
        /\ \A name : Has(<<r>> \o <<w>>, name) <=> r.do = name \/ Has(<<w>>, name)
    BY <1>1, <1>4, Push
  <1>6. stack' \in {<<r>>, <<w>>, <<r>> \o <<w>>} /\ (~reads => stack' = <<w>>)
    <2>1. <<r>> \o <<>> = <<r>> /\ <<>> \o <<w>> = <<w>>
      BY <1>4, ConcatEmptySeq
    <2> QED  BY <1>2, <2>1
  <1>7. /\ stack' \in Seq(Frames) /\ Shape(stack')
        /\ ~Has(stack', "buffer") /\ ~Has(stack', "onclose")
        /\ Has(stack', "read") => reads
    BY <1>1, <1>4, <1>5, <1>6
  <1>8. \A name : ~Has(stack, name)
    BY <1>3 DEF Has
  <1>9. \A items : Buffers(stack', items)
    BY <1>7 DEF Has, Buffers
  <1>10. Open
    BY <1>2, <1>3 DEF Inv, Types, Life, Open, IsWriting
  <1>11. Types'
    BY <1>3, <1>7 DEF Inv, Types
  <1>12. Life' /\ Waits'
    BY <1>3, <1>7, <1>8, <1>10 DEF Inv, Life, Waits, Open, IsWriting
  <1>13. Flow'
    BY <1>3, <1>7, <1>8, <1>9 DEF Inv, Flow, Total, Open
  <1> QED  BY <1>7, <1>11, <1>12, <1>13 DEF Inv

LEMMA HandleReadInv ==
  ASSUME Inv, HandleRead
  PROVE  Inv'
  <1>1. stack \in Seq(Frames) /\ stack # <<>> /\ Shape(stack) /\ Head(stack).do = "read"
    BY DEF Inv, Types, HandleRead, Running, Idle
  <1>2. ~IsMark(Head(stack))
    BY <1>1 DEF IsMark
  <1>3. /\ Return \in Seq(Frames) /\ Settled(Return)
        /\ \A name : Has(stack, name) <=> Head(stack).do = name \/ Has(Return, name)
    BY <1>1, <1>2, Pop DEF Return
  <1>4. Open /\ ~Has(stack, "onclose")
    BY <1>1, <1>3 DEF Inv, Life, Open
  <1>5. /\ UNCHANGED <<outBuf, wire, unread, fin, produced>>
        /\ UNCHANGED <<arrived, peer, owner, doomed>>
    BY DEF HandleRead, data
  <1>6. incoming \in 0..arrived /\ arrived \in Nat
    BY SizeAssumption DEF Inv, Types
  <1>7. CASE /\ incoming' = 0 /\ stack' = <<User("message")>> \o Return /\ UNCHANGED conn
    <2> DEFINE f == User("message")
    <2>1. f \in Frames /\ f.do = "user" /\ ~IsMark(f)
      BY FrameTypes
    <2>2. stack' = <<f>> \o Return
      BY <1>7
    <2> HIDE DEF f
    <2>3. /\ stack' \in Seq(Frames) /\ Shape(stack') /\ Settled(stack')
          /\ \A name : Has(stack', name) <=> f.do = name \/ Has(Return, name)
      BY <2>1, <2>2, <1>3, Push
    <2>4. /\ ~Has(stack', "buffer") /\ ~Has(stack', "read") /\ ~Has(stack', "onclose")
          /\ \A items : Buffers(stack', items)
      <3>1. ~Has(stack', "onclose")
        BY <2>1, <2>3, <1>3, <1>4
      <3> QED  BY <3>1, <2>3 DEF Settled, Has, Buffers
    <2>5. UNCHANGED <<state, events, polled, table>>
      BY <1>7 DEF conn
    <2>6. 0 \in 0..arrived
      BY <1>6
    <2>7. Types'
      BY <1>5, <1>7, <2>3, <2>5, <2>6 DEF Inv, Types
    <2>8. Life' /\ Waits'
      BY <1>4, <1>5, <2>4, <2>5 DEF Inv, Life, Waits, Open, IsWriting
    <2>9. ~Has(stack, "buffer")
      BY <1>1, <1>3 DEF Settled, Has
    <2>10. Flow'
      BY <1>5, <2>4, <2>5, <2>9 DEF Inv, Flow, Total, Open
    <2> QED  BY <2>3, <2>7, <2>8, <2>10 DEF Inv
  <1>8. CASE DoClose(Return) /\ UNCHANGED incoming
    <2>1. incoming' \in 0..arrived
      BY <1>6, <1>8
    <2>2. ~Has(Return, "onclose")
      BY <1>3, <1>4
    <2> QED  BY <2>1, <2>2, <1>3, <1>4, <1>5, <1>8, DoCloseInv
  <1> QED  BY <1>7, <1>8 DEF HandleRead

\* The kernel takes the front of the buffer.
LEMMA HandleWriteInv ==
  ASSUME Inv, HandleWrite
  PROVE  Inv'
  <1> DEFINE n == Accepted(Len(outBuf))
  <1>1. stack \in Seq(Frames) /\ stack # <<>> /\ Shape(stack) /\ Head(stack).do = "write"
    BY DEF Inv, Types, HandleWrite, Running, Idle
  <1>2. ~IsMark(Head(stack)) /\ Return = Tail(stack)
    BY <1>1 DEF IsMark, Return
  <1>3. /\ Return \in Seq(Frames) /\ Settled(Return) /\ Shape(Return)
        /\ \A name : Has(stack, name) <=> Head(stack).do = name \/ Has(Return, name)
    BY <1>1, <1>2, Pop
  <1>4. ~Has(Return, "buffer") /\ ~Has(Return, "read") /\ ~Has(stack, "buffer")
    BY <1>1, <1>3 DEF Settled, Has
  <1>5. \A items : Buffers(Return, items)
    BY <1>3 DEF Settled, Buffers
  <1>6. /\ UNCHANGED <<state, fin, produced, incoming, arrived, peer, owner, doomed>>
        /\ state # "connecting"
    BY <1>1 DEF HandleWrite, world, Inv, Life
  <1>7. CASE ~(WantsWrite /\ ~WriteFails)
    <2>1. UNCHANGED <<events, polled, table, wire, unread, outBuf>> /\ stack' = Return
      BY <1>7 DEF HandleWrite
    <2>2. Types'
      BY <2>1, <1>3, <1>6 DEF Inv, Types
    <2>3. Life' /\ Waits'
      BY <2>1, <1>1, <1>3, <1>4, <1>6 DEF Inv, Life, Waits, Open, IsWriting
    <2>4. Flow'
      BY <2>1, <1>3, <1>4, <1>5, <1>6 DEF Inv, Flow, Total, Open
    <2> QED  BY <2>1, <2>2, <2>3, <2>4, <1>3 DEF Inv
  <1>8. CASE WantsWrite /\ ~WriteFails
    <2>1. /\ wire' = wire \o SubSeq(outBuf, 1, n) /\ unread' = unread + n
          /\ outBuf' = SubSeq(outBuf, n + 1, Len(outBuf))
      BY <1>8 DEF HandleWrite, ToKernel
    <2>2. Open /\ IsWriting
      BY <1>6, <1>8 DEF Inv, Types, Life, Open, WantsWrite, IsWriting
    <2>3. /\ Len(wire) \in Nat /\ Len(outBuf) \in Nat /\ Total \in Nat
          /\ Total = Len(wire) + Len(outBuf) /\ Total = produced
          /\ wire = Numbers(0, Len(wire)) /\ outBuf = Numbers(Len(wire), Total)
      BY <2>2, <1>4 DEF Inv, Flow, Total, Types
    <2>4. n \in 0..Len(outBuf) /\ unread + n \in 0..SndBuf
      BY <2>3, AcceptedRange DEF Inv
    <2> HIDE DEF n
    <2>5. /\ Len(outBuf) = Total - Len(wire) /\ Len(wire) <= Total
          /\ n \in 0..(Total - Len(wire)) /\ Len(wire) + n \in Nat
          /\ Len(wire) + n <= Total /\ Len(wire) <= Len(wire) + n
          /\ 0 \in Nat /\ 0 <= Len(wire) /\ 0 <= Len(wire) + n
      BY <2>3, <2>4
    <2>6. /\ SubSeq(outBuf, 1, n) = Numbers(Len(wire), Len(wire) + n)
          /\ SubSeq(outBuf, n + 1, Len(outBuf)) = Numbers(Len(wire) + n, Total)
      <3>1. /\ SubSeq(Numbers(Len(wire), Total), 1, n) = Numbers(Len(wire), Len(wire) + n)
            /\ SubSeq(Numbers(Len(wire), Total), n + 1, Total - Len(wire))
                  = Numbers(Len(wire) + n, Total)
        BY <2>3, <2>5, NumbersCut
      <3> QED  BY <3>1, <2>3, <2>5
    <2>7. wire' = Numbers(0, Len(wire) + n)
      <3>1. Numbers(0, Len(wire)) \o Numbers(Len(wire), Len(wire) + n)
              = Numbers(0, Len(wire) + n)
        BY <2>3, <2>5, NumbersConcat
      <3> QED  BY <3>1, <2>1, <2>3, <2>6
    <2>8. Len(wire') = Len(wire) + n
      <3>1. Len(Numbers(0, Len(wire) + n)) = (Len(wire) + n) - 0
        BY <2>5, NumbersType
      <3> QED  BY <3>1, <2>5, <2>7
    <2>9. outBuf' = Numbers(Len(wire'), Total)
      BY <2>1, <2>6, <2>8
    <2>10. Len(outBuf') = Total - Len(wire')
      <3>1. Len(Numbers(Len(wire) + n, Total)) = Total - (Len(wire) + n)
        BY <2>3, <2>5, NumbersType
      <3> QED  BY <3>1, <2>8, <2>9
    <2>11. /\ Total' = Total /\ Len(outBuf') \in Nat /\ Len(wire') \in Nat
      <3>1. Total' = Len(wire') + Len(outBuf')
        BY DEF Total
      <3> QED  BY <3>1, <2>3, <2>5, <2>8, <2>10
    <2>12. wire' = Numbers(0, Len(wire'))
      BY <2>7, <2>8
    <2>13. CASE outBuf' # <<>>
      <3>1. UNCHANGED <<events, polled, table>> /\ stack' = Return
        BY <1>8, <2>13 DEF HandleWrite
      <3>2. Types'
        BY <3>1, <2>1, <2>4, <1>3, <1>6 DEF Inv, Types
      <3>3. outBuf # <<>>
        BY <2>2 DEF Inv, Waits
      <3>4. Life' /\ Waits'
        BY <3>1, <3>3, <2>13, <1>1, <1>3, <1>4, <1>6 DEF Inv, Life, Waits, Open, IsWriting
      <3>5. Flow'
        BY <3>1, <2>3, <2>9, <2>11, <2>12, <1>4, <1>5, <1>6 DEF Flow, Open
      <3> QED  BY <3>1, <3>2, <3>4, <3>5, <1>3 DEF Inv
    <2>14. CASE outBuf' = <<>>
      <3> DEFINE f == User("writedone") g == Frame("drained") r == <<g>> \o Return
      <3>1. /\ f \in Frames /\ f.do = "user" /\ ~IsMark(f)
            /\ g \in Frames /\ g.do = "drained" /\ ~IsMark(g)
        BY FrameTypes
      <3>2. stack' = <<f, g>> \o Return /\ Want(events \ {"WRITE"})
        BY <1>8, <2>14 DEF HandleWrite
      <3> HIDE DEF f, g
      <3>3. /\ r \in Seq(Frames) /\ Settled(r)
            /\ \A name : Has(r, name) <=> g.do = name \/ Has(Return, name)
        BY <3>1, <1>3, Push
      <3>4. stack' = <<f>> \o r
        BY <3>1, <3>2, <1>3, TwoFrames
      <3> HIDE DEF r
      <3>5. /\ stack' \in Seq(Frames) /\ Shape(stack') /\ Settled(stack')
            /\ \A name : Has(stack', name) <=> f.do = name \/ Has(r, name)
        BY <3>1, <3>3, <3>4, Push
      <3>6. ~Has(stack', "onclose") /\ ~Has(stack', "buffer") /\ ~Has(stack', "read")
        <4>1. ~Has(stack, "onclose")
          BY <2>2 DEF Inv, Life, Open
        <4> QED  BY <4>1, <3>1, <3>3, <3>5, <1>1, <1>3, <1>4
      <3>7. \A items : Buffers(stack', items)
        BY <3>6 DEF Has, Buffers
      <3>8. events \ {"WRITE"} \subseteq {"READ", "WRITE"}
        BY DEF Inv, Types
      <3>9. /\ table' = "in" /\ events' = events \ {"WRITE"}
            /\ polled' \subseteq {"IN", "OUT"}
        BY <3>2, <3>8, WantEffect DEF Inv, Types
      <3>10. Types'
        BY <3>5, <3>8, <3>9, <2>1, <2>4, <1>6 DEF Inv, Types
      <3>11. Life' /\ Waits'
        BY <3>6, <3>9, <2>2, <2>14, <1>6 DEF Inv, Life, Waits, Open, IsWriting
      <3>12. Flow'
        BY <3>6, <3>7, <2>3, <2>9, <2>11, <2>12, <1>6 DEF Flow, Open
      <3> QED  BY <3>5, <3>10, <3>11, <3>12 DEF Inv
    <2> QED  BY <2>13, <2>14
  <1> QED  BY <1>7, <1>8

LEMMA DrainedInv ==
  ASSUME Inv, Drained
  PROVE  Inv'
  <1>1. stack \in Seq(Frames) /\ stack # <<>> /\ Shape(stack) /\ Head(stack).do = "drained"
    BY DEF Inv, Types, Drained, Running, Idle
  <1>2. ~IsMark(Head(stack))
    BY <1>1 DEF IsMark
  <1>3. /\ stack' = Tail(stack) /\ state # "connecting"
        /\ fin' = IF state = "disconnecting" THEN fin \/ ~IsWriting ELSE fin
        /\ UNCHANGED <<state, events, polled, table, outBuf, wire, unread, produced>>
        /\ UNCHANGED <<incoming, arrived, peer, owner, doomed>>
    BY <1>1 DEF Drained, TryEagerShutDown, Return, conn, world, Inv, Life
  <1>4. /\ stack' \in Seq(Frames) /\ Shape(stack') /\ Settled(stack')
        /\ \A name : name # "drained" => (Has(stack', name) <=> Has(stack, name))
    BY <1>1, <1>2, <1>3, Pop
  <1>5. ~Has(stack', "buffer") /\ (\A items : Buffers(stack', items)) /\ ~Has(stack, "buffer")
    BY <1>4 DEF Settled, Has, Buffers
  <1>6. fin' \in BOOLEAN
    BY <1>3 DEF Inv, Types, IsWriting
  <1>7. Types'
    BY <1>3, <1>4, <1>6 DEF Inv, Types
  <1>8. Life'
    BY <1>3, <1>4 DEF Inv, Life, Open
  <1>9. fin' => fin \/ (state = "disconnecting" /\ ~IsWriting)
    BY <1>3
  <1>10. Waits'
    BY <1>3, <1>9 DEF Inv, Waits, Open, IsWriting
  <1>11. Flow'
    BY <1>3, <1>5 DEF Inv, Flow, Total, Open
  <1> QED  BY <1>4, <1>7, <1>8, <1>10, <1>11 DEF Inv

\* What the peer does is outside.
LEMMA PeerInv ==
  ASSUME Inv, PeerSends \/ PeerReads \/ \E how \in {"fin", "reset"} : PeerLeaves(how)
  PROVE  Inv'
  <1>1. /\ UNCHANGED <<state, events, polled, table, outBuf, wire, fin, produced>>
        /\ UNCHANGED <<owner, stack, doomed>>
    BY DEF PeerSends, PeerReads, PeerLeaves, conn, data, world
  <1>2. /\ unread' \in 0..SndBuf /\ arrived' \in 0..MaxIn /\ incoming' \in 0..arrived'
        /\ peer' \in {"open", "fin", "reset"}
    <2>1. CASE PeerSends
      BY <2>1, SizeAssumption DEF PeerSends, data, Inv, Types
    <2>2. CASE PeerReads
      BY <2>2, SizeAssumption DEF PeerReads, world, Inv, Types
    <2>3. CASE \E how \in {"fin", "reset"} : PeerLeaves(how)
      BY <2>3 DEF PeerLeaves, data, Inv, Types
    <2> QED  BY <2>1, <2>2, <2>3
  <1>3. Types'
    BY <1>1, <1>2 DEF Inv, Types
  <1>4. Life' /\ Waits' /\ Shape(stack')
    BY <1>1 DEF Inv, Life, Waits, Open, IsWriting
  <1>5. Flow'
    BY <1>1 DEF Inv, Flow, Total, Open
  <1> QED  BY <1>3, <1>4, <1>5 DEF Inv

LEMMA StutterInv ==
  ASSUME Inv, UNCHANGED vars
  PROVE  Inv'
  <1>1. /\ UNCHANGED <<state, events, polled, table, outBuf, wire, unread, fin, produced>>
        /\ UNCHANGED <<incoming, arrived, peer, owner, stack, doomed>>
    BY DEF vars, conn, data, world
  <1>2. Types' /\ Shape(stack')
    BY <1>1 DEF Inv, Types
  <1>3. Life' /\ Waits'
    BY <1>1 DEF Inv, Life, Waits, Open, IsWriting
  <1>4. Flow'
    BY <1>1 DEF Inv, Flow, Total, Open
  <1> QED  BY <1>2, <1>3, <1>4 DEF Inv

LEMMA NextInv ==
  ASSUME MarkPauses, Inv, [Next]_vars
  PROVE  Inv'
  <1>1. CASE UserCalls
    BY <1>1, SendInv, ShutDownInv, ForceCloseInv, ReadingInv DEF UserCalls
  <1>2. CASE UserReturns
    BY <1>2, UserReturnsInv
  <1>3. CASE Library
    BY <1>3, ConnectEstablishedInv, OnCloseInv, RunDestroyInv, BufferRestInv,
       DispatchInv, HandleReadInv, HandleWriteInv, DrainedInv DEF Library
  <1>4. CASE PeerSends \/ PeerReads \/ \E how \in {"fin", "reset"} : PeerLeaves(how)
    BY <1>4, PeerInv
  <1>5. CASE UNCHANGED vars
    BY <1>5, StutterInv
  <1> QED  BY <1>1, <1>2, <1>3, <1>4, <1>5 DEF Next

LEMMA AlwaysInv ==
  ASSUME MarkPauses
  PROVE  Spec => []Inv
  BY InitInv, NextInv, PTL DEF Spec

----------------------------------------------------------------------------
\* What the invariant says of the properties

LEMMA InvTypeOK == Inv => TypeOK
  <1> SUFFICES ASSUME Inv PROVE TypeOK
    OBVIOUS
  <1>1. /\ Len(wire) \in Nat /\ Total \in Nat /\ Len(wire) <= Total /\ 0 <= Len(wire)
        /\ produced \in Nat /\ Total <= MaxData /\ Len(wire) <= MaxData /\ MaxData \in Nat
        /\ wire = Numbers(0, Len(wire)) /\ outBuf = Numbers(Len(wire), Total)
    BY SizeAssumption DEF Inv, Flow, Total, Types
  <1>2. wire \in Seq(1..MaxData)
    <2>1. Numbers(0, Len(wire)) \in Seq(1..MaxData)
      BY <1>1, NumbersInRange
    <2> QED  BY <2>1, <1>1
  <1>3. outBuf \in Seq(1..MaxData)
    <2>1. Numbers(Len(wire), Total) \in Seq(1..MaxData)
      BY <1>1, NumbersInRange
    <2> QED  BY <2>1, <1>1
  <1>4. \A i \in DOMAIN stack :
          stack[i].do \in {"user", "buffer", "onclose", "read", "write", "drained"}
    <2>1. \A i \in DOMAIN stack : stack[i] \in Frames
      BY DEF Inv, Types
    <2> QED  BY <2>1 DEF Frames
  <1>5. incoming \in 0..MaxIn
    BY SizeAssumption DEF Inv, Types
  <1> QED  BY <1>2, <1>3, <1>4, <1>5 DEF Inv, Types, TypeOK

LEMMA InvStreamIntact == Inv => StreamIntact
  <1> SUFFICES ASSUME Inv PROVE StreamIntact
    OBVIOUS
  <1>1. /\ Len(wire) \in Nat /\ Total \in Nat /\ Len(wire) <= Total /\ 0 <= Len(wire)
        /\ produced \in Nat /\ Len(outBuf) \in Nat /\ Total = Len(wire) + Len(outBuf)
        /\ wire = Numbers(0, Len(wire)) /\ outBuf = Numbers(Len(wire), Total)
    BY DEF Inv, Flow, Total, Types
  <1>2. Pending = {} <=> ~Has(stack, "buffer")
    BY DEF Pending, Has, Inv, Types
  <1>3. ASSUME Open, ~Has(stack, "buffer")
        PROVE  wire \o outBuf = Numbers(0, produced) /\ Total = produced
    <2>1. Total = produced
      BY <1>3 DEF Inv, Flow
    <2>2. Numbers(0, Len(wire)) \o Numbers(Len(wire), Total) = Numbers(0, Total)
      BY <1>1, NumbersConcat
    <2> QED  BY <2>1, <2>2, <1>1
  <1>4. \A i, j \in DOMAIN wire : i < j => wire[i] < wire[j]
    <2>1. /\ Numbers(0, Len(wire)) \in Seq(Nat)
          /\ \A i \in 1..(Len(wire) - 0) : Numbers(0, Len(wire))[i] = 0 + i
      BY <1>1, NumbersType
    <2>2. DOMAIN wire = 1..Len(wire)
      BY <1>1, <2>1
    <2>3. \A i \in 1..Len(wire) : wire[i] = i
      <3> SUFFICES ASSUME NEW i \in 1..Len(wire) PROVE wire[i] = i
        OBVIOUS
      <3>1. i \in 1..(Len(wire) - 0) /\ 0 + i = i
        BY <1>1
      <3>2. Numbers(0, Len(wire))[i] = 0 + i
        BY <2>1, <3>1
      <3> QED  BY <3>1, <3>2, <1>1
    <2> QED  BY <2>2, <2>3
  <1>5. InOrder
    BY <1>2, <1>3, <1>4 DEF InOrder
  <1>6. WritingIffBuffered
    BY DEF Inv, Waits, WritingIffBuffered
  <1>7. ASSUME Open, fin PROVE wire = Numbers(0, produced)
    <2>1. state = "disconnecting" /\ outBuf = <<>>
      BY <1>7 DEF Inv, Waits, Open
    <2>2. ~Has(stack, "buffer")
      BY <2>1 DEF Inv, Flow
    <2>3. Len(outBuf) = 0
      BY <2>1
    <2>4. Len(wire) = produced
      BY <2>2, <2>3, <1>1, <1>3, <1>7
    <2> QED  BY <2>4, <1>1
  <1> QED  BY <1>5, <1>6, <1>7 DEF StreamIntact, FinAfterData

LEMMA TopOfStack ==
  ASSUME Inv, NEW name, Running(name)
  PROVE  Has(stack, name)
  <1>1. stack \in Seq(Frames) /\ stack # <<>> /\ Head(stack).do = name
    BY DEF Inv, Types, Running, Idle
  <1>2. 1 \in 1..Len(stack) /\ stack[1] = Head(stack)
    BY <1>1
  <1> QED  BY <1>1, <1>2 DEF Has

LEMMA InvAssertsHold == Inv => AssertsHold
  <1> SUFFICES ASSUME Inv PROVE AssertsHold
    OBVIOUS
  <1>1. Running("buffer") => table # "out"
    BY TopOfStack DEF Inv, Flow, Life, Open
  <1>2. Running("read") => Open /\ table = "in"
    BY TopOfStack DEF Inv, Life
  <1>3. Running("write") /\ IsWriting => table = "in"
    BY DEF Inv, Types, Life, Open, IsWriting
  <1>4. ~Has(<<>>, "onclose")
    BY DEF Has
  <1>5. Idle /\ doomed => state = "disconnected" /\ events = {} /\ table = "in"
    BY <1>4 DEF Inv, Types, Life, Open, Idle
  <1>6. Running("onclose") => state = "disconnected" /\ events = {} /\ table = "in"
    BY TopOfStack DEF Inv, Life
  <1>7. state = "disconnected" /\ Idle => doomed \/ table = "out"
    BY <1>4 DEF Inv, Life, Idle
  <1> QED  BY <1>1, <1>2, <1>3, <1>5, <1>6, <1>7 DEF AssertsHold

\* Of a connection that is down only what is on the stack goes on.
LEMMA NextSilent ==
  ASSUME Inv, Next, state = "disconnected"
  PROVE  stack' = stack \/ stack' = Tail(stack)
  <1>1. /\ ~IsWriting /\ ~Has(stack, "read") /\ ~Has(stack, "buffer") /\ "READ" \notin events
    BY DEF Inv, Life, Flow, Open, IsWriting
  <1>2. CASE UserCalls
    BY <1>2 DEF UserCalls, Send, ShutDown, ForceClose, StopReading, StartReading
  <1>3. CASE UserReturns
    BY <1>3 DEF UserReturns, Return
  <1>4. CASE Library
    <2>1. ~ConnectEstablished
      BY DEF ConnectEstablished
    <2>2. ~Dispatch
      BY <1>1 DEF Dispatch
    <2>3. ~BufferRest /\ ~HandleRead
      BY <1>1, TopOfStack DEF BufferRest, HandleRead
    <2>4. CASE OnClose \/ Drained
      BY <2>4 DEF OnClose, Drained, Return
    <2>5. CASE RunDestroy
      BY <2>5 DEF RunDestroy
    <2>6. CASE HandleWrite
      BY <2>6, <1>1 DEF HandleWrite, WantsWrite, Return
    <2> QED  BY <1>4, <2>1, <2>2, <2>3, <2>4, <2>5, <2>6 DEF Library
  <1>5. CASE PeerSends \/ PeerReads \/ \E how \in {"fin", "reset"} : PeerLeaves(how)
    BY <1>5 DEF PeerSends, PeerReads, PeerLeaves
  <1> QED  BY <1>2, <1>3, <1>4, <1>5 DEF Next

----------------------------------------------------------------------------
\* To its owner it is a Connection

Left == IF Open THEN outBuf \o Unbuffered ELSE <<>>

\* What went out and what is left of it are all that was sent, cut in two.
LeftFits ==
  /\ Len(wire) \in Nat /\ produced \in Nat /\ Len(wire) <= produced
  /\ wire = Numbers(0, Len(wire))
  /\ Left = IF Open THEN Numbers(Len(wire), produced) ELSE <<>>

\* A read that was dispatched is still wanted: nothing runs before it.
ReadsWanted == Running("read") => "READ" \in events

Seen == <<IF state = "connecting" THEN "none" ELSE state,
          wire, Left, fin, "READ" \in events, arrived - incoming>>

LEMMA InvLeft == Inv => LeftFits
  <1> SUFFICES ASSUME Inv PROVE LeftFits
    OBVIOUS
  <1>1. /\ Len(wire) \in Nat /\ Len(outBuf) \in Nat /\ produced \in Nat
        /\ Total = Len(wire) + Len(outBuf) /\ Total <= produced
        /\ wire = Numbers(0, Len(wire)) /\ outBuf = Numbers(Len(wire), Total)
    BY DEF Inv, Flow, Total, Types
  <1>2. Total \in Nat /\ Len(wire) <= Total /\ Len(wire) <= produced
    BY <1>1
  <1>3. ASSUME Open PROVE outBuf \o Unbuffered = Numbers(Len(wire), produced)
    <2>1. CASE Has(stack, "buffer")
      <3>1. Pending # {}
        BY <2>1 DEF Has, Pending, Inv, Types
      <3>2. PICK i \in Pending : Unbuffered = stack[i].arg
        BY <3>1 DEF Unbuffered
      <3>3. i \in 1..Len(stack) /\ stack[i].do = "buffer"
        BY <3>2 DEF Pending, Inv, Types
      <3>4. Unbuffered = Numbers(Total, produced)
        BY <3>2, <3>3 DEF Inv, Flow, Buffers
      <3>5. Numbers(Len(wire), Total) \o Numbers(Total, produced) = Numbers(Len(wire), produced)
        BY <1>1, <1>2, NumbersConcat
      <3> QED  BY <1>1, <3>4, <3>5
    <2>2. CASE ~Has(stack, "buffer")
      <3>1. Pending = {}
        BY <2>2 DEF Has, Pending, Inv, Types
      <3>2. Unbuffered = <<>> /\ Total = produced
        BY <3>1, <2>2, <1>3 DEF Unbuffered, Inv, Flow
      <3>3. outBuf \in Seq(Nat)
        <4>1. Numbers(Len(wire), Total) \in Seq(Nat)
          BY <1>1, <1>2, NumbersType
        <4> QED  BY <4>1, <1>1
      <3>4. outBuf \o <<>> = outBuf
        BY <3>3
      <3> QED  BY <3>2, <3>4, <1>1
    <2> QED  BY <2>1, <2>2
  <1> QED  BY <1>1, <1>2, <1>3 DEF LeftFits, Left

\* Where no Send is in progress, what is left is what is buffered.
LEMMA LeftIsBuffer ==
  ASSUME Inv, LeftFits, Open, ~Has(stack, "buffer")
  PROVE  Left = outBuf
  BY DEF Inv, Flow, LeftFits

LEMMA NumbersPrefix ==
  ASSUME NEW a \in Nat, NEW b \in Nat, a <= b
  PROVE  Promised!IsPrefix(Numbers(0, a), Numbers(0, b))
  <1>1. 0 \in Nat /\ 0 <= a /\ 0 <= b /\ a \in 0..(b - 0) /\ 0 + a = a
    OBVIOUS
  <1>2. Len(Numbers(0, a)) = a - 0 /\ Len(Numbers(0, b)) = b - 0
    BY <1>1, NumbersType
  <1>3. Len(Numbers(0, a)) = a /\ Len(Numbers(0, b)) = b
    BY <1>2
  <1>4. SubSeq(Numbers(0, b), 1, a) = Numbers(0, 0 + a)
    BY <1>1, NumbersCut
  <1>5. SubSeq(Numbers(0, a), 1, a) = Numbers(0, 0 + a)
    <2>1. a \in 0..(a - 0)
      OBVIOUS
    <2> QED  BY <1>1, <2>1, NumbersCut
  <1> QED  BY <1>3, <1>4, <1>5 DEF Promised!IsPrefix

\* What went out before and after a step, and what was sent by then.
LEMMA Continues ==
  ASSUME LeftFits, LeftFits', Open, Open',
         Len(wire') >= Len(wire), produced' >= produced
  PROVE  /\ Promised!IsPrefix(wire, wire')
         /\ wire \o Left = Numbers(0, produced)
         /\ (wire \o Left)' = Numbers(0, produced')
         /\ Promised!IsPrefix(wire \o Left, (wire \o Left)')
  <1>1. wire \o Left = Numbers(0, produced)
    <2>1. 0 \in Nat /\ 0 <= Len(wire)
      BY DEF LeftFits
    <2>2. Numbers(0, Len(wire)) \o Numbers(Len(wire), produced) = Numbers(0, produced)
      BY <2>1, NumbersConcat DEF LeftFits
    <2> QED  BY <2>2 DEF LeftFits
  <1>2. (wire \o Left)' = Numbers(0, produced')
    <2>1. 0 \in Nat /\ 0 <= Len(wire')
      BY DEF LeftFits
    <2>2. Numbers(0, Len(wire')) \o Numbers(Len(wire'), produced') = Numbers(0, produced')
      BY <2>1, NumbersConcat DEF LeftFits
    <2> QED  BY <2>2 DEF LeftFits
  <1> QED  BY <1>1, <1>2, NumbersPrefix DEF LeftFits

\* A step that the owner does not see.
LEMMA Unseen ==
  ASSUME LeftFits, LeftFits',
         UNCHANGED <<state, wire, fin, produced>>,
         ("READ" \in events)' = ("READ" \in events),
         arrived' - incoming' = arrived - incoming
  PROVE  UNCHANGED Seen
  <1>1. UNCHANGED Left
    BY DEF LeftFits, Open
  <1> QED  BY <1>1 DEF Seen

\* A read is wanted until it runs.
LEMMA PushedOrPopped ==
  ASSUME NEW s \in Seq(Frames), Shape(s)
  PROVE  /\ s # <<>> => (Tail(s) # <<>> => Head(Tail(s)).do # "read")
         /\ \A f, g : /\ Head(<<f>> \o s) = f /\ Head(<<f, g>> \o s) = f
                      /\ Head(<<f>>) = f
  <1>1. ASSUME s # <<>>, Tail(s) # <<>> PROVE Head(Tail(s)).do # "read"
    <2>1. Len(s) \in Nat /\ 2 \in 1..Len(s) /\ Head(Tail(s)) = s[2]
      BY <1>1
    <2> QED  BY <2>1 DEF Shape
  <1>2. ASSUME NEW f, NEW g
        PROVE  Head(<<f>> \o s) = f /\ Head(<<f, g>> \o s) = f /\ Head(<<f>>) = f
    OBVIOUS
  <1> QED  BY <1>1, <1>2

LEMMA NextWanted ==
  ASSUME Inv, MarkPauses, ReadsWanted, [Next]_vars
  PROVE  ReadsWanted'
  <1>1. stack \in Seq(Frames) /\ Shape(stack)
    BY DEF Inv, Types
  <1>2. ASSUME UNCHANGED <<stack, events>> PROVE ReadsWanted'
    BY <1>2 DEF ReadsWanted, Running, Idle
  <1>3. ASSUME UNCHANGED stack, ~Running("read") PROVE ReadsWanted'
    BY <1>3 DEF ReadsWanted, Running, Idle
  <1>4. ASSUME ~Idle, stack' = Return PROVE ReadsWanted'
    BY <1>4, <1>1, PushedOrPopped DEF ReadsWanted, Running, Idle, Return
  <1>5. ASSUME NEW f, f.do # "read", Head(stack') = f PROVE ReadsWanted'
    BY <1>5 DEF ReadsWanted, Running
  <1>6. /\ \A callback : User(callback).do = "user"
        /\ \A items : Buffer(items).do = "buffer"
        /\ Frame("write").do = "write"
    BY DEF User, Buffer, Frame
  <1>7. CASE UserCalls
    <2>1. CASE \E n \in 1..MaxSend : Send(n)
      <3>1. PICK n \in 1..MaxSend : Send(n)
        BY <2>1
      <3>2. \/ \E f : f.do # "read" /\ stack' = <<f>> \o stack
            \/ \E f, g : f.do # "read" /\ stack' = <<f, g>> \o stack
        BY <3>1, <1>6 DEF Send
      <3>3. ASSUME NEW f, f.do # "read", stack' = <<f>> \o stack PROVE ReadsWanted'
        BY <3>3, <1>1, <1>5, PushedOrPopped
      <3>4. ASSUME NEW f, NEW g, f.do # "read", stack' = <<f, g>> \o stack
            PROVE  ReadsWanted'
        BY <3>4, <1>1, <1>5, PushedOrPopped
      <3> QED  BY <3>2, <3>3, <3>4
    <2>2. CASE ForceClose
      <3>1. stack' = <<User("down"), Frame("onclose")>> \o stack
        BY <2>2 DEF ForceClose, DoClose
      <3> QED  BY <3>1, <1>1, <1>5, <1>6, PushedOrPopped
    <2>3. CASE ShutDown \/ StopReading \/ StartReading
      <3>1. UNCHANGED stack /\ ~Running("read")
        BY <2>3 DEF ShutDown, StopReading, StartReading, MayCall, Running
      <3> QED  BY <3>1, <1>3
    <2> QED  BY <1>7, <2>1, <2>2, <2>3 DEF UserCalls
  <1>8. CASE UserReturns \/ OnClose \/ BufferRest \/ Drained
    <2>1. ~Idle /\ stack' = Return
      BY <1>8 DEF UserReturns, OnClose, BufferRest, Drained, Running
    <2> QED  BY <2>1, <1>4
  <1>9. CASE ConnectEstablished
    <2>1. stack' = <<User("up")>>
      BY <1>9 DEF ConnectEstablished
    <2> QED  BY <2>1, <1>1, <1>5, <1>6, PushedOrPopped
  <1>10. CASE RunDestroy
    BY <1>10, <1>2 DEF RunDestroy, ConnectDestroyed
  <1>11. CASE Dispatch
    <2>1. UNCHANGED events
      BY <1>11 DEF Dispatch, conn
    <2>2. CASE "READ" \in events
      BY <2>1, <2>2 DEF ReadsWanted
    <2>3. CASE "READ" \notin events
      <3>1. stack' = <<>> \o <<Frame("write")>>
        BY <1>11, <2>3 DEF Dispatch
      <3>2. Head(stack') = Frame("write")
        BY <3>1
      <3> QED  BY <3>2, <1>5, <1>6
    <2> QED  BY <2>2, <2>3
  <1>12. CASE HandleRead
    <2>1. /\ Return \in Seq(Frames) /\ Shape(Return)
      BY <1>1, <1>12, Pop DEF HandleRead, Running, Idle, Return
    <2>2. \/ stack' = <<User("message")>> \o Return
          \/ stack' = <<User("down"), Frame("onclose")>> \o Return
      BY <1>12 DEF HandleRead, DoClose
    <2> QED  BY <2>1, <2>2, <1>5, <1>6, PushedOrPopped
  <1>13. CASE HandleWrite
    <2>1. ~Idle /\ Return \in Seq(Frames) /\ Shape(Return)
      BY <1>1, <1>13, Pop DEF HandleWrite, Running, Idle, Return
    <2>2. \/ stack' = <<User("writedone"), Frame("drained")>> \o Return
          \/ stack' = Return
      BY <1>13 DEF HandleWrite
    <2> QED  BY <2>1, <2>2, <1>4, <1>5, <1>6, PushedOrPopped
  <1>14. CASE PeerSends \/ PeerReads \/ \E how \in {"fin", "reset"} : PeerLeaves(how)
    <2>1. UNCHANGED <<stack, events>>
      BY <1>14 DEF PeerSends, PeerReads, PeerLeaves, conn
    <2> QED  BY <2>1, <1>2
  <1>15. CASE UNCHANGED vars
    BY <1>15, <1>2 DEF vars, conn
  <1> QED
    BY <1>7, <1>8, <1>9, <1>10, <1>11, <1>12, <1>13, <1>14, <1>15 DEF Next, Library

\* An open connection sends: everything from Send to the wire is in order.
LEMMA SendSeen ==
  ASSUME Inv, MarkPauses, LeftFits, LeftFits', NEW n \in 1..MaxSend, Send(n)
  PROVE  Promised!Sends
  <1>1. /\ state = "connected" /\ produced' = produced + n
        /\ UNCHANGED <<state, events, outBuf, fin, incoming, arrived>>
        /\ wire' = wire \o SubSeq(Numbers(produced, produced + n), 1,
                                  IF WritesDirectly THEN Accepted(n) ELSE 0)
    BY DEF Send, ToKernel, conn, world
  <1>2. n \in Nat /\ produced \in Nat /\ Open /\ Open' /\ produced' >= produced
    <2>1. n \in Nat /\ produced \in Nat
      BY DEF LeftFits
    <2> QED  BY <1>1, <2>1 DEF Open
  <1>3. Left = outBuf
    BY <1>2, CallerIsSettled, LeftIsBuffer DEF Send
  <1> DEFINE done == IF WritesDirectly THEN Accepted(n) ELSE 0
  <1>4. done \in 0..n
    BY <1>2, AcceptedRange DEF Inv
  <1>5. wire' = wire \o SubSeq(Numbers(produced, produced + n), 1, done)
    BY <1>1
  <1>a. outBuf # <<>> => done = 0
    BY DEF WritesDirectly
  <1> HIDE DEF done
  <1>6. SubSeq(Numbers(produced, produced + n), 1, done) = Numbers(produced, produced + done)
    <2>1. /\ produced + n \in Nat /\ produced <= produced + n
          /\ done \in 0..((produced + n) - produced)
      BY <1>2, <1>4
    <2> QED  BY <2>1, <1>2, NumbersCut
  <1>7. /\ Numbers(produced, produced + done) \in Seq(Nat)
        /\ Len(Numbers(produced, produced + done)) = done
    <2>1. /\ produced + done \in Nat /\ produced <= produced + done
          /\ (produced + done) - produced = done
      BY <1>2, <1>4
    <2> QED  BY <2>1, <1>2, NumbersType
  <1>8. wire \in Seq(Nat)
    <2>1. 0 \in Nat /\ 0 <= Len(wire)
      BY DEF LeftFits
    <2> QED  BY <2>1, NumbersType DEF LeftFits
  <1>9. Len(wire') = Len(wire) + done
    BY <1>5, <1>6, <1>7, <1>8, ConcatProperties
  <1>10. Len(wire') >= Len(wire)
    BY <1>4, <1>9 DEF LeftFits
  <1>11. Left # <<>> => wire' = wire
    <2> SUFFICES ASSUME Left # <<>> PROVE wire' = wire
      OBVIOUS
    <2>1. done = 0
      BY <1>3, <1>a
    <2>2. Len(wire') = Len(wire)
      BY <1>9, <2>1 DEF LeftFits
    <2> QED  BY <2>2 DEF LeftFits
  <1>12. /\ Promised!IsPrefix(wire, wire')
         /\ Promised!IsPrefix(wire \o Left, (wire \o Left)')
    BY <1>2, <1>10, Continues
  <1> QED  BY <1>1, <1>11, <1>12 DEF Promised!Sends, Left

\* The loop sends from the front of what is buffered.
LEMMA HandleWriteSeen ==
  ASSUME Inv, LeftFits, LeftFits', HandleWrite
  PROVE  Promised!Writes \/ UNCHANGED Seen
  <1>1. UNCHANGED <<state, fin, produced, incoming, arrived>>
    BY DEF HandleWrite, world
  <1>2. CASE ~(WantsWrite /\ ~WriteFails)
    <2>1. UNCHANGED <<events, wire>>
      BY <1>2 DEF HandleWrite
    <2> QED  BY <1>1, <2>1, Unseen
  <1>3. CASE WantsWrite /\ ~WriteFails
    <2>1. Open /\ outBuf # <<>> /\ Open'
      <3>1. IsWriting /\ Running("write")
        BY <1>3 DEF WantsWrite, HandleWrite
      <3>2. state # "connecting" /\ state # "disconnected"
        BY <3>1 DEF Inv, Life, IsWriting, Running, Idle
      <3>3. Open
        BY <3>2 DEF Open, Inv, Types
      <3> QED  BY <3>1, <3>3, <1>1 DEF Inv, Waits, Open
    <2>2. ("READ" \in events)' = ("READ" \in events)
      <3>1. events' = events \/ events' = events \ {"WRITE"}
        BY <1>3 DEF HandleWrite, Want
      <3> QED  BY <3>1
    <2>3. Left # <<>>
      <3>1. outBuf \in Seq(Nat)
        BY <2>1, NumbersType DEF Inv, Flow, Total
      <3> QED  BY <2>1, <3>1 DEF Left, LeftFits
    <2>4. Len(wire') >= Len(wire)
      <3>1. wire' = wire \o SubSeq(outBuf, 1, Accepted(Len(outBuf)))
        BY <1>3 DEF HandleWrite, ToKernel
      <3>2. wire \in Seq(Nat) /\ outBuf \in Seq(Nat) /\ Len(outBuf) \in Nat
        BY NumbersType DEF Inv, Flow, Total
      <3>3. Accepted(Len(outBuf)) \in 0..Len(outBuf)
        BY <3>2, AcceptedRange DEF Inv
      <3> HIDE DEF Accepted
      <3>4. SubSeq(outBuf, 1, Accepted(Len(outBuf))) \in Seq(Nat)
        BY <3>2, <3>3
      <3> QED  BY <3>1, <3>2, <3>4, ConcatProperties
    <2>5. /\ Promised!IsPrefix(wire, wire')
          /\ (wire \o Left)' = wire \o Left
      <3>1. produced' >= produced
        BY <1>1 DEF LeftFits
      <3> QED  BY <1>1, <2>1, <2>4, <3>1, Continues
    <2> QED
      BY <1>1, <2>1, <2>2, <2>3, <2>5
         DEF Promised!Writes, Promised!There, Left, Open
  <1> QED  BY <1>2, <1>3

LEMMA DoCloseSeen ==
  ASSUME Inv, LeftFits', Open, NEW rest, DoClose(rest),
         UNCHANGED <<wire, fin, produced, incoming, arrived>>
  PROVE  Promised!Closes
  <1>1. state' = "disconnected" /\ events' = {}
    BY DEF DoClose, Want
  <1>2. Left' = <<>>
    BY <1>1 DEF LeftFits, Open
  <1> QED  BY <1>1, <1>2 DEF Promised!Closes, Promised!There, Open, Left

LEMMA ShutDownSeen ==
  ASSUME Inv, MarkPauses, LeftFits, LeftFits', ShutDown
  PROVE  Promised!ShutsDown
  <1>1. /\ state = "connected" /\ state' = "disconnecting" /\ Open /\ Open'
        /\ fin' = (fin \/ ~IsWriting)
        /\ UNCHANGED <<events, outBuf, wire, produced, incoming, arrived>>
    BY DEF ShutDown, TryEagerShutDown, world, Open
  <1>2. Left = outBuf
    BY <1>1, CallerIsSettled, LeftIsBuffer DEF ShutDown
  <1>3. ~fin /\ (IsWriting <=> outBuf # <<>>)
    BY <1>1 DEF Inv, Waits
  <1>4. fin' = (Left = <<>>)
    BY <1>1, <1>2, <1>3
  <1>5. Left' = Left
    BY <1>1 DEF LeftFits
  <1> QED  BY <1>1, <1>4, <1>5 DEF Promised!ShutsDown, Left

LEMMA DrainedSeen ==
  ASSUME Inv, LeftFits, LeftFits', Drained
  PROVE  Promised!SendsFin \/ UNCHANGED Seen
  <1>1. /\ fin' = IF state = "disconnecting" THEN fin \/ ~IsWriting ELSE fin
        /\ UNCHANGED <<state, events, outBuf, wire, produced, incoming, arrived>>
    BY DEF Drained, TryEagerShutDown, conn, world
  <1>2. CASE fin' = fin
    BY <1>1, <1>2, Unseen
  <1>3. CASE fin' # fin
    <2>1. state = "disconnecting" /\ fin' = TRUE /\ ~IsWriting /\ Open /\ Open'
      BY <1>1, <1>3 DEF Open, Inv, Types, IsWriting
    <2>2. outBuf = <<>> /\ ~Has(stack, "buffer")
      BY <2>1 DEF Inv, Waits, Flow
    <2>3. Left = <<>> /\ Left' = Left
      BY <1>1, <2>1, <2>2, LeftIsBuffer DEF LeftFits
    <2> QED  BY <1>1, <2>1, <2>3 DEF Promised!SendsFin, Left
  <1> QED  BY <1>2, <1>3

\* Reading is paused or resumed.
LEMMA PauseSeen ==
  ASSUME Inv, LeftFits, LeftFits', StopReading \/ StartReading
  PROVE  Promised!Pauses
  <1>1. Open
    BY CallerIsUp DEF StopReading, StartReading, Open, Inv, Types
  <1>2. UNCHANGED <<state, wire, fin, produced, incoming, arrived>>
    BY DEF StopReading, StartReading, data, world
  <1>3. Left' = Left
    BY <1>2 DEF LeftFits, Open
  <1> QED  BY <1>1, <1>2, <1>3 DEF Promised!Pauses, Promised!There, Open, Left

\* What was read was wanted, and the end of the stream closes.
LEMMA HandleReadSeen ==
  ASSUME Inv, LeftFits, LeftFits', ReadsWanted, HandleRead
  PROVE  Promised!Receives \/ Promised!Closes
  <1>1. Open /\ "READ" \in events
    BY TopOfStack DEF HandleRead, ReadsWanted, Inv, Life
  <1>2. UNCHANGED <<wire, fin, produced, arrived>>
    BY DEF HandleRead, data
  <1>3. CASE incoming > 0 /\ incoming' = 0 /\ UNCHANGED conn
    <2>1. UNCHANGED <<state, events>>
      BY <1>3 DEF conn
    <2>2. Left' = Left
      BY <1>2, <2>1 DEF LeftFits, Open
    <2>3. arrived - 0 > arrived - incoming
      BY <1>3, SizeAssumption DEF Inv, Types
    <2> QED
      BY <1>1, <1>2, <1>3, <2>1, <2>2, <2>3
         DEF Promised!Receives, Promised!There, Open, Left
  <1>4. CASE DoClose(Return) /\ UNCHANGED incoming
    BY <1>1, <1>2, <1>4, DoCloseSeen
  <1> QED  BY <1>3, <1>4 DEF HandleRead

LEMMA OpensSeen ==
  ASSUME Inv, LeftFits, LeftFits', ConnectEstablished
  PROVE  Promised!Opens
  <1>1. /\ state = "connecting" /\ state' = "connected"
        /\ UNCHANGED <<wire, fin, produced, incoming, arrived>>
    BY DEF ConnectEstablished, data, world
  <1>2. wire = <<>> /\ produced = 0 /\ Len(<<>>) = 0
    BY <1>1 DEF Inv, Life
  <1>3. Left = <<>> /\ Left' = Numbers(0, 0)
    BY <1>1, <1>2 DEF LeftFits, Open
  <1>4. Left' = Left
    BY <1>3, NumbersNone
  <1>5. ("READ" \in events)' \in BOOLEAN
    OBVIOUS
  <1> QED  BY <1>1, <1>4, <1>5 DEF Promised!Opens, Left

\* Every step is one that the owner sees, or none at all.
LEMMA NextSeen ==
  ASSUME Inv, MarkPauses, ReadsWanted, LeftFits, LeftFits', [Next]_vars
  PROVE  Promised!Next \/ UNCHANGED Seen
  <1> USE DEF Promised!Next
  <1>1. CASE UserCalls
    <2>1. CASE ForceClose
      <3>1. Open /\ DoClose(stack) /\ UNCHANGED <<wire, fin, produced, incoming, arrived>>
        BY <2>1 DEF ForceClose, Open, data, world
      <3> QED  BY <3>1, DoCloseSeen
    <2> QED  BY <1>1, <2>1, SendSeen, ShutDownSeen, PauseSeen DEF UserCalls
  <1>2. CASE ConnectEstablished
    BY <1>2, OpensSeen
  <1>3. CASE HandleRead \/ HandleWrite \/ Drained
    BY <1>3, HandleReadSeen, HandleWriteSeen, DrainedSeen
  <1>4. CASE UserReturns \/ Dispatch
    <2>1. UNCHANGED <<state, wire, fin, produced, events, incoming, arrived>>
      BY <1>4 DEF UserReturns, Dispatch, conn, data, world
    <2> QED  BY <2>1, Unseen
  <1>5. CASE OnClose \/ RunDestroy
    <2>1. UNCHANGED <<state, wire, fin, produced, events, incoming, arrived>>
      BY <1>5 DEF OnClose, RunDestroy, ConnectDestroyed, conn, data, world
    <2> QED  BY <2>1, Unseen
  <1>6. CASE BufferRest
    <2>1. /\ UNCHANGED <<state, wire, fin, produced, incoming, arrived>>
          /\ events' = events \cup {"WRITE"}
      BY <1>6 DEF BufferRest, Want, world
    <2>2. ("READ" \in events)' = ("READ" \in events)
      BY <2>1
    <2> QED  BY <2>1, <2>2, Unseen
  <1>7. CASE PeerSends
    <2>1. /\ UNCHANGED <<state, wire, fin, produced, events>>
          /\ incoming' = incoming + 1 /\ arrived' = arrived + 1
      BY <1>7 DEF PeerSends, conn, data
    <2>2. arrived' - incoming' = arrived - incoming
      BY <2>1, SizeAssumption DEF Inv, Types
    <2> QED  BY <2>1, <2>2, Unseen
  <1>8. CASE PeerReads \/ \E how \in {"fin", "reset"} : PeerLeaves(how)
    <2>1. UNCHANGED <<state, wire, fin, produced, events, incoming, arrived>>
      BY <1>8 DEF PeerReads, PeerLeaves, conn, data, world
    <2> QED  BY <2>1, Unseen
  <1>9. CASE UNCHANGED vars
    <2>1. UNCHANGED <<state, wire, fin, produced, events, incoming, arrived>>
      BY <1>9 DEF vars, conn, data, world
    <2> QED  BY <2>1, Unseen
  <1> QED
    BY <1>1, <1>2, <1>3, <1>4, <1>5, <1>6, <1>7, <1>8, <1>9 DEF Next, Library

----------------------------------------------------------------------------
\* It has one life

Stages ==
  /\ Stage = IF state = "connecting" THEN "none"
             ELSE IF Open THEN "open"
             ELSE IF Has(stack, "onclose") THEN "closing"
             ELSE IF doomed THEN "posted" ELSE "gone"
  /\ table = "in" <=> Stage \in {"open", "closing", "posted"}

LEMMA InvStages == Inv => Stages
  <1> SUFFICES ASSUME Inv PROVE Stages
    OBVIOUS
  <1>1. (\E i \in DOMAIN stack : stack[i].do = "onclose") <=> Has(stack, "onclose")
    BY DEF Has, Inv, Types
  <1>2. Stage = IF state = "connecting" THEN "none"
                ELSE IF Open THEN "open"
                ELSE IF Has(stack, "onclose") THEN "closing"
                ELSE IF doomed THEN "posted" ELSE "gone"
    BY <1>1 DEF Stage
  <1>3. table = "in" <=> Stage \in {"open", "closing", "posted"}
    BY <1>2 DEF Inv, Types, Life, Open
  <1> QED  BY <1>2, <1>3 DEF Stages

LivesOn == Lived!Next \/ UNCHANGED Lived!vars

LEMMA SameStage ==
  ASSUME Inv, Stages, Stages', Stage' = Stage, UNCHANGED owner
  PROVE  LivesOn
  <1>1. (state = "connecting" <=> Stage = "none") /\ (state' = "connecting" <=> Stage' = "none")
    BY DEF Stages, Open
  <1>2. (table' = "in" <=> table = "in")
    BY DEF Stages
  <1> QED  BY <1>1, <1>2 DEF LivesOn, Lived!vars

\* Nobody is told of a connection that is open, and none is destroyed.
LEMMA OpenLives ==
  ASSUME Inv, Inv', Stages, Stages', Open, [Next]_vars
  PROVE  LivesOn
  <1>1. /\ state \in {"connected", "disconnecting"} /\ Stage = "open" /\ ~doomed
        /\ ~Has(stack, "onclose")
    BY DEF Inv, Life, Stages, Open
  <1>2. ASSUME NEW rest, DoClose(rest), UNCHANGED <<owner, doomed>> PROVE LivesOn
    <2>1. state' = "disconnected" /\ table' = "in" /\ ~doomed'
      BY <1>1, <1>2 DEF DoClose, Want
    <2>2. Stage' = "closing"
      BY <2>1 DEF Inv, Life, Stages, Open
    <2>3. table = "in"
      BY <1>1 DEF Stages
    <2> QED
      BY <1>1, <1>2, <2>1, <2>2, <2>3 DEF LivesOn, Lived!Next, Lived!Closes
  <1>3. ASSUME state' \in {"connected", "disconnecting"}, UNCHANGED owner PROVE LivesOn
    <2>1. Stage' = "open"
      BY <1>3 DEF Stages, Open
    <2> QED  BY <1>1, <1>3, <2>1, SameStage
  <1>4. CASE UserCalls
    BY <1>1, <1>2, <1>3, <1>4
       DEF UserCalls, Send, ShutDown, ForceClose, StopReading, StartReading, conn, world
  <1>5. CASE Library
    <2>1. ~ConnectEstablished /\ ~RunDestroy
      BY <1>1 DEF ConnectEstablished, RunDestroy
    <2>2. ~OnClose
      BY <1>1, TopOfStack DEF OnClose
    <2>3. CASE BufferRest \/ Dispatch \/ HandleWrite \/ Drained
      BY <1>1, <1>3, <2>3 DEF BufferRest, Dispatch, HandleWrite, Drained, conn, world
    <2>4. CASE HandleRead
      BY <1>1, <1>2, <1>3, <2>4 DEF HandleRead, conn
    <2> QED  BY <1>5, <2>1, <2>2, <2>3, <2>4 DEF Library
  <1>6. CASE UserReturns \/ PeerSends \/ PeerReads \/ UNCHANGED vars
               \/ \E how \in {"fin", "reset"} : PeerLeaves(how)
    BY <1>1, <1>3, <1>6
       DEF UserReturns, PeerSends, PeerReads, PeerLeaves, vars, conn, world
  <1> QED  BY <1>4, <1>5, <1>6 DEF Next

\* After the end the owner is told once, and then it is destroyed.
LEMMA DownLives ==
  ASSUME Inv, Inv', Stages, Stages', state = "disconnected", [Next]_vars
  PROVE  LivesOn
  <1>1. /\ ~Open /\ events = {} /\ ~Has(stack, "read") /\ ~Has(stack, "buffer")
        /\ owner \in {"server", "client"}
    BY OwnerAssumption DEF Inv, Types, Life, Flow, Open
  <1>2. stack \in Seq(Frames) /\ Shape(stack)
    BY DEF Inv, Types
  <1>3. ASSUME UNCHANGED <<state, doomed, owner>>, UNCHANGED stack PROVE LivesOn
    <2>1. Stage' = Stage
      BY <1>3 DEF Stages, Open
    <2> QED  BY <1>3, <2>1, SameStage
  <1>4. ASSUME UNCHANGED <<state, doomed, owner>>, stack # <<>>, Head(stack).do # "onclose",
               stack' = Tail(stack)
        PROVE  LivesOn
    <2>1. Has(stack', "onclose") <=> Has(stack, "onclose")
      BY <1>2, <1>4, Pop
    <2>2. Stage' = Stage
      BY <1>4, <2>1 DEF Stages, Open
    <2> QED  BY <1>4, <2>2, SameStage
  <1>5. CASE OnClose
    <2>1. /\ stack # <<>> /\ Head(stack).do = "onclose" /\ stack' = Tail(stack)
          /\ state' = "disconnected" /\ UNCHANGED owner
      BY <1>5 DEF OnClose, Running, Idle, Return, conn, world, ConnectDestroyed
    <2>2. Has(stack, "onclose") /\ ~Has(stack', "onclose")
      BY <1>2, <2>1, Pop
    <2>3. Stage = "closing" /\ ~doomed /\ table = "in"
      BY <1>1, <2>2 DEF Inv, Life, Stages
    <2>4. CASE owner = "server"
      <3>1. doomed' = TRUE /\ table' = "in"
        BY <1>5, <2>3, <2>4 DEF OnClose, conn
      <3>2. Stage' = "posted"
        BY <2>1, <2>2, <3>1 DEF Stages, Open
      <3> QED
        BY <2>1, <2>3, <2>4, <3>1, <3>2 DEF LivesOn, Lived!Next, Lived!TellsServer
    <2>5. CASE owner # "server"
      <3>1. ~doomed' /\ table' = "out" /\ owner = "client"
        BY <1>1, <1>5, <2>3, <2>5 DEF OnClose, ConnectDestroyed
      <3>2. Stage' = "gone"
        BY <2>1, <2>2, <3>1 DEF Stages, Open
      <3> QED
        BY <2>1, <2>3, <3>1, <3>2 DEF LivesOn, Lived!Next, Lived!TellsClient
    <2> QED  BY <2>4, <2>5
  <1>6. CASE RunDestroy
    <2>1. /\ stack = <<>> /\ doomed /\ ~doomed' /\ table' = "out"
          /\ UNCHANGED <<state, owner, stack>>
      BY <1>6 DEF RunDestroy, ConnectDestroyed, Idle, world
    <2>2. ~Has(stack, "onclose") /\ ~Has(stack', "onclose")
      BY <2>1 DEF Has
    <2>3. Stage = "posted" /\ Stage' = "gone"
      BY <1>1, <2>1, <2>2 DEF Stages, Open
    <2> QED  BY <2>1, <2>3 DEF LivesOn, Lived!Next, Lived!IsDestroyed
  <1>7. CASE UserReturns \/ Drained
    BY <1>4, <1>7 DEF UserReturns, Drained, Running, Idle, Return, conn, world
  <1>8. CASE HandleWrite
    <2>1. stack' = Tail(stack)
      BY <1>1, <1>8 DEF HandleWrite, WantsWrite, IsWriting, Return
    <2> QED  BY <1>4, <1>8, <2>1 DEF HandleWrite, Running, Idle, world
  <1>9. ~UserCalls
    BY DEF UserCalls, Send, ShutDown, ForceClose, StopReading, StartReading
  <1>10. ~ConnectEstablished /\ ~Dispatch /\ ~BufferRest /\ ~HandleRead
    BY <1>1, TopOfStack DEF ConnectEstablished, Dispatch, BufferRest, HandleRead, IsWriting
  <1>11. CASE PeerSends \/ PeerReads \/ UNCHANGED vars
                \/ \E how \in {"fin", "reset"} : PeerLeaves(how)
    BY <1>3, <1>11 DEF PeerSends, PeerReads, PeerLeaves, vars, conn, world
  <1> QED
    BY <1>5, <1>6, <1>7, <1>8, <1>9, <1>10, <1>11 DEF Next, Library

\* Before it is established nothing happens to it but what the peer does.
LEMMA NewLives ==
  ASSUME Inv, Inv', Stages, Stages', state = "connecting", [Next]_vars
  PROVE  LivesOn
  <1>1. /\ stack = <<>> /\ ~doomed /\ ~Open /\ Stage = "none" /\ table = "never"
        /\ owner \in {"server", "client"}
    BY OwnerAssumption DEF Inv, Types, Life, Stages, Open
  <1>2. CASE ConnectEstablished
    <2>1. state' = "connected" /\ table' = "in" /\ UNCHANGED owner
      BY <1>2 DEF ConnectEstablished, Want, world
    <2>2. Stage' = "open"
      BY <2>1 DEF Stages, Open
    <2> QED  BY <1>1, <2>1, <2>2 DEF LivesOn, Lived!Next, Lived!Opens
  <1>3. ~UserCalls
    BY <1>1 DEF UserCalls, Send, ShutDown, ForceClose, StopReading, StartReading, MayCall,
                Running, Idle
  <1>4. /\ ~OnClose /\ ~RunDestroy /\ ~BufferRest /\ ~Dispatch
        /\ ~HandleRead /\ ~HandleWrite /\ ~Drained /\ ~UserReturns
    BY <1>1 DEF OnClose, RunDestroy, BufferRest, Dispatch, HandleRead, HandleWrite, Drained,
                UserReturns, Running, Idle
  <1>5. CASE PeerSends \/ PeerReads \/ UNCHANGED vars
               \/ \E how \in {"fin", "reset"} : PeerLeaves(how)
    <2>1. UNCHANGED <<state, owner>>
      BY <1>5 DEF PeerSends, PeerReads, PeerLeaves, vars, conn, world
    <2>2. Stage' = "none"
      BY <2>1 DEF Stages
    <2> QED  BY <1>1, <2>1, <2>2, SameStage
  <1> QED  BY <1>2, <1>3, <1>4, <1>5 DEF Next, Library

----------------------------------------------------------------------------
\* Every part of the state keeps its type and no counter leaves its bounds, if
\* the high-water callback does no more than pause and resume reading.
THEOREM TypeCorrect ==
  ASSUME MarkPauses
  PROVE  Spec => []TypeOK
  BY AlwaysInv, InvTypeOK, PTL

\* The peer gets what was sent, all of it and in order, and FIN behind it,
\* through any nesting of callbacks, if the high-water callback does no more
\* than pause and resume reading.
THEOREM StreamAlwaysIntact ==
  ASSUME MarkPauses
  PROVE  Spec => []StreamIntact
  BY AlwaysInv, InvStreamIntact, PTL

\* No assertion on the way of a connection fails, under the same condition.
THEOREM NoAssertFails ==
  ASSUME MarkPauses
  PROVE  Spec => []AssertsHold
  BY AlwaysInv, InvAssertsHold, PTL

\* Once a connection is reported down no callback of it is entered, under the
\* same condition.
THEOREM AlwaysSilentAfterDown ==
  ASSUME MarkPauses
  PROVE  Spec => SilentAfterDown
  <1>1. ASSUME Inv, [Next]_vars, state = "disconnected", Len(stack') >= Len(stack), ~Idle'
        PROVE  stack' = stack
    <2>1. CASE UNCHANGED vars
      BY <2>1 DEF vars
    <2>2. CASE Next
      <3>1. stack \in Seq(Frames)
        BY <1>1 DEF Inv, Types
      <3>2. CASE stack = <<>>
        <4>1. stack' \in Seq(Frames) /\ stack' # <<>>
          BY <1>1, NextInv DEF Inv, Types, Idle
        <4>2. CASE stack' = Tail(stack)
          <5>1. Tail(<<>>) = <<>>
            OBVIOUS
          <5> QED  BY <3>2, <4>1, <4>2, <5>1
        <4> QED  BY <2>2, <4>2, <1>1, NextSilent
      <3>3. CASE stack # <<>>
        <4>1. Len(Tail(stack)) < Len(stack) /\ Len(Tail(stack)) \in Nat /\ Len(stack) \in Nat
          BY <3>1, <3>3
        <4> QED  BY <2>2, <4>1, <1>1, NextSilent
      <3> QED  BY <3>2, <3>3
    <2> QED  BY <1>1, <2>1, <2>2
  <1>2. Inv /\ [Next]_vars =>
          [state = "disconnected" /\ Len(stack') >= Len(stack) /\ ~Idle' => stack' = stack]_vars
    BY <1>1
  <1> QED  BY <1>2, AlwaysInv, PTL DEF Spec, SilentAfterDown

\* However the calls are nested, a connection is what its owner takes it for,
\* under the same condition: what it sends goes out in the order it was sent,
\* FIN after all of it, and it receives only while it reads.
THEOREM Refinement ==
  ASSUME MarkPauses
  PROVE  Spec => ImplementsConnection
  <1>1. Init => Promised!Init /\ ReadsWanted
    <2> SUFFICES ASSUME Init PROVE Promised!Init /\ ReadsWanted
      OBVIOUS
    <2>1. state = "connecting" /\ ~Open /\ arrived - incoming = 0
      BY DEF Init, Open
    <2> QED  BY <2>1 DEF Init, Promised!Init, ReadsWanted, Running, Idle
  <1>2. Inv /\ ReadsWanted /\ LeftFits /\ LeftFits' /\ [Next]_vars
          => [Promised!Next]_Promised!vars
    BY NextSeen DEF Promised!vars, Seen, Left
  <1>3. Inv /\ ReadsWanted /\ [Next]_vars => ReadsWanted'
    BY NextWanted
  <1> QED
    BY <1>1, <1>2, <1>3, InvLeft, AlwaysInv, PTL
       DEF Spec, ImplementsConnection, Promised!Spec

\* Whichever callback closes it and however deep in the stack, a connection
\* opens, closes and is destroyed once, and is in the poll table in between
\* (ImplementsLifetime), under the same condition.
THEOREM LifetimeAgrees ==
  ASSUME MarkPauses
  PROVE  Spec => ImplementsLifetime
  <1>1. Init => Lived!Init
    BY DEF Init, Lived!Init, Stage
  <1>2. Inv /\ Inv' /\ Stages /\ Stages' /\ [Next]_vars => [Lived!Next]_Lived!vars
    <2>1. Inv => state \in {"connecting", "disconnected"} \/ Open
      BY DEF Inv, Types, Open
    <2> QED  BY <2>1, NewLives, OpenLives, DownLives DEF LivesOn
  <1> QED
    BY <1>1, <1>2, InvStages, AlwaysInv, PTL DEF Spec, ImplementsLifetime, Lived!Spec
====
