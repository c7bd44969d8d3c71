---- MODULE ReactorProofs ----
(***************************************************************************)
(* For any number of connections, peers and descriptors, however callbacks *)
(* close connections, drop clients and let go: the list of a round, the    *)
(* poll table and the map of the server know no connection that is gone,   *)
(* and the assertions on the way of a connection hold.                     *)
(***************************************************************************)
EXTENDS Reactor, SequenceTheorems, FiniteSetTheorems, WellFoundedInduction, TLAPS

Frame == [do : {"user", "onclose", "guard"}, conn : Conn]

\* Whose on_close_ waits in a stack of frames, and whom the frames keep.
PendingOf(s) == {f.conn : f \in {g \in ToSet(s) : g.do = "onclose"}}
HeldBy(s) == {f.conn : f \in {g \in ToSet(s) : g.do # "onclose"}}
Pending == PendingOf(stack)

\* Nobody waits for two on_close_.
Distinct(s) ==
  \A i, j \in 1..Len(s) : s[i].do = "onclose" /\ s[i] = s[j] => i = j

\* A frame below keeps who waits for on_close_, or somebody else does.
Guarded(s, kept) ==
  \A i \in 1..Len(s) :
    s[i].do = "onclose" /\ s[i].conn \notin kept =>
      \E j \in (i + 1)..Len(s) : s[j].do # "onclose" /\ s[j].conn = s[i].conn

Kept == held \cup {c \in Created : OfServer(c)}

Shape == Distinct(stack) /\ Guarded(stack, Kept)

Types ==
  /\ listening \in BOOLEAN /\ phase \in {"poll", "io", "timers"}
  /\ backlog \in Seq(Peers)
  /\ made \in Nat /\ made + Len(backlog) <= MaxConns
  /\ addr \in [Conn -> Peers \cup {Nobody}]
  /\ fd \in [Conn -> Fds \cup {0}]
  /\ state \in [Conn -> {"connecting", "connected", "disconnected"}]
  /\ input \in [Conn -> {"none", "data", "end"}]
  /\ leaked \subseteq Fds

Lists ==
  /\ posted \in Seq(Conn) /\ IsInjective(posted) /\ ToSet(posted) \subseteq Created
  /\ list \in Seq(Conn \cup {Acceptor}) /\ IsInjective(list)
  /\ ToSet(list) \subseteq Created \cup {Acceptor}
  /\ stack \in Seq(Frame) /\ \A f \in ToSet(stack) : f.conn \in Created
  /\ phase # "io" => list = <<>>
  /\ phase = "poll" => stack = <<>>

\* The names in the map are those of its connections.
Names == \A n \in DOMAIN map : map[n] \in Created /\ n = Name(map[n], addr[map[n]])

\* Where a connection is known while it is open, until its on_close_ has run,
\* and until it is destroyed.
Life ==
  /\ table \subseteq Created /\ clients \subseteq Created /\ held \subseteq Created
  /\ \A c \in Created : state[c] # "connecting"
  /\ Range(map) = {c \in Created : OfServer(c) /\ (Open(c) \/ c \in Pending)}
  /\ \A c \in clients : ~OfServer(c) /\ (Open(c) \/ c \in Pending)
  /\ \A c \in Created : Open(c) => OfServer(c) \/ c \in clients \cup held
  /\ \A c \in table : Open(c) \/ c \in Pending \/ (OfServer(c) /\ c \in ToSet(posted))
  /\ \A c \in Created : Open(c) \/ c \in Pending => c \in table
  /\ \A c \in Pending : ~Open(c)
  /\ \A c \in ToSet(posted) : OfServer(c) /\ ~Open(c) /\ c \notin Pending

\* Who keeps what is still on the list.
Listed ==
  \A c \in ToSet(list) \ {Acceptor} :
    IF OfServer(c) THEN c \in table
    ELSE c \in held \/ (c \in clients /\ Open(c) /\ c \notin OnStack)

FdsDiffer == \A c, d \in Live : fd[c] = fd[d] => c = d

Inv == Types /\ Lists /\ Shape /\ Names /\ Life /\ Listed /\ FdsDiffer

----------------------------------------------------------------------------
\* Sequences and the sets of their elements

LEMMA EmptySet == ToSet(<<>>) = {} /\ IsInjective(<<>>)
  BY DEF ToSet, IsInjective

LEMMA AppendSet ==
  ASSUME NEW S, NEW s \in Seq(S), NEW e \in S
  PROVE  /\ Append(s, e) \in Seq(S)
         /\ ToSet(Append(s, e)) = ToSet(s) \cup {e}
         /\ IsInjective(s) /\ e \notin ToSet(s) => IsInjective(Append(s, e))
  <1> DEFINE t == Append(s, e)
  <1>1. /\ t \in Seq(S) /\ Len(t) = Len(s) + 1 /\ Len(s) \in Nat
        /\ \A i \in 1..Len(s) : t[i] = s[i]
        /\ t[Len(s) + 1] = e
    BY AppendProperties
  <1>2. DOMAIN s = 1..Len(s) /\ DOMAIN t = 1..Len(t)
    BY <1>1
  <1> HIDE DEF t
  <1>3. \A i \in 1..Len(t) : i \in 1..Len(s) \/ i = Len(s) + 1
    BY <1>1
  <1>4. \A i \in 1..Len(s) : i \in 1..Len(t)
    BY <1>1
  <1>5. Len(s) + 1 \in 1..Len(t)
    BY <1>1
  <1>6. ToSet(t) = ToSet(s) \cup {e}
    BY <1>1, <1>2, <1>3, <1>4, <1>5 DEF ToSet
  <1>7. ASSUME IsInjective(s), e \notin ToSet(s)
        PROVE  IsInjective(t)
    <2>1. \A i \in 1..Len(s) : s[i] # e
      BY <1>2, <1>7 DEF ToSet
    <2>2. \A i, j \in 1..Len(s) : s[i] = s[j] => i = j
      BY <1>2, <1>7 DEF IsInjective
    <2> QED  BY <1>1, <1>2, <1>3, <2>1, <2>2 DEF IsInjective
  <1> QED  BY <1>1, <1>6, <1>7 DEF t

LEMMA TailSet ==
  ASSUME NEW S, NEW s \in Seq(S), s # <<>>
  PROVE  /\ Tail(s) \in Seq(S) /\ Head(s) \in S /\ Head(s) \in ToSet(s)
         /\ ToSet(s) = {Head(s)} \cup ToSet(Tail(s))
         /\ IsInjective(s) => IsInjective(Tail(s)) /\ Head(s) \notin ToSet(Tail(s))
  <1> DEFINE t == Tail(s)
  <1>1. /\ t \in Seq(S) /\ Head(s) \in S /\ Head(s) = s[1]
        /\ Len(t) = Len(s) - 1 /\ Len(s) \in Nat \ {0}
        /\ \A i \in 1..Len(t) : t[i] = s[i + 1]
    BY HeadTailProperties, EmptySeq
  <1>2. DOMAIN s = 1..Len(s) /\ DOMAIN t = 1..Len(t)
    BY <1>1
  <1> HIDE DEF t
  <1>3. \A i \in 1..Len(s) : i = 1 \/ (i - 1 \in 1..Len(t) /\ t[i - 1] = s[i])
    BY <1>1
  <1>4. \A i \in 1..Len(t) : i + 1 \in 1..Len(s) /\ t[i] = s[i + 1]
    BY <1>1
  <1>5. 1 \in 1..Len(s)
    BY <1>1
  <1>6. ToSet(s) = {s[1]} \cup ToSet(t)
    <2>1. \A i \in 1..Len(s) : s[i] \in {s[1]} \cup ToSet(t)
      BY <1>2, <1>3 DEF ToSet
    <2>2. \A i \in 1..Len(t) : t[i] \in ToSet(s)
      BY <1>2, <1>4 DEF ToSet
    <2>3. ToSet(s) \subseteq {s[1]} \cup ToSet(t)
      BY <1>2, <2>1 DEF ToSet
    <2>4. ToSet(t) \subseteq ToSet(s) /\ s[1] \in ToSet(s)
      BY <1>2, <1>5, <2>2 DEF ToSet
    <2> QED  BY <2>3, <2>4
  <1>7. ASSUME IsInjective(s)
        PROVE  IsInjective(t) /\ s[1] \notin ToSet(t)
    <2>1. \A i, j \in 1..Len(s) : s[i] = s[j] => i = j
      BY <1>2, <1>7 DEF IsInjective
    <2>2. \A i, j \in 1..Len(t) : t[i] = t[j] => i = j
      BY <1>1, <1>4, <2>1
    <2>3. \A i \in 1..Len(t) : t[i] # s[1]
      BY <1>1, <1>4, <1>5, <2>1
    <2> QED  BY <1>2, <2>2, <2>3 DEF IsInjective, ToSet
  <1> QED  BY <1>1, <1>6, <1>7 DEF t

\* What a frame x in front of s, both together t, adds.
OnTop(x, s, t) ==
  /\ ToSet(t) = {x} \cup ToSet(s)
  /\ PendingOf(t) = PendingOf(s) \cup IF x.do = "onclose" THEN {x.conn} ELSE {}
  /\ HeldBy(t) = HeldBy(s) \cup IF x.do # "onclose" THEN {x.conn} ELSE {}
  /\ Distinct(t) <=> Distinct(s) /\ (x.do = "onclose" => x.conn \notin PendingOf(s))
  /\ \A K : Guarded(t, K) <=>
              Guarded(s, K) /\ (x.do = "onclose" => x.conn \in K \cup HeldBy(s))

LEMMA FrameEqual ==
  ASSUME NEW f \in Frame, NEW g \in Frame
  PROVE  f = g <=> f.do = g.do /\ f.conn = g.conn
  BY DEF Frame

LEMMA Stacked ==
  ASSUME NEW x \in Frame, NEW s \in Seq(Frame), NEW t \in Seq(Frame),
         Len(t) = Len(s) + 1, t[1] = x, \A i \in 1..Len(s) : t[i + 1] = s[i]
  PROVE  OnTop(x, s, t)
  <1>1. DOMAIN s = 1..Len(s) /\ DOMAIN t = 1..Len(t) /\ Len(s) \in Nat
    OBVIOUS
  <1>2. \A i \in 1..Len(t) : i = 1 \/ (i - 1 \in 1..Len(s) /\ t[i] = s[i - 1])
    BY <1>1
  <1>3. \A i \in 1..Len(s) : i + 1 \in 1..Len(t) /\ i + 1 # 1 /\ t[i + 1] = s[i]
    BY <1>1
  <1>4. 1 \in 1..Len(t)
    BY <1>1
  <1>5. ToSet(t) = {x} \cup ToSet(s)
    <2>1. \A i \in 1..Len(t) : t[i] \in {x} \cup ToSet(s)
      BY <1>1, <1>2 DEF ToSet
    <2>2. \A i \in 1..Len(s) : s[i] \in ToSet(t)
      BY <1>1, <1>3 DEF ToSet
    <2>3. ToSet(t) \subseteq {x} \cup ToSet(s)
      BY <1>1, <2>1 DEF ToSet
    <2>4. ToSet(s) \subseteq ToSet(t)
      BY <1>1, <2>2 DEF ToSet
    <2>5. x \in ToSet(t)
      BY <1>1, <1>4 DEF ToSet
    <2> QED  BY <2>3, <2>4, <2>5
  <1>6. /\ PendingOf(t) = PendingOf(s) \cup IF x.do = "onclose" THEN {x.conn} ELSE {}
        /\ HeldBy(t) = HeldBy(s) \cup IF x.do # "onclose" THEN {x.conn} ELSE {}
    BY <1>5 DEF PendingOf, HeldBy
  <1>7. \A i \in 1..Len(s) : s[i] \in Frame
    BY ElementOfSeq
  <1>8. \A i \in 1..Len(s) : s[i] = x <=> s[i].do = x.do /\ s[i].conn = x.conn
    BY <1>7, FrameEqual
  <1>9. x.conn \in PendingOf(s) <=> \E i \in 1..Len(s) : s[i].do = "onclose" /\ s[i].conn = x.conn
    BY <1>1 DEF PendingOf, ToSet
  <1>10. x.conn \in HeldBy(s) <=> \E i \in 1..Len(s) : s[i].do # "onclose" /\ s[i].conn = x.conn
    BY <1>1 DEF HeldBy, ToSet
  <1>11. Distinct(t) <=> Distinct(s) /\ (x.do = "onclose" => x.conn \notin PendingOf(s))
    <2>1. ASSUME Distinct(t) PROVE Distinct(s)
      <3> SUFFICES ASSUME NEW i \in 1..Len(s), NEW j \in 1..Len(s), s[i].do = "onclose", s[i] = s[j]
                   PROVE  i = j
        BY DEF Distinct
      <3>1. i + 1 = j + 1
        BY <1>3, <2>1 DEF Distinct
      <3> QED  BY <3>1
    <2>2. ASSUME Distinct(t), x.do = "onclose" PROVE x.conn \notin PendingOf(s)
      <3> SUFFICES ASSUME NEW i \in 1..Len(s), s[i].do = "onclose", s[i].conn = x.conn PROVE FALSE
        BY <1>9
      <3>1. t[i + 1] = t[1] /\ t[1].do = "onclose"
        BY <1>3, <1>8, <2>2
      <3> QED  BY <1>3, <1>4, <2>2, <3>1 DEF Distinct
    <2>3. ASSUME Distinct(s), x.do = "onclose" => x.conn \notin PendingOf(s) PROVE Distinct(t)
      <3> SUFFICES ASSUME NEW i \in 1..Len(t), NEW j \in 1..Len(t), t[i].do = "onclose", t[i] = t[j]
                   PROVE  i = j
        BY DEF Distinct
      <3>1. CASE i = 1 \/ j = 1
        <4>1. x.do = "onclose"
          BY <3>1
        <4>2. \A k \in 1..Len(s) : s[k] # x
          BY <1>9, <2>3, <4>1
        <4> QED  BY <1>2, <3>1, <4>2
      <3>2. CASE i # 1 /\ j # 1
        <4>1. /\ i - 1 \in 1..Len(s) /\ j - 1 \in 1..Len(s)
              /\ s[i - 1].do = "onclose" /\ s[i - 1] = s[j - 1]
          BY <1>2, <3>2
        <4>2. i - 1 = j - 1
          BY <2>3, <4>1 DEF Distinct
        <4> QED  BY <4>2
      <3> QED  BY <3>1, <3>2
    <2> QED  BY <2>1, <2>2, <2>3
  <1>12. ASSUME NEW K
         PROVE  Guarded(t, K) <=>
                  Guarded(s, K) /\ (x.do = "onclose" => x.conn \in K \cup HeldBy(s))
    <2>1. ASSUME Guarded(t, K) PROVE Guarded(s, K)
      <3> SUFFICES ASSUME NEW i \in 1..Len(s), s[i].do = "onclose", s[i].conn \notin K
                   PROVE  \E j \in (i + 1)..Len(s) : s[j].do # "onclose" /\ s[j].conn = s[i].conn
        BY DEF Guarded
      <3>1. PICK j \in ((i + 1) + 1)..Len(t) : t[j].do # "onclose" /\ t[j].conn = s[i].conn
        BY <1>3, <2>1 DEF Guarded
      <3>2. j - 1 \in (i + 1)..Len(s) /\ s[j - 1] = t[j]
        BY <1>1, <1>2
      <3> QED  BY <3>1, <3>2
    <2>2. ASSUME Guarded(t, K), x.do = "onclose" PROVE x.conn \in K \cup HeldBy(s)
      <3> SUFFICES ASSUME x.conn \notin K PROVE x.conn \in HeldBy(s)
        OBVIOUS
      <3>1. PICK j \in (1 + 1)..Len(t) : t[j].do # "onclose" /\ t[j].conn = x.conn
        BY <1>4, <2>2 DEF Guarded
      <3>2. j - 1 \in 1..Len(s) /\ s[j - 1] = t[j]
        BY <1>1, <1>2
      <3> QED  BY <1>10, <3>1, <3>2
    <2>3. ASSUME Guarded(s, K), x.do = "onclose" => x.conn \in K \cup HeldBy(s) PROVE Guarded(t, K)
      <3> SUFFICES ASSUME NEW i \in 1..Len(t), t[i].do = "onclose", t[i].conn \notin K
                   PROVE  \E j \in (i + 1)..Len(t) : t[j].do # "onclose" /\ t[j].conn = t[i].conn
        BY DEF Guarded
      <3>1. CASE i = 1
        <4>1. PICK j \in 1..Len(s) : s[j].do # "onclose" /\ s[j].conn = x.conn
          BY <1>10, <2>3, <3>1
        <4>2. j + 1 \in (1 + 1)..Len(t) /\ t[j + 1] = s[j]
          BY <1>1, <1>3
        <4> QED  BY <3>1, <4>1, <4>2
      <3>2. CASE i # 1
        <4>1. i - 1 \in 1..Len(s) /\ t[i] = s[i - 1]
          BY <1>2, <3>2
        <4>2. PICK j \in ((i - 1) + 1)..Len(s) : s[j].do # "onclose" /\ s[j].conn = t[i].conn
          BY <2>3, <4>1 DEF Guarded
        <4>3. j + 1 \in (i + 1)..Len(t) /\ t[j + 1] = s[j]
          BY <1>1, <1>3, <4>1
        <4> QED  BY <4>2, <4>3
      <3> QED  BY <3>1, <3>2
    <2> QED  BY <2>1, <2>2, <2>3
  <1> QED  BY <1>5, <1>6, <1>11, <1>12 DEF OnTop

LEMMA Push ==
  ASSUME NEW x \in Frame, NEW s \in Seq(Frame)
  PROVE  <<x>> \o s \in Seq(Frame) /\ OnTop(x, s, <<x>> \o s)
  <1> DEFINE t == <<x>> \o s
             one == <<x>>
  <1>1. one \in Seq(Frame) /\ Len(one) = 1 /\ one[1] = x
    OBVIOUS
  <1> HIDE DEF one
  <1>2. /\ one \o s \in Seq(Frame) /\ Len(one \o s) = Len(one) + Len(s)
        /\ \A i \in 1..(Len(one) + Len(s)) :
             (one \o s)[i] = IF i <= Len(one) THEN one[i] ELSE s[i - Len(one)]
    BY <1>1, ConcatProperties
  <1> DEFINE u == one \o s
  <1> HIDE DEF u
  <1>3. u \in Seq(Frame) /\ Len(u) = Len(s) + 1 /\ Len(s) \in Nat
    BY <1>1, <1>2 DEF u
  <1>4. \A i \in 1..(Len(s) + 1) : u[i] = IF i <= 1 THEN one[i] ELSE s[i - 1]
    BY <1>1, <1>2 DEF u
  <1>5. u[1] = x
    BY <1>1, <1>3, <1>4
  <1>6. \A i \in 1..Len(s) : u[i + 1] = s[i]
    <2> SUFFICES ASSUME NEW i \in 1..Len(s) PROVE u[i + 1] = s[i]
      OBVIOUS
    <2>1. i + 1 \in 1..(Len(s) + 1) /\ ~(i + 1 <= 1) /\ (i + 1) - 1 = i
      BY <1>3
    <2> QED  BY <1>4, <2>1
  <1>7. u = t
    BY DEF u, one
  <1> HIDE DEF t
  <1>8. t \in Seq(Frame) /\ Len(t) = Len(s) + 1 /\ t[1] = x /\ \A i \in 1..Len(s) : t[i + 1] = s[i]
    BY <1>3, <1>5, <1>6, <1>7
  <1>9. OnTop(x, s, t)
    BY <1>8, Stacked
  <1> QED  BY <1>8, <1>9 DEF t

LEMMA Pop ==
  ASSUME NEW s \in Seq(Frame), s # <<>>
  PROVE  Tail(s) \in Seq(Frame) /\ Head(s) \in Frame /\ OnTop(Head(s), Tail(s), s)
  <1> DEFINE t == Tail(s)
             x == Head(s)
  <1>1. /\ t \in Seq(Frame) /\ x \in Frame /\ x = s[1]
        /\ Len(t) = Len(s) - 1 /\ Len(s) \in Nat \ {0}
        /\ \A i \in 1..Len(t) : t[i] = s[i + 1]
    BY HeadTailProperties, EmptySeq
  <1> HIDE DEF t, x
  <1>2. Len(s) = Len(t) + 1 /\ s[1] = x /\ \A i \in 1..Len(t) : s[i + 1] = t[i]
    BY <1>1
  <1>3. OnTop(x, t, s)
    BY <1>1, <1>2, Stacked
  <1> QED  BY <1>1, <1>3 DEF t, x

LEMMA NoFrames ==
  /\ PendingOf(<<>>) = {} /\ HeldBy(<<>>) = {}
  /\ Distinct(<<>>) /\ \A K : Guarded(<<>>, K)
  BY EmptySet DEF PendingOf, HeldBy, Distinct, Guarded

\* The frames DoClose leaves.
LEMMA ClosingFrames ==
  ASSUME NEW c \in Conn, NEW s \in Seq(Frame)
  PROVE  LET t == <<Callback(c), Closing(c)>> \o s IN
         /\ t \in Seq(Frame)
         /\ ToSet(t) = {Callback(c), Closing(c)} \cup ToSet(s)
         /\ PendingOf(t) = PendingOf(s) \cup {c}
         /\ HeldBy(t) = HeldBy(s) \cup {c}
         /\ Distinct(s) /\ c \notin PendingOf(s) => Distinct(t)
         /\ \A K : Guarded(s, K) /\ c \in K \cup HeldBy(s) => Guarded(t, K)
  <1> DEFINE u == <<Closing(c)>> \o s
             t == <<Callback(c)>> \o u
             one == <<Callback(c)>>
             two == <<Closing(c)>>
             both == <<Callback(c), Closing(c)>>
  <1>1. Callback(c) \in Frame /\ Closing(c) \in Frame
    BY DEF Callback, Closing, Frame
  <1>2. /\ Callback(c).do # "onclose" /\ Callback(c).conn = c
        /\ Closing(c).do = "onclose" /\ Closing(c).conn = c
    BY DEF Callback, Closing
  <1>3. both \o s = t
    <2>1. /\ one \in Seq(Frame) /\ Len(one) = 1 /\ one[1] = Callback(c)
          /\ two \in Seq(Frame) /\ Len(two) = 1 /\ two[1] = Closing(c)
      BY <1>1
    <2>2. both \in Seq(Frame) /\ Len(both) = 2 /\ both[1] = Callback(c) /\ both[2] = Closing(c)
      BY <1>1
    <2> HIDE DEF one, two, both
    <2>3. /\ one \o two \in Seq(Frame) /\ Len(one \o two) = Len(one) + Len(two)
          /\ \A i \in 1..(Len(one) + Len(two)) :
               (one \o two)[i] = IF i <= Len(one) THEN one[i] ELSE two[i - Len(one)]
      BY <2>1, ConcatProperties
    <2>4. Len(one \o two) = 2 /\ (one \o two)[1] = one[1] /\ (one \o two)[2] = two[1]
      BY <2>1, <2>3
    <2>5. \A i \in 1..2 : i = 1 \/ i = 2
      OBVIOUS
    <2>6. \A i \in 1..2 : (one \o two)[i] = both[i]
      BY <2>1, <2>2, <2>4, <2>5
    <2>7. both = one \o two
      BY <2>2, <2>3, <2>4, <2>6, SeqEqual
    <2>8. (one \o two) \o s = one \o (two \o s)
      BY <2>1, ConcatAssociative
    <2> QED  BY <2>7, <2>8 DEF one, two
  <1> HIDE DEF t
  <1>4. u \in Seq(Frame)
    BY <1>1, Push
  <1>7. OnTop(Closing(c), s, u)
    BY <1>1, Push
  <1>5. /\ ToSet(u) = {Closing(c)} \cup ToSet(s)
        /\ PendingOf(u) = PendingOf(s) \cup {c} /\ HeldBy(u) = HeldBy(s)
        /\ Distinct(u) <=> Distinct(s) /\ c \notin PendingOf(s)
        /\ \A K : Guarded(u, K) <=> Guarded(s, K) /\ c \in K \cup HeldBy(s)
    BY <1>1, <1>2, <1>7 DEF OnTop
  <1> HIDE DEF u
  <1>6. /\ t \in Seq(Frame) /\ ToSet(t) = {Callback(c)} \cup ToSet(u)
        /\ PendingOf(t) = PendingOf(u) /\ HeldBy(t) = HeldBy(u) \cup {c}
        /\ Distinct(t) <=> Distinct(u)
        /\ \A K : Guarded(t, K) <=> Guarded(u, K)
    <2>1. t \in Seq(Frame) /\ OnTop(Callback(c), u, t)
      BY <1>1, <1>4, Push DEF t
    <2> QED  BY <1>2, <2>1 DEF OnTop
  <1> QED  BY <1>3, <1>5, <1>6

\* The frames of a callback that a reference outlives.
LEMMA CallbackFrames ==
  ASSUME NEW c \in Conn
  PROVE  LET t == <<Callback(c), Guard(c)>> IN
         /\ t \in Seq(Frame) /\ \A f \in ToSet(t) : f.conn = c
         /\ PendingOf(t) = {} /\ HeldBy(t) = {c}
         /\ Distinct(t) /\ \A K : Guarded(t, K)
  <1> DEFINE t == <<Callback(c), Guard(c)>>
  <1>1. t \in Seq(Frame) /\ Len(t) = 2 /\ t[1] = Callback(c) /\ t[2] = Guard(c)
    BY DEF Callback, Guard, Frame
  <1>2. DOMAIN t = 1..2 /\ \A i \in 1..2 : i = 1 \/ i = 2
    BY <1>1
  <1> HIDE DEF t
  <1>3. ToSet(t) = {Callback(c), Guard(c)}
    BY <1>1, <1>2 DEF ToSet
  <1>4. /\ Callback(c).do = "user" /\ Callback(c).conn = c
        /\ Guard(c).do = "guard" /\ Guard(c).conn = c
    BY DEF Callback, Guard
  <1>5. \A i \in 1..Len(t) : t[i].do # "onclose"
    BY <1>1, <1>2, <1>4
  <1> QED  BY <1>1, <1>3, <1>4, <1>5 DEF PendingOf, HeldBy, Distinct, Guarded, t

\* More who are kept.
LEMMA StillGuarded ==
  ASSUME NEW s, NEW K, NEW M, Guarded(s, K), \A c \in PendingOf(s) : c \in K => c \in M,
         DOMAIN s = 1..Len(s)
  PROVE  Guarded(s, M)
  <1> SUFFICES ASSUME NEW i \in 1..Len(s), s[i].do = "onclose", s[i].conn \notin M
               PROVE  \E j \in (i + 1)..Len(s) : s[j].do # "onclose" /\ s[j].conn = s[i].conn
    BY DEF Guarded
  <1>1. s[i].conn \in PendingOf(s)
    BY DEF PendingOf, ToSet
  <1> QED  BY <1>1 DEF Guarded

----------------------------------------------------------------------------
\* The initial states

LEMMA InitInv == Init => Inv
  <1> SUFFICES ASSUME Init PROVE Inv
    OBVIOUS
  <1> USE DEF Init
  <1>1. Created = {} /\ ToSet(posted) = {} /\ ToSet(list) = {} /\ ToSet(stack) = {}
    BY EmptySet DEF Created
  <1>2. Range(map) = {}
    BY DEF Range
  <1>3. DOMAIN map = {}
    OBVIOUS
  <1>4. Types
    <2>1. Len(backlog) = 0 /\ backlog \in Seq(Peers)
      OBVIOUS
    <2>2. made \in Nat /\ made + Len(backlog) <= MaxConns
      BY <2>1, BoundAssumption
    <2>3. /\ addr \in [Conn -> Peers \cup {Nobody}] /\ fd \in [Conn -> Fds \cup {0}]
          /\ state \in [Conn -> {"connecting", "connected", "disconnected"}]
          /\ input \in [Conn -> {"none", "data", "end"}]
      OBVIOUS
    <2> QED  BY <2>1, <2>2, <2>3 DEF Types
  <1>5. Lists
    <2>1. posted \in Seq(Conn) /\ list \in Seq(Conn \cup {Acceptor}) /\ stack \in Seq(Frame)
      OBVIOUS
    <2> QED  BY <1>1, <2>1, EmptySet DEF Lists
  <1>6. Shape
    BY NoFrames DEF Shape
  <1>7. Names
    BY <1>3 DEF Names
  <1>8. Pending = {} /\ OnStack = {}
    BY <1>1 DEF Pending, PendingOf, OnStack
  <1>9. Life
    BY <1>1, <1>2, <1>8 DEF Life
  <1>10. Listed
    BY <1>1 DEF Listed
  <1>11. FdsDiffer
    BY <1>1, <1>2, <1>8 DEF FdsDiffer, Live
  <1> QED  BY <1>4, <1>5, <1>6, <1>7, <1>9, <1>10, <1>11 DEF Inv

----------------------------------------------------------------------------
\* Where connections live

LEMMA CreatedConn == Types => Created \subseteq Conn /\ made + 1 \notin Created /\ Acceptor \notin Created
  BY BoundAssumption DEF Types, Created, Conn, Acceptor

LEMMA LiveCreated == Inv => Live \subseteq Created
  BY DEF Inv, Lists, Life, Live, OnStack

LEMMA StackKeeps == OnStack = HeldBy(stack)
  BY DEF OnStack, HeldBy

\* Who waits for on_close_ has its frame on the stack.
LEMMA PendingFrames ==
  Inv => \A c \in Created : c \in Pending <=> Closing(c) \in ToSet(stack)
  <1> SUFFICES ASSUME Inv, NEW c \in Created
               PROVE  c \in Pending <=> Closing(c) \in ToSet(stack)
    OBVIOUS
  <1>1. stack \in Seq(Frame)
    BY DEF Inv, Lists
  <1>2. \A f \in ToSet(stack) : f \in Frame
    BY <1>1, ElementOfSeq DEF ToSet
  <1>3. Closing(c) \in Frame /\ Closing(c).do = "onclose" /\ Closing(c).conn = c
    BY CreatedConn DEF Closing, Frame, Inv
  <1>4. \A f \in ToSet(stack) : f.do = "onclose" /\ f.conn = c => f = Closing(c)
    BY <1>2, <1>3, FrameEqual
  <1> QED  BY <1>3, <1>4 DEF Pending, PendingOf

\* Whoever waits for its on_close_ is there.
LEMMA PendingAlive == Inv => Pending \subseteq Live
  <1> SUFFICES ASSUME Inv, NEW c \in Pending PROVE c \in Live
    OBVIOUS
  <1>1. c \in Created
    BY DEF Inv, Lists, Pending, PendingOf
  <1>2. CASE OfServer(c)
    BY <1>1, <1>2 DEF Inv, Life, Live
  <1>3. CASE ~OfServer(c)
    <2>1. PICK i \in 1..Len(stack) : stack[i].do = "onclose" /\ stack[i].conn = c
      BY DEF Pending, PendingOf, ToSet, Inv, Lists
    <2>2. CASE c \in held
      BY <2>2 DEF Live
    <2>3. CASE c \notin held
      <3>1. c \notin Kept
        BY <1>3, <2>3 DEF Kept
      <3>2. PICK j \in (i + 1)..Len(stack) : stack[j].do # "onclose" /\ stack[j].conn = c
        BY <2>1, <3>1 DEF Inv, Shape, Guarded
      <3>3. j \in DOMAIN stack
        BY <3>2 DEF Inv, Lists
      <3>4. c \in OnStack
        BY <3>2, <3>3 DEF OnStack, ToSet
      <3> QED  BY <3>4 DEF Live
    <2> QED  BY <2>2, <2>3
  <1> QED  BY <1>2, <1>3

LEMMA TableAlive == Inv => table \subseteq Live
  <1> SUFFICES ASSUME Inv, NEW c \in table PROVE c \in Live
    OBVIOUS
  <1>1. c \in Created /\ (Open(c) \/ c \in Pending \/ (OfServer(c) /\ c \in ToSet(posted)))
    BY DEF Inv, Life
  <1>2. CASE c \in Pending
    BY <1>2, PendingAlive
  <1>3. CASE Open(c)
    BY <1>1, <1>3 DEF Inv, Life, Live
  <1>4. CASE c \in ToSet(posted)
    BY <1>4 DEF Live
  <1> QED  BY <1>1, <1>2, <1>3, <1>4

LEMMA ListAlive == Inv => ListedIsAlive
  <1> SUFFICES ASSUME Inv, NEW c \in ToSet(list) \ {Acceptor} PROVE c \in Live
    BY DEF ListedIsAlive
  <1> QED  BY TableAlive DEF Inv, Listed, Live

\* Descriptors stay apart while nobody comes to life.
LEMMA FewerFds ==
  ASSUME FdsDiffer, Live' \subseteq Live, UNCHANGED fd
  PROVE  FdsDiffer'
  BY DEF FdsDiffer

----------------------------------------------------------------------------
\* Steps that leave connections and who knows them alone

LEMMA Quiet ==
  ASSUME Inv, UNCHANGED <<made, addr, fd, state, table, map, clients, held, posted, stack>>,
         Types', Lists', ToSet(list') \subseteq ToSet(list)
  PROVE  Inv'
  <1>1. Created' = Created /\ Live' = Live /\ Pending' = Pending /\ OnStack' = OnStack
    BY DEF Created, Live, Pending, OnStack
  <1>2. \A c : (Open(c)' <=> Open(c)) /\ (OfServer(c)' <=> OfServer(c))
    BY DEF Open, OfServer
  <1>3. Shape' /\ Names' /\ FdsDiffer'
    BY <1>1, <1>2 DEF Inv, Shape, Kept, Names, FdsDiffer, OfServer
  <1>4. Life'
    BY <1>1 DEF Inv, Life, Open, OfServer
  <1>5. Listed'
    BY <1>1 DEF Inv, Listed, Open, OfServer
  <1> QED  BY <1>3, <1>4, <1>5 DEF Inv

LEMMA QuietSteps ==
  ASSUME Inv,
         Listen \/ DoTimers \/ EndRound \/ PeerGivesUp \/ UNCHANGED vars
           \/ (\E a \in Peers : PeerConnects(a))
           \/ (\E c \in Created, what \in {"data", "end"} : PeerSends(c, what))
  PROVE  Inv'
  <1> USE DEF world, conns, owners, loop
  <1> SUFFICES /\ UNCHANGED <<made, addr, fd, state, table, map, clients, held, posted, stack>>
               /\ Types' /\ Lists' /\ ToSet(list') \subseteq ToSet(list)
    BY Quiet
  <1>0. Types /\ Lists /\ Len(backlog) \in Nat
    BY DEF Inv, Types
  <1>1. CASE Listen
    BY <1>0, <1>1 DEF Listen, Types, Lists, Created
  <1>2. CASE DoTimers
    BY <1>0, <1>2 DEF DoTimers, Types, Lists, Created, Idle
  <1>3. CASE EndRound
    BY <1>0, <1>3 DEF EndRound, Types, Lists, Created, Idle
  <1>4. CASE PeerGivesUp
    <2>1. backlog' \in Seq(Peers) /\ Len(backlog') = Len(backlog) - 1
      BY <1>0, <1>4, HeadTailProperties DEF PeerGivesUp, Types
    <2>2. made' + Len(backlog') <= MaxConns
      BY <1>0, <1>4, <2>1, BoundAssumption DEF PeerGivesUp, Types
    <2> QED  BY <1>0, <1>4, <2>1, <2>2 DEF PeerGivesUp, Types, Lists, Created
  <1>5. CASE \E a \in Peers : PeerConnects(a)
    <2>1. PICK a \in Peers : PeerConnects(a)
      BY <1>5
    <2>2. backlog' \in Seq(Peers) /\ Len(backlog') = Len(backlog) + 1
      BY <1>0, <2>1, AppendProperties DEF PeerConnects, Types
    <2>3. made' + Len(backlog') <= MaxConns
      BY <1>0, <2>1, <2>2, BoundAssumption DEF PeerConnects, Types
    <2> QED  BY <1>0, <2>1, <2>2, <2>3 DEF PeerConnects, Types, Lists, Created
  <1>6. CASE \E c \in Created, what \in {"data", "end"} : PeerSends(c, what)
    <2>1. PICK c \in Created, what \in {"data", "end"} : PeerSends(c, what)
      BY <1>6
    <2> QED  BY <1>0, <2>1 DEF PeerSends, Types, Lists, Created
  <1>7. CASE UNCHANGED vars
    BY <1>0, <1>7 DEF vars, Types, Lists, Created
  <1> QED  BY <1>1, <1>2, <1>3, <1>4, <1>5, <1>6, <1>7

----------------------------------------------------------------------------
\* A connection is made

\* What is kept of the state when only the lives of connections change.
LEMMA EstablishKeeps ==
  ASSUME Inv, Idle, NEW a \in Peers \cup {Nobody}, NEW f \in FreeFds,
         made + 1 \in Conn, Establish(made + 1, a, f), UNCHANGED <<held, posted>>,
         ToSet(list') \subseteq ToSet(list),
         \/ /\ a \in Peers /\ UNCHANGED clients
            /\ map' = [n \in DOMAIN map \cup {Name(made + 1, a)} |->
                         IF n \in DOMAIN map THEN map[n] ELSE made + 1]
         \/ a = Nobody /\ UNCHANGED map /\ clients' = clients \cup {made + 1}
  PROVE  /\ Shape' /\ Names' /\ Life' /\ Listed' /\ FdsDiffer'
         /\ stack' \in Seq(Frame) /\ \A g \in ToSet(stack') : g.conn \in Created'
         /\ Created' = Created \cup {made + 1}
  <1>0. PICK c : c = made + 1
    OBVIOUS
  <1> USE DEF Inv
  <1>1. /\ made' = c /\ table' = table \cup {c} /\ stack' = <<Callback(c), Guard(c)>>
        /\ addr' = [addr EXCEPT ![c] = a] /\ fd' = [fd EXCEPT ![c] = f]
        /\ state' = [state EXCEPT ![c] = "connected"]
    BY <1>0 DEF Establish
  <1>2. /\ made \in Nat /\ c \in Nat /\ c \in Conn /\ c \notin Created /\ c # Acceptor
        /\ Created \subseteq Conn /\ Acceptor \notin Created
        /\ addr \in [Conn -> Peers \cup {Nobody}] /\ fd \in [Conn -> Fds \cup {0}]
        /\ state \in [Conn -> {"connecting", "connected", "disconnected"}]
    <2>1. made \in Nat /\ c \in Nat
      BY <1>0 DEF Types
    <2> QED  BY <1>0, <2>1, CreatedConn DEF Types, Acceptor
  <1>3. Created' = Created \cup {c}
    BY <1>0, <1>1, <1>2 DEF Created
  <1>4. /\ stack' \in Seq(Frame) /\ \A g \in ToSet(stack') : g.conn = c
        /\ PendingOf(stack') = {} /\ HeldBy(stack') = {c}
        /\ Distinct(stack') /\ \A K : Guarded(stack', K)
    BY <1>1, <1>2, CallbackFrames
  <1>5. Pending = {} /\ OnStack = {} /\ Pending' = {} /\ OnStack' = {c}
    BY <1>4, NoFrames, StackKeeps DEF Idle, Pending, OnStack, HeldBy
  <1>6. /\ \A x \in Created : addr'[x] = addr[x] /\ state'[x] = state[x] /\ fd'[x] = fd[x]
        /\ addr'[c] = a /\ state'[c] = "connected" /\ fd'[c] = f
    BY <1>1, <1>2
  <1>7. Shape'
    BY <1>4 DEF Shape
  <1>8. Nobody \notin Peers
    BY PeerAssumption DEF Nobody
  <1>9. /\ \A x \in Created : (Open(x)' <=> Open(x)) /\ (OfServer(x)' <=> OfServer(x))
        /\ Open(c)' /\ (OfServer(c)' <=> a \in Peers)
    BY <1>6, <1>8 DEF Open, OfServer
  <1>10. Names' /\ Range(map') = Range(map) \cup IF a \in Peers THEN {c} ELSE {}
    <2>1. CASE a \in Peers
      <3>1. map' = [n \in DOMAIN map \cup {Name(c, a)} |-> IF n \in DOMAIN map THEN map[n] ELSE c]
        BY <1>0, <2>1, <1>8
      <3>2. Name(c, a) \notin DOMAIN map
        BY <1>2 DEF Names, Name
      <3>3. Range(map') = Range(map) \cup {c}
        BY <3>1, <3>2 DEF Range
      <3>4. Names'
        BY <1>3, <1>6, <3>1, <3>2 DEF Names, Name
      <3> QED  BY <2>1, <3>3, <3>4
    <2>2. CASE a \notin Peers
      <3>1. map' = map
        BY <2>2
      <3> QED  BY <1>3, <1>6, <2>2, <3>1 DEF Names, Name
    <2> QED  BY <2>1, <2>2
  <1>11. clients' = clients \cup IF a \in Peers THEN {} ELSE {c}
    BY <1>0, <1>8
  <1>12. Life'
    <2>1. table' \subseteq Created' /\ clients' \subseteq Created' /\ held' \subseteq Created'
      BY <1>1, <1>3, <1>11 DEF Life
    <2>2. \A x \in Created' : state'[x] # "connecting"
      BY <1>3, <1>6 DEF Life
    <2>3. Range(map') = {x \in Created' : OfServer(x)' /\ (Open(x)' \/ x \in Pending')}
      BY <1>3, <1>5, <1>9, <1>10 DEF Life
    <2>4. \A x \in clients' : ~OfServer(x)' /\ (Open(x)' \/ x \in Pending')
      BY <1>5, <1>9, <1>11 DEF Life
    <2>5. \A x \in Created' : Open(x)' => OfServer(x)' \/ x \in clients' \cup held'
      BY <1>3, <1>9, <1>11 DEF Life
    <2>6. \A x \in table' : Open(x)' \/ x \in Pending' \/ (OfServer(x)' /\ x \in ToSet(posted'))
      BY <1>1, <1>5, <1>9 DEF Life
    <2>7. \A x \in Created' : Open(x)' \/ x \in Pending' => x \in table'
      BY <1>1, <1>3, <1>5, <1>9 DEF Life
    <2>8. \A x \in ToSet(posted') : OfServer(x)' /\ ~Open(x)' /\ x \notin Pending'
      BY <1>5, <1>9 DEF Life, Lists
    <2> QED  BY <1>5, <2>1, <2>2, <2>3, <2>4, <2>5, <2>6, <2>7, <2>8 DEF Life
  <1>13. Listed'
    <2> SUFFICES ASSUME NEW x \in ToSet(list') \ {Acceptor}
                 PROVE  IF OfServer(x)' THEN x \in table'
                        ELSE x \in held' \/ (x \in clients' /\ Open(x)' /\ x \notin OnStack')
      BY DEF Listed
    <2>1. x \in Created /\ x \in ToSet(list) \ {Acceptor} /\ x # c
      BY <1>2 DEF Lists
    <2> QED  BY <1>1, <1>5, <1>9, <1>11, <2>1 DEF Listed
  <1>14. FdsDiffer'
    <2>1. Live \subseteq Created
      BY LiveCreated
    <2>2. Live' \subseteq Live \cup {c}
      BY <1>5, <1>10, <1>11 DEF Live
    <2>3. \A x \in Live : fd[x] # f
      BY DEF FreeFds, OpenFds
    <2>4. \A x \in Live : fd'[x] = fd[x]
      BY <1>6, <2>1
    <2> QED  BY <1>6, <2>2, <2>3, <2>4 DEF FdsDiffer
  <1> QED  BY <1>0, <1>3, <1>4, <1>7, <1>10, <1>12, <1>13, <1>14

----------------------------------------------------------------------------
\* A connection is closed

LEMMA CloseKeeps ==
  ASSUME Inv, NEW c \in Created, Open(c), c \in Live, NEW rest \in Seq(Frame),
         PendingOf(rest) = Pending, HeldBy(rest) \subseteq HeldBy(stack) \cup {c},
         Distinct(rest), Guarded(rest, Kept), c \in Kept \cup HeldBy(rest),
         \A g \in ToSet(rest) : g.conn \in Created,
         DoClose(c, rest), UNCHANGED <<made, addr, fd, map, held, posted, table>>,
         clients' = clients \/ clients' = clients \ {c},
         ToSet(list') \subseteq ToSet(list),
         c \in ToSet(list') => OfServer(c) \/ c \in held
  PROVE  /\ Shape' /\ Names' /\ Life' /\ Listed' /\ FdsDiffer'
         /\ stack' \in Seq(Frame) /\ \A g \in ToSet(stack') : g.conn \in Created'
  <1> USE DEF Inv
  <1>1. /\ state' = [state EXCEPT ![c] = "disconnected"]
        /\ stack' = <<Callback(c), Closing(c)>> \o rest
    BY DEF DoClose
  <1>2. /\ Created \subseteq Conn /\ c \in Conn /\ c # Acceptor
        /\ state \in [Conn -> {"connecting", "connected", "disconnected"}]
    BY CreatedConn DEF Types
  <1>3. c \notin Pending /\ c \notin PendingOf(rest)
    BY DEF Life
  <1>4. /\ stack' \in Seq(Frame) /\ ToSet(stack') = {Callback(c), Closing(c)} \cup ToSet(rest)
        /\ PendingOf(stack') = PendingOf(rest) \cup {c}
        /\ HeldBy(stack') = HeldBy(rest) \cup {c}
        /\ Distinct(stack') /\ Guarded(stack', Kept)
    BY <1>1, <1>2, <1>3, ClosingFrames
  <1>5. Created' = Created /\ (\A x : OfServer(x)' <=> OfServer(x)) /\ Kept' = Kept
    BY DEF Created, OfServer, Kept
  <1>6. Pending' = Pending \cup {c} /\ OnStack' \subseteq OnStack \cup {c}
    BY <1>4, StackKeeps DEF Pending, OnStack, HeldBy
  <1>7. Shape'
    BY <1>4, <1>5 DEF Shape
  <1>8. Names'
    BY <1>5 DEF Names
  <1>9. /\ \A x \in Created \ {c} : state'[x] = state[x] /\ (Open(x)' <=> Open(x))
        /\ state'[c] = "disconnected" /\ ~Open(c)'
    BY <1>1, <1>2 DEF Open
  <1>10. Life'
    <2>1. table' \subseteq Created' /\ clients' \subseteq Created' /\ held' \subseteq Created'
      BY <1>5 DEF Life
    <2>2. \A x \in Created' : state'[x] # "connecting"
      BY <1>5, <1>9 DEF Life
    <2>3. Range(map') = {x \in Created' : OfServer(x)' /\ (Open(x)' \/ x \in Pending')}
      BY <1>5, <1>6, <1>9 DEF Life
    <2>4. \A x \in clients' : ~OfServer(x)' /\ (Open(x)' \/ x \in Pending')
      BY <1>5, <1>6, <1>9 DEF Life
    <2>5. \A x \in Created' : Open(x)' => OfServer(x)' \/ x \in clients' \cup held'
      BY <1>5, <1>9 DEF Life
    <2>6. \A x \in table' : Open(x)' \/ x \in Pending' \/ (OfServer(x)' /\ x \in ToSet(posted'))
      BY <1>5, <1>6, <1>9 DEF Life
    <2>7. \A x \in Created' : Open(x)' \/ x \in Pending' => x \in table'
      BY <1>5, <1>6, <1>9 DEF Life
    <2>8. \A x \in Pending' : ~Open(x)'
      <3>1. Pending \subseteq Created
        BY DEF Pending, PendingOf, Lists
      <3> QED  BY <1>6, <1>9, <3>1 DEF Life
    <2>9. \A x \in ToSet(posted') : OfServer(x)' /\ ~Open(x)' /\ x \notin Pending'
      BY <1>5, <1>6, <1>9 DEF Life, Lists
    <2> QED  BY <2>1, <2>2, <2>3, <2>4, <2>5, <2>6, <2>7, <2>8, <2>9 DEF Life
  <1>11. Listed'
    <2> SUFFICES ASSUME NEW x \in ToSet(list') \ {Acceptor}
                 PROVE  IF OfServer(x)' THEN x \in table'
                        ELSE x \in held' \/ (x \in clients' /\ Open(x)' /\ x \notin OnStack')
      BY DEF Listed
    <2>1. x \in Created /\ x \in ToSet(list) \ {Acceptor}
      BY DEF Lists
    <2> QED  BY <1>5, <1>6, <1>9, <2>1 DEF Listed
  <1>12. FdsDiffer'
    <2>1. Live' \subseteq Live
      BY <1>6 DEF Live
    <2> QED  BY <2>1, FewerFds
  <1>13. \A g \in ToSet(stack') : g.conn \in Created'
    BY <1>4, <1>5 DEF Callback, Closing
  <1> QED  BY <1>4, <1>7, <1>8, <1>10, <1>11, <1>12, <1>13

----------------------------------------------------------------------------
\* Who makes connections

LEMMA SmallestIsThere ==
  ASSUME NEW S, S \subseteq Nat, S # {}
  PROVE  Min(S) \in S
  <1> DEFINE R == OpToRel(<, Nat)
  <1>1. IsWellFoundedOn(R, Nat)
    BY NatLessThanWellFounded
  <1>2. \A x, y \in Nat : x < y => <<x, y>> \in R
    BY DEF OpToRel
  <1> HIDE DEF R
  <1>3. PICK x \in S : \A y \in S : ~(<<y, x>> \in R)
    BY <1>1, WFMin
  <1>4. ASSUME NEW y \in S PROVE x <= y
    <2>1. x \in Nat /\ y \in Nat
      OBVIOUS
    <2>2. ~(y < x)
      BY <1>2, <1>3, <2>1, Zenon
    <2> QED  BY <2>1, <2>2
  <1> QED  BY <1>3, <1>4 DEF Min

LEMMA SmallestFd == FreeFds # {} => Min(FreeFds) \in FreeFds
  <1>1. FreeFds \subseteq Nat
    BY FdAssumption DEF FreeFds
  <1> QED  BY <1>1, SmallestIsThere

\* The types of what Establish changes.
LEMMA EstablishTypes ==
  ASSUME Types, NEW a \in Peers \cup {Nobody}, NEW f \in FreeFds,
         made + 1 \in Conn, Establish(made + 1, a, f),
         UNCHANGED <<listening, phase, leaked, input>>,
         backlog' \in Seq(Peers), made + 1 + Len(backlog') <= MaxConns
  PROVE  Types'
  <1>1. f \in Fds
    BY DEF FreeFds
  <1>2. /\ made' = made + 1
        /\ addr' = [addr EXCEPT ![made + 1] = a] /\ fd' = [fd EXCEPT ![made + 1] = f]
        /\ state' = [state EXCEPT ![made + 1] = "connected"]
    BY DEF Establish
  <1> QED  BY <1>1, <1>2 DEF Types

\* The next of the list is taken, in the middle of a round.
LEMMA NextListed ==
  ASSUME Lists, list # <<>>
  PROVE  /\ Tail(list) \in Seq(Conn \cup {Acceptor}) /\ IsInjective(Tail(list))
         /\ ToSet(Tail(list)) \subseteq ToSet(list)
         /\ Head(list) \in ToSet(list) /\ Head(list) \notin ToSet(Tail(list))
         /\ phase = "io"
  BY TailSet DEF Lists

LEMMA AcceptKeeps ==
  ASSUME Inv, AcceptorOnAccept
  PROVE  Inv'
  <1> USE DEF world, conns, owners, loop
  <1>1. /\ phase = "io" /\ Idle /\ list # <<>> /\ list' = Tail(list)
        /\ UNCHANGED <<input, listening, phase, clients, held, posted>>
    BY DEF AcceptorOnAccept
  <1>2. Types /\ Lists /\ Len(backlog) \in Nat
    BY DEF Inv, Types
  <1>3. /\ list' \in Seq(Conn \cup {Acceptor}) /\ IsInjective(list')
        /\ ToSet(list') \subseteq ToSet(list)
    BY <1>1, <1>2, NextListed
  <1>4. CASE AcceptFails
    <2>1. /\ UNCHANGED <<backlog, made, addr, fd, state, table, map, leaked, stack>>
      BY <1>4 DEF AcceptFails, ErrnoAfterAccept
    <2>2. Types'
      BY <1>1, <1>2, <2>1 DEF Types
    <2>3. Lists'
      BY <1>1, <1>2, <1>3, <2>1 DEF Lists, Created
    <2> QED  BY <1>1, <1>3, <2>1, <2>2, <2>3, Quiet
  <1>5. CASE backlog # <<>> /\ FreeFds # {} /\ AcceptSucceeds(Min(FreeFds))
    <2>1. PICK f : f = Min(FreeFds)
      OBVIOUS
    <2>2. f \in FreeFds /\ f \in Fds
      BY <1>5, <2>1, SmallestFd DEF FreeFds
    <2>3. AcceptSucceeds(f)
      BY <1>5, <2>1
    <2>4. /\ backlog' = Tail(backlog) /\ backlog' \in Seq(Peers) /\ Len(backlog') = Len(backlog) - 1
          /\ Head(backlog) \in Peers /\ Len(backlog) >= 1
      BY <1>2, <1>5, <2>3, HeadTailProperties, EmptySeq DEF AcceptSucceeds, Types
    <2>5. CASE f <= MaxFd
      <3>1. PICK a \in Peers : a = Head(backlog)
        BY <2>4
      <3>2. TcpServerOnAccept(made + 1, a, f) /\ UNCHANGED leaked
        BY <2>3, <2>5, <3>1 DEF AcceptSucceeds
      <3>3. made + 1 \in Conn /\ made + 1 + Len(backlog') <= MaxConns
        BY <1>2, <2>4, BoundAssumption DEF Types, Conn
      <3>4. Types'
        BY <1>1, <1>2, <2>2, <2>4, <3>2, <3>3, EstablishTypes DEF TcpServerOnAccept
      <3>5. /\ Shape' /\ Names' /\ Life' /\ Listed' /\ FdsDiffer'
            /\ stack' \in Seq(Frame) /\ \A g \in ToSet(stack') : g.conn \in Created'
            /\ Created' = Created \cup {made + 1}
        BY <1>1, <1>3, <2>2, <3>2, <3>3, EstablishKeeps DEF TcpServerOnAccept
      <3>6. Lists'
        BY <1>1, <1>2, <1>3, <3>5 DEF Lists
      <3> QED  BY <3>4, <3>5, <3>6 DEF Inv
    <2>6. CASE ~(f <= MaxFd)
      <3>1. leaked' = leaked \cup {f} /\ UNCHANGED <<made, addr, fd, state, table, map, stack>>
        BY <2>3, <2>6 DEF AcceptSucceeds
      <3>2. Types'
        <4>1. made' + Len(backlog') <= MaxConns
          BY <1>2, <2>4, <3>1, BoundAssumption DEF Types
        <4> QED  BY <1>1, <1>2, <2>2, <2>4, <3>1, <4>1 DEF Types
      <3>3. Lists'
        BY <1>1, <1>2, <1>3, <3>1 DEF Lists, Created
      <3> QED  BY <1>1, <1>3, <3>1, <3>2, <3>3, Quiet
    <2> QED  BY <2>5, <2>6
  <1> QED  BY <1>4, <1>5 DEF AcceptorOnAccept

LEMMA TcpClientKeeps ==
  ASSUME Inv, TcpClientOnConnect
  PROVE  Inv'
  <1> USE DEF world, conns, owners, loop
  <1>1. /\ phase \in {"io", "timers"} /\ Idle /\ made + Len(backlog) < MaxConns /\ FreeFds # {}
        /\ clients' = clients \cup {made + 1} /\ Establish(made + 1, Nobody, Min(FreeFds))
        /\ UNCHANGED <<backlog, input, listening, phase, list, map, held, posted, leaked>>
    BY DEF TcpClientOnConnect
  <1>2. Types /\ Lists /\ Len(backlog) \in Nat /\ made \in Nat
    BY DEF Inv, Types
  <1>3. PICK f \in FreeFds : f = Min(FreeFds)
    BY <1>1, SmallestFd
  <1>4. made + 1 \in Conn /\ made + 1 + Len(backlog') <= MaxConns /\ Nobody \in Peers \cup {Nobody}
    BY <1>1, <1>2, BoundAssumption DEF Conn
  <1>5. Establish(made + 1, Nobody, f)
    BY <1>1, <1>3
  <1>6. Types'
    <2>1. backlog' \in Seq(Peers)
      BY <1>1, <1>2 DEF Types
    <2> QED  BY <1>1, <1>2, <1>4, <1>5, <2>1, EstablishTypes
  <1>7. /\ Shape' /\ Names' /\ Life' /\ Listed' /\ FdsDiffer'
        /\ stack' \in Seq(Frame) /\ \A g \in ToSet(stack') : g.conn \in Created'
        /\ Created' = Created \cup {made + 1}
    BY <1>1, <1>4, <1>5, EstablishKeeps
  <1>8. Lists'
    BY <1>1, <1>2, <1>7 DEF Lists
  <1> QED  BY <1>6, <1>7, <1>8 DEF Inv

----------------------------------------------------------------------------
\* Who closes them

\* The types of what DoClose changes.
LEMMA CloseTypes ==
  ASSUME Types, NEW c \in Created, NEW rest, DoClose(c, rest),
         UNCHANGED <<listening, phase, leaked, backlog, made, addr, fd>>
  PROVE  Types'
  <1>1. c \in Conn
    BY CreatedConn
  <1> QED  BY <1>1 DEF Types, DoClose

LEMMA ForceCloseKeeps ==
  ASSUME Inv, NEW c \in Created, ForceClose(c)
  PROVE  Inv'
  <1> USE DEF world, conns, owners, loop
  <1>1. /\ InUserCode /\ c \in InHand /\ Open(c) /\ DoClose(c, stack)
        /\ UNCHANGED <<backlog, made, addr, fd, map, clients, held, posted, listening, phase, list,
                      table, leaked>>
    BY DEF ForceClose, ToClose
  <1>2. c \in held \cup HeldBy(stack)
    BY <1>1, TailSet DEF InHand, Running, Idle, HeldBy, Inv, Lists
  <1>3. c \in Live
    BY <1>2, StackKeeps DEF Live
  <1>4. /\ stack \in Seq(Frame) /\ PendingOf(stack) = Pending
        /\ HeldBy(stack) \subseteq HeldBy(stack) \cup {c}
        /\ Distinct(stack) /\ Guarded(stack, Kept) /\ c \in Kept \cup HeldBy(stack)
        /\ \A g \in ToSet(stack) : g.conn \in Created
        /\ ToSet(list') \subseteq ToSet(list)
    BY <1>1, <1>2 DEF Inv, Lists, Shape, Kept, Pending
  <1>5. c \in ToSet(list') => OfServer(c) \/ c \in held
    <2>1. c # Acceptor
      BY CreatedConn DEF Inv
    <2> QED  BY <1>1, <1>2, <2>1, StackKeeps DEF Inv, Listed
  <1>6. /\ Shape' /\ Names' /\ Life' /\ Listed' /\ FdsDiffer'
        /\ stack' \in Seq(Frame) /\ \A g \in ToSet(stack') : g.conn \in Created'
    BY <1>1, <1>3, <1>4, <1>5, CloseKeeps
  <1>7. Types'
    BY <1>1, CloseTypes DEF Inv
  <1>8. Lists'
    <2>1. phase # "poll"
      BY <1>1 DEF InUserCode, Running, Idle, Inv, Lists
    <2> QED  BY <1>1, <1>6, <2>1 DEF Inv, Lists, Created
  <1> QED  BY <1>6, <1>7, <1>8 DEF Inv

\* A client whose callback runs or waits is not let go of.
LEMMA DropClientKeeps ==
  ASSUME Inv, NEW c \in Created, DropClient(c), ~LetGoListed
  PROVE  Inv'
  <1> USE DEF world, conns, owners, loop
  <1>1. /\ InUserCode /\ c \in clients /\ MayLetGo(c) /\ clients' = clients \ {c}
        /\ UNCHANGED <<backlog, made, addr, fd, map, held, posted, listening, phase, list, table, leaked>>
    BY DEF DropClient
  <1>2. /\ ~OfServer(c) /\ c \notin ToSet(list) /\ \A g \in ToSet(stack) : g.conn # c
        /\ c \notin Pending /\ c \notin HeldBy(stack) /\ Open(c)
    <2>1. ~OfServer(c) /\ (Open(c) \/ c \in Pending)
      BY <1>1 DEF Inv, Life
    <2>2. (\A g \in ToSet(stack) : g.conn # c) /\ c \notin ToSet(list)
      BY <1>1, <2>1 DEF MayLetGo
    <2> QED  BY <2>1, <2>2 DEF Pending, PendingOf, HeldBy
  <1>3. phase # "poll"
    BY <1>1 DEF InUserCode, Running, Idle, Inv, Lists
  <1>4. CASE c \notin held \cup OnStack
    <2>1. DoClose(c, <<Guard(c)>> \o stack)
      BY <1>2, <1>4 DEF DropClient
    <2>2. PICK rest : rest = <<Guard(c)>> \o stack
      OBVIOUS
    <2>3. Guard(c) \in Frame /\ Guard(c).do = "guard" /\ Guard(c).conn = c
      BY CreatedConn DEF Guard, Frame, Inv
    <2>4. rest \in Seq(Frame) /\ OnTop(Guard(c), stack, rest)
      BY <2>2, <2>3, Push DEF Inv, Lists
    <2>5. /\ PendingOf(rest) = Pending /\ HeldBy(rest) = HeldBy(stack) \cup {c}
          /\ Distinct(rest) /\ Guarded(rest, Kept)
          /\ \A g \in ToSet(rest) : g.conn \in Created
      BY <2>3, <2>4 DEF OnTop, Pending, Inv, Shape, Lists
    <2>6. c \in Live
      BY <1>1 DEF Live
    <2>7. DoClose(c, rest)
      BY <2>1, <2>2
    <2>8. /\ Shape' /\ Names' /\ Life' /\ Listed' /\ FdsDiffer'
          /\ stack' \in Seq(Frame) /\ \A g \in ToSet(stack') : g.conn \in Created'
      BY <1>1, <1>2, <2>4, <2>5, <2>6, <2>7, CloseKeeps
    <2>9. Types'
      BY <1>1, <2>7, CloseTypes DEF Inv
    <2>10. Lists'
      BY <1>1, <1>3, <2>8 DEF Inv, Lists, Created
    <2> QED  BY <2>8, <2>9, <2>10 DEF Inv
  <1>5. CASE c \in held \cup OnStack
    <2>1. UNCHANGED <<state, input, stack>> /\ c \in held
      BY <1>2, <1>5, StackKeeps DEF DropClient
    <2>2. Types' /\ Lists'
      BY <1>1, <2>1 DEF Inv, Types, Lists, Created
    <2>3. Created' = Created /\ Pending' = Pending /\ OnStack' = OnStack
      BY <1>1, <2>1 DEF Created, Pending, OnStack
    <2>4. Shape' /\ Names'
      BY <1>1, <2>1 DEF Inv, Shape, Kept, Created, Names, OfServer
    <2>5. Life'
      BY <1>1, <1>2, <2>1, <2>3 DEF Inv, Life, Open, OfServer
    <2>6. Listed'
      BY <1>1, <1>2, <2>1, <2>3 DEF Inv, Listed, Open, OfServer
    <2>7. FdsDiffer'
      <3>1. Live' \subseteq Live
        BY <1>1, <2>1, <2>3 DEF Live
      <3> QED  BY <1>1, <3>1, FewerFds DEF Inv
    <2> QED  BY <2>2, <2>4, <2>5, <2>6, <2>7 DEF Inv
  <1> QED  BY <1>4, <1>5

LEMMA ExecuteEventKeeps ==
  ASSUME Inv, ExecuteEvent
  PROVE  Inv'
  <1> USE DEF world, conns, owners, loop
  <1>1. PICK c : c = Head(list)
    OBVIOUS
  <1>2. /\ phase = "io" /\ Idle /\ list # <<>> /\ c \in Live /\ list' = Tail(list)
        /\ IF Open(c) THEN HandleRead(c) ELSE UNCHANGED <<state, input, stack>>
        /\ UNCHANGED <<backlog, made, addr, fd, map, clients, held, posted, listening, phase, table,
                      leaked>>
    BY <1>1 DEF ExecuteEvent
  <1>3. /\ list' \in Seq(Conn \cup {Acceptor}) /\ IsInjective(list')
        /\ ToSet(list') \subseteq ToSet(list) /\ c \in ToSet(list) /\ c \notin ToSet(list')
    BY <1>1, <1>2, NextListed DEF Inv
  <1>4. c \in Created /\ c \in Conn
    BY <1>2, LiveCreated, CreatedConn DEF Inv
  <1>5. CASE Open(c) /\ input[c] = "end"
    <2>1. DoClose(c, <<Guard(c)>>)
      BY <1>2, <1>5 DEF HandleRead
    <2>2. PICK rest : rest = <<Guard(c)>>
      OBVIOUS
    <2>3. Guard(c) \in Frame /\ Guard(c).do = "guard" /\ Guard(c).conn = c
      BY <1>4 DEF Guard, Frame
    <2>4. rest \in Seq(Frame) /\ Len(rest) = 1 /\ rest[1] = Guard(c) /\ DOMAIN rest = 1..1
      BY <2>2, <2>3
    <2>5. ToSet(rest) = {Guard(c)} /\ \A i \in 1..Len(rest) : rest[i].do # "onclose"
      BY <2>3, <2>4 DEF ToSet
    <2>6. /\ PendingOf(rest) = {} /\ HeldBy(rest) = {c}
          /\ Distinct(rest) /\ Guarded(rest, Kept)
          /\ \A g \in ToSet(rest) : g.conn \in Created
      BY <1>4, <2>3, <2>5 DEF PendingOf, HeldBy, Distinct, Guarded
    <2>7. Pending = {}
      BY <1>2, NoFrames DEF Idle, Pending
    <2>8. DoClose(c, rest)
      BY <2>1, <2>2
    <2>9. /\ Shape' /\ Names' /\ Life' /\ Listed' /\ FdsDiffer'
          /\ stack' \in Seq(Frame) /\ \A g \in ToSet(stack') : g.conn \in Created'
      BY <1>2, <1>3, <1>4, <1>5, <2>4, <2>6, <2>7, <2>8, CloseKeeps
    <2>10. Types'
      BY <1>2, <1>4, <2>8, CloseTypes DEF Inv
    <2>11. Lists'
      BY <1>2, <1>3, <2>9 DEF Inv, Lists, Created
    <2> QED  BY <2>9, <2>10, <2>11 DEF Inv
  <1>6. CASE Open(c) /\ input[c] # "end"
    <2>1. /\ input' = [input EXCEPT ![c] = "none"] /\ UNCHANGED state
          /\ stack' = <<Callback(c), Guard(c)>>
      BY <1>2, <1>6 DEF HandleRead
    <2>2. /\ stack' \in Seq(Frame) /\ \A g \in ToSet(stack') : g.conn = c
          /\ PendingOf(stack') = {} /\ HeldBy(stack') = {c}
          /\ Distinct(stack') /\ \A K : Guarded(stack', K)
      BY <1>4, <2>1, CallbackFrames
    <2>3. Pending' = Pending /\ OnStack' = {c} /\ Created' = Created
      BY <1>2, <2>2, NoFrames, StackKeeps DEF Idle, Pending, OnStack, HeldBy, Created
    <2>4. Types'
      BY <1>2, <1>4, <2>1 DEF Inv, Types
    <2>5. Lists'
      BY <1>2, <1>3, <1>4, <2>2, <2>3 DEF Inv, Lists
    <2>6. Shape' /\ Names'
      BY <1>2, <2>2, <2>3 DEF Inv, Shape, Names
    <2>7. Life'
      BY <1>2, <2>1, <2>3 DEF Inv, Life, Open, OfServer
    <2>8. Listed'
      BY <1>2, <1>3, <2>1, <2>3 DEF Inv, Listed, Open, OfServer
    <2>9. FdsDiffer'
      <3>1. Live' \subseteq Live
        BY <1>2, <2>3 DEF Live
      <3> QED  BY <1>2, <3>1, FewerFds DEF Inv
    <2> QED  BY <2>4, <2>5, <2>6, <2>7, <2>8, <2>9 DEF Inv
  <1>7. CASE ~Open(c)
    <2>1. UNCHANGED <<state, input, stack>>
      BY <1>2, <1>7
    <2>2. Types' /\ Lists'
      BY <1>2, <1>3, <2>1 DEF Inv, Types, Lists, Created
    <2> QED  BY <1>2, <1>3, <2>1, <2>2, Quiet
  <1> QED  BY <1>5, <1>6, <1>7

----------------------------------------------------------------------------
\* Callbacks return, and on_close_

LEMMA ReturnsKeeps ==
  ASSUME Inv, Returns
  PROVE  Inv'
  <1> USE DEF world, conns, owners, loop
  <1>1. /\ stack # <<>> /\ Head(stack).do # "onclose" /\ stack' = Tail(stack)
        /\ UNCHANGED <<backlog, input, made, addr, fd, state, map, clients, held, posted, listening,
                      phase, list, table, leaked>>
    BY DEF Returns, Running, Idle
  <1>2. stack' \in Seq(Frame) /\ OnTop(Head(stack), stack', stack)
    BY <1>1, Pop DEF Inv, Lists
  <1>3. /\ ToSet(stack') \subseteq ToSet(stack) /\ Pending' = Pending
        /\ HeldBy(stack') \subseteq HeldBy(stack)
        /\ Distinct(stack') /\ Guarded(stack', Kept)
    BY <1>1, <1>2 DEF OnTop, Pending, Inv, Shape
  <1>4. Created' = Created /\ Kept' = Kept /\ OnStack' \subseteq OnStack
    BY <1>1, <1>3, StackKeeps DEF Created, Kept, OfServer, OnStack, HeldBy
  <1>5. Types' /\ Shape' /\ Names'
    BY <1>1, <1>3, <1>4 DEF Inv, Types, Shape, Names
  <1>6. Lists'
    BY <1>1, <1>2, <1>3, <1>4 DEF Inv, Lists
  <1>7. Life'
    BY <1>1, <1>3, <1>4 DEF Inv, Life, Open, OfServer
  <1>8. Listed'
    BY <1>1, <1>4 DEF Inv, Listed, Open, OfServer
  <1>9. FdsDiffer'
    <2>1. Live' \subseteq Live
      BY <1>1, <1>4 DEF Live
    <2> QED  BY <1>1, <2>1, FewerFds DEF Inv
  <1> QED  BY <1>5, <1>6, <1>7, <1>8, <1>9 DEF Inv

LEMMA OnCloseKeeps ==
  ASSUME Inv, OnClose
  PROVE  Inv'
  <1> USE DEF world, conns, owners, loop
  <1>1. PICK c : c = Head(stack).conn
    OBVIOUS
  <1>2. /\ stack # <<>> /\ Head(stack).do = "onclose" /\ stack' = Tail(stack)
        /\ IF OfServer(c) THEN TcpServerOnClose(c) ELSE RemoveConnection(c)
        /\ UNCHANGED <<backlog, input, made, addr, fd, state, held, listening, phase, list, leaked>>
    BY <1>1 DEF OnClose, Running, Idle
  <1>3. stack' \in Seq(Frame) /\ OnTop(Head(stack), stack', stack)
    BY <1>2, Pop DEF Inv, Lists
  <1>4. /\ ToSet(stack') \subseteq ToSet(stack) /\ c \in Created /\ c \in Conn
        /\ Pending = PendingOf(stack') \cup {c} /\ c \notin PendingOf(stack')
        /\ HeldBy(stack') = HeldBy(stack) /\ Distinct(stack') /\ Guarded(stack', Kept)
    <2>1. Head(stack) \in ToSet(stack)
      BY <1>3 DEF OnTop
    <2>2. c \in Created
      BY <1>1, <2>1 DEF Inv, Lists
    <2> QED  BY <1>1, <1>2, <1>3, <2>2, CreatedConn DEF OnTop, Pending, Inv, Shape
  <1>5. /\ Created' = Created /\ Kept' = Kept /\ OnStack' = OnStack
        /\ Pending' = Pending \ {c} /\ c \in Pending /\ ~Open(c)
        /\ \A x : (Open(x)' <=> Open(x)) /\ (OfServer(x)' <=> OfServer(x))
    BY <1>2, <1>4, StackKeeps DEF Created, Kept, OfServer, Open, OnStack, HeldBy, Pending, Inv, Life
  <1>6. Types' /\ Shape'
    BY <1>2, <1>4, <1>5 DEF Inv, Types, Shape
  <1>7. CASE OfServer(c)
    <2>1. /\ map' = [n \in DOMAIN map \ {Name(c, addr[c])} |-> map[n]]
          /\ posted' = Append(posted, c) /\ UNCHANGED <<table, clients>>
      BY <1>2, <1>7 DEF TcpServerOnClose, Erase
    <2>2. c \notin ToSet(posted) /\ c \in Range(map)
      BY <1>4, <1>5, <1>7 DEF Inv, Life
    <2>3. /\ posted' \in Seq(Conn) /\ IsInjective(posted') /\ ToSet(posted') = ToSet(posted) \cup {c}
      BY <1>4, <2>1, <2>2, AppendSet DEF Inv, Lists
    <2>4. Lists'
      BY <1>2, <1>3, <1>4, <1>5, <2>3 DEF Inv, Lists
    <2>5. Names' /\ Range(map') = Range(map) \ {c}
      <3>1. Names'
        BY <1>2, <1>5, <2>1 DEF Inv, Names
      <3>2. \A n \in DOMAIN map : map[n] = c => n = Name(c, addr[c])
        BY DEF Inv, Names
      <3>3. \A n \in DOMAIN map' : map'[n] = map[n] /\ n \in DOMAIN map /\ map[n] # c
        BY <2>1, <3>2 DEF Inv, Names, Name
      <3>4. \A n \in DOMAIN map : map[n] # c => n \in DOMAIN map' /\ map'[n] = map[n]
        BY <2>1 DEF Inv, Names, Name
      <3> QED  BY <3>1, <3>3, <3>4 DEF Range
    <2>6. Life'
      BY <1>2, <1>5, <1>7, <2>1, <2>3, <2>5 DEF Inv, Life
    <2>7. Listed'
      BY <1>2, <1>5, <2>1 DEF Inv, Listed
    <2>8. FdsDiffer'
      <3>1. Live' \subseteq Live
        BY <1>2, <1>5, <2>1, <2>2, <2>3, <2>5 DEF Live
      <3> QED  BY <1>2, <3>1, FewerFds DEF Inv
    <2> QED  BY <1>6, <2>4, <2>5, <2>6, <2>7, <2>8 DEF Inv
  <1>8. CASE ~OfServer(c)
    <2>1. clients' = clients \ {c} /\ table' = table \ {c} /\ UNCHANGED <<map, posted>>
      BY <1>2, <1>8 DEF RemoveConnection, ConnectDestroyed
    <2>2. Lists'
      BY <1>2, <1>3, <1>4, <1>5, <2>1 DEF Inv, Lists
    <2>3. Names'
      BY <1>2, <1>5, <2>1 DEF Inv, Names
    <2>4. Life'
      BY <1>2, <1>5, <1>8, <2>1 DEF Inv, Life
    <2>5. Listed'
      BY <1>2, <1>5, <1>8, <2>1 DEF Inv, Listed
    <2>6. FdsDiffer'
      <3>1. Live' \subseteq Live
        BY <1>2, <1>5, <2>1 DEF Live
      <3> QED  BY <1>2, <3>1, FewerFds DEF Inv
    <2> QED  BY <1>6, <2>2, <2>3, <2>4, <2>5, <2>6 DEF Inv
  <1> QED  BY <1>7, <1>8

----------------------------------------------------------------------------
\* The user keeps and lets go

LEMMA KeepKeeps ==
  ASSUME Inv, Keep
  PROVE  Inv'
  <1> USE DEF world, conns, owners, loop
  <1>1. PICK c : c = Head(stack).conn
    OBVIOUS
  <1>2. /\ stack # <<>> /\ Head(stack).do = "user" /\ held' = held \cup {c}
        /\ UNCHANGED <<backlog, input, made, addr, fd, state, map, clients, posted, listening,
                      phase, list, table, leaked, stack>>
    BY <1>1 DEF Keep, Running, Idle
  <1>3. c \in Created /\ c \in HeldBy(stack)
    BY <1>1, <1>2, TailSet DEF Inv, Lists, HeldBy
  <1>4. Created' = Created /\ Pending' = Pending /\ OnStack' = OnStack /\ Kept' = Kept \cup {c}
    BY <1>2 DEF Created, Pending, OnStack, Kept, OfServer
  <1>5. Types' /\ Lists' /\ Names'
    BY <1>2, <1>4 DEF Inv, Types, Lists, Names
  <1>6. Shape'
    <2>1. DOMAIN stack = 1..Len(stack)
      BY DEF Inv, Lists
    <2>2. Guarded(stack, Kept \cup {c})
      BY <2>1, StillGuarded DEF Inv, Shape
    <2> QED  BY <1>2, <1>4, <2>2 DEF Inv, Shape
  <1>7. Life'
    BY <1>2, <1>3, <1>4 DEF Inv, Life, Open, OfServer
  <1>8. Listed'
    BY <1>2, <1>4 DEF Inv, Listed, Open, OfServer
  <1>9. FdsDiffer'
    <2>1. Live' \subseteq Live
      BY <1>2, <1>3, <1>4, StackKeeps DEF Live
    <2> QED  BY <1>2, <2>1, FewerFds DEF Inv
  <1> QED  BY <1>5, <1>6, <1>7, <1>8, <1>9 DEF Inv

LEMMA LetGoKeeps ==
  ASSUME Inv, NEW c \in Created, LetGo(c), ~LetGoListed
  PROVE  Inv'
  <1> USE DEF world, conns, owners, loop
  <1>1. /\ MayLetGo(c) /\ c \in held /\ (Open(c) => c \in Range(map) \cup clients) /\ held' = held \ {c}
        /\ UNCHANGED <<backlog, input, made, addr, fd, state, map, clients, posted, listening,
                      phase, list, table, leaked, stack>>
    BY DEF LetGo
  <1>2. OfServer(c) \/ (c \notin ToSet(list) /\ c \notin Pending)
    BY <1>1 DEF MayLetGo, Pending, PendingOf
  <1>3. Created' = Created /\ Pending' = Pending /\ OnStack' = OnStack
    BY <1>1 DEF Created, Pending, OnStack
  <1>4. Types' /\ Lists' /\ Names'
    BY <1>1, <1>3 DEF Inv, Types, Lists, Names
  <1>5. Shape'
    <2>1. DOMAIN stack = 1..Len(stack)
      BY DEF Inv, Lists
    <2>2. \A x \in PendingOf(stack) : x \in Kept => x \in Kept'
      BY <1>1, <1>2, <1>3 DEF Kept, OfServer, Pending
    <2>3. Guarded(stack, Kept')
      BY <2>1, <2>2, StillGuarded DEF Inv, Shape
    <2> QED  BY <1>1, <2>3 DEF Inv, Shape
  <1>6. Life'
    BY <1>1, <1>3 DEF Inv, Life, Open, OfServer
  <1>7. Listed'
    BY <1>1, <1>2, <1>3 DEF Inv, Listed, Open, OfServer
  <1>8. FdsDiffer'
    <2>1. Live' \subseteq Live
      BY <1>1, <1>3 DEF Live
    <2> QED  BY <1>1, <2>1, FewerFds DEF Inv
  <1> QED  BY <1>4, <1>5, <1>6, <1>7, <1>8 DEF Inv

----------------------------------------------------------------------------
\* The round

LEMMA RunPostedKeeps ==
  ASSUME Inv, RunPosted
  PROVE  Inv'
  <1> USE DEF world, conns, owners, loop
  <1>1. PICK c : c = Head(posted)
    OBVIOUS
  <1>2. /\ phase = "timers" /\ stack = <<>> /\ posted # <<>> /\ table' = table \ {c}
        /\ posted' = Tail(posted)
        /\ UNCHANGED <<backlog, input, made, addr, fd, state, map, clients, held, listening, phase,
                      list, leaked, stack>>
    BY <1>1 DEF RunPosted, ConnectDestroyed, Idle
  <1>3. /\ posted' \in Seq(Conn) /\ IsInjective(posted')
        /\ ToSet(posted) = {c} \cup ToSet(posted') /\ c \notin ToSet(posted')
    BY <1>1, <1>2, TailSet DEF Inv, Lists
  <1>4. Created' = Created /\ Pending' = Pending /\ OnStack' = OnStack /\ Kept' = Kept
    BY <1>2 DEF Created, Pending, OnStack, Kept, OfServer
  <1>5. ToSet(list) = {}
    BY <1>2, EmptySet DEF Inv, Lists
  <1>6. Types' /\ Lists' /\ Shape' /\ Names'
    BY <1>2, <1>3, <1>4 DEF Inv, Types, Lists, Shape, Names
  <1>7. Life'
    BY <1>2, <1>3, <1>4 DEF Inv, Life, Open, OfServer
  <1>8. Listed'
    BY <1>2, <1>5 DEF Listed
  <1>9. FdsDiffer'
    <2>1. Live' \subseteq Live
      BY <1>2, <1>3, <1>4 DEF Live
    <2> QED  BY <1>2, <2>1, FewerFds DEF Inv
  <1> QED  BY <1>6, <1>7, <1>8, <1>9 DEF Inv

LEMMA PollEventsKeeps ==
  ASSUME Inv, PollEvents
  PROVE  Inv'
  <1> USE DEF world, conns, owners, loop
  <1>1. /\ phase = "poll" /\ list' \in SetToSeqs(Ready) /\ phase' = "io"
        /\ UNCHANGED <<backlog, input, made, addr, fd, state, map, clients, held, posted, listening,
                      table, leaked, stack>>
    BY DEF PollEvents
  <1>2. stack = <<>> /\ OnStack = {}
    BY <1>1, NoFrames, StackKeeps DEF Inv, Lists
  <1>3. Created' = Created /\ Pending' = Pending /\ OnStack' = OnStack /\ Kept' = Kept /\ Live' = Live
    BY <1>1 DEF Created, Pending, OnStack, Kept, OfServer, Live
  <1>4. Ready \subseteq Created \cup {Acceptor} /\ \A x \in Ready \ {Acceptor} : x \in table /\ Open(x)
    BY DEF Ready, Readable, Inv, Life
  <1>5. Cardinality(Ready) \in Nat
    <2>1. made \in Nat
      BY DEF Inv, Types
    <2>2. IsFiniteSet(0..made)
      BY <2>1, FS_Interval
    <2>3. Ready \in SUBSET (0..made)
      BY <1>4, <2>1 DEF Created, Acceptor
    <2> QED  BY <2>2, <2>3, FS_Subset, FS_CardinalityType
  <1>6. PICK n \in Nat : n = Cardinality(Ready)
    BY <1>5
  <1>7. list' \in [1..n -> Ready] /\ \A i, j \in 1..n : i # j => list'[i] # list'[j]
    BY <1>1, <1>6 DEF SetToSeqs
  <1>8. list' \in Seq(Conn \cup {Acceptor})
    <2>1. Ready \subseteq Conn \cup {Acceptor}
      BY <1>4, CreatedConn DEF Inv
    <2> QED  BY <1>6, <1>7, <2>1
  <1>9. ToSet(list') \subseteq Ready /\ IsInjective(list')
    BY <1>7 DEF ToSet, IsInjective
  <1>10. Types' /\ Shape' /\ Names'
    BY <1>1, <1>3 DEF Inv, Types, Shape, Names
  <1>11. Lists'
    BY <1>1, <1>2, <1>3, <1>4, <1>8, <1>9 DEF Inv, Lists
  <1>12. Life'
    BY <1>1, <1>3 DEF Inv, Life, Open, OfServer
  <1>13. Listed'
    <2> SUFFICES ASSUME NEW x \in ToSet(list') \ {Acceptor}
                 PROVE  IF OfServer(x)' THEN x \in table'
                        ELSE x \in held' \/ (x \in clients' /\ Open(x)' /\ x \notin OnStack')
      BY DEF Listed
    <2>1. x \in table /\ Open(x) /\ x \in Created
      BY <1>4, <1>9
    <2>2. OfServer(x) \/ x \in clients \cup held
      BY <2>1 DEF Inv, Life
    <2> QED  BY <1>1, <1>2, <1>3, <2>1, <2>2 DEF Open, OfServer
  <1>14. FdsDiffer'
    BY <1>1, <1>3 DEF Inv, FdsDiffer
  <1> QED  BY <1>10, <1>11, <1>12, <1>13, <1>14 DEF Inv

----------------------------------------------------------------------------
\* What follows

LEMMA NextInv ==
  ASSUME Inv, [Next]_vars, ~LetGoListed
  PROVE  Inv'
  <1>1. CASE UserCalls
    BY <1>1, KeepKeeps, LetGoKeeps, ForceCloseKeeps, DropClientKeeps DEF UserCalls
  <1>2. CASE Library
    BY <1>2, OnCloseKeeps, PollEventsKeeps, AcceptKeeps, ExecuteEventKeeps, QuietSteps DEF Library
  <1>3. CASE World
    BY <1>3, QuietSteps DEF World
  <1> QED  BY <1>1, <1>2, <1>3, QuietSteps, ReturnsKeeps, RunPostedKeeps, TcpClientKeeps DEF Next

LEMMA AlwaysInv == ~LetGoListed => (Spec => []Inv)
  <1> SUFFICES ASSUME ~LetGoListed PROVE Spec => []Inv
    OBVIOUS
  <1>1. Inv /\ [Next]_vars => Inv'
    BY NextInv
  <1> QED  BY <1>1, InitInv, PTL DEF Spec

\* Every part of the state has its type, and nothing is destroyed twice.
THEOREM TypeCorrect == ~LetGoListed => (Spec => []TypeOK)
  <1> SUFFICES ASSUME ~LetGoListed PROVE Spec => []TypeOK
    OBVIOUS
  <1>1. ASSUME Inv PROVE TypeOK
    <2>1. made \in 0..MaxConns
      BY <1>1, BoundAssumption DEF Inv, Types
    <2>2. Range(map) \subseteq Created
      BY <1>1 DEF Inv, Life
    <2>3. \A frame \in ToSet(stack) : frame \in Frame
      BY <1>1, ElementOfSeq DEF Inv, Lists, ToSet
    <2>4. \A frame \in ToSet(stack) : frame.do \in {"user", "onclose", "guard"} /\ frame.conn \in Created
      BY <1>1, <2>3 DEF Inv, Lists, Frame
    <2> QED  BY <1>1, <2>1, <2>2, <2>4 DEF Inv, Types, Lists, Life, TypeOK
  <1> QED  BY <1>1, AlwaysInv, PTL

\* The list of the round, the poll table and the map of the server agree with
\* which connections are there (ReferencesAgree), if users do not let go of
\* connections that are still on the list.
THEOREM ReferencesAlwaysAgree == ~LetGoListed => (Spec => []ReferencesAgree)
  <1> SUFFICES ASSUME ~LetGoListed PROVE Spec => []ReferencesAgree
    OBVIOUS
  <1>1. ASSUME Inv PROVE ReferencesAgree
    <2>1. MapIsOpen
      BY <1>1, PendingFrames DEF Inv, Life, MapIsOpen
    <2>2. TableIsAlive
      BY <1>1, TableAlive DEF Inv, FdsDiffer, TableIsAlive
    <2>3. ListedIsAlive
      BY <1>1, ListAlive
    <2> QED  BY <2>1, <2>2, <2>3 DEF ReferencesAgree
  <1> QED  BY <1>1, AlwaysInv, PTL

\* The assertions on the way of a connection hold (ConnectDestroyed, OnClose
\* of TcpServer, ~TcpEvent).
THEOREM NoAssertFails == ~LetGoListed => (Spec => []AssertsHold)
  <1> SUFFICES ASSUME ~LetGoListed PROVE Spec => []AssertsHold
    OBVIOUS
  <1>1. ASSUME Inv PROVE AssertsHold
    <2>1. \A c \in Created : state[c] \in {"connected", "disconnected"}
      BY <1>1, CreatedConn DEF Inv, Types, Life
    <2>2. \A c \in Created : c \notin Live => state[c] = "disconnected"
      BY <1>1, <2>1 DEF Inv, Life, Live, Open
    <2>3. \A c \in ToSet(posted) : state[c] = "disconnected"
      BY <1>1, <2>1 DEF Inv, Life, Lists, Open
    <2>4. ASSUME Running("onclose")
          PROVE  LET c == Head(stack).conn IN
                 /\ c \in Live \cap table /\ state[c] = "disconnected"
                 /\ OfServer(c) =>
                      Name(c, addr[c]) \in DOMAIN map /\ map[Name(c, addr[c])] = c
      <3>1. PICK c : c = Head(stack).conn
        OBVIOUS
      <3>2. c \in Pending /\ c \in Created
        BY <1>1, <2>4, <3>1, TailSet DEF Running, Idle, Inv, Lists, Pending, PendingOf
      <3>3. c \in Live /\ c \in table /\ state[c] = "disconnected"
        BY <1>1, <2>1, <3>2, PendingAlive DEF Inv, Life, Open
      <3>4. OfServer(c) => Name(c, addr[c]) \in DOMAIN map /\ map[Name(c, addr[c])] = c
        <4> SUFFICES ASSUME OfServer(c)
                     PROVE  Name(c, addr[c]) \in DOMAIN map /\ map[Name(c, addr[c])] = c
          OBVIOUS
        <4>1. c \in Range(map)
          BY <1>1, <3>2 DEF Inv, Life
        <4>2. PICK n \in DOMAIN map : map[n] = c
          BY <4>1 DEF Range
        <4> QED  BY <1>1, <4>2 DEF Inv, Names
      <3> QED  BY <3>1, <3>3, <3>4
    <2> QED  BY <2>2, <2>3, <2>4 DEF AssertsHold
  <1> QED  BY <1>1, AlwaysInv, PTL

----------------------------------------------------------------------------
\* Each connection has one life

Stages ==
  \A c \in Conn :
    Stage(c) = IF c \notin Created THEN "none"
               ELSE IF Open(c) THEN "open"
               ELSE IF c \in Pending THEN "closing"
               ELSE IF c \in ToSet(posted) THEN "posted" ELSE "gone"

LivesOn(c) == Lived(c)!Next \/ UNCHANGED Lived(c)!vars

LEMMA InvStages == Inv => Stages
  BY PendingFrames DEF Stages, Stage

LEMMA Unmoved ==
  ASSUME Stages, Stages', UNCHANGED <<made, addr, state, table, posted>>,
         Pending' = Pending, NEW x \in Conn
  PROVE  LivesOn(x)
  <1>1. Created' = Created /\ (Open(x)' <=> Open(x)) /\ (OfServer(x)' <=> OfServer(x))
    BY DEF Created, Open, OfServer
  <1>2. Stage(x)' = Stage(x)
    BY <1>1 DEF Stages
  <1> QED  BY <1>1, <1>2 DEF LivesOn, Lived!vars

LEMMA Closed ==
  ASSUME Inv, Stages, Stages', NEW c \in Created, Open(c),
         state' = [state EXCEPT ![c] = "disconnected"], Pending' = Pending \cup {c},
         UNCHANGED <<made, addr, table, posted>>, NEW x \in Conn
  PROVE  LivesOn(x)
  <1>1. Created' = Created /\ (OfServer(x)' <=> OfServer(x)) /\ c \in Conn
    BY CreatedConn DEF Created, OfServer, Inv
  <1>2. ~Open(c)' /\ (x # c => (Open(x)' <=> Open(x)))
    BY <1>1 DEF Open, Inv, Types
  <1>3. CASE x = c
    <2>1. Stage(x) = "open" /\ Stage(x)' = "closing"
      BY <1>1, <1>2, <1>3 DEF Stages
    <2> QED  BY <1>1, <2>1 DEF LivesOn, Lived!Next, Lived!Closes
  <1>4. CASE x # c
    <2>1. Stage(x)' = Stage(x)
      BY <1>1, <1>2, <1>4 DEF Stages
    <2> QED  BY <1>1, <2>1 DEF LivesOn, Lived!vars
  <1> QED  BY <1>3, <1>4

LEMMA Opened ==
  ASSUME Inv, Stages, Stages', Idle, NEW a, NEW f,
         made + 1 \in Conn, Establish(made + 1, a, f), UNCHANGED posted, NEW x \in Conn
  PROVE  LivesOn(x)
  <1>1. PICK c : c = made + 1
    OBVIOUS
  <1>2. /\ made' = c /\ table' = table \cup {c} /\ stack' = <<Callback(c), Guard(c)>>
        /\ addr' = [addr EXCEPT ![c] = a]
        /\ state' = [state EXCEPT ![c] = "connected"]
    BY <1>1 DEF Establish
  <1>3. Created' = Created \cup {c} /\ c \notin Created /\ c \in Conn
    BY <1>1, <1>2 DEF Created, Inv, Types
  <1>4. Pending' = {} /\ Pending = {}
    BY <1>2, <1>3, CallbackFrames, NoFrames DEF Idle, Pending
  <1>5. CASE x = c
    <2>1. Open(x)' /\ Stage(x) = "none" /\ Stage(x)' = "open"
      BY <1>2, <1>3, <1>5 DEF Stages, Open, Inv, Types
    <2>2. (IF x \notin Created THEN "nobody" ELSE IF OfServer(x) THEN "server" ELSE "client")'
            \in {"server", "client"}
      BY <1>3, <1>5
    <2>3. (x \in table)' = TRUE
      BY <1>2, <1>5
    <2> QED  BY <2>1, <2>2, <2>3 DEF LivesOn, Lived!Next, Lived!Opens
  <1>6. CASE x # c
    <2>1. /\ (x \in Created' <=> x \in Created) /\ (Open(x)' <=> Open(x))
          /\ (OfServer(x)' <=> OfServer(x)) /\ (x \in table' <=> x \in table)
      BY <1>2, <1>3, <1>6 DEF Open, OfServer, Inv, Types
    <2>2. Stage(x)' = Stage(x)
      BY <1>4, <2>1 DEF Stages
    <2> QED  BY <2>1, <2>2 DEF LivesOn, Lived!vars
  <1> QED  BY <1>5, <1>6

LEMMA Told ==
  ASSUME Inv, Stages, Stages', OnClose, NEW x \in Conn
  PROVE  LivesOn(x)
  <1> USE DEF world, conns, owners, loop
  <1>1. PICK c : c = Head(stack).conn
    OBVIOUS
  <1>2. /\ stack # <<>> /\ Head(stack).do = "onclose" /\ stack' = Tail(stack)
        /\ IF OfServer(c) THEN TcpServerOnClose(c) ELSE RemoveConnection(c)
        /\ UNCHANGED <<made, addr, state>>
    BY <1>1 DEF OnClose, Running, Idle
  <1>3. OnTop(Head(stack), stack', stack) /\ Head(stack) \in ToSet(stack)
    BY <1>2, Pop, TailSet DEF Inv, Lists
  <1>4. /\ c \in Created /\ c \in Conn /\ c \in Pending /\ ~Open(c)
        /\ Pending' = Pending \ {c} /\ c \notin ToSet(posted)
    <2>1. c \in Created /\ c \in Conn
      BY <1>1, <1>3, CreatedConn DEF Inv, Lists
    <2>2. Pending = PendingOf(stack') \cup {c} /\ c \notin PendingOf(stack')
      BY <1>1, <1>2, <1>3 DEF OnTop, Pending, Inv, Shape
    <2>3. ~Open(c) /\ c \notin ToSet(posted)
      BY <2>2 DEF Inv, Life
    <2> QED  BY <2>1, <2>2, <2>3 DEF Pending
  <1>5. /\ Created' = Created /\ (Open(x)' <=> Open(x)) /\ (OfServer(x)' <=> OfServer(x))
        /\ (Open(c)' <=> Open(c)) /\ (OfServer(c)' <=> OfServer(c))
    BY <1>2 DEF Created, Open, OfServer
  <1>6. CASE OfServer(c)
    <2>1. UNCHANGED table /\ ToSet(posted') = ToSet(posted) \cup {c}
      <3>1. UNCHANGED table /\ posted' = Append(posted, c)
        BY <1>2, <1>6 DEF TcpServerOnClose
      <3>2. posted \in Seq(Conn)
        BY DEF Inv, Lists
      <3>3. ToSet(Append(posted, c)) = ToSet(posted) \cup {c}
        BY <1>4, <3>2, AppendSet
      <3> QED  BY <3>1, <3>3
    <2>2. CASE x = c
      <3>1. Stage(x) = "closing" /\ Stage(x)' = "posted"
        BY <1>4, <1>5, <2>1, <2>2 DEF Stages
      <3> QED
        BY <1>4, <1>5, <1>6, <2>1, <2>2, <3>1 DEF LivesOn, Lived!Next, Lived!TellsServer
    <2>3. CASE x # c
      <3>1. Stage(x)' = Stage(x)
        BY <1>4, <1>5, <2>1, <2>3 DEF Stages
      <3> QED  BY <1>5, <2>1, <3>1 DEF LivesOn, Lived!vars
    <2> QED  BY <2>2, <2>3
  <1>7. CASE ~OfServer(c)
    <2>1. UNCHANGED posted /\ table' = table \ {c}
      BY <1>2, <1>7 DEF RemoveConnection, ConnectDestroyed
    <2>2. CASE x = c
      <3>1. Stage(x) = "closing" /\ Stage(x)' = "gone"
        BY <1>4, <1>5, <2>1, <2>2 DEF Stages
      <3>2. (x \in table)' = FALSE
        BY <2>1, <2>2
      <3> QED
        BY <1>4, <1>5, <1>7, <2>2, <3>1, <3>2 DEF LivesOn, Lived!Next, Lived!TellsClient
    <2>3. CASE x # c
      <3>1. Stage(x)' = Stage(x) /\ (x \in table' <=> x \in table)
        BY <1>4, <1>5, <2>1, <2>3 DEF Stages
      <3> QED  BY <1>5, <3>1 DEF LivesOn, Lived!vars
    <2> QED  BY <2>2, <2>3
  <1> QED  BY <1>6, <1>7

LEMMA Destroyed ==
  ASSUME Inv, Stages, Stages', RunPosted, NEW x \in Conn
  PROVE  LivesOn(x)
  <1> USE DEF world, conns, owners, loop
  <1>1. PICK c : c = Head(posted)
    OBVIOUS
  <1>2. /\ posted # <<>> /\ table' = table \ {c} /\ posted' = Tail(posted)
        /\ UNCHANGED <<made, addr, state, stack>>
    BY <1>1 DEF RunPosted, ConnectDestroyed
  <1>3. /\ ToSet(posted) = {c} \cup ToSet(posted') /\ c \notin ToSet(posted')
        /\ c \in Created /\ ~Open(c) /\ c \notin Pending
    BY <1>1, <1>2, TailSet DEF Inv, Lists, Life
  <1>4. /\ Created' = Created /\ (Open(x)' <=> Open(x)) /\ (OfServer(x)' <=> OfServer(x))
        /\ Pending' = Pending
    BY <1>2 DEF Created, Open, OfServer, Pending
  <1>5. CASE x = c
    <2>1. Stage(x) = "posted" /\ Stage(x)' = "gone"
      BY <1>3, <1>4, <1>5 DEF Stages
    <2>2. (x \in table)' = FALSE
      BY <1>2, <1>5
    <2> QED  BY <1>4, <2>1, <2>2 DEF LivesOn, Lived!Next, Lived!IsDestroyed
  <1>6. CASE x # c
    <2>1. Stage(x)' = Stage(x) /\ (x \in table' <=> x \in table)
      BY <1>2, <1>3, <1>4, <1>6 DEF Stages
    <2> QED  BY <1>4, <2>1 DEF LivesOn, Lived!vars
  <1> QED  BY <1>5, <1>6

\* What DoClose leaves on the stack, over a guard or not.
LEMMA ClosesOne ==
  ASSUME Inv, NEW c \in Created, NEW rest \in Seq(Frame), PendingOf(rest) = Pending,
         DoClose(c, rest)
  PROVE  Pending' = Pending \cup {c} /\ state' = [state EXCEPT ![c] = "disconnected"]
  <1>1. c \in Conn
    BY CreatedConn DEF Inv
  <1> QED  BY <1>1, ClosingFrames DEF DoClose, Pending

LEMMA GuardOnTop ==
  ASSUME NEW c \in Conn, NEW s \in Seq(Frame)
  PROVE  <<Guard(c)>> \o s \in Seq(Frame) /\ PendingOf(<<Guard(c)>> \o s) = PendingOf(s)
  <1>1. Guard(c) \in Frame /\ Guard(c).do = "guard"
    BY DEF Guard, Frame
  <1> QED  BY <1>1, Push DEF OnTop

LEMMA UserLives ==
  ASSUME Inv, Stages, Stages', UserCalls, NEW x \in Conn
  PROVE  LivesOn(x)
  <1> USE DEF world, conns, owners, loop
  <1>1. CASE Keep
    BY <1>1, Unmoved DEF Keep, Pending
  <1>2. ASSUME NEW c \in Created, LetGo(c) PROVE LivesOn(x)
    BY <1>2, Unmoved DEF LetGo, Pending
  <1>3. ASSUME NEW c \in Created, ForceClose(c) PROVE LivesOn(x)
    <2>1. stack \in Seq(Frame) /\ PendingOf(stack) = Pending
      BY DEF Inv, Lists, Pending
    <2> QED  BY <1>3, <2>1, ClosesOne, Closed DEF ForceClose, ToClose
  <1>4. ASSUME NEW c \in Created, DropClient(c) PROVE LivesOn(x)
    <2>1. CASE Open(c) /\ c \notin held \cup OnStack
      <3>1. DoClose(c, <<Guard(c)>> \o stack) /\ UNCHANGED <<made, addr, table, posted>>
        BY <1>4, <2>1 DEF DropClient
      <3>2. /\ <<Guard(c)>> \o stack \in Seq(Frame)
            /\ PendingOf(<<Guard(c)>> \o stack) = Pending
        BY CreatedConn, GuardOnTop DEF Inv, Lists, Pending
      <3> QED  BY <2>1, <3>1, <3>2, ClosesOne, Closed
    <2>2. CASE ~(Open(c) /\ c \notin held \cup OnStack)
      BY <1>4, <2>2, Unmoved DEF DropClient, Pending
    <2> QED  BY <2>1, <2>2
  <1> QED  BY <1>1, <1>2, <1>3, <1>4 DEF UserCalls

LEMMA Executed ==
  ASSUME Inv, Stages, Stages', ExecuteEvent, NEW x \in Conn
  PROVE  LivesOn(x)
  <1> USE DEF world, conns, owners, loop
  <1>1. PICK c : c = Head(list)
    OBVIOUS
  <1>2. /\ Idle /\ c \in Live
        /\ IF Open(c) THEN HandleRead(c) ELSE UNCHANGED <<state, input, stack>>
        /\ UNCHANGED <<made, addr, table, posted>>
    BY <1>1 DEF ExecuteEvent
  <1>3. c \in Created /\ c \in Conn /\ Pending = {}
    BY <1>2, LiveCreated, CreatedConn, NoFrames DEF Inv, Idle, Pending
  <1>4. CASE Open(c) /\ input[c] = "end"
    <2>1. <<Guard(c)>> \o <<>> = <<Guard(c)>> /\ <<>> \in Seq(Frame)
      OBVIOUS
    <2>2. <<Guard(c)>> \in Seq(Frame) /\ PendingOf(<<Guard(c)>>) = Pending
      BY <1>3, <2>1, GuardOnTop, NoFrames
    <2>3. DoClose(c, <<Guard(c)>>)
      BY <1>2, <1>4 DEF HandleRead
    <2> QED  BY <1>2, <1>3, <1>4, <2>2, <2>3, ClosesOne, Closed
  <1>5. CASE Open(c) /\ input[c] # "end"
    <2>1. stack' = <<Callback(c), Guard(c)>> /\ UNCHANGED state
      BY <1>2, <1>5 DEF HandleRead
    <2>2. Pending' = Pending
      BY <1>3, <2>1, CallbackFrames DEF Pending
    <2> QED  BY <1>2, <2>1, <2>2, Unmoved
  <1>6. CASE ~Open(c)
    BY <1>2, <1>6, Unmoved DEF Pending
  <1> QED  BY <1>4, <1>5, <1>6

LEMMA Accepted ==
  ASSUME Inv, Stages, Stages', AcceptorOnAccept, NEW x \in Conn
  PROVE  LivesOn(x)
  <1> USE DEF world, conns, owners, loop
  <1>1. Idle /\ UNCHANGED posted
    BY DEF AcceptorOnAccept
  <1>2. CASE AcceptFails
    BY <1>1, <1>2, Unmoved DEF AcceptFails, Pending
  <1>3. CASE backlog # <<>> /\ AcceptSucceeds(Min(FreeFds))
    <2>1. PICK f : f = Min(FreeFds)
      OBVIOUS
    <2>2. CASE f <= MaxFd
      <3>1. Establish(made + 1, Head(backlog), f)
        BY <1>3, <2>1, <2>2 DEF AcceptSucceeds, TcpServerOnAccept
      <3>2. made + 1 \in Conn
        <4>1. backlog \in Seq(Peers) /\ made \in Nat /\ made + Len(backlog) <= MaxConns
          BY DEF Inv, Types
        <4>2. Len(backlog) \in Nat \ {0}
          BY <1>3, <4>1, EmptySeq
        <4> QED  BY <4>1, <4>2, BoundAssumption DEF Conn
      <3> QED  BY <1>1, <3>1, <3>2, Opened
    <2>3. CASE ~(f <= MaxFd)
      BY <1>1, <1>3, <2>1, <2>3, Unmoved DEF AcceptSucceeds, Pending
    <2> QED  BY <2>2, <2>3
  <1> QED  BY <1>2, <1>3 DEF AcceptorOnAccept

LEMMA Connected ==
  ASSUME Inv, Stages, Stages', TcpClientOnConnect, NEW x \in Conn
  PROVE  LivesOn(x)
  <1> USE DEF world, conns, owners, loop
  <1>1. /\ Idle /\ made + Len(backlog) < MaxConns /\ UNCHANGED posted
        /\ Establish(made + 1, Nobody, Min(FreeFds))
    BY DEF TcpClientOnConnect
  <1>2. made + 1 \in Conn
    <2>1. made \in Nat /\ Len(backlog) \in Nat
      BY DEF Inv, Types
    <2> QED  BY <1>1, <2>1, BoundAssumption DEF Conn
  <1> QED  BY <1>1, <1>2, Opened

LEMMA Returned ==
  ASSUME Inv, Stages, Stages', Returns, NEW x \in Conn
  PROVE  LivesOn(x)
  <1> USE DEF world, conns, owners, loop
  <1>1. /\ stack # <<>> /\ Head(stack).do # "onclose" /\ stack' = Tail(stack)
        /\ UNCHANGED <<made, addr, state, table, posted>>
    BY DEF Returns, Running, Idle
  <1>2. OnTop(Head(stack), stack', stack)
    BY <1>1, Pop DEF Inv, Lists
  <1>3. Pending' = Pending
    BY <1>1, <1>2 DEF OnTop, Pending
  <1> QED  BY <1>1, <1>3, Unmoved

LEMMA NextLives ==
  ASSUME Inv, Stages, Stages', [Next]_vars, NEW x \in Conn
  PROVE  LivesOn(x)
  <1> USE DEF world, conns, owners, loop
  <1>1. CASE Listen \/ DoTimers \/ EndRound \/ PollEvents \/ World \/ UNCHANGED vars
    <2>1. UNCHANGED <<made, addr, state, table, posted, stack>>
      BY <1>1 DEF Listen, DoTimers, EndRound, PollEvents, World, PeerConnects, PeerGivesUp,
                  PeerSends, vars
    <2> QED  BY <2>1, Unmoved DEF Pending
  <1> QED
    BY <1>1, UserLives, Returned, Told, Accepted, Executed, Destroyed, Connected
       DEF Next, Library

\* Every connection has the one life that TcpEvent gives it, whatever happens to
\* others in the same round (ImplementsLifetimes), under the same condition.
THEOREM LifetimesAgree == ~LetGoListed => (Spec => ImplementsLifetimes)
  <1> SUFFICES ASSUME ~LetGoListed PROVE Spec => ImplementsLifetimes
    OBVIOUS
  <1>1. Init => \A c \in Conn : Lived(c)!Init
    <2> SUFFICES ASSUME Init, NEW c \in Conn PROVE Lived(c)!Init
      OBVIOUS
    <2>1. c \notin Created /\ c \notin table
      BY DEF Init, Created
    <2> QED  BY <2>1 DEF Lived!Init, Stage
  <1>2. Inv /\ Stages /\ Stages' /\ [Next]_vars
          => [\A c \in Conn : Lived(c)!Next \/ UNCHANGED Lived(c)!vars]_vars
    BY NextLives DEF LivesOn
  <1> QED  BY <1>1, <1>2, InvStages, AlwaysInv, PTL DEF Spec, ImplementsLifetimes
====
