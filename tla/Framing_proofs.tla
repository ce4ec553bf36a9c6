--------------------------- MODULE Framing_proofs ---------------------------
(***************************************************************************)
(* Proofs about Framing and MessageAdapter, for any clients, with any      *)
(* number of frames of any length, in all pieces, and for any messages:    *)
(* that converting once is as good as twice, that a reader stays in step   *)
(* with its client, and that the reader of JSON texts finds all of them.   *)
(***************************************************************************)
EXTENDS Framing, SequenceTheorems, FiniteSetTheorems, WellFoundedInduction, TLAPS

-----------------------------------------------------------------------------
(* Places in a stream.                                                     *)

\* A set of natural numbers has a least one, if it has any: the form in which
\* induction is used below.
LEMMA LeastNatural ==
  ASSUME NEW T, T \subseteq Nat, T # {}
  PROVE  \E x \in T : \A y \in T : x <= y
<1> DEFINE R == {p \in Nat \X Nat : p[1] < p[2]}
<1>1. IsWellFoundedOn(R, Nat)
  BY NatLessThanWellFounded DEF OpToRel
<1>2. \A x, y \in Nat : y < x => <<y, x>> \in R
  OBVIOUS
<1> HIDE DEF R
<1>3. PICK x \in T : \A y \in T : ~ (<<y, x>> \in R)
  BY <1>1, WFMin
<1>4. \A y \in T : ~ (y < x)
  BY <1>2, <1>3
<1> QED
  BY <1>4

\* The sums of the first numbers of a list are a function.
LEMMA Sums ==
  ASSUME NEW N \in Nat, NEW L \in [1 .. N -> Nat]
  PROVE  \E e \in [0 .. N -> Nat] :
           e = [i \in 0 .. N |-> IF i = 0 THEN 0 ELSE e[i - 1] + L[i]]
<1> DEFINE Sum(e, n) == /\ e \in [0 .. n -> Nat]
                        /\ \A i \in 0 .. n : e[i] = IF i = 0 THEN 0 ELSE e[i - 1] + L[i]
           Has(n) == \E e : Sum(e, n)
           T == {n \in 0 .. N : ~Has(n)}
<1>1. SUFFICES Has(N)
  <2>1. ASSUME NEW e, Sum(e, N)
        PROVE  /\ e \in [0 .. N -> Nat]
               /\ e = [i \in 0 .. N |-> IF i = 0 THEN 0 ELSE e[i - 1] + L[i]]
    BY <2>1
  <2> HIDE DEF Sum
  <2> QED
    BY <2>1
<1> SUFFICES ASSUME ~Has(N) PROVE FALSE
  OBVIOUS
<1>2. PICK m \in T : \A n \in T : m <= n
  <2> HIDE DEF Has
  <2>1. T \subseteq Nat /\ N \in T
    OBVIOUS
  <2> HIDE DEF T
  <2> QED
    BY <2>1, LeastNatural
<1>3. m # 0
  <2>1. Sum([i \in 0 .. 0 |-> 0], 0)
    OBVIOUS
  <2>2. Has(0)
    BY <2>1
  <2> HIDE DEF Has
  <2> QED
    BY <2>2
<1>4. m \in 0 .. N /\ m - 1 \in 0 .. N /\ ~Has(m) /\ Has(m - 1)
  <2> HIDE DEF Has
  <2>1. m \in 0 .. N /\ ~Has(m) /\ m - 1 \in 0 .. N
    BY <1>2, <1>3
  <2>2. m - 1 \notin T
    BY <1>2, <2>1
  <2> QED
    BY <2>1, <2>2
<1>5. PICK e : Sum(e, m - 1)
  BY <1>4
<1> DEFINE h == [i \in 0 .. m |-> IF i = m THEN e[m - 1] + L[m] ELSE e[i]]
<1>6. Sum(h, m)
  <2>1. L[m] \in Nat /\ e[m - 1] \in Nat
    BY <1>3, <1>4, <1>5
  <2>2. ASSUME NEW i \in 0 .. m
        PROVE  h[i] \in Nat /\ h[i] = IF i = 0 THEN 0 ELSE h[i - 1] + L[i]
    <3>1. CASE i = m
      <4>1. m - 1 # m /\ m - 1 \in 0 .. m
        BY <1>3, <1>4
      <4>2. h[m] = e[m - 1] + L[m] /\ h[m - 1] = e[m - 1]
        BY <4>1
      <4> QED
        BY <1>3, <2>1, <3>1, <4>2
    <3>2. CASE i # m
      <4>1. i \in 0 .. m - 1 /\ h[i] = e[i]
        BY <1>4, <3>2
      <4>2. i # 0 => i - 1 \in 0 .. m /\ i - 1 # m /\ h[i - 1] = e[i - 1]
        BY <1>4, <3>2
      <4> HIDE DEF h
      <4> QED
        BY <1>5, <4>1, <4>2
    <3> QED
      BY <3>1, <3>2
  <2>3. h \in [0 .. m -> Nat]
    BY <2>2
  <2> HIDE DEF h
  <2> QED
    BY <2>2, <2>3
<1>7. Has(m)
  BY <1>6
<1> QED
  BY <1>4, <1>7

\* The frames of a client are a sequence, and so is the body of each.
LEMMA FramesType ==
  ASSUME NEW c \in Clients
  PROVE  /\ c.kind \in ConnKinds /\ c.eager \in BOOLEAN
         /\ Len(c.frames) \in Nat /\ DOMAIN c.frames = 1 .. Len(c.frames)
         /\ \A i \in 1 .. Len(c.frames) :
              /\ c.frames[i].proto \in {"json", "protobuf", "none"}
              /\ c.kind = "old_tcp" => c.frames[i].proto # "protobuf"
              /\ c.frames[i].msg \in Message
              /\ c.frames[i].body \in Seq(Nat)
              /\ Len(c.frames[i].body) \in Nat
              /\ DOMAIN c.frames[i].body = 1 .. Len(c.frames[i].body)
              /\ c.frames[i].body = << >> <=> Len(c.frames[i].body) = 0
              /\ c.frames[i].proto = "none" =>
                   \A k \in 1 .. Len(c.frames[i].body) : c.frames[i].body[k] \notin Marks(c.kind)
<1>1. /\ c.kind \in ConnKinds /\ c.eager \in BOOLEAN /\ c.frames \in Seq(Frame)
      /\ \A i \in DOMAIN c.frames :
           /\ c.kind = "old_tcp" => c.frames[i].proto # "protobuf"
           /\ c.frames[i].proto = "none" =>
                \A k \in DOMAIN c.frames[i].body : c.frames[i].body[k] \notin Marks(c.kind)
  BY ClientsAssumption
<1>2. Len(c.frames) \in Nat /\ DOMAIN c.frames = 1 .. Len(c.frames)
  BY <1>1
<1>3. ASSUME NEW i \in 1 .. Len(c.frames)
      PROVE  /\ c.frames[i].proto \in {"json", "protobuf", "none"}
             /\ c.frames[i].msg \in Message
             /\ c.frames[i].body \in Seq(Nat)
             /\ Len(c.frames[i].body) \in Nat
             /\ DOMAIN c.frames[i].body = 1 .. Len(c.frames[i].body)
             /\ c.frames[i].body = << >> <=> Len(c.frames[i].body) = 0
  <2>1. c.frames[i] \in Frame
    BY <1>1
  <2>2. ASSUME NEW s \in Seq(0 .. 255) PROVE s \in Seq(Nat)
    <3> DEFINE B == 0 .. 255
    <3>1. B \subseteq Nat /\ s \in Seq(B)
      OBVIOUS
    <3> HIDE DEF B
    <3>2. PICK n \in Nat : s \in [1 .. n -> B]
      BY <3>1, SeqDef
    <3>3. s \in [1 .. n -> Nat]
      BY <3>1, <3>2
    <3> QED
      BY <3>3, SeqDef
  <2>3. c.frames[i].body \in Seq(Nat)
    BY <2>1, <2>2 DEF Frame
  <2> QED
    BY <2>1, <2>3 DEF Frame
<1> QED
  BY <1>1, <1>2, <1>3

\* A sequence with something in front and behind it, and with two in front.
LEMMA Wrapped ==
  ASSUME NEW S, NEW s \in Seq(S), NEW a, NEW b
  PROVE  /\ Len(<<a>> \o s \o <<b>>) = Len(s) + 2
         /\ (<<a>> \o s \o <<b>>)[1] = a
         /\ (<<a>> \o s \o <<b>>)[Len(s) + 2] = b
         /\ Len(<<a, b>> \o s) = Len(s) + 2
         /\ (<<a, b>> \o s)[1] = a
         /\ (<<a, b>> \o s)[2] = b
<1> DEFINE T == S \cup {a, b}
<1>1. s \in Seq(T) /\ a \in T /\ b \in T
  OBVIOUS
<1> HIDE DEF T
<1>2. <<a>> \in Seq(T) /\ <<b>> \in Seq(T) /\ <<a, b>> \in Seq(T)
  BY <1>1
<1> DEFINE front == <<a>> \o s
<1>3. front \in Seq(T) /\ Len(front) = Len(s) + 1 /\ front[1] = a
  BY <1>1, <1>2
<1> HIDE DEF front
<1>4. Len(front \o <<b>>) = Len(s) + 2 /\ (front \o <<b>>)[1] = a /\ (front \o <<b>>)[Len(s) + 2] = b
  BY <1>1, <1>2, <1>3
<1>5. Len(<<a, b>> \o s) = Len(s) + 2 /\ (<<a, b>> \o s)[1] = a /\ (<<a, b>> \o s)[2] = b
  BY <1>1, <1>2
<1> QED
  BY <1>4, <1>5 DEF front

\* How many units a frame is, and which.
LEMMA UnitsOfFrame ==
  ASSUME NEW c \in Clients, NEW i \in 1 .. Len(c.frames)
  PROVE  LET f == c.frames[i]
             u == FrameBytes(c, f)
             n == Len(f.body)
         IN  /\ Len(u) = IF f.proto = "none" THEN n ELSE n + 2
             /\ f.proto = "none" => u = f.body
             /\ f.proto # "none" /\ c.kind = "old_tcp" =>
                  u[1] = Open /\ u[n + 2] = Close
             /\ f.proto # "none" /\ c.kind # "old_tcp" => u[1] = Flags[f.proto] /\ u[2] = n
<1> DEFINE f == c.frames[i]
           n == Len(f.body)
<1>2. f.body \in Seq(Nat) /\ n \in Nat
  BY FramesType
<1> HIDE DEF f
<1>3. CASE f.proto = "none"
  BY <1>3 DEF FrameBytes, f
<1>4. CASE f.proto # "none" /\ c.kind = "old_tcp"
  <2>1. FrameBytes(c, f) = <<Open>> \o f.body \o <<Close>>
    BY <1>4 DEF FrameBytes
  <2>2. LET w == FrameBytes(c, f) IN Len(w) = n + 2 /\ w[1] = Open /\ w[n + 2] = Close
    BY <1>2, <2>1, Wrapped
  <2> QED
    BY <1>4, <2>2 DEF f
<1>5. CASE f.proto # "none" /\ c.kind # "old_tcp"
  <2>1. FrameBytes(c, f) = <<Flags[f.proto], n>> \o f.body
    BY <1>5 DEF FrameBytes
  <2>2. LET w == FrameBytes(c, f) IN Len(w) = n + 2 /\ w[1] = Flags[f.proto] /\ w[2] = n
    BY <1>2, <2>1, Wrapped
  <2> QED
    BY <1>5, <2>2 DEF f
<1> QED
  BY <1>3, <1>4, <1>5

\* Where the frames end: each so many units behind the one before it.
LEMMA Sizes ==
  ASSUME NEW c \in Clients
  PROVE  LET N == Len(c.frames)
         IN  /\ FrameEnd[c] \in [0 .. N -> Nat]
             /\ FrameEnd[c][0] = 0
             /\ \A i \in 1 .. N : /\ FrameEnd[c][i] = FrameEnd[c][i - 1] + Len(FrameBytes(c, c.frames[i]))
                                  /\ Len(FrameBytes(c, c.frames[i])) \in Nat
<1> DEFINE N == Len(c.frames)
           L == [i \in 1 .. N |-> Len(FrameBytes(c, c.frames[i]))]
<1>1. N \in Nat /\ \A i \in 1 .. N : Len(FrameBytes(c, c.frames[i])) \in Nat
  <2>1. N \in Nat /\ \A i \in 1 .. N : Len(c.frames[i].body) \in Nat
    BY FramesType
  <2>2. ASSUME NEW i \in 1 .. N
        PROVE  Len(FrameBytes(c, c.frames[i])) \in
                 {Len(c.frames[i].body), Len(c.frames[i].body) + 2}
    BY UnitsOfFrame
  <2> HIDE DEF N
  <2> QED
    BY <2>1, <2>2
<1>2. L \in [1 .. N -> Nat]
  BY <1>1
<1>3. PICK e \in [0 .. N -> Nat] : e = [i \in 0 .. N |-> IF i = 0 THEN 0 ELSE e[i - 1] + L[i]]
  <2> HIDE DEF N, L
  <2> QED
    BY <1>1, <1>2, Sums
<1>4. e = [i \in 0 .. N |-> IF i = 0 THEN 0 ELSE e[i - 1] + Len(FrameBytes(c, c.frames[i]))]
  <2>1. \A i \in 0 .. N : i # 0 => L[i] = Len(FrameBytes(c, c.frames[i]))
    BY <1>1
  <2> HIDE DEF L, N
  <2> QED
    BY <1>3, <2>1
<1>5. FrameEnd[c] = CHOOSE end : end = [i \in 0 .. N |-> IF i = 0 THEN 0 ELSE end[i - 1] + Len(FrameBytes(c, c.frames[i]))]
  BY DEF FrameEnd
<1>6. FrameEnd[c] = [i \in 0 .. N |-> IF i = 0 THEN 0 ELSE FrameEnd[c][i - 1] + Len(FrameBytes(c, c.frames[i]))]
  <2> HIDE DEF N
  <2> QED
    BY <1>4, <1>5, Zenon
<1>7. FrameEnd[c] \in [0 .. N -> Nat]
  <2> DEFINE g == FrameEnd[c]
             T == {i \in 0 .. N : g[i] \notin Nat}
             M(i) == Len(FrameBytes(c, c.frames[i]))
  <2>6. g = [i \in 0 .. N |-> g[i]]
    <3> HIDE DEF N
    <3> QED
      BY <1>6
  <2>1. g[0] = 0 /\ \A i \in 1 .. N : g[i] = g[i - 1] + M(i)
    <3>1. N \in Nat
      BY <1>1
    <3> HIDE DEF N
    <3> QED
      BY <1>6, <3>1
  <2>5. N \in Nat /\ \A i \in 1 .. N : M(i) \in Nat
    BY <1>1
  <2> HIDE DEF N, g, M
  <2>2. ASSUME T # {} PROVE FALSE
    <3>1. PICK m \in T : \A i \in T : m <= i
      <4>1. T \subseteq Nat
        BY <1>1
      <4> HIDE DEF T
      <4> QED
        BY <2>2, <4>1, LeastNatural
    <3>2. m \in 0 .. N /\ g[m] \notin Nat
      OBVIOUS
    <3>3. m \in 1 .. N
      BY <2>1, <2>5, <3>2
    <3>4. m - 1 \in 0 .. N /\ m - 1 \notin T
      BY <2>5, <3>1, <3>3
    <3>5. g[m - 1] \in Nat
      BY <3>4
    <3> QED
      BY <2>1, <2>5, <3>2, <3>3, <3>5
  <2>3. \A i \in 0 .. N : g[i] \in Nat
    BY <2>2
  <2>4. g \in [0 .. N -> Nat]
    BY <2>3, <2>6
  <2> QED
    BY <2>4 DEF g
<1> QED
  BY <1>1, <1>6, <1>7

\* Later frames do not end before earlier ones.
LEMMA Increasing ==
  ASSUME NEW c \in Clients, NEW i \in 0 .. Len(c.frames), NEW j \in i .. Len(c.frames)
  PROVE  FrameEnd[c][i] <= FrameEnd[c][j]
<1> DEFINE N == Len(c.frames)
           g == FrameEnd[c]
           T == {k \in i .. N : ~(g[i] <= g[k])}
<1>1. /\ N \in Nat /\ g \in [0 .. N -> Nat]
      /\ \A k \in 1 .. N : \E l \in Nat : g[k] = g[k - 1] + l
  BY FramesType, Sizes
<1>2. i \in 0 .. N /\ j \in i .. N
  OBVIOUS
<1> HIDE DEF N, g
<1>3. SUFFICES ASSUME T # {} PROVE FALSE
  BY <1>2 DEF N, g
<1>4. PICK m \in T : \A k \in T : m <= k
  <2>1. T \subseteq Nat
    BY <1>1, <1>2
  <2> HIDE DEF T
  <2> QED
    BY <1>3, <2>1, LeastNatural
<1>5. m \in i .. N /\ ~(g[i] <= g[m])
  OBVIOUS
<1>6. m # i
  BY <1>1, <1>2, <1>5
<1>7. m - 1 \in i .. N /\ m - 1 \notin T
  BY <1>1, <1>2, <1>4, <1>5, <1>6
<1>8. g[i] <= g[m - 1]
  BY <1>7
<1>9. PICK l \in Nat : g[m] = g[m - 1] + l
  BY <1>1, <1>2, <1>5, <1>6
<1> QED
  BY <1>1, <1>2, <1>5, <1>7, <1>8, <1>9

\* Every unit belongs to a frame.
LEMMA Covered ==
  ASSUME NEW c \in Clients, NEW p \in 1 .. FrameEnd[c][Len(c.frames)]
  PROVE  \E i \in 1 .. Len(c.frames) : FrameEnd[c][i - 1] < p /\ p <= FrameEnd[c][i]
<1> DEFINE N == Len(c.frames)
           g == FrameEnd[c]
           T == {k \in 0 .. N : p <= g[k]}
<1>1. N \in Nat /\ g \in [0 .. N -> Nat] /\ g[0] = 0
  BY FramesType, Sizes
<1>2. p \in 1 .. g[N]
  OBVIOUS
<1> HIDE DEF N, g
<1>3. PICK m \in T : \A k \in T : m <= k
  <2>1. T \subseteq Nat /\ N \in T
    BY <1>1, <1>2
  <2> HIDE DEF T
  <2> QED
    BY <2>1, LeastNatural
<1>4. m \in 0 .. N /\ p <= g[m] /\ m # 0
  BY <1>1, <1>2
<1>5. m - 1 \in 0 .. N /\ m - 1 \notin T
  BY <1>1, <1>3, <1>4
<1>6. m \in 1 .. N /\ g[m - 1] < p
  BY <1>1, <1>2, <1>4, <1>5
<1> QED
  BY <1>4, <1>6 DEF N, g

\* The frames of the connection's client and their places.
LEMMA Layout ==
  ASSUME client \in Clients
  PROVE  /\ Len(client.frames) \in Nat /\ Frames = 1 .. Len(client.frames)
         /\ Total \in Nat
         /\ \A i \in Frames : /\ Begin(i) \in Nat /\ End(i) \in Nat
                              /\ Begin(i) <= End(i) /\ End(i) <= Total
         /\ \A i, j \in Frames : i < j => End(i) <= Begin(j)
         /\ \A p \in 1 .. Total : \E i \in Frames : Begin(i) < p /\ p <= End(i)
<1> DEFINE N == Len(client.frames)
           g == FrameEnd[client]
<1>1. N \in Nat /\ Frames = 1 .. N /\ g \in [0 .. N -> Nat]
  BY FramesType, Sizes DEF Frames
<1>2. \A i \in 0 .. N, j \in 0 .. N : i <= j => g[i] <= g[j]
  <2>1. ASSUME NEW i \in 0 .. N, NEW j \in 0 .. N, i <= j
        PROVE  j \in i .. N
    BY <1>1, <2>1
  <2> QED
    BY <2>1, Increasing
<1>3. \A p \in 1 .. g[N] : \E i \in 1 .. N : g[i - 1] < p /\ p <= g[i]
  BY Covered
<1> HIDE DEF N, g
<1>4. ASSUME NEW i \in 1 .. N
      PROVE  g[i - 1] \in Nat /\ g[i] \in Nat /\ g[i - 1] <= g[i] /\ g[i] <= g[N]
  <2>1. i - 1 \in 0 .. N /\ i \in 0 .. N /\ N \in 0 .. N /\ i - 1 <= i /\ i <= N
    BY <1>1
  <2> QED
    BY <1>1, <1>2, <2>1
<1>5. ASSUME NEW i \in 1 .. N, NEW j \in 1 .. N, i < j
      PROVE  g[i] <= g[j - 1]
  <2>1. i \in 0 .. N /\ j - 1 \in 0 .. N /\ i <= j - 1
    BY <1>1, <1>5
  <2> QED
    BY <1>2, <2>1
<1>6. g[N] \in Nat
  BY <1>1
<1>7. Total = g[N] /\ \A i : Begin(i) = g[i - 1] /\ End(i) = g[i]
  BY DEF Total, Begin, End, g, N
<1>8. Len(client.frames) = N
  BY DEF N
<1> QED
  BY <1>1, <1>3, <1>4, <1>5, <1>6, <1>7, <1>8

\* A unit belongs to one frame, and its place in that says which one it is.
LEMMA ByteOf ==
  ASSUME client \in Clients, NEW i \in Frames, NEW p \in Begin(i) + 1 .. End(i)
  PROVE  /\ p \in 1 .. Total
         /\ Byte(p) = FrameBytes(client, client.frames[i])[p - Begin(i)]
         /\ \A j \in Frames : Begin(j) < p /\ p <= End(j) => j = i
<1>1. /\ Begin(i) \in Nat /\ End(i) \in Nat /\ Total \in Nat /\ End(i) <= Total
      /\ p \in Int /\ Begin(i) < p /\ p <= End(i)
  BY Layout
<1>2. p \in 1 .. Total
  BY <1>1
<1>3. ASSUME NEW j \in Frames, Begin(j) < p, p <= End(j)
      PROVE  j = i
  <2>1. /\ i \in Int /\ j \in Int /\ Begin(j) \in Nat /\ End(j) \in Nat
        /\ i < j => End(i) <= Begin(j)
        /\ j < i => End(j) <= Begin(i)
    BY Layout
  <2> QED
    BY <1>1, <1>3, <2>1
<1>4. Byte(p) = LET k == CHOOSE k \in Frames : Begin(k) < p /\ p <= End(k)
                IN  FrameBytes(client, client.frames[k])[p - Begin(k)]
  BY <1>2 DEF Byte, Wire, Begin, End, Total, Frames
<1>5. (CHOOSE k \in Frames : Begin(k) < p /\ p <= End(k)) = i
  BY <1>1, <1>3
<1> QED
  BY <1>2, <1>3, <1>4, <1>5

\* What a frame looks like in the stream.
LEMMA Shape ==
  ASSUME client \in Clients, NEW i \in Frames
  PROVE  LET f == client.frames[i]
             n == Len(f.body)
         IN  /\ f.proto \in {"json", "protobuf", "none"} /\ n \in Nat /\ f.msg \in Message
             /\ f.body = << >> <=> n = 0
             /\ f.proto = "none" => /\ End(i) = Begin(i) + n
                                    /\ \A p \in Begin(i) + 1 .. End(i) : Byte(p) \notin Marks(client.kind)
             /\ f.proto # "none" => End(i) = Begin(i) + n + 2
             /\ f.proto # "none" /\ client.kind = "old_tcp" =>
                  f.proto = "json" /\ Byte(Begin(i) + 1) = Open /\ Byte(End(i)) = Close
             /\ f.proto # "none" /\ client.kind # "old_tcp" =>
                  Byte(Begin(i) + 1) = Flags[f.proto] /\ Byte(Begin(i) + 2) = n
<1> DEFINE f == client.frames[i]
           n == Len(f.body)
           u == FrameBytes(client, f)
<1>1. /\ f.proto \in {"json", "protobuf", "none"} /\ n \in Nat /\ f.msg \in Message
      /\ f.body = << >> <=> n = 0
      /\ client.kind = "old_tcp" => f.proto # "protobuf"
      /\ f.proto = "none" => \A k \in 1 .. n : f.body[k] \notin Marks(client.kind)
  BY Layout, FramesType
<1>2. /\ Len(u) = IF f.proto = "none" THEN n ELSE n + 2
      /\ f.proto = "none" => u = f.body
      /\ f.proto # "none" /\ client.kind = "old_tcp" => u[1] = Open /\ u[n + 2] = Close
      /\ f.proto # "none" /\ client.kind # "old_tcp" => u[1] = Flags[f.proto] /\ u[2] = n
  BY Layout, UnitsOfFrame
<1>3. Begin(i) \in Nat /\ End(i) = Begin(i) + Len(u)
  BY Layout, Sizes DEF Begin, End
<1>4. \A p \in Begin(i) + 1 .. End(i) : Byte(p) = u[p - Begin(i)]
  BY ByteOf
<1> HIDE DEF f, n, u
<1>5. CASE f.proto = "none"
  <2>1. End(i) = Begin(i) + n
    BY <1>1, <1>2, <1>3, <1>5
  <2>2. ASSUME NEW p \in Begin(i) + 1 .. End(i)
        PROVE  Byte(p) \notin Marks(client.kind)
    <3>1. p - Begin(i) \in 1 .. n
      BY <1>1, <1>3, <2>1
    <3> QED
      BY <1>1, <1>2, <1>4, <1>5, <3>1
  <2> QED
    BY <1>1, <1>5, <2>1, <2>2 DEF f, n
<1>6. CASE f.proto # "none"
  <2>1. End(i) = Begin(i) + n + 2
    <3>1. Len(u) = n + 2
      BY <1>2, <1>6
    <3> QED
      BY <1>1, <1>3, <3>1
  <2>2. /\ Begin(i) + 1 \in Begin(i) + 1 .. End(i) /\ Begin(i) + 2 \in Begin(i) + 1 .. End(i)
        /\ End(i) \in Begin(i) + 1 .. End(i)
        /\ (Begin(i) + 1) - Begin(i) = 1 /\ (Begin(i) + 2) - Begin(i) = 2
        /\ End(i) - Begin(i) = n + 2
    BY <1>1, <1>3, <2>1
  <2>3. Byte(Begin(i) + 1) = u[1] /\ Byte(Begin(i) + 2) = u[2] /\ Byte(End(i)) = u[n + 2]
    BY <1>4, <2>2
  <2> QED
    BY <1>1, <1>2, <1>6, <2>1, <2>3 DEF f, n
<1> QED
  BY <1>5, <1>6

-----------------------------------------------------------------------------
(* A message that goes through Redis is encoded and decoded once more than *)
(* one that stays on its server: what the conversions of MessageAdapter    *)
(* keep, for every message.                                                *)

\* A type is turned into one of the names that stay what they are.
LEMMA TypeNormal ==
  ASSUME NEW name \in Names
  PROVE  /\ stringToMessageType(name) \in Names
         /\ stringToMessageType(stringToMessageType(name)) = stringToMessageType(name)
BY NamesAssumption DEF stringToMessageType, TypeNames

\* So is a status.
LEMMA StatusNormal ==
  ASSUME NEW name \in Names
  PROVE  /\ stringToMessageStatus(name) \in Names
         /\ stringToMessageStatus(stringToMessageStatus(name)) = stringToMessageStatus(name)
BY NamesAssumption DEF stringToMessageStatus, StatusNames

\* A number between -H and H - 1 is its own remainder, shifted by H.
LEMMA CodeNormal ==
  ASSUME NEW code \in Int
  PROVE  Int32(code) \in Int /\ Int32(Int32(code)) = Int32(code)
<1> DEFINE r == (code + HalfRange) % (2 * HalfRange)
<1>1. HalfRange \in Int /\ HalfRange > 0
  BY RangeAssumption
<1>2. r \in Int /\ 0 <= r /\ r < 2 * HalfRange
  BY <1>1
<1>3. (r - HalfRange) + HalfRange = r
  BY <1>1, <1>2
<1>4. r % (2 * HalfRange) = r
  <2> HIDE DEF r
  <2> QED  BY <1>1, <1>2
<1> QED  BY <1>1, <1>2, <1>3, <1>4 DEF Int32

\* The details of an error are kept by a second conversion, and an error without
\* text and details is none both times.
LEMMA ErrorNormal ==
  ASSUME NEW error \in [message : Texts, details : Details]
  PROVE  /\ ErrorOf(ErrorInfo(error)) \in [message : Texts, details : Texts \cup {Nil}]
         /\ ErrorOf(ErrorInfo(ErrorOf(ErrorInfo(error)))) = ErrorOf(ErrorInfo(error))
<1> DEFINE text == DetailsText(error.details)
<1>0. error.message \in Texts /\ error.details \in Details
  OBVIOUS
<1>1. text \in Texts /\ (error.details # Nil => error.details \in Texts \cup Objects)
  BY <1>0, DetailsAssumption DEF DetailsText, Details
<1> HIDE DEF text
<1>2. CASE error.message = Blank /\ error.details = Nil
  <2>1. ErrorInfo(error) = Nil
    BY <1>2 DEF ErrorInfo
  <2>2. ErrorOf(Nil) = [message |-> Blank, details |-> Nil]
    BY DEF ErrorOf
  <2>3. ErrorInfo([message |-> Blank, details |-> Nil]) = Nil
    BY DEF ErrorInfo
  <2> QED  BY <2>1, <2>2, <2>3, DetailsAssumption
<1>3. CASE ~(error.message = Blank /\ error.details = Nil)
  <2> DEFINE info == [message |-> error.message, details |-> text]
             once == [message |-> error.message, details |-> IF text = Blank THEN Nil ELSE text]
  <2>1. ErrorInfo(error) = info
    BY <1>3 DEF ErrorInfo, text
  <2>2. ErrorOf(info) = once
    <3>1. info # Nil
      BY <1>0, <1>1, DetailsAssumption
    <3> QED  BY <3>1 DEF ErrorOf
  <2>3. once \in [message : Texts, details : Texts \cup {Nil}]
    BY <1>0, <1>1
  <2>4. ErrorOf(ErrorInfo(once)) = once
    <3>1. CASE error.message = Blank /\ text = Blank
      <4>1. once = [message |-> Blank, details |-> Nil]
        BY <3>1
      <4>2. ErrorInfo(once) = Nil
        BY <4>1 DEF ErrorInfo
      <4> QED  BY <4>1, <4>2 DEF ErrorOf
    <3>2. CASE ~(error.message = Blank /\ text = Blank)
      <4>1. ErrorInfo(once) = [message |-> error.message, details |-> text]
        BY <1>1, <3>2, DetailsAssumption DEF ErrorInfo, DetailsText
      <4> QED  BY <4>1, <2>2
    <3> QED  BY <3>1, <3>2
  <2> QED  BY <2>1, <2>2, <2>3, <2>4
<1> QED  BY <1>2, <1>3

\* What the other end reads, field by field.
LEMMA PassedFields ==
  ASSUME NEW m
  PROVE  LET meta == IF m.metadata = NoEntries THEN Nil ELSE m.metadata
         IN  /\ Passed(m, "protobuf") =
                  [type |-> stringToMessageType(m.type), status |-> stringToMessageStatus(m.status),
                   code |-> Int32(m.code), recipient |-> m.recipient,
                   conversation |-> m.conversation,
                   error |-> ErrorOf(ErrorInfo(m.error)), metadata |-> meta]
             /\ Passed(m, "json") =
                  [type |-> m.type, status |-> m.status, code |-> m.code, recipient |-> m.recipient,
                   conversation |-> m.conversation, error |-> m.error, metadata |-> meta]
BY DEF Passed, SerializeMessage, DeserializeMessage, OnWire, JSONToProtobuf, ProtobufToJSON,
   messageTypeToString, messageStatusToString

\* Converting once is as good as converting twice, and JSON, in which a message
\* also goes through Redis, takes nothing from a message that protobuf leaves:
\* whatever the way of a message, all who receive protobuf decode the same.
THEOREM ConvertedOnce ==
  ASSUME NEW m \in Message
  PROVE  /\ Passed(Passed(m, "protobuf"), "protobuf") = Passed(m, "protobuf")
         /\ Passed(Passed(m, "protobuf"), "json") = Passed(m, "protobuf")
         /\ Passed(Passed(m, "json"), "protobuf") = Passed(m, "protobuf")
         /\ Passed(Passed(m, "json"), "json") = Passed(m, "json")
<1> DEFINE meta == IF m.metadata = NoEntries THEN Nil ELSE m.metadata
           once == [type |-> stringToMessageType(m.type),
                    status |-> stringToMessageStatus(m.status),
                    code |-> Int32(m.code), recipient |-> m.recipient,
                    conversation |-> m.conversation,
                    error |-> ErrorOf(ErrorInfo(m.error)), metadata |-> meta]
<1>1. /\ m.type \in Names /\ m.status \in Names /\ m.code \in Int
      /\ m.error \in [message : Texts, details : Details]
  BY DEF Message
<1>2. meta # NoEntries
  BY DetailsAssumption
<1>3. Passed(m, "protobuf") = once
  BY DEF Passed, SerializeMessage, DeserializeMessage, OnWire, JSONToProtobuf, ProtobufToJSON,
     messageTypeToString, messageStatusToString
<1>4. Passed(once, "protobuf") = once
  <2> HIDE DEF meta
  <2> QED
    BY <1>1, <1>2, TypeNormal, StatusNormal, CodeNormal, ErrorNormal
    DEF Passed, SerializeMessage, DeserializeMessage, OnWire, JSONToProtobuf, ProtobufToJSON,
        messageTypeToString, messageStatusToString
<1>5. Passed(once, "json") = once
  BY <1>2 DEF Passed, SerializeMessage, DeserializeMessage, OnWire
<1>6. Passed(Passed(m, "json"), "protobuf") = once
  <2> DEFINE plain == [type |-> m.type, status |-> m.status, code |-> m.code,
                       recipient |-> m.recipient, conversation |-> m.conversation,
                       error |-> m.error, metadata |-> meta]
  <2>1. Passed(m, "json") = plain
    BY DEF Passed, SerializeMessage, DeserializeMessage, OnWire
  <2>2. Passed(plain, "protobuf") = once
    <3> HIDE DEF meta
    <3> QED
      BY <1>2 DEF Passed, SerializeMessage, DeserializeMessage, OnWire, JSONToProtobuf,
         ProtobufToJSON, messageTypeToString, messageStatusToString
  <2> QED  BY <2>1, <2>2
<1>7. Passed(Passed(m, "json"), "json") = Passed(m, "json")
  BY <1>2 DEF Passed, SerializeMessage, DeserializeMessage, OnWire
<1> QED  BY <1>3, <1>4, <1>5, <1>6, <1>7

\* A message is one after its passage, too.
LEMMA PassedType ==
  ASSUME NEW m \in Message, NEW p \in {"json", "protobuf"}
  PROVE  Passed(m, p) \in Message
<1> DEFINE meta == IF m.metadata = NoEntries THEN Nil ELSE m.metadata
<1>1. /\ m.type \in Names /\ m.status \in Names /\ m.code \in Int
      /\ m.recipient \in Texts /\ m.conversation \in Texts
      /\ m.error \in [message : Texts, details : Details]
      /\ meta \in Maps \cup {NoEntries, Nil}
  BY DEF Message
<1>2. CASE p = "protobuf"
  <2>1. Passed(m, p) = [type |-> stringToMessageType(m.type),
                    status |-> stringToMessageStatus(m.status),
                    code |-> Int32(m.code), recipient |-> m.recipient,
                    conversation |-> m.conversation,
                    error |-> ErrorOf(ErrorInfo(m.error)), metadata |-> meta]
    BY <1>2, PassedFields
  <2>2. ErrorOf(ErrorInfo(m.error)) \in [message : Texts, details : Details]
    BY <1>1, ErrorNormal DEF Details
  <2> HIDE DEF meta
  <2> QED
    BY <1>1, <2>1, <2>2, TypeNormal, StatusNormal, CodeNormal DEF Message
<1>3. CASE p = "json"
  <2>1. Passed(m, p) = [type |-> m.type, status |-> m.status, code |-> m.code,
                       recipient |-> m.recipient, conversation |-> m.conversation,
                       error |-> m.error, metadata |-> meta]
    BY <1>3, PassedFields
  <2> HIDE DEF meta
  <2> QED
    BY <1>1, <2>1 DEF Message
<1> QED
  BY <1>2, <1>3

\* A conversation passes unchanged, whichever it is.
LEMMA ConversationPasses ==
  ASSUME NEW m \in Message, NEW t \in Texts, NEW p \in {"json", "protobuf"}
  PROVE  /\ [m EXCEPT !.conversation = t] \in Message
         /\ Passed([m EXCEPT !.conversation = t], p) = [Passed(m, p) EXCEPT !.conversation = t]
<1> DEFINE n == [type |-> m.type, status |-> m.status, code |-> m.code, recipient |-> m.recipient,
                 conversation |-> t, error |-> m.error, metadata |-> m.metadata]
<1>1. [m EXCEPT !.conversation = t] = n /\ n \in Message
  BY DEF Message
<1>2. /\ n.type = m.type /\ n.status = m.status /\ n.code = m.code /\ n.recipient = m.recipient
      /\ n.conversation = t /\ n.error = m.error /\ n.metadata = m.metadata
  OBVIOUS
<1> HIDE DEF n
<1> DEFINE meta == IF m.metadata = NoEntries THEN Nil ELSE m.metadata
<1>3. Passed(n, "json") = [Passed(m, "json") EXCEPT !.conversation = t]
  <2> DEFINE r(c) == [type |-> m.type, status |-> m.status, code |-> m.code, recipient |-> m.recipient,
                     conversation |-> c, error |-> m.error, metadata |-> meta]
  <2>1. Passed(m, "json") = r(m.conversation)
    BY PassedFields
  <2>2. Passed(n, "json") = r(t)
    BY <1>2, PassedFields
  <2>3. [r(m.conversation) EXCEPT !.conversation = t] = r(t)
    OBVIOUS
  <2> QED
    BY <2>1, <2>2, <2>3
<1>4. Passed(n, "protobuf") = [Passed(m, "protobuf") EXCEPT !.conversation = t]
  <2> DEFINE r(c) == [type |-> stringToMessageType(m.type), status |-> stringToMessageStatus(m.status),
                     code |-> Int32(m.code), recipient |-> m.recipient, conversation |-> c,
                     error |-> ErrorOf(ErrorInfo(m.error)), metadata |-> meta]
  <2>1. Passed(m, "protobuf") = r(m.conversation)
    BY PassedFields
  <2>2. Passed(n, "protobuf") = r(t)
    BY <1>2, PassedFields
  <2>3. [r(m.conversation) EXCEPT !.conversation = t] = r(t)
    OBVIOUS
  <2> QED
    BY <2>1, <2>2, <2>3
<1> QED
  BY <1>1, <1>3, <1>4

-----------------------------------------------------------------------------
(* All who receive a message decode the same of it.                        *)

Entry == [frame : Nat, msg : Message]
Answer == [frame : Nat, text : {"pong", "error"}]

\* What is passed on as the message of a frame is that, but for its conversation.
IsOf(e) ==
  e.frame # 0 =>
    /\ e.frame \in Frames /\ client.frames[e.frame].proto \in {"json", "protobuf"}
    /\ e.msg = [Passed(client.frames[e.frame].msg, client.frames[e.frame].proto)
                  EXCEPT !.conversation = e.msg.conversation]

\* What has been sent is the message that was passed on, which may have passed
\* through Redis.
IsFrom(w, e) ==
  /\ w.proto \in {"json", "protobuf"}
  /\ \E m \in {e.msg, Passed(e.msg, "json")} : w.data = SerializeMessage(m, w.proto)

FrameInv ==
  /\ client \in Clients
  /\ out \in Seq(Entry) /\ \A k \in DOMAIN out : IsOf(out[k])
  /\ replies \in Seq(Answer)
  /\ Len(written) \in Nat /\ DOMAIN written = 1 .. Len(written) /\ Len(written) <= Len(out)
  /\ \A k \in 1 .. Len(written) : IsFrom(written[k], out[k])

\* A message without fields is one, and is not passed on.
LEMMA EmptyType ==
  /\ Empty \in Message /\ [Empty EXCEPT !.type = "status"] \in Message
  /\ Stamped(Empty) = Empty /\ Stamped([Empty EXCEPT !.type = "status"]) = [Empty EXCEPT !.type = "status"]
<1>1. "unknown" \in Names /\ "status" \in Names /\ Blank \in Texts
  BY NamesAssumption, DetailsAssumption DEF TypeNames
<1> DEFINE E == [type |-> "unknown", status |-> "unknown", code |-> 0, recipient |-> Blank,
                 conversation |-> Blank, error |-> [message |-> Blank, details |-> Nil], metadata |-> Nil]
           S == [type |-> "status", status |-> "unknown", code |-> 0, recipient |-> Blank,
                 conversation |-> Blank, error |-> [message |-> Blank, details |-> Nil], metadata |-> Nil]
<1>2. Empty = E /\ [Empty EXCEPT !.type = "status"] = S
  BY DEF Empty
<1>3. [message |-> Blank, details |-> Nil] \in [message : Texts, details : Details]
  BY <1>1 DEF Details
<1>4. E \in Message /\ S \in Message
  BY <1>1, <1>3 DEF Message
<1>5. Stamped(E) = E /\ Stamped(S) = S
  BY DEF Stamped
<1> HIDE DEF E, S
<1> QED
  BY <1>2, <1>4, <1>5

\* The conversation is all that the reader changes.
LEMMA StampedType ==
  ASSUME NEW m \in Message
  PROVE  /\ Stamped(m) \in Message /\ Stamped(m) = [m EXCEPT !.conversation = Stamped(m).conversation]
         /\ Stamped(m).type = m.type /\ Stamped(m).recipient = m.recipient
<1>1. Temporary \in Texts
  BY SizeAssumption
<1>2. ASSUME NEW t \in Texts
      PROVE  /\ [m EXCEPT !.conversation = t] \in Message
             /\ [m EXCEPT !.conversation = t].conversation = t
             /\ [m EXCEPT !.conversation = t].type = m.type
             /\ [m EXCEPT !.conversation = t].recipient = m.recipient
  <2>1. m = [type |-> m.type, status |-> m.status, code |-> m.code, recipient |-> m.recipient,
             conversation |-> m.conversation, error |-> m.error, metadata |-> m.metadata]
    BY DEF Message
  <2> QED
    BY <2>1, ConversationPasses
<1>3. m = [m EXCEPT !.conversation = m.conversation]
  BY DEF Message
<1> QED
  BY <1>1, <1>2, <1>3 DEF Stamped

\* A frame that carries a message.
LEMMA DecodedType ==
  ASSUME client \in Clients, NEW i \in Frames, client.frames[i].proto # "none"
  PROVE  /\ Decoded(i) \in Message
         /\ Decoded(i) = Empty \/ Decoded(i) = Passed(client.frames[i].msg, client.frames[i].proto)
         /\ client.frames[i].proto \in {"json", "protobuf"} /\ client.frames[i].msg \in Message
BY Shape, EmptyType, PassedType DEF Decoded

\* What has been passed on stays, and one message may follow.
LEMMA OneMore ==
  ASSUME FrameInv, client' = client, written' = written, replies' \in Seq(Answer),
         \/ out' = out
         \/ \E e \in Entry : IsOf(e) /\ out' = Append(out, e)
  PROVE  FrameInv'
<1>2. CASE out' = out
  BY <1>2 DEF FrameInv, IsOf, IsFrom, Frames
<1>3. ASSUME NEW e \in Entry, IsOf(e), out' = Append(out, e)
      PROVE  FrameInv'
  <2>1. /\ out' \in Seq(Entry) /\ Len(out') = Len(out) + 1 /\ Len(out) \in Nat
        /\ DOMAIN out' = 1 .. Len(out) + 1 /\ out'[Len(out) + 1] = e
        /\ \A k \in 1 .. Len(out) : out'[k] = out[k] /\ k \in DOMAIN out
    BY <1>3 DEF FrameInv
  <2>2. ASSUME NEW k \in DOMAIN out'
        PROVE  IsOf(out[k])'
    <3>1. out'[k] \in {e} \cup {out[j] : j \in DOMAIN out}
      BY <2>1
    <3>2. IsOf(out'[k])
      BY <1>3, <3>1 DEF FrameInv
    <3> QED
      BY <3>2 DEF IsOf, Frames
  <2>3. \A k \in 1 .. Len(written) : IsFrom(written[k], out'[k])
    BY <2>1 DEF FrameInv
  <2>4. \A k \in 1 .. Len(written') : IsFrom(written[k], out[k])'
    BY <2>3 DEF IsFrom
  <2> QED
    BY <2>1, <2>2, <2>4 DEF FrameInv
<1> QED
  BY <1>2, <1>3

\* So it is whatever a reader does with the message it has read.
LEMMA PassedOn ==
  ASSUME FrameInv, client' = client, written' = written, NEW i \in Nat, NEW m \in Message,
         PassOn(i, m),
         \/ i = 0
         \/ i \in Frames /\ client.frames[i].proto # "none" /\ m = Decoded(i)
  PROVE  FrameInv'
<1> DEFINE s == Stamped(m)
           e == [frame |-> i, msg |-> s]
<1>1. s \in Message /\ s = [m EXCEPT !.conversation = s.conversation]
  BY StampedType
<1>2. e \in Entry /\ e.frame = i /\ e.msg = s
  BY <1>1 DEF Entry
<1>3. replies' \in Seq(Answer)
  <2>1. \A text \in {"pong", "error"} : [frame |-> i, text |-> text] \in Answer
    BY DEF Answer
  <2> QED
    BY <2>1 DEF PassOn, FrameInv
<1>4. out' = out \/ out' = Append(out, e)
  BY DEF PassOn
<1>5. m = Empty => out' = out
  <2>1. Empty.recipient = Blank /\ Empty.type = "unknown"
    BY DEF Empty
  <2> QED
    BY <2>1, EmptyType DEF PassOn
<1>6. m # Empty => IsOf(e)
  <2> HIDE DEF e, s
  <2>1. CASE i = 0
    BY <1>2, <2>1 DEF IsOf
  <2>2. CASE i # 0 /\ m # Empty
    <3>1. /\ i \in Frames /\ client.frames[i].proto \in {"json", "protobuf"}
          /\ m = Passed(client.frames[i].msg, client.frames[i].proto)
      BY <2>2, DecodedType DEF FrameInv
    <3> QED
      BY <1>1, <1>2, <3>1 DEF IsOf
  <2> QED
    BY <2>1, <2>2
<1> HIDE DEF e
<1> QED
  BY <1>2, <1>3, <1>4, <1>5, <1>6, OneMore

\* A step of the writer.
LEMMA WriteStep ==
  ASSUME FrameInv, NEW connType, NEW far \in BOOLEAN, Write(connType, far)
  PROVE  FrameInv'
<1> DEFINE n == Len(written) + 1
           proto == IF client.kind \in {"tcp", "ws"} THEN GetProtocolTypeFromConnection(connType) ELSE "json"
           m == IF far THEN Passed(out[n].msg, "json") ELSE out[n].msg
           w == [proto |-> proto, data |-> SerializeMessage(m, proto)]
<1>1. /\ n \in DOMAIN out /\ written' = Append(written, w) /\ UNCHANGED <<client, out, replies>>
  BY DEF Write
<1>2. proto \in {"json", "protobuf"}
  BY DEF GetProtocolTypeFromConnection
<1>3. IsFrom(w, out[n])
  <2>1. m \in {out[n].msg, Passed(out[n].msg, "json")}
    OBVIOUS
  <2> HIDE DEF m, proto
  <2> QED
    BY <1>2, <2>1 DEF IsFrom
<1>4. /\ Len(written) \in Nat /\ DOMAIN written = 1 .. Len(written) /\ n <= Len(out)
  BY <1>1 DEF FrameInv
<1> HIDE DEF w
<1>5. /\ Len(written') = n /\ DOMAIN written' = 1 .. n /\ written'[n] = w
      /\ \A k \in 1 .. Len(written) : written'[k] = written[k]
  BY <1>1, <1>4 DEF FrameInv
<1>6. ASSUME NEW k \in 1 .. Len(written')
      PROVE  IsFrom(written[k], out[k])'
  <2>1. CASE k = n
    BY <1>1, <1>3, <1>5, <2>1 DEF IsFrom
  <2>2. CASE k # n
    <3>1. k \in 1 .. Len(written)
      BY <1>4, <1>5, <2>2
    <3>2. IsFrom(written[k], out[k])
      BY <3>1 DEF FrameInv
    <3> QED
      BY <1>1, <1>5, <3>1, <3>2 DEF IsFrom
  <2> QED
    BY <2>1, <2>2
<1>7. \A k \in DOMAIN out : IsOf(out[k])'
  BY <1>1 DEF FrameInv, IsOf, Frames
<1> QED
  BY <1>1, <1>4, <1>5, <1>6, <1>7 DEF FrameInv

\* What is read behind a flag is read as what the flag says.
HeadInv ==
  /\ head = [proto |-> head.proto, size |-> head.size]
  /\ at \in {"size", "body"} => head.proto \in {"json", "protobuf"}

\* The flag is kept until the body has been read.
LEMMA HeadStep ==
  ASSUME HeadInv, [Next]_vars
  PROVE  HeadInv'
<1> DEFINE H(p, n) == [proto |-> p, size |-> n]
<1>1. \A p : [head EXCEPT !.proto = p] = H(p, head.size)
  BY DEF HeadInv
<1>2. \A n : [head EXCEPT !.size = n] = H(head.proto, n)
  BY DEF HeadInv
<1>3. \A p, n : H(p, n).proto = p /\ H(p, n).size = n /\ H(p, n) = [proto |-> H(p, n).proto, size |-> H(p, n).size]
  OBVIOUS
<1> HIDE DEF H
<1>4. CASE ReadFlag
  <2>1. CASE UNCHANGED <<at, head>>
    BY <2>1 DEF HeadInv
  <2>2. ASSUME NEW p \in {"json", "protobuf"}, head' = [head EXCEPT !.proto = p]
        PROVE  HeadInv'
    BY <1>1, <1>3, <2>2 DEF HeadInv
  <2> QED
    BY <1>4, <2>1, <2>2 DEF ReadFlag, Flags
<1>5. CASE ReadSize
  <2>1. CASE at' = "flag" /\ UNCHANGED head
    BY <2>1 DEF HeadInv
  <2>2. CASE at' = "body" /\ head' = [head EXCEPT !.size = Byte(pos + 1)]
    BY <1>2, <1>3, <1>5, <2>2 DEF HeadInv, ReadSize, Reads
  <2> QED
    BY <1>5, <2>1, <2>2 DEF ReadSize
<1>6. CASE UNCHANGED head /\ at' \in {at, "flag", "text", "closed"}
  BY <1>6 DEF HeadInv
<1>7. CASE \E connType \in {"tcp", "tcp_ws", "websocket"}, far \in BOOLEAN : Write(connType, far)
  BY <1>7 DEF HeadInv, Write, readVars
<1> QED
  BY <1>4, <1>5, <1>6, <1>7 DEF Next, vars, readVars, Fill, ReadBody, ReadTexts, ParseMessages, ReadMessage, Stop

\* What a reader of JSON texts finds is the message of a frame, or empty.
LEMMA ParsedEntry ==
  ASSUME FrameInv, NEW e, NEW m \in Parsed(e)
  PROVE  m \in Entry /\ IsOf(m)
<1>1. CASE m = [frame |-> 0, msg |-> Empty]
  BY <1>1, EmptyType DEF Entry, IsOf
<1>2. ASSUME NEW i \in Frames, client.frames[i].proto = "json",
             m = [frame |-> i, msg |-> Passed(client.frames[i].msg, "json")]
      PROVE  m \in Entry /\ IsOf(m)
  <2> DEFINE p == Passed(client.frames[i].msg, "json")
  <2>1. i \in Nat /\ p \in Message
    <3>1. client \in Clients
      BY DEF FrameInv
    <3>2. i \in Nat
      BY <3>1, Layout
    <3>3. client.frames[i].msg \in Message
      BY <3>1, Shape
    <3> QED
      BY <3>2, <3>3, PassedType
  <2>2. p = [p EXCEPT !.conversation = p.conversation]
    BY <2>1 DEF Message
  <2>3. m \in Entry /\ m.frame = i /\ m.msg = p
    BY <1>2, <2>1 DEF Entry
  <2> HIDE DEF p
  <2> QED
    BY <1>2, <2>2, <2>3 DEF IsOf, p
<1> QED
  BY <1>1, <1>2 DEF Parsed

\* Every step.
LEMMA FrameStep ==
  ASSUME FrameInv, HeadInv, [Next]_vars
  PROVE  FrameInv'
<1>1. CASE UNCHANGED <<client, out, replies, written>>
  BY <1>1, OneMore DEF FrameInv
<1>2. CASE ReadBody
  <2>1. CASE Skip
    BY <1>2, <2>1, OneMore DEF FrameInv, ReadBody, Skip
  <2>2. CASE PassOn(0, Empty) \/ PassOn(0, [Empty EXCEPT !.type = "status"])
    BY <1>2, <2>2, EmptyType, PassedOn DEF ReadBody
  <2>3. ASSUME NEW i \in BodyOf(head.proto, head.size), PassOn(i, Decoded(i))
        PROVE  FrameInv'
    <3>1. i \in Frames /\ i \in Nat /\ client.frames[i].proto = head.proto
      BY <2>3, Layout DEF BodyOf, FrameInv
    <3>2. client.frames[i].proto # "none"
      BY <1>2, <3>1 DEF ReadBody, Reads, HeadInv
    <3> QED
      BY <1>2, <2>3, <3>1, <3>2, DecodedType, PassedOn DEF ReadBody, FrameInv
  <2> QED
    BY <1>2, <2>1, <2>2, <2>3 DEF ReadBody
<1>3. CASE ParseMessages
  <2>1. CASE UNCHANGED out
    BY <1>3, <2>1, OneMore DEF FrameInv, ParseMessages
  <2>2. ASSUME NEW e, NEW m \in Parsed(e), out' = Append(out, m)
        PROVE  FrameInv'
    <3>1. m \in Entry /\ IsOf(m)
      BY <2>2, ParsedEntry
    <3> QED
      BY <1>3, <2>2, <3>1, OneMore DEF FrameInv, ParseMessages
  <2> QED
    BY <1>3, <2>1, <2>2 DEF ParseMessages
<1>4. CASE ReadMessage
  <2>1. CASE Skip
    BY <1>4, <2>1, OneMore DEF FrameInv, ReadMessage, Skip
  <2>2. CASE PassOn(pos + 1, Decoded(pos + 1))
    <3>1. pos + 1 \in Frames /\ pos + 1 \in Nat /\ client.frames[pos + 1].proto # "none"
      BY <1>4, Layout DEF ReadMessage, FrameInv
    <3> QED
      BY <1>4, <2>2, <3>1, DecodedType, PassedOn DEF ReadMessage, FrameInv
  <2> QED
    BY <1>4, <2>1, <2>2 DEF ReadMessage
<1>5. CASE \E connType \in {"tcp", "tcp_ws", "websocket"}, far \in BOOLEAN : Write(connType, far)
  BY <1>5, WriteStep
<1> QED
  BY <1>1, <1>2, <1>3, <1>4, <1>5 DEF Next, vars, Fill, ReadFlag, ReadSize, ReadTexts, Stop, Skip

\* What is passed on and written stems from a message of a client.
THEOREM FrameInvariant == Spec => [](FrameInv /\ HeadInv)
<1>1. Init => FrameInv /\ HeadInv
  BY DEF Init, FrameInv, HeadInv
<1> QED
  BY <1>1, FrameStep, HeadStep, PTL DEF Spec

\* What is read at the other end does not depend on the passage through Redis, nor
\* on the protocol of the two ends if one of them uses protobuf.
LEMMA SameHowever ==
  ASSUME NEW f \in Message, NEW p \in {"json", "protobuf"}, NEW q \in {"json", "protobuf"},
         NEW t \in Texts, NEW m,
         LET s == [Passed(f, p) EXCEPT !.conversation = t] IN m \in {s, Passed(s, "json")}
  PROVE  Passed(m, q) = [Passed(f, IF "protobuf" \in {p, q} THEN "protobuf" ELSE "json")
                           EXCEPT !.conversation = t]
<1> DEFINE s == [Passed(f, p) EXCEPT !.conversation = t]
           both == Passed(f, IF "protobuf" \in {p, q} THEN "protobuf" ELSE "json")
<1>1. Passed(f, p) \in Message
  BY PassedType
<1>2. s \in Message /\ Passed(s, q) = [Passed(Passed(f, p), q) EXCEPT !.conversation = t]
  BY <1>1, ConversationPasses
<1>3. Passed(Passed(f, p), q) = both
  BY ConvertedOnce
<1>4. Passed(Passed(s, "json"), q) = Passed(s, q)
  <2>1. Passed(s, "json") = [Passed(Passed(f, p), "json") EXCEPT !.conversation = t]
    BY <1>1, ConversationPasses
  <2>2. /\ Passed(Passed(f, p), "json") = Passed(f, p)
    BY ConvertedOnce
  <2> QED
    BY <2>1, <2>2
<1> HIDE DEF s
<1> QED
  BY <1>2, <1>3, <1>4 DEF s

\* SameForAll: a recipient decodes the message of the frame, converted to protobuf
\* if either end uses it, and its conversation, however often it was converted.
THEOREM AllReadTheSame == Spec => []SameForAll
<1>1. FrameInv => SameForAll
  <2> SUFFICES ASSUME FrameInv, NEW k \in DOMAIN written, out[k].frame # 0
               PROVE  LET f == client.frames[out[k].frame]
                          proto == IF "protobuf" \in {f.proto, written[k].proto} THEN "protobuf" ELSE "json"
                      IN  DeserializeMessage(written[k].data, written[k].proto)
                            = [Passed(f.msg, proto) EXCEPT !.conversation = out[k].msg.conversation]
    BY DEF SameForAll
  <2> DEFINE f == client.frames[out[k].frame]
             q == written[k].proto
             t == out[k].msg.conversation
  <2>1. k \in DOMAIN out /\ IsOf(out[k]) /\ IsFrom(written[k], out[k]) /\ out[k] \in Entry
    BY DEF FrameInv
  <2>2. /\ out[k].frame \in Frames /\ f.proto \in {"json", "protobuf"}
        /\ out[k].msg = [Passed(f.msg, f.proto) EXCEPT !.conversation = t]
    BY <2>1 DEF IsOf
  <2>3. f.msg \in Message /\ t \in Texts /\ q \in {"json", "protobuf"}
    BY <2>1, <2>2, Shape DEF FrameInv, Entry, Message, IsFrom
  <2>4. PICK m \in {out[k].msg, Passed(out[k].msg, "json")} : written[k].data = SerializeMessage(m, q)
    BY <2>1 DEF IsFrom
  <2>5. DeserializeMessage(written[k].data, q) = Passed(m, q)
    BY <2>4 DEF Passed
  <2> HIDE DEF f, q, t
  <2>6. Passed(m, q) = [Passed(f.msg, IF "protobuf" \in {f.proto, q} THEN "protobuf" ELSE "json")
                          EXCEPT !.conversation = t]
    BY <2>2, <2>3, <2>4, SameHowever
  <2> QED
    BY <2>5, <2>6 DEF f, q, t
<1> QED
  BY <1>1, FrameInvariant, PTL

-----------------------------------------------------------------------------
(* A reader stays in step with its client.                                 *)

IsFrame(i) == i \in Frames /\ client.frames[i].proto # "none"

\* What of the frames in front of a place has been passed on and answered.
Listed(messages, answers, place) ==
  /\ InOrder(messages, {i \in ReadUpTo(place) : Wanted(i)})
  /\ InOrder(answers, {i \in ReadUpTo(place) : Answered(i)})

\* Where the reader of a TCP connection stands: between two frames, or in a
\* frame, behind its flag or behind its size.
StepInv ==
  Orderly =>
    /\ pos \in Nat
    /\ Listed(out, replies, pos)
    /\ client.kind = "tcp" =>
         /\ filled \in pos .. Total
         /\ at \in {"flag", "size", "body", "closed"}
         /\ at = "flag" => \A i \in Frames : IsFrame(i) => End(i) <= pos \/ pos <= Begin(i)
         /\ at = "size" => \E i \in Frames : /\ IsFrame(i) /\ pos = Begin(i) + 1
                                             /\ head.proto = client.frames[i].proto
         /\ at = "body" => \E i \in Frames : /\ IsFrame(i) /\ pos = Begin(i) + 2
                                             /\ head.proto = client.frames[i].proto
                                             /\ head.size = Len(client.frames[i].body)

\* An entry that is about a later frame is added to a list.
LEMMA Added ==
  ASSUME NEW S, NEW list \in Seq(S), NEW e \in S, NEW F \in SUBSET Nat, InOrder(list, F),
         e.frame \in Nat, \A i \in F : i < e.frame
  PROVE  InOrder(Append(list, e), F \cup {e.frame})
<1> DEFINE more == Append(list, e)
           n == Len(list) + 1
<1>1. /\ n \in Nat /\ n \in DOMAIN more /\ DOMAIN more = 1 .. n /\ more[n] = e /\ DOMAIN list = 1 .. n - 1
      /\ \A k \in DOMAIN list : more[k] = list[k]
  OBVIOUS
<1> HIDE DEF more, n
<1>2. \A k \in DOMAIN list : list[k].frame \in F
  BY DEF InOrder
<1>3. ASSUME NEW k \in DOMAIN more, NEW l \in DOMAIN more, k < l
      PROVE  more[k].frame < more[l].frame
  <2>1. k \in DOMAIN list
    BY <1>1, <1>3
  <2>2. CASE l = n
    BY <1>1, <1>2, <2>1, <2>2
  <2>3. CASE l # n
    <3>1. l \in DOMAIN list
      BY <1>1, <2>3
    <3> QED
      BY <1>1, <1>3, <2>1, <3>1 DEF InOrder
  <2> QED
    BY <2>2, <2>3
<1>4. {more[k].frame : k \in DOMAIN more} = F \cup {e.frame}
  <2>1. \A k \in DOMAIN more : more[k].frame \in F \cup {e.frame}
    BY <1>1, <1>2
  <2>2. ASSUME NEW i \in F \cup {e.frame}
        PROVE  \E k \in DOMAIN more : i = more[k].frame
    <3>1. CASE i = e.frame
      BY <1>1, <3>1
    <3>2. CASE i \in F
      <4>1. PICK k \in DOMAIN list : i = list[k].frame
        BY <3>2 DEF InOrder
      <4> QED
        BY <1>1, <4>1
    <3> QED
      BY <3>1, <3>2
  <2> QED
    BY <2>1, <2>2
<1> QED
  BY <1>3, <1>4 DEF InOrder, more

\* What a frame is and whether it is read does not change.
LEMMA Frozen ==
  ASSUME client' = client
  PROVE  /\ Listed(out', replies', pos') <=> Listed(out, replies, pos)'
         /\ Frames' = Frames /\ Total' = Total
         /\ \A i : Begin(i)' = Begin(i) /\ End(i)' = End(i) /\ (IsFrame(i)' <=> IsFrame(i))
BY DEF Listed, InOrder, ReadUpTo, Wanted, Answered, IsMessage, Decoded, Frames, End, Begin, Total,
   IsFrame, Orderly

\* A frame that carries a message is passed on or answered as it is to be.
LEMMA Handled ==
  ASSUME FrameInv, NEW i \in Frames, IsMessage(i), PassOn(i, Decoded(i))
  PROVE  /\ \/ ~Wanted(i) /\ out' = out
            \/ \E e \in Entry : Wanted(i) /\ e.frame = i /\ out' = Append(out, e)
         /\ \/ ~Answered(i) /\ replies' = replies
            \/ \E a \in Answer : Answered(i) /\ a.frame = i /\ replies' = Append(replies, a)
<1> DEFINE m == Decoded(i)
           s == Stamped(m)
           answer == IF s.type = "ping" THEN "pong" ELSE "error"
           e == [frame |-> i, msg |-> s]
           a == [frame |-> i, text |-> answer]
<1>1. i \in Nat /\ m \in Message
  BY Layout, DecodedType DEF FrameInv, IsMessage
<1>2. s \in Message /\ s.type = m.type /\ s.recipient = m.recipient
  BY <1>1, StampedType
<1>3. e \in Entry /\ e.frame = i /\ a \in Answer /\ a.frame = i
  BY <1>1, <1>2 DEF Entry, Answer
<1>4. /\ Wanted(i) <=> m.type # "ping" /\ (m.recipient # Blank \/ m.type = "status")
      /\ Answered(i) <=> m.type = "ping" \/ (m.type = "message" /\ m.recipient = Blank)
  BY DEF Wanted, Answered
<1>5. /\ out' = IF s.type = "ping" \/ (s.recipient = Blank /\ s.type # "status") THEN out ELSE Append(out, e)
      /\ replies' = IF s.type = "ping" \/ (s.type = "message" /\ s.recipient = Blank /\ s.type # "status")
                      THEN Append(replies, a) ELSE replies
  BY DEF PassOn
<1> HIDE DEF m, s, e, a
<1> QED
  BY <1>2, <1>3, <1>4, <1>5

\* A frame without a message is not passed on.
LEMMA NotHandled ==
  ASSUME NEW i, PassOn(i, Empty)
  PROVE  Skip
<1>1. Empty.recipient = Blank /\ Empty.type = "unknown"
  BY DEF Empty
<1> QED
  BY <1>1, EmptyType DEF PassOn, Skip

\* One more frame has been read.
LEMMA OneRead ==
  ASSUME FrameInv, NEW from, NEW to, Listed(out, replies, from), NEW i \in Frames,
         IsMessage(i), PassOn(i, Decoded(i)),
         \A j \in Frames : IsMessage(j) => (j \in ReadUpTo(to) <=> j \in ReadUpTo(from) \/ j = i),
         \A j \in ReadUpTo(from) : IsMessage(j) => j < i
  PROVE  Listed(out', replies', to)
<1> DEFINE W(place) == {j \in ReadUpTo(place) : Wanted(j)}
           A(place) == {j \in ReadUpTo(place) : Answered(j)}
<1>1. i \in Nat /\ Frames \subseteq Nat /\ ReadUpTo(from) \subseteq Frames /\ ReadUpTo(to) \subseteq Frames
  BY Layout DEF FrameInv, ReadUpTo
<1>2. \A j : (Wanted(j) => IsMessage(j)) /\ (Answered(j) => IsMessage(j))
  BY DEF Wanted, Answered
<1>3. /\ W(from) \in SUBSET Nat /\ A(from) \in SUBSET Nat
      /\ \A j \in W(from) \cup A(from) : j < i
      /\ W(to) = IF Wanted(i) THEN W(from) \cup {i} ELSE W(from)
      /\ A(to) = IF Answered(i) THEN A(from) \cup {i} ELSE A(from)
  BY <1>1, <1>2
<1>4. InOrder(out, W(from)) /\ InOrder(replies, A(from))
  BY DEF Listed
<1>5. out \in Seq(Entry) /\ replies \in Seq(Answer)
  BY DEF FrameInv
<1> HIDE DEF W, A
<1>6. InOrder(out', W(to))
  <2>1. CASE ~Wanted(i) /\ out' = out
    BY <1>3, <1>4, <2>1
  <2>2. ASSUME NEW e \in Entry, Wanted(i), e.frame = i, out' = Append(out, e)
        PROVE  InOrder(out', W(to))
    <3>1. InOrder(Append(out, e), W(from) \cup {e.frame})
      BY <1>1, <1>3, <1>4, <1>5, <2>2, Added
    <3> QED
      BY <1>3, <2>2, <3>1
  <2> QED
    BY <2>1, <2>2, Handled
<1>7. InOrder(replies', A(to))
  <2>1. CASE ~Answered(i) /\ replies' = replies
    BY <1>3, <1>4, <2>1
  <2>2. ASSUME NEW a \in Answer, Answered(i), a.frame = i, replies' = Append(replies, a)
        PROVE  InOrder(replies', A(to))
    <3>1. InOrder(Append(replies, a), A(from) \cup {a.frame})
      BY <1>1, <1>3, <1>4, <1>5, <2>2, Added
    <3> QED
      BY <1>3, <2>2, <3>1
  <2> QED
    BY <2>1, <2>2, Handled
<1> QED
  BY <1>6, <1>7 DEF Listed, W, A

\* No frame with a message has been read to its end.
LEMMA NoneRead ==
  ASSUME NEW from, NEW to, Listed(out, replies, from), Skip,
         \A j \in Frames : IsMessage(j) => (j \in ReadUpTo(to) <=> j \in ReadUpTo(from))
  PROVE  Listed(out', replies', to)
<1>1. /\ {j \in ReadUpTo(from) : Wanted(j)} = {j \in ReadUpTo(to) : Wanted(j)}
      /\ {j \in ReadUpTo(from) : Answered(j)} = {j \in ReadUpTo(to) : Answered(j)}
  BY DEF ReadUpTo, Wanted, Answered
<1> QED
  BY <1>1 DEF Listed, Skip

\* An orderly connection has been so before.
LEMMA StaysOrderly ==
  ASSUME FrameInv, [Next]_vars, Orderly'
  PROVE  Orderly /\ client' = client
<1>1. client' = client
  BY DEF Next, vars, readVars, Fill, ReadFlag, ReadSize, ReadBody, ReadTexts, ParseMessages, ReadMessage, Stop, Write
<1>2. ~cut' => ~cut
  BY DEF Next, vars, readVars, Fill, ReadFlag, ReadSize, ReadBody, ReadTexts, ParseMessages, ReadMessage, Stop, Write
<1>3. Orderly' <=> /\ client.kind # "old_tcp" /\ ~client.eager /\ ~cut'
                   /\ \A i \in Frames : Len(client.frames[i].body) <= MaxMessageSize
                   /\ client.kind = "old_ws" => \A i \in Frames : client.frames[i].proto = "json" /\ IsMessage(i)
  BY <1>1 DEF Orderly, Frames, IsMessage
<1> QED
  BY <1>1, <1>2, <1>3 DEF Orderly

\* What the invariant says of the next state, if the client stays the same.
LEMMA NextPlace ==
  ASSUME FrameInv, client' = client, Orderly, pos' \in Nat, Listed(out', replies', pos'),
         client.kind = "tcp" =>
           /\ filled' \in pos' .. Total
           /\ at' \in {"flag", "size", "body", "closed"}
           /\ at' = "flag" => \A i \in Frames : IsFrame(i) => End(i) <= pos' \/ pos' <= Begin(i)
           /\ at' = "size" => \E i \in Frames : /\ IsFrame(i) /\ pos' = Begin(i) + 1
                                                /\ head'.proto = client.frames[i].proto
           /\ at' = "body" => \E i \in Frames : /\ IsFrame(i) /\ pos' = Begin(i) + 2
                                                /\ head'.proto = client.frames[i].proto
                                                /\ head'.size = Len(client.frames[i].body)
  PROVE  StepInv'
<1>1. /\ Listed(out, replies, pos)' /\ Frames' = Frames /\ Total' = Total
      /\ \A i : Begin(i)' = Begin(i) /\ End(i)' = End(i) /\ (IsFrame(i)' <=> IsFrame(i))
  BY Frozen
<1> QED
  BY <1>1 DEF StepInv

\* A frame with a message that ends in a place or behind the place before it begins
\* where the place is in it.
LEMMA EndsAt ==
  ASSUME client \in Clients, client.kind = "tcp", NEW i \in Frames, NEW p \in Begin(i) + 1 .. End(i)
  PROVE  \A j \in Frames : /\ IsMessage(j) => (j \in ReadUpTo(p) <=> j \in ReadUpTo(Begin(i)) \/ (j = i /\ p = End(i)))
                           /\ IsMessage(j) /\ j \in ReadUpTo(Begin(i)) => j < i
<1> SUFFICES ASSUME NEW j \in Frames, IsMessage(j)
             PROVE  /\ j \in ReadUpTo(p) <=> j \in ReadUpTo(Begin(i)) \/ (j = i /\ p = End(i))
                    /\ j \in ReadUpTo(Begin(i)) => j < i
  OBVIOUS
<1>1. \A q : j \in ReadUpTo(q) <=> End(j) <= q
  BY DEF ReadUpTo
<1>2. /\ i \in Nat /\ j \in Nat /\ Begin(i) \in Nat /\ End(i) \in Nat /\ Begin(j) \in Nat /\ End(j) \in Nat
      /\ i < j => End(i) <= Begin(j)
      /\ j < i => End(j) <= Begin(i)
  BY Layout
<1>3. Begin(j) + 2 < End(j)
  <2> DEFINE n == Len(client.frames[j].body)
  <2>1. n \in Nat /\ n # 0 /\ End(j) = Begin(j) + n + 2
    BY Shape DEF IsMessage
  <2> HIDE DEF n
  <2> QED
    BY <1>2, <2>1
<1>4. p \in Nat /\ Begin(i) < p /\ p <= End(i)
  BY <1>2
<1> QED
  BY <1>1, <1>2, <1>3, <1>4

\* A byte that is read where a frame may begin: a flag, or one that is none.
LEMMA FlagStep ==
  ASSUME FrameInv, HeadInv, StepInv, Orderly, ReadFlag
  PROVE  StepInv'
<1>1. /\ client' = client /\ client.kind = "tcp" /\ at = "flag" /\ pos' = pos + 1 /\ filled' = filled
      /\ Skip /\ pos < filled
  BY DEF ReadFlag, Reads
<1>2. /\ pos \in Nat /\ Listed(out, replies, pos) /\ filled \in pos .. Total /\ client \in Clients
      /\ \A i \in Frames : IsFrame(i) => End(i) <= pos \/ pos <= Begin(i)
  BY <1>1 DEF StepInv, FrameInv
<1>3. Total \in Nat /\ pos + 1 \in 1 .. Total
  <2>1. Total \in Nat
    BY <1>2, Layout
  <2> QED
    BY <1>1, <1>2, <2>1
<1>4. PICK i \in Frames : Begin(i) < pos + 1 /\ pos + 1 <= End(i)
  BY <1>2, <1>3, Layout
<1>5. Begin(i) \in Nat /\ End(i) \in Nat /\ i \in Nat /\ pos + 1 \in Begin(i) + 1 .. End(i)
  BY <1>2, <1>4, Layout
<1>6. /\ \A j \in Frames : IsMessage(j) => (j \in ReadUpTo(pos + 1) <=> j \in ReadUpTo(Begin(i)) \/ (j = i /\ pos + 1 = End(i)))
      /\ pos \in Begin(i) + 1 .. End(i) =>
           \A j \in Frames : IsMessage(j) => (j \in ReadUpTo(pos) <=> j \in ReadUpTo(Begin(i)) \/ (j = i /\ pos = End(i)))
  BY <1>1, <1>2, <1>5, EndsAt
<1>7. CASE IsFrame(i)
  <2>1. pos = Begin(i) /\ pos + 1 < End(i)
    <3>1. End(i) = Begin(i) + Len(client.frames[i].body) + 2 /\ Len(client.frames[i].body) \in Nat
      BY <1>2, <1>7, Shape DEF IsFrame
    <3>2. End(i) <= pos \/ pos <= Begin(i)
      BY <1>2, <1>7
    <3> DEFINE n == Len(client.frames[i].body)
    <3>3. pos \in Nat /\ n \in Nat /\ End(i) = Begin(i) + n + 2
      BY <1>2, <3>1
    <3> HIDE DEF n
    <3>4. Begin(i) \in Nat /\ Begin(i) < pos + 1 /\ pos + 1 <= End(i)
      BY <1>4, <1>5
    <3> QED
      BY <3>2, <3>3, <3>4
  <2>2. client.frames[i].proto \in DOMAIN Flags /\ Byte(pos + 1) = Flags[client.frames[i].proto]
    BY <1>1, <1>2, <1>7, <2>1, Shape DEF IsFrame, Flags
  <2>3. {p \in DOMAIN Flags : Flags[p] = Byte(pos + 1)} = {client.frames[i].proto}
    BY <2>2 DEF Flags
  <2>4. at' = "size" /\ head'.proto = client.frames[i].proto
    BY <2>3 DEF ReadFlag, HeadInv
  <2>5. Listed(out', replies', pos')
    BY <1>1, <1>2, <1>6, <2>1, NoneRead
  <2> QED
    BY <1>1, <1>2, <1>3, <1>7, <2>1, <2>4, <2>5, NextPlace
<1>8. CASE ~IsFrame(i)
  <2>1. /\ Byte(pos + 1) \notin Marks("tcp")
    BY <1>1, <1>2, <1>5, <1>8, Shape DEF IsFrame
  <2>2. {p \in DOMAIN Flags : Flags[p] = Byte(pos + 1)} = {}
    BY <2>1 DEF Marks
  <2>3. at' = "flag"
    BY <1>1, <2>2 DEF ReadFlag
  <2>4. ~IsMessage(i)
    BY <1>8 DEF IsFrame, IsMessage
  <2>5. \A j \in Frames : IsMessage(j) => (j \in ReadUpTo(pos + 1) <=> j \in ReadUpTo(pos))
    <3>1. CASE pos = Begin(i)
      BY <1>6, <2>4, <3>1
    <3>2. CASE pos # Begin(i)
      BY <1>2, <1>4, <1>5, <1>6, <2>4, <3>2
    <3> QED
      BY <3>1, <3>2
  <2>6. Listed(out', replies', pos')
    BY <1>1, <1>2, <2>5, NoneRead
  <2>7. ASSUME NEW j \in Frames, IsFrame(j)
        PROVE  End(j) <= pos + 1 \/ pos + 1 <= Begin(j)
    <3>1. Begin(j) \in Nat /\ End(j) \in Nat
      BY <1>2, Layout
    <3>2. End(j) <= pos \/ pos <= Begin(j)
      BY <1>2, <2>7
    <3>3. CASE pos = Begin(j) /\ Begin(j) # End(j)
      <4>1. Begin(j) <= End(j)
        BY <1>2, Layout
      <4>2. Begin(j) < pos + 1 /\ pos + 1 <= End(j)
        BY <1>2, <3>1, <3>3, <4>1
      <4>3. j = i
        BY <1>2, <1>5, <4>2, ByteOf
      <4> QED
        BY <1>8, <2>7, <4>3
    <3> QED
      BY <1>2, <3>1, <3>2, <3>3
  <2> QED
    BY <1>1, <1>2, <1>3, <2>3, <2>6, <2>7, NextPlace
<1> QED
  BY <1>7, <1>8

\* The size is that of the frame whose flag was read, and not too large.
LEMMA SizeStep ==
  ASSUME FrameInv, HeadInv, StepInv, Orderly, ReadSize
  PROVE  StepInv'
<1>1. /\ client' = client /\ client.kind = "tcp" /\ at = "size" /\ pos' = pos + 1 /\ filled' = filled
      /\ Skip /\ pos < filled
  BY DEF ReadSize, Reads
<1>2. /\ pos \in Nat /\ Listed(out, replies, pos) /\ filled \in pos .. Total /\ client \in Clients
  BY <1>1 DEF StepInv, FrameInv
<1>3. PICK i \in Frames : IsFrame(i) /\ pos = Begin(i) + 1 /\ head.proto = client.frames[i].proto
  BY <1>1 DEF StepInv
<1> DEFINE n == Len(client.frames[i].body)
<1>4. /\ n \in Nat /\ End(i) = Begin(i) + n + 2 /\ Begin(i) \in Nat /\ Byte(Begin(i) + 2) = n
  <2>1. client.kind # "old_tcp" /\ client.frames[i].proto # "none"
    BY <1>1, <1>3 DEF IsFrame
  <2>2. Begin(i) \in Nat
    BY <1>2, Layout
  <2> QED
    BY <1>2, <2>1, <2>2, Shape
<1>5. Byte(pos + 1) = n /\ n <= MaxMessageSize /\ MaxMessageSize \in Nat
  <2>1. pos + 1 = Begin(i) + 2
    BY <1>3, <1>4
  <2> QED
    BY <1>4, <2>1, SizeAssumption DEF Orderly
<1>6. at' = "body" /\ head'.size = n /\ head'.proto = client.frames[i].proto
  <2> HIDE DEF n
  <2>1. ~(Byte(pos + 1) > MaxMessageSize)
    BY <1>4, <1>5
  <2> QED
    BY <1>3, <1>5, <2>1 DEF ReadSize, HeadInv
<1>7. \A j \in Frames : IsMessage(j) => (j \in ReadUpTo(pos + 1) <=> j \in ReadUpTo(pos))
  <2>1. /\ pos \in Begin(i) + 1 .. End(i) /\ pos + 1 \in Begin(i) + 1 .. End(i) /\ pos # End(i)
        /\ pos + 1 = End(i) => n = 0
    BY <1>3, <1>4
  <2>2. n = 0 => ~IsMessage(i)
    BY <1>2, Shape DEF IsMessage
  <2> HIDE DEF n
  <2> QED
    BY <1>1, <1>2, <2>1, <2>2, EndsAt
<1>8. Listed(out', replies', pos')
  BY <1>1, <1>2, <1>7, NoneRead
<1>9. pos' \in Nat /\ filled' \in pos' .. Total /\ pos' = Begin(i) + 2
  <2>1. Total \in Nat
    BY <1>2, Layout
  <2> QED
    BY <1>1, <1>2, <1>3, <1>4, <2>1
<1> QED
  BY <1>1, <1>2, <1>3, <1>6, <1>8, <1>9, NextPlace

\* The body is all of that frame, and the next one begins behind it.
LEMMA BodyStep ==
  ASSUME FrameInv, StepInv, Orderly, ReadBody, ~cut'
  PROVE  StepInv'
<1>1. client' = client /\ client.kind = "tcp" /\ at = "body" /\ at' = "flag" /\ filled' = filled
  BY DEF ReadBody, Reads
<1>2. /\ pos \in Nat /\ Listed(out, replies, pos) /\ filled \in pos .. Total /\ client \in Clients
  BY <1>1 DEF StepInv, FrameInv
<1>3. PICK i \in Frames : /\ IsFrame(i) /\ pos = Begin(i) + 2 /\ head.proto = client.frames[i].proto
                          /\ head.size = Len(client.frames[i].body)
  BY <1>1 DEF StepInv
<1> DEFINE n == Len(client.frames[i].body)
<1>4. /\ n \in Nat /\ End(i) = Begin(i) + n + 2 /\ Begin(i) \in Nat /\ End(i) \in Nat /\ Total \in Nat
      /\ (client.frames[i].body = << >> <=> n = 0) /\ client.frames[i].proto # "none"
  <2>1. client.frames[i].proto # "none"
    BY <1>3 DEF IsFrame
  <2>2. Begin(i) \in Nat /\ End(i) \in Nat /\ Total \in Nat
    BY <1>2, Layout
  <2> QED
    BY <1>2, <2>1, <2>2, Shape
<1>5. n <= filled - pos
  <2>1. ~(filled - pos < n)
    <3> SUFFICES ASSUME filled - pos < n PROVE cut'
      OBVIOUS
    <3> HIDE DEF n
    <3>1. head.size = n /\ filled - pos \in Int
      BY <1>2, <1>3 DEF n
    <3>2. ~(head.size <= filled - pos)
      BY <1>4, <3>1
    <3>3. cut' = (cut \/ filled - pos < head.size)
      BY <3>2 DEF ReadBody
    <3> QED
      BY <3>1, <3>3
  <2> HIDE DEF n
  <2> QED
    BY <1>2, <1>4, <2>1
<1>6. pos' = End(i)
  <2>1. pos' = pos + n
    BY <1>3, <1>5 DEF ReadBody
  <2> QED
    BY <1>3, <1>4, <2>1
<1>7. pos' \in Nat /\ filled' \in pos' .. Total
  BY <1>1, <1>2, <1>3, <1>4, <1>5, <1>6
<1>8. \A j \in Frames : IsFrame(j) => End(j) <= pos' \/ pos' <= Begin(j)
  <2>1. ASSUME NEW j \in Frames
        PROVE  End(j) <= End(i) \/ End(i) <= Begin(j)
    <3>1. /\ i \in Nat /\ j \in Nat /\ (i < j => End(i) <= Begin(j)) /\ (j < i => End(j) <= Begin(i))
          /\ Begin(i) <= End(i) /\ End(j) \in Nat /\ Begin(j) \in Nat
      BY <1>2, Layout
    <3> QED
      BY <1>4, <3>1
  <2> QED
    BY <1>6, <2>1
<1>9. Listed(out', replies', pos')
  <2>1. CASE n = 0
    <3>1. Skip
      BY <1>3, <2>1, NotHandled DEF ReadBody
    <3>2. pos' = pos
      BY <1>3, <1>4, <1>6, <2>1
    <3> QED
      BY <1>2, <3>1, <3>2, NoneRead
  <2>2. CASE n # 0
    <3>1. BodyOf(head.proto, head.size) = {i}
      <4>1. i \in BodyOf(head.proto, head.size)
        BY <1>3 DEF BodyOf
      <4>2. ASSUME NEW j \in BodyOf(head.proto, head.size)
            PROVE  j = i
        <5>1. /\ j \in Frames /\ client.frames[j].proto # "none" /\ pos = Begin(j) + 2
              /\ Len(client.frames[j].body) = n
          BY <1>3, <1>4 DEF BodyOf
        <5>2. End(j) = Begin(j) + n + 2 /\ Begin(j) \in Nat
          BY <1>2, <5>1, Layout, Shape
        <5>3. End(i) \in Begin(i) + 1 .. End(i) /\ Begin(j) < End(i) /\ End(i) <= End(j)
          <6> HIDE DEF n
          <6>1. Begin(j) = Begin(i)
            BY <1>3, <1>4, <5>1, <5>2
          <6> QED
            BY <1>4, <5>2, <6>1
        <5> QED
          BY <1>2, <5>1, <5>3, ByteOf
      <4> QED
        BY <4>1, <4>2
    <3>2. PassOn(i, Decoded(i))
      <4>1. head.size = n /\ head.size <= filled - pos /\ head.size # 0
        BY <1>3, <1>5, <2>2
      <4> HIDE DEF n
      <4> QED
        BY <3>1, <4>1 DEF ReadBody
    <3>3. IsMessage(i)
      BY <1>4, <2>2 DEF IsMessage
    <3>4. /\ pos \in Begin(i) + 1 .. End(i) /\ pos # End(i) /\ End(i) \in Begin(i) + 1 .. End(i)
      BY <1>3, <1>4, <2>2
    <3>5. /\ \A j \in Frames : IsMessage(j) => (j \in ReadUpTo(pos') <=> j \in ReadUpTo(pos) \/ j = i)
          /\ \A j \in ReadUpTo(pos) : IsMessage(j) => j < i
      <4>1. \A j \in ReadUpTo(pos) : j \in Frames
        BY DEF ReadUpTo
      <4> QED
        BY <1>1, <1>2, <1>6, <3>4, <4>1, EndsAt
    <3> QED
      BY <1>2, <3>2, <3>3, <3>5, OneRead
  <2> QED
    BY <2>1, <2>2
<1> QED
  BY <1>1, <1>7, <1>8, <1>9, NextPlace

\* A frame of a WebSocket connection arrives whole.
LEMMA MessageStep ==
  ASSUME FrameInv, StepInv, Orderly, ReadMessage
  PROVE  StepInv'
<1> DEFINE i == pos + 1
<1>1. client' = client /\ client.kind \in {"ws", "old_ws"} /\ i \in Frames /\ pos' = i
      /\ client.frames[i].proto # "none"
  BY DEF ReadMessage
<1>2. pos \in Nat /\ Listed(out, replies, pos) /\ client \in Clients
  BY DEF StepInv, FrameInv
<1>3. \A j \in Frames : \A q : j \in ReadUpTo(q) <=> j <= q
  BY <1>1 DEF ReadUpTo
<1>4. Frames \subseteq Nat /\ \A q : ReadUpTo(q) \subseteq Frames
  BY <1>2, Layout DEF ReadUpTo
<1>5. Listed(out', replies', pos')
  <2>1. CASE IsMessage(i)
    <3>1. PassOn(i, Decoded(i))
      <4>1. Decodes(i)
        BY <2>1 DEF Decodes, IsMessage
      <4>2. client.kind = "old_ws" => client.frames[i].proto = "json"
        BY <1>1 DEF Orderly
      <4> QED
        BY <4>1, <4>2 DEF ReadMessage
    <3>2. \A j \in Frames : j \in ReadUpTo(i) <=> j \in ReadUpTo(pos) \/ j = i
      BY <1>2, <1>3, <1>4
    <3>3. ASSUME NEW j \in ReadUpTo(pos) PROVE j < i
      <4>1. j \in Frames /\ j \in Nat /\ j <= pos
        BY <1>3, <1>4
      <4> QED
        BY <1>2, <4>1
    <3> HIDE DEF i
    <3> QED
      BY <1>1, <1>2, <2>1, <3>1, <3>2, <3>3, OneRead
  <2>2. CASE ~IsMessage(i)
    <3>1. client.frames[i].body = << >>
      BY <1>1, <2>2 DEF IsMessage
    <3>2. Skip
      <4>1. CASE Skip
        BY <4>1
      <4>2. CASE PassOn(i, Decoded(i))
        <5>1. Decoded(i) = Empty
          BY <3>1 DEF Decoded
        <5> QED
          BY <4>2, <5>1, NotHandled
      <4> QED
        BY <4>1, <4>2 DEF ReadMessage
    <3>3. \A j \in Frames : j # i => (j \in ReadUpTo(i) <=> j \in ReadUpTo(pos))
      BY <1>2, <1>3, <1>4
    <3> HIDE DEF i
    <3> QED
      BY <1>1, <1>2, <2>2, <3>2, <3>3, NoneRead
  <2> QED
    BY <2>1, <2>2
<1>6. pos' \in Nat /\ client.kind # "tcp"
  BY <1>1, <1>2
<1> QED
  BY <1>1, <1>5, <1>6, NextPlace

\* Every step of an orderly connection.
LEMMA InStepStep ==
  ASSUME FrameInv, HeadInv, StepInv, [Next]_vars
  PROVE  StepInv'
<1> SUFFICES ASSUME Orderly' PROVE StepInv'
  BY DEF StepInv
<1>1. Orderly /\ client' = client /\ client.kind # "old_tcp" /\ ~cut'
  BY StaysOrderly DEF Orderly
<1>2. /\ pos \in Nat /\ Listed(out, replies, pos)
      /\ client.kind = "tcp" =>
           /\ filled \in pos .. Total
           /\ at \in {"flag", "size", "body", "closed"}
           /\ at = "flag" => \A i \in Frames : IsFrame(i) => End(i) <= pos \/ pos <= Begin(i)
           /\ at = "size" => \E i \in Frames : /\ IsFrame(i) /\ pos = Begin(i) + 1
                                               /\ head.proto = client.frames[i].proto
           /\ at = "body" => \E i \in Frames : /\ IsFrame(i) /\ pos = Begin(i) + 2
                                               /\ head.proto = client.frames[i].proto
                                               /\ head.size = Len(client.frames[i].body)
  BY <1>1 DEF StepInv
<1>3. CASE UNCHANGED <<pos, head, out, replies>> /\ at' \in {at, "closed"}
           /\ (filled' = filled \/ (filled' \in pos .. Total))
  BY <1>1, <1>2, <1>3, NextPlace
<1>4. CASE Fill
  <2>1. filled' \in pos .. Total
    <3>1. filled' \in pos + 1 .. pos + BufferSize /\ filled' <= Total /\ Total \in Nat /\ BufferSize \in Nat
      BY <1>4, Layout, SizeAssumption DEF Fill, FrameInv
    <3> QED
      BY <1>2, <3>1
  <2> QED
    BY <1>3, <1>4, <2>1 DEF Fill
<1>5. CASE ReadFlag  BY <1>1, <1>5, FlagStep
<1>6. CASE ReadSize  BY <1>1, <1>6, SizeStep
<1>7. CASE ReadBody  BY <1>1, <1>7, BodyStep
<1>8. CASE ReadMessage  BY <1>1, <1>8, MessageStep
<1>9. CASE Stop
  BY <1>3, <1>9 DEF Stop
<1>10. CASE \E connType \in {"tcp", "tcp_ws", "websocket"}, far \in BOOLEAN : Write(connType, far)
  BY <1>3, <1>10 DEF Write, readVars
<1>11. CASE UNCHANGED vars
  BY <1>3, <1>11 DEF vars, readVars
<1>12. ~ReadTexts /\ ~ParseMessages
  BY <1>1 DEF ReadTexts, ParseMessages, Reads
<1> QED
  BY <1>4, <1>5, <1>6, <1>7, <1>8, <1>9, <1>10, <1>11, <1>12 DEF Next

\* Nothing has been read of a client that waits.
LEMMA StepInit ==
  ASSUME Init
  PROVE  StepInv
<1> SUFFICES ASSUME Orderly PROVE StepInv
  BY DEF StepInv
<1>1. client \in Clients /\ pos = 0 /\ filled = 0 /\ at = "flag" /\ out = << >> /\ replies = << >>
  BY DEF Init, Dropped, Orderly
<1>2. \A i \in Frames : i \in Nat /\ i # 0 /\ Begin(i) \in Nat /\ End(i) \in Nat /\ Total \in Nat
  BY <1>1, Layout
<1>3. ASSUME NEW i \in Frames, IsMessage(i) PROVE i \notin ReadUpTo(0)
  <2>1. CASE client.kind \in {"ws", "old_ws"}
    BY <1>2, <2>1 DEF ReadUpTo
  <2>2. CASE client.kind \notin {"ws", "old_ws"}
    <3>1. End(i) = Begin(i) + Len(client.frames[i].body) + 2 /\ Len(client.frames[i].body) \in Nat
      BY <1>1, <1>3, Shape DEF IsMessage
    <3>2. ~(End(i) <= 0)
      BY <1>2, <3>1
    <3> QED
      BY <2>2, <3>2 DEF ReadUpTo
  <2> QED
    BY <2>1, <2>2
<1>4. {i \in ReadUpTo(0) : Wanted(i)} = {} /\ {i \in ReadUpTo(0) : Answered(i)} = {}
  BY <1>3 DEF ReadUpTo, Wanted, Answered
<1>5. InOrder(<< >>, {})
  BY DEF InOrder
<1>6. Listed(out, replies, pos)
  BY <1>1, <1>4, <1>5 DEF Listed
<1>7. Total \in Nat /\ filled \in pos .. Total
  BY <1>1, Layout
<1>8. \A i \in Frames : pos <= Begin(i)
  BY <1>1, <1>2
<1> QED
  BY <1>1, <1>6, <1>7, <1>8 DEF StepInv

\* InStep: all frames in front of the place where the reader of an orderly
\* connection stands have been passed on or answered, in order and once.
THEOREM StaysInStep == Spec => []InStep
<1>1. FrameInv /\ HeadInv /\ StepInv /\ [Next]_vars => StepInv'
  BY InStepStep
<1>2. StepInv => InStep
  BY DEF StepInv, InStep, Listed
<1> QED
  BY <1>1, <1>2, StepInit, FrameInvariant, PTL DEF Spec

-----------------------------------------------------------------------------
(* The reader of JSON texts finds all of them.                             *)

Nests ==
  /\ client.kind = "old_tcp" /\ ~client.eager
  /\ \A i \in JSONTexts : Nested(i)

\* The reader stands between two texts, and has found all in front; and when it
\* has searched what it has read, no text is left in that.
TextInv ==
  Nests =>
    /\ pos \in Nat /\ filled \in pos .. Total
    /\ at \in {"flag", "text", "closed"}
    /\ \A i \in JSONTexts : End(i) <= pos \/ pos <= Begin(i)
    /\ InOrder(out, ReadUpTo(pos) \cap JSONTexts)
    /\ at # "text" => \A i \in JSONTexts : End(i) <= filled => End(i) <= pos

\* The text that the reader meets next.
NextText(k) ==
  /\ k \in JSONTexts
  /\ pos <= Begin(k)
  /\ \A j \in JSONTexts : End(j) <= pos \/ k <= j

\* The braces between two places are those up to a third and those behind it.
LEMMA BracesAdd ==
  ASSUME NEW a \in Int, NEW b \in Int, NEW c \in Int, a <= b + 1, b <= c, NEW brace
  PROVE  /\ Braces(a, b, brace) \in Nat /\ Braces(b + 1, c, brace) \in Nat
         /\ Braces(a, c, brace) = Braces(a, b, brace) + Braces(b + 1, c, brace)
<1> DEFINE In(from, to) == {p \in from .. to : Byte(p) = brace}
<1>1. ASSUME NEW from \in Int, NEW to \in Int
      PROVE  IsFiniteSet(In(from, to)) /\ Cardinality(In(from, to)) \in Nat
  <2>1. IsFiniteSet(from .. to) /\ In(from, to) \in SUBSET (from .. to)
    BY FS_Interval
  <2> HIDE DEF In
  <2> QED
    BY <2>1, FS_Subset, FS_CardinalityType
<1>2. In(a, c) = In(a, b) \cup In(b + 1, c) /\ In(a, b) \cap In(b + 1, c) = {}
  OBVIOUS
<1>3. \A from, to : Braces(from, to, brace) = Cardinality(In(from, to))
  BY DEF Braces
<1>4. b + 1 \in Int
  OBVIOUS
<1> HIDE DEF In
<1>5. /\ Cardinality(In(a, c)) = Cardinality(In(a, b)) + Cardinality(In(b + 1, c)) - Cardinality({})
      /\ Cardinality({}) = 0
  <2>1. /\ IsFiniteSet(In(a, b)) /\ IsFiniteSet(In(b + 1, c))
    BY <1>1, <1>4
  <2> DEFINE S == In(a, b)
             T == In(b + 1, c)
  <2>2. IsFiniteSet(S) /\ IsFiniteSet(T)
    BY <2>1
  <2> HIDE DEF S, T
  <2>3. Cardinality(S \cup T) = Cardinality(S) + Cardinality(T) - Cardinality(S \cap T)
    BY <2>2, FS_Union
  <2> QED
    BY <1>2, <2>3, FS_EmptySet DEF S, T
<1>6. Cardinality(In(a, b)) \in Nat /\ Cardinality(In(b + 1, c)) \in Nat
  BY <1>1, <1>4
<1> QED
  BY <1>3, <1>5, <1>6

\* There is none where there is none, and one in a place that holds one.
LEMMA BracesFew ==
  ASSUME NEW a \in Int, NEW b \in Int, NEW brace
  PROVE  /\ (\A p \in a .. b : Byte(p) # brace) => Braces(a, b, brace) = 0
         /\ Byte(a) = brace => Braces(a, a, brace) = 1
<1>1. (\A p \in a .. b : Byte(p) # brace) => {p \in a .. b : Byte(p) = brace} = {}
  OBVIOUS
<1>2. Byte(a) = brace => {p \in a .. a : Byte(p) = brace} = {a}
  OBVIOUS
<1> QED
  BY <1>1, <1>2, FS_EmptySet, FS_Singleton DEF Braces

\* Where the JSON texts are, and their braces.
LEMMA TextPlaces ==
  ASSUME client \in Clients, client.kind = "old_tcp"
  PROVE  /\ JSONTexts \subseteq Nat /\ Total \in Nat
         /\ \A i \in JSONTexts : /\ Begin(i) \in Nat /\ End(i) \in Nat
                                 /\ Begin(i) + 2 <= End(i) /\ End(i) <= Total
                                 /\ Byte(Begin(i) + 1) = Open /\ Byte(End(i)) = Close
         /\ \A i, j \in JSONTexts : i < j => End(i) <= Begin(j)
<1>1. /\ Total \in Nat /\ Frames \subseteq Nat /\ JSONTexts \subseteq Frames
      /\ \A i, j \in Frames : i < j => End(i) <= Begin(j)
      /\ \A i \in Frames : Begin(i) \in Nat /\ End(i) \in Nat /\ End(i) <= Total
  BY Layout DEF JSONTexts
<1>2. ASSUME NEW i \in JSONTexts
      PROVE  Begin(i) + 2 <= End(i) /\ Byte(Begin(i) + 1) = Open /\ Byte(End(i)) = Close
  <2> DEFINE n == Len(client.frames[i].body)
  <2>1. i \in Frames /\ client.frames[i].proto # "none"
    BY DEF JSONTexts
  <2>2. /\ n \in Nat /\ End(i) = Begin(i) + n + 2
        /\ Byte(Begin(i) + 1) = Open /\ Byte(End(i)) = Close
    BY <2>1, Shape
  <2>3. Begin(i) \in Nat
    BY <1>1, <2>1
  <2> HIDE DEF n
  <2> QED
    BY <2>2, <2>3
<1> QED
  BY <1>1, <1>2

\* Between the texts there is no brace.
LEMMA NoBraces ==
  ASSUME client \in Clients, client.kind = "old_tcp", NEW from \in Nat, NEW to \in Nat, to <= Total,
         \A i \in JSONTexts : End(i) <= from \/ to <= Begin(i)
  PROVE  \A p \in from + 1 .. to : Byte(p) \notin {Open, Close}
<1> SUFFICES ASSUME NEW p \in from + 1 .. to PROVE Byte(p) \notin {Open, Close}
  OBVIOUS
<1>1. Total \in Nat /\ p \in 1 .. Total
  <2>1. Total \in Nat
    BY Layout
  <2> QED
    BY <2>1
<1>2. PICK i \in Frames : Begin(i) < p /\ p <= End(i)
  BY <1>1, Layout
<1>3. Begin(i) \in Nat /\ End(i) \in Nat
  BY Layout
<1>4. i \notin JSONTexts
  BY <1>2, <1>3
<1>5. client.frames[i].proto = "none"
  BY <1>4, Shape DEF JSONTexts
<1>6. p \in Begin(i) + 1 .. End(i)
  BY <1>2, <1>3
<1>7. Byte(p) \notin Marks(client.kind)
  BY <1>5, <1>6, Shape
<1> QED
  BY <1>7 DEF Marks

\* In a nested text more has been opened than closed, until it ends.
LEMMA OpenUntilEnd ==
  ASSUME client \in Clients, client.kind = "old_tcp", NEW i \in JSONTexts, Nested(i)
  PROVE  /\ \A e \in Begin(i) + 1 .. End(i) - 1 :
              Braces(Begin(i) + 1, e, Close) < Braces(Begin(i) + 1, e, Open)
         /\ Balanced(Begin(i) + 1, End(i))
<1> DEFINE b == Begin(i)
           c == End(i)
<1>1. b \in Nat /\ c \in Nat /\ b + 2 <= c /\ Byte(b + 1) = Open /\ Byte(c) = Close
  BY TextPlaces
<1>2. /\ Braces(b + 2, c - 1, Open) = Braces(b + 2, c - 1, Close)
      /\ \A e \in b + 2 .. c - 1 : Braces(b + 2, e, Close) <= Braces(b + 2, e, Open)
  BY DEF Nested, Balanced
<1> HIDE DEF b, c
<1>3. /\ Braces(b + 1, b + 1, Open) = 1 /\ Braces(b + 1, b + 1, Close) = 0
      /\ Braces(c, c, Open) = 0 /\ Braces(c, c, Close) = 1
  <2>1. /\ \A p \in b + 1 .. b + 1 : Byte(p) # Close
        /\ \A p \in c .. c : Byte(p) # Open
    BY <1>1 DEF Open, Close
  <2>2. b + 1 \in Int /\ c \in Int
    BY <1>1
  <2> QED
    BY <1>1, <2>1, <2>2, BracesFew
<1>4. ASSUME NEW e \in b + 1 .. c - 1
      PROVE  /\ Braces(b + 2, e, Open) \in Nat /\ Braces(b + 2, e, Close) \in Nat
             /\ Braces(b + 1, e, Open) = 1 + Braces(b + 2, e, Open)
             /\ Braces(b + 1, e, Close) = Braces(b + 2, e, Close)
  <2>1. ASSUME NEW brace
        PROVE  /\ Braces(b + 2, e, brace) \in Nat
               /\ Braces(b + 1, e, brace) = Braces(b + 1, b + 1, brace) + Braces(b + 2, e, brace)
    <3>1. /\ b + 1 \in Int /\ e \in Int /\ b + 1 <= (b + 1) + 1 /\ b + 1 <= e
          /\ (b + 1) + 1 = b + 2
      BY <1>1
    <3> QED
      BY <3>1, BracesAdd
  <2> QED
    BY <1>3, <2>1
<1>5. ASSUME NEW e \in b + 1 .. c - 1
      PROVE  Braces(b + 1, e, Close) < Braces(b + 1, e, Open)
  <2>1. CASE e = b + 1
    BY <1>3, <2>1
  <2>2. CASE e # b + 1
    <3>1. e \in b + 2 .. c - 1
      BY <1>1, <2>2
    <3>2. Braces(b + 2, e, Close) <= Braces(b + 2, e, Open)
      BY <1>2, <3>1
    <3> QED
      BY <1>4, <3>2
  <2> QED
    BY <2>1, <2>2
<1>6. Balanced(b + 1, c)
  <2>1. c - 1 \in b + 1 .. c - 1
    BY <1>1
  <2>2. Braces(b + 1, c - 1, Open) = 1 + Braces(b + 1, c - 1, Close)
    BY <1>2, <1>4, <2>1
  <2>3. ASSUME NEW brace
        PROVE  /\ Braces(b + 1, c - 1, brace) \in Nat
               /\ Braces(b + 1, c, brace) = Braces(b + 1, c - 1, brace) + Braces(c, c, brace)
    <3>1. /\ b + 1 \in Int /\ c - 1 \in Int /\ c \in Int /\ b + 1 <= (c - 1) + 1 /\ c - 1 <= c
          /\ (c - 1) + 1 = c
      BY <1>1
    <3> QED
      BY <3>1, BracesAdd
  <2> QED
    BY <1>3, <2>2, <2>3 DEF Balanced
<1> QED
  BY <1>5, <1>6 DEF b, c

\* The loop finds the end of the next text, and none before it.
LEMMA TextEnd ==
  ASSUME client \in Clients, client.kind = "old_tcp", pos \in Nat, filled \in pos .. Total,
         NEW k, NextText(k), Nested(k)
  PROVE  /\ \A e \in Ends : End(k) <= e
         /\ End(k) <= filled => End(k) \in Ends
<1> DEFINE b == Begin(k)
           c == End(k)
<1>1. /\ k \in JSONTexts /\ k \in Nat /\ b \in Nat /\ c \in Nat /\ Total \in Nat /\ c <= Total
      /\ b + 2 <= c /\ Byte(c) = Close /\ pos <= b
  BY TextPlaces DEF NextText
<1>2. \A j \in JSONTexts : End(j) <= pos \/ b <= Begin(j)
  <2>1. ASSUME NEW j \in JSONTexts, k <= j PROVE b <= Begin(j)
    <3>1. CASE k = j
      BY <1>1, <3>1
    <3>2. CASE k # j
      <4>1. k < j /\ Begin(j) \in Nat
        BY <1>1, <2>1, <3>2, TextPlaces
      <4>2. c <= Begin(j)
        BY <1>1, <4>1, TextPlaces
      <4> HIDE DEF b, c
      <4> QED
        BY <1>1, <4>1, <4>2
    <3> QED
      BY <3>1, <3>2
  <2> QED
    BY <2>1 DEF NextText
<1>3. \A p \in pos + 1 .. b : Byte(p) \notin {Open, Close}
  <2>1. b <= Total
    <3> HIDE DEF b, c
    <3> QED
      BY <1>1
  <2> HIDE DEF b
  <2> QED
    BY <1>1, <1>2, <2>1, NoBraces
<1>4. /\ \A e \in b + 1 .. c - 1 : Braces(b + 1, e, Close) < Braces(b + 1, e, Open)
      /\ Braces(b + 1, c, Open) = Braces(b + 1, c, Close)
  BY <1>1, OpenUntilEnd DEF Balanced
<1> HIDE DEF b, c
<1>5. ASSUME NEW e \in b .. Total, NEW brace \in {Open, Close}
      PROVE  /\ Braces(b + 1, e, brace) \in Nat
             /\ Braces(pos + 1, e, brace) = Braces(b + 1, e, brace)
  <2>1. /\ pos + 1 \in Int /\ b \in Int /\ e \in Int /\ pos + 1 <= b + 1 /\ b <= e
    BY <1>1
  <2>2. /\ Braces(b + 1, e, brace) \in Nat
        /\ Braces(pos + 1, e, brace) = Braces(pos + 1, b, brace) + Braces(b + 1, e, brace)
    BY <2>1, BracesAdd
  <2>3. Braces(pos + 1, b, brace) = 0
    BY <1>3, <2>1, BracesFew
  <2> QED
    BY <2>2, <2>3
<1>6. ASSUME NEW e \in Ends PROVE c <= e
  <2>1. e \in pos + 1 .. filled /\ Byte(e) = Close /\ Braces(pos + 1, e, Open) = Braces(pos + 1, e, Close)
    BY DEF Ends, Balanced
  <2>2. e \in Nat /\ ~(e <= b)
    BY <1>1, <1>3, <2>1
  <2>3. e \in b .. Total
    BY <1>1, <2>1, <2>2
  <2>4. /\ Braces(b + 1, e, Open) \in Nat
        /\ Braces(b + 1, e, Open) = Braces(b + 1, e, Close)
    BY <1>5, <2>1, <2>3
  <2>5. e \notin b + 1 .. c - 1
    <3> SUFFICES ASSUME e \in b + 1 .. c - 1 PROVE FALSE
      OBVIOUS
    <3>1. Braces(b + 1, e, Close) < Braces(b + 1, e, Open)
      BY <1>4
    <3> QED
      BY <2>4, <3>1
  <2> QED
    BY <1>1, <2>2, <2>5
<1>7. ASSUME c <= filled PROVE c \in Ends
  <2>1. c \in pos + 1 .. filled /\ c \in b .. Total
    BY <1>1, <1>7
  <2>2. Braces(pos + 1, c, Open) = Braces(pos + 1, c, Close)
    BY <1>4, <1>5, <2>1
  <2> QED
    BY <1>1, <2>1, <2>2 DEF Ends, Balanced
<1> QED
  BY <1>6, <1>7 DEF c

\* Behind spaces there is something else, or nothing.
LEMMA BehindSpaces ==
  ASSUME filled \in Nat, NEW p \in Nat, p <= filled
  PROVE  /\ PastSpaces(p) \in p .. filled
         /\ \A k \in p + 1 .. PastSpaces(p) : Byte(k) = Space
<1> DEFINE T == {q \in p .. filled : q = filled \/ Byte(q + 1) # Space}
<1>1. PICK q \in T : \A r \in T : q <= r
  <2>1. T \subseteq Nat /\ filled \in T
    OBVIOUS
  <2> HIDE DEF T
  <2> QED
    BY <2>1, LeastNatural
<1>2. ASSUME NEW k \in p + 1 .. q PROVE Byte(k) = Space
  <2>1. k - 1 \in p .. filled /\ k - 1 \notin T /\ (k - 1) + 1 = k
    BY <1>1
  <2> QED
    BY <2>1
<1> DEFINE IsPast(r) == /\ \A k \in p + 1 .. r : Byte(k) = Space
                        /\ r = filled \/ Byte(r + 1) # Space
<1>3. PastSpaces(p) = CHOOSE r \in p .. filled : IsPast(r)
  BY DEF PastSpaces
<1>4. q \in p .. filled /\ IsPast(q)
  BY <1>1, <1>2
<1> HIDE DEF IsPast
<1>5. PastSpaces(p) \in p .. filled /\ IsPast(PastSpaces(p))
  BY <1>3, <1>4
<1> QED
  BY <1>5 DEF IsPast

\* The next text is taken if there are only spaces in front of it.
LEMMA TextFound ==
  ASSUME client \in Clients, client.kind = "old_tcp", pos \in Nat, filled \in Nat,
         NEW k, NextText(k), End(k) <= filled
  PROVE  /\ \A m \in Parsed(End(k)) : m.frame = k
         /\ Parsed(End(k)) = {} => pos + 1 <= Begin(k)
<1> DEFINE b == PastSpaces(pos)
<1>1. /\ k \in JSONTexts /\ k \in Frames /\ client.frames[k].proto = "json" /\ Begin(k) \in Nat /\ End(k) \in Nat
      /\ Begin(k) + 2 <= End(k) /\ Byte(Begin(k) + 1) = Open /\ pos <= Begin(k)
  BY TextPlaces DEF NextText, JSONTexts
<1>2. b \in pos .. filled /\ \A p \in pos + 1 .. b : Byte(p) = Space
  <2>1. pos <= filled
    BY <1>1
  <2> QED
    BY <2>1, BehindSpaces
<1> HIDE DEF b
<1>3. b <= Begin(k)
  <2>1. Begin(k) + 1 \notin pos + 1 .. b
    BY <1>1, <1>2 DEF Open, Space
  <2> QED
    BY <1>1, <1>2, <2>1
<1>4. \A j \in Frames : Begin(j) < End(k) /\ End(k) <= End(j) => j = k
  <2>1. End(k) \in Begin(k) + 1 .. End(k)
    BY <1>1
  <2> QED
    BY <1>1, <2>1, ByteOf
<1>5. ~Inner(End(k))
  <2> SUFFICES ASSUME NEW i \in Frames, Begin(i) + 1 < End(k), End(k) < End(i) PROVE FALSE
    BY DEF Inner
  <2>1. Begin(i) \in Nat /\ End(i) \in Nat
    BY Layout
  <2>2. Begin(i) < End(k) /\ End(k) <= End(i)
    BY <1>1, <2>1
  <2>3. i = k
    BY <1>4, <2>2
  <2> QED
    BY <1>1, <2>3
<1>6. Parsed(End(k)) =
        {[frame |-> i, msg |-> Passed(client.frames[i].msg, "json")] :
           i \in {j \in Frames : client.frames[j].proto = "json" /\ Begin(j) = b /\ End(j) = End(k)}}
  BY <1>5 DEF Parsed, b
<1>7. ASSUME NEW j \in Frames, client.frames[j].proto = "json", End(j) = End(k)
      PROVE  j = k
  <2>1. j \in JSONTexts
    BY <1>7 DEF JSONTexts
  <2>2. Begin(j) \in Nat /\ Begin(j) + 2 <= End(j)
    BY <2>1, TextPlaces
  <2>3. Begin(j) < End(k) /\ End(k) <= End(j)
    BY <1>1, <1>7, <2>2
  <2> QED
    BY <1>4, <2>3
<1>8. ASSUME NEW m \in Parsed(End(k)) PROVE m.frame = k
  BY <1>6, <1>7
<1>9. ASSUME Parsed(End(k)) = {} PROVE pos + 1 <= Begin(k)
  <2>1. b # Begin(k)
    BY <1>1, <1>6, <1>9
  <2> QED
    BY <1>1, <1>2, <1>3, <2>1
<1> QED
  BY <1>8, <1>9

\* The text after it is still to come.
LEMMA TextsBehind ==
  ASSUME client \in Clients, client.kind = "old_tcp", pos \in Nat,
         NEW k, NextText(k), NEW j \in JSONTexts
  PROVE  /\ End(j) <= pos <=> j < k
         /\ j < k \/ j = k \/ End(k) <= Begin(j)
<1>1. /\ k \in JSONTexts /\ k \in Nat /\ j \in Nat /\ pos <= Begin(k) /\ (End(j) <= pos \/ k <= j)
      /\ Begin(k) \in Nat /\ End(k) \in Nat /\ Begin(k) + 2 <= End(k)
      /\ Begin(j) \in Nat /\ End(j) \in Nat /\ Begin(j) + 2 <= End(j)
  BY TextPlaces DEF NextText
<1>2. k < j => End(k) <= Begin(j)
  BY <1>1, TextPlaces
<1>3. CASE j < k
  BY <1>1, <1>3
<1>4. CASE j = k
  BY <1>1, <1>4
<1>5. CASE k < j
  BY <1>1, <1>2, <1>5
<1> QED
  BY <1>1, <1>3, <1>4, <1>5

\* One turn of the loop.
LEMMA TextStep ==
  ASSUME FrameInv, TextInv, ParseMessages, Nests
  PROVE  TextInv'
<1>1. /\ client' = client /\ filled' = filled /\ client \in Clients /\ client.kind = "old_tcp"
      /\ pos \in Nat /\ filled \in pos .. Total /\ filled \in Nat /\ Total \in Nat
      /\ \A i \in JSONTexts : Nested(i) /\ (End(i) <= pos \/ pos <= Begin(i))
      /\ InOrder(out, ReadUpTo(pos) \cap JSONTexts)
      /\ at = "text" /\ at' \in {"text", "flag"}
  <2>1. Total \in Nat
    BY Layout DEF FrameInv
  <2> QED
    BY <2>1 DEF FrameInv, TextInv, Nests, ParseMessages, Reads
<1>2. \A place : ReadUpTo(place) \cap JSONTexts = {i \in JSONTexts : End(i) <= place}
  BY <1>1 DEF ReadUpTo, JSONTexts
<1>3. ASSUME pos' \in Nat, filled \in pos' .. Total,
             \A i \in JSONTexts : End(i) <= pos' \/ pos' <= Begin(i),
             InOrder(out', ReadUpTo(pos') \cap JSONTexts),
             at' # "text" => \A i \in JSONTexts : End(i) <= filled => End(i) <= pos'
      PROVE  TextInv'
  <2>1. JSONTexts' = JSONTexts /\ Total' = Total /\ \A i : Begin(i)' = Begin(i) /\ End(i)' = End(i)
    BY <1>1 DEF JSONTexts, Frames, Total, Begin, End
  <2>2. (ReadUpTo(pos) \cap JSONTexts)' = ReadUpTo(pos') \cap JSONTexts
    BY <1>1, <2>1 DEF ReadUpTo, Frames, End
  <2>3. InOrder(out, ReadUpTo(pos) \cap JSONTexts)'
    BY <1>3, <2>2 DEF InOrder
  <2> QED
    BY <1>1, <1>3, <2>1, <2>3 DEF TextInv
<1>4. ASSUME NEW i \in JSONTexts, pos <= Begin(i)
      PROVE  \E k \in JSONTexts : NextText(k) /\ k <= i
  <2> DEFINE T == {j \in JSONTexts : pos <= Begin(j)}
  <2>1. PICK k \in T : \A j \in T : k <= j
    <3>1. T \subseteq Nat /\ i \in T
      BY <1>1, <1>4, TextPlaces
    <3> HIDE DEF T
    <3> QED
      BY <3>1, LeastNatural
  <2> QED
    BY <1>1, <1>4, <2>1 DEF NextText
<1>5. CASE Ends = {}
  <2>1. at' = "flag" /\ pos' = pos /\ out' = out
    BY <1>5 DEF ParseMessages
  <2>2. ASSUME NEW i \in JSONTexts, End(i) <= filled, ~(End(i) <= pos)
        PROVE  FALSE
    <3>1. PICK k \in JSONTexts : NextText(k) /\ k <= i
      BY <1>1, <1>4, <2>2
    <3>2. ~(End(k) <= filled)
      BY <1>1, <1>5, <3>1, TextEnd
    <3>3. /\ k \in Nat /\ i \in Nat /\ End(k) \in Nat /\ End(i) \in Nat /\ Begin(i) \in Nat
          /\ Begin(i) + 2 <= End(i) /\ (k < i => End(k) <= Begin(i))
      BY <1>1, <3>1, TextPlaces
    <3> QED
      BY <1>1, <2>2, <3>1, <3>2, <3>3
  <2> QED
    BY <1>1, <1>3, <2>1, <2>2
<1>6. ASSUME NEW e \in Ends, \A d \in Ends : e <= d, at' = at,
             \/ \E m \in Parsed(e) : out' = Append(out, m) /\ pos' = PastSpaces(e)
             \/ Parsed(e) = {} /\ pos' = pos + 1 /\ UNCHANGED out
      PROVE  TextInv'
  <2>1. e \in pos + 1 .. filled /\ Byte(e) = Close
    BY DEF Ends
  <2>2. PICK k \in JSONTexts : NextText(k)
    <3> SUFFICES ASSUME \A i \in JSONTexts : ~(pos <= Begin(i)) PROVE FALSE
      BY <1>4
    <3>1. \A p \in pos + 1 .. filled : Byte(p) \notin {Open, Close}
      BY <1>1, NoBraces
    <3> QED
      BY <2>1, <3>1
  <2>3. /\ Begin(k) \in Nat /\ End(k) \in Nat /\ Begin(k) + 2 <= End(k) /\ pos <= Begin(k) /\ k \in Nat
    BY <1>1, <2>2, TextPlaces DEF NextText
  <2>4. e = End(k) /\ End(k) <= filled
    <3>1. End(k) <= e /\ (End(k) <= filled => End(k) \in Ends)
      BY <1>1, <2>2, TextEnd
    <3>2. e \in Nat /\ End(k) <= filled
      BY <1>1, <2>1, <2>3, <3>1
    <3> QED
      BY <1>6, <2>3, <3>1, <3>2
  <2>5. \A j \in JSONTexts : /\ j \in Nat /\ (End(j) <= pos <=> j < k) /\ (j < k \/ j = k \/ End(k) <= Begin(j))
                             /\ Begin(j) \in Nat /\ End(j) \in Nat /\ Begin(j) + 2 <= End(j)
                             /\ Byte(Begin(j) + 1) = Open
    BY <1>1, <2>2, TextsBehind, TextPlaces
  <2>6. CASE Parsed(e) = {} /\ pos' = pos + 1 /\ UNCHANGED out
    <3>1. pos + 1 <= Begin(k)
      BY <1>1, <2>2, <2>4, <2>6, TextFound
    <3>2. \A j \in JSONTexts : (End(j) <= pos + 1 <=> End(j) <= pos) /\ (End(j) <= pos + 1 \/ pos + 1 <= Begin(j))
      BY <1>1, <2>3, <2>5, <3>1
    <3>3. pos + 1 \in Nat /\ filled \in pos + 1 .. Total
      BY <1>1, <2>3, <2>4, <3>1
    <3>4. ReadUpTo(pos + 1) \cap JSONTexts = ReadUpTo(pos) \cap JSONTexts
      BY <1>2, <3>2
    <3> QED
      BY <1>1, <1>3, <1>6, <2>6, <3>2, <3>3, <3>4
  <2>7. ASSUME NEW m \in Parsed(e), out' = Append(out, m), pos' = PastSpaces(e)
        PROVE  TextInv'
    <3>1. m.frame = k /\ m \in Entry
      BY <1>1, <2>2, <2>4, TextFound, ParsedEntry
    <3>2. pos' \in End(k) .. filled /\ \A p \in End(k) + 1 .. pos' : Byte(p) = Space
      BY <1>1, <2>3, <2>4, <2>7, BehindSpaces
    <3>3. ASSUME NEW j \in JSONTexts, End(k) <= Begin(j)
          PROVE  pos' <= Begin(j)
      <4>1. Begin(j) + 1 \notin End(k) + 1 .. pos'
        BY <2>5, <3>2 DEF Open, Space
      <4> QED
        BY <1>1, <2>3, <2>5, <3>2, <3>3, <4>1
    <3>4. pos' \in Nat /\ filled \in pos' .. Total
      BY <1>1, <2>3, <3>2
    <3>5. ASSUME NEW j \in JSONTexts
          PROVE  (End(j) <= pos' <=> End(j) <= pos \/ j = k) /\ (End(j) <= pos' \/ pos' <= Begin(j))
      <4>1. CASE j < k
        BY <1>1, <2>3, <2>5, <3>2, <3>4, <4>1
      <4>2. CASE j = k
        BY <3>2, <3>4, <4>2
      <4>3. CASE End(k) <= Begin(j)
        <5>1. pos' <= Begin(j)
          BY <3>3, <4>3
        <5>2. j # k /\ ~(End(j) <= pos)
          BY <1>1, <2>3, <2>5, <4>3
        <5> QED
          BY <2>5, <3>4, <5>1, <5>2
      <4> QED
        BY <2>5, <4>1, <4>2, <4>3
    <3>6. ReadUpTo(pos') \cap JSONTexts = (ReadUpTo(pos) \cap JSONTexts) \cup {k}
      BY <1>2, <2>2, <3>5
    <3>7. InOrder(Append(out, m), (ReadUpTo(pos) \cap JSONTexts) \cup {m.frame})
      <4> DEFINE F == ReadUpTo(pos) \cap JSONTexts
      <4>1. F \in SUBSET Nat /\ \A j \in F : j < m.frame
        BY <1>2, <2>5, <3>1
      <4>2. out \in Seq(Entry) /\ InOrder(out, F) /\ m.frame \in Nat
        BY <1>1, <2>3, <3>1 DEF FrameInv
      <4> HIDE DEF F
      <4>3. InOrder(Append(out, m), F \cup {m.frame})
        BY <3>1, <4>1, <4>2, Added
      <4> QED
        BY <4>3 DEF F
    <3> QED
      BY <1>1, <1>3, <1>6, <2>7, <3>1, <3>4, <3>5, <3>6, <3>7
  <2> QED
    BY <1>6, <2>6, <2>7
<1> QED
  BY <1>5, <1>6 DEF ParseMessages

\* Every step.
LEMMA TextInvStep ==
  ASSUME FrameInv, TextInv, [Next]_vars
  PROVE  TextInv'
<1> SUFFICES ASSUME Nests' PROVE TextInv'
  BY DEF TextInv
<1>1. client' = client
  BY DEF Next, vars, Fill, ReadFlag, ReadSize, ReadBody, ReadTexts, ParseMessages, ReadMessage, Stop, Write
<1>2. /\ Nests /\ JSONTexts' = JSONTexts /\ Total' = Total
      /\ \A i : Begin(i)' = Begin(i) /\ End(i)' = End(i)
  <2>1. /\ Frames' = Frames /\ JSONTexts' = JSONTexts /\ Total' = Total
        /\ \A i : Begin(i)' = Begin(i) /\ End(i)' = End(i)
    BY <1>1 DEF JSONTexts, Frames, Total, Begin, End
  <2>2. \A from, to, brace : Braces(from, to, brace)' = Braces(from, to, brace)
    BY <1>1 DEF Braces, Byte
  <2>3. \A i : Nested(i)' <=> Nested(i)
    BY <2>1, <2>2 DEF Nested, Balanced
  <2> QED
    BY <1>1, <2>1, <2>3 DEF Nests
<1>3. /\ pos \in Nat /\ filled \in pos .. Total /\ client.kind = "old_tcp"
      /\ at \in {"flag", "text", "closed"}
      /\ \A i \in JSONTexts : End(i) <= pos \/ pos <= Begin(i)
      /\ InOrder(out, ReadUpTo(pos) \cap JSONTexts)
      /\ at # "text" => \A i \in JSONTexts : End(i) <= filled => End(i) <= pos
  BY <1>2 DEF TextInv, Nests
<1>4. CASE pos' = pos /\ out' = out /\ filled' = filled /\ at' \in {at, "closed"} /\ (at = "text" => at' = at)
  <2>1. InOrder(out, ReadUpTo(pos) \cap JSONTexts)'
    BY <1>1, <1>2, <1>3, <1>4 DEF InOrder, ReadUpTo, Frames, End
  <2> QED
    BY <1>2, <1>3, <1>4, <2>1 DEF TextInv
<1>5. CASE ReadTexts
  <2>1. /\ pos' = pos /\ out' = out /\ at' = "text" /\ filled' \in pos .. Total
    <3>1. filled' \in filled + 1 .. filled + BufferSize /\ filled' <= Total /\ Total \in Nat /\ BufferSize \in Nat
      BY <1>5, Layout, SizeAssumption DEF ReadTexts, FrameInv
    <3> QED
      BY <1>3, <1>5, <3>1 DEF ReadTexts
  <2>2. InOrder(out, ReadUpTo(pos) \cap JSONTexts)'
    BY <1>1, <1>2, <1>3, <2>1 DEF InOrder, ReadUpTo, Frames, End
  <2> QED
    BY <1>2, <1>3, <2>1, <2>2 DEF TextInv
<1>6. CASE ParseMessages
  BY <1>2, <1>6, TextStep
<1>7. CASE Stop
  BY <1>3, <1>4, <1>7 DEF Stop
<1>8. CASE \E connType \in {"tcp", "tcp_ws", "websocket"}, far \in BOOLEAN : Write(connType, far)
  BY <1>3, <1>4, <1>8 DEF Write, readVars
<1>9. CASE UNCHANGED vars
  BY <1>3, <1>4, <1>9 DEF vars, readVars
<1>10. ~Fill /\ ~ReadFlag /\ ~ReadSize /\ ~ReadBody /\ ~ReadMessage
  BY <1>3 DEF Fill, ReadFlag, ReadSize, ReadBody, ReadMessage, Reads
<1> QED
  BY <1>5, <1>6, <1>7, <1>8, <1>9, <1>10 DEF Next

\* Nothing has been read of a client that waits.
LEMMA TextInit ==
  ASSUME Init
  PROVE  TextInv
<1> SUFFICES ASSUME Nests PROVE TextInv
  BY DEF TextInv
<1>1. client \in Clients /\ client.kind = "old_tcp" /\ pos = 0 /\ filled = 0 /\ at = "flag" /\ out = << >>
  BY DEF Init, Dropped, Nests
<1>2. \A i \in JSONTexts : Begin(i) \in Nat /\ End(i) \in Nat /\ ~(End(i) <= 0)
  <2>1. \A i \in JSONTexts : Begin(i) \in Nat /\ End(i) \in Nat /\ Begin(i) + 2 <= End(i)
    BY <1>1, TextPlaces
  <2> QED
    BY <2>1
<1>3. ReadUpTo(0) \cap JSONTexts = {}
  BY <1>1, <1>2 DEF ReadUpTo
<1>4. InOrder(<< >>, {})
  BY DEF InOrder
<1>5. Total \in Nat
  BY <1>1, Layout
<1>6. InOrder(out, ReadUpTo(pos) \cap JSONTexts)
  BY <1>1, <1>3, <1>4
<1>7. filled \in pos .. Total /\ \A i \in JSONTexts : pos <= Begin(i) /\ ~(End(i) <= filled)
  BY <1>1, <1>2, <1>5
<1> QED
  BY <1>1, <1>6, <1>7 DEF TextInv

\* NestedParsed: the first TCP reader has found every JSON text that has arrived,
\* in order and once, if their contents are nested.
THEOREM AllTextsFound == Spec => []NestedParsed
<1>1. TextInv /\ FrameInv => NestedParsed
  <2> SUFFICES ASSUME TextInv, FrameInv, Nests, at # "text"
               PROVE  InOrder(out, ReadUpTo(filled) \cap JSONTexts)
    BY DEF NestedParsed, Nests
  <2>1. /\ client.kind = "old_tcp" /\ client \in Clients /\ pos \in Nat /\ filled \in pos .. Total
        /\ InOrder(out, ReadUpTo(pos) \cap JSONTexts)
        /\ \A i \in JSONTexts : End(i) <= filled => End(i) <= pos
    BY DEF TextInv, Nests, FrameInv
  <2>2. \A i \in JSONTexts : End(i) \in Nat
    BY <2>1, TextPlaces
  <2>3. \A i \in JSONTexts : End(i) <= filled <=> End(i) <= pos
    <3>1. filled \in Int /\ pos <= filled
      <4>1. Total \in Nat
        BY <2>1, Layout
      <4> QED
        BY <2>1, <4>1
    <3> QED
      BY <2>1, <2>2, <3>1
  <2>4. ReadUpTo(filled) \cap JSONTexts = ReadUpTo(pos) \cap JSONTexts
    BY <2>1, <2>3 DEF ReadUpTo
  <2> QED
    BY <2>1, <2>4
<1> QED
  BY <1>1, TextInit, TextInvStep, FrameInvariant, PTL DEF Spec
=============================================================================
