------------------------ MODULE InputQueueProofs ----------------------------
(***************************************************************************)
(* What the input queue guarantees, for every stream that peers may send,  *)
(* every size of the buffers and of the messages, and however recvmsg()    *)
(* cuts the stream.                                                        *)
(*                                                                         *)
(* InputInv says of the queue as a value that its offsets and charges are  *)
(* sound (QueueSound) and fit the phase it is in (PhaseSound); of what is  *)
(* left to hand out, in the queue and in the socket, that it is the rest   *)
(* of a stream, with descriptors by the message they are for               *)
(* (ContentSound); and that neither descriptors (FdsKept) nor bytes        *)
(* (Conserved) are lost.                                                   *)
(***************************************************************************)
EXTENDS InputQueue, CollectionLemmas

\* The queue as a value.
Pendings ==
    [what : {"none", "header", "message"}, n : Nat, got : Seq(Byte), fds : Nat, charged : Nat]
IQueues ==
    [data : Seq(Byte), start : Nat, cursor : Nat, enlarged : BOOLEAN, charged : Nat,
     fds : Nat, fdsCharged : BOOLEAN, header : Seq(Byte), pending : Pendings,
     pendingFdsCharged : BOOLEAN]

\* Offsets are in order, charges are those of what is there, and the header is
\* kept exactly while its message is pending.
QueueSound(q) ==
    /\ q \in IQueues
    /\ q.start <= q.cursor /\ q.cursor <= Len(q.data) /\ Len(q.data) <= DataSize(q)
    /\ Len(q.pending.got) <= q.pending.n
    /\ q.charged = IF q.enlarged THEN LineMax ELSE 0
    /\ q.pending.charged = q.pending.n
    /\ q.fdsCharged <=> q.fds # 0
    /\ q.pendingFdsCharged <=> q.pending.fds # 0
    /\ q.fds # 0 => q.cursor < Len(q.data)
    /\ ~HasTarget(q) => q.pending = NoTarget
    /\ q.pending.what = "header" => q.pending.n = HeaderSize
    /\ IF q.pending.what = "message" THEN Len(q.header) = HeaderSize ELSE q.header = <<>>

\* With l lines to come: what is before the cursor has no end of a line, and with
\* none the cursor is not used.
PhaseSound(q, l) ==
    /\ l = 0 => q.cursor = q.start
    /\ l > 0 => /\ ~HasTarget(q)
                /\ q.start > 0 => q.data[q.start] = LF
                /\ \A k \in q.start + 2 .. q.cursor : ~(q.data[k - 1] = CR /\ q.data[k] = LF)

\* What is in the queue, in the order of the stream.
Left(q) == (q.header \o q.pending.got) \o Rest(q)

\* What is not handed out yet are l lines and the messages from m on; descriptors
\* are with the message they are for.
ContentSound(q, l, m, w) ==
    /\ Conforms(Left(q) \o BytesOf(w), l, m)
    /\ q.fds # 0 => q.data[Len(q.data)][1] \in {0, q.fds}
    /\ q.pending.fds \in {0, m}
    /\ q.pending.what = "message" => m \in DOMAIN BodySize /\ q.pending.n = BodySize[m]

\* Descriptors are with bytes of the message they are for, or with lines.
BuffersSound(w) ==
    /\ w \in Seq(SocketBuffer)
    /\ \A k \in DOMAIN w : w[k].fds # 0 =>
          \E m \in {0, w[k].fds} : \A i \in DOMAIN w[k].bytes : w[k].bytes[i][1] = m

\* Descriptors are not lost.
FdSets(s) == {s[k].fds : k \in DOMAIN s} \ {0}
FdsKept(q, w, ms) ==
    FdSets(sent) = (FdSets(w) \cup FdSets(ms) \cup {q.fds, q.pending.fds}) \ {0}

\* Bytes are not lost.
Handed(ls, ms) ==
    FlattenSeq([k \in DOMAIN ls |-> ls[k] \o <<CR, LF>>]) \o BytesOf(ms)
Conserved(q, w, ls, ms) == Handed(ls, ms) \o (Left(q) \o BytesOf(w)) = SentBytes

\* What was handed out are the first messages, whole, with their descriptors.
MessagesSound(ms) ==
    /\ ms \in Seq(SocketBuffer)
    /\ \A k \in DOMAIN ms :
          /\ k \in DOMAIN BodySize
          /\ ms[k].bytes = [i \in 1 .. HeaderSize + BodySize[k] |-> <<k, i>>]
          /\ ms[k].fds = FdsOf(k)

\* The inductive invariant.
InputInv ==
    /\ sent \in Streams /\ open \in BOOLEAN
    /\ lines \in Seq(Seq(Byte)) /\ Len(lines) <= Lines
    /\ Len(lines) < Lines => messages = <<>>
    /\ MessagesSound(messages)
    /\ BuffersSound(buffers)
    /\ QueueSound(iq)
    /\ open => /\ PhaseSound(iq, Lines - Len(lines))
               /\ ContentSound(iq, Lines - Len(lines), Len(messages) + 1, buffers)
               /\ FdsKept(iq, buffers, messages)
               /\ Conserved(iq, buffers, lines, messages)
-----------------------------------------------------------------------------
(* Streams *)

\* The least of some numbers.
LEMMA MinIs ==
    ASSUME NEW T, T \subseteq Nat, T # {}
    PROVE  Min(T) \in T /\ \A n \in T : Min(T) <= n
<1>1. \E m \in T : \A n \in T : m <= n
  BY LeastElement
<1> QED BY <1>1 DEF Min

\* The lesser of two.
LEMMA MinOfTwo ==
    ASSUME NEW a \in Nat, NEW b \in Nat
    PROVE  Min({a, b}) = IF a <= b THEN a ELSE b
<1>1. {a, b} \subseteq Nat /\ {a, b} # {}
  OBVIOUS
<1>2. Min({a, b}) \in {a, b} /\ Min({a, b}) <= a /\ Min({a, b}) <= b
  BY <1>1, MinIs
<1> QED BY <1>2

\* Sizes are numbers.
LEMMA Sizes ==
    /\ RecvMax \in Nat /\ LineMax \in Nat /\ RecvMax > 0 /\ LineMax > RecvMax
    /\ HeaderSize \in Nat /\ HeaderSize > 0 /\ HeaderSize < RecvMax
    /\ Lines \in Nat
    /\ \A m \in DOMAIN BodySize : m \in Nat /\ m >= 1 /\ BodySize[m] \in Nat
  BY InputQueueAssumption

\* With no line to come, every byte follows the one before it.
LEMMA ConformsStep ==
    ASSUME NEW b \in Seq(Byte), NEW m \in Nat, m >= 1
    PROVE  Conforms(b, 0, m) <=>
              \A k \in 1 .. Len(b) :
                 /\ b[k] = IF k = 1 \/ b[k - 1][1] = 0 THEN <<m, 1>> ELSE Following(b[k - 1])
                 /\ b[k][1] \in DOMAIN BodySize
<1>1. ASSUME NEW k \in 1 .. Len(b) PROVE ~(Cardinality({e \in LineEnds(b) : e < k}) < 0)
  <2> DEFINE S == {e \in LineEnds(b) : e < k}
  <2>1. S \subseteq 2 .. Len(b) /\ IsFiniteSet(2 .. Len(b))
    BY FS_Interval DEF LineEnds
  <2>2. Cardinality(S) \in Nat
    BY <2>1, FS_Subset, FS_CardinalityType
  <2> QED BY <2>2
<1> QED BY <1>1 DEF Conforms

\* The first byte, and the one after byte i.
LEMMA ConformsNext ==
    ASSUME NEW b \in Seq(Byte), NEW m \in Nat, m >= 1, Conforms(b, 0, m)
    PROVE  /\ b # <<>> => b[1] = <<m, 1>> /\ m \in DOMAIN BodySize
           /\ \A i \in 1 .. Len(b) - 1 :
                 b[i][1] # 0 => b[i + 1] = Following(b[i])
<1>1. ASSUME NEW k \in 1 .. Len(b)
      PROVE  /\ b[k] = IF k = 1 \/ b[k - 1][1] = 0 THEN <<m, 1>> ELSE Following(b[k - 1])
             /\ b[k][1] \in DOMAIN BodySize
  BY ConformsStep
<1>2. ASSUME b # <<>> PROVE b[1] = <<m, 1>> /\ m \in DOMAIN BodySize
  <2>1. 1 \in 1 .. Len(b)
    BY <1>2
  <2>2. b[1] = <<m, 1>> /\ b[1][1] \in DOMAIN BodySize
    BY <1>1, <2>1
  <2> QED BY <2>2
<1>3. ASSUME NEW i \in 1 .. Len(b) - 1, b[i][1] # 0 PROVE b[i + 1] = Following(b[i])
  <2> DEFINE k == i + 1
  <2>1. k \in 1 .. Len(b) /\ k # 1 /\ k - 1 = i
    OBVIOUS
  <2> HIDE DEF k
  <2>2. b[k] = Following(b[i])
    BY <1>1, <1>3, <2>1
  <2> QED BY <2>2 DEF k
<1> QED BY <1>2, <1>3

\* The bytes of the message m that comes first.
LEMMA MessageBytes ==
    ASSUME NEW b \in Seq(Byte), NEW m \in Nat, m >= 1, Conforms(b, 0, m)
    PROVE  /\ b # <<>> => m \in DOMAIN BodySize
           /\ \A i \in 1 .. Len(b) : i <= HeaderSize + BodySize[m] => b[i] = <<m, i>>
<1>1. b # <<>> => m \in DOMAIN BodySize
  BY ConformsNext
<1> DEFINE P == {i \in Nat : i \in 1 .. Len(b) /\ i <= HeaderSize + BodySize[m] => b[i] = <<m, i>>}
<1>2. 0 \in P
  OBVIOUS
<1>3. ASSUME NEW i \in Nat, i \in P PROVE i + 1 \in P
  <2> SUFFICES ASSUME i + 1 \in 1 .. Len(b), i + 1 <= HeaderSize + BodySize[m]
               PROVE  b[i + 1] = <<m, i + 1>>
    OBVIOUS
  <2>1. CASE i = 0
    BY <2>1, ConformsNext
  <2>2. CASE i > 0
    <3>1. m \in DOMAIN BodySize /\ BodySize[m] \in Nat
      BY <1>1, Sizes
    <3>2. b[i] = <<m, i>>
      BY <1>3, <2>2, <3>1, Sizes
    <3>3. i \in 1 .. Len(b) - 1 /\ b[i][1] # 0
      BY <2>2, <3>2
    <3>4. b[i + 1] = Following(b[i])
      BY <3>3, ConformsNext
    <3> QED BY <3>1, <3>2, <3>4, Sizes DEF Following
  <2> QED BY <2>1, <2>2
<1> HIDE DEF P
<1>4. Nat \subseteq P
  BY <1>2, <1>3, NatSetInduction
<1> QED BY <1>1, <1>4 DEF P

\* None of the bytes is of an earlier message.
LEMMA LaterBytes ==
    ASSUME NEW b \in Seq(Byte), NEW m \in Nat, m >= 1, Conforms(b, 0, m)
    PROVE  \A i \in 1 .. Len(b) : b[i][1] \in Nat /\ b[i][1] >= m
<1> DEFINE P == {i \in Nat : i \in 1 .. Len(b) => b[i][1] \in Nat /\ b[i][1] >= m}
<1>1. 0 \in P
  OBVIOUS
<1>2. ASSUME NEW i \in Nat, i \in P PROVE i + 1 \in P
  <2> SUFFICES ASSUME i + 1 \in 1 .. Len(b) PROVE b[i + 1][1] \in Nat /\ b[i + 1][1] >= m
    OBVIOUS
  <2>1. CASE i = 0
    BY <2>1, ConformsNext
  <2>2. CASE i > 0
    <3>1. b[i][1] \in Nat /\ b[i][1] >= m
      BY <1>2, <2>2
    <3>2. i \in 1 .. Len(b) - 1 /\ b[i][1] # 0
      BY <2>2, <3>1
    <3>3. b[i + 1] = Following(b[i])
      BY <3>2, ConformsNext
    <3> QED BY <3>1, <3>3 DEF Following
  <2> QED BY <2>1, <2>2
<1> HIDE DEF P
<1>3. Nat \subseteq P
  BY <1>1, <1>2, NatSetInduction
<1> QED BY <1>3 DEF P

\* Behind a message comes the next one.
LEMMA MessageTail ==
    ASSUME NEW b \in Seq(Byte), NEW m \in DOMAIN BodySize, Conforms(b, 0, m),
           NEW n \in Nat, n = HeaderSize + BodySize[m],
           NEW t \in Seq(Byte), Len(b) = n + Len(t), \A k \in 1 .. Len(t) : t[k] = b[n + k]
    PROVE  Conforms(t, 0, m + 1)
<1>1. m \in Nat /\ m >= 1 /\ n >= 1 /\ BodySize[m] \in Nat
  BY Sizes
<1>2. \A i \in 1 .. Len(b) : b[i][1] \in Nat /\ b[i][1] >= m
  BY <1>1, LaterBytes
<1>3. \A i \in 1 .. Len(b) : i <= HeaderSize + BodySize[m] => b[i] = <<m, i>>
  BY <1>1, MessageBytes
<1>4. ASSUME NEW k \in 1 .. Len(t)
      PROVE  /\ t[k] = IF k = 1 \/ t[k - 1][1] = 0 THEN <<m + 1, 1>> ELSE Following(t[k - 1])
             /\ t[k][1] \in DOMAIN BodySize
  <2>1. n + k \in 1 .. Len(b) /\ n + k - 1 \in 1 .. Len(b) - 1 /\ t[k] = b[n + k]
    BY <1>1
  <2>2. t[k][1] \in DOMAIN BodySize
    BY <1>1, <2>1, ConformsStep
  <2>3. b[n + k] = Following(b[n + k - 1])
    <3> DEFINE i == n + k - 1
    <3>1. i \in 1 .. Len(b) /\ i \in 1 .. Len(b) - 1 /\ i + 1 = n + k
      BY <1>1, <2>1, SMTT(20)
    <3> HIDE DEF i
    <3>2. b[i][1] # 0
      BY <1>1, <1>2, <3>1
    <3>3. b[i + 1] = Following(b[i])
      BY <1>1, <3>1, <3>2, ConformsNext
    <3> QED BY <3>1, <3>3 DEF i
  <2>4. CASE k = 1
    <3>1. n \in 1 .. Len(b) /\ n + k - 1 = n
      BY <1>1, <2>4
    <3>2. b[n] = <<m, n>>
      BY <1>1, <1>3, <3>1
    <3>3. Following(b[n]) = <<m + 1, 1>>
      BY <1>1, <3>2 DEF Following
    <3> QED BY <2>1, <2>2, <2>3, <2>4, <3>1, <3>3
  <2>5. CASE k # 1
    <3>1. k - 1 \in 1 .. Len(t) /\ n + (k - 1) = n + k - 1 /\ n + k - 1 \in 1 .. Len(b)
      BY <1>1, <2>5
    <3>2. t[k - 1] = b[n + k - 1]
      BY <3>1
    <3>3. t[k - 1][1] # 0
      BY <1>1, <1>2, <3>1, <3>2
    <3> QED BY <2>1, <2>2, <2>3, <2>5, <3>2, <3>3
  <2> QED BY <2>4, <2>5
<1>5. m + 1 \in Nat /\ m + 1 >= 1
  BY <1>1
<1> QED BY <1>4, <1>5, ConformsStep

\* Behind a line come the others.
LEMMA LineTail ==
    ASSUME NEW b \in Seq(Byte), NEW l \in Nat, l > 0, NEW m \in Nat, Conforms(b, l, m),
           NEW e \in LineEnds(b), \A k \in LineEnds(b) : e <= k,
           NEW t \in Seq(Byte), Len(b) = e + Len(t), \A k \in 1 .. Len(t) : t[k] = b[e + k]
    PROVE  Conforms(t, l - 1, m)
<1>1. /\ e \in Nat /\ e >= 2 /\ e <= Len(b) /\ b[e] = LF
      /\ \A k \in LineEnds(b) : k \in Nat /\ k >= 2 /\ k <= Len(b)
      /\ \A k \in LineEnds(t) : k \in Nat /\ k >= 2 /\ k <= Len(t)
  BY DEF LineEnds
<1>2. ASSUME NEW k \in Nat PROVE k \in LineEnds(t) <=> k >= 1 /\ e + k \in LineEnds(b)
  <2>1. CASE k \in 2 .. Len(t)
    <3>1. k - 1 \in 1 .. Len(t) /\ k \in 1 .. Len(t) /\ e + (k - 1) = e + k - 1
      BY <2>1
    <3>2. t[k] = b[e + k] /\ t[k - 1] = b[e + k - 1]
      BY <3>1
    <3>3. e + k \in 2 .. Len(b)
      BY <1>1, <2>1
    <3> QED BY <2>1, <3>2, <3>3 DEF LineEnds
  <2>2. CASE k = 1
    <3>1. b[e] # CR /\ e + k - 1 = e
      BY <1>1, <2>2 DEF CR, LF
    <3>2. e + k \notin LineEnds(b)
      BY <3>1 DEF LineEnds
    <3> QED BY <1>1, <2>2, <3>2
  <2>3. CASE k = 0 \/ k > Len(t)
    BY <1>1, <2>3
  <2> QED BY <2>1, <2>2, <2>3
<1>3. ASSUME NEW k \in 1 .. Len(t)
      PROVE  Cardinality({x \in LineEnds(b) : x < e + k})
                = Cardinality({x \in LineEnds(t) : x < k}) + 1
  <2> DEFINE B == {x \in LineEnds(b) : x < e + k}
             T == {x \in LineEnds(t) : x < k}
             f == [x \in T |-> e + x]
  <2>1. IsFiniteSet(B) /\ IsFiniteSet(T)
    <3>1. B \subseteq 2 .. Len(b) /\ T \subseteq 2 .. Len(t)
      BY DEF LineEnds
    <3>2. IsFiniteSet(2 .. Len(b)) /\ IsFiniteSet(2 .. Len(t))
      BY FS_Interval
    <3> QED BY <3>1, <3>2, FS_Subset
  <2>2. e \in B
    BY <1>1
  <2>3. \A x \in T : x \in Nat /\ x >= 1 /\ e + x \in B \ {e}
    BY <1>1, <1>2
  <2>4. ASSUME NEW y \in B \ {e} PROVE \E x \in T : y = e + x
    <3>1. y \in Nat /\ y > e /\ y < e + k /\ y \in LineEnds(b)
      BY <1>1, <2>4
    <3>2. y - e \in Nat /\ e + (y - e) = y /\ y - e < k /\ y - e >= 1
      BY <1>1, <3>1
    <3>3. y - e \in LineEnds(t)
      BY <1>2, <3>1, <3>2
    <3> QED BY <3>2, <3>3
  <2>5. f \in Bijection(T, B \ {e})
    <3>1. f \in [T -> B \ {e}]
      BY <2>3
    <3>2. \A x, y \in T : f[x] = f[y] => x = y
      BY <1>1, <2>3
    <3>3. \A y \in B \ {e} : \E x \in T : f[x] = y
      BY <2>4
    <3> QED BY <3>1, <3>2, <3>3 DEF Bijection, Injection, Surjection, IsInjective
  <2>6. Cardinality(T) = Cardinality(B \ {e})
    <3>1. ExistsBijection(T, B \ {e})
      BY <2>5 DEF ExistsBijection
    <3> QED BY <2>1, <3>1, FS_Bijection
  <2>7. Cardinality(B \ {e}) = Cardinality(B) - 1 /\ Cardinality(B) \in Nat
    BY <2>1, <2>2, FS_RemoveElement, FS_CardinalityType
  <2> QED BY <2>6, <2>7
<1>4. ASSUME NEW k \in 1 .. Len(t)
      PROVE  IF Cardinality({x \in LineEnds(t) : x < k}) < l - 1 THEN t[k][1] = 0
             ELSE /\ t[k] = IF k = 1 \/ t[k - 1][1] = 0 THEN <<m, 1>> ELSE Following(t[k - 1])
                  /\ t[k][1] \in DOMAIN BodySize
  <2> DEFINE c == Cardinality({x \in LineEnds(t) : x < k})
             d == Cardinality({x \in LineEnds(b) : x < e + k})
             j == e + k
  <2>1. j \in 1 .. Len(b) /\ j # 1 /\ j - 1 \in 1 .. Len(b) /\ t[k] = b[j]
    BY <1>1
  <2>2. IF d < l THEN b[j][1] = 0
        ELSE /\ b[j] = IF j = 1 \/ b[j - 1][1] = 0 THEN <<m, 1>> ELSE Following(b[j - 1])
             /\ b[j][1] \in DOMAIN BodySize
    BY <2>1 DEF Conforms
  <2>3. c \in Nat
    <3>1. {x \in LineEnds(t) : x < k} \subseteq 2 .. Len(t) /\ IsFiniteSet(2 .. Len(t))
      BY FS_Interval DEF LineEnds
    <3> QED BY <3>1, FS_Subset, FS_CardinalityType
  <2>4. d = c + 1
    BY <1>3
  <2>5. IF k = 1 THEN b[j - 1][1] = 0 ELSE b[j - 1] = t[k - 1]
    <3>1. CASE k = 1
      BY <1>1, <3>1 DEF LF
    <3>2. CASE k # 1
      <4>1. k - 1 \in 1 .. Len(t) /\ e + (k - 1) = j - 1
        BY <1>1, <3>2
      <4> QED BY <3>2, <4>1
    <3> QED BY <3>1, <3>2
  <2> HIDE DEF c, d, j
  <2>6. d < l <=> c < l - 1
    BY <2>3, <2>4
  <2>7. QED
    BY <2>1, <2>2, <2>5, <2>6 DEF c
<1> QED BY <1>4 DEF Conforms

-----------------------------------------------------------------------------
(* Socket buffers *)

\* The bytes of each.
BytesSeq(w) == [k \in DOMAIN w |-> w[k].bytes]

\* The parts of a socket buffer.
LEMMA BufferParts ==
    ASSUME NEW w \in Seq(SocketBuffer), NEW k \in 1 .. Len(w)
    PROVE  /\ w[k] = [bytes |-> w[k].bytes, fds |-> w[k].fds]
           /\ w[k].bytes \in Seq(Byte) /\ w[k].bytes # <<>> /\ w[k].fds \in Nat
           /\ Len(w[k].bytes) \in Nat /\ Len(w[k].bytes) >= 1
<1>1. w[k] \in SocketBuffer
  BY ElementOfSeq
<1> QED BY <1>1 DEF SocketBuffer

\* The bytes of socket buffers are a sequence of bytes.
LEMMA BytesType ==
    ASSUME NEW w \in Seq(SocketBuffer)
    PROVE  /\ BytesSeq(w) \in Seq(Seq(Byte)) /\ Len(BytesSeq(w)) = Len(w)
           /\ \A k \in 1 .. Len(w) : BytesSeq(w)[k] = w[k].bytes
           /\ BytesOf(w) = FlattenSeq(BytesSeq(w))
           /\ BytesOf(w) \in Seq(Byte)
<1>1. DOMAIN w = 1 .. Len(w) /\ Len(w) \in Nat
  OBVIOUS
<1>2. \A k \in 1 .. Len(w) : w[k].bytes \in Seq(Byte)
  BY BufferParts
<1>3. /\ BytesSeq(w) \in Seq(Seq(Byte)) /\ Len(BytesSeq(w)) = Len(w)
      /\ \A k \in 1 .. Len(w) : BytesSeq(w)[k] = w[k].bytes
  BY <1>1, <1>2 DEF BytesSeq
<1>4. BytesOf(w) = FlattenSeq(BytesSeq(w))
  BY DEF BytesOf, BytesSeq
<1> QED BY <1>3, <1>4, FlattenType

\* Two parts.
LEMMA BytesParts ==
    ASSUME NEW w \in Seq(SocketBuffer), NEW u \in Seq(SocketBuffer), NEW v \in Seq(SocketBuffer),
           Len(w) = Len(u) + Len(v),
           \A i \in 1 .. Len(u) : w[i].bytes = u[i].bytes,
           \A i \in 1 .. Len(v) : w[Len(u) + i].bytes = v[i].bytes
    PROVE  BytesOf(w) = BytesOf(u) \o BytesOf(v)
<1> DEFINE r == BytesSeq(w)
           s == BytesSeq(u)
           t == BytesSeq(v)
<1>1. /\ r \in Seq(Seq(Byte)) /\ s \in Seq(Seq(Byte)) /\ t \in Seq(Seq(Byte))
      /\ Len(r) = Len(w) /\ Len(s) = Len(u) /\ Len(t) = Len(v)
      /\ BytesOf(w) = FlattenSeq(r) /\ BytesOf(u) = FlattenSeq(s) /\ BytesOf(v) = FlattenSeq(t)
      /\ \A i \in 1 .. Len(w) : r[i] = w[i].bytes
      /\ \A i \in 1 .. Len(u) : s[i] = u[i].bytes
      /\ \A i \in 1 .. Len(v) : t[i] = v[i].bytes
  BY BytesType
<1> HIDE DEF r, s, t
<1>2. Len(u) \in Nat /\ Len(v) \in Nat
  OBVIOUS
<1>3. \A i \in 1 .. Len(s) : r[i] = s[i]
  <2> SUFFICES ASSUME NEW i \in 1 .. Len(s) PROVE r[i] = s[i]
    OBVIOUS
  <2>1. i \in 1 .. Len(w) /\ i \in 1 .. Len(u)
    BY <1>1, <1>2
  <2> QED BY <1>1, <2>1
<1>4. \A i \in 1 .. Len(t) : r[Len(s) + i] = t[i]
  <2> SUFFICES ASSUME NEW i \in 1 .. Len(t) PROVE r[Len(s) + i] = t[i]
    OBVIOUS
  <2>1. Len(u) + i \in 1 .. Len(w) /\ i \in 1 .. Len(v)
    BY <1>1, <1>2
  <2> QED BY <1>1, <2>1
<1>5. Len(r) = Len(s) + Len(t)
  BY <1>1
<1>6. FlattenSeq(r) = FlattenSeq(s) \o FlattenSeq(t)
  <2>1. r \in Seq(Seq(Byte)) /\ s \in Seq(Seq(Byte)) /\ t \in Seq(Seq(Byte))
    BY <1>1
  <2> QED BY ONLY <1>3, <1>4, <1>5, <2>1, FlattenParts
<1> QED BY <1>1, <1>6

\* One more.
LEMMA BytesAppend ==
    ASSUME NEW w \in Seq(SocketBuffer), NEW x \in SocketBuffer
    PROVE  /\ Append(w, x) \in Seq(SocketBuffer)
           /\ BytesOf(Append(w, x)) = BytesOf(w) \o x.bytes
           /\ x.bytes \in Seq(Byte) /\ BytesOf(w) \in Seq(Byte)
<1> DEFINE v == Append(w, x)
           y == x.bytes
<1>1. /\ v \in Seq(SocketBuffer) /\ Len(v) = Len(w) + 1
      /\ \A i \in 1 .. Len(w) : v[i] = w[i]
      /\ v[Len(w) + 1] = x
  BY AppendProperties
<1>2. y \in Seq(Byte)
  BY DEF SocketBuffer
<1> HIDE DEF v, y
<1>3. /\ BytesSeq(w) \in Seq(Seq(Byte)) /\ Len(BytesSeq(w)) = Len(w)
      /\ \A i \in 1 .. Len(w) : BytesSeq(w)[i] = w[i].bytes
      /\ BytesOf(w) = FlattenSeq(BytesSeq(w)) /\ BytesOf(w) \in Seq(Byte)
  BY BytesType
<1>4. /\ BytesSeq(v) \in Seq(Seq(Byte)) /\ Len(BytesSeq(v)) = Len(v)
      /\ \A i \in 1 .. Len(v) : BytesSeq(v)[i] = v[i].bytes
      /\ BytesOf(v) = FlattenSeq(BytesSeq(v))
  BY <1>1, BytesType
<1>5. BytesSeq(v) = Append(BytesSeq(w), y)
  <2> DEFINE z == Append(BytesSeq(w), y)
  <2>1. /\ z \in Seq(Seq(Byte)) /\ Len(z) = Len(w) + 1
        /\ \A i \in 1 .. Len(w) : z[i] = BytesSeq(w)[i]
        /\ z[Len(w) + 1] = y
    BY <1>2, <1>3, AppendsTo
  <2> HIDE DEF z
  <2>2. \A i \in 1 .. Len(w) + 1 : i \in 1 .. Len(w) \/ i = Len(w) + 1
    OBVIOUS
  <2>3. ASSUME NEW i \in 1 .. Len(w) + 1 PROVE BytesSeq(v)[i] = z[i]
    <3>1. CASE i \in 1 .. Len(w)
      BY <1>1, <1>3, <1>4, <2>1, <3>1
    <3>2. CASE i = Len(w) + 1
      BY <1>1, <1>4, <2>1, <3>2 DEF y
    <3> QED BY <2>2, <3>1, <3>2
  <2>4. BytesSeq(v) = z
    BY <1>1, <1>4, <2>1, <2>3, SeqEqual, SMTT(20)
  <2> QED BY <2>4 DEF z
<1>6. FlattenSeq(Append(BytesSeq(w), y)) = FlattenSeq(BytesSeq(w)) \o y
  BY <1>2, <1>3, FlattenLast
<1> QED BY <1>1, <1>2, <1>3, <1>4, <1>5, <1>6 DEF v, y

\* What recvmsg() returns and what it leaves, buffer by buffer.
LEMMA ChunkParts ==
    ASSUME buffers \in Seq(SocketBuffer), NEW k \in 1 .. Len(buffers),
           NEW n \in 1 .. Len(buffers[k].bytes)
    PROVE  LET b == buffers[k].bytes
               c == Chunk(k, n)
               u == Unread(k, n) IN
           /\ c \in Seq(SocketBuffer) /\ Len(c) = k
           /\ \A i \in 1 .. k - 1 : c[i] = buffers[i]
           /\ c[k].bytes = SubSeq(b, 1, n)
           /\ u \in Seq(SocketBuffer)
           /\ n = Len(b) => /\ Len(u) = Len(buffers) - k
                            /\ \A i \in 1 .. Len(u) : u[i] = buffers[k + i]
           /\ n # Len(b) => /\ Len(u) = Len(buffers) - k + 1
                            /\ u[1] = [bytes |-> SubSeq(b, n + 1, Len(b)), fds |-> 0]
                            /\ \A i \in 1 .. Len(u) - 1 : u[i + 1] = buffers[k + i]
<1> DEFINE b == buffers[k].bytes
           N == Len(buffers)
           x == [buffers[k] EXCEPT !.bytes = SubSeq(b, 1, n)]
           y == [bytes |-> SubSeq(b, n + 1, Len(b)), fds |-> 0]
           first == SubSeq(buffers, 1, k - 1)
           later == SubSeq(buffers, k + 1, N)
<1>1. /\ buffers[k] = [bytes |-> b, fds |-> buffers[k].fds]
      /\ b \in Seq(Byte) /\ b # <<>> /\ buffers[k].fds \in Nat
      /\ Len(b) \in Nat /\ n \in Nat /\ n >= 1 /\ n <= Len(b)
  BY BufferParts
<1>2. N \in Nat /\ k \in Nat /\ k >= 1 /\ k <= N
  OBVIOUS
<1>3. \A i \in 1 .. N : buffers[i] \in SocketBuffer
  BY ElementOfSeq
<1>4. SubSeq(b, 1, n) \in Seq(Byte) /\ Len(SubSeq(b, 1, n)) = n
  <2>1. \A i \in 1 .. n : b[i] \in Byte
    BY <1>1
  <2> QED BY <1>1, <2>1, SubSeqProperties
<1>5. x \in SocketBuffer /\ x.bytes = SubSeq(b, 1, n)
  <2>1. SubSeq(b, 1, n) # <<>>
    BY <1>1, <1>4
  <2> HIDE DEF b
  <2> QED BY <1>1, <1>4, <2>1 DEF SocketBuffer
<1>6. n # Len(b) => y \in SocketBuffer
  <2> SUFFICES ASSUME n # Len(b) PROVE y \in SocketBuffer
    OBVIOUS
  <2>1. \A i \in n + 1 .. Len(b) : b[i] \in Byte
    BY <1>1
  <2>2. SubSeq(b, n + 1, Len(b)) \in Seq(Byte) /\ Len(SubSeq(b, n + 1, Len(b))) = Len(b) - n
    BY <1>1, <2>1, SubSeqProperties
  <2>3. SubSeq(b, n + 1, Len(b)) # <<>>
    <3> DEFINE z == SubSeq(b, n + 1, Len(b))
    <3>1. Len(z) > 0 /\ z \in Seq(Byte)
      BY <1>1, <2>2
    <3> HIDE DEF z
    <3>2. z # <<>>
      BY <3>1
    <3> QED BY <3>2 DEF z
  <2> HIDE DEF b
  <2> QED BY <2>2, <2>3 DEF SocketBuffer
<1>7. /\ first \in Seq(SocketBuffer) /\ Len(first) = k - 1
      /\ \A i \in 1 .. k - 1 : first[i] = buffers[i]
  <2>1. \A i \in 1 .. k - 1 : buffers[i] \in SocketBuffer
    BY <1>2, <1>3
  <2>2. /\ first \in Seq(SocketBuffer)
        /\ Len(first) = IF 1 <= k - 1 THEN k - 1 - 1 + 1 ELSE 0
        /\ \A i \in 1 .. k - 1 - 1 + 1 : first[i] = buffers[1 + i - 1]
    BY <1>2, <2>1, SubSeqProperties
  <2> HIDE DEF first
  <2> QED BY <1>2, <2>2
<1>8. /\ later \in Seq(SocketBuffer) /\ Len(later) = N - k
      /\ \A i \in 1 .. N - k : later[i] = buffers[k + i]
  <2>1. \A i \in k + 1 .. N : buffers[i] \in SocketBuffer
    BY <1>2, <1>3
  <2>2. /\ later \in Seq(SocketBuffer)
        /\ Len(later) = IF k + 1 <= N THEN N - (k + 1) + 1 ELSE 0
        /\ \A i \in 1 .. N - (k + 1) + 1 : later[i] = buffers[k + 1 + i - 1]
    BY <1>2, <2>1, SubSeqProperties
  <2> HIDE DEF later
  <2>3. \A i \in 1 .. N - k : i \in 1 .. N - (k + 1) + 1 /\ k + 1 + i - 1 = k + i
    BY <1>2
  <2> QED BY <1>2, <2>2, <2>3
<1>9. Chunk(k, n) = Append(first, x) /\ Unread(k, n) = IF n = Len(b) THEN later ELSE <<y>> \o later
  BY DEF Chunk, Unread
<1> HIDE DEF b, x, y, first, later
<1>10. LET c == Append(first, x) IN
       /\ c \in Seq(SocketBuffer) /\ Len(c) = k
       /\ \A i \in 1 .. k - 1 : c[i] = buffers[i]
       /\ c[k] = x
  <2>1. /\ Append(first, x) \in Seq(SocketBuffer) /\ Len(Append(first, x)) = Len(first) + 1
        /\ \A i \in 1 .. Len(first) : Append(first, x)[i] = first[i]
        /\ Append(first, x)[Len(first) + 1] = x
    BY <1>5, <1>7, AppendProperties
  <2> QED BY <1>2, <1>7, <2>1
<1>11. n # Len(b) =>
       LET u == <<y>> \o later IN
       /\ u \in Seq(SocketBuffer) /\ Len(u) = N - k + 1
       /\ u[1] = y
       /\ \A i \in 1 .. N - k : u[i + 1] = buffers[k + i]
  <2> SUFFICES ASSUME n # Len(b)
               PROVE  LET u == <<y>> \o later IN
                      /\ u \in Seq(SocketBuffer) /\ Len(u) = N - k + 1
                      /\ u[1] = y
                      /\ \A i \in 1 .. N - k : u[i + 1] = buffers[k + i]
    OBVIOUS
  <2> DEFINE u == <<y>> \o later
  <2>1. <<y>> \in Seq(SocketBuffer) /\ Len(<<y>>) = 1 /\ <<y>>[1] = y
    BY <1>6
  <2>2. /\ u \in Seq(SocketBuffer) /\ Len(u) = 1 + Len(later)
        /\ \A i \in 1 .. 1 + Len(later) : u[i] = IF i <= 1 THEN <<y>>[i] ELSE later[i - 1]
    BY <1>8, <2>1, ConcatProperties
  <2> HIDE DEF u
  <2>3. ASSUME NEW i \in 1 .. N - k PROVE u[i + 1] = buffers[k + i]
    <3> DEFINE j == i + 1
    <3>1. j \in 1 .. 1 + Len(later) /\ ~(j <= 1) /\ j - 1 = i
      BY <1>2, <1>8
    <3> HIDE DEF j
    <3>2. u[j] = later[i]
      BY <2>2, <3>1
    <3> QED BY <1>8, <3>2 DEF j
  <2>4. u[1] = y /\ Len(u) = N - k + 1
    BY <1>2, <1>8, <2>1, <2>2
  <2> QED BY <2>2, <2>3, <2>4 DEF u
<1>12. CASE n = Len(b)
  BY <1>2, <1>5, <1>8, <1>9, <1>10, <1>12, ZenonT(30) DEF b
<1>13. CASE n # Len(b)
  <2> DEFINE u == <<y>> \o later
  <2>1. u \in Seq(SocketBuffer) /\ Len(u) = N - k + 1 /\ u[1] = y
    BY <1>11, <1>13
  <2>2. \A i \in 1 .. N - k : u[i + 1] = buffers[k + i]
    BY <1>11, <1>13
  <2>3. Unread(k, n) = u
    BY <1>9, <1>13
  <2> HIDE DEF u
  <2>4. Len(u) - 1 = N - k
    BY <1>2, <2>1
  <2> QED BY <1>5, <1>9, <1>10, <1>13, <2>1, <2>2, <2>3, <2>4 DEF b, y
<1> QED BY <1>12, <1>13

\* recvmsg() loses no byte.
LEMMA ChunkBytes ==
    ASSUME buffers \in Seq(SocketBuffer), NEW k \in 1 .. Len(buffers),
           NEW n \in 1 .. Len(buffers[k].bytes)
    PROVE  BytesOf(buffers) = BytesOf(Chunk(k, n)) \o BytesOf(Unread(k, n))
<1> DEFINE b == buffers[k].bytes
           N == Len(buffers)
           c == Chunk(k, n)
           u == Unread(k, n)
<1>1. /\ b \in Seq(Byte) /\ Len(b) \in Nat /\ n \in Nat /\ n >= 1 /\ n <= Len(b)
      /\ N \in Nat /\ k \in Nat /\ k >= 1 /\ k <= N
  <2>1. b \in Seq(Byte) /\ Len(b) \in Nat
    BY BufferParts
  <2> QED BY <2>1
<1>2. /\ c \in Seq(SocketBuffer) /\ Len(c) = k
      /\ \A i \in 1 .. k - 1 : c[i] = buffers[i]
      /\ c[k].bytes = SubSeq(b, 1, n)
      /\ u \in Seq(SocketBuffer)
      /\ n = Len(b) => /\ Len(u) = N - k
                       /\ \A i \in 1 .. Len(u) : u[i] = buffers[k + i]
      /\ n # Len(b) => /\ Len(u) = N - k + 1
                       /\ u[1] = [bytes |-> SubSeq(b, n + 1, Len(b)), fds |-> 0]
                       /\ \A i \in 1 .. Len(u) - 1 : u[i + 1] = buffers[k + i]
  BY ChunkParts
<1> HIDE DEF c, u
<1>3. CASE n = Len(b)
  <2>1. SubSeq(b, 1, n) = b
    BY <1>1, <1>3, SubSeqFull
  <2>2. \A i \in 1 .. Len(c) : buffers[i].bytes = c[i].bytes
    <3> SUFFICES ASSUME NEW i \in 1 .. Len(c) PROVE buffers[i].bytes = c[i].bytes
      OBVIOUS
    <3>1. CASE i = k
      BY <1>2, <2>1, <3>1
    <3>2. CASE i # k
      <4>1. i \in 1 .. k - 1
        BY <1>1, <1>2, <3>2
      <4> QED BY <1>2, <4>1
    <3> QED BY <3>1, <3>2
  <2>3. \A i \in 1 .. Len(u) : buffers[Len(c) + i].bytes = u[i].bytes
    BY <1>2, <1>3
  <2>4. N = Len(c) + Len(u)
    BY <1>1, <1>2, <1>3
  <2>5. BytesOf(buffers) = BytesOf(c) \o BytesOf(u)
    BY <1>2, <2>2, <2>3, <2>4, BytesParts
  <2> QED BY <2>5 DEF c, u
<1>4. CASE n # Len(b)
  <2> DEFINE r == BytesSeq(buffers)
             s == BytesSeq(c)
             t == BytesSeq(u)
  <2>1. /\ r \in Seq(Seq(Byte)) /\ s \in Seq(Seq(Byte)) /\ t \in Seq(Seq(Byte))
        /\ Len(r) = N /\ Len(s) = k /\ Len(t) = N - k + 1
        /\ BytesOf(buffers) = FlattenSeq(r) /\ BytesOf(c) = FlattenSeq(s)
        /\ BytesOf(u) = FlattenSeq(t)
        /\ \A i \in 1 .. N : r[i] = buffers[i].bytes
        /\ \A i \in 1 .. k : s[i] = c[i].bytes
        /\ \A i \in 1 .. N - k + 1 : t[i] = u[i].bytes
    BY <1>2, <1>4, BytesType
  <2> HIDE DEF r, s, t
  <2> DEFINE p == k - 1
             q == N - k
  <2>2. /\ p \in Nat /\ q \in Nat /\ p + 1 = k /\ q + 1 = N - k + 1 /\ p + 1 + q = N
        /\ \A j \in 1 .. q : 1 + j \in 1 .. N - k + 1 /\ k + j \in 1 .. N
    BY <1>1
  <2>3. \A i \in 1 .. p : r[i] = s[i]
    <3> SUFFICES ASSUME NEW i \in 1 .. p PROVE r[i] = s[i]
      OBVIOUS
    <3>1. i \in 1 .. k - 1 /\ i \in 1 .. k /\ i \in 1 .. N
      BY <1>1
    <3> QED BY <1>2, <2>1, <3>1, ZenonT(30)
  <2>4. r[k] = Cat(s[k], t[1])
    <3>1. r[k] = b /\ s[k] = SubSeq(b, 1, n) /\ t[1] = SubSeq(b, n + 1, Len(b))
      <4>1. k \in 1 .. N /\ k \in 1 .. k /\ 1 \in 1 .. N - k + 1
        BY <1>1
      <4>2. r[k] = b
        BY <2>1, <4>1
      <4>3. s[k] = SubSeq(b, 1, n)
        BY <1>2, <2>1, <4>1
      <4>4. t[1] = SubSeq(b, n + 1, Len(b))
        <5>1. u[1].bytes = SubSeq(b, n + 1, Len(b))
          <6> HIDE DEF b
          <6> QED BY <1>2, <1>4
        <5> QED BY <2>1, <4>1, <5>1
      <4> QED BY <4>2, <4>3, <4>4
    <3> HIDE DEF b
    <3>2. SubSeq(b, 1, n) \o SubSeq(b, n + 1, Len(b)) = SubSeq(b, 1, Len(b))
      <4>1. 1 \in 1 .. Len(b) + 1 /\ n \in 1 - 1 .. Len(b) /\ Len(b) \in n .. Len(b)
        BY <1>1
      <4> QED BY <1>1, <4>1, ConcatAdjacentSubSeq
    <3>3. SubSeq(b, 1, Len(b)) = b
      BY <1>1, SubSeqFull
    <3> QED BY <3>1, <3>2, <3>3 DEF Cat
  <2>5. \A j \in 1 .. q : r[k + j] = t[1 + j]
    <3> SUFFICES ASSUME NEW j \in 1 .. q PROVE r[k + j] = t[1 + j]
      OBVIOUS
    <3>1. 1 + j \in 1 .. N - k + 1 /\ k + j \in 1 .. N /\ 1 + j = j + 1
      BY <1>1, <2>2
    <3>2. Len(u) - 1 = q
      <4>1. Len(u) = N - k + 1
        BY <1>2, <1>4
      <4> QED BY <1>1, <4>1
    <3>3. u[j + 1] = buffers[k + j]
      BY <1>2, <1>4, <3>2
    <3> QED BY <2>1, <3>1, <3>3
  <2> HIDE DEF p, q
  <2>6. TornAt(r, s, t, p, q)
    BY <2>1, <2>2, <2>3, <2>4, <2>5 DEF TornAt
  <2>7. FlattenSeq(r) = Cat(FlattenSeq(s), FlattenSeq(t))
    BY ONLY <2>1, <2>2, <2>6, FlattenTorn
  <2> QED BY <2>1, <2>7 DEF Cat, c, u
<1> QED BY <1>3, <1>4

\* What it returns ends with the byte it stops at.
LEMMA ChunkLast ==
    ASSUME buffers \in Seq(SocketBuffer), NEW k \in 1 .. Len(buffers),
           NEW n \in 1 .. Len(buffers[k].bytes)
    PROVE  LET x == BytesOf(Chunk(k, n)) IN
           /\ x \in Seq(Byte) /\ Len(x) \in Nat /\ Len(x) >= 1
           /\ x[Len(x)] = buffers[k].bytes[n]
<1> DEFINE b == buffers[k].bytes
           first == SubSeq(buffers, 1, k - 1)
           y == [buffers[k] EXCEPT !.bytes = SubSeq(b, 1, n)]
           z == SubSeq(b, 1, n)
           f == BytesOf(first)
<1>1. /\ buffers[k] = [bytes |-> b, fds |-> buffers[k].fds] /\ buffers[k].fds \in Nat
      /\ b \in Seq(Byte) /\ Len(b) \in Nat /\ n \in Nat /\ n >= 1 /\ n <= Len(b)
  BY BufferParts
<1>2. z \in Seq(Byte) /\ Len(z) = n /\ z[n] = b[n]
  <2>1. \A i \in 1 .. n : b[i] \in Byte
    BY <1>1
  <2>2. /\ z \in Seq(Byte) /\ Len(z) = IF 1 <= n THEN n - 1 + 1 ELSE 0
        /\ \A i \in 1 .. n - 1 + 1 : z[i] = b[1 + i - 1]
    BY <1>1, <2>1, SubSeqProperties
  <2> HIDE DEF z, b
  <2>3. n \in 1 .. n - 1 + 1 /\ 1 + n - 1 = n
    BY <1>1
  <2> QED BY <1>1, <2>2, <2>3
<1>3. first \in Seq(SocketBuffer)
  <2>1. \A i \in 1 .. k - 1 : buffers[i] \in SocketBuffer
    <3>1. \A i \in 1 .. k - 1 : i \in 1 .. Len(buffers)
      OBVIOUS
    <3> QED BY <3>1, ElementOfSeq
  <2> QED BY <2>1, SubSeqProperties
<1>4. y \in SocketBuffer /\ y.bytes = z
  <2> HIDE DEF b, z
  <2>1. z # <<>>
    BY <1>1, <1>2
  <2>2. y = [buffers[k] EXCEPT !.bytes = z]
    BY DEF z
  <2> HIDE DEF y
  <2> QED BY <1>1, <1>2, <2>1, <2>2 DEF SocketBuffer
<1> HIDE DEF y, z, first
<1>5. BytesOf(Append(first, y)) = f \o z /\ f \in Seq(Byte)
  BY <1>3, <1>4, BytesAppend
<1>6. Chunk(k, n) = Append(first, y)
  BY DEF Chunk, first, y
<1> HIDE DEF f, b
<1>7. /\ f \o z \in Seq(Byte) /\ Len(f \o z) = Len(f) + n
      /\ (f \o z)[Len(f) + n] = z[n]
  <2>1. /\ f \o z \in Seq(Byte) /\ Len(f \o z) = Len(f) + Len(z)
        /\ \A i \in 1 .. Len(f) + Len(z) : (f \o z)[i] = IF i <= Len(f) THEN f[i] ELSE z[i - Len(f)]
    BY <1>2, <1>5, ConcatProperties
  <2> DEFINE g == f \o z
             j == Len(f) + n
  <2>2. Len(f) \in Nat
    BY <1>5
  <2>3. j \in 1 .. Len(f) + Len(z) /\ ~(j <= Len(f)) /\ j - Len(f) = n
    BY <1>1, <1>2, <2>2
  <2>4. g[j] = z[n]
    <3> HIDE DEF j
    <3> QED BY <2>1, <2>3
  <2> QED BY <1>2, <2>1, <2>4
<1>8. Len(f) \in Nat
  BY <1>5
<1> DEFINE x == BytesOf(Chunk(k, n))
<1>9. x = f \o z
  BY <1>5, <1>6
<1> HIDE DEF x
<1>10. x \in Seq(Byte) /\ Len(x) = Len(f) + n /\ x[Len(f) + n] = b[n]
  BY <1>2, <1>7, <1>9
<1>11. x \in Seq(Byte) /\ Len(x) \in Nat /\ Len(x) >= 1 /\ x[Len(x)] = b[n]
  BY <1>1, <1>8, <1>10
<1> QED BY <1>11 DEF x, b

\* Every byte of a buffer is in the stream.
LEMMA BytesElement ==
    ASSUME buffers \in Seq(SocketBuffer), NEW k \in 1 .. Len(buffers),
           NEW n \in 1 .. Len(buffers[k].bytes)
    PROVE  \E j \in 1 .. Len(BytesOf(buffers)) : BytesOf(buffers)[j] = buffers[k].bytes[n]
<1> DEFINE x == BytesOf(Chunk(k, n))
           y == BytesOf(Unread(k, n))
           z == BytesOf(buffers)
<1>1. x \in Seq(Byte) /\ Len(x) \in Nat /\ Len(x) >= 1 /\ x[Len(x)] = buffers[k].bytes[n]
  BY ChunkLast
<1>2. z = x \o y
  BY ChunkBytes
<1>3. y \in Seq(Byte)
  <2>1. Unread(k, n) \in Seq(SocketBuffer)
    BY ChunkParts
  <2> QED BY <2>1, BytesType
<1> HIDE DEF x, y, z
<1>4. /\ Len(z) = Len(x) + Len(y)
      /\ \A i \in 1 .. Len(x) + Len(y) : z[i] = IF i <= Len(x) THEN x[i] ELSE y[i - Len(x)]
  BY <1>1, <1>2, <1>3, ConcatProperties
<1>5. Len(y) \in Nat
  BY <1>3
<1>6. Len(x) \in 1 .. Len(x) + Len(y) /\ Len(x) <= Len(x)
  BY <1>1, <1>5
<1>7. z[Len(x)] = x[Len(x)]
  BY <1>4, <1>6
<1> QED BY <1>1, <1>4, <1>6, <1>7 DEF z

\* What recvmsg() leaves is sound, and it loses no descriptors.
LEMMA UnreadSound ==
    ASSUME BuffersSound(buffers), NEW k \in 1 .. Len(buffers),
           NEW n \in 1 .. Len(buffers[k].bytes),
           \A j \in 1 .. k - 1 : buffers[j].fds = 0
    PROVE  /\ BuffersSound(Unread(k, n))
           /\ FdSets(buffers) = FdSets(Unread(k, n)) \cup ({buffers[k].fds} \ {0})
<1> DEFINE b == buffers[k].bytes
           N == Len(buffers)
           u == Unread(k, n)
<1>1. buffers \in Seq(SocketBuffer)
  BY DEF BuffersSound
<1>2. /\ u \in Seq(SocketBuffer)
      /\ n = Len(b) => /\ Len(u) = N - k
                       /\ \A i \in 1 .. Len(u) : u[i] = buffers[k + i]
      /\ n # Len(b) => /\ Len(u) = N - k + 1
                       /\ u[1] = [bytes |-> SubSeq(b, n + 1, Len(b)), fds |-> 0]
                       /\ \A i \in 1 .. Len(u) - 1 : u[i + 1] = buffers[k + i]
  BY <1>1, ChunkParts
<1>3. N \in Nat /\ k \in Nat /\ k >= 1 /\ k <= N /\ DOMAIN u = 1 .. Len(u) /\ Len(u) \in Nat
  BY <1>1, <1>2
<1> HIDE DEF b, u
<1>4. ASSUME NEW i \in 1 .. Len(u) PROVE u[i].fds = 0 \/ \E j \in k + 1 .. N : u[i] = buffers[j]
  <2>1. CASE n = Len(b)
    <3>1. k + i \in k + 1 .. N
      BY <1>2, <1>3, <2>1
    <3> QED BY <1>2, <2>1, <3>1
  <2>2. CASE n # Len(b)
    <3>1. CASE i = 1
      BY <1>2, <2>2, <3>1
    <3>2. CASE i # 1
      <4> DEFINE j == i - 1
      <4>1. j \in 1 .. Len(u) - 1 /\ j + 1 = i /\ k + j \in k + 1 .. N
        BY <1>2, <1>3, <2>2, <3>2
      <4> HIDE DEF j
      <4> QED BY <1>2, <2>2, <4>1
    <3> QED BY <3>1, <3>2
  <2> QED BY <2>1, <2>2
<1>5. ASSUME NEW j \in k + 1 .. N PROVE \E i \in 1 .. Len(u) : u[i] = buffers[j]
  <2> DEFINE i == j - k
  <2>1. i \in Nat /\ i >= 1 /\ i <= N - k /\ k + i = j
    BY <1>3
  <2> HIDE DEF i
  <2>2. CASE n = Len(b)
    <3>1. i \in 1 .. Len(u)
      BY <1>2, <1>3, <2>1, <2>2
    <3> QED BY <1>2, <2>1, <2>2, <3>1
  <2>3. CASE n # Len(b)
    <3>1. i \in 1 .. Len(u) - 1 /\ i + 1 \in 1 .. Len(u)
      BY <1>2, <1>3, <2>1, <2>3
    <3>2. u[i + 1] = buffers[j]
      BY <1>2, <2>1, <2>3, <3>1
    <3> QED BY <3>1, <3>2
  <2> QED BY <2>2, <2>3
<1>6. BuffersSound(u)
  <2> SUFFICES ASSUME NEW i \in 1 .. Len(u), u[i].fds # 0
               PROVE  \E m \in {0, u[i].fds} : \A x \in DOMAIN u[i].bytes : u[i].bytes[x][1] = m
    BY <1>2, <1>3 DEF BuffersSound
  <2>1. PICK j \in k + 1 .. N : u[i] = buffers[j]
    BY <1>4
  <2>2. j \in DOMAIN buffers
    BY <1>1, <1>3
  <2> QED BY <2>1, <2>2 DEF BuffersSound
<1>7. FdSets(buffers) = FdSets(u) \cup ({buffers[k].fds} \ {0})
  <2>1. DOMAIN buffers = 1 .. N
    BY <1>1
  <2>2. ASSUME NEW x \in FdSets(buffers) PROVE x \in FdSets(u) \cup ({buffers[k].fds} \ {0})
    <3>1. PICK j \in 1 .. N : x = buffers[j].fds /\ x # 0
      BY <2>1, <2>2 DEF FdSets
    <3>2. CASE j \in 1 .. k - 1
      BY <3>1, <3>2
    <3>3. CASE j = k
      BY <3>1, <3>3
    <3>4. CASE j \in k + 1 .. N
      <4>1. PICK i \in 1 .. Len(u) : u[i] = buffers[j]
        BY <1>5, <3>4
      <4> QED BY <1>3, <3>1, <4>1 DEF FdSets
    <3> QED BY <1>3, <3>2, <3>3, <3>4
  <2>3. ASSUME NEW x \in FdSets(u) PROVE x \in FdSets(buffers)
    <3>1. PICK i \in 1 .. Len(u) : x = u[i].fds /\ x # 0
      BY <1>3, <2>3 DEF FdSets
    <3>2. PICK j \in k + 1 .. N : u[i] = buffers[j]
      BY <1>4, <3>1
    <3>3. j \in 1 .. N
      BY <1>3
    <3> QED BY <2>1, <3>1, <3>2, <3>3 DEF FdSets
  <2>4. {buffers[k].fds} \ {0} \subseteq FdSets(buffers)
    BY <2>1 DEF FdSets
  <2> QED BY <2>2, <2>3, <2>4
<1> QED BY <1>6, <1>7 DEF u

-----------------------------------------------------------------------------
(* The queue: reading *)

\* The fields of a queue.
LEMMA QueueFacts ==
    ASSUME NEW q, QueueSound(q)
    PROVE  /\ q.data \in Seq(Byte) /\ Len(q.data) \in Nat
           /\ q.start \in Nat /\ q.cursor \in Nat
           /\ q.start <= q.cursor /\ q.cursor <= Len(q.data) /\ Len(q.data) <= DataSize(q)
           /\ DataSize(q) \in Nat /\ DataSize(q) >= RecvMax
           /\ q.header \in Seq(Byte)
           /\ q.pending \in Pendings
           /\ q.pending.got \in Seq(Byte) /\ Len(q.pending.got) \in Nat
           /\ q.pending.n \in Nat /\ Len(q.pending.got) <= q.pending.n
           /\ q.fds \in Nat /\ q.pending.fds \in Nat
           /\ q.enlarged \in BOOLEAN
<1>1. q \in IQueues
  BY DEF QueueSound
<1>2. /\ q.data \in Seq(Byte) /\ q.start \in Nat /\ q.cursor \in Nat /\ q.header \in Seq(Byte)
      /\ q.pending \in Pendings /\ q.fds \in Nat /\ q.enlarged \in BOOLEAN
  BY <1>1 DEF IQueues
<1>3. q.pending.got \in Seq(Byte) /\ q.pending.n \in Nat /\ q.pending.fds \in Nat
  BY <1>2 DEF Pendings
<1>4. DataSize(q) \in Nat /\ DataSize(q) >= RecvMax
  BY Sizes DEF DataSize
<1>5. /\ q.start <= q.cursor /\ q.cursor <= Len(q.data) /\ Len(q.data) <= DataSize(q)
      /\ Len(q.pending.got) <= q.pending.n
  BY DEF QueueSound
<1> QED BY <1>2, <1>3, <1>4, <1>5

\* What is unread in the buffer.
LEMMA RestIs ==
    ASSUME NEW q, QueueSound(q)
    PROVE  /\ Rest(q) \in Seq(Byte) /\ Len(Rest(q)) = Len(q.data) - q.start
           /\ \A i \in 1 .. Len(q.data) - q.start : Rest(q)[i] = q.data[q.start + i]
<1> DEFINE d == q.data
           s == q.start
           r == SubSeq(d, s + 1, Len(d))
<1>1. d \in Seq(Byte) /\ Len(d) \in Nat /\ s \in Nat /\ s <= Len(d)
  BY QueueFacts
<1> HIDE DEF d, s
<1>2. \A i \in s + 1 .. Len(d) : d[i] \in Byte
  BY <1>1
<1>3. /\ r \in Seq(Byte) /\ Len(r) = IF s + 1 <= Len(d) THEN Len(d) - (s + 1) + 1 ELSE 0
      /\ \A i \in 1 .. Len(d) - (s + 1) + 1 : r[i] = d[s + 1 + i - 1]
  BY <1>1, <1>2, SubSeqProperties
<1> HIDE DEF r
<1>4. Len(r) = Len(d) - s
  BY <1>1, <1>3
<1>5. ASSUME NEW i \in 1 .. Len(d) - s PROVE r[i] = d[s + i]
  <2>1. i \in 1 .. Len(d) - (s + 1) + 1 /\ s + 1 + i - 1 = s + i
    BY <1>1
  <2> QED BY <1>3, <2>1
<1>6. Rest(q) = r
  BY DEF Rest, r, d, s
<1> QED BY <1>3, <1>4, <1>5, <1>6 DEF d, s

\* What is in the queue is a sequence of bytes.
LEMMA LeftIs ==
    ASSUME NEW q, QueueSound(q)
    PROVE  /\ Left(q) \in Seq(Byte)
           /\ q.header \o q.pending.got \in Seq(Byte)
           /\ ~HasTarget(q) => Left(q) = Rest(q)
           /\ q.pending.what = "header" => Left(q) = q.pending.got \o Rest(q)
<1>1. q.header \in Seq(Byte) /\ q.pending.got \in Seq(Byte) /\ Rest(q) \in Seq(Byte)
  BY QueueFacts, RestIs
<1>2. q.header \o q.pending.got \in Seq(Byte)
  BY <1>1, ConcatProperties
<1>3. Left(q) \in Seq(Byte)
  BY <1>1, <1>2, ConcatProperties DEF Left
<1>4. q.pending.what # "message" => q.header = <<>>
  BY DEF QueueSound
<1>5. q.pending.what # "message" => Left(q) = q.pending.got \o Rest(q)
  BY <1>1, <1>4, ConcatEmptySeq DEF Left
<1>6. ~HasTarget(q) => q.pending.got = <<>> /\ q.pending.what = "none"
  BY DEF QueueSound, HasTarget, NoTarget
<1>7. <<>> \o Rest(q) = Rest(q)
  BY <1>1, ConcatEmptySeq
<1> QED BY <1>2, <1>3, <1>5, <1>6, <1>7

\* The fields after iqueue_get_cursor() has moved the data to the front.
LEMMA ShiftFields ==
    ASSUME NEW q, QueueSound(q)
    PROVE  LET g == Shift(q) IN
           /\ g \in IQueues
           /\ g.data = Rest(q) /\ g.start = 0 /\ g.cursor = q.cursor - q.start
           /\ g.enlarged = q.enlarged /\ g.charged = q.charged /\ g.fds = q.fds
           /\ g.fdsCharged = q.fdsCharged /\ g.header = q.header /\ g.pending = q.pending
           /\ g.pendingFdsCharged = q.pendingFdsCharged
<1>1. q \in IQueues /\ Rest(q) \in Seq(Byte) /\ q.cursor - q.start \in Nat
  BY QueueFacts, RestIs DEF QueueSound
<1>2. Shift(q) = [q EXCEPT !.data = Rest(q), !.cursor = q.cursor - q.start, !.start = 0]
  BY <1>1 DEF Shift, IQueues
<1> DEFINE d == Rest(q)
           c == q.cursor - q.start
           g == Shift(q)
<1>3. g = [q EXCEPT !.data = d, !.cursor = c, !.start = 0] /\ d \in Seq(Byte) /\ c \in Nat
  BY <1>1, <1>2
<1> HIDE DEF d, c, g
<1>4. g \in IQueues
  BY <1>1, <1>3 DEF IQueues
<1>5. /\ g.data = d /\ g.start = 0 /\ g.cursor = c
      /\ g.enlarged = q.enlarged /\ g.charged = q.charged /\ g.fds = q.fds
      /\ g.fdsCharged = q.fdsCharged /\ g.header = q.header /\ g.pending = q.pending
      /\ g.pendingFdsCharged = q.pendingFdsCharged
  BY <1>1, <1>3 DEF IQueues
<1> QED BY <1>4, <1>5 DEF d, c, g

\* It changes nothing else.
LEMMA ShiftSound ==
    ASSUME NEW q, QueueSound(q), NEW l \in Nat, PhaseSound(q, l)
    PROVE  /\ QueueSound(Shift(q)) /\ PhaseSound(Shift(q), l)
           /\ Rest(Shift(q)) = Rest(q) /\ Left(Shift(q)) = Left(q)
           /\ q.fds # 0 => LET d == Rest(q) IN d[Len(d)] = q.data[Len(q.data)]
<1> DEFINE g == Shift(q)
           d == Rest(q)
<1>1. /\ g \in IQueues
      /\ g.data = d /\ g.start = 0 /\ g.cursor = q.cursor - q.start
      /\ g.enlarged = q.enlarged /\ g.charged = q.charged /\ g.fds = q.fds
      /\ g.fdsCharged = q.fdsCharged /\ g.header = q.header /\ g.pending = q.pending
      /\ g.pendingFdsCharged = q.pendingFdsCharged
  BY ShiftFields
<1>2. /\ d \in Seq(Byte) /\ Len(d) = Len(q.data) - q.start
      /\ \A i \in 1 .. Len(q.data) - q.start : d[i] = q.data[q.start + i]
  BY RestIs
<1>3. /\ Len(q.data) \in Nat /\ q.start \in Nat /\ q.cursor \in Nat
      /\ q.start <= q.cursor /\ q.cursor <= Len(q.data) /\ Len(q.data) <= DataSize(q)
      /\ DataSize(q) \in Nat
  BY QueueFacts
<1> HIDE DEF g, d
<1>4. DataSize(g) = DataSize(q) /\ (HasTarget(g) <=> HasTarget(q))
  BY <1>1 DEF DataSize, HasTarget
<1>5. QueueSound(g)
  <2>1. /\ g.start <= g.cursor /\ g.cursor <= Len(g.data) /\ Len(g.data) <= DataSize(g)
        /\ g.fds # 0 => g.cursor < Len(g.data)
    BY <1>1, <1>2, <1>3, <1>4 DEF QueueSound
  <2> QED BY <1>1, <1>4, <2>1 DEF QueueSound
<1>6. PhaseSound(g, l)
  <2>1. l = 0 => g.cursor = g.start
    BY <1>1, <1>3 DEF PhaseSound
  <2>2. ASSUME l > 0, NEW k \in g.start + 2 .. g.cursor
        PROVE  ~(g.data[k - 1] = CR /\ g.data[k] = LF)
    <3> DEFINE j == q.start + k
    <3>1. /\ j \in q.start + 2 .. q.cursor /\ q.start + (k - 1) = j - 1
          /\ k \in 1 .. Len(q.data) - q.start /\ k - 1 \in 1 .. Len(q.data) - q.start
      BY <1>1, <1>3, <2>2, SMTT(20)
    <3> HIDE DEF j
    <3>2. g.data[k] = q.data[j] /\ g.data[k - 1] = q.data[j - 1]
      BY <1>1, <1>2, <3>1 DEF j
    <3> QED BY <2>2, <3>1, <3>2 DEF PhaseSound
  <2>3. g.start = 0
    BY <1>1
  <2>4. l > 0 => ~HasTarget(g)
    BY <1>4 DEF PhaseSound
  <2> QED BY <2>1, <2>2, <2>3, <2>4 DEF PhaseSound
<1>7. Rest(g) = d
  <2>1. Rest(g) = SubSeq(d, 1, Len(d))
    BY <1>1 DEF Rest
  <2> QED BY <1>2, <2>1, SubSeqFull
<1>8. Left(g) = Left(q)
  BY <1>1, <1>7 DEF Left, d
<1>9. q.fds # 0 => d[Len(d)] = q.data[Len(q.data)]
  <2> SUFFICES ASSUME q.fds # 0 PROVE d[Len(d)] = q.data[Len(q.data)]
    OBVIOUS
  <2>1. q.cursor < Len(q.data)
    BY DEF QueueSound
  <2>2. Len(d) \in 1 .. Len(q.data) - q.start /\ q.start + Len(d) = Len(q.data)
    BY <1>2, <1>3, <2>1
  <2> QED BY <1>2, <2>2
<1> QED BY <1>5, <1>6, <1>7, <1>8, <1>9 DEF g, d

\* The two queues differ in the buffer, not in what it holds.
SameInput(q, g) ==
    /\ g.data = q.data /\ g.start = q.start /\ g.cursor = q.cursor /\ g.fds = q.fds
    /\ g.fdsCharged = q.fdsCharged /\ g.header = q.header /\ g.pending = q.pending
    /\ g.pendingFdsCharged = q.pendingFdsCharged

\* The fields after the buffer was exchanged.
LEMMA ResizeFields ==
    ASSUME NEW q, q \in IQueues
    PROVE  /\ /\ Enlarge(q) \in IQueues /\ SameInput(q, Enlarge(q))
              /\ Enlarge(q).enlarged = TRUE /\ Enlarge(q).charged = LineMax
           /\ /\ Shrink(q) \in IQueues /\ SameInput(q, Shrink(q))
              /\ Shrink(q).enlarged = FALSE /\ Shrink(q).charged = 0
<1>1. LineMax \in Nat
  BY Sizes
<1>2. Enlarge(q) \in IQueues /\ Shrink(q) \in IQueues
  BY <1>1 DEF IQueues, Enlarge, Shrink
<1>3. SameInput(q, Enlarge(q)) /\ Enlarge(q).enlarged = TRUE /\ Enlarge(q).charged = LineMax
  BY <1>1 DEF IQueues, Enlarge, SameInput
<1>4. SameInput(q, Shrink(q)) /\ Shrink(q).enlarged = FALSE /\ Shrink(q).charged = 0
  BY <1>1 DEF IQueues, Shrink, SameInput
<1> QED BY <1>2, <1>3, <1>4

\* A buffer with room for the data can take its place.
LEMMA ResizeSound ==
    ASSUME NEW q, QueueSound(q), NEW l \in Nat, PhaseSound(q, l),
           NEW g, g \in IQueues, SameInput(q, g), Len(q.data) <= DataSize(g),
           g.charged = IF g.enlarged THEN LineMax ELSE 0
    PROVE  QueueSound(g) /\ PhaseSound(g, l) /\ Left(g) = Left(q)
<1>1. HasTarget(g) <=> HasTarget(q)
  BY DEF SameInput, HasTarget
<1>2. QueueSound(g)
  BY <1>1 DEF QueueSound, SameInput
<1>3. PhaseSound(g, l)
  BY <1>1 DEF PhaseSound, SameInput
<1>4. Left(g) = Left(q)
  BY DEF Left, Rest, SameInput
<1> QED BY <1>2, <1>3, <1>4

\* iqueue_get_cursor() only moves what is in the queue, and once all was parsed
\* there is room, in the embedded buffer when a message is pending.
LEMMA CursorSound ==
    ASSUME NEW q, QueueSound(q), NEW l \in Nat, PhaseSound(q, l),
           NEW g, g = GetCursor(q)
    PROVE  /\ QueueSound(g) /\ PhaseSound(g, l) /\ Left(g) = Left(q)
           /\ g.start = 0 /\ g.fds = q.fds /\ g.pending = q.pending /\ g.header = q.header
           /\ g.fds # 0 => g.data[Len(g.data)] = q.data[Len(q.data)]
           /\ Parsed(q) /\ ~LineTooLong(q) =>
                 /\ g.fds = 0 /\ Len(g.data) < DataSize(g) /\ g.cursor = Len(g.data)
                 /\ HasTarget(g) => g.data = <<>> /\ ~g.enlarged
                 /\ Space(g) \in Nat /\ Space(g) > 0
<1> DEFINE h == Shift(q)
<1>1. /\ QueueSound(h) /\ PhaseSound(h, l) /\ Left(h) = Left(q)
      /\ h.data = Rest(q) /\ h.start = 0 /\ h.cursor = q.cursor - q.start
      /\ h.enlarged = q.enlarged /\ h.fds = q.fds /\ h.header = q.header
      /\ h.pending = q.pending
      /\ h.fds # 0 => h.data[Len(h.data)] = q.data[Len(q.data)]
  BY ShiftSound, ShiftFields
<1>2. /\ h.data \in Seq(Byte) /\ Len(h.data) \in Nat /\ h.cursor \in Nat
      /\ h.cursor <= Len(h.data) /\ Len(h.data) <= DataSize(h)
      /\ h.enlarged \in BOOLEAN
      /\ h.pending.n \in Nat /\ Len(h.pending.got) \in Nat /\ Len(h.pending.got) <= h.pending.n
  BY <1>1, QueueFacts
<1>3. /\ Len(h.data) = Len(q.data) - q.start
      /\ q.start \in Nat /\ q.cursor \in Nat /\ Len(q.data) \in Nat
      /\ q.start <= q.cursor /\ q.cursor <= Len(q.data)
  BY <1>1, QueueFacts, RestIs
<1>4. /\ h.cursor < Len(h.data) => g = h
      /\ h.cursor >= Len(h.data) /\ Len(h.data) >= DataSize(h) => g = Enlarge(h)
      /\ h.cursor >= Len(h.data) /\ Len(h.data) < DataSize(h) /\ h.enlarged /\ HasTarget(h)
            => g = Shrink(h)
      /\ h.cursor >= Len(h.data) /\ Len(h.data) < DataSize(h) /\ ~(h.enlarged /\ HasTarget(h))
            => g = h
  <2>1. DataSize(h) \in Nat
    BY Sizes DEF DataSize
  <2>2. g = IF h.cursor < Len(h.data) THEN h
            ELSE IF Len(h.data) >= DataSize(h) THEN Enlarge(h)
            ELSE IF h.enlarged /\ HasTarget(h) THEN Shrink(h)
            ELSE h
    BY DEF GetCursor
  <2> HIDE DEF h
  <2> QED BY <1>2, <2>1, <2>2
<1> HIDE DEF h
<1>5. HasTarget(h) => h.cursor = 0
  BY <1>1 DEF PhaseSound
<1>6. Parsed(q) <=> h.cursor >= Len(h.data)
  BY <1>1, <1>3 DEF Parsed
<1>7. LineTooLong(q) <=> h.enlarged /\ Len(h.data) >= LineMax
  BY <1>1, <1>3 DEF LineTooLong
<1>8. h.cursor >= Len(h.data) => h.fds = 0
  BY <1>1, <1>2 DEF QueueSound
<1>9. h \in IQueues
  BY <1>1 DEF QueueSound
<1>10. /\ QueueSound(g) /\ PhaseSound(g, l) /\ Left(g) = Left(h) /\ SameInput(h, g)
       /\ Parsed(q) /\ ~LineTooLong(q) =>
             Len(g.data) < DataSize(g) /\ (HasTarget(g) => g.data = <<>> /\ ~g.enlarged)
  <2>1. CASE g = h
    <3>1. Parsed(q) /\ ~LineTooLong(q) => Len(h.data) < DataSize(h)
      <4> SUFFICES ASSUME Parsed(q), ~LineTooLong(q), ~(Len(h.data) < DataSize(h)) PROVE FALSE
        OBVIOUS
      <4>1. h = Enlarge(h)
        BY <1>2, <1>4, <1>6, <2>1, Sizes DEF DataSize
      <4>2. h.enlarged = TRUE
        BY <1>9, <4>1, ResizeFields
      <4> QED BY <1>2, <1>7, <4>2, Sizes DEF DataSize
    <3>2. Parsed(q) /\ ~LineTooLong(q) /\ HasTarget(h) => h.data = <<>> /\ ~h.enlarged
      <4> SUFFICES ASSUME Parsed(q), ~LineTooLong(q), HasTarget(h)
                   PROVE  h.data = <<>> /\ ~h.enlarged
        OBVIOUS
      <4>1. h.data = <<>>
        BY <1>2, <1>5, <1>6
      <4>2. h.enlarged => h = Shrink(h)
        BY <1>4, <1>6, <2>1, <3>1
      <4>3. Shrink(h).enlarged = FALSE
        BY <1>9, ResizeFields
      <4>4. ~h.enlarged
        BY <4>2, <4>3
      <4> QED BY <4>1, <4>4
    <3> QED BY <1>1, <2>1, <3>1, <3>2 DEF SameInput
  <2>2. CASE h.cursor >= Len(h.data) /\ Len(h.data) >= DataSize(h)
    <3>1. g \in IQueues /\ SameInput(h, g) /\ g.enlarged = TRUE /\ g.charged = LineMax
      BY <1>9, <1>4, <2>2, ResizeFields
    <3>2. DataSize(g) = LineMax
      BY <3>1 DEF DataSize
    <3>3. Len(h.data) <= DataSize(g)
      BY <1>2, <3>2, Sizes DEF DataSize
    <3>4. QueueSound(g) /\ PhaseSound(g, l) /\ Left(g) = Left(h)
      BY <1>1, <3>1, <3>3, ResizeSound
    <3>5. ~LineTooLong(q) => Len(g.data) < DataSize(g)
      BY <1>2, <1>7, <2>2, <3>1, <3>2, Sizes DEF DataSize, SameInput
    <3>6. ~HasTarget(g)
      <4> SUFFICES ASSUME HasTarget(g) PROVE FALSE
        OBVIOUS
      <4>1. HasTarget(h)
        BY <3>1 DEF HasTarget, SameInput
      <4> QED BY <1>2, <1>5, <2>2, <4>1, Sizes DEF DataSize
    <3> QED BY <3>1, <3>4, <3>5, <3>6
  <2>3. CASE /\ h.cursor >= Len(h.data) /\ Len(h.data) < DataSize(h)
             /\ h.enlarged /\ HasTarget(h)
    <3>1. g \in IQueues /\ SameInput(h, g) /\ g.enlarged = FALSE /\ g.charged = 0
      BY <1>9, <1>4, <2>3, ResizeFields
    <3>2. h.data = <<>> /\ Len(h.data) = 0
      BY <1>2, <1>5, <2>3
    <3>3. DataSize(g) = RecvMax
      BY <3>1 DEF DataSize
    <3>4. QueueSound(g) /\ PhaseSound(g, l) /\ Left(g) = Left(h)
      BY <1>1, <3>1, <3>2, <3>3, ResizeSound, Sizes
    <3>5. g.data = <<>> /\ Len(g.data) < DataSize(g)
      BY <3>1, <3>2, <3>3, Sizes DEF SameInput
    <3> QED BY <3>1, <3>4, <3>5
  <2>4. h.cursor < Len(h.data) \/ h.cursor >= Len(h.data)
    BY <1>2
  <2>5. DataSize(h) \in Nat
    BY Sizes DEF DataSize
  <2> QED BY <1>2, <1>4, <2>1, <2>2, <2>3, <2>4, <2>5
<1>11. ASSUME Parsed(q), ~LineTooLong(q)
       PROVE  /\ g.fds = 0 /\ g.cursor = Len(g.data)
              /\ Space(g) \in Nat /\ Space(g) > 0
  <2>1. g.fds = 0 /\ g.cursor = Len(g.data)
    BY <1>2, <1>6, <1>8, <1>10, <1>11 DEF SameInput
  <2>2. /\ DataSize(g) \in Nat /\ DataSize(g) - Len(g.data) \in Nat
        /\ DataSize(g) - Len(g.data) > 0
        /\ g.pending.n - Len(g.pending.got) \in Nat
    <3>1. DataSize(g) \in Nat
      BY Sizes DEF DataSize
    <3>2. Len(g.data) \in Nat /\ Len(g.data) < DataSize(g)
      BY <1>2, <1>10, <1>11 DEF SameInput
    <3>3. g.pending = h.pending
      BY <1>10 DEF SameInput
    <3> QED BY <1>2, <3>1, <3>2, <3>3
  <2>3. CASE Direct(g)
    <3> DEFINE room == DataSize(g) - Len(g.data)
               want == g.pending.n - Len(g.pending.got)
    <3>1. Space(g) = want /\ want >= room
      BY <2>3 DEF Direct, Space
    <3>2. room \in Nat /\ room > 0 /\ want \in Nat
      BY <2>2
    <3> HIDE DEF room, want
    <3> QED BY <2>1, <3>1, <3>2
  <2>4. CASE ~Direct(g)
    <3>1. Space(g) = Min({DataSize(g) - Len(g.data), RecvMax})
      BY <2>4 DEF Space
    <3> DEFINE room == DataSize(g) - Len(g.data)
    <3>2. room \in Nat /\ room > 0 /\ Space(g) = Min({room, RecvMax})
      BY <2>2, <3>1
    <3> HIDE DEF room
    <3> QED BY <2>1, <3>2, MinOfTwo, Sizes
  <2> QED BY <2>1, <2>3, <2>4
<1> QED BY <1>1, <1>10, <1>11 DEF SameInput

\* Strings of bytes, one behind the other.
LEMMA Joined ==
    ASSUME NEW a \in Seq(Byte), NEW b \in Seq(Byte), NEW c \in Seq(Byte)
    PROVE  a \o (b \o c) = (a \o b) \o c
  BY ConcatAssociative

\* What recvmsg() returned goes to the pending data or to the buffer.
LEMMA ReceivedFields ==
    ASSUME NEW q, QueueSound(q), NEW x \in Seq(Byte), NEW f \in Nat,
           NEW g, g = Received(q, x, f)
    PROVE  /\ g \in IQueues
           /\ g.start = q.start /\ g.cursor = q.cursor /\ g.enlarged = q.enlarged
           /\ g.charged = q.charged /\ g.header = q.header
           /\ g.pending.what = q.pending.what /\ g.pending.n = q.pending.n
           /\ g.pending.charged = q.pending.charged
           /\ Direct(q) => /\ g.pending.got = q.pending.got \o x
                           /\ g.pending.fds = (IF q.pending.fds = 0 THEN f ELSE q.pending.fds)
                           /\ g.pendingFdsCharged = (q.pendingFdsCharged \/ f # 0)
                           /\ g.data = q.data /\ g.fds = q.fds /\ g.fdsCharged = q.fdsCharged
           /\ ~Direct(q) => /\ g.data = q.data \o x
                            /\ g.fds = (IF q.fds = 0 THEN f ELSE q.fds)
                            /\ g.fdsCharged = (q.fdsCharged \/ f # 0)
                            /\ g.pending = q.pending
                            /\ g.pendingFdsCharged = q.pendingFdsCharged
<1>1. /\ q \in IQueues /\ q.pending \in Pendings
      /\ q.data \in Seq(Byte) /\ q.pending.got \in Seq(Byte)
      /\ q.fds \in Nat /\ q.pending.fds \in Nat
  BY QueueFacts DEF QueueSound
<1>2. q.data \o x \in Seq(Byte) /\ q.pending.got \o x \in Seq(Byte)
  BY <1>1, ConcatProperties
<1>3. CASE Direct(q)
  <2> DEFINE got == q.pending.got \o x
             fds == IF q.pending.fds = 0 THEN f ELSE q.pending.fds
             p == [q.pending EXCEPT !.got = got, !.fds = fds]
             c == q.pendingFdsCharged \/ f # 0
  <2>1. got \in Seq(Byte) /\ fds \in Nat /\ c \in BOOLEAN
    BY <1>1, <1>2
  <2>2. g = [q EXCEPT !.pending = p, !.pendingFdsCharged = c]
    BY <1>1, <1>3 DEF Received, IQueues, Pendings
  <2> HIDE DEF got, fds, c
  <2>3. /\ p \in Pendings /\ p.what = q.pending.what /\ p.n = q.pending.n
        /\ p.charged = q.pending.charged /\ p.got = got /\ p.fds = fds
    BY <1>1, <2>1 DEF Pendings
  <2> HIDE DEF p
  <2>4. g \in IQueues
    BY <1>1, <2>1, <2>2, <2>3 DEF IQueues
  <2>5. /\ g.start = q.start /\ g.cursor = q.cursor /\ g.enlarged = q.enlarged
        /\ g.charged = q.charged /\ g.header = q.header /\ g.pending = p
        /\ g.pendingFdsCharged = c
        /\ g.data = q.data /\ g.fds = q.fds /\ g.fdsCharged = q.fdsCharged
    BY <1>1, <2>2 DEF IQueues
  <2> QED BY <1>3, <2>3, <2>4, <2>5 DEF got, fds, c
<1>4. CASE ~Direct(q)
  <2> DEFINE d == q.data \o x
             fds == IF q.fds = 0 THEN f ELSE q.fds
             c == q.fdsCharged \/ f # 0
  <2>1. d \in Seq(Byte) /\ fds \in Nat /\ c \in BOOLEAN
    BY <1>1, <1>2
  <2>2. g = [q EXCEPT !.data = d, !.fds = fds, !.fdsCharged = c]
    BY <1>1, <1>4 DEF Received, IQueues
  <2> HIDE DEF d, fds, c
  <2>3. g \in IQueues
    BY <1>1, <2>1, <2>2 DEF IQueues
  <2>4. /\ g.start = q.start /\ g.cursor = q.cursor /\ g.enlarged = q.enlarged
        /\ g.charged = q.charged /\ g.header = q.header /\ g.pending = q.pending
        /\ g.pendingFdsCharged = q.pendingFdsCharged
        /\ g.data = d /\ g.fds = fds /\ g.fdsCharged = c
    BY <1>1, <2>2 DEF IQueues
  <2> QED BY <1>4, <2>3, <2>4 DEF d, fds, c
<1> QED BY <1>3, <1>4

\* The queue g is q with x and the descriptors f received into it.
TakenIn(q, g, l, x, f) ==
    /\ QueueSound(g) /\ PhaseSound(g, l) /\ Left(g) = Left(q) \o x
    /\ g.pending.what = q.pending.what /\ g.pending.n = q.pending.n
    /\ Direct(q) =>
          /\ l = 0 /\ g.fds = 0
          /\ g.pending.fds = IF q.pending.fds = 0 THEN f ELSE q.pending.fds
          /\ Len(Left(q)) + Len(x)
                <= HeaderSize + IF q.pending.what = "message" THEN q.pending.n ELSE 0
    /\ ~Direct(q) =>
          /\ g.fds = f /\ g.pending.fds = q.pending.fds
          /\ g.data[Len(g.data)] = x[Len(x)]

\* It stays sound: there was room, and what is read directly is for the message
\* that is pending.
LEMMA ReceivedSound ==
    ASSUME NEW q, QueueSound(q), NEW l \in Nat, PhaseSound(q, l),
           q.start = 0, q.cursor = Len(q.data), q.fds = 0, Len(q.data) < DataSize(q),
           HasTarget(q) => q.data = <<>>,
           NEW x \in Seq(Byte), Len(x) >= 1, Len(x) <= Space(q), NEW f \in Nat,
           NEW g, g = Received(q, x, f)
    PROVE  TakenIn(q, g, l, x, f)
<1>1. /\ q.data \in Seq(Byte) /\ Len(q.data) \in Nat /\ DataSize(q) \in Nat
      /\ q.pending.got \in Seq(Byte) /\ Len(q.pending.got) \in Nat /\ q.pending.n \in Nat
      /\ Len(q.pending.got) <= q.pending.n /\ q.header \in Seq(Byte)
      /\ q.fds \in Nat /\ q.pending.fds \in Nat /\ Len(x) \in Nat
  BY QueueFacts
<1>2. /\ g \in IQueues
      /\ g.start = q.start /\ g.cursor = q.cursor /\ g.enlarged = q.enlarged
      /\ g.charged = q.charged /\ g.header = q.header
      /\ g.pending.what = q.pending.what /\ g.pending.n = q.pending.n
      /\ g.pending.charged = q.pending.charged
  BY ReceivedFields
<1>3. DataSize(g) = DataSize(q) /\ (HasTarget(g) <=> HasTarget(q))
  BY <1>2 DEF DataSize, HasTarget
<1>4. Rest(q) = q.data
  BY <1>1, SubSeqFull DEF Rest
<1> DEFINE hg == q.header \o q.pending.got
<1>5. hg \in Seq(Byte)
  BY <1>1, ConcatProperties
<1>6. CASE Direct(q)
  <2>1. /\ g.pending.got = q.pending.got \o x
        /\ g.pending.fds = (IF q.pending.fds = 0 THEN f ELSE q.pending.fds)
        /\ g.pendingFdsCharged = (q.pendingFdsCharged \/ f # 0)
        /\ g.data = q.data /\ g.fds = q.fds /\ g.fdsCharged = q.fdsCharged
    BY <1>6, ReceivedFields, SMTT(20)
  <2>2. /\ Len(x) <= q.pending.n - Len(q.pending.got)
        /\ q.pending.n - Len(q.pending.got) >= DataSize(q) - Len(q.data)
    BY <1>6 DEF Space, Direct
  <2>3. Len(q.pending.got \o x) = Len(q.pending.got) + Len(x)
    BY <1>1, ConcatProperties
  <2>4. HasTarget(q) /\ q.data = <<>>
    <3>1. q.pending.n > 0
      BY <1>1, <2>2
    <3> QED BY <3>1 DEF QueueSound, NoTarget
  <2>5. l = 0
    BY <2>4 DEF PhaseSound
  <2>6. /\ Len(g.pending.got) <= g.pending.n
        /\ g.pendingFdsCharged <=> g.pending.fds # 0
    <3>1. Len(g.pending.got) <= g.pending.n
      BY <1>1, <1>2, <2>1, <2>2, <2>3
    <3>2. q.pendingFdsCharged <=> q.pending.fds # 0
      BY DEF QueueSound
    <3>3. g.pendingFdsCharged <=> g.pending.fds # 0
      BY <2>1, <3>2
    <3> QED BY <3>1, <3>3
  <2>7. QueueSound(g)
    BY <1>2, <1>3, <2>1, <2>4, <2>6 DEF QueueSound
  <2>8. PhaseSound(g, l)
    BY <1>2, <2>5 DEF PhaseSound
  <2>9. Left(g) = Left(q) \o x
    <3>1. Rest(g) = <<>> /\ Rest(q) = <<>>
      BY <1>2, <1>4, <2>1, <2>4 DEF Rest
    <3>2. Left(g) = (q.header \o (q.pending.got \o x)) \o <<>>
      BY <1>2, <2>1, <3>1 DEF Left
    <3>3. Left(q) = hg
      BY <1>5, <3>1, ConcatEmptySeq DEF Left
    <3>4. q.header \o (q.pending.got \o x) = hg \o x
      BY <1>1, Joined
    <3>5. hg \o x \in Seq(Byte)
      BY <1>5, ConcatProperties
    <3> QED BY <3>2, <3>3, <3>4, <3>5, ConcatEmptySeq
  <2>10. Len(Left(q)) + Len(x)
            <= HeaderSize + IF q.pending.what = "message" THEN q.pending.n ELSE 0
    <3>1. Left(q) = hg
      BY <1>4, <1>5, <2>4, ConcatEmptySeq DEF Left
    <3>2. Len(hg) = Len(q.header) + Len(q.pending.got)
      BY <1>1, ConcatProperties
    <3>3. CASE q.pending.what = "message"
      <4>1. Len(q.header) = HeaderSize
        BY <3>3 DEF QueueSound
      <4> QED BY <1>1, <2>2, <3>1, <3>2, <3>3, <4>1, Sizes
    <3>4. CASE q.pending.what # "message"
      <4>1. q.header = <<>> /\ Len(q.header) = 0 /\ q.pending.n = HeaderSize
        <5>1. q.header = <<>>
          BY <3>4 DEF QueueSound
        <5>2. q.pending.what = "header"
          BY <2>4, <3>4, QueueFacts DEF HasTarget, Pendings
        <5> QED BY <5>1, <5>2 DEF QueueSound
      <4> QED BY <1>1, <2>2, <3>1, <3>2, <3>4, <4>1, Sizes
    <3> QED BY <3>3, <3>4
  <2> QED BY <1>2, <1>6, <2>1, <2>5, <2>7, <2>8, <2>9, <2>10 DEF TakenIn
<1>7. CASE ~Direct(q)
  <2>1. /\ g.data = q.data \o x /\ g.fds = f
        /\ g.fdsCharged = (q.fdsCharged \/ f # 0)
        /\ g.pending = q.pending
        /\ g.pendingFdsCharged = q.pendingFdsCharged
    BY <1>7, ReceivedFields
  <2>2. /\ g.data \in Seq(Byte) /\ Len(g.data) = Len(q.data) + Len(x)
        /\ \A i \in 1 .. Len(q.data) + Len(x) :
              g.data[i] = IF i <= Len(q.data) THEN q.data[i] ELSE x[i - Len(q.data)]
    BY <1>1, <2>1, ConcatProperties
  <2>3. Len(x) <= DataSize(q) - Len(q.data)
    <3> DEFINE room == DataSize(q) - Len(q.data)
    <3>1. room \in Nat
      BY <1>1
    <3>2. Len(x) <= Min({room, RecvMax})
      BY <1>7 DEF Space
    <3> HIDE DEF room
    <3>3. Len(x) <= room
      BY <1>1, <3>1, <3>2, MinOfTwo, Sizes
    <3> QED BY <3>3 DEF room
  <2>4. QueueSound(g)
    <3>1. /\ g.start <= g.cursor /\ g.cursor <= Len(g.data) /\ Len(g.data) <= DataSize(g)
          /\ g.cursor < Len(g.data)
      BY <1>1, <1>2, <1>3, <2>2, <2>3
    <3>2. ~q.fdsCharged
      BY DEF QueueSound
    <3> QED BY <1>2, <1>3, <2>1, <3>1, <3>2 DEF QueueSound
  <2>5. PhaseSound(g, l)
    <3>1. l = 0 => g.cursor = g.start
      BY <1>2 DEF PhaseSound
    <3>2. ASSUME l > 0, NEW k \in g.start + 2 .. g.cursor
          PROVE  ~(g.data[k - 1] = CR /\ g.data[k] = LF)
      <4>1. /\ k \in q.start + 2 .. q.cursor
            /\ k \in 1 .. Len(q.data) + Len(x) /\ k - 1 \in 1 .. Len(q.data) + Len(x)
            /\ k <= Len(q.data) /\ k - 1 <= Len(q.data)
        BY <1>1, <1>2, <3>2
      <4>2. g.data[k] = q.data[k] /\ g.data[k - 1] = q.data[k - 1]
        BY <2>2, <4>1
      <4> QED BY <3>2, <4>1, <4>2 DEF PhaseSound
    <3>3. l > 0 => ~HasTarget(g)
      BY <1>3 DEF PhaseSound
    <3> QED BY <1>2, <3>1, <3>2, <3>3 DEF PhaseSound
  <2>6. Left(g) = Left(q) \o x
    <3>1. Rest(g) = q.data \o x
      <4>1. Rest(g) = SubSeq(g.data, 1, Len(g.data))
        BY <1>2 DEF Rest
      <4> QED BY <2>1, <2>2, <4>1, SubSeqFull
    <3>2. Left(g) = hg \o (q.data \o x) /\ Left(q) = hg \o q.data
      BY <1>2, <1>4, <2>1, <3>1 DEF Left
    <3> HIDE DEF hg
    <3> DEFINE d == q.data
    <3>3. Left(g) = hg \o (d \o x) /\ Left(q) = hg \o d /\ d \in Seq(Byte)
      BY <1>1, <3>2
    <3> HIDE DEF d
    <3>4. hg \o (d \o x) = (hg \o d) \o x
      BY <1>5, <3>3, Joined
    <3> QED BY <3>3, <3>4
  <2>7. g.data[Len(g.data)] = x[Len(x)]
    <3> DEFINE j == Len(g.data)
    <3>1. j \in 1 .. Len(q.data) + Len(x) /\ ~(j <= Len(q.data)) /\ j - Len(q.data) = Len(x)
      BY <1>1, <2>2
    <3> HIDE DEF j
    <3>2. g.data[j] = x[Len(x)]
      BY <2>2, <3>1
    <3> QED BY <3>2 DEF j
  <2> QED BY <1>2, <1>7, <2>1, <2>4, <2>5, <2>6, <2>7 DEF TakenIn
<1> QED BY <1>6, <1>7

\* The descriptors of a queue and of what is still to be received.
FdsIn(q, w) == (FdSets(w) \cup {q.fds, q.pending.fds}) \ {0}

\* Moving the data to the front keeps descriptors with their bytes.
LEMMA CursorContent ==
    ASSUME NEW q, QueueSound(q), NEW l \in Nat, PhaseSound(q, l),
           NEW m, NEW w, ContentSound(q, l, m, w),
           NEW g, g = GetCursor(q)
    PROVE  ContentSound(g, l, m, w) /\ FdsIn(g, w) = FdsIn(q, w)
<1>1. /\ Left(g) = Left(q) /\ g.fds = q.fds /\ g.pending = q.pending
      /\ g.fds # 0 => g.data[Len(g.data)] = q.data[Len(q.data)]
  BY CursorSound
<1> QED BY <1>1 DEF ContentSound, FdsIn

\* The byte at place p of the stream is of message m when the message is that long.
LEMMA ByteOfMessage ==
    ASSUME NEW a \in Seq(Byte), NEW b \in Seq(Byte), NEW m \in Nat, m >= 1,
           Conforms(a \o b, 0, m), a # <<>>,
           NEW n \in Nat, Len(a) <= HeaderSize + n, n = 0 \/ n = BodySize[m]
    PROVE  a[Len(a)] = <<m, Len(a)>>
<1> DEFINE c == a \o b
           p == Len(a)
<1>1. /\ c \in Seq(Byte) /\ Len(c) = Len(a) + Len(b)
      /\ \A i \in 1 .. Len(a) + Len(b) : c[i] = IF i <= Len(a) THEN a[i] ELSE b[i - Len(a)]
  BY ConcatProperties
<1>2. p \in Nat /\ p >= 1 /\ Len(b) \in Nat
  OBVIOUS
<1> HIDE DEF c
<1>3. c # <<>> /\ p \in 1 .. Len(c)
  BY <1>1, <1>2
<1>4. c[p] = a[p]
  BY <1>1, <1>2
<1>5. /\ m \in DOMAIN BodySize
      /\ \A i \in 1 .. Len(c) : i <= HeaderSize + BodySize[m] => c[i] = <<m, i>>
  BY <1>1, <1>3, MessageBytes DEF c
<1>6. BodySize[m] \in Nat /\ HeaderSize \in Nat
  BY <1>5, Sizes
<1>7. p <= HeaderSize + BodySize[m]
  BY <1>2, <1>6
<1> QED BY <1>3, <1>4, <1>5, <1>7

\* The queue and what is to be received, after some was received.
ReadOn(q, g, w, l, m) ==
    /\ BuffersSound(w) /\ QueueSound(g) /\ PhaseSound(g, l) /\ ContentSound(g, l, m, w)
    /\ Left(g) \o BytesOf(w) = Left(q) \o BytesOf(buffers)
    /\ FdsIn(g, w) = FdsIn(q, buffers)

\* socket_recvmsg(): the stream is received in order, and the descriptors come
\* with a byte of the message they are for.
LEMMA ReadSound ==
    ASSUME BuffersSound(buffers), NEW q, QueueSound(q), NEW l \in Nat, PhaseSound(q, l),
           NEW m \in Nat, m >= 1, ContentSound(q, l, m, buffers),
           q.start = 0, q.cursor = Len(q.data), q.fds = 0, Len(q.data) < DataSize(q),
           HasTarget(q) => q.data = <<>>,
           NEW k \in 1 .. Len(buffers), NEW n \in 1 .. Len(buffers[k].bytes), Returned(q, k, n),
           NEW g, g = Received(q, BytesOf(Chunk(k, n)), buffers[k].fds),
           NEW w, w = Unread(k, n)
    PROVE  ReadOn(q, g, w, l, m)
<1> DEFINE x == BytesOf(Chunk(k, n))
           f == buffers[k].fds
           a == Left(q)
           y == BytesOf(w)
<1>1. buffers \in Seq(SocketBuffer)
  BY DEF BuffersSound
<1>2. /\ x \in Seq(Byte) /\ Len(x) \in Nat /\ Len(x) >= 1
      /\ x[Len(x)] = buffers[k].bytes[n]
  BY <1>1, ChunkLast
<1>3. f \in Nat /\ (f # 0 => x[Len(x)][1] \in {0, f})
  <2>1. f \in Nat
    BY <1>1, BufferParts
  <2>2. k \in DOMAIN buffers /\ n \in DOMAIN buffers[k].bytes
    BY <1>1, BufferParts
  <2>3. f # 0 => \E z \in {0, f} : buffers[k].bytes[n][1] = z
    BY <2>2 DEF BuffersSound
  <2> QED BY <1>2, <2>1, <2>3
<1>4. /\ BuffersSound(w) /\ FdSets(buffers) = FdSets(w) \cup ({f} \ {0})
  BY UnreadSound DEF Returned
<1>5. BytesOf(buffers) = x \o y /\ y \in Seq(Byte)
  <2>1. w \in Seq(SocketBuffer)
    BY <1>4 DEF BuffersSound
  <2> QED BY <1>1, <2>1, ChunkBytes, BytesType
<1>6. Len(x) <= Space(q) /\ g = Received(q, x, f)
  BY DEF Returned
<1> HIDE DEF x, f, y
<1>7. /\ QueueSound(g) /\ PhaseSound(g, l) /\ Left(g) = Left(q) \o x
      /\ g.pending.what = q.pending.what /\ g.pending.n = q.pending.n
      /\ Direct(q) =>
            /\ l = 0 /\ g.fds = 0
            /\ g.pending.fds = IF q.pending.fds = 0 THEN f ELSE q.pending.fds
            /\ Len(Left(q)) + Len(x)
                  <= HeaderSize + IF q.pending.what = "message" THEN q.pending.n ELSE 0
      /\ ~Direct(q) =>
            /\ g.fds = f /\ g.pending.fds = q.pending.fds
            /\ g.data[Len(g.data)] = x[Len(x)]
  <2>1. /\ x \in Seq(Byte) /\ Len(x) >= 1 /\ f \in Nat /\ l \in Nat
        /\ QueueSound(q) /\ PhaseSound(q, l) /\ q.start = 0 /\ q.cursor = Len(q.data)
        /\ q.fds = 0 /\ Len(q.data) < DataSize(q) /\ (HasTarget(q) => q.data = <<>>)
    BY <1>2, <1>3
  <2>2. TakenIn(q, g, l, x, f)
    BY ONLY <1>6, <2>1, ReceivedSound
  <2> QED BY ONLY <2>2 DEF TakenIn
<1>8. a \in Seq(Byte)
  BY LeftIs
<1>9. Left(g) \o y = a \o (x \o y)
  BY <1>2, <1>5, <1>7, <1>8, Joined, ZenonT(30)
<1>10. Conforms(Left(g) \o y, l, m)
  BY <1>5, <1>9 DEF ContentSound
<1>11. Direct(q) /\ f # 0 => f = m
  <2> SUFFICES ASSUME Direct(q), f # 0 PROVE f = m
    OBVIOUS
  <2> DEFINE c == a \o x
             s == IF q.pending.what = "message" THEN q.pending.n ELSE 0
  <2>1. /\ c \in Seq(Byte) /\ Len(c) = Len(a) + Len(x)
        /\ \A i \in 1 .. Len(a) + Len(x) : c[i] = IF i <= Len(a) THEN a[i] ELSE x[i - Len(a)]
    BY <1>2, <1>8, ConcatProperties
  <2>2. Left(g) = c /\ Len(a) + Len(x) <= HeaderSize + s /\ l = 0
    BY <1>7
  <2>3. s \in Nat /\ (s = 0 \/ s = BodySize[m])
    BY QueueFacts DEF ContentSound
  <2>4. Len(a) \in Nat
    BY <1>8
  <2> HIDE DEF a, c, s
  <2>5. c # <<>> /\ Conforms(c \o y, 0, m) /\ Len(c) <= HeaderSize + s
    BY <1>2, <1>10, <2>1, <2>2, <2>4
  <2>6. c[Len(c)] = <<m, Len(c)>>
    BY <1>5, <2>1, <2>3, <2>5, ByteOfMessage
  <2>7. c[Len(c)] = x[Len(x)]
    <3> DEFINE j == Len(a) + Len(x)
    <3>1. j \in 1 .. Len(a) + Len(x) /\ ~(j <= Len(a)) /\ j - Len(a) = Len(x)
      BY <1>2, <2>4
    <3> HIDE DEF j
    <3>2. c[j] = x[Len(x)]
      BY <2>1, <3>1
    <3> QED BY <2>1, <3>2 DEF j
  <2>8. x[Len(x)][1] = m
    BY <2>6, <2>7
  <2> QED BY <1>3, <2>8
<1>12. ContentSound(g, l, m, w)
  <2>1. g.fds # 0 => g.data[Len(g.data)][1] \in {0, g.fds}
    BY <1>3, <1>7
  <2>2. g.pending.fds \in {0, m}
    BY <1>7, <1>11 DEF ContentSound
  <2>3. g.pending.what = "message" => m \in DOMAIN BodySize /\ g.pending.n = BodySize[m]
    BY <1>7 DEF ContentSound
  <2> QED BY <1>10, <2>1, <2>2, <2>3 DEF ContentSound, y
<1>13. FdsIn(g, w) = FdsIn(q, buffers)
  <2>1. q.pending.fds \in {0, m}
    BY DEF ContentSound
  <2>2. CASE Direct(q)
    <3>1. g.fds = 0 /\ g.pending.fds = IF q.pending.fds = 0 THEN f ELSE q.pending.fds
      BY <1>7, <2>2
    <3> QED BY <1>4, <1>11, <2>1, <2>2, <3>1 DEF FdsIn
  <2>3. CASE ~Direct(q)
    <3>1. g.fds = f /\ g.pending.fds = q.pending.fds
      BY <1>7, <2>3
    <3> QED BY <1>4, <3>1 DEF FdsIn
  <2> QED BY <2>2, <2>3
<1>14. Left(g) \o BytesOf(w) = Left(q) \o BytesOf(buffers)
  BY <1>5, <1>9 DEF y
<1> QED BY ONLY <1>4, <1>7, <1>12, <1>13, <1>14 DEF ReadOn

\* iqueue_flush() leaves an empty queue, in the buffer that it had.
LEMMA FlushSound ==
    ASSUME NEW q, QueueSound(q)
    PROVE  QueueSound(iqueue_flush(q))
<1> DEFINE g == iqueue_flush(q)
           e == q.enlarged
           c == q.charged
<1>1. e \in BOOLEAN /\ c \in Nat /\ c = IF e THEN LineMax ELSE 0
  BY DEF QueueSound, IQueues
<1>2. NoTarget \in Pendings /\ iqueue_init \in IQueues
  BY DEF NoTarget, Pendings, iqueue_init, IQueues
<1>3. g = [iqueue_init EXCEPT !.enlarged = e, !.charged = c]
  BY DEF iqueue_flush
<1> HIDE DEF g, e, c
<1>4. /\ g.data = <<>> /\ g.start = 0 /\ g.cursor = 0 /\ g.enlarged = e /\ g.charged = c
      /\ g.fds = 0 /\ g.fdsCharged = FALSE /\ g.header = <<>> /\ g.pending = NoTarget
      /\ g.pendingFdsCharged = FALSE
  BY <1>3 DEF iqueue_init
<1>5. g \in IQueues
  BY <1>1, <1>2, <1>3 DEF IQueues
<1>6. DataSize(g) \in Nat
  BY Sizes DEF DataSize
<1>7. QueueSound(g)
  BY <1>1, <1>4, <1>5, <1>6 DEF QueueSound, NoTarget, HasTarget
<1> QED BY <1>7 DEF g

\* It is the lesser of what there is and what is wanted.
LEMMA CopiedIs ==
    ASSUME NEW q, QueueSound(q)
    PROVE  /\ Copied(q) \in Nat /\ Copied(q) <= Len(q.data) - q.start
           /\ Copied(q) <= q.pending.n - Len(q.pending.got)
           /\ Copied(q) = Len(q.data) - q.start
                 <=> Len(q.data) - q.start <= q.pending.n - Len(q.pending.got)
           /\ Copied(q) = Len(Rest(q)) <=> Copied(q) = Len(q.data) - q.start
<1> DEFINE r == Len(Rest(q))
           d == q.pending.n - Len(q.pending.got)
<1>1. r = Len(q.data) - q.start /\ r \in Nat /\ d \in Nat
  BY QueueFacts, RestIs
<1>2. Copied(q) = Min({r, d})
  BY DEF Copied
<1> HIDE DEF r, d
<1>3. Copied(q) = IF r <= d THEN r ELSE d
  BY <1>1, <1>2, MinOfTwo
<1>4. /\ Copied(q) \in Nat /\ Copied(q) <= r /\ Copied(q) <= d /\ (Copied(q) = r <=> r <= d)
  BY <1>1, <1>3
<1> QED BY <1>1, <1>4 DEF r, d

\* The fields after the copy.
LEMMA CopyFields ==
    ASSUME NEW q, QueueSound(q), NEW g, g = Copy(q)
    PROVE  /\ g \in IQueues
           /\ g.data = q.data /\ g.start = q.start + Copied(q) /\ g.cursor = q.cursor + Copied(q)
           /\ g.enlarged = q.enlarged /\ g.charged = q.charged /\ g.header = q.header
           /\ g.pending.what = q.pending.what /\ g.pending.n = q.pending.n
           /\ g.pending.charged = q.pending.charged
           /\ g.pending.got = q.pending.got \o SubSeq(Rest(q), 1, Copied(q))
           /\ g.pending.fds = (IF Moves(q) THEN q.fds ELSE q.pending.fds)
           /\ g.pendingFdsCharged = (q.pendingFdsCharged \/ Moves(q))
           /\ g.fds = (IF Moves(q) THEN 0 ELSE q.fds)
           /\ g.fdsCharged = (q.fdsCharged /\ ~Moves(q))
<1> DEFINE n == Copied(q)
           r == Rest(q)
           t == Moves(q)
           got == q.pending.got \o SubSeq(r, 1, n)
           pf == IF t THEN q.fds ELSE q.pending.fds
           pc == q.pendingFdsCharged \/ t
           bf == IF t THEN 0 ELSE q.fds
           bc == q.fdsCharged /\ ~t
           p == [q.pending EXCEPT !.got = got, !.fds = pf]
           st == q.start + n
           cu == q.cursor + n
<1>1. /\ q \in IQueues /\ q.pending \in Pendings /\ q.pending.got \in Seq(Byte)
      /\ q.fds \in Nat /\ q.pending.fds \in Nat /\ q.start \in Nat /\ q.cursor \in Nat
      /\ r \in Seq(Byte) /\ n \in Nat /\ n <= Len(r) /\ Len(r) \in Nat
  BY QueueFacts, RestIs, CopiedIs DEF QueueSound
<1>2. got \in Seq(Byte)
  <2> HIDE DEF r, n
  <2>1. \A i \in 1 .. n : r[i] \in Byte
    BY <1>1
  <2>2. SubSeq(r, 1, n) \in Seq(Byte)
    BY <1>1, <2>1, SubSeqProperties
  <2> QED BY <1>1, <2>2, ConcatProperties
<1>3. pf \in Nat /\ pc \in BOOLEAN /\ bf \in Nat /\ bc \in BOOLEAN /\ st \in Nat /\ cu \in Nat
  BY <1>1
<1>4. g = [q EXCEPT !.pending = p, !.start = st, !.cursor = cu, !.pendingFdsCharged = pc,
                    !.fds = bf, !.fdsCharged = bc]
  BY <1>1 DEF Copy, IQueues, Pendings
<1> HIDE DEF n, r, t, got, pf, pc, bf, bc, st, cu
<1>5. /\ p \in Pendings /\ p.what = q.pending.what /\ p.n = q.pending.n
      /\ p.charged = q.pending.charged /\ p.got = got /\ p.fds = pf
  BY <1>1, <1>2, <1>3 DEF Pendings
<1> HIDE DEF p
<1>6. g \in IQueues
  BY <1>1, <1>3, <1>4, <1>5 DEF IQueues
<1>7. /\ g.data = q.data /\ g.start = st /\ g.cursor = cu
      /\ g.enlarged = q.enlarged /\ g.charged = q.charged /\ g.header = q.header
      /\ g.pending = p /\ g.pendingFdsCharged = pc /\ g.fds = bf /\ g.fdsCharged = bc
  BY <1>1, <1>4 DEF IQueues
<1> QED BY <1>5, <1>6, <1>7 DEF n, r, t, got, pf, pc, bf, bc, st, cu

\* The copy moves bytes and descriptors within the queue: all of the bytes that are
\* wanted, and the descriptors when they are of the message that is pending.
LEMMA CopySound ==
    ASSUME NEW q, QueueSound(q), HasTarget(q), PhaseSound(q, 0), ~Violates(q),
           NEW m \in Nat, m >= 1, NEW w, BytesOf(w) \in Seq(Byte), ContentSound(q, 0, m, w),
           NEW g, g = Copy(q)
    PROVE  /\ QueueSound(g) /\ PhaseSound(g, 0) /\ ContentSound(g, 0, m, w)
           /\ Left(g) = Left(q) /\ FdsIn(g, w) = FdsIn(q, w)
           /\ g.pending.what = q.pending.what /\ g.pending.n = q.pending.n
<1> DEFINE n == Copied(q)
           r == Rest(q)
           t == Moves(q)
           D == Len(q.data)
           S == q.start
<1>1. /\ g \in IQueues
      /\ g.data = q.data /\ g.start = S + n /\ g.cursor = q.cursor + n
      /\ g.enlarged = q.enlarged /\ g.charged = q.charged /\ g.header = q.header
      /\ g.pending.what = q.pending.what /\ g.pending.n = q.pending.n
      /\ g.pending.charged = q.pending.charged
      /\ g.pending.got = q.pending.got \o SubSeq(r, 1, n)
      /\ g.pending.fds = (IF t THEN q.fds ELSE q.pending.fds)
      /\ g.pendingFdsCharged = (q.pendingFdsCharged \/ t)
      /\ g.fds = (IF t THEN 0 ELSE q.fds)
      /\ g.fdsCharged = (q.fdsCharged /\ ~t)
  BY CopyFields, ZenonT(30)
<1>2. /\ q.data \in Seq(Byte) /\ D \in Nat /\ S \in Nat /\ q.cursor = S
      /\ S <= D /\ D <= DataSize(q) /\ DataSize(q) \in Nat
      /\ q.pending.got \in Seq(Byte) /\ Len(q.pending.got) \in Nat /\ q.pending.n \in Nat
      /\ Len(q.pending.got) <= q.pending.n /\ q.header \in Seq(Byte)
      /\ q.fds \in Nat /\ q.pending.fds \in Nat
  BY QueueFacts DEF PhaseSound
<1>3. /\ n \in Nat /\ n <= D - S /\ n <= q.pending.n - Len(q.pending.got)
      /\ n = D - S <=> D - S <= q.pending.n - Len(q.pending.got)
      /\ r \in Seq(Byte) /\ Len(r) = D - S
      /\ \A i \in 1 .. D - S : r[i] = q.data[S + i]
  BY CopiedIs, RestIs
<1>4. DataSize(g) = DataSize(q) /\ HasTarget(g)
  BY <1>1 DEF DataSize, HasTarget
<1>5. /\ q.charged = IF q.enlarged THEN LineMax ELSE 0
      /\ q.pending.charged = q.pending.n
      /\ q.fdsCharged <=> q.fds # 0
      /\ q.pendingFdsCharged <=> q.pending.fds # 0
      /\ q.fds # 0 => S < D
      /\ q.pending.what = "header" => q.pending.n = HeaderSize
      /\ IF q.pending.what = "message" THEN Len(q.header) = HeaderSize ELSE q.header = <<>>
  BY <1>2 DEF QueueSound
<1>6. t => q.pending.fds = 0
  BY <1>3 DEF Violates, Moves
<1> HIDE DEF n, r, D, t, S
<1>7. /\ SubSeq(r, 1, n) \in Seq(Byte) /\ Len(SubSeq(r, 1, n)) = n
      /\ SubSeq(r, n + 1, Len(r)) \in Seq(Byte)
      /\ r = SubSeq(r, 1, n) \o SubSeq(r, n + 1, Len(r))
  <2>1. Len(r) \in Nat /\ n <= Len(r)
    BY <1>3
  <2>2. (\A i \in 1 .. n : r[i] \in Byte) /\ (\A i \in n + 1 .. Len(r) : r[i] \in Byte)
    BY <1>3, <2>1
  <2>3. /\ SubSeq(r, 1, n) \in Seq(Byte) /\ Len(SubSeq(r, 1, n)) = n
        /\ SubSeq(r, n + 1, Len(r)) \in Seq(Byte)
    BY <1>3, <2>1, <2>2, SubSeqProperties
  <2>4. SubSeq(r, 1, n) \o SubSeq(r, n + 1, Len(r)) = SubSeq(r, 1, Len(r))
    <3>1. 1 \in 1 .. Len(r) + 1 /\ n \in 1 - 1 .. Len(r) /\ Len(r) \in n .. Len(r)
      BY <1>3, <2>1
    <3> QED BY <1>3, <3>1, ConcatAdjacentSubSeq
  <2>5. SubSeq(r, 1, Len(r)) = r
    BY <1>3, SubSeqFull
  <2> QED BY <2>3, <2>4, <2>5
<1>8. Len(g.pending.got) = Len(q.pending.got) + n
  BY <1>1, <1>2, <1>7, ConcatProperties
<1>9. QueueSound(g)
  <2>1. /\ g.start <= g.cursor /\ g.cursor <= Len(g.data) /\ Len(g.data) <= DataSize(g)
        /\ Len(g.pending.got) <= g.pending.n
    <3>1. Len(g.data) = D
      BY <1>1 DEF D
    <3>2. Len(g.pending.got) <= g.pending.n
      <4> DEFINE c == Len(q.pending.got)
                 e == q.pending.n
      <4>1. Len(g.pending.got) = c + n /\ g.pending.n = e
        BY <1>1, <1>8
      <4>2. c \in Nat /\ e \in Nat /\ n \in Nat /\ n <= e - c
        BY <1>2, <1>3
      <4> HIDE DEF c, e
      <4> QED BY <4>1, <4>2
    <3>3. g.start = S + n /\ g.cursor = S + n
      BY <1>1, <1>2
    <3>4. g.start <= g.cursor /\ g.cursor <= D
      BY <1>2, <1>3, <3>3
    <3> QED BY <1>2, <1>4, <3>1, <3>2, <3>4
  <2>2. g.fdsCharged <=> g.fds # 0
    BY <1>1, <1>5
  <2>3. g.pendingFdsCharged <=> g.pending.fds # 0
    BY <1>1, <1>5 DEF t, Moves
  <2>4. g.fds # 0 => g.cursor < Len(g.data)
    <3> SUFFICES ASSUME g.fds # 0 PROVE g.cursor < Len(g.data)
      OBVIOUS
    <3>1. q.fds # 0 /\ n # Len(r)
      BY <1>1 DEF t, Moves, n, r
    <3> QED BY <1>1, <1>2, <1>3, <3>1, SMTT(20) DEF D
  <2> QED BY <1>1, <1>4, <1>5, <2>1, <2>2, <2>3, <2>4 DEF QueueSound
<1>10. PhaseSound(g, 0)
  BY <1>1, <1>2 DEF PhaseSound
<1>11. Rest(g) = SubSeq(r, n + 1, Len(r))
  <2> DEFINE d == Rest(g)
             e == SubSeq(r, n + 1, Len(r))
  <2>1. /\ d \in Seq(Byte) /\ Len(d) = D - (S + n)
        /\ \A i \in 1 .. D - (S + n) : d[i] = q.data[S + n + i]
    <3>1. /\ d \in Seq(Byte) /\ Len(d) = Len(g.data) - g.start
          /\ \A i \in 1 .. Len(g.data) - g.start : d[i] = g.data[g.start + i]
      BY <1>9, RestIs
    <3>2. g.data = q.data /\ Len(g.data) = D /\ g.start = S + n
      BY <1>1 DEF D
    <3> HIDE DEF d
    <3> QED BY <3>1, <3>2
  <2>2. /\ e \in Seq(Byte) /\ Len(e) = IF n + 1 <= Len(r) THEN Len(r) - (n + 1) + 1 ELSE 0
        /\ \A i \in 1 .. Len(r) - (n + 1) + 1 : e[i] = r[n + 1 + i - 1]
    <3>1. \A i \in n + 1 .. Len(r) : r[i] \in Byte
      BY <1>3
    <3>2. Len(r) \in Nat
      BY <1>3
    <3> QED BY <1>3, <3>1, <3>2, SubSeqProperties
  <2> HIDE DEF d, e
  <2>3. Len(d) = Len(e)
    BY <1>2, <1>3, <2>1, <2>2
  <2>4. ASSUME NEW i \in 1 .. Len(d) PROVE d[i] = e[i]
    <3>1. /\ i \in 1 .. D - (S + n) /\ i \in 1 .. Len(r) - (n + 1) + 1
          /\ n + 1 + i - 1 = n + i /\ n + i \in 1 .. D - S
          /\ S + (n + i) = S + n + i
      BY <1>2, <1>3, <2>1
    <3>2. d[i] = q.data[S + n + i] /\ e[i] = r[n + i]
      BY <2>1, <2>2, <3>1
    <3>3. r[n + i] = q.data[S + (n + i)]
      BY <1>3, <3>1
    <3> QED BY <3>1, <3>2, <3>3
  <2>5. d = e
    BY <2>1, <2>2, <2>3, <2>4, SeqEqual
  <2> QED BY <2>5 DEF d, e
<1>12. Left(g) = Left(q)
  <2> DEFINE h == q.header
             p == q.pending.got
             u == SubSeq(r, 1, n)
             v == SubSeq(r, n + 1, Len(r))
  <2>1. Left(g) = (h \o (p \o u)) \o v /\ Left(q) = (h \o p) \o r
    BY <1>1, <1>11 DEF Left, r
  <2>2. h \in Seq(Byte) /\ p \in Seq(Byte) /\ u \in Seq(Byte) /\ v \in Seq(Byte) /\ r = u \o v
    BY <1>2, <1>7
  <2> HIDE DEF h, p, u, v
  <2>3. h \o (p \o u) = (h \o p) \o u /\ h \o p \in Seq(Byte)
    BY <2>2, Joined, ConcatProperties, SMTT(20)
  <2>4. (h \o p) \o (u \o v) = ((h \o p) \o u) \o v
    BY <2>2, <2>3, Joined
  <2> QED BY <2>1, <2>2, <2>3, <2>4
<1>13. t => q.fds = m
  <2> SUFFICES ASSUME t PROVE q.fds = m
    OBVIOUS
  <2> DEFINE a == Left(q)
             hg == q.header \o q.pending.got
             s == IF q.pending.what = "message" THEN q.pending.n ELSE 0
  <2>1. /\ a = hg \o r /\ hg \in Seq(Byte) /\ Len(hg) = Len(q.header) + Len(q.pending.got)
    <3>1. hg \in Seq(Byte) /\ Len(hg) = Len(q.header) + Len(q.pending.got)
      BY <1>2, ConcatProperties
    <3>2. a = hg \o r
      BY DEF Left, r
    <3> QED BY <3>1, <3>2
  <2>2. Len(r) >= 1 /\ Len(r) = n
    BY <1>2, <1>3, <1>5 DEF t, Moves, n, r
  <2> HIDE DEF a, hg, s
  <2>3. Len(hg) \in Nat
    <3>1. hg \in Seq(Byte)
      BY <2>1
    <3> QED BY <3>1
  <2>4. /\ a \in Seq(Byte) /\ Len(a) = Len(hg) + Len(r)
        /\ \A i \in 1 .. Len(hg) + Len(r) : a[i] = IF i <= Len(hg) THEN hg[i] ELSE r[i - Len(hg)]
    <3>1. a = hg \o r /\ hg \in Seq(Byte) /\ r \in Seq(Byte)
      BY <1>3, <2>1
    <3> QED BY ONLY <3>1, ConcatProperties
  <2>5. Len(a) <= HeaderSize + s
    <3>1. Len(q.header) \in Nat /\ Len(q.pending.got) + Len(r) <= q.pending.n
      <4>1. /\ q.header \in Seq(Byte) /\ Len(q.pending.got) \in Nat /\ q.pending.n \in Nat
            /\ Len(r) = n /\ n \in Nat /\ n <= q.pending.n - Len(q.pending.got)
        BY <1>2, <1>3, <2>2
      <4>2. Len(q.header) \in Nat
        BY ONLY <4>1
      <4> QED BY ONLY <4>1, <4>2
    <3>2. CASE q.pending.what = "message"
      <4>1. Len(q.header) = HeaderSize
        BY <1>5, <3>2
      <4>2. s = q.pending.n
        BY <3>2 DEF s
      <4> DEFINE c == Len(q.pending.got)
                 e == q.pending.n
      <4>3. /\ c \in Nat /\ e \in Nat /\ Len(r) \in Nat /\ c + Len(r) <= e
            /\ Len(a) = HeaderSize + c + Len(r) /\ s = e
        BY <1>2, <1>3, <2>1, <2>4, <3>1, <4>1, <4>2, Sizes
      <4> HIDE DEF c, e
      <4> QED BY <4>3, Sizes
    <3>3. CASE q.pending.what # "message"
      <4>1. q.pending.what = "header"
        BY <3>3, QueueFacts DEF HasTarget, Pendings
      <4>2. Len(q.header) = 0 /\ q.pending.n = HeaderSize
        BY <1>5, <3>3, <4>1
      <4> QED BY <1>2, <1>3, <2>1, <2>4, <3>1, <3>3, <4>2, Sizes DEF s
    <3> QED BY <3>2, <3>3
  <2>6. s \in Nat /\ (s = 0 \/ s = BodySize[m])
    BY <1>2 DEF ContentSound, s
  <2>7. Conforms(a \o BytesOf(w), 0, m)
    BY DEF ContentSound, a
  <2>8. a # <<>>
    BY <2>2, <2>4, <2>3
  <2>9. a[Len(a)] = <<m, Len(a)>>
    BY <2>4, <2>5, <2>6, <2>7, <2>8, ByteOfMessage
  <2>10. a[Len(a)] = r[Len(r)]
    <3> DEFINE j == Len(hg) + Len(r)
    <3>1. j \in 1 .. Len(hg) + Len(r) /\ ~(j <= Len(hg)) /\ j - Len(hg) = Len(r)
      BY <1>3, <2>2, <2>3
    <3> HIDE DEF j
    <3>2. a[j] = r[Len(r)]
      BY <2>4, <3>1
    <3> QED BY <2>4, <3>2 DEF j
  <2>11. r[Len(r)] = q.data[D]
    <3>1. Len(r) \in 1 .. D - S /\ S + Len(r) = D
      BY <1>2, <1>3, <2>2
    <3> QED BY <1>3, <3>1
  <2>12. q.data[D][1] \in {0, q.fds}
    BY DEF ContentSound, t, Moves, D
  <2> QED BY <2>9, <2>10, <2>11, <2>12
<1>14. ContentSound(g, 0, m, w)
  <2>1. g.fds # 0 => g.data[Len(g.data)][1] \in {0, g.fds}
    BY <1>1 DEF ContentSound
  <2>2. g.pending.fds \in {0, m}
    BY <1>1, <1>13 DEF ContentSound
  <2> QED BY <1>1, <1>12, <2>1, <2>2 DEF ContentSound
<1>15. FdsIn(g, w) = FdsIn(q, w)
  BY <1>1, <1>6 DEF FdsIn
<1> QED BY <1>1, <1>9, <1>10, <1>12, <1>14, <1>15

\* Queue g is q with another pending target, or with none.
SameBuffer(q, g) ==
    /\ g.data = q.data /\ g.start = q.start /\ g.cursor = q.cursor
    /\ g.enlarged = q.enlarged /\ g.charged = q.charged /\ g.fds = q.fds
    /\ g.fdsCharged = q.fdsCharged
Targeted(q, g, what, n) ==
    /\ g \in IQueues /\ SameBuffer(q, g) /\ g.header = q.header
    /\ g.pendingFdsCharged = q.pendingFdsCharged
    /\ g.pending.what = what /\ g.pending.n = n /\ g.pending.got = <<>>
    /\ g.pending.fds = q.pending.fds /\ g.pending.charged = n

\* A target that is set, with what stays.
LEMMA TargetFields ==
    ASSUME NEW q, q \in IQueues, NEW what \in {"header", "message"}, NEW n \in Nat,
           NEW g, g = iqueue_set_target(q, what, n)
    PROVE  Targeted(q, g, what, n)
<1> DEFINE p == [what |-> what, n |-> n, got |-> <<>>, fds |-> q.pending.fds, charged |-> n]
<1>1. q.pending.fds \in Nat
  BY DEF IQueues, Pendings
<1>2. /\ p \in Pendings /\ p.what = what /\ p.n = n /\ p.got = <<>> /\ p.fds = q.pending.fds
      /\ p.charged = n
  BY <1>1 DEF Pendings
<1>3. g = [q EXCEPT !.pending = p]
  BY DEF iqueue_set_target
<1> HIDE DEF p
<1>4. g \in IQueues
  BY <1>2, <1>3 DEF IQueues
<1>5. /\ g.pending = p
      /\ g.data = q.data /\ g.start = q.start /\ g.cursor = q.cursor
      /\ g.enlarged = q.enlarged /\ g.charged = q.charged /\ g.fds = q.fds
      /\ g.fdsCharged = q.fdsCharged /\ g.header = q.header
      /\ g.pendingFdsCharged = q.pendingFdsCharged
  BY <1>3 DEF IQueues
<1> QED BY <1>2, <1>4, <1>5 DEF Targeted, SameBuffer

\* The header becomes the target.
LEMMA HeaderTarget ==
    ASSUME NEW q, QueueSound(q), ~HasTarget(q), PhaseSound(q, 0),
           NEW m, NEW w, ContentSound(q, 0, m, w),
           NEW g, g = iqueue_set_target(q, "header", HeaderSize)
    PROVE  /\ QueueSound(g) /\ PhaseSound(g, 0) /\ ContentSound(g, 0, m, w)
           /\ Left(g) = Left(q) /\ FdsIn(g, w) = FdsIn(q, w)
           /\ g.pending.what = "header"
<1>1. q \in IQueues /\ HeaderSize \in Nat /\ "header" \in {"header", "message"}
  BY Sizes DEF QueueSound
<1>2. /\ g \in IQueues
      /\ g.pending.what = "header" /\ g.pending.n = HeaderSize /\ g.pending.got = <<>>
      /\ g.pending.fds = q.pending.fds /\ g.pending.charged = HeaderSize
      /\ g.data = q.data /\ g.start = q.start /\ g.cursor = q.cursor
      /\ g.enlarged = q.enlarged /\ g.charged = q.charged /\ g.fds = q.fds
      /\ g.fdsCharged = q.fdsCharged /\ g.header = q.header
      /\ g.pendingFdsCharged = q.pendingFdsCharged
  <2>1. Targeted(q, g, "header", HeaderSize)
    BY <1>1, TargetFields
  <2> QED BY <2>1 DEF Targeted, SameBuffer
<1>3. q.pending = NoTarget /\ q.pending.what = "none" /\ q.pending.got = <<>>
  BY DEF QueueSound, NoTarget
<1>4. DataSize(g) = DataSize(q) /\ HasTarget(g)
  BY <1>2 DEF DataSize, HasTarget
<1>5. q.header = <<>>
  BY <1>3 DEF QueueSound
<1>6. QueueSound(g)
  <2>1. Len(g.pending.got) <= g.pending.n
    BY <1>1, <1>2
  <2> QED BY <1>2, <1>4, <1>5, <2>1 DEF QueueSound
<1>7. PhaseSound(g, 0)
  BY <1>2 DEF PhaseSound
<1>8. Left(g) = Left(q)
  BY <1>2, <1>3 DEF Left, Rest
<1> QED BY <1>2, <1>6, <1>7, <1>8 DEF ContentSound, FdsIn

\* Once the header is there, the rest of the message it starts becomes the target.
LEMMA MessageTarget ==
    ASSUME NEW q, QueueSound(q), PhaseSound(q, 0), q.pending.what = "header", Complete(q),
           NEW m \in Nat, m >= 1, NEW w, BytesOf(w) \in Seq(Byte), ContentSound(q, 0, m, w),
           NEW g, g = iqueue_set_target(Popped([q EXCEPT !.header = q.pending.got], FALSE),
                                        "message", BodySize[q.pending.got[1][1]])
    PROVE  /\ QueueSound(g) /\ PhaseSound(g, 0) /\ ContentSound(g, 0, m, w)
           /\ Left(g) = Left(q) /\ FdsIn(g, w) = FdsIn(q, w)
           /\ g.pending.what = "message"
<1> DEFINE got == q.pending.got
           r == Rest(q)
           b == Left(q) \o BytesOf(w)
<1>1. /\ got \in Seq(Byte) /\ Len(got) = HeaderSize /\ Len(got) >= 1 /\ got # <<>>
      /\ r \in Seq(Byte) /\ Left(q) \in Seq(Byte) /\ Left(q) = got \o r
  <2>1. /\ got \in Seq(Byte) /\ Len(got) \in Nat /\ Len(got) <= q.pending.n
        /\ q.pending.n = HeaderSize /\ Len(got) >= q.pending.n
    BY QueueFacts DEF QueueSound, Complete
  <2>2. r \in Seq(Byte) /\ Left(q) \in Seq(Byte) /\ Left(q) = got \o r
    BY RestIs, LeftIs
  <2>3. Len(got) = HeaderSize /\ Len(got) >= 1
    BY <2>1, Sizes
  <2> HIDE DEF got
  <2> QED BY <2>1, <2>2, <2>3
<1>2. got[1] = <<m, 1>> /\ m \in DOMAIN BodySize /\ BodySize[m] \in Nat
  <2> DEFINE a == Left(q)
             y == BytesOf(w)
  <2>1. Conforms(b, 0, m)
    BY DEF ContentSound
  <2>2. a \in Seq(Byte) /\ y \in Seq(Byte) /\ b = a \o y
    BY <1>1
  <2>3. a = got \o r
    BY <1>1
  <2> HIDE DEF a, y, b, got, r
  <2>4. /\ b \in Seq(Byte) /\ Len(b) = Len(a) + Len(y)
        /\ \A i \in 1 .. Len(a) + Len(y) : b[i] = IF i <= Len(a) THEN a[i] ELSE y[i - Len(a)]
    BY <2>2, ConcatProperties
  <2>5. /\ Len(a) = Len(got) + Len(r)
        /\ \A i \in 1 .. Len(got) + Len(r) :
             a[i] = IF i <= Len(got) THEN got[i] ELSE r[i - Len(got)]
    BY <1>1, <2>3, ConcatProperties
  <2>6. Len(r) \in Nat /\ Len(y) \in Nat /\ Len(got) \in Nat
    BY <1>1, <2>2
  <2>7. b # <<>> /\ b[1] = a[1] /\ a[1] = got[1]
    <3>1. /\ 1 \in 1 .. Len(a) + Len(y) /\ 1 <= Len(a) /\ 1 \in 1 .. Len(got) + Len(r)
          /\ Len(b) >= 1
      BY <1>1, <2>4, <2>5, <2>6
    <3>2. b[1] = a[1]
      BY <2>4, <3>1
    <3>3. a[1] = got[1]
      BY <1>1, <2>5, <3>1
    <3>4. b # <<>>
      BY <2>4, <3>1
    <3> QED BY <3>2, <3>3, <3>4
  <2>8. b[1] = <<m, 1>> /\ m \in DOMAIN BodySize
    BY <2>1, <2>4, <2>7, ConformsNext
  <2> QED BY <2>7, <2>8, Sizes
<1>3. BodySize[got[1][1]] = BodySize[m]
  BY <1>2
<1> DEFINE p == [NoTarget EXCEPT !.fds = q.pending.fds]
           h == [q EXCEPT !.header = got, !.pending = p]
<1>4. q \in IQueues /\ q.pending.fds \in Nat
  BY QueueFacts DEF QueueSound
<1>5. Popped([q EXCEPT !.header = got], FALSE) = h
  BY <1>4 DEF Popped, IQueues
<1> HIDE DEF got
<1>6. p \in Pendings /\ p.fds = q.pending.fds
  <2>1. p = [what |-> "none", n |-> 0, got |-> <<>>, fds |-> q.pending.fds, charged |-> 0]
    BY DEF NoTarget
  <2> HIDE DEF p
  <2> QED BY <1>4, <2>1 DEF Pendings
<1> HIDE DEF p
<1>7. h \in IQueues
  BY <1>1, <1>4, <1>6 DEF IQueues
<1>8. /\ h.header = got /\ h.pending = p
      /\ h.data = q.data /\ h.start = q.start /\ h.cursor = q.cursor
      /\ h.enlarged = q.enlarged /\ h.charged = q.charged /\ h.fds = q.fds
      /\ h.fdsCharged = q.fdsCharged /\ h.pendingFdsCharged = q.pendingFdsCharged
  BY <1>4 DEF IQueues
<1> HIDE DEF h
<1>9. g = iqueue_set_target(h, "message", BodySize[m])
  BY <1>3, <1>5 DEF got
<1>10. /\ g \in IQueues
       /\ g.pending.what = "message" /\ g.pending.n = BodySize[m] /\ g.pending.got = <<>>
       /\ g.pending.fds = q.pending.fds /\ g.pending.charged = BodySize[m]
       /\ g.data = q.data /\ g.start = q.start /\ g.cursor = q.cursor
       /\ g.enlarged = q.enlarged /\ g.charged = q.charged /\ g.fds = q.fds
       /\ g.fdsCharged = q.fdsCharged /\ g.header = got
       /\ g.pendingFdsCharged = q.pendingFdsCharged
  <2>1. "message" \in {"header", "message"}
    OBVIOUS
  <2>2. /\ g \in IQueues
        /\ g.pending.what = "message" /\ g.pending.n = BodySize[m] /\ g.pending.got = <<>>
        /\ g.pending.fds = h.pending.fds /\ g.pending.charged = BodySize[m]
        /\ g.data = h.data /\ g.start = h.start /\ g.cursor = h.cursor
        /\ g.enlarged = h.enlarged /\ g.charged = h.charged /\ g.fds = h.fds
        /\ g.fdsCharged = h.fdsCharged /\ g.header = h.header
        /\ g.pendingFdsCharged = h.pendingFdsCharged
    <3>1. Targeted(h, g, "message", BodySize[m])
      BY <1>2, <1>7, <1>9, <2>1, TargetFields
    <3> QED BY <3>1 DEF Targeted, SameBuffer
  <2> QED BY <1>6, <1>8, <2>2
<1>11. DataSize(g) = DataSize(q) /\ HasTarget(g)
  BY <1>10 DEF DataSize, HasTarget
<1>12. QueueSound(g)
  <2>1. Len(g.pending.got) <= g.pending.n
    <3>1. Len(g.pending.got) = 0
      BY <1>10
    <3> QED BY ONLY <1>2, <1>10, <3>1
  <2>2. Len(g.header) = HeaderSize
    BY <1>1, <1>10
  <2> QED BY <1>10, <1>11, <2>1, <2>2 DEF QueueSound
<1>13. PhaseSound(g, 0)
  <2>1. q.cursor = q.start
    BY DEF PhaseSound
  <2>2. g.cursor = g.start
    BY <1>10, <2>1
  <2> QED BY ONLY <2>2 DEF PhaseSound
<1>14. Left(g) = Left(q)
  <2>1. Left(g) = (got \o <<>>) \o r
    BY <1>10 DEF Left, Rest
  <2> QED BY <1>1, <2>1, ConcatEmptySeq
<1> QED BY <1>2, <1>10, <1>12, <1>13, <1>14 DEF ContentSound, FdsIn

\* A complete message leaves the queue: its bytes are all of it, the next message
\* follows, and the descriptors that are still to come are not its own.
LEMMA MessageDone ==
    ASSUME NEW q, QueueSound(q), PhaseSound(q, 0), q.pending.what = "message", Complete(q),
           NEW m \in Nat, m >= 1, BuffersSound(buffers), ContentSound(q, 0, m, buffers),
           NEW g, g = [Popped(q, TRUE) EXCEPT !.header = <<>>]
    PROVE  /\ QueueSound(g) /\ PhaseSound(g, 0) /\ ContentSound(g, 0, m + 1, buffers)
           /\ m \in DOMAIN BodySize
           /\ q.header \o q.pending.got = [i \in 1 .. HeaderSize + BodySize[m] |-> <<m, i>>]
           /\ q.header \o q.pending.got \in Seq(Byte) /\ q.header \o q.pending.got # <<>>
           /\ Left(g) \in Seq(Byte)
           /\ Left(q) = (q.header \o q.pending.got) \o Left(g)
           /\ g.fds = q.fds /\ g.pending.fds = 0
           /\ m \notin FdSets(buffers) \cup {q.fds}
<1> DEFINE x == q.header \o q.pending.got
           r == Rest(q)
           y == BytesOf(buffers)
           b == (x \o r) \o y
           t == r \o y
           n == HeaderSize + BodySize[m]
<1>1. /\ q.header \in Seq(Byte) /\ q.pending.got \in Seq(Byte) /\ x \in Seq(Byte)
      /\ q.pending.n \in Nat /\ Len(q.pending.got) <= q.pending.n
      /\ q.start \in Nat /\ q.start = q.cursor /\ q.cursor <= Len(q.data) /\ Len(q.data) \in Nat
      /\ q.data \in Seq(Byte) /\ q.fds \in Nat
  BY QueueFacts, LeftIs DEF PhaseSound
<1>2. /\ m \in DOMAIN BodySize /\ q.pending.n = BodySize[m] /\ BodySize[m] \in Nat
      /\ Conforms(b, 0, m)
      /\ q.fds # 0 => q.data[Len(q.data)][1] \in {0, q.fds}
  BY Sizes DEF ContentSound, Left
<1>3. Len(x) = n /\ n \in Nat /\ n >= 1
  <2>1. Len(x) = Len(q.header) + Len(q.pending.got)
    BY <1>1, ConcatProperties
  <2>2. Len(q.header) = HeaderSize /\ Len(q.pending.got) >= q.pending.n
    BY DEF QueueSound, Complete
  <2>3. Len(q.pending.got) \in Nat
    BY <1>1
  <2>4. Len(q.pending.got) = BodySize[m]
    BY <1>1, <1>2, <2>2, <2>3
  <2> QED BY <1>2, <2>1, <2>2, <2>4, Sizes
<1>4. /\ r \in Seq(Byte) /\ Len(r) = Len(q.data) - q.start
      /\ \A i \in 1 .. Len(q.data) - q.start : r[i] = q.data[q.start + i]
      /\ Left(q) = x \o r
  BY RestIs DEF Left
<1>5. buffers \in Seq(SocketBuffer) /\ y \in Seq(Byte)
  BY BytesType DEF BuffersSound
<1> HIDE DEF x, r, y, n
<1>6. b = x \o t /\ t \in Seq(Byte)
  BY <1>1, <1>4, <1>5, Joined, ConcatProperties, ZenonT(30)
<1>7. Conforms(b, 0, m)
  BY <1>2
<1> HIDE DEF b, t
<1>8. /\ b \in Seq(Byte) /\ Len(b) = Len(x) + Len(t)
      /\ \A i \in 1 .. Len(x) + Len(t) : b[i] = IF i <= Len(x) THEN x[i] ELSE t[i - Len(x)]
  BY <1>1, <1>6, ConcatProperties
<1>9. Len(t) \in Nat /\ Len(r) \in Nat /\ Len(y) \in Nat
  BY <1>4, <1>5, <1>6
<1>10. Conforms(t, 0, m + 1)
  <2>1. Len(b) = n + Len(t)
    BY <1>3, <1>8
  <2>2. ASSUME NEW k \in 1 .. Len(t) PROVE t[k] = b[n + k]
    <3> DEFINE j == n + k
    <3>1. j \in 1 .. Len(x) + Len(t) /\ ~(j <= Len(x)) /\ j - Len(x) = k
      BY <1>3, <1>9
    <3> HIDE DEF j
    <3>2. b[j] = t[k]
      BY <1>8, <3>1
    <3> QED BY <3>2 DEF j
  <2>3. n = HeaderSize + BodySize[m]
    BY DEF n
  <2> QED BY <1>2, <1>3, <1>6, <1>7, <1>8, <2>1, <2>2, <2>3, MessageTail
<1>11. x = [i \in 1 .. n |-> <<m, i>>]
  <2> DEFINE z == [i \in 1 .. n |-> <<m, i>>]
  <2>1. ASSUME NEW i \in 1 .. n PROVE x[i] = z[i]
    <3>1. i \in 1 .. Len(b) /\ i <= Len(x) /\ i <= HeaderSize + BodySize[m]
      BY <1>3, <1>8, <1>9 DEF n
    <3>2. b[i] = <<m, i>>
      BY <1>7, <1>8, <3>1, MessageBytes
    <3>3. b[i] = x[i]
      BY <1>8, <3>1
    <3> QED BY <3>2, <3>3
  <2>2. z \in Seq(Byte) /\ Len(z) = n
    <3>1. \A i \in 1 .. n : <<m, i>> \in Byte
      BY <1>3 DEF Byte
    <3> QED BY <1>3, <3>1
  <2> HIDE DEF z
  <2>3. x = z
    BY <1>1, <1>3, <2>1, <2>2, SeqEqual
  <2> QED BY <2>3 DEF z
<1>12. \A i \in 1 .. Len(t) : t[i][1] \in Nat /\ t[i][1] >= m + 1
  <2>1. m + 1 \in Nat /\ m + 1 >= 1
    OBVIOUS
  <2> QED BY <1>6, <1>10, <2>1, LaterBytes
<1>13. /\ Len(t) = Len(r) + Len(y)
       /\ \A i \in 1 .. Len(r) + Len(y) : t[i] = IF i <= Len(r) THEN r[i] ELSE y[i - Len(r)]
  BY <1>4, <1>5, ConcatProperties DEF t
<1>14. q.fds # m
  <2> SUFFICES ASSUME q.fds = m PROVE FALSE
    OBVIOUS
  <2>1. q.cursor < Len(q.data)
    BY DEF QueueSound
  <2>2. /\ Len(r) \in 1 .. Len(q.data) - q.start /\ q.start + Len(r) = Len(q.data)
        /\ Len(r) \in 1 .. Len(t) /\ Len(r) \in 1 .. Len(r) + Len(y)
    BY <1>1, <1>4, <1>9, <1>13, <2>1
  <2>3. t[Len(r)] = r[Len(r)] /\ r[Len(r)] = q.data[Len(q.data)]
    BY <1>4, <1>9, <1>13, <2>2
  <2>4. q.data[Len(q.data)][1] \in {0, m}
    BY <1>2
  <2>5. t[Len(r)][1] >= m + 1 /\ t[Len(r)][1] \in {0, m}
    BY <1>12, <2>2, <2>3, <2>4
  <2> QED BY <2>5
<1>15. m \notin FdSets(buffers)
  <2> SUFFICES ASSUME m \in FdSets(buffers) PROVE FALSE
    OBVIOUS
  <2>1. PICK k \in DOMAIN buffers : buffers[k].fds = m
    BY DEF FdSets
  <2>2. k \in 1 .. Len(buffers)
    BY <1>5
  <2>3. 1 \in 1 .. Len(buffers[k].bytes) /\ 1 \in DOMAIN buffers[k].bytes
    <3> DEFINE z == buffers[k].bytes
    <3>1. z \in Seq(Byte) /\ Len(z) \in Nat /\ Len(z) >= 1
      BY <1>5, <2>2, BufferParts
    <3> HIDE DEF z
    <3>2. 1 \in 1 .. Len(z) /\ 1 \in DOMAIN z
      BY <3>1
    <3> QED BY <3>2 DEF z
  <2>4. buffers[k].bytes[1][1] \in {0, m}
    BY <2>1, <2>3 DEF BuffersSound
  <2>5. PICK j \in 1 .. Len(y) : y[j] = buffers[k].bytes[1]
    BY <1>5, <2>2, <2>3, BytesElement DEF y
  <2> DEFINE i == Len(r) + j
  <2>6. i \in 1 .. Len(r) + Len(y) /\ ~(i <= Len(r)) /\ i - Len(r) = j /\ i \in 1 .. Len(t)
    BY <1>9, <1>13
  <2> HIDE DEF i
  <2>7. t[i] = y[j]
    BY <1>13, <2>6
  <2>8. t[i][1] >= m + 1 /\ t[i][1] \in {0, m}
    BY <1>12, <2>4, <2>5, <2>6, <2>7
  <2> QED BY <2>8
<1>16. /\ g \in IQueues /\ g.pending = NoTarget /\ g.pendingFdsCharged = FALSE
       /\ g.header = <<>> /\ SameBuffer(q, g)
  <2>1. g = [q EXCEPT !.pending = NoTarget, !.pendingFdsCharged = FALSE, !.header = <<>>]
    BY DEF Popped, QueueSound, IQueues
  <2>2. NoTarget \in Pendings
    BY DEF NoTarget, Pendings
  <2>3. q \in IQueues
    BY DEF QueueSound
  <2>4. g \in IQueues
    <3>1. <<>> \in Seq(Byte) /\ FALSE \in BOOLEAN
      OBVIOUS
    <3> QED BY <2>1, <2>2, <2>3, <3>1 DEF IQueues
  <2>5. /\ g.pending = NoTarget /\ g.pendingFdsCharged = FALSE
        /\ g.header = <<>> /\ SameBuffer(q, g)
    BY <2>1, <2>3 DEF IQueues, SameBuffer
  <2> QED BY <2>4, <2>5
<1>17. /\ g.pending.what = "none" /\ g.pending.n = 0 /\ g.pending.got = <<>>
       /\ g.pending.fds = 0 /\ g.pending.charged = 0 /\ ~HasTarget(g)
  <2>1. g.pending = NoTarget
    BY <1>16
  <2> QED BY ONLY <2>1 DEF NoTarget, HasTarget
<1>18. QueueSound(g)
  <2>1. DataSize(g) = DataSize(q)
    BY <1>16 DEF DataSize, SameBuffer
  <2>2. QueueSound(q)
    OBVIOUS
  <2>3. Len(g.pending.got) <= g.pending.n
    BY ONLY <1>17
  <2> QED BY ONLY <1>16, <1>17, <2>1, <2>2, <2>3 DEF QueueSound, SameBuffer
<1>19. PhaseSound(g, 0)
  BY ONLY <1>1, <1>16 DEF PhaseSound, SameBuffer
<1>20. Left(g) = r
  <2>1. Left(g) = Rest(g)
    BY <1>17, <1>18, LeftIs
  <2> QED BY <1>16, <2>1 DEF Rest, r, SameBuffer
<1>21. ContentSound(g, 0, m + 1, buffers)
  <2>1. Conforms(Left(g) \o BytesOf(buffers), 0, m + 1)
    BY <1>10, <1>20 DEF t, y
  <2> QED BY <1>2, <1>16, <1>17, <2>1 DEF ContentSound, SameBuffer
<1>22. x # <<>>
  BY <1>3
<1>23. x = [i \in 1 .. HeaderSize + BodySize[m] |-> <<m, i>>]
  BY <1>11 DEF n
<1> QED BY <1>1, <1>2, <1>4, <1>14, <1>15, <1>16, <1>17, <1>18, <1>19, <1>20, <1>21, <1>22,
           <1>23 DEF x, SameBuffer

\* Whether descriptors are kept is about those in the queue and to be received, and
\* those handed out.
LEMMA FdsKeptIs ==
    ASSUME NEW q, NEW w, NEW ms
    PROVE  FdsKept(q, w, ms) <=> FdSets(sent) = FdsIn(q, w) \cup FdSets(ms)
  BY DEF FdsKept, FdsIn, FdSets

\* What was handed out is a sequence of bytes.
LEMMA HandedIs ==
    ASSUME NEW ls \in Seq(Seq(Byte)), NEW ms \in Seq(SocketBuffer)
    PROVE  LET u == [k \in DOMAIN ls |-> ls[k] \o <<CR, LF>>] IN
           /\ u \in Seq(Seq(Byte)) /\ Len(u) = Len(ls)
           /\ \A k \in 1 .. Len(ls) : u[k] = ls[k] \o <<CR, LF>>
           /\ FlattenSeq(u) \in Seq(Byte) /\ BytesOf(ms) \in Seq(Byte)
           /\ Handed(ls, ms) = FlattenSeq(u) \o BytesOf(ms)
           /\ Handed(ls, ms) \in Seq(Byte)
<1> DEFINE u == [k \in DOMAIN ls |-> ls[k] \o <<CR, LF>>]
           e == <<CR, LF>>
<1>1. e \in Seq(Byte)
  BY DEF CR, LF, Byte
<1>2. DOMAIN ls = 1 .. Len(ls) /\ Len(ls) \in Nat
  OBVIOUS
<1>3. \A k \in 1 .. Len(ls) : ls[k] \in Seq(Byte)
  BY ElementOfSeq
<1> HIDE DEF e
<1>4. \A k \in 1 .. Len(ls) : ls[k] \o e \in Seq(Byte)
  BY <1>1, <1>3, ConcatProperties
<1>5. u = [k \in 1 .. Len(ls) |-> ls[k] \o e]
  BY <1>2 DEF e
<1>6. u \in Seq(Seq(Byte)) /\ Len(u) = Len(ls) /\ \A k \in 1 .. Len(ls) : u[k] = ls[k] \o e
  <2> HIDE DEF u
  <2>1. u \in [1 .. Len(ls) -> Seq(Byte)] /\ \A k \in 1 .. Len(ls) : u[k] = ls[k] \o e
    BY ONLY <1>4, <1>5, Zenon
  <2>2. u \in Seq(Seq(Byte)) /\ Len(u) = Len(ls)
    <3> DEFINE N == Len(ls)
               T == Seq(Byte)
    <3>1. N \in Nat /\ u \in [1 .. N -> T]
      BY <1>2, <2>1
    <3> HIDE DEF N, T
    <3>2. u \in Seq(T) /\ Len(u) = N
      BY ONLY <3>1
    <3> QED BY <3>2 DEF N, T
  <2> QED BY <2>1, <2>2
<1>7. Handed(ls, ms) = FlattenSeq(u) \o BytesOf(ms)
  BY DEF Handed
<1> HIDE DEF u
<1>8. FlattenSeq(u) \in Seq(Byte) /\ BytesOf(ms) \in Seq(Byte)
  BY <1>6, FlattenType, BytesType
<1>9. FlattenSeq(u) \o BytesOf(ms) \in Seq(Byte)
  BY <1>8, ConcatProperties
<1> QED BY <1>6, <1>7, <1>8, <1>9 DEF u, e

\* The queue after the pending message, that message, and what holds once it is
\* handed out.
Emptied(q) == [Popped(q, TRUE) EXCEPT !.header = <<>>]
MessageOf(q) == [bytes |-> q.header \o q.pending.got, fds |-> q.pending.fds]
MessageTaken(q, ls, ms) ==
    /\ QueueSound(q) /\ PhaseSound(q, 0) /\ MessagesSound(ms)
    /\ ContentSound(q, 0, Len(ms) + 1, buffers)
    /\ FdsKept(q, buffers, ms) /\ Conserved(q, buffers, ls, ms)

\* A message that is handed out is the next one, whole, with its descriptors, and is
\* accounted for.
LEMMA HandedOver ==
    ASSUME NEW q, QueueSound(q), PhaseSound(q, 0), q.pending.what = "message", Complete(q),
           NEW ls \in Seq(Seq(Byte)), NEW ms, MessagesSound(ms), BuffersSound(buffers),
           NEW m \in Nat, m = Len(ms) + 1, ContentSound(q, 0, m, buffers),
           FdsKept(q, buffers, ms), Conserved(q, buffers, ls, ms),
           NEW g, g = Emptied(q),
           NEW ns, ns = Append(ms, MessageOf(q))
    PROVE  MessageTaken(g, ls, ns)
<1> DEFINE x == q.header \o q.pending.got
           f == q.pending.fds
           a == [bytes |-> x, fds |-> f]
<1>1. ms \in Seq(SocketBuffer) /\ Len(ms) \in Nat /\ m >= 1
  BY DEF MessagesSound
<1>2. /\ QueueSound(g) /\ PhaseSound(g, 0) /\ ContentSound(g, 0, m + 1, buffers)
      /\ m \in DOMAIN BodySize
      /\ x = [i \in 1 .. HeaderSize + BodySize[m] |-> <<m, i>>]
      /\ x \in Seq(Byte) /\ x # <<>>
      /\ Left(g) \in Seq(Byte)
      /\ Left(q) = x \o Left(g)
      /\ g.fds = q.fds /\ g.pending.fds = 0
      /\ m \notin FdSets(buffers) \cup {q.fds}
  <2>1. /\ QueueSound(q) /\ PhaseSound(q, 0) /\ q.pending.what = "message" /\ Complete(q)
        /\ BuffersSound(buffers) /\ m \in Nat /\ ContentSound(q, 0, m, buffers)
        /\ g = [Popped(q, TRUE) EXCEPT !.header = <<>>]
    BY DEF Emptied
  <2> QED BY ONLY <1>1, <2>1, MessageDone
<1>3. f \in Nat /\ f \in {0, m}
  BY QueueFacts DEF ContentSound
<1>4. ns = Append(ms, a)
  BY DEF MessageOf
<1> HIDE DEF x, f
<1>5. a \in SocketBuffer /\ a.bytes = x /\ a.fds = f
  BY <1>2, <1>3 DEF SocketBuffer
<1> HIDE DEF a
<1>6. /\ ns \in Seq(SocketBuffer) /\ BytesOf(ns) = BytesOf(ms) \o x
      /\ BytesOf(ms) \in Seq(Byte)
  BY <1>1, <1>4, <1>5, BytesAppend
<1>7. /\ Len(ns) = Len(ms) + 1 /\ ns[Len(ms) + 1] = a
      /\ \A k \in 1 .. Len(ms) : ns[k] = ms[k]
      /\ DOMAIN ns = 1 .. Len(ms) + 1 /\ DOMAIN ms = 1 .. Len(ms)
  <2>1. /\ Len(ns) = Len(ms) + 1 /\ ns[Len(ms) + 1] = a
        /\ \A k \in 1 .. Len(ms) : ns[k] = ms[k]
    BY ONLY <1>1, <1>4, <1>5, AppendProperties
  <2>2. DOMAIN ns = 1 .. Len(ns) /\ DOMAIN ms = 1 .. Len(ms)
    BY ONLY <1>1, <1>6
  <2> QED BY <2>1, <2>2
<1>8. \A k \in 1 .. Len(ms) + 1 : k \in 1 .. Len(ms) \/ k = m
  BY <1>1
<1>9. FdSets(ns) = FdSets(ms) \cup ({f} \ {0})
  <2>1. ASSUME NEW z \in FdSets(ns) PROVE z \in FdSets(ms) \cup ({f} \ {0})
    <3>1. PICK k \in 1 .. Len(ms) + 1 : z = ns[k].fds /\ z # 0
      BY <1>7, <2>1 DEF FdSets
    <3>2. CASE k \in 1 .. Len(ms)
      BY <1>7, <3>1, <3>2 DEF FdSets
    <3>3. CASE k = m
      BY <1>5, <1>7, <3>1, <3>3
    <3> QED BY <1>8, <3>2, <3>3
  <2>2. ASSUME NEW z \in FdSets(ms) PROVE z \in FdSets(ns)
    <3>1. PICK k \in 1 .. Len(ms) : z = ms[k].fds /\ z # 0
      BY <1>7, <2>2 DEF FdSets
    <3>2. k \in DOMAIN ns /\ z = ns[k].fds
      BY <1>1, <1>7, <3>1
    <3> QED BY <3>1, <3>2 DEF FdSets
  <2>3. {f} \ {0} \subseteq FdSets(ns)
    <3>1. m \in DOMAIN ns /\ ns[m].fds = f
      <4>1. m = Len(ms) + 1 /\ m \in 1 .. Len(ms) + 1
        BY <1>1
      <4> QED BY ONLY <1>5, <1>7, <4>1
    <3> QED BY <3>1 DEF FdSets
  <2> QED BY <2>1, <2>2, <2>3
<1>10. FdSets(sent) = (FdSets(buffers) \cup FdSets(ms) \cup {q.fds, f}) \ {0}
  BY DEF FdsKept, f
<1>11. f = FdsOf(m)
  <2>1. m \in FdSets(sent) <=> \E k \in DOMAIN sent : sent[k].fds = m
    BY <1>1 DEF FdSets
  <2>2. m \notin FdSets(ms)
    <3> SUFFICES ASSUME m \in FdSets(ms) PROVE FALSE
      OBVIOUS
    <3>1. PICK k \in 1 .. Len(ms) : ms[k].fds = m
      BY <1>7 DEF FdSets
    <3>2. ms[k].fds = FdsOf(k)
      BY <1>7 DEF MessagesSound
    <3>3. FdsOf(k) \in {0, k}
      BY DEF FdsOf
    <3> QED BY <1>1, <3>1, <3>2, <3>3
  <2>3. m \in FdSets(sent) <=> f = m
    BY <1>1, <1>2, <1>10, <2>2
  <2> QED BY <1>1, <1>3, <2>1, <2>3 DEF FdsOf
<1>12. MessagesSound(ns)
  <2> SUFFICES ASSUME NEW k \in 1 .. Len(ms) + 1
               PROVE  /\ k \in DOMAIN BodySize
                      /\ ns[k].bytes = [i \in 1 .. HeaderSize + BodySize[k] |-> <<k, i>>]
                      /\ ns[k].fds = FdsOf(k)
    BY <1>6, <1>7 DEF MessagesSound
  <2>1. CASE k \in 1 .. Len(ms)
    BY <1>7, <2>1 DEF MessagesSound
  <2>2. CASE k = m
    <3>1. m = Len(ms) + 1
      OBVIOUS
    <3> QED BY ONLY <1>2, <1>5, <1>7, <1>11, <2>2, <3>1
  <2> QED BY <1>8, <2>1, <2>2
<1>13. FdsKept(g, buffers, ns)
  BY <1>2, <1>9, <1>10 DEF FdsKept
<1>14. Conserved(g, buffers, ls, ns)
  <2> DEFINE u == [k \in DOMAIN ls |-> ls[k] \o <<CR, LF>>]
             h == FlattenSeq(u)
             p == BytesOf(ms)
             r == Left(g)
             y == BytesOf(buffers)
  <2>1. h \in Seq(Byte) /\ Handed(ls, ms) = h \o p /\ Handed(ls, ns) = h \o BytesOf(ns)
    BY <1>1, <1>6, HandedIs
  <2>2. Handed(ls, ms) \o (Left(q) \o y) = SentBytes
    BY DEF Conserved
  <2>3. y \in Seq(Byte)
    BY BytesType DEF BuffersSound
  <2>4. Left(q) = x \o r /\ r \in Seq(Byte) /\ p \in Seq(Byte) /\ x \in Seq(Byte)
    BY <1>2, <1>6
  <2>5. Handed(ls, ns) = h \o (p \o x)
    BY <1>6, <2>1
  <2> HIDE DEF u, h, p, r, y
  <2>6. (h \o p) \o ((x \o r) \o y) = (h \o (p \o x)) \o (r \o y)
    <3>1. h \o p \in Seq(Byte) /\ r \o y \in Seq(Byte)
      BY <2>1, <2>3, <2>4, ConcatProperties
    <3>2. (x \o r) \o y = x \o (r \o y)
      BY <2>3, <2>4, Joined
    <3>3. (h \o p) \o (x \o (r \o y)) = ((h \o p) \o x) \o (r \o y)
      BY <2>4, <3>1, Joined
    <3>4. (h \o p) \o x = h \o (p \o x)
      BY <2>1, <2>4, Joined
    <3> QED BY <3>2, <3>3, <3>4
  <2>7. Handed(ls, ns) \o (r \o y) = SentBytes
    BY <2>1, <2>2, <2>4, <2>5, <2>6
  <2> QED BY <2>7 DEF Conserved, r, y
<1>15. ContentSound(g, 0, Len(ns) + 1, buffers)
  BY <1>2, <1>7
<1> QED BY <1>2, <1>12, <1>13, <1>14, <1>15 DEF MessageTaken

\* The end of a line that iqueue_pop_line() finds is the first one behind the cursor.
LEMMA LineEndIs ==
    ASSUME NEW q, QueueSound(q)
    PROVE  LET end == LineEnd(q)
               Ends(k) == k > 1 /\ q.data[k] = LF /\ q.data[k - 1] = CR IN
           /\ end = 0 => \A k \in q.cursor + 1 .. Len(q.data) : ~Ends(k)
           /\ end # 0 => /\ end \in q.cursor + 1 .. Len(q.data) /\ Ends(end)
                         /\ \A k \in q.cursor + 1 .. Len(q.data) : Ends(k) => end <= k
<1> DEFINE E == {k \in q.cursor + 1 .. Len(q.data) :
                   k > 1 /\ q.data[k] = LF /\ q.data[k - 1] = CR}
<1>1. LineEnd(q) = IF E = {} THEN 0 ELSE Min(E)
  BY DEF LineEnd
<1>2. q.cursor \in Nat /\ Len(q.data) \in Nat
  BY QueueFacts
<1>3. E \subseteq Nat /\ 0 \notin E
  BY <1>2
<1>4. CASE E = {}
  BY <1>1, <1>4
<1>5. CASE E # {}
  <2> DEFINE e == Min(E)
  <2>1. e \in E /\ \A n \in E : e <= n
    BY <1>3, <1>5, MinIs
  <2>2. LineEnd(q) = e
    BY <1>1, <1>5
  <2> HIDE DEF e
  <2> QED BY <1>3, <2>1, <2>2
<1> QED BY <1>4, <1>5

\* The offsets move.
Offset(q, c, s) == [q EXCEPT !.cursor = c, !.start = s]

\* g is q with its offsets at c and s.
MovedTo(q, g, c, s) ==
    /\ g \in IQueues /\ g.cursor = c /\ g.start = s
    /\ g.data = q.data /\ g.enlarged = q.enlarged /\ g.charged = q.charged
    /\ g.fds = q.fds /\ g.fdsCharged = q.fdsCharged /\ g.header = q.header
    /\ g.pending = q.pending /\ g.pendingFdsCharged = q.pendingFdsCharged

\* The fields after that.
LEMMA OffsetFields ==
    ASSUME NEW q, q \in IQueues, NEW c \in Nat, NEW s \in Nat
    PROVE  MovedTo(q, Offset(q, c, s), c, s)
<1> DEFINE g == Offset(q, c, s)
<1>1. g \in IQueues
  BY DEF IQueues, Offset
<1>2. /\ g.cursor = c /\ g.start = s
      /\ g.data = q.data /\ g.enlarged = q.enlarged /\ g.charged = q.charged
      /\ g.fds = q.fds /\ g.fdsCharged = q.fdsCharged /\ g.header = q.header
      /\ g.pending = q.pending /\ g.pendingFdsCharged = q.pendingFdsCharged
  BY DEF IQueues, Offset
<1> QED BY <1>1, <1>2 DEF MovedTo

\* No line yet: all was looked at.
LEMMA LineScanned ==
    ASSUME NEW q, QueueSound(q), NEW l \in Nat, l > 0, PhaseSound(q, l), LineEnd(q) = 0,
           q.fds = 0, NEW m, NEW w, ContentSound(q, l, m, w),
           NEW g, g = [q EXCEPT !.cursor = Len(q.data)]
    PROVE  /\ QueueSound(g) /\ PhaseSound(g, l) /\ ContentSound(g, l, m, w)
           /\ Left(g) = Left(q) /\ FdsIn(g, w) = FdsIn(q, w)
<1>1. /\ q \in IQueues /\ q.start \in Nat /\ q.cursor \in Nat /\ Len(q.data) \in Nat
      /\ q.start <= q.cursor /\ q.cursor <= Len(q.data)
  BY QueueFacts DEF QueueSound
<1>2. /\ g \in IQueues /\ g.cursor = Len(q.data) /\ g.start = q.start
      /\ g.data = q.data /\ g.enlarged = q.enlarged /\ g.charged = q.charged
      /\ g.fds = q.fds /\ g.fdsCharged = q.fdsCharged /\ g.header = q.header
      /\ g.pending = q.pending /\ g.pendingFdsCharged = q.pendingFdsCharged
  <2>1. g = Offset(q, Len(q.data), q.start)
    BY <1>1 DEF IQueues, Offset
  <2>2. MovedTo(q, g, Len(q.data), q.start)
    BY ONLY <1>1, <2>1, OffsetFields
  <2> QED BY ONLY <2>2 DEF MovedTo
<1>3. DataSize(g) = DataSize(q) /\ (HasTarget(g) <=> HasTarget(q))
  BY ONLY <1>2 DEF DataSize, HasTarget
<1>4. QueueSound(g)
  <2>1. /\ g.start <= g.cursor /\ g.cursor <= Len(g.data) /\ g.fds = 0
        /\ Len(g.data) = Len(q.data)
    BY <1>1, <1>2
  <2>2. QueueSound(q)
    OBVIOUS
  <2> QED BY ONLY <1>2, <1>3, <2>1, <2>2 DEF QueueSound
<1>5. PhaseSound(g, l)
  <2>1. ASSUME NEW k \in g.start + 2 .. g.cursor PROVE ~(g.data[k - 1] = CR /\ g.data[k] = LF)
    <3>1. k \in q.start + 2 .. Len(q.data) /\ k > 1
      BY <1>1, <1>2
    <3>2. CASE k \in q.start + 2 .. q.cursor
      BY <1>2, <3>2 DEF PhaseSound
    <3>3. CASE k \in q.cursor + 1 .. Len(q.data)
      BY <1>2, <3>1, <3>3, LineEndIs
    <3> QED BY <1>1, <3>1, <3>2, <3>3
  <2>2. ~HasTarget(g) /\ (g.start > 0 => g.data[g.start] = LF)
    BY <1>2, <1>3 DEF PhaseSound
  <2>3. l \in Nat /\ l > 0
    OBVIOUS
  <2> QED BY ONLY <2>1, <2>2, <2>3 DEF PhaseSound
<1>6. Left(g) = Left(q)
  BY ONLY <1>2 DEF Left, Rest
<1>7. ContentSound(q, l, m, w)
  OBVIOUS
<1> QED BY ONLY <1>2, <1>4, <1>5, <1>6, <1>7 DEF ContentSound, FdsIn

\* The queue after a line was taken, with l lines still to come before.
LineTaken(q, g, w, l, m, ls, ns) ==
    /\ QueueSound(g) /\ PhaseSound(g, l - 1) /\ ContentSound(g, l - 1, m, w)
    /\ FdsIn(g, w) = FdsIn(q, w)
    /\ ns \in Seq(Seq(Byte)) /\ Len(ns) = Len(ls) + 1
    /\ Conserved(g, w, ns, <<>>)

\* A line leaves the queue: it ends at the first end of a line in the stream, and
\* no byte is lost.
LEMMA LineDone ==
    ASSUME NEW q, QueueSound(q), NEW l \in Nat, l > 0, PhaseSound(q, l),
           NEW end, end = LineEnd(q), end # 0, q.fds # 0 => end # Len(q.data),
           NEW m \in Nat, NEW w, w \in Seq(SocketBuffer), ContentSound(q, l, m, w),
           NEW ls \in Seq(Seq(Byte)), Conserved(q, w, ls, <<>>),
           NEW g, g = Offset(q, end, end),
           NEW ns, ns = Append(ls, SubSeq(q.data, q.start + 1, end - 2))
    PROVE  LineTaken(q, g, w, l, m, ls, ns)
<1> DEFINE d == q.data
           D == Len(q.data)
           S == q.start
           C == q.cursor
           r == Rest(q)
           y == BytesOf(w)
           b == r \o y
           t == Rest(g)
           v == t \o y
           e == end - S
           z == SubSeq(d, S + 1, end - 2)
           cl == <<CR, LF>>
<1>1. /\ q \in IQueues /\ d \in Seq(Byte) /\ D \in Nat /\ S \in Nat /\ C \in Nat
      /\ S <= C /\ C <= D
  BY QueueFacts DEF QueueSound
<1>2. /\ end \in C + 1 .. D /\ end > 1 /\ d[end] = LF /\ d[end - 1] = CR
      /\ \A k \in C + 1 .. D : k > 1 /\ d[k] = LF /\ d[k - 1] = CR => end <= k
  BY LineEndIs
<1>3. end \in Nat /\ end > C /\ end <= D
  BY <1>1, <1>2, SMTT(20)
<1>4. /\ ~HasTarget(q) /\ (S > 0 => d[S] = LF)
      /\ \A k \in S + 2 .. C : ~(d[k - 1] = CR /\ d[k] = LF)
  BY DEF PhaseSound
<1>5. S + 2 <= end
  <2>1. /\ d[end - 1] = CR /\ end > 1 /\ (S > 0 => d[S] = LF)
        /\ end \in Nat /\ S \in Nat /\ C \in Nat /\ S <= C /\ end > C
    BY <1>1, <1>2, <1>3, <1>4
  <2> HIDE DEF d, S, C
  <2>2. CASE end = S + 1
    <3>1. S > 0 /\ end - 1 = S
      BY ONLY <2>1, <2>2
    <3> QED BY ONLY <2>1, <3>1 DEF CR, LF
  <2> QED BY ONLY <2>1, <2>2
<1>6. /\ D \in Nat /\ S \in Nat /\ C \in Nat /\ end \in Nat
      /\ S <= C /\ C <= D /\ end > C /\ end <= D /\ S + 2 <= end
  BY <1>1, <1>3, <1>5
<1>7. /\ g \in IQueues /\ g.cursor = end /\ g.start = end
      /\ g.data = q.data /\ g.enlarged = q.enlarged /\ g.charged = q.charged
      /\ g.fds = q.fds /\ g.fdsCharged = q.fdsCharged /\ g.header = q.header
      /\ g.pending = q.pending /\ g.pendingFdsCharged = q.pendingFdsCharged
  <2>1. g = Offset(q, end, end)
    OBVIOUS
  <2>2. MovedTo(q, g, end, end)
    BY ONLY <1>1, <1>3, <2>1, OffsetFields
  <2> QED BY ONLY <2>2 DEF MovedTo
<1>8. DataSize(g) = DataSize(q) /\ (HasTarget(g) <=> HasTarget(q))
  BY ONLY <1>7 DEF DataSize, HasTarget
<1>9. QueueSound(g)
  <2>1. /\ g.start <= g.cursor /\ g.cursor <= Len(g.data) /\ Len(g.data) = Len(q.data)
        /\ g.fds # 0 => g.cursor < Len(g.data)
    BY <1>1, <1>3, <1>7
  <2>2. QueueSound(q)
    OBVIOUS
  <2> QED BY ONLY <1>7, <1>8, <2>1, <2>2 DEF QueueSound
<1>10. PhaseSound(g, l - 1)
  <2>1. g.cursor = g.start /\ ~HasTarget(g) /\ g.data[g.start] = LF
    BY <1>2, <1>4, <1>7, <1>8
  <2>2. \A k \in g.start + 2 .. g.cursor : FALSE
    BY <1>3, <1>7
  <2> QED BY ONLY <2>1, <2>2 DEF PhaseSound
<1>11. /\ r \in Seq(Byte) /\ Len(r) = D - S /\ \A i \in 1 .. D - S : r[i] = d[S + i]
       /\ Left(q) = r
  BY <1>4, RestIs, LeftIs
<1>12. /\ t \in Seq(Byte) /\ Len(t) = D - end /\ \A i \in 1 .. D - end : t[i] = d[end + i]
       /\ Left(g) = t
  <2>1. /\ t \in Seq(Byte) /\ Len(t) = Len(g.data) - g.start
        /\ \A i \in 1 .. Len(g.data) - g.start : t[i] = g.data[g.start + i]
        /\ Left(g) = t
    BY ONLY <1>4, <1>8, <1>9, RestIs, LeftIs
  <2> QED BY ONLY <1>7, <2>1
<1>13. y \in Seq(Byte)
  BY BytesType
<1>14. z \in Seq(Byte) /\ Len(z) = e - 2 /\ \A i \in 1 .. e - 2 : z[i] = d[S + i]
  <2> HIDE DEF d, D, S
  <2>1. \A i \in S + 1 .. end - 2 : d[i] \in Byte
    <3>1. \A i \in S + 1 .. end - 2 : i \in 1 .. D
      BY <1>1, <1>3
    <3> QED BY <1>1, <3>1 DEF D, d
  <2>2. /\ z \in Seq(Byte) /\ Len(z) = IF S + 1 <= end - 2 THEN end - 2 - (S + 1) + 1 ELSE 0
        /\ \A i \in 1 .. end - 2 - (S + 1) + 1 : z[i] = d[S + 1 + i - 1]
    <3>1. S + 1 \in Int /\ end - 2 \in Int
      BY <1>1, <1>3
    <3> QED BY ONLY <2>1, <3>1, SubSeqProperties
  <2> HIDE DEF z
  <2>3. Len(z) = e - 2
    BY ONLY <1>6, <2>2
  <2>4. ASSUME NEW i \in 1 .. e - 2 PROVE z[i] = d[S + i]
    <3>1. i \in 1 .. end - 2 - (S + 1) + 1 /\ S + 1 + i - 1 = S + i
      BY <1>1, <1>3
    <3> QED BY <2>2, <3>1
  <2> QED BY <2>2, <2>3, <2>4
<1>15. Conforms(b, l, m) /\ Conserved(q, w, ls, <<>>)
  BY <1>11 DEF ContentSound
<1>16. cl \in Seq(Byte) /\ Len(cl) = 2 /\ cl[1] = CR /\ cl[2] = LF
  BY DEF CR, LF, Byte
<1>17. ns = Append(ls, z) /\ ls \in Seq(Seq(Byte))
  OBVIOUS
<1> HIDE DEF d, D, S, C, r, y, t, z, cl
<1>18. /\ b \in Seq(Byte) /\ Len(b) = Len(r) + Len(y)
       /\ \A i \in 1 .. Len(r) + Len(y) : b[i] = IF i <= Len(r) THEN r[i] ELSE y[i - Len(r)]
  BY ONLY <1>11, <1>13, ConcatProperties
<1>19. /\ v \in Seq(Byte) /\ Len(v) = Len(t) + Len(y)
       /\ \A i \in 1 .. Len(t) + Len(y) : v[i] = IF i <= Len(t) THEN t[i] ELSE y[i - Len(t)]
  BY ONLY <1>12, <1>13, ConcatProperties
<1>20. /\ Len(y) \in Nat /\ e \in Nat /\ e >= 2 /\ S + e = end /\ e <= Len(r)
       /\ Len(r) \in Nat /\ Len(t) \in Nat /\ Len(r) = e + Len(t)
  BY ONLY <1>6, <1>11, <1>12, <1>13
<1> HIDE DEF b, v, e
<1>21. \A i \in 1 .. D - S : b[i] = d[S + i]
  <2> SUFFICES ASSUME NEW i \in 1 .. D - S PROVE b[i] = d[S + i]
    OBVIOUS
  <2>1. i \in 1 .. Len(r) + Len(y) /\ i <= Len(r)
    BY <1>11, <1>20
  <2> QED BY <1>11, <1>18, <2>1
<1>22. Len(b) = e + Len(v) /\ \A k \in 1 .. Len(v) : v[k] = b[e + k]
  <2>1. Len(b) = e + Len(v)
    BY <1>18, <1>19, <1>20
  <2>2. ASSUME NEW k \in 1 .. Len(v) PROVE v[k] = b[e + k]
    <3> DEFINE j == e + k
    <3>1. j \in 1 .. Len(r) + Len(y) /\ k \in 1 .. Len(t) + Len(y)
      BY <1>18, <1>19, <1>20, <2>1
    <3>2. CASE k <= Len(t)
      <4>1. /\ j \in 1 .. D - S /\ k \in 1 .. D - end /\ S + j = end + k
        <5>1. /\ D \in Nat /\ S \in Nat /\ end \in Nat /\ e \in Nat /\ S + e = end
              /\ k \in Nat /\ k >= 1 /\ k <= Len(t) /\ Len(t) = D - end /\ end <= D
          BY <1>6, <1>11, <1>12, <1>20, <3>1, <3>2
        <5> QED BY ONLY <5>1
      <4> HIDE DEF j
      <4>2. v[k] = t[k] /\ t[k] = d[end + k] /\ b[j] = d[S + j]
        BY <1>12, <1>19, <1>21, <3>1, <3>2, <4>1
      <4> QED BY <4>1, <4>2 DEF j
    <3>3. CASE ~(k <= Len(t))
      <4>1. ~(j <= Len(r)) /\ j - Len(r) = k - Len(t)
        BY <1>20, <3>3
      <4> HIDE DEF j
      <4>2. v[k] = y[k - Len(t)] /\ b[j] = y[j - Len(r)]
        BY <1>18, <1>19, <3>1, <3>3, <4>1
      <4> QED BY <4>1, <4>2 DEF j
    <3> QED BY <3>2, <3>3
  <2> QED BY <2>1, <2>2
<1>23. e \in LineEnds(b)
  <2>1. /\ e \in 1 .. D - S /\ e - 1 \in 1 .. D - S /\ S + e = end /\ S + (e - 1) = end - 1
        /\ e \in 2 .. Len(b)
    BY ONLY <1>6, <1>11, <1>18, <1>20
  <2>2. b[e] = d[end] /\ b[e - 1] = d[end - 1]
    BY <1>21, <2>1
  <2> QED BY <1>2, <2>1, <2>2 DEF LineEnds
<1>24. \A k \in LineEnds(b) : e <= k
  <2> SUFFICES ASSUME NEW k \in LineEnds(b), ~(e <= k) PROVE FALSE
    OBVIOUS
  <2>1. k \in 2 .. Len(b) /\ b[k - 1] = CR /\ b[k] = LF /\ ~(e <= k)
    BY DEF LineEnds
  <2> DEFINE j == S + k
  <2>2. /\ k \in 1 .. D - S /\ k - 1 \in 1 .. D - S /\ S + (k - 1) = j - 1
        /\ j \in S + 2 .. D /\ j < end /\ j > 1
    BY ONLY <1>6, <1>11, <1>18, <1>20, <2>1
  <2>3. d[j] = LF /\ d[j - 1] = CR
    <3>1. b[k] = d[j]
      BY <1>21, <2>2
    <3>2. b[k - 1] = d[S + (k - 1)]
      BY <1>21, <2>2
    <3> QED BY <2>1, <2>2, <3>1, <3>2
  <2> HIDE DEF j
  <2>4. CASE j \in S + 2 .. C
    BY <1>4, <2>3, <2>4 DEF d, S, C
  <2>5. CASE j \in C + 1 .. D
    <3>1. end <= j
      BY <1>2, <2>2, <2>3, <2>5 DEF d, D, C
    <3> QED BY <1>6, <2>2, <3>1
  <2> QED BY <1>1, <2>2, <2>4, <2>5
<1>25. Conforms(v, l - 1, m)
  <2>1. l \in Nat /\ l > 0 /\ m \in Nat
    OBVIOUS
  <2> QED BY ONLY <1>15, <1>18, <1>19, <1>22, <1>23, <1>24, <2>1, LineTail
<1>26. ContentSound(g, l - 1, m, w) /\ FdsIn(g, w) = FdsIn(q, w)
  <2>1. Conforms(Left(g) \o BytesOf(w), l - 1, m)
    BY <1>12, <1>25 DEF v, y
  <2>2. ContentSound(q, l, m, w)
    OBVIOUS
  <2> QED BY ONLY <1>7, <2>1, <2>2 DEF ContentSound, FdsIn
<1>27. ns \in Seq(Seq(Byte)) /\ Len(ns) = Len(ls) + 1 /\ ns[Len(ls) + 1] = z
       /\ \A k \in 1 .. Len(ls) : ns[k] = ls[k]
  BY ONLY <1>14, <1>17, AppendProperties
<1>28. r = (z \o cl) \o t
  <2> DEFINE f == z \o cl
             h == f \o t
  <2>1. /\ f \in Seq(Byte) /\ Len(f) = Len(z) + Len(cl)
        /\ \A i \in 1 .. Len(z) + Len(cl) : f[i] = IF i <= Len(z) THEN z[i] ELSE cl[i - Len(z)]
    BY ONLY <1>14, <1>16, ConcatProperties
  <2>2. Len(f) = e
    BY <1>14, <1>16, <1>20, <2>1
  <2>3. ASSUME NEW i \in 1 .. e PROVE f[i] = d[S + i]
    <3>1. i \in 1 .. Len(z) + Len(cl) /\ Len(z) = e - 2
      BY <1>14, <1>16, <1>20
    <3>2. CASE i <= e - 2
      <4>1. i \in 1 .. e - 2
        BY <1>20, <3>2
      <4> QED BY <1>14, <2>1, <3>1, <3>2, <4>1
    <3>3. CASE i = e - 1
      <4>1. ~(i <= Len(z)) /\ i - Len(z) = 1 /\ S + i = end - 1
        BY ONLY <1>6, <1>20, <3>1, <3>3
      <4>2. f[i] = cl[1]
        BY <2>1, <3>1, <4>1
      <4>3. d[end - 1] = CR
        BY <1>2
      <4> QED BY <1>16, <4>1, <4>2, <4>3
    <3>4. CASE i = e
      <4>1. ~(i <= Len(z)) /\ i - Len(z) = 2 /\ S + i = end
        BY ONLY <1>6, <1>20, <3>1, <3>4
      <4>2. f[i] = cl[2]
        BY <2>1, <3>1, <4>1
      <4> QED BY <1>2, <1>16, <4>1, <4>2
    <3> QED BY ONLY <1>20, <3>1, <3>2, <3>3, <3>4
  <2> HIDE DEF f
  <2>4. /\ h \in Seq(Byte) /\ Len(h) = Len(f) + Len(t)
        /\ \A i \in 1 .. Len(f) + Len(t) : h[i] = IF i <= Len(f) THEN f[i] ELSE t[i - Len(f)]
    BY ONLY <1>12, <2>1, ConcatProperties
  <2> HIDE DEF h
  <2>5. Len(h) = Len(r)
    BY <1>20, <2>2, <2>4
  <2>6. ASSUME NEW i \in 1 .. Len(r) PROVE r[i] = h[i]
    <3>1. i \in 1 .. Len(f) + Len(t) /\ i \in 1 .. D - S
      BY <1>11, <1>20, <2>2
    <3>2. CASE i <= e
      <4>1. i \in 1 .. e
        BY <1>20, <3>2
      <4> QED BY <1>11, <2>2, <2>3, <2>4, <3>1, <3>2, <4>1
    <3>3. CASE ~(i <= e)
      <4> DEFINE j == i - e
      <4>1. j \in 1 .. D - end /\ end + j = S + i
        BY ONLY <1>6, <1>20, <3>1, <3>3
      <4>2. h[i] = t[j]
        BY <2>2, <2>4, <3>1, <3>3
      <4> HIDE DEF j
      <4>3. t[j] = d[end + j]
        BY <1>12, <4>1
      <4> QED BY <1>11, <3>1, <4>1, <4>2, <4>3
    <3> QED BY <3>2, <3>3
  <2>7. r = h
    BY ONLY <1>11, <2>4, <2>5, <2>6, SeqEqual
  <2> QED BY <2>7 DEF h, f
<1>29. Conserved(g, w, ns, <<>>)
  <2> DEFINE u == [k \in DOMAIN ls |-> ls[k] \o <<CR, LF>>]
             x == [k \in DOMAIN ns |-> ns[k] \o <<CR, LF>>]
             c == z \o cl
             h == FlattenSeq(u)
  <2>1. <<>> \in Seq(SocketBuffer)
    OBVIOUS
  <2>2. /\ u \in Seq(Seq(Byte)) /\ Len(u) = Len(ls)
        /\ \A k \in 1 .. Len(ls) : u[k] = ls[k] \o <<CR, LF>>
        /\ h \in Seq(Byte) /\ BytesOf(<<>>) \in Seq(Byte)
        /\ Handed(ls, <<>>) = h \o BytesOf(<<>>)
    BY ONLY <1>17, <2>1, HandedIs
  <2>3. /\ x \in Seq(Seq(Byte)) /\ Len(x) = Len(ns)
        /\ \A k \in 1 .. Len(ns) : x[k] = ns[k] \o <<CR, LF>>
        /\ Handed(ns, <<>>) = FlattenSeq(x) \o BytesOf(<<>>)
    BY ONLY <1>27, <2>1, HandedIs
  <2>4. BytesOf(<<>>) = <<>>
    <3>1. BytesSeq(<<>>) \in Seq(Seq(Byte)) /\ Len(BytesSeq(<<>>)) = 0
          /\ BytesOf(<<>>) = FlattenSeq(BytesSeq(<<>>))
      BY <2>1, BytesType
    <3>2. BytesSeq(<<>>) = <<>>
      BY <3>1
    <3>3. FlattenSeq(<<>>) = <<>>
      BY DEF FlattenSeq
    <3> QED BY <3>1, <3>2, <3>3
  <2> HIDE DEF u, x, h
  <2>5. c \in Seq(Byte)
    BY <1>14, <1>16, ConcatProperties
  <2>6. c = z \o <<CR, LF>>
    BY DEF cl
  <2> HIDE DEF c
  <2>7. x = Append(u, c)
    <3> DEFINE a == Append(u, c)
    <3>1. /\ a \in Seq(Seq(Byte)) /\ Len(a) = Len(u) + 1
          /\ \A i \in 1 .. Len(u) : a[i] = u[i]
          /\ a[Len(u) + 1] = c
      BY ONLY <2>2, <2>5, AppendProperties
    <3> HIDE DEF a
    <3>2. Len(ls) \in Nat
      OBVIOUS
    <3>3. ASSUME NEW i \in 1 .. Len(x) PROVE x[i] = a[i]
      <4>1. i \in 1 .. Len(ns) /\ (i \in 1 .. Len(ls) \/ i = Len(ls) + 1)
        BY <1>27, <2>3, <3>2
      <4>2. CASE i \in 1 .. Len(ls)
        BY <1>27, <2>2, <2>3, <3>1, <4>1, <4>2
      <4>3. CASE i = Len(ls) + 1
        BY <1>27, <2>2, <2>3, <2>6, <3>1, <4>1, <4>3
      <4> QED BY <4>1, <4>2, <4>3
    <3>4. x = a
      BY ONLY <1>27, <2>2, <2>3, <3>1, <3>3, SeqEqual
    <3> QED BY <3>4 DEF a
  <2>8. FlattenSeq(x) = h \o c
    BY ONLY <2>2, <2>5, <2>7, FlattenLast DEF h
  <2>9. h \o (r \o y) = SentBytes
    <3>1. Handed(ls, <<>>) \o (Left(q) \o BytesOf(w)) = SentBytes
      BY <1>15 DEF Conserved
    <3>2. Handed(ls, <<>>) = h
      BY <2>2, <2>4, ConcatEmptySeq
    <3> QED BY <1>11, <3>1, <3>2 DEF y
  <2>10. h \o ((c \o t) \o y) = (h \o c) \o (t \o y)
    <3>1. (c \o t) \o y = c \o (t \o y) /\ t \o y \in Seq(Byte)
      BY ONLY <1>12, <1>13, <2>5, Joined, ConcatProperties
    <3>2. h \o (c \o (t \o y)) = (h \o c) \o (t \o y)
      BY ONLY <2>2, <2>5, <3>1, Joined
    <3> QED BY <3>1, <3>2
  <2>11. Handed(ns, <<>>) = h \o c
    <3>1. h \o c \in Seq(Byte)
      BY ONLY <2>2, <2>5, ConcatProperties
    <3> QED BY <2>3, <2>4, <2>8, <3>1, ConcatEmptySeq
  <2>12. r = c \o t
    BY <1>28 DEF c
  <2>13. Handed(ns, <<>>) \o (t \o y) = SentBytes
    BY <2>9, <2>10, <2>11, <2>12
  <2> QED BY <1>12, <2>13 DEF Conserved, y
<1> QED BY ONLY <1>9, <1>10, <1>26, <1>27, <1>29 DEF LineTaken

\* An empty queue holds nothing.
LEMMA InitSound ==
    /\ QueueSound(iqueue_init) /\ iqueue_init.fds = 0 /\ iqueue_init.pending.fds = 0
    /\ ~HasTarget(iqueue_init) /\ iqueue_init.start = 0 /\ iqueue_init.cursor = 0
    /\ Left(iqueue_init) = <<>>
<1> DEFINE g == iqueue_init
<1>1. /\ g.data = <<>> /\ g.start = 0 /\ g.cursor = 0 /\ g.enlarged = FALSE /\ g.charged = 0
      /\ g.fds = 0 /\ g.fdsCharged = FALSE /\ g.header = <<>> /\ g.pending = NoTarget
      /\ g.pendingFdsCharged = FALSE
  BY DEF iqueue_init
<1>2. NoTarget \in Pendings
  BY DEF NoTarget, Pendings
<1>3. g \in IQueues
  BY <1>2 DEF iqueue_init, IQueues
<1> HIDE DEF g
<1>4. /\ NoTarget.what = "none" /\ NoTarget.n = 0 /\ NoTarget.got = <<>> /\ NoTarget.fds = 0
      /\ NoTarget.charged = 0
  BY DEF NoTarget
<1>5. ~HasTarget(g) /\ DataSize(g) \in Nat
  BY <1>1, <1>4, Sizes DEF HasTarget, DataSize
<1>6. QueueSound(g)
  <2>1. Len(g.data) = 0 /\ Len(g.pending.got) = 0
    BY <1>1, <1>4
  <2> QED BY <1>1, <1>3, <1>4, <1>5, <2>1 DEF QueueSound
<1>7. Left(g) = <<>>
  <2>1. Left(g) = Rest(g)
    BY <1>5, <1>6, LeftIs
  <2> QED BY <1>1, <2>1 DEF Rest
<1> QED BY <1>1, <1>4, <1>5, <1>6, <1>7 DEF g

\* At first everything is still to be received.
LEMMA InputInit == IQInit => InputInv
<1> SUFFICES ASSUME IQInit PROVE InputInv
  OBVIOUS
<1>1. /\ iq = iqueue_init /\ sent \in Streams /\ buffers = sent
      /\ lines = <<>> /\ messages = <<>> /\ open = TRUE
  BY DEF IQInit
<1>2. Lines \in Nat /\ Len(lines) = 0 /\ Len(messages) = 0 /\ Lines - Len(lines) = Lines
  BY <1>1, Sizes
<1>3. BuffersSound(buffers) /\ Conforms(BytesOf(buffers), Lines, 1)
  BY <1>1, StreamsAssumption DEF BuffersSound
<1>4. BytesOf(buffers) \in Seq(Byte)
  BY <1>3, BytesType DEF BuffersSound
<1>5. FlattenSeq(<<>>) = <<>>
  BY DEF FlattenSeq
<1>6. Handed(lines, messages) = <<>>
  <2> DEFINE u == [k \in DOMAIN lines |-> lines[k] \o <<CR, LF>>]
             v == BytesSeq(messages)
  <2>1. lines \in Seq(Seq(Byte)) /\ messages \in Seq(SocketBuffer)
    BY <1>1
  <2>2. /\ u \in Seq(Seq(Byte)) /\ Len(u) = Len(lines)
        /\ Handed(lines, messages) = FlattenSeq(u) \o BytesOf(messages)
    BY <2>1, HandedIs
  <2>3. v \in Seq(Seq(Byte)) /\ Len(v) = Len(messages) /\ BytesOf(messages) = FlattenSeq(v)
    BY <2>1, BytesType
  <2> HIDE DEF u, v
  <2>4. u = <<>> /\ v = <<>>
    BY <1>2, <2>2, <2>3
  <2>5. Handed(lines, messages) = <<>> \o <<>>
    BY <1>5, <2>2, <2>3, <2>4
  <2> QED BY <2>5
<1>7. MessagesSound(messages)
  BY <1>1 DEF MessagesSound
<1>8. PhaseSound(iq, Lines)
  <2>1. iq.start = 0 /\ iq.cursor = 0 /\ ~HasTarget(iq)
    BY <1>1, InitSound
  <2> QED BY <2>1 DEF PhaseSound
<1>9. /\ Left(iq) = <<>> /\ iq.fds = 0 /\ iq.pending.fds = 0 /\ ~HasTarget(iq) /\ QueueSound(iq)
  BY <1>1, InitSound
<1>10. Left(iq) \o BytesOf(buffers) = BytesOf(buffers)
  BY <1>4, <1>9, ConcatEmptySeq
<1>11. ContentSound(iq, Lines, 1, buffers)
  BY <1>3, <1>9, <1>10 DEF ContentSound, HasTarget
<1>12. FdsKept(iq, buffers, messages)
  BY <1>1, <1>9 DEF FdsKept, FdSets
<1>13. Conserved(iq, buffers, lines, messages)
  BY <1>1, <1>4, <1>6, <1>10, ConcatEmptySeq DEF Conserved, SentBytes
<1>14. Len(messages) + 1 = 1 /\ lines \in Seq(Seq(Byte)) /\ Len(lines) <= Lines /\ open \in BOOLEAN
  BY <1>1, <1>2
<1> QED BY <1>1, <1>2, <1>3, <1>7, <1>8, <1>9, <1>11, <1>12, <1>13, <1>14 DEF InputInv

\* A closed socket keeps what it handed out.
LEMMA CloseStep ==
    ASSUME InputInv, CloseSocket
    PROVE  InputInv'
<1>1. /\ open' = FALSE /\ iq' = iqueue_flush(iq)
      /\ buffers' = buffers /\ sent' = sent /\ lines' = lines /\ messages' = messages
  BY DEF CloseSocket
<1>2. QueueSound(iq')
  BY <1>1, FlushSound DEF InputInv
<1>3. MessagesSound(messages')
  BY <1>1 DEF InputInv
<1>4. MessagesSound(messages)'
  BY <1>1, <1>3 DEF MessagesSound, FdsOf
<1> QED BY <1>1, <1>2, <1>4 DEF InputInv, QueueSound, BuffersSound, DataSize, HasTarget

\* What a step has to keep when nothing is handed out.
LEMMA Advanced ==
    ASSUME InputInv, open, UNCHANGED <<sent, lines, messages, open>>,
           QueueSound(iq'), BuffersSound(buffers'), PhaseSound(iq', Lines - Len(lines)),
           ContentSound(iq', Lines - Len(lines), Len(messages) + 1, buffers'),
           Left(iq') \o BytesOf(buffers') = Left(iq) \o BytesOf(buffers),
           FdsIn(iq', buffers') = FdsIn(iq, buffers)
    PROVE  InputInv'
<1>1. sent' = sent /\ lines' = lines /\ messages' = messages /\ open' = open
  OBVIOUS
<1>2. FdsKept(iq', buffers', messages)
  BY FdsKeptIs DEF InputInv
<1>3. Conserved(iq', buffers', lines, messages)
  BY DEF InputInv, Conserved
<1>4. MessagesSound(messages)'
  BY <1>1, ZenonT(30) DEF InputInv, MessagesSound, FdsOf
<1>5. FdsKept(iq, buffers, messages)'
  BY <1>1, <1>2 DEF FdsKept, FdSets
<1>6. Conserved(iq, buffers, lines, messages)'
  BY <1>1, <1>3 DEF Conserved, SentBytes
<1> QED BY <1>1, <1>4, <1>5, <1>6 DEF InputInv

\* The parts of the invariant.
LEMMA InputParts ==
    ASSUME InputInv
    PROVE  /\ QueueSound(iq) /\ BuffersSound(buffers) /\ buffers \in Seq(SocketBuffer)
           /\ BytesOf(buffers) \in Seq(Byte)
           /\ lines \in Seq(Seq(Byte)) /\ Len(lines) \in Nat /\ Lines - Len(lines) \in Nat
           /\ messages \in Seq(SocketBuffer) /\ Len(messages) \in Nat
           /\ Len(messages) + 1 \in Nat /\ Len(messages) + 1 >= 1
           /\ MessagesSound(messages)
           /\ open => /\ PhaseSound(iq, Lines - Len(lines))
                      /\ ContentSound(iq, Lines - Len(lines), Len(messages) + 1, buffers)
                      /\ FdsKept(iq, buffers, messages)
                      /\ Conserved(iq, buffers, lines, messages)
<1>1. /\ QueueSound(iq) /\ BuffersSound(buffers) /\ lines \in Seq(Seq(Byte)) /\ Len(lines) <= Lines
      /\ MessagesSound(messages)
  BY DEF InputInv
<1>2. buffers \in Seq(SocketBuffer) /\ messages \in Seq(SocketBuffer)
  BY <1>1 DEF BuffersSound, MessagesSound
<1>3. BytesOf(buffers) \in Seq(Byte)
  BY <1>2, BytesType
<1>4. Len(lines) \in Nat /\ Lines - Len(lines) \in Nat /\ Len(messages) \in Nat
  BY <1>1, <1>2, Sizes
<1>5. open => /\ PhaseSound(iq, Lines - Len(lines))
              /\ ContentSound(iq, Lines - Len(lines), Len(messages) + 1, buffers)
              /\ FdsKept(iq, buffers, messages)
              /\ Conserved(iq, buffers, lines, messages)
  BY DEF InputInv
<1> QED BY <1>1, <1>2, <1>3, <1>4, <1>5

\* socket_dispatch_read().
LEMMA ReadStep ==
    ASSUME InputInv, DispatchRead
    PROVE  InputInv'
<1> DEFINE q == GetCursor(iq)
           l == Lines - Len(lines)
           m == Len(messages) + 1
<1>1. open
  BY DEF DispatchRead
<1>2. /\ QueueSound(iq) /\ BuffersSound(buffers) /\ buffers \in Seq(SocketBuffer)
      /\ l \in Nat /\ m \in Nat /\ m >= 1
      /\ PhaseSound(iq, l) /\ ContentSound(iq, l, m, buffers)
  BY <1>1, InputParts
<1>3. \/ ~Parsed(iq) /\ iq' = q /\ UNCHANGED <<buffers, sent, lines, messages, open>>
      \/ /\ Parsed(iq) /\ ~LineTooLong(iq)
         /\ \E k \in DOMAIN buffers : \E n \in DOMAIN buffers[k].bytes :
              /\ Returned(q, k, n)
              /\ iq' = Received(q, BytesOf(Chunk(k, n)), buffers[k].fds)
              /\ buffers' = Unread(k, n)
              /\ UNCHANGED <<sent, lines, messages, open>>
      \/ CloseSocket
  BY DEF DispatchRead
<1> HIDE DEF q, l, m
<1>4. q = GetCursor(iq)
  BY DEF q
<1>5. /\ QueueSound(q) /\ PhaseSound(q, l) /\ Left(q) = Left(iq) /\ q.start = 0
      /\ Parsed(iq) /\ ~LineTooLong(iq) =>
            /\ q.fds = 0 /\ Len(q.data) < DataSize(q) /\ q.cursor = Len(q.data)
            /\ HasTarget(q) => q.data = <<>> /\ ~q.enlarged
  BY ONLY <1>2, <1>4, CursorSound
<1>6. ContentSound(q, l, m, buffers) /\ FdsIn(q, buffers) = FdsIn(iq, buffers)
  BY ONLY <1>2, <1>4, CursorContent
<1>7. CASE ~Parsed(iq) /\ iq' = q /\ UNCHANGED <<buffers, sent, lines, messages, open>>
  <2>1. /\ QueueSound(iq') /\ BuffersSound(buffers') /\ PhaseSound(iq', l)
        /\ ContentSound(iq', l, m, buffers')
        /\ Left(iq') \o BytesOf(buffers') = Left(iq) \o BytesOf(buffers)
        /\ FdsIn(iq', buffers') = FdsIn(iq, buffers)
    BY <1>2, <1>5, <1>6, <1>7
  <2> QED BY <1>1, <1>7, <2>1, Advanced DEF l, m
<1>8. ASSUME Parsed(iq), ~LineTooLong(iq),
             NEW k \in DOMAIN buffers, NEW n \in DOMAIN buffers[k].bytes, Returned(q, k, n),
             iq' = Received(q, BytesOf(Chunk(k, n)), buffers[k].fds),
             buffers' = Unread(k, n), UNCHANGED <<sent, lines, messages, open>>
      PROVE  InputInv'
  <2>1. k \in 1 .. Len(buffers)
    BY <1>2
  <2>2. n \in 1 .. Len(buffers[k].bytes)
    <3> DEFINE z == buffers[k].bytes
    <3>1. z \in Seq(Byte) /\ n \in DOMAIN z
      BY <1>2, <2>1, BufferParts
    <3> HIDE DEF z
    <3>2. n \in 1 .. Len(z)
      BY <3>1
    <3> QED BY <3>2 DEF z
  <2>3. /\ q.fds = 0 /\ Len(q.data) < DataSize(q) /\ q.cursor = Len(q.data)
        /\ HasTarget(q) => q.data = <<>>
        /\ Returned(q, k, n)
        /\ iq' = Received(q, BytesOf(Chunk(k, n)), buffers[k].fds)
        /\ buffers' = Unread(k, n)
    BY <1>5, <1>8
  <2>4. /\ BuffersSound(buffers') /\ QueueSound(iq') /\ PhaseSound(iq', l)
        /\ ContentSound(iq', l, m, buffers')
        /\ Left(iq') \o BytesOf(buffers') = Left(q) \o BytesOf(buffers)
        /\ FdsIn(iq', buffers') = FdsIn(q, buffers)
    <3> DEFINE g == iq'
               w == buffers'
    <3>1. /\ g = Received(q, BytesOf(Chunk(k, n)), buffers[k].fds) /\ w = Unread(k, n)
          /\ q.start = 0 /\ q.fds = 0 /\ Len(q.data) < DataSize(q) /\ q.cursor = Len(q.data)
          /\ HasTarget(q) => q.data = <<>>
          /\ Returned(q, k, n) /\ QueueSound(q) /\ PhaseSound(q, l)
          /\ ContentSound(q, l, m, buffers)
          /\ l \in Nat /\ m \in Nat /\ m >= 1 /\ BuffersSound(buffers)
      BY <1>2, <1>5, <1>6, <2>3
    <3> HIDE DEF g, w
    <3>2. ReadOn(q, g, w, l, m)
      BY ONLY <2>1, <2>2, <3>1, ReadSound
    <3> QED BY <3>2 DEF ReadOn, g, w
  <2> QED BY <1>1, <1>5, <1>6, <1>8, <2>4, Advanced DEF l, m
<1>9. CASE CloseSocket
  BY <1>9, CloseStep
<1> QED BY <1>3, <1>7, <1>8, <1>9

\* socket_dequeue_line().
LEMMA LineStep ==
    ASSUME InputInv, DequeueLine
    PROVE  InputInv'
<1> DEFINE end == LineEnd(iq)
           at == IF end = 0 THEN Len(iq.data) ELSE end
           l == Lines - Len(lines)
           m == Len(messages) + 1
           line == SubSeq(iq.data, iq.start + 1, end - 2)
<1>1. /\ open /\ Len(lines) < Lines
      /\ at = Len(iq.data) /\ iq.fds # 0 => CloseSocket
      /\ ~(at = Len(iq.data) /\ iq.fds # 0) =>
            /\ iq' = IF end = 0 THEN [iq EXCEPT !.cursor = at]
                     ELSE [iq EXCEPT !.cursor = at, !.start = at]
            /\ lines' = IF end = 0 THEN lines
                        ELSE Append(lines, SubSeq(iq.data, iq.start + 1, at - 2))
            /\ UNCHANGED <<buffers, sent, messages, open>>
  BY DEF DequeueLine
<1>2. /\ QueueSound(iq) /\ BuffersSound(buffers) /\ buffers \in Seq(SocketBuffer)
      /\ l \in Nat /\ m \in Nat /\ m >= 1
      /\ lines \in Seq(Seq(Byte)) /\ Len(lines) \in Nat
      /\ PhaseSound(iq, l) /\ ContentSound(iq, l, m, buffers)
      /\ FdsKept(iq, buffers, messages) /\ Conserved(iq, buffers, lines, messages)
  BY <1>1, InputParts
<1>3. l > 0 /\ messages = <<>>
  BY <1>1, <1>2, Sizes DEF InputInv
<1> HIDE DEF l, m
<1>4. CASE at = Len(iq.data) /\ iq.fds # 0
  BY <1>1, <1>4, CloseStep
<1>5. CASE ~(at = Len(iq.data) /\ iq.fds # 0) /\ end = 0
  <2>1. LineEnd(iq) = 0 /\ iq.fds = 0
    BY <1>5
  <2>2. /\ iq' = [iq EXCEPT !.cursor = Len(iq.data)]
        /\ lines' = lines /\ UNCHANGED <<buffers, sent, messages, open>>
    BY <1>1, <1>5
  <2>3. /\ QueueSound(iq') /\ PhaseSound(iq', l) /\ ContentSound(iq', l, m, buffers)
        /\ Left(iq') = Left(iq) /\ FdsIn(iq', buffers) = FdsIn(iq, buffers)
    BY ONLY <1>2, <1>3, <2>1, <2>2, LineScanned
  <2> QED BY <1>1, <1>2, <2>2, <2>3, Advanced DEF l, m
<1>6. CASE ~(at = Len(iq.data) /\ iq.fds # 0) /\ end # 0
  <2>1. /\ iq' = Offset(iq, end, end)
        /\ lines' = Append(lines, line)
        /\ UNCHANGED <<buffers, sent, messages, open>>
        /\ end # 0 /\ (iq.fds # 0 => end # Len(iq.data))
    BY <1>1, <1>6 DEF Offset
  <2>2. Conserved(iq, buffers, lines, <<>>)
    BY <1>2, <1>3
  <2>3. end = LineEnd(iq)
    OBVIOUS
  <2> HIDE DEF end, at
  <2>4. /\ QueueSound(iq') /\ PhaseSound(iq', l - 1) /\ ContentSound(iq', l - 1, m, buffers)
        /\ FdsIn(iq', buffers) = FdsIn(iq, buffers)
        /\ lines' \in Seq(Seq(Byte)) /\ Len(lines') = Len(lines) + 1
        /\ Conserved(iq', buffers, lines', <<>>)
    <3> DEFINE g == iq'
               ns == lines'
    <3>1. g = Offset(iq, end, end) /\ ns = Append(lines, SubSeq(iq.data, iq.start + 1, end - 2))
      BY <2>1
    <3>2. end # 0 /\ (iq.fds # 0 => end # Len(iq.data))
      BY <2>1
    <3> HIDE DEF g, ns
    <3>3. LineTaken(iq, g, buffers, l, m, lines, ns)
      BY ONLY <1>2, <1>3, <2>2, <2>3, <3>1, <3>2, LineDone
    <3> QED BY <3>3 DEF LineTaken, g, ns
  <2>5. FdsKept(iq', buffers, messages)
    BY <1>2, <2>4, FdsKeptIs
  <2>6. /\ sent' = sent /\ messages' = messages /\ open' = open /\ buffers' = buffers
    BY <2>1
  <2>7. Lines - Len(lines') = l - 1 /\ Len(lines') <= Lines
    BY <1>1, <1>2, <2>4, Sizes DEF l
  <2>8. MessagesSound(messages)'
    BY <2>6 DEF InputInv, MessagesSound, FdsOf
  <2>9. FdsKept(iq, buffers, messages)'
    BY <2>5, <2>6 DEF FdsKept, FdSets
  <2>10. Conserved(iq, buffers, lines, messages)'
    BY <1>3, <2>4, <2>6 DEF Conserved, SentBytes
  <2>11. ContentSound(iq', Lines - Len(lines'), Len(messages') + 1, buffers')
    BY <2>4, <2>6, <2>7 DEF m
  <2>12. PhaseSound(iq', Lines - Len(lines'))
    BY <2>4, <2>7
  <2> QED BY <1>1, <1>3, <2>4, <2>6, <2>7, <2>8, <2>9, <2>10, <2>11, <2>12 DEF InputInv
<1> QED BY <1>4, <1>5, <1>6

\* A queue on the way through socket_dequeue(): it holds what it held.
Holds(q, m) ==
    /\ QueueSound(q) /\ PhaseSound(q, 0) /\ ContentSound(q, 0, m, buffers)
    /\ Left(q) = Left(iq) /\ FdsIn(q, buffers) = FdsIn(iq, buffers)

\* iqueue_pop_data() keeps it so.
LEMMA CopyHolds ==
    ASSUME NEW q, NEW m \in Nat, m >= 1, Holds(q, m), HasTarget(q), ~Violates(q),
           BytesOf(buffers) \in Seq(Byte)
    PROVE  Holds(Copy(q), m) /\ Copy(q).pending.what = q.pending.what
<1> DEFINE g == Copy(q)
           w == buffers
<1>1. /\ QueueSound(q) /\ PhaseSound(q, 0) /\ ContentSound(q, 0, m, w)
      /\ Left(q) = Left(iq) /\ FdsIn(q, w) = FdsIn(iq, w) /\ BytesOf(w) \in Seq(Byte)
  BY DEF Holds
<1>2. g = Copy(q)
  OBVIOUS
<1> HIDE DEF g, w
<1>3. /\ QueueSound(g) /\ PhaseSound(g, 0) /\ ContentSound(g, 0, m, w)
      /\ Left(g) = Left(q) /\ FdsIn(g, w) = FdsIn(q, w)
      /\ g.pending.what = q.pending.what
  BY <1>1, <1>2, CopySound
<1> QED BY <1>1, <1>3 DEF Holds, g, w

\* A header that is complete gives way to its message.
LEMMA TargetHolds ==
    ASSUME NEW q, NEW m \in Nat, m >= 1, Holds(q, m), q.pending.what = "header", Complete(q),
           BytesOf(buffers) \in Seq(Byte),
           NEW g, g = iqueue_set_target(Popped([q EXCEPT !.header = q.pending.got], FALSE),
                                        "message", BodySize[q.pending.got[1][1]])
    PROVE  Holds(g, m) /\ g.pending.what = "message"
<1> DEFINE w == buffers
<1>1. /\ QueueSound(q) /\ PhaseSound(q, 0) /\ ContentSound(q, 0, m, w)
      /\ Left(q) = Left(iq) /\ FdsIn(q, w) = FdsIn(iq, w) /\ BytesOf(w) \in Seq(Byte)
  BY DEF Holds
<1> HIDE DEF w
<1>2. /\ QueueSound(g) /\ PhaseSound(g, 0) /\ ContentSound(g, 0, m, w)
      /\ Left(g) = Left(q) /\ FdsIn(g, w) = FdsIn(q, w)
      /\ g.pending.what = "message"
  BY <1>1, MessageTarget
<1> QED BY <1>1, <1>2 DEF Holds, w

\* socket_dequeue().
LEMMA MessageStep ==
    ASSUME InputInv, Dequeue
    PROVE  InputInv'
<1> DEFINE q0 == IF HasTarget(iq) THEN iq ELSE iqueue_set_target(iq, "header", HeaderSize)
           q1 == Copy(q0)
           q2 == IF q0.pending.what = "header" /\ Complete(q1)
                 THEN iqueue_set_target(
                        Popped([q1 EXCEPT !.header = q1.pending.got], FALSE),
                        "message", BodySize[q1.pending.got[1][1]])
                 ELSE q1
           again == q2.pending.what = "message" /\ q0.pending.what = "header"
           q3 == IF again THEN Copy(q2) ELSE q2
           done == q3.pending.what = "message" /\ Complete(q3)
           m == Len(messages) + 1
           new == [bytes |-> q3.header \o q3.pending.got, fds |-> q3.pending.fds]
<1>1. /\ open /\ Len(lines) = Lines
      /\ \/ CloseSocket
         \/ /\ ~Violates(q0) /\ (again => ~Violates(q2))
            /\ IF done
               THEN /\ iq' = [Popped(q3, TRUE) EXCEPT !.header = <<>>]
                    /\ messages' = Append(messages, new)
               ELSE iq' = q3 /\ UNCHANGED messages
            /\ UNCHANGED <<buffers, sent, lines, open>>
  BY DEF Dequeue
<1>2. /\ QueueSound(iq) /\ BuffersSound(buffers) /\ BytesOf(buffers) \in Seq(Byte)
      /\ m \in Nat /\ m >= 1 /\ Lines - Len(lines) = 0
      /\ lines \in Seq(Seq(Byte)) /\ MessagesSound(messages)
      /\ PhaseSound(iq, 0) /\ ContentSound(iq, 0, m, buffers)
      /\ FdsKept(iq, buffers, messages) /\ Conserved(iq, buffers, lines, messages)
  <2>1. Len(lines) = Lines
    BY <1>1
  <2>2. Lines - Len(lines) = 0
    BY ONLY <2>1, Sizes
  <2> QED BY <1>1, <2>2, InputParts
<1>3. CASE CloseSocket
  BY <1>3, CloseStep
<1>4. CASE /\ ~Violates(q0) /\ (again => ~Violates(q2))
           /\ IF done
              THEN /\ iq' = [Popped(q3, TRUE) EXCEPT !.header = <<>>]
                   /\ messages' = Append(messages, new)
              ELSE iq' = q3 /\ UNCHANGED messages
           /\ UNCHANGED <<buffers, sent, lines, open>>
  <2> HIDE DEF m
  <2>1. Holds(q0, m) /\ HasTarget(q0)
    <3>1. CASE HasTarget(iq)
      BY <1>2, <3>1 DEF Holds
    <3>2. CASE ~HasTarget(iq)
      <4> DEFINE g == iqueue_set_target(iq, "header", HeaderSize)
      <4>1. q0 = g
        BY <3>2
      <4>2. /\ QueueSound(g) /\ PhaseSound(g, 0) /\ ContentSound(g, 0, m, buffers)
            /\ Left(g) = Left(iq) /\ FdsIn(g, buffers) = FdsIn(iq, buffers)
            /\ g.pending.what = "header"
        BY ONLY <1>2, <3>2, HeaderTarget
      <4> HIDE DEF g, q0
      <4> QED BY <4>1, <4>2 DEF Holds, HasTarget
    <3> QED BY <3>1, <3>2
  <2>2. ~Violates(q0)
    BY <1>4
  <2> HIDE DEF q0
  <2>3. Holds(q1, m) /\ q1.pending.what = q0.pending.what
    BY ONLY <1>2, <2>1, <2>2, CopyHolds
  <2> HIDE DEF q1
  <2>4. /\ Holds(q2, m)
        /\ again <=> (q0.pending.what = "header" /\ Complete(q1))
    <3>1. CASE q0.pending.what = "header" /\ Complete(q1)
      <4>1. q2 = iqueue_set_target(
                   Popped([q1 EXCEPT !.header = q1.pending.got], FALSE),
                   "message", BodySize[q1.pending.got[1][1]])
        BY <3>1
      <4> HIDE DEF q2
      <4>2. Holds(q2, m) /\ q2.pending.what = "message"
        BY ONLY <1>2, <2>3, <3>1, <4>1, TargetHolds
      <4> QED BY <3>1, <4>2
    <3>2. CASE ~(q0.pending.what = "header" /\ Complete(q1))
      <4>1. q2 = q1
        BY <3>2
      <4> HIDE DEF q2
      <4> QED BY <2>3, <3>2, <4>1
    <3> QED BY <3>1, <3>2
  <2>5. again => ~Violates(q2) /\ HasTarget(q2)
    BY <1>4 DEF HasTarget
  <2> HIDE DEF q2
  <2>6. Holds(q3, m)
    <3>1. CASE again
      <4>1. q3 = Copy(q2)
        BY <3>1
      <4>2. Holds(Copy(q2), m)
        BY ONLY <1>2, <2>4, <2>5, <3>1, CopyHolds
      <4> QED BY <4>1, <4>2
    <3>2. CASE ~again
      BY <2>4, <3>2
    <3> QED BY <3>1, <3>2
  <2> HIDE DEF q3
  <2>7. /\ QueueSound(q3) /\ PhaseSound(q3, 0) /\ ContentSound(q3, 0, m, buffers)
        /\ Left(q3) = Left(iq) /\ FdsIn(q3, buffers) = FdsIn(iq, buffers)
    BY <2>6 DEF Holds
  <2>8. CASE ~done
    <3>1. iq' = q3 /\ UNCHANGED <<sent, lines, messages, open>> /\ buffers' = buffers
      BY <1>4, <2>8
    <3> HIDE DEF done
    <3>2. /\ QueueSound(iq') /\ BuffersSound(buffers') /\ PhaseSound(iq', Lines - Len(lines))
          /\ ContentSound(iq', Lines - Len(lines), Len(messages) + 1, buffers')
          /\ Left(iq') \o BytesOf(buffers') = Left(iq) \o BytesOf(buffers)
          /\ FdsIn(iq', buffers') = FdsIn(iq, buffers)
      BY <1>2, <2>7, <3>1 DEF m
    <3> QED BY <1>1, <3>1, <3>2, Advanced
  <2>9. CASE done
    <3> DEFINE g == iq'
               ns == messages'
    <3>1. /\ g = Emptied(q3) /\ ns = Append(messages, MessageOf(q3))
          /\ UNCHANGED <<buffers, sent, lines, open>>
          /\ q3.pending.what = "message" /\ Complete(q3)
      BY <1>4, <2>9 DEF Emptied, MessageOf
    <3>2. FdsKept(q3, buffers, messages)
      BY <1>2, <2>7, FdsKeptIs
    <3>3. Conserved(q3, buffers, lines, messages)
      BY <1>2, <2>7 DEF Conserved
    <3>4. m = Len(messages) + 1
      BY DEF m
    <3> HIDE DEF g, ns
    <3>5. MessageTaken(g, lines, ns)
      BY ONLY <1>2, <2>7, <3>1, <3>2, <3>3, <3>4, HandedOver
    <3>6. sent' = sent /\ lines' = lines /\ open' = open /\ buffers' = buffers
      BY <3>1
    <3>7. MessagesSound(messages)'
      BY <3>5, <3>6 DEF MessageTaken, MessagesSound, FdsOf, ns
    <3>8. FdsKept(iq, buffers, messages)'
      <4>1. FdsKept(iq', buffers', messages')
        BY <3>5, <3>6 DEF MessageTaken, g, ns
      <4> QED BY ONLY <3>6, <4>1 DEF FdsKept, FdSets
    <3>9. Conserved(iq, buffers, lines, messages)'
      <4>1. Conserved(iq', buffers', lines', messages')
        BY <3>5, <3>6 DEF MessageTaken, g, ns
      <4> QED BY ONLY <3>6, <4>1 DEF Conserved, SentBytes
    <3>10. /\ QueueSound(iq') /\ PhaseSound(iq', Lines - Len(lines'))
           /\ ContentSound(iq', Lines - Len(lines'), Len(messages') + 1, buffers')
      BY <1>2, <3>5, <3>6 DEF MessageTaken, g, ns
    <3>11. lines' \in Seq(Seq(Byte)) /\ Len(lines') <= Lines /\ ~(Len(lines') < Lines)
      BY <1>1, <1>2, <3>6, Sizes
    <3>12. sent' \in Streams /\ open' \in BOOLEAN /\ BuffersSound(buffers')
      BY <1>2, <3>6 DEF InputInv
    <3> QED BY ONLY <3>7, <3>8, <3>9, <3>10, <3>11, <3>12 DEF InputInv
  <2> QED BY <2>8, <2>9
<1> QED BY <1>1, <1>3, <1>4

\* Every step keeps the invariant.
LEMMA InputStep == InputInv /\ [IQNext]_iqVars => InputInv'
<1> SUFFICES ASSUME InputInv, [IQNext]_iqVars PROVE InputInv'
  OBVIOUS
<1>1. CASE DispatchRead
  BY <1>1, ReadStep
<1>2. CASE DequeueLine
  BY <1>2, LineStep
<1>3. CASE Dequeue
  BY <1>3, MessageStep
<1>4. CASE TargetRefused
  BY <1>4, CloseStep DEF TargetRefused
<1>5. CASE UNCHANGED iqVars
  <2>1. /\ iq' = iq /\ buffers' = buffers /\ sent' = sent /\ lines' = lines
        /\ messages' = messages /\ open' = open
    BY <1>5 DEF iqVars
  <2>2. MessagesSound(messages)'
    BY <2>1 DEF InputInv, MessagesSound, FdsOf
  <2>3. FdsKept(iq, buffers, messages) => FdsKept(iq, buffers, messages)'
    <3>1. FdsKept(iq, buffers, messages) => FdsKept(iq', buffers', messages')
      BY ONLY <2>1
    <3> QED BY ONLY <2>1, <3>1 DEF FdsKept, FdSets
  <2>4. Conserved(iq, buffers, lines, messages) => Conserved(iq, buffers, lines, messages)'
    BY ONLY <2>1 DEF Conserved, SentBytes
  <2>5. QueueSound(iq)' /\ BuffersSound(buffers)'
    BY <2>1 DEF InputInv
  <2> QED BY <2>1, <2>2, <2>3, <2>4, <2>5 DEF InputInv
<1> QED BY <1>1, <1>2, <1>3, <1>4, <1>5 DEF IQNext

\* The queue keeps its bytes, its descriptors and its charges.
THEOREM InputSound == IQSpec => []InputInv
  BY InputInit, InputStep, PTL DEF IQSpec

\* iqueue_pop_line() and iqueue_pop_data(): however recvmsg() cuts the stream, the
\* lines and messages handed out are those sent, with their own descriptors, and
\* nothing is lost or held back.
THEOREM InputIsIntact == IQSpec => []InputIntact
<1>1. InputInv => InputIntact
  <2> SUFFICES ASSUME InputInv PROVE InputIntact
    OBVIOUS
  <2>1. \A k \in DOMAIN messages :
          /\ messages[k].bytes = [i \in 1..(HeaderSize + BodySize[k]) |-> <<k, i>>]
          /\ messages[k].fds = FdsOf(k)
    BY DEF InputInv, MessagesSound
  <2>2. ASSUME open
        PROVE  FlattenSeq([k \in DOMAIN lines |-> lines[k] \o <<CR, LF>>])
               \o FlattenSeq([k \in DOMAIN messages |-> messages[k].bytes])
               \o iq.header \o iq.pending.got
               \o Rest(iq) \o BytesOf(buffers) = SentBytes
    <3> DEFINE a == FlattenSeq([k \in DOMAIN lines |-> lines[k] \o <<CR, LF>>])
               b == FlattenSeq([k \in DOMAIN messages |-> messages[k].bytes])
               c == iq.header
               d == iq.pending.got
               r == Rest(iq)
               y == BytesOf(buffers)
               h == a \o b
    <3>1. /\ h \in Seq(Byte) /\ Handed(lines, messages) = h
      BY InputParts, HandedIs DEF Handed, BytesOf
    <3>2. c \in Seq(Byte) /\ d \in Seq(Byte) /\ r \in Seq(Byte) /\ y \in Seq(Byte)
      BY InputParts, QueueFacts, RestIs
    <3>3. h \o (((c \o d) \o r) \o y) = SentBytes
      BY <2>2, <3>1, InputParts DEF Conserved, Left
    <3> HIDE DEF h, c, d, r, y
    <3>4. c \o d \in Seq(Byte) /\ (c \o d) \o r \in Seq(Byte)
      BY <3>2, ConcatProperties
    <3>5. h \o (((c \o d) \o r) \o y) = (h \o ((c \o d) \o r)) \o y
      BY <3>1, <3>2, <3>4, Joined, SMTT(20)
    <3>6. h \o ((c \o d) \o r) = (h \o (c \o d)) \o r
      BY <3>1, <3>2, <3>4, Joined, SMTT(20)
    <3>7. h \o (c \o d) = (h \o c) \o d
      BY <3>1, <3>2, Joined
    <3>8. (((h \o c) \o d) \o r) \o y = SentBytes
      BY <3>3, <3>5, <3>6, <3>7
    <3> QED BY <3>8 DEF h, c, d, r, y
  <2> QED BY <2>1, <2>2 DEF InputIntact
<1> QED BY <1>1, InputSound, PTL

\* iqueue_get_cursor() and iqueue_set_target(): the queue pins what is charged and
\* nothing else, and a read always has room.
THEOREM PinnedIsPaid == IQSpec => []PinnedIsCharged
<1>1. InputInv => PinnedIsCharged
  <2> SUFFICES ASSUME InputInv PROVE PinnedIsCharged
    OBVIOUS
  <2>1. QueueSound(iq)
    BY DEF InputInv
  <2>2. /\ iq.charged = IF iq.enlarged THEN LineMax ELSE 0
        /\ iq.pending.charged = iq.pending.n
        /\ iq.fdsCharged <=> iq.fds # 0
        /\ iq.pendingFdsCharged <=> iq.pending.fds # 0
    BY <2>1 DEF QueueSound
  <2>3. ASSUME open, Parsed(iq), ~LineTooLong(iq)
        PROVE  LET q == GetCursor(iq)
               IN  /\ Space(q) > 0
                   /\ Len(q.data) <= DataSize(q)
                   /\ ~(q.enlarged /\ HasTarget(q))
    <3> DEFINE q == GetCursor(iq)
               l == Lines - Len(lines)
    <3>1. l \in Nat /\ PhaseSound(iq, l)
      BY <2>3, InputParts
    <3>2. q = GetCursor(iq)
      OBVIOUS
    <3> HIDE DEF q, l
    <3>3. /\ QueueSound(q) /\ Space(q) > 0 /\ (HasTarget(q) => ~q.enlarged)
      BY <2>1, <2>3, <3>1, <3>2, CursorSound
    <3>4. Len(q.data) <= DataSize(q)
      BY <3>3, QueueFacts
    <3> QED BY <3>3, <3>4 DEF q
  <2> QED BY <2>2, <2>3 DEF PinnedIsCharged
<1> QED BY <1>1, InputSound, PTL
=============================================================================
