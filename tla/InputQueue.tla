------------------------------ MODULE InputQueue ------------------------------
(***************************************************************************)
(* The input queue of a socket: what recvmsg() returns, in chunks that     *)
(* respect no boundary, becomes the lines of the authentication and then   *)
(* the messages, each with the file descriptors that were sent with it.    *)
(*                                                                         *)
(* A byte is a pair: <<0, x>> is the character x of a line, <<m, i>> is    *)
(* the i-th byte of message m.  What a peer sends is a sequence of socket  *)
(* buffers with bytes and possibly descriptors (0: none, m: those of m).   *)
(***************************************************************************)
EXTENDS Naturals, SequencesExt

CONSTANTS
  RecvMax,      \* IQUEUE_RECV_MAX, the size of the embedded buffer
  LineMax,      \* IQUEUE_LINE_MAX, the size it is enlarged to for lines
  HeaderSize,   \* sizeof(MessageHeader)
  BodySize,     \* the messages' sizes without the header
  Lines,        \* the number of lines before the first message
  Streams       \* what a peer may send

ASSUME InputQueueAssumption ==
  /\ RecvMax \in Nat \ {0} /\ LineMax \in Nat /\ LineMax > RecvMax
  /\ HeaderSize \in Nat \ {0} /\ HeaderSize < RecvMax
  /\ Lines \in Nat /\ BodySize \in Seq(Nat)

Byte == Nat \X Nat
SocketBuffer == [bytes : Seq(Byte) \ {<<>>}, fds : Nat]

CR == <<0, 13>>
LF == <<0, 10>>

\* The bytes of some socket buffers, and where the lines among them end.
BytesOf(w) == FlattenSeq([k \in DOMAIN w |-> w[k].bytes])
LineEnds(b) == {k \in 2..Len(b) : b[k - 1] = CR /\ b[k] = LF}

\* What follows byte x of a message.
Following(x) ==
  IF x[2] < HeaderSize + BodySize[x[1]] THEN <<x[1], x[2] + 1>> ELSE <<x[1] + 1, 1>>

\* b is l lines and then the messages from m on, cut anywhere.
Conforms(b, l, m) ==
  \A k \in 1..Len(b) :
    IF Cardinality({e \in LineEnds(b) : e < k}) < l THEN b[k][1] = 0
    ELSE /\ b[k] = IF k = 1 \/ b[k - 1][1] = 0 THEN <<m, 1>> ELSE Following(b[k - 1])
         /\ b[k][1] \in DOMAIN BodySize

\* Peers send lines, then messages.  Descriptors are sent with bytes of the
\* message they are for, or with lines.
ASSUME StreamsAssumption ==
  \A s \in Streams :
    /\ s \in Seq(SocketBuffer)
    /\ Conforms(BytesOf(s), Lines, 1)
    /\ \A k \in DOMAIN s : s[k].fds # 0 =>
         \E m \in {0, s[k].fds} : \A i \in DOMAIN s[k].bytes : s[k].bytes[i][1] = m

VARIABLES
  iq,       \* the queue
  buffers,  \* the socket buffers that were not received yet
  sent,     \* history: all of them
  lines,    \* the lines handed to the connection
  messages, \* the messages handed to the connection
  open      \* FALSE after socket_close()

iqVars == <<iq, buffers, sent, lines, messages, open>>

\* What is pending: nothing, the header, or the rest of message m.
NoTarget == [what |-> "none", n |-> 0, got |-> <<>>, fds |-> 0, charged |-> 0]
HasTarget(q) == q.pending.what # "none"

\* data is the input buffer up to data_end.
iqueue_init ==
  [data |-> <<>>, start |-> 0, cursor |-> 0, enlarged |-> FALSE,
   charged |-> 0, fds |-> 0, fdsCharged |-> FALSE, header |-> <<>>,
   pending |-> NoTarget, pendingFdsCharged |-> FALSE]

DataSize(q) == IF q.enlarged THEN LineMax ELSE RecvMax

\* iqueue_flush(): the input is dropped; an enlarged buffer stays, charged,
\* until iqueue_deinit().
iqueue_flush(q) ==
  [iqueue_init EXCEPT !.enlarged = q.enlarged, !.charged = q.charged]

\* iqueue_set_target() within the quota; descriptors that came with the
\* header stay for the message.
iqueue_set_target(q, what, n) ==
  [q EXCEPT !.pending = [what |-> what, n |-> n, got |-> <<>>,
                         fds |-> q.pending.fds, charged |-> n]]

\* What the buffer holds that was not handed out.
Rest(q) == SubSeq(q.data, q.start + 1, Len(q.data))

Shift(q) ==
  [q EXCEPT !.data = Rest(q), !.cursor = @ - q.start, !.start = 0]

Enlarge(q) == [q EXCEPT !.enlarged = TRUE, !.charged = LineMax]
\* Faulty variant: the buffer goes, its charge stays.
ShrinkKeepsCharge(q) == [q EXCEPT !.enlarged = FALSE]
Shrink(q) == [q EXCEPT !.enlarged = FALSE, !.charged = 0]

\* Whether a pending message is read directly, and up to how many bytes are.
Direct(q) == q.pending.n - Len(q.pending.got) >= DataSize(q) - Len(q.data)
Space(q) ==
  IF Direct(q) THEN q.pending.n - Len(q.pending.got)
  ELSE Min({DataSize(q) - Len(q.data), RecvMax})

-----------------------------------------------------------------------------
\* socket_close(), as far as the input goes.
CloseSocket ==
  /\ open' = FALSE
  /\ iq' = iqueue_flush(iq)
  /\ UNCHANGED <<buffers, sent, lines, messages>>

\* recvmsg() returns all up to byte n of the k-th socket buffer, and its
\* descriptors; it does not go on beyond a buffer that has some.
Chunk(k, n) ==
  Append(SubSeq(buffers, 1, k - 1), [buffers[k] EXCEPT !.bytes = SubSeq(@, 1, n)])

Unread(k, n) ==
  LET b     == buffers[k].bytes
      later == SubSeq(buffers, k + 1, Len(buffers))
  IN  IF n = Len(b) THEN later
      ELSE <<[bytes |-> SubSeq(b, n + 1, Len(b)), fds |-> 0]>> \o later

Returned(q, k, n) ==
  /\ \A j \in 1..(k - 1) : buffers[j].fds = 0
  /\ Len(BytesOf(Chunk(k, n))) <= Space(q)

\* socket_recvmsg(): the descriptors go where the bytes go; a second set for
\* what is being read directly is dropped.
Received(q, bytes, fds) ==
  IF Direct(q)
  THEN [q EXCEPT !.pending.got = @ \o bytes,
                 !.pending.fds = IF @ = 0 THEN fds ELSE @,
                 !.pendingFdsCharged = @ \/ fds # 0]
  ELSE [q EXCEPT !.data = @ \o bytes,
                 !.fds = IF @ = 0 THEN fds ELSE @,
                 !.fdsCharged = @ \/ fds # 0]

\* iqueue_get_cursor(): the buffer is shifted; once all of it is parsed, a
\* full one is enlarged, and an enlarged one given back for messages.
GetCursor(q) ==
  LET q0 == Shift(q)
  IN  IF q0.cursor < Len(q0.data) THEN q0
      ELSE IF Len(q0.data) >= DataSize(q0) THEN Enlarge(q0)
      ELSE IF q0.enlarged /\ HasTarget(q0) THEN Shrink(q0)
      ELSE q0
Parsed(q) == q.cursor >= Len(q.data)
LineTooLong(q) == q.enlarged /\ Len(q.data) - q.start >= LineMax

\* socket_dispatch_read(): iqueue_get_cursor(), then socket_recvmsg() of as
\* much as there happens to be.  The quota may refuse the enlarged buffer or
\* the descriptors, and the kernel may have dropped descriptors: the socket
\* is closed.
DispatchRead ==
  LET q == GetCursor(iq)
  IN  /\ open /\ buffers # <<>>
      /\ \/ /\ ~Parsed(iq)
            /\ iq' = q /\ UNCHANGED <<buffers, sent, lines, messages, open>>
         \/ /\ Parsed(iq) /\ ~LineTooLong(iq)
            /\ \E k \in DOMAIN buffers : \E n \in DOMAIN buffers[k].bytes :
                 /\ Returned(q, k, n)
                 /\ \/ /\ iq' = Received(q, BytesOf(Chunk(k, n)), buffers[k].fds)
                       /\ buffers' = Unread(k, n)
                       /\ UNCHANGED <<sent, lines, messages, open>>
                    \/ buffers[k].fds # 0 /\ CloseSocket
         \/ /\ Parsed(iq)
            /\ LineTooLong(iq) \/ (q.enlarged /\ ~iq.enlarged)
            /\ CloseSocket

-----------------------------------------------------------------------------
\* iqueue_pop_line(): the place of the next end of line, 0 when there is none;
\* nothing is looked at twice.
LineEnd(q) ==
  LET ends == {k \in (q.cursor + 1)..Len(q.data) :
                 k > 1 /\ q.data[k] = LF /\ q.data[k - 1] = CR}
  IN  IF ends = {} THEN 0 ELSE Min(ends)

\* socket_dequeue_line(): descriptors with the last byte are a violation.
DequeueLine ==
  LET end == LineEnd(iq)
      at  == IF end = 0 THEN Len(iq.data) ELSE end
  IN  /\ open /\ Len(lines) < Lines
      /\ iq.cursor < Len(iq.data)
      /\ IF at = Len(iq.data) /\ iq.fds # 0 THEN CloseSocket
         ELSE /\ iq' = IF end = 0 THEN [iq EXCEPT !.cursor = at]
                       ELSE [iq EXCEPT !.cursor = at, !.start = at]
              /\ lines' = IF end = 0 THEN lines
                          ELSE Append(lines, SubSeq(iq.data, iq.start + 1, at - 2))
              /\ UNCHANGED <<buffers, sent, messages, open>>

\* iqueue_pop_data(), its first half: what the buffer holds is copied to the
\* pending data, with the descriptors when the last byte is.
Copied(q) == Min({Len(Rest(q)), q.pending.n - Len(q.pending.got)})
Moves(q) == Copied(q) = Len(Rest(q)) /\ q.fds # 0

\* Faulty variant: the descriptors go with the first byte that is copied.
CopyFdsEarly(q) ==
  [q EXCEPT !.pending.got = @ \o SubSeq(Rest(q), 1, Copied(q)),
            !.start = @ + Copied(q), !.cursor = @ + Copied(q),
            !.pending.fds = IF q.fds # 0 THEN q.fds ELSE @,
            !.pendingFdsCharged = @ \/ q.fds # 0,
            !.fds = 0,
            !.fdsCharged = FALSE]

Copy(q) ==
  [q EXCEPT !.pending.got = @ \o SubSeq(Rest(q), 1, Copied(q)),
            !.start = @ + Copied(q), !.cursor = @ + Copied(q),
            !.pending.fds = IF Moves(q) THEN q.fds ELSE @,
            !.pendingFdsCharged = @ \/ Moves(q),
            !.fds = IF Moves(q) THEN 0 ELSE @,
            !.fdsCharged = @ /\ ~Moves(q)]

\* A second set of descriptors for what is pending is a violation.
Violates(q) ==
  /\ q.fds # 0 /\ q.pending.fds # 0
  /\ Len(q.data) - q.start <= q.pending.n - Len(q.pending.got)

Complete(q) == Len(q.pending.got) >= q.pending.n

\* The second half: the data is handed over.  Only a message takes the
\* descriptors along, the header leaves them.
Popped(q, withFds) ==
  IF withFds
  THEN [q EXCEPT !.pending = NoTarget, !.pendingFdsCharged = FALSE]
  ELSE [q EXCEPT !.pending = [NoTarget EXCEPT !.fds = q.pending.fds]]

\* socket_dequeue(): the header becomes the target, once it is complete the
\* message does, and once that is complete it is handed out.  A message may
\* be refused when its header is complete, as corrupt, too large or beyond
\* the quota, or for a second set of descriptors: the socket is closed.
Dequeue ==
  LET q0 == IF HasTarget(iq) THEN iq
            ELSE iqueue_set_target(iq, "header", HeaderSize)
      q1 == Copy(q0)
      m  == q1.pending.got[1][1]
      q2 == IF q0.pending.what = "header" /\ Complete(q1)
            THEN iqueue_set_target(
                   Popped([q1 EXCEPT !.header = q1.pending.got], FALSE),
                   "message", BodySize[m])
            ELSE q1
      again == q2.pending.what = "message" /\ q0.pending.what = "header"
      q3 == IF again THEN Copy(q2) ELSE q2
  IN  /\ open /\ Len(lines) = Lines
      /\ \/ (Violates(q0) \/ again) /\ CloseSocket
         \/ /\ ~Violates(q0) /\ (again => ~Violates(q2))
            /\ IF q3.pending.what = "message" /\ Complete(q3)
               THEN /\ iq' = [Popped(q3, TRUE) EXCEPT !.header = <<>>]
                    /\ messages' = Append(messages,
                         [bytes |-> q3.header \o q3.pending.got,
                          fds |-> q3.pending.fds])
               ELSE iq' = q3 /\ UNCHANGED messages
            /\ UNCHANGED <<buffers, sent, lines, open>>

\* A target is charged; the quota may refuse it, and the peer is closed.
TargetRefused ==
  /\ open /\ Len(lines) = Lines /\ ~HasTarget(iq)
  /\ CloseSocket

-----------------------------------------------------------------------------
IQInit ==
  /\ iq = iqueue_init
  /\ sent \in Streams /\ buffers = sent
  /\ lines = <<>> /\ messages = <<>> /\ open = TRUE

IQNext == DispatchRead \/ DequeueLine \/ Dequeue \/ TargetRefused

IQSpec == IQInit /\ [][IQNext]_iqVars

\* The bytes of the whole stream, and the descriptors that go with message m.
SentBytes == BytesOf(sent)
FdsOf(m) ==
  IF \E k \in DOMAIN sent : sent[k].fds = m THEN m ELSE 0

\* However recvmsg() cuts the stream, through the buffer or directly into a
\* message: the lines and the messages handed out are those sent, in order,
\* each message with all of its own bytes and its own descriptors; and no
\* byte is lost or held back: what is received, handed out and left in the
\* queue is the stream.
InputIntact ==
  /\ \A k \in DOMAIN messages :
       /\ messages[k].bytes = [i \in 1..(HeaderSize + BodySize[k]) |-> <<k, i>>]
       /\ messages[k].fds = FdsOf(k)
  /\ open =>
       FlattenSeq([k \in DOMAIN lines |-> lines[k] \o <<CR, LF>>])
       \o FlattenSeq([k \in DOMAIN messages |-> messages[k].bytes])
       \o iq.header \o iq.pending.got
       \o Rest(iq) \o BytesOf(buffers) = SentBytes

\* What the queue pins is charged and nothing else is: the enlarged buffer,
\* the message that is pending, the descriptors in the buffer and those of
\* the message.  And a read always has room, within the buffer that it is
\* for, the enlarged one being given back before messages are read.
PinnedIsCharged ==
  /\ iq.charged = IF iq.enlarged THEN LineMax ELSE 0
  /\ iq.pending.charged = iq.pending.n
  /\ iq.fdsCharged <=> iq.fds # 0
  /\ iq.pendingFdsCharged <=> iq.pending.fds # 0
  /\ open /\ Parsed(iq) /\ ~LineTooLong(iq) =>
       LET q == GetCursor(iq)
       IN  /\ Space(q) > 0
           /\ Len(q.data) <= DataSize(q)
           /\ ~(q.enlarged /\ HasTarget(q))
=============================================================================
