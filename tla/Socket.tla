------------------------------- MODULE Socket -------------------------------
(***************************************************************************)
(* A connection of the bus: the socket with its input and output queues    *)
(* (src/dbus/socket.c), the events it is interested in                     *)
(* (src/dbus/connection.c), the callback of its peer that drives it        *)
(* (peer_dispatch() in src/bus/peer.c), and the client at the other end,   *)
(* which sends, half-closes and closes whenever it likes.                  *)
(*                                                                         *)
(* Incoming messages are tokens: how the input queue makes messages of     *)
(* bytes is left out.  Outgoing messages are counted in the pieces that    *)
(* the kernel may take.                                                    *)
(***************************************************************************)
EXTENDS Naturals, SequencesExt, Collections

CONSTANTS Messages,   \* messages that may be queued on the connection
          Length,     \* their lengths, in pieces
          WithFds,    \* those that carry file descriptors
          MaxSent,    \* bound: messages the client sends
          MmsgMax     \* SOCKET_MMSG_MAX

ASSUME SocketAssumption ==
    /\ Length \in [Messages -> Nat \ {0}]
    /\ WithFds \subseteq Messages
    /\ MaxSent \in Nat
    /\ MmsgMax \in Nat \ {0}

VARIABLES
    sock,      \* Socket: its flags and its queues
    mask,      \* events selected on the connection's DispatchFile
    steps,     \* what is left of the running peer_dispatch(), <<>> if none runs
    freed,     \* the peer is freed
    inbox,     \* what the client sent and the broker has not received
    remote,    \* the client: "open", "half" (it sends no more) or "closed"
    n_sent,    \* messages the client has sent
    handled,   \* history: messages the broker dispatched
    accepted,  \* history: messages queued, in order
    wire,      \* history: pieces given to the kernel, in order
    overtaken, \* history: a message went out behind one sent in part
    cut        \* history: output was discarded because writing failed

svars == <<sock, mask, steps, freed, inbox, remote, n_sent, handled, accepted,
           wire, overtaken, cut>>

\* A message is well-formed, violates the protocol once it is parsed, or has
\* a header that does not even tell its length.
Kinds == {"good", "bad", "corrupt"}
Token == [id : 1 .. MaxSent, kind : Kinds]
Events == {"IN", "OUT", "HUP"}

-----------------------------------------------------------------------------
(* The functions of socket.c, on the Socket *)

\* socket_might_reset(): both directions are done for.
MightReset(s) ==
    IF s.hup_in /\ s.hup_out /\ s.pending = <<>> /\ s.in = <<>>
    THEN [s EXCEPT !.reset = TRUE] ELSE s

HangupInput(s) ==
    IF s.hup_in THEN s ELSE MightReset([s EXCEPT !.hup_in = TRUE])

\* Faulty variant: nobody looks whether this was the last direction.
HangupOutputQuietly(s) ==
    IF s.hup_out THEN s ELSE [s EXCEPT !.hup_out = TRUE, !.out = <<>>]

HangupOutput(s) ==
    IF s.hup_out THEN s
    ELSE MightReset([s EXCEPT !.hup_out = TRUE, !.out = <<>>])

\* Faulty variant: what is queued is not flushed.
ShutdownAtOnce(s) ==
    IF s.shutdown THEN s ELSE HangupOutput([s EXCEPT !.shutdown = TRUE])

\* socket_shutdown(), and socket_shutdown_now() if nothing has to be flushed.
Shutdown(s) ==
    IF s.shutdown THEN s
    ELSE LET t == [s EXCEPT !.shutdown = TRUE]
         IN  IF t.out = <<>> THEN HangupOutput(t) ELSE t

\* socket_close()
Close(s) == MightReset([Shutdown(HangupInput(s)) EXCEPT !.in = <<>>])

\* The buffers one sendmmsg() may take: at most MmsgMax, and nothing after
\* the first one with file descriptors.
Batch(out) ==
    {i \in 1 .. Len(out) : /\ i <= MmsgMax
                           /\ \A j \in 1 .. i - 1 : out[j].msg \notin WithFds}

\* Whether sendmmsg() may send parts[i] pieces of the i-th buffer.
MaySend(out, parts) == \A i \in DOMAIN parts : parts[i] \in 1 .. out[i].left

\* Linux stops behind a message it takes in part; the sendmmsg() of the port
\* to Zephyr goes on with the next one.
Overtakes(out, parts) ==
    \E i \in DOMAIN parts : i < Len(parts) /\ parts[i] # out[i].left

\* What remains of the i-th buffer.
Left(out, parts, i) ==
    IF i \in DOMAIN parts THEN out[i].left - parts[i] ELSE out[i].left

Indexes(out) == [i \in 1 .. Len(out) |-> i]

\* Buffers that are sent leave the queue; those whose descriptors may still
\* be in the kernel wait for it.
Consume(s, parts) ==
    LET done == Only(Indexes(s.out),
                     {i \in 1 .. Len(s.out) : Left(s.out, parts, i) = 0})
        rest == Only(Indexes(s.out),
                     {i \in 1 .. Len(s.out) : Left(s.out, parts, i) > 0})
        flying == Only(done, {i \in 1 .. Len(s.out) : s.out[i].msg \in WithFds})
    IN  [s EXCEPT
            !.out = [k \in 1 .. Len(rest) |->
                        [msg |-> s.out[rest[k]].msg,
                         left |-> Left(s.out, parts, rest[k])]],
            !.pending = @ \o [k \in 1 .. Len(flying) |-> s.out[flying[k]].msg]]

\* The last buffer is sent: a shutdown that waited for it happens now.
AfterSend(s) ==
    IF s.out = <<>> /\ s.shutdown THEN HangupOutput(s) ELSE s

\* The pieces of message m that are sent next if left remain.
Pieces(m, left, n) == [k \in 1 .. n |-> <<m, Length[m] - left + k>>]
SentPieces(out, parts) ==
    FlattenSeq([i \in 1 .. Len(parts) |->
                    Pieces(out[i].msg, out[i].left, parts[i])])

-----------------------------------------------------------------------------
(* The client *)

ClientSend ==
    /\ remote = "open"
    /\ n_sent < MaxSent
    /\ \E kind \in Kinds :
          inbox' = Append(inbox, [id |-> n_sent + 1, kind |-> kind])
    /\ n_sent' = n_sent + 1
    /\ UNCHANGED <<sock, mask, steps, freed, remote, handled, accepted, wire,
                   overtaken, cut>>

ClientHalfClose ==
    /\ remote = "open"
    /\ remote' = "half"
    /\ UNCHANGED <<sock, mask, steps, freed, inbox, n_sent, handled, accepted,
                   wire, overtaken, cut>>

ClientClose ==
    /\ remote # "closed"
    /\ remote' = "closed"
    /\ UNCHANGED <<sock, mask, steps, freed, inbox, n_sent, handled, accepted,
                   wire, overtaken, cut>>

-----------------------------------------------------------------------------
(* What the rest of the bus does with the connection *)

\* Other callbacks run between two callbacks of this peer; the handlers of
\* its own messages run while it dequeues them.
BusRuns == ~freed /\ (steps # <<>> => Head(steps) = "dequeue")

Queued == {accepted[i] : i \in 1 .. Len(accepted)}

\* connection_queue(): a socket that is shut down swallows the message.
Queue(m) ==
    /\ BusRuns
    /\ m \in Messages \ Queued
    /\ ~sock.hup_out /\ ~sock.shutdown
    /\ sock' = [sock EXCEPT !.out = Append(@, [msg |-> m, left |-> Length[m]])]
    /\ mask' = mask \cup {"OUT"}
    /\ accepted' = Append(accepted, m)
    /\ UNCHANGED <<steps, freed, inbox, remote, n_sent, handled, wire,
                   overtaken, cut>>

\* connection_shutdown()
ConnectionShutdown(s) ==
    /\ sock' = Shutdown(s)
    /\ mask' = IF Shutdown(s).reset THEN mask \cup {"HUP"} ELSE mask

\* The quota refuses a message to this peer: it is disconnected.
QueueRefused ==
    /\ BusRuns
    /\ ~sock.hup_out /\ ~sock.shutdown
    /\ ConnectionShutdown(sock)
    /\ UNCHANGED <<steps, freed, inbox, remote, n_sent, handled, accepted, wire,
                   overtaken, cut>>

-----------------------------------------------------------------------------
(* peer_dispatch() *)

\* What poll() reports; a closed client is readable, writable and hung up.
MustSignal ==
    (IF inbox # <<>> \/ remote # "open" THEN {"IN"} ELSE {})
        \cup (IF remote = "closed" THEN {"OUT", "HUP"} ELSE {})
        \cup (IF remote = "half" /\ sock.hup_out THEN {"HUP"} ELSE {})

StepsFor(evs) ==
    (IF "IN" \in evs THEN <<"IN">> ELSE <<>>)
        \o (IF "HUP" \in evs THEN <<"HUP">> ELSE <<>>)
        \o (IF evs \cap {"IN", "HUP"} # {} THEN <<"dequeue">> ELSE <<>>)
        \o (IF "OUT" \in evs THEN <<"OUT", "dequeue">> ELSE <<>>)

\* The event loop calls peer_dispatch().  Whether output is wanted is asked only
\* after the input was handled, which may have queued some.
Callback ==
    /\ ~freed
    /\ steps = <<>>
    /\ \E evs \in SUBSET Events :
          /\ MustSignal \subseteq evs
          /\ evs \subseteq MustSignal \cup {"OUT"}
          /\ evs \cap mask # {}
          /\ steps' = StepsFor(evs \cap (mask \cup {"OUT"}))
    /\ UNCHANGED <<sock, mask, freed, inbox, remote, n_sent, handled, accepted,
                   wire, overtaken, cut>>

\* The next step of the callback is ev.
AtStep(ev) ==
    /\ steps # <<>>
    /\ Head(steps) = ev

\* What socket_dispatch_read() does to s, with the client's data that is left
\* and whether the socket has lost interest in the event.
ReadOutcomes(s) ==
    IF s.hup_in THEN {[sock |-> s, inbox |-> inbox, lost |-> TRUE]}
    ELSE IF s.in # <<>> THEN {[sock |-> s, inbox |-> inbox, lost |-> FALSE]}
    ELSE
        {[sock |-> [s EXCEPT !.in = SubSeq(inbox, 1, k)],
          inbox |-> SubSeq(inbox, k + 1, Len(inbox)),
          lost |-> FALSE] : k \in 1 .. Len(inbox)}
        \cup
        (IF inbox = <<>> /\ remote = "open"            \* EAGAIN
         THEN {[sock |-> s, inbox |-> inbox, lost |-> FALSE]} ELSE {})
        \cup
        (IF inbox = <<>> /\ remote # "open"            \* end of file
         THEN {[sock |-> HangupInput(s), inbox |-> inbox, lost |-> TRUE]} ELSE {})
        \cup
        (IF remote = "closed"                          \* ECONNRESET
         THEN {[sock |-> HangupOutput(HangupInput(s)), inbox |-> <<>>,
                lost |-> TRUE]} ELSE {})
        \cup
        (IF inbox # <<>>                               \* quota, violation
         THEN {[sock |-> Close(s), inbox |-> inbox, lost |-> TRUE]} ELSE {})

\* Output that was accepted is lost with the client.
CutBy(s, t) == cut \/ (s.out # <<>> /\ t.out = <<>>)

DispatchIn ==
    /\ AtStep("IN")
    /\ \E o \in ReadOutcomes(sock) :
          /\ sock' = o.sock
          /\ inbox' = o.inbox
          /\ mask' = IF o.lost THEN mask \ {"IN"} ELSE mask
          /\ cut' = CutBy(sock, o.sock)
    /\ steps' = Tail(steps)
    /\ UNCHANGED <<freed, remote, n_sent, handled, accepted, wire, overtaken>>

\* EPOLLHUP: the output is given up, and the input read once more; interest
\* in the event is lost whatever the read returns.
DispatchHup ==
    /\ AtStep("HUP")
    /\ \E o \in ReadOutcomes(HangupOutput(sock)) :
          /\ sock' = o.sock
          /\ inbox' = o.inbox
          /\ cut' = CutBy(sock, o.sock)
    /\ mask' = mask \ {"HUP"}
    /\ steps' = Tail(steps)
    /\ UNCHANGED <<freed, remote, n_sent, handled, accepted, wire, overtaken>>

\* socket_dispatch_write() first releases what the kernel has passed on.
Released == IF sock.pending = <<>> THEN sock
            ELSE MightReset([sock EXCEPT !.pending = <<>>])

\* By then there is nothing to write.
SkipOut ==
    /\ AtStep("OUT")
    /\ "OUT" \notin mask
    /\ steps' = SubSeq(steps, 3, Len(steps))
    /\ UNCHANGED <<sock, mask, freed, inbox, remote, n_sent, handled, accepted,
                   wire, overtaken, cut>>

WriteNothing ==
    /\ AtStep("OUT")
    /\ "OUT" \in mask
    /\ Released.hup_out \/ Released.out = <<>>
    /\ sock' = Released
    /\ mask' = mask \ {"OUT"}
    /\ steps' = Tail(steps)
    /\ UNCHANGED <<freed, inbox, remote, n_sent, handled, accepted, wire,
                   overtaken, cut>>

\* Linux only: the kernel has not passed on the descriptors (SIOCOUTQ).
WriteInFlight ==
    /\ AtStep("OUT")
    /\ "OUT" \in mask
    /\ remote # "closed"
    /\ sock.pending # <<>>
    /\ steps' = Tail(steps)
    /\ UNCHANGED <<sock, mask, freed, inbox, remote, n_sent, handled, accepted,
                   wire, overtaken, cut>>

\* EAGAIN: the client does not read.
WriteAgain ==
    /\ AtStep("OUT")
    /\ "OUT" \in mask
    /\ remote # "closed"
    /\ ~Released.hup_out /\ Released.out # <<>>
    /\ sock' = Released
    /\ steps' = Tail(steps)
    /\ UNCHANGED <<mask, freed, inbox, remote, n_sent, handled, accepted, wire,
                   overtaken, cut>>

\* EPIPE: the client is gone; or any other error but a fatal one (ENOMEM, EIO).
WriteFails ==
    /\ AtStep("OUT")
    /\ "OUT" \in mask
    /\ ~Released.hup_out /\ Released.out # <<>>
    /\ sock' = HangupOutput(Released)
    /\ cut' = TRUE
    /\ mask' = mask \ {"OUT"}
    /\ steps' = Tail(steps)
    /\ UNCHANGED <<freed, inbox, remote, n_sent, handled, accepted, wire,
                   overtaken>>

\* Faulty variant: interest is lost although descriptors are in flight.
MaskAfterWriteLazy(s) == IF s.out = <<>> THEN mask \ {"OUT"} ELSE mask

MaskAfterWrite(s) ==
    IF s.out = <<>> /\ s.pending = <<>> THEN mask \ {"OUT"} ELSE mask

WriteSome ==
    /\ AtStep("OUT")
    /\ "OUT" \in mask
    /\ remote # "closed"
    /\ ~Released.hup_out /\ Released.out # <<>>
    /\ \E n \in Batch(Released.out) :
       \E parts \in [1 .. n -> 1 .. Max({Length[m] : m \in Messages})] :
          /\ MaySend(Released.out, parts)
          /\ sock' = AfterSend(Consume(Released, parts))
          /\ wire' = wire \o SentPieces(Released.out, parts)
          /\ overtaken' = (overtaken \/ Overtakes(Released.out, parts))
          /\ mask' = MaskAfterWrite(AfterSend(Consume(Released, parts)))
    /\ steps' = Tail(steps)
    /\ UNCHANGED <<freed, inbox, remote, n_sent, handled, accepted, cut>>

\* The input queue is drained.
DequeueNothing ==
    /\ AtStep("dequeue")
    /\ sock.in = <<>>
    /\ sock' = MightReset(sock)
    /\ steps' = IF sock.hup_in THEN <<"eof">> ELSE Tail(steps)
    /\ UNCHANGED <<mask, freed, inbox, remote, n_sent, handled, accepted, wire,
                   overtaken, cut>>

\* A message is parsed and dispatched; one that violates the protocol, or
\* the quota, disconnects the client.
DequeueMessage ==
    /\ AtStep("dequeue")
    /\ sock.in # <<>>
    /\ Head(sock.in).kind # "corrupt"
    /\ sock' = [sock EXCEPT !.in = Tail(@)]
    /\ \/ /\ Head(sock.in).kind = "good"
          /\ handled' = Append(handled, Head(sock.in).id)
          /\ steps' = steps
       \/ /\ handled' = handled
          /\ steps' = <<"close">>
    /\ UNCHANGED <<mask, freed, inbox, remote, n_sent, accepted, wire,
                   overtaken, cut>>

\* A message that cannot be delimited closes the socket.
DequeueCorrupt ==
    /\ AtStep("dequeue")
    /\ sock.in # <<>>
    /\ Head(sock.in).kind = "corrupt"
    /\ sock' = Close(sock)
    /\ steps' = <<"eof">>
    /\ UNCHANGED <<mask, freed, inbox, remote, n_sent, handled, accepted, wire,
                   overtaken, cut>>

\* PEER_E_EOF: the peer says goodbye and stays until its output is flushed.
EndOfFile ==
    /\ AtStep("eof")
    /\ ConnectionShutdown(sock)
    /\ freed' = sock'.reset
    /\ steps' = <<>>
    /\ UNCHANGED <<inbox, remote, n_sent, handled, accepted, wire, overtaken,
                   cut>>

\* PEER_E_QUOTA and PEER_E_PROTOCOL_VIOLATION
Disconnect ==
    /\ AtStep("close")
    /\ sock' = Close(sock)
    /\ freed' = sock'.reset
    /\ steps' = <<>>
    /\ UNCHANGED <<mask, inbox, remote, n_sent, handled, accepted, wire,
                   overtaken, cut>>

-----------------------------------------------------------------------------
\* connection_open() has been called.
SInit ==
    /\ sock = [hup_in |-> FALSE, hup_out |-> FALSE, shutdown |-> FALSE,
               reset |-> FALSE, in |-> <<>>, out |-> <<>>, pending |-> <<>>]
    /\ mask = Events
    /\ steps = <<>>
    /\ freed = FALSE
    /\ inbox = <<>>
    /\ remote = "open"
    /\ n_sent = 0
    /\ handled = <<>>
    /\ accepted = <<>>
    /\ wire = <<>>
    /\ overtaken = FALSE
    /\ cut = FALSE

Step ==
    \/ DispatchIn \/ DispatchHup
    \/ SkipOut \/ WriteNothing \/ WriteInFlight \/ WriteAgain \/ WriteFails
    \/ WriteSome
    \/ DequeueNothing \/ DequeueMessage \/ DequeueCorrupt
    \/ EndOfFile \/ Disconnect

SNext ==
    \/ ClientSend \/ ClientHalfClose \/ ClientClose
    \/ QueueRefused
    \/ \E m \in Messages : Queue(m)
    \/ Callback
    \/ Step

SSpec == SInit /\ [][SNext]_svars

\* The event loop calls back for signalled events, and callbacks return.
Dispatched == Callback \/ Step
SFairSpec == SSpec /\ WF_svars(Dispatched)

-----------------------------------------------------------------------------
\* Types of the connection's state.
STypeOK ==
    /\ sock \in [hup_in : BOOLEAN, hup_out : BOOLEAN, shutdown : BOOLEAN,
                 reset : BOOLEAN, in : Seq(Token),
                 out : Seq([msg : Messages, left : Nat \ {0}]),
                 pending : Seq(WithFds)]
    /\ mask \subseteq Events
    /\ steps \in Seq(Events \cup {"dequeue", "eof", "close"})
    /\ freed \in BOOLEAN
    /\ inbox \in Seq(Token)
    /\ remote \in {"open", "half", "closed"}
    /\ n_sent \in 0 .. MaxSent
    /\ handled \in Seq(1 .. MaxSent)
    /\ accepted \in Seq(Messages)
    /\ wire \in Seq(Messages \X Nat)
    /\ overtaken \in BOOLEAN
    /\ cut \in BOOLEAN

\* Between two callbacks, whatever waits to be written, and every buffer whose
\* descriptors are in flight, is watched for: EPOLLOUT stays selected
\* (connection_queue(), socket_dispatch_write()).
OutputIsWatched ==
    ~freed /\ steps = <<>> /\ (sock.out # <<>> \/ sock.pending # <<>>)
        => "OUT" \in mask

\* A reset is never left behind: whichever step completes it, shutdowns by
\* other peers included, the peer is freed before its callback returns
\* (peer_dispatch()).
ResetMeansFreed == steps = <<>> /\ sock.reset => freed

\* A peer that can no longer be heard stays only to flush what it is owed.
LingersOnlyToFlush ==
    ~freed /\ steps = <<>> /\ sock.hup_in
        => sock.out # <<>> \/ sock.pending # <<>>

\* No buffer is left when the peer is freed, and no message is accepted by a
\* socket whose output is given up (socket_queue(), socket_might_reset()).
FreedIsEmpty ==
    /\ freed => sock.out = <<>> /\ sock.pending = <<>> /\ sock.in = <<>>
    /\ sock.hup_out => sock.out = <<>>

\* The state of the connection is well formed, a peer is freed when, and only
\* when, nothing is left of its connection, and until then it is watched for
\* what it still has to write.
ReleasedWhenDone ==
    /\ STypeOK
    /\ ResetMeansFreed
    /\ FreedIsEmpty
    /\ LingersOnlyToFlush
    /\ OutputIsWatched

AllPieces ==
    FlattenSeq([i \in 1 .. Len(accepted) |->
                    Pieces(accepted[i], Length[accepted[i]], Length[accepted[i]])])
\* What the client receives is what was queued: messages in order, each in
\* one piece after the other (connection_dequeue(): "ensures stream integrity").
InSequence == IsPrefix(wire, AllPieces)

\* A shutdown flushes: unless writing fails, the output ends only after every
\* piece of every message that was accepted is sent (socket_shutdown()).
FlushedBeforeShutdown ==
    sock.hup_out /\ ~cut =>
        \A m \in Queued : \A k \in 1 .. Length[m] : <<m, k>> \in ToSet(wire)

\* Messages are dispatched in the order in which the client sent them, and
\* none is skipped.
InOrder == \A i \in 1 .. Len(handled) : handled[i] = i

\* The stream to the client is what was queued, in order, until sendmmsg() goes
\* on behind a message it sent in part; even then nothing of it is missing
\* when the output ends.  The other way, everything is dispatched in order.
StreamIntact ==
    /\ ~overtaken => InSequence
    /\ FlushedBeforeShutdown
    /\ InOrder

\* Once the client is gone, which it stays, its peer is freed.
ClosedIsFreed == []<>(remote = "closed" => freed)
=============================================================================
