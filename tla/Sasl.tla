-------------------------------- MODULE Sasl --------------------------------
(***************************************************************************)
(* The authentication that starts every connection: the SASL server and    *)
(* client of src/dbus/sasl.c, fed line by line by connection_dequeue() and *)
(* connection_feed_sasl() (src/dbus/connection.c) until the exchange is    *)
(* done and the stream turns from lines to messages.                       *)
(*                                                                         *)
(* An honest client is the one of sasl_client_dispatch(), which sends its  *)
(* four lines at once, and its first messages right behind them; any other *)
(* client sends lines and messages as it likes.                            *)
(***************************************************************************)
EXTENDS Naturals, Sequences

CONSTANTS MaxQueued,  \* bound: lines and messages in flight in one direction
          MaxBehind   \* the same for an honest client, Request included

ASSUME SaslAssumption == MaxQueued \in Nat \ {0} /\ MaxBehind \in Nat \ {0}

VARIABLES
    state,        \* SASLServer.state
    fds_allowed,  \* SASLServer.fds_allowed
    closed,       \* the server disconnects: protocol violation
    client,       \* SASLClient.state, "FAILED" once it gave up; "ANY" for
                  \* a client that is not the one of the repository
    up,           \* from the client to the server
    down,         \* from the server to the client
    claim         \* history: what the client claimed when it was accepted,
                  \* "none" if it is not

vars == <<state, fds_allowed, closed, client, up, down, claim>>

\* The client is sasl_client_dispatch().
Honest == client # "ANY"
Room == IF Honest THEN MaxBehind ELSE MaxQueued

\* A line: whether it starts with a zero byte, its command, the mechanism
\* that follows AUTH, and the argument: nothing, the hexadecimal uid of the
\* client's socket, or anything else.
Commands == {"AUTH", "DATA", "NEGOTIATE_UNIX_FD", "BEGIN", "CANCEL", "ERROR",
             "other"}
Line == {line \in [nul : BOOLEAN, cmd : Commands,
                   mech : {"none", "EXTERNAL", "other"},
                   arg : {"none", "uid", "bad"}] :
            /\ line.mech # "none" => line.cmd = "AUTH"
            /\ line.cmd = "AUTH" /\ line.mech = "none" => line.arg = "none"}

\* A message, of which only matters whether it carries descriptors.
Message == [fds : BOOLEAN]
IsMessage(item) == "fds" \in DOMAIN item
Plain(cmd) == [nul |-> FALSE, cmd |-> cmd, mech |-> "none", arg |-> "none"]

\* The bytes of a message are no command when they are taken for a line.
AsLine(item) == IF IsMessage(item) THEN Plain("other") ELSE item

States == {"INIT", "AUTH", "CHALLENGE", "AUTHENTICATED", "NEGOTIATED_FDS", "DONE"}
Replies == {"DATA", "OK", "REJECTED", "AGREE_UNIX_FD", "ERROR"}

-----------------------------------------------------------------------------
(* The server *)

\* A line is there, and the exchange is not done.
Feed(line) ==
    /\ ~closed
    /\ state # "DONE"
    /\ up # <<>>
    /\ Len(down) < Room
    /\ line = AsLine(Head(up))
    /\ up' = Tail(up)

NoArg(line) == line.mech = "none" /\ line.arg = "none"

\* The command of a line in this state: the zero byte belongs in front of the
\* first one only.
Command(line) ==
    IF line.nul /\ state # "INIT" THEN "other" ELSE line.cmd

\* Faulty variant: every line needs the zero byte.
ExpectedAlways(line) == line.nul

\* The first byte must be the zero byte; the state stays INIT until a line is
\* accepted or rejected.
Expected(line) == state = "INIT" => line.nul

Unauthenticated == state \in {"INIT", "AUTH"}
Authenticated == state \in {"AUTHENTICATED", "NEGOTIATED_FDS"}

\* The answer is queued on the socket (connection_feed_sasl()).
Answer(reply) ==
    /\ down' = Append(down, reply)
    /\ UNCHANGED client

\* sasl_server_handle_auth(): the client is to prove who it is.
Challenge ==
    \E line \in Line :
        /\ Feed(line)
        /\ Expected(line)
        /\ Unauthenticated
        /\ Command(line) = "AUTH"
        /\ line.mech = "EXTERNAL" /\ line.arg = "none"
        /\ state' = "CHALLENGE"
        /\ Answer("DATA")
        /\ UNCHANGED <<fds_allowed, closed, claim>>

\* A line that carries what sasl_server_handle_data() looks at.
CarriesData(line) ==
    /\ Expected(line)
    /\ \/ /\ Unauthenticated
          /\ Command(line) = "AUTH"
          /\ line.mech = "EXTERNAL" /\ line.arg # "none"
       \/ /\ state = "CHALLENGE"
          /\ Command(line) = "DATA"

\* Faulty variant: any argument will do.
GoodDataAny(line) == TRUE

\* sasl_server_handle_data(): without an argument the uid of the socket
\* counts; otherwise it must be that uid.
GoodData(line) == line.arg \in {"none", "uid"}

Accept ==
    \E line \in Line :
        /\ Feed(line)
        /\ CarriesData(line)
        /\ GoodData(line)
        /\ state' = "AUTHENTICATED"
        /\ Answer("OK")
        /\ claim' = IF line.arg = "bad" THEN "bad" ELSE "uid"
        /\ UNCHANGED <<fds_allowed, closed>>

\* Lines that end an attempt to authenticate, or undo one that succeeded.
Ends(line) ==
    /\ Expected(line)
    /\ \/ Command(line) = "ERROR"
       \/ Command(line) = "CANCEL" /\ NoArg(line) /\ ~Unauthenticated
       \/ /\ Unauthenticated
          /\ Command(line) = "AUTH" /\ line.mech # "EXTERNAL"
       \/ CarriesData(line) /\ ~GoodData(line)

\* Faulty variant: what was negotiated stays.
RejectKeepsFds ==
    \E line \in Line :
        /\ Feed(line)
        /\ Ends(line)
        /\ state' = "AUTH"
        /\ Answer("REJECTED")
        /\ claim' = "none"
        /\ UNCHANGED <<fds_allowed, closed>>

\* REJECTED EXTERNAL
Reject ==
    \E line \in Line :
        /\ Feed(line)
        /\ Ends(line)
        /\ state' = "AUTH"
        /\ fds_allowed' = IF Authenticated THEN FALSE ELSE fds_allowed
        /\ Answer("REJECTED")
        /\ claim' = "none"
        /\ UNCHANGED closed

MayNegotiate(line) ==
    /\ Authenticated
    /\ Command(line) = "NEGOTIATE_UNIX_FD" /\ NoArg(line)

Negotiate ==
    \E line \in Line :
        /\ Feed(line)
        /\ MayNegotiate(line)
        /\ fds_allowed' = TRUE
        /\ state' = "NEGOTIATED_FDS"
        /\ Answer("AGREE_UNIX_FD")
        /\ UNCHANGED <<closed, claim>>

IsBegin(line) == Command(line) = "BEGIN" /\ NoArg(line)

MayBegin == Authenticated

\* The exchange is done: no answer, and the stream turns into messages.
Begin ==
    \E line \in Line :
        /\ Feed(line)
        /\ MayBegin
        /\ IsBegin(line)
        /\ state' = "DONE"
        /\ UNCHANGED <<fds_allowed, closed, client, down, claim>>

\* SASL_E_PROTOCOL_VIOLATION: the peer is disconnected.
Violation ==
    \E line \in Line :
        /\ Feed(line)
        /\ ~Expected(line) \/ (IsBegin(line) /\ ~MayBegin)
        /\ closed' = TRUE
        /\ UNCHANGED <<state, fds_allowed, client, down, claim>>

\* Any other line is answered with ERROR.
Unknown ==
    \E line \in Line :
        /\ Feed(line)
        /\ Expected(line)
        /\ ~IsBegin(line)
        /\ ~Ends(line)
        /\ ~CarriesData(line)
        /\ ~MayNegotiate(line)
        /\ ~(Unauthenticated /\ Command(line) = "AUTH")
        /\ Answer("ERROR")
        /\ UNCHANGED <<state, fds_allowed, closed, claim>>

\* connection_dequeue() after the exchange: what is no message closes the
\* socket, and a message with descriptors that were not negotiated is
\* CONNECTION_E_UNEXPECTED_FDS, for which the caller disconnects the peer.
Receive ==
    /\ ~closed
    /\ state = "DONE"
    /\ up # <<>>
    /\ up' = Tail(up)
    /\ closed' = IF IsMessage(Head(up)) THEN Head(up).fds /\ ~fds_allowed
                 ELSE TRUE
    /\ UNCHANGED <<state, fds_allowed, client, down, claim>>

-----------------------------------------------------------------------------
(* The client *)

\* The lines of the first output of sasl_client_dispatch().
Request ==
    <<[nul |-> TRUE, cmd |-> "AUTH", mech |-> "EXTERNAL", arg |-> "none"],
      Plain("DATA"), Plain("NEGOTIATE_UNIX_FD"), Plain("BEGIN")>>

\* connection_open() bootstraps the client.
ClientOpen ==
    /\ client = "INIT"
    /\ up' = Request
    /\ client' = "AUTH"
    /\ UNCHANGED <<state, fds_allowed, closed, down, claim>>

\* The answer the client waits for in each of its states, and what follows.
Awaits == [AUTH |-> "DATA", DATA |-> "OK", UNIX_FD |-> "AGREE_UNIX_FD"]

\* Faulty variants: the client takes over the state of the server; it waits
\* for descriptors for ever.
AfterServer == [AUTH |-> "CHALLENGE", DATA |-> "AUTHENTICATED",
                UNIX_FD |-> "NEGOTIATED_FDS"]
AfterStuck == [AUTH |-> "DATA", DATA |-> "UNIX_FD", UNIX_FD |-> "UNIX_FD"]

After == [AUTH |-> "DATA", DATA |-> "UNIX_FD", UNIX_FD |-> "DONE"]

\* sasl_client_dispatch(); any other client just takes the answer.
ClientReads ==
    /\ down # <<>>
    /\ Honest => client \in DOMAIN Awaits
    /\ client' = IF ~Honest THEN client
                 ELSE IF Head(down) = Awaits[client] THEN After[client]
                 ELSE "FAILED"
    /\ down' = Tail(down)
    /\ UNCHANGED <<state, fds_allowed, closed, up, claim>>

\* Messages may follow the request at once.
ClientSendsMessage ==
    /\ Honest => client # "INIT"
    /\ Len(up) < Room
    /\ \E message \in Message : up' = Append(up, message)
    /\ UNCHANGED <<state, fds_allowed, closed, client, down, claim>>

ClientSendsLine ==
    /\ ~Honest
    /\ Len(up) < Room
    /\ \E line \in Line : up' = Append(up, line)
    /\ UNCHANGED <<state, fds_allowed, closed, client, down, claim>>

-----------------------------------------------------------------------------
Init ==
    /\ state = "INIT"
    /\ fds_allowed = FALSE
    /\ closed = FALSE
    /\ client \in {"INIT", "ANY"}
    /\ up = <<>>
    /\ down = <<>>
    /\ claim = "none"

Server ==
    \/ Challenge \/ Accept \/ Reject \/ Negotiate \/ Begin \/ Violation
    \/ Unknown \/ Receive

Next ==
    \/ Server
    \/ ClientOpen \/ ClientReads \/ ClientSendsMessage \/ ClientSendsLine

Spec == Init /\ [][Next]_vars

\* Both ends keep dispatching their connections.
FairSpec ==
    Spec /\ WF_vars(Server) /\ WF_vars(ClientOpen) /\ WF_vars(ClientReads)

-----------------------------------------------------------------------------
\* Types of the exchange.
TypeOK ==
    /\ state \in States
    /\ fds_allowed \in BOOLEAN
    /\ closed \in BOOLEAN
    /\ client \in {"INIT", "AUTH", "DATA", "UNIX_FD", "DONE", "FAILED", "ANY"}
    /\ up \in Seq(Line \cup Message)
    /\ down \in Seq(Replies)
    /\ claim \in {"none", "uid", "bad"}

\* Whoever gets past the authentication has proved the uid of its socket, and
\* nothing it sent since has been rejected.
OnlyProvenUids ==
    state \in {"AUTHENTICATED", "NEGOTIATED_FDS", "DONE"} => claim = "uid"

\* Descriptors are allowed only to clients that negotiated them after they
\* proved their uid; a rejection takes the permission away.
FdsOnlyWhenProven ==
    fds_allowed => claim = "uid" /\ state \in {"NEGOTIATED_FDS", "DONE"}

\* The lines the client of the broker sends at once, with messages and their
\* descriptors behind them, never violate the protocol; the client never
\* gives up.
HonestIsUnderstood == Honest => ~closed /\ client # "FAILED"

\* The honest exchange completes at both ends, with descriptors, and stays so.
HonestSucceeds ==
    []<>(Honest => state = "DONE" /\ client = "DONE" /\ fds_allowed)
=============================================================================
