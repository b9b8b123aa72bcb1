-------------------------- MODULE ConnectionProofs --------------------------
(***************************************************************************)
(* Proofs about the three parts of a connection: the event loop that       *)
(* drives it (Dispatch), the authentication that comes first on it (Sasl), *)
(* and its queues (Socket).                                                *)
(***************************************************************************)
EXTENDS Sasl, Dispatch, Socket, CollectionLemmas

-----------------------------------------------------------------------------
(***************************************************************************)
(* What the authentication guarantees, for queues of any length.           *)
(*                                                                         *)
(* Against every client: SaslInv, the properties of the first run, is      *)
(* inductive once the state of the server is known to be one of States.    *)
(*                                                                         *)
(* To the client of the repository: that it is understood is not           *)
(* inductive.  HonestInv adds what makes it so: how far the exchange has   *)
(* come determines what is still in flight, Request and then messages in   *)
(* one direction, the answers in the other.                                *)
(***************************************************************************)

\* What the server knows of the client it talks to.
SaslInv ==
    /\ state \in States
    /\ OnlyProvenUids
    /\ FdsOnlyWhenProven

-----------------------------------------------------------------------------
\* A line leaves the server in exactly one of its states, with the uid proven
\* wherever it must be: sasl_server_dispatch() and what it calls.
LEMMA ServerStep ==
    ASSUME SaslInv, [Next]_vars
    PROVE  SaslInv'
<1> USE DEF SaslInv, OnlyProvenUids, FdsOnlyWhenProven, States
<1>1. CASE Challenge
    BY <1>1 DEF Challenge, Unauthenticated
<1>2. CASE Accept
  <2>1. PICK line \in Line : /\ CarriesData(line)
                             /\ GoodData(line)
                             /\ claim' = IF line.arg = "bad" THEN "bad" ELSE "uid"
        BY <1>2 DEF Accept
  <2>2. claim' = "uid"
        BY <2>1 DEF GoodData
  <2>3. state \in {"INIT", "AUTH", "CHALLENGE"}
        BY <2>1 DEF CarriesData, Unauthenticated
  <2> QED BY <1>2, <2>2, <2>3 DEF Accept
<1>3. CASE Reject
    BY <1>3 DEF Reject, Feed, Authenticated
<1>4. CASE Negotiate
    BY <1>4 DEF Negotiate, MayNegotiate, Authenticated
<1>5. CASE Begin
    BY <1>5 DEF Begin, MayBegin, Authenticated
<1>6. CASE Violation
    BY <1>6 DEF Violation
<1>7. CASE Unknown
    BY <1>7 DEF Unknown
<1>8. CASE Receive
    BY <1>8 DEF Receive
<1>9. CASE ClientOpen \/ ClientReads \/ ClientSendsMessage \/ ClientSendsLine
    BY <1>9 DEF ClientOpen, ClientReads, ClientSendsMessage, ClientSendsLine
<1>10. CASE UNCHANGED vars
    BY <1>10 DEF vars
<1> QED BY <1>1, <1>2, <1>3, <1>4, <1>5, <1>6, <1>7, <1>8, <1>9, <1>10
        DEF Next, Server

\* The invariant holds throughout every exchange, honest or not.
THEOREM SaslCorrect == Spec => []SaslInv
<1>1. Init => SaslInv
    BY DEF Init, SaslInv, States, OnlyProvenUids, FdsOnlyWhenProven
<1> QED BY <1>1, ServerStep, PTL DEF Spec

\* Whoever gets past sasl_server_dispatch() has proved the uid of its socket.
THEOREM UidsAreProven == Spec => []OnlyProvenUids
<1>1. SaslInv => OnlyProvenUids
    BY DEF SaslInv
<1> QED BY <1>1, SaslCorrect, PTL

\* Descriptors are allowed only to a client that proved its uid and whose
\* negotiation was not undone by a rejection.
THEOREM FdsAreProven == Spec => []FdsOnlyWhenProven
<1>1. SaslInv => FdsOnlyWhenProven
    BY DEF SaslInv
<1> QED BY <1>1, SaslCorrect, PTL

-----------------------------------------------------------------------------
(* The client of the repository *)

\* The answers to the lines of Request; BEGIN has none.
Wanted == <<"DATA", "OK", "AGREE_UNIX_FD">>

\* How many lines of Request the server has taken, how many answers it gave,
\* and how many of those the client has read.
Taken == CASE state = "INIT" -> 0
           [] state = "CHALLENGE" -> 1
           [] state = "AUTHENTICATED" -> 2
           [] state = "NEGOTIATED_FDS" -> 3
           [] OTHER -> 4
Given == IF Taken = 4 THEN 3 ELSE Taken
Read == CASE client = "AUTH" -> 0
          [] client = "DATA" -> 1
          [] client = "UNIX_FD" -> 2
          [] OTHER -> 3

\* What is in flight to the server once it has taken p lines: the rest of
\* Request, and nothing but messages behind it.
InFlight(u, p) ==
    /\ u \in Seq(Line \cup Message)
    /\ Len(u) >= 4 - p
    /\ \A i \in 1 .. Len(u) :
          /\ i <= 4 - p => u[i] = Request[p + i]
          /\ i > 4 - p => u[i] \in Message

\* What is in flight to the client once n answers were given and r read.
Answers(d, n, r) ==
    /\ d \in Seq(Replies)
    /\ Len(d) = n - r
    /\ \A i \in 1 .. Len(d) : d[i] = Wanted[r + i]

HonestInv ==
    /\ ~closed
    /\ state \in States \ {"AUTH"}
    /\ state \in {"NEGOTIATED_FDS", "DONE"} => fds_allowed
    /\ client \in {"INIT", "AUTH", "DATA", "UNIX_FD", "DONE"}
    /\ client = "INIT" => state = "INIT" /\ up = <<>> /\ down = <<>>
    /\ client # "INIT" =>
          /\ InFlight(up, Taken)
          /\ Read <= Given
          /\ Answers(down, Given, Read)

-----------------------------------------------------------------------------
\* The lines of Request are lines, and the messages none of them.
LEMMA RequestLines ==
    /\ Request \in Seq(Line)
    /\ Len(Request) = 4
    /\ \A i \in 1 .. 4 : Request[i] \in Line /\ ~IsMessage(Request[i])
<1>1. Request[1] \in Line /\ Request[2] \in Line /\ Request[3] \in Line
      /\ Request[4] \in Line
    BY DEF Request, Line, Plain, Commands
<1>2. ~IsMessage(Request[1]) /\ ~IsMessage(Request[2])
      /\ ~IsMessage(Request[3]) /\ ~IsMessage(Request[4])
    BY DEF Request, Plain, IsMessage
<1>3. Len(Request) = 4
    BY DEF Request
<1>4. Request \in Seq(Line)
    BY <1>1 DEF Request
<1> QED BY <1>1, <1>2, <1>3, <1>4

\* A message is recognised as one.
LEMMA MessageIsMessage ==
    ASSUME NEW m \in Message
    PROVE  IsMessage(m) /\ m.fds \in BOOLEAN
BY DEF Message, IsMessage

\* Taking the next line of Request leaves the lines behind it.
LEMMA TakeLine ==
    ASSUME NEW u, NEW p \in 0 .. 3, InFlight(u, p)
    PROVE  u # <<>> /\ Head(u) = Request[p + 1] /\ InFlight(Tail(u), p + 1)
<1>1. u \in Seq(Line \cup Message) /\ Len(u) >= 1 /\ Len(u) \in Nat
    BY DEF InFlight
<1>2. u # <<>> /\ Head(u) = u[1] /\ u[1] = Request[p + 1]
    BY <1>1 DEF InFlight
<1>3. Tail(u) \in Seq(Line \cup Message) /\ Len(Tail(u)) = Len(u) - 1
    BY <1>1, <1>2
<1>4. \A i \in 1 .. Len(Tail(u)) : Tail(u)[i] = u[i + 1]
    BY <1>1, <1>2, <1>3
<1>5. Len(Tail(u)) >= 4 - (p + 1)
    BY <1>1, <1>3 DEF InFlight
<1>6. ASSUME NEW i \in 1 .. Len(Tail(u))
      PROVE  /\ i <= 4 - (p + 1) => Tail(u)[i] = Request[(p + 1) + i]
             /\ i > 4 - (p + 1) => Tail(u)[i] \in Message
    <2>1. i + 1 \in 1 .. Len(u)
        BY <1>1, <1>3
    <2>2. /\ i + 1 <= 4 - p => u[i + 1] = Request[p + (i + 1)]
          /\ i + 1 > 4 - p => u[i + 1] \in Message
        BY <2>1 DEF InFlight
    <2>3. p + (i + 1) = (p + 1) + i
        BY <1>3
    <2> QED BY <1>4, <2>2, <2>3
<1> QED BY <1>2, <1>3, <1>5, <1>6 DEF InFlight

\* Behind Request there are only messages.
LEMMA TakeMessage ==
    ASSUME NEW u, InFlight(u, 4), u # <<>>
    PROVE  Head(u) \in Message /\ InFlight(Tail(u), 4)
<1>1. u \in Seq(Line \cup Message) /\ Len(u) >= 1 /\ Len(u) \in Nat
    BY DEF InFlight
<1>2. Head(u) = u[1] /\ u[1] \in Message
    BY <1>1 DEF InFlight
<1>3. Tail(u) \in Seq(Line \cup Message) /\ Len(Tail(u)) = Len(u) - 1
    BY <1>1
<1>4. \A i \in 1 .. Len(Tail(u)) : Tail(u)[i] = u[i + 1]
    BY <1>1, <1>3
<1>5. ASSUME NEW i \in 1 .. Len(Tail(u))
      PROVE  Tail(u)[i] \in Message
    <2>1. i + 1 \in 1 .. Len(u) /\ i + 1 > 4 - 4
        BY <1>1, <1>3
    <2> QED BY <1>4, <2>1 DEF InFlight
<1>6. \A i \in 1 .. Len(Tail(u)) : ~(i <= 4 - 4)
    BY <1>3, <1>1
<1> QED BY <1>1, <1>2, <1>3, <1>5, <1>6 DEF InFlight

\* A message goes behind everything that is in flight.
LEMMA SendMessage ==
    ASSUME NEW u, NEW p \in 0 .. 4, InFlight(u, p), NEW m \in Message
    PROVE  InFlight(Append(u, m), p)
<1>1. u \in Seq(Line \cup Message) /\ Len(u) \in Nat
    BY DEF InFlight
<1>2. /\ Append(u, m) \in Seq(Line \cup Message)
      /\ Len(Append(u, m)) = Len(u) + 1
    BY <1>1
<1>3. /\ \A i \in 1 .. Len(u) : Append(u, m)[i] = u[i]
      /\ Append(u, m)[Len(u) + 1] = m
    BY <1>1
<1>4. Len(u) + 1 > 4 - p
    BY <1>1 DEF InFlight
<1>5. ASSUME NEW i \in 1 .. Len(u) + 1
      PROVE  /\ i <= 4 - p => Append(u, m)[i] = Request[p + i]
             /\ i > 4 - p => Append(u, m)[i] \in Message
    <2>1. CASE i \in 1 .. Len(u)
        BY <1>3, <2>1 DEF InFlight
    <2>2. CASE i = Len(u) + 1
        BY <1>3, <1>4, <2>2
    <2> QED BY <1>1, <2>1, <2>2
<1> QED BY <1>1, <1>2, <1>4, <1>5 DEF InFlight

\* An answer the server adds, and one the client takes.
LEMMA GiveAnswer ==
    ASSUME NEW d, NEW n \in 0 .. 2, NEW r \in 0 .. n, Answers(d, n, r)
    PROVE  Answers(Append(d, Wanted[n + 1]), n + 1, r)
<1>1. d \in Seq(Replies) /\ Len(d) = n - r
    BY DEF Answers
<1>2. Wanted[n + 1] \in Replies
    BY DEF Wanted, Replies
<1>3. /\ Append(d, Wanted[n + 1]) \in Seq(Replies)
      /\ Len(Append(d, Wanted[n + 1])) = (n + 1) - r
      /\ \A i \in 1 .. Len(d) : Append(d, Wanted[n + 1])[i] = d[i]
      /\ Append(d, Wanted[n + 1])[Len(d) + 1] = Wanted[n + 1]
    BY <1>1, <1>2
<1>4. r + (Len(d) + 1) = n + 1
    BY <1>1
<1>5. ASSUME NEW i \in 1 .. (n + 1) - r
      PROVE  Append(d, Wanted[n + 1])[i] = Wanted[r + i]
    <2>1. CASE i \in 1 .. Len(d)
        BY <1>3, <2>1 DEF Answers
    <2>2. CASE i = Len(d) + 1
        BY <1>3, <1>4, <2>2
    <2> QED BY <1>1, <2>1, <2>2
<1> QED BY <1>3, <1>5 DEF Answers

LEMMA ReadAnswer ==
    ASSUME NEW d, NEW n \in 0 .. 3, NEW r \in 0 .. n, Answers(d, n, r),
           d # <<>>
    PROVE  r < n /\ Head(d) = Wanted[r + 1] /\ Answers(Tail(d), n, r + 1)
<1>1. d \in Seq(Replies) /\ Len(d) = n - r /\ Len(d) >= 1
    BY DEF Answers
<1>2. r < n /\ Head(d) = d[1] /\ d[1] = Wanted[r + 1]
    BY <1>1 DEF Answers
<1>3. Tail(d) \in Seq(Replies) /\ Len(Tail(d)) = n - (r + 1)
    BY <1>1
<1>4. \A i \in 1 .. Len(Tail(d)) : Tail(d)[i] = d[i + 1]
    BY <1>1, <1>3
<1>5. ASSUME NEW i \in 1 .. Len(Tail(d))
      PROVE  Tail(d)[i] = Wanted[(r + 1) + i]
    <2>1. i + 1 \in 1 .. Len(d)
        BY <1>1, <1>3
    <2>2. d[i + 1] = Wanted[r + (i + 1)] /\ r + (i + 1) = (r + 1) + i
        BY <2>1 DEF Answers
    <2> QED BY <1>4, <2>2
<1> QED BY <1>2, <1>3, <1>5 DEF Answers

-----------------------------------------------------------------------------
\* The server is always fed the line its state waits for.
LEMMA FeedsRequest ==
    ASSUME HonestInv, NEW line, Feed(line)
    PROVE  /\ client # "INIT"
           /\ Taken \in 0 .. 3
           /\ InFlight(up', Taken + 1)
           /\ state = "INIT" => line = Request[1]
           /\ state = "CHALLENGE" => line = Request[2]
           /\ state = "AUTHENTICATED" => line = Request[3]
           /\ state = "NEGOTIATED_FDS" => line = Request[4]
<1>1. client # "INIT" /\ InFlight(up, Taken)
    BY DEF HonestInv, Feed
<1>2. Taken \in 0 .. 3
    BY DEF HonestInv, Feed, Taken, States
<1>3. /\ Head(up) = Request[Taken + 1]
      /\ InFlight(up', Taken + 1)
    BY <1>1, <1>2, TakeLine DEF Feed
<1>4. line = Request[Taken + 1]
    BY <1>2, <1>3, RequestLines DEF Feed, AsLine
<1> QED BY <1>1, <1>2, <1>3, <1>4 DEF Taken

\* Every line of Request is what its state expects, and none of them ends or
\* violates the exchange.
LEMMA RequestIsExpected ==
    ASSUME HonestInv, NEW line, Feed(line)
    PROVE  /\ Expected(line)
           /\ ~Ends(line)
           /\ IsBegin(line) => state = "NEGOTIATED_FDS"
           /\ state = "INIT" => ~CarriesData(line) /\ Command(line) = "AUTH"
           /\ state = "CHALLENGE" => CarriesData(line)
           /\ state = "AUTHENTICATED" => MayNegotiate(line)
           /\ state = "NEGOTIATED_FDS" => IsBegin(line) /\ ~MayNegotiate(line)
           /\ state \in {"INIT", "CHALLENGE", "AUTHENTICATED", "NEGOTIATED_FDS"}
<1> USE DEF Expected, Ends, IsBegin, CarriesData, Command, MayNegotiate, NoArg,
            Unauthenticated, Authenticated, GoodData
<1>1. state \in {"INIT", "CHALLENGE", "AUTHENTICATED", "NEGOTIATED_FDS"}
    BY DEF HonestInv, States, Feed
<1>2. CASE state = "INIT"
    <2>1. line = [nul |-> TRUE, cmd |-> "AUTH", mech |-> "EXTERNAL", arg |-> "none"]
        BY <1>2, FeedsRequest DEF Request
    <2>2. line.nul /\ line.cmd = "AUTH" /\ line.mech = "EXTERNAL" /\ line.arg = "none"
        BY <2>1
    <2> QED BY <1>2, <2>2
<1>3. CASE state = "CHALLENGE"
    <2>1. line = Plain("DATA")
        BY <1>3, FeedsRequest DEF Request
    <2>2. ~line.nul /\ line.cmd = "DATA" /\ line.mech = "none" /\ line.arg = "none"
        BY <2>1 DEF Plain
    <2> QED BY <1>3, <2>2
<1>4. CASE state = "AUTHENTICATED"
    <2>1. line = Plain("NEGOTIATE_UNIX_FD")
        BY <1>4, FeedsRequest DEF Request
    <2>2. /\ ~line.nul /\ line.cmd = "NEGOTIATE_UNIX_FD"
          /\ line.mech = "none" /\ line.arg = "none"
        BY <2>1 DEF Plain
    <2> QED BY <1>4, <2>2
<1>5. CASE state = "NEGOTIATED_FDS"
    <2>1. line = Plain("BEGIN")
        BY <1>5, FeedsRequest DEF Request
    <2>2. ~line.nul /\ line.cmd = "BEGIN" /\ line.mech = "none" /\ line.arg = "none"
        BY <2>1 DEF Plain
    <2> QED BY <1>5, <2>2
<1> QED BY <1>1, <1>2, <1>3, <1>4, <1>5

\* The server's steps take the honest exchange from one stage to the next.
LEMMA HonestServerStep ==
    ASSUME SaslInv, HonestInv, Server
    PROVE  HonestInv'
<1> USE DEF HonestInv, States
<1>1. CASE Challenge
    <2>1. PICK line \in Line : Feed(line) /\ Command(line) = "AUTH"
                               /\ Unauthenticated /\ line.arg = "none"
        BY <1>1 DEF Challenge
    <2>2. state = "INIT" /\ client # "INIT" /\ InFlight(up', Taken + 1)
        BY <2>1, FeedsRequest DEF Unauthenticated
    <2>3. Taken = 0 /\ Given = 0 /\ Read = 0
        BY <2>2 DEF Taken, Given, Read
    <2>4. state' = "CHALLENGE" /\ down' = Append(down, Wanted[0 + 1])
        BY <1>1 DEF Challenge, Answer, Wanted
    <2>5. Answers(down', 0 + 1, 0)
        BY <2>2, <2>3, <2>4, GiveAnswer
    <2>6. Taken' = 1 /\ Given' = 1
        BY <2>4 DEF Taken, Given
    <2>7. UNCHANGED <<client, closed>> /\ Read' = 0
        BY <1>1, <2>3 DEF Challenge, Answer, Read
    <2> QED BY <2>2, <2>3, <2>4, <2>5, <2>6, <2>7
<1>2. CASE Accept
    <2>1. PICK line \in Line : Feed(line) /\ CarriesData(line)
        BY <1>2 DEF Accept
    <2>2. /\ state = "CHALLENGE" /\ client # "INIT"
          /\ InFlight(up', Taken + 1)
        BY <2>1, FeedsRequest, RequestIsExpected DEF CarriesData, Unauthenticated
    <2>3. Taken = 1 /\ Given = 1
        BY <2>2 DEF Taken, Given
    <2>4. Read \in 0 .. 1
        BY <2>2, <2>3 DEF Read
    <2>5. state' = "AUTHENTICATED" /\ down' = Append(down, Wanted[1 + 1])
        BY <1>2 DEF Accept, Answer, Wanted
    <2>6. Answers(down', 1 + 1, Read)
        BY <2>2, <2>3, <2>4, <2>5, GiveAnswer
    <2>7. Taken' = 2 /\ Given' = 2
        BY <2>5 DEF Taken, Given
    <2>8. UNCHANGED <<client, closed>> /\ Read' = Read
        BY <1>2 DEF Accept, Answer, Read
    <2> QED BY <2>2, <2>3, <2>4, <2>5, <2>6, <2>7, <2>8
<1>3. CASE Reject
    BY <1>3, RequestIsExpected DEF Reject
<1>4. CASE Negotiate
    <2>1. PICK line \in Line : Feed(line) /\ MayNegotiate(line)
        BY <1>4 DEF Negotiate
    <2>2. /\ state = "AUTHENTICATED" /\ client # "INIT"
          /\ InFlight(up', Taken + 1)
        BY <2>1, FeedsRequest, RequestIsExpected DEF MayNegotiate, Authenticated
    <2>3. Taken = 2 /\ Given = 2
        BY <2>2 DEF Taken, Given
    <2>4. Read \in 0 .. 2
        BY <2>2, <2>3 DEF Read
    <2>5. /\ state' = "NEGOTIATED_FDS" /\ fds_allowed' = TRUE
          /\ down' = Append(down, Wanted[2 + 1])
        BY <1>4 DEF Negotiate, Answer, Wanted
    <2>6. Answers(down', 2 + 1, Read)
        BY <2>2, <2>3, <2>4, <2>5, GiveAnswer
    <2>7. Taken' = 3 /\ Given' = 3
        BY <2>5 DEF Taken, Given
    <2>8. UNCHANGED <<client, closed>> /\ Read' = Read
        BY <1>4 DEF Negotiate, Answer, Read
    <2> QED BY <2>2, <2>3, <2>4, <2>5, <2>6, <2>7, <2>8
<1>5. CASE Begin
    <2>1. PICK line \in Line : Feed(line) /\ IsBegin(line)
        BY <1>5 DEF Begin
    <2>2. /\ state = "NEGOTIATED_FDS" /\ client # "INIT"
          /\ InFlight(up', Taken + 1)
        BY <2>1, FeedsRequest, RequestIsExpected
    <2>3. Taken = 3 /\ Given = 3
        BY <2>2 DEF Taken, Given
    <2>4. UNCHANGED <<client, closed, down, fds_allowed>> /\ state' = "DONE"
        BY <1>5 DEF Begin
    <2>5. Taken' = 4 /\ Given' = 3 /\ Read' = Read
        BY <2>4 DEF Taken, Given, Read
    <2>6. fds_allowed
        BY <2>2
    <2> QED BY <2>2, <2>3, <2>4, <2>5, <2>6
<1>6. CASE Violation
    BY <1>6, RequestIsExpected DEF Violation, MayBegin, Authenticated
<1>7. CASE Unknown
    BY <1>7, RequestIsExpected DEF Unknown, Unauthenticated
<1>8. CASE Receive
    <2>1. client # "INIT" /\ Taken = 4 /\ InFlight(up, 4) /\ up # <<>>
        BY <1>8 DEF Receive, Taken
    <2>2. Head(up) \in Message /\ InFlight(up', 4)
        BY <1>8, <2>1, TakeMessage DEF Receive
    <2>3. ~closed'
        BY <1>8, <2>2, MessageIsMessage DEF Receive
    <2>4. UNCHANGED <<state, fds_allowed, client, down>>
        BY <1>8 DEF Receive
    <2>5. UNCHANGED <<Taken, Given, Read>>
        BY <2>4 DEF Taken, Given, Read
    <2> QED BY <2>1, <2>2, <2>3, <2>4, <2>5
<1> QED BY <1>1, <1>2, <1>3, <1>4, <1>5, <1>6, <1>7, <1>8 DEF Server

\* So do the steps of the client.
LEMMA HonestClientStep ==
    ASSUME HonestInv, Honest,
           ClientOpen \/ ClientReads \/ ClientSendsMessage \/ ClientSendsLine
    PROVE  HonestInv'
<1> USE DEF HonestInv, States
<1>1. CASE ClientOpen
    <2>1. /\ client' = "AUTH" /\ up' = Request /\ down = <<>>
          /\ UNCHANGED <<state, fds_allowed, closed, down>> /\ state = "INIT"
        BY <1>1 DEF ClientOpen
    <2>2. Taken' = 0 /\ Given' = 0 /\ Read' = 0
        BY <2>1 DEF Taken, Given, Read
    <2>3. InFlight(up', 0)
        BY <2>1, RequestLines DEF InFlight
    <2>4. Answers(down', 0, 0)
        BY <2>1 DEF Answers
    <2> QED BY <2>1, <2>2, <2>3, <2>4
<1>2. CASE ClientReads
    <2>1. /\ down # <<>> /\ client \in {"AUTH", "DATA", "UNIX_FD"}
          /\ down' = Tail(down)
          /\ client' = IF Head(down) = Awaits[client] THEN After[client] ELSE "FAILED"
          /\ UNCHANGED <<state, fds_allowed, closed, up>>
        BY <1>2, Honest DEF ClientReads, Awaits
    <2>2. Given \in 0 .. 3 /\ Read \in 0 .. 2 /\ Given' = Given /\ Taken' = Taken
        BY <2>1 DEF Given, Taken, Read
    <2>3. /\ Read < Given /\ Head(down) = Wanted[Read + 1]
          /\ Answers(down', Given, Read + 1)
        BY <2>1, <2>2, ReadAnswer
    <2>4. Wanted[Read + 1] = Awaits[client]
        BY <2>1 DEF Wanted, Read, Awaits
    <2>5. client' = After[client] /\ Read' = Read + 1 /\ client' # "INIT"
          /\ client' \in {"DATA", "UNIX_FD", "DONE"}
        BY <2>1, <2>3, <2>4 DEF Read, After
    <2> QED BY <2>1, <2>2, <2>3, <2>5
<1>3. CASE ClientSendsMessage
    <2>1. PICK m \in Message : up' = Append(up, m)
        BY <1>3 DEF ClientSendsMessage
    <2>2. client # "INIT" /\ UNCHANGED <<state, fds_allowed, closed, client, down>>
        BY <1>3 DEF ClientSendsMessage
    <2>3. Taken \in 0 .. 4 /\ UNCHANGED <<Taken, Given, Read>>
        BY <2>2 DEF Taken, Given, Read
    <2>4. InFlight(up', Taken)
        BY <2>1, <2>2, <2>3, SendMessage
    <2> QED BY <2>2, <2>3, <2>4
<1>4. CASE ClientSendsLine
    BY <1>4 DEF ClientSendsLine
<1> QED BY <1>1, <1>2, <1>3, <1>4

\* Nobody turns honest on the way.
LEMMA HonestFromTheStart ==
    ASSUME Honest', Next, ~Honest
    PROVE  FALSE
<1> USE DEF Honest
<1>1. client = "ANY" /\ client' # "ANY"
    OBVIOUS
<1>2. CASE Server
    BY <1>1, <1>2 DEF Server, Challenge, Accept, Reject, Negotiate, Begin,
       Violation, Unknown, Receive, Answer
<1>3. CASE ClientOpen \/ ClientReads \/ ClientSendsMessage \/ ClientSendsLine
    BY <1>1, <1>3 DEF ClientOpen, ClientReads, ClientSendsMessage, ClientSendsLine
<1> QED BY <1>2, <1>3 DEF Next

\* The client of the repository, and its first messages with their
\* descriptors, are understood by the server however the two ends and the
\* queues between them are timed.
THEOREM HonestCorrect == Spec => []HonestIsUnderstood
<1> DEFINE Inv == SaslInv /\ (Honest => HonestInv)
<1>1. Init => Inv
    BY DEF Init, SaslInv, HonestInv, States, OnlyProvenUids, FdsOnlyWhenProven,
       Honest
<1>2. Inv /\ [Next]_vars => Inv'
    <2> SUFFICES ASSUME Inv, [Next]_vars PROVE Inv'
        OBVIOUS
    <2>1. SaslInv'
        BY ServerStep
    <2>2. ASSUME Honest' PROVE HonestInv'
        <3>1. Honest /\ HonestInv
            BY <2>2, HonestFromTheStart DEF vars, Honest
        <3>2. CASE Server
            BY <3>1, <3>2, HonestServerStep
        <3>3. CASE ClientOpen \/ ClientReads \/ ClientSendsMessage \/ ClientSendsLine
            BY <3>1, <3>3, HonestClientStep
        <3>4. CASE UNCHANGED vars
            BY <3>1, <3>4 DEF vars, HonestInv, Taken, Given, Read
        <3> QED BY <3>2, <3>3, <3>4 DEF Next
    <2> QED BY <2>1, <2>2
<1>3. Inv => HonestIsUnderstood
    BY DEF HonestInv, HonestIsUnderstood
<1> QED BY <1>1, <1>2, <1>3, PTL DEF Spec

-----------------------------------------------------------------------------
(***************************************************************************)
(* The event loop keeps its lists well formed, loses no event and calls no *)
(* file twice in a round, for every set of files, every mask and every     *)
(* number of calls a callback makes, be it that it frees its own file or   *)
(* selects events on it: until the loop links a file of which a callback   *)
(* has done the one or the other (see the run freed_in_callback).          *)
(*                                                                         *)
(* DInv is the inductive invariant.  What it adds to the properties: the   *)
(* file whose callback runs is not on the list of the round, nor is any    *)
(* file called in this round; and nothing runs on a broken list.           *)
(***************************************************************************)

\* The masks are kept for every file.
MasksKept ==
    /\ user_mask = [f \in Files |-> user_mask[f]]
    /\ events = [f \in Files |-> events[f]]

\* The two lists, as sets: disjoint, without duplicates, of registered files.
ListsApart ==
    ~broken =>
        /\ IsInjective(ready) /\ IsInjective(todo)
        /\ ToSet(ready) \cap ToSet(todo) = {}
        /\ ToSet(ready) \subseteq ToSet(files) /\ ToSet(todo) \subseteq ToSet(files)

\* A callback runs only while the loop does, and its file is not on the list
\* of the round; a broken list is not torn down.
RunningApart ==
    /\ running # NoFile => Runs /\ running \notin ToSet(todo)
    /\ broken => ~stopped

\* What is left of the round has not been called in it.
NotCalledYet == ToSet(todo) \cap called = {}

DInv ==
    /\ DTypeOK /\ MasksKept
    /\ PollSetExact
    /\ ListsApart
    /\ RunningApart
    /\ NotCalledYet
    /\ NoLostEvent

-----------------------------------------------------------------------------
(* The list operations *)

\* Filling the gap with the last element removes exactly one element.
LEMMA SwapRemoveElements ==
    ASSUME NEW A, NEW s \in Seq(A), NEW i \in DOMAIN s, IsInjective(s)
    PROVE  LET t == SwapRemove(s, i)
           IN  /\ t \in Seq(A)
               /\ Len(t) = Len(s) - 1
               /\ IsInjective(t)
               /\ ToSet(t) = ToSet(s) \ {s[i]}
<1> DEFINE n == Len(s)
           t == SwapRemove(s, i)
<1>1. n \in Nat /\ DOMAIN s = 1 .. n /\ i \in 1 .. n /\ n >= 1
  OBVIOUS
<1>2. ASSUME NEW u \in Seq(A), Len(u) = n
      PROVE  /\ SubSeq(u, 1, n - 1) \in Seq(A)
             /\ Len(SubSeq(u, 1, n - 1)) = n - 1
             /\ \A j \in 1 .. n - 1 : SubSeq(u, 1, n - 1)[j] = u[j]
  BY <1>2, <1>1
<1>3. /\ t \in Seq(A)
      /\ Len(t) = n - 1
      /\ \A j \in 1 .. n - 1 : t[j] = IF j = i THEN s[n] ELSE s[j]
  <2>1. CASE i < n
    <3> DEFINE u == [s EXCEPT ![i] = s[n]]
    <3>1. /\ u \in Seq(A) /\ Len(u) = n
          /\ \A j \in 1 .. n : u[j] = IF j = i THEN s[n] ELSE s[j]
      BY <1>1
    <3>2. t = SubSeq(u, 1, n - 1)
      BY <2>1, <3>1 DEF SwapRemove, Front, Last
    <3> HIDE DEF u, t, n
    <3>3. \A j \in 1 .. n - 1 : t[j] = u[j] /\ j \in 1 .. n
      BY <3>1, <3>2, <1>2, <1>1
    <3> QED BY <3>1, <3>2, <3>3, <1>2
  <2>2. CASE i = n
    <3>1. t = SubSeq(s, 1, n - 1)
      BY <2>2 DEF SwapRemove, Front
    <3> HIDE DEF t, n
    <3>2. s \in Seq(A) /\ Len(s) = n
      BY DEF n
    <3>3. \A j \in 1 .. n - 1 : t[j] = s[j] /\ j # i
      BY <3>1, <3>2, <1>2, <1>1, <2>2
    <3> QED BY <3>1, <3>2, <3>3, <1>2
  <2>3. i < n \/ i = n
    BY <1>1
  <2> HIDE DEF t, n
  <2> QED BY <2>1, <2>2, <2>3
<1> HIDE DEF t, n
<1>4. DOMAIN t = 1 .. n - 1
  BY <1>3
<1> DEFINE From(j) == IF j = i THEN n ELSE j
<1>5. \A j \in 1 .. n - 1 : /\ From(j) \in 1 .. n /\ From(j) # i
                            /\ t[j] = s[From(j)]
  BY <1>1, <1>3
<1>6. \A j, k \in 1 .. n - 1 : From(j) = From(k) => j = k
  BY <1>1
<1>7. \A k \in 1 .. n : k # i => \E j \in 1 .. n - 1 : From(j) = k
  <2> SUFFICES ASSUME NEW k \in 1 .. n, k # i
               PROVE  \E j \in 1 .. n - 1 : From(j) = k
    OBVIOUS
  <2>1. CASE k = n
    BY <2>1, <1>1
  <2>2. CASE k # n
    <3>1. k \in 1 .. n - 1 /\ From(k) = k
      BY <2>2, <1>1
    <3> QED BY <3>1
  <2> QED BY <2>1, <2>2
<1> HIDE DEF From
<1>8. IsInjective(t)
  BY <1>1, <1>4, <1>5, <1>6 DEF IsInjective
<1>9. ToSet(t) = ToSet(s) \ {s[i]}
  <2>1. ASSUME NEW x \in ToSet(t) PROVE x \in ToSet(s) \ {s[i]}
    BY <1>1, <1>4, <1>5 DEF ToSet, IsInjective
  <2>2. ASSUME NEW x \in ToSet(s) \ {s[i]} PROVE x \in ToSet(t)
    <3>1. PICK k \in 1 .. n : s[k] = x
      BY <1>1 DEF ToSet
    <3>2. PICK j \in 1 .. n - 1 : From(j) = k
      BY <3>1, <1>7
    <3> QED BY <3>1, <3>2, <1>4, <1>5 DEF ToSet
  <2> QED BY <2>1, <2>2
<1> QED BY <1>3, <1>8, <1>9 DEF t, n

\* Unlinking takes exactly the one file off a list.
LEMMA UnlinkElements ==
    ASSUME NEW s \in Seq(Files), NEW f
    PROVE  /\ Unlink(s, f) \in Seq(Files)
           /\ ToSet(Unlink(s, f)) = ToSet(s) \ {f}
           /\ IsInjective(s) => IsInjective(Unlink(s, f))
<1>1. ToSet(s) \subseteq Files
  BY DEF ToSet
<1>2. /\ Only(s, Files \ {f}) \in Seq(Files)
      /\ ToSet(Only(s, Files \ {f})) = ToSet(s) \cap (Files \ {f})
      /\ IsInjective(s) => IsInjective(Only(s, Files \ {f}))
  BY OnlyProps
<1> QED BY <1>1, <1>2 DEF Unlink

\* The list a round works off after poll(): every file with a selected event,
\* each once.
LEMMA MergedElements ==
    ASSUME DInv, ~broken, todo = <<>>, NEW revents
    PROVE  /\ Merged(revents) \in Seq(Files)
           /\ IsInjective(Merged(revents))
           /\ ToSet(Merged(revents)) \subseteq ToSet(files)
           /\ \A f \in Registered :
                 revents[f] \cap user_mask[f] # {} => f \in ToSet(Merged(revents))
<1> DEFINE keep == Registered \ Silent(revents)
           new == {f \in Registered : /\ revents[f] \cap user_mask[f] # {}
                                      /\ ~Linked(f)}
           s == Only(ready, keep)
           t == Only(files, new)
<1>1. /\ ready \in Seq(Files) /\ files \in Seq(Files)
      /\ IsInjective(ready) /\ IsInjective(files)
      /\ ToSet(ready) \subseteq Registered
      /\ Registered = ToSet(files)
  BY DEF DInv, DTypeOK, ListsApart, PollSetExact, Registered
<1>2. /\ s \in Seq(Files) /\ IsInjective(s)
      /\ ToSet(s) = ToSet(ready) \cap keep
  BY <1>1, OnlyProps
<1>3. /\ t \in Seq(Files) /\ IsInjective(t)
      /\ ToSet(t) = ToSet(files) \cap new
  BY <1>1, OnlyProps
<1>4. Merged(revents) = s \o t
  BY DEF Merged
<1>5. ToSet(s) \cap ToSet(t) = {}
  BY <1>2, <1>3 DEF Linked
<1> HIDE DEF s, t
<1>6. /\ s \o t \in Seq(Files)
      /\ ToSet(s \o t) = ToSet(s) \cup ToSet(t)
      /\ IsInjective(s \o t)
  BY <1>2, <1>3, <1>5, ConcatElements
<1>7. ToSet(todo) = {}
  BY EmptyElements
<1>8. ASSUME NEW f \in Registered, revents[f] \cap user_mask[f] # {}
      PROVE  f \in ToSet(s \o t)
  <2>1. revents[f] # {}
    BY <1>8
  <2>2. CASE f \in ToSet(ready)
    BY <2>1, <2>2, <1>2, <1>6 DEF Silent
  <2>3. CASE f \notin ToSet(ready)
    BY <2>3, <1>1, <1>3, <1>6, <1>7, <1>8 DEF Linked
  <2> QED BY <2>2, <2>3
<1> QED BY <1>1, <1>2, <1>3, <1>4, <1>6, <1>8

-----------------------------------------------------------------------------
(* Every step preserves DInv *)

\* Registered files are files.
LEMMA RegisteredFiles ==
    ASSUME DInv
    PROVE  Registered \subseteq Files
BY DEF DInv, DTypeOK, Registered, ToSet

\* The file joins the poll set; it is fresh, so that nothing is lost.
LEMMA FileInitStep ==
    ASSUME DInv, NEW f \in Files, FileInit(f)
    PROVE  DInv'
<1> USE DEF FileInit, MayCall, Runs
<1>1. /\ files' \in Seq(Files) /\ Len(files') = Len(files) + 1
      /\ ToSet(files') = ToSet(files) \cup {f} /\ IsInjective(files')
  BY AppendElements DEF DInv, DTypeOK, PollSetExact, Registered
<1>2. /\ MasksKept'
      /\ \A g \in Files : user_mask'[g] = IF g = f THEN InitMask[f] ELSE user_mask[g]
      /\ \A g \in Files : events'[g] = IF g = f THEN InitMask[f] ELSE events[g]
  BY DEF DInv, MasksKept
<1>3. DTypeOK'
  BY <1>1, <1>2, DispatchAssumption DEF DInv, DTypeOK
<1>4. PollSetExact'
  BY <1>1 DEF DInv, PollSetExact
<1>5. ListsApart' /\ RunningApart' /\ NotCalledYet'
  BY <1>1 DEF DInv, ListsApart, RunningApart, NotCalledYet
<1>6. NoLostEvent'
  <2>1. \A g \in Registered : g # f => (Pending(g)' <=> Pending(g))
    BY <1>2, RegisteredFiles DEF Pending
  <2>2. Registered' = Registered \cup {f} /\ f \in fresh'
    BY <1>1 DEF Registered
  <2> QED BY <2>1, <2>2 DEF DInv, NoLostEvent, Linked
<1> QED BY <1>3, <1>4, <1>5, <1>6, <1>2 DEF DInv

\* What dispatch_file_deinit() leaves behind: the file is nowhere any more.
LEMMA DeregisterStep ==
    ASSUME DInv, ~broken, NEW f \in Registered, Deregister(f),
           UNCHANGED <<running, stopped, broken, called>>, calls' \in 0 .. MaxCalls
    PROVE  DInv'
<1> USE DEF Runs
<1>1. PICK i \in DOMAIN files : files[i] = f /\ files' = SwapRemove(files, i)
  BY DEF Deregister
<1>2. /\ files' \in Seq(Files) /\ Len(files') = Len(files) - 1
      /\ ToSet(files') = ToSet(files) \ {f} /\ IsInjective(files')
  BY <1>1, SwapRemoveElements DEF DInv, DTypeOK, PollSetExact
<1>3. /\ ready' \in Seq(Files) /\ ToSet(ready') = ToSet(ready) \ {f}
      /\ IsInjective(ready')
  BY UnlinkElements DEF DInv, DTypeOK, ListsApart, Deregister
<1>4. /\ todo' \in Seq(Files) /\ ToSet(todo') = ToSet(todo) \ {f}
      /\ IsInjective(todo')
  BY UnlinkElements DEF DInv, DTypeOK, ListsApart, Deregister
<1>5. /\ user_mask' = [user_mask EXCEPT ![f] = {}]
      /\ events' = [events EXCEPT ![f] = {}]
      /\ fresh' = fresh \ {f}
      /\ n_files' = n_files - 1
  BY DEF Deregister
<1>6. n_files' = Len(files') /\ n_files' \in Nat
  BY <1>2, <1>5 DEF DInv, PollSetExact, DTypeOK
<1>7. /\ MasksKept'
      /\ \A g \in Files : user_mask'[g] = IF g = f THEN {} ELSE user_mask[g]
      /\ \A g \in Files : events'[g] = IF g = f THEN {} ELSE events[g]
  BY <1>5, RegisteredFiles DEF DInv, MasksKept
<1>8. DTypeOK'
  BY <1>2, <1>3, <1>4, <1>5, <1>6, <1>7 DEF DInv, DTypeOK
<1>9. PollSetExact'
  BY <1>2, <1>6 DEF PollSetExact
<1>10. ListsApart' /\ RunningApart' /\ NotCalledYet'
  BY <1>2, <1>3, <1>4 DEF DInv, ListsApart, RunningApart, NotCalledYet
<1>11. NoLostEvent'
  <2>1. Registered' = Registered \ {f}
    BY <1>2 DEF Registered
  <2>2. \A g \in Registered' : Pending(g)' <=> Pending(g)
    BY <2>1, <1>7, RegisteredFiles DEF Pending
  <2> QED BY <2>1, <2>2, <1>3, <1>4, <1>5 DEF DInv, NoLostEvent, Linked
<1> QED BY <1>8, <1>9, <1>10, <1>11, <1>7 DEF DInv

\* A file with a pending event is put on the ready list unless it is on one.
LEMMA FileSelectStep ==
    ASSUME DInv, NEW f \in Files, NEW chosen \in SUBSET KernelMask[f],
           FileSelect(f, chosen)
    PROVE  DInv'
<1> USE DEF FileSelect, MayCall, Runs
<1> DEFINE pending == events[f] \cap (user_mask[f] \cup chosen) # {}
<1>1. /\ ready' \in Seq(Files)
      /\ ToSet(ready') = IF pending /\ ~Linked(f) THEN ToSet(ready) \cup {f}
                         ELSE ToSet(ready)
      /\ IsInjective(ready')
  <2>1. ready \in Seq(Files) /\ IsInjective(ready)
    BY DEF DInv, DTypeOK, ListsApart
  <2>2. CASE pending /\ ~Linked(f)
    <3>1. ready' = Append(ready, f) /\ f \notin ToSet(ready)
      BY <2>2 DEF Linked
    <3> QED BY <2>1, <2>2, <3>1, AppendElements
  <2>3. CASE ~(pending /\ ~Linked(f))
    BY <2>1, <2>3
  <2> QED BY <2>2, <2>3
<1>2. /\ MasksKept'
      /\ \A g \in Files : user_mask'[g] = IF g = f THEN user_mask[f] \cup chosen
                                          ELSE user_mask[g]
  BY DEF DInv, MasksKept
<1>3. DTypeOK'
  BY <1>1, <1>2, DispatchAssumption DEF DInv, DTypeOK
<1>4. PollSetExact'
  BY DEF DInv, PollSetExact
<1>5. ListsApart' /\ RunningApart' /\ NotCalledYet'
  BY <1>1 DEF DInv, ListsApart, RunningApart, NotCalledYet, Registered, Linked
<1>6. NoLostEvent'
  <2>1. \A g \in Registered : g # f => (Pending(g)' <=> Pending(g))
    BY <1>2, RegisteredFiles DEF Pending
  <2>2. Pending(f)' => Linked(f)'
    BY <1>1, <1>2 DEF Pending, Linked
  <2>3. \A g \in Registered : Linked(g) => Linked(g)'
    BY <1>1 DEF Linked
  <2> QED BY <2>1, <2>2, <2>3 DEF DInv, NoLostEvent, Registered
<1> QED BY <1>3, <1>4, <1>5, <1>6, <1>2 DEF DInv

\* Deselecting and clearing concern the running file, which leaves its list
\* when nothing of it is pending.
LEMMA RunningMasksStep ==
    ASSUME DInv, NEW f \in Files, f = running, Runs,
           calls' \in 0 .. MaxCalls,
           user_mask' = [user_mask EXCEPT ![f] = user_mask'[f]],
           events' = [events EXCEPT ![f] = events'[f]],
           user_mask'[f] \subseteq KernelMask[f], events'[f] \subseteq KernelMask[f],
           UnlinkIdle(f, user_mask'[f], events'[f]),
           UNCHANGED <<files, n_files, running, stopped, broken, called,
                     fresh>>
    PROVE  DInv'
<1> USE DEF Runs
<1>1. /\ ready' \in Seq(Files) /\ IsInjective(ready')
      /\ ToSet(ready') = ToSet(ready) \/ ToSet(ready') = ToSet(ready) \ {f}
  <2>1. ready \in Seq(Files) /\ IsInjective(ready)
    BY DEF DInv, DTypeOK, ListsApart
  <2>2. ready' = Unlink(ready, f) \/ ready' = ready
    BY DEF UnlinkIdle
  <2> QED BY <2>1, <2>2, UnlinkElements
<1>2. /\ todo' \in Seq(Files) /\ IsInjective(todo')
      /\ ToSet(todo') = ToSet(todo) \/ ToSet(todo') = ToSet(todo) \ {f}
  <2>1. todo \in Seq(Files) /\ IsInjective(todo)
    BY DEF DInv, DTypeOK, ListsApart
  <2>2. todo' = Unlink(todo, f) \/ todo' = todo
    BY DEF UnlinkIdle
  <2> QED BY <2>1, <2>2, UnlinkElements
<1>3. MasksKept'
  BY DEF DInv, MasksKept
<1>4. \A g \in Files : g # f => user_mask'[g] = user_mask[g] /\ events'[g] = events[g]
  BY DEF DInv, MasksKept
<1>5. DTypeOK'
  BY <1>1, <1>2, <1>4 DEF DInv, DTypeOK
<1>6. PollSetExact' /\ ListsApart' /\ RunningApart' /\ NotCalledYet'
  BY <1>1, <1>2 DEF DInv, PollSetExact, ListsApart, RunningApart, NotCalledYet
<1>7. NoLostEvent'
  <2>1. Registered' = Registered /\ Registered \subseteq Files
    BY DEF Registered, DInv, DTypeOK, ToSet
  <2>2. \A g \in Registered : g # f => (Pending(g)' <=> Pending(g))
    BY <1>4, <2>1 DEF Pending
  <2> QED BY <2>1, <2>2, <1>1, <1>2 DEF DInv, NoLostEvent, Linked
<1> QED BY <1>3, <1>5, <1>6, <1>7 DEF DInv

\* A round starts with what poll() found.
LEMMA PollStep ==
    ASSUME DInv, Poll
    PROVE  DInv'
<1> USE DEF Poll, Runs
<1>1. PICK revents \in [Registered -> SUBSET (UNION {KernelMask[f] : f \in Files})] :
          /\ \A f \in Registered : revents[f] \subseteq user_mask[f] \cup Unasked
          /\ events' = Fetched(revents)
          /\ todo' = Merged(revents)
  BY DEF Poll
<1>2. /\ todo' \in Seq(Files) /\ IsInjective(todo')
      /\ ToSet(todo') \subseteq ToSet(files)
      /\ \A f \in Registered :
            revents[f] \cap user_mask[f] # {} => f \in ToSet(todo')
  BY <1>1, MergedElements
<1>3. ready' = <<>> /\ ToSet(ready') = {} /\ IsInjective(ready') /\ ready' \in Seq(Files)
  BY EmptyElements
<1>4. /\ events' = [f \in Files |-> events'[f]]
      /\ \A f \in Files : events'[f] = IF f \in Registered
                                       THEN revents[f] \cap user_mask[f]
                                       ELSE events[f]
  BY <1>1 DEF Fetched
<1>5. \A f \in Files : events'[f] \subseteq KernelMask[f]
  BY <1>4 DEF DInv, DTypeOK
<1>6. DTypeOK' /\ MasksKept'
  BY <1>2, <1>3, <1>4, <1>5 DEF DInv, DTypeOK, MasksKept
<1>7. PollSetExact' /\ ListsApart' /\ RunningApart' /\ NotCalledYet'
  BY <1>2, <1>3 DEF DInv, PollSetExact, ListsApart, RunningApart, NotCalledYet
<1>8. NoLostEvent'
  <2> SUFFICES ASSUME NEW f \in Registered', Pending(f)' PROVE Linked(f)'
    BY DEF NoLostEvent
  <2>1. f \in Registered /\ f \in Files
    BY RegisteredFiles DEF Registered
  <2>2. revents[f] \cap user_mask[f] # {}
    BY <2>1, <1>4 DEF Pending
  <2> QED BY <2>1, <2>2, <1>2 DEF Linked
<1> QED BY <1>6, <1>7, <1>8 DEF DInv

\* A round starts with what was ready before.
LEMMA PollInterruptedStep ==
    ASSUME DInv, PollInterrupted
    PROVE  DInv'
<1> USE DEF PollInterrupted, Runs
<1>1. ready' = <<>> /\ ToSet(ready') = {} /\ IsInjective(ready') /\ ready' \in Seq(Files)
  BY EmptyElements
<1>2. ToSet(todo) = {}
  BY EmptyElements
<1>3. DTypeOK' /\ MasksKept'
  BY <1>1 DEF DInv, DTypeOK, MasksKept
<1>4. PollSetExact' /\ ListsApart' /\ RunningApart' /\ NotCalledYet'
  BY <1>1 DEF DInv, PollSetExact, ListsApart, RunningApart, NotCalledYet
<1>5. NoLostEvent'
  BY <1>1, <1>2 DEF DInv, NoLostEvent, Linked, Registered, Pending
<1> QED BY <1>3, <1>4, <1>5 DEF DInv

\* The loop ends; nothing moves.
LEMMA PollFailsStep ==
    ASSUME DInv, PollFails
    PROVE  DInv'
BY DEF PollFails, Runs, DInv, DTypeOK, MasksKept, PollSetExact, ListsApart,
       RunningApart, NotCalledYet, NoLostEvent

\* The first file of the round's list is called: it is on no list then.
LEMMA TakeStep ==
    ASSUME DInv, Take
    PROVE  DInv' /\ running' = Head(todo) /\ Head(todo) \notin called
<1> USE DEF Take, Runs
<1> DEFINE file == Head(todo)
<1>1. todo \in Seq(Files) /\ IsInjective(todo)
  BY DEF DInv, DTypeOK, ListsApart
<1>2. file \in ToSet(todo)
  <2>1. 1 \in DOMAIN todo /\ file = todo[1]
    BY <1>1
  <2> QED BY <2>1 DEF ToSet
<1>3. file \in Registered /\ file \in Files /\ file \notin ToSet(ready) /\ file \notin called
  BY <1>2, RegisteredFiles DEF DInv, ListsApart, NotCalledYet, Registered
<1>4. todo' = Unlink(todo, file) /\ running' = file /\ called' = called \cup {file}
  BY <1>3
<1>5. todo' \in Seq(Files) /\ IsInjective(todo') /\ ToSet(todo') = ToSet(todo) \ {file}
  BY <1>1, <1>4, UnlinkElements
<1> HIDE DEF file
<1>6. DTypeOK' /\ MasksKept'
  BY <1>3, <1>4, <1>5, DispatchAssumption DEF DInv, DTypeOK, MasksKept
<1>7. PollSetExact' /\ ListsApart' /\ RunningApart' /\ NotCalledYet'
  BY <1>3, <1>4, <1>5
     DEF DInv, PollSetExact, ListsApart, RunningApart, NotCalledYet, Registered
<1>8. NoLostEvent'
  <2>1. \A f : (Pending(f)' <=> Pending(f)) /\ (Linked(f) => Linked(f)' \/ f = running')
    BY <1>4, <1>5 DEF Pending, Linked
  <2>2. running \notin Registered
    BY RegisteredFiles, DispatchAssumption
  <2> QED BY <2>1, <2>2 DEF DInv, NoLostEvent, Registered
<1> QED BY <1>3, <1>4, <1>6, <1>7, <1>8 DEF DInv, file

\* A file with more to do waits for the next round.
LEMMA ReturnStep ==
    ASSUME DInv, Return
    PROVE  DInv'
<1> USE DEF Return, Runs
<1>1. PICK more \in BOOLEAN :
          /\ running \in Registered => more = Pending(running)
          /\ ready' = IF more THEN Append(ready, running) ELSE ready
          /\ broken' = (more /\ (running \notin Registered \/ Linked(running)))
  BY DEF Return
<1>2. /\ running \in Files /\ running \notin ToSet(todo) /\ running' = NoFile
      /\ ~broken /\ ~stopped'
  BY DEF DInv, DTypeOK, RunningApart
<1>3. /\ ready' \in Seq(Files)
      /\ ToSet(ready') = IF more THEN ToSet(ready) \cup {running} ELSE ToSet(ready)
      /\ running \notin ToSet(ready) => IsInjective(ready')
      /\ ~more => IsInjective(ready')
  <2>1. ready \in Seq(Files) /\ IsInjective(ready)
    BY <1>2 DEF DInv, DTypeOK, ListsApart
  <2>2. CASE more
    BY <2>1, <2>2, <1>1, <1>2, AppendElements
  <2>3. CASE ~more
    BY <2>1, <2>3, <1>1
  <2> QED BY <2>2, <2>3
<1>4. DTypeOK' /\ MasksKept'
  BY <1>1, <1>3 DEF DInv, DTypeOK, MasksKept
<1>5. PollSetExact' /\ RunningApart' /\ NotCalledYet'
  BY <1>2 DEF DInv, PollSetExact, RunningApart, NotCalledYet
<1>6. ListsApart'
  BY <1>1, <1>2, <1>3 DEF DInv, ListsApart, Registered, Linked
<1>7. NoLostEvent'
  <2>1. \A f : Pending(f)' <=> Pending(f)
    BY DEF Pending
  <2> QED BY <2>1, <1>1, <1>3 DEF DInv, NoLostEvent, Linked, Registered
<1> QED BY <1>4, <1>5, <1>6, <1>7 DEF DInv

\* The rest of the round goes back to the ready list.
LEMMA ReturnErrorStep ==
    ASSUME DInv, ReturnError
    PROVE  DInv'
<1> USE DEF ReturnError, Runs
<1>1. /\ ready \in Seq(Files) /\ todo \in Seq(Files)
      /\ IsInjective(ready) /\ IsInjective(todo) /\ ToSet(ready) \cap ToSet(todo) = {}
  BY DEF DInv, DTypeOK, ListsApart
<1>2. /\ ready' \in Seq(Files) /\ IsInjective(ready')
      /\ ToSet(ready') = ToSet(ready) \cup ToSet(todo)
  BY <1>1, ConcatElements
<1>3. todo' = <<>> /\ ToSet(todo') = {} /\ IsInjective(todo') /\ todo' \in Seq(Files)
  BY EmptyElements
<1>4. DTypeOK' /\ MasksKept'
  BY <1>2, <1>3 DEF DInv, DTypeOK, MasksKept
<1>5. PollSetExact' /\ ListsApart' /\ RunningApart' /\ NotCalledYet'
  BY <1>2, <1>3 DEF DInv, PollSetExact, ListsApart, RunningApart, NotCalledYet
<1>6. NoLostEvent'
  BY DEF NoLostEvent
<1> QED BY <1>4, <1>5, <1>6 DEF DInv

\* The calls of a callback.
LEMMA CallStep ==
    ASSUME DInv, NEW f \in Files, Call(f)
    PROVE  DInv' /\ running' = running
<1>1. CASE FileInit(f)
  BY <1>1, FileInitStep DEF FileInit
<1>2. CASE FileDeinit(f)
  <2>1. f \in Registered /\ ~broken
    BY <1>2 DEF FileDeinit, MayCall, Runs
  <2>2. calls' \in 0 .. MaxCalls
    BY <1>2, DispatchAssumption DEF FileDeinit, MayCall, DInv, DTypeOK
  <2> QED BY <1>2, <2>1, <2>2, DeregisterStep DEF FileDeinit
<1>3. ASSUME NEW chosen \in SUBSET KernelMask[f] \ {{}}, FileSelect(f, chosen)
      PROVE  DInv' /\ running' = running
  <2>1. chosen \in SUBSET KernelMask[f]
    OBVIOUS
  <2> QED BY <1>3, <2>1, FileSelectStep DEF FileSelect
<1>4. ASSUME NEW chosen \in SUBSET KernelMask[f] \ {{}}, FileDeselect(f, chosen)
      PROVE  DInv' /\ running' = running
  <2>1. /\ user_mask' = [user_mask EXCEPT ![f] = user_mask[f] \ chosen]
        /\ UnlinkIdle(f, user_mask[f] \ chosen, events[f])
        /\ UNCHANGED <<files, n_files, events, running, stopped, broken, called,
                       fresh>>
        /\ f = running /\ Runs
    BY <1>4 DEF FileDeselect, MayCall
  <2>2. calls' \in 0 .. MaxCalls
    BY <1>4, DispatchAssumption DEF FileDeselect, MayCall, DInv, DTypeOK
  <2>3. user_mask'[f] = user_mask[f] \ chosen /\ events'[f] = events[f]
    BY <2>1 DEF DInv, MasksKept
  <2>4. events' = [events EXCEPT ![f] = events'[f]]
    BY <2>1 DEF DInv, MasksKept
  <2>5. user_mask'[f] \subseteq KernelMask[f] /\ events'[f] \subseteq KernelMask[f]
    BY <2>3 DEF DInv, DTypeOK
  <2> QED BY <2>1, <2>2, <2>3, <2>4, <2>5, RunningMasksStep
<1>5. ASSUME NEW chosen \in SUBSET KernelMask[f] \ {{}}, FileClear(f, chosen)
      PROVE  DInv' /\ running' = running
  <2>1. /\ events' = [events EXCEPT ![f] = events[f] \ chosen]
        /\ UnlinkIdle(f, user_mask[f], events[f] \ chosen)
        /\ UNCHANGED <<files, n_files, user_mask, running, stopped, broken, called,
                       fresh>>
        /\ f = running /\ Runs
    BY <1>5 DEF FileClear, MayCall
  <2>2. calls' \in 0 .. MaxCalls
    BY <1>5, DispatchAssumption DEF FileClear, MayCall, DInv, DTypeOK
  <2>3. user_mask'[f] = user_mask[f] /\ events'[f] = events[f] \ chosen
    BY <2>1 DEF DInv, MasksKept
  <2>4. user_mask' = [user_mask EXCEPT ![f] = user_mask'[f]]
    BY <2>1 DEF DInv, MasksKept
  <2>5. user_mask'[f] \subseteq KernelMask[f] /\ events'[f] \subseteq KernelMask[f]
    BY <2>3 DEF DInv, DTypeOK
  <2> QED BY <2>1, <2>2, <2>3, <2>4, <2>5, RunningMasksStep
<1> QED BY <1>1, <1>2, <1>3, <1>4, <1>5 DEF Call

\* Every step of the loop preserves DInv, and only Take starts a callback.
LEMMA DispatchStep ==
    ASSUME DInv, [DNext]_dvars
    PROVE  /\ DInv'
           /\ running' # NoFile /\ running' # running => running' \notin called
<1>1. ASSUME NEW f \in Files, Call(f)
      PROVE  DInv' /\ running' = running
  BY <1>1, CallStep
<1>2. ASSUME NEW f \in Files, Teardown(f)
      PROVE  DInv' /\ running' = running
  <2>1. ~broken /\ f \in Registered
    BY <1>2 DEF Teardown, DInv, RunningApart
  <2>2. calls' \in 0 .. MaxCalls
    BY <1>2, DispatchAssumption DEF Teardown, DInv, DTypeOK
  <2> QED BY <1>2, <2>1, <2>2, DeregisterStep DEF Teardown
<1>3. CASE Poll
  BY <1>3, PollStep DEF Poll
<1>4. CASE PollInterrupted
  BY <1>4, PollInterruptedStep DEF PollInterrupted
<1>5. CASE PollFails
  BY <1>5, PollFailsStep DEF PollFails
<1>6. CASE Take
  BY <1>6, TakeStep
<1>7. CASE Return
  BY <1>7, ReturnStep DEF Return
<1>8. CASE ReturnError
  BY <1>8, ReturnErrorStep DEF ReturnError
<1>9. CASE UNCHANGED dvars
  BY <1>9 DEF dvars, DInv, DTypeOK, MasksKept, PollSetExact, ListsApart, RunningApart,
              NotCalledYet, NoLostEvent, Linked, Registered, Pending, Runs
<1> QED BY <1>1, <1>2, <1>3, <1>4, <1>5, <1>6, <1>7, <1>8, <1>9 DEF DNext

\* The loop starts with the controller's file, which is ready.
LEMMA DispatchInit == DInit => DInv
<1> SUFFICES ASSUME DInit PROVE DInv
  OBVIOUS
<1> USE DEF DInit, Runs
<1>1. /\ files \in Seq(Files) /\ Len(files) = 1 /\ IsInjective(files)
      /\ ToSet(files) = {Controller} /\ files = ready
  BY DispatchAssumption DEF IsInjective, ToSet
<1>2. todo = <<>> /\ ToSet(todo) = {} /\ IsInjective(todo) /\ todo \in Seq(Files)
  BY EmptyElements
<1>3. DTypeOK /\ MasksKept
  <2>1. MasksKept
    BY DEF MasksKept
  <2>2. \A f \in Files : user_mask[f] \subseteq KernelMask[f] /\ events[f] \subseteq KernelMask[f]
    BY DispatchAssumption
  <2>3. n_files \in Nat /\ calls \in 0 .. MaxCalls
    BY DispatchAssumption
  <2>4. /\ stopped \in BOOLEAN /\ broken \in BOOLEAN /\ running \in Files \cup {NoFile}
        /\ called \subseteq Files /\ fresh \subseteq Files
    BY DispatchAssumption
  <2> QED BY <2>1, <2>2, <2>3, <2>4, <1>1, <1>2 DEF DTypeOK
<1>4. PollSetExact /\ ListsApart /\ RunningApart /\ NotCalledYet
  BY <1>1, <1>2 DEF PollSetExact, ListsApart, RunningApart, NotCalledYet
<1>5. NoLostEvent
  BY <1>1 DEF NoLostEvent, Registered
<1> QED BY <1>3, <1>4, <1>5 DEF DInv

\* DInv implies the properties of the runs.
LEMMA DispatchSound == DInv => ListsSound
<1> SUFFICES ASSUME DInv PROVE ListsSound
  OBVIOUS
<1>1. ready \in Seq(Files) /\ todo \in Seq(Files)
  BY DEF DInv, DTypeOK
<1>2. ~broken => LinkedOnce
  BY <1>1, ConcatElements DEF DInv, ListsApart, LinkedOnce
<1>3. ~broken => LinkedRegistered
  BY DEF DInv, ListsApart, LinkedRegistered, Linked, Registered
<1> QED BY <1>2, <1>3 DEF DInv, ListsSound

-----------------------------------------------------------------------------
\* The poll set, the ready list and the list of the round stay well formed,
\* whatever the callbacks of a round register, free, select and clear, until
\* dispatch_context_dispatch() links a file its callback freed or linked.
THEOREM DispatchListsSound == DSpec => []ListsSound
<1>1. DInv /\ [DNext]_dvars => DInv'
  BY DispatchStep
<1> QED BY <1>1, DispatchInit, DispatchSound, PTL DEF DSpec

\* No pending event is forgotten: its file is on a list, runs, or has not been
\* polled yet.
THEOREM DispatchLosesNoEvent == DSpec => []NoLostEvent
<1>1. DInv /\ [DNext]_dvars => DInv'
  BY DispatchStep
<1>2. DInv => NoLostEvent
  BY DEF DInv
<1> QED BY <1>1, <1>2, DispatchInit, PTL DEF DSpec

\* A round of dispatch_context_dispatch() calls no file twice.
THEOREM DispatchOncePerRound == DSpec => OncePerRound
<1>1. DInv /\ [DNext]_dvars => DInv'
  BY DispatchStep
<1>2. DInv /\ [DNext]_dvars =>
        [running' # NoFile /\ running' # running => running' \notin called]_dvars
  BY DispatchStep
<1> QED BY <1>1, <1>2, DispatchInit, PTL DEF DSpec, OncePerRound

-----------------------------------------------------------------------------
(***************************************************************************)
(* Proofs about Socket, for any messages of any length, any number of them *)
(* in either direction, and any batch the kernel may take: a peer is freed *)
(* when and only when nothing is left of its connection, and what arrives  *)
(* at either end is what the other end sent, in order.                     *)
(*                                                                         *)
(* The first needs to know what is left to do of a callback: it ends only  *)
(* after the input was found drained, and a hangup noticed there leads to  *)
(* the goodbye.  For the second, what was written followed by what is left *)
(* in the queue is all that was accepted.                                  *)
(***************************************************************************)

-----------------------------------------------------------------------------
(* The inductive invariant *)

Buffers == [msg : Messages, left : Nat \ {0}]

Sockets ==
    [hup_in : BOOLEAN, hup_out : BOOLEAN, shutdown : BOOLEAN, reset : BOOLEAN,
     in : Seq(Token), out : Seq(Buffers), pending : Seq(WithFds)]

\* What holds of a Socket whatever is done with it.
SocketSound(s) ==
    /\ s \in Sockets
    /\ \A i \in 1 .. Len(s.out) : s.out[i].left <= Length[s.out[i].msg]
    /\ s.hup_out => s.out = <<>>
    /\ s.hup_in => s.in = <<>>
    /\ s.shutdown /\ s.out = <<>> => s.hup_out
    /\ s.reset => s.hup_in /\ s.hup_out /\ s.pending = <<>>

Written(s) == s.out = <<>> /\ s.pending = <<>>

\* What may be left of a callback: input before output, and the input queue is
\* drained after either.
Remainders ==
    {<<>>, <<"dequeue">>, <<"OUT", "dequeue">>, <<"dequeue", "OUT", "dequeue">>,
     <<"IN", "dequeue">>, <<"IN", "dequeue", "OUT", "dequeue">>,
     <<"HUP", "dequeue">>, <<"HUP", "dequeue", "OUT", "dequeue">>,
     <<"IN", "HUP", "dequeue">>, <<"IN", "HUP", "dequeue", "OUT", "dequeue">>,
     <<"eof">>, <<"close">>}

\* What is known of the socket when this is left.
StepsSound ==
    /\ steps \in Remainders
    /\ freed => steps = <<>> /\ sock.reset
    /\ ~Written(sock) => "OUT" \in mask
    /\ steps = <<>> /\ sock.reset => freed
    /\ ~freed /\ steps \in {<<>>, <<"OUT", "dequeue">>} /\ sock.hup_in => ~Written(sock)
    /\ steps = <<"eof">> => /\ sock.hup_in
                            /\ sock.hup_out /\ sock.pending = <<>> => sock.reset

\* The numbers of what is received, and of what is under way, go on where those
\* of what was handled end, until the input is given up.
InputOrdered ==
    ~sock.hup_in /\ steps # <<"close">> =>
        /\ n_sent = Len(handled) + Len(sock.in) + Len(inbox)
        /\ \A i \in 1 .. Len(sock.in) : sock.in[i].id = Len(handled) + i
        /\ \A i \in 1 .. Len(inbox) : inbox[i].id = Len(handled) + Len(sock.in) + i

\* All that the queue out will still write.
Rests(out) == [i \in 1 .. Len(out) |-> Pieces(out[i].msg, out[i].left, out[i].left)]
Wholes(ms) == [i \in 1 .. Len(ms) |-> Pieces(ms[i], Length[ms[i]], Length[ms[i]])]

\* Nothing was sent behind a message sent in part: what was written, and what is
\* left to write, is what was accepted.
OutputOrdered ==
    ~overtaken =>
        /\ cut => InSequence
        /\ ~cut => wire \o FlattenSeq(Rests(sock.out)) = AllPieces

\* A piece of a message was written, or is left to write.
Covered(w, out, m, k) ==
    \/ <<m, k>> \in ToSet(w)
    \/ \E j \in 1 .. Len(out) : out[j].msg = m /\ k > Length[m] - out[j].left

\* Nothing is lost as long as writing does not fail.
OutputKept ==
    ~cut => \A m \in Queued : \A k \in 1 .. Length[m] :
                Covered(wire, sock.out, m, k)

\* Output is given up only by a socket whose output has ended.
CutEnds == cut => sock.hup_out

\* Released when done.
ReleaseInv == STypeOK /\ SocketSound(sock) /\ StepsSound

\* ... and the streams are intact.
StreamInv ==
    /\ ReleaseInv
    /\ InOrder /\ InputOrdered
    /\ OutputOrdered /\ OutputKept /\ CutEnds

-----------------------------------------------------------------------------
(* The functions of socket.c *)

\* socket_might_reset() changes nothing but the flag, and sets it if and only if
\* both directions are done for.
LEMMA MightResetFields ==
    ASSUME NEW s \in Sockets
    PROVE  LET t == MightReset(s) IN
           /\ t \in Sockets
           /\ t.hup_in = s.hup_in /\ t.hup_out = s.hup_out
           /\ t.shutdown = s.shutdown
           /\ t.in = s.in /\ t.out = s.out /\ t.pending = s.pending
           /\ t.reset = (s.reset \/ (s.hup_in /\ s.hup_out /\ s.pending = <<>>
                                     /\ s.in = <<>>))
<1> DEFINE D == s.hup_in /\ s.hup_out /\ s.pending = <<>> /\ s.in = <<>>
<1>1. CASE D
  BY <1>1 DEF MightReset, Sockets
<1>2. CASE ~D
  BY <1>2 DEF MightReset, Sockets
<1> QED BY <1>1, <1>2

\* It keeps a socket sound.
LEMMA MightResetSound ==
    ASSUME NEW s, SocketSound(s)
    PROVE  SocketSound(MightReset(s))
<1> DEFINE t == MightReset(s)
<1>1. /\ t \in Sockets
      /\ t.hup_in = s.hup_in /\ t.hup_out = s.hup_out
      /\ t.shutdown = s.shutdown
      /\ t.in = s.in /\ t.out = s.out /\ t.pending = s.pending
      /\ t.reset = (s.reset \/ (s.hup_in /\ s.hup_out /\ s.pending = <<>>
                                /\ s.in = <<>>))
  BY MightResetFields DEF SocketSound
<1> HIDE DEF t
<1>2. SocketSound(t)
  BY <1>1 DEF SocketSound
<1> QED BY <1>2 DEF t

\* socket_hangup_input() on a drained input queue: nothing else changes.
LEMMA HangupInputSound ==
    ASSUME NEW s, SocketSound(s), s.in = <<>>
    PROVE  LET t == HangupInput(s) IN
           /\ SocketSound(t)
           /\ t.hup_in
           /\ t.in = s.in /\ t.out = s.out /\ t.pending = s.pending
           /\ t.hup_out = s.hup_out /\ t.shutdown = s.shutdown
<1>1. CASE s.hup_in
  BY <1>1 DEF HangupInput
<1>2. CASE ~s.hup_in
  <2> DEFINE u == [s EXCEPT !.hup_in = TRUE]
             t == MightReset(u)
  <2>1. /\ SocketSound(u)
        /\ u.hup_in
        /\ u.in = s.in /\ u.out = s.out /\ u.pending = s.pending
        /\ u.hup_out = s.hup_out /\ u.shutdown = s.shutdown
    BY <1>2 DEF SocketSound, Sockets
  <2> HIDE DEF u
  <2>2. SocketSound(t)
    BY <2>1, MightResetSound
  <2>3. /\ t.hup_in = u.hup_in /\ t.in = u.in /\ t.out = u.out
        /\ t.pending = u.pending
        /\ t.hup_out = u.hup_out /\ t.shutdown = u.shutdown
    BY <2>1, MightResetFields DEF SocketSound
  <2>4. HangupInput(s) = t
    BY <1>2 DEF HangupInput, u
  <2> HIDE DEF t
  <2> QED BY <2>1, <2>2, <2>3, <2>4
<1> QED BY <1>1, <1>2

\* socket_hangup_output(): the output queue is dropped, nothing else.
LEMMA HangupOutputSound ==
    ASSUME NEW s, SocketSound(s)
    PROVE  LET t == HangupOutput(s) IN
           /\ SocketSound(t)
           /\ t.hup_out
           /\ t.out = <<>>
           /\ t.in = s.in /\ t.pending = s.pending
           /\ t.hup_in = s.hup_in /\ t.shutdown = s.shutdown
           /\ t.reset = (s.reset \/ (~s.hup_out /\ s.hup_in /\ s.pending = <<>>))
<1>1. CASE s.hup_out
  <2>1. HangupOutput(s) = s
    BY <1>1 DEF HangupOutput
  <2>2. s.out = <<>> /\ s.reset \in BOOLEAN
    BY <1>1 DEF SocketSound, Sockets
  <2> QED BY <1>1, <2>1, <2>2
<1>2. CASE ~s.hup_out
  <2> DEFINE u == [s EXCEPT !.hup_out = TRUE, !.out = <<>>]
             t == MightReset(u)
  <2>1. <<>> \in Seq(Buffers)
    OBVIOUS
  <2>2. /\ u \in Sockets
        /\ u.hup_out
        /\ u.out = <<>>
        /\ u.in = s.in /\ u.pending = s.pending
        /\ u.hup_in = s.hup_in /\ u.shutdown = s.shutdown /\ u.reset = s.reset
    BY <2>1 DEF SocketSound, Sockets
  <2> HIDE DEF u
  <2>3. SocketSound(u)
    BY <1>2, <2>2 DEF SocketSound
  <2>4. SocketSound(t)
    BY <2>3, MightResetSound
  <2>5. /\ t.hup_in = u.hup_in /\ t.in = u.in /\ t.out = u.out
        /\ t.pending = u.pending
        /\ t.hup_out = u.hup_out /\ t.shutdown = u.shutdown
        /\ t.reset = (u.reset \/ (u.hup_in /\ u.hup_out /\ u.pending = <<>>
                                  /\ u.in = <<>>))
    BY <2>2, MightResetFields DEF SocketSound
  <2>6. HangupOutput(s) = t
    BY <1>2 DEF HangupOutput, u
  <2>7. s.hup_in => s.in = <<>>
    BY DEF SocketSound
  <2> HIDE DEF t
  <2> QED BY <1>2, <2>2, <2>4, <2>5, <2>6, <2>7
<1> QED BY <1>1, <1>2

\* socket_shutdown(): nothing is dropped, and what is reset is so because nothing
\* was left to write.
LEMMA ShutdownSound ==
    ASSUME NEW s, SocketSound(s)
    PROVE  LET t == Shutdown(s) IN
           /\ SocketSound(t)
           /\ t.shutdown
           /\ t.in = s.in /\ t.out = s.out /\ t.pending = s.pending
           /\ t.hup_in = s.hup_in
           /\ t.hup_out = (s.hup_out \/ s.out = <<>>)
           /\ t.reset = (s.reset \/ (~s.hup_out /\ s.hup_in /\ Written(s)))
<1>1. CASE s.shutdown
  <2>1. Shutdown(s) = s
    BY <1>1 DEF Shutdown
  <2>2. /\ s.hup_out \in BOOLEAN /\ s.reset \in BOOLEAN
        /\ s.out = <<>> => s.hup_out
    BY <1>1 DEF SocketSound, Sockets
  <2> QED BY <1>1, <2>1, <2>2 DEF Written
<1>2. CASE ~s.shutdown
  <2> DEFINE u == [s EXCEPT !.shutdown = TRUE]
  <2>1. /\ u.shutdown
        /\ u.in = s.in /\ u.out = s.out /\ u.pending = s.pending
        /\ u.hup_in = s.hup_in /\ u.hup_out = s.hup_out /\ u.reset = s.reset
    BY DEF SocketSound, Sockets
  <2>2. u \in Sockets
    BY DEF SocketSound, Sockets
  <2>3. Shutdown(s) = IF u.out = <<>> THEN HangupOutput(u) ELSE u
    BY <1>2 DEF Shutdown
  <2> HIDE DEF u
  <2>4. CASE s.out # <<>>
    <3>1. Shutdown(s) = u /\ ~s.hup_out
      BY <2>1, <2>3, <2>4 DEF SocketSound
    <3>2. SocketSound(u) /\ {s.reset, s.hup_out} \subseteq BOOLEAN
      BY <2>1, <2>2, <2>4 DEF SocketSound, Sockets
    <3>3. u.hup_out = (s.hup_out \/ s.out = <<>>)
      BY <2>1, <2>4, <3>2
    <3>4. u.reset = (s.reset \/ (~s.hup_out /\ s.hup_in /\ Written(s)))
      BY <2>1, <2>4, <3>2 DEF Written
    <3> QED BY <2>1, <3>1, <3>2, <3>3, <3>4
  <2>5. CASE s.out = <<>>
    <3>1. CASE s.hup_out
      <4>1. HangupOutput(u) = u
        BY <2>1, <3>1 DEF HangupOutput
      <4>2. SocketSound(u) /\ s.reset \in BOOLEAN
        BY <2>1, <2>2, <3>1 DEF SocketSound, Sockets
      <4> QED BY <2>1, <2>3, <2>5, <3>1, <4>1, <4>2 DEF Written
    <3>2. CASE ~s.hup_out
      <4> DEFINE v == [u EXCEPT !.hup_out = TRUE, !.out = <<>>]
                 t == MightReset(v)
      <4>1. <<>> \in Seq(Buffers)
        OBVIOUS
      <4>2. /\ v.hup_out /\ v.out = <<>>
            /\ v.shutdown
            /\ v.in = s.in /\ v.pending = s.pending
            /\ v.hup_in = s.hup_in /\ v.reset = s.reset
        BY <2>1, <2>2 DEF Sockets
      <4>3. v \in Sockets
        BY <2>2, <4>1 DEF Sockets
      <4>4. HangupOutput(u) = t
        BY <2>1, <3>2 DEF HangupOutput
      <4> HIDE DEF v
      <4>5. SocketSound(v)
        BY <4>2, <4>3 DEF SocketSound
      <4>6. /\ SocketSound(t)
            /\ t.hup_in = v.hup_in /\ t.in = v.in /\ t.out = v.out
            /\ t.pending = v.pending
            /\ t.hup_out = v.hup_out /\ t.shutdown = v.shutdown
            /\ t.reset = (v.reset \/ (v.hup_in /\ v.hup_out /\ v.pending = <<>>
                                      /\ v.in = <<>>))
        BY <4>3, <4>5, MightResetSound, MightResetFields
      <4>7. s.hup_in => s.in = <<>>
        BY DEF SocketSound
      <4> HIDE DEF t
      <4> QED BY <2>1, <2>3, <2>5, <3>2, <4>2, <4>4, <4>6, <4>7 DEF Written
    <3> QED BY <3>1, <3>2
  <2> QED BY <2>4, <2>5
<1> QED BY <1>1, <1>2

\* socket_close(): the input is dropped, the output is flushed, and if there is
\* nothing to flush the socket is reset.
LEMMA CloseSound ==
    ASSUME NEW s, SocketSound(s)
    PROVE  LET t == Close(s) IN
           /\ SocketSound(t)
           /\ t.hup_in /\ t.in = <<>>
           /\ t.out = s.out /\ t.pending = s.pending
           /\ s.hup_out => t.hup_out
           /\ Written(s) => t.reset
           /\ t.hup_out /\ t.pending = <<>> => t.reset
<1> DEFINE a == HangupInput(s)
           b == Shutdown(a)
           c == [b EXCEPT !.in = <<>>]
           t == MightReset(c)
<1>1. <<>> \in Seq(Token)
  OBVIOUS
<1>2. /\ a \in Sockets
      /\ a.hup_in
      /\ a.in = s.in /\ a.out = s.out /\ a.pending = s.pending
      /\ a.hup_out = s.hup_out /\ a.shutdown = s.shutdown
      /\ a.reset = s.reset \/ (a.reset /\ a.hup_out /\ a.pending = <<>>)
  <2>1. CASE s.hup_in
    BY <2>1 DEF HangupInput, SocketSound
  <2>2. CASE ~s.hup_in
    <3> DEFINE u == [s EXCEPT !.hup_in = TRUE]
    <3>1. /\ u \in Sockets
          /\ u.hup_in
          /\ u.in = s.in /\ u.out = s.out /\ u.pending = s.pending
          /\ u.hup_out = s.hup_out /\ u.shutdown = s.shutdown /\ u.reset = s.reset
      BY DEF SocketSound, Sockets
    <3>2. a = MightReset(u)
      BY <2>2 DEF HangupInput
    <3> HIDE DEF u, a
    <3>3. s.reset \in BOOLEAN /\ u.reset \in BOOLEAN /\ u.hup_in \in BOOLEAN
      BY <3>1 DEF Sockets
    <3> QED BY <3>1, <3>2, <3>3, MightResetFields, ZenonT(60)
  <2> QED BY <2>1, <2>2
<1> HIDE DEF a
<1>3. /\ b \in Sockets
      /\ b.hup_in /\ b.shutdown
      /\ b.out = a.out /\ b.pending = a.pending
      /\ b.hup_out = (a.hup_out \/ a.out = <<>>)
      /\ b.reset => b.hup_out /\ b.pending = <<>>
  <2>1. /\ a.hup_out => a.out = <<>>
        /\ a.shutdown /\ a.out = <<>> => a.hup_out
        /\ a.reset => a.hup_out /\ a.pending = <<>>
        /\ {a.hup_in, a.hup_out, a.shutdown, a.reset} \subseteq BOOLEAN
    BY <1>2 DEF SocketSound, Sockets
  <2>2. CASE a.shutdown
    BY <1>2, <2>1, <2>2 DEF Shutdown
  <2>3. CASE ~a.shutdown
    <3> DEFINE u == [a EXCEPT !.shutdown = TRUE]
    <3>1. /\ u \in Sockets
          /\ u.shutdown
          /\ u.in = a.in /\ u.out = a.out /\ u.pending = a.pending
          /\ u.hup_in = a.hup_in /\ u.hup_out = a.hup_out /\ u.reset = a.reset
      BY <1>2 DEF Sockets
    <3>2. b = IF u.out = <<>> THEN HangupOutput(u) ELSE u
      BY <2>3 DEF Shutdown
    <3> HIDE DEF u, b
    <3>3. CASE a.out # <<>>
      BY <1>2, <2>1, <3>1, <3>2, <3>3
    <3>4. CASE a.out = <<>> /\ a.hup_out
      BY <1>2, <2>1, <3>1, <3>2, <3>4 DEF HangupOutput
    <3>5. CASE a.out = <<>> /\ ~a.hup_out
      <4> DEFINE v == [u EXCEPT !.hup_out = TRUE, !.out = <<>>]
      <4>1. <<>> \in Seq(Buffers)
        OBVIOUS
      <4>2. /\ v \in Sockets
            /\ v.hup_out /\ v.out = <<>>
            /\ v.shutdown = u.shutdown /\ v.in = u.in /\ v.pending = u.pending
            /\ v.hup_in = u.hup_in /\ v.reset = u.reset
        BY <3>1, <4>1 DEF Sockets
      <4>3. b = MightReset(v)
        BY <3>1, <3>2, <3>5 DEF HangupOutput
      <4> HIDE DEF v
      <4>4. /\ b \in Sockets
            /\ b.hup_in = v.hup_in /\ b.hup_out = v.hup_out
            /\ b.shutdown = v.shutdown /\ b.out = v.out /\ b.pending = v.pending
            /\ b.reset = (v.reset \/ (v.hup_in /\ v.hup_out /\ v.pending = <<>>
                                      /\ v.in = <<>>))
        BY <4>2, <4>3, MightResetFields
      <4> QED BY <1>2, <2>1, <3>1, <3>5, <4>2, <4>4
    <3> QED BY <3>3, <3>4, <3>5
  <2> QED BY <2>2, <2>3
<1> HIDE DEF b
<1>4. /\ c \in Sockets
      /\ c.in = <<>> /\ c.hup_in = b.hup_in /\ c.hup_out = b.hup_out
      /\ c.shutdown = b.shutdown /\ c.out = b.out /\ c.pending = b.pending
      /\ c.reset = b.reset
  BY <1>3, <1>1 DEF Sockets
<1> HIDE DEF c
<1>5. SocketSound(c)
  <2>1. c.hup_out => c.out = <<>>
    BY <1>2, <1>3, <1>4 DEF SocketSound
  <2>2. \A i \in 1 .. Len(c.out) : c.out[i].left <= Length[c.out[i].msg]
    BY <1>2, <1>3, <1>4 DEF SocketSound
  <2> QED BY <1>2, <1>3, <1>4, <2>1, <2>2 DEF SocketSound
<1>6. /\ SocketSound(t)
      /\ t.hup_in = c.hup_in /\ t.in = c.in /\ t.out = c.out
      /\ t.pending = c.pending /\ t.hup_out = c.hup_out
      /\ t.reset = (c.reset \/ (c.hup_in /\ c.hup_out /\ c.pending = <<>>
                                /\ c.in = <<>>))
  BY <1>4, <1>5, MightResetSound, MightResetFields
<1>7. Close(s) = t
  BY DEF Close, t, c, b, a
<1> HIDE DEF t
<1> QED BY <1>2, <1>3, <1>4, <1>6, <1>7 DEF Written

-----------------------------------------------------------------------------
(* What is left of a callback *)

\* The first of what is left, and what is left after it.
LEMMA Remaining ==
    /\ Head(<<"dequeue">>) = "dequeue" /\ Tail(<<"dequeue">>) = <<>>
    /\ Head(<<"OUT", "dequeue">>) = "OUT"
    /\ Tail(<<"OUT", "dequeue">>) = <<"dequeue">>
    /\ Head(<<"dequeue", "OUT", "dequeue">>) = "dequeue"
    /\ Tail(<<"dequeue", "OUT", "dequeue">>) = <<"OUT", "dequeue">>
    /\ Head(<<"IN", "dequeue">>) = "IN"
    /\ Tail(<<"IN", "dequeue">>) = <<"dequeue">>
    /\ Head(<<"IN", "dequeue", "OUT", "dequeue">>) = "IN"
    /\ Tail(<<"IN", "dequeue", "OUT", "dequeue">>) = <<"dequeue", "OUT", "dequeue">>
    /\ Head(<<"HUP", "dequeue">>) = "HUP"
    /\ Tail(<<"HUP", "dequeue">>) = <<"dequeue">>
    /\ Head(<<"HUP", "dequeue", "OUT", "dequeue">>) = "HUP"
    /\ Tail(<<"HUP", "dequeue", "OUT", "dequeue">>) = <<"dequeue", "OUT", "dequeue">>
    /\ Head(<<"IN", "HUP", "dequeue">>) = "IN"
    /\ Tail(<<"IN", "HUP", "dequeue">>) = <<"HUP", "dequeue">>
    /\ Head(<<"IN", "HUP", "dequeue", "OUT", "dequeue">>) = "IN"
    /\ Tail(<<"IN", "HUP", "dequeue", "OUT", "dequeue">>)
           = <<"HUP", "dequeue", "OUT", "dequeue">>
    /\ Head(<<"eof">>) = "eof" /\ Head(<<"close">>) = "close"
OBVIOUS

\* Every step of a callback leaves something that may be left.
LEMMA RemaindersStep ==
    ASSUME NEW r \in Remainders, r # <<>>
    PROVE  /\ Head(r) \in {"IN", "HUP"} => /\ Tail(r) \in Remainders
                                           /\ Tail(r) \notin {<<>>, <<"OUT", "dequeue">>,
                                                              <<"eof">>, <<"close">>}
           /\ Head(r) = "OUT" => r = <<"OUT", "dequeue">> /\ Tail(r) = <<"dequeue">>
           /\ Head(r) = "dequeue" => Tail(r) \in {<<>>, <<"OUT", "dequeue">>}
           /\ Head(r) = "eof" => r = <<"eof">>
           /\ Head(r) = "close" => r = <<"close">>
<1>1. CASE r = <<"dequeue">>
  BY <1>1, Remaining DEF Remainders
<1>2. CASE r = <<"OUT", "dequeue">>
  BY <1>2, Remaining DEF Remainders
<1>3. CASE r = <<"dequeue", "OUT", "dequeue">>
  BY <1>3, Remaining DEF Remainders
<1>4. CASE r = <<"IN", "dequeue">>
  BY <1>4, Remaining DEF Remainders
<1>5. CASE r = <<"IN", "dequeue", "OUT", "dequeue">>
  BY <1>5, Remaining DEF Remainders
<1>6. CASE r = <<"HUP", "dequeue">>
  BY <1>6, Remaining DEF Remainders
<1>7. CASE r = <<"HUP", "dequeue", "OUT", "dequeue">>
  BY <1>7, Remaining DEF Remainders
<1>8. CASE r = <<"IN", "HUP", "dequeue">>
  BY <1>8, Remaining DEF Remainders
<1>9. CASE r = <<"IN", "HUP", "dequeue", "OUT", "dequeue">>
  BY <1>9, Remaining DEF Remainders
<1>10. CASE r = <<"eof">>
  BY <1>10, Remaining DEF Remainders
<1>11. CASE r = <<"close">>
  BY <1>11, Remaining DEF Remainders
<1> QED BY <1>1, <1>2, <1>3, <1>4, <1>5, <1>6, <1>7, <1>8, <1>9, <1>10, <1>11 DEF Remainders

\* What may be left is a sequence of steps.
LEMMA RemaindersType ==
    Remainders \subseteq Seq(Events \cup {"dequeue", "eof", "close"})
BY DEF Remainders, Events

\* 1 steps and 1 more.
LEMMA OneAndOne ==
    ASSUME NEW a, NEW b
    PROVE  <<a>> \o <<b>> = <<a, b>>
<1> DEFINE S == {a, b}
           p == <<a>>
           q == <<b>>
           u == p \o q
           r == <<a, b>>
<1>1. p \in Seq(S) /\ q \in Seq(S) /\ r \in Seq(S)
  OBVIOUS
<1>2. Len(p) = 1 /\ Len(q) = 1 /\ Len(r) = 2
  OBVIOUS
<1>3. u \in Seq(S) /\ Len(u) = 2 /\ \A i \in 1 .. 2 : u[i] = r[i]
  BY <1>1, <1>2, ConcatProperties
<1> HIDE DEF p, q, u, r
<1>4. u = r
  BY <1>1, <1>2, <1>3, SeqEqual
<1> QED BY <1>4 DEF u, p, q, r

\* 2 steps and 1 more.
LEMMA TwoAndOne ==
    ASSUME NEW a, NEW b, NEW c
    PROVE  <<a, b>> \o <<c>> = <<a, b, c>>
<1> DEFINE S == {a, b, c}
           p == <<a, b>>
           q == <<c>>
           u == p \o q
           r == <<a, b, c>>
<1>1. p \in Seq(S) /\ q \in Seq(S) /\ r \in Seq(S)
  OBVIOUS
<1>2. Len(p) = 2 /\ Len(q) = 1 /\ Len(r) = 3
  OBVIOUS
<1>3. u \in Seq(S) /\ Len(u) = 3 /\ \A i \in 1 .. 3 : u[i] = r[i]
  BY <1>1, <1>2, ConcatProperties
<1> HIDE DEF p, q, u, r
<1>4. u = r
  BY <1>1, <1>2, <1>3, SeqEqual
<1> QED BY <1>4 DEF u, p, q, r

\* 2 steps and 2 more.
LEMMA TwoAndTwo ==
    ASSUME NEW a, NEW b, NEW c, NEW d
    PROVE  <<a, b>> \o <<c, d>> = <<a, b, c, d>>
<1> DEFINE S == {a, b, c, d}
           p == <<a, b>>
           q == <<c, d>>
           u == p \o q
           r == <<a, b, c, d>>
<1>1. p \in Seq(S) /\ q \in Seq(S) /\ r \in Seq(S)
  OBVIOUS
<1>2. Len(p) = 2 /\ Len(q) = 2 /\ Len(r) = 4
  OBVIOUS
<1>3. u \in Seq(S) /\ Len(u) = 4 /\ \A i \in 1 .. 4 : u[i] = r[i]
  BY <1>1, <1>2, ConcatProperties
<1> HIDE DEF p, q, u, r
<1>4. u = r
  BY <1>1, <1>2, <1>3, SeqEqual
<1> QED BY <1>4 DEF u, p, q, r

\* 3 steps and 2 more.
LEMMA ThreeAndTwo ==
    ASSUME NEW a, NEW b, NEW c, NEW d, NEW e
    PROVE  <<a, b, c>> \o <<d, e>> = <<a, b, c, d, e>>
<1> DEFINE S == {a, b, c, d, e}
           p == <<a, b, c>>
           q == <<d, e>>
           u == p \o q
           r == <<a, b, c, d, e>>
<1>1. p \in Seq(S) /\ q \in Seq(S) /\ r \in Seq(S)
  OBVIOUS
<1>2. Len(p) = 3 /\ Len(q) = 2 /\ Len(r) = 5
  OBVIOUS
<1>3. u \in Seq(S) /\ Len(u) = 5 /\ \A i \in 1 .. 5 : u[i] = r[i]
  BY <1>1, <1>2, ConcatProperties
<1> HIDE DEF p, q, u, r
<1>4. u = r
  BY <1>1, <1>2, <1>3, SeqEqual
<1> QED BY <1>4 DEF u, p, q, r

\* What peer_dispatch() has to do at first.
LEMMA StepsForRemainders ==
    ASSUME NEW evs \in SUBSET Events
    PROVE  /\ StepsFor(evs) \in Remainders \ {<<"eof">>, <<"close">>}
           /\ StepsFor(evs) = <<"OUT", "dequeue">> => evs = {"OUT"}
           /\ evs # {} => StepsFor(evs) # <<>>
<1> DEFINE i == "IN" \in evs
           h == "HUP" \in evs
           o == "OUT" \in evs
<1>1. evs \cap {"IN", "HUP"} # {} <=> i \/ h
  OBVIOUS
<1> DEFINE W == {"IN", "HUP", "OUT", "dequeue"}
<1>2. /\ <<"IN">> \o <<"HUP">> = <<"IN", "HUP">>
      /\ <<"IN", "HUP">> \o <<"dequeue">> = <<"IN", "HUP", "dequeue">>
      /\ <<"IN">> \o <<"dequeue">> = <<"IN", "dequeue">>
      /\ <<"HUP">> \o <<"dequeue">> = <<"HUP", "dequeue">>
      /\ <<"IN", "HUP", "dequeue">> \o <<"OUT", "dequeue">>
             = <<"IN", "HUP", "dequeue", "OUT", "dequeue">>
      /\ <<"IN", "dequeue">> \o <<"OUT", "dequeue">> = <<"IN", "dequeue", "OUT", "dequeue">>
      /\ <<"HUP", "dequeue">> \o <<"OUT", "dequeue">>
             = <<"HUP", "dequeue", "OUT", "dequeue">>
  <2> HIDE DEF W
  <2>1. <<"IN">> \o <<"HUP">> = <<"IN", "HUP">>
    BY OneAndOne, Zenon
  <2>2. <<"IN", "HUP">> \o <<"dequeue">> = <<"IN", "HUP", "dequeue">>
    BY TwoAndOne, Zenon
  <2>3. <<"IN">> \o <<"dequeue">> = <<"IN", "dequeue">>
    BY OneAndOne, Zenon
  <2>4. <<"HUP">> \o <<"dequeue">> = <<"HUP", "dequeue">>
    BY OneAndOne, Zenon
  <2>5. <<"IN", "HUP", "dequeue">> \o <<"OUT", "dequeue">>
            = <<"IN", "HUP", "dequeue", "OUT", "dequeue">>
    BY ThreeAndTwo, Zenon
  <2>6. <<"IN", "dequeue">> \o <<"OUT", "dequeue">> = <<"IN", "dequeue", "OUT", "dequeue">>
    BY TwoAndTwo, Zenon
  <2>7. <<"HUP", "dequeue">> \o <<"OUT", "dequeue">>
            = <<"HUP", "dequeue", "OUT", "dequeue">>
    BY TwoAndTwo, Zenon
  <2> QED BY <2>1, <2>2, <2>3, <2>4, <2>5, <2>6, <2>7
<1>3. /\ <<"IN">> \o <<>> = <<"IN">> /\ <<>> \o <<"IN">> = <<"IN">>
      /\ <<"HUP">> \o <<>> = <<"HUP">> /\ <<>> \o <<"HUP">> = <<"HUP">>
      /\ <<"dequeue">> \o <<>> = <<"dequeue">> /\ <<>> \o <<"dequeue">> = <<"dequeue">>
      /\ <<"OUT", "dequeue">> \o <<>> = <<"OUT", "dequeue">>
      /\ <<>> \o <<"OUT", "dequeue">> = <<"OUT", "dequeue">>
      /\ <<"IN", "HUP">> \o <<>> = <<"IN", "HUP">>
      /\ <<>> \o <<"IN", "HUP">> = <<"IN", "HUP">>
      /\ <<"IN", "dequeue">> \o <<>> = <<"IN", "dequeue">>
      /\ <<>> \o <<"IN", "dequeue">> = <<"IN", "dequeue">>
      /\ <<"HUP", "dequeue">> \o <<>> = <<"HUP", "dequeue">>
      /\ <<>> \o <<"HUP", "dequeue">> = <<"HUP", "dequeue">>
      /\ <<"IN", "HUP", "dequeue">> \o <<>> = <<"IN", "HUP", "dequeue">>
      /\ <<>> \o <<"IN", "HUP", "dequeue">> = <<"IN", "HUP", "dequeue">>
      /\ <<>> \o <<>> = <<>> /\ <<>> \o <<>> = <<>>
  <2>1. /\ <<"IN">> \in Seq(W)
        /\ <<"HUP">> \in Seq(W)
        /\ <<"dequeue">> \in Seq(W)
        /\ <<"OUT", "dequeue">> \in Seq(W)
        /\ <<"IN", "HUP">> \in Seq(W)
        /\ <<"IN", "dequeue">> \in Seq(W)
        /\ <<"HUP", "dequeue">> \in Seq(W)
        /\ <<"IN", "HUP", "dequeue">> \in Seq(W)
        /\ <<>> \in Seq(W)
    OBVIOUS
  <2> HIDE DEF W
  <2> QED BY <2>1, ConcatEmptySeq
<1>4. CASE i /\ h /\ o
  <2>1. StepsFor(evs) = <<"IN">> \o <<"HUP">> \o <<"dequeue">> \o <<"OUT", "dequeue">>
    BY <1>1, <1>4 DEF StepsFor
  <2>2. /\ <<"IN">> \o <<"HUP">> = <<"IN", "HUP">>
        /\ <<"IN", "HUP">> \o <<"dequeue">> = <<"IN", "HUP", "dequeue">>
        /\ <<"IN", "HUP", "dequeue">> \o <<"OUT", "dequeue">>
               = <<"IN", "HUP", "dequeue", "OUT", "dequeue">>
    BY <1>2, <1>3
  <2>3. StepsFor(evs) = <<"IN", "HUP", "dequeue", "OUT", "dequeue">>
    BY <2>1, <2>2
  <2> QED BY <1>4, <2>3 DEF Remainders, Events
<1>5. CASE i /\ h /\ ~o
  <2>1. StepsFor(evs) = <<"IN">> \o <<"HUP">> \o <<"dequeue">> \o <<>>
    BY <1>1, <1>5 DEF StepsFor
  <2>2. /\ <<"IN">> \o <<"HUP">> = <<"IN", "HUP">>
        /\ <<"IN", "HUP">> \o <<"dequeue">> = <<"IN", "HUP", "dequeue">>
        /\ <<"IN", "HUP", "dequeue">> \o <<>> = <<"IN", "HUP", "dequeue">>
    BY <1>2, <1>3
  <2>3. StepsFor(evs) = <<"IN", "HUP", "dequeue">>
    BY <2>1, <2>2
  <2> QED BY <1>5, <2>3 DEF Remainders, Events
<1>6. CASE i /\ ~h /\ o
  <2>1. StepsFor(evs) = <<"IN">> \o <<>> \o <<"dequeue">> \o <<"OUT", "dequeue">>
    BY <1>1, <1>6 DEF StepsFor
  <2>2. /\ <<"IN">> \o <<>> = <<"IN">>
        /\ <<"IN">> \o <<"dequeue">> = <<"IN", "dequeue">>
        /\ <<"IN", "dequeue">> \o <<"OUT", "dequeue">>
               = <<"IN", "dequeue", "OUT", "dequeue">>
    BY <1>2, <1>3
  <2>3. StepsFor(evs) = <<"IN", "dequeue", "OUT", "dequeue">>
    BY <2>1, <2>2
  <2> QED BY <1>6, <2>3 DEF Remainders, Events
<1>7. CASE i /\ ~h /\ ~o
  <2>1. StepsFor(evs) = <<"IN">> \o <<>> \o <<"dequeue">> \o <<>>
    BY <1>1, <1>7 DEF StepsFor
  <2>2. /\ <<"IN">> \o <<>> = <<"IN">>
        /\ <<"IN">> \o <<"dequeue">> = <<"IN", "dequeue">>
        /\ <<"IN", "dequeue">> \o <<>> = <<"IN", "dequeue">>
    BY <1>2, <1>3
  <2>3. StepsFor(evs) = <<"IN", "dequeue">>
    BY <2>1, <2>2
  <2> QED BY <1>7, <2>3 DEF Remainders, Events
<1>8. CASE ~i /\ h /\ o
  <2>1. StepsFor(evs) = <<>> \o <<"HUP">> \o <<"dequeue">> \o <<"OUT", "dequeue">>
    BY <1>1, <1>8 DEF StepsFor
  <2>2. /\ <<>> \o <<"HUP">> = <<"HUP">>
        /\ <<"HUP">> \o <<"dequeue">> = <<"HUP", "dequeue">>
        /\ <<"HUP", "dequeue">> \o <<"OUT", "dequeue">>
               = <<"HUP", "dequeue", "OUT", "dequeue">>
    BY <1>2, <1>3
  <2>3. StepsFor(evs) = <<"HUP", "dequeue", "OUT", "dequeue">>
    BY <2>1, <2>2
  <2> QED BY <1>8, <2>3 DEF Remainders, Events
<1>9. CASE ~i /\ h /\ ~o
  <2>1. StepsFor(evs) = <<>> \o <<"HUP">> \o <<"dequeue">> \o <<>>
    BY <1>1, <1>9 DEF StepsFor
  <2>2. /\ <<>> \o <<"HUP">> = <<"HUP">>
        /\ <<"HUP">> \o <<"dequeue">> = <<"HUP", "dequeue">>
        /\ <<"HUP", "dequeue">> \o <<>> = <<"HUP", "dequeue">>
    BY <1>2, <1>3
  <2>3. StepsFor(evs) = <<"HUP", "dequeue">>
    BY <2>1, <2>2
  <2> QED BY <1>9, <2>3 DEF Remainders, Events
<1>10. CASE ~i /\ ~h /\ o
  <2>1. StepsFor(evs) = <<>> \o <<>> \o <<>> \o <<"OUT", "dequeue">>
    BY <1>1, <1>10 DEF StepsFor
  <2>2. /\ <<>> \o <<>> = <<>>
        /\ <<>> \o <<>> = <<>>
        /\ <<>> \o <<"OUT", "dequeue">> = <<"OUT", "dequeue">>
    BY <1>2, <1>3
  <2>3. StepsFor(evs) = <<"OUT", "dequeue">>
    BY <2>1, <2>2
  <2>4. evs = {"OUT"}
    BY <1>10 DEF Events
  <2> QED BY <2>3, <2>4 DEF Remainders
<1>11. CASE ~i /\ ~h /\ ~o
  <2>1. StepsFor(evs) = <<>> \o <<>> \o <<>> \o <<>>
    BY <1>1, <1>11 DEF StepsFor
  <2>2. /\ <<>> \o <<>> = <<>>
        /\ <<>> \o <<>> = <<>>
        /\ <<>> \o <<>> = <<>>
    BY <1>2, <1>3
  <2>3. StepsFor(evs) = <<>>
    BY <2>1, <2>2
  <2>4. evs = {}
    BY <1>11 DEF Events
  <2> QED BY <2>3, <2>4 DEF Remainders
<1> QED BY <1>4, <1>5, <1>6, <1>7, <1>8, <1>9, <1>10, <1>11

-----------------------------------------------------------------------------
(* Reading and writing *)

\* What socket_dispatch_read() leaves: the input is given up, or what it has and
\* what is under way are the same sequence as before; the output is the same or
\* is given up.
LEMMA ReadSound ==
    ASSUME NEW s, SocketSound(s), inbox \in Seq(Token), NEW o \in ReadOutcomes(s)
    PROVE  /\ SocketSound(o.sock)
           /\ o.inbox \in Seq(Token)
           /\ o.sock.pending = s.pending
           /\ o.sock.out = s.out \/ (o.sock.hup_out /\ o.sock.out = <<>>)
           /\ s.hup_out => o.sock.hup_out
           /\ ~o.sock.hup_in =>
                 /\ ~s.hup_in
                 /\ \/ o.sock.in = s.in /\ o.inbox = inbox
                    \/ /\ s.in = <<>>
                       /\ \E k \in 1 .. Len(inbox) :
                             /\ o.sock.in = SubSeq(inbox, 1, k)
                             /\ o.inbox = SubSeq(inbox, k + 1, Len(inbox))
<1>1. s \in Sockets /\ s.hup_in \in BOOLEAN /\ s.hup_out \in BOOLEAN
  BY DEF SocketSound, Sockets
<1>2. CASE s.hup_in \/ s.in # <<>>
  <2>1. o.sock = s /\ o.inbox = inbox
    BY <1>2 DEF ReadOutcomes
  <2> QED BY <1>1, <2>1
<1>3. CASE ~s.hup_in /\ s.in = <<>>
  <2>1. CASE \E k \in 1 .. Len(inbox) :
                o = [sock |-> [s EXCEPT !.in = SubSeq(inbox, 1, k)],
                     inbox |-> SubSeq(inbox, k + 1, Len(inbox)), lost |-> FALSE]
    <3>1. PICK k \in 1 .. Len(inbox) :
                o = [sock |-> [s EXCEPT !.in = SubSeq(inbox, 1, k)],
                     inbox |-> SubSeq(inbox, k + 1, Len(inbox)), lost |-> FALSE]
      BY <2>1
    <3> DEFINE t == [s EXCEPT !.in = SubSeq(inbox, 1, k)]
    <3>2. /\ SubSeq(inbox, 1, k) \in Seq(Token)
          /\ SubSeq(inbox, k + 1, Len(inbox)) \in Seq(Token)
      OBVIOUS
    <3>3. /\ t \in Sockets
          /\ t.in = SubSeq(inbox, 1, k)
          /\ t.hup_in = s.hup_in /\ t.hup_out = s.hup_out /\ t.out = s.out
          /\ t.shutdown = s.shutdown /\ t.reset = s.reset /\ t.pending = s.pending
      BY <1>1, <3>2 DEF Sockets
    <3>4. o.sock = t /\ o.inbox = SubSeq(inbox, k + 1, Len(inbox))
      BY <3>1
    <3> HIDE DEF t
    <3>5. SocketSound(t)
      BY <1>3, <3>3 DEF SocketSound
    <3> QED BY <1>1, <1>3, <3>2, <3>3, <3>4, <3>5
  <2>2. CASE o = [sock |-> s, inbox |-> inbox, lost |-> FALSE]
    BY <1>1, <1>3, <2>2
  <2>3. CASE o = [sock |-> HangupInput(s), inbox |-> inbox, lost |-> TRUE]
    <3>1. o.sock = HangupInput(s) /\ o.inbox = inbox
      BY <2>3
    <3> QED BY <1>3, <3>1, HangupInputSound
  <2>4. CASE o = [sock |-> HangupOutput(HangupInput(s)), inbox |-> <<>>, lost |-> TRUE]
    <3> DEFINE t == HangupInput(s)
               u == HangupOutput(t)
    <3>1. o.sock = u /\ o.inbox = <<>> /\ <<>> \in Seq(Token)
      BY <2>4
    <3>2. /\ SocketSound(t)
          /\ t.hup_in
          /\ t.out = s.out /\ t.pending = s.pending
      BY <1>3, HangupInputSound
    <3> HIDE DEF t
    <3>3. /\ SocketSound(u)
          /\ u.hup_out /\ u.out = <<>> /\ u.pending = t.pending
          /\ u.hup_in = t.hup_in
      BY <3>2, HangupOutputSound
    <3> HIDE DEF u
    <3> QED BY <3>1, <3>2, <3>3
  <2>5. CASE o = [sock |-> Close(s), inbox |-> inbox, lost |-> TRUE]
    <3> DEFINE t == Close(s)
    <3>1. o.sock = t /\ o.inbox = inbox
      BY <2>5
    <3>2. /\ SocketSound(t)
          /\ t.hup_in
          /\ t.out = s.out /\ t.pending = s.pending
      BY CloseSound
    <3>3. s.hup_out => t.hup_out
      <4>1. CASE s.hup_out
        <5>1. HangupInput(s).hup_out /\ SocketSound(HangupInput(s))
          BY <1>3, <4>1, HangupInputSound
        <5> DEFINE b == Shutdown(HangupInput(s))
        <5>2. b.hup_out /\ SocketSound(b)
          BY <5>1, ShutdownSound
        <5> DEFINE c == [b EXCEPT !.in = <<>>]
        <5> HIDE DEF b
        <5>3. <<>> \in Seq(Token)
          OBVIOUS
        <5>4. c \in Sockets /\ c.hup_out = b.hup_out
          BY <5>2, <5>3 DEF SocketSound, Sockets
        <5> HIDE DEF c
        <5>5. MightReset(c).hup_out
          BY <5>2, <5>4, MightResetFields
        <5> QED BY <5>5 DEF Close, c, b
      <4> QED BY <4>1
    <3> HIDE DEF t
    <3> QED BY <3>1, <3>2, <3>3
  <2>6. \/ \E k \in 1 .. Len(inbox) :
              o = [sock |-> [s EXCEPT !.in = SubSeq(inbox, 1, k)],
                   inbox |-> SubSeq(inbox, k + 1, Len(inbox)), lost |-> FALSE]
        \/ o = [sock |-> s, inbox |-> inbox, lost |-> FALSE]
        \/ o = [sock |-> HangupInput(s), inbox |-> inbox, lost |-> TRUE]
        \/ o = [sock |-> HangupOutput(HangupInput(s)), inbox |-> <<>>, lost |-> TRUE]
        \/ o = [sock |-> Close(s), inbox |-> inbox, lost |-> TRUE]
    BY <1>3 DEF ReadOutcomes
  <2> QED BY <2>1, <2>2, <2>3, <2>4, <2>5, <2>6
<1> QED BY <1>2, <1>3

\* What sendmmsg() may have sent of the first buffers of the queue out.
Sendable(out, parts, n) ==
    /\ n \in 1 .. Len(out)
    /\ parts \in [1 .. n -> Nat]
    /\ \A i \in 1 .. n : parts[i] \in 1 .. out[i].left

\* The buffers that remain are buffers of the queue, with something left to send.
LEMMA ConsumeFields ==
    ASSUME NEW s, SocketSound(s), NEW n, NEW parts, Sendable(s.out, parts, n)
    PROVE  LET t == Consume(s, parts) IN
           /\ t \in Sockets
           /\ \A i \in 1 .. Len(t.out) : t.out[i].left <= Length[t.out[i].msg]
           /\ t.in = s.in /\ t.hup_in = s.hup_in /\ t.hup_out = s.hup_out
           /\ t.shutdown = s.shutdown /\ t.reset = s.reset
<1> DEFINE L == Len(s.out)
           out == s.out
           I == Indexes(out)
           Done == {i \in 1 .. L : Left(out, parts, i) = 0}
           Open == {i \in 1 .. L : Left(out, parts, i) > 0}
           Fds == {i \in 1 .. L : out[i].msg \in WithFds}
           done == Only(I, Done)
           rest == Only(I, Open)
           flying == Only(done, Fds)
           keep == [k \in 1 .. Len(rest) |->
                       [msg |-> out[rest[k]].msg, left |-> Left(out, parts, rest[k])]]
           fly == [k \in 1 .. Len(flying) |-> out[flying[k]].msg]
<1>1. out \in Seq(Buffers) /\ L \in Nat /\ s.pending \in Seq(WithFds) /\ s \in Sockets
  BY DEF SocketSound, Sockets
<1>2. \A i \in 1 .. L : /\ out[i] \in Buffers
                        /\ out[i].msg \in Messages /\ out[i].left \in Nat \ {0}
                        /\ out[i].left <= Length[out[i].msg]
  <2>1. \A i \in 1 .. L : out[i] \in Buffers
    BY <1>1
  <2>2. \A b \in Buffers : b.msg \in Messages /\ b.left \in Nat \ {0}
    BY DEF Buffers
  <2>3. \A i \in 1 .. L : out[i].left <= Length[out[i].msg]
    BY DEF SocketSound
  <2> QED BY <2>1, <2>2, <2>3
<1>3. \A i \in 1 .. L : /\ Left(out, parts, i) \in Nat
                        /\ Left(out, parts, i) <= out[i].left
  BY <1>2 DEF Left, Sendable
<1>4. I \in Seq(1 .. L)
  BY <1>1 DEF Indexes
<1> HIDE DEF I, Done, Open, Fds, out, L
<1>5. /\ done \in Seq(1 .. L) /\ rest \in Seq(1 .. L)
      /\ ToSet(rest) \subseteq Open
  BY <1>4, OnlyProps
<1> HIDE DEF done, rest
<1>6. /\ flying \in Seq(1 .. L)
      /\ ToSet(flying) \subseteq Fds
  BY <1>5, OnlyProps
<1> HIDE DEF flying
<1>7. \A k \in 1 .. Len(rest) : rest[k] \in 1 .. L /\ Left(out, parts, rest[k]) > 0
  <2>1. DOMAIN rest = 1 .. Len(rest)
    BY <1>5
  <2>2. \A k \in 1 .. Len(rest) : rest[k] \in 1 .. L /\ rest[k] \in ToSet(rest)
    <3>1. \A k \in 1 .. Len(rest) : rest[k] \in 1 .. L
      BY <1>5, ElementOfSeq
    <3>2. \A k \in DOMAIN rest : rest[k] \in ToSet(rest)
      BY DEF ToSet
    <3> QED BY <2>1, <3>1, <3>2
  <2> QED BY <2>2, <1>5 DEF Open
<1>8. \A k \in 1 .. Len(flying) : flying[k] \in 1 .. L /\ out[flying[k]].msg \in WithFds
  <2>1. DOMAIN flying = 1 .. Len(flying)
    BY <1>6
  <2>2. \A k \in 1 .. Len(flying) : flying[k] \in 1 .. L /\ flying[k] \in ToSet(flying)
    <3>1. \A k \in 1 .. Len(flying) : flying[k] \in 1 .. L
      BY <1>6, ElementOfSeq
    <3>2. \A k \in DOMAIN flying : flying[k] \in ToSet(flying)
      BY DEF ToSet
    <3> QED BY <2>1, <3>1, <3>2
  <2> QED BY <2>2, <1>6 DEF Fds
<1>9. /\ keep \in Seq(Buffers)
      /\ Len(keep) = Len(rest)
      /\ \A i \in 1 .. Len(keep) : keep[i].left <= Length[keep[i].msg]
  <2>1. Len(rest) \in Nat
    BY <1>5
  <2>2. \A k \in 1 .. Len(rest) :
           /\ out[rest[k]].msg \in Messages
           /\ Left(out, parts, rest[k]) \in Nat \ {0}
           /\ Left(out, parts, rest[k]) <= out[rest[k]].left
           /\ out[rest[k]].left <= Length[out[rest[k]].msg]
           /\ out[rest[k]].left \in Nat
           /\ Length[out[rest[k]].msg] \in Nat
    BY <1>2, <1>3, <1>7, SocketAssumption
  <2>3. \A k \in 1 .. Len(rest) :
           [msg |-> out[rest[k]].msg, left |-> Left(out, parts, rest[k])] \in Buffers
    BY <2>2 DEF Buffers
  <2>4. keep \in Seq(Buffers) /\ Len(keep) = Len(rest)
    BY <2>1, <2>3
  <2>5. \A i \in 1 .. Len(rest) : keep[i].left <= Length[keep[i].msg]
    BY <2>2
  <2> QED BY <2>4, <2>5
<1>10. fly \in Seq(WithFds)
  BY <1>6, <1>8
<1>11. s.pending \o fly \in Seq(WithFds)
  <2> HIDE DEF fly
  <2> QED BY <1>1, <1>10
<1>12. Consume(s, parts) = [s EXCEPT !.out = keep, !.pending = @ \o fly]
  BY DEF Consume, keep, fly, flying, rest, done, I, Done, Open, Fds, out, L
<1> HIDE DEF keep, fly
<1>13. LET t == [s EXCEPT !.out = keep, !.pending = @ \o fly] IN
       /\ t \in Sockets
       /\ t.out = keep
       /\ t.in = s.in /\ t.hup_in = s.hup_in /\ t.hup_out = s.hup_out
       /\ t.shutdown = s.shutdown /\ t.reset = s.reset
  BY <1>1, <1>9, <1>11 DEF Sockets
<1> QED BY <1>9, <1>12, <1>13

-----------------------------------------------------------------------------
(* A peer is released when it is done *)

\* The pieces of a message that are sent.
LEMMA PiecesType ==
    ASSUME NEW m \in Messages, NEW left \in Nat, left <= Length[m], NEW n \in Nat
    PROVE  /\ Pieces(m, left, n) \in Seq(Messages \X Nat)
           /\ Len(Pieces(m, left, n)) = n
<1>1. Length[m] \in Nat
  BY SocketAssumption
<1>2. \A k \in 1 .. n : Length[m] - left + k \in Nat
  BY <1>1
<1>3. \A k \in 1 .. n : <<m, Length[m] - left + k>> \in Messages \X Nat
  BY <1>2
<1> QED BY <1>3 DEF Pieces

\* The buffers of the queue.
LEMMA BufferFields ==
    ASSUME NEW s, SocketSound(s)
    PROVE  /\ Len(s.out) \in Nat
           /\ s.out \in Seq(Buffers)
           /\ \A i \in 1 .. Len(s.out) :
                 /\ s.out[i] \in Buffers
                 /\ s.out[i].msg \in Messages
                 /\ s.out[i].left \in Nat \ {0}
                 /\ s.out[i].left <= Length[s.out[i].msg]
<1>1. s.out \in Seq(Buffers)
  BY DEF SocketSound, Sockets
<1>2. \A i \in 1 .. Len(s.out) : s.out[i] \in Buffers
  BY <1>1
<1>3. \A b \in Buffers : b.msg \in Messages /\ b.left \in Nat \ {0}
  BY DEF Buffers
<1>4. \A i \in 1 .. Len(s.out) : s.out[i].left <= Length[s.out[i].msg]
  BY DEF SocketSound
<1> QED BY <1>1, <1>2, <1>3, <1>4

\* What sendmmsg() sent are pieces of the messages in the queue.
LEMMA SentType ==
    ASSUME NEW s, SocketSound(s), NEW n, NEW parts, Sendable(s.out, parts, n)
    PROVE  SentPieces(s.out, parts) \in Seq(Messages \X Nat)
<1> DEFINE T == Messages \X Nat
           sent == [i \in 1 .. n |-> Pieces(s.out[i].msg, s.out[i].left, parts[i])]
<1>1. /\ n \in 1 .. Len(s.out) /\ parts \in [1 .. n -> Nat]
      /\ Len(parts) = n
  BY BufferFields DEF Sendable
<1>2. \A i \in 1 .. n : i \in 1 .. Len(s.out) /\ parts[i] \in Nat
  BY <1>1, BufferFields
<1>3. \A i \in 1 .. n : Pieces(s.out[i].msg, s.out[i].left, parts[i]) \in Seq(T)
  BY <1>2, BufferFields, PiecesType
<1> HIDE DEF T
<1>4. sent \in Seq(Seq(T))
  <2>1. n \in Nat
    BY <1>1, BufferFields
  <2> QED BY <1>3, <2>1
<1>5. FlattenSeq(sent) \in Seq(T)
  <2> HIDE DEF sent
  <2> QED BY <1>4, FlattenType
<1> QED BY <1>1, <1>5 DEF SentPieces, T

\* In the initial state nothing is done yet.
LEMMA ReleaseInit == SInit => ReleaseInv
<1> SUFFICES ASSUME SInit PROVE ReleaseInv
  OBVIOUS
<1>1. SocketSound(sock)
  BY DEF SInit, SocketSound, Sockets
<1>2. STypeOK
  <2>1. sock \in Sockets
    BY <1>1 DEF SocketSound
  <2>2. /\ steps \in Seq(Events \cup {"dequeue", "eof", "close"})
        /\ inbox \in Seq(Token) /\ handled \in Seq(1 .. MaxSent)
        /\ accepted \in Seq(Messages) /\ wire \in Seq(Messages \X Nat)
    BY EmptyElements DEF SInit
  <2>3. mask \subseteq Events /\ n_sent \in 0 .. MaxSent
    BY SocketAssumption DEF SInit
  <2> QED BY <2>1, <2>2, <2>3 DEF SInit, STypeOK, Sockets, Buffers
<1>3. StepsSound
  BY DEF SInit, StepsSound, Remainders, Written
<1> QED BY <1>2, <1>1, <1>3 DEF ReleaseInv

\* What follows from the invariant about the state before a step.
LEMMA ReleaseFacts ==
    ASSUME ReleaseInv
    PROVE  /\ STypeOK /\ SocketSound(sock) /\ StepsSound
           /\ sock \in Sockets
           /\ inbox \in Seq(Token)
           /\ mask \subseteq Events
           /\ freed \in BOOLEAN
BY DEF ReleaseInv, STypeOK, SocketSound

\* What has its type when the socket is sound and the rest has changed as follows.
LEMMA TypesKept ==
    ASSUME ReleaseInv, SocketSound(sock'), steps' \in Remainders,
           mask' \subseteq Events, freed' \in BOOLEAN, inbox' \in Seq(Token),
           UNCHANGED <<remote, n_sent, accepted>>,
           handled' \in Seq(1 .. MaxSent), wire' \in Seq(Messages \X Nat),
           cut' \in BOOLEAN, overtaken' \in BOOLEAN
    PROVE  STypeOK'
<1>1. STypeOK
  BY DEF ReleaseInv
<1>2. sock' \in Sockets
  BY DEF SocketSound
<1>3. steps' \in Seq(Events \cup {"dequeue", "eof", "close"})
  BY RemaindersType
<1> QED BY <1>1, <1>2, <1>3 DEF STypeOK, Sockets, Buffers

\* The client does what it likes.
LEMMA ReleaseClient ==
    ASSUME ReleaseInv, ClientSend \/ ClientHalfClose \/ ClientClose
    PROVE  ReleaseInv'
<1> USE ReleaseFacts
<1>1. UNCHANGED <<sock, mask, steps, freed>>
  BY DEF ClientSend, ClientHalfClose, ClientClose
<1>2. SocketSound(sock')
  BY <1>1
<1>3. StepsSound'
  BY <1>1 DEF StepsSound, Written
<1>4. STypeOK'
  <2>1. CASE ClientSend
    <3>1. PICK kind \in Kinds : inbox' = Append(inbox, [id |-> n_sent + 1, kind |-> kind])
      BY <2>1 DEF ClientSend
    <3>2. n_sent \in 0 .. MaxSent /\ n_sent < MaxSent /\ n_sent' = n_sent + 1
      BY <2>1 DEF STypeOK, ClientSend
    <3>3. [id |-> n_sent + 1, kind |-> kind] \in Token
      BY <3>2, SocketAssumption DEF Token
    <3>4. inbox' \in Seq(Token) /\ n_sent' \in 0 .. MaxSent
      BY <3>1, <3>2, <3>3, SocketAssumption
    <3> QED BY <1>1, <2>1, <3>4 DEF STypeOK, ClientSend
  <2>2. CASE ClientHalfClose \/ ClientClose
    BY <1>1, <2>2 DEF STypeOK, ClientHalfClose, ClientClose
  <2> QED BY <2>1, <2>2
<1> QED BY <1>2, <1>3, <1>4 DEF ReleaseInv

\* connection_queue()
LEMMA ReleaseQueue ==
    ASSUME ReleaseInv, NEW m \in Messages, Queue(m)
    PROVE  ReleaseInv'
<1> USE ReleaseFacts
<1> DEFINE b == [msg |-> m, left |-> Length[m]]
           t == [sock EXCEPT !.out = Append(@, b)]
<1>1. /\ sock' = t
      /\ mask' = mask \cup {"OUT"}
      /\ accepted' = Append(accepted, m)
      /\ UNCHANGED <<steps, freed, inbox, remote, n_sent, handled, wire, overtaken, cut>>
      /\ ~sock.hup_out /\ ~sock.shutdown
      /\ BusRuns
  BY DEF Queue
<1>2. b \in Buffers /\ b.left <= Length[b.msg]
  BY SocketAssumption DEF Buffers
<1>3. /\ Append(sock.out, b) \in Seq(Buffers)
      /\ Append(sock.out, b) # <<>>
      /\ \A i \in 1 .. Len(Append(sock.out, b)) :
            Append(sock.out, b)[i].left <= Length[Append(sock.out, b)[i].msg]
  <2> DEFINE o == sock.out
  <2>1. o \in Seq(Buffers) /\ \A i \in 1 .. Len(o) : o[i].left <= Length[o[i].msg]
    BY BufferFields
  <2> HIDE DEF o, b
  <2>2. /\ Append(o, b) \in Seq(Buffers)
        /\ Append(o, b) # <<>>
        /\ Len(Append(o, b)) = Len(o) + 1
        /\ \A i \in 1 .. Len(o) : Append(o, b)[i] = o[i]
        /\ Append(o, b)[Len(o) + 1] = b
    BY <1>2, <2>1, AppendProperties
  <2>3. Len(o) \in Nat
    BY <2>1
  <2>4. \A i \in 1 .. Len(o) + 1 : i \in 1 .. Len(o) \/ i = Len(o) + 1
    BY <2>3
  <2> QED BY <1>2, <2>1, <2>2, <2>4 DEF o
<1> HIDE DEF b
<1>4. /\ t \in Sockets
      /\ t.out = Append(sock.out, b)
      /\ t.hup_out = sock.hup_out /\ t.hup_in = sock.hup_in /\ t.in = sock.in
      /\ t.shutdown = sock.shutdown /\ t.reset = sock.reset /\ t.pending = sock.pending
  BY <1>3 DEF Sockets
<1> HIDE DEF t
<1>5. SocketSound(t)
  BY <1>1, <1>3, <1>4 DEF SocketSound
<1>6. ~freed /\ (steps # <<>> => Head(steps) = "dequeue")
  BY <1>1 DEF BusRuns
<1>7. StepsSound'
  <2>1. ~Written(t)
    BY <1>3, <1>4 DEF Written
  <2>2. steps # <<"eof">>
    BY <1>6, Remaining
  <2>3. ~(steps = <<>> /\ t.reset)
    BY <1>4, <1>6 DEF StepsSound
  <2> QED BY <1>1, <1>6, <2>1, <2>2, <2>3 DEF StepsSound
<1>8. STypeOK'
  <2>1. mask' \subseteq Events
    BY <1>1 DEF Events
  <2>2. accepted' \in Seq(Messages)
    BY <1>1 DEF STypeOK
  <2>3. sock' \in Sockets
    BY <1>1, <1>4
  <2> QED BY <1>1, <2>1, <2>2, <2>3 DEF STypeOK, Sockets, Buffers
<1> QED BY <1>1, <1>5, <1>7, <1>8 DEF ReleaseInv

\* The quota refuses a message: socket_shutdown().  Between two callbacks this
\* completes no reset: there would have been nothing to stay for.
LEMMA ReleaseRefused ==
    ASSUME ReleaseInv, QueueRefused
    PROVE  ReleaseInv'
<1> USE ReleaseFacts
<1> DEFINE t == Shutdown(sock)
<1>1. /\ sock' = t
      /\ mask' = IF t.reset THEN mask \cup {"HUP"} ELSE mask
      /\ UNCHANGED <<steps, freed, inbox, remote, n_sent, handled, accepted, wire, overtaken, cut>>
      /\ ~sock.hup_out
      /\ BusRuns
  BY DEF QueueRefused, ConnectionShutdown
<1>2. /\ SocketSound(t)
      /\ t.out = sock.out /\ t.pending = sock.pending /\ t.hup_in = sock.hup_in
      /\ t.reset = (sock.reset \/ (~sock.hup_out /\ sock.hup_in /\ Written(sock)))
  BY ShutdownSound
<1> HIDE DEF t
<1>3. ~freed /\ (steps # <<>> => Head(steps) = "dequeue")
  BY <1>1 DEF BusRuns
<1>4. StepsSound'
  <2>1. Written(t) <=> Written(sock)
    BY <1>2 DEF Written
  <2>2. steps # <<"eof">>
    BY <1>3, Remaining
  <2>3. ~(steps = <<>> /\ t.reset)
    BY <1>2, <1>3 DEF StepsSound
  <2>4. ~Written(t) => "OUT" \in mask'
    BY <1>1, <2>1 DEF StepsSound
  <2> QED BY <1>1, <1>2, <1>3, <2>1, <2>2, <2>3, <2>4 DEF StepsSound
<1>5. STypeOK'
  <2>1. mask' \subseteq Events
    BY <1>1 DEF Events
  <2> QED BY <1>1, <1>2, <2>1, TypesKept DEF STypeOK, StepsSound
<1> QED BY <1>1, <1>2, <1>4, <1>5 DEF ReleaseInv

\* The event loop calls back.
LEMMA ReleaseCallback ==
    ASSUME ReleaseInv, Callback
    PROVE  ReleaseInv'
<1> USE ReleaseFacts
<1>1. PICK evs \in SUBSET Events :
          /\ evs \cap mask # {}
          /\ steps' = StepsFor(evs \cap (mask \cup {"OUT"}))
  BY DEF Callback
<1>2. /\ ~freed /\ steps = <<>>
      /\ UNCHANGED <<sock, mask, freed, inbox, remote, n_sent, handled, accepted, wire,
                     overtaken, cut>>
  BY DEF Callback
<1> DEFINE E == evs \cap (mask \cup {"OUT"})
<1>3. E \in SUBSET Events /\ E # {}
  BY <1>1
<1> HIDE DEF E
<1>4. /\ steps' \in Remainders \ {<<"eof">>, <<"close">>}
      /\ steps' # <<>>
  BY <1>1, <1>3, StepsForRemainders DEF E
<1>5. StepsSound'
  <2>1. Written(sock)' <=> Written(sock)
    BY <1>2 DEF Written
  <2>2. sock.hup_in => ~Written(sock)
    BY <1>2 DEF StepsSound
  <2> QED BY <1>2, <1>4, <2>1, <2>2 DEF StepsSound
<1>6. SocketSound(sock')
  BY <1>2
<1>7. STypeOK'
  BY <1>2, <1>4, <1>6, TypesKept DEF STypeOK
<1> QED BY <1>5, <1>6, <1>7 DEF ReleaseInv

\* Neither of these steps ends the callback.
LEMMA ReadTypes ==
    ASSUME ReleaseInv, NEW t, SocketSound(t), NEW o \in ReadOutcomes(t),
           t.pending = sock.pending, t.out = sock.out \/ t.out = <<>>,
           steps # <<>>, Head(steps) \in {"IN", "HUP"},
           sock' = o.sock, inbox' = o.inbox, steps' = Tail(steps),
           mask' \in {mask, mask \ {"IN"}, mask \ {"HUP"}},
           cut' = CutBy(sock, o.sock),
           UNCHANGED <<freed, remote, n_sent, handled, accepted, wire, overtaken>>
    PROVE  ReleaseInv'
<1> USE ReleaseFacts
<1>1. /\ SocketSound(o.sock)
      /\ o.inbox \in Seq(Token)
      /\ o.sock.pending = t.pending
      /\ o.sock.out = t.out \/ o.sock.out = <<>>
  BY ReadSound
<1>2. steps \in Remainders /\ ~freed
  BY DEF StepsSound
<1>3. /\ steps' \in Remainders
      /\ steps' \notin {<<>>, <<"OUT", "dequeue">>, <<"eof">>, <<"close">>}
  BY <1>2, RemaindersStep
<1>4. StepsSound'
  <2>1. ~Written(o.sock) => ~Written(sock)
    BY <1>1 DEF Written
  <2>2. ~Written(o.sock) => "OUT" \in mask'
    BY <2>1 DEF StepsSound
  <2> QED BY <1>2, <1>3, <2>2 DEF StepsSound
<1>5. mask' \subseteq Events
  OBVIOUS
<1>6. STypeOK'
  BY <1>1, <1>3, <1>5, TypesKept DEF STypeOK, CutBy
<1> QED BY <1>1, <1>4, <1>6 DEF ReleaseInv

\* EPOLLIN
LEMMA ReleaseIn ==
    ASSUME ReleaseInv, DispatchIn
    PROVE  ReleaseInv'
<1> USE ReleaseFacts
<1>1. PICK o \in ReadOutcomes(sock) :
          /\ sock' = o.sock
          /\ inbox' = o.inbox
          /\ mask' = IF o.lost THEN mask \ {"IN"} ELSE mask
          /\ cut' = CutBy(sock, o.sock)
  BY DEF DispatchIn
<1>2. /\ steps # <<>> /\ Head(steps) = "IN" /\ steps' = Tail(steps)
      /\ UNCHANGED <<freed, remote, n_sent, handled, accepted, wire, overtaken>>
  BY DEF DispatchIn, AtStep
<1> QED BY <1>1, <1>2, ReadTypes

\* EPOLLHUP
LEMMA ReleaseHup ==
    ASSUME ReleaseInv, DispatchHup
    PROVE  ReleaseInv'
<1> USE ReleaseFacts
<1>1. PICK o \in ReadOutcomes(HangupOutput(sock)) :
          /\ sock' = o.sock
          /\ inbox' = o.inbox
          /\ cut' = CutBy(sock, o.sock)
  BY DEF DispatchHup
<1>2. /\ steps # <<>> /\ Head(steps) = "HUP" /\ steps' = Tail(steps)
      /\ mask' = mask \ {"HUP"}
      /\ UNCHANGED <<freed, remote, n_sent, handled, accepted, wire, overtaken>>
  BY DEF DispatchHup, AtStep
<1> DEFINE t == HangupOutput(sock)
<1>3. /\ SocketSound(t)
      /\ t.pending = sock.pending
      /\ t.out = <<>>
  BY HangupOutputSound
<1> HIDE DEF t
<1>4. o \in ReadOutcomes(t)
  BY <1>1 DEF t
<1> QED BY <1>1, <1>2, <1>3, <1>4, ReadTypes

\* By then there is nothing to write, and the callback ends; nobody was there to
\* be reset.
LEMMA ReleaseSkip ==
    ASSUME ReleaseInv, SkipOut
    PROVE  ReleaseInv'
<1> USE ReleaseFacts
<1>1. /\ steps # <<>> /\ Head(steps) = "OUT"
      /\ "OUT" \notin mask
      /\ steps' = SubSeq(steps, 3, Len(steps))
      /\ UNCHANGED <<sock, mask, freed, inbox, remote, n_sent, handled, accepted, wire,
                     overtaken, cut>>
  BY DEF SkipOut, AtStep
<1>2. steps = <<"OUT", "dequeue">> /\ ~freed
  BY <1>1, RemaindersStep DEF StepsSound
<1>3. steps' = <<>>
  BY <1>1, <1>2
<1>4. Written(sock) /\ ~sock.hup_in
  BY <1>1, <1>2 DEF StepsSound
<1>5. ~sock.reset
  BY <1>4 DEF SocketSound
<1>6. StepsSound'
  <2>1. steps' # <<"eof">>
    BY <1>3
  <2>2. Written(sock)' <=> Written(sock)
    BY <1>1 DEF Written
  <2>3. steps' \in Remainders
    BY <1>3 DEF Remainders
  <2> QED BY <1>1, <1>2, <1>4, <1>5, <2>1, <2>2, <2>3 DEF StepsSound
<1>7. SocketSound(sock')
  BY <1>1
<1>8. STypeOK'
  <2>1. steps' \in Remainders
    BY <1>3 DEF Remainders
  <2> QED BY <1>1, <1>7, <2>1, TypesKept DEF STypeOK
<1> QED BY <1>6, <1>7, <1>8 DEF ReleaseInv

\* What the kernel has passed on is released.
LEMMA ReleasedSound ==
    ASSUME ReleaseInv
    PROVE  /\ SocketSound(Released)
           /\ Released.out = sock.out /\ Released.in = sock.in
           /\ Released.hup_in = sock.hup_in /\ Released.hup_out = sock.hup_out
           /\ Released.pending = <<>>
<1> USE ReleaseFacts
<1>1. CASE sock.pending = <<>>
  BY <1>1 DEF Released
<1>2. CASE sock.pending # <<>>
  <2> DEFINE u == [sock EXCEPT !.pending = <<>>]
  <2>1. <<>> \in Seq(WithFds)
    OBVIOUS
  <2>2. /\ u \in Sockets
        /\ u.pending = <<>> /\ u.in = sock.in /\ u.out = sock.out
        /\ u.hup_in = sock.hup_in /\ u.hup_out = sock.hup_out
        /\ u.shutdown = sock.shutdown /\ u.reset = sock.reset
    BY <2>1 DEF Sockets
  <2>3. Released = MightReset(u)
    BY <1>2 DEF Released
  <2> HIDE DEF u
  <2>4. SocketSound(u)
    BY <2>2 DEF SocketSound
  <2> QED BY <2>2, <2>3, <2>4, MightResetSound, MightResetFields
<1> QED BY <1>1, <1>2

\* After a write the input queue is drained once more.
LEMMA WriteTypes ==
    ASSUME ReleaseInv, AtStep("OUT"), SocketSound(sock'), steps' = Tail(steps),
           mask' \in {mask, mask \ {"OUT"}},
           ~Written(sock') => "OUT" \in mask',
           wire' \in Seq(Messages \X Nat), cut' \in BOOLEAN, overtaken' \in BOOLEAN,
           UNCHANGED <<freed, inbox, remote, n_sent, handled, accepted>>
    PROVE  ReleaseInv'
<1> USE ReleaseFacts
<1>1. steps = <<"OUT", "dequeue">> /\ steps' = <<"dequeue">> /\ ~freed
  BY RemaindersStep, Remaining DEF StepsSound, AtStep
<1>2. /\ steps' \in Remainders
      /\ steps' \notin {<<>>, <<"OUT", "dequeue">>, <<"eof">>, <<"close">>}
  BY <1>1 DEF Remainders
<1>3. StepsSound'
  BY <1>1, <1>2 DEF StepsSound, Written
<1>4. STypeOK'
  BY <1>2, TypesKept DEF STypeOK
<1> QED BY <1>3, <1>4 DEF ReleaseInv

\* Nothing to write, descriptors in flight, EAGAIN, EPIPE
LEMMA ReleaseNoWrite ==
    ASSUME ReleaseInv, WriteNothing \/ WriteInFlight \/ WriteAgain \/ WriteFails
    PROVE  ReleaseInv'
<1> USE ReleaseFacts
<1>1. wire \in Seq(Messages \X Nat) /\ cut \in BOOLEAN /\ overtaken \in BOOLEAN
  BY DEF STypeOK
<1>2. /\ SocketSound(Released)
      /\ Released.out = sock.out /\ Released.hup_out = sock.hup_out
      /\ Released.pending = <<>>
  BY ReleasedSound
<1>3. CASE WriteNothing
  <2>1. /\ AtStep("OUT") /\ sock' = Released /\ mask' = mask \ {"OUT"}
        /\ steps' = Tail(steps)
        /\ Released.hup_out \/ Released.out = <<>>
        /\ UNCHANGED <<freed, inbox, remote, n_sent, handled, accepted, wire, overtaken, cut>>
    BY <1>3 DEF WriteNothing
  <2>2. Written(sock')
    BY <1>2, <2>1 DEF Written, SocketSound
  <2> QED BY <1>1, <1>2, <2>1, <2>2, WriteTypes
<1>4. CASE WriteAgain
  <2>1. /\ AtStep("OUT") /\ sock' = Released /\ mask' = mask /\ "OUT" \in mask
        /\ steps' = Tail(steps)
        /\ UNCHANGED <<freed, inbox, remote, n_sent, handled, accepted, wire, overtaken, cut>>
    BY <1>4 DEF WriteAgain
  <2> QED BY <1>1, <1>2, <2>1, WriteTypes
<1>5. CASE WriteFails
  <2>1. /\ AtStep("OUT") /\ sock' = HangupOutput(Released) /\ mask' = mask \ {"OUT"}
        /\ steps' = Tail(steps) /\ cut' = TRUE
        /\ UNCHANGED <<freed, inbox, remote, n_sent, handled, accepted, wire, overtaken>>
    BY <1>5 DEF WriteFails
  <2>2. SocketSound(sock') /\ sock'.out = <<>> /\ sock'.pending = <<>>
    BY <1>2, <2>1, HangupOutputSound
  <2>3. Written(sock')
    BY <2>2 DEF Written
  <2> QED BY <1>1, <2>1, <2>2, <2>3, WriteTypes
<1>6. CASE WriteInFlight
  <2>1. /\ AtStep("OUT") /\ sock' = sock /\ mask' = mask /\ "OUT" \in mask
        /\ steps' = Tail(steps)
        /\ UNCHANGED <<freed, inbox, remote, n_sent, handled, accepted, wire,
                       overtaken, cut>>
    BY <1>6 DEF WriteInFlight
  <2> QED BY <1>1, <2>1, WriteTypes
<1> QED BY <1>3, <1>4, <1>5, <1>6

\* socket_dispatch_write() after sendmmsg(): a shutdown that waited happens.
LEMMA AfterSendSound ==
    ASSUME NEW s, SocketSound(s), ~s.hup_out, NEW n, NEW parts, Sendable(s.out, parts, n)
    PROVE  LET c == Consume(s, parts)
               t == AfterSend(c)
           IN  /\ SocketSound(t)
               /\ t.out = c.out /\ t.in = s.in
               /\ t.hup_in = s.hup_in
               /\ t.hup_out => t.out = <<>>
<1> DEFINE c == Consume(s, parts)
           t == AfterSend(c)
<1>1. /\ c \in Sockets
      /\ \A i \in 1 .. Len(c.out) : c.out[i].left <= Length[c.out[i].msg]
      /\ c.in = s.in /\ c.hup_in = s.hup_in /\ c.hup_out = s.hup_out
      /\ c.shutdown = s.shutdown /\ c.reset = s.reset
  BY ConsumeFields
<1> HIDE DEF c
<1>2. ~s.reset
  BY DEF SocketSound
<1>3. CASE c.out = <<>> /\ c.shutdown
  <2> DEFINE u == [c EXCEPT !.hup_out = TRUE, !.out = <<>>]
  <2>1. <<>> \in Seq(Buffers)
    OBVIOUS
  <2>2. /\ u \in Sockets
        /\ u.hup_out /\ u.out = <<>> /\ u.in = c.in
        /\ u.hup_in = c.hup_in /\ u.reset = c.reset /\ u.pending = c.pending
    BY <1>1, <2>1 DEF Sockets
  <2>3. t = MightReset(u)
    BY <1>1, <1>3 DEF AfterSend, HangupOutput
  <2> HIDE DEF u
  <2>4. SocketSound(u)
    BY <1>1, <1>2, <2>2 DEF SocketSound
  <2>5. /\ SocketSound(t)
        /\ t.out = u.out /\ t.in = u.in /\ t.hup_in = u.hup_in
    BY <2>2, <2>3, <2>4, MightResetSound, MightResetFields
  <2> HIDE DEF t
  <2>6. t.out = c.out /\ t.in = s.in /\ t.hup_in = s.hup_in /\ t.out = <<>>
    BY <1>1, <1>3, <2>2, <2>5
  <2> QED BY <2>5, <2>6 DEF t, c
<1>4. CASE ~(c.out = <<>> /\ c.shutdown)
  <2>1. t = c
    BY <1>4 DEF AfterSend
  <2>2. SocketSound(c)
    BY <1>1, <1>2, <1>4 DEF SocketSound
  <2> QED BY <1>1, <2>1, <2>2 DEF c
<1> QED BY <1>3, <1>4

\* Whatever batch the kernel takes, it may be sent.
LEMMA BatchSendable ==
    ASSUME NEW out, Len(out) \in Nat, \A i \in 1 .. Len(out) : out[i].left \in Nat,
           NEW n \in Batch(out), NEW X, NEW parts \in [1 .. n -> X], MaySend(out, parts)
    PROVE  Sendable(out, parts, n)
<1>1. n \in 1 .. Len(out)
  BY DEF Batch
<1>2. \A i \in 1 .. n : parts[i] \in 1 .. out[i].left /\ i \in 1 .. Len(out)
  BY <1>1 DEF MaySend
<1>3. \A i \in 1 .. n : parts[i] \in Nat
  BY <1>2
<1> QED BY <1>1, <1>2, <1>3 DEF Sendable

\* What a write of the kernel amounts to.
LEMMA WriteFacts ==
    ASSUME ReleaseInv, WriteSome
    PROVE  \E n, parts :
              /\ Sendable(sock.out, parts, n)
              /\ MaySend(sock.out, parts)
              /\ sock' = AfterSend(Consume(Released, parts))
              /\ wire' = wire \o SentPieces(sock.out, parts)
              /\ overtaken' = (overtaken \/ Overtakes(sock.out, parts))
              /\ mask' = MaskAfterWrite(sock')
<1> USE ReleaseFacts
<1>1. Released.out = sock.out
  BY ReleasedSound
<1>2. PICK n \in Batch(Released.out) :
        \E parts \in [1 .. n -> 1 .. Max({Length[m] : m \in Messages})] :
          /\ MaySend(Released.out, parts)
          /\ sock' = AfterSend(Consume(Released, parts))
          /\ wire' = wire \o SentPieces(Released.out, parts)
          /\ overtaken' = (overtaken \/ Overtakes(Released.out, parts))
          /\ mask' = MaskAfterWrite(AfterSend(Consume(Released, parts)))
  BY DEF WriteSome
<1> DEFINE X == 1 .. Max({Length[m] : m \in Messages})
<1>3. PICK parts \in [1 .. n -> X] :
          /\ MaySend(Released.out, parts)
          /\ sock' = AfterSend(Consume(Released, parts))
          /\ wire' = wire \o SentPieces(Released.out, parts)
          /\ overtaken' = (overtaken \/ Overtakes(Released.out, parts))
          /\ mask' = MaskAfterWrite(AfterSend(Consume(Released, parts)))
  BY <1>2
<1> HIDE DEF X
<1>4. Sendable(sock.out, parts, n)
  BY <1>1, <1>2, <1>3, BufferFields, BatchSendable
<1> QED BY <1>1, <1>3, <1>4

\* sendmmsg() sent something.
LEMMA ReleaseWrite ==
    ASSUME ReleaseInv, WriteSome
    PROVE  ReleaseInv'
<1> USE ReleaseFacts
<1>1. PICK n, parts :
              /\ Sendable(sock.out, parts, n)
              /\ MaySend(sock.out, parts)
              /\ sock' = AfterSend(Consume(Released, parts))
              /\ wire' = wire \o SentPieces(sock.out, parts)
              /\ mask' = MaskAfterWrite(sock')
  BY WriteFacts
<1>2. /\ AtStep("OUT") /\ "OUT" \in mask /\ ~Released.hup_out
      /\ steps' = Tail(steps)
      /\ overtaken' \in BOOLEAN
      /\ UNCHANGED <<freed, inbox, remote, n_sent, handled, accepted, cut>>
  BY DEF WriteSome
<1>3. SocketSound(Released) /\ Released.out = sock.out
  BY ReleasedSound
<1>4. SocketSound(sock')
  BY <1>1, <1>2, <1>3, AfterSendSound
<1>5. wire' \in Seq(Messages \X Nat) /\ cut' \in BOOLEAN
  <2>1. SentPieces(sock.out, parts) \in Seq(Messages \X Nat)
    BY <1>1, SentType
  <2>2. wire \in Seq(Messages \X Nat) /\ cut \in BOOLEAN
    BY DEF STypeOK
  <2> QED BY <1>1, <1>2, <2>1, <2>2, ConcatProperties
<1>6. /\ mask' \in {mask, mask \ {"OUT"}}
      /\ ~Written(sock') => "OUT" \in mask'
  BY <1>1, <1>2 DEF MaskAfterWrite, Written
<1> QED BY <1>2, <1>4, <1>5, <1>6, WriteTypes

\* The input queue is drained: either the callback goes on, and nobody has hung
\* up, or the peer says goodbye.
LEMMA ReleaseDrained ==
    ASSUME ReleaseInv, DequeueNothing
    PROVE  ReleaseInv'
<1> USE ReleaseFacts
<1> DEFINE t == MightReset(sock)
<1>1. /\ steps # <<>> /\ Head(steps) = "dequeue"
      /\ sock.in = <<>>
      /\ sock' = t
      /\ steps' = IF sock.hup_in THEN <<"eof">> ELSE Tail(steps)
      /\ UNCHANGED <<mask, freed, inbox, remote, n_sent, handled, accepted, wire, overtaken, cut>>
  BY DEF DequeueNothing, AtStep
<1>2. /\ SocketSound(t)
      /\ t.hup_in = sock.hup_in /\ t.hup_out = sock.hup_out
      /\ t.out = sock.out /\ t.pending = sock.pending
      /\ t.reset = (sock.reset \/ (sock.hup_in /\ sock.hup_out /\ sock.pending = <<>>
                                   /\ sock.in = <<>>))
  BY MightResetSound, MightResetFields
<1> HIDE DEF t
<1>3. steps \in Remainders /\ ~freed
  BY <1>1 DEF StepsSound
<1>4. ~Written(t) => "OUT" \in mask'
  BY <1>1, <1>2 DEF StepsSound, Written
<1>5. CASE sock.hup_in
  <2>1. steps' = <<"eof">> /\ steps' \in Remainders
    BY <1>1, <1>5 DEF Remainders
  <2>2. steps' \notin {<<>>, <<"OUT", "dequeue">>}
    BY <2>1
  <2>3. StepsSound'
    BY <1>1, <1>2, <1>3, <1>4, <1>5, <2>1, <2>2 DEF StepsSound
  <2>4. STypeOK'
    BY <1>1, <1>2, <2>1, TypesKept DEF STypeOK
  <2> QED BY <1>1, <1>2, <2>3, <2>4 DEF ReleaseInv
<1>6. CASE ~sock.hup_in
  <2>1. steps' \in {<<>>, <<"OUT", "dequeue">>}
    BY <1>1, <1>3, <1>6, RemaindersStep
  <2>2. steps' # <<"eof">> /\ steps' \in Remainders
    <3>1. <<>> # <<"eof">> /\ <<"OUT", "dequeue">> # <<"eof">>
      OBVIOUS
    <3>2. steps' \in Remainders
      BY <2>1 DEF Remainders
    <3> QED BY <2>1, <3>1, <3>2
  <2>3. ~t.reset
    BY <1>2, <1>6 DEF SocketSound
  <2>4. StepsSound'
    BY <1>1, <1>2, <1>3, <1>4, <1>6, <2>2, <2>3 DEF StepsSound
  <2>5. STypeOK'
    BY <1>1, <1>2, <2>2, TypesKept DEF STypeOK
  <2> QED BY <1>1, <1>2, <2>4, <2>5 DEF ReleaseInv
<1> QED BY <1>5, <1>6

\* A message is dispatched, or disconnects the client.
LEMMA ReleaseMessage ==
    ASSUME ReleaseInv, DequeueMessage
    PROVE  ReleaseInv'
<1> USE ReleaseFacts
<1> DEFINE t == [sock EXCEPT !.in = Tail(@)]
<1>1. /\ steps # <<>> /\ Head(steps) = "dequeue"
      /\ sock.in # <<>>
      /\ sock' = t
      /\ \/ handled' = Append(handled, Head(sock.in).id) /\ steps' = steps
         \/ handled' = handled /\ steps' = <<"close">>
      /\ UNCHANGED <<mask, freed, inbox, remote, n_sent, accepted, wire, overtaken, cut>>
  BY DEF DequeueMessage, AtStep
<1>2. sock.in \in Seq(Token)
  BY DEF Sockets
<1>3. Tail(sock.in) \in Seq(Token) /\ Head(sock.in) \in Token
  BY <1>1, <1>2
<1>4. /\ t \in Sockets
      /\ t.hup_in = sock.hup_in /\ t.hup_out = sock.hup_out
      /\ t.out = sock.out /\ t.pending = sock.pending
      /\ t.shutdown = sock.shutdown /\ t.reset = sock.reset
  BY <1>3 DEF Sockets
<1> HIDE DEF t
<1>5. ~sock.hup_in /\ ~sock.reset
  BY <1>1 DEF SocketSound
<1>6. SocketSound(t)
  BY <1>4, <1>5 DEF SocketSound
<1>7. /\ steps' \in Remainders
      /\ steps' # <<>> /\ steps' # <<"eof">>
  BY <1>1, Remaining DEF StepsSound, Remainders
<1>8. StepsSound'
  BY <1>1, <1>4, <1>5, <1>7 DEF StepsSound, Written
<1>9. handled' \in Seq(1 .. MaxSent)
  <2>1. Head(sock.in).id \in 1 .. MaxSent
    BY <1>3 DEF Token
  <2>2. handled \in Seq(1 .. MaxSent)
    BY DEF STypeOK
  <2> QED BY <1>1, <2>1, <2>2, AppendProperties, ZenonT(60)
<1>10. STypeOK'
  BY <1>1, <1>6, <1>7, <1>9, TypesKept DEF STypeOK
<1> QED BY <1>1, <1>6, <1>8, <1>10 DEF ReleaseInv

\* A message that cannot be delimited: socket_close(), then the goodbye.
LEMMA ReleaseCorrupt ==
    ASSUME ReleaseInv, DequeueCorrupt
    PROVE  ReleaseInv'
<1> USE ReleaseFacts
<1> DEFINE t == Close(sock)
<1>1. /\ steps # <<>>
      /\ sock' = t /\ steps' = <<"eof">>
      /\ UNCHANGED <<mask, freed, inbox, remote, n_sent, handled, accepted, wire, overtaken, cut>>
  BY DEF DequeueCorrupt, AtStep
<1>2. /\ SocketSound(t) /\ t.hup_in
      /\ t.out = sock.out /\ t.pending = sock.pending
      /\ t.hup_out /\ t.pending = <<>> => t.reset
  BY CloseSound
<1> HIDE DEF t
<1>3. ~freed
  BY <1>1 DEF StepsSound
<1>4. steps' \in Remainders /\ steps' \notin {<<>>, <<"OUT", "dequeue">>}
  BY <1>1 DEF Remainders
<1>5. StepsSound'
  BY <1>1, <1>2, <1>3, <1>4 DEF StepsSound, Written
<1>6. STypeOK'
  BY <1>1, <1>2, <1>4, TypesKept DEF STypeOK
<1> QED BY <1>1, <1>2, <1>5, <1>6 DEF ReleaseInv

\* At the end of a callback the peer is freed if its socket is reset, and if it is
\* not there is something to write.
LEMMA ReleaseEnds ==
    ASSUME ReleaseInv, steps # <<>>, SocketSound(sock'), steps' = <<>>,
           freed' = sock'.reset,
           sock'.out = sock.out, sock'.pending = sock.pending,
           ~sock'.reset => ~Written(sock'),
           mask' \in {mask, mask \cup {"HUP"}},
           UNCHANGED <<inbox, remote, n_sent, handled, accepted, wire, overtaken, cut>>
    PROVE  ReleaseInv'
<1> USE ReleaseFacts
<1>1. steps' \in Remainders /\ steps' # <<"eof">>
  BY DEF Remainders
<1>2. ~Written(sock') => "OUT" \in mask'
  BY DEF StepsSound, Written
<1>3. StepsSound'
  BY <1>1, <1>2 DEF StepsSound, Written
<1>4. mask' \subseteq Events
  BY DEF Events
<1>5. sock'.reset \in BOOLEAN
  BY DEF SocketSound, Sockets
<1>6. STypeOK'
  BY <1>1, <1>4, <1>5, TypesKept DEF STypeOK
<1> QED BY <1>3, <1>6 DEF ReleaseInv

\* PEER_E_EOF
LEMMA ReleaseEof ==
    ASSUME ReleaseInv, EndOfFile
    PROVE  ReleaseInv'
<1> USE ReleaseFacts
<1> DEFINE t == Shutdown(sock)
<1>1. /\ steps # <<>> /\ Head(steps) = "eof"
      /\ sock' = t
      /\ mask' = IF t.reset THEN mask \cup {"HUP"} ELSE mask
      /\ freed' = sock'.reset
      /\ steps' = <<>>
      /\ UNCHANGED <<inbox, remote, n_sent, handled, accepted, wire, overtaken, cut>>
  BY DEF EndOfFile, AtStep, ConnectionShutdown
<1>2. /\ SocketSound(t)
      /\ t.out = sock.out /\ t.pending = sock.pending
      /\ t.reset = (sock.reset \/ (~sock.hup_out /\ sock.hup_in /\ Written(sock)))
  BY ShutdownSound
<1> HIDE DEF t
<1>3. /\ sock.hup_in
      /\ sock.hup_out /\ sock.pending = <<>> => sock.reset
  BY <1>1, RemaindersStep DEF StepsSound
<1>4. ~t.reset => ~Written(t)
  BY <1>2, <1>3 DEF Written
<1> QED BY <1>1, <1>2, <1>4, ReleaseEnds

\* PEER_E_QUOTA and PEER_E_PROTOCOL_VIOLATION
LEMMA ReleaseDisconnect ==
    ASSUME ReleaseInv, Disconnect
    PROVE  ReleaseInv'
<1> USE ReleaseFacts
<1> DEFINE t == Close(sock)
<1>1. /\ steps # <<>>
      /\ sock' = t
      /\ freed' = sock'.reset
      /\ steps' = <<>>
      /\ mask' = mask
      /\ UNCHANGED <<inbox, remote, n_sent, handled, accepted, wire, overtaken, cut>>
  BY DEF Disconnect, AtStep
<1>2. /\ SocketSound(t)
      /\ t.out = sock.out /\ t.pending = sock.pending
      /\ Written(sock) => t.reset
  BY CloseSound
<1> HIDE DEF t
<1>3. ~t.reset => ~Written(t)
  BY <1>2 DEF Written
<1> QED BY <1>1, <1>2, <1>3, ReleaseEnds

\* Every step keeps the invariant.
LEMMA ReleaseStep == ReleaseInv /\ [SNext]_svars => ReleaseInv'
<1> SUFFICES ASSUME ReleaseInv, [SNext]_svars PROVE ReleaseInv'
  OBVIOUS
<1>1. CASE UNCHANGED svars
  BY <1>1 DEF svars, ReleaseInv, STypeOK, SocketSound, StepsSound, Written
<1>2. CASE ClientSend \/ ClientHalfClose \/ ClientClose
  BY <1>2, ReleaseClient
<1>3. CASE QueueRefused
  BY <1>3, ReleaseRefused
<1>4. CASE \E m \in Messages : Queue(m)
  BY <1>4, ReleaseQueue
<1>5. CASE Callback
  BY <1>5, ReleaseCallback
<1>6. CASE DispatchIn \/ DispatchHup
  BY <1>6, ReleaseIn, ReleaseHup
<1>7. CASE SkipOut \/ WriteNothing \/ WriteInFlight \/ WriteAgain \/ WriteFails \/ WriteSome
  BY <1>7, ReleaseSkip, ReleaseNoWrite, ReleaseWrite
<1>8. CASE DequeueNothing \/ DequeueMessage \/ DequeueCorrupt
  BY <1>8, ReleaseDrained, ReleaseMessage, ReleaseCorrupt
<1>9. CASE EndOfFile \/ Disconnect
  BY <1>9, ReleaseEof, ReleaseDisconnect
<1> QED BY <1>1, <1>2, <1>3, <1>4, <1>5, <1>6, <1>7, <1>8, <1>9 DEF SNext, Step

\* For any messages and any client: a peer whose connection is reset is freed
\* before its callback returns, it leaves no buffer behind, one that can no longer
\* be heard stays only to flush what it is owed, and is watched for it
\* (peer_dispatch(), socket_might_reset()).
THEOREM ConnectionReleased == SSpec => []ReleasedWhenDone
<1>1. SInit => ReleaseInv
  BY ReleaseInit
<1>2. ReleaseInv /\ [SNext]_svars => ReleaseInv'
  BY ReleaseStep
<1>3. ReleaseInv => ReleasedWhenDone
  <2> SUFFICES ASSUME ReleaseInv PROVE ReleasedWhenDone
    OBVIOUS
  <2>1. STypeOK /\ SocketSound(sock) /\ StepsSound
    BY DEF ReleaseInv
  <2>2. ResetMeansFreed
    BY <2>1 DEF StepsSound, ResetMeansFreed
  <2>3. FreedIsEmpty
    BY <2>1 DEF StepsSound, SocketSound, FreedIsEmpty
  <2>4. LingersOnlyToFlush
    BY <2>1 DEF StepsSound, LingersOnlyToFlush, Written
  <2>5. OutputIsWatched
    BY <2>1 DEF StepsSound, OutputIsWatched, Written
  <2> QED BY <2>1, <2>2, <2>3, <2>4, <2>5 DEF ReleasedWhenDone
<1> QED BY <1>1, <1>2, <1>3, PTL DEF SSpec

-----------------------------------------------------------------------------
(* What the client sent is handled in order *)

Input == InOrder /\ InputOrdered

\* Nothing is read, and the input is not opened again.
LEMMA InputQuiet ==
    ASSUME Input, UNCHANGED <<handled, inbox, n_sent>>, sock'.in = sock.in,
           sock.hup_in => sock'.hup_in,
           steps' # <<"close">> /\ ~sock'.hup_in => steps # <<"close">>
    PROVE  Input'
BY DEF Input, InOrder, InputOrdered

\* The input is given up.
LEMMA InputGivenUp ==
    ASSUME Input, UNCHANGED handled, sock'.hup_in \/ steps' = <<"close">>
    PROVE  Input'
BY DEF Input, InOrder, InputOrdered

\* One more at the end.
LEMMA OneMore ==
    ASSUME NEW a \in Nat, NEW b \in Nat, NEW c \in Nat, NEW n, n = a + b + c
    PROVE  n + 1 = a + b + (c + 1)
OBVIOUS

\* The client sends one more.
LEMMA InputSend ==
    ASSUME ReleaseInv, Input, ClientSend
    PROVE  Input'
<1> USE ReleaseFacts
<1>1. PICK kind \in Kinds : inbox' = Append(inbox, [id |-> n_sent + 1, kind |-> kind])
  BY DEF ClientSend
<1>2. n_sent' = n_sent + 1 /\ UNCHANGED <<sock, steps, handled>>
  BY DEF ClientSend
<1>3. InOrder'
  BY <1>2 DEF Input, InOrder
<1>4. ASSUME ~sock'.hup_in, steps' # <<"close">>
      PROVE  /\ n_sent' = Len(handled') + Len(sock'.in) + Len(inbox')
             /\ \A i \in 1 .. Len(sock'.in) : sock'.in[i].id = Len(handled') + i
             /\ \A i \in 1 .. Len(inbox') : inbox'[i].id = Len(handled') + Len(sock'.in) + i
  <2>1. /\ n_sent = Len(handled) + Len(sock.in) + Len(inbox)
        /\ \A i \in 1 .. Len(sock.in) : sock.in[i].id = Len(handled) + i
        /\ \A i \in 1 .. Len(inbox) : inbox[i].id = Len(handled) + Len(sock.in) + i
    BY <1>2, <1>4 DEF Input, InputOrdered
  <2>2. /\ Len(handled) \in Nat /\ Len(sock.in) \in Nat /\ Len(inbox) \in Nat
        /\ n_sent \in Int
    BY SocketAssumption DEF STypeOK, Sockets
  <2> DEFINE x == [id |-> n_sent + 1, kind |-> kind]
  <2>3. x.id = n_sent + 1
    OBVIOUS
  <2>4. n_sent = Len(handled) + Len(sock.in) + Len(inbox)
    BY <2>1
  <2>5. n_sent + 1 = Len(handled) + Len(sock.in) + (Len(inbox) + 1)
    <3> DEFINE a == Len(handled)
               b == Len(sock.in)
               c == Len(inbox)
    <3>1. a \in Nat /\ b \in Nat /\ c \in Nat /\ n_sent = a + b + c
      BY <2>2, <2>4
    <3> HIDE ReleaseFacts DEF a, b, c
    <3>2. n_sent + 1 = a + b + (c + 1)
      BY ONLY <3>1, OneMore
    <3> QED BY <3>2 DEF a, b, c
  <2>6. x \in Token
    <3>1. n_sent \in 0 .. MaxSent /\ n_sent < MaxSent
      BY DEF STypeOK, ClientSend
    <3> QED BY <3>1, SocketAssumption DEF Token
  <2> HIDE DEF x
  <2>7. /\ inbox' = Append(inbox, x)
        /\ Len(inbox') = Len(inbox) + 1
        /\ \A i \in 1 .. Len(inbox) : inbox'[i] = inbox[i]
        /\ inbox'[Len(inbox) + 1] = x
    BY <1>1, <2>6, AppendProperties DEF x
  <2>8. \A i \in 1 .. Len(inbox) + 1 : i \in 1 .. Len(inbox) \/ i = Len(inbox) + 1
    BY <2>2
  <2>9. \A i \in 1 .. Len(inbox') : inbox'[i].id = Len(handled) + Len(sock.in) + i
    <3> SUFFICES ASSUME NEW i \in 1 .. Len(inbox) + 1
                 PROVE  inbox'[i].id = Len(handled) + Len(sock.in) + i
      BY <2>7
    <3>1. CASE i \in 1 .. Len(inbox)
      BY <2>1, <2>7, <3>1
    <3>2. CASE i = Len(inbox) + 1
      <4>1. inbox'[i].id = n_sent + 1
        BY <2>3, <2>7, <3>2
      <4> QED BY <2>5, <3>2, <4>1, Zenon
    <3> QED BY <2>8, <3>1, <3>2
  <2>10. n_sent' = Len(handled') + Len(sock'.in) + Len(inbox')
    BY <1>2, <2>7, <2>5
  <2> QED BY <1>2, <2>1, <2>9, <2>10
<1> QED BY <1>3, <1>4 DEF Input, InputOrdered

\* socket_dispatch_read()
LEMMA InputRead ==
    ASSUME ReleaseInv, Input, NEW t, SocketSound(t), NEW o \in ReadOutcomes(t),
           t.in = sock.in, t.hup_in = sock.hup_in,
           steps # <<"close">>,
           sock' = o.sock, inbox' = o.inbox, UNCHANGED <<handled, n_sent>>
    PROVE  Input'
<1> USE ReleaseFacts
<1>1. ~o.sock.hup_in =>
                 /\ ~t.hup_in
                 /\ \/ o.sock.in = t.in /\ o.inbox = inbox
                    \/ /\ t.in = <<>>
                       /\ \E k \in 1 .. Len(inbox) :
                             /\ o.sock.in = SubSeq(inbox, 1, k)
                             /\ o.inbox = SubSeq(inbox, k + 1, Len(inbox))
  BY ReadSound
<1>2. CASE sock'.hup_in
  BY <1>2, InputGivenUp
<1>3. CASE ~sock'.hup_in /\ o.sock.in = t.in /\ o.inbox = inbox
  BY <1>1, <1>3, InputQuiet
<1>4. CASE /\ ~sock'.hup_in
           /\ t.in = <<>>
           /\ \E k \in 1 .. Len(inbox) :
                 /\ o.sock.in = SubSeq(inbox, 1, k)
                 /\ o.inbox = SubSeq(inbox, k + 1, Len(inbox))
  <2>1. PICK k \in 1 .. Len(inbox) : /\ sock'.in = SubSeq(inbox, 1, k)
                                     /\ inbox' = SubSeq(inbox, k + 1, Len(inbox))
    BY <1>4
  <2>2. /\ n_sent = Len(handled) + Len(inbox)
        /\ \A i \in 1 .. Len(inbox) : inbox[i].id = Len(handled) + i
    <3>1. Len(handled) \in Nat /\ Len(inbox) \in Nat /\ Len(sock.in) = 0
      BY <1>4 DEF STypeOK
    <3>2. /\ n_sent = Len(handled) + Len(sock.in) + Len(inbox)
          /\ \A i \in 1 .. Len(inbox) : inbox[i].id = Len(handled) + Len(sock.in) + i
      BY <1>1, <1>4 DEF Input, InputOrdered
    <3> QED BY <3>1, <3>2
  <2>3. Len(handled) \in Nat /\ Len(inbox) \in Nat /\ k \in Nat
    BY DEF STypeOK
  <2>4. /\ Len(sock'.in) = k
        /\ \A i \in 1 .. k : sock'.in[i] = inbox[i]
    BY <2>1, <2>3
  <2>5. /\ Len(inbox') = Len(inbox) - k
        /\ \A i \in 1 .. Len(inbox) - k : inbox'[i] = inbox[k + i]
    BY <2>1, <2>3
  <2>6. \A i \in 1 .. k : sock'.in[i].id = Len(handled) + i
    <3>1. \A i \in 1 .. k : i \in 1 .. Len(inbox)
      BY <2>3
    <3> QED BY <2>2, <2>4, <3>1
  <2>7. \A i \in 1 .. Len(inbox) - k : inbox'[i].id = Len(handled) + k + i
    <3> SUFFICES ASSUME NEW i \in 1 .. Len(inbox) - k
                 PROVE  inbox'[i].id = Len(handled) + k + i
      OBVIOUS
    <3>1. k + i \in 1 .. Len(inbox)
      BY <2>3
    <3>2. inbox[k + i].id = Len(handled) + (k + i)
      BY <2>2, <3>1
    <3> QED BY <2>3, <2>5, <3>2
  <2>8. n_sent = Len(handled) + k + (Len(inbox) - k)
    BY <2>2, <2>3
  <2>9. InputOrdered'
    BY <2>4, <2>5, <2>6, <2>7, <2>8 DEF InputOrdered
  <2>10. InOrder'
    BY DEF Input, InOrder
  <2> QED BY <2>9, <2>10 DEF Input
<1> QED BY <1>1, <1>2, <1>3, <1>4

\* A message is handled, or is the last one.
LEMMA InputMessage ==
    ASSUME ReleaseInv, Input, DequeueMessage
    PROVE  Input'
<1> USE ReleaseFacts
<1> DEFINE t == [sock EXCEPT !.in = Tail(@)]
<1>1. /\ steps # <<>> /\ Head(steps) = "dequeue"
      /\ sock.in # <<>>
      /\ sock' = t
      /\ \/ handled' = Append(handled, Head(sock.in).id) /\ steps' = steps
         \/ handled' = handled /\ steps' = <<"close">>
      /\ UNCHANGED <<inbox, n_sent>>
  BY DEF DequeueMessage, AtStep
<1>2. sock'.in = Tail(sock.in)
  BY <1>1 DEF Sockets
<1>3. CASE handled' = handled /\ steps' = <<"close">>
  BY <1>3, InputGivenUp
<1>4. CASE handled' = Append(handled, Head(sock.in).id) /\ steps' = steps
  <2>1. ~sock.hup_in /\ steps # <<"close">>
    BY <1>1, Remaining DEF SocketSound
  <2> DEFINE q == sock.in
             x == Head(q).id
  <2>2. /\ n_sent = Len(handled) + Len(q) + Len(inbox)
        /\ \A i \in 1 .. Len(q) : q[i].id = Len(handled) + i
        /\ \A i \in 1 .. Len(inbox) : inbox[i].id = Len(handled) + Len(q) + i
    BY <2>1 DEF Input, InputOrdered
  <2>3. q \in Seq(Token) /\ q # <<>> /\ handled \in Seq(1 .. MaxSent)
    BY <1>1 DEF Sockets, STypeOK
  <2>4. sock'.in = Tail(q)
    BY <1>2
  <2> HIDE DEF q
  <2>5. /\ Len(Tail(q)) = Len(q) - 1
        /\ \A i \in 1 .. Len(q) - 1 : Tail(q)[i] = q[i + 1]
        /\ Head(q) = q[1] /\ Head(q) \in Token
        /\ Len(q) \in Nat \ {0} /\ Len(handled) \in Nat /\ Len(inbox) \in Nat
    BY <2>3, HeadTailProperties
  <2>6. x = Len(handled) + 1 /\ x \in 1 .. MaxSent
    BY <2>2, <2>5 DEF Token
  <2> HIDE DEF x
  <2>7. /\ handled' = Append(handled, x)
        /\ Len(handled') = Len(handled) + 1
        /\ \A i \in 1 .. Len(handled) : handled'[i] = handled[i]
        /\ handled'[Len(handled) + 1] = x
    BY <1>4, <2>3, <2>6, AppendProperties DEF x, q
  <2>8. InOrder'
    <3>1. \A i \in 1 .. Len(handled) + 1 : i \in 1 .. Len(handled) \/ i = Len(handled) + 1
      BY <2>5
    <3>2. \A i \in 1 .. Len(handled) : handled[i] = i
      BY DEF Input, InOrder
    <3> QED BY <2>6, <2>7, <3>1, <3>2 DEF InOrder
  <2>9. /\ n_sent = Len(handled') + Len(sock'.in) + Len(inbox)
        /\ \A i \in 1 .. Len(inbox) : inbox[i].id = Len(handled') + Len(sock'.in) + i
    BY <2>2, <2>4, <2>5, <2>7
  <2>10. \A i \in 1 .. Len(sock'.in) : sock'.in[i].id = Len(handled') + i
    <3> SUFFICES ASSUME NEW i \in 1 .. Len(q) - 1
                 PROVE  Tail(q)[i].id = Len(handled') + i
      BY <2>4, <2>5
    <3>1. i + 1 \in 1 .. Len(q) /\ i \in Nat
      BY <2>5
    <3>2. q[i + 1].id = Len(handled) + (i + 1)
      BY <2>2, <3>1
    <3> QED BY <2>5, <2>7, <3>1, <3>2
  <2> QED BY <1>1, <2>8, <2>9, <2>10 DEF Input, InputOrdered
<1> QED BY <1>1, <1>3, <1>4

\* Every step keeps the input in order.
LEMMA InputStep ==
    ASSUME ReleaseInv, Input, [SNext]_svars
    PROVE  Input'
<1> USE ReleaseFacts
<1>1. CASE UNCHANGED svars
  BY <1>1 DEF svars, Input, InOrder, InputOrdered
<1>2. CASE ClientSend
  BY <1>2, InputSend
<1>3. CASE ClientHalfClose \/ ClientClose
  <2>1. UNCHANGED <<sock, steps, handled, inbox, n_sent>>
    BY <1>3 DEF ClientHalfClose, ClientClose
  <2> QED BY <2>1, InputQuiet
<1>4. CASE QueueRefused
  <2>1. sock' = Shutdown(sock) /\ UNCHANGED <<steps, handled, inbox, n_sent>>
    BY <1>4 DEF QueueRefused, ConnectionShutdown
  <2>2. sock'.in = sock.in /\ sock'.hup_in = sock.hup_in
    BY <2>1, ShutdownSound
  <2> QED BY <2>1, <2>2, InputQuiet
<1>5. CASE \E m \in Messages : Queue(m)
  <2>1. PICK m \in Messages : Queue(m)
    BY <1>5
  <2>2. /\ sock' = [sock EXCEPT !.out = Append(@, [msg |-> m, left |-> Length[m]])]
        /\ UNCHANGED <<steps, handled, inbox, n_sent>>
    BY <2>1 DEF Queue
  <2>3. sock'.in = sock.in /\ sock'.hup_in = sock.hup_in
    BY <2>2 DEF Sockets
  <2> QED BY <2>2, <2>3, InputQuiet
<1>6. CASE Callback
  <2>1. steps = <<>> /\ UNCHANGED <<sock, handled, inbox, n_sent>>
    BY <1>6 DEF Callback
  <2>2. steps # <<"close">>
    BY <2>1
  <2> QED BY <2>1, <2>2, InputQuiet
<1>7. CASE DispatchIn
  <2>1. PICK o \in ReadOutcomes(sock) : sock' = o.sock /\ inbox' = o.inbox
    BY <1>7 DEF DispatchIn
  <2>2. steps # <<"close">> /\ UNCHANGED <<handled, n_sent>>
    BY <1>7, Remaining DEF DispatchIn, AtStep
  <2> QED BY <2>1, <2>2, InputRead
<1>8. CASE DispatchHup
  <2> DEFINE t == HangupOutput(sock)
  <2>1. PICK o \in ReadOutcomes(t) : sock' = o.sock /\ inbox' = o.inbox
    BY <1>8 DEF DispatchHup
  <2>2. steps # <<"close">> /\ UNCHANGED <<handled, n_sent>>
    BY <1>8, Remaining DEF DispatchHup, AtStep
  <2>3. SocketSound(t) /\ t.in = sock.in /\ t.hup_in = sock.hup_in
    BY HangupOutputSound
  <2> HIDE DEF t
  <2> QED BY <2>1, <2>2, <2>3, InputRead
<1>9. CASE SkipOut
  <2>1. Head(steps) = "OUT" /\ UNCHANGED <<sock, handled, inbox, n_sent>>
    BY <1>9 DEF SkipOut, AtStep
  <2>2. steps # <<"close">>
    BY <2>1, Remaining
  <2> QED BY <2>1, <2>2, InputQuiet
<1>10. CASE WriteNothing \/ WriteInFlight \/ WriteAgain \/ WriteFails \/ WriteSome
  <2>1. steps # <<"close">> /\ UNCHANGED <<handled, inbox, n_sent>>
    BY <1>10, Remaining DEF WriteNothing, WriteInFlight, WriteAgain, WriteFails,
                            WriteSome, AtStep
  <2>2. SocketSound(Released) /\ Released.in = sock.in /\ Released.hup_in = sock.hup_in
        /\ Released.out = sock.out
    BY ReleasedSound
  <2>3. sock'.in = sock.in /\ sock'.hup_in = sock.hup_in
    <3>1. CASE WriteNothing \/ WriteInFlight \/ WriteAgain
      BY <2>2, <3>1 DEF WriteNothing, WriteInFlight, WriteAgain
    <3>2. CASE WriteFails
      <4>1. sock' = HangupOutput(Released)
        BY <3>2 DEF WriteFails
      <4> QED BY <2>2, <4>1, HangupOutputSound
    <3>3. CASE WriteSome
      <4>1. PICK n, parts : /\ Sendable(sock.out, parts, n)
                            /\ sock' = AfterSend(Consume(Released, parts))
        BY <3>3, WriteFacts
      <4>2. ~Released.hup_out
        BY <3>3 DEF WriteSome
      <4> QED BY <2>2, <4>1, <4>2, AfterSendSound
    <3> QED BY <1>10, <3>1, <3>2, <3>3
  <2> QED BY <2>1, <2>2, <2>3, InputQuiet
<1>11. CASE DequeueNothing
  <2>1. /\ sock' = MightReset(sock) /\ UNCHANGED <<handled, inbox, n_sent>>
        /\ steps # <<"close">>
    BY <1>11, Remaining DEF DequeueNothing, AtStep
  <2>2. sock'.in = sock.in /\ sock'.hup_in = sock.hup_in
    BY <2>1, MightResetFields
  <2> QED BY <2>1, <2>2, InputQuiet
<1>12. CASE DequeueMessage
  BY <1>12, InputMessage
<1>13. CASE DequeueCorrupt \/ Disconnect
  <2>1. sock' = Close(sock) /\ UNCHANGED handled
    BY <1>13 DEF DequeueCorrupt, Disconnect
  <2>2. sock'.hup_in
    BY <2>1, CloseSound
  <2> QED BY <2>1, <2>2, InputGivenUp
<1>14. CASE EndOfFile
  <2>1. sock' = Shutdown(sock) /\ UNCHANGED <<handled, inbox, n_sent>>
        /\ steps # <<"close">>
    BY <1>14, Remaining DEF EndOfFile, ConnectionShutdown, AtStep
  <2>2. sock'.in = sock.in /\ sock'.hup_in = sock.hup_in
    BY <2>1, ShutdownSound
  <2> QED BY <2>1, <2>2, InputQuiet
<1> QED BY <1>1, <1>2, <1>3, <1>4, <1>5, <1>6, <1>7, <1>8, <1>9, <1>10, <1>11, <1>12,
           <1>13, <1>14 DEF SNext, Step

-----------------------------------------------------------------------------
(* What is written, and what is left to write *)

\* A message is sent in two parts.
LEMMA PiecesTorn ==
    ASSUME NEW m \in Messages, NEW l \in Nat, l <= Length[m], NEW p \in 1 .. l
    PROVE  Pieces(m, l, l) = Pieces(m, l, p) \o Pieces(m, l - p, l - p)
<1> DEFINE A == Messages \X Nat
           a == Pieces(m, l, p)
           b == Pieces(m, l - p, l - p)
           c == Pieces(m, l, l)
           u == a \o b
<1>1. p \in Nat /\ l - p \in Nat /\ Length[m] \in Nat /\ l - p <= Length[m]
  BY SocketAssumption
<1>2. /\ a \in Seq(A) /\ Len(a) = p
      /\ b \in Seq(A) /\ Len(b) = l - p
      /\ c \in Seq(A) /\ Len(c) = l
  BY <1>1, PiecesType
<1>3. /\ \A i \in 1 .. p : a[i] = <<m, Length[m] - l + i>>
      /\ \A i \in 1 .. l - p : b[i] = <<m, Length[m] - (l - p) + i>>
      /\ \A i \in 1 .. l : c[i] = <<m, Length[m] - l + i>>
  BY DEF Pieces
<1> HIDE DEF a, b, c, A
<1>4. /\ u \in Seq(A) /\ Len(u) = p + (l - p)
      /\ \A i \in 1 .. p + (l - p) : u[i] = IF i <= p THEN a[i] ELSE b[i - p]
  <2>1. /\ u \in Seq(A) /\ Len(u) = Len(a) + Len(b)
        /\ \A i \in 1 .. Len(a) + Len(b) : u[i] = IF i <= Len(a) THEN a[i] ELSE b[i - Len(a)]
    BY <1>2, ConcatProperties, Zenon
  <2> HIDE DEF u
  <2> QED BY <1>2, <2>1, Zenon
<1> HIDE DEF u
<1>5. p + (l - p) = l
  BY <1>1
<1>6. ASSUME NEW i \in 1 .. l PROVE c[i] = u[i]
  <2>1. CASE i <= p
    <3>1. i \in 1 .. p
      BY <1>1, <2>1
    <3>2. u[i] = a[i]
      BY <1>4, <1>5, <2>1
    <3> QED BY <1>3, <3>1, <3>2
  <2>2. CASE i > p
    <3>1. i - p \in 1 .. l - p /\ ~(i <= p)
      BY <1>1, <2>2
    <3>2. u[i] = b[i - p]
      BY <1>4, <1>5, <3>1
    <3>3. Length[m] - (l - p) + (i - p) = Length[m] - l + i
      BY <1>1
    <3>4. b[i - p] = <<m, Length[m] - (l - p) + (i - p)>>
      BY <1>3, <3>1
    <3> QED BY <1>3, <3>2, <3>3, <3>4
  <2> QED BY <1>1, <2>1, <2>2
<1>7. c = u
  BY <1>2, <1>4, <1>5, <1>6, SeqEqual
<1> QED BY <1>7 DEF a, b, c, u

\* The indexes from k on.
LEMMA OnlyTail ==
    ASSUME NEW out, Len(out) \in Nat, NEW k \in 1 .. Len(out) + 1
    PROVE  LET r == Only(Indexes(out), k .. Len(out)) IN
           /\ Len(r) = Len(out) + 1 - k
           /\ \A j \in 1 .. Len(r) : r[j] = k - 1 + j
<1> DEFINE L == Len(out)
           s == Indexes(out)
<1>1. L \in Nat /\ k \in Nat \ {0} /\ k <= L + 1
  OBVIOUS
<1>2. s \in Seq(1 .. L) /\ Len(s) = L /\ \A i \in 1 .. L : s[i] = i
  BY <1>1 DEF Indexes
<1> DEFINE A == 1 .. L
           S == k .. L
<1>3. s \in Seq(A)
  BY <1>2
<1> HIDE DEF s, L, S, A
<1>4. PICK f : /\ Only(s, S) = f[Len(s)]
               /\ f[0] = <<>>
               /\ \A i \in 1 .. Len(s) :
                     f[i] = IF s[i] \in S THEN Append(f[i - 1], s[i]) ELSE f[i - 1]
  BY ONLY <1>3, OnlySteps
<1> DEFINE Good(i) == /\ f[i] \in Seq(1 .. L)
                      /\ Len(f[i]) = IF i < k THEN 0 ELSE i + 1 - k
                      /\ \A j \in 1 .. Len(f[i]) : f[i][j] = k - 1 + j
           P == {i \in Nat : i <= L => Good(i)}
<1>5. 0 \in P
  <2>1. <<>> \in Seq(1 .. L) /\ Len(<<>>) = 0 /\ 0 < k
    BY <1>1
  <2> DEFINE e == f[0]
  <2>2. e \in Seq(1 .. L) /\ Len(e) = 0
    BY <1>4, <2>1
  <2> HIDE DEF e
  <2>3. \A j \in 1 .. Len(e) : e[j] = k - 1 + j
    BY <2>2
  <2> QED BY <2>1, <2>2, <2>3 DEF e
<1>6. ASSUME NEW i \in Nat, i \in P PROVE i + 1 \in P
  <2> SUFFICES ASSUME i + 1 <= L PROVE Good(i + 1)
    OBVIOUS
  <2>1. Good(i)
    BY <1>1, <1>6
  <2>2. i + 1 \in 1 .. L /\ (i + 1) - 1 = i
    BY <1>1
  <2>3. f[i + 1] = IF i + 1 \in k .. L THEN Append(f[i], i + 1) ELSE f[i]
    BY <1>2, <1>4, <2>2 DEF S
  <2>4. CASE i + 1 < k
    <3>1. ~(i + 1 \in k .. L) /\ i < k
      BY <1>1, <2>4
    <3>2. f[i + 1] = f[i]
      BY <2>3, <3>1
    <3> QED BY <2>1, <2>4, <3>1, <3>2
  <2>5. CASE i + 1 >= k
    <3>1. i + 1 \in k .. L
      BY <1>1, <2>5
    <3> DEFINE g == f[i]
               h == Append(g, i + 1)
    <3>2. f[i + 1] = h
      BY <2>3, <3>1
    <3>3. g \in Seq(1 .. L) /\ Len(g) = i + 1 - k /\ \A j \in 1 .. Len(g) : g[j] = k - 1 + j
      <4>1. CASE i < k
        <5>1. i + 1 - k = 0
          BY <1>1, <2>5, <4>1
        <5> QED BY <2>1, <4>1, <5>1
      <4>2. CASE ~(i < k)
        BY <2>1, <4>2
      <4> QED BY <4>1, <4>2
    <3> HIDE DEF g
    <3>4. /\ h \in Seq(1 .. L) /\ Len(h) = Len(g) + 1
          /\ \A j \in 1 .. Len(g) : h[j] = g[j]
          /\ h[Len(g) + 1] = i + 1
      BY <2>2, <3>3, AppendProperties, SMTT(30)
    <3> HIDE DEF h
    <3>5. Len(h) = (i + 1) + 1 - k /\ ~(i + 1 < k)
      BY <1>1, <2>5, <3>3, <3>4
    <3>6. \A j \in 1 .. Len(h) : h[j] = k - 1 + j
      <4>1. \A j \in 1 .. Len(g) + 1 : j \in 1 .. Len(g) \/ j = Len(g) + 1
        BY <3>3
      <4>2. k - 1 + (Len(g) + 1) = i + 1
        BY <1>1, <3>3
      <4> QED BY <3>3, <3>4, <4>1, <4>2
    <3> QED BY <3>2, <3>4, <3>5, <3>6
  <2> QED BY <1>1, <2>4, <2>5
<1> HIDE DEF P
<1>7. Nat \subseteq P
  BY <1>5, <1>6, NatSetInduction
<1>8. Good(L)
  BY <1>1, <1>7 DEF P
<1>9. (IF L < k THEN 0 ELSE L + 1 - k) = L + 1 - k
  BY <1>1
<1> QED BY <1>2, <1>4, <1>8, <1>9 DEF s, L, S

-----------------------------------------------------------------------------
(* What the broker accepted is written in order *)

\* Pieces of the messages, in the order in which they go over the wire.
Stream == Messages \X Nat

\* What is left of a queue of buffers.
LEMMA RestsAre ==
    ASSUME NEW out, Len(out) \in Nat,
           \A i \in 1 .. Len(out) : /\ out[i].msg \in Messages
                                    /\ out[i].left \in Nat
                                    /\ out[i].left <= Length[out[i].msg]
    PROVE  /\ Rests(out) \in Seq(Seq(Stream))
           /\ Len(Rests(out)) = Len(out)
           /\ \A i \in 1 .. Len(out) :
                 Rests(out)[i] = Pieces(out[i].msg, out[i].left, out[i].left)
<1>1. \A i \in 1 .. Len(out) : Pieces(out[i].msg, out[i].left, out[i].left) \in Seq(Stream)
  BY PiecesType DEF Stream
<1> QED BY <1>1 DEF Rests

\* The first buffer with something left to write, if n were written to.
FirstLeft(out, parts, n) == IF parts[n] = out[n].left THEN n + 1 ELSE n

\* The queue keep is what is left of the queue out, from its k-th buffer on.
KeepsTail(keep, out, parts, n, k) ==
    /\ Len(keep) = Len(out) + 1 - k
    /\ \A j \in 1 .. Len(keep) :
          /\ keep[j].msg = out[k - 1 + j].msg
          /\ keep[j].left = IF k - 1 + j = n THEN out[n].left - parts[n]
                            ELSE out[k - 1 + j].left

\* The buffers that are left after a write: those behind the last one that was
\* written, and that one if a part of it is left.
LEMMA ConsumeTail ==
    ASSUME NEW s, SocketSound(s), NEW n, NEW parts, Sendable(s.out, parts, n),
           ~Overtakes(s.out, parts)
    PROVE  KeepsTail(Consume(s, parts).out, s.out, parts, n, FirstLeft(s.out, parts, n))
<1> DEFINE out == s.out
           L == Len(out)
           k == IF parts[n] = s.out[n].left THEN n + 1 ELSE n
<1>1. L \in Nat /\ \A i \in 1 .. L : out[i].left \in Nat \ {0}
  BY BufferFields
<1>2. /\ n \in 1 .. L /\ parts \in [1 .. n -> Nat]
      /\ \A i \in 1 .. n : parts[i] \in 1 .. out[i].left
  BY DEF Sendable
<1>3. DOMAIN parts = 1 .. n /\ Len(parts) = n
  <2>1. n \in Nat
    BY <1>1, <1>2
  <2> QED BY <1>2, <2>1
<1>4. \A i \in 1 .. n : i < n => parts[i] = out[i].left
  BY <1>3 DEF Overtakes
<1>5. k \in 1 .. L + 1 /\ k \in Nat /\ n \in Nat
  BY <1>1, <1>2
<1> HIDE DEF L, out
<1>6. \A i \in 1 .. L : Left(out, parts, i) = IF i < n THEN 0
                                             ELSE IF i = n THEN out[n].left - parts[n]
                                             ELSE out[i].left
  <2> SUFFICES ASSUME NEW i \in 1 .. L
               PROVE  Left(out, parts, i) = IF i < n THEN 0
                                            ELSE IF i = n THEN out[n].left - parts[n]
                                            ELSE out[i].left
    OBVIOUS
  <2>1. CASE i < n
    <3>1. i \in 1 .. n /\ parts[i] = out[i].left /\ out[i].left \in Nat
      BY <1>1, <1>2, <1>4, <2>1
    <3> QED BY <1>3, <2>1, <3>1 DEF Left
  <2>2. CASE i = n
    <3>1. i \in 1 .. n
      BY <1>5, <2>2
    <3> QED BY <1>3, <1>5, <2>2, <3>1 DEF Left
  <2>3. CASE i > n
    <3>1. i \notin 1 .. n /\ ~(i < n) /\ i # n
      BY <1>5, <2>3
    <3> QED BY <1>3, <3>1 DEF Left
  <2> QED BY <1>5, <2>1, <2>2, <2>3
<1>7. {i \in 1 .. L : Left(out, parts, i) > 0} = k .. L
  <2>1. out[n].left \in Nat /\ parts[n] \in 1 .. out[n].left
    BY <1>1, <1>2, <1>5
  <2>2. ASSUME NEW i \in 1 .. L PROVE Left(out, parts, i) > 0 <=> i >= k
    <3>1. CASE i < n
      BY <1>5, <1>6, <3>1 DEF out
    <3>2. CASE i = n
      <4>1. Left(out, parts, i) = out[n].left - parts[n]
        BY <1>5, <1>6, <3>2
      <4> QED BY <1>5, <2>1, <3>2, <4>1 DEF out
    <3>3. CASE i > n
      <4>1. Left(out, parts, i) = out[i].left /\ out[i].left > 0
        BY <1>1, <1>5, <1>6, <3>3
      <4>2. i >= k
        BY <1>5, <3>3
      <4> QED BY <4>1, <4>2
    <3> QED BY <1>5, <3>1, <3>2, <3>3
  <2>3. \A i : i \in k .. L <=> i \in 1 .. L /\ i >= k
    BY <1>1, <1>5
  <2> QED BY <2>2, <2>3
<1> DEFINE rest == Only(Indexes(out), k .. L)
           keep == [j \in 1 .. Len(rest) |-> [msg |-> out[rest[j]].msg,
                                              left |-> Left(out, parts, rest[j])]]
<1>8. Len(rest) = L + 1 - k /\ \A j \in 1 .. Len(rest) : rest[j] = k - 1 + j
  BY <1>1, <1>5, OnlyTail DEF L
<1>9. Consume(s, parts).out = keep
  <2>1. s \in Sockets
    BY DEF SocketSound
  <2>2. keep = [j \in 1 .. Len(Only(Indexes(s.out),
                                     {i \in 1 .. Len(s.out) : Left(s.out, parts, i) > 0})) |->
                   [msg |-> s.out[Only(Indexes(s.out),
                                   {i \in 1 .. Len(s.out) : Left(s.out, parts, i) > 0})[j]].msg,
                    left |-> Left(s.out, parts, Only(Indexes(s.out),
                                   {i \in 1 .. Len(s.out) : Left(s.out, parts, i) > 0})[j])]]
    BY <1>7 DEF out, L
  <2> HIDE DEF keep
  <2> QED BY <2>1, <2>2 DEF Consume, Sockets
<1> HIDE DEF rest
<1>10. Len(rest) \in Nat
  BY <1>1, <1>5, <1>8
<1>11. /\ Len(keep) = L + 1 - k
       /\ \A j \in 1 .. Len(keep) : /\ keep[j].msg = out[k - 1 + j].msg
                                    /\ keep[j].left = Left(out, parts, k - 1 + j)
  BY <1>8, <1>10
<1> HIDE DEF keep
<1>12. \A j \in 1 .. Len(keep) :
          Left(out, parts, k - 1 + j) = IF k - 1 + j = n THEN out[n].left - parts[n]
                                        ELSE out[k - 1 + j].left
  <2> SUFFICES ASSUME NEW j \in 1 .. L + 1 - k
               PROVE  Left(out, parts, k - 1 + j) = IF k - 1 + j = n
                                                    THEN out[n].left - parts[n]
                                                    ELSE out[k - 1 + j].left
    BY <1>11
  <2>1. k - 1 + j \in 1 .. L /\ ~(k - 1 + j < n)
    BY <1>1, <1>5
  <2> QED BY <1>6, <2>1
<1>13. KeepsTail(keep, out, parts, n, k)
  <2> HIDE DEF k
  <2> QED BY <1>11, <1>12 DEF KeepsTail, L
<1> QED BY <1>9, <1>13 DEF FirstLeft, out

\* What a write sends and what it leaves is what was there.
LEMMA WrittenAndLeft ==
    ASSUME NEW s, SocketSound(s), NEW n, NEW parts, Sendable(s.out, parts, n),
           ~Overtakes(s.out, parts)
    PROVE  FlattenSeq(Rests(s.out))
              = SentPieces(s.out, parts) \o FlattenSeq(Rests(Consume(s, parts).out))
<1> DEFINE out == s.out
           L == Len(out)
           l == out[n].left
           p == parts[n]
           k == IF p = l THEN n + 1 ELSE n
           keep == Consume(s, parts).out
           R == Rests(out)
           S == [i \in 1 .. Len(parts) |-> Pieces(out[i].msg, out[i].left, parts[i])]
           K == Rests(keep)
<1>1. /\ L \in Nat
      /\ \A i \in 1 .. L : /\ out[i].msg \in Messages
                           /\ out[i].left \in Nat \ {0}
                           /\ out[i].left <= Length[out[i].msg]
  BY BufferFields
<1>2. /\ n \in 1 .. L /\ parts \in [1 .. n -> Nat]
      /\ \A i \in 1 .. n : parts[i] \in 1 .. out[i].left
  BY DEF Sendable
<1>3. DOMAIN parts = 1 .. n /\ Len(parts) = n /\ n \in Nat \ {0}
  <2>1. n \in Nat \ {0}
    BY <1>1, <1>2
  <2> QED BY <1>2, <2>1
<1>4. \A i \in 1 .. n : i < n => parts[i] = out[i].left
  BY <1>3 DEF Overtakes
<1>5. /\ Len(keep) = L + 1 - k
      /\ \A j \in 1 .. Len(keep) :
            /\ keep[j].msg = out[k - 1 + j].msg
            /\ keep[j].left = IF k - 1 + j = n THEN l - p ELSE out[k - 1 + j].left
  <2>1. KeepsTail(keep, out, parts, n, FirstLeft(out, parts, n))
    BY ConsumeTail
  <2>2. k = FirstLeft(out, parts, n)
    BY DEF FirstLeft
  <2> HIDE DEF k, keep, out
  <2> QED BY <2>1, <2>2 DEF KeepsTail
<1>6. SentPieces(out, parts) = FlattenSeq(S)
  BY DEF SentPieces
<1>7. l \in Nat \ {0} /\ p \in 1 .. l /\ out[n].msg \in Messages /\ l <= Length[out[n].msg]
      /\ Length[out[n].msg] \in Nat
  BY <1>1, <1>2, <1>3, SocketAssumption
<1> HIDE DEF keep, out, L
<1>8. /\ R \in Seq(Seq(Stream)) /\ Len(R) = L
      /\ \A i \in 1 .. L : R[i] = Pieces(out[i].msg, out[i].left, out[i].left)
  BY <1>1, RestsAre DEF L
<1>9. /\ S \in Seq(Seq(Stream)) /\ Len(S) = n
      /\ \A i \in 1 .. n : S[i] = Pieces(out[i].msg, out[i].left, parts[i])
  <2>1. \A i \in 1 .. n : Pieces(out[i].msg, out[i].left, parts[i]) \in Seq(Stream)
    <3> SUFFICES ASSUME NEW i \in 1 .. n
                 PROVE  Pieces(out[i].msg, out[i].left, parts[i]) \in Seq(Stream)
      OBVIOUS
    <3>1. /\ out[i].msg \in Messages /\ out[i].left \in Nat
          /\ out[i].left <= Length[out[i].msg] /\ parts[i] \in Nat
      BY <1>1, <1>2, <1>3
    <3> QED BY <3>1, PiecesType DEF Stream
  <2> QED BY <1>3, <2>1
<1> HIDE DEF R, S, l, p
<1>10. k \in 1 .. L + 1 /\ k \in Nat
  BY <1>1, <1>2, <1>3
<1>11. /\ K \in Seq(Seq(Stream)) /\ Len(K) = L + 1 - k
       /\ \A j \in 1 .. L + 1 - k : K[j] = Pieces(keep[j].msg, keep[j].left, keep[j].left)
  <2>1. Len(keep) \in Nat
    BY <1>1, <1>5, <1>10
  <2>2. ASSUME NEW j \in 1 .. Len(keep)
        PROVE  /\ keep[j].msg \in Messages /\ keep[j].left \in Nat
               /\ keep[j].left <= Length[keep[j].msg]
    <3>1. k - 1 + j \in 1 .. L
      BY <1>1, <1>5, <1>10
    <3>2. keep[j].msg = out[k - 1 + j].msg
      BY <1>5
    <3>3. CASE k - 1 + j = n
      <4>1. keep[j].left = l - p
        BY <1>5, <3>3
      <4> HIDE DEF k
      <4> QED BY <1>7, <3>2, <3>3, <4>1
    <3>4. CASE k - 1 + j # n
      <4>1. keep[j].left = out[k - 1 + j].left
        BY <1>5, <3>4
      <4> HIDE DEF k
      <4> QED BY <1>1, <3>1, <3>2, <4>1
    <3> QED BY <3>3, <3>4
  <2> QED BY <1>5, <2>1, <2>2, RestsAre
<1> HIDE DEF K
<1>12. CASE p = l
  <2>1. k = n + 1 /\ Len(R) = Len(S) + Len(K)
    BY <1>1, <1>3, <1>8, <1>9, <1>11, <1>12
  <2>2. ASSUME NEW i \in 1 .. n PROVE R[i] = S[i]
    <3>1. i \in 1 .. L /\ parts[i] = out[i].left
      <4>1. i = n \/ i < n
        BY <1>3
      <4> QED BY <1>1, <1>2, <1>3, <1>4, <1>12, <4>1 DEF l, p
    <3> QED BY <1>8, <1>9, <3>1
  <2>3. ASSUME NEW j \in 1 .. L - n PROVE R[n + j] = K[j]
    <3>1. /\ k - 1 + j = n + j /\ n + j # n /\ n + j \in 1 .. L
          /\ j \in 1 .. L + 1 - k
      BY <1>1, <1>3, <2>1
    <3>2. keep[j].msg = out[n + j].msg /\ keep[j].left = out[n + j].left
      <4> HIDE DEF k
      <4> QED BY <1>5, <3>1
    <3> HIDE DEF k
    <3> QED BY <1>8, <1>11, <3>1, <3>2
  <2>4. Len(K) = L - n
    BY <1>1, <1>3, <1>11, <2>1
  <2>5. FlattenSeq(R) = FlattenSeq(S) \o FlattenSeq(K)
    <3>1. /\ \A i \in 1 .. Len(S) : R[i] = S[i]
          /\ \A j \in 1 .. Len(K) : R[Len(S) + j] = K[j]
      BY <1>9, <2>2, <2>3, <2>4
    <3>2. Len(R) = Len(S) + Len(K)
      BY <2>1
    <3>3. R \in Seq(Seq(Stream)) /\ S \in Seq(Seq(Stream)) /\ K \in Seq(Seq(Stream))
      BY <1>8, <1>9, <1>11
    <3> QED BY ONLY <3>1, <3>2, <3>3, FlattenParts
  <2> QED BY <1>6, <2>5 DEF R, K, out, keep
<1>13. CASE p # l
  <2> DEFINE a == n - 1
             b == L - n
  <2>1. k = n
    BY <1>13
  <2>2. /\ a \in Nat /\ b \in Nat /\ a + 1 = n
        /\ Len(S) = a + 1 /\ Len(K) = b + 1 /\ Len(R) = a + 1 + b
    BY <1>1, <1>2, <1>3, <1>8, <1>9, <1>11, <2>1, SMTT(30)
  <2>3. ASSUME NEW i \in 1 .. a PROVE R[i] = S[i]
    <3>1. i \in 1 .. L /\ i \in 1 .. n /\ i < n
      BY <1>1, <1>2, <1>3
    <3>2. parts[i] = out[i].left
      BY <1>4, <3>1
    <3> QED BY <1>8, <1>9, <3>1, <3>2
  <2>4. R[a + 1] = Cat(S[a + 1], K[1])
    <3>1. n \in 1 .. L /\ n \in 1 .. n /\ 1 \in 1 .. L + 1 - k /\ k - 1 + 1 = n
      BY <1>1, <1>2, <1>3, <2>1
    <3>2. keep[1].msg = out[n].msg /\ keep[1].left = l - p
      <4> HIDE DEF k
      <4> QED BY <1>5, <3>1
    <3>3. R[n] = Pieces(out[n].msg, l, l)
      BY <1>8, <3>1 DEF l
    <3>4. S[n] = Pieces(out[n].msg, l, p)
      BY <1>9, <3>1 DEF l, p
    <3>5. K[1] = Pieces(out[n].msg, l - p, l - p)
      <4> HIDE DEF k
      <4> QED BY <1>11, <3>1, <3>2
    <3>6. Pieces(out[n].msg, l, l) = Pieces(out[n].msg, l, p) \o Pieces(out[n].msg, l - p, l - p)
      BY <1>7, PiecesTorn
    <3> HIDE DEF a
    <3> QED BY <2>2, <3>3, <3>4, <3>5, <3>6 DEF Cat
  <2>5. ASSUME NEW j \in 1 .. b PROVE R[a + 1 + j] = K[1 + j]
    <3>1. /\ k - 1 + (1 + j) = n + j /\ n + j # n /\ n + j \in 1 .. L
          /\ 1 + j \in 1 .. L + 1 - k
      BY <1>1, <1>3, <2>1
    <3>2. keep[1 + j].msg = out[n + j].msg /\ keep[1 + j].left = out[n + j].left
      <4> HIDE DEF k
      <4> QED BY <1>5, <3>1
    <3>3. a + 1 + j = n + j
      BY <1>3
    <3> HIDE DEF k, a
    <3> QED BY <1>8, <1>11, <3>1, <3>2, <3>3
  <2> HIDE DEF a, b
  <2>6. FlattenSeq(R) = Cat(FlattenSeq(S), FlattenSeq(K))
    <3>1. R \in Seq(Seq(Stream)) /\ S \in Seq(Seq(Stream)) /\ K \in Seq(Seq(Stream))
      BY <1>8, <1>9, <1>11
    <3>2. TornAt(R, S, K, a, b)
      BY <2>2, <2>3, <2>4, <2>5 DEF TornAt
    <3>3. a \in Nat /\ b \in Nat
      BY <2>2
    <3> QED BY ONLY <3>1, <3>2, <3>3, FlattenTorn
  <2> QED BY <1>6, <2>6 DEF R, K, out, keep, Cat
<1> QED BY <1>12, <1>13

\* A prefix of a sequence.
LEMMA PrefixOfConcat ==
    ASSUME NEW A, NEW s \in Seq(A), NEW t \in Seq(A)
    PROVE  IsPrefix(s, s \o t)
<1> DEFINE u == s \o t
           n == Len(s)
<1>1. /\ n \in Nat /\ Len(t) \in Nat /\ Len(u) = n + Len(t) /\ u \in Seq(A)
      /\ \A i \in 1 .. n : u[i] = s[i]
  BY ConcatProperties
<1> HIDE DEF u
<1>2. SubSeq(s, 1, n) = SubSeq(u, 1, n)
  <2> DEFINE a == SubSeq(s, 1, n)
             b == SubSeq(u, 1, n)
  <2>1. /\ a \in Seq(A) /\ Len(a) = n /\ \A i \in 1 .. n : a[i] = s[i]
        /\ b \in Seq(A) /\ Len(b) = n /\ \A i \in 1 .. n : b[i] = u[i]
    BY <1>1
  <2> HIDE DEF a, b
  <2>2. a = b
    BY <1>1, <2>1, SeqEqual
  <2> QED BY <2>2 DEF a, b
<1>3. n <= Len(u)
  BY <1>1
<1> QED BY <1>2, <1>3 DEF IsPrefix, u

\* The state the output is in.
LEMMA OutputFacts ==
    ASSUME ReleaseInv
    PROVE  /\ wire \in Seq(Stream) /\ accepted \in Seq(Messages)
           /\ Rests(sock.out) \in Seq(Seq(Stream))
           /\ FlattenSeq(Rests(sock.out)) \in Seq(Stream)
           /\ cut \in BOOLEAN /\ overtaken \in BOOLEAN
<1>1. /\ wire \in Seq(Stream) /\ accepted \in Seq(Messages)
      /\ cut \in BOOLEAN /\ overtaken \in BOOLEAN
  BY DEF ReleaseInv, STypeOK, Stream
<1>2. SocketSound(sock)
  BY DEF ReleaseInv
<1>3. Rests(sock.out) \in Seq(Seq(Stream))
  BY <1>2, BufferFields, RestsAre
<1> QED BY <1>1, <1>3, FlattenType

\* What was written is a prefix of what was accepted.
LEMMA WrittenPrefix ==
    ASSUME ReleaseInv, OutputOrdered, ~overtaken
    PROVE  InSequence
<1> USE DEF InSequence
<1>1. CASE cut
  BY <1>1 DEF OutputOrdered
<1>2. CASE ~cut
  <2> DEFINE r == FlattenSeq(Rests(sock.out))
  <2>1. wire \in Seq(Stream) /\ r \in Seq(Stream)
    BY OutputFacts
  <2>2. wire \o r = AllPieces
    BY <1>2 DEF OutputOrdered
  <2> HIDE DEF r
  <2>3. IsPrefix(wire, wire \o r)
    BY <2>1, PrefixOfConcat
  <2> QED BY <2>2, <2>3
<1> QED BY <1>1, <1>2, OutputFacts

\* What is known of the output.
Output == OutputOrdered /\ OutputKept /\ CutEnds

\* Nothing is written or accepted; the queue is as it was, or is given up.
LEMMA OutputQuiet ==
    ASSUME ReleaseInv, Output, UNCHANGED <<accepted, wire, overtaken>>,
           cut' \in BOOLEAN,
           sock.hup_out => sock'.hup_out,
           cut' => cut \/ sock'.hup_out,
           ~cut' => ~cut /\ sock'.out = sock.out
    PROVE  Output'
<1>1. AllPieces' = AllPieces /\ Queued' = Queued
  BY DEF AllPieces, Queued
<1>2. CutEnds'
  BY DEF Output, CutEnds
<1>3. OutputKept'
  BY <1>1 DEF Output, OutputKept
<1>4. OutputOrdered'
  <2> SUFFICES ASSUME ~overtaken
               PROVE  /\ cut' => InSequence'
                      /\ ~cut' => wire' \o FlattenSeq(Rests(sock'.out)) = AllPieces'
    BY DEF OutputOrdered
  <2>1. InSequence
    BY WrittenPrefix DEF Output
  <2> QED BY <1>1, <2>1 DEF Output, OutputOrdered, InSequence
<1> QED BY <1>2, <1>3, <1>4 DEF Output

\* One more element at the end of a function of a sequence's elements.
LEMMA WholesAppend ==
    ASSUME NEW ms \in Seq(Messages), NEW m \in Messages
    PROVE  /\ Wholes(ms) \in Seq(Seq(Stream))
           /\ Wholes(Append(ms, m)) = Append(Wholes(ms), Pieces(m, Length[m], Length[m]))
           /\ Pieces(m, Length[m], Length[m]) \in Seq(Stream)
<1> DEFINE x == Pieces(m, Length[m], Length[m])
           n == Len(ms)
           a == Wholes(Append(ms, m))
           w == Wholes(ms)
           b == Append(w, x)
<1>1. \A q \in Messages : Pieces(q, Length[q], Length[q]) \in Seq(Stream)
  <2>1. \A q \in Messages : Length[q] \in Nat /\ Length[q] <= Length[q]
    BY SocketAssumption
  <2> QED BY <2>1, PiecesType DEF Stream
<1>2. /\ n \in Nat
      /\ \A i \in 1 .. n : ms[i] \in Messages
  OBVIOUS
<1>3. /\ w \in Seq(Seq(Stream)) /\ Len(w) = n
      /\ \A i \in 1 .. n : w[i] = Pieces(ms[i], Length[ms[i]], Length[ms[i]])
  BY <1>1, <1>2 DEF Wholes
<1>4. x \in Seq(Stream)
  BY <1>1
<1> DEFINE ns == Append(ms, m)
<1>5. /\ ns \in Seq(Messages) /\ Len(ns) = n + 1 /\ ns[n + 1] = m
      /\ \A i \in 1 .. n : ns[i] = ms[i]
  BY AppendProperties
<1> HIDE DEF ns
<1>6. /\ a \in Seq(Seq(Stream)) /\ Len(a) = n + 1
      /\ \A i \in 1 .. n + 1 : a[i] = Pieces(ns[i], Length[ns[i]], Length[ns[i]])
  <2>1. \A i \in 1 .. n + 1 : ns[i] \in Messages
    BY <1>5
  <2>2. a = [i \in 1 .. n + 1 |-> Pieces(ns[i], Length[ns[i]], Length[ns[i]])]
    BY <1>5 DEF Wholes, ns
  <2>3. n + 1 \in Nat
    BY <1>2
  <2> HIDE DEF a
  <2> QED BY <1>1, <2>1, <2>2, <2>3
<1> HIDE DEF w, x, n
<1>7. /\ b \in Seq(Seq(Stream)) /\ Len(b) = n + 1
      /\ \A i \in 1 .. n : b[i] = w[i]
      /\ b[n + 1] = x
  <2>1. /\ b \in Seq(Seq(Stream)) /\ Len(b) = Len(w) + 1
        /\ \A i \in 1 .. Len(w) : b[i] = w[i]
        /\ b[Len(w) + 1] = x
    BY <1>3, <1>4, AppendsTo
  <2> HIDE DEF b
  <2> QED BY <1>3, <2>1
<1> HIDE DEF a, b
<1>8. ASSUME NEW i \in 1 .. n + 1 PROVE a[i] = b[i]
  <2>1. i \in 1 .. n \/ i = n + 1
    BY <1>2
  <2>2. CASE i \in 1 .. n
    BY <1>3, <1>5, <1>6, <1>7, <2>2, ZenonT(60)
  <2>3. CASE i = n + 1
    BY <1>5, <1>6, <1>7, <2>3 DEF x
  <2> QED BY <2>1, <2>2, <2>3
<1>9. a = b
  BY <1>6, <1>7, <1>8, SeqEqual
<1> QED BY <1>3, <1>4, <1>9 DEF a, b, w, x, ns

\* The same for the buffers of the queue.
LEMMA RestsAppend ==
    ASSUME NEW s, SocketSound(s), NEW m \in Messages
    PROVE  Rests(Append(s.out, [msg |-> m, left |-> Length[m]]))
              = Append(Rests(s.out), Pieces(m, Length[m], Length[m]))
<1> DEFINE c == [msg |-> m, left |-> Length[m]]
           out == s.out
           ns == Append(out, c)
           n == Len(out)
           x == Pieces(m, Length[m], Length[m])
           w == Rests(out)
           a == Rests(ns)
           b == Append(w, x)
<1>1. /\ n \in Nat /\ out \in Seq(Buffers)
      /\ \A i \in 1 .. n : /\ out[i].msg \in Messages
                           /\ out[i].left \in Nat
                           /\ out[i].left <= Length[out[i].msg]
  BY BufferFields
<1>2. c \in Buffers /\ c.msg = m /\ c.left = Length[m] /\ Length[m] \in Nat
  BY SocketAssumption DEF Buffers
<1> HIDE DEF c, out
<1>3. /\ ns \in Seq(Buffers) /\ Len(ns) = n + 1 /\ ns[n + 1] = c
      /\ \A i \in 1 .. n : ns[i] = out[i]
  BY <1>1, <1>2, AppendProperties
<1> HIDE DEF ns
<1>4. \A i \in 1 .. n + 1 : i \in 1 .. n \/ i = n + 1
  BY <1>1
<1>5. \A i \in 1 .. n + 1 : /\ ns[i].msg \in Messages
                            /\ ns[i].left \in Nat
                            /\ ns[i].left <= Length[ns[i].msg]
  BY <1>1, <1>2, <1>3, <1>4
<1>6. /\ w \in Seq(Seq(Stream)) /\ Len(w) = n
      /\ \A i \in 1 .. n : w[i] = Pieces(out[i].msg, out[i].left, out[i].left)
  BY <1>1, RestsAre
<1>7. /\ a \in Seq(Seq(Stream)) /\ Len(a) = n + 1
      /\ \A i \in 1 .. n + 1 : a[i] = Pieces(ns[i].msg, ns[i].left, ns[i].left)
  <2>1. Len(ns) \in Nat
    BY <1>1, <1>3
  <2> QED BY <1>3, <1>5, <2>1, RestsAre
<1>8. x \in Seq(Stream)
  BY WholesAppend, EmptyElements
<1> HIDE DEF w, x, n, a
<1>9. /\ b \in Seq(Seq(Stream)) /\ Len(b) = n + 1
      /\ \A i \in 1 .. n : b[i] = w[i]
      /\ b[n + 1] = x
  <2>1. /\ b \in Seq(Seq(Stream)) /\ Len(b) = Len(w) + 1
        /\ \A i \in 1 .. Len(w) : b[i] = w[i]
        /\ b[Len(w) + 1] = x
    BY <1>6, <1>8, AppendsTo
  <2> HIDE DEF b
  <2> QED BY <1>6, <2>1
<1> HIDE DEF b
<1>10. ASSUME NEW i \in 1 .. n + 1 PROVE a[i] = b[i]
  <2>1. CASE i \in 1 .. n
    BY <1>3, <1>6, <1>7, <1>9, <2>1
  <2>2. CASE i = n + 1
    BY <1>2, <1>3, <1>7, <1>9, <2>2 DEF x
  <2> QED BY <1>4, <2>1, <2>2
<1>11. a = b
  BY <1>7, <1>9, <1>10, SeqEqual
<1> QED BY <1>11 DEF a, b, w, x, ns, c, out

\* A message is accepted: it will be written behind the others.
LEMMA OutputQueue ==
    ASSUME ReleaseInv, Output, NEW m \in Messages, Queue(m)
    PROVE  Output'
<1> DEFINE x == Pieces(m, Length[m], Length[m])
           R == Rests(sock.out)
           W == Wholes(accepted)
           new == [msg |-> m, left |-> Length[m]]
<1>1. /\ ~sock.hup_out /\ cut' = cut /\ wire' = wire /\ overtaken' = overtaken
      /\ sock' = [sock EXCEPT !.out = Append(@, new)]
      /\ accepted' = Append(accepted, m)
  BY DEF Queue
<1>2. SocketSound(sock) /\ sock \in Sockets
  BY DEF ReleaseInv, SocketSound
<1>3. sock'.out = Append(sock.out, new)
  BY <1>1, <1>2 DEF Sockets
<1>4. ~cut
  BY <1>1 DEF Output, CutEnds
<1>5. AllPieces = FlattenSeq(W) /\ AllPieces' = FlattenSeq(Wholes(accepted'))
  BY DEF AllPieces, Wholes
<1>6. /\ wire \in Seq(Stream) /\ accepted \in Seq(Messages)
      /\ R \in Seq(Seq(Stream))
      /\ FlattenSeq(R) \in Seq(Stream)
  BY OutputFacts
<1>7. CutEnds'
  BY <1>1, <1>4 DEF CutEnds
<1>8. OutputKept'
  <2>1. Len(sock.out) \in Nat /\ sock.out \in Seq(Buffers) /\ Length[m] \in Nat
    BY <1>2, BufferFields, SocketAssumption
  <2>2. new \in Buffers
    BY SocketAssumption DEF Buffers
  <2>3. /\ Len(sock'.out) = Len(sock.out) + 1
        /\ \A j \in 1 .. Len(sock.out) : sock'.out[j] = sock.out[j]
        /\ sock'.out[Len(sock.out) + 1] = new
    <3> HIDE DEF new
    <3> QED BY <1>3, <2>1, <2>2, AppendProperties
  <2>4. Queued' = Queued \cup {m}
    <3>1. /\ Append(accepted, m) \in Seq(Messages)
          /\ ToSet(Append(accepted, m)) = ToSet(accepted) \cup {m}
      BY <1>6, AppendElements
    <3>2. \A s \in Seq(Messages) : ToSet(s) = {s[i] : i \in 1 .. Len(s)}
      BY DEF ToSet
    <3>3. Queued = ToSet(accepted) /\ Queued' = ToSet(accepted')
      BY <1>1, <1>6, <3>1, <3>2 DEF Queued
    <3> QED BY <1>1, <3>1, <3>3
  <2>5. ASSUME NEW q \in Queued, NEW k \in 1 .. Length[q]
        PROVE  Covered(wire', sock'.out, q, k)
    <3>1. Covered(wire, sock.out, q, k)
      BY <1>4 DEF Output, OutputKept
    <3>2. \A j \in 1 .. Len(sock.out) : j \in 1 .. Len(sock'.out)
      BY <2>1, <2>3
    <3> QED BY <1>1, <2>3, <3>1, <3>2 DEF Covered
  <2>6. ASSUME NEW k \in 1 .. Length[m]
        PROVE  Covered(wire', sock'.out, m, k)
    <3>1. /\ Len(sock.out) + 1 \in 1 .. Len(sock'.out)
          /\ new.msg = m /\ k > Length[m] - new.left
      BY <2>1, <2>3
    <3> QED BY <2>3, <3>1 DEF Covered
  <2> QED BY <2>4, <2>5, <2>6 DEF OutputKept
<1>9. OutputOrdered'
  <2> SUFFICES ASSUME ~overtaken PROVE wire' \o FlattenSeq(Rests(sock'.out)) = AllPieces'
    BY <1>1, <1>4 DEF OutputOrdered
  <2>1. /\ W \in Seq(Seq(Stream)) /\ x \in Seq(Stream)
        /\ Wholes(accepted') = Append(W, x)
    BY <1>1, <1>6, WholesAppend
  <2>2. Rests(sock'.out) = Append(R, x)
    BY <1>2, <1>3, RestsAppend
  <2>3. wire \o FlattenSeq(R) = FlattenSeq(W)
    BY <1>4, <1>5 DEF Output, OutputOrdered
  <2> HIDE DEF x, R, W, new
  <2>4. FlattenSeq(Append(R, x)) = FlattenSeq(R) \o x
    BY <1>6, <2>1, FlattenLast
  <2>5. FlattenSeq(Append(W, x)) = FlattenSeq(W) \o x
    BY <2>1, FlattenLast
  <2>6. Cat(Cat(wire, FlattenSeq(R)), x) = Cat(wire, Cat(FlattenSeq(R), x))
    BY <1>6, <2>1, CatAssociative
  <2> QED BY <1>1, <1>5, <2>1, <2>2, <2>3, <2>4, <2>5, <2>6 DEF Cat
<1> QED BY <1>7, <1>8, <1>9 DEF Output

\* The pieces one of the messages is cut into are pieces of the whole.
LEMMA FlattenContains ==
    ASSUME NEW A, NEW r \in Seq(Seq(A)), NEW i \in 1 .. Len(r)
    PROVE  ToSet(r[i]) \subseteq ToSet(FlattenSeq(r))
<1> DEFINE n == Len(r)
           s == SubSeq(r, 1, i)
           f == SubSeq(r, 1, i - 1)
           t == SubSeq(r, i + 1, n)
           x == r[i]
<1>1. n \in Nat /\ i \in Nat \ {0} /\ i <= n /\ x \in Seq(A)
  OBVIOUS
<1>2. /\ s \in Seq(Seq(A)) /\ Len(s) = i /\ \A j \in 1 .. i : s[j] = r[j]
      /\ f \in Seq(Seq(A)) /\ Len(f) = i - 1 /\ \A j \in 1 .. i - 1 : f[j] = r[j]
  BY <1>1
<1>3. t \in Seq(Seq(A)) /\ Len(t) = n - i /\ \A j \in 1 .. n - i : t[j] = r[i + j]
  BY <1>1
<1> HIDE DEF s, f, t, n
<1>4. FlattenSeq(r) = FlattenSeq(s) \o FlattenSeq(t)
  <2>1. Len(r) = Len(s) + Len(t)
    BY <1>1, <1>2, <1>3 DEF n
  <2>2. /\ \A j \in 1 .. Len(s) : r[j] = s[j]
        /\ \A j \in 1 .. Len(t) : r[Len(s) + j] = t[j]
    BY <1>2, <1>3
  <2> QED BY <1>2, <1>3, <2>1, <2>2, FlattenParts
<1>5. s = Append(f, x)
  <2> DEFINE g == Append(f, x)
  <2> HIDE DEF x
  <2>1. /\ g \in Seq(Seq(A)) /\ Len(g) = Len(f) + 1
        /\ \A j \in 1 .. Len(f) : g[j] = f[j]
        /\ g[Len(f) + 1] = x
    BY <1>1, <1>2, AppendsTo
  <2> HIDE DEF g
  <2>2. ASSUME NEW j \in 1 .. i PROVE s[j] = g[j]
    <3>1. j \in 1 .. i - 1 \/ j = i
      BY <1>1
    <3>2. CASE j = i
      BY <1>1, <1>2, <2>1, <3>2, SMTT(30) DEF x
    <3>3. CASE j \in 1 .. i - 1
      BY <1>2, <2>1, <3>3
    <3> QED BY <3>1, <3>2, <3>3
  <2>3. Len(g) = i
    BY <1>1, <1>2, <2>1
  <2>4. s = g
    BY <1>2, <2>1, <2>2, <2>3, SeqEqual
  <2> QED BY <2>4 DEF g
<1> HIDE DEF x
<1>6. FlattenSeq(s) = FlattenSeq(f) \o x
  BY <1>1, <1>2, <1>5, FlattenLast
<1>7. FlattenSeq(f) \in Seq(A) /\ FlattenSeq(s) \in Seq(A) /\ FlattenSeq(t) \in Seq(A)
  BY <1>2, <1>3, FlattenType
<1>8. ToSet(x) \subseteq ToSet(FlattenSeq(s))
  BY <1>1, <1>6, <1>7, ConcatElements
<1>9. ToSet(FlattenSeq(s)) \subseteq ToSet(FlattenSeq(r))
  BY <1>4, <1>7, ConcatElements
<1> QED BY <1>8, <1>9 DEF x

\* A piece that was left to write is written, or still left.
LEMMA WrittenOrLeft ==
    ASSUME NEW s, SocketSound(s), NEW n, NEW parts, Sendable(s.out, parts, n),
           NEW m \in Messages, NEW k \in 1 .. Length[m],
           NEW j \in 1 .. Len(s.out), s.out[j].msg = m,
           k > Length[m] - s.out[j].left
    PROVE  Covered(SentPieces(s.out, parts), Consume(s, parts).out, m, k)
<1> DEFINE out == s.out
           l == out[j].left
           S == [i \in 1 .. Len(parts) |-> Pieces(out[i].msg, out[i].left, parts[i])]
<1>1. /\ Len(out) \in Nat
      /\ \A i \in 1 .. Len(out) : /\ out[i].msg \in Messages
                                   /\ out[i].left \in Nat \ {0}
                                   /\ out[i].left <= Length[out[i].msg]
  BY BufferFields
<1>2. /\ n \in 1 .. Len(out) /\ parts \in [1 .. n -> Nat]
      /\ \A i \in 1 .. n : parts[i] \in 1 .. out[i].left
  BY DEF Sendable
<1>3. DOMAIN parts = 1 .. n /\ Len(parts) = n /\ n \in Nat
  <2>1. n \in Nat
    BY <1>1, <1>2
  <2> QED BY <1>2, <2>1
<1>4. l \in Nat /\ l <= Length[m] /\ Length[m] \in Nat /\ k \in Nat
  BY <1>1, SocketAssumption
<1>5. CASE j \in 1 .. n /\ k <= Length[m] - l + parts[j]
  <2> DEFINE p == parts[j]
             e == k - (Length[m] - l)
  <2>1. p \in Nat /\ e \in 1 .. p /\ Length[m] - l + e = k
    BY <1>2, <1>4, <1>5, SMTT(30)
  <2>2. \A i \in 1 .. n : Pieces(out[i].msg, out[i].left, parts[i]) \in Seq(Stream)
    <3> SUFFICES ASSUME NEW i \in 1 .. n
                 PROVE  Pieces(out[i].msg, out[i].left, parts[i]) \in Seq(Stream)
      OBVIOUS
    <3>1. /\ out[i].msg \in Messages /\ out[i].left \in Nat
          /\ out[i].left <= Length[out[i].msg] /\ parts[i] \in Nat
      BY <1>1, <1>2, <1>3
    <3> QED BY <3>1, PiecesType DEF Stream
  <2>3. S \in Seq(Seq(Stream)) /\ Len(S) = n /\ S[j] = Pieces(m, l, p)
    BY <1>3, <1>5, <2>2
  <2>4. ToSet(S[j]) \subseteq ToSet(FlattenSeq(S))
    <3> HIDE DEF S
    <3> QED BY <1>5, <2>3, FlattenContains
  <2>5. <<m, k>> \in ToSet(Pieces(m, l, p))
    <3>1. /\ DOMAIN Pieces(m, l, p) = 1 .. p
          /\ Pieces(m, l, p)[e] = <<m, Length[m] - l + e>>
      BY <2>1 DEF Pieces
    <3> HIDE DEF e
    <3> QED BY <2>1, <3>1 DEF ToSet
  <2>6. SentPieces(out, parts) = FlattenSeq(S)
    BY DEF SentPieces
  <2> QED BY <2>3, <2>4, <2>5, <2>6 DEF Covered
<1>6. CASE ~(j \in 1 .. n /\ k <= Length[m] - l + parts[j])
  <2> DEFINE L == {i \in 1 .. Len(out) : Left(out, parts, i) > 0}
             rest == Only(Indexes(out), L)
             keep == [i \in 1 .. Len(rest) |-> [msg |-> out[rest[i]].msg,
                                               left |-> Left(out, parts, rest[i])]]
  <2>1. Left(out, parts, j) \in Nat \ {0} /\ k > Length[m] - Left(out, parts, j)
    <3>1. CASE j \in 1 .. n
      <4>1. parts[j] \in 1 .. l /\ Left(out, parts, j) = l - parts[j]
        BY <1>2, <1>3, <3>1 DEF Left
      <4>2. k > Length[m] - l + parts[j]
        BY <1>2, <1>4, <1>6, <3>1
      <4> HIDE DEF l
      <4> QED BY <1>4, <4>1, <4>2, SMTT(30)
    <3>2. CASE j \notin 1 .. n
      BY <1>1, <1>3, <1>4, <3>2 DEF Left
    <3> QED BY <3>1, <3>2
  <2>2. j \in L
    BY <2>1
  <2>3. /\ Indexes(out) \in Seq(1 .. Len(out))
        /\ ToSet(Indexes(out)) = 1 .. Len(out)
    <3>1. /\ Indexes(out) \in Seq(1 .. Len(out))
          /\ DOMAIN Indexes(out) = 1 .. Len(out)
          /\ \A i \in 1 .. Len(out) : Indexes(out)[i] = i
      BY <1>1 DEF Indexes
    <3> HIDE DEF out
    <3> QED BY <3>1 DEF ToSet
  <2> HIDE DEF L
  <2>4. rest \in Seq(1 .. Len(out)) /\ ToSet(rest) = 1 .. Len(out) \cap L
    BY <2>3, OnlyProps
  <2>5. PICK i \in 1 .. Len(rest) : rest[i] = j
    BY <2>2, <2>4 DEF ToSet
  <2>6. Consume(s, parts).out = keep
    <3>1. s \in Sockets
      BY DEF SocketSound
    <3>2. keep = [e \in 1 .. Len(Only(Indexes(s.out),
                     {h \in 1 .. Len(s.out) : Left(s.out, parts, h) > 0})) |->
                   [msg |-> s.out[Only(Indexes(s.out),
                      {h \in 1 .. Len(s.out) : Left(s.out, parts, h) > 0})[e]].msg,
                    left |-> Left(s.out, parts, Only(Indexes(s.out),
                      {h \in 1 .. Len(s.out) : Left(s.out, parts, h) > 0})[e])]]
      BY DEF L
    <3> HIDE DEF keep
    <3> QED BY <3>1, <3>2 DEF Consume, Sockets
  <2> HIDE DEF rest
  <2>7. Len(rest) \in Nat
    BY <2>4
  <2>8. /\ Len(keep) = Len(rest)
        /\ keep[i].msg = out[j].msg /\ keep[i].left = Left(out, parts, j)
    BY <2>5, <2>7
  <2> HIDE DEF keep
  <2> QED BY <2>1, <2>5, <2>6, <2>8 DEF Covered
<1> QED BY <1>5, <1>6

\* sendmmsg()
LEMMA OutputWrite ==
    ASSUME ReleaseInv, Output, WriteSome
    PROVE  Output'
<1>1. PICK n, parts : /\ Sendable(sock.out, parts, n)
                      /\ sock' = AfterSend(Consume(Released, parts))
                      /\ wire' = wire \o SentPieces(sock.out, parts)
                      /\ overtaken' = (overtaken \/ Overtakes(sock.out, parts))
  BY WriteFacts
<1>2. /\ SocketSound(Released)
      /\ Released.out = sock.out /\ Released.hup_out = sock.hup_out
  BY ReleasedSound
<1>3. ~Released.hup_out /\ cut' = cut /\ accepted' = accepted
  BY DEF WriteSome
<1>4. ~cut /\ ~cut'
  BY <1>2, <1>3 DEF Output, CutEnds
<1> DEFINE R == Rests(sock.out)
           K == Rests(sock'.out)
           S == SentPieces(sock.out, parts)
<1>5. sock'.out = Consume(Released, parts).out
  BY <1>1, <1>2, <1>3, AfterSendSound
<1>6. wire \in Seq(Stream)
  BY OutputFacts
<1>7. S \in Seq(Stream)
  <2>1. SocketSound(sock)
    BY DEF ReleaseInv
  <2> QED BY <1>1, <2>1, SentType DEF Stream
<1>8. CutEnds'
  BY <1>4 DEF CutEnds
<1>9. OutputKept'
  <2>1. ToSet(wire') = ToSet(wire) \cup ToSet(S)
    <3> HIDE DEF S
    <3> QED BY <1>1, <1>6, <1>7, ConcatElements DEF S
  <2>2. Queued' = Queued /\ Queued \subseteq Messages
    BY <1>3, OutputFacts DEF Queued
  <2> SUFFICES ASSUME NEW m \in Queued, NEW k \in 1 .. Length[m]
               PROVE  Covered(wire', sock'.out, m, k)
    BY <2>2 DEF OutputKept
  <2>3. Covered(wire, sock.out, m, k) /\ m \in Messages
    BY <1>4, <2>2 DEF Output, OutputKept
  <2>4. CASE <<m, k>> \in ToSet(wire)
    BY <2>1, <2>4 DEF Covered
  <2>5. CASE <<m, k>> \notin ToSet(wire)
    <3>1. PICK j \in 1 .. Len(sock.out) :
              sock.out[j].msg = m /\ k > Length[m] - sock.out[j].left
      BY <2>3, <2>5 DEF Covered
    <3>2. Covered(S, Consume(Released, parts).out, m, k)
      BY <1>1, <1>2, <2>3, <3>1, WrittenOrLeft
    <3> HIDE DEF S
    <3> QED BY <1>5, <2>1, <3>2 DEF Covered
  <2> QED BY <2>4, <2>5
<1>10. OutputOrdered'
  <2> SUFFICES ASSUME ~overtaken'
               PROVE  wire' \o FlattenSeq(K) = AllPieces'
    BY <1>4 DEF OutputOrdered
  <2>1. ~overtaken /\ ~Overtakes(sock.out, parts)
    BY <1>1
  <2>2. FlattenSeq(R) = S \o FlattenSeq(K)
    BY <1>1, <1>2, <1>5, <2>1, WrittenAndLeft
  <2>3. wire \o FlattenSeq(R) = AllPieces /\ AllPieces' = AllPieces
    BY <1>3, <1>4, <2>1 DEF Output, OutputOrdered, AllPieces
  <2>4. FlattenSeq(K) \in Seq(Stream)
    <3>1. ReleaseInv'
      BY ReleaseWrite
    <3>2. SocketSound(sock')
      BY <3>1 DEF ReleaseInv
    <3>3. K \in Seq(Seq(Stream))
      BY <3>2, BufferFields, RestsAre
    <3> QED BY <3>3, FlattenType
  <2> HIDE DEF R, K, S
  <2>5. Cat(Cat(wire, S), FlattenSeq(K)) = Cat(wire, Cat(S, FlattenSeq(K)))
    BY <1>6, <1>7, <2>4, CatAssociative
  <2>6. wire' = wire \o S
    BY <1>1 DEF S
  <2> QED BY <2>2, <2>3, <2>5, <2>6 DEF Cat
<1> QED BY <1>8, <1>9, <1>10 DEF Output

\* Every step keeps the output in order.
LEMMA OutputStep ==
    ASSUME ReleaseInv, Output, [SNext]_svars
    PROVE  Output'
<1> USE ReleaseFacts
<1>1. cut \in BOOLEAN
  BY OutputFacts
<1>2. CASE \/ UNCHANGED svars
           \/ ClientSend \/ ClientHalfClose \/ ClientClose \/ Callback \/ SkipOut
           \/ WriteInFlight
  <2>1. UNCHANGED <<sock, accepted, wire, overtaken, cut>>
    BY <1>2 DEF svars, ClientSend, ClientHalfClose, ClientClose, Callback, SkipOut,
                  WriteInFlight
  <2> QED BY <1>1, <2>1, OutputQuiet
<1>3. CASE \E m \in Messages : Queue(m)
  BY <1>3, OutputQueue
<1>4. CASE DispatchIn \/ DispatchHup
  <2>1. PICK t, o : /\ SocketSound(t) /\ o \in ReadOutcomes(t)
                    /\ t.out = sock.out \/ (t.hup_out /\ t.out = <<>>)
                    /\ sock.hup_out => t.hup_out
                    /\ sock' = o.sock /\ cut' = CutBy(sock, o.sock)
                    /\ UNCHANGED <<accepted, wire, overtaken>>
    <3>1. CASE DispatchIn
      BY <3>1 DEF DispatchIn
    <3>2. CASE DispatchHup
      <4>1. LET t == HangupOutput(sock) IN SocketSound(t) /\ t.hup_out /\ t.out = <<>>
        BY HangupOutputSound
      <4> QED BY <3>2, <4>1 DEF DispatchHup
    <3> QED BY <1>4, <3>1, <3>2
  <2>2. /\ o.sock.out = t.out \/ (o.sock.hup_out /\ o.sock.out = <<>>)
        /\ t.hup_out => o.sock.hup_out
    BY <2>1, ReadSound
  <2>3. /\ sock'.out = sock.out \/ (sock'.hup_out /\ sock'.out = <<>>)
        /\ sock.hup_out => sock'.hup_out
    BY <2>1, <2>2
  <2>4. /\ cut' \in BOOLEAN
        /\ cut' => cut \/ sock'.hup_out
        /\ ~cut' => ~cut /\ sock'.out = sock.out
    BY <1>1, <2>1, <2>3 DEF CutBy
  <2> QED BY <2>1, <2>3, <2>4, OutputQuiet
<1>5. CASE WriteNothing \/ WriteAgain \/ WriteFails
  <2>1. UNCHANGED <<accepted, wire, overtaken>>
    BY <1>5 DEF WriteNothing, WriteAgain, WriteFails
  <2>2. SocketSound(Released) /\ Released.out = sock.out /\ Released.hup_out = sock.hup_out
    BY ReleasedSound
  <2>3. CASE WriteNothing \/ WriteAgain
    <3>1. sock' = Released /\ cut' = cut
      BY <2>3 DEF WriteNothing, WriteAgain
    <3> QED BY <1>1, <2>1, <2>2, <3>1, OutputQuiet
  <2>4. CASE WriteFails
    <3>1. sock' = HangupOutput(Released) /\ cut' = TRUE
      BY <2>4 DEF WriteFails
    <3>2. sock'.hup_out
      BY <2>2, <3>1, HangupOutputSound
    <3> QED BY <2>1, <3>1, <3>2, OutputQuiet
  <2> QED BY <1>5, <2>3, <2>4
<1>6. CASE WriteSome
  BY <1>6, OutputWrite
<1>7. CASE DequeueNothing
  <2>1. sock' = MightReset(sock) /\ UNCHANGED <<accepted, wire, overtaken, cut>>
    BY <1>7 DEF DequeueNothing
  <2>2. sock'.out = sock.out /\ sock'.hup_out = sock.hup_out
    BY <2>1, MightResetFields
  <2> QED BY <1>1, <2>1, <2>2, OutputQuiet
<1>8. CASE DequeueMessage
  <2>1. sock' = [sock EXCEPT !.in = Tail(@)] /\ UNCHANGED <<accepted, wire, overtaken, cut>>
    BY <1>8 DEF DequeueMessage
  <2>2. sock'.out = sock.out /\ sock'.hup_out = sock.hup_out
    BY <2>1 DEF Sockets
  <2> QED BY <1>1, <2>1, <2>2, OutputQuiet
<1>9. CASE DequeueCorrupt \/ Disconnect
  <2>1. sock' = Close(sock) /\ UNCHANGED <<accepted, wire, overtaken, cut>>
    BY <1>9 DEF DequeueCorrupt, Disconnect
  <2>2. sock'.out = sock.out /\ (sock.hup_out => sock'.hup_out)
    BY <2>1, CloseSound
  <2> QED BY <1>1, <2>1, <2>2, OutputQuiet
<1>10. CASE EndOfFile \/ QueueRefused
  <2>1. sock' = Shutdown(sock) /\ UNCHANGED <<accepted, wire, overtaken, cut>>
    BY <1>10 DEF EndOfFile, QueueRefused, ConnectionShutdown
  <2>2. sock'.out = sock.out /\ (sock.hup_out => sock'.hup_out)
    BY <2>1, ShutdownSound
  <2> QED BY <1>1, <2>1, <2>2, OutputQuiet
<1> QED BY <1>2, <1>3, <1>4, <1>5, <1>6, <1>7, <1>8, <1>9, <1>10 DEF SNext, Step

\* For any messages of any length, any batch and any client: what the client
\* receives is what was accepted, in order and without gaps, until sendmmsg() goes
\* on behind a message it sent in part; whatever it does, all of it is sent before
\* the output ends, unless writing fails; and what the client sent is dispatched in
\* order (socket_dispatch_write(), socket_shutdown(), iqueue_pop_message()).
THEOREM StreamsIntact == SSpec => []StreamIntact
<1>1. SInit => StreamInv
  <2> SUFFICES ASSUME SInit PROVE StreamInv
    OBVIOUS
  <2>1. ReleaseInv
    BY ReleaseInit
  <2>2. InOrder /\ InputOrdered
    BY DEF SInit, InOrder, InputOrdered
  <2>3. sock.out = <<>> /\ accepted = <<>> /\ wire = <<>> /\ ~cut
    BY DEF SInit
  <2>4. Rests(sock.out) = <<>> /\ AllPieces = <<>>
    BY <2>3 DEF Rests, AllPieces, FlattenSeq
  <2>5. FlattenSeq(<<>>) = <<>> /\ <<>> \o <<>> = <<>>
    BY DEF FlattenSeq
  <2>6. OutputOrdered
    BY <2>3, <2>4, <2>5 DEF OutputOrdered
  <2>7. OutputKept /\ CutEnds
    BY <2>3 DEF OutputKept, CutEnds, Queued
  <2> QED BY <2>1, <2>2, <2>6, <2>7 DEF StreamInv
<1>2. StreamInv /\ [SNext]_svars => StreamInv'
  BY ReleaseStep, InputStep, OutputStep DEF StreamInv, Input, Output
<1>3. StreamInv => StreamIntact
  <2> SUFFICES ASSUME StreamInv PROVE StreamIntact
    OBVIOUS
  <2>1. ReleaseInv /\ InOrder /\ OutputOrdered /\ OutputKept
    BY DEF StreamInv
  <2>2. ~overtaken => InSequence
    BY <2>1, WrittenPrefix
  <2>3. FlushedBeforeShutdown
    <3> SUFFICES ASSUME sock.hup_out, ~cut, NEW m \in Queued, NEW k \in 1 .. Length[m]
                 PROVE  <<m, k>> \in ToSet(wire)
      BY DEF FlushedBeforeShutdown
    <3>1. Len(sock.out) = 0
      BY <2>1 DEF ReleaseInv, SocketSound
    <3>2. Covered(wire, sock.out, m, k)
      BY <2>1 DEF OutputKept
    <3>3. 1 .. Len(sock.out) = {}
      BY <3>1
    <3> QED BY <3>2, <3>3 DEF Covered
  <2> QED BY <2>1, <2>2, <2>3 DEF StreamIntact
<1> QED BY <1>1, <1>2, <1>3, PTL DEF SSpec

=============================================================================
