------------------------------- MODULE Message -------------------------------
(***************************************************************************)
(* A message on its way through the broker: a peer marshals it, it arrives *)
(* (intact or with a byte changed), the broker parses and validates its    *)
(* header and body, cuts out the sender field that the peer may have put   *)
(* there and stitches in the true one, and sends the pieces on.            *)
(*                                                                         *)
(* A header field is <<code, type, value>>, the type one character.        *)
(***************************************************************************)
EXTENDS DVar

CONSTANTS
  SizeMax,      \* MESSAGE_SIZE_MAX
  Headers,      \* what a peer may send: [type, version, serial, fields, body, fds]
  Senders,      \* the ids of senders, each one digit
  MDamageBytes  \* what a damaged byte may become

ASSUME MessageAssumption == SizeMax \in Nat /\ Senders \subseteq {"1", "2"}

VARIABLES
  stage,    \* "none", "sent", "incoming", "parsed", "refused", "forwarded", "outgoing"
  composed, \* history: what the peer sent
  raw,      \* its bytes
  message,  \* the broker's message
  intact    \* history: FALSE once a byte was damaged

messageVars == <<stage, composed, raw, message, intact>>

(***************************************************************************)
(* Names (dbus/protocol.c).                                                *)
(***************************************************************************)
Dot == Code["."]
Letter(b) == b \in (65..90) \cup (97..122) \cup {95}
Digit(b) == b \in 48..57
Starts(s, k) == k = 1 \/ s[k - 1] = Dot     \* k starts an element

\* Elements of allowed bytes between single dots.
Dotted(s, Allowed(_, _)) ==
  /\ s # <<>> /\ Last(s) # Dot
  /\ \A k \in DOMAIN s :
       IF s[k] = Dot THEN ~Starts(s, k) ELSE Allowed(s[k], Starts(s, k))
HasDot(s) == \E k \in DOMAIN s : s[k] = Dot
Short(s) == Len(s) <= 255

ValidateNameCommon(s, namespace) ==
  LET unique == s # <<>> /\ Head(s) = Code[":"]
      rest   == IF unique THEN Tail(s) ELSE s
  IN  /\ Short(s)
      /\ Dotted(rest, LAMBDA b, first :
                  Letter(b) \/ b = 45 \/ (Digit(b) /\ (~first \/ unique)))
      /\ HasDot(rest) \/ namespace
ValidateName(s) == ValidateNameCommon(s, FALSE)
ValidateInterface(s) == Short(s) /\ HasDot(s)
  /\ Dotted(s, LAMBDA b, first : Letter(b) \/ (Digit(b) /\ ~first))
ValidateMember(s) == Short(s) /\ ~HasDot(s)
  /\ Dotted(s, LAMBDA b, first : Letter(b) \/ (Digit(b) /\ ~first))

\* address_to_string() of a unique id
AddressToString(id) == Bytes(<<":", "1", ".", id>>)

(***************************************************************************)
(* Header fields.                                                          *)
(***************************************************************************)
PATH == 1
INTERFACE == 2
MEMBER == 3
ERRORNAME == 4
REPLYSERIAL == 5
DESTINATION == 6
SENDER == 7
SIGNATURE == 8
UNIXFDS == 9
FieldN == 10

FieldType(f) ==
  CASE f = PATH -> "o" [] f \in {REPLYSERIAL, UNIXFDS} -> "u"
    [] f = SIGNATURE -> "g" [] OTHER -> "s"

\* Stand for /org/freedesktop/DBus/Local and org.freedesktop.DBus.Local.
LocalPath == Bytes(<<"/", "x">>)
LocalInterface == Bytes(<<"x", ".", "x">>)

\* The restrictions of each field on its own value.
FieldError(f, value, fds) ==
  CASE f = PATH -> IF value = LocalPath THEN "InvalidHeader" ELSE Ok
    [] f = INTERFACE -> IF value = LocalInterface \/ ~ValidateInterface(value)
                        THEN "InvalidHeader" ELSE Ok
    [] f = MEMBER -> IF ValidateMember(value) THEN Ok ELSE "InvalidHeader"
    [] f = ERRORNAME -> IF ValidateInterface(value) THEN Ok ELSE "InvalidHeader"
    [] f = REPLYSERIAL -> IF Number(value) = 0 THEN "InvalidHeader" ELSE Ok
    [] f \in {DESTINATION, SENDER} ->
         IF ValidateName(value) THEN Ok ELSE "InvalidHeader"
    [] f = UNIXFDS -> IF Number(value) > fds THEN "MissingFds" ELSE Ok
    [] OTHER -> Ok

Mandatory(type) ==
  CASE type = 1 -> {PATH, MEMBER}
    [] type = 2 -> {REPLYSERIAL}
    [] type = 3 -> {ERRORNAME, REPLYSERIAL}
    [] type = 4 -> {PATH, INTERFACE, MEMBER}
    [] OTHER -> {}

HeaderType == NewFromSignature(<<"(", "y", "y", "y", "y", "u", "u",
                                 "a", "(", "y", "v", ")", ")">>)
FixedHeader == 16

RECURSIVE ReadAll(_, _)
ReadAll(v, chars) ==
  IF chars = <<>> THEN v ELSE ReadAll(Read(v, Head(chars), <<>>), Tail(chars))

\* A known field must not come twice.
Repeated(f, fields) == f \in DOMAIN fields

\* The loop over the header fields; meta is what was read of them, at where
\* the sender's string begins (0: there is none).
RECURSIVE ParseFields(_, _, _)

\* The value of the known field f was read.
KnownField(v, f, meta, fds) ==
  IF FieldError(f, v.out, fds) # Ok
  THEN [meta EXCEPT !.r = FieldError(f, v.out, fds)]
  ELSE ParseFields(ReadAll(v, <<">", ")">>),
         [meta EXCEPT !.fields = (f :> v.out) @@ @,
                      !.at = IF f = SENDER
                             THEN Cur(v).ib - 1 - Len(v.out) ELSE @],
         fds)

\* The code of the field was read.
ParseField(v, f, meta, fds) ==
  IF f >= FieldN THEN ParseFields(Read(Skip(v), ")", <<>>), meta, fds)
  ELSE IF Repeated(f, meta.fields) \/ f = 0
  THEN [meta EXCEPT !.r = "InvalidHeader"]
  ELSE KnownField(Read(Read(v, "<", NewFromSignature(<<FieldType(f)>>)),
                       FieldType(f), <<>>), f, meta, fds)

FieldOf(v, meta, fds) == ParseField(v, v.out[1], meta, fds)

ParseFields(v, meta, fds) ==
  IF More(v) THEN FieldOf(ReadAll(v, <<"(", "y">>), meta, fds)
  ELSE [meta EXCEPT !.v = v]

\* An error of the variant is the peer's fault, unless it says the broker
\* used it wrongly: that is fatal to the broker.
FoldPoison(e, peers) ==
  CASE e = Ok -> Ok [] e = "NotRecoverable" -> "Fatal" [] OTHER -> peers

\* message_parse_header().  Its first read hands out type, version and serial.
Metadata(v, type, r) ==
  [v |-> v, type |-> type, fields |-> <<>>, at |-> 0, r |-> r, args |-> <<>>]

RECURSIVE ReadEach(_, _, _)
ReadEach(v, chars, outs) ==
  IF chars = <<>> THEN <<v, outs>>
  ELSE LET w == Read(v, Head(chars), <<>>)
       IN  ReadEach(w, Tail(chars), Append(outs, w.out))

HeaderEnd(meta) ==
  IF meta.r # Ok THEN meta
  ELSE IF ~(Mandatory(meta.type) \subseteq DOMAIN meta.fields)
  THEN [meta EXCEPT !.r = "InvalidHeader"]
  ELSE [meta EXCEPT !.r = FoldPoison(
          ReadResult(ReadAll(meta.v, <<"]", ")">>)), "InvalidHeader")]

HeaderFields(v, outs, fds) ==
  LET type == outs[3][1]
  IN  IF type = 0 \/ outs[5] # <<1>> \/ outs[7] = <<0, 0, 0, 0>>
      THEN Metadata(v, type, "InvalidHeader")
      ELSE HeaderEnd(ParseFields(v, Metadata(v, type, Ok), fds))

FromPrologue(x, fds) == HeaderFields(x[1], x[2], fds)

ParseHeader(m) ==
  FromPrologue(ReadEach(BeginRead(m.big, HeaderType, SubSeq(m.data, 1, m.nh)),
                        <<"(", "y", "y", "y", "y", "u", "u", "[">>, <<>>),
               m.fds)

\* message_parse_body(): strings and paths among the first arguments are kept
\* for the matches under their index, the rest is skipped and thereby validated.
RECURSIVE ParseArgs(_, _, _)
KeepArg(v, i, c, args) == ParseArgs(v, i + 1, (i :> <<c, v.out>>) @@ args)

ParseArgs(v, i, args) ==
  IF v.poison # Ok \/ Cur(v).n = 0 THEN [v |-> v, args |-> args]
  ELSE LET c == Cur(v).types[Cur(v).i].element
       IN  IF c \in {"s", "o"} /\ i < 64 THEN KeepArg(Read(v, c, <<>>), i, c, args)
           ELSE ParseArgs(Skip(v), i + 1, args)

RECURSIVE BodyTypes(_)
BodyTypes(str) ==
  IF str = <<>> THEN <<>>
  ELSE LET then(type) ==
             type \o BodyTypes(SubSeq(str, Len(type) + 1, Len(str)))
       IN  then(NewFromSignature(str))

BodyEnd(x, meta) ==
  [meta EXCEPT !.args = x.args,
               !.r = FoldPoison(ReadResult(x.v), "InvalidBody")]

ParseBody(m, meta) ==
  LET str == IF SIGNATURE \in DOMAIN meta.fields
             THEN Chars(meta.fields[SIGNATURE]) ELSE <<>>
  IN  BodyEnd(ParseArgs(BeginRead(m.big, BodyTypes(str),
                 SubSeq(m.data, Align(m.nh, 3) + 1, Len(m.data))), 0, <<>>), meta)

\* message_parse_metadata(): the header, the padding after it, the body; the
\* descriptors beyond those declared are closed.
WithMetadata(m, meta) ==
  LET fds == IF UNIXFDS \in DOMAIN meta.fields
             THEN Number(meta.fields[UNIXFDS]) ELSE 0
  IN  [m EXCEPT !.r = meta.r, !.type = meta.type, !.fields = meta.fields,
                !.args = meta.args, !.orig = meta.at,
                !.fds = Min({m.fds, fds})]

AfterHeader(m, meta) ==
  IF meta.r # Ok THEN [m EXCEPT !.r = meta.r]
  ELSE IF \E k \in (m.nh + 1)..Align(m.nh, 3) : m.data[k] # 0
  THEN [m EXCEPT !.r = "InvalidHeader"]
  ELSE WithMetadata(m, ParseBody(m, meta))

Parse(m) == AfterHeader(m, ParseHeader(m))

(***************************************************************************)
(* Messages.  vecs are the pieces that are sent.                           *)
(***************************************************************************)
Sizes(big, data) ==
  LET num(k) == Number(IF big THEN Reverse(SubSeq(data, k, k + 3))
                              ELSE SubSeq(data, k, k + 3))
  IN  [nh |-> FixedHeader + num(13), nb |-> num(5)]

NewMessage(big, data, nh, fds) ==
  [big |-> big, data |-> data, nh |-> nh, fds |-> fds, r |-> Ok, type |-> 0,
   fields |-> <<>>, args |-> <<>>, orig |-> 0, n |-> Len(data),
   vecs |-> <<SubSeq(data, 1, Align(nh, 3)), <<>>, <<>>,
              SubSeq(data, Align(nh, 3) + 1, Len(data))>>]

\* Where the fields' size is in the header.
PutFields(m, n) ==
  LET size == IF m.big THEN Reverse(U32(n)) ELSE U32(n)
  IN  [m EXCEPT !.vecs[1] =
         [k \in DOMAIN @ |-> IF k \in 13..16 THEN size[k - 12] ELSE @[k]]]

\* Where the field of the sender, which begins after start bytes, ends.
\* Faulty variant: its padding is left behind.
PastSenderUnaligned(m, start) == start + 9 + Len(m.fields[SENDER])
PastSender(m, start) == start + Align(9 + Len(m.fields[SENDER]), 3)

\* message_stitch_sender(): the sender the peer may have put there is cut out,
\* and a field with the unique name goes to the end of the header.
StitchSender(m, id) ==
  LET sender == AddressToString(id)
      field  == <<SENDER, 1, Code["s"], 0>>
                \o (IF m.big THEN Reverse(U32(Len(sender))) ELSE U32(Len(sender)))
                \o sender \o <<0>>
      patch  == field \o [k \in 1..(Align(Len(field), 3) - Len(field)) |-> 0]
      start  == m.orig - 8
      past   == PastSender(m, start)
      head   == m.vecs[1]
      cut    == IF m.orig = 0 THEN [m EXCEPT !.vecs[3] = patch]
                ELSE [m EXCEPT !.vecs = <<SubSeq(head, 1, start),
                                          SubSeq(head, past + 1, Len(head)),
                                          patch, @[4]>>]
      nh     == Len(cut.vecs[1]) + Len(cut.vecs[2]) + Len(field)
  IN  PutFields([cut EXCEPT !.nh = nh, !.n = Align(nh, 3) + Len(m.vecs[4])],
                nh - FixedHeader)

Forwarded(m) == FlattenSeq(m.vecs)

(***************************************************************************)
(* The life of a message.                                                  *)
(***************************************************************************)
RECURSIVE WriteAll(_, _)
WriteAll(v, items) ==
  IF items = <<>> \/ v.poison # Ok THEN v
  ELSE WriteAll(Write(v, Head(items)[1], Head(items)[2]), Tail(items))

\* What a client library makes of a header h: its bytes.
Marshal(big, h, n_body) ==
  LET field(f) == << <<"(", <<>>>>, <<"y", <<f[1]>>>>,
                     <<"<", NewFromSignature(<<f[2]>>)>>, <<f[2], f[3]>>,
                     <<">", <<>>>>, <<")", <<>>>> >>
      items == << <<"(", <<>>>>, <<"y", <<IF big THEN 66 ELSE 108>>>>,
                  <<"y", <<h.type>>>>, <<"y", <<0>>>>, <<"y", <<h.version>>>>,
                  <<"u", U32(n_body)>>, <<"u", U32(h.serial)>>, <<"[", <<>>>> >>
               \o FlattenSeq([k \in DOMAIN h.fields |-> field(h.fields[k])])
               \o << <<"]", <<>>>>, <<")", <<>>>> >>
      b == WrittenBytes(WriteAll(BeginWrite(big, HeaderType), items))
  IN  b \o [k \in 1..(Align(Len(b), 3) - Len(b)) |-> 0] \o h.body

NoMessage == NewMessage(FALSE, <<>>, 0, 0)

MInit ==
  /\ stage = "none" /\ composed = <<>> /\ raw = <<>>
  /\ message = NoMessage /\ intact = TRUE

Compose(big, h) ==
  /\ stage = "none"
  /\ stage' = "sent"
  /\ composed' = <<big, h>>
  /\ raw' = Marshal(big, h, Len(h.body))
  /\ UNCHANGED <<message, intact>>

DamageByte(k, b) ==
  /\ stage = "sent" /\ intact /\ k \in DOMAIN raw
  /\ raw' = [raw EXCEPT ![k] = b] /\ intact' = FALSE
  /\ UNCHANGED <<stage, composed, message>>

\* message_new_incoming(), and its bytes arrive; when the header promises
\* more than the peer sends, the message never gets complete.
NewIncoming ==
  LET big  == raw[1] = 66
      s    == Sizes(big, raw)
      size == Align(s.nh, 3) + s.nb
  IN  /\ stage = "sent"
      /\ IF raw[1] \notin {66, 108} \/ size > SizeMax \/ size > Len(raw)
         THEN stage' = "refused" /\ UNCHANGED message
         ELSE /\ stage' = "incoming"
              /\ message' = NewMessage(big, SubSeq(raw, 1, size), s.nh,
                                       composed[2].fds)
      /\ UNCHANGED <<composed, raw, intact>>

ParseMetadata ==
  /\ stage = "incoming"
  /\ \E m \in {Parse(message)} :
       /\ message' = m
       /\ stage' = IF m.r = Ok THEN "parsed" ELSE "refused"
  /\ UNCHANGED <<composed, raw, intact>>

Stitch(id) ==
  /\ stage = "parsed"
  /\ message' = StitchSender(message, id)
  /\ stage' = "forwarded"
  /\ composed' = Append(composed, id)
  /\ UNCHANGED <<raw, intact>>

\* message_new_outgoing(): a message of the driver, marshalled without the
\* size of its body, which is filled in.
SetBodySize(m) ==
  LET nb   == Len(m.data) - FixedHeader - Align(m.nh - FixedHeader, 3)
      size == IF m.big THEN Reverse(U32(nb)) ELSE U32(nb)
  IN  [m EXCEPT !.vecs[1] =
         [k \in DOMAIN @ |-> IF k \in 5..8 THEN size[k - 4] ELSE @[k]]]

NewOutgoing(big, h) ==
  /\ stage = "none"
  /\ stage' = "outgoing" /\ composed' = <<big, h>>
  /\ \E data \in {Marshal(big, h, 0)} :
       message' = SetBodySize(
                    NewMessage(big, data, Sizes(big, data).nh, h.fds))
  /\ UNCHANGED <<raw, intact>>

MessageFree ==
  /\ stage \in {"refused", "forwarded", "outgoing"}
  /\ stage' = "none" /\ composed' = <<>> /\ raw' = <<>>
  /\ message' = NoMessage /\ intact' = TRUE

MNext ==
  \/ \E big \in BOOLEAN, h \in Headers : Compose(big, h) \/ NewOutgoing(big, h)
  \/ \E k \in DOMAIN raw, b \in MDamageBytes : DamageByte(k, b)
  \/ NewIncoming
  \/ ParseMetadata
  \/ \E id \in Senders : Stitch(id)
  \/ MessageFree

MSpec == MInit /\ [][MNext]_messageVars

(***************************************************************************)
(* Properties                                                              *)
(***************************************************************************)
\* What a peer must send: known fields once and of their types, valid, with
\* the mandatory ones, and descriptors enough.
Acceptable(h) ==
  LET known == {k \in DOMAIN h.fields : h.fields[k][1] < FieldN}
      value(k) == IF h.fields[k][2] \in {"s", "o", "g"}
                  THEN Bytes(h.fields[k][3]) ELSE h.fields[k][3]
  IN  /\ h.type # 0 /\ h.version = 1 /\ h.serial # 0
      /\ \A j, k \in known : h.fields[j][1] = h.fields[k][1] => j = k
      /\ \A k \in known : /\ h.fields[k][1] # 0
                          /\ h.fields[k][2] = FieldType(h.fields[k][1])
                          /\ FieldError(h.fields[k][1], value(k), h.fds) = Ok
      /\ Mandatory(h.type) \subseteq {h.fields[k][1] : k \in known}

\* No bytes a peer can send lead the parser into an error that is fatal to
\* the broker, and an intact header is accepted exactly when it is valid.
ParsedAsSent ==
  /\ message.r # "Fatal"
  /\ stage = "parsed" /\ intact => Acceptable(composed[2])
  /\ stage = "refused" /\ intact => ~Acceptable(composed[2])

\* What a peer makes of the pieces that are sent on.
ReadBack(m) ==
  LET b == Forwarded(m)
  IN  Parse(NewMessage(m.big, b, Sizes(m.big, b).nh, m.fds))

SentOn(again) ==
  LET h == composed[2]
      sender == AddressToString(composed[3])
  IN  /\ again.r = Ok
      /\ message.n = Len(Forwarded(message))
      /\ Sizes(message.big, Forwarded(message)).nb = Len(again.vecs[4])
      /\ again.fields = (SENDER :> sender) @@ message.fields
      /\ again.args = message.args
      /\ again.vecs[4] = message.vecs[4]
      /\ intact =>
           Forwarded(message) =
             Marshal(composed[1],
               [h EXCEPT !.fields =
                  SelectSeq(@, LAMBDA f : f[1] # SENDER)
                  \o << <<SENDER, "s", <<":", "1", ".", composed[3]>>>> >>],
               Len(h.body))

\* The pieces that are sent on are one well-formed message of exactly the
\* announced size, with the fields the peer sent, the broker's sender in place
\* of any other, and the same body; byte by byte it is what marshalling the
\* message with that sender as its last field gives.
ForwardedWhole ==
  /\ stage = "forwarded" => SentOn(ReadBack(message))
  /\ stage = "outgoing" /\ Acceptable(composed[2]) => ReadBack(message).r = Ok

\* A message is parsed for what it is and sent on as what it was.
MessageIntact == ParsedAsSent /\ ForwardedWhole
=============================================================================
