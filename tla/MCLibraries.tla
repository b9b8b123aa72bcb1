---------------------------- MODULE MCLibraries -----------------------------
(***************************************************************************)
(* From bytes to messages and the containers underneath: the tree, the     *)
(* list, the marshalling, the message and the input queue.  They share no  *)
(* state; a behaviour exercises one of them, chosen at the start (see      *)
(* MCRules).                                                          *)
(***************************************************************************)
EXTENDS RBTree, CList, Wire, Message, InputQueue

VARIABLE part   \* the one that is exercised

\* Wire
WireSeeds ==
  { <<"(", "(", "(", "s", ")", ")", ")">>,
    <<"(", "(", "(", "(", "s", ")", ")", ")", ")">>,
    <<"a", "{", "s", "a", "{", "s", "v", "}", "}">>,
    <<"a", "a", "(", "a", "s", "(", "v", ")", ")">>,
    <<"a", "{", "s", "a", "{", "s", "}", "}">>,
    <<"(", "a", "(", "a", "(", "a", "s", ")", ")", ")">>,
    <<"a", "{", "s", "(", "s", ")", "}">>,
    <<"(">> \o [k \in 1..(LengthMax - 2) |-> "s"] \o <<")">>,
    <<"(">> \o [k \in 1..(LengthMax - 1) |-> "s"] \o <<")">>,
    [k \in 1..(LengthMax + 1) |-> "s"] }

WireBodies ==
  { <<"y", "s">>, <<"a", "u">>, <<"a", "(", "y", "t", ")">>,
    <<"a", "{", "y", "v", "}">>, <<"(", "b", "a", "q", ")">>, <<"v">>,
    <<"a", "b">>, <<"o", "g">> }
WireVariants == { <<"v">>, <<"a", "y">>, <<"u">> }

WireValues(c) ==
  CASE c = "y" -> {<<7>>}
    [] c = "q" -> {<<1, 2>>}
    [] c = "b" -> {<<0, 0, 0, 0>>, <<2, 0, 0, 0>>}
    [] c = "u" -> {<<1, 2, 3, 4>>}
    [] c = "t" -> {<<1, 2, 3, 4, 5, 6, 7, 8>>}
    [] c = "s" -> {<<>>, <<"s", "/">>}
    [] c = "o" -> {<<"/", "s">>}
    [] c = "g" -> {<<"s">>}
    [] OTHER -> {<<>>}

\* Message: headers that are valid, and one for each way of being invalid.
CallFields == << <<PATH, "o", <<"/">>>>, <<MEMBER, "s", <<"s">>>> >>
LongSender == <<SENDER, "s", <<"s", ".", "s", "s", "s", "s", "s", "s", "s">>>>
IdSender   == <<SENDER, "s", <<":", "1", ".", "1">>>>
Serial     == <<REPLYSERIAL, "u", <<1, 0, 0, 0>>>>
OneFd      == <<UNIXFDS, "u", <<1, 0, 0, 0>>>>
Header(t, fields, body, fds) ==
  [type |-> t, version |-> 1, serial |-> 7, fields |-> fields,
   body |-> body, fds |-> fds]

MessageHeaders ==
  { Header(1, CallFields, <<>>, 0),
    Header(1, <<LongSender>> \o CallFields, <<>>, 0),
    Header(1, CallFields \o <<LongSender, <<SIGNATURE, "g", <<"s">>>>>>,
           <<0, 0, 0, 0, 0>>, 1),
    Header(4, CallFields \o <<IdSender, <<INTERFACE, "s", <<"s", ".", "s">>>>,
                              <<DESTINATION, "s", <<":", "1", ".", "1">>>>,
                              <<SIGNATURE, "g", <<"y", "a", "y">>>>>>,
           <<1, 0, 0, 0, 0, 0, 0, 0>>, 0),
    Header(2, <<Serial, IdSender, OneFd>>, <<>>, 2),
    Header(3, <<Serial, <<ERRORNAME, "s", <<"s", ".", "s">>>>,
                <<12, "y", <<3>>>>, IdSender, <<13, "u", <<1, 2, 3, 4>>>>,
                <<13, "s", <<"s">>>>>>, <<>>, 0),
    Header(2, <<Serial, OneFd>>, <<>>, 0),
    Header(4, CallFields, <<>>, 0),
    Header(1, <<LongSender, IdSender>> \o CallFields, <<>>, 0),
    Header(1, << <<PATH, "o", <<"/", "x">>>>, CallFields[2] >>, <<>>, 0),
    Header(1, << <<PATH, "s", <<"/">>>>, CallFields[2] >>, <<>>, 0),
    Header(1, << CallFields[1], <<MEMBER, "s", <<"s", ".">>>> >>, <<>>, 0) }

\* InputQueue: a line, then messages with and without descriptors.
Buffer(bytes, fds) == [bytes |-> bytes, fds |-> fds]
LineOf(n) == [k \in 1..n |-> <<0, 65>>] \o <<CR, LF>>
AllOf(m) == [i \in 1..(HeaderSize + BodySize[m]) |-> <<m, i>>]
QueueBodies == <<6, 0, 2>>
QueueStreams ==
  { <<Buffer(LineOf(n), 0), Buffer(AllOf(1), f1), Buffer(AllOf(2), f2),
      Buffer(AllOf(3), f3)>> :
      n \in {1, 3, 5}, f1 \in {0, 1}, f2 \in {0, 2}, f3 \in {0, 3} }
  \cup { <<Buffer(LineOf(n) \o AllOf(1), 0), Buffer(AllOf(2), 2),
           Buffer(AllOf(3), 0)>> : n \in {1, 3, 5} }
  \cup { <<Buffer(LineOf(7), 0), Buffer(AllOf(1), 0)>>,
         <<Buffer(LineOf(1), 1)>>,
         <<Buffer(LineOf(1) \o SubSeq(AllOf(1), 1, 1), 0),
           Buffer(SubSeq(AllOf(1), 2, 2), 1),
           Buffer(SubSeq(AllOf(1), 3, 8), 0),
           Buffer(AllOf(2) \o AllOf(3), 0)>>,
         <<Buffer(LineOf(1), 0), Buffer(SubSeq(AllOf(1), 1, 3), 1),
           Buffer(SubSeq(AllOf(1), 4, 8), 1)>> }

LibParts == {"tree", "list", "wire", "message", "queue"}

LibInit ==
  /\ RBInit /\ CLInit /\ WInit /\ MInit
  /\ IQInit /\ (part # "queue" => sent = CHOOSE s \in QueueStreams : TRUE)

LibNext ==
  \/ /\ part = "tree" /\ RBNext
     /\ UNCHANGED <<part, listVars, wireVars, messageVars, iqVars>>
  \/ /\ part = "list" /\ CLNext
     /\ UNCHANGED <<part, rbVars, wireVars, messageVars, iqVars>>
  \/ /\ part = "wire" /\ WNext
     /\ UNCHANGED <<part, rbVars, listVars, messageVars, iqVars>>
  \/ /\ part = "message" /\ MNext
     /\ UNCHANGED <<part, rbVars, listVars, wireVars, iqVars>>
  \/ /\ part = "queue" /\ IQNext
     /\ UNCHANGED <<part, rbVars, listVars, wireVars, messageVars>>
=============================================================================
