----------------------------- MODULE MCLauncher -----------------------------
(***************************************************************************)
(* The launcher: how it reads its configuration and what the broker makes  *)
(* of the policy in it, and how it starts services.  They share no state;  *)
(* a behaviour exercises one of them, chosen at the start.                 *)
(***************************************************************************)
EXTENDS LauncherPolicy, Service

VARIABLE part

MCNumerals == [x \in {"0", "1", "2", "9"} |->
                 CASE x = "0" -> 0 [] x = "1" -> 1 [] x = "2" -> 2 [] OTHER -> 9]
Entries(pairs) == [i \in DOMAIN pairs |-> [name |-> pairs[i][1], id |-> pairs[i][2]]]
\* A second name of root, and a root with another id.
MCPasswdFile == Entries(<< <<"toor", 0>>, <<"root", 3>>, <<"bob", 1>> >>)
MCPasswdNss == Entries(<< <<"eve", 2>> >>)
MCGroupFile == Entries(<< <<"wheel", 1>> >>)
MCGroupNss == Entries(<< <<"staff", 2>> >>)
MCConsoleUsers == <<"bob", "ghost">>
MCPrefixesOf == [x \in {"a", "a.b", "c"} |->
                   IF x = "a.b" THEN <<"", "a", "a.b">> ELSE <<"", x>>]

El(name, attrs, body) ==
    <<[ev |-> "begin", name |-> name, attrs |-> attrs]>> \o body \o <<[ev |-> "end"]>>
Data(x) == <<[ev |-> "text", data |-> x]>>
Block(context, rule) == El("policy", <<context>>, El(rule[1], rule[2], <<>>))
Ctx == {<<"context", "default">>, <<"context", "mandatory">>, <<"user", "bob">>,
        <<"group", "wheel">>, <<"at_console", "true">>, <<"at_console", "false">>,
        <<"user", "ghost">>}
Attrs == {<< <<"user", "*">> >>, << <<"user", "bob">> >>, << <<"group", "wheel">> >>,
          << <<"group", "*">>, <<"own", "a">> >>,
          << <<"own", "*">> >>, << <<"own", "a">> >>, << <<"own_prefix", "a">> >>,
          << <<"send_destination", "a">>, <<"send_broadcast", "false">> >>,
          << <<"send_interface", "i">>, <<"max_fds", "1">> >>,
          << <<"send_type", "error">> >>,
          << <<"receive_sender", "a.b">>, <<"receive_type", "signal">> >>,
          << <<"eavesdrop", "true">> >>}
SomeRules == {"allow", "deny"} \X Attrs
FirstRules == {"allow"} \X {<< <<"user", "*">> >>, << <<"own", "*">> >>,
                            << <<"send_destination", "*">> >>,
                            << <<"receive_interface", "i">> >>}

File(status, events) == [status |-> status, events |-> events]
World(main, more, dirs, denied, vanishing) ==
    [files |-> (Main :> File("ok", main)) @@ more, dirs |-> dirs, denied |-> denied,
     vanishing |-> vanishing]

\* A default policy, then one rule in every context, one of them included.
RuleWorlds ==
    {World(El("busconfig", <<>>,
              El("include", <<>>, Data("more")) \o Block(c, r)),
           "more" :> File("ok", El("busconfig", <<>>, Block(<<"context", "default">>, f))),
           <<>>, {}, FALSE) :
       c \in Ctx, r \in SomeRules, f \in FirstRules}

Clutter ==
    El("type", <<>>, Data("sys") \o Data("tem"))
    \o El("user", <<>>, Data("eve")) \o El("user", <<>>, Data("ghost"))
    \o El("limit", << <<"name", "reply_timeout">>, <<"name", "no_such">> >>, Data("2"))
    \o El("limit", <<>>, Data("many"))
    \o El("selinux", <<>>, El("associate", << <<"own", "a">>, <<"context", "s">> >>, <<>>)
                           \o El("associate", << <<"own", "a">> >>, <<>>))
    \o El("apparmor", << <<"mode", "required">> >>, <<>>)
    \o El("bogus", <<>>, El("policy", <<>>, Data("x")))
    \o El("busconfig", <<>>, <<>>)
    \o El("policy", << <<"group", "9">> >>, El("deny", << <<"own", "a">> >>, <<>>))
    \o El("policy", << <<"at_console", "maybe">> >>, El("deny", << <<"own", "a">> >>, <<>>))
    \o El("policy", << <<"user", "9">> >>,
          El("deny", << <<"user", "9">>, <<"log", "true">> >>, <<>>)
          \o El("allow", << <<"group", "staff">>, <<"user", "ghost">> >>, <<>>))

Inc(attrs, f) == El("include", attrs, Data(f))
Nested == "one" :> File("ok", El("busconfig", <<>>,
                       Inc(<<>>, "two") \o Block(<<"context", "default">>,
                                                 <<"allow", << <<"own", "a">> >> >>)))
          @@ "two" :> File("ok", El("busconfig", <<>>,
                       Inc(<<>>, "one") \o Inc(<< <<"ignore_missing", "yes">> >>, "no")
                       \o Inc(<<>>, "main")
                       \o Block(<<"context", "default">>, <<"deny", << <<"own", "a">> >> >>)))
          @@ "bad" :> File("broken", <<[ev |-> "begin", name |-> "busconfig",
                                        attrs |-> <<>>]>>)
          @@ "locked" :> File("denied", <<>>)

TreeWorlds ==
    {World(El("busconfig", <<>>, x), Nested, "d" :> <<"one", "two">>, {"secret"}, v) :
       x \in {El("includedir", <<>>, Data("d"))
                \o El("includedir", <<>>, Data("nowhere")) \o Inc(<<>>, "two"),
              Inc(<<>>, "one") \o Inc(<<>>, "two") \o Inc(<<>>, "one"),
              Inc(<<>>, "bad"), Inc(<<>>, "locked"), Inc(<<>>, "no"),
              El("includedir", <<>>, Data("secret")),
              Inc(<< <<"if_selinux_enabled", "yes">> >>, "bad") \o Clutter},
       v \in BOOLEAN}

\* Rules for those at the console and for those who are not, in either order.
ConsoleWorlds ==
    {World(El("busconfig", <<>>, Block(<<"at_console", v[1]>>, r)
                                 \o Block(<<"at_console", v[2]>>, f)),
           <<>>, <<>>, {}, FALSE) :
       v \in {<<"true", "false">>, <<"false", "true">>},
       r \in {"deny"} \X {<< <<"own", "a">> >>, << <<"send_interface", "i">> >>},
       f \in FirstRules}

MCWorlds == RuleWorlds \union ConsoleWorlds \union TreeWorlds

LauncherInit ==
    \/ part = "policy" /\ ConfigInit /\ Init /\ kind = CHOOSE k \in Kinds : TRUE
    \/ part = "service" /\ ConfigInit /\ Init /\ disk = CHOOSE w \in TreeWorlds : TRUE

LauncherNext ==
    \/ part = "policy" /\ ConfigNext /\ UNCHANGED <<part, vars>>
    \/ part = "service" /\ Next /\ UNCHANGED <<part, configVars>>

LauncherSpec ==
    /\ LauncherInit
    /\ [][LauncherNext]_<<part, configVars, vars>>
    /\ WF_vars(part = "service" /\ Dispatch)
=============================================================================
