--------------------------- MODULE LauncherPolicy ---------------------------
(***************************************************************************)
(* What the launcher makes of its configuration files and what the broker  *)
(* decides from it: the reader of Config, the users and groups of          *)
(* NssCache, and the rules of Policy once the read is done.                *)
(***************************************************************************)
EXTENDS Config

CONSTANTS UidMax, SystemUidMax, LauncherUid, PrefixesOf,
          ConsoleUsers   \* SYSTEM_CONSOLE_USERS

ASSUME LauncherPolicyAssumption == NoId = UidMax + 1

P == INSTANCE Policy

Attr(n, k) == IF k \in DOMAIN n.attr THEN n.attr[k] ELSE None
Number(text, default) == IF text \in DOMAIN Numerals THEN Numerals[text] ELSE default
IdOf(n, k) == IF k \in DOMAIN n.attr THEN n.attr[k] ELSE 0    \* calloc()
AnyFds == 99                                                    \* UINT64_MAX

Side(n, side, name) ==
    [name |-> Attr(n, name), path |-> Attr(n, side \o "_path"),
     interface |-> Attr(n, side \o "_interface"), member |-> Attr(n, side \o "_member"),
     error |-> Attr(n, side \o "_error"), type |-> Attr(n, side \o "_type"),
     broadcast |-> Attr(n, side \o "_broadcast"),
     reply |-> Attr(n, side \o "_requested_reply")]

Rule(n, policy) ==
    [allow |-> n.type = "allow", context |-> Attr(policy, "context"),
     id |-> IdOf(policy, "id"), user |-> Attr(n, "user"), uid |-> IdOf(n, "uid"),
     group |-> Attr(n, "group"), gid |-> IdOf(n, "gid"),
     own |-> Attr(n, "own"), own_prefix |-> Attr(n, "own_prefix"),
     send |-> Side(n, "send", "send_destination"),
     recv |-> Side(n, "receive", "receive_sender"), eavesdrop |-> Attr(n, "eavesdrop"),
     min_fds |-> Number(Attr(n, "min_fds"), 0),
     max_fds |-> Number(Attr(n, "max_fds"), AnyFds)]

\* The walk of policy_import() over the node list.
OfType(types) == SelectSeq(order, LAMBDA i : nodes[i].type \in types)
RuleNodes == OfType({"allow", "deny"})
Rules == [i \in DOMAIN RuleNodes |->
            Rule(nodes[RuleNodes[i]], nodes[nodes[RuleNodes[i]].parent])]
LastOf(types, f(_), default) ==
    IF OfType(types) = <<>> THEN default ELSE f(nodes[OfType(types)[Len(OfType(types))]])
BusType == LastOf({"type"}, LAMBDA n : n.value, None)
ApparmorMode == LastOf({"apparmor"}, LAMBDA n : Attr(n, "mode"), "enabled")
Associates ==
    SelectSeq([i \in DOMAIN OfType({"associate"}) |->
                 LET n == nodes[OfType({"associate"})[i]]
                 IN <<Attr(n, "own"), Attr(n, "context")>>],
              LAMBDA a : a[1] # None /\ a[2] # None)

\* launcher->at_console: whether console users have to be told apart at all.
NeedsConsole ==
    \E i \in DOMAIN nodes : nodes[i].type = "policy" /\ Attr(nodes[i], "context") = "at_console"
ConsoleUids ==
    IF NeedsConsole THEN U!ResolveNames(nss.users, ConsoleUsers).ids ELSE <<>>
Names == UNION {{PrefixesOf[n][i] : i \in DOMAIN PrefixesOf[n]} : n \in DOMAIN PrefixesOf}
         \union {P!Driver}
Message == P!Export(P!Optimize(P!Import(Rules)), ConsoleUids)
BrokerRegistry == P!Registry(Message, Names)

LauncherPolicySpec == ConfigInit /\ [][ConfigNext]_configVars

-----------------------------------------------------------------------------
(* Properties *)

RECURSIVE Preorder(_)
Preorder(n) ==
    LET kids == SelectSeq([k \in DOMAIN nodes |-> k], LAMBDA k : nodes[k].parent = n)
    IN FoldLeft(LAMBDA acc, k : acc \o Preorder(k), <<n>>, kids)

RECURSIVE Above(_)
Above(n) == IF n = 0 THEN {} ELSE {n} \union Above(nodes[n].parent)
Opened(n) == nodes[n].type = "include" /\ \E k \in DOMAIN nodes :
                nodes[k].parent = n /\ nodes[k].type = "busconfig"

(* Files are read breadth-first, from a queue, yet the node list is at     *)
(* every moment what inlining each include where it stands would give, so  *)
(* that a later rule overrides an earlier one across files; and no file is *)
(* read within itself, however the includes are nested                     *)
(* (config_parser_include(), config_parser_begin_fn()).                    *)
ReadInOrder ==
    /\ order = Preorder(1)
    /\ \A n \in DOMAIN nodes : Opened(n) =>
         \A a \in Above(nodes[n].parent) :
            Opened(a) => nodes[a].value # nodes[n].value

(* Whatever was looked up before, a name resolves to what the databases    *)
(* say, with root being 0, and so does an id that some entry has: entries  *)
(* that disagree on a name or an id are kept out of the cache, entries for *)
(* absent users do not hide present ones (nss_cache_add()).                *)
NamesResolve ==
    /\ \A e \in ToSet(U!Databases) \union {[name |-> "ghost", id |-> NoId]} :
         U!Lookup(nss.users, U!ByName(e.name)).answer = U!Truth(U!ByName(e.name))
    /\ \A e \in ToSet(U!Databases) :
         U!Lookup(nss.users, U!ById(e.id)).answer = U!Valid(e.id)
    /\ \A e \in ToSet(G!Databases) :
         G!Lookup(nss.groups, G!ByName(e.name)).answer = G!Truth(G!ByName(e.name))

AtConsole(uid) ==
    \/ uid > SystemUidMax
    \/ NeedsConsole /\ \E i \in DOMAIN ConsoleUsers : U!Truth(U!ByName(ConsoleUsers[i])) = U!Valid(uid)
InContext(r, uid, gids) ==
    CASE r.context = "user" -> r.id = uid
      [] r.context = "group" -> r.id \in gids
      [] r.context = "at_console" -> AtConsole(uid)
      [] r.context = "no_console" -> ~AtConsole(uid)
      [] OTHER -> TRUE

\* The rule that decides: of the highest context, and in it the last.
Decided(rules, applies(_), fallback) ==
    LET cand == {i \in DOMAIN rules : /\ rules[i].context # None
                                      /\ ~P!Refused(rules[i])
                                      /\ applies(rules[i])}
        rank(i) == P!Rank(rules[i].context)
    IN IF cand = {} THEN fallback
       ELSE rules[CHOOSE i \in cand : \A j \in cand :
                     \/ rank(j) < rank(i)
                     \/ rank(j) = rank(i) /\ j <= i].allow

Covers(filter, value) == filter \in {None, "*", value}
Carried(f, r, names, m) ==
    /\ f.name \in names \union {None, "*"}
    /\ Covers(f.path, m.path) /\ Covers(f.interface, m.interface)
    /\ Covers(f.member, m.member) /\ f.type \in {None, m.type}
    /\ r.min_fds <= m.fds /\ m.fds <= r.max_fds

ToConnect(r, p) ==
    /\ P!Kind(r) = "connect"
    /\ IF r.user # None THEN r.uid \in {NoId, p.uid}
                        ELSE r.gid = NoId \/ r.uid \in p.gids
ToOwn(r, p, n) ==
    /\ P!Kind(r) = "own" /\ InContext(r, p.uid, p.gids)
    /\ r.own = "*" \/ {r.own, r.own_prefix} \intersect ToSet(PrefixesOf[n]) # {}
ToSend(r, p, names, m) ==
    /\ P!Kind(r) = "send" /\ InContext(r, p.uid, p.gids)
    /\ Carried(r.send, r, names, m)
    /\ r.send.broadcast \in {None, IF m.broadcast THEN "true" ELSE "false"}
ToReceive(r, p, names, m) ==
    P!Kind(r) = "recv" /\ InContext(r, p.uid, p.gids) /\ Carried(r.recv, r, names, m)

Peers == [uid : 0..UidMax, gids : SUBSET (0..1)]
Messages == [type : {"method_call", "signal"}, path : {"/p"}, interface : {"i", "j"},
             member : {"m"}, broadcast : BOOLEAN, fds : {0, 2}]

(* Sorting, thinning out, batching, sending and looking up again change no *)
(* verdict: for every peer the broker decides as the rule of the highest   *)
(* context that applies, and among those the last one read, and denies     *)
(* when there is none, except that the launcher's own uid may connect      *)
(* (policy_export(), policy_snapshot_new(), policy_snapshot_check_*()).    *)
(* Four things are as the code has them: a rule to own one name also       *)
(* covers the names below it, a connection rule in a console context       *)
(* covers everyone, one for a group covers the group whose id is the       *)
(* element's uid, and SYSTEM_CONSOLE_USERS count as being at the console   *)
(* only if some policy is for those who are (launcher_parse_config()).     *)
VerdictsAsWritten ==
    result = "done" => LET registry == BrokerRegistry
                           rules == Rules IN
    \A p \in Peers :
      LET s == P!Snapshot(registry, p.uid, p.gids) IN
      /\ P!CheckConnect(s) = Decided(rules, LAMBDA r : ToConnect(r, p), p.uid = LauncherUid)
      /\ \A n \in DOMAIN PrefixesOf :
           P!CheckOwn(s, n) = Decided(rules, LAMBDA r : ToOwn(r, p, n), FALSE)
      /\ \A m \in Messages, names \in {{P!Driver}, {}, {"a"}, {"a", "a.b"}} :
           /\ P!CheckSend(s, names, m) =
                Decided(rules, LAMBDA r : ToSend(r, p, names, m), FALSE)
           /\ P!CheckReceive(s, names, m) =
                Decided(rules, LAMBDA r : ToReceive(r, p, names, m), FALSE)
=============================================================================
