------------------------------- MODULE Policy -------------------------------
(***************************************************************************)
(* The policy, from the rules of the configuration to the broker's         *)
(* verdicts: the launcher sorts the rules into lists, throws away what     *)
(* cannot matter, and sends batches per user, per range of users and per   *)
(* group; the broker keeps them in a registry, takes a snapshot for every  *)
(* peer, and looks through its batches for the verdict of the highest      *)
(* priority.  A rule is what is left of an <allow> or <deny> element and   *)
(* of the <policy> around it.  A dotted name is a string; PrefixesOf has *)
(* the strings before each of its dots, the empty one and itself.          *)
(***************************************************************************)
EXTENDS Integers, Sequences, FiniteSets, SequencesExt, FiniteSetsExt

CONSTANTS UidMax,        \* the largest uid or gid
          NoId,          \* (uint32_t)-1, one more
          SystemUidMax,  \* SYSTEMUIDMAX
          LauncherUid,   \* getuid() in the launcher
          PrefixesOf     \* of every name that is asked for

Width == NoId + 1        \* ids are unsigned integers of this width
Ids == 0..UidMax
Unset == "none"
Driver == "org.freedesktop.DBus"

Contexts == <<"default", "group", "user", "at_console", "no_console", "mandatory">>
Rank(context) == CHOOSE i \in DOMAIN Contexts : Contexts[i] = context
PrioritySpan == 100      \* UINT64_MAX / _CONFIG_POLICY_N: above any count of rules

NoFilter == [name |-> Unset, path |-> Unset, interface |-> Unset, member |-> Unset,
             error |-> Unset, type |-> Unset, broadcast |-> Unset, reply |-> Unset]
Filters(f) == f # NoFilter

-----------------------------------------------------------------------------
(* launch/policy.c: import *)

Scopes == ({"default", "at_console", "no_console"} \X {0})
          \union ({"uid", "gid"} \X Ids)
Empty == [connect |-> <<>>, own |-> <<>>, send |-> <<>>, recv |-> <<>>]
NewPolicy == [count |-> 1, entries |-> [s \in Scopes |-> Empty]]

\* Which of the four importers an element goes to.
Kind(r) ==
    IF r.user # Unset \/ r.group # Unset THEN "connect"
    ELSE IF r.own # Unset \/ r.own_prefix # Unset THEN "own"
    ELSE IF Filters(r.send) THEN "send"
    ELSE IF Filters(r.recv) \/ r.eavesdrop # Unset THEN "recv"
    ELSE "none"

\* Combinations of attributes that are refused, and rules that are dropped.
Refused(r) ==
    CASE Kind(r) = "connect" ->
           \/ (r.user # Unset) = (r.group # Unset)
           \/ r.own # Unset \/ r.own_prefix # Unset \/ Filters(r.send) \/ Filters(r.recv)
           \/ r.context \in {"user", "group"}
      [] Kind(r) = "own" ->
           \/ r.own # Unset /\ r.own_prefix # Unset
           \/ Filters(r.send) \/ Filters(r.recv)
      [] Kind(r) = "send" ->
           \/ Filters(r.recv)
           \/ r.send.type \in {"method_return", "error"}
           \/ r.eavesdrop = "true" /\ ~r.allow
      [] Kind(r) = "recv" ->
           \/ r.recv.type \in {"method_return", "error"}
           \/ r.eavesdrop = "true" /\ ~r.allow
      [] OTHER -> TRUE

Priority(r, count) == PrioritySpan * Rank(r.context) + count

Trim(f) == [x \in {"name", "path", "interface", "member"} |->
              IF f[x] = "*" THEN Unset ELSE f[x]]
XmitRecord(r, f, count) ==
    [verdict |-> r.allow, priority |-> Priority(r, count), type |-> f.type,
     broadcast |-> f.broadcast, min_fds |-> r.min_fds, max_fds |-> r.max_fds] @@ Trim(f)

Record(r, count) ==
    CASE Kind(r) = "connect" -> [verdict |-> r.allow, priority |-> Priority(r, count)]
      [] Kind(r) = "own" ->
           [verdict |-> r.allow, priority |-> Priority(r, count),
            prefix |-> r.own = Unset \/ r.own = "*",
            name |-> CASE r.own = "*" -> "" [] r.own = Unset -> r.own_prefix
                       [] OTHER -> r.own]
      [] Kind(r) = "send" -> XmitRecord(r, r.send, count)
      [] OTHER -> XmitRecord(r, [r.recv EXCEPT !.broadcast = Unset], count)

\* Where a record goes.  A rule on a group's connections is filed under the
\* uid of the element, which is 0 when the element names no user.
Target(r) ==
    CASE Kind(r) = "connect" ->
           CASE r.user # Unset /\ r.uid # NoId -> <<"uid", r.uid>>
             [] r.group # Unset /\ r.gid # NoId -> <<"gid", r.uid>>
             [] OTHER -> <<"default", 0>>
      [] r.context = "user" -> <<"uid", r.id>>
      [] r.context = "group" -> <<"gid", r.id>>
      [] r.context \in {"at_console", "no_console"} -> <<r.context, 0>>
      [] OTHER -> <<"default", 0>>

File(p, scope, kind, record) == [p EXCEPT !.entries[scope][kind] = Append(@, record)]

ImportSelf(p) ==
    [File(p, <<"uid", LauncherUid>>, "connect",
          [verdict |-> TRUE, priority |-> p.count + 1]) EXCEPT !.count = @ + 1]

\* A rule of a user or group that does not exist is counted and thrown away.
ImportRule(p, r) ==
    LET counted == [p EXCEPT !.count = @ + 1] IN
    CASE r.context = Unset \/ Refused(r) -> p
      [] r.context # Unset /\ ~Refused(r) /\ Target(r) \notin Scopes -> counted
      [] OTHER -> File(counted, Target(r), Kind(r), Record(r, counted.count))

Import(rules) == FoldLeft(ImportRule, ImportSelf(NewPolicy), rules)

-----------------------------------------------------------------------------
(* launch/policy.c: optimise and export *)

FindTop(list) ==
    {i \in DOMAIN list : \A j \in DOMAIN list : list[j].priority <= list[i].priority}
\* Faulty variant: the first record is kept instead of the top one.
ShrinkToFirst(list, above) ==
    IF list = <<>> \/ list[1].priority <= above THEN <<>> ELSE <<list[1]>>

Shrink(list, above) ==
    LET top == FindTop(list) IN
    IF top = {} \/ list[Min(top)].priority <= above THEN <<>> ELSE <<list[Min(top)]>>

Optimize(p) ==
    LET default == Shrink(p.entries[<<"default", 0>>].connect, 0)
        floor == IF default = <<>> THEN 0 ELSE default[1].priority
    IN [p EXCEPT !.entries =
          [s \in Scopes |->
             CASE s = <<"default", 0>> -> [@[s] EXCEPT !.connect = default]
               [] s[1] \in {"uid", "gid"} ->
                    [@[s] EXCEPT !.connect = Shrink(@, floor)]
               [] OTHER -> @[s]]]

ConnectVerdict(default, specific) ==
    LET list == IF specific # <<>> THEN specific ELSE default
    IN IF list = <<>> THEN [verdict |-> FALSE, priority |-> 1] ELSE list[1]

Batch(default, e, connectDefault) ==
    [connect |-> ConnectVerdict(connectDefault, e.connect),
     own |-> default.own \o e.own, send |-> default.send \o e.send,
     recv |-> default.recv \o e.recv]

\* The ranges of console users, in unsigned arithmetic: the uids must be
\* distinct, or a size wraps around.
Console(p, which, start, n) ==
    IF n = 0 \/ p.entries[<<which, 0>>] = Empty THEN <<>>
    ELSE <<[group |-> FALSE, start |-> start, end |-> (start + n - 1) % Width,
            batch |-> Batch(Empty, p.entries[<<which, 0>>], <<>>)]>>

SystemConsole(consoles) ==
    SelectSeq(SortSeq(consoles, <), LAMBDA uid : uid <= SystemUidMax)

ConsoleRanges(p, consoles) ==
    LET uids == SystemConsole(consoles)
        walked == FoldLeft(
            LAMBDA acc, uid :
              [next |-> (uid + 1) % Width,
               out |-> acc.out \o Console(p, "no_console", acc.next,
                                          (uid - acc.next + Width) % Width)
                               \o Console(p, "at_console", uid, 1)],
            [next |-> 0, out |-> <<>>], uids)
    IN walked.out
       \o Console(p, "no_console", walked.next, (SystemUidMax + 1 - walked.next) % Width)
       \o Console(p, "at_console", SystemUidMax + 1, NoId - SystemUidMax)

\* policy_export(): the message to the broker.
Export(p, consoles) ==
    LET default == p.entries[<<"default", 0>>]
        used(kind) == SelectSeq([i \in 1..NoId |-> i - 1],
                                LAMBDA i : p.entries[<<kind, i>>] # Empty)
    IN [uids |-> <<[uid |-> NoId, batch |-> Batch(Empty, default, default.connect)]>>
                 \o [i \in DOMAIN used("uid") |->
                       [uid |-> used("uid")[i],
                        batch |-> Batch(default, p.entries[<<"uid", used("uid")[i]>>],
                                        default.connect)]],
        ranges |-> [i \in DOMAIN used("gid") |->
                      [group |-> TRUE, start |-> used("gid")[i], end |-> used("gid")[i],
                       batch |-> Batch(Empty, p.entries[<<"gid", used("gid")[i]>>],
                                       default.connect)]]
                   \o ConsoleRanges(p, consoles)]

-----------------------------------------------------------------------------
(* bus/policy.c: the registry and its batches.  A name of a batch that was *)
(* never mentioned is as good as one with no verdicts and empty lists.     *)

NoVerdict == [verdict |-> FALSE, priority |-> 0]
Decision(x) == [verdict |-> x.verdict, priority |-> x.priority]
AtLeast(old, new) == IF new.priority >= old.priority THEN Decision(new) ELSE old

Text(x) == IF x = Unset THEN "" ELSE x     \* a NULL string on the wire

AddOwn(names, x, field) ==
    [names EXCEPT ![x.name] = [@ EXCEPT ![field] = AtLeast(@, x)]]
AddXmit(names, x, field) ==
    [names EXCEPT ![Text(x.name)] = [@ EXCEPT ![field] = Append(@, x)]]

NewBatch(Names) ==
    [connect |-> NoVerdict,
     names |-> [n \in Names |-> [own |-> NoVerdict, own_prefix |-> NoVerdict,
                                send |-> <<>>, recv |-> <<>>]]]

\* policy_registry_import_batch(): the rules of a batch that exists are kept,
\* its verdict on connecting is replaced.
ImportBatch(b, wire) ==
    LET own == FoldLeft(LAMBDA n, x : AddOwn(n, x, IF x.prefix THEN "own_prefix" ELSE "own"),
                        b.names, wire.own)
        send == FoldLeft(LAMBDA n, x : AddXmit(n, x, "send"), own, wire.send)
    IN [connect |-> Decision(wire.connect),
        names |-> FoldLeft(LAMBDA n, x : AddXmit(n, x, "recv"), send, wire.recv)]

Key(w) == IF w.group THEN <<"gid", w.start, w.end>> ELSE <<"range", w.start, w.end>>
At(registry, key, Names) ==
    IF key \in DOMAIN registry.nodes THEN registry.nodes[key] ELSE NewBatch(Names)
Install(registry, key, wire, Names) ==
    [registry EXCEPT !.nodes = (key :> ImportBatch(At(registry, key, Names), wire)) @@ @]

\* policy_registry_import() into a registry that was just made.
Registry(message, Names) ==
    LET new == [default |-> NewBatch(Names), nodes |-> <<>>]
        uids == FoldLeft(LAMBDA g, w :
                   IF w.uid = NoId
                   THEN [g EXCEPT !.default = ImportBatch(@, w.batch)]
                   ELSE Install(g, <<"uid", w.uid, w.uid>>, w.batch, Names),
                 new, message.uids)
    IN FoldLeft(LAMBDA g, w : Install(g, Key(w), w.batch, Names), uids, message.ranges)

\* policy_snapshot_new(): the batch of the uid or the default, then ranges,
\* then groups.
Snapshot(registry, uid, gids) ==
    LET nodes == registry.nodes
        mine == <<"uid", uid, uid>>
        ranges == {k \in DOMAIN nodes : k[1] = "range" /\ k[2] <= uid /\ uid <= k[3]}
        groups == {k \in DOMAIN nodes : k[1] = "gid" /\ k[2] \in gids}
        batches(keys) == [i \in 1..Cardinality(keys) |-> nodes[SetToSeq(keys)[i]]]
    IN <<IF mine \in DOMAIN nodes THEN nodes[mine] ELSE registry.default>>
       \o batches(ranges) \o batches(groups)

-----------------------------------------------------------------------------
(* bus/policy.c: checks *)

Above(old, new) == IF old.priority < new.priority THEN Decision(new) ELSE old

CheckConnect(snapshot) ==
    FoldLeft(LAMBDA v, b : Above(v, b.connect), NoVerdict, snapshot).verdict

\* Every prefix of the name counts, for rules on one name as well.
CheckOwn(snapshot, name) ==
    FoldLeft(LAMBDA v, b :
               FoldLeft(LAMBDA w, n : Above(Above(w, b.names[n].own), b.names[n].own_prefix),
                        v, SelectSeq(PrefixesOf[name], LAMBDA n : n \in DOMAIN b.names)),
             NoVerdict, snapshot).verdict

Wanted(filter, value) == Text(filter) # "" => filter = value
XmitApplies(x, m) ==
    /\ Wanted(x.type, m.type) /\ Wanted(x.path, m.path)
    /\ Wanted(x.interface, m.interface) /\ Wanted(x.member, m.member)
    /\ x.broadcast = "true" => m.broadcast
    /\ x.broadcast = "false" => ~m.broadcast
    /\ x.min_fds <= m.fds /\ m.fds <= x.max_fds

CheckXmitName(b, list, verdict, name, m) ==
    IF name \notin DOMAIN b.names THEN verdict
    ELSE FoldLeft(LAMBDA v, x : IF XmitApplies(x, m) THEN Above(v, x) ELSE v,
                  verdict, b.names[name][list])

\* The catch-all, then every name of the other side, primary or queued.
CheckXmit(snapshot, list, names, m) ==
    FoldLeft(LAMBDA v, b :
               FoldLeft(LAMBDA w, n : CheckXmitName(b, list, w, n, m), v,
                        <<"">> \o SetToSeq(names)),
             NoVerdict, snapshot).verdict
CheckSend(snapshot, names, m) == CheckXmit(snapshot, "send", names, m)
CheckReceive(snapshot, names, m) == CheckXmit(snapshot, "recv", names, m)
=============================================================================
