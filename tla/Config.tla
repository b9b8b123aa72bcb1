------------------------------- MODULE Config -------------------------------
(***************************************************************************)
(* The launcher's reader of configuration files.  A file is the sequence   *)
(* of callbacks the XML parser makes for it; every callback is a step.     *)
(* All nodes of all files are on one list, and a file that is included is  *)
(* queued and read later, its nodes being linked behind the node that      *)
(* asked for it.                                                           *)
(***************************************************************************)
EXTENDS Integers, Sequences, FiniteSets, SequencesExt, TLC

CONSTANTS Worlds,                 \* what may be on disk
          SelinuxEnabled,
          PasswdFile, PasswdNss,  \* the databases of users
          GroupFile, GroupNss,    \* and of groups
          Numerals,               \* the texts that are numbers, and their values
          NoId

U == INSTANCE NssCache WITH AccountFile <- PasswdFile, AccountNss <- PasswdNss
G == INSTANCE NssCache WITH AccountFile <- GroupFile, AccountNss <- GroupNss

VARIABLES disk,     \* files, what directories list, which are denied, and
                    \* whether a file may vanish
          nodes,    \* ConfigNodes, by creation
          order,    \* root->node_list
          includes, \* root->include_list
          ps,       \* ConfigState
          nss,      \* the two caches
          result    \* "reading", "done", or why the read failed

configVars == <<disk, nodes, order, includes, ps, nss, result>>

None == "none"
Main == "main"

\* An element's parent; <busconfig> is only known at depth 0.  Plain elements
\* have no attributes.
Plain == {"user", "type", "fork", "syslog", "keep_umask", "listen", "pidfile",
          "includedir", "standard_session_servicedirs", "servicedir",
          "standard_system_servicedirs", "servicehelper", "auth"}
Leaves == Plain \union {"include", "policy", "limit", "selinux", "apparmor"}
ParentOf == [e \in Leaves |-> "busconfig"]
            @@ [allow |-> "policy", deny |-> "policy", associate |-> "selinux"]
Known(name) == name = "busconfig" \/ name \in DOMAIN ParentOf
Fits(name, type, depth) ==
    IF name = "busconfig" THEN depth = 0 ELSE ParentOf[name] = type

-----------------------------------------------------------------------------
(* Attributes.  Free text is kept, a value out of its set is reported and  *)
(* ignored, an unknown attribute too; the last one of a name wins.         *)

YesNo == {"yes", "no"}
Bools == {"true", "false"}
Types == {"method_call", "method_return", "signal", "error"}
FreeText(side, name) == {side \o "_interface", side \o "_member", side \o "_error",
                         side \o "_path", side \o "_" \o name}
Text == FreeText("send", "destination") \union FreeText("receive", "sender")
        \union {"own", "own_prefix", "min_fds", "max_fds"}
RuleValues == [k \in {"send_type", "receive_type"} |-> Types]
              @@ [k \in {"send_broadcast", "send_requested_reply", "eavesdrop",
                         "receive_requested_reply", "log"} |-> Bools]
IncludeValues == [k \in {"ignore_missing", "if_selinux_enabled",
                         "selinux_root_relative"} |-> YesNo]
ApparmorValues == [mode |-> {"enabled", "disabled", "required"}]
LimitNames == {"max_incoming_bytes", "max_incoming_unix_fds", "max_outgoing_bytes",
               "max_outgoing_unix_fds", "max_message_size", "max_message_unix_fds",
               "service_start_timeout", "auth_timeout", "pending_fd_timeout",
               "max_completed_connections", "max_incomplete_connections",
               "max_connections_per_user", "max_pending_service_starts",
               "max_names_per_connection", "max_match_rules_per_connection",
               "max_replies_per_connection", "max_containers_per_user",
               "max_containers", "max_connections_per_container",
               "max_container_metadata_bytes", "reply_timeout"}

Put(f, k, v) == (k :> v) @@ f
Keep(acc, kv, values) ==
    IF kv[1] \in DOMAIN values /\ kv[2] \in values[kv[1]]
    THEN [acc EXCEPT !.attr = Put(@, kv[1], kv[2])] ELSE acc

\* A number is looked up as an id.
Query(v) == IF v \in DOMAIN Numerals THEN U!ById(Numerals[v]) ELSE U!ByName(v)
GetUid(caches, v) == U!Lookup(caches.users, Query(v))
GetGid(caches, v) == G!Lookup(caches.groups, Query(v))

\* <policy>: an unknown user or group gives the context with no id.
PolicyAttr(acc, kv) ==
    LET k == kv[1]
        v == kv[2]
        l == IF k = "user" THEN GetUid(acc.nss, v) ELSE GetGid(acc.nss, v)
        context == CASE k = "context" /\ v \in {"mandatory", "default"} -> v
                     [] k = "at_console" /\ v = "true" -> "at_console"
                     [] k = "at_console" /\ v = "false" -> "no_console"
                     [] OTHER -> None
    IN CASE k \in {"user", "group"} ->
              [acc EXCEPT !.attr = Put(Put(@, "context", k), "id", l.answer.id),
                          !.nss[IF k = "user" THEN "users" ELSE "groups"] = l.cache]
         [] context # None -> [acc EXCEPT !.attr = Put(@, "context", context)]
         [] OTHER -> acc

\* <allow> and <deny>: "*" is every user, an unknown user leaves the
\* attribute unset.
RuleAttr(acc, kv) ==
    LET k == kv[1]
        v == kv[2]
        set == IF k = "user" THEN "uid" ELSE "gid"
        l == IF k = "user" THEN GetUid(acc.nss, v) ELSE GetGid(acc.nss, v)
        asked == [acc EXCEPT !.nss[IF k = "user" THEN "users" ELSE "groups"] = l.cache]
    IN CASE k \in {"user", "group"} /\ v = "*" ->
              [acc EXCEPT !.attr = Put(Put(@, k, "set"), set, NoId)]
         [] k \in {"user", "group"} /\ v # "*" ->
              IF l.answer.valid
              THEN [asked EXCEPT !.attr = Put(Put(@, k, "set"), set, l.answer.id)]
              ELSE asked
         [] k \in Text -> [acc EXCEPT !.attr = Put(@, k, v)]
         [] OTHER -> Keep(acc, kv, RuleValues)

Attribute(type, acc, kv) ==
    CASE type = "policy" -> PolicyAttr(acc, kv)
      [] type \in {"allow", "deny"} -> RuleAttr(acc, kv)
      [] type = "include" -> Keep(acc, kv, IncludeValues)
      [] type = "apparmor" -> Keep(acc, kv, ApparmorValues)
      [] type = "limit" -> Keep(acc, kv, [name |-> LimitNames])
      [] type = "associate" -> Keep(acc, kv, [own |-> {kv[2]}, context |-> {kv[2]}])
      [] OTHER -> acc

-----------------------------------------------------------------------------
Node(type, parent) ==
    [type |-> type, parent |-> parent, attr |-> <<>>, cdata |-> "", file |-> None,
     value |-> None, chain |-> <<>>]

\* Faulty variant: new nodes go to the end of the list.
LinkAtEnd(list, where, what) == Append(list, what)

LinkAfter(list, where, what) ==
    LET i == CHOOSE j \in DOMAIN list : list[j] = where
    IN InsertAt(list, i + 1, what)

Top == nodes[ps.current]
More(kind) == /\ result = "reading" /\ ps.at > 0
              /\ ps.at <= Len(ps.events)
              /\ ps.events[ps.at].ev = kind
Advance(p) == [p EXCEPT !.at = @ + 1]

\* config_parser_begin_fn()
Begin ==
    /\ More("begin")
    /\ LET e == ps.events[ps.at]
           n == Len(nodes) + 1
           acc == FoldLeft(LAMBDA a, kv : Attribute(e.name, a, kv),
                           [attr |-> <<>>, nss |-> nss], e.attrs)
       IN IF ps.failed > 0 \/ ~Known(e.name) \/ ~Fits(e.name, Top.type, ps.depth)
          THEN /\ ps' = [Advance(ps) EXCEPT !.failed = @ + 1]
               /\ UNCHANGED <<nodes, order, nss>>
          ELSE /\ nodes' = Append(nodes, [Node(e.name, ps.current) EXCEPT
                                            !.attr = acc.attr, !.file = ps.file])
               /\ order' = LinkAfter(order, ps.last, n)
               /\ nss' = acc.nss
               /\ ps' = [Advance(ps) EXCEPT !.current = n, !.last = n, !.depth = @ + 1]
    /\ UNCHANGED <<disk, includes, result>>

\* config_parser_blob_fn()
Blob ==
    /\ More("text")
    /\ nodes' = IF ps.failed > 0 THEN nodes
                ELSE [nodes EXCEPT ![ps.current].cdata = @ \o ps.events[ps.at].data]
    /\ ps' = Advance(ps)
    /\ UNCHANGED <<disk, order, includes, nss, result>>

\* Leaving an element, once its contents have been looked at.
Leave(p) == [Advance(p) EXCEPT !.depth = @ - 1, !.current = nodes[ps.current].parent]

EndIgnored ==
    /\ More("end") /\ ps.failed > 0
    /\ ps' = [Advance(ps) EXCEPT !.failed = @ - 1]
    /\ UNCHANGED <<disk, nodes, order, includes, nss, result>>

EndPlain ==
    /\ More("end") /\ ps.failed = 0
    /\ Top.type \notin {"include", "includedir", "user", "type", "servicedir", "limit"}
    /\ ps' = Leave(ps)
    /\ UNCHANGED <<disk, nodes, order, includes, nss, result>>

\* The contents become the value; those of <limit> only if they are a number,
\* those of <user> are resolved.
EndValue ==
    /\ More("end") /\ ps.failed = 0
    /\ Top.type \in {"type", "servicedir", "limit", "user"}
    /\ LET l == GetUid(nss, Top.cdata) IN
       /\ nss' = IF Top.type = "user" THEN [nss EXCEPT !.users = l.cache] ELSE nss
       /\ nodes' = [nodes EXCEPT ![ps.current].value =
                      CASE Top.type = "limit" /\ Top.cdata \notin DOMAIN Numerals -> None
                        [] Top.type = "user" /\ ~l.answer.valid -> None
                        [] OTHER -> Top.cdata]
    /\ ps' = Leave(ps)
    /\ UNCHANGED <<disk, order, includes, result>>

\* The path of a file knows the files it was reached through.
Through == Append(ps.chain, ps.file)

EndInclude ==
    /\ More("end") /\ ps.failed = 0 /\ Top.type = "include"
    /\ nodes' = [nodes EXCEPT ![ps.current].value = Top.cdata,
                              ![ps.current].chain = Through]
    /\ includes' = Append(includes, ps.current)
    /\ ps' = Leave(ps)
    /\ UNCHANGED <<disk, order, nss, result>>

\* Every *.conf of the directory becomes an <include>, linked and queued.
EndIncludeDir ==
    /\ More("end") /\ ps.failed = 0 /\ Top.type = "includedir"
    /\ Top.cdata \notin disk.denied
    /\ LET files == IF Top.cdata \in DOMAIN disk.dirs THEN disk.dirs[Top.cdata] ELSE <<>>
           new(i) == Len(nodes) + i
           made == [i \in DOMAIN files |->
                      [Node("include", ps.current) EXCEPT !.value = files[i],
                         !.chain = Append(Through, Top.cdata)]]
       IN /\ nodes' = nodes \o made
          /\ order' = FoldLeft(LAMBDA l, i : LinkAfter(l, IF i = 1 THEN ps.last
                                                                   ELSE new(i - 1), new(i)),
                               order, [i \in DOMAIN files |-> i])
          /\ includes' = includes \o [i \in DOMAIN files |-> new(i)]
          /\ ps' = [Leave(ps) EXCEPT !.last = IF files = <<>> THEN @ ELSE new(Len(files))]
    /\ UNCHANGED <<disk, nss, result>>

EndIncludeDirDenied ==
    /\ More("end") /\ ps.failed = 0 /\ Top.type = "includedir"
    /\ Top.cdata \in disk.denied
    /\ result' = "error"
    /\ UNCHANGED <<disk, nodes, order, includes, ps, nss>>

-----------------------------------------------------------------------------
\* A file is no longer there when it is opened.
Vanish ==
    /\ result = "reading" /\ disk.vanishing
    /\ \E f \in DOMAIN disk.files \ {Main} :
         disk' = [disk EXCEPT !.files[f].status = "missing", !.vanishing = FALSE]
    /\ UNCHANGED <<nodes, order, includes, ps, nss, result>>

Flag(n, k) == k \in DOMAIN n.attr /\ n.attr[k] = "yes"

\* config_parser_include(), up to the first byte.
Include ==
    /\ result = "reading" /\ includes # <<>> /\ ps.at = 0
    /\ LET n == Head(includes)
           f == nodes[n].value
           here == f \in DOMAIN disk.files
           status == IF here THEN disk.files[f].status ELSE "missing"
           skip == \/ Flag(nodes[n], "if_selinux_enabled") /\ ~SelinuxEnabled
                   \/ \E i \in DOMAIN nodes[n].chain : nodes[n].chain[i] = f
                   \/ status = "missing" /\ Flag(nodes[n], "ignore_missing")
           bad == ~skip /\ status \in {"missing", "denied"}
       IN /\ ps' = [ps EXCEPT !.at = IF skip \/ bad THEN 0 ELSE 1,
                              !.events = IF skip \/ bad THEN <<>> ELSE disk.files[f].events,
                              !.file = f, !.chain = nodes[n].chain,
                              !.current = n, !.last = n, !.depth = 0, !.failed = 0]
          /\ result' = IF bad THEN "invalid" ELSE "reading"
    /\ includes' = Tail(includes)
    /\ UNCHANGED <<disk, nodes, order, nss>>

\* The end of a file, or where the XML parser gives up on it.
EndOfFile ==
    /\ result = "reading" /\ ps.at > Len(ps.events)
    /\ IF disk.files[ps.file].status = "broken"
       THEN result' = "invalid" /\ UNCHANGED ps
       ELSE ps' = [ps EXCEPT !.at = 0, !.events = <<>>] /\ UNCHANGED result
    /\ UNCHANGED <<disk, nodes, order, includes, nss>>

ReadDone ==
    /\ result = "reading" /\ includes = <<>> /\ ps.at = 0
    /\ result' = "done"
    /\ UNCHANGED <<disk, nodes, order, includes, ps, nss>>

ConfigInit ==
    /\ disk \in Worlds
    /\ nodes = <<[Node("include", 0) EXCEPT !.value = Main]>>
    /\ order = <<1>> /\ includes = <<1>>
    /\ ps = [current |-> 1, last |-> 1, depth |-> 0, failed |-> 0, file |-> None,
             chain |-> <<>>, events |-> <<>>, at |-> 0]
    /\ nss = [users |-> U!Populate, groups |-> G!Populate]
    /\ result = "reading"

ConfigNext == Begin \/ Blob \/ EndIgnored \/ EndPlain \/ EndValue \/ EndInclude
              \/ EndIncludeDir \/ EndIncludeDirDenied \/ Vanish \/ Include \/ EndOfFile \/ ReadDone
=============================================================================
