------------------------------ MODULE Control -------------------------------
(***************************************************************************)
(* The launcher and the broker it controls (src/launch/launcher.c,         *)
(* src/broker/controller.c, controller-dbus.c, broker.c, src/bus/listener.c,*)
(* metrics.c).  The launcher reads configuration and service files, forks  *)
(* the broker, and from then on calls it synchronously over a private      *)
(* connection to add and remove activatable names, to add the listener and *)
(* to replace its policy.  The broker forwards ReloadConfig of its peers   *)
(* the other way, under serials of its own.  Files change under the        *)
(* launcher's hands; either process may end and takes the other along.     *)
(*                                                                         *)
(* Requests queued on a name until it is claimed are in Bus, what the      *)
(* launcher does with an Activate signal is in Service, what is in a       *)
(* policy in LauncherPolicy and Policy; here a policy is its version.      *)
(***************************************************************************)
EXTENDS Integers, Sequences, FiniteSets, FiniteSetsExt, Functions, Collections

CONSTANTS Names,       \* names of service files
          Unclaimable, \* those among them that begin with ':'
          Dirs,        \* the service directories, in the order they are read
          Disks,       \* what they may hold at first: for each the names with
                       \* a service file
          Read,        \* what launcher_run() found in them
          SerialSpace, \* values of a serial of the controller (2^32)
          HasMetrics,  \* systemd passed a socket for metrics
          Zephyr,      \* the build: TRUE on Zephyr, FALSE on Linux
          MaxPeers,    \* bound: peers that connect
          MaxEvents,   \* bound: SIGHUPs and changes of service files
          MaxInputs    \* bound: those and ReloadConfig calls of peers together

ASSUME ControlAssumption ==
    /\ Unclaimable \subseteq Names
    /\ IsFiniteSet(Names)
    /\ Dirs \in Seq(Range(Dirs)) /\ Dirs # <<>>
    /\ Disks \cup {Read} \subseteq [DOMAIN Dirs -> SUBSET Names]
    /\ SerialSpace \in Nat /\ SerialSpace > 1
    /\ {HasMetrics, Zephyr} \subseteq BOOLEAN
    /\ {MaxPeers, MaxEvents, MaxInputs} \subseteq Nat

Peers == 1 .. MaxPeers
Requests == 1 .. MaxInputs
Serials == 1 .. SerialSpace - 1

\* Who asks for a reload: the serial of a call, or one of these.
Start == 0
Sighup == -1
Dirwatch == -2
Sources == {Sighup, Dirwatch}

VARIABLES
    \* the file system
    disk,          \* directory -> names it has a valid service file for
    open,          \* directories that opendir() can open
    unnoticed,     \* those that came or went without an event of inotify since
                   \* the launcher opened them last (history)
    events,        \* changes and SIGHUPs so far
    \* the launcher
    phase,         \* what launcher_run() or launcher_reload_config() is at
    at,            \* the step of reading the directories
    waiting,       \* sd_bus_call() waits for its reply
    cause,         \* who asked for the reload
    services,      \* Launcher.services_by_name
    service_ids,   \* Launcher.service_ids
    policy,        \* the version of the policy read last
    watched,       \* directories Launcher.dirwatch watches
    inotify,       \* it has events to read
    deaf,          \* event sources sd-event disabled after an error
    applied,       \* the last reload ran to its end
    \* the connection
    to_broker, to_launcher,
    \* the broker
    broker,        \* "running", "returned" from broker_run(), "gone", "aborted"
    names,         \* Controller.name_tree: path -> name
    listener,      \* Listener.policy of the one in Controller.listener_tree
    has_metrics,   \* there is one in Controller.metrics_tree
    peers,         \* Listener.peer_list: id -> Peer.policy
    peer_ids,      \* PeerRegistry.ids
    reloads,       \* Controller.reload_tree: serial -> the request it is for
    serial,        \* Controller.serial
    \* history
    senders,       \* the peer each request came from
    answered       \* how often each request was answered

files == <<disk, open, unnoticed>>
launcher == <<phase, at, waiting, cause, services, service_ids, policy,
              watched, inotify, deaf, applied>>
bus == <<names, listener, has_metrics, peers, peer_ids, reloads, serial>>
history == <<senders, answered>>
vars == <<files, events, launcher, to_broker, to_launcher, broker, bus, history>>

NoService == [id |-> 0, running |-> FALSE, tag |-> FALSE, dir |-> 0]
NoListener == -1
NoPolicy == 0   \* NULL

\* The bound on inputs.
HasInput == events + Len(senders) < MaxInputs

Running == broker = "running"
Gone == broker \in {"gone", "aborted"}
Found(queue, type) == \E i \in DOMAIN queue : queue[i].type = type
Without(queue, type) == Only(queue, {m \in Range(queue) : m.type # type})
Least(S) == CHOOSE n \in S : \A o \in S : services[n].id <= services[o].id

-----------------------------------------------------------------------------
(* The launcher reads *)

\* A file is written, replaced or removed; inotify sees it where it watches.
FileChanges ==
    \E d \in DOMAIN Dirs, n \in Names :
        /\ HasInput /\ events < MaxEvents
        /\ phase # "exit"
        /\ events' = events + 1
        /\ disk' = [disk EXCEPT ![d] = SymDiff(@, {n})]
        /\ inotify' = (inotify \/ d \in watched)
        /\ UNCHANGED <<open, unnoticed, phase, at, waiting, cause, services, service_ids, policy,
                       watched, deaf, applied, to_broker, to_launcher,
                       broker, bus, history>>

\* A directory appears, or can be read again; or it is moved away or can no
\* longer be read.  The mask of dirwatch_add() has none of this.  Only the
\* removal of a directory that is watched, which is empty then, ends its watch
\* with an event.
DirChanges ==
    \E d \in DOMAIN Dirs, removed \in BOOLEAN :
        /\ HasInput /\ events < MaxEvents
        /\ phase # "exit"
        /\ removed => d \in open \cap watched /\ disk[d] = {}
        /\ events' = events + 1
        /\ open' = SymDiff(open, {d})
        /\ unnoticed' = IF removed THEN unnoticed ELSE unnoticed \cup {d}
        /\ watched' = IF removed THEN watched \ {d} ELSE watched
        /\ inotify' = (inotify \/ removed)
        /\ UNCHANGED <<disk, phase, at, waiting, cause, services, service_ids,
                       policy, deaf, applied, to_broker, to_launcher, broker,
                       bus, history>>

\* A reload is answered if a peer asked for it; sd-bus makes an error of a
\* handler an error reply.
Answered(who, verdict) ==
    IF who \in Sources THEN to_broker
    ELSE Append(to_broker, [type |-> verdict, serial |-> who])

\* An error of a handler makes sd-event disable its source; the source of a
\* dirwatch that was replaced meanwhile is gone already.
Answer(who, verdict, replaced) ==
    /\ to_broker' = Answered(who, verdict)
    /\ deaf' = IF verdict = "failed" /\ (who = Sighup \/ ~replaced)
               THEN deaf \cup ({who} \cap Sources)
               ELSE deaf

\* launcher_parse_config() fails: the old dirwatch stays; its events were
\* drained if it was the one that triggered.
Ignore(who, verdict) ==
    /\ applied' = FALSE
    /\ inotify' = (inotify /\ who # Dirwatch)
    /\ Answer(who, verdict, FALSE)
    /\ UNCHANGED <<phase, cause, at, policy, watched>>

\* launcher_parse_config() succeeds: a new dirwatch takes the place of the old.
ParseConfig(who) ==
    /\ phase' = "dir"
    /\ cause' = who
    /\ at' = 1
    /\ policy' = policy + 1
    /\ watched' = {}
    /\ inotify' = FALSE
    /\ UNCHANGED <<applied, to_broker, deaf>>

\* launcher_reload_config(), up to the service directories.
ReloadConfig(who) ==
    /\ phase = "idle"
    /\ services' = [n \in Names |-> [services[n] EXCEPT !.tag = FALSE]]
    /\ ParseConfig(who) \/ Ignore(who, "invalid") \/ Ignore(who, "failed")
    /\ UNCHANGED <<files, waiting, service_ids, broker, bus, history>>

\* launcher_on_sighup()
OnSighup ==
    /\ Sighup \notin deaf
    /\ HasInput /\ events < MaxEvents
    /\ events' = events + 1
    /\ ReloadConfig(Sighup)
    /\ UNCHANGED to_launcher

\* launcher_on_dirwatch(), dirwatch_dispatch()
OnDirwatch ==
    /\ Dirwatch \notin deaf
    /\ inotify
    /\ ReloadConfig(Dirwatch)
    /\ UNCHANGED <<to_launcher, events>>

\* bus_method_reload_config(): what came while sd_bus_call() waited is
\* dispatched afterwards, in order.
BusMethodReloadConfig ==
    /\ Found(to_launcher, "ReloadConfig")
    /\ ReloadConfig(Head(to_launcher).serial)
    /\ to_launcher' = Tail(to_launcher)
    /\ UNCHANGED events

-----------------------------------------------------------------------------
(* The launcher reads the service directories *)

\* Faulty variant: the directory is watched once it was read.
ListThenWatch == <<"list", "watch">>

\* launcher_load_service_dir(): a directory is watched before it is read.
DirSteps == <<"watch", "list">>

Dir == (at + 1) \div 2
Step == DirSteps[((at - 1) % 2) + 1]

NextStep ==
    /\ phase' = IF at < 2 * Len(Dirs) THEN "dir" ELSE "loaded"
    /\ at' = (at % (2 * Len(Dirs))) + 1

\* opendir() and dirwatch_add(), which look at the same path: a directory that
\* is not there, or not readable, is neither watched nor read.
WatchDir ==
    /\ phase = "dir" /\ Step = "watch"
    /\ watched' = watched \cup ({Dir} \cap open)
    /\ unnoticed' = unnoticed \ {Dir}
    /\ NextStep
    /\ UNCHANGED <<disk, open, events, waiting, cause, services, service_ids, policy,
                   inotify, deaf, applied, to_broker, to_launcher,
                   broker, bus, history>>

\* service_new(): ids in the order the files are found in.
Numbering(S) ==
    CHOOSE f \in [S -> 1 .. Cardinality(S)] : IsInjective(f)

\* What fs_dir_list() finds in a directory that was opened.
Listed(d) == IF d \in watched THEN disk[d] ELSE {}

\* launcher_load_service_file() for the files of a directory: a new service, an
\* update of the one there was before this reload, or a duplicate, which is
\* ignored like a file that cannot be read or has no valid name, unit or user.
LoadServiceFiles(d) ==
    \E rank \in {Numbering({n \in Listed(d) : services[n].id = 0})} :
        /\ services' = [n \in Names |->
               IF n \notin Listed(d) \/ services[n].tag THEN services[n]
               ELSE IF services[n].id = 0
               THEN [id |-> service_ids + rank[n], running |-> FALSE,
                     tag |-> TRUE, dir |-> d]
               ELSE [services[n] EXCEPT !.tag = TRUE, !.dir = d]]
        /\ service_ids' = service_ids + Cardinality(DOMAIN rank)

\* fs_dir_list() and what is done with the list
ListDir ==
    /\ phase = "dir" /\ Step = "list"
    /\ LoadServiceFiles(Dir)
    /\ NextStep
    /\ UNCHANGED <<files, events, waiting, cause, policy, watched, inotify, deaf,
                   applied, to_broker, to_launcher, broker, bus, history>>

\* A reload ends.
Finish(verdict) ==
    /\ phase' = "idle"
    /\ cause' = Start
    /\ at' = 1
    /\ applied' = (verdict = "return")
    /\ Answer(cause, verdict, TRUE)

\* A directory cannot be opened, or the policy cannot be imported.
LoadFails ==
    /\ phase \in {"dir", "loaded"}
    /\ Finish("failed")
    /\ UNCHANGED <<files, events, waiting, services, service_ids, policy,
                   watched, inotify, to_launcher, broker, bus, history>>

\* launcher_load_policy()
LoadPolicy ==
    /\ phase = "loaded"
    /\ phase' = "remove"
    /\ UNCHANGED <<files, events, at, waiting, cause, services, service_ids,
                   policy, watched, inotify, deaf, applied, to_broker,
                   to_launcher, broker, bus, history>>

\* launcher_free(): the process ends, and closes its end of the connection.
LauncherFree ==
    /\ phase' = "exit"
    /\ at' = 1 /\ cause' = Start
    /\ waiting' = FALSE
    /\ services' = [n \in Names |-> NoService] /\ service_ids' = 0
    /\ policy' = NoPolicy
    /\ watched' = {} /\ inotify' = FALSE /\ deaf' = {}
    /\ applied' = FALSE
    /\ to_launcher' = <<>>
    /\ UNCHANGED <<files, events, broker, bus, history>>

\* launcher_apparmor_apply(): what is required is not supported; the event loop
\* is left once the caller has its answer.
AppArmorRequired ==
    /\ phase = "loaded"
    /\ to_broker' = Answered(cause, "return")
    /\ LauncherFree

-----------------------------------------------------------------------------
(* The launcher calls the broker *)

calling == <<files, events, policy, watched, inotify, broker, bus, history>>

Call(m) ==
    /\ ~waiting
    /\ waiting' = TRUE
    /\ to_broker' = Append(to_broker, m)
    /\ UNCHANGED <<at, service_ids, cause, deaf, applied, to_launcher>>

Outdated == {n \in Names : services[n].id # 0 /\ ~services[n].tag}
Idling == {n \in Names : services[n].id # 0 /\ ~services[n].running}

\* Faulty variant: a service is freed that the broker still knows.
FreeRunning(n) ==
    /\ services' = [services EXCEPT ![n] = NoService]
    /\ UNCHANGED <<phase, at, waiting, cause, to_broker, service_ids, deaf,
                   applied, to_launcher>>

\* service_remove(); service_free() follows once it returned.
ServiceRemove(n) ==
    IF services[n].running
    THEN /\ Call([type |-> "Release", id |-> services[n].id])
         /\ UNCHANGED <<phase, services>>
    ELSE /\ services' = [services EXCEPT ![n] = NoService]
         /\ UNCHANGED <<phase, at, waiting, cause, to_broker, service_ids, deaf,
                        applied, to_launcher>>

\* launcher_remove_services()
RemoveServices ==
    /\ phase = "remove" /\ ~waiting
    /\ Outdated # {}
    /\ ServiceRemove(Least(Outdated))
    /\ UNCHANGED calling

\* launcher_set_policy()
SetPolicy ==
    /\ phase = "remove"
    /\ Outdated = {}
    /\ phase' = "policy"
    /\ Call([type |-> "SetPolicy", policy |-> policy])
    /\ UNCHANGED <<calling, services>>

\* launcher_add_services(), service_add()
AddServices ==
    /\ phase = "add"
    /\ Idling # {}
    /\ \E n \in {Least(Idling)} :
           Call([type |-> "AddName", id |-> services[n].id, name |-> n])
    /\ UNCHANGED <<calling, phase, services>>

\* launcher_add_listener(), in launcher_run()
AddListener ==
    /\ phase = "add" /\ cause = Start
    /\ Idling = {}
    /\ phase' = "listener"
    /\ Call([type |-> "AddListener", policy |-> policy])
    /\ UNCHANGED <<calling, services>>

\* launcher_add_metrics()
AddMetrics ==
    /\ phase = "metrics"
    /\ Call([type |-> "AddMetrics"])
    /\ UNCHANGED <<calling, phase, services>>

\* The reload is done.
ReloadDone ==
    /\ phase = "add" /\ cause # Start /\ ~waiting
    /\ Idling = {}
    /\ Finish("return")
    /\ UNCHANGED <<calling, waiting, services, service_ids, to_launcher>>

\* sd_bus_call() finds its reply; what arrived before stays queued.
Reply(type) ==
    /\ waiting
    /\ Found(to_launcher, type)
    /\ waiting' = FALSE
    /\ to_launcher' = Without(to_launcher, type)

Returned ==
    /\ Reply("ok")
    /\ CASE phase = "remove" ->
              /\ services' = [services EXCEPT ![Least(Outdated)] = NoService]
              /\ UNCHANGED <<phase, applied>>
         [] phase = "policy" -> phase' = "add" /\ UNCHANGED <<services, applied>>
         [] phase = "add" ->
              /\ services' = [services EXCEPT ![Least(Idling)].running = TRUE]
              /\ UNCHANGED <<phase, applied>>
         [] phase = "listener" /\ HasMetrics -> phase' = "metrics" /\ UNCHANGED <<services, applied>>
         [] OTHER -> phase' = "idle" /\ applied' = TRUE /\ UNCHANGED services
    /\ UNCHANGED <<calling, at, cause, service_ids, deaf, to_broker>>

CallError ==
    /\ waiting
    /\ \/ Found(to_launcher, "refused")
       \/ ~Running /\ ~Found(to_launcher, "ok")

\* A call fails: the broker refused it or is gone.  A reload ends with an error.
CallFails ==
    /\ CallError
    /\ cause # Start
    /\ Finish("failed")
    /\ waiting' = FALSE
    /\ to_launcher' = Without(to_launcher, "refused")
    /\ UNCHANGED <<calling, services, service_ids>>

\* The same in launcher_run(), which returns.
StartFails ==
    /\ CallError
    /\ cause = Start
    /\ LauncherFree
    /\ UNCHANGED to_broker

Leave ==
    /\ phase = "idle"
    /\ LauncherFree
    /\ UNCHANGED to_broker

\* launcher_on_child_exit()
OnChildExit ==
    /\ Gone
    /\ Leave

\* SIGTERM or SIGINT end the event loop.
Terminated == Leave

-----------------------------------------------------------------------------
(* The broker: calls of its controller *)

elsewhere == <<files, events, launcher>>

\* controller_dispatch_connection(): the next message.
Receive(types) ==
    /\ Running
    /\ to_broker # <<>>
    /\ Head(to_broker).type \in types
    /\ to_broker' = Tail(to_broker)

\* Faulty variant: only success is replied to.
ReplySuccess(ok) ==
    to_launcher' = IF ok THEN Append(to_launcher, [type |-> "ok"]) ELSE to_launcher

\* controller_handle_method(), controller_send_error()
SendReply(ok) ==
    to_launcher' = Append(to_launcher, [type |-> IF ok THEN "ok" ELSE "refused"])

\* controller_method_add_name(), controller_add_name(): refused for a name that
\* cannot be one, a path that is taken, or a name that is activatable already.
MethodAddName ==
    LET m == Head(to_broker)
        ok == m.name \notin Unclaimable \cup Range(names) /\ m.id \notin DOMAIN names
    IN
    /\ Receive({"AddName"})
    /\ names' = IF ok THEN [i \in DOMAIN names \cup {m.id} |->
                               IF i = m.id THEN m.name ELSE names[i]]
                ELSE names
    /\ SendReply(ok)
    /\ UNCHANGED <<elsewhere, broker, listener, has_metrics, peers, peer_ids,
                   reloads, serial, history>>

\* controller_method_name_release(); what waits for the name is failed first.
MethodNameRelease ==
    LET m == Head(to_broker) IN
    /\ Receive({"Release"})
    /\ names' = Restrict(names, DOMAIN names \ {m.id})
    /\ SendReply(m.id \in DOMAIN names)
    /\ UNCHANGED <<elsewhere, broker, listener, has_metrics, peers, peer_ids,
                   reloads, serial, history>>

\* listener_init_with_fd() keeps no policy on Zephyr.
Effective(version) == IF Zephyr THEN NoPolicy ELSE version

\* controller_method_add_listener(), controller_add_listener()
MethodAddListener ==
    /\ Receive({"AddListener"})
    /\ listener' = IF listener = NoListener THEN Effective(Head(to_broker).policy)
                   ELSE listener
    /\ SendReply(listener = NoListener)
    /\ UNCHANGED <<elsewhere, broker, names, has_metrics, peers, peer_ids,
                   reloads, serial, history>>

\* controller_method_add_metrics(), controller_add_metrics()
MethodAddMetrics ==
    /\ Receive({"AddMetrics"})
    /\ has_metrics' = TRUE
    /\ SendReply(~has_metrics)
    /\ UNCHANGED <<elsewhere, broker, names, listener, peers, peer_ids, reloads,
                   serial, history>>

\* listener_set_policy(): every peer of the listener gets a new snapshot.
ListenerSetPolicy(version) ==
    /\ listener' = Effective(version)
    /\ peers' = [p \in DOMAIN peers |-> Effective(version)]

\* controller_method_listener_set_policy(); the launcher calls it once it has
\* added the listener.
MethodSetPolicy ==
    /\ Receive({"SetPolicy"})
    /\ listener # NoListener
    /\ ListenerSetPolicy(Head(to_broker).policy)
    /\ SendReply(TRUE)
    /\ UNCHANGED <<elsewhere, broker, names, has_metrics, peer_ids, reloads,
                   serial, history>>

\* driver_reload_config_completed(), driver_reload_config_invalid(): the sender
\* is found by its id, and may be gone.
ReloadAnswer(request) ==
    answered' = IF senders[request] \in DOMAIN peers
                THEN [answered EXCEPT ![request] = @ + 1]
                ELSE answered

\* controller_dispatch_reply(), controller_dispatch_error(),
\* controller_reload_free()
DispatchReply ==
    LET m == Head(to_broker) IN
    /\ Receive({"return", "invalid"})
    /\ m.serial \in DOMAIN reloads
    /\ ReloadAnswer(reloads[m.serial])
    /\ reloads' = Restrict(reloads, DOMAIN reloads \ {m.serial})
    /\ UNCHANGED <<elsewhere, to_launcher, broker, names, listener, has_metrics,
                   peers, peer_ids, serial, senders>>

-----------------------------------------------------------------------------
(* The broker comes to its end *)

\* broker_run() returns: peer_registry_flush() frees the peers, except on
\* Zephyr, where the function returns from inside its loop.
BrokerRunReturns ==
    /\ Running
    /\ broker' = "returned"
    /\ peers' = IF Zephyr THEN peers ELSE Restrict(peers, {})
    /\ UNCHANGED <<elsewhere, to_launcher, names, listener, has_metrics,
                   peer_ids, reloads, serial, history>>

\* controller_dbus_dispatch(): a reply nobody waits for, or an error the
\* launcher does not send on purpose, is a violation of the protocol.
ControllerViolates ==
    /\ Receive({"return", "invalid", "failed"})
    /\ Head(to_broker).type = "failed" \/ Head(to_broker).serial \notin DOMAIN reloads
    /\ BrokerRunReturns

\* controller_dispatch_connection(): the launcher closed its end.
ControllerHangsUp ==
    /\ phase = "exit"
    /\ to_broker = <<>>
    /\ BrokerRunReturns
    /\ UNCHANGED to_broker

\* broker_dispatch_signals(), broker_request_terminate(); or a callback fails, as
\* listener_dispatch() does when accept4() has an error.
BrokerTerminated ==
    /\ BrokerRunReturns
    /\ UNCHANGED to_broker

\* The broker is no more, as the launcher will find out; nor is the history.
Ends(how) ==
    /\ broker' = how
    /\ names' = Restrict(names, {})
    /\ peers' = Restrict(peers, {})
    /\ reloads' = Restrict(reloads, {})
    /\ listener' = NoListener
    /\ has_metrics' = FALSE
    /\ peer_ids' = 0 /\ serial' = 0
    /\ to_broker' = <<>>
    /\ senders' = <<>> /\ answered' = [r \in Requests |-> 0]
    /\ UNCHANGED <<elsewhere, to_launcher>>

\* broker_free(), controller_deinit(): every object of the controller is freed,
\* and listener_deinit() asserts that the peers are gone.
BrokerFree ==
    /\ broker = "returned"
    /\ Ends(IF listener # NoListener /\ DOMAIN peers # {} THEN "aborted" ELSE "gone")

-----------------------------------------------------------------------------
(* The broker: its peers *)

\* listener_dispatch(): one connection, or on Zephyr up to 32 of those that are
\* pending, until accept() fails.  A peer that the quota or the policy refuses is
\* not one.
Accept ==
    \E n \in 1 .. IF Zephyr THEN MaxPeers - peer_ids ELSE 1 :
        /\ n <= 32
        /\ Running
        /\ listener # NoListener
        /\ peer_ids + n <= MaxPeers
        /\ peer_ids' = peer_ids + n
        /\ peers' = [p \in DOMAIN peers \cup (peer_ids + 1 .. peer_ids + n) |->
                        IF p \in DOMAIN peers THEN peers[p] ELSE listener]
        /\ UNCHANGED <<elsewhere, to_broker, to_launcher, broker, names, listener,
                       has_metrics, reloads, serial, history>>

\* peer_free()
PeerFree ==
    \E p \in DOMAIN peers :
        /\ Running
        /\ peers' = Restrict(peers, DOMAIN peers \ {p})
        /\ UNCHANGED <<elsewhere, to_broker, to_launcher, broker, names, listener,
                       has_metrics, peer_ids, reloads, serial, history>>

\* The serials controller_reload_new() tries, in the order of i.
Tried(i) == (serial + i) % SerialSpace

\* Faulty variant: a serial in use is taken again.
UsableBlind(i) == Tried(i) # 0

Usable(i) == Tried(i) # 0 /\ Tried(i) \notin DOMAIN reloads

\* driver_method_reload_config(), broker_reload_config(),
\* controller_request_reload(), controller_dbus_send_reload()
RequestReload(p, s) ==
    /\ reloads' = [t \in DOMAIN reloads \cup {s} |->
                      IF t = s THEN Len(senders) + 1 ELSE reloads[t]]
    /\ serial' = s
    /\ to_launcher' = Append(to_launcher, [type |-> "ReloadConfig", serial |-> s])
    /\ UNCHANGED answered

\* No serial is left, or the quota of the user is used up: BROKER_E_FORWARD_FAILED.
RefuseReload(s) ==
    /\ serial' = s
    /\ answered' = [answered EXCEPT ![Len(senders) + 1] = 1]
    /\ UNCHANGED <<reloads, to_launcher>>

PeerReloads ==
    \E p \in DOMAIN peers :
        LET free == {i \in 1 .. SerialSpace - 1 : Usable(i)} IN
        /\ Running
        /\ HasInput
        /\ senders' = Append(senders, p)
        /\ \/ free # {} /\ RequestReload(p, Tried(Min(free)))
           \/ free # {} /\ RefuseReload(Tried(Min(free)))
           \/ free = {} /\ RefuseReload(Tried(SerialSpace - 1))
        /\ UNCHANGED <<elsewhere, to_broker, broker, names, listener, has_metrics,
                       peers, peer_ids>>

\* metrics_dispatch(), metrics_client_new_with_fd(): the events of the client
\* are selected on the listening socket, which dispatch_file_select() asserts
\* not to have.
MetricsClient ==
    /\ Running
    /\ has_metrics
    /\ Ends("aborted")

-----------------------------------------------------------------------------
\* launcher_run() up to launcher_fork(): the directories that could be opened
\* were read, and their files may have changed since.
Init ==
    /\ disk \in Disks
    /\ open \in {DOMAIN Dirs \ missing : missing \in SUBSET {d \in DOMAIN Dirs : Read[d] = {}}}
    /\ unnoticed = {}
    /\ events = 0
    /\ phase = "add" /\ at = 1 /\ waiting = FALSE /\ cause = Start
    /\ services = [n \in Names |->
           IF n \in UNION Range(Read)
           THEN [id |-> Numbering(UNION Range(Read))[n], running |-> FALSE, tag |-> TRUE,
                 dir |-> Min({d \in DOMAIN Dirs : n \in Read[d]})]
           ELSE NoService]
    /\ service_ids = Cardinality(UNION Range(Read))
    /\ policy = 1 /\ watched = open
    /\ inotify = (\E d \in open : disk[d] # Read[d])
    /\ deaf = {} /\ applied = FALSE
    /\ to_broker = <<>> /\ to_launcher = <<>>
    /\ broker = "running"
    /\ names = [i \in {} |-> ""]
    /\ listener = NoListener /\ has_metrics = FALSE
    /\ peers = [p \in {} |-> 0] /\ peer_ids = 0
    /\ reloads = [s \in {} |-> 0] /\ serial = 0
    /\ senders = <<>> /\ answered = [r \in Requests |-> 0]

\* sd_event_loop() and what it calls, except what comes from outside
Launcher ==
    \/ OnDirwatch \/ BusMethodReloadConfig
    \/ WatchDir \/ ListDir \/ LoadFails \/ LoadPolicy \/ AppArmorRequired
    \/ RemoveServices \/ SetPolicy \/ AddServices \/ ReloadDone
    \/ AddListener \/ AddMetrics \/ Returned
    \/ CallFails \/ StartFails \/ OnChildExit

\* broker_run() and what follows it
Broker ==
    \/ MethodAddName \/ MethodNameRelease \/ MethodAddListener
    \/ MethodAddMetrics \/ MethodSetPolicy \/ DispatchReply
    \/ ControllerViolates \/ ControllerHangsUp \/ BrokerFree

Outside ==
    \/ FileChanges \/ DirChanges \/ OnSighup \/ Terminated \/ BrokerTerminated
    \/ Accept \/ PeerFree \/ PeerReloads \/ MetricsClient

Next == Launcher \/ Broker \/ Outside

\* Both processes go on as long as they have something to do: neither event
\* loop ever blocks on anything but its own events.
Fairness == WF_vars(Launcher) /\ WF_vars(Broker)

Spec == Init /\ [][Next]_vars /\ Fairness

-----------------------------------------------------------------------------
(* Properties *)

Count(queue, s) ==
    Cardinality({i \in DOMAIN queue :
                    queue[i].type \in {"ReloadConfig", "return", "invalid", "failed"}
                    /\ queue[i].serial = s})

\* Where the reload with serial s is.
Places(s) ==
    Count(to_launcher, s) + Count(to_broker, s)
    + (IF phase # "idle" /\ cause = s THEN 1 ELSE 0)

\* Every reload the broker remembers is in exactly one place, as a call on its
\* way, at work in the launcher or as an answer on its way, and nothing else is:
\* so no answer finds nobody or somebody else, although serials are used again
\* (controller_reload_new(), controller_dispatch_reply()).  No request is
\* answered twice, or before the launcher is done with it.
ReloadsInFlight ==
    /\ Running /\ phase # "exit" =>
           \A s \in Serials : Places(s) = IF s \in DOMAIN reloads THEN 1 ELSE 0
    /\ \A r \in Requests : answered[r] <= IF r \in Range(reloads) THEN 0 ELSE 1

\* Between two calls the names the broker can activate are those of the running
\* services, under their paths; and no call is ever under way that the broker
\* would have to refuse, names that begin with ':' aside (service_add(),
\* service_remove(), controller_add_name()).
NamesAgree ==
    Running /\ phase # "exit" =>
        /\ ~waiting => names = [i \in {services[n].id : n \in {m \in Names : services[m].running}} |->
                                   CHOOSE n \in Names : services[n].id = i]
        /\ \A i \in DOMAIN to_broker :
               LET m == to_broker[i] IN
               /\ m.type = "AddName" /\ m.name \notin Unclaimable =>
                      m.id \notin DOMAIN names /\ m.name \notin Range(names)
               /\ m.type = "Release" => m.id \in DOMAIN names
               /\ m.type = "SetPolicy" => listener # NoListener

Seen(d) == IF d \in open THEN disk[d] ELSE {}

\* Once the launcher applied what it read and inotify has nothing to say, the
\* services that can be activated are those on disk, each with the data of the
\* first directory that has it, and every peer is under the policy read last
\* (launcher_load_service_dir(), launcher_reload_config(), listener_set_policy()).
\* Of directories that came or went unnoticed the launcher has what they held
\* when it read them: one that was not there then is not watched.
SettledOnDisk ==
    phase = "idle" /\ applied /\ ~inotify /\ Running =>
        /\ \A n \in Names :
               LET has == {d \in DOMAIN Dirs \ unnoticed : n \in Seen(d)} IN
               /\ has # {} => services[n].running /\ services[n].dir <= Min(has)
               /\ services[n].running => services[n].dir \in has \cup unnoticed
        /\ ~Zephyr => {listener} \cup Range(peers) = {policy}

\* A peer that asks for a reload and stays is answered, unless the bus ends
\* (bus_method_reload_config(), controller_dispatch_reply()).
ReloadAnswered ==
    \A r \in Requests :
        r \in DOMAIN senders ~>
            \/ answered[r] > 0
            \/ ~Running
            \/ r \in DOMAIN senders /\ senders[r] \notin DOMAIN peers

\* listener_deinit() asserts that no peer is left when broker_free() comes to it.
ListenersReleasedEmpty ==
    [][broker = "returned" => broker' # "aborted"]_vars

=============================================================================
