# A TLA+ verification of dbus-broker (Zephyr port)

This directory specifies the message bus of this repository in TLA+, checks the
specifications with TLC on small instances, and proves the central results with
TLAPS for instances of any size.  `PROJECT.json` maps every definition to the
lines it models and lists the runs, theorems, hazards and findings.

## 1. The system

dbus-broker is a single-threaded message bus.  One event loop
(`src/util/dispatch.c`) calls back into connections; every callback runs to
completion.  The difficulty is not in preemption but in what is left behind
between two callbacks: objects linked in several containers at once, answers
that are owed, charges that must be given back, and events that arrive late.

| Component | State | Operations | Talks to |
|---|---|---|---|
| Name registry (`bus/name.c`) | per name a list of ownerships, per owner a tree, counters, charges | request, release, update, end of an owner | driver, user accounting |
| Driver (`bus/driver.c`) | none of its own | the methods of `org.freedesktop.DBus`, routing, signals, goodbye | all of `bus/` |
| Peer (`bus/peer.c`) | registered, monitor, owned names/replies/matches | dispatch, register, deliver, reply, free | connection, driver |
| Reply tracking (`bus/reply.c`) | one slot per caller, serial and callee | new, find, free | peer |
| Activation (`bus/activation.c`) | pending serial, queued messages and requests | queue, activated, failed, deinit | controller, driver |
| Match registry (`bus/match.c`) | rules, keys, subscription trees | link, unlink, flush, get subscribers | peer, driver |
| Policy (`bus/policy.c`) | per uid/gid/console batches of rules | instantiate, check own/send/receive | peer (unused on Zephyr) |
| User accounting (`util/user.c`) | per user and slot what is left, usages by actor | charge, deinit | everything |
| Dispatch (`util/dispatch.c`) | ready list, per file event masks | select, deselect, clear, poll | connection, listener |
| Socket, queue (`dbus/socket.c`, `dbus/queue.c`) | in and out buffers, shutdown flags | read, write, shutdown | connection |
| SASL (`dbus/sasl.c`) | server and client state machines | dispatch a line | connection |
| Connection (`dbus/connection.c`) | authenticated, half-closed | open, dispatch, queue, dequeue, shutdown | socket, sasl, peer |
| Listener (`bus/listener.c`) | listening socket, peers | accept, free | peer |
| Broker, controller (`broker/*.c`) | names, listeners, reloads, metrics | the methods of the controller interface | launcher, driver |
| Launcher (`launch/launcher.c`, `service.c`) | services, what it told the broker, watched directories | start units, report outcome, reload | controller |
| Launcher configuration (`launch/config.c`, `policy.c`, `nss-cache.c`) | nodes in reading order, users and groups, rules by context | read, resolve, optimize, export | launcher |
| Message, libcdvar (`dbus/message.c`, `subprojects/libcdvar-1`) | one message, its header fields and vectors | parse, stitch the sender | connection, driver |
| Lists and trees (`subprojects/libclist-3`, `libcrbtree-3`) | links | add, remove, splice, walk | everything |

What is hard here:

* **Objects in two containers.**  Ownerships, slots, rules, charges and usages
  are linked twice; the code unlinks by hand on every path.
* **Answers owed.**  A method call is answered by the callee, by the driver, by
  the activation machinery or by goodbye, exactly once.
* **Late events.**  A report of the controller, a reply or a queued message
  concerns a state that may have passed.
* **Half-finished handlers.**  Handlers fail in the middle (quota), and goodbye
  works in several steps between which messages are sent.
* **Limits.**  Quotas are reached at any step, by several peers of one user.

What makes each part correct, in a sentence: the **registry** serves names in
order and tells the truth about them; the **driver** answers every call once and
never delivers to the wrong peer; **activation** is retried after a failure and
cancelled only by its own; **match rules** deliver exactly what was asked for and
outlive nothing; **accounting** gives back what it took and lets no user starve
another; the **event loop** loses no event and starves no file; a **connection**
keeps its streams intact and is freed in the end; **authentication** believes
only what the kernel vouches for; the **launcher** reports exactly the failures
of what it was asked to start, and broker and launcher agree on what can be
started; a **policy** means in the broker what its files say; a **message** is
sent on as it was received, whatever the peer put into it; the **containers**
are what every other module takes them for.

The port matters: on Zephyr there is no policy (`peer->policy` is `NULL`), every
peer is uid 0, no descriptors are passed, and the event loop polls.  Models keep
what is in the source for all builds unless said otherwise; `Dispatch` is the
`poll()` variant.

## 2. Modules

| Module | What it is |
|---|---|
| `NameOwners` | what the bus promises an observer about names (abstract) |
| `NameRegistry` | `bus/name.c` with the driver methods and signals around it; implements `NameOwners` |
| `NameRegistryProofs` | the inductive invariant, the order of the line and the refinement, proved |
| `Bus` | method calls: slots, replies, activation, goodbye, controller; its names move by the steps of `NameOwners` |
| `MatchRules` | match rules, their registries, broadcasts, monitors |
| `UserAccounts` | users, usages, charges and the quota |
| `Dispatch` | the event loop |
| `Socket` | a connection: socket, queues, events, the callback of its peer, the client |
| `Sasl` | authentication, server and client |
| `Service` | activation in the launcher, between the broker and systemd |
| `Config`, `NssCache` | the reader of configuration files; users and groups |
| `Policy`, `LauncherPolicy` | the policy from its rules to the broker's verdicts; both ends joined |
| `Control` | launcher and broker: start, reloads, names, listener, policy, the end |
| `InputQueue` | from `recvmsg()` to lines and messages |
| `DVar`, `Wire`, `Message` | marshalling; one variant in use; one message through the broker |
| `RBTree` | the red-black tree |
| `Lists`, `CList` | what a list promises (abstract); c-list, which implements it |
| `Collections` | the elements of a sequence that are in a set, sums over a finite set: operators that several modules use |
| `CollectionLemmas` | what those operators return, induction over numbers and finite sets, sequences as sets |
| `ServiceProofs`, `MatchRulesProofs`, `ControlProofs`, `InputQueueProofs` | what is proved of the module of that name |
| `BusProofs` | what is proved of `Bus` and `UserAccounts` |
| `ConnectionProofs` | what is proved of `Sasl`, `Dispatch` and `Socket` |
| `MC*` | the instances for TLC |

`MCConnection`, `MCLauncher` and `MCRules` check several modules in one run
(`MCRules` those of `MCMatchRules` and `MCLibraries`).  The modules share no state
there: a behaviour chooses one of them at the start.

### NameRegistry

`ownership_list[n]` is `Name.ownership_list` (first entry is primary),
`ownership_tree[o]` the names in `NameOwner.ownership_tree`, `flags` the flags of
the linked ownerships, `n_objects` what is left of `USER_SLOT_OBJECTS`, and the
counters keep their names.  `RequestUnowned`, `RequestOwned`, `RequestReplace`,
`RequestQueue` and `RequestRefused` are the five branches of
`name_ownership_update()` together with the creation and the destruction of the
ownership around it; `ReleaseOwnership` is `name_ownership_release()`.
`driver_goodbye()` is split where it sends signals (`GoodbyeBegin`,
`GoodbyeRelease`, `GoodbyeEnd`), the other handlers are one action.  Signals are
modelled by what their receivers know afterwards (`announced`, `unique_names`,
`told`).

### Bus

Messages are a constant set, each sent at most once, with a sender and a serial
(0: no reply expected).  `waiting` is what the callers wait for; `replies`,
`activation_requests[n]` and `activation_messages[n]` are what the broker
remembers.  Quotas are nondeterministic: wherever the code may return a quota
error, it may do so.  `shut` are the peers that `connection_shutdown()` was
called on while they are on the bus.  Order inside an activation queue is not
modelled: all of it is delivered in one handler, and any of it may be refused.

### MatchRules

A rule is its sender, the name whose `NameOwnerChanged` it is about, and three
fields.  `registry` says where it is linked, as `peer_link_match()` chose from
the state at that moment; `Subscribers` looks where
`bus_get_broadcast_destinations()` looks.  `driver_goodbye()` has two steps
around the signal that the peer left.  `pins` are the references that rules hold
on names; the rules may be about addresses that begin with `:` and are no unique
name (`Others`), whose references `peer_match_rule_to_name()` does not find again
(`leaked`).  `unheard` are the rules that were put where nobody looks: those on a
peer that is connected and has not said Hello, and those of monitors on the owner
of a name.  The trees by path, interface and member are the index behind the
comparison of fields and are not modelled.

### UserAccounts

One `User` per uid, one usage per user and actor, charges that refer to usages.
A refused charge pins its usage, as in the code; a reply slot that was refused is
leaked.  `unsigned int` is narrow (`UintMax`), so that the overflow checks of
`user_charge_check()` are reached by small amounts.

### Dispatch

`files` is the poll set, which `dispatch_file_deinit()` compacts by moving the
last entry; `ready` and `todo` are the two lists of a round.  A callback is any
sequence of at most `MaxCalls` calls to the interface.  That of a peer may free its
own file (`peer_dispatch()`), and that of any connection may select events on it
(`controller_dispatch_connection()` writes and deselects, and the handler of the
next message queues a reply).  `Return` reads and links the file all the same; when
the file is freed or linked by then, the list is `broken` and the model ends: what
comes after is undefined.

### Socket

`sock` holds the flags and queues, `steps` what is left of the running
`peer_dispatch()`: the phases for input, hang-up and output, each followed by
dequeueing.  The bus may queue on the connection or shut it down between any two
messages.  Output is counted in pieces, of which the kernel takes any part.
`sendmmsg()` may be that of Linux, which stops behind a message it takes in part,
or the shim of the Zephyr port, which goes on with the next one (`overtaken`).
Buffers with descriptors wait until the kernel has passed them on (`WriteInFlight`
is the answer of `SIOCOUTQ`, which the port does not ask).

### Sasl

`up` and `down` are the two directions.  The client is either the one of
`sasl_client_dispatch()`, which sends its four lines at once and messages right
behind, or any other, which sends what it likes.  A line is its command,
mechanism and kind of argument.

### Service

The broker (`pending`, `activation_ids`), one service of the launcher with the
slots, job and unit of its current activation, and systemd with units and jobs,
joined by three ordered streams.  `Reset`, `AddName` and `Release` are
synchronous calls and take effect in the step that makes them.  A reload adds,
changes or removes the service at any moment; its id is new afterwards, its
transient units start from the same number again.  systemd is external: it
answers calls in order, merges a start into a job the unit has, and announces
the failure of a unit, or that a condition kept it from being started, before or
after the end of its job.  Both fail an activation (`Negative`).  A start that is
skipped without such a signal, or whose signal comes while the job is still
watched, is `overlooked`.

### Config, NssCache, Policy, LauncherPolicy

A file is the sequence of callbacks the XML parser makes for it, and every
callback is a step of `Config`.  `order` is the list of all nodes, `includes` the
queue of files to be read; directories may be missing or denied, files broken,
absent or gone by the time they are opened.  `NssCache` is one of the two caches,
instantiated for users and for groups.  `Policy` is a pipeline of operators, one
per stage: `Import`, `Optimize`, `Export` (`launch/policy.c`), `Registry`,
`Snapshot` and the four checks (`bus/policy.c`), with uids of a small width so
that ranges wrap as 32-bit numbers do.  `VerdictsAsWritten` compares the end of
the pipeline with the rules themselves, for every peer and message.  Strings are
atoms; `PrefixesOf` gives the prefixes of a dotted name.

### Control

The launcher's side is a program counter (`phase`, `at`) through `launcher_run()`
and `launcher_reload_config()`: parse, load each service directory (watch, then
list), apply, with one synchronous call to the broker per service.  Directories
come and go and lose their permissions at any moment (`open`); one that cannot be
opened is neither watched nor listed, so that its later appearance goes
`unnoticed`, and inotify tells of one that is removed but not of one that is
moved away or locked.  While it waits in `sd_bus_call()` the broker goes on,
files change and peers ask for more.  `to_broker` and `to_launcher` are the two
directions of the private connection.  The broker's side is the tables of the
controller, the listener with its peers and their policies, and the reloads it
forwards under serials that wrap (`SerialSpace`).  Either side may end at any
moment and takes the other along; `Zephyr` selects the variant of
`broker_run()`.  A policy is its version.

### InputQueue, DVar, Wire, Message

`InputQueue` keeps the offsets of the code (`data`, `start`, the pending target)
over bytes that carry where they come from, so that any loss, repetition or
mix-up shows; `recvmsg()` returns any part of what the kernel has (`Chunk`,
`Unread`) and never crosses a buffer with descriptors.  What peers may send is
the constant `Streams`: lines and then messages, cut anywhere.  `DVar` has the
stack of levels of a `CDVar` with offsets, remaining sizes and alignment, the
writer's growing buffer, and the reader with its fast-forward; numbers are
bytes.  `Wire` drives it with every short signature and a few long ones, values
for some of them, and one damaged or missing byte.  `Message` is `message.c` on
top of it: a client marshals a header that is valid or wrong in one way, a byte
may be damaged, the broker parses it, cuts out the sender and stitches in its
own.

### RBTree, CList

The heap as the libraries keep it, with the parent word of the tree that doubles
as root and colour.  Every modification is an action; the walks that remove what
they stand on are actions too, one node at a time.  `CList` implements `Lists`
(`ImplementsLists`), in which a head is a sequence: this is what the other
modules assume where they use sequences.

## 3. Runs

| Run | Specification | Instance | Shows |
|---|---|---|---|
| `name_registry` | `NSpec` | 3 peers (one user), 2 names, 4 objects, symmetry | the inductive invariant, fairness of the line, refinement of `NameOwners` |
| `bus` | `BFairSpec` | 3 peers, 1 name, 3 messages | calls are remembered once, books are sound, late reports are harmless, nobody waits for a peer that is gone |
| `rules_and_libraries` | `RulesSpec` | rules: 3 peers, 1 name, 1 address that is no unique name; 7 nodes; 4 elements on 2 lists; signatures of 4 characters and 10 longer ones; 12 headers; 3 messages in 4-byte reads | exact delivery to subscribers and monitors; links, counts and pins; the containers, the marshalling, the message and the input queue |
| `user_accounts` | `ASpec` | 4 uids, 4 charges, 5-bit integers, symmetry | books, no exhaustion by others, guaranteed shares |
| `connection` | `ConnectionSpec` | loop: 3 files, 2 calls per callback; connection: 3 messages out (one with descriptors), 2 in; authentication: 1 item in flight for any client, 8 for the honest one | lists, no lost event, no starvation; streams, flush, release; only proven uids, descriptors, the honest client succeeds |
| `launcher` | `LauncherSpec` | 2 files with a rule of every kind in every context, nested and failing includes, 4 uids; 3 activations, 2 service objects | reading order, names, verdicts; stages, deserved and complete failure reports |
| `control` | `Spec` | 2 names (one refused by the broker), 2 directories that come and go, 1 peer, 3 inputs, 2 serials | reloads, names and policies agree, every caller is answered |
| `leaked_reply_slot` | | violation | see section 6 |
| `freed_in_callback` | | violation | see section 6 |
| `match_added_twice` | | violation | see section 6 |
| `shutdown_with_peers` | | violation | see section 6 |
| `skipped_start` | | violation | see section 6 |

Why the bounds are enough to be interesting: three peers are an owner, one who
replaces it and one who waits in between, or a subscriber, a sender and one who
leaves; two messages of one caller with one serial meet in one slot; four charges
let an actor hold two at once while others squeeze it; two calls in a callback
free one file and select another; a message of two pieces is cut in the middle;
two activations are a stale and a current one, a third comes after both; two
serials are exhausted and used again by three reloads; two files with a rule each
are an earlier and a later rule, of equal or different context; seven nodes make
trees in which every case of insertion and removal occurs, at the root and below;
a buffer of four bytes and one of eight make lines that fit, fit after enlarging
and never fit, and messages that are read directly, through the buffer and both.

`CHECK_DEADLOCK FALSE` stands where the bounds end (peers that do not come back,
messages sent once) and the system may rest.

## 4. Fairness

* `BFairness`: `driver_goodbye()` is a loop in one handler, so it ends
  (`WF_bvars(GoodbyeStep)`).  Peers, services and the controller owe nothing, so
  that a call may wait for ever for a peer that does not answer, or for an
  activation of which the controller never reports anything.  `Service` says how far
  the launcher goes there (`FailuresAreReported`), and `skipped_start` where it
  stops.
* `ConnectionSpec`: the broker is one thread.  `broker_run()` calls
  `dispatch_context_dispatch()` for ever, which polls, takes files off its list,
  and their callbacks return (`Loop`); the event loop calls back for events that
  stay signalled, and callbacks go on (`Dispatched`); the server answers what has
  arrived (`Server`).  Nothing is assumed about what callbacks do, or about
  clients, except that the honest one of `HonestSucceeds` processes its input.
* `LauncherSpec`: sd-event dispatches a connection with messages.  systemd owes
  nothing.
* `Spec` of `Control`: each of the two processes goes on if it can, by any of its
  steps (`WF_vars(Launcher)`, `WF_vars(Broker)`).  Files, signals, peers and the
  end of either process owe nothing.

## 5. Proofs

The proof modules hold for every value of the constants: any number of peers,
names, messages, users, files and activations, any lengths, any limits.  The
bounds of the runs are constants of the modules (`MaxIds`, `MaxSent`, `MaxCalls`,
`MaxSerial`, ...); a proof takes any number for them.

| Theorem | States | Assumes |
|---|---|---|
| `NameRegistryInvariant`, `SignalsAreTruthful`, `LinesAreFair`, `NameRegistryImplements` | `NInv`, `SignalsTruthful`, `FirstComeFirstServed`, `NameOwners` | `NamesAssumption` |
| `BusBooksSound`, `BusRemembersCalls`, `BusCancelsOwnFailure` | `BusSound`, `CallsRemembered`, `OnlyOwnFailureCancels` | `MessagesAssumption` |
| `AccountsBalance`, `RemotesHoldTheirPart`, `SmallSharesGranted` | `BooksBalance`, `RemotesCannotExhaust`, `SmallSharesAreGranted` | `AccountsAssumption` |
| `DispatchListsSound`, `DispatchLosesNoEvent`, `DispatchOncePerRound` | `ListsSound`, `NoLostEvent`, `OncePerRound` | `DispatchAssumption` |
| `ConnectionReleased`, `StreamsIntact` | `ReleasedWhenDone`, `StreamIntact` | `SocketAssumption` |
| `InputSound`, `InputIsIntact`, `PinnedIsPaid` | `InputInv`, `InputIntact`, `PinnedIsCharged` | `InputQueueAssumption`, `StreamsAssumption` |
| `UidsAreProven`, `FdsAreProven`, `HonestCorrect` | `OnlyProvenUids`, `FdsOnlyWhenProven`, `HonestIsUnderstood` | `SaslAssumption` |
| `MatchRulesSound`, `DeliveryExact` | `RulesSound`, `DeliveredExactly` | `MatchAssumption` |
| `ServiceInvariant`, `ServiceIsSound`, `OnlyFailuresReset` | `SInv`, `ServiceSound`, `ResetsAreDeserved` | `ServiceAssumption` |
| `ControlSound`, `ReloadsAccounted`, `NamesFollow`, `SettledIsOnDisk` | `ControlInv`, `ReloadsInFlight`, `NamesAgree`, `SettledOnDisk` | `ControlAssumption` |

*Assumptions.*  Those on constants are in the modules that declare them and say
what kind of thing a constant is: sets that must be counted are finite, lengths
and limits are numbers, `None` is no owner.  `StreamsAssumption` is the protocol
between a peer and the bus: lines, then messages with the sizes their headers
announce, and descriptors sent with bytes of the message they are for (or with
lines, which is refused).  The stream may end anywhere.  Beyond that no theorem
restricts what callbacks, kernels or clients do.  Where the code breaks a promise,
the property says at which step, and what holds all the same:

* `ListsSound`: both lists are sound until `dispatch_context_dispatch()` links a file
  that its own callback freed or linked (`broken`), and that step alone breaks them.
* `StreamIntact`: what goes out is in order until `sendmmsg()` goes on behind a
  message it sent in part (`overtaken`); every piece is sent before the output ends
  even then.
* `RulesSound`: the references on an address that begins with `:` and is no unique
  name are those of its rules and those of the rules that are gone (`leaked`); there
  are none of the latter on a well-known name.
* `DeliveredExactly`: delivery is exact for all rules but the `unheard` ones, and
  these bring nothing.
* `SettledOnDisk`: what can be activated is what is on disk, but for directories that
  came or went `unnoticed`, of which it is what was there when they were read.

*Induction.*  The library's induction theorems take a predicate, which the provers
cannot instantiate.  `CollectionLemmas` states them for a set instead
(`NatSetInduction`, `FiniteSetInduction`, from the well-foundedness of the
numbers), and with them what a recursive function computes: `Only` (the selection
keeps order and elements), `SumOf` (unfolding, monotony, change at one place), and
`FlattenSeq` (what it does to the two ends of a sequence of sequences).

*NameRegistry.*  `NInv` is inductive: types; `Linked` (the two links of an
ownership agree); nobody waits who would not; owners are registered; the counters
count; charges balance; signals told the truth.  None of the parts is inductive
alone: that a counter is right after an ownership is freed needs that it was
linked exactly once, and that a charge is given back once needs the same.  The
lemmas go from sequences (`UnlinkProps`, `ConsProps`) over sums (`HeldAdd`,
`HeldDrop`, `CountStep`) to one lemma per action (`...Step`), combined in
`StepPreservesInv`.  `LinesAreFair` compares the list of a name before and after a
step: an unlinked entry leaves the others in order (`UnlinkKeepsOrder`), a new one
goes to the end, a replacement to the front (`ConsFair`); that an entry's place is
well defined needs `Linked`.  `NameRegistryImplements` shows each step of the registry to
be a step of `NameOwners` or a stutter (`ChangeSimulates`, `ReleaseSimulates`,
`StepSimulates`).

*Bus.*  `CallsRemembered` speaks of callers on the bus; to be inductive it needs
the calls of everybody.  `BInv` adds that a message is in at most one place,
whoever sent it (`OnePlace`), and in none before it was sent (`SentBefore`): then
a slot that `driver_goodbye()` frees cannot be that of a second copy.  That a late
report cancels nothing is an action property; it follows from `BInv`, which says
that a pending activation has not failed.

*UserAccounts.*  `BooksBalance` is inductive; the sums change at one place per step
(`SumChange`).  `RemotesCannotExhaust` is inductive together with it, but for a set
`S` of actors it needs itself for a smaller one: if `x` is what actor `a` has once
`user_charge()` let it have it and `H` what the others of `S` hold, the check says
`x * (k + 1) <= Maximum - H`, the others alone are bounded by
`H * k <= (k - 1) * Maximum`, and the two make the bound for `S` (`QuotaBound`).
`SmallSharesAreGranted` follows from the same bound for the other actors
(`SpreadBound`), with the overflow checks of `user_charge()` as the code has them.

*Dispatch.*  `DInv` adds what is known of the file whose callback runs: it is not on
the list of the round any more, which is why what is left of a round has not been
called in it, although it may be back on the ready list or freed.

*Socket.*  For `ReleasedWhenDone`, `ReleaseInv` says what is known of the socket
for everything that may be left of a callback (`Remainders`, `StepsSound`): a
callback ends only after the input queue was found drained, and a hang-up found
there leads to the goodbye.  For `StreamIntact`, `StreamInv` says that the numbers
of what is received and of what is under way go on where those of what was handled
end, and that what was written followed by what the queue will still write is all
that was accepted.  The step that matters is a `sendmmsg()` that takes some buffers
and tears the last one (`WrittenAndLeft`).

*InputQueue.*  Neither property is inductive.  `InputInv` says in `QueueSound` how
the offsets, sizes and charges of a queue fit together, and in `PhaseSound` what
they are while lines are expected (no line ends before the cursor, so that nothing
need be looked at twice) and afterwards (the cursor is the start).  `ContentSound`
looks ahead: what is in the queue and in the socket, joined, is the rest of a
stream from the next line or message on, and descriptors are by the message they
are for.  Hence the header that becomes complete is that of the next message, the
size it announces is right, and the descriptors that move with the last byte of the
buffer are its own.  `FdsKept` and `Conserved` say that nothing gets lost.  There
is one lemma for every function on queues (`ResizeSound`, `CursorSound`,
`ReceivedSound`, `CopySound`, `HeaderTarget`, `MessageTarget`, `HandedOver`,
`LineDone`), and the steps of the socket put them together.  That a read has room
follows from `PhaseSound`: with a target pending, what is parsed is all there is.

*MatchRules.*  `LinkInv` says which sets of peers are part of which, that no rule
is linked on a peer that is gone, and that a peer between the two halves of
`driver_goodbye()` has no rule left and none linked on it as a sender.  On top of
it `CountInv` and `PinInv` equate the counters with sums over the rules that are
linked and the references that are held; each step changes the sums at one peer
and one rule, or empties what belongs to a peer (`SumChange`).  `RulesSound`
follows.  `DeliveredExactly` compares the registries that are looked into with all
rules there are, so it depends on where a rule was put in the past: `PlaceInv` says
for every kind of rule where it is now.  A rule about a peer is linked on it, or
with the wildcards since before the peer came, or nowhere because the peer came and
went; as ids are used once, that peer sends nothing any more.  Otherwise it was
linked while the peer had not said Hello, or by a monitor on an owner, and is among
the `unheard`.

*Sasl.*  `SaslInv` is inductive for any client: `UidsAreProven`, `FdsAreProven`.
That the honest client is understood is not; `HonestInv` says how far the exchange
has come and exactly what is then in flight in both directions.  It holds from
the start, survives steps of the server and of the client (`HonestServerStep`,
`HonestClientStep`), and yields `HonestCorrect`.

*Service.*  What a message of systemd means for the current activation depends on
where it came from, so `ResetsAreDeserved` is far from inductive.  `SInv` orders
everything under way by serials; a reply with the serial of the current activation
is the reply to its one call; systemd has no further call to serve while the
launcher waits for a job or watches a unit; hence the job is one that runs for this
activation or one whose end is on its way, and what the unit says behind that end
is about this start.

*Control.*  What launcher and broker know of each other differs while a call is
under way, so none of the three properties is inductive.  `ControlInv` has four
parts that hold while both processes live, and depend on each other in this order.
`FlowInv`: the launcher waits exactly while its one call or the reply to it is in a
queue, and each reload is in one place: a queue, the hands of the launcher or its
answer on the way back.  A serial is in use exactly while its reload is in one of
them, which is why `controller_reload_new()` may give the others out again.
`NameInv`: the call under way is the one the launcher would make now (nothing it
reads changes while it waits), and the names of the broker are those of the running
services, or, once the reply is on its way, of the services as they will be when it
is read.  `PolicyInv`: from the confirmed SetPolicy on, listener and peers are under
the policy read last, those accepted meanwhile included.  `DiskInv`: the services
reflect the directories listed so far unless inotify has something to say, because
a directory is watched before it is listed.  When either process ends the relation
between them is given up; `AnswerInv`, that no caller is answered twice, stays.

Each of these invariants was checked by TLC on the instance of its run before it
was proved.

*Only model-checked.*  Liveness is out of the prover's reach: `NobodyWaitsForTheGone`,
`ServedInTurn`, `ClosedIsFreed`, `HonestSucceeds`, `FailuresAreReported` and
`ReloadAnswered`.  So is what recursive operators compute: `RBTree`, `CList`,
`DVar`, `Wire`, `Message` and `LauncherPolicy` declare some, and `Policy` is
checked through the last.

## 6. Where code and text disagree

Runs that TLC is expected to fail, each with a finding in `PROJECT.json`:

* `leaked_reply_slot`: `reply_slot_new()` does not free the slot when the charge
  is refused; the charge keeps a user alive for ever.
* `freed_in_callback`: the event loop reads a file after its callback, which may
  have freed it.
* `match_added_twice`: a rule about a peer to come, added again when it is there,
  fails an assertion.
* `shutdown_with_peers`: on Zephyr `broker_run()` returns from inside its loop and
  never flushes the peers; a listener that still has peers fails an assertion
  when the broker is freed.
* `skipped_start`: a start that systemd skips, or whose unmet condition it announces
  before the end of the job, is taken for a success (`launch/service.c:254`, `:679`),
  although the comment at `launch/service.c:772` says "We need to consider it a
  failure"; the broker goes on waiting.

Inside the passing runs, as exceptions that their properties state.  Each shows up
as a trace when the property named here is put into the `cfg` as an invariant:

* A callback that selects an event on its own file while another is pending links
  it; `dispatch_context_dispatch()` links it once more (`util/dispatch.c:619`).  The
  comment on `c_list_link_before()` says "it better not be linked into another list"
  (`LinkedOnce`, `connection`).
* With the `sendmmsg()` shim of Zephyr a message sent in part is followed by the
  next one, and the client reads garbage (`InSequence`, `connection`).
* A rule about a peer that is connected and has not said Hello is not linked, "since
  it can never have an effect" (`bus/peer.c:596`); once the peer said Hello, its
  signals are missed (`UnlinkedIsVoid`, `rules_and_libraries`).

Seen while modelling, without a run of their own:

* A reply that exceeds the quota of the caller is dropped; the log says the caller
  is being disconnected (`bus/diag.c:227`), but `peer_queue_reply()`
  (`bus/peer.c:978`) leaves it connected.  `CallsRemembered` counts such calls as
  unanswered (`dropped`).
* A rule about an address that starts with `:` and is no unique name takes a pin that
  is never released (`leaked` in `MatchRules`); a monitor with a rule on
  `NameOwnerChanged` and `arg0` does not see what it asked for.
* `controller_reload_new()` leaks like `reply_slot_new()` when the quota refuses
  (`broker/controller.c:140`), and its search for a free serial can miss one when
  the counter wraps (`:118`).
* The first client of the metrics socket makes the broker abort:
  `metrics_client_new_with_fd()` selects `EPOLLHUP | EPOLLOUT` on the listening
  socket (`bus/metrics.c:109`), which was registered for `EPOLLIN` only, against
  the assertion of `dispatch_file_select()`.  `MetricsClient` of `Control` ends
  the broker.
* On Zephyr a listener keeps no policy, so that the registry parsed by AddListener
  or SetPolicy is leaked.
* When the second `realloc()` of the event loop fails, the array that the first one
  returned is freed although the context still points to it
  (`util/dispatch.c:105`).
* A service file whose name begins with `:` passes the launcher's check and is
  refused by the broker: at start the launcher fails; in a reload the error is not
  one `bus_method_reload_config()` expects (`Unclaimable` in `Control`).
* `service_update()` changes the uid of a service, the broker keeps charging the
  user of the first AddName.  A failed reload by SIGHUP or inotify makes sd-event
  disable its source, so that the next one is not noticed (`deaf` in `Control`).
* `VerdictsAsWritten` states as they are: a rule to own one name also covers names
  below it (`bus/policy.c:873`); connection rules in console contexts apply to
  everyone; those for a group are filed under the uid (`launch/policy.c:323`);
  SYSTEM_CONSOLE_USERS are at the console only if some policy says
  `at_console="true"` (`launch/launcher.c:1101`).
* A negative entry of the NSS cache, asked for by id, answers that the id is valid
  the second time (`launch/nss-cache.c:356`, `:445`); two console users with one
  uid wrap a range and fail an assertion (`launch/policy.c:945`).
* A file that vanishes between the listing of a directory and its opening makes the
  whole configuration fail (`launch/config.c:1307`).  A service directory that does
  not exist or is not readable when it is read is not watched (`launch/launcher.c:774`):
  it is noticed with the next reload only (`unnoticed` in `Control`).
* Descriptors sent in two parts with one message are dropped silently when it is
  read directly, and a violation when it is read through the buffer.

## 7. Not modelled

Methods of the driver that only read state, the parser of match rules and the
trees by path, interface and member, statistics and metrics, logging, the security
modules, start-up and command lines, the text of service files, UTF-8 and INI
parsing, big-endian messages.  `PROJECT.json` gives the reason for each.
Allocation failures and failures that end the process are left out; where they
leave something behind in a process that goes on, section 6 says so.

Collapsed, where no property tells the cases apart: the errors of `sendmmsg()` that
end the output of a connection (`dbus/socket.c:930`); the text of `min_fds` and
`max_fds`, which is valid or not (`launch/config.c:553`); the reasons for which
`sd_bus_call()` fails.  Its default timeout, after which the broker may still carry
out a call the launcher has given up (`launch/launcher.c:1157`, `:1210`), is left
out: the launcher fails a reload then as it does for an error, but the names of the
two may differ.

## 8. Plan

Done: `NameOwners`, `NameRegistry` and its proofs (the heart of the bus), `Bus` on
top of them, `UserAccounts`, `Dispatch`, `Socket`, `Sasl` and its proofs,
`MatchRules`, `Service`; then the way in (`InputQueue`, `DVar`, `Message`), the
policy from file to verdict (`Config`, `NssCache`, `Policy`), launcher and broker
together (`Control`), and the containers (`RBTree`, `CList`).

The safety properties of `Bus`, `UserAccounts`, `Dispatch`, `Socket`, `Service`,
`MatchRules`, `InputQueue` and `Control` are proved as well.

Next, in this order:

1. Proofs: `Config` (`ReadInOrder`), with recursive functions in place of
   recursive operators.
2. The parser of match rules; reference counts of names and of the trees of rules.
3. The methods of the driver that only read state, against the registries.
