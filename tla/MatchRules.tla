----------------------------- MODULE MatchRules -----------------------------
(***************************************************************************)
(* Match rules: who receives a broadcast, and what of a rule is left when  *)
(* the peers and names it is about come and go.                            *)
(*                                                                         *)
(* A rule lives in the tree of its owner and is linked in at most one      *)
(* registry: that of all messages (wildcard), that of the driver, or one   *)
(* of a peer or a name (src/bus/match.c).  peer_link_match() chooses it    *)
(* from the state of the bus at that moment (src/bus/peer.c), and          *)
(* bus_get_broadcast_destinations() looks into a few registries only       *)
(* (src/bus/bus.c), so that a rule linked in the wrong one is never found. *)
(***************************************************************************)
EXTENDS Integers, FiniteSets, Collections

CONSTANTS
    WellKnown,     \* well-known names
    Others,        \* addresses that start with ':' but are no unique name
    Nobody,        \* not a peer and not a name
    MaxPeers,      \* bound: peers that connect
    MaxRefs,       \* bound: references on one rule
    MaxTotal,      \* bound: references when a rule is added
    MaxPins,       \* bound: references on one name
    Keys,          \* the rules that subscribers add
    MonitorKeys    \* the rules that monitors bring along

Ids == 0 .. MaxPeers - 1
Fields == {"path", "interface", "member"}
Targets == Ids \cup WellKnown \cup Others

\* What address_from_string() makes of a string; "none" if there is none.
Address ==
    [kind : {"none", "driver"}, of : {Nobody}] \cup [kind : {"id"}, of : Ids]
    \cup [kind : {"name"}, of : WellKnown] \cup [kind : {"other"}, of : Others]
NoAddress == [kind |-> "none", of |-> Nobody]
Driver == [kind |-> "driver", of |-> Nobody]
Id(p) == [kind |-> "id", of |-> p]

\* A rule: its sender, the name whose changes of owner it is about
\* (member=NameOwnerChanged with arg0), and the fields it asks for ("" is
\* any).  A message always has all fields.
Rule == [sender : Address, noc : Address, fields : [Fields -> {"", "a", "noc"}]]
AllKeys == Keys \cup MonitorKeys

ASSUME MatchAssumption ==
    /\ MaxPeers \in Nat \ {0}
    /\ MaxRefs \in Nat /\ MaxTotal \in Nat /\ MaxPins \in Nat
    /\ Keys \subseteq Rule
    /\ MonitorKeys \subseteq Rule
    /\ IsFiniteSet(AllKeys)
    /\ Nobody \notin Targets
    /\ Ids \cap (WellKnown \cup Others) = {} /\ WellKnown \cap Others = {}

VARIABLES
    ids,                    \* PeerRegistry.ids
    connected,              \* peers that exist
    registered,             \* Peer.registered
    monitors,               \* Peer.monitor
    greeted,                \* history: peers that said Hello
    owner,                  \* the primary owner of each name
    n_user_refs,            \* MatchRule.n_user_refs, 0 if there is no rule
    registry,               \* MatchRule.registry
    n_subscriptions,        \* MatchCounters.n_subscriptions
    n_owner_subscriptions,  \* MatchOwner.n_owner_subscriptions
    n_monitors,             \* Bus.n_monitors
    pins,                   \* references on a name that were taken for rules
    leaked,                 \* history: those of rules that are gone
    unheard,                \* history: rules <<p, k>> put where nobody looks
    departing,              \* the peer driver_goodbye() is at work on
    aborted                 \* an assertion failed

peerVars == <<ids, connected, registered, monitors, greeted, n_monitors, departing>>
ruleVars == <<n_user_refs, registry, n_subscriptions, n_owner_subscriptions,
              pins, leaked, unheard, aborted>>
vars == <<peerVars, owner, ruleVars>>

Wildcard == <<"wildcard", Nobody>>
DriverRegistry == <<"driver", Nobody>>
NoRegistry == <<"unlinked", Nobody>>
Registries ==
    {Wildcard, DriverRegistry, NoRegistry} \cup ({"sender", "noc"} \X Targets)

-----------------------------------------------------------------------------
(* Lookup *)

\* A signal of the driver about a change of the owner of a name, or any other
\* signal a peer sends.
OwnerChanged(about) == [sender |-> Driver, about |-> about,
                        fields |-> [f \in Fields |-> "noc"]]
Broadcasts(p) == [sender : {Id(p)}, about : {NoAddress},
                  fields : [Fields -> {"a", "noc"}]]

\* The nodes of the trees by path, interface and member that are looked at:
\* in each the one of rules that do not care, and the one of the message.
Visited(m) == {f \in [Fields -> {"", "a", "noc"}] :
                 \A x \in Fields : f[x] \in {"", m.fields[x]}}

\* match_keys_match_metadata()
KeysMatch(k, m) ==
    /\ k.noc # NoAddress => k.noc = m.about
    /\ k.sender.kind = "id" => k.sender = m.sender
    /\ \A x \in Fields : k.fields[x] \in {"", m.fields[x]}

\* match_registry_get_destinations(): owners of rules linked in one of the
\* registries, each once.
Lookup(who, registries, m) ==
    {p \in who : \E k \in AllKeys :
        /\ registry[p][k] \in registries
        /\ k.fields \in Visited(m)
        /\ KeysMatch(k, m)}

NamesOf(m) == {<<"sender", n>> : n \in {n \in WellKnown :
                 m.sender.kind = "id" /\ owner[n] = m.sender.of}}

\* bus_get_broadcast_destinations(), with the registry its callers pass.
Subscribers(m) ==
    Lookup(Ids \ monitors,
           {Wildcard} \cup NamesOf(m) \cup
           (IF m.sender = Driver THEN {DriverRegistry, <<"noc", m.about.of>>}
            ELSE {<<"sender", m.sender.of>>}),
           m)

\* bus_get_monitor_destinations()
Monitors(m) ==
    IF n_monitors = 0 THEN {}
    ELSE Lookup(monitors,
                {Wildcard} \cup NamesOf(m) \cup
                (IF m.sender = Driver THEN {DriverRegistry}
                 ELSE {<<"sender", m.sender.of>>}),
                m)

-----------------------------------------------------------------------------
(* Linking *)

\* peer_registry_find_peer() finds registered peers only.  A peer that is to
\* come is left to a registry all messages are looked up in; one that is gone
\* to none.
Found(p, kind, fallback, peers) ==
    CASE p \in peers -> <<kind, p>>
      [] p \notin peers /\ p >= ids -> fallback
      [] OTHER -> NoRegistry

\* peer_link_match(): the registry for a rule; NoRegistry if it is not linked.
RegistryOf(k, peers) ==
    CASE k.sender.kind = "none" -> Wildcard
      [] k.sender.kind = "driver" ->
            CASE k.noc.kind \in {"none", "driver"} -> DriverRegistry
              [] k.noc.kind = "id" -> Found(k.noc.of, "noc", DriverRegistry, peers)
              [] OTHER -> <<"noc", k.noc.of>>
      [] k.sender.kind = "id" -> Found(k.sender.of, "sender", Wildcard, peers)
      [] OTHER -> <<"sender", k.sender.of>>

\* The name a rule is linked on, or nobody.
PinnedBy(k) ==
    CASE k.sender.kind \in {"name", "other"} -> k.sender.of
      [] k.sender.kind = "driver" /\ k.noc.kind \in {"name", "other"} -> k.noc.of
      [] OTHER -> Nobody

\* peer_match_rule_to_name(): the name whose reference is given back; by the
\* first character, so that only well-known names count.
UnpinnedBy(k) == IF PinnedBy(k) \in WellKnown THEN PinnedBy(k) ELSE Nobody

\* match_rule_unlink() for a set of rules <<p, k>>: the ones that count.
UnlinkedFrom(rules) ==
    {r \in rules : registry[r[1]][r[2]] # NoRegistry /\ r[1] \notin monitors}

UnlinkRules(rules) ==
    /\ registry' = [p \in Ids |-> [k \in AllKeys |->
                      IF <<p, k>> \in rules THEN NoRegistry ELSE registry[p][k]]]
    /\ n_subscriptions' = n_subscriptions - Cardinality(UnlinkedFrom(rules))
    /\ n_owner_subscriptions' = [p \in Ids |-> n_owner_subscriptions[p]
          - Cardinality({r \in UnlinkedFrom(rules) : r[1] = p})]

\* Every successful link takes a reference on the name.
Pin(k) ==
    pins' = [n \in WellKnown \cup Others |->
               IF n = PinnedBy(k) THEN pins[n] + 1 ELSE pins[n]]

\* The references that go with dropped of the references on the rules of a
\* peer: given back, or left behind.
Unpin(dropped) ==
    /\ pins' = [n \in WellKnown \cup Others |->
          pins[n] - SumOf(dropped, {k \in AllKeys : UnpinnedBy(k) = n})]
    /\ leaked' = [n \in WellKnown \cup Others |->
          leaked[n] + SumOf(dropped, {k \in AllKeys :
                                        PinnedBy(k) = n /\ UnpinnedBy(k) # n})]

TotalRefs == SumOf([p \in Ids |-> SumOf(n_user_refs[p], AllKeys)], Ids)

\* The peer a rule is linked on, if it is there.
Target(k) ==
    CASE k.sender.kind = "id" -> k.sender.of
      [] k.sender.kind = "driver" /\ k.noc.kind = "id" -> k.noc.of
      [] OTHER -> Nobody

\* The rule names a peer that is connected and has still to say Hello: its id
\* is below PeerRegistry.ids, so that it passes for one that is gone.
TooEarly(k) == Target(k) \in connected \ greeted

\* A rule on the owner of a name, which is looked up for subscribers only.
OnOwner(place) == place \in {"noc"} \X Targets

Idle == departing = Nobody /\ ~aborted

\* driver_method_add_match(): match_owner_ref_rule() finds or creates the
\* rule; match_rule_link() links it unless it is linked, and then asserts
\* that it would link it in the same registry.
AddMatch(p, k) ==
    LET place == RegistryOf(k, registered)
        here == registry[p][k]
    IN
    /\ Idle
    /\ p \in registered
    /\ n_user_refs[p][k] < MaxRefs
    /\ TotalRefs < MaxTotal
    /\ PinnedBy(k) # Nobody => pins[PinnedBy(k)] < MaxPins
    /\ n_user_refs' = [n_user_refs EXCEPT ![p][k] = @ + 1]
    /\ aborted' = (place # NoRegistry /\ here # NoRegistry /\ place # here)
    /\ Pin(k)
    /\ IF here = NoRegistry /\ place # NoRegistry
       THEN /\ registry' = [registry EXCEPT ![p][k] = place]
            /\ n_subscriptions' = n_subscriptions + 1
            /\ n_owner_subscriptions' = [n_owner_subscriptions EXCEPT ![p] = @ + 1]
            /\ unheard' = unheard \ {<<p, k>>}
       ELSE /\ unheard' = IF here = NoRegistry /\ TooEarly(k)
                          THEN unheard \cup {<<p, k>>} ELSE unheard
            /\ UNCHANGED <<registry, n_subscriptions, n_owner_subscriptions>>
    /\ UNCHANGED <<peerVars, owner, leaked>>

\* match_rule_user_unref() frees the rule with its last reference.
LastRef(p, k) == n_user_refs[p][k] = 1

\* driver_method_remove_match(); a rule that is not there is an error.
RemoveMatch(p, k) ==
    /\ Idle
    /\ p \in registered
    /\ n_user_refs[p][k] > 0
    /\ n_user_refs' = [n_user_refs EXCEPT ![p][k] = @ - 1]
    /\ Unpin([x \in AllKeys |-> IF x = k THEN 1 ELSE 0])
    /\ IF LastRef(p, k) THEN UnlinkRules({<<p, k>>}) /\ unheard' = unheard \ {<<p, k>>}
       ELSE UNCHANGED <<registry, n_subscriptions, n_owner_subscriptions, unheard>>
    /\ UNCHANGED <<peerVars, owner, aborted>>

-----------------------------------------------------------------------------
(* Peers *)

\* peer_new_with_fd()
Connect ==
    /\ Idle
    /\ ids < MaxPeers
    /\ ids' = ids + 1
    /\ connected' = connected \cup {ids}
    /\ UNCHANGED <<registered, monitors, greeted, n_monitors, departing, owner,
                   ruleVars>>

\* driver_method_hello()
DriverHello(p) ==
    /\ Idle
    /\ p \in connected \ greeted
    /\ registered' = registered \cup {p}
    /\ greeted' = greeted \cup {p}
    /\ UNCHANGED <<ids, connected, monitors, n_monitors, departing, owner, ruleVars>>

\* A name gets another primary owner, or none (see NameRegistry).
OwnerChanges(n, p) ==
    /\ Idle
    /\ p \in registered \cup {Nobody}
    /\ p # owner[n]
    /\ owner' = [owner EXCEPT ![n] = p]
    /\ UNCHANGED <<peerVars, ruleVars>>

\* The rules of p, and the ones of others linked on p.
RulesOf(p) == {p} \X AllKeys
LinkedOn(kind, p) ==
    {r \in Ids \X AllKeys : registry[r[1]][r[2]] = <<kind, p>>}

\* Faulty variant: everybody who wants to know of p is forgotten at once.
GoneFirstAll(p) == RulesOf(p) \cup LinkedOn("sender", p) \cup LinkedOn("noc", p)

\* What driver_goodbye() unlinks before it tells anybody.
GoneFirst(p) == RulesOf(p) \cup LinkedOn("sender", p)

\* driver_goodbye(): peer_flush_matches() drops every reference on the rules
\* of the peer, and match_registry_flush() what is linked on it as a sender.
DriverGoodbye(p) ==
    /\ Idle
    /\ p \in connected
    /\ departing' = p
    /\ n_user_refs' = [n_user_refs EXCEPT ![p] = [k \in AllKeys |-> 0]]
    /\ Unpin(n_user_refs[p])
    /\ UnlinkRules(GoneFirst(p))
    /\ unheard' = unheard \ RulesOf(p)
    /\ UNCHANGED <<ids, connected, registered, monitors, greeted, n_monitors,
                   owner, aborted>>

\* The names of the peer go to the next in line, or to nobody.
GoodbyeName(n, p) ==
    /\ departing # Nobody /\ departing \in registered
    /\ owner[n] = departing
    /\ p \in (registered \ {departing}) \cup {Nobody}
    /\ owner' = [owner EXCEPT ![n] = p]
    /\ UNCHANGED <<peerVars, ruleVars>>

\* Faulty variant: what is linked on the peer for changes of its owner stays.
GoneLastNot(p) == {}

\* What driver_goodbye() unlinks once everybody knows.
GoneLast(p) == LinkedOn("noc", p)

\* The end of driver_goodbye(): peer_unregister() or peer_stop_monitor(), and
\* match_registry_flush().
Goodbye ==
    /\ departing # Nobody
    /\ \A n \in WellKnown : owner[n] # departing
    /\ registered' = registered \ {departing}
    /\ UnlinkRules(GoneLast(departing))
    /\ departing' = Nobody

\* The connection is over: peer_free().
DriverGoodbyeEnd ==
    /\ Goodbye
    /\ connected' = connected \ {departing}
    /\ monitors' = monitors \ {departing}
    /\ n_monitors' = IF departing \in monitors THEN n_monitors - 1 ELSE n_monitors
    /\ UNCHANGED <<ids, greeted, owner, n_user_refs, pins, leaked, unheard, aborted>>

\* driver_method_become_monitor(): the peer leaves the bus and links its rules
\* in the trees of monitors, once for each time it gave them.
BecomeMonitor(keys, refs) ==
    LET p == departing
        Placed(k) == RegistryOf(k, registered \ {p})
    IN
    /\ departing # Nobody /\ departing \in registered
    /\ keys # {}
    /\ \A n \in WellKnown : owner[n] # p
    /\ \A k \in keys : PinnedBy(k) # Nobody =>
          pins[PinnedBy(k)] + refs * Cardinality(keys) <= MaxPins
    /\ registered' = registered \ {p}
    /\ registry' = [q \in Ids |-> [k \in AllKeys |->
          IF q = p /\ k \in keys THEN Placed(k)
          ELSE IF <<q, k>> \in GoneLast(p) THEN NoRegistry ELSE registry[q][k]]]
    /\ n_subscriptions' =
          n_subscriptions - Cardinality(UnlinkedFrom(GoneLast(p)))
    /\ n_owner_subscriptions' = [q \in Ids |-> n_owner_subscriptions[q]
          - Cardinality({r \in UnlinkedFrom(GoneLast(p)) : r[1] = q})]
    /\ n_user_refs' = [n_user_refs EXCEPT ![p] =
          [k \in AllKeys |-> IF k \in keys THEN refs ELSE 0]]
    /\ pins' = [n \in WellKnown \cup Others |->
          pins[n] + refs * Cardinality({k \in keys : PinnedBy(k) = n})]
    /\ unheard' = unheard \cup {<<p, k>> : k \in {k \in keys :
          (Placed(k) = NoRegistry /\ TooEarly(k)) \/ OnOwner(Placed(k))}}
    /\ monitors' = monitors \cup {p}
    /\ n_monitors' = n_monitors + 1
    /\ departing' = Nobody
    /\ UNCHANGED <<ids, connected, greeted, owner, leaked, aborted>>

-----------------------------------------------------------------------------
Init ==
    /\ ids = 0
    /\ connected = {} /\ registered = {} /\ monitors = {} /\ greeted = {}
    /\ owner = [n \in WellKnown |-> Nobody]
    /\ n_user_refs = [p \in Ids |-> [k \in AllKeys |-> 0]]
    /\ registry = [p \in Ids |-> [k \in AllKeys |-> NoRegistry]]
    /\ n_subscriptions = 0
    /\ n_owner_subscriptions = [p \in Ids |-> 0]
    /\ n_monitors = 0
    /\ pins = [n \in WellKnown \cup Others |-> 0]
    /\ leaked = [n \in WellKnown \cup Others |-> 0]
    /\ unheard = {}
    /\ departing = Nobody
    /\ aborted = FALSE

Next ==
    \/ Connect
    \/ \E p \in Ids : DriverHello(p) \/ DriverGoodbye(p)
    \/ \E p \in Ids, k \in Keys : AddMatch(p, k) \/ RemoveMatch(p, k)
    \/ \E n \in WellKnown, p \in Ids \cup {Nobody} :
          OwnerChanges(n, p) \/ GoodbyeName(n, p)
    \/ DriverGoodbyeEnd
    \/ \E keys \in SUBSET MonitorKeys, refs \in 1 .. MaxRefs :
          BecomeMonitor(keys, refs)

Spec == Init /\ [][Next]_vars

-----------------------------------------------------------------------------
\* Types, and the relation of the sets of peers.
MTypeOK ==
    /\ ids \in 0 .. MaxPeers
    /\ connected \subseteq 0 .. ids - 1
    /\ registered \subseteq connected \cap greeted
    /\ monitors \subseteq connected \ registered
    /\ owner \in [WellKnown -> registered \cup {Nobody}]
    /\ n_user_refs \in [Ids -> [AllKeys -> 0 .. MaxRefs]]
    /\ registry \in [Ids -> [AllKeys -> Registries]]
    /\ n_subscriptions \in Nat
    /\ n_owner_subscriptions \in [Ids -> Nat]
    /\ n_monitors \in Nat
    /\ pins \in [WellKnown \cup Others -> Nat]
    /\ leaked \in [WellKnown \cup Others -> Nat]
    /\ unheard \subseteq Ids \X AllKeys
    /\ departing \in connected \cup {Nobody}
    /\ aborted \in BOOLEAN

\* What a rule asks for, whatever registry it is in.
Wants(k, m) ==
    /\ \/ k.sender = NoAddress
       \/ k.sender = m.sender
       \/ k.sender.kind = "name" /\ Id(owner[k.sender.of]) = m.sender
    /\ k.noc \in {NoAddress, m.about}
    /\ \A x \in Fields : k.fields[x] \in {"", m.fields[x]}

\* The messages that may be sent at this moment; during a goodbye the driver
\* still tells of the peer and its names, but the peer sends nothing.
Sendable ==
    {OwnerChanged(Id(p)) : p \in registered}
    \cup {OwnerChanged([kind |-> "name", of |-> n]) : n \in WellKnown}
    \cup UNION {Broadcasts(p) : p \in registered \ {departing}}

\* Who asked for m with a rule that was put where it is looked for.
Asked(who, m) ==
    {p \in who : \E k \in AllKeys :
        n_user_refs[p][k] > 0 /\ <<p, k>> \notin unheard /\ Wants(k, m)}

\* Whatever is sent reaches exactly the peers that asked for it: the few
\* registries bus_get_broadcast_destinations() and
\* bus_get_monitor_destinations() look into hold every rule that applies,
\* whoever came and went since it was linked.  Two kinds of rules never bring
\* anything, and nothing else does: one given between the connect and the Hello
\* of the peer it names, unless it is given again, and one of a monitor on the
\* owner of a name that is linked there.
DeliveredExactly ==
    ~aborted => \A m \in Sendable :
        /\ Subscribers(m) = Asked(Ids \ monitors, m)
        /\ Monitors(m) = Asked(monitors, m)

\* peer_link_match() does not link a rule about a peer that is gone, "since it
\* can never have an effect" (src/bus/peer.c:596): no rule that is not linked
\* wants a message.
UnlinkedIsVoid ==
    ~aborted => \A m \in Sendable, p \in Ids, k \in AllKeys :
        n_user_refs[p][k] > 0 /\ registry[p][k] = NoRegistry => ~Wants(k, m)

\* No rule without a reference is linked, and none is linked on a peer that
\* is not on the bus: peer_free() asserts that its registries are empty.
NoDanglingRules ==
    \A p \in Ids, k \in AllKeys : registry[p][k] # NoRegistry =>
        /\ n_user_refs[p][k] > 0
        /\ \A q \in Ids : registry[p][k] \in {<<"sender", q>>, <<"noc", q>>} =>
              q \in registered

\* The linked rules of peers that are no monitors.
Subscriptions == UnlinkedFrom(Ids \X AllKeys)

\* The counters count them, for each peer and on the whole.
SubscriptionsCounted ==
    /\ n_subscriptions = Cardinality(Subscriptions)
    /\ \A p \in Ids : n_owner_subscriptions[p] =
           Cardinality({r \in Subscriptions : r[1] = p})

\* A name is pinned once for every reference on a rule that is linked on it,
\* so that it outlives its rules and is released with the last of them
\* (name_registry_deinit() asserts that none is left).  An address that begins
\* with a colon and is no unique name stays pinned by the rules that are gone,
\* once for each reference they had.
PinsExact ==
    /\ \A n \in WellKnown \cup Others : pins[n] = leaked[n] +
          SumOf([p \in Ids |-> SumOf(n_user_refs[p],
                                     {k \in AllKeys : PinnedBy(k) = n})], Ids)
    /\ \A n \in WellKnown : leaked[n] = 0

\* What the rules leave in other objects is what the rules still linked need:
\* links, counts and pins agree with the references that were taken, so that
\* peer_free() and name_registry_deinit() find nothing left behind.
RulesSound ==
    /\ MTypeOK
    /\ NoDanglingRules
    /\ SubscriptionsCounted
    /\ PinsExact

\* match_rule_link() never finds the rule linked elsewhere.
LinksAgree == ~aborted
=============================================================================
