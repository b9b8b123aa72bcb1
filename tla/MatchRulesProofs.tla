-------------------------- MODULE MatchRulesProofs --------------------------
(***************************************************************************)
(* Proofs about MatchRules, for any number of peers, names, rules and      *)
(* references on them.                                                     *)
(*                                                                         *)
(* LinkInv says where rules may be linked and what a peer that leaves has  *)
(* left; with it the counters and the pins are exact, as sums over what is *)
(* linked.  For the delivery, InPlace says for every kind of rule where it *)
(* is, whatever happened since peer_link_match() put it there.             *)
(***************************************************************************)
EXTENDS MatchRules, CollectionLemmas

-----------------------------------------------------------------------------
(* The invariants *)

\* Which sets of peers are part of which.
PeersOK ==
    /\ ids \in 0 .. MaxPeers
    /\ connected \subseteq 0 .. ids - 1
    /\ greeted \subseteq 0 .. ids - 1
    /\ registered \subseteq connected \cap greeted
    /\ monitors \subseteq (connected \cap greeted) \ registered
    /\ owner \in [WellKnown -> registered \cup {Nobody}]
    /\ departing \in connected \cup {Nobody}
    /\ aborted \in BOOLEAN
    /\ n_monitors = Cardinality(monitors)

RulesOK ==
    /\ n_user_refs \in [Ids -> [AllKeys -> 0 .. MaxRefs]]
    /\ registry \in [Ids -> [AllKeys -> Registries]]

\* driver_goodbye() has dropped the rules of the peer that leaves, and the ones
\* linked on it as a sender.
LeavingClean ==
    departing # Nobody =>
        \A k \in AllKeys :
            /\ n_user_refs[departing][k] = 0
            /\ \A p \in Ids : registry[p][k] # <<"sender", departing>>

LinkInv == PeersOK /\ RulesOK /\ NoDanglingRules /\ LeavingClean

CountInv ==
    /\ n_subscriptions \in Nat
    /\ n_owner_subscriptions \in [Ids -> Nat]
    /\ SubscriptionsCounted

PinInv ==
    /\ pins \in [WellKnown \cup Others -> Nat]
    /\ leaked \in [WellKnown \cup Others -> Nat]
    /\ PinsExact

\* The peers that have come and gone, or are here and said Hello: none of them
\* will come to the bus any more.
Past == (0 .. ids - 1) \ (connected \ greeted)

\* Where a rule with a reference is linked, if at all: one about a peer that is
\* not linked is about a peer that came and went.
Located(k, here, came, senders, there) ==
    /\ k.sender.kind = "none" => here = Wildcard
    /\ k.sender.kind \in {"name", "other"} => here = <<"sender", k.sender.of>>
    /\ k.sender.kind = "id" =>
          /\ here \in {<<"sender", k.sender.of>>, Wildcard, NoRegistry}
          /\ here = NoRegistry => k.sender.of \in came \ senders
    /\ k.sender.kind = "driver" =>
          /\ k.noc.kind \in {"none", "driver"} => here = DriverRegistry
          /\ k.noc.kind \in {"name", "other"} => here = <<"noc", k.noc.of>>
          /\ k.noc.kind = "id" =>
                /\ here \in {<<"noc", k.noc.of>>, DriverRegistry, NoRegistry}
                /\ here = NoRegistry => k.noc.of \in came \ there

InPlace(p, k) ==
    Located(k, registry[p][k], Past, registered \ {departing}, registered)

\* A rule is in its place, where it is looked for, or it is one of those that
\* are never found: not linked, or linked on an owner by a monitor.
Placed(p, k) ==
    /\ <<p, k>> \notin unheard =>
          InPlace(p, k) /\ (p \in monitors => ~OnOwner(registry[p][k]))
    /\ <<p, k>> \in unheard =>
          \/ registry[p][k] = NoRegistry
          \/ p \in monitors /\ OnOwner(registry[p][k])

PlaceInv ==
    /\ \A p \in Ids, k \in AllKeys : n_user_refs[p][k] > 0 => Placed(p, k)
    /\ departing # Nobody => \A k \in AllKeys : <<departing, k>> \notin unheard

-----------------------------------------------------------------------------
(* Addresses and places *)

\* What address_from_string() returns has one of these forms.
LEMMA Addresses ==
    ASSUME NEW a \in Address
    PROVE  /\ a = [kind |-> a.kind, of |-> a.of]
           /\ \/ a.kind \in {"none", "driver"} /\ a.of = Nobody
              \/ a.kind = "id" /\ a.of \in Ids
              \/ a.kind = "name" /\ a.of \in WellKnown
              \/ a.kind = "other" /\ a.of \in Others
  BY DEF Address

\* The parts of a rule.
LEMMA Rules ==
    ASSUME NEW k \in AllKeys
    PROVE  /\ k.sender \in Address /\ k.noc \in Address
           /\ k.fields \in [Fields -> {"", "a", "noc"}]
  BY MatchAssumption DEF AllKeys, Rule

\* peer_link_match() links a rule on a peer only if the peer is there.
LEMMA PlaceSound ==
    ASSUME NEW k \in AllKeys, NEW peers \in SUBSET Ids
    PROVE  /\ RegistryOf(k, peers) \in Registries
           /\ \A q \in Ids : RegistryOf(k, peers) \in {<<"sender", q>>, <<"noc", q>>} => q \in peers
<1> DEFINE s == k.sender
           c == k.noc
<1>1. /\ \/ s.kind \in {"none", "driver"} /\ s.of = Nobody
         \/ s.kind = "id" /\ s.of \in Ids
         \/ s.kind = "name" /\ s.of \in WellKnown
         \/ s.kind = "other" /\ s.of \in Others
      /\ \/ c.kind \in {"none", "driver"} /\ c.of = Nobody
         \/ c.kind = "id" /\ c.of \in Ids
         \/ c.kind = "name" /\ c.of \in WellKnown
         \/ c.kind = "other" /\ c.of \in Others
  BY Rules, Addresses
<1>2. Ids \cap (WellKnown \cup Others) = {}
  BY MatchAssumption
<1>3. RegistryOf(k, peers) =
        CASE s.kind = "none" -> Wildcard
          [] s.kind = "driver" ->
                CASE c.kind \in {"none", "driver"} -> DriverRegistry
                  [] c.kind = "id" -> Found(c.of, "noc", DriverRegistry, peers)
                  [] OTHER -> <<"noc", c.of>>
          [] s.kind = "id" -> Found(s.of, "sender", Wildcard, peers)
          [] OTHER -> <<"sender", s.of>>
  BY DEF RegistryOf
<1> HIDE DEF s, c
<1>4. ASSUME NEW q \in Ids, NEW kind \in {"sender", "noc"},
             NEW fallback \in {Wildcard, DriverRegistry}
      PROVE  LET f == Found(q, kind, fallback, peers)
             IN  \/ f = fallback
                 \/ f = NoRegistry
                 \/ f = <<kind, q>> /\ q \in peers
  BY DEF Found
<1>5. \/ RegistryOf(k, peers) \in {Wildcard, DriverRegistry, NoRegistry}
      \/ \E x \in {"sender", "noc"}, t \in WellKnown \cup Others : RegistryOf(k, peers) = <<x, t>>
      \/ \E x \in {"sender", "noc"}, t \in peers : RegistryOf(k, peers) = <<x, t>>
  <2>1. CASE s.kind = "none"
    BY <2>1, <1>3
  <2>2. CASE s.kind = "driver"
    <3>1. CASE c.kind \in {"none", "driver"}
      BY <2>2, <3>1, <1>3
    <3>2. CASE c.kind = "id" /\ c.of \in Ids
      BY <2>2, <3>2, <1>3, <1>4
    <3>3. CASE c.kind \in {"name", "other"} /\ c.of \in WellKnown \cup Others
      BY <2>2, <3>3, <1>3
    <3> QED BY <3>1, <3>2, <3>3, <1>1
  <2>3. CASE s.kind = "id" /\ s.of \in Ids
    BY <2>3, <1>3, <1>4
  <2>4. CASE s.kind \in {"name", "other"} /\ s.of \in WellKnown \cup Others
    BY <2>4, <1>3
  <2> QED BY <2>1, <2>2, <2>3, <2>4, <1>1
<1>6. CASE RegistryOf(k, peers) \in {Wildcard, DriverRegistry, NoRegistry}
  BY <1>6 DEF Wildcard, DriverRegistry, NoRegistry, Registries
<1>7. ASSUME NEW x \in {"sender", "noc"}, NEW t \in WellKnown \cup Others,
             RegistryOf(k, peers) = <<x, t>>
      PROVE  /\ RegistryOf(k, peers) \in Registries
             /\ \A q \in Ids : RegistryOf(k, peers) \notin {<<"sender", q>>, <<"noc", q>>}
  BY <1>2, <1>7 DEF Registries, Targets
<1>8. ASSUME NEW x \in {"sender", "noc"}, NEW t \in peers, RegistryOf(k, peers) = <<x, t>>
      PROVE  /\ RegistryOf(k, peers) \in Registries
             /\ \A q \in Ids : RegistryOf(k, peers) \in {<<"sender", q>>, <<"noc", q>>} => q \in peers
  BY <1>8 DEF Registries, Targets
<1> QED BY <1>5, <1>6, <1>7, <1>8

-----------------------------------------------------------------------------
(* Peers *)

\* Facts about the sets of peers that every step needs.
LEMMA PeerFacts ==
    ASSUME PeersOK
    PROVE  /\ ids \in Nat
           /\ connected \subseteq Ids /\ registered \subseteq Ids /\ monitors \subseteq Ids
           /\ greeted \subseteq Ids
           /\ IsFiniteSet(monitors)
           /\ departing # Nobody => departing \in Ids
           /\ Nobody \notin Ids
           /\ IsFiniteSet(Ids)
<1>1. ids \in Nat /\ MaxPeers \in Nat /\ ids <= MaxPeers
  BY MatchAssumption DEF PeersOK
<1>2. 0 .. ids - 1 \subseteq Ids /\ Nobody \notin Ids
  BY <1>1, MatchAssumption DEF Ids, Targets
<1>3. IsFiniteSet(Ids)
  BY <1>1, FS_Interval DEF Ids
<1>4. /\ connected \subseteq Ids /\ registered \subseteq Ids /\ monitors \subseteq Ids
      /\ greeted \subseteq Ids /\ (departing # Nobody => departing \in Ids)
  BY <1>2 DEF PeersOK
<1>5. IsFiniteSet(monitors)
  BY <1>3, <1>4, FS_Subset
<1> QED BY <1>1, <1>2, <1>3, <1>4, <1>5

\* The sets of peers stay what they are to each other: peers are greeted once,
\* and only a peer that left the bus is a monitor.
LEMMA PeersStep ==
    ASSUME PeersOK, [Next]_vars
    PROVE  PeersOK'
<1> USE PeerFacts
<1>1. CASE Connect
  <2>1. /\ ids' = ids + 1 /\ ids < MaxPeers
        /\ connected' = connected \cup {ids}
        /\ UNCHANGED <<registered, monitors, greeted, n_monitors, departing, owner, aborted>>
    BY <1>1 DEF Connect, ruleVars
  <2>2. ids' \in 0 .. MaxPeers
    BY <2>1, MatchAssumption DEF PeersOK
  <2>3. connected' \subseteq 0 .. ids' - 1 /\ greeted' \subseteq 0 .. ids' - 1
    BY <2>1 DEF PeersOK
  <2> QED BY <2>1, <2>2, <2>3 DEF PeersOK
<1>2. ASSUME NEW p \in Ids, DriverHello(p) PROVE PeersOK'
  <2>1. /\ p \in connected /\ p \notin greeted
        /\ registered' = registered \cup {p} /\ greeted' = greeted \cup {p}
        /\ UNCHANGED <<ids, connected, monitors, n_monitors, departing, owner, aborted>>
    BY <1>2 DEF DriverHello, ruleVars
  <2>2. owner' \in [WellKnown -> registered' \cup {Nobody}]
    BY <2>1 DEF PeersOK
  <2> QED BY <2>1, <2>2 DEF PeersOK
<1>3. ASSUME NEW p \in Ids, DriverGoodbye(p) PROVE PeersOK'
  BY <1>3 DEF DriverGoodbye, PeersOK
<1>4. ASSUME NEW p \in Ids, NEW k \in Keys, AddMatch(p, k) PROVE PeersOK'
  <2>1. aborted' \in BOOLEAN /\ UNCHANGED <<peerVars, owner>>
    BY <1>4 DEF AddMatch
  <2> QED BY <2>1 DEF peerVars, PeersOK
<1>5. ASSUME NEW p \in Ids, NEW k \in Keys, RemoveMatch(p, k) PROVE PeersOK'
  BY <1>5 DEF RemoveMatch, peerVars, PeersOK
<1>6. ASSUME NEW n \in WellKnown, NEW p \in Ids \cup {Nobody},
             OwnerChanges(n, p) \/ GoodbyeName(n, p)
      PROVE  PeersOK'
  <2>1. /\ UNCHANGED <<peerVars, aborted>>
        /\ owner' = [owner EXCEPT ![n] = p] /\ p \in registered \cup {Nobody}
    BY <1>6 DEF OwnerChanges, GoodbyeName, ruleVars
  <2> QED BY <2>1 DEF peerVars, PeersOK
<1>7. CASE DriverGoodbyeEnd
  <2>1. /\ departing # Nobody /\ departing' = Nobody
        /\ registered' = registered \ {departing}
        /\ connected' = connected \ {departing}
        /\ monitors' = monitors \ {departing}
        /\ n_monitors' = IF departing \in monitors THEN n_monitors - 1 ELSE n_monitors
        /\ \A n \in WellKnown : owner[n] # departing
        /\ UNCHANGED <<ids, greeted, owner, aborted>>
    BY <1>7 DEF DriverGoodbyeEnd, Goodbye
  <2>2. n_monitors' = Cardinality(monitors')
    BY <2>1, FS_RemoveElement DEF PeersOK
  <2>3. owner' \in [WellKnown -> registered' \cup {Nobody}]
    BY <2>1 DEF PeersOK
  <2> QED BY <2>1, <2>2, <2>3 DEF PeersOK
<1>8. ASSUME NEW keys \in SUBSET MonitorKeys, NEW refs \in 1 .. MaxRefs,
             BecomeMonitor(keys, refs)
      PROVE  PeersOK'
  <2>1. /\ departing # Nobody /\ departing' = Nobody
        /\ departing \in registered
        /\ registered' = registered \ {departing}
        /\ monitors' = monitors \cup {departing}
        /\ n_monitors' = n_monitors + 1
        /\ \A n \in WellKnown : owner[n] # departing
        /\ UNCHANGED <<ids, connected, greeted, owner, aborted>>
    BY <1>8 DEF BecomeMonitor
  <2>2. departing \notin monitors
    BY <2>1 DEF PeersOK
  <2>3. n_monitors' = Cardinality(monitors')
    BY <2>1, <2>2, FS_AddElement DEF PeersOK
  <2>4. owner' \in [WellKnown -> registered' \cup {Nobody}]
    BY <2>1 DEF PeersOK
  <2> QED BY <2>1, <2>3, <2>4 DEF PeersOK
<1>9. CASE UNCHANGED vars
  BY <1>9 DEF vars, peerVars, ruleVars, PeersOK
<1> QED BY <1>1, <1>2, <1>3, <1>4, <1>5, <1>6, <1>7, <1>8, <1>9 DEF Next

-----------------------------------------------------------------------------
(* Links *)

\* What the steps do to the rules, one rule at a time.
LEMMA AddMatchRules ==
    ASSUME RulesOK, NEW p \in Ids, NEW k \in AllKeys, AddMatch(p, k)
    PROVE  /\ n_user_refs' \in [Ids -> [AllKeys -> 0 .. MaxRefs]]
           /\ \A q \in Ids, j \in AllKeys :
                 n_user_refs'[q][j] = IF q = p /\ j = k THEN n_user_refs[p][k] + 1
                                      ELSE n_user_refs[q][j]
           /\ registry' = [q \in Ids |-> [j \in AllKeys |-> registry'[q][j]]]
           /\ \A q \in Ids, j \in AllKeys :
                 registry'[q][j] = IF q = p /\ j = k /\ registry[p][k] = NoRegistry
                                   THEN RegistryOf(k, registered)
                                   ELSE registry[q][j]
<1>1. n_user_refs' = [n_user_refs EXCEPT ![p][k] = n_user_refs[p][k] + 1]
  BY DEF AddMatch
<1>2. \A q \in Ids, j \in AllKeys :
         n_user_refs'[q][j] = IF q = p /\ j = k THEN n_user_refs[p][k] + 1
                              ELSE n_user_refs[q][j]
  BY <1>1 DEF RulesOK
<1>3. n_user_refs[p][k] + 1 \in 0 .. MaxRefs
  <2>1. n_user_refs[p][k] \in Nat /\ n_user_refs[p] \in [AllKeys -> Nat]
    BY DEF RulesOK
  <2>2. MaxRefs \in Nat /\ n_user_refs[p][k] < MaxRefs
    BY MatchAssumption DEF AddMatch
  <2> QED BY <2>1, <2>2
<1>4. n_user_refs' \in [Ids -> [AllKeys -> 0 .. MaxRefs]]
  BY <1>1, <1>3 DEF RulesOK
<1>5. CASE registry[p][k] = NoRegistry /\ RegistryOf(k, registered) # NoRegistry
  <2>1. registry' = [registry EXCEPT ![p][k] = RegistryOf(k, registered)]
    BY <1>5 DEF AddMatch
  <2> QED BY <1>2, <1>4, <1>5, <2>1 DEF RulesOK
<1>6. CASE ~(registry[p][k] = NoRegistry /\ RegistryOf(k, registered) # NoRegistry)
  <2>1. registry' = registry
    BY <1>6 DEF AddMatch
  <2> QED BY <1>2, <1>4, <1>6, <2>1 DEF RulesOK
<1> QED BY <1>5, <1>6

\* Unlinking touches the rules it is for.
LEMMA UnlinkEffect ==
    ASSUME NEW rules, UnlinkRules(rules)
    PROVE  /\ registry' = [q \in Ids |-> [j \in AllKeys |-> registry'[q][j]]]
           /\ \A q \in Ids, j \in AllKeys :
                 registry'[q][j] = IF <<q, j>> \in rules THEN NoRegistry ELSE registry[q][j]
  BY DEF UnlinkRules

\* The last reference takes the link along.
LEMMA RemoveMatchRules ==
    ASSUME RulesOK, NEW p \in Ids, NEW k \in AllKeys, RemoveMatch(p, k)
    PROVE  /\ n_user_refs' \in [Ids -> [AllKeys -> 0 .. MaxRefs]]
           /\ \A q \in Ids, j \in AllKeys :
                 n_user_refs'[q][j] = IF q = p /\ j = k THEN n_user_refs[p][k] - 1
                                      ELSE n_user_refs[q][j]
           /\ registry' = [q \in Ids |-> [j \in AllKeys |-> registry'[q][j]]]
           /\ \A q \in Ids, j \in AllKeys :
                 registry'[q][j] = IF q = p /\ j = k /\ n_user_refs[p][k] = 1
                                   THEN NoRegistry ELSE registry[q][j]
<1>1. n_user_refs' = [n_user_refs EXCEPT ![p][k] = n_user_refs[p][k] - 1]
  BY DEF RemoveMatch
<1>2. n_user_refs[p][k] \in 0 .. MaxRefs /\ n_user_refs[p][k] > 0
  BY DEF RulesOK, RemoveMatch
<1>3. n_user_refs[p][k] - 1 \in 0 .. MaxRefs
  BY <1>2, MatchAssumption
<1>4. \A q \in Ids, j \in AllKeys :
         n_user_refs'[q][j] = IF q = p /\ j = k THEN n_user_refs[p][k] - 1
                              ELSE n_user_refs[q][j]
  BY <1>1 DEF RulesOK
<1>5. n_user_refs' \in [Ids -> [AllKeys -> 0 .. MaxRefs]]
  BY <1>1, <1>3 DEF RulesOK
<1>6. CASE n_user_refs[p][k] = 1
  <2>1. UnlinkRules({<<p, k>>})
    BY <1>6 DEF RemoveMatch, LastRef
  <2>2. \A q \in Ids, j \in AllKeys : <<q, j>> \in {<<p, k>>} <=> q = p /\ j = k
    OBVIOUS
  <2> DEFINE one == {<<p, k>>}
  <2>3. /\ registry' = [q \in Ids |-> [j \in AllKeys |-> registry'[q][j]]]
        /\ \A q \in Ids, j \in AllKeys :
              registry'[q][j] = IF <<q, j>> \in one THEN NoRegistry ELSE registry[q][j]
    <3> HIDE DEF one
    <3> QED BY <2>1, UnlinkEffect DEF one
  <2> QED BY <1>4, <1>5, <1>6, <2>2, <2>3
<1>7. CASE n_user_refs[p][k] # 1
  <2>1. registry' = registry
    BY <1>7 DEF RemoveMatch, LastRef
  <2> QED BY <1>4, <1>5, <1>7, <2>1 DEF RulesOK
<1> QED BY <1>6, <1>7

\* What driver_goodbye() does to the rules at first ...
LEMMA GoodbyeBeginRules ==
    ASSUME RulesOK, NEW p \in Ids, DriverGoodbye(p)
    PROVE  /\ n_user_refs' \in [Ids -> [AllKeys -> 0 .. MaxRefs]]
           /\ \A q \in Ids, j \in AllKeys :
                 n_user_refs'[q][j] = IF q = p THEN 0 ELSE n_user_refs[q][j]
           /\ registry' = [q \in Ids |-> [j \in AllKeys |-> registry'[q][j]]]
           /\ \A q \in Ids, j \in AllKeys :
                 registry'[q][j] = IF q = p \/ registry[q][j] = <<"sender", p>>
                                   THEN NoRegistry ELSE registry[q][j]
<1>1. n_user_refs' = [n_user_refs EXCEPT ![p] = [k \in AllKeys |-> 0]]
  BY DEF DriverGoodbye
<1>2. 0 \in 0 .. MaxRefs
  BY MatchAssumption
<1>3. UnlinkRules(GoneFirst(p))
  BY DEF DriverGoodbye
<1>4. \A q \in Ids, j \in AllKeys :
         <<q, j>> \in GoneFirst(p) <=> q = p \/ registry[q][j] = <<"sender", p>>
  BY DEF GoneFirst, RulesOf, LinkedOn
<1>5. \A q \in Ids, j \in AllKeys :
         n_user_refs'[q][j] = IF q = p THEN 0 ELSE n_user_refs[q][j]
  BY <1>1 DEF RulesOK
<1>6. n_user_refs' \in [Ids -> [AllKeys -> 0 .. MaxRefs]]
  BY <1>1, <1>2 DEF RulesOK
<1> QED BY <1>3, <1>4, <1>5, <1>6, UnlinkEffect

\* ... and in the end.
LEMMA GoodbyeEndRules ==
    ASSUME RulesOK, DriverGoodbyeEnd
    PROVE  /\ n_user_refs' = n_user_refs
           /\ registry' = [q \in Ids |-> [j \in AllKeys |-> registry'[q][j]]]
           /\ \A q \in Ids, j \in AllKeys :
                 registry'[q][j] = IF registry[q][j] = <<"noc", departing>>
                                   THEN NoRegistry ELSE registry[q][j]
<1>1. UnlinkRules(GoneLast(departing)) /\ n_user_refs' = n_user_refs
  BY DEF DriverGoodbyeEnd, Goodbye
<1>2. \A q \in Ids, j \in AllKeys :
         <<q, j>> \in GoneLast(departing) <=> registry[q][j] = <<"noc", departing>>
  BY DEF GoneLast, LinkedOn
<1> QED BY <1>1, <1>2, UnlinkEffect

\* A monitor has the rules it brought along, each linked once.
LEMMA BecomeMonitorRules ==
    ASSUME RulesOK, NEW keys \in SUBSET MonitorKeys, NEW refs \in 1 .. MaxRefs,
           departing \in Ids, BecomeMonitor(keys, refs)
    PROVE  /\ n_user_refs' \in [Ids -> [AllKeys -> 0 .. MaxRefs]]
           /\ \A q \in Ids, j \in AllKeys :
                 n_user_refs'[q][j] = IF q = departing THEN IF j \in keys THEN refs ELSE 0
                                      ELSE n_user_refs[q][j]
           /\ registry' = [q \in Ids |-> [j \in AllKeys |-> registry'[q][j]]]
           /\ \A q \in Ids, j \in AllKeys :
                 registry'[q][j] = IF q = departing /\ j \in keys
                                   THEN RegistryOf(j, registered \ {departing})
                                   ELSE IF registry[q][j] = <<"noc", departing>>
                                   THEN NoRegistry ELSE registry[q][j]
<1>1. n_user_refs' = [n_user_refs EXCEPT ![departing] =
                        [k \in AllKeys |-> IF k \in keys THEN refs ELSE 0]]
  BY DEF BecomeMonitor
<1>2. refs \in 0 .. MaxRefs /\ 0 \in 0 .. MaxRefs
  BY MatchAssumption
<1>3. \A q \in Ids, j \in AllKeys :
         n_user_refs'[q][j] = IF q = departing THEN IF j \in keys THEN refs ELSE 0
                              ELSE n_user_refs[q][j]
  BY <1>1 DEF RulesOK
<1>4. n_user_refs' \in [Ids -> [AllKeys -> 0 .. MaxRefs]]
  BY <1>1, <1>2 DEF RulesOK
<1>5. registry' = [q \in Ids |-> [k \in AllKeys |->
          IF q = departing /\ k \in keys THEN RegistryOf(k, registered \ {departing})
          ELSE IF <<q, k>> \in GoneLast(departing) THEN NoRegistry ELSE registry[q][k]]]
  BY DEF BecomeMonitor
<1>6. \A q \in Ids, j \in AllKeys :
         <<q, j>> \in GoneLast(departing) <=> registry[q][j] = <<"noc", departing>>
  BY DEF GoneLast, LinkedOn
<1>7. registry' = [q \in Ids |-> [j \in AllKeys |-> registry'[q][j]]]
  BY <1>5
<1>8. ASSUME NEW q \in Ids, NEW j \in AllKeys
      PROVE  registry'[q][j] = IF q = departing /\ j \in keys
                               THEN RegistryOf(j, registered \ {departing})
                               ELSE IF registry[q][j] = <<"noc", departing>>
                               THEN NoRegistry ELSE registry[q][j]
  <2>1. registry'[q][j] =
          IF q = departing /\ j \in keys THEN RegistryOf(j, registered \ {departing})
          ELSE IF <<q, j>> \in GoneLast(departing) THEN NoRegistry ELSE registry[q][j]
    BY <1>5
  <2> QED BY <2>1, <1>6
<1> QED BY <1>3, <1>4, <1>7, <1>8

\* A rule without a link wherever it may be.
LEMMA LinkKinds ==
    /\ NoRegistry \in Registries
    /\ \A q : NoRegistry \notin {<<"sender", q>>, <<"noc", q>>}
    /\ \A q : Wildcard \notin {<<"sender", q>>, <<"noc", q>>}
    /\ \A q : DriverRegistry \notin {<<"sender", q>>, <<"noc", q>>}
    /\ NoRegistry # Wildcard /\ NoRegistry # DriverRegistry /\ Wildcard # DriverRegistry
    /\ \A p, q : <<"sender", p>> # <<"noc", q>>
    /\ \A p, q : <<"sender", p>> = <<"sender", q>> => p = q
    /\ \A p, q : <<"noc", p>> = <<"noc", q>> => p = q
  BY DEF NoRegistry, Wildcard, DriverRegistry, Registries

\* A step that changes no rule and takes no peer off the bus.
LEMMA LinksKept ==
    ASSUME LinkInv, UNCHANGED <<n_user_refs, registry>>,
           registered \subseteq registered', departing' = departing
    PROVE  RulesOK' /\ NoDanglingRules' /\ LeavingClean'
<1>1. RulesOK'
  BY DEF LinkInv, RulesOK
<1>2. NoDanglingRules'
  BY DEF LinkInv, NoDanglingRules
<1>3. LeavingClean'
  BY DEF LinkInv, LeavingClean
<1> QED BY <1>1, <1>2, <1>3

\* AddMatch links a rule, if at all, where its peer is.
LEMMA AddMatchLinks ==
    ASSUME LinkInv, NEW p \in Ids, NEW k \in AllKeys, AddMatch(p, k)
    PROVE  RulesOK' /\ NoDanglingRules' /\ LeavingClean'
<1>1. RulesOK /\ NoDanglingRules /\ registered \in SUBSET Ids
  BY PeerFacts DEF LinkInv
<1>2. departing' = Nobody /\ registered' = registered
  BY DEF AddMatch, Idle, peerVars
<1>3. /\ n_user_refs' \in [Ids -> [AllKeys -> 0 .. MaxRefs]]
      /\ \A q \in Ids, j \in AllKeys :
            n_user_refs'[q][j] = IF q = p /\ j = k THEN n_user_refs[p][k] + 1
                                 ELSE n_user_refs[q][j]
      /\ registry' = [q \in Ids |-> [j \in AllKeys |-> registry'[q][j]]]
      /\ \A q \in Ids, j \in AllKeys :
            registry'[q][j] = IF q = p /\ j = k /\ registry[p][k] = NoRegistry
                              THEN RegistryOf(k, registered)
                              ELSE registry[q][j]
  BY <1>1, AddMatchRules
<1> DEFINE place == RegistryOf(k, registered)
<1>4. /\ place \in Registries
      /\ \A q \in Ids : place \in {<<"sender", q>>, <<"noc", q>>} => q \in registered
  BY <1>1, PlaceSound
<1> HIDE DEF place
<1>5. \A q \in Ids, j \in AllKeys : registry[q][j] \in Registries /\ n_user_refs[q][j] \in Nat
  BY <1>1 DEF RulesOK
<1>6. RulesOK'
  <2>1. \A q \in Ids, j \in AllKeys : registry'[q][j] \in Registries
    BY <1>3, <1>4, <1>5 DEF place
  <2> QED BY <1>3, <2>1 DEF RulesOK
<1>7. NoDanglingRules'
  <2> SUFFICES ASSUME NEW q \in Ids, NEW j \in AllKeys, registry'[q][j] # NoRegistry
               PROVE  /\ n_user_refs'[q][j] > 0
                      /\ \A t \in Ids : registry'[q][j] \in {<<"sender", t>>, <<"noc", t>>}
                                           => t \in registered
    BY <1>2 DEF NoDanglingRules
  <2>1. CASE q = p /\ j = k /\ registry[p][k] = NoRegistry
    <3>1. registry'[q][j] = place /\ n_user_refs'[q][j] = n_user_refs[p][k] + 1
      BY <2>1, <1>3 DEF place
    <3> QED BY <3>1, <1>4, <1>5
  <2>2. CASE ~(q = p /\ j = k /\ registry[p][k] = NoRegistry)
    <3>1. registry'[q][j] = registry[q][j]
      BY <2>2, <1>3
    <3>2. n_user_refs[q][j] > 0
          /\ \A t \in Ids : registry[q][j] \in {<<"sender", t>>, <<"noc", t>>} => t \in registered
      BY <3>1, <1>1 DEF NoDanglingRules
    <3>3. n_user_refs'[q][j] > 0
      BY <3>2, <1>3, <1>5
    <3> QED BY <3>1, <3>2, <3>3
  <2> QED BY <2>1, <2>2
<1>8. LeavingClean'
  BY <1>2 DEF LeavingClean
<1> QED BY <1>6, <1>7, <1>8

\* RemoveMatch unlinks a rule with its last reference.
LEMMA RemoveMatchLinks ==
    ASSUME LinkInv, NEW p \in Ids, NEW k \in AllKeys, RemoveMatch(p, k)
    PROVE  RulesOK' /\ NoDanglingRules' /\ LeavingClean'
<1>1. RulesOK /\ NoDanglingRules
  BY DEF LinkInv
<1>2. departing' = Nobody /\ registered' = registered /\ n_user_refs[p][k] > 0
  BY DEF RemoveMatch, Idle, peerVars
<1>3. /\ n_user_refs' \in [Ids -> [AllKeys -> 0 .. MaxRefs]]
      /\ \A q \in Ids, j \in AllKeys :
            n_user_refs'[q][j] = IF q = p /\ j = k THEN n_user_refs[p][k] - 1
                                 ELSE n_user_refs[q][j]
      /\ registry' = [q \in Ids |-> [j \in AllKeys |-> registry'[q][j]]]
      /\ \A q \in Ids, j \in AllKeys :
            registry'[q][j] = IF q = p /\ j = k /\ n_user_refs[p][k] = 1
                              THEN NoRegistry ELSE registry[q][j]
  BY <1>1, RemoveMatchRules
<1>4. \A q \in Ids, j \in AllKeys : registry[q][j] \in Registries /\ n_user_refs[q][j] \in Nat
  BY <1>1 DEF RulesOK
<1>5. RulesOK'
  <2>1. \A q \in Ids, j \in AllKeys : registry'[q][j] \in Registries
    BY <1>3, <1>4, LinkKinds
  <2> QED BY <1>3, <2>1 DEF RulesOK
<1>6. NoDanglingRules'
  <2> SUFFICES ASSUME NEW q \in Ids, NEW j \in AllKeys, registry'[q][j] # NoRegistry
               PROVE  /\ n_user_refs'[q][j] > 0
                      /\ \A t \in Ids : registry'[q][j] \in {<<"sender", t>>, <<"noc", t>>}
                                           => t \in registered
    BY <1>2 DEF NoDanglingRules
  <2>1. registry'[q][j] = registry[q][j]
    BY <1>3
  <2>2. n_user_refs[q][j] > 0
        /\ \A t \in Ids : registry[q][j] \in {<<"sender", t>>, <<"noc", t>>} => t \in registered
    BY <2>1, <1>1 DEF NoDanglingRules
  <2>3. n_user_refs'[q][j] > 0
    BY <2>1, <2>2, <1>2, <1>3, <1>4
  <2> QED BY <2>1, <2>2, <2>3
<1>7. LeavingClean'
  BY <1>2 DEF LeavingClean
<1> QED BY <1>5, <1>6, <1>7

\* A goodbye drops the rules of the peer and those linked on it as a sender.
LEMMA GoodbyeBeginLinks ==
    ASSUME LinkInv, NEW p \in Ids, DriverGoodbye(p)
    PROVE  RulesOK' /\ NoDanglingRules' /\ LeavingClean'
<1>1. RulesOK /\ NoDanglingRules
  BY DEF LinkInv
<1>2. departing' = p /\ registered' = registered
  BY DEF DriverGoodbye
<1>3. /\ n_user_refs' \in [Ids -> [AllKeys -> 0 .. MaxRefs]]
      /\ \A q \in Ids, j \in AllKeys :
            n_user_refs'[q][j] = IF q = p THEN 0 ELSE n_user_refs[q][j]
      /\ registry' = [q \in Ids |-> [j \in AllKeys |-> registry'[q][j]]]
      /\ \A q \in Ids, j \in AllKeys :
            registry'[q][j] = IF q = p \/ registry[q][j] = <<"sender", p>>
                              THEN NoRegistry ELSE registry[q][j]
  BY <1>1, GoodbyeBeginRules
<1>4. \A q \in Ids, j \in AllKeys : registry[q][j] \in Registries /\ n_user_refs[q][j] \in Nat
  BY <1>1 DEF RulesOK
<1>5. RulesOK'
  <2>1. \A q \in Ids, j \in AllKeys : registry'[q][j] \in Registries
    BY <1>3, <1>4, LinkKinds
  <2> QED BY <1>3, <2>1 DEF RulesOK
<1>6. NoDanglingRules'
  <2> SUFFICES ASSUME NEW q \in Ids, NEW j \in AllKeys, registry'[q][j] # NoRegistry
               PROVE  /\ n_user_refs'[q][j] > 0
                      /\ \A t \in Ids : registry'[q][j] \in {<<"sender", t>>, <<"noc", t>>}
                                           => t \in registered
    BY <1>2 DEF NoDanglingRules
  <2>1. registry'[q][j] = registry[q][j] /\ q # p
    BY <1>3
  <2>2. n_user_refs[q][j] > 0
        /\ \A t \in Ids : registry[q][j] \in {<<"sender", t>>, <<"noc", t>>} => t \in registered
    BY <2>1, <1>1 DEF NoDanglingRules
  <2> QED BY <2>1, <2>2, <1>3
<1>7. LeavingClean'
  <2> SUFFICES ASSUME NEW k \in AllKeys
               PROVE  /\ n_user_refs'[p][k] = 0
                      /\ \A q \in Ids : registry'[q][k] # <<"sender", p>>
    BY <1>2 DEF LeavingClean
  <2>1. NoRegistry # <<"sender", p>>
    BY LinkKinds
  <2> QED BY <2>1, <1>3
<1> QED BY <1>5, <1>6, <1>7

\* The end of a goodbye unlinks what is left on the peer, before it is off the bus.
LEMMA GoodbyeEndLinks ==
    ASSUME LinkInv, DriverGoodbyeEnd
    PROVE  RulesOK' /\ NoDanglingRules' /\ LeavingClean'
<1>1. RulesOK /\ NoDanglingRules /\ LeavingClean
  BY DEF LinkInv
<1>2. departing # Nobody /\ departing' = Nobody /\ registered' = registered \ {departing}
  BY DEF DriverGoodbyeEnd, Goodbye
<1>3. /\ n_user_refs' = n_user_refs
      /\ registry' = [q \in Ids |-> [j \in AllKeys |-> registry'[q][j]]]
      /\ \A q \in Ids, j \in AllKeys :
            registry'[q][j] = IF registry[q][j] = <<"noc", departing>>
                              THEN NoRegistry ELSE registry[q][j]
  BY <1>1, GoodbyeEndRules
<1>4. \A q \in Ids, j \in AllKeys : registry[q][j] \in Registries
  BY <1>1 DEF RulesOK
<1>5. RulesOK'
  <2>1. \A q \in Ids, j \in AllKeys : registry'[q][j] \in Registries
    BY <1>3, <1>4, LinkKinds
  <2> QED BY <1>1, <1>3, <2>1 DEF RulesOK
<1>6. NoDanglingRules'
  <2> SUFFICES ASSUME NEW q \in Ids, NEW j \in AllKeys, registry'[q][j] # NoRegistry
               PROVE  /\ n_user_refs'[q][j] > 0
                      /\ \A t \in Ids : registry'[q][j] \in {<<"sender", t>>, <<"noc", t>>}
                                           => t \in registered'
    BY DEF NoDanglingRules
  <2>1. registry'[q][j] = registry[q][j] /\ registry[q][j] # <<"noc", departing>>
    BY <1>3
  <2>2. n_user_refs[q][j] > 0
        /\ \A t \in Ids : registry[q][j] \in {<<"sender", t>>, <<"noc", t>>} => t \in registered
    BY <2>1, <1>1 DEF NoDanglingRules
  <2>3. registry[q][j] # <<"sender", departing>>
    BY <1>1, <1>2 DEF LeavingClean
  <2>4. \A t \in Ids : registry[q][j] \in {<<"sender", t>>, <<"noc", t>>} => t # departing
    BY <2>1, <2>3
  <2> QED BY <2>1, <2>2, <2>4, <1>2, <1>3
<1>7. LeavingClean'
  BY <1>2 DEF LeavingClean
<1> QED BY <1>5, <1>6, <1>7

\* A monitor links its rules on peers that are still on the bus.
LEMMA BecomeMonitorLinks ==
    ASSUME LinkInv, NEW keys \in SUBSET MonitorKeys, NEW refs \in 1 .. MaxRefs,
           BecomeMonitor(keys, refs)
    PROVE  RulesOK' /\ NoDanglingRules' /\ LeavingClean'
<1>1. RulesOK /\ NoDanglingRules /\ LeavingClean /\ registered \in SUBSET Ids
  BY PeerFacts DEF LinkInv
<1>2. /\ departing # Nobody /\ departing' = Nobody /\ registered' = registered \ {departing}
      /\ departing \in Ids
  BY PeerFacts DEF BecomeMonitor, LinkInv
<1>3. /\ n_user_refs' \in [Ids -> [AllKeys -> 0 .. MaxRefs]]
      /\ \A q \in Ids, j \in AllKeys :
            n_user_refs'[q][j] = IF q = departing THEN IF j \in keys THEN refs ELSE 0
                                 ELSE n_user_refs[q][j]
      /\ registry' = [q \in Ids |-> [j \in AllKeys |-> registry'[q][j]]]
      /\ \A q \in Ids, j \in AllKeys :
            registry'[q][j] = IF q = departing /\ j \in keys
                              THEN RegistryOf(j, registered \ {departing})
                              ELSE IF registry[q][j] = <<"noc", departing>>
                              THEN NoRegistry ELSE registry[q][j]
  BY <1>1, <1>2, BecomeMonitorRules
<1>4. \A j \in AllKeys :
         /\ RegistryOf(j, registered \ {departing}) \in Registries
         /\ \A q \in Ids : RegistryOf(j, registered \ {departing}) \in {<<"sender", q>>, <<"noc", q>>}
                              => q \in registered \ {departing}
  <2>1. registered \ {departing} \in SUBSET Ids
    BY <1>1
  <2> QED BY <2>1, PlaceSound
<1>5. \A q \in Ids, j \in AllKeys : registry[q][j] \in Registries
  BY <1>1 DEF RulesOK
<1>6. RulesOK'
  <2>1. \A q \in Ids, j \in AllKeys : registry'[q][j] \in Registries
    BY <1>3, <1>4, <1>5, LinkKinds, ZenonT(60)
  <2> QED BY <1>3, <2>1 DEF RulesOK
<1>7. NoDanglingRules'
  <2> SUFFICES ASSUME NEW q \in Ids, NEW j \in AllKeys, registry'[q][j] # NoRegistry
               PROVE  /\ n_user_refs'[q][j] > 0
                      /\ \A t \in Ids : registry'[q][j] \in {<<"sender", t>>, <<"noc", t>>}
                                           => t \in registered'
    BY DEF NoDanglingRules
  <2>1. CASE q = departing /\ j \in keys
    <3>1. registry'[q][j] = RegistryOf(j, registered \ {departing}) /\ n_user_refs'[q][j] = refs
      BY <2>1, <1>3
    <3> QED BY <3>1, <1>2, <1>4
  <2>2. CASE ~(q = departing /\ j \in keys)
    <3>1. registry'[q][j] = registry[q][j] /\ registry[q][j] # <<"noc", departing>>
      BY <2>2, <1>3
    <3>2. n_user_refs[q][j] > 0
          /\ \A t \in Ids : registry[q][j] \in {<<"sender", t>>, <<"noc", t>>} => t \in registered
      BY <3>1, <1>1 DEF NoDanglingRules
    <3>3. registry[q][j] # <<"sender", departing>> /\ n_user_refs[departing][j] = 0
      BY <1>1, <1>2 DEF LeavingClean
    <3>4. q # departing
      BY <3>2, <3>3
    <3>5. \A t \in Ids : registry[q][j] \in {<<"sender", t>>, <<"noc", t>>} => t # departing
      BY <3>1, <3>3
    <3> QED BY <3>1, <3>2, <3>4, <3>5, <1>2, <1>3
  <2> QED BY <2>1, <2>2
<1>8. LeavingClean'
  BY <1>2 DEF LeavingClean
<1> QED BY <1>6, <1>7, <1>8

\* Rules are linked only while they have a reference and on nobody who is gone.
LEMMA LinkStep ==
    ASSUME LinkInv, [Next]_vars
    PROVE  LinkInv'
<1>1. PeersOK'
  BY PeersStep DEF LinkInv
<1> DEFINE Kept == RulesOK' /\ NoDanglingRules' /\ LeavingClean'
<1>2. CASE Connect
  <2>1. UNCHANGED <<n_user_refs, registry, registered, departing>>
    BY <1>2 DEF Connect, ruleVars
  <2> QED BY <2>1, <1>1, LinksKept DEF LinkInv
<1>3. ASSUME NEW p \in Ids, DriverHello(p) PROVE Kept
  <2>1. UNCHANGED <<n_user_refs, registry, departing>> /\ registered' = registered \cup {p}
    BY <1>3 DEF DriverHello, ruleVars
  <2> QED BY <2>1, LinksKept
<1>4. ASSUME NEW p \in Ids, DriverGoodbye(p) PROVE Kept
  BY <1>4, GoodbyeBeginLinks
<1>5. ASSUME NEW p \in Ids, NEW k \in Keys, AddMatch(p, k) \/ RemoveMatch(p, k) PROVE Kept
  BY <1>5, AddMatchLinks, RemoveMatchLinks DEF AllKeys
<1>6. ASSUME NEW n \in WellKnown, NEW p \in Ids \cup {Nobody},
             OwnerChanges(n, p) \/ GoodbyeName(n, p)
      PROVE  Kept
  <2>1. UNCHANGED <<n_user_refs, registry, registered, departing>>
    BY <1>6 DEF OwnerChanges, GoodbyeName, ruleVars, peerVars
  <2> QED BY <2>1, LinksKept
<1>7. CASE DriverGoodbyeEnd
  BY <1>1, <1>7, GoodbyeEndLinks DEF LinkInv
<1>8. ASSUME NEW keys \in SUBSET MonitorKeys, NEW refs \in 1 .. MaxRefs,
             BecomeMonitor(keys, refs)
      PROVE  Kept
  BY <1>8, BecomeMonitorLinks
<1>9. CASE UNCHANGED vars
  <2>1. UNCHANGED <<n_user_refs, registry, registered, departing>>
    BY <1>9 DEF vars, ruleVars, peerVars
  <2> QED BY <2>1, <1>1, LinksKept DEF LinkInv
<1> HIDE DEF Kept
<1>10. Kept => LinkInv'
  BY <1>1 DEF Kept, LinkInv
<1> QED BY <1>2, <1>3, <1>4, <1>5, <1>6, <1>7, <1>8, <1>9, <1>10 DEF Next

\* Nobody is there at first.
LEMMA LinkInit ==
    ASSUME Init
    PROVE  LinkInv
<1>1. MaxPeers \in Nat \ {0} /\ MaxTotal \in Nat /\ MaxRefs \in Nat
  BY MatchAssumption
<1>2. PeersOK
  <2>1. Cardinality({}) = 0
    BY FS_EmptySet
  <2>2. /\ ids = 0 /\ connected = {} /\ registered = {} /\ monitors = {} /\ greeted = {}
        /\ owner = [n \in WellKnown |-> Nobody] /\ departing = Nobody /\ aborted = FALSE
        /\ n_monitors = 0
    BY DEF Init
  <2>3. owner \in [WellKnown -> registered \cup {Nobody}]
    BY <2>2
  <2>4. ids \in 0 .. MaxPeers /\ n_monitors = Cardinality(monitors)
    BY <1>1, <2>1, <2>2
  <2> QED BY <2>2, <2>3, <2>4 DEF PeersOK
<1>3. RulesOK
  <2>1. NoRegistry \in Registries /\ 0 \in 0 .. MaxRefs
    BY <1>1, LinkKinds
  <2> QED BY <2>1 DEF Init, RulesOK
<1>4. NoDanglingRules /\ LeavingClean
  BY DEF Init, NoDanglingRules, LeavingClean
<1> QED BY <1>2, <1>3, <1>4 DEF LinkInv

-----------------------------------------------------------------------------
(* Counters *)

\* Taking a part out of a set of rules takes its number off the counts.
LEMMA CountLess ==
    ASSUME NEW S, IsFiniteSet(S), NEW D \in SUBSET S
    PROVE  /\ Cardinality(S \ D) = Cardinality(S) - Cardinality(D)
           /\ Cardinality(S \ D) \in Nat
           /\ \A p : /\ Cardinality({r \in S \ D : r[1] = p}) =
                           Cardinality({r \in S : r[1] = p}) - Cardinality({r \in D : r[1] = p})
                     /\ Cardinality({r \in S \ D : r[1] = p}) \in Nat
<1>1. ASSUME NEW A \in SUBSET S, NEW B \in SUBSET A
      PROVE  Cardinality(A \ B) = Cardinality(A) - Cardinality(B) /\ Cardinality(A \ B) \in Nat
  <2>1. IsFiniteSet(A)
    BY FS_Subset
  <2>2. A \cap B = B
    OBVIOUS
  <2> QED BY <2>1, <2>2, FS_Difference, FS_CardinalityType
<1>2. ASSUME NEW p
      PROVE  /\ Cardinality({r \in S \ D : r[1] = p}) =
                   Cardinality({r \in S : r[1] = p}) - Cardinality({r \in D : r[1] = p})
             /\ Cardinality({r \in S \ D : r[1] = p}) \in Nat
  <2> DEFINE A == {r \in S : r[1] = p}
             B == {r \in D : r[1] = p}
  <2>1. A \in SUBSET S /\ B \in SUBSET A /\ {r \in S \ D : r[1] = p} = A \ B
    OBVIOUS
  <2>2. Cardinality(A \ B) = Cardinality(A) - Cardinality(B) /\ Cardinality(A \ B) \in Nat
    <3> HIDE DEF A, B
    <3> QED BY <2>1, <1>1
  <2> QED BY <2>1, <2>2
<1> QED BY <1>1, <1>2

\* The linked rules are finitely many.
LEMMA FinitelyMany ==
    ASSUME PeersOK
    PROVE  IsFiniteSet(Subscriptions)
<1>1. IsFiniteSet(Ids \X AllKeys)
  BY PeerFacts, MatchAssumption, FS_Product
<1> QED BY <1>1, FS_Subset DEF Subscriptions, UnlinkedFrom

\* A step that unlinks rules and takes them off the counters.
LEMMA CountDrop ==
    ASSUME LinkInv, CountInv, NEW rules \in SUBSET (Ids \X AllKeys),
           n_subscriptions' = n_subscriptions - Cardinality(UnlinkedFrom(rules)),
           n_owner_subscriptions' = [p \in Ids |-> n_owner_subscriptions[p]
              - Cardinality({r \in UnlinkedFrom(rules) : r[1] = p})],
           \A q \in Ids, j \in AllKeys :
              (registry'[q][j] # NoRegistry /\ q \notin monitors') <=>
                 (registry[q][j] # NoRegistry /\ q \notin monitors /\ <<q, j>> \notin rules)
    PROVE  CountInv'
<1>1. IsFiniteSet(Subscriptions)
  BY FinitelyMany DEF LinkInv
<1>2. UnlinkedFrom(rules) \in SUBSET Subscriptions
  BY DEF Subscriptions, UnlinkedFrom
<1>3. Subscriptions' = Subscriptions \ UnlinkedFrom(rules)
  BY DEF Subscriptions, UnlinkedFrom
<1>4. PICK D : D = UnlinkedFrom(rules)
  OBVIOUS
<1>5. PICK S : S = Subscriptions
  OBVIOUS
<1>6. /\ Cardinality(S \ D) = Cardinality(S) - Cardinality(D)
      /\ Cardinality(S \ D) \in Nat
      /\ \A p : /\ Cardinality({r \in S \ D : r[1] = p}) =
                      Cardinality({r \in S : r[1] = p}) - Cardinality({r \in D : r[1] = p})
                /\ Cardinality({r \in S \ D : r[1] = p}) \in Nat
  <2>1. IsFiniteSet(S) /\ D \in SUBSET S
    BY <1>1, <1>2, <1>4, <1>5
  <2> QED BY ONLY <2>1, CountLess
<1>7. Subscriptions' = S \ D
  BY <1>3, <1>4, <1>5
<1>8. n_subscriptions' = Cardinality(S \ D)
  BY <1>4, <1>5, <1>6 DEF CountInv, SubscriptionsCounted
<1>9. ASSUME NEW p \in Ids
      PROVE  /\ n_owner_subscriptions'[p] = Cardinality({r \in S \ D : r[1] = p})
             /\ n_owner_subscriptions'[p] \in Nat
  <2>1. n_owner_subscriptions'[p] = n_owner_subscriptions[p] - Cardinality({r \in D : r[1] = p})
    BY <1>4
  <2>2. n_owner_subscriptions[p] = Cardinality({r \in S : r[1] = p})
    BY <1>5 DEF CountInv, SubscriptionsCounted
  <2>3. /\ Cardinality({r \in S \ D : r[1] = p}) =
              Cardinality({r \in S : r[1] = p}) - Cardinality({r \in D : r[1] = p})
        /\ Cardinality({r \in S \ D : r[1] = p}) \in Nat
    BY <1>6, Zenon
  <2> QED BY ONLY <2>1, <2>2, <2>3
<1>10. n_owner_subscriptions' \in [Ids -> Nat]
  <2>1. n_owner_subscriptions' = [p \in Ids |-> n_owner_subscriptions'[p]]
    OBVIOUS
  <2>2. \A p \in Ids : n_owner_subscriptions'[p] \in Nat
    BY <1>9
  <2> QED BY ONLY <2>1, <2>2
<1> QED BY <1>6, <1>7, <1>8, <1>9, <1>10 DEF CountInv, SubscriptionsCounted

\* A step that leaves links, monitors and counters alone.
LEMMA CountSame ==
    ASSUME CountInv,
           UNCHANGED <<registry, monitors, n_subscriptions, n_owner_subscriptions>>
    PROVE  CountInv'
  BY DEF CountInv, SubscriptionsCounted, Subscriptions, UnlinkedFrom

\* AddMatch counts the rule it links.
LEMMA AddMatchCount ==
    ASSUME LinkInv, CountInv, NEW p \in Ids, NEW k \in AllKeys, AddMatch(p, k)
    PROVE  CountInv'
<1>1. UNCHANGED <<monitors>> /\ p \in registered
  BY DEF AddMatch, peerVars
<1>2. CASE ~(registry[p][k] = NoRegistry /\ RegistryOf(k, registered) # NoRegistry)
  <2>1. UNCHANGED <<registry, n_subscriptions, n_owner_subscriptions>>
    BY <1>2 DEF AddMatch
  <2> QED BY <1>1, <2>1, CountSame
<1>3. CASE registry[p][k] = NoRegistry /\ RegistryOf(k, registered) # NoRegistry
  <2>1. /\ n_subscriptions' = n_subscriptions + 1
        /\ n_owner_subscriptions' = [n_owner_subscriptions EXCEPT ![p] = n_owner_subscriptions[p] + 1]
    BY <1>3 DEF AddMatch
  <2>2. \A q \in Ids, j \in AllKeys :
            registry'[q][j] = IF q = p /\ j = k THEN RegistryOf(k, registered) ELSE registry[q][j]
    BY <1>3, AddMatchRules DEF LinkInv
  <2>3. p \notin monitors
    BY <1>1 DEF LinkInv, PeersOK
  <2>4. PICK x : x = <<p, k>>
    OBVIOUS
  <2>5. PICK S : S = Subscriptions
    OBVIOUS
  <2>6. x \notin S /\ x[1] = p
    BY <2>4, <2>5, <1>3 DEF Subscriptions, UnlinkedFrom
  <2>7. Subscriptions' = S \cup {x}
    BY <1>1, <1>3, <2>2, <2>3, <2>4, <2>5 DEF Subscriptions, UnlinkedFrom
  <2>8. IsFiniteSet(S)
    BY <2>5, FinitelyMany DEF LinkInv
  <2>9. Cardinality(S \cup {x}) = Cardinality(S) + 1
    BY ONLY <2>6, <2>8, FS_AddElement
  <2>10. ASSUME NEW q
         PROVE  Cardinality({r \in S \cup {x} : r[1] = q}) =
                   Cardinality({r \in S : r[1] = q}) + IF q = p THEN 1 ELSE 0
    <3> DEFINE T == {r \in S : r[1] = q}
    <3>1. IsFiniteSet(T)
      BY <2>8, FS_Subset
    <3>2. /\ q = p => {r \in S \cup {x} : r[1] = q} = T \cup {x}
          /\ q # p => {r \in S \cup {x} : r[1] = q} = T
      BY <2>6
    <3>3. x \notin T
      BY <2>6
    <3>4. Cardinality(T \cup {x}) = Cardinality(T) + 1 /\ Cardinality(T) \in Nat
      <4> HIDE DEF T
      <4> QED BY <3>1, <3>3, FS_AddElement, FS_CardinalityType
    <3>5. CASE q = p
      BY <3>2, <3>4, <3>5
    <3>6. CASE q # p
      BY <3>2, <3>4, <3>6
    <3> QED BY <3>5, <3>6
  <2>11. n_subscriptions' \in Nat /\ n_subscriptions' = Cardinality(S \cup {x})
    BY <2>1, <2>5, <2>9 DEF CountInv, SubscriptionsCounted
  <2>12. n_owner_subscriptions' \in [Ids -> Nat]
    BY <2>1 DEF CountInv
  <2>13. ASSUME NEW q \in Ids
         PROVE  n_owner_subscriptions'[q] = Cardinality({r \in S \cup {x} : r[1] = q})
    <3>1. n_owner_subscriptions[q] = Cardinality({r \in S : r[1] = q})
      BY <2>5 DEF CountInv, SubscriptionsCounted
    <3>2. n_owner_subscriptions'[q] = n_owner_subscriptions[q] + (IF q = p THEN 1 ELSE 0)
      BY <2>1 DEF CountInv
    <3> QED BY <3>1, <3>2, <2>10
  <2> QED BY <2>7, <2>11, <2>12, <2>13 DEF CountInv, SubscriptionsCounted
<1> QED BY <1>2, <1>3

\* The counters follow the links.
LEMMA CountStep ==
    ASSUME LinkInv, CountInv, [Next]_vars
    PROVE  CountInv'
<1>1. CASE Connect
  BY <1>1, CountSame DEF Connect, ruleVars
<1>2. ASSUME NEW p \in Ids, DriverHello(p) PROVE CountInv'
  BY <1>2, CountSame DEF DriverHello, ruleVars
<1>3. ASSUME NEW p \in Ids, DriverGoodbye(p) PROVE CountInv'
  <2> DEFINE rules == GoneFirst(p)
  <2>1. rules \in SUBSET (Ids \X AllKeys)
    BY DEF GoneFirst, RulesOf, LinkedOn
  <2>2. UnlinkRules(rules) /\ monitors' = monitors
    BY <1>3 DEF DriverGoodbye
  <2> HIDE DEF rules
  <2>3. \A q \in Ids, j \in AllKeys :
          registry'[q][j] = IF <<q, j>> \in rules THEN NoRegistry ELSE registry[q][j]
    BY <2>2, UnlinkEffect
  <2>4. /\ n_subscriptions' = n_subscriptions - Cardinality(UnlinkedFrom(rules))
        /\ n_owner_subscriptions' = [q \in Ids |-> n_owner_subscriptions[q]
              - Cardinality({r \in UnlinkedFrom(rules) : r[1] = q})]
    BY <2>2 DEF UnlinkRules
  <2> QED BY <2>1, <2>2, <2>3, <2>4, CountDrop
<1>4. ASSUME NEW p \in Ids, NEW k \in Keys, AddMatch(p, k) PROVE CountInv'
  BY <1>4, AddMatchCount DEF AllKeys
<1>5. ASSUME NEW p \in Ids, NEW k \in Keys, RemoveMatch(p, k) PROVE CountInv'
  <2>1. monitors' = monitors
    BY <1>5 DEF RemoveMatch, peerVars
  <2>2. CASE ~LastRef(p, k)
    BY <1>5, <2>1, <2>2, CountSame DEF RemoveMatch
  <2>3. CASE LastRef(p, k)
    <3> DEFINE rules == {<<p, k>>}
    <3>1. rules \in SUBSET (Ids \X AllKeys)
      BY DEF AllKeys
    <3>2. UnlinkRules(rules)
      BY <1>5, <2>3 DEF RemoveMatch
    <3> HIDE DEF rules
    <3>3. \A q \in Ids, j \in AllKeys :
            registry'[q][j] = IF <<q, j>> \in rules THEN NoRegistry ELSE registry[q][j]
      BY <3>2, UnlinkEffect
    <3>4. /\ n_subscriptions' = n_subscriptions - Cardinality(UnlinkedFrom(rules))
          /\ n_owner_subscriptions' = [q \in Ids |-> n_owner_subscriptions[q]
                - Cardinality({r \in UnlinkedFrom(rules) : r[1] = q})]
      BY <3>2 DEF UnlinkRules
    <3> QED BY <2>1, <3>1, <3>3, <3>4, CountDrop
  <2> QED BY <2>2, <2>3
<1>6. ASSUME NEW n \in WellKnown, NEW p \in Ids \cup {Nobody},
             OwnerChanges(n, p) \/ GoodbyeName(n, p)
      PROVE  CountInv'
  BY <1>6, CountSame DEF OwnerChanges, GoodbyeName, ruleVars, peerVars
<1> DEFINE last == GoneLast(departing)
<1>7. last \in SUBSET (Ids \X AllKeys)
  BY DEF GoneLast, LinkedOn
<1>8. ASSUME departing # Nobody, NEW j \in AllKeys
      PROVE  departing \in Ids /\ registry[departing][j] = NoRegistry
  BY <1>8, PeerFacts DEF LinkInv, LeavingClean, NoDanglingRules
<1>9. CASE DriverGoodbyeEnd
  <2>1. UnlinkRules(last) /\ monitors' = monitors \ {departing} /\ departing # Nobody
    BY <1>9 DEF DriverGoodbyeEnd, Goodbye
  <2> HIDE DEF last
  <2>2. \A q \in Ids, j \in AllKeys :
          registry'[q][j] = IF <<q, j>> \in last THEN NoRegistry ELSE registry[q][j]
    BY <2>1, UnlinkEffect
  <2>3. /\ n_subscriptions' = n_subscriptions - Cardinality(UnlinkedFrom(last))
        /\ n_owner_subscriptions' = [q \in Ids |-> n_owner_subscriptions[q]
              - Cardinality({r \in UnlinkedFrom(last) : r[1] = q})]
    BY <2>1 DEF UnlinkRules
  <2>4. \A q \in Ids, j \in AllKeys :
           (registry'[q][j] # NoRegistry /\ q \notin monitors') <=>
              (registry[q][j] # NoRegistry /\ q \notin monitors /\ <<q, j>> \notin last)
    BY <2>1, <2>2, <1>8
  <2> QED BY <1>7, <2>3, <2>4, CountDrop
<1>10. ASSUME NEW keys \in SUBSET MonitorKeys, NEW refs \in 1 .. MaxRefs,
              BecomeMonitor(keys, refs)
       PROVE  CountInv'
  <2>1. /\ n_subscriptions' = n_subscriptions - Cardinality(UnlinkedFrom(last))
        /\ n_owner_subscriptions' = [q \in Ids |-> n_owner_subscriptions[q]
              - Cardinality({r \in UnlinkedFrom(last) : r[1] = q})]
        /\ monitors' = monitors \cup {departing} /\ departing # Nobody
        /\ \A q \in Ids, j \in AllKeys : registry'[q][j] =
              IF q = departing /\ j \in keys THEN RegistryOf(j, registered \ {departing})
              ELSE IF <<q, j>> \in last THEN NoRegistry ELSE registry[q][j]
    BY <1>10 DEF BecomeMonitor
  <2> HIDE DEF last
  <2>2. \A q \in Ids, j \in AllKeys :
           (registry'[q][j] # NoRegistry /\ q \notin monitors') <=>
              (registry[q][j] # NoRegistry /\ q \notin monitors /\ <<q, j>> \notin last)
    BY <2>1, <1>8
  <2> QED BY <1>7, <2>1, <2>2, CountDrop
<1>11. CASE UNCHANGED vars
  BY <1>11, CountSame DEF vars, peerVars, ruleVars
<1> QED BY <1>1, <1>2, <1>3, <1>4, <1>5, <1>6, <1>9, <1>10, <1>11 DEF Next

-----------------------------------------------------------------------------
(* Pins *)

\* The rules that hold a reference on a name, how many references a peer has
\* taken on them, and how many all peers have.
PinnedOn(n) == {k \in AllKeys : PinnedBy(k) = n}
RefsOn(refs, n) == SumOf(refs, PinnedOn(n))
AllRefsOn(refs, n) == SumOf([p \in Ids |-> RefsOn(refs[p], n)], Ids)

\* There are finitely many rules on a name.
LEMMA PinnedOnFinite == \A n : IsFiniteSet(PinnedOn(n)) /\ PinnedOn(n) \subseteq AllKeys
  BY MatchAssumption, FS_Subset DEF PinnedOn

\* A sum of references is a natural number.
LEMMA RefsNat ==
    ASSUME NEW refs, \A k \in AllKeys : refs[k] \in Nat, NEW n
    PROVE  RefsOn(refs, n) \in Nat
<1> DEFINE S == PinnedOn(n)
<1>1. IsFiniteSet(S) /\ \A k \in S : refs[k] \in Nat
  BY PinnedOnFinite
<1> HIDE DEF S
<1>2. SumOf(refs, S) \in Nat
  BY <1>1, SumNat
<1> QED BY <1>2 DEF S, RefsOn

\* A change of the references on one rule.
LEMMA RefsChange ==
    ASSUME NEW old, NEW new, \A j \in AllKeys : old[j] \in Nat /\ new[j] \in Nat,
           NEW k \in AllKeys, \A j \in AllKeys : j # k => new[j] = old[j], NEW n
    PROVE  /\ PinnedBy(k) = n => RefsOn(new, n) + old[k] = RefsOn(old, n) + new[k]
           /\ PinnedBy(k) # n => RefsOn(new, n) = RefsOn(old, n)
<1> DEFINE S == PinnedOn(n)
<1>1. IsFiniteSet(S) /\ S \subseteq AllKeys /\ (k \in S <=> PinnedBy(k) = n)
  BY PinnedOnFinite DEF PinnedOn
<1> HIDE DEF S
<1>2. CASE k \in S
  <2>1. \A y \in S : old[y] \in Nat /\ new[y] \in Nat
    BY <1>1
  <2>2. \A y \in S \ {k} : new[y] = old[y]
    BY <1>1
  <2>3. SumOf(new, S) + old[k] = SumOf(old, S) + new[k]
    BY <1>1, <1>2, <2>1, <2>2, SumChange
  <2> QED BY <1>1, <1>2, <2>3 DEF RefsOn, S
<1>3. CASE k \notin S
  <2>1. \A y \in S : old[y] \in Nat /\ new[y] = old[y]
    BY <1>1, <1>3
  <2>2. SumOf(new, S) = SumOf(old, S)
    BY <1>1, <2>1, SumSame
  <2> QED BY <1>1, <1>3, <2>2 DEF RefsOn, S
<1> QED BY <1>2, <1>3

\* The references of a peer that has the same number on each of some rules.
LEMMA RefsEven ==
    ASSUME NEW refs, NEW c \in Nat, NEW keys \in SUBSET AllKeys,
           \A j \in AllKeys : refs[j] = IF j \in keys THEN c ELSE 0, NEW n
    PROVE  RefsOn(refs, n) = c * Cardinality({k \in keys : PinnedBy(k) = n})
<1> DEFINE S == PinnedOn(n)
           T == {k \in keys : PinnedBy(k) = n}
<1>1. IsFiniteSet(S) /\ S \subseteq AllKeys /\ T \in SUBSET S /\ \A x \in S : x \in T <=> x \in keys
  BY PinnedOnFinite DEF PinnedOn
<1> HIDE DEF S, T
<1>2. \A x \in S : refs[x] = IF x \in T THEN c ELSE 0
  BY <1>1
<1>3. SumOf(refs, S) = c * Cardinality(T)
  BY <1>1, <1>2, SumEven
<1> QED BY <1>3 DEF RefsOn, S, T

\* A peer without references.
LEMMA RefsNone ==
    ASSUME NEW refs, \A j \in AllKeys : refs[j] = 0, NEW n
    PROVE  RefsOn(refs, n) = 0
<1> DEFINE S == PinnedOn(n)
<1>1. IsFiniteSet(S) /\ S \subseteq AllKeys
  BY PinnedOnFinite
<1> HIDE DEF S
<1>2. \A x \in S : refs[x] \in Nat /\ refs[x] = 0
  BY <1>1
<1>3. SumOf(refs, S) = SumOf(refs, {})
  BY <1>1, <1>2, SumZero
<1> QED BY <1>1, <1>3, SumUnfold DEF S, RefsOn

\* A change of the references of one peer.
LEMMA AllRefsChange ==
    ASSUME IsFiniteSet(Ids),
           NEW old \in [Ids -> [AllKeys -> Nat]], NEW new \in [Ids -> [AllKeys -> Nat]],
           NEW p \in Ids, \A q \in Ids : q # p => \A j \in AllKeys : new[q][j] = old[q][j],
           NEW n
    PROVE  /\ AllRefsOn(new, n) + RefsOn(old[p], n) = AllRefsOn(old, n) + RefsOn(new[p], n)
           /\ AllRefsOn(new, n) \in Nat /\ AllRefsOn(old, n) \in Nat
<1> DEFINE f == [q \in Ids |-> RefsOn(old[q], n)]
           g == [q \in Ids |-> RefsOn(new[q], n)]
<1>1. ASSUME NEW q \in Ids PROVE RefsOn(old[q], n) \in Nat /\ RefsOn(new[q], n) \in Nat
  BY RefsNat
<1>2. \A q \in Ids : f[q] \in Nat /\ g[q] \in Nat
  BY <1>1
<1>3. \A q \in Ids \ {p} : g[q] = f[q]
  <2> SUFFICES ASSUME NEW q \in Ids \ {p} PROVE new[q] = old[q]
    OBVIOUS
  <2> QED OBVIOUS
<1>4. f[p] = RefsOn(old[p], n) /\ g[p] = RefsOn(new[p], n)
      /\ AllRefsOn(new, n) = SumOf(g, Ids) /\ AllRefsOn(old, n) = SumOf(f, Ids)
  BY DEF AllRefsOn
<1> HIDE DEF f, g
<1>5. SumOf(g, Ids) + f[p] = SumOf(f, Ids) + g[p]
  BY <1>2, <1>3, SumChange
<1>6. SumOf(g, Ids) \in Nat /\ SumOf(f, Ids) \in Nat
  BY <1>2, SumNat
<1> QED BY <1>4, <1>5, <1>6

\* What is given back and what is left behind make up what was held.
LEMMA UnpinAll ==
    ASSUME PinInv, NEW dropped, \A j \in AllKeys : dropped[j] \in Nat, Unpin(dropped),
           NEW n \in WellKnown \cup Others
    PROVE  /\ pins'[n] + leaked[n] + RefsOn(dropped, n) = pins[n] + leaked'[n]
           /\ pins'[n] \in Int /\ leaked'[n] \in Nat
           /\ n \in WellKnown => leaked'[n] = leaked[n]
<1> DEFINE S == {k \in AllKeys : UnpinnedBy(k) = n}
           T == {k \in AllKeys : PinnedBy(k) = n /\ UnpinnedBy(k) # n}
<1>1. /\ pins'[n] = pins[n] - SumOf(dropped, S)
      /\ leaked'[n] = leaked[n] + SumOf(dropped, T)
  BY DEF Unpin
<1>2. pins[n] \in Nat /\ leaked[n] \in Nat /\ RefsOn(dropped, n) \in Nat
  BY RefsNat DEF PinInv
<1>3. SumOf(dropped, {}) = 0
  <2>1. IsFiniteSet({})
    BY FS_EmptySet
  <2> QED BY <2>1, SumUnfold
<1>4. \A k \in AllKeys : UnpinnedBy(k) = IF PinnedBy(k) \in WellKnown THEN PinnedBy(k) ELSE Nobody
  BY DEF UnpinnedBy
<1>5. n # Nobody /\ (n \in WellKnown \/ n \in Others) /\ ~(n \in WellKnown /\ n \in Others)
  BY MatchAssumption DEF Targets
<1>6. CASE n \in WellKnown
  <2>1. S = PinnedOn(n) /\ T = {}
    BY <1>4, <1>5, <1>6 DEF PinnedOn
  <2> HIDE DEF S, T
  <2> QED BY <1>1, <1>2, <1>3, <2>1 DEF RefsOn
<1>7. CASE n \in Others
  <2>1. S = {} /\ T = PinnedOn(n)
    BY <1>4, <1>5, <1>7 DEF PinnedOn
  <2> HIDE DEF S, T
  <2> QED BY <1>1, <1>2, <1>3, <1>5, <1>7, <2>1 DEF RefsOn
<1> QED BY <1>6, <1>7

\* A step that changes the references of one peer and the pins with them.
LEMMA PinChange ==
    ASSUME LinkInv, LinkInv', PinInv, NEW p \in Ids,
           \A q \in Ids, j \in AllKeys : q # p => n_user_refs'[q][j] = n_user_refs[q][j],
           pins' = [n \in WellKnown \cup Others |-> pins'[n]],
           leaked' = [n \in WellKnown \cup Others |-> leaked'[n]],
           \A n \in WellKnown \cup Others :
              /\ pins'[n] + leaked[n] + RefsOn(n_user_refs[p], n)
                    = pins[n] + leaked'[n] + RefsOn(n_user_refs'[p], n)
              /\ pins'[n] \in Int /\ leaked'[n] \in Nat
              /\ n \in WellKnown => leaked'[n] = leaked[n]
    PROVE  PinInv'
<1>1. IsFiniteSet(Ids)
  BY PeerFacts DEF LinkInv
<1>2. PICK old : old = n_user_refs
  OBVIOUS
<1>3. PICK new : new = n_user_refs'
  OBVIOUS
<1>4. old \in [Ids -> [AllKeys -> Nat]] /\ new \in [Ids -> [AllKeys -> Nat]]
  <2>1. 0 .. MaxRefs \subseteq Nat
    BY MatchAssumption
  <2> QED BY <1>2, <1>3, <2>1 DEF LinkInv, RulesOK
<1>5. \A q \in Ids : q # p => \A j \in AllKeys : new[q][j] = old[q][j]
  BY <1>2, <1>3
<1>6. ASSUME NEW n \in WellKnown \cup Others
      PROVE  /\ pins'[n] = leaked'[n] + AllRefsOn(new, n)
             /\ pins'[n] \in Nat /\ leaked'[n] \in Nat
             /\ n \in WellKnown => leaked'[n] = 0
  <2>1. /\ AllRefsOn(new, n) + RefsOn(old[p], n) = AllRefsOn(old, n) + RefsOn(new[p], n)
        /\ AllRefsOn(new, n) \in Nat /\ AllRefsOn(old, n) \in Nat
    BY ONLY <1>1, <1>4, <1>5, p \in Ids, AllRefsChange
  <2>2. RefsOn(old[p], n) \in Nat /\ RefsOn(new[p], n) \in Nat
    BY <1>4, RefsNat
  <2>3. /\ pins[n] = leaked[n] + AllRefsOn(old, n) /\ leaked[n] \in Nat
        /\ n \in WellKnown => leaked[n] = 0
    BY <1>2 DEF PinInv, PinsExact, AllRefsOn, RefsOn, PinnedOn
  <2>4. /\ pins'[n] + leaked[n] + RefsOn(old[p], n)
              = pins[n] + leaked'[n] + RefsOn(new[p], n)
        /\ pins'[n] \in Int /\ leaked'[n] \in Nat
        /\ n \in WellKnown => leaked'[n] = leaked[n]
    BY <1>2, <1>3
  <2> QED BY ONLY <2>1, <2>2, <2>3, <2>4
<1>7. PinsExact'
  BY <1>3, <1>6 DEF PinsExact, AllRefsOn, RefsOn, PinnedOn
<1>8. pins' \in [WellKnown \cup Others -> Nat] /\ leaked' \in [WellKnown \cup Others -> Nat]
  <2>1. \A n \in WellKnown \cup Others : pins'[n] \in Nat /\ leaked'[n] \in Nat
    BY <1>6
  <2> QED BY <2>1
<1> QED BY <1>7, <1>8 DEF PinInv

\* A step that leaves references and pins alone.
LEMMA PinSame ==
    ASSUME PinInv, UNCHANGED <<n_user_refs, pins, leaked>>
    PROVE  PinInv'
  BY DEF PinInv, PinsExact

\* The pins follow the references: AddMatch takes one with the reference, and
\* RemoveMatch and the goodbye give them back, those on names.
LEMMA PinStep ==
    ASSUME LinkInv, LinkInv', PinInv, [Next]_vars
    PROVE  PinInv'
<1>1. \A q \in Ids, j \in AllKeys : n_user_refs[q][j] \in Nat /\ n_user_refs'[q][j] \in Nat
  <2>1. 0 .. MaxRefs \subseteq Nat
    BY MatchAssumption
  <2> QED BY <2>1 DEF LinkInv, RulesOK
<1>2. \A n \in WellKnown \cup Others : pins[n] \in Nat /\ leaked[n] \in Nat
  BY DEF PinInv
<1>3. CASE Connect
  BY <1>3, PinSame DEF Connect, ruleVars
<1>4. ASSUME NEW p \in Ids, DriverHello(p) PROVE PinInv'
  BY <1>4, PinSame DEF DriverHello, ruleVars
<1>5. ASSUME NEW p \in Ids, NEW dropped, Unpin(dropped),
             \A j \in AllKeys : dropped[j] \in Nat /\
                n_user_refs'[p][j] + dropped[j] = n_user_refs[p][j],
             \A n \in WellKnown \cup Others :
                RefsOn(n_user_refs'[p], n) + RefsOn(dropped, n) = RefsOn(n_user_refs[p], n),
             \A q \in Ids, j \in AllKeys : q # p => n_user_refs'[q][j] = n_user_refs[q][j]
      PROVE  PinInv'
  <2>1. ASSUME NEW n \in WellKnown \cup Others
        PROVE  /\ pins'[n] + leaked[n] + RefsOn(n_user_refs[p], n)
                     = pins[n] + leaked'[n] + RefsOn(n_user_refs'[p], n)
               /\ pins'[n] \in Int /\ leaked'[n] \in Nat
               /\ n \in WellKnown => leaked'[n] = leaked[n]
    <3>1. /\ pins'[n] + leaked[n] + RefsOn(dropped, n) = pins[n] + leaked'[n]
          /\ pins'[n] \in Int /\ leaked'[n] \in Nat
          /\ n \in WellKnown => leaked'[n] = leaked[n]
      BY <1>5, UnpinAll
    <3>2. PICK old : old = n_user_refs[p]
      OBVIOUS
    <3>3. PICK new : new = n_user_refs'[p]
      OBVIOUS
    <3>4. RefsOn(old, n) \in Nat /\ RefsOn(new, n) \in Nat /\ RefsOn(dropped, n) \in Nat
      BY <1>1, <1>5, <3>2, <3>3, RefsNat
    <3>5. RefsOn(new, n) + RefsOn(dropped, n) = RefsOn(old, n)
      BY <1>5, <3>2, <3>3
    <3> QED BY <1>2, <3>1, <3>2, <3>3, <3>4, <3>5
  <2>2. /\ pins' = [n \in WellKnown \cup Others |-> pins'[n]]
        /\ leaked' = [n \in WellKnown \cup Others |-> leaked'[n]]
    BY <1>5 DEF Unpin
  <2> QED BY <1>5, <2>1, <2>2, PinChange
<1>6. ASSUME NEW p \in Ids, DriverGoodbye(p) PROVE PinInv'
  <2>1. \A q \in Ids, j \in AllKeys :
           n_user_refs'[q][j] = IF q = p THEN 0 ELSE n_user_refs[q][j]
    BY <1>6, GoodbyeBeginRules DEF LinkInv
  <2>2. PICK old : old = n_user_refs[p]
    OBVIOUS
  <2>3. PICK new : new = n_user_refs'[p]
    OBVIOUS
  <2>4. Unpin(old)
    BY <1>6, <2>2 DEF DriverGoodbye
  <2>5. (\A j \in AllKeys : old[j] \in Nat) /\ (\A j \in AllKeys : new[j] = 0)
    BY <1>1, <2>1, <2>2, <2>3
  <2>6. ASSUME NEW n \in WellKnown \cup Others
        PROVE  RefsOn(new, n) + RefsOn(old, n) = RefsOn(old, n)
    <3>1. RefsOn(old, n) \in Nat /\ RefsOn(new, n) = 0
      BY <2>5, RefsNat, RefsNone
    <3> QED BY <3>1
  <2>7. \A j \in AllKeys : old[j] \in Nat /\ n_user_refs'[p][j] + old[j] = n_user_refs[p][j]
    BY <2>2, <2>3, <2>5
  <2>8. \A n \in WellKnown \cup Others :
           RefsOn(n_user_refs'[p], n) + RefsOn(old, n) = RefsOn(n_user_refs[p], n)
    BY <2>2, <2>3, <2>6
  <2>9. \A q \in Ids, j \in AllKeys : q # p => n_user_refs'[q][j] = n_user_refs[q][j]
    BY <2>1
  <2> QED BY <1>5, <2>4, <2>7, <2>8, <2>9
<1>7. ASSUME NEW p \in Ids, NEW k \in Keys, AddMatch(p, k) PROVE PinInv'
  <2>1. k \in AllKeys
    BY DEF AllKeys
  <2>2. \A q \in Ids, j \in AllKeys :
           n_user_refs'[q][j] = IF q = p /\ j = k THEN n_user_refs[p][k] + 1
                                ELSE n_user_refs[q][j]
    BY <1>7, <2>1, AddMatchRules DEF LinkInv
  <2>3. /\ pins' = [n \in WellKnown \cup Others |->
                      IF n = PinnedBy(k) THEN pins[n] + 1 ELSE pins[n]]
        /\ leaked' = leaked
    BY <1>7 DEF AddMatch, Pin
  <2>4. ASSUME NEW n \in WellKnown \cup Others
        PROVE  /\ pins'[n] + leaked[n] + RefsOn(n_user_refs[p], n)
                     = pins[n] + leaked'[n] + RefsOn(n_user_refs'[p], n)
               /\ pins'[n] \in Int /\ leaked'[n] \in Nat
               /\ n \in WellKnown => leaked'[n] = leaked[n]
    <3>1. PICK old : old = n_user_refs[p]
      OBVIOUS
    <3>2. PICK new : new = n_user_refs'[p]
      OBVIOUS
    <3>3. /\ \A j \in AllKeys : old[j] \in Nat /\ new[j] \in Nat
          /\ \A j \in AllKeys : j # k => new[j] = old[j]
          /\ new[k] = old[k] + 1
      BY <1>1, <2>1, <2>2, <3>1, <3>2
    <3>4. /\ PinnedBy(k) = n => RefsOn(new, n) + old[k] = RefsOn(old, n) + new[k]
          /\ PinnedBy(k) # n => RefsOn(new, n) = RefsOn(old, n)
      BY <2>1, <3>3, RefsChange
    <3>5. RefsOn(new, n) \in Nat /\ RefsOn(old, n) \in Nat /\ old[k] \in Nat
      BY <2>1, <3>3, RefsNat
    <3>6. pins'[n] = (IF n = PinnedBy(k) THEN pins[n] + 1 ELSE pins[n])
          /\ leaked'[n] = leaked[n]
      BY <2>3
    <3> QED BY <1>2, <3>1, <3>2, <3>3, <3>4, <3>5, <3>6
  <2>5. /\ pins' = [n \in WellKnown \cup Others |-> pins'[n]]
        /\ leaked' = [n \in WellKnown \cup Others |-> leaked'[n]]
    BY <2>3 DEF PinInv
  <2>6. \A q \in Ids, j \in AllKeys : q # p => n_user_refs'[q][j] = n_user_refs[q][j]
    BY <2>2
  <2> QED BY <2>4, <2>5, <2>6, PinChange
<1>8. ASSUME NEW p \in Ids, NEW k \in Keys, RemoveMatch(p, k) PROVE PinInv'
  <2> DEFINE one == [x \in AllKeys |-> IF x = k THEN 1 ELSE 0]
             none == [x \in AllKeys |-> 0]
  <2>1. k \in AllKeys
    BY DEF AllKeys
  <2>2. \A q \in Ids, j \in AllKeys :
           n_user_refs'[q][j] = IF q = p /\ j = k THEN n_user_refs[p][k] - 1
                                ELSE n_user_refs[q][j]
    BY <1>8, <2>1, RemoveMatchRules DEF LinkInv
  <2>3. Unpin(one)
    BY <1>8 DEF RemoveMatch
  <2>4. PICK old : old = n_user_refs[p]
    OBVIOUS
  <2>5. PICK new : new = n_user_refs'[p]
    OBVIOUS
  <2>6. /\ \A j \in AllKeys : old[j] \in Nat /\ new[j] \in Nat
        /\ \A j \in AllKeys : j # k => new[j] = old[j]
        /\ new[k] = old[k] - 1
    BY <1>1, <2>1, <2>2, <2>4, <2>5
  <2>7. /\ \A j \in AllKeys : one[j] \in Nat /\ none[j] \in Nat /\ none[j] = 0
        /\ \A j \in AllKeys : j # k => one[j] = none[j]
        /\ one[k] = 1 /\ none[k] = 0
        /\ \A j \in AllKeys : one[j] = IF j = k THEN 1 ELSE 0
    BY <2>1
  <2> HIDE DEF one, none
  <2>8. ASSUME NEW n \in WellKnown \cup Others
        PROVE  RefsOn(new, n) + RefsOn(one, n) = RefsOn(old, n)
    <3>1. /\ PinnedBy(k) = n => RefsOn(new, n) + old[k] = RefsOn(old, n) + new[k]
          /\ PinnedBy(k) # n => RefsOn(new, n) = RefsOn(old, n)
      BY <2>1, <2>6, RefsChange
    <3>2. /\ PinnedBy(k) = n => RefsOn(one, n) + none[k] = RefsOn(none, n) + one[k]
          /\ PinnedBy(k) # n => RefsOn(one, n) = RefsOn(none, n)
      BY <2>1, <2>7, RefsChange
    <3>3. RefsOn(none, n) = 0
      BY <2>7, RefsNone
    <3>4. /\ RefsOn(new, n) \in Nat /\ RefsOn(old, n) \in Nat /\ RefsOn(one, n) \in Nat
          /\ old[k] \in Nat
      BY <2>1, <2>6, <2>7, RefsNat
    <3> QED BY <2>6, <2>7, <3>1, <3>2, <3>3, <3>4
  <2>9. \A j \in AllKeys : one[j] \in Nat /\ n_user_refs'[p][j] + one[j] = n_user_refs[p][j]
    BY <2>4, <2>5, <2>6, <2>7
  <2>10. \A n \in WellKnown \cup Others :
            RefsOn(n_user_refs'[p], n) + RefsOn(one, n) = RefsOn(n_user_refs[p], n)
    BY <2>4, <2>5, <2>8
  <2>11. \A q \in Ids, j \in AllKeys : q # p => n_user_refs'[q][j] = n_user_refs[q][j]
    BY <2>2
  <2> QED BY <1>5, <2>3, <2>9, <2>10, <2>11
<1>9. ASSUME NEW n \in WellKnown, NEW p \in Ids \cup {Nobody},
              OwnerChanges(n, p) \/ GoodbyeName(n, p)
       PROVE  PinInv'
  BY <1>9, PinSame DEF OwnerChanges, GoodbyeName, ruleVars
<1>10. CASE DriverGoodbyeEnd
  BY <1>10, PinSame DEF DriverGoodbyeEnd
<1>11. ASSUME NEW keys \in SUBSET MonitorKeys, NEW refs \in 1 .. MaxRefs,
              BecomeMonitor(keys, refs)
       PROVE  PinInv'
  <2>1. departing # Nobody /\ departing \in Ids
    BY <1>11, PeerFacts DEF BecomeMonitor, LinkInv
  <2>2. \A q \in Ids, j \in AllKeys :
           n_user_refs'[q][j] = IF q = departing THEN IF j \in keys THEN refs ELSE 0
                                ELSE n_user_refs[q][j]
    <3>1. RulesOK
      BY DEF LinkInv
    <3>2. n_user_refs' = [n_user_refs EXCEPT ![departing] =
                            [k \in AllKeys |-> IF k \in keys THEN refs ELSE 0]]
      BY <1>11 DEF BecomeMonitor
    <3> QED BY <2>1, <3>1, <3>2 DEF RulesOK
  <2>3. \A j \in AllKeys : n_user_refs[departing][j] = 0
    BY <2>1 DEF LinkInv, LeavingClean
  <2>4. /\ pins' = [n \in WellKnown \cup Others |->
                      pins[n] + refs * Cardinality({k \in keys : PinnedBy(k) = n})]
        /\ leaked' = leaked
    BY <1>11 DEF BecomeMonitor
  <2>5. ASSUME NEW n \in WellKnown \cup Others
        PROVE  /\ pins'[n] + leaked[n] + RefsOn(n_user_refs[departing], n) =
                     pins[n] + leaked'[n] + RefsOn(n_user_refs'[departing], n)
               /\ pins'[n] \in Int /\ leaked'[n] \in Nat
               /\ n \in WellKnown => leaked'[n] = leaked[n]
    <3>1. PICK old : old = n_user_refs[departing]
      OBVIOUS
    <3>2. PICK new : new = n_user_refs'[departing]
      OBVIOUS
    <3>3. RefsOn(old, n) = 0
      BY <2>3, <3>1, RefsNone
    <3>4. (\A j \in AllKeys : new[j] = IF j \in keys THEN refs ELSE 0)
          /\ keys \in SUBSET AllKeys /\ refs \in Nat
      BY <2>1, <2>2, <3>2, MatchAssumption DEF AllKeys
    <3>5. RefsOn(new, n) = refs * Cardinality({k \in keys : PinnedBy(k) = n})
      BY ONLY <3>4, RefsEven
    <3>6. RefsOn(new, n) \in Nat
      <4>1. \A j \in AllKeys : new[j] \in Nat
        BY <1>1, <2>1, <3>2
      <4> QED BY <4>1, RefsNat
    <3>7. pins'[n] = pins[n] + RefsOn(new, n) /\ leaked'[n] = leaked[n]
      BY <2>4, <3>5
    <3> QED BY <1>2, <3>1, <3>2, <3>3, <3>6, <3>7
  <2>6. /\ pins' = [n \in WellKnown \cup Others |-> pins'[n]]
        /\ leaked' = [n \in WellKnown \cup Others |-> leaked'[n]]
    BY <2>4 DEF PinInv
  <2>7. \A q \in Ids, j \in AllKeys : q # departing => n_user_refs'[q][j] = n_user_refs[q][j]
    BY <2>2
  <2> QED BY <2>1, <2>5, <2>6, <2>7, PinChange
<1>12. CASE UNCHANGED vars
  BY <1>12, PinSame DEF vars, ruleVars
<1> QED BY <1>3, <1>4, <1>6, <1>7, <1>8, <1>9, <1>10, <1>11, <1>12 DEF Next

\* Nothing is counted or pinned at first.
LEMMA CountPinInit ==
    ASSUME Init
    PROVE  CountInv /\ PinInv
<1>1. LinkInv
  BY LinkInit
<1>2. \A p \in Ids, k \in AllKeys : n_user_refs[p][k] = 0 /\ registry[p][k] = NoRegistry
  BY DEF Init
<1>3. Subscriptions = {}
  BY <1>2 DEF Subscriptions, UnlinkedFrom
<1>4. Cardinality({}) = 0
  BY FS_EmptySet
<1>5. CountInv
  <2>1. \A p \in Ids : {r \in Subscriptions : r[1] = p} = {}
    BY <1>3
  <2> QED BY <1>3, <1>4, <2>1 DEF Init, CountInv, SubscriptionsCounted
<1>6. ASSUME NEW n \in WellKnown \cup Others
      PROVE  pins[n] = leaked[n] + AllRefsOn(n_user_refs, n) /\ leaked[n] = 0
  <2> DEFINE f == [p \in Ids |-> RefsOn(n_user_refs[p], n)]
  <2>1. ASSUME NEW p \in Ids PROVE f[p] = 0
    <3>1. PICK old : old = n_user_refs[p]
      OBVIOUS
    <3>2. \A j \in AllKeys : old[j] = 0
      BY <1>2, <3>1
    <3>3. RefsOn(old, n) = 0
      BY <3>2, RefsNone
    <3> QED BY <3>1, <3>3
  <2>2. AllRefsOn(n_user_refs, n) = SumOf(f, Ids)
    BY DEF AllRefsOn
  <2>3. pins[n] = 0 /\ leaked[n] = 0
    BY DEF Init
  <2> HIDE DEF f
  <2>4. IsFiniteSet(Ids)
    BY <1>1, PeerFacts DEF LinkInv
  <2>5. \A p \in Ids : f[p] = IF p \in {} THEN 0 ELSE 0
    BY <2>1
  <2>6. SumOf(f, Ids) = 0 * Cardinality({})
    BY <2>4, <2>5, SumEven
  <2> QED BY <2>2, <2>3, <2>6, <1>4
<1>7. PinInv
  BY <1>6 DEF Init, PinInv, PinsExact, AllRefsOn, RefsOn, PinnedOn
<1> QED BY <1>5, <1>7

\* The rules that are never found are rules.
LEMMA UnheardStep ==
    ASSUME LinkInv, unheard \subseteq Ids \X AllKeys, [Next]_vars
    PROVE  unheard' \subseteq Ids \X AllKeys
<1>1. CASE Connect
  BY <1>1 DEF Connect, ruleVars
<1>2. ASSUME NEW p \in Ids, DriverHello(p) PROVE unheard' = unheard
  BY <1>2 DEF DriverHello, ruleVars
<1>3. ASSUME NEW p \in Ids, DriverGoodbye(p) PROVE unheard' \subseteq unheard
  BY <1>3 DEF DriverGoodbye
<1>4. ASSUME NEW p \in Ids, NEW k \in Keys, AddMatch(p, k)
      PROVE  unheard' \subseteq unheard \cup {<<p, k>>}
  BY <1>4 DEF AddMatch
<1>5. ASSUME NEW p \in Ids, NEW k \in Keys, RemoveMatch(p, k)
      PROVE  unheard' \subseteq unheard
  BY <1>5 DEF RemoveMatch
<1>6. ASSUME NEW n \in WellKnown, NEW p \in Ids \cup {Nobody},
             OwnerChanges(n, p) \/ GoodbyeName(n, p)
      PROVE  unheard' = unheard
  BY <1>6 DEF OwnerChanges, GoodbyeName, ruleVars
<1>7. CASE DriverGoodbyeEnd
  BY <1>7 DEF DriverGoodbyeEnd
<1>8. ASSUME NEW keys \in SUBSET MonitorKeys, NEW refs \in 1 .. MaxRefs,
             BecomeMonitor(keys, refs)
      PROVE  unheard' \subseteq Ids \X AllKeys
  <2>1. departing \in Ids
    BY <1>8, PeerFacts DEF BecomeMonitor, LinkInv
  <2>2. unheard' \subseteq unheard \cup {<<departing, k>> : k \in keys}
    BY <1>8 DEF BecomeMonitor
  <2> QED BY <2>1, <2>2 DEF AllKeys
<1>9. CASE UNCHANGED vars
  BY <1>9 DEF vars, ruleVars
<1> QED BY <1>1, <1>2, <1>3, <1>4, <1>5, <1>6, <1>7, <1>8, <1>9 DEF Next, AllKeys

\* Whoever comes and goes, the links, counters and pins that rules leave behind
\* are those of the rules that still have a reference, for any number of peers,
\* names and rules, but for the pins of addresses that begin with a colon and
\* are no unique name: peer_free() finds nothing left.
THEOREM MatchRulesSound == Spec => []RulesSound
<1> DEFINE Inv == LinkInv /\ CountInv /\ PinInv /\ unheard \subseteq Ids \X AllKeys
<1>1. Init => Inv
  <2>1. Init => unheard \subseteq Ids \X AllKeys
    BY DEF Init
  <2> QED BY <2>1, LinkInit, CountPinInit
<1>2. Inv /\ [Next]_vars => Inv'
  <2> SUFFICES ASSUME Inv, [Next]_vars PROVE Inv'
    OBVIOUS
  <2>1. LinkInv'
    BY LinkStep
  <2> QED BY <2>1, CountStep, PinStep, UnheardStep
<1>3. Inv => RulesSound
  <2> SUFFICES ASSUME Inv PROVE RulesSound
    OBVIOUS
  <2>1. n_monitors \in Nat
    BY PeerFacts, FS_CardinalityType DEF LinkInv, PeersOK
  <2>2. MTypeOK
    BY <2>1 DEF MTypeOK, LinkInv, PeersOK, RulesOK, CountInv, PinInv
  <2> QED BY <2>2 DEF RulesSound, LinkInv, CountInv, PinInv
<1> QED BY <1>1, <1>2, <1>3, PTL DEF Spec

-----------------------------------------------------------------------------
(* Delivery *)

\* The kinds of the two addresses of a rule.
LEMMA RuleKinds ==
    ASSUME NEW k \in AllKeys
    PROVE  /\ k.sender.kind \in {"none", "driver", "id", "name", "other"}
           /\ k.noc.kind \in {"none", "driver", "id", "name", "other"}
           /\ k.sender.kind = "id" => k.sender.of \in Ids
           /\ k.sender.kind \in {"name", "other"} => k.sender.of \in WellKnown \cup Others
           /\ k.noc.kind = "id" => k.noc.of \in Ids
           /\ k.noc.kind \in {"name", "other"} => k.noc.of \in WellKnown \cup Others
  BY Rules, Addresses

\* peer_link_match() locates a rule, unless it is too early.
LEMMA PlaceLocates ==
    ASSUME PeersOK, NEW k \in AllKeys, NEW peers \in SUBSET Ids,
           RegistryOf(k, peers) = NoRegistry => ~TooEarly(k)
    PROVE  Located(k, RegistryOf(k, peers), Past, peers, peers)
<1> DEFINE s == k.sender
           c == k.noc
           here == RegistryOf(k, peers)
<1>1. here = CASE s.kind = "none" -> Wildcard
               [] s.kind = "driver" ->
                     CASE c.kind \in {"none", "driver"} -> DriverRegistry
                       [] c.kind = "id" -> Found(c.of, "noc", DriverRegistry, peers)
                       [] OTHER -> <<"noc", c.of>>
               [] s.kind = "id" -> Found(s.of, "sender", Wildcard, peers)
               [] OTHER -> <<"sender", s.of>>
  BY DEF RegistryOf
<1>2. /\ s.kind \in {"none", "driver", "id", "name", "other"}
      /\ c.kind \in {"none", "driver", "id", "name", "other"}
      /\ s.kind = "id" => s.of \in Ids
      /\ c.kind = "id" => c.of \in Ids
  BY RuleKinds
<1>3. /\ s.kind = "id" /\ here = NoRegistry => s.of \notin connected \ greeted
      /\ s.kind = "driver" /\ c.kind = "id" /\ here = NoRegistry =>
            c.of \notin connected \ greeted
  BY DEF TooEarly, Target
<1>4. Located(k, here, Past, peers, peers) <=>
        /\ s.kind = "none" => here = Wildcard
        /\ s.kind \in {"name", "other"} => here = <<"sender", s.of>>
        /\ s.kind = "id" =>
              /\ here \in {<<"sender", s.of>>, Wildcard, NoRegistry}
              /\ here = NoRegistry => s.of \in Past \ peers
        /\ s.kind = "driver" =>
              /\ c.kind \in {"none", "driver"} => here = DriverRegistry
              /\ c.kind \in {"name", "other"} => here = <<"noc", c.of>>
              /\ c.kind = "id" =>
                    /\ here \in {<<"noc", c.of>>, DriverRegistry, NoRegistry}
                    /\ here = NoRegistry => c.of \in Past \ peers
  BY DEF Located
<1>5. ASSUME NEW q \in Ids, NEW kind \in {"sender", "noc"},
             NEW fallback \in {Wildcard, DriverRegistry}
      PROVE  LET f == Found(q, kind, fallback, peers)
             IN  /\ f \in {<<kind, q>>, fallback, NoRegistry}
                 /\ f = NoRegistry /\ q \notin connected \ greeted => q \in Past \ peers
  <2>1. q \in Nat /\ ids \in Nat /\ (~(q >= ids) => q \in 0 .. ids - 1)
    BY PeerFacts, MatchAssumption DEF Ids
  <2>2. Wildcard # NoRegistry /\ DriverRegistry # NoRegistry /\ <<kind, q>> # NoRegistry
    BY DEF Wildcard, DriverRegistry, NoRegistry
  <2> QED BY <2>1, <2>2 DEF Found, Past
<1> SUFFICES Located(k, here, Past, peers, peers)
  OBVIOUS
<1> HIDE DEF s, c, here
<1>6. CASE s.kind = "none"
  BY <1>1, <1>4, <1>6
<1>7. CASE s.kind = "driver"
  <2>1. CASE c.kind \in {"none", "driver"}
    BY <2>1, <1>1, <1>4, <1>7
  <2>2. CASE c.kind = "id"
    <3>1. here = Found(c.of, "noc", DriverRegistry, peers)
      BY <2>2, <1>1, <1>7
    <3>2. here \in {<<"noc", c.of>>, DriverRegistry, NoRegistry}
          /\ (here = NoRegistry => c.of \in Past \ peers)
      BY <2>2, <3>1, <1>2, <1>3, <1>5, <1>7
    <3> QED BY <3>2, <2>2, <1>4, <1>7
  <2>3. CASE c.kind \in {"name", "other"}
    BY <2>3, <1>1, <1>4, <1>7
  <2> QED BY <2>1, <2>2, <2>3, <1>2
<1>8. CASE s.kind = "id"
  <2>1. here = Found(s.of, "sender", Wildcard, peers)
    BY <1>1, <1>8
  <2>2. here \in {<<"sender", s.of>>, Wildcard, NoRegistry}
        /\ (here = NoRegistry => s.of \in Past \ peers)
    BY <2>1, <1>2, <1>3, <1>5, <1>8
  <2> QED BY <2>2, <1>4, <1>8
<1>9. CASE s.kind \in {"name", "other"}
  BY <1>1, <1>4, <1>9
<1> QED BY <1>2, <1>6, <1>7, <1>8, <1>9

\* A rule stays located while no peer comes that was there before.
LEMMA LocatedKept ==
    ASSUME NEW k, NEW here, NEW came, NEW senders, NEW there,
           Located(k, here, came, senders, there),
           NEW came2, NEW senders2, NEW there2,
           came \subseteq came2, senders2 \cap came \subseteq senders,
           there2 \cap came \subseteq there
    PROVE  Located(k, here, came2, senders2, there2)
  BY DEF Located

\* A rule on a peer that is unlinked because the peer leaves is still located.
LEMMA LocatedGone ==
    ASSUME NEW k \in AllKeys, NEW q \in Ids, NEW kind \in {"sender", "noc"},
           NEW came, NEW senders, NEW there,
           Located(k, <<kind, q>>, came, senders, there),
           q \in came, kind = "sender" => q \notin senders, kind = "noc" => q \notin there
    PROVE  Located(k, NoRegistry, came, senders, there)
<1> DEFINE here == <<kind, q>>
<1>1. Ids \cap (WellKnown \cup Others) = {}
  BY MatchAssumption
<1>2. /\ here # Wildcard /\ here # DriverRegistry
      /\ \A t : here = <<"sender", t>> => kind = "sender" /\ t = q
      /\ \A t : here = <<"noc", t>> => kind = "noc" /\ t = q
  BY DEF Wildcard, DriverRegistry
<1>3. Located(k, here, came, senders, there)
  OBVIOUS
<1> HIDE DEF here
<1>4. CASE k.sender.kind = "id"
  BY <1>2, <1>3, <1>4 DEF Located
<1>5. CASE k.sender.kind = "driver"
  <2>1. k.noc.kind = "id"
    BY <1>1, <1>2, <1>3, <1>5, RuleKinds DEF Located
  <2> QED BY <2>1, <1>2, <1>3, <1>5 DEF Located
<1>6. CASE k.sender.kind \notin {"id", "driver"}
  BY <1>1, <1>2, <1>3, <1>6, RuleKinds DEF Located
<1> QED BY <1>4, <1>5, <1>6

\* Peers that have come stay in the past, and none of them comes again.
LEMMA PastGrows ==
    ASSUME PeersOK, [Next]_vars
    PROVE  Past \subseteq Past' /\ registered' \cap Past \subseteq registered
<1> USE PeerFacts
<1>1. CASE Connect
  <2>1. /\ ids' = ids + 1 /\ connected' = connected \cup {ids}
        /\ UNCHANGED <<registered, greeted>>
    BY <1>1 DEF Connect
  <2>2. 0 .. ids - 1 \subseteq 0 .. ids' - 1 /\ ids \notin 0 .. ids - 1
    BY <2>1
  <2> QED BY <2>1, <2>2 DEF Past
<1>2. ASSUME NEW p \in Ids, DriverHello(p)
      PROVE  Past \subseteq Past' /\ registered' \cap Past \subseteq registered
  BY <1>2 DEF DriverHello, Past
<1>3. ASSUME NEW p \in Ids, DriverGoodbye(p)
      PROVE  Past \subseteq Past' /\ registered' \cap Past \subseteq registered
  BY <1>3 DEF DriverGoodbye, Past
<1>4. ASSUME NEW p \in Ids, NEW k \in Keys, AddMatch(p, k) \/ RemoveMatch(p, k)
      PROVE  UNCHANGED peerVars
  BY <1>4 DEF AddMatch, RemoveMatch
<1>5. ASSUME NEW n \in WellKnown, NEW p \in Ids \cup {Nobody},
             OwnerChanges(n, p) \/ GoodbyeName(n, p)
      PROVE  UNCHANGED peerVars
  BY <1>5 DEF OwnerChanges, GoodbyeName
<1>6. UNCHANGED peerVars => Past' = Past /\ registered' = registered
  BY DEF peerVars, Past
<1>7. CASE DriverGoodbyeEnd
  BY <1>7 DEF DriverGoodbyeEnd, Goodbye, Past
<1>8. ASSUME NEW keys \in SUBSET MonitorKeys, NEW refs \in 1 .. MaxRefs,
             BecomeMonitor(keys, refs)
      PROVE  Past \subseteq Past' /\ registered' \cap Past \subseteq registered
  BY <1>8 DEF BecomeMonitor, Past
<1>9. CASE UNCHANGED vars
  BY <1>9, <1>6 DEF vars
<1> QED BY <1>1, <1>2, <1>3, <1>4, <1>5, <1>6, <1>7, <1>8, <1>9 DEF Next

\* Registered peers have come.
LEMMA PastRegistered ==
    ASSUME PeersOK
    PROVE  registered \subseteq Past
  BY DEF PeersOK, Past

\* A step that moves no rule and leaves the same peers to be heard of.
LEMMA PlaceKept ==
    ASSUME PlaceInv, Past \subseteq Past', monitors' = monitors, departing' = departing,
           registered' \cap Past \subseteq registered,
           UNCHANGED <<n_user_refs, registry, unheard>>
    PROVE  PlaceInv'
<1> SUFFICES ASSUME NEW p \in Ids, NEW k \in AllKeys, n_user_refs[p][k] > 0
             PROVE  Placed(p, k)'
  BY DEF PlaceInv
<1>1. Placed(p, k)
  BY DEF PlaceInv
<1>2. InPlace(p, k) => Located(k, registry[p][k], Past', registered' \ {departing'}, registered')
  <2>1. (registered' \ {departing'}) \cap Past \subseteq registered \ {departing}
    OBVIOUS
  <2> QED BY <2>1, LocatedKept DEF InPlace
<1> QED BY <1>1, <1>2 DEF Placed, InPlace, OnOwner

\* AddMatch locates the rule, unless it is linked already or too early.
LEMMA AddMatchPlace ==
    ASSUME LinkInv, PlaceInv, NEW p \in Ids, NEW k \in AllKeys, AddMatch(p, k)
    PROVE  PlaceInv'
<1> DEFINE place == RegistryOf(k, registered)
<1>1. /\ UNCHANGED <<ids, connected, greeted, registered, monitors, departing>>
      /\ departing = Nobody /\ p \in registered
  BY DEF AddMatch, Idle, peerVars
<1>2. /\ \A q \in Ids, j \in AllKeys :
            n_user_refs'[q][j] = IF q = p /\ j = k THEN n_user_refs[p][k] + 1
                                 ELSE n_user_refs[q][j]
      /\ \A q \in Ids, j \in AllKeys :
            registry'[q][j] = IF q = p /\ j = k /\ registry[p][k] = NoRegistry
                              THEN place
                              ELSE registry[q][j]
  BY AddMatchRules DEF LinkInv
<1>3. registered \in SUBSET Ids /\ Nobody \notin Ids /\ p \notin monitors
  BY <1>1, PeerFacts DEF LinkInv, PeersOK
<1>4. registered \ {departing} = registered /\ Past' = Past
  BY <1>1, <1>3 DEF Past
<1>5. (place = NoRegistry => ~TooEarly(k)) => Located(k, place, Past, registered, registered)
  BY <1>3, PlaceLocates DEF LinkInv
<1>6. unheard' = IF registry[p][k] = NoRegistry /\ place # NoRegistry THEN unheard \ {<<p, k>>}
                 ELSE IF registry[p][k] = NoRegistry /\ TooEarly(k)
                 THEN unheard \cup {<<p, k>>} ELSE unheard
  BY DEF AddMatch
<1> SUFFICES ASSUME NEW q \in Ids, NEW j \in AllKeys, n_user_refs'[q][j] > 0
             PROVE  Placed(q, j)'
  BY <1>1 DEF PlaceInv
<1>7. CASE q = p /\ j = k /\ registry[p][k] = NoRegistry
  <2>1. registry'[q][j] = place /\ q \notin monitors
    BY <1>2, <1>3, <1>7
  <2>2. CASE <<p, k>> \in unheard'
    <3>1. place = NoRegistry
      BY <2>2, <1>6, <1>7
    <3> QED BY <2>1, <2>2, <3>1, <1>1, <1>7 DEF Placed
  <2>3. CASE <<p, k>> \notin unheard'
    <3>1. place = NoRegistry => ~TooEarly(k)
      BY <2>3, <1>6, <1>7
    <3>2. InPlace(q, j)'
      BY <2>1, <3>1, <1>1, <1>4, <1>5, <1>7 DEF InPlace
    <3> QED BY <2>1, <2>3, <3>2, <1>1, <1>7 DEF Placed
  <2> QED BY <2>2, <2>3
<1>8. CASE ~(q = p /\ j = k /\ registry[p][k] = NoRegistry)
  <2>1. registry'[q][j] = registry[q][j]
    BY <1>2, <1>8
  <2>2. n_user_refs[q][j] > 0
    <3>1. CASE q = p /\ j = k
      BY <3>1, <1>8 DEF LinkInv, NoDanglingRules
    <3>2. CASE ~(q = p /\ j = k)
      BY <3>2, <1>2
    <3> QED BY <3>1, <3>2
  <2>3. <<q, j>> \in unheard' <=> <<q, j>> \in unheard
    BY <1>6, <1>8
  <2>4. Placed(q, j)
    BY <2>2 DEF PlaceInv
  <2>5. InPlace(q, j)' <=> InPlace(q, j)
    BY <2>1, <1>1, <1>4 DEF InPlace
  <2> QED BY <2>1, <2>3, <2>4, <2>5, <1>1 DEF Placed, OnOwner
<1> QED BY <1>7, <1>8

\* What a goodbye unlinks at first and in the end stays located.
LEMMA GoodbyeBeginPlace ==
    ASSUME LinkInv, PlaceInv, NEW p \in Ids, DriverGoodbye(p)
    PROVE  PlaceInv'
<1>1. /\ UNCHANGED <<ids, connected, greeted, registered, monitors>>
      /\ departing = Nobody /\ departing' = p /\ unheard' = unheard \ RulesOf(p)
  BY DEF DriverGoodbye, Idle
<1>2. /\ \A q \in Ids, j \in AllKeys :
            n_user_refs'[q][j] = IF q = p THEN 0 ELSE n_user_refs[q][j]
      /\ \A q \in Ids, j \in AllKeys :
            registry'[q][j] = IF q = p \/ registry[q][j] = <<"sender", p>>
                              THEN NoRegistry ELSE registry[q][j]
  BY GoodbyeBeginRules DEF LinkInv
<1>3. Past' = Past /\ \A j \in AllKeys : <<p, j>> \notin unheard'
  BY <1>1 DEF Past, RulesOf
<1> SUFFICES ASSUME NEW q \in Ids, NEW j \in AllKeys, n_user_refs'[q][j] > 0
             PROVE  Placed(q, j)'
  BY <1>1, <1>3 DEF PlaceInv
<1>4. /\ q # p /\ Placed(q, j)
      /\ registry'[q][j] = IF registry[q][j] = <<"sender", p>> THEN NoRegistry
                           ELSE registry[q][j]
      /\ <<q, j>> \in unheard' <=> <<q, j>> \in unheard
  BY <1>1, <1>2 DEF PlaceInv, RulesOf
<1>5. InPlace(q, j) => Located(j, registry[q][j], Past, registered \ {p}, registered)
  <2>1. (registered \ {p}) \cap Past \subseteq registered \ {departing}
    BY <1>1, PeerFacts DEF LinkInv
  <2> QED BY <2>1, LocatedKept DEF InPlace
<1>6. CASE registry[q][j] = <<"sender", p>>
  <2>1. p \in Past
    BY <1>6, LinkKinds, PastRegistered DEF LinkInv, NoDanglingRules
  <2>2. InPlace(q, j) => Located(j, NoRegistry, Past, registered \ {p}, registered)
    <3> SUFFICES ASSUME InPlace(q, j)
                 PROVE  Located(j, NoRegistry, Past, registered \ {p}, registered)
      OBVIOUS
    <3>1. Located(j, <<"sender", p>>, Past, registered \ {p}, registered)
      BY <1>5, <1>6
    <3> QED BY <2>1, <3>1, LocatedGone
  <2>3. InPlace(q, j) => InPlace(q, j)'
    BY <2>2, <1>1, <1>3, <1>4, <1>6 DEF InPlace
  <2>4. registry'[q][j] = NoRegistry /\ ~OnOwner(NoRegistry)
    BY <1>4, <1>6 DEF OnOwner, NoRegistry
  <2> QED BY <2>3, <2>4, <1>1, <1>4 DEF Placed
<1>7. CASE registry[q][j] # <<"sender", p>>
  <2>1. InPlace(q, j) => InPlace(q, j)'
    BY <1>1, <1>3, <1>4, <1>5, <1>7 DEF InPlace
  <2> QED BY <2>1, <1>1, <1>4, <1>7 DEF Placed, OnOwner
<1> QED BY <1>6, <1>7

\* A rule that the end of a goodbye unlinks, or leaves alone.
LEMMA GoneLastLocated ==
    ASSUME LinkInv, departing # Nobody, NEW q \in Ids, NEW j \in AllKeys, InPlace(q, j),
           NEW here, here = IF registry[q][j] = <<"noc", departing>> THEN NoRegistry
                            ELSE registry[q][j]
    PROVE  Located(j, here, Past, registered \ {departing}, registered \ {departing})
<1> DEFINE rest == registered \ {departing}
<1>1. Located(j, registry[q][j], Past, rest, registered)
  BY DEF InPlace
<1>2. rest \cap Past \subseteq rest /\ rest \cap Past \subseteq registered
  OBVIOUS
<1>3. Located(j, registry[q][j], Past, rest, rest)
  <2> HIDE DEF rest
  <2> QED BY <1>1, <1>2, LocatedKept
<1>4. CASE registry[q][j] = <<"noc", departing>>
  <2>1. departing \in Ids /\ departing \in Past
    BY <1>4, PeerFacts, LinkKinds, PastRegistered DEF LinkInv, NoDanglingRules
  <2>2. Located(j, <<"noc", departing>>, Past, rest, rest) /\ departing \notin rest
    BY <1>3, <1>4
  <2>3. Located(j, NoRegistry, Past, rest, rest)
    <3> HIDE DEF rest
    <3> QED BY <2>1, <2>2, LocatedGone
  <2> QED BY <2>3, <1>4
<1>5. CASE registry[q][j] # <<"noc", departing>>
  BY <1>3, <1>5
<1> QED BY <1>4, <1>5

\* The same for all that is asked of a rule.
LEMMA GoneLastPlaced ==
    ASSUME LinkInv, PlaceInv, departing # Nobody, NEW q \in Ids, NEW j \in AllKeys,
           n_user_refs[q][j] > 0, q # departing,
           UNCHANGED <<ids, greeted>>, Past' = Past, departing' = Nobody,
           registered' = registered \ {departing},
           q \in monitors' <=> q \in monitors,
           <<q, j>> \in unheard' <=> <<q, j>> \in unheard,
           registry'[q][j] = IF registry[q][j] = <<"noc", departing>> THEN NoRegistry
                             ELSE registry[q][j]
    PROVE  Placed(q, j)'
<1>1. Placed(q, j)
  BY DEF PlaceInv
<1>2. InPlace(q, j) => InPlace(q, j)'
  <2>1. registered' \ {departing'} = registered \ {departing}
    BY PeerFacts DEF LinkInv
  <2> QED BY <2>1, GoneLastLocated DEF InPlace
<1>3. ~OnOwner(NoRegistry)
  BY DEF OnOwner, NoRegistry
<1> QED BY <1>1, <1>2, <1>3 DEF Placed, OnOwner

\* Rules stay where bus_get_broadcast_destinations() looks for them.
LEMMA PlaceStep ==
    ASSUME LinkInv, PlaceInv, [Next]_vars
    PROVE  PlaceInv'
<1>1. /\ Nobody \notin Ids /\ registered \subseteq Ids
      /\ Past \subseteq Past' /\ registered' \cap Past \subseteq registered
  BY PeerFacts, PastGrows DEF LinkInv
<1>2. CASE Connect
  BY <1>1, <1>2, PlaceKept DEF Connect, ruleVars
<1>3. ASSUME NEW p \in Ids, DriverHello(p) PROVE PlaceInv'
  BY <1>1, <1>3, PlaceKept DEF DriverHello, ruleVars
<1>4. ASSUME NEW p \in Ids, DriverGoodbye(p) PROVE PlaceInv'
  BY <1>4, GoodbyeBeginPlace
<1>5. ASSUME NEW p \in Ids, NEW k \in Keys, AddMatch(p, k) PROVE PlaceInv'
  BY <1>5, AddMatchPlace DEF AllKeys
<1>6. ASSUME NEW p \in Ids, NEW k \in Keys, RemoveMatch(p, k) PROVE PlaceInv'
  <2>1. /\ UNCHANGED <<ids, connected, greeted, registered, monitors, departing>>
        /\ departing = Nobody
        /\ unheard' = IF n_user_refs[p][k] = 1 THEN unheard \ {<<p, k>>} ELSE unheard
    BY <1>6 DEF RemoveMatch, peerVars, Idle, LastRef
  <2>2. k \in AllKeys /\ Past' = Past
    BY <2>1 DEF AllKeys, Past
  <2>3. /\ \A q \in Ids, j \in AllKeys :
              n_user_refs'[q][j] = IF q = p /\ j = k THEN n_user_refs[p][k] - 1
                                   ELSE n_user_refs[q][j]
        /\ \A q \in Ids, j \in AllKeys :
              registry'[q][j] = IF q = p /\ j = k /\ n_user_refs[p][k] = 1
                                THEN NoRegistry ELSE registry[q][j]
    BY <1>6, <2>2, RemoveMatchRules DEF LinkInv
  <2>4. \A q \in Ids, j \in AllKeys : n_user_refs[q][j] \in Nat
    <3>1. 0 .. MaxRefs \subseteq Nat
      BY MatchAssumption
    <3> QED BY <3>1 DEF LinkInv, RulesOK
  <2>5. \A q \in Ids, j \in AllKeys : n_user_refs'[q][j] > 0 =>
           /\ n_user_refs[q][j] > 0 /\ registry'[q][j] = registry[q][j]
           /\ <<q, j>> \in unheard' <=> <<q, j>> \in unheard
    BY <2>1, <2>3, <2>4
  <2> SUFFICES ASSUME NEW q \in Ids, NEW j \in AllKeys, n_user_refs'[q][j] > 0
               PROVE  Placed(q, j)'
    BY <2>1 DEF PlaceInv
  <2>6. Placed(q, j) /\ (InPlace(q, j)' <=> InPlace(q, j))
    BY <2>1, <2>2, <2>5 DEF PlaceInv, InPlace
  <2> QED BY <2>1, <2>5, <2>6 DEF Placed, OnOwner
<1>7. ASSUME NEW n \in WellKnown, NEW p \in Ids \cup {Nobody},
             OwnerChanges(n, p) \/ GoodbyeName(n, p)
      PROVE  PlaceInv'
  <2>1. UNCHANGED <<peerVars, ruleVars>>
    BY <1>7 DEF OwnerChanges, GoodbyeName
  <2> QED BY <1>1, <2>1, PlaceKept DEF peerVars, ruleVars
<1>8. CASE DriverGoodbyeEnd
  <2>1. /\ registered' = registered \ {departing} /\ departing # Nobody /\ departing' = Nobody
        /\ UNCHANGED <<ids, greeted, unheard>> /\ monitors' = monitors \ {departing}
        /\ connected' = connected \ {departing}
    BY <1>8 DEF DriverGoodbyeEnd, Goodbye
  <2>2. /\ n_user_refs' = n_user_refs
        /\ \A q \in Ids, j \in AllKeys :
              registry'[q][j] = IF registry[q][j] = <<"noc", departing>>
                                THEN NoRegistry ELSE registry[q][j]
    BY <1>8, GoodbyeEndRules DEF LinkInv
  <2> SUFFICES ASSUME NEW q \in Ids, NEW j \in AllKeys, n_user_refs[q][j] > 0
               PROVE  Placed(q, j)'
    BY <2>1, <2>2 DEF PlaceInv
  <2>3. q # departing /\ (q \in monitors' <=> q \in monitors)
    BY <2>1 DEF LinkInv, LeavingClean
  <2>4. InPlace(q, j) => InPlace(q, j)'
    <3> SUFFICES ASSUME InPlace(q, j) PROVE InPlace(q, j)'
      OBVIOUS
    <3>1. Located(j, registry'[q][j], Past, registered \ {departing}, registered \ {departing})
      BY <2>1, <2>2, GoneLastLocated
    <3>2. registered' \ {departing'} = registered \ {departing}
      BY <1>1, <2>1
    <3>3. (registered \ {departing}) \cap Past \subseteq registered \ {departing}
      OBVIOUS
    <3>4. Located(j, registry'[q][j], Past', registered \ {departing}, registered \ {departing})
      BY <1>1, <3>1, <3>3, LocatedKept
    <3> QED BY <2>1, <3>2, <3>4 DEF InPlace
  <2>5. Placed(q, j) /\ ~OnOwner(NoRegistry)
    BY DEF PlaceInv, OnOwner, NoRegistry
  <2> QED BY <2>1, <2>2, <2>3, <2>4, <2>5 DEF Placed, OnOwner
<1>9. ASSUME NEW keys \in SUBSET MonitorKeys, NEW refs \in 1 .. MaxRefs,
             BecomeMonitor(keys, refs)
      PROVE  PlaceInv'
  <2> DEFINE place(k) == RegistryOf(k, registered \ {departing})
  <2>1. /\ registered' = registered \ {departing} /\ departing # Nobody /\ departing' = Nobody
        /\ UNCHANGED <<ids, connected, greeted>> /\ monitors' = monitors \cup {departing}
        /\ unheard' = unheard \cup {<<departing, k>> : k \in {k \in keys :
              (place(k) = NoRegistry /\ TooEarly(k)) \/ OnOwner(place(k))}}
    BY <1>9 DEF BecomeMonitor
  <2>2. departing \in Ids /\ Past' = Past
    BY <2>1, PeerFacts DEF LinkInv, Past
  <2>3. /\ n_user_refs' \in [Ids -> [AllKeys -> 0 .. MaxRefs]]
        /\ \A q \in Ids, j \in AllKeys :
              n_user_refs'[q][j] = IF q = departing THEN IF j \in keys THEN refs ELSE 0
                                   ELSE n_user_refs[q][j]
        /\ registry' = [q \in Ids |-> [j \in AllKeys |-> registry'[q][j]]]
        /\ \A q \in Ids, j \in AllKeys :
              registry'[q][j] = IF q = departing /\ j \in keys
                                THEN place(j)
                                ELSE IF registry[q][j] = <<"noc", departing>>
                                THEN NoRegistry ELSE registry[q][j]
    BY <1>9, <2>2, BecomeMonitorRules DEF LinkInv
  <2>4. registered' \ {departing'} = registered \ {departing}
    BY <1>1, <2>1
  <2> SUFFICES ASSUME NEW q \in Ids, NEW j \in AllKeys, n_user_refs'[q][j] > 0
               PROVE  Placed(q, j)'
    BY <2>1 DEF PlaceInv
  <2>5. CASE q = departing
    <3>1. j \in keys /\ registered \ {departing} \in SUBSET Ids
      BY <1>1, <2>3, <2>5
    <3>2. registry'[q][j] = place(j) /\ q \in monitors'
      BY <2>1, <2>3, <2>5, <3>1
    <3>3. <<q, j>> \in unheard' <=>
             (place(j) = NoRegistry /\ TooEarly(j)) \/ OnOwner(place(j))
      <4>1. <<q, j>> \notin unheard
        BY <2>1, <2>5 DEF PlaceInv
      <4> QED BY <2>1, <2>5, <3>1, <4>1
    <3>4. (place(j) = NoRegistry => ~TooEarly(j)) =>
             Located(j, place(j), Past, registered \ {departing}, registered \ {departing})
      BY <3>1, PlaceLocates DEF LinkInv
    <3>5. <<q, j>> \notin unheard' => InPlace(q, j)'
      BY <2>1, <2>2, <2>4, <3>2, <3>3, <3>4 DEF InPlace
    <3> QED BY <3>2, <3>3, <3>5 DEF Placed, OnOwner
  <2>6. CASE q # departing
    <3>1. /\ n_user_refs[q][j] > 0
          /\ registry'[q][j] = IF registry[q][j] = <<"noc", departing>>
                               THEN NoRegistry ELSE registry[q][j]
          /\ q \in monitors' <=> q \in monitors
          /\ <<q, j>> \in unheard' <=> <<q, j>> \in unheard
      BY <2>1, <2>3, <2>6
    <3> QED BY <2>1, <2>2, <2>6, <3>1, GoneLastPlaced
  <2> QED BY <2>5, <2>6
<1>10. CASE UNCHANGED vars
  BY <1>1, <1>10, PlaceKept DEF vars, peerVars, ruleVars
<1> QED BY <1>2, <1>3, <1>4, <1>5, <1>6, <1>7, <1>8, <1>9, <1>10 DEF Next

\* What a message of the driver is, and one of a peer.
LEMMA SendableKinds ==
    ASSUME PeersOK, NEW m \in Sendable
    PROVE  \/ /\ m.sender = Driver
              /\ \/ \E p \in registered : m.about = Id(p)
                 \/ \E n \in WellKnown : m.about = [kind |-> "name", of |-> n]
           \/ \E p \in registered \ {departing} : m.sender = Id(p) /\ m.about = NoAddress
  BY DEF Sendable, OwnerChanged, Broadcasts

\* A rule that somebody gave and that can be found.
Counts(p, k) == n_user_refs[p][k] > 0 /\ <<p, k>> \notin unheard

\* A rule that is found where a message of the driver is looked up asked for it,
\* and one that asked for it is found.
LEMMA DriverFound ==
    ASSUME LinkInv, PlaceInv, NEW m, m.sender = Driver, NEW p \in Ids, NEW k \in AllKeys,
           \/ \E q \in registered : m.about = Id(q)
           \/ \E n \in WellKnown : m.about = [kind |-> "name", of |-> n],
           NEW R, {Wildcard, DriverRegistry} \subseteq R,
           R \subseteq {Wildcard, DriverRegistry, <<"noc", m.about.of>>},
           p \in monitors <=> <<"noc", m.about.of>> \notin R
    PROVE  registry[p][k] \in R /\ KeysMatch(k, m) <=> Counts(p, k) /\ Wants(k, m)
<1> DEFINE here == registry[p][k]
           s == k.sender
           c == k.noc
           a == m.about
           fits == \A x \in Fields : k.fields[x] \in {"", m.fields[x]}
<1>1. KeysMatch(k, m) <=> (c # NoAddress => c = a) /\ (s.kind = "id" => s = Driver) /\ fits
  BY DEF KeysMatch
<1>2. Wants(k, m) <=> /\ \/ s = NoAddress
                         \/ s = Driver
                         \/ s.kind = "name" /\ Id(owner[s.of]) = Driver
                      /\ c \in {NoAddress, a}
                      /\ fits
  BY DEF Wants
<1>3. /\ here # NoRegistry /\ ~OnOwner(here) => Counts(p, k)
      /\ here # NoRegistry /\ p \notin monitors => Counts(p, k)
      /\ p \in monitors /\ Counts(p, k) => ~OnOwner(here)
      /\ Counts(p, k) => Located(k, here, Past, registered \ {departing}, registered)
  <2>1. here # NoRegistry => n_user_refs[p][k] > 0
    BY DEF LinkInv, NoDanglingRules
  <2>2. n_user_refs[p][k] > 0 => Placed(p, k)
    BY DEF PlaceInv
  <2> QED BY <2>1, <2>2 DEF Placed, InPlace, Counts
<1>4. /\ s.kind \in {"none", "driver", "id", "name", "other"}
      /\ s.kind = "none" <=> s = NoAddress
      /\ s.kind = "driver" <=> s = Driver
      /\ c.kind = "none" <=> c = NoAddress
  <2>1. ASSUME NEW b \in Address
        PROVE  /\ b.kind \in {"none", "driver", "id", "name", "other"}
               /\ b.kind = "none" <=> b = NoAddress
               /\ b.kind = "driver" <=> b = Driver
    BY Addresses DEF NoAddress, Driver
  <2> QED BY <2>1, Rules
<1>5. /\ s.kind = "id" => s # Driver
      /\ \A x : Id(x) # Driver
      /\ NoAddress # Driver
  BY DEF Driver, Id, NoAddress
<1>6. /\ a # NoAddress /\ a.kind \in {"id", "name"}
      /\ a.kind = "id" => a.of \in registered
  <2>1. ASSUME NEW q \in registered, a = Id(q)
        PROVE  a # NoAddress /\ a.kind = "id" /\ a.of = q
    BY <2>1 DEF Id, NoAddress
  <2>2. ASSUME NEW n \in WellKnown, a = [kind |-> "name", of |-> n]
        PROVE  a # NoAddress /\ a.kind = "name"
    BY <2>2 DEF NoAddress
  <2> HIDE DEF a
  <2>3. (\E q \in registered : a = Id(q)) \/ (\E n \in WellKnown : a = [kind |-> "name", of |-> n])
    BY DEF a
  <2> QED BY <2>1, <2>2, <2>3
<1>7. Counts(p, k) =>
        /\ s.kind = "none" => here = Wildcard
        /\ s.kind \in {"name", "other"} => here = <<"sender", s.of>>
        /\ s.kind = "id" => here \in {<<"sender", s.of>>, Wildcard, NoRegistry}
        /\ s.kind = "driver" =>
              /\ c.kind \in {"none", "driver"} => here = DriverRegistry
              /\ c.kind \in {"name", "other"} => here = <<"noc", c.of>>
              /\ c.kind = "id" => /\ here \in {<<"noc", c.of>>, DriverRegistry, NoRegistry}
                                  /\ here = NoRegistry => c.of \notin registered
  BY <1>3 DEF Located
<1>8. /\ \A x : <<"sender", x>> \notin R
      /\ NoRegistry \notin R
      /\ p \notin monitors => <<"noc", a.of>> \in R
      /\ p \in monitors /\ here \in R => ~OnOwner(here)
  BY LinkKinds DEF Wildcard, DriverRegistry, NoRegistry, OnOwner
<1>9. {Wildcard, DriverRegistry} \subseteq R
  OBVIOUS
<1> HIDE DEF here, s, c, a, fits
<1>10. ASSUME here \in R, KeysMatch(k, m)
       PROVE  Counts(p, k) /\ Wants(k, m)
  <2>1. Counts(p, k)
    BY <1>3, <1>8, <1>10
  <2>2. s.kind \in {"none", "driver"}
    BY <2>1, <1>1, <1>4, <1>5, <1>7, <1>8, <1>10
  <2> QED BY <2>1, <2>2, <1>1, <1>2, <1>4, <1>10
<1>11. ASSUME Counts(p, k), Wants(k, m)
       PROVE  here \in R /\ KeysMatch(k, m)
  <2>1. s.kind \in {"none", "driver"}
    BY <1>2, <1>4, <1>5, <1>11
  <2>2. KeysMatch(k, m)
    BY <2>1, <1>1, <1>2, <1>11
  <2>3. CASE s.kind = "none"
    BY <2>2, <2>3, <1>7, <1>9, <1>11
  <2>4. CASE s.kind = "driver" /\ c = NoAddress
    BY <2>2, <2>4, <1>4, <1>7, <1>9, <1>11
  <2>5. CASE s.kind = "driver" /\ c = a
    <3>1. here \in {<<"noc", c.of>>, DriverRegistry}
      BY <2>5, <1>6, <1>7, <1>11
    <3>2. p \in monitors => here # <<"noc", c.of>>
      <4>1. c.of \in Targets
        BY <2>5, <1>6, RuleKinds DEF c, Targets
      <4> QED BY <4>1, <1>3, <1>11 DEF OnOwner
    <3>3. p \notin monitors => <<"noc", c.of>> \in R
      BY <2>5, <1>8
    <3> QED BY <2>2, <3>1, <3>2, <3>3, <1>9
  <2> QED BY <2>1, <2>3, <2>4, <2>5, <1>2, <1>11
<1> QED BY <1>10, <1>11 DEF here

\* The same for a message of a peer: it is looked up in the registries of the
\* peer and of the names it owns.
LEMMA PeerFound ==
    ASSUME LinkInv, PlaceInv, NEW m, NEW q \in registered \ {departing},
           m.sender = Id(q), m.about = NoAddress, NEW p \in Ids, NEW k \in AllKeys,
           NEW R, R = {Wildcard} \cup NamesOf(m) \cup {<<"sender", q>>}
    PROVE  registry[p][k] \in R /\ KeysMatch(k, m) <=> Counts(p, k) /\ Wants(k, m)
<1> DEFINE here == registry[p][k]
           s == k.sender
           c == k.noc
           fits == \A x \in Fields : k.fields[x] \in {"", m.fields[x]}
<1>1. KeysMatch(k, m) <=> c = NoAddress /\ (s.kind = "id" => s = Id(q)) /\ fits
  BY DEF KeysMatch
<1>2. Wants(k, m) <=> /\ \/ s = NoAddress
                         \/ s = Id(q)
                         \/ s.kind = "name" /\ Id(owner[s.of]) = Id(q)
                      /\ c = NoAddress
                      /\ fits
  BY DEF Wants
<1>3. /\ here # NoRegistry /\ ~OnOwner(here) => Counts(p, k)
      /\ here # NoRegistry /\ p \notin monitors => Counts(p, k)
      /\ p \in monitors /\ Counts(p, k) => ~OnOwner(here)
      /\ Counts(p, k) => Located(k, here, Past, registered \ {departing}, registered)
  <2>1. here # NoRegistry => n_user_refs[p][k] > 0
    BY DEF LinkInv, NoDanglingRules
  <2>2. n_user_refs[p][k] > 0 => Placed(p, k)
    BY DEF PlaceInv
  <2> QED BY <2>1, <2>2 DEF Placed, InPlace, Counts
<1>4. /\ s.kind \in {"none", "driver", "id", "name", "other"}
      /\ s.kind = "none" <=> s = NoAddress
      /\ s.kind = "id" => s.of \in Ids /\ s = Id(s.of)
      /\ s.kind = "name" => s.of \in WellKnown
      /\ s.kind = "other" => s.of \in Others
  <2>1. ASSUME NEW b \in Address
        PROVE  /\ b.kind \in {"none", "driver", "id", "name", "other"}
               /\ b.kind = "none" <=> b = NoAddress
               /\ b.kind = "id" => b.of \in Ids /\ b = Id(b.of)
               /\ b.kind = "name" => b.of \in WellKnown
               /\ b.kind = "other" => b.of \in Others
    BY Addresses DEF NoAddress, Id
  <2> QED BY <2>1, Rules
<1>5. (\A x, y : Id(x) = Id(y) => x = y) /\ (\A x : Id(x).kind = "id" /\ Id(x).of = x)
  BY DEF Id
<1>6. /\ q \in Ids /\ q \in registered \ {departing}
      /\ Ids \cap (WellKnown \cup Others) = {} /\ WellKnown \cap Others = {}
  BY PeerFacts, MatchAssumption DEF LinkInv
<1>7. Counts(p, k) =>
        /\ s.kind = "none" => here = Wildcard
        /\ s.kind \in {"name", "other"} => here = <<"sender", s.of>>
        /\ s.kind = "id" => /\ here \in {<<"sender", s.of>>, Wildcard, NoRegistry}
                            /\ here = NoRegistry => s.of \notin registered \ {departing}
        /\ s.kind = "driver" =>
              /\ c.kind \in {"none", "driver"} => here = DriverRegistry
              /\ c.kind \in {"name", "other"} => here = <<"noc", c.of>>
              /\ c.kind = "id" => here \in {<<"noc", c.of>>, DriverRegistry, NoRegistry}
  BY <1>3 DEF Located
<1>8. /\ Wildcard \in R
      /\ \A x : <<"sender", x>> \in R <=> x = q \/ (x \in WellKnown /\ owner[x] = q)
      /\ \A x : <<"noc", x>> \notin R
      /\ NoRegistry \notin R /\ DriverRegistry \notin R
      /\ here \in R => ~OnOwner(here)
  <2>1. NamesOf(m) = {<<"sender", n>> : n \in {n \in WellKnown : owner[n] = q}}
    BY <1>5 DEF NamesOf
  <2>2. R = {Wildcard} \cup {<<"sender", n>> : n \in {n \in WellKnown : owner[n] = q}}
              \cup {<<"sender", q>>}
    BY <2>1
  <2> QED BY <2>2, LinkKinds DEF Wildcard, DriverRegistry, NoRegistry, OnOwner
<1>9. c.kind \in {"none", "driver", "id", "name", "other"}
  BY RuleKinds
<1> HIDE DEF here, s, c, fits
<1>10. ASSUME here \in R, KeysMatch(k, m)
       PROVE  Counts(p, k) /\ Wants(k, m)
  <2>1. Counts(p, k)
    BY <1>3, <1>8, <1>10
  <2>2. s.kind # "driver"
    BY <2>1, <1>7, <1>8, <1>9, <1>10
  <2>3. CASE s.kind = "none"
    BY <2>1, <2>3, <1>1, <1>2, <1>4, <1>10
  <2>4. CASE s.kind = "id"
    BY <2>1, <2>4, <1>1, <1>2, <1>10
  <2>5. CASE s.kind \in {"name", "other"}
    <3>1. here = <<"sender", s.of>>
      BY <2>1, <2>5, <1>7
    <3>2. s.of = q \/ (s.of \in WellKnown /\ owner[s.of] = q)
      BY <3>1, <1>8, <1>10
    <3>3. s.kind = "name" /\ owner[s.of] = q
      BY <2>5, <3>2, <1>4, <1>6
    <3> QED BY <2>1, <3>3, <1>1, <1>2, <1>10
  <2> QED BY <2>2, <2>3, <2>4, <2>5, <1>4
<1>11. ASSUME Counts(p, k), Wants(k, m)
       PROVE  here \in R /\ KeysMatch(k, m)
  <2>1. CASE s = NoAddress
    BY <2>1, <1>1, <1>2, <1>4, <1>7, <1>8, <1>11
  <2>2. CASE s = Id(q)
    <3>1. s.kind = "id" /\ s.of = q
      BY <2>2, <1>5
    <3>2. here \in {<<"sender", q>>, Wildcard}
      BY <3>1, <1>6, <1>7, <1>11
    <3> QED BY <2>2, <3>2, <1>1, <1>2, <1>8, <1>11
  <2>3. CASE s.kind = "name" /\ Id(owner[s.of]) = Id(q)
    <3>1. s.of \in WellKnown /\ owner[s.of] = q
      BY <2>3, <1>4, <1>5
    <3>2. here = <<"sender", s.of>>
      BY <2>3, <1>7, <1>11
    <3> QED BY <2>3, <3>1, <3>2, <1>1, <1>2, <1>8, <1>11
  <2> QED BY <2>1, <2>2, <2>3, <1>2, <1>11
<1> QED BY <1>10, <1>11 DEF here

\* The fields of a rule that matches are among those the trees are searched for.
LEMMA LookupIs ==
    ASSUME NEW who, NEW R, NEW m
    PROVE  Lookup(who, R, m) =
             {p \in who : \E k \in AllKeys : registry[p][k] \in R /\ KeysMatch(k, m)}
<1>1. ASSUME NEW k \in AllKeys, KeysMatch(k, m) PROVE k.fields \in Visited(m)
  BY <1>1, Rules DEF Visited, KeysMatch
<1> QED BY <1>1 DEF Lookup

\* With every rule in its place, every message finds those who asked for it.
LEMMA PlacedDelivers ==
    ASSUME LinkInv, PlaceInv, NEW m \in Sendable
    PROVE  /\ Subscribers(m) = Asked(Ids \ monitors, m)
           /\ Monitors(m) = Asked(monitors, m)
<1> DEFINE noc == <<"noc", m.about.of>>
           from == <<"sender", m.sender.of>>
           R == {Wildcard} \cup NamesOf(m) \cup
                (IF m.sender = Driver THEN {DriverRegistry, noc} ELSE {from})
           Q == {Wildcard} \cup NamesOf(m) \cup
                (IF m.sender = Driver THEN {DriverRegistry} ELSE {from})
<1>1. /\ \/ /\ m.sender = Driver
            /\ \/ \E p \in registered : m.about = Id(p)
               \/ \E n \in WellKnown : m.about = [kind |-> "name", of |-> n]
         \/ \E p \in registered \ {departing} : m.sender = Id(p) /\ m.about = NoAddress
  BY SendableKinds DEF LinkInv
<1>2. monitors \subseteq Ids
  BY PeerFacts DEF LinkInv
<1>3. ASSUME NEW p \in Ids, NEW k \in AllKeys
      PROVE  /\ p \notin monitors =>
                   (registry[p][k] \in R /\ KeysMatch(k, m) <=> Counts(p, k) /\ Wants(k, m))
             /\ p \in monitors =>
                   (registry[p][k] \in Q /\ KeysMatch(k, m) <=> Counts(p, k) /\ Wants(k, m))
  <2>1. CASE /\ m.sender = Driver
             /\ \/ \E q \in registered : m.about = Id(q)
                \/ \E n \in WellKnown : m.about = [kind |-> "name", of |-> n]
    <3>1. NamesOf(m) = {}
      BY <2>1 DEF NamesOf, Driver
    <3>2. /\ R = {Wildcard, DriverRegistry, noc}
          /\ Q = {Wildcard, DriverRegistry}
      BY <2>1, <3>1
    <3> HIDE DEF R, Q
    <3>3. /\ {Wildcard, DriverRegistry} \subseteq R /\ noc \in R
          /\ R \subseteq {Wildcard, DriverRegistry, <<"noc", m.about.of>>}
      BY <3>2
    <3>4. p \notin monitors =>
             (registry[p][k] \in R /\ KeysMatch(k, m) <=> Counts(p, k) /\ Wants(k, m))
      BY <2>1, <3>3, DriverFound
    <3>5. /\ {Wildcard, DriverRegistry} \subseteq Q /\ noc \notin Q
          /\ Q \subseteq {Wildcard, DriverRegistry, <<"noc", m.about.of>>}
      BY <3>2 DEF Wildcard, DriverRegistry
    <3>6. p \in monitors =>
             (registry[p][k] \in Q /\ KeysMatch(k, m) <=> Counts(p, k) /\ Wants(k, m))
      BY <2>1, <3>5, DriverFound
    <3> QED BY <3>4, <3>6
  <2>2. ASSUME NEW q \in registered \ {departing}, m.sender = Id(q), m.about = NoAddress
        PROVE  /\ R = Q
               /\ registry[p][k] \in R /\ KeysMatch(k, m) <=> Counts(p, k) /\ Wants(k, m)
    <3>1. m.sender # Driver /\ m.sender.of = q
      BY <2>2 DEF Driver, Id
    <3>2. R = {Wildcard} \cup NamesOf(m) \cup {<<"sender", q>>} /\ R = Q
      BY <3>1
    <3> HIDE DEF R, Q
    <3> QED BY <2>2, <3>2, PeerFound
  <2> HIDE DEF R, Q
  <2> QED BY <2>1, <2>2, <1>1
<1>4. Subscribers(m) = {p \in Ids \ monitors : \E k \in AllKeys :
                          registry[p][k] \in R /\ KeysMatch(k, m)}
  BY LookupIs DEF Subscribers
<1>5. Monitors(m) = IF n_monitors = 0 THEN {}
                    ELSE {p \in monitors : \E k \in AllKeys :
                            registry[p][k] \in Q /\ KeysMatch(k, m)}
  BY LookupIs DEF Monitors
<1> HIDE DEF R, Q
<1>6. Subscribers(m) = Asked(Ids \ monitors, m)
  BY <1>3, <1>4 DEF Asked, Counts
<1>7. n_monitors = 0 => monitors = {}
  BY PeerFacts, FS_EmptySet DEF LinkInv, PeersOK
<1>8. Monitors(m) = Asked(monitors, m)
  BY <1>2, <1>3, <1>5, <1>7 DEF Asked, Counts
<1> QED BY <1>6, <1>8

\* Whatever is sent reaches exactly those who asked for it with a rule that can
\* be found, for any number of peers, names and rules, while they come and go
\* and names change hands: the few registries that are looked into hold every
\* rule that applies, but for those given too early and those of monitors on
\* owners.
THEOREM DeliveryExact == Spec => []DeliveredExactly
<1> DEFINE Inv == LinkInv /\ PlaceInv
<1>1. Init => Inv
  <2>1. Init => PlaceInv
    BY DEF Init, PlaceInv
  <2> QED BY <2>1, LinkInit
<1>2. Inv /\ [Next]_vars => Inv'
  BY LinkStep, PlaceStep
<1>3. Inv => DeliveredExactly
  BY PlacedDelivers DEF DeliveredExactly
<1> QED BY <1>1, <1>2, <1>3, PTL DEF Spec

=============================================================================
