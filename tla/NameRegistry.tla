---------------------------- MODULE NameRegistry ----------------------------
(***************************************************************************)
(* The registry of well-known names (src/bus/name.c) with the driver       *)
(* methods that change it and the signals they send (src/bus/driver.c).    *)
(*                                                                         *)
(* Every name has a list of ownerships; the first one is the primary       *)
(* owner, the others wait in line.  A NameOwnership object is linked in    *)
(* two places that the code keeps in step by hand: the list of its name    *)
(* (ownership_list) and the tree of its owner (ownership_tree).  It is     *)
(* charged to the user of its owner.  The registry also maintains          *)
(* counters of primary ownerships and their peaks.                         *)
(*                                                                         *)
(* Signals are modelled by what their receivers know: announced and        *)
(* unique_names is what a listener of NameOwnerChanged has been told,      *)
(* told[o] is what peer o was told by NameAcquired and NameLost.           *)
(***************************************************************************)
EXTENDS Integers, FiniteSets, SequencesExt

CONSTANTS Names,        \* well-known names
          Owners,       \* name owners: the peers, by unique name
          None,         \* "no owner"
          FlagSets,     \* sets of flags a RequestName may carry
          Users,        \* accounted users
          UserOf,       \* the user a peer is accounted on
          MaxObjects    \* a user's quota of slot USER_SLOT_OBJECTS

\* The bits of the flags argument of RequestName (src/dbus/protocol.h).
Flags == {"ALLOW_REPLACEMENT", "REPLACE_EXISTING", "DO_NOT_QUEUE"}

ASSUME NamesAssumption ==
    /\ IsFiniteSet(Names)
    /\ IsFiniteSet(Owners)
    /\ None \notin Owners
    /\ FlagSets \subseteq SUBSET Flags
    /\ UserOf \in [Owners -> Users]
    /\ MaxObjects \in Nat

VARIABLES
    status,                  \* Peer.registered, and whether it was ever set
    ownership_list,          \* Name.ownership_list, first entry is primary
    flags,                   \* NameOwnership.flags of the linked ownerships
    ownership_tree,          \* NameOwner.ownership_tree, the names in it
    n_primaries,             \* NameRegistry.n_primaries
    n_primaries_peak,        \* NameRegistry.n_primaries_peak
    n_owner_primaries,       \* NameOwner.n_owner_primaries
    n_owner_primaries_peak,  \* NameRegistry.n_owner_primaries_peak
    n_objects,               \* User.slots[USER_SLOT_OBJECTS].n, what is left
    leaving,                 \* the peer whose driver_goodbye() runs, or None
    announced,               \* last owner told by NameOwnerChanged
    unique_names,            \* unique names told by NameOwnerChanged
    told                     \* names each peer was told it owns

counters == <<n_primaries, n_primaries_peak,
              n_owner_primaries, n_owner_primaries_peak>>
links == <<ownership_list, flags, ownership_tree, n_objects>>
signals == <<announced, unique_names, told>>
nvars == <<status, links, counters, leaving, signals>>

-----------------------------------------------------------------------------
(* Lists *)

\* Faulty variant: the entry stays linked.
UnlinkForgets(list, o) == list

\* c_list_unlink(): drop the entry of o, if it is linked.
Unlink(list, o) ==
    IF \E i \in DOMAIN list : list[i] = o
    THEN RemoveAt(list, CHOOSE i \in DOMAIN list : list[i] = o)
    ELSE list

\* name_primary(): the owner at the front of a list.
First(list) == IF list = <<>> THEN None ELSE list[1]
Primary(n) == First(ownership_list[n])

IsLinked(o, n) == \E i \in DOMAIN ownership_list[n] : ownership_list[n][i] = o

\* util_peak_update(): a peak is the maximum seen so far.
Peak(peak, update) == IF peak >= update THEN peak ELSE update

-----------------------------------------------------------------------------
(* Signals *)

\* Faulty variant: the old owner does not get NameLost.
NotifyChangeSilent(n, old, new) ==
    /\ announced' = [announced EXCEPT ![n] = new]
    /\ told' = [o \in Owners |->
                  IF o = new THEN told[o] \cup {n} ELSE told[o]]
    /\ UNCHANGED unique_names

\* driver_name_owner_changed() for a well-known name: NameLost to the old
\* owner, NameOwnerChanged to the subscribers, NameAcquired to the new owner.
NotifyChange(n, old, new) ==
    /\ announced' = [announced EXCEPT ![n] = new]
    /\ told' = [o \in Owners |->
                  LET kept == IF o = old THEN told[o] \ {n} ELSE told[o]
                  IN  IF o = new THEN kept \cup {n} ELSE kept]
    /\ UNCHANGED unique_names

-----------------------------------------------------------------------------
(* RequestName: name_registry_request_name() and name_ownership_update() *)

\* The ownership exists already, or its user can be charged for a new one.
CanOwn(o, n) == n \in ownership_tree[o] \/ n_objects[UserOf[o]] > 0

\* name_ownership_new() charges one object and enters the owner's tree; an
\* ownership that exists is found there.
AcquireOwnership(o, n) ==
    /\ ownership_tree' = [ownership_tree EXCEPT ![o] = @ \cup {n}]
    /\ n_objects' = IF n \in ownership_tree[o] THEN n_objects
                    ELSE [n_objects EXCEPT ![UserOf[o]] = @ - 1]

\* There is no primary owner: the requester becomes it.
RequestUnowned(o, n, f) ==
    /\ ownership_list[n] = <<>>
    /\ CanOwn(o, n)
    /\ AcquireOwnership(o, n)
    /\ ownership_list' = [ownership_list EXCEPT ![n] = <<o>>]
    /\ flags' = [flags EXCEPT ![n][o] = f]
    /\ n_primaries' = n_primaries + 1
    /\ n_primaries_peak' = Peak(n_primaries_peak, n_primaries + 1)
    /\ n_owner_primaries' = [n_owner_primaries EXCEPT ![o] = @ + 1]
    /\ n_owner_primaries_peak' =
           Peak(n_owner_primaries_peak, n_owner_primaries[o] + 1)
    /\ NotifyChange(n, None, o)

\* The requester is the primary owner already: only its flags change.
RequestOwned(o, n, f) ==
    /\ Primary(n) = o
    /\ flags' = [flags EXCEPT ![n][o] = f]
    /\ UNCHANGED <<ownership_list, ownership_tree, n_objects, counters, signals>>

\* Peer o asked not to wait in line for n.
WontQueue(o, n) == "DO_NOT_QUEUE" \in flags[n][o]

\* The requester wants to replace a primary owner that allows it.
Replaces(o, n, f) ==
    /\ Primary(n) \notin {None, o}
    /\ "REPLACE_EXISTING" \in f
    /\ "ALLOW_REPLACEMENT" \in flags[n][Primary(n)]

\* It goes to the front.  The owner it replaces is next in line, or its
\* ownership is freed if it asked not to be queued.
RequestReplace(o, n, f) ==
    LET old == Primary(n)
        drop == WontQueue(old, n)
        rest == Unlink(ownership_list[n], o)
    IN  /\ Replaces(o, n, f)
        /\ CanOwn(o, n)
        /\ ownership_list' = [ownership_list EXCEPT ![n] =
                                <<o>> \o (IF drop THEN Unlink(rest, old) ELSE rest)]
        /\ flags' = [flags EXCEPT ![n] =
                       [p \in Owners |-> IF p = o THEN f
                                         ELSE IF p = old /\ drop THEN {}
                                         ELSE @[p]]]
        /\ ownership_tree' = [p \in Owners |->
                                IF p = o THEN ownership_tree[p] \cup {n}
                                ELSE IF p = old /\ drop
                                     THEN ownership_tree[p] \ {n}
                                     ELSE ownership_tree[p]]
        /\ n_objects' = [u \in Users |->
                           n_objects[u]
                           - (IF u = UserOf[o] /\ n \notin ownership_tree[o]
                              THEN 1 ELSE 0)
                           + (IF u = UserOf[old] /\ drop THEN 1 ELSE 0)]
        /\ n_owner_primaries' = [n_owner_primaries EXCEPT ![old] = @ - 1,
                                                          ![o] = @ + 1]
        /\ n_owner_primaries_peak' =
               Peak(n_owner_primaries_peak, n_owner_primaries[o] + 1)
        /\ UNCHANGED <<n_primaries, n_primaries_peak>>
        /\ NotifyChange(n, old, o)

\* Faulty variant: a peer that waits already goes to the end of the line.
RequestQueueAgain(o, n, f) ==
    /\ Primary(n) \notin {None, o}
    /\ ~Replaces(o, n, f)
    /\ "DO_NOT_QUEUE" \notin f
    /\ CanOwn(o, n)
    /\ AcquireOwnership(o, n)
    /\ ownership_list' = [ownership_list EXCEPT ![n] = Append(Unlink(@, o), o)]
    /\ flags' = [flags EXCEPT ![n][o] = f]
    /\ UNCHANGED <<counters, signals>>

\* The requester waits in line; if it does so already it keeps its place.
RequestQueue(o, n, f) ==
    /\ Primary(n) \notin {None, o}
    /\ ~Replaces(o, n, f)
    /\ "DO_NOT_QUEUE" \notin f
    /\ CanOwn(o, n)
    /\ AcquireOwnership(o, n)
    /\ ownership_list' = [ownership_list EXCEPT ![n] =
                            IF IsLinked(o, n) THEN @ ELSE Append(@, o)]
    /\ flags' = [flags EXCEPT ![n][o] = f]
    /\ UNCHANGED <<counters, signals>>

\* The requester does not want to wait.  If it waited so far it leaves the
\* line, and its ownership is freed; a new one is freed right away.
RequestRefused(o, n, f) ==
    /\ Primary(n) \notin {None, o}
    /\ ~Replaces(o, n, f)
    /\ "DO_NOT_QUEUE" \in f
    /\ CanOwn(o, n)
    /\ ownership_list' = [ownership_list EXCEPT ![n] = Unlink(@, o)]
    /\ flags' = [flags EXCEPT ![n][o] = {}]
    /\ ownership_tree' = [ownership_tree EXCEPT ![o] = @ \ {n}]
    /\ n_objects' = IF n \in ownership_tree[o]
                    THEN [n_objects EXCEPT ![UserOf[o]] = @ + 1]
                    ELSE n_objects
    /\ UNCHANGED <<counters, signals>>

\* driver_method_request_name() of a registered peer.  NAME_E_QUOTA changes
\* nothing and is not a step.
RequestName(o, n, f) ==
    /\ leaving = None
    /\ status[o] = "registered"
    /\ \/ RequestUnowned(o, n, f)
       \/ RequestOwned(o, n, f)
       \/ RequestReplace(o, n, f)
       \/ RequestQueue(o, n, f)
       \/ RequestRefused(o, n, f)
    /\ UNCHANGED <<status, leaving>>

-----------------------------------------------------------------------------
(* ReleaseName and the end of a peer *)

\* name_ownership_release(): unlink, hand the name to the next in line if the
\* primary owner let go, free the ownership.
ReleaseOwnership(o, n) ==
    LET rest == Unlink(ownership_list[n], o)
        new == First(rest)
    IN  /\ n \in ownership_tree[o]
        /\ ownership_list' = [ownership_list EXCEPT ![n] = rest]
        /\ flags' = [flags EXCEPT ![n][o] = {}]
        /\ ownership_tree' = [ownership_tree EXCEPT ![o] = @ \ {n}]
        /\ n_objects' = [n_objects EXCEPT ![UserOf[o]] = @ + 1]
        /\ n_primaries_peak' = n_primaries_peak
        /\ \/ /\ Primary(n) = o
              /\ n_primaries' = IF new = None THEN n_primaries - 1
                                ELSE n_primaries
              /\ n_owner_primaries' = [p \in Owners |->
                    CASE p = o   -> n_owner_primaries[p] - 1
                      [] p = new -> n_owner_primaries[p] + 1
                      [] OTHER   -> n_owner_primaries[p]]
              /\ n_owner_primaries_peak' =
                    IF new = None THEN n_owner_primaries_peak
                    ELSE Peak(n_owner_primaries_peak, n_owner_primaries[new] + 1)
              /\ NotifyChange(n, o, new)
           \/ /\ Primary(n) # o
              /\ UNCHANGED <<n_primaries, n_owner_primaries,
                             n_owner_primaries_peak, signals>>

\* driver_method_release_name().  NAME_E_NOT_FOUND and NAME_E_NOT_OWNER change
\* nothing and are not steps.
ReleaseName(o, n) ==
    /\ leaving = None
    /\ status[o] = "registered"
    /\ ownership_list[n] # <<>>
    /\ ReleaseOwnership(o, n)
    /\ UNCHANGED <<status, leaving>>

\* Faulty variant: a peer that said goodbye may register again.
HelloAgain(o) ==
    /\ leaving = None
    /\ status[o] # "registered"
    /\ status' = [status EXCEPT ![o] = "registered"]
    /\ unique_names' = unique_names \cup {o}
    /\ UNCHANGED <<links, counters, leaving, announced, told>>

\* driver_method_hello(): the peer is registered and its unique name announced.
Hello(o) ==
    /\ leaving = None
    /\ status[o] = "new"
    /\ status' = [status EXCEPT ![o] = "registered"]
    /\ unique_names' = unique_names \cup {o}
    /\ UNCHANGED <<links, counters, leaving, announced, told>>

\* driver_goodbye() starts.  Until it ends nothing else runs; the ownerships
\* are released one by one.
GoodbyeBegin(o) ==
    /\ leaving = None
    /\ status[o] = "registered"
    /\ leaving' = o
    /\ UNCHANGED <<status, links, counters, signals>>

GoodbyeRelease(n) ==
    /\ leaving # None
    /\ ReleaseOwnership(leaving, n)
    /\ UNCHANGED <<status, leaving>>

\* With the ownerships gone the unique name is announced as lost, and the
\* peer is unregistered.
GoodbyeEnd ==
    /\ leaving # None
    /\ ownership_tree[leaving] = {}
    /\ unique_names' = unique_names \ {leaving}
    /\ status' = [status EXCEPT ![leaving] = "gone"]
    /\ leaving' = None
    /\ UNCHANGED <<links, counters, announced, told>>

-----------------------------------------------------------------------------
NInit ==
    /\ status = [o \in Owners |-> "new"]
    /\ ownership_list = [n \in Names |-> <<>>]
    /\ flags = [n \in Names |-> [o \in Owners |-> {}]]
    /\ ownership_tree = [o \in Owners |-> {}]
    /\ n_primaries = 0
    /\ n_primaries_peak = 0
    /\ n_owner_primaries = [o \in Owners |-> 0]
    /\ n_owner_primaries_peak = 0
    /\ n_objects = [u \in Users |-> MaxObjects]
    /\ leaving = None
    /\ announced = [n \in Names |-> None]
    /\ unique_names = {}
    /\ told = [o \in Owners |-> {}]

NNext ==
    \/ \E o \in Owners : Hello(o) \/ GoodbyeBegin(o)
    \/ \E o \in Owners, n \in Names, f \in FlagSets : RequestName(o, n, f)
    \/ \E o \in Owners, n \in Names : ReleaseName(o, n)
    \/ \E n \in Names : GoodbyeRelease(n)
    \/ GoodbyeEnd

NSpec == NInit /\ [][NNext]_nvars

-----------------------------------------------------------------------------
(* Properties *)

NTypeOK ==
    /\ status \in [Owners -> {"new", "registered", "gone"}]
    /\ ownership_list \in [Names -> Seq(Owners)]
    /\ flags \in [Names -> [Owners -> SUBSET Flags]]
    /\ ownership_tree \in [Owners -> SUBSET Names]
    /\ n_primaries \in Nat
    /\ n_primaries_peak \in Nat
    /\ n_owner_primaries \in [Owners -> Nat]
    /\ n_owner_primaries_peak \in Nat
    /\ n_objects \in [Users -> 0 .. MaxObjects]
    /\ leaving \in Owners \cup {None}
    /\ announced \in [Names -> Owners \cup {None}]
    /\ unique_names \in SUBSET Owners
    /\ told \in [Owners -> SUBSET Names]

\* A peer is in a name's list at most once, and exactly the ownerships of its
\* tree are linked: no ownership object outlives its place in the list (which
\* name_ownership_free() asserts) and none is left in a list without an owner.
Linked ==
    /\ \A n \in Names : IsInjective(ownership_list[n])
    /\ \A n \in Names, o \in Owners : n \in ownership_tree[o] <=> IsLinked(o, n)

\* An ownership with DO_NOT_QUEUE never waits in line, whatever sequence of
\* requests, replacements and releases led here: it is primary or it is gone.
NobodyQueuedUnwillingly ==
    \A n \in Names : \A i \in DOMAIN ownership_list[n] :
        i > 1 => "DO_NOT_QUEUE" \notin flags[n][ownership_list[n][i]]

\* Only registered peers own names: after driver_goodbye() has unregistered a
\* peer no list refers to its NameOwner, which is freed with the peer.
OwnersRegistered ==
    \A o \in Owners : ownership_tree[o] # {} \/ leaving = o
                       => status[o] = "registered"

OwnedNames == {n \in Names : ownership_list[n] # <<>>}
PrimariesOf(o) == {n \in Names : Primary(n) = o}

\* The incrementally maintained counters agree with the lists they count, and
\* the peaks bound them.
CountersExact ==
    /\ n_primaries = Cardinality(OwnedNames)
    /\ \A o \in Owners : n_owner_primaries[o] = Cardinality(PrimariesOf(o))
    /\ n_primaries_peak >= n_primaries
    /\ \A o \in Owners : n_owner_primaries_peak >= n_owner_primaries[o]

OwnershipsOf(u) == {w \in Owners \X Names : UserOf[w[1]] = u /\ w[2] \in ownership_tree[w[1]]}

\* Every ownership that exists is charged exactly once to the user of its
\* owner, and a freed one is credited back: nothing leaks on replacement,
\* refusal, release or disconnect.
ChargesBalance ==
    \A u \in Users : n_objects[u] + Cardinality(OwnershipsOf(u)) = MaxObjects

\* What the signals told every peer and every listener is the truth.
SignalsTruthful ==
    /\ \A n \in Names : announced[n] = Primary(n)
    /\ \A o \in Owners : told[o] = PrimariesOf(o)
    /\ unique_names = {o \in Owners : status[o] = "registered"}

\* The conjunction of the above is inductive.
NInv ==
    /\ NTypeOK
    /\ Linked
    /\ NobodyQueuedUnwillingly
    /\ OwnersRegistered
    /\ CountersExact
    /\ ChargesBalance
    /\ SignalsTruthful

Place(list, o) == CHOOSE i \in DOMAIN list : list[i] = o

\* The line is first come, first served: a step lets a peer overtake another
\* one of the same list only by making it the primary owner.
FirstComeFirstServed ==
    [][\A n \in Names : \A o, p \in Owners :
          LET old == ownership_list[n]
              new == ownership_list'[n]
          IN  /\ Contains(old, o) /\ Contains(new, o)
              /\ Contains(old, p) /\ Contains(new, p)
              /\ Place(old, o) < Place(old, p)
              /\ Place(new, p) < Place(new, o)
              => Place(new, p) = 1]_nvars

\* The registry implements what the bus promises its observers.
Observed ==
    INSTANCE NameOwners
      WITH present <- unique_names,
           departed <- {o \in Owners : status[o] = "gone"},
           owner <- announced,
           acquired <- told

ImplementsNameOwners == Observed!OSpec

=============================================================================
