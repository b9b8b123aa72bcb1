----------------------------- MODULE NameOwners -----------------------------
(***************************************************************************)
(* What the bus promises an observer that listens to NameOwnerChanged and  *)
(* to the NameAcquired / NameLost signals of every peer:                   *)
(*                                                                         *)
(*   - a well-known name has at most one owner at a time, and ownership    *)
(*     moves in announced steps, one name per step;                        *)
(*   - the owner of a name is always a peer whose unique name is on the    *)
(*     bus: a unique name vanishes only after the last well-known name     *)
(*     left it, and it never comes back;                                   *)
(*   - what a peer was told by NameAcquired and NameLost is exactly what   *)
(*     the rest of the bus was told by NameOwnerChanged.                   *)
(*                                                                         *)
(* There are no queues, flags, counters or quotas here; NameRegistry is    *)
(* the specification that has them and implements this one.                *)
(***************************************************************************)

CONSTANTS Names,     \* well-known names
          Owners,    \* peers, by unique name
          None       \* "no owner"

VARIABLES present,   \* unique names announced as being on the bus
          departed,  \* unique names announced as gone
          owner,     \* last owner announced for each well-known name
          acquired   \* for each peer, the names it was told it owns

ovars == <<present, departed, owner, acquired>>

OInit ==
    /\ present = {}
    /\ departed = {}
    /\ owner = [n \in Names |-> None]
    /\ acquired = [o \in Owners |-> {}]

\* A unique name appears.
Join(o) ==
    /\ o \notin present \cup departed
    /\ present' = present \cup {o}
    /\ UNCHANGED <<departed, owner, acquired>>

\* A unique name disappears; it owns nothing at that point.
Leave(o) ==
    /\ o \in present
    /\ acquired[o] = {}
    /\ \A n \in Names : owner[n] # o
    /\ present' = present \ {o}
    /\ departed' = departed \cup {o}
    /\ UNCHANGED <<owner, acquired>>

\* Name n moves from its owner to new; the two peers involved are told.
Change(n, new) ==
    /\ new \in present \cup {None}
    /\ new # owner[n]
    /\ owner' = [owner EXCEPT ![n] = new]
    /\ acquired' = [o \in Owners |->
                      IF o = owner[n] THEN acquired[o] \ {n}
                      ELSE IF o = new THEN acquired[o] \cup {n}
                      ELSE acquired[o]]
    /\ UNCHANGED <<present, departed>>

ONext ==
    \/ \E o \in Owners : Join(o) \/ Leave(o)
    \/ \E n \in Names : \E new \in Owners \cup {None} : Change(n, new)

OSpec == OInit /\ [][ONext]_ovars

=============================================================================
