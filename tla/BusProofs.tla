------------------------------ MODULE BusProofs ------------------------------
(***************************************************************************)
(* Proofs about what the bus keeps for its peers: the calls that are still *)
(* to be answered (Bus) and the resources that are charged to their users  *)
(* (UserAccounts).                                                         *)
(***************************************************************************)
EXTENDS Bus, UserAccounts, CollectionLemmas

-----------------------------------------------------------------------------
(***************************************************************************)
(* Reply slots and activation queues stay sound, no call is lost and none  *)
(* is answered twice, and a late report cancels no later activation: for   *)
(* every set of peers, names and messages and any number of activations.   *)
(*                                                                         *)
(* BInv is the inductive invariant.  What it adds to the properties:       *)
(* present is exactly the set of the peers between Hello and the end of    *)
(* driver_goodbye(); a message is in at most one place, whoever sent it,   *)
(* and in none before it was sent; and a message does not wait in the two  *)
(* queues of a name at once.                                               *)
(***************************************************************************)

OnBus(p) == peer[p] \in {"registered", "leaving", "becoming"}

OwnersOK ==
    /\ present \in SUBSET Owners
    /\ owner \in [Names -> Owners \cup {None}]
    /\ \A p \in Owners : p \in present <=> OnBus(p)

HasSlot(m) == \E p \in Owners : <<p, m>> \in replies
HasQueue(m) == \E nm \in Names : m \in Queued(nm)

\* A message is remembered in one place, and not after its reply was dropped.
OnePlace ==
    \A m \in Messages :
        /\ \A p, q \in Owners : <<p, m>> \in replies /\ <<q, m>> \in replies => p = q
        /\ \A nm, k \in Names : m \in Queued(nm) /\ m \in Queued(k) => nm = k
        /\ ~(HasSlot(m) /\ HasQueue(m))
        /\ HasSlot(m) \/ HasQueue(m) => m \notin dropped

QueuesApart ==
    \A nm \in Names : activation_requests[nm] \cap activation_messages[nm] = {}

\* Who is on the bus waits for what is remembered, and for nothing else.
Awaited ==
    \A m \in Messages : peer[From[m]] = "registered" /\ ExpectsReply(m) =>
        (m \in waiting <=> HasSlot(m) \/ HasQueue(m) \/ m \in dropped)

\* Nothing is remembered of a message before it was sent, and only who said
\* Hello has sent one.
SentBefore ==
    \A m \in Messages :
        /\ HasSlot(m) \/ HasQueue(m) \/ m \in waiting \/ m \in dropped => m \in sent
        /\ m \in sent => peer[From[m]] # "new"

BInv ==
    /\ OwnersOK
    /\ SlotsAmongPresent
    /\ ActivationQuiescent
    /\ OnePlace /\ QueuesApart
    /\ Awaited
    /\ SentBefore

-----------------------------------------------------------------------------
(* What several handlers have in common *)

\* Disconnecting peers keeps the type of shut.
LEMMA DisconnectsType ==
    ASSUME BInv, NEW S \in SUBSET Owners, Disconnects(S)
    PROVE  shut' \in SUBSET Owners
BY DEF BInv, SlotsAmongPresent, BTypeOK, Disconnects, Monitors

\* What is remembered of each message only depends on the slots and queues.
LEMMA SamePlaces ==
    ASSUME UNCHANGED <<replies, activation_requests, activation_messages>>
    PROVE  /\ \A m : HasSlot(m)' <=> HasSlot(m)
           /\ \A m : HasQueue(m)' <=> HasQueue(m)
           /\ \A nm : Queued(nm)' = Queued(nm)
BY DEF HasSlot, HasQueue, Queued

\* A peer that can be answered and does not leave has said Hello.
LEMMA FoundRegistered ==
    ASSUME BInv, Idle, NEW p \in Owners
    PROVE  Found(p) <=> peer[p] = "registered"
BY DEF BInv, OwnersOK, OnBus, Idle, Found

\* Handlers that leave the peers and the names alone.
LEMMA SameOwners ==
    ASSUME BInv, UNCHANGED <<present, owner, peer>>
    PROVE  OwnersOK'
BY DEF BInv, OwnersOK, OnBus

\* Name nm moves to new, which is on the bus, or to nobody.
LEMMA ChangeOwners ==
    ASSUME BInv, NEW nm \in Names, NEW new, Change(nm, new), UNCHANGED peer
    PROVE  /\ OwnersOK'
           /\ present' = present
           /\ \A k \in Names : k # nm => owner'[k] = owner[k]
BY DEF BInv, OwnersOK, OnBus, Change

-----------------------------------------------------------------------------
(* Messages of peers *)

\* A message that is answered at once, or that nobody owes an answer.
LEMMA NothingRememberedStep ==
    ASSUME BInv, NEW m \in Messages, Dispatches(m), shut' \in SUBSET Owners,
           UNCHANGED <<ovars, peer, waiting, replies, dropped, activations>>
    PROVE  BInv'
<1> USE DEF ovars, activations
<1>1. OwnersOK'
  BY SameOwners
<1>2. SlotsAmongPresent' /\ ActivationQuiescent' /\ QueuesApart'
  BY DEF BInv, SlotsAmongPresent, BTypeOK, ActivationQuiescent, QueuesApart,
         Queued, Dispatches
<1>3. OnePlace' /\ Awaited'
  BY SamePlaces DEF BInv, OnePlace, Awaited
<1>4. SentBefore'
  BY SamePlaces DEF BInv, SentBefore, Dispatches
<1> QED BY <1>1, <1>2, <1>3, <1>4 DEF BInv

\* driver_forward_unicast(): a call gets a slot, and waits.
LEMMA SendToPeerStep ==
    ASSUME BInv, NEW m \in Messages, NEW p \in Owners, SendToPeer(m, p)
    PROVE  BInv'
<1>1. CASE ~ExpectsReply(m)
  <2>1. shut' \in SUBSET Owners
    BY DisconnectsType DEF SendToPeer
  <2>2. Dispatches(m) /\ UNCHANGED <<ovars, peer, waiting, replies, dropped, activations>>
    BY <1>1 DEF SendToPeer
  <2> QED BY <2>1, <2>2, NothingRememberedStep
<1>2. CASE ExpectsReply(m)
  <2>1. /\ Idle /\ m \notin sent /\ peer[From[m]] = "registered" /\ sent' = sent \cup {m}
        /\ p \in present /\ ~SlotExists(p, m)
        /\ replies' = replies \cup {<<p, m>>}
        /\ waiting' = waiting \cup {m}
        /\ UNCHANGED <<ovars, peer, dropped, activations>>
        /\ Disconnects({})
    BY <1>2 DEF SendToPeer, Dispatches
  <2> USE DEF ovars, activations
  <2>2. shut' \in SUBSET Owners
    BY <2>1, DisconnectsType
  <2>3. OwnersOK'
    BY <2>1, SameOwners
  <2>4. BTypeOK'
    BY <2>1, <2>2 DEF BInv, SlotsAmongPresent, BTypeOK
  <2>5. SlotsAmongPresent'
    <3>1. \A slot \in replies' : slot[1] \in present' /\ peer'[From[slot[2]]] = "registered"
      BY <2>1 DEF BInv, SlotsAmongPresent
    <3>2. ASSUME NEW a \in replies', NEW b \in replies', a[1] = b[1],
                 From[a[2]] = From[b[2]], Serial[a[2]] = Serial[b[2]]
          PROVE  a = b
      BY <2>1, <3>2 DEF BInv, SlotsAmongPresent, SlotExists
    <3> QED BY <2>4, <3>1, <3>2 DEF SlotsAmongPresent
  <2>6. ActivationQuiescent' /\ QueuesApart'
    BY <2>1 DEF BInv, ActivationQuiescent, QueuesApart, Queued
  <2>7. /\ \A k \in Messages : k # m => (HasSlot(k)' <=> HasSlot(k))
        /\ \A k : HasQueue(k)' <=> HasQueue(k)
        /\ \A nm : Queued(nm)' = Queued(nm)
        /\ HasSlot(m)'
    BY <2>1 DEF HasSlot, HasQueue, Queued
  <2>8. ~HasSlot(m) /\ ~HasQueue(m) /\ m \notin dropped
    BY <2>1 DEF BInv, SentBefore
  <2>9. OnePlace'
    BY <2>1, <2>7, <2>8 DEF BInv, OnePlace, HasSlot
  <2>10. Awaited' /\ SentBefore'
    BY <2>1, <2>7, <2>8 DEF BInv, Awaited, SentBefore
  <2> QED BY <2>3, <2>5, <2>6, <2>9, <2>10 DEF BInv
<1> QED BY <1>1, <1>2

\* activation_request(): the name is pending from now on.
LEMMA RequestActivationStep ==
    ASSUME BInv, NEW nm \in Names, nm \in activatable, owner[nm] = None,
           RequestActivation(nm),
           UNCHANGED <<owner, activatable, failed>>
    PROVE  /\ activation_ids' \in Nat
           /\ pending' \in [Names -> 0 .. activation_ids']
           /\ failed' \in SUBSET (Names \X (1 .. activation_ids'))
           /\ pending'[nm] # 0
           /\ \A k \in Names : k # nm => pending'[k] = pending[k]
           /\ \A k \in Names : pending[k] # 0 => pending'[k] = pending[k]
           /\ \A k \in Names : pending'[k] # 0 => /\ owner'[k] = None
                                                  /\ k \in activatable'
                                                  /\ <<k, pending'[k]>> \notin failed'
<1>1. BTypeOK /\ ActivationQuiescent
  BY DEF BInv, SlotsAmongPresent
<1>2. CASE pending[nm] # 0
  <2>1. UNCHANGED <<pending, activation_ids>>
    BY <1>2 DEF RequestActivation
  <2> QED BY <1>1, <1>2, <2>1 DEF BTypeOK, ActivationQuiescent
<1>3. CASE pending[nm] = 0
  <2>1. activation_ids' = activation_ids + 1
        /\ pending' = [pending EXCEPT ![nm] = activation_ids + 1]
    BY <1>3 DEF RequestActivation
  <2>2. /\ activation_ids \in Nat
        /\ pending \in [Names -> 0 .. activation_ids]
        /\ failed \in SUBSET (Names \X (1 .. activation_ids))
    BY <1>1 DEF BTypeOK
  <2>3. \A k \in Names : pending'[k] = IF k = nm THEN activation_ids + 1 ELSE pending[k]
    BY <2>1, <2>2
  <2>4. \A k \in Names : pending'[k] \in 0 .. activation_ids'
    BY <2>1, <2>2, <2>3
  <2>5. pending' \in [Names -> 0 .. activation_ids']
    BY <2>1, <2>2, <2>4
  <2>6. 1 .. activation_ids \subseteq 1 .. activation_ids'
    BY <2>1, <2>2
  <2>7. <<nm, activation_ids + 1>> \notin failed
    BY <2>2
  <2>8. failed' \in SUBSET (Names \X (1 .. activation_ids'))
    BY <2>2, <2>6
  <2>9. \A k \in Names : pending'[k] # 0 => /\ owner'[k] = None
                                            /\ k \in activatable'
                                            /\ <<k, pending'[k]>> \notin failed'
    BY <1>1, <2>3, <2>7 DEF ActivationQuiescent
  <2> QED BY <1>3, <2>1, <2>2, <2>3, <2>5, <2>8, <2>9
<1> QED BY <1>2, <1>3

\* activation_queue_message(), activation_queue_request() and the refusal
\* after the controller has been asked: the message waits in one queue of the
\* name, or nothing is remembered of it.
LEMMA QueueStep ==
    ASSUME BInv, NEW m \in Messages, NEW nm \in Names, CanActivate(m, nm),
           shut' \in SUBSET Owners,
           NEW R \in SUBSET {m}, NEW M \in SUBSET {m}, R = {} \/ M = {},
           activation_requests' = [activation_requests EXCEPT ![nm] = @ \cup R],
           activation_messages' = [activation_messages EXCEPT ![nm] = @ \cup M],
           waiting' \in {waiting, waiting \cup {m}},
           ExpectsReply(m) => (m \in waiting' <=> R \cup M # {})
    PROVE  BInv'
<1>1. /\ Idle /\ m \notin sent /\ peer[From[m]] = "registered" /\ sent' = sent \cup {m}
      /\ nm \in activatable /\ owner[nm] = None /\ RequestActivation(nm)
      /\ UNCHANGED <<ovars, peer, replies, dropped, activatable, failed>>
  BY DEF CanActivate, Dispatches
<1> USE DEF ovars
<1>2. OwnersOK'
  BY <1>1, SameOwners
<1>3. /\ activation_ids' \in Nat
      /\ pending' \in [Names -> 0 .. activation_ids']
      /\ failed' \in SUBSET (Names \X (1 .. activation_ids'))
      /\ pending'[nm] # 0
      /\ \A k \in Names : k # nm => pending'[k] = pending[k]
      /\ \A k \in Names : pending'[k] # 0 => /\ owner'[k] = None
                                             /\ k \in activatable'
                                             /\ <<k, pending'[k]>> \notin failed'
  BY <1>1, RequestActivationStep
<1>4. /\ activation_requests' \in [Names -> SUBSET Messages]
      /\ activation_messages' \in [Names -> SUBSET Messages]
      /\ \A k \in Names : activation_requests'[k] =
            IF k = nm THEN activation_requests[nm] \cup R ELSE activation_requests[k]
      /\ \A k \in Names : activation_messages'[k] =
            IF k = nm THEN activation_messages[nm] \cup M ELSE activation_messages[k]
  BY DEF BInv, SlotsAmongPresent, BTypeOK
<1>5. BTypeOK'
  BY <1>1, <1>3, <1>4 DEF BInv, SlotsAmongPresent, BTypeOK
<1>6. SlotsAmongPresent'
  BY <1>1, <1>5 DEF BInv, SlotsAmongPresent
<1>7. \A k \in Names : Queued(k)' = IF k = nm THEN Queued(nm) \cup R \cup M ELSE Queued(k)
  BY <1>4 DEF Queued
<1>8. ActivationQuiescent'
  BY <1>3, <1>7 DEF BInv, ActivationQuiescent
<1>9. ~HasSlot(m) /\ ~HasQueue(m) /\ m \notin dropped /\ m \notin waiting
  BY <1>1 DEF BInv, SentBefore
<1>10. QueuesApart'
  BY <1>4, <1>9 DEF BInv, QueuesApart, HasQueue, Queued
<1>11. /\ \A k : HasSlot(k)' <=> HasSlot(k)
       /\ \A k \in Messages : k # m => (HasQueue(k)' <=> HasQueue(k))
       /\ HasQueue(m)' <=> R \cup M # {}
  BY <1>1, <1>7, <1>9 DEF HasSlot, HasQueue
<1>12. OnePlace'
  <2> SUFFICES ASSUME NEW k \in Messages
               PROVE  /\ \A p, q \in Owners :
                            <<p, k>> \in replies' /\ <<q, k>> \in replies' => p = q
                      /\ \A i, j \in Names : k \in Queued(i)' /\ k \in Queued(j)' => i = j
                      /\ ~(HasSlot(k)' /\ HasQueue(k)')
                      /\ HasSlot(k)' \/ HasQueue(k)' => k \notin dropped'
    BY DEF OnePlace
  <2>1. CASE k = m
    BY <2>1, <1>1, <1>7, <1>9, <1>11 DEF HasQueue, BInv, OnePlace
  <2>2. CASE k # m
    <3>1. \A i \in Names : k \in Queued(i)' <=> k \in Queued(i)
      BY <2>2, <1>7
    <3> QED BY <2>2, <3>1, <1>1, <1>11 DEF BInv, OnePlace
  <2> QED BY <2>1, <2>2
<1>13. Awaited'
  BY <1>1, <1>9, <1>11 DEF BInv, Awaited, ExpectsReply
<1>14. SentBefore'
  BY <1>1, <1>9, <1>11 DEF BInv, SentBefore
<1> QED BY <1>2, <1>6, <1>8, <1>10, <1>12, <1>13, <1>14 DEF BInv

-----------------------------------------------------------------------------
(* Replies *)

\* The slot of call m is freed, and m is answered or dropped.
LEMMA ReplyStep ==
    ASSUME BInv, NEW p \in Owners, NEW m \in Messages, <<p, m>> \in replies,
           replies' = replies \ {<<p, m>>},
           \/ waiting' = waiting \ {m} /\ dropped' = dropped
           \/ waiting' = waiting /\ dropped' = dropped \cup {m},
           shut' \in SUBSET Owners,
           UNCHANGED <<ovars, peer, sent, activations>>
    PROVE  BInv'
<1> USE DEF ovars, activations
<1>1. OwnersOK'
  BY SameOwners
<1>2. SlotsAmongPresent'
  BY DEF BInv, SlotsAmongPresent, BTypeOK
<1>3. ActivationQuiescent' /\ QueuesApart'
  BY DEF BInv, ActivationQuiescent, QueuesApart, Queued
<1>4. HasSlot(m) /\ ~HasQueue(m) /\ m \notin dropped
  BY DEF BInv, OnePlace, HasSlot
<1>5. /\ ~HasSlot(m)'
      /\ \A k \in Messages : k # m => (HasSlot(k)' <=> HasSlot(k))
      /\ \A k : HasQueue(k)' <=> HasQueue(k)
      /\ \A nm : Queued(nm)' = Queued(nm)
  BY DEF BInv, OnePlace, HasSlot, HasQueue, Queued
<1>6. OnePlace'
  BY <1>4, <1>5 DEF BInv, OnePlace
<1>7. Awaited'
  <2> SUFFICES ASSUME NEW k \in Messages, peer[From[k]] = "registered", ExpectsReply(k)
               PROVE  k \in waiting' <=> HasSlot(k)' \/ HasQueue(k)' \/ k \in dropped'
    BY DEF Awaited, ExpectsReply
  <2>1. k \in waiting <=> HasSlot(k) \/ HasQueue(k) \/ k \in dropped
    BY DEF BInv, Awaited
  <2> QED BY <2>1, <1>4, <1>5
<1>8. SentBefore'
  <2>1. m \in sent
    BY <1>4 DEF BInv, SentBefore
  <2> QED BY <2>1, <1>5 DEF BInv, SentBefore
<1> QED BY <1>1, <1>2, <1>3, <1>6, <1>7, <1>8 DEF BInv

-----------------------------------------------------------------------------
(* Names *)

\* driver_name_activated(): the requests are answered, the messages get their
\* slots or are answered with an error; the queues of the name are empty.
LEMMA TakeNameStep ==
    ASSUME BInv, NEW p \in Owners, NEW nm \in Names, TakeName(p, nm)
    PROVE  BInv'
<1> DEFINE asked == {m \in Answered(activation_messages[nm]) : ExpectsReply(m)}
<1>1. /\ Idle /\ peer[p] = "registered" /\ Change(nm, p)
      /\ pending' = [pending EXCEPT ![nm] = 0]
      /\ activation_requests' = [activation_requests EXCEPT ![nm] = {}]
      /\ activation_messages' = [activation_messages EXCEPT ![nm] = {}]
      /\ UNCHANGED <<peer, sent, dropped, activatable, activation_ids, failed>>
      /\ Disconnects(present)
  BY DEF TakeName
<1>2. PICK got \in SUBSET {m \in asked : ~SlotExists(p, m)} :
          /\ \A a, b \in got : From[a] = From[b] /\ Serial[a] = Serial[b] => a = b
          /\ replies' = replies \cup {<<p, m>> : m \in got}
          /\ waiting' = waiting \ (Answered(activation_requests[nm])
                                      \cup (asked \ got))
  BY DEF TakeName
<1>3. BTypeOK /\ present \in SUBSET Owners
  BY DEF BInv, SlotsAmongPresent, OwnersOK
<1>4. /\ activation_requests[nm] \in SUBSET Messages
      /\ activation_messages[nm] \in SUBSET Messages
  BY <1>3 DEF BTypeOK
<1>5. \A m \in got : /\ m \in activation_messages[nm] /\ m \in Messages
                     /\ ExpectsReply(m) /\ ~SlotExists(p, m)
                     /\ From[m] \in Owners /\ peer[From[m]] = "registered"
  BY <1>1, <1>4, FoundRegistered, MessagesAssumption DEF Answered
<1>6. \A m \in Messages : /\ m \in Answered(activation_requests[nm]) <=>
                              m \in activation_requests[nm] /\ peer[From[m]] = "registered"
                          /\ m \in asked <=>
                              m \in activation_messages[nm] /\ peer[From[m]] = "registered"
                              /\ ExpectsReply(m)
  BY <1>1, FoundRegistered, MessagesAssumption DEF Answered
<1> HIDE DEF asked
<1>7. /\ OwnersOK' /\ present' = present
      /\ \A k \in Names : k # nm => owner'[k] = owner[k]
  BY <1>1, ChangeOwners
<1>8. shut' \in SUBSET Owners
  BY <1>1, <1>3, DisconnectsType
<1>9. /\ activation_requests' \in [Names -> SUBSET Messages]
      /\ activation_messages' \in [Names -> SUBSET Messages]
      /\ pending' \in [Names -> 0 .. activation_ids']
      /\ pending'[nm] = 0
      /\ \A k \in Names : k # nm => pending'[k] = pending[k]
      /\ \A k \in Names : activation_requests'[k] =
            IF k = nm THEN {} ELSE activation_requests[k]
      /\ \A k \in Names : activation_messages'[k] =
            IF k = nm THEN {} ELSE activation_messages[k]
  BY <1>1, <1>3 DEF BTypeOK
<1>10. BTypeOK'
  <2>1. replies' \in SUBSET (Owners \X Messages)
    BY <1>2, <1>3, <1>5 DEF BTypeOK
  <2>2. waiting' \in SUBSET Messages
    BY <1>2, <1>3 DEF BTypeOK
  <2> QED BY <2>1, <2>2, <1>1, <1>3, <1>8, <1>9 DEF BTypeOK
<1>11. SlotsAmongPresent'
  <2>1. p \in present
    BY <1>1 DEF BInv, OwnersOK, OnBus
  <2>2. ASSUME NEW slot \in replies'
        PROVE  slot[1] \in present' /\ peer'[From[slot[2]]] = "registered"
    BY <2>1, <1>1, <1>2, <1>5, <1>7 DEF BInv, SlotsAmongPresent
  <2>3. ASSUME NEW a \in replies', NEW b \in replies', a[1] = b[1],
               From[a[2]] = From[b[2]], Serial[a[2]] = Serial[b[2]]
        PROVE  a = b
    <3>1. CASE a \in replies /\ b \in replies
      BY <2>3, <3>1 DEF BInv, SlotsAmongPresent
    <3>2. CASE a \notin replies /\ b \notin replies
      BY <2>3, <3>2, <1>2
    <3>3. CASE a \in replies /\ b \notin replies
      BY <2>3, <3>3, <1>2, <1>5 DEF SlotExists
    <3>4. CASE a \notin replies /\ b \in replies
      BY <2>3, <3>4, <1>2, <1>5 DEF SlotExists
    <3> QED BY <3>1, <3>2, <3>3, <3>4
  <2> QED BY <2>2, <2>3, <1>10 DEF SlotsAmongPresent
<1>12. \A k \in Names : Queued(k)' = IF k = nm THEN {} ELSE Queued(k)
  BY <1>9 DEF Queued
<1>13. ActivationQuiescent'
  BY <1>1, <1>7, <1>9, <1>12 DEF BInv, ActivationQuiescent
<1>14. QueuesApart'
  BY <1>9 DEF BInv, QueuesApart
<1>15. \A m \in Messages :
          /\ HasSlot(m)' <=> HasSlot(m) \/ m \in got
          /\ HasQueue(m)' <=> HasQueue(m) /\ m \notin Queued(nm)
          /\ m \in got => m \in Queued(nm) /\ HasQueue(m) /\ ~HasSlot(m) /\ m \notin dropped
  <2> SUFFICES ASSUME NEW m \in Messages
               PROVE  /\ HasSlot(m)' <=> HasSlot(m) \/ m \in got
                      /\ HasQueue(m)' <=> HasQueue(m) /\ m \notin Queued(nm)
                      /\ m \in got => /\ m \in Queued(nm) /\ HasQueue(m)
                                      /\ ~HasSlot(m) /\ m \notin dropped
    OBVIOUS
  <2>1. HasSlot(m)' <=> HasSlot(m) \/ m \in got
    BY <1>2 DEF HasSlot
  <2>2. HasQueue(m)' <=> HasQueue(m) /\ m \notin Queued(nm)
    BY <1>12 DEF HasQueue, BInv, OnePlace
  <2>3. m \in got => m \in Queued(nm) /\ HasQueue(m) /\ ~HasSlot(m) /\ m \notin dropped
    BY <1>5 DEF Queued, HasQueue, BInv, OnePlace
  <2> QED BY <2>1, <2>2, <2>3
<1>16. OnePlace'
  <2> SUFFICES ASSUME NEW m \in Messages
               PROVE  /\ \A q, r \in Owners :
                            <<q, m>> \in replies' /\ <<r, m>> \in replies' => q = r
                      /\ \A i, j \in Names : m \in Queued(i)' /\ m \in Queued(j)' => i = j
                      /\ ~(HasSlot(m)' /\ HasQueue(m)')
                      /\ HasSlot(m)' \/ HasQueue(m)' => m \notin dropped'
    BY DEF OnePlace
  <2>1. \A q, r \in Owners : <<q, m>> \in replies' /\ <<r, m>> \in replies' => q = r
    BY <1>2, <1>15 DEF BInv, OnePlace, HasSlot
  <2>2. \A i, j \in Names : m \in Queued(i)' /\ m \in Queued(j)' => i = j
    BY <1>12 DEF BInv, OnePlace
  <2>3. ~(HasSlot(m)' /\ HasQueue(m)') /\ (HasSlot(m)' \/ HasQueue(m)' => m \notin dropped')
    BY <1>1, <1>15 DEF BInv, OnePlace
  <2> QED BY <2>1, <2>2, <2>3
<1>17. Awaited'
  <2> SUFFICES ASSUME NEW m \in Messages, peer[From[m]] = "registered", ExpectsReply(m)
               PROVE  m \in waiting' <=> HasSlot(m)' \/ HasQueue(m)' \/ m \in dropped'
    BY <1>1 DEF Awaited, ExpectsReply
  <2>1. /\ m \in waiting <=> HasSlot(m) \/ HasQueue(m) \/ m \in dropped
        /\ ~(HasSlot(m) /\ HasQueue(m)) /\ (HasQueue(m) => m \notin dropped)
    BY DEF BInv, Awaited, OnePlace
  <2>2. m \in waiting' <=>
           m \in waiting /\ m \notin activation_requests[nm]
              /\ (m \in activation_messages[nm] => m \in got)
    BY <1>2, <1>6
  <2>3. m \in activation_requests[nm] => m \notin activation_messages[nm]
    BY DEF BInv, QueuesApart
  <2>4. m \in Queued(nm) => HasQueue(m)
    BY DEF HasQueue
  <2> QED BY <2>1, <2>2, <2>3, <2>4, <1>1, <1>5, <1>15 DEF Queued
<1>18. SentBefore'
  BY <1>1, <1>2, <1>15 DEF BInv, SentBefore
<1> QED BY <1>7, <1>11, <1>13, <1>14, <1>16, <1>17, <1>18 DEF BInv

\* A name that had an owner is not pending, so that it may move on.
LEMMA MoveNameStep ==
    ASSUME BInv, NEW nm \in Names, owner[nm] \in Owners, NEW q, Change(nm, q),
           Disconnects(present), UNCHANGED <<peer, calls, activations>>
    PROVE  BInv'
<1> USE DEF calls, activations
<1>1. /\ OwnersOK' /\ present' = present
      /\ \A k \in Names : k # nm => owner'[k] = owner[k]
  BY ChangeOwners
<1>2. shut' \in SUBSET Owners
  BY DisconnectsType DEF BInv, OwnersOK
<1>3. SlotsAmongPresent'
  BY <1>1, <1>2 DEF BInv, SlotsAmongPresent, BTypeOK
<1>4. pending[nm] = 0
  BY MessagesAssumption DEF BInv, ActivationQuiescent
<1>5. ActivationQuiescent' /\ QueuesApart'
  BY <1>1, <1>4 DEF BInv, ActivationQuiescent, QueuesApart, Queued
<1>6. OnePlace' /\ Awaited' /\ SentBefore'
  BY SamePlaces DEF BInv, OnePlace, Awaited, SentBefore
<1> QED BY <1>1, <1>3, <1>5, <1>6 DEF BInv

-----------------------------------------------------------------------------
(* Peers *)

\* A peer that says Hello has sent nothing before.
LEMMA HelloStep ==
    ASSUME BInv, NEW p \in Owners, Hello(p)
    PROVE  BInv'
<1> USE DEF calls, activations
<1>1. /\ peer[p] = "new" /\ peer' = [peer EXCEPT ![p] = "registered"]
      /\ present' = present \cup {p} /\ owner' = owner
      /\ UNCHANGED <<calls, activations>>
      /\ Disconnects(present \cup {p})
  BY DEF Hello, Join
<1>2. peer \in [Owners -> {"new", "registered", "leaving", "becoming", "monitor", "gone"}]
  BY DEF BInv, SlotsAmongPresent, BTypeOK
<1>3. /\ peer' \in [Owners -> {"new", "registered", "leaving", "becoming", "monitor", "gone"}]
      /\ \A q \in Owners : peer'[q] = IF q = p THEN "registered" ELSE peer[q]
  BY <1>1, <1>2
<1>4. OwnersOK'
  BY <1>1, <1>3 DEF BInv, OwnersOK, OnBus
<1>5. shut' \in SUBSET Owners
  BY <1>1, DisconnectsType DEF BInv, OwnersOK
<1>6. SlotsAmongPresent'
  <2>1. BTypeOK'
    BY <1>1, <1>3, <1>5 DEF BInv, SlotsAmongPresent, BTypeOK
  <2>2. \A slot \in replies : From[slot[2]] \in Owners
    BY MessagesAssumption DEF BInv, SlotsAmongPresent, BTypeOK
  <2> QED BY <2>1, <2>2, <1>1, <1>3 DEF BInv, SlotsAmongPresent
<1>7. ActivationQuiescent' /\ QueuesApart'
  BY <1>1 DEF BInv, ActivationQuiescent, QueuesApart, Queued
<1>8. OnePlace'
  BY <1>1, SamePlaces DEF BInv, OnePlace
<1>9. Awaited'
  <2> SUFFICES ASSUME NEW m \in Messages, peer'[From[m]] = "registered", ExpectsReply(m)
               PROVE  m \in waiting <=> HasSlot(m) \/ HasQueue(m) \/ m \in dropped
    BY <1>1, SamePlaces DEF Awaited, ExpectsReply
  <2>1. CASE From[m] = p
    BY <2>1, <1>1 DEF BInv, SentBefore
  <2>2. CASE From[m] # p
    <3>1. peer[From[m]] = "registered"
      BY <2>2, <1>3, MessagesAssumption
    <3> QED BY <3>1 DEF BInv, Awaited
  <2> QED BY <2>1, <2>2
<1>10. SentBefore'
  BY <1>1, <1>3, SamePlaces, MessagesAssumption DEF BInv, SentBefore
<1> QED BY <1>4, <1>6, <1>7, <1>8, <1>9, <1>10 DEF BInv

\* driver_goodbye() starts: the slots of the peer's own calls are freed.
LEMMA GoodbyeBeginStep ==
    ASSUME BInv, NEW p \in Owners, NEW how \in {"leaving", "becoming"},
           GoodbyeBegin(p, how)
    PROVE  BInv'
<1> USE DEF ovars, activations
<1>1. /\ Idle /\ peer[p] = "registered" /\ peer' = [peer EXCEPT ![p] = how]
      /\ replies' = {slot \in replies : From[slot[2]] # p}
      /\ waiting' = {m \in waiting : From[m] # p}
      /\ UNCHANGED <<ovars, sent, dropped, activations>>
      /\ Disconnects(IF how = "becoming" THEN {p} ELSE {})
  BY DEF GoodbyeBegin
<1>2. peer \in [Owners -> {"new", "registered", "leaving", "becoming", "monitor", "gone"}]
  BY DEF BInv, SlotsAmongPresent, BTypeOK
<1>3. /\ peer' \in [Owners -> {"new", "registered", "leaving", "becoming", "monitor", "gone"}]
      /\ \A q \in Owners : peer'[q] = IF q = p THEN how ELSE peer[q]
  BY <1>1, <1>2
<1>4. OwnersOK'
  BY <1>1, <1>3 DEF BInv, OwnersOK, OnBus
<1>5. shut' \in SUBSET Owners
  BY <1>1, DisconnectsType
<1>6. SlotsAmongPresent'
  <2>1. BTypeOK'
    BY <1>1, <1>3, <1>5 DEF BInv, SlotsAmongPresent, BTypeOK
  <2>2. \A slot \in replies : From[slot[2]] \in Owners
    BY MessagesAssumption DEF BInv, SlotsAmongPresent, BTypeOK
  <2> QED BY <2>1, <2>2, <1>1, <1>3 DEF BInv, SlotsAmongPresent
<1>7. ActivationQuiescent' /\ QueuesApart'
  BY <1>1 DEF BInv, ActivationQuiescent, QueuesApart, Queued
<1>8. /\ \A m \in Messages : HasSlot(m)' <=> HasSlot(m) /\ From[m] # p
      /\ \A m : HasQueue(m)' <=> HasQueue(m)
      /\ \A nm : Queued(nm)' = Queued(nm)
  BY <1>1 DEF HasSlot, HasQueue, Queued
<1>9. OnePlace'
  BY <1>1, <1>8 DEF BInv, OnePlace
<1>10. Awaited'
  BY <1>1, <1>3, <1>8, MessagesAssumption DEF BInv, Awaited, ExpectsReply
<1>11. SentBefore'
  BY <1>1, <1>3, <1>8, MessagesAssumption DEF BInv, SentBefore
<1> QED BY <1>4, <1>6, <1>7, <1>9, <1>10, <1>11 DEF BInv

\* It ends: whoever waits for a reply of the peer is answered.
LEMMA GoodbyeEndStep ==
    ASSUME BInv, NEW p \in Owners, GoodbyeEnd(p)
    PROVE  BInv'
<1> USE DEF activations
<1> DEFINE unanswered == {m \in Messages : <<p, m>> \in replies}
           how == IF peer[p] = "becoming" THEN "monitor" ELSE "gone"
<1>1. /\ peer[p] \in {"leaving", "becoming"} /\ peer' = [peer EXCEPT ![p] = how]
      /\ present' = present \ {p} /\ owner' = owner
      /\ replies' = {slot \in replies : slot[1] # p}
      /\ waiting' = waiting \ unanswered
      /\ UNCHANGED <<sent, dropped, activations>>
  BY DEF GoodbyeEnd, Leave
<1>2. peer \in [Owners -> {"new", "registered", "leaving", "becoming", "monitor", "gone"}]
  BY DEF BInv, SlotsAmongPresent, BTypeOK
<1>3. /\ peer' \in [Owners -> {"new", "registered", "leaving", "becoming", "monitor", "gone"}]
      /\ \A q \in Owners : peer'[q] = IF q = p THEN how ELSE peer[q]
      /\ how \in {"monitor", "gone"}
  BY <1>1, <1>2
<1>4. OwnersOK'
  BY <1>1, <1>3 DEF BInv, OwnersOK, OnBus
<1>5. shut' \in SUBSET Owners
  BY DEF BInv, OwnersOK, SlotsAmongPresent, BTypeOK, GoodbyeEnd, Monitors
<1> HIDE DEF how
<1>6. SlotsAmongPresent'
  <2>1. BTypeOK'
    BY <1>1, <1>3, <1>5 DEF BInv, SlotsAmongPresent, BTypeOK
  <2>2. \A slot \in replies : From[slot[2]] \in Owners
    BY MessagesAssumption DEF BInv, SlotsAmongPresent, BTypeOK
  <2> QED BY <2>1, <2>2, <1>1, <1>3 DEF BInv, SlotsAmongPresent
<1>7. ActivationQuiescent' /\ QueuesApart'
  BY <1>1 DEF BInv, ActivationQuiescent, QueuesApart, Queued
<1>8. /\ \A m \in Messages : HasSlot(m)' <=> HasSlot(m) /\ m \notin unanswered
      /\ \A m : HasQueue(m)' <=> HasQueue(m)
      /\ \A nm : Queued(nm)' = Queued(nm)
      /\ \A m \in unanswered : HasSlot(m)
  BY <1>1 DEF HasSlot, HasQueue, Queued, BInv, OnePlace
<1>9. OnePlace'
  BY <1>1, <1>8 DEF BInv, OnePlace
<1>10. Awaited'
  <2> SUFFICES ASSUME NEW m \in Messages, peer'[From[m]] = "registered", ExpectsReply(m)
               PROVE  m \in waiting' <=> HasSlot(m)' \/ HasQueue(m)' \/ m \in dropped'
    BY DEF Awaited, ExpectsReply
  <2>1. peer[From[m]] = "registered"
    BY <1>3, MessagesAssumption
  <2>2. m \in waiting <=> HasSlot(m) \/ HasQueue(m) \/ m \in dropped
    BY <2>1 DEF BInv, Awaited
  <2>3. HasSlot(m) => ~HasQueue(m) /\ m \notin dropped
    BY DEF BInv, OnePlace
  <2> QED BY <2>2, <2>3, <1>1, <1>8
<1>11. SentBefore'
  BY <1>1, <1>3, <1>8, MessagesAssumption DEF BInv, SentBefore
<1> QED BY <1>4, <1>6, <1>7, <1>9, <1>10, <1>11 DEF BInv

\* Who never was on the bus, or only watches it, just goes.
LEMMA HangUpStep ==
    ASSUME BInv, NEW p \in Owners, HangUp(p)
    PROVE  BInv'
<1> USE DEF calls, activations, ovars
<1>1. /\ peer[p] \in {"new", "monitor"} /\ peer' = [peer EXCEPT ![p] = "gone"]
      /\ shut' = shut \ {p} /\ UNCHANGED <<ovars, calls, activations>>
  BY DEF HangUp
<1>2. peer \in [Owners -> {"new", "registered", "leaving", "becoming", "monitor", "gone"}]
  BY DEF BInv, SlotsAmongPresent, BTypeOK
<1>3. /\ peer' \in [Owners -> {"new", "registered", "leaving", "becoming", "monitor", "gone"}]
      /\ \A q \in Owners : peer'[q] = IF q = p THEN "gone" ELSE peer[q]
  BY <1>1, <1>2
<1>4. OwnersOK'
  BY <1>1, <1>3 DEF BInv, OwnersOK, OnBus
<1>5. SlotsAmongPresent'
  <2>1. BTypeOK'
    BY <1>1, <1>3 DEF BInv, SlotsAmongPresent, BTypeOK
  <2>2. \A slot \in replies : From[slot[2]] \in Owners
    BY MessagesAssumption DEF BInv, SlotsAmongPresent, BTypeOK
  <2> QED BY <2>1, <2>2, <1>1, <1>3 DEF BInv, SlotsAmongPresent
<1>6. ActivationQuiescent' /\ QueuesApart'
  BY <1>1 DEF BInv, ActivationQuiescent, QueuesApart, Queued
<1>7. OnePlace' /\ Awaited' /\ SentBefore'
  BY <1>1, <1>3, SamePlaces, MessagesAssumption DEF BInv, OnePlace, Awaited, SentBefore
<1> QED BY <1>4, <1>5, <1>6, <1>7 DEF BInv

-----------------------------------------------------------------------------
(* The controller *)

\* The queues of name nm are emptied, and whoever waited there is answered.
LEMMA EmptyQueuesStep ==
    ASSUME BInv, Idle, NEW nm \in Names, NEW A \in SUBSET Names,
           A = activatable \/ A = activatable \ {nm},
           pending' = [pending EXCEPT ![nm] = 0],
           activation_requests' = [activation_requests EXCEPT ![nm] = {}],
           activation_messages' = [activation_messages EXCEPT ![nm] = {}],
           waiting' = waiting \ Answered(Queued(nm)),
           shut' \in SUBSET Owners,
           failed' = failed \/ \E id \in 1 .. activation_ids :
                                  failed' = failed \cup {<<nm, id>>},
           activatable' = A,
           UNCHANGED <<ovars, peer, sent, replies, dropped, activation_ids>>
    PROVE  BInv'
<1> USE DEF ovars
<1>1. BTypeOK
  BY DEF BInv, SlotsAmongPresent
<1>2. OwnersOK'
  BY SameOwners
<1>3. /\ activation_requests' \in [Names -> SUBSET Messages]
      /\ activation_messages' \in [Names -> SUBSET Messages]
      /\ pending' \in [Names -> 0 .. activation_ids']
      /\ pending'[nm] = 0
      /\ \A k \in Names : k # nm => pending'[k] = pending[k]
      /\ \A k \in Names : activation_requests'[k] =
            IF k = nm THEN {} ELSE activation_requests[k]
      /\ \A k \in Names : activation_messages'[k] =
            IF k = nm THEN {} ELSE activation_messages[k]
  BY <1>1 DEF BTypeOK
<1>4. failed' \in SUBSET (Names \X (1 .. activation_ids'))
  BY <1>1 DEF BTypeOK
<1>5. BTypeOK'
  BY <1>1, <1>3, <1>4 DEF BTypeOK
<1>6. SlotsAmongPresent'
  BY <1>5 DEF BInv, SlotsAmongPresent
<1>7. \A k \in Names : Queued(k)' = IF k = nm THEN {} ELSE Queued(k)
  BY <1>3 DEF Queued
<1>8. ActivationQuiescent'
  BY <1>3, <1>7 DEF BInv, ActivationQuiescent
<1>9. QueuesApart'
  BY <1>3 DEF BInv, QueuesApart
<1>10. \A m \in Messages : /\ HasSlot(m)' <=> HasSlot(m)
                           /\ HasQueue(m)' <=> HasQueue(m) /\ m \notin Queued(nm)
                           /\ m \in Queued(nm) => HasQueue(m)
  BY <1>7 DEF HasSlot, HasQueue, BInv, OnePlace
<1>11. OnePlace'
  <2>1. \A m \in Messages, k \in Names : m \in Queued(k)' => m \in Queued(k)
    BY <1>7
  <2> QED BY <2>1, <1>10 DEF BInv, OnePlace
<1>12. Awaited'
  <2> SUFFICES ASSUME NEW m \in Messages, peer[From[m]] = "registered", ExpectsReply(m)
               PROVE  m \in waiting' <=> HasSlot(m)' \/ HasQueue(m)' \/ m \in dropped'
    BY DEF Awaited, ExpectsReply
  <2>1. /\ m \in waiting <=> HasSlot(m) \/ HasQueue(m) \/ m \in dropped
        /\ ~(HasSlot(m) /\ HasQueue(m)) /\ (HasQueue(m) => m \notin dropped)
    BY DEF BInv, Awaited, OnePlace
  <2>2. m \in Answered(Queued(nm)) <=> m \in Queued(nm)
    BY FoundRegistered, MessagesAssumption DEF Answered
  <2> QED BY <2>1, <2>2, <1>10
<1>13. SentBefore'
  BY <1>10 DEF BInv, SentBefore
<1> QED BY <1>2, <1>6, <1>8, <1>9, <1>11, <1>12, <1>13 DEF BInv

\* driver_name_activation_failed() empties the queues.
LEMMA CancelActivationQueues ==
    ASSUME BInv, NEW nm \in Names, CancelActivation(nm)
    PROVE  /\ pending' = [pending EXCEPT ![nm] = 0]
           /\ activation_requests' = [activation_requests EXCEPT ![nm] = {}]
           /\ activation_messages' = [activation_messages EXCEPT ![nm] = {}]
           /\ waiting' = waiting \ Answered(Queued(nm))
           /\ shut' \in SUBSET Owners
<1>1. Queued(nm) \in SUBSET Messages
  BY DEF BInv, SlotsAmongPresent, BTypeOK, Queued
<1>2. {From[m] : m \in Answered(Queued(nm))} \in SUBSET Owners
  BY <1>1, MessagesAssumption DEF Answered
<1> QED BY <1>2, DisconnectsType DEF CancelActivation, Queued

\* A report of the controller; a late one changes nothing but the history.
LEMMA ActivationFailedStep ==
    ASSUME BInv, NEW nm \in Names, NEW id \in 1 .. MaxIds, ActivationFailed(nm, id)
    PROVE  BInv'
<1>1. /\ Idle /\ nm \in activatable /\ id \in 1 .. activation_ids
      /\ failed' = failed \cup {<<nm, id>>}
      /\ UNCHANGED <<ovars, peer, sent, replies, dropped, activatable, activation_ids>>
  BY DEF ActivationFailed
<1>2. CASE pending[nm] = id
  <2>1. CancelActivation(nm)
    BY <1>2 DEF ActivationFailed
  <2>2. activatable \in SUBSET Names
    BY DEF BInv, SlotsAmongPresent, BTypeOK
  <2> QED BY <2>1, <2>2, <1>1, CancelActivationQueues, EmptyQueuesStep
<1>3. CASE pending[nm] # id
  <2>1. UNCHANGED <<pending, activation_requests, activation_messages, waiting, shut>>
    BY <1>3 DEF ActivationFailed
  <2> USE DEF ovars
  <2>2. OwnersOK'
    BY <1>1, SameOwners
  <2>3. failed' \in SUBSET (Names \X (1 .. activation_ids'))
    BY <1>1 DEF BInv, SlotsAmongPresent, BTypeOK
  <2>4. SlotsAmongPresent'
    BY <1>1, <2>1, <2>3 DEF BInv, SlotsAmongPresent, BTypeOK
  <2>5. ActivationQuiescent' /\ QueuesApart'
    BY <1>1, <1>3, <2>1 DEF BInv, ActivationQuiescent, QueuesApart, Queued
  <2>6. OnePlace' /\ Awaited' /\ SentBefore'
    BY <1>1, <2>1, SamePlaces DEF BInv, OnePlace, Awaited, SentBefore
  <2> QED BY <2>2, <2>4, <2>5, <2>6 DEF BInv
<1> QED BY <1>2, <1>3

\* controller_add_name()
LEMMA AddNameStep ==
    ASSUME BInv, NEW nm \in Names, AddName(nm)
    PROVE  BInv'
<1> USE DEF AddName, ovars, calls
<1>1. OwnersOK'
  BY SameOwners
<1>2. SlotsAmongPresent'
  BY DEF BInv, SlotsAmongPresent, BTypeOK
<1>3. ActivationQuiescent' /\ QueuesApart'
  BY DEF BInv, ActivationQuiescent, QueuesApart, Queued
<1>4. OnePlace' /\ Awaited' /\ SentBefore'
  BY SamePlaces DEF BInv, OnePlace, Awaited, SentBefore
<1> QED BY <1>1, <1>2, <1>3, <1>4 DEF BInv

\* controller_method_name_release(): nothing waits for a name that is not
\* pending, so that nobody is forgotten.
LEMMA RemoveNameStep ==
    ASSUME BInv, NEW nm \in Names, RemoveName(nm)
    PROVE  BInv'
<1>1. /\ Idle /\ activatable' = activatable \ {nm}
      /\ UNCHANGED <<ovars, peer, sent, replies, dropped, activation_ids, failed>>
  BY DEF RemoveName
<1>2. activatable \in SUBSET Names /\ pending \in [Names -> 0 .. activation_ids]
      /\ shut \in SUBSET Owners
  BY DEF BInv, SlotsAmongPresent, BTypeOK
<1>3. CASE pending[nm] # 0
  <2>1. CancelActivation(nm)
    BY <1>3 DEF RemoveName
  <2> QED BY <2>1, <1>1, <1>2, CancelActivationQueues, EmptyQueuesStep, SMTT(30)
<1>4. CASE pending[nm] = 0
  <2>1. /\ activation_requests' = [activation_requests EXCEPT ![nm] = {}]
        /\ activation_messages' = [activation_messages EXCEPT ![nm] = {}]
        /\ UNCHANGED <<pending, waiting, shut>>
    BY <1>4 DEF RemoveName
  <2>2. Queued(nm) = {}
    BY <1>4 DEF BInv, ActivationQuiescent
  <2>3. Answered(Queued(nm)) = {}
    BY <2>2 DEF Answered
  <2>4. waiting' = waiting \ Answered(Queued(nm)) /\ pending' = [pending EXCEPT ![nm] = 0]
    BY <1>2, <1>4, <2>1, <2>3
  <2> QED BY <2>1, <2>4, <1>1, <1>2, EmptyQueuesStep
<1> QED BY <1>3, <1>4

-----------------------------------------------------------------------------
(* The invariant *)

\* The broker starts without peers, names, calls or activations.
LEMMA BusInit == BInit => BInv
<1> SUFFICES ASSUME BInit PROVE BInv
  OBVIOUS
<1> USE DEF BInit, OInit
<1>1. OwnersOK
  BY DEF OwnersOK, OnBus
<1>2. SlotsAmongPresent
  BY DEF SlotsAmongPresent, BTypeOK
<1>3. ActivationQuiescent /\ QueuesApart
  BY DEF ActivationQuiescent, QueuesApart, Queued
<1>4. OnePlace /\ Awaited /\ SentBefore
  BY DEF OnePlace, Awaited, SentBefore, HasSlot, HasQueue, Queued
<1> QED BY <1>1, <1>2, <1>3, <1>4 DEF BInv

\* A call or a message with a destination that has to be started, in its three
\* outcomes.
LEMMA CanActivateStep ==
    ASSUME BInv, NEW m \in Messages, NEW nm \in Names,
           QueueMessage(m, nm) \/ QueueRequest(m, nm) \/ QueueRefused(m, nm)
    PROVE  BInv'
<1>1. /\ activation_requests \in [Names -> SUBSET Messages]
      /\ activation_messages \in [Names -> SUBSET Messages]
      /\ From[m] \in Owners
  BY MessagesAssumption DEF BInv, SlotsAmongPresent, BTypeOK
<1>2. /\ activation_requests = [activation_requests EXCEPT ![nm] = @ \cup {}]
      /\ activation_messages = [activation_messages EXCEPT ![nm] = @ \cup {}]
  BY <1>1
<1>3. m \notin waiting \/ ~CanActivate(m, nm)
  BY DEF BInv, SentBefore, CanActivate, Dispatches
<1>4. CASE QueueMessage(m, nm)
  <2>1. shut' \in SUBSET Owners
    BY <1>4, DisconnectsType DEF QueueMessage
  <2>2. /\ CanActivate(m, nm)
        /\ activation_messages' = [activation_messages EXCEPT ![nm] = @ \cup {m}]
        /\ activation_requests' = [activation_requests EXCEPT ![nm] = @ \cup {}]
        /\ waiting' \in {waiting, waiting \cup {m}}
        /\ ExpectsReply(m) => m \in waiting'
    BY <1>2, <1>4 DEF QueueMessage
  <2> QED BY <2>1, <2>2, QueueStep
<1>5. CASE QueueRequest(m, nm)
  <2>1. shut' \in SUBSET Owners
    BY <1>5, DisconnectsType DEF QueueRequest
  <2>2. CanActivate(m, nm) /\ activation_messages' = [activation_messages EXCEPT ![nm] = @ \cup {}]
    BY <1>2, <1>5 DEF QueueRequest
  <2>3. CASE ExpectsReply(m)
    <3>1. /\ activation_requests' = [activation_requests EXCEPT ![nm] = @ \cup {m}]
          /\ waiting' = waiting \cup {m}
      BY <1>5, <2>3 DEF QueueRequest
    <3> QED BY <2>1, <2>2, <3>1, QueueStep
  <2>4. CASE ~ExpectsReply(m)
    <3>1. /\ activation_requests' = [activation_requests EXCEPT ![nm] = @ \cup {}]
          /\ waiting' = waiting
      BY <1>2, <1>5, <2>4 DEF QueueRequest
    <3> QED BY <2>1, <2>2, <2>4, <3>1, QueueStep
  <2> QED BY <2>3, <2>4
<1>6. CASE QueueRefused(m, nm)
  <2>1. shut' \in SUBSET Owners
    BY <1>1, <1>6, DisconnectsType DEF QueueRefused
  <2>2. /\ CanActivate(m, nm)
        /\ activation_messages' = [activation_messages EXCEPT ![nm] = @ \cup {}]
        /\ activation_requests' = [activation_requests EXCEPT ![nm] = @ \cup {}]
        /\ waiting' = waiting
    BY <1>2, <1>6 DEF QueueRefused
  <2>3. m \notin waiting' /\ waiting' \in {waiting, waiting \cup {m}}
    BY <1>3, <2>2
  <2>4. {} \in SUBSET {m} /\ {} \cup {} = {}
    OBVIOUS
  <2> QED BY <2>1, <2>2, <2>3, <2>4, QueueStep
<1> QED BY <1>4, <1>5, <1>6

\* A reply, however it ends, frees the slot of the call.
LEMMA RepliesStep ==
    ASSUME BInv, NEW p \in Owners, NEW m \in Messages,
           Reply(p, m) \/ ReplyDropped(p, m) \/ ReplyWithFds(p, m)
    PROVE  BInv'
<1>1. shut' \in SUBSET Owners
  <2>1. CASE Reply(p, m) \/ ReplyDropped(p, m)
    BY <2>1, DisconnectsType DEF Reply, ReplyDropped
  <2>2. CASE ReplyWithFds(p, m)
    BY <2>2, MessagesAssumption
       DEF ReplyWithFds, Monitors, BInv, SlotsAmongPresent, BTypeOK
  <2> QED BY <2>1, <2>2
<1>2. /\ <<p, m>> \in replies /\ replies' = replies \ {<<p, m>>}
      /\ \/ waiting' = waiting \ {m} /\ dropped' = dropped
         \/ waiting' = waiting /\ dropped' = dropped \cup {m}
      /\ UNCHANGED <<ovars, peer, sent, activations>>
  BY DEF Reply, ReplyDropped, ReplyWithFds
<1> QED BY <1>1, <1>2, ReplyStep

\* Every handler keeps the invariant.
LEMMA BusStep == BInv /\ [BNext]_bvars => BInv'
<1> SUFFICES ASSUME BInv, [BNext]_bvars PROVE BInv'
  OBVIOUS
<1>1. present \in SUBSET Owners
  BY DEF BInv, OwnersOK
<1>2. CASE \E m \in Messages : SendAnswered(m) \/ Broadcast(m)
  <2>1. PICK m \in Messages : SendAnswered(m) \/ Broadcast(m)
    BY <1>2
  <2>2. shut' \in SUBSET Owners
    BY <1>1, <2>1, DisconnectsType, MessagesAssumption DEF SendAnswered, Broadcast
  <2>3. /\ Dispatches(m)
        /\ UNCHANGED <<ovars, peer, waiting, replies, dropped, activations>>
    BY <2>1 DEF SendAnswered, Broadcast
  <2> QED BY <2>2, <2>3, NothingRememberedStep
<1>3. CASE \E m \in Messages, p \in Owners :
              SendToPeer(m, p) \/ Reply(p, m) \/ ReplyDropped(p, m) \/ ReplyWithFds(p, m)
  BY <1>3, SendToPeerStep, RepliesStep
<1>4. CASE \E m \in Messages, nm \in Names :
              QueueMessage(m, nm) \/ QueueRequest(m, nm) \/ QueueRefused(m, nm)
  BY <1>4, CanActivateStep
<1>5. CASE \E p \in Owners, nm \in Names : TakeName(p, nm)
  BY <1>5, TakeNameStep
<1>6. CASE \E p \in Owners, nm \in Names, q \in Owners \cup {None} : ReleaseName(p, nm, q)
  BY <1>6, MoveNameStep DEF ReleaseName
<1>7. CASE \E p \in Owners : Hello(p) \/ HangUp(p)
  BY <1>7, HelloStep, HangUpStep
<1>8. CASE \E p \in Owners, how \in {"leaving", "becoming"} : GoodbyeBegin(p, how)
  BY <1>8, GoodbyeBeginStep
<1>9. CASE GoodbyeStep
  <2>1. CASE \E nm \in Names, q \in Owners \cup {None} : GoodbyeMove(nm, q)
    BY <2>1, MoveNameStep DEF GoodbyeMove
  <2>2. CASE \E p \in Owners : GoodbyeEnd(p)
    BY <2>2, GoodbyeEndStep
  <2> QED BY <1>9, <2>1, <2>2 DEF GoodbyeStep
<1>10. CASE \E nm \in Names, id \in 1 .. MaxIds : ActivationFailed(nm, id)
  BY <1>10, ActivationFailedStep
<1>11. CASE \E nm \in Names : AddName(nm) \/ RemoveName(nm)
  BY <1>11, AddNameStep, RemoveNameStep
<1>12. CASE UNCHANGED bvars
  <2> USE <1>12 DEF bvars, ovars, calls, activations
  <2>1. OwnersOK' /\ SlotsAmongPresent' /\ ActivationQuiescent' /\ QueuesApart'
    BY SameOwners
       DEF BInv, SlotsAmongPresent, BTypeOK, ActivationQuiescent, QueuesApart, Queued
  <2>2. OnePlace' /\ Awaited' /\ SentBefore'
    BY SamePlaces DEF BInv, OnePlace, Awaited, SentBefore
  <2> QED BY <2>1, <2>2 DEF BInv
<1> QED BY <1>2, <1>3, <1>4, <1>5, <1>6, <1>7, <1>8, <1>9, <1>10, <1>11, <1>12 DEF BNext

\* BInv in terms of the places of CallsRemembered.
LEMMA PlacesRemembered == BInv => CallsRemembered
<1> SUFFICES ASSUME BInv, NEW m \in Messages,
                    peer[From[m]] = "registered", ExpectsReply(m)
             PROVE  /\ m \in waiting <=> Places(m) # {} \/ m \in dropped
                    /\ \A x, y \in Places(m) : x = y
                    /\ Places(m) # {} => m \notin dropped
  BY DEF CallsRemembered
<1>1. Places(m) # {} <=> HasSlot(m) \/ HasQueue(m)
  <2>1. ASSUME HasSlot(m) PROVE Places(m) # {}
    <3>1. PICK p \in Owners : <<p, m>> \in replies
      BY <2>1 DEF HasSlot
    <3>2. <<p, "slot">> \in Places(m)
      BY <3>1 DEF Places, InSlot
    <3> QED BY <3>2
  <2>2. ASSUME HasQueue(m) PROVE Places(m) # {}
    <3>1. PICK nm \in Names : m \in Queued(nm)
      BY <2>2 DEF HasQueue
    <3>2. <<nm, "queue">> \in Places(m)
      BY <3>1 DEF Places, InQueue
    <3> QED BY <3>2
  <2>3. ASSUME NEW x \in Places(m) PROVE HasSlot(m) \/ HasQueue(m)
    BY <2>3 DEF Places, InSlot, InQueue, HasSlot, HasQueue
  <2> QED BY <2>1, <2>2, <2>3
<1>2. ASSUME NEW x \in Places(m), NEW y \in Places(m) PROVE x = y
  <2>1. ~(HasSlot(m) /\ HasQueue(m))
    BY DEF BInv, OnePlace
  <2>2. CASE x \in InSlot(m) \X {"slot"} /\ y \in InSlot(m) \X {"slot"}
    BY <2>2 DEF BInv, OnePlace, InSlot
  <2>3. CASE x \in InQueue(m) \X {"queue"} /\ y \in InQueue(m) \X {"queue"}
    BY <2>3 DEF BInv, OnePlace, InQueue
  <2>4. \/ x \in InSlot(m) \X {"slot"} /\ y \in InSlot(m) \X {"slot"}
        \/ x \in InQueue(m) \X {"queue"} /\ y \in InQueue(m) \X {"queue"}
    BY <2>1 DEF Places, InSlot, InQueue, HasSlot, HasQueue
  <2> QED BY <2>2, <2>3, <2>4
<1>3. m \in waiting <=> HasSlot(m) \/ HasQueue(m) \/ m \in dropped
  BY DEF BInv, Awaited
<1>4. HasSlot(m) \/ HasQueue(m) => m \notin dropped
  BY DEF BInv, OnePlace
<1> QED BY <1>1, <1>2, <1>3, <1>4

-----------------------------------------------------------------------------
(* What the broker promises *)

\* The books of calls and activations are sound: reply_slot_new() and
\* reply_slot_get_by_id() see at most one slot per callee, caller and serial,
\* no slot outlives either of its peers (the assertions of peer_free()), and
\* what waits for a name waits for an activation that was asked for and that
\* has neither failed nor succeeded.
THEOREM BusBooksSound == BSpec => []BusSound
<1>1. BInv => BusSound
  BY DEF BInv, BusSound
<1> QED BY <1>1, BusInit, BusStep, PTL DEF BSpec

\* No call gets lost and none is answered twice, through reply_slot_new(),
\* peer_queue_reply(), driver_name_activated(), driver_goodbye() and the
\* reports of the controller in any order.
THEOREM BusRemembersCalls == BSpec => []CallsRemembered
BY BusInit, BusStep, PlacesRemembered, PTL DEF BSpec

\* What a step may do to an activation that is pending.
LEMMA PendingStep ==
    ASSUME BInv, [BNext]_bvars, NEW nm \in Names, pending[nm] # 0,
           pending'[nm] # pending[nm]
    PROVE  \/ owner'[nm] # None
           \/ nm \notin activatable'
           \/ <<nm, pending[nm]>> \in failed' \ failed
<1>1. pending \in [Names -> 0 .. activation_ids] /\ activation_ids \in Nat
      /\ activatable \in SUBSET Names /\ owner \in [Names -> Owners \cup {None}]
  BY DEF BInv, SlotsAmongPresent, BTypeOK, OwnersOK
<1>2. <<nm, pending[nm]>> \notin failed
  BY DEF BInv, ActivationQuiescent
<1>3. pending' # pending
  OBVIOUS
<1>4. CASE \E m \in Messages, k \in Names :
              QueueMessage(m, k) \/ QueueRequest(m, k) \/ QueueRefused(m, k)
  BY <1>1, <1>4 DEF QueueMessage, QueueRequest, QueueRefused, CanActivate, RequestActivation
<1>5. CASE \E p \in Owners, k \in Names : TakeName(p, k)
  <2>1. PICK p \in Owners, k \in Names : TakeName(p, k)
    BY <1>5
  <2>2. pending' = [pending EXCEPT ![k] = 0] /\ owner' = [owner EXCEPT ![k] = p]
    BY <2>1 DEF TakeName, Change
  <2>3. k = nm
    BY <1>1, <2>2
  <2> QED BY <1>1, <2>2, <2>3, MessagesAssumption
<1>6. CASE \E k \in Names, id \in 1 .. MaxIds : ActivationFailed(k, id)
  <2>1. PICK k \in Names, id \in 1 .. MaxIds : ActivationFailed(k, id)
    BY <1>6
  <2>2. pending[k] = id /\ pending' = [pending EXCEPT ![k] = 0]
    BY <1>3, <2>1 DEF ActivationFailed, CancelActivation
  <2>3. k = nm
    BY <1>1, <2>2
  <2>4. <<nm, pending[nm]>> \in failed'
    BY <2>1, <2>2, <2>3 DEF ActivationFailed
  <2> QED BY <1>2, <2>4
<1>7. CASE \E k \in Names : RemoveName(k)
  <2>1. PICK k \in Names : RemoveName(k)
    BY <1>7
  <2>2. pending' = [pending EXCEPT ![k] = 0] /\ activatable' = activatable \ {k}
    BY <1>3, <2>1 DEF RemoveName, CancelActivation
  <2>3. k = nm
    BY <1>1, <2>2
  <2> QED BY <2>2, <2>3
<1>8. \/ \E m \in Messages, k \in Names :
            QueueMessage(m, k) \/ QueueRequest(m, k) \/ QueueRefused(m, k)
      \/ \E p \in Owners, k \in Names : TakeName(p, k)
      \/ \E k \in Names, id \in 1 .. MaxIds : ActivationFailed(k, id)
      \/ \E k \in Names : RemoveName(k)
  BY <1>3 DEF BNext, bvars, activations, SendAnswered, Broadcast, SendToPeer, Reply,
              ReplyDropped, ReplyWithFds, ReleaseName, Hello, HangUp, GoodbyeBegin,
              GoodbyeStep, GoodbyeMove, GoodbyeEnd, AddName
<1> QED BY <1>4, <1>5, <1>6, <1>7, <1>8

\* A late report never cancels a later activation: controller_method_name_reset()
\* looks at the serial of the report, and the serials are never used again.
THEOREM BusCancelsOwnFailure == BSpec => OnlyOwnFailureCancels
<1>1. BInv /\ [BNext]_bvars => [EndsForItsOwn]_bvars
  BY PendingStep DEF EndsForItsOwn
<1> QED BY <1>1, BusInit, BusStep, PTL DEF BSpec, OnlyOwnFailureCancels

-----------------------------------------------------------------------------
(***************************************************************************)
(* The accounts of user.c balance, remote users cannot exhaust what a user *)
(* has, and small shares are granted: for every number of users, resources *)
(* and charges, every maximum and every width of the counters.             *)
(*                                                                         *)
(* BooksBalance is inductive.  RemotesCannotExhaust needs it, and itself   *)
(* for smaller sets of users: if x is what a will have after user_charge() *)
(* let it have it and H what the others of S have, the check says          *)
(* x * (k + 1) <= Maximum - H for the k users of S, and the others alone   *)
(* H * k <= (k - 1) * Maximum.  Together that is the bound for S.          *)
(***************************************************************************)

\* A charge object that user_charge() may use for user u, actor a and slot s.
FitFor(c, u, a, s) ==
    \/ charge[c] = Unused
    \/ charge[c] = Charged(u, a, s, Amount(c)) /\ Amount(c) \in 0 .. UintMax

-----------------------------------------------------------------------------
(* Charge objects *)

\* The fields of the two kinds of charge objects.
LEMMA ChargeFields ==
    /\ ~Unused.usage
    /\ \A u, a, s, x : /\ Charged(u, a, s, x).usage
                       /\ Charged(u, a, s, x).user = u
                       /\ Charged(u, a, s, x).actor = a
                       /\ Charged(u, a, s, x).slot = s
                       /\ Charged(u, a, s, x).charge = x
BY DEF Unused, Charged

\* A charge object is unused or refers to one usage.
LEMMA ChargeCases ==
    ASSUME ATypeOK, NEW c \in Charges
    PROVE  \/ charge[c] = Unused /\ ~charge[c].usage
           \/ /\ charge[c].usage
              /\ charge[c].user \in Uids /\ charge[c].actor \in Uids
              /\ charge[c].slot \in Slots /\ charge[c].charge \in 0 .. UintMax
              /\ charge[c] = Charged(charge[c].user, charge[c].actor,
                                     charge[c].slot, charge[c].charge)
<1>1. charge[c] \in {Unused} \cup
          {Charged(u, a, s, amount) : u \in Uids, a \in Uids,
              s \in Slots, amount \in 0 .. UintMax}
  BY DEF ATypeOK
<1>2. CASE charge[c] = Unused
  BY <1>2, ChargeFields
<1>3. CASE charge[c] # Unused
  <2>1. PICK u \in Uids, a \in Uids, s \in Slots, x \in 0 .. UintMax :
            charge[c] = Charged(u, a, s, x)
    BY <1>1, <1>3
  <2> QED BY <2>1, ChargeFields
<1> QED BY <1>2, <1>3

\* What a charge object is for is a natural.
LEMMA PartNat ==
    ASSUME ATypeOK, NEW c \in Charges, NEW u, NEW a, NEW s
    PROVE  Part(c, u, a, s) \in 0 .. UintMax
<1>1. UintMax \in Nat
  BY AccountsAssumption
<1> QED BY <1>1, ChargeCases DEF Part, ChargesOn

\* What is charged is at least what one charge object says.
LEMMA ChargedNat ==
    ASSUME ATypeOK, NEW u, NEW a, NEW s
    PROVE  /\ ChargedOn(u, a, s) \in Nat
           /\ \A c \in Charges : Part(c, u, a, s) <= ChargedOn(u, a, s)
<1> DEFINE f == [c \in Charges |-> Part(c, u, a, s)]
<1>1. \A c \in Charges : f[c] \in Nat /\ f[c] = Part(c, u, a, s)
  BY PartNat
<1>2. IsFiniteSet(Charges)
  BY AccountsAssumption
<1>3. ChargedOn(u, a, s) = SumOf(f, Charges)
  BY DEF ChargedOn
<1> HIDE DEF f
<1>4. ChargedOn(u, a, s) \in Nat
  BY <1>1, <1>2, <1>3, SumNat
<1>5. ASSUME NEW c \in Charges PROVE Part(c, u, a, s) <= ChargedOn(u, a, s)
  <2>1. SumOf(f, Charges) = f[c] + SumOf(f, Charges \ {c})
    BY <1>1, <1>2, SumRemove
  <2>2. SumOf(f, Charges \ {c}) \in Nat
    BY <1>1, <1>2, SumNat, FS_Subset
  <2> QED BY <1>1, <1>3, <2>1, <2>2
<1> QED BY <1>4, <1>5

\* What everyone uses together is a natural.
LEMMA SharesNat ==
    ASSUME ATypeOK, NEW u \in Uids, NEW s \in Slots
    PROVE  /\ \A a \in Uids : ShareOn(u, s)[a] = share[u][a][s] /\ share[u][a][s] \in Nat
           /\ \A S \in SUBSET Uids : SumOf(ShareOn(u, s), S) \in Nat
           /\ \A a \in Uids : share[u][a][s] <= SumOf(ShareOn(u, s), Uids)
<1>1. \A a \in Uids : ShareOn(u, s)[a] = share[u][a][s] /\ share[u][a][s] \in Nat
  BY AccountsAssumption DEF ATypeOK, ShareOn
<1>2. IsFiniteSet(Uids)
  BY AccountsAssumption
<1>3. \A S \in SUBSET Uids : SumOf(ShareOn(u, s), S) \in Nat
  BY <1>1, <1>2, SumNat, FS_Subset
<1>4. ASSUME NEW a \in Uids PROVE share[u][a][s] <= SumOf(ShareOn(u, s), Uids)
  <2>1. SumOf(ShareOn(u, s), Uids)
          = ShareOn(u, s)[a] + SumOf(ShareOn(u, s), Uids \ {a})
    BY <1>1, <1>2, SumRemove
  <2>2. SumOf(ShareOn(u, s), Uids \ {a}) \in Nat
    BY <1>3
  <2> QED BY <1>1, <2>1, <2>2
<1> QED BY <1>1, <1>3, <1>4

\* Only charge object c changes.
LEMMA PartsChange ==
    ASSUME ATypeOK, NEW c \in Charges,
           \A d \in Charges \ {c} : charge'[d] = charge[d],
           NEW u, NEW a, NEW s, Part(c, u, a, s)' \in Nat
    PROVE  ChargedOn(u, a, s)' + Part(c, u, a, s) = ChargedOn(u, a, s) + Part(c, u, a, s)'
<1> DEFINE f == [d \in Charges |-> Part(d, u, a, s)]
           g == [d \in Charges |-> Part(d, u, a, s)']
<1>1. \A d \in Charges \ {c} : Part(d, u, a, s)' = Part(d, u, a, s)
  BY DEF Part, ChargesOn
<1>2. \A d \in Charges : f[d] \in Nat
  BY PartNat
<1>3. \A d \in Charges \ {c} : g[d] = f[d]
  BY <1>1
<1>4. \A d \in Charges : g[d] \in Nat
  <2>1. g[c] \in Nat
    OBVIOUS
  <2> HIDE DEF g
  <2> QED BY <1>2, <1>3, <2>1
<1>5. ChargedOn(u, a, s) = SumOf(f, Charges) /\ ChargedOn(u, a, s)' = SumOf(g, Charges)
  BY DEF ChargedOn
<1>6. f[c] = Part(c, u, a, s) /\ g[c] = Part(c, u, a, s)'
  OBVIOUS
<1>7. IsFiniteSet(Charges)
  BY AccountsAssumption
<1> HIDE DEF f, g
<1>8. SumOf(g, Charges) + f[c] = SumOf(f, Charges) + g[c]
  BY <1>2, <1>3, <1>4, <1>7, SumChange
<1> QED BY <1>5, <1>6, <1>8

\* Charge object c is for amount x of slot s, charged by a on u, from now on.
LEMMA Recharge ==
    ASSUME ATypeOK, NEW c \in Charges, NEW u \in Uids, NEW a \in Uids, NEW s \in Slots,
           FitFor(c, u, a, s), NEW x \in Nat,
           charge'[c] = Charged(u, a, s, x),
           \A d \in Charges \ {c} : charge'[d] = charge[d]
    PROVE  /\ Amount(c) \in Nat
           /\ \A k, b \in Uids :
                 ChargesOn(k, b)' = IF k = u /\ b = a THEN ChargesOn(k, b) \cup {c}
                                    ELSE ChargesOn(k, b)
           /\ c \in ChargesOn(u, a) <=> charge[c].usage
           /\ \A k, b \in Uids, t \in Slots :
                 ChargedOn(k, b, t)' = IF k = u /\ b = a /\ t = s
                                       THEN ChargedOn(k, b, t) + x - Amount(c)
                                       ELSE ChargedOn(k, b, t)
<1>1. /\ charge'[c] = Charged(u, a, s, x)
      /\ \A d \in Charges \ {c} : charge'[d] = charge[d]
  OBVIOUS
<1>2. \/ charge[c] = Unused /\ ~charge[c].usage /\ Amount(c) = 0
      \/ /\ charge[c].usage /\ Amount(c) \in Nat
         /\ charge[c].user = u /\ charge[c].actor = a /\ charge[c].slot = s
         /\ charge[c].charge = Amount(c)
  BY ChargeFields, AccountsAssumption DEF FitFor, Amount
<1>3. /\ charge'[c].usage /\ charge'[c].user = u /\ charge'[c].actor = a
      /\ charge'[c].slot = s /\ charge'[c].charge = x
  BY <1>1, ChargeFields
<1>4. \A k, b \in Uids :
         ChargesOn(k, b)' = IF k = u /\ b = a THEN ChargesOn(k, b) \cup {c}
                            ELSE ChargesOn(k, b)
  <2> SUFFICES ASSUME NEW k \in Uids, NEW b \in Uids, NEW d \in Charges
               PROVE  d \in ChargesOn(k, b)' <=>
                          IF k = u /\ b = a THEN d \in ChargesOn(k, b) \/ d = c
                          ELSE d \in ChargesOn(k, b)
    BY DEF ChargesOn
  <2> QED BY <1>1, <1>2, <1>3 DEF ChargesOn
<1>5. c \in ChargesOn(u, a) <=> charge[c].usage
  BY <1>2 DEF ChargesOn
<1>6. ASSUME NEW k \in Uids, NEW b \in Uids, NEW t \in Slots
      PROVE  ChargedOn(k, b, t)' = IF k = u /\ b = a /\ t = s
                                   THEN ChargedOn(k, b, t) + x - Amount(c)
                                   ELSE ChargedOn(k, b, t)
  <2>1. Part(c, k, b, t) = IF k = u /\ b = a /\ t = s THEN Amount(c) ELSE 0
    BY <1>2 DEF Part, ChargesOn
  <2>2. Part(c, k, b, t)' = IF k = u /\ b = a /\ t = s THEN x ELSE 0
    BY <1>3 DEF Part, ChargesOn
  <2>3. ChargedOn(k, b, t)' + Part(c, k, b, t) = ChargedOn(k, b, t) + Part(c, k, b, t)'
    BY <1>1, <2>2, PartsChange
  <2>4. ChargedOn(k, b, t) \in Nat
    BY ChargedNat
  <2>5. ChargedOn(k, b, t)' \in Nat
    <3> DEFINE g == [d \in Charges |-> Part(d, k, b, t)']
    <3>1. \A d \in Charges \ {c} : Part(d, k, b, t)' = Part(d, k, b, t)
      BY <1>1 DEF Part, ChargesOn
    <3>2. \A d \in Charges : g[d] \in Nat
      BY <2>2, <3>1, PartNat
    <3>3. ChargedOn(k, b, t)' = SumOf(g, Charges)
      BY DEF ChargedOn
    <3> HIDE DEF g
    <3> QED BY <3>2, <3>3, SumNat, AccountsAssumption
  <2> QED BY <1>2, <2>1, <2>2, <2>3, <2>4, <2>5
<1> QED BY <1>1, <1>2, <1>4, <1>5, <1>6

\* Charge object c is not used any more.
LEMMA Uncharge ==
    ASSUME ATypeOK, NEW c \in Charges, charge[c].usage,
           charge'[c] = Unused,
           \A d \in Charges \ {c} : charge'[d] = charge[d]
    PROVE  LET u == charge[c].user
               a == charge[c].actor
               s == charge[c].slot
           IN  /\ c \in ChargesOn(u, a)
               /\ \A k, b \in Uids :
                     ChargesOn(k, b)' = IF k = u /\ b = a THEN ChargesOn(k, b) \ {c}
                                        ELSE ChargesOn(k, b)
               /\ \A k, b \in Uids, t \in Slots :
                     ChargedOn(k, b, t)' = IF k = u /\ b = a /\ t = s
                                           THEN ChargedOn(k, b, t) - charge[c].charge
                                           ELSE ChargedOn(k, b, t)
<1> DEFINE u == charge[c].user
           a == charge[c].actor
           s == charge[c].slot
<1>1. /\ charge'[c] = Unused
      /\ \A d \in Charges \ {c} : charge'[d] = charge[d]
  OBVIOUS
<1>2. ~charge'[c].usage
  BY <1>1, ChargeFields
<1>3. u \in Uids /\ a \in Uids /\ s \in Slots /\ charge[c].charge \in Nat
  BY ChargeCases, AccountsAssumption
<1>4. \A k, b \in Uids :
         ChargesOn(k, b)' = IF k = u /\ b = a THEN ChargesOn(k, b) \ {c}
                            ELSE ChargesOn(k, b)
  <2> SUFFICES ASSUME NEW k \in Uids, NEW b \in Uids, NEW d \in Charges
               PROVE  d \in ChargesOn(k, b)' <=>
                          IF k = u /\ b = a THEN d \in ChargesOn(k, b) /\ d # c
                          ELSE d \in ChargesOn(k, b)
    BY DEF ChargesOn
  <2> QED BY <1>1, <1>2 DEF ChargesOn
<1>5. c \in ChargesOn(u, a)
  BY DEF ChargesOn
<1>6. ASSUME NEW k \in Uids, NEW b \in Uids, NEW t \in Slots
      PROVE  ChargedOn(k, b, t)' = IF k = u /\ b = a /\ t = s
                                   THEN ChargedOn(k, b, t) - charge[c].charge
                                   ELSE ChargedOn(k, b, t)
  <2>1. Part(c, k, b, t) = IF k = u /\ b = a /\ t = s THEN charge[c].charge ELSE 0
    BY DEF Part, ChargesOn
  <2>2. Part(c, k, b, t)' = 0
    BY <1>2 DEF Part, ChargesOn
  <2>3. ChargedOn(k, b, t)' + Part(c, k, b, t) = ChargedOn(k, b, t) + Part(c, k, b, t)'
    BY <1>1, <2>2, PartsChange
  <2>4. ChargedOn(k, b, t) \in Nat
    BY ChargedNat
  <2>5. ChargedOn(k, b, t)' \in Nat
    <3> DEFINE g == [d \in Charges |-> Part(d, k, b, t)']
    <3>1. \A d \in Charges \ {c} : Part(d, k, b, t)' = Part(d, k, b, t)
      BY <1>1 DEF Part, ChargesOn
    <3>2. \A d \in Charges : g[d] \in Nat
      BY <2>2, <3>1, PartNat
    <3>3. ChargedOn(k, b, t)' = SumOf(g, Charges)
      BY DEF ChargedOn
    <3> HIDE DEF g
    <3> QED BY <3>2, <3>3, SumNat, AccountsAssumption
  <2> HIDE DEF u, a, s
  <2> QED BY <1>3, <2>1, <2>2, <2>3, <2>4, <2>5
<1> QED BY <1>4, <1>5, <1>6

-----------------------------------------------------------------------------
(* Usages and shares *)

\* user_ref_usage() keeps the counts: c refers to the usage of a from now on.
LEMMA RefUsageStep ==
    ASSUME ATypeOK, UsagesCounted,
           NEW c \in Charges, NEW u \in Uids, NEW a \in Uids, NEW s \in Slots,
           FitFor(c, u, a, s), NEW x \in Nat,
           charge'[c] = Charged(u, a, s, x),
           \A d \in Charges \ {c} : charge'[d] = charge[d],
           RefUsage(c, u, a)
    PROVE  /\ usages' \in [Uids -> SUBSET Uids]
           /\ n_usages' \in [Uids -> Nat]
           /\ n_refs' \in [Uids -> [Uids -> Nat]]
           /\ UsagesCounted'
<1>1. /\ usages' = [usages EXCEPT ![u] = @ \cup {a}]
      /\ n_usages' = [n_usages EXCEPT ![u] = IF a \in usages[u] THEN @ ELSE @ + 1]
      /\ n_refs' = [n_refs EXCEPT ![u][a] = IF charge[c].usage THEN @ ELSE @ + 1]
  BY DEF RefUsage
<1>2. /\ usages \in [Uids -> SUBSET Uids] /\ n_usages \in [Uids -> Nat]
      /\ n_refs \in [Uids -> [Uids -> Nat]]
  BY DEF ATypeOK
<1>3. /\ usages' \in [Uids -> SUBSET Uids] /\ n_usages' \in [Uids -> Nat]
      /\ n_refs' \in [Uids -> [Uids -> Nat]]
  BY <1>1, <1>2
<1>4. /\ \A k, b \in Uids :
            ChargesOn(k, b)' = IF k = u /\ b = a THEN ChargesOn(k, b) \cup {c}
                               ELSE ChargesOn(k, b)
      /\ c \in ChargesOn(u, a) <=> charge[c].usage
  BY Recharge
<1>5. ASSUME NEW k \in Uids PROVE n_usages'[k] = Cardinality(usages'[k])
  <2>1. IsFiniteSet(usages[k]) /\ n_usages[k] = Cardinality(usages[k])
    BY <1>2, FS_Subset, AccountsAssumption DEF UsagesCounted
  <2>2. CASE k = u
    <3>1. /\ usages'[k] = usages[k] \cup {a}
          /\ n_usages'[k] = IF a \in usages[k] THEN n_usages[k] ELSE n_usages[k] + 1
      BY <1>1, <1>2, <2>2
    <3> QED BY <2>1, <3>1, FS_AddElement
  <2>3. CASE k # u
    BY <1>1, <1>2, <2>1, <2>3
  <2> QED BY <2>2, <2>3
<1>6. ASSUME NEW k \in Uids, NEW b \in Uids
      PROVE  /\ n_refs'[k][b] = Cardinality(ChargesOn(k, b)')
             /\ b \in usages'[k] <=> n_refs'[k][b] > 0
  <2>1. /\ n_refs[k][b] = Cardinality(ChargesOn(k, b))
        /\ b \in usages[k] <=> n_refs[k][b] > 0
        /\ n_refs[k][b] \in Nat
    BY <1>2 DEF UsagesCounted
  <2>2. IsFiniteSet(ChargesOn(k, b))
    BY FS_Subset, AccountsAssumption DEF ChargesOn
  <2>3. CASE k = u /\ b = a
    <3>1. /\ ChargesOn(k, b)' = ChargesOn(k, b) \cup {c}
          /\ c \in ChargesOn(k, b) <=> charge[c].usage
      BY <1>4, <2>3
    <3>2. /\ n_refs'[k][b] = IF charge[c].usage THEN n_refs[k][b] ELSE n_refs[k][b] + 1
          /\ b \in usages'[k]
      BY <1>1, <1>2, <2>3
    <3>3. n_refs'[k][b] = Cardinality(ChargesOn(k, b)')
      <4>1. Cardinality(ChargesOn(k, b) \cup {c})
              = IF charge[c].usage THEN n_refs[k][b] ELSE n_refs[k][b] + 1
        BY <2>1, <2>2, <3>1, FS_AddElement, ZenonT(30)
      <4> QED BY <3>1, <3>2, <4>1
    <3>4. charge[c].usage => n_refs[k][b] > 0
      BY <2>1, <2>2, <3>1, FS_EmptySet
    <3> QED BY <2>1, <3>2, <3>3, <3>4
  <2>4. CASE ~(k = u /\ b = a)
    <3>1. ChargesOn(k, b)' = ChargesOn(k, b)
      BY <1>4, <2>4
    <3>2. n_refs'[k][b] = n_refs[k][b] /\ (b \in usages'[k] <=> b \in usages[k])
      BY <1>1, <1>2, <2>4
    <3> QED BY <2>1, <3>1, <3>2
  <2> QED BY <2>3, <2>4
<1> QED BY <1>3, <1>5, <1>6 DEF UsagesCounted

\* The share of a in slot s of u is y from now on.
LEMMA ShareChange ==
    ASSUME ATypeOK, NEW u \in Uids, NEW a \in Uids, NEW s \in Slots, NEW y \in Nat,
           \A k, b \in Uids, t \in Slots :
               share'[k][b][t] = IF k = u /\ b = a /\ t = s THEN y ELSE share[k][b][t]
    PROVE  \A k \in Uids, t \in Slots :
               /\ SumOf(ShareOn(k, t), Uids)' \in Nat
               /\ \A b \in Uids : share'[k][b][t] <= SumOf(ShareOn(k, t), Uids)'
               /\ IF k = u /\ t = s
                  THEN SumOf(ShareOn(k, t), Uids)' + share[u][a][s]
                          = SumOf(ShareOn(k, t), Uids) + y
                  ELSE SumOf(ShareOn(k, t), Uids)' = SumOf(ShareOn(k, t), Uids)
<1>1. share \in [Uids -> [Uids -> [Slots -> Nat]]]
  BY AccountsAssumption DEF ATypeOK
<1>2. \A k, b \in Uids, t \in Slots :
          /\ share'[k][b][t] = IF k = u /\ b = a /\ t = s THEN y ELSE share[k][b][t]
          /\ share'[k][b][t] \in Nat
  BY <1>1
<1>3. IsFiniteSet(Uids)
  BY AccountsAssumption
<1>4. ASSUME NEW k \in Uids, NEW t \in Slots
      PROVE  /\ SumOf(ShareOn(k, t), Uids)' \in Nat
             /\ \A b \in Uids : share'[k][b][t] <= SumOf(ShareOn(k, t), Uids)'
             /\ IF k = u /\ t = s
                THEN SumOf(ShareOn(k, t), Uids)' + share[u][a][s]
                        = SumOf(ShareOn(k, t), Uids) + y
                ELSE SumOf(ShareOn(k, t), Uids)' = SumOf(ShareOn(k, t), Uids)
  <2> DEFINE f == ShareOn(k, t)
             g == ShareOn(k, t)'
  <2>1. \A b \in Uids : /\ f[b] = share[k][b][t] /\ f[b] \in Nat
                        /\ g[b] = share'[k][b][t] /\ g[b] \in Nat
    BY <1>1, <1>2 DEF ShareOn
  <2>2. SumOf(ShareOn(k, t), Uids)' = SumOf(g, Uids)
    OBVIOUS
  <2> HIDE DEF f, g
  <2>3. SumOf(g, Uids) \in Nat /\ SumOf(f, Uids) \in Nat
    BY <1>3, <2>1, SumNat
  <2>4. ASSUME NEW b \in Uids PROVE g[b] <= SumOf(g, Uids)
    <3>1. SumOf(g, Uids) = g[b] + SumOf(g, Uids \ {b})
      BY <1>3, <2>1, SumRemove
    <3>2. SumOf(g, Uids \ {b}) \in Nat
      BY <1>3, <2>1, SumNat, FS_Subset
    <3> QED BY <2>1, <3>1, <3>2
  <2>5. CASE k = u /\ t = s
    <3>1. \A b \in Uids \ {a} : g[b] = f[b]
      BY <1>2, <2>1
    <3>2. SumOf(g, Uids) + f[a] = SumOf(f, Uids) + g[a]
      BY <1>3, <2>1, <3>1, SumChange
    <3>3. f[a] = share[u][a][s] /\ g[a] = y
      BY <1>2, <2>1, <2>5
    <3> QED BY <2>1, <2>2, <2>3, <2>4, <2>5, <3>2, <3>3 DEF f
  <2>6. CASE ~(k = u /\ t = s)
    <3>1. \A b \in Uids : g[b] = f[b]
      BY <1>2, <2>1, <2>6
    <3>2. SumOf(g, Uids) = SumOf(f, Uids)
      BY <1>3, <2>1, <3>1, SumSame
    <3> QED BY <2>1, <2>2, <2>3, <2>4, <2>6, <3>2 DEF f
  <2> QED BY <2>5, <2>6
<1> QED BY <1>2, <1>4

-----------------------------------------------------------------------------
(* The quota *)

\* user_charge() never charges more than the user has left.
LEMMA AllowedIsLeft ==
    ASSUME ATypeOK, NEW u \in Uids, NEW a \in Uids, NEW s \in Slots,
           NEW amount \in Nat, NEW users \in Nat, Allowed(u, a, s, amount, users)
    PROVE  amount <= n[u][s]
<1>1. n[u][s] \in Nat /\ share[u][a][s] \in Nat
  BY AccountsAssumption DEF ATypeOK
<1>2. CASE u = a
  BY <1>2 DEF Allowed
<1>3. CASE u # a
  <2> DEFINE used == share[u][a][s]
             sum == used + amount
             product == sum * (users + 1)
  <2>1. product - used <= n[u][s]
    BY <1>3 DEF Allowed, WithinQuota
  <2>2. product = sum * users + sum /\ sum * users \in Nat
    BY <1>1
  <2> QED BY <1>1, <2>1, <2>2
<1> QED BY <1>2, <1>3

\* The number of actors is a natural, and counts a.
LEMMA UsersNat ==
    ASSUME ATypeOK, UsagesCounted, NEW u \in Uids, NEW a \in Uids
    PROVE  /\ Users(u, a) \in Nat \ {0}
           /\ Users(u, a) = Cardinality(usages[u] \cup {a})
<1>1. n_usages[u] \in Nat /\ n_usages[u] = Cardinality(usages[u]) /\ IsFiniteSet(usages[u])
  BY FS_Subset, AccountsAssumption DEF ATypeOK, UsagesCounted
<1>2. Users(u, a) = Cardinality(usages[u] \cup {a}) /\ IsFiniteSet(usages[u] \cup {a})
  BY <1>1, FS_AddElement DEF Users
<1>3. usages[u] \cup {a} # {}
  OBVIOUS
<1> QED BY <1>2, <1>3, FS_EmptySet, FS_CardinalityType

-----------------------------------------------------------------------------
(* Every operation keeps the books *)

\* A charge object that is usable is fit for its new use.
LEMMA UsableIsFit ==
    ASSUME ATypeOK, NEW c \in Charges, NEW u \in Uids, NEW a \in Uids, NEW s \in Slots,
           Usable(c, u, a, s)
    PROVE  /\ FitFor(c, u, a, s)
           /\ Amount(c) \in Nat
           /\ Amount(c) <= ChargedOn(u, a, s)
<1>1. FitFor(c, u, a, s)
  BY ChargeCases DEF Usable, FitFor, Amount
<1>2. Amount(c) = Part(c, u, a, s)
  BY ChargeCases, ChargeFields DEF Usable, Amount, Part, ChargesOn
<1> QED BY <1>1, <1>2, ChargedNat, PartNat

\* user_charge() succeeds.
LEMMA ChargeStep ==
    ASSUME BooksBalance, NEW c \in Charges, NEW u \in Uids, NEW a \in Uids,
           NEW s \in Slots, NEW amount \in Amounts, Charge(c, u, a, s, amount)
    PROVE  BooksBalance'
<1> DEFINE x == Amount(c) + amount
           y == share[u][a][s] + amount
<1>1. /\ Usable(c, u, a, s)
      /\ Allowed(u, a, s, amount, Users(u, a))
      /\ RefUsage(c, u, a)
      /\ n' = [n EXCEPT ![u][s] = @ - amount]
      /\ share' = [share EXCEPT ![u][a][s] = @ + amount]
      /\ charge' = [charge EXCEPT ![c] = Charged(u, a, s, x)]
      /\ UNCHANGED <<holders, leaked>>
  BY DEF Charge
<1>2. ATypeOK /\ UsagesCounted /\ SharesBalance /\ UsersBalance
  BY DEF BooksBalance
<1>3. /\ UintMax \in Nat /\ amount \in Nat
      /\ \A t \in Slots : Maximum[t] \in Nat /\ Maximum[t] <= UintMax
  BY AccountsAssumption
<1>4. /\ n \in [Uids -> [Slots -> 0 .. UintMax]]
      /\ share \in [Uids -> [Uids -> [Slots -> 0 .. UintMax]]]
  BY <1>2 DEF ATypeOK
<1>5. FitFor(c, u, a, s) /\ Amount(c) \in Nat /\ Amount(c) <= share[u][a][s]
  BY <1>1, <1>2, UsableIsFit DEF SharesBalance
<1>6. amount <= n[u][s]
  BY <1>1, <1>2, <1>3, UsersNat, AllowedIsLeft
<1>7. \A k \in Uids, t \in Slots :
          n'[k][t] = IF k = u /\ t = s THEN n[k][t] - amount ELSE n[k][t]
  BY <1>1, <1>4
<1>8. \A k, b \in Uids, t \in Slots :
          share'[k][b][t] = IF k = u /\ b = a /\ t = s THEN y ELSE share[k][b][t]
  BY <1>1, <1>4
<1>9. y \in Nat /\ x \in Nat /\ x <= y
  BY <1>3, <1>4, <1>5
<1>10. \A k \in Uids, t \in Slots :
           /\ SumOf(ShareOn(k, t), Uids)' \in Nat
           /\ \A b \in Uids : share'[k][b][t] <= SumOf(ShareOn(k, t), Uids)'
           /\ IF k = u /\ t = s
              THEN SumOf(ShareOn(k, t), Uids)' + share[u][a][s]
                      = SumOf(ShareOn(k, t), Uids) + y
              ELSE SumOf(ShareOn(k, t), Uids)' = SumOf(ShareOn(k, t), Uids)
  <2> HIDE DEF y
  <2> QED BY <1>2, <1>8, <1>9, ShareChange
<1>11. ASSUME NEW k \in Uids, NEW t \in Slots
       PROVE  /\ n'[k][t] \in Nat
              /\ n'[k][t] + SumOf(ShareOn(k, t), Uids)' = Maximum[t]
  <2>1. n[k][t] + SumOf(ShareOn(k, t), Uids) = Maximum[t]
    BY <1>2 DEF UsersBalance
  <2>2. SumOf(ShareOn(k, t), Uids) \in Nat /\ n[k][t] \in Nat /\ share[u][a][s] \in Nat
    BY <1>2, <1>3, <1>4, SharesNat
  <2>3. CASE k = u /\ t = s
    BY <1>3, <1>6, <1>7, <1>10, <2>1, <2>2, <2>3
  <2>4. CASE ~(k = u /\ t = s)
    BY <1>7, <1>10, <2>1, <2>2, <2>4
  <2> QED BY <2>3, <2>4
<1>12. UsersBalance'
  BY <1>11 DEF UsersBalance
<1>13. \A k, b \in Uids, t \in Slots : share'[k][b][t] \in 0 .. UintMax
  <2> SUFFICES ASSUME NEW k \in Uids, NEW b \in Uids, NEW t \in Slots
               PROVE  share'[k][b][t] \in 0 .. UintMax
    OBVIOUS
  <2>1. share'[k][b][t] \in Nat
    BY <1>3, <1>4, <1>8, <1>9
  <2>2. share'[k][b][t] <= SumOf(ShareOn(k, t), Uids)' /\ SumOf(ShareOn(k, t), Uids)' \in Nat
    BY <1>10
  <2> QED BY <1>3, <1>11, <2>1, <2>2
<1>14. /\ share' \in [Uids -> [Uids -> [Slots -> 0 .. UintMax]]]
       /\ n' \in [Uids -> [Slots -> 0 .. UintMax]]
  <2>1. \A k \in Uids, t \in Slots : n'[k][t] \in 0 .. UintMax
    BY <1>3, <1>10, <1>11
  <2>2. /\ n' \in [Uids -> [Slots -> Int]]
        /\ share' \in [Uids -> [Uids -> [Slots -> Int]]]
    BY <1>1, <1>3, <1>4
  <2> QED BY <1>13, <2>1, <2>2
<1>15. x \in 0 .. UintMax
  BY <1>3, <1>8, <1>9, <1>13
<1> HIDE DEF x, y
<1>16. /\ charge' \in [Charges -> {Unused} \cup
                        {Charged(k, b, t, z) : k \in Uids, b \in Uids,
                            t \in Slots, z \in 0 .. UintMax}]
       /\ charge'[c] = Charged(u, a, s, x)
       /\ \A d \in Charges \ {c} : charge'[d] = charge[d]
  BY <1>1, <1>2, <1>15 DEF ATypeOK
<1>17. /\ usages' \in [Uids -> SUBSET Uids] /\ n_usages' \in [Uids -> Nat]
       /\ n_refs' \in [Uids -> [Uids -> Nat]] /\ UsagesCounted'
  BY <1>1, <1>2, <1>5, <1>9, <1>16, RefUsageStep
<1>18. \A k, b \in Uids, t \in Slots :
           ChargedOn(k, b, t)' = IF k = u /\ b = a /\ t = s
                                 THEN ChargedOn(k, b, t) + x - Amount(c)
                                 ELSE ChargedOn(k, b, t)
  BY <1>2, <1>5, <1>9, <1>16, Recharge
<1>19. ASSUME NEW k \in Uids, NEW b \in Uids, NEW t \in Slots
       PROVE  share'[k][b][t] = ChargedOn(k, b, t)'
  <2>1. share[k][b][t] = ChargedOn(k, b, t) /\ ChargedOn(k, b, t) \in Nat
    BY <1>2, ChargedNat DEF SharesBalance
  <2>2. CASE k = u /\ b = a /\ t = s
    BY <1>3, <1>5, <1>8, <1>18, <2>1, <2>2 DEF x, y
  <2>3. CASE ~(k = u /\ b = a /\ t = s)
    BY <1>8, <1>18, <2>1, <2>3
  <2> QED BY <2>2, <2>3
<1>20. ATypeOK'
  BY <1>1, <1>2, <1>14, <1>16, <1>17 DEF ATypeOK
<1>21. SharesBalance'
  BY <1>19 DEF SharesBalance
<1> QED BY <1>12, <1>17, <1>20, <1>21 DEF BooksBalance

\* user_charge() fails: the charge object refers to the usage nevertheless,
\* and may belong to a reply slot that nobody frees.
LEMMA RefuseStep ==
    ASSUME BooksBalance, NEW c \in Charges, NEW u \in Uids, NEW a \in Uids,
           NEW s \in Slots, Usable(c, u, a, s), RefUsage(c, u, a),
           charge' = [charge EXCEPT ![c] = Charged(u, a, s, Amount(c))],
           leaked' \subseteq Charges,
           UNCHANGED <<holders, n, share>>
    PROVE  BooksBalance'
<1>1. ATypeOK /\ UsagesCounted /\ SharesBalance /\ UsersBalance
  BY DEF BooksBalance
<1>2. FitFor(c, u, a, s) /\ Amount(c) \in Nat
  BY <1>1, UsableIsFit
<1>3. Amount(c) \in 0 .. UintMax
  BY <1>1, ChargeCases, AccountsAssumption DEF Amount
<1>4. /\ charge' \in [Charges -> {Unused} \cup
                       {Charged(k, b, t, z) : k \in Uids, b \in Uids,
                           t \in Slots, z \in 0 .. UintMax}]
      /\ charge'[c] = Charged(u, a, s, Amount(c))
      /\ \A d \in Charges \ {c} : charge'[d] = charge[d]
  BY <1>1, <1>3 DEF ATypeOK
<1>5. /\ usages' \in [Uids -> SUBSET Uids] /\ n_usages' \in [Uids -> Nat]
      /\ n_refs' \in [Uids -> [Uids -> Nat]] /\ UsagesCounted'
  BY <1>1, <1>2, <1>4, RefUsageStep
<1>6. \A k, b \in Uids, t \in Slots :
           ChargedOn(k, b, t)' = IF k = u /\ b = a /\ t = s
                                 THEN ChargedOn(k, b, t) + Amount(c) - Amount(c)
                                 ELSE ChargedOn(k, b, t)
  BY <1>1, <1>2, <1>4, Recharge
<1>7. \A k, b \in Uids, t \in Slots : ChargedOn(k, b, t)' = ChargedOn(k, b, t)
  BY <1>1, <1>2, <1>6, ChargedNat
<1>8. SharesBalance'
  BY <1>1, <1>7 DEF SharesBalance
<1>9. UsersBalance'
  BY <1>1 DEF UsersBalance, ShareOn
<1>10. ATypeOK'
  BY <1>1, <1>4, <1>5 DEF ATypeOK
<1> QED BY <1>5, <1>8, <1>9, <1>10 DEF BooksBalance

\* user_charge_deinit() gives back to the user and to the usage what was
\* charged, and frees the usage that nobody refers to any more.
LEMMA DeinitStep ==
    ASSUME BooksBalance, NEW c \in Charges, Deinit(c)
    PROVE  BooksBalance'
<1>1. ATypeOK /\ UsagesCounted /\ SharesBalance /\ UsersBalance
  BY DEF BooksBalance
<1>2. PICK u \in Uids, a \in Uids, s \in Slots, x \in 0 .. UintMax :
          charge[c] = Charged(u, a, s, x)
  BY <1>1, ChargeCases DEF Deinit
<1> DEFINE y == share[u][a][s] - x
           last == n_refs[u][a] = 1
<1>3. /\ x \in Nat /\ charge[c].usage
      /\ charge[c].user = u /\ charge[c].actor = a
      /\ charge[c].slot = s /\ charge[c].charge = x
  BY <1>2, ChargeFields, AccountsAssumption
<1>4. /\ n' = [n EXCEPT ![u][s] = @ + x]
      /\ share' = [share EXCEPT ![u][a][s] = @ - x]
      /\ n_refs' = [n_refs EXCEPT ![u][a] = @ - 1]
      /\ usages' = IF last THEN [usages EXCEPT ![u] = @ \ {a}] ELSE usages
      /\ n_usages' = IF last THEN [n_usages EXCEPT ![u] = @ - 1] ELSE n_usages
      /\ charge' = [charge EXCEPT ![c] = Unused]
      /\ UNCHANGED <<holders, leaked>>
  BY <1>3 DEF Deinit
<1>5. /\ UintMax \in Nat /\ IsFiniteSet(Uids) /\ IsFiniteSet(Charges)
      /\ \A t \in Slots : Maximum[t] \in Nat /\ Maximum[t] <= UintMax
  BY AccountsAssumption
<1>6. /\ n \in [Uids -> [Slots -> 0 .. UintMax]]
      /\ share \in [Uids -> [Uids -> [Slots -> 0 .. UintMax]]]
      /\ usages \in [Uids -> SUBSET Uids] /\ n_usages \in [Uids -> Nat]
      /\ n_refs \in [Uids -> [Uids -> Nat]]
  BY <1>1 DEF ATypeOK
<1>7. /\ charge' \in [Charges -> {Unused} \cup
                       {Charged(k, b, t, z) : k \in Uids, b \in Uids,
                           t \in Slots, z \in 0 .. UintMax}]
      /\ charge'[c] = Unused
      /\ \A d \in Charges \ {c} : charge'[d] = charge[d]
  BY <1>1, <1>4 DEF ATypeOK
<1>8. /\ c \in ChargesOn(u, a)
      /\ \A k, b \in Uids :
            ChargesOn(k, b)' = IF k = u /\ b = a THEN ChargesOn(k, b) \ {c}
                               ELSE ChargesOn(k, b)
      /\ \A k, b \in Uids, t \in Slots :
            ChargedOn(k, b, t)' = IF k = u /\ b = a /\ t = s
                                  THEN ChargedOn(k, b, t) - x
                                  ELSE ChargedOn(k, b, t)
  BY <1>1, <1>3, <1>7, Uncharge
<1>9. x = Part(c, u, a, s)
  BY <1>3, <1>8 DEF Part
<1>10. y \in Nat
  <2>1. share[u][a][s] = ChargedOn(u, a, s) /\ x <= ChargedOn(u, a, s)
        /\ ChargedOn(u, a, s) \in Nat
    BY <1>1, <1>3, <1>9, ChargedNat DEF SharesBalance
  <2> QED BY <1>3, <2>1
<1>11. \A k, b \in Uids, t \in Slots :
           share'[k][b][t] = IF k = u /\ b = a /\ t = s THEN y ELSE share[k][b][t]
  BY <1>4, <1>3, <1>6
<1>12. SharesBalance'
  BY <1>1, <1>8, <1>11 DEF SharesBalance
<1> HIDE DEF y
<1>13. \A k \in Uids, t \in Slots :
           /\ SumOf(ShareOn(k, t), Uids)' \in Nat
           /\ \A b \in Uids : share'[k][b][t] <= SumOf(ShareOn(k, t), Uids)'
           /\ IF k = u /\ t = s
              THEN SumOf(ShareOn(k, t), Uids)' + share[u][a][s]
                      = SumOf(ShareOn(k, t), Uids) + y
              ELSE SumOf(ShareOn(k, t), Uids)' = SumOf(ShareOn(k, t), Uids)
  BY <1>1, <1>3, <1>10, <1>11, ShareChange
<1>14. \A k \in Uids, t \in Slots :
          n'[k][t] = IF k = u /\ t = s THEN n[k][t] + x ELSE n[k][t]
  BY <1>4, <1>3, <1>6
<1>15. ASSUME NEW k \in Uids, NEW t \in Slots
       PROVE  /\ n'[k][t] \in 0 .. UintMax
              /\ n'[k][t] + SumOf(ShareOn(k, t), Uids)' = Maximum[t]
  <2>1. n[k][t] + SumOf(ShareOn(k, t), Uids) = Maximum[t]
    BY <1>1 DEF UsersBalance
  <2>2. SumOf(ShareOn(k, t), Uids) \in Nat /\ n[k][t] \in Nat /\ share[u][a][s] \in Nat
    BY <1>1, <1>3, <1>5, <1>6, SharesNat
  <2>3. n'[k][t] \in Nat /\ n'[k][t] + SumOf(ShareOn(k, t), Uids)' = Maximum[t]
    <3>1. CASE k = u /\ t = s
      BY <1>3, <1>13, <1>14, <2>1, <2>2, <3>1 DEF y
    <3>2. CASE ~(k = u /\ t = s)
      BY <1>13, <1>14, <2>1, <2>2, <3>2
    <3> QED BY <3>1, <3>2
  <2> QED BY <1>5, <1>13, <2>3
<1>16. UsersBalance'
  BY <1>15 DEF UsersBalance
<1>17. /\ share' \in [Uids -> [Uids -> [Slots -> 0 .. UintMax]]]
       /\ n' \in [Uids -> [Slots -> 0 .. UintMax]]
  <2>1. \A k, b \in Uids, t \in Slots : share'[k][b][t] \in 0 .. UintMax
    BY <1>3, <1>5, <1>6, <1>10, <1>11 DEF y
  <2>2. /\ n' \in [Uids -> [Slots -> Int]]
        /\ share' \in [Uids -> [Uids -> [Slots -> Int]]]
    BY <1>4, <1>3, <1>5, <1>6
  <2> QED BY <1>15, <2>1, <2>2
<1>18. n_refs[u][a] = Cardinality(ChargesOn(u, a)) /\ n_refs[u][a] > 0 /\ a \in usages[u]
  <2>1. /\ n_refs[u][a] = Cardinality(ChargesOn(u, a))
        /\ a \in usages[u] <=> n_refs[u][a] > 0
        /\ n_refs[u][a] \in Nat
    BY <1>1, <1>3, <1>6 DEF UsagesCounted
  <2>2. IsFiniteSet(ChargesOn(u, a)) /\ ChargesOn(u, a) # {}
    BY <1>5, <1>8, FS_Subset DEF ChargesOn
  <2> QED BY <2>1, <2>2, FS_EmptySet
<1>19. /\ \A k, b \in Uids : n_refs'[k][b] = IF k = u /\ b = a THEN n_refs[k][b] - 1
                                             ELSE n_refs[k][b]
       /\ \A k \in Uids : /\ usages'[k] = IF k = u /\ last THEN usages[k] \ {a}
                                          ELSE usages[k]
                          /\ n_usages'[k] = IF k = u /\ last THEN n_usages[k] - 1
                                            ELSE n_usages[k]
  BY <1>4, <1>3, <1>6
<1>20. ASSUME NEW k \in Uids
       PROVE  /\ n_usages'[k] = Cardinality(usages'[k])
              /\ n_usages'[k] \in Nat
  <2>1. IsFiniteSet(usages[k]) /\ n_usages[k] = Cardinality(usages[k])
    BY <1>1, <1>5, <1>6, FS_Subset DEF UsagesCounted
  <2>2. CASE k = u /\ last
    <3>1. /\ usages'[k] = usages[k] \ {a} /\ n_usages'[k] = n_usages[k] - 1
          /\ a \in usages[k]
      BY <1>18, <1>19, <2>2
    <3>2. /\ Cardinality(usages[k] \ {a}) = Cardinality(usages[k]) - 1
          /\ IsFiniteSet(usages[k] \ {a})
      BY <2>1, <3>1, FS_RemoveElement
    <3> QED BY <2>1, <3>1, <3>2, FS_CardinalityType
  <2>3. CASE ~(k = u /\ last)
    BY <1>6, <1>19, <2>1, <2>3
  <2> QED BY <2>2, <2>3
<1>21. ASSUME NEW k \in Uids, NEW b \in Uids
       PROVE  /\ n_refs'[k][b] = Cardinality(ChargesOn(k, b)')
              /\ n_refs'[k][b] \in Nat
              /\ b \in usages'[k] <=> n_refs'[k][b] > 0
  <2>1. /\ n_refs[k][b] = Cardinality(ChargesOn(k, b))
        /\ b \in usages[k] <=> n_refs[k][b] > 0
        /\ n_refs[k][b] \in Nat
    BY <1>1, <1>6 DEF UsagesCounted
  <2>2. IsFiniteSet(ChargesOn(k, b))
    BY <1>5, FS_Subset DEF ChargesOn
  <2>3. CASE k = u /\ b = a
    <3>1. ChargesOn(k, b)' = ChargesOn(k, b) \ {c} /\ c \in ChargesOn(k, b)
      BY <1>8, <2>3
    <3>2. Cardinality(ChargesOn(k, b) \ {c}) = n_refs[k][b] - 1
      BY <2>1, <2>2, <3>1, FS_RemoveElement, ZenonT(30)
    <3>3. n_refs'[k][b] = Cardinality(ChargesOn(k, b)') /\ n_refs'[k][b] = n_refs[k][b] - 1
      BY <1>19, <2>3, <3>1, <3>2
    <3>4. b \in usages'[k] <=> ~last
      BY <1>18, <1>19, <2>3
    <3> QED BY <1>18, <2>1, <2>3, <3>3, <3>4
  <2>4. CASE ~(k = u /\ b = a)
    <3>1. ChargesOn(k, b)' = ChargesOn(k, b)
      BY <1>8, <2>4
    <3>2. n_refs'[k][b] = n_refs[k][b] /\ (b \in usages'[k] <=> b \in usages[k])
      BY <1>19, <2>4
    <3> QED BY <2>1, <3>1, <3>2
  <2> QED BY <2>3, <2>4
<1>22. UsagesCounted'
  BY <1>20, <1>21 DEF UsagesCounted
<1>23. /\ usages' \in [Uids -> SUBSET Uids] /\ n_usages' \in [Uids -> Nat]
       /\ n_refs' \in [Uids -> [Uids -> Nat]]
  <2>1. /\ n_refs' \in [Uids -> [Uids -> Int]] /\ n_usages' \in [Uids -> Int]
        /\ usages' \in [Uids -> SUBSET Uids]
    BY <1>4, <1>3, <1>6
  <2> QED BY <1>20, <1>21, <2>1
<1>24. ATypeOK'
  BY <1>4, <1>1, <1>7, <1>17, <1>23 DEF ATypeOK
<1> QED BY <1>12, <1>16, <1>22, <1>24 DEF BooksBalance

\* Who has no usage of a user has no share of it.
LEMMA UnusedShare ==
    ASSUME BooksBalance, NEW u \in Uids, NEW a \in Uids, a \notin usages[u]
    PROVE  /\ ChargesOn(u, a) = {}
           /\ \A s \in Slots : share[u][a][s] = 0
<1>1. ATypeOK /\ UsagesCounted /\ SharesBalance
  BY DEF BooksBalance
<1>2. IsFiniteSet(Charges)
  BY AccountsAssumption
<1>3. ChargesOn(u, a) = {}
  <2>1. n_refs[u][a] = 0 /\ n_refs[u][a] = Cardinality(ChargesOn(u, a))
    BY <1>1 DEF ATypeOK, UsagesCounted
  <2>2. IsFiniteSet(ChargesOn(u, a))
    BY <1>2, FS_Subset DEF ChargesOn
  <2> QED BY <2>1, <2>2, FS_EmptySet
<1>4. ASSUME NEW s \in Slots PROVE share[u][a][s] = 0
  <2> DEFINE f == [c \in Charges |-> Part(c, u, a, s)]
  <2>1. \A c \in Charges : f[c] = 0
    BY <1>3 DEF Part
  <2>2. share[u][a][s] = SumOf(f, Charges)
    BY <1>1 DEF SharesBalance, ChargedOn
  <2> HIDE DEF f
  <2>3. {} \in SUBSET Charges
    OBVIOUS
  <2>4. SumOf(f, Charges) = SumOf(f, {})
    BY <1>2, <2>1, <2>3, SumZero
  <2> QED BY <2>2, <2>4, <1>2, SumUnfold
<1> QED BY <1>3, <1>4

\* A user whose usage tree is empty has all of its resources: this is why
\* user_new() may set them anew.
LEMMA UnusedUser ==
    ASSUME BooksBalance, NEW u \in Uids, usages[u] = {}
    PROVE  n[u] = Maximum
<1>1. ATypeOK /\ UsersBalance
  BY DEF BooksBalance
<1>2. IsFiniteSet(Uids) /\ Maximum \in [Slots -> 0 .. UintMax] /\ UintMax \in Nat
  BY AccountsAssumption
<1>3. \A a \in Uids, s \in Slots : share[u][a][s] = 0
  BY UnusedShare
<1>4. ASSUME NEW s \in Slots PROVE n[u][s] = Maximum[s]
  <2>1. \A a \in Uids : ShareOn(u, s)[a] = 0
    BY <1>3 DEF ShareOn
  <2>2. {} \in SUBSET Uids
    OBVIOUS
  <2>3. SumOf(ShareOn(u, s), Uids) = SumOf(ShareOn(u, s), {})
    BY <1>2, <2>1, <2>2, SumZero
  <2>4. SumOf(ShareOn(u, s), Uids) = 0
    BY <1>2, <2>3, SumUnfold
  <2>5. n[u][s] + SumOf(ShareOn(u, s), Uids) = Maximum[s] /\ n[u][s] \in Nat
    BY <1>1, <1>2 DEF UsersBalance, ATypeOK
  <2> QED BY <2>4, <2>5
<1>5. n[u] \in [Slots -> 0 .. UintMax]
  BY <1>1 DEF ATypeOK
<1>6. n[u] = Maximum
  BY <1>2, <1>4, <1>5
<1> QED BY <1>6

\* The books only depend on the usages, shares and charges.
LEMMA SameBooks ==
    ASSUME BooksBalance,
           UNCHANGED <<n, usages, n_usages, n_refs, share, charge, leaked>>,
           holders' \in [Uids -> 0 .. MaxHolders]
    PROVE  BooksBalance'
<1>1. ATypeOK /\ UsagesCounted /\ SharesBalance /\ UsersBalance
  BY DEF BooksBalance
<1>2. ATypeOK'
  BY <1>1 DEF ATypeOK
<1>3. \A u, a \in Uids : ChargesOn(u, a)' = ChargesOn(u, a)
  BY DEF ChargesOn
<1>4. \A u, a \in Uids, s \in Slots : ChargedOn(u, a, s)' = ChargedOn(u, a, s)
  BY DEF ChargesOn, ChargedOn, Part
<1>5. UsagesCounted'
  <2> SUFFICES ASSUME NEW u \in Uids, NEW a \in Uids
               PROVE  /\ n_usages'[u] = Cardinality(usages'[u])
                      /\ n_refs'[u][a] = Cardinality(ChargesOn(u, a)')
                      /\ a \in usages'[u] <=> n_refs'[u][a] > 0
    BY DEF UsagesCounted
  <2>1. /\ n_usages[u] = Cardinality(usages[u])
        /\ n_refs[u][a] = Cardinality(ChargesOn(u, a))
        /\ a \in usages[u] <=> n_refs[u][a] > 0
    BY <1>1 DEF UsagesCounted
  <2> QED BY <1>3, <2>1
<1>6. SharesBalance'
  BY <1>1, <1>4 DEF SharesBalance
<1>7. UsersBalance'
  BY <1>1 DEF UsersBalance, ShareOn
<1> QED BY <1>2, <1>5, <1>6, <1>7 DEF BooksBalance

\* Users are created and freed without a change to the books.
LEMMA HoldersStep ==
    ASSUME BooksBalance, NEW u \in Uids, RefUser(u) \/ UnrefUser(u)
    PROVE  /\ BooksBalance'
           /\ UNCHANGED <<n, usages, n_usages, n_refs, share, charge, leaked>>
<1>1. ATypeOK /\ UsagesCounted /\ SharesBalance /\ UsersBalance
  BY DEF BooksBalance
<1>2. n \in [Uids -> [Slots -> 0 .. UintMax]] /\ holders \in [Uids -> 0 .. MaxHolders]
      /\ MaxHolders \in Nat
  BY <1>1, AccountsAssumption DEF ATypeOK
<1>3. UNCHANGED <<usages, n_usages, n_refs, share, charge, leaked>>
  BY DEF RefUser, UnrefUser
<1>4. n' = n
  <2>1. CASE RefUser(u) /\ ~Exists(u)
    <3>1. n[u] = Maximum
      BY <2>1, UnusedUser DEF Exists
    <3>2. n' = [n EXCEPT ![u] = Maximum]
      BY <2>1 DEF RefUser
    <3> QED BY <1>2, <3>1, <3>2
  <2>2. CASE ~(RefUser(u) /\ ~Exists(u))
    BY <2>2 DEF RefUser, UnrefUser
  <2> QED BY <2>1, <2>2
<1>5. holders' \in [Uids -> 0 .. MaxHolders]
  BY <1>2 DEF RefUser, UnrefUser
<1> QED BY <1>3, <1>4, <1>5, SameBooks

\* The registry starts without users.
LEMMA BooksInit == AInit => BooksBalance
<1> SUFFICES ASSUME AInit PROVE BooksBalance
  OBVIOUS
<1>1. /\ IsFiniteSet(Uids) /\ IsFiniteSet(Charges) /\ UintMax \in Nat /\ MaxHolders \in Nat
      /\ Maximum \in [Slots -> 0 .. UintMax]
  BY AccountsAssumption
<1>2. ATypeOK
  BY <1>1 DEF AInit, ATypeOK
<1>3. \A u, a \in Uids : ChargesOn(u, a) = {}
  BY ChargeFields DEF AInit, ChargesOn
<1>4. \A u, a \in Uids : /\ usages[u] = {} /\ n_usages[u] = 0 /\ n_refs[u][a] = 0
                         /\ \A s \in Slots : share[u][a][s] = 0 /\ n[u][s] = Maximum[s]
  BY <1>1 DEF AInit
<1>5. UsagesCounted
  BY <1>3, <1>4, FS_EmptySet DEF UsagesCounted
<1>6. ASSUME NEW u \in Uids, NEW a \in Uids, NEW s \in Slots
      PROVE  share[u][a][s] = ChargedOn(u, a, s)
  <2> DEFINE f == [c \in Charges |-> Part(c, u, a, s)]
  <2>1. \A c \in Charges : f[c] = 0
    BY <1>3 DEF Part
  <2>2. ChargedOn(u, a, s) = SumOf(f, Charges)
    BY DEF ChargedOn
  <2> HIDE DEF f
  <2>3. {} \in SUBSET Charges
    OBVIOUS
  <2>4. SumOf(f, Charges) = SumOf(f, {})
    BY <1>1, <2>1, <2>3, SumZero
  <2>5. SumOf(f, {}) = 0
    BY <1>1, SumUnfold
  <2>6. share[u][a][s] = 0
    BY <1>4
  <2> QED BY <2>2, <2>4, <2>5, <2>6
<1>7. ASSUME NEW u \in Uids, NEW s \in Slots
      PROVE  n[u][s] + SumOf(ShareOn(u, s), Uids) = Maximum[s]
  <2>1. \A a \in Uids : ShareOn(u, s)[a] = 0
    BY <1>4 DEF ShareOn
  <2>2. {} \in SUBSET Uids
    OBVIOUS
  <2>3. SumOf(ShareOn(u, s), Uids) = SumOf(ShareOn(u, s), {})
    BY <1>1, <2>1, <2>2, SumZero
  <2>4. SumOf(ShareOn(u, s), Uids) = 0
    BY <1>1, <2>3, SumUnfold
  <2> QED BY <1>1, <1>4, <2>4
<1> QED BY <1>2, <1>5, <1>6, <1>7 DEF BooksBalance, SharesBalance, UsersBalance

\* Every operation keeps the books.
LEMMA BooksStep == BooksBalance /\ [ANext]_avars => BooksBalance'
<1> SUFFICES ASSUME BooksBalance, [ANext]_avars PROVE BooksBalance'
  OBVIOUS
<1>1. ASSUME NEW c \in Charges, NEW u \in Accounted, NEW a \in Uids, NEW s \in Slots,
             NEW amount \in Amounts,
             \/ Charge(c, u, a, s, amount)
             \/ Refuse(c, u, a, s, amount)
             \/ RefuseReplySlot(c, u, a, s, amount)
      PROVE  BooksBalance'
  <2>1. u \in Uids
    BY AccountsAssumption
  <2>2. leaked \subseteq Charges
    BY DEF BooksBalance, ATypeOK
  <2>3. CASE Charge(c, u, a, s, amount)
    BY <2>1, <2>3, ChargeStep
  <2>4. CASE Refuse(c, u, a, s, amount)
    <3>1. /\ Usable(c, u, a, s) /\ RefUsage(c, u, a)
          /\ charge' = [charge EXCEPT ![c] = Charged(u, a, s, Amount(c))]
          /\ leaked' = leaked /\ UNCHANGED <<holders, n, share>>
      BY <2>4 DEF Refuse
    <3> QED BY <2>1, <2>2, <3>1, RefuseStep
  <2>5. CASE RefuseReplySlot(c, u, a, s, amount)
    <3>1. Amount(c) = 0
      BY <2>5, ChargeFields DEF RefuseReplySlot, Amount
    <3>2. /\ Usable(c, u, a, s) /\ RefUsage(c, u, a)
          /\ charge' = [charge EXCEPT ![c] = Charged(u, a, s, Amount(c))]
          /\ leaked' = leaked \cup {c} /\ UNCHANGED <<holders, n, share>>
      BY <2>5, <3>1 DEF RefuseReplySlot, Usable
    <3> QED BY <2>1, <2>2, <3>2, RefuseStep
  <2> QED BY <1>1, <2>3, <2>4, <2>5
<1>2. CASE \E c \in Charges : Deinit(c)
  BY <1>2, DeinitStep
<1>3. CASE \E u \in Uids : RefUser(u) \/ UnrefUser(u)
  BY <1>3, HoldersStep
<1>4. CASE UNCHANGED avars
  <2>1. UNCHANGED <<holders, n, usages, n_usages, n_refs, share, charge, leaked>>
    BY <1>4 DEF avars
  <2>2. holders \in [Uids -> 0 .. MaxHolders]
    BY DEF BooksBalance, ATypeOK
  <2> QED BY <2>1, <2>2, SameBooks
<1> QED BY <1>1, <1>2, <1>3, <1>4 DEF ANext

\* The books of user.c balance, whatever is charged, refused and given back in
\* whatever order: the assertions of user_usage_free() and user_free() hold,
\* and no counter wraps.
THEOREM AccountsBalance == ASpec => []BooksBalance
BY BooksInit, BooksStep, PTL DEF ASpec

-----------------------------------------------------------------------------
(* What remote users can hold *)

\* Products of naturals grow with their factors.
LEMMA ProductGrows ==
    ASSUME NEW a \in Nat, NEW b \in Nat, NEW c \in Nat, a <= b
    PROVE  c * a <= c * b /\ a * c <= b * c
<1>1. PICK d \in Nat : b = a + d
  <2>1. b - a \in Nat /\ b = a + (b - a)
    OBVIOUS
  <2> QED BY <2>1
<1>2. c * b = c * a + c * d /\ b * c = a * c + d * c
  BY <1>1
<1>3. c * d \in Nat /\ d * c \in Nat /\ c * a \in Nat /\ a * c \in Nat
  OBVIOUS
<1> QED BY <1>2, <1>3

\* The bound k/(k + 1) grows with the number of users.
LEMMA SpreadBound ==
    ASSUME NEW h \in Nat, NEW m \in Nat, NEW j \in Nat, NEW k \in Nat,
           h <= m, h * (j + 1) <= j * m, j <= k
    PROVE  h * (k + 1) <= k * m
<1>1. PICK d \in Nat : k = j + d
  <2>1. k - j \in Nat /\ k = j + (k - j)
    OBVIOUS
  <2> QED BY <2>1
<1>2. h * (k + 1) = h * (j + 1) + h * d /\ k * m = j * m + m * d
  BY <1>1
<1>3. h * d <= m * d
  BY ProductGrows
<1>4. h * (j + 1) \in Nat /\ h * d \in Nat /\ j * m \in Nat /\ m * d \in Nat
  OBVIOUS
<1> QED BY <1>2, <1>3, <1>4

\* The argument of user_charge_check(): x is what an actor will have, used what
\* it has, h what the k - 1 others have, left what the user has left of m.
LEMMA QuotaBound ==
    ASSUME NEW x \in Nat, NEW used \in Nat, NEW h \in Nat, NEW left \in Nat, NEW m \in Nat,
           NEW k \in Nat \ {0}, NEW users \in Nat, k <= users,
           x * (users + 1) - used <= left,
           left + used + h <= m,
           h * k <= (k - 1) * m
    PROVE  (h + x) * (k + 1) <= k * m
<1>1. x * (k + 1) <= x * (users + 1)
  BY ProductGrows
<1>2. x * (k + 1) + h <= m
  BY <1>1
<1>3. (h + x) * (k + 1) = h * k + h + x * (k + 1)
  OBVIOUS
<1>4. k * m = (k - 1) * m + m
  OBVIOUS
<1>5. h * k \in Nat /\ x * (k + 1) \in Nat /\ (k - 1) * m \in Nat
  OBVIOUS
<1> QED BY <1>2, <1>3, <1>4, <1>5

\* The users of S hold at most k/(k + 1) of slot s of u, k being their number.
Bounded(u, s, S) ==
    SumOf(ShareOn(u, s), S) * (Cardinality(S) + 1) <= Cardinality(S) * Maximum[s]

\* RemotesCannotExhaust, user by user.
LEMMA RemotesBounded ==
    RemotesCannotExhaust <=>
        \A u \in Uids, s \in Slots : \A S \in SUBSET (Uids \ {u}) : Bounded(u, s, S)
BY DEF RemotesCannotExhaust, Bounded

\* After user_charge() has let a have what it asked for.
LEMMA ChargeBounded ==
    ASSUME BooksBalance, BooksBalance', RemotesCannotExhaust,
           NEW u \in Uids, NEW a \in Uids \ {u}, NEW s \in Slots, NEW amount \in Nat,
           Allowed(u, a, s, amount, Users(u, a)),
           \A b \in Uids :
               share'[u][b][s] = IF b = a THEN share[u][a][s] + amount ELSE share[u][b][s],
           NEW S \in SUBSET (Uids \ {u}), a \in S
    PROVE  Bounded(u, s, S)'
<1> DEFINE f == ShareOn(u, s)
           g == ShareOn(u, s)'
           m == Maximum[s]
           A == usages[u] \cup {a}
           T == S \cap A
           used == share[u][a][s]
           x == used + amount
           h == SumOf(f, T \ {a})
           k == Cardinality(T)
<1>1. /\ ATypeOK /\ UsagesCounted /\ UsersBalance
      /\ ATypeOK' /\ UsersBalance'
  BY DEF BooksBalance
<1>2. m \in Nat /\ IsFiniteSet(Uids) /\ UintMax \in Nat
  BY AccountsAssumption
<1>3. /\ \A b \in Uids : /\ f[b] = share[u][b][s] /\ f[b] \in Nat
                         /\ g[b] = share'[u][b][s] /\ g[b] \in Nat
      /\ \A b \in Uids \ {a} : g[b] = f[b]
      /\ f[a] = used /\ g[a] = x /\ used \in Nat /\ x \in Nat
      /\ n[u][s] \in Nat /\ n'[u][s] \in Nat
  BY <1>1, <1>2 DEF ShareOn, ATypeOK
<1>4. \A b \in S \ T : g[b] = 0
  <2>1. \A b \in S \ T : b \in Uids /\ b # a /\ b \notin usages[u]
    OBVIOUS
  <2>2. \A b \in S \ T : share[u][b][s] = 0
    BY <2>1, UnusedShare
  <2> QED BY <1>3, <2>1, <2>2
<1>5. /\ a \in T /\ T \in SUBSET S /\ S \in SUBSET Uids /\ T \in SUBSET Uids
      /\ A \in SUBSET Uids /\ T \in SUBSET A
  BY <1>1 DEF ATypeOK
<1>6. IsFiniteSet(S) /\ IsFiniteSet(T) /\ IsFiniteSet(A) /\ IsFiniteSet(T \ {a})
  BY <1>2, <1>5, FS_Subset
<1> HIDE DEF f, g, T, A
<1>7. /\ k \in Nat \ {0} /\ Cardinality(S) \in Nat /\ k <= Cardinality(S)
      /\ Cardinality(T \ {a}) = k - 1
  BY <1>5, <1>6, FS_Subset, FS_CardinalityType, FS_EmptySet, FS_RemoveElement
<1>8. Users(u, a) \in Nat /\ k <= Users(u, a)
  <2>1. Users(u, a) \in Nat /\ Users(u, a) = Cardinality(A)
    BY <1>1, UsersNat DEF A
  <2> QED BY <1>5, <1>6, <2>1, FS_Subset
<1>9. x * (Users(u, a) + 1) - used <= n[u][s]
  BY DEF Allowed, WithinQuota
<1>10. h \in Nat /\ SumOf(f, T) = used + h /\ SumOf(g, T) = x + h
  <2>1. h \in Nat
    BY <1>3, <1>5, <1>6, SumNat
  <2>2. /\ SumOf(f, T) = f[a] + SumOf(f, T \ {a})
        /\ SumOf(g, T) = g[a] + SumOf(g, T \ {a})
    BY <1>3, <1>5, <1>6, SumRemove
  <2>3. SumOf(g, T \ {a}) = SumOf(f, T \ {a})
    BY <1>3, <1>5, <1>6, SumSame
  <2> QED BY <1>3, <2>1, <2>2, <2>3
<1>11. n[u][s] + used + h <= m
  <2>1. n[u][s] + SumOf(f, Uids) = m
    BY <1>1 DEF UsersBalance, f
  <2>2. SumOf(f, T) <= SumOf(f, Uids) /\ SumOf(f, Uids) \in Nat
    BY <1>2, <1>3, <1>5, SumSubset, SumNat
  <2> QED BY <1>2, <1>3, <1>10, <2>1, <2>2
<1>12. h * k <= (k - 1) * m
  <2>1. T \ {a} \in SUBSET (Uids \ {u})
    BY <1>5
  <2>2. SumOf(f, T \ {a}) * (Cardinality(T \ {a}) + 1) <= Cardinality(T \ {a}) * m
    BY <2>1, RemotesBounded DEF Bounded, f
  <2>3. h * ((k - 1) + 1) <= (k - 1) * m
    BY <1>7, <2>2
  <2>4. (k - 1) + 1 = k
    BY <1>7
  <2> QED BY <2>3, <2>4
<1>13. (h + x) * (k + 1) <= k * m
  <2> HIDE DEF h, x, k, m, used
  <2> QED BY <1>2, <1>3, <1>7, <1>8, <1>9, <1>10, <1>11, <1>12, QuotaBound
<1>14. SumOf(g, S) = h + x
  <2>1. SumOf(g, S) = SumOf(g, T)
    BY <1>3, <1>4, <1>5, <1>6, SumZero
  <2> QED BY <1>3, <1>10, <2>1
<1>15. h + x <= m
  <2>1. n'[u][s] + SumOf(g, Uids) = m
    BY <1>1 DEF UsersBalance, g
  <2>2. SumOf(g, S) <= SumOf(g, Uids) /\ SumOf(g, Uids) \in Nat
    BY <1>2, <1>3, <1>5, SumSubset, SumNat
  <2> QED BY <1>2, <1>3, <1>10, <1>14, <2>1, <2>2
<1>16. (h + x) * (Cardinality(S) + 1) <= Cardinality(S) * m
  <2>1. h + x \in Nat
    BY <1>3, <1>10
  <2> HIDE DEF h, x, k, m, used
  <2> QED BY <1>2, <1>7, <1>13, <1>15, <2>1, SpreadBound
<1> QED BY <1>14, <1>16 DEF Bounded, g

\* The bound stays when no share of the users in S grows.
LEMMA ShrinkBounded ==
    ASSUME ATypeOK, ATypeOK', NEW u \in Uids, NEW s \in Slots, NEW S \in SUBSET Uids,
           Bounded(u, s, S), \A a \in S : share'[u][a][s] <= share[u][a][s]
    PROVE  Bounded(u, s, S)'
<1> DEFINE f == ShareOn(u, s)
           g == ShareOn(u, s)'
           k == Cardinality(S)
           m == Maximum[s]
<1>1. IsFiniteSet(S) /\ UintMax \in Nat /\ m \in Nat
  BY FS_Subset, AccountsAssumption
<1>2. \A a \in S : f[a] \in Nat /\ g[a] \in Nat /\ g[a] <= f[a]
  BY <1>1 DEF ATypeOK, ShareOn
<1>3. SumOf(f, S) * (k + 1) <= k * m
  BY DEF Bounded
<1> HIDE DEF f, g
<1>4. SumOf(g, S) <= SumOf(f, S) /\ SumOf(f, S) \in Nat /\ SumOf(g, S) \in Nat
  BY <1>1, <1>2, SumMonotone, SumNat
<1>5. k \in Nat
  BY <1>1, FS_CardinalityType
<1>6. SumOf(g, S) * (k + 1) <= SumOf(f, S) * (k + 1)
  BY <1>4, <1>5, ProductGrows
<1>7. /\ SumOf(g, S) * (k + 1) \in Nat /\ SumOf(f, S) * (k + 1) \in Nat /\ k * m \in Nat
  BY <1>1, <1>4, <1>5
<1>8. SumOf(g, S) * (k + 1) <= k * m
  <2> HIDE DEF k, m
  <2> QED BY <1>3, <1>6, <1>7
<1> QED BY <1>8 DEF Bounded, g

\* What a step does to the shares: one grows, with the consent of the quota, or
\* none does.
LEMMA ShareStep ==
    ASSUME BooksBalance, [ANext]_avars
    PROVE  \/ \E u \in Uids, a \in Uids, s \in Slots, amount \in Amounts :
                 /\ Allowed(u, a, s, amount, Users(u, a))
                 /\ \A k, b \in Uids, t \in Slots :
                       share'[k][b][t] = IF k = u /\ b = a /\ t = s
                                         THEN share[k][b][t] + amount
                                         ELSE share[k][b][t]
           \/ \A k, b \in Uids, t \in Slots : share'[k][b][t] <= share[k][b][t]
<1>1. /\ ATypeOK /\ UintMax \in Nat
      /\ share \in [Uids -> [Uids -> [Slots -> 0 .. UintMax]]]
  BY AccountsAssumption DEF BooksBalance, ATypeOK
<1>2. CASE \E c \in Charges, u \in Accounted, a \in Uids, s \in Slots, amount \in Amounts :
              Charge(c, u, a, s, amount)
  <2>1. PICK c \in Charges, u \in Accounted, a \in Uids, s \in Slots, amount \in Amounts :
            Charge(c, u, a, s, amount)
    BY <1>2
  <2>2. /\ Allowed(u, a, s, amount, Users(u, a))
        /\ share' = [share EXCEPT ![u][a][s] = @ + amount]
        /\ u \in Uids /\ amount \in Nat
    BY <2>1, AccountsAssumption DEF Charge
  <2>3. \A k, b \in Uids, t \in Slots :
            share'[k][b][t] = IF k = u /\ b = a /\ t = s THEN share[k][b][t] + amount
                              ELSE share[k][b][t]
    BY <1>1, <2>2
  <2> QED BY <2>2, <2>3
<1>3. CASE \E c \in Charges : Deinit(c)
  <2>1. PICK c \in Charges : Deinit(c)
    BY <1>3
  <2>2. PICK u \in Uids, a \in Uids, s \in Slots, x \in 0 .. UintMax :
            charge[c] = Charged(u, a, s, x)
    BY <1>1, <2>1, ChargeCases DEF Deinit
  <2>3. /\ charge[c].user = u /\ charge[c].actor = a
        /\ charge[c].slot = s /\ charge[c].charge = x
    BY <2>2, ChargeFields
  <2>4. share' = [share EXCEPT ![u][a][s] = @ - x]
    BY <2>1, <2>3 DEF Deinit
  <2> QED BY <1>1, <2>4
<1>4. CASE UNCHANGED share
  BY <1>1, <1>4
<1> QED BY <1>2, <1>3, <1>4 DEF ANext, avars, Refuse, RefuseReplySlot, RefUser, UnrefUser

\* Every operation keeps the bound.
LEMMA RemotesStep ==
    BooksBalance /\ RemotesCannotExhaust /\ [ANext]_avars => RemotesCannotExhaust'
<1> SUFFICES ASSUME BooksBalance, RemotesCannotExhaust, [ANext]_avars,
                    NEW v \in Uids, NEW t \in Slots, NEW S \in SUBSET (Uids \ {v})
             PROVE  Bounded(v, t, S)'
  BY DEF RemotesCannotExhaust, Bounded
<1>1. BooksBalance' /\ ATypeOK /\ ATypeOK'
  BY BooksStep DEF BooksBalance
<1>2. Bounded(v, t, S) /\ S \in SUBSET Uids
  BY RemotesBounded
<1>3. UintMax \in Nat /\ Amounts \subseteq Nat
      /\ share \in [Uids -> [Uids -> [Slots -> 0 .. UintMax]]]
  BY <1>1, AccountsAssumption DEF ATypeOK
<1>4. ASSUME \A k, b \in Uids, r \in Slots : share'[k][b][r] <= share[k][b][r]
      PROVE  Bounded(v, t, S)'
  BY <1>1, <1>2, <1>4, ShrinkBounded
<1>5. ASSUME NEW u \in Uids, NEW a \in Uids, NEW s \in Slots, NEW amount \in Amounts,
             Allowed(u, a, s, amount, Users(u, a)),
             \A k, b \in Uids, r \in Slots :
                 share'[k][b][r] = IF k = u /\ b = a /\ r = s THEN share[k][b][r] + amount
                                   ELSE share[k][b][r]
      PROVE  Bounded(v, t, S)'
  <2>1. CASE v = u /\ t = s /\ a \in S
    <3>1. a \in Uids \ {u} /\ S \in SUBSET (Uids \ {u}) /\ amount \in Nat
      BY <1>3, <2>1
    <3>2. \A b \in Uids : share'[u][b][s] = IF b = a THEN share[u][a][s] + amount
                                            ELSE share[u][b][s]
      BY <1>5
    <3>3. Bounded(u, s, S)'
      BY <1>1, <1>5, <2>1, <3>1, <3>2, ChargeBounded
    <3> QED BY <2>1, <3>3
  <2>2. CASE ~(v = u /\ t = s /\ a \in S)
    <3>1. \A b \in S : share'[v][b][t] <= share[v][b][t]
      BY <1>3, <1>5, <2>2
    <3> QED BY <1>1, <1>2, <3>1, ShrinkBounded
  <2> QED BY <2>1, <2>2
<1> QED BY <1>4, <1>5, ShareStep

\* At the start nobody holds anything.
LEMMA RemotesInit == AInit => RemotesCannotExhaust
<1> SUFFICES ASSUME AInit, NEW u \in Uids, NEW s \in Slots, NEW S \in SUBSET (Uids \ {u})
             PROVE  Bounded(u, s, S)
  BY RemotesBounded
<1>1. IsFiniteSet(Uids) /\ Maximum[s] \in Nat
  BY AccountsAssumption
<1>2. IsFiniteSet(S)
  BY <1>1, FS_Subset
<1>3. \A a \in S : ShareOn(u, s)[a] = 0
  BY DEF AInit, ShareOn
<1>4. {} \in SUBSET S
  OBVIOUS
<1>5. SumOf(ShareOn(u, s), S) = SumOf(ShareOn(u, s), {})
  BY <1>2, <1>3, <1>4, SumZero
<1>6. SumOf(ShareOn(u, s), S) = 0
  BY <1>2, <1>5, SumUnfold
<1>7. Cardinality(S) \in Nat
  BY <1>2, FS_CardinalityType
<1>8. 0 * (Cardinality(S) + 1) = 0 /\ Cardinality(S) * Maximum[s] \in Nat
  BY <1>1, <1>7
<1> QED BY <1>6, <1>8 DEF Bounded

\* "available resources of a peer cannot be exhausted by remote UIDs": however
\* many users charge and release in whatever order, k of them never hold more
\* than k/(k + 1) of what a user has.
THEOREM RemotesHoldTheirPart == ASpec => []RemotesCannotExhaust
BY BooksInit, BooksStep, RemotesInit, RemotesStep, PTL DEF ASpec

\* x is a share that fits into what is left if k actors and the user are
\* within their bounds.
Fits(x, used, own, h, left, m, k) ==
    /\ left + own + h + used = m
    /\ h * k <= (k - 1) * m
    /\ x * k * (k + 1) + k * own <= m
    => x * (k + 1) - used <= left

\* A share below 1/(k * (k + 1)) fits into what is left.
LEMMA SmallShareFits ==
    ASSUME NEW x \in Nat, NEW used \in Nat, NEW own \in Nat, NEW h \in Nat,
           NEW left \in Nat, NEW m \in Nat, NEW k \in Nat \ {0}
    PROVE  Fits(x, used, own, h, left, m, k)
<1> SUFFICES ASSUME left + own + h + used = m,
                    h * k <= (k - 1) * m,
                    x * k * (k + 1) + k * own <= m
             PROVE  x * (k + 1) - used <= left
  BY DEF Fits
<1>1. left * k + own * k + h * k + used * k = m * k
  <2>1. (left + own + h + used) * k = m * k
    OBVIOUS
  <2> QED BY <2>1
<1>2. m * k = (k - 1) * m + m /\ k * own = own * k /\ x * k * (k + 1) = (x * (k + 1)) * k
  OBVIOUS
<1>3. (x * (k + 1)) * k <= left * k + used * k
  <2> DEFINE P == (x * (k + 1)) * k
             Q == (k - 1) * m
  <2>1. P \in Nat /\ Q \in Nat /\ left * k \in Nat /\ own * k \in Nat /\ h * k \in Nat
        /\ used * k \in Nat /\ m * k \in Nat
    OBVIOUS
  <2> HIDE DEF P, Q
  <2>2. P + own * k <= m /\ h * k <= Q /\ m * k = Q + m
    BY <1>2 DEF P, Q
  <2>3. P <= left * k + used * k
    BY <1>1, <2>1, <2>2
  <2> QED BY <2>3 DEF P
<1>4. SUFFICES ASSUME x * (k + 1) > left + used PROVE FALSE
  <2>1. x * (k + 1) \in Nat
    OBVIOUS
  <2> QED BY <2>1
<1>5. left + used + 1 <= x * (k + 1) /\ x * (k + 1) \in Nat
  BY <1>4
<1>6. (left + used + 1) * k <= (x * (k + 1)) * k
  BY <1>5, ProductGrows
<1>7. (left + used + 1) * k = left * k + used * k + k
  OBVIOUS
<1>8. left * k \in Nat /\ used * k \in Nat /\ (x * (k + 1)) * k \in Nat
  OBVIOUS
<1> QED BY <1>3, <1>6, <1>7, <1>8

\* The bound on the others and the balance leave room for a small share.
LEMMA SmallSharesFit == BooksBalance /\ RemotesCannotExhaust => SmallSharesAreGranted
<1> SUFFICES ASSUME BooksBalance, RemotesCannotExhaust,
                    NEW u \in Uids, NEW s \in Slots, NEW amount \in Amounts,
                    NEW a \in Uids \ {u},
                    (share[u][a][s] + amount) * Users(u, a) * (Users(u, a) + 1)
                        + Users(u, a) * share[u][u][s] <= Maximum[s],
                    (share[u][a][s] + amount) * (Users(u, a) + 1) <= UintMax
             PROVE  WithinQuota(n[u][s], Users(u, a), share[u][a][s], amount)
  BY DEF SmallSharesAreGranted, Allowed
<1> DEFINE f == ShareOn(u, s)
           m == Maximum[s]
           k == Users(u, a)
           A == usages[u] \cup {a}
           R == (Uids \ {u}) \ {a}
           T == R \cap usages[u]
           used == share[u][a][s]
           own == share[u][u][s]
           x == used + amount
           h == SumOf(f, R)
<1>1. ATypeOK /\ UsagesCounted /\ UsersBalance
  BY DEF BooksBalance
<1>2. m \in Nat /\ UintMax \in Nat /\ amount \in Nat /\ IsFiniteSet(Uids)
  BY AccountsAssumption
<1>3. /\ \A b \in Uids : f[b] = share[u][b][s] /\ f[b] \in Nat
      /\ n[u][s] \in Nat /\ used \in Nat /\ own \in Nat /\ x \in Nat
  BY <1>1, <1>2 DEF ATypeOK, ShareOn
<1>4. k \in Nat \ {0} /\ k = Cardinality(A)
  BY <1>1, UsersNat
<1>5. /\ A \in SUBSET Uids /\ R \in SUBSET Uids /\ T \in SUBSET R /\ a \in A
      /\ T \in SUBSET (A \ {a}) /\ T \in SUBSET (Uids \ {u})
      /\ \A b \in R \ T : b \in Uids /\ b \notin usages[u]
  BY <1>1 DEF ATypeOK
<1> HIDE DEF f, A, R, T
<1>6. IsFiniteSet(A) /\ IsFiniteSet(R) /\ IsFiniteSet(T) /\ IsFiniteSet(A \ {a})
  BY <1>2, <1>5, FS_Subset
<1>7. h \in Nat /\ n[u][s] + own + h + used = m
  <2>1. n[u][s] + SumOf(f, Uids) = m
    BY <1>1 DEF UsersBalance, f
  <2>2. SumOf(f, Uids) = f[u] + SumOf(f, Uids \ {u})
    BY <1>2, <1>3, SumRemove
  <2>3. IsFiniteSet(Uids \ {u}) /\ a \in Uids \ {u}
    BY <1>2, FS_Subset
  <2>4. SumOf(f, Uids \ {u}) = f[a] + SumOf(f, (Uids \ {u}) \ {a})
    BY <1>3, <2>3, SumRemove
  <2>5. h \in Nat
    BY <1>3, <1>5, <1>6, SumNat
  <2>6. SumOf(f, (Uids \ {u}) \ {a}) = h
    BY DEF R
  <2> QED BY <1>2, <1>3, <2>1, <2>2, <2>4, <2>5, <2>6
<1>8. h * k <= (k - 1) * m
  <2> DEFINE j == Cardinality(T)
  <2>1. \A b \in R \ T : f[b] = 0
    BY <1>3, <1>5, UnusedShare
  <2>2. h = SumOf(f, T)
    BY <1>3, <1>5, <1>6, <2>1, SumZero
  <2>3. SumOf(f, T) * (j + 1) <= j * m
    BY <1>5, RemotesBounded DEF Bounded, f
  <2>4. j \in Nat /\ j <= k - 1 /\ k - 1 \in Nat
    <3>1. Cardinality(A \ {a}) = k - 1
      BY <1>4, <1>5, <1>6, FS_RemoveElement
    <3>2. j \in Nat /\ j <= Cardinality(A \ {a})
      BY <1>5, <1>6, FS_Subset, FS_CardinalityType
    <3> QED BY <1>4, <3>1, <3>2
  <2>5. h <= m
    BY <1>2, <1>3, <1>7
  <2>6. h * ((k - 1) + 1) <= (k - 1) * m
    <3> HIDE DEF h, j, k, m
    <3> QED BY <1>2, <1>7, <2>2, <2>3, <2>4, <2>5, SpreadBound
  <2>7. (k - 1) + 1 = k
    BY <1>4
  <2> QED BY <2>6, <2>7
<1>9. x * (k + 1) - used <= n[u][s]
  <2>1. x * k * (k + 1) + k * own <= m
    OBVIOUS
  <2> DEFINE left == n[u][s]
  <2>2. /\ x \in Nat /\ used \in Nat /\ own \in Nat /\ h \in Nat /\ left \in Nat
        /\ m \in Nat /\ k \in Nat \ {0} /\ left + own + h + used = m
        /\ h * k <= (k - 1) * m
    BY <1>2, <1>3, <1>4, <1>7, <1>8
  <2> HIDE DEF h, x, k, m, used, own, left
  <2>3. Fits(x, used, own, h, left, m, k)
    BY <2>2, SmallShareFits
  <2> QED BY <2>1, <2>2, <2>3 DEF Fits, left
<1>10. x * (k + 1) <= UintMax
  OBVIOUS
<1>11. x <= UintMax
  <2>1. x * (k + 1) = x * k + x /\ x * k \in Nat
    BY <1>3, <1>4
  <2> HIDE DEF x, k
  <2> QED BY <1>2, <1>3, <1>10, <2>1
<1> QED BY <1>9, <1>10, <1>11 DEF WithinQuota

\* The guarantee of "between 1/n and 1/n^2": user_charge() never refuses a
\* remote user what keeps it below 1/(k * (k + 1)), k being the number of
\* actors, unless the user itself has taken it or the product overflows.
THEOREM SmallSharesGranted == ASpec => []SmallSharesAreGranted
BY BooksInit, BooksStep, RemotesInit, RemotesStep, SmallSharesFit, PTL DEF ASpec
=============================================================================
