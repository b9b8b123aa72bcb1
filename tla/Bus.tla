-------------------------------- MODULE Bus ---------------------------------
(***************************************************************************)
(* Method calls on the bus, from the message that a peer sends to the one  *)
(* answer it is owed: reply slots (src/bus/reply.c), delivery and replies  *)
(* (src/bus/peer.c), calls that wait for a service to be started           *)
(* (src/bus/activation.c), and the driver and the controller that move     *)
(* them on (src/bus/driver.c, src/broker/controller*.c).                   *)
(*                                                                         *)
(* Who owns a name is taken from NameOwners, which NameRegistry            *)
(* implements.  Every handler of the broker runs to completion on one      *)
(* thread and is one action, except driver_goodbye(): it releases the      *)
(* names of a peer one by one, and its steps are actions that exclude all  *)
(* others (Idle).                                                          *)
(*                                                                         *)
(* A message is sent at most once.  Quotas are not counted here: wherever  *)
(* the code may run into one, it may do so at any time.                    *)
(***************************************************************************)
EXTENDS NameOwners, Naturals

CONSTANTS Messages,  \* messages that peers may send
          From,      \* the sender of each message
          Serial,    \* message_read_serial(): 0 if it expects no reply
          MaxIds     \* bound: activations the model requests

ASSUME MessagesAssumption ==
    /\ None \notin Owners
    /\ From \in [Messages -> Owners]
    /\ Serial \in [Messages -> Nat]
    /\ MaxIds \in Nat

VARIABLES
    peer,                 \* where each peer is in its life
    shut,                 \* peers on the bus that connection_shutdown() was called on
    sent,                 \* messages the driver has dispatched
    waiting,              \* calls whose sender has not been given an answer
    replies,              \* ReplySlots: <<callee, call>>
    dropped,              \* calls whose reply did not fit the caller's queue
    activatable,          \* names with an Activation object
    pending,              \* Activation.pending, 0 if nothing was requested
    activation_ids,       \* Bus.activation_ids
    activation_requests,  \* StartServiceByName calls waiting for a name
    activation_messages,  \* messages waiting for a name
    failed                \* <<name, id>> the controller reported as failed

calls == <<sent, waiting, replies, dropped>>
activations == <<activatable, pending, activation_ids,
                 activation_requests, activation_messages, failed>>
bvars == <<ovars, peer, shut, calls, activations>>

-----------------------------------------------------------------------------
(* Helpers *)

ExpectsReply(m) == Serial[m] # 0

\* peer_registry_find_peer(): the senders that still can be answered.
Found(p) == p \in present

\* No driver_goodbye() is under way.
Idle == \A p \in Owners : peer[p] \notin {"leaving", "becoming"}

Monitors == {p \in Owners : peer[p] = "monitor"}

\* connection_queue() to the peers S, and to the monitors that see the same
\* message, fails for those that have no room; they are disconnected.
Disconnects(S) ==
    \E full \in SUBSET (S \cup Monitors) : shut' = shut \cup full

\* Every call of M whose sender is still on the bus gets an answer.
Answered(M) == {m \in M : Found(From[m])}

\* reply_slot_new(): a callee has one slot per caller and serial.
SlotExists(p, m) ==
    \E slot \in replies : /\ slot[1] = p
                          /\ From[slot[2]] = From[m]
                          /\ Serial[slot[2]] = Serial[m]

-----------------------------------------------------------------------------
(* Messages of peers: driver_dispatch() *)

Dispatches(m) ==
    /\ Idle
    /\ m \notin sent
    /\ peer[From[m]] = "registered"
    /\ sent' = sent \cup {m}

\* driver_forward_unicast() to a peer, by its unique name or one it owns.
SendToPeer(m, p) ==
    /\ Dispatches(m)
    /\ p \in present
    /\ IF ExpectsReply(m)
       THEN /\ ~SlotExists(p, m)
            /\ replies' = replies \cup {<<p, m>>}
            /\ waiting' = waiting \cup {m}
       ELSE UNCHANGED <<replies, waiting>>
    /\ Disconnects({})
    /\ UNCHANGED <<ovars, peer, dropped, activations>>

\* The driver answers at once: a method of its own, or an error because of a
\* quota, a slot that exists or a destination that does not.
SendAnswered(m) ==
    /\ Dispatches(m)
    /\ Disconnects({From[m]})
    /\ UNCHANGED <<ovars, peer, waiting, replies, dropped, activations>>

\* driver_forward_broadcast()
Broadcast(m) ==
    /\ Dispatches(m)
    /\ ~ExpectsReply(m)
    /\ Disconnects(present)
    /\ UNCHANGED <<ovars, peer, waiting, replies, dropped, activations>>

\* activation_request(): ask the controller, unless it has been asked.
RequestActivation(n) ==
    \/ /\ pending[n] # 0
       /\ UNCHANGED <<pending, activation_ids>>
    \/ /\ pending[n] = 0
       /\ activation_ids < MaxIds
       /\ activation_ids' = activation_ids + 1
       /\ pending' = [pending EXCEPT ![n] = activation_ids + 1]

\* The destination has no owner but can be activated.
CanActivate(m, n) ==
    /\ Dispatches(m)
    /\ n \in activatable
    /\ owner[n] = None
    /\ RequestActivation(n)
    /\ UNCHANGED <<ovars, peer, replies, dropped, activatable, failed>>

\* activation_queue_message(): the message waits for the name to be owned.
QueueMessage(m, n) ==
    /\ CanActivate(m, n)
    /\ activation_messages' = [activation_messages EXCEPT ![n] = @ \cup {m}]
    /\ waiting' = IF ExpectsReply(m) THEN waiting \cup {m} ELSE waiting
    /\ Disconnects({})
    /\ UNCHANGED activation_requests

\* activation_queue_request(): StartServiceByName waits for the name.  It is
\* not stored if no reply is expected.
QueueRequest(m, n) ==
    /\ CanActivate(m, n)
    /\ IF ExpectsReply(m)
       THEN /\ activation_requests' =
                  [activation_requests EXCEPT ![n] = @ \cup {m}]
            /\ waiting' = waiting \cup {m}
       ELSE UNCHANGED <<activation_requests, waiting>>
    /\ Disconnects({})
    /\ UNCHANGED activation_messages

\* The quota is checked after the controller has been asked: the sender gets
\* an error, the activation is pending nevertheless.
QueueRefused(m, n) ==
    /\ CanActivate(m, n)
    /\ Disconnects({From[m]})
    /\ UNCHANGED <<waiting, activation_requests, activation_messages>>

-----------------------------------------------------------------------------
(* Replies: peer_queue_reply() *)

\* The slot is freed and the caller has its reply.
Reply(p, m) ==
    /\ Idle
    /\ <<p, m>> \in replies
    /\ replies' = replies \ {<<p, m>>}
    /\ waiting' = waiting \ {m}
    /\ Disconnects({})
    /\ UNCHANGED <<ovars, peer, sent, dropped, activations>>

\* CONNECTION_E_QUOTA: the slot is freed, the reply is dropped, and the event
\* is logged.
ReplyDropped(p, m) ==
    /\ Idle
    /\ <<p, m>> \in replies
    /\ replies' = replies \ {<<p, m>>}
    /\ dropped' = dropped \cup {m}
    /\ Disconnects({})
    /\ UNCHANGED <<ovars, peer, sent, waiting, activations>>

\* CONNECTION_E_UNEXPECTED_FDS: the caller is disconnected.
ReplyWithFds(p, m) ==
    /\ Idle
    /\ <<p, m>> \in replies
    /\ replies' = replies \ {<<p, m>>}
    /\ waiting' = waiting \ {m}
    /\ \E full \in SUBSET Monitors : shut' = shut \cup full \cup {From[m]}
    /\ UNCHANGED <<ovars, peer, sent, dropped, activations>>

-----------------------------------------------------------------------------
(* Names *)

\* driver_method_request_name() makes p the primary owner of n.  With
\* driver_name_activated() the name stops being pending, the requests are
\* answered, and the messages are delivered in turn: got is the set of calls
\* that p gets a slot for, the others are answered with an error.
TakeName(p, n) ==
    LET asked == {m \in Answered(activation_messages[n]) : ExpectsReply(m)}
    IN  /\ Idle
        /\ peer[p] = "registered"
        /\ Change(n, p)
        /\ \E got \in SUBSET {m \in asked : ~SlotExists(p, m)} :
              /\ \A a, b \in got : From[a] = From[b] /\ Serial[a] = Serial[b] => a = b
              /\ replies' = replies \cup {<<p, m>> : m \in got}
              /\ waiting' = waiting \ (Answered(activation_requests[n])
                                          \cup (asked \ got))
        /\ pending' = [pending EXCEPT ![n] = 0]
        /\ activation_requests' = [activation_requests EXCEPT ![n] = {}]
        /\ activation_messages' = [activation_messages EXCEPT ![n] = {}]
        /\ Disconnects(present)
        /\ UNCHANGED <<peer, sent, dropped, activatable, activation_ids, failed>>

\* driver_method_release_name() hands n to q, the next in line, or to nobody.
ReleaseName(p, n, q) ==
    /\ Idle
    /\ peer[p] = "registered"
    /\ owner[n] = p
    /\ Change(n, q)
    /\ Disconnects(present)
    /\ UNCHANGED <<peer, calls, activations>>

-----------------------------------------------------------------------------
(* Peers *)

\* driver_method_hello()
Hello(p) ==
    /\ Idle
    /\ peer[p] = "new"
    /\ peer' = [peer EXCEPT ![p] = "registered"]
    /\ Join(p)
    /\ Disconnects(present \cup {p})
    /\ UNCHANGED <<calls, activations>>

\* Faulty variant: the slots of the peer's own calls are not freed.
GoodbyeBeginKeepsSlots(p, how) ==
    /\ Idle
    /\ peer[p] = "registered"
    /\ peer' = [peer EXCEPT ![p] = how]
    /\ waiting' = {m \in waiting : From[m] # p}
    /\ Disconnects(IF how = "becoming" THEN {p} ELSE {})
    /\ UNCHANGED <<ovars, replies, sent, dropped, activations>>

\* driver_goodbye() starts, because the connection ended or because the peer
\* becomes a monitor.  The slots of its own calls are freed; nobody waits for
\* their answers any more.
GoodbyeBegin(p, how) ==
    /\ Idle
    /\ peer[p] = "registered"
    /\ peer' = [peer EXCEPT ![p] = how]
    /\ replies' = {slot \in replies : From[slot[2]] # p}
    /\ waiting' = {m \in waiting : From[m] # p}
    /\ Disconnects(IF how = "becoming" THEN {p} ELSE {})
    /\ UNCHANGED <<ovars, sent, dropped, activations>>

\* Its names go to the next in line, one by one.
GoodbyeMove(n, q) ==
    /\ \E p \in Owners : peer[p] \in {"leaving", "becoming"} /\ owner[n] = p
    /\ Change(n, q)
    /\ Disconnects(present)
    /\ UNCHANGED <<peer, calls, activations>>

\* Faulty variant: a peer that becomes a monitor keeps its slots.
GoodbyeEndMonitor(p) ==
    LET unanswered == {m \in Messages : <<p, m>> \in replies}
    IN  /\ peer[p] \in {"leaving", "becoming"}
        /\ peer' = [peer EXCEPT ![p] = IF @ = "becoming" THEN "monitor" ELSE "gone"]
        /\ Leave(p)
        /\ IF peer[p] = "leaving"
           THEN /\ replies' = {slot \in replies : slot[1] # p}
                /\ waiting' = waiting \ unanswered
           ELSE UNCHANGED <<replies, waiting>>
        /\ \E full \in SUBSET (present \cup Monitors) :
              shut' = (shut \cup full) \ (IF peer[p] = "leaving" THEN {p} ELSE {})
        /\ UNCHANGED <<sent, dropped, activations>>

\* Its unique name is announced as lost, it is unregistered, and the calls it
\* has not replied to are answered with NoReply.
GoodbyeEnd(p) ==
    LET unanswered == {m \in Messages : <<p, m>> \in replies}
    IN  /\ peer[p] \in {"leaving", "becoming"}
        /\ peer' = [peer EXCEPT ![p] = IF @ = "becoming" THEN "monitor" ELSE "gone"]
        /\ Leave(p)
        /\ replies' = {slot \in replies : slot[1] # p}
        /\ waiting' = waiting \ unanswered
        /\ \E full \in SUBSET (present \cup Monitors) :
              shut' = (shut \cup full) \ (IF peer[p] = "leaving" THEN {p} ELSE {})
        /\ UNCHANGED <<sent, dropped, activations>>

\* driver_goodbye() of a monitor, or of a peer that never said Hello.
HangUp(p) ==
    /\ Idle
    /\ peer[p] \in {"new", "monitor"}
    /\ peer' = [peer EXCEPT ![p] = "gone"]
    /\ shut' = shut \ {p}
    /\ UNCHANGED <<ovars, calls, activations>>

-----------------------------------------------------------------------------
(* The controller *)

\* Faulty variant: only StartServiceByName calls are answered.
CancelActivationHalf(n) ==
    LET answered == Answered(activation_requests[n])
    IN  /\ pending' = [pending EXCEPT ![n] = 0]
        /\ activation_requests' = [activation_requests EXCEPT ![n] = {}]
        /\ activation_messages' = [activation_messages EXCEPT ![n] = {}]
        /\ waiting' = waiting \ answered
        /\ Disconnects({From[m] : m \in answered})

\* driver_name_activation_failed() for the pending activation of n: whoever
\* waits for it gets an error.
CancelActivation(n) ==
    LET answered == Answered(activation_requests[n] \cup activation_messages[n])
    IN  /\ pending' = [pending EXCEPT ![n] = 0]
        /\ activation_requests' = [activation_requests EXCEPT ![n] = {}]
        /\ activation_messages' = [activation_messages EXCEPT ![n] = {}]
        /\ waiting' = waiting \ answered
        /\ Disconnects({From[m] : m \in answered})

\* Faulty variant: the serial of the report is not looked at.
ActivationFailedAny(n, id) ==
    /\ Idle
    /\ n \in activatable
    /\ id \in 1 .. activation_ids
    /\ failed' = failed \cup {<<n, id>>}
    /\ CancelActivation(n)
    /\ UNCHANGED <<ovars, peer, sent, replies, dropped, activatable,
                   activation_ids>>

\* controller_method_name_reset(): the controller reports that activation id
\* of n failed.  A report for another activation than the pending one is late,
\* and ignored.
ActivationFailed(n, id) ==
    /\ Idle
    /\ n \in activatable
    /\ id \in 1 .. activation_ids
    /\ failed' = failed \cup {<<n, id>>}
    /\ IF pending[n] = id THEN CancelActivation(n)
       ELSE UNCHANGED <<pending, activation_requests, activation_messages,
                        waiting, shut>>
    /\ UNCHANGED <<ovars, peer, sent, replies, dropped, activatable,
                   activation_ids>>

\* controller_add_name()
AddName(n) ==
    /\ Idle
    /\ n \notin activatable
    /\ activatable' = activatable \cup {n}
    /\ UNCHANGED <<ovars, peer, shut, calls, pending, activation_ids,
                   activation_requests, activation_messages, failed>>

\* controller_method_name_release(): what is pending fails, then the
\* Activation object is freed with everything that waits in it.
RemoveName(n) ==
    /\ Idle
    /\ n \in activatable
    /\ IF pending[n] # 0 THEN CancelActivation(n)
       ELSE /\ activation_requests' = [activation_requests EXCEPT ![n] = {}]
            /\ activation_messages' = [activation_messages EXCEPT ![n] = {}]
            /\ UNCHANGED <<pending, waiting, shut>>
    /\ activatable' = activatable \ {n}
    /\ UNCHANGED <<ovars, peer, sent, replies, dropped, activation_ids, failed>>

-----------------------------------------------------------------------------
BInit ==
    /\ OInit
    /\ peer = [p \in Owners |-> "new"]
    /\ shut = {}
    /\ sent = {}
    /\ waiting = {}
    /\ replies = {}
    /\ dropped = {}
    /\ activatable = {}
    /\ pending = [n \in Names |-> 0]
    /\ activation_ids = 0
    /\ activation_requests = [n \in Names |-> {}]
    /\ activation_messages = [n \in Names |-> {}]
    /\ failed = {}

GoodbyeStep ==
    \/ \E n \in Names, q \in Owners \cup {None} : GoodbyeMove(n, q)
    \/ \E p \in Owners : GoodbyeEnd(p)

BNext ==
    \/ \E m \in Messages : SendAnswered(m) \/ Broadcast(m)
    \/ \E m \in Messages, p \in Owners :
          SendToPeer(m, p) \/ Reply(p, m) \/ ReplyDropped(p, m) \/ ReplyWithFds(p, m)
    \/ \E m \in Messages, n \in Names :
          QueueMessage(m, n) \/ QueueRequest(m, n) \/ QueueRefused(m, n)
    \/ \E p \in Owners, n \in Names : TakeName(p, n)
    \/ \E p \in Owners, n \in Names, q \in Owners \cup {None} : ReleaseName(p, n, q)
    \/ \E p \in Owners : Hello(p) \/ HangUp(p)
    \/ \E p \in Owners, how \in {"leaving", "becoming"} : GoodbyeBegin(p, how)
    \/ GoodbyeStep
    \/ \E n \in Names, id \in 1 .. MaxIds : ActivationFailed(n, id)
    \/ \E n \in Names : AddName(n) \/ RemoveName(n)

BSpec == BInit /\ [][BNext]_bvars

\* driver_goodbye() is a loop inside one handler of the broker, which runs on.
\* Nothing is assumed of peers, nor of the controller: a service may be started
\* and never take its name, and an activation stay pending for ever.
BFairness == WF_bvars(GoodbyeStep)

BFairSpec == BSpec /\ BFairness

-----------------------------------------------------------------------------
(* Properties *)

BTypeOK ==
    /\ peer \in [Owners -> {"new", "registered", "leaving", "becoming",
                            "monitor", "gone"}]
    /\ shut \in SUBSET Owners
    /\ sent \in SUBSET Messages
    /\ waiting \in SUBSET Messages
    /\ replies \in SUBSET (Owners \X Messages)
    /\ dropped \in SUBSET Messages
    /\ activatable \in SUBSET Names
    /\ activation_ids \in Nat
    /\ pending \in [Names -> 0 .. activation_ids]
    /\ activation_requests \in [Names -> SUBSET Messages]
    /\ activation_messages \in [Names -> SUBSET Messages]
    /\ failed \in SUBSET (Names \X (1 .. activation_ids))

\* The places where the broker remembers a call it has not answered.
Queued(n) == activation_requests[n] \cup activation_messages[n]
InSlot(m) == {p \in Owners : <<p, m>> \in replies}
InQueue(m) == {n \in Names : m \in Queued(n)}
Places(m) == (InSlot(m) \X {"slot"}) \cup (InQueue(m) \X {"queue"})

\* No call gets lost and none is answered twice: a call of a peer on the bus is
\* unanswered exactly if one slot or one activation queue remembers it, or its
\* reply was dropped because the caller's queue was full.
CallsRemembered ==
    \A m \in Messages : peer[From[m]] = "registered" /\ ExpectsReply(m) =>
        /\ m \in waiting <=> Places(m) # {} \/ m \in dropped
        /\ \A x, y \in Places(m) : x = y
        /\ Places(m) # {} => m \notin dropped

\* The state is well formed, and a slot joins two peers that are on the bus:
\* peer_free() asserts that none is left, in either role.
\* reply_slot_get_by_id() finds at most one slot.
SlotsAmongPresent ==
    /\ BTypeOK
    /\ \A slot \in replies :
          /\ slot[1] \in present
          /\ peer[From[slot[2]]] = "registered"
    /\ \A a, b \in replies :
          /\ a[1] = b[1]
          /\ From[a[2]] = From[b[2]]
          /\ Serial[a[2]] = Serial[b[2]]
          => a = b

\* What waits for a name waits for something: the name is activatable, nobody
\* owns it, and the controller has been asked and has not reported yet that it
\* failed, so that the next request after a failure asks again.
ActivationQuiescent ==
    \A n \in Names :
        /\ Queued(n) # {} => pending[n] # 0
        /\ pending[n] # 0 => /\ owner[n] = None
                             /\ n \in activatable
                             /\ <<n, pending[n]>> \notin failed

\* The broker's books of calls and activations are sound.
BusSound == SlotsAmongPresent /\ ActivationQuiescent

\* A pending activation ends by its own failure, by an owner that takes the
\* name, or with the Activation object.
EndsForItsOwn ==
    \A n \in Names :
        pending[n] # 0 /\ pending'[n] # pending[n] =>
            \/ owner'[n] # None
            \/ n \notin activatable'
            \/ <<n, pending[n]>> \in failed' \ failed

\* A late report never cancels a later activation: a pending activation ends
\* only by its own failure, by an owner that takes the name, or with the
\* Activation object.
OnlyOwnFailureCancels == [][EndsForItsOwn]_bvars

\* Whom or what an unanswered call can wait for: a peer that is on the bus and
\* stays, or a name that is being activated; a dropped reply is waited for in
\* vain.
WaitsForSomebody(m) ==
    \/ \E p \in Owners : <<p, m>> \in replies /\ peer[p] = "registered"
    \/ \E n \in Names : m \in Queued(n) /\ pending[n] # 0
    \/ m \in dropped

\* driver_goodbye() ends, whatever it hands on and whomever it disconnects, and
\* with it the wait of all who called the peer that leaves, also when it leaves
\* to become a monitor: time and again the broker is ready for the next
\* message, and nobody waits for a peer that is gone or about to go.
NobodyWaitsForTheGone ==
    []<>(Idle /\ \A m \in waiting : WaitsForSomebody(m))

=============================================================================
