------------------------------ MODULE Dispatch ------------------------------
(***************************************************************************)
(* The event loop (src/util/dispatch.c, in its poll() variant): the files  *)
(* registered with a DispatchContext, the events the kernel signals and    *)
(* the owner selects for each of them, the ready list, and the rounds of   *)
(* dispatch_context_dispatch().                                            *)
(*                                                                         *)
(* A callback is any sequence of calls the callbacks of the broker make: a *)
(* file changes its own masks (connection_dispatch(), listener_dispatch()),*)
(* has events selected on any file (connection_queue()), registers files   *)
(* (peer_new_with_fd()) and frees any of them (peer_free(),                *)
(* controller_listener_free()); that of a connection also selects events   *)
(* on its own file, and that of a peer frees its own.                      *)
(*                                                                         *)
(* dispatch_context_dispatch() reads and links the file of a callback that *)
(* has returned, without asking whether the callback freed it or linked it *)
(* itself.  Where that breaks the ready list (broken), the model ends.     *)
(***************************************************************************)
EXTENDS Naturals, SequencesExt, Collections

CONSTANTS Files,       \* DispatchFile objects
          Controller,  \* the one of the controller, there from the start
          Listeners,   \* the ones of listeners; the others are of peers
          KernelMask,  \* DispatchFile.kernel_mask, the mask given on init
          InitMask,    \* the events a file starts with
          Unasked,     \* events poll() reports without being asked: POLLHUP
          NoFile,      \* no callback is running
          MaxCalls     \* bound: calls one callback makes

ASSUME DispatchAssumption ==
    /\ IsFiniteSet(Files)
    /\ Controller \in Files
    /\ NoFile \notin Files
    /\ \A f \in Files : InitMask[f] \subseteq KernelMask[f]
    /\ MaxCalls \in Nat

VARIABLES
    files,      \* DispatchContext.files[0 .. n_fds_used - 1]
    n_files,    \* DispatchContext.n_files
    user_mask,  \* DispatchFile.user_mask
    events,     \* DispatchFile.events
    ready,      \* DispatchContext.ready_list
    todo,       \* the list a round works off
    running,    \* the file whose callback runs, or NoFile
    calls,      \* calls the running callback has made
    stopped,    \* a callback or poll() failed: broker_run() leaves its loop
    broken,     \* a file was put on the ready list that is freed or linked
    called,     \* history: files called in this round
    fresh       \* history: files no poll() has looked at yet

dvars == <<files, n_files, user_mask, events, ready, todo, running, calls,
           stopped, broken, called, fresh>>

Registered == ToSet(files)
Pending(f) == events[f] \cap user_mask[f] # {}
Linked(f) == f \in ToSet(ready) \cup ToSet(todo)
Runs == ~stopped /\ ~broken

-----------------------------------------------------------------------------
(* The calls of a callback *)

Unlink(list, f) == Only(list, Files \ {f})

\* The callback of a file that is not freed makes another call.
MayCall ==
    /\ Runs
    /\ running \in Registered
    /\ calls < MaxCalls
    /\ calls' = calls + 1

\* dispatch_file_init(): the file joins the poll set; what it starts with is
\* pending and selected, but only select or poll() put it on the ready list.
FileInit(f) ==
    /\ MayCall
    /\ f \notin Registered
    /\ files' = Append(files, f)
    /\ n_files' = n_files + 1
    /\ user_mask' = [user_mask EXCEPT ![f] = InitMask[f]]
    /\ events' = [events EXCEPT ![f] = InitMask[f]]
    /\ fresh' = fresh \cup {f}
    /\ UNCHANGED <<ready, todo, running, stopped, broken, called>>

\* Faulty variant: the gap is filled, but the array does not shrink.
SwapRemoveStays(s, i) == [s EXCEPT ![i] = Last(s)]

\* The last element fills the gap.
SwapRemove(s, i) ==
    IF i < Len(s) THEN Front([s EXCEPT ![i] = Last(s)]) ELSE Front(s)

\* dispatch_file_deinit().  The file is freed next: its masks are forgotten.
Deregister(f) ==
    /\ \E i \in DOMAIN files : files[i] = f /\ files' = SwapRemove(files, i)
    /\ ready' = Unlink(ready, f)
    /\ todo' = Unlink(todo, f)
    /\ n_files' = n_files - 1
    /\ user_mask' = [user_mask EXCEPT ![f] = {}]
    /\ events' = [events EXCEPT ![f] = {}]
    /\ fresh' = fresh \ {f}

FileDeinit(f) ==
    /\ MayCall
    /\ f \in Registered \ {Controller}
    /\ f = running => f \notin Listeners
    /\ Deregister(f)
    /\ UNCHANGED <<running, stopped, broken, called>>

\* Faulty variant: a file with pending events is not put on the ready list.
FileSelectSilent(f, mask) ==
    /\ MayCall
    /\ f \in Registered
    /\ f = running => f \notin Listeners
    /\ user_mask' = [user_mask EXCEPT ![f] = @ \cup mask]
    /\ UNCHANGED <<files, n_files, events, ready, todo, running, stopped,
                   broken, called, fresh>>

\* dispatch_file_select()
FileSelect(f, mask) ==
    /\ MayCall
    /\ f \in Registered
    /\ f = running => f \notin Listeners
    /\ user_mask' = [user_mask EXCEPT ![f] = @ \cup mask]
    /\ ready' = IF events[f] \cap (user_mask[f] \cup mask) # {} /\ ~Linked(f)
                THEN Append(ready, f) ELSE ready
    /\ UNCHANGED <<files, n_files, events, todo, running, stopped, broken,
                   called, fresh>>

\* dispatch_file_deselect() and dispatch_file_clear(): a file with nothing
\* left to report leaves its list.
UnlinkIdle(f, selected, signalled) ==
    LET idle == selected \cap signalled = {}
    IN  /\ ready' = IF idle THEN Unlink(ready, f) ELSE ready
        /\ todo' = IF idle THEN Unlink(todo, f) ELSE todo

FileDeselect(f, mask) ==
    /\ MayCall
    /\ f = running
    /\ user_mask' = [user_mask EXCEPT ![f] = @ \ mask]
    /\ UnlinkIdle(f, user_mask[f] \ mask, events[f])
    /\ UNCHANGED <<files, n_files, events, running, stopped, broken, called,
                   fresh>>

FileClear(f, mask) ==
    /\ MayCall
    /\ f = running
    /\ events' = [events EXCEPT ![f] = @ \ mask]
    /\ UnlinkIdle(f, user_mask[f], events[f] \ mask)
    /\ UNCHANGED <<files, n_files, user_mask, running, stopped, broken, called,
                   fresh>>

-----------------------------------------------------------------------------
(* A round *)

\* The files poll() found nothing for; a file for which it found only events
\* nobody selected stays on the list.
Silent(revents) == {f \in Registered : revents[f] = {}}

\* The ready list after poll(): in the order of the files array.
Merged(revents) ==
    Only(ready, Registered \ Silent(revents))
        \o Only(files, {f \in Registered : /\ revents[f] \cap user_mask[f] # {}
                                           /\ ~Linked(f)})

\* The events after poll(): only those that are selected.
Fetched(revents) ==
    [f \in Files |->
        IF f \in Registered THEN revents[f] \cap user_mask[f] ELSE events[f]]

\* A round starts.  poll() is level-triggered: what it reports replaces what
\* was known.  The ready list becomes the list this round works off.
Poll ==
    /\ Runs
    /\ running = NoFile
    /\ todo = <<>>
    /\ \E revents \in [Registered -> SUBSET (UNION {KernelMask[f] : f \in Files})] :
          /\ \A f \in Registered :
                revents[f] \subseteq user_mask[f] \cup Unasked
          /\ events' = Fetched(revents)
          /\ todo' = Merged(revents)
    /\ ready' = <<>>
    /\ called' = {}
    /\ fresh' = {}
    /\ UNCHANGED <<files, n_files, user_mask, running, calls, stopped,
                   broken>>

\* poll() is interrupted: the round works off what was ready before.
PollInterrupted ==
    /\ Runs
    /\ running = NoFile
    /\ todo = <<>>
    /\ todo' = ready
    /\ ready' = <<>>
    /\ called' = {}
    /\ UNCHANGED <<files, n_files, user_mask, events, running, calls, stopped,
                   broken, fresh>>

PollFails ==
    /\ Runs
    /\ running = NoFile
    /\ todo = <<>>
    /\ stopped' = TRUE
    /\ UNCHANGED <<files, n_files, user_mask, events, ready, todo, running,
                   calls, broken, called, fresh>>

\* The next file of the round; one that is not registered is skipped.
Take ==
    /\ Runs
    /\ running = NoFile
    /\ todo # <<>>
    /\ LET file == Head(todo)
       IN  /\ todo' = Unlink(todo, file)
           /\ IF file \in Registered
              THEN running' = file /\ called' = called \cup {file}
              ELSE UNCHANGED <<running, called>>
    /\ calls' = 0
    /\ UNCHANGED <<files, n_files, user_mask, events, ready, stopped,
                   broken, fresh>>

\* Faulty variant: a file with more to do goes back to the round's own list.
ReturnToTodo ==
    /\ Runs
    /\ running # NoFile
    /\ todo' = IF Pending(running) THEN <<running>> \o todo ELSE todo
    /\ running' = NoFile
    /\ UNCHANGED <<files, n_files, user_mask, events, ready, calls, stopped,
                   broken, called, fresh>>

\* The callback is done.  The masks of its file are read although it may have
\* been freed, in which case they may have any value, and c_list_link_tail()
\* links it although it may be freed or linked, which breaks the list.
Return ==
    /\ Runs
    /\ running # NoFile
    /\ \E more \in BOOLEAN :
          /\ running \in Registered => more = Pending(running)
          /\ ready' = IF more THEN Append(ready, running) ELSE ready
          /\ broken' = (more /\ (running \notin Registered \/ Linked(running)))
    /\ running' = NoFile
    /\ UNCHANGED <<files, n_files, user_mask, events, todo, calls, stopped,
                   called, fresh>>

\* The callback failed: the rest of the round goes back to the ready list.
ReturnError ==
    /\ Runs
    /\ running # NoFile
    /\ ready' = ready \o todo
    /\ todo' = <<>>
    /\ running' = NoFile
    /\ stopped' = TRUE
    /\ UNCHANGED <<files, n_files, user_mask, events, calls, broken,
                   called, fresh>>

\* controller_deinit() frees every file before dispatch_context_deinit().
Teardown(f) ==
    /\ stopped
    /\ f \in Registered
    /\ Deregister(f)
    /\ UNCHANGED <<running, calls, stopped, broken, called>>

-----------------------------------------------------------------------------
Call(f) ==
    \/ FileInit(f)
    \/ FileDeinit(f)
    \/ \E mask \in SUBSET KernelMask[f] \ {{}} :
          FileSelect(f, mask) \/ FileDeselect(f, mask) \/ FileClear(f, mask)

\* broker_run() has opened the controller's connection.
DInit ==
    /\ files = <<Controller>>
    /\ n_files = 1
    /\ user_mask = [f \in Files |-> IF f = Controller THEN KernelMask[f] ELSE {}]
    /\ events = [f \in Files |-> IF f = Controller THEN InitMask[f] ELSE {}]
    /\ ready = <<Controller>>
    /\ todo = <<>>
    /\ running = NoFile
    /\ calls = 0
    /\ stopped = FALSE
    /\ broken = FALSE
    /\ called = {}
    /\ fresh = {Controller}

DNext ==
    \/ \E f \in Files : Call(f) \/ Teardown(f)
    \/ Poll \/ PollInterrupted \/ PollFails
    \/ Take \/ Return \/ ReturnError

DSpec == DInit /\ [][DNext]_dvars

\* The loop runs on, and every callback returns: there is one thread, which is
\* at one of the three.
Loop == Poll \/ Take \/ Return
DFairSpec == DSpec /\ WF_dvars(Loop)

-----------------------------------------------------------------------------
\* Types of the event loop's state; nothing is reported or selected that the
\* file was not registered for.
DTypeOK ==
    /\ files \in Seq(Files)
    /\ n_files \in Nat
    /\ \A f \in Files : user_mask[f] \subseteq KernelMask[f]
    /\ \A f \in Files : events[f] \subseteq KernelMask[f]
    /\ ready \in Seq(Files)
    /\ todo \in Seq(Files)
    /\ running \in Files \cup {NoFile}
    /\ calls \in 0 .. MaxCalls
    /\ stopped \in BOOLEAN
    /\ broken \in BOOLEAN
    /\ called \subseteq Files
    /\ fresh \subseteq Files

\* The poll set lists every registered file once, also after removals from
\* its middle, and n_files counts it (dispatch_file_deinit()).
PollSetExact ==
    /\ IsInjective(files)
    /\ n_files = Len(files)

\* A file is on at most one list and there at most once
\* (c_list_link_before(): "it better not be linked").
LinkedOnce == IsInjective(ready \o todo)

\* Only registered files are linked, whatever the callbacks of a round free;
\* the lists are empty once every file is freed, as dispatch_context_deinit()
\* asserts.
LinkedRegistered == \A f \in Files : Linked(f) => f \in Registered

\* The state of the loop is well formed: types, poll set, and the two lists
\* until dispatch_context_dispatch() links a file that its own callback freed
\* or linked.
ListsSound ==
    /\ DTypeOK
    /\ PollSetExact
    /\ ~broken => LinkedOnce /\ LinkedRegistered

\* While the loop runs, a file with a selected event that is signalled is on a
\* list, unless its callback runs or poll() has never looked at it.
NoLostEvent ==
    Runs => \A f \in Registered :
        Pending(f) => Linked(f) \/ f = running \/ f \in fresh

\* No file is called twice in a round (dispatch_context_dispatch(): "prevent
\* dispatching a single file twice").
OncePerRound ==
    [][running' # NoFile /\ running' # running => running' \notin called]_dvars

\* A file whose events stay pending is called, however busy the others are,
\* as long as the loop runs on an unbroken list.
PendingIsServed ==
    \A f \in Files :
        []<>(running = f \/ ~Runs \/ f \notin Registered \/ ~Pending(f)
                \/ f \in fresh)

\* A round calls every file at most once, and every file gets its turn.
ServedInTurn == OncePerRound /\ PendingIsServed
=============================================================================
