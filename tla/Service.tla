------------------------------ MODULE Service -------------------------------
(***************************************************************************)
(* Activation as the launcher does it (src/launch/service.c): the broker   *)
(* asks for a name with a serial, the launcher has systemd load, watch and *)
(* start a unit, and reports what fails, under the serial it was asked     *)
(* with.  It never reports success: the broker sees the name appear.       *)
(*                                                                         *)
(* Three parties talk over ordered streams: the broker's signals, the      *)
(* calls of the launcher to systemd, and what systemd sends.  Meanwhile    *)
(* the configuration is reloaded, which removes and adds the service, and  *)
(* the name is claimed and lost.  Calls to the broker are synchronous.     *)
(***************************************************************************)
EXTENDS Naturals, Sequences, FiniteSets

CONSTANTS MaxSerial,    \* bound: activations the broker asks for
          MaxServices,  \* bound: Service objects for the name
          MaxQueued,    \* bound: messages of systemd under way
          Kinds         \* what service files say: "unit", "exec" or neither

ASSUME ServiceAssumption ==
    /\ MaxSerial \in Nat /\ MaxServices \in Nat \ {0} /\ MaxQueued \in Nat
    /\ Kinds \subseteq {"unit", "exec", "self"}

Serials == 1 .. MaxSerial
Jobs == 1 .. MaxSerial   \* one activation starts one job

\* Units: the one of the service file, and the transient ones, which are named
\* after the instance of the Service object.
NoUnit == <<"none", 0>>
FileUnit == <<"unit", 0>>
Transient(i) == <<"exec", i>>
Units == {FileUnit} \cup {Transient(i) : i \in Serials}

VARIABLES
    \* the broker
    pending,         \* Activation.pending
    activation_ids,  \* Bus.activation_ids
    signals,         \* Activate signals on their way to the launcher
    \* the launcher
    service,         \* Service.id, 0 if there is none; the ControllerName has
                     \* the same id in its path and comes and goes with it,
                     \* since AddName and Release are synchronous calls
    service_ids,     \* Launcher.service_ids
    kind,            \* what Service.data asks for
    instance,        \* Service.instance
    last_serial,     \* Service.last_serial
    active_unit,     \* Service.active_unit
    is_transient,    \* Service.is_transient
    job,             \* Service.job, 0 if there is none
    slot_start_unit, \* the StartUnit call is pending
    slot_watch_unit, \* the LoadUnit call is pending, or the match is there
    slot_watch_jobs, \* the match for JobRemoved is there
    \* systemd
    calls,           \* calls of the launcher on their way
    answers,         \* replies and signals on their way to the launcher
    units,           \* for each unit its job, the serials that job is for,
                     \* whether it is up, and the serials it came up for
    n_jobs,          \* jobs so far
    \* history
    failures,        \* serials whose start failed or did not happen
    overlooked,      \* those of them that nothing tells after their job
    reported         \* serials the launcher reported as failed

broker == <<pending, activation_ids, signals>>
attempt == <<instance, last_serial, active_unit, is_transient, job,
             slot_start_unit, slot_watch_unit, slot_watch_jobs>>
object == <<service, service_ids, kind>>
systemd == <<units, n_jobs, failures, overlooked>>
vars == <<broker, object, attempt, calls, answers, systemd, reported>>

First(queue) == {queue[i] : i \in DOMAIN queue \cap {1}}

-----------------------------------------------------------------------------
(* The broker *)

\* activation_request(): the controller is asked unless it was asked before.
BrokerRequests ==
    /\ service # 0
    /\ pending = 0
    /\ activation_ids < MaxSerial
    /\ activation_ids' = activation_ids + 1
    /\ pending' = activation_ids + 1
    /\ signals' = Append(signals, [id |-> service, serial |-> activation_ids + 1])
    /\ UNCHANGED <<object, attempt, calls, answers, systemd, reported>>

\* driver_name_activated(): somebody took the name.
NameActivated ==
    /\ pending # 0
    /\ pending' = 0
    /\ UNCHANGED <<activation_ids, signals, object, attempt, calls,
                   answers, systemd, reported>>

\* driver_name_activation_failed() ignores what is not pending.
Failed(serial) == pending' = IF pending = serial THEN 0 ELSE pending

-----------------------------------------------------------------------------
(* The launcher *)

\* Faulty variant: the job of the old activation is still remembered.
DiscardKeepsJob ==
    /\ active_unit' = NoUnit
    /\ is_transient' = FALSE
    /\ slot_start_unit' = FALSE
    /\ slot_watch_unit' = "none"
    /\ slot_watch_jobs' = FALSE
    /\ UNCHANGED job

\* service_discard_activation(): replies and signals without a slot are lost.
Discard ==
    /\ job' = 0
    /\ active_unit' = NoUnit
    /\ is_transient' = FALSE
    /\ slot_start_unit' = FALSE
    /\ slot_watch_unit' = "none"
    /\ slot_watch_jobs' = FALSE

\* Faulty variant: the broker is not told.
ResetSilent ==
    /\ Discard
    /\ UNCHANGED <<pending, reported, instance, last_serial>>

\* service_reset_activation(): the broker is told, synchronously.
Reset ==
    /\ Discard
    /\ Failed(last_serial)
    /\ reported' = reported \cup {last_serial}
    /\ UNCHANGED <<instance, last_serial>>

\* launcher_on_name_activate() for a service that is gone.
ActivateUnknown ==
    /\ signals # <<>>
    /\ Head(signals).id # service
    /\ signals' = Tail(signals)
    /\ UNCHANGED <<pending, activation_ids, object, attempt, calls,
                   answers, systemd, reported>>

\* service_activate() of a service that starts by itself.
ActivateSelf ==
    /\ signals # <<>>
    /\ Head(signals).id = service
    /\ kind = "self"
    /\ signals' = Tail(signals)
    /\ Discard
    /\ last_serial' = Head(signals).serial
    /\ UNCHANGED <<pending, activation_ids, object, instance, calls,
                   answers, systemd, reported>>

\* service_watch_jobs(): all jobs, since the one to come is not known yet.
WatchJobs == slot_watch_jobs' = TRUE

\* service_watch_unit(): LoadUnit tells the object to watch.
WatchUnit(serial, unit) ==
    /\ slot_watch_unit' = "load"
    /\ calls' = Append(calls, [type |-> "load", serial |-> serial, unit |-> unit])

\* service_activate(): the old activation is dropped; jobs are watched before
\* anything is started, and the unit is loaded.
Activate ==
    LET serial == Head(signals).serial
        unit == IF kind = "unit" THEN FileUnit ELSE Transient(instance + 1)
    IN
    /\ signals # <<>>
    /\ Head(signals).id = service
    /\ kind # "self"
    /\ signals' = Tail(signals)
    /\ last_serial' = serial
    /\ job' = 0
    /\ slot_start_unit' = FALSE
    /\ active_unit' = unit
    /\ is_transient' = (kind = "exec")
    /\ instance' = IF kind = "exec" THEN instance + 1 ELSE instance
    /\ WatchJobs
    /\ WatchUnit(serial, unit)
    /\ UNCHANGED <<pending, activation_ids, object, answers, systemd,
                   reported>>

\* The next message of systemd; handlers see it if their slot is there.
Take(type, m) ==
    /\ m.type = type
    /\ answers' = Tail(answers)

\* The reply belongs to the call of the current activation: the slots of older
\* calls are unreferenced, and their replies are dropped.
LoadPending(m) == slot_watch_unit = "load" /\ m.serial = last_serial
StartPending(m) == slot_start_unit /\ m.serial = last_serial

\* service_start_unit(), with mode "replace", and service_start_transient_unit(),
\* with the command of the service file.
StartUnit == [type |-> "start", serial |-> last_serial, unit |-> active_unit]
StartTransientUnit ==
    [type |-> "transient", serial |-> last_serial, unit |-> active_unit]

\* service_watch_unit_load_handler(): watch the unit, then start it.
UnitLoaded ==
    \E m \in First(answers) :
        /\ Take("loaded", m)
        /\ LoadPending(m)
        /\ ~m.error
        /\ slot_watch_unit' = "match"
        /\ slot_start_unit' = TRUE
        /\ calls' = Append(calls, IF is_transient THEN StartTransientUnit ELSE StartUnit)
        /\ UNCHANGED <<broker, object, instance, last_serial, active_unit,
                       is_transient, job, slot_watch_jobs, systemd, reported>>

\* service_start_unit_handler(): the job is queued.
UnitStarting ==
    \E m \in First(answers) :
        /\ Take("started", m)
        /\ StartPending(m)
        /\ ~m.error
        /\ slot_start_unit' = FALSE
        /\ job' = m.job
        /\ UNCHANGED <<broker, object, instance, last_serial, active_unit,
                       is_transient, slot_watch_unit, slot_watch_jobs, calls,
                       systemd, reported>>

\* Either call failed.
CallFails ==
    \E m \in First(answers) :
        /\ Take(m.type, m)
        /\ \/ m.type = "loaded" /\ LoadPending(m) /\ m.error
           \/ m.type = "started" /\ StartPending(m) /\ m.error
        /\ Reset
        /\ UNCHANGED <<activation_ids, signals, object, calls, systemd>>

MyJob(m) == slot_watch_jobs /\ job # 0 /\ m.job = job

\* service_watch_jobs_handler(): from now on the unit is watched.
JobDone ==
    \E m \in First(answers) :
        /\ Take("job_removed", m)
        /\ MyJob(m)
        /\ m.result \in {"done", "skipped"}
        /\ job' = 0
        /\ slot_watch_jobs' = FALSE
        /\ UNCHANGED <<broker, object, instance, last_serial, active_unit,
                       is_transient, slot_start_unit, slot_watch_unit, calls,
                       systemd, reported>>

JobFails ==
    \E m \in First(answers) :
        /\ Take("job_removed", m)
        /\ MyJob(m)
        /\ m.result \notin {"done", "skipped"}
        /\ Reset
        /\ UNCHANGED <<activation_ids, signals, object, calls, systemd>>

\* Faulty variant: the unit counts while its job is not done.
MyUnitAlways(m) == slot_watch_unit = "match" /\ m.unit = active_unit

\* While the job is there, the unit may still report what was before it.
MyUnit(m) ==
    slot_watch_unit = "match" /\ m.unit = active_unit /\ ~slot_watch_jobs

\* Of the properties of the unit two count: it failed, or a condition kept it
\* from starting, which systemd takes for a success of the job.
Negative(m) == m.ActiveState = "failed" \/ ~m.ConditionResult

\* service_watch_unit_handler()
UnitFails ==
    \E m \in First(answers) :
        /\ Take("changed", m)
        /\ MyUnit(m)
        /\ Negative(m)
        /\ Reset
        /\ UNCHANGED <<activation_ids, signals, object, calls, systemd>>

\* A message nobody waits for.
Ignored ==
    \E m \in First(answers) :
        /\ Take(m.type, m)
        /\ CASE m.type = "loaded" -> ~LoadPending(m)
             [] m.type = "started" -> ~StartPending(m)
             [] m.type = "job_removed" -> ~MyJob(m)
             [] m.type = "changed" -> ~(MyUnit(m) /\ Negative(m))
        /\ UNCHANGED <<broker, object, attempt, calls, systemd, reported>>

\* launcher_load_service_file(): a valid file names a unit, a command, both, in
\* which case the unit is used, or neither.  An invalid one is like none.
LoadServiceFile == kind' \in Kinds

\* service_new()
ServiceNew ==
    /\ service_ids' = service_ids + 1
    /\ service' = service_ids + 1
    /\ instance' = 0
    /\ last_serial' = 0

\* launcher_reload_config(), and the file is new: service_add().
ReloadAdds ==
    /\ service = 0
    /\ service_ids < MaxServices
    /\ LoadServiceFile
    /\ ServiceNew
    /\ UNCHANGED <<broker, active_unit, is_transient, job, slot_start_unit,
                   slot_watch_unit, slot_watch_jobs, calls, answers, systemd,
                   reported>>

\* It is there already: service_update(), which leaves an activation alone.
ReloadUpdates ==
    /\ service # 0
    /\ LoadServiceFile
    /\ kind' # kind
    /\ UNCHANGED <<broker, service, service_ids, attempt, calls, answers,
                   systemd, reported>>

\* It is gone: service_remove(), service_free(); in the broker
\* controller_method_name_release() fails what is pending.
ReloadRemoves ==
    /\ service # 0
    /\ service' = 0
    /\ pending' = 0
    /\ Discard
    /\ UNCHANGED <<activation_ids, signals, service_ids, kind, instance,
                   last_serial, calls, answers, systemd, reported>>

-----------------------------------------------------------------------------
(* systemd, as service.c relies on it *)

\* The next call, answered by m; nothing is sent beyond the bound.
Answer(types, c, messages) ==
    /\ c.type \in types
    /\ Len(answers) < MaxQueued
    /\ calls' = Tail(calls)
    /\ answers' = answers \o messages

Loaded(c, error) == [type |-> "loaded", serial |-> c.serial, error |-> error]
Started(c, error, j) ==
    [type |-> "started", serial |-> c.serial, error |-> error, job |-> j]
JobRemoved(j, result) == [type |-> "job_removed", job |-> j, result |-> result]
PropertiesChanged(u, state, condition) ==
    [type |-> "changed", unit |-> u, ActiveState |-> state,
     ConditionResult |-> condition]

\* LoadUnit
Load ==
    \E c \in First(calls), error \in BOOLEAN :
        /\ Answer({"load"}, c, <<Loaded(c, error)>>)
        /\ failures' = IF error THEN failures \cup {c.serial} ELSE failures
        /\ UNCHANGED <<broker, object, attempt, units, n_jobs, overlooked, reported>>

\* StartUnit or StartTransientUnit is refused: no unit file, masked, conflicts
\* with a stop, or a transient unit of that name exists.
StartRefused ==
    \E c \in First(calls) :
        /\ Answer({"start", "transient"}, c, <<Started(c, TRUE, 0)>>)
        /\ failures' = failures \cup {c.serial}
        /\ UNCHANGED <<broker, object, attempt, units, n_jobs, overlooked, reported>>

\* A job is queued, for a unit that may be up.
Start ==
    \E c \in First(calls) :
        /\ Answer({"start", "transient"}, c, <<Started(c, FALSE, n_jobs + 1)>>)
        /\ units[c.unit].job = 0
        /\ c.type = "transient" => ~units[c.unit].up
        /\ n_jobs' = n_jobs + 1
        /\ units' = [units EXCEPT ![c.unit].job = n_jobs + 1,
                                  ![c.unit].job_for = {c.serial}]
        /\ UNCHANGED <<broker, object, attempt, failures, overlooked, reported>>

\* The unit has a job already: systemd answers with that one.
StartMerged ==
    \E c \in First(calls) :
        /\ Answer({"start"}, c, <<Started(c, FALSE, units[c.unit].job)>>)
        /\ units[c.unit].job # 0
        /\ units' = [units EXCEPT ![c.unit].job_for = @ \cup {c.serial}]
        /\ UNCHANGED <<broker, object, attempt, n_jobs, failures, overlooked,
                       reported>>

\* A job ends well, and the unit is up.
JobSucceeds(u) ==
    /\ units[u].job # 0
    /\ Len(answers) < MaxQueued
    /\ answers' = Append(answers, JobRemoved(units[u].job, "done"))
    /\ units' = [units EXCEPT ![u] = [job |-> 0, job_for |-> {}, up |-> TRUE,
                                     up_for |-> @.up_for \cup @.job_for]]
    /\ UNCHANGED <<broker, object, attempt, calls, n_jobs, failures, overlooked,
                   reported>>

\* A job ends and its unit was not started: it is done, and the unit says that
\* a condition was not met, behind JobRemoved or ahead of it; or it is skipped,
\* and there is no more to say.
JobSkipped(u) ==
    \E when \in {"after", "before", "never"} :
        LET done == JobRemoved(units[u].job, "done")
            skipped == JobRemoved(units[u].job, "skipped")
            unmet == PropertiesChanged(u, "inactive", FALSE)
        IN
        /\ units[u].job # 0
        /\ ~units[u].up
        /\ Len(answers) < MaxQueued
        /\ answers' = answers \o CASE when = "after" -> <<done, unmet>>
                                   [] when = "before" -> <<unmet, done>>
                                   [] when = "never" -> <<skipped>>
        /\ failures' = failures \cup units[u].job_for
        /\ overlooked' = IF when = "after" THEN overlooked
                         ELSE overlooked \cup units[u].job_for
        /\ units' = [units EXCEPT ![u].job = 0, ![u].job_for = {}]
        /\ UNCHANGED <<broker, object, attempt, calls, n_jobs, reported>>

\* A job fails: the unit says so before or after JobRemoved.
JobFailed(u) ==
    LET removed == JobRemoved(units[u].job, "failed")
        failed == PropertiesChanged(u, "failed", TRUE)
    IN
    \E messages \in {<<removed, failed>>, <<failed, removed>>} :
        /\ units[u].job # 0
        /\ ~units[u].up
        /\ Len(answers) < MaxQueued
        /\ answers' = answers \o messages
        /\ failures' = failures \cup units[u].job_for
        /\ units' = [units EXCEPT ![u].job = 0, ![u].job_for = {}]
        /\ UNCHANGED <<broker, object, attempt, calls, n_jobs, overlooked, reported>>

\* A unit that is up fails; a job it has is still to come.
UnitFailed(u) ==
    /\ units[u].up
    /\ Len(answers) < MaxQueued
    /\ answers' = Append(answers, PropertiesChanged(u, "failed", TRUE))
    /\ failures' = failures \cup units[u].up_for
    /\ units' = [units EXCEPT ![u].up = FALSE, ![u].up_for = {}]
    /\ UNCHANGED <<broker, object, attempt, calls, n_jobs, overlooked, reported>>

\* A unit that is up stops in good order.
UnitStopped(u) ==
    /\ units[u].up
    /\ Len(answers) < MaxQueued
    /\ answers' = Append(answers, PropertiesChanged(u, "inactive", TRUE))
    /\ units' = [units EXCEPT ![u].up = FALSE, ![u].up_for = {}]
    /\ UNCHANGED <<broker, object, attempt, calls, n_jobs, failures, overlooked,
                   reported>>

-----------------------------------------------------------------------------
\* The service was found when the launcher started.
Init ==
    /\ pending = 0 /\ activation_ids = 0 /\ signals = <<>>
    /\ service = 1 /\ service_ids = 1 /\ kind \in Kinds
    /\ instance = 0 /\ last_serial = 0
    /\ active_unit = NoUnit /\ is_transient = FALSE /\ job = 0
    /\ slot_start_unit = FALSE /\ slot_watch_unit = "none" /\ slot_watch_jobs = FALSE
    /\ calls = <<>> /\ answers = <<>>
    /\ units = [u \in Units |-> [job |-> 0, job_for |-> {}, up |-> FALSE, up_for |-> {}]]
    /\ n_jobs = 0
    /\ failures = {} /\ overlooked = {} /\ reported = {}

\* sd-event dispatches the connection to systemd.
Dispatch ==
    UnitLoaded \/ UnitStarting \/ CallFails \/ JobDone \/ JobFails \/ UnitFails \/ Ignored

Systemd ==
    \/ Load \/ StartRefused \/ Start \/ StartMerged
    \/ \E u \in Units :
           \/ JobSucceeds(u) \/ JobSkipped(u) \/ JobFailed(u)
           \/ UnitFailed(u) \/ UnitStopped(u)

Next ==
    \/ BrokerRequests \/ NameActivated
    \/ ActivateUnknown \/ ActivateSelf \/ Activate
    \/ Dispatch
    \/ ReloadAdds \/ ReloadUpdates \/ ReloadRemoves
    \/ Systemd

Spec == Init /\ [][Next]_vars

\* The event loop of the launcher serves a connection that has messages.
FairSpec == Spec /\ WF_vars(Dispatch)

-----------------------------------------------------------------------------
(* Properties *)

\* Types of the state of the three parties.
TypeOK ==
    /\ pending \in 0 .. MaxSerial
    /\ activation_ids \in 0 .. MaxSerial
    /\ \A i \in DOMAIN signals :
           signals[i] \in [id : 1 .. MaxServices, serial : Serials]
    /\ service \in 0 .. MaxServices
    /\ service_ids \in 0 .. MaxServices
    /\ kind \in Kinds
    /\ instance \in 0 .. MaxSerial
    /\ last_serial \in 0 .. MaxSerial
    /\ active_unit \in Units \cup {NoUnit}
    /\ is_transient \in BOOLEAN
    /\ job \in {0} \cup Jobs
    /\ slot_start_unit \in BOOLEAN
    /\ slot_watch_unit \in {"none", "load", "match"}
    /\ slot_watch_jobs \in BOOLEAN
    /\ units \in [Units -> [job : {0} \cup Jobs, job_for : SUBSET Serials,
                            up : BOOLEAN, up_for : SUBSET Serials]]
    /\ n_jobs \in {0} \cup Jobs
    /\ failures \in SUBSET Serials
    /\ overlooked \subseteq failures
    /\ reported \in SUBSET Serials

\* What service_watch_jobs(), service_watch_unit() and the handlers assert, and
\* what they silently rely on.  An activation is in one of four stages, and its
\* slots, its job and its unit tell the same stage; there is none without a
\* service; and the job it remembers is one systemd started for it.
ServiceSound ==
    /\ TypeOK
    /\ <<slot_watch_unit, slot_start_unit, slot_watch_jobs, job # 0>> \in
           {<<"none", FALSE, FALSE, FALSE>>,   \* no activation
            <<"load", FALSE, TRUE, FALSE>>,    \* the unit is being loaded
            <<"match", TRUE, TRUE, FALSE>>,    \* it is being started
            <<"match", FALSE, TRUE, TRUE>>,    \* its job is running
            <<"match", FALSE, FALSE, FALSE>>}  \* it is up, for all we know
    /\ active_unit = NoUnit <=> slot_watch_unit = "none"
    /\ is_transient <=> active_unit \notin {FileUnit, NoUnit}
    /\ service = 0 => active_unit = NoUnit
    /\ job # 0 =>
           \/ units[active_unit].job = job /\ last_serial \in units[active_unit].job_for
           \/ \E i \in DOMAIN answers :
                  answers[i].type = "job_removed" /\ answers[i].job = job

\* service_watch_unit_handler() "must not track the unit, since it might still
\* return failures before our job was actually handled": an activation is
\* reported as failed only if it did fail, whatever older activations, jobs and
\* services leave behind.
ResetsAreDeserved == reported \subseteq failures

\* service_activate() "tracks the status of the activation until it fails": when
\* the attempt the broker waits for fails or is not made because of a condition
\* that is not met, the broker stops waiting.  The launcher learns of the latter
\* only from what the unit says behind JobRemoved: what came before is ignored,
\* and a result "skipped" counts as a success.
FailuresAreReported == []<>(pending \notin failures \ overlooked)

\* "We need to consider it a failure, though, as the job will never end up
\* claiming its name" (service_watch_unit_handler()): however systemd says that
\* it did not start the unit, the broker stops waiting.
SkippedIsReported == []<>(pending \notin failures)

=============================================================================
