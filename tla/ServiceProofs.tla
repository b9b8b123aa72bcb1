--------------------------- MODULE ServiceProofs ----------------------------
(***************************************************************************)
(* The launcher reports a failure only for what failed, for any number of  *)
(* activations, services and messages under way.                           *)
(*                                                                         *)
(* That is not inductive: what a message means for the current activation  *)
(* depends on where it came from.  SInv adds it.  Serials order everything *)
(* under way, so that a reply with the serial of the current activation is *)
(* a reply to its one call, and systemd has no further call to serve while *)
(* the launcher waits for a job or watches a unit.  Hence the job it waits *)
(* for is one that runs for it, or one whose end is on its way; and what   *)
(* the unit says behind that end is about this start and no other.         *)
(***************************************************************************)
EXTENDS Service, TLAPS

\* What the broker sends, what the launcher asks systemd, and what systemd sends.
Requests == [id : 1 .. MaxServices, serial : Serials]
Calls == [type : {"load", "start", "transient"}, serial : Serials, unit : Units]
Messages ==
    [type : {"loaded"}, serial : Serials, error : BOOLEAN]
    \cup [type : {"started"}, serial : Serials, error : BOOLEAN, job : {0} \cup Jobs]
    \cup [type : {"job_removed"}, job : Jobs, result : {"done", "skipped", "failed"}]
    \cup [type : {"changed"}, unit : Units, ActiveState : {"inactive", "failed"},
          ConditionResult : BOOLEAN]

\* The streams carry what their writers put there.
StreamsOK ==
    /\ signals \in Seq(Requests)
    /\ calls \in Seq(Calls)
    /\ answers \in Seq(Messages)

\* The replies to calls, as opposed to signals.
IsReply(m) == m.type \in {"loaded", "started"}

\* Serials grow along the way from the broker to systemd, and there are no more
\* jobs and no more instances than activations.
Numbers ==
    /\ service <= service_ids
    /\ instance <= last_serial
    /\ last_serial <= activation_ids
    /\ n_jobs <= activation_ids

SignalsAhead ==
    \A i \in DOMAIN signals :
        /\ signals[i].serial <= activation_ids
        /\ last_serial < signals[i].serial
        /\ n_jobs < signals[i].serial
        /\ \A k \in DOMAIN signals : i < k => signals[i].serial < signals[k].serial
        /\ \A k \in DOMAIN calls : calls[k].serial < signals[i].serial
        /\ \A k \in DOMAIN answers :
               IsReply(answers[k]) => answers[k].serial < signals[i].serial

CallsInOrder ==
    \A i \in DOMAIN calls :
        /\ calls[i].serial <= activation_ids
        /\ n_jobs < calls[i].serial
        /\ \A k \in DOMAIN calls : i < k => calls[i].serial < calls[k].serial

RepliesBehind ==
    \A i \in DOMAIN answers :
        IsReply(answers[i]) => answers[i].serial <= activation_ids

\* The launcher has one call at a time under way for the activation it is at.
OneCall ==
    /\ \A i \in DOMAIN calls :
           /\ calls[i].type # "load" => i = 1
           /\ calls[i].serial = last_serial =>
                  /\ i = Len(calls)
                  /\ slot_watch_unit = "load" => calls[i].type = "load"
                  /\ slot_start_unit => calls[i].type # "load" /\ calls[i].unit = active_unit
    /\ \A i \in DOMAIN answers :
           IsReply(answers[i]) /\ answers[i].serial = last_serial =>
               /\ calls = <<>>
               /\ slot_watch_unit = "load" =>
                      answers[i].type = "loaded" /\ n_jobs < last_serial
               /\ slot_start_unit => answers[i].type = "started"
               /\ \A k \in DOMAIN answers :
                      IsReply(answers[k]) /\ answers[k].serial = last_serial => i = k
    /\ slot_watch_unit = "match" /\ ~slot_start_unit => calls = <<>>

Gone(j, k) == answers[k].type = "job_removed" /\ answers[k].job = j

\* A job has one unit and ends once.
JobsDistinct ==
    /\ \A u \in Units :
           /\ units[u].job <= n_jobs
           /\ \A v \in Units : units[u].job = units[v].job /\ units[u].job # 0 => u = v
    /\ \A k \in DOMAIN answers, j \in Jobs : Gone(j, k) =>
           /\ j <= n_jobs
           /\ \A u \in Units : units[u].job # j
           /\ \A l \in DOMAIN answers : Gone(j, l) => k = l

\* A refused call is a failure.
RefusalsAreFailures ==
    \A i \in DOMAIN answers :
        IsReply(answers[i]) /\ answers[i].error => answers[i].serial \in failures

\* From position k on, what the unit reports is about the start for the serial.
Watched(s, u, k) ==
    /\ units[u].job = 0
    /\ units[u].up => s \in units[u].up_for
    /\ \A l \in DOMAIN answers :
           k < l /\ answers[l].type = "changed" /\ answers[l].unit = u
           /\ Negative(answers[l]) => s \in failures

\* The job is running for the serial, or its end is on its way behind i.
Running(j, s, u) == units[u].job = j /\ s \in units[u].job_for
EndsAt(j, s, u, k) ==
    /\ Gone(j, k)
    /\ answers[k].result = "failed" => s \in failures
    /\ Watched(s, u, k)
InHand(j, s, u, i) ==
    Running(j, s, u) \/ \E k \in DOMAIN answers : i < k /\ EndsAt(j, s, u, k)

\* The launcher follows its own start, through whichever stage it is in.
Followed ==
    /\ slot_start_unit =>
           \A i \in DOMAIN answers :
               answers[i].type = "started" /\ answers[i].serial = last_serial
               /\ ~answers[i].error =>
                   /\ answers[i].job # 0
                   /\ InHand(answers[i].job, last_serial, active_unit, i)
    /\ job # 0 => InHand(job, last_serial, active_unit, 0)
    /\ slot_watch_unit = "match" /\ ~slot_watch_jobs => Watched(last_serial, active_unit, 0)

\* The slots tell the stage, as in ServiceSound.
StageOK ==
    /\ \/ slot_watch_unit = "none" /\ ~slot_start_unit /\ ~slot_watch_jobs /\ job = 0
       \/ slot_watch_unit = "load" /\ ~slot_start_unit /\ slot_watch_jobs /\ job = 0
       \/ slot_watch_unit = "match" /\ slot_start_unit /\ slot_watch_jobs /\ job = 0
       \/ slot_watch_unit = "match" /\ ~slot_start_unit /\ slot_watch_jobs /\ job # 0
       \/ slot_watch_unit = "match" /\ ~slot_start_unit /\ ~slot_watch_jobs /\ job = 0
    /\ active_unit = NoUnit <=> slot_watch_unit = "none"
    /\ is_transient <=> active_unit \notin {FileUnit, NoUnit}
    /\ service = 0 => active_unit = NoUnit
    /\ active_unit # NoUnit => last_serial # 0

SInv ==
    /\ TypeOK
    /\ StreamsOK
    /\ StageOK
    /\ Numbers /\ SignalsAhead /\ CallsInOrder /\ RepliesBehind
    /\ OneCall
    /\ JobsDistinct
    /\ RefusalsAreFailures
    /\ Followed
    /\ ResetsAreDeserved
-----------------------------------------------------------------------------
(* The streams *)

\* new is old without its first element.
Taken(old, new) ==
    /\ \A i \in DOMAIN new :
           i \in Nat /\ 0 < i /\ i + 1 \in DOMAIN old /\ new[i] = old[i + 1]
    /\ \A i \in DOMAIN old :
           i \in Nat /\ 0 < i /\ (i # 1 => i - 1 \in DOMAIN new /\ new[i - 1] = old[i])

\* new is old with n elements behind it.
Added(old, new, n) ==
    /\ DOMAIN new = 1 .. Len(old) + n
    /\ DOMAIN old = 1 .. Len(old)
    /\ \A i \in DOMAIN old : new[i] = old[i]

\* What is in a stream is what may be in it.
LEMMA StreamElements ==
    ASSUME NEW S, NEW s \in Seq(S)
    PROVE  \A i \in DOMAIN s : s[i] \in S
    OBVIOUS

\* Taking the first element of a stream.
LEMMA TakeFirst ==
    ASSUME NEW S, NEW s \in Seq(S), NEW t, NEW m \in First(s), t = Tail(s)
    PROVE  /\ t \in Seq(S) /\ 1 \in DOMAIN s /\ m = s[1] /\ m \in S
           /\ Len(t) = Len(s) - 1
           /\ Taken(s, t)
<1>1. 1 \in DOMAIN s /\ m = s[1]
    BY DEF First
<1>2. Len(s) \in Nat /\ Len(s) >= 1 /\ s # <<>> /\ DOMAIN s = 1 .. Len(s)
    BY <1>1
<1>3. t \in Seq(S) /\ Len(t) = Len(s) - 1 /\ DOMAIN t = 1 .. Len(s) - 1
    BY <1>2
<1>4. \A i \in DOMAIN t : t[i] = s[i + 1]
    BY <1>2, <1>3
<1>5. \A i \in DOMAIN s : i # 1 => i - 1 \in DOMAIN t /\ t[i - 1] = s[i]
    BY <1>2, <1>3
<1> QED BY <1>1, <1>2, <1>3, <1>4, <1>5 DEF Taken

\* The first element is there when the stream is not empty: the handlers of the
\* launcher take the head, those of systemd look whether there is one.
LEMMA HeadIsFirst ==
    ASSUME NEW S, NEW s \in Seq(S), s # <<>>
    PROVE  Head(s) \in First(s)
<1>1. 1 \in DOMAIN s /\ Head(s) = s[1]
    BY SMT
<1> QED BY <1>1 DEF First

\* Writing to a stream.
LEMMA AddLast ==
    ASSUME NEW S, NEW s \in Seq(S), NEW m \in S
    PROVE  /\ Append(s, m) \in Seq(S) /\ Len(Append(s, m)) = Len(s) + 1 /\ Len(s) \in Nat
           /\ Added(s, Append(s, m), 1)
           /\ Append(s, m)[Len(s) + 1] = m
<1>1. PICK t : t = Append(s, m)
    OBVIOUS
<1>2. t \in Seq(S) /\ Len(t) = Len(s) + 1 /\ t[Len(s) + 1] = m
    BY <1>1, SMT
<1>3. \A i \in 1 .. Len(s) : t[i] = s[i]
    BY <1>1, SMT
<1> QED BY <1>1, <1>2, <1>3 DEF Added

\* systemd answers a call.
LEMMA AddOne ==
    ASSUME NEW S, NEW s \in Seq(S), NEW m \in S
    PROVE  /\ s \o <<m>> \in Seq(S) /\ Len(s \o <<m>>) = Len(s) + 1 /\ Len(s) \in Nat
           /\ Added(s, s \o <<m>>, 1)
           /\ (s \o <<m>>)[Len(s) + 1] = m
<1>1. PICK t : t = s \o <<m>>
    OBVIOUS
<1>2. t \in Seq(S) /\ Len(t) = Len(s) + 1 /\ t[Len(s) + 1] = m
    BY <1>1, SMT
<1>3. \A i \in 1 .. Len(s) : t[i] = s[i]
    BY <1>1, SMT
<1> QED BY <1>1, <1>2, <1>3 DEF Added

\* systemd announces the end of a job and the state of its unit together.
LEMMA AddTwo ==
    ASSUME NEW S, NEW s \in Seq(S), NEW m \in S, NEW n \in S
    PROVE  /\ s \o <<m, n>> \in Seq(S) /\ Len(s \o <<m, n>>) = Len(s) + 2 /\ Len(s) \in Nat
           /\ Added(s, s \o <<m, n>>, 2)
           /\ (s \o <<m, n>>)[Len(s) + 1] = m /\ (s \o <<m, n>>)[Len(s) + 2] = n
<1>1. PICK t : t = s \o <<m, n>>
    OBVIOUS
<1>2. t \in Seq(S) /\ Len(t) = Len(s) + 2 /\ t[Len(s) + 1] = m /\ t[Len(s) + 2] = n
    BY <1>1, SMT
<1>3. \A i \in 1 .. Len(s) : t[i] = s[i]
    BY <1>1, SMT
<1> QED BY <1>1, <1>2, <1>3 DEF Added

\* What is in a stream something was written to.
LEMMA AddedOne ==
    ASSUME NEW s, NEW t, NEW r, Len(s) \in Nat, Added(s, t, 1), t[Len(s) + 1] = r
    PROVE  \A k \in DOMAIN t :
               \/ k \in DOMAIN s /\ t[k] = s[k]
               \/ k = Len(s) + 1 /\ t[k] = r
    BY DEF Added

\* What is in a message depends on its type.
LEMMA MessageFields ==
    ASSUME NEW m \in Messages
    PROVE  /\ m.type \in {"loaded", "started", "job_removed", "changed"}
           /\ IsReply(m) => m.serial \in Serials /\ m.error \in BOOLEAN
           /\ m.type = "started" => m.job \in {0} \cup Jobs
           /\ m.type = "job_removed" =>
                  m.job \in Jobs /\ m.result \in {"done", "skipped", "failed"}
           /\ m.type = "changed" => m.unit \in Units
    BY DEF Messages, IsReply

\* What is under way has a serial, where it has one.
LEMMA InStreams ==
    ASSUME StreamsOK
    PROVE  /\ \A i \in DOMAIN signals : signals[i] \in Requests /\ signals[i].serial \in Serials
           /\ \A i \in DOMAIN calls : calls[i] \in Calls /\ calls[i].serial \in Serials
           /\ \A i \in DOMAIN answers : answers[i] \in Messages
           /\ \A i \in DOMAIN answers : IsReply(answers[i]) => answers[i].serial \in Serials
<1>1. /\ \A i \in DOMAIN signals : signals[i] \in Requests
      /\ \A i \in DOMAIN calls : calls[i] \in Calls
      /\ \A i \in DOMAIN answers : answers[i] \in Messages
    BY StreamElements DEF StreamsOK
<1>2. \A m \in Requests : m.serial \in Serials
    BY DEF Requests
<1>3. \A c \in Calls : c.serial \in Serials
    BY DEF Calls
<1> QED BY <1>1, <1>2, <1>3, MessageFields

-----------------------------------------------------------------------------
(* The launcher takes an answer *)

\* A start that is in hand stays so when older answers are taken.
LEMMA HandShifts ==
    ASSUME NEW j, NEW s, NEW u, NEW i \in Nat, 0 < i, InHand(j, s, u, i),
           Taken(answers, answers'), UNCHANGED <<units, failures>>
    PROVE  InHand(j, s, u, i - 1)'
<1>1. CASE Running(j, s, u)
    BY <1>1 DEF InHand, Running
<1>2. ASSUME NEW k \in DOMAIN answers, i < k, EndsAt(j, s, u, k)
      PROVE  InHand(j, s, u, i - 1)'
  <2>1. k \in Nat /\ k - 1 \in DOMAIN answers' /\ answers'[k - 1] = answers[k]
        BY <1>2 DEF Taken
  <2>2. \A l \in DOMAIN answers' :
            k - 1 < l => l + 1 \in DOMAIN answers /\ k < l + 1 /\ answers'[l] = answers[l + 1]
        BY <2>1 DEF Taken
  <2>3. EndsAt(j, s, u, k - 1)'
        BY <1>2, <2>1, <2>2 DEF EndsAt, Gone, Watched
  <2>4. i - 1 < k - 1
        BY <1>2, <2>1
  <2> QED BY <2>1, <2>3, <2>4 DEF InHand
<1> QED BY <1>1, <1>2 DEF InHand

\* So does the watch on a unit.
LEMMA WatchShifts ==
    ASSUME NEW s, NEW u, NEW k \in {0, 1}, Watched(s, u, k),
           Taken(answers, answers'), UNCHANGED <<units, failures>>
    PROVE  Watched(s, u, 0)'
<1>1. \A l \in DOMAIN answers' :
          l \in Nat /\ l + 1 \in DOMAIN answers /\ k < l + 1 /\ answers'[l] = answers[l + 1]
    BY DEF Taken
<1> QED BY <1>1 DEF Watched

\* The other parts do not mind that an answer is taken, by whichever handler.
LEMMA AnswerTaken ==
    ASSUME SInv, NEW m \in First(answers), answers' = Tail(answers),
           UNCHANGED <<signals, activation_ids, object, systemd, instance, last_serial>>
    PROVE  /\ m = answers[1] /\ 1 \in DOMAIN answers /\ m \in Messages
           /\ answers' \in Seq(Messages) /\ Taken(answers, answers')
           /\ Numbers' /\ RepliesBehind' /\ JobsDistinct' /\ RefusalsAreFailures'
           /\ calls' = calls => SignalsAhead' /\ CallsInOrder'
<1> USE DEF SInv
<1>1. /\ m = answers[1] /\ 1 \in DOMAIN answers /\ m \in Messages
      /\ answers' \in Seq(Messages) /\ Taken(answers, answers')
    BY TakeFirst DEF StreamsOK
<1>2. Numbers'
    BY DEF Numbers, object, systemd
<1>3. \A i \in DOMAIN answers' : i + 1 \in DOMAIN answers /\ answers'[i] = answers[i + 1]
    BY <1>1 DEF Taken
<1>4. RepliesBehind'
    BY <1>3 DEF RepliesBehind, IsReply
<1>5. RefusalsAreFailures'
    BY <1>3 DEF RefusalsAreFailures, IsReply, systemd
<1>6. JobsDistinct'
  <2>1. \A k \in DOMAIN answers', j \in Jobs :
            Gone(j, k)' => k \in Nat /\ k + 1 \in DOMAIN answers /\ Gone(j, k + 1)
        BY <1>1, <1>3 DEF Gone, Taken
  <2>2. \A k \in DOMAIN answers', l \in DOMAIN answers', j \in Jobs :
            Gone(j, k)' /\ Gone(j, l)' => k = l
    <3> SUFFICES ASSUME NEW k \in DOMAIN answers', NEW l \in DOMAIN answers', NEW j \in Jobs,
                        Gone(j, k)', Gone(j, l)'
                 PROVE  k = l
        OBVIOUS
    <3>1. k + 1 = l + 1
        BY <2>1 DEF JobsDistinct
    <3> QED BY <3>1, <2>1
  <2>3. \A k \in DOMAIN answers', j \in Jobs :
            Gone(j, k)' => j <= n_jobs /\ \A u \in Units : units[u].job # j
        BY <2>1 DEF JobsDistinct
  <2> QED BY <2>2, <2>3 DEF JobsDistinct, systemd
<1>7. ASSUME calls' = calls
      PROVE  SignalsAhead' /\ CallsInOrder'
    BY <1>3, <1>7 DEF SignalsAhead, CallsInOrder, IsReply, systemd
<1> QED BY <1>1, <1>2, <1>4, <1>5, <1>6, <1>7

\* One call at a time: taking an answer leaves it so unless a call is made.
LEMMA OneCallShifts ==
    ASSUME OneCall, Taken(answers, answers'),
           UNCHANGED <<calls, last_serial, n_jobs>>,
           slot_watch_unit' = "load" =>
               slot_watch_unit = "load",
           slot_start_unit' => slot_start_unit /\ active_unit' = active_unit,
           slot_watch_unit' = "match" /\ ~slot_start_unit' => calls = <<>>
    PROVE  OneCall'
<1>1. \A i \in DOMAIN answers' :
          i \in Nat /\ i + 1 \in DOMAIN answers /\ answers'[i] = answers[i + 1]
    BY DEF Taken
<1>2. ASSUME NEW i \in DOMAIN answers', IsReply(answers'[i]), answers'[i].serial = last_serial
      PROVE  /\ calls = <<>>
             /\ slot_watch_unit' = "load" =>
                    answers'[i].type = "loaded" /\ n_jobs < last_serial
             /\ slot_start_unit' => answers'[i].type = "started"
    BY <1>1, <1>2 DEF OneCall
<1>3. ASSUME NEW i \in DOMAIN answers', IsReply(answers'[i]), answers'[i].serial = last_serial,
             NEW k \in DOMAIN answers', IsReply(answers'[k]), answers'[k].serial = last_serial
      PROVE  i = k
  <2>1. i + 1 = k + 1
        BY <1>1, <1>3 DEF OneCall
  <2> QED BY <1>1, <2>1
<1>4. \A i \in DOMAIN answers' : IsReply(answers[i])' <=> IsReply(answers'[i])
    BY DEF IsReply
<1>5. ASSUME NEW i \in DOMAIN calls
      PROVE  /\ calls[i].type # "load" => i = 1
             /\ calls[i].serial = last_serial =>
                  /\ i = Len(calls)
                  /\ slot_watch_unit' = "load" => calls[i].type = "load"
                  /\ slot_start_unit' => calls[i].type # "load" /\ calls[i].unit = active_unit'
    BY <1>5 DEF OneCall
<1> QED BY <1>2, <1>3, <1>4, <1>5 DEF OneCall

\* The activation the launcher is at, as far as types go.
AttemptOK ==
    /\ instance \in 0 .. MaxSerial
    /\ last_serial \in 0 .. MaxSerial
    /\ active_unit \in Units \cup {NoUnit}
    /\ is_transient \in BOOLEAN
    /\ job \in {0} \cup Jobs
    /\ slot_start_unit \in BOOLEAN
    /\ slot_watch_unit \in {"none", "load", "match"}
    /\ slot_watch_jobs \in BOOLEAN

\* The types are those of the parties and of the streams.
LEMMA TypesTogether ==
    ASSUME SInv, UNCHANGED <<object, systemd, activation_ids>>,
           AttemptOK', StreamsOK', pending' \in 0 .. MaxSerial, reported' \in SUBSET Serials
    PROVE  TypeOK'
<1>1. \A i \in DOMAIN signals' :
          signals'[i] \in [id : 1 .. MaxServices, serial : Serials]
    BY StreamElements DEF StreamsOK, Requests
<1>2. UNCHANGED <<activation_ids, service, service_ids, kind, units, n_jobs, failures,
                  overlooked>>
    BY DEF object, systemd
<1>3. TypeOK
    BY DEF SInv
<1> QED BY <1>1, <1>2, <1>3 DEF TypeOK, AttemptOK

\* service_watch_unit_load_handler(): the unit is loaded, and since its reply was
\* the last thing under way, the start is the only call.
LEMMA UnitLoadedKeeps ==
    ASSUME SInv, UnitLoaded
    PROVE  SInv'
<1> USE DEF SInv
<1>1. PICK m \in First(answers) :
          /\ m.type = "loaded" /\ answers' = Tail(answers)
          /\ LoadPending(m) /\ ~m.error
          /\ slot_watch_unit' = "match" /\ slot_start_unit' = TRUE
          /\ calls' = Append(calls, IF is_transient THEN StartTransientUnit ELSE StartUnit)
    BY DEF UnitLoaded, Take
<1>2. UNCHANGED <<broker, object, instance, last_serial, active_unit, is_transient, job,
                  slot_watch_jobs, systemd, reported>>
    BY DEF UnitLoaded
<1>3. /\ m = answers[1] /\ 1 \in DOMAIN answers /\ m \in Messages
      /\ answers' \in Seq(Messages) /\ Taken(answers, answers')
      /\ Numbers' /\ RepliesBehind' /\ JobsDistinct' /\ RefusalsAreFailures'
    BY <1>1, <1>2, AnswerTaken DEF broker
<1>4. slot_watch_unit = "load" /\ m.serial = last_serial
    BY <1>1 DEF LoadPending
<1>5. calls = <<>> /\ n_jobs < last_serial
    BY <1>1, <1>3, <1>4 DEF OneCall, IsReply
<1>6. last_serial \in Serials /\ active_unit \in Units
  <2>1. active_unit # NoUnit /\ last_serial # 0
        BY <1>4 DEF StageOK
  <2> QED BY <2>1 DEF TypeOK, Serials
<1>7. PICK c : /\ c \in Calls
               /\ c.type # "load" /\ c.serial = last_serial /\ c.unit = active_unit
               /\ calls' = <<c>>
  <2>1. CASE is_transient
    <3>1. calls' = <<StartTransientUnit>>
        BY <1>1, <1>5, <2>1
    <3> QED BY <3>1, <1>6 DEF StartTransientUnit, Calls
  <2>2. CASE ~is_transient
    <3>1. calls' = <<StartUnit>>
        BY <1>1, <1>5, <2>2
    <3> QED BY <3>1, <1>6 DEF StartUnit, Calls
  <2> QED BY <2>1, <2>2
<1>8. Len(calls') = 1 /\ DOMAIN calls' = {1} /\ calls'[1] = c
    BY <1>7
<1>9. StreamsOK'
    BY <1>2, <1>3, <1>7 DEF StreamsOK, broker
<1>10. TypeOK'
  <2>1. AttemptOK'
        BY <1>1, <1>2 DEF TypeOK, AttemptOK
  <2> QED BY <2>1, <1>2, <1>9, TypesTogether DEF TypeOK, broker
<1>11. StageOK'
    BY <1>1, <1>2, <1>4 DEF StageOK, object, broker
<1>12. \A i \in DOMAIN answers' : i + 1 \in DOMAIN answers /\ answers'[i] = answers[i + 1]
    BY <1>3 DEF Taken
<1>13. SignalsAhead'
  <2>1. \A i \in DOMAIN signals, k \in DOMAIN answers' :
            IsReply(answers'[k]) => answers'[k].serial < signals[i].serial
        BY <1>12 DEF SignalsAhead
  <2> QED BY <1>2, <1>7, <1>8, <2>1 DEF SignalsAhead, IsReply, broker, systemd
<1>14. CallsInOrder'
    BY <1>2, <1>5, <1>7, <1>8 DEF CallsInOrder, Numbers, broker, systemd
<1>15. ASSUME NEW i \in DOMAIN answers', IsReply(answers'[i])
       PROVE  answers'[i].serial # last_serial
  <2>1. i \in Nat /\ i + 1 # 1
        BY <1>3 DEF Taken
  <2> QED BY <1>1, <1>3, <1>4, <1>12, <1>15, <2>1 DEF OneCall, IsReply
<1>16. OneCall'
    BY <1>1, <1>2, <1>7, <1>8, <1>15 DEF OneCall, IsReply
<1>17. Followed'
  <2>1. job = 0 /\ slot_watch_jobs
        BY <1>4 DEF StageOK
  <2> QED BY <1>2, <1>15, <2>1 DEF Followed, IsReply
<1>18. ResetsAreDeserved'
    BY <1>2 DEF ResetsAreDeserved, systemd
<1> QED BY <1>3, <1>9, <1>10, <1>11, <1>13, <1>14, <1>16, <1>17, <1>18

\* service_start_unit_handler(): the job of the reply is the one systemd runs
\* for this activation, or its end is behind the reply.
LEMMA UnitStartingKeeps ==
    ASSUME SInv, UnitStarting
    PROVE  SInv'
<1> USE DEF SInv
<1>1. PICK m \in First(answers) :
          /\ m.type = "started" /\ answers' = Tail(answers)
          /\ StartPending(m) /\ ~m.error
          /\ slot_start_unit' = FALSE /\ job' = m.job
    BY DEF UnitStarting, Take
<1>2. UNCHANGED <<broker, object, instance, last_serial, active_unit, is_transient,
                  slot_watch_unit, slot_watch_jobs, calls, systemd, reported>>
    BY DEF UnitStarting
<1>3. /\ m = answers[1] /\ 1 \in DOMAIN answers /\ m \in Messages
      /\ answers' \in Seq(Messages) /\ Taken(answers, answers')
      /\ Numbers' /\ RepliesBehind' /\ JobsDistinct' /\ RefusalsAreFailures'
      /\ SignalsAhead' /\ CallsInOrder'
    BY <1>1, <1>2, AnswerTaken DEF broker
<1>4. slot_start_unit /\ m.serial = last_serial
    BY <1>1 DEF StartPending
<1>5. m.job # 0 /\ InHand(m.job, last_serial, active_unit, 1)
    BY <1>1, <1>3, <1>4 DEF Followed
<1>6. InHand(m.job, last_serial, active_unit, 0)'
  <2>1. InHand(m.job, last_serial, active_unit, 1 - 1)'
    <3>1. PICK s : s = last_serial
        OBVIOUS
    <3>2. PICK u : u = active_unit
        OBVIOUS
    <3>3. InHand(m.job, s, u, 1)
        BY <1>5, <3>1, <3>2
    <3>4. InHand(m.job, s, u, 1 - 1)'
        BY <1>2, <1>3, <3>3, HandShifts DEF systemd
    <3> QED BY <1>2, <3>1, <3>2, <3>4
  <2> QED BY <2>1
<1>7. StreamsOK'
    BY <1>2, <1>3 DEF StreamsOK, broker
<1>8. TypeOK'
  <2>1. m.job \in {0} \cup Jobs
        BY <1>1, <1>3, MessageFields
  <2>2. AttemptOK'
        BY <1>1, <1>2, <2>1 DEF TypeOK, AttemptOK
  <2> QED BY <2>2, <1>2, <1>7, TypesTogether DEF TypeOK, broker
<1>9. StageOK'
    BY <1>1, <1>2, <1>4, <1>5 DEF StageOK, object, TypeOK
<1>10. calls = <<>>
    BY <1>1, <1>3, <1>4 DEF OneCall, IsReply
<1>11. OneCall'
    BY <1>1, <1>2, <1>3, <1>10, OneCallShifts DEF systemd
<1>12. Followed'
  <2>1. slot_watch_jobs'
        BY <1>2, <1>4 DEF StageOK
  <2>2. InHand(job, last_serial, active_unit, 0)'
        BY <1>1, <1>6 DEF InHand, Running, EndsAt, Gone
  <2> QED BY <1>1, <2>1, <2>2 DEF Followed
<1>13. ResetsAreDeserved'
    BY <1>2 DEF ResetsAreDeserved, systemd
<1> QED BY <1>3, <1>7, <1>8, <1>9, <1>11, <1>12, <1>13

\* A handler that resets or drops the activation leaves nothing to follow.
LEMMA DiscardedKeeps ==
    ASSUME SInv, NEW m \in First(answers), answers' = Tail(answers), Discard,
           last_serial \in failures, reported' = reported \cup {last_serial},
           Failed(last_serial),
           UNCHANGED <<activation_ids, signals, object, calls, systemd, instance, last_serial>>
    PROVE  SInv'
<1> USE DEF SInv
<1>1. /\ answers' \in Seq(Messages) /\ Taken(answers, answers')
      /\ Numbers' /\ RepliesBehind' /\ JobsDistinct' /\ RefusalsAreFailures'
      /\ SignalsAhead' /\ CallsInOrder'
    BY AnswerTaken
<1>2. StreamsOK'
    BY <1>1 DEF StreamsOK
<1>3. TypeOK'
  <2>1. AttemptOK'
        BY DEF TypeOK, AttemptOK, Discard
  <2>2. pending' \in 0 .. MaxSerial
        BY ServiceAssumption DEF Failed, TypeOK
  <2>3. reported' \in SUBSET Serials
        BY DEF TypeOK
  <2> QED BY <1>2, <2>1, <2>2, <2>3, TypesTogether
<1>4. StageOK'
    BY DEF StageOK, Discard
<1>5. OneCall'
    BY <1>1, OneCallShifts DEF Discard, systemd
<1>6. Followed'
    BY DEF Followed, Discard
<1>7. ResetsAreDeserved'
    BY DEF ResetsAreDeserved, systemd
<1> QED BY <1>1, <1>2, <1>3, <1>4, <1>5, <1>6, <1>7

\* The end of the job the launcher waits for is the end of its own start.
LEMMA MyJobEnds ==
    ASSUME SInv, 1 \in DOMAIN answers, answers[1] \in Messages,
           answers[1].type = "job_removed", MyJob(answers[1])
    PROVE  EndsAt(job, last_serial, active_unit, 1)
<1> USE DEF SInv
<1>1. job \in Jobs /\ Gone(job, 1)
    BY DEF MyJob, Gone, TypeOK
<1>2. active_unit \in Units
    BY <1>1 DEF StageOK, TypeOK, MyJob
<1>3. ~Running(job, last_serial, active_unit)
    BY <1>1, <1>2 DEF Running, JobsDistinct
<1>4. InHand(job, last_serial, active_unit, 0)
    BY DEF Followed, MyJob
<1>5. PICK k \in DOMAIN answers : EndsAt(job, last_serial, active_unit, k)
    BY <1>3, <1>4 DEF InHand
<1>6. k = 1
    BY <1>1, <1>5 DEF EndsAt, JobsDistinct
<1> QED BY <1>5, <1>6

\* Either call is refused: what is reported did fail.
LEMMA CallFailsKeeps ==
    ASSUME SInv, CallFails
    PROVE  SInv'
<1> USE DEF SInv
<1>1. PICK m \in First(answers) :
          /\ answers' = Tail(answers)
          /\ \/ m.type = "loaded" /\ LoadPending(m) /\ m.error
             \/ m.type = "started" /\ StartPending(m) /\ m.error
    BY DEF CallFails, Take
<1>2. Reset /\ UNCHANGED <<activation_ids, signals, object, calls, systemd>>
    BY DEF CallFails
<1>3. m = answers[1] /\ 1 \in DOMAIN answers
    BY <1>1, TakeFirst DEF StreamsOK
<1>4. last_serial \in failures
    BY <1>1, <1>3 DEF RefusalsAreFailures, IsReply, LoadPending, StartPending
<1> QED BY <1>1, <1>2, <1>4, DiscardedKeeps DEF Reset

\* service_watch_jobs_handler(), when the job failed.
LEMMA JobFailsKeeps ==
    ASSUME SInv, JobFails
    PROVE  SInv'
<1> USE DEF SInv
<1>1. PICK m \in First(answers) :
          /\ answers' = Tail(answers)
          /\ m.type = "job_removed" /\ MyJob(m) /\ m.result \notin {"done", "skipped"}
    BY DEF JobFails, Take
<1>2. Reset /\ UNCHANGED <<activation_ids, signals, object, calls, systemd>>
    BY DEF JobFails
<1>3. m = answers[1] /\ 1 \in DOMAIN answers /\ m \in Messages
    BY <1>1, TakeFirst DEF StreamsOK
<1>4. EndsAt(job, last_serial, active_unit, 1)
    BY <1>1, <1>3, MyJobEnds
<1>5. m.result = "failed"
    BY <1>1, <1>3, MessageFields
<1>6. last_serial \in failures
    BY <1>3, <1>4, <1>5 DEF EndsAt
<1> QED BY <1>1, <1>2, <1>6, DiscardedKeeps DEF Reset

\* service_watch_unit_handler(): with its job behind it, the unit speaks of it.
LEMMA UnitFailsKeeps ==
    ASSUME SInv, UnitFails
    PROVE  SInv'
<1> USE DEF SInv
<1>1. PICK m \in First(answers) :
          answers' = Tail(answers) /\ m.type = "changed" /\ MyUnit(m) /\ Negative(m)
    BY DEF UnitFails, Take
<1>2. Reset /\ UNCHANGED <<activation_ids, signals, object, calls, systemd>>
    BY DEF UnitFails
<1>3. m = answers[1] /\ 1 \in DOMAIN answers
    BY <1>1, TakeFirst DEF StreamsOK
<1>4. Watched(last_serial, active_unit, 0)
    BY <1>1 DEF MyUnit, Followed
<1>5. last_serial \in failures
    BY <1>1, <1>3, <1>4 DEF Watched, MyUnit
<1> QED BY <1>1, <1>2, <1>5, DiscardedKeeps DEF Reset

\* service_watch_jobs_handler(), when the job is done: whatever the unit reports
\* after it is about this start.
LEMMA JobDoneKeeps ==
    ASSUME SInv, JobDone
    PROVE  SInv'
<1> USE DEF SInv
<1>1. PICK m \in First(answers) :
          /\ answers' = Tail(answers)
          /\ m.type = "job_removed" /\ MyJob(m)
          /\ job' = 0 /\ slot_watch_jobs' = FALSE
    BY DEF JobDone, Take
<1>2. UNCHANGED <<broker, object, instance, last_serial, active_unit, is_transient,
                  slot_start_unit, slot_watch_unit, calls, systemd, reported>>
    BY DEF JobDone
<1>3. /\ m = answers[1] /\ 1 \in DOMAIN answers /\ m \in Messages
      /\ answers' \in Seq(Messages) /\ Taken(answers, answers')
      /\ Numbers' /\ RepliesBehind' /\ JobsDistinct' /\ RefusalsAreFailures'
      /\ SignalsAhead' /\ CallsInOrder'
    BY <1>1, <1>2, AnswerTaken DEF broker
<1>4. StreamsOK'
    BY <1>2, <1>3 DEF StreamsOK, broker
<1>5. TypeOK'
  <2>1. AttemptOK'
        BY <1>1, <1>2 DEF TypeOK, AttemptOK
  <2> QED BY <2>1, <1>2, <1>4, TypesTogether DEF TypeOK, broker
<1>6. StageOK'
    BY <1>1, <1>2 DEF StageOK, object, MyJob
<1>7. OneCall'
    BY <1>2, <1>3, OneCallShifts DEF systemd, OneCall
<1>8. Followed'
  <2>1. EndsAt(job, last_serial, active_unit, 1)
        BY <1>1, <1>3, MyJobEnds
  <2>2. PICK s, u : s = last_serial /\ u = active_unit
        OBVIOUS
  <2>3. Watched(s, u, 1)
        BY <2>1, <2>2 DEF EndsAt
  <2>4. Watched(s, u, 0)'
        BY <1>2, <1>3, <2>3, WatchShifts DEF systemd
  <2>5. ~slot_start_unit
        BY <1>1 DEF StageOK, MyJob
  <2> QED BY <1>1, <1>2, <2>2, <2>4, <2>5 DEF Followed
<1>9. ResetsAreDeserved'
    BY <1>2 DEF ResetsAreDeserved, systemd
<1> QED BY <1>3, <1>4, <1>5, <1>6, <1>7, <1>8, <1>9

\* A message nobody waits for is not the one the launcher follows.
LEMMA IgnoredKeeps ==
    ASSUME SInv, Ignored
    PROVE  SInv'
<1> USE DEF SInv
<1>1. PICK m \in First(answers) :
          /\ answers' = Tail(answers)
          /\ CASE m.type = "loaded" -> ~LoadPending(m)
               [] m.type = "started" -> ~StartPending(m)
               [] m.type = "job_removed" -> ~MyJob(m)
               [] m.type = "changed" -> ~(MyUnit(m) /\ Negative(m))
    BY DEF Ignored, Take
<1>2. UNCHANGED <<broker, object, attempt, calls, systemd, reported>>
    BY DEF Ignored
<1>3. /\ m = answers[1] /\ 1 \in DOMAIN answers /\ m \in Messages
      /\ answers' \in Seq(Messages) /\ Taken(answers, answers')
      /\ Numbers' /\ RepliesBehind' /\ JobsDistinct' /\ RefusalsAreFailures'
      /\ SignalsAhead' /\ CallsInOrder'
    BY <1>1, <1>2, AnswerTaken DEF broker, attempt
<1>4. /\ m.type = "started" => ~StartPending(m)
      /\ m.type = "job_removed" => ~MyJob(m)
    BY <1>1
<1>5. StreamsOK'
    BY <1>2, <1>3 DEF StreamsOK, broker
<1>6. TypeOK'
  <2>1. AttemptOK'
        BY <1>2 DEF TypeOK, AttemptOK, attempt
  <2> QED BY <2>1, <1>2, <1>5, TypesTogether DEF TypeOK, broker
<1>7. StageOK'
    BY <1>2 DEF StageOK, object, attempt
<1>8. OneCall'
    BY <1>2, <1>3, OneCallShifts DEF systemd, OneCall, attempt
<1>9. Followed'
  <2>1. PICK s, u, j : s = last_serial /\ u = active_unit /\ j = job
        OBVIOUS
  <2>2. ASSUME slot_start_unit, NEW i \in DOMAIN answers', answers'[i].type = "started",
               answers'[i].serial = s, ~answers'[i].error, NEW a, a = answers'[i].job
        PROVE  a # 0 /\ InHand(a, s, u, i)'
    <3>1. i \in Nat /\ i + 1 \in DOMAIN answers /\ answers'[i] = answers[i + 1]
        BY <1>3 DEF Taken
    <3>2. answers[i + 1].job # 0 /\ InHand(answers[i + 1].job, s, u, i + 1)
        BY <2>1, <2>2, <3>1 DEF Followed
    <3>3. a = answers[i + 1].job
        BY <2>2, <3>1
    <3>4. InHand(a, s, u, (i + 1) - 1)'
        BY <1>2, <1>3, <3>1, <3>2, <3>3, HandShifts DEF systemd
    <3>5. (i + 1) - 1 = i
        BY <3>1
    <3> QED BY <3>1, <3>2, <3>3, <3>4, <3>5
  <2>3. ASSUME job # 0
        PROVE  InHand(j, s, u, 0)'
    <3>1. InHand(j, s, u, 0)
        BY <2>1, <2>3 DEF Followed
    <3>2. slot_watch_jobs
        BY <2>3 DEF StageOK
    <3>3. ~EndsAt(j, s, u, 1)
        BY <1>3, <1>4, <2>1, <2>3, <3>2 DEF EndsAt, Gone, MyJob
    <3>4. \A k \in DOMAIN answers : k \in Nat
        BY <1>3 DEF Taken
    <3>5. InHand(j, s, u, 1)
        BY <3>1, <3>3, <3>4 DEF InHand
    <3>6. InHand(j, s, u, 1 - 1)'
        BY <1>2, <1>3, <3>5, HandShifts DEF systemd
    <3> QED BY <3>6
  <2>4. ASSUME slot_watch_unit = "match", ~slot_watch_jobs
        PROVE  Watched(s, u, 0)'
    <3>1. Watched(s, u, 0)
        BY <2>1, <2>4 DEF Followed
    <3> QED BY <1>2, <1>3, <3>1, WatchShifts DEF systemd
  <2>5. UNCHANGED <<slot_start_unit, last_serial, active_unit, job, slot_watch_unit,
                    slot_watch_jobs>>
        BY <1>2 DEF attempt
  <2>6. slot_start_unit' =>
            \A i \in DOMAIN answers' :
                answers'[i].type = "started" /\ answers'[i].serial = last_serial'
                /\ ~answers'[i].error =>
                    \E a : a = answers'[i].job /\ a # 0 /\ InHand(a, s, u, i)'
        BY <2>1, <2>2, <2>5
  <2>7. (job # 0 => InHand(job, last_serial, active_unit, 0))'
        BY <2>1, <2>3, <2>5
  <2>8. (slot_watch_unit = "match" /\ ~slot_watch_jobs => Watched(last_serial, active_unit, 0))'
        BY <2>1, <2>4, <2>5
  <2> QED BY <2>1, <2>5, <2>6, <2>7, <2>8 DEF Followed
<1>10. ResetsAreDeserved'
    BY <1>2 DEF ResetsAreDeserved, systemd
<1> QED BY <1>3, <1>5, <1>6, <1>7, <1>8, <1>9, <1>10

-----------------------------------------------------------------------------
(* The broker, and the launcher when it is asked *)

\* activation_request(): a new serial, behind all that are under way.
LEMMA BrokerRequestsKeeps ==
    ASSUME SInv, BrokerRequests
    PROVE  SInv'
<1> USE DEF SInv
<1>1. PICK m : m = [id |-> service, serial |-> activation_ids + 1]
    OBVIOUS
<1>2. /\ service # 0 /\ activation_ids < MaxSerial
      /\ activation_ids' = activation_ids + 1 /\ pending' = activation_ids + 1
      /\ signals' = Append(signals, m)
      /\ UNCHANGED <<object, attempt, calls, answers, systemd, reported>>
    BY <1>1 DEF BrokerRequests
<1>3. m \in Requests /\ m.serial = activation_ids + 1
    BY <1>1, <1>2, ServiceAssumption DEF TypeOK, Serials, Requests
<1>4. /\ signals' \in Seq(Requests)
      /\ Added(signals, signals', 1) /\ signals'[Len(signals) + 1] = m /\ Len(signals) \in Nat
  <2>1. signals \in Seq(Requests)
        BY DEF StreamsOK
  <2> QED BY <1>2, <1>3, <2>1, AddLast
<1>5. StreamsOK'
    BY <1>2, <1>4 DEF StreamsOK
<1>6. TypeOK'
  <2>1. \A i \in DOMAIN signals' :
            signals'[i] \in [id : 1 .. MaxServices, serial : Serials]
        BY <1>4, StreamElements DEF Requests
  <2>2. activation_ids' \in 0 .. MaxSerial /\ pending' \in 0 .. MaxSerial
        BY <1>2, ServiceAssumption DEF TypeOK
  <2> QED BY <1>2, <2>1, <2>2 DEF TypeOK, object, attempt, systemd
<1>7. Numbers'
  <2>1. UNCHANGED <<service, service_ids, instance, last_serial, n_jobs>>
        BY <1>2 DEF object, attempt, systemd
  <2>2. /\ activation_ids' = activation_ids + 1 /\ activation_ids \in Nat
        /\ last_serial \in Nat /\ n_jobs \in Nat
        BY <1>2, ServiceAssumption DEF TypeOK, Jobs
  <2> QED BY <2>1, <2>2 DEF Numbers
<1>8. SignalsAhead'
  <2> SUFFICES ASSUME NEW i \in DOMAIN signals'
               PROVE  /\ signals'[i].serial <= activation_ids'
                      /\ last_serial < signals'[i].serial
                      /\ n_jobs < signals'[i].serial
                      /\ \A k \in DOMAIN signals' :
                             i < k => signals'[i].serial < signals'[k].serial
                      /\ \A k \in DOMAIN calls : calls[k].serial < signals'[i].serial
                      /\ \A k \in DOMAIN answers :
                             IsReply(answers[k]) => answers[k].serial < signals'[i].serial
      BY <1>2 DEF SignalsAhead, IsReply, attempt, systemd
  <2>1. CASE i = Len(signals) + 1
    <3>1. signals'[i].serial = activation_ids + 1
        BY <1>3, <1>4, <2>1
    <3>2. \A k \in DOMAIN signals' : ~(i < k)
        BY <1>4, <2>1 DEF Added
    <3>3. \A k \in DOMAIN calls : calls[k].serial \in Nat
        BY InStreams DEF Serials
    <3>4. \A k \in DOMAIN answers : IsReply(answers[k]) => answers[k].serial \in Nat
        BY InStreams DEF Serials
    <3> QED BY <1>2, <3>1, <3>2, <3>3, <3>4
            DEF Numbers, CallsInOrder, RepliesBehind, TypeOK, Jobs
  <2>2. CASE i # Len(signals) + 1
    <3>1. i \in DOMAIN signals /\ signals'[i] = signals[i]
        BY <1>4, <2>2 DEF Added
    <3>2. signals[i].serial <= activation_ids /\ signals[i].serial \in Nat
        BY <3>1, InStreams DEF SignalsAhead, Serials
    <3>3. ASSUME NEW k \in DOMAIN signals', i < k
          PROVE  signals'[i].serial < signals'[k].serial
      <4>1. CASE k = Len(signals) + 1
            BY <1>3, <1>4, <3>1, <3>2, <4>1 DEF TypeOK
      <4>2. CASE k # Len(signals) + 1
        <5>1. k \in DOMAIN signals /\ signals'[k] = signals[k]
            BY <1>4, <4>2 DEF Added
        <5> QED BY <3>1, <3>3, <5>1 DEF SignalsAhead
      <4> QED BY <4>1, <4>2
    <3>4. signals'[i].serial <= activation_ids'
        BY <1>2, <3>1, <3>2 DEF TypeOK
    <3> QED BY <3>1, <3>3, <3>4 DEF SignalsAhead
  <2> QED BY <2>1, <2>2
<1>9. CallsInOrder'
  <2>1. \A k \in DOMAIN calls : calls[k].serial \in Nat
        BY InStreams DEF Serials
  <2> QED BY <1>2, <2>1 DEF CallsInOrder, TypeOK, systemd
<1>10. RepliesBehind'
  <2>1. \A k \in DOMAIN answers : IsReply(answers[k]) => answers[k].serial \in Nat
        BY InStreams DEF Serials
  <2> QED BY <1>2, <2>1 DEF RepliesBehind, IsReply, TypeOK
<1>11. StageOK' /\ OneCall' /\ JobsDistinct' /\ RefusalsAreFailures'
    BY <1>2 DEF StageOK, OneCall, JobsDistinct, RefusalsAreFailures, IsReply, Gone,
                object, attempt, systemd
<1>12. Followed' /\ ResetsAreDeserved'
    BY <1>2 DEF Followed, InHand, Running, EndsAt, Gone, Watched, ResetsAreDeserved,
                attempt, systemd
<1> QED BY <1>5, <1>6, <1>7, <1>8, <1>9, <1>10, <1>11, <1>12

\* driver_name_activated()
LEMMA NameActivatedKeeps ==
    ASSUME SInv, NameActivated
    PROVE  SInv'
<1> USE DEF SInv
<1>1. pending' = 0 /\ UNCHANGED <<activation_ids, signals, object, attempt, calls,
                                  answers, systemd, reported>>
    BY DEF NameActivated
<1>2. TypeOK' /\ StreamsOK' /\ StageOK'
    BY <1>1, ServiceAssumption DEF TypeOK, StreamsOK, StageOK, object, attempt, systemd
<1>3. Numbers' /\ SignalsAhead' /\ CallsInOrder' /\ RepliesBehind'
    BY <1>1 DEF Numbers, SignalsAhead, CallsInOrder, RepliesBehind, IsReply,
                object, attempt, systemd
<1>4. OneCall' /\ JobsDistinct' /\ RefusalsAreFailures'
    BY <1>1 DEF OneCall, JobsDistinct, RefusalsAreFailures, IsReply, Gone, attempt, systemd
<1>5. Followed' /\ ResetsAreDeserved'
    BY <1>1 DEF Followed, InHand, Running, EndsAt, Gone, Watched, ResetsAreDeserved,
                attempt, systemd
<1> QED BY <1>2, <1>3, <1>4, <1>5

\* The serial the launcher is asked with is newer than all that are under way.
LEMMA SignalTaken ==
    ASSUME SInv, signals # <<>>, signals' = Tail(signals)
    PROVE  /\ signals' \in Seq(Requests)
           /\ Taken(signals, signals')
           /\ 1 \in DOMAIN signals /\ Head(signals) = signals[1]
           /\ Head(signals).serial \in Serials
           /\ Head(signals).serial <= activation_ids
           /\ last_serial < Head(signals).serial /\ n_jobs < Head(signals).serial
           /\ \A i \in DOMAIN signals' : Head(signals).serial < signals'[i].serial
           /\ \A k \in DOMAIN calls : calls[k].serial < Head(signals).serial
           /\ \A k \in DOMAIN answers :
                  IsReply(answers[k]) => answers[k].serial < Head(signals).serial
<1> USE DEF SInv
<1>1. Head(signals) \in First(signals)
    BY HeadIsFirst DEF StreamsOK
<1>2. /\ signals' \in Seq(Requests)
      /\ Taken(signals, signals') /\ 1 \in DOMAIN signals /\ Head(signals) = signals[1]
      /\ Head(signals) \in Requests
    BY <1>1, TakeFirst DEF StreamsOK
<1>3. Head(signals).serial \in Serials
    BY <1>2 DEF Requests
<1>4. \A i \in DOMAIN signals' :
          i \in Nat /\ 1 < i + 1 /\ i + 1 \in DOMAIN signals /\ signals'[i] = signals[i + 1]
    BY <1>2 DEF Taken
<1>5. \A i \in DOMAIN signals' : signals[1].serial < signals'[i].serial
    BY <1>2, <1>4 DEF SignalsAhead
<1> QED BY <1>2, <1>3, <1>5 DEF SignalsAhead

\* What is left of the signals is still in order, and newer than the one taken.
LEMMA SignalsShift ==
    ASSUME SInv, signals # <<>>, signals' = Tail(signals), UNCHANGED <<activation_ids, n_jobs>>,
           last_serial' \in {last_serial, Head(signals).serial}, answers' = answers,
           \A k \in DOMAIN calls' :
               \/ k \in DOMAIN calls /\ calls'[k] = calls[k]
               \/ calls'[k].serial = Head(signals).serial
    PROVE  SignalsAhead'
<1> USE DEF SInv
<1>1. /\ Taken(signals, signals')
      /\ \A i \in DOMAIN signals' : Head(signals).serial < signals'[i].serial
    BY SignalTaken
<1>2. \A i \in DOMAIN signals' :
          i \in Nat /\ i + 1 \in DOMAIN signals /\ signals'[i] = signals[i + 1]
    BY <1>1 DEF Taken
<1> SUFFICES ASSUME NEW i \in DOMAIN signals'
             PROVE  /\ signals'[i].serial <= activation_ids
                    /\ last_serial' < signals'[i].serial
                    /\ n_jobs < signals'[i].serial
                    /\ \A k \in DOMAIN signals' :
                           i < k => signals'[i].serial < signals'[k].serial
                    /\ \A k \in DOMAIN calls' : calls'[k].serial < signals'[i].serial
                    /\ \A k \in DOMAIN answers :
                           IsReply(answers[k]) => answers[k].serial < signals'[i].serial
    BY DEF SignalsAhead, IsReply
<1>3. /\ signals'[i].serial <= activation_ids
      /\ last_serial' < signals'[i].serial
      /\ n_jobs < signals'[i].serial
    BY <1>1, <1>2 DEF SignalsAhead
<1>4. \A k \in DOMAIN signals' : i < k => signals'[i].serial < signals'[k].serial
  <2> SUFFICES ASSUME NEW k \in DOMAIN signals', i < k
               PROVE  signals'[i].serial < signals'[k].serial
      OBVIOUS
  <2>1. i + 1 < k + 1
      BY <1>2
  <2> QED BY <1>2, <2>1 DEF SignalsAhead
<1>5. \A k \in DOMAIN calls' : calls'[k].serial < signals'[i].serial
    BY <1>1, <1>2 DEF SignalsAhead
<1>6. \A k \in DOMAIN answers :
          IsReply(answers[k]) => answers[k].serial < signals'[i].serial
    BY <1>2 DEF SignalsAhead
<1> QED BY <1>3, <1>4, <1>5, <1>6

\* launcher_on_name_activate() for a service that is gone.
LEMMA ActivateUnknownKeeps ==
    ASSUME SInv, ActivateUnknown
    PROVE  SInv'
<1> USE DEF SInv
<1>1. /\ signals # <<>> /\ signals' = Tail(signals)
      /\ UNCHANGED <<pending, activation_ids, object, attempt, calls, answers, systemd, reported>>
    BY DEF ActivateUnknown
<1>2. signals' \in Seq(Requests)
    BY <1>1, SignalTaken
<1>3. StreamsOK' /\ StageOK'
    BY <1>1, <1>2 DEF StreamsOK, StageOK, object, attempt
<1>4. TypeOK'
  <2>1. AttemptOK'
        BY <1>1 DEF AttemptOK, TypeOK, attempt
  <2> QED BY <1>1, <1>3, <2>1, TypesTogether DEF TypeOK
<1>5. SignalsAhead'
    BY <1>1, SignalsShift DEF attempt, systemd
<1>6. Numbers' /\ CallsInOrder' /\ RepliesBehind'
    BY <1>1 DEF Numbers, CallsInOrder, RepliesBehind, IsReply, object, attempt, systemd
<1>7. OneCall' /\ JobsDistinct' /\ RefusalsAreFailures'
    BY <1>1 DEF OneCall, JobsDistinct, RefusalsAreFailures, IsReply, Gone, attempt, systemd
<1>8. Followed' /\ ResetsAreDeserved'
    BY <1>1 DEF Followed, InHand, Running, EndsAt, Gone, Watched, ResetsAreDeserved,
                attempt, systemd
<1> QED BY <1>3, <1>4, <1>5, <1>6, <1>7, <1>8

\* service_activate() of a service that starts by itself.
LEMMA ActivateSelfKeeps ==
    ASSUME SInv, ActivateSelf
    PROVE  SInv'
<1> USE DEF SInv
<1>1. /\ signals # <<>> /\ signals' = Tail(signals) /\ Discard
      /\ last_serial' = Head(signals).serial
      /\ UNCHANGED <<pending, activation_ids, object, instance, calls, answers, systemd, reported>>
    BY DEF ActivateSelf
<1>2. PICK serial \in Serials : serial = Head(signals).serial
    BY <1>1, SignalTaken
<1>3. /\ signals' \in Seq(Requests)
      /\ serial <= activation_ids /\ last_serial < serial /\ n_jobs < serial
      /\ \A k \in DOMAIN calls : calls[k].serial < serial
      /\ \A k \in DOMAIN answers : IsReply(answers[k]) => answers[k].serial < serial
    BY <1>1, <1>2, SignalTaken
<1>4. StreamsOK' /\ StageOK'
    BY <1>1, <1>3 DEF StreamsOK, StageOK, Discard
<1>5. TypeOK'
  <2>1. AttemptOK'
    <3>1. instance' \in 0 .. MaxSerial
        BY <1>1 DEF TypeOK
    <3>2. last_serial' \in 0 .. MaxSerial
        BY <1>1, <1>2, ServiceAssumption DEF Serials
    <3> QED BY <1>1, <3>1, <3>2 DEF AttemptOK, Discard
  <2> QED BY <1>1, <1>4, <2>1, TypesTogether DEF TypeOK
<1>6. SignalsAhead'
    BY <1>1, SignalsShift DEF systemd
<1>7. Numbers' /\ CallsInOrder' /\ RepliesBehind'
    BY <1>1, <1>2, <1>3 DEF Numbers, CallsInOrder, RepliesBehind, IsReply, TypeOK, Serials,
                            object, systemd
<1>8. JobsDistinct' /\ RefusalsAreFailures'
    BY <1>1 DEF JobsDistinct, RefusalsAreFailures, IsReply, Gone, systemd
<1>9. OneCall'
    BY <1>1, <1>2, <1>3 DEF OneCall, IsReply, Discard, Serials, systemd
<1>10. Followed' /\ ResetsAreDeserved'
    BY <1>1 DEF Followed, Discard, ResetsAreDeserved, systemd
<1> QED BY <1>4, <1>5, <1>6, <1>7, <1>8, <1>9, <1>10

\* service_activate(): what the old activation left behind has older serials.
LEMMA ActivateKeeps ==
    ASSUME SInv, Activate
    PROVE  SInv'
<1> USE DEF SInv
<1>1. PICK serial : serial = Head(signals).serial
    OBVIOUS
<1>2. PICK unit : unit = IF kind = "unit" THEN FileUnit ELSE Transient(instance + 1)
    OBVIOUS
<1>3. PICK c : c = [type |-> "load", serial |-> serial, unit |-> unit]
    OBVIOUS
<1>4. /\ signals # <<>> /\ Head(signals).id = service /\ kind # "self"
      /\ signals' = Tail(signals) /\ last_serial' = serial /\ job' = 0
      /\ slot_start_unit' = FALSE /\ slot_watch_unit' = "load" /\ slot_watch_jobs' = TRUE
      /\ active_unit' = unit /\ is_transient' = (kind = "exec")
      /\ instance' = IF kind = "exec" THEN instance + 1 ELSE instance
      /\ calls' = Append(calls, c)
      /\ UNCHANGED <<pending, activation_ids, object, answers, systemd, reported>>
    BY <1>1, <1>2, <1>3 DEF Activate, WatchJobs, WatchUnit
<1>5. /\ signals' \in Seq(Requests)
      /\ serial \in Serials /\ serial <= activation_ids
      /\ last_serial < serial /\ n_jobs < serial
      /\ \A k \in DOMAIN calls : calls[k].serial < serial
      /\ \A k \in DOMAIN answers : IsReply(answers[k]) => answers[k].serial < serial
    BY <1>1, <1>4, SignalTaken
<1>6. /\ kind \in {"unit", "exec"} /\ instance \in Nat /\ last_serial \in Nat
      /\ service # 0
  <2>1. kind \in {"unit", "exec"} /\ instance \in Nat /\ last_serial \in Nat
        BY <1>4, ServiceAssumption DEF TypeOK
  <2>2. signals[1].id \in 1 .. MaxServices /\ Head(signals) = signals[1]
        BY <1>4, SignalTaken, InStreams DEF Requests
  <2> QED BY <1>4, <2>1, <2>2
<1>7. instance + 1 <= serial /\ instance + 1 \in Serials
    BY <1>5, <1>6, ServiceAssumption DEF Numbers, Serials
<1>8. unit \in Units /\ unit # NoUnit /\ (kind = "exec" <=> unit # FileUnit)
  <2>1. CASE kind = "unit"
        BY <1>2, <2>1 DEF Units, FileUnit, NoUnit
  <2>2. CASE kind # "unit"
    <3>1. unit = <<"exec", instance + 1>>
        BY <1>2, <2>2 DEF Transient
    <3>2. unit \in Units
        BY <1>2, <1>7, <2>2 DEF Units
    <3> QED BY <1>6, <2>2, <3>1, <3>2 DEF FileUnit, NoUnit
  <2> QED BY <2>1, <2>2
<1>9. c \in Calls /\ c.type = "load" /\ c.serial = serial /\ c.unit = unit
    BY <1>3, <1>5, <1>8 DEF Calls
<1>10. /\ calls' \in Seq(Calls) /\ Len(calls') = Len(calls) + 1 /\ Len(calls) \in Nat
       /\ Added(calls, calls', 1) /\ calls'[Len(calls) + 1] = c
    BY <1>4, <1>9, AddLast DEF StreamsOK
<1>11. \A k \in DOMAIN calls' :
           \/ k \in DOMAIN calls /\ calls'[k] = calls[k] /\ k <= Len(calls)
           \/ k = Len(calls) + 1 /\ calls'[k] = c
    BY <1>10 DEF Added
<1>12. StreamsOK'
    BY <1>4, <1>5, <1>10 DEF StreamsOK
<1>13. TypeOK'
  <2>1. instance' \in 0 .. MaxSerial /\ last_serial' \in 0 .. MaxSerial
        BY <1>4, <1>5, <1>6, <1>7, ServiceAssumption DEF TypeOK, Serials
  <2>2. AttemptOK'
        BY <1>4, <1>8, <2>1 DEF AttemptOK
  <2> QED BY <1>4, <1>12, <2>2, TypesTogether DEF TypeOK
<1>14. StageOK'
  <2>1. serial # 0
        BY <1>5 DEF Serials
  <2> QED BY <1>4, <1>6, <1>8, <2>1 DEF StageOK, object
<1>15. SignalsAhead'
    BY <1>1, <1>4, <1>9, <1>11, SignalsShift DEF systemd
<1>16. Numbers' /\ RepliesBehind'
    BY <1>4, <1>5, <1>6, <1>7 DEF Numbers, RepliesBehind, IsReply, object, systemd, Serials
<1>17. CallsInOrder'
    BY <1>4, <1>5, <1>9, <1>11 DEF CallsInOrder, systemd
<1>18. JobsDistinct' /\ RefusalsAreFailures'
    BY <1>4 DEF JobsDistinct, RefusalsAreFailures, IsReply, Gone, systemd
<1>19. OneCall'
  <2>1. \A k \in DOMAIN calls : calls[k].serial # serial
        BY <1>5, InStreams DEF Serials
  <2>2. \A k \in DOMAIN answers : IsReply(answers[k]) => answers[k].serial # serial
        BY <1>5, InStreams DEF Serials
  <2> QED BY <1>4, <1>9, <1>10, <1>11, <2>1, <2>2 DEF OneCall, IsReply
<1>20. Followed' /\ ResetsAreDeserved'
    BY <1>4 DEF Followed, ResetsAreDeserved, systemd
<1> QED BY <1>12, <1>13, <1>14, <1>15, <1>16, <1>17, <1>18, <1>19, <1>20

\* service_add(): a new object, which no serial under way belongs to.
LEMMA ReloadAddsKeeps ==
    ASSUME SInv, ReloadAdds
    PROVE  SInv'
<1> USE DEF SInv
<1>1. /\ service = 0 /\ service_ids < MaxServices /\ kind' \in Kinds
      /\ service_ids' = service_ids + 1 /\ service' = service_ids + 1
      /\ instance' = 0 /\ last_serial' = 0
      /\ UNCHANGED <<broker, active_unit, is_transient, job, slot_start_unit,
                     slot_watch_unit, slot_watch_jobs, calls, answers, systemd, reported>>
    BY DEF ReloadAdds, LoadServiceFile, ServiceNew
<1>2. /\ slot_watch_unit = "none" /\ ~slot_start_unit /\ ~slot_watch_jobs /\ job = 0
      /\ active_unit = NoUnit
    BY <1>1 DEF StageOK
<1>3. StreamsOK' /\ StageOK'
    BY <1>1, <1>2 DEF StreamsOK, StageOK, broker, TypeOK
<1>4. TypeOK'
  <2>1. service' \in 0 .. MaxServices /\ service_ids' \in 0 .. MaxServices
        BY <1>1, ServiceAssumption DEF TypeOK
  <2>2. instance' \in 0 .. MaxSerial /\ last_serial' \in 0 .. MaxSerial
        BY <1>1, ServiceAssumption
  <2> QED BY <1>1, <2>1, <2>2 DEF TypeOK, broker, systemd
<1>5. Numbers' /\ CallsInOrder' /\ RepliesBehind' /\ JobsDistinct' /\ RefusalsAreFailures'
    BY <1>1 DEF Numbers, CallsInOrder, RepliesBehind, JobsDistinct, RefusalsAreFailures,
                IsReply, Gone, TypeOK, broker, systemd
<1>6. SignalsAhead'
  <2>1. \A i \in DOMAIN signals : 0 < signals[i].serial
        BY InStreams DEF Serials
  <2> QED BY <1>1, <2>1 DEF SignalsAhead, IsReply, broker, systemd
<1>7. OneCall'
  <2>1. \A k \in DOMAIN calls : calls[k].serial # 0
        BY InStreams DEF Serials
  <2>2. \A k \in DOMAIN answers : IsReply(answers[k]) => answers[k].serial # 0
        BY InStreams DEF Serials
  <2> QED BY <1>1, <1>2, <2>1, <2>2 DEF OneCall, IsReply
<1>8. Followed' /\ ResetsAreDeserved'
    BY <1>1, <1>2 DEF Followed, ResetsAreDeserved, systemd
<1> QED BY <1>3, <1>4, <1>5, <1>6, <1>7, <1>8

\* service_update(): the activation goes on.
LEMMA ReloadUpdatesKeeps ==
    ASSUME SInv, ReloadUpdates
    PROVE  SInv'
<1> USE DEF SInv
<1>1. kind' \in Kinds /\ UNCHANGED <<broker, service, service_ids, attempt, calls, answers,
                                     systemd, reported>>
    BY DEF ReloadUpdates, LoadServiceFile
<1>2. TypeOK' /\ StreamsOK' /\ StageOK'
    BY <1>1 DEF TypeOK, StreamsOK, StageOK, broker, attempt, systemd
<1>3. Numbers' /\ SignalsAhead' /\ CallsInOrder' /\ RepliesBehind'
    BY <1>1 DEF Numbers, SignalsAhead, CallsInOrder, RepliesBehind, IsReply,
                broker, attempt, systemd
<1>4. OneCall' /\ JobsDistinct' /\ RefusalsAreFailures'
    BY <1>1 DEF OneCall, JobsDistinct, RefusalsAreFailures, IsReply, Gone, attempt, systemd
<1>5. Followed' /\ ResetsAreDeserved'
    BY <1>1 DEF Followed, InHand, Running, EndsAt, Gone, Watched, ResetsAreDeserved,
                attempt, systemd
<1> QED BY <1>2, <1>3, <1>4, <1>5

\* service_remove(): the activation is dropped, its traces are not.
LEMMA ReloadRemovesKeeps ==
    ASSUME SInv, ReloadRemoves
    PROVE  SInv'
<1> USE DEF SInv
<1>1. /\ service' = 0 /\ pending' = 0 /\ Discard
      /\ UNCHANGED <<activation_ids, signals, service_ids, kind, instance, last_serial,
                     calls, answers, systemd, reported>>
    BY DEF ReloadRemoves
<1>2. StreamsOK' /\ StageOK'
    BY <1>1 DEF StreamsOK, StageOK, Discard
<1>3. TypeOK'
  <2>1. AttemptOK'
        BY <1>1 DEF AttemptOK, TypeOK, Discard
  <2>2. pending' \in 0 .. MaxSerial /\ service' \in 0 .. MaxServices
        BY <1>1, ServiceAssumption
  <2> QED BY <1>1, <2>1, <2>2 DEF TypeOK, AttemptOK, systemd
<1>4. Numbers' /\ SignalsAhead' /\ CallsInOrder' /\ RepliesBehind'
    BY <1>1 DEF Numbers, SignalsAhead, CallsInOrder, RepliesBehind, IsReply, TypeOK, systemd
<1>5. JobsDistinct' /\ RefusalsAreFailures'
    BY <1>1 DEF JobsDistinct, RefusalsAreFailures, IsReply, Gone, systemd
<1>6. OneCall'
    BY <1>1 DEF OneCall, IsReply, Discard, systemd
<1>7. Followed' /\ ResetsAreDeserved'
    BY <1>1 DEF Followed, Discard, ResetsAreDeserved, systemd
<1> QED BY <1>2, <1>3, <1>4, <1>5, <1>6, <1>7

-----------------------------------------------------------------------------
(* systemd *)

\* The state of a unit.
UnitStates == [job : {0} \cup Jobs, job_for : SUBSET Serials,
               up : BOOLEAN, up_for : SUBSET Serials]

\* The types of systemd's side, and of the streams.
LEMMA TypesOfSystemd ==
    ASSUME SInv, UNCHANGED <<broker, object, attempt, reported>>,
           units' \in [Units -> UnitStates], n_jobs' \in {0} \cup Jobs,
           failures' \in SUBSET Serials, overlooked' \subseteq failures'
    PROVE  TypeOK' /\ StageOK'
<1>1. TypeOK /\ StageOK
    BY DEF SInv
<1>2. UNCHANGED <<pending, activation_ids, signals, service, service_ids, kind, instance,
                  last_serial, active_unit, is_transient, job, slot_start_unit,
                  slot_watch_unit, slot_watch_jobs>>
    BY DEF broker, object, attempt
<1> QED BY <1>1, <1>2 DEF TypeOK, StageOK, UnitStates

\* r is a reply to c.
Replies(c, r) ==
    /\ IsReply(r)
    /\ r.serial = c.serial
    /\ \/ c.type = "load" /\ r.type = "loaded"
       \/ c.type # "load" /\ r.type = "started"

\* A call is answered: its serial moves from one stream to the other.
LEMMA Answered ==
    ASSUME SInv, NEW c \in First(calls), NEW r \in Messages, Replies(c, r),
           NEW types, Answer(types, c, <<r>>),
           UNCHANGED <<broker, object, attempt>>,
           n_jobs' = n_jobs \/ (n_jobs' = n_jobs + 1 /\ c.type # "load")
    PROVE  /\ c = calls[1] /\ 1 \in DOMAIN calls /\ c \in Calls /\ c.serial \in Serials
           /\ Added(answers, answers', 1) /\ answers'[Len(answers) + 1] = r
           /\ Len(answers) \in Nat
           /\ StreamsOK' /\ n_jobs' \in {0} \cup Jobs
           /\ Numbers' /\ SignalsAhead' /\ CallsInOrder' /\ RepliesBehind' /\ OneCall'
<1> USE DEF SInv, Replies
<1>1. /\ c = calls[1] /\ 1 \in DOMAIN calls /\ c \in Calls
      /\ calls' \in Seq(Calls) /\ Len(calls') = Len(calls) - 1 /\ Taken(calls, calls')
  <2>1. calls \in Seq(Calls) /\ calls' = Tail(calls)
        BY DEF StreamsOK, Answer
  <2> QED BY <2>1, TakeFirst
<1>2. /\ answers' \in Seq(Messages) /\ Added(answers, answers', 1) /\ Len(answers) \in Nat
      /\ answers'[Len(answers) + 1] = r
  <2>1. answers \in Seq(Messages) /\ answers' = answers \o <<r>>
        BY DEF StreamsOK, Answer
  <2> QED BY <2>1, AddOne
<1>3. /\ c.serial \in Serials /\ c.serial <= activation_ids
      /\ n_jobs < c.serial /\ n_jobs \in Nat /\ n_jobs' \in Nat /\ n_jobs' <= c.serial
    BY <1>1, InStreams DEF CallsInOrder, TypeOK, Jobs, Serials
<1>4. StreamsOK'
    BY <1>1, <1>2 DEF StreamsOK, broker
<1>5. n_jobs' \in {0} \cup Jobs
    BY <1>3, ServiceAssumption DEF Jobs, Serials
<1>6. UNCHANGED <<activation_ids, signals, service, service_ids, instance, last_serial,
                  active_unit, slot_start_unit, slot_watch_unit>>
    BY DEF broker, object, attempt
<1>7. \A k \in DOMAIN answers' :
          \/ k \in DOMAIN answers /\ answers'[k] = answers[k]
          \/ k = Len(answers) + 1 /\ answers'[k] = r
    BY <1>2 DEF Added
<1>8. \A k \in DOMAIN calls' :
          /\ k \in Nat /\ k + 1 \in DOMAIN calls /\ 1 < k + 1 /\ calls'[k] = calls[k + 1]
          /\ c.serial < calls'[k].serial /\ calls'[k].serial \in Nat
  <2>1. \A k \in DOMAIN calls' :
            k \in Nat /\ k + 1 \in DOMAIN calls /\ 1 < k + 1 /\ calls'[k] = calls[k + 1]
        BY <1>1 DEF Taken
  <2>2. \A k \in DOMAIN calls' : calls[1].serial < calls[k + 1].serial
        BY <1>1, <2>1 DEF CallsInOrder
  <2>3. \A k \in DOMAIN calls' : calls[k + 1].serial \in Nat
        BY <2>1, InStreams DEF Serials
  <2> QED BY <1>1, <2>1, <2>2, <2>3
<1>9. Numbers'
    BY <1>3, <1>6 DEF Numbers, TypeOK, Serials
<1>10. RepliesBehind'
    BY <1>3, <1>6, <1>7 DEF RepliesBehind, IsReply
<1>11. CallsInOrder'
  <2> SUFFICES ASSUME NEW i \in DOMAIN calls'
               PROVE  /\ calls'[i].serial <= activation_ids
                      /\ n_jobs' < calls'[i].serial
                      /\ \A k \in DOMAIN calls' : i < k => calls'[i].serial < calls'[k].serial
      BY <1>6 DEF CallsInOrder
  <2>1. calls'[i].serial <= activation_ids
      BY <1>8 DEF CallsInOrder
  <2>2. n_jobs' < calls'[i].serial
      BY <1>3, <1>8 DEF Serials
  <2>3. ASSUME NEW k \in DOMAIN calls', i < k
        PROVE  calls'[i].serial < calls'[k].serial
    <3>1. i + 1 < k + 1
        BY <1>8, <2>3
    <3> QED BY <1>8, <3>1 DEF CallsInOrder
  <2> QED BY <2>1, <2>2, <2>3
<1>12. SignalsAhead'
  <2> SUFFICES ASSUME NEW i \in DOMAIN signals
               PROVE  /\ n_jobs' < signals[i].serial
                      /\ \A k \in DOMAIN calls' : calls'[k].serial < signals[i].serial
                      /\ \A k \in DOMAIN answers' :
                             IsReply(answers'[k]) => answers'[k].serial < signals[i].serial
      BY <1>6 DEF SignalsAhead, IsReply
  <2>1. c.serial < signals[i].serial /\ signals[i].serial \in Nat
      BY <1>1, InStreams DEF SignalsAhead, Serials
  <2>2. n_jobs' < signals[i].serial
      BY <1>3, <2>1 DEF Serials
  <2>3. \A k \in DOMAIN calls' : calls'[k].serial < signals[i].serial
      BY <1>8 DEF SignalsAhead
  <2>4. \A k \in DOMAIN answers' :
            IsReply(answers'[k]) => answers'[k].serial < signals[i].serial
      BY <1>7, <2>1 DEF SignalsAhead
  <2> QED BY <2>2, <2>3, <2>4
<1>13. OneCall'
  <2>1. calls # <<>> /\ Len(calls) \in Nat
        BY <1>1 DEF StreamsOK
  <2>2. ~(slot_watch_unit = "match" /\ ~slot_start_unit)
        BY <2>1 DEF OneCall
  <2>3. \A k \in DOMAIN answers : IsReply(answers[k]) => answers[k].serial # last_serial
        BY <2>1 DEF OneCall
  <2>4. \A k \in DOMAIN answers' : IsReply(answers'[k]) /\ answers'[k].serial = last_serial =>
            k = Len(answers) + 1 /\ answers'[k] = r
        BY <1>7, <2>3
  <2>5. ASSUME c.serial = last_serial
        PROVE  /\ calls' = <<>>
               /\ slot_watch_unit = "load" => r.type = "loaded" /\ n_jobs' < last_serial
               /\ slot_start_unit => r.type = "started"
    <3>1. Len(calls) = 1
        BY <1>1, <2>5 DEF OneCall
    <3>2. calls' = <<>>
        BY <1>1, <3>1
    <3>3. /\ slot_watch_unit = "load" => c.type = "load"
          /\ slot_start_unit => c.type # "load"
        BY <1>1, <2>5 DEF OneCall
    <3> QED BY <1>3, <2>5, <3>2, <3>3
  <2>6. ASSUME NEW k \in DOMAIN calls'
        PROVE  /\ calls'[k].type = "load"
               /\ calls'[k].serial = last_serial =>
                      k = Len(calls') /\ ~slot_start_unit
    <3>1. calls[k + 1].type = "load"
        BY <1>8, <2>6 DEF OneCall
    <3>2. calls[k + 1].serial = last_serial => k + 1 = Len(calls) /\ ~slot_start_unit
        BY <1>8, <2>6, <3>1 DEF OneCall
    <3> QED BY <1>1, <1>8, <2>1, <2>6, <3>1, <3>2
  <2> QED BY <1>6, <2>2, <2>4, <2>5, <2>6 DEF OneCall, IsReply
<1> QED BY <1>1, <1>2, <1>3, <1>4, <1>5, <1>9, <1>10, <1>11, <1>12, <1>13

\* While a call is under way the launcher follows nothing but its answer.
LEMMA NothingFollowed ==
    ASSUME SInv, 1 \in DOMAIN calls
    PROVE  /\ job = 0
           /\ ~(slot_watch_unit = "match" /\ ~slot_watch_jobs)
           /\ \A i \in DOMAIN answers : IsReply(answers[i]) => answers[i].serial # last_serial
<1>1. calls # <<>>
    BY DEF SInv, StreamsOK
<1> QED BY <1>1 DEF SInv, OneCall, StageOK

\* The ends of jobs are not touched by an answer.
LEMMA JobsStayDistinct ==
    ASSUME SInv, NEW r \in Messages, r.type # "job_removed", Added(answers, answers', 1),
           answers'[Len(answers) + 1] = r, UNCHANGED n_jobs,
           \A u \in Units : units'[u].job = units[u].job
    PROVE  JobsDistinct'
<1>1. \A k \in DOMAIN answers' :
          \/ k \in DOMAIN answers /\ answers'[k] = answers[k]
          \/ answers'[k].type # "job_removed"
    BY DEF Added, SInv, StreamsOK
<1>2. \A k \in DOMAIN answers', j \in Jobs :
          Gone(j, k)' => k \in DOMAIN answers /\ Gone(j, k)
    BY <1>1 DEF Gone
<1>3. JobsDistinct
    BY DEF SInv
<1> QED BY <1>2, <1>3 DEF JobsDistinct

\* LoadUnit is answered.
LEMMA LoadKeeps ==
    ASSUME SInv, Load
    PROVE  SInv'
<1> USE DEF SInv
<1>1. PICK c \in First(calls), error \in BOOLEAN :
          /\ Answer({"load"}, c, <<Loaded(c, error)>>)
          /\ failures' = IF error THEN failures \cup {c.serial} ELSE failures
    BY DEF Load
<1>2. UNCHANGED <<broker, object, attempt, units, n_jobs, overlooked, reported>>
    BY DEF Load
<1>3. c \in Calls /\ c.serial \in Serials /\ c = calls[1] /\ 1 \in DOMAIN calls
    BY <1>1, InStreams DEF First
<1>4. PICK r \in Messages : r = Loaded(c, error)
    BY <1>3 DEF Messages, Loaded
<1>5. r.type = "loaded" /\ r.serial = c.serial /\ r.error = error /\ IsReply(r)
    BY <1>4 DEF Loaded, IsReply
<1>6. /\ Added(answers, answers', 1) /\ answers'[Len(answers) + 1] = r
      /\ Len(answers) \in Nat
      /\ StreamsOK' /\ Numbers' /\ SignalsAhead' /\ CallsInOrder' /\ RepliesBehind' /\ OneCall'
  <2>1. Replies(c, r) /\ Answer({"load"}, c, <<r>>)
        BY <1>1, <1>4, <1>5 DEF Answer, Replies
  <2>2. UNCHANGED <<broker, object, attempt>> /\ n_jobs' = n_jobs
        BY <1>2
  <2> QED BY <2>1, <2>2, Answered
<1>7. TypeOK' /\ StageOK'
    BY <1>1, <1>2, <1>3, TypesOfSystemd DEF TypeOK, UnitStates
<1>8. JobsDistinct'
    BY <1>2, <1>5, <1>6, JobsStayDistinct
<1>9. \A k \in DOMAIN answers' :
          \/ k \in DOMAIN answers /\ answers'[k] = answers[k]
          \/ answers'[k] = r
    BY <1>6 DEF Added
<1>10. RefusalsAreFailures'
    BY <1>1, <1>5, <1>9 DEF RefusalsAreFailures, IsReply
<1>11. Followed'
    BY <1>2, <1>3, <1>5, <1>9, NothingFollowed DEF Followed, IsReply, attempt
<1>12. ResetsAreDeserved'
    BY <1>1, <1>2 DEF ResetsAreDeserved
<1> QED BY <1>6, <1>7, <1>8, <1>10, <1>11, <1>12

\* A start is refused.
LEMMA StartRefusedKeeps ==
    ASSUME SInv, StartRefused
    PROVE  SInv'
<1> USE DEF SInv
<1>1. PICK c \in First(calls) :
          /\ Answer({"start", "transient"}, c, <<Started(c, TRUE, 0)>>)
          /\ failures' = failures \cup {c.serial}
    BY DEF StartRefused
<1>2. UNCHANGED <<broker, object, attempt, units, n_jobs, overlooked, reported>>
    BY DEF StartRefused
<1>3. c \in Calls /\ c.serial \in Serials /\ c = calls[1] /\ 1 \in DOMAIN calls
    BY <1>1, InStreams DEF First
<1>4. PICK r \in Messages : r = Started(c, TRUE, 0)
    BY <1>3 DEF Messages, Started
<1>5. r.type = "started" /\ r.serial = c.serial /\ r.error = TRUE /\ IsReply(r)
    BY <1>4 DEF Started, IsReply
<1>6. /\ Added(answers, answers', 1) /\ answers'[Len(answers) + 1] = r
      /\ Len(answers) \in Nat
      /\ StreamsOK' /\ Numbers' /\ SignalsAhead' /\ CallsInOrder' /\ RepliesBehind' /\ OneCall'
  <2>1. Replies(c, r) /\ Answer({"start", "transient"}, c, <<r>>)
        BY <1>1, <1>4, <1>5 DEF Answer, Replies
  <2>2. UNCHANGED <<broker, object, attempt>> /\ n_jobs' = n_jobs
        BY <1>2
  <2> QED BY <2>1, <2>2, Answered
<1>7. TypeOK' /\ StageOK'
    BY <1>1, <1>2, <1>3, TypesOfSystemd DEF TypeOK, UnitStates
<1>8. JobsDistinct'
    BY <1>2, <1>5, <1>6, JobsStayDistinct
<1>9. \A k \in DOMAIN answers' :
          \/ k \in DOMAIN answers /\ answers'[k] = answers[k]
          \/ answers'[k] = r
    BY <1>6 DEF Added
<1>10. RefusalsAreFailures'
    BY <1>1, <1>5, <1>9 DEF RefusalsAreFailures, IsReply
<1>11. Followed'
    BY <1>2, <1>3, <1>5, <1>9, NothingFollowed DEF Followed, IsReply, attempt
<1>12. ResetsAreDeserved'
    BY <1>1, <1>2 DEF ResetsAreDeserved
<1> QED BY <1>6, <1>7, <1>8, <1>10, <1>11, <1>12

\* A start is queued as a job of its own, or joins the one the unit has.
LEMMA StartedKeeps ==
    ASSUME SInv, NEW c \in First(calls), NEW j \in Jobs,
           NEW types \in SUBSET {"start", "transient"},
           Answer(types, c, <<Started(c, FALSE, j)>>),
           units' \in [Units -> UnitStates], units'[c.unit].job = j,
           c.serial \in units'[c.unit].job_for,
           \/ n_jobs' = n_jobs + 1 /\ j = n_jobs + 1 /\ units[c.unit].job = 0
           \/ n_jobs' = n_jobs /\ units[c.unit].job = j,
           \A u \in Units \ {c.unit} : units'[u] = units[u],
           UNCHANGED <<broker, object, attempt, failures, overlooked, reported>>
    PROVE  SInv'
<1> USE DEF SInv
<1>1. /\ c \in Calls /\ c.serial \in Serials /\ c.unit \in Units
      /\ c = calls[1] /\ 1 \in DOMAIN calls
  <2>1. calls \in Seq(Calls)
        BY DEF StreamsOK
  <2>2. c = calls[1] /\ 1 \in DOMAIN calls
        BY DEF First
  <2>3. c \in Calls
        BY <2>1, <2>2, StreamElements
  <2> QED BY <2>2, <2>3 DEF Calls
<1>2. PICK r \in Messages : r = Started(c, FALSE, j)
    BY <1>1 DEF Messages, Started
<1>3. /\ r.type = "started" /\ r.serial = c.serial /\ r.error = FALSE /\ r.job = j
      /\ IsReply(r)
    BY <1>2 DEF Started, IsReply
<1>4. /\ Added(answers, answers', 1) /\ answers'[Len(answers) + 1] = r
      /\ Len(answers) \in Nat /\ n_jobs' \in {0} \cup Jobs
      /\ StreamsOK' /\ Numbers' /\ SignalsAhead' /\ CallsInOrder' /\ RepliesBehind' /\ OneCall'
  <2>1. Replies(c, r) /\ c.type # "load" /\ Answer(types, c, <<r>>)
        BY <1>2, <1>3 DEF Answer, Replies
  <2> QED BY <2>1, Answered
<1>5. TypeOK' /\ StageOK'
    BY <1>4, TypesOfSystemd DEF TypeOK
<1>6. \A k \in DOMAIN answers' :
          \/ k \in DOMAIN answers /\ answers'[k] = answers[k]
          \/ k = Len(answers) + 1 /\ answers'[k] = r
  <2>1. Added(answers, answers', 1) /\ Len(answers) \in Nat /\ answers'[Len(answers) + 1] = r
        BY <1>4
  <2> QED BY <2>1, AddedOne
<1>7. \A k \in DOMAIN answers', g \in Jobs :
          Gone(g, k)' => k \in DOMAIN answers /\ Gone(g, k)
    BY <1>3, <1>6 DEF Gone
<1>8. JobsDistinct'
  <2>1. /\ n_jobs \in Nat /\ n_jobs' \in Nat /\ n_jobs <= n_jobs' /\ j <= n_jobs' /\ j # 0
        /\ \A u \in Units : units[u].job \in Nat
        BY <1>1 DEF TypeOK, Jobs, JobsDistinct
  <2>2. \A u \in Units \ {c.unit} : units[u].job # j
    <3>1. CASE n_jobs' = n_jobs + 1 /\ j = n_jobs + 1
        BY <2>1, <3>1 DEF JobsDistinct
    <3>2. CASE units[c.unit].job = j
        BY <1>1, <2>1, <3>2 DEF JobsDistinct
    <3> QED BY <3>1, <3>2
  <2>3. \A u \in Units : units'[u].job <= n_jobs'
        BY <2>1 DEF JobsDistinct
  <2>4. \A u \in Units, v \in Units :
            units'[u].job = units'[v].job /\ units'[u].job # 0 => u = v
        BY <2>2 DEF JobsDistinct
  <2>5. ASSUME NEW k \in DOMAIN answers', NEW g \in Jobs, Gone(g, k)'
        PROVE  /\ g <= n_jobs'
               /\ \A u \in Units : units'[u].job # g
               /\ \A l \in DOMAIN answers' : Gone(g, l)' => k = l
    <3>1. /\ g <= n_jobs /\ g \in Nat
          /\ \A u \in Units : units[u].job # g
          /\ \A l \in DOMAIN answers : Gone(g, l) => k = l
        BY <1>7, <2>5 DEF JobsDistinct, Jobs
    <3>2. g <= n_jobs'
        BY <2>1, <3>1
    <3>3. j # g
        BY <1>1, <2>1, <3>1
    <3> QED BY <1>7, <3>1, <3>2, <3>3
  <2> QED BY <2>3, <2>4, <2>5 DEF JobsDistinct
<1>9. RefusalsAreFailures'
    BY <1>3, <1>6 DEF RefusalsAreFailures, IsReply
<1>10. Followed'
  <2>1. /\ job' = 0 /\ ~(slot_watch_unit' = "match" /\ ~slot_watch_jobs')
        /\ \A i \in DOMAIN answers : IsReply(answers[i]) => answers[i].serial # last_serial
        BY <1>1, NothingFollowed DEF attempt
  <2>2. UNCHANGED <<slot_start_unit, last_serial, active_unit>>
        BY DEF attempt
  <2>3. ASSUME slot_start_unit, c.serial = last_serial
        PROVE  Running(j, last_serial, active_unit)'
    <3>1. c.unit = active_unit
        BY <1>1, <2>3 DEF OneCall
    <3> QED BY <2>2, <2>3, <3>1 DEF Running
  <2>4. ASSUME slot_start_unit, NEW i \in DOMAIN answers', answers'[i].type = "started",
               answers'[i].serial = last_serial
        PROVE  answers'[i] = r /\ c.serial = last_serial
        BY <1>3, <1>6, <2>1, <2>4 DEF IsReply
  <2>5. j # 0
        BY DEF Jobs
  <2> QED BY <1>3, <2>1, <2>2, <2>3, <2>4, <2>5 DEF Followed, InHand, Running
<1>11. ResetsAreDeserved'
    BY DEF ResetsAreDeserved
<1> QED BY <1>4, <1>5, <1>8, <1>9, <1>10, <1>11

\* StartUnit or StartTransientUnit, a job of its own.
LEMMA StartKeeps ==
    ASSUME SInv, Start
    PROVE  SInv'
<1> USE DEF SInv
<1>1. PICK c \in First(calls) :
          /\ Answer({"start", "transient"}, c, <<Started(c, FALSE, n_jobs + 1)>>)
          /\ units[c.unit].job = 0
          /\ units' = [units EXCEPT ![c.unit].job = n_jobs + 1,
                                    ![c.unit].job_for = {c.serial}]
    BY DEF Start
<1>2. /\ n_jobs' = n_jobs + 1
      /\ UNCHANGED <<broker, object, attempt, failures, overlooked, reported>>
    BY DEF Start
<1>3. /\ c.serial \in Serials /\ c.unit \in Units /\ n_jobs < c.serial
  <2>1. c \in Calls /\ c = calls[1] /\ 1 \in DOMAIN calls
        BY InStreams DEF First
  <2> QED BY <2>1 DEF Calls, CallsInOrder
<1>4. PICK j \in Jobs : j = n_jobs + 1
    BY <1>3, ServiceAssumption DEF TypeOK, Jobs, Serials
<1>5. units \in [Units -> UnitStates]
    BY DEF TypeOK, UnitStates
<1>6. /\ units' \in [Units -> UnitStates] /\ units'[c.unit].job = j
      /\ c.serial \in units'[c.unit].job_for
      /\ \A u \in Units \ {c.unit} : units'[u] = units[u]
    BY <1>1, <1>3, <1>4, <1>5 DEF UnitStates
<1> QED BY <1>1, <1>2, <1>4, <1>6, StartedKeeps

\* StartUnit for a unit that has a job.
LEMMA StartMergedKeeps ==
    ASSUME SInv, StartMerged
    PROVE  SInv'
<1> USE DEF SInv
<1>1. PICK c \in First(calls) :
          /\ Answer({"start"}, c, <<Started(c, FALSE, units[c.unit].job)>>)
          /\ units[c.unit].job # 0
          /\ units' = [units EXCEPT ![c.unit].job_for = @ \cup {c.serial}]
    BY DEF StartMerged
<1>2. UNCHANGED <<broker, object, attempt, n_jobs, failures, overlooked, reported>>
    BY DEF StartMerged
<1>3. /\ c.serial \in Serials /\ c.unit \in Units
  <2>1. c \in Calls
        BY InStreams DEF First
  <2> QED BY <2>1 DEF Calls
<1>4. units \in [Units -> UnitStates]
    BY DEF TypeOK, UnitStates
<1>5. PICK j \in Jobs : j = units[c.unit].job
    BY <1>1, <1>3, <1>4 DEF UnitStates
<1>6. /\ units' \in [Units -> UnitStates] /\ units'[c.unit].job = j
      /\ c.serial \in units'[c.unit].job_for
      /\ \A u \in Units \ {c.unit} : units'[u] = units[u]
    BY <1>1, <1>3, <1>4, <1>5 DEF UnitStates
<1> QED BY <1>1, <1>2, <1>5, <1>6, StartedKeeps

\* Signals are behind what is under way already, and are no replies.
Announced(n) ==
    /\ n \in Nat
    /\ Added(answers, answers', n)
    /\ \A k \in DOMAIN answers' : k > Len(answers) => ~IsReply(answers'[k])

\* The order of serials and calls does not depend on signals.
LEMMA SignalsKeepOrder ==
    ASSUME SInv, NEW n, Announced(n), answers' \in Seq(Messages),
           UNCHANGED <<broker, object, attempt, calls, n_jobs>>, failures \subseteq failures'
    PROVE  /\ StreamsOK' /\ Numbers' /\ SignalsAhead' /\ CallsInOrder' /\ RepliesBehind'
           /\ OneCall' /\ RefusalsAreFailures'
<1> USE DEF SInv
<1>1. UNCHANGED <<activation_ids, signals, service, service_ids, instance, last_serial,
                  active_unit, slot_start_unit, slot_watch_unit>>
    BY DEF broker, object, attempt
<1>2. Len(answers) \in Nat
    BY DEF StreamsOK
<1>3. \A k \in DOMAIN answers' :
          IsReply(answers'[k]) => k \in DOMAIN answers /\ answers'[k] = answers[k]
    BY <1>2 DEF Announced, Added
<1>4. StreamsOK'
    BY <1>1 DEF StreamsOK
<1>5. Numbers' /\ CallsInOrder'
    BY <1>1 DEF Numbers, CallsInOrder
<1>6. SignalsAhead'
    BY <1>1, <1>3 DEF SignalsAhead, IsReply
<1>7. RepliesBehind' /\ RefusalsAreFailures'
    BY <1>1, <1>3 DEF RepliesBehind, RefusalsAreFailures, IsReply
<1>8. OneCall'
    BY <1>1, <1>3 DEF OneCall, IsReply
<1> QED BY <1>4, <1>5, <1>6, <1>7, <1>8

\* What the launcher follows is still followed when units that are watched speak
\* of the watched start, and a job that ends announces it.
LEMMA StillFollowed ==
    ASSUME SInv, NEW n, Announced(n), failures \subseteq failures', UNCHANGED attempt,
           \A s \in Serials, u \in Units, k \in Nat :
               k <= Len(answers) /\ Watched(s, u, k) => Watched(s, u, k)',
           \A s \in Serials, u \in Units, j \in Jobs :
               Running(j, s, u) =>
                   \/ Running(j, s, u)'
                   \/ \E k \in DOMAIN answers' : Len(answers) < k /\ EndsAt(j, s, u, k)'
    PROVE  Followed'
<1> USE DEF SInv
<1>1. UNCHANGED <<last_serial, active_unit, job, slot_start_unit, slot_watch_unit,
                  slot_watch_jobs>>
    BY DEF attempt
<1>2. Len(answers) \in Nat /\ DOMAIN answers = 1 .. Len(answers)
    BY DEF StreamsOK
<1>3. \A k \in DOMAIN answers : k \in DOMAIN answers' /\ answers'[k] = answers[k]
    BY <1>2 DEF Announced, Added
<1>4. ASSUME NEW j \in Jobs, NEW s \in Serials, NEW u \in Units, NEW i \in Nat,
             i <= Len(answers), InHand(j, s, u, i)
      PROVE  InHand(j, s, u, i)'
  <2>1. CASE Running(j, s, u)
    <3>1. \/ Running(j, s, u)'
          \/ \E k \in DOMAIN answers' : Len(answers) < k /\ EndsAt(j, s, u, k)'
        BY <2>1
    <3>2. \A k \in DOMAIN answers' : Len(answers) < k => i < k
        BY <1>2, <1>4 DEF Announced, Added
    <3> QED BY <3>1, <3>2 DEF InHand
  <2>2. ASSUME NEW k \in DOMAIN answers, i < k, EndsAt(j, s, u, k)
        PROVE  InHand(j, s, u, i)'
    <3>1. k \in Nat /\ k <= Len(answers)
        BY <1>2
    <3>2. Watched(s, u, k)'
        BY <2>2, <3>1 DEF EndsAt
    <3>3. EndsAt(j, s, u, k)'
        BY <1>3, <2>2, <3>2 DEF EndsAt, Gone
    <3> QED BY <1>3, <2>2, <3>3 DEF InHand
  <2> QED BY <1>4, <2>1, <2>2 DEF InHand
<1>5. PICK s, u : s = last_serial /\ u = active_unit
    OBVIOUS
<1>6. slot_watch_unit # "none" => s \in Serials /\ u \in Units
    BY <1>5, ServiceAssumption DEF StageOK, TypeOK, Serials
<1>7. ASSUME slot_start_unit, NEW i \in DOMAIN answers', answers'[i].type = "started",
             answers'[i].serial = s, ~answers'[i].error, NEW a, a = answers'[i].job
      PROVE  a # 0 /\ InHand(a, s, u, i)'
  <2>1. i \in DOMAIN answers /\ answers'[i] = answers[i] /\ i \in Nat /\ i <= Len(answers)
        BY <1>2, <1>7 DEF Announced, Added, IsReply
  <2>2. a # 0 /\ InHand(a, s, u, i)
        BY <1>5, <1>7, <2>1 DEF Followed
  <2>3. a \in Jobs
        BY <1>7, <2>1, <2>2, InStreams, MessageFields
  <2>4. slot_watch_unit # "none"
        BY <1>7 DEF StageOK
  <2> QED BY <1>4, <1>6, <2>1, <2>2, <2>3, <2>4
<1>8. ASSUME job # 0
      PROVE  InHand(job, s, u, 0)'
  <2>1. job \in Jobs /\ slot_watch_unit # "none"
        BY <1>8 DEF TypeOK, StageOK
  <2>2. PICK j \in Jobs : j = job
        BY <2>1
  <2>3. InHand(j, s, u, 0)
        BY <1>5, <1>8, <2>2 DEF Followed
  <2>4. InHand(j, s, u, 0)'
        BY <1>2, <1>4, <1>6, <2>1, <2>3
  <2> QED BY <1>1, <2>2, <2>4
<1>9. ASSUME slot_watch_unit = "match", ~slot_watch_jobs
      PROVE  Watched(s, u, 0)'
  <2>1. Watched(s, u, 0)
        BY <1>5, <1>9 DEF Followed
  <2> QED BY <1>2, <1>6, <1>9, <2>1
<1>10. slot_start_unit' =>
           \A i \in DOMAIN answers' :
               answers'[i].type = "started" /\ answers'[i].serial = last_serial'
               /\ ~answers'[i].error =>
                   \E a : a = answers'[i].job /\ a # 0 /\ InHand(a, s, u, i)'
    BY <1>1, <1>5, <1>7
<1>11. (job # 0 => InHand(job, last_serial, active_unit, 0))'
    BY <1>1, <1>5, <1>8
<1>12. (slot_watch_unit = "match" /\ ~slot_watch_jobs => Watched(last_serial, active_unit, 0))'
    BY <1>1, <1>5, <1>9
<1> QED BY <1>1, <1>5, <1>10, <1>11, <1>12 DEF Followed

\* A job ends well: it is gone, and whoever it was for has the unit up.
LEMMA JobSucceedsKeeps ==
    ASSUME SInv, NEW u \in Units, JobSucceeds(u)
    PROVE  SInv'
<1> USE DEF SInv
<1>1. /\ units[u].job # 0
      /\ answers' = Append(answers, JobRemoved(units[u].job, "done"))
      /\ units' = [units EXCEPT ![u] = [job |-> 0, job_for |-> {}, up |-> TRUE,
                                       up_for |-> @.up_for \cup @.job_for]]
    BY DEF JobSucceeds
<1>2. UNCHANGED <<broker, object, attempt, calls, n_jobs, failures, overlooked, reported>>
    BY DEF JobSucceeds
<1>3. units \in [Units -> UnitStates]
    BY DEF TypeOK, UnitStates
<1>4. PICK j \in Jobs : j = units[u].job
    BY <1>1, <1>3 DEF UnitStates
<1>5. PICK m \in Messages : m = JobRemoved(j, "done")
    BY DEF Messages, JobRemoved
<1>6. m.type = "job_removed" /\ m.job = j /\ m.result = "done" /\ ~IsReply(m)
    BY <1>5 DEF JobRemoved, IsReply
<1>7. /\ answers' \in Seq(Messages) /\ Len(answers) \in Nat
      /\ Added(answers, answers', 1) /\ answers'[Len(answers) + 1] = m
  <2>1. answers \in Seq(Messages) /\ answers' = Append(answers, m)
        BY <1>1, <1>4, <1>5 DEF StreamsOK
  <2> QED BY <2>1, AddLast
<1>8. \A k \in DOMAIN answers' :
          \/ k \in DOMAIN answers /\ answers'[k] = answers[k]
          \/ k = Len(answers) + 1 /\ answers'[k] = m
    BY <1>7, AddedOne
<1>9. DOMAIN answers = 1 .. Len(answers)
    BY <1>7 DEF Added
<1>10. Announced(1)
    BY <1>6, <1>7, <1>8, <1>9 DEF Announced
<1>11. /\ units'[u].job = 0 /\ units'[u] \in UnitStates
       /\ units'[u].up_for = units[u].up_for \cup units[u].job_for
  <2>1. units'[u] = [job |-> 0, job_for |-> {}, up |-> TRUE,
                     up_for |-> units[u].up_for \cup units[u].job_for]
        BY <1>1, <1>3
  <2> QED BY <1>3, <2>1 DEF UnitStates
<1>12. \A v \in Units \ {u} : units'[v] = units[v]
    BY <1>1, <1>3
<1>13. TypeOK' /\ StageOK'
  <2>1. DOMAIN units' = Units /\ units' = [v \in Units |-> units'[v]]
        BY <1>1, <1>3
  <2>2. units' \in [Units -> UnitStates]
        BY <1>3, <1>11, <1>12, <2>1
  <2> QED BY <1>2, <2>2, TypesOfSystemd DEF TypeOK
<1>14. /\ StreamsOK' /\ Numbers' /\ SignalsAhead' /\ CallsInOrder' /\ RepliesBehind'
       /\ OneCall' /\ RefusalsAreFailures'
    BY <1>2, <1>7, <1>10, SignalsKeepOrder
<1>15. JobsDistinct'
  <2>1. \A k \in DOMAIN answers', g \in Jobs : Gone(g, k)' =>
            \/ k \in DOMAIN answers /\ Gone(g, k)
            \/ k = Len(answers) + 1 /\ g = j
        BY <1>6, <1>8 DEF Gone
  <2>2. \A k \in DOMAIN answers : ~Gone(j, k)
        BY <1>4 DEF JobsDistinct
  <2>3. \A v \in Units \ {u} : units'[v].job # j
        BY <1>1, <1>4, <1>12 DEF JobsDistinct
  <2>4. j <= n_jobs /\ j # 0
        BY <1>1, <1>4 DEF JobsDistinct
  <2>5. \A v \in Units : units'[v].job <= n_jobs
        BY <1>11, <1>12 DEF JobsDistinct, TypeOK, Jobs
  <2>6. \A v, w \in Units : units'[v].job = units'[w].job /\ units'[v].job # 0 => v = w
        BY <1>11, <1>12 DEF JobsDistinct
  <2>7. \A k \in DOMAIN answers', g \in Jobs : Gone(g, k)' =>
            /\ g <= n_jobs
            /\ \A v \in Units : units'[v].job # g
        BY <1>4, <1>11, <1>12, <2>1, <2>3, <2>4 DEF JobsDistinct, Jobs
  <2>8. \A k, l \in DOMAIN answers', g \in Jobs : Gone(g, k)' /\ Gone(g, l)' => k = l
        BY <2>1, <2>2 DEF JobsDistinct
  <2> QED BY <1>2, <2>5, <2>6, <2>7, <2>8 DEF JobsDistinct
<1>16. Followed'
  <2>1. ASSUME NEW s \in Serials, NEW v \in Units, NEW k \in Nat, k <= Len(answers),
               Watched(s, v, k)
        PROVE  Watched(s, v, k)'
    <3>1. v # u
        BY <1>1, <2>1 DEF Watched
    <3> QED BY <1>2, <1>6, <1>8, <1>12, <2>1, <3>1 DEF Watched
  <2>2. ASSUME NEW s \in Serials, NEW v \in Units, NEW g \in Jobs, Running(g, s, v)
        PROVE  \/ Running(g, s, v)'
               \/ \E k \in DOMAIN answers' : Len(answers) < k /\ EndsAt(g, s, v, k)'
    <3>1. CASE v # u
        BY <1>12, <2>2, <3>1 DEF Running
    <3>2. CASE v = u
      <4>1. g = j /\ s \in units[u].job_for
            BY <1>4, <2>2, <3>2 DEF Running
      <4>2. PICK e : e = Len(answers) + 1
            OBVIOUS
      <4>3. e \in DOMAIN answers' /\ Len(answers) < e /\ answers'[e] = m
            BY <1>7, <4>2 DEF Added
      <4>4. \A l \in DOMAIN answers' : ~(e < l)
            BY <1>7, <4>2 DEF Added
      <4>5. Watched(s, u, e)'
            BY <1>11, <4>1, <4>4 DEF Watched
      <4>6. EndsAt(g, s, u, e)'
            BY <1>6, <4>1, <4>3, <4>5 DEF EndsAt, Gone
      <4> QED BY <3>2, <4>3, <4>6
    <3> QED BY <3>1, <3>2
  <2> QED BY <1>2, <1>10, <2>1, <2>2, StillFollowed
<1>17. ResetsAreDeserved'
    BY <1>2 DEF ResetsAreDeserved
<1> QED BY <1>13, <1>14, <1>15, <1>16, <1>17

\* The end of the unit's job is announced at e, and beside it only the state of
\* that unit.
EndAnnounced(u, n, e) ==
    /\ answers' \in Seq(Messages)
    /\ Announced(n)
    /\ e \in DOMAIN answers' /\ Len(answers) < e
    /\ answers'[e].type = "job_removed" /\ answers'[e].job = units[u].job
    /\ \A k \in DOMAIN answers' :
           \/ k \in DOMAIN answers /\ answers'[k] = answers[k]
           \/ k = e
           \/ k # e /\ Len(answers) < k /\ answers'[k].type = "changed"
                     /\ answers'[k].unit = u

\* A job ends and its unit is not up: everyone it was for has failed, wherever
\* among what the unit says its end is announced.
LEMMA JobEndsKeeps ==
    ASSUME SInv, NEW u \in Units, NEW n, NEW e, EndAnnounced(u, n, e), units[u].job # 0, ~units[u].up,
           failures' = failures \cup units[u].job_for,
           overlooked' \in {overlooked, overlooked \cup units[u].job_for},
           units' = [units EXCEPT ![u].job = 0, ![u].job_for = {}],
           UNCHANGED <<broker, object, attempt, calls, n_jobs, reported>>
    PROVE  SInv'
<1> USE DEF SInv, EndAnnounced
<1>1. units \in [Units -> UnitStates]
    BY DEF TypeOK, UnitStates
<1>2. PICK j \in Jobs : j = units[u].job
    BY <1>1 DEF UnitStates
<1>3. /\ units'[u].job = 0 /\ ~units'[u].up /\ units' \in [Units -> UnitStates]
       /\ \A v \in Units \ {u} : units'[v] = units[v]
  <2>1. units'[u] = [units[u] EXCEPT !.job = 0, !.job_for = {}]
        BY <1>1
  <2>2. /\ DOMAIN units' = Units /\ units' = [v \in Units |-> units'[v]]
        /\ \A v \in Units \ {u} : units'[v] = units[v]
        BY <1>1
  <2>3. units'[u] \in UnitStates /\ units'[u].job = 0 /\ ~units'[u].up
    <3>1. units[u] \in UnitStates /\ ~units[u].up
        BY <1>1
    <3> QED BY ONLY <2>1, <3>1 DEF UnitStates
  <2> QED BY <1>1, <2>2, <2>3
<1>4. /\ failures \subseteq failures' /\ failures' \in SUBSET Serials
       /\ overlooked' \subseteq failures'
    BY <1>1 DEF UnitStates, TypeOK
<1>5. TypeOK' /\ StageOK'
    BY <1>3, <1>4, TypesOfSystemd DEF TypeOK
<1>6. /\ StreamsOK' /\ Numbers' /\ SignalsAhead' /\ CallsInOrder' /\ RepliesBehind'
       /\ OneCall' /\ RefusalsAreFailures'
    BY <1>4, SignalsKeepOrder
<1>7. JobsDistinct'
  <2>1. \A k \in DOMAIN answers', g \in Jobs : Gone(g, k)' =>
            \/ k \in DOMAIN answers /\ Gone(g, k)
            \/ k = e /\ g = j
    <3>1. \A k \in DOMAIN answers' :
              \/ k \in DOMAIN answers /\ answers'[k] = answers[k]
              \/ k = e /\ answers'[k].job = j
              \/ answers'[k].type = "changed"
        BY <1>2
    <3> QED BY ONLY <3>1 DEF Gone
  <2>2. \A k \in DOMAIN answers : ~Gone(j, k)
        BY <1>2 DEF JobsDistinct
  <2>3. \A v \in Units \ {u} : units'[v].job # j
        BY <1>2, <1>3 DEF JobsDistinct
  <2>4. j <= n_jobs /\ j # 0
        BY <1>2 DEF JobsDistinct
  <2>5. \A v \in Units : units'[v].job <= n_jobs
        BY <1>3 DEF JobsDistinct, TypeOK, Jobs
  <2>6. \A v, w \in Units : units'[v].job = units'[w].job /\ units'[v].job # 0 => v = w
        BY <1>3 DEF JobsDistinct
  <2>7. \A k \in DOMAIN answers', g \in Jobs : Gone(g, k)' =>
            /\ g <= n_jobs
            /\ \A v \in Units : units'[v].job # g
        BY <1>2, <1>3, <2>1, <2>3, <2>4 DEF JobsDistinct, Jobs
  <2>8. \A k, l \in DOMAIN answers', g \in Jobs : Gone(g, k)' /\ Gone(g, l)' => k = l
        BY <2>1, <2>2 DEF JobsDistinct
  <2>9. n_jobs' = n_jobs
        OBVIOUS
  <2> QED BY ONLY <2>5, <2>6, <2>7, <2>8, <2>9 DEF JobsDistinct
<1>8. Followed'
  <2>1. ASSUME NEW s \in Serials, NEW v \in Units, NEW k \in Nat, k <= Len(answers),
               Watched(s, v, k)
        PROVE  Watched(s, v, k)'
    <3>1. v # u
        BY <2>1 DEF Watched
    <3>2. ASSUME NEW l \in DOMAIN answers', k < l, answers'[l].type = "changed",
                 answers'[l].unit = v, Negative(answers'[l])
          PROVE  s \in failures'
        BY <1>4, <2>1, <3>1, <3>2 DEF Watched
    <3>3. units'[v].job = 0 /\ (units'[v].up => s \in units'[v].up_for)
        BY <1>3, <2>1, <3>1 DEF Watched
    <3> QED BY <3>2, <3>3 DEF Watched
  <2>2. ASSUME NEW s \in Serials, NEW v \in Units, NEW g \in Jobs, Running(g, s, v)
        PROVE  \/ Running(g, s, v)'
               \/ \E k \in DOMAIN answers' : Len(answers) < k /\ EndsAt(g, s, v, k)'
    <3>1. CASE v # u
        BY <1>3, <2>2, <3>1 DEF Running
    <3>2. CASE v = u
      <4>1. g = j /\ s \in failures'
            BY <1>2, <2>2, <3>2 DEF Running
      <4>2. Watched(s, u, e)'
            BY <1>3, <4>1 DEF Watched
      <4>3. Gone(g, e)'
            BY <1>2, <4>1 DEF Gone
      <4>4. EndsAt(g, s, u, e)'
            BY ONLY <4>1, <4>2, <4>3 DEF EndsAt
      <4> QED BY <3>2, <4>4
    <3> QED BY <3>1, <3>2
  <2> QED BY <1>4, <2>1, <2>2, StillFollowed
<1>9. ResetsAreDeserved'
    BY <1>4 DEF ResetsAreDeserved
<1> QED BY <1>5, <1>6, <1>7, <1>8, <1>9

\* Two signals, the end of a job and the state of its unit, in either order.
LEMMA TwoAnnounced ==
    ASSUME NEW u, NEW m \in Messages, NEW f \in Messages, ~IsReply(m), ~IsReply(f),
           m.type = "job_removed", m.job = units[u].job, f.type = "changed", f.unit = u,
           answers \in Seq(Messages),
           answers' = answers \o <<m, f>> \/ answers' = answers \o <<f, m>>
    PROVE  \E e : EndAnnounced(u, 2, e)
<1>1. /\ answers' \in Seq(Messages) /\ Len(answers) \in Nat
      /\ Added(answers, answers', 2)
      /\ \/ answers'[Len(answers) + 1] = m /\ answers'[Len(answers) + 2] = f
         \/ answers'[Len(answers) + 1] = f /\ answers'[Len(answers) + 2] = m
  <2>1. CASE answers' = answers \o <<m, f>>
        BY <2>1, AddTwo
  <2>2. CASE answers' = answers \o <<f, m>>
        BY <2>2, AddTwo
  <2> QED BY <2>1, <2>2
<1>2. PICK e \in {Len(answers) + 1, Len(answers) + 2} :
          /\ answers'[e] = m
          /\ \A k \in {Len(answers) + 1, Len(answers) + 2} : k # e => answers'[k] = f
    BY <1>1
<1>3. \A k \in DOMAIN answers' :
          \/ k \in DOMAIN answers /\ answers'[k] = answers[k]
          \/ k = e
          \/ k # e /\ Len(answers) < k /\ answers'[k] = f
    BY <1>1, <1>2 DEF Added
<1>4. e \in DOMAIN answers' /\ Len(answers) < e
    BY <1>1, <1>2 DEF Added
<1>5. DOMAIN answers = 1 .. Len(answers)
    BY <1>1 DEF Added
<1>6. Announced(2)
    BY <1>1, <1>2, <1>3, <1>5 DEF Announced
<1> QED BY <1>1, <1>2, <1>3, <1>4, <1>6 DEF EndAnnounced

\* A job fails: the unit says so before or after its end.
LEMMA JobFailedKeeps ==
    ASSUME SInv, NEW u \in Units, JobFailed(u)
    PROVE  SInv'
<1>1. PICK j, m, f :
          /\ j = units[u].job /\ m = JobRemoved(j, "failed")
          /\ f = PropertiesChanged(u, "failed", TRUE)
          /\ answers' = answers \o <<m, f>> \/ answers' = answers \o <<f, m>>
    BY DEF JobFailed
<1>2. /\ units[u].job # 0 /\ ~units[u].up
      /\ failures' = failures \cup units[u].job_for
      /\ units' = [units EXCEPT ![u].job = 0, ![u].job_for = {}]
      /\ UNCHANGED <<broker, object, attempt, calls, n_jobs, overlooked, reported>>
    BY DEF JobFailed
<1>3. j \in Jobs
    BY <1>1, <1>2 DEF SInv, TypeOK
<1>4. m \in Messages /\ f \in Messages
    BY <1>1, <1>3 DEF Messages, JobRemoved, PropertiesChanged
<1>5. /\ m.type = "job_removed" /\ m.job = j /\ ~IsReply(m)
      /\ f.type = "changed" /\ f.unit = u /\ ~IsReply(f)
    BY <1>1 DEF JobRemoved, PropertiesChanged, IsReply
<1>6. PICK e : EndAnnounced(u, 2, e)
    BY <1>1, <1>4, <1>5, TwoAnnounced DEF SInv, StreamsOK
<1> QED BY <1>2, <1>6, JobEndsKeeps

\* A job ends and its unit was not started.
LEMMA JobSkippedKeeps ==
    ASSUME SInv, NEW u \in Units, JobSkipped(u)
    PROVE  SInv'
<1>1. PICK j, d, m, f :
          /\ j = units[u].job /\ d = JobRemoved(j, "done") /\ m = JobRemoved(j, "skipped")
          /\ f = PropertiesChanged(u, "inactive", FALSE)
          /\ \/ answers' = answers \o <<d, f>>
             \/ answers' = answers \o <<f, d>>
             \/ answers' = answers \o <<m>>
    BY DEF JobSkipped
<1>2. /\ units[u].job # 0 /\ ~units[u].up
      /\ failures' = failures \cup units[u].job_for
      /\ overlooked' \in {overlooked, overlooked \cup units[u].job_for}
      /\ units' = [units EXCEPT ![u].job = 0, ![u].job_for = {}]
      /\ UNCHANGED <<broker, object, attempt, calls, n_jobs, reported>>
    BY DEF JobSkipped
<1>3. j \in Jobs
    BY <1>1, <1>2 DEF SInv, TypeOK
<1>4. m \in Messages /\ d \in Messages /\ f \in Messages
    BY <1>1, <1>3 DEF Messages, JobRemoved, PropertiesChanged
<1>5. /\ d.type = "job_removed" /\ d.job = j /\ ~IsReply(d)
      /\ m.type = "job_removed" /\ m.job = j /\ ~IsReply(m)
      /\ f.type = "changed" /\ f.unit = u /\ ~IsReply(f)
    BY <1>1 DEF JobRemoved, PropertiesChanged, IsReply
<1>6. CASE answers' = answers \o <<d, f>> \/ answers' = answers \o <<f, d>>
  <2>1. PICK e : EndAnnounced(u, 2, e)
        BY <1>1, <1>4, <1>5, <1>6, TwoAnnounced DEF SInv, StreamsOK
  <2> QED BY <1>2, <2>1, JobEndsKeeps
<1>7. CASE answers' = answers \o <<m>>
  <2>1. /\ answers' \in Seq(Messages) /\ Len(answers) \in Nat
        /\ Added(answers, answers', 1) /\ answers'[Len(answers) + 1] = m
    <3>1. answers \in Seq(Messages)
        BY DEF SInv, StreamsOK
    <3> QED BY <1>4, <1>7, <3>1, AddOne
  <2>2. PICK e : e = Len(answers) + 1
        OBVIOUS
  <2>3. \A k \in DOMAIN answers' :
            \/ k \in DOMAIN answers /\ answers'[k] = answers[k]
            \/ k = e /\ answers'[k] = m
        BY <2>1, <2>2, AddedOne
  <2>4. e \in DOMAIN answers' /\ Len(answers) < e /\ answers'[e] = m
        BY <2>1, <2>2 DEF Added
  <2>5. DOMAIN answers = 1 .. Len(answers)
        BY <2>1 DEF Added
  <2>6. Announced(1)
        BY <1>5, <2>1, <2>3, <2>5 DEF Announced
  <2>7. EndAnnounced(u, 1, e)
        BY <1>1, <1>5, <2>1, <2>3, <2>4, <2>6 DEF EndAnnounced
  <2> QED BY <1>2, <2>7, JobEndsKeeps
<1> QED BY <1>1, <1>6, <1>7

\* A unit that is up fails: so has everyone it came up for.
LEMMA UnitFailedKeeps ==
    ASSUME SInv, NEW u \in Units, UnitFailed(u)
    PROVE  SInv'
<1> USE DEF SInv
<1>1. /\ units[u].up
      /\ answers' = Append(answers, PropertiesChanged(u, "failed", TRUE))
      /\ failures' = failures \cup units[u].up_for
      /\ units' = [units EXCEPT ![u].up = FALSE, ![u].up_for = {}]
    BY DEF UnitFailed
<1>2. UNCHANGED <<broker, object, attempt, calls, n_jobs, overlooked, reported>>
    BY DEF UnitFailed
<1>3. units \in [Units -> UnitStates]
    BY DEF TypeOK, UnitStates
<1>4. PICK f \in Messages : f = PropertiesChanged(u, "failed", TRUE)
    BY DEF Messages, PropertiesChanged
<1>5. f.type = "changed" /\ f.unit = u /\ ~IsReply(f)
    BY <1>4 DEF PropertiesChanged, IsReply
<1>6. /\ answers' \in Seq(Messages) /\ Len(answers) \in Nat
      /\ Added(answers, answers', 1) /\ answers'[Len(answers) + 1] = f
  <2>1. answers \in Seq(Messages) /\ answers' = Append(answers, f)
        BY <1>1, <1>4 DEF StreamsOK
  <2> QED BY <2>1, AddLast
<1>7. \A k \in DOMAIN answers' :
          \/ k \in DOMAIN answers /\ answers'[k] = answers[k]
          \/ k = Len(answers) + 1 /\ answers'[k] = f
    BY <1>6, AddedOne
<1>8. Announced(1)
  <2>1. DOMAIN answers = 1 .. Len(answers)
        BY <1>6 DEF Added
  <2> QED BY <1>5, <1>6, <1>7, <2>1 DEF Announced
<1>9. /\ units' \in [Units -> UnitStates] /\ ~units'[u].up
      /\ \A v \in Units : units'[v].job = units[v].job /\ units'[v].job_for = units[v].job_for
      /\ \A v \in Units \ {u} : units'[v] = units[v]
  <2>1. units'[u] = [units[u] EXCEPT !.up = FALSE, !.up_for = {}]
        BY <1>1, <1>3
  <2>2. /\ DOMAIN units' = Units /\ units' = [v \in Units |-> units'[v]]
        /\ \A v \in Units \ {u} : units'[v] = units[v]
        BY <1>1, <1>3
  <2>3. /\ units'[u] \in UnitStates /\ ~units'[u].up
        /\ units'[u].job = units[u].job /\ units'[u].job_for = units[u].job_for
    <3>1. units[u] \in UnitStates
        BY <1>3
    <3> QED BY <2>1, <3>1 DEF UnitStates
  <2> QED BY <1>3, <2>2, <2>3
<1>10. failures \subseteq failures' /\ failures' \in SUBSET Serials
    BY <1>1, <1>3 DEF UnitStates, TypeOK
<1>11. TypeOK' /\ StageOK'
    BY <1>2, <1>9, <1>10, TypesOfSystemd DEF TypeOK
<1>12. /\ StreamsOK' /\ Numbers' /\ SignalsAhead' /\ CallsInOrder' /\ RepliesBehind'
       /\ OneCall' /\ RefusalsAreFailures'
    BY <1>2, <1>6, <1>8, <1>10, SignalsKeepOrder
<1>13. JobsDistinct'
    BY <1>2, <1>5, <1>6, <1>9, JobsStayDistinct
<1>14. Followed'
  <2>1. ASSUME NEW s \in Serials, NEW v \in Units, NEW k \in Nat, k <= Len(answers),
               Watched(s, v, k)
        PROVE  Watched(s, v, k)'
    <3>1. v = u => s \in failures'
        BY <1>1, <2>1 DEF Watched
    <3>2. ASSUME NEW l \in DOMAIN answers', k < l, answers'[l].type = "changed",
                 answers'[l].unit = v, Negative(answers'[l])
          PROVE  s \in failures'
        BY <1>5, <1>7, <1>10, <2>1, <3>1, <3>2 DEF Watched
    <3>3. units'[v].job = 0 /\ (units'[v].up => s \in units'[v].up_for)
        BY <1>9, <2>1 DEF Watched
    <3> QED BY <3>2, <3>3 DEF Watched
  <2>2. ASSUME NEW s \in Serials, NEW v \in Units, NEW g \in Jobs, Running(g, s, v)
        PROVE  Running(g, s, v)'
        BY <1>9, <2>2 DEF Running
  <2> QED BY <1>2, <1>8, <1>10, <2>1, <2>2, StillFollowed
<1>15. ResetsAreDeserved'
    BY <1>2, <1>10 DEF ResetsAreDeserved
<1> QED BY <1>11, <1>12, <1>13, <1>14, <1>15

\* A unit stops in good order, which nobody takes for a failure.
LEMMA UnitStoppedKeeps ==
    ASSUME SInv, NEW u \in Units, UnitStopped(u)
    PROVE  SInv'
<1> USE DEF SInv
<1>1. /\ units[u].up
      /\ answers' = Append(answers, PropertiesChanged(u, "inactive", TRUE))
      /\ failures' = failures
      /\ units' = [units EXCEPT ![u].up = FALSE, ![u].up_for = {}]
    BY DEF UnitStopped
<1>2. UNCHANGED <<broker, object, attempt, calls, n_jobs, overlooked, reported>>
    BY DEF UnitStopped
<1>3. units \in [Units -> UnitStates]
    BY DEF TypeOK, UnitStates
<1>4. PICK f \in Messages : f = PropertiesChanged(u, "inactive", TRUE)
    BY DEF Messages, PropertiesChanged
<1>5. f.type = "changed" /\ f.unit = u /\ ~Negative(f) /\ ~IsReply(f)
    BY <1>4 DEF PropertiesChanged, Negative, IsReply
<1>6. /\ answers' \in Seq(Messages) /\ Len(answers) \in Nat
      /\ Added(answers, answers', 1) /\ answers'[Len(answers) + 1] = f
  <2>1. answers \in Seq(Messages) /\ answers' = Append(answers, f)
        BY <1>1, <1>4 DEF StreamsOK
  <2> QED BY <2>1, AddLast
<1>7. \A k \in DOMAIN answers' :
          \/ k \in DOMAIN answers /\ answers'[k] = answers[k]
          \/ k = Len(answers) + 1 /\ answers'[k] = f
    BY <1>6, AddedOne
<1>8. Announced(1)
  <2>1. DOMAIN answers = 1 .. Len(answers)
        BY <1>6 DEF Added
  <2> QED BY <1>5, <1>6, <1>7, <2>1 DEF Announced
<1>9. /\ units' \in [Units -> UnitStates] /\ ~units'[u].up
      /\ \A v \in Units : units'[v].job = units[v].job /\ units'[v].job_for = units[v].job_for
      /\ \A v \in Units \ {u} : units'[v] = units[v]
  <2>1. units'[u] = [units[u] EXCEPT !.up = FALSE, !.up_for = {}]
        BY <1>1, <1>3
  <2>2. /\ DOMAIN units' = Units /\ units' = [v \in Units |-> units'[v]]
        /\ \A v \in Units \ {u} : units'[v] = units[v]
        BY <1>1, <1>3
  <2>3. /\ units'[u] \in UnitStates /\ ~units'[u].up
        /\ units'[u].job = units[u].job /\ units'[u].job_for = units[u].job_for
    <3>1. units[u] \in UnitStates
        BY <1>3
    <3> QED BY <2>1, <3>1 DEF UnitStates
  <2> QED BY <1>3, <2>2, <2>3
<1>10. failures \subseteq failures' /\ failures' \in SUBSET Serials
    BY <1>1, <1>3 DEF UnitStates, TypeOK
<1>11. TypeOK' /\ StageOK'
    BY <1>2, <1>9, <1>10, TypesOfSystemd DEF TypeOK
<1>12. /\ StreamsOK' /\ Numbers' /\ SignalsAhead' /\ CallsInOrder' /\ RepliesBehind'
       /\ OneCall' /\ RefusalsAreFailures'
    BY <1>2, <1>6, <1>8, <1>10, SignalsKeepOrder
<1>13. JobsDistinct'
    BY <1>2, <1>5, <1>6, <1>9, JobsStayDistinct
<1>14. Followed'
  <2>1. ASSUME NEW s \in Serials, NEW v \in Units, NEW k \in Nat, k <= Len(answers),
               Watched(s, v, k)
        PROVE  Watched(s, v, k)'
    <3>1. ASSUME NEW l \in DOMAIN answers', k < l, answers'[l].type = "changed",
                 answers'[l].unit = v, Negative(answers'[l])
          PROVE  s \in failures'
        BY <1>5, <1>7, <1>10, <2>1, <3>1 DEF Watched
    <3>2. units'[v].job = 0 /\ (units'[v].up => s \in units'[v].up_for)
        BY <1>9, <2>1 DEF Watched
    <3> QED BY <3>1, <3>2 DEF Watched
  <2>2. ASSUME NEW s \in Serials, NEW v \in Units, NEW g \in Jobs, Running(g, s, v)
        PROVE  Running(g, s, v)'
        BY <1>9, <2>2 DEF Running
  <2> QED BY <1>2, <1>8, <1>10, <2>1, <2>2, StillFollowed
<1>15. ResetsAreDeserved'
    BY <1>2, <1>10 DEF ResetsAreDeserved
<1> QED BY <1>11, <1>12, <1>13, <1>14, <1>15

-----------------------------------------------------------------------------
\* The launcher has just started: nothing is under way.
LEMMA ServiceStarts == Init => SInv
<1> SUFFICES ASSUME Init
             PROVE  SInv
    OBVIOUS
<1> USE DEF Init
<1>1. TypeOK
  <2>1. signals = <<>> /\ DOMAIN signals = {}
        OBVIOUS
  <2>2. units \in [Units -> [job : {0} \cup Jobs, job_for : SUBSET Serials,
                             up : BOOLEAN, up_for : SUBSET Serials]]
        OBVIOUS
  <2>3. /\ pending \in 0 .. MaxSerial /\ activation_ids \in 0 .. MaxSerial
        /\ service \in 0 .. MaxServices /\ service_ids \in 0 .. MaxServices
        /\ instance \in 0 .. MaxSerial /\ last_serial \in 0 .. MaxSerial
        BY ServiceAssumption
  <2> QED BY <2>1, <2>2, <2>3 DEF TypeOK
<1>2. StreamsOK
    BY DEF StreamsOK
<1>3. StageOK
    BY DEF StageOK, NoUnit, FileUnit
<1>4. Numbers /\ SignalsAhead /\ CallsInOrder /\ RepliesBehind /\ OneCall
    BY DEF Numbers, SignalsAhead, CallsInOrder, RepliesBehind, OneCall
<1>5. JobsDistinct /\ RefusalsAreFailures
    BY DEF JobsDistinct, RefusalsAreFailures
<1>6. Followed /\ ResetsAreDeserved
    BY DEF Followed, ResetsAreDeserved
<1> QED BY <1>1, <1>2, <1>3, <1>4, <1>5, <1>6 DEF SInv

\* One step of any of the three parties.
LEMMA ServiceStep ==
    ASSUME SInv, [Next]_vars
    PROVE  SInv'
<1>1. CASE BrokerRequests \/ NameActivated
    BY <1>1, BrokerRequestsKeeps, NameActivatedKeeps
<1>2. CASE ActivateUnknown \/ ActivateSelf \/ Activate
    BY <1>2, ActivateUnknownKeeps, ActivateSelfKeeps, ActivateKeeps
<1>3. CASE Dispatch
    BY <1>3, UnitLoadedKeeps, UnitStartingKeeps, CallFailsKeeps, JobDoneKeeps,
       JobFailsKeeps, UnitFailsKeeps, IgnoredKeeps DEF Dispatch
<1>4. CASE ReloadAdds \/ ReloadUpdates \/ ReloadRemoves
    BY <1>4, ReloadAddsKeeps, ReloadUpdatesKeeps, ReloadRemovesKeeps
<1>5. CASE Load \/ StartRefused \/ Start \/ StartMerged
    BY <1>5, LoadKeeps, StartRefusedKeeps, StartKeeps, StartMergedKeeps
<1>6. ASSUME NEW u \in Units,
             \/ JobSucceeds(u) \/ JobSkipped(u) \/ JobFailed(u)
             \/ UnitFailed(u) \/ UnitStopped(u)
      PROVE  SInv'
    BY <1>6, JobSucceedsKeeps, JobSkippedKeeps, JobFailedKeeps, UnitFailedKeeps,
       UnitStoppedKeeps
<1>7. CASE UNCHANGED vars
  <2> USE <1>7 DEF vars, broker, object, attempt, systemd, SInv
  <2>1. TypeOK' /\ StreamsOK' /\ StageOK'
        BY DEF TypeOK, StreamsOK, StageOK
  <2>2. Numbers' /\ SignalsAhead' /\ CallsInOrder' /\ RepliesBehind'
        BY DEF Numbers, SignalsAhead, CallsInOrder, RepliesBehind, IsReply
  <2>3. OneCall' /\ JobsDistinct' /\ RefusalsAreFailures'
        BY DEF OneCall, JobsDistinct, RefusalsAreFailures, IsReply, Gone
  <2>4. Followed' /\ ResetsAreDeserved'
        BY DEF Followed, InHand, Running, EndsAt, Gone, Watched, ResetsAreDeserved
  <2> QED BY <2>1, <2>2, <2>3, <2>4
<1> QED BY <1>1, <1>2, <1>3, <1>4, <1>5, <1>6, <1>7 DEF Next, Systemd

\* The invariant holds whatever the three parties do.
THEOREM ServiceInvariant == Spec => []SInv
<1>1. Init => SInv
    BY ServiceStarts
<1>2. SInv /\ [Next]_vars => SInv'
    BY ServiceStep
<1> QED BY <1>1, <1>2, PTL DEF Spec

\* An activation is in one of its stages, with the slots, the unit and the job of
\* that stage, and the job is one that systemd runs for it, or whose end is on
\* its way: what service_watch_jobs(), service_watch_unit() and the handlers
\* assert or rely on.
THEOREM ServiceIsSound == Spec => []ServiceSound
<1>1. SInv => ServiceSound
  <2> SUFFICES ASSUME SInv
               PROVE  ServiceSound
      OBVIOUS
  <2> USE DEF SInv
  <2>1. <<slot_watch_unit, slot_start_unit, slot_watch_jobs, job # 0>> \in
           {<<"none", FALSE, FALSE, FALSE>>,
            <<"load", FALSE, TRUE, FALSE>>,
            <<"match", TRUE, TRUE, FALSE>>,
            <<"match", FALSE, TRUE, TRUE>>,
            <<"match", FALSE, FALSE, FALSE>>}
    <3>1. slot_start_unit \in BOOLEAN /\ slot_watch_jobs \in BOOLEAN
        BY DEF TypeOK
    <3> QED BY <3>1 DEF StageOK
  <2>2. job # 0 =>
            \/ units[active_unit].job = job /\ last_serial \in units[active_unit].job_for
            \/ \E i \in DOMAIN answers :
                   answers[i].type = "job_removed" /\ answers[i].job = job
        BY DEF Followed, InHand, Running, EndsAt, Gone
  <2> QED BY <2>1, <2>2 DEF ServiceSound, StageOK
<1> QED BY <1>1, ServiceInvariant, PTL

\* An activation is reported as failed only if it did fail, whatever older
\* activations, jobs, units and services leave behind.
THEOREM OnlyFailuresReset == Spec => []ResetsAreDeserved
<1>1. SInv => ResetsAreDeserved
    BY DEF SInv
<1> QED BY <1>1, ServiceInvariant, PTL

=============================================================================
