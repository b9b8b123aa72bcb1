---------------------------- MODULE ControlProofs ----------------------------
(***************************************************************************)
(* Proofs about Control, for any files, directories, peers and serials.    *)
(*                                                                         *)
(* While both processes live, the queues between them hold at most one     *)
(* call or its reply, and every reload is in one place (FlowInv).  Upon    *)
(* this the names of the broker follow the services of the launcher        *)
(* (NameInv), its policy the one read last (PolicyInv), and the services   *)
(* what was on disk when a directory was read, unless inotify knows better *)
(* or the directory came or went unnoticed (DiskInv).                      *)
(***************************************************************************)
EXTENDS Control, CollectionLemmas

-----------------------------------------------------------------------------
(* The invariants *)

\* Both processes are there.
Live == Running /\ phase # "exit"

\* What the broker remembers of the requests of its peers.
AnswerInv ==
    /\ events \in Nat
    /\ peer_ids \in Nat /\ DOMAIN peers \subseteq Peers
    /\ senders \in Seq(Peers) /\ Len(senders) <= MaxInputs
    /\ answered \in [Requests -> {0, 1}]
    /\ \A s, t \in DOMAIN reloads : reloads[s] = reloads[t] => s = t
    /\ \A s \in DOMAIN reloads : /\ reloads[s] \in 1 .. Len(senders)
                                 /\ answered[reloads[s]] = 0
    /\ \A r \in Requests : r > Len(senders) => answered[r] = 0

\* Messages: calls and answers, replies and requests for a reload.
Calls == {"AddName", "Release", "AddListener", "AddMetrics", "SetPolicy"}
Replies == {"ok", "refused"}
Verdicts == {"return", "invalid", "failed"}
ToBroker ==
    [type : Verdicts, serial : Serials]
    \cup [type : {"AddName"}, id : Nat, name : Names]
    \cup [type : {"Release"}, id : Nat]
    \cup [type : {"AddListener", "SetPolicy"}, policy : Nat]
    \cup [type : {"AddMetrics"}]
ToLauncher == [type : Replies] \cup [type : {"ReloadConfig"}, serial : Serials]

\* None or one of the messages of a queue has a type in T.
NoneOf(q, T) == \A i \in 1 .. Len(q) : q[i].type \notin T
OneOf(q, T) ==
    \E i \in 1 .. Len(q) :
        q[i].type \in T /\ \A j \in 1 .. Len(q) : q[j].type \in T => j = i

\* The reloads a queue carries, each once.
Carries(m) == m.type \in {"ReloadConfig", "return", "invalid", "failed"}
Carried(q) == {q[i].serial : i \in {j \in 1 .. Len(q) : Carries(q[j])}}
CarriesOnce(q) ==
    \A i, j \in 1 .. Len(q) :
        Carries(q[i]) /\ Carries(q[j]) /\ q[i].serial = q[j].serial => i = j

QueuesOK == to_broker \in Seq(ToBroker) /\ to_launcher \in Seq(ToLauncher)

\* What launcher_reload_config() is at, for whom, and whether it waits.
PhaseInv ==
    /\ cause \in Serials \cup {Start, Sighup, Dirwatch}
    /\ phase \in {"idle", "dir", "loaded", "remove", "policy", "add", "listener", "metrics"}
    /\ waiting \in BOOLEAN
    /\ phase \in {"idle", "listener", "metrics"} => cause = Start
    /\ phase \in {"dir", "loaded", "remove", "policy"} => cause # Start
    /\ phase \in {"idle", "dir", "loaded"} => ~waiting
    /\ phase \in {"policy", "listener"} => waiting

\* While the launcher waits there is its call or the reply to it, and otherwise
\* neither.
CallInv ==
    /\ ~waiting => NoneOf(to_broker, Calls) /\ NoneOf(to_launcher, Replies)
    /\ waiting => \/ OneOf(to_broker, Calls) /\ NoneOf(to_launcher, Replies)
                  \/ NoneOf(to_broker, Calls) /\ OneOf(to_launcher, Replies)

\* Every reload is in one place.
CarryInv ==
    /\ serial \in 0 .. SerialSpace - 1
    /\ CarriesOnce(to_broker) /\ CarriesOnce(to_launcher)
    /\ Carried(to_broker) \cap Carried(to_launcher) = {}
    /\ cause \notin Carried(to_broker) \cup Carried(to_launcher)
    /\ DOMAIN reloads = Carried(to_broker) \cup Carried(to_launcher) \cup ({cause} \cap Serials)
    /\ DOMAIN reloads \subseteq Serials

FlowInv == QueuesOK /\ PhaseInv /\ CallInv /\ CarryInv

\* Services have an id each.
Service == [id : Nat, running : BOOLEAN, tag : BOOLEAN, dir : Nat]
ServicesOK ==
    /\ services \in [Names -> Service]
    /\ service_ids \in Nat
    /\ \A n \in Names : /\ services[n].id <= service_ids
                        /\ services[n].running \/ services[n].tag => services[n].id # 0
    /\ \A m, n \in Names : services[m].id = services[n].id /\ services[n].id # 0 => m = n

\* What is to be removed and to be added next among services s.
LeastOf(s, S) == CHOOSE n \in S : \A o \in S : s[n].id <= s[o].id
OutdatedOf(s) == {n \in Names : s[n].id # 0 /\ ~s[n].tag}
IdlingOf(s) == {n \in Names : s[n].id # 0 /\ ~s[n].running}
ToRemove(s) == LeastOf(s, OutdatedOf(s))
ToAdd(s) == LeastOf(s, IdlingOf(s))

\* The call a launcher at p makes, with the policy v and the services s, and its
\* services once the call has succeeded.
Expected(p, v, s) ==
    CASE p = "remove" -> [type |-> "Release", id |-> s[ToRemove(s)].id]
      [] p = "policy" -> [type |-> "SetPolicy", policy |-> v]
      [] p = "add" -> [type |-> "AddName", id |-> s[ToAdd(s)].id, name |-> ToAdd(s)]
      [] p = "listener" -> [type |-> "AddListener", policy |-> v]
      [] OTHER -> [type |-> "AddMetrics"]
Acknowledged(p, s) ==
    IF p = "remove" THEN [s EXCEPT ![ToRemove(s)] = NoService]
    ELSE IF p = "add" THEN [s EXCEPT ![ToAdd(s)].running = TRUE]
    ELSE s

\* Any call in a queue is m.
OnlyCall(q, m) == \A i \in 1 .. Len(q) : q[i].type \in Calls => q[i] = m

ExpectInv ==
    waiting =>
        /\ phase = "remove" => /\ OutdatedOf(services) # {}
                               /\ services[ToRemove(services)].running
        /\ phase = "add" => IdlingOf(services) # {}
        /\ OnlyCall(to_broker, Expected(phase, policy, services))

\* The names nm of a broker are those of the running services s.
Agree(nm, s) ==
    /\ nm = [i \in DOMAIN nm |-> nm[i]]
    /\ DOMAIN nm = {s[n].id : n \in {m \in Names : s[m].running}}
    /\ \A n \in Names : s[n].running => nm[s[n].id] = n

Confirmed == waiting /\ Found(to_launcher, "ok")

NameInv ==
    /\ ServicesOK
    /\ ExpectInv
    /\ Confirmed => Agree(names, Acknowledged(phase, services))
    /\ ~Confirmed => Agree(names, services)

\* The broker has the policy read last.
Settled == phase = "idle" /\ applied
UpToDate ==
    \/ Settled
    \/ phase = "add" /\ cause # Start
    \/ phase \in {"policy", "listener"} /\ Confirmed
    \/ phase = "metrics"

PolicyInv ==
    /\ policy \in Nat /\ listener \in Nat \cup {NoListener}
    /\ listener = NoListener =>
          /\ DOMAIN peers = {}
          /\ cause = Start
          /\ phase = "add" \/ (phase = "listener" /\ ~Confirmed)
    /\ ~Zephyr /\ UpToDate =>
          listener = policy /\ \A p \in DOMAIN peers : peers[p] = policy

\* The directories opened and those read so far, and what was found in them.
Opened == IF phase = "dir" THEN {e \in DOMAIN Dirs : 2 * e <= at} ELSE DOMAIN Dirs
Covered == IF phase = "dir" THEN {e \in DOMAIN Dirs : 2 * e < at} ELSE DOMAIN Dirs
Reflected(n) ==
    /\ services[n].tag => /\ services[n].dir \in Covered
                          /\ services[n].dir \in unnoticed \/ n \in Seen(services[n].dir)
    /\ \A e \in Covered \ unnoticed :
           n \in Seen(e) => services[n].tag /\ services[n].dir <= e

DiskInv ==
    /\ disk \in [DOMAIN Dirs -> SUBSET Names]
    /\ inotify \in BOOLEAN /\ applied \in BOOLEAN
    /\ phase = "dir" => at \in 1 .. 2 * Len(Dirs) /\ watched \subseteq Opened
    /\ phase \in {"policy", "add", "listener", "metrics"} \/ Settled => Outdated = {}
    /\ phase \in {"listener", "metrics"} \/ Settled => Idling = {}
    /\ ~inotify /\ (phase # "idle" \/ applied) =>
          /\ \A e \in Opened \ unnoticed : e \in watched <=> e \in open
          /\ \A n \in Names : Reflected(n)

-----------------------------------------------------------------------------
(* Queues *)

\* One message more.
LEMMA QueueAppend ==
    ASSUME NEW A, NEW q \in Seq(A), NEW x \in A, NEW r, r = Append(q, x)
    PROVE  /\ r \in Seq(A)
           /\ Carried(r) = IF Carries(x) THEN Carried(q) \cup {x.serial} ELSE Carried(q)
           /\ CarriesOnce(q) /\ (Carries(x) => x.serial \notin Carried(q)) => CarriesOnce(r)
           /\ \A T : x.type \in T /\ NoneOf(q, T) => OneOf(r, T)
           /\ \A T : x.type \notin T /\ NoneOf(q, T) => NoneOf(r, T)
           /\ \A T : x.type \notin T /\ OneOf(q, T) => OneOf(r, T)
           /\ \A T : NoneOf(r, T) => x.type \notin T /\ NoneOf(q, T)
<1>1. /\ Len(q) \in Nat /\ r \in Seq(A) /\ Len(r) = Len(q) + 1
      /\ r[Len(q) + 1] = x /\ \A i \in 1 .. Len(q) : r[i] = q[i]
  OBVIOUS
<1>2. \A i \in 1 .. Len(r) : i \in 1 .. Len(q) \/ i = Len(q) + 1
  BY <1>1
<1>3. Len(q) + 1 \in 1 .. Len(r) /\ 1 .. Len(q) \subseteq 1 .. Len(r)
      /\ Len(q) + 1 \notin 1 .. Len(q)
  BY <1>1
<1> DEFINE L == 1 .. Len(q)
           M == 1 .. Len(r)
           e == Len(q) + 1
<1>4. /\ r \in Seq(A) /\ r[e] = x /\ (\A i \in L : r[i] = q[i])
      /\ M = L \cup {e} /\ e \notin L
  BY <1>1, <1>2, <1>3
<1> DEFINE Of(s, D) == {s[i].serial : i \in {j \in D : Carries(s[j])}}
<1>5. Carried(r) = Of(r, M) /\ Carried(q) = Of(q, L)
  BY DEF Carried
<1>6. CarriesOnce(r) <=> \A i, j \in M : Carries(r[i]) /\ Carries(r[j])
                                         /\ r[i].serial = r[j].serial => i = j
  BY DEF CarriesOnce
<1>7. CarriesOnce(q) <=> \A i, j \in L : Carries(q[i]) /\ Carries(q[j])
                                         /\ q[i].serial = q[j].serial => i = j
  BY DEF CarriesOnce
<1>8. \A T : /\ NoneOf(q, T) <=> \A i \in L : q[i].type \notin T
             /\ NoneOf(r, T) <=> \A i \in M : r[i].type \notin T
             /\ OneOf(q, T) <=> \E i \in L : q[i].type \in T /\ \A j \in L : q[j].type \in T => j = i
             /\ OneOf(r, T) <=> \E i \in M : r[i].type \in T /\ \A j \in M : r[j].type \in T => j = i
  BY DEF NoneOf, OneOf
<1> HIDE DEF L, M, e
<1>9. Carried(r) = IF Carries(x) THEN Carried(q) \cup {x.serial} ELSE Carried(q)
  BY ONLY <1>4, <1>5
<1>10. CarriesOnce(q) /\ (Carries(x) => x.serial \notin Carried(q)) => CarriesOnce(r)
  BY ONLY <1>4, <1>5, <1>6, <1>7
<1>11. \A T : x.type \in T /\ NoneOf(q, T) => OneOf(r, T)
  BY ONLY <1>4, <1>8
<1>12. \A T : x.type \notin T /\ NoneOf(q, T) => NoneOf(r, T)
  BY ONLY <1>4, <1>8
<1>13. \A T : x.type \notin T /\ OneOf(q, T) => OneOf(r, T)
  BY ONLY <1>4, <1>8
<1>14. \A T : NoneOf(r, T) => x.type \notin T /\ NoneOf(q, T)
  BY ONLY <1>4, <1>8
<1> QED BY <1>4, <1>9, <1>10, <1>11, <1>12, <1>13, <1>14

\* The first message is taken.
LEMMA QueueTail ==
    ASSUME NEW A, NEW q \in Seq(A), q # <<>>, NEW x, x = Head(q), NEW r, r = Tail(q)
    PROVE  /\ r \in Seq(A) /\ x \in A
           /\ CarriesOnce(q) =>
                 /\ CarriesOnce(r)
                 /\ Carried(r) = IF Carries(x) THEN Carried(q) \ {x.serial} ELSE Carried(q)
           /\ Carries(x) => x.serial \in Carried(q)
           /\ \A T : x.type \in T /\ OneOf(q, T) => NoneOf(r, T)
           /\ \A T : NoneOf(q, T) => x.type \notin T /\ NoneOf(r, T)
           /\ \A T : x.type \notin T /\ OneOf(q, T) => OneOf(r, T)
<1> DEFINE L == 1 .. Len(q)
           M == 1 .. Len(r)
<1>1. /\ Len(q) \in Nat \ {0} /\ r \in Seq(A) /\ Len(r) = Len(q) - 1
      /\ q[1] = x /\ x \in A /\ \A i \in 1 .. Len(r) : r[i] = q[i + 1]
  OBVIOUS
<1>2. /\ 1 \in L /\ M \subseteq Nat /\ (\A i \in M : i + 1 \in L /\ i + 1 # 1 /\ r[i] = q[i + 1])
      /\ \A i \in L : i = 1 \/ \E j \in M : i = j + 1
      /\ \A i, j \in M : i + 1 = j + 1 => i = j
  <2>1. \A i \in L : i = 1 \/ (i - 1 \in M /\ i = (i - 1) + 1)
    BY <1>1
  <2> QED BY <1>1, <2>1
<1> DEFINE Of(s, D) == {s[i].serial : i \in {j \in D : Carries(s[j])}}
<1>3. Carried(r) = Of(r, M) /\ Carried(q) = Of(q, L)
  BY DEF Carried
<1>4. CarriesOnce(r) <=> \A i, j \in M : Carries(r[i]) /\ Carries(r[j])
                                         /\ r[i].serial = r[j].serial => i = j
  BY DEF CarriesOnce
<1>5. CarriesOnce(q) <=> \A i, j \in L : Carries(q[i]) /\ Carries(q[j])
                                         /\ q[i].serial = q[j].serial => i = j
  BY DEF CarriesOnce
<1>6. \A T : /\ NoneOf(q, T) <=> \A i \in L : q[i].type \notin T
             /\ NoneOf(r, T) <=> \A i \in M : r[i].type \notin T
             /\ OneOf(q, T) <=> \E i \in L : q[i].type \in T /\ \A j \in L : q[j].type \in T => j = i
             /\ OneOf(r, T) <=> \E i \in M : r[i].type \in T /\ \A j \in M : r[j].type \in T => j = i
  BY DEF NoneOf, OneOf
<1> HIDE DEF L, M
<1>7. CarriesOnce(q) => CarriesOnce(r)
  BY ONLY <1>2, <1>4, <1>5
<1>8. CarriesOnce(q) =>
        Carried(r) = IF Carries(x) THEN Carried(q) \ {x.serial} ELSE Carried(q)
  BY ONLY <1>1, <1>2, <1>3, <1>5, SMTT(30)
<1>9. Carries(x) => x.serial \in Carried(q)
  BY <1>1, <1>2, <1>3
<1>10. ASSUME NEW T, x.type \in T, OneOf(q, T) PROVE NoneOf(r, T)
  <2>1. PICK i \in L : q[i].type \in T /\ \A j \in L : q[j].type \in T => j = i
    BY <1>6, <1>10
  <2>2. i = 1
    BY <1>1, <1>2, <1>10, <2>1
  <2>3. \A k \in M : r[k].type \notin T
    BY ONLY <1>2, <2>1, <2>2
  <2> QED BY <1>6, <2>3
<1>11. \A T : NoneOf(q, T) => x.type \notin T /\ NoneOf(r, T)
  BY ONLY <1>1, <1>2, <1>6, ZenonT(60)
<1>12. ASSUME NEW T, x.type \notin T, OneOf(q, T) PROVE OneOf(r, T)
  <2>1. PICK i \in L : q[i].type \in T /\ \A j \in L : q[j].type \in T => j = i
    BY <1>6, <1>12
  <2>2. PICK j \in M : i = j + 1
    BY <1>1, <1>2, <1>12, <2>1
  <2>3. r[j].type \in T /\ \A k \in M : r[k].type \in T => k = j
    BY <1>2, <2>1, <2>2
  <2> QED BY <1>6, <2>3
<1> QED BY <1>1, <1>7, <1>8, <1>9, <1>10, <1>11, <1>12

\* Messages of one type are taken out of a queue.
LEMMA QueueWithout ==
    ASSUME NEW A, NEW q \in Seq(A), NEW t, t \in Replies, NEW r, r = Without(q, t)
    PROVE  /\ r \in Seq(A)
           /\ Carried(r) = Carried(q)
           /\ CarriesOnce(q) => CarriesOnce(r)
           /\ OneOf(q, Replies) /\ Found(q, t) => NoneOf(r, Replies)
<1> DEFINE S == {m \in Range(q) : m.type # t}
           L == 1 .. Len(q)
           M == 1 .. Len(r)
<1>1. r = Only(q, S)
  BY DEF Without
<1>2. DOMAIN q = L
  OBVIOUS
<1>3. \A i \in L : q[i] \in S <=> q[i].type # t
  BY <1>2 DEF Range
<1> HIDE DEF S
<1>4. PICK h : r \in Seq(A) /\ SelectedBy(h, r, q, S, Len(q))
  BY <1>1, OnlyOrdered
<1>5. /\ h \in [M -> L]
      /\ \A k \in M : r[k] = q[h[k]] /\ r[k] \in S
      /\ \A j, k \in M : j < k => h[j] < h[k]
      /\ \A j \in L : q[j] \in S => \E k \in M : h[k] = j
  BY <1>4 DEF SelectedBy
<1>6. \A j, k \in M : h[j] = h[k] => j = k
  <2>1. \A j, k \in M : j \in Nat /\ k \in Nat /\ h[j] \in Nat /\ h[k] \in Nat
    BY <1>4, <1>5, SMTT(30)
  <2>2. \A j, k \in M : j < k \/ k < j \/ j = k
    BY <2>1
  <2> QED BY <1>5, <2>1, <2>2
<1> DEFINE Of(s, D) == {s[i].serial : i \in {j \in D : Carries(s[j])}}
<1>7. Carried(r) = Of(r, M) /\ Carried(q) = Of(q, L)
  BY DEF Carried
<1>8. CarriesOnce(r) <=> \A i, j \in M : Carries(r[i]) /\ Carries(r[j])
                                         /\ r[i].serial = r[j].serial => i = j
  BY DEF CarriesOnce
<1>9. CarriesOnce(q) <=> \A i, j \in L : Carries(q[i]) /\ Carries(q[j])
                                         /\ q[i].serial = q[j].serial => i = j
  BY DEF CarriesOnce
<1>10. \A m : Carries(m) => m.type # t
  BY DEF Carries, Replies
<1>11. OneOf(q, Replies) <=>
         \E i \in L : q[i].type \in Replies /\ \A j \in L : q[j].type \in Replies => j = i
  BY DEF OneOf
<1>12. NoneOf(r, Replies) <=> \A i \in M : r[i].type \notin Replies
  BY DEF NoneOf
<1>13. Found(q, t) <=> \E i \in L : q[i].type = t
  BY <1>2 DEF Found
<1> HIDE DEF L, M
<1>14. Carried(r) = Carried(q)
  BY <1>3, <1>5, <1>7, <1>10
<1>15. CarriesOnce(q) => CarriesOnce(r)
  BY <1>5, <1>6, <1>8, <1>9
<1>16. OneOf(q, Replies) /\ Found(q, t) => NoneOf(r, Replies)
  <2> SUFFICES ASSUME OneOf(q, Replies), Found(q, t), NEW k \in M, r[k].type \in Replies
               PROVE  FALSE
    BY <1>12
  <2>1. PICK i \in L : q[i].type = t
    BY <1>13
  <2>2. h[k] = i
    BY <1>5, <1>11, <2>1
  <2> QED BY <1>3, <1>5, <2>1, <2>2
<1> QED BY <1>4, <1>14, <1>15, <1>16

\* The one call in a queue, before and after it is there.
LEMMA OneCall ==
    ASSUME NEW A, NEW q \in Seq(A)
    PROVE  /\ \A x \in A : NoneOf(q, Calls) => OnlyCall(Append(q, x), x)
           /\ \A x : q # <<>> /\ OnlyCall(q, x) =>
                 OnlyCall(Tail(q), x) /\ (Head(q).type \in Calls => Head(q) = x)
           /\ NoneOf(q, Calls) => \A x : OnlyCall(q, x)
<1>1. ASSUME NEW x \in A, NoneOf(q, Calls) PROVE OnlyCall(Append(q, x), x)
  <2>1. PICK r : r = Append(q, x)
    OBVIOUS
  <2>2. Len(q) \in Nat /\ Len(r) = Len(q) + 1
        /\ r[Len(q) + 1] = x /\ \A i \in 1 .. Len(q) : r[i] = q[i]
    BY <2>1
  <2>3. \A i \in 1 .. Len(r) : i \in 1 .. Len(q) \/ i = Len(q) + 1
    BY <2>2
  <2>4. OnlyCall(r, x)
    BY ONLY <1>1, <2>2, <2>3 DEF OnlyCall, NoneOf
  <2> QED BY <2>1, <2>4
<1>2. ASSUME NEW x, q # <<>>, OnlyCall(q, x)
      PROVE  OnlyCall(Tail(q), x) /\ (Head(q).type \in Calls => Head(q) = x)
  <2>1. PICK r : r = Tail(q)
    OBVIOUS
  <2>2. Len(q) \in Nat \ {0} /\ Len(r) = Len(q) - 1 /\ Head(q) = q[1]
        /\ \A i \in 1 .. Len(r) : r[i] = q[i + 1]
    BY <1>2, <2>1
  <2>3. 1 \in 1 .. Len(q) /\ \A i \in 1 .. Len(r) : i + 1 \in 1 .. Len(q)
    BY <2>2
  <2>4. OnlyCall(r, x)
    BY ONLY <1>2, <2>2, <2>3 DEF OnlyCall
  <2> QED BY <1>2, <2>1, <2>2, <2>3, <2>4 DEF OnlyCall
<1>3. NoneOf(q, Calls) => \A x : OnlyCall(q, x)
  BY DEF NoneOf, OnlyCall
<1> QED BY <1>1, <1>2, <1>3

\* There is a message of a type, or none.
LEMMA FoundOrNone ==
    ASSUME NEW A, NEW q \in Seq(A), NEW t
    PROVE  Found(q, t) <=> ~NoneOf(q, {t})
<1>1. DOMAIN q = 1 .. Len(q)
  OBVIOUS
<1> QED BY <1>1 DEF Found, NoneOf

-----------------------------------------------------------------------------
(* Steps *)

\* A launcher that is gone waits for nothing.
ExitInv == phase = "exit" => ~waiting

\* The steps that leave both processes alive.
LauncherStep ==
    \/ FileChanges \/ DirChanges \/ OnSighup \/ OnDirwatch \/ BusMethodReloadConfig
    \/ WatchDir \/ ListDir \/ LoadFails \/ LoadPolicy
    \/ RemoveServices \/ SetPolicy \/ AddServices \/ ReloadDone
    \/ AddListener \/ AddMetrics \/ Returned \/ CallFails
BrokerStep ==
    \/ MethodAddName \/ MethodNameRelease \/ MethodAddListener
    \/ MethodAddMetrics \/ MethodSetPolicy \/ DispatchReply
    \/ Accept \/ PeerFree \/ PeerReloads

\* What the launcher does leaves the state of the broker alone ...
LEMMA LauncherLeaves ==
    ASSUME LauncherStep \/ AppArmorRequired \/ StartFails \/ OnChildExit \/ Terminated
    PROVE  UNCHANGED <<bus, history, broker>> /\ (events' = events \/ events' = events + 1)
<1>1. CASE FileChanges \/ DirChanges
  BY <1>1 DEF FileChanges, DirChanges
<1>2. CASE OnSighup \/ OnDirwatch \/ BusMethodReloadConfig
  BY <1>2 DEF OnSighup, OnDirwatch, BusMethodReloadConfig, ReloadConfig
<1>3. CASE WatchDir \/ ListDir \/ LoadFails \/ LoadPolicy
  BY <1>3 DEF WatchDir, ListDir, LoadFails, LoadPolicy
<1>4. CASE RemoveServices \/ SetPolicy \/ AddServices \/ ReloadDone
  BY <1>4 DEF RemoveServices, SetPolicy, AddServices, ReloadDone, calling
<1>5. CASE AddListener \/ AddMetrics \/ Returned \/ CallFails
  BY <1>5 DEF AddListener, AddMetrics, Returned, CallFails, calling
<1>6. CASE AppArmorRequired \/ StartFails \/ OnChildExit \/ Terminated
  BY <1>6 DEF AppArmorRequired, StartFails, OnChildExit, Terminated, Leave, LauncherFree
<1> QED BY <1>1, <1>2, <1>3, <1>4, <1>5, <1>6 DEF LauncherStep

\* ... and what the broker does that of the launcher.
LEMMA BrokerLeaves ==
    ASSUME BrokerStep
    PROVE  UNCHANGED <<files, events, launcher, broker>> /\ Running
<1>1. CASE MethodAddName \/ MethodNameRelease \/ MethodAddListener
  BY <1>1 DEF MethodAddName, MethodNameRelease, MethodAddListener, elsewhere, Receive
<1>2. CASE MethodAddMetrics \/ MethodSetPolicy \/ DispatchReply
  BY <1>2 DEF MethodAddMetrics, MethodSetPolicy, DispatchReply, elsewhere, Receive
<1>3. CASE Accept \/ PeerFree \/ PeerReloads
  BY <1>3 DEF Accept, PeerFree, PeerReloads, elsewhere
<1> QED BY <1>1, <1>2, <1>3 DEF BrokerStep

\* Steps of a launcher that is there.
LEMMA LauncherThere ==
    ASSUME ExitInv, LauncherStep
    PROVE  phase # "exit" /\ ExitInv'
<1>1. CASE FileChanges \/ DirChanges
  BY <1>1 DEF FileChanges, DirChanges, ExitInv
<1>2. CASE OnSighup \/ OnDirwatch \/ BusMethodReloadConfig
  BY <1>2 DEF OnSighup, OnDirwatch, BusMethodReloadConfig, ReloadConfig, ParseConfig,
              Ignore, ExitInv
<1>3. CASE WatchDir \/ ListDir \/ LoadFails \/ LoadPolicy
  BY <1>3 DEF WatchDir, ListDir, LoadFails, LoadPolicy, NextStep, Finish, ExitInv
<1>4. CASE RemoveServices \/ SetPolicy \/ AddServices \/ ReloadDone
  <2>1. CASE RemoveServices
    BY <2>1 DEF RemoveServices, ServiceRemove, ExitInv
  <2>2. CASE SetPolicy \/ AddServices \/ ReloadDone
    BY <2>2 DEF SetPolicy, AddServices, ReloadDone, Finish, ExitInv
  <2> QED BY <1>4, <2>1, <2>2
<1>5. CASE AddListener \/ AddMetrics
  BY <1>5 DEF AddListener, AddMetrics, ExitInv
<1>6. CASE Returned \/ CallFails
  BY <1>6 DEF Returned, Reply, CallFails, CallError, ExitInv
<1> QED BY <1>1, <1>2, <1>3, <1>4, <1>5, <1>6 DEF LauncherStep

\* While both processes stay, one of them takes one of these steps.
LEMMA LiveStep ==
    ASSUME ExitInv, [Next]_vars
    PROVE  /\ ExitInv'
           /\ Live' => Live /\ (LauncherStep \/ BrokerStep \/ UNCHANGED vars)
<1>1. CASE LauncherStep
  BY <1>1, LauncherThere, LauncherLeaves DEF Live, Running
<1>2. CASE BrokerStep
  BY <1>2, BrokerLeaves DEF Live, Running, launcher, ExitInv
<1>3. CASE UNCHANGED vars
  BY <1>3 DEF Live, Running, vars, launcher, ExitInv
<1>4. CASE AppArmorRequired \/ StartFails \/ OnChildExit \/ Terminated
  BY <1>4 DEF AppArmorRequired, StartFails, OnChildExit, Terminated, Leave, LauncherFree,
              Live, ExitInv
<1>5. CASE ControllerViolates \/ ControllerHangsUp \/ BrokerTerminated
  BY <1>5 DEF ControllerViolates, ControllerHangsUp, BrokerTerminated, BrokerRunReturns,
              elsewhere, launcher, Live, Running, ExitInv
<1>6. CASE BrokerFree \/ MetricsClient
  BY <1>6 DEF BrokerFree, MetricsClient, Ends, elsewhere, launcher, Live, Running, ExitInv
<1>7. \/ LauncherStep \/ BrokerStep \/ UNCHANGED vars
      \/ AppArmorRequired \/ StartFails \/ OnChildExit \/ Terminated
      \/ ControllerViolates \/ ControllerHangsUp \/ BrokerTerminated
      \/ BrokerFree \/ MetricsClient
  BY DEF Next, Launcher, Broker, Outside, LauncherStep, BrokerStep
<1> QED BY <1>1, <1>2, <1>3, <1>4, <1>5, <1>6, <1>7

-----------------------------------------------------------------------------
(* Answers *)

\* Steps that answer no request and take none.
LEMMA AnswerSame ==
    ASSUME AnswerInv, UNCHANGED <<senders, answered, reloads>>,
           events' = events \/ events' = events + 1,
           peer_ids' \in Nat, DOMAIN peers' \subseteq Peers
    PROVE  AnswerInv'
  BY DEF AnswerInv

\* A request is answered once: the reload is forgotten with the answer.
LEMMA AnswerStep ==
    ASSUME AnswerInv, [Next]_vars
    PROVE  AnswerInv'
<1>1. CASE LauncherStep \/ AppArmorRequired \/ StartFails \/ OnChildExit \/ Terminated
  <2>1. UNCHANGED <<senders, answered, reloads, peers, peer_ids>>
        /\ (events' = events \/ events' = events + 1)
    BY <1>1, LauncherLeaves DEF bus, history
  <2> QED BY <2>1, AnswerSame DEF AnswerInv
<1>2. CASE MethodAddName \/ MethodNameRelease \/ MethodAddListener \/ MethodAddMetrics
  <2>1. UNCHANGED <<senders, answered, reloads, peers, peer_ids, events>>
    BY <1>2 DEF MethodAddName, MethodNameRelease, MethodAddListener, MethodAddMetrics,
                elsewhere, history
  <2> QED BY <2>1, AnswerSame DEF AnswerInv
<1>3. CASE MethodSetPolicy
  <2>1. UNCHANGED <<senders, answered, reloads, peer_ids, events>> /\ DOMAIN peers' = DOMAIN peers
    BY <1>3 DEF MethodSetPolicy, ListenerSetPolicy, elsewhere, history
  <2> QED BY <2>1, AnswerSame DEF AnswerInv
<1>4. CASE Accept
  <2>1. PICK n \in 1 .. IF Zephyr THEN MaxPeers - peer_ids ELSE 1 :
          /\ peer_ids + n <= MaxPeers
          /\ peer_ids' = peer_ids + n
          /\ DOMAIN peers' = DOMAIN peers \cup (peer_ids + 1 .. peer_ids + n)
          /\ UNCHANGED <<senders, answered, reloads, events>>
    BY <1>4 DEF Accept, elsewhere, history
  <2>2. n \in Nat /\ peer_ids \in Nat /\ MaxPeers \in Nat
    BY ControlAssumption DEF AnswerInv
  <2>3. peer_ids' \in Nat /\ DOMAIN peers' \subseteq Peers
    BY <2>1, <2>2 DEF AnswerInv, Peers
  <2> QED BY <2>1, <2>3, AnswerSame
<1>5. CASE PeerFree \/ ControllerViolates \/ ControllerHangsUp \/ BrokerTerminated
  <2>1. UNCHANGED <<senders, answered, reloads, peer_ids, events>>
        /\ DOMAIN peers' \subseteq DOMAIN peers
    BY <1>5 DEF PeerFree, ControllerViolates, ControllerHangsUp, BrokerTerminated,
                BrokerRunReturns, Restrict, elsewhere, history
  <2> QED BY <2>1, AnswerSame DEF AnswerInv
<1>6. CASE DispatchReply
  <2>1. PICK s \in DOMAIN reloads :
          /\ answered' = IF senders[reloads[s]] \in DOMAIN peers
                         THEN [answered EXCEPT ![reloads[s]] = answered[reloads[s]] + 1]
                         ELSE answered
          /\ DOMAIN reloads' = DOMAIN reloads \ {s}
          /\ \A t \in DOMAIN reloads \ {s} : reloads'[t] = reloads[t]
          /\ UNCHANGED <<senders, peers, peer_ids, events>>
    <3>1. Head(to_broker).serial \in DOMAIN reloads
      BY <1>6 DEF DispatchReply
    <3>2. PICK s : s = Head(to_broker).serial
      OBVIOUS
    <3>3. /\ reloads' = Restrict(reloads, DOMAIN reloads \ {s})
          /\ ReloadAnswer(reloads[s])
          /\ UNCHANGED <<senders, peers, peer_ids, events>>
      BY <1>6, <3>2 DEF DispatchReply, elsewhere
    <3> QED BY <3>1, <3>2, <3>3 DEF ReloadAnswer, Restrict
  <2>2. reloads[s] \in Requests /\ answered[reloads[s]] = 0
    BY ControlAssumption DEF AnswerInv, Requests
  <2>3. answered' \in [Requests -> {0, 1}]
    BY <2>1, <2>2 DEF AnswerInv
  <2>4. \A r \in Requests : r # reloads[s] => answered'[r] = answered[r]
    BY <2>1, <2>2 DEF AnswerInv
  <2>5. \A t \in DOMAIN reloads' : /\ reloads'[t] \in 1 .. Len(senders)
                                   /\ answered'[reloads'[t]] = 0
    <3> SUFFICES ASSUME NEW t \in DOMAIN reloads \ {s}
                 PROVE  reloads[t] \in 1 .. Len(senders) /\ answered'[reloads[t]] = 0
      BY <2>1
    <3>1. reloads[t] # reloads[s] /\ reloads[t] \in 1 .. Len(senders) /\ answered[reloads[t]] = 0
      BY DEF AnswerInv
    <3>2. reloads[t] \in Requests
      BY <3>1, ControlAssumption DEF AnswerInv, Requests
    <3> QED BY <3>1, <3>2, <2>4
  <2>6. \A t, u \in DOMAIN reloads' : reloads'[t] = reloads'[u] => t = u
    BY <2>1 DEF AnswerInv
  <2>7. \A r \in Requests : r > Len(senders) => answered'[r] = 0
    BY <2>2, <2>4 DEF AnswerInv
  <2> QED BY <2>1, <2>3, <2>5, <2>6, <2>7 DEF AnswerInv
<1>7. CASE PeerReloads
  <2>1. PICK p \in DOMAIN peers :
          /\ HasInput
          /\ senders' = Append(senders, p)
          /\ UNCHANGED <<peers, peer_ids, events>>
          /\ \/ \E s : RequestReload(p, s)
             \/ \E s : RefuseReload(s)
    BY <1>7 DEF PeerReloads, elsewhere
  <2> DEFINE r == Len(senders) + 1
  <2>2. /\ senders' \in Seq(Peers) /\ Len(senders') = r /\ r <= MaxInputs /\ r \in Requests
        /\ Len(senders) \in Nat
    <3>1. p \in Peers
      BY DEF AnswerInv
    <3>2. senders' \in Seq(Peers) /\ Len(senders') = r /\ Len(senders) \in Nat
      BY <2>1, <3>1 DEF AnswerInv
    <3>3. events + Len(senders) < MaxInputs /\ events \in Nat /\ MaxInputs \in Nat
      BY <2>1, ControlAssumption DEF HasInput, AnswerInv
    <3> QED BY <3>2, <3>3 DEF Requests
  <2> HIDE DEF r
  <2>3. \A s \in DOMAIN reloads : reloads[s] \in 1 .. r /\ reloads[s] # r
    BY <2>2 DEF AnswerInv, r
  <2>4. answered[r] = 0
    BY <2>2 DEF AnswerInv, r
  <2>5. ASSUME NEW s, RequestReload(p, s) PROVE AnswerInv'
    <3>1. /\ answered' = answered
          /\ DOMAIN reloads' = DOMAIN reloads \cup {s}
          /\ \A t \in DOMAIN reloads \cup {s} : reloads'[t] = IF t = s THEN r ELSE reloads[t]
      BY <2>5 DEF RequestReload, r
    <3>2. \A t, u \in DOMAIN reloads' : reloads'[t] = reloads'[u] => t = u
      BY <3>1, <2>3 DEF AnswerInv
    <3>3. \A t \in DOMAIN reloads' : /\ reloads'[t] \in 1 .. r
                                     /\ answered'[reloads'[t]] = 0
      BY <3>1, <2>2, <2>3, <2>4 DEF AnswerInv
    <3>4. \A q \in Requests : q > r => answered'[q] = 0
      BY <3>1, <2>2 DEF AnswerInv, r, Requests
    <3> QED BY <2>1, <2>2, <3>1, <3>2, <3>3, <3>4 DEF AnswerInv
  <2>6. ASSUME NEW s, RefuseReload(s) PROVE AnswerInv'
    <3>1. answered' = [answered EXCEPT ![r] = 1] /\ reloads' = reloads
      BY <2>6 DEF RefuseReload, r
    <3>2. answered' \in [Requests -> {0, 1}] /\ \A q \in Requests : q # r => answered'[q] = answered[q]
      BY <3>1, <2>2 DEF AnswerInv
    <3>3. \A t \in DOMAIN reloads : /\ reloads[t] \in 1 .. r
                                    /\ answered'[reloads[t]] = 0
      BY <3>2, <2>2, <2>3, ControlAssumption DEF AnswerInv, Requests
    <3>4. \A q \in Requests : q > r => answered'[q] = 0
      BY <3>2, <2>2 DEF AnswerInv, r, Requests
    <3> QED BY <2>1, <2>2, <3>1, <3>2, <3>3, <3>4 DEF AnswerInv
  <2> QED BY <2>1, <2>5, <2>6
<1>8. CASE BrokerFree \/ MetricsClient
  <2>1. /\ DOMAIN peers' = {} /\ DOMAIN reloads' = {} /\ peer_ids' = 0
        /\ senders' = <<>> /\ answered' = [r \in Requests |-> 0] /\ events' = events
    BY <1>8 DEF BrokerFree, MetricsClient, Ends, Restrict, elsewhere
  <2>2. Len(<<>>) = 0 /\ <<>> \in Seq(Peers)
    OBVIOUS
  <2> QED BY <2>1, <2>2, ControlAssumption DEF AnswerInv
<1>9. CASE UNCHANGED vars
  BY <1>9, AnswerSame DEF vars, bus, history, AnswerInv
<1>10. \/ LauncherStep \/ BrokerStep \/ UNCHANGED vars
       \/ AppArmorRequired \/ StartFails \/ OnChildExit \/ Terminated
       \/ ControllerViolates \/ ControllerHangsUp \/ BrokerTerminated
       \/ BrokerFree \/ MetricsClient
  BY DEF Next, Launcher, Broker, Outside, LauncherStep, BrokerStep
<1> QED BY <1>1, <1>2, <1>3, <1>4, <1>5, <1>6, <1>7, <1>8, <1>9, <1>10 DEF BrokerStep

-----------------------------------------------------------------------------
(* Calls, replies and reloads on their way *)

\* The types of the messages of a queue.
LEMMA MessageTypes ==
    /\ \A m \in ToBroker : /\ m.type \in Calls \cup Verdicts
                           /\ Carries(m) <=> m.type \in Verdicts
                           /\ m.type \in Verdicts => m.serial \in Serials
    /\ \A m \in ToLauncher : /\ m.type \in Replies \cup {"ReloadConfig"}
                             /\ Carries(m) <=> m.type = "ReloadConfig"
                             /\ m.type = "ReloadConfig" => m.serial \in Serials
    /\ Calls \cap Verdicts = {}
    /\ \A s \in Serials, v \in Verdicts : [type |-> v, serial |-> s] \in ToBroker
    /\ \A s \in Serials : [type |-> "ReloadConfig", serial |-> s] \in ToLauncher
    /\ \A v \in Replies : [type |-> v] \in ToLauncher
    /\ "ReloadConfig" \notin Replies
<1>1. \A m \in ToBroker : /\ m.type \in Calls \cup Verdicts
                          /\ Carries(m) <=> m.type \in Verdicts
                          /\ m.type \in Verdicts => m.serial \in Serials
  BY DEF ToBroker, Calls, Verdicts, Carries
<1>2. \A m \in ToLauncher : /\ m.type \in Replies \cup {"ReloadConfig"}
                            /\ Carries(m) <=> m.type = "ReloadConfig"
                            /\ m.type = "ReloadConfig" => m.serial \in Serials
  BY DEF ToLauncher, Replies, Carries
<1>3. /\ Calls \cap Verdicts = {} /\ "ReloadConfig" \notin Replies
  BY DEF Calls, Verdicts, Replies
<1>4. \A s \in Serials, v \in Verdicts : [type |-> v, serial |-> s] \in ToBroker
  BY DEF ToBroker
<1>5. /\ \A s \in Serials : [type |-> "ReloadConfig", serial |-> s] \in ToLauncher
      /\ \A v \in Replies : [type |-> v] \in ToLauncher
  BY DEF ToLauncher
<1> QED BY <1>1, <1>2, <1>3, <1>4, <1>5

\* Serials are none of the other causes.
LEMMA Causes ==
    /\ Start \notin Serials /\ Sighup \notin Serials /\ Dirwatch \notin Serials
    /\ Start \notin Sources /\ Sources = {Sighup, Dirwatch}
    /\ Sources \cap Serials = {}
    /\ Serials \subseteq Nat
  BY ControlAssumption DEF Start, Sighup, Dirwatch, Sources, Serials

\* A step of the launcher that sends and receives nothing.
LEMMA FlowQuiet ==
    ASSUME FlowInv, PhaseInv', UNCHANGED <<waiting, to_broker, to_launcher, reloads, serial>>,
           cause' = cause \/ (cause \notin Serials /\ cause' \in {Start, Sighup, Dirwatch})
    PROVE  FlowInv'
<1>1. QueuesOK' /\ CallInv'
  BY DEF FlowInv, QueuesOK, CallInv
<1>2. CarryInv'
  <2>1. CASE cause' = cause
    BY <2>1 DEF FlowInv, CarryInv
  <2>2. CASE cause \notin Serials /\ cause' \in {Start, Sighup, Dirwatch}
    <3>1. cause' \notin Serials
      BY <2>2, Causes
    <3> QED BY <2>2, <3>1 DEF FlowInv, CarryInv
  <2> QED BY <2>1, <2>2
<1> QED BY <1>1, <1>2 DEF FlowInv

\* The launcher makes a call.
LEMMA FlowCall ==
    ASSUME FlowInv, PhaseInv', NEW m \in ToBroker, m.type \in Calls, ~waiting, waiting',
           to_broker' = Append(to_broker, m), UNCHANGED <<cause, to_launcher, reloads, serial>>
    PROVE  FlowInv'
<1>1. PICK r : r = Append(to_broker, m)
  OBVIOUS
<1>2. to_broker \in Seq(ToBroker) /\ ~Carries(m) /\ to_broker' = r
  BY <1>1, MessageTypes DEF FlowInv, QueuesOK
<1>3. /\ r \in Seq(ToBroker)
      /\ Carried(r) = Carried(to_broker)
      /\ CarriesOnce(to_broker) => CarriesOnce(r)
      /\ NoneOf(to_broker, Calls) => OneOf(r, Calls)
  BY ONLY <1>1, <1>2, m \in ToBroker, m.type \in Calls, QueueAppend
<1>4. QueuesOK' /\ CarryInv'
  BY <1>2, <1>3 DEF FlowInv, QueuesOK, CarryInv
<1>5. CallInv'
  BY <1>2, <1>3 DEF FlowInv, CallInv
<1> QED BY <1>4, <1>5 DEF FlowInv

\* A reload ends, and a peer that asked for it is answered.
LEMMA FlowFinish ==
    ASSUME FlowInv, PhaseInv', NEW v \in Verdicts, cause # Start, cause' = Start, ~waiting',
           to_broker' = Answered(cause, v), NoneOf(to_broker, Calls),
           to_launcher' \in Seq(ToLauncher), NoneOf(to_launcher', Replies),
           CarriesOnce(to_launcher'), Carried(to_launcher') = Carried(to_launcher),
           UNCHANGED <<reloads, serial>>
    PROVE  FlowInv'
<1>1. cause \in Serials \cup Sources
  BY Causes DEF FlowInv, PhaseInv
<1>2. CASE cause \in Sources
  <2>1. to_broker' = to_broker /\ cause \notin Serials /\ cause' \notin Serials
    BY <1>2, Causes DEF Answered
  <2>2. QueuesOK' /\ CallInv'
    BY <2>1 DEF FlowInv, QueuesOK, CallInv
  <2>3. CarryInv'
    BY <2>1 DEF FlowInv, CarryInv
  <2> QED BY <2>2, <2>3 DEF FlowInv
<1>3. CASE cause \in Serials
  <2>1. PICK m : m = [type |-> v, serial |-> cause]
    OBVIOUS
  <2>2. PICK r : r = Append(to_broker, m)
    OBVIOUS
  <2>3. to_broker' = r
    BY <1>3, <2>1, <2>2, Causes DEF Answered
  <2>4. m \in ToBroker /\ m.type = v /\ m.serial = cause
    BY <1>3, <2>1, MessageTypes
  <2>5. Carries(m) /\ m.type \notin Calls
    BY <2>4, MessageTypes
  <2>6. to_broker \in Seq(ToBroker) /\ cause \notin Carried(to_broker)
    BY DEF FlowInv, QueuesOK, CarryInv
  <2>7. /\ r \in Seq(ToBroker)
        /\ Carried(r) = Carried(to_broker) \cup {cause}
        /\ CarriesOnce(to_broker) => CarriesOnce(r)
        /\ NoneOf(r, Calls)
    BY <2>2, <2>4, <2>5, <2>6, QueueAppend, ZenonT(60)
  <2>8. QueuesOK' /\ CallInv'
    BY <2>3, <2>7 DEF QueuesOK, CallInv
  <2>9. CarryInv'
    <3>1. Start \notin Serials /\ cause' \notin Serials
      BY Causes
    <3> QED BY <1>3, <2>3, <2>7, <3>1 DEF FlowInv, CarryInv
  <2> QED BY <2>8, <2>9 DEF FlowInv
<1> QED BY <1>1, <1>2, <1>3

\* The broker replies to the call.
LEMMA FlowReply ==
    ASSUME FlowInv, NEW types \in SUBSET Calls, Receive(types), NEW v \in Replies,
           to_launcher' = Append(to_launcher, [type |-> v]),
           UNCHANGED <<phase, waiting, cause, reloads, serial>>
    PROVE  FlowInv' /\ waiting /\ OneOf(to_broker, Calls) /\ NoneOf(to_launcher, Replies)
<1>1. PICK x : x = Head(to_broker)
  OBVIOUS
<1>2. PICK r : r = Tail(to_broker)
  OBVIOUS
<1>3. PICK m : m = [type |-> v]
  OBVIOUS
<1>4. PICK q : q = Append(to_launcher, m)
  OBVIOUS
<1>5. to_broker' = r /\ to_launcher' = q /\ x.type \in Calls
  BY <1>1, <1>2, <1>3, <1>4 DEF Receive
<1>a. to_broker # <<>> /\ to_broker \in Seq(ToBroker)
  BY DEF Receive, FlowInv, QueuesOK
<1>b. to_launcher \in Seq(ToLauncher)
  BY DEF FlowInv, QueuesOK
<1>c. /\ r \in Seq(ToBroker) /\ x \in ToBroker
      /\ NoneOf(to_broker, Calls) => x.type \notin Calls
  BY ONLY <1>1, <1>2, <1>a, QueueTail
<1>6. ~Carries(x)
  BY <1>5, <1>c, MessageTypes
<1>e. ASSUME CarriesOnce(to_broker)
      PROVE  CarriesOnce(r) /\ Carried(r) = Carried(to_broker)
  <2> QED BY ONLY <1>1, <1>2, <1>6, <1>a, <1>e, QueueTail
<1>d. ASSUME OneOf(to_broker, Calls) PROVE NoneOf(r, Calls)
  <2>1. x.type \in Calls
    BY <1>5
  <2> QED BY ONLY <1>1, <1>2, <1>a, <1>d, <2>1, QueueTail, ZenonT(60)
<1>7. /\ r \in Seq(ToBroker) /\ x \in ToBroker
      /\ CarriesOnce(to_broker) => CarriesOnce(r) /\ Carried(r) = Carried(to_broker)
      /\ OneOf(to_broker, Calls) => NoneOf(r, Calls)
      /\ NoneOf(to_broker, Calls) => FALSE
  BY ONLY <1>5, <1>c, <1>d, <1>e
<1>8. m \in ToLauncher /\ m.type = v /\ ~Carries(m)
  BY <1>3, MessageTypes DEF Carries, Replies
<1>9. /\ q \in Seq(ToLauncher) /\ Carried(q) = Carried(to_launcher)
      /\ CarriesOnce(to_launcher) => CarriesOnce(q)
      /\ NoneOf(to_launcher, Replies) => OneOf(q, Replies)
  <2>1. m \in ToLauncher /\ m.type \in Replies /\ ~Carries(m)
    BY <1>8
  <2> QED BY ONLY <1>4, <1>b, <2>1, QueueAppend, ZenonT(60)
<1>10. waiting /\ OneOf(to_broker, Calls) /\ NoneOf(to_launcher, Replies)
  BY <1>7 DEF FlowInv, CallInv, PhaseInv
<1>11. QueuesOK' /\ CallInv'
  BY <1>5, <1>7, <1>9, <1>10 DEF QueuesOK, CallInv
<1>12. CarryInv'
  <2>1. CarryInv
    BY DEF FlowInv
  <2>2. UNCHANGED <<cause, reloads, serial>>
    OBVIOUS
  <2> QED BY ONLY <2>1, <2>2, <1>5, <1>7, <1>6, <1>9 DEF CarryInv
<1>13. PhaseInv'
  BY DEF FlowInv, PhaseInv
<1> QED BY <1>10, <1>11, <1>12, <1>13 DEF FlowInv

\* The launcher takes up the reload at the head of its queue, or answers it at once.
LEMMA FlowReload ==
    ASSUME FlowInv, BusMethodReloadConfig
    PROVE  FlowInv'
<1>1. PICK x : x = Head(to_launcher)
  OBVIOUS
<1>2. PICK r : r = Tail(to_launcher)
  OBVIOUS
<1>3. /\ phase = "idle" /\ cause = Start /\ ~waiting
      /\ to_launcher' = r /\ UNCHANGED <<waiting, reloads, serial>>
      /\ ParseConfig(x.serial) \/ Ignore(x.serial, "invalid") \/ Ignore(x.serial, "failed")
  BY <1>1, <1>2 DEF BusMethodReloadConfig, ReloadConfig, FlowInv, PhaseInv, bus
<1>4. to_launcher # <<>> /\ to_launcher \in Seq(ToLauncher) /\ to_broker \in Seq(ToBroker)
  BY DEF BusMethodReloadConfig, Found, FlowInv, QueuesOK
<1>5. NoneOf(to_launcher, Replies) /\ NoneOf(to_broker, Calls)
  BY <1>3 DEF FlowInv, CallInv
<1>6. /\ r \in Seq(ToLauncher) /\ x \in ToLauncher
      /\ CarriesOnce(to_launcher) =>
            /\ CarriesOnce(r)
            /\ Carried(r) = IF Carries(x) THEN Carried(to_launcher) \ {x.serial}
                            ELSE Carried(to_launcher)
      /\ Carries(x) => x.serial \in Carried(to_launcher)
      /\ x.type \notin Replies /\ NoneOf(r, Replies)
  BY <1>1, <1>2, <1>4, <1>5, QueueTail
<1>7. Carries(x) /\ x.serial \in Serials
  BY <1>6, MessageTypes
<1>8. x.serial \notin Sources /\ Start \notin Serials
  BY <1>7, Causes
<1> DEFINE s == x.serial
<1>9. /\ s \in Serials /\ s \notin Sources /\ s \in Carried(to_launcher)
      /\ CarriesOnce(r) /\ Carried(r) = Carried(to_launcher) \ {s}
  BY <1>6, <1>7, <1>8 DEF FlowInv, CarryInv
<1>10. ParseConfig(s) \/ Ignore(s, "invalid") \/ Ignore(s, "failed")
  BY <1>3
<1> HIDE DEF s
<1>11. CASE ParseConfig(s)
  <2>1. phase' = "dir" /\ cause' = s /\ to_broker' = to_broker
    BY <1>11 DEF ParseConfig
  <2>2. PhaseInv'
    BY <2>1, <1>3, <1>8, <1>9 DEF FlowInv, PhaseInv
  <2>3. QueuesOK' /\ CallInv'
    BY <2>1, <1>3, <1>5, <1>6 DEF FlowInv, QueuesOK, CallInv
  <2>4. CarryInv'
    BY <2>1, <1>3, <1>8, <1>9 DEF FlowInv, CarryInv
  <2> QED BY <2>2, <2>3, <2>4 DEF FlowInv
<1>12. ASSUME NEW v \in Verdicts, Ignore(s, v) PROVE FlowInv'
  <2>1. phase' = phase /\ cause' = cause /\ to_broker' = Answered(s, v)
    BY <1>12 DEF Ignore, Answer
  <2>2. PICK m : m = [type |-> v, serial |-> s]
    OBVIOUS
  <2>3. PICK q : q = Append(to_broker, m)
    OBVIOUS
  <2>4. to_broker' = q /\ m \in ToBroker /\ m.type = v /\ m.serial = s
    BY <2>1, <2>2, <2>3, <1>9, MessageTypes DEF Answered
  <2>5. Carries(m) /\ m.type \notin Calls
    BY <2>4, MessageTypes
  <2>6. s \notin Carried(to_broker)
    BY <1>9 DEF FlowInv, CarryInv
  <2>7. /\ q \in Seq(ToBroker)
        /\ Carried(q) = Carried(to_broker) \cup {s}
        /\ CarriesOnce(to_broker) => CarriesOnce(q)
        /\ NoneOf(q, Calls)
    BY <2>3, <2>4, <2>5, <2>6, <1>4, <1>5, QueueAppend
  <2>8. PhaseInv'
    BY <2>1, <1>3 DEF FlowInv, PhaseInv
  <2>9. QueuesOK' /\ CallInv'
    BY <2>4, <2>7, <1>3, <1>6 DEF QueuesOK, CallInv
  <2>10. CarryInv'
    BY <2>1, <2>4, <2>7, <1>3, <1>8, <1>9 DEF FlowInv, CarryInv
  <2> QED BY <2>8, <2>9, <2>10 DEF FlowInv
<1> QED BY <1>10, <1>11, <1>12 DEF Verdicts

\* The launcher reads, or is told that it should.
LEMMA FlowRead ==
    ASSUME FlowInv,
           \/ FileChanges \/ DirChanges \/ WatchDir \/ ListDir \/ LoadPolicy
           \/ OnSighup \/ OnDirwatch
    PROVE  FlowInv'
<1>1. CASE FileChanges \/ DirChanges
  <2>1. UNCHANGED <<phase, waiting, cause, to_broker, to_launcher, reloads, serial>>
    BY <1>1 DEF FileChanges, DirChanges, bus
  <2>2. PhaseInv'
    BY <2>1 DEF FlowInv, PhaseInv
  <2> QED BY <2>1, <2>2, FlowQuiet
<1>2. CASE WatchDir \/ ListDir \/ LoadPolicy
  <2>1. UNCHANGED <<waiting, cause, to_broker, to_launcher, reloads, serial>>
        /\ phase \in {"dir", "loaded"} /\ phase' \in {"dir", "loaded", "remove"}
    BY <1>2 DEF WatchDir, ListDir, LoadPolicy, NextStep, bus
  <2>2. PhaseInv'
    BY <2>1 DEF FlowInv, PhaseInv
  <2> QED BY <2>1, <2>2, FlowQuiet
<1>3. CASE OnSighup \/ OnDirwatch
  <2>1. PICK who \in Sources : /\ ReloadConfig(who)
                               /\ UNCHANGED to_launcher
    BY <1>3 DEF OnSighup, OnDirwatch, Sources
  <2>2. phase = "idle" /\ cause = Start /\ ~waiting /\ UNCHANGED <<waiting, reloads, serial>>
    BY <2>1 DEF ReloadConfig, FlowInv, PhaseInv, bus
  <2>3. /\ UNCHANGED to_broker
        /\ (phase' = "dir" /\ cause' = who) \/ (phase' = "idle" /\ cause' = Start)
    BY <2>1, <2>2 DEF ReloadConfig, ParseConfig, Ignore, Answer, Answered
  <2>4. cause \notin Serials /\ cause' \in {Start, Sighup, Dirwatch} /\ who # Start
    BY <2>2, <2>3, Causes
  <2>5. PhaseInv'
    BY <2>2, <2>3, <2>4 DEF FlowInv, PhaseInv
  <2> QED BY <2>1, <2>2, <2>3, <2>4, <2>5, FlowQuiet
<1> QED BY <1>1, <1>2, <1>3

\* The reply the launcher waits for is there.
LEMMA ReplyThere ==
    ASSUME FlowInv, waiting, NEW v \in Replies, Found(to_launcher, v)
    PROVE  NoneOf(to_broker, Calls) /\ OneOf(to_launcher, Replies)
<1>1. to_launcher \in Seq(ToLauncher)
  BY DEF FlowInv, QueuesOK
<1>2. ~NoneOf(to_launcher, Replies)
  <2>1. DOMAIN to_launcher = 1 .. Len(to_launcher)
    BY <1>1
  <2> QED BY <2>1 DEF NoneOf, Found
<1> QED BY <1>2 DEF FlowInv, CallInv

\* A reload ends.
LEMMA FlowEnds ==
    ASSUME FlowInv, Running, LoadFails \/ ReloadDone \/ CallFails
    PROVE  FlowInv'
<1>1. PICK v \in Verdicts : Finish(v)
  BY DEF LoadFails, ReloadDone, CallFails, Verdicts
<1>2. /\ cause # Start
      /\ ~waiting' /\ waiting' \in BOOLEAN
      /\ UNCHANGED <<reloads, serial>>
  <2>1. CASE LoadFails
    BY <2>1 DEF LoadFails, FlowInv, PhaseInv, bus
  <2>2. CASE ReloadDone
    BY <2>2 DEF ReloadDone, FlowInv, PhaseInv, bus, calling
  <2>3. CASE CallFails
    BY <2>3 DEF CallFails, bus, calling
  <2> QED BY <2>1, <2>2, <2>3
<1>3. phase' = "idle" /\ cause' = Start /\ to_broker' = Answered(cause, v)
  BY <1>1 DEF Finish, Answer
<1>4. PhaseInv'
  BY <1>2, <1>3 DEF PhaseInv
<1>5. /\ NoneOf(to_broker, Calls)
      /\ to_launcher' \in Seq(ToLauncher) /\ NoneOf(to_launcher', Replies)
      /\ CarriesOnce(to_launcher') /\ Carried(to_launcher') = Carried(to_launcher)
  <2>1. CASE LoadFails \/ ReloadDone
    <3>1. ~waiting /\ to_launcher' = to_launcher
      BY <2>1 DEF LoadFails, ReloadDone, FlowInv, PhaseInv
    <3> QED BY <3>1 DEF FlowInv, QueuesOK, CallInv, CarryInv
  <2>2. CASE CallFails
    <3>1. waiting /\ Found(to_launcher, "refused") /\ "refused" \in Replies
      BY <2>2 DEF CallFails, CallError, Replies
    <3>2. NoneOf(to_broker, Calls) /\ OneOf(to_launcher, Replies)
      BY <3>1, ReplyThere
    <3>3. PICK r : r = Without(to_launcher, "refused")
      OBVIOUS
    <3>4. to_launcher' = r
      BY <2>2, <3>3 DEF CallFails
    <3>5. to_launcher \in Seq(ToLauncher) /\ CarriesOnce(to_launcher)
      BY DEF FlowInv, QueuesOK, CarryInv
    <3>6. r \in Seq(ToLauncher) /\ Carried(r) = Carried(to_launcher) /\ CarriesOnce(r)
          /\ NoneOf(r, Replies)
      BY ONLY <3>1, <3>2, <3>3, <3>5, QueueWithout
    <3> QED BY <3>2, <3>4, <3>6
  <2> QED BY <2>1, <2>2
<1> QED BY <1>1, <1>2, <1>3, <1>4, <1>5, FlowFinish

\* The launcher finds its call answered.
LEMMA FlowReturned ==
    ASSUME FlowInv, Returned
    PROVE  FlowInv'
<1>1. /\ waiting /\ Found(to_launcher, "ok") /\ waiting' = FALSE /\ "ok" \in Replies
      /\ to_launcher' = Without(to_launcher, "ok")
      /\ UNCHANGED <<cause, to_broker, reloads, serial>>
  BY DEF Returned, Reply, Replies, calling, bus
<1>2. NoneOf(to_broker, Calls) /\ OneOf(to_launcher, Replies)
  BY <1>1, ReplyThere
<1>3. PICK r : r = Without(to_launcher, "ok")
  OBVIOUS
<1>4. to_launcher' = r
  BY <1>1, <1>3
<1>5. to_launcher \in Seq(ToLauncher) /\ CarriesOnce(to_launcher)
  BY DEF FlowInv, QueuesOK, CarryInv
<1>6. r \in Seq(ToLauncher) /\ Carried(r) = Carried(to_launcher) /\ CarriesOnce(r)
      /\ NoneOf(r, Replies)
  <2>1. Found(to_launcher, "ok") /\ "ok" \in Replies
    BY <1>1
  <2> QED BY ONLY <1>2, <1>3, <1>5, <2>1, QueueWithout
<1>7. PhaseInv'
  <2>1. \/ phase = "remove" /\ phase' = phase
        \/ phase = "policy" /\ phase' = "add"
        \/ phase = "add" /\ phase' = "add"
        \/ phase = "listener" /\ phase' \in {"metrics", "idle"}
        \/ phase = "metrics" /\ phase' = "idle"
    BY <1>1 DEF Returned, FlowInv, PhaseInv
  <2> QED BY <1>1, <2>1 DEF FlowInv, PhaseInv
<1>8. QueuesOK' /\ CallInv'
  BY <1>1, <1>2, <1>4, <1>6 DEF FlowInv, QueuesOK, CallInv
<1>9. CarryInv'
  BY <1>1, <1>4, <1>6 DEF FlowInv, CarryInv
<1> QED BY <1>7, <1>8, <1>9 DEF FlowInv

\* The service with the least id is one of those asked for.
LEMMA LeastIn ==
    ASSUME ServicesOK, NEW S \in SUBSET Names, S # {}
    PROVE  Least(S) \in S
<1> DEFINE ids == {services[n].id : n \in S}
<1>1. ids \subseteq Nat /\ ids # {}
  BY DEF ServicesOK, Service
<1>2. PICK i \in ids : \A j \in ids : i <= j
  BY <1>1, LeastElement
<1>3. \E n \in S : \A o \in S : services[n].id <= services[o].id
  BY <1>2
<1> QED BY <1>3 DEF Least

\* The launcher makes one of its calls.
LEMMA FlowCalls ==
    ASSUME FlowInv, ServicesOK, policy \in Nat,
           RemoveServices \/ SetPolicy \/ AddServices \/ AddListener \/ AddMetrics
    PROVE  FlowInv'
<1> DEFINE Sends(m) ==
             /\ m \in ToBroker /\ m.type \in Calls
             /\ ~waiting /\ waiting' /\ waiting' \in BOOLEAN
             /\ to_broker' = Append(to_broker, m)
             /\ UNCHANGED <<cause, to_launcher, reloads, serial>>
<1>1. ASSUME NEW m, Sends(m), PhaseInv' PROVE FlowInv'
  BY <1>1, FlowCall
<1>2. CASE RemoveServices
  <2>1. PICK n : n = Least(Outdated)
    OBVIOUS
  <2>2. n \in Names
    BY <1>2, <2>1, LeastIn DEF RemoveServices, Outdated
  <2>3. CASE services[n].running
    <3>1. PICK m : m = [type |-> "Release", id |-> services[n].id]
      OBVIOUS
    <3>2. m \in ToBroker /\ m.type \in Calls
      <4>1. services[n].id \in Nat
        BY <2>2 DEF ServicesOK, Service
      <4> QED BY <3>1, <4>1 DEF ToBroker, Calls
    <3>3. ServiceRemove(n) /\ UNCHANGED calling /\ phase = "remove"
      BY <1>2, <2>1 DEF RemoveServices
    <3>4. Call(m) /\ UNCHANGED phase
      BY <2>3, <3>1, <3>3 DEF ServiceRemove
    <3>5. Sends(m)
      BY <3>2, <3>3, <3>4 DEF Call, calling, bus
    <3>6. PhaseInv'
      BY <3>3, <3>4, <3>5 DEF FlowInv, PhaseInv
    <3> QED BY <3>5, <3>6, <1>1
  <2>4. CASE ~services[n].running
    <3>1. UNCHANGED <<phase, waiting, cause, to_broker, to_launcher, reloads, serial>>
      BY <1>2, <2>1, <2>4 DEF RemoveServices, ServiceRemove, calling, bus
    <3>2. PhaseInv'
      BY <3>1 DEF FlowInv, PhaseInv
    <3> QED BY <3>1, <3>2, FlowQuiet
  <2> QED BY <2>3, <2>4
<1>3. CASE SetPolicy \/ AddListener
  <2>1. PICK t \in {"SetPolicy", "AddListener"} :
          /\ phase = IF t = "SetPolicy" THEN "remove" ELSE "add"
          /\ phase' = IF t = "SetPolicy" THEN "policy" ELSE "listener"
          /\ t = "AddListener" => cause = Start
          /\ Call([type |-> t, policy |-> policy])
          /\ UNCHANGED calling
    BY <1>3 DEF SetPolicy, AddListener
  <2>2. PICK m : m = [type |-> t, policy |-> policy]
    OBVIOUS
  <2>3. m \in ToBroker /\ m.type \in Calls
    BY <2>2 DEF ToBroker, Calls
  <2>4. Sends(m)
    BY <2>1, <2>2, <2>3 DEF Call, calling, bus
  <2>5. PhaseInv'
    BY <2>1, <2>4 DEF FlowInv, PhaseInv
  <2> QED BY <2>4, <2>5, <1>1
<1>4. CASE AddServices
  <2>1. PICK n : n = Least(Idling)
    OBVIOUS
  <2>2. n \in Names
    BY <1>4, <2>1, LeastIn DEF AddServices, Idling
  <2>3. PICK m : m = [type |-> "AddName", id |-> services[n].id, name |-> n]
    OBVIOUS
  <2>4. m \in ToBroker /\ m.type \in Calls
    <3>1. services[n].id \in Nat
      BY <2>2 DEF ServicesOK, Service
    <3> QED BY <2>2, <2>3, <3>1 DEF ToBroker, Calls
  <2>5. Call(m) /\ UNCHANGED calling /\ UNCHANGED phase /\ phase = "add"
    BY <1>4, <2>1, <2>3 DEF AddServices
  <2>6. Sends(m)
    BY <2>4, <2>5 DEF Call, calling, bus
  <2>7. PhaseInv'
    BY <2>5, <2>6 DEF FlowInv, PhaseInv
  <2> QED BY <2>6, <2>7, <1>1
<1>5. CASE AddMetrics
  <2>1. PICK m : m = [type |-> "AddMetrics"]
    OBVIOUS
  <2>2. m \in ToBroker /\ m.type \in Calls
    BY <2>1 DEF ToBroker, Calls
  <2>3. Call(m) /\ UNCHANGED calling /\ UNCHANGED phase /\ phase = "metrics"
    BY <1>5, <2>1 DEF AddMetrics
  <2>4. Sends(m)
    BY <2>2, <2>3 DEF Call, calling, bus
  <2>5. PhaseInv'
    BY <2>3, <2>4 DEF FlowInv, PhaseInv
  <2> QED BY <2>4, <2>5, <1>1
<1> QED BY <1>2, <1>3, <1>4, <1>5

\* The broker is done with a reload.
LEMMA FlowDispatch ==
    ASSUME FlowInv, DispatchReply
    PROVE  FlowInv'
<1>1. PICK x : x = Head(to_broker)
  OBVIOUS
<1>2. PICK r : r = Tail(to_broker)
  OBVIOUS
<1>3. /\ to_broker # <<>> /\ to_broker \in Seq(ToBroker)
  BY DEF DispatchReply, Receive, FlowInv, QueuesOK
<1>4. /\ to_broker' = r /\ x.type \in Verdicts /\ x.serial \in DOMAIN reloads
      /\ reloads' = Restrict(reloads, DOMAIN reloads \ {x.serial})
      /\ UNCHANGED <<phase, waiting, cause, to_launcher, serial>>
  BY <1>1, <1>2 DEF DispatchReply, Receive, Verdicts, elsewhere, launcher
<1>5. /\ r \in Seq(ToBroker) /\ x \in ToBroker
      /\ CarriesOnce(to_broker) =>
            /\ CarriesOnce(r)
            /\ Carried(r) = IF Carries(x) THEN Carried(to_broker) \ {x.serial}
                            ELSE Carried(to_broker)
      /\ Carries(x) => x.serial \in Carried(to_broker)
      /\ \A T : NoneOf(to_broker, T) => x.type \notin T /\ NoneOf(r, T)
      /\ \A T : x.type \notin T /\ OneOf(to_broker, T) => OneOf(r, T)
  BY ONLY <1>1, <1>2, <1>3, QueueTail, ZenonT(60)
<1>6. Carries(x) /\ x.type \notin Calls
  BY <1>4, <1>5, MessageTypes
<1>7. QueuesOK' /\ CallInv' /\ PhaseInv'
  BY <1>4, <1>5, <1>6 DEF FlowInv, QueuesOK, CallInv, PhaseInv
<1>8. CarryInv'
  <2> DEFINE s == x.serial
  <2>1. /\ s \in Carried(to_broker) /\ CarriesOnce(r) /\ Carried(r) = Carried(to_broker) \ {s}
        /\ DOMAIN reloads' = DOMAIN reloads \ {s}
    BY <1>4, <1>5, <1>6 DEF FlowInv, CarryInv, Restrict
  <2> HIDE DEF s
  <2> QED BY <1>4, <2>1 DEF FlowInv, CarryInv
<1> QED BY <1>7, <1>8 DEF FlowInv

\* A serial that controller_reload_new() takes is one, and a new one.
LEMMA FreshSerial ==
    ASSUME serial \in 0 .. SerialSpace - 1, NEW S, S = {i \in 1 .. SerialSpace - 1 : Usable(i)}
    PROVE  /\ S # {} => Tried(Min(S)) \in Serials \ DOMAIN reloads
           /\ Tried(SerialSpace - 1) \in 0 .. SerialSpace - 1
<1>1. SerialSpace \in Nat /\ SerialSpace > 1 /\ serial \in Nat
  BY ControlAssumption
<1>2. \A i \in Nat : Tried(i) \in 0 .. SerialSpace - 1
  BY <1>1 DEF Tried
<1>3. ASSUME S # {} PROVE Tried(Min(S)) \in Serials \ DOMAIN reloads
  <2>1. S \subseteq Nat
    BY <1>1
  <2>2. PICK m \in S : \A n \in S : m <= n
    BY <1>3, <2>1, LeastElement
  <2>3. Min(S) \in S
    BY <2>2 DEF Min
  <2>4. Usable(Min(S)) /\ Min(S) \in Nat
    BY <2>1, <2>3
  <2> QED BY <1>1, <1>2, <2>4 DEF Usable, Serials
<1>4. SerialSpace - 1 \in Nat
  BY <1>1
<1> QED BY <1>2, <1>3, <1>4

\* A peer asks for a reload.
LEMMA FlowRequest ==
    ASSUME FlowInv, PeerReloads
    PROVE  FlowInv'
<1>1. PICK p \in DOMAIN peers, S \in SUBSET (1 .. SerialSpace - 1) :
        /\ S = {i \in 1 .. SerialSpace - 1 : Usable(i)}
        /\ \/ S # {} /\ RequestReload(p, Tried(Min(S)))
           \/ S # {} /\ RefuseReload(Tried(Min(S)))
           \/ S = {} /\ RefuseReload(Tried(SerialSpace - 1))
        /\ UNCHANGED <<phase, waiting, cause, to_broker>>
  BY DEF PeerReloads, elsewhere, launcher
<1>2. serial \in 0 .. SerialSpace - 1
  BY DEF FlowInv, CarryInv
<1>3. /\ S # {} => Tried(Min(S)) \in Serials \ DOMAIN reloads
      /\ Tried(SerialSpace - 1) \in 0 .. SerialSpace - 1
  BY <1>1, <1>2, FreshSerial
<1>4. PhaseInv'
  BY <1>1 DEF FlowInv, PhaseInv
<1>5. Serials \subseteq 0 .. SerialSpace - 1
  BY ControlAssumption DEF Serials
<1>6. CASE \E s \in Serials \ DOMAIN reloads : RequestReload(p, s)
  <2>1. PICK s \in Serials \ DOMAIN reloads : RequestReload(p, s)
    BY <1>6
  <2>2. PICK m : m = [type |-> "ReloadConfig", serial |-> s]
    OBVIOUS
  <2>3. PICK q : q = Append(to_launcher, m)
    OBVIOUS
  <2>4. m \in ToLauncher /\ m.type = "ReloadConfig" /\ m.serial = s
    BY <2>2, MessageTypes
  <2>5. Carries(m) /\ m.type \notin Replies
    BY <2>4, MessageTypes
  <2>6. /\ to_launcher' = q /\ serial' = s /\ DOMAIN reloads' = DOMAIN reloads \cup {s}
    BY <2>1, <2>2, <2>3 DEF RequestReload
  <2>7. to_launcher \in Seq(ToLauncher)
    BY DEF FlowInv, QueuesOK
  <2>8. /\ q \in Seq(ToLauncher)
        /\ Carried(q) = Carried(to_launcher) \cup {s}
        /\ CarriesOnce(to_launcher) /\ s \notin Carried(to_launcher) => CarriesOnce(q)
        /\ \A T : m.type \notin T /\ NoneOf(to_launcher, T) => NoneOf(q, T)
        /\ \A T : m.type \notin T /\ OneOf(to_launcher, T) => OneOf(q, T)
    BY ONLY <2>3, <2>4, <2>5, <2>7, QueueAppend
  <2>9. QueuesOK' /\ CallInv'
    BY <1>1, <2>5, <2>6, <2>8 DEF FlowInv, QueuesOK, CallInv
  <2>10. s \notin Carried(to_launcher) /\ s \notin Carried(to_broker) /\ s # cause
    BY DEF FlowInv, CarryInv
  <2>11. CarryInv'
    BY <1>1, <1>5, <2>6, <2>8, <2>10 DEF FlowInv, CarryInv
  <2> QED BY <1>4, <2>9, <2>11 DEF FlowInv
<1>7. CASE \E s \in 0 .. SerialSpace - 1 : RefuseReload(s)
  <2>1. serial' \in 0 .. SerialSpace - 1 /\ UNCHANGED <<reloads, to_launcher>>
    BY <1>7 DEF RefuseReload
  <2> QED BY <1>1, <1>4, <2>1 DEF FlowInv, QueuesOK, CallInv, CarryInv
<1> QED BY <1>1, <1>3, <1>5, <1>6, <1>7

\* Calls, replies and reloads, in every step that leaves both processes alive.
LEMMA FlowStep ==
    ASSUME FlowInv, ServicesOK, policy \in Nat, Running,
           LauncherStep \/ BrokerStep \/ UNCHANGED vars
    PROVE  FlowInv'
<1>1. CASE \/ FileChanges \/ DirChanges \/ OnSighup \/ OnDirwatch
           \/ WatchDir \/ ListDir \/ LoadPolicy
  BY <1>1, FlowRead
<1>2. CASE BusMethodReloadConfig
  BY <1>2, FlowReload
<1>3. CASE LoadFails \/ ReloadDone \/ CallFails
  BY <1>3, FlowEnds
<1>4. CASE RemoveServices \/ SetPolicy \/ AddServices \/ AddListener \/ AddMetrics
  BY <1>4, FlowCalls
<1>5. CASE Returned
  BY <1>5, FlowReturned
<1>6. CASE MethodAddName \/ MethodNameRelease \/ MethodAddListener \/ MethodAddMetrics
           \/ MethodSetPolicy
  <2>1. /\ UNCHANGED <<phase, waiting, cause, reloads, serial>>
        /\ \E types \in SUBSET Calls : Receive(types)
        /\ \E v \in Replies : to_launcher' = Append(to_launcher, [type |-> v])
    BY <1>6 DEF MethodAddName, MethodNameRelease, MethodAddListener, MethodAddMetrics,
                MethodSetPolicy, SendReply, elsewhere, launcher, Calls, Replies
  <2> QED BY <2>1, FlowReply
<1>7. CASE DispatchReply
  BY <1>7, FlowDispatch
<1>8. CASE Accept \/ PeerFree \/ UNCHANGED vars
  <2>1. UNCHANGED <<phase, waiting, cause, to_broker, to_launcher, reloads, serial>>
    BY <1>8 DEF Accept, PeerFree, elsewhere, launcher, vars, bus
  <2>2. PhaseInv'
    BY <2>1 DEF FlowInv, PhaseInv
  <2> QED BY <2>1, <2>2, FlowQuiet
<1>9. CASE PeerReloads
  BY <1>9, FlowRequest
<1> QED BY <1>1, <1>2, <1>3, <1>4, <1>5, <1>6, <1>7, <1>8, <1>9 DEF LauncherStep, BrokerStep

-----------------------------------------------------------------------------
(* Services *)

\* Files are numbered from 1, each with a number of its own.
LEMMA NumberingIs ==
    ASSUME NEW S, IsFiniteSet(S)
    PROVE  /\ Cardinality(S) \in Nat
           /\ Numbering(S) \in [S -> 1 .. Cardinality(S)]
           /\ \A m, n \in S : Numbering(S)[m] = Numbering(S)[n] => m = n
<1> DEFINE N == 1 .. Cardinality(S)
<1>1. Cardinality(S) \in Nat /\ ExistsBijection(N, S)
  BY FS_CardinalityType
<1>2. PICK g \in Bijection(N, S) : TRUE
  BY <1>1 DEF ExistsBijection
<1>3. g \in [N -> S] /\ (\A i, j \in N : g[i] = g[j] => i = j) /\ \A n \in S : \E i \in N : g[i] = n
  BY <1>2 DEF Bijection, Injection, Surjection, IsInjective
<1> DEFINE f == [n \in S |-> CHOOSE i \in N : g[i] = n]
<1> HIDE DEF N
<1>4. \A n \in S : f[n] \in N /\ g[f[n]] = n
  BY <1>3
<1>5. f \in [S -> N] /\ \A m, n \in S : f[m] = f[n] => m = n
  BY <1>4
<1> HIDE DEF f
<1>6. \E h \in [S -> N] : \A m, n \in DOMAIN h : h[m] = h[n] => m = n
  BY <1>5
<1>7. PICK h : h = CHOOSE x \in [S -> N] : \A m, n \in DOMAIN x : x[m] = x[n] => m = n
  OBVIOUS
<1>8. h \in [S -> N] /\ \A m, n \in DOMAIN h : h[m] = h[n] => m = n
  BY <1>6, <1>7
<1>9. Numbering(S) = h
  BY <1>7 DEF Numbering, IsInjective, N
<1> QED BY <1>1, <1>8, <1>9 DEF N

\* What Least, Outdated and Idling are in terms of services, before a step and after.
LEMMA Selections ==
    /\ Outdated = OutdatedOf(services) /\ Outdated' = OutdatedOf(services')
    /\ Idling = IdlingOf(services) /\ Idling' = IdlingOf(services')
    /\ Least(Outdated) = ToRemove(services) /\ Least(Idling) = ToAdd(services)
<1>1. /\ Outdated = OutdatedOf(services) /\ Outdated' = OutdatedOf(services')
      /\ Idling = IdlingOf(services) /\ Idling' = IdlingOf(services')
  BY DEF Outdated, OutdatedOf, Idling, IdlingOf
<1>2. \A S : Least(S) = LeastOf(services, S)
  BY DEF Least, LeastOf
<1> QED BY <1>1, <1>2 DEF ToRemove, ToAdd

\* The services to remove and to add are some of them.
LEMMA Selected ==
    ASSUME ServicesOK
    PROVE  /\ OutdatedOf(services) # {} => ToRemove(services) \in OutdatedOf(services)
           /\ IdlingOf(services) # {} => ToAdd(services) \in IdlingOf(services)
<1>1. OutdatedOf(services) \subseteq Names /\ IdlingOf(services) \subseteq Names
  BY DEF OutdatedOf, IdlingOf
<1>2. Outdated \subseteq Names /\ Idling \subseteq Names
  BY DEF Outdated, Idling
<1> QED BY <1>2, Selections, LeastIn

\* Services are marked for the reload.
LEMMA ServicesMarked ==
    ASSUME ServicesOK, NEW who, ReloadConfig(who)
    PROVE  /\ ServicesOK'
           /\ \A n \in Names : /\ services'[n].id = services[n].id
                               /\ services'[n].running = services[n].running
                               /\ services'[n].tag = FALSE
<1>1. services' = [n \in Names |-> [services[n] EXCEPT !.tag = FALSE]] /\ service_ids' = service_ids
  BY DEF ReloadConfig
<1>2. \A n \in Names : /\ services[n] \in Service
                       /\ services'[n] = [services[n] EXCEPT !.tag = FALSE]
  BY <1>1 DEF ServicesOK
<1>3. \A n \in Names : /\ services'[n] \in Service
                       /\ services'[n].id = services[n].id
                       /\ services'[n].running = services[n].running
                       /\ services'[n].tag = FALSE
  BY <1>2 DEF Service
<1>4. services' \in [Names -> Service]
  BY <1>1, <1>3
<1> QED BY <1>1, <1>3, <1>4 DEF ServicesOK

\* The files of a directory are loaded: what was not there gets the next ids.
LEMMA ServicesLoaded ==
    ASSUME ServicesOK, NEW d \in Nat, Listed(d) \subseteq Names, LoadServiceFiles(d)
    PROVE  /\ ServicesOK'
           /\ \A n \in Names :
                 /\ services'[n].running = services[n].running
                 /\ services[n].id # 0 => services'[n].id = services[n].id
                 /\ services'[n].tag <=> services[n].tag \/ n \in Listed(d)
                 /\ services'[n].dir = IF n \in Listed(d) /\ ~services[n].tag THEN d
                                       ELSE services[n].dir
<1> DEFINE S == {n \in Listed(d) : services[n].id = 0}
           c == Cardinality(S)
           rank == Numbering(S)
<1>1. IsFiniteSet(S)
  BY ControlAssumption, FS_Subset
<1>2. /\ c \in Nat /\ rank \in [S -> 1 .. c]
      /\ \A m, n \in S : rank[m] = rank[n] => m = n
  BY <1>1, NumberingIs
<1>3. /\ services' = [n \in Names |->
               IF n \notin Listed(d) \/ services[n].tag THEN services[n]
               ELSE IF services[n].id = 0
               THEN [id |-> service_ids + rank[n], running |-> FALSE,
                     tag |-> TRUE, dir |-> d]
               ELSE [services[n] EXCEPT !.tag = TRUE, !.dir = d]]
      /\ service_ids' = service_ids + Cardinality(DOMAIN rank)
  BY DEF LoadServiceFiles
<1>4. DOMAIN rank = S
  BY <1>2
<1>5. service_ids' = service_ids + c
  BY <1>3, <1>4
<1>6. \A n \in Listed(d) : services[n].id = 0 <=> n \in S
  OBVIOUS
<1> HIDE DEF S, c, rank
<1>7. ASSUME NEW n \in Names
      PROVE  /\ services'[n] \in Service
             /\ services'[n].running = services[n].running
             /\ services[n].id # 0 => services'[n].id = services[n].id
             /\ services[n].id = 0 /\ services'[n].id # 0 =>
                   n \in S /\ services'[n].id = service_ids + rank[n]
             /\ services'[n].tag <=> services[n].tag \/ n \in Listed(d)
             /\ services'[n].dir = IF n \in Listed(d) /\ ~services[n].tag THEN d
                                   ELSE services[n].dir
             /\ services'[n].id <= service_ids'
             /\ services'[n].running \/ services'[n].tag => services'[n].id # 0
  <2>1. /\ services[n] \in Service /\ service_ids \in Nat
        /\ services[n].id <= service_ids
        /\ services[n].running \/ services[n].tag => services[n].id # 0
    BY DEF ServicesOK
  <2>2. CASE n \notin Listed(d) \/ services[n].tag
    <3>1. services'[n] = services[n]
      BY <1>3, <2>2
    <3> QED BY <3>1, <2>1, <2>2, <1>2, <1>5 DEF Service
  <2>3. CASE n \in Listed(d) /\ ~services[n].tag /\ services[n].id = 0
    <3>1. services'[n] = [id |-> service_ids + rank[n], running |-> FALSE, tag |-> TRUE, dir |-> d]
      BY <1>3, <2>3
    <3>2. n \in S /\ rank[n] \in 1 .. c
      BY <1>2, <1>6, <2>3
    <3>3. ~services[n].running /\ services[n].running \in BOOLEAN
      BY <2>1, <2>3 DEF Service
    <3>4. service_ids + rank[n] \in Nat /\ service_ids + rank[n] # 0
          /\ service_ids + rank[n] <= service_ids'
      BY <3>2, <2>1, <1>2, <1>5
    <3>5. /\ services'[n] \in Service
          /\ services'[n].id = service_ids + rank[n] /\ services'[n].running = FALSE
          /\ services'[n].tag = TRUE /\ services'[n].dir = d
      BY ONLY <3>1, <3>4, d \in Nat DEF Service
    <3> QED BY <3>2, <3>3, <3>4, <3>5, <2>3
  <2>4. CASE n \in Listed(d) /\ ~services[n].tag /\ services[n].id # 0
    <3>1. services'[n] = [services[n] EXCEPT !.tag = TRUE, !.dir = d]
      BY <1>3, <2>4
    <3>2. /\ services'[n] \in Service
          /\ services'[n].id = services[n].id /\ services'[n].running = services[n].running
          /\ services'[n].tag = TRUE /\ services'[n].dir = d
      BY <3>1, <2>1 DEF Service
    <3> QED BY <3>2, <2>1, <2>4, <1>2, <1>5 DEF Service
  <2> QED BY <2>2, <2>3, <2>4
<1>8. services' \in [Names -> Service]
  BY <1>3, <1>7
<1>9. service_ids' \in Nat /\ service_ids \in Nat
  BY <1>2, <1>5 DEF ServicesOK
<1>10. ASSUME NEW m \in Names, NEW n \in Names, services'[m].id = services'[n].id,
              services'[n].id # 0
       PROVE  m = n
  <2>1. /\ services[m].id \in Nat /\ services[n].id \in Nat
        /\ services[m].id <= service_ids /\ services[n].id <= service_ids
        /\ services[m].id = services[n].id /\ services[n].id # 0 => m = n
    BY DEF ServicesOK, Service
  <2>2. CASE services[m].id # 0 /\ services[n].id # 0
    BY <2>1, <2>2, <1>7, <1>10
  <2>3. CASE services[m].id = 0 /\ services[n].id = 0
    <3>1. m \in S /\ n \in S /\ services'[m].id = service_ids + rank[m]
          /\ services'[n].id = service_ids + rank[n]
      BY <2>3, <1>7, <1>10
    <3>2. rank[m] \in Nat /\ rank[n] \in Nat
      BY <3>1, <1>2
    <3> QED BY <3>1, <3>2, <1>2, <1>9, <1>10
  <2>4. CASE services[m].id = 0 /\ services[n].id # 0
    <3>1. m \in S /\ services'[m].id = service_ids + rank[m] /\ services'[n].id = services[n].id
      BY <2>4, <1>7, <1>10
    <3>2. rank[m] \in 1 .. c
      BY <3>1, <1>2
    <3> QED BY <3>1, <3>2, <2>1, <1>2, <1>9, <1>10
  <2>5. CASE services[m].id # 0 /\ services[n].id = 0
    <3>1. n \in S /\ services'[n].id = service_ids + rank[n] /\ services'[m].id = services[m].id
      BY <2>5, <1>7, <1>10
    <3>2. rank[n] \in 1 .. c
      BY <3>1, <1>2
    <3> QED BY <3>1, <3>2, <2>1, <1>2, <1>9, <1>10
  <2> QED BY <2>2, <2>3, <2>4, <2>5
<1> QED BY <1>7, <1>8, <1>9, <1>10 DEF ServicesOK

\* A service is freed ...
LEMMA ServiceFreed ==
    ASSUME ServicesOK, NEW n \in Names, services' = [services EXCEPT ![n] = NoService],
           service_ids' = service_ids
    PROVE  ServicesOK'
<1>1. NoService \in Service /\ NoService.id = 0 /\ ~NoService.running /\ ~NoService.tag
  BY DEF NoService, Service
<1>2. services' \in [Names -> Service] /\ services'[n] = NoService
      /\ \A m \in Names : m # n => services'[m] = services[m]
  BY <1>1 DEF ServicesOK
<1> QED BY <1>1, <1>2 DEF ServicesOK, Service

\* ... or runs.
LEMMA ServiceRuns ==
    ASSUME ServicesOK, NEW n \in Names, services[n].id # 0,
           services' = [services EXCEPT ![n].running = TRUE], service_ids' = service_ids
    PROVE  ServicesOK'
<1>1. services[n] \in Service /\ services'[n] = [services[n] EXCEPT !.running = TRUE]
  BY DEF ServicesOK
<1>2. services'[n] \in Service /\ services'[n].id = services[n].id
      /\ services'[n].tag = services[n].tag
  BY <1>1 DEF Service
<1>3. services' \in [Names -> Service] /\ \A m \in Names : m # n => services'[m] = services[m]
  BY <1>2 DEF ServicesOK
<1>4. \A m \in Names : services'[m].id = services[m].id /\ services'[m].tag = services[m].tag
                       /\ (m # n => services'[m].running = services[m].running)
  BY <1>2, <1>3
<1> QED BY <1>3, <1>4 DEF ServicesOK

-----------------------------------------------------------------------------
(* Names *)

\* What runs runs on.
LEMMA AgreeSame ==
    ASSUME NEW nm, NEW s, NEW t, Agree(nm, s),
           \A n \in Names : /\ t[n].running = s[n].running
                            /\ s[n].running => t[n].id = s[n].id
    PROVE  Agree(nm, t)
<1>1. {t[n].id : n \in {m \in Names : t[m].running}} = {s[n].id : n \in {m \in Names : s[m].running}}
  OBVIOUS
<1> QED BY <1>1 DEF Agree

\* The broker adds the name of a service that does not run yet.
LEMMA AgreeAdded ==
    ASSUME ServicesOK, NEW nm, Agree(nm, services), NEW n \in Names,
           services[n].id # 0, ~services[n].running,
           NEW om, om = [i \in DOMAIN nm \cup {services[n].id} |->
                            IF i = services[n].id THEN n ELSE nm[i]]
    PROVE  Agree(om, [services EXCEPT ![n].running = TRUE])
<1>1. PICK t : t = [services EXCEPT ![n].running = TRUE]
  OBVIOUS
<1>2. services[n] \in Service /\ t[n] = [services[n] EXCEPT !.running = TRUE]
      /\ \A m \in Names : m # n => t[m] = services[m]
  BY <1>1 DEF ServicesOK
<1>3. t[n].running /\ t[n].id = services[n].id
  BY <1>2 DEF Service
<1>4. \A m \in Names : /\ t[m].running <=> services[m].running \/ m = n
                       /\ t[m].id = services[m].id
                       /\ services[m].id = services[n].id => m = n
  BY <1>2, <1>3 DEF ServicesOK
<1>5. DOMAIN om = DOMAIN nm \cup {services[n].id} /\ om = [i \in DOMAIN om |-> om[i]]
  OBVIOUS
<1>6. DOMAIN om = {t[m].id : m \in {m \in Names : t[m].running}}
  BY <1>4, <1>5 DEF Agree
<1>7. ASSUME NEW m \in Names, t[m].running PROVE om[t[m].id] = m
  <2>1. CASE m = n
    BY <2>1, <1>3
  <2>2. CASE m # n
    <3>1. services[m].running /\ services[m].id # services[n].id /\ services[m].id \in DOMAIN nm
          /\ nm[services[m].id] = m
      BY <2>2, <1>4, <1>7 DEF Agree
    <3> QED BY <3>1, <1>4
  <2> QED BY <2>1, <2>2
<1>8. Agree(om, t)
  BY <1>5, <1>6, <1>7 DEF Agree
<1> QED BY <1>1, <1>8

\* The broker releases the name of a service that runs.
LEMMA AgreeRemoved ==
    ASSUME ServicesOK, NEW nm, Agree(nm, services), NEW n \in Names, services[n].running,
           NEW om, om = Restrict(nm, DOMAIN nm \ {services[n].id})
    PROVE  Agree(om, [services EXCEPT ![n] = NoService])
<1>1. PICK t : t = [services EXCEPT ![n] = NoService]
  OBVIOUS
<1>2. t[n] = NoService /\ ~NoService.running /\ \A m \in Names : m # n => t[m] = services[m]
  BY <1>1 DEF ServicesOK, NoService
<1>3. \A m \in Names : services[m].id = services[n].id => m = n
  BY DEF ServicesOK
<1>4. \A m \in Names : /\ t[m].running <=> services[m].running /\ m # n
                       /\ m # n => t[m].id = services[m].id
  BY <1>2
<1>5. /\ DOMAIN om = DOMAIN nm \ {services[n].id} /\ om = [i \in DOMAIN om |-> om[i]]
      /\ \A i \in DOMAIN om : om[i] = nm[i]
  BY DEF Restrict
<1>6. DOMAIN om = {t[m].id : m \in {m \in Names : t[m].running}}
  <2>1. ASSUME NEW i \in DOMAIN om PROVE \E m \in Names : t[m].running /\ i = t[m].id
    <3>1. i \in DOMAIN nm /\ i # services[n].id
      BY <1>5
    <3>2. PICK m \in Names : services[m].running /\ i = services[m].id
      BY <3>1 DEF Agree
    <3> QED BY <3>1, <3>2, <1>4
  <2>2. ASSUME NEW m \in Names, t[m].running PROVE t[m].id \in DOMAIN om
    <3>1. services[m].running /\ m # n /\ t[m].id = services[m].id
      BY <2>2, <1>4
    <3>2. services[m].id \in DOMAIN nm
      BY <3>1 DEF Agree
    <3> QED BY <3>1, <3>2, <1>3, <1>5
  <2> QED BY <2>1, <2>2
<1>7. ASSUME NEW m \in Names, t[m].running PROVE om[t[m].id] = m
  <2>1. services[m].running /\ m # n /\ t[m].id = services[m].id /\ nm[services[m].id] = m
        /\ services[m].id \in DOMAIN nm
    BY <1>4, <1>7 DEF Agree
  <2> QED BY <2>1, <1>3, <1>5
<1>8. Agree(om, t)
  BY <1>5, <1>6, <1>7 DEF Agree
<1> QED BY <1>1, <1>8

\* Nothing is confirmed before a call is made.
LEMMA NothingFound ==
    ASSUME FlowInv, ~waiting
    PROVE  ~Found(to_launcher, "ok")
<1>1. NoneOf(to_launcher, Replies) /\ to_launcher \in Seq(ToLauncher)
  BY DEF FlowInv, CallInv, QueuesOK
<1>2. NoneOf(to_launcher, {"ok"})
  BY <1>1 DEF NoneOf, Replies
<1> QED BY <1>1, <1>2, FoundOrNone

\* Nothing is asked of the broker.
LEMMA NameIdle ==
    ASSUME NameInv, ServicesOK', ~waiting, ~waiting', names' = names,
           \A n \in Names : /\ services'[n].running = services[n].running
                            /\ services[n].running => services'[n].id = services[n].id
    PROVE  NameInv'
<1>1. Agree(names, services)
  BY DEF NameInv, Confirmed
<1>2. Agree(names, services')
  BY <1>1, AgreeSame
<1>3. Agree(names', services') /\ ~Confirmed'
  BY <1>2 DEF Confirmed
<1>4. ExpectInv'
  BY DEF ExpectInv
<1> QED BY <1>3, <1>4 DEF NameInv

\* The launcher makes a call.
LEMMA NameCall ==
    ASSUME FlowInv, NameInv, NEW m \in ToBroker, ~waiting, waiting',
           to_broker' = Append(to_broker, m),
           UNCHANGED <<services, service_ids, policy, names, to_launcher>>,
           m = Expected(phase', policy, services),
           phase' = "remove" => /\ OutdatedOf(services) # {}
                                /\ services[ToRemove(services)].running,
           phase' = "add" => IdlingOf(services) # {}
    PROVE  NameInv'
<1>1. Agree(names, services) /\ ServicesOK
  BY DEF NameInv, Confirmed
<1>2. NoneOf(to_broker, Calls) /\ NoneOf(to_launcher, Replies)
  BY DEF FlowInv, CallInv
<1>3. to_broker \in Seq(ToBroker) /\ to_launcher \in Seq(ToLauncher)
  BY DEF FlowInv, QueuesOK
<1>4. ~Found(to_launcher, "ok")
  BY NothingFound
<1>5. ~Confirmed' /\ Agree(names', services') /\ ServicesOK'
  BY <1>1, <1>4 DEF Confirmed, ServicesOK, Found
<1>6. OnlyCall(Append(to_broker, m), m)
  BY ONLY <1>2, <1>3, m \in ToBroker, OneCall
<1>7. OnlyCall(to_broker', Expected(phase', policy', services'))
  BY <1>6
<1>8. ExpectInv'
  <2>1. services' = services
    OBVIOUS
  <2> QED BY <1>7, <2>1 DEF ExpectInv
<1> QED BY <1>5, <1>8 DEF NameInv

\* Calls and replies go their way.
LEMMA NamePassing ==
    ASSUME NameInv, UNCHANGED <<phase, waiting, policy, services, service_ids, names>>,
           \A m : OnlyCall(to_broker, m) => OnlyCall(to_broker', m),
           Found(to_launcher', "ok") <=> Found(to_launcher, "ok")
    PROVE  NameInv'
<1>1. ServicesOK'
  BY DEF NameInv, ServicesOK
<1>2. Confirmed' <=> Confirmed
  BY DEF Confirmed
<1>3. ExpectInv'
  BY DEF NameInv, ExpectInv
<1> QED BY <1>1, <1>2, <1>3 DEF NameInv

\* What the type of the call says about the launcher.
LEMMA ExpectedTypes ==
    ASSUME PhaseInv, waiting, NEW m, m = Expected(phase, policy, services)
    PROVE  /\ m.type = "Release" => phase = "remove" /\ m.id = services[ToRemove(services)].id
           /\ m.type = "AddName" => /\ phase = "add"
                                    /\ m.id = services[ToAdd(services)].id
                                    /\ m.name = ToAdd(services)
           /\ m.type = "SetPolicy" => phase = "policy" /\ m.policy = policy
           /\ m.type = "AddListener" => phase = "listener" /\ m.policy = policy
           /\ m.type = "AddMetrics" => phase = "metrics"
           /\ m.type \in Calls
<1>1. phase \in {"remove", "policy", "add", "listener", "metrics"}
  BY DEF PhaseInv
<1>2. CASE phase = "remove"
  <2>1. m = [type |-> "Release", id |-> services[ToRemove(services)].id]
    BY <1>2 DEF Expected
  <2> QED BY ONLY <2>1, <1>2 DEF Calls
<1>3. CASE phase = "policy"
  <2>1. m = [type |-> "SetPolicy", policy |-> policy]
    BY <1>3 DEF Expected
  <2> QED BY ONLY <2>1, <1>3 DEF Calls
<1>4. CASE phase = "add"
  <2>1. m = [type |-> "AddName", id |-> services[ToAdd(services)].id, name |-> ToAdd(services)]
    BY <1>4 DEF Expected
  <2> QED BY ONLY <2>1, <1>4 DEF Calls
<1>5. CASE phase = "listener"
  <2>1. m = [type |-> "AddListener", policy |-> policy]
    BY <1>5 DEF Expected
  <2> QED BY ONLY <2>1, <1>5 DEF Calls
<1>6. CASE phase = "metrics"
  <2>1. m = [type |-> "AddMetrics"]
    BY <1>6 DEF Expected
  <2> QED BY ONLY <2>1, <1>6 DEF Calls
<1> QED BY <1>1, <1>2, <1>3, <1>4, <1>5, <1>6

\* The broker replies to the call it expects.
LEMMA NameReply ==
    ASSUME FlowInv, NameInv, NEW types \in SUBSET Calls, Receive(types), NEW v \in Replies,
           to_launcher' = Append(to_launcher, [type |-> v]),
           UNCHANGED <<phase, waiting, cause, services, service_ids, policy, reloads, serial>>
    PROVE  /\ waiting /\ ~Confirmed
           /\ Head(to_broker) = Expected(phase, policy, services)
           /\ Head(to_broker).type \in types
           /\ Confirmed' <=> v = "ok"
           /\ ExpectInv' /\ ServicesOK'
<1>1. waiting /\ NoneOf(to_launcher, Replies)
  BY FlowReply
<1>2. to_broker \in Seq(ToBroker) /\ to_broker # <<>>
  BY DEF FlowInv, QueuesOK, Receive
<1>3. to_launcher \in Seq(ToLauncher)
  BY DEF FlowInv, QueuesOK
<1>4. PICK m : m = [type |-> v]
  OBVIOUS
<1>5. PICK q : q = Append(to_launcher, m)
  OBVIOUS
<1>6. m \in ToLauncher /\ m.type = v /\ to_launcher' = q
  BY <1>4, <1>5, MessageTypes
<1>7. NoneOf(to_launcher, {"ok"})
  BY <1>1 DEF NoneOf, Replies
<1>8. q \in Seq(ToLauncher) /\ (NoneOf(q, {"ok"}) <=> v # "ok")
  <2> DEFINE T == {"ok"}
  <2>1. m \in ToLauncher /\ (m.type \in T <=> v = "ok") /\ NoneOf(to_launcher, T)
    BY <1>6, <1>7
  <2> SUFFICES q \in Seq(ToLauncher) /\ (NoneOf(q, T) <=> v # "ok")
    OBVIOUS
  <2> HIDE DEF T
  <2>2. q \in Seq(ToLauncher)
    BY ONLY <1>3, <1>5, <2>1, QueueAppend
  <2>3. NoneOf(q, T) => m.type \notin T
    BY ONLY <1>3, <1>5, <2>1, QueueAppend, ZenonT(60)
  <2>4. m.type \notin T => NoneOf(q, T)
    BY ONLY <1>3, <1>5, <2>1, QueueAppend
  <2> QED BY ONLY <2>1, <2>2, <2>3, <2>4
<1>9. ~Found(to_launcher, "ok") /\ (Found(q, "ok") <=> v = "ok")
  BY <1>3, <1>7, <1>8, FoundOrNone
<1>10. ~Confirmed /\ (Confirmed' <=> v = "ok")
  BY <1>1, <1>6, <1>9 DEF Confirmed
<1>11. OnlyCall(to_broker, Expected(phase, policy, services))
  BY <1>1 DEF NameInv, ExpectInv
<1>12. to_broker' = Tail(to_broker) /\ Head(to_broker).type \in types
       /\ Head(to_broker).type \in Calls
  BY DEF Receive
<1>13. /\ OnlyCall(Tail(to_broker), Expected(phase, policy, services))
       /\ Head(to_broker).type \in Calls => Head(to_broker) = Expected(phase, policy, services)
  BY ONLY <1>2, <1>11, OneCall
<1>14. ExpectInv' /\ ServicesOK'
  BY <1>12, <1>13 DEF NameInv, ExpectInv, ServicesOK
<1> QED BY <1>1, <1>10, <1>12, <1>13, <1>14

\* The broker adds a name.
LEMMA NameAdded ==
    ASSUME FlowInv, NameInv, MethodAddName
    PROVE  NameInv'
<1>1. PICK m : m = Head(to_broker)
  OBVIOUS
<1>2. PICK ok \in BOOLEAN :
        ok = (m.name \notin Unclaimable \cup Range(names) /\ m.id \notin DOMAIN names)
  OBVIOUS
<1>3. /\ Receive({"AddName"})
      /\ names' = IF ok THEN [i \in DOMAIN names \cup {m.id} |->
                                 IF i = m.id THEN m.name ELSE names[i]]
                  ELSE names
      /\ SendReply(ok)
      /\ UNCHANGED <<phase, waiting, cause, services, service_ids, policy, reloads, serial>>
  BY <1>1, <1>2 DEF MethodAddName, elsewhere, launcher
<1>4. PICK v \in Replies : (v = "ok" <=> ok) /\ to_launcher' = Append(to_launcher, [type |-> v])
  BY <1>3 DEF SendReply, Replies
<1>5. {"AddName"} \in SUBSET Calls
  BY DEF Calls
<1>6. /\ waiting /\ ~Confirmed
      /\ m = Expected(phase, policy, services) /\ m.type = "AddName"
      /\ Confirmed' <=> v = "ok"
      /\ ExpectInv' /\ ServicesOK'
  BY <1>1, <1>3, <1>4, <1>5, NameReply
<1> DEFINE n == ToAdd(services)
<1>7. phase = "add" /\ m.id = services[n].id /\ m.name = n
  BY <1>6, ExpectedTypes DEF FlowInv
<1>8. n \in Names /\ services[n].id # 0 /\ ~services[n].running
  <2>1. IdlingOf(services) # {} /\ ServicesOK
    BY <1>6, <1>7 DEF NameInv, ExpectInv
  <2> QED BY <2>1, Selected DEF IdlingOf
<1>9. Agree(names, services)
  BY <1>6 DEF NameInv
<1>10. Acknowledged(phase', services') = [services EXCEPT ![n].running = TRUE]
  BY <1>3, <1>7 DEF Acknowledged
<1> HIDE DEF n
<1>11. CASE ok
  <2>1. names' = [i \in DOMAIN names \cup {services[n].id} |->
                    IF i = services[n].id THEN n ELSE names[i]]
    BY <1>3, <1>7, <1>11
  <2>2. Agree(names', [services EXCEPT ![n].running = TRUE])
    <3>1. ServicesOK
      BY DEF NameInv
    <3> QED BY ONLY <3>1, <1>8, <1>9, <2>1, AgreeAdded
  <2> QED BY <1>4, <1>6, <1>10, <1>11, <2>2 DEF NameInv
<1>12. CASE ~ok
  <2>1. Agree(names', services') /\ ~Confirmed'
    BY <1>3, <1>4, <1>6, <1>9, <1>12
  <2> QED BY <1>6, <2>1 DEF NameInv
<1> QED BY <1>11, <1>12

\* The broker releases a name.
LEMMA NameReleased ==
    ASSUME FlowInv, NameInv, MethodNameRelease
    PROVE  NameInv'
<1>1. PICK m : m = Head(to_broker)
  OBVIOUS
<1>2. PICK ok : ok <=> m.id \in DOMAIN names
  OBVIOUS
<1>3. /\ Receive({"Release"})
      /\ names' = Restrict(names, DOMAIN names \ {m.id})
      /\ SendReply(ok)
      /\ UNCHANGED <<phase, waiting, cause, services, service_ids, policy, reloads, serial>>
  BY <1>1, <1>2 DEF MethodNameRelease, elsewhere, launcher
<1>4. PICK v \in Replies : (v = "ok" <=> ok) /\ to_launcher' = Append(to_launcher, [type |-> v])
  BY <1>3 DEF SendReply, Replies
<1>5. {"Release"} \in SUBSET Calls
  BY DEF Calls
<1>6. /\ waiting /\ ~Confirmed
      /\ m = Expected(phase, policy, services) /\ m.type = "Release"
      /\ Confirmed' <=> v = "ok"
      /\ ExpectInv' /\ ServicesOK'
  BY <1>1, <1>3, <1>4, <1>5, NameReply
<1> DEFINE n == ToRemove(services)
<1>7. phase = "remove" /\ m.id = services[n].id
  BY <1>6, ExpectedTypes DEF FlowInv
<1>8. n \in Names /\ services[n].running
  <2>1. OutdatedOf(services) # {} /\ ServicesOK /\ services[n].running
    BY <1>6, <1>7 DEF NameInv, ExpectInv
  <2> QED BY <2>1, Selected DEF OutdatedOf
<1>9. Agree(names, services)
  BY <1>6 DEF NameInv
<1>10. Acknowledged(phase', services') = [services EXCEPT ![n] = NoService]
  BY <1>3, <1>7 DEF Acknowledged
<1> HIDE DEF n
<1>11. ok
  BY <1>2, <1>7, <1>8, <1>9 DEF Agree
<1>12. names' = Restrict(names, DOMAIN names \ {services[n].id})
  BY <1>3, <1>7
<1>13. Agree(names', [services EXCEPT ![n] = NoService])
  <2>1. ServicesOK
    BY DEF NameInv
  <2> QED BY ONLY <2>1, <1>8, <1>9, <1>12, AgreeRemoved
<1> QED BY <1>4, <1>6, <1>10, <1>11, <1>13 DEF NameInv

\* The broker replies to a call that is about something else.
LEMMA NameUntouched ==
    ASSUME FlowInv, NameInv, MethodAddListener \/ MethodAddMetrics \/ MethodSetPolicy
    PROVE  NameInv'
<1>1. PICK types \in SUBSET {"AddListener", "AddMetrics", "SetPolicy"} : Receive(types)
  BY DEF MethodAddListener, MethodAddMetrics, MethodSetPolicy
<1>2. PICK v \in Replies : to_launcher' = Append(to_launcher, [type |-> v])
  BY DEF MethodAddListener, MethodAddMetrics, MethodSetPolicy, SendReply, Replies
<1>3. UNCHANGED <<phase, waiting, cause, services, service_ids, policy, names, reloads, serial>>
  BY DEF MethodAddListener, MethodAddMetrics, MethodSetPolicy, elsewhere, launcher
<1>4. types \in SUBSET Calls
  BY DEF Calls
<1>5. /\ waiting /\ ~Confirmed
      /\ Head(to_broker) = Expected(phase, policy, services)
      /\ Head(to_broker).type \in types
      /\ ExpectInv' /\ ServicesOK'
  BY <1>1, <1>2, <1>3, <1>4, NameReply
<1>6. phase \notin {"add", "remove"}
  <2>1. PICK m : m = Expected(phase, policy, services)
    OBVIOUS
  <2>2. m.type \notin {"AddName", "Release"}
    BY <1>5, <2>1
  <2>3. CASE phase = "add"
    BY <2>1, <2>2, <2>3 DEF Expected
  <2>4. CASE phase = "remove"
    BY <2>1, <2>2, <2>4 DEF Expected
  <2> QED BY <2>3, <2>4
<1>7. Agree(names, services)
  BY <1>5 DEF NameInv
<1>8. Acknowledged(phase', services') = services'
  BY <1>3, <1>6 DEF Acknowledged
<1> QED BY <1>3, <1>5, <1>7, <1>8 DEF NameInv

\* The launcher takes up or declines a reload, which nothing waits for.
LEMMA NameReload ==
    ASSUME FlowInv, NameInv, NEW who, ReloadConfig(who)
    PROVE  NameInv'
<1>1. /\ ~waiting /\ ~waiting' /\ names' = names
  BY DEF ReloadConfig, FlowInv, PhaseInv, bus
<1>2. ServicesOK
  BY DEF NameInv
<1>3. ServicesOK' /\ \A n \in Names : /\ services'[n].id = services[n].id
                                      /\ services'[n].running = services[n].running
  BY <1>2, ServicesMarked
<1> QED BY <1>1, <1>3, NameIdle

\* The directory the launcher is at, and what it does with it.
LEMMA DirIs ==
    ASSUME at \in 1 .. 2 * Len(Dirs)
    PROVE  /\ Dir \in DOMAIN Dirs /\ Dir \in Nat
           /\ Step = "watch" => at = 2 * Dir - 1
           /\ Step = "list" => at = 2 * Dir
           /\ Step \in {"watch", "list"}
<1>1. Len(Dirs) \in Nat /\ DOMAIN Dirs = 1 .. Len(Dirs)
  BY ControlAssumption
<1>2. at \in Nat /\ at >= 1 /\ at <= 2 * Len(Dirs)
  BY <1>1
<1>3. PICK k \in Nat : at = 2 * k \/ at = 2 * k + 1
  <2>1. at \div 2 \in Nat /\ (at = 2 * (at \div 2) \/ at = 2 * (at \div 2) + 1)
    BY <1>2
  <2> QED BY <2>1
<1>4. CASE at = 2 * k
  <2>1. Dir = k
    BY <1>4, <1>3 DEF Dir
  <2>2. k >= 1 /\ ((at - 1) % 2) + 1 = 2
    BY <1>2, <1>3, <1>4
  <2>3. Step = "list"
    BY <2>2 DEF Step, DirSteps
  <2> QED BY <1>1, <1>2, <1>3, <1>4, <2>1, <2>2, <2>3
<1>5. CASE at = 2 * k + 1
  <2>1. Dir = k + 1
    BY <1>5, <1>3 DEF Dir
  <2>2. ((at - 1) % 2) + 1 = 1
    BY <1>2, <1>3, <1>5
  <2>3. Step = "watch"
    BY <2>2 DEF Step, DirSteps
  <2> QED BY <1>1, <1>2, <1>3, <1>5, <2>1, <2>3
<1> QED BY <1>3, <1>4, <1>5

\* The launcher reads, or ends a reload on its own.
LEMMA NameRead ==
    ASSUME FlowInv, NameInv, DiskInv,
           WatchDir \/ ListDir \/ LoadPolicy \/ LoadFails \/ ReloadDone
    PROVE  NameInv'
<1>1. ServicesOK
  BY DEF NameInv
<1>2. CASE WatchDir \/ LoadPolicy \/ LoadFails \/ ReloadDone
  <2>1. ~waiting /\ ~waiting' /\ UNCHANGED <<names, services, service_ids>>
    BY <1>2 DEF WatchDir, LoadPolicy, LoadFails, ReloadDone, FlowInv, PhaseInv, bus, calling
  <2>2. ServicesOK'
    BY <1>1, <2>1 DEF ServicesOK
  <2> QED BY <2>1, <2>2, NameIdle
<1>3. CASE ListDir
  <2>1. ~waiting /\ ~waiting' /\ names' = names /\ LoadServiceFiles(Dir) /\ phase = "dir"
    BY <1>3 DEF ListDir, FlowInv, PhaseInv, bus
  <2>2. Dir \in Nat /\ Listed(Dir) \subseteq Names
    BY <2>1, DirIs DEF DiskInv, Listed
  <2>3. PICK d : d = Dir
    OBVIOUS
  <2>4. ServicesOK' /\ \A n \in Names : /\ services'[n].running = services[n].running
                                        /\ services[n].id # 0 => services'[n].id = services[n].id
    BY <1>1, <2>1, <2>2, <2>3, ServicesLoaded
  <2>5. \A n \in Names : services[n].running => services[n].id # 0
    BY <1>1 DEF ServicesOK
  <2> QED BY <2>1, <2>4, <2>5, NameIdle
<1> QED BY <1>2, <1>3

\* The launcher removes a service.
LEMMA NameRemove ==
    ASSUME FlowInv, NameInv, RemoveServices
    PROVE  NameInv'
<1> DEFINE n == ToRemove(services)
<1>1. ServicesOK
  BY DEF NameInv
<1>2. /\ phase = "remove" /\ ~waiting /\ OutdatedOf(services) # {} /\ UNCHANGED calling
      /\ ServiceRemove(n)
  BY Selections DEF RemoveServices
<1>3. n \in Names
  BY <1>1, <1>2, Selected DEF OutdatedOf
<1>4. names' = names /\ policy' = policy
  BY <1>2 DEF calling, bus
<1>5. CASE services[n].running
  <2>1. PICK m : m = [type |-> "Release", id |-> services[n].id]
    OBVIOUS
  <2>2. Call(m) /\ UNCHANGED <<phase, services>>
    BY <1>2, <1>5, <2>1 DEF ServiceRemove
  <2>3. m \in ToBroker
    <3>1. services[n].id \in Nat
      BY <1>1, <1>3 DEF ServicesOK, Service
    <3> QED BY <2>1, <3>1 DEF ToBroker
  <2>4. m = Expected(phase', policy, services)
    BY <1>2, <2>1, <2>2 DEF Expected
  <2>5. waiting' /\ to_broker' = Append(to_broker, m) /\ UNCHANGED <<service_ids, to_launcher>>
    BY <2>2 DEF Call
  <2>6. phase' = "remove"
    BY <1>2, <2>2
  <2>7. UNCHANGED <<services, service_ids, policy, names, to_launcher>>
    BY <1>4, <2>2, <2>5
  <2> QED BY <1>2, <1>5, <2>3, <2>4, <2>5, <2>6, <2>7, NameCall
<1>6. CASE ~services[n].running
  <2>1. services' = [services EXCEPT ![n] = NoService] /\ UNCHANGED <<waiting, service_ids>>
    BY <1>2, <1>6 DEF ServiceRemove
  <2> HIDE DEF n
  <2>2. ServicesOK'
    BY <1>1, <1>3, <2>1, ServiceFreed
  <2>3. ~NoService.running /\ services[n].running = FALSE /\ NoService.running = FALSE
    BY <1>1, <1>3, <1>6 DEF NoService, ServicesOK, Service
  <2>4. services'[n] = NoService /\ \A m \in Names : m # n => services'[m] = services[m]
    BY <1>1, <1>3, <2>1 DEF ServicesOK
  <2>5. \A m \in Names : /\ services'[m].running = services[m].running
                         /\ services[m].running => services'[m].id = services[m].id
    BY <2>3, <2>4
  <2> QED BY <1>2, <1>4, <2>1, <2>2, <2>5, NameIdle
<1> QED BY <1>5, <1>6

\* The other calls of the launcher.
LEMMA NameCalls ==
    ASSUME FlowInv, NameInv, policy \in Nat,
           SetPolicy \/ AddServices \/ AddListener \/ AddMetrics
    PROVE  NameInv'
<1>1. ServicesOK
  BY DEF NameInv
<1> DEFINE Sends(m) == /\ Call(m) /\ UNCHANGED <<services, calling>>
                       /\ m = Expected(phase', policy, services)
                       /\ m \in ToBroker
                       /\ phase' # "remove"
                       /\ phase' = "add" => IdlingOf(services) # {}
<1>2. ASSUME NEW m, Sends(m) PROVE NameInv'
  <2>1. ~waiting /\ waiting' /\ to_broker' = Append(to_broker, m)
        /\ UNCHANGED <<services, service_ids, policy, names, to_launcher>>
    BY <1>2 DEF Call, calling, bus
  <2>2. /\ m = Expected(phase', policy, services) /\ m \in ToBroker
        /\ phase' # "remove" /\ (phase' = "add" => IdlingOf(services) # {})
    BY <1>2
  <2> HIDE DEF Sends
  <2> QED BY <2>1, <2>2, NameCall
<1>3. CASE SetPolicy
  <2>1. PICK m : m = [type |-> "SetPolicy", policy |-> policy]
    OBVIOUS
  <2>2. m \in ToBroker
    BY <2>1 DEF ToBroker
  <2>3. phase' = "policy" /\ Call(m) /\ UNCHANGED <<services, calling>>
    BY <1>3, <2>1 DEF SetPolicy
  <2>4. m = Expected(phase', policy, services)
    BY <2>1, <2>3 DEF Expected
  <2> QED BY <2>2, <2>3, <2>4, <1>2
<1>4. CASE AddListener
  <2>1. PICK m : m = [type |-> "AddListener", policy |-> policy]
    OBVIOUS
  <2>2. m \in ToBroker
    BY <2>1 DEF ToBroker
  <2>3. phase' = "listener" /\ Call(m) /\ UNCHANGED <<services, calling>>
    BY <1>4, <2>1 DEF AddListener
  <2>4. m = Expected(phase', policy, services)
    BY <2>1, <2>3 DEF Expected
  <2> QED BY <2>2, <2>3, <2>4, <1>2
<1>5. CASE AddMetrics
  <2>1. PICK m : m = [type |-> "AddMetrics"]
    OBVIOUS
  <2>2. m \in ToBroker
    BY <2>1 DEF ToBroker
  <2>3. phase' = "metrics" /\ Call(m) /\ UNCHANGED <<services, calling>>
    BY <1>5, <2>1 DEF AddMetrics
  <2>4. m = Expected(phase', policy, services)
    BY <2>1, <2>3 DEF Expected
  <2> QED BY <2>2, <2>3, <2>4, <1>2
<1>6. CASE AddServices
  <2>1. PICK n : n = ToAdd(services)
    OBVIOUS
  <2>2. PICK m : m = [type |-> "AddName", id |-> services[n].id, name |-> n]
    OBVIOUS
  <2>3. IdlingOf(services) # {} /\ phase = "add" /\ phase' = "add" /\ Call(m)
        /\ UNCHANGED <<services, calling>>
    BY <1>6, <2>1, <2>2, Selections DEF AddServices
  <2>4. n \in Names
    BY <1>1, <2>1, <2>3, Selected DEF IdlingOf
  <2>5. m \in ToBroker
    <3>1. services[n].id \in Nat
      BY <1>1, <2>4 DEF ServicesOK, Service
    <3> QED BY <2>2, <2>4, <3>1 DEF ToBroker
  <2>6. m = Expected(phase', policy, services)
    BY <2>1, <2>2, <2>3 DEF Expected
  <2> QED BY <2>3, <2>5, <2>6, <1>2
<1> QED BY <1>3, <1>4, <1>5, <1>6

\* The call succeeded.
LEMMA NameReturned ==
    ASSUME FlowInv, NameInv, Returned
    PROVE  NameInv'
<1>1. ServicesOK
  BY DEF NameInv
<1>2. Confirmed /\ waiting /\ waiting' = FALSE /\ UNCHANGED <<names, service_ids, policy>>
  BY DEF Returned, Reply, Confirmed, calling, bus
<1>3. Agree(names, Acknowledged(phase, services))
  BY <1>2 DEF NameInv
<1>4. services' = Acknowledged(phase, services)
  <2>1. CASE phase = "remove"
    <3>1. services' = [services EXCEPT ![Least(Outdated)] = NoService]
      BY <2>1 DEF Returned
    <3> QED BY <2>1, <3>1, Selections DEF Acknowledged
  <2>2. CASE phase = "add"
    <3>1. services' = [services EXCEPT ![Least(Idling)].running = TRUE]
      BY <2>2 DEF Returned
    <3> QED BY <2>2, <3>1, Selections DEF Acknowledged
  <2>3. CASE phase \notin {"remove", "add"}
    <3>1. services' = services
      BY <2>3 DEF Returned
    <3> QED BY <2>3, <3>1 DEF Acknowledged
  <2> QED BY <2>1, <2>2, <2>3
<1>5. ServicesOK'
  <2>1. CASE phase = "remove"
    <3>1. ToRemove(services) \in Names
      BY <1>1, <1>2, <2>1, Selected DEF NameInv, ExpectInv, OutdatedOf
    <3>2. services' = [services EXCEPT ![ToRemove(services)] = NoService]
      BY <1>4, <2>1 DEF Acknowledged
    <3>3. PICK n : n = ToRemove(services)
      OBVIOUS
    <3> QED BY <1>1, <1>2, <3>1, <3>2, <3>3, ServiceFreed
  <2>2. CASE phase = "add"
    <3>1. ToAdd(services) \in Names /\ services[ToAdd(services)].id # 0
      BY <1>1, <1>2, <2>2, Selected DEF NameInv, ExpectInv, IdlingOf
    <3>2. services' = [services EXCEPT ![ToAdd(services)].running = TRUE]
      BY <1>4, <2>2 DEF Acknowledged
    <3>3. PICK n : n = ToAdd(services)
      OBVIOUS
    <3> QED BY <1>1, <1>2, <3>1, <3>2, <3>3, ServiceRuns
  <2>3. CASE phase \notin {"remove", "add"}
    BY <1>1, <1>2, <1>4, <2>3 DEF Acknowledged, ServicesOK
  <2> QED BY <2>1, <2>2, <2>3
<1>6. ~Confirmed' /\ ExpectInv' /\ Agree(names', services')
  BY <1>2, <1>3, <1>4 DEF Confirmed, ExpectInv
<1> QED BY <1>5, <1>6 DEF NameInv

\* The call was refused: the broker has done nothing.
LEMMA NameRefused ==
    ASSUME FlowInv, NameInv, Running, CallFails
    PROVE  NameInv'
<1>1. /\ waiting /\ Found(to_launcher, "refused")
      /\ waiting' = FALSE /\ UNCHANGED <<names, services, service_ids>>
  BY DEF CallFails, CallError, calling, bus
<1>2. OneOf(to_launcher, Replies)
  BY <1>1, ReplyThere DEF Replies
<1>3. ~Found(to_launcher, "ok")
  <2>1. DOMAIN to_launcher = 1 .. Len(to_launcher)
    BY DEF FlowInv, QueuesOK
  <2> QED BY <1>1, <1>2, <2>1 DEF OneOf, Found, Replies
<1>4. Agree(names, services) /\ ServicesOK
  BY <1>3 DEF NameInv, Confirmed
<1>5. ~Confirmed' /\ ExpectInv' /\ ServicesOK' /\ Agree(names', services')
  BY <1>1, <1>4 DEF Confirmed, ExpectInv, ServicesOK
<1> QED BY <1>5 DEF NameInv

\* What the peers of the broker do, and what it tells them, leaves the call alone.
LEMMA PeersPass ==
    ASSUME FlowInv,
           \/ FileChanges \/ DirChanges
           \/ DispatchReply \/ Accept \/ PeerFree \/ PeerReloads \/ UNCHANGED vars
    PROVE  /\ UNCHANGED <<phase, waiting, policy, services, service_ids, names>>
           /\ \A m : OnlyCall(to_broker, m) => OnlyCall(to_broker', m)
           /\ Found(to_launcher', "ok") <=> Found(to_launcher, "ok")
<1>1. UNCHANGED <<phase, waiting, policy, services, service_ids, names>>
  <2>1. CASE FileChanges \/ DirChanges
    BY <2>1 DEF FileChanges, DirChanges, bus
  <2>2. CASE DispatchReply \/ Accept
    BY <2>2 DEF DispatchReply, Accept, elsewhere, launcher
  <2>3. CASE PeerFree \/ PeerReloads \/ UNCHANGED vars
    BY <2>3 DEF PeerFree, PeerReloads, elsewhere, vars, launcher, bus
  <2> QED BY <2>1, <2>2, <2>3
<1>2. CASE FileChanges \/ DirChanges \/ Accept \/ PeerFree \/ UNCHANGED vars
  <2>1. UNCHANGED <<to_broker, to_launcher>>
    BY <1>2 DEF FileChanges, DirChanges, Accept, PeerFree, vars
  <2> QED BY <1>1, <2>1
<1>3. CASE DispatchReply
  <2>1. to_launcher' = to_launcher /\ to_broker # <<>> /\ to_broker' = Tail(to_broker)
    BY <1>3 DEF DispatchReply, Receive
  <2>2. to_broker \in Seq(ToBroker)
    BY DEF FlowInv, QueuesOK
  <2>3. \A m : OnlyCall(to_broker, m) => OnlyCall(Tail(to_broker), m)
    BY <2>1, <2>2, OneCall
  <2>4. \A m : OnlyCall(to_broker, m) => OnlyCall(to_broker', m)
    BY <2>1, <2>3
  <2> QED BY <1>1, <2>1, <2>4
<1>4. CASE PeerReloads
  <2>1. /\ to_broker' = to_broker
        /\ \/ to_launcher' = to_launcher
           \/ \E s : to_launcher' = Append(to_launcher, [type |-> "ReloadConfig", serial |-> s])
    BY <1>4 DEF PeerReloads, RequestReload, RefuseReload
  <2>2. Found(to_launcher', "ok") <=> Found(to_launcher, "ok")
    <3>1. CASE to_launcher' = to_launcher
      BY <3>1
    <3>2. ASSUME NEW s, to_launcher' = Append(to_launcher, [type |-> "ReloadConfig", serial |-> s])
          PROVE  Found(to_launcher', "ok") <=> Found(to_launcher, "ok")
      <4>1. PICK q, x : q = Append(to_launcher, x) /\ x = [type |-> "ReloadConfig", serial |-> s]
        OBVIOUS
      <4>2. x.type # "ok"
        BY <4>1
      <4>3. to_launcher \in Seq(ToLauncher)
        BY DEF FlowInv, QueuesOK
      <4>4. /\ DOMAIN q = 1 .. Len(to_launcher) + 1 /\ DOMAIN to_launcher = 1 .. Len(to_launcher)
            /\ q[Len(to_launcher) + 1] = x /\ Len(to_launcher) \in Nat
            /\ \A i \in 1 .. Len(to_launcher) : q[i] = to_launcher[i]
        BY <4>1, <4>3
      <4>5. DOMAIN q = DOMAIN to_launcher \cup {Len(to_launcher) + 1}
        BY <4>4
      <4>6. Found(q, "ok") <=> Found(to_launcher, "ok")
        BY ONLY <4>2, <4>4, <4>5 DEF Found
      <4> QED BY <3>2, <4>1, <4>6
    <3> QED BY <2>1, <3>1, <3>2
  <2> QED BY <1>1, <2>1, <2>2
<1> QED BY <1>2, <1>3, <1>4

\* The names of the broker, in every step that leaves both processes alive.
LEMMA NameStep ==
    ASSUME FlowInv, NameInv, DiskInv, policy \in Nat, Running,
           LauncherStep \/ BrokerStep \/ UNCHANGED vars
    PROVE  NameInv'
<1>1. CASE OnSighup \/ OnDirwatch \/ BusMethodReloadConfig
  BY <1>1, NameReload DEF OnSighup, OnDirwatch, BusMethodReloadConfig
<1>2. CASE WatchDir \/ ListDir \/ LoadPolicy \/ LoadFails \/ ReloadDone
  BY <1>2, NameRead
<1>3. CASE RemoveServices
  BY <1>3, NameRemove
<1>4. CASE SetPolicy \/ AddServices \/ AddListener \/ AddMetrics
  BY <1>4, NameCalls
<1>5. CASE Returned
  BY <1>5, NameReturned
<1>6. CASE CallFails
  BY <1>6, NameRefused
<1>7. CASE MethodAddName
  BY <1>7, NameAdded
<1>8. CASE MethodNameRelease
  BY <1>8, NameReleased
<1>9. CASE MethodAddListener \/ MethodAddMetrics \/ MethodSetPolicy
  BY <1>9, NameUntouched
<1>10. CASE \/ FileChanges \/ DirChanges
            \/ DispatchReply \/ Accept \/ PeerFree \/ PeerReloads \/ UNCHANGED vars
  BY <1>10, PeersPass, NamePassing
<1> QED BY <1>1, <1>2, <1>3, <1>4, <1>5, <1>6, <1>7, <1>8, <1>9, <1>10
        DEF LauncherStep, BrokerStep

-----------------------------------------------------------------------------
(* The policy *)

\* Nothing happens to the policy.
LEMMA PolicySame ==
    ASSUME PolicyInv, UNCHANGED <<policy, listener, peers>>,
           UpToDate' => UpToDate,
           listener = NoListener => /\ cause' = Start
                                    /\ phase' = "add" \/ (phase' = "listener" /\ ~Confirmed')
    PROVE  PolicyInv'
  BY DEF PolicyInv

\* The launcher reads a policy, or ends a reload.
LEMMA PolicyRead ==
    ASSUME FlowInv, PolicyInv, Running,
           \/ OnSighup \/ OnDirwatch \/ BusMethodReloadConfig
           \/ WatchDir \/ ListDir \/ LoadPolicy \/ LoadFails \/ ReloadDone \/ CallFails
    PROVE  PolicyInv'
<1>1. UNCHANGED <<listener, peers>>
  BY LauncherLeaves DEF LauncherStep, bus
<1>2. CASE OnSighup \/ OnDirwatch \/ BusMethodReloadConfig
  <2>1. PICK who : ReloadConfig(who)
    BY <1>2 DEF OnSighup, OnDirwatch, BusMethodReloadConfig
  <2>2. phase = "idle"
    BY <2>1 DEF ReloadConfig
  <2>3. listener # NoListener
    BY <2>2 DEF PolicyInv
  <2>4. policy' \in Nat /\ (phase' = "dir" \/ (phase' = "idle" /\ applied' = FALSE))
    <3>1. CASE ParseConfig(who)
      BY <3>1 DEF ParseConfig, PolicyInv
    <3>2. CASE Ignore(who, "invalid") \/ Ignore(who, "failed")
      BY <2>2, <3>2 DEF Ignore, PolicyInv
    <3> QED BY <2>1, <3>1, <3>2 DEF ReloadConfig
  <2>5. ~UpToDate'
    BY <2>4 DEF UpToDate, Settled
  <2> QED BY <1>1, <2>3, <2>4, <2>5 DEF PolicyInv
<1>3. CASE WatchDir \/ ListDir \/ LoadPolicy
  <2>1. phase \in {"dir", "loaded"} /\ phase' \in {"dir", "loaded", "remove"} /\ policy' = policy
    BY <1>3 DEF WatchDir, ListDir, LoadPolicy, NextStep
  <2>2. listener # NoListener /\ ~UpToDate'
    BY <2>1 DEF PolicyInv, UpToDate, Settled
  <2> QED BY <1>1, <2>1, <2>2, PolicySame
<1>4. CASE LoadFails \/ CallFails
  <2>1. Finish("failed") /\ policy' = policy
    BY <1>4 DEF LoadFails, CallFails, calling
  <2>2. phase' = "idle" /\ applied' = FALSE
    BY <2>1 DEF Finish
  <2>3. cause # Start
    BY <1>4 DEF LoadFails, CallFails, FlowInv, PhaseInv
  <2>4. listener # NoListener /\ ~UpToDate'
    BY <2>2, <2>3 DEF PolicyInv, UpToDate, Settled
  <2> QED BY <1>1, <2>1, <2>4, PolicySame
<1>5. CASE ReloadDone
  <2>1. phase = "add" /\ cause # Start /\ policy' = policy
    BY <1>5 DEF ReloadDone, calling
  <2>2. listener # NoListener /\ UpToDate
    BY <2>1 DEF PolicyInv, UpToDate
  <2> QED BY <1>1, <2>1, <2>2, PolicySame
<1> QED BY <1>2, <1>3, <1>4, <1>5

\* The launcher makes a call, or gets a reply.
LEMMA PolicyCalls ==
    ASSUME FlowInv, PolicyInv,
           RemoveServices \/ SetPolicy \/ AddServices \/ AddListener \/ AddMetrics \/ Returned
    PROVE  PolicyInv'
<1>1. UNCHANGED <<listener, peers, policy>>
  <2>1. UNCHANGED <<listener, peers>>
    BY LauncherLeaves DEF LauncherStep, bus
  <2>2. UNCHANGED policy
    BY DEF RemoveServices, SetPolicy, AddServices, AddListener, AddMetrics, Returned, calling
  <2> QED BY <2>1, <2>2
<1>2. CASE RemoveServices
  <2>1. phase = "remove" /\ phase' = "remove"
    BY <1>2 DEF RemoveServices, ServiceRemove
  <2>2. listener # NoListener /\ ~UpToDate'
    BY <2>1 DEF PolicyInv, UpToDate, Settled
  <2> QED BY <1>1, <2>2, PolicySame
<1>3. CASE SetPolicy \/ AddListener
  <2>1. /\ ~waiting /\ to_launcher' = to_launcher /\ cause' = cause
        /\ \/ phase = "remove" /\ phase' = "policy"
           \/ phase = "add" /\ phase' = "listener"
    BY <1>3 DEF SetPolicy, AddListener, Call
  <2>2. ~Confirmed'
    BY <2>1, NothingFound DEF Confirmed
  <2>3. ~UpToDate'
    BY <2>1, <2>2 DEF UpToDate, Settled
  <2> QED BY <1>1, <2>1, <2>2, <2>3, PolicySame DEF PolicyInv
<1>4. CASE AddServices \/ AddMetrics
  <2>1. phase \in {"add", "metrics"} /\ UNCHANGED <<phase, cause>>
    BY <1>4 DEF AddServices, AddMetrics, Call
  <2>2. UpToDate' => UpToDate
    BY <2>1 DEF UpToDate, Settled
  <2> QED BY <1>1, <2>1, <2>2, PolicySame DEF PolicyInv
<1>5. CASE Returned
  <2>1. Confirmed /\ cause' = cause
    BY <1>5 DEF Returned, Reply, Confirmed
  <2>2. \/ phase = "remove" /\ phase' = phase
        \/ phase = "policy" /\ phase' = "add"
        \/ phase = "add" /\ phase' = "add"
        \/ phase = "listener" /\ phase' \in {"metrics", "idle"}
        \/ phase = "metrics" /\ phase' = "idle"
    BY <1>5, <2>1 DEF Returned, Confirmed, FlowInv, PhaseInv
  <2>3. UpToDate' => UpToDate
    BY <2>1, <2>2 DEF UpToDate, Settled
  <2>4. listener = NoListener => cause' = Start /\ phase' = "add"
    BY <2>1, <2>2 DEF PolicyInv
  <2> QED BY <1>1, <2>3, <2>4, PolicySame
<1> QED BY <1>2, <1>3, <1>4, <1>5

\* The broker does what it was asked for.
LEMMA PolicyMethods ==
    ASSUME FlowInv, NameInv, PolicyInv,
           \/ MethodAddName \/ MethodNameRelease \/ MethodAddListener
           \/ MethodAddMetrics \/ MethodSetPolicy
    PROVE  PolicyInv'
<1>1. UNCHANGED <<phase, waiting, cause, services, service_ids, policy, applied>>
  BY BrokerLeaves DEF BrokerStep, launcher
<1>2. UNCHANGED <<reloads, serial>>
  BY DEF MethodAddName, MethodNameRelease, MethodAddListener, MethodAddMetrics, MethodSetPolicy
<1>3. ASSUME NEW t \in Calls, NEW v \in Replies, Receive({t}),
             to_launcher' = Append(to_launcher, [type |-> v])
      PROVE  /\ waiting /\ ~Confirmed /\ (Confirmed' <=> v = "ok")
             /\ Head(to_broker) = Expected(phase, policy, services)
             /\ Head(to_broker).type = t
  <2>1. PICK types \in SUBSET Calls : types = {t}
    OBVIOUS
  <2>2. Receive(types)
    BY <1>3, <2>1
  <2>3. /\ waiting /\ ~Confirmed /\ (Confirmed' <=> v = "ok")
        /\ Head(to_broker) = Expected(phase, policy, services)
        /\ Head(to_broker).type \in types
    BY <1>1, <1>2, <1>3, <2>2, NameReply
  <2> QED BY <2>1, <2>3
<1>4. CASE MethodAddName \/ MethodNameRelease \/ MethodAddMetrics
  <2>1. PICK t \in {"AddName", "Release", "AddMetrics"}, v \in Replies :
          Receive({t}) /\ to_launcher' = Append(to_launcher, [type |-> v])
    BY <1>4 DEF MethodAddName, MethodNameRelease, MethodAddMetrics, SendReply, Replies
  <2>2. t \in Calls
    BY DEF Calls
  <2>3. PICK m : m = Expected(phase, policy, services)
    OBVIOUS
  <2>4. m.type = t /\ waiting
    BY <1>3, <2>1, <2>2, <2>3
  <2>5. phase \in {"add", "remove", "metrics"}
    BY <2>3, <2>4, ExpectedTypes DEF FlowInv
  <2>6. UpToDate' => UpToDate
    BY <1>1, <2>5 DEF UpToDate, Settled
  <2>7. UNCHANGED <<listener, peers>>
    BY <1>4 DEF MethodAddName, MethodNameRelease, MethodAddMetrics
  <2> QED BY <1>1, <2>5, <2>6, <2>7, PolicySame DEF PolicyInv
<1>5. CASE MethodAddListener \/ MethodSetPolicy
  <2>1. PICK m : m = Head(to_broker)
    OBVIOUS
  <2>2. CASE MethodAddListener
    <3>1. PICK v \in Replies : /\ v = "ok" <=> listener = NoListener
                               /\ to_launcher' = Append(to_launcher, [type |-> v])
      BY <2>2 DEF MethodAddListener, SendReply, Replies
    <3>2. /\ Receive({"AddListener"}) /\ "AddListener" \in Calls
          /\ listener' = IF listener = NoListener THEN Effective(m.policy) ELSE listener
          /\ peers' = peers
      BY <2>1, <2>2 DEF MethodAddListener, Calls
    <3>3. /\ waiting /\ ~Confirmed /\ (Confirmed' <=> v = "ok")
          /\ m = Expected(phase, policy, services) /\ m.type = "AddListener"
      BY <1>3, <2>1, <3>1, <3>2
    <3>4. phase = "listener" /\ m.policy = policy
      BY <3>3, ExpectedTypes DEF FlowInv
    <3>5. CASE listener = NoListener
      <4>1. listener' = Effective(policy) /\ DOMAIN peers' = {}
        BY <3>2, <3>4, <3>5 DEF PolicyInv
      <4>2. listener' \in Nat /\ (~Zephyr => listener' = policy) /\ listener' # NoListener
        BY <4>1 DEF Effective, NoPolicy, NoListener, PolicyInv
      <4> QED BY <1>1, <4>1, <4>2 DEF PolicyInv
    <3>6. CASE listener # NoListener
      <4>1. UNCHANGED <<listener, peers, policy>> /\ ~UpToDate'
        BY <1>1, <3>1, <3>2, <3>3, <3>4, <3>6 DEF UpToDate, Settled
      <4> QED BY <3>6, <4>1, PolicySame
    <3> QED BY <3>5, <3>6
  <2>3. CASE MethodSetPolicy
    <3>1. /\ Receive({"SetPolicy"}) /\ "SetPolicy" \in Calls
          /\ listener' = Effective(m.policy)
          /\ peers' = [p \in DOMAIN peers |-> Effective(m.policy)]
      BY <2>1, <2>3 DEF MethodSetPolicy, ListenerSetPolicy, Calls
    <3>2. PICK v \in Replies : to_launcher' = Append(to_launcher, [type |-> v])
      BY <2>3 DEF MethodSetPolicy, SendReply, Replies
    <3>3. waiting /\ m = Expected(phase, policy, services) /\ m.type = "SetPolicy"
      BY <1>3, <2>1, <3>1, <3>2
    <3>4. m.policy = policy
      BY <3>3, ExpectedTypes DEF FlowInv
    <3>5. /\ listener' \in Nat /\ (~Zephyr => listener' = policy) /\ listener' # NoListener
          /\ \A p \in DOMAIN peers' : ~Zephyr => peers'[p] = policy
      BY <3>1, <3>4 DEF Effective, NoPolicy, NoListener, PolicyInv
    <3> QED BY <1>1, <3>5 DEF PolicyInv
  <2> QED BY <1>5, <2>2, <2>3
<1> QED BY <1>4, <1>5

\* The policy, in every step that leaves both processes alive.
LEMMA PolicyStep ==
    ASSUME FlowInv, NameInv, PolicyInv, Running,
           LauncherStep \/ BrokerStep \/ UNCHANGED vars
    PROVE  PolicyInv'
<1>1. CASE \/ OnSighup \/ OnDirwatch \/ BusMethodReloadConfig
           \/ WatchDir \/ ListDir \/ LoadPolicy \/ LoadFails \/ ReloadDone \/ CallFails
  BY <1>1, PolicyRead
<1>2. CASE RemoveServices \/ SetPolicy \/ AddServices \/ AddListener \/ AddMetrics \/ Returned
  BY <1>2, PolicyCalls
<1>3. CASE \/ MethodAddName \/ MethodNameRelease \/ MethodAddListener
           \/ MethodAddMetrics \/ MethodSetPolicy
  BY <1>3, PolicyMethods
<1>4. CASE \/ FileChanges \/ DirChanges
           \/ DispatchReply \/ Accept \/ PeerFree \/ PeerReloads \/ UNCHANGED vars
  <2>1. UNCHANGED <<phase, waiting, policy>> /\ (Found(to_launcher', "ok") <=> Found(to_launcher, "ok"))
    BY <1>4, PeersPass
  <2>2. UNCHANGED <<cause, applied, listener>>
    BY <1>4 DEF FileChanges, DirChanges, DispatchReply, Accept, PeerFree, PeerReloads,
                elsewhere, launcher, vars, bus
  <2>3. (UpToDate' <=> UpToDate) /\ (Confirmed' <=> Confirmed)
    BY <2>1, <2>2 DEF UpToDate, Settled, Confirmed
  <2>4. /\ DOMAIN peers = {} /\ listener = NoListener => DOMAIN peers' = {}
        /\ \A p \in DOMAIN peers' : \/ p \in DOMAIN peers /\ peers'[p] = peers[p]
                                    \/ peers'[p] = listener
    <3>1. CASE FileChanges \/ DirChanges \/ DispatchReply \/ PeerReloads \/ UNCHANGED vars
      BY <1>4, <3>1 DEF FileChanges, DirChanges, DispatchReply, PeerReloads, vars, bus
    <3>2. CASE Accept
      BY <3>2 DEF Accept
    <3>3. CASE PeerFree
      BY <3>3 DEF PeerFree, Restrict
    <3> QED BY <1>4, <3>1, <3>2, <3>3
  <2> QED BY <2>1, <2>2, <2>3, <2>4 DEF PolicyInv
<1> QED BY <1>1, <1>2, <1>3, <1>4 DEF LauncherStep, BrokerStep

-----------------------------------------------------------------------------
(* What is on disk *)

\* Once the directories are read, nothing but their files matters.
LEMMA DiskAfter ==
    ASSUME DiskInv, UNCHANGED <<files, inotify, watched>>, applied' \in BOOLEAN,
           phase \notin {"dir", "idle"}, phase' # "dir",
           \A n \in Names : /\ services'[n].tag = services[n].tag
                            /\ services[n].tag => services'[n].dir = services[n].dir,
           phase' \in {"policy", "add", "listener", "metrics"} \/ Settled' => Outdated' = {},
           phase' \in {"listener", "metrics"} \/ Settled' => Idling' = {}
    PROVE  DiskInv'
<1>1. /\ Covered = DOMAIN Dirs /\ Covered' = DOMAIN Dirs
      /\ Opened = DOMAIN Dirs /\ Opened' = DOMAIN Dirs
  BY DEF Covered, Opened
<1>2. \A e : Seen(e)' = Seen(e)
  BY DEF Seen, files
<1>3. \A n \in Names : Reflected(n) => Reflected(n)'
  <2> SUFFICES ASSUME NEW n \in Names, Reflected(n) PROVE Reflected(n)'
    OBVIOUS
  <2> QED BY <1>1, <1>2 DEF Reflected, files
<1>4. ~inotify => /\ \A e \in Opened \ unnoticed : e \in watched <=> e \in open
                  /\ \A n \in Names : Reflected(n)
  BY DEF DiskInv
<1>5. ~inotify' => /\ \A e \in Opened' \ unnoticed' : e \in watched' <=> e \in open'
                   /\ \A n \in Names : Reflected(n)'
  BY <1>1, <1>3, <1>4 DEF files
<1> QED BY <1>5 DEF DiskInv, files

\* A reload ends with an error.
LEMMA DiskFails ==
    ASSUME DiskInv, UNCHANGED disk, inotify' \in BOOLEAN, phase' = "idle", applied' = FALSE
    PROVE  DiskInv'
<1>1. ~Settled'
  BY DEF Settled
<1> QED BY <1>1 DEF DiskInv

\* Nothing of this changes.
LEMMA DiskSame ==
    ASSUME DiskInv, UNCHANGED <<files, inotify, applied, phase, at, watched, services>>
    PROVE  DiskInv'
<1>1. /\ Covered' = Covered /\ Opened' = Opened /\ (Settled' <=> Settled)
      /\ Outdated' = Outdated /\ Idling' = Idling
  BY DEF Covered, Opened, Settled, Outdated, Idling
<1>2. \A n \in Names : Reflected(n) => Reflected(n)'
  <2>1. UNCHANGED <<disk, open, unnoticed, services>>
    BY DEF files
  <2>2. \A e : Seen(e)' = Seen(e)
    BY <2>1 DEF Seen
  <2> SUFFICES ASSUME NEW n \in Names, Reflected(n) PROVE Reflected(n)'
    OBVIOUS
  <2> QED BY <1>1, <2>1, <2>2 DEF Reflected
<1>3. /\ disk' \in [DOMAIN Dirs -> SUBSET Names] /\ inotify' \in BOOLEAN /\ applied' \in BOOLEAN
      /\ phase' = "dir" => at' \in 1 .. 2 * Len(Dirs) /\ watched' \subseteq Opened'
  BY <1>1 DEF DiskInv, files
<1>4. /\ phase' \in {"policy", "add", "listener", "metrics"} \/ Settled' => Outdated' = {}
      /\ phase' \in {"listener", "metrics"} \/ Settled' => Idling' = {}
  BY <1>1 DEF DiskInv
<1>5. ~inotify' /\ (phase' # "idle" \/ applied') =>
          /\ \A e \in Opened' \ unnoticed' : e \in watched' <=> e \in open'
          /\ \A n \in Names : Reflected(n)'
  BY <1>1, <1>2 DEF DiskInv, files
<1> QED BY <1>3, <1>4, <1>5 DEF DiskInv

\* A directory that was read was opened.
LEMMA CoveredOpened ==
    ASSUME phase = "dir" => at \in 1 .. 2 * Len(Dirs)
    PROVE  Covered \subseteq Opened /\ Covered \subseteq DOMAIN Dirs
<1>1. Len(Dirs) \in Nat /\ DOMAIN Dirs = 1 .. Len(Dirs)
  BY ControlAssumption
<1>2. CASE phase = "dir"
  <2>1. \A e \in DOMAIN Dirs : 2 * e < at => 2 * e <= at
    BY <1>1, <1>2
  <2> QED BY <1>2, <2>1 DEF Covered, Opened
<1>3. CASE phase # "dir"
  BY <1>3 DEF Covered, Opened
<1> QED BY <1>2, <1>3

\* A file changes in a directory that is watched, was not read yet, or came or
\* went unnoticed.
LEMMA DiskChanges ==
    ASSUME DiskInv, FileChanges
    PROVE  DiskInv'
<1>1. PICK d \in DOMAIN Dirs, n \in Names :
        /\ disk' = [disk EXCEPT ![d] = SymDiff(disk[d], {n})]
        /\ inotify' = (inotify \/ d \in watched)
        /\ UNCHANGED <<open, unnoticed, phase, at, services, watched, applied>>
  BY DEF FileChanges
<1>2. disk' \in [DOMAIN Dirs -> SUBSET Names]
  <2>1. disk[d] \subseteq Names
    BY DEF DiskInv
  <2>2. SymDiff(disk[d], {n}) \subseteq Names
    BY <2>1 DEF SymDiff
  <2> QED BY <1>1, <2>2 DEF DiskInv
<1>3. /\ Covered' = Covered /\ Opened' = Opened /\ (Settled' <=> Settled)
      /\ Outdated' = Outdated /\ Idling' = Idling
  BY <1>1 DEF Covered, Opened, Settled, Outdated, Idling
<1>4. inotify' \in BOOLEAN
  BY <1>1 DEF DiskInv
<1>5. ASSUME ~inotify', phase' # "idle" \/ applied'
      PROVE  /\ \A e \in Opened' \ unnoticed' : e \in watched' <=> e \in open'
             /\ \A m \in Names : Reflected(m)'
  <2>1. ~inotify /\ d \notin watched /\ (phase # "idle" \/ applied)
    BY <1>1, <1>5
  <2>2. /\ \A e \in Opened \ unnoticed : e \in watched <=> e \in open
        /\ \A m \in Names : Reflected(m)
    BY <2>1 DEF DiskInv
  <2>3. Covered \subseteq Opened /\ Covered \subseteq DOMAIN Dirs
    BY CoveredOpened DEF DiskInv
  <2>4. \A e \in Covered \ unnoticed : Seen(e)' = Seen(e)
    <3>1. ASSUME NEW e \in Covered, e \notin unnoticed PROVE Seen(e)' = Seen(e)
      <4>1. CASE e # d
        BY <1>1, <2>3, <4>1 DEF Seen, DiskInv
      <4>2. CASE e = d
        <5>1. e \notin open
          BY <2>1, <2>2, <2>3, <3>1, <4>2
        <5> QED BY <1>1, <5>1 DEF Seen
      <4> QED BY <4>1, <4>2
    <3> QED BY <3>1
  <2>5. ASSUME NEW m \in Names PROVE Reflected(m)'
    <3>1. Reflected(m) /\ services' = services /\ unnoticed' = unnoticed
      BY <1>1, <2>2
    <3> QED BY <1>3, <2>4, <3>1 DEF Reflected
  <2> QED BY <1>1, <1>3, <2>2, <2>5
<1> QED BY <1>1, <1>2, <1>3, <1>4, <1>5 DEF DiskInv

\* A directory comes or goes: inotify has an event, or it is unnoticed.
LEMMA DiskComes ==
    ASSUME DiskInv, DirChanges
    PROVE  DiskInv'
<1>1. PICK d \in DOMAIN Dirs, removed \in BOOLEAN :
        /\ open' = SymDiff(open, {d})
        /\ unnoticed' = IF removed THEN unnoticed ELSE unnoticed \cup {d}
        /\ watched' = IF removed THEN watched \ {d} ELSE watched
        /\ inotify' = (inotify \/ removed)
        /\ UNCHANGED <<disk, phase, at, services, applied>>
  BY DEF DirChanges
<1>2. /\ Covered' = Covered /\ Opened' = Opened /\ (Settled' <=> Settled)
      /\ Outdated' = Outdated /\ Idling' = Idling
  BY <1>1 DEF Covered, Opened, Settled, Outdated, Idling
<1>3. inotify' \in BOOLEAN
  BY <1>1 DEF DiskInv
<1>4. ASSUME ~inotify', phase' # "idle" \/ applied'
      PROVE  /\ \A e \in Opened' \ unnoticed' : e \in watched' <=> e \in open'
             /\ \A m \in Names : Reflected(m)'
  <2>1. ~inotify /\ ~removed /\ (phase # "idle" \/ applied)
    BY <1>1, <1>4
  <2>2. /\ \A e \in Opened \ unnoticed : e \in watched <=> e \in open
        /\ \A m \in Names : Reflected(m)
    BY <2>1 DEF DiskInv
  <2>3. /\ unnoticed' = unnoticed \cup {d} /\ watched' = watched
        /\ \A e : e # d => (e \in open' <=> e \in open)
    BY <1>1, <2>1 DEF SymDiff
  <2>4. \A e : e # d => Seen(e)' = Seen(e)
    BY <1>1, <2>3 DEF Seen
  <2>5. ASSUME NEW m \in Names PROVE Reflected(m)'
    <3>1. Reflected(m) /\ services' = services
      BY <1>1, <2>2
    <3> QED BY <1>2, <2>3, <2>4, <3>1 DEF Reflected
  <2> QED BY <1>2, <2>2, <2>3, <2>5
<1>5. phase' = "dir" => at' \in 1 .. 2 * Len(Dirs) /\ watched' \subseteq Opened'
  BY <1>1, <1>2 DEF DiskInv
<1> QED BY <1>1, <1>2, <1>3, <1>4, <1>5 DEF DiskInv

\* The launcher starts to read.
LEMMA DiskReload ==
    ASSUME DiskInv, ServicesOK, NEW who, ReloadConfig(who)
    PROVE  DiskInv'
<1>1. disk' = disk /\ \A n \in Names : services'[n].tag = FALSE
  BY ServicesMarked DEF ReloadConfig, files
<1>2. CASE ParseConfig(who)
  <2>1. phase' = "dir" /\ at' = 1 /\ watched' = {} /\ inotify' = FALSE /\ applied' = applied
    BY <1>2 DEF ParseConfig
  <2>2. /\ Len(Dirs) \in Nat /\ DOMAIN Dirs = 1 .. Len(Dirs) /\ Len(Dirs) # 0
    BY ControlAssumption
  <2>3. \A e \in DOMAIN Dirs : ~(2 * e < 1) /\ ~(2 * e <= 1)
    BY <2>2
  <2>4. Covered' = {} /\ Opened' = {}
    BY <2>1, <2>3 DEF Covered, Opened
  <2>5. \A n \in Names : Reflected(n)'
    BY <1>1, <2>4 DEF Reflected
  <2>6. 1 \in 1 .. 2 * Len(Dirs)
    BY <2>2
  <2>7. ~Settled'
    BY <2>1 DEF Settled
  <2> QED BY <1>1, <2>1, <2>4, <2>5, <2>6, <2>7 DEF DiskInv
<1>3. CASE Ignore(who, "invalid") \/ Ignore(who, "failed")
  <2>1. phase' = "idle" /\ applied' = FALSE /\ inotify' \in BOOLEAN
    BY <1>3 DEF Ignore, ReloadConfig
  <2> QED BY <1>1, <2>1, DiskFails
<1> QED BY <1>2, <1>3 DEF ReloadConfig

\* The next step of reading.
LEMMA NextIs ==
    ASSUME at \in 1 .. 2 * Len(Dirs), NextStep
    PROVE  \/ phase' = "dir" /\ at' = at + 1 /\ at' \in 1 .. 2 * Len(Dirs)
           \/ phase' = "loaded" /\ at = 2 * Len(Dirs)
<1>1. Len(Dirs) \in Nat /\ at \in Nat /\ at >= 1 /\ at <= 2 * Len(Dirs)
  BY ControlAssumption
<1>2. CASE at < 2 * Len(Dirs)
  <2>1. PICK k : k = 2 * Len(Dirs)
    OBVIOUS
  <2>2. k \in Nat /\ at < k /\ at' = (at % k) + 1 /\ phase' = "dir"
    BY <1>1, <1>2, <2>1 DEF NextStep
  <2>3. at % k = at
    BY <1>1, <2>2
  <2> QED BY <1>1, <2>1, <2>2, <2>3
<1>3. CASE ~(at < 2 * Len(Dirs))
  BY <1>1, <1>3 DEF NextStep
<1> QED BY <1>2, <1>3

\* The launcher watches a directory, if it can be opened.
LEMMA DiskWatch ==
    ASSUME DiskInv, WatchDir
    PROVE  DiskInv'
<1> DEFINE d == Dir
<1>1. /\ phase = "dir" /\ Step = "watch" /\ watched' = watched \cup ({d} \cap open) /\ NextStep
      /\ unnoticed' = unnoticed \ {d}
      /\ UNCHANGED <<disk, open, inotify, applied, services>>
  BY DEF WatchDir
<1>2. at \in 1 .. 2 * Len(Dirs) /\ watched \subseteq Opened
  BY <1>1 DEF DiskInv
<1>3. d \in DOMAIN Dirs /\ at = 2 * d - 1
  BY <1>1, <1>2, DirIs
<1>4. Len(Dirs) \in Nat /\ DOMAIN Dirs = 1 .. Len(Dirs)
  BY ControlAssumption
<1> HIDE DEF d
<1>5. phase' = "dir" /\ at' = at + 1 /\ at' \in 1 .. 2 * Len(Dirs)
  <2>1. at # 2 * Len(Dirs)
    BY <1>3, <1>4
  <2> QED BY <1>1, <1>2, <2>1, NextIs
<1>6. \A e \in DOMAIN Dirs : /\ 2 * e <= at + 1 <=> 2 * e <= at \/ e = d
                             /\ 2 * e < at + 1 <=> 2 * e < at
                             /\ e = d => ~(2 * e <= at) /\ ~(2 * e < at)
  BY <1>3, <1>4
<1>7. Opened' = Opened \cup {d} /\ d \notin Opened
  BY <1>1, <1>3, <1>5, <1>6 DEF Opened
<1>8. Covered' = Covered /\ d \notin Covered
  BY <1>1, <1>5, <1>6 DEF Covered
<1>9. \A n \in Names : Reflected(n) => Reflected(n)'
  <2>1. \A e : Seen(e)' = Seen(e)
    BY <1>1 DEF Seen
  <2> SUFFICES ASSUME NEW n \in Names, Reflected(n) PROVE Reflected(n)'
    OBVIOUS
  <2> QED BY <1>1, <1>8, <2>1 DEF Reflected
<1>10. ~Settled'
  BY <1>5 DEF Settled
<1>11. ~inotify' => /\ \A e \in Opened' \ unnoticed' : e \in watched' <=> e \in open'
                    /\ \A n \in Names : Reflected(n)'
  <2> SUFFICES ASSUME ~inotify'
               PROVE  /\ \A e \in Opened' \ unnoticed' : e \in watched' <=> e \in open'
                      /\ \A n \in Names : Reflected(n)'
    OBVIOUS
  <2>1. /\ \A e \in Opened \ unnoticed : e \in watched <=> e \in open
        /\ \A n \in Names : Reflected(n)
    BY <1>1 DEF DiskInv
  <2> QED BY <1>1, <1>2, <1>7, <1>9, <2>1
<1>12. disk' \in [DOMAIN Dirs -> SUBSET Names] /\ inotify' \in BOOLEAN /\ applied' \in BOOLEAN
       /\ watched' \subseteq Opened'
  BY <1>1, <1>2, <1>7 DEF DiskInv
<1> QED BY <1>5, <1>10, <1>11, <1>12 DEF DiskInv

\* The launcher reads a directory.
LEMMA DiskList ==
    ASSUME DiskInv, ServicesOK, ListDir
    PROVE  DiskInv'
<1>1. PICK d : d = Dir
  OBVIOUS
<1>2. /\ phase = "dir" /\ Step = "list" /\ LoadServiceFiles(d) /\ NextStep
      /\ UNCHANGED <<disk, open, unnoticed, inotify, applied, watched>>
  BY <1>1 DEF ListDir, files
<1>3. at \in 1 .. 2 * Len(Dirs) /\ watched \subseteq Opened
  BY <1>2 DEF DiskInv
<1>4. d \in DOMAIN Dirs /\ d \in Nat /\ at = 2 * d
  BY <1>1, <1>2, <1>3, DirIs
<1>5. Len(Dirs) \in Nat /\ DOMAIN Dirs = 1 .. Len(Dirs)
  BY ControlAssumption
<1>6. \A n \in Names : /\ services'[n].tag <=> services[n].tag \/ n \in Listed(d)
                       /\ services'[n].dir = IF n \in Listed(d) /\ ~services[n].tag THEN d
                                             ELSE services[n].dir
  <2>1. Listed(d) \subseteq Names
    BY <1>4 DEF DiskInv, Listed
  <2> QED BY <1>2, <1>4, <2>1, ServicesLoaded
<1>7. \/ phase' = "dir" /\ at' = at + 1 /\ at' \in 1 .. 2 * Len(Dirs)
      \/ phase' = "loaded" /\ at = 2 * Len(Dirs)
  BY <1>2, <1>3, NextIs
<1>8. \A e \in DOMAIN Dirs : /\ 2 * e <= at + 1 <=> 2 * e <= at
                             /\ 2 * e < at + 1 <=> 2 * e < at \/ e = d
                             /\ 2 * e < at => e < d /\ e \in Nat
                             /\ at = 2 * Len(Dirs) => 2 * e <= at /\ (2 * e < at \/ e = d)
                             /\ e = d => 2 * e <= at
  BY <1>4, <1>5
<1>9. Opened' = Opened /\ d \in Opened
  <2>1. Opened = {e \in DOMAIN Dirs : 2 * e <= at}
    BY <1>2 DEF Opened
  <2>2. CASE phase' = "dir"
    BY <1>4, <1>7, <1>8, <2>1, <2>2 DEF Opened
  <2>3. CASE phase' = "loaded"
    BY <1>4, <1>7, <1>8, <2>1, <2>3 DEF Opened
  <2> QED BY <1>7, <2>2, <2>3
<1>10. Covered' = Covered \cup {d} /\ \A e \in Covered : e < d /\ e \in Nat
  <2>1. Covered = {e \in DOMAIN Dirs : 2 * e < at}
    BY <1>2 DEF Covered
  <2>2. CASE phase' = "dir"
    BY <1>4, <1>7, <1>8, <2>1, <2>2 DEF Covered
  <2>3. CASE phase' = "loaded"
    BY <1>4, <1>7, <1>8, <2>1, <2>3 DEF Covered
  <2> QED BY <1>7, <2>2, <2>3
<1>11. \A e : Seen(e)' = Seen(e)
  BY <1>2 DEF Seen
<1>12. ASSUME NEW n \in Names, Reflected(n), d \notin unnoticed => Listed(d) = Seen(d)
       PROVE  Reflected(n)'
  <2>1. services[n].tag \in BOOLEAN
    BY DEF ServicesOK, Service
  <2>2. CASE services[n].tag
    <3>1. services'[n].dir = services[n].dir /\ services'[n].tag
      BY <1>6, <2>2
    <3>2. /\ services[n].dir \in Covered
          /\ services[n].dir \in unnoticed \/ n \in Seen(services[n].dir)
          /\ \A e \in Covered \ unnoticed : n \in Seen(e) => services[n].dir <= e
      BY <1>12, <2>2 DEF Reflected
    <3>3. services[n].dir <= d
      BY <1>4, <1>10, <3>2
    <3> QED BY <1>2, <1>10, <1>11, <3>1, <3>2, <3>3 DEF Reflected
  <2>3. CASE ~services[n].tag
    <3>1. \A e \in Covered \ unnoticed : n \notin Seen(e)
      BY <1>12, <2>3 DEF Reflected
    <3>2. CASE n \in Listed(d)
      <4>1. services'[n].dir = d /\ services'[n].tag
        BY <1>6, <2>3, <3>2
      <4>2. d <= d
        BY <1>4
      <4>3. d \in unnoticed \/ n \in Seen(d)
        BY <1>12, <3>2
      <4> QED BY <1>2, <1>10, <1>11, <3>1, <4>1, <4>2, <4>3 DEF Reflected
    <3>3. CASE n \notin Listed(d)
      <4>1. ~services'[n].tag
        BY <1>6, <2>3, <3>3
      <4>2. \A e \in Covered' \ unnoticed : n \notin Seen(e)
        BY <1>10, <1>12, <3>1, <3>3
      <4> QED BY <1>2, <1>11, <4>1, <4>2 DEF Reflected
    <3> QED BY <3>2, <3>3
  <2> QED BY <2>1, <2>2, <2>3
<1>13. ~inotify' => /\ \A e \in Opened' \ unnoticed' : e \in watched' <=> e \in open'
                    /\ \A n \in Names : Reflected(n)'
  <2> SUFFICES ASSUME ~inotify'
               PROVE  /\ \A e \in Opened' \ unnoticed' : e \in watched' <=> e \in open'
                      /\ \A n \in Names : Reflected(n)'
    OBVIOUS
  <2>1. /\ \A e \in Opened \ unnoticed : e \in watched <=> e \in open
        /\ \A n \in Names : Reflected(n)
    BY <1>2 DEF DiskInv
  <2>2. d \notin unnoticed => Listed(d) = Seen(d)
    BY <1>9, <2>1 DEF Listed, Seen
  <2> QED BY <1>2, <1>9, <1>12, <2>1, <2>2
<1>14. ~Settled'
  BY <1>7 DEF Settled
<1>15. disk' \in [DOMAIN Dirs -> SUBSET Names] /\ inotify' \in BOOLEAN /\ applied' \in BOOLEAN
       /\ watched' \subseteq Opened'
  BY <1>2, <1>3, <1>9 DEF DiskInv
<1>16. phase' \in {"dir", "loaded"} /\ (phase' = "dir" => at' \in 1 .. 2 * Len(Dirs))
  BY <1>7
<1> QED BY <1>13, <1>14, <1>15, <1>16 DEF DiskInv

\* The launcher applies what it read.
LEMMA DiskApplied ==
    ASSUME FlowInv, NameInv, DiskInv,
           \/ LoadPolicy \/ RemoveServices \/ SetPolicy \/ AddServices \/ ReloadDone
           \/ AddListener \/ AddMetrics \/ Returned
    PROVE  DiskInv'
<1>1. ServicesOK
  BY DEF NameInv
<1>2. CASE LoadPolicy \/ SetPolicy \/ AddServices \/ AddListener \/ AddMetrics
  <2>1. /\ UNCHANGED <<files, inotify, watched, services, applied>>
        /\ \/ phase = "loaded" /\ phase' = "remove"
           \/ phase = "remove" /\ phase' = "policy" /\ Outdated = {}
           \/ phase = "add" /\ phase' = "add"
           \/ phase = "add" /\ phase' = "listener" /\ Idling = {}
           \/ phase = "metrics" /\ phase' = "metrics"
    BY <1>2 DEF LoadPolicy, SetPolicy, AddServices, AddListener, AddMetrics, Call, calling
  <2>2. Outdated' = Outdated /\ Idling' = Idling /\ ~Settled'
    BY <2>1 DEF Outdated, Idling, Settled
  <2>3. /\ phase' \in {"policy", "add", "listener", "metrics"} => Outdated' = {}
        /\ phase' \in {"listener", "metrics"} => Idling' = {}
    BY <2>1, <2>2 DEF DiskInv
  <2>4. applied' \in BOOLEAN /\ phase \notin {"dir", "idle"} /\ phase' # "dir"
    BY <2>1 DEF DiskInv
  <2> QED BY <2>1, <2>2, <2>3, <2>4, DiskAfter
<1>3. CASE ReloadDone
  <2>1. UNCHANGED <<files, inotify, watched, services>> /\ phase = "add" /\ Idling = {}
        /\ phase' = "idle" /\ applied' = TRUE
    BY <1>3 DEF ReloadDone, Finish, calling
  <2>2. Outdated' = {} /\ Idling' = {}
    BY <2>1 DEF DiskInv, Outdated, Idling
  <2> QED BY <2>1, <2>2, DiskAfter
<1>4. CASE RemoveServices \/ (Returned /\ phase = "remove")
  <2> DEFINE n == ToRemove(services)
  <2>1. /\ UNCHANGED <<files, inotify, watched, applied>> /\ phase = "remove" /\ phase' = "remove"
        /\ services' = services \/ services' = [services EXCEPT ![n] = NoService]
    BY <1>4, Selections DEF RemoveServices, Returned, ServiceRemove, Call, calling
  <2>2. OutdatedOf(services) # {}
    BY <1>4, Selections DEF RemoveServices, Returned, Reply, NameInv, ExpectInv
  <2>3. n \in Names /\ services[n].tag = FALSE
    BY <1>1, <2>2, Selected DEF OutdatedOf, ServicesOK, Service
  <2> HIDE DEF n
  <2>4. \A m \in Names : /\ services'[m].tag = services[m].tag
                         /\ services[m].tag => services'[m].dir = services[m].dir
    <3>1. CASE services' = services
      BY <3>1
    <3>2. CASE services' = [services EXCEPT ![n] = NoService]
      <4>1. services'[n] = NoService /\ \A m \in Names : m # n => services'[m] = services[m]
        BY <1>1, <2>3, <3>2 DEF ServicesOK
      <4>2. NoService.tag = FALSE
        BY DEF NoService
      <4> QED BY <2>3, <4>1, <4>2
    <3> QED BY <2>1, <3>1, <3>2
  <2>5. ~Settled' /\ applied' \in BOOLEAN
    BY <2>1 DEF Settled, DiskInv
  <2> QED BY <2>1, <2>4, <2>5, DiskAfter
<1>5. CASE Returned /\ phase = "add"
  <2> DEFINE n == ToAdd(services)
  <2>1. /\ UNCHANGED <<files, inotify, watched, applied, phase>> /\ waiting
        /\ services' = [services EXCEPT ![n].running = TRUE]
    BY <1>5, Selections DEF Returned, Reply, calling
  <2>2. n \in Names
    BY <1>1, <1>5, <2>1, Selected DEF NameInv, ExpectInv, IdlingOf
  <2> HIDE DEF n
  <2>3. services[n] \in Service /\ services'[n] = [services[n] EXCEPT !.running = TRUE]
        /\ \A m \in Names : m # n => services'[m] = services[m]
    BY <1>1, <2>1, <2>2 DEF ServicesOK
  <2>4. \A m \in Names : /\ services'[m].tag = services[m].tag
                         /\ services'[m].dir = services[m].dir
                         /\ services'[m].id = services[m].id
    BY <2>3 DEF Service
  <2>5. Outdated' = Outdated /\ Outdated = {} /\ ~Settled'
    BY <1>5, <2>1, <2>4 DEF Outdated, DiskInv, Settled
  <2>6. applied' \in BOOLEAN
    BY <2>1 DEF DiskInv
  <2> QED BY <1>5, <2>1, <2>4, <2>5, <2>6, DiskAfter
<1>6. CASE Returned /\ phase \notin {"remove", "add"}
  <2>1. /\ UNCHANGED <<files, inotify, watched, services>>
        /\ \/ phase = "policy" /\ phase' = "add" /\ applied' = applied
           \/ phase = "listener" /\ phase' = "metrics" /\ applied' = applied
           \/ phase \in {"listener", "metrics"} /\ phase' = "idle" /\ applied' = TRUE
    BY <1>6 DEF Returned, Reply, calling, FlowInv, PhaseInv
  <2>2. Outdated = {} /\ (phase # "policy" => Idling = {})
    BY <2>1 DEF DiskInv
  <2>3. Outdated' = {} /\ (phase # "policy" => Idling' = {})
    BY <2>1, <2>2 DEF Outdated, Idling
  <2>4. applied' \in BOOLEAN /\ phase \notin {"dir", "idle"} /\ phase' # "dir"
    BY <2>1 DEF DiskInv
  <2>5. phase' \in {"listener", "metrics"} \/ Settled' => Idling' = {}
    BY <2>1, <2>3 DEF Settled
  <2> QED BY <2>1, <2>3, <2>4, <2>5, DiskAfter
<1> QED BY <1>2, <1>3, <1>4, <1>5, <1>6

\* What is on disk, in every step that leaves both processes alive.
LEMMA DiskStep ==
    ASSUME FlowInv, NameInv, DiskInv,
           LauncherStep \/ BrokerStep \/ UNCHANGED vars
    PROVE  DiskInv'
<1>1. ServicesOK
  BY DEF NameInv
<1>2. CASE FileChanges \/ DirChanges
  BY <1>2, DiskChanges, DiskComes
<1>3. CASE OnSighup \/ OnDirwatch \/ BusMethodReloadConfig
  BY <1>1, <1>3, DiskReload DEF OnSighup, OnDirwatch, BusMethodReloadConfig
<1>4. CASE WatchDir
  BY <1>4, DiskWatch
<1>5. CASE ListDir
  BY <1>1, <1>5, DiskList
<1>6. CASE LoadFails \/ CallFails
  <2>1. Finish("failed") /\ UNCHANGED <<disk, inotify>>
    BY <1>6 DEF LoadFails, CallFails, calling, files
  <2>2. phase' = "idle" /\ applied' = FALSE /\ inotify' \in BOOLEAN
    BY <2>1 DEF Finish, DiskInv
  <2> QED BY <2>1, <2>2, DiskFails
<1>7. CASE \/ LoadPolicy \/ RemoveServices \/ SetPolicy \/ AddServices \/ ReloadDone
           \/ AddListener \/ AddMetrics \/ Returned
  BY <1>7, DiskApplied
<1>8. CASE BrokerStep \/ UNCHANGED vars
  <2>1. UNCHANGED <<files, inotify, applied, phase, at, watched, services>>
    BY <1>8, BrokerLeaves DEF launcher, vars
  <2> QED BY <2>1, DiskSame
<1> QED BY <1>2, <1>3, <1>4, <1>5, <1>6, <1>7, <1>8 DEF LauncherStep

-----------------------------------------------------------------------------
(* At first *)

\* The least element of a set.
LEMMA MinIs ==
    ASSUME NEW S, S \subseteq Nat, S # {}
    PROVE  Min(S) \in S /\ \A n \in S : Min(S) <= n
<1>1. PICK m \in S : \A n \in S : m <= n
  BY LeastElement
<1> QED BY <1>1 DEF Min

\* The queues are empty, no peer is there.
LEMMA FlowInit ==
    ASSUME Init
    PROVE  AnswerInv /\ ExitInv /\ FlowInv /\ PolicyInv
<1>1. <<>> \in Seq(Peers) /\ <<>> \in Seq(ToBroker) /\ <<>> \in Seq(ToLauncher) /\ Len(<<>>) = 0
  OBVIOUS
<1>2. AnswerInv
  <2>1. /\ events = 0 /\ peer_ids = 0 /\ DOMAIN peers = {} /\ senders = <<>>
        /\ answered = [r \in Requests |-> 0] /\ DOMAIN reloads = {}
    BY DEF Init
  <2> QED BY <1>1, <2>1, ControlAssumption DEF AnswerInv
<1>3. ExitInv
  BY DEF Init, ExitInv
<1>4. FlowInv
  <2>1. QueuesOK /\ PhaseInv
    BY <1>1 DEF Init, QueuesOK, PhaseInv
  <2>2. to_broker = <<>> /\ to_launcher = <<>> /\ 1 .. Len(<<>>) = {}
    BY <1>1 DEF Init
  <2>3. CallInv
    BY <2>2 DEF Init, CallInv, NoneOf
  <2>4. Carried(to_broker) = {} /\ Carried(to_launcher) = {}
        /\ CarriesOnce(to_broker) /\ CarriesOnce(to_launcher)
    BY <2>2 DEF Carried, CarriesOnce
  <2>5. 0 \in 0 .. SerialSpace - 1 /\ Start \notin Serials
    BY ControlAssumption, Causes
  <2>6. serial = 0 /\ cause = Start /\ DOMAIN reloads = {}
    BY DEF Init
  <2>7. CarryInv
    BY <2>4, <2>5, <2>6 DEF CarryInv
  <2> QED BY <2>1, <2>3, <2>7 DEF FlowInv
<1>5. PolicyInv
  <2>1. /\ policy = 1 /\ listener = NoListener /\ DOMAIN peers = {} /\ cause = Start
        /\ phase = "add"
    BY DEF Init
  <2> QED BY <2>1 DEF PolicyInv, UpToDate, Settled
<1> QED BY <1>2, <1>3, <1>4, <1>5

\* The services are those launcher_run() found, and the broker knows none of them.
LEMMA NameInit ==
    ASSUME Init
    PROVE  NameInv /\ DiskInv
<1> DEFINE U == UNION Range(Read)
           c == Cardinality(U)
           rank == Numbering(U)
           In(n) == {d \in DOMAIN Dirs : n \in Read[d]}
<1>1. Read \in [DOMAIN Dirs -> SUBSET Names] /\ disk \in [DOMAIN Dirs -> SUBSET Names]
  BY ControlAssumption DEF Init
<1>2. U \subseteq Names /\ \A n \in Names : n \in U <=> In(n) # {}
  BY <1>1 DEF Range
<1>3. IsFiniteSet(U)
  BY <1>2, ControlAssumption, FS_Subset
<1>4. /\ c \in Nat /\ rank \in [U -> 1 .. c]
      /\ \A m, n \in U : rank[m] = rank[n] => m = n
  BY <1>3, NumberingIs
<1>5. \A n \in U : In(n) \subseteq Nat /\ In(n) # {}
  <2>1. DOMAIN Dirs = 1 .. Len(Dirs) /\ Len(Dirs) \in Nat
    BY ControlAssumption
  <2> QED BY <1>2, <2>1, SMTT(30)
<1>6. \A n \in U : Min(In(n)) \in In(n) /\ \A e \in In(n) : Min(In(n)) <= e
  BY <1>5, MinIs
<1>7. services = [n \in Names |->
           IF n \in U
           THEN [id |-> rank[n], running |-> FALSE, tag |-> TRUE, dir |-> Min(In(n))]
           ELSE NoService]
      /\ service_ids = c
  BY DEF Init
<1>8. \A n \in U : Min(In(n)) \in DOMAIN Dirs /\ n \in Read[Min(In(n))] /\ Min(In(n)) \in Nat
                   /\ \A e \in DOMAIN Dirs : n \in Read[e] => Min(In(n)) <= e
  BY <1>5, <1>6
<1>9. \A n \in Names : n \in U <=> \E e \in DOMAIN Dirs : n \in Read[e]
  BY <1>2
<1> DEFINE least == [n \in U |-> Min(In(n))]
<1>10. \A n \in U : least[n] = Min(In(n))
  OBVIOUS
<1> HIDE DEF U, c, rank, In, least
<1>11. \A n \in Names : n \in U => /\ services[n].id = rank[n] /\ services[n].running = FALSE
                                   /\ services[n].tag = TRUE /\ services[n].dir = least[n]
                                   /\ services[n] \in Service /\ rank[n] \in 1 .. c
  <2> SUFFICES ASSUME NEW n \in Names, n \in U
               PROVE  /\ services[n].id = rank[n] /\ services[n].running = FALSE
                      /\ services[n].tag = TRUE /\ services[n].dir = least[n]
                      /\ services[n] \in Service /\ rank[n] \in 1 .. c
    OBVIOUS
  <2>1. services[n] = [id |-> rank[n], running |-> FALSE, tag |-> TRUE, dir |-> least[n]]
    BY <1>7, <1>10
  <2>2. rank[n] \in 1 .. c /\ rank[n] \in Nat /\ least[n] \in Nat
    BY <1>4, <1>8, <1>10
  <2> QED BY ONLY <2>1, <2>2 DEF Service
<1>12. \A n \in Names : n \notin U => /\ services[n].id = 0 /\ services[n].running = FALSE
                                      /\ services[n].tag = FALSE /\ services[n] \in Service
  <2>1. NoService \in Service /\ NoService.id = 0 /\ NoService.running = FALSE
        /\ NoService.tag = FALSE
    BY DEF NoService, Service
  <2> QED BY <1>7, <2>1
<1>13. ServicesOK
  <2>1. services \in [Names -> Service] /\ service_ids \in Nat
    BY <1>4, <1>7, <1>11, <1>12
  <2>2. \A n \in Names : /\ services[n].id <= service_ids
                         /\ services[n].running \/ services[n].tag => services[n].id # 0
    BY <1>4, <1>7, <1>11, <1>12
  <2>3. \A m, n \in Names : services[m].id = services[n].id /\ services[n].id # 0 => m = n
    <3>1. ASSUME NEW m \in Names, NEW n \in Names, services[m].id = services[n].id,
                 services[n].id # 0
          PROVE  m = n
      <4>1. m \in U /\ n \in U
        BY <1>12, <3>1
      <4> QED BY <1>4, <1>11, <3>1, <4>1
    <3> QED BY <3>1
  <2> QED BY <2>1, <2>2, <2>3 DEF ServicesOK
<1>14. NameInv
  <2>1. waiting = FALSE /\ names = [i \in {} |-> ""]
    BY DEF Init
  <2>2. \A n \in Names : ~services[n].running
    BY <1>11, <1>12
  <2>3. Agree(names, services)
    BY <2>1, <2>2 DEF Agree
  <2> QED BY <1>13, <2>1, <2>3 DEF NameInv, ExpectInv, Confirmed
<1>15. DiskInv
  <2>1. /\ phase = "add" /\ applied = FALSE /\ watched = open
        /\ \A e \in DOMAIN Dirs : e \notin open => Read[e] = {}
        /\ inotify = (\E e \in open : disk[e] # Read[e])
    BY DEF Init
  <2>2. Outdated = {} /\ ~Settled /\ Covered = DOMAIN Dirs
    BY <1>11, <1>12, <2>1 DEF Outdated, Settled, Covered
  <2>3. ASSUME ~inotify, NEW n \in Names PROVE Reflected(n)
    <3>1. \A e \in DOMAIN Dirs : Seen(e) = Read[e]
      BY <2>1, <2>3 DEF Seen
    <3>2. CASE n \in U
      <4>1. services[n].tag /\ services[n].dir \in DOMAIN Dirs /\ n \in Read[services[n].dir]
            /\ \A e \in DOMAIN Dirs : n \in Read[e] => services[n].dir <= e
        BY <1>8, <1>10, <1>11, <3>2
      <4> QED BY <2>2, <3>1, <4>1 DEF Reflected
    <3>3. CASE n \notin U
      <4>1. ~services[n].tag /\ \A e \in DOMAIN Dirs : n \notin Read[e]
        BY <1>9, <1>12, <3>3
      <4> QED BY <2>2, <3>1, <4>1 DEF Reflected
    <3> QED BY <3>2, <3>3
  <2> QED BY <1>1, <2>1, <2>2, <2>3 DEF DiskInv
<1> QED BY <1>14, <1>15

-----------------------------------------------------------------------------
(* The theorems *)

ControlInv ==
    /\ AnswerInv /\ ExitInv
    /\ Live => FlowInv /\ NameInv /\ PolicyInv /\ DiskInv

\* The whole invariant is inductive: as long as both processes of Control live,
\* calls, names, policy and services are what the other side takes them for.
THEOREM ControlSound == Spec => []ControlInv
<1>1. Init => ControlInv
  BY FlowInit, NameInit DEF ControlInv
<1>2. ControlInv /\ [Next]_vars => ControlInv'
  <2> SUFFICES ASSUME ControlInv, [Next]_vars PROVE ControlInv'
    OBVIOUS
  <2>1. AnswerInv' /\ ExitInv' /\ (Live' => Live /\ (LauncherStep \/ BrokerStep \/ UNCHANGED vars))
    BY AnswerStep, LiveStep DEF ControlInv
  <2>2. ASSUME Live' PROVE (FlowInv /\ NameInv /\ PolicyInv /\ DiskInv)'
    <3>1. FlowInv /\ NameInv /\ PolicyInv /\ DiskInv /\ Running
          /\ (LauncherStep \/ BrokerStep \/ UNCHANGED vars)
      BY <2>1, <2>2 DEF ControlInv, Live
    <3>2. ServicesOK /\ policy \in Nat
      BY <3>1 DEF NameInv, PolicyInv
    <3>3. FlowInv'
      BY <3>1, <3>2, FlowStep
    <3>4. NameInv'
      BY <3>1, <3>2, NameStep
    <3>5. PolicyInv'
      BY <3>1, PolicyStep
    <3>6. DiskInv'
      BY <3>1, DiskStep
    <3> QED BY <3>3, <3>4, <3>5, <3>6
  <2> QED BY <2>1, <2>2 DEF ControlInv
<1> QED BY <1>1, <1>2, PTL DEF Spec

\* A queue has a reload once or not at all.
LEMMA CountIs ==
    ASSUME NEW A, NEW q \in Seq(A), CarriesOnce(q), NEW s
    PROVE  Count(q, s) = IF s \in Carried(q) THEN 1 ELSE 0
<1> DEFINE C == {i \in DOMAIN q : q[i].type \in {"ReloadConfig", "return", "invalid", "failed"}
                                  /\ q[i].serial = s}
<1>1. DOMAIN q = 1 .. Len(q)
  OBVIOUS
<1>2. C = {i \in 1 .. Len(q) : Carries(q[i]) /\ q[i].serial = s}
  BY <1>1 DEF Carries
<1>3. Count(q, s) = Cardinality(C)
  BY DEF Count
<1> HIDE DEF C
<1>4. CASE s \in Carried(q)
  <2>1. PICK i \in C : TRUE
    BY <1>2, <1>4 DEF Carried
  <2>2. C = {i}
    BY <1>2, <2>1 DEF CarriesOnce
  <2> QED BY <1>3, <1>4, <2>2, FS_Singleton
<1>5. CASE s \notin Carried(q)
  <2>1. C = {}
    BY <1>2, <1>5 DEF Carried
  <2> QED BY <1>3, <1>5, <2>1, FS_EmptySet
<1> QED BY <1>4, <1>5

\* Every reload of Control that the broker remembers is in one place, and none is
\* answered twice (controller_reload_new(), controller_dispatch_reply()).
THEOREM ReloadsAccounted == Spec => []ReloadsInFlight
<1>1. ControlInv => ReloadsInFlight
  <2> SUFFICES ASSUME ControlInv PROVE ReloadsInFlight
    OBVIOUS
  <2>1. ASSUME Running, phase # "exit", NEW s \in Serials
        PROVE  Places(s) = IF s \in DOMAIN reloads THEN 1 ELSE 0
    <3>1. FlowInv
      BY <2>1 DEF ControlInv, Live
    <3>2. /\ to_broker \in Seq(ToBroker) /\ to_launcher \in Seq(ToLauncher)
          /\ CarriesOnce(to_broker) /\ CarriesOnce(to_launcher)
      BY <3>1 DEF FlowInv, QueuesOK, CarryInv
    <3>3. /\ Count(to_broker, s) = IF s \in Carried(to_broker) THEN 1 ELSE 0
          /\ Count(to_launcher, s) = IF s \in Carried(to_launcher) THEN 1 ELSE 0
      BY <3>2, CountIs
    <3>4. cause = s => phase # "idle"
      BY <3>1, Causes DEF FlowInv, PhaseInv
    <3>5. /\ Carried(to_broker) \cap Carried(to_launcher) = {}
          /\ cause \notin Carried(to_broker) \cup Carried(to_launcher)
          /\ s \in DOMAIN reloads <=>
                s \in Carried(to_broker) \/ s \in Carried(to_launcher) \/ cause = s
      BY <3>1 DEF FlowInv, CarryInv
    <3> QED BY <3>3, <3>4, <3>5 DEF Places
  <2>2. ASSUME NEW r \in Requests PROVE answered[r] <= IF r \in Range(reloads) THEN 0 ELSE 1
    <3>1. answered[r] \in {0, 1} /\ (r \in Range(reloads) => answered[r] = 0)
      BY DEF ControlInv, AnswerInv, Range
    <3> QED BY <3>1
  <2> QED BY <2>1, <2>2 DEF ReloadsInFlight
<1> QED BY <1>1, ControlSound, PTL

\* Between two calls the names the broker of Control can activate are those of
\* the running services, and no call is under way that it would refuse, names that
\* begin with ':' aside (service_add(), service_remove(), controller_add_name()).
THEOREM NamesFollow == Spec => []NamesAgree
<1>1. ControlInv => NamesAgree
  <2> SUFFICES ASSUME ControlInv, Running, phase # "exit"
               PROVE  /\ ~waiting =>
                            names = [i \in {services[n].id : n \in {m \in Names : services[m].running}} |->
                                        CHOOSE n \in Names : services[n].id = i]
                      /\ \A i \in DOMAIN to_broker :
                            LET m == to_broker[i] IN
                            /\ m.type = "AddName" /\ m.name \notin Unclaimable =>
                                   m.id \notin DOMAIN names /\ m.name \notin Range(names)
                            /\ m.type = "Release" => m.id \in DOMAIN names
                            /\ m.type = "SetPolicy" => listener # NoListener
    BY DEF NamesAgree
  <2>1. FlowInv /\ NameInv /\ PolicyInv /\ ServicesOK
    BY DEF ControlInv, Live, NameInv
  <2>2. ASSUME ~waiting
        PROVE  names = [i \in {services[n].id : n \in {m \in Names : services[m].running}} |->
                          CHOOSE n \in Names : services[n].id = i]
    <3>1. Agree(names, services)
      BY <2>1, <2>2 DEF NameInv, Confirmed
    <3>2. ASSUME NEW i \in DOMAIN names PROVE names[i] = CHOOSE n \in Names : services[n].id = i
      <4>1. PICK n \in Names : services[n].running /\ i = services[n].id
        BY <3>1, <3>2 DEF Agree
      <4>2. names[i] = n /\ services[n].id # 0
        BY <2>1, <3>1, <4>1 DEF Agree, ServicesOK
      <4>3. \A m \in Names : services[m].id = i => m = n
        BY <2>1, <4>1, <4>2 DEF ServicesOK
      <4>4. PICK k : k = CHOOSE m \in Names : services[m].id = i
        OBVIOUS
      <4>5. k \in Names /\ services[k].id = i
        BY <4>1, <4>4
      <4> QED BY <4>2, <4>3, <4>4, <4>5
    <3>3. names = [i \in DOMAIN names |-> names[i]]
          /\ DOMAIN names = {services[n].id : n \in {m \in Names : services[m].running}}
      BY <3>1 DEF Agree
    <3> QED BY <3>2, <3>3
  <2>3. ASSUME NEW i \in DOMAIN to_broker, to_broker[i].type \in Calls
        PROVE  /\ waiting /\ Agree(names, services)
               /\ to_broker[i] = Expected(phase, policy, services)
               /\ phase = "policy" => ~Confirmed
    <3>1. DOMAIN to_broker = 1 .. Len(to_broker)
      BY <2>1 DEF FlowInv, QueuesOK
    <3>2. ~NoneOf(to_broker, Calls)
      BY <2>3, <3>1 DEF NoneOf
    <3>3. waiting /\ NoneOf(to_launcher, Replies) /\ to_launcher \in Seq(ToLauncher)
      BY <2>1, <3>2 DEF FlowInv, CallInv, QueuesOK, PhaseInv
    <3>4. NoneOf(to_launcher, {"ok"})
      BY <3>3 DEF NoneOf, Replies
    <3>5. ~Confirmed
      BY <3>3, <3>4, FoundOrNone DEF Confirmed
    <3> QED BY <2>1, <2>3, <3>1, <3>3, <3>5 DEF NameInv, ExpectInv, OnlyCall
  <2>4. ASSUME NEW i \in DOMAIN to_broker, NEW m, m = to_broker[i]
        PROVE  /\ m.type = "AddName" => m.id \notin DOMAIN names /\ m.name \notin Range(names)
               /\ m.type = "Release" => m.id \in DOMAIN names
               /\ m.type = "SetPolicy" => listener # NoListener
    <3>1. CASE m.type = "AddName"
      <4>1. waiting /\ Agree(names, services) /\ m = Expected(phase, policy, services)
        BY <2>3, <2>4, <3>1 DEF Calls
      <4>2. PICK n : n = ToAdd(services)
        OBVIOUS
      <4>3. phase = "add" /\ m.id = services[n].id /\ m.name = n
        BY <2>1, <3>1, <4>1, <4>2, ExpectedTypes DEF FlowInv
      <4>4. n \in Names /\ services[n].id # 0 /\ ~services[n].running
        BY <2>1, <4>1, <4>2, <4>3, Selected DEF NameInv, ExpectInv, IdlingOf
      <4>5. services[n].id \notin DOMAIN names
        BY <2>1, <4>1, <4>4 DEF Agree, ServicesOK
      <4>6. n \notin Range(names)
        <5>1. ASSUME NEW j \in DOMAIN names, names[j] = n PROVE FALSE
          <6>1. PICK k \in Names : services[k].running /\ j = services[k].id
            BY <4>1, <5>1 DEF Agree
          <6>2. names[j] = k
            BY <4>1, <6>1 DEF Agree
          <6> QED BY <4>4, <5>1, <6>1, <6>2
        <5> QED BY <5>1 DEF Range
      <4> QED BY <3>1, <4>3, <4>5, <4>6
    <3>2. CASE m.type = "Release"
      <4>1. waiting /\ Agree(names, services) /\ m = Expected(phase, policy, services)
        BY <2>3, <2>4, <3>2 DEF Calls
      <4>2. PICK n : n = ToRemove(services)
        OBVIOUS
      <4>3. phase = "remove" /\ m.id = services[n].id
        BY <2>1, <3>2, <4>1, <4>2, ExpectedTypes DEF FlowInv
      <4>4. n \in Names /\ services[n].running
        BY <2>1, <4>1, <4>2, <4>3, Selected DEF NameInv, ExpectInv, OutdatedOf
      <4> QED BY <3>2, <4>1, <4>3, <4>4 DEF Agree
    <3>3. CASE m.type = "SetPolicy"
      <4>1. waiting /\ m = Expected(phase, policy, services)
        BY <2>3, <2>4, <3>3 DEF Calls
      <4>2. phase = "policy"
        BY <2>1, <3>3, <4>1, ExpectedTypes DEF FlowInv
      <4> QED BY <2>1, <3>3, <4>2 DEF PolicyInv
    <3> QED BY <3>1, <3>2, <3>3
  <2> QED BY <2>2, <2>4
<1> QED BY <1>1, ControlSound, PTL

\* Once the launcher of Control is done and inotify has nothing to say, what can
\* be activated is what is on disk, directories that came or went unnoticed
\* aside, and every peer is under the policy read last
\* (launcher_load_service_dir(), launcher_reload_config(), listener_set_policy()).
THEOREM SettledIsOnDisk == Spec => []SettledOnDisk
<1>1. ControlInv => SettledOnDisk
  <2> SUFFICES ASSUME ControlInv, phase = "idle", applied, ~inotify, Running
               PROVE  /\ \A n \in Names :
                            LET has == {d \in DOMAIN Dirs \ unnoticed : n \in Seen(d)} IN
                            /\ has # {} => services[n].running /\ services[n].dir <= Min(has)
                            /\ services[n].running => services[n].dir \in has \cup unnoticed
                      /\ ~Zephyr => {listener} \cup Range(peers) = {policy}
    BY DEF SettledOnDisk
  <2>1. ServicesOK /\ PolicyInv /\ DiskInv /\ Settled
    BY DEF ControlInv, Live, NameInv, Settled
  <2>2. Outdated = {} /\ Idling = {} /\ Covered = DOMAIN Dirs /\ \A n \in Names : Reflected(n)
    BY <2>1 DEF DiskInv, Covered
  <2>3. ASSUME NEW n \in Names, NEW has, has = {d \in DOMAIN Dirs \ unnoticed : n \in Seen(d)}
        PROVE  /\ has # {} => services[n].running /\ services[n].dir <= Min(has)
               /\ services[n].running => services[n].dir \in has \cup unnoticed
    <3>1. services[n].tag <=> services[n].running
      <4>1. /\ services[n].running \/ services[n].tag => services[n].id # 0
        BY <2>1 DEF ServicesOK
      <4> QED BY <2>2, <4>1 DEF Outdated, Idling
    <3>2. services[n].tag => services[n].dir \in has \cup unnoticed
      BY <2>2, <2>3 DEF Reflected
    <3>3. ASSUME has # {} PROVE services[n].tag /\ services[n].dir <= Min(has)
      <4>1. has \subseteq Nat
        <5>1. DOMAIN Dirs = 1 .. Len(Dirs)
          BY ControlAssumption
        <5> QED BY <2>3, <5>1
      <4>2. \A e \in has : services[n].tag /\ services[n].dir <= e
        BY <2>2, <2>3 DEF Reflected
      <4>3. Min(has) \in has
        BY <3>3, <4>1, MinIs
      <4> QED BY <4>2, <4>3
    <3> QED BY <3>1, <3>2, <3>3
  <2>4. ASSUME ~Zephyr PROVE {listener} \cup Range(peers) = {policy}
    <3>1. listener = policy /\ \A p \in DOMAIN peers : peers[p] = policy
      BY <2>1, <2>4 DEF PolicyInv, UpToDate
    <3> QED BY <3>1 DEF Range
  <2> QED BY <2>3, <2>4
<1> QED BY <1>1, ControlSound, PTL

=============================================================================
