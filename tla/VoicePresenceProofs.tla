------------------------- MODULE VoicePresenceProofs -------------------------
(***************************************************************************)
(* Proofs about VoicePresence for any Users, Voice Channels, voice         *)
(* sessions and Gateway Sessions, and any number of overlapping requests   *)
(* and userGone goroutines.                                                *)
(***************************************************************************)
EXTENDS VoicePresence, FiniteSetTheorems, TLAPS

TaskType ==
    [at : Places,
     op : {"none", "join", "update", "leave", "gone", "presence"},
     user : Users \cup {None}, channel : Channels \cup {None},
     entry : Entry \cup {None}]

\* What a goroutine carries at the place it stopped at.
TaskOK(t) ==
    /\ task[t].at # "idle" => task[t].user \in Users
    /\ task[t].at = "joining" => task[t].channel \in Channels
    /\ task[t].at \in {"leaving", "authorizing", "applying"} => task[t].entry \in Entry

\* A voice session is in one entry, or ended; then it is with one goroutine that will
\* tell that it ended, or that has been told, or there is nobody to tell (a rejoin).
HasEntry(u) == entries[u] # None
Tells(t) == task[t].at = "leaving"
SessionOf(t) == task[t].entry.session

SessionsOK ==
    /\ \A u \in Users : HasEntry(u) => entries[u].session \notin ended
    /\ \A u, w \in Users : u # w /\ HasEntry(u) /\ HasEntry(w) =>
         entries[u].session # entries[w].session
    /\ \A t \in Tasks : Tells(t) => SessionOf(t) \in ended /\ leaves[SessionOf(t)] = 0
    /\ \A t, q \in Tasks : t # q /\ Tells(t) /\ Tells(q) => SessionOf(t) # SessionOf(q)
    /\ \A v \in VoiceIds : leaves[v] \in {0, 1} /\ (v \notin ended => leaves[v] = 0)

\* The history the properties speak of.
HistoryOK == lateStatus \subseteq Users /\ lateVoice \subseteq Users

IInv ==
    /\ TypeOK
    /\ \A t \in Tasks : TaskOK(t)
    /\ SessionsOK

LEMMA InitIInv == Init => IInv
<1> SUFFICES ASSUME Init PROVE IInv
  OBVIOUS
<1>1. TypeOK
  BY DEF Init, TypeOK, Idle, Places, Gateway!Init
<1>2. \A t \in Tasks : TaskOK(t) /\ ~ Tells(t)
  BY DEF Init, TaskOK, Tells, Idle
<1>3. \A u \in Users : ~ HasEntry(u)
  BY DEF Init, HasEntry
<1>4. \A v \in VoiceIds : leaves[v] = 0
  BY DEF Init
<1> QED BY <1>1, <1>2, <1>3, <1>4 DEF IInv, SessionsOK

-----------------------------------------------------------------------------
(* Steps of one goroutine.                                                 *)

LEMMA TaskStep ==
    ASSUME IInv, NEW t \in Tasks, NEW new \in TaskType, task' = [task EXCEPT ![t] = new],
           new.at # "idle" => new.user \in Users,
           new.at = "joining" => new.channel \in Channels,
           new.at \in {"leaving", "authorizing", "applying"} => new.entry \in Entry
    PROVE  /\ task' \in [Tasks -> TaskType]
           /\ task'[t] = new /\ \A q \in Tasks \ {t} : task'[q] = task[q]
           /\ \A q \in Tasks : TaskOK(q)'
<1>1. task \in [Tasks -> TaskType]
  BY DEF IInv, TypeOK, TaskType
<1>2. task'[t] = new /\ \A q \in Tasks \ {t} : task'[q] = task[q]
  BY <1>1
<1>3. ASSUME NEW q \in Tasks
      PROVE  TaskOK(q)'
  <2>1. CASE q = t
    BY <1>2, <2>1 DEF TaskOK
  <2>2. CASE q # t
    BY <1>2, <2>2 DEF IInv, TaskOK
  <2> QED BY <2>1, <2>2
<1> QED BY <1>1, <1>2, <1>3

\* No voice session begins or ends.
LEMMA Quiet ==
    ASSUME IInv, TypeOK', \A q \in Tasks : TaskOK(q)', UNCHANGED <<ended, leaves>>,
           \A u \in Users : HasEntry(u)' =>
             HasEntry(u) /\ entries'[u].session = entries[u].session,
           \A q \in Tasks : Tells(q)' => Tells(q) /\ task'[q].entry = task[q].entry
    PROVE  IInv'
<1>1. SessionsOK'
  BY DEF IInv, SessionsOK, SessionOf
<1> QED BY <1>1 DEF IInv

\* A goroutine starts, waits or finishes, and nothing but its own record changes.
LEMMA OnlyTask ==
    ASSUME IInv, HistoryOK', NEW t \in Tasks, NEW new \in TaskType,
           task' = [task EXCEPT ![t] = new],
           new.at # "leaving",
           new.at # "idle" => new.user \in Users,
           new.at = "joining" => new.channel \in Channels,
           new.at \in {"authorizing", "applying"} => new.entry \in Entry,
           goneCalls' \in [Users -> Nat], UNCHANGED <<entries, ended, leaves>>,
           presence' \in [Users -> {"OFFLINE", "ONLINE"}]
    PROVE  IInv'
<1>1. /\ task' \in [Tasks -> TaskType]
      /\ task'[t] = new /\ \A q \in Tasks \ {t} : task'[q] = task[q]
      /\ \A q \in Tasks : TaskOK(q)'
  BY TaskStep
<1>2. TypeOK'
  BY <1>1 DEF IInv, TypeOK, TaskType, HistoryOK
<1>3. \A q \in Tasks : Tells(q)' => Tells(q) /\ task'[q].entry = task[q].entry
  BY <1>1 DEF Tells
<1> QED BY <1>1, <1>2, <1>3, Quiet DEF HasEntry

\* A voice session leaves the map: it was nobody's to tell before, and is t's at most now.
LEMMA Ending ==
    ASSUME IInv, HistoryOK', NEW t \in Tasks, NEW new \in TaskType,
           task' = [task EXCEPT ![t] = new],
           NEW u \in Users, NEW mine \in Entry \cup {None},
           entries' = [entries EXCEPT ![u] = mine],
           mine # None => mine.session \notin ended \cup Current,
           End(entries[u]), task[t].at # "leaving",
           new.at = "leaving" => HasEntry(u) /\ new.entry = entries[u],
           new.at # "idle" => new.user \in Users,
           new.at \in {"leaving", "idle", "clearing"},
           UNCHANGED <<gatewayVars, presence, leaves>>
    PROVE  IInv'
<1>1. /\ entries \in [Users -> Entry \cup {None}] /\ ended \subseteq VoiceIds
      /\ leaves \in [VoiceIds -> Nat] /\ \A e \in Entry : e.session \in VoiceIds
  BY DEF IInv, TypeOK, Entry
<1>2. HasEntry(u) => entries[u] \in Entry
  BY <1>1 DEF HasEntry
<1>3. /\ task' \in [Tasks -> TaskType]
      /\ task'[t] = new /\ \A q \in Tasks \ {t} : task'[q] = task[q]
      /\ \A q \in Tasks : TaskOK(q)'
  BY <1>2, TaskStep
<1>4. entries'[u] = mine /\ \A w \in Users \ {u} : entries'[w] = entries[w]
  BY <1>1
<1>5. /\ HasEntry(u) => ended' = ended \cup {entries[u].session}
      /\ ~ HasEntry(u) => ended' = ended
  BY DEF End, HasEntry
<1>6. ended' \subseteq VoiceIds
  BY <1>1, <1>2, <1>5
<1>7. TypeOK'
  BY <1>3, <1>6 DEF IInv, TypeOK, TaskType, gatewayVars, HistoryOK
<1>8. \A w \in Users : HasEntry(w) => entries[w].session \in Current
  BY DEF Current, HasEntry
<1>9. \A w \in Users : HasEntry(w)' => entries'[w].session \notin ended'
  <2> SUFFICES ASSUME NEW w \in Users, HasEntry(w)' PROVE entries'[w].session \notin ended'
    OBVIOUS
  <2>1. CASE w = u
    BY <1>4, <1>5, <1>8, <2>1 DEF HasEntry
  <2>2. CASE w # u
    BY <1>4, <1>5, <2>2 DEF IInv, SessionsOK, HasEntry
  <2> QED BY <2>1, <2>2
<1>10. ASSUME NEW w \in Users, NEW x \in Users, w # x, HasEntry(w)', HasEntry(x)'
       PROVE  entries'[w].session # entries'[x].session
  BY <1>4, <1>8, <1>10 DEF IInv, SessionsOK, HasEntry
<1>11. \A q \in Tasks : Tells(q)' => SessionOf(q)' \in ended' /\ leaves'[SessionOf(q)'] = 0
  <2> SUFFICES ASSUME NEW q \in Tasks, Tells(q)'
               PROVE  SessionOf(q)' \in ended' /\ leaves'[SessionOf(q)'] = 0
    OBVIOUS
  <2>1. CASE q = t
    <3>1. HasEntry(u) /\ SessionOf(q)' = entries[u].session
      BY <1>3, <2>1 DEF Tells, SessionOf
    <3>2. entries[u].session \in VoiceIds /\ entries[u].session \notin ended
      BY <1>1, <1>2, <3>1 DEF IInv, SessionsOK
    <3> QED BY <1>5, <3>1, <3>2 DEF IInv, SessionsOK
  <2>2. CASE q # t
    BY <1>3, <1>5, <2>2 DEF IInv, SessionsOK, Tells, SessionOf
  <2> QED BY <2>1, <2>2
<1>12. ASSUME NEW q \in Tasks, NEW s \in Tasks, q # s, Tells(q)', Tells(s)'
       PROVE  SessionOf(q)' # SessionOf(s)'
  <2>1. ASSUME NEW p \in Tasks \ {t}, Tells(p)'
        PROVE  Tells(p) /\ SessionOf(p)' = SessionOf(p) /\ SessionOf(p) \in ended
    BY <1>3, <2>1 DEF IInv, SessionsOK, Tells, SessionOf
  <2>2. Tells(t)' => HasEntry(u) /\ SessionOf(t)' = entries[u].session /\ SessionOf(t)' \notin ended
    BY <1>3 DEF Tells, SessionOf, IInv, SessionsOK
  <2>3. CASE q = t
    <3>1. SessionOf(s)' \in ended
      BY <1>12, <2>1, <2>3
    <3>2. SessionOf(t)' \notin ended
      BY <1>12, <2>2, <2>3
    <3> QED BY <2>3, <3>1, <3>2
  <2>4. CASE s = t
    <3>1. SessionOf(q)' \in ended
      BY <1>12, <2>1, <2>4
    <3>2. SessionOf(t)' \notin ended
      BY <1>12, <2>2, <2>4
    <3> QED BY <2>4, <3>1, <3>2
  <2>5. CASE q # t /\ s # t
    BY <1>12, <2>1, <2>5 DEF IInv, SessionsOK
  <2> QED BY <2>3, <2>4, <2>5
<1>13. \A v \in VoiceIds : leaves'[v] \in {0, 1} /\ (v \notin ended' => leaves'[v] = 0)
  BY <1>5 DEF IInv, SessionsOK
<1>14. SessionsOK'
  BY <1>9, <1>10, <1>11, <1>12, <1>13 DEF SessionsOK
<1> QED BY <1>3, <1>7, <1>14 DEF IInv

LEMMA IdleType == Idle \in TaskType /\ Idle.at = "idle"
BY DEF Idle, TaskType, Places

LEMMA TaskTypes == IInv => task \in [Tasks -> TaskType]
BY DEF IInv, TypeOK, TaskType

\* Finishing, and going on to another place, as steps of OnlyTask.
LEMMA FinishIInv ==
    ASSUME IInv, HistoryOK', NEW t \in Tasks, Finish(t),
           UNCHANGED <<gatewayVars, entries, ended, leaves>>,
           presence' \in [Users -> {"OFFLINE", "ONLINE"}]
    PROVE  IInv'
<1>1. goneCalls' \in [Users -> Nat]
  BY DEF IInv, TypeOK, gatewayVars
<1>2. task' = [task EXCEPT ![t] = Idle]
  BY DEF Finish
<1> QED BY <1>1, <1>2, IdleType, OnlyTask

LEMMA StartsIInv ==
    ASSUME IInv, HistoryOK', NEW t \in Tasks, NEW u \in Users,
           \/ \E ch \in Channels : JoinAuthorized(t, u, ch)
           \/ UpdateRead(t, u) \/ StartLeave(t, u) \/ StartPresence(t, u) \/ StartGone(t, u)
    PROVE  IInv'
<1>1. /\ goneCalls \in [Users -> Nat] /\ presence \in [Users -> {"OFFLINE", "ONLINE"}]
      /\ \A w \in Users : HasEntry(w) => entries[w] \in Entry
  BY DEF IInv, TypeOK, HasEntry
<1>2. ASSUME NEW ch \in Channels, JoinAuthorized(t, u, ch)
      PROVE  IInv'
  <2> DEFINE new == [Idle EXCEPT !.at = "joining", !.op = "join", !.user = u, !.channel = ch]
  <2>1. new \in TaskType /\ new.at = "joining" /\ new.user = u /\ new.channel = ch
    BY DEF Idle, TaskType, Places
  <2>2. /\ task' = [task EXCEPT ![t] = new]
        /\ UNCHANGED <<goneCalls, entries, presence, ended, leaves>>
    BY <1>2 DEF JoinAuthorized, gatewayVars, presenceVars
  <2> HIDE DEF new
  <2> QED BY <1>1, <2>1, <2>2, OnlyTask
<1>3. CASE UpdateRead(t, u)
  <2> DEFINE new == [Idle EXCEPT !.at = "authorizing", !.op = "update", !.user = u,
                                !.entry = entries[u]]
  <2>1. new \in TaskType /\ new.at = "authorizing" /\ new.user = u /\ new.entry \in Entry
    BY <1>1, <1>3 DEF Idle, TaskType, Places, UpdateRead, HasEntry
  <2>2. /\ task' = [task EXCEPT ![t] = new]
        /\ UNCHANGED <<goneCalls, entries, presence, ended, leaves>>
    BY <1>3 DEF UpdateRead, gatewayVars, presenceVars
  <2> HIDE DEF new
  <2> QED BY <1>1, <1>3, <2>1, <2>2, OnlyTask
<1>4. CASE StartLeave(t, u)
  <2> DEFINE new == [Idle EXCEPT !.at = "evicting", !.op = "leave", !.user = u]
  <2>1. new \in TaskType /\ new.at = "evicting" /\ new.user = u
    BY DEF Idle, TaskType, Places
  <2>2. /\ task' = [task EXCEPT ![t] = new]
        /\ UNCHANGED <<goneCalls, entries, presence, ended, leaves>>
    BY <1>4 DEF StartLeave, gatewayVars, presenceVars
  <2> HIDE DEF new
  <2> QED BY <1>1, <2>1, <2>2, OnlyTask
<1>5. CASE StartPresence(t, u)
  <2> DEFINE new == [Idle EXCEPT !.at = "setting", !.op = "presence", !.user = u]
  <2>1. new \in TaskType /\ new.at = "setting" /\ new.user = u
    BY DEF Idle, TaskType, Places
  <2>2. /\ task' = [task EXCEPT ![t] = new]
        /\ UNCHANGED <<goneCalls, entries, presence, ended, leaves>>
    BY <1>5 DEF StartPresence, gatewayVars, presenceVars
  <2> HIDE DEF new
  <2> QED BY <1>1, <2>1, <2>2, OnlyTask
<1>6. CASE StartGone(t, u)
  <2> DEFINE new == [Idle EXCEPT !.at = "evicting", !.op = "gone", !.user = u]
  <2>1. new \in TaskType /\ new.at = "evicting" /\ new.user = u
    BY DEF Idle, TaskType, Places
  <2>2. /\ task' = [task EXCEPT ![t] = new]
        /\ UNCHANGED <<entries, presence, ended, leaves>>
    BY <1>6 DEF StartGone, presenceVars
  <2>3. goneCalls' = [goneCalls EXCEPT ![u] = goneCalls[u] - 1] /\ goneCalls[u] > 0
    BY <1>6 DEF StartGone, Gateway!Run
  <2>4. goneCalls[u] - 1 \in Nat
    BY <1>1, <2>3
  <2>5. goneCalls' \in [Users -> Nat]
    BY ONLY <1>1, <2>3, <2>4
  <2> HIDE DEF new
  <2> QED BY <1>1, <2>1, <2>2, <2>5, OnlyTask
<1> QED BY <1>2, <1>3, <1>4, <1>5, <1>6

\* A goroutine goes on to a place where it carries what it already had.
LEMMA GoIInv ==
    ASSUME IInv, HistoryOK', NEW t \in Tasks, NEW place \in Places \ {"idle", "joining", "leaving"},
           task[t].at # "idle", place \in {"authorizing", "applying"} => task[t].entry \in Entry,
           Go(t, place), UNCHANGED <<gatewayVars, entries, presence, ended, leaves>>
    PROVE  IInv'
<1> DEFINE new == [task[t] EXCEPT !.at = place]
<1>1. task[t] \in TaskType /\ task[t].user \in Users
  BY TaskTypes DEF IInv, TaskOK
<1>2. new \in TaskType /\ new.at = place /\ new.user = task[t].user /\ new.entry = task[t].entry
  BY <1>1 DEF TaskType
<1>3. task' = [task EXCEPT ![t] = new]
  BY DEF Go
<1> HIDE DEF new
<1>4. goneCalls' \in [Users -> Nat] /\ presence' \in [Users -> {"OFFLINE", "ONLINE"}]
  BY DEF IInv, TypeOK, gatewayVars
<1> QED BY <1>1, <1>2, <1>3, <1>4, OnlyTask

LEMMA UpdateAuthorizedIInv ==
    ASSUME IInv, HistoryOK', NEW t \in Tasks, UpdateAuthorized(t)
    PROVE  IInv'
<1>1. /\ task[t].at = "authorizing" /\ task[t].entry \in Entry
      /\ UNCHANGED <<gatewayVars, entries, presence, ended, leaves>>
  BY DEF UpdateAuthorized, IInv, TaskOK, presenceVars
<1>2. presence' \in [Users -> {"OFFLINE", "ONLINE"}]
  BY <1>1 DEF IInv, TypeOK
<1>3. CASE Finish(t)
  BY <1>1, <1>2, <1>3, FinishIInv
<1>4. CASE Go(t, "applying")
  BY <1>1, <1>4, GoIInv DEF Places
<1>5. CASE Go(t, "evicting")
  BY <1>1, <1>5, GoIInv DEF Places
<1> QED BY <1>3, <1>4, <1>5 DEF UpdateAuthorized

LEMMA UpdateApplyIInv ==
    ASSUME IInv, HistoryOK', NEW t \in Tasks, NEW flag \in Flags, UpdateApply(t, flag)
    PROVE  IInv'
<1>1. /\ task[t].at = "applying" /\ Finish(t)
      /\ UNCHANGED <<gatewayVars, presence, ended, leaves>>
  BY DEF UpdateApply, presenceVars
<1>2. task[t].user \in Users /\ entries \in [Users -> Entry \cup {None}]
  BY <1>1 DEF IInv, TaskOK, TypeOK
<1>3. PICK u \in Users : u = task[t].user
  BY <1>2
<1>4. /\ entries' \in [Users -> Entry \cup {None}]
      /\ \A w \in Users : HasEntry(w)' =>
           HasEntry(w) /\ entries'[w].session = entries[w].session
  <2>1. CASE entries' = entries
    BY <1>2, <2>1 DEF HasEntry
  <2>2. CASE entries' # entries
    <3>1. HasEntry(u) /\ entries' = [entries EXCEPT ![u] = [entries[u] EXCEPT !.flag = flag]]
      BY <1>2, <1>3, <2>2 DEF UpdateApply, HasEntry
    <3>2. /\ [entries[u] EXCEPT !.flag = flag] \in Entry
          /\ [entries[u] EXCEPT !.flag = flag].session = entries[u].session
      BY <1>2, <3>1 DEF Entry, HasEntry
    <3> HIDE DEF Entry
    <3> QED BY <1>2, <3>1, <3>2 DEF HasEntry
  <2> QED BY <2>1, <2>2
<1>5. /\ task' \in [Tasks -> TaskType]
      /\ task'[t] = Idle /\ \A q \in Tasks \ {t} : task'[q] = task[q]
      /\ \A q \in Tasks : TaskOK(q)'
  BY <1>1, IdleType, TaskStep DEF Finish
<1>6. TypeOK'
  BY <1>1, <1>4, <1>5 DEF IInv, TypeOK, TaskType, gatewayVars, HistoryOK
<1>7. \A q \in Tasks : Tells(q)' => Tells(q) /\ task'[q].entry = task[q].entry
  BY <1>5, IdleType DEF Tells
<1> QED BY <1>1, <1>4, <1>5, <1>6, <1>7, Quiet

LEMMA JoinCommitIInv ==
    ASSUME IInv, HistoryOK', NEW t \in Tasks, NEW v \in VoiceIds, NEW flag \in Flags,
           JoinCommit(t, v, flag)
    PROVE  IInv'
<1>1. /\ task[t].at = "joining" /\ v \notin ended \cup Current
      /\ UNCHANGED <<gatewayVars, presence, leaves>>
  BY DEF JoinCommit, presenceVars
<1>2. task[t].user \in Users /\ task[t].channel \in Channels /\ task[t] \in TaskType
  BY <1>1, TaskTypes DEF IInv, TaskOK
<1>3. PICK u \in Users : u = task[t].user
  BY <1>2
<1>4. PICK mine \in Entry \cup {None} :
        mine.session = v /\ entries' = [entries EXCEPT ![u] = mine]
  <2> DEFINE mine == [session |-> v, channel |-> task[t].channel, flag |-> flag]
  <2>1. mine \in Entry /\ mine.session = v
    BY <1>2 DEF Entry
  <2>2. entries' = [entries EXCEPT ![u] = mine]
    BY <1>3 DEF JoinCommit
  <2> QED BY <2>1, <2>2
<1>5. End(entries[u])
  BY <1>3 DEF JoinCommit
<1>6. PICK new \in TaskType :
        /\ task' = [task EXCEPT ![t] = new]
        /\ new.at \in {"leaving", "idle", "clearing"}
        /\ new.at = "leaving" => HasEntry(u) /\ new.entry = entries[u]
        /\ new.at # "idle" => new.user \in Users
  <2>1. CASE Finish(t)
    BY <2>1, IdleType DEF Finish
  <2>2. CASE ~ Finish(t)
    <3> DEFINE n == [task[t] EXCEPT !.at = "leaving", !.entry = entries[u]]
    <3>1. HasEntry(u) /\ task' = [task EXCEPT ![t].at = "leaving", ![t].entry = entries[u]]
      BY <1>3, <2>2 DEF JoinCommit, HasEntry
    <3>2. task' = [task EXCEPT ![t] = n]
      BY <3>1, TaskTypes
    <3>3. entries[u] \in Entry \cup {None}
      BY DEF IInv, TypeOK
    <3>4. n \in TaskType /\ n.at = "leaving" /\ n.entry = entries[u] /\ n.user = task[t].user
      BY <1>2, <3>3 DEF TaskType, Places
    <3> QED BY <1>2, <3>1, <3>2, <3>4
  <2> QED BY <2>1, <2>2
<1> QED BY <1>1, <1>4, <1>5, <1>6, Ending

LEMMA EvictIInv ==
    ASSUME IInv, HistoryOK', NEW t \in Tasks, Evict(t)
    PROVE  IInv'
<1>1. task[t].at = "evicting" /\ UNCHANGED <<gatewayVars, presence, leaves>>
  BY DEF Evict, presenceVars
<1>2. task[t].user \in Users /\ task[t] \in TaskType
  BY <1>1, TaskTypes DEF IInv, TaskOK
<1>3. PICK u \in Users : u = task[t].user
  BY <1>2
<1>4. entries' = [entries EXCEPT ![u] = None] /\ End(entries[u])
  BY <1>3 DEF Evict
<1>5. PICK new \in TaskType :
        /\ task' = [task EXCEPT ![t] = new]
        /\ new.at \in {"leaving", "idle", "clearing"}
        /\ new.at = "leaving" => HasEntry(u) /\ new.entry = entries[u]
        /\ new.at # "idle" => new.user \in Users
  <2>1. CASE HasEntry(u)
    <3> DEFINE n == [task[t] EXCEPT !.at = "leaving", !.entry = entries[u]]
    <3>1. task' = [task EXCEPT ![t].at = "leaving", ![t].entry = entries[u]]
      BY <1>3, <2>1 DEF Evict, HasEntry
    <3>2. task' = [task EXCEPT ![t] = n]
      BY <3>1, TaskTypes
    <3>3. entries[u] \in Entry \cup {None}
      BY DEF IInv, TypeOK
    <3>4. n \in TaskType /\ n.at = "leaving" /\ n.entry = entries[u] /\ n.user = task[t].user
      BY <1>2, <3>3 DEF TaskType, Places
    <3> QED BY <1>2, <2>1, <3>2, <3>4
  <2>2. CASE ~ HasEntry(u) /\ task[t].op = "gone"
    <3> DEFINE n == [task[t] EXCEPT !.at = "clearing"]
    <3>1. task' = [task EXCEPT ![t] = n]
      BY <1>3, <2>2 DEF Evict, HasEntry, Go
    <3>2. n \in TaskType /\ n.at = "clearing" /\ n.user = task[t].user
      BY <1>2 DEF TaskType, Places
    <3> QED BY <1>2, <3>1, <3>2
  <2>3. CASE ~ HasEntry(u) /\ task[t].op # "gone"
    <3>1. task' = [task EXCEPT ![t] = Idle]
      BY <1>3, <2>3 DEF Evict, HasEntry, Finish
    <3> QED BY <3>1, IdleType
  <2> QED BY <2>1, <2>2, <2>3
<1> QED BY <1>1, <1>4, <1>5, Ending

\* The leave event is told once: the session is no other goroutine's to tell.
LEMMA TellLeftIInv ==
    ASSUME IInv, HistoryOK', NEW t \in Tasks, TellLeft(t)
    PROVE  IInv'
<1>1. /\ task[t].at = "leaving" /\ task[t].entry \in Entry /\ task[t].user \in Users
      /\ task[t] \in TaskType /\ UNCHANGED <<gatewayVars, entries, presence, ended>>
  BY TaskTypes DEF TellLeft, IInv, TaskOK, presenceVars
<1>2. PICK v \in VoiceIds : v = SessionOf(t)
  BY <1>1 DEF Entry, SessionOf
<1>3. leaves[v] = 0 /\ v \in ended
  BY <1>1, <1>2 DEF IInv, SessionsOK, Tells
<1>4. leaves \in [VoiceIds -> Nat]
  BY DEF IInv, TypeOK
<1>5. leaves' = [leaves EXCEPT ![v] = 1]
  BY <1>2, <1>3, <1>4 DEF TellLeft, SessionOf
<1>6. PICK new \in TaskType :
        /\ task' = [task EXCEPT ![t] = new]
        /\ new.at \in {"idle", "clearing"}
        /\ new.at # "idle" => new.user \in Users
  <2>1. CASE task[t].op = "gone"
    <3> DEFINE n == [task[t] EXCEPT !.at = "clearing"]
    <3>1. task' = [task EXCEPT ![t] = n]
      BY <2>1 DEF TellLeft, Go
    <3>2. n \in TaskType /\ n.at = "clearing" /\ n.user = task[t].user
      BY <1>1 DEF TaskType, Places
    <3> QED BY <1>1, <3>1, <3>2
  <2>2. CASE task[t].op # "gone"
    <3>1. task' = [task EXCEPT ![t] = Idle]
      BY <2>2 DEF TellLeft, Finish
    <3> QED BY <3>1, IdleType
  <2> QED BY <2>1, <2>2
<1>7. /\ task' \in [Tasks -> TaskType]
      /\ task'[t] = new /\ \A q \in Tasks \ {t} : task'[q] = task[q]
      /\ \A q \in Tasks : TaskOK(q)'
  BY <1>6, TaskStep
<1>8. /\ leaves' \in [VoiceIds -> Nat]
      /\ leaves'[v] = 1 /\ \A w \in VoiceIds \ {v} : leaves'[w] = leaves[w]
  BY <1>4, <1>5
<1>9. TypeOK'
  BY <1>1, <1>7, <1>8 DEF IInv, TypeOK, TaskType, gatewayVars, HistoryOK
<1>10. ASSUME NEW q \in Tasks, Tells(q)'
       PROVE  q # t /\ Tells(q) /\ SessionOf(q)' = SessionOf(q) /\ SessionOf(q) # v
  BY <1>1, <1>2, <1>6, <1>7, <1>10 DEF Tells, SessionOf, IInv, SessionsOK
<1>11. \A q \in Tasks : Tells(q)' => SessionOf(q)' \in ended' /\ leaves'[SessionOf(q)'] = 0
  <2> SUFFICES ASSUME NEW q \in Tasks, Tells(q)'
               PROVE  SessionOf(q)' \in ended' /\ leaves'[SessionOf(q)'] = 0
    OBVIOUS
  <2>1. Tells(q) /\ SessionOf(q)' = SessionOf(q) /\ SessionOf(q) # v
    BY <1>10
  <2>2. SessionOf(q) \in ended /\ leaves[SessionOf(q)] = 0 /\ ended \subseteq VoiceIds
    BY <2>1 DEF IInv, SessionsOK, TypeOK
  <2> QED BY <1>1, <1>8, <2>1, <2>2
<1>12. ASSUME NEW q \in Tasks, NEW s \in Tasks, q # s, Tells(q)', Tells(s)'
       PROVE  SessionOf(q)' # SessionOf(s)'
  BY <1>10, <1>12 DEF IInv, SessionsOK
<1>13. \A w \in VoiceIds : leaves'[w] \in {0, 1} /\ (w \notin ended' => leaves'[w] = 0)
  BY <1>1, <1>3, <1>8 DEF IInv, SessionsOK
<1>14. /\ \A u \in Users : HasEntry(u)' => entries'[u].session \notin ended'
       /\ \A u, w \in Users : u # w /\ HasEntry(u)' /\ HasEntry(w)' =>
            entries'[u].session # entries'[w].session
  BY <1>1 DEF IInv, SessionsOK, HasEntry
<1>15. SessionsOK'
  BY <1>11, <1>12, <1>13, <1>14 DEF SessionsOK
<1> QED BY <1>7, <1>9, <1>15 DEF IInv

LEMMA PresenceIInv ==
    ASSUME IInv, HistoryOK', NEW t \in Tasks, Clear(t) \/ SetPresence(t)
    PROVE  IInv'
<1>1. /\ Finish(t) /\ UNCHANGED <<gatewayVars, entries, ended, leaves>>
      /\ presence' = [presence EXCEPT ![task[t].user] = "OFFLINE"]
           \/ presence' = [presence EXCEPT ![task[t].user] = "ONLINE"]
  BY DEF Clear, SetPresence
<1>2. presence' \in [Users -> {"OFFLINE", "ONLINE"}]
  BY <1>1 DEF IInv, TypeOK
<1> QED BY <1>1, <1>2, FinishIInv

LEMMA GatewayIInv ==
    ASSUME IInv, HistoryOK', NEW u \in Users, NEW dropped, NEW opened,
           GatewayChanges(dropped, u, opened)
    PROVE  IInv'
<1>1. UNCHANGED <<entries, presence, task, ended, leaves>>
  BY DEF GatewayChanges, presenceVars
<1>2. goneCalls' \in [Users -> Nat]
  <2>1. goneCalls' = [v \in Users |-> goneCalls[v] +
                        IF held[v] # {} /\ held[v] \subseteq dropped THEN 1 ELSE 0]
    BY DEF GatewayChanges, Gateway!Change
  <2>2. goneCalls \in [Users -> Nat]
    BY DEF IInv, TypeOK
  <2>3. \A v \in Users :
          (goneCalls[v] + IF held[v] # {} /\ held[v] \subseteq dropped THEN 1 ELSE 0) \in Nat
    BY <2>2
  <2> QED BY ONLY <2>1, <2>3
<1>3. TypeOK' /\ \A q \in Tasks : TaskOK(q)'
  BY <1>1, <1>2 DEF IInv, TypeOK, TaskOK, HistoryOK
<1> QED BY <1>1, <1>3, Quiet DEF HasEntry, Tells

LEMMA NextHistory == IInv /\ [Next]_vars => HistoryOK'
<1> SUFFICES ASSUME IInv, [Next]_vars PROVE HistoryOK'
  OBVIOUS
<1> USE DEF HistoryOK, presenceVars
<1>1. HistoryOK
  BY DEF IInv, TypeOK
<1>2. ASSUME NEW t \in Tasks, Step(t)
      PROVE  HistoryOK'
  <2>1. CASE SetPresence(t)
    <3>1. task[t].user \in Users
      BY <2>1 DEF SetPresence, IInv, TaskOK
    <3> QED BY <1>1, <2>1, <3>1 DEF SetPresence, Late
  <2>2. CASE \E v \in VoiceIds, flag \in Flags : JoinCommit(t, v, flag)
    <3>1. task[t].user \in Users
      BY <2>2 DEF JoinCommit, IInv, TaskOK
    <3> QED BY <1>1, <2>2, <3>1 DEF JoinCommit, Late
  <2>3. CASE ~ SetPresence(t) /\ ~ \E v \in VoiceIds, flag \in Flags : JoinCommit(t, v, flag)
    BY <1>1, <1>2, <2>3 DEF Step, TellLeft, UpdateAuthorized, UpdateApply, Evict, Clear
  <2> QED BY <2>1, <2>2, <2>3
<1>3. ASSUME NEW t \in Tasks, NEW u \in Users,
             \/ \E ch \in Channels : JoinAuthorized(t, u, ch)
             \/ UpdateRead(t, u) \/ StartLeave(t, u) \/ StartPresence(t, u) \/ StartGone(t, u)
      PROVE  HistoryOK'
  BY <1>1, <1>3 DEF JoinAuthorized, UpdateRead, StartLeave, StartPresence, StartGone
<1>4. ASSUME NEW u \in Users, NEW dropped, NEW opened, GatewayChanges(dropped, u, opened)
      PROVE  HistoryOK'
  BY <1>1, <1>4 DEF GatewayChanges
<1>5. CASE UNCHANGED vars
  BY <1>1, <1>5 DEF vars
<1> QED BY <1>2, <1>3, <1>4, <1>5 DEF Next

LEMMA NextIInv == IInv /\ [Next]_vars => IInv'
<1> SUFFICES ASSUME IInv, [Next]_vars PROVE IInv'
  OBVIOUS
<1>h. HistoryOK'
  BY NextHistory
<1>1. ASSUME NEW t \in Tasks, Step(t)
      PROVE  IInv'
  BY <1>h, <1>1, JoinCommitIInv, TellLeftIInv, UpdateAuthorizedIInv, UpdateApplyIInv, EvictIInv,
     PresenceIInv DEF Step
<1>2. ASSUME NEW t \in Tasks, NEW u \in Users,
             \/ \E ch \in Channels : JoinAuthorized(t, u, ch)
             \/ UpdateRead(t, u) \/ StartLeave(t, u) \/ StartPresence(t, u) \/ StartGone(t, u)
      PROVE  IInv'
  BY <1>h, <1>2, StartsIInv
<1>3. ASSUME NEW u \in Users, NEW dropped, NEW opened, GatewayChanges(dropped, u, opened)
      PROVE  IInv'
  BY <1>h, <1>3, GatewayIInv
<1>4. CASE UNCHANGED vars
  <2>1. UNCHANGED <<goneCalls, entries, presence, task, ended, leaves, lateStatus, lateVoice>>
    BY <1>4 DEF vars, gatewayVars, presenceVars
  <2>2. TypeOK' /\ \A q \in Tasks : TaskOK(q)'
    BY <2>1 DEF IInv, TypeOK, TaskOK
  <2> QED BY <2>1, <2>2, Quiet DEF HasEntry, Tells
<1> QED BY <1>1, <1>2, <1>3, <1>4 DEF Next

LEMMA AlwaysIInv == Spec => []IInv
BY InitIInv, NextIInv, PTL DEF Spec

-----------------------------------------------------------------------------
(* The theorems.                                                           *)

\* Every variable keeps its type.
THEOREM TypeCorrect == Spec => []TypeOK
<1>1. IInv => TypeOK
  BY DEF IInv
<1> QED BY <1>1, AlwaysIInv, PTL

\* A voice session that was replaced or evicted never comes back (UpdateState's second
\* check).
THEOREM NeverComesBack == Spec => []NoResurrection
<1>1. IInv => NoResurrection
  BY DEF IInv, SessionsOK, HasEntry, NoResurrection
<1> QED BY <1>1, AlwaysIInv, PTL

\* One operation only ends a voice session, and it is told at most once, after it ended
\* (the swap of Join and the delete of Evict).
THEOREM ToldOnce == Spec => []EndsOnce
<1>1. ASSUME IInv, NEW v \in VoiceIds
      PROVE  /\ leaves[v] + Cardinality(Leaving(v)) <= 1
             /\ v \notin ended => leaves[v] = 0 /\ Leaving(v) = {}
  <2>1. leaves[v] \in {0, 1} /\ (v \notin ended => leaves[v] = 0)
    BY <1>1 DEF IInv, SessionsOK
  <2>2. \A t \in Leaving(v) : t \in Tasks /\ Tells(t) /\ SessionOf(t) = v
    BY DEF Leaving, Tells, SessionOf
  <2>3. CASE Leaving(v) = {}
    <3>1. Cardinality(Leaving(v)) = 0
      BY <2>3, FS_EmptySet
    <3> QED BY <2>1, <2>3, <3>1
  <2>4. CASE Leaving(v) # {}
    <3>1. PICK t \in Leaving(v) : TRUE
      BY <2>4
    <3>2. Leaving(v) = {t}
      BY <1>1, <2>2, <3>1 DEF IInv, SessionsOK
    <3>3. Cardinality(Leaving(v)) = 1
      BY <3>2, FS_Singleton
    <3>4. leaves[v] = 0 /\ v \in ended
      BY <1>1, <2>2, <3>1 DEF IInv, SessionsOK
    <3> QED BY <3>3, <3>4
  <2> QED BY <2>3, <2>4
<1>2. IInv => EndsOnce
  BY <1>1 DEF EndsOnce
<1> QED BY <1>2, AlwaysIInv, PTL

-----------------------------------------------------------------------------
(* What a userGone is still to end.                                        *)

\* A User has a Session, or a userGone that will clear the status, or evict.
Watched(u) == held[u] # {} \/ Clearing(u)
Followed(u) == held[u] # {} \/ Evicting(u)

\* Where a userGone that has begun stands.
GoneOK(t) == task[t].op = "gone" => task[t].at \in {"evicting", "leaving", "clearing"}

PInv ==
    /\ IInv
    /\ \A t \in Tasks : GoneOK(t)
    /\ OnlineIsWatched
    /\ VoiceIsWatched

\* A User's Sessions are held until a userGone of the User is started.
LEMMA HeldUntilGone ==
    ASSUME IInv, NEW u \in Users, NEW x \in Users, NEW dropped, NEW opened,
           GatewayChanges(dropped, x, opened)
    PROVE  /\ Watched(u) => Watched(u)'
           /\ Followed(u) => Followed(u)'
<1>1. /\ goneCalls \in [Users -> Nat] /\ UNCHANGED task
      /\ goneCalls'[u] = goneCalls[u] +
                           IF held[u] # {} /\ held[u] \subseteq dropped THEN 1 ELSE 0
      /\ held[u] \ dropped \subseteq held'[u]
  BY DEF IInv, TypeOK, GatewayChanges, Gateway!Change
<1> USE DEF Watched, Followed, Clearing, Evicting
<1>2. CASE held[u] # {}
  <2>1. CASE held[u] \subseteq dropped
    BY <1>1, <1>2, <2>1
  <2>2. CASE ~ held[u] \subseteq dropped
    BY <1>1, <2>2
  <2> QED BY <2>1, <2>2
<1>3. CASE goneCalls[u] > 0
  BY <1>1, <1>3
<1>4. CASE held[u] = {} /\ ~ goneCalls[u] > 0
  BY <1>1, <1>4
<1> QED BY <1>2, <1>3, <1>4

\* A step leaves the other goroutines alone, and a userGone that has begun is over
\* only when it has cleared the status.
LEMMA GoneGoesOn ==
    ASSUME IInv, NEW t \in Tasks, Step(t), GoneOK(t)
    PROVE  /\ UNCHANGED <<held, goneCalls>>
           /\ \A q \in Tasks \ {t} : task'[q] = task[q]
           /\ GoneOK(t)'
           /\ task[t].op = "gone" /\ ~ Clear(t) =>
                task'[t].op = "gone" /\ task'[t].user = task[t].user
           /\ task[t].op = "gone" /\ task[t].at = "evicting" => Evict(t)
<1>1. task \in [Tasks -> TaskType]
  BY TaskTypes
<1>2. task[t] \in TaskType
  BY <1>1
<1>3. ASSUME Finish(t)
      PROVE  task'[t] = Idle /\ \A q \in Tasks \ {t} : task'[q] = task[q]
  BY <1>1, <1>3 DEF Finish
<1>4. ASSUME NEW place, Go(t, place)
      PROVE  /\ task'[t].at = place /\ task'[t].op = task[t].op /\ task'[t].user = task[t].user
             /\ \A q \in Tasks \ {t} : task'[q] = task[q]
  BY <1>1, <1>2, <1>4 DEF Go, TaskType
<1>5. ASSUME NEW e, task' = [task EXCEPT ![t].at = "leaving", ![t].entry = e]
      PROVE  /\ task'[t].at = "leaving" /\ task'[t].op = task[t].op
             /\ task'[t].user = task[t].user /\ \A q \in Tasks \ {t} : task'[q] = task[q]
  BY <1>1, <1>2, <1>5 DEF TaskType
<1>6. Idle.op = "none"
  BY DEF Idle
<1>7. UNCHANGED <<held, goneCalls>>
  BY DEF Step, JoinCommit, TellLeft, UpdateAuthorized, UpdateApply, Evict, Clear, SetPresence,
         gatewayVars
<1>8. CASE \E v \in VoiceIds, flag \in Flags : JoinCommit(t, v, flag)
  BY <1>3, <1>5, <1>6, <1>7, <1>8 DEF JoinCommit, GoneOK
<1>9. CASE TellLeft(t)
  BY <1>3, <1>4, <1>6, <1>7, <1>9 DEF TellLeft, GoneOK
<1>10. CASE UpdateAuthorized(t)
  BY <1>3, <1>4, <1>6, <1>7, <1>10 DEF UpdateAuthorized, GoneOK
<1>11. CASE \E flag \in Flags : UpdateApply(t, flag)
  BY <1>3, <1>6, <1>7, <1>11 DEF UpdateApply, GoneOK
<1>12. CASE Evict(t)
  BY <1>3, <1>4, <1>5, <1>6, <1>7, <1>12 DEF Evict, GoneOK
<1>13. CASE Clear(t)
  BY <1>3, <1>6, <1>7, <1>13 DEF Clear, GoneOK
<1>14. CASE SetPresence(t)
  BY <1>3, <1>6, <1>7, <1>14 DEF SetPresence, GoneOK
<1> QED BY <1>8, <1>9, <1>10, <1>11, <1>12, <1>13, <1>14 DEF Step

LEMMA StepOnline ==
    ASSUME PInv, NEW t \in Tasks, Step(t)
    PROVE  OnlineIsWatched'
<1>1. /\ IInv /\ GoneOK(t) /\ OnlineIsWatched
      /\ presence \in [Users -> {"OFFLINE", "ONLINE"}]
  BY DEF PInv, IInv, TypeOK
<1>2. /\ UNCHANGED <<held, goneCalls>>
      /\ \A q \in Tasks \ {t} : task'[q] = task[q]
      /\ task[t].op = "gone" /\ ~ Clear(t) =>
           task'[t].op = "gone" /\ task'[t].user = task[t].user
  BY <1>1, GoneGoesOn
<1>3. ASSUME NEW u \in Users, Watched(u), ~ (Clear(t) /\ task[t].user = u)
      PROVE  Watched(u)'
  BY <1>2, <1>3 DEF Watched, Clearing
<1>4. ASSUME NEW u \in Users, presence'[u] = "ONLINE"
      PROVE  Watched(u)' \/ u \in lateStatus'
  <2>1. CASE Clear(t)
    BY <1>1, <1>3, <1>4, <2>1 DEF Clear, OnlineIsWatched, Watched
  <2>2. CASE SetPresence(t) /\ task[t].user = u
    <3>1. task[t].at # "clearing"
      BY <2>2 DEF SetPresence
    <3> QED BY <1>3, <2>2, <3>1 DEF SetPresence, Clear, Late, Watched
  <2>3. CASE ~ Clear(t) /\ ~ (SetPresence(t) /\ task[t].user = u)
    <3>1. presence'[u] = presence[u] /\ (u \in lateStatus => u \in lateStatus')
      BY <1>1, <2>3 DEF Step, JoinCommit, TellLeft, UpdateAuthorized, UpdateApply, Evict,
                        SetPresence, presenceVars, Late
    <3> QED BY <1>1, <1>3, <1>4, <2>3, <3>1 DEF OnlineIsWatched, Watched
  <2> QED BY <2>1, <2>2, <2>3
<1> QED BY <1>4 DEF OnlineIsWatched, Watched

LEMMA StepVoice ==
    ASSUME PInv, NEW t \in Tasks, Step(t)
    PROVE  VoiceIsWatched'
<1>1. /\ IInv /\ GoneOK(t) /\ VoiceIsWatched
      /\ entries \in [Users -> Entry \cup {None}]
  BY DEF PInv, IInv, TypeOK
<1>2. /\ UNCHANGED <<held, goneCalls>>
      /\ \A q \in Tasks \ {t} : task'[q] = task[q]
      /\ task[t].op = "gone" /\ task[t].at = "evicting" => Evict(t)
  BY <1>1, GoneGoesOn
<1>3. ASSUME NEW u \in Users, Followed(u), ~ (Evict(t) /\ task[t].user = u)
      PROVE  Followed(u)'
  BY <1>2, <1>3 DEF Followed, Evicting
<1>4. ASSUME NEW u \in Users, entries'[u] # None
      PROVE  Followed(u)' \/ u \in lateVoice'
  <2>1. CASE Evict(t)
    BY <1>1, <1>3, <1>4, <2>1 DEF Evict, VoiceIsWatched, Followed
  <2>2. CASE /\ task[t].user = u
             /\ \E v \in VoiceIds, flag \in Flags : JoinCommit(t, v, flag)
    <3>1. ~ Evict(t)
      BY <2>2 DEF JoinCommit, Evict
    <3> QED BY <1>3, <2>2, <3>1 DEF JoinCommit, Late, Followed
  <2>3. CASE /\ ~ Evict(t)
             /\ \A v \in VoiceIds, flag \in Flags : JoinCommit(t, v, flag) => task[t].user # u
    <3>1. entries[u] # None /\ (u \in lateVoice => u \in lateVoice')
      BY <1>1, <1>4, <2>3 DEF Step, JoinCommit, TellLeft, UpdateAuthorized, UpdateApply, Clear,
                              SetPresence, Late
    <3> QED BY <1>1, <1>3, <2>3, <3>1 DEF VoiceIsWatched, Followed
  <2> QED BY <2>1, <2>2, <2>3
<1> QED BY <1>4 DEF VoiceIsWatched, Followed

\* A goroutine that starts was idle; a userGone takes the place of the call it runs.
LEMMA StartsPInv ==
    ASSUME PInv, NEW t \in Tasks, NEW x \in Users,
           \/ \E ch \in Channels : JoinAuthorized(t, x, ch)
           \/ UpdateRead(t, x) \/ StartLeave(t, x) \/ StartPresence(t, x) \/ StartGone(t, x)
    PROVE  /\ GoneOK(t)' /\ (\A q \in Tasks \ {t} : task'[q] = task[q])
           /\ OnlineIsWatched' /\ VoiceIsWatched'
<1>1. /\ task \in [Tasks -> TaskType] /\ goneCalls \in [Users -> Nat] /\ task[t] = Idle
  BY TaskTypes DEF PInv, IInv, TypeOK, JoinAuthorized, UpdateRead, StartLeave, StartPresence,
                   StartGone
<1>2. /\ UNCHANGED <<held, entries, presence, lateStatus, lateVoice>>
      /\ \A q \in Tasks \ {t} : task'[q] = task[q]
  BY <1>1 DEF JoinAuthorized, UpdateRead, StartLeave, StartPresence, StartGone, Gateway!Run,
              gatewayVars, presenceVars
<1>3. CASE StartGone(t, x)
  <2>1. task'[t] = [Idle EXCEPT !.at = "evicting", !.op = "gone", !.user = x]
    BY <1>1, <1>3 DEF StartGone
  <2>2. task'[t].at = "evicting" /\ task'[t].op = "gone" /\ task'[t].user = x
    BY <2>1 DEF Idle
  <2>3. \A u \in Users \ {x} : goneCalls'[u] = goneCalls[u]
    BY <1>1, <1>3 DEF StartGone, Gateway!Run
  <2>4. ASSUME NEW u \in Users, Watched(u)
        PROVE  Watched(u)' /\ (Followed(u) => Followed(u)')
    <3> USE DEF Watched, Followed, Clearing, Evicting
    <3>1. CASE u = x
      BY <2>2, <3>1
    <3>2. CASE u # x
      BY <1>1, <1>2, <2>3, <2>4, <3>2 DEF Idle
    <3> QED BY <3>1, <3>2
  <2> QED BY <1>2, <2>2, <2>4 DEF PInv, OnlineIsWatched, VoiceIsWatched, GoneOK, Watched, Followed,
     Clearing, Evicting
<1>4. CASE ~ StartGone(t, x)
  <2>1. UNCHANGED goneCalls
    BY <1>4 DEF JoinAuthorized, UpdateRead, StartLeave, StartPresence, gatewayVars
  <2>2. \E op \in {"join", "update", "leave", "presence"} : task'[t].op = op
    BY <1>1, <1>4 DEF JoinAuthorized, UpdateRead, StartLeave, StartPresence, Idle
  <2>3. ASSUME NEW u \in Users, Watched(u)
        PROVE  Watched(u)' /\ (Followed(u) => Followed(u)')
    BY <1>1, <1>2, <2>1, <2>3 DEF Watched, Followed, Clearing, Evicting, Idle
  <2> QED BY <1>2, <2>2, <2>3 DEF PInv, OnlineIsWatched, VoiceIsWatched, GoneOK, Watched, Followed,
     Clearing, Evicting
<1> QED BY <1>3, <1>4

LEMMA NextPInv == PInv /\ [Next]_vars => PInv'
<1> SUFFICES ASSUME PInv, [Next]_vars PROVE PInv'
  OBVIOUS
<1>1. IInv'
  BY NextIInv DEF PInv
<1>2. ASSUME NEW t \in Tasks, Step(t)
      PROVE  PInv'
  <2>1. OnlineIsWatched' /\ VoiceIsWatched'
    BY <1>2, StepOnline, StepVoice
  <2>2. GoneOK(t)' /\ \A q \in Tasks \ {t} : task'[q] = task[q]
    BY <1>2, GoneGoesOn DEF PInv
  <2> QED BY <1>1, <2>1, <2>2 DEF PInv, GoneOK
<1>3. ASSUME NEW t \in Tasks, NEW u \in Users,
             \/ \E ch \in Channels : JoinAuthorized(t, u, ch)
             \/ UpdateRead(t, u) \/ StartLeave(t, u) \/ StartPresence(t, u) \/ StartGone(t, u)
      PROVE  PInv'
  <2>1. /\ GoneOK(t)' /\ (\A q \in Tasks \ {t} : task'[q] = task[q])
        /\ OnlineIsWatched' /\ VoiceIsWatched'
    BY <1>3, StartsPInv
  <2> QED BY <1>1, <2>1 DEF PInv, GoneOK
<1>4. ASSUME NEW x \in Users, NEW dropped, NEW opened, GatewayChanges(dropped, x, opened)
      PROVE  PInv'
  <2>1. UNCHANGED <<entries, presence, lateStatus, lateVoice, task>>
    BY <1>4 DEF GatewayChanges, presenceVars
  <2>2. \A u \in Users : (Watched(u) => Watched(u)') /\ (Followed(u) => Followed(u)')
    BY <1>4, HeldUntilGone DEF PInv
  <2>3. OnlineIsWatched'
    BY <2>1, <2>2 DEF PInv, OnlineIsWatched, Watched
  <2>4. VoiceIsWatched'
    BY <2>1, <2>2 DEF PInv, VoiceIsWatched, Followed
  <2> QED BY <1>1, <2>1, <2>3, <2>4 DEF PInv, GoneOK
<1>5. CASE UNCHANGED vars
  BY <1>1, <1>5 DEF PInv, OnlineIsWatched, VoiceIsWatched, Clearing, Evicting, GoneOK, vars,
                    gatewayVars, presenceVars
<1> QED BY <1>2, <1>3, <1>4, <1>5 DEF Next

LEMMA AlwaysPInv == Spec => []PInv
<1>1. Init => PInv
  BY InitIInv DEF Init, PInv, GoneOK, Idle, OnlineIsWatched, VoiceIsWatched
<1> QED BY <1>1, NextPInv, PTL DEF Spec

\* A User shown ONLINE has a Session, or a userGone that will clear the status, unless the
\* status was recorded when neither was left (pruneExpiredLocked, userGone, SetPresence).
THEOREM OnlineWatched == Spec => []OnlineIsWatched
<1>1. PInv => OnlineIsWatched
  BY DEF PInv
<1> QED BY <1>1, AlwaysPInv, PTL

\* A User in Voice has a Session, or a userGone that has yet to evict them, unless a Join
\* stored the voice session when neither was left (pruneExpiredLocked, userGone, Join).
THEOREM VoiceWatched == Spec => []VoiceIsWatched
<1>1. PInv => VoiceIsWatched
  BY DEF PInv
<1> QED BY <1>1, AlwaysPInv, PTL
=============================================================================
