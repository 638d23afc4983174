--------------------------- MODULE ReadStatesProofs ---------------------------
(***************************************************************************)
(* Proofs about Channels and ReadStates for any Users, Channels, Messages  *)
(* and any number of overlapping requests and updates of read positions.   *)
(***************************************************************************)
EXTENDS ReadStates, WellFoundedInduction, TLAPS

\* A Channel has been inserted and committed, and a Message has been inserted, or
\* neither ever will be: their ids are not issued again.
Born(c) == c \in used /\ \A q \in Requests : task[q].at = "commit direct" => task[q].id # c
Sent(m) ==
    m \in 1..posted /\ \A q \in Requests : task[q].at = "insert message" => task[q].message # m

\* A Channel is of one of these types as long as it is there.
Stays(c, types) == Born(c) /\ (channel[c] # None => channel[c].type \in types)

\* What a request that is going to write has established.
WithParent == {"lock guild", "insert channel"}
Direct == {"insert direct", "commit direct"}
Erasable == Listed \cup {"THREAD"}
Carries(k) ==
    /\ k.at \in WithParent \cup Direct \cup {"update channel", "insert thread"} => k.row \in Row
    /\ k.at \in WithParent =>
         /\ k.row.type \in Listed /\ k.row.starter = None
         /\ k.row.parent # None => k.row.type # "CATEGORY" /\ Stays(k.row.parent, {"CATEGORY"})
    /\ k.at = "update channel" =>
         /\ Stays(k.id, Listed)
         /\ "parent" \in k.fields /\ k.row.parent # None =>
              Stays(k.id, {"TEXT", "VOICE"}) /\ Stays(k.row.parent, {"CATEGORY"})
    /\ k.at = "delete channel" => Stays(k.id, Erasable)
    /\ k.at = "erase channels" => \A c \in k.seen : Stays(c, Erasable)
    /\ k.at = "insert thread" =>
         /\ k.row.type = "THREAD" /\ k.row.parent # None /\ Stays(k.row.parent, {"TEXT"})
         /\ k.row.starter # None =>
              Sent(k.row.starter) /\ message[k.row.starter] \in {None, k.row.parent}
    /\ k.at \in Direct =>
         /\ k.row.type = "DIRECT" /\ k.row.pair \in Pairs
         /\ k.row.parent = None /\ k.row.starter = None
    /\ k.at = "insert message" => Stays(k.id, TextLike)

\* What is not there until a request writes it.
Reserves(k) ==
    /\ k.at = "insert channel" =>
         \A c \in Channels \ moved : Is(c, Listed) => channel[c].position < k.row.position
    /\ k.at = "commit direct" =>
         k.id \in used /\ channel[k.id] = None /\ DirectsOf(k.row.pair) = {}
    /\ k.at = "insert message" => k.message \in 1..posted /\ message[k.message] = None

\* What two requests do not both reserve.
Apart(j, k) ==
    /\ ~ (j.at = "insert channel" /\ k.at = "insert channel")
    /\ j.at = "commit direct" /\ k.at = "commit direct" => j.id # k.id /\ j.row.pair # k.row.pair
    /\ j.at = "insert message" /\ k.at = "insert message" => j.message # k.message

Tasks == {task[r] : r \in Requests}
TasksOK ==
    /\ \A k \in Tasks : Carries(k) /\ Reserves(k)
    /\ \A q, r \in Requests : q # r => Apart(task[q], task[r])

RowsOK ==
    /\ \A c \in Channels : channel[c] # None => Born(c)
    /\ \A m \in Messages : message[m] # None => Sent(m)
    /\ \A c \in Channels : channel[c] # None /\ channel[c].starter # None => channel[c].parent # None
    /\ \A c, d \in Channels :
         Is(c, {"DIRECT"}) /\ Is(d, {"DIRECT"}) /\ channel[c].pair = channel[d].pair => c = d

IInv ==
    /\ ChannelsTypeOK
    /\ ReferencesHold
    /\ PositionsDiffer
    /\ OneDirectChannel
    /\ RowsOK
    /\ TasksOK

\* What an update of a read position has established, and the position it found
\* or will write over, as long as no other update has written it.
ReaderOK(k) ==
    LET now == read[k.user][k.channel]
    IN  k.at # "resting" =>
          /\ k.user \in Users /\ k.channel \in Channels /\ k.message \in Messages
          /\ Sent(k.message)
          /\ k.at = "wait" =>
               /\ k.found \in Messages /\ Sent(k.found)
               /\ k.alone => now \in {None, k.found}
               /\ ~ k.behind /\ message[k.found] # None => k.found < k.message
          /\ k.at = "upsert" /\ k.alone /\ now # None /\ message[now] # None => now < k.message

ReaderType == [at : ReadPlaces, user : Users \cup {None}, channel : Channels \cup {None},
               message : Messages \cup {None}, found : Messages \cup {None},
               behind : BOOLEAN, locked : BOOLEAN, alone : BOOLEAN]
ReadTypeOK ==
    /\ read \in [Users -> [Channels -> Messages \cup {None}]]
    /\ reader \in [Readers -> ReaderType]
    /\ reads \in 0..MaxReads

ReadsSent == \A u \in Users, c \in Channels : read[u][c] # None => Sent(read[u][c])
Updates == {reader[j] : j \in Readers}

ReadIInv == IInv /\ ReadTypeOK /\ ReadsSent /\ \A k \in Updates : ReaderOK(k)
-----------------------------------------------------------------------------
(* Records and positions.                                                  *)

TaskType == [at : Places, id : Channels \cup {None}, row : Row \cup {None},
             fields : SUBSET Fields, seen : SUBSET Channels, message : Messages \cup {None}]

LEMMA Bounds == MaxMessages \in Nat /\ MaxPosition \in Nat /\ MaxRequests \in Nat
BY ChannelsAssumption

LEMMA NoneIsNothing == None \notin Channels /\ None \notin Row /\ None \notin Messages
BY ChannelsAssumption

\* A nonempty set of positions has a greatest one, and Max is it.
LEMMA MaxIsGreatest ==
    ASSUME NEW N \in Nat, NEW S \in SUBSET (0..N), S # {}
    PROVE  Max(S) \in S /\ \A y \in S : y <= Max(S)
<1> DEFINE R == OpToRel(<, Nat)
           Below == {N - x : x \in S}
<1>1. Below \subseteq Nat /\ Below # {}
  <2>1. \A x \in S : N - x \in Nat
    <3>1. \A x \in S : x \in 0..N
      OBVIOUS
    <3> QED BY <3>1
  <2>2. PICK x \in S : TRUE
    OBVIOUS
  <2> QED BY <2>1, <2>2
<1>2. PICK least \in Below : \A y \in Below : ~ (<<y, least>> \in R)
  <2>1. IsWellFoundedOn(R, Nat)
    BY NatLessThanWellFounded
  <2> HIDE DEF R, Below
  <2> QED BY <1>1, <2>1, WFMin
<1>3. PICK x \in S : least = N - x
  OBVIOUS
<1>4. ASSUME NEW y \in S PROVE x >= y
  <2>1. N - y \in Below /\ N - y \in Nat /\ N - x \in Nat
    BY <1>1, <1>3
  <2>2. N - y < N - x => <<N - y, least>> \in R
    BY <1>3, <2>1 DEF OpToRel
  <2>3. ~ (N - y < N - x)
    BY <1>2, <2>1, <2>2
  <2>4. x \in 0..N /\ y \in 0..N
    OBVIOUS
  <2> QED BY <2>3, <2>4
<1>5. \E z \in S : \A y \in S : z >= y
  BY <1>4
<1>6. Max(S) \in S /\ \A y \in S : Max(S) >= y
  BY <1>5 DEF Max
<1>7. \A y \in S : y \in Int
  OBVIOUS
<1> QED BY <1>6, <1>7

\* The position LockGuild takes is above those of all Channels in the list.
LEMMA NextIsAbove ==
    ASSUME ChannelsTypeOK, NextPosition # MaxPosition + 1
    PROVE  /\ NextPosition \in Position
           /\ \A c \in Channels : Is(c, Listed) => channel[c].position < NextPosition
<1>1. MaxPosition \in Nat /\ None \notin Row
  BY ChannelsAssumption
<1>2. \A c \in Channels : Is(c, Listed) => channel[c].position \in 0..MaxPosition
  BY DEF ChannelsTypeOK, Is, Row, Position
<1>3. Taken \in SUBSET (0..MaxPosition)
  BY <1>2 DEF Taken
<1>4. \A c \in Channels : Is(c, Listed) => channel[c].position \in Taken
  BY DEF Taken
<1>5. CASE Taken = {}
  BY <1>1, <1>4, <1>5 DEF NextPosition, Position
<1>6. CASE Taken # {}
  <2>1. Max(Taken) \in Taken /\ \A y \in Taken : y <= Max(Taken)
    BY <1>1, <1>3, <1>6, MaxIsGreatest
  <2>2. Max(Taken) \in 0..MaxPosition /\ NextPosition = Max(Taken) + 1
    BY <1>3, <1>6, <2>1 DEF NextPosition
  <2>3. NextPosition \in Position
    BY <1>1, <2>2 DEF Position
  <2>4. ASSUME NEW c \in Channels, Is(c, Listed) PROVE channel[c].position < NextPosition
    <3>1. channel[c].position <= Max(Taken) /\ channel[c].position \in 0..MaxPosition
      BY <1>2, <1>4, <2>1, <2>4
    <3> QED BY <1>1, <2>2, <3>1
  <2> QED BY <2>3, <2>4
<1> QED BY <1>5, <1>6

\* What the steps of requests do to the tasks.
LEMMA IdleType == Idle \in TaskType
BY DEF Idle, TaskType, Places

LEMMA TaskSet ==
    ASSUME ChannelsTypeOK, NEW r \in Requests, NEW k \in TaskType, task' = [task EXCEPT ![r] = k]
    PROVE  /\ task' \in [Requests -> TaskType]
           /\ task'[r] = k
           /\ \A q \in Requests \ {r} : task'[q] = task[q]
<1>1. task \in [Requests -> TaskType]
  BY DEF ChannelsTypeOK, TaskType
<1> QED BY ONLY <1>1, r \in Requests, k \in TaskType, task' = [task EXCEPT ![r] = k]
-----------------------------------------------------------------------------
(* What a step keeps.                                                      *)

\* What is there, and what has gone, stays so but for a deletion; types stay.
Steady ==
    /\ \A c \in Channels :
         Born(c) => /\ Born(c)'
                    /\ channel'[c] # None => channel[c] # None /\ channel'[c].type = channel[c].type
    /\ \A m \in Messages : Sent(m) => Sent(m)' /\ message'[m] \in {None, message[m]}

LEMMA StaysSteady ==
    ASSUME Steady, NEW c \in Channels, NEW types, Stays(c, types)
    PROVE  Stays(c, types)'
BY DEF Steady, Stays

\* So what a request carries keeps what it has established.
LEMMA CarriesSteady ==
    ASSUME ChannelsTypeOK, Steady, NEW k \in TaskType, Carries(k)
    PROVE  Carries(k)'
<1>1. /\ Born(k.id) => k.id \in Channels
      /\ k.row \in Row => k.row.parent \in Channels \cup {None}
                          /\ k.row.starter \in Messages \cup {None}
      /\ k.seen \subseteq Channels
  BY DEF ChannelsTypeOK, TaskType, Row, Born
<1>2. \A c \in Channels : /\ Stays(c, Listed) => Stays(c, Listed)'
                          /\ Stays(c, Erasable) => Stays(c, Erasable)'
                          /\ Stays(c, TextLike) => Stays(c, TextLike)'
                          /\ Stays(c, {"CATEGORY"}) => Stays(c, {"CATEGORY"})'
                          /\ Stays(c, {"TEXT"}) => Stays(c, {"TEXT"})'
                          /\ Stays(c, {"TEXT", "VOICE"}) => Stays(c, {"TEXT", "VOICE"})'
  BY DEF Steady, Stays, Listed, Erasable, TextLike
<1>3. \A m \in Messages : Sent(m) => Sent(m)' /\ message'[m] \in {None, message[m]}
  BY DEF Steady
<1>4. \A c : /\ Stays(c, Listed) => Born(c)
             /\ Stays(c, Erasable) => Born(c)
             /\ Stays(c, TextLike) => Born(c)
  BY DEF Stays
<1> QED BY <1>1, <1>2, <1>3, <1>4 DEF Carries

\* A step of request r that leaves it with k.
Step(r, k) ==
    /\ task' = [task EXCEPT ![r] = k]
    /\ started' \in 0..MaxRequests
    /\ used \subseteq used' /\ used' \subseteq Channels
    /\ posted' \in 0..MaxMessages /\ posted <= posted'
    /\ k.at = "commit direct" => k.id \notin used
    /\ k.at = "insert message" => k.message \notin 1..posted

\* What is known of ids stays known.
LEMMA StepKnows ==
    ASSUME ChannelsTypeOK, NEW r \in Requests, NEW k \in TaskType, Step(r, k)
    PROVE  /\ \A c : Born(c) => Born(c)'
           /\ \A m : Sent(m) => Sent(m)'
           /\ 1..posted \subseteq 1..posted'
<1>1. task'[r] = k /\ \A q \in Requests \ {r} : task'[q] = task[q]
  BY TaskSet DEF Step
<1>2. posted \in Nat /\ posted' \in Nat
  <2>1. posted \in 0..MaxMessages
    BY DEF ChannelsTypeOK
  <2>2. posted' \in 0..MaxMessages
    BY DEF Step
  <2> QED BY <2>1, <2>2, ChannelsAssumption
<1>3. ASSUME NEW c, Born(c) PROVE Born(c)'
  BY <1>1, <1>3 DEF Born, Step
<1>4. ASSUME NEW m, Sent(m) PROVE Sent(m)'
  <2>1. m \in 1..posted
    BY <1>4 DEF Sent
  <2>2. posted <= posted'
    BY DEF Step
  <2>3. m \in 1..posted'
    BY ONLY <1>2, <2>1, <2>2
  <2>4. k.at = "insert message" => k.message # m
    BY <2>1 DEF Step
  <2> QED BY <1>1, <1>4, <2>3, <2>4 DEF Sent
<1>5. 1..posted \subseteq 1..posted'
  <2>1. posted <= posted'
    BY DEF Step
  <2> QED BY ONLY <1>2, <2>1
<1> QED BY <1>3, <1>4, <1>5

\* A step keeps what all requests carry.
LEMMA StepCarries ==
    ASSUME ChannelsTypeOK, TasksOK, NEW r \in Requests, NEW k \in TaskType, Step(r, k),
           Steady, Carries(k)
    PROVE  \A j \in Tasks' : Carries(j)'
<1>1. task'[r] = k /\ \A q \in Requests \ {r} : task'[q] = task[q]
  BY TaskSet DEF Step
<1> SUFFICES ASSUME NEW j \in Tasks' PROVE Carries(j)'
  OBVIOUS
<1>2. j = k \/ j \in Tasks
  BY <1>1 DEF Tasks
<1>3. Tasks \subseteq TaskType
  BY DEF ChannelsTypeOK, TaskType, Tasks
<1>4. j \in TaskType /\ Carries(j)
  BY <1>2, <1>3 DEF TasksOK
<1> QED BY <1>4, CarriesSteady

\* What a step must show for the invariant to go on.
LEMMA StepIInv ==
    ASSUME IInv, NEW r \in Requests, NEW k \in TaskType, Step(r, k), Steady,
           channel' \in [Channels -> Row \cup {None}],
           message' \in [Messages -> Channels \cup {None}],
           moved' \subseteq Channels,
           opened' \in [Pairs -> SUBSET Channels],
           ReferencesHold', PositionsDiffer', OneDirectChannel', RowsOK',
           Carries(k),
           \A j \in Tasks' : Reserves(j)',
           \A q \in Requests \ {r} : Apart(k, task[q])
    PROVE  IInv' /\ Steady
<1>1. ChannelsTypeOK'
  <2>1. task' \in [Requests -> TaskType]
    BY TaskSet DEF Step, IInv
  <2> QED BY <2>1 DEF ChannelsTypeOK, TaskType, Step
<1>2. \A j \in Tasks' : Carries(j)'
  BY StepCarries DEF IInv
<1>3. \A p, q \in Requests : p # q => Apart(task'[p], task'[q])
  <2>1. task'[r] = k /\ \A q \in Requests \ {r} : task'[q] = task[q]
    BY TaskSet DEF Step, IInv
  <2>2. \A q \in Requests \ {r} : Apart(task[q], k)
    BY DEF Apart
  <2>3. \A p, q \in Requests : p # q => Apart(task[p], task[q])
    BY DEF IInv, TasksOK
  <2> QED BY <2>1, <2>2, <2>3
<1>4. TasksOK'
  BY <1>2, <1>3 DEF TasksOK
<1> QED BY <1>1, <1>4 DEF IInv

\* A step that leaves the rows alone.
LEMMA QuietIInv ==
    ASSUME IInv, NEW r \in Requests, NEW k \in TaskType, Step(r, k),
           UNCHANGED <<channel, message, moved>>,
           opened' \in [Pairs -> SUBSET Channels], OneDirectChannel',
           Carries(k), Reserves(k)',
           \A q \in Requests \ {r} : Apart(k, task[q])
    PROVE  IInv' /\ Steady
<1>1. /\ \A c : Born(c) => Born(c)'
      /\ \A m : Sent(m) => Sent(m)'
  BY StepKnows DEF IInv
<1>2. channel' = channel /\ message' = message /\ moved' = moved
  OBVIOUS
<1>3. Steady
  BY <1>1, <1>2 DEF Steady
<1>4. \A c, types : Is(c, types)' <=> Is(c, types)
  BY <1>2 DEF Is
<1>5. ReferencesHold' /\ PositionsDiffer' /\ RowsOK'
  BY <1>1, <1>2, <1>4 DEF IInv, ReferencesHold, PositionsDiffer, RowsOK
<1>6. ASSUME NEW j \in Tasks' PROVE Reserves(j)'
  <2>1. j = k \/ j \in Tasks
    BY TaskSet DEF Step, IInv, Tasks
  <2>2. CASE j = k
    BY <2>2
  <2>3. CASE j \in Tasks
    <3>1. Reserves(j)
      BY <2>3 DEF IInv, TasksOK
    <3>2. used \subseteq used' /\ 1..posted \subseteq 1..posted'
      BY StepKnows DEF Step, IInv
    <3>3. \A pair : DirectsOf(pair)' = DirectsOf(pair)
      BY <1>4 DEF DirectsOf
    <3> QED BY <1>2, <1>4, <3>1, <3>2, <3>3 DEF Reserves
  <2> QED BY <2>1, <2>2, <2>3
<1>7. /\ channel' \in [Channels -> Row \cup {None}]
      /\ message' \in [Messages -> Channels \cup {None}]
      /\ moved' \subseteq Channels
  BY <1>2 DEF IInv, ChannelsTypeOK
<1> QED BY <1>3, <1>5, <1>6, <1>7, StepIInv
-----------------------------------------------------------------------------
(* Requests that read.                                                     *)

\* A Channel that is there stays of its type.
LEMMA IsStays ==
    ASSUME IInv, NEW c, NEW types, Is(c, types)
    PROVE  c \in Channels /\ Stays(c, types)
BY DEF IInv, RowsOK, Is, Stays

\* The step of a request that writes nothing and reserves nothing.
LEMMA PlainIInv ==
    ASSUME IInv, NEW r \in Requests, NEW k \in TaskType, task' = [task EXCEPT ![r] = k],
           k.at \notin {"insert channel", "commit direct", "insert message"}, Carries(k),
           UNCHANGED <<rows, used, posted, moved, opened>>, started' \in 0..MaxRequests
    PROVE  IInv' /\ Steady
<1>1. /\ channel' = channel /\ message' = message /\ moved' = moved /\ opened' = opened
      /\ used' = used /\ posted' = posted
  BY DEF rows
<1>2. Step(r, k)
  <2>1. posted \in 0..MaxMessages /\ used \subseteq Channels
    BY DEF IInv, ChannelsTypeOK
  <2>2. posted <= posted
    BY ONLY <2>1, Bounds
  <2> QED BY <1>1, <2>1, <2>2 DEF Step
<1>3. Reserves(k)'
  BY DEF Reserves
<1>4. \A q \in Requests \ {r} : Apart(k, task[q])
  BY DEF Apart
<1>5. OneDirectChannel'
  <2>1. OneDirectChannel
    BY DEF IInv
  <2> QED BY ONLY <1>1, <2>1 DEF OneDirectChannel, Is
<1>6. opened' \in [Pairs -> SUBSET Channels]
  BY <1>1 DEF IInv, ChannelsTypeOK
<1> QED BY <1>1, <1>2, <1>3, <1>4, <1>5, <1>6, QuietIInv

\* The bound on requests.
LEMMA BeginStarted ==
    ASSUME IInv, NEW r, NEW k, Begin(r, k)
    PROVE  started' \in 0..MaxRequests
<1>1. started \in 0..MaxRequests /\ started < MaxRequests /\ started' = started + 1
  BY DEF IInv, ChannelsTypeOK, Begin
<1> QED BY ONLY <1>1, Bounds

LEMMA BeginIInv ==
    ASSUME IInv, NEW r \in Requests, NEW k \in TaskType, Begin(r, k),
           k.at \notin {"insert channel", "commit direct", "insert message"}, Carries(k),
           UNCHANGED <<rows, used, posted, moved, opened>>
    PROVE  IInv' /\ Steady
BY BeginStarted, PlainIInv DEF Begin

LEMMA CreateChannelIInv ==
    ASSUME IInv, NEW r \in Requests, NEW type \in Listed, NEW parent \in Channels \cup {None},
           CreateChannel(r, type, parent)
    PROVE  IInv' /\ Steady
<1> DEFINE row == [type |-> type, parent |-> parent, position |-> 0, starter |-> None,
                   pair |-> {}]
           k == [Idle EXCEPT !.at = "lock guild", !.row = row]
<1>1. row \in Row
  BY ChannelsAssumption DEF Row, Position
<1>2. k \in TaskType /\ k.at = "lock guild" /\ k.row = row
  BY <1>1 DEF Idle, TaskType, Places
<1>3. parent # None => type # "CATEGORY" /\ Stays(parent, {"CATEGORY"})
  BY IsStays DEF CreateChannel, ParentAllowed
<1>4. Carries(k)
  BY <1>1, <1>2, <1>3 DEF Carries, WithParent, Direct
<1>5. Begin(r, k) /\ UNCHANGED <<rows, used, posted, moved, opened>>
  BY DEF CreateChannel
<1> QED BY <1>2, <1>4, <1>5, BeginIInv

LEMMA UpdateChannelIInv ==
    ASSUME IInv, NEW r \in Requests, NEW c \in Channels, NEW fields \in SUBSET Fields,
           NEW position \in Position, NEW parent \in Channels \cup {None},
           UpdateChannel(r, c, fields, position, parent)
    PROVE  IInv' /\ Steady
<1> DEFINE row == [channel[c] EXCEPT !.position = IF "position" \in fields THEN position ELSE @,
                                     !.parent = IF "parent" \in fields THEN parent ELSE @]
           k == [Idle EXCEPT !.at = "update channel", !.id = c, !.fields = fields, !.row = row]
<1>1. channel[c] \in Row /\ Is(c, Listed)
  BY DEF IInv, ChannelsTypeOK, UpdateChannel, Is
<1>2. row \in Row /\ ("parent" \in fields => row.parent = parent)
  BY <1>1 DEF Row
<1>3. k \in TaskType /\ k.at = "update channel" /\ k.row = row /\ k.id = c /\ k.fields = fields
  <2> HIDE DEF row
  <2> QED BY <1>2 DEF Idle, TaskType, Places
<1>4. Stays(c, Listed)
  BY <1>1, IsStays
<1>5. "parent" \in fields /\ parent # None =>
        Stays(c, {"TEXT", "VOICE"}) /\ Stays(parent, {"CATEGORY"})
  <2> SUFFICES ASSUME "parent" \in fields, parent # None
               PROVE  Stays(c, {"TEXT", "VOICE"}) /\ Stays(parent, {"CATEGORY"})
    OBVIOUS
  <2>1. channel[c].type # "CATEGORY" /\ Is(parent, {"CATEGORY"})
    BY DEF UpdateChannel, ParentAllowed
  <2>2. Is(c, {"TEXT", "VOICE"})
    BY <1>1, <2>1 DEF Is, Listed
  <2> QED BY <2>1, <2>2, IsStays
<1>6. Carries(k)
  <2> HIDE DEF row, k
  <2> QED BY <1>2, <1>3, <1>4, <1>5 DEF Carries, WithParent, Direct
<1>7. Begin(r, k) /\ UNCHANGED <<rows, used, posted, moved, opened>>
  BY DEF UpdateChannel
<1> QED BY <1>3, <1>6, <1>7, BeginIInv

LEMMA DeleteChannelIInv ==
    ASSUME IInv, NEW r \in Requests, NEW c \in Channels, DeleteChannel(r, c)
    PROVE  IInv' /\ Steady
<1> DEFINE k == [Idle EXCEPT !.at = "delete channel", !.id = c]
<1>1. k \in TaskType /\ k.at = "delete channel" /\ k.id = c
  BY DEF Idle, TaskType, Places
<1>2. Stays(c, Erasable)
  BY IsStays DEF DeleteChannel, Erasable
<1>3. Carries(k)
  BY <1>1, <1>2 DEF Carries, WithParent, Direct
<1>4. Begin(r, k) /\ UNCHANGED <<rows, used, posted, moved, opened>>
  BY DEF DeleteChannel
<1> QED BY <1>1, <1>3, <1>4, BeginIInv

LEMMA SeeChannelsIInv ==
    ASSUME IInv, NEW r \in Requests, SeeChannels(r)
    PROVE  IInv' /\ Steady
<1> DEFINE c == task[r].id
           seen == {x \in {c} \cup ThreadsOf(c) : channel[x] # None}
           k == [task[r] EXCEPT !.at = "erase channels", !.seen = seen]
<1>1. task[r] \in TaskType /\ task[r].at = "delete channel"
  BY DEF IInv, ChannelsTypeOK, TaskType, SeeChannels
<1>2. Stays(c, Erasable)
  BY <1>1 DEF IInv, TasksOK, Tasks, Carries
<1>3. c \in Channels
  BY <1>2 DEF Stays, Born, IInv, ChannelsTypeOK
<1>4. seen \subseteq Channels /\ \A x \in seen : Stays(x, Erasable)
  <2>1. ThreadsOf(c) \subseteq Channels
    BY DEF ThreadsOf
  <2>2. ASSUME NEW x \in ThreadsOf(c) PROVE Stays(x, Erasable)
    <3>1. Is(x, {"THREAD"})
      BY <2>2 DEF ThreadsOf
    <3>2. Is(x, Erasable)
      BY <3>1 DEF Is, Erasable
    <3> QED BY <3>2, IsStays
  <2> QED BY <1>2, <1>3, <2>1, <2>2
<1>5. k \in TaskType /\ k.at = "erase channels" /\ k.seen = seen
  <2> HIDE DEF seen
  <2> QED BY <1>1, <1>4 DEF TaskType, Places
<1>6. Carries(k)
  <2> HIDE DEF k, seen
  <2> QED BY <1>4, <1>5 DEF Carries, WithParent, Direct
<1>7. /\ task' = [task EXCEPT ![r] = k]
      /\ UNCHANGED <<rows, used, posted, moved, opened, started>>
  BY DEF SeeChannels, Go
<1>8. started' \in 0..MaxRequests
  BY <1>7 DEF IInv, ChannelsTypeOK
<1> QED BY <1>5, <1>6, <1>7, <1>8, PlainIInv

LEMMA CreateThreadIInv ==
    ASSUME IInv, NEW r \in Requests, NEW parent \in Channels, NEW starter \in Messages \cup {None},
           CreateThread(r, parent, starter)
    PROVE  IInv' /\ Steady
<1> DEFINE row == [type |-> "THREAD", parent |-> parent, position |-> 0, starter |-> starter,
                   pair |-> {}]
           k == [Idle EXCEPT !.at = "insert thread", !.row = row]
<1>1. row \in Row /\ row.type = "THREAD" /\ row.parent = parent /\ row.starter = starter
  BY Bounds DEF Row, Position, TextLike
<1>2. k \in TaskType /\ k.at = "insert thread" /\ k.row = row
  BY <1>1 DEF Idle, TaskType, Places
<1>3. parent # None /\ Stays(parent, {"TEXT"})
  BY IsStays, ChannelsAssumption DEF CreateThread
<1>4. starter # None => Sent(starter) /\ message[starter] = parent
  BY <1>3 DEF CreateThread, IInv, RowsOK
<1>5. Carries(k)
  <2> HIDE DEF row, k
  <2> QED BY <1>1, <1>2, <1>3, <1>4 DEF Carries, WithParent, Direct
<1>6. Begin(r, k) /\ UNCHANGED <<rows, used, posted, moved, opened>>
  BY DEF CreateThread
<1> QED BY <1>2, <1>5, <1>6, BeginIInv

LEMMA OpenDirectChannelIInv ==
    ASSUME IInv, NEW r \in Requests, NEW pair \in Pairs, OpenDirectChannel(r, pair)
    PROVE  IInv' /\ Steady
<1> DEFINE row == [type |-> "DIRECT", parent |-> None, position |-> 0, starter |-> None,
                   pair |-> pair]
           k == [Idle EXCEPT !.at = "insert direct", !.row = row]
<1>1. /\ row \in Row /\ row.type = "DIRECT" /\ row.parent = None /\ row.starter = None
      /\ row.pair = pair
  BY Bounds DEF Row, Position, TextLike
<1>2. k \in TaskType /\ k.at = "insert direct" /\ k.row = row
  BY <1>1 DEF Idle, TaskType, Places
<1>3. Carries(k)
  <2> HIDE DEF row, k
  <2> QED BY <1>1, <1>2 DEF Carries, WithParent, Direct
<1>4. Begin(r, k) /\ UNCHANGED <<rows, used, posted, moved, opened>>
  BY DEF OpenDirectChannel
<1> QED BY <1>2, <1>3, <1>4, BeginIInv

\* A request that has ended carries nothing.
LEMMA IdleCarries == Carries(Idle)
BY DEF Carries, WithParent, Direct, Idle

LEMMA FailIInv ==
    ASSUME IInv, NEW r \in Requests, Fail(r)
    PROVE  IInv' /\ Steady
<1>1. Idle.at = "idle"
  BY DEF Idle
<1>2. /\ task' = [task EXCEPT ![r] = Idle]
      /\ UNCHANGED <<rows, used, posted, moved, opened, started>>
  BY DEF Fail
<1>3. started' \in 0..MaxRequests
  BY <1>2 DEF IInv, ChannelsTypeOK
<1> QED BY <1>1, <1>2, <1>3, IdleType, IdleCarries, PlainIInv

\* The Channel a pair's opening finds is the only one there is.
LEMMA FindDirectIInv ==
    ASSUME IInv, NEW r \in Requests, NEW c \in Channels, FindDirect(r, c)
    PROVE  IInv' /\ Steady
<1> DEFINE pair == task[r].row.pair
<1>1. /\ opened' = [opened EXCEPT ![pair] = @ \cup {c}]
      /\ channel' = channel /\ message' = message /\ moved' = moved
      /\ used' = used /\ posted' = posted /\ started' = started
      /\ task' = [task EXCEPT ![r] = Idle]
  BY DEF FindDirect, Answer, Done, rows
<1>2. pair \in Pairs /\ Is(c, {"DIRECT"}) /\ channel[c].pair = pair
  <2>1. task[r] \in Tasks /\ task[r].at = "insert direct" /\ c \in DirectsOf(pair)
    BY DEF FindDirect, Tasks
  <2>2. pair \in Pairs
    BY <2>1 DEF IInv, TasksOK, Carries, Direct
  <2> QED BY <2>1, <2>2 DEF DirectsOf
<1> HIDE DEF pair
<1>3. opened \in [Pairs -> SUBSET Channels] /\ opened' \in [Pairs -> SUBSET Channels]
  <2>1. opened \in [Pairs -> SUBSET Channels]
    BY DEF IInv, ChannelsTypeOK
  <2> QED BY ONLY <1>1, <2>1, c \in Channels
<1>4. OneDirectChannel'
  <2>1. OneDirectChannel /\ \A d \in Channels : Is(d, {"DIRECT"}) /\ channel[d].pair = pair => c = d
    BY <1>2 DEF IInv, RowsOK
  <2>2. \A d : Is(d, {"DIRECT"})' <=> Is(d, {"DIRECT"})
    BY <1>1 DEF Is
  <2>3. \A p \in Pairs : opened'[p] = IF p = pair THEN opened[p] \cup {c} ELSE opened[p]
    BY <1>1, <1>3
  <2>4. \A p \in Pairs : \A d \in opened[p] : d \in Channels
    BY <1>3
  <2> QED BY ONLY <1>1, <1>2, <2>1, <2>2, <2>3, <2>4 DEF OneDirectChannel
<1>5. Step(r, Idle)
  <2>1. posted \in 0..MaxMessages /\ used \subseteq Channels /\ started \in 0..MaxRequests
    BY DEF IInv, ChannelsTypeOK
  <2>2. posted <= posted
    BY ONLY <2>1, Bounds
  <2> QED BY <1>1, <2>1, <2>2 DEF Step, Idle
<1>6. Reserves(Idle)' /\ \A q \in Requests \ {r} : Apart(Idle, task[q])
  BY DEF Reserves, Apart, Idle
<1> QED BY <1>1, <1>3, <1>4, <1>5, <1>6, IdleType, IdleCarries, QuietIInv
-----------------------------------------------------------------------------
(* Requests that reserve a position, an id or a pair.                      *)

\* While a transaction has locked the Guild's row no other takes a position.
LEMMA LockGuildIInv ==
    ASSUME IInv, NEW r \in Requests, LockGuild(r)
    PROVE  IInv' /\ Steady
<1> DEFINE new == [task[r] EXCEPT !.at = "insert channel", !.row.position = NextPosition]
<1>1. /\ task[r] \in TaskType /\ task[r].at = "lock guild"
      /\ task[r] \in Tasks
  BY DEF IInv, ChannelsTypeOK, TaskType, LockGuild, Tasks
<1>2. Carries(task[r]) /\ task[r].row \in Row
  BY <1>1 DEF IInv, TasksOK, Carries, WithParent
<1>3. /\ NextPosition \in Position
      /\ \A c \in Channels : Is(c, Listed) => channel[c].position < NextPosition
  BY NextIsAbove DEF IInv, LockGuild
<1>4. PICK k \in TaskType :
        /\ k = new /\ k.at = "insert channel" /\ k.row \in Row
        /\ k.row.position = NextPosition
        /\ k.row.type = task[r].row.type /\ k.row.starter = task[r].row.starter
        /\ k.row.parent = task[r].row.parent
  <2>1. [task[r].row EXCEPT !.position = NextPosition] \in Row
    BY <1>2, <1>3 DEF Row
  <2>2. /\ new \in TaskType /\ new.at = "insert channel"
        /\ new.row = [task[r].row EXCEPT !.position = NextPosition]
    BY <1>1, <1>2, <2>1 DEF TaskType, Places
  <2> HIDE DEF new
  <2> QED BY <1>2, <1>3, <2>1, <2>2 DEF Row
<1>5. task' = [task EXCEPT ![r] = k] /\ UNCHANGED <<rows, started, moved, opened, used, posted>>
  BY <1>4 DEF LockGuild, Go
<1> HIDE DEF new
<1>6. Carries(k)
  BY <1>1, <1>2, <1>4 DEF Carries, WithParent, Direct
<1>7. /\ channel' = channel /\ message' = message /\ moved' = moved /\ opened' = opened
      /\ used' = used /\ posted' = posted /\ started' = started
  BY <1>5 DEF rows
<1>8. Step(r, k)
  <2>1. posted \in 0..MaxMessages /\ used \subseteq Channels /\ started \in 0..MaxRequests
    BY DEF IInv, ChannelsTypeOK
  <2>2. posted <= posted
    BY ONLY <2>1, Bounds
  <2> QED BY <1>4, <1>5, <1>7, <2>1, <2>2 DEF Step
<1>9. Reserves(k)'
  <2>1. \A c, types : Is(c, types)' <=> Is(c, types)
    BY <1>7 DEF Is
  <2>2. \A c \in Channels : Is(c, Listed)' => channel'[c].position < k.row.position
    BY <1>3, <1>4, <1>7, <2>1
  <2> QED BY <1>4, <2>2 DEF Reserves
<1>10. \A q \in Requests \ {r} : Apart(k, task[q])
  BY <1>4 DEF LockGuild, GuildLocked, Apart
<1>11. OneDirectChannel' /\ opened' \in [Pairs -> SUBSET Channels]
  <2>1. OneDirectChannel /\ opened \in [Pairs -> SUBSET Channels]
    BY DEF IInv, ChannelsTypeOK
  <2>2. OneDirectChannel'
    BY ONLY <1>7, <2>1 DEF OneDirectChannel, Is
  <2> QED BY <1>7, <2>1, <2>2
<1> QED BY <1>4, <1>6, <1>7, <1>8, <1>9, <1>10, <1>11, QuietIInv

\* A new id, for a pair nobody else is opening a Channel for.
LEMMA InsertDirectIInv ==
    ASSUME IInv, NEW r \in Requests, NEW c \in Channels, InsertDirect(r, c)
    PROVE  IInv' /\ Steady
<1> DEFINE new == [task[r] EXCEPT !.at = "commit direct", !.id = c]
<1>1. task[r] \in TaskType /\ task[r].at = "insert direct" /\ task[r] \in Tasks
  BY DEF IInv, ChannelsTypeOK, TaskType, InsertDirect, Tasks
<1>2. PICK k \in TaskType : k = new /\ k.at = "commit direct" /\ k.id = c /\ k.row = task[r].row
  <2>1. new \in TaskType /\ new.at = "commit direct" /\ new.id = c /\ new.row = task[r].row
    BY <1>1 DEF TaskType, Places
  <2> HIDE DEF new
  <2> QED BY <2>1
<1>3. /\ task' = [task EXCEPT ![r] = k] /\ used' = used \cup {c}
      /\ channel' = channel /\ message' = message /\ moved' = moved /\ opened' = opened
      /\ posted' = posted /\ started' = started
  BY <1>2 DEF InsertDirect, Go, rows
<1> HIDE DEF new
<1>4. Carries(k)
  <2>1. Carries(task[r])
    BY <1>1 DEF IInv, TasksOK
  <2> QED BY <1>1, <1>2, <2>1 DEF Carries, WithParent, Direct
<1>5. c \notin used /\ DirectsOf(k.row.pair) = {}
      /\ \A q \in Requests : task[q].at = "commit direct" => task[q].row.pair # k.row.pair
  BY <1>2 DEF InsertDirect
<1>6. Step(r, k)
  <2>1. posted \in 0..MaxMessages /\ used \subseteq Channels /\ started \in 0..MaxRequests
    BY DEF IInv, ChannelsTypeOK
  <2>2. posted <= posted
    BY ONLY <2>1, Bounds
  <2> QED BY <1>2, <1>3, <1>5, <2>1, <2>2 DEF Step
<1>7. Reserves(k)'
  <2>1. channel[c] = None
    BY <1>5 DEF IInv, RowsOK, Born
  <2>2. DirectsOf(k.row.pair)' = DirectsOf(k.row.pair)
    BY <1>3 DEF DirectsOf, Is
  <2> QED BY <1>2, <1>3, <1>5, <2>1, <2>2 DEF Reserves
<1>8. ASSUME NEW q \in Requests \ {r} PROVE Apart(k, task[q])
  <2>1. task[q].at = "commit direct" => task[q].id \in used
    BY DEF IInv, TasksOK, Tasks, Reserves
  <2> QED BY <1>2, <1>5, <2>1 DEF Apart
<1>9. OneDirectChannel' /\ opened' \in [Pairs -> SUBSET Channels]
  <2>1. OneDirectChannel /\ opened \in [Pairs -> SUBSET Channels]
    BY DEF IInv, ChannelsTypeOK
  <2>2. OneDirectChannel'
    BY ONLY <1>3, <2>1 DEF OneDirectChannel, Is
  <2> QED BY <1>3, <2>1, <2>2
<1> QED BY <1>3, <1>4, <1>6, <1>7, <1>8, <1>9, QuietIInv

\* The next id of a Message.
LEMMA CreateMessageIInv ==
    ASSUME IInv, NEW r \in Requests, NEW c \in Channels, CreateMessage(r, c)
    PROVE  IInv' /\ Steady
<1> DEFINE new == [Idle EXCEPT !.at = "insert message", !.id = c, !.message = posted + 1]
<1>1. posted \in Nat /\ posted + 1 \in 1..MaxMessages
  <2>1. posted \in 0..MaxMessages /\ posted < MaxMessages
    BY DEF IInv, ChannelsTypeOK, CreateMessage
  <2> QED BY ONLY <2>1, Bounds
<1>2. PICK k \in TaskType :
        k = new /\ k.at = "insert message" /\ k.id = c /\ k.message = posted + 1
  <2>1. new \in TaskType /\ new.at = "insert message" /\ new.id = c /\ new.message = posted + 1
    BY <1>1 DEF Idle, TaskType, Places, Messages
  <2> HIDE DEF new
  <2> QED BY <2>1
<1>3. /\ task' = [task EXCEPT ![r] = k] /\ posted' = posted + 1
      /\ channel' = channel /\ message' = message /\ moved' = moved /\ opened' = opened
      /\ used' = used
  BY <1>2 DEF CreateMessage, Begin, rows
<1>4. started' \in 0..MaxRequests
  BY BeginStarted DEF CreateMessage
<1> HIDE DEF new
<1>5. Carries(k)
  <2>1. Stays(c, TextLike)
    BY IsStays DEF CreateMessage
  <2> QED BY <1>2, <2>1 DEF Carries, WithParent, Direct
<1>6. posted + 1 \notin 1..posted /\ posted <= posted + 1 /\ posted + 1 \in 1..(posted + 1)
      /\ posted + 1 \in 0..MaxMessages
  BY ONLY <1>1, Bounds
<1>7. Step(r, k)
  <2>1. used \subseteq Channels
    BY DEF IInv, ChannelsTypeOK
  <2> QED BY <1>2, <1>3, <1>4, <1>6, <2>1 DEF Step
<1>8. Reserves(k)'
  <2>1. message[posted + 1] = None
    BY <1>1, <1>6 DEF IInv, RowsOK, Sent, Messages
  <2> QED BY <1>2, <1>3, <1>6, <2>1 DEF Reserves
<1>9. ASSUME NEW q \in Requests \ {r} PROVE Apart(k, task[q])
  <2>1. task[q].at = "insert message" => task[q].message \in 1..posted
    BY DEF IInv, TasksOK, Tasks, Reserves
  <2> QED BY <1>2, <1>6, <2>1 DEF Apart
<1>10. OneDirectChannel' /\ opened' \in [Pairs -> SUBSET Channels]
  <2>1. OneDirectChannel /\ opened \in [Pairs -> SUBSET Channels]
    BY DEF IInv, ChannelsTypeOK
  <2>2. OneDirectChannel'
    BY ONLY <1>3, <2>1 DEF OneDirectChannel, Is
  <2> QED BY <1>3, <2>1, <2>2
<1> QED BY <1>3, <1>5, <1>7, <1>8, <1>9, <1>10, QuietIInv
-----------------------------------------------------------------------------
(* Requests that write.                                                    *)

\* A request has written and ends.
LEMMA EndStep ==
    ASSUME IInv, NEW r \in Requests, task' = [task EXCEPT ![r] = Idle],
           used \subseteq used', used' \subseteq Channels, posted' = posted,
           started' \in 0..MaxRequests
    PROVE  /\ Step(r, Idle)
           /\ \A c : Born(c) => Born(c)'
           /\ \A m : Sent(m) => Sent(m)'
           /\ task'[r] = Idle /\ \A q \in Requests \ {r} : task'[q] = task[q]
           /\ Tasks' \subseteq {task[q] : q \in Requests \ {r}} \cup {Idle}
           /\ Carries(Idle) /\ Reserves(Idle)'
           /\ \A q \in Requests \ {r} : Apart(Idle, task[q])
<1>1. Step(r, Idle)
  <2>1. posted \in 0..MaxMessages
    BY DEF IInv, ChannelsTypeOK
  <2>2. posted <= posted
    BY ONLY <2>1, Bounds
  <2> QED BY <2>1, <2>2 DEF Step, Idle
<1>2. /\ \A c : Born(c) => Born(c)'
      /\ \A m : Sent(m) => Sent(m)'
  BY <1>1, IdleType, StepKnows DEF IInv
<1>3. task'[r] = Idle /\ \A q \in Requests \ {r} : task'[q] = task[q]
  BY IdleType, TaskSet DEF IInv
<1>4. Tasks' \subseteq {task[q] : q \in Requests \ {r}} \cup {Idle}
  BY <1>3 DEF Tasks
<1>5. Reserves(Idle)' /\ \A q \in Requests \ {r} : Apart(Idle, task[q])
  BY DEF Reserves, Apart, Idle
<1> QED BY <1>1, <1>2, <1>3, <1>4, <1>5, IdleCarries

\* What a row refers to is there and of the right type.
Referring(row) ==
    /\ row.parent # None =>
         IF row.type = "THREAD" THEN Is(row.parent, {"TEXT"})
         ELSE row.type \in {"TEXT", "VOICE"} /\ Is(row.parent, {"CATEGORY"})
    /\ row.starter # None =>
         /\ row.type = "THREAD" /\ row.parent # None
         /\ message[row.starter] = row.parent
         /\ NoThreadFrom(row.starter)

\* Its id is new, its position is above all others, and its pair has no Channel, not
\* even one that another request is about to commit.
NewId(r, c) ==
    ~ Born(c) /\ \A q \in Requests \ {r} : task[q].at = "commit direct" => task[q].id # c
OnTop(r, row) ==
    row.type \in Listed =>
      /\ \A d \in Channels \ moved : Is(d, Listed) => channel[d].position < row.position
      /\ \A q \in Requests \ {r} : task[q].at # "insert channel"
OnlyOne(r, row) ==
    row.type = "DIRECT" =>
      /\ \A d \in Channels : Is(d, {"DIRECT"}) => channel[d].pair # row.pair
      /\ \A q \in Requests \ {r} : task[q].at = "commit direct" => task[q].row.pair # row.pair

\* A Channel is added: its id is new, its position above the others, its pair has none.
LEMMA AddIInv ==
    ASSUME IInv, NEW r \in Requests, NEW c \in Channels, NEW row \in Row,
           task' = [task EXCEPT ![r] = Idle], channel' = [channel EXCEPT ![c] = row],
           message' = message, moved' = moved, posted' = posted, started' = started,
           used' = used \cup {c}, opened' \in [Pairs -> SUBSET Channels],
           NewId(r, c), Referring(row), OnTop(r, row), OnlyOne(r, row),
           \A p \in Pairs : \A d \in opened'[p] :
             d \in opened[p] \/ (d = c /\ row.type = "DIRECT" /\ row.pair = p)
    PROVE  IInv' /\ Steady
<1>1. /\ channel \in [Channels -> Row \cup {None}]
      /\ message \in [Messages -> Channels \cup {None}]
      /\ moved \subseteq Channels /\ used \subseteq Channels
      /\ None \notin Row /\ None \notin Channels /\ None \notin Messages
  BY NoneIsNothing DEF IInv, ChannelsTypeOK
<1>2. /\ Step(r, Idle)
      /\ \A d : Born(d) => Born(d)'
      /\ \A m : Sent(m) => Sent(m)'
      /\ task'[r] = Idle /\ \A q \in Requests \ {r} : task'[q] = task[q]
      /\ Tasks' \subseteq {task[q] : q \in Requests \ {r}} \cup {Idle}
      /\ Carries(Idle) /\ Reserves(Idle)'
      /\ \A q \in Requests \ {r} : Apart(Idle, task[q])
  <2>1. used \subseteq used' /\ used' \subseteq Channels /\ started' \in 0..MaxRequests
    BY <1>1 DEF IInv, ChannelsTypeOK
  <2> QED BY <2>1, EndStep
<1>3. /\ channel[c] = None /\ channel'[c] = row /\ row # None
      /\ \A d \in Channels : d # c => channel'[d] = channel[d]
  BY <1>1 DEF IInv, RowsOK, NewId
<1>4. Born(c)'
  <2>1. Idle.at # "commit direct"
    BY DEF Idle
  <2>2. \A q \in Requests : task'[q].at = "commit direct" => task'[q].id # c
    BY <1>2, <2>1 DEF NewId
  <2>3. c \in used'
    OBVIOUS
  <2> QED BY <2>2, <2>3 DEF Born
<1>5. Steady
  BY <1>2, <1>3 DEF Steady, NewId
<1>6. /\ \A d, types : d # c => (Is(d, types)' <=> Is(d, types))
      /\ \A types : Is(c, types)' <=> row.type \in types
      /\ \A d, types : Is(d, types) => d # c /\ d \in Channels /\ channel[d] # None
  BY <1>3 DEF Is
<1>7. ReferencesHold'
  <2>1. ASSUME NEW d \in Channels, NEW p \in Channels, channel'[d] # None, channel'[d].parent = p
        PROVE  IF channel'[d].type = "THREAD" THEN Is(p, {"TEXT"})'
               ELSE channel'[d].type \in {"TEXT", "VOICE"} /\ Is(p, {"CATEGORY"})'
    <3>1. IF channel'[d].type = "THREAD" THEN Is(p, {"TEXT"})
          ELSE channel'[d].type \in {"TEXT", "VOICE"} /\ Is(p, {"CATEGORY"})
      <4>1. CASE d = c
        BY <1>1, <1>3, <2>1, <4>1 DEF Referring
      <4>2. CASE d # c
        BY <1>1, <1>3, <2>1, <4>2 DEF IInv, ReferencesHold
      <4> QED BY <4>1, <4>2
    <3> QED BY <1>6, <3>1
  <2>2. ASSUME NEW d \in Channels, NEW e \in Channels, channel'[d] # None, channel'[e] # None,
               channel'[d].starter # None
        PROVE  /\ channel'[d].type = "THREAD"
               /\ message'[channel'[d].starter] = channel'[d].parent
               /\ channel'[e].starter = channel'[d].starter => d = e
    <3>1. CASE d = c
      BY <1>3, <2>2, <3>1 DEF Referring, NoThreadFrom
    <3>2. CASE d # c /\ e = c
      BY <1>3, <2>2, <3>2 DEF Referring, NoThreadFrom, IInv, ReferencesHold
    <3>3. CASE d # c /\ e # c
      BY <1>3, <2>2, <3>3 DEF IInv, ReferencesHold
    <3> QED BY <3>1, <3>2, <3>3
  <2>3. ASSUME NEW m \in Messages, NEW d \in Channels, message'[m] = d
        PROVE  Is(d, TextLike)'
    <3>1. Is(d, TextLike)
      BY <1>1, <2>3 DEF IInv, ReferencesHold
    <3> QED BY <1>6, <3>1
  <2>4. \A d \in Channels : channel'[d] # None => channel'[d].parent \in Channels \cup {None}
    <3>1. channel' \in [Channels -> Row \cup {None}]
      BY <1>1
    <3> QED BY <3>1 DEF Row
  <2>5. \A m \in Messages : message'[m] \in Channels \cup {None}
    BY <1>1
  <2> QED BY <2>1, <2>2, <2>3, <2>4, <2>5 DEF ReferencesHold, Is
<1>8. PositionsDiffer'
  <2>1. PositionsDiffer
    BY DEF IInv
  <2>2. row.type \in Listed => row.position \in Int
    BY Bounds DEF Row, Position
  <2>3. \A d \in Channels : Is(d, Listed) => channel[d].position \in Int
    BY <1>1, Bounds DEF Is, Row, Position
  <2>4. \A d \in Channels \ moved :
          row.type \in Listed /\ Is(d, Listed) => channel[d].position # row.position
    <3> TAKE d \in Channels \ moved
    <3>1. row.type \in Listed /\ Is(d, Listed) => channel[d].position < row.position
      BY DEF OnTop
    <3> QED BY <2>2, <2>3, <3>1
  <2> QED BY <1>3, <1>6, <2>1, <2>4 DEF PositionsDiffer
<1>9. RowsOK'
  <2>1. \A d \in Channels : channel'[d] # None => Born(d)'
    BY <1>2, <1>3, <1>4 DEF IInv, RowsOK
  <2>2. \A m \in Messages : message'[m] # None => Sent(m)'
    BY <1>2 DEF IInv, RowsOK
  <2>3. \A d \in Channels :
          channel'[d] # None /\ channel'[d].starter # None => channel'[d].parent # None
    BY <1>3 DEF IInv, RowsOK, Referring
  <2>4. \A d, e \in Channels :
          Is(d, {"DIRECT"})' /\ Is(e, {"DIRECT"})' /\ channel'[d].pair = channel'[e].pair => d = e
    <3> TAKE d, e \in Channels
    <3>1. /\ Is(d, {"DIRECT"}) /\ Is(e, {"DIRECT"}) /\ channel[d].pair = channel[e].pair => d = e
          /\ row.type = "DIRECT" /\ Is(d, {"DIRECT"}) => channel[d].pair # row.pair
          /\ row.type = "DIRECT" /\ Is(e, {"DIRECT"}) => channel[e].pair # row.pair
      BY DEF IInv, RowsOK, OnlyOne
    <3>2. CASE d # c /\ e # c
      BY <1>3, <1>6, <3>1, <3>2
    <3>3. CASE d = c \/ e = c
      BY <1>3, <1>6, <3>1, <3>3
    <3> QED BY <3>2, <3>3
  <2> QED BY <2>1, <2>2, <2>3, <2>4 DEF RowsOK
<1>10. OneDirectChannel'
  <2>1. \A d, e \in Channels :
          Is(d, {"DIRECT"})' /\ Is(e, {"DIRECT"})' /\ channel'[d].pair = channel'[e].pair => d = e
    BY <1>9 DEF RowsOK
  <2>2. \A p \in Pairs : \A d \in opened'[p] : Is(d, {"DIRECT"})' /\ channel'[d].pair = p
    BY <1>3, <1>6 DEF IInv, OneDirectChannel
  <2>3. \A p \in Pairs : \A d \in opened'[p] : d \in Channels
    OBVIOUS
  <2> QED BY <2>1, <2>2, <2>3 DEF OneDirectChannel
<1>11. ASSUME NEW j \in Tasks' PROVE Reserves(j)'
  <2>1. CASE j = Idle
    BY <1>2, <2>1
  <2>2. CASE j # Idle
    <3>1. PICK q \in Requests \ {r} : j = task[q]
      BY <1>2, <2>2
    <3>2. Reserves(j)
      BY <3>1 DEF IInv, TasksOK, Tasks
    <3>3. j.at = "insert channel" =>
            \A d \in Channels \ moved : Is(d, Listed)' => channel'[d].position < j.row.position
      <4> SUFFICES ASSUME j.at = "insert channel", NEW d \in Channels \ moved, Is(d, Listed)'
                   PROVE  channel'[d].position < j.row.position
        OBVIOUS
      <4>1. row.type \notin Listed
        BY <3>1 DEF OnTop
      <4>2. d # c /\ Is(d, Listed) /\ channel'[d] = channel[d]
        BY ONLY d \in Channels \ moved, Is(d, Listed)', <1>3, <1>6, <4>1
      <4> QED BY <3>2, <4>2 DEF Reserves
    <3>4. j.at = "commit direct" => j.id # c /\ DirectsOf(j.row.pair)' = {}
      <4> SUFFICES ASSUME j.at = "commit direct" PROVE j.id # c /\ DirectsOf(j.row.pair)' = {}
        OBVIOUS
      <4>1. j.id # c /\ DirectsOf(j.row.pair) = {} /\ (row.type = "DIRECT" => row.pair # j.row.pair)
        BY <3>1, <3>2 DEF Reserves, NewId, OnlyOne
      <4>2. \A d \in Channels : ~ (Is(d, {"DIRECT"}) /\ channel[d].pair = j.row.pair)
        BY <4>1 DEF DirectsOf
      <4>3. \A d \in Channels : ~ (Is(d, {"DIRECT"})' /\ channel'[d].pair = j.row.pair)
        <5> TAKE d \in Channels
        <5>1. CASE d = c
          BY <1>3, <1>6, <4>1, <5>1
        <5>2. CASE d # c
          BY <1>3, <1>6, <4>2, <5>2
        <5> QED BY <5>1, <5>2
      <4> QED BY <4>1, <4>3 DEF DirectsOf
    <3>5. j.at = "commit direct" => j.id \in Channels
      BY <1>1, <3>2 DEF Reserves
    <3> QED BY <1>3, <3>2, <3>3, <3>4, <3>5 DEF Reserves
  <2> QED BY <2>1, <2>2
<1>12. /\ channel' \in [Channels -> Row \cup {None}]
       /\ message' \in [Messages -> Channels \cup {None}]
       /\ moved' \subseteq Channels
  BY <1>1
<1> QED BY <1>2, <1>5, <1>7, <1>8, <1>9, <1>10, <1>11, <1>12, IdleType, StepIInv

\* An id that was not issued is new.
LEMMA UnusedIsNew ==
    ASSUME IInv, NEW r \in Requests, NEW c \in Channels, c \notin used
    PROVE  NewId(r, c)
<1>1. ~ Born(c)
  BY DEF Born
<1>2. ASSUME NEW q \in Requests PROVE task[q].at = "commit direct" => task[q].id \in used
  BY DEF IInv, TasksOK, Tasks, Reserves
<1> QED BY <1>1, <1>2 DEF NewId

\* The pairs' answers do not change.
LEMMA SameAnswers ==
    ASSUME IInv, opened' = opened
    PROVE  /\ opened' \in [Pairs -> SUBSET Channels]
           /\ \A p \in Pairs : \A d \in opened'[p] : d \in opened[p]
BY DEF IInv, ChannelsTypeOK

LEMMA InsertChannelIInv ==
    ASSUME IInv, NEW r \in Requests, NEW c \in Channels, InsertChannel(r, c)
    PROVE  IInv' /\ Steady
<1>1. task[r] \in Tasks /\ task[r].at = "insert channel"
  BY DEF InsertChannel, Tasks
<1>2. Carries(task[r]) /\ Reserves(task[r])
  BY <1>1 DEF IInv, TasksOK
<1>3. PICK row \in Row : row = task[r].row
  BY <1>1, <1>2 DEF Carries, WithParent
<1>4. /\ task' = [task EXCEPT ![r] = Idle] /\ channel' = [channel EXCEPT ![c] = row]
      /\ message' = message /\ moved' = moved /\ posted' = posted /\ started' = started
      /\ used' = used \cup {c} /\ opened' = opened
  BY <1>3 DEF InsertChannel, Done
<1>5. NewId(r, c)
  BY UnusedIsNew DEF InsertChannel
<1>6. /\ row.type \in Listed /\ row.starter = None
      /\ row.parent # None => row.type # "CATEGORY" /\ Stays(row.parent, {"CATEGORY"})
  BY <1>1, <1>2, <1>3 DEF Carries, WithParent
<1>7. Referring(row)
  <2>1. row.parent # None => Is(row.parent, {"CATEGORY"})
    <3>1. row.parent \in Channels \cup {None}
      BY DEF Row
    <3>2. row.parent # None => channel[row.parent] # None
      BY <1>3 DEF InsertChannel, ReferencesExist
    <3> QED BY <1>6, <3>1, <3>2 DEF Stays, Is
  <2> QED BY <1>6, <2>1 DEF Referring, Listed
<1>8. OnTop(r, row)
  <2>1. \A d \in Channels \ moved : Is(d, Listed) => channel[d].position < row.position
    BY <1>1, <1>2, <1>3 DEF Reserves
  <2>2. \A q \in Requests \ {r} : task[q].at # "insert channel"
    BY <1>1 DEF IInv, TasksOK, Apart
  <2> QED BY <2>1, <2>2 DEF OnTop
<1>9. OnlyOne(r, row)
  BY <1>6 DEF OnlyOne, Listed
<1> QED BY <1>4, <1>5, <1>7, <1>8, <1>9, SameAnswers, AddIInv

LEMMA InsertThreadIInv ==
    ASSUME IInv, NEW r \in Requests, NEW c \in Channels, InsertThread(r, c)
    PROVE  IInv' /\ Steady
<1>1. task[r] \in Tasks /\ task[r].at = "insert thread"
  BY DEF InsertThread, Tasks
<1>2. Carries(task[r])
  BY <1>1 DEF IInv, TasksOK
<1>3. PICK row \in Row : row = task[r].row
  BY <1>1, <1>2 DEF Carries
<1>4. /\ task' = [task EXCEPT ![r] = Idle] /\ channel' = [channel EXCEPT ![c] = row]
      /\ message' = message /\ moved' = moved /\ posted' = posted /\ started' = started
      /\ used' = used \cup {c} /\ opened' = opened
  BY <1>3 DEF InsertThread, Done
<1>5. NewId(r, c)
  BY UnusedIsNew DEF InsertThread
<1>6. /\ row.type = "THREAD" /\ row.parent # None /\ Stays(row.parent, {"TEXT"})
      /\ row.starter # None => message[row.starter] \in {None, row.parent}
  BY <1>1, <1>2, <1>3 DEF Carries
<1>7. Referring(row)
  <2>1. /\ channel[row.parent] # None
        /\ row.starter # None => message[row.starter] # None
        /\ NoThreadFrom(row.starter)
    BY <1>3, <1>6 DEF InsertThread, ReferencesExist
  <2>2. row.parent \in Channels \cup {None}
    BY DEF Row
  <2>3. Is(row.parent, {"TEXT"})
    BY <1>6, <2>1, <2>2 DEF Stays, Is
  <2> QED BY <1>6, <2>1, <2>3 DEF Referring
<1>8. OnTop(r, row) /\ OnlyOne(r, row)
  BY <1>6 DEF OnTop, OnlyOne, Listed
<1> QED BY <1>4, <1>5, <1>7, <1>8, SameAnswers, AddIInv

LEMMA CommitDirectIInv ==
    ASSUME IInv, NEW r \in Requests, CommitDirect(r)
    PROVE  IInv' /\ Steady
<1>1. task[r] \in Tasks /\ task[r].at = "commit direct"
  BY DEF CommitDirect, Tasks
<1>2. Carries(task[r]) /\ Reserves(task[r])
  BY <1>1 DEF IInv, TasksOK
<1>3. PICK row \in Row : row = task[r].row
  BY <1>1, <1>2 DEF Carries, Direct
<1>4. PICK c \in Channels : c = task[r].id
  BY <1>1, <1>2 DEF Reserves, IInv, ChannelsTypeOK
<1>5. c \in used /\ DirectsOf(row.pair) = {}
  BY <1>1, <1>2, <1>3, <1>4 DEF Reserves
<1>6. row.type = "DIRECT" /\ row.pair \in Pairs /\ row.parent = None /\ row.starter = None
  BY <1>1, <1>2, <1>3 DEF Carries, Direct
<1>7. /\ task' = [task EXCEPT ![r] = Idle] /\ channel' = [channel EXCEPT ![c] = row]
      /\ message' = message /\ moved' = moved /\ posted' = posted /\ started' = started
      /\ used' = used \cup {c} /\ opened' = [opened EXCEPT ![row.pair] = @ \cup {c}]
  BY <1>3, <1>4, <1>5 DEF CommitDirect, Done, Answer
<1>8. \A q \in Requests \ {r} :
        task[q].at = "commit direct" => task[q].id # c /\ task[q].row.pair # row.pair
  BY <1>1, <1>3, <1>4 DEF IInv, TasksOK, Apart
<1>9. NewId(r, c)
  BY <1>1, <1>4, <1>8 DEF NewId, Born
<1>10. OnlyOne(r, row)
  BY <1>5, <1>8 DEF OnlyOne, DirectsOf
<1>11. Referring(row) /\ OnTop(r, row)
  BY <1>6 DEF Referring, OnTop, Listed
<1>12. /\ opened' \in [Pairs -> SUBSET Channels]
       /\ \A p \in Pairs : \A d \in opened'[p] :
            d \in opened[p] \/ (d = c /\ row.type = "DIRECT" /\ row.pair = p)
  <2>1. opened \in [Pairs -> SUBSET Channels]
    BY DEF IInv, ChannelsTypeOK
  <2>2. opened' \in [Pairs -> SUBSET Channels]
    BY ONLY <1>6, <1>7, <2>1, c \in Channels
  <2>3. \A p \in Pairs : opened'[p] = IF p = row.pair THEN opened[p] \cup {c} ELSE opened[p]
    BY ONLY <1>7, <2>1
  <2> QED BY <1>6, <2>2, <2>3
<1> QED BY <1>7, <1>9, <1>10, <1>11, <1>12, AddIInv

\* A Message is posted in its Channel.
LEMMA InsertMessageIInv ==
    ASSUME IInv, NEW r \in Requests, InsertMessage(r)
    PROVE  IInv' /\ Steady
<1>1. task[r] \in Tasks /\ task[r].at = "insert message"
  BY DEF InsertMessage, Tasks
<1>2. Carries(task[r]) /\ Reserves(task[r])
  BY <1>1 DEF IInv, TasksOK
<1>3. /\ channel \in [Channels -> Row \cup {None}]
      /\ message \in [Messages -> Channels \cup {None}]
      /\ moved \subseteq Channels /\ used \subseteq Channels /\ posted \in 0..MaxMessages
      /\ started \in 0..MaxRequests
      /\ None \notin Row /\ None \notin Channels /\ None \notin Messages
  BY NoneIsNothing DEF IInv, ChannelsTypeOK
<1>4. PICK c \in Channels : c = task[r].id /\ channel[c] # None /\ channel[c].type \in TextLike
  <2>1. Stays(task[r].id, TextLike) /\ channel[task[r].id] # None
    BY <1>1, <1>2 DEF Carries, InsertMessage
  <2> QED BY <1>3, <2>1 DEF Stays, Born
<1>5. PICK m \in Messages : m = task[r].message /\ m \in 1..posted /\ message[m] = None
  <2>1. task[r].message \in 1..posted /\ message[task[r].message] = None
    BY <1>1, <1>2 DEF Reserves
  <2>2. 1..posted \subseteq Messages
    BY <1>3, Bounds DEF Messages
  <2> QED BY <2>1, <2>2
<1>6. /\ task' = [task EXCEPT ![r] = Idle] /\ message' = [message EXCEPT ![m] = c]
      /\ channel' = channel /\ moved' = moved /\ posted' = posted /\ started' = started
      /\ used' = used /\ opened' = opened
  BY <1>4, <1>5 DEF InsertMessage, Done
<1>7. /\ Step(r, Idle)
      /\ \A d : Born(d) => Born(d)'
      /\ \A n : Sent(n) => Sent(n)'
      /\ task'[r] = Idle /\ \A q \in Requests \ {r} : task'[q] = task[q]
      /\ Tasks' \subseteq {task[q] : q \in Requests \ {r}} \cup {Idle}
      /\ Carries(Idle) /\ Reserves(Idle)'
      /\ \A q \in Requests \ {r} : Apart(Idle, task[q])
  BY <1>3, <1>6, EndStep
<1>8. \A q \in Requests \ {r} : task[q].at = "insert message" => task[q].message # m
  BY <1>1, <1>5 DEF IInv, TasksOK, Apart
<1>9. Sent(m)'
  <2>1. Idle.at # "insert message"
    BY DEF Idle
  <2>2. \A q \in Requests : task'[q].at = "insert message" => task'[q].message # m
    BY <1>7, <1>8, <2>1
  <2> QED BY <1>5, <1>6, <2>2 DEF Sent
<1>10. ~ Sent(m)
  BY <1>1, <1>5 DEF Sent
<1>11. message'[m] = c /\ \A n \in Messages : n # m => message'[n] = message[n]
  BY <1>3, <1>6
<1>12. Steady
  BY <1>6, <1>7, <1>10, <1>11 DEF Steady
<1>13. \A d, types : Is(d, types)' <=> Is(d, types)
  BY <1>6 DEF Is
<1>14. ReferencesHold'
  <2>1. ReferencesHold /\ (\A d \in Channels :
          channel[d] # None /\ channel[d].starter # None => channel[d].parent # None)
    BY DEF IInv, RowsOK
  <2>2. \A d \in Channels : channel[d] # None => channel[d].starter \in Messages \cup {None}
    BY <1>3 DEF Row
  <2>3. \A d \in Channels : channel[d] # None /\ channel[d].starter # None =>
          message'[channel[d].starter] = message[channel[d].starter]
    BY <1>5, <1>11, <2>1, <2>2 DEF ReferencesHold
  <2>4. Is(c, TextLike)
    BY <1>4 DEF Is
  <2>5. \A n \in Messages : message'[n] # None => Is(message'[n], TextLike)
    BY <1>11, <2>1, <2>4 DEF ReferencesHold
  <2> QED BY ONLY <1>6, <2>1, <2>3, <2>5 DEF ReferencesHold, Is
<1>15. RowsOK'
  BY <1>6, <1>7, <1>9, <1>11, <1>13 DEF IInv, RowsOK
<1>16. PositionsDiffer'
  BY <1>6, <1>13 DEF IInv, PositionsDiffer
<1>17. OneDirectChannel' /\ opened' \in [Pairs -> SUBSET Channels]
  <2>1. OneDirectChannel /\ opened \in [Pairs -> SUBSET Channels]
    BY DEF IInv, ChannelsTypeOK
  <2>2. OneDirectChannel'
    BY ONLY <1>6, <2>1 DEF OneDirectChannel, Is
  <2> QED BY <1>6, <2>1, <2>2
<1>18. ASSUME NEW j \in Tasks' PROVE Reserves(j)'
  <2>1. CASE j = Idle
    BY <1>7, <2>1
  <2>2. CASE j # Idle
    <3>1. PICK q \in Requests \ {r} : j = task[q]
      BY <1>7, <2>2
    <3>2. Reserves(j)
      BY <3>1 DEF IInv, TasksOK, Tasks
    <3>3. \A pair : DirectsOf(pair)' = DirectsOf(pair)
      BY <1>6, <1>13 DEF DirectsOf
    <3>4. j.at = "insert message" => message'[j.message] = None
      <4>1. 1..posted \subseteq Messages
        BY <1>3, Bounds DEF Messages
      <4> QED BY <1>8, <1>11, <3>1, <3>2, <4>1 DEF Reserves
    <3> QED BY <1>6, <1>13, <3>2, <3>3, <3>4 DEF Reserves
  <2> QED BY <2>1, <2>2
<1>19. /\ channel' \in [Channels -> Row \cup {None}]
       /\ message' \in [Messages -> Channels \cup {None}]
       /\ moved' \subseteq Channels
  BY <1>3, <1>6
<1> QED BY <1>7, <1>12, <1>14, <1>15, <1>16, <1>17, <1>18, <1>19, IdleType, StepIInv

\* What a deletion leaves of a row.
LEMMA WithoutRow ==
    ASSUME NEW row \in Row, NEW gone, NEW lost
    PROVE  LET left == Without(row, gone, lost)
           IN  /\ left \in Row /\ left # None
               /\ left.type = row.type /\ left.position = row.position /\ left.pair = row.pair
               /\ left.parent = IF row.parent \in gone THEN None ELSE row.parent
               /\ left.starter = IF row.starter \in lost THEN None ELSE row.starter
<1>1. row # None
  BY NoneIsNothing
<1> QED BY <1>1, NoneIsNothing DEF Without, Row

\* Channels other than direct ones are deleted with their Messages.
LEMMA EraseIInv ==
    ASSUME IInv, NEW r \in Requests, NEW gone \in SUBSET Channels, NEW lost \in SUBSET Messages,
           task' = [task EXCEPT ![r] = Idle], Erased(gone, lost),
           moved' = moved, posted' = posted, used' = used, opened' = opened,
           started' \in 0..MaxRequests,
           \A x \in gone : Is(x, Erasable),
           \A m \in Messages : message[m] \in gone => m \in lost
    PROVE  IInv' /\ Steady
<1>1. /\ channel \in [Channels -> Row \cup {None}]
      /\ message \in [Messages -> Channels \cup {None}]
      /\ moved \subseteq Channels /\ used \subseteq Channels
      /\ None \notin Row /\ None \notin Channels /\ None \notin Messages
  BY NoneIsNothing DEF IInv, ChannelsTypeOK
<1>2. /\ Step(r, Idle)
      /\ \A d : Born(d) => Born(d)'
      /\ \A n : Sent(n) => Sent(n)'
      /\ Tasks' \subseteq {task[q] : q \in Requests \ {r}} \cup {Idle}
      /\ Carries(Idle) /\ Reserves(Idle)'
      /\ \A q \in Requests \ {r} : Apart(Idle, task[q])
  BY <1>1, EndStep
<1>3. /\ channel' = [x \in Channels |-> IF x \in gone THEN None ELSE Without(channel[x], gone, lost)]
      /\ message' = [m \in Messages |-> IF m \in lost THEN None ELSE message[m]]
  BY DEF Erased
<1>4. \A m \in Messages : message'[m] = IF m \in lost THEN None ELSE message[m]
  BY <1>3
<1>5. \A c \in Channels : channel'[c] \in Row \cup {None} /\
        (channel'[c] # None =>
          /\ c \notin gone /\ channel[c] \in Row
          /\ channel'[c].type = channel[c].type /\ channel'[c].position = channel[c].position
          /\ channel'[c].pair = channel[c].pair
          /\ channel'[c].parent = IF channel[c].parent \in gone THEN None ELSE channel[c].parent
          /\ channel'[c].starter = IF channel[c].starter \in lost THEN None ELSE channel[c].starter)
  <2> TAKE c \in Channels
  <2>1. CASE c \in gone
    BY <1>3, <2>1
  <2>2. CASE c \notin gone /\ channel[c] = None
    BY <1>3, <2>2 DEF Without
  <2>3. CASE c \notin gone /\ channel[c] # None
    <3>1. channel[c] \in Row
      BY <1>1, <2>3
    <3>2. channel'[c] = Without(channel[c], gone, lost)
      BY <1>3, <2>3
    <3> QED BY <2>3, <3>1, <3>2, WithoutRow
  <2> QED BY <2>1, <2>2, <2>3
<1>6. \A c \in Channels : channel[c] # None /\ c \notin gone => channel'[c] # None
  <2> TAKE c \in Channels
  <2> HAVE channel[c] # None /\ c \notin gone
  <2>1. channel[c] \in Row /\ channel'[c] = Without(channel[c], gone, lost)
    BY <1>1, <1>3
  <2> QED BY <2>1, WithoutRow
<1>7. /\ \A c, types : Is(c, types)' => Is(c, types) /\ c \notin gone
      /\ \A c, types : Is(c, types) /\ c \notin gone => Is(c, types)'
  BY <1>1, <1>5, <1>6 DEF Is
<1>8. \A c : Is(c, {"DIRECT"}) => c \notin gone
  BY DEF Is, Erasable, Listed
<1>9. Steady
  BY <1>1, <1>2, <1>4, <1>5 DEF Steady
<1>10. ReferencesHold'
  <2>1. ReferencesHold /\ (\A d \in Channels :
          channel[d] # None /\ channel[d].starter # None => channel[d].parent # None)
    BY DEF IInv, RowsOK
  <2>2. ASSUME NEW d \in Channels, NEW p \in Channels, channel'[d] # None, channel'[d].parent = p
        PROVE  IF channel'[d].type = "THREAD" THEN Is(p, {"TEXT"})'
               ELSE channel'[d].type \in {"TEXT", "VOICE"} /\ Is(p, {"CATEGORY"})'
    <3>1. /\ channel[d] # None /\ channel[d].parent = p /\ p \notin gone /\ p # None
          /\ channel'[d].type = channel[d].type
      BY <1>1, <1>5, <2>2
    <3>2. IF channel[d].type = "THREAD" THEN Is(p, {"TEXT"})
          ELSE channel[d].type \in {"TEXT", "VOICE"} /\ Is(p, {"CATEGORY"})
      BY <2>1, <3>1 DEF ReferencesHold
    <3> QED BY <1>7, <3>1, <3>2
  <2>3. ASSUME NEW d \in Channels, channel'[d] # None, channel'[d].starter # None
        PROVE  /\ channel'[d].type = "THREAD"
               /\ message'[channel'[d].starter] = channel'[d].parent
               /\ channel'[d].starter = channel[d].starter /\ channel[d].starter # None
    <3>1. /\ channel[d] \in Row /\ channel[d] # None /\ channel[d].starter # None
          /\ channel'[d].starter = channel[d].starter /\ channel[d].starter \notin lost
          /\ channel'[d].type = channel[d].type
      BY <1>1, <1>5, <2>3
    <3>2. channel[d].starter \in Messages
      BY <3>1 DEF Row
    <3>3. channel[d].type = "THREAD" /\ message[channel[d].starter] = channel[d].parent
      BY <2>1, <3>1 DEF ReferencesHold
    <3>4. message'[channel[d].starter] = channel[d].parent /\ channel[d].parent \notin gone
      BY <1>4, <3>1, <3>2, <3>3
    <3> QED BY <1>5, <2>3, <3>1, <3>3, <3>4
  <2>4. ASSUME NEW d \in Channels, NEW e \in Channels, channel'[d] # None, channel'[e] # None,
               channel'[d].starter # None, channel'[e].starter = channel'[d].starter
        PROVE  d = e
    <3>1. /\ channel[d] # None /\ channel[e] # None
          /\ channel[d].starter # None /\ channel[e].starter = channel[d].starter
      BY <1>1, <1>5, <2>3, <2>4
    <3> QED BY <2>1, <3>1 DEF ReferencesHold
  <2>5. ASSUME NEW m \in Messages, NEW d \in Channels, message'[m] = d
        PROVE  Is(d, TextLike)'
    <3>1. message[m] = d /\ m \notin lost /\ d # None
      BY <1>1, <1>4, <2>5
    <3>2. Is(d, TextLike) /\ d \notin gone
      BY <2>1, <3>1 DEF ReferencesHold
    <3> QED BY <1>7, <3>2
  <2>6. \A m \in Messages : message'[m] \in Channels \cup {None}
    BY <1>1, <1>4
  <2>7. \A d \in Channels : channel'[d] # None => channel'[d].parent \in Channels \cup {None}
    BY <1>5 DEF Row
  <2> QED BY <2>2, <2>3, <2>4, <2>5, <2>6, <2>7 DEF ReferencesHold, Is
<1>11. RowsOK'
  <2>1. \A d \in Channels : channel'[d] # None => Born(d)'
    BY <1>1, <1>2, <1>5 DEF IInv, RowsOK
  <2>2. \A m \in Messages : message'[m] # None => Sent(m)'
    BY <1>2, <1>4 DEF IInv, RowsOK
  <2>3. \A d \in Channels :
          channel'[d] # None /\ channel'[d].starter # None => channel'[d].parent # None
    <3> TAKE d \in Channels
    <3> HAVE channel'[d] # None /\ channel'[d].starter # None
    <3>1. /\ channel[d] # None /\ channel[d] \in Row /\ channel[d].starter # None
          /\ channel[d].starter \notin lost
          /\ channel'[d].parent = IF channel[d].parent \in gone THEN None ELSE channel[d].parent
      BY <1>1, <1>5
    <3>2. channel[d].parent # None /\ message[channel[d].starter] = channel[d].parent
      BY <3>1 DEF IInv, RowsOK, ReferencesHold
    <3>3. channel[d].starter \in Messages
      BY <3>1 DEF Row
    <3>4. channel[d].parent \notin gone
      BY <3>1, <3>2, <3>3
    <3> QED BY <3>1, <3>2, <3>4
  <2>4. \A d, e \in Channels :
          Is(d, {"DIRECT"})' /\ Is(e, {"DIRECT"})' /\ channel'[d].pair = channel'[e].pair => d = e
    <3> TAKE d, e \in Channels
    <3> HAVE Is(d, {"DIRECT"})' /\ Is(e, {"DIRECT"})' /\ channel'[d].pair = channel'[e].pair
    <3>1. Is(d, {"DIRECT"}) /\ Is(e, {"DIRECT"})
      BY <1>7
    <3>2. channel[d].pair = channel[e].pair
      BY <1>5 DEF Is
    <3> QED BY <3>1, <3>2 DEF IInv, RowsOK
  <2> QED BY <2>1, <2>2, <2>3, <2>4 DEF RowsOK
<1>12. PositionsDiffer'
  <2> SUFFICES ASSUME NEW c \in Channels \ moved, NEW d \in Channels \ moved,
                      Is(c, Listed)', Is(d, Listed)', channel'[c].position = channel'[d].position
               PROVE  c = d
    BY DEF PositionsDiffer
  <2>1. Is(c, Listed) /\ Is(d, Listed)
    BY <1>7
  <2>2. channel[c].position = channel[d].position
    BY <1>5 DEF Is
  <2> QED BY <2>1, <2>2 DEF IInv, PositionsDiffer
<1>13. OneDirectChannel' /\ opened' \in [Pairs -> SUBSET Channels]
  <2>1. OneDirectChannel /\ opened \in [Pairs -> SUBSET Channels]
    BY DEF IInv, ChannelsTypeOK
  <2>2. ASSUME NEW p \in Pairs, NEW c \in opened[p], NEW d \in opened[p]
        PROVE  c = d /\ Is(c, {"DIRECT"})' /\ channel'[c].pair = p
    <3>1. c \in Channels /\ c = d /\ Is(c, {"DIRECT"}) /\ channel[c].pair = p
      BY <2>1 DEF OneDirectChannel
    <3>2. Is(c, {"DIRECT"})'
      BY <1>7, <1>8, <3>1
    <3>3. channel'[c] # None
      BY <3>2 DEF Is
    <3> QED BY <1>5, <3>1, <3>2, <3>3
  <2> QED BY <2>1, <2>2 DEF OneDirectChannel
<1>14. ASSUME NEW j \in Tasks' PROVE Reserves(j)'
  <2>1. CASE j = Idle
    BY <1>2, <2>1
  <2>2. CASE j # Idle
    <3>1. PICK q \in Requests \ {r} : j = task[q]
      BY <1>2, <2>2
    <3>2. Reserves(j)
      BY <3>1 DEF IInv, TasksOK, Tasks
    <3>3. ASSUME NEW d \in Channels, Is(d, Listed)'
          PROVE  Is(d, Listed) /\ channel'[d].position = channel[d].position
      <4>1. Is(d, Listed)
        BY <1>7, <3>3
      <4>2. channel'[d] # None
        BY <3>3 DEF Is
      <4> QED BY <1>5, <4>1, <4>2
    <3>4. j.at = "insert channel" =>
            \A d \in Channels \ moved : Is(d, Listed)' => channel'[d].position < j.row.position
      BY <3>2, <3>3 DEF Reserves
    <3>5. ASSUME j.at = "commit direct" PROVE channel'[j.id] = None /\ DirectsOf(j.row.pair)' = {}
      <4>1. j.id \in Channels /\ channel[j.id] = None /\ DirectsOf(j.row.pair) = {}
        BY <1>1, <3>2, <3>5 DEF Reserves
      <4>2. channel'[j.id] = None
        BY <1>1, <1>5, <4>1
      <4>3. ASSUME NEW d \in Channels, Is(d, {"DIRECT"})', channel'[d].pair = j.row.pair PROVE FALSE
        <5>1. Is(d, {"DIRECT"}) /\ channel'[d] # None
          BY <1>7, <4>3 DEF Is
        <5>2. channel[d].pair = j.row.pair
          BY <1>5, <4>3, <5>1
        <5> QED BY <4>1, <5>1, <5>2 DEF DirectsOf
      <4> QED BY <4>2, <4>3 DEF DirectsOf
    <3>6. j.at = "insert message" => message'[j.message] = None
      <4>1. 1..posted \subseteq Messages
        <5>1. posted \in 0..MaxMessages
          BY DEF IInv, ChannelsTypeOK
        <5> QED BY <5>1, Bounds DEF Messages
      <4> QED BY <1>4, <3>2, <4>1 DEF Reserves
    <3> QED BY <3>2, <3>4, <3>5, <3>6 DEF Reserves
  <2> QED BY <2>1, <2>2
<1>15. channel' \in [Channels -> Row \cup {None}]
  BY <1>3, <1>5
<1>16. message' \in [Messages -> Channels \cup {None}]
  BY <1>1, <1>3
<1> QED BY <1>1, <1>2, <1>9, <1>10, <1>11, <1>12, <1>13, <1>14, <1>15, <1>16, IdleType, StepIInv

LEMMA EraseChannelsIInv ==
    ASSUME IInv, NEW r \in Requests, EraseChannels(r)
    PROVE  IInv' /\ Steady
<1> DEFINE lost == {m \in Messages : message[m] \in Going(r)}
<1>1. /\ Erased(Going(r), lost) /\ task' = [task EXCEPT ![r] = Idle]
      /\ moved' = moved /\ posted' = posted /\ used' = used /\ opened' = opened
      /\ started' = started
  BY DEF EraseChannels, Done
<1>2. task[r] \in Tasks /\ task[r].at = "erase channels"
  BY DEF EraseChannels, Tasks
<1>3. \A x \in task[r].seen : Stays(x, Erasable)
  BY <1>2 DEF IInv, TasksOK, Carries
<1>4. used \subseteq Channels /\ started \in 0..MaxRequests
  BY DEF IInv, ChannelsTypeOK
<1>5. Going(r) \subseteq Channels /\ \A x \in Going(r) : Is(x, Erasable)
  BY <1>3, <1>4 DEF Going, Stays, Born, Is
<1>6. lost \subseteq Messages /\ \A m \in Messages : message[m] \in Going(r) => m \in lost
  OBVIOUS
<1>7. PICK gone \in SUBSET Channels, dead \in SUBSET Messages : gone = Going(r) /\ dead = lost
  BY <1>5, <1>6
<1> HIDE DEF lost
<1>8. Erased(gone, dead)
  BY <1>1, <1>7 DEF Erased
<1> QED BY <1>1, <1>4, <1>5, <1>6, <1>7, <1>8, EraseIInv

LEMMA DeleteMessageIInv ==
    ASSUME IInv, NEW r \in Requests, NEW m \in Messages, DeleteMessage(r, m)
    PROVE  IInv' /\ Steady
<1>1. /\ Erased({}, {m}) /\ moved' = moved /\ posted' = posted /\ used' = used
      /\ opened' = opened /\ task' = task /\ task[r] = Idle
  BY DEF DeleteMessage
<1>2. task' = [task EXCEPT ![r] = Idle]
  <2>1. task \in [Requests -> TaskType]
    BY DEF IInv, ChannelsTypeOK, TaskType
  <2> QED BY ONLY <1>1, <2>1, r \in Requests
<1>3. started' \in 0..MaxRequests
  <2>1. started \in 0..MaxRequests /\ started < MaxRequests /\ started' = started + 1
    BY DEF IInv, ChannelsTypeOK, DeleteMessage
  <2> QED BY ONLY <2>1, Bounds
<1>4. {} \in SUBSET Channels /\ {m} \in SUBSET Messages
  OBVIOUS
<1> QED BY <1>1, <1>2, <1>3, <1>4, EraseIInv

\* A Channel's position or parent is changed.
LEMMA WriteChannelIInv ==
    ASSUME IInv, NEW r \in Requests, WriteChannel(r)
    PROVE  IInv' /\ Steady
<1> DEFINE k == task[r]
<1>1. k \in Tasks /\ k.at = "update channel" /\ k \in TaskType
  BY DEF WriteChannel, Tasks, IInv, ChannelsTypeOK, TaskType
<1>2. Carries(k)
  BY <1>1 DEF IInv, TasksOK
<1>3. /\ channel \in [Channels -> Row \cup {None}]
      /\ message \in [Messages -> Channels \cup {None}]
      /\ moved \subseteq Channels /\ used \subseteq Channels
      /\ started \in 0..MaxRequests
      /\ None \notin Row /\ None \notin Channels /\ None \notin Messages
  BY NoneIsNothing DEF IInv, ChannelsTypeOK
<1>4. PICK c \in Channels : c = k.id /\ channel[c] \in Row /\ Is(c, Listed)
  <2>1. Stays(k.id, Listed) /\ channel[k.id] # None
    BY <1>1, <1>2 DEF Carries, WriteChannel
  <2> QED BY <1>3, <2>1 DEF Stays, Born, Is
<1>5. PICK row \in Row : /\ row.type = channel[c].type /\ row.starter = channel[c].starter
                         /\ row.pair = channel[c].pair
                         /\ row.position = IF "position" \in k.fields THEN k.row.position
                                           ELSE channel[c].position
                         /\ row.parent = IF "parent" \in k.fields THEN k.row.parent
                                         ELSE channel[c].parent
                         /\ channel' = [channel EXCEPT ![c] = row]
  <2> DEFINE position == IF "position" \in k.fields THEN k.row.position ELSE channel[c].position
             parent == IF "parent" \in k.fields THEN k.row.parent ELSE channel[c].parent
             new == [channel[c] EXCEPT !.position = position, !.parent = parent]
  <2>1. k.row \in Row
    BY <1>1, <1>2 DEF Carries
  <2>2. position \in Position /\ parent \in Channels \cup {None}
    BY <1>4, <2>1 DEF Row
  <2>3. channel' = [channel EXCEPT ![c] = new]
    <3>1. channel' = [channel EXCEPT ![c].position = position, ![c].parent = parent]
      BY <1>3, <1>4 DEF WriteChannel
    <3> HIDE DEF position, parent
    <3> QED BY <1>3, <1>4, <3>1
  <2> HIDE DEF position, parent
  <2>4. /\ new \in Row /\ new.type = channel[c].type /\ new.starter = channel[c].starter
        /\ new.pair = channel[c].pair /\ new.position = position /\ new.parent = parent
    BY <1>4, <2>2 DEF Row
  <2> HIDE DEF new
  <2> QED BY <2>3, <2>4 DEF position, parent
<1>6. /\ task' = [task EXCEPT ![r] = Idle]
      /\ message' = message /\ posted' = posted /\ started' = started
      /\ used' = used /\ opened' = opened
      /\ moved' = IF "position" \in k.fields THEN moved \cup {c} ELSE moved
  BY <1>4 DEF WriteChannel, Done
<1>7. /\ Step(r, Idle)
      /\ \A d : Born(d) => Born(d)'
      /\ \A n : Sent(n) => Sent(n)'
      /\ Tasks' \subseteq {task[q] : q \in Requests \ {r}} \cup {Idle}
      /\ Carries(Idle) /\ Reserves(Idle)'
      /\ \A q \in Requests \ {r} : Apart(Idle, task[q])
  BY <1>3, <1>6, EndStep
<1>8. "parent" \in k.fields /\ k.row.parent # None =>
        channel[c].type \in {"TEXT", "VOICE"} /\ Is(k.row.parent, {"CATEGORY"})
  <2> SUFFICES ASSUME "parent" \in k.fields, k.row.parent # None
               PROVE  channel[c].type \in {"TEXT", "VOICE"} /\ Is(k.row.parent, {"CATEGORY"})
    OBVIOUS
  <2>1. Stays(c, {"TEXT", "VOICE"}) /\ Stays(k.row.parent, {"CATEGORY"})
    BY <1>1, <1>2, <1>4 DEF Carries
  <2>2. channel[k.row.parent] # None
    BY DEF WriteChannel, ReferencesExist
  <2> QED BY <1>3, <1>4, <2>1, <2>2 DEF Stays, Born, Is
<1> HIDE DEF k
<1>9. /\ channel'[c] = row /\ row # None /\ channel[c] # None
      /\ \A d \in Channels : d # c => channel'[d] = channel[d]
  BY <1>3, <1>4, <1>5
<1>10. /\ \A d \in Channels : channel'[d] # None <=> channel[d] # None
       /\ \A d \in Channels : channel[d] # None =>
            /\ channel'[d].type = channel[d].type /\ channel'[d].starter = channel[d].starter
            /\ channel'[d].pair = channel[d].pair
  BY <1>5, <1>9
<1>11. \A d, types : Is(d, types)' <=> Is(d, types)
  BY <1>10 DEF Is
<1>12. Steady
  BY <1>6, <1>7, <1>10 DEF Steady
<1>13. row.starter = None
  BY <1>4, <1>5 DEF IInv, ReferencesHold, Is, Listed
<1>14. ReferencesHold'
  <2>1. ASSUME NEW d \in Channels, NEW p \in Channels, channel'[d] # None, channel'[d].parent = p
        PROVE  IF channel'[d].type = "THREAD" THEN Is(p, {"TEXT"})'
               ELSE channel'[d].type \in {"TEXT", "VOICE"} /\ Is(p, {"CATEGORY"})'
    <3>1. IF channel'[d].type = "THREAD" THEN Is(p, {"TEXT"})
          ELSE channel'[d].type \in {"TEXT", "VOICE"} /\ Is(p, {"CATEGORY"})
      <4>1. CASE d = c /\ "parent" \in k.fields
        <5>1. p = k.row.parent /\ p # None /\ channel'[d].type = channel[c].type
          BY <1>3, <1>5, <1>9, <2>1, <4>1
        <5> QED BY <1>8, <4>1, <5>1
      <4>2. CASE ~ (d = c /\ "parent" \in k.fields)
        <5>1. channel[d] # None /\ channel[d].parent = p /\ p # None
              /\ channel'[d].type = channel[d].type
          BY <1>3, <1>5, <1>9, <1>10, <2>1, <4>2
        <5> QED BY <5>1 DEF IInv, ReferencesHold
      <4> QED BY <4>1, <4>2
    <3> QED BY <1>11, <3>1
  <2>2. ASSUME NEW d \in Channels, NEW e \in Channels, channel'[d] # None, channel'[e] # None,
               channel'[d].starter # None
        PROVE  /\ channel'[d].type = "THREAD"
               /\ message'[channel'[d].starter] = channel'[d].parent
               /\ channel'[e].starter = channel'[d].starter => d = e
    <3>1. d # c
      BY <1>9, <1>13, <2>2
    <3>2. /\ channel'[d] = channel[d] /\ channel[d] # None /\ channel[d].starter # None
          /\ channel[e] # None /\ channel'[e].starter = channel[e].starter
      BY <1>9, <1>10, <2>2, <3>1
    <3> QED BY <1>6, <3>2 DEF IInv, ReferencesHold
  <2>3. ASSUME NEW m \in Messages, NEW d \in Channels, message'[m] = d
        PROVE  Is(d, TextLike)'
    <3>1. Is(d, TextLike)
      BY <1>3, <1>6, <2>3 DEF IInv, ReferencesHold
    <3> QED BY <1>11, <3>1
  <2>4. \A d \in Channels : channel'[d] # None => channel'[d].parent \in Channels \cup {None}
    <3>1. channel' \in [Channels -> Row \cup {None}]
      BY <1>3, <1>5
    <3> QED BY <3>1 DEF Row
  <2>5. \A m \in Messages : message'[m] \in Channels \cup {None}
    BY <1>3, <1>6
  <2> QED BY <2>1, <2>2, <2>3, <2>4, <2>5 DEF ReferencesHold, Is
<1>15. RowsOK'
  <2>1. \A d \in Channels : channel'[d] # None => Born(d)'
    BY <1>7, <1>10 DEF IInv, RowsOK
  <2>2. \A m \in Messages : message'[m] # None => Sent(m)'
    BY <1>6, <1>7 DEF IInv, RowsOK
  <2>3. \A d \in Channels :
          channel'[d] # None /\ channel'[d].starter # None => channel'[d].parent # None
    BY <1>9, <1>13 DEF IInv, RowsOK
  <2>4. \A d, e \in Channels :
          Is(d, {"DIRECT"})' /\ Is(e, {"DIRECT"})' /\ channel'[d].pair = channel'[e].pair => d = e
    <3> TAKE d, e \in Channels
    <3> HAVE Is(d, {"DIRECT"})' /\ Is(e, {"DIRECT"})' /\ channel'[d].pair = channel'[e].pair
    <3>1. Is(d, {"DIRECT"}) /\ Is(e, {"DIRECT"})
      BY <1>11
    <3>2. channel[d].pair = channel[e].pair
      BY <1>10, <3>1 DEF Is
    <3> QED BY <3>1, <3>2 DEF IInv, RowsOK
  <2> QED BY <2>1, <2>2, <2>3, <2>4 DEF RowsOK
<1>16. \A d \in Channels \ moved' : d \notin moved /\
         (channel[d] # None => channel'[d].position = channel[d].position)
  BY <1>5, <1>6, <1>9
<1>17. PositionsDiffer'
  <2> SUFFICES ASSUME NEW d \in Channels \ moved', NEW e \in Channels \ moved',
                      Is(d, Listed)', Is(e, Listed)', channel'[d].position = channel'[e].position
               PROVE  d = e
    BY DEF PositionsDiffer
  <2>1. Is(d, Listed) /\ Is(e, Listed)
    BY <1>11
  <2>2. channel[d].position = channel[e].position
    BY <1>16, <2>1 DEF Is
  <2> QED BY <1>16, <2>1, <2>2 DEF IInv, PositionsDiffer
<1>18. OneDirectChannel' /\ opened' \in [Pairs -> SUBSET Channels]
  <2>1. OneDirectChannel /\ opened \in [Pairs -> SUBSET Channels]
    BY DEF IInv, ChannelsTypeOK
  <2>2. ASSUME NEW p \in Pairs, NEW d \in opened[p], NEW e \in opened[p]
        PROVE  d = e /\ Is(d, {"DIRECT"})' /\ channel'[d].pair = p
    <3>1. d \in Channels /\ d = e /\ Is(d, {"DIRECT"}) /\ channel[d].pair = p
      BY <2>1 DEF OneDirectChannel
    <3>2. Is(d, {"DIRECT"})' /\ channel[d] # None
      BY <1>11, <3>1 DEF Is
    <3> QED BY <1>10, <3>1, <3>2
  <2> QED BY <1>6, <2>1, <2>2 DEF OneDirectChannel
<1>19. ASSUME NEW j \in Tasks' PROVE Reserves(j)'
  <2>1. CASE j = Idle
    BY <1>7, <2>1
  <2>2. CASE j # Idle
    <3>1. PICK q \in Requests \ {r} : j = task[q]
      BY <1>7, <2>2
    <3>2. Reserves(j)
      BY <3>1 DEF IInv, TasksOK, Tasks
    <3>3. ASSUME NEW d \in Channels \ moved', Is(d, Listed)'
          PROVE  d \notin moved /\ Is(d, Listed) /\ channel'[d].position = channel[d].position
      BY <1>11, <1>16, <3>3 DEF Is
    <3>4. j.at = "insert channel" =>
            \A d \in Channels \ moved' : Is(d, Listed)' => channel'[d].position < j.row.position
      BY <3>2, <3>3 DEF Reserves
    <3>5. ASSUME j.at = "commit direct" PROVE channel'[j.id] = None /\ DirectsOf(j.row.pair)' = {}
      <4>1. j.id \in Channels /\ channel[j.id] = None /\ DirectsOf(j.row.pair) = {}
        BY <1>3, <3>2, <3>5 DEF Reserves
      <4>2. channel'[j.id] = None
        BY <1>10, <4>1
      <4>3. ASSUME NEW d \in Channels, Is(d, {"DIRECT"})', channel'[d].pair = j.row.pair PROVE FALSE
        <5>1. Is(d, {"DIRECT"}) /\ channel[d] # None
          BY <1>11, <4>3 DEF Is
        <5>2. channel[d].pair = j.row.pair
          BY <1>10, <4>3, <5>1
        <5> QED BY <4>1, <5>1, <5>2 DEF DirectsOf
      <4> QED BY <4>2, <4>3 DEF DirectsOf
    <3> QED BY <1>6, <3>2, <3>4, <3>5 DEF Reserves
  <2> QED BY <2>1, <2>2
<1>20. /\ channel' \in [Channels -> Row \cup {None}]
       /\ message' \in [Messages -> Channels \cup {None}]
       /\ moved' \subseteq Channels
  BY <1>3, <1>5, <1>6
<1> QED BY <1>7, <1>12, <1>14, <1>15, <1>17, <1>18, <1>19, <1>20, IdleType, StepIInv
-----------------------------------------------------------------------------
\* No step of a request breaks the invariant.
LEMMA NextIInv ==
    ASSUME IInv, Next
    PROVE  IInv' /\ Steady
<1>1. CASE \E r \in Requests, type \in Listed, parent \in Channels \cup {None} :
             CreateChannel(r, type, parent)
  BY <1>1, CreateChannelIInv
<1>2. CASE \E r \in Requests, c \in Channels :
             InsertChannel(r, c) \/ DeleteChannel(r, c) \/ InsertThread(r, c)
               \/ InsertDirect(r, c) \/ FindDirect(r, c) \/ CreateMessage(r, c)
  BY <1>2, InsertChannelIInv, DeleteChannelIInv, InsertThreadIInv, InsertDirectIInv,
     FindDirectIInv, CreateMessageIInv
<1>3. CASE \E r \in Requests, c \in Channels, fields \in SUBSET Fields \ {{}},
              position \in Position, parent \in Channels \cup {None} :
             UpdateChannel(r, c, fields, position, parent)
  BY <1>3, UpdateChannelIInv
<1>4. CASE \E r \in Requests, c \in Channels, starter \in Messages \cup {None} :
             CreateThread(r, c, starter)
  BY <1>4, CreateThreadIInv
<1>5. CASE \E r \in Requests, pair \in Pairs : OpenDirectChannel(r, pair)
  BY <1>5, OpenDirectChannelIInv
<1>6. CASE \E r \in Requests, m \in Messages : DeleteMessage(r, m)
  BY <1>6, DeleteMessageIInv
<1>7. CASE \E r \in Requests :
             LockGuild(r) \/ WriteChannel(r) \/ SeeChannels(r) \/ EraseChannels(r)
               \/ CommitDirect(r) \/ InsertMessage(r) \/ Fail(r)
  BY <1>7, LockGuildIInv, WriteChannelIInv, SeeChannelsIInv, EraseChannelsIInv,
     CommitDirectIInv, InsertMessageIInv, FailIInv
<1> QED BY <1>1, <1>2, <1>3, <1>4, <1>5, <1>6, <1>7 DEF Next

\* To begin with there are only the Guild's Channels.
LEMMA InitIInv == Init => IInv
<1> SUFFICES ASSUME Init PROVE IInv
  OBVIOUS
<1>1. /\ Guild \in [Channels -> Row \cup {None}]
      /\ \A c \in Channels : Guild[c] # None =>
           Guild[c].type \in {"TEXT", "CATEGORY"} /\ Guild[c].parent = None /\ Guild[c].starter = None
      /\ \A c, d \in Channels :
           Guild[c] # None /\ Guild[d] # None /\ Guild[c].position = Guild[d].position => c = d
  BY ChannelsAssumption
<1>2. /\ channel = Guild /\ message = [m \in Messages |-> None]
      /\ used = {c \in Channels : Guild[c] # None} /\ posted = 0
      /\ task = [r \in Requests |-> Idle] /\ started = 0 /\ moved = {}
      /\ opened = [p \in Pairs |-> {}]
  BY DEF Init
<1>3. 0 \in 0..MaxMessages /\ 0 \in 0..MaxRequests
  BY Bounds
<1>4. ChannelsTypeOK
  BY <1>1, <1>2, <1>3, IdleType DEF ChannelsTypeOK, TaskType
<1>5. Tasks \subseteq {Idle} /\ \A q \in Requests : task[q] = Idle
  BY <1>2 DEF Tasks
<1>6. Idle.at = "idle"
  BY DEF Idle
<1>7. TasksOK
  <2>1. Carries(Idle) /\ Reserves(Idle) /\ Apart(Idle, Idle)
    BY <1>6, IdleCarries DEF Reserves, Apart
  <2> QED BY <1>5, <2>1 DEF TasksOK
<1>8. ReferencesHold
  BY <1>1, <1>2 DEF ReferencesHold
<1>9. PositionsDiffer
  BY <1>1, <1>2 DEF PositionsDiffer, Is
<1>10. OneDirectChannel
  BY <1>2 DEF OneDirectChannel
<1>11. RowsOK
  BY <1>1, <1>2, <1>5, <1>6 DEF RowsOK, Born, Is
<1> QED BY <1>4, <1>7, <1>8, <1>9, <1>10, <1>11 DEF IInv
-----------------------------------------------------------------------------
(* Read positions.                                                         *)

LEMMA RestingOK == Resting \in ReaderType /\ ReaderOK(Resting) /\ Resting.at = "resting"
<1>1. Resting \in ReaderType /\ Resting.at = "resting"
  BY DEF Resting, ReaderType, ReadPlaces
<1> QED BY <1>1 DEF ReaderOK

\* The steps of requests do not depend on read positions.
LEMMA SameIInv ==
    ASSUME IInv, UNCHANGED vars
    PROVE  IInv' /\ \A m : Sent(m)' <=> Sent(m)
<1>1. /\ channel' = channel /\ message' = message /\ used' = used /\ posted' = posted
      /\ task' = task /\ started' = started /\ moved' = moved /\ opened' = opened
  BY DEF vars
<1>2. /\ \A c : Born(c)' <=> Born(c)
      /\ \A m : Sent(m)' <=> Sent(m)
      /\ \A c, types : Is(c, types)' <=> Is(c, types)
  BY <1>1 DEF Born, Sent, Is
<1>3. /\ \A c, types : Stays(c, types)' <=> Stays(c, types)
      /\ \A pair : DirectsOf(pair)' = DirectsOf(pair)
      /\ Tasks' = Tasks
  BY <1>1, <1>2 DEF Stays, DirectsOf, Tasks
<1>4. ChannelsTypeOK' /\ ReferencesHold' /\ PositionsDiffer' /\ OneDirectChannel'
  <2>1. ChannelsTypeOK /\ ReferencesHold /\ PositionsDiffer /\ OneDirectChannel
    BY DEF IInv
  <2>2. ChannelsTypeOK'
    BY ONLY <1>1, <2>1 DEF ChannelsTypeOK
  <2>3. ReferencesHold'
    BY ONLY <1>1, <2>1 DEF ReferencesHold, Is
  <2>4. PositionsDiffer'
    BY ONLY <1>1, <2>1 DEF PositionsDiffer, Is
  <2>5. OneDirectChannel'
    BY ONLY <1>1, <2>1 DEF OneDirectChannel, Is
  <2> QED BY <2>2, <2>3, <2>4, <2>5
<1>5. RowsOK'
  BY <1>1, <1>2 DEF IInv, RowsOK
<1>6. Steady
  BY <1>1, <1>2, NoneIsNothing DEF Steady
<1>7. ASSUME NEW k \in Tasks' PROVE Carries(k)' /\ Reserves(k)'
  <2>1. Carries(k) /\ Reserves(k) /\ k \in TaskType
    <3>1. k \in Tasks
      BY <1>3
    <3>2. Carries(k) /\ Reserves(k)
      BY <3>1 DEF IInv, TasksOK
    <3>3. Tasks \subseteq TaskType
      BY DEF IInv, ChannelsTypeOK, TaskType, Tasks
    <3> QED BY <3>1, <3>2, <3>3
  <2>2. Carries(k)'
    BY <1>6, <2>1, CarriesSteady DEF IInv
  <2>3. Reserves(k)'
    BY <1>1, <1>2, <1>3, <2>1 DEF Reserves
  <2> QED BY <2>2, <2>3
<1>8. \A q, r \in Requests : q # r => Apart(task'[q], task'[r])
  BY <1>1 DEF IInv, TasksOK
<1> QED BY <1>2, <1>4, <1>5, <1>7, <1>8 DEF IInv, TasksOK

\* A handler takes a step and leaves the read positions alone.
LEMMA ReaderStep ==
    ASSUME ReadIInv, NEW j \in Readers, NEW k \in ReaderType, reader' = [reader EXCEPT ![j] = k],
           UNCHANGED <<vars, read>>, reads' \in 0..MaxReads, ReaderOK(k)
    PROVE  ReadIInv'
<1>1. read' = read /\ UNCHANGED vars /\ message' = message
  BY DEF vars
<1>2. IInv' /\ \A m : Sent(m)' <=> Sent(m)
  BY <1>1, SameIInv DEF ReadIInv
<1>3. reader \in [Readers -> ReaderType] /\ read \in [Users -> [Channels -> Messages \cup {None}]]
  BY DEF ReadIInv, ReadTypeOK
<1>4. ReadTypeOK'
  <2>1. reader' \in [Readers -> ReaderType]
    BY ONLY <1>3, j \in Readers, k \in ReaderType, reader' = [reader EXCEPT ![j] = k]
  <2> QED BY <1>1, <1>3, <2>1 DEF ReadTypeOK
<1>5. ReadsSent'
  BY <1>1, <1>2 DEF ReadIInv, ReadsSent
<1>6. ASSUME NEW i \in Updates' PROVE ReaderOK(i)'
  <2>1. \A h \in Readers : reader'[h] = IF h = j THEN k ELSE reader[h]
    BY <1>3
  <2>2. i = k \/ i \in Updates
    BY <2>1 DEF Updates
  <2>3. ReaderOK(i)
    BY <2>2 DEF ReadIInv
  <2> QED BY <1>1, <1>2, <2>3 DEF ReaderOK
<1> QED BY <1>2, <1>4, <1>5, <1>6 DEF ReadIInv

\* The facts each step starts from.
LEMMA ReaderFacts ==
    ASSUME ReadIInv, NEW j \in Readers
    PROVE  /\ reader[j] \in ReaderType /\ ReaderOK(reader[j])
           /\ \A u \in Users, c \in Channels : read[u][c] \in Messages \cup {None}
           /\ Messages \subseteq Int /\ None \notin Messages
<1>1. Messages \subseteq Int /\ None \notin Messages
  BY Bounds, NoneIsNothing DEF Messages
<1>2. reader[j] \in Updates
  BY DEF Updates
<1> QED BY <1>1, <1>2 DEF ReadIInv, ReadTypeOK

\* Of two Messages one is the later, or they are the same.
LEMMA Later ==
    ASSUME NEW m \in Messages, NEW n \in Messages, ~ (m <= n)
    PROVE  n < m
BY Bounds DEF Messages

LEMMA UpdateReadStateIInv ==
    ASSUME ReadIInv, NEW j \in Readers, NEW u \in Users, NEW m \in Messages,
           UpdateReadState(j, u, m)
    PROVE  ReadIInv'
<1> DEFINE new == [Resting EXCEPT !.at = "lock", !.user = u, !.channel = message[m], !.message = m]
<1>1. message[m] \in Channels /\ Sent(m)
  BY DEF ReadIInv, IInv, ChannelsTypeOK, RowsOK, UpdateReadState
<1>2. PICK k \in ReaderType : /\ k = new /\ k.at = "lock" /\ k.user = u
                              /\ k.channel \in Channels /\ k.message = m
  <2>1. /\ new \in ReaderType /\ new.at = "lock" /\ new.user = u
        /\ new.channel \in Channels /\ new.message = m
    BY <1>1 DEF Resting, ReaderType, ReadPlaces
  <2> HIDE DEF new
  <2> QED BY <2>1
<1>3. reader' = [reader EXCEPT ![j] = k] /\ UNCHANGED <<vars, read>>
  BY <1>2 DEF UpdateReadState
<1> HIDE DEF new
<1>4. reads' \in 0..MaxReads
  <2>1. reads \in 0..MaxReads /\ reads < MaxReads /\ reads' = reads + 1
    BY DEF ReadIInv, ReadTypeOK, UpdateReadState
  <2> QED BY <2>1, ReadsAssumption
<1>5. ReaderOK(k)
  BY <1>1, <1>2 DEF ReaderOK
<1> QED BY <1>3, <1>4, <1>5, ReaderStep

\* There is no position: whoever writes one while the handler goes on ends its solitude.
LEMMA FindNothingIInv ==
    ASSUME ReadIInv, NEW j \in Readers, FindNothing(j)
    PROVE  ReadIInv'
<1> DEFINE new == [reader[j] EXCEPT !.at = "upsert"]
<1>1. reader[j] \in ReaderType /\ ReaderOK(reader[j])
  BY ReaderFacts
<1>2. PICK k \in ReaderType : /\ k = new /\ k.at = "upsert" /\ k.user = reader[j].user
                              /\ k.channel = reader[j].channel /\ k.message = reader[j].message
  <2>1. /\ new \in ReaderType /\ new.at = "upsert" /\ new.user = reader[j].user
        /\ new.channel = reader[j].channel /\ new.message = reader[j].message
    BY <1>1 DEF ReaderType, ReadPlaces
  <2> HIDE DEF new
  <2> QED BY <2>1
<1>3. reader' = [reader EXCEPT ![j] = k] /\ UNCHANGED <<vars, read>> /\ reads' = reads
  BY <1>2 DEF FindNothing
<1> HIDE DEF new
<1>4. reads' \in 0..MaxReads
  BY <1>3 DEF ReadIInv, ReadTypeOK
<1>5. ReaderOK(k)
  BY <1>1, <1>2 DEF ReaderOK, FindNothing
<1> QED BY <1>3, <1>4, <1>5, ReaderStep

\* A handler goes back to rest.
LEMMA RestIInv ==
    ASSUME ReadIInv, NEW j \in Readers, reader' = [reader EXCEPT ![j] = Resting],
           UNCHANGED <<vars, read, reads>>
    PROVE  ReadIInv'
<1>1. reads' \in 0..MaxReads
  BY DEF ReadIInv, ReadTypeOK
<1> QED BY <1>1, RestingOK, ReaderStep

\* The position found is behind the Message, or its Message is gone.
LEMMA LockRowIInv ==
    ASSUME ReadIInv, NEW j \in Readers, LockRow(j)
    PROVE  ReadIInv'
<1> DEFINE found == read[reader[j].user][reader[j].channel]
           new == [reader[j] EXCEPT !.at = "upsert", !.locked = TRUE]
<1>1. /\ reader[j] \in ReaderType /\ ReaderOK(reader[j]) /\ reader[j].at = "lock"
      /\ Messages \subseteq Int
      /\ UNCHANGED <<vars, read, reads>>
  BY ReaderFacts DEF LockRow
<1>2. CASE Behind(reader[j].message, found)
  <2>1. reader' = [reader EXCEPT ![j] = Resting]
    BY <1>2 DEF LockRow
  <2> QED BY <1>1, <2>1, RestIInv
<1>3. CASE ~ Behind(reader[j].message, found)
  <2>1. PICK k \in ReaderType : /\ k = new /\ k.at = "upsert" /\ k.user = reader[j].user
                                /\ k.channel = reader[j].channel /\ k.message = reader[j].message
    <3>1. /\ new \in ReaderType /\ new.at = "upsert" /\ new.user = reader[j].user
          /\ new.channel = reader[j].channel /\ new.message = reader[j].message
      BY <1>1 DEF ReaderType, ReadPlaces
    <3> HIDE DEF new
    <3> QED BY <3>1
  <2>2. reader' = [reader EXCEPT ![j] = k]
    BY <1>3, <2>1 DEF LockRow
  <2>3. reads' \in 0..MaxReads
    BY <1>1 DEF ReadIInv, ReadTypeOK
  <2>4. /\ k.user \in Users /\ k.channel \in Channels /\ k.message \in Messages
        /\ Sent(k.message) /\ found = read[k.user][k.channel]
    BY <1>1, <2>1 DEF ReaderOK
  <2>5. found # None /\ message[found] # None => found < k.message
    <3>1. found \in Messages \cup {None}
      BY <2>4, ReaderFacts
    <3>2. found # None /\ message[found] # None => ~ (k.message <= found)
      BY <1>3, <2>1 DEF Behind
    <3> HIDE DEF found
    <3> QED BY <2>4, <3>1, <3>2, Later
  <2>6. ReaderOK(k)
    BY <2>1, <2>4, <2>5 DEF ReaderOK
  <2> QED BY <1>1, <2>2, <2>3, <2>6, ReaderStep
<1> QED BY <1>2, <1>3

\* The handler waits with what it has compared.
LEMMA WaitForRowIInv ==
    ASSUME ReadIInv, NEW j \in Readers, WaitForRow(j)
    PROVE  ReadIInv'
<1> DEFINE found == read[reader[j].user][reader[j].channel]
           behind == Behind(reader[j].message, found)
           new == [reader[j] EXCEPT !.at = "wait", !.found = found, !.behind = behind]
<1>1. /\ reader[j] \in ReaderType /\ ReaderOK(reader[j]) /\ reader[j].at = "lock"
      /\ Messages \subseteq Int /\ found # None
      /\ UNCHANGED <<vars, read, reads>>
      /\ reader' = [reader EXCEPT ![j] = new]
  BY ReaderFacts DEF WaitForRow
<1>2. /\ reader[j].user \in Users /\ reader[j].channel \in Channels
      /\ reader[j].message \in Messages /\ Sent(reader[j].message)
  BY <1>1 DEF ReaderOK
<1>3. found \in Messages /\ Sent(found)
  BY <1>1, <1>2, ReaderFacts DEF ReadIInv, ReadsSent
<1>4. PICK k \in ReaderType : /\ k = new /\ k.at = "wait" /\ k.user = reader[j].user
                              /\ k.channel = reader[j].channel /\ k.message = reader[j].message
                              /\ k.found = found /\ k.behind = behind
  <2>1. behind \in BOOLEAN
    BY DEF Behind
  <2> HIDE DEF found, behind
  <2>2. /\ new \in ReaderType /\ new.at = "wait" /\ new.user = reader[j].user
        /\ new.channel = reader[j].channel /\ new.message = reader[j].message
        /\ new.found = found /\ new.behind = behind
    BY <1>1, <1>3, <2>1 DEF ReaderType, ReadPlaces
  <2> HIDE DEF new
  <2> QED BY <2>2
<1>5. ~ k.behind /\ message[k.found] # None => k.found < k.message
  <2>1. ~ behind /\ message[found] # None => ~ (reader[j].message <= found)
    BY <1>1 DEF Behind
  <2> HIDE DEF found, behind
  <2> QED BY <1>2, <1>3, <1>4, <2>1, Later
<1>6. ReaderOK(k)
  <2>1. k.found = read[k.user][k.channel]
    BY <1>4
  <2> HIDE DEF found, behind, new
  <2> QED BY <1>2, <1>3, <1>4, <1>5, <2>1 DEF ReaderOK
<1>7. reads' \in 0..MaxReads
  BY <1>1 DEF ReadIInv, ReadTypeOK
<1>8. reader' = [reader EXCEPT ![j] = k]
  BY <1>1, <1>4
<1> QED BY <1>1, <1>6, <1>7, <1>8, ReaderStep

\* If the position is another one by then, another update has written it or it is gone.
LEMMA GetRowIInv ==
    ASSUME ReadIInv, NEW j \in Readers, GetRow(j)
    PROVE  ReadIInv'
<1> DEFINE now == read[reader[j].user][reader[j].channel]
           new == [reader[j] EXCEPT !.at = "upsert", !.locked = now # None]
<1>1. /\ reader[j] \in ReaderType /\ ReaderOK(reader[j]) /\ reader[j].at = "wait"
      /\ UNCHANGED <<vars, read, reads>>
  BY ReaderFacts DEF GetRow
<1>2. CASE now = reader[j].found /\ reader[j].behind
  <2>1. reader' = [reader EXCEPT ![j] = Resting]
    BY <1>2 DEF GetRow
  <2> QED BY <1>1, <2>1, RestIInv
<1>3. CASE ~ (now = reader[j].found /\ reader[j].behind)
  <2>1. PICK k \in ReaderType : /\ k = new /\ k.at = "upsert" /\ k.user = reader[j].user
                                /\ k.channel = reader[j].channel /\ k.message = reader[j].message
                                /\ k.alone = reader[j].alone
    <3> DEFINE locked == now # None
    <3>1. locked \in BOOLEAN
      OBVIOUS
    <3> HIDE DEF locked
    <3>2. LET n == [reader[j] EXCEPT !.at = "upsert", !.locked = locked]
          IN  /\ n \in ReaderType /\ n.at = "upsert" /\ n.user = reader[j].user
              /\ n.channel = reader[j].channel /\ n.message = reader[j].message
              /\ n.alone = reader[j].alone
      BY <1>1, <3>1 DEF ReaderType, ReadPlaces
    <3> QED BY <3>2 DEF locked
  <2>2. reader' = [reader EXCEPT ![j] = k]
    BY <1>3, <2>1 DEF GetRow
  <2>3. reads' \in 0..MaxReads
    BY <1>1 DEF ReadIInv, ReadTypeOK
  <2>4. /\ k.user \in Users /\ k.channel \in Channels /\ k.message \in Messages
        /\ Sent(k.message) /\ now = read[k.user][k.channel]
        /\ reader[j].alone => now \in {None, reader[j].found}
        /\ ~ reader[j].behind /\ message[reader[j].found] # None => reader[j].found < k.message
    BY <1>1, <2>1 DEF ReaderOK
  <2> HIDE DEF now, new
  <2>5. k.alone /\ now # None /\ message[now] # None => now < k.message
    BY <1>3, <2>1, <2>4
  <2>6. ReaderOK(k)
    BY <2>1, <2>4, <2>5 DEF ReaderOK
  <2> QED BY <1>1, <2>2, <2>3, <2>6, ReaderStep
<1> QED BY <1>2, <1>3

\* The position is written: no other update of it that is under way is alone then.
LEMMA UpsertIInv ==
    ASSUME ReadIInv, NEW j \in Readers, Upsert(j)
    PROVE  ReadIInv'
<1> DEFINE u == reader[j].user
           c == reader[j].channel
           m == reader[j].message
<1>1. /\ u \in Users /\ c \in Channels /\ m \in Messages /\ Sent(m)
  BY ReaderFacts DEF Upsert, ReaderOK
<1>2. /\ UNCHANGED vars /\ message' = message /\ reads' = reads
      /\ read' = [read EXCEPT ![u][c] = m]
      /\ reader' = [i \in Readers |-> IF i = j THEN Resting
                                      ELSE IF Same(i, j) THEN [reader[i] EXCEPT !.alone = FALSE]
                                      ELSE reader[i]]
  BY DEF Upsert, vars
<1>3. IInv' /\ \A n : Sent(n)' <=> Sent(n)
  BY <1>2, SameIInv DEF ReadIInv
<1>4. /\ read \in [Users -> [Channels -> Messages \cup {None}]]
      /\ reader \in [Readers -> ReaderType]
  BY DEF ReadIInv, ReadTypeOK
<1> HIDE DEF u, c, m
<1>5. \A v \in Users, d \in Channels : read'[v][d] = IF v = u /\ d = c THEN m ELSE read[v][d]
  BY <1>1, <1>2, <1>4
<1>6. read' \in [Users -> [Channels -> Messages \cup {None}]]
  BY <1>1, <1>2, <1>4
<1>7. ReadsSent'
  BY <1>1, <1>3, <1>5 DEF ReadIInv, ReadsSent
<1>8. ASSUME NEW i \in Readers
      PROVE  reader'[i] \in ReaderType /\ \A k : k = reader'[i] => ReaderOK(k)'
  <2> SUFFICES ASSUME NEW k, k = reader'[i] PROVE k \in ReaderType /\ ReaderOK(k)'
    OBVIOUS
  <2>1. reader[i] \in ReaderType /\ ReaderOK(reader[i])
    BY ReaderFacts
  <2>2. CASE i = j
    <3>1. k = Resting
      BY <1>2, <2>2
    <3> QED BY <3>1, RestingOK DEF ReaderOK
  <2>3. CASE i # j /\ Same(i, j)
    <3>1. k = [reader[i] EXCEPT !.alone = FALSE]
      BY <1>2, <2>3
    <3>2. /\ k \in ReaderType /\ ~ k.alone /\ k.at = reader[i].at /\ k.user = reader[i].user
          /\ k.channel = reader[i].channel /\ k.message = reader[i].message
          /\ k.found = reader[i].found /\ k.behind = reader[i].behind
      BY <2>1, <3>1 DEF ReaderType
    <3> QED BY <1>2, <1>3, <2>1, <3>2 DEF ReaderOK
  <2>4. CASE i # j /\ ~ Same(i, j)
    <3>1. k = reader[i] /\ (k.user # u \/ k.channel # c)
      BY <1>2, <2>4 DEF Same, u, c
    <3>2. k.at # "resting" => read'[k.user][k.channel] = read[k.user][k.channel]
      BY <1>5, <2>1, <3>1 DEF ReaderOK
    <3> QED BY <1>2, <1>3, <2>1, <3>1, <3>2 DEF ReaderOK
  <2> QED BY <2>2, <2>3, <2>4
<1>9. ReadTypeOK'
  <2>1. reader' \in [Readers -> ReaderType]
    BY <1>2, <1>8
  <2> QED BY <1>2, <1>6, <2>1 DEF ReadIInv, ReadTypeOK
<1>10. \A k \in Updates' : ReaderOK(k)'
  BY <1>8 DEF Updates
<1> QED BY <1>3, <1>7, <1>9, <1>10 DEF ReadIInv

\* Whatever requests do, a position and what a handler found stay or go.
LEMMA ChannelStepIInv ==
    ASSUME ReadIInv, ChannelStep
    PROVE  ReadIInv'
<1>1. IInv' /\ Steady
  BY NextIInv DEF ReadIInv, ChannelStep
<1>2. /\ read' = [u \in Users |-> [c \in Channels |-> IF channel'[c] = None THEN None ELSE read[u][c]]]
      /\ reader' = reader /\ reads' = reads
  BY DEF ChannelStep
<1>3. /\ read \in [Users -> [Channels -> Messages \cup {None}]]
      /\ reader \in [Readers -> ReaderType] /\ None \notin Messages
  BY NoneIsNothing DEF ReadIInv, ReadTypeOK
<1>4. \A u \in Users, c \in Channels : read'[u][c] \in {None, read[u][c]}
  BY <1>2
<1>5. \A m \in Messages : Sent(m) => Sent(m)' /\ message'[m] \in {None, message[m]}
  BY <1>1 DEF Steady
<1>6. \A u \in Users, c \in Channels :
        read[u][c] # None => read[u][c] \in Messages /\ Sent(read[u][c])
  BY <1>3 DEF ReadIInv, ReadsSent
<1>7. ReadTypeOK'
  <2>1. read' \in [Users -> [Channels -> Messages \cup {None}]]
    BY <1>2, <1>3
  <2> QED BY <1>2, <2>1 DEF ReadIInv, ReadTypeOK
<1>8. ReadsSent'
  <2> SUFFICES ASSUME NEW u \in Users, NEW c \in Channels, NEW m, m = read'[u][c], m # None
               PROVE  Sent(m)'
    BY DEF ReadsSent
  <2>1. m = read[u][c]
    BY <1>4
  <2> QED BY <1>5, <1>6, <2>1
<1>9. ASSUME NEW k \in Updates' PROVE ReaderOK(k)'
  <2>1. k \in Updates /\ ReaderOK(k) /\ k \in ReaderType
    BY <1>2, <1>3 DEF Updates, ReadIInv
  <2> SUFFICES ASSUME k.at # "resting"
               PROVE  ReaderOK(k)'
    BY DEF ReaderOK
  <2>2. /\ k.user \in Users /\ k.channel \in Channels /\ k.message \in Messages
        /\ Sent(k.message)
    BY <2>1 DEF ReaderOK
  <2> DEFINE now == read[k.user][k.channel]
             after == read'[k.user][k.channel]
  <2>3. after \in {None, now} /\ (now # None => now \in Messages /\ Sent(now))
    BY <1>4, <1>6, <2>2
  <2>4. Sent(k.message)'
    BY <1>5, <2>2
  <2>5. k.at = "wait" =>
          /\ k.found \in Messages /\ Sent(k.found)'
          /\ k.alone => after \in {None, k.found}
          /\ ~ k.behind /\ message'[k.found] # None => k.found < k.message
    <3> SUFFICES ASSUME k.at = "wait"
                 PROVE  /\ k.found \in Messages /\ Sent(k.found)'
                        /\ k.alone => after \in {None, k.found}
                        /\ ~ k.behind /\ message'[k.found] # None => k.found < k.message
      OBVIOUS
    <3>1. /\ k.found \in Messages /\ Sent(k.found)
          /\ k.alone => now \in {None, k.found}
          /\ ~ k.behind /\ message[k.found] # None => k.found < k.message
      BY <2>1, <2>2 DEF ReaderOK
    <3>2. Sent(k.found)' /\ message'[k.found] \in {None, message[k.found]}
      BY <1>5, <3>1
    <3> HIDE DEF now, after
    <3> QED BY <2>3, <3>1, <3>2
  <2>6. k.at = "upsert" /\ k.alone /\ after # None /\ message'[after] # None => after < k.message
    <3> SUFFICES ASSUME k.at = "upsert", k.alone, after # None, message'[after] # None
                 PROVE  after < k.message
      OBVIOUS
    <3>1. after = now /\ message[now] # None
      BY <1>5, <2>3
    <3>2. now # None /\ message[now] # None => now < k.message
      BY <2>1, <2>2 DEF ReaderOK
    <3> QED BY <3>1, <3>2
  <2> QED BY <2>2, <2>4, <2>5, <2>6 DEF ReaderOK
<1> QED BY <1>1, <1>7, <1>8, <1>9 DEF ReadIInv

LEMMA ReadNextIInv == ReadIInv /\ [ReadNext]_<<vars, readVars>> => ReadIInv'
<1> SUFFICES ASSUME ReadIInv, [ReadNext]_<<vars, readVars>> PROVE ReadIInv'
  OBVIOUS
<1>1. ASSUME NEW j \in Readers,
             FindNothing(j) \/ LockRow(j) \/ WaitForRow(j) \/ GetRow(j) \/ Upsert(j) \/ ReadFails(j)
      PROVE  ReadIInv'
  <2>1. CASE ReadFails(j)
    BY <2>1, RestIInv DEF ReadFails
  <2> QED BY <1>1, <2>1, FindNothingIInv, LockRowIInv, WaitForRowIInv, GetRowIInv, UpsertIInv
<1>2. CASE UNCHANGED <<vars, readVars>>
  <2>1. UNCHANGED vars /\ read' = read /\ reader' = reader /\ reads' = reads /\ message' = message
    BY <1>2 DEF readVars, vars
  <2>2. IInv' /\ \A m : Sent(m)' <=> Sent(m)
    BY <2>1, SameIInv DEF ReadIInv
  <2>3. ReadTypeOK' /\ ReadsSent'
    BY <2>1, <2>2 DEF ReadIInv, ReadTypeOK, ReadsSent
  <2>4. ASSUME NEW k \in Updates' PROVE ReaderOK(k)'
    <3>1. ReaderOK(k)
      BY <2>1 DEF ReadIInv, Updates
    <3> QED BY <2>1, <2>2, <3>1 DEF ReaderOK
  <2> QED BY <2>2, <2>3, <2>4 DEF ReadIInv
<1> QED BY <1>1, <1>2, ChannelStepIInv, UpdateReadStateIInv DEF ReadNext

LEMMA ReadInitIInv == ReadInit => ReadIInv
<1> SUFFICES ASSUME ReadInit PROVE ReadIInv
  OBVIOUS
<1>1. /\ Init /\ read = [u \in Users |-> [c \in Channels |-> None]]
      /\ reader = [k \in Readers |-> Resting] /\ reads = 0
  BY DEF ReadInit
<1>2. 0 \in 0..MaxReads
  BY ReadsAssumption
<1>3. \A k \in Updates : k = Resting
  BY <1>1 DEF Updates
<1>4. ReadTypeOK /\ ReadsSent
  BY <1>1, <1>2, RestingOK DEF ReadTypeOK, ReadsSent
<1> QED BY <1>1, <1>3, <1>4, RestingOK, InitIInv DEF ReadIInv

\* The invariant holds throughout.
LEMMA AlwaysReadIInv == ReadSpec => []ReadIInv
BY ReadInitIInv, ReadNextIInv, PTL DEF ReadSpec

\* Every variable keeps its type.
THEOREM TypeCorrect == ReadSpec => []TypeOK
<1>1. ReadIInv => TypeOK
  BY DEF ReadIInv, IInv, ReadTypeOK, ReaderType, TypeOK
<1> QED BY <1>1, AlwaysReadIInv, PTL

\* Whatever is created, moved and deleted at the same time, parents, starters and
\* Messages refer to what is there and of the right type.
THEOREM ReferencesKept == ReadSpec => []ReferencesHold
<1>1. ReadIInv => ReferencesHold
  BY DEF ReadIInv, IInv
<1> QED BY <1>1, AlwaysReadIInv, PTL

\* Any number of Channels created at the same time get different positions.
THEOREM PositionsKept == ReadSpec => []PositionsDiffer
<1>1. ReadIInv => PositionsDiffer
  BY DEF ReadIInv, IInv
<1> QED BY <1>1, AlwaysReadIInv, PTL

\* A pair of Users is always answered the same Channel, which stays theirs.
THEOREM OneForAPair == ReadSpec => []OneDirectChannel
<1>1. ReadIInv => OneDirectChannel
  BY DEF ReadIInv, IInv
<1> QED BY <1>1, AlwaysReadIInv, PTL

\* An earlier Message is below a later one.
LEMMA EarlierOrder ==
    ASSUME NEW n \in Messages, NEW m \in Messages, n < m
    PROVE  m >= n
<1>1. n \in Int /\ m \in Int
  BY Bounds DEF Messages
<1> QED BY ONLY <1>1, n < m

\* An update of a read position nothing came between moves it forward.
THEOREM ReadForward == ReadSpec => AloneReadsForward
<1>1. ASSUME ReadIInv, NEW j \in Readers, Upsert(j), reader[j].alone
      PROVE  Forward(reader[j].user, reader[j].channel)
  <2> DEFINE u == reader[j].user
             c == reader[j].channel
             m == reader[j].message
  <2>1. ReaderOK(reader[j]) /\ reader[j].at = "upsert" /\ reader[j].alone
    BY <1>1, ReaderFacts DEF Upsert
  <2>2. /\ u \in Users /\ c \in Channels /\ m \in Messages
        /\ read[u][c] # None /\ message[read[u][c]] # None => read[u][c] < m
    BY <2>1 DEF ReaderOK
  <2>3. /\ read[u][c] \in Messages \cup {None} /\ Messages \subseteq Int
    BY <1>1, <2>2, ReaderFacts
  <2>4. read' = [read EXCEPT ![u][c] = m]
    BY <1>1 DEF Upsert
  <2>5. read \in [Users -> [Channels -> Messages \cup {None}]]
    BY <1>1 DEF ReadIInv, ReadTypeOK
  <2> HIDE DEF u, c, m
  <2>6. read'[u][c] = m
    BY <2>2, <2>4, <2>5
  <2>7. read[u][c] # None /\ message[read[u][c]] # None => m >= read[u][c]
    BY <2>2, <2>3, EarlierOrder
  <2> QED BY <2>6, <2>7 DEF Forward, u, c
<1>2. ReadIInv =>
        (\A k \in Readers : Upsert(k) /\ reader[k].alone =>
           Forward(reader[k].user, reader[k].channel))
  BY <1>1
<1> QED BY <1>2, AlwaysReadIInv, PTL DEF ReadSpec, AloneReadsForward
=============================================================================
