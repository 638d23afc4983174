------------------------------ MODULE ReadStates ------------------------------
(***************************************************************************)
(* How far each User has read each Channel (internal/chat/readstate.go and *)
(* its Postgres store), on top of the Channels and Messages, which come    *)
(* and go meanwhile.                                                       *)
(*                                                                         *)
(* UpdateReadState is one transaction of three statements under READ       *)
(* COMMITTED: it looks for the Message, locks the read state if there is   *)
(* one, and writes it if the Message is newer.                             *)
(***************************************************************************)
EXTENDS Channels

CONSTANTS
    Readers,            \* handlers of UpdateReadState that may run at the same time
    MaxReads            \* bound of the model on the updates of a behaviour

ASSUME ReadsAssumption == MaxReads \in Nat

VARIABLES
    read,         \* read_states: the Message up to which a User has read a Channel
    reader,       \* the handlers
    reads         \* how many there were

readVars == <<read, reader, reads>>

Resting == [at |-> "resting", user |-> None, channel |-> None, message |-> None,
            found |-> None, behind |-> FALSE, locked |-> FALSE, alone |-> TRUE]

ReadInit ==
    /\ Init
    /\ read = [u \in Users |-> [c \in Channels |-> None]]
    /\ reader = [k \in Readers |-> Resting]
    /\ reads = 0

Same(j, k) == reader[j].user = reader[k].user /\ reader[j].channel = reader[k].channel
Locked(u, c) == \E k \in Readers : reader[k].locked /\ reader[k].user = u /\ reader[k].channel = c

\* The Message is in the Channel.
UpdateReadState(k, u, m) ==
    /\ reader[k] = Resting
    /\ reads < MaxReads
    /\ message[m] # None
    /\ channel[message[m]].pair # {} => u \in channel[message[m]].pair
    /\ reader' = [reader EXCEPT ![k] = [Resting EXCEPT !.at = "lock", !.user = u,
                                                       !.channel = message[m], !.message = m]]
    /\ reads' = reads + 1
    /\ UNCHANGED <<vars, read>>

\* The position found is compared as long as its Message is there.
BehindSwapped(m, found) == found # None /\ message[found] # None /\ found <= m
Behind(m, found) == found # None /\ message[found] # None /\ m <= found

\* SELECT ... FOR UPDATE: without a row there is nothing to lock.
FindNothing(k) ==
    /\ reader[k].at = "lock"
    /\ read[reader[k].user][reader[k].channel] = None
    /\ reader' = [reader EXCEPT ![k].at = "upsert"]
    /\ UNCHANGED <<vars, read, reads>>
LockRow(k) ==
    LET found == read[reader[k].user][reader[k].channel]
    IN  /\ reader[k].at = "lock"
        /\ found # None
        /\ ~ Locked(reader[k].user, reader[k].channel)
        /\ reader' = [reader EXCEPT ![k] = IF Behind(reader[k].message, found) THEN Resting
                                           ELSE [@ EXCEPT !.at = "upsert", !.locked = TRUE]]
        /\ UNCHANGED <<vars, read, reads>>

\* While another transaction has locked the row the statement waits.  If the row is
\* another one afterwards, Postgres joins the new row with the Message of the old
\* one: they do not match, the position found has no time and is not compared.
WaitForRow(k) ==
    LET found == read[reader[k].user][reader[k].channel]
    IN  /\ reader[k].at = "lock"
        /\ found # None
        /\ Locked(reader[k].user, reader[k].channel)
        /\ reader' = [reader EXCEPT ![k].at = "wait", ![k].found = found,
                                     ![k].behind = Behind(reader[k].message, found)]
        /\ UNCHANGED <<vars, read, reads>>
GetRow(k) ==
    LET now == read[reader[k].user][reader[k].channel]
    IN  /\ reader[k].at = "wait"
        /\ ~ Locked(reader[k].user, reader[k].channel)
        /\ reader' = [reader EXCEPT ![k] =
             IF now = reader[k].found /\ reader[k].behind THEN Resting
             ELSE [@ EXCEPT !.at = "upsert", !.locked = now # None]]
        /\ UNCHANGED <<vars, read, reads>>

\* INSERT ... ON CONFLICT DO UPDATE, which waits for a locked row, and COMMIT.  An
\* update of the same position that is under way is not alone any more.
Upsert(k) ==
    LET u == reader[k].user
        c == reader[k].channel
    IN  /\ reader[k].at = "upsert"
        /\ channel[c] # None
        /\ reader[k].locked \/ ~ Locked(u, c)
        /\ read' = [read EXCEPT ![u][c] = reader[k].message]
        /\ reader' = [j \in Readers |-> IF j = k THEN Resting
                                        ELSE IF Same(j, k) THEN [reader[j] EXCEPT !.alone = FALSE]
                                        ELSE reader[j]]
        /\ UNCHANGED <<vars, reads>>

\* A statement fails and the transaction is rolled back.
ReadFails(k) ==
    /\ reader[k] # Resting
    /\ reader' = [reader EXCEPT ![k] = Resting]
    /\ UNCHANGED <<vars, read, reads>>

\* The read states of a Channel go with it (ON DELETE CASCADE), as soon as nobody
\* has locked them.
ChannelStep ==
    /\ Next
    /\ \A u \in Users, c \in Channels : Locked(u, c) => channel'[c] # None
    /\ read' = [u \in Users |-> [c \in Channels |-> IF channel'[c] = None THEN None ELSE read[u][c]]]
    /\ UNCHANGED <<reader, reads>>

ReadNext ==
    \/ ChannelStep
    \/ \E k \in Readers, u \in Users, m \in Messages : UpdateReadState(k, u, m)
    \/ \E k \in Readers : FindNothing(k) \/ LockRow(k) \/ WaitForRow(k) \/ GetRow(k)
                            \/ Upsert(k) \/ ReadFails(k)

ReadSpec == ReadInit /\ [][ReadNext]_<<vars, readVars>>
-----------------------------------------------------------------------------
(* Properties.                                                             *)

ReadPlaces == {"resting", "lock", "wait", "upsert"}
TypeOK ==
    /\ ChannelsTypeOK
    /\ read \in [Users -> [Channels -> Messages \cup {None}]]
    /\ reader \in [Readers -> [at : ReadPlaces, user : Users \cup {None},
                               channel : Channels \cup {None}, message : Messages \cup {None},
                               found : Messages \cup {None}, behind : BOOLEAN, locked : BOOLEAN,
                               alone : BOOLEAN]]
    /\ reads \in 0..MaxReads

Forward(u, c) ==
    LET old == read[u][c]
        new == read'[u][c]
    IN  old # None /\ new # None /\ message[old] # None => new >= old

\* An update of a position that no other update has written meanwhile moves it
\* forward, unless its Message has been deleted; whatever becomes of the
\* Channel and its Messages (UpdateReadState).
AloneReadsForward ==
    [][\A k \in Readers : Upsert(k) /\ reader[k].alone =>
         Forward(reader[k].user, reader[k].channel)]_<<vars, readVars>>

\* README, read positions and search: the position never moves backward.
ReadsForward ==
    [][\A u \in Users, c \in Channels : Forward(u, c)]_<<vars, readVars>>
=============================================================================
