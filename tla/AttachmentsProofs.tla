-------------------------- MODULE AttachmentsProofs --------------------------
(***************************************************************************)
(* Proofs about Attachments for any Users, attachments and messages, any   *)
(* quota and any size of the Janitor's batches.                            *)
(***************************************************************************)
EXTENDS Attachments, FiniteSetTheorems, SequenceTheorems, TLAPS

\* Only deleted keys are queued, or in the hands of the Janitor.
QueueOK ==
    /\ \A a \in ToSet(deletions) \cup ToSet(batch) : row[a] = "deleted"
    /\ place = "complete" => batch # << >>

\* What is finalized, or has been found in the storage, is there while its row is.
Stored ==
    /\ \A a \in finalizing : row[a] # "none"
    /\ \A a \in Rows : row[a] = "READY" \/ a \in finalizing => a \in objects

\* Only a message of the uploader's holds an attachment.
Claims ==
    /\ \A a \in Attachments : row[a] = "none" => onMessage[a] = None
    /\ \A a \in Rows : onMessage[a] # None =>
         onMessage[a] \in spent /\ author[onMessage[a]] = owner[a]

IInv == TypeOK /\ QueueOK /\ Stored /\ Claims /\ WithinQuota

-----------------------------------------------------------------------------
(* Sequences of keys.                                                      *)

LEMMA ToSetType ==
    ASSUME NEW S, NEW s \in Seq(S)
    PROVE  /\ ToSet(s) \subseteq S
           /\ \A i \in 1..Len(s) : s[i] \in ToSet(s)
           /\ \A x \in ToSet(s) : \E i \in 1..Len(s) : x = s[i]
BY DEF ToSet

LEMMA ToSetWithin ==
    ASSUME NEW S, NEW T, NEW s \in Seq(S), \A i \in 1..Len(s) : s[i] \in T
    PROVE  ToSet(s) \subseteq T
BY DEF ToSet

LEMMA ToSetConcat ==
    ASSUME NEW S, NEW s \in Seq(S), NEW t \in Seq(S)
    PROVE  s \o t \in Seq(S) /\ ToSet(s \o t) \subseteq ToSet(s) \cup ToSet(t)
<1>1. /\ s \o t \in Seq(S) /\ Len(s \o t) = Len(s) + Len(t)
      /\ \A i \in 1..(Len(s) + Len(t)) :
           (s \o t)[i] = IF i <= Len(s) THEN s[i] ELSE t[i - Len(s)]
  OBVIOUS
<1>2. ASSUME NEW i \in 1..Len(s \o t)
      PROVE  (s \o t)[i] \in ToSet(s) \cup ToSet(t)
  <2>1. CASE i <= Len(s)
    <3>1. i \in 1..Len(s) /\ (s \o t)[i] = s[i]
      BY <1>1, <2>1
    <3>2. s[i] \in ToSet(s)
      BY <3>1 DEF ToSet
    <3> QED BY <3>1, <3>2
  <2>2. CASE i > Len(s)
    <3>1. i - Len(s) \in 1..Len(t) /\ (s \o t)[i] = t[i - Len(s)]
      BY <1>1, <2>2
    <3>2. t[i - Len(s)] \in ToSet(t)
      BY <3>1 DEF ToSet
    <3> QED BY <3>1, <3>2
  <2> QED BY <1>1, <2>1, <2>2
<1>3. ToSet(s \o t) \subseteq ToSet(s) \cup ToSet(t)
  BY <1>1, <1>2, ToSetWithin, Zenon
<1> QED BY <1>1, <1>3, Zenon

LEMMA ToSetSubSeq ==
    ASSUME NEW S, NEW s \in Seq(S), NEW m \in Int, NEW n \in Int, 1 <= m, n <= Len(s)
    PROVE  SubSeq(s, m, n) \in Seq(S) /\ ToSet(SubSeq(s, m, n)) \subseteq ToSet(s)
<1>1. /\ SubSeq(s, m, n) \in Seq(S)
      /\ Len(SubSeq(s, m, n)) = IF m <= n THEN n - m + 1 ELSE 0
      /\ \A i \in 1..(n - m + 1) : SubSeq(s, m, n)[i] = s[m + i - 1]
  OBVIOUS
<1>2. ASSUME NEW i \in 1..Len(SubSeq(s, m, n))
      PROVE  SubSeq(s, m, n)[i] \in ToSet(s)
  <2>1. i \in 1..(n - m + 1) /\ m + i - 1 \in 1..Len(s)
    BY <1>1
  <2>2. s[m + i - 1] \in ToSet(s)
    BY <2>1 DEF ToSet
  <2> QED BY <1>1, <2>1, <2>2
<1>3. ToSet(SubSeq(s, m, n)) \subseteq ToSet(s)
  BY <1>1, <1>2, ToSetWithin, Zenon
<1> QED BY <1>1, <1>3, Zenon

LEMMA ToSetRemoveAt ==
    ASSUME NEW S, NEW s \in Seq(S), NEW i \in 1..Len(s)
    PROVE  RemoveAt(s, i) \in Seq(S) /\ ToSet(RemoveAt(s, i)) \subseteq ToSet(s)
<1>1. SubSeq(s, 1, i-1) \in Seq(S) /\ ToSet(SubSeq(s, 1, i-1)) \subseteq ToSet(s)
  BY ToSetSubSeq
<1>2. SubSeq(s, i+1, Len(s)) \in Seq(S) /\ ToSet(SubSeq(s, i+1, Len(s))) \subseteq ToSet(s)
  BY ToSetSubSeq
<1> DEFINE before == SubSeq(s, 1, i-1)
           after == SubSeq(s, i+1, Len(s))
<1>3. /\ before \in Seq(S) /\ ToSet(before) \subseteq ToSet(s)
      /\ after \in Seq(S) /\ ToSet(after) \subseteq ToSet(s)
      /\ RemoveAt(s, i) = before \o after
  BY <1>1, <1>2, Zenon DEF RemoveAt
<1> HIDE DEF before, after
<1>4. before \o after \in Seq(S) /\ ToSet(before \o after) \subseteq ToSet(before) \cup ToSet(after)
  BY <1>3, ToSetConcat, Zenon
<1> QED BY <1>3, <1>4, Zenon

LEMMA ToSetTail ==
    ASSUME NEW S, NEW s \in Seq(S), s # << >>
    PROVE  Head(s) \in ToSet(s) /\ Tail(s) \in Seq(S) /\ ToSet(Tail(s)) \subseteq ToSet(s)
<1>1. /\ Head(s) = s[1] /\ 1 \in 1..Len(s) /\ Tail(s) \in Seq(S)
      /\ Len(Tail(s)) = Len(s) - 1 /\ \A i \in 1..Len(Tail(s)) : Tail(s)[i] = s[i + 1]
  OBVIOUS
<1>2. ASSUME NEW i \in 1..Len(Tail(s))
      PROVE  Tail(s)[i] \in ToSet(s)
  <2>1. i + 1 \in 1..Len(s)
    BY <1>1
  <2>2. s[i + 1] \in ToSet(s)
    BY <2>1 DEF ToSet
  <2> QED BY <1>1, <2>2
<1>3. ToSet(Tail(s)) \subseteq ToSet(s)
  BY <1>1, <1>2, ToSetWithin, Zenon
<1>4. Head(s) \in ToSet(s)
  BY <1>1 DEF ToSet
<1> QED BY <1>1, <1>3, <1>4, Zenon

\* The order in which the keys of one statement's rows are queued.
LEMMA OrderType ==
    ASSUME NEW S, IsFiniteSet(S), NEW order \in SetToSeqs(S)
    PROVE  order \in Seq(S) /\ ToSet(order) \subseteq S
<1>1. order \in [1..Cardinality(S) -> S] /\ Cardinality(S) \in Nat
  BY FS_CardinalityType DEF SetToSeqs
<1>2. order \in Seq(S)
  BY <1>1
<1> QED BY <1>2, ToSetType
-----------------------------------------------------------------------------
(* Every step keeps the invariant.                                         *)

LEMMA InitIInv == Init => IInv
<1> SUFFICES ASSUME Init PROVE IInv
  OBVIOUS
<1>1. Rows = {} /\ \A u \in Users : Unused(u) = {}
  BY DEF Init, Rows, Unused
<1>2. ToSet(deletions) = {} /\ ToSet(batch) = {}
  BY DEF Init, ToSet
<1>3. WithinQuota
  BY <1>1, FS_EmptySet, AttachmentsAssumption DEF WithinQuota
<1> QED BY <1>1, <1>2, <1>3, AttachmentsAssumption DEF Init, IInv, TypeOK, QueueOK, Stored, Claims

\* The number of unused attachments grows with a new intent only.
LEMMA FewerUnused ==
    ASSUME IInv, \A u \in Users : Unused(u)' \subseteq Unused(u)
    PROVE  WithinQuota'
<1> SUFFICES ASSUME NEW u \in Users PROVE Cardinality(Unused(u)') <= MaxUnused
  BY DEF WithinQuota
<1>1. Unused(u) \subseteq Attachments
  BY DEF Unused, Rows
<1>2. IsFiniteSet(Unused(u))
  BY <1>1, AttachmentsAssumption, FS_Subset
<1>3. Cardinality(Unused(u)) \in Nat /\ Cardinality(Unused(u)) <= MaxUnused
  BY <1>2, FS_CardinalityType DEF IInv, WithinQuota
<1>4. IsFiniteSet(Unused(u)') /\ Cardinality(Unused(u)') <= Cardinality(Unused(u))
  BY <1>2, FS_Subset
<1>5. Cardinality(Unused(u)') \in Nat
  BY <1>4, FS_CardinalityType
<1> QED BY <1>3, <1>4, <1>5, AttachmentsAssumption

\* Rows that are deleted, alone or with messages, leave the rest as it was.
LEMMA DeleteRowsIInv ==
    ASSUME IInv, NEW gone \in SUBSET Rows, DeleteRows(gone),
           UNCHANGED <<owner, onMessage, age, spent, objects, finalizing, batch>>,
           author' \in [Messages -> Users \cup {None}],
           place' = place \/ place' = "list",
           \A a \in Rows \ gone : onMessage[a] # None =>
               author'[onMessage[a]] = author[onMessage[a]]
    PROVE  IInv'
<1>1. row' = [a \in Attachments |-> IF a \in gone THEN "deleted" ELSE row[a]]
  BY DEF DeleteRows
<1>2. PICK order \in SetToSeqs(gone) : deletions' = deletions \o order
  BY DEF DeleteRows
<1>3. gone \subseteq Attachments /\ IsFiniteSet(gone)
  BY AttachmentsAssumption, FS_Subset DEF Rows
<1>4. order \in Seq(Attachments) /\ ToSet(order) \subseteq gone
  BY <1>3, OrderType, SeqMonotonic
<1>5. deletions' \in Seq(Attachments) /\ ToSet(deletions') \subseteq ToSet(deletions) \cup gone
  BY <1>2, <1>4, ToSetConcat DEF IInv, TypeOK
<1>6. Rows' = Rows \ gone
  BY <1>1 DEF Rows, IInv, TypeOK
<1>7. TypeOK'
  BY <1>1, <1>3, <1>5, AttachmentsAssumption DEF IInv, TypeOK, Rows
<1>8. QueueOK'
  BY <1>1, <1>3, <1>5, ToSetType DEF IInv, TypeOK, QueueOK
<1>12. /\ \A a \in Rows' : a \in Rows /\ a \notin gone /\ row'[a] = row[a]
       /\ \A a \in Attachments : row'[a] = "none" => row[a] = "none"
  BY <1>1, <1>6 DEF Rows
<1>13. finalizing \subseteq Attachments
  BY DEF IInv, TypeOK
<1>9. Stored'
  BY <1>12, <1>13 DEF IInv, Stored
<1>10. Claims'
  BY <1>12 DEF IInv, Claims
<1>11. WithinQuota'
  BY <1>6, FewerUnused DEF Unused
<1> QED BY <1>7, <1>8, <1>9, <1>10, <1>11 DEF IInv

LEMMA CreateIntentIInv ==
    ASSUME IInv, NEW u \in Users, NEW a \in Attachments, CreateIntent(u, a)
    PROVE  IInv'
<1> USE AttachmentsAssumption
<1>1. Rows' = Rows \cup {a} /\ a \notin Rows
  <2>1. /\ row[a] = "none" /\ row'[a] = "PENDING"
        /\ \A b \in Attachments : b # a => row'[b] = row[b]
    BY DEF CreateIntent, IInv, TypeOK
  <2> QED BY <2>1 DEF Rows
<1>2. TypeOK'
  BY DEF CreateIntent, IInv, TypeOK, janitorVars
<1>3. QueueOK'
  <2>1. UNCHANGED <<deletions, batch, place>>
    BY DEF CreateIntent, janitorVars
  <2>2. \A b \in Attachments : row[b] = "deleted" => row'[b] = "deleted"
    BY DEF CreateIntent, IInv, TypeOK
  <2>3. ToSet(deletions) \subseteq Attachments /\ ToSet(batch) \subseteq Attachments
    BY ToSetType DEF IInv, TypeOK
  <2> QED BY <2>1, <2>2, <2>3 DEF IInv, QueueOK
<1>4. Stored' /\ Claims'
  <2>1. /\ \A b \in Rows : row'[b] = row[b] /\ owner'[b] = owner[b]
        /\ row'[a] = "PENDING" /\ onMessage[a] = None /\ a \notin finalizing
        /\ \A b \in Attachments : row'[b] = "none" => row[b] = "none"
        /\ finalizing \subseteq Attachments
        /\ UNCHANGED <<onMessage, author, spent, objects, finalizing>>
    BY DEF CreateIntent, IInv, TypeOK, Stored, Claims, Rows
  <2> QED BY <1>1, <2>1 DEF IInv, Stored, Claims
<1>5. WithinQuota'
  <2> SUFFICES ASSUME NEW v \in Users PROVE Cardinality(Unused(v)') <= MaxUnused
    BY DEF WithinQuota
  <2>1. Unused(v) \subseteq Attachments /\ IsFiniteSet(Unused(v))
    <3>1. Unused(v) \subseteq Attachments
      BY DEF Unused, Rows
    <3> QED BY <3>1, FS_Subset
  <2>2. Cardinality(Unused(v)) \in Nat /\ Cardinality(Unused(v)) <= MaxUnused
    BY <2>1, FS_CardinalityType DEF IInv, WithinQuota
  <2>3. CASE v = u
    <3>1. Unused(v)' = Unused(v) \cup {a} /\ a \notin Unused(v)
      BY <1>1, <2>3 DEF CreateIntent, Unused, IInv, TypeOK, Claims, Rows
    <3>2. Cardinality(Unused(v)') = Cardinality(Unused(v)) + 1
      BY <2>1, <3>1, FS_AddElement
    <3>3. ~ (Cardinality(Unused(v)) >= MaxUnused)
      BY <2>3 DEF CreateIntent, QuotaReached
    <3> QED BY <2>2, <3>2, <3>3
  <2>4. CASE v # u
    <3>1. Unused(v)' = Unused(v)
      BY <1>1, <2>4 DEF CreateIntent, Unused, IInv, TypeOK, Rows
    <3> QED BY <2>2, <3>1
  <2> QED BY <2>3, <2>4
<1> QED BY <1>2, <1>3, <1>4, <1>5 DEF IInv

\* An upload, its finalization and the clock.
LEMMA UploadIInv ==
    ASSUME IInv, NEW a \in Attachments,
           Put(a) \/ FinalizeStat(a) \/ FinalizeMark(a) \/ Tick(a)
    PROVE  IInv'
<1> USE AttachmentsAssumption
<1>1. Rows' = Rows
  BY DEF Put, FinalizeStat, FinalizeMark, Tick, Rows, IInv, TypeOK
<1>2. TypeOK'
  <2>1. CASE Put(a) \/ FinalizeStat(a)
    BY <2>1 DEF Put, FinalizeStat, IInv, TypeOK, janitorVars
  <2>2. CASE FinalizeMark(a)
    BY <2>2 DEF FinalizeMark, IInv, TypeOK, janitorVars, Rows
  <2>3. CASE Tick(a)
    BY <2>3 DEF Tick, Later, IInv, TypeOK, janitorVars
  <2> QED BY <2>1, <2>2, <2>3
<1>3. QueueOK'
  <2>1. UNCHANGED <<deletions, batch, place>>
    BY DEF Put, FinalizeStat, FinalizeMark, Tick, janitorVars
  <2>2. \A b \in Attachments : row[b] = "deleted" => row'[b] = "deleted"
    BY DEF Put, FinalizeStat, FinalizeMark, Tick, IInv, TypeOK, Rows
  <2>3. ToSet(deletions) \subseteq Attachments /\ ToSet(batch) \subseteq Attachments
    BY ToSetType DEF IInv, TypeOK
  <2> QED BY <2>1, <2>2, <2>3 DEF IInv, QueueOK
<1>4. Stored'
  BY <1>1 DEF Put, FinalizeStat, FinalizeMark, Tick, IInv, TypeOK, Stored, Rows
<1>5. Claims'
  BY <1>1 DEF Put, FinalizeStat, FinalizeMark, Tick, IInv, TypeOK, Claims, Rows
<1>6. UNCHANGED <<owner, onMessage>>
  BY DEF Put, FinalizeStat, FinalizeMark, Tick
<1>7. WithinQuota'
  BY <1>1, <1>6, FewerUnused DEF Unused
<1> QED BY <1>2, <1>3, <1>4, <1>5, <1>7 DEF IInv

LEMMA CreateMessageIInv ==
    ASSUME IInv, NEW u \in Users, NEW m \in Messages, NEW claimed \in SUBSET Attachments,
           CreateMessage(u, m, claimed)
    PROVE  IInv'
<1> USE AttachmentsAssumption
<1>1. Rows' = Rows
  BY DEF CreateMessage, Rows
<1>2. TypeOK' /\ QueueOK' /\ Stored'
  BY <1>1 DEF CreateMessage, IInv, TypeOK, QueueOK, Stored, janitorVars
<1>3. Claims'
  BY <1>1 DEF CreateMessage, Claimable, IInv, TypeOK, Claims, Rows
<1>4. WithinQuota'
  BY <1>1, FewerUnused DEF CreateMessage, Unused, Rows
<1> QED BY <1>2, <1>3, <1>4 DEF IInv

LEMMA DeletionIInv ==
    ASSUME IInv,
           \/ \E u \in Users, a \in Attachments : DeleteAttachment(u, a)
           \/ \E m \in Messages : DeleteMessage(m)
           \/ DeleteChannel
           \/ ExpireAttachments
    PROVE  IInv'
<1> USE AttachmentsAssumption
<1>1. ASSUME NEW u \in Users, NEW a \in Attachments, DeleteAttachment(u, a)
      PROVE  IInv'
  <2>1. {a} \subseteq Rows
    BY <1>1 DEF DeleteAttachment, Unused
  <2> QED BY <1>1, <2>1, DeleteRowsIInv DEF DeleteAttachment, IInv, TypeOK, janitorVars
<1>2. ASSUME NEW m \in Messages, DeleteMessage(m)
      PROVE  IInv'
  <2> DEFINE gone == {a \in Rows : onMessage[a] = m}
  <2>1. author' = [author EXCEPT ![m] = None] /\ author' \in [Messages -> Users \cup {None}]
    BY <1>2 DEF DeleteMessage, IInv, TypeOK
  <2>2. /\ DeleteRows(gone)
        /\ UNCHANGED <<owner, onMessage, age, spent, objects, finalizing, batch, place>>
    BY <1>2 DEF DeleteMessage, janitorVars
  <2>3. \A a \in Rows \ gone : onMessage[a] # None =>
            author'[onMessage[a]] = author[onMessage[a]]
    BY <2>1 DEF IInv, TypeOK, Rows
  <2> HIDE DEF gone
  <2>5. gone \in SUBSET Rows
    BY DEF gone
  <2> QED BY <2>1, <2>2, <2>3, <2>5, DeleteRowsIInv
<1>3. ASSUME DeleteChannel
      PROVE  IInv'
  BY <1>3, DeleteRowsIInv DEF DeleteChannel, IInv, TypeOK, janitorVars
<1>4. ASSUME ExpireAttachments
      PROVE  IInv'
  <2> DEFINE gone == {a \in Rows : Expired(a)}
  <2>1. /\ DeleteRows(gone) /\ place' = "list"
        /\ UNCHANGED <<owner, onMessage, age, author, spent, objects, finalizing, batch>>
    BY <1>4 DEF ExpireAttachments
  <2>2. author' \in [Messages -> Users \cup {None}]
    BY <2>1 DEF IInv, TypeOK
  <2> HIDE DEF gone
  <2>3. gone \in SUBSET Rows
    BY DEF gone
  <2> QED BY <2>1, <2>2, <2>3, DeleteRowsIInv
<1> QED BY <1>1, <1>2, <1>3, <1>4

\* The steps of the Janitor that delete no row, and a restart.
LEMMA JanitorIInv ==
    ASSUME IInv,
           \/ ExpireFails \/ ListDeletions \/ EndOfPass \/ DeleteFails \/ Restart
           \/ \E key \in Attachments : DeleteObject(key) \/ CompleteDeletion(key)
    PROVE  IInv'
<1> USE AttachmentsAssumption
<1>1. UNCHANGED <<row, owner, onMessage, age, author, spent>>
  BY DEF ExpireFails, ListDeletions, EndOfPass, DeleteFails, Restart, DeleteObject, CompleteDeletion
<1>2. Rows' = Rows /\ \A u \in Users : Unused(u)' = Unused(u)
  BY <1>1 DEF Rows, Unused
<1>3. /\ deletions' \in Seq(Attachments) /\ batch' \in Seq(Attachments)
      /\ ToSet(deletions') \subseteq ToSet(deletions)
      /\ ToSet(batch') \subseteq ToSet(deletions) \cup ToSet(batch)
  <2>1. deletions \in Seq(Attachments) /\ batch \in Seq(Attachments)
    BY DEF IInv, TypeOK
  <2>2. CASE ExpireFails \/ EndOfPass \/ \E key \in Attachments : DeleteObject(key)
    BY <2>1, <2>2 DEF ExpireFails, EndOfPass, DeleteObject
  <2>3. CASE ListDeletions
    <3> DEFINE n == IF Len(deletions) < BatchSize THEN Len(deletions) ELSE BatchSize
    <3>1. n \in Int /\ n <= Len(deletions) /\ batch' = SubSeq(deletions, 1, n)
      BY <2>1, <2>3 DEF ListDeletions
    <3> QED BY <2>1, <2>3, <3>1, ToSetSubSeq DEF ListDeletions
  <2>4. CASE DeleteFails
    BY <2>1, <2>4, ToSetTail DEF DeleteFails
  <2>5. CASE Restart
    BY <2>1, <2>5 DEF Restart, ToSet
  <2>6. CASE \E key \in Attachments : CompleteDeletion(key)
    <3>1. PICK key \in Attachments : CompleteDeletion(key)
      BY <2>6
    <3>2. PICK i \in 1..Len(deletions) : deletions' = RemoveAt(deletions, i)
      BY <2>1, <3>1 DEF CompleteDeletion
    <3>3. batch' = Tail(batch)
      BY <3>1 DEF CompleteDeletion
    <3>4. deletions' \in Seq(Attachments) /\ ToSet(deletions') \subseteq ToSet(deletions)
      BY <2>1, <3>2, ToSetRemoveAt
    <3>5. batch # << >>
      BY <3>1 DEF CompleteDeletion, IInv, QueueOK
    <3> QED BY <2>1, <3>3, <3>4, <3>5, ToSetTail
  <2> QED BY <2>2, <2>3, <2>4, <2>5, <2>6
<1>4. TypeOK' /\ finalizing' \subseteq finalizing
  BY <1>1, <1>3 DEF IInv, TypeOK, ExpireFails, ListDeletions, EndOfPass, DeleteFails, Restart,
     DeleteObject, CompleteDeletion
<1>5. QueueOK'
  BY <1>1, <1>3 DEF IInv, QueueOK, ExpireFails, ListDeletions, EndOfPass, DeleteFails, Restart,
     DeleteObject, CompleteDeletion
<1>6. ASSUME NEW a \in objects, a \notin objects'
      PROVE  a \notin Rows
  <2>1. PICK key \in Attachments : DeleteObject(key)
    BY <1>6 DEF ExpireFails, ListDeletions, EndOfPass, DeleteFails, Restart, CompleteDeletion
  <2>2. a = Head(batch) /\ batch # << >>
    BY <1>6, <2>1 DEF DeleteObject
  <2>3. a \in ToSet(batch)
    BY <2>2, ToSetTail DEF IInv, TypeOK
  <2> QED BY <2>3 DEF IInv, QueueOK, Rows
<1>7. Stored' /\ Claims'
  BY <1>1, <1>2, <1>4, <1>6 DEF IInv, Stored, Claims, Rows
<1>8. WithinQuota'
  BY <1>2, FewerUnused
<1> QED BY <1>4, <1>5, <1>7, <1>8 DEF IInv

LEMMA NextIInv == IInv /\ [Next]_vars => IInv'
<1> SUFFICES ASSUME IInv, [Next]_vars PROVE IInv'
  OBVIOUS
<1>1. CASE UNCHANGED vars
  BY <1>1 DEF vars, janitorVars, IInv, TypeOK, QueueOK, Stored, Claims, WithinQuota, Rows, Unused
<1>2. CASE Next
  BY <1>2, CreateIntentIInv, UploadIInv, CreateMessageIInv, DeletionIInv, JanitorIInv DEF Next
<1> QED BY <1>1, <1>2

\* The invariant holds throughout.
LEMMA AlwaysIInv == Spec => []IInv
BY InitIInv, NextIInv, PTL DEF Spec
-----------------------------------------------------------------------------
(* Theorems.                                                               *)

\* Every variable keeps its type.
THEOREM TypeCorrect == Spec => []TypeOK
<1>1. IInv => TypeOK
  BY DEF IInv
<1> QED BY <1>1, AlwaysIInv, PTL

\* The Object of a READY attachment exists, whatever overlaps its finalization and
\* wherever the Janitor stops (FinalizeAttachment, Sweep).
THEOREM ReadyIsStored == Spec => []ReadyHasObject
<1>1. IInv => ReadyHasObject
  BY DEF IInv, Stored, Rows, ReadyHasObject
<1> QED BY <1>1, AlwaysIInv, PTL

\* No row's key is in the deletion queue or in the Janitor's hands (Sweep, the
\* trigger attachments_enqueue_deletion).
THEOREM QueuedAreDeleted == Spec => []OnlyTheDeletedAreQueued
<1>1. IInv => OnlyTheDeletedAreQueued
  BY DEF IInv, QueueOK, Rows, OnlyTheDeletedAreQueued
<1> QED BY <1>1, AlwaysIInv, PTL

\* For every quota, no User has more unused attachments (CreateAttachment).
THEOREM QuotaHolds == Spec => []WithinQuota
<1>1. IInv => WithinQuota
  BY DEF IInv
<1> QED BY <1>1, AlwaysIInv, PTL

\* An attachment stays on its message, which is its uploader's, until the message is
\* deleted (CreateMessage, DeleteAttachment, ExpireAttachments).
THEOREM MessagesKeepTheirs == Spec => MessageKeepsAttachments
<1> DEFINE Keeps(a) == onMessage[a] # None =>
             /\ author[onMessage[a]] = owner[a]
             /\ onMessage'[a] = onMessage[a]
             /\ a \in Rows' \/ author'[onMessage[a]] = None
<1>1. IInv /\ [Next]_vars => [\A a \in Rows : Keeps(a)]_vars
  <2> SUFFICES ASSUME IInv, Next, NEW a \in Rows, onMessage[a] # None
               PROVE  /\ author[onMessage[a]] = owner[a]
                      /\ onMessage'[a] = onMessage[a]
                      /\ a \in Rows' \/ author'[onMessage[a]] = None
    OBVIOUS
  <2> USE AttachmentsAssumption
  <2>1. author[onMessage[a]] = owner[a] /\ a \in Attachments
    BY DEF IInv, Claims, Rows
  <2>2. ASSUME UNCHANGED <<row, onMessage>>
        PROVE  onMessage'[a] = onMessage[a] /\ a \in Rows'
    BY <2>2 DEF Rows
  <2>3. ASSUME NEW gone, DeleteRows(gone), UNCHANGED onMessage, a \notin gone
        PROVE  onMessage'[a] = onMessage[a] /\ a \in Rows'
    BY <2>1, <2>3 DEF DeleteRows, Rows, IInv, TypeOK
  <2>4. ASSUME NEW u \in Users, NEW b \in Attachments, CreateIntent(u, b)
        PROVE  onMessage'[a] = onMessage[a] /\ a \in Rows'
    BY <2>1, <2>4 DEF CreateIntent, Rows, IInv, TypeOK
  <2>5. ASSUME NEW u \in Users, NEW b \in Attachments, DeleteAttachment(u, b)
        PROVE  onMessage'[a] = onMessage[a] /\ a \in Rows'
    BY <2>3, <2>5 DEF DeleteAttachment, Unused
  <2>6. ASSUME NEW b \in Attachments, Put(b) \/ FinalizeStat(b) \/ FinalizeMark(b) \/ Tick(b)
        PROVE  onMessage'[a] = onMessage[a] /\ a \in Rows'
    BY <2>1, <2>6 DEF Put, FinalizeStat, FinalizeMark, Tick, Rows, IInv, TypeOK
  <2>7. ASSUME NEW u \in Users, NEW m \in Messages, NEW claimed \in SUBSET Attachments,
               CreateMessage(u, m, claimed)
        PROVE  onMessage'[a] = onMessage[a] /\ a \in Rows'
    BY <2>1, <2>7 DEF CreateMessage, Claimable, Rows
  <2>8. ASSUME NEW m \in Messages, DeleteMessage(m)
        PROVE  onMessage'[a] = onMessage[a] /\ (a \in Rows' \/ author'[onMessage[a]] = None)
    <3>1. CASE onMessage[a] = m
      BY <2>8, <3>1 DEF DeleteMessage, IInv, TypeOK
    <3>2. CASE onMessage[a] # m
      BY <2>3, <2>8, <3>2 DEF DeleteMessage
    <3> QED BY <3>1, <3>2
  <2>9. ASSUME DeleteChannel
        PROVE  onMessage'[a] = onMessage[a] /\ author'[onMessage[a]] = None
    BY <2>1, <2>9 DEF DeleteChannel, IInv, TypeOK
  <2>10. ASSUME ExpireAttachments
         PROVE  onMessage'[a] = onMessage[a] /\ a \in Rows'
    BY <2>3, <2>10 DEF ExpireAttachments, Expired
  <2>11. ASSUME \/ ExpireFails \/ ListDeletions \/ EndOfPass \/ DeleteFails \/ Restart
                \/ \E key \in Attachments : DeleteObject(key) \/ CompleteDeletion(key)
         PROVE  onMessage'[a] = onMessage[a] /\ a \in Rows'
    BY <2>2, <2>11 DEF ExpireFails, ListDeletions, EndOfPass, DeleteFails, Restart, DeleteObject,
       CompleteDeletion
  <2> QED BY <2>1, <2>4, <2>5, <2>6, <2>7, <2>8, <2>9, <2>10, <2>11 DEF Next
<1> QED BY <1>1, AlwaysIInv, PTL DEF Spec, MessageKeepsAttachments
=============================================================================
