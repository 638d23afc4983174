-------------------------- MODULE GatewayHubProofs --------------------------
(***************************************************************************)
(* Proofs about GatewayHub for any number of Users, Sessions, connections, *)
(* any buffer size and any limits.                                         *)
(***************************************************************************)
EXTENDS GatewayHub, SequenceTheorems, FiniteSetTheorems, TLAPS

(***************************************************************************)
(* What a queue q holds for a peer at position p of a stream that stands   *)
(* at sequence top and has dispatched the payloads lg.                     *)
(***************************************************************************)
QueueOK(q, p, top, lg) ==
    /\ \A i \in DOMAIN q : IsDispatch(q[i]) =>
         /\ p < q[i].seq
         /\ q[i].seq <= top
         /\ q[i].payload = lg[q[i].seq + 1]
         /\ \A n \in (p + 1)..q[i].seq : \E j \in 1..i : q[j].seq = n
    /\ \A i, j \in DOMAIN q :
         IsDispatch(q[i]) /\ IsDispatch(q[j]) /\ i < j => q[i].seq < q[j].seq

Complete(q, p, top) ==
    \A n \in (p + 1)..top : \E i \in DOMAIN q : q[i].seq = n

\* Client and Session point at each other, and the retention clock runs exactly
\* while nobody is attached.
AttachInv ==
    \A s \in Sessions :
        /\ client[s] # None =>
             /\ s \in live
             /\ bound[client[s]] = s
             /\ phase[client[s]] \in {"serving", "returning"}
             /\ disconnectedAt[s] = "nil"
        /\ s \in live /\ client[s] = None => disconnectedAt[s] # "nil"

\* A connection is bound exactly while ServeHTTP is past IDENTIFY or RESUME.
ConnInv ==
    \A c \in Conns :
        /\ bound[c] # None => bound[c] \in issued /\ phase[c] \in {"serving", "returning"}
        /\ bound[c] = None =>
             /\ phase[c] \in {"free", "greeted"}
             /\ pos[c] = -1
             /\ got[c] = "CONTROL"
             /\ \A i \in DOMAIN queue[c] : ~ IsDispatch(queue[c][i])
        /\ phase[c] = "free" => c \notin writing
        /\ pos[c] >= 0 => pos[c] <= sequence[bound[c]]

\* The strengthening of WritesInOrder that is inductive.
StreamInv ==
    \A c \in Conns :
        bound[c] # None /\ c \in writing =>
            /\ QueueOK(queue[c], pos[c], sequence[bound[c]], log[bound[c]])
            /\ client[bound[c]] = c => Complete(queue[c], pos[c], sequence[bound[c]])

\* A Session that was never issued has dispatched nothing and lost no connection.
FreshInv == \A s \in Sessions \ issued : disconnectedAt[s] = "nil" /\ log[s] = << >>

IInv ==
    /\ TypeOK
    /\ AttachInv
    /\ ConnInv
    /\ BufferIsWindow
    /\ StreamInv
    /\ FreshInv

-----------------------------------------------------------------------------
(* Lemmas about queues.                                                    *)

Item == Event \cup {Control}

\* Every item of a queue has a sequence number; the control messages have -1.
LEMMA ItemSeq == \A m \in Item : m.seq \in Int /\ m.seq >= -1
BY DEF Item, Event, Control

\* An item that is not a control message is an event.
LEMMA DispatchItem == \A m \in Item : IsDispatch(m) => m \in Event
BY DEF Item, Event, Control, IsDispatch

\* Dispatching to an attached connection keeps its queue in order and complete.
LEMMA AppendDispatch ==
    ASSUME NEW q \in Seq(Item), NEW p \in Nat \cup {-1}, NEW top \in Nat \cup {-1},
           NEW lg \in Seq(Payloads), Len(lg) = top + 1,
           NEW x \in Payloads, NEW e \in Event, e.seq = top + 1, e.payload = x,
           QueueOK(q, p, top, lg), Complete(q, p, top), p <= top
    PROVE  /\ QueueOK(Append(q, e), p, top + 1, Append(lg, x))
           /\ Complete(Append(q, e), p, top + 1)
<1> DEFINE r == Append(q, e)
<1>1. e \in Item
  BY DEF Item
<1>2. /\ r \in Seq(Item)
      /\ Len(r) = Len(q) + 1
      /\ \A i \in 1..Len(q) : r[i] = q[i]
      /\ r[Len(q) + 1] = e
      /\ DOMAIN r = 1..(Len(q) + 1)
      /\ DOMAIN q = 1..Len(q)
      /\ Len(q) \in Nat
  BY <1>1, AppendProperties, LenProperties
<1>3. \A n \in 1..(top + 1) : Append(lg, x)[n] = lg[n]
  BY AppendProperties
<1>4. Append(lg, x)[top + 2] = x
  BY AppendProperties
<1>5. Complete(r, p, top + 1)
  <2> SUFFICES ASSUME NEW n \in (p + 1)..(top + 1)
               PROVE  \E i \in DOMAIN r : r[i].seq = n
    BY DEF Complete
  <2>1. CASE n = top + 1
    BY <2>1, <1>2
  <2>2. CASE n <= top
    <3>1. n \in (p + 1)..top
      BY <2>2
    <3>2. PICK i \in DOMAIN q : q[i].seq = n
      BY <3>1 DEF Complete
    <3> QED
      BY <3>2, <1>2
  <2> QED
    BY <2>1, <2>2
<1>6. ASSUME NEW i \in DOMAIN r, IsDispatch(r[i])
      PROVE  /\ p < r[i].seq
             /\ r[i].seq <= top + 1
             /\ r[i].payload = Append(lg, x)[r[i].seq + 1]
             /\ \A n \in (p + 1)..r[i].seq : \E j \in 1..i : r[j].seq = n
  <2>1. CASE i = Len(q) + 1
    <3>1. r[i] = e
      BY <2>1, <1>2
    <3>2. \A n \in (p + 1)..(top + 1) : \E j \in 1..i : r[j].seq = n
      BY <2>1, <1>2, <1>5 DEF Complete
    <3>3. r[i].seq = top + 1 /\ r[i].seq + 1 = top + 2 /\ p < top + 1
      BY <3>1
    <3> QED
      BY <3>1, <3>2, <3>3, <1>4
  <2>2. CASE i \in 1..Len(q)
    <3>1. r[i] = q[i]
      BY <2>2, <1>2
    <3>2. /\ p < q[i].seq
          /\ q[i].seq <= top
          /\ q[i].payload = lg[q[i].seq + 1]
          /\ \A n \in (p + 1)..q[i].seq : \E j \in 1..i : q[j].seq = n
      BY <2>2, <3>1, <1>2, <1>6 DEF QueueOK
    <3>3. q[i] \in Item
      BY <2>2, ElementOfSeq
    <3>4. q[i].seq \in 0..top
      BY <3>1, <3>2, <3>3, <1>6, ItemSeq DEF IsDispatch
    <3>5. Append(lg, x)[q[i].seq + 1] = lg[q[i].seq + 1]
      BY <3>4, <1>3
    <3>6. \A j \in 1..i : r[j] = q[j]
      BY <2>2, <1>2
    <3> QED
      BY <3>1, <3>2, <3>4, <3>5, <3>6
  <2>3. i \in 1..Len(q) \/ i = Len(q) + 1
    BY <1>2
  <2> QED
    BY <2>1, <2>2, <2>3
<1>7. ASSUME NEW i \in DOMAIN r, NEW j \in DOMAIN r,
             IsDispatch(r[i]), IsDispatch(r[j]), i < j
      PROVE  r[i].seq < r[j].seq
  <2>1. i \in 1..Len(q) /\ r[i] = q[i]
    BY <1>2, <1>7
  <2>2. q[i].seq <= top /\ q[i].seq \in Int
    BY <2>1, <1>2, <1>7, ElementOfSeq, ItemSeq DEF QueueOK
  <2>3. CASE j = Len(q) + 1
    BY <2>1, <2>2, <2>3, <1>2
  <2>4. CASE j \in 1..Len(q)
    BY <2>1, <2>4, <1>2, <1>7 DEF QueueOK
  <2> QED
    BY <2>3, <2>4, <1>2
<1> QED
  BY <1>5, <1>6, <1>7 DEF QueueOK

\* HELLO and HEARTBEAT_ACK change nothing for the stream.
LEMMA AppendControl ==
    ASSUME NEW q \in Seq(Item), NEW p \in Nat \cup {-1}, NEW top \in Nat, NEW lg,
           QueueOK(q, p, top, lg)
    PROVE  /\ QueueOK(Append(q, Control), p, top, lg)
           /\ Complete(q, p, top) => Complete(Append(q, Control), p, top)
<1> DEFINE r == Append(q, Control)
<1>1. /\ Len(r) = Len(q) + 1
      /\ \A i \in 1..Len(q) : r[i] = q[i]
      /\ r[Len(q) + 1] = Control
      /\ DOMAIN r = 1..(Len(q) + 1)
      /\ DOMAIN q = 1..Len(q)
      /\ Len(q) \in Nat
  BY AppendProperties, LenProperties DEF Item
<1>2. \A i \in DOMAIN r : IsDispatch(r[i]) => i \in DOMAIN q /\ r[i] = q[i]
  BY <1>1 DEF IsDispatch, Control
<1>3. ASSUME NEW i \in DOMAIN r, IsDispatch(r[i])
      PROVE  /\ p < r[i].seq
             /\ r[i].seq <= top
             /\ r[i].payload = lg[r[i].seq + 1]
             /\ \A n \in (p + 1)..r[i].seq : \E j \in 1..i : r[j].seq = n
  <2>1. i \in DOMAIN q /\ r[i] = q[i] /\ IsDispatch(q[i])
    BY <1>2, <1>3
  <2>2. \A j \in 1..i : r[j] = q[j]
    BY <2>1, <1>1
  <2> QED
    BY <2>1, <2>2 DEF QueueOK
<1>4. QueueOK(r, p, top, lg)
  BY <1>2, <1>3 DEF QueueOK
<1>5. Complete(q, p, top) => Complete(r, p, top)
  BY <1>1 DEF Complete
<1> QED
  BY <1>4, <1>5

\* An event that does not reach a connection leaves what it still holds in order.
LEMMA LogGrows ==
    ASSUME NEW q \in Seq(Item), NEW p \in Nat \cup {-1}, NEW top \in Nat,
           NEW lg \in Seq(Payloads), Len(lg) = top + 1, NEW x \in Payloads,
           QueueOK(q, p, top, lg)
    PROVE  QueueOK(q, p, top + 1, Append(lg, x))
<1>1. \A n \in 1..(top + 1) : Append(lg, x)[n] = lg[n]
  BY AppendProperties
<1>2. ASSUME NEW i \in DOMAIN q, IsDispatch(q[i])
      PROVE  /\ q[i].seq <= top + 1
             /\ q[i].payload = Append(lg, x)[q[i].seq + 1]
  <2>1. q[i].seq \in 0..top
    BY <1>2, LenProperties, ElementOfSeq, ItemSeq DEF QueueOK, IsDispatch
  <2> QED
    BY <2>1, <1>1, <1>2 DEF QueueOK
<1> QED
  BY <1>2 DEF QueueOK

\* The next dispatch in an ordered queue is the one after the position.
LEMMA HeadIsNext ==
    ASSUME NEW q \in Seq(Item), q # << >>, NEW p \in Nat \cup {-1}, NEW top \in Nat,
           NEW lg, QueueOK(q, p, top, lg), IsDispatch(Head(q))
    PROVE  /\ Head(q).seq = p + 1
           /\ Head(q).payload = lg[p + 2]
           /\ p + 1 <= top
<1>1. 1 \in DOMAIN q /\ Head(q) = q[1] /\ q[1] \in Item
  BY LenProperties, EmptySeq, HeadTailProperties
<1>2. /\ p < q[1].seq
      /\ q[1].seq <= top
      /\ q[1].payload = lg[q[1].seq + 1]
      /\ \A n \in (p + 1)..q[1].seq : \E j \in 1..1 : q[j].seq = n
  BY <1>1 DEF QueueOK
<1>3. q[1].seq \in Int
  BY <1>1, ItemSeq
<1>4. \E j \in 1..1 : q[j].seq = p + 1
  BY <1>2, <1>3
<1>5. q[1].seq = p + 1
  BY <1>4
<1> QED
  BY <1>1, <1>2, <1>5

\* Writing the head keeps the rest in order for the position it moves to.
LEMMA TailStays ==
    ASSUME NEW q \in Seq(Item), q # << >>, NEW p \in Nat \cup {-1}, NEW top \in Nat,
           NEW lg, QueueOK(q, p, top, lg), NEW p2,
           p2 = IF IsDispatch(Head(q)) THEN Head(q).seq ELSE p
    PROVE  /\ QueueOK(Tail(q), p2, top, lg)
           /\ Complete(q, p, top) => Complete(Tail(q), p2, top)
<1> DEFINE r == Tail(q)
<1>1. /\ Len(q) \in Nat \ {0}
      /\ DOMAIN q = 1..Len(q)
      /\ r \in Seq(Item)
      /\ Len(r) = Len(q) - 1
      /\ DOMAIN r = 1..(Len(q) - 1)
      /\ \A i \in DOMAIN r : r[i] = q[i + 1]
      /\ Head(q) = q[1]
      /\ \A i \in DOMAIN q : q[i] \in Item
  BY LenProperties, EmptySeq, HeadTailProperties, ElementOfSeq
<1>2. p2 \in Nat \cup {-1} /\ p <= p2
  BY <1>1, HeadIsNext DEF IsDispatch
<1>3. \A i \in DOMAIN q : q[i].seq > p2 => i # 1
  BY <1>1, <1>2, ItemSeq DEF IsDispatch
<1>4. ASSUME NEW i \in DOMAIN r, IsDispatch(r[i])
      PROVE  /\ p2 < r[i].seq
             /\ r[i].seq <= top
             /\ r[i].payload = lg[r[i].seq + 1]
             /\ \A n \in (p2 + 1)..r[i].seq : \E j \in 1..i : r[j].seq = n
  <2>1. i + 1 \in DOMAIN q /\ r[i] = q[i + 1] /\ r[i].seq \in Nat
    BY <1>1, <1>4, ItemSeq DEF IsDispatch
  <2>2. /\ p < r[i].seq
        /\ r[i].seq <= top
        /\ r[i].payload = lg[r[i].seq + 1]
        /\ \A n \in (p + 1)..r[i].seq : \E j \in 1..(i + 1) : q[j].seq = n
    BY <2>1, <1>4 DEF QueueOK
  <2>3. p2 < r[i].seq
    <3>1. CASE IsDispatch(Head(q))
      BY <3>1, <2>1, <1>1, <1>4 DEF QueueOK
    <3>2. CASE ~ IsDispatch(Head(q))
      BY <3>2, <2>2
    <3> QED
      BY <3>1, <3>2
  <2>4. ASSUME NEW n \in (p2 + 1)..r[i].seq
        PROVE  \E j \in 1..i : r[j].seq = n
    <3>1. n \in (p + 1)..r[i].seq
      BY <1>2, <2>1
    <3>2. PICK j \in 1..(i + 1) : q[j].seq = n
      BY <3>1, <2>2
    <3>3. j \in DOMAIN q /\ n > p2
      BY <2>1, <1>1, <1>2
    <3>4. j - 1 \in 1..i
      BY <3>2, <3>3, <1>3
    <3>5. r[j - 1] = q[j]
      BY <3>4, <1>1, <1>4
    <3> QED
      BY <3>2, <3>4, <3>5
  <2> QED
    BY <2>2, <2>3, <2>4
<1>5. \A i, j \in DOMAIN r :
        IsDispatch(r[i]) /\ IsDispatch(r[j]) /\ i < j => r[i].seq < r[j].seq
  BY <1>1 DEF QueueOK
<1>6. QueueOK(r, p2, top, lg)
  BY <1>4, <1>5 DEF QueueOK
<1>7. ASSUME Complete(q, p, top), NEW n \in (p2 + 1)..top
      PROVE  \E i \in DOMAIN r : r[i].seq = n
  <2>1. n \in (p + 1)..top /\ n > p2
    BY <1>2
  <2>2. PICK i \in DOMAIN q : q[i].seq = n
    BY <2>1, <1>7 DEF Complete
  <2>3. i - 1 \in DOMAIN r /\ r[i - 1] = q[i]
    BY <2>1, <2>2, <1>1, <1>3
  <2> QED
    BY <2>2, <2>3
<1> QED
  BY <1>6, <1>7 DEF Complete

-----------------------------------------------------------------------------
(* Lemmas about the replay buffer.                                         *)

\* appendEventLocked slides the window by one.
LEMMA AppendEventWindow ==
    ASSUME NEW b \in Seq(Event), NEW top \in Nat, NEW lg \in Seq(Payloads),
           IsWindow(b, top, lg), NEW x \in Payloads,
           NEW e \in Event, e.seq = top + 1, e.payload = x
    PROVE  /\ AppendEvent(b, e) \in Seq(Event)
           /\ IsWindow(AppendEvent(b, e), top + 1, Append(lg, x))
<1> DEFINE longer == Append(b, e)
           a == AppendEvent(b, e)
           lg2 == Append(lg, x)
<1>1. /\ longer \in Seq(Event)
      /\ Len(longer) = Len(b) + 1
      /\ \A i \in 1..Len(b) : longer[i] = b[i]
      /\ longer[Len(b) + 1] = e
      /\ DOMAIN b = 1..Len(b)
  BY AppendProperties, LenProperties
<1>8. /\ Len(b) \in Nat
      /\ 1 <= Len(b)
      /\ Len(b) <= EventBufferSize
      /\ Len(b) <= top + 1
      /\ EventBufferSize \in Nat
  BY LenProperties, ConstantsAssumption DEF IsWindow
<1>2. /\ Len(lg) = top + 1
      /\ lg2 \in Seq(Payloads)
      /\ Len(lg2) = top + 2
      /\ \A n \in 1..(top + 1) : lg2[n] = lg[n]
      /\ lg2[top + 2] = x
  BY AppendProperties DEF IsWindow
<1> HIDE DEF lg2
<1>3. \A i \in 1..Len(b) :
        /\ b[i].seq = top - Len(b) + i
        /\ b[i].payload = lg[b[i].seq + 1]
  BY <1>1 DEF IsWindow
<1>9. Len(lg2) = top + 2 /\ \A n \in 1..(top + 1) : lg2[n] = lg[n]
  BY <1>2
<1>4. ASSUME NEW i \in 1..(Len(b) + 1)
      PROVE  /\ longer[i].seq = top - Len(b) + i
             /\ longer[i].payload = lg2[longer[i].seq + 1]
  <2>1. CASE i \in 1..Len(b)
    <3>1. longer[i] = b[i] /\ b[i].seq = top - Len(b) + i /\ b[i].payload = lg[b[i].seq + 1]
      BY <2>1, <1>1, <1>3
    <3>2. b[i].seq + 1 \in 1..(top + 1)
      BY <2>1, <3>1, <1>8
    <3> QED
      BY <3>1, <3>2, <1>2
  <2>2. CASE i = Len(b) + 1
    BY <2>2, <1>1, <1>2, <1>8
  <2>3. i \in 1..Len(b) \/ i = Len(b) + 1
    BY <1>8
  <2> QED
    BY <2>1, <2>2, <2>3
<1>5. a = IF Len(longer) > EventBufferSize
          THEN SubSeq(longer, Len(longer) - EventBufferSize + 1, Len(longer))
          ELSE longer
  BY DEF AppendEvent
<1>0. DOMAIN longer = 1..(Len(b) + 1)
  BY <1>1, LenProperties
<1> HIDE DEF longer, a
<1>7. CASE Len(b) + 1 <= EventBufferSize
  <2>1. a = longer
    BY <1>5, <1>7, <1>1, <1>8
  <2>2. DOMAIN longer = 1..(Len(b) + 1)
    BY <1>0
  <2> QED
    <3>1. Len(a) = Len(b) + 1 /\ a \in Seq(Event)
      BY <2>1, <1>1
    <3>2. Len(a) \in 1..EventBufferSize /\ Len(a) <= Len(lg2)
      BY <3>1, <1>7, <1>8, <1>9
    <3>3. ASSUME NEW i \in DOMAIN a
          PROVE  /\ a[i].seq = top + 1 - Len(a) + i
                 /\ a[i].payload = lg2[a[i].seq + 1]
      BY <2>1, <2>2, <1>4, <3>1, <1>8
    <3>4. IsWindow(a, top + 1, lg2)
      BY <3>2, <3>3, <1>9 DEF IsWindow
    <3> QED
      BY <3>1, <3>4 DEF a, lg2
<1>6. CASE Len(b) + 1 > EventBufferSize
  <2>1. Len(b) = EventBufferSize
    BY <1>8, <1>6
  <2>2. a = SubSeq(longer, 2, Len(b) + 1)
    BY <2>1, <1>1, <1>5, <1>6, <1>8
  <2>3. \A i \in 2..(Len(b) + 1) : longer[i] \in Event
    BY <1>1, <1>0, <1>8, ElementOfSeq
  <2>4. /\ a \in Seq(Event)
        /\ Len(a) = Len(b)
        /\ \A i \in 1..Len(b) : a[i] = longer[i + 1]
    <3>1. /\ a \in Seq(Event)
          /\ Len(a) = IF 2 <= Len(b) + 1 THEN (Len(b) + 1) - 2 + 1 ELSE 0
          /\ \A i \in 1..((Len(b) + 1) - 2 + 1) : a[i] = longer[2 + i - 1]
      BY <2>2, <2>3, <1>8, SubSeqProperties
    <3> QED
      BY <3>1, <1>8
  <2>5. DOMAIN a = 1..Len(b)
    BY <2>4, LenProperties
  <2>6. ASSUME NEW i \in 1..Len(b)
        PROVE  /\ a[i].seq = top + 1 - Len(b) + i
               /\ a[i].payload = lg2[a[i].seq + 1]
    <3>1. i + 1 \in 1..(Len(b) + 1) /\ a[i] = longer[i + 1]
      BY <2>4, <1>8
    <3>2. /\ longer[i + 1].seq = top - Len(b) + (i + 1)
          /\ longer[i + 1].payload = lg2[longer[i + 1].seq + 1]
      BY <3>1, <1>4
    <3> QED
      BY <3>1, <3>2, <1>8
  <2>7. Len(a) \in 1..EventBufferSize /\ Len(a) <= Len(lg2)
    BY <2>4, <1>8, <1>9
  <2>8. IsWindow(a, top + 1, lg2)
    BY <2>4, <2>5, <2>6, <2>7, <1>9 DEF IsWindow
  <2> QED
    BY <2>4, <2>8 DEF a, lg2
<1> QED
  BY <1>6, <1>7, <1>8

\* identify fills a fresh buffer with READY.
LEMMA FirstEventWindow ==
    ASSUME NEW e \in Event, e.seq = 0, e.payload = "READY"
    PROVE  /\ AppendEvent(<< >>, e) = <<e>>
           /\ IsWindow(<<e>>, 0, <<"READY">>)
<1>1. /\ Append(<< >>, e) = <<e>>
      /\ Len(<<e>>) = 1
      /\ DOMAIN <<e>> = 1..1
      /\ <<e>>[1] = e
      /\ Len(<<"READY">>) = 1
      /\ <<"READY">>[1] = "READY"
  OBVIOUS
<1>2. EventBufferSize \in Nat /\ 1 <= EventBufferSize
  BY ConstantsAssumption
<1>3. AppendEvent(<< >>, e) = <<e>>
  BY <1>1, <1>2 DEF AppendEvent
<1> QED
  BY <1>1, <1>2, <1>3 DEF IsWindow

\* A position inside the window is continued by exactly the events after it.
LEMMA ReplayIsSuffix ==
    ASSUME NEW b \in Seq(Event), NEW top \in Nat, NEW lg, IsWindow(b, top, lg),
           NEW n \in Nat, n <= top, n >= b[1].seq - 1
    PROVE  /\ EventsAfter(b, n) \in Seq(Event)
           /\ Len(EventsAfter(b, n)) = top - n
           /\ \A i \in 1..(top - n) :
                /\ EventsAfter(b, n)[i].seq = n + i
                /\ EventsAfter(b, n)[i].payload = lg[n + i + 1]
<1> DEFINE later == {i \in DOMAIN b : b[i].seq > n}
           m == n - top + Len(b) + 1
<1>1. Len(b) \in Nat /\ Len(b) >= 1
  BY LenProperties, ConstantsAssumption DEF IsWindow
<1>2. DOMAIN b = 1..Len(b)
  BY LenProperties
<1>3. \A i \in 1..Len(b) : /\ b[i].seq = top - Len(b) + i
                           /\ b[i].payload = lg[b[i].seq + 1]
  BY <1>2 DEF IsWindow
<1>4. n >= top - Len(b)
  BY <1>1, <1>3
<1>5. m \in Int /\ m >= 1
  BY <1>1, <1>4
<1>6. \A i \in 1..Len(b) : b[i].seq > n <=> i >= m
  BY <1>1, <1>3
<1>7. later = {i \in 1..Len(b) : i >= m}
  BY <1>2, <1>6
<1>8. CASE n = top
  <2>1. later = {}
    BY <1>1, <1>7, <1>8
  <2>2. EventsAfter(b, n) = << >>
    BY <2>1 DEF EventsAfter
  <2> QED
    BY <2>2, <1>8, EmptySeq
<1>9. CASE n < top
  <2>1. m \in 1..Len(b)
    BY <1>1, <1>5, <1>9
  <2>2. m \in later /\ \A y \in later : m <= y
    BY <1>7, <2>1
  <2>3. \A x \in later : (\A y \in later : x <= y) => x = m
    <3>1. \A x \in later : x \in Int
      BY <1>7
    <3> QED
      BY <2>2, <3>1, <1>5
  <2>4. Min(later) = m
    <3> HIDE DEF later, m
    <3> QED
      BY <2>2, <2>3 DEF Min
  <2>5. EventsAfter(b, n) = SubSeq(b, m, Len(b))
    <3>1. later # {}
      BY <2>2
    <3> HIDE DEF m
    <3> QED
      BY <3>1, <2>4 DEF EventsAfter
  <2>6. \A i \in m..Len(b) : b[i] \in Event
    BY <2>1, <1>1, <1>2, ElementOfSeq
  <2> HIDE DEF m
  <2>7. /\ EventsAfter(b, n) \in Seq(Event)
        /\ Len(EventsAfter(b, n)) = IF m <= Len(b) THEN Len(b) - m + 1 ELSE 0
        /\ \A i \in 1..(Len(b) - m + 1) : EventsAfter(b, n)[i] = b[m + i - 1]
    BY <2>1, <2>5, <2>6, <1>1, SubSeqProperties
  <2>8. Len(b) - m + 1 = top - n /\ m = n - top + Len(b) + 1
    BY <1>1 DEF m
  <2>9. ASSUME NEW i \in 1..(top - n)
        PROVE  /\ EventsAfter(b, n)[i].seq = n + i
               /\ EventsAfter(b, n)[i].payload = lg[n + i + 1]
    <3>1. m + i - 1 \in 1..Len(b) /\ top - Len(b) + (m + i - 1) = n + i
      BY <2>1, <2>8, <1>1
    <3>2. EventsAfter(b, n)[i] = b[m + i - 1]
      BY <2>7, <2>8
    <3> QED
      BY <3>1, <3>2, <1>3
  <2> QED
    BY <2>1, <2>7, <2>8, <2>9, <1>1
<1> QED
  BY <1>8, <1>9

\* Replaying a suffix behind HELLO puts the queue in order for position n.
LEMMA ReplayInOrder ==
    ASSUME NEW q \in Seq(Item), \A i \in DOMAIN q : ~ IsDispatch(q[i]),
           NEW top \in Nat, NEW lg, NEW n \in Nat, n <= top,
           NEW r \in Seq(Event), Len(r) = top - n,
           \A i \in 1..(top - n) : r[i].seq = n + i /\ r[i].payload = lg[n + i + 1]
    PROVE  /\ q \o r \in Seq(Item)
           /\ QueueOK(q \o r, n, top, lg)
           /\ Complete(q \o r, n, top)
<1> DEFINE z == q \o r
<1>1. r \in Seq(Item) /\ q \in Seq(Item)
  BY SeqMonotonic DEF Item
<1>2. /\ z \in Seq(Item)
      /\ Len(z) = Len(q) + Len(r)
      /\ \A i \in 1..(Len(q) + Len(r)) :
           z[i] = IF i <= Len(q) THEN q[i] ELSE r[i - Len(q)]
  BY <1>1, ConcatProperties
<1>3. Len(q) \in Nat /\ top - n \in Nat
  BY LenProperties
<1>4. DOMAIN q = 1..Len(q) /\ DOMAIN z = 1..(Len(q) + (top - n))
  BY <1>2, LenProperties
<1> HIDE DEF z
<1>5. \A i \in 1..(top - n) : /\ Len(q) + i \in DOMAIN z
                             /\ z[Len(q) + i] = r[i]
                             /\ z[Len(q) + i].seq = n + i
                             /\ z[Len(q) + i].payload = lg[n + i + 1]
  BY <1>2, <1>3, <1>4
<1>6. ASSUME NEW i \in DOMAIN z, IsDispatch(z[i])
      PROVE  i \in Nat /\ i - Len(q) \in 1..(top - n)
  <2>0. i \in 1..(Len(q) + (top - n))
    BY <1>4
  <2>1. CASE i <= Len(q)
    <3>1. i \in DOMAIN q
      BY <2>0, <2>1, <1>3, <1>4
    <3>2. z[i] = q[i]
      BY <2>0, <2>1, <1>2
    <3> QED
      BY <3>1, <3>2, <1>6
  <2>2. CASE i > Len(q)
    BY <2>0, <2>2, <1>3
  <2> QED
    BY <2>0, <2>1, <2>2, <1>3
<1>7. ASSUME NEW i \in DOMAIN z, IsDispatch(z[i])
      PROVE  /\ n < z[i].seq
             /\ z[i].seq <= top
             /\ z[i].payload = lg[z[i].seq + 1]
             /\ \A k \in (n + 1)..z[i].seq : \E j \in 1..i : z[j].seq = k
  <2>1. PICK d \in 1..(top - n) : Len(q) + d = i
    BY <1>6, <1>7, <1>3
  <2>2. z[i].seq = n + d /\ z[i].payload = lg[n + d + 1]
    BY <2>1, <1>5
  <2>3. ASSUME NEW k \in (n + 1)..(n + d)
        PROVE  \E j \in 1..i : z[j].seq = k
    <3>1. PICK x \in 1..d : n + x = k
      BY <2>1
    <3>2. x \in 1..(top - n) /\ Len(q) + x \in 1..i
      BY <2>1, <3>1, <1>3
    <3> QED
      BY <3>1, <3>2, <1>5
  <2>4. n < n + d /\ n + d <= top
    BY <2>1
  <2> QED
    BY <2>2, <2>3, <2>4
<1>8. ASSUME NEW i \in DOMAIN z, NEW j \in DOMAIN z,
             IsDispatch(z[i]), IsDispatch(z[j]), i < j
      PROVE  z[i].seq < z[j].seq
  <2>1. i \in Nat /\ i - Len(q) \in 1..(top - n)
    BY <1>6, <1>8
  <2>2. j \in Nat /\ j - Len(q) \in 1..(top - n)
    BY <1>6, <1>8
  <2>3. z[i].seq = n + (i - Len(q)) /\ z[j].seq = n + (j - Len(q))
    <3>1. i = Len(q) + (i - Len(q))
      BY <2>1, <1>3
    <3>2. j = Len(q) + (j - Len(q))
      BY <2>2, <1>3
    <3> QED
      BY <2>1, <2>2, <3>1, <3>2, <1>5
  <2> QED
    BY <2>1, <2>2, <2>3, <1>3, <1>8
<1>9. Complete(z, n, top)
  <2> SUFFICES ASSUME NEW k \in (n + 1)..top
               PROVE  \E i \in DOMAIN z : z[i].seq = k
    BY DEF Complete
  <2>1. PICK x \in 1..(top - n) : n + x = k
    OBVIOUS
  <2> QED
    BY <2>1, <1>5
<1>10. QueueOK(z, n, top, lg)
  BY <1>7, <1>8 DEF QueueOK
<1> QED
  BY <1>2, <1>9, <1>10 DEF z
\* A queue that only holds control payloads owes its peer nothing yet.
LEMMA OnlyControl ==
    ASSUME NEW q, \A i \in DOMAIN q : ~ IsDispatch(q[i]), NEW p, NEW top, NEW lg
    PROVE  QueueOK(q, p, top, lg)
BY DEF QueueOK

-----------------------------------------------------------------------------
(* Each step preserves IInv.                                               *)

\* The invariant holds of newHub, before any connection.
LEMMA InitIInv == Init => IInv
<1> SUFFICES ASSUME Init
             PROVE  IInv
  OBVIOUS
<1> USE DEF Init
<1>1. None \notin Users \cup Sessions \cup Conns
  BY ConstantsAssumption
<1>2. TypeOK
  BY EmptySeq DEF TypeOK
<1>3. AttachInv
  BY DEF AttachInv
<1>4. ConnInv
  BY DEF ConnInv
<1>5. BufferIsWindow /\ StreamInv /\ FreshInv
  BY DEF BufferIsWindow, StreamInv, FreshInv
<1> QED
  BY <1>2, <1>3, <1>4, <1>5 DEF IInv

\* A connection that is not past IDENTIFY or RESUME has no Session, and no
\* Session has it.
LEMMA NotServing ==
    ASSUME IInv, NEW c \in Conns, phase[c] \in {"free", "greeted"}
    PROVE  /\ bound[c] = None
           /\ pos[c] = -1
           /\ got[c] = "CONTROL"
           /\ \A i \in DOMAIN queue[c] : ~ IsDispatch(queue[c][i])
           /\ \A s \in Sessions : client[s] # c
<1>1. bound[c] = None
  BY DEF IInv, ConnInv
<1>2. c # None
  BY ConstantsAssumption
<1>3. \A s \in Sessions : client[s] # c
  BY <1>2 DEF IInv, AttachInv
<1> QED
  BY <1>1, <1>3 DEF IInv, ConnInv

\* ServeHTTP upgrades a connection and queues HELLO for it.
LEMMA ConnectIInv ==
    ASSUME IInv, NEW c \in Conns, Connect(c)
    PROVE  IInv'
<1> USE DEF Connect, hubVars, histVars
<1>0. bound[c] = None /\ phase[c] = "free" /\ \A s \in Sessions : client[s] # c
  BY NotServing
<1>1. TypeOK'
  <2>1. <<Control>> \in Seq(Event \cup {Control})
    OBVIOUS
  <2> QED
    BY <2>1 DEF IInv, TypeOK
<1>2. AttachInv'
  BY <1>0 DEF IInv, TypeOK, AttachInv
<1>3. ConnInv'
  BY <1>0 DEF IInv, TypeOK, ConnInv, Control, IsDispatch
<1>4. BufferIsWindow'
  BY DEF IInv, BufferIsWindow, IsWindow
<1>5. StreamInv'
  BY <1>0 DEF IInv, TypeOK, StreamInv, QueueOK, Complete, IsDispatch
<1>6. FreshInv'
  BY DEF IInv, FreshInv
<1> QED
  BY <1>1, <1>2, <1>3, <1>4, <1>5, <1>6 DEF IInv

\* What CloseConn does to the invariant, in every handler that ends with it:
\* the Sessions keep their streams and none of them has c any more.
LEMMA CloseConnIInv ==
    ASSUME IInv, NEW c \in Conns, CloseConn(c),
           UNCHANGED <<issued, user, intents, sequence, events, log>>,
           live' \subseteq issued,
           goneCalls' \in [Users -> Nat],
           client' \in [Sessions -> Conns \cup {None}],
           disconnectedAt' \in [Sessions -> {"nil", "recent", "expired"}],
           \A s \in Sessions : client'[s] \in {client[s], None} /\ client'[s] # c,
           AttachInv', FreshInv'
    PROVE  IInv'
<1> USE DEF CloseConn
<1>1. TypeOK'
  <2>1. << >> \in Seq(Event \cup {Control})
    OBVIOUS
  <2> QED
    BY <2>1 DEF IInv, TypeOK
<1>2. ConnInv'
  BY DEF IInv, TypeOK, ConnInv
<1>3. BufferIsWindow'
  BY DEF IInv, BufferIsWindow, IsWindow
<1>4. StreamInv'
  <2> SUFFICES ASSUME NEW d \in Conns, bound'[d] # None, d \in writing'
               PROVE  /\ QueueOK(queue'[d], pos'[d], sequence'[bound'[d]], log'[bound'[d]])
                      /\ client'[bound'[d]] = d =>
                           Complete(queue'[d], pos'[d], sequence'[bound'[d]])
    BY DEF StreamInv
  <2>1. d # c /\ d \in writing /\ bound'[d] = bound[d] /\ bound[d] \in Sessions
    BY DEF IInv, TypeOK
  <2>2. queue'[d] = queue[d] /\ pos'[d] = pos[d]
    BY <2>1 DEF IInv, TypeOK
  <2>3. client'[bound[d]] = d => client[bound[d]] = d
    BY <2>1, ConstantsAssumption
  <2> QED
    BY <2>1, <2>2, <2>3 DEF IInv, StreamInv
<1> QED
  BY <1>1, <1>2, <1>3, <1>4 DEF IInv

\* ServeHTTP closes a connection that neither identifies nor resumes.
LEMMA GiveUpIInv ==
    ASSUME IInv, NEW c \in Conns, GiveUp(c)
    PROVE  IInv'
<1> USE DEF GiveUp
<1>1. \A s \in Sessions : client[s] # c
  BY NotServing
<1>2. AttachInv'
  BY <1>1 DEF IInv, TypeOK, AttachInv, CloseConn, hubVars
<1>3. FreshInv'
  BY DEF IInv, FreshInv, hubVars
<1> QED
  BY <1>1, <1>2, <1>3, CloseConnIInv DEF IInv, TypeOK, hubVars

\* pruneLocked: it drops detached Sessions only.
LEMMA Prune ==
    ASSUME IInv, CallUserGone
    PROVE  /\ goneCalls' \in [Users -> Nat]
           /\ Retained \subseteq live
           /\ live \subseteq issued
           /\ \A s \in Sessions : client[s] # None => s \in Retained
<1>1. goneCalls' \in [Users -> Nat]
  BY DEF IInv, TypeOK, CallUserGone
<1> QED
  BY <1>1 DEF IInv, TypeOK, AttachInv, Retained

\* The refusals of IDENTIFY and RESUME: a prune, then the connection ends.
LEMMA RefusalIInv ==
    ASSUME IInv, NEW c \in Conns, phase[c] = "greeted", live' = Retained,
           CallUserGone, CloseConn(c),
           UNCHANGED <<issued, user, intents, sequence, events, client,
                       disconnectedAt, log>>
    PROVE  IInv'
<1>1. \A s \in Sessions : client[s] # c
  BY NotServing
<1>2. AttachInv'
  BY <1>1, Prune DEF IInv, TypeOK, AttachInv, CloseConn, Retained
<1>3. FreshInv'
  BY DEF IInv, FreshInv
<1> QED
  BY <1>1, <1>2, <1>3, Prune, CloseConnIInv DEF IInv, TypeOK

\* A HEARTBEAT is acknowledged, or its refusal terminates the connection.
LEMMA HeartbeatIInv ==
    ASSUME IInv, NEW c \in Conns, Heartbeat(c)
    PROVE  IInv'
<1> USE DEF hubVars, histVars
<1>0. phase[c] = "serving" /\ UNCHANGED <<hubVars, bound, writing, histVars>>
  BY DEF Heartbeat
<1>1. CASE queue' = [queue EXCEPT ![c] = Append(@, Control)] /\ UNCHANGED <<phase, done>>
  <2>1. TypeOK'
    <3>1. Append(queue[c], Control) \in Seq(Event \cup {Control})
      BY AppendProperties DEF IInv, TypeOK
    <3> QED
      BY <1>0, <1>1, <3>1 DEF IInv, TypeOK
  <2>2. AttachInv' /\ BufferIsWindow' /\ FreshInv'
    BY <1>0, <1>1 DEF IInv, AttachInv, BufferIsWindow, IsWindow, FreshInv
  <2>3. ConnInv'
    <3>1. bound[c] # None
      BY <1>0 DEF IInv, ConnInv
    <3> QED
      BY <1>0, <1>1, <3>1 DEF IInv, TypeOK, ConnInv
  <2>4. StreamInv'
    <3> SUFFICES ASSUME NEW d \in Conns, bound[d] # None, d \in writing
                 PROVE  /\ QueueOK(queue'[d], pos[d], sequence[bound[d]], log[bound[d]])
                        /\ client[bound[d]] = d =>
                             Complete(queue'[d], pos[d], sequence[bound[d]])
      BY <1>0 DEF StreamInv
    <3>1. bound[d] \in Sessions /\ sequence[bound[d]] \in Nat
          /\ queue[d] \in Seq(Item) /\ pos[d] \in Nat \cup {-1}
      BY DEF IInv, TypeOK, Item
    <3>2. CASE d = c
      <4>1. queue'[d] = Append(queue[d], Control)
        BY <1>1, <3>2 DEF IInv, TypeOK
      <4> QED
        BY <4>1, <3>1, AppendControl DEF IInv, StreamInv
    <3>3. CASE d # c
      BY <1>1, <3>3 DEF IInv, TypeOK, StreamInv
    <3> QED
      BY <3>2, <3>3
  <2> QED
    BY <2>1, <2>2, <2>3, <2>4 DEF IInv
<1>2. CASE /\ phase' = [phase EXCEPT ![c] = "returning"]
           /\ done' = [done EXCEPT ![c] = TRUE]
           /\ UNCHANGED queue
  BY <1>0, <1>2 DEF IInv, TypeOK, AttachInv, ConnInv, BufferIsWindow, IsWindow,
                    StreamInv, QueueOK, Complete, FreshInv
<1> QED
  BY <1>1, <1>2 DEF Heartbeat

\* The read loop ends: the peer is gone, misbehaves or its token is not valid.
LEMMA LeaveLoopIInv ==
    ASSUME IInv, NEW c \in Conns, LeaveLoop(c)
    PROVE  IInv'
<1> USE DEF LeaveLoop, hubVars, histVars
<1>1. TypeOK'
  BY DEF IInv, TypeOK
<1>2. AttachInv' /\ ConnInv'
  BY DEF IInv, TypeOK, AttachInv, ConnInv
<1>3. BufferIsWindow' /\ StreamInv' /\ FreshInv'
  BY DEF IInv, BufferIsWindow, IsWindow, StreamInv, QueueOK, Complete, FreshInv
<1> QED
  BY <1>1, <1>2, <1>3 DEF IInv

\* The deferred detach lets go of every Session that still has c.
LEMMA ReturnIInv ==
    ASSUME IInv, NEW c \in Conns, Return(c)
    PROVE  IInv'
<1>0. /\ phase[c] = "returning"
      /\ Detach(bound[c], c)
      /\ CloseConn(c)
      /\ UNCHANGED <<live, issued, user, intents, sequence, events, goneCalls, log>>
  BY DEF Return
<1>1. bound[c] \in issued /\ bound[c] \in Sessions
  BY <1>0, ConstantsAssumption DEF IInv, ConnInv, TypeOK
<1>2. \A s \in Sessions : client[s] = c => s = bound[c] /\ s \in live
  BY ConstantsAssumption DEF IInv, AttachInv
<1>3. /\ client' \in [Sessions -> Conns \cup {None}]
      /\ disconnectedAt' \in [Sessions -> {"nil", "recent", "expired"}]
  BY <1>0 DEF IInv, TypeOK, Detach
<1>4. \A s \in Sessions :
        \/ s = bound[c] /\ client'[s] = None /\ disconnectedAt'[s] = "recent"
           /\ s \in live /\ client[s] = c
        \/ client[s] # c /\ client'[s] = client[s] /\ disconnectedAt'[s] = disconnectedAt[s]
  BY <1>0, <1>1, <1>2 DEF IInv, TypeOK, Detach
<1>5. \A s \in Sessions : client'[s] \in {client[s], None} /\ client'[s] # c
  BY <1>4, ConstantsAssumption
<1>6. AttachInv'
  <2> SUFFICES ASSUME NEW s \in Sessions
               PROVE  /\ client'[s] # None =>
                           /\ s \in live
                           /\ bound'[client'[s]] = s
                           /\ phase'[client'[s]] \in {"serving", "returning"}
                           /\ disconnectedAt'[s] = "nil"
                      /\ s \in live /\ client'[s] = None => disconnectedAt'[s] # "nil"
    BY <1>0 DEF AttachInv
  <2>1. CASE client'[s] = None
    BY <2>1, <1>4, <1>0 DEF IInv, AttachInv
  <2>2. CASE client'[s] # None
    <3>1. client'[s] = client[s] /\ client[s] # c /\ client[s] \in Conns
          /\ disconnectedAt'[s] = disconnectedAt[s]
      BY <2>2, <1>4 DEF IInv, TypeOK
    <3>2. bound'[client[s]] = bound[client[s]] /\ phase'[client[s]] = phase[client[s]]
      BY <1>0, <3>1 DEF IInv, TypeOK, CloseConn
    <3> QED
      BY <2>2, <3>1, <3>2 DEF IInv, AttachInv
  <2> QED
    BY <2>1, <2>2
<1>7. FreshInv'
  BY <1>0, <1>4 DEF IInv, TypeOK, FreshInv
<1> QED
  BY <1>0, <1>3, <1>5, <1>6, <1>7, CloseConnIInv DEF IInv, TypeOK

\* The next payload goes out: it is the one after the connection's position.
LEMMA WriteLoopIInv ==
    ASSUME IInv, NEW c \in Conns, WriteLoop(c)
    PROVE  IInv'
<1> USE DEF hubVars
<1> DEFINE m == Head(queue[c])
<1>0. /\ c \in writing
      /\ queue[c] # << >>
      /\ queue' = [queue EXCEPT ![c] = Tail(@)]
      /\ UNCHANGED <<hubVars, phase, bound, done, writing, log>>
      /\ IsDispatch(m) => /\ pos' = [pos EXCEPT ![c] = m.seq]
                          /\ got' = [got EXCEPT ![c] = m.payload]
      /\ ~ IsDispatch(m) => UNCHANGED <<pos, got>>
  BY DEF WriteLoop
<1>1. /\ queue[c] \in Seq(Item)
      /\ m \in Item
      /\ Tail(queue[c]) \in Seq(Item)
      /\ 1 \in DOMAIN queue[c] /\ m = queue[c][1]
      /\ \A i \in DOMAIN Tail(queue[c]) : i + 1 \in DOMAIN queue[c]
                                         /\ Tail(queue[c])[i] = queue[c][i + 1]
  BY <1>0, HeadTailProperties, LenProperties, EmptySeq, ElementOfSeq DEF IInv, TypeOK, Item
<1>2. IsDispatch(m) => m.seq \in Nat /\ m.payload \in Payloads
  BY <1>1, DispatchItem DEF Event
<1>3. /\ queue'[c] = Tail(queue[c])
      /\ pos'[c] = IF IsDispatch(m) THEN m.seq ELSE pos[c]
      /\ \A d \in Conns \ {c} : queue'[d] = queue[d] /\ pos'[d] = pos[d] /\ got'[d] = got[d]
  BY <1>0 DEF IInv, TypeOK
<1> HIDE DEF m
<1>4. TypeOK'
  BY <1>0, <1>1, <1>2 DEF IInv, TypeOK, Item
<1>5. AttachInv' /\ BufferIsWindow' /\ FreshInv'
  BY <1>0 DEF IInv, AttachInv, BufferIsWindow, IsWindow, FreshInv
<1>6. bound[c] = None => ~ IsDispatch(m)
  BY <1>1 DEF IInv, ConnInv
<1>7. bound[c] # None =>
        /\ QueueOK(Tail(queue[c]), pos'[c], sequence[bound[c]], log[bound[c]])
        /\ client[bound[c]] = c => Complete(Tail(queue[c]), pos'[c], sequence[bound[c]])
        /\ pos'[c] >= 0 => pos'[c] <= sequence[bound[c]]
  <2> SUFFICES ASSUME bound[c] # None
               PROVE  /\ QueueOK(Tail(queue[c]), pos'[c], sequence[bound[c]], log[bound[c]])
                      /\ client[bound[c]] = c =>
                           Complete(Tail(queue[c]), pos'[c], sequence[bound[c]])
                      /\ pos'[c] >= 0 => pos'[c] <= sequence[bound[c]]
    OBVIOUS
  <2>1. sequence[bound[c]] \in Nat /\ pos[c] \in Nat \cup {-1}
    BY DEF IInv, TypeOK
  <2>2. QueueOK(queue[c], pos[c], sequence[bound[c]], log[bound[c]])
    BY <1>0 DEF IInv, StreamInv
  <2>3. client[bound[c]] = c => Complete(queue[c], pos[c], sequence[bound[c]])
    BY <1>0 DEF IInv, StreamInv
  <2>4. /\ QueueOK(Tail(queue[c]), pos'[c], sequence[bound[c]], log[bound[c]])
        /\ client[bound[c]] = c => Complete(Tail(queue[c]), pos'[c], sequence[bound[c]])
    BY <2>1, <2>2, <2>3, <1>0, <1>1, <1>3, TailStays DEF m
  <2>5. pos'[c] >= 0 => pos'[c] <= sequence[bound[c]]
    <3>1. CASE IsDispatch(m)
      <4>1. m.seq = pos[c] + 1 /\ pos[c] + 1 <= sequence[bound[c]]
        BY <3>1, <2>1, <2>2, <1>0, <1>1, HeadIsNext DEF m
      <4> QED
        BY <4>1, <3>1, <1>3
    <3>2. CASE ~ IsDispatch(m)
      BY <3>2, <1>3 DEF IInv, ConnInv
    <3> QED
      BY <3>1, <3>2
  <2> QED
    BY <2>4, <2>5
<1>8. ConnInv'
  <2>1. bound[c] = None => /\ \A i \in DOMAIN Tail(queue[c]) : ~ IsDispatch(Tail(queue[c])[i])
                           /\ pos'[c] = pos[c] /\ got'[c] = got[c]
    BY <1>0, <1>1, <1>6 DEF IInv, ConnInv
  <2>2. pos[c] = -1 => ~ (pos[c] >= 0)
    OBVIOUS
  <2> SUFFICES ASSUME NEW d \in Conns
               PROVE  /\ bound[d] # None => bound[d] \in issued /\ phase[d] \in {"serving", "returning"}
                      /\ bound[d] = None =>
                           /\ phase[d] \in {"free", "greeted"}
                           /\ pos'[d] = -1
                           /\ got'[d] = "CONTROL"
                           /\ \A i \in DOMAIN queue'[d] : ~ IsDispatch(queue'[d][i])
                      /\ phase[d] = "free" => d \notin writing
                      /\ pos'[d] >= 0 => pos'[d] <= sequence[bound[d]]
    BY <1>0 DEF ConnInv
  <2>3. CASE d = c
    BY <2>1, <2>2, <2>3, <1>3, <1>7 DEF IInv, ConnInv
  <2>4. CASE d # c
    BY <2>4, <1>3 DEF IInv, ConnInv
  <2> QED
    BY <2>3, <2>4
<1>9. StreamInv'
  BY <1>0, <1>3, <1>7 DEF IInv, StreamInv
<1> QED
  BY <1>4, <1>5, <1>8, <1>9 DEF IInv

\* writeLoop fails, and what it took off the queue is lost to this connection.
LEMMA WriteFailsIInv ==
    ASSUME IInv, NEW c \in Conns, WriteFails(c)
    PROVE  IInv'
<1> USE DEF WriteFails, hubVars, histVars
<1>1. TypeOK'
  <2>1. << >> \in Seq(Event \cup {Control})
    OBVIOUS
  <2> QED
    BY <2>1 DEF IInv, TypeOK
<1>2. AttachInv' /\ BufferIsWindow' /\ FreshInv'
  BY DEF IInv, AttachInv, BufferIsWindow, IsWindow, FreshInv
<1>3. ConnInv'
  BY DEF IInv, TypeOK, ConnInv
<1>4. StreamInv'
  BY DEF IInv, TypeOK, StreamInv
<1> QED
  BY <1>1, <1>2, <1>3, <1>4 DEF IInv

\* Time, the sweep and the callbacks move no event.
LEMMA BackgroundIInv ==
    ASSUME IInv,
           \/ \E s \in Sessions : RetentionElapses(s)
           \/ Sweep
           \/ \E u \in Users : RunUserGone(u)
    PROVE  IInv'
<1> USE DEF connVars, histVars
<1>1. ASSUME NEW s \in Sessions, RetentionElapses(s)
      PROVE  IInv'
  <2>1. TypeOK' /\ AttachInv' /\ FreshInv'
    BY <1>1 DEF IInv, TypeOK, AttachInv, FreshInv, RetentionElapses
  <2>2. ConnInv' /\ BufferIsWindow' /\ StreamInv'
    BY <1>1 DEF IInv, ConnInv, BufferIsWindow, IsWindow, StreamInv, QueueOK, Complete,
                RetentionElapses
  <2> QED
    BY <2>1, <2>2 DEF IInv
<1>2. CASE Sweep
  <2>1. TypeOK' /\ AttachInv' /\ FreshInv'
    BY <1>2, Prune DEF IInv, TypeOK, AttachInv, FreshInv, Sweep
  <2>2. ConnInv' /\ BufferIsWindow' /\ StreamInv'
    BY <1>2 DEF IInv, ConnInv, BufferIsWindow, IsWindow, StreamInv, QueueOK, Complete, Sweep
  <2> QED
    BY <2>1, <2>2 DEF IInv
<1>3. ASSUME NEW u \in Users, RunUserGone(u)
      PROVE  IInv'
  <2>1. TypeOK' /\ AttachInv' /\ FreshInv'
    BY <1>3 DEF IInv, TypeOK, AttachInv, FreshInv, RunUserGone
  <2>2. ConnInv' /\ BufferIsWindow' /\ StreamInv'
    BY <1>3 DEF IInv, ConnInv, BufferIsWindow, IsWindow, StreamInv, QueueOK, Complete,
                RunUserGone
  <2> QED
    BY <2>1, <2>2 DEF IInv
<1> QED
  BY <1>1, <1>2, <1>3

\* A fresh Session whose stream starts with READY; nobody else is disturbed.
LEMMA IdentifyIInv ==
    ASSUME IInv, NEW c \in Conns, NEW u \in Users, NEW wanted \in IntentSets,
           NEW s \in Sessions, Identify(c, u, wanted, s)
    PROVE  IInv'
<1> DEFINE ready == [seq |-> 0, payload |-> "READY"]
<1>0. /\ phase[c] = "greeted"
      /\ s \notin issued
      /\ issued' = issued \cup {s}
      /\ live' = Retained \cup {s}
      /\ CallUserGone
      /\ user' = [user EXCEPT ![s] = u]
      /\ intents' = [intents EXCEPT ![s] = wanted]
      /\ sequence' = [sequence EXCEPT ![s] = 0]
      /\ events' = [events EXCEPT ![s] = AppendEvent(<< >>, ready)]
      /\ log' = [log EXCEPT ![s] = <<"READY">>]
      /\ phase' = [phase EXCEPT ![c] = "serving"]
      /\ bound' = [bound EXCEPT ![c] = s]
      /\ UNCHANGED <<writing, pos, got>>
  BY DEF Identify
<1>1. \/ /\ queue' = [queue EXCEPT ![c] = Append(@, ready)]
         /\ client' = [client EXCEPT ![s] = c]
         /\ UNCHANGED <<disconnectedAt, done>>
      \/ /\ done' = [done EXCEPT ![c] = TRUE]
         /\ disconnectedAt' = [disconnectedAt EXCEPT ![s] = "recent"]
         /\ UNCHANGED <<queue, client>>
  BY DEF Identify
<1>2. /\ bound[c] = None
      /\ pos[c] = -1
      /\ \A i \in DOMAIN queue[c] : ~ IsDispatch(queue[c][i])
      /\ \A t \in Sessions : client[t] # c
  BY <1>0, NotServing
<1>3. /\ ready \in Event
      /\ ready \in Item
      /\ ready.seq = 0
      /\ ready.payload = "READY"
      /\ <<"READY">> \in Seq(Payloads)
      /\ Len(<<"READY">>) = 1
      /\ Append(<< >>, "READY") = <<"READY">>
  BY DEF Event, Item, Payloads
<1>4. AppendEvent(<< >>, ready) = <<ready>> /\ IsWindow(<<ready>>, 0, <<"READY">>)
  BY <1>3, FirstEventWindow
<1>5. <<ready>> \in Seq(Event)
  BY <1>3
<1>6. s \notin live /\ client[s] = None /\ disconnectedAt[s] = "nil"
      /\ \A d \in Conns : bound[d] # s
  BY <1>0, ConstantsAssumption DEF IInv, TypeOK, AttachInv, FreshInv, ConnInv
<1>7. /\ queue[c] \in Seq(Item)
      /\ Append(queue[c], ready) \in Seq(Item)
  BY <1>3, AppendProperties DEF IInv, TypeOK, Item
<1> HIDE DEF ready
<1>8. wanted \in SUBSET Intents /\ c # None /\ s # None
  BY ConstantsAssumption DEF Intents
<1>9. TypeOK'
  <2>1. /\ live' \subseteq issued' /\ issued' \subseteq Sessions
        /\ goneCalls' \in [Users -> Nat]
    BY <1>0, Prune DEF IInv, TypeOK
  <2>2. /\ user' \in [Sessions -> Users \cup {None}]
        /\ intents' \in [Sessions -> SUBSET Intents]
        /\ sequence' \in [Sessions -> Nat]
    BY <1>0, <1>8 DEF IInv, TypeOK
  <2>3. /\ events' \in [Sessions -> Seq(Event)]
        /\ log' \in [Sessions -> Seq(Payloads)]
    BY <1>0, <1>3, <1>4, <1>5 DEF IInv, TypeOK
  <2>4. /\ phase' \in [Conns -> {"free", "greeted", "serving", "returning"}]
        /\ bound' \in [Conns -> Sessions \cup {None}]
        /\ writing' \subseteq Conns
        /\ pos' \in [Conns -> Nat \cup {-1}]
        /\ got' \in [Conns -> Payloads \cup {"CONTROL"}]
    BY <1>0 DEF IInv, TypeOK
  <2>5. /\ queue' \in [Conns -> Seq(Event \cup {Control})]
        /\ client' \in [Sessions -> Conns \cup {None}]
        /\ disconnectedAt' \in [Sessions -> {"nil", "recent", "expired"}]
        /\ done' \in [Conns -> BOOLEAN]
    BY <1>1, <1>7 DEF IInv, TypeOK, Item
  <2> QED
    BY <2>1, <2>2, <2>3, <2>4, <2>5 DEF TypeOK
<1>10. AttachInv'
  <2> SUFFICES ASSUME NEW t \in Sessions
               PROVE  /\ client'[t] # None =>
                           /\ t \in live'
                           /\ bound'[client'[t]] = t
                           /\ phase'[client'[t]] \in {"serving", "returning"}
                           /\ disconnectedAt'[t] = "nil"
                      /\ t \in live' /\ client'[t] = None => disconnectedAt'[t] # "nil"
    BY DEF AttachInv
  <2>1. CASE t = s
    BY <2>1, <1>0, <1>1, <1>6, <1>8 DEF IInv, TypeOK
  <2>2. CASE t # s
    <3>1. client'[t] = client[t] /\ disconnectedAt'[t] = disconnectedAt[t] /\ client[t] # c
      BY <2>2, <1>1, <1>2 DEF IInv, TypeOK
    <3>2. t \in live' => t \in live
      BY <2>2, <1>0, Prune
    <3>3. client[t] # None => t \in live'
      BY <2>2, <1>0, Prune
    <3>4. client[t] # None => /\ bound'[client[t]] = bound[client[t]]
                              /\ phase'[client[t]] = phase[client[t]]
      BY <1>0, <3>1 DEF IInv, TypeOK
    <3> QED
      BY <3>1, <3>2, <3>3, <3>4 DEF IInv, AttachInv
  <2> QED
    BY <2>1, <2>2
<1>11. ConnInv'
  <2> SUFFICES ASSUME NEW d \in Conns
               PROVE  /\ bound'[d] # None => /\ bound'[d] \in issued'
                                             /\ phase'[d] \in {"serving", "returning"}
                      /\ bound'[d] = None =>
                           /\ phase'[d] \in {"free", "greeted"}
                           /\ pos[d] = -1
                           /\ got[d] = "CONTROL"
                           /\ \A i \in DOMAIN queue'[d] : ~ IsDispatch(queue'[d][i])
                      /\ phase'[d] = "free" => d \notin writing
                      /\ pos[d] >= 0 => pos[d] <= sequence'[bound'[d]]
    BY <1>0 DEF ConnInv
  <2>1. CASE d = c
    BY <2>1, <1>0, <1>2, <1>8 DEF IInv, TypeOK
  <2>2. CASE d # c
    <3>1. bound'[d] = bound[d] /\ phase'[d] = phase[d] /\ queue'[d] = queue[d]
      BY <2>2, <1>0, <1>1 DEF IInv, TypeOK
    <3>2. sequence'[bound[d]] = sequence[bound[d]]
      BY <1>0, <1>6 DEF IInv, TypeOK
    <3> QED
      BY <3>1, <3>2, <1>0 DEF IInv, ConnInv
  <2> QED
    BY <2>1, <2>2
<1>12. BufferIsWindow'
  <2>1. /\ events'[s] = <<ready>> /\ sequence'[s] = 0 /\ log'[s] = <<"READY">>
        /\ \A t \in Sessions \ {s} : /\ events'[t] = events[t]
                                     /\ sequence'[t] = sequence[t]
                                     /\ log'[t] = log[t]
    BY <1>0, <1>4 DEF IInv, TypeOK
  <2> QED
    BY <2>1, <1>0, <1>4 DEF IInv, TypeOK, BufferIsWindow
<1>13. StreamInv'
  <2> SUFFICES ASSUME NEW d \in Conns, bound'[d] # None, d \in writing
               PROVE  /\ QueueOK(queue'[d], pos[d], sequence'[bound'[d]], log'[bound'[d]])
                      /\ client'[bound'[d]] = d =>
                           Complete(queue'[d], pos[d], sequence'[bound'[d]])
    BY <1>0 DEF StreamInv
  <2>1. CASE d = c
    <3>1. bound'[d] = s /\ sequence'[s] = 0 /\ log'[s] = <<"READY">>
      BY <2>1, <1>0 DEF IInv, TypeOK
    <3>2. CASE queue' = queue /\ client' = client
      <4>1. QueueOK(queue[d], pos[d], 0, <<"READY">>)
        BY <2>1, <1>2, OnlyControl
      <4> QED
        BY <4>1, <3>1, <3>2, <1>6, <2>1, <1>8
    <3>3. CASE queue' = [queue EXCEPT ![c] = Append(@, ready)]
      <4>1. QueueOK(queue[c], -1, -1, << >>) /\ Complete(queue[c], -1, -1)
        BY <1>2, OnlyControl DEF Complete
      <4>2. << >> \in Seq(Payloads) /\ Len(<< >>) = (-1) + 1
        OBVIOUS
      <4>3. /\ QueueOK(Append(queue[c], ready), -1, (-1) + 1, Append(<< >>, "READY"))
            /\ Complete(Append(queue[c], ready), -1, (-1) + 1)
        <5> HIDE DEF QueueOK, Complete
        <5>1. ready.seq = (-1) + 1 /\ "READY" \in Payloads /\ -1 \in Nat \cup {-1} /\ -1 <= -1
          BY <1>3 DEF Payloads
        <5> QED
          BY <4>1, <4>2, <5>1, <1>3, <1>7, AppendDispatch
      <4>4. (-1) + 1 = 0
        OBVIOUS
      <4>5. queue'[d] = Append(queue[c], ready)
        BY <2>1, <3>3 DEF IInv, TypeOK
      <4> QED
        BY <4>3, <4>4, <4>5, <3>1, <2>1, <1>2, <1>3
    <3> QED
      BY <3>2, <3>3, <1>1
  <2>2. CASE d # c
    <3>1. bound'[d] = bound[d] /\ queue'[d] = queue[d] /\ bound[d] # s /\ bound[d] \in Sessions
      BY <2>2, <1>0, <1>1, <1>6 DEF IInv, TypeOK
    <3>2. /\ sequence'[bound[d]] = sequence[bound[d]]
          /\ log'[bound[d]] = log[bound[d]]
          /\ client'[bound[d]] = client[bound[d]]
      BY <3>1, <1>0, <1>1 DEF IInv, TypeOK
    <3> QED
      BY <3>1, <3>2 DEF IInv, StreamInv
  <2> QED
    BY <2>1, <2>2
<1>14. FreshInv'
  BY <1>0, <1>1 DEF IInv, TypeOK, FreshInv
<1> QED
  BY <1>9, <1>10, <1>11, <1>12, <1>13, <1>14 DEF IInv

\* dispatchLocked on one Session: what its buffer, its log and the queues of the
\* connections bound to it are good for afterwards.
LEMMA Dispatch ==
    ASSUME IInv, NEW s \in issued, NEW x \in Payloads
    PROVE  /\ sequence[s] + 1 \in Nat
           /\ Numbered(s, x) \in Event
           /\ Numbered(s, x).seq = sequence[s] + 1
           /\ Numbered(s, x).payload = x
           /\ Len(log[s]) = sequence[s] + 1
           /\ Append(log[s], x) \in Seq(Payloads)
           /\ AppendEvent(events[s], Numbered(s, x)) \in Seq(Event)
           /\ IsWindow(AppendEvent(events[s], Numbered(s, x)), sequence[s] + 1,
                       Append(log[s], x))
           /\ \A d \in Conns : bound[d] = s /\ d \in writing =>
                /\ QueueOK(queue[d], pos[d], sequence[s] + 1, Append(log[s], x))
                /\ client[s] = d =>
                     /\ QueueOK(Append(queue[d], Numbered(s, x)), pos[d],
                                sequence[s] + 1, Append(log[s], x))
                     /\ Complete(Append(queue[d], Numbered(s, x)), pos[d], sequence[s] + 1)
<1> DEFINE e == Numbered(s, x)
<1>1. s \in Sessions /\ s # None
  BY ConstantsAssumption DEF IInv, TypeOK
<1>2. /\ sequence[s] \in Nat
      /\ sequence[s] + 1 \in Nat
      /\ events[s] \in Seq(Event)
      /\ log[s] \in Seq(Payloads)
  BY <1>1 DEF IInv, TypeOK
<1>3. e \in Event /\ e.seq = sequence[s] + 1 /\ e.payload = x
  BY <1>2 DEF Numbered, Event
<1>4. IsWindow(events[s], sequence[s], log[s])
  BY DEF IInv, BufferIsWindow
<1>5. Len(log[s]) = sequence[s] + 1
  BY <1>4 DEF IsWindow
<1> HIDE DEF e
<1>6. Append(log[s], x) \in Seq(Payloads)
  BY <1>2, AppendProperties
<1>7. /\ AppendEvent(events[s], e) \in Seq(Event)
      /\ IsWindow(AppendEvent(events[s], e), sequence[s] + 1, Append(log[s], x))
  BY <1>2, <1>3, <1>4, AppendEventWindow
<1>8. ASSUME NEW d \in Conns, bound[d] = s, d \in writing
      PROVE  /\ QueueOK(queue[d], pos[d], sequence[s] + 1, Append(log[s], x))
             /\ client[s] = d =>
                  /\ QueueOK(Append(queue[d], e), pos[d], sequence[s] + 1, Append(log[s], x))
                  /\ Complete(Append(queue[d], e), pos[d], sequence[s] + 1)
  <2>1. queue[d] \in Seq(Item) /\ pos[d] \in Nat \cup {-1}
    BY DEF IInv, TypeOK, Item
  <2>2. /\ QueueOK(queue[d], pos[d], sequence[s], log[s])
        /\ client[s] = d => Complete(queue[d], pos[d], sequence[s])
    BY <1>1, <1>8 DEF IInv, StreamInv
  <2>3. pos[d] <= sequence[s]
    BY <1>2, <1>8, <2>1 DEF IInv, ConnInv
  <2>4. QueueOK(queue[d], pos[d], sequence[s] + 1, Append(log[s], x))
    BY <2>1, <2>2, <1>2, <1>5, LogGrows
  <2>5. client[s] = d =>
          /\ QueueOK(Append(queue[d], e), pos[d], sequence[s] + 1, Append(log[s], x))
          /\ Complete(Append(queue[d], e), pos[d], sequence[s] + 1)
    BY <2>1, <2>2, <2>3, <1>2, <1>3, <1>5, AppendDispatch
  <2> QED
    BY <2>4, <2>5
<1> QED
  BY <1>2, <1>3, <1>5, <1>6, <1>7, <1>8 DEF e

\* The connection that resumes gets the events after n, then RESUMED.
LEMMA ResumeIInv ==
    ASSUME IInv, NEW c \in Conns, NEW u \in Users, NEW s \in Sessions,
           NEW n \in 0..MaxSequence, Resume(c, u, s, n)
    PROVE  IInv'
<1> DEFINE resumed == Numbered(s, "RESUMED")
           replay == ReplayAfter(s, n)
<1>0. /\ phase[c] = "greeted"
      /\ s \in Retained
      /\ n <= sequence[s]
      /\ events[s] # << >> => n >= events[s][1].seq - 1
      /\ live' = Retained
      /\ CallUserGone
      /\ sequence' = [sequence EXCEPT ![s] = resumed.seq]
      /\ events' = [events EXCEPT ![s] = AppendEvent(@, resumed)]
      /\ log' = [log EXCEPT ![s] = Append(@, "RESUMED")]
      /\ queue' = [queue EXCEPT ![c] = Append(@ \o replay, resumed)]
      /\ client' = [client EXCEPT ![s] = c]
      /\ disconnectedAt' = [disconnectedAt EXCEPT ![s] = "nil"]
      /\ done' = [d \in Conns |-> done[d] \/ d \in TakenOver(s)]
      /\ phase' = [phase EXCEPT ![c] = "serving"]
      /\ bound' = [bound EXCEPT ![c] = s]
      /\ pos' = [pos EXCEPT ![c] = n]
      /\ UNCHANGED <<issued, user, intents, writing, got>>
  BY DEF Resume, Resumable
<1>1. /\ bound[c] = None
      /\ \A i \in DOMAIN queue[c] : ~ IsDispatch(queue[c][i])
      /\ \A t \in Sessions : client[t] # c
  BY <1>0, NotServing
<1>2. s \in issued /\ s # None /\ c # None /\ n \in Nat
  BY <1>0, Prune, ConstantsAssumption
<1>3. /\ resumed \in Event
      /\ resumed.seq = sequence[s] + 1
      /\ resumed.payload = "RESUMED"
      /\ sequence[s] + 1 \in Nat
      /\ Len(log[s]) = sequence[s] + 1
      /\ Append(log[s], "RESUMED") \in Seq(Payloads)
      /\ AppendEvent(events[s], resumed) \in Seq(Event)
      /\ IsWindow(AppendEvent(events[s], resumed), sequence[s] + 1, Append(log[s], "RESUMED"))
      /\ \A d \in Conns : bound[d] = s /\ d \in writing =>
           QueueOK(queue[d], pos[d], sequence[s] + 1, Append(log[s], "RESUMED"))
  <2>1. "RESUMED" \in Payloads
    BY DEF Payloads
  <2> QED
    BY <1>2, <2>1, Dispatch
<1>4. /\ queue[c] \o replay \in Seq(Item)
      /\ QueueOK(queue[c] \o replay, n, sequence[s], log[s])
      /\ Complete(queue[c] \o replay, n, sequence[s])
  <2>1. IsWindow(events[s], sequence[s], log[s]) /\ events[s] \in Seq(Event)
        /\ sequence[s] \in Nat /\ queue[c] \in Seq(Item)
    BY <1>2 DEF IInv, BufferIsWindow, TypeOK, Item
  <2>2. n >= events[s][1].seq - 1
    <3>1. Len(events[s]) # 0
      BY <2>1 DEF IsWindow
    <3> QED
      BY <3>1, <1>0, <2>1, EmptySeq
  <2>3. /\ replay \in Seq(Event)
        /\ Len(replay) = sequence[s] - n
        /\ \A i \in 1..(sequence[s] - n) : /\ replay[i].seq = n + i
                                           /\ replay[i].payload = log[s][n + i + 1]
    <3>1. replay = EventsAfter(events[s], n) /\ n <= sequence[s]
      BY <1>0 DEF ReplayAfter
    <3>2. n \in Nat /\ sequence[s] \in Nat /\ events[s] \in Seq(Event)
          /\ IsWindow(events[s], sequence[s], log[s])
      BY <1>2, <2>1
    <3> DEFINE b == events[s]
               top == sequence[s]
               lg == log[s]
    <3>3. /\ b \in Seq(Event) /\ top \in Nat /\ IsWindow(b, top, lg)
          /\ n \in Nat /\ n <= top /\ n >= b[1].seq - 1
      BY <2>2, <3>1, <3>2
    <3>4. /\ EventsAfter(events[s], n) \in Seq(Event)
          /\ Len(EventsAfter(events[s], n)) = sequence[s] - n
          /\ \A i \in 1..(sequence[s] - n) :
               /\ EventsAfter(events[s], n)[i].seq = n + i
               /\ EventsAfter(events[s], n)[i].payload = log[s][n + i + 1]
      <4> HIDE DEF b, top, lg
      <4>1. /\ EventsAfter(b, n) \in Seq(Event)
            /\ Len(EventsAfter(b, n)) = top - n
            /\ \A i \in 1..(top - n) : /\ EventsAfter(b, n)[i].seq = n + i
                                       /\ EventsAfter(b, n)[i].payload = lg[n + i + 1]
        BY <3>3, ReplayIsSuffix
      <4> QED
        BY <4>1 DEF b, top, lg
    <3> HIDE DEF replay
    <3> QED
      BY <3>1, <3>4
  <2> HIDE DEF replay
  <2> QED
    BY <2>1, <2>3, <1>0, <1>1, <1>2, ReplayInOrder
<1> HIDE DEF resumed, replay
<1>5. /\ Append(queue[c] \o replay, resumed) \in Seq(Item)
      /\ QueueOK(Append(queue[c] \o replay, resumed), n, sequence[s] + 1,
                 Append(log[s], "RESUMED"))
      /\ Complete(Append(queue[c] \o replay, resumed), n, sequence[s] + 1)
  <2>1. "RESUMED" \in Payloads /\ resumed \in Item /\ log[s] \in Seq(Payloads)
        /\ sequence[s] \in Nat
    BY <1>2, <1>3 DEF Payloads, Item, IInv, TypeOK
  <2>2. Append(queue[c] \o replay, resumed) \in Seq(Item)
    BY <2>1, <1>4, AppendProperties
  <2> QED
    BY <2>1, <2>2, <1>0, <1>2, <1>3, <1>4, AppendDispatch
<1>6. TypeOK'
  <2>1. /\ live' \subseteq issued' /\ issued' \subseteq Sessions
        /\ goneCalls' \in [Users -> Nat]
    BY <1>0, Prune DEF IInv, TypeOK
  <2>2. /\ sequence' \in [Sessions -> Nat]
        /\ events' \in [Sessions -> Seq(Event)]
        /\ log' \in [Sessions -> Seq(Payloads)]
    BY <1>0, <1>3 DEF IInv, TypeOK
  <2>3. /\ client' \in [Sessions -> Conns \cup {None}]
        /\ disconnectedAt' \in [Sessions -> {"nil", "recent", "expired"}]
        /\ done' \in [Conns -> BOOLEAN]
    BY <1>0 DEF IInv, TypeOK
  <2>4. /\ phase' \in [Conns -> {"free", "greeted", "serving", "returning"}]
        /\ bound' \in [Conns -> Sessions \cup {None}]
        /\ queue' \in [Conns -> Seq(Event \cup {Control})]
        /\ pos' \in [Conns -> Nat \cup {-1}]
    BY <1>0, <1>2, <1>5 DEF IInv, TypeOK, Item
  <2> QED
    BY <1>0, <2>1, <2>2, <2>3, <2>4 DEF IInv, TypeOK
<1>7. AttachInv'
  <2> SUFFICES ASSUME NEW t \in Sessions
               PROVE  /\ client'[t] # None =>
                           /\ t \in live'
                           /\ bound'[client'[t]] = t
                           /\ phase'[client'[t]] \in {"serving", "returning"}
                           /\ disconnectedAt'[t] = "nil"
                      /\ t \in live' /\ client'[t] = None => disconnectedAt'[t] # "nil"
    BY DEF AttachInv
  <2>1. CASE t = s
    BY <2>1, <1>0, <1>2 DEF IInv, TypeOK
  <2>2. CASE t # s
    <3>1. client'[t] = client[t] /\ disconnectedAt'[t] = disconnectedAt[t] /\ client[t] # c
      BY <2>2, <1>0, <1>1 DEF IInv, TypeOK
    <3>2. (t \in live' => t \in live) /\ (client[t] # None => t \in live')
      BY <1>0, Prune
    <3>3. client[t] # None => /\ bound'[client[t]] = bound[client[t]]
                              /\ phase'[client[t]] = phase[client[t]]
      BY <1>0, <3>1 DEF IInv, TypeOK
    <3> QED
      BY <3>1, <3>2, <3>3 DEF IInv, AttachInv
  <2> QED
    BY <2>1, <2>2
<1>8. /\ \A t \in Sessions \ {s} : /\ sequence'[t] = sequence[t]
                                   /\ events'[t] = events[t]
                                   /\ log'[t] = log[t]
                                   /\ client'[t] = client[t]
      /\ sequence'[s] = sequence[s] + 1
      /\ events'[s] = AppendEvent(events[s], resumed)
      /\ log'[s] = Append(log[s], "RESUMED")
      /\ client'[s] = c
  BY <1>0, <1>3 DEF IInv, TypeOK
<1>9. /\ \A d \in Conns \ {c} : /\ bound'[d] = bound[d]
                                /\ queue'[d] = queue[d]
                                /\ pos'[d] = pos[d]
                                /\ phase'[d] = phase[d]
      /\ bound'[c] = s
      /\ queue'[c] = Append(queue[c] \o replay, resumed)
      /\ pos'[c] = n
      /\ phase'[c] = "serving"
  BY <1>0 DEF IInv, TypeOK
<1>10. \A t \in Sessions : sequence[t] \in Nat /\ sequence[t] <= sequence'[t]
  <2>1. \A t \in Sessions : sequence[t] \in Nat
    BY DEF IInv, TypeOK
  <2>2. \A t \in Sessions : sequence'[t] = sequence[t] \/ sequence'[t] = sequence[t] + 1
    BY <1>8
  <2> QED
    BY <2>1, <2>2
<1>11. ConnInv'
  <2> SUFFICES ASSUME NEW d \in Conns
               PROVE  /\ bound'[d] # None => /\ bound'[d] \in issued
                                             /\ phase'[d] \in {"serving", "returning"}
                      /\ bound'[d] = None =>
                           /\ phase'[d] \in {"free", "greeted"}
                           /\ pos'[d] = -1
                           /\ got[d] = "CONTROL"
                           /\ \A i \in DOMAIN queue'[d] : ~ IsDispatch(queue'[d][i])
                      /\ phase'[d] = "free" => d \notin writing
                      /\ pos'[d] >= 0 => pos'[d] <= sequence'[bound'[d]]
    BY <1>0 DEF ConnInv
  <2>1. CASE d = c
    <3>1. n <= sequence'[s]
      BY <1>0, <1>2, <1>8, <1>10
    <3> QED
      BY <2>1, <1>2, <1>9, <3>1
  <2>2. CASE d # c
    <3>1. bound[d] \in issued => bound[d] \in Sessions
      BY DEF IInv, TypeOK
    <3>2. pos[d] \in Nat \cup {-1}
      BY DEF IInv, TypeOK
    <3>3. pos[d] >= 0 => bound[d] # None
      BY DEF IInv, ConnInv
    <3>4. pos[d] >= 0 => pos[d] <= sequence[bound[d]] /\ bound[d] \in Sessions
      BY <3>1, <3>3 DEF IInv, ConnInv
    <3>5. pos[d] >= 0 => pos[d] <= sequence'[bound[d]]
      <4> SUFFICES ASSUME pos[d] >= 0
                   PROVE  pos[d] <= sequence'[bound[d]]
        OBVIOUS
      <4>1. CASE bound[d] = s
        BY <4>1, <3>2, <3>4, <1>8, <1>10
      <4>2. CASE bound[d] # s
        BY <4>2, <3>4, <1>8
      <4> QED
        BY <4>1, <4>2
    <3> QED
      BY <2>2, <3>5, <1>9 DEF IInv, ConnInv
  <2> QED
    BY <2>1, <2>2
<1>12. BufferIsWindow'
  BY <1>0, <1>3, <1>8 DEF IInv, TypeOK, BufferIsWindow
<1>13. StreamInv'
  <2> SUFFICES ASSUME NEW d \in Conns, bound'[d] # None, d \in writing
               PROVE  /\ QueueOK(queue'[d], pos'[d], sequence'[bound'[d]], log'[bound'[d]])
                      /\ client'[bound'[d]] = d =>
                           Complete(queue'[d], pos'[d], sequence'[bound'[d]])
    BY <1>0 DEF StreamInv
  <2>1. CASE d = c
    BY <2>1, <1>5, <1>8, <1>9
  <2>2. CASE d # c /\ bound[d] = s
    <3>1. QueueOK(queue[d], pos[d], sequence[s] + 1, Append(log[s], "RESUMED"))
      BY <2>2, <1>3
    <3>2. /\ bound'[d] = s /\ queue'[d] = queue[d] /\ pos'[d] = pos[d]
          /\ client'[s] # d
      BY <2>2, <1>8, <1>9
    <3>3. sequence'[s] = sequence[s] + 1 /\ log'[s] = Append(log[s], "RESUMED")
      BY <1>8
    <3> QED
      BY <3>1, <3>2, <3>3
  <2>3. CASE d # c /\ bound[d] # s
    <3>1. bound[d] \in Sessions \ {s}
      BY <2>3, <1>9 DEF IInv, TypeOK
    <3> QED
      BY <2>3, <3>1, <1>8, <1>9 DEF IInv, StreamInv
  <2> QED
    BY <2>1, <2>2, <2>3
<1>14. FreshInv'
  BY <1>0, <1>2 DEF IInv, TypeOK, FreshInv
<1> QED
  BY <1>6, <1>7, <1>11, <1>12, <1>13, <1>14 DEF IInv

\* A refused replay leaves the Session detached; RESUMED may have been numbered.
LEMMA ResumeFailsIInv ==
    ASSUME IInv, NEW c \in Conns, NEW u \in Users, NEW s \in Sessions,
           NEW n \in 0..MaxSequence, ResumeFails(c, u, s, n)
    PROVE  IInv'
<1> DEFINE resumed == Numbered(s, "RESUMED")
<1>0. /\ phase[c] = "greeted"
      /\ s \in Retained
      /\ live' = Retained
      /\ CallUserGone
      /\ client' = [client EXCEPT ![s] = None]
      /\ disconnectedAt' = [disconnectedAt EXCEPT ![s] = "recent"]
      /\ phase' = [phase EXCEPT ![c] = "free"]
      /\ done' = [d \in Conns |-> d # c /\ (done[d] \/ d \in TakenOver(s))]
      /\ queue' = [queue EXCEPT ![c] = << >>]
      /\ writing' = writing \ {c}
      /\ UNCHANGED <<issued, user, intents, bound, pos, got>>
  BY DEF ResumeFails, Resumable
<1>1. \/ UNCHANGED <<sequence, events, log>>
      \/ /\ sequence' = [sequence EXCEPT ![s] = @ + 1]
         /\ events' = [events EXCEPT ![s] = AppendEvent(@, resumed)]
         /\ log' = [log EXCEPT ![s] = Append(@, "RESUMED")]
  BY DEF ResumeFails
<1>2. /\ bound[c] = None
      /\ \A t \in Sessions : client[t] # c
  BY <1>0, NotServing
<1>3. s \in issued /\ "RESUMED" \in Payloads
  BY <1>0, Prune DEF Payloads
<1>4. /\ sequence[s] + 1 \in Nat
      /\ Append(log[s], "RESUMED") \in Seq(Payloads)
      /\ AppendEvent(events[s], resumed) \in Seq(Event)
      /\ IsWindow(AppendEvent(events[s], resumed), sequence[s] + 1, Append(log[s], "RESUMED"))
      /\ \A d \in Conns : bound[d] = s /\ d \in writing =>
           QueueOK(queue[d], pos[d], sequence[s] + 1, Append(log[s], "RESUMED"))
  BY <1>3, Dispatch
<1> HIDE DEF resumed
<1>5. TypeOK'
  <2>1. << >> \in Seq(Event \cup {Control})
    OBVIOUS
  <2>2. /\ live' \subseteq issued /\ goneCalls' \in [Users -> Nat]
    BY <1>0, Prune DEF IInv, TypeOK
  <2>3. /\ client' \in [Sessions -> Conns \cup {None}]
        /\ disconnectedAt' \in [Sessions -> {"nil", "recent", "expired"}]
        /\ phase' \in [Conns -> {"free", "greeted", "serving", "returning"}]
        /\ queue' \in [Conns -> Seq(Event \cup {Control})]
        /\ done' \in [Conns -> BOOLEAN]
        /\ writing' \subseteq Conns
    BY <1>0, <2>1 DEF IInv, TypeOK
  <2>4. /\ sequence' \in [Sessions -> Nat]
        /\ events' \in [Sessions -> Seq(Event)]
        /\ log' \in [Sessions -> Seq(Payloads)]
    BY <1>1, <1>4 DEF IInv, TypeOK
  <2> QED
    BY <1>0, <2>2, <2>3, <2>4 DEF IInv, TypeOK
<1>6. \A t \in Sessions : /\ client'[t] = IF t = s THEN None ELSE client[t]
                          /\ disconnectedAt'[t] = IF t = s THEN "recent" ELSE disconnectedAt[t]
  BY <1>0 DEF IInv, TypeOK
<1>7. AttachInv'
  <2> SUFFICES ASSUME NEW t \in Sessions
               PROVE  /\ client'[t] # None =>
                           /\ t \in live'
                           /\ bound'[client'[t]] = t
                           /\ phase'[client'[t]] \in {"serving", "returning"}
                           /\ disconnectedAt'[t] = "nil"
                      /\ t \in live' /\ client'[t] = None => disconnectedAt'[t] # "nil"
    BY DEF AttachInv
  <2>1. CASE t = s
    BY <2>1, <1>6
  <2>2. CASE t # s
    <3>1. (t \in live' => t \in live) /\ (client[t] # None => t \in live')
      BY <1>0, Prune
    <3>2. client[t] # None => phase'[client[t]] = phase[client[t]]
      BY <1>0, <1>2 DEF IInv, TypeOK
    <3> QED
      BY <2>2, <3>1, <3>2, <1>0, <1>6 DEF IInv, AttachInv
  <2> QED
    BY <2>1, <2>2
<1>8. \/ /\ sequence'[s] = sequence[s] /\ events'[s] = events[s] /\ log'[s] = log[s]
      \/ /\ sequence'[s] = sequence[s] + 1
         /\ events'[s] = AppendEvent(events[s], resumed)
         /\ log'[s] = Append(log[s], "RESUMED")
  BY <1>1 DEF IInv, TypeOK
<1>9. \A t \in Sessions \ {s} : /\ sequence'[t] = sequence[t]
                                /\ events'[t] = events[t]
                                /\ log'[t] = log[t]
  BY <1>1 DEF IInv, TypeOK
<1>10. BufferIsWindow'
  <2> SUFFICES ASSUME NEW t \in issued
               PROVE  IsWindow(events'[t], sequence'[t], log'[t])
    BY <1>0 DEF BufferIsWindow
  <2>1. CASE t = s
    BY <2>1, <1>4, <1>8 DEF IInv, BufferIsWindow
  <2>2. CASE t # s
    BY <2>2, <1>9 DEF IInv, TypeOK, BufferIsWindow
  <2> QED
    BY <2>1, <2>2
<1>11. \A d \in Conns : /\ d # c => queue'[d] = queue[d] /\ phase'[d] = phase[d]
                        /\ d = c => queue'[d] = << >> /\ phase'[d] = "free"
  BY <1>0 DEF IInv, TypeOK
<1>12. ConnInv'
  <2> SUFFICES ASSUME NEW d \in Conns
               PROVE  /\ bound[d] # None => /\ bound[d] \in issued
                                            /\ phase'[d] \in {"serving", "returning"}
                      /\ bound[d] = None =>
                           /\ phase'[d] \in {"free", "greeted"}
                           /\ pos[d] = -1
                           /\ got[d] = "CONTROL"
                           /\ \A i \in DOMAIN queue'[d] : ~ IsDispatch(queue'[d][i])
                      /\ phase'[d] = "free" => d \notin writing'
                      /\ pos[d] >= 0 => pos[d] <= sequence'[bound[d]]
    BY <1>0 DEF ConnInv
  <2>1. pos[d] >= 0 => pos[d] <= sequence'[bound[d]]
    <3> SUFFICES ASSUME pos[d] >= 0
                 PROVE  pos[d] <= sequence'[bound[d]]
      OBVIOUS
    <3>1. bound[d] \in Sessions /\ pos[d] <= sequence[bound[d]] /\ pos[d] \in Nat \cup {-1}
          /\ sequence[bound[d]] \in Nat
      BY DEF IInv, ConnInv, TypeOK
    <3>2. sequence'[bound[d]] = sequence[bound[d]]
          \/ sequence'[bound[d]] = sequence[bound[d]] + 1
      BY <3>1, <1>8, <1>9
    <3> QED
      BY <3>1, <3>2
  <2>2. CASE d = c
    BY <2>1, <2>2, <1>0, <1>2, <1>11 DEF IInv, ConnInv
  <2>3. CASE d # c
    BY <2>1, <2>3, <1>0, <1>11 DEF IInv, ConnInv
  <2> QED
    BY <2>2, <2>3
<1>13. StreamInv'
  <2> SUFFICES ASSUME NEW d \in Conns, bound[d] # None, d \in writing'
               PROVE  /\ QueueOK(queue'[d], pos[d], sequence'[bound[d]], log'[bound[d]])
                      /\ client'[bound[d]] = d =>
                           Complete(queue'[d], pos[d], sequence'[bound[d]])
    BY <1>0 DEF StreamInv
  <2>1. d # c /\ d \in writing /\ bound[d] \in Sessions /\ queue'[d] = queue[d]
        /\ d # None
    BY <1>0, <1>2, <1>11, ConstantsAssumption DEF IInv, TypeOK
  <2>2. CASE bound[d] = s
    <3>1. client'[s] # d
      BY <2>1, <1>3, <1>6 DEF IInv, TypeOK
    <3>2. QueueOK(queue[d], pos[d], sequence[s] + 1, Append(log[s], "RESUMED"))
      BY <2>1, <2>2, <1>4
    <3>3. QueueOK(queue[d], pos[d], sequence[s], log[s])
      BY <2>1, <2>2 DEF IInv, StreamInv
    <3> QED
      BY <2>1, <2>2, <3>1, <3>2, <3>3, <1>8
  <2>3. CASE bound[d] # s
    BY <2>1, <2>3, <1>6, <1>9 DEF IInv, StreamInv
  <2> QED
    BY <2>2, <2>3
<1>14. FreshInv'
  BY <1>0, <1>3, <1>6, <1>9 DEF IInv, TypeOK, FreshInv
<1> QED
  BY <1>5, <1>7, <1>10, <1>12, <1>13, <1>14 DEF IInv

\* A publish dispatches to every target at once; a Session whose connection
\* refuses is detached and keeps the event in its buffer.
LEMMA PublishIInv ==
    ASSUME IInv, NEW recipients \in SUBSET Users, NEW e \in Published,
           Publish(recipients, e)
    PROVE  IInv'
<1> DEFINE targets == Targets(recipients, e)
           attached == {s \in targets : client[s] # None}
           x(s) == PayloadFor(s, e)
<1>0. /\ live' = Retained
      /\ CallUserGone
      /\ sequence' = [s \in Sessions |->
                        IF s \in targets THEN sequence[s] + 1 ELSE sequence[s]]
      /\ events' = [s \in Sessions |->
                      IF s \in targets
                      THEN AppendEvent(events[s], Numbered(s, x(s))) ELSE events[s]]
      /\ log' = [s \in Sessions |->
                   IF s \in targets THEN Append(log[s], x(s)) ELSE log[s]]
      /\ UNCHANGED <<issued, user, intents, phase, bound, writing, pos, got>>
  BY DEF Publish
<1>1. PICK refused \in SUBSET attached :
        /\ queue' = [c \in Conns |->
                       IF bound[c] \in attached \ refused /\ client[bound[c]] = c
                       THEN Append(queue[c], Numbered(bound[c], x(bound[c])))
                       ELSE queue[c]]
        /\ done' = [c \in Conns |->
                      done[c] \/ (bound[c] \in refused /\ client[bound[c]] = c)]
        /\ client' = [s \in Sessions |-> IF s \in refused THEN None ELSE client[s]]
        /\ disconnectedAt' = [s \in Sessions |->
                                IF s \in refused THEN "recent" ELSE disconnectedAt[s]]
  BY DEF Publish
<1>2. /\ targets \subseteq Retained /\ targets \subseteq issued /\ targets \subseteq Sessions
      /\ refused \subseteq targets
      /\ \A s \in refused : client[s] # None
  BY <1>0, Prune DEF Targets, IInv, TypeOK
<1>3. \A s \in Sessions : x(s) \in Payloads
  BY ConstantsAssumption DEF PayloadFor, Payloads
<1>4. \A s \in targets :
        /\ sequence[s] + 1 \in Nat
        /\ Numbered(s, x(s)) \in Event
        /\ Append(log[s], x(s)) \in Seq(Payloads)
        /\ AppendEvent(events[s], Numbered(s, x(s))) \in Seq(Event)
        /\ IsWindow(AppendEvent(events[s], Numbered(s, x(s))), sequence[s] + 1,
                    Append(log[s], x(s)))
        /\ \A d \in Conns : bound[d] = s /\ d \in writing =>
             /\ QueueOK(queue[d], pos[d], sequence[s] + 1, Append(log[s], x(s)))
             /\ client[s] = d =>
                  /\ QueueOK(Append(queue[d], Numbered(s, x(s))), pos[d],
                             sequence[s] + 1, Append(log[s], x(s)))
                  /\ Complete(Append(queue[d], Numbered(s, x(s))), pos[d], sequence[s] + 1)
  <2> HIDE DEF targets, attached, x
  <2> QED
    BY <1>2, <1>3, Dispatch
<1> HIDE DEF targets, x
<1>5. /\ \A s \in targets : /\ sequence'[s] = sequence[s] + 1
                            /\ events'[s] = AppendEvent(events[s], Numbered(s, x(s)))
                            /\ log'[s] = Append(log[s], x(s))
      /\ \A s \in Sessions \ targets : /\ sequence'[s] = sequence[s]
                                       /\ events'[s] = events[s]
                                       /\ log'[s] = log[s]
  BY <1>0, <1>2
<1>6. \A s \in Sessions : /\ client'[s] = IF s \in refused THEN None ELSE client[s]
                          /\ disconnectedAt'[s] = IF s \in refused THEN "recent"
                                                  ELSE disconnectedAt[s]
  BY <1>1
<1>7. \A d \in Conns :
        queue'[d] = IF bound[d] \in attached \ refused /\ client[bound[d]] = d
                    THEN Append(queue[d], Numbered(bound[d], x(bound[d])))
                    ELSE queue[d]
  BY <1>1
<1>8. TypeOK'
  <2>1. live' \subseteq issued /\ goneCalls' \in [Users -> Nat]
    BY <1>0, Prune DEF IInv, TypeOK
  <2>2. /\ sequence' \in [Sessions -> Nat]
        /\ events' \in [Sessions -> Seq(Event)]
        /\ log' \in [Sessions -> Seq(Payloads)]
    BY <1>0, <1>4 DEF IInv, TypeOK
  <2>3. /\ client' \in [Sessions -> Conns \cup {None}]
        /\ disconnectedAt' \in [Sessions -> {"nil", "recent", "expired"}]
        /\ done' \in [Conns -> BOOLEAN]
    BY <1>1 DEF IInv, TypeOK
  <2>4. queue' \in [Conns -> Seq(Event \cup {Control})]
    <3> SUFFICES ASSUME NEW d \in Conns
                 PROVE  queue'[d] \in Seq(Event \cup {Control})
      BY <1>1
    <3>1. queue[d] \in Seq(Event \cup {Control})
      BY DEF IInv, TypeOK
    <3>2. bound[d] \in targets =>
            Append(queue[d], Numbered(bound[d], x(bound[d]))) \in Seq(Event \cup {Control})
      BY <3>1, <1>4, AppendProperties
    <3> QED
      BY <3>1, <3>2, <1>7
  <2> QED
    BY <1>0, <2>1, <2>2, <2>3, <2>4 DEF IInv, TypeOK
<1>9. AttachInv'
  <2> SUFFICES ASSUME NEW s \in Sessions
               PROVE  /\ client'[s] # None =>
                           /\ s \in live'
                           /\ bound[client'[s]] = s
                           /\ phase[client'[s]] \in {"serving", "returning"}
                           /\ disconnectedAt'[s] = "nil"
                      /\ s \in live' /\ client'[s] = None => disconnectedAt'[s] # "nil"
    BY <1>0 DEF AttachInv
  <2>1. (s \in live' => s \in live) /\ (client[s] # None => s \in live')
    BY <1>0, Prune
  <2> QED
    BY <2>1, <1>6 DEF IInv, AttachInv
<1>10. ConnInv'
  <2> SUFFICES ASSUME NEW d \in Conns
               PROVE  /\ bound[d] # None => bound[d] \in issued /\ phase[d] \in {"serving", "returning"}
                      /\ bound[d] = None =>
                           /\ phase[d] \in {"free", "greeted"}
                           /\ pos[d] = -1
                           /\ got[d] = "CONTROL"
                           /\ \A i \in DOMAIN queue'[d] : ~ IsDispatch(queue'[d][i])
                      /\ phase[d] = "free" => d \notin writing
                      /\ pos[d] >= 0 => pos[d] <= sequence'[bound[d]]
    BY <1>0 DEF ConnInv
  <2>1. bound[d] = None => queue'[d] = queue[d]
    BY <1>2, <1>7, ConstantsAssumption
  <2>2. pos[d] >= 0 => pos[d] <= sequence'[bound[d]]
    <3> SUFFICES ASSUME pos[d] >= 0
                 PROVE  pos[d] <= sequence'[bound[d]]
      OBVIOUS
    <3>1. bound[d] \in Sessions /\ pos[d] <= sequence[bound[d]] /\ pos[d] \in Nat \cup {-1}
          /\ sequence[bound[d]] \in Nat
      BY DEF IInv, ConnInv, TypeOK
    <3>2. sequence'[bound[d]] = sequence[bound[d]]
          \/ sequence'[bound[d]] = sequence[bound[d]] + 1
      BY <3>1, <1>5
    <3> QED
      BY <3>1, <3>2
  <2> QED
    BY <2>1, <2>2 DEF IInv, ConnInv
<1>11. BufferIsWindow'
  <2> SUFFICES ASSUME NEW s \in issued
               PROVE  IsWindow(events'[s], sequence'[s], log'[s])
    BY <1>0 DEF BufferIsWindow
  <2>1. CASE s \in targets
    BY <2>1, <1>4, <1>5
  <2>2. CASE s \notin targets
    BY <2>2, <1>5 DEF IInv, TypeOK, BufferIsWindow
  <2> QED
    BY <2>1, <2>2
<1>12. StreamInv'
  <2> SUFFICES ASSUME NEW d \in Conns, bound[d] # None, d \in writing
               PROVE  /\ QueueOK(queue'[d], pos[d], sequence'[bound[d]], log'[bound[d]])
                      /\ client'[bound[d]] = d =>
                           Complete(queue'[d], pos[d], sequence'[bound[d]])
    BY <1>0 DEF StreamInv
  <2> DEFINE s == bound[d]
  <2>0. s \in Sessions /\ d # None
    BY ConstantsAssumption DEF IInv, TypeOK
  <2>1. CASE s \in attached \ refused /\ client[s] = d
    <3>1. s \in targets /\ queue'[d] = Append(queue[d], Numbered(s, x(s)))
      BY <2>1, <1>7
    <3> QED
      BY <3>1, <2>1, <1>4, <1>5
  <2>2. CASE s \in targets /\ ~ (s \in attached \ refused /\ client[s] = d)
    <3>1. queue'[d] = queue[d] /\ client'[s] # d
      BY <2>0, <2>2, <1>6, <1>7
    <3> QED
      BY <2>2, <3>1, <1>4, <1>5
  <2>3. CASE s \notin targets
    <3>1. queue'[d] = queue[d] /\ client'[s] = client[s]
      BY <2>0, <2>3, <1>2, <1>6, <1>7
    <3> QED
      BY <2>0, <2>3, <3>1, <1>5 DEF IInv, StreamInv
  <2> QED
    BY <2>1, <2>2, <2>3
<1>13. FreshInv'
  BY <1>0, <1>2, <1>6 DEF IInv, TypeOK, FreshInv
<1> QED
  BY <1>8, <1>9, <1>10, <1>11, <1>12, <1>13 DEF IInv

-----------------------------------------------------------------------------
(* The theorems.                                                           *)

\* Every step of the hub, its connections, the clock and the sweeper keeps the invariant.
LEMMA NextIInv == IInv /\ [Next]_vars => IInv'
<1> SUFFICES ASSUME IInv, [Next]_vars
             PROVE  IInv'
  OBVIOUS
<1>1. CASE UNCHANGED vars
  BY <1>1 DEF IInv, TypeOK, AttachInv, ConnInv, BufferIsWindow, IsWindow, StreamInv,
              QueueOK, Complete, FreshInv, vars, hubVars, connVars, histVars
<1>2. ASSUME NEW c \in Conns, ConnStep(c)
      PROVE  IInv'
  <2>1. ASSUME NEW u \in Users, IdentifyRefused(c, u)
        PROVE  IInv'
    BY <2>1, RefusalIInv DEF IdentifyRefused
  <2>2. ASSUME NEW u \in Users, NEW s \in Sessions, NEW n \in 0..MaxSequence,
               ResumeRefused(c, u, s, n)
        PROVE  IInv'
    BY <2>2, RefusalIInv DEF ResumeRefused
  <2> QED
    BY <1>2, <2>1, <2>2, ConnectIInv, GiveUpIInv, IdentifyIInv, ResumeIInv,
       ResumeFailsIInv, HeartbeatIInv, LeaveLoopIInv, ReturnIInv, WriteLoopIInv,
       WriteFailsIInv DEF ConnStep
<1>3. ASSUME NEW recipients \in SUBSET Users, NEW e \in Published, Publish(recipients, e)
      PROVE  IInv'
  BY <1>3, PublishIInv
<1> QED
  BY <1>1, <1>2, <1>3, BackgroundIInv DEF Next

\* The invariant holds in every reachable state of the gateway.
LEMMA AlwaysIInv == Spec => []IInv
<1>1. Init => IInv
  BY InitIInv
<1>2. IInv /\ [Next]_vars => IInv'
  BY NextIInv
<1> QED
  BY <1>1, <1>2, PTL DEF Spec

\* The hub's and the connections' variables keep their types.
THEOREM TypeCorrect == Spec => []TypeOK
<1>1. IInv => TypeOK
  BY DEF IInv
<1> QED
  BY <1>1, AlwaysIInv, PTL

\* The replay buffer always is the window of the Session's last events
\* (dispatchLocked, appendEventLocked), for every buffer size.
THEOREM BufferCorrect == Spec => []BufferIsWindow
<1>1. IInv => BufferIsWindow
  BY DEF IInv
<1> QED
  BY <1>1, AlwaysIInv, PTL

\* Every connection writes exactly the continuation of its Session's stream,
\* whatever is published, taken over, detached or pruned meanwhile.
THEOREM DeliveryInOrder == Spec => []WritesInOrder
<1>1. ASSUME IInv, NEW c \in Conns, queue[c] # << >>, IsDispatch(Head(queue[c])),
             c \in writing
      PROVE  /\ bound[c] \in issued
             /\ Head(queue[c]).seq = pos[c] + 1
             /\ Head(queue[c]).payload = log[bound[c]][pos[c] + 2]
  <2>1. queue[c] \in Seq(Item) /\ pos[c] \in Nat \cup {-1}
    BY <1>1 DEF IInv, TypeOK, Item
  <2>2. 1 \in DOMAIN queue[c] /\ Head(queue[c]) = queue[c][1]
    BY <1>1, <2>1, LenProperties, EmptySeq, HeadTailProperties
  <2>3. bound[c] # None
    BY <1>1, <2>2 DEF IInv, ConnInv
  <2>4. bound[c] \in issued /\ sequence[bound[c]] \in Nat
    BY <1>1, <2>3 DEF IInv, ConnInv, TypeOK
  <2>5. QueueOK(queue[c], pos[c], sequence[bound[c]], log[bound[c]])
    BY <1>1, <2>3 DEF IInv, StreamInv
  <2> QED
    BY <1>1, <2>1, <2>4, <2>5, HeadIsNext
<1>2. IInv => WritesInOrder
  BY <1>1 DEF WritesInOrder
<1> QED
  BY <1>2, AlwaysIInv, PTL

\* As long as a Session is attached, its connection still holds everything that
\* it has not written (dispatchLocked detaches on the first refusal).
THEOREM NothingIsMissed == Spec => []AttachedMissesNothing
<1>1. ASSUME IInv, NEW s \in live, client[s] # None, client[s] \in writing
      PROVE  \A n \in (pos[client[s]] + 1)..sequence[s] :
               \E i \in DOMAIN queue[client[s]] : queue[client[s]][i].seq = n
  <2>1. s \in Sessions /\ s # None /\ client[s] \in Conns /\ bound[client[s]] = s
    BY <1>1, ConstantsAssumption DEF IInv, TypeOK, AttachInv
  <2> QED
    BY <1>1, <2>1 DEF IInv, StreamInv, Complete
<1>2. IInv => AttachedMissesNothing
  BY <1>1 DEF AttachedMissesNothing
<1> QED
  BY <1>2, AlwaysIInv, PTL

\* No Session is ever left behind: each one is served by the connection it is
\* attached to, or its retention clock runs (detach, prune).
THEOREM NoSessionLeaks == Spec => []NoLeakedSession
<1>1. IInv => NoLeakedSession
  BY DEF IInv, TypeOK, AttachInv, NoLeakedSession
<1> QED
  BY <1>1, AlwaysIInv, PTL

-----------------------------------------------------------------------------
(* Whom the hub dispatches to.                                             *)

\* A step that closes c, prunes, and takes no Session from another connection.
LEMMA ClosingKeepsServed ==
    ASSUME IInv, ServedIsAttached, NEW c \in Conns, CloseConn(c),
           \A s \in Sessions : client[s] # c =>
             /\ client'[s] = client[s]
             /\ client[s] # None => s \in live'
    PROVE  ServedIsAttached'
<1> SUFFICES ASSUME NEW d \in Conns, phase'[d] = "serving", ~ done'[d]
             PROVE  bound'[d] \in live' /\ client'[bound'[d]] = d
  BY DEF ServedIsAttached
<1>1. d # c /\ phase[d] = "serving" /\ ~ done[d] /\ bound'[d] = bound[d] /\ d # None
  BY ConstantsAssumption DEF CloseConn, IInv, TypeOK
<1>2. bound[d] \in Sessions /\ client[bound[d]] = d
  BY <1>1 DEF ServedIsAttached, IInv, TypeOK
<1> QED
  BY <1>1, <1>2

\* No step of a connection takes a served connection away from its Session.
LEMMA ConnStepKeepsServed ==
    ASSUME IInv, ServedIsAttached, NEW c \in Conns, ConnStep(c)
    PROVE  ServedIsAttached'
<1> USE DEF hubVars, connVars, histVars
<1>0. \A d \in Conns : d # None
  BY ConstantsAssumption
<1>1. ASSUME Connect(c) PROVE ServedIsAttached'
  BY <1>1 DEF Connect, ServedIsAttached, IInv, TypeOK
<1>2. ASSUME GiveUp(c) PROVE ServedIsAttached'
  BY <1>2, ClosingKeepsServed DEF GiveUp, IInv, AttachInv
<1>3. ASSUME phase[c] = "greeted", live' = Retained, CallUserGone, CloseConn(c),
             UNCHANGED client
      PROVE  ServedIsAttached'
  BY <1>3, Prune, ClosingKeepsServed
<1>4. ASSUME NEW u \in Users, NEW wanted \in IntentSets, NEW s \in Sessions,
             Identify(c, u, wanted, s)
      PROVE  ServedIsAttached'
  <2>1. /\ phase[c] = "greeted"
        /\ s \notin issued
        /\ live' = Retained \cup {s}
        /\ CallUserGone
        /\ phase' = [phase EXCEPT ![c] = "serving"]
        /\ bound' = [bound EXCEPT ![c] = s]
        /\ \/ client' = [client EXCEPT ![s] = c] /\ UNCHANGED done
           \/ done' = [done EXCEPT ![c] = TRUE] /\ UNCHANGED client
    BY <1>4 DEF Identify
  <2> SUFFICES ASSUME NEW d \in Conns, phase'[d] = "serving", ~ done'[d]
               PROVE  bound'[d] \in live' /\ client'[bound'[d]] = d
    BY DEF ServedIsAttached
  <2>2. CASE d = c
    BY <2>1, <2>2 DEF IInv, TypeOK
  <2>3. CASE d # c
    <3>1. phase[d] = "serving" /\ ~ done[d] /\ bound'[d] = bound[d]
      BY <2>1, <2>3 DEF IInv, TypeOK
    <3>2. bound[d] \in live /\ client[bound[d]] = d
      BY <3>1 DEF ServedIsAttached
    <3>3. bound[d] # s /\ bound[d] \in Sessions
      BY <3>2, <2>1 DEF IInv, TypeOK
    <3>4. bound[d] \in Retained
      BY <3>2, <3>3, <2>1, <1>0, Prune
    <3> QED
      BY <3>1, <3>2, <3>3, <3>4, <2>1 DEF IInv, TypeOK
  <2> QED
    BY <2>2, <2>3
<1>5. ASSUME NEW u \in Users, NEW s \in Sessions, NEW n \in 0..MaxSequence,
             Resume(c, u, s, n)
      PROVE  ServedIsAttached'
  <2>1. /\ phase[c] = "greeted"
        /\ s \in Retained
        /\ live' = Retained
        /\ CallUserGone
        /\ client' = [client EXCEPT ![s] = c]
        /\ done' = [d \in Conns |-> done[d] \/ d \in TakenOver(s)]
        /\ phase' = [phase EXCEPT ![c] = "serving"]
        /\ bound' = [bound EXCEPT ![c] = s]
    BY <1>5 DEF Resume, Resumable
  <2> SUFFICES ASSUME NEW d \in Conns, phase'[d] = "serving", ~ done'[d]
               PROVE  bound'[d] \in live' /\ client'[bound'[d]] = d
    BY DEF ServedIsAttached
  <2>2. CASE d = c
    BY <2>1, <2>2 DEF IInv, TypeOK
  <2>3. CASE d # c
    <3>1. phase[d] = "serving" /\ ~ done[d] /\ bound'[d] = bound[d] /\ d \notin TakenOver(s)
      BY <2>1, <2>3 DEF IInv, TypeOK
    <3>2. bound[d] \in Sessions /\ client[bound[d]] = d
      BY <3>1 DEF ServedIsAttached, IInv, TypeOK
    <3>3. bound[d] # s
      BY <3>1, <3>2, <1>0 DEF TakenOver
    <3>4. bound[d] \in Retained
      BY <3>2, <2>1, <1>0, Prune
    <3> QED
      BY <3>1, <3>2, <3>3, <3>4, <2>1 DEF IInv, TypeOK
  <2> QED
    BY <2>2, <2>3
<1>6. ASSUME NEW u \in Users, NEW s \in Sessions, NEW n \in 0..MaxSequence,
             ResumeFails(c, u, s, n)
      PROVE  ServedIsAttached'
  <2>1. /\ live' = Retained
        /\ CallUserGone
        /\ client' = [client EXCEPT ![s] = None]
        /\ done' = [d \in Conns |-> d # c /\ (done[d] \/ d \in TakenOver(s))]
        /\ phase' = [phase EXCEPT ![c] = "free"]
        /\ bound' = bound
    BY <1>6 DEF ResumeFails
  <2> SUFFICES ASSUME NEW d \in Conns, phase'[d] = "serving", ~ done'[d]
               PROVE  bound'[d] \in live' /\ client'[bound'[d]] = d
    BY DEF ServedIsAttached
  <2>2. d # c /\ phase[d] = "serving" /\ ~ done[d] /\ d \notin TakenOver(s)
    BY <2>1 DEF IInv, TypeOK
  <2>3. bound[d] \in Sessions /\ client[bound[d]] = d
    BY <2>2 DEF ServedIsAttached, IInv, TypeOK
  <2>4. bound[d] # s
    BY <2>2, <2>3, <1>0 DEF TakenOver
  <2>5. bound[d] \in Retained
    BY <2>3, <2>1, <1>0, Prune
  <2> QED
    BY <2>1, <2>3, <2>4, <2>5 DEF IInv, TypeOK
<1>7. ASSUME Heartbeat(c) \/ LeaveLoop(c) \/ WriteFails(c) \/ WriteLoop(c)
      PROVE  ServedIsAttached'
  <2>1. UNCHANGED <<live, client, bound>>
    BY <1>7 DEF Heartbeat, LeaveLoop, WriteFails, WriteLoop
  <2>2. \A d \in Conns : phase'[d] = "serving" /\ ~ done'[d] => phase[d] = "serving" /\ ~ done[d]
    BY <1>7 DEF Heartbeat, LeaveLoop, WriteFails, WriteLoop, IInv, TypeOK
  <2> QED
    BY <2>1, <2>2 DEF ServedIsAttached
<1>8. ASSUME Return(c) PROVE ServedIsAttached'
  <2>1. /\ CloseConn(c)
        /\ Detach(bound[c], c)
        /\ live' = live
    BY <1>8 DEF Return
  <2>2. \A s \in Sessions : client[s] # c => client'[s] = client[s]
    BY <2>1 DEF Detach, IInv, TypeOK
  <2> QED
    BY <2>1, <2>2, ClosingKeepsServed DEF IInv, AttachInv
<1> QED
  BY <1>1, <1>2, <1>3, <1>4, <1>5, <1>6, <1>7, <1>8
  DEF ConnStep, IdentifyRefused, ResumeRefused

\* A connection that is being served is the one its Session dispatches to, for
\* any mixture of takeovers, refusals and late detaches.
THEOREM ServedStaysAttached == Spec => []ServedIsAttached
<1>1. Init => ServedIsAttached
  BY DEF Init, ServedIsAttached
<1>2. IInv /\ ServedIsAttached /\ [Next]_vars => ServedIsAttached'
  <2> SUFFICES ASSUME IInv, ServedIsAttached, [Next]_vars
               PROVE  ServedIsAttached'
    OBVIOUS
  <2> USE DEF hubVars, connVars, histVars
  <2>1. CASE UNCHANGED vars
    BY <2>1 DEF ServedIsAttached, vars
  <2>2. ASSUME NEW c \in Conns, ConnStep(c)
        PROVE  ServedIsAttached'
    BY <2>2, ConnStepKeepsServed
  <2>3. ASSUME NEW recipients \in SUBSET Users, NEW e \in Published, Publish(recipients, e)
        PROVE  ServedIsAttached'
    <3> DEFINE attached == {s \in Targets(recipients, e) : client[s] # None}
    <3>1. live' = Retained /\ CallUserGone /\ UNCHANGED <<phase, bound>>
      BY <2>3 DEF Publish
    <3>2. PICK refused \in SUBSET attached :
            /\ done' = [c \in Conns |->
                          done[c] \/ (bound[c] \in refused /\ client[bound[c]] = c)]
            /\ client' = [s \in Sessions |-> IF s \in refused THEN None ELSE client[s]]
      BY <2>3 DEF Publish
    <3> SUFFICES ASSUME NEW d \in Conns, phase[d] = "serving", ~ done'[d]
                 PROVE  bound[d] \in live' /\ client'[bound[d]] = d
      BY <3>1 DEF ServedIsAttached
    <3>3. ~ done[d] /\ ~ (bound[d] \in refused /\ client[bound[d]] = d) /\ d # None
      BY <3>2, ConstantsAssumption
    <3>4. bound[d] \in Sessions /\ client[bound[d]] = d
      BY <3>3 DEF ServedIsAttached, IInv, TypeOK
    <3> QED
      BY <3>1, <3>2, <3>3, <3>4, Prune
  <2>4. ASSUME NEW s \in Sessions, RetentionElapses(s)
        PROVE  ServedIsAttached'
    BY <2>4 DEF RetentionElapses, ServedIsAttached
  <2>5. CASE Sweep
    <3>1. live' = Retained /\ CallUserGone /\ UNCHANGED <<phase, bound, done, client>>
      BY <2>5 DEF Sweep
    <3>2. \A d \in Conns : d # None
      BY ConstantsAssumption
    <3> QED
      BY <3>1, <3>2, Prune DEF ServedIsAttached, IInv, TypeOK
  <2>6. ASSUME NEW u \in Users, RunUserGone(u)
        PROVE  ServedIsAttached'
    BY <2>6 DEF RunUserGone, ServedIsAttached
  <2> QED
    BY <2>1, <2>2, <2>3, <2>4, <2>5, <2>6 DEF Next
<1> QED
  BY <1>1, <1>2, AlwaysIInv, PTL DEF Spec

-----------------------------------------------------------------------------
(* The hub implements SessionStream.                                       *)

\* Every step appends at most one payload to each log.
LEMMA LogStep ==
    ASSUME IInv, [Next]_vars
    PROVE  \A s \in Sessions : Stream!Grow(s)
<1> USE DEF hubVars, connVars, histVars, Stream!Grow
<1>1. CASE UNCHANGED log
  BY <1>1
<1>2. ASSUME NEW c \in Conns, NEW u \in Users, NEW wanted \in IntentSets,
             NEW t \in Sessions, Identify(c, u, wanted, t)
      PROVE  \A s \in Sessions : Stream!Grow(s)
  <2>1. log' = [log EXCEPT ![t] = <<"READY">>] /\ log[t] = << >>
    BY <1>2 DEF Identify, IInv, FreshInv
  <2>2. <<"READY">> = Append(<< >>, "READY") /\ "READY" \in Payloads
    BY DEF Payloads
  <2> QED
    BY <2>1, <2>2 DEF IInv, TypeOK
<1>3. ASSUME NEW t \in Sessions, log' = [log EXCEPT ![t] = Append(@, "RESUMED")]
      PROVE  \A s \in Sessions : Stream!Grow(s)
  BY <1>3 DEF Payloads, IInv, TypeOK
<1>4. ASSUME NEW recipients \in SUBSET Users, NEW e \in Published, Publish(recipients, e)
      PROVE  \A s \in Sessions : Stream!Grow(s)
  <2>1. \A s \in Sessions : PayloadFor(s, e) \in Payloads
    BY ConstantsAssumption DEF PayloadFor, Payloads
  <2>2. log' = [s \in Sessions |-> IF s \in Targets(recipients, e)
                                   THEN Append(log[s], PayloadFor(s, e)) ELSE log[s]]
    BY <1>4 DEF Publish
  <2> QED
    BY <2>1, <2>2
<1>5. ASSUME NEW c \in Conns, ConnStep(c)
      PROVE  \A s \in Sessions : Stream!Grow(s)
  <2>1. ASSUME NEW u \in Users, NEW s \in Sessions, NEW n \in 0..MaxSequence,
               Resume(c, u, s, n) \/ ResumeFails(c, u, s, n)
        PROVE  UNCHANGED log \/ log' = [log EXCEPT ![s] = Append(@, "RESUMED")]
    BY <2>1 DEF Resume, ResumeFails
  <2> QED
    BY <1>1, <1>2, <1>3, <1>5, <2>1
    DEF ConnStep, Connect, GiveUp, IdentifyRefused, ResumeRefused, Heartbeat, LeaveLoop,
        Return, WriteLoop, WriteFails
<1> QED
  BY <1>1, <1>4, <1>5 DEF Next, vars, RetentionElapses, Sweep, RunUserGone

\* Every step starts, stops, advances or leaves alone each reader.
LEMMA ReaderStep ==
    ASSUME IInv, [Next]_vars, NEW c \in Conns
    PROVE  \/ Stream!Start(c) \/ Stream!Receive(c) \/ Stream!Stop(c) \/ Stream!Idle(c)
<1> USE DEF hubVars, connVars, histVars
<1> DEFINE Goal == \/ Stream!Start(c) \/ Stream!Receive(c) \/ Stream!Stop(c)
                   \/ Stream!Idle(c)
<1>1. ASSUME bound'[c] = bound[c], pos'[c] = pos[c], got'[c] = got[c]
      PROVE  Goal
  BY <1>1 DEF Stream!Idle
<1>2. ASSUME CloseConn(c)
      PROVE  Goal
  BY <1>2 DEF CloseConn, Stream!Stop, IInv, TypeOK
<1>3. ASSUME NEW d \in Conns, d # c, ConnStep(d)
      PROVE  Goal
  <2>1. bound'[c] = bound[c] /\ pos'[c] = pos[c] /\ got'[c] = got[c]
    BY <1>3 DEF ConnStep, Connect, GiveUp, IdentifyRefused, Identify, ResumeRefused,
                Resume, ResumeFails, Heartbeat, LeaveLoop, Return, WriteLoop, WriteFails,
                CloseConn, IInv, TypeOK
  <2> QED
    BY <2>1, <1>1
<1>4. ASSUME NEW u \in Users, NEW wanted \in IntentSets, NEW s \in Sessions,
             Identify(c, u, wanted, s)
      PROVE  Goal
  <2>1. /\ phase[c] = "greeted"
        /\ s \notin issued
        /\ bound' = [bound EXCEPT ![c] = s]
        /\ UNCHANGED <<pos, got>>
    BY <1>4 DEF Identify
  <2>2. bound[c] = None /\ pos[c] = -1 /\ got[c] = "CONTROL"
    BY <2>1, NotServing
  <2>3. log[s] = << >>
    BY <2>1 DEF IInv, FreshInv
  <2>4. bound'[c] = s
    BY <2>1 DEF IInv, TypeOK
  <2>5. Stream!Start(c)
    BY <2>1, <2>2, <2>3, <2>4 DEF Stream!Start
  <2> QED
    BY <2>5
<1>5. ASSUME NEW u \in Users, NEW s \in Sessions, NEW n \in 0..MaxSequence,
             Resume(c, u, s, n)
      PROVE  Goal
  <2>1. /\ phase[c] = "greeted"
        /\ s \in Retained
        /\ n <= sequence[s]
        /\ CallUserGone
        /\ bound' = [bound EXCEPT ![c] = s]
        /\ pos' = [pos EXCEPT ![c] = n]
        /\ got' = got
    BY <1>5 DEF Resume, Resumable
  <2>2. bound[c] = None /\ got[c] = "CONTROL"
    BY <2>1, NotServing
  <2>3. s \in issued /\ sequence[s] \in Nat
    BY <2>1, Prune DEF IInv, TypeOK
  <2>4. Len(log[s]) = sequence[s] + 1
    BY <2>3 DEF IInv, BufferIsWindow, IsWindow
  <2>5. bound'[c] = s /\ pos'[c] = n
    BY <2>1 DEF IInv, TypeOK
  <2>6. n \in 0..(Len(log[s]) - 1)
    BY <2>1, <2>3, <2>4
  <2>7. Stream!Start(c)
    BY <2>1, <2>2, <2>5, <2>6 DEF Stream!Start
  <2> QED
    BY <2>7
<1>6. ASSUME WriteLoop(c)
      PROVE  Goal
  <2>1. /\ c \in writing
        /\ queue[c] # << >>
        /\ bound' = bound
    BY <1>6 DEF WriteLoop
  <2>2. CASE ~ IsDispatch(Head(queue[c]))
    BY <2>1, <2>2, <1>1, <1>6 DEF WriteLoop
  <2>3. CASE IsDispatch(Head(queue[c]))
    <3>1. /\ pos'[c] = Head(queue[c]).seq
          /\ got'[c] = Head(queue[c]).payload
      BY <2>3, <1>6 DEF WriteLoop, IInv, TypeOK
    <3>2. queue[c] \in Seq(Item) /\ pos[c] \in Nat \cup {-1}
      BY DEF IInv, TypeOK, Item
    <3>3. 1 \in DOMAIN queue[c] /\ Head(queue[c]) = queue[c][1]
      BY <2>1, <3>2, LenProperties, EmptySeq, HeadTailProperties
    <3>4. bound[c] # None
      BY <2>3, <3>3 DEF IInv, ConnInv
    <3>5. bound[c] \in issued /\ sequence[bound[c]] \in Nat
      BY <3>4 DEF IInv, ConnInv, TypeOK
    <3>6. QueueOK(queue[c], pos[c], sequence[bound[c]], log[bound[c]])
      BY <2>1, <3>4 DEF IInv, StreamInv
    <3>7. /\ Head(queue[c]).seq = pos[c] + 1
          /\ Head(queue[c]).payload = log[bound[c]][pos[c] + 2]
          /\ pos[c] + 1 <= sequence[bound[c]]
      BY <2>1, <2>3, <3>2, <3>5, <3>6, HeadIsNext
    <3>8. Len(log[bound[c]]) = sequence[bound[c]] + 1
      BY <3>5 DEF IInv, BufferIsWindow, IsWindow
    <3>9. pos'[c] = pos[c] + 1 /\ pos'[c] < Len(log[bound[c]]) /\ pos'[c] + 1 = pos[c] + 2
      BY <3>1, <3>2, <3>5, <3>7, <3>8
    <3>10. Stream!Receive(c)
      BY <2>1, <3>1, <3>4, <3>7, <3>9 DEF Stream!Receive
    <3> QED
      BY <3>10
  <2> QED
    BY <2>2, <2>3
<1>7. ASSUME ConnStep(c)
      PROVE  Goal
  <2> HIDE DEF Goal
  <2>1. ASSUME NEW u \in Users, NEW s \in Sessions, NEW n \in 0..MaxSequence,
               ResumeFails(c, u, s, n)
        PROVE  Goal
    BY <2>1, <1>1 DEF ResumeFails
  <2>2. ASSUME Connect(c) \/ Heartbeat(c) \/ LeaveLoop(c) \/ WriteFails(c)
        PROVE  Goal
    BY <2>2, <1>1 DEF Connect, Heartbeat, LeaveLoop, WriteFails
  <2>3. ASSUME \/ GiveUp(c) \/ Return(c)
               \/ \E u \in Users : IdentifyRefused(c, u)
               \/ \E u \in Users, s \in Sessions, n \in 0..MaxSequence :
                    ResumeRefused(c, u, s, n)
        PROVE  Goal
    BY <2>3, <1>2 DEF GiveUp, Return, IdentifyRefused, ResumeRefused
  <2> QED
    BY <1>7, <1>4, <1>5, <1>6, <2>1, <2>2, <2>3 DEF ConnStep
<1>8. ASSUME UNCHANGED <<bound, pos, got>>
      PROVE  Goal
  BY <1>8, <1>1
<1>9. ASSUME NEW recipients \in SUBSET Users, NEW e \in Published, Publish(recipients, e)
      PROVE  Goal
  <2>1. UNCHANGED <<bound, pos, got>>
    BY <1>9 DEF Publish
  <2> QED
    BY <2>1, <1>8
<1> QED
  <2> HIDE DEF Goal
  <2>1. ASSUME NEW d \in Conns, ConnStep(d)
        PROVE  Goal
    BY <2>1, <1>3, <1>7
  <2>2. Goal
    BY <2>1, <1>8, <1>9 DEF Next, vars, RetentionElapses, Sweep, RunUserGone
  <2> QED
    BY <2>2 DEF Goal

\* Buffers, replay, takeover, slow consumers, lost connections and retention
\* implement the reliable stream of SessionStream.
THEOREM StreamImplemented == Spec => ImplementsStream
<1>1. Init => Stream!Init
  BY DEF Init, Stream!Init
<1>2. IInv /\ IInv' /\ [Next]_vars => [Stream!Next]_(Stream!vars)
  <2> SUFFICES ASSUME IInv, IInv', [Next]_vars
               PROVE  Stream!Next
    OBVIOUS
  <2>1. DOMAIN log' = Sessions
    BY DEF IInv, TypeOK
  <2>2. DOMAIN bound' = Conns /\ DOMAIN pos' = Conns /\ DOMAIN got' = Conns
    BY DEF IInv, TypeOK
  <2>3. \A s \in Sessions : Stream!Grow(s)
    BY LogStep
  <2>4. \A c \in Conns : Stream!Start(c) \/ Stream!Receive(c) \/ Stream!Stop(c) \/ Stream!Idle(c)
    BY ReaderStep
  <2> QED
    BY <2>1, <2>2, <2>3, <2>4 DEF Stream!Next
<1> QED
  BY <1>1, <1>2, AlwaysIInv, PTL DEF Spec, ImplementsStream, Stream!Spec

-----------------------------------------------------------------------------
(* Room for a replay.                                                      *)

\* What a step makes of the queue of a connection that has neither identified nor
\* resumed: HELLO enters it, writeLoop takes from it, and nothing else.
LEMMA GreetedQueue ==
    ASSUME IInv, [Next]_vars, NEW d \in Conns, phase'[d] = "greeted"
    PROVE  \/ queue'[d] = <<Control>>
           \/ phase[d] = "greeted" /\ queue'[d] \in {queue[d], << >>}
           \/ phase[d] = "greeted" /\ queue[d] # << >> /\ queue'[d] = Tail(queue[d])
<1> DEFINE Goal == \/ queue'[d] = <<Control>>
                   \/ phase[d] = "greeted" /\ queue'[d] \in {queue[d], << >>}
                   \/ phase[d] = "greeted" /\ queue[d] # << >> /\ queue'[d] = Tail(queue[d])
<1>1. phase \in [Conns -> {"free", "greeted", "serving", "returning"}] /\ DOMAIN queue = Conns
  BY DEF IInv, TypeOK
<1>2. UNCHANGED <<phase, queue>> => Goal
  OBVIOUS
<1>3. ASSUME NEW c \in Conns, CloseConn(c)
      PROVE  Goal
  BY <1>1, <1>3 DEF CloseConn
<1>4. ASSUME NEW c \in Conns, NEW u \in Users, NEW s \in Sessions, NEW n \in 0..MaxSequence,
             Resume(c, u, s, n) \/ ResumeFails(c, u, s, n)
      PROVE  Goal
  <2>1. CASE Resume(c, u, s, n)
    BY <1>1, <2>1 DEF Resume
  <2>2. CASE ResumeFails(c, u, s, n)
    BY <1>1, <2>2 DEF ResumeFails
  <2> QED BY <1>4, <2>1, <2>2
<1>5. ASSUME NEW c \in Conns, NEW u \in Users, NEW wanted \in IntentSets, NEW s \in Sessions,
             Identify(c, u, wanted, s)
      PROVE  Goal
  BY <1>1, <1>5 DEF Identify
<1>6. ASSUME NEW c \in Conns, Connect(c) \/ Heartbeat(c) \/ LeaveLoop(c)
      PROVE  Goal
  BY <1>1, <1>6 DEF Connect, Heartbeat, LeaveLoop
<1>7. ASSUME NEW c \in Conns, WriteLoop(c) \/ WriteFails(c)
      PROVE  Goal
  BY <1>1, <1>7 DEF WriteLoop, WriteFails
<1>8. ASSUME NEW recipients \in SUBSET Users, NEW e \in Published, Publish(recipients, e)
      PROVE  Goal
  <2>1. phase' = phase
    BY <1>8 DEF Publish
  <2>2. bound[d] = None
    BY <2>1, NotServing
  <2>3. bound[d] \notin Sessions
    BY <2>2, ConstantsAssumption
  <2>4. queue'[d] = queue[d]
    BY <1>8, <2>3 DEF Publish, Targets, Retained, IInv, TypeOK
  <2> QED BY <2>1, <2>4
<1>9. ASSUME NEW c \in Conns, ConnStep(c)
      PROVE  Goal
  <2> HIDE DEF Goal
  <2> QED BY <1>9, <1>3, <1>4, <1>5, <1>6, <1>7
          DEF ConnStep, GiveUp, IdentifyRefused, ResumeRefused, Return
<1>10. Goal
  <2> HIDE DEF Goal
  <2> QED BY <1>2, <1>8, <1>9 DEF Next, vars, hubVars,
        connVars, RetentionElapses, Sweep, RunUserGone
<1> QED BY <1>10

\* A connection that has neither identified nor resumed holds at most HELLO.
HelloOnly == \A c \in Conns : phase[c] = "greeted" => Len(queue[c]) <= 1

LEMMA NextHelloOnly == IInv /\ HelloOnly /\ [Next]_vars => HelloOnly'
<1> SUFFICES ASSUME IInv, HelloOnly, [Next]_vars, NEW d \in Conns, phase'[d] = "greeted"
             PROVE  Len(queue'[d]) <= 1
  BY DEF HelloOnly
<1>1. queue[d] \in Seq(Item)
  BY DEF IInv, TypeOK, Item
<1>2. Len(<<Control>>) <= 1 /\ Len(<< >>) <= 1
  OBVIOUS
<1>3. queue[d] # << >> => Len(Tail(queue[d])) = Len(queue[d]) - 1
  BY <1>1, HeadTailProperties
<1>4. Len(queue[d]) \in Nat
  BY <1>1, LenProperties
<1>5. queue'[d] \in {<<Control>>, << >>} => Len(queue'[d]) <= 1
  BY <1>2, Zenon
<1>6. phase[d] = "greeted" => Len(queue[d]) <= 1
  BY DEF HelloOnly
<1>7. queue[d] # << >> /\ phase[d] = "greeted" => Len(Tail(queue[d])) <= 1
  BY <1>3, <1>4, <1>6
<1>8. \/ queue'[d] = <<Control>>
      \/ phase[d] = "greeted" /\ queue'[d] \in {queue[d], << >>}
      \/ phase[d] = "greeted" /\ queue[d] # << >> /\ queue'[d] = Tail(queue[d])
  BY GreetedQueue
<1> QED BY <1>5, <1>6, <1>7, <1>8

\* A queue with two places beyond the buffer, one for HELLO and one for RESUMED (newClient
\* has eight), takes any replay: a client that reconnects in time is never refused for a
\* full queue.
THEOREM ReplayFitsQueue ==
    ASSUME QueueSlack >= 2
    PROVE  Spec => []ReplayFits
<1>1. Init => HelloOnly
  BY DEF Init, HelloOnly
<1>2. IInv /\ HelloOnly => ReplayFits
  <2> SUFFICES ASSUME IInv, HelloOnly, NEW c \in Conns, NEW s \in live, phase[c] = "greeted"
               PROVE  Len(queue[c]) + Len(events[s]) + 1 <= QueueCap
    BY DEF ReplayFits
  <2> DEFINE held == Len(queue[c])
             kept == Len(events[s])
  <2>1. held <= 1 /\ held \in Nat
    BY LenProperties DEF HelloOnly, IInv, TypeOK
  <2>2. QueueSlack \in Nat /\ EventBufferSize \in Nat
    BY ConstantsAssumption
  <2>3. kept \in 1..EventBufferSize
    BY DEF IInv, TypeOK, BufferIsWindow, IsWindow
  <2> HIDE DEF held, kept
  <2>4. held + kept + 1 <= QueueCap
    BY ONLY QueueSlack >= 2, <2>1, <2>2, <2>3 DEF QueueCap
  <2> QED BY <2>4 DEF held, kept
<1> QED BY <1>1, <1>2, NextHelloOnly, AlwaysIInv, PTL DEF Spec

-----------------------------------------------------------------------------
(* The Sessions of a User.                                                 *)

Of(u, S) == {s \in S : user[s] = u}

\* Every Session in the hub belongs to a User; only IDENTIFY says to whom.
OwnedInv == \A s \in live : user[s] \in Users

\* What a step does to the Sessions in the hub.
Dropping == live' = Retained /\ CallUserGone /\ user' = user
Opening(u, s) ==
    /\ s \in Sessions \ issued /\ ~ AtCapacity(u)
    /\ live' = Retained \cup {s} /\ CallUserGone /\ user' = [user EXCEPT ![s] = u]
Calling(u) ==
    /\ goneCalls[u] > 0 /\ goneCalls' = [goneCalls EXCEPT ![u] = @ - 1]
    /\ UNCHANGED <<live, user>>

LEMMA SessionsStep ==
    ASSUME [Next]_vars
    PROVE  \/ UNCHANGED <<live, user, goneCalls>>
           \/ Dropping
           \/ \E u \in Users, s \in Sessions : Opening(u, s)
           \/ \E u \in Users : Calling(u)
<1> DEFINE Goal == \/ UNCHANGED <<live, user, goneCalls>>
                   \/ Dropping
                   \/ \E u \in Users, s \in Sessions : Opening(u, s)
                   \/ \E u \in Users : Calling(u)
<1> SUFFICES Goal
  OBVIOUS
<1>1. ASSUME NEW c \in Conns, NEW u \in Users, NEW wanted \in IntentSets, NEW s \in Sessions,
             Identify(c, u, wanted, s)
      PROVE  Goal
  <2>1. Opening(u, s)
    BY <1>1 DEF Identify, Opening
  <2> QED BY <2>1
<1>2. ASSUME NEW c \in Conns, NEW u \in Users, NEW s \in Sessions, NEW n \in 0..MaxSequence,
             \/ IdentifyRefused(c, u) \/ ResumeRefused(c, u, s, n)
             \/ Resume(c, u, s, n) \/ ResumeFails(c, u, s, n)
      PROVE  Dropping
  BY <1>2 DEF IdentifyRefused, ResumeRefused, Resume, ResumeFails, Dropping
<1>3. ASSUME NEW c \in Conns,
             \/ Connect(c) \/ GiveUp(c) \/ Heartbeat(c) \/ LeaveLoop(c) \/ Return(c)
             \/ WriteLoop(c) \/ WriteFails(c)
      PROVE  Goal
  BY <1>3 DEF Connect, GiveUp, Heartbeat, LeaveLoop, Return, WriteLoop, WriteFails, hubVars
<1>4. ASSUME NEW c \in Conns, NEW u \in Users, IdentifyRefused(c, u)
      PROVE  Dropping
  BY <1>4 DEF IdentifyRefused, Dropping
<1>5. ASSUME NEW recipients \in SUBSET Users, NEW e \in Published, Publish(recipients, e)
      PROVE  Dropping
  BY <1>5 DEF Publish, Dropping
<1>6. Sweep => Dropping
  BY DEF Sweep, Dropping
<1>7. ASSUME NEW s \in Sessions, RetentionElapses(s)
      PROVE  Goal
  BY <1>7 DEF RetentionElapses
<1>8. ASSUME NEW u \in Users, RunUserGone(u)
      PROVE  Goal
  <2>1. Calling(u)
    BY <1>8 DEF RunUserGone, Calling
  <2> QED BY <2>1
<1>9. UNCHANGED vars => Goal
  BY DEF vars, hubVars
<1>10. Dropping => Goal
  OBVIOUS
<1> HIDE DEF Goal
<1> QED BY <1>1, <1>2, <1>3, <1>4, <1>5, <1>6, <1>7, <1>8, <1>9, <1>10 DEF Next, ConnStep

\* The limits, with what they need: finite sets, Users that exist.
CapacityInv ==
    /\ OwnedInv
    /\ IsFiniteSet(live)
    /\ WithinCapacity

\* Retention only takes Sessions away.
LEMMA RetainedWithin ==
    ASSUME CapacityInv
    PROVE  /\ IsFiniteSet(Retained) /\ Cardinality(Retained) \in Nat
           /\ Cardinality(Retained) <= MaxSessions
           /\ \A u \in Users :
                /\ IsFiniteSet(Of(u, Retained)) /\ Cardinality(Of(u, Retained)) \in Nat
                /\ Cardinality(Of(u, Retained)) <= MaxSessionsPerUser
<1>1. IsFiniteSet(live) /\ Retained \in SUBSET live
  BY DEF CapacityInv, Retained
<1>2. /\ IsFiniteSet(Retained) /\ Cardinality(Retained) \in Nat
      /\ Cardinality(live) \in Nat /\ Cardinality(Retained) <= Cardinality(live)
  BY <1>1, FS_Subset, FS_CardinalityType
<1>3. ASSUME NEW u \in Users
      PROVE  /\ IsFiniteSet(Of(u, Retained)) /\ Cardinality(Of(u, Retained)) \in Nat
             /\ Cardinality(Of(u, Retained)) <= MaxSessionsPerUser
  <2>1. Of(u, live) \in SUBSET live /\ Of(u, Retained) \in SUBSET Of(u, live)
    BY <1>1 DEF Of
  <2>2. IsFiniteSet(Of(u, live))
    BY <1>1, <2>1, FS_Subset
  <2>3. /\ IsFiniteSet(Of(u, Retained)) /\ Cardinality(Of(u, Retained)) \in Nat
        /\ Cardinality(Of(u, live)) \in Nat
        /\ Cardinality(Of(u, Retained)) <= Cardinality(Of(u, live))
    BY <2>1, <2>2, FS_Subset, FS_CardinalityType
  <2>4. Cardinality(Of(u, live)) <= MaxSessionsPerUser
    BY DEF CapacityInv, WithinCapacity, Of
  <2> QED BY <2>3, <2>4, ConstantsAssumption
<1>4. Cardinality(live) <= MaxSessions
  BY DEF CapacityInv, WithinCapacity
<1> QED BY <1>2, <1>3, <1>4, ConstantsAssumption

\* A set below a limit has room for one more.
LEMMA OneMore ==
    ASSUME NEW S, IsFiniteSet(S), NEW n \in Nat, Cardinality(S) < n, NEW x
    PROVE  IsFiniteSet(S \cup {x}) /\ Cardinality(S \cup {x}) <= n
<1> DEFINE k == Cardinality(S)
<1>1. k \in Nat
  BY FS_CardinalityType
<1>2. /\ IsFiniteSet(S \cup {x})
      /\ Cardinality(S \cup {x}) = IF x \in S THEN k ELSE k + 1
  BY FS_AddElement
<1>3. k < n
  OBVIOUS
<1> QED BY ONLY <1>1, <1>2, <1>3, n \in Nat

\* A Session that is opened gets the User; what the others have stays theirs.
LEMMA OpeningOf ==
    ASSUME IInv, NEW u \in Users, NEW s \in Sessions, Opening(u, s)
    PROVE  /\ s \notin live /\ user'[s] = u
           /\ \A t \in live : user'[t] = user[t]
           /\ \A v \in Users : {t \in live' : user'[t] = v} =
                Of(v, Retained) \cup (IF v = u THEN {s} ELSE {})
<1>1. s \notin live /\ Retained \subseteq live /\ live \subseteq Sessions
  BY DEF Opening, IInv, TypeOK, Retained
<1>2. user \in [Sessions -> Users \cup {None}] /\ user' = [user EXCEPT ![s] = u]
  BY DEF Opening, IInv, TypeOK
<1>3. user'[s] = u /\ \A t \in live : user'[t] = user[t]
  BY <1>1, <1>2
<1>4. live' = Retained \cup {s}
  BY DEF Opening
<1> QED BY <1>1, <1>3, <1>4 DEF Of

LEMMA NextCapacity == IInv /\ CapacityInv /\ [Next]_vars => CapacityInv'
<1> SUFFICES ASSUME IInv, CapacityInv, [Next]_vars
             PROVE  CapacityInv'
  OBVIOUS
<1>1. CASE UNCHANGED <<live, user>>
  BY <1>1 DEF CapacityInv, OwnedInv, WithinCapacity
<1>2. CASE Dropping
  <2>1. live' = Retained /\ user' = user /\ Retained \subseteq live
    BY <1>2 DEF Dropping, Retained
  <2>2. OwnedInv'
    BY <2>1 DEF CapacityInv, OwnedInv
  <2>3. \A u \in Users : {s \in live' : user'[s] = u} = Of(u, Retained)
    BY <2>1 DEF Of
  <2> QED BY <2>1, <2>2, <2>3, RetainedWithin DEF CapacityInv, WithinCapacity
<1>3. ASSUME NEW u \in Users, NEW s \in Sessions, Opening(u, s)
      PROVE  CapacityInv'
  <2>1. live' = Retained \cup {s} /\ Retained \subseteq live /\ ~ AtCapacity(u)
    BY <1>3 DEF Opening, Retained
  <2>2. OwnedInv'
    BY <1>3, <2>1, OpeningOf DEF CapacityInv, OwnedInv
  <2>3. /\ Cardinality(Retained) < MaxSessions
        /\ Cardinality(Of(u, Retained)) < MaxSessionsPerUser
    BY <2>1, RetainedWithin, ConstantsAssumption DEF AtCapacity, Of
  <2>4. IsFiniteSet(live') /\ Cardinality(live') <= MaxSessions
    BY <2>1, <2>3, RetainedWithin, OneMore, ConstantsAssumption
  <2>5. ASSUME NEW v \in Users
        PROVE  Cardinality({t \in live' : user'[t] = v}) <= MaxSessionsPerUser
    <3>1. CASE v = u
      <4>1. {t \in live' : user'[t] = v} = Of(u, Retained) \cup {s}
        BY <1>3, <3>1, OpeningOf
      <4>2. Cardinality(Of(u, Retained) \cup {s}) <= MaxSessionsPerUser
        BY <2>3, RetainedWithin, OneMore, ConstantsAssumption
      <4> QED BY <4>1, <4>2
    <3>2. CASE v # u
      <4>1. {t \in live' : user'[t] = v} = Of(v, Retained)
        BY <1>3, <3>2, OpeningOf
      <4> QED BY <4>1, RetainedWithin
    <3> QED BY <3>1, <3>2
  <2> QED BY <2>2, <2>4, <2>5 DEF CapacityInv, WithinCapacity
<1> QED BY <1>1, <1>2, <1>3, SessionsStep DEF Calling

LEMMA InitCapacity == Init => CapacityInv
<1> SUFFICES ASSUME Init PROVE CapacityInv
  OBVIOUS
<1>1. live = {} /\ \A u \in Users : {s \in live : user[s] = u} = {}
  BY DEF Init
<1> QED BY <1>1, FS_EmptySet, ConstantsAssumption DEF CapacityInv, OwnedInv, WithinCapacity

\* Whatever is pruned, taken over and resumed in between, identify keeps within its limits,
\* for any limits (AtCapacity).
THEOREM CapacityKept == Spec => []WithinCapacity
<1>1. CapacityInv => WithinCapacity
  BY DEF CapacityInv
<1> QED BY <1>1, InitCapacity, NextCapacity, AlwaysIInv, PTL DEF Spec

\* Pruning, seen from outside: which Users have lost their last Session.
LEMMA DroppedOf ==
    /\ \A v \in Users : Of(v, Retained) = Of(v, live) \ (live \ Retained)
    /\ \A v \in Users : v \in NewlyGone <=>
         Of(v, live) # {} /\ Of(v, live) \subseteq live \ Retained
<1>1. Retained \subseteq live
  BY DEF Retained
<1> QED BY <1>1 DEF Of, NewlyGone, Holds

\* The instance's Cardinality is the one of FiniteSets.
LEMMA SameCardinality == \A S : GatewayView!Cardinality(S) = Cardinality(S)
BY DEF GatewayView!Cardinality, Cardinality

\* A prune, with the Session that is opened in the same critical section, is one Change
\* for the rest of the server.
LEMMA ChangeStep ==
    ASSUME IInv, NEW u \in Users, NEW opened \in SUBSET Sessions,
           CallUserGone, opened \cap live = {}, Cardinality(opened) <= 1,
           \A v \in Users : {s \in live' : user'[s] = v} =
             Of(v, Retained) \cup (IF v = u THEN opened ELSE {}),
           opened # {} => Cardinality({s \in live' : user'[s] = u}) <= MaxSessionsPerUser
    PROVE  GatewayView!Next
<1> DEFINE dropped == live \ Retained
<1>1. live \subseteq Sessions
  BY DEF IInv, TypeOK
<1>2. opened \cap UNION {[w \in Users |-> Of(w, live)][v] : v \in Users} = {}
  BY DEF Of
<1>3. [v \in Users |-> {s \in live' : user'[s] = v}] =
        [v \in Users |-> ([w \in Users |-> Of(w, live)][v] \ dropped) \cup
                           (IF v = u THEN opened ELSE {})]
  BY DroppedOf
<1>4. goneCalls' = [v \in Users |->
                      goneCalls[v] + IF /\ [w \in Users |-> Of(w, live)][v] # {}
                                        /\ [w \in Users |-> Of(w, live)][v] \subseteq dropped
                                     THEN 1 ELSE 0]
  BY DroppedOf DEF CallUserGone
<1>5. Cardinality(opened) <= 1
      /\ (opened # {} => Cardinality([v \in Users |-> {s \in live' : user'[s] = v}][u])
                           <= MaxSessionsPerUser)
  OBVIOUS
<1>6. GatewayView!Change(dropped, u, opened)
  BY <1>2, <1>3, <1>4, <1>5, SameCardinality DEF GatewayView!Change, Of
<1> QED BY <1>1, <1>6 DEF GatewayView!Next

LEMMA GatewayStep ==
    ASSUME IInv, CapacityInv, CapacityInv', [Next]_vars
    PROVE  [GatewayView!Next]_(GatewayView!gatewayVars)
<1>1. CASE UNCHANGED <<live, user, goneCalls>>
  BY <1>1 DEF GatewayView!gatewayVars
<1>2. CASE Dropping
  <2>1. /\ live' = Retained /\ CallUserGone /\ user' = user
        /\ Retained \subseteq live /\ live \subseteq Sessions
    BY <1>2 DEF Dropping, Retained, IInv, TypeOK
  <2>2. CASE live = Retained
    <3>1. NewlyGone = {}
      BY <2>2 DEF NewlyGone
    <3>2. goneCalls \in [Users -> Nat]
      BY DEF IInv, TypeOK
    <3>3. goneCalls' = goneCalls
      BY <2>1, <3>1, <3>2 DEF CallUserGone
    <3> QED BY <2>1, <2>2, <3>3 DEF GatewayView!gatewayVars
  <2>3. CASE live # Retained
    <3>1. PICK s \in live : s \notin Retained
      BY <2>1, <2>3
    <3>2. user[s] \in Users
      BY <3>1 DEF CapacityInv, OwnedInv
    <3>3. \A v \in Users : {t \in live' : user'[t] = v} =
            Of(v, Retained) \cup (IF v = user[s] THEN {} ELSE {})
      BY <2>1 DEF Of
    <3>4. Cardinality({}) <= 1
      BY FS_EmptySet
    <3> QED BY <2>1, <3>2, <3>3, <3>4, ChangeStep
  <2> QED BY <2>2, <2>3
<1>3. ASSUME NEW u \in Users, NEW s \in Sessions, Opening(u, s)
      PROVE  GatewayView!Next
  <2>1. /\ s \notin live
        /\ \A v \in Users : {t \in live' : user'[t] = v} =
             Of(v, Retained) \cup (IF v = u THEN {s} ELSE {})
    BY <1>3, OpeningOf
  <2>2. Cardinality({s}) <= 1
    BY FS_Singleton
  <2>3. Cardinality({t \in live' : user'[t] = u}) <= MaxSessionsPerUser
    BY DEF CapacityInv, WithinCapacity
  <2>4. CallUserGone
    BY <1>3 DEF Opening
  <2>5. {s} \in SUBSET Sessions /\ {s} \cap live = {}
    BY <2>1
  <2> HIDE DEF CallUserGone
  <2> QED BY <2>1, <2>2, <2>3, <2>4, <2>5, ChangeStep
<1>4. ASSUME NEW u \in Users, Calling(u)
      PROVE  GatewayView!Next
  <2>1. /\ UNCHANGED <<live, user>> /\ goneCalls[u] > 0
        /\ goneCalls' = [goneCalls EXCEPT ![u] = @ - 1]
    BY <1>4 DEF Calling
  <2>2. GatewayView!Run(u)
    BY <2>1 DEF GatewayView!Run
  <2> QED BY <2>2 DEF GatewayView!Next
<1> QED BY <1>1, <1>2, <1>3, <1>4, SessionsStep

\* The hub with its connections, buffers and retention implements what the rest of the
\* server relies on: a User's Sessions are opened within the limit and dropped, and one
\* onUserGone is started exactly when the last of them is dropped, even if the same
\* critical section then opens another.
THEOREM SessionsImplemented == Spec => ImplementsSessions
<1>1. Init => GatewayView!Init
  <2> SUFFICES ASSUME Init PROVE GatewayView!Init
    OBVIOUS
  <2>1. live = {} /\ goneCalls = [u \in Users |-> 0]
    BY DEF Init
  <2> QED BY <2>1 DEF GatewayView!Init
<1>2. Init => CapacityInv
  BY InitCapacity
<1> QED BY <1>1, <1>2, NextCapacity, GatewayStep, AlwaysIInv, PTL
        DEF Spec, ImplementsSessions, GatewayView!Spec
=============================================================================
