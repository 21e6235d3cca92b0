-------------------------- MODULE PyConsumerProofs ---------------------------
(***************************************************************************)
(* What PyConsumer guarantees for every stream length, batch size, number  *)
(* of retries and number of faults: the order of one subscription, the     *)
(* completeness of its replay, and that it implements AtLeastOnce, also    *)
(* when its thread stops for good.                                         *)
(***************************************************************************)
EXTENDS PyConsumer, FiniteSetTheorems, SequenceTheorems, TLAPS

------------------------------------------------------------------------------
(* The inductive invariant *)

\* A subscription is being consumed.
Consuming == thread \in {"poll", "handle", "commit"}

\* An exception leaves the loop only between two polls with an empty buffer,
\* so that nothing is in hand when a thread subscribes again.
HandsEmpty ==
  /\ thread = "subscribe" => buffer = <<>> /\ message = {}
  /\ thread = "poll" => message = {}

\* Where the replay stands: all that is pending up to readID is in hand or
\* finished with, and nothing beyond it.
ReplayPosition ==
  /\ Consuming => group
  /\ Consuming /\ replaying =>
       /\ \A id \in tried \cup InHand : id <= readID
       /\ \A id \in pel : id <= readID => id \in tried \cup InHand

\* What is committed has been served, or had no payload because it was trimmed.
CommitDue ==
  /\ \A id \in hollow : id < first
  /\ thread = "commit" => message \subseteq handled \cup hollow

Retention ==
  /\ first = 1 \/ first + MaxLen <= last + 1
  /\ ~group => cursor = 0

IInv ==
  /\ TypeOK /\ HandsEmpty /\ InOrderPerRun /\ ReplayComplete
  /\ ReplayPosition /\ CommitDue /\ Retention

------------------------------------------------------------------------------
(* Pages and buffers *)

\* A page is an initial piece of the ids it is taken from.
LEMMA PageOf ==
  ASSUME NEW ids, NEW page \in Pages(ids)
  PROVE  page \subseteq ids /\ \A p \in page, q \in ids \ page : p < q
BY DEF Pages

\* A sequence is one over any set that holds its elements.
LEMMA SeqOver ==
  ASSUME NEW S, NEW s \in Seq(S), NEW T, Range(s) \subseteq T
  PROVE  s \in Seq(T)
<1>1. Len(s) \in Nat /\ s \in [1 .. Len(s) -> S] /\ DOMAIN s = 1 .. Len(s)
  OBVIOUS
<1>2. \A i \in 1 .. Len(s) : s[i] \in T
  BY <1>1 DEF Range
<1>3. s \in [1 .. Len(s) -> T]
  BY <1>1, <1>2
<1>4. QED BY <1>1, <1>3

\* Handing out the head of a buffer: the rest follows it.
LEMMA HandOut ==
  ASSUME NEW S, NEW s \in Seq(S), s # <<>>
  PROVE  /\ Head(s) \in S /\ Tail(s) \in Seq(S)
         /\ Range(s) = {Head(s)} \cup Range(Tail(s))
         /\ (\A i, j \in DOMAIN s : i < j => s[i] < s[j]) =>
              /\ \A i, j \in DOMAIN Tail(s) : i < j => Tail(s)[i] < Tail(s)[j]
              /\ \A e \in Range(Tail(s)) : Head(s) < e
<1>1. /\ Len(s) \in Nat /\ Len(s) > 0 /\ DOMAIN s = 1 .. Len(s) /\ Head(s) = s[1] /\ s[1] \in S
      /\ Tail(s) \in Seq(S) /\ Len(Tail(s)) = Len(s) - 1 /\ DOMAIN Tail(s) = 1 .. Len(s) - 1
      /\ \A i \in 1 .. Len(s) - 1 : Tail(s)[i] = s[i + 1]
  BY HeadTailProperties
<1>2. PICK t, h : t = Tail(s) /\ h = Head(s)
  OBVIOUS
<1>3. /\ DOMAIN t = 1 .. Len(s) - 1 /\ h = s[1] /\ \A i \in DOMAIN t : t[i] = s[i + 1]
  BY <1>1, <1>2
<1>4. Range(s) = {h} \cup Range(t)
  <2>1. ASSUME NEW i \in DOMAIN s PROVE s[i] \in {h} \cup Range(t)
    <3>1. CASE i = 1
      BY <1>3, <3>1
    <3>2. CASE i # 1
      <4>1. i - 1 \in DOMAIN t /\ t[i - 1] = s[i]
        BY <1>1, <1>3, <3>2
      <4>2. QED BY <4>1 DEF Range
    <3>3. QED BY <3>1, <3>2
  <2>2. ASSUME NEW i \in DOMAIN t PROVE t[i] \in Range(s)
    <3>1. i + 1 \in DOMAIN s
      BY <1>1, <1>3
    <3>2. QED BY <1>3, <3>1 DEF Range
  <2>3. h \in Range(s)
    BY <1>1, <1>3 DEF Range
  <2>4. QED BY <2>1, <2>2, <2>3 DEF Range
<1>5. ASSUME \A i, j \in DOMAIN s : i < j => s[i] < s[j]
      PROVE  /\ \A i, j \in DOMAIN t : i < j => t[i] < t[j]
             /\ \A e \in Range(t) : h < e
  <2>1. ASSUME NEW i \in DOMAIN t, NEW j \in DOMAIN t, i < j PROVE t[i] < t[j]
    <3>1. i + 1 \in DOMAIN s /\ j + 1 \in DOMAIN s /\ i + 1 < j + 1
      BY <1>1, <1>3, <2>1
    <3>2. QED BY <1>3, <1>5, <3>1
  <2>2. ASSUME NEW j \in DOMAIN t PROVE h < t[j]
    <3>1. 1 \in DOMAIN s /\ j + 1 \in DOMAIN s /\ 1 < j + 1
      BY <1>1, <1>3
    <3>2. QED BY <1>3, <1>5, <3>1
  <2>3. QED BY <2>1, <2>2 DEF Range
<1>6. QED BY <1>1, <1>2, <1>4, <1>5

\* An empty buffer extended by a page holds the page in id order.
LEMMA Extended ==
  ASSUME buffer = <<>>, NEW page, IsFiniteSet(page), Extend(page)
  PROVE  /\ buffer' \in Seq(page) /\ Range(buffer') = page
         /\ \A i, j \in DOMAIN buffer' : i < j => buffer'[i] < buffer'[j]
<1>1. PICK reply \in Reply(page) : buffer' = buffer \o reply
  BY DEF Extend
<1>2. Cardinality(page) \in Nat
  BY FS_CardinalityType
<1>3. reply \in Seq(page)
  BY <1>2 DEF Reply
<1>4. buffer' = reply
  BY <1>1, <1>3, ConcatEmptySeq
<1>5. QED BY <1>3, <1>4 DEF Reply

------------------------------------------------------------------------------
(* Commands *)

\* The pending entries and those not delivered are finitely many numbers.
LEMMA Finite ==
  ASSUME TypeOK
  PROVE  /\ \A ids : ids \subseteq pel \/ ids \subseteq Undelivered => IsFiniteSet(ids)
         /\ \A id \in pel \cup Undelivered \cup tried \cup InHand : id \in Nat \ {0}
         /\ \A id \in pel \cup tried \cup InHand : id <= cursor
         /\ InHand \subseteq pel
<1>1. /\ first \in Nat /\ first >= 1 /\ last \in Nat /\ origin \in Nat /\ cursor \in Nat
      /\ pel \subseteq origin + 1 .. cursor
  BY StreamAssumption DEF TypeOK, StreamTypeOK
<1>2. IsFiniteSet(origin + 1 .. cursor) /\ IsFiniteSet(first .. last)
  BY <1>1, FS_Interval
<1>3. Undelivered \subseteq first .. last
  BY DEF Undelivered
<1>4. InHand \subseteq pel
  <2>1. Range(buffer) \subseteq pel
    <3>1. buffer \in Seq(pel)
      BY DEF TypeOK
    <3>2. \A i \in DOMAIN buffer : buffer[i] \in pel
      BY <3>1
    <3>3. QED BY <3>2 DEF Range
  <2>2. QED BY <2>1 DEF InHand, TypeOK
<1>5. \A ids : ids \subseteq pel \/ ids \subseteq Undelivered => IsFiniteSet(ids)
  <2>1. ASSUME NEW ids, ids \subseteq origin + 1 .. cursor \/ ids \subseteq first .. last
        PROVE  IsFiniteSet(ids)
    BY <1>2, <2>1, FS_Subset
  <2>2. QED BY <1>1, <1>3, <2>1
<1>6. tried \subseteq 1 .. cursor
  BY DEF TypeOK
<1>7. QED BY <1>1, <1>3, <1>4, <1>5, <1>6

\* XREADGROUP ">": the page lies above the group's cursor, which moves to its end.
LEMMA Delivered ==
  ASSUME IInv, NEW page \in Pages(Undelivered), page # {}, Deliver(page)
  PROVE  /\ UNCHANGED <<first, last, group, origin>> /\ pel' = pel \cup page
         /\ cursor' \in Nat /\ cursor < cursor' /\ cursor' <= last
         /\ page \in SUBSET (cursor + 1 .. cursor')
         /\ page \subseteq Undelivered /\ Undelivered' = Undelivered \ page
         /\ StreamTypeOK'
<1> USE DEF IInv
<1>1. /\ page \subseteq Undelivered
      /\ \A p \in page, q \in Undelivered \ page : p < q
  BY PageOf
<1>2. cursor' \in page /\ \A e \in page : e <= cursor'
  BY DEF Deliver, IsLast
<1>3. UNCHANGED <<first, last, group, origin>> /\ pel' = pel \cup page
  BY DEF Deliver
<1>4. cursor' \in Nat /\ cursor < cursor' /\ cursor' <= last /\ page \in SUBSET (cursor + 1 .. cursor')
  BY <1>1, <1>2 DEF Undelivered, TypeOK, StreamTypeOK
<1>5. Undelivered' = Undelivered \ page
  BY <1>1, <1>2, <1>3 DEF Undelivered, TypeOK, StreamTypeOK
<1>6. StreamTypeOK'
  <2>1. first \in Nat \ {0} /\ last \in 0 .. MaxEntries /\ first <= last + 1 /\ group \in BOOLEAN
        /\ origin \in 0 .. cursor /\ cursor \in Nat /\ pel \in SUBSET (origin + 1 .. cursor)
    BY StreamAssumption DEF TypeOK, StreamTypeOK
  <2>2. origin' \in 0 .. cursor' /\ cursor' \in 0 .. last'
    BY <1>3, <1>4, <2>1, StreamAssumption
  <2>3. pel' \in SUBSET (origin' + 1 .. cursor')
    BY <1>3, <1>4, <2>1
  <2>4. QED BY <1>3, <2>1, <2>2, <2>3 DEF StreamTypeOK
<1>7. QED BY <1>1, <1>3, <1>4, <1>5, <1>6

\* XGROUP CREATE: nothing, or a group with nothing pending.
LEMMA Created ==
  ASSUME IInv, XGroupCreate
  PROVE  /\ UNCHANGED <<first, last, pel>> /\ group' = TRUE
         /\ cursor <= cursor' /\ cursor' \in Nat
         /\ StreamTypeOK'
<1> USE DEF IInv
<1>1. /\ first \in Nat \ {0} /\ last \in 0 .. MaxEntries /\ first <= last + 1 /\ group \in BOOLEAN
      /\ origin \in 0 .. cursor /\ cursor \in 0 .. last /\ pel \in SUBSET (origin + 1 .. cursor)
  BY DEF TypeOK, StreamTypeOK
<1>2. UNCHANGED <<first, last, pel>>
  BY DEF XGroupCreate, streamVars
<1>3. group' = TRUE
  BY DEF XGroupCreate, streamVars
<1>4. origin' \in 0 .. cursor' /\ cursor' \in 0 .. last /\ cursor <= cursor' /\ pel \in SUBSET (origin' + 1 .. cursor')
  <2>1. CASE group
    BY <1>1, <2>1 DEF XGroupCreate, streamVars
  <2>2. CASE ~group
    <3>1. cursor = 0 /\ pel = {}
      BY <1>1, <2>2 DEF Retention
    <3>2. origin' \in 0 .. last /\ cursor' = origin'
      BY <1>1, <2>2, StreamAssumption DEF XGroupCreate
    <3>3. QED BY <1>1, <3>1, <3>2
  <2>3. QED BY <2>1, <2>2
<1>5. StreamTypeOK'
  <2>1. group' \in BOOLEAN
    BY <1>3
  <2>2. QED BY <1>1, <1>2, <1>4, <2>1 DEF StreamTypeOK
<1>6. cursor' \in Nat
  BY <1>1, <1>4
<1>7. QED BY <1>2, <1>3, <1>4, <1>5, <1>6

------------------------------------------------------------------------------
(* Steps *)

\* An entry is published, and the oldest ones may be trimmed.
LEMMA PublishKeeps ==
  ASSUME IInv, Publish
  PROVE  IInv'
<1> USE DEF IInv, Publish, clientVars
<1>1. /\ last \in Nat /\ last' = last + 1 /\ last < MaxEntries
      /\ first' \in Nat \ {0} /\ first <= first' /\ first' <= last' + 1
      /\ first' = first \/ first' + MaxLen <= last' + 1
      /\ UNCHANGED <<group, origin, cursor, pel>>
  BY StreamAssumption DEF XAdd, TypeOK, StreamTypeOK
<1>2. StreamTypeOK'
  BY <1>1, StreamAssumption DEF TypeOK, StreamTypeOK
<1>3. InHand' = InHand
  BY DEF InHand
<1>4. TypeOK'
  BY <1>1, <1>2, <1>3 DEF TypeOK
<1>5. HandsEmpty' /\ InOrderPerRun' /\ ReplayComplete' /\ ReplayPosition'
  BY <1>1, <1>3 DEF HandsEmpty, InOrderPerRun, ReplayComplete, ReplayPosition, Consuming
<1>6. CommitDue'
  <2>1. \A id \in hollow : id \in Nat /\ id < first
    BY Finite DEF CommitDue, TypeOK
  <2>2. \A id \in hollow : id < first'
    BY <1>1, <2>1 DEF TypeOK, StreamTypeOK
  <2>3. QED BY <2>2 DEF CommitDue
<1>7. Retention'
  <2>1. MaxLen \in Nat /\ first \in Nat
    BY StreamAssumption DEF TypeOK, StreamTypeOK
  <2>2. first' = 1 \/ first' + MaxLen <= last' + 1
    <3>1. first = 1 \/ first + MaxLen <= last + 1
      BY DEF Retention
    <3>2. CASE first' = first
      BY <1>1, <2>1, <3>1, <3>2
    <3>3. CASE first' + MaxLen <= last' + 1
      BY <3>3
    <3>4. QED BY <1>1, <3>2, <3>3
  <2>3. ~group' => cursor' = 0
    BY <1>1 DEF Retention
  <2>4. QED BY <2>2, <2>3 DEF Retention
<1>8. QED BY <1>4, <1>5, <1>6, <1>7

\* A new process starts with nothing in hand.
LEMMA StartKeeps ==
  ASSUME IInv, StartThread
  PROVE  IInv'
<1> USE DEF IInv, StartThread, streamVars
<1>1. InHand' = {}
  BY DEF InHand, Range
<1>2. readID' \in 0 .. cursor' /\ attempt' \in 1 .. Retries
  BY ConsumerAssumption DEF TypeOK, StreamTypeOK
<1>3. TypeOK'
  <2>1. StreamTypeOK'
    BY DEF TypeOK, StreamTypeOK
  <2>2. buffer' \in Seq(pel') /\ hollow' \in SUBSET InHand' /\ replaying' \in BOOLEAN
    OBVIOUS
  <2>3. QED BY <1>2, <2>1, <2>2 DEF TypeOK, Locations
<1>4. InOrderPerRun'
  BY <1>1 DEF InOrderPerRun
<1>5. HandsEmpty' /\ ReplayComplete' /\ ReplayPosition' /\ CommitDue' /\ Retention'
  BY DEF HandsEmpty, ReplayComplete, ReplayPosition, CommitDue, Retention, Consuming
<1>6. QED BY <1>3, <1>4, <1>5

\* A subscription replays from the beginning of the pending list.
LEMMA SubscribeKeeps ==
  ASSUME IInv, Subscribe
  PROVE  IInv'
<1> USE DEF IInv, Subscribe
<1>1. /\ UNCHANGED <<first, last, pel>> /\ group' = TRUE
      /\ cursor <= cursor' /\ cursor' \in Nat /\ StreamTypeOK'
  BY Created
<1>2. buffer = <<>> /\ message = {} /\ InHand' = {} /\ InHand = {}
  BY DEF HandsEmpty, InHand, Range
<1>3. TypeOK'
  <2>1. readID' \in 0 .. cursor' /\ tried' \in SUBSET (1 .. cursor') /\ handled' \in SUBSET (1 .. cursor')
    BY <1>1 DEF TypeOK, StreamTypeOK
  <2>2. buffer' \in Seq(pel') /\ message' \in SUBSET pel' /\ hollow' \in SUBSET InHand'
    BY <1>1, <1>2 DEF TypeOK
  <2>3. replaying' \in BOOLEAN
    OBVIOUS
  <2>4. QED BY <1>1, <2>1, <2>2, <2>3 DEF TypeOK, Locations
<1>4. InOrderPerRun'
  BY <1>2 DEF InOrderPerRun
<1>5. ReplayPosition'
  <2>1. \A id \in pel' : ~(id <= 0)
    BY <1>1, Finite
  <2>2. QED BY <1>1, <1>2, <2>1 DEF ReplayPosition, Consuming
<1>6. HandsEmpty' /\ ReplayComplete' /\ CommitDue' /\ Retention'
  BY <1>1, <1>2 DEF HandsEmpty, ReplayComplete, CommitDue, Retention
<1>7. QED BY <1>3, <1>4, <1>5, <1>6

\* poll_once hands out the head of the buffer.
LEMMA PollBufferedKeeps ==
  ASSUME IInv, PollBuffered
  PROVE  IInv'
<1> USE DEF IInv, PollBuffered, streamVars
<1> DEFINE h == Head(buffer)
<1>1. buffer \in Seq(pel) /\ buffer # <<>> /\ message = {}
  BY DEF TypeOK, HandsEmpty
<1>2. /\ h \in pel /\ buffer' \in Seq(pel) /\ Range(buffer) = {h} \cup Range(buffer')
      /\ (\A i, j \in DOMAIN buffer : i < j => buffer[i] < buffer[j]) =>
           /\ \A i, j \in DOMAIN buffer' : i < j => buffer'[i] < buffer'[j]
           /\ \A e \in Range(buffer') : h < e
  BY <1>1, HandOut
<1>3. message' = {h} /\ UNCHANGED <<first, last, group, origin, cursor, pel>>
  OBVIOUS
<1> HIDE DEF h
<1>4. InHand' = InHand
  BY <1>1, <1>2, <1>3 DEF InHand
<1>5. TypeOK'
  BY <1>2, <1>3, <1>4 DEF TypeOK, StreamTypeOK, Locations
<1>6. InOrderPerRun'
  BY <1>2, <1>3, <1>4 DEF InOrderPerRun
<1>7. HandsEmpty' /\ ReplayComplete' /\ ReplayPosition' /\ CommitDue' /\ Retention'
  BY <1>4 DEF HandsEmpty, ReplayComplete, ReplayPosition, CommitDue, Retention, Consuming
<1>8. QED BY <1>5, <1>6, <1>7

\* A page of the pending list, which lies above what has been replayed.
LEMMA FillPendingKeeps ==
  ASSUME IInv, FillPending
  PROVE  IInv'
<1> USE DEF IInv, FillPending, streamVars
<1>1. PICK page \in Pages(PendingAfter(readID)) :
        /\ \E id \in page : IsLast(id, page) /\ readID' = id
        /\ Extend(page)
        /\ hollow' = {id \in page : id < first}
  OBVIOUS
<1>2. /\ page \subseteq PendingAfter(readID)
      /\ \A p \in page, q \in PendingAfter(readID) \ page : p < q
  BY PageOf
<1>3. readID' \in page /\ \A e \in page : e <= readID'
  BY <1>1 DEF IsLast
<1>4. page \subseteq pel /\ IsFiniteSet(page) /\ \A id \in page : readID < id
  BY <1>2, Finite DEF PendingAfter
<1>5. /\ buffer' \in Seq(page) /\ Range(buffer') = page
      /\ \A i, j \in DOMAIN buffer' : i < j => buffer'[i] < buffer'[j]
  BY <1>1, <1>4, Extended
<1>6. message = {} /\ InHand = {} /\ InHand' = page
  BY <1>5 DEF HandsEmpty, InHand, Range
<1>7. readID \in Nat /\ readID' \in Nat /\ cursor \in Nat /\ readID' <= cursor /\ \A id \in pel \cup tried : id \in Nat
  BY <1>3, <1>4, Finite DEF TypeOK, StreamTypeOK
<1>t. \A t \in tried : t <= readID
  BY DEF ReplayPosition, Consuming
<1>8. TypeOK'
  <2>1. buffer' \in Seq(pel)
    BY <1>4, <1>5, SeqOver
  <2>2. hollow' \in SUBSET InHand' /\ readID' \in 0 .. cursor
    BY <1>1, <1>6, <1>7
  <2>3. QED BY <2>1, <2>2 DEF TypeOK, StreamTypeOK, Locations
<1>9. InOrderPerRun'
  <2>1. \A t \in tried, e \in page : t < e
    <3>1. ASSUME NEW t \in tried, NEW e \in page PROVE t < e
      <4>1. t \in Nat /\ e \in Nat /\ t <= readID /\ readID < e
        BY <1>4, <1>7, <1>t
      <4>2. QED BY <1>7, <4>1
    <3>2. QED BY <3>1
  <2>2. QED BY <1>5, <1>6, <2>1 DEF InOrderPerRun
<1>10. ReplayPosition'
  <2>1. \A id \in tried : id <= readID'
    <3>1. ASSUME NEW t \in tried PROVE t <= readID'
      <4>1. t \in Nat /\ t <= readID /\ readID < readID'
        BY <1>3, <1>4, <1>7, <1>t
      <4>2. QED BY <1>7, <4>1
    <3>2. QED BY <3>1
  <2>2. ASSUME NEW id \in pel, id <= readID' PROVE id \in tried \cup page
    <3>1. CASE id <= readID
      BY <1>6, <3>1 DEF ReplayPosition, Consuming
    <3>2. CASE ~(id <= readID)
      <4>1. id \in PendingAfter(readID)
        BY <1>7, <3>2 DEF PendingAfter
      <4>2. ~(readID' < id)
        BY <1>7, <2>2
      <4>3. QED BY <1>2, <1>3, <4>1, <4>2
    <3>3. QED BY <3>1, <3>2
  <2>3. QED BY <1>3, <1>6, <2>1, <2>2 DEF ReplayPosition, Consuming
<1>11. HandsEmpty' /\ ReplayComplete' /\ CommitDue' /\ Retention'
  BY <1>1 DEF HandsEmpty, ReplayComplete, CommitDue, Retention
<1>12. QED BY <1>8, <1>9, <1>10, <1>11

\* Nothing pending lies above readID: all of it has been offered again.
LEMMA ReplayDoneKeeps ==
  ASSUME IInv, ReplayDone
  PROVE  IInv'
<1> USE DEF IInv, ReplayDone, streamVars
<1>1. InHand' = InHand
  BY DEF InHand
<1>2. TypeOK'
  BY <1>1 DEF TypeOK, StreamTypeOK, Locations
<1>3. ReplayComplete'
  <2>1. \A id \in pel : id <= readID
    BY Finite DEF PendingAfter, TypeOK, StreamTypeOK
  <2>2. QED BY <1>1, <2>1 DEF ReplayComplete, ReplayPosition, Consuming
<1>4. HandsEmpty' /\ InOrderPerRun' /\ ReplayPosition' /\ CommitDue' /\ Retention'
  BY <1>1 DEF HandsEmpty, InOrderPerRun, ReplayPosition, CommitDue, Retention, Consuming
<1>5. QED BY <1>2, <1>3, <1>4

\* A page of new entries, which lies above everything delivered before.
LEMMA FillNewKeeps ==
  ASSUME IInv, FillNew
  PROVE  IInv'
<1> USE DEF IInv, FillNew
<1>1. PICK page \in Pages(Undelivered) : page # {} /\ Deliver(page) /\ Extend(page)
  OBVIOUS
<1>2. /\ UNCHANGED <<first, last, group, origin>> /\ pel' = pel \cup page
      /\ cursor' \in Nat /\ cursor < cursor' /\ cursor' <= last
      /\ page \in SUBSET (cursor + 1 .. cursor') /\ page \subseteq Undelivered /\ StreamTypeOK'
  BY <1>1, Delivered
<1>3. /\ buffer' \in Seq(page) /\ Range(buffer') = page
      /\ \A i, j \in DOMAIN buffer' : i < j => buffer'[i] < buffer'[j]
  BY <1>1, <1>2, Finite, Extended
<1>4. message = {} /\ InHand = {} /\ InHand' = page
  BY <1>3 DEF HandsEmpty, InHand, Range
<1>5. TypeOK'
  <2>1. buffer' \in Seq(pel')
    BY <1>2, <1>3, SeqOver
  <2>2. readID' \in 0 .. cursor' /\ tried' \in SUBSET (1 .. cursor') /\ handled' \in SUBSET (1 .. cursor')
    BY <1>2 DEF TypeOK, StreamTypeOK
  <2>3. QED BY <1>2, <1>4, <2>1, <2>2 DEF TypeOK, Locations
<1>6. InOrderPerRun'
  <2>1. \A t \in tried, e \in page : t < e
    BY <1>2 DEF TypeOK, StreamTypeOK
  <2>2. QED BY <1>3, <1>4, <2>1 DEF InOrderPerRun
<1>7. ReplayComplete'
  BY <1>2, <1>4 DEF ReplayComplete
<1>8. CommitDue' /\ Retention'
  BY <1>2 DEF CommitDue, Retention, ReplayPosition, Consuming
<1>9. HandsEmpty' /\ ReplayPosition'
  BY <1>2 DEF HandsEmpty, ReplayPosition, Consuming
<1>10. QED BY <1>5, <1>6, <1>7, <1>8, <1>9

\* The loop is done with the message, acknowledged or not; what is acknowledged
\* has been served or had no payload.
LEMMA FinishKeeps ==
  ASSUME IInv, Finish, thread \in {"handle", "commit"}, handled' = handled,
         UNCHANGED <<first, last, group, origin, cursor>>, faults' \in 0 .. MaxFaults,
         pel' = pel \/ \E id \in message : pel' = pel \ {id}
  PROVE  IInv'
<1> USE DEF IInv, Finish
<1>1. /\ buffer \in Seq(pel) /\ buffer' = buffer /\ message' = {} /\ tried' = tried \cup message
      /\ \A m \in message : (\A n \in message : m = n) /\ \A e \in Range(buffer) : m < e
      /\ pel' \subseteq pel /\ pel \ pel' \subseteq message
  BY DEF TypeOK, InOrderPerRun
<1>2. InHand = Range(buffer) \cup message /\ InHand' = Range(buffer)
  BY <1>1 DEF InHand
<1>3. InHand \subseteq pel /\ \A id \in pel : id \in Nat \ {0} /\ id <= cursor
  BY Finite
<1>4. Range(buffer) \subseteq pel'
  BY <1>1, <1>2, <1>3
<1>5. TypeOK'
  <2>1. StreamTypeOK'
    BY <1>1 DEF TypeOK, StreamTypeOK
  <2>2. buffer' \in Seq(pel')
    BY <1>1, <1>4, SeqOver
  <2>3. hollow' \in SUBSET InHand'
    BY <1>2 DEF TypeOK
  <2>4. tried' \in SUBSET (1 .. cursor') /\ cursor' \in Nat
    BY <1>1, <1>3 DEF TypeOK, StreamTypeOK
  <2>5. QED BY <1>1, <2>1, <2>2, <2>3, <2>4 DEF TypeOK, Locations
<1>6. InOrderPerRun'
  <2>1. \A t \in tried', e \in Range(buffer) : t < e
    BY <1>1, <1>2 DEF InOrderPerRun
  <2>2. QED BY <1>1, <1>2, <2>1 DEF InOrderPerRun
<1>7. tried' \cup InHand' = tried \cup InHand
  BY <1>1, <1>2
<1>8. HandsEmpty' /\ ReplayComplete'
  BY <1>1, <1>7 DEF HandsEmpty, ReplayComplete
<1>9. ReplayPosition'
  BY <1>1, <1>7 DEF ReplayPosition, Consuming
<1>10. CommitDue' /\ Retention'
  BY DEF CommitDue, Retention
<1>11. QED BY <1>5, <1>6, <1>8, <1>9, <1>10

\* The handler has served the message, unless it came without payload.
LEMMA HandlerOKKeeps ==
  ASSUME IInv, HandlerOK
  PROVE  IInv'
<1> USE DEF IInv, HandlerOK, streamVars, clientVars
<1>1. InHand' = InHand /\ message \subseteq 1 .. cursor
  <2>1. \A id \in message : id \in Nat \ {0} /\ id <= cursor
    BY Finite DEF TypeOK
  <2>2. QED BY <2>1 DEF InHand, TypeOK, StreamTypeOK
<1>2. TypeOK'
  BY <1>1 DEF TypeOK, StreamTypeOK, Locations
<1>3. HandsEmpty' /\ InOrderPerRun' /\ ReplayComplete' /\ ReplayPosition' /\ CommitDue' /\ Retention'
  BY <1>1 DEF HandsEmpty, InOrderPerRun, ReplayComplete, ReplayPosition, CommitDue, Retention, Consuming
<1>4. QED BY <1>2, <1>3

\* The loop is left, with the process or with nothing in hand.
LEMMA LeaveKeeps ==
  ASSUME IInv, UNCHANGED <<first, last, group, origin, handled, replaying, readID, buffer, hollow, message, tried>>,
         \/ cursor' = cursor /\ pel' = pel
         \/ group /\ \E page \in Pages(Undelivered) : page # {} /\ Deliver(page),
         faults' \in 0 .. MaxFaults, attempt' \in 1 .. Retries,
         \/ thread' = "down"
         \/ thread' \in {"stopped", "subscribe"} /\ buffer = <<>> /\ message = {}
  PROVE  IInv'
<1> USE DEF IInv
<1>1. InHand' = InHand
  BY DEF InHand
<1>2. /\ StreamTypeOK' /\ pel \subseteq pel' /\ cursor' \in Nat /\ cursor <= cursor' /\ cursor \in Nat
      /\ ~group => cursor' = 0
  <2>1. CASE cursor' = cursor /\ pel' = pel
    BY <2>1 DEF TypeOK, StreamTypeOK, Retention
  <2>2. CASE group /\ \E page \in Pages(Undelivered) : page # {} /\ Deliver(page)
    <3>1. cursor \in Nat
      BY DEF TypeOK, StreamTypeOK
    <3>2. QED BY <2>2, <3>1, Delivered
  <2>3. QED BY <2>1, <2>2
<1>3. TypeOK'
  <2>1. buffer' \in Seq(pel')
    <3>1. Range(buffer) \subseteq pel
      BY Finite DEF InHand
    <3>2. QED BY <1>2, <3>1, SeqOver DEF TypeOK
  <2>2. /\ readID' \in 0 .. cursor' /\ tried' \in SUBSET (1 .. cursor') /\ handled' \in SUBSET (1 .. cursor')
        /\ message' \in SUBSET pel' /\ hollow' \in SUBSET InHand'
    BY <1>1, <1>2 DEF TypeOK
  <2>3. QED BY <1>2, <2>1, <2>2 DEF TypeOK, Locations
<1>4. HandsEmpty' /\ InOrderPerRun' /\ ReplayComplete' /\ ReplayPosition'
  BY DEF HandsEmpty, InOrderPerRun, ReplayComplete, ReplayPosition, Consuming
<1>5. CommitDue' /\ Retention'
  BY <1>2 DEF CommitDue, Retention
<1>6. QED BY <1>3, <1>4, <1>5

------------------------------------------------------------------------------
(* The invariant *)

\* Before the first start there is nothing to consume.
LEMMA InitInv == Init => IInv
<1> SUFFICES ASSUME Init PROVE IInv
  OBVIOUS
<1> USE DEF Init, StreamInit
<1>1. InHand = {}
  BY DEF InHand, Range
<1>2. StreamTypeOK
  <2>1. group \in BOOLEAN
    OBVIOUS
  <2>2. QED BY <2>1, StreamAssumption DEF StreamTypeOK
<1>3. TypeOK
  <2>1. replaying \in BOOLEAN /\ buffer \in Seq(pel)
    OBVIOUS
  <2>2. QED BY <1>1, <1>2, <2>1, ConsumerAssumption DEF TypeOK, Locations
<1>4. QED BY <1>1, <1>3
  DEF IInv, HandsEmpty, InOrderPerRun, ReplayComplete, ReplayPosition, CommitDue, Retention, Consuming

\* Every step of Next, and stuttering, keeps the inductive invariant.
LEMMA NextInv == IInv /\ [Next]_vars => IInv'
<1> SUFFICES ASSUME IInv, [Next]_vars PROVE IInv'
  OBVIOUS
<1>f. Fault => faults' \in 0 .. MaxFaults
  BY ConsumerAssumption DEF Fault, IInv, TypeOK
<1>a. faults \in 0 .. MaxFaults /\ attempt \in 1 .. Retries
  BY DEF IInv, TypeOK
<1>c. LoopCrashes => /\ thread' \in {"stopped", "subscribe"} /\ attempt' \in 1 .. Retries
                     /\ UNCHANGED <<replaying, readID, buffer, hollow, message, tried, handled>>
  BY <1>a, ConsumerAssumption DEF LoopCrashes
<1>1. CASE Publish
  BY <1>1, PublishKeeps
<1>2. CASE StartThread \/ Subscribe \/ PollBuffered
  BY <1>2, StartKeeps, SubscribeKeeps, PollBufferedKeeps
<1>3. CASE FillPending \/ ReplayDone \/ FillNew
  BY <1>3, FillPendingKeeps, ReplayDoneKeeps, FillNewKeeps
<1>4. CASE HandlerOK
  BY <1>4, HandlerOKKeeps
<1>5. CASE Commit \/ CommitFails \/ HandlerFails
  <2>1. /\ Finish /\ thread \in {"handle", "commit"} /\ handled' = handled
        /\ UNCHANGED <<first, last, group, origin, cursor>> /\ faults' \in 0 .. MaxFaults
        /\ pel' = pel \/ \E id \in message : pel' = pel \ {id}
    BY <1>5, <1>f, <1>a DEF Commit, CommitFails, HandlerFails, XAck, streamVars
  <2>2. QED BY <2>1, FinishKeeps
<1>6. CASE CommandFails
  <2>1. buffer = <<>> /\ message = {}
    BY <1>6 DEF CommandFails, IInv, HandsEmpty
  <2>2. QED BY <1>6, <1>f, <1>c, <2>1, LeaveKeeps DEF CommandFails, streamVars
<1>7. CASE ReplyLost
  <2>1. buffer = <<>> /\ message = {} /\ group
    BY <1>7 DEF ReplyLost, IInv, HandsEmpty, ReplayPosition, Consuming
  <2>2. UNCHANGED <<first, last, group, origin>>
    BY <1>7 DEF ReplyLost, Deliver
  <2>3. QED BY <1>7, <1>f, <1>c, <2>1, <2>2, LeaveKeeps DEF ReplyLost
<1>8. CASE Crash
  BY <1>8, <1>f, <1>a, LeaveKeeps DEF Crash, streamVars, clientVars
<1>9. CASE Idle \/ Stopped \/ UNCHANGED vars
  <2> USE DEF IInv
  <2>1. UNCHANGED vars
    BY <1>9 DEF Idle, Stopped
  <2>2. InHand' = InHand
    BY <2>1 DEF InHand, vars, clientVars
  <2>3. TypeOK'
    BY <2>1, <2>2 DEF TypeOK, StreamTypeOK, vars, clientVars, streamVars
  <2>4. QED BY <2>1, <2>2, <2>3
    DEF HandsEmpty, InOrderPerRun, ReplayComplete, ReplayPosition, CommitDue, Retention, Consuming,
        vars, clientVars, streamVars
<1>10. QED
  BY <1>1, <1>2, <1>3, <1>4, <1>5, <1>6, <1>7, <1>8, <1>9 DEF Next, Progress

\* The inductive invariant holds of every behaviour.
THEOREM Invariance == Spec => []IInv
<1>1. QED BY InitInv, NextInv, PTL DEF Spec

\* The variables of the bus client and of its thread keep their types.
THEOREM TypeCorrect == Spec => []TypeOK
BY Invariance, PTL DEF IInv

\* One subscription hands out its entries in increasing id order, although
\* the buffer outlives a resubscription.
THEOREM OrderedSubscriptions == Spec => []InOrderPerRun
BY Invariance, PTL DEF IInv

\* A subscription turns to new entries only after the whole pending list.
THEOREM ReplaysAll == Spec => []ReplayComplete
BY Invariance, PTL DEF IInv

------------------------------------------------------------------------------
(* Refinement: every step is a step of AtLeastOnce, or changes nothing there *)

Todo == IF group THEN pel \cup Undelivered
        ELSE IF StartAtOldest THEN first .. last ELSE {}

\* Steps that touch neither the stream nor the history are invisible.
LEMMA Invisible ==
  ASSUME UNCHANGED <<first, last, group, cursor, pel, handled>>
  PROVE  UNCHANGED Promise!vars
BY DEF Promise!vars, Undelivered

\* A new entry is accepted, and those trimmed had expired.
LEMMA PublishSimulates ==
  ASSUME IInv, Publish
  PROVE  Promise!Accept
<1>1. /\ last \in Nat /\ last' = last + 1 /\ cursor \in Nat /\ cursor <= last
      /\ first \in Nat /\ first' \in Nat /\ first <= first' /\ first' <= last'
      /\ first' = first \/ first' + MaxLen <= last' + 1
      /\ MaxLen \in Nat \ {0}
      /\ UNCHANGED <<group, pel, cursor, handled>>
      /\ \A id \in pel : id <= cursor
  BY StreamAssumption, Finite DEF IInv, TypeOK, StreamTypeOK, Publish, XAdd
<1>e. ASSUME NEW id \in first .. last, id < first' PROVE id + MaxLen <= last'
  <2>1. first' # first /\ id \in Nat
    BY <1>1, <1>e
  <2>2. first' + MaxLen <= last' + 1
    BY <1>1, <2>1
  <2>3. \A f, l, m, i \in Nat : i < f /\ f + m <= l + 1 => i + m <= l
    OBVIOUS
  <2>4. last' \in Nat /\ first' \in Nat /\ MaxLen \in Nat /\ id < first'
    BY <1>1, <1>e
  <2>5. QED BY <2>1, <2>2, <2>3, <2>4
<1> DEFINE dropped == {id \in Todo : id < first' /\ id \notin pel}
           dropped0 == {id \in first .. last : id < first'}
<1>2. (group \/ StartAtOldest)' = (group \/ StartAtOldest)
  BY <1>1
<1>3. CASE group
  <2>1. Todo = pel \cup Undelivered /\ Todo' = pel \cup Undelivered'
    BY <1>1, <1>3 DEF Todo
  <2>2. Undelivered' = (Undelivered \ {id \in Undelivered : id < first'}) \cup {last'}
    BY <1>1 DEF Undelivered
  <2>3. {id \in Undelivered : id < first'} = dropped
    BY <1>1, <2>1 DEF Undelivered
  <2>4. Todo' = (Todo \ dropped) \cup {last'}
    BY <2>1, <2>2, <2>3
  <2>5. dropped \in SUBSET {id \in Todo : id + MaxLen <= last'}
    BY <1>e, <2>1, <2>3 DEF Undelivered
  <2> HIDE DEF dropped
  <2>6. QED BY <1>1, <1>2, <1>3, <2>4, <2>5 DEF Promise!Accept, Promise!Expired, Todo
<1>4. CASE ~group /\ StartAtOldest
  <2>1. Todo = first .. last /\ Todo' = first' .. last'
    BY <1>1, <1>4 DEF Todo
  <2>2. Todo' = (Todo \ dropped0) \cup {last'}
    BY <1>1, <2>1
  <2>3. dropped0 \in SUBSET {id \in Todo : id + MaxLen <= last'}
    BY <1>e, <2>1
  <2> HIDE DEF dropped0
  <2>4. QED BY <1>1, <1>2, <1>4, <2>2, <2>3 DEF Promise!Accept, Promise!Expired, Todo
<1>5. CASE ~group /\ ~StartAtOldest
  BY <1>1, <1>2, <1>5 DEF Promise!Accept, Promise!Expired
<1>6. QED BY <1>3, <1>4, <1>5

\* Every step of the consumer is a step of AtLeastOnce or invisible in it.
LEMMA StepSimulation == IInv /\ [Next]_vars => [Promise!Next]_(Promise!vars)
<1> SUFFICES ASSUME IInv, [Next]_vars
             PROVE  Promise!Next \/ UNCHANGED Promise!vars
  OBVIOUS
<1> USE DEF IInv
<1>1. CASE Publish
  BY <1>1, PublishSimulates DEF Promise!Next
<1>2. CASE Subscribe
  <2>1. CASE group
    BY <1>2, <2>1, Invisible DEF Subscribe, XGroupCreate, streamVars
  <2>2. CASE ~group
    <3>1. /\ group' = TRUE /\ first' = first /\ last' = last /\ pel' = pel
          /\ cursor' = IF StartAtOldest THEN 0 ELSE last
          /\ handled' = handled
      BY <1>2, <2>2 DEF Subscribe, XGroupCreate
    <3>2. pel = {} /\ last \in Nat /\ first \in Nat \ {0}
      BY <2>2 DEF Retention, TypeOK, StreamTypeOK
    <3>3. Undelivered' = IF StartAtOldest THEN first .. last ELSE {}
      BY <3>1, <3>2 DEF Undelivered
    <3>4. QED
      BY <2>2, <3>1, <3>2, <3>3 DEF Promise!Next, Promise!Subscribe, Promise!vars
  <2>3. QED BY <2>1, <2>2
<1>3. CASE FillNew \/ ReplyLost
  <2>1. group /\ handled' = handled
    BY <1>3 DEF FillNew, ReplyLost, LoopCrashes, ReplayPosition, Consuming
  <2>2. PICK page \in Pages(Undelivered) : page # {} /\ Deliver(page)
    BY <1>3 DEF FillNew, ReplyLost
  <2>3. /\ UNCHANGED <<first, last, group>> /\ pel' = pel \cup page
        /\ page \subseteq Undelivered /\ Undelivered' = Undelivered \ page
    BY <2>2, Delivered
  <2>4. pel' \cup Undelivered' = pel \cup Undelivered
    BY <2>3
  <2>5. QED BY <2>1, <2>3, <2>4 DEF Promise!vars
<1>4. CASE HandlerOK
  <2>1. /\ UNCHANGED <<first, last, group, cursor, pel>> /\ group
        /\ handled' = handled \cup (message \ hollow) /\ message \subseteq pel
        /\ \A m, n \in message : m = n
    BY <1>4 DEF HandlerOK, streamVars, ReplayPosition, Consuming, TypeOK, InOrderPerRun
  <2>2. CASE message \ hollow = {}
    BY <2>1, <2>2, Invisible
  <2>3. CASE message \ hollow # {}
    <3>1. PICK id \in message : id \notin hollow
      BY <2>3
    <3>2. handled' = handled \cup {id} /\ id \in pel
      BY <2>1, <3>1
    <3>3. QED BY <2>1, <3>2 DEF Promise!Next, Promise!Serve, Undelivered
  <2>4. QED BY <2>2, <2>3
<1>5. CASE Commit
  <2>1. PICK id \in message : XAck(id)
    BY <1>5 DEF Commit
  <2>2. group /\ id \in pel /\ id \notin Undelivered /\ id \in Nat \ {0}
    BY <1>5 DEF Commit, ReplayPosition, Consuming, TypeOK, StreamTypeOK, Undelivered
  <2>3. id \in handled \/ id + MaxLen <= last
    <3>1. id \in handled \cup hollow
      BY <1>5 DEF Commit, CommitDue
    <3>2. id \in hollow => id < first
      BY DEF CommitDue
    <3>3. QED
      BY <2>2, <3>1, <3>2, StreamAssumption DEF Retention, TypeOK, StreamTypeOK
  <2>4. /\ group' = group /\ last' = last /\ handled' = handled
        /\ pel' = pel \ {id} /\ Undelivered' = Undelivered
    BY <1>5, <2>1 DEF Commit, XAck, Undelivered
  <2>5. QED
    BY <2>2, <2>3, <2>4 DEF Promise!Next, Promise!Retire, Promise!Expired
<1>6. CASE \/ StartThread \/ PollBuffered \/ FillPending \/ ReplayDone \/ CommandFails
           \/ HandlerFails \/ CommitFails \/ Crash \/ Idle \/ Stopped \/ UNCHANGED vars
  BY <1>6, Invisible
  DEF StartThread, PollBuffered, FillPending, ReplayDone, CommandFails, LoopCrashes,
      HandlerFails, CommitFails, Crash, Idle, Stopped, vars, streamVars
<1>7. QED
  BY <1>1, <1>2, <1>3, <1>4, <1>5, <1>6 DEF Next, Progress

\* The consumer starts where AtLeastOnce may start.
LEMMA InitSimulation == Init => Promise!Init
BY StreamAssumption DEF Init, StreamInit, Promise!Init, Undelivered

\* The consumer implements at-least-once delivery: an entry leaves the to-do
\* list only served or expired, whatever fails, and also once the retries of
\* _consumer_loop have run out.
THEOREM Refinement == Spec => ImplementsAtLeastOnce
<1>1. IInv /\ [Next]_vars => [Promise!Next]_(Promise!vars)
  BY StepSimulation
<1>2. QED
  BY InitSimulation, <1>1, Invariance, PTL DEF Spec, ImplementsAtLeastOnce, Promise!Spec

==============================================================================
