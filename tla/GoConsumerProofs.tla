-------------------------- MODULE GoConsumerProofs ---------------------------
(***************************************************************************)
(* What GoConsumer guarantees for every stream length, batch size, number  *)
(* of retries and number of faults: its invariants, and that it implements *)
(* AtLeastOnce.                                                            *)
(***************************************************************************)
EXTENDS GoConsumer, TLAPS

\* A page is an initial piece of the ids it is taken from.
LEMMA PageOf ==
  ASSUME NEW ids, NEW page \in Pages(ids)
  PROVE  page \subseteq ids /\ \A p \in page, q \in ids \ page : p < q
BY DEF Pages

\* An interval lies above what precedes its first element.
LEMMA Above == \A a, b \in Nat : \A id \in a + 1 .. b : id > a
OBVIOUS

\* The initial state satisfies the inductive invariant.
LEMMA InitInv == Init => IInv
<1> SUFFICES ASSUME Init PROVE IInv
  OBVIOUS
<1> USE StreamAssumption, ConsumerAssumption
    DEF Init, StreamInit, StreamAssumption, ConsumerAssumption
<1>1. group \in BOOLEAN /\ replaying \in BOOLEAN
  OBVIOUS
<1>2. StreamTypeOK
  BY <1>1 DEF StreamTypeOK
<1>3. TypeOK
  BY <1>1, <1>2 DEF TypeOK, Locations
<1>4. NothingLost /\ InOrderPerRun /\ ReplayComplete
  BY DEF NothingLost, InOrderPerRun, ReplayComplete
<1>5. ReplayPosition /\ AckDue /\ Retention
  BY DEF ReplayPosition, AckDue, Retention, IsCurrent
<1>6. QED BY <1>3, <1>4, <1>5 DEF IInv

\* Finishing with the current entry, whether or not it was acknowledged,
\* keeps the invariant.
LEMMA FinishInv ==
  ASSUME IInv, NEW id \in batch, IsCurrent(id), Finish(id),
         pc \in {"handle", "ack"},
         UNCHANGED <<first, last, group, origin, cursor>>, UNCHANGED handled,
         pel' = pel \/ (pel' = pel \ {id} /\ id \in handled \cup hollow),
         faults' \in 0 .. MaxFaults
  PROVE  IInv'
<1> USE DEF IInv, Finish, IsCurrent
<1>1. StreamTypeOK'
  BY DEF TypeOK, StreamTypeOK
<1>2. batch' \in SUBSET pel' /\ hollow' \in SUBSET batch' /\ tried' \in SUBSET (1 .. cursor') /\ unseen' \in SUBSET (1 .. cursor')
  BY DEF TypeOK, StreamTypeOK
<1>3. TypeOK'
  BY <1>1, <1>2 DEF TypeOK, Locations
<1>4. NothingLost'
  BY DEF NothingLost, AckDue, TypeOK, StreamTypeOK
<1>5. InOrderPerRun'
  BY DEF InOrderPerRun, TypeOK, StreamTypeOK
<1>6. ReplayComplete'
  BY DEF ReplayComplete
<1>7. ReplayPosition'
  BY DEF ReplayPosition
<1>8. AckDue'
  BY DEF AckDue
<1>9. Retention'
  BY DEF Retention
<1>10. QED BY <1>3, <1>4, <1>5, <1>6, <1>7, <1>8, <1>9

\* Leaving Consume, by an error or with the process, keeps the invariant.
LEMMA LeaveInv ==
  ASSUME IInv, UNCHANGED streamVars, UNCHANGED <<replaying, readID, batch, hollow, tried, unseen, handled>>,
         pc' \in {"down", "ensure"}, attempt' \in 1 .. MaxConsumeRetries,
         faults' \in 0 .. MaxFaults
  PROVE  IInv'
<1> USE DEF IInv, streamVars
<1>1. TypeOK'
  BY DEF TypeOK, StreamTypeOK, Locations
<1>2. NothingLost' /\ InOrderPerRun'
  BY DEF NothingLost, InOrderPerRun
<1>3. ReplayComplete' /\ ReplayPosition' /\ AckDue' /\ Retention'
  BY DEF ReplayComplete, ReplayPosition, AckDue, Retention, IsCurrent
<1>4. QED BY <1>1, <1>2, <1>3

\* A page Redis has delivered to nobody keeps the invariant, whether Consume
\* leaves (ReplyLost) or the library asks for the next page (ReadResent).
LEMMA DeliverUnseenInv ==
  ASSUME IInv, NEW page \in Pages(Undelivered), page # {}, Deliver(page),
         UNCHANGED <<replaying, readID, batch, hollow, tried, handled>>,
         pc = "read",
         \/ pc' \in {"down", "ensure"} /\ unseen' = unseen
         \/ pc' = "read" /\ ~replaying /\ unseen' = unseen \cup page,
         attempt' \in 1 .. MaxConsumeRetries, faults' \in 0 .. MaxFaults
  PROVE  IInv'
<1> USE DEF IInv
<1>2. /\ page \subseteq Undelivered
      /\ \A p \in page, q \in Undelivered \ page : p < q
  BY PageOf
<1>3. /\ cursor' \in page
      /\ \A e \in page : e <= cursor'
  BY DEF Deliver, IsLast
<1>4. /\ first' = first /\ last' = last /\ group' = group /\ origin' = origin
      /\ cursor' \in Nat /\ cursor < cursor' /\ cursor' <= last
  BY <1>2, <1>3 DEF Deliver, Undelivered, TypeOK, StreamTypeOK
<1>5. pel' = pel \cup page /\ page \in SUBSET (cursor + 1 .. cursor')
  BY <1>2, <1>3, <1>4 DEF Deliver, Undelivered, TypeOK, StreamTypeOK
<1>6. StreamTypeOK'
  <2>1. group' \in BOOLEAN
    BY <1>4 DEF TypeOK, StreamTypeOK
  <2>2. origin' \in 0 .. cursor' /\ cursor' \in 0 .. last'
    BY <1>4 DEF TypeOK, StreamTypeOK
  <2>3. pel' \in SUBSET (origin' + 1 .. cursor')
    BY <1>4, <1>5 DEF TypeOK, StreamTypeOK
  <2>4. QED BY <1>4, <2>1, <2>2, <2>3 DEF TypeOK, StreamTypeOK
<1>7. TypeOK'
  <2>1. readID' \in 0 .. cursor' /\ tried' \in SUBSET (1 .. cursor') /\ handled' \in SUBSET (1 .. cursor')
    BY <1>4 DEF TypeOK, StreamTypeOK
  <2>2. unseen' \in SUBSET (1 .. cursor')
    <3>1. unseen' \subseteq unseen \cup page
      OBVIOUS
    <3>2. unseen \in SUBSET (1 .. cursor) /\ cursor \in Nat
      BY DEF TypeOK, StreamTypeOK
    <3>3. QED BY <1>4, <1>5, <3>1, <3>2
  <2>3. batch' \in SUBSET pel' /\ hollow' \in SUBSET batch' /\ replaying' \in BOOLEAN
    BY <1>5 DEF TypeOK
  <2>4. pc' \in Locations /\ pc' \notin {"handle", "ack"}
    BY DEF Locations
  <2>5. QED BY <1>6, <2>1, <2>2, <2>3, <2>4 DEF TypeOK
<1>8. NothingLost'
  BY <1>2, <1>3, <1>4, <1>5 DEF NothingLost, Undelivered, TypeOK, StreamTypeOK
<1>9. InOrderPerRun'
  BY DEF InOrderPerRun
<1>10. ReplayComplete'
  BY <1>5 DEF ReplayComplete
<1>11. ReplayPosition'
  BY <1>4 DEF ReplayPosition
<1>12. AckDue' /\ Retention'
  BY <1>4 DEF AckDue, Retention, ReplayPosition
<1>13. QED BY <1>7, <1>8, <1>9, <1>10, <1>11, <1>12

\* Every step of Next, and stuttering, keeps the inductive invariant.
LEMMA NextInv == IInv /\ [Next]_vars => IInv'
<1> SUFFICES ASSUME IInv, [Next]_vars PROVE IInv'
  OBVIOUS
<1> USE DEF IInv
<1>f. Fault => faults' \in 0 .. MaxFaults
  BY ConsumerAssumption DEF ConsumerAssumption, Fault, TypeOK
<1>1. CASE Publish
  <2> USE <1>1 DEF Publish, XAdd, clientVars
  <2>1. /\ last' = last + 1 /\ last < MaxEntries
        /\ first' \in Nat \ {0} /\ first <= first' /\ first' <= last' + 1
        /\ first' = first \/ first' + MaxLen <= last' + 1
    BY StreamAssumption DEF StreamAssumption, TypeOK, StreamTypeOK
  <2>2. StreamTypeOK'
    BY <2>1, StreamAssumption DEF StreamAssumption, TypeOK, StreamTypeOK
  <2>3. TypeOK'
    BY <2>2 DEF TypeOK
  <2>4. NothingLost'
    BY <2>1 DEF NothingLost, TypeOK, StreamTypeOK
  <2>5. InOrderPerRun' /\ ReplayComplete' /\ ReplayPosition'
    BY DEF InOrderPerRun, ReplayComplete, ReplayPosition
  <2>6. AckDue'
    BY <2>1 DEF AckDue, IsCurrent, TypeOK, StreamTypeOK
  <2>7. Retention'
    BY <2>1, StreamAssumption DEF StreamAssumption, Retention, TypeOK, StreamTypeOK
  <2>8. QED BY <2>3, <2>4, <2>5, <2>6, <2>7
<1>2. CASE StartProcess
  BY <1>2, ConsumerAssumption, LeaveInv
  DEF StartProcess, ConsumerAssumption, TypeOK
<1>3. CASE EnsureGroup
  <2> USE <1>3 DEF EnsureGroup
  <2>1. /\ first' = first /\ last' = last /\ pel' = pel
        /\ group' = TRUE
        /\ origin' \in 0 .. last /\ cursor' \in 0 .. last /\ origin' <= cursor'
        /\ pel \in SUBSET (origin' + 1 .. cursor')
        /\ \/ origin' = origin /\ cursor' = cursor
           \/ pel = {} /\ cursor' = origin' /\ cursor = 0
    <3>1. CASE group
      BY <3>1 DEF XGroupCreate, streamVars, TypeOK, StreamTypeOK
    <3>2. CASE ~group
      <4>1. cursor = 0 /\ origin = 0 /\ pel = {}
        BY <3>2 DEF Retention, TypeOK, StreamTypeOK
      <4>2. origin' \in 0 .. last /\ cursor' = origin' /\ group' = TRUE
        BY <3>2 DEF XGroupCreate, TypeOK, StreamTypeOK
      <4>3. first' = first /\ last' = last /\ pel' = pel
        BY <3>2 DEF XGroupCreate
      <4>4. QED BY <4>1, <4>2, <4>3 DEF TypeOK, StreamTypeOK
    <3>3. QED BY <3>1, <3>2
  <2>2. StreamTypeOK'
    <3>1. group' \in BOOLEAN
      BY <2>1
    <3>2. first' \in Nat \ {0} /\ last' \in 0 .. MaxEntries /\ first' <= last' + 1
      BY <2>1 DEF TypeOK, StreamTypeOK
    <3>3. origin' \in 0 .. cursor' /\ cursor' \in 0 .. last'
      BY <2>1 DEF TypeOK, StreamTypeOK
    <3>4. pel' \in SUBSET (origin' + 1 .. cursor')
      BY <2>1
    <3>5. QED BY <3>1, <3>2, <3>3, <3>4 DEF StreamTypeOK
  <2>3. handled' \in SUBSET (1 .. cursor')
    <3>1. handled' \in SUBSET (1 .. cursor) /\ cursor <= cursor'
      BY <2>1 DEF TypeOK, StreamTypeOK
    <3>2. QED BY <3>1, <2>1 DEF TypeOK, StreamTypeOK
  <2>4. TypeOK'
    <3>1. replaying' \in BOOLEAN
      OBVIOUS
    <3>2. readID' \in 0 .. cursor' /\ cursor' \in Nat
      BY <2>1 DEF TypeOK, StreamTypeOK
    <3>3. QED BY <2>2, <2>3, <3>1, <3>2 DEF TypeOK, Locations
  <2>5. NothingLost'
    <3>1. CASE origin' = origin /\ cursor' = cursor
      BY <2>1, <3>1 DEF NothingLost
    <3>2. CASE cursor' = origin'
      <4>1. origin' \in Nat /\ last' \in Nat
        BY <2>1 DEF TypeOK, StreamTypeOK
      <4>2. \A id \in origin' + 1 .. last' : id > origin'
        BY <4>1, Above
      <4>3. QED BY <3>2, <4>2 DEF NothingLost
    <3>3. QED BY <2>1, <3>1, <3>2
  <2>6. InOrderPerRun' /\ ReplayComplete'
    BY DEF InOrderPerRun, ReplayComplete
  <2>7. ReplayPosition'
    <3>1. \A id \in pel' : ~(id <= 0)
      BY <2>1 DEF TypeOK, StreamTypeOK
    <3>2. QED BY <2>1, <3>1 DEF ReplayPosition
  <2>8. AckDue' /\ Retention'
    BY <2>1 DEF AckDue, Retention
  <2>9. QED BY <2>4, <2>5, <2>6, <2>7, <2>8
<1>4. CASE ReadPending
  <2> USE <1>4 DEF ReadPending, streamVars
  <2>1. PICK page \in Pages(PendingAfter(readID)) :
          /\ page # {}
          /\ \E id \in page : IsLast(id, page) /\ readID' = id
          /\ batch' = page
          /\ hollow' = { id \in page : id < first }
    OBVIOUS
  <2>2. /\ page \subseteq PendingAfter(readID)
        /\ \A p \in page, q \in PendingAfter(readID) \ page : p < q
    BY PageOf
  <2>3. readID' \in page /\ \A e \in page : e <= readID'
    BY <2>1 DEF IsLast
  <2>4. StreamTypeOK'
    BY DEF TypeOK, StreamTypeOK
  <2>5. TypeOK'
    BY <2>1, <2>2, <2>3, <2>4 DEF TypeOK, StreamTypeOK, Locations, PendingAfter
  <2>6. NothingLost'
    BY DEF NothingLost
  <2>7. InOrderPerRun'
    BY <2>1, <2>2 DEF InOrderPerRun, PendingAfter, ReplayPosition, TypeOK, StreamTypeOK
  <2>8. ReplayComplete'
    BY DEF ReplayComplete
  <2>9. ReplayPosition'
    BY <2>1, <2>2, <2>3 DEF ReplayPosition, PendingAfter, TypeOK, StreamTypeOK
  <2>10. AckDue' /\ Retention'
    BY <2>1 DEF AckDue, Retention
  <2>11. QED BY <2>5, <2>6, <2>7, <2>8, <2>9, <2>10
<1>5. CASE ReplayDone
  <2> USE <1>5 DEF ReplayDone, streamVars
  <2>1. TypeOK'
    BY DEF TypeOK, StreamTypeOK
  <2>2. ReplayComplete'
    BY DEF ReplayComplete, ReplayPosition, PendingAfter, TypeOK, StreamTypeOK
  <2>3. NothingLost' /\ InOrderPerRun' /\ ReplayPosition' /\ AckDue' /\ Retention'
    BY DEF NothingLost, InOrderPerRun, ReplayPosition, AckDue, Retention, IsCurrent
  <2>4. QED BY <2>1, <2>2, <2>3
<1>6. CASE ReadNew
  <2> USE <1>6 DEF ReadNew, Deliver
  <2>1. PICK page \in Pages(Undelivered) :
          page # {} /\ Deliver(page) /\ batch' = page
    OBVIOUS
  <2>2. /\ page \subseteq Undelivered
        /\ \A p \in page, q \in Undelivered \ page : p < q
    BY PageOf
  <2>3. /\ cursor' \in page
        /\ \A e \in page : e <= cursor'
    BY <2>1 DEF IsLast
  <2>4. cursor < cursor' /\ cursor' <= last
    BY <2>2, <2>3 DEF Undelivered, TypeOK, StreamTypeOK
  <2>5. pel' = pel \cup page /\ page \in SUBSET (cursor + 1 .. cursor')
    BY <2>1, <2>2, <2>3, <2>4 DEF Undelivered, TypeOK, StreamTypeOK
  <2>6. StreamTypeOK'
    BY <2>1, <2>4, <2>5 DEF TypeOK, StreamTypeOK, Undelivered
  <2>7. TypeOK'
    BY <2>1, <2>4, <2>5, <2>6 DEF TypeOK, StreamTypeOK, Locations
  <2>8. NothingLost'
    BY <2>1, <2>2, <2>3, <2>5 DEF NothingLost, Undelivered, TypeOK, StreamTypeOK
  <2>9. InOrderPerRun'
    BY <2>1, <2>5 DEF InOrderPerRun, TypeOK, StreamTypeOK
  <2>10. ReplayComplete'
    BY <2>1, <2>5 DEF ReplayComplete, ReplayPosition
  <2>11. ReplayPosition'
    BY <2>1 DEF ReplayPosition
  <2>12. AckDue' /\ Retention'
    BY <2>1, <2>4 DEF AckDue, Retention, ReplayPosition, TypeOK, StreamTypeOK
  <2>13. QED BY <2>7, <2>8, <2>9, <2>10, <2>11, <2>12
<1>r. ASSUME ConsumeFails
      PROVE  /\ UNCHANGED <<replaying, readID, batch, hollow, tried, unseen, handled>>
             /\ pc' \in {"down", "ensure"}
             /\ attempt' \in 1 .. MaxConsumeRetries
  BY <1>r, ConsumerAssumption DEF ConsumeFails, ConsumerAssumption, TypeOK
<1>7. CASE CommandFails
  <2>1. UNCHANGED streamVars /\ ConsumeFails /\ faults' \in 0 .. MaxFaults
    BY <1>7, <1>f DEF CommandFails
  <2>2. QED BY <2>1, <1>r, LeaveInv
<1>8. CASE ReplyLost
  <2>1. PICK page \in Pages(Undelivered) : page # {} /\ Deliver(page)
    BY <1>8 DEF ReplyLost
  <2>2. /\ UNCHANGED <<replaying, readID, batch, hollow, tried, handled>>
        /\ unseen' = unseen
        /\ pc' \in {"down", "ensure"}
        /\ attempt' \in 1 .. MaxConsumeRetries
        /\ faults' \in 0 .. MaxFaults
        /\ pc = "read"
    BY <1>8, <1>r, <1>f DEF ReplyLost
  <2>3. QED BY <2>1, <2>2, DeliverUnseenInv
<1>15. CASE ReadResent
  <2>1. PICK page \in Pages(Undelivered) :
          page # {} /\ Deliver(page) /\ unseen' = unseen \cup page
    BY <1>15 DEF ReadResent
  <2>2. /\ UNCHANGED <<replaying, readID, batch, hollow, tried, handled>>
        /\ pc' = "read" /\ pc = "read" /\ ~replaying
        /\ attempt' \in 1 .. MaxConsumeRetries
        /\ faults' \in 0 .. MaxFaults
    BY <1>15, <1>f DEF ReadResent, TypeOK
  <2>3. QED BY <2>1, <2>2, DeliverUnseenInv
<1>9. CASE HandlerOK
  <2> USE <1>9 DEF HandlerOK, streamVars, clientVars
  <2>1. PICK id \in batch :
          /\ IsCurrent(id)
          /\ handled' = IF id \in hollow THEN handled ELSE handled \cup {id}
    OBVIOUS
  <2>2. StreamTypeOK'
    BY DEF TypeOK, StreamTypeOK
  <2>3. TypeOK'
    BY <2>1, <2>2 DEF TypeOK, StreamTypeOK, Locations
  <2>4. NothingLost'
    BY <2>1 DEF NothingLost
  <2>5. InOrderPerRun' /\ ReplayComplete' /\ ReplayPosition' /\ Retention'
    BY DEF InOrderPerRun, ReplayComplete, ReplayPosition, Retention
  <2>6. \A e \in batch : IsCurrent(e) => e = id
    BY <2>1 DEF IsCurrent, TypeOK, StreamTypeOK
  <2>7. AckDue'
    BY <2>1, <2>6 DEF AckDue, IsCurrent
  <2>8. QED BY <2>3, <2>4, <2>5, <2>7
<1>10. CASE HandlerFails
  <2>1. PICK id \in batch : IsCurrent(id) /\ Finish(id)
    BY <1>10 DEF HandlerFails
  <2>2. QED
    BY <1>10, <1>f, <2>1, FinishInv DEF HandlerFails, streamVars
<1>11. CASE Ack
  <2>1. PICK id \in batch : IsCurrent(id) /\ XAck(id) /\ Finish(id)
    BY <1>11 DEF Ack
  <2>2. id \in handled \cup hollow
    BY <1>11, <2>1 DEF Ack, AckDue
  <2>3. QED
    BY <1>11, <2>1, <2>2, FinishInv DEF Ack, XAck, TypeOK
<1>12. CASE AckFails
  <2>1. PICK id \in batch : IsCurrent(id) /\ Finish(id)
    BY <1>12 DEF AckFails
  <2>2. QED
    BY <1>12, <1>f, <2>1, FinishInv DEF AckFails, streamVars
<1>13. CASE Crash
  BY <1>13, <1>f, LeaveInv DEF Crash, clientVars, TypeOK
<1>14. CASE Idle \/ UNCHANGED vars
  <2> USE <1>14 DEF Idle, vars, streamVars, clientVars
  <2>1. TypeOK'
    BY DEF TypeOK, StreamTypeOK
  <2>2. NothingLost' /\ InOrderPerRun' /\ ReplayComplete'
    BY DEF NothingLost, InOrderPerRun, ReplayComplete
  <2>3. ReplayPosition' /\ AckDue' /\ Retention'
    BY DEF ReplayPosition, AckDue, Retention, IsCurrent
  <2>4. QED BY <2>1, <2>2, <2>3
<1>16. QED
  BY <1>1, <1>2, <1>3, <1>4, <1>5, <1>6, <1>7, <1>8, <1>9, <1>10, <1>11,
     <1>12, <1>13, <1>14, <1>15 DEF Next, Progress

\* The consumer's invariants hold of every behaviour.
THEOREM Invariance == Spec => []IInv
<1>1. Init => IInv
  BY InitInv
<1>2. IInv /\ [Next]_vars => IInv'
  BY NextInv
<1>3. QED
  BY <1>1, <1>2, PTL DEF Spec

\* Client.Consume's variables keep their types (TypeOK).
THEOREM TypeCorrect == Spec => []TypeOK
BY Invariance, PTL DEF IInv

\* handleBatch acknowledges an entry only when it has been served, or has no
\* payload left to serve.
THEOREM NoLoss == Spec => []NothingLost
BY Invariance, PTL DEF IInv

\* A run of Consume offers its handler the entries in increasing id order.
THEOREM OrderedRuns == Spec => []InOrderPerRun
BY Invariance, PTL DEF IInv

\* A run of Consume turns to new entries only after the whole pending list.
THEOREM ReplaysAll == Spec => []ReplayComplete
BY Invariance, PTL DEF IInv

------------------------------------------------------------------------------
(***************************************************************************)
(* Refinement: every step of the consumer is a step of AtLeastOnce, or     *)
(* changes nothing there.                                                  *)
(***************************************************************************)
Todo == IF group THEN pel \cup Undelivered
        ELSE IF StartAtOldest THEN first .. last ELSE {}

\* Delivering a page moves entries from "not yet delivered" to "pending".
LEMMA DeliverKeepsTodo ==
  ASSUME IInv, group, NEW page \in Pages(Undelivered), page # {}, Deliver(page)
  PROVE  Todo' = Todo /\ last' = last /\ group' = group
<1> USE DEF IInv
<1>1. /\ page \subseteq Undelivered
      /\ \A p \in page, q \in Undelivered \ page : p < q
  BY PageOf
<1>2. cursor' \in page /\ \A e \in page : e <= cursor'
  BY DEF Deliver, IsLast
<1>3. first' = first /\ last' = last /\ group' = group /\ pel' = pel \cup page
  BY DEF Deliver
<1>4. Undelivered' = Undelivered \ page
  BY <1>1, <1>2, <1>3 DEF Undelivered, TypeOK, StreamTypeOK
<1>5. QED BY <1>1, <1>3, <1>4 DEF Todo

\* Steps that touch neither the stream nor the history are invisible.
LEMMA Invisible ==
  ASSUME UNCHANGED <<first, last, group, cursor, pel, handled>>
  PROVE  UNCHANGED Promise!vars
BY DEF Promise!vars, Undelivered

\* Every step of the consumer is a step of AtLeastOnce or invisible in it.
LEMMA StepSimulation == IInv /\ [Next]_vars => [Promise!Next]_(Promise!vars)
<1> SUFFICES ASSUME IInv, [Next]_vars
             PROVE  Promise!Next \/ UNCHANGED Promise!vars
  OBVIOUS
<1> USE DEF IInv
<1>1. CASE Publish
  <2> USE <1>1 DEF Publish, XAdd
  <2>1. /\ last \in Nat /\ last' = last + 1 /\ cursor \in Nat /\ cursor <= last
        /\ first \in Nat /\ first' \in Nat /\ first <= first' /\ first' <= last' + 1
        /\ first' = first \/ first' + MaxLen <= last' + 1
        /\ MaxLen \in Nat \ {0}
    BY StreamAssumption DEF StreamAssumption, TypeOK, StreamTypeOK
  <2>2. first' <= last'
    BY <2>1 DEF TypeOK, StreamTypeOK
  <2>3. group' = group /\ pel' = pel /\ cursor' = cursor /\ handled' = handled
    OBVIOUS
  <2>s. (group \/ StartAtOldest)' = (group \/ StartAtOldest)
    BY <2>3
  <2> DEFINE dropped == { id \in Undelivered : id < first' }
  <2>4. \A id \in first .. last : id < first' => id + MaxLen <= last'
    BY <2>1
  <2>5. CASE group
    <3>1. Undelivered' = (Undelivered \ dropped) \cup {last'}
      BY <2>1, <2>2, <2>3 DEF Undelivered
    <3>2. pel \cap dropped = {}
      BY DEF Undelivered, TypeOK, StreamTypeOK
    <3>3. (pel \cup Undelivered)' = ((pel \cup Undelivered) \ dropped) \cup {last'}
      BY <2>3, <3>1, <3>2
    <3>4. dropped \in SUBSET { id \in pel \cup Undelivered : id + MaxLen <= last' }
      BY <2>4 DEF Undelivered
    <3>5. QED
      BY <2>1, <2>3, <2>5, <3>3, <3>4
      DEF Promise!Next, Promise!Accept, Promise!Expired
  <2>6. CASE ~group /\ StartAtOldest
    <3> DEFINE old == { id \in first .. last : id < first' }
    <3>1. first' .. last' = ((first .. last) \ old) \cup {last'}
      BY <2>1, <2>2
    <3>2. old \in SUBSET { id \in first .. last : id + MaxLen <= last' }
      BY <2>4
    <3>3. Todo = first .. last /\ Todo' = first' .. last'
      BY <2>3, <2>6 DEF Todo
    <3>4. Todo' = (Todo \ old) \cup (IF group \/ StartAtOldest THEN {last'} ELSE {})
      BY <2>6, <3>1, <3>3
    <3>5. old \in SUBSET { id \in Todo : id + MaxLen <= last' }
      BY <3>2, <3>3
    <3> HIDE DEF old
    <3>6. Promise!Accept
      BY <2>1, <2>3, <2>s, <3>4, <3>5 DEF Promise!Accept, Promise!Expired, Todo
    <3>7. QED BY <3>6 DEF Promise!Next
  <2>7. CASE ~group /\ ~StartAtOldest
    <3>1. Promise!Accept
      BY <2>1, <2>3, <2>7, <2>s DEF Promise!Accept, Promise!Expired
    <3>2. QED BY <3>1 DEF Promise!Next
  <2>8. QED BY <2>5, <2>6, <2>7
<1>2. CASE EnsureGroup
  <2>1. CASE group
    BY <1>2, <2>1, Invisible DEF EnsureGroup, XGroupCreate, streamVars
  <2>2. CASE ~group
    <3>1. /\ group' = TRUE /\ first' = first /\ last' = last /\ pel' = pel
          /\ cursor' = IF StartAtOldest THEN 0 ELSE last
          /\ handled' = handled
      BY <1>2, <2>2 DEF EnsureGroup, XGroupCreate
    <3>2. pel = {} /\ last \in Nat /\ first \in Nat \ {0}
      BY <2>2 DEF Retention, TypeOK, StreamTypeOK
    <3>3. Undelivered' = IF StartAtOldest THEN first .. last ELSE {}
      BY <3>1, <3>2 DEF Undelivered
    <3>4. QED
      BY <2>2, <3>1, <3>2, <3>3 DEF Promise!Next, Promise!Subscribe, Promise!vars
  <2>3. QED BY <2>1, <2>2
<1>3. CASE ReadNew \/ ReplyLost \/ ReadResent
  <2>1. group /\ handled' = handled
    BY <1>3 DEF ReadNew, ReplyLost, ReadResent, ConsumeFails, ReplayPosition
  <2>2. PICK page \in Pages(Undelivered) : page # {} /\ Deliver(page)
    BY <1>3 DEF ReadNew, ReplyLost, ReadResent
  <2>3. Todo' = Todo /\ last' = last /\ group' = group
    BY <2>1, <2>2, DeliverKeepsTodo
  <2>4. QED BY <2>1, <2>3 DEF Promise!vars, Todo
<1>4. CASE HandlerOK
  <2> USE <1>4 DEF HandlerOK, streamVars
  <2>1. PICK id \in batch :
          handled' = IF id \in hollow THEN handled ELSE handled \cup {id}
    OBVIOUS
  <2>2. group /\ id \in pel
    BY DEF ReplayPosition, TypeOK
  <2>3. UNCHANGED <<first, last, group, cursor, pel>>
    OBVIOUS
  <2>4. CASE id \in hollow
    BY <2>1, <2>3, <2>4, Invisible
  <2>5. CASE id \notin hollow
    BY <2>1, <2>2, <2>3, <2>5
    DEF Promise!Next, Promise!Serve, Undelivered
  <2>6. QED BY <2>4, <2>5
<1>5. CASE Ack
  <2>1. PICK id \in batch : IsCurrent(id) /\ XAck(id)
    BY <1>5 DEF Ack
  <2>2. group /\ id \in pel /\ id \notin Undelivered
    BY <1>5 DEF Ack, ReplayPosition, TypeOK, StreamTypeOK, Undelivered
  <2>3. id \in handled \/ id + MaxLen <= last
    <3>1. id \in handled \cup hollow
      BY <1>5, <2>1 DEF Ack, AckDue
    <3>2. id \in hollow => id < first
      BY DEF AckDue
    <3>3. id \in Nat \ {0}
      BY <2>2 DEF TypeOK, StreamTypeOK
    <3>4. QED
      BY <3>1, <3>2, <3>3, StreamAssumption
      DEF Retention, StreamAssumption, TypeOK, StreamTypeOK
  <2>4. /\ group' = group /\ last' = last /\ handled' = handled
        /\ pel' = pel \ {id} /\ Undelivered' = Undelivered
    BY <1>5, <2>1 DEF Ack, XAck, Undelivered
  <2>5. QED
    BY <2>2, <2>3, <2>4 DEF Promise!Next, Promise!Retire, Promise!Expired
<1>6. CASE \/ StartProcess \/ ReadPending \/ ReplayDone \/ CommandFails
           \/ HandlerFails \/ AckFails \/ Crash \/ Idle \/ UNCHANGED vars
  BY <1>6, Invisible
  DEF StartProcess, ReadPending, ReplayDone, CommandFails, ConsumeFails,
      HandlerFails, AckFails, Crash, Idle, vars, streamVars
<1>7. QED
  BY <1>1, <1>2, <1>3, <1>4, <1>5, <1>6 DEF Next, Progress

\* The consumer starts where AtLeastOnce may start.
LEMMA InitSimulation == Init => Promise!Init
BY StreamAssumption
DEF Init, StreamInit, Promise!Init, Undelivered, StreamAssumption

\* The consumer implements at-least-once delivery: whatever crashes, fails or
\* is lost, a message leaves the to-do list only served or pushed out by
\* MaxLen newer ones (Client.Consume, handleBatch, Publish).
THEOREM Refinement == Spec => ImplementsAtLeastOnce
<1>1. Init => Promise!Init
  BY InitSimulation
<1>2. IInv /\ [Next]_vars => [Promise!Next]_(Promise!vars)
  BY StepSimulation
<1>3. QED
  BY <1>1, <1>2, Invariance, PTL DEF Spec, ImplementsAtLeastOnce, Promise!Spec

==============================================================================
