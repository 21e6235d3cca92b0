-------------------------- MODULE MailDecisionsProofs --------------------------
(***************************************************************************)
(* What becomes of the user's decisions, for every set of mails, any       *)
(* number of concurrent presses, and any number of mappings, edits and     *)
(* failures.                                                               *)
(*                                                                         *)
(* The argument: streams, payloads and presses refer to mappings that      *)
(* exist (References). From there on each property has a strengthening of  *)
(* its own: at most one press on a mail that is not on record              *)
(* (OneAtATime), so that a confirmed mapping cannot be confirmed again     *)
(* (ConfirmedIsSettled); stages counted against confirmations, also where  *)
(* applications travel (StagesCounted); what a mapping that is not stale   *)
(* says of the application (Fresh); what a missing payload means           *)
(* (PayloadsKept), and with it a rejection on its way (RejectionOnItsWay). *)
(*                                                                         *)
(* The second part is about the application a decision is stored in,       *)
(* module ApplicationRecord: a task that nothing disturbed ends with the   *)
(* sheet and the database in step, and only the clean-up, saving a page it *)
(* read earlier, can take a stored embedding away. The argument            *)
(* (RecordInv) is what each task knows at each place as long as nobody     *)
(* else has written: which of its values are in the database already, and  *)
(* which cells it has still to write.                                      *)
(***************************************************************************)
EXTENDS MailDecisions, ApplicationRecord, FiniteSetTheorems, SequenceTheorems, TLAPS

States == {"new", "left", "done"}
Apps == [status : Statuses, stage : Nat, followUp : SUBSET Mails]
Mappings == [mail : Mails, app : Apps, state : States, stale : BOOLEAN]
Confirmations == [mapping : Nat, state : States]
Updates == [mapping : Nat, state : States, app : Apps]
Steps == {"confirm", "publish", "delete", "details", "write", "skip", "menu",
          "reason", "payload", "reject"}
Payloads == {Absent} \cup Nat
Served == [pc : Steps, mail : Mails, payload : Payloads]

\* The variables and their types.
StreamsOK ==
  /\ mapped \in Seq(Mappings)
  /\ confirmed \in Seq(Confirmations)
  /\ updates \in Seq(Updates)

TypeOK ==
  /\ label \in [Mails -> Labels]
  /\ app \in Apps
  /\ StreamsOK
  /\ cache \in [Mails -> Payloads]
  /\ press \in [Presses -> {Idle} \cup Served]
  /\ \A mails \in {reasons, shown, menus, rejected, cutOff, repeated, resent, expired} :
       mails \subseteq Mails

-------------------------------------------------------------------------------
(* The inductive invariant *)

\* k is a mapping of mail m, and the bot has handled it.
IsOf(k, m) == k \in DOMAIN mapped /\ mapped[k].mail = m /\ mapped[k].state # "new"

\* What the streams, the payloads and the presses say of each other.
References ==
  /\ \A m \in Mails : cache[m] \notin {Absent, Empty} => IsOf(cache[m], m)
  /\ \A p \in Presses : press[p].pc \in {"publish", "delete", "write"} =>
       \/ IsOf(press[p].payload, press[p].mail)
       \/ press[p].pc = "write" /\ press[p].payload = Empty
  /\ \A p \in Presses : press[p].pc = "delete" => ConfirmationsOf(press[p].payload) # {}
  /\ \A i \in DOMAIN confirmed : \E m \in Mails : IsOf(confirmed[i].mapping, m)
  /\ \A i \in DOMAIN updates : \E k \in DOMAIN mapped :
       /\ updates[i].mapping = k /\ ConfirmationsOf(k) # {}
       /\ updates[i].app = Transform(mapped[k].mail, mapped[k].app)

\* Two presses on one mail at a time put it on record.
OneAtATime ==
  \A p, q \in Presses :
    p # q /\ press[p] # Idle /\ press[q] # Idle /\ press[p].mail = press[q].mail =>
      press[p].mail \in repeated

\* A mapping confirmed is confirmed once, and neither its payload nor a press
\* could confirm it again, unless its mail is on record.
Settled(k) ==
  /\ \A i, j \in ConfirmationsOf(k) : i = j
  /\ cache[mapped[k].mail] = k =>
       \E p \in Presses : press[p].pc = "delete" /\ press[p].mail = mapped[k].mail
  /\ \A p \in Presses : press[p].pc \in {"publish", "write"} => press[p].payload # k

ConfirmedIsSettled ==
  \A k \in DOMAIN mapped :
    ConfirmationsOf(k) # {} => mapped[k].mail \in repeated \cup resent \cup cutOff \/ Settled(k)

\* mappings of mails that create a meeting, once confirmed
Raising == {k \in DOMAIN mapped : label[mapped[k].mail] = "meeting_crt" /\ ConfirmationsOf(k) # {}}
RaisingBefore(k) == {j \in Raising : j < k}

\* Stages never outnumber the confirmations that raised them; those of an
\* application that a mapping carries, the ones confirmed of earlier mappings.
StagesCounted ==
  /\ app.stage <= Cardinality(Raising)
  /\ \A k \in DOMAIN mapped : mapped[k].app.stage <= Cardinality(RaisingBefore(k))
  /\ \A i \in DOMAIN updates : updates[i].app.stage <= Cardinality(Raising)

\* While nothing else is stored, the application is what it was when the mail
\* was mapped, or what the mail makes of that.
Fresh ==
  \A k \in DOMAIN mapped :
    mapped[k].stale \/ app \in {mapped[k].app, Transform(mapped[k].mail, mapped[k].app)}

WasConfirmed(m) == \E k \in DOMAIN mapped : mapped[k].mail = m /\ ConfirmationsOf(k) # {}
PayloadLostOnlyIf(m) == m \in expired \/ WasConfirmed(m)

\* A mail that has been shown has its payload, unless that was lost.
PayloadsKept ==
  /\ menus \subseteq shown
  /\ \A p \in Presses : press[p] # Idle => press[p].mail \in shown
  /\ \A m \in shown : cache[m] \in {Absent, Empty} => PayloadLostOnlyIf(m)
  /\ \A p \in Presses : press[p].pc = "write" /\ press[p].payload = Empty =>
       PayloadLostOnlyIf(press[p].mail)

\* A chosen reason has a press that will publish it, or its fate is known.
RejectionOnItsWay ==
  \A m \in reasons :
    \/ \E p \in Presses : press[p].pc \in {"payload", "reject"} /\ press[p].mail = m
    \/ m \in rejected \cup cutOff
    \/ PayloadLostOnlyIf(m)

IInv ==
  /\ TypeOK /\ edits \in Nat
  /\ References
  /\ OneAtATime
  /\ ConfirmedIsSettled
  /\ StagesCounted
  /\ Fresh
  /\ PayloadsKept
  /\ RejectionOnItsWay

\* Transform by cases.
LEMMA TransformOf ==
  ASSUME label \in [Mails -> Labels], NEW m \in Mails, NEW a \in Apps
  PROVE  /\ Transform(m, a) \in Apps
         /\ Transform(m, a).stage = IF label[m] = "meeting_crt" THEN a.stage + 1 ELSE a.stage
         /\ a.status \in {"offer", "denied"} => Transform(m, a).status \in {"offer", "denied"}
         /\ a.followUp # {} => Transform(m, a).followUp = a.followUp
<1> USE DEF Apps, Statuses, MeetingStatus
<1>1. CASE label[m] = "denied"
  BY <1>1 DEF Transform
<1>2. CASE label[m] = "meeting_inv"
  BY <1>2 DEF Transform
<1>3. CASE label[m] = "meeting_crt"
  <2>1. Transform(m, a) = [status |-> MeetingStatus(a.status), stage |-> a.stage + 1,
                           followUp |-> IF a.followUp = {} THEN {m} ELSE a.followUp]
    BY <1>3 DEF Transform
  <2>2. QED BY <1>3, <2>1
<1>4. QED BY <1>1, <1>2, <1>3 DEF Labels

\* What no step takes back.
Kept ==
  /\ label' = label
  /\ DOMAIN mapped \subseteq DOMAIN mapped'
  /\ \A k \in DOMAIN mapped :
       /\ mapped'[k].mail = mapped[k].mail
       /\ mapped'[k].app = mapped[k].app
       /\ mapped[k].state # "new" => mapped'[k].state # "new"
  /\ DOMAIN confirmed \subseteq DOMAIN confirmed'
  /\ \A i \in DOMAIN confirmed : confirmed'[i].mapping = confirmed[i].mapping
  /\ DOMAIN updates \subseteq DOMAIN updates'
  /\ \A i \in DOMAIN updates : updates'[i].mapping = updates[i].mapping /\ updates'[i].app = updates[i].app

\* An entry of a stream, marked in any way, is the entry otherwise.
LEMMA MarkedEntry ==
  ASSUME NEW S, NEW stream \in Seq(S), NEW i \in DOMAIN stream, NEW v,
         \A e \in S : [e EXCEPT !.state = v] \in S,
         NEW marked, marked = [stream EXCEPT ![i].state = v]
  PROVE  /\ marked \in Seq(S) /\ DOMAIN marked = DOMAIN stream
         /\ \A k \in DOMAIN stream : marked[k] = IF k = i THEN [stream[k] EXCEPT !.state = v] ELSE stream[k]
<1> DEFINE e == [stream[i] EXCEPT !.state = v]
<1>1. DOMAIN stream = 1 .. Len(stream)
  OBVIOUS
<1>2. e \in S
  BY <1>1, ElementOfSeq
<1>3. marked = [stream EXCEPT ![i] = e]
  OBVIOUS
<1> HIDE DEF e
<1>4. /\ marked \in Seq(S) /\ Len(marked) = Len(stream)
      /\ \A k \in 1 .. Len(stream) : marked[k] = IF k = i THEN e ELSE stream[k]
  <2>1. i \in 1 .. Len(stream)
    BY <1>1
  <2>2. QED BY <1>2, <1>3, <2>1, ExceptSeq
<1>5. DOMAIN marked = DOMAIN stream
  BY <1>1, <1>4
<1>6. QED BY <1>1, <1>4, <1>5 DEF e

\* Marking a mapping as handled or left keeps mail, application and staleness.
LEMMA MarkedMapping ==
  ASSUME StreamsOK, NEW i \in DOMAIN mapped, NEW s \in {Handled(mapped, i), Left(mapped, i)}
  PROVE  /\ s \in Seq(Mappings) /\ DOMAIN s = DOMAIN mapped
         /\ \A k \in DOMAIN mapped :
              /\ s[k].mail = mapped[k].mail /\ s[k].app = mapped[k].app
              /\ s[k].stale = mapped[k].stale
              /\ s[k].state = mapped[k].state \/ s[k].state # "new"
<1> USE DEF StreamsOK, States
<1>1. PICK v \in {"done", "left"} : s = [mapped EXCEPT ![i].state = v]
  BY DEF Handled, Left
<1>2. \A e \in Mappings : [e EXCEPT !.state = v] \in Mappings
  BY DEF Mappings
<1>3. s \in Seq(Mappings) /\ DOMAIN s = DOMAIN mapped
      /\ \A k \in DOMAIN mapped : s[k] = IF k = i THEN [mapped[k] EXCEPT !.state = v] ELSE mapped[k]
  BY <1>1, <1>2, MarkedEntry, Zenon
<1>4. \A k \in DOMAIN mapped : mapped[k] \in Mappings
  BY ElementOfSeq
<1>5. QED BY <1>3, <1>4 DEF Mappings

\* Marking a confirmation keeps what it confirms.
LEMMA MarkedConfirmation ==
  ASSUME StreamsOK, NEW i \in DOMAIN confirmed,
         NEW s \in {Handled(confirmed, i), Left(confirmed, i)}
  PROVE  /\ s \in Seq(Confirmations) /\ DOMAIN s = DOMAIN confirmed
         /\ \A k \in DOMAIN confirmed : s[k].mapping = confirmed[k].mapping
<1> USE DEF StreamsOK, States
<1>1. PICK v \in {"done", "left"} : s = [confirmed EXCEPT ![i].state = v]
  BY DEF Handled, Left
<1>2. \A e \in Confirmations : [e EXCEPT !.state = v] \in Confirmations
  BY DEF Confirmations
<1>3. s \in Seq(Confirmations) /\ DOMAIN s = DOMAIN confirmed
      /\ \A k \in DOMAIN confirmed : s[k] = IF k = i THEN [confirmed[k] EXCEPT !.state = v] ELSE confirmed[k]
  BY <1>1, <1>2, MarkedEntry, Zenon
<1>4. \A k \in DOMAIN confirmed : confirmed[k] \in Confirmations
  BY ElementOfSeq
<1>5. QED BY <1>3, <1>4 DEF Confirmations

\* Marking an update keeps its mapping and its application.
LEMMA MarkedUpdate ==
  ASSUME StreamsOK, NEW i \in DOMAIN updates, NEW s \in {Handled(updates, i), Left(updates, i)}
  PROVE  /\ s \in Seq(Updates) /\ DOMAIN s = DOMAIN updates
         /\ \A k \in DOMAIN updates : s[k].mapping = updates[k].mapping /\ s[k].app = updates[k].app
<1> USE DEF StreamsOK, States
<1>1. PICK v \in {"done", "left"} : s = [updates EXCEPT ![i].state = v]
  BY DEF Handled, Left
<1>2. \A e \in Updates : [e EXCEPT !.state = v] \in Updates
  BY DEF Updates
<1>3. s \in Seq(Updates) /\ DOMAIN s = DOMAIN updates
      /\ \A k \in DOMAIN updates : s[k] = IF k = i THEN [updates[k] EXCEPT !.state = v] ELSE updates[k]
  BY <1>1, <1>2, MarkedEntry, Zenon
<1>4. \A k \in DOMAIN updates : updates[k] \in Updates
  BY ElementOfSeq
<1>5. QED BY <1>3, <1>4 DEF Updates

\* Outdating all mappings but k keeps all but their staleness.
LEMMA Outdated ==
  ASSUME StreamsOK, NEW k \in Nat, Outdate(k)
  PROVE  /\ mapped' \in Seq(Mappings) /\ DOMAIN mapped' = DOMAIN mapped
         /\ \A j \in DOMAIN mapped :
              /\ mapped'[j].mail = mapped[j].mail /\ mapped'[j].app = mapped[j].app
              /\ mapped'[j].state = mapped[j].state
              /\ j # k => mapped'[j].stale
<1>1. \A j \in DOMAIN mapped : mapped[j] \in Mappings /\ j \in Nat
  BY ElementOfSeq DEF StreamsOK
<1>2. DOMAIN mapped' = DOMAIN mapped
  BY DEF Outdate
<1>3. \A j \in DOMAIN mapped : mapped'[j] = [mapped[j] EXCEPT !.stale = mapped[j].stale \/ j # k]
  BY DEF Outdate
<1>4. \A j \in DOMAIN mapped : mapped'[j] \in Mappings
  BY <1>1, <1>3 DEF Mappings
<1>5. \A j \in DOMAIN mapped : /\ mapped'[j].mail = mapped[j].mail /\ mapped'[j].app = mapped[j].app
                               /\ mapped'[j].state = mapped[j].state
  BY <1>1, <1>3 DEF Mappings
<1>6. \A j \in DOMAIN mapped : j # k => mapped'[j].stale
  BY <1>1, <1>3 DEF Mappings
<1>7. mapped' \in Seq(Mappings)
  <2> DEFINE n == Len(mapped)
  <2>1. n \in Nat /\ DOMAIN mapped = 1 .. n
    BY DEF StreamsOK
  <2> HIDE DEF n
  <2>2. mapped' = [j \in 1 .. n |-> mapped'[j]]
    BY <2>1 DEF Outdate
  <2>3. \A j \in 1 .. n : mapped'[j] \in Mappings
    BY <1>4, <2>1
  <2>4. QED BY <2>1, <2>2, <2>3
<1>8. QED BY <1>2, <1>5, <1>6, <1>7
\* A press that moves on to one of the given steps, or ends.
Moves(p, steps) ==
  /\ press[p] \in Served
  /\ press' \in [Presses -> {Idle} \cup Served]
  /\ \A q \in Presses \ {p} : press'[q] = press[q]
  /\ \/ press'[p] = Idle
     \/ /\ press'[p] \in Served /\ press'[p].mail = press[p].mail
        /\ press'[p].pc \in steps /\ press'[p].payload = press[p].payload

\* Ending a press, or sending it to its next step, is a move.
LEMMA Moved ==
  ASSUME press \in [Presses -> {Idle} \cup Served], NEW p \in Presses, press[p].pc \in Steps,
         NEW step \in Steps,
         press' = [press EXCEPT ![p] = Idle] \/ press' = [press EXCEPT ![p].pc = step]
  PROVE  Moves(p, {step})
<1>1. press[p] \in Served
  BY DEF Idle, Steps
<1>2. CASE press' = [press EXCEPT ![p] = Idle]
  BY <1>1, <1>2 DEF Moves
<1>3. CASE press' = [press EXCEPT ![p].pc = step]
  <2>1. press'[p] = [press[p] EXCEPT !.pc = step]
    BY <1>3
  <2>2. press'[p] \in Served /\ press'[p].mail = press[p].mail /\ press'[p].pc = step
        /\ press'[p].payload = press[p].payload
    BY <1>1, <2>1 DEF Served
  <2>3. QED BY <1>1, <1>3, <2>2 DEF Moves
<1>4. QED BY <1>2, <1>3

\* A press that has read a payload.
LEMMA MovedWith ==
  ASSUME press \in [Presses -> {Idle} \cup Served], NEW p \in Presses, press[p].pc \in Steps,
         NEW step \in Steps, NEW value \in Payloads,
         press' = [press EXCEPT ![p].pc = step, ![p].payload = value]
  PROVE  /\ press[p] \in Served
         /\ press' \in [Presses -> {Idle} \cup Served]
         /\ \A q \in Presses \ {p} : press'[q] = press[q]
         /\ press'[p] \in Served /\ press'[p].mail = press[p].mail /\ press'[p].pc = step
         /\ press'[p].payload = value
<1>1. press[p] \in Served
  BY DEF Idle, Steps
<1>2. press'[p] = [press[p] EXCEPT !.pc = step, !.payload = value]
  OBVIOUS
<1>3. press'[p] \in Served /\ press'[p].mail = press[p].mail /\ press'[p].pc = step
      /\ press'[p].payload = value
  BY <1>1, <1>2 DEF Served
<1>4. QED BY <1>1, <1>3

\* An idle press and one being served.
LEMMA Serving ==
  ASSUME press \in [Presses -> {Idle} \cup Served], NEW p \in Presses
  PROVE  /\ press[p] = Idle <=> press[p].pc \notin Steps
         /\ press[p] # Idle => press[p] \in Served
BY DEF Idle, Served, Steps

\* Steps that leave the streams alone.
LEMMA StreamsAlone == label' = label /\ UNCHANGED streams => Kept
BY DEF Kept, streams

\* What is confirmed stays confirmed, and mappings stay what they are.
LEMMA KeptFacts ==
  ASSUME Kept
  PROVE  /\ \A k, m : IsOf(k, m) => IsOf(k, m)'
         /\ \A k : ConfirmationsOf(k) \subseteq ConfirmationsOf(k)'
         /\ \A m : WasConfirmed(m) => WasConfirmed(m)'
         /\ \A m, a : Transform(m, a)' = Transform(m, a)
<1>1. \A k, m : IsOf(k, m) => IsOf(k, m)'
  BY DEF Kept, IsOf
<1>2. \A k : ConfirmationsOf(k) \subseteq ConfirmationsOf(k)'
  BY DEF Kept, ConfirmationsOf
<1>3. \A m : WasConfirmed(m) => WasConfirmed(m)'
  BY <1>2 DEF Kept, WasConfirmed
<1>4. \A m, a : Transform(m, a)' = Transform(m, a)
  BY DEF Kept, Transform
<1>5. QED BY <1>1, <1>2, <1>3, <1>4

\* Every step keeps the types, and what Kept says.
LEMMA StepKeeps ==
  ASSUME TypeOK, References, [Next]_vars
  PROVE  TypeOK' /\ Kept
<1> USE DEF TypeOK, redis, chat, history
<1>0. ASSUME NEW p \in Presses, NEW step \in Steps, Moves(p, {step}),
             label' = label, app' = app, UNCHANGED streams, cache' = cache,
             \A mails \in {reasons', menus', rejected', cutOff'} : mails \subseteq Mails,
             UNCHANGED <<shown, repeated, resent, expired>>
      PROVE  TypeOK' /\ Kept
  BY <1>0, StreamsAlone DEF Moves, StreamsOK, streams
<1>1. CASE Edit
  <2> USE <1>1 DEF Edit
  <2>1. app' \in Apps
    BY DEF Apps, Statuses
  <2>2. QED BY <2>1, Outdated DEF StreamsOK, Kept
<1>2. ASSUME NEW m \in Mails, Map(m) PROVE TypeOK' /\ Kept
  <2> USE <1>2 DEF Map
  <2> DEFINE e == [mail |-> m, app |-> app, state |-> "new", stale |-> FALSE]
  <2>1. e \in Mappings
    BY DEF Mappings, States
  <2> HIDE DEF e
  <2>2. mapped' = Append(mapped, e)
    BY DEF e
  <2>3. /\ mapped' \in Seq(Mappings) /\ DOMAIN mapped \subseteq DOMAIN mapped'
        /\ \A k \in DOMAIN mapped : mapped'[k] = mapped[k]
    BY <2>1, <2>2, AppendProperties DEF StreamsOK
  <2>4. QED BY <2>3 DEF StreamsOK, Kept
<1>3. ASSUME NEW m \in Mails, Expire(m) PROVE TypeOK' /\ Kept
  BY <1>3, StreamsAlone DEF Expire, StreamsOK, streams, Payloads
<1>4. ASSUME NEW k \in DOMAIN mapped, Notify(k) PROVE TypeOK' /\ Kept
  <2> USE <1>4 DEF Notify
  <2>1. mapped[k] \in Mappings /\ k \in Nat
    BY ElementOfSeq DEF StreamsOK
  <2>2. mapped' \in {Handled(mapped, k), Left(mapped, k)}
    OBVIOUS
  <2>3. StreamsOK' /\ Kept
    BY <2>2, MarkedMapping DEF StreamsOK, Kept
  <2>4. cache' \in [Mails -> Payloads] /\ shown' \subseteq Mails /\ repeated' \subseteq Mails
    BY <2>1 DEF Payloads, Mappings
  <2>5. QED BY <2>3, <2>4
<1>5. ASSUME NEW i \in DOMAIN confirmed, HandleConfirmed(i) PROVE TypeOK' /\ Kept
  <2> USE <1>5 DEF HandleConfirmed
  <2> DEFINE k == confirmed[i].mapping
             e == [mapping |-> k, state |-> "new", app |-> Transform(mapped[k].mail, mapped[k].app)]
  <2>1. confirmed' \in {Handled(confirmed, i), Left(confirmed, i)}
    OBVIOUS
  <2>2. updates' \in {updates, Append(updates, e)}
    OBVIOUS
  <2>3. e \in Updates
    <3>1. k \in DOMAIN mapped
      BY DEF References, IsOf
    <3>2. mapped[k] \in Mappings /\ k \in Nat
      BY <3>1, ElementOfSeq DEF StreamsOK
    <3>3. Transform(mapped[k].mail, mapped[k].app) \in Apps
      BY <3>2, TransformOf DEF Mappings
    <3>4. QED BY <3>2, <3>3 DEF Updates, States
  <2> HIDE DEF e
  <2>4. /\ updates' \in Seq(Updates) /\ DOMAIN updates \subseteq DOMAIN updates'
        /\ \A j \in DOMAIN updates : updates'[j] = updates[j]
    <3>1. CASE updates' = Append(updates, e)
      BY <2>3, <3>1, AppendProperties DEF StreamsOK
    <3>2. CASE updates' = updates
      BY <3>2 DEF StreamsOK
    <3>3. QED BY <2>2, <3>1, <3>2
  <2>5. QED BY <2>1, <2>4, MarkedConfirmation DEF StreamsOK, Kept
<1>6. ASSUME NEW i \in DOMAIN updates, Store(i) \/ StoreFails(i) PROVE TypeOK' /\ Kept
  <2> USE <1>6 DEF Store, StoreFails
  <2>1. updates' \in {Handled(updates, i), Left(updates, i)}
    OBVIOUS
  <2>2. updates[i] \in Updates /\ updates[i].mapping \in Nat /\ updates[i].app \in Apps
    <3>1. updates[i] \in Updates
      BY ElementOfSeq DEF StreamsOK
    <3>2. QED BY <3>1 DEF Updates
  <2>3. CASE Store(i)
    BY <2>1, <2>2, <2>3, Outdated, MarkedUpdate DEF StreamsOK, Kept
  <2>4. CASE StoreFails(i)
    BY <2>1, <2>4, MarkedUpdate DEF StreamsOK, Kept
  <2>5. QED BY <2>3, <2>4
<1>7. ASSUME NEW p \in Presses, NEW m \in Mails,
             NEW button \in {"confirm", "details", "skip", "reason"}, Press(p, m, button)
      PROVE  TypeOK' /\ Kept
  <2> USE <1>7 DEF Press
  <2>1. [pc |-> button, mail |-> m, payload |-> Absent] \in Served
    BY DEF Served, Steps, Payloads
  <2>2. QED BY <2>1, StreamsAlone DEF StreamsOK, streams
<1>8. ASSUME NEW p \in Presses, Fails(p) \/ CutOff(p) PROVE TypeOK' /\ Kept
  <2> USE <1>8 DEF Fails, CutOff, Done
  <2>1. Moves(p, {"menu"})
    BY Moved DEF Steps
  <2>2. press[p].mail \in Mails
    BY <2>1 DEF Moves, Served
  <2>3. QED BY <1>0, <2>1, <2>2 DEF streams, Steps
<1>9. ASSUME NEW p \in Presses, ReadConfirm(p) \/ ReadDetails(p) PROVE TypeOK' /\ Kept
  <2> USE <1>9 DEF ReadConfirm, ReadDetails, Done, At
  <2>1. press[p] \in Served /\ press[p].pc \in Steps /\ cache[press[p].mail] \in Payloads
    <3>1. press[p].pc \in Steps
      BY DEF Steps
    <3>2. press[p] \in Served
      BY <3>1, Serving
    <3>3. QED BY <3>1, <3>2 DEF Served
  <2>2. press' \in [Presses -> {Idle} \cup Served]
    <3>1. CASE ReadDetails(p)
      BY <2>1, <3>1, MovedWith DEF Payloads, Empty, Steps
    <3>2. CASE ReadConfirm(p)
      BY <2>1, <3>2, MovedWith, Moved DEF Moves, Steps
    <3>3. QED BY <3>1, <3>2
  <2>3. QED BY <2>2, StreamsAlone DEF StreamsOK, streams
<1>10. ASSUME NEW p \in Presses, Publish(p) PROVE TypeOK' /\ Kept
  <2> USE <1>10 DEF Publish, GoTo, Done, At
  <2> DEFINE e == [mapping |-> press[p].payload, state |-> "new"]
  <2>1. press' \in [Presses -> {Idle} \cup Served] /\ press[p] \in Served
    <3>1. Moves(p, {"delete"}) \/ press' = press
      BY Moved DEF Steps
    <3>2. press[p] \in Served
      BY Serving DEF Steps
    <3>3. QED BY <3>1, <3>2 DEF Moves
  <2>2. press[p].mail \in Mails /\ press[p].payload \in Nat
    <3>1. press[p].payload \in DOMAIN mapped
      BY DEF References, IsOf
    <3>2. QED BY <2>1, <3>1 DEF Served, StreamsOK
  <2>3. e \in Confirmations
    BY <2>2 DEF Confirmations, States
  <2> HIDE DEF e
  <2>4. confirmed' = Append(confirmed, e)
    BY DEF e
  <2>5. /\ confirmed' \in Seq(Confirmations) /\ DOMAIN confirmed \subseteq DOMAIN confirmed'
        /\ \A k \in DOMAIN confirmed : confirmed'[k] = confirmed[k]
    BY <2>3, <2>4, AppendProperties DEF StreamsOK
  <2>6. QED BY <2>1, <2>2, <2>5 DEF StreamsOK, Kept
<1>11. ASSUME NEW p \in Presses, Delete(p) \/ WriteDetails(p) PROVE TypeOK' /\ Kept
  <2> USE <1>11 DEF Delete, WriteDetails, Done, At
  <2>1. Moves(p, {"menu"})
    BY Moved DEF Steps
  <2>2. cache' \in [Mails -> Payloads]
    BY <2>1 DEF Moves, Served, Payloads
  <2>3. QED BY <2>1, <2>2, StreamsAlone DEF StreamsOK, streams, Moves
<1>12. ASSUME NEW p \in Presses, Skip(p) \/ SendMenu(p) \/ Choose(p) \/ ReadPayload(p) \/ Reject(p)
       PROVE  TypeOK' /\ Kept
  <2> USE <1>12 DEF Skip, SendMenu, Choose, ReadPayload, Reject, GoTo, Done, At
  <2>1. PICK step \in {"menu", "payload", "reject"} : Moves(p, {step})
    BY Moved DEF Steps
  <2>2. press[p].mail \in Mails
    BY <2>1 DEF Moves, Served
  <2>3. QED BY <1>0, <2>1, <2>2 DEF streams, Steps
<1>13. CASE UNCHANGED vars
  BY <1>13, StreamsAlone DEF vars, streams, StreamsOK
<1>14. QED
  BY <1>1, <1>2, <1>3, <1>4, <1>5, <1>6, <1>7, <1>8, <1>9, <1>10, <1>11, <1>12, <1>13 DEF Next

\* The steps that change the application, or add to the mappings or updates.
LEMMA StreamSteps ==
  ASSUME TypeOK, References, [Next]_vars
  PROVE  \/ Edit
         \/ \E m \in Mails : Map(m)
         \/ \E i \in DOMAIN confirmed : HandleConfirmed(i)
         \/ \E i \in DOMAIN updates : Store(i)
         \/ /\ app' = app
            /\ DOMAIN mapped' = DOMAIN mapped /\ DOMAIN updates' = DOMAIN updates
            /\ \A k \in DOMAIN mapped : mapped'[k].stale = mapped[k].stale
<1> USE DEF TypeOK
<1>1. ASSUME NEW k \in DOMAIN mapped, Notify(k)
      PROVE  /\ app' = app
             /\ DOMAIN mapped' = DOMAIN mapped /\ DOMAIN updates' = DOMAIN updates
             /\ \A j \in DOMAIN mapped : mapped'[j].stale = mapped[j].stale
  <2>1. mapped' \in {Handled(mapped, k), Left(mapped, k)}
    BY <1>1 DEF Notify
  <2>2. QED BY <1>1, <2>1, MarkedMapping DEF Notify
<1>2. ASSUME NEW i \in DOMAIN updates, StoreFails(i)
      PROVE  app' = app /\ mapped' = mapped /\ DOMAIN updates' = DOMAIN updates
  <2>1. updates' = Left(updates, i)
    BY <1>2 DEF StoreFails
  <2>2. QED BY <1>2, <2>1, MarkedUpdate DEF StoreFails
<1>3. ASSUME NEW m \in Mails, Expire(m)
      PROVE  app' = app /\ mapped' = mapped /\ updates' = updates
  BY <1>3 DEF Expire, streams
<1>4. ASSUME NEW p \in Presses, NEW m \in Mails,
             NEW button \in {"confirm", "details", "skip", "reason"}, Press(p, m, button)
      PROVE  app' = app /\ mapped' = mapped /\ updates' = updates
  BY <1>4 DEF Press, streams
<1>5. ASSUME NEW p \in Presses,
             \/ Fails(p) \/ CutOff(p) \/ ReadConfirm(p) \/ Publish(p) \/ Delete(p)
             \/ ReadDetails(p) \/ WriteDetails(p) \/ Skip(p) \/ SendMenu(p)
             \/ Choose(p) \/ ReadPayload(p) \/ Reject(p)
      PROVE  app' = app /\ mapped' = mapped /\ updates' = updates
  BY <1>5 DEF Fails, CutOff, ReadConfirm, Publish, Delete, ReadDetails, WriteDetails, Skip,
     SendMenu, Choose, ReadPayload, Reject, streams
<1>6. CASE UNCHANGED vars
  BY <1>6 DEF vars, streams
<1>7. QED BY <1>1, <1>2, <1>3, <1>4, <1>5, <1>6 DEF Next

\* Sets that only grow, and the count of edits.
LEMMA Grows ==
  ASSUME [Next]_vars
  PROVE  /\ repeated \subseteq repeated' /\ resent \subseteq resent'
         /\ cutOff \subseteq cutOff' /\ expired \subseteq expired'
         /\ rejected \subseteq rejected' /\ shown \subseteq shown'
         /\ edits' \in {edits, edits + 1}
<1> USE DEF history, chat
<1>1. CASE Edit \/ \E m \in Mails : Map(m) \/ Expire(m)
  BY <1>1 DEF Edit, Map, Expire
<1>2. CASE \E i \in DOMAIN mapped : Notify(i)
  BY <1>2 DEF Notify
<1>3. CASE \/ \E i \in DOMAIN confirmed : HandleConfirmed(i)
           \/ \E i \in DOMAIN updates : Store(i) \/ StoreFails(i)
  BY <1>3 DEF HandleConfirmed, Store, StoreFails
<1>4. ASSUME NEW p \in Presses, NEW m \in Mails,
             NEW button \in {"confirm", "details", "skip", "reason"}, Press(p, m, button)
      PROVE  /\ repeated \subseteq repeated' /\ resent \subseteq resent'
             /\ cutOff \subseteq cutOff' /\ expired \subseteq expired'
             /\ rejected \subseteq rejected' /\ shown \subseteq shown'
             /\ edits' \in {edits, edits + 1}
  BY <1>4 DEF Press
<1>5. ASSUME NEW p \in Presses,
             \/ Fails(p) \/ CutOff(p) \/ ReadConfirm(p) \/ Publish(p) \/ Delete(p)
             \/ ReadDetails(p) \/ WriteDetails(p) \/ Skip(p) \/ SendMenu(p)
             \/ Choose(p) \/ ReadPayload(p) \/ Reject(p)
      PROVE  /\ repeated \subseteq repeated' /\ resent \subseteq resent'
             /\ cutOff \subseteq cutOff' /\ expired \subseteq expired'
             /\ rejected \subseteq rejected' /\ shown \subseteq shown'
             /\ edits' \in {edits, edits + 1}
  BY <1>5 DEF Fails, CutOff, ReadConfirm, Publish, Delete, ReadDetails, WriteDetails, Skip,
     SendMenu, Choose, ReadPayload, Reject
<1>6. CASE UNCHANGED vars
  BY <1>6 DEF vars
<1>7. QED BY <1>1, <1>2, <1>3, <1>4, <1>5, <1>6 DEF Next

-------------------------------------------------------------------------------
(* One conjunct of the invariant at a time *)

\* What is not stale stays as fresh as it was.
LEMMA FreshInv ==
  ASSUME TypeOK, References, Fresh, [Next]_vars
  PROVE  Fresh'
<1>1. TypeOK' /\ Kept
  BY StepKeeps
<1>2. \A m, a : Transform(m, a)' = Transform(m, a)
  BY <1>1, KeptFacts
<1>3. CASE Edit
  <2>1. \A k \in DOMAIN mapped : mapped'[k].stale
    BY <1>3, Outdated DEF Edit, TypeOK, StreamsOK
  <2>2. DOMAIN mapped' = DOMAIN mapped
    BY <1>3, Outdated DEF Edit, TypeOK
  <2>3. QED BY <2>1, <2>2 DEF Fresh
<1>4. ASSUME NEW m \in Mails, Map(m) PROVE Fresh'
  <2> DEFINE e == [mail |-> m, app |-> app, state |-> "new", stale |-> FALSE]
  <2>1. app' = app /\ mapped' = Append(mapped, e)
    BY <1>4 DEF Map
  <2>2. \A k \in DOMAIN mapped' : mapped'[k] = e \/ (k \in DOMAIN mapped /\ mapped'[k] = mapped[k])
    BY <2>1 DEF TypeOK, StreamsOK
  <2>3. e.app = app
    OBVIOUS
  <2> HIDE DEF e
  <2>4. QED BY <1>2, <2>1, <2>2, <2>3 DEF Fresh
<1>5. ASSUME NEW i \in DOMAIN updates, Store(i) PROVE Fresh'
  <2>1. PICK k \in DOMAIN mapped : /\ updates[i].mapping = k
                                  /\ updates[i].app = Transform(mapped[k].mail, mapped[k].app)
    BY DEF References
  <2>2. k \in Nat
    BY <2>1 DEF TypeOK, StreamsOK
  <2>3. Outdate(k) /\ app' = updates[i].app
    BY <1>5, <2>1 DEF Store
  <2>4. /\ DOMAIN mapped' = DOMAIN mapped
        /\ mapped'[k].mail = mapped[k].mail /\ mapped'[k].app = mapped[k].app
        /\ \A j \in DOMAIN mapped : j # k => mapped'[j].stale
    BY <2>1, <2>2, <2>3, Outdated DEF TypeOK
  <2>5. app' = Transform(mapped[k].mail, mapped[k].app)'
    BY <1>2, <2>1, <2>3, <2>4
  <2>6. QED BY <2>4, <2>5 DEF Fresh
<1>6. CASE /\ app' = app /\ DOMAIN mapped' = DOMAIN mapped
           /\ \A k \in DOMAIN mapped : mapped'[k].stale = mapped[k].stale
  BY <1>1, <1>2, <1>6 DEF Fresh, Kept
<1>7. ASSUME NEW i \in DOMAIN confirmed, HandleConfirmed(i) PROVE Fresh'
  BY <1>2, <1>7 DEF HandleConfirmed, Fresh
<1>8. QED BY <1>3, <1>4, <1>5, <1>6, <1>7, StreamSteps

\* Counting subsets of an interval is monotonic.
LEMMA Counting ==
  ASSUME NEW n \in Nat, NEW S \in SUBSET (1 .. n), NEW T \in SUBSET S
  PROVE  /\ Cardinality(S) \in Nat /\ Cardinality(T) \in Nat
         /\ Cardinality(T) <= Cardinality(S)
         /\ T # S => Cardinality(T) + 1 <= Cardinality(S)
<1>1. IsFiniteSet(1 .. n)
  BY FS_Interval
<1>2. IsFiniteSet(S)
  BY <1>1, FS_Subset
<1>3. /\ IsFiniteSet(T) /\ Cardinality(T) <= Cardinality(S)
      /\ Cardinality(S) = Cardinality(T) => S = T
  BY <1>2, FS_Subset
<1>4. Cardinality(S) \in Nat /\ Cardinality(T) \in Nat
  BY <1>2, <1>3, FS_CardinalityType
<1>5. QED BY <1>3, <1>4

\* No application carries more stages than mails that create a meeting were
\* confirmed; one that a mapping carries, than were confirmed before it.
LEMMA StagesInv ==
  ASSUME TypeOK, References, StagesCounted, [Next]_vars
  PROVE  StagesCounted'
<1>1. TypeOK' /\ Kept
  BY StepKeeps
<1> DEFINE count == Cardinality(Raising)
           countBefore(k) == Cardinality(RaisingBefore(k))
<1>2. \A k : ConfirmationsOf(k) \subseteq ConfirmationsOf(k)'
  BY <1>1, KeptFacts
<1>3. Raising \subseteq Raising' /\ \A k : RaisingBefore(k) \subseteq RaisingBefore(k)'
  BY <1>1, <1>2 DEF Raising, RaisingBefore, Kept
<1>4. PICK n \in Nat : DOMAIN mapped = 1 .. n
  BY DEF TypeOK, StreamsOK
<1>5. PICK n2 \in Nat : DOMAIN mapped' = 1 .. n2
  BY <1>1 DEF TypeOK, StreamsOK
<1>6. /\ Raising \in SUBSET (1 .. n) /\ Raising' \in SUBSET (1 .. n2)
      /\ \A k : RaisingBefore(k) \in SUBSET Raising /\ RaisingBefore(k)' \in SUBSET Raising'
  BY <1>4, <1>5 DEF Raising, RaisingBefore
<1>7. /\ count \in Nat /\ count' \in Nat /\ count <= count'
      /\ \A k : countBefore(k) \in Nat /\ countBefore(k)' \in Nat /\ countBefore(k) <= countBefore(k)'
  <2>1. count \in Nat /\ count' \in Nat /\ count <= count'
    BY <1>3, <1>5, <1>6, Counting
  <2>2. ASSUME NEW k
        PROVE  countBefore(k) \in Nat /\ countBefore(k)' \in Nat /\ countBefore(k) <= countBefore(k)'
    <3>1. RaisingBefore(k)' \in SUBSET (1 .. n2) /\ RaisingBefore(k) \in SUBSET RaisingBefore(k)'
      BY <1>3, <1>6
    <3>2. QED BY <3>1, <1>5, Counting
  <2>3. QED BY <2>1, <2>2
<1>8. /\ app.stage \in Nat
      /\ \A k \in DOMAIN mapped : mapped[k].app \in Apps /\ mapped[k].app.stage \in Nat /\ mapped[k].mail \in Mails
      /\ \A i \in DOMAIN updates : updates[i].app.stage \in Nat
  <2>1. \A k \in DOMAIN mapped : mapped[k] \in Mappings
    BY ElementOfSeq DEF TypeOK, StreamsOK
  <2>2. \A i \in DOMAIN updates : updates[i] \in Updates
    BY ElementOfSeq DEF TypeOK, StreamsOK
  <2>3. QED BY <2>1, <2>2 DEF TypeOK, Apps, Mappings, Updates
<1>9. /\ \A k \in DOMAIN mapped : mapped'[k].app.stage <= countBefore(k)'
      /\ \A i \in DOMAIN updates : updates'[i].app.stage <= count'
      /\ app.stage <= count'
  <2>1. \A k \in DOMAIN mapped : mapped[k].app.stage <= countBefore(k)'
    <3>1. ASSUME NEW k \in DOMAIN mapped PROVE mapped[k].app.stage <= countBefore(k)'
      <4>1. mapped[k].app.stage <= countBefore(k)
        BY DEF StagesCounted
      <4> HIDE DEF countBefore
      <4>2. QED BY <4>1, <1>7, <1>8
    <3>2. QED BY <3>1
  <2>2. app.stage <= count' /\ \A i \in DOMAIN updates : updates[i].app.stage <= count'
    <3>1. app.stage <= count /\ \A i \in DOMAIN updates : updates[i].app.stage <= count
      BY DEF StagesCounted
    <3> HIDE DEF count
    <3>2. QED BY <3>1, <1>7, <1>8
  <2> HIDE DEF count, countBefore
  <2>3. QED BY <1>1, <2>1, <2>2 DEF Kept
<1>10. CASE app'.stage = app.stage /\ DOMAIN mapped' = DOMAIN mapped
            /\ DOMAIN updates' = DOMAIN updates
  BY <1>9, <1>10 DEF StagesCounted
<1>11. CASE Edit
  <2>1. app'.stage = app.stage
    BY <1>11 DEF Edit, TypeOK, Apps
  <2>2. DOMAIN mapped' = DOMAIN mapped /\ DOMAIN updates' = DOMAIN updates
    BY <1>11, Outdated DEF Edit, TypeOK
  <2>3. QED BY <1>10, <2>1, <2>2
<1>12. ASSUME NEW m \in Mails, Map(m) PROVE StagesCounted'
  <2> DEFINE e == [mail |-> m, app |-> app, state |-> "new", stale |-> FALSE]
  <2>1. mapped' = Append(mapped, e) /\ app' = app /\ updates' = updates
    BY <1>12 DEF Map
  <2>2. \A k \in DOMAIN mapped' : k \in DOMAIN mapped \/ (k = n + 1 /\ mapped'[k].app = app)
    BY <2>1, <1>4 DEF TypeOK, StreamsOK
  <2>3. app.stage <= countBefore(n + 1)'
    <3>1. Raising \subseteq RaisingBefore(n + 1)'
      BY <1>3, <1>4, <1>6 DEF RaisingBefore
    <3>2. RaisingBefore(n + 1)' \in SUBSET (1 .. n2)
      BY <1>6
    <3>3. count <= countBefore(n + 1)'
      BY <3>1, <3>2, <1>5, Counting
    <3>4. app.stage <= count
      BY DEF StagesCounted
    <3> HIDE DEF count, countBefore
    <3>5. QED BY <3>3, <3>4, <1>7, <1>8
  <2>4. QED BY <1>9, <2>1, <2>2, <2>3 DEF StagesCounted
<1>13. ASSUME NEW i \in DOMAIN confirmed, HandleConfirmed(i) PROVE StagesCounted'
  <2>1. PICK k \in DOMAIN mapped : confirmed[i].mapping = k
    BY DEF References, IsOf
  <2> DEFINE t == Transform(mapped[k].mail, mapped[k].app)
             e == [mapping |-> k, state |-> "new", app |-> t]
  <2>2. app' = app /\ mapped' = mapped /\ updates' \in {updates, Append(updates, e)}
    BY <1>13, <2>1 DEF HandleConfirmed
  <2>3. e.app = t
    OBVIOUS
  <2>4. t.stage <= count'
    <3>1. t.stage = IF label[mapped[k].mail] = "meeting_crt" THEN mapped[k].app.stage + 1 ELSE mapped[k].app.stage
      BY <1>8, TransformOf DEF TypeOK
    <3>2. mapped[k].app.stage <= countBefore(k)
      BY DEF StagesCounted
    <3>3. CASE label[mapped[k].mail] = "meeting_crt"
      <4>1. k \in Raising /\ k \notin RaisingBefore(k)
        BY <2>1, <3>3, <1>4 DEF Raising, RaisingBefore, ConfirmationsOf
      <4>2. countBefore(k) + 1 <= count
        BY <4>1, <1>6, Counting
      <4> HIDE DEF count, countBefore, t
      <4>3. QED BY <3>1, <3>2, <3>3, <4>2, <1>7, <1>8
    <3>4. CASE label[mapped[k].mail] # "meeting_crt"
      <4>1. countBefore(k) <= count
        BY <1>6, Counting
      <4> HIDE DEF count, countBefore, t
      <4>2. QED BY <3>1, <3>2, <3>4, <4>1, <1>7, <1>8
    <3>5. QED BY <3>3, <3>4
  <2> HIDE DEF e, t
  <2>5. \A j \in DOMAIN updates' : j \in DOMAIN updates \/ updates'[j] = e
    BY <2>2 DEF TypeOK, StreamsOK
  <2>6. QED BY <1>9, <2>2, <2>3, <2>4, <2>5 DEF StagesCounted
<1>14. ASSUME NEW i \in DOMAIN updates, Store(i) PROVE StagesCounted'
  <2>1. app' = updates[i].app
    BY <1>14 DEF Store
  <2>2. updates' \in {Handled(updates, i), Left(updates, i)}
    BY <1>14 DEF Store
  <2>3. DOMAIN updates' = DOMAIN updates /\ updates'[i].app = updates[i].app
    BY <2>2, MarkedUpdate DEF TypeOK
  <2>4. DOMAIN mapped' = DOMAIN mapped
    BY <1>14 DEF Store, Outdate
  <2>5. QED BY <1>9, <2>1, <2>3, <2>4 DEF StagesCounted
<1>15. QED BY <1>10, <1>11, <1>12, <1>13, <1>14, StreamSteps

\* Steps that read and write no payload and confirm nothing: presses at most end
\* or go on with the skip menu or a reason.
Calm ==
  /\ cache' = cache
  /\ DOMAIN confirmed' = DOMAIN confirmed
  /\ \A k : ConfirmationsOf(k)' = ConfirmationsOf(k)
  /\ \A q \in Presses :
       \/ press'[q] = press[q]
       \/ /\ press[q] \in Served
          /\ \/ press'[q] = Idle
             \/ /\ press'[q] \in Served /\ press'[q].mail = press[q].mail
                /\ press'[q].pc \in {"menu", "payload", "reject"}
          /\ press[q].pc = "delete" => press[q].mail \in cutOff'
  /\ shown' = shown /\ expired' = expired
  /\ \A m \in menus' : m \in menus \/ \E q \in Presses : press[q] # Idle /\ press[q].mail = m

\* Every step is calm, or one of the eight that are not.
LEMMA CalmSteps ==
  ASSUME TypeOK, References, [Next]_vars
  PROVE  \/ Calm
         \/ \E m \in Mails : Expire(m)
         \/ \E k \in DOMAIN mapped : Notify(k)
         \/ \E p \in Presses :
              \/ \E m \in Mails, button \in {"confirm", "details", "skip", "reason"} : Press(p, m, button)
              \/ ReadConfirm(p) \/ Publish(p) \/ Delete(p) \/ ReadDetails(p) \/ WriteDetails(p)
<1> USE DEF TypeOK, redis, chat, history
<1>1. CASE Edit \/ \E m \in Mails : Map(m)
  BY <1>1 DEF Edit, Map, Calm, ConfirmationsOf
<1>2. ASSUME NEW i \in DOMAIN confirmed, HandleConfirmed(i) PROVE Calm
  <2>1. confirmed' \in {Handled(confirmed, i), Left(confirmed, i)}
    BY <1>2 DEF HandleConfirmed
  <2>2. DOMAIN confirmed' = DOMAIN confirmed /\ \A k : ConfirmationsOf(k)' = ConfirmationsOf(k)
    BY <2>1, MarkedConfirmation DEF ConfirmationsOf
  <2>3. QED BY <1>2, <2>2 DEF HandleConfirmed, Calm
<1>3. CASE \E i \in DOMAIN updates : Store(i) \/ StoreFails(i)
  BY <1>3 DEF Store, StoreFails, Calm, ConfirmationsOf
<1>4. ASSUME NEW p \in Presses,
             Fails(p) \/ CutOff(p) \/ Skip(p) \/ SendMenu(p) \/ Choose(p) \/ ReadPayload(p) \/ Reject(p)
      PROVE  Calm
  <2> USE <1>4 DEF Fails, CutOff, Skip, SendMenu, Choose, ReadPayload, Reject, At, GoTo, Done, streams
  <2>1. PICK step \in {"menu", "payload", "reject"} : Moves(p, {step})
    BY Moved DEF Steps
  <2>2. cache' = cache /\ confirmed' = confirmed /\ shown' = shown /\ expired' = expired
    OBVIOUS
  <2>3. press[p].pc = "delete" => press[p].mail \in cutOff'
    OBVIOUS
  <2>4. \A m \in menus' : m \in menus \/ \E q \in Presses : press[q] # Idle /\ press[q].mail = m
    BY Serving DEF Steps
  <2>5. \A q \in Presses :
          \/ press'[q] = press[q]
          \/ /\ press[q] \in Served
             /\ \/ press'[q] = Idle
                \/ /\ press'[q] \in Served /\ press'[q].mail = press[q].mail
                   /\ press'[q].pc \in {"menu", "payload", "reject"}
             /\ press[q].pc = "delete" => press[q].mail \in cutOff'
    BY <2>1, <2>3 DEF Moves
  <2>6. QED BY <2>2, <2>4, <2>5 DEF Calm, ConfirmationsOf
<1>5. CASE UNCHANGED vars
  BY <1>5 DEF vars, Calm, ConfirmationsOf, streams
<1>6. QED BY <1>1, <1>2, <1>3, <1>4, <1>5 DEF Next

(* The steps that are not calm, each by what it does to presses, payloads and *)
(* confirmations.                                                             *)

\* ReadConfirm and ReadDetails take up the payload of the press's mail.
LEMMA Reads ==
  ASSUME TypeOK, NEW p \in Presses, ReadConfirm(p) \/ ReadDetails(p)
  PROVE  /\ press[p] \in Served /\ press[p].pc \in {"confirm", "details"}
         /\ \A q \in Presses \ {p} : press'[q] = press[q]
         /\ \/ press'[p] = Idle
            \/ /\ press'[p] \in Served /\ press'[p].mail = press[p].mail
               /\ LET value == cache[press[p].mail] IN
                  \/ /\ value \notin {Absent, Empty}
                     /\ press'[p].pc \in {"publish", "write"} /\ press'[p].payload = value
                  \/ /\ value \in {Absent, Empty}
                     /\ press'[p].pc = "write" /\ press'[p].payload = Empty
         /\ cache' = cache /\ confirmed' = confirmed
         /\ UNCHANGED <<shown, menus, cutOff, repeated, expired>>
<1> USE DEF TypeOK, ReadConfirm, ReadDetails, Done, At, streams, redis, chat, history
<1>1. press[p] \in Served /\ press[p].pc \in Steps /\ cache[press[p].mail] \in Payloads
  <2>1. press[p].pc \in Steps
    BY DEF Steps
  <2>2. press[p] \in Served
    BY <2>1, Serving
  <2>3. QED BY <2>1, <2>2 DEF Served
<1>2. CASE ReadDetails(p)
  <2> DEFINE value == IF cache[press[p].mail] = Absent THEN Empty ELSE cache[press[p].mail]
  <2>1. value \in Payloads /\ "write" \in Steps
    BY <1>1 DEF Payloads, Empty, Steps
  <2>2. press' = [press EXCEPT ![p].pc = "write", ![p].payload = value]
    BY <1>2
  <2> HIDE DEF value
  <2>3. /\ press'[p] \in Served /\ press'[p].mail = press[p].mail
        /\ press'[p].pc = "write" /\ press'[p].payload = value
        /\ \A q \in Presses \ {p} : press'[q] = press[q]
    BY <1>1, <2>1, <2>2, MovedWith
  <2>4. QED BY <1>1, <1>2, <2>3 DEF value
<1>3. CASE ReadConfirm(p)
  <2>1. CASE cache[press[p].mail] \in {Absent, Empty}
    BY <1>1, <1>3, <2>1, Moved DEF Moves
  <2>2. CASE cache[press[p].mail] \notin {Absent, Empty}
    <3> DEFINE value == cache[press[p].mail]
    <3>1. press' = [press EXCEPT ![p].pc = "publish", ![p].payload = value]
      BY <1>3, <2>2
    <3>2. value \in Payloads /\ "publish" \in Steps
      BY <1>1 DEF Steps
    <3> HIDE DEF value
    <3>3. /\ press'[p] \in Served /\ press'[p].mail = press[p].mail
          /\ press'[p].pc = "publish" /\ press'[p].payload = value
          /\ \A q \in Presses \ {p} : press'[q] = press[q]
      BY <1>1, <3>1, <3>2, MovedWith
    <3>4. QED BY <1>1, <1>3, <2>2, <3>3 DEF value
  <2>3. QED BY <2>1, <2>2
<1>4. QED BY <1>2, <1>3

\* Publish adds one confirmation, of the payload the press holds; a press that
\* is still publishing puts its mail on record.
LEMMA Publishes ==
  ASSUME TypeOK, NEW p \in Presses, Publish(p)
  PROVE  /\ press[p] \in Served /\ press[p].pc = "publish"
         /\ \A q \in Presses \ {p} : press'[q] = press[q]
         /\ \/ press'[p] = Idle /\ press[p].mail \in cutOff'
            \/ press'[p] = press[p] /\ press[p].mail \in resent'
            \/ /\ press'[p] \in Served /\ press'[p].mail = press[p].mail
               /\ press'[p].pc = "delete" /\ press'[p].payload = press[p].payload
         /\ cache' = cache
         /\ DOMAIN confirmed' = DOMAIN confirmed \cup {Len(confirmed) + 1}
         /\ \A i \in DOMAIN confirmed : confirmed'[i] = confirmed[i]
         /\ confirmed'[Len(confirmed) + 1].mapping = press[p].payload
         /\ UNCHANGED <<mapped, shown, menus, repeated, expired>>
<1> USE DEF TypeOK, Publish, At, redis, chat
<1>1. press[p] \in Served /\ press[p].pc = "publish"
  BY Serving DEF Steps
<1>2. /\ DOMAIN confirmed' = DOMAIN confirmed \cup {Len(confirmed) + 1}
      /\ \A i \in DOMAIN confirmed : confirmed'[i] = confirmed[i]
      /\ confirmed'[Len(confirmed) + 1].mapping = press[p].payload
  BY DEF StreamsOK
<1>3. /\ \A q \in Presses \ {p} : press'[q] = press[q]
      /\ \/ press'[p] = Idle /\ press[p].mail \in cutOff'
         \/ press'[p] = press[p] /\ press[p].mail \in resent'
         \/ /\ press'[p] \in Served /\ press'[p].mail = press[p].mail
            /\ press'[p].pc = "delete" /\ press'[p].payload = press[p].payload
  <2>1. CASE GoTo(p, "delete")
    <3>1. press'[p] = [press[p] EXCEPT !.pc = "delete"]
      BY <2>1 DEF GoTo
    <3>2. press'[p] \in Served /\ press'[p].mail = press[p].mail
          /\ press'[p].pc = "delete" /\ press'[p].payload = press[p].payload
      BY <1>1, <3>1 DEF Served, Steps
    <3>3. QED BY <2>1, <3>2 DEF GoTo
  <2>2. CASE press' = press /\ press[p].mail \in resent'
    BY <2>2
  <2>3. CASE Done(p) /\ press[p].mail \in cutOff'
    BY <2>3 DEF Done
  <2>4. QED BY <2>1, <2>2, <2>3
<1>4. QED BY <1>1, <1>2, <1>3

\* Delete and WriteDetails change the payload of the press's mail.
LEMMA Writes ==
  ASSUME TypeOK, NEW p \in Presses, Delete(p) \/ WriteDetails(p)
  PROVE  /\ press[p] \in Served /\ press[p].pc \in {"delete", "write"}
         /\ press'[p] = Idle
         /\ \A q \in Presses \ {p} : press'[q] = press[q]
         /\ \A m \in Mails \ {press[p].mail} : cache'[m] = cache[m]
         /\ cache'[press[p].mail] = IF press[p].pc = "delete" THEN Absent ELSE press[p].payload
         /\ confirmed' = confirmed
         /\ UNCHANGED <<mapped, shown, menus, cutOff, repeated, expired>>
<1> USE DEF TypeOK, Delete, WriteDetails, Done, At, streams, chat, history
<1>1. Moves(p, {"menu"}) /\ press'[p] = Idle /\ press[p].pc \in {"delete", "write"}
  BY Moved DEF Steps
<1>2. /\ \A m \in Mails \ {press[p].mail} : cache'[m] = cache[m]
      /\ cache'[press[p].mail] = IF press[p].pc = "delete" THEN Absent ELSE press[p].payload
  BY <1>1 DEF Moves, Served
<1>3. QED BY <1>1, <1>2 DEF Moves

\* Notify keeps the mapping as its mail's payload.
LEMMA Notifies ==
  ASSUME TypeOK, NEW k \in DOMAIN mapped, Notify(k)
  PROVE  /\ mapped[k].mail \in Mails /\ k \in Nat \ {Empty}
         /\ cache'[mapped[k].mail] = k
         /\ \A m \in Mails \ {mapped[k].mail} : cache'[m] = cache[m]
         /\ DOMAIN mapped' = DOMAIN mapped /\ mapped'[k].mail = mapped[k].mail
         /\ mapped'[k].state # "new"
         /\ mapped[k].state # "new" => mapped[k].mail \in repeated'
         /\ shown' \subseteq shown \cup {mapped[k].mail}
         /\ press' = press /\ confirmed' = confirmed
         /\ UNCHANGED <<menus, cutOff, expired>>
<1> USE DEF TypeOK, Notify
<1>1. mapped[k] \in Mappings /\ k \in Nat \ {Empty}
  BY ElementOfSeq DEF StreamsOK, Empty
<1>2. mapped[k].mail \in Mails /\ mapped[k].state \in States
  BY <1>1 DEF Mappings
<1>3. /\ cache'[mapped[k].mail] = k
      /\ \A m \in Mails \ {mapped[k].mail} : cache'[m] = cache[m]
  BY <1>2
<1>4. mapped' \in {Handled(mapped, k), Left(mapped, k)}
  OBVIOUS
<1>5. DOMAIN mapped' = DOMAIN mapped /\ mapped'[k].mail = mapped[k].mail
  BY <1>4, MarkedMapping
<1>6. mapped'[k].state # "new"
  <2>1. PICK v \in {"done", "left"} : mapped' = [mapped EXCEPT ![k].state = v]
    BY <1>4 DEF Handled, Left
  <2>2. mapped'[k] = [mapped[k] EXCEPT !.state = v]
    BY <2>1
  <2>3. QED BY <1>1, <2>2 DEF Mappings
<1>7. mapped[k].state # "new" => mapped[k].mail \in repeated'
  BY DEF Deliverable
<1>8. QED BY <1>1, <1>2, <1>3, <1>5, <1>6, <1>7

\* Press starts an idle press, and puts a mail that is busy on record.
LEMMA Starts ==
  ASSUME TypeOK, NEW p \in Presses, NEW m \in Mails,
         NEW button \in {"confirm", "details", "skip", "reason"}, Press(p, m, button)
  PROVE  /\ press[p] = Idle /\ m \in shown \cup menus
         /\ press'[p] \in Served /\ press'[p].mail = m /\ press'[p].pc = button
         /\ \A q \in Presses \ {p} : press'[q] = press[q]
         /\ \A q \in Presses : press[q] # Idle /\ press[q].mail = m => m \in repeated'
         /\ cache' = cache /\ confirmed' = confirmed
         /\ UNCHANGED <<mapped, shown, menus, cutOff, expired>>
<1> USE DEF TypeOK, Press, streams, redis, chat
<1>1. [pc |-> button, mail |-> m, payload |-> Absent] \in Served
  BY DEF Served, Steps, Payloads
<1>2. \A q \in Presses : press[q] # Idle /\ press[q].mail = m => m \in repeated'
  BY DEF Busy
<1>3. QED BY <1>1, <1>2

\* The streams, the payloads and the presses go on agreeing.
LEMMA ReferencesInv ==
  ASSUME TypeOK, References, [Next]_vars
  PROVE  References'
<1>1. TypeOK' /\ Kept
  BY StepKeeps
<1>2. /\ \A k, m : IsOf(k, m) => IsOf(k, m)'
      /\ \A k : ConfirmationsOf(k) \subseteq ConfirmationsOf(k)'
      /\ \A m, a : Transform(m, a)' = Transform(m, a)
  BY <1>1, KeptFacts
<1> DEFINE PressOK(p) ==
             /\ press[p].pc \in {"publish", "delete", "write"} =>
                  \/ IsOf(press[p].payload, press[p].mail)
                  \/ press[p].pc = "write" /\ press[p].payload = Empty
             /\ press[p].pc = "delete" => ConfirmationsOf(press[p].payload) # {}
           CacheOK == \A m \in Mails : cache[m] \notin {Absent, Empty} => IsOf(cache[m], m)
           ConfirmedOK == \A i \in DOMAIN confirmed : \E m \in Mails : IsOf(confirmed[i].mapping, m)
           UpdatesOK == \A i \in DOMAIN updates : \E k \in DOMAIN mapped :
                          /\ updates[i].mapping = k /\ ConfirmationsOf(k) # {}
                          /\ updates[i].app = Transform(mapped[k].mail, mapped[k].app)
<1>3. CacheOK /\ (\A p \in Presses : PressOK(p)) /\ ConfirmedOK /\ UpdatesOK
  BY DEF References
<1>k. \A q \in Presses : press'[q] = press[q] => PressOK(q)'
  BY <1>2, <1>3
<1>i. \A q \in Presses : press'[q] = Idle => PressOK(q)'
  BY DEF Idle
<1>4. UpdatesOK'
  <2>1. ASSUME NEW i \in DOMAIN updates
        PROVE  \E k \in DOMAIN mapped' :
                 /\ updates'[i].mapping = k /\ ConfirmationsOf(k)' # {}
                 /\ updates'[i].app = Transform(mapped[k].mail, mapped[k].app)'
    <3>1. PICK k \in DOMAIN mapped :
             /\ updates[i].mapping = k /\ ConfirmationsOf(k) # {}
             /\ updates[i].app = Transform(mapped[k].mail, mapped[k].app)
      BY <1>3
    <3>2. updates'[i].mapping = k /\ k \in DOMAIN mapped' /\ ConfirmationsOf(k)' # {}
      BY <1>1, <1>2, <3>1 DEF Kept
    <3>3. updates'[i].app = Transform(mapped[k].mail, mapped[k].app)'
      BY <1>1, <1>2, <3>1 DEF Kept
    <3>4. QED BY <3>2, <3>3
  <2>2. CASE DOMAIN updates' = DOMAIN updates
    BY <2>1, <2>2
  <2>3. ASSUME NEW i \in DOMAIN confirmed, HandleConfirmed(i)
        PROVE  UpdatesOK'
    <3>1. PICK k \in DOMAIN mapped : confirmed[i].mapping = k
      BY <1>3 DEF IsOf
    <3> DEFINE e == [mapping |-> k, state |-> "new", app |-> Transform(mapped[k].mail, mapped[k].app)]
    <3>2. mapped' = mapped /\ updates' \in {updates, Append(updates, e)}
      BY <2>3, <3>1 DEF HandleConfirmed
    <3>3. e.mapping = k /\ e.app = Transform(mapped[k].mail, mapped[k].app)
      OBVIOUS
    <3> HIDE DEF e
    <3>4. \A j \in DOMAIN updates' : j \in DOMAIN updates \/ updates'[j] = e
      BY <3>2 DEF TypeOK, StreamsOK
    <3>5. ConfirmationsOf(k)' # {}
      BY <1>2, <3>1 DEF ConfirmationsOf
    <3>6. e.app = Transform(mapped[k].mail, mapped[k].app)'
      BY <1>2, <3>2, <3>3
    <3>7. ASSUME NEW j \in DOMAIN updates', updates'[j] = e
          PROVE  \E l \in DOMAIN mapped' :
                   /\ updates'[j].mapping = l /\ ConfirmationsOf(l)' # {}
                   /\ updates'[j].app = Transform(mapped[l].mail, mapped[l].app)'
      BY <3>2, <3>3, <3>5, <3>6, <3>7
    <3>8. QED BY <2>1, <3>4, <3>7
  <2>4. CASE Edit \/ \E m \in Mails : Map(m)
    BY <2>2, <2>4 DEF Edit, Map
  <2>5. ASSUME NEW i \in DOMAIN updates, Store(i) PROVE UpdatesOK'
    <3>1. updates' \in {Handled(updates, i), Left(updates, i)}
      BY <2>5 DEF Store
    <3>2. QED BY <2>2, <3>1, MarkedUpdate DEF TypeOK
  <2>6. QED BY <2>2, <2>3, <2>4, <2>5, StreamSteps
<1>5. CASE Calm
  <2>1. ConfirmedOK' /\ CacheOK'
    BY <1>1, <1>2, <1>3, <1>5 DEF Calm, Kept
  <2>2. \A q \in Presses : PressOK(q)'
    BY <1>5, <1>k, <1>i DEF Calm
  <2>3. QED BY <1>4, <2>1, <2>2 DEF References
<1>6. ASSUME NEW m \in Mails, Expire(m) PROVE References'
  <2>1. press' = press /\ confirmed' = confirmed /\ cache' = [cache EXCEPT ![m] = Absent]
    BY <1>6 DEF Expire, streams
  <2>2. ConfirmedOK' /\ \A q \in Presses : PressOK(q)'
    BY <1>1, <1>2, <1>3, <2>1, <1>k DEF Kept
  <2>3. CacheOK'
    BY <1>2, <1>3, <2>1 DEF TypeOK
  <2>4. QED BY <1>4, <2>2, <2>3 DEF References
<1>7. ASSUME NEW k \in DOMAIN mapped, Notify(k) PROVE References'
  <2>1. ConfirmedOK' /\ \A q \in Presses : PressOK(q)'
    BY <1>2, <1>3, <1>7, <1>k, Notifies
  <2>2. IsOf(k, mapped[k].mail)'
    BY <1>7, Notifies DEF IsOf
  <2>3. CacheOK'
    BY <1>2, <1>3, <1>7, <2>2, Notifies
  <2>4. QED BY <1>4, <2>1, <2>3 DEF References
<1>8. ASSUME NEW p \in Presses, NEW m \in Mails,
             NEW button \in {"confirm", "details", "skip", "reason"}, Press(p, m, button)
      PROVE  References'
  <2>1. ConfirmedOK' /\ CacheOK'
    BY <1>2, <1>3, <1>8, Starts
  <2>2. \A q \in Presses : PressOK(q)'
    BY <1>8, <1>k, Starts
  <2>3. QED BY <1>4, <2>1, <2>2 DEF References
<1>9. ASSUME NEW p \in Presses, ReadConfirm(p) \/ ReadDetails(p) PROVE References'
  <2>1. ConfirmedOK' /\ CacheOK'
    BY <1>2, <1>3, <1>9, Reads
  <2>2. PressOK(p)'
    <3>1. press[p].mail \in Mails
      BY <1>9, Reads DEF Served
    <3>2. QED BY <1>2, <1>3, <1>9, <1>i, <3>1, Reads
  <2>3. \A q \in Presses : PressOK(q)'
    BY <1>9, <1>k, <2>2, Reads
  <2>4. QED BY <1>4, <2>1, <2>3 DEF References
<1>10. ASSUME NEW p \in Presses, Publish(p) PROVE References'
  <2>1. press[p] \in Served /\ press[p].mail \in Mails /\ IsOf(press[p].payload, press[p].mail)
    BY <1>3, <1>10, Publishes DEF Served
  <2>2. CacheOK'
    BY <1>2, <1>3, <1>10, Publishes
  <2>3. ConfirmedOK'
    BY <1>2, <1>3, <1>10, <2>1, Publishes
  <2>4. \A k : k = press[p].payload => ConfirmationsOf(k)' # {}
    BY <1>10, Publishes DEF ConfirmationsOf
  <2>5. PressOK(p)'
    BY <1>2, <1>10, <1>i, <1>k, <2>1, <2>4, Publishes
  <2>6. \A q \in Presses : PressOK(q)'
    BY <1>10, <1>k, <2>5, Publishes
  <2>7. QED BY <1>4, <2>2, <2>3, <2>6 DEF References
<1>11. ASSUME NEW p \in Presses, Delete(p) \/ WriteDetails(p) PROVE References'
  <2>1. ConfirmedOK' /\ \A q \in Presses : PressOK(q)'
    BY <1>2, <1>3, <1>11, <1>k, <1>i, Writes
  <2>2. CacheOK'
    BY <1>2, <1>3, <1>11, Writes
  <2>3. QED BY <1>4, <2>1, <2>2 DEF References
<1>12. QED BY <1>5, <1>6, <1>7, <1>8, <1>9, <1>10, <1>11, CalmSteps

\* A second press on a mail is on record.
LEMMA OneAtATimeInv ==
  ASSUME TypeOK, References, OneAtATime, [Next]_vars
  PROVE  OneAtATime'
<1>1. repeated \subseteq repeated'
  BY Grows
<1>2. CASE \A q \in Presses : press'[q] # Idle => press[q] # Idle /\ press'[q].mail = press[q].mail
  BY <1>1, <1>2 DEF OneAtATime
<1>3. ASSUME NEW p \in Presses, NEW m \in Mails,
             NEW button \in {"confirm", "details", "skip", "reason"}, Press(p, m, button)
      PROVE  OneAtATime'
  BY <1>1, <1>3, Starts DEF OneAtATime
<1>4. \A q \in Presses : press[q] \in Served => press[q] # Idle
  BY Serving DEF TypeOK, Served
<1>5. CASE Calm
  BY <1>2, <1>4, <1>5 DEF Calm
<1>6. CASE (\E m \in Mails : Expire(m)) \/ \E k \in DOMAIN mapped : Notify(k)
  BY <1>2, <1>6, Notifies DEF Expire
<1>7. ASSUME NEW p \in Presses,
             ReadConfirm(p) \/ Publish(p) \/ Delete(p) \/ ReadDetails(p) \/ WriteDetails(p)
      PROVE  OneAtATime'
  <2>1. /\ press[p] \in Served
        /\ \A q \in Presses \ {p} : press'[q] = press[q]
        /\ press'[p] = Idle \/ press'[p].mail = press[p].mail
    BY <1>7, Reads, Publishes, Writes
  <2>2. QED BY <1>2, <1>4, <2>1
<1>8. QED BY <1>3, <1>5, <1>6, <1>7, CalmSteps

\* A confirmed mapping stays settled, unless its mail is on record.
LEMMA SettledInv ==
  ASSUME TypeOK, References, OneAtATime, ConfirmedIsSettled, [Next]_vars
  PROVE  ConfirmedIsSettled'
<1>1. /\ TypeOK' /\ Kept
      /\ repeated \subseteq repeated' /\ resent \subseteq resent' /\ cutOff \subseteq cutOff'
  BY StepKeeps, Grows
<1>2. SUFFICES ASSUME NEW k \in DOMAIN mapped', ConfirmationsOf(k)' # {},
                      mapped'[k].mail \notin repeated' \cup resent' \cup cutOff'
               PROVE  Settled(k)'
  BY DEF ConfirmedIsSettled
<1>s. \A q \in Presses : press[q] \in Served => press[q] # Idle
  BY Serving DEF TypeOK, Served
<1>n. k \in Nat /\ k # Empty /\ k # Absent
  BY <1>1, <1>2 DEF TypeOK, StreamsOK, Empty, Absent
<1>d. \A q \in Presses : press[q].pc \in {"publish", "write", "delete", "confirm", "details"} => press[q] # Idle
  BY DEF Idle
<1>3. CASE ConfirmationsOf(k) = {}
  <2>1. ~Calm
    BY <1>2, <1>3 DEF Calm
  <2>2. PICK p \in Presses : Publish(p)
    <3>1. CASE confirmed' = confirmed
      BY <1>2, <1>3, <3>1 DEF ConfirmationsOf
    <3>2. \A n \in Mails : Expire(n) => confirmed' = confirmed
      BY DEF Expire, streams
    <3>3. QED BY <2>1, <3>1, <3>2, CalmSteps, Notifies, Starts, Reads, Writes
  <2>3. ConfirmationsOf(k)' \subseteq {Len(confirmed) + 1} /\ press[p].payload = k
    BY <1>2, <1>3, <2>2, Publishes DEF ConfirmationsOf
  <2>4. mapped' = mapped /\ press[p].mail = mapped[k].mail /\ press[p].pc = "publish"
    BY <2>2, <2>3, Publishes DEF References, IsOf
  <2>5. press'[p].pc = "delete" /\ press'[p].mail = mapped[k].mail
    BY <1>2, <2>2, <2>4, Publishes
  <2>6. ASSUME NEW q \in Presses, press'[q].pc \in {"publish", "write"}, press'[q].payload = k
        PROVE  FALSE
    <3>1. q # p
      BY <2>5, <2>6
    <3>2. press[q].pc \in {"publish", "write"} /\ press[q].payload = k
      BY <2>2, <2>6, <3>1, Publishes
    <3>3. press[q].mail = mapped[k].mail
      BY <3>2, <1>n DEF References, IsOf
    <3>4. QED BY <1>1, <1>2, <1>d, <2>4, <3>1, <3>2, <3>3 DEF OneAtATime
  <2>7. QED BY <2>3, <2>4, <2>5, <2>6 DEF Settled
<1>4. CASE ConfirmationsOf(k) # {}
  <2>1. k \in DOMAIN mapped /\ mapped[k].state # "new"
    BY <1>4 DEF ConfirmationsOf, References, IsOf
  <2>2. PICK m \in Mails : m = mapped[k].mail
    <3>1. mapped[k] \in Mappings
      BY <2>1, ElementOfSeq DEF TypeOK, StreamsOK
    <3>2. QED BY <3>1 DEF Mappings
  <2>3. /\ mapped'[k].mail = m /\ m \notin repeated' \cup resent' \cup cutOff'
        /\ m \notin repeated \cup resent \cup cutOff
    BY <1>1, <1>2, <2>1, <2>2 DEF Kept
  <2>4. /\ \A i, j \in ConfirmationsOf(k) : i = j
        /\ cache[m] = k => \E p \in Presses : press[p].pc = "delete" /\ press[p].mail = m
        /\ \A p \in Presses : press[p].pc \in {"publish", "write"} => press[p].payload # k
    BY <1>4, <2>1, <2>2, <2>3 DEF ConfirmedIsSettled, Settled
  <2>5. SUFFICES
        /\ \A i, j \in ConfirmationsOf(k)' : i = j
        /\ cache'[m] = k => \E p \in Presses : press'[p].pc = "delete" /\ press'[p].mail = m
        /\ \A p \in Presses : press'[p].pc \in {"publish", "write"} => press'[p].payload # k
    BY <2>3 DEF Settled
  <2>6. CASE Calm
    BY <2>3, <2>4, <2>6 DEF Calm, Idle
  <2>7. ASSUME confirmed' = confirmed PROVE ConfirmationsOf(k)' = ConfirmationsOf(k)
    BY <2>7 DEF ConfirmationsOf
  <2>8. ASSUME NEW n \in Mails, Expire(n) PROVE Settled(k)'
    <3>1. press' = press /\ confirmed' = confirmed /\ cache' = [cache EXCEPT ![n] = Absent]
      BY <2>8 DEF Expire, streams
    <3>2. cache'[m] = cache[m] \/ cache'[m] # k
      BY <3>1, <1>n DEF TypeOK
    <3>3. QED BY <2>3, <2>4, <2>7, <3>1, <3>2 DEF Settled
  <2>9. ASSUME NEW j \in DOMAIN mapped, Notify(j) PROVE Settled(k)'
    <3>1. j # k
      BY <2>1, <2>2, <2>3, <2>9, Notifies
    <3>2. cache'[m] = cache[m] \/ cache'[m] # k
      BY <2>9, <3>1, Notifies
    <3>3. QED BY <2>3, <2>4, <2>7, <2>9, <3>2, Notifies DEF Settled
  <2>10. ASSUME NEW p \in Presses, NEW n \in Mails,
                NEW button \in {"confirm", "details", "skip", "reason"}, Press(p, n, button)
         PROVE  Settled(k)'
    <3>1. press[p].pc # "delete" /\ press'[p].pc \notin {"publish", "write"}
      BY <2>10, Starts DEF Idle
    <3>2. QED BY <2>3, <2>4, <2>7, <2>10, <3>1, Starts DEF Settled
  <2>11. ASSUME NEW p \in Presses, ReadConfirm(p) \/ ReadDetails(p) PROVE Settled(k)'
    <3>1. ASSUME press'[p].pc \in {"publish", "write"}, press'[p].payload = k PROVE FALSE
      <4>1. cache[press[p].mail] = k /\ press[p].mail \in Mails
        BY <2>11, <3>1, <1>n, Reads DEF Idle, Served
      <4>2. press[p].mail = m
        BY <4>1, <1>n, <2>2 DEF References, IsOf
      <4>3. PICK q \in Presses : press[q].pc = "delete" /\ press[q].mail = m
        BY <2>4, <4>1, <4>2
      <4>4. q # p
        BY <2>11, <4>3, Reads
      <4>5. QED BY <1>d, <1>s, <2>3, <2>11, <4>2, <4>3, <4>4, Reads DEF OneAtATime
    <3>2. press[p].pc # "delete"
      BY <2>11, Reads
    <3>3. QED BY <2>3, <2>4, <2>7, <2>11, <3>1, <3>2, Reads DEF Settled
  <2>12. ASSUME NEW p \in Presses, Publish(p) PROVE Settled(k)'
    <3>1. press[p].payload # k /\ press[p].pc = "publish"
      BY <2>4, <2>12, Publishes
    <3>2. ConfirmationsOf(k)' = ConfirmationsOf(k)
      BY <2>12, <3>1, Publishes DEF ConfirmationsOf
    <3>3. press'[p].pc \in {"publish", "write"} => press'[p].payload # k
      BY <2>12, <3>1, Publishes DEF Idle
    <3>4. QED BY <2>3, <2>4, <2>12, <3>1, <3>2, <3>3, Publishes DEF Settled
  <2>13. ASSUME NEW p \in Presses, Delete(p) \/ WriteDetails(p) PROVE Settled(k)'
    <3>1. cache'[m] = k => cache[m] = k /\ press[p].mail # m
      BY <1>n, <2>4, <2>13, Writes
    <3>2. press'[p].pc \notin {"publish", "write"}
      BY <2>13, Writes DEF Idle
    <3>3. QED BY <2>3, <2>4, <2>7, <2>13, <3>1, <3>2, Writes DEF Settled
  <2>14. QED BY <2>6, <2>8, <2>9, <2>10, <2>11, <2>12, <2>13, <2>3, CalmSteps DEF Settled
<1>5. QED BY <1>3, <1>4

\* A payload that is gone has outlived its time, or was deleted by a confirmation.
LEMMA PayloadsInv ==
  ASSUME TypeOK, References, PayloadsKept, [Next]_vars
  PROVE  PayloadsKept'
<1>1. TypeOK' /\ Kept /\ shown \subseteq shown' /\ expired \subseteq expired'
  BY StepKeeps, Grows
<1>2. \A m : PayloadLostOnlyIf(m) => PayloadLostOnlyIf(m)'
  BY <1>1, KeptFacts DEF PayloadLostOnlyIf
<1>s. \A q \in Presses : press[q] \in Served => press[q] # Idle
  BY Serving DEF TypeOK, Served
<1> DEFINE PressOK(q) ==
             /\ press[q] # Idle => press[q].mail \in shown
             /\ press[q].pc = "write" /\ press[q].payload = Empty => PayloadLostOnlyIf(press[q].mail)
           CacheOK(m) == m \in shown /\ cache[m] \in {Absent, Empty} => PayloadLostOnlyIf(m)
<1>3. menus \subseteq shown /\ (\A q \in Presses : PressOK(q)) /\ \A m \in Mails : CacheOK(m)
  BY DEF PayloadsKept, TypeOK
<1>4. menus' \subseteq shown' /\ (\A q \in Presses : PressOK(q)') /\ (\A m \in Mails : CacheOK(m)') =>
        PayloadsKept'
  BY <1>1 DEF PayloadsKept, TypeOK
<1>k. \A q \in Presses : press'[q] = press[q] => PressOK(q)'
  BY <1>1, <1>2, <1>3
<1>i. \A q \in Presses : press'[q] = Idle => PressOK(q)'
  BY DEF Idle
<1>c. \A m \in Mails : shown' = shown /\ cache'[m] = cache[m] => CacheOK(m)'
  BY <1>2, <1>3
<1>5. CASE Calm
  <2>1. menus' \subseteq shown'
    BY <1>3, <1>5 DEF Calm
  <2>2. ASSUME NEW q \in Presses PROVE PressOK(q)'
    <3>1. CASE press'[q] = press[q] \/ press'[q] = Idle
      BY <1>k, <1>i, <3>1
    <3>2. CASE press'[q] # press[q] /\ press'[q] # Idle
      BY <1>1, <1>3, <1>5, <1>s, <3>2 DEF Calm
    <3>3. QED BY <3>1, <3>2
  <2>3. \A m \in Mails : CacheOK(m)'
    BY <1>5, <1>c DEF Calm
  <2>4. QED BY <1>4, <2>1, <2>2, <2>3
<1>6. ASSUME NEW n \in Mails, Expire(n) PROVE PayloadsKept'
  <2>1. /\ press' = press /\ cache' = [cache EXCEPT ![n] = Absent]
        /\ shown' = shown /\ menus' = menus /\ n \in expired'
    BY <1>6 DEF Expire, chat
  <2>2. CacheOK(n)'
    BY <2>1 DEF PayloadLostOnlyIf
  <2>3. \A m \in Mails \ {n} : CacheOK(m)'
    BY <1>c, <2>1 DEF TypeOK
  <2>4. QED BY <1>3, <1>4, <1>k, <2>1, <2>2, <2>3
<1>7. ASSUME NEW k \in DOMAIN mapped, Notify(k) PROVE PayloadsKept'
  <2>1. PICK n \in Mails : n = mapped[k].mail
    BY <1>7, Notifies
  <2>2. cache'[n] = k /\ k \in Nat /\ k # Empty
    BY <1>7, <2>1, Notifies
  <2>3. CacheOK(n)'
    BY <2>2 DEF Absent
  <2>4. \A m \in Mails \ {n} : CacheOK(m)'
    BY <1>2, <1>3, <1>7, <2>1, Notifies
  <2>5. menus' = menus /\ press' = press
    BY <1>7, Notifies
  <2>6. QED BY <1>1, <1>3, <1>4, <1>k, <2>3, <2>4, <2>5
<1>8. ASSUME NEW p \in Presses, NEW n \in Mails,
             NEW button \in {"confirm", "details", "skip", "reason"}, Press(p, n, button)
      PROVE  PayloadsKept'
  <2>1. PressOK(p)'
    BY <1>3, <1>8, Starts
  <2>2. \A q \in Presses : PressOK(q)'
    BY <1>8, <1>k, <2>1, Starts
  <2>3. menus' = menus /\ shown' = shown /\ cache' = cache
    BY <1>8, Starts
  <2>4. QED BY <1>3, <1>4, <1>c, <2>2, <2>3
<1>9. ASSUME NEW p \in Presses, ReadConfirm(p) \/ ReadDetails(p) PROVE PayloadsKept'
  <2>1. press[p].mail \in Mails /\ press[p].mail \in shown
    BY <1>3, <1>9, <1>s, Reads DEF Served
  <2>2. PressOK(p)'
    <3>1. press'[p] = Idle \/ press'[p].mail = press[p].mail
      BY <1>9, Reads
    <3>2. ASSUME press'[p].pc = "write", press'[p].payload = Empty
          PROVE  PayloadLostOnlyIf(press[p].mail) /\ press'[p].mail = press[p].mail
      <4>1. press'[p] # Idle
        BY <3>2 DEF Idle
      <4>2. cache[press[p].mail] \in {Absent, Empty}
        BY <1>9, <3>2, <4>1, Reads
      <4>3. QED BY <1>3, <2>1, <3>1, <4>1, <4>2
    <3>3. QED BY <1>1, <1>2, <2>1, <3>1, <3>2, <1>i
  <2>3. \A q \in Presses : PressOK(q)'
    BY <1>9, <1>k, <2>2, Reads
  <2>4. menus' = menus /\ shown' = shown /\ cache' = cache
    BY <1>9, Reads
  <2>5. QED BY <1>3, <1>4, <1>c, <2>3, <2>4
<1>10. ASSUME NEW p \in Presses, Publish(p) PROVE PayloadsKept'
  <2>1. press[p].mail \in shown
    BY <1>3, <1>10, <1>s, Publishes
  <2>2. PressOK(p)'
    BY <1>1, <1>10, <1>i, <1>k, <2>1, Publishes
  <2>3. \A q \in Presses : PressOK(q)'
    BY <1>10, <1>k, <2>2, Publishes
  <2>4. menus' = menus /\ shown' = shown /\ cache' = cache
    BY <1>10, Publishes
  <2>5. QED BY <1>3, <1>4, <1>c, <2>3, <2>4
<1>11. ASSUME NEW p \in Presses, Delete(p) \/ WriteDetails(p) PROVE PayloadsKept'
  <2>1. PICK n \in Mails : n = press[p].mail
    BY <1>11, Writes DEF Served
  <2>2. \A m \in Mails \ {n} : CacheOK(m)'
    BY <1>11, <1>c, <2>1, Writes
  <2>3. cache'[n] \in {Absent, Empty} => PayloadLostOnlyIf(n)'
    <3>1. CASE press[p].pc = "delete"
      <4>1. WasConfirmed(n)
        BY <2>1, <3>1 DEF References, IsOf, WasConfirmed
      <4>2. QED BY <1>2, <4>1 DEF PayloadLostOnlyIf
    <3>2. CASE press[p].pc = "write" /\ press[p].payload = Empty
      BY <1>2, <1>3, <2>1, <3>2
    <3>3. CASE press[p].pc = "write" /\ press[p].payload # Empty
      <4>1. press[p].payload \in DOMAIN mapped
        BY <3>3 DEF References, IsOf
      <4>2. press[p].payload \in Nat
        BY <4>1 DEF TypeOK, StreamsOK
      <4>3. cache'[n] = press[p].payload
        BY <1>11, <2>1, <3>3, Writes
      <4>4. QED BY <3>3, <4>2, <4>3 DEF Absent
    <3>4. QED BY <1>11, <3>1, <3>2, <3>3, Writes
  <2>4. \A q \in Presses : PressOK(q)'
    BY <1>11, <1>k, <1>i, Writes
  <2>5. menus' = menus /\ shown' = shown
    BY <1>11, Writes
  <2>6. QED BY <1>3, <1>4, <2>2, <2>3, <2>4, <2>5
<1>12. QED BY <1>5, <1>6, <1>7, <1>8, <1>9, <1>10, <1>11, CalmSteps

\* A reason chosen is on its way until it is published, or its loss accounted for.
LEMMA RejectionInv ==
  ASSUME TypeOK, References, PayloadsKept, RejectionOnItsWay, [Next]_vars
  PROVE  RejectionOnItsWay'
<1> DEFINE OnItsWay(m) == \E p \in Presses : press[p].pc \in {"payload", "reject"} /\ press[p].mail = m
           Fate(m) == OnItsWay(m) \/ m \in rejected \cup cutOff \/ PayloadLostOnlyIf(m)
<1>1. /\ Kept /\ rejected \subseteq rejected' /\ cutOff \subseteq cutOff'
      /\ expired \subseteq expired'
      /\ \A m : PayloadLostOnlyIf(m) => PayloadLostOnlyIf(m)'
  BY StepKeeps, Grows, KeptFacts DEF PayloadLostOnlyIf
<1>2. SUFFICES \A m \in reasons' : Fate(m)'
  BY DEF RejectionOnItsWay
<1>3. \A m \in reasons : Fate(m)
  BY DEF RejectionOnItsWay
<1>4. ASSUME reasons' = reasons,
             \A q \in Presses : press[q].pc \in {"payload", "reject"} => press'[q] = press[q]
      PROVE  \A m \in reasons' : Fate(m)'
  BY <1>1, <1>3, <1>4
<1>5. ASSUME NEW p \in Presses, Choose(p) \/ CutOff(p) \/ ReadPayload(p) \/ Reject(p)
      PROVE  \A m \in reasons' : Fate(m)'
  <2> USE DEF Choose, CutOff, ReadPayload, Reject, At, GoTo, Done, redis, TypeOK
  <2>1. PICK step \in {"payload", "reject"} : Moves(p, {step})
    BY <1>5, Moved DEF Steps
  <2>2. PICK m \in Mails : m = press[p].mail
    BY <2>1 DEF Moves, Served
  <2>3. reasons' \subseteq reasons \cup {m}
    BY <1>5, <2>2
  <2>4. Fate(m)'
    <3>1. CASE Choose(p)
      <4>1. press'[p] = [press[p] EXCEPT !.pc = "payload"]
        BY <3>1
      <4>2. press'[p].pc = "payload" /\ press'[p].mail = m
        BY <2>1, <2>2, <4>1 DEF Moves, Served
      <4>3. QED BY <4>2
    <3>2. CASE CutOff(p)
      BY <2>2, <3>2
    <3>3. CASE ReadPayload(p)
      <4>1. CASE cache[press[p].mail] \in {Absent, Empty}
        <5>1. m \in shown
          BY <2>1, <2>2, Serving DEF PayloadsKept, Moves, Served
        <5>2. PayloadLostOnlyIf(m)
          BY <2>2, <4>1, <5>1 DEF PayloadsKept
        <5>3. QED BY <1>1, <5>2
      <4>2. CASE cache[press[p].mail] \notin {Absent, Empty}
        <5>1. press'[p] = [press[p] EXCEPT !.pc = "reject"]
          BY <3>3, <4>2
        <5>2. press'[p].pc = "reject" /\ press'[p].mail = m
          BY <2>1, <2>2, <5>1 DEF Moves, Served
        <5>3. QED BY <5>2
      <4>3. QED BY <4>1, <4>2
    <3>4. CASE Reject(p)
      BY <2>2, <3>4
    <3>5. QED BY <1>5, <3>1, <3>2, <3>3, <3>4
  <2>5. \A n \in reasons' \ {m} : Fate(n)'
    <3>1. \A q \in Presses \ {p} : press'[q] = press[q]
      BY <2>1 DEF Moves
    <3>2. ASSUME NEW n \in reasons, n # m PROVE Fate(n)'
      <4>1. CASE OnItsWay(n)
        BY <2>2, <3>1, <3>2, <4>1
      <4>2. CASE n \in rejected \cup cutOff \/ PayloadLostOnlyIf(n)
        BY <1>1, <4>2
      <4>3. QED BY <1>3, <4>1, <4>2
    <3>3. QED BY <2>3, <3>2
  <2>6. QED BY <2>4, <2>5
<1>6. CASE \/ Edit \/ (\E m \in Mails : Map(m) \/ Expire(m)) \/ UNCHANGED vars
           \/ \E i \in DOMAIN mapped : Notify(i)
  BY <1>4, <1>6 DEF Edit, Map, Expire, Notify, redis, vars
<1>7. CASE \/ \E i \in DOMAIN confirmed : HandleConfirmed(i)
           \/ \E i \in DOMAIN updates : Store(i) \/ StoreFails(i)
  BY <1>4, <1>7 DEF HandleConfirmed, Store, StoreFails, redis
<1>8. ASSUME NEW p \in Presses, NEW m \in Mails,
             NEW button \in {"confirm", "details", "skip", "reason"}, Press(p, m, button)
      PROVE  \A n \in reasons' : Fate(n)'
  <2>1. reasons' = reasons
    BY <1>8 DEF Press, redis
  <2>2. press[p].pc \notin {"payload", "reject"}
    BY <1>8, Starts DEF Idle
  <2>3. QED BY <1>4, <1>8, <2>1, <2>2, Starts
<1>9. ASSUME NEW p \in Presses, Fails(p) \/ Skip(p) \/ SendMenu(p)
      PROVE  \A n \in reasons' : Fate(n)'
  <2> USE DEF Fails, Skip, SendMenu, At, GoTo, Done, redis, TypeOK
  <2>1. Moves(p, {"menu"}) /\ press[p].pc \notin {"payload", "reject"} /\ reasons' = reasons
    BY <1>9, Moved DEF Steps
  <2>2. QED BY <1>4, <2>1 DEF Moves
<1>10. ASSUME NEW p \in Presses,
              ReadConfirm(p) \/ Publish(p) \/ Delete(p) \/ ReadDetails(p) \/ WriteDetails(p)
       PROVE  \A n \in reasons' : Fate(n)'
  <2>1. reasons' = reasons
    BY <1>10 DEF ReadConfirm, Publish, Delete, ReadDetails, WriteDetails, redis
  <2>2. /\ press[p].pc \notin {"payload", "reject"}
        /\ \A q \in Presses \ {p} : press'[q] = press[q]
    BY <1>10, Reads, Publishes, Writes
  <2>3. QED BY <1>4, <2>1, <2>2
<1>11. QED BY <1>5, <1>6, <1>7, <1>8, <1>9, <1>10 DEF Next

-------------------------------------------------------------------------------
(* The theorems *)

\* The initial state satisfies the inductive invariant.
LEMMA InitInv == Init => IInv
<1> SUFFICES ASSUME Init PROVE IInv
  OBVIOUS
<1> USE DEF Init
<1>1. TypeOK
  BY DEF TypeOK, StreamsOK, Apps, Statuses, Payloads, Absent
<1>2. References /\ OneAtATime
  BY DEF References, OneAtATime, Absent, Idle
<1>3. ConfirmedIsSettled /\ Fresh
  BY DEF ConfirmedIsSettled, Fresh
<1>4. StagesCounted
  <2>1. Raising = {} /\ Cardinality({}) = 0
    BY FS_EmptySet DEF Raising
  <2>2. QED BY <2>1 DEF StagesCounted
<1>5. PayloadsKept /\ RejectionOnItsWay
  BY DEF PayloadsKept, RejectionOnItsWay, Idle
<1>6. QED BY <1>1, <1>2, <1>3, <1>4, <1>5 DEF IInv

\* Every step of Next, and stuttering, keeps the inductive invariant.
LEMMA NextInv == IInv /\ [Next]_vars => IInv'
BY StepKeeps, Grows, ReferencesInv, OneAtATimeInv, SettledInv, StagesInv, FreshInv,
   PayloadsInv, RejectionInv
DEF IInv

\* The invariants of decisions hold of every behaviour.
THEOREM Invariance == Spec => []IInv
<1>1. Init => IInv
  BY InitInv
<1>2. IInv /\ [Next]_vars => IInv'
  BY NextInv
<1>3. QED
  BY <1>1, <1>2, PTL DEF Spec

\* The variables of the bot, the relays and the streams keep their types.
THEOREM TypeCorrect == Spec => []TypeOK
BY Invariance, PTL DEF IInv

\* Two confirmations of one mapping need overlapping presses on its mail, its
\* message shown again, a failure between publication and deletion, or a Redis
\* client that sent the confirmation again (handleMappingConfirmation,
\* handleMappingDetails, Client.Publish).
THEOREM OneConfirmation == Spec => []ConfirmedOnce
<1>1. IInv => ConfirmedOnce
  <2> SUFFICES ASSUME IInv, NEW k \in DOMAIN mapped, Cardinality(ConfirmationsOf(k)) > 1,
                      mapped[k].mail \notin repeated \cup resent \cup cutOff
               PROVE  FALSE
    BY DEF ConfirmedOnce
  <2>1. CASE ConfirmationsOf(k) = {}
    BY <2>1, FS_EmptySet
  <2>2. ASSUME NEW i \in ConfirmationsOf(k) PROVE FALSE
    <3>1. ConfirmationsOf(k) = {i}
      BY <2>2 DEF IInv, ConfirmedIsSettled, Settled
    <3>2. Cardinality({i}) = 1
      BY FS_Singleton
    <3>3. QED BY <3>1, <3>2
  <2>3. QED BY <2>1, <2>2
<1>2. QED BY <1>1, Invariance, PTL

\* The stage is raised at most once for each mapping confirmed of a mail that
\* creates a meeting (updateStageIfNeeded, ApplicationUpdateProcessedHandler).
THEOREM StageCounts == Spec => []RaisedOncePerMapping
<1>1. IInv => RaisedOncePerMapping
  BY DEF IInv, StagesCounted, Raising, RaisedOncePerMapping
<1>2. QED BY <1>1, Invariance, PTL

\* A chosen reason is lost only with an expired payload, a confirmation or a
\* failed call (handleSkipReason).
THEOREM RejectionReaches == Spec => []RejectionLostOnlyIf
<1>1. IInv => RejectionLostOnlyIf
  <2> SUFFICES ASSUME IInv, NEW m \in reasons
               PROVE  \/ \E p \in Presses : press[p] # Idle /\ press[p].mail = m
                      \/ m \in rejected \cup cutOff \cup expired
                      \/ WasConfirmed(m)
    BY DEF RejectionLostOnlyIf, WasConfirmed
  <2>1. \A p \in Presses : press[p].pc \in {"payload", "reject"} => press[p] # Idle
    BY DEF Idle
  <2>2. QED BY <2>1 DEF IInv, RejectionOnItsWay, PayloadLostOnlyIf
<1>2. QED BY <1>1, Invariance, PTL

\* An application stored never goes back on what it held when its mail was
\* mapped, unless something else was stored in between (Transform, Handle).
LEMMA StoringKeeps ==
  ASSUME IInv, [Next]_vars, SetBack, edits' = edits
  PROVE  \E i \in DOMAIN updates : Store(i) /\ mapped[updates[i].mapping].stale
<1> USE DEF IInv
<1>1. app' # app
  <2>1. app \in Apps
    BY DEF TypeOK
  <2>2. QED BY <2>1 DEF SetBack, Apps
<1>2. ~Edit /\ ~ \E m \in Mails : Map(m)
  <2>1. ~ \E m \in Mails : Map(m)
    BY <1>1 DEF Map
  <2>2. QED BY <2>1 DEF Edit
<1>3. PICK i \in DOMAIN updates : Store(i)
  BY <1>1, <1>2, StreamSteps DEF HandleConfirmed
<1>4. PICK k \in DOMAIN mapped : /\ updates[i].mapping = k
                                /\ updates[i].app = Transform(mapped[k].mail, mapped[k].app)
  BY DEF References
<1>5. SUFFICES ASSUME ~mapped[k].stale PROVE FALSE
  BY <1>3, <1>4
<1>6. app' = Transform(mapped[k].mail, mapped[k].app)
  BY <1>3, <1>4 DEF Store
<1>7. app = mapped[k].app
  BY <1>1, <1>5, <1>6 DEF Fresh
<1>8. mapped[k].mail \in Mails /\ app \in Apps
  <2>1. mapped[k] \in Mappings
    BY ElementOfSeq DEF TypeOK, StreamsOK
  <2>2. QED BY <2>1 DEF Mappings, TypeOK
<1>9. /\ app'.stage >= app.stage
      /\ app.status \in {"offer", "denied"} => app'.status \in {"offer", "denied"}
      /\ app.followUp # {} => app'.followUp = app.followUp
  <2>1. app.stage \in Nat
    BY <1>8 DEF Apps
  <2>2. QED BY <1>6, <1>7, <1>8, <2>1, TransformOf DEF TypeOK
<1>10. QED
  <2>1. app.stage \in Nat /\ app'.stage \in Nat
    BY <1>8, <1>6, <1>7, TransformOf DEF TypeOK, Apps
  <2>2. QED BY <1>9, <2>1 DEF SetBack

\* Storing a confirmation takes nothing back, unless something else was stored
\* since its mail was mapped (Transform, _resolve_application_filters).
THEOREM NothingTakenBack == Spec => SetBackOnlyIfStale
<1>1. IInv /\ [Next]_vars =>
        [SetBack /\ edits' = edits =>
           \E i \in DOMAIN updates : Store(i) /\ mapped[updates[i].mapping].stale]_vars
  BY StoringKeeps
<1>2. QED
  BY <1>1, Invariance, PTL DEF Spec, SetBackOnlyIfStale

-------------------------------------------------------------------------------
(* The application a decision is stored in *)

\* Where a task of each kind may be.
Places(t) ==
  CASE t = "update"   -> {"idle", "save", "look", "write", "broken", "end"}
    [] t = "embed"    -> {"idle", "save", "end"}
    [] t = "external" -> {"idle", "look", "write", "broken", "end"}
    [] t = "internal" -> {"idle", "find", "save", "end"}
    [] OTHER          -> {"idle", "save", "find", "look", "write", "broken", "end"}

\* the tasks that make the sheet follow the row
Following == {"update", "external", "cleanup"}

\* What the cells of the row may hold.
Sheets == [status : Values.status \cup {None}, kept : Values.kept, salary : Values.salary]

\* What an undisturbed task knows of the two sides, step by step.
KnowsRow(t) ==
  /\ t = "update" /\ pc[t] = "save" => dto[t] = [db EXCEPT !.status = updateStream[pos]]
  /\ t = "update" /\ pc[t] \in {"look", "write", "end"} => db.status = updateStream[pos]
  /\ t = "cleanup" /\ pc[t] = "save" => dto[t] = [db EXCEPT !.status = "pending"]
  /\ pc[t] \in {"look", "write"} => dto[t] = db

\* And of the sheet: what differs is still to be written.
KnowsSheet(t) ==
  /\ pc[t] = "write" =>
       \A c \in Cells : c \in todo[t] \/ dto[t][c] = sheet[c] \/ (blind[t] /\ dto[t][c] = None)
  /\ t \in Following /\ pc[t] = "end" => FollowsDb(t)
  /\ t = "internal" /\ pc[t] \in {"find", "save"} =>
       dto[t].status = None \/ \A c \in Cells : dto[t][c] = sheet[c]
  /\ t = "internal" /\ pc[t] = "end" =>
       /\ db.status = sheet.status /\ db.kept = sheet.kept
       /\ None \notin {db.salary, sheet.salary} => db.salary = sheet.salary

\* A task that was disturbed knows nothing any more.
TaskOK(t) ==
  /\ pc[t] \in Places(t)
  /\ pc[t] = "idle" => quiet[t]
  /\ t = "embed" /\ pc[t] = "save" => dto[t].embedding
  /\ quiet[t] => KnowsRow(t) /\ KnowsSheet(t)

RecordInv ==
  /\ RecordTypeOK
  /\ "update" \in Tasks /\ pc["update"] # "idle" => pos > 0
  /\ \A t \in Tasks : TaskOK(t)

\* The columns of the sheet.
LEMMA CellsAre == Cells = {"status", "kept", "salary"}
BY DEF Cells, Values

\* A draft with a status is a row.
LEMMA DraftsAre ==
  /\ Rows \subseteq Drafts
  /\ \A d \in Drafts : d.status # None => d \in Rows
BY DEF Rows, Drafts

\* Initially nothing is under way and the two sides agree.
LEMMA RecordInitInv == RecordInit => RecordInv
<1> SUFFICES ASSUME RecordInit PROVE RecordInv
  OBVIOUS
<1>1. db \in Rows /\ sheet \in [status : Values.status \cup {None}, kept : Values.kept, salary : Values.salary]
  BY CellsAre DEF RecordInit, Rows, Values, RowStatuses, Cell
<1>2. Blank \in Rows
  BY DEF Blank, Rows, Values, RowStatuses
<1>3. RecordTypeOK
  BY <1>1, <1>2, DraftsAre, RecordAssumption DEF RecordInit, RecordTypeOK, RecordAssumption
<1>4. \A t \in Tasks : TaskOK(t)
  BY RecordAssumption
     DEF RecordInit, TaskOK, Places, Kinds, KnowsRow, KnowsSheet, RecordAssumption
<1>5. QED BY <1>3, <1>4 DEF RecordInv, RecordInit

\* An idle task has forgotten what it did.
LEMMA IdleIsOK ==
  ASSUME NEW t \in Tasks, pc'[t] = "idle", quiet'[t]
  PROVE  TaskOK(t)'
BY RecordAssumption DEF TaskOK, KnowsRow, KnowsSheet, Places, RecordAssumption, Kinds

\* Tasks that are left alone know what they knew.
LEMMA OthersKeep ==
  ASSUME RecordInv, NEW t,
         \A u \in Tasks \ {t} : pc'[u] = pc[u] /\ dto'[u] = dto[u] /\ todo'[u] = todo[u]
                             /\ blind'[u] = blind[u],
         \A u \in Tasks \ {t} : IF pc[u] = "idle" THEN quiet'[u]
                               ELSE quiet'[u] => quiet[u] /\ UNCHANGED <<db, sheet>>,
         t # "update" /\ "update" \in Tasks /\ pc["update"] # "idle" => updateStream'[pos'] = updateStream[pos]
  PROVE  \A u \in Tasks \ {t} : TaskOK(u)'
<1> SUFFICES ASSUME NEW u \in Tasks \ {t} PROVE TaskOK(u)'
  OBVIOUS
<1>1. CASE pc[u] = "idle"
  BY <1>1, IdleIsOK
<1>2. CASE pc[u] # "idle"
  <2>1. quiet'[u] => quiet[u] /\ UNCHANGED <<db, sheet>>
    BY <1>2
  <2>2. u = "update" => updateStream'[pos'] = updateStream[pos]
    BY <1>2
  <2>3. TaskOK(u)
    BY DEF RecordInv
  <2>4. pc'[u] = pc[u] /\ dto'[u] = dto[u] /\ todo'[u] = todo[u]
     /\ blind'[u] = blind[u]
    OBVIOUS
  <2>5. QED BY <1>2, <2>1, <2>2, <2>3, <2>4
               DEF TaskOK, KnowsRow, KnowsSheet, FollowsDb, Places
<1>3. QED BY <1>1, <1>2

\* What a write does to those who are under way.
LEMMA Disturbing ==
  ASSUME RecordInv, NEW t, Disturb(t)
  PROVE  /\ quiet' \in [Tasks -> BOOLEAN]
         /\ \A u \in Tasks \ {t} : IF pc[u] = "idle" THEN quiet'[u]
                                  ELSE quiet'[u] => quiet[u] /\ UNCHANGED <<db, sheet>>
         /\ t \in Tasks /\ pc[t] # "idle" => quiet'[t] = quiet[t]
BY DEF RecordInv, RecordTypeOK, Disturb, Undisturbed

\* The user types, or a mail is confirmed.
LEMMA PublishKeeps ==
  ASSUME RecordInv, NEW status \in Confirmed, PublishUpdate(status)
  PROVE  RecordInv'
<1>1. updateStream' = Append(updateStream, status)
      /\ UNCHANGED <<db, sheet, acked, pos, request, pc, dto, todo, blind, quiet, bounds>>
  BY DEF PublishUpdate
<1>2. /\ updateStream' \in Seq(RowStatuses) /\ Len(updateStream') = Len(updateStream) + 1
      /\ Len(updateStream) \in Nat
      /\ \A i \in 1 .. Len(updateStream) : updateStream'[i] = updateStream[i]
  <2>1. updateStream \in Seq(RowStatuses) /\ status \in RowStatuses
    BY DEF RecordInv, RecordTypeOK, Confirmed, RowStatuses
  <2>2. QED BY <1>1, <2>1, AppendProperties
<1>3. RecordTypeOK'
  <2>1. acked' \subseteq DOMAIN updateStream'
    BY <1>1, <1>2 DEF RecordInv, RecordTypeOK
  <2>2. pos' \in 0 .. Len(updateStream')
    BY <1>1, <1>2 DEF RecordInv, RecordTypeOK
  <2>3. QED BY <1>1, <1>2, <2>1, <2>2 DEF RecordInv, RecordTypeOK, bounds
<1>4. "update" \in Tasks /\ pc["update"] # "idle" => updateStream'[pos'] = updateStream[pos]
  BY <1>1, <1>2 DEF RecordInv, RecordTypeOK
<1>5. \A u \in Tasks \ {"nobody"} : TaskOK(u)'
  <2>1. \A u \in Tasks \ {"nobody"} : pc[u] = "idle" => quiet'[u]
    BY <1>1 DEF RecordInv, TaskOK
  <2>2. QED BY <1>1, <1>4, <2>1, OthersKeep
<1>6. "nobody" \notin Tasks
  BY RecordAssumption DEF RecordAssumption, Kinds
<1>7. QED BY <1>1, <1>3, <1>5, <1>6 DEF RecordInv

\* An edit by the user disturbs every task under way.
LEMMA EditKeeps ==
  ASSUME RecordInv, NEW c \in Cells, NEW value \in Typed[c], EditCell(c, value)
  PROVE  RecordInv'
<1>1. /\ \/ sheet' = [sheet EXCEPT ![c] = value]
         \/ sheet' = Emptied([sheet EXCEPT ![c] = value])
      /\ cellEdits < MaxCellEdits
      /\ cellEdits' = cellEdits + 1
      /\ UNCHANGED <<db, updateStream, acked, pos, request, pc, dto, todo, blind, requests, faults>>
      /\ Disturb("user")
  BY DEF EditCell, bus
<1>2. "user" \notin Tasks
  BY RecordAssumption DEF RecordAssumption, Kinds
<1>3. RecordTypeOK'
  <2>1. sheet' \in Sheets
    <3>1. sheet \in Sheets /\ (c = "status" => value \in Values.status \cup {None})
          /\ (c # "status" => value \in Values[c])
      BY CellsAre DEF Typed, Values, RowStatuses, RecordInv, RecordTypeOK, Sheets
    <3>2. [sheet EXCEPT ![c] = value] \in Sheets
      BY <3>1, CellsAre DEF Sheets
    <3>3. CASE sheet' = [sheet EXCEPT ![c] = value]
      BY <3>2, <3>3
    <3>4. CASE sheet' = Emptied([sheet EXCEPT ![c] = value])
      <4>1. \A row \in Sheets : Emptied(row) \in Sheets
        BY DEF Sheets, Emptied
      <4>2. QED BY <3>2, <3>4, <4>1
    <3>5. QED BY <1>1, <3>3, <3>4
  <2>2. cellEdits' \in 0 .. MaxCellEdits
    BY <1>1, RecordAssumption DEF RecordInv, RecordTypeOK, RecordAssumption
  <2>3. quiet' \in [Tasks -> BOOLEAN]
    BY <1>1, Disturbing
  <2>4. QED BY <1>1, <2>1, <2>2, <2>3 DEF RecordInv, RecordTypeOK, Sheets
<1>4. \A u \in Tasks \ {"user"} : TaskOK(u)'
  BY <1>1, Disturbing, OthersKeep
<1>5. QED BY <1>1, <1>2, <1>3, <1>4 DEF RecordInv

\* A task starts with the row it has read.
LEMMA BeginKeeps ==
  ASSUME RecordInv, NEW t \in Tasks, NEW place \in Places(t) \ {"idle"}, NEW row \in Drafts,
         t # "internal" => row \in Rows,
         Begin(t, place, row), pc[t] = "idle",
         pos' \in 0 .. Len(updateStream), t # "update" => pos' = pos, t = "update" => pos' > 0,
         request' \in {"owed", "offered", "acked"}, requests' \in 0 .. MaxRequests,
         TaskOK(t)'
  PROVE  RecordInv'
<1>1. /\ pc' = [pc EXCEPT ![t] = place] /\ dto' = [dto EXCEPT ![t] = row]
      /\ UNCHANGED <<db, sheet, updateStream, acked, todo, blind, quiet, cellEdits, faults>>
  BY DEF Begin, Goto
<1>2. place \in {"idle", "find", "save", "look", "write", "broken", "end"}
  BY RecordAssumption DEF Places, RecordAssumption, Kinds
<1>3. RecordTypeOK'
  BY <1>1, <1>2 DEF RecordInv, RecordTypeOK
<1>4. \A u \in Tasks \ {t} : pc'[u] = pc[u] /\ dto'[u] = dto[u] /\ todo'[u] = todo[u]
                          /\ blind'[u] = blind[u]
  BY <1>1 DEF RecordInv, RecordTypeOK
<1>5. \A u \in Tasks : pc[u] = "idle" => quiet[u]
  BY DEF RecordInv, TaskOK
<1>6. \A u \in Tasks \ {t} : TaskOK(u)'
  BY <1>1, <1>4, <1>5, OthersKeep
<1>7. QED BY <1>1, <1>3, <1>4, <1>6 DEF RecordInv

\* The first of a set of entries.
LEMMA LeastEntry ==
  ASSUME NEW S, S \subseteq Nat, S # {}
  PROVE  Min(S) \in S /\ \A x \in S : Min(S) <= x
<1>1. PICK m \in S : \A x \in S : <<x, m>> \notin OpToRel(<, Nat)
  BY NatLessThanWellFounded, WFMin
<1>2. \A x, y \in Nat : x < y => <<x, y>> \in OpToRel(<, Nat)
  BY DEF OpToRel
<1>3. \A x, y \in Nat : ~(x < y) => y <= x
  OBVIOUS
<1>4. \A x \in S : ~(x < m)
  BY <1>1, <1>2, Zenon
<1>5. \A x \in S : m <= x
  BY <1>3, <1>4
<1>6. QED BY <1>5 DEF Min

\* An update begins with the row as it is and the status it carries.
LEMMA ReceiveUpdateKeeps ==
  ASSUME RecordInv, "update" \in Tasks, ReceiveUpdate
  PROVE  RecordInv'
<1> DEFINE row == [db EXCEPT !.status = updateStream[pos']]
<1>1. /\ pc["update"] = "idle" /\ Unacked # {} /\ pos' = Min(Unacked)
      /\ Begin("update", "save", row) /\ UNCHANGED <<request, requests>>
  BY DEF ReceiveUpdate
<1>2. pos' \in Unacked
  <2>1. Unacked \subseteq Nat
    BY DEF Unacked, RecordInv, RecordTypeOK
  <2>2. QED BY <1>1, <2>1, LeastEntry
<1>3. pos' \in 1 .. Len(updateStream) /\ updateStream[pos'] \in RowStatuses
  BY <1>2 DEF Unacked, RecordInv, RecordTypeOK
<1>4. row \in Rows
  BY <1>3 DEF RecordInv, RecordTypeOK, Rows, Values
<1>5. quiet["update"]
  BY <1>1 DEF RecordInv, TaskOK
<1>6. pc'["update"] = "save" /\ dto'["update"] = row /\ UNCHANGED <<db, sheet, updateStream, quiet>>
  BY <1>1 DEF Begin, Goto, RecordInv, RecordTypeOK
<1>7. TaskOK("update")'
  BY <1>6 DEF TaskOK, KnowsRow, KnowsSheet, Places, Following
<1>8. "save" \in Places("update") \ {"idle"} /\ requests' \in 0 .. MaxRequests /\ row \in Drafts
      /\ request' \in {"owed", "offered", "acked"} /\ pos' > 0 /\ pos' \in 0 .. Len(updateStream)
  BY <1>1, <1>3, <1>4, DraftsAre DEF Places, RecordInv, RecordTypeOK
<1> HIDE DEF row
<1>9. QED BY <1>1, <1>4, <1>7, <1>8, BeginKeeps

\* An embedding begins with the row as it is.
LEMMA ReceiveEmbeddingKeeps ==
  ASSUME RecordInv, "embed" \in Tasks, ReceiveEmbedding
  PROVE  RecordInv'
<1> DEFINE row == [db EXCEPT !.embedding = TRUE]
<1>1. /\ pc["embed"] = "idle" /\ request' = "offered"
      /\ Begin("embed", "save", row) /\ UNCHANGED <<pos, requests>>
  BY DEF ReceiveEmbedding
<1>2. row \in Rows /\ row.embedding
  BY DEF RecordInv, RecordTypeOK, Rows
<1>3. pc'["embed"] = "save" /\ dto'["embed"] = row /\ UNCHANGED <<db, sheet, updateStream, quiet>>
  BY <1>1 DEF Begin, Goto, RecordInv, RecordTypeOK
<1>4. TaskOK("embed")'
  BY <1>2, <1>3 DEF TaskOK, KnowsRow, KnowsSheet, Places, Following
<1>5. "save" \in Places("embed") \ {"idle"} /\ pos' \in 0 .. Len(updateStream) /\ row \in Drafts
      /\ requests' \in 0 .. MaxRequests
  BY <1>1, <1>2, DraftsAre DEF Places, RecordInv, RecordTypeOK
<1> HIDE DEF row
<1>6. QED BY <1>1, <1>2, <1>4, <1>5, BeginKeeps

\* The two buttons and the clean-up begin with what they read.
LEMMA RequestKeeps ==
  ASSUME RecordInv, NEW t \in Tasks, Request(t)
  PROVE  RecordInv'
<1>1. requests' \in 0 .. MaxRequests
  BY RecordAssumption DEF Request, RecordInv, RecordTypeOK, RecordAssumption
<1>2. CASE t = "external" /\ SyncFromDB
  <2>1. /\ pc["external"] = "idle" /\ Begin("external", "look", db) /\ UNCHANGED <<pos, request>>
    BY <1>2 DEF SyncFromDB
  <2>2. pc'["external"] = "look" /\ dto'["external"] = db
        /\ UNCHANGED <<db, sheet, updateStream, quiet>>
    BY <1>2, <2>1 DEF Begin, Goto, RecordInv, RecordTypeOK
  <2>3. TaskOK("external")'
    BY <2>2 DEF TaskOK, KnowsRow, KnowsSheet, Places, Following
  <2>4. "look" \in Places("external") \ {"idle"} /\ pos' \in 0 .. Len(updateStream)
        /\ request' \in {"owed", "offered", "acked"} /\ db \in Rows /\ db \in Drafts
    BY <2>1, DraftsAre DEF Places, RecordInv, RecordTypeOK
  <2>5. QED BY <1>1, <1>2, <2>1, <2>3, <2>4, BeginKeeps
<1>3. CASE t = "internal" /\ SyncFromSheet
  <2> DEFINE row == [c \in DOMAIN db |-> IF c \in Cells THEN RowRead[c] ELSE FALSE]
  <2>1. /\ pc["internal"] = "idle" /\ Begin("internal", "find", row) /\ UNCHANGED <<pos, request>>
    BY <1>3 DEF SyncFromSheet
  <2>2. row \in Drafts /\ (row.status = None \/ \A c \in Cells : row[c] = sheet[c])
    <3>1. DOMAIN db = {"status", "kept", "salary", "embedding"}
      BY DEF RecordInv, RecordTypeOK, Rows
    <3>2. row = [c \in {"status", "kept", "salary", "embedding"} |->
                   IF c \in Cells THEN RowRead[c] ELSE FALSE]
      BY <3>1
    <3> HIDE DEF row
    <3>3. row = [status |-> RowRead["status"], kept |-> RowRead["kept"],
                 salary |-> RowRead["salary"], embedding |-> FALSE]
      BY <3>2, CellsAre
    <3>4. CASE Incomplete
      <4>1. RowRead["status"] = None /\ RowRead["kept"] = None /\ RowRead["salary"] = None
        BY <3>4, CellsAre DEF RowRead
      <4>2. QED BY <3>3, <4>1 DEF Drafts, Values
    <3>5. CASE ~Incomplete
      <4>1. RowRead["status"] = sheet["status"] /\ RowRead["kept"] = sheet["kept"]
            /\ RowRead["salary"] = sheet["salary"]
        BY <3>5, CellsAre DEF RowRead
      <4>2. row \in Drafts
        BY <3>3, <4>1 DEF Drafts, RecordInv, RecordTypeOK
      <4>3. \A c \in Cells : row[c] = sheet[c]
        BY <3>3, <4>1, CellsAre
      <4>4. QED BY <4>2, <4>3
    <3>6. QED BY <3>4, <3>5
  <2> HIDE DEF row
  <2>3. pc'["internal"] = "find" /\ dto'["internal"] = row
        /\ UNCHANGED <<db, sheet, updateStream, quiet>>
    BY <1>3, <2>1 DEF Begin, Goto, RecordInv, RecordTypeOK
  <2>4. TaskOK("internal")'
    BY <2>2, <2>3 DEF TaskOK, KnowsRow, KnowsSheet, Places, Following
  <2>5. "find" \in Places("internal") \ {"idle"} /\ pos' \in 0 .. Len(updateStream)
        /\ request' \in {"owed", "offered", "acked"}
    BY <2>1 DEF Places, RecordInv, RecordTypeOK
  <2>6. QED BY <1>1, <1>3, <2>1, <2>2, <2>4, <2>5, BeginKeeps
<1>4. CASE t = "cleanup" /\ CleanUpMeetings
  <2> DEFINE row == [db EXCEPT !.status = "pending"]
  <2>1. /\ pc["cleanup"] = "idle" /\ Begin("cleanup", "save", row) /\ UNCHANGED <<pos, request>>
    BY <1>4 DEF CleanUpMeetings
  <2>2. row \in Rows
    BY DEF RecordInv, RecordTypeOK, Rows, Values, RowStatuses
  <2>3. pc'["cleanup"] = "save" /\ dto'["cleanup"] = row
        /\ UNCHANGED <<db, sheet, updateStream, quiet>>
    BY <1>4, <2>1 DEF Begin, Goto, RecordInv, RecordTypeOK
  <2>4. TaskOK("cleanup")'
    BY <2>3 DEF TaskOK, KnowsRow, KnowsSheet, Places, Following
  <2>5. "save" \in Places("cleanup") \ {"idle"} /\ pos' \in 0 .. Len(updateStream)
        /\ request' \in {"owed", "offered", "acked"} /\ row \in Drafts
    BY <2>1, <2>2, DraftsAre DEF Places, RecordInv, RecordTypeOK
  <2> HIDE DEF row
  <2>6. QED BY <1>1, <1>4, <2>1, <2>2, <2>4, <2>5, BeginKeeps
<1>5. QED BY <1>2, <1>3, <1>4 DEF Request

\* The bounds and the bus after a step that concerns neither.
Quietly ==
  /\ UNCHANGED <<updateStream, pos>> /\ acked' \subseteq DOMAIN updateStream
  /\ request' \in {"owed", "offered", "acked"}
  /\ requests' = requests /\ cellEdits' = cellEdits /\ faults' \in 0 .. MaxFaults

\* What a step of task t leaves of the others.
SparesOthers(t) ==
  /\ quiet' \in [Tasks -> BOOLEAN]
  /\ \A u \in Tasks \ {t} : IF pc[u] = "idle" THEN quiet'[u]
                           ELSE quiet'[u] => quiet[u] /\ UNCHANGED <<db, sheet>>

\* Task t steps, and nobody else does.
OwnStep(t) ==
  /\ pc' = [pc EXCEPT ![t] = pc'[t]]
  /\ pc'[t] \in {"idle", "find", "save", "look", "write", "broken", "end"}
  /\ dto' = [dto EXCEPT ![t] = dto'[t]]
  /\ dto'[t] \in Drafts /\ (t # "internal" => dto'[t] \in Rows)
  /\ todo' = [todo EXCEPT ![t] = todo'[t]] /\ todo'[t] \in SUBSET Cells
  /\ blind' = [blind EXCEPT ![t] = blind'[t]] /\ blind'[t] \in BOOLEAN
  /\ db' \in Rows /\ sheet' \in Sheets

\* One step of a task under way.
LEMMA TaskStepKeeps ==
  ASSUME RecordInv, NEW t \in Tasks, pc[t] # "idle", Quietly, SparesOthers(t), OwnStep(t),
         TaskOK(t)'
  PROVE  RecordInv'
<1>1. RecordTypeOK'
  BY DEF RecordInv, RecordTypeOK, Quietly, SparesOthers, Sheets, OwnStep
<1>2. \A u \in Tasks \ {t} : pc'[u] = pc[u] /\ dto'[u] = dto[u] /\ todo'[u] = todo[u]
                          /\ blind'[u] = blind[u]
  BY DEF RecordInv, RecordTypeOK, OwnStep
<1>3. \A u \in Tasks \ {t} : TaskOK(u)'
  BY <1>2, OthersKeep DEF SparesOthers, Quietly
<1>4. "update" \in Tasks /\ pc'["update"] # "idle" => pos' > 0
  BY <1>2 DEF RecordInv, Quietly
<1>5. QED BY <1>1, <1>3, <1>4 DEF RecordInv

\* A step that writes nothing spares the others.
LEMMA Sparing ==
  ASSUME RecordInv, NEW t, UNCHANGED <<db, sheet>>, quiet' \in [Tasks -> BOOLEAN],
         \A u \in Tasks \ {t} : quiet'[u] = quiet[u]
  PROVE  SparesOthers(t)
BY DEF RecordInv, TaskOK, SparesOthers

\* A step that leaves the bus and the bounds alone does so quietly.
LEMMA StillOnBus ==
  ASSUME RecordInv, UNCHANGED <<updateStream, acked, pos, request, requests, cellEdits>>,
         faults' = faults
  PROVE  Quietly
BY DEF RecordInv, RecordTypeOK, Quietly

\* So does a step that fails.
LEMMA TaskFails ==
  ASSUME RecordInv, UNCHANGED <<updateStream, acked, pos, request, requests, cellEdits>>, Fault
  PROVE  Quietly
BY RecordAssumption DEF RecordInv, RecordTypeOK, Quietly, Fault, RecordAssumption

\* FindByRowID reads the row a task lacks.
LEMMA FindKeeps ==
  ASSUME RecordInv, NEW t \in Tasks, FindByRowID(t)
  PROVE  RecordInv'
<1>1. pc[t] = "find" /\ pc[t] # "idle" /\ UNCHANGED <<db, sheet, todo, blind, quiet>> /\ Quietly
  BY StillOnBus DEF FindByRowID, bus, bounds
<1>2. SparesOthers(t)
  BY <1>1, Sparing DEF RecordInv, RecordTypeOK
<1>3. TaskOK(t) /\ todo' = [todo EXCEPT ![t] = todo[t]] /\ todo[t] \in SUBSET Cells
      /\ t \in {"internal", "cleanup"}
  BY <1>1, RecordAssumption DEF RecordInv, RecordTypeOK, TaskOK, Places, RecordAssumption, Kinds
<1>4. /\ db' \in Rows /\ sheet' \in Sheets /\ db \in Rows /\ db \in Drafts
      /\ blind' = [blind EXCEPT ![t] = blind[t]] /\ blind[t] \in BOOLEAN
  BY <1>1, DraftsAre DEF RecordInv, RecordTypeOK, Sheets
<1>5. CASE t = "internal"
  <2> DEFINE row == [dto[t] EXCEPT !.embedding = db.embedding]
  <2>1. pc' = [pc EXCEPT ![t] = "save"] /\ dto' = [dto EXCEPT ![t] = row]
    BY <1>5 DEF FindByRowID, Goto, RecordInv, RecordTypeOK
  <2>2. row \in Drafts /\ \A c \in Cells : row[c] = dto[t][c]
    BY <1>4, CellsAre DEF RecordInv, RecordTypeOK, Rows, Drafts
  <2> HIDE DEF row
  <2>3. pc'[t] = "save" /\ dto'[t] = row => TaskOK(t)'
    BY <1>1, <1>3, <1>5, <2>2, CellsAre DEF TaskOK, KnowsRow, KnowsSheet, Places, Following
  <2>4. OwnStep(t) /\ pc'[t] = "save" /\ dto'[t] = row
    BY <1>1, <1>3, <1>4, <1>5, <2>1, <2>2 DEF OwnStep, RecordInv, RecordTypeOK
  <2>5. QED BY <1>1, <1>2, <2>3, <2>4, TaskStepKeeps
<1>6. CASE t # "internal"
  <2>1. pc' = [pc EXCEPT ![t] = "look"] /\ dto' = [dto EXCEPT ![t] = db]
    BY <1>6 DEF FindByRowID, Goto
  <2>2. pc'[t] = "look" /\ dto'[t] = db => TaskOK(t)'
    BY <1>1, <1>3, <1>6 DEF TaskOK, KnowsRow, KnowsSheet, Places, Following
  <2>3. OwnStep(t) /\ pc'[t] = "look" /\ dto'[t] = db
    BY <1>1, <1>3, <1>4, <2>1 DEF OwnStep, RecordInv, RecordTypeOK
  <2>4. QED BY <1>1, <1>2, <2>2, <2>3, TaskStepKeeps
<1>7. QED BY <1>5, <1>6

\* The cells that differ from the row are the ones to write.
LEMMA LookKeeps ==
  ASSUME RecordInv, NEW t \in Tasks, Look(t)
  PROVE  RecordInv'
<1> DEFINE cells == {c \in Cells : dto[t][c] # RowRead[c]}
<1>1. pc[t] = "look" /\ pc[t] # "idle" /\ UNCHANGED <<db, sheet, dto, quiet>> /\ Quietly
  BY StillOnBus DEF Look, bus, bounds
<1>2. SparesOthers(t)
  BY <1>1, Sparing DEF RecordInv, RecordTypeOK
<1>3. TaskOK(t) /\ dto' = [dto EXCEPT ![t] = dto[t]] /\ db' \in Rows
      /\ sheet' \in Sheets /\ dto[t] \in Drafts /\ (t # "internal" => dto[t] \in Rows)
  BY <1>1 DEF RecordInv, RecordTypeOK, Sheets
<1>4. /\ pc' = [pc EXCEPT ![t] = "write"] /\ todo' = [todo EXCEPT ![t] = cells]
      /\ blind' = [blind EXCEPT ![t] = Incomplete] /\ Incomplete \in BOOLEAN
  BY DEF Look, Goto, Incomplete
<1>5. \A c \in Cells : c \in cells \/ dto[t][c] = sheet[c] \/ (Incomplete /\ dto[t][c] = None)
  BY DEF RowRead
<1> HIDE DEF cells
<1>6. cells \in SUBSET Cells
  BY DEF cells
<1>7. t \in Following /\ "write" \in Places(t)
  BY <1>1, <1>3, RecordAssumption DEF TaskOK, Places, Following, RecordAssumption, Kinds
<1>8. ASSUME pc'[t] = "write", dto'[t] = dto[t], todo'[t] = cells, blind'[t] = Incomplete
      PROVE  TaskOK(t)'
  <2>1. quiet'[t] => KnowsRow(t)'
    BY <1>1, <1>3, <1>8 DEF TaskOK, KnowsRow, Quietly
  <2>2. KnowsSheet(t)'
    BY <1>1, <1>5, <1>8 DEF KnowsSheet
  <2>3. QED BY <1>7, <1>8, <2>1, <2>2 DEF TaskOK, Places
<1>9. /\ OwnStep(t) /\ pc'[t] = "write" /\ dto'[t] = dto[t] /\ todo'[t] = cells
      /\ blind'[t] = Incomplete
  BY <1>1, <1>3, <1>4, <1>6 DEF OwnStep, RecordInv, RecordTypeOK
<1>10. QED BY <1>1, <1>2, <1>8, <1>9, TaskStepKeeps

\* What a save makes of the row.
LEMMA Saved ==
  ASSUME RecordInv, NEW t \in Tasks, Save(t)
  PROVE  /\ db' \in Rows
         /\ dto[t] \in Rows
         /\ db'.status = dto[t].status /\ db'.kept = dto[t].kept /\ db'.embedding = dto[t].embedding
         /\ IF t \in {"update", "internal"} /\ None \notin {dto[t].salary, db.salary}
            THEN db'.salary = dto[t].salary ELSE db'.salary = db.salary
<1>1. dto[t] \in Rows /\ db \in Rows
  <2>1. CASE t = "internal"
    BY <2>1, DraftsAre DEF RecordInv, RecordTypeOK, Save, Update, SaveRow, UpdatePossible
  <2>2. QED BY <2>1 DEF RecordInv, RecordTypeOK
<1>2. CASE Update(t)
  BY <1>1, <1>2 DEF Update, Rows
<1>3. CASE SaveRow(t)
  BY <1>1, <1>3 DEF SaveRow, Rows
<1>4. QED BY <1>1, <1>2, <1>3 DEF Save

\* After its own save a task knows the row, and every other task is disturbed.
LEMMA SaveKeeps ==
  ASSUME RecordInv, NEW t \in Tasks, Save(t)
  PROVE  RecordInv'
<1>1. pc[t] = "save" /\ pc[t] # "idle" /\ UNCHANGED <<sheet, dto, todo, blind>> /\ Quietly
  BY StillOnBus DEF Save, bus, bounds
<1>2. SparesOthers(t) /\ quiet'[t] = quiet[t]
  BY <1>1, Disturbing DEF SparesOthers, Save
<1>3. /\ TaskOK(t) /\ dto' = [dto EXCEPT ![t] = dto[t]] /\ dto[t] \in Rows /\ db' \in Rows
      /\ sheet' \in Sheets /\ dto[t] \in Drafts
      /\ todo' = [todo EXCEPT ![t] = todo[t]] /\ todo[t] \in SUBSET Cells /\ db \in Rows
      /\ sheet \in Sheets
      /\ blind' = [blind EXCEPT ![t] = blind[t]] /\ blind[t] \in BOOLEAN
  BY <1>1, Saved, DraftsAre DEF RecordInv, RecordTypeOK, Sheets
<1>4. pc' = [pc EXCEPT ![t] = AfterSave(t)]
  BY DEF Save, Goto
<1>5. t \in {"update", "embed", "internal", "cleanup"}
  BY DEF Save, Update, SaveRow
<1>6. /\ db'.status = dto[t].status /\ db'.kept = dto[t].kept /\ db'.embedding = dto[t].embedding
      /\ IF t \in {"update", "internal"} /\ None \notin {dto[t].salary, db.salary}
         THEN db'.salary = dto[t].salary ELSE db'.salary = db.salary
  BY Saved
<1>7. \A r, s \in Rows : r.status = s.status /\ r.kept = s.kept /\ r.salary = s.salary /\ r.embedding = s.embedding => r = s
  BY DEF Rows
<1>8. CASE t = "update"
  <2>1. pc' = [pc EXCEPT ![t] = "look"]
    BY <1>4, <1>8 DEF AfterSave
  <2>2. quiet[t] => dto[t] = db' /\ db'.status = updateStream[pos]
    <3>1. quiet[t] => dto[t] = [db EXCEPT !.status = updateStream[pos]]
      BY <1>1, <1>3, <1>8 DEF TaskOK, KnowsRow
    <3>2. quiet[t] => dto[t].salary = db.salary /\ dto[t].status = updateStream[pos]
      BY <1>3, <3>1 DEF Rows
    <3>3. QED BY <1>3, <1>6, <1>7, <3>2
  <2>3. ASSUME pc'[t] = "look", dto'[t] = dto[t] PROVE TaskOK(t)'
    <3>1. updateStream'[pos'] = updateStream[pos] /\ "look" \in Places("update")
      BY <1>1 DEF Quietly, Places
    <3>2. quiet'[t] => KnowsRow(t)'
      BY <1>2, <1>8, <2>2, <2>3, <3>1 DEF KnowsRow
    <3>3. KnowsSheet(t)'
      BY <1>8, <2>3 DEF KnowsSheet
    <3>4. QED BY <1>8, <2>3, <3>1, <3>2, <3>3 DEF TaskOK, Places
  <2>4. OwnStep(t) /\ pc'[t] = "look" /\ dto'[t] = dto[t]
    BY <1>1, <1>3, <2>1 DEF OwnStep, RecordInv, RecordTypeOK
  <2>5. QED BY <1>1, <1>2, <2>3, <2>4, TaskStepKeeps
<1>9. CASE t = "embed"
  <2>1. pc' = [pc EXCEPT ![t] = "end"]
    BY <1>4, <1>9 DEF AfterSave
  <2>2. pc'[t] = "end" => TaskOK(t)'
    BY <1>9 DEF TaskOK, KnowsRow, KnowsSheet, Places, Following
  <2>3. OwnStep(t) /\ pc'[t] = "end"
    BY <1>1, <1>3, <2>1 DEF OwnStep, RecordInv, RecordTypeOK
  <2>4. QED BY <1>1, <1>2, <2>2, <2>3, TaskStepKeeps
<1>10. CASE t = "internal"
  <2>1. pc' = [pc EXCEPT ![t] = "end"]
    BY <1>4, <1>10 DEF AfterSave
  <2>2. quiet[t] => \A c \in Cells : dto[t][c] = sheet[c]
    <3>1. dto[t].status # None
      BY <1>10 DEF Save, Update, SaveRow, UpdatePossible
    <3>2. QED BY <1>1, <1>3, <1>10, <3>1 DEF TaskOK, KnowsSheet
  <2>3. quiet[t] => dto[t].status = sheet.status /\ dto[t].kept = sheet.kept /\ dto[t].salary = sheet.salary
    BY <2>2, CellsAre
  <2>4. pc'[t] = "end" => TaskOK(t)'
    BY <1>1, <1>2, <1>6, <1>10, <2>3 DEF TaskOK, KnowsRow, KnowsSheet, Places, Following
  <2>5. OwnStep(t) /\ pc'[t] = "end"
    BY <1>1, <1>3, <2>1 DEF OwnStep, RecordInv, RecordTypeOK
  <2>6. QED BY <1>1, <1>2, <2>4, <2>5, TaskStepKeeps
<1>11. CASE t = "cleanup"
  <2>1. pc' = [pc EXCEPT ![t] = "find"]
    BY <1>4, <1>11 DEF AfterSave
  <2>2. pc'[t] = "find" => TaskOK(t)'
    BY <1>11 DEF TaskOK, KnowsRow, KnowsSheet, Places, Following
  <2>3. OwnStep(t) /\ pc'[t] = "find"
    BY <1>1, <1>3, <2>1 DEF OwnStep, RecordInv, RecordTypeOK
  <2>4. QED BY <1>1, <1>2, <2>2, <2>3, TaskStepKeeps
<1>12. QED BY <1>5, <1>8, <1>9, <1>10, <1>11

\* A written cell agrees with the row.
LEMMA WriteKeeps ==
  ASSUME RecordInv, NEW t \in Tasks, NEW c \in Cells, Write(t, c)
  PROVE  RecordInv'
<1>1. /\ pc[t] \in {"write", "broken"} /\ pc[t] # "idle" /\ UNCHANGED <<db, pc, dto, blind>> /\ Quietly
      /\ sheet' = [sheet EXCEPT ![c] = dto[t][c]] /\ todo' = [todo EXCEPT ![t] = todo[t] \ {c}]
  BY StillOnBus DEF Write, bus, bounds, RecordInv, RecordTypeOK
<1>2. SparesOthers(t) /\ quiet'[t] = quiet[t]
  BY <1>1, Disturbing DEF SparesOthers, Write
<1>3. /\ TaskOK(t) /\ dto' = [dto EXCEPT ![t] = dto[t]] /\ db' \in Rows
      /\ sheet \in Sheets /\ dto[t] \in Drafts /\ (t # "internal" => dto[t] \in Rows)
      /\ blind' = [blind EXCEPT ![t] = blind[t]] /\ blind[t] \in BOOLEAN
      /\ pc' = [pc EXCEPT ![t] = pc[t]]
      /\ todo[t] \in SUBSET Cells /\ todo[t] \ {c} \in SUBSET Cells
      /\ pc[t] \in {"idle", "find", "save", "look", "write", "broken", "end"}
  BY <1>1 DEF RecordInv, RecordTypeOK, Sheets
<1>4. sheet' \in Sheets
  BY <1>1, <1>3, CellsAre DEF Sheets, Drafts
<1>5. \A d \in Cells : sheet'[d] = IF d = c THEN dto[t][c] ELSE sheet[d]
  BY <1>1, <1>3, CellsAre DEF Sheets
<1>6. pc'[t] = pc[t] /\ dto'[t] = dto[t] /\ todo'[t] = todo[t] \ {c} => TaskOK(t)'
  BY <1>1, <1>2, <1>3, <1>5 DEF TaskOK, KnowsRow, KnowsSheet, Places, Following, Quietly
<1>7. OwnStep(t) /\ pc'[t] = pc[t] /\ dto'[t] = dto[t] /\ todo'[t] = todo[t] \ {c}
  BY <1>1, <1>3, <1>4 DEF OwnStep, RecordInv, RecordTypeOK
<1>8. QED BY <1>1, <1>2, <1>6, <1>7, TaskStepKeeps

\* With no cell left to write the two sides agree.
LEMMA FinishKeeps ==
  ASSUME RecordInv, NEW t \in Tasks, Finish(t)
  PROVE  RecordInv'
<1>1. /\ pc[t] = "write" /\ pc[t] # "idle" /\ UNCHANGED <<db, sheet, dto, todo, blind, quiet>> /\ Quietly
      /\ todo[t] = {} /\ pc' = [pc EXCEPT ![t] = "end"]
  BY StillOnBus DEF Finish, Goto, bus, bounds
<1>2. SparesOthers(t)
  BY <1>1, Sparing DEF RecordInv, RecordTypeOK
<1>3. /\ TaskOK(t) /\ dto' = [dto EXCEPT ![t] = dto[t]] /\ db' \in Rows
      /\ sheet' \in Sheets /\ dto[t] \in Drafts /\ (t # "internal" => dto[t] \in Rows)
      /\ todo' = [todo EXCEPT ![t] = todo[t]] /\ todo[t] \in SUBSET Cells
      /\ blind' = [blind EXCEPT ![t] = blind[t]] /\ blind[t] \in BOOLEAN
  BY <1>1 DEF RecordInv, RecordTypeOK, Sheets
<1>4. quiet[t] => \A c \in Cells : sheet[c] = db[c] \/ (blind[t] /\ db[c] = None)
  BY <1>1, <1>3 DEF TaskOK, KnowsRow, KnowsSheet
<1>5. t \in Following
  BY <1>1, <1>3, RecordAssumption DEF TaskOK, Places, Following, RecordAssumption, Kinds
<1>6. pc'[t] = "end" => TaskOK(t)'
  <2>1. quiet'[t] => FollowsDb(t)'
    BY <1>1, <1>4 DEF FollowsDb
  <2>2. QED BY <1>1, <1>3, <1>5, <2>1
               DEF TaskOK, KnowsRow, KnowsSheet, Places, Following, Quietly
<1>7. OwnStep(t) /\ pc'[t] = "end"
  BY <1>1, <1>3 DEF OwnStep, RecordInv, RecordTypeOK
<1>8. QED BY <1>1, <1>2, <1>6, <1>7, TaskStepKeeps

\* A task that leaves has nothing to promise.
LEMMA LeaveKeeps ==
  ASSUME RecordInv, NEW t \in Tasks, pc[t] # "idle", Leave(t), Quietly, UNCHANGED <<db, sheet>>
  PROVE  RecordInv'
<1>1. /\ pc' = [pc EXCEPT ![t] = "idle"] /\ dto' = [dto EXCEPT ![t] = Blank]
      /\ todo' = [todo EXCEPT ![t] = {}] /\ blind' = [blind EXCEPT ![t] = FALSE]
      /\ quiet' = [quiet EXCEPT ![t] = TRUE]
  BY DEF Leave, Forget, Goto
<1>2. SparesOthers(t) /\ quiet'[t] /\ pc'[t] = "idle"
  BY <1>1, Sparing DEF RecordInv, RecordTypeOK
<1>3. Blank \in Rows /\ Blank \in Drafts /\ db' \in Rows /\ sheet' \in Sheets
  BY DraftsAre DEF RecordInv, RecordTypeOK, Sheets, Blank, Rows, Values, RowStatuses
<1>4. TaskOK(t)'
  BY <1>2, IdleIsOK
<1>5. OwnStep(t)
  BY <1>1, <1>3 DEF OwnStep, RecordInv, RecordTypeOK
<1>6. QED BY <1>2, <1>4, <1>5, TaskStepKeeps

\* A handler that returns leaves.
LEMMA ReturnKeeps ==
  ASSUME RecordInv, NEW t \in Tasks, Return(t)
  PROVE  RecordInv'
<1>1. /\ pc[t] = "end" /\ Leave(t)
      /\ UNCHANGED <<db, sheet, updateStream, pos, requests, cellEdits, faults>>
      /\ acked' = IF t = "update" THEN acked \cup {pos} ELSE acked
      /\ request' = IF t = "embed" THEN "acked" ELSE request
  BY DEF Return, bounds
<1>2. acked' \subseteq DOMAIN updateStream
  BY <1>1 DEF RecordInv, RecordTypeOK
<1>3. Quietly
  BY <1>1, <1>2 DEF RecordInv, RecordTypeOK, Quietly
<1>4. QED BY <1>1, <1>3, LeaveKeeps

\* A handler that fails before it has written anything leaves.
LEMMA FailureKeeps ==
  ASSUME RecordInv, NEW t \in Tasks, SaveRefused(t) \/ CallFails(t) \/ GiveUp(t)
  PROVE  RecordInv'
<1>1. pc[t] # "idle" /\ Leave(t) /\ UNCHANGED <<db, sheet>>
  BY DEF SaveRefused, CallFails, GiveUp
<1>2. Quietly
  BY StillOnBus, TaskFails DEF SaveRefused, CallFails, GiveUp, bus, bounds
<1>3. QED BY <1>1, <1>2, LeaveKeeps

\* A task whose write failed will not end.
LEMMA WriteFailsKeeps ==
  ASSUME RecordInv, NEW t \in Tasks, WriteFails(t)
  PROVE  RecordInv'
<1>1. /\ pc[t] = "write" /\ pc[t] # "idle" /\ UNCHANGED <<db, sheet, dto, todo, blind, quiet>> /\ Quietly
      /\ pc' = [pc EXCEPT ![t] = "broken"]
  BY TaskFails DEF WriteFails, Goto, bus
<1>2. SparesOthers(t)
  BY <1>1, Sparing DEF RecordInv, RecordTypeOK
<1>3. /\ TaskOK(t) /\ dto' = [dto EXCEPT ![t] = dto[t]] /\ db' \in Rows
      /\ sheet' \in Sheets /\ dto[t] \in Drafts /\ (t # "internal" => dto[t] \in Rows)
      /\ todo' = [todo EXCEPT ![t] = todo[t]] /\ todo[t] \in SUBSET Cells
      /\ blind' = [blind EXCEPT ![t] = blind[t]] /\ blind[t] \in BOOLEAN
  BY <1>1 DEF RecordInv, RecordTypeOK, Sheets
<1>4. "broken" \in Places(t)
  BY <1>1, <1>3, RecordAssumption DEF TaskOK, Places, RecordAssumption, Kinds
<1>5. pc'[t] = "broken" => TaskOK(t)'
  BY <1>4 DEF TaskOK, KnowsRow, KnowsSheet, Places
<1>6. OwnStep(t) /\ pc'[t] = "broken"
  BY <1>1, <1>3 DEF OwnStep, RecordInv, RecordTypeOK
<1>7. QED BY <1>1, <1>2, <1>5, <1>6, TaskStepKeeps

\* After a restart every task is idle.
LEMMA RestartKeeps ==
  ASSUME RecordInv, Restart, db' \in Rows, sheet' \in Sheets,
         requests' = requests, cellEdits' = cellEdits, faults' \in 0 .. MaxFaults
  PROVE  RecordInv'
<1>1. Blank \in Rows
  BY DEF Blank, Rows, Values, RowStatuses
<1>2. RecordTypeOK'
  BY <1>1, DraftsAre DEF Restart, RecordInv, RecordTypeOK, Sheets
<1>3. \A t \in Tasks : pc'[t] = "idle" /\ quiet'[t]
  BY DEF Restart
<1>4. \A t \in Tasks : TaskOK(t)'
  BY <1>3, IdleIsOK
<1>5. QED BY <1>2, <1>3, <1>4 DEF RecordInv

\* The salary of the sheet is cleared, and the goroutine or the process ends.
LEMMA ClearSalaryKeeps ==
  ASSUME RecordInv, NEW t \in Tasks, ClearSalary(t)
  PROVE  RecordInv'
<1>1. /\ pc[t] = "write" /\ pc[t] # "idle" /\ sheet' = [sheet EXCEPT !.salary = None] /\ db' = db
      /\ requests' = requests /\ cellEdits' = cellEdits /\ faults' = faults /\ Panic(t)
  BY DEF ClearSalary, bounds
<1>2. db' \in Rows /\ sheet' \in Sheets /\ faults' \in 0 .. MaxFaults
  BY <1>1 DEF RecordInv, RecordTypeOK, Sheets, Values
<1>3. CASE Restart
  BY <1>1, <1>2, <1>3, RestartKeeps
<1>4. CASE Forget(t) /\ quiet' = [Undisturbed(t) EXCEPT ![t] = TRUE] /\ UNCHANGED bus
  <2>1. /\ pc' = [pc EXCEPT ![t] = "idle"] /\ dto' = [dto EXCEPT ![t] = Blank]
        /\ todo' = [todo EXCEPT ![t] = {}] /\ blind' = [blind EXCEPT ![t] = FALSE]
    BY <1>4 DEF Forget, Goto
  <2>2. Blank \in Rows /\ Blank \in Drafts
    BY DraftsAre DEF Blank, Rows, Values, RowStatuses
  <2>3. quiet'[t] /\ SparesOthers(t)
    BY <1>4 DEF Undisturbed, SparesOthers, RecordInv, RecordTypeOK
  <2>4. Quietly
    BY <1>1, <1>4, StillOnBus DEF bus
  <2>5. pc'[t] = "idle"
    BY <2>1 DEF RecordInv, RecordTypeOK
  <2>6. TaskOK(t)'
    BY <2>3, <2>5, IdleIsOK
  <2>7. OwnStep(t)
    BY <1>2, <2>1, <2>2 DEF OwnStep, RecordInv, RecordTypeOK
  <2>8. QED BY <1>1, <2>3, <2>4, <2>6, <2>7, TaskStepKeeps
<1>5. QED BY <1>1, <1>3, <1>4 DEF Panic

\* A crash is a restart.
LEMMA CrashKeeps == ASSUME RecordInv, Crash PROVE RecordInv'
<1>1. faults' \in 0 .. MaxFaults
  BY RecordAssumption DEF Crash, Fault, RecordAssumption, RecordInv, RecordTypeOK
<1>2. db' \in Rows /\ sheet' \in Sheets
  BY DEF Crash, RecordInv, RecordTypeOK, Sheets
<1>3. QED BY <1>1, <1>2, RestartKeeps DEF Crash

\* Every step keeps the invariant.
LEMMA RecordNextInv == RecordInv /\ [RecordNext]_recordVars => RecordInv'
<1> SUFFICES ASSUME RecordInv, [RecordNext]_recordVars PROVE RecordInv'
  OBVIOUS
<1>1. CASE World
  <2>1. ASSUME NEW status \in Confirmed, PublishUpdate(status) PROVE RecordInv'
    BY <2>1, PublishKeeps
  <2>2. ASSUME NEW c \in Cells, NEW value \in Typed[c], EditCell(c, value) PROVE RecordInv'
    BY <2>2, EditKeeps
  <2>3. CASE Crash
    BY <2>3, CrashKeeps
  <2>4. QED BY <1>1, <2>1, <2>2, <2>3 DEF World
<1>2. ASSUME NEW t \in Tasks, Receive(t) PROVE RecordInv'
  BY <1>2, ReceiveUpdateKeeps, ReceiveEmbeddingKeeps DEF Receive
<1>3. ASSUME NEW t \in Tasks, Continue(t) PROVE RecordInv'
  BY <1>3, FindKeeps, SaveKeeps, FailureKeeps, LookKeeps, WriteKeeps, ClearSalaryKeeps,
     FinishKeeps, ReturnKeeps
  DEF Continue
<1>4. ASSUME NEW t \in Tasks, Request(t) \/ CallFails(t) \/ WriteFails(t) PROVE RecordInv'
  BY <1>4, RequestKeeps, FailureKeeps, WriteFailsKeeps
<1>5. CASE UNCHANGED recordVars
  BY <1>5
     DEF recordVars, bus, bounds, RecordInv, RecordTypeOK, TaskOK, KnowsRow, KnowsSheet,
         FollowsDb, Places
<1>6. QED BY <1>1, <1>2, <1>3, <1>4, <1>5 DEF RecordNext

\* The inductive invariant holds in every reachable state.
THEOREM RecordInvariance == RecordSpec => []RecordInv
BY RecordInitInv, RecordNextInv, PTL DEF RecordSpec

\* The variables keep their types.
THEOREM RecordTypeCorrect == RecordSpec => []RecordTypeOK
<1>1. RecordInv => RecordTypeOK
  BY DEF RecordInv
<1>2. QED BY <1>1, RecordInvariance, PTL

\* A task that ends undisturbed leaves the two sides in step (UpdateAndSync,
\* SyncFromDB, SyncFromSheet, CleanUpMeetingsInBatches).
THEOREM InStepAtTheEnd == RecordSpec => []SyncsWhenAlone
<1>1. RecordInv => SyncsWhenAlone
  BY DEF RecordInv, TaskOK, KnowsRow, KnowsSheet, Following, SyncsWhenAlone
<1>2. QED BY <1>1, RecordInvariance, PTL

\* No step loses an embedding but the save of a clean-up that was disturbed.
THEOREM EmbeddingSurvives == RecordSpec => EmbeddingKept
<1> DEFINE CleansUp == "cleanup" \in Tasks /\ Save("cleanup") /\ ~quiet["cleanup"]
<1>1. ASSUME RecordInv, [RecordNext]_recordVars, db.embedding PROVE db'.embedding \/ CleansUp
  <2>1. CASE db' = db
    BY <1>1, <2>1
  <2>2. ASSUME NEW t \in Tasks, Save(t) PROVE db'.embedding \/ CleansUp
    <3>1. db'.embedding = dto[t].embedding /\ pc[t] = "save" /\ TaskOK(t)
      BY <1>1, <2>2, Saved DEF Save, RecordInv
    <3>2. t \in {"update", "internal"} => dto[t].embedding
      BY <2>2 DEF Save, Update, SaveRow, UpdatePossible
    <3>3. t = "embed" => dto[t].embedding
      BY <3>1 DEF TaskOK
    <3>4. t = "cleanup" /\ quiet[t] => dto[t].embedding
      <4>1. t = "cleanup" /\ quiet[t] => dto[t] = [db EXCEPT !.status = "pending"]
        BY <3>1 DEF TaskOK, KnowsRow
      <4>2. QED BY <1>1, <4>1 DEF RecordInv, RecordTypeOK, Rows
    <3>5. t \in {"update", "internal", "embed", "cleanup"}
      BY <2>2 DEF Save, Update, SaveRow
    <3>6. QED BY <2>2, <3>1, <3>2, <3>3, <3>4, <3>5
  <2>3. db' = db \/ \E t \in Tasks : Save(t)
    <3>1. World => db' = db
      BY DEF World, PublishUpdate, EditCell, Crash
    <3>2. \A t \in Tasks : Receive(t) \/ Request(t) => db' = db
      BY DEF Receive, ReceiveUpdate, ReceiveEmbedding, Request, SyncFromDB, SyncFromSheet,
             CleanUpMeetings, Begin
    <3>3. \A t \in Tasks : CallFails(t) \/ WriteFails(t) => db' = db
      BY DEF CallFails, WriteFails
    <3>4. \A t \in Tasks : Continue(t) => db' = db \/ Save(t)
      BY DEF Continue, FindByRowID, SaveRefused, Look, Write, ClearSalary, Finish, Return,
             GiveUp
    <3>5. UNCHANGED recordVars => db' = db
      BY DEF recordVars
    <3>6. QED BY <1>1, <3>1, <3>2, <3>3, <3>4, <3>5 DEF RecordNext
  <2>4. QED BY <2>1, <2>2, <2>3
<1>2. RecordInv /\ [RecordNext]_recordVars => [db.embedding => db'.embedding \/ CleansUp]_recordVars
  BY <1>1
<1>3. QED BY <1>2, RecordInvariance, PTL DEF RecordSpec, EmbeddingKept
===============================================================================
