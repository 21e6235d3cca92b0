---------------------------- MODULE MailDecisions ----------------------------
(***************************************************************************)
(* What the user decides about mails mapped to one application, and what   *)
(* becomes of the decision.  mail-processor publishes a mail with the      *)
(* application as it is then (modules MailMapping, MailSubmission);        *)
(* hire-event-processor and hire-event-notifier pass it on, telegram-bot   *)
(* keeps it in Redis under the mail's id and shows it with buttons, each   *)
(* press of which runs in a goroutine.  A confirmation goes back through   *)
(* hire-event-processor, which works the mail into the application it      *)
(* carries, and google-sheets-accessor stores that application whole       *)
(* (module ApplicationRecord).                                             *)
(*                                                                         *)
(* The bot's edits of messages show only as steps that may fail: a press   *)
(* may come from a client that still shows buttons just removed.  Columns  *)
(* that travel as status and stage do are left out.                        *)
(***************************************************************************)
EXTENDS Integers, Sequences, FiniteSets, SequencesExt, TLC

CONSTANTS Mails,
          Presses,                                         \* goroutines
          MaxMappings, MaxEdits, MaxFailures, MaxPresses   \* bounds

Labels == {"meeting_crt", "meeting_inv", "denied"}
Statuses == {"applied", "meeting", "offer", "denied"}   \* "pending" fares as "applied" does

VARIABLES
  label,      \* of each mail
  app,        \* the application: status, stage, and the mail that set its follow-up
  mapped,     \* interesting-mail: a mail with the application mapped to it
  cache,      \* notification:<mail> in Redis: an index of mapped
  shown,      \* mails whose message has been sent
  menus,      \* mails whose menu of reasons has been sent
  reasons,    \* skipreason:<mail> in Redis
  press,      \* the presses being served
  rejected,   \* mails in the feedback stream
  confirmed,  \* application-update-unprocessed: indices of mapped
  updates,    \* application-update-processed: the applications to store
  edits, failures, pressed,
  cutOff,     \* history: mails about which a step after the first effect failed
  repeated,   \* history: mails with overlapping presses or a message shown again
  resent,     \* history: mails whose confirmation the Redis client has sent again
  expired     \* history: mails whose payload has outlived its time

redis == <<cache, reasons>>
streams == <<mapped, confirmed, updates>>
chat == <<shown, menus>>
history == <<cutOff, repeated, resent, expired>>
vars == <<label, app, streams, redis, chat, press, rejected, edits, failures, pressed, history>>

Absent == -1   \* no such key
Empty == 0     \* the empty string
Idle == [pc |-> "idle"]

Init ==
  /\ label \in [Mails -> Labels]
  /\ app = [status |-> "applied", stage |-> 0, followUp |-> {}]
  /\ mapped = <<>> /\ confirmed = <<>> /\ updates = <<>>
  /\ cache = [m \in Mails |-> Absent] /\ reasons = {} /\ shown = {} /\ menus = {}
  /\ press = [p \in Presses |-> Idle] /\ rejected = {}
  /\ edits = 0 /\ failures = 0 /\ pressed = 0
  /\ cutOff = {} /\ repeated = {} /\ resent = {} /\ expired = {}

Failure == failures < MaxFailures /\ failures' = failures + 1

\* The entries a consumer may handle: the next new one, or one whose handling
\* failed and that a restart replays (module GoConsumer).
Deliverable(stream) ==
  {i \in DOMAIN stream : \/ stream[i].state = "left"
                         \/ stream[i].state = "new" /\ \A j \in 1..(i - 1) : stream[j].state # "new"}

\* handled and acknowledged, or handled and left to be handled again
Handled(stream, i) == [stream EXCEPT ![i].state = "done"]
Left(stream, i) == [stream EXCEPT ![i].state = "left"]

-----------------------------------------------------------------------------
(* The application *)

\* the applications mail-mapper assigns to mails of a label
Wanted(l) ==
  CASE l = "denied"      -> Statuses \ {"denied"}
    [] l = "meeting_inv" -> Statuses \ {"meeting", "denied", "offer"}
    [] OTHER             -> {"meeting", "applied"}

\* A mail is mapped and published with the application as it is.  A mail whose
\* mark as sent fails is mapped anew (module MailSubmission).
Map(m) ==
  /\ Len(mapped) < MaxMappings /\ app.status \in Wanted(label[m])
  /\ mapped' = Append(mapped, [mail |-> m, app |-> app, state |-> "new", stale |-> FALSE])
  /\ UNCHANGED <<label, app, confirmed, updates, redis, chat, press, rejected, edits, failures, pressed, history>>

\* History: mappings other than k carry an application that has changed since.
Outdate(k) ==
  mapped' = [i \in DOMAIN mapped |-> [mapped[i] EXCEPT !.stale = @ \/ i # k]]

\* The user notes an offer in the sheet and has it applied; no mail sets one.
Edit ==
  /\ edits < MaxEdits /\ edits' = edits + 1
  /\ app.status # "offer" /\ app' = [app EXCEPT !.status = "offer"]
  /\ Outdate(0)
  /\ UNCHANGED <<label, confirmed, updates, redis, chat, press, rejected, failures, pressed, history>>

MeetingStatus(status) == IF status \in {"meeting", "offer", "denied"} THEN status ELSE "meeting"

\* Slip: the follow-up is taken from every mail that has one.
TransformAnew(m, a) ==
  CASE label[m] = "denied"      -> [a EXCEPT !.status = "denied"]
    [] label[m] = "meeting_inv" -> [a EXCEPT !.status = MeetingStatus(@)]
    [] label[m] = "meeting_crt" -> [status |-> MeetingStatus(a.status), stage |-> a.stage + 1,
                                    followUp |-> {m}]

Transform(m, a) ==
  CASE label[m] = "denied"      -> [a EXCEPT !.status = "denied"]
    [] label[m] = "meeting_inv" -> [a EXCEPT !.status = MeetingStatus(@)]
    [] label[m] = "meeting_crt" -> [status |-> MeetingStatus(a.status), stage |-> a.stage + 1,
                                    followUp |-> IF a.followUp = {} THEN {m} ELSE a.followUp]

\* hire-event-processor: transform and publish.  What fails, before or after the
\* effect, is left.
HandleConfirmed(i) ==
  /\ i \in Deliverable(confirmed)
  /\ LET k == confirmed[i].mapping
         transformed == Append(updates, [mapping |-> k, state |-> "new",
                                         app |-> Transform(mapped[k].mail, mapped[k].app)])
     IN  \/ updates' = transformed /\ confirmed' = Handled(confirmed, i) /\ UNCHANGED failures
         \/ Failure /\ updates' \in {updates, transformed} /\ confirmed' = Left(confirmed, i)
  /\ UNCHANGED <<label, app, mapped, redis, chat, press, rejected, edits, pressed, history>>

\* Slip: the stage is raised where it is stored.
StoreRaising(i) ==
  /\ i \in Deliverable(updates)
  /\ \/ updates' = Handled(updates, i) /\ UNCHANGED failures
     \/ Failure /\ updates' = Left(updates, i)
  /\ app' = [updates[i].app EXCEPT !.stage = IF @ > 0 THEN app.stage + 1 ELSE @]
  /\ Outdate(updates[i].mapping)
  /\ UNCHANGED <<label, confirmed, redis, chat, press, rejected, edits, pressed, history>>

\* google-sheets-accessor: the row takes the update's values, whatever it holds.
Store(i) ==
  /\ i \in Deliverable(updates)
  /\ \/ updates' = Handled(updates, i) /\ UNCHANGED failures
     \/ Failure /\ updates' = Left(updates, i)
  /\ app' = updates[i].app
  /\ Outdate(updates[i].mapping)
  /\ UNCHANGED <<label, confirmed, redis, chat, press, rejected, edits, pressed, history>>

StoreFails(i) ==
  /\ i \in Deliverable(updates)
  /\ Failure /\ updates' = Left(updates, i)
  /\ UNCHANGED <<label, app, mapped, confirmed, redis, chat, press, rejected, edits, pressed, history>>

-----------------------------------------------------------------------------
(* The bot *)

\* Keep the payload, then send the message.  An entry that is left, here or by
\* one of the relays before, is handled again.
Notify(k) ==
  /\ k \in Deliverable(mapped)
  /\ LET m == mapped[k].mail IN
     /\ cache' = [cache EXCEPT ![m] = k]
     /\ \/ shown' = shown \cup {m} /\ mapped' = Handled(mapped, k) /\ UNCHANGED failures
        \/ Failure /\ shown' \in {shown, shown \cup {m}} /\ mapped' = Left(mapped, k)
     /\ repeated' = IF mapped[k].state = "left" THEN repeated \cup {m} ELSE repeated
  /\ UNCHANGED <<label, app, confirmed, updates, reasons, menus, press, rejected, edits, pressed, cutOff, resent, expired>>

Expire(m) ==
  /\ cache[m] # Absent /\ Failure
  /\ cache' = [cache EXCEPT ![m] = Absent]
  /\ expired' = expired \cup {m}
  /\ UNCHANGED <<label, app, streams, reasons, chat, press, rejected, edits, pressed, cutOff, repeated, resent>>

Busy(m) == \E p \in Presses : press[p] # Idle /\ press[p].mail = m

Press(p, m, button) ==
  /\ press[p] = Idle /\ pressed < MaxPresses /\ pressed' = pressed + 1
  /\ m \in IF button = "reason" THEN menus ELSE shown
  /\ press' = [press EXCEPT ![p] = [pc |-> button, mail |-> m, payload |-> Absent]]
  /\ repeated' = IF Busy(m) THEN repeated \cup {m} ELSE repeated
  /\ UNCHANGED <<label, app, streams, redis, chat, rejected, edits, failures, cutOff, resent, expired>>

At(p, pc) == press[p].pc = pc
GoTo(p, pc) == press' = [press EXCEPT ![p].pc = pc]
Done(p) == press' = [press EXCEPT ![p] = Idle]

\* An error before the press has had an effect: the user is told, no more.
Fails(p) ==
  /\ press[p].pc \in {"confirm", "publish", "details", "write", "skip", "menu", "reason"}
  /\ Failure /\ Done(p)
  /\ UNCHANGED <<label, app, streams, redis, chat, rejected, edits, pressed, history>>

\* An error after it: the rest is not made up for.
CutOff(p) ==
  /\ press[p].pc \in {"delete", "payload", "reject"}
  /\ Failure /\ Done(p)
  /\ cutOff' = cutOff \cup {press[p].mail}
  /\ UNCHANGED <<label, app, streams, redis, chat, rejected, edits, pressed, repeated, resent, expired>>

\* Confirm: a missing payload is answered like any other, and then is no JSON.
ReadConfirm(p) ==
  /\ At(p, "confirm")
  /\ LET k == cache[press[p].mail]
     IN  IF k \in {Absent, Empty} THEN Done(p)
         ELSE press' = [press EXCEPT ![p].pc = "publish", ![p].payload = k]
  /\ UNCHANGED <<label, app, streams, redis, chat, rejected, edits, failures, pressed, history>>

\* The publication may succeed and its answer be lost: the Redis client sends it
\* again, which adds another entry, or gives up.
Publish(p) ==
  /\ At(p, "publish")
  /\ confirmed' = Append(confirmed, [mapping |-> press[p].payload, state |-> "new"])
  /\ \/ GoTo(p, "delete") /\ UNCHANGED <<failures, cutOff, resent>>
     \/ Failure /\ resent' = resent \cup {press[p].mail} /\ UNCHANGED <<press, cutOff>>
     \/ Failure /\ Done(p) /\ cutOff' = cutOff \cup {press[p].mail} /\ UNCHANGED resent
  /\ UNCHANGED <<label, app, mapped, updates, redis, chat, rejected, edits, pressed, repeated, expired>>

\* Slip: the payload is kept until it expires.
DeleteNothing(p) ==
  /\ At(p, "delete") /\ Done(p)
  /\ UNCHANGED <<label, app, streams, redis, chat, rejected, edits, failures, pressed, history>>

Delete(p) ==
  /\ At(p, "delete")
  /\ cache' = [cache EXCEPT ![press[p].mail] = Absent] /\ Done(p)
  /\ UNCHANGED <<label, app, streams, reasons, chat, rejected, edits, failures, pressed, history>>

\* Details: what was read is written back with a new lifetime, the empty string
\* when there was nothing.
ReadDetails(p) ==
  /\ At(p, "details")
  /\ LET value == cache[press[p].mail]
     IN  press' = [press EXCEPT ![p].pc = "write", ![p].payload = IF value = Absent THEN Empty ELSE value]
  /\ UNCHANGED <<label, app, streams, redis, chat, rejected, edits, failures, pressed, history>>

WriteDetails(p) ==
  /\ At(p, "write")
  /\ cache' = [cache EXCEPT ![press[p].mail] = press[p].payload] /\ Done(p)
  /\ UNCHANGED <<label, app, streams, reasons, chat, rejected, edits, failures, pressed, history>>

\* Skip: silent once a reason has been chosen, or else a menu.
Skip(p) ==
  /\ At(p, "skip")
  /\ IF press[p].mail \in reasons THEN Done(p) ELSE GoTo(p, "menu")
  /\ UNCHANGED <<label, app, streams, redis, chat, rejected, edits, failures, pressed, history>>

\* Slip: the payload is deleted, as the skip button of a difference does.
SendMenuDeleting(p) ==
  /\ At(p, "menu")
  /\ menus' = menus \cup {press[p].mail} /\ Done(p)
  /\ cache' = [cache EXCEPT ![press[p].mail] = Absent]
  /\ UNCHANGED <<label, app, streams, reasons, shown, rejected, edits, failures, pressed, history>>

SendMenu(p) ==
  /\ At(p, "menu")
  /\ menus' = menus \cup {press[p].mail} /\ Done(p)
  /\ UNCHANGED <<label, app, streams, redis, shown, rejected, edits, failures, pressed, history>>

\* A reason is remembered first; then the messages are edited, which may fail,
\* the payload is read and the feedback published.  "Back" only edits the menu.
Choose(p) ==
  /\ At(p, "reason")
  /\ reasons' = reasons \cup {press[p].mail} /\ GoTo(p, "payload")
  /\ UNCHANGED <<label, app, streams, cache, chat, rejected, edits, failures, pressed, history>>

ReadPayload(p) ==
  /\ At(p, "payload")
  /\ IF cache[press[p].mail] \in {Absent, Empty} THEN Done(p) ELSE GoTo(p, "reject")
  /\ UNCHANGED <<label, app, streams, redis, chat, rejected, edits, failures, pressed, history>>

Reject(p) ==
  /\ At(p, "reject")
  /\ rejected' = rejected \cup {press[p].mail} /\ Done(p)
  /\ UNCHANGED <<label, app, streams, redis, chat, edits, failures, pressed, history>>

Next ==
  \/ Edit \/ \E m \in Mails : Map(m) \/ Expire(m)
  \/ \E i \in DOMAIN mapped : Notify(i)
  \/ \E i \in DOMAIN confirmed : HandleConfirmed(i)
  \/ \E i \in DOMAIN updates : Store(i) \/ StoreFails(i)
  \/ \E p \in Presses :
       \/ \E m \in Mails, button \in {"confirm", "details", "skip", "reason"} : Press(p, m, button)
       \/ Fails(p) \/ CutOff(p)
       \/ ReadConfirm(p) \/ Publish(p) \/ Delete(p)
       \/ ReadDetails(p) \/ WriteDetails(p)
       \/ Skip(p) \/ SendMenu(p)
       \/ Choose(p) \/ ReadPayload(p) \/ Reject(p)

Spec == Init /\ [][Next]_vars

-----------------------------------------------------------------------------
(* Properties *)

ConfirmationsOf(k) == {i \in DOMAIN confirmed : confirmed[i].mapping = k}

\* A mapping is confirmed once; more often only if presses on its mail have
\* overlapped, its message was handled again, the Redis client sent the
\* confirmation again, or it was cut off between publication and deletion.
\* (handleMappingConfirmation, handleMappingDetails, Client.Publish)
ConfirmedOnce ==
  \A k \in DOMAIN mapped :
    Cardinality(ConfirmationsOf(k)) > 1 => mapped[k].mail \in repeated \cup resent \cup cutOff

\* A mail that creates a meeting raises the stage once for each time it was
\* mapped, however often its confirmation is published, transformed and stored.
\* (updateStageIfNeeded, ApplicationUpdateProcessedHandler.Handle)
RaisedOncePerMapping ==
  app.stage <= Cardinality({k \in DOMAIN mapped : /\ label[mapped[k].mail] = "meeting_crt"
                                                  /\ ConfirmationsOf(k) # {}})

\* A reason the user has chosen reaches mail-mapper, unless the mail was confirmed
\* as well, its payload had expired, or a call failed on the way: the Skip
\* button is silent from then on.  (handleSkipReason)
RejectionLostOnlyIf ==
  \A m \in reasons :
    \/ \E p \in Presses : press[p] # Idle /\ press[p].mail = m
    \/ m \in rejected \cup cutOff \cup expired
    \/ \E k \in DOMAIN mapped : mapped[k].mail = m /\ ConfirmationsOf(k) # {}

SetBack ==
  \/ app'.stage < app.stage
  \/ app.status \in {"offer", "denied"} /\ app'.status \in {"applied", "meeting"}
  \/ app.followUp # {} /\ app'.followUp # app.followUp

\* Storing a confirmation takes nothing back (the stage, an offer or a denial, a
\* follow-up), unless something else was stored since its mail was mapped.
\* (ApplicationUpdateTransformer.Transform, _resolve_application_filters)
SetBackOnlyIfStale ==
  [][SetBack /\ edits' = edits =>
       \E i \in DOMAIN updates : Store(i) /\ mapped[updates[i].mapping].stale]_vars

Symmetry == Permutations(Mails) \cup Permutations(Presses)
=============================================================================
