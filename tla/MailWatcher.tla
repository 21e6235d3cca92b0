----------------------------- MODULE MailWatcher -----------------------------
(***************************************************************************)
(* mail-tracker's GmailImapIdleWatcher: one thread that waits in IMAP IDLE,*)
(* searches for uids above the cursor stored in Redis (email:last_uid)     *)
(* whenever the server says something, publishes each mail to new-mail and *)
(* moves the cursor to the greatest uid it has processed.                  *)
(*                                                                         *)
(* The mailbox belongs to Gmail; uids grow and are never reused.  What the *)
(* server has to say is kept as one flag, "notice": while the client is in *)
(* IDLE it wakes the watcher, any other command swallows it.               *)
(***************************************************************************)
EXTENDS Naturals, Sequences, FiniteSets, Functions

CONSTANTS MaxUid,   \* bound of the model: mails that arrive
          SeenCap,  \* _seen_cap
          MaxFaults \* bound of the model: faults that happen

ASSUME WatcherAssumption ==
  /\ MaxUid \in Nat \ {0}
  /\ SeenCap \in Nat \ {0}
  /\ MaxFaults \in Nat

VARIABLES mailbox,   \* uids in the folder
          uidnext,   \* the uid the next mail gets
          notice,    \* the server has an untagged response for the client
          pc,        \* where the watcher thread is
          cursor,    \* email:last_uid in Redis
          seen,      \* _seen_uids, oldest first
          todo,      \* uids of the current search not yet looked at
          processed, \* processed_uids
          base,      \* history: the greatest uid at the first initialisation
          installed, \* history: that initialisation has happened
          passedOver,\* history: uids a later initialisation passed over
          published, \* history: uids published to new-mail
          twice,     \* history: uids published more than once
          failed,    \* history: uids on_message has failed for
          cut,       \* history: uids whose processing was cut off unrecorded
          faults     \* faults so far

mailVars == <<mailbox, uidnext>>
batchVars == <<todo, processed>>
history == <<base, installed, passedOver, published, twice, failed, cut>>
passed == <<base, installed, passedOver>>
vars == <<mailVars, notice, pc, cursor, seen, batchVars, history, faults>>

Uids == 1 .. MaxUid
Locations == {"down", "disconnected", "connected", "idle", "search", "fetch", "mail", "save"}
Online == {"connected", "idle", "search", "fetch", "mail", "save"}

\* The mailbox may hold older mail when the service is first installed.
Init ==
  /\ uidnext \in 1 .. 2
  /\ mailbox \in SUBSET (1 .. uidnext - 1)
  /\ notice = FALSE
  /\ pc = "down"
  /\ cursor = 0
  /\ seen = <<>>
  /\ todo = {}
  /\ processed = {}
  /\ base = 0
  /\ installed = FALSE
  /\ passedOver = {}
  /\ published = {}
  /\ twice = {}
  /\ failed = {}
  /\ cut = {}
  /\ faults = 0

Fault == faults < MaxFaults /\ faults' = faults + 1

(***************************************************************************)
(* The mail server                                                         *)
(***************************************************************************)
Arrive ==
  /\ uidnext <= MaxUid
  /\ mailbox' = mailbox \cup {uidnext}
  /\ uidnext' = uidnext + 1
  /\ notice' = (pc \in Online)
  /\ UNCHANGED <<pc, cursor, seen, batchVars, history, faults>>

Expunge(uid) ==
  /\ uid \in mailbox
  /\ mailbox' = mailbox \ {uid}
  /\ notice' = (pc \in Online)
  /\ UNCHANGED <<uidnext, pc, cursor, seen, batchVars, history, faults>>

\* "* OK Still here" and the like.
KeepAlive ==
  /\ pc = "idle"
  /\ ~notice
  /\ notice' = TRUE
  /\ UNCHANGED <<mailVars, pc, cursor, seen, batchVars, history, faults>>

\* A command other than IDLE may carry the untagged responses away with it.
Command == notice' \in {notice, FALSE}

(***************************************************************************)
(* _run_loop                                                               *)
(***************************************************************************)
StartProcess ==
  /\ pc = "down"
  /\ pc' = "disconnected"
  /\ seen' = <<>>
  /\ todo' = {}
  /\ processed' = {}
  /\ UNCHANGED <<mailVars, notice, cursor, history, faults>>

Connect ==
  /\ pc = "disconnected"
  /\ pc' = "connected"
  /\ notice' = FALSE
  /\ UNCHANGED <<mailVars, cursor, seen, batchVars, history, faults>>

\* _init_last_uid: only a cursor that is 0 is set, to UIDNEXT - 1.  It is 0
\* before the first start, and stays 0 while the folder has held no mail.
InitLastUid ==
  /\ pc = "connected"
  /\ cursor' = IF cursor = 0 THEN uidnext - 1 ELSE cursor
  /\ base' = IF installed THEN base ELSE uidnext - 1
  /\ installed' = TRUE
  /\ passedOver' = IF installed /\ cursor = 0 THEN mailbox ELSE passedOver
  /\ Command
  /\ pc' = "idle"
  /\ UNCHANGED <<mailVars, seen, batchVars, published, twice, failed, cut, faults>>

(***************************************************************************)
(* _run_idle_cycle                                                         *)
(***************************************************************************)
IdleResponse ==
  /\ pc = "idle"
  /\ notice
  /\ notice' = FALSE
  /\ pc' = "search"
  /\ UNCHANGED <<mailVars, cursor, seen, batchVars, history, faults>>

\* The periodic idle_done and noop: what the server says in between is lost.
ReissueIdle ==
  /\ pc = "idle"
  /\ notice' = FALSE
  /\ UNCHANGED <<mailVars, pc, cursor, seen, batchVars, history, faults>>

\* Slip: the whole folder is searched.
SearchAll(n) == mailbox

\* UID SEARCH UID n:* returns the mails from n on and, when there is none,
\* the last mail of the folder ("*" is its greatest uid, and ranges have no
\* direction).
SearchFrom(n) ==
  IF \E uid \in mailbox : uid >= n
  THEN { uid \in mailbox : uid >= n }
  ELSE { uid \in mailbox : \A other \in mailbox : other <= uid }

\* Slip: the search starts one uid too far.
SearchOneFurther ==
  /\ pc = "search"
  /\ Command
  /\ LET fresh == SearchFrom(cursor + 2) \ Range(seen)
     IN  /\ todo' = fresh
         /\ pc' = IF fresh = {} THEN "idle" ELSE "fetch"
  /\ processed' = {}
  /\ UNCHANGED <<mailVars, cursor, seen, history, faults>>

\* The search and the first half of _handle_new_uids: seen uids are skipped.
Search ==
  /\ pc = "search"
  /\ Command
  /\ LET fresh == SearchFrom(cursor + 1) \ Range(seen)
     IN  /\ todo' = fresh
         /\ pc' = IF fresh = {} THEN "idle" ELSE "fetch"
  /\ processed' = {}
  /\ UNCHANGED <<mailVars, cursor, seen, history, faults>>

\* A mail expunged since the search has no data and is passed over.
Fetch ==
  /\ pc = "fetch"
  /\ Command
  /\ todo' = todo \cap mailbox
  /\ pc' = IF todo' # {} THEN "mail" ELSE "idle"
  /\ UNCHANGED <<mailVars, cursor, seen, processed, history, faults>>

IsNext(uid) == uid \in todo /\ \A other \in todo : uid <= other

\* The loop goes on to the next uid, to the save, or (nothing processed) back
\* to IDLE.
Advance(uid, done) ==
  /\ todo' = todo \ {uid}
  /\ processed' = processed \cup done
  /\ pc' = CASE todo' # {} -> "mail"
             [] todo' = {} /\ processed' # {} -> "save"
             [] OTHER -> "idle"

SkipOld(uid) ==
  /\ pc = "mail"
  /\ IsNext(uid)
  /\ uid <= cursor
  /\ Advance(uid, {uid})
  /\ UNCHANGED <<mailVars, notice, cursor, seen, history, faults>>

RecordPublish(uid) ==
  /\ published' = published \cup {uid}
  /\ twice' = IF uid \in published THEN twice \cup {uid} ELSE twice

PublishMail(uid) ==
  /\ pc = "mail"
  /\ IsNext(uid)
  /\ uid > cursor
  /\ RecordPublish(uid)
  /\ Advance(uid, {uid})
  /\ UNCHANGED <<mailVars, notice, cursor, seen, passed, failed, cut, faults>>

\* Slip: a failed uid counts as processed.
PublishFailsProcessed(uid) ==
  /\ Fault
  /\ pc = "mail"
  /\ IsNext(uid)
  /\ uid > cursor
  /\ failed' = failed \cup {uid}
  /\ Advance(uid, {uid})
  /\ UNCHANGED <<mailVars, notice, cursor, seen, passed, published, twice, cut>>

\* on_message raises, before XADD took effect or after (its reply lost).
PublishFails(uid) ==
  /\ Fault
  /\ pc = "mail"
  /\ IsNext(uid)
  /\ uid > cursor
  /\ \/ UNCHANGED <<published, twice, cut>>
     \/ RecordPublish(uid) /\ cut' = cut \cup {uid}
  /\ failed' = failed \cup {uid}
  /\ Advance(uid, {})
  /\ UNCHANGED <<mailVars, notice, cursor, seen, passed>>

\* The members of a set of uids, the least first.
Ascending(uids) ==
  { s \in [1 .. Cardinality(uids) -> uids] : \A i, j \in DOMAIN s : i < j => s[i] < s[j] }

\* The processed uids enter the cache of seen uids; beyond the cap the oldest
\* ones leave it.
Remember ==
  \E late \in Ascending(processed) :
    LET all == seen \o late
    IN  seen' = SubSeq(all, 1 + (IF Len(all) > SeenCap THEN Len(all) - SeenCap ELSE 0), Len(all))

\* Slip: the least of the processed uids is stored.
SaveLeast ==
  /\ pc = "save"
  /\ Remember
  /\ \E uid \in processed : cursor' = uid /\ \A other \in processed : uid <= other
  /\ processed' = {}
  /\ pc' = "idle"
  /\ UNCHANGED <<mailVars, notice, todo, history, faults>>

SaveCursor ==
  /\ pc = "save"
  /\ Remember
  /\ \E uid \in processed : cursor' = uid /\ \A other \in processed : other <= uid
  /\ processed' = {}
  /\ pc' = "idle"
  /\ UNCHANGED <<mailVars, notice, todo, history, faults>>

\* What has been published of the batch and is nowhere recorded.
CutOff == cut' = cut \cup (processed \cap published)

\* Redis refuses the SET: the uids are seen, the cursor is not moved, and the
\* exception ends the connection.
SaveFails ==
  /\ Fault
  /\ pc = "save"
  /\ Remember
  /\ pc' = "disconnected"
  /\ CutOff
  /\ UNCHANGED <<mailVars, notice, cursor, batchVars, passed, published, twice, failed>>

\* Any other exception: the IMAP connection breaks, or Redis fails in a GET.
Disconnect ==
  /\ Fault
  /\ pc \in Online
  /\ pc' = "disconnected"
  /\ CutOff
  /\ UNCHANGED <<mailVars, notice, cursor, seen, batchVars, passed, published, twice, failed>>

\* The process dies: what it has seen is forgotten.
Crash ==
  /\ Fault
  /\ pc # "down"
  /\ pc' = "down"
  /\ CutOff
  /\ UNCHANGED <<mailVars, notice, cursor, seen, batchVars, passed, published, twice, failed>>

Watcher ==
  \/ StartProcess \/ Connect \/ InitLastUid
  \/ IdleResponse \/ Search \/ Fetch
  \/ \E uid \in todo : SkipOld(uid) \/ PublishMail(uid)
  \/ SaveCursor

Next ==
  \/ Arrive \/ (\E uid \in Uids : Expunge(uid)) \/ KeepAlive
  \/ Watcher \/ ReissueIdle
  \/ (\E uid \in todo : PublishFails(uid)) \/ SaveFails \/ Disconnect \/ Crash

\* The watcher thread runs, _run_loop reconnects for ever, docker restarts the
\* process.  Nothing makes the server speak, and no mail has to arrive.
Fairness == WF_vars(Watcher)

Spec == Init /\ [][Next]_vars /\ Fairness

------------------------------------------------------------------------------
TypeOK ==
  /\ uidnext \in 1 .. MaxUid + 1
  /\ mailbox \in SUBSET (1 .. uidnext - 1)
  /\ notice \in BOOLEAN
  /\ pc \in Locations
  /\ cursor \in 0 .. uidnext - 1
  /\ seen \in Seq(1 .. uidnext - 1) /\ Len(seen) <= SeenCap
  /\ todo \in SUBSET (1 .. uidnext - 1)
  /\ processed \in SUBSET (1 .. uidnext - 1)
  /\ base \in 0 .. uidnext - 1
  /\ installed \in BOOLEAN
  /\ \A uids \in {passedOver, published, twice, failed, cut} : uids \subseteq 1 .. uidnext - 1
  /\ faults \in 0 .. MaxFaults

\* The cursor passes over no mail for nothing.  One below it that is still in
\* the folder has been published or was there before the first start; or its
\* on_message failed and a later mail moved the cursor on (_handle_new_uids
\* stores the greatest processed uid); or the folder had been empty at the
\* first start and a reconnection initialised the cursor again.
NothingSkippedSilently ==
  \A uid \in mailbox :
    (base < uid /\ uid <= cursor /\ uid \notin published) =>
      \/ uid \in failed /\ \E later \in published : uid < later
      \/ uid \in passedOver /\ base = 0

\* A mail is published twice only if its first publication could not be
\* recorded: a crash, a broken connection, a failed SET or a lost XADD reply
\* between on_message and the SET of the cursor.  The seen cache, the cursor
\* and the "old uid" test catch every other repetition.
RepeatedOnlyWhenCutOff == twice \subseteq cut

\* The cursor moves back (a search above the last mail returns the last mail)
\* only over uids that are gone, so no mail comes back above it.
RetreatsOverGapsOnly ==
  [][\A uid \in mailbox : ~(cursor' < uid /\ uid <= cursor)]_vars

\* Once faults are over every mail that stays in the folder is published,
\* passed over by an initialisation, or failed.
Settled ==
  \A uid \in Uids : <>[](uid \in mailbox => uid <= base \/ uid \in published \cup failed \cup passedOver)

\* If the server keeps speaking while the watcher idles, no mail is left.
SettledIfServerSpeaks == ([]<><<IdleResponse>>_vars) => Settled

==============================================================================
