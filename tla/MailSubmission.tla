--------------------------- MODULE MailSubmission ---------------------------
(***************************************************************************)
(* From the stored mail to the stream of interesting mails.  Every 15      *)
(* minutes the worker of jobs-master has google-sheets-accessor import the *)
(* sheet, clean up meetings, and then mail-processor submit: label after   *)
(* label it selects the mails that are due, has mail-mapper assign         *)
(* applications to them (module MailMapping), publishes the assigned ones  *)
(* and marks each as sent in a transaction of its own.  Submissions run in *)
(* threads: one the worker has given up on goes on beside the next.        *)
(***************************************************************************)
EXTENDS Naturals, Sequences

CONSTANTS Applied, Offers,           \* the mails, by label
          Requests,                  \* threads that serve submissions
          MaxFailures, MaxRestarts   \* bounds

Mails == Applied \cup Offers
LabelOf(m) == IF m \in Applied THEN "applied" ELSE "offer"

\* The labels to submit, in this order.  The five between these two yield nothing
\* here, where no mail carries them: they are left out of the loop.
Labels == <<"applied", "offer">>

VARIABLES
  age,        \* of each stored mail: "new", "due" or "expired" for its label's window
  unsent,     \* should_be_sent_to_heh
  sheet,      \* mails whose application is in the sheet ...
  known,      \* ... and imported: mail-mapper finds it
  copies,     \* how often each mail is in the stream of interesting mails
  req,        \* the submissions in progress
  worker,     \* the periodic job: "sleep", "fetch", "submit", or whom it waits for
  failures, restarts,
  lostMark,   \* history: published, and the mark failed, was cut off or not attempted
  contended   \* history: selected while another submission had it in hand

mails == <<age, unsent, sheet, known>>
history == <<lostMark, contended>>
vars == <<mails, copies, req, worker, failures, restarts, history>>

Idle == [pc |-> "idle"]

Init ==
  /\ age = [m \in Mails |-> "new"] /\ unsent = Mails /\ sheet \in SUBSET Mails /\ known = {}
  /\ copies = [m \in Mails |-> 0]
  /\ req = [r \in Requests |-> Idle] /\ worker = "fetch"
  /\ failures = 0 /\ restarts = 0 /\ lostMark = {} /\ contended = {}

-----------------------------------------------------------------------------
(* The environment *)

\* Time passes: half an hour or a day until a mail is due, hours or days until
\* it is out of the window.
Grow(m) ==
  /\ \/ age[m] = "new" /\ age' = [age EXCEPT ![m] = "due"]
     \/ age[m] = "due" /\ age' = [age EXCEPT ![m] = "expired"]
  /\ UNCHANGED <<unsent, sheet, known, copies, req, worker, failures, restarts, history>>

-----------------------------------------------------------------------------
(* One submission *)

Failure == failures < MaxFailures /\ failures' = failures + 1

Due(label) == {m \in unsent : LabelOf(m) = label /\ age[m] = "due"}

\* what a submission has read and will still publish
InHand(r) ==
  CASE req[r].pc \in {"map", "ics"} -> req[r].batch
    [] req[r].pc \in {"publish", "mark"} -> req[r].queue
    [] OTHER -> {}

\* POST /api/mails/interesting/submit
Begin(r) ==
  /\ req[r] = Idle
  /\ req' = [req EXCEPT ![r] = [pc |-> "query", todo |-> Labels, aborted |-> FALSE,
                                batch |-> {}, queue |-> {}, failed |-> {},
                                owed |-> {m \in unsent : age[m] = "due" /\ m \in known}]]

NextLabel(request) == [request EXCEPT !.pc = "query", !.todo = Tail(@), !.batch = {}, !.queue = {}]

\* The failure is logged, the label answered with nothing, the loop goes on.
LabelFails(request) == NextLabel([request EXCEPT !.failed = @ \cup {Head(request.todo)}])

\* A failing query reads as "no mails".  The submission has one session: after
\* a failure its transaction is aborted and every later query fails as well.
Query(r) ==
  /\ req[r].pc = "query" /\ req[r].todo # <<>>
  /\ \/ /\ ~req[r].aborted
        /\ LET due == Due(Head(req[r].todo))
           IN  /\ req' = [req EXCEPT ![r] = IF due = {} THEN NextLabel(@)
                                            ELSE [@ EXCEPT !.pc = "map", !.batch = due]]
               /\ contended' = contended \cup (due \cap UNION {InHand(o) : o \in Requests \ {r}})
        /\ UNCHANGED failures
     \/ /\ req[r].aborted
        /\ req' = [req EXCEPT ![r] = NextLabel(@)]
        /\ UNCHANGED <<failures, contended>>
     \/ /\ ~req[r].aborted /\ Failure
        /\ req' = [req EXCEPT ![r] = NextLabel([@ EXCEPT !.aborted = TRUE])]
        /\ UNCHANGED contended
  /\ UNCHANGED <<mails, copies, worker, restarts, lostMark>>

\* Slip: an error of one label leaves the loop over the labels.
MapOrStop(r) ==
  /\ req[r].pc = "map"
  /\ \/ /\ req' = [req EXCEPT ![r].pc = "ics", ![r].queue = req[r].batch \cap known]
        /\ UNCHANGED failures
     \/ /\ Failure
        /\ req' = [req EXCEPT ![r] = [LabelFails(@) EXCEPT !.todo = <<>>]]
  /\ UNCHANGED <<mails, copies, worker, restarts, history>>

\* mail-mapper assigns the mails whose application is imported; it may fail,
\* time out or answer with an error.
Map(r) ==
  /\ req[r].pc = "map"
  /\ \/ /\ req' = [req EXCEPT ![r].pc = "ics", ![r].queue = req[r].batch \cap known]
        /\ UNCHANGED failures
     \/ /\ Failure
        /\ req' = [req EXCEPT ![r] = LabelFails(@)]
  /\ UNCHANGED <<mails, copies, worker, restarts, history>>

\* The calendar files of the assigned mails, all before the first is published.
FetchIcs(r) ==
  /\ req[r].pc = "ics"
  /\ \/ /\ req' = [req EXCEPT ![r].pc = "publish"]
        /\ UNCHANGED failures
     \/ /\ Failure /\ req[r].queue # {}
        /\ req' = [req EXCEPT ![r] = LabelFails([@ EXCEPT !.aborted = TRUE])]
  /\ UNCHANGED <<mails, copies, worker, restarts, history>>

\* Slip: the mail is marked whether or not it was published.
PublishAndMark(r) ==
  /\ req[r].pc = "publish"
  /\ \E m \in req[r].queue :
       /\ \/ copies' = [copies EXCEPT ![m] = @ + 1] /\ UNCHANGED failures
          \/ Failure /\ UNCHANGED copies
       /\ req' = [req EXCEPT ![r].pc = "mark", ![r].batch = {m}]
  /\ UNCHANGED <<mails, worker, restarts, history>>

\* A failing publish is logged; it may have reached the stream all the same.
Publish(r) ==
  /\ req[r].pc = "publish"
  /\ \E m \in req[r].queue :
       \/ /\ copies' = [copies EXCEPT ![m] = @ + 1]
          /\ req' = [req EXCEPT ![r].pc = "mark", ![r].batch = {m}]
          /\ UNCHANGED <<failures, lostMark>>
       \/ /\ Failure
          /\ \/ UNCHANGED <<copies, lostMark>>
             \/ copies' = [copies EXCEPT ![m] = @ + 1] /\ lostMark' = lostMark \cup {m}
          /\ req' = [req EXCEPT ![r].queue = @ \ {m}, ![r].failed = @ \cup {LabelOf(m)}]
  /\ UNCHANGED <<mails, worker, restarts, contended>>

\* Slip: the flag is cleared on the object of the other session only.
MarkDetached(r) ==
  /\ req[r].pc = "mark"
  /\ req' = [req EXCEPT ![r].pc = "publish", ![r].queue = @ \ req[r].batch]
  /\ UNCHANGED <<mails, copies, worker, failures, restarts, history>>

Mark(r) ==
  /\ req[r].pc = "mark"
  /\ \/ unsent' = unsent \ req[r].batch /\ UNCHANGED <<failures, lostMark>>
     \/ Failure /\ lostMark' = lostMark \cup req[r].batch /\ UNCHANGED unsent
  /\ req' = [req EXCEPT ![r].pc = "publish", ![r].queue = @ \ req[r].batch]
  /\ UNCHANGED <<age, sheet, known, copies, worker, restarts, contended>>

LabelDone(r) ==
  /\ req[r].pc = "publish" /\ req[r].queue = {}
  /\ req' = [req EXCEPT ![r] = NextLabel(@)]
  /\ UNCHANGED <<mails, copies, worker, failures, restarts, history>>

End(r) ==
  /\ req[r].pc = "query" /\ req[r].todo = <<>>
  /\ req' = [req EXCEPT ![r] = Idle]
  /\ worker' = IF worker = r THEN "sleep" ELSE worker
  /\ UNCHANGED <<mails, copies, failures, restarts, history>>

Step(r) == Query(r) \/ Map(r) \/ FetchIcs(r) \/ Publish(r) \/ Mark(r) \/ LabelDone(r) \/ End(r)

-----------------------------------------------------------------------------
(* The worker: a call that fails or times out is logged, the next one follows.
   The cleanup of meetings, between import and submission, concerns no mail. *)

Wake ==
  /\ worker = "sleep" /\ worker' = "fetch"
  /\ UNCHANGED <<mails, copies, req, failures, restarts, history>>

Fetch ==
  /\ worker = "fetch"
  /\ \/ known' = sheet /\ UNCHANGED failures
     \/ Failure /\ UNCHANGED known
  /\ worker' = "submit"
  /\ UNCHANGED <<age, unsent, sheet, copies, req, restarts, history>>

Submit ==
  /\ worker = "submit"
  /\ \E r \in Requests : Begin(r) /\ worker' = r
  /\ UNCHANGED <<mails, copies, failures, restarts, history>>

\* The call times out; the submission goes on.
GiveUp ==
  /\ worker \in Requests /\ Failure
  /\ worker' = "sleep"
  /\ UNCHANGED <<mails, copies, req, restarts, history>>

\* jobs-master restarts: the job runs at once, whatever mail-processor is at.
WorkerRestarts ==
  /\ restarts < MaxRestarts /\ restarts' = restarts + 1
  /\ worker' = "fetch"
  /\ UNCHANGED <<mails, copies, req, failures, history>>

\* mail-processor restarts: the submissions are cut off, their mark included.
ProcessorRestarts ==
  /\ restarts < MaxRestarts /\ restarts' = restarts + 1
  /\ lostMark' = lostMark \cup UNION {IF req[r].pc = "mark" THEN req[r].batch ELSE {} : r \in Requests}
  /\ req' = [r \in Requests |-> Idle]
  /\ worker' = IF worker \in Requests THEN "sleep" ELSE worker
  /\ UNCHANGED <<mails, copies, failures, contended>>

Next ==
  \/ \E m \in Mails : Grow(m)
  \/ \E r \in Requests : Step(r)
  \/ Wake \/ Fetch \/ Submit \/ GiveUp
  \/ WorkerRestarts \/ ProcessorRestarts

\* The worker's loop and the threads go on.
Fairness ==
  /\ WF_vars(Wake) /\ WF_vars(Fetch) /\ WF_vars(Submit)
  /\ \A r \in Requests : WF_vars(Step(r))

Spec == Init /\ [][Next]_vars /\ Fairness

-----------------------------------------------------------------------------
(* Properties *)

\* A mail is submitted twice only if its mark was lost after a publication, or
\* two submissions had selected it at the same time.
\* (_publish_mapping, _mark_email_as_sent)
RepeatedOnlyIf == \A m \in Mails : copies[m] > 1 => m \in lostMark \cup contended

\* A submission that runs to its end leaves a mail behind that was due and
\* assignable when it began only if something failed for that mail's own
\* label, or the database failed before: the labels do not hold up each other.
\* (submit_interesting)
LeftBehindOnlyIf ==
  [][\A r \in Requests : End(r) =>
       \A m \in req[r].owed :
          \/ copies[m] > 0 \/ age[m] = "expired"
          \/ LabelOf(m) \in req[r].failed \/ req[r].aborted]_vars

\* Once the failures are over, a stored mail whose application is in the sheet
\* is submitted while it is in its window: whatever call failed, the worker
\* goes on and imports the application before it submits.
\* (_run_periodic, _run_with_client)
DueIsSubmitted ==
  \A m \in Mails : (age[m] = "due" /\ m \in sheet) ~> (copies[m] > 0 \/ age[m] = "expired")
=============================================================================
