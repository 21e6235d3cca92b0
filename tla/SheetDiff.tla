------------------------------ MODULE SheetDiff ------------------------------
(***************************************************************************)
(* Differences between the sheet and the database, from the job that looks *)
(* for them to the button that settles them.  Every ten minutes            *)
(* jobs-master walks the imported rows, a range at a time, and publishes   *)
(* the differing ones; hire-event-processor and hire-event-notifier pass   *)
(* each on under an event id of its own; telegram-bot keeps the payload in *)
(* Redis and shows a message with buttons, each press of which runs in a   *)
(* goroutine: apply the sheet to the database, the database to the sheet,  *)
(* or skip.  What happens inside one application is ApplicationRecord's.   *)
(***************************************************************************)
EXTENDS Integers, Sequences, FiniteSets, FiniteSetsExt, SequencesExt, TLC

CONSTANTS LastSheetRow,     \* rows of the sheet: MIN_SHEET_ROW..LastSheetRow
          RowsPerIteration,
          Presses,          \* goroutines that serve button presses
          MaxRuns, MaxEdits, MaxFailures, MaxPresses   \* bounds

MinSheetRow == 3
SheetRows == MinSheetRow..LastSheetRow

ASSUME DiffAssumption ==
  LastSheetRow \in Nat /\ LastSheetRow >= MinSheetRow /\ RowsPerIteration \in Nat \ {0}

VARIABLES
  inSheet, inDb, \* what each row holds on either side
  imported,    \* the last processed row
  job,         \* the run in progress
  stream,      \* applications-sync-unprocessed: the rows reported
  passed,      \* the entries of it the relay has acknowledged
  notices,     \* notification-sync, by event id: row, and what the bot made of it
  seen,        \* the ones of them the bot has acknowledged
  press,       \* the button presses being served
  calls,       \* per event id: how often google-sheets-accessor took a side over
  excused,     \* history: event ids whose buttons may act again
  runs, edits, failures, pressed

rows == <<inSheet, inDb, imported>>
bus == <<stream, passed, seen>>
bounds == <<runs, edits, failures, pressed>>
diffVars == <<rows, job, bus, notices, press, calls, excused, bounds>>

\* A complete row has a value; one in the sheet may be empty, lack a mandatory
\* cell, or have a date, a salary or a stage that cannot be parsed.
Values == {"v", "w"}
RowContents == Values \cup {"blank", "partial", "garbled"}

Idle == [pc |-> "idle"]

DiffInit ==
  /\ inSheet = [r \in SheetRows |-> "v"] /\ inDb = [r \in SheetRows |-> "v"]
  /\ imported \in {LastSheetRow - 1, LastSheetRow}
  /\ job = Idle /\ stream = <<>> /\ passed = {} /\ notices = <<>> /\ seen = {}
  /\ press = [p \in Presses |-> Idle] /\ calls = <<>> /\ excused = {}
  /\ runs = 0 /\ edits = 0 /\ failures = 0 /\ pressed = 0

Failure == failures < MaxFailures /\ failures' = failures + 1

\* The run remembers which rows have differed ever since it began (history).
Agree(r) == job' = IF job = Idle THEN job ELSE [job EXCEPT !.steady = @ \ {r}]

\* The user edits a row of the sheet.
EditRow(r) ==
  /\ edits < MaxEdits /\ edits' = edits + 1
  /\ \E content \in RowContents \ {inSheet[r]} : inSheet' = [inSheet EXCEPT ![r] = content]
  /\ Agree(r)
  /\ UNCHANGED <<inDb, imported, bus, notices, press, calls, excused, runs, failures, pressed>>

\* Fetch imports the remaining rows (module SheetFetch).
Import ==
  /\ imported < LastSheetRow
  /\ \A r \in SheetRows : r > imported => inSheet[r] \in Values
  /\ imported' = LastSheetRow
  /\ inDb' = [r \in SheetRows |-> IF r > imported THEN inSheet[r] ELSE inDb[r]]
  /\ UNCHANGED <<inSheet, job, bus, notices, press, calls, excused, bounds>>

-----------------------------------------------------------------------------
(* The job *)

\* GetApplicationsFromRows leaves blank rows out, and an incomplete last one;
\* an incomplete row before another one fails the whole range.
Unreadable(a, b) ==
  \E r \in SheetRows \cap (a..b) :
    \/ inSheet[r] = "garbled"
    \/ inSheet[r] = "partial" /\ \E q \in SheetRows \cap (r + 1..b) : inSheet[q] # "blank"

\* What is left is compared with the database.
Differing(a, b) ==
  {r \in a..b : r <= imported /\ inSheet[r] \in Values /\ inSheet[r] # inDb[r]}

\* Slip: the next range ends where this one began.
OverlappingRanges(last) ==
  LET range[end \in 0..last] ==
        IF end < MinSheetRow THEN <<>>
        ELSE LET start == Max({MinSheetRow, end - RowsPerIteration + 1})
             IN  <<<<start, end>>>> \o range[IF start = end THEN start - 1 ELSE start]
  IN  range[last]

\* the ranges from the last row up to the first one
RowRanges(last) ==
  LET range[end \in 0..last] ==
        IF end < MinSheetRow THEN <<>>
        ELSE LET start == Max({MinSheetRow, end - RowsPerIteration + 1})
             IN  <<<<start, end>>>> \o range[start - 1]
  IN  range[last]

\* The last processed row is read once; failing to, the run is over at once.
StartRun ==
  /\ job = Idle /\ runs < MaxRuns /\ runs' = runs + 1
  /\ job' = [pc |-> "diff", ranges |-> RowRanges(Max({MinSheetRow, imported})), entries |-> {},
             steady |-> Differing(MinSheetRow, imported), reported |-> <<>>, failed |-> {}]
  /\ UNCHANGED <<rows, bus, notices, press, calls, excused, edits, failures, pressed>>

\* google-sheets-accessor compares the rows of a range; a request that fails, or
\* that finds the range unreadable, is logged and the range skipped.
Diff ==
  /\ job.pc = "diff" /\ job.ranges # <<>>
  /\ LET range == Head(job.ranges)
     IN  \/ /\ ~Unreadable(range[1], range[2])
            /\ job' = [job EXCEPT !.pc = "publish", !.entries = Differing(range[1], range[2]),
                                  !.ranges = Tail(@)]
            /\ UNCHANGED failures
         \/ /\ Failure \/ (Unreadable(range[1], range[2]) /\ UNCHANGED failures)
            /\ job' = [job EXCEPT !.ranges = Tail(@), !.failed = @ \cup (range[1]..range[2])]
  /\ UNCHANGED <<rows, bus, notices, press, calls, excused, runs, edits, pressed>>

Publish ==
  /\ job.pc = "publish"
  /\ \E r \in job.entries :
       \/ /\ stream' = Append(stream, r)
          /\ job' = [job EXCEPT !.entries = @ \ {r}, !.reported = Append(@, r)]
          /\ UNCHANGED failures
       \/ /\ Failure
          /\ job' = [job EXCEPT !.entries = @ \ {r}, !.failed = @ \cup {r}]
          /\ UNCHANGED stream
  /\ UNCHANGED <<rows, passed, seen, notices, press, calls, excused, runs, edits, pressed>>

NextRange ==
  /\ job.pc = "publish" /\ job.entries = {}
  /\ job' = [job EXCEPT !.pc = "diff"]
  /\ UNCHANGED <<rows, bus, notices, press, calls, excused, bounds>>

EndRun ==
  /\ job.pc = "diff" /\ job.ranges = <<>>
  /\ job' = Idle
  /\ UNCHANGED <<rows, bus, notices, press, calls, excused, bounds>>

-----------------------------------------------------------------------------
(* The relay and the bot *)

\* hire-event-processor forwards the difference, hire-event-notifier gives it an
\* event id.  An entry whose handling fails is left for a later replay (module
\* GoConsumer), which gives it another id.
Relay ==
  /\ \E i \in DOMAIN stream \ passed :
       /\ notices' = Append(notices, [row |-> stream[i], cached |-> FALSE, messages |-> 0, open |-> {}])
       /\ \/ passed' = passed \cup {i} /\ UNCHANGED failures
          \/ Failure /\ UNCHANGED passed
  /\ calls' = Append(calls, 0)
  /\ UNCHANGED <<rows, job, stream, seen, press, excused, runs, edits, pressed>>

\* Store the payload, then show the message.  A failure leaves the notice to be
\* handled again: the payload is restored, the message shown once more.
ShowNotice ==
  /\ \E n \in DOMAIN notices \ seen :
       LET kept == [notices[n] EXCEPT !.cached = TRUE]
           shown == [kept EXCEPT !.messages = @ + 1, !.open = @ \cup {notices[n].messages + 1}]
       IN  /\ \/ notices' = [notices EXCEPT ![n] = shown] /\ seen' = seen \cup {n} /\ UNCHANGED failures
              \/ Failure /\ notices' \in {[notices EXCEPT ![n] = kept], [notices EXCEPT ![n] = shown]}
                         /\ UNCHANGED seen
           /\ excused' = IF notices[n].messages > 0 THEN excused \cup {n} ELSE excused
  /\ UNCHANGED <<rows, job, stream, passed, press, calls, runs, edits, pressed>>

\* The payload outlives its time.
Expire(n) ==
  /\ notices[n].cached /\ Failure
  /\ notices' = [notices EXCEPT ![n].cached = FALSE]
  /\ UNCHANGED <<rows, job, bus, press, calls, excused, runs, edits, pressed>>

Done(p) == press' = [press EXCEPT ![p] = Idle]

\* A press on one of the messages that still have buttons.
Press(p, n, k, action) ==
  /\ press[p] = Idle /\ k \in notices[n].open
  /\ pressed < MaxPresses /\ pressed' = pressed + 1
  /\ press' = [press EXCEPT ![p] = [pc |-> IF action = "skip" THEN "delete" ELSE "get",
                                    event |-> n, message |-> k, action |-> action]]
  /\ excused' = IF \E q \in Presses \ {p} : press[q] # Idle /\ press[q].event = n
                THEN excused \cup {n} ELSE excused
  /\ UNCHANGED <<rows, job, bus, notices, calls, runs, edits, failures>>

\* Without a payload, or without an answer from Telegram, nothing happens.
Get(p) ==
  /\ press[p].pc = "get"
  /\ \/ notices[press[p].event].cached /\ press' = [press EXCEPT ![p].pc = "call"] /\ UNCHANGED failures
     \/ ~notices[press[p].event].cached /\ Done(p) /\ UNCHANGED failures
     \/ Failure /\ Done(p)
  /\ UNCHANGED <<rows, job, bus, notices, calls, excused, runs, edits, pressed>>

\* An incomplete row has no values the database would take, and one that cannot
\* be parsed cannot even be compared.
Refused(action, r) ==
  inSheet[r] \notin IF action = "sheet" THEN Values ELSE RowContents \ {"garbled"}

\* The row as it is now, whatever the message shows, is taken over.  Of an
\* incomplete row of the sheet a cell may stay that the database has no value
\* for (module ApplicationRecord), and no longer be hidden if it cannot be parsed.
TakeOver(action, r) ==
  IF action = "sheet"
  THEN inDb' = [inDb EXCEPT ![r] = inSheet[r]] /\ UNCHANGED inSheet
  ELSE /\ \E content \in IF inSheet[r] = "partial" THEN Values \cup {"garbled"} ELSE {inDb[r]} :
            inSheet' = [inSheet EXCEPT ![r] = content]
       /\ UNCHANGED inDb

\* google-sheets-accessor may refuse or fail, or its answer be lost.
Call(p) ==
  /\ press[p].pc = "call"
  /\ LET n == press[p].event
         refused == Refused(press[p].action, notices[n].row)
     IN
     \/ /\ ~refused
        /\ calls' = [calls EXCEPT ![n] = @ + 1]
        /\ TakeOver(press[p].action, notices[n].row) /\ Agree(notices[n].row)
        /\ \/ press' = [press EXCEPT ![p].pc = "delete"] /\ UNCHANGED <<failures, excused>>
           \/ Failure /\ Done(p) /\ excused' = excused \cup {n}
     \/ /\ Failure \/ (refused /\ UNCHANGED failures)
        /\ Done(p)
        /\ UNCHANGED <<inSheet, inDb, job, calls, excused>>
  /\ UNCHANGED <<imported, bus, notices, runs, edits, pressed>>

\* Slip: the payload stays until it expires.
DeleteNothing(p) ==
  /\ press[p].pc = "delete"
  /\ press' = [press EXCEPT ![p].pc = "buttons"]
  /\ UNCHANGED <<rows, job, bus, notices, calls, excused, bounds>>

Delete(p) ==
  /\ press[p].pc = "delete"
  /\ \/ /\ notices' = [notices EXCEPT ![press[p].event].cached = FALSE]
        /\ press' = [press EXCEPT ![p].pc = "buttons"]
        /\ UNCHANGED <<failures, excused>>
     \/ /\ Failure /\ Done(p)
        /\ excused' = excused \cup {press[p].event}
        /\ UNCHANGED notices
  /\ UNCHANGED <<rows, job, bus, calls, runs, edits, pressed>>

RemoveButtons(p) ==
  /\ press[p].pc = "buttons"
  /\ \/ /\ notices' = [notices EXCEPT ![press[p].event].open = @ \ {press[p].message}]
        /\ UNCHANGED failures
     \/ Failure /\ UNCHANGED notices
  /\ Done(p)
  /\ UNCHANGED <<rows, job, bus, calls, excused, runs, edits, pressed>>

DiffNext ==
  \/ \E r \in SheetRows : EditRow(r)
  \/ Import \/ StartRun \/ Diff \/ Publish \/ NextRange \/ EndRun
  \/ Relay \/ ShowNotice \/ \E n \in DOMAIN notices : Expire(n)
  \/ \E p \in Presses :
       \/ Get(p) \/ Call(p) \/ Delete(p) \/ RemoveButtons(p)
       \/ \E n \in DOMAIN notices, k \in {1, 2}, action \in {"sheet", "internal", "skip"} :
            Press(p, n, k, action)

DiffSpec == DiffInit /\ [][DiffNext]_diffVars

Symmetry == Permutations(Presses)

-----------------------------------------------------------------------------
(* Properties *)

Count(s, r) == Cardinality({i \in DOMAIN s : s[i] = r})

\* A run reports every complete row that has differed since it began exactly
\* once, unless the request for its range or its own publication failed (and a
\* row of the range that cannot be read fails the request): the ranges leave no
\* row out, repeat none, and no failure holds up the others.
\* (application_diff.run, _build_row_ranges, _publish_differences)
ReportedOnce ==
  [][EndRun => /\ \A r \in job.steady : r \in job.failed \/ r \in ToSet(job.reported)
               /\ \A r \in SheetRows : Count(job.reported, r) <= 1]_diffVars

\* The buttons of one notification take a side over once; more often only if
\* two presses overlapped, an answer or the deletion of the payload failed, or
\* the notification was delivered again.
\* (handleApplicationDiffApplySheet, handleApplicationDiffApplyInternal)
AppliedOnce == \A n \in DOMAIN calls : calls[n] > 1 => n \in excused
=============================================================================
