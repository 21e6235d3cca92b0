-------------------------- MODULE ApplicationRecord --------------------------
(***************************************************************************)
(* One application of google-sheets-accessor: its row in Postgres and its  *)
(* row in the sheet, and everything that writes them.  Two bus handlers,   *)
(* two directions of the HTTP update and the meeting clean-up run          *)
(* concurrently, read the whole row, and write it back without a lock; the *)
(* sheet is written cell by cell and also by the user.                     *)
(*                                                                         *)
(* The columns are grouped by where their new value comes from: "status"   *)
(* stands for what a confirmed mail carries (status, dates, company,       *)
(* title) and for the cells a row must have, "kept" for what an update     *)
(* takes over from the row (meta and the like, which may be missing),      *)
(* "salary" for the linked salary rows.  A row of the sheet without its    *)
(* status is one with any mandatory cell empty.                            *)
(***************************************************************************)
EXTENDS Naturals, Sequences, FiniteSets, FiniteSetsExt

CONSTANTS Tasks,         \* the tasks of a run, a subset of Kinds
          MaxTogether,   \* bound of the model: tasks under way at a time
          MaxRequests,   \* bound of the model: buttons pressed and clean-ups called
          MaxUpdates,    \* bound of the model: confirmed mails
          MaxCellEdits,  \* bound of the model: edits by the user
          MaxFaults      \* bound of the model: faults that happen

Kinds == {"update", "embed", "external", "internal", "cleanup"}

ASSUME RecordAssumption ==
  /\ Tasks \subseteq Kinds
  /\ MaxTogether \in Nat \ {0}
  /\ MaxRequests \in Nat /\ MaxUpdates \in Nat /\ MaxCellEdits \in Nat /\ MaxFaults \in Nat

VARIABLES db,           \* the row in Postgres
          sheet,        \* the row in the sheet
          updateStream, \* statuses published to application-update-processed
          acked,        \* entries of updates that are acknowledged
          pos,          \* the last entry offered since the process started
          request,      \* the embedding message: "owed", "offered" or "acked"
          pc,           \* where each task is
          dto,          \* the row a task is about to write
          todo,         \* the cells a task has yet to write
          blind,        \* history: the task looked at an incomplete row
          quiet,        \* history: nobody else has written since the task began
          requests, cellEdits, faults

bus == <<updateStream, acked, pos, request>>
bounds == <<requests, cellEdits, faults>>
recordVars == <<db, sheet, bus, pc, dto, todo, blind, quiet, bounds>>

None == "none"
RowStatuses == {"applied", "meeting", "pending"}
Confirmed == {"meeting"} \* what the model's mails confirm
Values == [status |-> RowStatuses, kept |-> {None, "k1"}, salary |-> {None, "s1", "s2"}]
Cells == DOMAIN Values

Blank == [status |-> "applied", kept |-> None, salary |-> None, embedding |-> FALSE]

\* what the model's user types into a cell
Typed == [status |-> {None, "pending"}, kept |-> Values.kept, salary |-> {None, "s2"}]

Cell(row) == [c \in Cells |-> row[c]]

\* Fetch imported the row; its embedding is on its way, perhaps not for the first
\* time (at-least-once delivery).
RecordInit ==
  /\ db \in [status : {"applied", "meeting"}, kept : {None}, salary : {None, "s1"},
             embedding : BOOLEAN]
  /\ sheet = Cell(db)
  /\ updateStream = <<>>
  /\ acked = {}
  /\ pos = 0
  /\ request = "owed"
  /\ pc = [t \in Tasks |-> "idle"]
  /\ dto = [t \in Tasks |-> Blank]
  /\ todo = [t \in Tasks |-> {}]
  /\ blind = [t \in Tasks |-> FALSE]
  /\ quiet = [t \in Tasks |-> TRUE]
  /\ requests = 0
  /\ cellEdits = 0
  /\ faults = 0

Fault == faults < MaxFaults /\ faults' = faults + 1

\* Whoever writes disturbs the tasks that are under way.
Undisturbed(writer) ==
  [t \in Tasks |->
     pc[t] = "idle" \/ (quiet[t] /\ (t = writer \/ UNCHANGED <<db, sheet>>))]

Disturb(writer) == quiet' = Undisturbed(writer)

Goto(t, label) == pc' = [pc EXCEPT ![t] = label]

------------------------------------------------------------------------------
(* The world outside the service. *)

\* A confirmed mail comes out of hire-event-processor.
PublishUpdate(status) ==
  /\ Len(updateStream) < MaxUpdates
  /\ updateStream' = Append(updateStream, status)
  /\ UNCHANGED <<db, sheet, acked, pos, request, pc, dto, todo, blind, quiet, bounds>>

\* a row with a mandatory cell emptied
Emptied(row) == [row EXCEPT !.status = None]

\* The user types into a cell of the row, perhaps emptying a mandatory one too.
EditCell(c, value) ==
  /\ cellEdits < MaxCellEdits
  /\ value # sheet[c]
  /\ \/ sheet' = [sheet EXCEPT ![c] = value]
     \/ sheet' = Emptied([sheet EXCEPT ![c] = value])
  /\ cellEdits' = cellEdits + 1
  /\ db' = db
  /\ Disturb("user")
  /\ UNCHANGED <<bus, pc, dto, todo, blind, requests, faults>>

------------------------------------------------------------------------------
(* Beginning a task. *)

Begin(t, label, row) ==
  /\ Cardinality({ u \in Tasks : pc[u] # "idle" }) < MaxTogether
  /\ Goto(t, label)
  /\ dto' = [dto EXCEPT ![t] = row]
  /\ UNCHANGED <<db, sheet, updateStream, acked, todo, blind, quiet, cellEdits, faults>>

Unacked == { i \in DOMAIN updateStream : i > pos /\ i \notin acked }

\* The bus offers the next update; the handler fills in what it does not carry.
ReceiveUpdate ==
  /\ pc["update"] = "idle"
  /\ Unacked # {}
  /\ pos' = Min(Unacked)
  /\ Begin("update", "save", [db EXCEPT !.status = updateStream[pos']])
  /\ UNCHANGED <<request, requests>>

\* The bus offers the embedding; AddEmbeddingByID reads the row.
ReceiveEmbedding ==
  /\ pc["embed"] = "idle"
  /\ request = "owed"
  /\ request' = "offered"
  /\ Begin("embed", "save", [db EXCEPT !.embedding = TRUE])
  /\ UNCHANGED <<pos, requests>>

\* "Apply internal": SyncFromDB reads the row.
SyncFromDB ==
  /\ pc["external"] = "idle"
  /\ Begin("external", "look", db)
  /\ UNCHANGED <<pos, request>>

\* GetApplicationFromRow leaves a row out whose mandatory cells are not all
\* filled, and then returns an empty DTO without an error.
Incomplete == sheet.status = None
RowRead == [c \in Cells |-> IF Incomplete THEN None ELSE sheet[c]]

\* "Apply Google Sheet": SyncFromSheet reads the sheet's row first.
SyncFromSheet ==
  /\ pc["internal"] = "idle"
  /\ Begin("internal", "find",
           [c \in DOMAIN db |-> IF c \in Cells THEN RowRead[c] ELSE FALSE])
  /\ UNCHANGED <<pos, request>>

\* CleanUpMeetingsInBatches reads a page with a meeting whose time has passed.
CleanUpMeetings ==
  /\ pc["cleanup"] = "idle"
  /\ db.status = "meeting"
  /\ Begin("cleanup", "save", [db EXCEPT !.status = "pending"])
  /\ UNCHANGED <<pos, request>>

------------------------------------------------------------------------------
(* The steps of a task. *)

\* FindByRowID: the clean-up's SyncFromDB takes the row, SyncFromSheet only the
\* embedding.
FindByRowID(t) ==
  /\ pc[t] = "find"
  /\ IF t = "internal"
     THEN /\ dto' = [dto EXCEPT ![t].embedding = db.embedding]
          /\ Goto(t, "save")
     ELSE /\ dto' = [dto EXCEPT ![t] = db]
          /\ Goto(t, "look")
  /\ UNCHANGED <<db, sheet, bus, todo, blind, quiet, bounds>>

AfterSave(t) ==
  CASE t = "update" -> "look" [] t = "cleanup" -> "find" [] OTHER -> "end"

\* Slip: an empty embedding is stored as NULL instead of being refused.
UpdatePossibleAlways(t) == dto[t].status # None

\* Update refuses the values of an empty DTO (IsValid), and writes "[]" for a
\* missing embedding, which pgvector refuses.
UpdatePossible(t) == dto[t].status # None /\ dto[t].embedding

\* Update: every column is taken from the DTO; a salary changes only if the row
\* has a salary linked, else it is inserted and linked to nothing.
Update(t) ==
  /\ t \in {"update", "internal"}
  /\ UpdatePossible(t)
  /\ db' = [dto[t] EXCEPT !.salary = IF None \in {@, db.salary} THEN db.salary ELSE @]

\* ApplicationRepository.Save: INSERT ... ON CONFLICT DO UPDATE of every column.
SaveRow(t) ==
  /\ t \in {"embed", "cleanup"}
  /\ db' = [dto[t] EXCEPT !.salary = db.salary]

Save(t) ==
  /\ pc[t] = "save"
  /\ Update(t) \/ SaveRow(t)
  /\ Goto(t, AfterSave(t))
  /\ sheet' = sheet
  /\ Disturb(t)
  /\ UNCHANGED <<bus, dto, todo, blind, bounds>>

\* Slip: the salary is taken for equal whenever both sides have one.
LookNoSalary(t) ==
  /\ pc[t] = "look"
  /\ todo' = [todo EXCEPT ![t] = { c \in Cells \ {"salary"} : dto[t][c] # RowRead[c] }]
  /\ blind' = [blind EXCEPT ![t] = Incomplete]
  /\ Goto(t, "write")
  /\ UNCHANGED <<db, sheet, bus, dto, quiet, bounds>>

\* GetApplicationFromRow: the cells that differ from what it returns are to be
\* written.  Of an incomplete row that is whatever the DTO holds, and a cell
\* the DTO has no value for is left as it is.
Look(t) ==
  /\ pc[t] = "look"
  /\ todo' = [todo EXCEPT ![t] = { c \in Cells : dto[t][c] # RowRead[c] }]
  /\ blind' = [blind EXCEPT ![t] = Incomplete]
  /\ Goto(t, "write")
  /\ UNCHANGED <<db, sheet, bus, dto, quiet, bounds>>

\* One cell: those of the errgroup in any order, the salary after all others.
Write(t, c) ==
  /\ pc[t] \in {"write", "broken"}
  /\ c \in todo[t]
  /\ c = "salary" => /\ pc[t] = "write"
                     /\ todo[t] = {c}
                     /\ dto[t][c] = None => sheet[c] = None
  /\ sheet' = [sheet EXCEPT ![c] = dto[t][c]]
  /\ todo' = [todo EXCEPT ![t] = @ \ {c}]
  /\ db' = db
  /\ Disturb(t)
  /\ UNCHANGED <<bus, pc, dto, blind, bounds>>

Finish(t) ==
  /\ pc[t] = "write"
  /\ todo[t] = {}
  /\ Goto(t, "end")
  /\ UNCHANGED <<db, sheet, bus, dto, todo, blind, quiet, bounds>>

Forget(t) ==
  /\ Goto(t, "idle")
  /\ dto' = [dto EXCEPT ![t] = Blank]
  /\ todo' = [todo EXCEPT ![t] = {}]
  /\ blind' = [blind EXCEPT ![t] = FALSE]

Leave(t) ==
  /\ Forget(t)
  /\ quiet' = [quiet EXCEPT ![t] = TRUE]

\* The handler returns nil: the bus acknowledges what it offered.
Return(t) ==
  /\ pc[t] = "end"
  /\ Leave(t)
  /\ acked' = IF t = "update" THEN acked \cup {pos} ELSE acked
  /\ request' = IF t = "embed" THEN "acked" ELSE request
  /\ UNCHANGED <<db, sheet, updateStream, pos, bounds>>

------------------------------------------------------------------------------
(* What goes wrong.  A handler that returns an error leaves its message      *)
(* pending: it comes back when the process starts again.                     *)

\* The values of an empty DTO are refused, and Postgres refuses "[]" for a vector.
SaveRefused(t) ==
  /\ pc[t] = "save"
  /\ t \in {"update", "internal"}
  /\ ~UpdatePossible(t)
  /\ Leave(t)
  /\ UNCHANGED <<db, sheet, bus, bounds>>

\* Postgres or Google answers with an error before anything is written, or a
\* cell of the row cannot be parsed.
CallFails(t) ==
  /\ pc[t] \in {"find", "save", "look"}
  /\ Fault
  /\ Leave(t)
  /\ UNCHANGED <<db, sheet, bus, requests, cellEdits>>

\* A cell cannot be written; other goroutines of the group may still write theirs.
WriteFails(t) ==
  /\ pc[t] = "write"
  /\ todo[t] # {}
  /\ Fault
  /\ Goto(t, "broken")
  /\ UNCHANGED <<db, sheet, bus, dto, todo, blind, quiet, requests, cellEdits>>

GiveUp(t) ==
  /\ pc[t] = "broken"
  /\ Leave(t)
  /\ UNCHANGED <<db, sheet, bus, bounds>>

\* The process ends, and docker starts it again.
Restart ==
  /\ pc' = [t \in Tasks |-> "idle"]
  /\ dto' = [t \in Tasks |-> Blank]
  /\ todo' = [t \in Tasks |-> {}]
  /\ blind' = [t \in Tasks |-> FALSE]
  /\ quiet' = [t \in Tasks |-> TRUE]
  /\ pos' = 0
  /\ request' = IF request = "offered" THEN "owed" ELSE request
  /\ UNCHANGED <<updateStream, acked>>

\* net/http recovers a panic of its own goroutine, nothing recovers one of a bus
\* handler, and errgroup passes one on to Wait or not, by its version.
Panic(t) ==
  \/ t # "external" /\ Restart
  \/ /\ t \in {"external", "cleanup"}
     /\ Forget(t)
     /\ quiet' = [Undisturbed(t) EXCEPT ![t] = TRUE]
     /\ UNCHANGED bus

\* Slip: the nil salary is dereferenced before its cell is cleared.
ClearSalaryNever(t) ==
  /\ pc[t] = "write"
  /\ todo[t] = {"salary"}
  /\ dto[t].salary = None
  /\ sheet.salary # None
  /\ UNCHANGED <<db, sheet, bounds>>
  /\ Panic(t)

\* SetSalaryApplied(nil) clears the cell of a salary it finds, and dereferences nil.
ClearSalary(t) ==
  /\ pc[t] = "write"
  /\ todo[t] = {"salary"}
  /\ dto[t].salary = None
  /\ sheet.salary # None
  /\ sheet' = [sheet EXCEPT !.salary = None]
  /\ db' = db
  /\ Panic(t)
  /\ UNCHANGED bounds

Crash ==
  /\ Fault
  /\ Restart
  /\ UNCHANGED <<db, sheet, requests, cellEdits>>

------------------------------------------------------------------------------
Receive(t) ==
  \/ t = "update" /\ ReceiveUpdate
  \/ t = "embed" /\ ReceiveEmbedding

Continue(t) ==
  \/ FindByRowID(t) \/ Save(t) \/ SaveRefused(t) \/ Look(t)
  \/ \E c \in Cells : Write(t, c)
  \/ ClearSalary(t) \/ Finish(t) \/ Return(t) \/ GiveUp(t)

Request(t) ==
  /\ requests < MaxRequests
  /\ requests' = requests + 1
  /\ \/ t = "external" /\ SyncFromDB
     \/ t = "internal" /\ SyncFromSheet
     \/ t = "cleanup" /\ CleanUpMeetings

World ==
  \/ "update" \in Tasks /\ \E status \in Confirmed : PublishUpdate(status)
  \/ \E c \in Cells : \E value \in Typed[c] : EditCell(c, value)
  \/ Crash

RecordNext ==
  \/ World
  \/ \E t \in Tasks :
       Receive(t) \/ Request(t) \/ Continue(t) \/ CallFails(t) \/ WriteFails(t)

\* A message is offered and a handler that was started runs on; nobody has to
\* press a button, and nothing has to fail.
Fairness == \A t \in Tasks : WF_recordVars(Receive(t)) /\ WF_recordVars(Continue(t))

RecordSpec == RecordInit /\ [][RecordNext]_recordVars /\ Fairness

------------------------------------------------------------------------------
Rows == [status : Values.status, kept : Values.kept, salary : Values.salary,
         embedding : BOOLEAN]

\* What a task may hold: a row, or what was read of an incomplete one.
Drafts == [status : Values.status \cup {None}, kept : Values.kept, salary : Values.salary,
           embedding : BOOLEAN]

RecordTypeOK ==
  /\ db \in Rows
  /\ sheet \in [status : Values.status \cup {None}, kept : Values.kept, salary : Values.salary]
  /\ updateStream \in Seq(RowStatuses)
  /\ acked \subseteq DOMAIN updateStream
  /\ pos \in 0 .. Len(updateStream)
  /\ request \in {"owed", "offered", "acked"}
  /\ pc \in [Tasks -> {"idle", "find", "save", "look", "write", "broken", "end"}]
  /\ dto \in [Tasks -> Drafts]
  /\ \A t \in Tasks \ {"internal"} : dto[t] \in Rows
  /\ todo \in [Tasks -> SUBSET Cells]
  /\ blind \in [Tasks -> BOOLEAN]
  /\ quiet \in [Tasks -> BOOLEAN]
  /\ requests \in 0 .. MaxRequests
  /\ cellEdits \in 0 .. MaxCellEdits
  /\ faults \in 0 .. MaxFaults

\* The sheet holds what the row holds.  A task that looked at an incomplete row
\* may have left a cell standing that the row has no value for.
FollowsDb(t) == \A c \in Cells : sheet[c] = db[c] \/ (blind[t] /\ db[c] = None)

\* A task that finishes, and that nobody disturbed, leaves the two sides in step,
\* whatever earlier failures left there: an update with the status it carries,
\* "Apply internal" and the clean-up by making the sheet follow the row, with
\* the exception of FollowsDb.  For "Apply Google Sheet", which refuses an
\* incomplete row, the salary is excepted: Update never links one to the row.
SyncsWhenAlone ==
  \A t \in Tasks : pc[t] = "end" /\ quiet[t] =>
    /\ t = "update" => FollowsDb(t) /\ db.status = updateStream[pos]
    /\ t \in {"external", "cleanup"} => FollowsDb(t)
    /\ t = "internal" =>
         /\ db.status = sheet.status /\ db.kept = sheet.kept
         /\ None \notin {db.salary, sheet.salary} => db.salary = sheet.salary

\* No interleaving takes a stored embedding away, except with the clean-up: it
\* saves rows of a page it has read before (Update refuses to write a row that
\* was read without its embedding).
EmbeddingKept ==
  [][db.embedding =>
       db'.embedding \/ ("cleanup" \in Tasks /\ Save("cleanup") /\ ~quiet["cleanup"])]_recordVars

\* Every published update is handled to an end, acknowledged or left pending for
\* the next start, also when a salary that was removed from the row stops the
\* process each time the update is offered.
Answered ==
  \A i \in 1 .. MaxUpdates :
    i \in DOMAIN updateStream ~> i \in acked \/ (i <= pos /\ pc["update"] = "idle")

==============================================================================
