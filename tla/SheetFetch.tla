------------------------------ MODULE SheetFetch ------------------------------
(***************************************************************************)
(* google-sheets-accessor's import (POST /api/application/fetch,           *)
(* ApplicationService.Fetch): read the sheet below the greatest row already*)
(* in the database, store the rows one transaction each in the order a Go  *)
(* map gives them, and publish an embedding request per stored row from a  *)
(* goroutine of an errgroup.                                               *)
(*                                                                         *)
(* Calls overlap (jobs-master calls every 15 minutes and gives up waiting  *)
(* after 30 seconds), the user edits the sheet meanwhile, and a row number *)
(* at or below the greatest stored one is never read again.                *)
(***************************************************************************)
EXTENDS Naturals, FiniteSets, FiniteSetsExt

CONSTANTS LastRow,  \* sheets.LastRow, counted from the first allowed row
          Calls,    \* requests that may be in progress at the same time
          MaxFaults \* bound of the model: faults that happen

ASSUME FetchAssumption ==
  /\ LastRow \in Nat \ {0}
  /\ IsFiniteSet(Calls)
  /\ MaxFaults \in Nat

VARIABLES sheet,     \* what each row of the sheet holds
          db,        \* row_id of the stored applications
          pc,        \* where each call is
          from,      \* the row a call reads from
          todo,      \* rows a call has read and not yet stored
          spawned,   \* stored rows whose goroutine has yet to publish
          ctx,       \* "live", "group" (gctx cancelled) or "request" cancelled
          requested, \* history: rows whose embedding request was published
          skipped,   \* history: rows that were blank when a call read past them
          dropped,   \* history: rows a failing call had read and did not store
          unsent,    \* history: rows whose embedding request failed
          faults     \* faults so far

call == <<pc, from, todo, spawned, ctx>>
history == <<requested, skipped, dropped, unsent>>
vars == <<sheet, db, call, history, faults>>

Rows == 1 .. LastRow

\* "partial": a mandatory cell is empty.  "garbled": the mandatory cells are
\* filled, and a date, a salary or the stage cannot be parsed.
Contents == {"blank", "partial", "garbled", "complete"}
NoRow == 0

Init ==
  /\ sheet = [r \in Rows |-> "blank"]
  /\ db = {}
  /\ pc = [c \in Calls |-> "idle"]
  /\ from = [c \in Calls |-> 1]
  /\ todo = [c \in Calls |-> {}]
  /\ spawned = [c \in Calls |-> {}]
  /\ ctx = [c \in Calls |-> "live"]
  /\ requested = {}
  /\ skipped = {}
  /\ dropped = {}
  /\ unsent = {}
  /\ faults = 0

Fault == faults < MaxFaults /\ faults' = faults + 1

\* The user types into a row until its mandatory cells are filled and every
\* cell can be parsed.
Edit(r) ==
  /\ \/ sheet[r] = "blank" /\ sheet' = [sheet EXCEPT ![r] = "partial"]
     \/ sheet[r] \in {"blank", "partial"} /\ sheet' = [sheet EXCEPT ![r] = "garbled"]
     \/ sheet[r] # "complete" /\ sheet' = [sheet EXCEPT ![r] = "complete"]
  /\ UNCHANGED <<db, call, history, faults>>

\* Slip: the number is incremented twice, by GetMaxRowID and by Fetch.
GetMaxRowIDTwice(c) ==
  /\ pc[c] = "idle"
  /\ spawned[c] = {}
  /\ from' = [from EXCEPT ![c] = Max(db \cup {NoRow}) + 2]
  /\ ctx' = [ctx EXCEPT ![c] = "live"]
  /\ pc' = [pc EXCEPT ![c] = "read"]
  /\ UNCHANGED <<sheet, db, todo, spawned, history, faults>>

\* GetMaxRowID and the increment.
GetMaxRowID(c) ==
  /\ pc[c] = "idle"
  /\ spawned[c] = {}
  /\ from' = [from EXCEPT ![c] = Max(db \cup {NoRow}) + 1]
  /\ ctx' = [ctx EXCEPT ![c] = "live"]
  /\ pc' = [pc EXCEPT ![c] = "read"]
  /\ UNCHANGED <<sheet, db, todo, spawned, history, faults>>

(***************************************************************************)
(* GetApplicationsFromRows: the API returns the rows up to the last one    *)
(* that is not blank.  A partial row is left for later when it is that     *)
(* last one, and fails the whole read when it is not; a row with a cell    *)
(* that cannot be parsed fails it wherever it is.                          *)
(***************************************************************************)
InRange(c) == { r \in Rows : from[c] <= r }
Used(c) == { r \in InRange(c) : sheet[r] # "blank" }

\* Slip: a partial row anywhere is left out, and the rest is read.
IncompleteNever(c) == {}

Incomplete(c) == { r \in Used(c) : sheet[r] = "partial" /\ r # Max(Used(c)) }

Unparsable(c) == { r \in Used(c) : sheet[r] = "garbled" }

\* Slip: mandatory cells are not looked at.
ReadableAll(c) == Used(c)

Readable(c) == { r \in Used(c) : sheet[r] = "complete" }

ReadRows(c) ==
  /\ pc[c] = "read"
  /\ ctx[c] # "request"
  /\ IF Incomplete(c) \cup Unparsable(c) # {} \/ Readable(c) = {}
     THEN /\ pc' = [pc EXCEPT ![c] = "idle"]
          /\ UNCHANGED <<todo, skipped>>
     ELSE /\ pc' = [pc EXCEPT ![c] = "save"]
          /\ todo' = [todo EXCEPT ![c] = Readable(c)]
          /\ skipped' = skipped \cup
               { r \in InRange(c) : sheet[r] = "blank" /\ r < Max(Readable(c)) }
  /\ UNCHANGED <<sheet, db, from, spawned, ctx, requested, dropped, unsent, faults>>

\* The read fails: Google answers with an error, or the caller has gone.
ReadFails(c) ==
  /\ pc[c] = "read"
  /\ \/ ctx[c] = "request" /\ UNCHANGED faults
     \/ Fault
  /\ pc' = [pc EXCEPT ![c] = "idle"]
  /\ UNCHANGED <<sheet, db, from, todo, spawned, ctx, history>>

(***************************************************************************)
(* mapSheetApplicationToModelAndSave: one transaction per row, rows in map *)
(* order; each stored row starts a goroutine.                              *)
(***************************************************************************)

SaveRow(c, r) ==
  /\ pc[c] = "save"
  /\ r \in todo[c] \ db
  /\ ctx[c] # "request"
  /\ db' = db \cup {r}
  /\ todo' = [todo EXCEPT ![c] = @ \ {r}]
  /\ spawned' = [spawned EXCEPT ![c] = @ \cup {r}]
  /\ pc' = [pc EXCEPT ![c] = IF todo'[c] = {} THEN "wait" ELSE "save"]
  /\ UNCHANGED <<sheet, from, ctx, history, faults>>

\* Slip: the goroutine is started before the transaction is known to succeed.
SaveFailsSpawned(c, r) ==
  /\ pc[c] = "save"
  /\ r \in todo[c]
  /\ Fault
  /\ dropped' = dropped \cup (todo[c] \ db)
  /\ todo' = [todo EXCEPT ![c] = {}]
  /\ spawned' = [spawned EXCEPT ![c] = @ \cup {r}]
  /\ ctx' = [ctx EXCEPT ![c] = "request"]
  /\ pc' = [pc EXCEPT ![c] = "idle"]
  /\ UNCHANGED <<sheet, db, from, requested, skipped, unsent>>

\* The transaction fails: the row is already there (UNIQUE row_id), the caller
\* has gone, or the database refuses.  The call returns at once, without
\* waiting for its goroutines, and the server cancels the request's context.
SaveFails(c, r) ==
  /\ pc[c] = "save"
  /\ r \in todo[c]
  /\ \/ (r \in db \/ ctx[c] = "request") /\ UNCHANGED faults
     \/ Fault
  /\ dropped' = dropped \cup (todo[c] \ db)
  /\ todo' = [todo EXCEPT ![c] = {}]
  /\ ctx' = [ctx EXCEPT ![c] = "request"]
  /\ pc' = [pc EXCEPT ![c] = "idle"]
  /\ UNCHANGED <<sheet, db, from, spawned, requested, skipped, unsent>>

\* A goroutine publishes the embedding request of its row.
PublishRequest(c, r) ==
  /\ r \in spawned[c]
  /\ requested' = requested \cup {r}
  /\ spawned' = [spawned EXCEPT ![c] = @ \ {r}]
  /\ UNCHANGED <<sheet, db, pc, from, todo, ctx, skipped, dropped, unsent, faults>>

\* XADD fails, or the context the goroutine uses is cancelled.  The first
\* failure cancels gctx for the goroutines that have not published yet.
PublishFails(c, r) ==
  /\ r \in spawned[c]
  /\ \/ ctx[c] # "live" /\ UNCHANGED faults
     \/ Fault
  /\ unsent' = unsent \cup {r}
  /\ spawned' = [spawned EXCEPT ![c] = @ \ {r}]
  /\ ctx' = [ctx EXCEPT ![c] = IF @ = "live" THEN "group" ELSE @]
  /\ UNCHANGED <<sheet, db, pc, from, todo, requested, skipped, dropped>>

\* g.Wait returns when every goroutine has ended.
Return(c) ==
  /\ pc[c] = "wait"
  /\ spawned[c] = {}
  /\ pc' = [pc EXCEPT ![c] = "idle"]
  /\ UNCHANGED <<sheet, db, from, todo, spawned, ctx, history, faults>>

\* jobs-master's client gives up and closes the connection.
CallerGone(c) ==
  /\ Fault
  /\ pc[c] \in {"read", "save", "wait"}
  /\ ctx[c] # "request"
  /\ ctx' = [ctx EXCEPT ![c] = "request"]
  /\ UNCHANGED <<sheet, db, pc, from, todo, spawned, history>>

Crash ==
  /\ Fault
  /\ pc' = [c \in Calls |-> "idle"]
  /\ todo' = [c \in Calls |-> {}]
  /\ spawned' = [c \in Calls |-> {}]
  /\ dropped' = dropped \cup ((UNION { todo[c] : c \in Calls }) \ db)
  /\ unsent' = unsent \cup UNION { spawned[c] : c \in Calls }
  /\ UNCHANGED <<sheet, db, from, ctx, requested, skipped>>

Step(c) ==
  \/ GetMaxRowID(c) \/ ReadRows(c) \/ Return(c)
  \/ \E r \in Rows : SaveRow(c, r) \/ PublishRequest(c, r)

Next ==
  \/ \E r \in Rows : Edit(r)
  \/ \E c \in Calls : Step(c) \/ ReadFails(c) \/ CallerGone(c)
  \/ \E c \in Calls, r \in Rows : SaveFails(c, r) \/ PublishFails(c, r)
  \/ Crash

\* jobs-master calls for ever, and each call runs to its end.  The user need
\* not type, and faults need not come.
Fairness ==
  \A c \in Calls : WF_vars(Step(c) \/ ReadFails(c) \/ \E r \in Rows : SaveFails(c, r))

Spec == Init /\ [][Next]_vars /\ Fairness

------------------------------------------------------------------------------
TypeOK ==
  /\ sheet \in [Rows -> Contents]
  /\ db \in SUBSET Rows
  /\ pc \in [Calls -> {"idle", "read", "save", "wait"}]
  /\ from \in [Calls -> 1 .. LastRow + 1]
  /\ todo \in [Calls -> SUBSET Rows]
  /\ spawned \in [Calls -> SUBSET Rows]
  /\ ctx \in [Calls -> {"live", "group", "request"}]
  /\ \A rows \in {requested, skipped, dropped, unsent} : rows \subseteq Rows
  /\ faults \in 0 .. MaxFaults
  /\ \A c \in Calls : pc[c] = "save" <=> todo[c] # {}

InProgress == UNION { todo[c] : c \in Calls }

\* A row below the greatest stored one, where no later call looks, is missing
\* only because it was blank when a call read past it, because a call stored a
\* greater row and then failed (map order), or because a call still has it to
\* store (Fetch, GetMaxRowID).
LeftBehindOnlyIf ==
  \A r \in Rows :
    (r \notin db /\ \E stored \in db : r < stored) =>
      r \in skipped \cup dropped \cup InProgress

\* A row is imported only once its mandatory cells are filled, however calls
\* and typing interleave (isAnyMandatoryFieldInvalid, the last-row rule).
ImportedWhole == \A r \in db \cup InProgress : sheet[r] = "complete"

\* An embedding is requested only for a committed row, so its id exists; and a
\* committed row without a request has a goroutine, or has lost its request.
RequestsFollowCommits ==
  /\ requested \subseteq db
  /\ db \subseteq requested \cup unsent \cup UNION { spawned[c] : c \in Calls }

\* When nobody is typing any more, and the sheet is left with no half-filled
\* row and no cell that cannot be parsed (one such row may fail every call),
\* every completed row is stored, except for those skipped as blank or dropped
\* by a failing call.
EventuallyStored ==
  \A r \in Rows :
    <>[](sheet[r] = "complete" /\ \A q \in Rows : sheet[q] \notin {"partial", "garbled"}) =>
      <>(r \in db \cup skipped \cup dropped)

==============================================================================
