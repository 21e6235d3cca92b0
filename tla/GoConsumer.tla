----------------------------- MODULE GoConsumer ------------------------------
(***************************************************************************)
(* The Go bus client (internal/app/bus/client.go, the same file in five    *)
(* services) inside BusServer.Run and a process docker restarts.           *)
(*                                                                         *)
(* One run of Client.Consume pages through the entries this consumer left  *)
(* unacknowledged, then reads new ones; a handler that fails leaves its    *)
(* entry pending.  Handler errors, failed reads and acks, lost replies and *)
(* crashes are faults; the model bounds how many happen.                   *)
(***************************************************************************)
EXTENDS RedisStream

CONSTANTS MaxConsumeRetries, \* Consume attempts of one process
          MaxFaults          \* bound of the model: faults that happen

ASSUME ConsumerAssumption ==
  /\ MaxConsumeRetries \in Nat \ {0}
  /\ MaxFaults \in Nat

VARIABLES pc,       \* where the consuming goroutine is
          attempt,  \* BusServer.Run's attempt counter
          replaying,\* readID is not yet ">"
          readID,   \* the id the replay has reached
          batch,    \* entries read and not yet finished with, in id order
          hollow,   \* entries of the batch that came back without payload
          tried,    \* history: entries this run of Consume has finished with
          unseen,   \* history: entries of pages the library read twice in this run
          handled,  \* history: entries some handler has served
          faults    \* faults so far

clientVars == <<attempt, replaying, readID, batch, hollow, tried, unseen>>
vars == <<streamVars, pc, clientVars, handled, faults>>

Locations == {"down", "ensure", "read", "handle", "ack"}

Init ==
  /\ StreamInit
  /\ pc = "down"
  /\ attempt = 1
  /\ replaying = TRUE
  /\ readID = 0
  /\ batch = {}
  /\ hollow = {}
  /\ tried = {}
  /\ unseen = {}
  /\ handled = {}
  /\ faults = 0

Fault == faults < MaxFaults /\ faults' = faults + 1

\* Any service may publish at any time, whether or not this one is up.
Publish ==
  /\ XAdd
  /\ UNCHANGED <<pc, clientVars, handled, faults>>

StartProcess ==
  /\ pc = "down"
  /\ pc' = "ensure"
  /\ attempt' = 1
  /\ UNCHANGED <<streamVars, replaying, readID, batch, hollow, tried, unseen, handled, faults>>


\* The start of Consume: the group exists, and the run replays from id 0.
EnsureGroup ==
  /\ pc = "ensure"
  /\ XGroupCreate
  /\ pc' = "read"
  /\ replaying' = TRUE
  /\ readID' = 0
  /\ batch' = {}
  /\ hollow' = {}
  /\ tried' = {}
  /\ unseen' = {}
  /\ UNCHANGED <<attempt, handled, faults>>

\* Slip: readID is not moved past the page.
ReadPendingStuck ==
  /\ pc = "read"
  /\ replaying
  /\ \E page \in Pages(PendingAfter(readID)) :
       /\ page # {}
       /\ batch' = page
       /\ hollow' = { id \in page : id < first }
  /\ pc' = "handle"
  /\ UNCHANGED <<streamVars, attempt, replaying, readID, tried, unseen, handled, faults>>

\* XREADGROUP from readID: pending entries above it.  An entry that has been
\* trimmed meanwhile is still listed, without its fields.
ReadPending ==
  /\ pc = "read"
  /\ replaying
  /\ \E page \in Pages(PendingAfter(readID)) :
       /\ page # {}
       /\ \E id \in page : IsLast(id, page) /\ readID' = id
       /\ batch' = page
       /\ hollow' = { id \in page : id < first }
  /\ pc' = "handle"
  /\ UNCHANGED <<streamVars, attempt, replaying, tried, unseen, handled, faults>>

\* Slip: a page that is not full ends the replay before it is handled.
ReplayDoneOnShortPage ==
  /\ pc = "read"
  /\ replaying
  /\ Cardinality(PendingAfter(readID)) < BatchCount
  /\ replaying' = FALSE
  /\ UNCHANGED <<streamVars, pc, attempt, readID, batch, hollow, tried, unseen, handled, faults>>

\* An empty page of the pending list ends the replay: readID becomes ">".
ReplayDone ==
  /\ pc = "read"
  /\ replaying
  /\ PendingAfter(readID) = {}
  /\ replaying' = FALSE
  /\ UNCHANGED <<streamVars, pc, attempt, readID, batch, hollow, tried, unseen, handled, faults>>

ReadNew ==
  /\ pc = "read"
  /\ ~replaying
  /\ \E page \in Pages(Undelivered) :
       /\ page # {}
       /\ Deliver(page)
       /\ batch' = page
  /\ hollow' = {}
  /\ pc' = "handle"
  /\ UNCHANGED <<attempt, replaying, readID, tried, unseen, handled, faults>>

\* Slip: the attempts are counted one too far.
ConsumeFailsLate ==
  /\ pc' = IF attempt > MaxConsumeRetries THEN "down" ELSE "ensure"
  /\ attempt' = IF attempt > MaxConsumeRetries THEN attempt ELSE attempt + 1
  /\ UNCHANGED <<replaying, readID, batch, hollow, tried, unseen, handled>>

\* Consume returns an error: the next attempt, or the process exits.
ConsumeFails ==
  /\ pc' = IF attempt = MaxConsumeRetries THEN "down" ELSE "ensure"
  /\ attempt' = IF attempt = MaxConsumeRetries THEN attempt ELSE attempt + 1
  /\ UNCHANGED <<replaying, readID, batch, hollow, tried, unseen, handled>>

\* XGROUP CREATE or XREADGROUP fails and Redis has done nothing.
CommandFails ==
  /\ Fault
  /\ pc \in {"ensure", "read"}
  /\ ConsumeFails
  /\ UNCHANGED streamVars

\* XREADGROUP ">" is executed and no reply comes in time, or its reply is lost
\* with the connection and the library has used up its retries.
ReplyLost ==
  /\ Fault
  /\ pc = "read"
  /\ ~replaying
  /\ \E page \in Pages(Undelivered) : page # {} /\ Deliver(page)
  /\ ConsumeFails

\* XREADGROUP ">" is executed, its reply is lost with the connection, and the
\* library (redis.NewClient with its default MaxRetries) sends the command
\* again: the answer will be the next page, and Consume does not notice.  How
\* often it tries is left to MaxFaults.  The same loss during the replay, or
\* of XGROUP CREATE or XACK, changes nothing: the command repeats itself.
ReadResent ==
  /\ Fault
  /\ pc = "read"
  /\ ~replaying
  /\ \E page \in Pages(Undelivered) :
       /\ page # {}
       /\ Deliver(page)
       /\ unseen' = unseen \cup page
  /\ UNCHANGED <<pc, attempt, replaying, readID, batch, hollow, tried, handled>>

IsCurrent(id) == id \in batch /\ \A e \in batch : id <= e

\* handleBatch is done with an entry and goes on to the next one, if any.
Finish(id) ==
  /\ batch' = batch \ {id}
  /\ hollow' = hollow \ {id}
  /\ tried' = tried \cup {id}
  /\ pc' = IF batch' = {} THEN "read" ELSE "handle"
  /\ UNCHANGED <<attempt, replaying, readID, unseen>>

\* The handler returns nil.  Given no payload it has served nothing, whatever
\* it returns (the embedding generator drops such an entry with nil).
HandlerOK ==
  /\ pc = "handle"
  /\ \E id \in batch :
       /\ IsCurrent(id)
       /\ handled' = IF id \in hollow THEN handled ELSE handled \cup {id}
  /\ pc' = "ack"
  /\ UNCHANGED <<streamVars, clientVars, faults>>

\* Slip: the entry is acknowledged although the handler failed.
HandlerFailsAcked ==
  /\ Fault
  /\ pc = "handle"
  /\ \E id \in batch : IsCurrent(id) /\ XAck(id) /\ Finish(id)
  /\ UNCHANGED handled

\* The handler returns an error: the entry is left unacknowledged.
HandlerFails ==
  /\ Fault
  /\ pc = "handle"
  /\ \E id \in batch : IsCurrent(id) /\ Finish(id)
  /\ UNCHANGED <<streamVars, handled>>

Ack ==
  /\ pc = "ack"
  /\ \E id \in batch : IsCurrent(id) /\ XAck(id) /\ Finish(id)
  /\ UNCHANGED <<handled, faults>>

\* A failing XACK is logged, and the loop goes on.
AckFails ==
  /\ Fault
  /\ pc = "ack"
  /\ \E id \in batch : IsCurrent(id) /\ Finish(id)
  /\ UNCHANGED <<streamVars, handled>>

\* The process dies or is stopped, wherever it is.
Crash ==
  /\ Fault
  /\ pc # "down"
  /\ pc' = "down"
  /\ UNCHANGED <<streamVars, clientVars, handled>>

\* The blocking read times out (redis.Nil) with nothing new.
Idle ==
  /\ pc = "read"
  /\ ~replaying
  /\ Undelivered = {}
  /\ UNCHANGED vars

Progress ==
  \/ StartProcess \/ EnsureGroup
  \/ ReadPending \/ ReplayDone \/ ReadNew
  \/ HandlerOK \/ Ack

Next ==
  \/ Publish
  \/ Progress \/ Idle
  \/ CommandFails \/ ReplyLost \/ ReadResent \/ HandlerFails \/ AckFails \/ Crash

\* The goroutine keeps running, and docker restarts the process when it exits
\* (restart: unless-stopped).  Nobody has to publish, and faults need not come.
Fairness == WF_vars(Progress)

Spec == Init /\ [][Next]_vars /\ Fairness

------------------------------------------------------------------------------
TypeOK ==
  /\ StreamTypeOK
  /\ pc \in Locations
  /\ attempt \in 1 .. MaxConsumeRetries
  /\ replaying \in BOOLEAN
  /\ readID \in 0 .. cursor
  /\ batch \in SUBSET pel
  /\ hollow \in SUBSET batch
  /\ tried \in SUBSET (1 .. cursor)
  /\ unseen \in SUBSET (1 .. cursor)
  /\ handled \in SUBSET (1 .. cursor)
  /\ faults \in 0 .. MaxFaults
  /\ pc \in {"handle", "ack"} => batch # {}

\* Nothing is acknowledged unserved: an entry published after the group's
\* start has been served, is still owed (pending or not yet delivered), or
\* has been pushed out of the stream by MAXLEN (Publish, handleBatch).
NothingLost ==
  \A id \in origin + 1 .. last :
    id \in handled \/ id \in pel \/ id > cursor \/ id < first

\* One run of Consume offers entries to its handler in increasing id order,
\* hence none twice: a failing handler is not called in a tight loop, and a
\* replayed entry does not come back through ">" (the comment in Consume).
InOrderPerRun ==
  \A t \in tried, b \in batch : t < b

\* New entries are read only after every entry of the pending list has been
\* offered again in this run: paging by the last seen id skips none.  What the
\* library itself has read in vain since, and only that, is pending unoffered.
ReplayComplete ==
  (pc \in {"read", "handle", "ack"} /\ ~replaying) => pel \subseteq tried \cup batch \cup unseen

\* "A handler that returns an error leaves the entry pending, so it is retried
\* after a restart" (docs/ARCH.md): what the replay offers still has its
\* payload.
ReplayedIntact == hollow = {}


\* The conjuncts that make the invariants above inductive: where the replay
\* stands, what an entry about to be acknowledged has had, what trimming leaves.
ReplayPosition ==
  /\ pc \in {"read", "handle", "ack"} => group
  /\ pc = "read" => batch = {}
  /\ (pc \in {"read", "handle", "ack"} /\ replaying) =>
       /\ unseen = {}
       /\ \A id \in tried \cup batch : id <= readID
       /\ \A id \in pel : id <= readID => id \in tried \cup batch

AckDue ==
  /\ \A id \in hollow : id < first
  /\ pc = "ack" => \A id \in batch : IsCurrent(id) => id \in handled \cup hollow

Retention ==
  /\ first = 1 \/ first + MaxLen <= last + 1
  /\ ~group => cursor = 0

IInv ==
  /\ TypeOK
  /\ NothingLost
  /\ InOrderPerRun
  /\ ReplayComplete
  /\ ReplayPosition
  /\ AckDue
  /\ Retention

\* The consumer implements at-least-once delivery.
Promise == INSTANCE AtLeastOnce WITH
  subscribed <- group \/ StartAtOldest,
  newest <- last,
  todo <- IF group THEN pel \cup Undelivered
          ELSE IF StartAtOldest THEN first .. last ELSE {},
  done <- handled

ImplementsAtLeastOnce == Promise!Spec

==============================================================================
