----------------------------- MODULE PyConsumer ------------------------------
(***************************************************************************)
(* The Python bus client (app/bus/client.py, the same file in four         *)
(* services) under the consumer threads of mail-processor and mail-mapper  *)
(* (app/server.py).                                                        *)
(*                                                                         *)
(* It differs from the Go client where it can matter: entries wait in a    *)
(* buffer that outlives a resubscription, poll_once hands them out one at  *)
(* a time, and a thread that has used up its retries stops while its       *)
(* process, an HTTP server, stays up.                                      *)
(***************************************************************************)
EXTENDS RedisStream, Sequences, Functions

CONSTANTS Retries,  \* BusConfig.retries: attempts of one consumer thread
          MaxFaults \* bound of the model: faults that happen

ASSUME ConsumerAssumption ==
  /\ Retries \in Nat \ {0}
  /\ MaxFaults \in Nat

VARIABLES thread,   \* where the consumer thread is
          attempt,  \* _consumer_loop's attempt counter
          replaying,\* _read_id is not yet ">"
          readID,   \* the id the replay has reached
          buffer,   \* _buffer: entries fetched and not yet handed out
          hollow,   \* entries fetched without payload
          message,  \* the entry poll_once handed out, as a set of at most one
          tried,    \* history: entries this subscription has finished with
          handled,  \* history: entries some handler has served
          faults    \* faults so far

clientVars == <<attempt, replaying, readID, buffer, hollow, message, tried>>
vars == <<streamVars, thread, clientVars, handled, faults>>

Locations == {"down", "subscribe", "poll", "handle", "commit", "stopped"}

Init ==
  /\ StreamInit
  /\ thread = "down"
  /\ attempt = 1
  /\ replaying = TRUE
  /\ readID = 0
  /\ buffer = <<>>
  /\ hollow = {}
  /\ message = {}
  /\ tried = {}
  /\ handled = {}
  /\ faults = 0

Fault == faults < MaxFaults /\ faults' = faults + 1

Publish ==
  /\ XAdd
  /\ UNCHANGED <<thread, clientVars, handled, faults>>

\* A new process: a fresh BusClient and start_consumer_thread.
StartThread ==
  /\ thread = "down"
  /\ thread' = "subscribe"
  /\ attempt' = 1
  /\ replaying' = TRUE
  /\ readID' = 0
  /\ buffer' = <<>>
  /\ hollow' = {}
  /\ message' = {}
  /\ UNCHANGED <<streamVars, tried, handled, faults>>

\* Slip: a resubscription reads only new entries.
SubscribeNoReplay ==
  /\ thread = "subscribe"
  /\ XGroupCreate
  /\ thread' = "poll"
  /\ replaying' = FALSE
  /\ readID' = 0
  /\ tried' = {}
  /\ UNCHANGED <<attempt, buffer, hollow, message, handled, faults>>

\* subscribe resets _read_id; it leaves _buffer as it is.
Subscribe ==
  /\ thread = "subscribe"
  /\ XGroupCreate
  /\ thread' = "poll"
  /\ replaying' = TRUE
  /\ readID' = 0
  /\ tried' = {}
  /\ UNCHANGED <<attempt, buffer, hollow, message, handled, faults>>

\* Slip: the entry is acknowledged when it is handed out.
PollBufferedAcks ==
  /\ thread = "poll"
  /\ buffer # <<>>
  /\ XAck(Head(buffer))
  /\ message' = {Head(buffer)}
  /\ buffer' = Tail(buffer)
  /\ thread' = "handle"
  /\ UNCHANGED <<attempt, replaying, readID, hollow, tried, handled, faults>>

PollBuffered ==
  /\ thread = "poll"
  /\ buffer # <<>>
  /\ message' = {Head(buffer)}
  /\ buffer' = Tail(buffer)
  /\ thread' = "handle"
  /\ UNCHANGED <<streamVars, attempt, replaying, readID, hollow, tried, handled, faults>>

\* XREADGROUP returns the entries of a page in id order.
Reply(page) ==
  { s \in [1 .. Cardinality(page) -> page] :
      Range(s) = page /\ \A i, j \in DOMAIN s : i < j => s[i] < s[j] }

\* _buffer.extend
Extend(page) == \E reply \in Reply(page) : buffer' = buffer \o reply

\* Slip: one page of pending entries is taken for all of them.
FillPendingOnce ==
  /\ thread = "poll"
  /\ buffer = <<>>
  /\ replaying
  /\ \E page \in Pages(PendingAfter(readID)) :
       /\ page # {}
       /\ Extend(page)
       /\ hollow' = { id \in page : id < first }
  /\ replaying' = FALSE
  /\ UNCHANGED <<streamVars, thread, attempt, readID, message, tried, handled, faults>>

FillPending ==
  /\ thread = "poll"
  /\ buffer = <<>>
  /\ replaying
  /\ \E page \in Pages(PendingAfter(readID)) :
       /\ page # {}
       /\ \E id \in page : IsLast(id, page) /\ readID' = id
       /\ Extend(page)
       /\ hollow' = { id \in page : id < first }
  /\ UNCHANGED <<streamVars, thread, attempt, replaying, message, tried, handled, faults>>

\* The first pass of _fill_buffer finds nothing pending: the second pass, in
\* the same poll, reads ">".
ReplayDone ==
  /\ thread = "poll"
  /\ buffer = <<>>
  /\ replaying
  /\ PendingAfter(readID) = {}
  /\ replaying' = FALSE
  /\ UNCHANGED <<streamVars, thread, attempt, readID, buffer, hollow, message, tried, handled, faults>>

FillNew ==
  /\ thread = "poll"
  /\ buffer = <<>>
  /\ ~replaying
  /\ \E page \in Pages(Undelivered) : page # {} /\ Deliver(page) /\ Extend(page)
  /\ hollow' = {}
  /\ UNCHANGED <<thread, attempt, replaying, readID, message, tried, handled, faults>>

\* An exception leaves _consume_messages: the next attempt, or the thread
\* ends for good.
LoopCrashes ==
  /\ thread' = IF attempt = Retries THEN "stopped" ELSE "subscribe"
  /\ attempt' = IF attempt = Retries THEN attempt ELSE attempt + 1
  /\ UNCHANGED <<replaying, readID, buffer, hollow, message, tried, handled>>

CommandFails ==
  /\ Fault
  /\ thread = "subscribe" \/ (thread = "poll" /\ buffer = <<>>)
  /\ LoopCrashes
  /\ UNCHANGED streamVars

\* XREADGROUP ">" is executed and its reply is lost with the connection.
ReplyLost ==
  /\ Fault
  /\ thread = "poll"
  /\ buffer = <<>>
  /\ ~replaying
  /\ \E page \in Pages(Undelivered) : page # {} /\ Deliver(page)
  /\ LoopCrashes

Finish ==
  /\ thread' = "poll"
  /\ tried' = tried \cup message
  /\ hollow' = hollow \ message
  /\ message' = {}
  /\ UNCHANGED <<attempt, replaying, readID, buffer>>

\* The handler returns.  Without a payload it has served nothing, even where
\* the loop commits the entry (mail-mapper logs "payload is not a dict").
HandlerOK ==
  /\ thread = "handle"
  /\ handled' = handled \cup (message \ hollow)
  /\ thread' = "commit"
  /\ UNCHANGED <<streamVars, clientVars, faults>>

\* Slip: the exception is not caught inside the loop.
HandlerFailsEscapes ==
  /\ Fault
  /\ thread = "handle"
  /\ LoopCrashes
  /\ UNCHANGED streamVars

\* The handler raises: the loop continues without a commit.
HandlerFails ==
  /\ Fault
  /\ thread = "handle"
  /\ Finish
  /\ UNCHANGED <<streamVars, handled>>

Commit ==
  /\ thread = "commit"
  /\ \E id \in message : XAck(id)
  /\ Finish
  /\ UNCHANGED <<handled, faults>>

\* commit swallows a failing XACK.
CommitFails ==
  /\ Fault
  /\ thread = "commit"
  /\ Finish
  /\ UNCHANGED <<streamVars, handled>>

\* The process dies or is restarted, whatever its consumer thread is doing.
Crash ==
  /\ Fault
  /\ thread # "down"
  /\ thread' = "down"
  /\ UNCHANGED <<streamVars, clientVars, handled>>

\* poll_once returns None after its timeout.
Idle ==
  /\ thread = "poll"
  /\ buffer = <<>>
  /\ ~replaying
  /\ Undelivered = {}
  /\ UNCHANGED vars

\* The thread has stopped and only the HTTP server is left running.
Stopped == thread = "stopped" /\ UNCHANGED vars

Progress ==
  \/ StartThread \/ Subscribe
  \/ PollBuffered \/ FillPending \/ ReplayDone \/ FillNew
  \/ HandlerOK \/ Commit

Next ==
  \/ Publish
  \/ Progress \/ Idle \/ Stopped
  \/ CommandFails \/ ReplyLost \/ HandlerFails \/ CommitFails \/ Crash

\* The thread keeps running, and docker restarts a process that has exited.
Fairness == WF_vars(Progress)

Spec == Init /\ [][Next]_vars /\ Fairness

------------------------------------------------------------------------------
\* Entries fetched and not finished with.
InHand == Range(buffer) \cup message

TypeOK ==
  /\ StreamTypeOK
  /\ thread \in Locations
  /\ attempt \in 1 .. Retries
  /\ replaying \in BOOLEAN
  /\ readID \in 0 .. cursor
  /\ buffer \in Seq(pel)
  /\ hollow \in SUBSET InHand
  /\ message \in SUBSET pel
  /\ tried \in SUBSET (1 .. cursor)
  /\ handled \in SUBSET (1 .. cursor)
  /\ faults \in 0 .. MaxFaults

\* One subscription hands out entries in increasing id order, none twice,
\* although a resubscription replays from 0 without clearing _buffer
\* (subscribe, poll_once).
InOrderPerRun ==
  /\ \A i, j \in DOMAIN buffer : i < j => buffer[i] < buffer[j]
  /\ \A m \in message : /\ \A n \in message : m = n
                        /\ \A e \in Range(buffer) : m < e
  /\ thread \in {"poll", "handle", "commit"} =>
       \A t \in tried, e \in InHand : t < e

\* New entries are read only after the whole pending list has been handed out
\* again in this subscription (the paging of _fill_buffer).
ReplayComplete ==
  (thread \in {"poll", "handle", "commit"} /\ ~replaying) => pel \subseteq tried \cup InHand

\* Once the faults are over, every entry still in the stream has been served,
\* or offered in the current run and refused.
EventuallyServed ==
  \A id \in 1 .. MaxEntries :
    <>[](first <= id /\ origin < id /\ id <= last => id \in handled \cup tried)

\* The consumer owes that only while its thread lives: unless the retries of
\* _consumer_loop run out, everything is served or refused.
ServedUnlessStopped == (<>[](thread = "stopped")) \/ EventuallyServed

\* The consumer implements at-least-once delivery.
Promise == INSTANCE AtLeastOnce WITH
  subscribed <- group \/ StartAtOldest,
  newest <- last,
  todo <- IF group THEN pel \cup Undelivered
          ELSE IF StartAtOldest THEN first .. last ELSE {},
  done <- handled

ImplementsAtLeastOnce == Promise!Spec

==============================================================================
