----------------------------- MODULE RedisStream -----------------------------
(***************************************************************************)
(* One Redis stream with one consumer group of one consumer, as the bus    *)
(* clients of HI-A use it: XADD with MAXLEN ~, XGROUP CREATE .. MKSTREAM,  *)
(* XREADGROUP from an id or from ">", and XACK.  Redis itself is not part  *)
(* of the repository; what is written here is what the callers rely on.    *)
(*                                                                         *)
(* Entries are numbered in the order XADD accepted them, so an entry id is *)
(* a natural number and the stream holds first..last.                      *)
(***************************************************************************)
EXTENDS Naturals, FiniteSets

CONSTANTS MaxLen,        \* STREAM_MAX_LEN: XADD keeps at least this many entries
          BatchCount,    \* COUNT of one XREADGROUP
          StartAtOldest, \* STREAM_START_AT_OLDEST of the consuming service
          MaxEntries     \* bound of the model: entries ever published

ASSUME StreamAssumption ==
  /\ MaxLen \in Nat \ {0}
  /\ BatchCount \in Nat \ {0}
  /\ StartAtOldest \in BOOLEAN
  /\ MaxEntries \in Nat

VARIABLES first,   \* the oldest entry MAXLEN has left; older ids are trimmed
          last,    \* the newest entry
          group,   \* the consumer group exists
          origin,  \* the id the group was created at
          cursor,  \* the group's last-delivered-id
          pel      \* the group's pending entries list: delivered, not XACKed

streamVars == <<first, last, group, origin, cursor, pel>>

StreamInit ==
  /\ first = 1
  /\ last = 0
  /\ group = FALSE
  /\ origin = 0
  /\ cursor = 0
  /\ pel = {}

\* XADD topic MAXLEN ~ MaxLen: the approximate form trims a prefix of any
\* length, but never below MaxLen entries.
XAdd ==
  /\ last < MaxEntries
  /\ last' = last + 1
  /\ \E f \in first .. last + 1 :
       /\ f = first \/ f + MaxLen <= last + 2
       /\ first' = f
  /\ UNCHANGED <<group, origin, cursor, pel>>

\* Slip: "0" and "$" swapped in ensureGroup.
XGroupCreateSwapped ==
  \/ /\ group
     /\ UNCHANGED streamVars
  \/ /\ ~group
     /\ group' = TRUE
     /\ origin' = IF StartAtOldest THEN last ELSE 0
     /\ cursor' = origin'
     /\ UNCHANGED <<first, last, pel>>

\* XGROUP CREATE topic group start MKSTREAM; BUSYGROUP is not an error.
XGroupCreate ==
  \/ /\ group
     /\ UNCHANGED streamVars
  \/ /\ ~group
     /\ group' = TRUE
     /\ origin' = IF StartAtOldest THEN 0 ELSE last
     /\ cursor' = origin'
     /\ UNCHANGED <<first, last, pel>>

\* The pages COUNT allows of a set of ids: its least BatchCount ids, or all.
Pages(ids) ==
  { page \in SUBSET ids :
      /\ Cardinality(page) <= BatchCount
      /\ page = ids \/ Cardinality(page) = BatchCount
      /\ \A p \in page, q \in ids \ page : p < q }

Undelivered == { id \in first .. last : id > cursor }

PendingAfter(id) == { e \in pel : e > id }

IsLast(id, page) == id \in page /\ \A e \in page : e <= id

\* XREADGROUP with ">" delivers a page: it moves the group's cursor and puts
\* every entry of the page on the pending list.
Deliver(page) ==
  /\ \E id \in page : IsLast(id, page) /\ cursor' = id
  /\ pel' = pel \cup page
  /\ UNCHANGED <<first, last, group, origin>>

XAck(id) ==
  /\ pel' = pel \ {id}
  /\ UNCHANGED <<first, last, group, origin, cursor>>

StreamTypeOK ==
  /\ first \in Nat \ {0}
  /\ last \in 0 .. MaxEntries
  /\ first <= last + 1
  /\ group \in BOOLEAN
  /\ origin \in 0 .. cursor
  /\ cursor \in 0 .. last
  /\ pel \in SUBSET (origin + 1 .. cursor)

==============================================================================
