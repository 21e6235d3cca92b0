----------------------------- MODULE AtLeastOnce -----------------------------
(***************************************************************************)
(* What the bus promises a consuming service (docs/ARCH.md: "consumed      *)
(* through a consumer group with XACK-based at-least-once delivery",       *)
(* "MAXLEN ~ STREAM_MAX_LEN for retention").  An accepted message stays on *)
(* the to-do list until a handler has served it, however often it crashes  *)
(* in between; only MaxLen newer messages may push it off unserved.        *)
(***************************************************************************)
EXTENDS Naturals

CONSTANT MaxLen

VARIABLES subscribed, \* the service receives what is published from now on
          newest,     \* the newest message published
          todo,       \* messages the service still owes an answer
          done        \* messages some handler has served

vars == <<subscribed, newest, todo, done>>

Expired(id) == id + MaxLen <= newest

Init ==
  /\ subscribed \in BOOLEAN
  /\ newest = 0
  /\ todo = {}
  /\ done = {}

Subscribe ==
  /\ subscribed' = TRUE
  /\ UNCHANGED <<newest, todo, done>>

Accept ==
  /\ newest' = newest + 1
  /\ \E dropped \in SUBSET { id \in todo : Expired(id)' } :
       todo' = (todo \ dropped) \cup (IF subscribed THEN {newest'} ELSE {})
  /\ UNCHANGED <<subscribed, done>>

Serve(id) ==
  /\ id \in todo
  /\ done' = done \cup {id}
  /\ UNCHANGED <<subscribed, newest, todo>>

Retire(id) ==
  /\ id \in todo
  /\ id \in done \/ Expired(id)
  /\ todo' = todo \ {id}
  /\ UNCHANGED <<subscribed, newest, done>>

Next ==
  \/ Subscribe
  \/ Accept
  \/ \E id \in todo : Serve(id) \/ Retire(id)

Spec == Init /\ [][Next]_vars

==============================================================================
