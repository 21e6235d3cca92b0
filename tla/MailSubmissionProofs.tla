------------------------- MODULE MailSubmissionProofs -------------------------
(***************************************************************************)
(* What the submission guarantees for every set of mails, any number of    *)
(* threads, failures and restarts: one submission alone publishes a mail   *)
(* once, and the labels do not hold up each other.                         *)
(***************************************************************************)
EXTENDS MailSubmission, SequenceTheorems, TLAPS

\* The variables and their types.
LabelSet == {"applied", "offer"}
Work == [pc : {"query", "map", "ics", "publish", "mark"}, todo : Seq(LabelSet), aborted : BOOLEAN,
         batch : SUBSET Mails, queue : SUBSET Mails, failed : SUBSET LabelSet, owed : SUBSET Mails]

TypeOK ==
  /\ age \in [Mails -> {"new", "due", "expired"}]
  /\ unsent \subseteq Mails /\ sheet \subseteq Mails /\ known \subseteq sheet
  /\ copies \in [Mails -> Nat]
  /\ req \in [Requests -> {Idle} \cup Work]
  /\ lostMark \subseteq Mails /\ contended \subseteq Mails

\* What a submission is at agrees with the labels and mails it holds.
WorkOK ==
  \A r \in Requests :
    /\ req[r].pc \in {"map", "ics", "publish", "mark"} => req[r].todo # <<>>
    /\ req[r].pc = "ics" => req[r].queue \subseteq req[r].batch
    /\ req[r].pc = "mark" =>
         /\ req[r].batch \subseteq req[r].queue
         /\ \A m \in req[r].batch : copies[m] > 0

\* The flag of a mail is cleared only after a publication.
SentIsPublished == \A m \in Mails \ unsent : copies[m] > 0

OnRecord == lostMark \cup contended

\* Two submissions that have a mail in hand put it on record.
OneHand ==
  \A m \in Mails \ OnRecord : \A r, o \in Requests : m \in InHand(r) /\ m \in InHand(o) => r = o

\* A mail that was published is being marked, or is marked and in nobody's hand.
PublishedOnce ==
  \A m \in Mails \ OnRecord : copies[m] > 0 =>
    /\ copies[m] = 1
    /\ \/ m \notin unsent /\ \A r \in Requests : m \notin InHand(r)
       \/ \E r \in Requests : req[r].pc = "mark" /\ m \in req[r].batch

\* A submission still comes by a mail: its label is to be done, or is being done
\* with the mail among those to publish.
StillToCome(w, m) ==
  /\ \E i \in 1 .. Len(w.todo) : w.todo[i] = LabelOf(m)
  /\ LabelOf(m) = w.todo[1] => /\ w.pc = "map" => m \in w.batch
                               /\ w.pc \in {"ics", "publish", "mark"} => m \in w.queue

\* What was owed is done, has failed, or is still to come.
OwedAccounted ==
  \A r \in Requests : req[r] # Idle => \A m \in req[r].owed :
    \/ copies[m] > 0 \/ age[m] = "expired"
    \/ LabelOf(m) \in req[r].failed \/ req[r].aborted
    \/ m \in unsent \cap known /\ age[m] = "due" /\ StillToCome(req[r], m)

IInv ==
  /\ TypeOK /\ WorkOK /\ SentIsPublished
  /\ OneHand /\ PublishedOnce
  /\ OwedAccounted

-------------------------------------------------------------------------------
(* What the steps of a submission do to it *)

\* A submission in progress.
LEMMA Served ==
  ASSUME TypeOK, NEW r \in Requests
  PROVE  /\ req[r] # Idle => req[r] \in Work
         /\ req[r].pc \in {"query", "map", "ics", "publish", "mark"} => req[r] \in Work /\ req[r] # Idle
         /\ req[r] \in Work => req[r] # Idle
BY DEF TypeOK, Work, Idle

\* What a submission has in hand, case by case.
LEMMA InHandOf ==
  ASSUME NEW r \in Requests
  PROVE  /\ req[r].pc \in {"map", "ics"} => InHand(r) = req[r].batch
         /\ req[r].pc \in {"publish", "mark"} => InHand(r) = req[r].queue
         /\ req[r].pc \notin {"map", "ics", "publish", "mark"} => InHand(r) = {}
<1>1. CASE req[r].pc \in {"map", "ics"}
  BY <1>1 DEF InHand
<1>2. CASE req[r].pc \in {"publish", "mark"}
  BY <1>2 DEF InHand
<1>3. CASE req[r].pc \notin {"map", "ics", "publish", "mark"}
  BY <1>3 DEF InHand
<1>4. QED BY <1>1, <1>2, <1>3

\* The next label is taken up with nothing in hand; the failures are remembered.
LEMMA NextLabelOf ==
  ASSUME NEW w \in Work, w.todo # <<>>
  PROVE  /\ NextLabel(w) \in Work
         /\ NextLabel(w).pc = "query" /\ NextLabel(w).todo = Tail(w.todo)
         /\ NextLabel(w).aborted = w.aborted /\ NextLabel(w).failed = w.failed
         /\ NextLabel(w).owed = w.owed
<1>1. Tail(w.todo) \in Seq(LabelSet)
  <2>1. w.todo \in Seq(LabelSet)
    BY DEF Work
  <2>2. QED BY <2>1, HeadTailProperties
<1>2. NextLabel(w) = [w EXCEPT !.pc = "query", !.todo = Tail(w.todo), !.batch = {}, !.queue = {}]
  BY DEF NextLabel
<1>3. QED BY <1>1, <1>2 DEF Work

\* A label that fails is left like one that is done, and recorded.
LEMMA LabelFailsOf ==
  ASSUME NEW w \in Work, w.todo # <<>>
  PROVE  /\ LabelFails(w) \in Work
         /\ LabelFails(w).pc = "query" /\ LabelFails(w).todo = Tail(w.todo)
         /\ LabelFails(w).aborted = w.aborted /\ LabelFails(w).failed = w.failed \cup {w.todo[1]}
         /\ LabelFails(w).owed = w.owed
<1> DEFINE v == [w EXCEPT !.failed = @ \cup {Head(w.todo)}]
<1>1. Head(w.todo) = w.todo[1] /\ w.todo[1] \in LabelSet
  BY DEF Work
<1>2. /\ v \in Work /\ v.todo = w.todo /\ v.aborted = w.aborted /\ v.owed = w.owed
      /\ v.failed = w.failed \cup {w.todo[1]}
  BY <1>1 DEF Work
<1>3. LabelFails(w) = NextLabel(v)
  BY DEF LabelFails
<1> HIDE DEF v
<1>4. QED BY <1>2, <1>3, NextLabelOf

\* The work that a step of r leaves it with.
Becomes(r, w) ==
  /\ req' = [req EXCEPT ![r] = w]
  /\ req'[r] = w
  /\ \A o \in Requests \ {r} : req'[o] = req[o]

\* A step of r as an update of one function.
LEMMA Becoming ==
  ASSUME TypeOK, NEW r \in Requests, NEW w, req' = [req EXCEPT ![r] = w]
  PROVE  Becomes(r, w)
BY DEF TypeOK, Becomes

\* A query ends in due mails to map, or in the next label: only an aborted
\* transaction passes over mails that are due.
LEMMA QueryDoes ==
  ASSUME TypeOK, WorkOK, NEW r \in Requests, Query(r)
  PROVE  /\ req[r] \in Work /\ req[r].pc = "query" /\ req[r].todo # <<>>
         /\ \E w \in Work : /\ Becomes(r, w) /\ w.owed = req[r].owed /\ w.failed = req[r].failed
              /\ \/ /\ w.pc = "map" /\ w.batch = Due(req[r].todo[1]) /\ w.todo = req[r].todo
                    /\ w.aborted = req[r].aborted
                    /\ \A o \in Requests \ {r} : w.batch \cap InHand(o) \subseteq contended'
                 \/ /\ w.pc = "query" /\ w.todo = Tail(req[r].todo)
                    /\ w.aborted \/ (~w.aborted /\ ~req[r].aborted /\ Due(req[r].todo[1]) = {})
                    /\ req[r].aborted => w.aborted
         /\ contended' \subseteq Mails /\ contended \subseteq contended'
         /\ UNCHANGED <<mails, copies, lostMark>>
<1> USE DEF Query
<1>1. req[r] \in Work /\ req[r].pc = "query" /\ req[r].todo # <<>> /\ Head(req[r].todo) = req[r].todo[1]
  BY Served DEF Work
<1>2. UNCHANGED <<mails, copies, lostMark>>
  OBVIOUS
<1> DEFINE due == Due(Head(req[r].todo))
<1>3. due \subseteq Mails
  BY DEF Due, TypeOK
<1>4. CASE /\ ~req[r].aborted
           /\ req' = [req EXCEPT ![r] = IF due = {} THEN NextLabel(@) ELSE [@ EXCEPT !.pc = "map", !.batch = due]]
           /\ contended' = contended \cup (due \cap UNION {InHand(o) : o \in Requests \ {r}})
  <2>1. contended' \subseteq Mails /\ contended \subseteq contended'
    BY <1>3, <1>4 DEF TypeOK
  <2>2. CASE due = {}
    <3>1. Becomes(r, NextLabel(req[r]))
      BY <1>4, <2>2, Becoming
    <3>2. QED BY <1>1, <1>2, <1>4, <2>1, <2>2, <3>1, NextLabelOf
  <2>3. CASE due # {}
    <3> DEFINE w == [req[r] EXCEPT !.pc = "map", !.batch = due]
    <3>1. Becomes(r, w)
      BY <1>4, <2>3, Becoming
    <3>2. /\ w \in Work /\ w.pc = "map" /\ w.batch = due /\ w.todo = req[r].todo
          /\ w.aborted = req[r].aborted /\ w.owed = req[r].owed /\ w.failed = req[r].failed
      BY <1>1, <1>3 DEF Work
    <3>3. \A o \in Requests \ {r} : due \cap InHand(o) \subseteq contended'
      BY <1>4
    <3> HIDE DEF w, due
    <3>4. due = Due(req[r].todo[1])
      BY <1>1 DEF due
    <3>5. QED BY <1>1, <1>2, <2>1, <3>1, <3>2, <3>3, <3>4
  <2>4. QED BY <2>2, <2>3
<1>5. CASE req[r].aborted /\ req' = [req EXCEPT ![r] = NextLabel(@)] /\ contended' = contended
  <2>1. Becomes(r, NextLabel(req[r]))
    BY <1>5, Becoming
  <2>2. QED BY <1>1, <1>2, <1>5, <2>1, NextLabelOf DEF TypeOK
<1>6. CASE /\ ~req[r].aborted /\ contended' = contended
           /\ req' = [req EXCEPT ![r] = NextLabel([@ EXCEPT !.aborted = TRUE])]
  <2> DEFINE v == [req[r] EXCEPT !.aborted = TRUE]
  <2>1. Becomes(r, NextLabel(v))
    BY <1>6, Becoming
  <2>2. v \in Work /\ v.todo = req[r].todo /\ v.aborted /\ v.owed = req[r].owed /\ v.failed = req[r].failed
    BY <1>1 DEF Work
  <2> HIDE DEF v
  <2>3. QED BY <1>1, <1>2, <1>6, <2>1, <2>2, NextLabelOf DEF TypeOK
<1>7. QED BY <1>4, <1>5, <1>6

\* Mapping queues the mails whose application is known, or fails the label.
LEMMA MapDoes ==
  ASSUME TypeOK, WorkOK, NEW r \in Requests, Map(r)
  PROVE  /\ req[r] \in Work /\ req[r].pc = "map" /\ req[r].todo # <<>>
         /\ \E w \in Work : /\ Becomes(r, w) /\ w.owed = req[r].owed /\ w.aborted = req[r].aborted
              /\ \/ /\ w.pc = "ics" /\ w.batch = req[r].batch /\ w.queue = req[r].batch \cap known
                    /\ w.todo = req[r].todo /\ w.failed = req[r].failed
                 \/ /\ w.pc = "query" /\ w.todo = Tail(req[r].todo)
                    /\ w.failed = req[r].failed \cup {req[r].todo[1]}
         /\ UNCHANGED <<mails, copies, history>>
<1> USE DEF Map
<1>1. req[r] \in Work /\ req[r].pc = "map" /\ req[r].todo # <<>>
  BY Served DEF WorkOK
<1>2. UNCHANGED <<mails, copies, history>>
  OBVIOUS
<1>3. CASE req' = [req EXCEPT ![r].pc = "ics", ![r].queue = req[r].batch \cap known]
  <2> DEFINE w == [req[r] EXCEPT !.pc = "ics", !.queue = req[r].batch \cap known]
  <2>1. Becomes(r, w)
    <3>1. req' = [req EXCEPT ![r] = w]
      BY <1>3 DEF TypeOK
    <3>2. QED BY <3>1, Becoming
  <2>2. /\ w \in Work /\ w.pc = "ics" /\ w.batch = req[r].batch /\ w.queue = req[r].batch \cap known
        /\ w.todo = req[r].todo /\ w.failed = req[r].failed /\ w.owed = req[r].owed
        /\ w.aborted = req[r].aborted
    BY <1>1 DEF Work
  <2> HIDE DEF w
  <2>3. QED BY <1>1, <1>2, <2>1, <2>2
<1>4. CASE req' = [req EXCEPT ![r] = LabelFails(@)]
  <2>1. Becomes(r, LabelFails(req[r]))
    BY <1>4, Becoming
  <2>2. QED BY <1>1, <1>2, <2>1, LabelFailsOf
<1>5. QED BY <1>3, <1>4

\* Reading the calendar files loses no mail, or aborts the transaction.
LEMMA FetchIcsDoes ==
  ASSUME TypeOK, WorkOK, NEW r \in Requests, FetchIcs(r)
  PROVE  /\ req[r] \in Work /\ req[r].pc = "ics" /\ req[r].todo # <<>>
         /\ \E w \in Work : /\ Becomes(r, w) /\ w.owed = req[r].owed
              /\ \/ /\ w.pc = "publish" /\ w.queue = req[r].queue /\ w.aborted = req[r].aborted
                    /\ w.todo = req[r].todo /\ w.failed = req[r].failed
                 \/ w.pc = "query" /\ w.aborted
         /\ UNCHANGED <<mails, copies, history>>
<1> USE DEF FetchIcs
<1>1. req[r] \in Work /\ req[r].pc = "ics" /\ req[r].todo # <<>>
  BY Served DEF WorkOK
<1>2. UNCHANGED <<mails, copies, history>>
  OBVIOUS
<1>3. CASE req' = [req EXCEPT ![r].pc = "publish"]
  <2> DEFINE w == [req[r] EXCEPT !.pc = "publish"]
  <2>1. Becomes(r, w)
    <3>1. req' = [req EXCEPT ![r] = w]
      BY <1>3 DEF TypeOK
    <3>2. QED BY <3>1, Becoming
  <2>2. /\ w \in Work /\ w.pc = "publish" /\ w.queue = req[r].queue
        /\ w.todo = req[r].todo /\ w.failed = req[r].failed /\ w.owed = req[r].owed
        /\ w.aborted = req[r].aborted
    BY <1>1 DEF Work
  <2> HIDE DEF w
  <2>3. QED BY <1>1, <1>2, <2>1, <2>2
<1>4. CASE req' = [req EXCEPT ![r] = LabelFails([@ EXCEPT !.aborted = TRUE])]
  <2> DEFINE v == [req[r] EXCEPT !.aborted = TRUE]
  <2>1. Becomes(r, LabelFails(v))
    BY <1>4, Becoming
  <2>2. v \in Work /\ v.todo = req[r].todo /\ v.aborted /\ v.owed = req[r].owed
    BY <1>1 DEF Work
  <2> HIDE DEF v
  <2>3. QED BY <1>1, <1>2, <2>1, <2>2, LabelFailsOf
<1>5. QED BY <1>3, <1>4

\* One mail is published and goes on to its mark, or the publication fails.
LEMMA PublishDoes ==
  ASSUME TypeOK, WorkOK, NEW r \in Requests, Publish(r)
  PROVE  \E m \in req[r].queue, w \in Work :
         /\ req[r] \in Work /\ req[r].pc = "publish" /\ req[r].todo # <<>>
         /\ m \in Mails /\ Becomes(r, w) /\ w.owed = req[r].owed /\ w.aborted = req[r].aborted
         /\ w.todo = req[r].todo
         /\ \/ /\ copies' = [copies EXCEPT ![m] = @ + 1] /\ UNCHANGED lostMark
               /\ w.pc = "mark" /\ w.batch = {m} /\ w.queue = req[r].queue /\ w.failed = req[r].failed
            \/ /\ \/ UNCHANGED <<copies, lostMark>>
                  \/ copies' = [copies EXCEPT ![m] = @ + 1] /\ lostMark' = lostMark \cup {m}
               /\ w.pc = "publish" /\ w.queue = req[r].queue \ {m}
               /\ w.failed = req[r].failed \cup {LabelOf(m)}
         /\ UNCHANGED <<mails, contended>>
<1> USE DEF Publish
<1>1. req[r] \in Work /\ req[r].pc = "publish" /\ req[r].todo # <<>>
  BY Served DEF WorkOK
<1>2. UNCHANGED <<mails, contended>>
  OBVIOUS
<1>3. PICK m \in req[r].queue :
       \/ /\ copies' = [copies EXCEPT ![m] = @ + 1]
          /\ req' = [req EXCEPT ![r].pc = "mark", ![r].batch = {m}]
          /\ UNCHANGED <<failures, lostMark>>
       \/ /\ Failure
          /\ \/ UNCHANGED <<copies, lostMark>>
             \/ copies' = [copies EXCEPT ![m] = @ + 1] /\ lostMark' = lostMark \cup {m}
          /\ req' = [req EXCEPT ![r].queue = @ \ {m}, ![r].failed = @ \cup {LabelOf(m)}]
  OBVIOUS
<1>4. m \in Mails /\ LabelOf(m) \in LabelSet
  BY <1>1 DEF Work, LabelOf, LabelSet
<1>5. CASE /\ req' = [req EXCEPT ![r].pc = "mark", ![r].batch = {m}]
           /\ copies' = [copies EXCEPT ![m] = @ + 1] /\ UNCHANGED lostMark
  <2> DEFINE w == [req[r] EXCEPT !.pc = "mark", !.batch = {m}]
  <2>1. Becomes(r, w)
    <3>1. req' = [req EXCEPT ![r] = w]
      BY <1>5 DEF TypeOK
    <3>2. QED BY <3>1, Becoming
  <2>2. /\ w \in Work /\ w.pc = "mark" /\ w.batch = {m} /\ w.queue = req[r].queue
        /\ w.todo = req[r].todo /\ w.failed = req[r].failed /\ w.owed = req[r].owed
        /\ w.aborted = req[r].aborted
    BY <1>1, <1>4 DEF Work
  <2> HIDE DEF w
  <2>3. QED BY <1>1, <1>2, <1>4, <1>5, <2>1, <2>2
<1>6. CASE /\ req' = [req EXCEPT ![r].queue = @ \ {m}, ![r].failed = @ \cup {LabelOf(m)}]
           /\ \/ UNCHANGED <<copies, lostMark>>
              \/ copies' = [copies EXCEPT ![m] = @ + 1] /\ lostMark' = lostMark \cup {m}
  <2> DEFINE w == [req[r] EXCEPT !.queue = @ \ {m}, !.failed = @ \cup {LabelOf(m)}]
  <2>1. Becomes(r, w)
    <3>1. req' = [req EXCEPT ![r] = w]
      BY <1>6 DEF TypeOK
    <3>2. QED BY <3>1, Becoming
  <2>2. /\ w \in Work /\ w.pc = "publish" /\ w.queue = req[r].queue \ {m}
        /\ w.todo = req[r].todo /\ w.failed = req[r].failed \cup {LabelOf(m)} /\ w.owed = req[r].owed
        /\ w.aborted = req[r].aborted
    BY <1>1, <1>4 DEF Work
  <2> HIDE DEF w
  <2>3. QED BY <1>1, <1>2, <1>4, <1>6, <2>1, <2>2
<1>7. QED BY <1>3, <1>5, <1>6

\* A mark clears the flag or fails on record; the mail leaves the queue.
LEMMA MarkDoes ==
  ASSUME TypeOK, WorkOK, NEW r \in Requests, Mark(r)
  PROVE  /\ req[r] \in Work /\ req[r].pc = "mark" /\ req[r].todo # <<>>
         /\ \E w \in Work : /\ Becomes(r, w) /\ w.owed = req[r].owed /\ w.aborted = req[r].aborted
              /\ w.pc = "publish" /\ w.queue = req[r].queue \ req[r].batch
              /\ w.todo = req[r].todo /\ w.failed = req[r].failed
         /\ \/ unsent' = unsent \ req[r].batch /\ UNCHANGED lostMark
            \/ lostMark' = lostMark \cup req[r].batch /\ UNCHANGED unsent
         /\ UNCHANGED <<age, sheet, known, copies, contended>>
<1> USE DEF Mark
<1>1. req[r] \in Work /\ req[r].pc = "mark" /\ req[r].todo # <<>>
  BY Served DEF WorkOK
<1> DEFINE w == [req[r] EXCEPT !.pc = "publish", !.queue = @ \ req[r].batch]
<1>2. Becomes(r, w)
  <2>1. req' = [req EXCEPT ![r] = w]
    BY DEF TypeOK
  <2>2. QED BY <2>1, Becoming
<1>3. /\ w \in Work /\ w.pc = "publish" /\ w.queue = req[r].queue \ req[r].batch
      /\ w.todo = req[r].todo /\ w.failed = req[r].failed /\ w.owed = req[r].owed
      /\ w.aborted = req[r].aborted
  BY <1>1 DEF Work
<1> HIDE DEF w
<1>4. QED BY <1>1, <1>2, <1>3

\* A label ends with an empty queue, a submission with no label to do.
LEMMA EndsDo ==
  ASSUME TypeOK, WorkOK, NEW r \in Requests, LabelDone(r) \/ End(r)
  PROVE  /\ req[r] \in Work
         /\ \/ /\ req[r].pc = "publish" /\ req[r].queue = {} /\ req[r].todo # <<>>
               /\ \E w \in Work :
                    /\ Becomes(r, w) /\ w.owed = req[r].owed /\ w.aborted = req[r].aborted
                    /\ w.pc = "query" /\ w.todo = Tail(req[r].todo) /\ w.failed = req[r].failed
            \/ req[r].pc = "query" /\ req[r].todo = <<>> /\ Becomes(r, Idle)
         /\ UNCHANGED <<mails, copies, history>>
<1>1. CASE LabelDone(r)
  <2>1. req[r] \in Work /\ req[r].pc = "publish" /\ req[r].todo # <<>>
    BY <1>1, Served DEF LabelDone, WorkOK
  <2>2. Becomes(r, NextLabel(req[r]))
    BY <1>1, Becoming DEF LabelDone
  <2>3. QED BY <1>1, <2>1, <2>2, NextLabelOf DEF LabelDone
<1>2. CASE End(r)
  BY <1>2, Served, Becoming DEF End
<1>3. QED BY <1>1, <1>2

\* Mails only grow older.
LEMMA GrowDoes ==
  ASSUME TypeOK, NEW m \in Mails, Grow(m)
  PROVE  /\ age' \in [Mails -> {"new", "due", "expired"}]
         /\ \A n \in Mails : age[n] = "due" => age'[n] \in {"due", "expired"}
         /\ \A n \in Mails : age[n] = "expired" => age'[n] = "expired"
         /\ UNCHANGED <<unsent, sheet, known, copies, req, history>>
BY DEF Grow, TypeOK

\* A submission begins with all labels before it and nothing in hand.
LEMMA BeginDoes ==
  ASSUME TypeOK, NEW r \in Requests, Begin(r)
  PROVE  /\ req[r] = Idle
         /\ \E w \in Work : /\ Becomes(r, w) /\ w.pc = "query" /\ w.todo = Labels
                            /\ w.owed = {m \in unsent : age[m] = "due" /\ m \in known}
<1> DEFINE w == [pc |-> "query", todo |-> Labels, aborted |-> FALSE,
                 batch |-> {}, queue |-> {}, failed |-> {},
                 owed |-> {m \in unsent : age[m] = "due" /\ m \in known}]
<1>1. Becomes(r, w)
  BY Becoming DEF Begin
<1>2. Labels \in Seq(LabelSet)
  BY DEF Labels, LabelSet
<1>3. w \in Work /\ w.pc = "query" /\ w.todo = Labels /\ w.owed = {m \in unsent : age[m] = "due" /\ m \in known}
  BY <1>2 DEF Work, TypeOK
<1> HIDE DEF w
<1>4. QED BY <1>1, <1>3 DEF Begin

\* The actions that leave mails and submissions alone, but for imports.
Around ==
  /\ UNCHANGED <<age, unsent, sheet, copies, req, history>>
  /\ known \subseteq known' /\ known' \subseteq sheet

\* What happens around the submissions imports at most.
LEMMA AroundDoes ==
  ASSUME TypeOK, Wake \/ Fetch \/ GiveUp \/ WorkerRestarts \/ UNCHANGED vars
  PROVE  Around
BY DEF Wake, Fetch, GiveUp, WorkerRestarts, vars, mails, history, Around, TypeOK

-------------------------------------------------------------------------------
(* What a step of a submission does to the mails in hand *)

\* One submission is given other work: the others have in hand what they had.
LEMMA HandsAfter ==
  ASSUME NEW r \in Requests, NEW w, Becomes(r, w)
  PROVE  /\ \A o \in Requests \ {r} : InHand(o)' = InHand(o)
         /\ w.pc \in {"map", "ics"} => InHand(r)' = w.batch
         /\ w.pc \in {"publish", "mark"} => InHand(r)' = w.queue
         /\ w.pc \notin {"map", "ics", "publish", "mark"} => InHand(r)' = {}
<1> USE DEF Becomes
<1>1. \A o \in Requests \ {r} : InHand(o)' = InHand(o)
  BY DEF InHand
<1>2. CASE w.pc \in {"map", "ics"}
  BY <1>1, <1>2 DEF InHand
<1>3. CASE w.pc \in {"publish", "mark"}
  BY <1>1, <1>3 DEF InHand
<1>4. CASE w.pc \notin {"map", "ics", "publish", "mark"}
  BY <1>1, <1>4 DEF InHand
<1>5. QED BY <1>2, <1>3, <1>4

-------------------------------------------------------------------------------
(* The conjuncts of the invariant, one after the other *)

\* A step of one submission; mail-processor's restart cuts all of them off.
LEMMA StepTypes ==
  ASSUME TypeOK, WorkOK, NEW r \in Requests, Step(r)
  PROVE  TypeOK'
<1>1. \A w \in Work \cup {Idle} : Becomes(r, w) => req' \in [Requests -> {Idle} \cup Work]
  BY DEF Becomes, TypeOK
<1>2. CASE Query(r)
  BY <1>1, <1>2, QueryDoes DEF TypeOK, mails
<1>3. CASE Map(r)
  BY <1>1, <1>3, MapDoes DEF TypeOK, mails, history
<1>4. CASE FetchIcs(r)
  BY <1>1, <1>4, FetchIcsDoes DEF TypeOK, mails, history
<1>5. CASE Publish(r)
  <2>1. PICK m \in Mails, w \in Work :
          /\ Becomes(r, w)
          /\ \/ copies' = [copies EXCEPT ![m] = @ + 1] /\ UNCHANGED lostMark
             \/ UNCHANGED <<copies, lostMark>>
             \/ copies' = [copies EXCEPT ![m] = @ + 1] /\ lostMark' = lostMark \cup {m}
          /\ UNCHANGED <<mails, contended>>
    BY <1>5, PublishDoes
  <2>2. copies' \in [Mails -> Nat] /\ lostMark' \subseteq Mails
    BY <2>1 DEF TypeOK
  <2>3. QED BY <1>1, <2>1, <2>2 DEF TypeOK, mails
<1>6. CASE Mark(r)
  <2>1. req[r].batch \subseteq Mails
    BY <1>6, MarkDoes DEF Work
  <2>2. QED BY <1>1, <1>6, <2>1, MarkDoes DEF TypeOK
<1>7. CASE LabelDone(r) \/ End(r)
  BY <1>1, <1>7, EndsDo DEF TypeOK, mails, history
<1>8. QED BY <1>2, <1>3, <1>4, <1>5, <1>6, <1>7 DEF Step

\* The marks under way are on record when the process is cut off.
LEMMA CutOffDoes ==
  ASSUME TypeOK, ProcessorRestarts
  PROVE  /\ req' = [r \in Requests |-> Idle]
         /\ \A r \in Requests : req[r].pc = "mark" => req[r].batch \subseteq lostMark'
         /\ lostMark \subseteq lostMark' /\ lostMark' \subseteq Mails
         /\ UNCHANGED <<mails, copies, contended>>
<1> USE DEF ProcessorRestarts
<1>1. \A r \in Requests : req[r].pc = "mark" => req[r].batch \subseteq Mails
  BY Served DEF Work
<1>2. QED BY <1>1 DEF TypeOK

\* Every step keeps the types.
LEMMA TypeNext ==
  ASSUME TypeOK, WorkOK, [Next]_vars
  PROVE  TypeOK'
<1>1. CASE \E m \in Mails : Grow(m)
  BY <1>1, GrowDoes DEF TypeOK, history
<1>2. CASE \E r \in Requests : Step(r)
  BY <1>2, StepTypes
<1>3. CASE Wake \/ Fetch \/ GiveUp \/ WorkerRestarts \/ UNCHANGED vars
  BY <1>3, AroundDoes DEF Around, TypeOK, history
<1>4. CASE Submit
  <2>1. PICK r \in Requests : Begin(r)
    BY <1>4 DEF Submit
  <2>2. PICK w \in Work : Becomes(r, w)
    BY <2>1, BeginDoes
  <2>3. req' \in [Requests -> {Idle} \cup Work]
    BY <2>2 DEF Becomes, TypeOK
  <2>4. QED BY <1>4, <2>3 DEF Submit, TypeOK, mails, history
<1>5. CASE ProcessorRestarts
  BY <1>5, CutOffDoes DEF TypeOK, mails
<1>6. QED BY <1>1, <1>2, <1>3, <1>4, <1>5 DEF Next

\* One submission is given other work; the others are at what they were.
LEMMA WorkOKOf ==
  ASSUME WorkOK, NEW r \in Requests, NEW w, Becomes(r, w),
         \A m \in Mails : copies[m] > 0 => copies'[m] > 0, TypeOK,
         w.pc \in {"map", "ics", "publish", "mark"} => w.todo # <<>>,
         w.pc = "ics" => w.queue \subseteq w.batch,
         w.pc = "mark" => w.batch \subseteq w.queue /\ \A m \in w.batch : copies'[m] > 0
  PROVE  WorkOK'
<1> SUFFICES ASSUME NEW o \in Requests
             PROVE  /\ req'[o].pc \in {"map", "ics", "publish", "mark"} => req'[o].todo # <<>>
                    /\ req'[o].pc = "ics" => req'[o].queue \subseteq req'[o].batch
                    /\ req'[o].pc = "mark" => /\ req'[o].batch \subseteq req'[o].queue
                                              /\ \A m \in req'[o].batch : copies'[m] > 0
  BY DEF WorkOK
<1>1. CASE o = r
  BY <1>1 DEF Becomes
<1>2. CASE o # r
  <2>1. req'[o] = req[o]
    BY <1>2 DEF Becomes
  <2>2. req[o].pc = "mark" => req[o].batch \subseteq Mails
    BY Served DEF Work
  <2>3. QED BY <2>1, <2>2 DEF WorkOK
<1>3. QED BY <1>1, <1>2

\* Every step keeps labels and mails in agreement with the place in the code.
LEMMA WorkNext ==
  ASSUME TypeOK, WorkOK, [Next]_vars
  PROVE  WorkOK'
<1>1. CASE \E m \in Mails : Grow(m)
  BY <1>1, GrowDoes DEF WorkOK
<1>2. ASSUME NEW r \in Requests, Step(r)
      PROVE  WorkOK'
  <2>1. CASE Query(r)
    BY <2>1, QueryDoes, WorkOKOf
  <2>2. CASE Map(r)
    <3>1. PICK w \in Work : /\ Becomes(r, w)
             /\ \/ w.pc = "ics" /\ w.todo = req[r].todo /\ w.batch = req[r].batch /\ w.queue = req[r].batch \cap known
                \/ w.pc = "query"
      BY <2>2, MapDoes
    <3>2. QED BY <2>2, <3>1, MapDoes, WorkOKOf
  <2>3. CASE FetchIcs(r)
    BY <2>3, FetchIcsDoes, WorkOKOf
  <2>4. CASE Publish(r)
    <3>1. PICK m \in req[r].queue, w \in Work :
            /\ m \in Mails /\ Becomes(r, w) /\ w.todo = req[r].todo /\ req[r].todo # <<>>
            /\ \/ /\ copies' = [copies EXCEPT ![m] = @ + 1]
                  /\ w.pc = "mark" /\ w.batch = {m} /\ w.queue = req[r].queue
               \/ /\ UNCHANGED copies \/ copies' = [copies EXCEPT ![m] = @ + 1]
                  /\ w.pc = "publish"
      BY <2>4, PublishDoes
    <3>2. \A n \in Mails : copies[n] > 0 => copies'[n] > 0
      BY <3>1 DEF TypeOK
    <3>3. w.pc = "mark" => copies'[m] > 0
      BY <3>1 DEF TypeOK
    <3>4. QED BY <3>1, <3>2, <3>3, WorkOKOf
  <2>5. CASE Mark(r)
    BY <2>5, MarkDoes, WorkOKOf
  <2>6. CASE LabelDone(r) \/ End(r)
    <3>1. PICK w : Becomes(r, w) /\ w.pc \in {"query", "idle"}
      BY <2>6, EndsDo DEF Idle
    <3>2. QED BY <2>6, <3>1, EndsDo, WorkOKOf
  <2>7. QED BY <1>2, <2>1, <2>2, <2>3, <2>4, <2>5, <2>6 DEF Step
<1>3. CASE Wake \/ Fetch \/ GiveUp \/ WorkerRestarts \/ UNCHANGED vars
  BY <1>3, AroundDoes DEF Around, WorkOK
<1>4. CASE Submit
  <2>1. PICK r \in Requests : Begin(r)
    BY <1>4 DEF Submit
  <2>2. QED BY <1>4, <2>1, BeginDoes, WorkOKOf DEF Submit
<1>5. CASE ProcessorRestarts
  BY <1>5, CutOffDoes DEF WorkOK, Idle
<1>6. QED BY <1>1, <1>2, <1>3, <1>4, <1>5 DEF Next

\* Only a mark clears flags, after the publication.
LEMMA SentNext ==
  ASSUME TypeOK, WorkOK, SentIsPublished, [Next]_vars
  PROVE  SentIsPublished'
<1>1. CASE \E m \in Mails : Grow(m)
  BY <1>1, GrowDoes DEF SentIsPublished
<1>2. ASSUME NEW r \in Requests, Step(r)
      PROVE  SentIsPublished'
  <2>1. CASE Query(r) \/ Map(r) \/ FetchIcs(r) \/ LabelDone(r) \/ End(r)
    BY <2>1, QueryDoes, MapDoes, FetchIcsDoes, EndsDo DEF SentIsPublished, mails
  <2>2. CASE Publish(r)
    <3>1. PICK m \in Mails :
            /\ UNCHANGED copies \/ copies' = [copies EXCEPT ![m] = @ + 1]
            /\ UNCHANGED mails
      BY <2>2, PublishDoes
    <3>2. QED BY <3>1 DEF SentIsPublished, mails, TypeOK
  <2>3. CASE Mark(r)
    BY <2>3, MarkDoes DEF SentIsPublished, WorkOK
  <2>4. QED BY <1>2, <2>1, <2>2, <2>3 DEF Step
<1>3. CASE Wake \/ Fetch \/ GiveUp \/ WorkerRestarts \/ UNCHANGED vars
  BY <1>3, AroundDoes DEF Around, SentIsPublished
<1>4. CASE Submit \/ ProcessorRestarts
  BY <1>4 DEF Submit, ProcessorRestarts, SentIsPublished, mails
<1>5. QED BY <1>1, <1>2, <1>3, <1>4 DEF Next

\* A step takes mails in hand only where a submission selects due mails, and
\* these are on record if another one has them in hand.
LEMMA HandsOf ==
  ASSUME TypeOK, WorkOK, NEW r \in Requests, Step(r)
  PROVE  /\ \A o \in Requests \ {r} : InHand(o)' = InHand(o)
         /\ \/ InHand(r)' \subseteq InHand(r)
            \/ /\ InHand(r)' \subseteq unsent /\ UNCHANGED <<unsent, copies>>
               /\ req[r].pc = "query"
               /\ \A o \in Requests \ {r} : InHand(r)' \cap InHand(o) \subseteq OnRecord'
         /\ OnRecord \subseteq OnRecord'
<1>1. CASE Query(r)
  <2>1. PICK w \in Work : /\ Becomes(r, w)
          /\ \/ /\ w.pc = "map" /\ w.batch = Due(req[r].todo[1])
                /\ \A o \in Requests \ {r} : w.batch \cap InHand(o) \subseteq contended'
             \/ w.pc = "query"
    BY <1>1, QueryDoes
  <2>2. Due(req[r].todo[1]) \subseteq unsent
    BY DEF Due
  <2>3. /\ req[r].pc = "query" /\ UNCHANGED <<unsent, copies, lostMark>>
        /\ contended \subseteq contended'
    BY <1>1, QueryDoes DEF mails
  <2>4. \A o \in Requests \ {r} : InHand(o)' = InHand(o)
    BY <2>1, HandsAfter
  <2>5. CASE w.pc = "map"
    <3>1. InHand(r)' = w.batch
      BY <2>1, <2>5, HandsAfter
    <3>2. QED BY <2>1, <2>2, <2>3, <2>4, <2>5, <3>1 DEF OnRecord
  <2>6. CASE w.pc = "query"
    <3>1. InHand(r)' = {}
      BY <2>1, <2>6, HandsAfter
    <3>2. QED BY <2>3, <2>4, <3>1 DEF OnRecord
  <2>7. QED BY <2>1, <2>5, <2>6
<1>2. CASE Map(r)
  <2>1. PICK w \in Work : /\ Becomes(r, w)
                              /\ \/ w.pc = "ics" /\ w.batch = req[r].batch
                                 \/ w.pc = "query"
    BY <1>2, MapDoes
  <2>2. req[r].pc = "map" /\ OnRecord \subseteq OnRecord'
    BY <1>2, MapDoes DEF OnRecord, history
  <2>3. InHand(r) = req[r].batch
    BY <2>2, InHandOf
  <2>4. \A o \in Requests \ {r} : InHand(o)' = InHand(o)
    BY <2>1, HandsAfter
  <2>5. InHand(r)' \in {req[r].batch, {}}
    BY <2>1, HandsAfter
  <2>6. QED BY <2>2, <2>3, <2>4, <2>5
<1>3. CASE FetchIcs(r)
  <2>1. PICK w \in Work : /\ Becomes(r, w)
                              /\ \/ w.pc = "publish" /\ w.queue = req[r].queue
                                 \/ w.pc = "query"
    BY <1>3, FetchIcsDoes
  <2>2. req[r].pc = "ics" /\ OnRecord \subseteq OnRecord' /\ req[r].queue \subseteq req[r].batch
    BY <1>3, FetchIcsDoes DEF OnRecord, history, WorkOK
  <2>3. QED BY <2>1, <2>2, HandsAfter, InHandOf
<1>4. CASE Publish(r)
  <2>1. PICK m \in Mails, w \in Work : /\ Becomes(r, w) /\ req[r].pc = "publish"
          /\ w.pc \in {"mark", "publish"} /\ w.queue \subseteq req[r].queue
          /\ lostMark \subseteq lostMark' /\ UNCHANGED contended
    BY <1>4, PublishDoes
  <2>2. QED BY <2>1, HandsAfter, InHandOf DEF OnRecord
<1>5. CASE Mark(r)
  <2>1. PICK w \in Work : Becomes(r, w) /\ w.pc = "publish" /\ w.queue \subseteq req[r].queue
    BY <1>5, MarkDoes
  <2>2. req[r].pc = "mark" /\ OnRecord \subseteq OnRecord'
    BY <1>5, MarkDoes DEF OnRecord
  <2>3. QED BY <2>1, <2>2, HandsAfter, InHandOf
<1>6. CASE LabelDone(r) \/ End(r)
  <2>1. PICK w : Becomes(r, w) /\ w.pc \in {"query", "idle"}
    BY <1>6, EndsDo DEF Idle
  <2>2. OnRecord \subseteq OnRecord'
    BY <1>6, EndsDo DEF OnRecord, history
  <2>3. QED BY <2>1, <2>2, HandsAfter
<1>7. QED BY <1>1, <1>2, <1>3, <1>4, <1>5, <1>6 DEF Step

\* A submission that begins, and one that is cut off, have nothing in hand.
LEMMA HandsOtherwise ==
  ASSUME TypeOK, \/ \E m \in Mails : Grow(m)
                 \/ Wake \/ Fetch \/ GiveUp \/ WorkerRestarts \/ UNCHANGED vars
                 \/ Submit \/ ProcessorRestarts
  PROVE  /\ \A o \in Requests : InHand(o)' \subseteq InHand(o)
         /\ OnRecord \subseteq OnRecord'
         /\ UNCHANGED <<unsent, copies>>
         /\ \A o \in Requests, m \in Mails \ OnRecord' :
              req[o].pc = "mark" /\ m \in req[o].batch => req'[o] = req[o]
<1>1. CASE \E m \in Mails : Grow(m)
  <2>1. UNCHANGED <<unsent, copies, req, history>>
    BY <1>1, GrowDoes
  <2>2. QED BY <2>1 DEF InHand, OnRecord, history
<1>2. CASE Wake \/ Fetch \/ GiveUp \/ WorkerRestarts \/ UNCHANGED vars
  <2>1. UNCHANGED <<unsent, copies, req, history>>
    BY <1>2, AroundDoes DEF Around
  <2>2. QED BY <2>1 DEF InHand, OnRecord, history
<1>3. CASE Submit
  <2>1. PICK r \in Requests : Begin(r)
    BY <1>3 DEF Submit
  <2>2. PICK w \in Work : Becomes(r, w) /\ w.pc = "query" /\ req[r] = Idle
    BY <2>1, BeginDoes
  <2>3. /\ \A o \in Requests \ {r} : InHand(o)' = InHand(o)
        /\ InHand(r)' = {}
    BY <2>2, HandsAfter
  <2>4. \A o \in Requests : req[o].pc = "mark" => req'[o] = req[o]
    BY <2>2 DEF Becomes, Idle
  <2>5. UNCHANGED <<unsent, copies, history>>
    BY <1>3 DEF Submit, mails
  <2>6. QED BY <2>3, <2>4, <2>5 DEF OnRecord, history
<1>4. CASE ProcessorRestarts
  <2>1. \A o \in Requests : InHand(o)' = {}
    <3>1. ASSUME NEW o \in Requests PROVE req'[o] = Idle
      BY <1>4, CutOffDoes
    <3>2. QED BY <3>1 DEF InHand, Idle
  <2>2. QED BY <1>4, <2>1, CutOffDoes DEF OnRecord, mails
<1>5. QED BY <1>1, <1>2, <1>3, <1>4

\* Every step that puts a mail in a second hand puts it on record.
LEMMA OneHandNext ==
  ASSUME TypeOK, WorkOK, OneHand, [Next]_vars
  PROVE  OneHand'
<1>1. ASSUME NEW r \in Requests, Step(r)
      PROVE  OneHand'
  BY <1>1, HandsOf DEF OneHand
<1>2. CASE ~ \E r \in Requests : Step(r)
  <2>1. /\ \A o \in Requests : InHand(o)' \subseteq InHand(o)
        /\ OnRecord \subseteq OnRecord'
    BY <1>2, HandsOtherwise DEF Next
  <2>2. QED BY <2>1 DEF OneHand
<1>3. QED BY <1>1, <1>2

\* One mail is published, or its mark takes effect: the others are as they were.
PublishedOnceFor(m) ==
  copies[m] > 0 =>
    /\ copies[m] = 1
    /\ \/ m \notin unsent /\ \A r \in Requests : m \notin InHand(r)
       \/ \E r \in Requests : req[r].pc = "mark" /\ m \in req[r].batch

\* A step that does not concern the mail keeps what is said of it.
LEMMA PublishedOnceKeeps ==
  ASSUME NEW m \in Mails, PublishedOnceFor(m), copies'[m] = copies[m],
         m \notin unsent => m \notin unsent',
         \A o \in Requests : m \in InHand(o)' => m \in InHand(o) \/ m \in unsent,
         \A o \in Requests : req[o].pc = "mark" /\ m \in req[o].batch => req'[o] = req[o]
  PROVE  PublishedOnceFor(m)'
<1>1. CASE copies[m] > 0 /\ m \notin unsent /\ \A r \in Requests : m \notin InHand(r)
  <2>1. copies[m] = 1
    BY <1>1 DEF PublishedOnceFor
  <2>2. m \notin unsent' /\ \A r \in Requests : m \notin InHand(r)'
    BY <1>1
  <2>3. QED BY <2>1, <2>2 DEF PublishedOnceFor
<1>2. CASE copies[m] > 0 /\ \E r \in Requests : req[r].pc = "mark" /\ m \in req[r].batch
  BY <1>2 DEF PublishedOnceFor
<1>3. CASE ~(copies[m] > 0)
  BY <1>3 DEF PublishedOnceFor
<1>4. QED BY <1>1, <1>2, <1>3 DEF PublishedOnceFor

\* Every step keeps a mail that is not on record at one publication: it had
\* none when it was in hand, and it leaves every hand with its mark.
LEMMA PublishedOnceNext ==
  ASSUME TypeOK, WorkOK, OneHand, PublishedOnce, [Next]_vars
  PROVE  PublishedOnce'
<1> SUFFICES ASSUME NEW m \in Mails, m \notin OnRecord'
             PROVE  PublishedOnceFor(m)'
  BY DEF PublishedOnce, PublishedOnceFor
<1>1. ASSUME NEW r \in Requests, Step(r)
      PROVE  PublishedOnceFor(m)'
  <2>1. /\ \A o \in Requests \ {r} : InHand(o)' = InHand(o)
        /\ \/ InHand(r)' \subseteq InHand(r)
           \/ /\ InHand(r)' \subseteq unsent /\ req[r].pc = "query"
        /\ m \notin OnRecord
    BY <1>1, HandsOf
  <2>2. PublishedOnceFor(m)
    BY <2>1 DEF PublishedOnce, PublishedOnceFor
  <2>3. \A o \in Requests : m \in InHand(o)' => m \in InHand(o) \/ m \in unsent
    BY <2>1
  <2>4. CASE Query(r) \/ Map(r) \/ FetchIcs(r) \/ LabelDone(r) \/ End(r)
    <3>1. req[r].pc # "mark" /\ UNCHANGED <<unsent, copies>>
      BY <2>4, QueryDoes, MapDoes, FetchIcsDoes, EndsDo DEF mails
    <3>2. \A o \in Requests \ {r} : req'[o] = req[o]
      BY <2>4, QueryDoes, MapDoes, FetchIcsDoes, EndsDo DEF Becomes
    <3>3. QED BY <2>2, <2>3, <3>1, <3>2, PublishedOnceKeeps
  <2>5. CASE Publish(r)
    <3>1. PICK n \in req[r].queue, w \in Work :
            /\ n \in Mails /\ Becomes(r, w) /\ req[r].pc = "publish"
            /\ \/ /\ copies' = [copies EXCEPT ![n] = @ + 1]
                  /\ \/ w.pc = "mark" /\ w.batch = {n}
                     \/ n \in lostMark'
               \/ UNCHANGED copies
            /\ UNCHANGED unsent
      BY <2>5, PublishDoes DEF mails
    <3>2. \A o \in Requests : req[o].pc = "mark" => req'[o] = req[o]
      BY <3>1 DEF Becomes
    <3>3. CASE copies'[m] = copies[m]
      BY <2>2, <2>3, <3>1, <3>2, <3>3, PublishedOnceKeeps
    <3>4. CASE copies'[m] # copies[m]
      <4>1. n = m /\ copies'[m] = copies[m] + 1 /\ w.pc = "mark" /\ w.batch = {m}
        BY <3>1, <3>4 DEF TypeOK, OnRecord
      <4>2. m \in InHand(r)
        BY <3>1, <4>1, InHandOf
      <4>3. \A o \in Requests : ~(req[o].pc = "mark" /\ m \in req[o].batch)
        BY <2>1, <3>1, <4>2, InHandOf DEF OneHand, WorkOK
      <4>4. copies[m] = 0
        BY <2>2, <4>2, <4>3 DEF PublishedOnceFor, TypeOK
      <4>5. req'[r].pc = "mark" /\ m \in req'[r].batch
        BY <3>1, <4>1 DEF Becomes
      <4>6. QED BY <4>1, <4>4, <4>5 DEF PublishedOnceFor
    <3>5. QED BY <3>3, <3>4
  <2>6. CASE Mark(r)
    <3>1. PICK w \in Work :
            /\ Becomes(r, w) /\ req[r].pc = "mark"
            /\ w.pc = "publish" /\ w.queue = req[r].queue \ req[r].batch
            /\ unsent' = unsent \ req[r].batch \/ (req[r].batch \subseteq lostMark' /\ UNCHANGED unsent)
            /\ UNCHANGED copies
      BY <2>6, MarkDoes
    <3>2. CASE m \in req[r].batch
      <4>1. m \notin unsent'
        BY <3>1, <3>2 DEF OnRecord
      <4>2. m \in InHand(r)
        BY <3>1, <3>2, InHandOf DEF WorkOK
      <4>3. \A o \in Requests : m \notin InHand(o)'
        BY <2>1, <3>1, <3>2, <4>2, HandsAfter DEF OneHand
      <4>4. copies'[m] = 1
        BY <2>2, <3>1, <3>2 DEF PublishedOnceFor, WorkOK
      <4>5. QED BY <4>1, <4>3, <4>4 DEF PublishedOnceFor
    <3>3. CASE m \notin req[r].batch
      <4>1. \A o \in Requests : req[o].pc = "mark" /\ m \in req[o].batch => req'[o] = req[o]
        BY <3>1, <3>3 DEF Becomes
      <4>2. QED BY <2>2, <2>3, <3>1, <4>1, PublishedOnceKeeps
    <3>4. QED BY <3>2, <3>3
  <2>7. QED BY <1>1, <2>4, <2>5, <2>6 DEF Step
<1>2. CASE ~ \E r \in Requests : Step(r)
  <2>1. /\ \A o \in Requests : InHand(o)' \subseteq InHand(o)
        /\ OnRecord \subseteq OnRecord'
        /\ UNCHANGED <<unsent, copies>>
        /\ \A o \in Requests : req[o].pc = "mark" /\ m \in req[o].batch => req'[o] = req[o]
    BY <1>2, HandsOtherwise DEF Next
  <2>2. PublishedOnceFor(m)
    BY <2>1 DEF PublishedOnce, PublishedOnceFor
  <2>3. QED BY <2>1, <2>2, PublishedOnceKeeps
<1>3. QED BY <1>1, <1>2

-------------------------------------------------------------------------------
(* What a submission owes *)

\* One mail that a submission with the work w owes.
Accounted(w, m) ==
  \/ copies[m] > 0 \/ age[m] = "expired"
  \/ LabelOf(m) \in w.failed \/ w.aborted
  \/ m \in unsent \cap known /\ age[m] = "due" /\ StillToCome(w, m)

\* The same after a step, with the work w by then.
AccountedNext(w, m) ==
  \/ copies'[m] > 0 \/ age'[m] = "expired"
  \/ LabelOf(m) \in w.failed \/ w.aborted
  \/ m \in unsent' \cap known' /\ age'[m] = "due" /\ StillToCome(w, m)

\* The rest of the labels holds every label but the first.
LEMMA RestOfLabels ==
  ASSUME NEW s \in Seq(LabelSet), s # <<>>, NEW l, l # s[1], \E i \in 1 .. Len(s) : s[i] = l
  PROVE  \E i \in 1 .. Len(Tail(s)) : Tail(s)[i] = l
<1>1. PICK i \in 1 .. Len(s) : s[i] = l
  OBVIOUS
<1>2. i - 1 \in 1 .. Len(Tail(s)) /\ Tail(s)[i - 1] = s[i]
  BY <1>1, HeadTailProperties
<1>3. QED BY <1>1, <1>2

\* The mails of a label that has been left are owed no longer.
LEMMA LabelLeft ==
  ASSUME NEW v \in Work, NEW w \in Work, NEW m \in Mails, v.todo # <<>>, StillToCome(v, m),
         w.pc = "query", w.todo = Tail(v.todo), LabelOf(m) # v.todo[1]
  PROVE  StillToCome(w, m)
<1>1. v.todo \in Seq(LabelSet)
  BY DEF Work
<1> DEFINE s == v.todo
           l == LabelOf(m)
<1>2. s \in Seq(LabelSet) /\ s # <<>> /\ l # s[1] /\ \E i \in 1 .. Len(s) : s[i] = l
  BY <1>1 DEF StillToCome
<1> HIDE DEF s, l
<1>3. \E i \in 1 .. Len(Tail(s)) : Tail(s)[i] = l
  BY <1>2, RestOfLabels
<1>4. QED BY <1>3 DEF StillToCome, s, l

\* What others do to the mails leaves an account standing.
LEMMA AccountStands ==
  ASSUME TypeOK, NEW w, NEW m \in Mails, Accounted(w, m),
         copies[m] > 0 => copies'[m] > 0,
         age[m] = "expired" => age'[m] = "expired", age[m] = "due" => age'[m] \in {"due", "expired"},
         m \in unsent => m \in unsent' \/ copies'[m] > 0, known \subseteq known'
  PROVE  AccountedNext(w, m)
BY DEF Accounted, AccountedNext

\* A step of a submission leaves its own accounts standing.
LEMMA OwnAccount ==
  ASSUME TypeOK, WorkOK, NEW r \in Requests, NEW m \in Mails, m \in req[r].owed,
         Accounted(req[r], m), Step(r)
  PROVE  /\ req'[r] # Idle => req'[r].owed = req[r].owed /\ AccountedNext(req'[r], m)
         /\ copies[m] > 0 => copies'[m] > 0
         /\ m \in unsent => m \in unsent' \/ copies'[m] > 0
         /\ UNCHANGED <<age, known>>
<1> DEFINE v == req[r]
           Goal(w) == /\ AccountedNext(w, m)
                      /\ copies[m] > 0 => copies'[m] > 0
                      /\ m \in unsent => m \in unsent' \/ copies'[m] > 0
                      /\ UNCHANGED <<age, known>>
<1>0. ASSUME NEW w \in Work, Becomes(r, w), w.owed = v.owed, Goal(w)
      PROVE  /\ req'[r] # Idle => req'[r].owed = req[r].owed /\ AccountedNext(req'[r], m)
             /\ copies[m] > 0 => copies'[m] > 0
             /\ m \in unsent => m \in unsent' \/ copies'[m] > 0
             /\ UNCHANGED <<age, known>>
  BY <1>0 DEF Becomes
<1>1. CASE Query(r)
  <2>1. PICK w \in Work : /\ Becomes(r, w) /\ w.owed = v.owed /\ w.failed = v.failed
          /\ \/ w.pc = "map" /\ w.batch = Due(v.todo[1]) /\ w.todo = v.todo /\ w.aborted = v.aborted
             \/ /\ w.pc = "query" /\ w.todo = Tail(v.todo)
                /\ w.aborted \/ (~w.aborted /\ ~v.aborted /\ Due(v.todo[1]) = {})
                /\ v.aborted => w.aborted
    BY <1>1, QueryDoes
  <2>2. v \in Work /\ v.todo # <<>> /\ UNCHANGED <<age, unsent, known, copies>>
    BY <1>1, QueryDoes DEF mails
  <2>3. m \in unsent /\ age[m] = "due" /\ LabelOf(m) = v.todo[1] => m \in Due(v.todo[1])
    BY DEF Due
  <2>4. Goal(w)
    <3>1. CASE w.pc = "map"
      BY <2>1, <2>2, <2>3, <3>1 DEF Accounted, AccountedNext, StillToCome
    <3>2. CASE w.pc = "query"
      BY <2>1, <2>2, <2>3, <3>2, LabelLeft DEF Accounted, AccountedNext
    <3>3. QED BY <2>1, <3>1, <3>2
  <2>5. QED BY <2>1, <2>4, <1>0
<1>2. CASE Map(r)
  <2>1. PICK w \in Work : /\ Becomes(r, w) /\ w.owed = v.owed /\ w.aborted = v.aborted
          /\ \/ /\ w.pc = "ics" /\ w.queue = v.batch \cap known
                /\ w.todo = v.todo /\ w.failed = v.failed
             \/ w.pc = "query" /\ w.todo = Tail(v.todo) /\ w.failed = v.failed \cup {v.todo[1]}
    BY <1>2, MapDoes
  <2>2. v \in Work /\ v.todo # <<>> /\ v.pc = "map" /\ UNCHANGED <<age, unsent, known, copies>>
    BY <1>2, MapDoes DEF mails
  <2>3. Goal(w)
    <3>1. CASE w.pc = "ics"
      BY <2>1, <2>2, <3>1 DEF Accounted, AccountedNext, StillToCome
    <3>2. CASE w.pc = "query"
      BY <2>1, <2>2, <3>2, LabelLeft DEF Accounted, AccountedNext
    <3>3. QED BY <2>1, <3>1, <3>2
  <2>4. QED BY <2>1, <2>3, <1>0
<1>3. CASE FetchIcs(r)
  <2>1. PICK w \in Work : /\ Becomes(r, w) /\ w.owed = v.owed
          /\ \/ /\ w.pc = "publish" /\ w.queue = v.queue /\ w.aborted = v.aborted
                /\ w.todo = v.todo /\ w.failed = v.failed
             \/ w.aborted
    BY <1>3, FetchIcsDoes
  <2>2. v \in Work /\ v.pc = "ics" /\ UNCHANGED <<age, unsent, known, copies>>
    BY <1>3, FetchIcsDoes DEF mails
  <2>3. Goal(w)
    BY <2>1, <2>2 DEF Accounted, AccountedNext, StillToCome
  <2>4. QED BY <2>1, <2>3, <1>0
<1>4. CASE Publish(r)
  <2>1. PICK n \in req[r].queue, w \in Work :
         /\ n \in Mails /\ Becomes(r, w) /\ w.owed = v.owed /\ w.aborted = v.aborted
         /\ v.pc = "publish" /\ w.todo = v.todo
         /\ \/ /\ copies' = [copies EXCEPT ![n] = @ + 1]
               /\ w.pc = "mark" /\ w.queue = v.queue /\ w.failed = v.failed
            \/ /\ \/ UNCHANGED copies
                  \/ copies' = [copies EXCEPT ![n] = @ + 1]
               /\ w.pc = "publish" /\ w.queue = v.queue \ {n}
               /\ w.failed = v.failed \cup {LabelOf(n)}
         /\ UNCHANGED <<age, unsent, known>>
    BY <1>4, PublishDoes DEF mails
  <2>2. copies[m] > 0 => copies'[m] > 0
    BY <2>1 DEF TypeOK
  <2>3. Goal(w)
    BY <2>1, <2>2 DEF Accounted, AccountedNext, StillToCome
  <2>4. QED BY <2>1, <2>3, <1>0
<1>5. CASE Mark(r)
  <2>1. PICK w \in Work :
          /\ Becomes(r, w) /\ w.owed = v.owed /\ w.aborted = v.aborted
          /\ v.pc = "mark" /\ w.pc = "publish" /\ w.queue = v.queue \ v.batch
          /\ w.todo = v.todo /\ w.failed = v.failed
          /\ unsent \ v.batch \subseteq unsent'
          /\ UNCHANGED <<age, known, copies>>
    BY <1>5, MarkDoes
  <2>2. m \in v.batch => copies[m] > 0
    BY <2>1 DEF WorkOK
  <2>3. Goal(w)
    BY <2>1, <2>2 DEF Accounted, AccountedNext, StillToCome
  <2>4. QED BY <2>1, <2>3, <1>0
<1>6. CASE LabelDone(r) \/ End(r)
  <2>1. v \in Work /\ UNCHANGED <<age, unsent, known, copies>>
    BY <1>6, EndsDo DEF mails
  <2>2. CASE \E w \in Work :
                /\ Becomes(r, w) /\ w.owed = v.owed /\ w.aborted = v.aborted
                /\ v.pc = "publish" /\ v.queue = {} /\ v.todo # <<>>
                /\ w.pc = "query" /\ w.todo = Tail(v.todo) /\ w.failed = v.failed
    <3>1. PICK w \in Work :
                /\ Becomes(r, w) /\ w.owed = v.owed /\ w.aborted = v.aborted
                /\ v.pc = "publish" /\ v.queue = {} /\ v.todo # <<>>
                /\ w.pc = "query" /\ w.todo = Tail(v.todo) /\ w.failed = v.failed
      BY <2>2
    <3>2. StillToCome(v, m) => LabelOf(m) # v.todo[1]
      BY <3>1 DEF StillToCome
    <3>3. Goal(w)
      BY <2>1, <3>1, <3>2, LabelLeft DEF Accounted, AccountedNext
    <3>4. QED BY <3>1, <3>3, <1>0
  <2>3. CASE req'[r] = Idle
    BY <2>1, <2>3
  <2>4. QED BY <1>6, <2>2, <2>3, EndsDo DEF Becomes
<1>7. QED BY <1>1, <1>2, <1>3, <1>4, <1>5, <1>6 DEF Step

\* Every step leaves the accounts of all submissions standing.
LEMMA OwedNext ==
  ASSUME TypeOK, WorkOK, SentIsPublished, OwedAccounted, [Next]_vars
  PROVE  OwedAccounted'
<1>0. \A o \in Requests : req[o] # Idle => \A m \in req[o].owed : m \in Mails /\ Accounted(req[o], m)
  BY Served DEF OwedAccounted, Accounted, Work
<1> DEFINE Goal(o) == req'[o] # Idle => \A m \in req'[o].owed : AccountedNext(req'[o], m)
<1> SUFFICES \A o \in Requests : Goal(o)
  BY DEF OwedAccounted, AccountedNext, StillToCome, LabelOf
<1>1. CASE \E m \in Mails : Grow(m)
  <2>1. /\ \A n \in Mails : age[n] = "due" => age'[n] \in {"due", "expired"}
        /\ \A n \in Mails : age[n] = "expired" => age'[n] = "expired"
        /\ UNCHANGED <<unsent, known, copies, req>>
    BY <1>1, GrowDoes
  <2>2. ASSUME NEW w, NEW m \in Mails, Accounted(w, m) PROVE AccountedNext(w, m)
    BY <2>1, <2>2, AccountStands
  <2>3. QED BY <1>0, <2>1, <2>2
<1>2. ASSUME NEW r \in Requests, Step(r), NEW o \in Requests
      PROVE  Goal(o)
  <2>1. \A n \in Requests \ {r} : req'[n] = req[n]
    BY <1>2, QueryDoes, MapDoes, FetchIcsDoes, PublishDoes, MarkDoes, EndsDo DEF Step, Becomes
  <2>2. CASE o = r
    <3>1. req[r] # Idle
      BY <1>2, QueryDoes, MapDoes, FetchIcsDoes, PublishDoes, MarkDoes, EndsDo, Served DEF Step
    <3>2. ASSUME NEW m \in req[r].owed
          PROVE  req'[r] # Idle => req'[r].owed = req[r].owed /\ AccountedNext(req'[r], m)
      BY <1>0, <1>2, <3>1, OwnAccount
    <3>3. req'[r] # Idle => req'[r].owed = req[r].owed
      <4>1. CASE \E w \in Work : Becomes(r, w) /\ w.owed = req[r].owed
        BY <4>1 DEF Becomes
      <4>2. CASE Becomes(r, Idle)
        BY <4>2 DEF Becomes
      <4>3. QED BY <1>2, <4>1, <4>2, QueryDoes, MapDoes, FetchIcsDoes, PublishDoes, MarkDoes, EndsDo DEF Step
    <3>4. QED BY <2>2, <3>2, <3>3
  <2>3. CASE o # r
    <3>1. /\ \A n \in Mails : copies[n] > 0 => copies'[n] > 0
          /\ \A n \in Mails : n \in unsent => n \in unsent' \/ copies'[n] > 0
          /\ UNCHANGED <<age, known>>
      <4>1. CASE Query(r) \/ Map(r) \/ FetchIcs(r) \/ LabelDone(r) \/ End(r)
        BY <4>1, QueryDoes, MapDoes, FetchIcsDoes, EndsDo DEF mails
      <4>2. CASE Publish(r)
        <5>1. PICK n \in Mails : /\ UNCHANGED copies \/ copies' = [copies EXCEPT ![n] = @ + 1]
                                 /\ UNCHANGED mails
          BY <4>2, PublishDoes
        <5>2. QED BY <5>1 DEF TypeOK, mails
      <4>3. CASE Mark(r)
        BY <4>3, MarkDoes DEF WorkOK
      <4>4. QED BY <1>2, <4>1, <4>2, <4>3 DEF Step
    <3>2. ASSUME NEW w, NEW m \in Mails, Accounted(w, m) PROVE AccountedNext(w, m)
      BY <3>1, <3>2, AccountStands
    <3>3. QED BY <1>0, <2>1, <2>3, <3>2
  <2>4. QED BY <2>2, <2>3
<1>3. CASE Wake \/ Fetch \/ GiveUp \/ WorkerRestarts \/ UNCHANGED vars
  <2>1. UNCHANGED <<age, unsent, copies, req>> /\ known \subseteq known'
    BY <1>3, AroundDoes DEF Around
  <2>2. ASSUME NEW w, NEW m \in Mails, Accounted(w, m) PROVE AccountedNext(w, m)
    BY <2>1, <2>2, AccountStands
  <2>3. QED BY <1>0, <2>1, <2>2
<1>4. CASE Submit
  <2>1. PICK r \in Requests : Begin(r)
    BY <1>4 DEF Submit
  <2>2. PICK w \in Work : /\ Becomes(r, w) /\ w.pc = "query" /\ w.todo = Labels
                          /\ w.owed = {m \in unsent : age[m] = "due" /\ m \in known}
    BY <2>1, BeginDoes
  <2>3. UNCHANGED <<age, unsent, known, copies>>
    BY <1>4 DEF Submit, mails
  <2>4. ASSUME NEW m \in Mails PROVE StillToCome(w, m)
    <3>1. Len(w.todo) = 2 /\ w.todo[1] = "applied" /\ w.todo[2] = "offer"
      BY <2>2 DEF Labels
    <3>2. QED BY <2>2, <3>1 DEF StillToCome, LabelOf
  <2>5. ASSUME NEW m \in w.owed PROVE AccountedNext(w, m)
    <3>1. m \in Mails /\ m \in unsent /\ m \in known /\ age[m] = "due"
      BY <2>2, <2>5 DEF TypeOK
    <3>2. Accounted(w, m)
      BY <2>4, <3>1 DEF Accounted
    <3>3. QED BY <2>3, <3>1, <3>2, AccountStands
  <2>6. ASSUME NEW o \in Requests PROVE Goal(o)
    <3>1. CASE o = r
      BY <2>2, <2>5, <3>1 DEF Becomes
    <3>2. CASE o # r
      <4>1. ASSUME NEW v, NEW m \in Mails, Accounted(v, m) PROVE AccountedNext(v, m)
        BY <2>3, <4>1, AccountStands
      <4>2. req'[o] = req[o]
        BY <2>2, <3>2 DEF Becomes
      <4>3. QED BY <1>0, <4>1, <4>2
    <3>3. QED BY <3>1, <3>2
  <2>7. QED BY <2>6
<1>5. CASE ProcessorRestarts
  BY <1>5, CutOffDoes
<1>6. QED BY <1>1, <1>2, <1>3, <1>4, <1>5 DEF Next

-------------------------------------------------------------------------------
(* The theorems *)

\* The invariant holds at first.
LEMMA InitInv == Init => IInv
<1> SUFFICES ASSUME Init PROVE IInv
  OBVIOUS
<1> USE DEF Init
<1>1. TypeOK
  BY DEF TypeOK
<1>2. WorkOK
  BY DEF WorkOK, Idle
<1>3. SentIsPublished
  BY DEF SentIsPublished
<1>4. \A r \in Requests : InHand(r) = {}
  BY DEF InHand, Idle
<1>5. OneHand /\ PublishedOnce
  BY <1>4 DEF OneHand, PublishedOnce
<1>6. OwedAccounted
  BY DEF OwedAccounted
<1>7. QED BY <1>1, <1>2, <1>3, <1>5, <1>6 DEF IInv

\* Every step keeps the invariant.
LEMMA NextInv == IInv /\ [Next]_vars => IInv'
BY TypeNext, WorkNext, SentNext, OneHandNext, PublishedOnceNext, OwedNext DEF IInv

\* The inductive invariant holds, for every set of mails and of threads and
\* however many failures and restarts there are.
THEOREM Invariance == Spec => []IInv
BY InitInv, NextInv, PTL DEF Spec

\* The variables keep their types. (MailService, InterestingMailsService)
THEOREM TypeCorrect == Spec => []TypeOK
<1>1. IInv => TypeOK
  BY DEF IInv
<1>2. QED BY <1>1, Invariance, PTL

\* A mail is submitted twice only if its mark was lost after a publication, or
\* two submissions had selected it at the same time: one submission alone never
\* publishes a mail twice. (_publish_mapping, _mark_email_as_sent)
THEOREM OneSubmission == Spec => []RepeatedOnlyIf
<1>1. IInv => RepeatedOnlyIf
  BY DEF IInv, TypeOK, PublishedOnce, RepeatedOnlyIf, OnRecord
<1>2. QED BY <1>1, Invariance, PTL

\* When a submission ends, no label is left to be done.
LEMMA EndsWithNothingOwed ==
  ASSUME IInv
  PROVE  \A r \in Requests : End(r) =>
           \A m \in req[r].owed :
              \/ copies[m] > 0 \/ age[m] = "expired"
              \/ LabelOf(m) \in req[r].failed \/ req[r].aborted
<1> SUFFICES ASSUME NEW r \in Requests, End(r), NEW m \in req[r].owed
             PROVE  \/ copies[m] > 0 \/ age[m] = "expired"
                    \/ LabelOf(m) \in req[r].failed \/ req[r].aborted
  OBVIOUS
<1>1. ~StillToCome(req[r], m)
  BY DEF End, StillToCome
<1>2. req[r] # Idle
  BY DEF End, Idle
<1>3. QED BY <1>1, <1>2 DEF IInv, OwedAccounted

\* A submission that runs to its end leaves an assignable mail behind only if
\* something failed for that mail's own label, or the database failed before:
\* the labels do not hold up each other. (submit_interesting)
THEOREM LabelsOnTheirOwn == Spec => LeftBehindOnlyIf
<1>1. IInv /\ IInv' /\ [Next]_vars =>
        [\A r \in Requests : End(r) =>
           \A m \in req[r].owed :
              \/ copies[m] > 0 \/ age[m] = "expired"
              \/ LabelOf(m) \in req[r].failed \/ req[r].aborted]_vars
  BY EndsWithNothingOwed
<1>2. QED BY <1>1, Invariance, PTL DEF Spec, LeftBehindOnlyIf

===============================================================================
