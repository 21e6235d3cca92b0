--------------------------- MODULE MailWatcherProofs ---------------------------
(***************************************************************************)
(* What the watcher guarantees for every mailbox, every size of the seen   *)
(* cache and any number of faults: which mails the cursor may pass over,   *)
(* which may be published twice, and over what the cursor may move back.   *)
(***************************************************************************)
EXTENDS MailWatcher, FiniteSetTheorems, SequenceTheorems, TLAPS

-------------------------------------------------------------------------------
(* The inductive invariant *)

\* The watcher is in the middle of _handle_new_uids.
InBatch == pc \in {"fetch", "mail", "save"}
Batch == todo \cup processed

\* A mail that was published is recorded by the cursor, about to be, or cut off.
Recorded ==
  \A uid \in mailbox \cap published :
    uid <= cursor \/ uid \in cut \/ (InBatch /\ uid \in processed)

\* What is still to be looked at and has been published is old or was cut off;
\* what is processed is old or has been published.
BatchRecorded ==
  InBatch =>
    /\ \A uid \in todo : uid \in published => uid <= cursor \/ uid \in cut
    /\ \A uid \in processed : uid <= cursor \/ uid \in published

\* A batch is an interval of the folder: above each of its mails only newer
\* ones than the cursor, below it and above the cursor only mails that the
\* batch or an earlier one has taken up.
BatchComplete ==
  InBatch =>
    \A uid \in Batch, other \in mailbox :
      /\ uid < other => cursor < other
      /\ other < uid /\ cursor < other => other \in todo \cup published \cup failed

BatchPhases ==
  /\ pc = "fetch" => processed = {}
  /\ pc = "save" => todo = {}

\* A mail that is skipped as seen is old or has been published.
SeenRecorded == \A uid \in mailbox \cap Range(seen) : uid <= cursor \/ uid \in published

\* The cursor is 0 until the first initialisation, and afterwards only while
\* the folder has held no mail.
Installation ==
  /\ pc \in {"idle", "search"} \/ InBatch => installed
  /\ ~installed => cursor = 0
  /\ base > 0 => cursor > 0

IInv ==
  /\ TypeOK
  /\ Recorded /\ BatchRecorded /\ BatchComplete /\ BatchPhases /\ SeenRecorded /\ Installation
  /\ NothingSkippedSilently /\ RepeatedOnlyWhenCutOff

-------------------------------------------------------------------------------
(* The seen cache *)

\* A sequence of uids stays one when more uids are known.
LEMMA SeqMonotone ==
  ASSUME NEW S, NEW T, S \subseteq T, NEW s \in Seq(S)
  PROVE  s \in Seq(T)
<1>1. Len(s) \in Nat /\ s \in [1 .. Len(s) -> S]
  OBVIOUS
<1>2. s \in [1 .. Len(s) -> T]
  BY <1>1
<1>3. QED BY <1>1, <1>2

\* What enters the cache are the processed uids, and its length stays in bounds.
LEMMA Remembering ==
  ASSUME TypeOK, Remember
  PROVE  /\ seen' \in Seq(1 .. uidnext - 1) /\ Len(seen') <= SeenCap
         /\ Range(seen') \subseteq Range(seen) \cup processed
<1> DEFINE S == 1 .. uidnext - 1
<1>1. uidnext \in Nat /\ seen \in Seq(S) /\ processed \in SUBSET S /\ SeenCap \in Nat
  BY WatcherAssumption DEF TypeOK
<1>2. PICK late \in Ascending(processed) :
        seen' = SubSeq(seen \o late,
                       1 + (IF Len(seen \o late) > SeenCap THEN Len(seen \o late) - SeenCap ELSE 0),
                       Len(seen \o late))
  BY DEF Remember
<1> DEFINE all == seen \o late
           from == 1 + (IF Len(all) > SeenCap THEN Len(all) - SeenCap ELSE 0)
<1>3. IsFiniteSet(processed) /\ Cardinality(processed) \in Nat
  <2>1. IsFiniteSet(S)
    BY <1>1, FS_Interval
  <2>2. IsFiniteSet(processed)
    BY <1>1, <2>1, FS_Subset
  <2>3. QED BY <2>2, FS_CardinalityType
<1>4. late \in [1 .. Cardinality(processed) -> processed]
  BY DEF Ascending
<1>5. late \in Seq(processed)
  BY <1>3, <1>4
<1>6. late \in Seq(S)
  BY <1>1, <1>5, SeqMonotone
<1> HIDE DEF S
<1>7. all \in Seq(S) /\ Len(all) \in Nat /\ Len(all) = Len(seen) + Len(late)
      /\ \A i \in 1 .. Len(all) : all[i] = IF i <= Len(seen) THEN seen[i] ELSE late[i - Len(seen)]
  BY <1>1, <1>6, ConcatProperties
<1> HIDE DEF all
<1>8. from \in 1 .. Len(all) + 1 /\ Len(all) - from + 1 <= SeenCap
  BY <1>1, <1>7
<1> HIDE DEF from
<1>9. seen' = SubSeq(all, from, Len(all))
  BY <1>2 DEF all, from
<1>10. /\ seen' \in Seq(S) /\ Len(seen') = Len(all) - from + 1
       /\ \A i \in 1 .. Len(seen') : seen'[i] = all[from + i - 1]
  BY <1>7, <1>8, <1>9, SubSeqProperties
<1>11. DOMAIN seen' = 1 .. Len(seen') /\ DOMAIN seen = 1 .. Len(seen) /\ DOMAIN late = 1 .. Len(late)
       /\ Len(seen) \in Nat /\ Len(late) \in Nat
  BY <1>1, <1>6, <1>10
<1>12. ASSUME NEW i \in 1 .. Len(seen') PROVE seen'[i] \in Range(seen) \cup processed
  <2>1. PICK j \in 1 .. Len(all) : seen'[i] = all[j]
    <3>1. from + i - 1 \in 1 .. Len(all)
      BY <1>7, <1>8, <1>10
    <3>2. QED BY <1>10, <3>1
  <2>2. CASE j <= Len(seen)
    BY <1>7, <1>11, <2>1, <2>2 DEF Range
  <2>3. CASE ~(j <= Len(seen))
    <3>1. j - Len(seen) \in DOMAIN late
      BY <1>7, <1>11, <2>3
    <3>2. late[j - Len(seen)] \in processed
      BY <1>4, <3>1
    <3>3. QED BY <1>7, <2>1, <2>3, <3>2
  <2>4. QED BY <2>2, <2>3
<1>13. Range(seen') \subseteq Range(seen) \cup processed
  BY <1>11, <1>12 DEF Range
<1>14. QED BY <1>8, <1>10, <1>13 DEF S

-------------------------------------------------------------------------------
(* Steps of the mail server *)

\* New mail lies above the cursor and above every uid seen so far.
LEMMA ArriveKeeps ==
  ASSUME IInv, Arrive
  PROVE  IInv'
<1> USE DEF IInv, Arrive, batchVars, history, passed
<1>1. TypeOK'
  <2>1. uidnext \in Nat \ {0} /\ uidnext' = uidnext + 1 /\ 1 .. uidnext - 1 \subseteq 1 .. uidnext' - 1
    BY DEF TypeOK
  <2>2. seen' \in Seq(1 .. uidnext' - 1)
    BY <2>1, SeqMonotone DEF TypeOK
  <2>3. /\ uidnext' \in 1 .. MaxUid + 1 /\ mailbox' \subseteq 1 .. uidnext' - 1 /\ notice' \in BOOLEAN
        /\ pc' \in Locations /\ cursor' \in 0 .. uidnext' - 1 /\ base' \in 0 .. uidnext' - 1
    BY <2>1, WatcherAssumption DEF TypeOK
  <2>4. QED BY <2>1, <2>2, <2>3 DEF TypeOK
<1>2. \A uid \in mailbox' : uid \in mailbox \/ uid = uidnext
  OBVIOUS
<1>3. /\ uidnext \in Nat /\ cursor \in Nat /\ cursor < uidnext /\ uidnext \notin published
      /\ uidnext \notin Range(seen) /\ \A uid \in Batch : uid \in Nat /\ uid < uidnext
  BY DEF TypeOK, Range, Batch
<1>4. Recorded' /\ BatchRecorded'
  BY <1>2, <1>3 DEF Recorded, BatchRecorded, InBatch
<1>5. BatchComplete'
  BY <1>2, <1>3 DEF BatchComplete, Batch, InBatch
<1>6. SeenRecorded'
  BY <1>2, <1>3 DEF SeenRecorded
<1>7. BatchPhases' /\ Installation' /\ RepeatedOnlyWhenCutOff'
  BY DEF BatchPhases, Installation, InBatch, RepeatedOnlyWhenCutOff
<1>8. NothingSkippedSilently'
  BY <1>2, <1>3 DEF NothingSkippedSilently
<1>9. QED BY <1>1, <1>4, <1>5, <1>6, <1>7, <1>8

\* Mail that is gone, or a notice, changes nothing the watcher owes.
LEMMA AsideKeeps ==
  ASSUME IInv, mailbox' \subseteq mailbox, notice' \in BOOLEAN,
         UNCHANGED <<uidnext, pc, cursor, seen, batchVars, history, faults>>
  PROVE  IInv'
<1> USE DEF IInv, batchVars, history, passed
<1>1. TypeOK'
  BY DEF TypeOK
<1>2. Recorded' /\ BatchRecorded' /\ BatchComplete' /\ SeenRecorded' /\ BatchPhases' /\ Installation'
  BY DEF Recorded, BatchRecorded, BatchComplete, Batch, SeenRecorded, InBatch, BatchPhases, Installation
<1>3. NothingSkippedSilently' /\ RepeatedOnlyWhenCutOff'
  BY DEF NothingSkippedSilently, RepeatedOnlyWhenCutOff
<1>4. QED BY <1>1, <1>2, <1>3

-------------------------------------------------------------------------------
(* Steps between two batches *)

\* Outside of a batch the watcher moves without touching what is recorded.
LEMMA MoveKeeps ==
  ASSUME IInv, ~InBatch, pc' \in Locations, ~InBatch', notice' \in BOOLEAN,
         pc' \in {"idle", "search"} => installed,
         seen' = seen \/ seen' = <<>>, todo' \in {todo, {}}, processed' \in {processed, {}},
         UNCHANGED <<mailVars, cursor, history, faults>>
  PROVE  IInv'
<1> USE DEF IInv, mailVars, history, passed
<1>1. TypeOK'
  <2>1. seen' \in Seq(1 .. uidnext - 1) /\ Len(seen') <= SeenCap
    <3>1. CASE seen' = seen
      BY <3>1 DEF TypeOK
    <3>2. CASE seen' = <<>>
      <4>1. <<>> \in Seq(1 .. uidnext - 1) /\ Len(<<>>) = 0 /\ 0 <= SeenCap
        BY WatcherAssumption
      <4>2. QED BY <3>2, <4>1
    <3>3. QED BY <3>1, <3>2
  <2>2. QED BY <2>1 DEF TypeOK
<1>2. Range(seen') \subseteq Range(seen)
  BY DEF Range
<1>3. Recorded' /\ BatchRecorded' /\ BatchComplete'
  BY DEF Recorded, BatchRecorded, BatchComplete
<1>4. BatchPhases' /\ Installation'
  BY DEF BatchPhases, Installation, InBatch
<1>5. SeenRecorded'
  BY <1>2 DEF SeenRecorded
<1>6. NothingSkippedSilently' /\ RepeatedOnlyWhenCutOff'
  BY DEF NothingSkippedSilently, RepeatedOnlyWhenCutOff
<1>7. QED BY <1>1, <1>3, <1>4, <1>5, <1>6

\* The first initialisation defines what counts as old; a later one still finds
\* the cursor at 0 only in a folder that had been empty.
LEMMA InitLastUidKeeps ==
  ASSUME IInv, InitLastUid
  PROVE  IInv'
<1> USE DEF IInv, InitLastUid, mailVars, batchVars, Command
<1>1. /\ uidnext \in Nat \ {0} /\ cursor \in Nat /\ base \in Nat /\ cursor' \in Nat
      /\ base' \in Nat /\ base' \in 0 .. uidnext - 1 /\ cursor' \in 0 .. uidnext - 1
      /\ cursor <= cursor' /\ \A uid \in mailbox : uid \in Nat /\ uid < uidnext
  BY DEF TypeOK
<1>2. TypeOK'
  <2>1. passedOver' \subseteq 1 .. uidnext - 1
    BY DEF TypeOK
  <2>2. QED BY <1>1, <2>1 DEF TypeOK, Locations
<1>3. Recorded'
  BY <1>1 DEF Recorded, InBatch
<1>4. ~InBatch'
  BY DEF InBatch
<1>5. BatchRecorded' /\ BatchComplete' /\ BatchPhases'
  BY <1>4 DEF BatchRecorded, BatchComplete, BatchPhases
<1>6. SeenRecorded'
  BY <1>1 DEF SeenRecorded
<1>7. Installation'
  BY <1>1 DEF Installation
<1>8. NothingSkippedSilently'
  <2>1. CASE ~installed
    BY <1>1, <2>1 DEF NothingSkippedSilently, Installation
  <2>2. CASE installed /\ cursor = 0
    BY <1>1, <2>2 DEF NothingSkippedSilently, Installation
  <2>3. CASE installed /\ cursor # 0
    BY <2>3 DEF NothingSkippedSilently
  <2>4. QED BY <2>1, <2>2, <2>3
<1>9. RepeatedOnlyWhenCutOff'
  BY DEF RepeatedOnlyWhenCutOff
<1>10. QED BY <1>2, <1>3, <1>5, <1>6, <1>7, <1>8, <1>9

-------------------------------------------------------------------------------
(* Steps of a batch *)

\* The search takes up every mail above the cursor, except those seen.
LEMMA SearchKeeps ==
  ASSUME IInv, Search
  PROVE  IInv'
<1> USE DEF IInv, Search, mailVars, history, passed, Command
<1> DEFINE fresh == SearchFrom(cursor + 1) \ Range(seen)
<1>1. /\ cursor \in Nat /\ uidnext \in Nat /\ \A uid \in mailbox : uid \in Nat /\ uid \in 1 .. uidnext - 1
  BY DEF TypeOK
<1>2. fresh \subseteq mailbox
  BY DEF SearchFrom
<1>3. \A uid \in fresh, other \in mailbox : uid < other => cursor < other
  <2>1. ASSUME NEW uid \in fresh, NEW other \in mailbox, uid < other PROVE cursor < other
    BY <1>1, <1>2, <2>1 DEF SearchFrom
  <2>2. QED BY <2>1
<1>4. \A uid \in fresh, other \in mailbox : other < uid /\ cursor < other => other \in fresh \cup published
  <2>1. ASSUME NEW uid \in fresh, NEW other \in mailbox, other < uid, cursor < other
        PROVE  other \in fresh \cup published
    <3>1. other \in SearchFrom(cursor + 1)
      BY <1>1, <2>1 DEF SearchFrom
    <3>2. CASE other \in Range(seen)
      BY <1>1, <2>1, <3>2 DEF SeenRecorded
    <3>3. QED BY <3>1, <3>2
  <2>2. QED BY <2>1
<1>5. todo' = fresh /\ processed' = {} /\ pc' \in {"idle", "fetch"} /\ pc = "search"
  OBVIOUS
<1> HIDE DEF fresh
<1>6. TypeOK'
  BY <1>1, <1>2, <1>5 DEF TypeOK, Locations
<1>7. Recorded'
  BY <1>5 DEF Recorded, InBatch
<1>8. BatchRecorded'
  BY <1>2, <1>5 DEF Recorded, BatchRecorded, InBatch
<1>9. BatchComplete'
  BY <1>3, <1>4, <1>5 DEF BatchComplete, Batch
<1>10. BatchPhases' /\ Installation'
  BY <1>5 DEF BatchPhases, Installation, InBatch
<1>11. SeenRecorded' /\ NothingSkippedSilently' /\ RepeatedOnlyWhenCutOff'
  BY DEF SeenRecorded, NothingSkippedSilently, RepeatedOnlyWhenCutOff
<1>12. QED BY <1>6, <1>7, <1>8, <1>9, <1>10, <1>11

\* Mail that is gone leaves the batch.
LEMMA FetchKeeps ==
  ASSUME IInv, Fetch
  PROVE  IInv'
<1> USE DEF IInv, Fetch, mailVars, history, passed, Command
<1>1. pc = "fetch" /\ todo' = todo \cap mailbox /\ processed' = {} /\ pc' \in {"mail", "idle"}
  BY DEF BatchPhases
<1>2. TypeOK'
  BY <1>1 DEF TypeOK, Locations
<1>3. Recorded' /\ BatchRecorded'
  BY <1>1 DEF Recorded, BatchRecorded, InBatch, BatchPhases
<1>4. BatchComplete'
  BY <1>1 DEF BatchComplete, Batch, InBatch
<1>5. BatchPhases' /\ Installation'
  BY <1>1 DEF BatchPhases, Installation, InBatch
<1>6. SeenRecorded' /\ NothingSkippedSilently' /\ RepeatedOnlyWhenCutOff'
  BY DEF SeenRecorded, NothingSkippedSilently, RepeatedOnlyWhenCutOff
<1>7. QED BY <1>2, <1>3, <1>4, <1>5, <1>6

\* One mail of the batch is dealt with: it is old, or published and processed,
\* or failed; it was published before only if that was cut off.
LEMMA MailKeeps ==
  ASSUME IInv, pc = "mail", NEW uid \in todo, NEW done \in {{}, {uid}}, Advance(uid, done),
         UNCHANGED <<mailVars, notice, cursor, seen, passed>>, faults' \in 0 .. MaxFaults,
         \/ uid <= cursor /\ UNCHANGED <<published, twice, failed, cut>>
         \/ /\ \/ UNCHANGED <<published, twice>>
               \/ RecordPublish(uid) /\ (uid \in done \/ uid \in cut')
            /\ uid \in published' \/ done = {}
            /\ uid \in published' \/ uid \in failed'
            /\ uid > cursor
            /\ cut' \in {cut, cut \cup {uid}} /\ failed' \in {failed, failed \cup {uid}}
  PROVE  IInv'
<1> USE DEF IInv, mailVars, passed
<1>1. /\ todo' = todo \ {uid} /\ processed' = processed \cup done /\ pc' \in {"mail", "save", "idle"}
      /\ pc' = "idle" => processed' = {} /\ done = {}
      /\ pc' = "save" => todo' = {}
  BY DEF Advance
<1>2. /\ published \subseteq published' /\ published' \subseteq published \cup {uid}
      /\ cut \subseteq cut' /\ failed \subseteq failed' /\ twice \subseteq twice'
      /\ twice' \subseteq twice \cup {uid}
      /\ uid \in twice' => uid \in twice \/ uid \in published
  BY DEF RecordPublish
<1>3. TypeOK'
  <2>1. /\ todo' \subseteq 1 .. uidnext - 1 /\ processed' \subseteq 1 .. uidnext - 1
        /\ pc' \in Locations
    BY <1>1 DEF TypeOK, Locations
  <2>2. uid \in 1 .. uidnext - 1
    BY DEF TypeOK
  <2>3. /\ published' \subseteq 1 .. uidnext - 1 /\ twice' \subseteq 1 .. uidnext - 1
        /\ failed' \subseteq 1 .. uidnext - 1 /\ cut' \subseteq 1 .. uidnext - 1
    <3>1. /\ published \subseteq 1 .. uidnext - 1 /\ twice \subseteq 1 .. uidnext - 1
          /\ failed \subseteq 1 .. uidnext - 1 /\ cut \subseteq 1 .. uidnext - 1
      BY DEF TypeOK
    <3>2. failed' \subseteq failed \cup {uid} /\ cut' \subseteq cut \cup {uid}
      OBVIOUS
    <3>3. QED BY <1>2, <2>2, <3>1, <3>2
  <2>4. QED BY <2>1, <2>3 DEF TypeOK
<1>4. InBatch
  BY DEF InBatch
<1>5. cursor \in Nat /\ uid \in Nat
  BY DEF TypeOK
<1>6. Recorded'
  <2>1. ASSUME NEW u \in mailbox, u \in published'
        PROVE  u <= cursor \/ u \in cut' \/ (InBatch' /\ u \in processed')
    <3>1. CASE u \in published /\ ~(u \in processed)
      BY <1>2, <1>4, <2>1, <3>1 DEF Recorded
    <3>2. CASE u \in processed
      BY <1>1, <3>2 DEF InBatch
    <3>3. CASE u = uid /\ u \notin published
      BY <1>1, <1>2, <1>5, <2>1, <3>3 DEF InBatch
    <3>4. QED BY <1>2, <2>1, <3>1, <3>2, <3>3
  <2>2. QED BY <2>1 DEF Recorded
<1>7. BatchRecorded'
  BY <1>1, <1>2, <1>4 DEF BatchRecorded, InBatch
<1>8. uid <= cursor \/ uid \in published' \cup failed'
  BY <1>5
<1>9. BatchComplete'
  <2>1. Batch' \subseteq Batch
    BY <1>1 DEF Batch
  <2>2. ASSUME NEW u \in Batch', NEW other \in mailbox
        PROVE  /\ u < other => cursor < other
               /\ other < u /\ cursor < other => other \in todo' \cup published' \cup failed'
    <3>1. /\ u < other => cursor < other
          /\ other < u /\ cursor < other => other \in todo \cup published \cup failed
      BY <1>4, <2>1 DEF BatchComplete
    <3>2. cursor < other => ~(other <= cursor)
      BY <1>5 DEF TypeOK
    <3>3. QED BY <1>1, <1>2, <1>8, <3>1, <3>2
  <2>3. QED BY <2>2 DEF BatchComplete
<1>10. BatchPhases' /\ Installation'
  BY <1>1, <1>4 DEF BatchPhases, Installation, InBatch
<1>11. SeenRecorded' /\ NothingSkippedSilently'
  BY <1>2 DEF SeenRecorded, NothingSkippedSilently
<1>12. RepeatedOnlyWhenCutOff'
  <2>1. uid \in twice' => uid \in cut'
    BY <1>2, <1>4, <1>5 DEF BatchRecorded, RepeatedOnlyWhenCutOff, RecordPublish
  <2>2. twice \subseteq cut
    BY DEF RepeatedOnlyWhenCutOff
  <2>3. QED BY <1>2, <2>1, <2>2 DEF RepeatedOnlyWhenCutOff
<1>13. QED BY <1>3, <1>6, <1>7, <1>9, <1>10, <1>11, <1>12

\* The cursor is set to a uid of the batch: every mail between the old and the
\* new position has been taken up, and none lies between them if it moves back.
LEMMA SaveCursorKeeps ==
  ASSUME IInv, SaveCursor
  PROVE  IInv' /\ \A uid \in mailbox : ~(cursor' < uid /\ uid <= cursor)
<1> USE DEF IInv, SaveCursor, mailVars, history, passed
<1>1. PICK c \in processed : cursor' = c /\ \A other \in processed : other <= c
  OBVIOUS
<1>2. pc = "save" /\ pc' = "idle" /\ todo = {} /\ processed' = {} /\ InBatch /\ ~InBatch'
  BY DEF BatchPhases, InBatch
<1>3. /\ c \in Nat \ {0} /\ c \in 1 .. uidnext - 1 /\ cursor \in Nat /\ base \in Nat
      /\ uidnext \in Nat /\ \A uid \in mailbox \cup processed : uid \in Nat
  BY DEF TypeOK
<1>4. ASSUME NEW uid \in mailbox PROVE ~(c < uid /\ uid <= cursor)
  <2>1. c < uid => cursor < uid
    BY <1>2 DEF BatchComplete, Batch
  <2>2. QED BY <1>3, <2>1
<1>5. ASSUME NEW uid \in mailbox, uid <= c, cursor < uid
      PROVE  \/ uid \in published
             \/ uid \in failed /\ uid < c /\ c \in published
  BY <1>2, <1>3, <1>5 DEF BatchComplete, BatchRecorded, Batch
<1>6. /\ seen' \in Seq(1 .. uidnext - 1) /\ Len(seen') <= SeenCap
      /\ Range(seen') \subseteq Range(seen) \cup processed
  BY Remembering
<1>7. TypeOK'
  BY <1>1, <1>2, <1>3, <1>6 DEF TypeOK, Locations
<1>8. Recorded'
  <2>1. ASSUME NEW uid \in mailbox, uid \in published PROVE uid <= c \/ uid \in cut
    BY <1>1, <1>3, <1>4, <2>1 DEF Recorded
  <2>2. QED BY <1>1, <2>1 DEF Recorded
<1>9. BatchRecorded' /\ BatchComplete' /\ BatchPhases' /\ Installation'
  BY <1>1, <1>2, <1>3 DEF BatchRecorded, BatchComplete, BatchPhases, Installation
<1>10. SeenRecorded'
  <2>1. ASSUME NEW uid \in mailbox, uid \in Range(seen) \cup processed PROVE uid <= c \/ uid \in published
    BY <1>1, <1>3, <1>4, <2>1 DEF SeenRecorded
  <2>2. QED BY <1>1, <1>6, <2>1 DEF SeenRecorded
<1>11. NothingSkippedSilently'
  <2>1. ASSUME NEW uid \in mailbox, base < uid, uid <= c, uid \notin published
        PROVE  \/ uid \in failed /\ \E later \in published : uid < later
               \/ uid \in passedOver /\ base = 0
    <3>1. CASE uid <= cursor
      BY <2>1, <3>1 DEF NothingSkippedSilently
    <3>2. CASE cursor < uid
      BY <1>5, <2>1, <3>2
    <3>3. QED BY <1>3, <3>1, <3>2
  <2>2. QED BY <1>1, <2>1 DEF NothingSkippedSilently
<1>12. RepeatedOnlyWhenCutOff'
  BY DEF RepeatedOnlyWhenCutOff
<1>13. \A uid \in mailbox : ~(cursor' < uid /\ uid <= cursor)
  BY <1>1, <1>4
<1>14. QED BY <1>7, <1>8, <1>9, <1>10, <1>11, <1>12, <1>13

\* A batch that breaks off leaves what it has published on record as cut off.
LEMMA CutOffKeeps ==
  ASSUME IInv, CutOff, pc' \in {"disconnected", "down"}, faults' \in 0 .. MaxFaults,
         seen' = seen \/ (InBatch /\ Remember),
         UNCHANGED <<mailVars, notice, cursor, batchVars, passed, published, twice, failed>>
  PROVE  IInv'
<1> USE DEF IInv, mailVars, batchVars, passed
<1>1. ~InBatch'
  BY DEF InBatch
<1>2. /\ seen' \in Seq(1 .. uidnext - 1) /\ Len(seen') <= SeenCap
      /\ Range(seen') \subseteq Range(seen) \/ (InBatch /\ Range(seen') \subseteq Range(seen) \cup processed)
  BY Remembering DEF TypeOK
<1>3. cut' = cut \cup (processed \cap published)
  BY DEF CutOff
<1>4. TypeOK'
  <2>1. cut' \subseteq 1 .. uidnext - 1 /\ pc' \in Locations
    BY <1>3 DEF TypeOK, Locations
  <2>2. QED BY <1>2, <2>1 DEF TypeOK
<1>5. Recorded'
  BY <1>3 DEF Recorded
<1>6. BatchRecorded' /\ BatchComplete' /\ BatchPhases' /\ Installation'
  BY <1>1 DEF BatchRecorded, BatchComplete, BatchPhases, Installation
<1>7. SeenRecorded'
  BY <1>2 DEF SeenRecorded, BatchRecorded
<1>8. NothingSkippedSilently' /\ RepeatedOnlyWhenCutOff'
  BY <1>3 DEF NothingSkippedSilently, RepeatedOnlyWhenCutOff
<1>9. QED BY <1>4, <1>5, <1>6, <1>7, <1>8

-------------------------------------------------------------------------------
(* The invariant *)

\* Before the first start nothing is recorded and nothing is owed.
LEMMA InitInv == Init => IInv
<1> SUFFICES ASSUME Init PROVE IInv
  OBVIOUS
<1> USE DEF Init
<1>1. TypeOK
  <2>1. uidnext \in 1 .. MaxUid + 1 /\ faults \in 0 .. MaxFaults /\ mailbox \in SUBSET (1 .. uidnext - 1)
    BY WatcherAssumption
  <2>2. seen \in Seq(1 .. uidnext - 1) /\ Len(seen) <= SeenCap
    BY WatcherAssumption
  <2>3. cursor \in 0 .. uidnext - 1 /\ base \in 0 .. uidnext - 1
    BY <2>1
  <2>4. notice \in BOOLEAN /\ installed \in BOOLEAN /\ pc \in Locations
    BY DEF Locations
  <2>5. QED BY <2>1, <2>2, <2>3, <2>4 DEF TypeOK
<1>2. Range(seen) = {}
  BY DEF Range
<1>3. QED BY <1>1, <1>2
  DEF IInv, Recorded, BatchRecorded, BatchComplete, BatchPhases, SeenRecorded, Installation, InBatch,
      NothingSkippedSilently, RepeatedOnlyWhenCutOff

\* A step keeps the invariant, and moves the cursor back over no mail.
LEMMA NextInv ==
  ASSUME IInv, [Next]_vars
  PROVE  IInv' /\ \A uid \in mailbox : ~(cursor' < uid /\ uid <= cursor)
<1>f. Fault => faults' \in 0 .. MaxFaults
  BY WatcherAssumption DEF Fault, IInv, TypeOK
<1>t. /\ cursor \in Nat /\ uidnext \in Nat \ {0} /\ pc \in Locations /\ notice \in BOOLEAN
      /\ faults \in 0 .. MaxFaults /\ \A uid \in mailbox : uid \in Nat
  BY DEF IInv, TypeOK
<1>k. cursor' = cursor => \A uid \in mailbox : ~(cursor' < uid /\ uid <= cursor)
  BY <1>t
<1>1. CASE Arrive
  <2>1. cursor' = cursor
    BY <1>1 DEF Arrive
  <2>2. QED BY <1>1, <1>k, <2>1, ArriveKeeps
<1>2. CASE (\E uid \in Uids : Expunge(uid)) \/ KeepAlive \/ ReissueIdle \/ UNCHANGED vars
  <2>1. /\ mailbox' \subseteq mailbox /\ notice' \in BOOLEAN
        /\ UNCHANGED <<uidnext, pc, cursor, seen, batchVars, history, faults>>
    <3>1. CASE \E uid \in Uids : Expunge(uid)
      BY <3>1 DEF Expunge, Online
    <3>2. CASE KeepAlive \/ ReissueIdle \/ UNCHANGED vars
      BY <3>2, <1>t DEF KeepAlive, ReissueIdle, vars, mailVars, batchVars, history, passed
    <3>3. QED BY <1>2, <3>1, <3>2
  <2>2. QED BY <1>k, <2>1, AsideKeeps
<1>3. CASE StartProcess \/ Connect \/ IdleResponse
  <2>1. /\ ~InBatch /\ pc' \in Locations /\ ~InBatch' /\ notice' \in BOOLEAN
        /\ pc' \in {"idle", "search"} => installed
        /\ seen' = seen \/ seen' = <<>>
        /\ todo' \in {todo, {}} /\ processed' \in {processed, {}}
        /\ UNCHANGED <<mailVars, cursor, history, faults>>
    BY <1>3, <1>t DEF StartProcess, Connect, IdleResponse, InBatch, Locations, batchVars, IInv, Installation
  <2>2. QED BY <1>k, <2>1, MoveKeeps
<1>4. CASE InitLastUid
  <2>1. cursor <= cursor' /\ cursor' \in Nat
    BY <1>4, <1>t DEF InitLastUid
  <2>2. QED BY <1>4, <1>t, <2>1, InitLastUidKeeps
<1>5. CASE Search
  <2>1. cursor' = cursor
    BY <1>5 DEF Search
  <2>2. QED BY <1>5, <1>k, <2>1, SearchKeeps
<1>6. CASE Fetch
  <2>1. cursor' = cursor
    BY <1>6 DEF Fetch
  <2>2. QED BY <1>6, <1>k, <2>1, FetchKeeps
<1>7. ASSUME NEW uid \in todo, SkipOld(uid)
      PROVE  IInv' /\ cursor' = cursor
  BY <1>7, <1>t, MailKeeps DEF SkipOld, history, passed
<1>8. ASSUME NEW uid \in todo, PublishMail(uid)
      PROVE  IInv' /\ cursor' = cursor
  <2>1. uid \in published'
    BY <1>8 DEF PublishMail, RecordPublish
  <2>2. QED BY <1>8, <1>t, <2>1, MailKeeps DEF PublishMail
<1>9. ASSUME NEW uid \in todo, PublishFails(uid)
      PROVE  IInv' /\ cursor' = cursor
  BY <1>9, <1>f, MailKeeps DEF PublishFails
<1>10. CASE SaveCursor
  BY <1>10, SaveCursorKeeps
<1>11. CASE SaveFails \/ Disconnect \/ Crash
  <2>1. /\ CutOff /\ pc' \in {"disconnected", "down"} /\ faults' \in 0 .. MaxFaults
        /\ seen' = seen \/ (InBatch /\ Remember)
        /\ UNCHANGED <<mailVars, notice, cursor, batchVars, passed, published, twice, failed>>
    BY <1>11, <1>f DEF SaveFails, Disconnect, Crash, InBatch
  <2>2. QED BY <1>k, <2>1, CutOffKeeps
<1>12. QED
  BY <1>1, <1>2, <1>3, <1>4, <1>5, <1>6, <1>7, <1>8, <1>9, <1>10, <1>11, <1>k DEF Next, Watcher

\* The inductive invariant holds whatever arrives, fails, or breaks off.
THEOREM Invariance == Spec => []IInv
<1>1. IInv /\ [Next]_vars => IInv'
  BY NextInv
<1>2. QED BY InitInv, <1>1, PTL DEF Spec

\* The types of the watcher's state, the bound of the seen cache included.
THEOREM TypeCorrect == Spec => []TypeOK
<1>1. IInv => TypeOK
  BY DEF IInv
<1>2. QED BY Invariance, <1>1, PTL

\* The cursor passes over a mail that stays in the folder only if it has been
\* published, was there before, failed before a later one, or was passed over
\* by an initialisation after an empty folder.
THEOREM NothingSkipped == Spec => []NothingSkippedSilently
<1>1. IInv => NothingSkippedSilently
  BY DEF IInv
<1>2. QED BY Invariance, <1>1, PTL

\* Only a mail whose publication could not be recorded is published again, for
\* every size of the seen cache.
THEOREM RepeatsAreCutOff == Spec => []RepeatedOnlyWhenCutOff
<1>1. IInv => RepeatedOnlyWhenCutOff
  BY DEF IInv
<1>2. QED BY Invariance, <1>1, PTL

\* No step moves the cursor back over a mail that is still in the folder.
THEOREM RetreatsOverGaps == Spec => RetreatsOverGapsOnly
<1>1. IInv /\ [Next]_vars => [\A uid \in mailbox : ~(cursor' < uid /\ uid <= cursor)]_vars
  BY NextInv
<1>2. QED BY Invariance, <1>1, PTL DEF Spec, RetreatsOverGapsOnly

===============================================================================
