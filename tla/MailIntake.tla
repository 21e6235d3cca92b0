----------------------------- MODULE MailIntake -----------------------------
(***************************************************************************)
(* mail-processor up to the stored mail: the consumer thread classifies    *)
(* the mails of mail-tracker by the centroids of labelled examples and     *)
(* stores those it recognises with their calendar (ICS) files; meanwhile   *)
(* HTTP requests add examples (create), fetch their embeddings (learn) and *)
(* rebuild the centroids (commit).  PostgreSQL runs READ COMMITTED: a      *)
(* statement sees the rows committed before it began, and waits for the    *)
(* rows another open transaction has deleted.                              *)
(* An embedding is a point of a line, a similarity a number up to 20.      *)
(***************************************************************************)
EXTENDS Integers, Sequences, FiniteSets, FiniteSetsExt, SequencesExt, TLC

CONSTANTS Mails, Trainers,
          Limit,           \* commit looks at the latest 1000 examples
          BatchSize,       \* CLASSIFY_BY_CENTROID_COMMIT_BATCH_SIZE
          MaxExamples, MaxCommits, MaxRestarts,   \* bounds
          None

ASSUME IntakeAssumption == {Limit, MaxExamples} \subseteq Nat \ {0} /\ BatchSize \in Nat

EndLabels == <<"applied", "meeting_inv", "meeting_action", "offer", "denied", "pending">>

Similarity(p, q) == 20 - 5 * (IF p < q THEN q - p ELSE p - q)
Margin == 1
Default == 11     \* CLASSIFY_BY_CENTROID_THRESHOLD

\* CLASSIFY_BY_CENTROID_THRESHOLDS: a value of its own for one label
ResolveThreshold(label) == IF label = "meeting_crt" THEN 16 ELSE Default

\* A calendar file cancels, requests a meeting (with a sequence number) or neither.
Cancel == [kind |-> "cancel", sequence |-> None]
Request(n) == [kind |-> "request", sequence |-> n]
Other == [kind |-> "other", sequence |-> 0]

Contents == {[point |-> 0, ics |-> <<>>],
             [point |-> 3, ics |-> <<Other, Request(0)>>],
             [point |-> 4, ics |-> <<Request(1), Cancel>>]}

VARIABLES
  inbox,      \* the mails on the bus: their content, None before they arrive
  delivery,   \* of each mail's message: "new", "pending" (delivered), "acked"
  replay,     \* the pending messages the restarted consumer has yet to see again
  handler,    \* the consumer thread
  examples,   \* embd_lrn by id: labelled texts, stored mails among them
  icsFiles,   \* ics_file_data: the mails whose files are stored
  centroids,  \* embd_cntr, committed
  trainer,    \* the HTTP requests in progress
  commits,    \* commits made: each makes a generation of centroids
  mixed,      \* history: labels a commit left with the clusters of another one
  dismissed,  \* history: mails the classification has rejected
  restarts

mail == <<inbox, delivery, replay, handler, dismissed, icsFiles>>
training == <<trainer, centroids, commits, mixed>>
vars == <<mail, examples, training, restarts>>

Idle == [pc |-> "idle"]

\* A text with its label; of a stored mail also what it was recognised by.
Example(label, point) ==
  [label |-> label, point |-> point, embedding |-> None, used |-> FALSE, mail |-> {}]
Trained(label, point) == [Example(label, point) EXCEPT !.embedding = point]

\* A row of the time before clusters and thresholds (both columns are NULL;
\* the missing cluster reads as 0).
Legacy == [commit |-> 0, label |-> "applied", cluster |-> 0, point |-> 2, threshold |-> None]

Init ==
  /\ inbox = [m \in Mails |-> None] /\ delivery = [m \in Mails |-> "new"]
  /\ replay = {} /\ handler = Idle /\ dismissed = {} /\ icsFiles = {}
  /\ examples = <<Trained("meeting_action", 4), Trained("applied", 0),
                 Trained("applied", 1), Trained("applied", 2)>>
  /\ centroids \in {{}, {Legacy}}
  /\ trainer = [t \in Trainers |-> Idle] /\ commits = 0 /\ mixed = {} /\ restarts = 0

-----------------------------------------------------------------------------
(* Classification *)

MeetingLabel(ics) ==
  LET telling == SelectSeq(ics, LAMBDA f : f.kind # "other")
  IN  CASE telling = <<>> -> "meeting_inv"
        [] telling # <<>> /\ Head(telling).kind = "cancel" -> "meeting_cncl"
        [] telling # <<>> /\ Head(telling) = Request(0) -> "meeting_crt"
        [] OTHER -> "meeting_upd"

FinalLabel(label, ics) == IF label = "meeting_action" THEN MeetingLabel(ics) ELSE label

RowsOf(label, cluster) == {c \in centroids : c.label = label /\ c.cluster = cluster}

\* The scores are kept by label and cluster: of two rows the later one counts,
\* whichever the unordered query returns later.
Scorers ==
  LET keys == {<<c.label, c.cluster>> : c \in centroids}
  IN  {f \in [keys -> centroids] : \A k \in keys : f[k] \in RowsOf(k[1], k[2])}

\* the best cluster, its label ahead of every other label by the margin
Recognised(point, f, k) ==
  \A j \in DOMAIN f :
     Similarity(point, f[j].point) + (IF j[1] = k[1] THEN 0 ELSE Margin)
       <= Similarity(point, f[k].point)

\* Slip: the cluster's number alone.
LocateByCluster(scorer) == {c \in centroids : c.cluster = scorer.cluster}

\* The threshold is looked up by label and cluster again: of two rows the first.
Locate(scorer) ==
  LET rows == RowsOf(scorer.label, scorer.cluster)
  IN  IF rows = {scorer} THEN rows ELSE rows \ {scorer}

Threshold(c, label) == IF c.threshold = None THEN ResolveThreshold(label) ELSE c.threshold

-----------------------------------------------------------------------------
(* The consumer thread *)

\* mail-tracker publishes a mail (an environment step).
Arrive(m) ==
  /\ inbox[m] = None
  /\ \E content \in Contents : inbox' = [inbox EXCEPT ![m] = content]
  /\ UNCHANGED <<delivery, replay, handler, dismissed, icsFiles, examples, training, restarts>>

Receive(m) ==
  /\ handler = Idle /\ inbox[m] # None
  /\ delivery[m] = "new" \/ m \in replay
  /\ delivery' = [delivery EXCEPT ![m] = "pending"]
  /\ replay' = replay \ {m}
  /\ handler' = [pc |-> "received", mail |-> m]
  /\ UNCHANGED <<inbox, dismissed, icsFiles, examples, training, restarts>>

\* OpenAI answers with the embedding.
Embed ==
  /\ handler.pc = "received"
  /\ handler' = [handler EXCEPT !.pc = "embedded"]
  /\ UNCHANGED <<inbox, delivery, replay, dismissed, icsFiles, examples, training, restarts>>

Dismiss ==
  /\ handler' = [handler EXCEPT !.pc = "handled"]
  /\ dismissed' = dismissed \cup {handler.mail}

\* Load the centroids and classify: no centroid, or none that is clearly the
\* best, or a score below the threshold dismisses the mail.
Classify ==
  /\ handler.pc = "embedded"
  /\ LET content == inbox[handler.mail]
     IN  \E f \in Scorers :
           \/ /\ \A k \in DOMAIN f : ~Recognised(content.point, f, k)
              /\ Dismiss
           \/ \E k \in DOMAIN f :
                /\ Recognised(content.point, f, k)
                /\ \E c \in Locate(f[k]) :
                     LET label == FinalLabel(k[1], content.ics)
                     IN  IF Similarity(content.point, f[k].point) < Threshold(c, label)
                         THEN Dismiss
                         ELSE /\ handler' = [pc |-> "classified", mail |-> handler.mail, label |-> label,
                                             scorer |-> f[k], located |-> c, mixed |-> k[1] \in mixed]
                              /\ UNCHANGED dismissed
  /\ UNCHANGED <<inbox, delivery, replay, icsFiles, examples, training, restarts>>

Stored(m) == \E i \in DOMAIN examples : \E stored \in examples[i].mail : stored.id = m

\* Slip: a mail that is stored already counts as done.
SaveMailOnce ==
  \/ /\ handler.pc = "classified" /\ ~Stored(handler.mail)
     /\ examples' = Append(examples,
          [Trained(handler.label, inbox[handler.mail].point) EXCEPT
             !.mail = {[id |-> handler.mail, scorer |-> handler.scorer,
                        located |-> handler.located, mixed |-> handler.mixed]}])
     /\ handler' = [pc |-> "saved", mail |-> handler.mail]
     /\ UNCHANGED <<inbox, delivery, replay, dismissed, icsFiles, training, restarts>>
  \/ /\ handler.pc = "classified" /\ Stored(handler.mail)
     /\ handler' = [pc |-> "handled", mail |-> handler.mail]
     /\ UNCHANGED <<inbox, delivery, replay, dismissed, icsFiles, examples, training, restarts>>

\* A transaction of its own; the inbox id is unique.
SaveMail ==
  /\ handler.pc = "classified"
  /\ ~Stored(handler.mail)
  /\ examples' = Append(examples,
       [Trained(handler.label, inbox[handler.mail].point) EXCEPT
          !.mail = {[id |-> handler.mail, scorer |-> handler.scorer,
                     located |-> handler.located, mixed |-> handler.mixed]}])
  /\ handler' = [pc |-> "saved", mail |-> handler.mail]
  /\ UNCHANGED <<inbox, delivery, replay, dismissed, icsFiles, training, restarts>>

SaveIcs ==
  /\ handler.pc = "saved"
  /\ icsFiles' = icsFiles \cup {m \in {handler.mail} : inbox[m].ics # <<>>}
  /\ handler' = [handler EXCEPT !.pc = "handled"]
  /\ UNCHANGED <<inbox, delivery, replay, dismissed, examples, training, restarts>>

Ack ==
  /\ handler.pc = "handled"
  /\ delivery' = [delivery EXCEPT ![handler.mail] = "acked"]
  /\ handler' = Idle
  /\ UNCHANGED <<inbox, replay, dismissed, icsFiles, examples, training, restarts>>

\* OpenAI or the database fails, or the mail is stored already (which it finds
\* out always): the error is logged and the message stays pending.
Fail ==
  /\ handler.pc \in {"received", "embedded", "classified", "saved"}
  /\ handler' = Idle
  /\ UNCHANGED <<inbox, delivery, replay, dismissed, icsFiles, examples, training, restarts>>

-----------------------------------------------------------------------------
(* Training *)

Rows(label) == {c \in centroids : c.label = label}
Busy(t) == trainer[t].pc \in {"committing", "deleting"}

\* POST /embd_lrn/create
Create(t) ==
  /\ trainer[t] = Idle /\ Len(examples) + Cardinality(Mails) < MaxExamples
  /\ \E example \in {Example("applied", 2), Example("meeting_action", 3)} :
       examples' = Append(examples, example)
  /\ UNCHANGED <<mail, training, restarts>>

Unused == {i \in DOMAIN examples : ~examples[i].used}

\* POST /embd_lrn/learn: read the unused examples, ask OpenAI, store the answers.
Learn(t) ==
  /\ trainer[t] = Idle /\ Unused # {}
  /\ \E i \in Unused : examples[i].embedding = None    \* else it changes nothing
  /\ trainer' = [trainer EXCEPT ![t] = [pc |-> "learning", ids |-> Unused]]
  /\ UNCHANGED <<mail, examples, centroids, commits, mixed, restarts>>

LearnSave(t) ==
  /\ trainer[t].pc = "learning"
  /\ examples' = [i \in DOMAIN examples |->
                    IF i \in trainer[t].ids
                    THEN [examples[i] EXCEPT !.embedding = examples[i].point] ELSE examples[i]]
  /\ trainer' = [trainer EXCEPT ![t] = Idle]
  /\ UNCHANGED <<mail, centroids, commits, mixed, restarts>>

Latest == {i \in DOMAIN examples : i > Len(examples) - Limit}

\* the embeddings of a label among these examples, the latest first
EmbeddingsOf(label, ids) ==
  LET rows == {i \in ids : examples[i].label = label}
      Later(i) == {j \in rows : j > i}
  IN  [n \in 1..Cardinality(rows) |->
         examples[CHOOSE i \in rows : Cardinality(Later(i)) = n - 1].embedding]

\* POST /embd_lrn/commit: refused as long as one of the examples has no embedding.
Commit(t) ==
  /\ trainer[t] = Idle
  /\ commits + Cardinality({u \in Trainers : Busy(u)}) < MaxCommits
  /\ \A i \in Latest : examples[i].embedding # None
  /\ LET vectors == [label \in ToSet(EndLabels) |-> EmbeddingsOf(label, Latest)]
     IN  trainer' = [trainer EXCEPT ![t] =
           [pc |-> "committing", ids |-> Latest, vectors |-> vectors,
            todo |-> {n \in DOMAIN EndLabels : vectors[EndLabels[n]] # <<>>},
            started |-> {}, seen |-> {}, deleted |-> {}, missed |-> {}]]
  /\ UNCHANGED <<mail, examples, centroids, commits, mixed, restarts>>

\* DELETE of the next label's centroids: the statement sees what is committed ...
Delete(t) ==
  /\ trainer[t].pc = "committing"
  /\ \E n \in trainer[t].todo :
       /\ \A k \in trainer[t].todo : n <= k
       /\ trainer' = [trainer EXCEPT ![t].pc = "deleting", ![t].todo = @ \ {n},
                                     ![t].seen = Rows(EndLabels[n]),
                                     ![t].started = @ \cup {EndLabels[n]}]
  /\ UNCHANGED <<mail, examples, centroids, commits, mixed, restarts>>

\* Slip: the deletion is committed at once.
DeleteAtOnce(t) ==
  /\ trainer[t].pc = "deleting"
  /\ trainer' = [trainer EXCEPT ![t].pc = "committing"]
  /\ centroids' = centroids \ trainer[t].seen
  /\ UNCHANGED <<mail, examples, commits, mixed, restarts>>

\* ... waits for the rows other transactions have deleted, and takes the rest.
DeleteDone(t) ==
  /\ trainer[t].pc = "deleting"
  /\ \A u \in Trainers \ {t} : Busy(u) => trainer[u].deleted \cap trainer[t].seen = {}
  /\ trainer' = [trainer EXCEPT ![t].pc = "committing",
                                ![t].deleted = @ \cup (trainer[t].seen \cap centroids)]
  /\ UNCHANGED <<mail, examples, centroids, commits, mixed, restarts>>

Mean(points) == FoldSeq(+, 0, points) \div Len(points)

\* A cluster of one is held to the configured threshold, a larger one to four
\* fifths of the similarity of its farthest member.
ClusterThreshold(label, points) ==
  IF Len(points) < 2 THEN ResolveThreshold(label)
  ELSE (4 * Min({Similarity(Mean(points), points[n]) : n \in DOMAIN points})) \div 5

Clusters(label, points) ==
  LET size == Max({3, BatchSize})
      Cluster(k) == SubSeq(points, (k - 1) * size + 1, Min({k * size, Len(points)}))
  IN  {[commit |-> commits + 1, label |-> label, cluster |-> k, point |-> Mean(Cluster(k)),
        threshold |-> ClusterThreshold(label, Cluster(k))]
         : k \in {k \in 1..Len(points) : (k - 1) * size < Len(points)}}

\* The new clusters and the marks of the examples become visible together.
CommitDone(t) ==
  /\ trainer[t].pc = "committing" /\ trainer[t].todo = {}
  /\ LET new == {label \in DOMAIN trainer[t].vectors : trainer[t].vectors[label] # <<>>}
     IN  /\ centroids' = (centroids \ trainer[t].deleted)
                           \cup UNION {Clusters(label, trainer[t].vectors[label]) : label \in new}
         /\ mixed' = (mixed \ new) \cup trainer[t].missed
         /\ trainer' = [u \in Trainers |->
              IF u = t THEN Idle
              ELSE IF Busy(u) THEN [trainer[u] EXCEPT !.missed = @ \cup (new \cap trainer[u].started)]
              ELSE trainer[u]]
  /\ examples' = [i \in DOMAIN examples |->
                    IF i \in trainer[t].ids THEN [examples[i] EXCEPT !.used = TRUE] ELSE examples[i]]
  /\ commits' = commits + 1
  /\ UNCHANGED <<mail, restarts>>

\* The request fails: its transaction is rolled back.
TrainingFails(t) ==
  /\ trainer[t] # Idle
  /\ trainer' = [trainer EXCEPT ![t] = Idle]
  /\ UNCHANGED <<mail, examples, centroids, commits, mixed, restarts>>

Restart ==
  /\ restarts < MaxRestarts
  /\ handler' = Idle
  /\ replay' = {m \in Mails : delivery[m] = "pending"}
  /\ trainer' = [t \in Trainers |-> Idle]
  /\ restarts' = restarts + 1
  /\ UNCHANGED <<inbox, delivery, dismissed, icsFiles, examples, centroids, commits, mixed>>

Next ==
  \/ \E m \in Mails : Arrive(m) \/ Receive(m)
  \/ Embed \/ Classify \/ SaveMail \/ SaveIcs \/ Ack \/ Fail
  \/ \E t \in Trainers :
       \/ Create(t) \/ Learn(t) \/ LearnSave(t)
       \/ Commit(t) \/ Delete(t) \/ DeleteDone(t) \/ CommitDone(t) \/ TrainingFails(t)
  \/ Restart

Spec == Init /\ [][Next]_vars

-----------------------------------------------------------------------------
(* Properties *)

\* A mail whose message is acknowledged was rejected by the classification or
\* is stored with its calendar files: a failure or a cut between the two
\* transactions leaves it pending for good, since storing it again is refused.
\* (BusNewMailHandler.handle, _consume_messages)
AckedIsSettled ==
  \A m \in Mails : delivery[m] = "acked" =>
     m \in dismissed \/ (Stored(m) /\ (m \in icsFiles \/ inbox[m].ics = <<>>))

\* A stored mail was held against the threshold of the very cluster that
\* scored it, unless two commits overlapped and left the label with the
\* clusters of both.  (classify_by_centroid, _locate_centroid, commit)
HeldAgainstItsScorer ==
  \A i \in DOMAIN examples :
     \A stored \in examples[i].mail : stored.mixed \/ stored.scorer = stored.located

\* Whatever commits overlap, fail or are cut off, the classification never
\* finds a label without centroids that had some before.  (EmbdLrnService.commit)
LabelsStayKnown ==
  [][\A c \in centroids : \E d \in centroids' : d.label = c.label]_vars

Symmetry == Permutations(Trainers)
=============================================================================
