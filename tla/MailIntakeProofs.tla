--------------------------- MODULE MailIntakeProofs ---------------------------
(***************************************************************************)
(* What the intake of mails guarantees for every set of mails, any number  *)
(* of overlapping training requests, every batch size and every number of  *)
(* restarts.  What an embedding, a mean or a threshold is plays no part in *)
(* the proofs.                                                             *)
(***************************************************************************)
EXTENDS MailIntake, FiniteSetTheorems, SequenceTheorems, TLAPS

-------------------------------------------------------------------------------
(* The inductive invariant *)

IsSequence(s) == Len(s) \in Nat /\ s = [i \in 1 .. Len(s) |-> s[i]]
IsExample(e) ==
  e = [label |-> e.label, point |-> e.point, embedding |-> e.embedding, used |-> e.used, mail |-> e.mail]

\* The variables have the shape that the actions take for granted.
ShapeOK ==
  /\ inbox \in [Mails -> Contents \cup {None}]
  /\ delivery \in [Mails -> {"new", "pending", "acked"}]
  /\ handler.pc \in {"idle", "received", "embedded", "classified", "saved", "handled"}
  /\ handler.pc = "idle" => handler = Idle
  /\ handler.pc # "idle" => handler.mail \in Mails
  /\ handler.pc \in {"received", "embedded", "saved", "handled"} =>
       handler = [pc |-> handler.pc, mail |-> handler.mail]
  /\ IsSequence(examples) /\ \A i \in DOMAIN examples : IsExample(examples[i])

\* A mail is settled when the classification rejected it, or it is stored whole.
Settled(m) == m \in dismissed \/ (Stored(m) /\ (m \in icsFiles \/ inbox[m].ics = <<>>))

\* The handler has settled a mail before it acknowledges the message.
HandlingOK ==
  /\ \A m \in Mails : delivery[m] = "acked" => inbox[m] # None /\ Settled(m)
  /\ handler.pc # "idle" => inbox[handler.mail] # None
  /\ handler.pc = "saved" => Stored(handler.mail)
  /\ handler.pc = "handled" => Settled(handler.mail)

\* The labels that a commit rebuilds: those with examples.
NewLabels(w) == {label \in DOMAIN w.vectors : w.vectors[label] # <<>>}

IsCommit(w) ==
  w = [pc |-> w.pc, ids |-> w.ids, vectors |-> w.vectors, todo |-> w.todo,
       started |-> w.started, seen |-> w.seen, deleted |-> w.deleted, missed |-> w.missed]

\* A commit rebuilds what it deletes: it deletes rows of labels it has examples
\* for, and comes by each of these labels.
CommitOK(w) ==
  /\ IsCommit(w)
  /\ w.started \subseteq NewLabels(w)
  /\ w.todo \subseteq {n \in DOMAIN EndLabels : EndLabels[n] \in NewLabels(w)}
  /\ NewLabels(w) \subseteq w.started \cup {EndLabels[n] : n \in w.todo}
  /\ \A label \in NewLabels(w) : Len(w.vectors[label]) \in Nat \ {0}
  /\ \A c \in w.seen \cup w.deleted : c.label \in w.started

\* Of a label whose deletion has started the commit deletes every row, unless
\* another commit has put rows there since.
Covers(w) ==
  \A c \in centroids : c.label \in w.started =>
    c.label \in w.missed \/ c \in w.deleted \/ (w.pc = "deleting" /\ c \in w.seen)

TrainersOK ==
  /\ trainer = [t \in Trainers |-> trainer[t]]
  /\ \A t \in Trainers : Busy(t) => CommitOK(trainer[t]) /\ Covers(trainer[t])

\* Two rows for one cluster come from two commits that overlapped.
OnePerCluster ==
  \A c, d \in centroids : c.label = d.label /\ c.cluster = d.cluster => c = d \/ c.label \in mixed

\* What a mail was recognised by, from the classification to the stored mail.
HeldOK ==
  /\ handler.pc = "classified" => handler.mixed \/ handler.scorer = handler.located
  /\ HeldAgainstItsScorer

IInv == ShapeOK /\ HandlingOK /\ TrainersOK /\ OnePerCluster /\ HeldOK

-------------------------------------------------------------------------------
(* The examples: mails are added, and none is ever taken back *)

\* The examples after a step keep their shape, and the mails among them.
Recorded ==
  /\ IsSequence(examples)' /\ \A i \in DOMAIN examples' : IsExample(examples'[i])
  /\ \A i \in DOMAIN examples : i \in DOMAIN examples' /\ examples'[i].mail = examples[i].mail
NoMailAdded == \A i \in DOMAIN examples' \ DOMAIN examples : examples'[i].mail = {}

\* An example is appended.
LEMMA Appended ==
  ASSUME ShapeOK, NEW e, IsExample(e), examples' = Append(examples, e)
  PROVE  /\ Recorded
         /\ DOMAIN examples' = DOMAIN examples \cup {Len(examples) + 1}
         /\ Len(examples) + 1 \notin DOMAIN examples
         /\ examples'[Len(examples) + 1] = e
<1> DEFINE S == {examples[i] : i \in DOMAIN examples} \cup {e}
           n == Len(examples)
<1>1. n \in Nat /\ examples = [i \in 1 .. n |-> examples[i]]
  BY DEF ShapeOK, IsSequence
<1>2. DOMAIN examples = 1 .. n
  BY <1>1
<1>3. \A i \in 1 .. n : examples[i] \in S
  BY <1>2
<1>4. examples \in Seq(S) /\ e \in S
  <2>1. e \in S
    OBVIOUS
  <2> HIDE DEF S, n
  <2>2. examples \in [1 .. n -> S]
    BY <1>1, <1>3
  <2>3. QED BY <1>1, <2>1, <2>2
<1> HIDE DEF S
<1>5. /\ examples' \in Seq(S) /\ Len(examples') = n + 1
      /\ \A i \in 1 .. n : examples'[i] = examples[i]
      /\ examples'[n + 1] = e
  BY <1>1, <1>4, AppendProperties
<1>6. DOMAIN examples' = 1 .. (n + 1) /\ examples' = [i \in 1 .. Len(examples') |-> examples'[i]]
  <2> HIDE DEF n
  <2>1. examples' \in [1 .. (n + 1) -> S]
    <3>1. \A T, x : x \in Seq(T) => x \in [1 .. Len(x) -> T]
      OBVIOUS
    <3>2. QED BY <1>5, <3>1, Zenon
  <2>2. QED BY <1>5, <2>1
<1>7. \A i \in 1 .. (n + 1) : i \in 1 .. n \/ i = n + 1
  BY <1>1
<1>8. \A i \in DOMAIN examples' : IsExample(examples'[i])
  BY <1>2, <1>5, <1>6, <1>7 DEF ShapeOK
<1>9. IsSequence(examples)'
  BY <1>1, <1>5, <1>6 DEF IsSequence
<1>10. /\ DOMAIN examples' = DOMAIN examples \cup {n + 1} /\ n + 1 \notin DOMAIN examples
  BY <1>1, <1>2, <1>6, <1>7
<1>11. QED BY <1>2, <1>5, <1>8, <1>9, <1>10 DEF Recorded

\* Examples are given embeddings, or marked as used.
LEMMA Rewritten ==
  ASSUME ShapeOK, NEW ids,
         \/ examples' = [i \in DOMAIN examples |->
              IF i \in ids THEN [examples[i] EXCEPT !.embedding = examples[i].point] ELSE examples[i]]
         \/ examples' = [i \in DOMAIN examples |->
              IF i \in ids THEN [examples[i] EXCEPT !.used = TRUE] ELSE examples[i]]
  PROVE  Recorded /\ NoMailAdded
<1>1. Len(examples) \in Nat /\ DOMAIN examples = 1 .. Len(examples)
  BY DEF ShapeOK, IsSequence
<1>2. DOMAIN examples' = 1 .. Len(examples) /\ examples' = [i \in 1 .. Len(examples) |-> examples'[i]]
  BY <1>1
<1>3. Len(examples') = Len(examples)
  <2> DEFINE S == {examples'[i] : i \in 1 .. Len(examples)}
  <2>1. examples' \in [1 .. Len(examples) -> S]
    BY <1>2
  <2> HIDE DEF S
  <2>2. examples' \in Seq(S)
    BY <1>1, <2>1
  <2>3. QED BY <1>1, <1>2, <2>2
<1>4. IsSequence(examples)'
  BY <1>1, <1>2, <1>3 DEF IsSequence
<1>5. ASSUME NEW i \in DOMAIN examples
      PROVE  IsExample(examples'[i]) /\ examples'[i].mail = examples[i].mail
  <2> DEFINE e == examples[i]
             a == [e EXCEPT !.embedding = e.point]
             b == [e EXCEPT !.used = TRUE]
  <2>1. examples'[i] \in {e, a, b}
    OBVIOUS
  <2>2. PICK l, p, v, u, m :
          e = [label |-> l, point |-> p, embedding |-> v, used |-> u, mail |-> m]
    BY DEF ShapeOK, IsExample
  <2> HIDE DEF e
  <2>3. a = [label |-> l, point |-> p, embedding |-> p, used |-> u, mail |-> m]
    BY <2>2
  <2>4. \A w : [e EXCEPT !.used = w] =
                 [label |-> l, point |-> p, embedding |-> v, used |-> w, mail |-> m]
    BY <2>2
  <2>5. b = [label |-> l, point |-> p, embedding |-> v, used |-> TRUE, mail |-> m]
    BY <2>4, Zenon
  <2> HIDE DEF a, b
  <2>6. IsExample(a) /\ IsExample(b) /\ IsExample(e) /\ a.mail = e.mail /\ b.mail = e.mail
    BY <2>2, <2>3, <2>5 DEF IsExample
  <2>7. QED BY <2>1, <2>6 DEF e
<1>6. QED BY <1>1, <1>2, <1>4, <1>5 DEF Recorded, NoMailAdded

\* A mail that is stored stays stored, a settled one settled.
LEMMA SettledStays ==
  ASSUME NEW m, Recorded, dismissed \subseteq dismissed', icsFiles \subseteq icsFiles',
         inbox'[m] = inbox[m]
  PROVE  (Stored(m) => Stored(m)') /\ (Settled(m) => Settled(m)')
BY DEF Recorded, Stored, Settled

-------------------------------------------------------------------------------
(* What the training requests do to the mails: nothing but add examples *)

TrainingStep(t) ==
  \/ Create(t) \/ Learn(t) \/ LearnSave(t)
  \/ Commit(t) \/ Delete(t) \/ DeleteDone(t) \/ CommitDone(t) \/ TrainingFails(t)

\* Every training step leaves the mails and the handler alone.
LEMMA TrainingDoes ==
  ASSUME ShapeOK, NEW t \in Trainers, TrainingStep(t)
  PROVE  UNCHANGED mail /\ Recorded /\ NoMailAdded
<1>0. examples' = examples => Recorded /\ NoMailAdded
  BY DEF Recorded, NoMailAdded, ShapeOK, IsSequence
<1>1. CASE Create(t)
  <2>1. PICK e \in {Example("applied", 2), Example("meeting_action", 3)} : examples' = Append(examples, e)
    BY <1>1 DEF Create
  <2>2. IsExample(e) /\ e.mail = {}
    BY <2>1 DEF Example, IsExample
  <2>3. QED BY <1>1, <2>1, <2>2, Appended DEF Create, NoMailAdded
<1>2. CASE LearnSave(t)
  <2>1. Recorded /\ NoMailAdded
    BY <1>2, Rewritten DEF LearnSave
  <2>2. QED BY <1>2, <2>1 DEF LearnSave
<1>3. CASE CommitDone(t)
  <2>1. Recorded /\ NoMailAdded
    BY <1>3, Rewritten DEF CommitDone
  <2>2. QED BY <1>3, <2>1 DEF CommitDone
<1>4. CASE Learn(t) \/ Commit(t) \/ Delete(t) \/ DeleteDone(t) \/ TrainingFails(t)
  BY <1>0, <1>4 DEF Learn, Commit, Delete, DeleteDone, TrainingFails
<1>5. QED BY <1>1, <1>2, <1>3, <1>4 DEF TrainingStep

\* So what holds of the mails holds after it.
LEMMA TrainingKeepsMails ==
  ASSUME ShapeOK, HandlingOK, HeldOK, UNCHANGED mail, Recorded, NoMailAdded
  PROVE  ShapeOK' /\ HandlingOK' /\ HeldOK'
<1>1. ShapeOK'
  BY DEF ShapeOK, mail, Recorded
<1>2. \A m : (Stored(m) => Stored(m)') /\ (Settled(m) => Settled(m)')
  BY SettledStays DEF mail
<1>3. HandlingOK'
  BY <1>2 DEF HandlingOK, mail
<1>4. HeldAgainstItsScorer'
  BY DEF HeldOK, HeldAgainstItsScorer, Recorded, NoMailAdded
<1>5. HeldOK'
  BY <1>4 DEF HeldOK, mail
<1>6. QED BY <1>1, <1>3, <1>5

-------------------------------------------------------------------------------
(* The commits *)

\* A label with examples has a row per cluster, and at least one.
LEMMA ClustersOf ==
  ASSUME NEW label, NEW points, Len(points) \in Nat \ {0}
  PROVE  /\ \A c \in Clusters(label, points) : c.label = label
         /\ \A c, d \in Clusters(label, points) : c.cluster = d.cluster => c = d
         /\ Clusters(label, points) # {}
<1> DEFINE size == Max({3, BatchSize})
           Cluster(k) == SubSeq(points, (k - 1) * size + 1, Min({k * size, Len(points)}))
           Row(k) == [commit |-> commits + 1, label |-> label, cluster |-> k,
                      point |-> Mean(Cluster(k)), threshold |-> ClusterThreshold(label, Cluster(k))]
           K == {k \in 1 .. Len(points) : (k - 1) * size < Len(points)}
<1>1. size \in Nat
  <2>1. BatchSize \in Nat
    BY IntakeAssumption
  <2>2. \E x \in {3, BatchSize} : \A y \in {3, BatchSize} : x >= y
    BY <2>1
  <2>3. QED BY <2>1, <2>2 DEF Max
<1>2. 1 \in K
  <2> HIDE DEF size
  <2>1. (1 - 1) * size = 0
    BY <1>1
  <2>2. QED BY <2>1
<1>3. Clusters(label, points) = {Row(k) : k \in K}
  BY DEF Clusters
<1>4. \A k : Row(k).label = label /\ Row(k).cluster = k
  OBVIOUS
<1> HIDE DEF Row, K
<1>5. QED BY <1>2, <1>3, <1>4

\* A training request becomes w, the others are at what they were.
TrainerBecomes(t, w) ==
  /\ trainer' = [u \in Trainers |-> IF u = t THEN w ELSE trainer[u]]
  /\ \A u \in Trainers : trainer'[u] = IF u = t THEN w ELSE trainer[u]

\* A step of t as an update of one function.
LEMMA TrainerBecoming ==
  ASSUME TrainersOK, NEW t \in Trainers, NEW w, trainer' = [trainer EXCEPT ![t] = w]
  PROVE  TrainerBecomes(t, w)
BY DEF TrainersOK, TrainerBecomes

\* Whatever a step does, it suffices to look at the one request it concerns.
LEMMA OtherTrainers ==
  ASSUME TrainersOK, NEW t \in Trainers, NEW w, TrainerBecomes(t, w), centroids' = centroids,
         w.pc \in {"committing", "deleting"} =>
           CommitOK(w) /\ \A c \in centroids : c.label \in w.started =>
             c.label \in w.missed \/ c \in w.deleted \/ (w.pc = "deleting" /\ c \in w.seen)
  PROVE  TrainersOK'
<1>1. ASSUME NEW u \in Trainers, trainer'[u].pc \in {"committing", "deleting"}
      PROVE  CommitOK(trainer'[u]) /\ \A c \in centroids' : c.label \in trainer'[u].started =>
               \/ c.label \in trainer'[u].missed \/ c \in trainer'[u].deleted
               \/ trainer'[u].pc = "deleting" /\ c \in trainer'[u].seen
  <2>1. CASE u = t
    BY <1>1, <2>1 DEF TrainerBecomes
  <2>2. CASE u # t
    <3>1. trainer'[u] = trainer[u]
      BY <2>2 DEF TrainerBecomes
    <3>2. QED BY <1>1, <3>1 DEF TrainersOK, Busy, Covers
  <2>3. QED BY <2>1, <2>2
<1>2. trainer' = [u \in Trainers |-> trainer'[u]]
  BY DEF TrainerBecomes
<1>3. QED BY <1>1, <1>2 DEF TrainersOK, Busy, Covers, CommitOK, IsCommit, NewLabels

\* The labels with examples among the latest ones.
LEMMA VectorsOf ==
  ASSUME ShapeOK, NEW label
  PROVE  EmbeddingsOf(label, Latest) # <<>> => Len(EmbeddingsOf(label, Latest)) \in Nat \ {0}
<1> DEFINE rows == {i \in Latest : examples[i].label = label}
           Later(i) == {j \in rows : j > i}
           n == Cardinality(rows)
           F(k) == examples[CHOOSE i \in rows : Cardinality(Later(i)) = k - 1].embedding
<1>1. n \in Nat
  <2>1. Len(examples) \in Nat /\ DOMAIN examples = 1 .. Len(examples)
    BY DEF ShapeOK, IsSequence
  <2>2. IsFiniteSet(1 .. Len(examples))
    BY <2>1, FS_Interval
  <2>3. rows \subseteq 1 .. Len(examples)
    BY <2>1 DEF Latest
  <2>4. IsFiniteSet(rows)
    BY <2>2, <2>3, FS_Subset
  <2>5. QED BY <2>4, FS_CardinalityType
<1>2. EmbeddingsOf(label, Latest) = [k \in 1 .. n |-> F(k)]
  BY DEF EmbeddingsOf
<1> HIDE DEF n, F
<1>3. Len([k \in 1 .. n |-> F(k)]) = n
  <2> DEFINE S == {F(k) : k \in 1 .. n}
  <2>1. [k \in 1 .. n |-> F(k)] \in [1 .. n -> S]
    OBVIOUS
  <2> HIDE DEF S
  <2>2. QED BY <1>1, <2>1
<1>4. n = 0 => [k \in 1 .. n |-> F(k)] = <<>>
  BY <1>1, <1>3
<1>5. QED BY <1>1, <1>2, <1>3, <1>4

\* A commit begins with every label that has examples before it.
LEMMA CommitBegins ==
  ASSUME ShapeOK, TrainersOK, NEW t \in Trainers, Commit(t)
  PROVE  TrainersOK' /\ UNCHANGED <<centroids, mixed>>
<1> DEFINE vectors == [label \in ToSet(EndLabels) |-> EmbeddingsOf(label, Latest)]
           w == [pc |-> "committing", ids |-> Latest, vectors |-> vectors,
                 todo |-> {n \in DOMAIN EndLabels : vectors[EndLabels[n]] # <<>>},
                 started |-> {}, seen |-> {}, deleted |-> {}, missed |-> {}]
<1>1. TrainerBecomes(t, w)
  BY TrainerBecoming DEF Commit
<1>2. \A label \in ToSet(EndLabels) :
        vectors[label] # <<>> => Len(vectors[label]) \in Nat \ {0}
  BY VectorsOf
<1>3. \A label \in ToSet(EndLabels) : \E n \in DOMAIN EndLabels : label = EndLabels[n]
  BY DEF ToSet
<1>4. DOMAIN vectors = ToSet(EndLabels)
  OBVIOUS
<1>5. \A n \in DOMAIN EndLabels : EndLabels[n] \in ToSet(EndLabels)
  BY DEF ToSet
<1> HIDE DEF vectors
<1>6. /\ w.vectors = vectors /\ w.todo = {n \in DOMAIN EndLabels : vectors[EndLabels[n]] # <<>>}
      /\ w.started = {} /\ w.seen = {} /\ w.deleted = {} /\ w.missed = {}
  OBVIOUS
<1>7. IsCommit(w)
  BY DEF IsCommit
<1> HIDE DEF w
<1>8. CommitOK(w)
  BY <1>2, <1>3, <1>4, <1>5, <1>6, <1>7 DEF CommitOK, NewLabels
<1>9. centroids' = centroids /\ mixed' = mixed
  BY DEF Commit
<1>10. QED BY <1>1, <1>6, <1>8, <1>9, OtherTrainers

\* An update of a commit that changes two fields at once.
LEMMA UpdatedAtEnd ==
  ASSUME NEW v, IsCommit(v), NEW x, NEW y
  PROVE  [v EXCEPT !.pc = x, !.deleted = y] =
           [pc |-> x, ids |-> v.ids, vectors |-> v.vectors, todo |-> v.todo,
            started |-> v.started, seen |-> v.seen, deleted |-> y, missed |-> v.missed]
<1>1. PICK a, b, c, d, e, f, g, h : v = [pc |-> a, ids |-> b, vectors |-> c, todo |-> d,
              started |-> e, seen |-> f, deleted |-> g, missed |-> h]
  BY DEF IsCommit
<1> DEFINE u == [v EXCEPT !.pc = x]
<1>2. u = [pc |-> x, ids |-> b, vectors |-> c, todo |-> d,
           started |-> e, seen |-> f, deleted |-> g, missed |-> h]
  BY <1>1
<1> HIDE DEF u
<1>3. [u EXCEPT !.deleted = y] = [pc |-> x, ids |-> b, vectors |-> c, todo |-> d,
                                  started |-> e, seen |-> f, deleted |-> y, missed |-> h]
  BY <1>2
<1>4. [v EXCEPT !.pc = x, !.deleted = y] = [u EXCEPT !.deleted = y]
  BY DEF u
<1>5. v.ids = b /\ v.vectors = c /\ v.todo = d /\ v.started = e /\ v.seen = f /\ v.missed = h
  BY <1>1
<1>6. QED BY <1>3, <1>4, <1>5

\* The deletion of a label's rows sees all of them.
LEMMA DeleteBegins ==
  ASSUME TrainersOK, NEW t \in Trainers, Delete(t)
  PROVE  TrainersOK' /\ UNCHANGED <<centroids, mixed>>
<1> DEFINE v == trainer[t]
<1>1. CommitOK(v) /\ Covers(v) /\ v.pc = "committing"
  BY DEF Delete, TrainersOK, Busy
<1>2. centroids' = centroids /\ mixed' = mixed
  BY DEF Delete
<1>3. PICK n \in v.todo :
        trainer' = [trainer EXCEPT ![t].pc = "deleting", ![t].todo = @ \ {n},
                                   ![t].seen = Rows(EndLabels[n]),
                                   ![t].started = @ \cup {EndLabels[n]}]
  BY DEF Delete
<1> DEFINE w == [v EXCEPT !.pc = "deleting", !.todo = @ \ {n}, !.seen = Rows(EndLabels[n]),
                          !.started = @ \cup {EndLabels[n]}]
<1>4. TrainerBecomes(t, w)
  <2>1. trainer' = [trainer EXCEPT ![t] = w]
    BY <1>3 DEF TrainersOK
  <2> HIDE DEF w
  <2>2. QED BY <2>1, TrainerBecoming
<1> HIDE DEF v
<1>5. w = [pc |-> "deleting", ids |-> v.ids, vectors |-> v.vectors, todo |-> v.todo \ {n},
           started |-> v.started \cup {EndLabels[n]}, seen |-> Rows(EndLabels[n]),
           deleted |-> v.deleted, missed |-> v.missed]
  <2>1. PICK a, b, c, d, e, f, g, h : v = [pc |-> a, ids |-> b, vectors |-> c, todo |-> d,
                started |-> e, seen |-> f, deleted |-> g, missed |-> h]
    BY <1>1 DEF CommitOK, IsCommit
  <2> DEFINE y == v.todo \ {n}
             z == Rows(EndLabels[n])
             q == v.started \cup {EndLabels[n]}
             u == [v EXCEPT !.pc = "deleting"]
             u1 == [u EXCEPT !.todo = y]
             u2 == [u1 EXCEPT !.seen = z]
             u3 == [u2 EXCEPT !.started = q]
  <2>2. w = u3
    OBVIOUS
  <2> HIDE DEF w, y, z, q
  <2>3. u = [pc |-> "deleting", ids |-> b, vectors |-> c, todo |-> d,
             started |-> e, seen |-> f, deleted |-> g, missed |-> h]
    BY <2>1
  <2> HIDE DEF u
  <2>4. u1 = [pc |-> "deleting", ids |-> b, vectors |-> c, todo |-> y,
              started |-> e, seen |-> f, deleted |-> g, missed |-> h]
    BY <2>3
  <2> HIDE DEF u1
  <2>5. u2 = [pc |-> "deleting", ids |-> b, vectors |-> c, todo |-> y,
              started |-> e, seen |-> z, deleted |-> g, missed |-> h]
    BY <2>4
  <2> HIDE DEF u2
  <2>6. u3 = [pc |-> "deleting", ids |-> b, vectors |-> c, todo |-> y,
              started |-> q, seen |-> z, deleted |-> g, missed |-> h]
    BY <2>5
  <2> HIDE DEF u3
  <2>7. v.ids = b /\ v.vectors = c /\ v.deleted = g /\ v.missed = h
    BY <2>1
  <2>8. QED BY <2>2, <2>6, <2>7 DEF y, z, q
<1> HIDE DEF w
<1>6. /\ w.pc = "deleting" /\ w.vectors = v.vectors /\ w.todo = v.todo \ {n}
      /\ w.started = v.started \cup {EndLabels[n]} /\ w.seen = Rows(EndLabels[n])
      /\ w.deleted = v.deleted /\ w.missed = v.missed
  BY <1>5
<1>7. IsCommit(w)
  BY <1>5 DEF IsCommit
<1>8. CommitOK(w)
  BY <1>1, <1>6, <1>7 DEF CommitOK, NewLabels, Rows
<1>9. \A c \in centroids : c.label \in w.started =>
        c.label \in w.missed \/ c \in w.deleted \/ (w.pc = "deleting" /\ c \in w.seen)
  BY <1>1, <1>6 DEF Covers, Rows
<1>10. QED BY <1>2, <1>4, <1>8, <1>9, OtherTrainers

\* What it has seen and is still there is deleted.
LEMMA DeleteEnds ==
  ASSUME TrainersOK, NEW t \in Trainers, DeleteDone(t)
  PROVE  TrainersOK' /\ UNCHANGED <<centroids, mixed>>
<1> DEFINE v == trainer[t]
           w == [v EXCEPT !.pc = "committing", !.deleted = @ \cup (v.seen \cap centroids)]
<1>1. CommitOK(v) /\ Covers(v) /\ v.pc = "deleting"
  BY DEF DeleteDone, TrainersOK, Busy
<1>2. centroids' = centroids /\ mixed' = mixed
  BY DEF DeleteDone
<1>4. TrainerBecomes(t, w)
  <2>1. trainer' = [trainer EXCEPT ![t] = w]
    BY DEF TrainersOK, DeleteDone
  <2> HIDE DEF w
  <2>2. QED BY <2>1, TrainerBecoming
<1> HIDE DEF v
<1>5. w = [pc |-> "committing", ids |-> v.ids, vectors |-> v.vectors, todo |-> v.todo,
           started |-> v.started, seen |-> v.seen,
           deleted |-> v.deleted \cup (v.seen \cap centroids), missed |-> v.missed]
  <2>1. IsCommit(v)
    BY <1>1 DEF CommitOK
  <2>2. QED BY <2>1, UpdatedAtEnd, Zenon
<1> HIDE DEF w
<1>6. /\ w.pc = "committing" /\ w.vectors = v.vectors /\ w.todo = v.todo
      /\ w.started = v.started /\ w.seen = v.seen
      /\ w.deleted = v.deleted \cup (v.seen \cap centroids) /\ w.missed = v.missed
  BY <1>5
<1>7. IsCommit(w)
  BY <1>5 DEF IsCommit
<1>8. CommitOK(w)
  BY <1>1, <1>6, <1>7 DEF CommitOK, NewLabels
<1>9. \A c \in centroids : c.label \in w.started =>
        c.label \in w.missed \/ c \in w.deleted \/ (w.pc = "deleting" /\ c \in w.seen)
  BY <1>1, <1>6 DEF Covers
<1>10. QED BY <1>2, <1>4, <1>8, <1>9, OtherTrainers

\* The requests that are no commits.
LEMMA OtherRequests ==
  ASSUME TrainersOK, NEW t \in Trainers, Create(t) \/ Learn(t) \/ LearnSave(t) \/ TrainingFails(t)
  PROVE  TrainersOK' /\ UNCHANGED <<centroids, mixed>>
<1>1. CASE Create(t)
  BY <1>1 DEF Create, training, TrainersOK, Busy, Covers, CommitOK, IsCommit, NewLabels
<1>2. CASE Learn(t)
  <2> DEFINE w == [pc |-> "learning", ids |-> Unused]
  <2>1. TrainerBecomes(t, w) /\ w.pc = "learning" /\ UNCHANGED <<centroids, mixed>>
    BY <1>2, TrainerBecoming DEF Learn
  <2>2. QED BY <2>1, OtherTrainers
<1>3. CASE LearnSave(t) \/ TrainingFails(t)
  <2>1. TrainerBecomes(t, Idle) /\ Idle.pc = "idle" /\ UNCHANGED <<centroids, mixed>>
    BY <1>3, TrainerBecoming DEF LearnSave, TrainingFails, Idle
  <2>2. QED BY <2>1, OtherTrainers
<1>4. QED BY <1>1, <1>2, <1>3

\* A commit takes effect: the deleted rows go, and every label it has examples
\* for has rows of its own, one per cluster.
LEMMA CommitEnds ==
  ASSUME TrainersOK, NEW t \in Trainers, CommitDone(t)
  PROVE  /\ CommitOK(trainer[t]) /\ Covers(trainer[t])
         /\ NewLabels(trainer[t]) \subseteq trainer[t].started /\ trainer[t].pc = "committing"
         /\ \E rows :
              /\ centroids' = (centroids \ trainer[t].deleted) \cup rows
              /\ \A c \in rows : c.label \in NewLabels(trainer[t])
              /\ \A c, d \in rows : c.label = d.label /\ c.cluster = d.cluster => c = d
              /\ \A label \in NewLabels(trainer[t]) : \E c \in rows : c.label = label
         /\ mixed' = (mixed \ NewLabels(trainer[t])) \cup trainer[t].missed
         /\ trainer' = [u \in Trainers |->
              IF u = t THEN Idle
              ELSE IF Busy(u)
                   THEN [trainer[u] EXCEPT !.missed = @ \cup (NewLabels(trainer[t]) \cap trainer[u].started)]
                   ELSE trainer[u]]
<1> DEFINE v == trainer[t]
           new == NewLabels(v)
           rows == UNION {Clusters(label, v.vectors[label]) : label \in new}
<1>1. CommitOK(v) /\ Covers(v) /\ v.pc = "committing" /\ v.todo = {}
  BY DEF CommitDone, TrainersOK, Busy
<1>2. /\ centroids' = (centroids \ v.deleted) \cup rows
      /\ mixed' = (mixed \ new) \cup v.missed
      /\ trainer' = [u \in Trainers |->
              IF u = t THEN Idle
              ELSE IF Busy(u) THEN [trainer[u] EXCEPT !.missed = @ \cup (new \cap trainer[u].started)]
              ELSE trainer[u]]
  BY DEF CommitDone, NewLabels
<1> HIDE DEF v, new
<1>3. \A label \in new : /\ \A c \in Clusters(label, v.vectors[label]) : c.label = label
                         /\ \A c, d \in Clusters(label, v.vectors[label]) : c.cluster = d.cluster => c = d
                         /\ Clusters(label, v.vectors[label]) # {}
  BY <1>1, ClustersOf DEF CommitOK, new
<1>4. \A c \in rows : c.label \in new /\ c \in Clusters(c.label, v.vectors[c.label])
  BY <1>3
<1>5. \A label \in new : \E c \in rows : c.label = label
  BY <1>3
<1> HIDE DEF rows
<1>6. \A c, d \in rows : c.label = d.label /\ c.cluster = d.cluster => c = d
  BY <1>3, <1>4
<1>7. new \subseteq v.started
  BY <1>1 DEF CommitOK, new
<1>8. QED BY <1>1, <1>2, <1>4, <1>5, <1>6, <1>7 DEF v, new

\* A commit under way is told of the rows it has missed.
LEMMA MissedRecorded ==
  ASSUME NEW v, CommitOK(v), NEW x
  PROVE  /\ CommitOK([v EXCEPT !.missed = @ \cup x])
         /\ [v EXCEPT !.missed = @ \cup x].missed = v.missed \cup x
         /\ [v EXCEPT !.missed = @ \cup x].pc = v.pc
         /\ [v EXCEPT !.missed = @ \cup x].started = v.started
         /\ [v EXCEPT !.missed = @ \cup x].seen = v.seen
         /\ [v EXCEPT !.missed = @ \cup x].deleted = v.deleted
<1> DEFINE w == [v EXCEPT !.missed = @ \cup x]
<1>1. PICK a, b, c, d, e, f, g, h : v = [pc |-> a, ids |-> b, vectors |-> c, todo |-> d,
              started |-> e, seen |-> f, deleted |-> g, missed |-> h]
  BY DEF CommitOK, IsCommit
<1>2. \A y : [v EXCEPT !.missed = y] = [pc |-> a, ids |-> b, vectors |-> c, todo |-> d,
              started |-> e, seen |-> f, deleted |-> g, missed |-> y]
  BY <1>1
<1>3. w = [pc |-> a, ids |-> b, vectors |-> c, todo |-> d,
           started |-> e, seen |-> f, deleted |-> g, missed |-> v.missed \cup x]
  BY <1>2, Zenon
<1> HIDE DEF w
<1>4. IsCommit(w)
  BY <1>3 DEF IsCommit
<1>5. /\ w.missed = v.missed \cup x /\ w.pc = v.pc /\ w.started = v.started /\ w.seen = v.seen
      /\ w.deleted = v.deleted /\ w.vectors = v.vectors /\ w.todo = v.todo
  BY <1>1, <1>3
<1>6. CommitOK(w)
  BY <1>4, <1>5 DEF CommitOK, NewLabels
<1>7. QED BY <1>5, <1>6 DEF w

\* A commit that takes effect leaves every other one with an account of its rows.
LEMMA CommitKeepsTrainers ==
  ASSUME TrainersOK, NEW t \in Trainers, CommitDone(t)
  PROVE  TrainersOK'
<1> DEFINE new == NewLabels(trainer[t])
<1>1. PICK rows :
        /\ centroids' = (centroids \ trainer[t].deleted) \cup rows
        /\ \A c \in rows : c.label \in new
  BY CommitEnds
<1>2. trainer' = [u \in Trainers |->
        IF u = t THEN Idle
        ELSE IF Busy(u) THEN [trainer[u] EXCEPT !.missed = @ \cup (new \cap trainer[u].started)]
        ELSE trainer[u]]
  BY CommitEnds
<1> HIDE DEF new
<1>3. ASSUME NEW u \in Trainers, trainer'[u].pc \in {"committing", "deleting"}
      PROVE  CommitOK(trainer'[u]) /\ \A c \in centroids' : c.label \in trainer'[u].started =>
               \/ c.label \in trainer'[u].missed \/ c \in trainer'[u].deleted
               \/ trainer'[u].pc = "deleting" /\ c \in trainer'[u].seen
  <2>1. u # t
    BY <1>2, <1>3 DEF Idle
  <2>2. Busy(u)
    BY <1>2, <1>3, <2>1 DEF Busy
  <2>3. CommitOK(trainer[u]) /\ Covers(trainer[u])
    BY <2>2 DEF TrainersOK
  <2> DEFINE v == trainer[u]
             w == [v EXCEPT !.missed = @ \cup (new \cap v.started)]
  <2>4. trainer'[u] = w
    BY <1>2, <2>1, <2>2
  <2>5. /\ CommitOK(w) /\ w.missed = v.missed \cup (new \cap v.started) /\ w.pc = v.pc
        /\ w.started = v.started /\ w.seen = v.seen /\ w.deleted = v.deleted
    BY <2>3, MissedRecorded
  <2> HIDE DEF w
  <2>6. QED BY <1>1, <2>3, <2>4, <2>5 DEF Covers
<1>4. trainer' = [u \in Trainers |-> trainer'[u]]
  BY <1>2
<1>5. QED BY <1>3, <1>4 DEF TrainersOK, Busy, Covers, CommitOK, IsCommit, NewLabels

\* Rows that are left beside the new ones of the label have been missed.
LEMMA CommitKeepsClusters ==
  ASSUME TrainersOK, OnePerCluster, NEW t \in Trainers, CommitDone(t)
  PROVE  OnePerCluster'
<1> DEFINE v == trainer[t]
           new == NewLabels(v)
<1>1. PICK rows :
        /\ centroids' = (centroids \ v.deleted) \cup rows
        /\ \A c \in rows : c.label \in new
        /\ \A c, d \in rows : c.label = d.label /\ c.cluster = d.cluster => c = d
  BY CommitEnds
<1>2. /\ mixed' = (mixed \ new) \cup v.missed
      /\ Covers(v) /\ new \subseteq v.started /\ v.pc = "committing"
  BY CommitEnds
<1> HIDE DEF v, new
<1>3. \A c \in centroids \ v.deleted : c.label \in new => c.label \in mixed'
  BY <1>2 DEF Covers
<1>4. ASSUME NEW c \in centroids', NEW d \in centroids', c.label = d.label, c.cluster = d.cluster
      PROVE  c = d \/ c.label \in mixed'
  <2>1. CASE c \in rows /\ d \in rows
    BY <1>1, <1>4, <2>1
  <2>2. CASE c.label \in new /\ ~(c \in rows /\ d \in rows)
    BY <1>1, <1>3, <1>4, <2>2
  <2>3. CASE c.label \notin new
    BY <1>1, <1>2, <1>4, <2>3 DEF OnePerCluster
  <2>4. QED BY <2>1, <2>2, <2>3
<1>5. QED BY <1>4 DEF OnePerCluster

\* Every label of a deleted row gets rows again.
LEMMA CommitKeepsLabels ==
  ASSUME TrainersOK, NEW t \in Trainers, CommitDone(t)
  PROVE  \A c \in centroids : \E d \in centroids' : d.label = c.label
<1>1. PICK rows :
        /\ centroids' = (centroids \ trainer[t].deleted) \cup rows
        /\ \A label \in NewLabels(trainer[t]) : \E c \in rows : c.label = label
  BY CommitEnds
<1>2. CommitOK(trainer[t])
  BY CommitEnds
<1>3. ASSUME NEW c \in centroids PROVE \E d \in centroids' : d.label = c.label
  <2>1. CASE c \in trainer[t].deleted
    BY <1>1, <1>2, <2>1 DEF CommitOK
  <2>2. CASE c \notin trainer[t].deleted
    BY <1>1, <2>2
  <2>3. QED BY <2>1, <2>2
<1>4. QED BY <1>3

-------------------------------------------------------------------------------
(* The consumer thread *)

\* The handler's steps, and what the surroundings do to the mails.
HandlingStep ==
  \/ \E m \in Mails : Arrive(m) \/ Receive(m)
  \/ Embed \/ Classify \/ SaveMail \/ SaveIcs \/ Ack \/ Fail

\* A step that stores nothing.
LEMMA NothingStored ==
  ASSUME ShapeOK, HeldOK, examples' = examples
  PROVE  Recorded /\ HeldAgainstItsScorer'
BY DEF ShapeOK, HeldOK, HeldAgainstItsScorer, Recorded, IsSequence, IsExample

\* What Classify leaves for SaveMail.
LEMMA ClassifyDoes ==
  ASSUME ShapeOK, OnePerCluster, Classify
  PROVE  /\ handler.pc = "embedded"
         /\ \/ handler' = [handler EXCEPT !.pc = "handled"] /\ dismissed' = dismissed \cup {handler.mail}
            \/ /\ handler'.pc = "classified" /\ handler'.mail = handler.mail /\ dismissed' = dismissed
               /\ handler'.mixed \/ handler'.scorer = handler'.located
         /\ UNCHANGED <<inbox, delivery, replay, icsFiles, examples, training>>
<1> DEFINE content == inbox[handler.mail]
<1>1. PICK f \in Scorers :
        \/ Dismiss
        \/ \E k \in DOMAIN f : \E c \in Locate(f[k]) :
             LET label == FinalLabel(k[1], content.ics)
             IN  \/ Dismiss
                 \/ /\ handler' = [pc |-> "classified", mail |-> handler.mail, label |-> label,
                                   scorer |-> f[k], located |-> c, mixed |-> k[1] \in mixed]
                    /\ UNCHANGED dismissed
  BY Zenon DEF Classify
<1>2. handler.pc = "embedded" /\ UNCHANGED <<inbox, delivery, replay, icsFiles, examples, training>>
  BY DEF Classify
<1>3. CASE Dismiss
  BY <1>2, <1>3 DEF Dismiss
<1>4. ASSUME NEW k \in DOMAIN f, NEW c \in Locate(f[k]), NEW label,
             handler' = [pc |-> "classified", mail |-> handler.mail, label |-> label,
                         scorer |-> f[k], located |-> c, mixed |-> k[1] \in mixed],
             UNCHANGED dismissed
      PROVE  /\ handler'.pc = "classified" /\ handler'.mail = handler.mail /\ dismissed' = dismissed
             /\ handler'.mixed \/ handler'.scorer = handler'.located
  <2>1. f[k] \in centroids /\ f[k].label = k[1]
    BY DEF Scorers, RowsOf
  <2>2. c \in centroids /\ c.label = f[k].label /\ c.cluster = f[k].cluster
    BY DEF Locate, RowsOf
  <2>3. k[1] \in mixed \/ f[k] = c
    BY <2>1, <2>2 DEF OnePerCluster
  <2>4. QED BY <1>4, <2>3
<1>5. QED BY <1>1, <1>2, <1>3, <1>4

\* What was settled stays settled; what is left to show concerns one mail.
LEMMA HandlingAfter ==
  ASSUME ShapeOK, HandlingOK, Recorded, dismissed \subseteq dismissed', icsFiles \subseteq icsFiles',
         \A m \in Mails : inbox[m] # None => inbox'[m] = inbox[m],
         \A m \in Mails : delivery'[m] = "acked" =>
            delivery[m] = "acked" \/ (handler.pc = "handled" /\ m = handler.mail),
         handler'.pc # "idle" => inbox'[handler'.mail] # None,
         NEW n, handler'.pc \in {"saved", "handled"} => handler'.mail = n,
         handler'.pc = "saved" => Stored(n)',
         handler'.pc = "handled" => Settled(n)'
  PROVE  HandlingOK'
<1>1. ASSUME NEW m \in Mails, inbox[m] # None, Settled(m)
      PROVE  inbox'[m] # None /\ Settled(m)'
  BY <1>1, SettledStays
<1>2. \A m \in Mails : delivery'[m] = "acked" => inbox'[m] # None /\ Settled(m)'
  BY <1>1 DEF HandlingOK, ShapeOK
<1>3. handler'.pc = "saved" => Stored(handler.mail)'
  BY DEF Stored
<1>4. handler'.pc = "handled" => Settled(handler.mail)'
  BY DEF Settled, Stored
<1>5. QED BY <1>2, <1>3, <1>4 DEF HandlingOK

\* A step of the consumer thread, or a mail that arrives.
LEMMA HandlingKeeps ==
  ASSUME ShapeOK, HandlingOK, HeldOK, OnePerCluster, HandlingStep
  PROVE  ShapeOK' /\ HandlingOK' /\ HeldOK' /\ UNCHANGED training
<1>0. examples' = examples => /\ Recorded /\ HeldAgainstItsScorer'
                              /\ IsSequence(examples)' /\ \A i \in DOMAIN examples' : IsExample(examples'[i])
  BY NothingStored DEF Recorded
<1>1. ASSUME NEW m \in Mails, Arrive(m)
      PROVE  ShapeOK' /\ HandlingOK' /\ HeldOK' /\ UNCHANGED training
  <2>1. inbox[m] = None /\ inbox' \in [Mails -> Contents \cup {None}]
        /\ \A n \in Mails : n # m => inbox'[n] = inbox[n]
    BY <1>1 DEF Arrive, ShapeOK
  <2>2. UNCHANGED <<delivery, handler, dismissed, icsFiles, examples, training>>
    BY <1>1 DEF Arrive
  <2>3. ShapeOK'
    BY <1>0, <2>1, <2>2 DEF ShapeOK
  <2>4. HeldOK'
    BY <1>0, <2>2 DEF HeldOK
  <2>5. PICK n : n = handler.mail
    OBVIOUS
  <2>6. \A k \in Mails : inbox[k] # None => inbox'[k] = inbox[k]
    BY <2>1
  <2>7. handler.pc # "idle" => inbox[handler.mail] # None /\ handler.mail \in Mails
    BY DEF HandlingOK, ShapeOK
  <2>8. /\ handler'.pc = "saved" => Stored(n)'
        /\ handler'.pc = "handled" => Settled(n)'
    BY <1>0, <2>2, <2>5, <2>6, <2>7, SettledStays DEF HandlingOK
  <2>9. HandlingOK'
    BY <1>0, <2>2, <2>5, <2>6, <2>7, <2>8, HandlingAfter
  <2>10. QED BY <2>2, <2>3, <2>4, <2>9
<1>2. ASSUME NEW m \in Mails, Receive(m)
      PROVE  ShapeOK' /\ HandlingOK' /\ HeldOK' /\ UNCHANGED training
  <2>1. /\ inbox[m] # None /\ delivery' = [delivery EXCEPT ![m] = "pending"]
        /\ handler' = [pc |-> "received", mail |-> m]
        /\ UNCHANGED <<inbox, dismissed, icsFiles, examples, training>>
    BY <1>2 DEF Receive
  <2>2. ShapeOK'
    BY <1>0, <2>1 DEF ShapeOK
  <2>3. HeldOK'
    BY <1>0, <2>1 DEF HeldOK
  <2>4. \A n \in Mails : delivery'[n] = "acked" => delivery[n] = "acked"
    BY <2>1 DEF ShapeOK
  <2>5. HandlingOK'
    BY <1>0, <2>1, <2>4, HandlingAfter
  <2>6. QED BY <2>1, <2>2, <2>3, <2>5
<1>3. CASE Embed
  <2>1. handler = [pc |-> "received", mail |-> handler.mail] /\ handler.mail \in Mails
    BY <1>3 DEF Embed, ShapeOK
  <2>2. /\ handler'.pc = "embedded" /\ handler'.mail = handler.mail
        /\ handler' = [pc |-> handler'.pc, mail |-> handler'.mail]
        /\ UNCHANGED <<inbox, delivery, dismissed, icsFiles, examples, training>>
    <3>1. PICK m : handler = [pc |-> "received", mail |-> m]
      BY <2>1
    <3>2. QED BY <1>3, <3>1 DEF Embed
  <2>3. ShapeOK'
    BY <1>0, <2>1, <2>2 DEF ShapeOK
  <2>4. HeldOK'
    BY <1>0, <2>2 DEF HeldOK
  <2>5. inbox'[handler'.mail] # None
    BY <1>3, <2>2 DEF HandlingOK, Embed
  <2>6. HandlingOK'
    BY <1>0, <2>2, <2>5, HandlingAfter
  <2>7. QED BY <2>2, <2>3, <2>4, <2>6
<1>4. CASE Classify
  <2>1. handler.pc = "embedded" /\ handler = [pc |-> "embedded", mail |-> handler.mail]
        /\ handler.mail \in Mails /\ inbox[handler.mail] # None
    BY <1>4, ClassifyDoes DEF ShapeOK, HandlingOK
  <2>2. UNCHANGED <<inbox, delivery, icsFiles, examples, training>>
    BY <1>4, ClassifyDoes
  <2>3. CASE handler' = [handler EXCEPT !.pc = "handled"] /\ dismissed' = dismissed \cup {handler.mail}
    <3>1. handler'.pc = "handled" /\ handler'.mail = handler.mail
          /\ handler' = [pc |-> handler'.pc, mail |-> handler'.mail]
      <4>1. PICK m : handler = [pc |-> "embedded", mail |-> m]
        BY <2>1
      <4>2. QED BY <2>3, <4>1
    <3>2. ShapeOK'
      BY <1>0, <2>1, <2>2, <3>1 DEF ShapeOK
    <3>3. HeldOK'
      BY <1>0, <2>2, <3>1 DEF HeldOK
    <3>4. PICK n : n = handler.mail
      OBVIOUS
    <3>5. Settled(n)'
      BY <2>3, <3>4 DEF Settled
    <3>6. HandlingOK'
      BY <1>0, <2>1, <2>2, <2>3, <3>1, <3>4, <3>5, HandlingAfter
    <3>7. QED BY <2>2, <3>2, <3>3, <3>6
  <2>4. CASE /\ handler'.pc = "classified" /\ handler'.mail = handler.mail /\ dismissed' = dismissed
             /\ handler'.mixed \/ handler'.scorer = handler'.located
    <3>1. ShapeOK'
      BY <1>0, <2>1, <2>2, <2>4 DEF ShapeOK
    <3>2. HeldOK'
      BY <1>0, <2>2, <2>4 DEF HeldOK
    <3>3. HandlingOK'
      BY <1>0, <2>1, <2>2, <2>4, HandlingAfter
    <3>4. QED BY <2>2, <3>1, <3>2, <3>3
  <2>5. QED BY <1>4, <2>3, <2>4, ClassifyDoes
<1>5. CASE SaveMail
  <2> DEFINE rec == [id |-> handler.mail, scorer |-> handler.scorer,
                     located |-> handler.located, mixed |-> handler.mixed]
             e == [Trained(handler.label, inbox[handler.mail].point) EXCEPT !.mail = {rec}]
             last == Len(examples) + 1
  <2>1. /\ handler.pc = "classified" /\ examples' = Append(examples, e)
        /\ handler' = [pc |-> "saved", mail |-> handler.mail]
        /\ UNCHANGED <<inbox, delivery, dismissed, icsFiles, training>>
    BY <1>5 DEF SaveMail
  <2>2. /\ rec.id = handler.mail
        /\ rec.mixed \/ rec.scorer = rec.located
    BY <2>1 DEF HeldOK
  <2>3. IsExample(e) /\ e.mail = {rec}
    <3> HIDE DEF rec
    <3>1. e = [label |-> handler.label, point |-> inbox[handler.mail].point,
               embedding |-> inbox[handler.mail].point, used |-> FALSE, mail |-> {rec}]
      <4>1. PICK l, p, m : l = handler.label /\ p = inbox[handler.mail].point /\ m = {rec}
        OBVIOUS
      <4>2. PICK u : u = FALSE
        OBVIOUS
      <4>3. Example(l, p) = [label |-> l, point |-> p, embedding |-> None, used |-> u, mail |-> {}]
        BY <4>2 DEF Example
      <4>4. Trained(l, p) = [label |-> l, point |-> p, embedding |-> p, used |-> u, mail |-> {}]
        BY <4>3 DEF Trained
      <4>5. [Trained(l, p) EXCEPT !.mail = m] =
              [label |-> l, point |-> p, embedding |-> p, used |-> u, mail |-> m]
        BY <4>4
      <4>6. QED BY <4>1, <4>2, <4>5
    <3> HIDE DEF e
    <3>2. QED BY <3>1 DEF IsExample
  <2> HIDE DEF e, rec
  <2>4. /\ Recorded
        /\ DOMAIN examples' = DOMAIN examples \cup {last} /\ last \notin DOMAIN examples
        /\ examples'[last] = e
    BY <2>1, <2>3, Appended
  <2>5. handler'.pc = "saved" /\ handler'.mail = handler.mail
        /\ handler' = [pc |-> handler'.pc, mail |-> handler'.mail]
    BY <2>1
  <2>6. ShapeOK'
    BY <2>1, <2>4, <2>5 DEF ShapeOK, Recorded
  <2> HIDE DEF last
  <2>7. HeldAgainstItsScorer'
    BY <2>2, <2>3, <2>4 DEF HeldOK, HeldAgainstItsScorer, Recorded
  <2>8. PICK n : n = handler.mail
    OBVIOUS
  <2>9. Stored(n)'
    BY <2>2, <2>3, <2>4, <2>8 DEF Stored
  <2>10. inbox'[handler'.mail] # None
    BY <2>1, <2>5 DEF HandlingOK
  <2>11. HandlingOK'
    BY <2>1, <2>4, <2>5, <2>8, <2>9, <2>10, HandlingAfter
  <2>12. QED BY <2>1, <2>5, <2>6, <2>7, <2>11 DEF HeldOK
<1>6. CASE SaveIcs
  <2>1. /\ handler.pc = "saved" /\ handler = [pc |-> "saved", mail |-> handler.mail]
        /\ handler.mail \in Mails /\ inbox[handler.mail] # None /\ Stored(handler.mail)
    BY <1>6 DEF SaveIcs, ShapeOK, HandlingOK
  <2>2. /\ handler'.pc = "handled" /\ handler'.mail = handler.mail
        /\ handler' = [pc |-> handler'.pc, mail |-> handler'.mail]
        /\ icsFiles' = icsFiles \cup {m \in {handler.mail} : inbox[m].ics # <<>>}
        /\ UNCHANGED <<inbox, delivery, dismissed, examples, training>>
    <3>1. PICK m : handler = [pc |-> "saved", mail |-> m]
      BY <2>1
    <3>2. handler' = [pc |-> "handled", mail |-> m]
      BY <1>6, <3>1 DEF SaveIcs
    <3>3. QED BY <1>6, <3>1, <3>2 DEF SaveIcs
  <2>3. ShapeOK'
    BY <1>0, <2>1, <2>2 DEF ShapeOK
  <2>4. HeldOK'
    BY <1>0, <2>2 DEF HeldOK
  <2>5. PICK n : n = handler.mail
    OBVIOUS
  <2>6. Stored(n)'
    BY <2>1, <2>2, <2>5 DEF Stored
  <2>7. Settled(n)'
    BY <2>2, <2>5, <2>6 DEF Settled
  <2>8. HandlingOK'
    BY <1>0, <2>1, <2>2, <2>5, <2>7, HandlingAfter
  <2>9. QED BY <2>2, <2>3, <2>4, <2>8
<1>7. CASE Ack
  <2>1. /\ handler.pc = "handled" /\ handler.mail \in Mails
        /\ delivery' = [delivery EXCEPT ![handler.mail] = "acked"] /\ handler' = Idle
        /\ UNCHANGED <<inbox, dismissed, icsFiles, examples, training>>
    BY <1>7 DEF Ack, ShapeOK
  <2>2. ShapeOK'
    BY <1>0, <2>1 DEF ShapeOK, Idle
  <2>3. HeldOK'
    BY <1>0, <2>1 DEF HeldOK, Idle
  <2>4. \A m \in Mails : delivery'[m] = "acked" => delivery[m] = "acked" \/ m = handler.mail
    BY <2>1 DEF ShapeOK
  <2>5. handler'.pc = "idle"
    BY <2>1 DEF Idle
  <2>6. HandlingOK'
    BY <1>0, <2>1, <2>4, <2>5, HandlingAfter
  <2>7. QED BY <2>1, <2>2, <2>3, <2>6
<1>8. CASE Fail
  <2>1. handler' = Idle /\ UNCHANGED <<inbox, delivery, dismissed, icsFiles, examples, training>>
    BY <1>8 DEF Fail
  <2>2. handler'.pc = "idle"
    BY <2>1 DEF Idle
  <2>3. ShapeOK'
    BY <1>0, <2>1, <2>2 DEF ShapeOK, Idle
  <2>4. HeldOK'
    BY <1>0, <2>1, <2>2 DEF HeldOK
  <2>5. HandlingOK'
    BY <1>0, <2>1, <2>2, HandlingAfter
  <2>6. QED BY <2>1, <2>3, <2>4, <2>5
<1>9. QED BY <1>1, <1>2, <1>3, <1>4, <1>5, <1>6, <1>7, <1>8 DEF HandlingStep

\* A restart loses the handler's and the requests' progress, and nothing else.
LEMMA RestartKeeps ==
  ASSUME IInv, Restart
  PROVE  IInv'
<1> USE DEF IInv
<1>1. /\ handler' = Idle /\ handler'.pc = "idle"
      /\ trainer' = [t \in Trainers |-> Idle]
      /\ UNCHANGED <<inbox, delivery, dismissed, icsFiles, examples, centroids, mixed>>
  BY DEF Restart, Idle
<1>2. Recorded /\ HeldAgainstItsScorer'
  BY <1>1, NothingStored
<1>3. ShapeOK'
  BY <1>1, <1>2 DEF ShapeOK, Recorded, Idle
<1>4. HandlingOK'
  BY <1>1, <1>2, HandlingAfter
<1>5. TrainersOK'
  BY <1>1 DEF TrainersOK, Busy, Idle
<1>6. OnePerCluster'
  BY <1>1 DEF OnePerCluster
<1>7. HeldOK'
  BY <1>1, <1>2 DEF HeldOK
<1>8. QED BY <1>3, <1>4, <1>5, <1>6, <1>7

-------------------------------------------------------------------------------
(* The theorems *)

\* The invariant holds at first.
LEMMA InitInv == Init => IInv
<1> SUFFICES ASSUME Init PROVE IInv
  OBVIOUS
<1>1. /\ inbox = [m \in Mails |-> None] /\ delivery = [m \in Mails |-> "new"]
      /\ handler = Idle /\ trainer = [t \in Trainers |-> Idle]
      /\ centroids \in {{}, {Legacy}}
  BY DEF Init
<1> DEFINE a == Trained("meeting_action", 4)
           b == Trained("applied", 0)
           c == Trained("applied", 1)
           d == Trained("applied", 2)
<1>2. \A l, p : IsExample(Trained(l, p)) /\ Trained(l, p).mail = {}
  <2> SUFFICES ASSUME NEW l, NEW p PROVE IsExample(Trained(l, p)) /\ Trained(l, p).mail = {}
    OBVIOUS
  <2>1. PICK u : u = FALSE
    OBVIOUS
  <2>2. Example(l, p) = [label |-> l, point |-> p, embedding |-> None, used |-> u, mail |-> {}]
    BY <2>1 DEF Example
  <2>3. Trained(l, p) = [label |-> l, point |-> p, embedding |-> p, used |-> u, mail |-> {}]
    BY <2>2 DEF Trained
  <2>4. QED BY <2>3 DEF IsExample
<1>3. examples = <<a, b, c, d>>
  BY DEF Init
<1>4. IsExample(a) /\ IsExample(b) /\ IsExample(c) /\ IsExample(d)
      /\ a.mail = {} /\ b.mail = {} /\ c.mail = {} /\ d.mail = {}
  BY <1>2
<1> HIDE DEF a, b, c, d
<1>5. /\ Len(examples) = 4 /\ DOMAIN examples = 1 .. 4
      /\ examples = [i \in 1 .. Len(examples) |-> examples[i]]
      /\ \A i \in 1 .. 4 : examples[i] \in {a, b, c, d}
  BY <1>3
<1>6. ShapeOK
  BY <1>1, <1>4, <1>5 DEF ShapeOK, IsSequence, Idle
<1>7. HandlingOK
  BY <1>1 DEF HandlingOK, Idle
<1>8. TrainersOK
  BY <1>1 DEF TrainersOK, Busy, Idle
<1>9. OnePerCluster
  BY <1>1 DEF OnePerCluster
<1>10. \A i \in DOMAIN examples : examples[i].mail = {}
  BY <1>4, <1>5
<1>11. HeldOK
  BY <1>1, <1>10 DEF HeldOK, HeldAgainstItsScorer, Idle
<1>12. QED BY <1>6, <1>7, <1>8, <1>9, <1>11 DEF IInv

\* A training request's step leaves the rows in order, and every label known.
LEMMA TrainingKeepsRows ==
  ASSUME IInv, NEW t \in Trainers, TrainingStep(t)
  PROVE  /\ TrainersOK' /\ OnePerCluster'
         /\ \A c \in centroids : \E d \in centroids' : d.label = c.label
<1> USE DEF IInv
<1>1. CASE CommitDone(t)
  BY <1>1, CommitKeepsTrainers, CommitKeepsClusters, CommitKeepsLabels
<1>2. CASE ~CommitDone(t)
  <2>1. TrainersOK' /\ UNCHANGED <<centroids, mixed>>
    BY <1>2, CommitBegins, DeleteBegins, DeleteEnds, OtherRequests DEF TrainingStep
  <2>2. QED BY <2>1 DEF OnePerCluster
<1>3. QED BY <1>1, <1>2

\* A step that is not one of training leaves the rows alone.
LEMMA RowsKept ==
  ASSUME UNCHANGED training, TrainersOK, OnePerCluster
  PROVE  TrainersOK' /\ OnePerCluster' /\ centroids' = centroids
BY DEF training, TrainersOK, OnePerCluster, Busy, Covers, CommitOK, IsCommit, NewLabels

\* Every step keeps the invariant, and every label known.
LEMMA NextInv ==
  ASSUME IInv, [Next]_vars
  PROVE  IInv' /\ \A c \in centroids : \E d \in centroids' : d.label = c.label
<1>1. ASSUME NEW t \in Trainers, TrainingStep(t)
      PROVE  IInv' /\ \A c \in centroids : \E d \in centroids' : d.label = c.label
  <2>1. ShapeOK' /\ HandlingOK' /\ HeldOK'
    BY <1>1, TrainingDoes, TrainingKeepsMails DEF IInv
  <2>2. QED BY <1>1, <2>1, TrainingKeepsRows DEF IInv
<1>2. CASE HandlingStep
  BY <1>2, HandlingKeeps, RowsKept DEF IInv
<1>3. CASE Restart
  BY <1>3, RestartKeeps DEF Restart
<1>4. CASE UNCHANGED vars
  <2>1. UNCHANGED mail /\ UNCHANGED training /\ examples' = examples
    BY <1>4 DEF vars
  <2>2. Recorded /\ NoMailAdded
    BY <2>1, NothingStored DEF IInv, NoMailAdded
  <2>3. QED BY <2>1, <2>2, TrainingKeepsMails, RowsKept DEF IInv
<1>5. QED BY <1>1, <1>2, <1>3, <1>4 DEF Next, TrainingStep, HandlingStep

\* The inductive invariant holds, however many requests overlap, and whatever
\* the size of a batch.
THEOREM Invariance == Spec => []IInv
<1>1. IInv /\ [Next]_vars => IInv'
  BY NextInv
<1>2. QED BY <1>1, InitInv, PTL DEF Spec

\* A mail whose message is acknowledged was rejected by the classification or
\* is stored with its calendar files. (BusNewMailHandler.handle, _consume_messages)
THEOREM NothingAckedEarly == Spec => []AckedIsSettled
<1>1. IInv => AckedIsSettled
  BY DEF IInv, HandlingOK, Settled, AckedIsSettled
<1>2. QED BY <1>1, Invariance, PTL

\* A stored mail was held against the threshold of the very cluster that scored
\* it, unless two commits overlapped and left the label with the clusters of
\* both. (classify_by_centroid, _locate_centroid, commit)
THEOREM HeldAgainstItsOwn == Spec => []HeldAgainstItsScorer
<1>1. IInv => HeldAgainstItsScorer
  BY DEF IInv, HeldOK
<1>2. QED BY <1>1, Invariance, PTL

\* Whatever commits overlap, fail or are cut off, the classification never
\* finds a label without centroids that had some before. (EmbdLrnService.commit)
THEOREM LabelsKept == Spec => LabelsStayKnown
<1>1. IInv /\ [Next]_vars => [\A c \in centroids : \E d \in centroids' : d.label = c.label]_vars
  BY NextInv
<1>2. QED BY <1>1, Invariance, PTL DEF Spec, LabelsStayKnown

===============================================================================
