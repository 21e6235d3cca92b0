----------------------------- MODULE MailMapping -----------------------------
(***************************************************************************)
(* mail-mapper: POST /api/mappings/resolve and the consumer of the user's  *)
(* feedback.  Requests run in threads of their own and share the database; *)
(* each scores its mails against the applications google-sheets-accessor   *)
(* lists, assigns them (module Hungarian: some best assignment), drops     *)
(* what lies below the threshold, stores the outcome and answers.  The     *)
(* user's rejections come back over the bus while other requests run.      *)
(* Scores are integers: a feature is worth 0, 1 or 2 halves, a weight is   *)
(* in hundredths, so that a perfect score is 200.                          *)
(***************************************************************************)
EXTENDS Integers, FiniteSets, FiniteSetsExt, TLC

CONSTANTS Mails, Applications, Requests, Labels,
          Vectors,     \* embeddings, orthogonal to each other
          Senders,     \* whom a sender may be recognised as: an application's company or None
          Old,         \* the applications created days before the mails
          MinScore,    \* HUNGARIAN_MIN_MATCH_SCORE
          None

ASSUME ThresholdAssumption == MinScore \in 1..200 /\ Old \subseteq Applications

ASSUME MappingAssumption ==
  IsFiniteSet(Mails) /\ None \notin Applications \cup {"db-default", "v2", "static-default"}

Statuses == {"applied", "meeting", "offer", "denied", "pending"}

\* The weights in force: version "db-default" is an empty table, "v2" a row
\* with an entry for the sender only.
Versions == {"db-default", "v2", "static-default"}
DefaultWeights == [similarity |-> 44, time |-> 20, sender |-> 36]
Weights(version) ==
  IF version = "v2" THEN [DefaultWeights EXCEPT !.sender = 10] ELSE DefaultWeights

VARIABLES
  status,    \* the applications' status in google-sheets-accessor
  replied,   \* the applications with an applied_email_id
  vector,    \* embedding of mails and applications; None: not computed yet
  company,   \* the application a mail's sender is recognised by, or None
  active,    \* the version of the active weights in the database
  matches,   \* mail_mapping_matches
  feedback,  \* mail_mapping_feedback
  stream,    \* the feedback entries on the bus that are not acknowledged
  req,       \* the requests in progress
  answer     \* the answers given

data == <<vector, company>>
vars == <<status, replied, data, active, matches, feedback, stream, req, answer>>

Idle == [pc |-> "idle"]

Init ==
  /\ status \in [Applications -> {"applied"}]
  /\ replied = {}
  /\ vector \in [Mails \cup Applications -> Vectors \cup {None}]
  /\ \A e \in Mails : vector[e] # None
  /\ company \in [Mails -> Senders]
  /\ active = "db-default"
  /\ matches = {} /\ feedback = {} /\ stream = {}
  /\ req = [r \in Requests |-> Idle]
  /\ answer = [r \in Requests |-> None]

-----------------------------------------------------------------------------
(* Scoring *)

\* (cosine + 1) / 2, nothing when the application has no embedding yet
Similarity(e, a) ==
  CASE vector[a] = None -> 0 [] vector[a] = vector[e] -> 2 [] OTHER -> 1

\* The decay time: an hour for an answer to the application, days for the rest.
LongTau(label) == label # "applied"

\* exp(-gap / tau)
TimeGap(label, a) == CASE a \notin Old -> 2 [] LongTau(label) -> 1 [] OTHER -> 0

\* 1 - exp(-n) for n common tokens
Sender(e, a) == IF company[e] = a THEN 1 ELSE 0

Aggregate(version, label, e, a) ==
  LET w == Weights(version)
  IN  w.similarity * Similarity(e, a) + w.time * TimeGap(label, a) + w.sender * Sender(e, a)

\* What the solver minimises is -log(score + 1e-12): it maximises the product
\* of the scores, in which a zero outweighs everything else (for two pairs).
Likelihood(s) == IF s = 0 THEN 1 ELSE 100 * s

\* The pairings of a full assignment: everybody of the smaller side has a partner.
Pairings(E, A) ==
  LET Into(S, T) == {f \in [S -> T] : \A x, y \in S : f[x] = f[y] => x = y}
  IN  IF Cardinality(E) <= Cardinality(A)
      THEN {{<<e, f[e]>> : e \in E} : f \in Into(E, A)}
      ELSE {{<<f[a], a>> : a \in A} : f \in Into(A, E)}

Product(score, P) == FoldSet(LAMBDA p, acc : acc * Likelihood(score[p]), 1, P)

\* Slip: the sign of the logarithm is forgotten.
WorstPairings(score, E, A) ==
  {P \in Pairings(E, A) : \A Q \in Pairings(E, A) : Product(score, P) <= Product(score, Q)}

\* what the solver may return: module Hungarian shows that it returns one of them
BestPairings(score, E, A) ==
  {P \in Pairings(E, A) : \A Q \in Pairings(E, A) : Product(score, Q) <= Product(score, P)}

-----------------------------------------------------------------------------
(* One request *)

\* mail-processor asks for mails of one label
Call(r) ==
  /\ req[r] = Idle /\ answer[r] = None
  /\ \E label \in Labels, E \in SUBSET Mails \ {{}} :
       req' = [req EXCEPT ![r] = [pc |-> "list", label |-> label, mails |-> E,
                                  apps |-> {}, blocked |-> {}, config |-> None,
                                  aborted |-> FALSE, rows |-> {}, assigned |-> {}, pairs |-> {},
                                  rejected |-> {<<f.mail, f.app>> : f \in feedback}]]
  /\ UNCHANGED <<status, replied, data, active, matches, feedback, stream, answer>>

Finish(r, pairs, outcome) ==
  /\ req' = [req EXCEPT ![r] = [pc |-> "done", label |-> @.label, mails |-> @.mails, rejected |-> @.rejected]]
  /\ answer' = [answer EXCEPT ![r] = [outcome |-> outcome, pairs |-> pairs]]

\* _resolve_application_filters
Wanted(label) ==
  CASE label = "applied"     -> {"applied"}
    [] label = "denied"      -> Statuses \ {"denied"}
    [] label = "meeting_inv" -> Statuses \ {"meeting", "denied", "offer"}
    [] label = "offer"       -> {"offer"}
    [] OTHER                 -> {"meeting", "applied", "pending"}

\* GET application/list: of applied ones those whose confirmation has not come
Listed(label) ==
  {a \in Applications : status[a] \in Wanted(label) /\ (label = "applied" => a \notin replied)}

\* A failing list is an empty one, and an empty one skips every mail, stores
\* nothing and is answered OK.
ListApplications(r) ==
  /\ req[r].pc = "list"
  /\ \E apps \in {Listed(req[r].label), {}} :
       IF apps = {}
       THEN Finish(r, {}, "ok")
       ELSE /\ req' = [req EXCEPT ![r].pc = "blocked", ![r].apps = apps]
            /\ UNCHANGED answer
  /\ UNCHANGED <<status, replied, data, active, matches, feedback, stream>>

\* _load_blocked_application_ids
Blocked(E) == {<<f.mail, f.app>> : f \in {f \in feedback : f.mail \in E}}

LoadBlocked(r) ==
  /\ req[r].pc = "blocked"
  /\ \/ /\ req' = [req EXCEPT ![r].pc = "score", ![r].blocked = Blocked(req[r].mails)]
        /\ UNCHANGED answer
     \/ Finish(r, {}, "error")
  /\ UNCHANGED <<status, replied, data, active, matches, feedback, stream>>

\* Slip: the active weights are read anew for every mail.
LoadConfigEachTime(r) == {<<active, req[r].aborted>>, <<"static-default", TRUE>>}

\* DatabaseScoringConfigProvider.get_config: read once, then cached.  After a
\* failing query the defaults are used, in a transaction that is lost.
GetConfig(r) ==
  IF req[r].config # None THEN {<<req[r].config, req[r].aborted>>}
  ELSE {<<active, FALSE>>, <<"static-default", TRUE>>}

\* _build_score_row: one mail against every listed application
ScoreRow(r) ==
  /\ req[r].pc = "score"
  /\ \E e \in req[r].mails \ {w.mail : w \in req[r].rows}, c \in GetConfig(r) :
       LET q   == req[r]
           raw == [a \in q.apps |-> Aggregate(c[1], q.label, e, a)]
           row == [mail |-> e, version |-> c[1], raw |-> raw,
                   score |-> [a \in q.apps |-> IF <<e, a>> \in q.blocked THEN 0 ELSE raw[a]]]
       IN  req' = [req EXCEPT ![r].config = c[1], ![r].aborted = c[2],
                              ![r].rows = @ \cup {row},
                              ![r].pc = IF Cardinality(q.rows) + 1 = Cardinality(q.mails)
                                        THEN "match" ELSE "score"]
  /\ UNCHANGED <<status, replied, data, active, matches, feedback, stream, answer>>

Score(r) == [p \in req[r].mails \X req[r].apps |->
               (CHOOSE w \in req[r].rows : w.mail = p[1]).score[p[2]]]

\* Slip: the threshold is not applied to what the solver returns.
KeptAll(score, P) == P

\* match_batch: pairs below the threshold are dropped after the assignment
Kept(score, P) == {p \in P : score[p] >= MinScore}

Match(r) ==
  /\ req[r].pc = "match"
  /\ \E P \in BestPairings(Score(r), req[r].mails, req[r].apps) :
       req' = [req EXCEPT ![r].pc = "persist", ![r].assigned = P,
                              ![r].pairs = Kept(Score(r), P)]
  /\ UNCHANGED <<status, replied, data, active, matches, feedback, stream, answer>>

\* _build_persistence_payload for every mail of the batch, matched or not
Stored(r) ==
  LET AppOf(e) == {p[2] : p \in {p \in req[r].pairs : p[1] = e}}
  IN  UNION {IF AppOf(w.mail) = {}
             THEN {[batch |-> r, mail |-> w.mail, app |-> None, version |-> w.version,
                    overall |-> Max({w.raw[a] : a \in req[r].apps})]}
             ELSE {[batch |-> r, mail |-> w.mail, app |-> a, version |-> w.version,
                    overall |-> w.score[a]] : a \in AppOf(w.mail)} : w \in req[r].rows}

\* Slip: what cannot be stored is answered all the same.
PersistBestEffort(r) ==
  /\ req[r].pc = "persist"
  /\ matches' \in {matches, matches \cup (IF req[r].aborted THEN {} ELSE Stored(r))}
  /\ Finish(r, req[r].pairs, "ok")
  /\ UNCHANGED <<status, replied, data, active, feedback, stream>>

\* _persist_matches: one transaction.  A lost one is rolled back; a commit
\* whose answer is lost may have stored the rows.
Persist(r) ==
  /\ req[r].pc = "persist"
  /\ \/ /\ ~req[r].aborted
        /\ matches' = matches \cup Stored(r)
        /\ Finish(r, req[r].pairs, "ok")
     \/ /\ matches' \in {matches, matches \cup (IF req[r].aborted THEN {} ELSE Stored(r))}
        /\ Finish(r, {}, "error")
  /\ UNCHANGED <<status, replied, data, active, feedback, stream>>

-----------------------------------------------------------------------------
(* The user and the consumer of the feedback *)

Offers == UNION {IF answer[r] = None THEN {} ELSE answer[r].pairs : r \in Requests}

\* the bot publishes the user's rejection of an offer
Reject ==
  /\ \E p \in Offers : /\ \A f \in feedback : <<f.mail, f.app>> # p
                       /\ stream' = stream \cup {p}
  /\ UNCHANGED <<status, replied, data, active, matches, feedback, req, answer>>

\* the user's confirmation of an offer has reached the application
Confirm ==
  /\ \E r \in Requests : /\ answer[r] # None
                         /\ \E p \in answer[r].pairs :
                              IF req[r].label = "applied"
                              THEN replied' = replied \cup {p[2]} /\ UNCHANGED status
                              ELSE status' = [status EXCEPT ![p[2]] = "denied"] /\ UNCHANGED replied
  /\ UNCHANGED <<data, active, matches, feedback, stream, req, answer>>

\* _resolve_match: the newest match of the pair, if there is one
ResolveMatch(p) == {m \in matches : m.mail = p[1] /\ m.app = p[2]}

\* the entry of the stream as a row: the bot's entries always parse, and every
\* reason it knows blocks the pair
Feedback(p) == [mail |-> p[1], app |-> p[2], linked |-> ResolveMatch(p) # {}]

\* record_feedback commits before the entry is acknowledged: a failure in
\* between records it again at the redelivery.
RecordFeedback ==
  /\ \E p \in stream :
       /\ feedback' = feedback \cup {Feedback(p)}
       /\ stream' \in {stream, stream \ {p}}
  /\ UNCHANGED <<status, replied, data, active, matches, req, answer>>

\* an operator activates another row of weights
ActivateWeights ==
  /\ active = "db-default"
  /\ active' = "v2"
  /\ UNCHANGED <<status, replied, data, matches, feedback, stream, req, answer>>

Next ==
  \/ \E r \in Requests : \/ Call(r) \/ ListApplications(r) \/ LoadBlocked(r)
                         \/ ScoreRow(r) \/ Match(r) \/ Persist(r)
  \/ Reject \/ Confirm \/ RecordFeedback \/ ActivateWeights

Spec == Init /\ [][Next]_vars

-----------------------------------------------------------------------------
\* A pair the user rejected is offered by no request that began after the
\* rejection was recorded, although the solver goes on assigning such pairs.
RejectedNotOffered ==
  \A r \in Requests : answer[r] # None => answer[r].pairs \cap req[r].rejected = {}

\* What is answered is what is stored: every offered pair has its row in the
\* batch, every other mail a row without an application, and no recorded
\* rejection is left without the match it is about.
AnsweredAsStored ==
  /\ \A r \in Requests : answer[r] # None /\ answer[r].pairs # {} =>
       LET rows == {m \in matches : m.batch = r}
       IN  /\ {m.mail : m \in rows} = req[r].mails
           /\ {<<m.mail, m.app>> : m \in {m \in rows : m.app # None}} = answer[r].pairs
  /\ \A f \in feedback : f.linked

\* One batch is scored with one set of weights, and never with the built-in
\* ones a failing query falls back to.
UniformScoring ==
  \A m, n \in matches : m.batch = n.batch =>
    m.version = n.version /\ m.version # "static-default"

\* No application is offered for two mails of a batch, and a mail is left out
\* although an application scores well for it only if the best assignment
\* gives that application to another mail of the batch.
LeftOutOnlyIfContested ==
  \A r \in Requests : req[r].pc = "persist" =>
    LET q == req[r]
    IN  /\ \A p1, p2 \in q.pairs : p1[1] = p2[1] <=> p1[2] = p2[2]
        /\ \A e \in q.mails \ {p[1] : p \in q.pairs}, a \in q.apps :
             Score(r)[<<e, a>>] >= MinScore =>
               \E f \in q.mails \ {e} : <<f, a>> \in q.assigned

\* mails, embeddings and requests are interchangeable, applications are not (Old)
Symmetry == Permutations(Mails) \cup Permutations(Vectors) \cup Permutations(Requests)
=============================================================================
