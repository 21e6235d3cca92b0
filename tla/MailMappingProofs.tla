--------------------------- MODULE MailMappingProofs ---------------------------
(***************************************************************************)
(* What mail-mapper guarantees for every set of mails, applications and    *)
(* overlapping requests: no offer against a rejection, answers that agree  *)
(* with the stored matches, and one set of weights per batch. These proofs *)
(* use neither how a score is computed nor which pairing the solver takes. *)
(*                                                                         *)
(* That a mail goes without an application it fits only if another mail    *)
(* contends for that application does depend on the pairing: a best one    *)
(* could be improved by adding or exchanging one pair, so products of      *)
(* likelihoods are taken apart here pair by pair.                          *)
(*                                                                         *)
(* The last part is about the solver itself, module Hungarian. Its reduced *)
(* costs stay sound: every step changes whole rows and columns, so all     *)
(* assignments change their cost by the same amount (SolverInv). When it   *)
(* stops, the starred zeros are therefore an assignment that no other one  *)
(* undercuts.                                                              *)
(***************************************************************************)
EXTENDS MailMapping, Hungarian, FiniteSetTheorems, SequenceTheorems, TLAPS

-------------------------------------------------------------------------------
(* The inductive invariant *)

InProgress == {"list", "blocked", "score", "match", "persist"}

IsRequest(q) ==
  q \in [pc : {q.pc}, label : {q.label}, mails : {q.mails}, apps : {q.apps}, blocked : {q.blocked},
         config : {q.config}, aborted : {q.aborted}, rows : {q.rows}, assigned : {q.assigned},
         pairs : {q.pairs}, rejected : {q.rejected}]

MailsOf(rows) == {w.mail : w \in rows}

\* The rows of a request: one per mail, of one version, with a zero for every
\* blocked pair.
RowsOK(q) ==
  /\ IsFiniteSet(q.rows) /\ Cardinality(q.rows) = Cardinality(MailsOf(q.rows))
  /\ \A w \in q.rows :
       /\ w.mail \in q.mails /\ w.version = q.config
       /\ \A a \in q.apps : <<w.mail, a>> \in q.blocked => w.score[a] = 0
  /\ q.config = None => q.rows = {}
  /\ q.config = "static-default" => q.aborted

\* A request in progress, by itself.
RequestOK(q) ==
  /\ IsRequest(q)
  /\ q.mails \subseteq Mails /\ q.apps \subseteq Applications
  /\ q.pc \in {"list", "blocked"} => q.rows = {} /\ q.config = None
  /\ q.pc \in {"score", "match", "persist"} =>
       /\ {p \in q.rejected : p[1] \in q.mails} \subseteq q.blocked
       /\ RowsOK(q)
  /\ q.pc \in {"match", "persist"} => MailsOf(q.rows) = q.mails
  /\ q.pc = "persist" => q.pairs \subseteq q.mails \X q.apps /\ q.pairs \cap q.rejected = {}

\* Until it is answered a request has stored nothing; what it was told of
\* rejections is still on record when it loads them.
RequestsOK ==
  \A r \in Requests :
    /\ req[r].pc \in InProgress \cup {"idle", "done"}
    /\ req[r].pc \in InProgress => RequestOK(req[r])
    /\ req[r].pc # "done" => answer[r] = None /\ \A m \in matches : m.batch # r
    /\ req[r].pc \in {"list", "blocked"} => req[r].rejected \subseteq {<<f.mail, f.app>> : f \in feedback}

\* What a rejection is about has been stored before it was offered.
RejectionsOK ==
  /\ \A p \in stream : ResolveMatch(p) # {}
  /\ \A f \in feedback : f.linked

FunctionsOK ==
  /\ req = [r \in Requests |-> req[r]] /\ answer = [r \in Requests |-> answer[r]]
  /\ active \in {"db-default", "v2"}

IInv ==
  /\ FunctionsOK /\ RequestsOK /\ RejectionsOK
  /\ RejectedNotOffered /\ AnsweredAsStored /\ UniformScoring

-------------------------------------------------------------------------------
(* Steps of one request *)

\* The request r becomes w, the others are at what they were.
Becomes(r, w) ==
  /\ req' = [o \in Requests |-> IF o = r THEN w ELSE req[o]]
  /\ \A o \in Requests : req'[o] = IF o = r THEN w ELSE req[o]

\* A step of r as an update of one function.
LEMMA Becoming ==
  ASSUME FunctionsOK, NEW r \in Requests, NEW w, req' = [req EXCEPT ![r] = w]
  PROVE  Becomes(r, w)
BY DEF FunctionsOK, Becomes

\* A request goes on, and has stored nothing yet.
LEMMA GoesOn ==
  ASSUME IInv, NEW r \in Requests, NEW w, Becomes(r, w), req[r].pc # "done",
         w.pc \in InProgress, RequestOK(w),
         w.pc \in {"list", "blocked"} => w.rejected \subseteq {<<f.mail, f.app>> : f \in feedback},
         UNCHANGED <<active, matches, feedback, stream, answer>>
  PROVE  IInv'
<1> USE DEF IInv
<1>1. FunctionsOK'
  BY DEF FunctionsOK, Becomes
<1>2. \A o \in Requests : o # r => req'[o] = req[o]
  BY DEF Becomes
<1>3. req'[r] = w
  BY DEF Becomes
<1>4. answer[r] = None
  BY DEF RequestsOK
<1>5. ASSUME NEW o \in Requests
      PROVE  /\ req'[o].pc \in InProgress \cup {"idle", "done"}
             /\ req'[o].pc \in InProgress => RequestOK(req'[o])
             /\ req'[o].pc # "done" => answer'[o] = None /\ \A m \in matches' : m.batch # o
             /\ req'[o].pc \in {"list", "blocked"} =>
                  req'[o].rejected \subseteq {<<f.mail, f.app>> : f \in feedback'}
  BY <1>2, <1>3 DEF RequestsOK
<1>6. RequestsOK'
  BY <1>5 DEF RequestsOK, RequestOK, IsRequest, RowsOK, MailsOf
<1>7. RejectionsOK'
  BY DEF RejectionsOK, ResolveMatch
<1>8. RejectedNotOffered'
  BY <1>2, <1>4 DEF RejectedNotOffered
<1>9. AnsweredAsStored'
  BY <1>2, <1>4 DEF AnsweredAsStored
<1>10. UniformScoring'
  BY DEF UniformScoring
<1>11. QED BY <1>1, <1>6, <1>7, <1>8, <1>9, <1>10

\* The rows a batch stores: one set of weights, every mail, the offered pairs.
LEMMA StoredRows ==
  ASSUME NEW r \in Requests, RequestOK(req[r]), req[r].pc = "persist"
  PROVE  /\ \A m \in Stored(r) : m.batch = r /\ m.version = req[r].config
         /\ {m.mail : m \in Stored(r)} = req[r].mails
         /\ {<<m.mail, m.app>> : m \in {m \in Stored(r) : m.app # None}} = req[r].pairs
         /\ req[r].config = "static-default" => req[r].aborted
<1> DEFINE q == req[r]
           AppOf(e) == {p[2] : p \in {p \in q.pairs : p[1] = e}}
           Left(w) == [batch |-> r, mail |-> w.mail, app |-> None, version |-> w.version,
                       overall |-> Max({w.raw[a] : a \in q.apps})]
           Given(w, a) == [batch |-> r, mail |-> w.mail, app |-> a, version |-> w.version,
                           overall |-> w.score[a]]
           Of(w) == IF AppOf(w.mail) = {} THEN {Left(w)} ELSE {Given(w, a) : a \in AppOf(w.mail)}
<1>1. Stored(r) = UNION {Of(w) : w \in q.rows}
  BY DEF Stored
<1>2. /\ MailsOf(q.rows) = q.mails /\ q.pairs \subseteq q.mails \X q.apps
      /\ q.apps \subseteq Applications
      /\ \A w \in q.rows : w.mail \in q.mails /\ w.version = q.config
      /\ q.config = "static-default" => q.aborted
  BY DEF RequestOK, RowsOK
<1>3. None \notin q.apps
  BY <1>2, MappingAssumption
<1>4. /\ \A w : Left(w).batch = r /\ Left(w).mail = w.mail /\ Left(w).app = None
                /\ Left(w).version = w.version
      /\ \A w, a : Given(w, a).batch = r /\ Given(w, a).mail = w.mail /\ Given(w, a).app = a
                   /\ Given(w, a).version = w.version
  OBVIOUS
<1>5. \A p \in q.pairs : p = <<p[1], p[2]>> /\ p[1] \in q.mails /\ p[2] \in q.apps
  BY <1>2
<1>6. \A e : \A a \in AppOf(e) : a \in q.apps /\ <<e, a>> \in q.pairs
  BY <1>5
<1>7. \A p \in q.pairs : p[2] \in AppOf(p[1])
  OBVIOUS
<1> HIDE DEF q, AppOf, Left, Given
<1>8. \A m \in Stored(r) : \E w \in q.rows :
        \/ m = Left(w)
        \/ \E a \in AppOf(w.mail) : m = Given(w, a)
  BY <1>1
<1>9. \A w \in q.rows : \/ Left(w) \in Stored(r)
                        \/ AppOf(w.mail) # {} /\ \A a \in AppOf(w.mail) : Given(w, a) \in Stored(r)
  <2>1. \A w \in q.rows : \A x \in Of(w) : x \in Stored(r)
    BY <1>1
  <2>2. QED BY <2>1
<1>10. \A m \in Stored(r) : m.batch = r /\ m.version = q.config /\ m.mail \in q.mails
  BY <1>2, <1>4, <1>8
<1>11. \A e \in q.mails : \E m \in Stored(r) : m.mail = e
  <2>1. ASSUME NEW e \in q.mails PROVE \E m \in Stored(r) : m.mail = e
    <3>1. PICK w \in q.rows : w.mail = e
      BY <1>2 DEF MailsOf
    <3>2. QED BY <1>4, <1>9, <3>1
  <2>2. QED BY <2>1
<1>12. \A m \in Stored(r) : m.app # None => <<m.mail, m.app>> \in q.pairs
  BY <1>4, <1>6, <1>8
<1>13. ASSUME NEW p \in q.pairs PROVE \E m \in Stored(r) : m.app # None /\ p = <<m.mail, m.app>>
  <2>1. PICK w \in q.rows : w.mail = p[1]
    BY <1>2, <1>5 DEF MailsOf
  <2>2. p[2] \in AppOf(w.mail)
    BY <1>7, <2>1
  <2>3. Given(w, p[2]) \in Stored(r)
    <3>1. Given(w, p[2]) \in Of(w)
      BY <2>2
    <3>2. QED BY <1>1, <3>1
  <2>4. Given(w, p[2]).mail = p[1] /\ Given(w, p[2]).app = p[2] /\ p[2] # None
    BY <1>3, <1>4, <1>5, <2>1
  <2>5. QED BY <1>5, <2>3, <2>4
<1>14. {m.mail : m \in Stored(r)} = q.mails
  BY <1>10, <1>11
<1>15. {<<m.mail, m.app>> : m \in {m \in Stored(r) : m.app # None}} = q.pairs
  BY <1>12, <1>13
<1>16. QED BY <1>2, <1>10, <1>14, <1>15 DEF q

\* A request is answered: with nothing, or with what it has stored.
LEMMA Finished ==
  ASSUME IInv, NEW r \in Requests, req[r].pc \in InProgress, NEW pairs, NEW outcome,
         Finish(r, pairs, outcome), UNCHANGED <<active, feedback, stream>>,
         \/ pairs = {} /\ matches' = matches
         \/ /\ req[r].pc = "persist" /\ ~req[r].aborted
            /\ pairs \in {{}, req[r].pairs} /\ matches' = matches \cup Stored(r)
  PROVE  IInv'
<1> DEFINE q == req[r]
           w == [pc |-> "done", label |-> q.label, mails |-> q.mails, rejected |-> q.rejected]
           ans == [outcome |-> outcome, pairs |-> pairs]
<1>1. Becomes(r, w)
  BY Becoming DEF IInv, Finish
<1>2. /\ answer' = [o \in Requests |-> answer'[o]] /\ answer'[r] = ans
      /\ \A o \in Requests : o # r => answer'[o] = answer[o]
  BY DEF IInv, FunctionsOK, Finish
<1>3. /\ w.pc = "done" /\ w.mails = q.mails /\ w.rejected = q.rejected /\ ans.pairs = pairs
  OBVIOUS
<1>4. RequestOK(q) /\ answer[r] = None /\ \A m \in matches : m.batch # r
  BY DEF IInv, RequestsOK, InProgress
<1> HIDE DEF w, q, ans
<1>5. /\ \A o \in Requests : o # r => req'[o] = req[o]
      /\ req'[r] = w
  BY <1>1 DEF Becomes
<1>6. FunctionsOK'
  BY <1>1, <1>2 DEF IInv, FunctionsOK, Becomes
<1>7. /\ matches \subseteq matches'
      /\ \A m \in matches' \ matches : m.batch = r
      /\ matches' # matches => \A m \in matches' \ matches : m.version = q.config /\ q.config # "static-default"
  BY <1>4, StoredRows DEF q
<1>8. ASSUME NEW o \in Requests
      PROVE  /\ req'[o].pc \in InProgress \cup {"idle", "done"}
             /\ req'[o].pc \in InProgress => RequestOK(req'[o])
             /\ req'[o].pc # "done" => answer'[o] = None /\ \A m \in matches' : m.batch # o
             /\ req'[o].pc \in {"list", "blocked"} =>
                  req'[o].rejected \subseteq {<<f.mail, f.app>> : f \in feedback'}
  <2>1. CASE o = r
    BY <1>3, <1>5, <2>1 DEF InProgress
  <2>2. CASE o # r
    BY <1>2, <1>5, <1>7, <2>2 DEF IInv, RequestsOK
  <2>3. QED BY <2>1, <2>2
<1>9. RequestsOK'
  BY <1>8 DEF RequestsOK, RequestOK, IsRequest, RowsOK, MailsOf
<1>10. RejectionsOK'
  BY <1>7 DEF IInv, RejectionsOK, ResolveMatch
<1>11. RejectedNotOffered'
  <2>1. pairs \cap q.rejected = {}
    BY <1>4 DEF RequestOK, q
  <2>2. QED BY <1>2, <1>3, <1>5, <2>1 DEF IInv, RejectedNotOffered
<1>12. AnsweredAsStored'
  <2>1. ASSUME NEW o \in Requests, answer'[o] # None, answer'[o].pairs # {}
        PROVE  LET rows == {m \in matches' : m.batch = o}
               IN  /\ {m.mail : m \in rows} = req'[o].mails
                   /\ {<<m.mail, m.app>> : m \in {m \in rows : m.app # None}} = answer'[o].pairs
    <3>1. CASE o = r
      <4>1. pairs = q.pairs /\ req[r].pc = "persist" /\ matches' = matches \cup Stored(r)
        BY <1>2, <1>3, <2>1, <3>1 DEF q
      <4>2. {m \in matches' : m.batch = r} = Stored(r)
        BY <1>4, <4>1, StoredRows DEF q
      <4>3. QED BY <1>2, <1>3, <1>4, <1>5, <3>1, <4>1, <4>2, StoredRows DEF q
    <3>2. CASE o # r
      <4>1. {m \in matches' : m.batch = o} = {m \in matches : m.batch = o}
        BY <1>7, <3>2
      <4>2. answer'[o] = answer[o] /\ req'[o] = req[o]
        BY <1>2, <1>5, <3>2
      <4>3. QED BY <2>1, <4>1, <4>2 DEF IInv, AnsweredAsStored
    <3>3. QED BY <3>1, <3>2
  <2>2. QED BY <2>1 DEF IInv, AnsweredAsStored
<1>13. UniformScoring'
  <2>1. ASSUME NEW m \in matches', NEW n \in matches', m.batch = n.batch
        PROVE  m.version = n.version /\ m.version # "static-default"
    <3>1. CASE m \in matches /\ n \in matches
      BY <2>1, <3>1 DEF IInv, UniformScoring
    <3>2. CASE ~(m \in matches /\ n \in matches)
      BY <1>4, <1>7, <2>1, <3>2
    <3>3. QED BY <3>1, <3>2
  <2>2. QED BY <2>1 DEF UniformScoring
<1>14. QED BY <1>6, <1>9, <1>10, <1>11, <1>12, <1>13 DEF IInv

\* A request begins with the rejections recorded so far.
LEMMA CallKeeps ==
  ASSUME IInv, NEW r \in Requests, Call(r)
  PROVE  IInv'
<1>1. PICK label \in Labels, E \in SUBSET Mails \ {{}} :
        req' = [req EXCEPT ![r] = [pc |-> "list", label |-> label, mails |-> E,
                                   apps |-> {}, blocked |-> {}, config |-> None,
                                   aborted |-> FALSE, rows |-> {}, assigned |-> {}, pairs |-> {},
                                   rejected |-> {<<f.mail, f.app>> : f \in feedback}]]
  BY DEF Call
<1>2. PICK ff : ff = FALSE
  OBVIOUS
<1> DEFINE w == [pc |-> "list", label |-> label, mails |-> E, apps |-> {}, blocked |-> {},
                 config |-> None, aborted |-> ff, rows |-> {}, assigned |-> {}, pairs |-> {},
                 rejected |-> {<<f.mail, f.app>> : f \in feedback}]
<1>3. Becomes(r, w)
  BY <1>1, <1>2, Becoming DEF IInv
<1>4. /\ w.pc = "list" /\ w.mails \subseteq Mails /\ w.apps = {} /\ w.rows = {} /\ w.config = None
      /\ w.rejected = {<<f.mail, f.app>> : f \in feedback}
  OBVIOUS
<1>5. IsRequest(w)
  BY DEF IsRequest
<1> HIDE DEF w
<1>6. RequestOK(w)
  BY <1>4, <1>5 DEF RequestOK
<1>7. req[r].pc = "idle" /\ UNCHANGED <<active, matches, feedback, stream, answer>>
  BY DEF Call, Idle
<1>8. w.pc \in InProgress /\ w.rejected \subseteq {<<f.mail, f.app>> : f \in feedback}
  BY <1>4 DEF InProgress
<1>9. QED BY <1>3, <1>6, <1>7, <1>8, GoesOn

\* The applications are listed, or the list is empty and the request answered.
LEMMA ListKeeps ==
  ASSUME IInv, NEW r \in Requests, ListApplications(r)
  PROVE  IInv'
<1>1. PICK apps \in {Listed(req[r].label), {}} :
        IF apps = {} THEN Finish(r, {}, "ok")
        ELSE /\ req' = [req EXCEPT ![r].pc = "blocked", ![r].apps = apps]
             /\ UNCHANGED answer
  BY DEF ListApplications
<1>2. req[r].pc = "list" /\ UNCHANGED <<active, matches, feedback, stream>>
  BY DEF ListApplications
<1>3. CASE apps = {}
  BY <1>1, <1>2, <1>3, Finished DEF InProgress
<1>4. CASE apps # {}
  <2> DEFINE q == req[r]
             w == [q EXCEPT !.pc = "blocked", !.apps = apps]
  <2>1. Becomes(r, w)
    <3>1. req' = [req EXCEPT ![r] = w]
      BY <1>1, <1>4 DEF IInv, FunctionsOK
    <3> HIDE DEF w
    <3>2. QED BY <3>1, Becoming DEF IInv
  <2>2. RequestOK(q) /\ q.pc = "list" /\ q.rejected \subseteq {<<f.mail, f.app>> : f \in feedback}
    BY <1>2 DEF IInv, RequestsOK, InProgress
  <2>3. apps \subseteq Applications
    BY DEF Listed
  <2> HIDE DEF q
  <2>4. /\ IsRequest(w) /\ w.pc = "blocked" /\ w.apps = apps /\ w.mails = q.mails /\ w.rows = q.rows
        /\ w.config = q.config /\ w.rejected = q.rejected
    BY <2>2 DEF RequestOK, IsRequest
  <2> HIDE DEF w
  <2>5. RequestOK(w)
    BY <2>2, <2>3, <2>4 DEF RequestOK
  <2>6. w.pc \in InProgress /\ q.pc # "done" /\ answer' = answer
    BY <1>1, <1>4, <2>2, <2>4 DEF InProgress
  <2>7. QED BY <1>2, <2>1, <2>2, <2>4, <2>5, <2>6, GoesOn DEF q
<1>5. QED BY <1>3, <1>4

\* The rejections that concern the mails are loaded, those known at the
\* beginning among them.
LEMMA BlockedKeeps ==
  ASSUME IInv, NEW r \in Requests, LoadBlocked(r)
  PROVE  IInv'
<1>2. req[r].pc = "blocked" /\ UNCHANGED <<active, matches, feedback, stream>>
  BY DEF LoadBlocked
<1>3. CASE Finish(r, {}, "error")
  BY <1>2, <1>3, Finished DEF InProgress
<1>4. CASE /\ req' = [req EXCEPT ![r].pc = "score", ![r].blocked = Blocked(req[r].mails)]
           /\ UNCHANGED answer
  <2> DEFINE q == req[r]
             b == Blocked(q.mails)
             w == [q EXCEPT !.pc = "score", !.blocked = b]
  <2>1. Becomes(r, w)
    <3>1. req' = [req EXCEPT ![r] = w]
      BY <1>4 DEF IInv, FunctionsOK
    <3> HIDE DEF w
    <3>2. QED BY <3>1, Becoming DEF IInv
  <2>2. RequestOK(q) /\ q.pc = "blocked"
        /\ q.rejected \subseteq {<<f.mail, f.app>> : f \in feedback}
    BY <1>2 DEF IInv, RequestsOK, InProgress
  <2> HIDE DEF q, b
  <2>3. /\ IsRequest(w) /\ w.pc = "score" /\ w.blocked = b /\ w.mails = q.mails /\ w.rows = q.rows
        /\ w.config = q.config /\ w.rejected = q.rejected /\ w.apps = q.apps
    BY <2>2 DEF RequestOK, IsRequest
  <2> HIDE DEF w
  <2>4. {p \in q.rejected : p[1] \in q.mails} \subseteq b
    BY <2>2 DEF Blocked, b
  <2>5. RowsOK(w)
    <3>1. w.rows = {} /\ MailsOf(w.rows) = {} /\ w.config = None
      BY <2>2, <2>3 DEF RequestOK, MailsOf
    <3>2. Cardinality({}) = 0 /\ IsFiniteSet({})
      BY FS_EmptySet
    <3>3. None # "static-default"
      BY MappingAssumption
    <3>4. QED BY <3>1, <3>2, <3>3 DEF RowsOK
  <2>6. RequestOK(w)
    BY <2>2, <2>3, <2>4, <2>5 DEF RequestOK
  <2>7. w.pc \in InProgress /\ w.pc \notin {"list", "blocked"} /\ q.pc # "done" /\ answer' = answer
    BY <1>4, <2>2, <2>3 DEF InProgress
  <2>8. QED BY <1>2, <2>1, <2>6, <2>7, GoesOn DEF q
<1>5. QED BY <1>3, <1>4 DEF LoadBlocked

\* One more row: the weights are those of the rows before it, and the last row
\* completes the mails.
LEMMA ScoreKeeps ==
  ASSUME IInv, NEW r \in Requests, ScoreRow(r)
  PROVE  IInv'
<1> DEFINE q == req[r]
<1>1. RequestOK(q) /\ RowsOK(q) /\ q.pc = "score"
      /\ UNCHANGED <<active, matches, feedback, stream, answer>>
  BY DEF ScoreRow, IInv, RequestsOK, RequestOK, InProgress
<1>2. PICK e \in q.mails \ {x.mail : x \in q.rows}, c \in GetConfig(r) :
        LET raw == [a \in q.apps |-> Aggregate(c[1], q.label, e, a)]
            scored == [mail |-> e, version |-> c[1], raw |-> raw,
                    score |-> [a \in q.apps |-> IF <<e, a>> \in q.blocked THEN 0 ELSE raw[a]]]
        IN  req' = [req EXCEPT ![r].config = c[1], ![r].aborted = c[2],
                               ![r].rows = @ \cup {scored},
                               ![r].pc = IF Cardinality(q.rows) + 1 = Cardinality(q.mails)
                                         THEN "match" ELSE "score"]
  BY DEF ScoreRow
<1>3. /\ q.config # None => c[1] = q.config /\ c[2] = q.aborted
      /\ c[1] # None
      /\ q.config = None /\ c[1] = "static-default" => c[2]
  <2>1. PICK tt, ff : tt = TRUE /\ ff = FALSE
    OBVIOUS
  <2>2. c \in IF q.config # None THEN {<<q.config, q.aborted>>}
             ELSE {<<active, ff>>, <<"static-default", tt>>}
    BY <2>1 DEF GetConfig
  <2>3. active \in {"db-default", "v2"} /\ None \notin {"db-default", "v2", "static-default"}
    BY MappingAssumption DEF IInv, FunctionsOK
  <2> HIDE DEF q
  <2>4. CASE q.config # None
    BY <2>2, <2>4
  <2>5. CASE q.config = None
    <3>1. \/ c[1] = active
          \/ c[1] = "static-default" /\ c[2] = tt
      BY <2>2, <2>5
    <3>2. active # "static-default" /\ active # None /\ None # "static-default"
      BY <2>3
    <3>3. c[1] # None
      BY <3>1, <3>2
    <3>4. c[1] = "static-default" => c[2] = tt
      BY <3>1, <3>2
    <3>5. c[1] = "static-default" => c[2]
      <4>1. c[2] = tt => c[2]
        BY <2>1, Zenon
      <4>2. QED BY <3>4, <4>1, Zenon
    <3>6. QED BY <2>5, <3>3, <3>5, Zenon
  <2>6. QED BY <2>4, <2>5
<1> DEFINE raw == [a \in q.apps |-> Aggregate(c[1], q.label, e, a)]
           scored == [mail |-> e, version |-> c[1], raw |-> raw,
                   score |-> [a \in q.apps |-> IF <<e, a>> \in q.blocked THEN 0 ELSE raw[a]]]
           rows == q.rows \cup {scored}
           pc == IF Cardinality(q.rows) + 1 = Cardinality(q.mails) THEN "match" ELSE "score"
           w == [q EXCEPT !.config = c[1], !.aborted = c[2], !.rows = rows, !.pc = pc]
<1>4. Becomes(r, w)
  <2>1. req' = [req EXCEPT ![r] = w]
    BY <1>2 DEF IInv, FunctionsOK
  <2> HIDE DEF w
  <2>2. QED BY <2>1, Becoming DEF IInv
<1>5. /\ scored.mail = e /\ scored.version = c[1]
      /\ \A a \in q.apps : <<e, a>> \in q.blocked => scored.score[a] = 0
  OBVIOUS
<1> HIDE DEF q, scored
<1>6. PICK c1, c2 : c1 = c[1] /\ c2 = c[2]
  OBVIOUS
<1>7. w = [q EXCEPT !.config = c1, !.aborted = c2, !.rows = rows, !.pc = pc]
  BY <1>6
<1> HIDE DEF w, rows, pc
<1>8. /\ IsRequest(w) /\ w.pc = pc /\ w.config = c1 /\ w.aborted = c2 /\ w.rows = rows
      /\ w.mails = q.mails /\ w.apps = q.apps /\ w.blocked = q.blocked /\ w.rejected = q.rejected
  BY <1>1, <1>7 DEF RequestOK, IsRequest
<1>9. e \notin MailsOf(q.rows) /\ e \in q.mails
  BY DEF MailsOf
<1>10. MailsOf(rows) = MailsOf(q.rows) \cup {e} /\ scored \notin q.rows
  BY <1>5, <1>9 DEF MailsOf, rows
<1>11. MailsOf(q.rows) \subseteq q.mails
  BY <1>1 DEF RowsOK, MailsOf
<1>12. IsFiniteSet(q.mails)
  BY <1>1, MappingAssumption, FS_Subset DEF RequestOK
<1>13. IsFiniteSet(MailsOf(q.rows))
  BY <1>11, <1>12, FS_Subset
<1>14. /\ IsFiniteSet(rows) /\ Cardinality(rows) = Cardinality(q.rows) + 1
       /\ Cardinality(MailsOf(rows)) = Cardinality(MailsOf(q.rows)) + 1
  <2>1. IsFiniteSet(q.rows)
    BY <1>1 DEF RowsOK
  <2>2. IsFiniteSet(rows) /\ Cardinality(rows) = Cardinality(q.rows) + 1
    BY <1>10, <2>1, FS_AddElement DEF rows
  <2>3. Cardinality(MailsOf(rows)) = Cardinality(MailsOf(q.rows)) + 1
    BY <1>9, <1>10, <1>13, FS_AddElement
  <2>4. QED BY <2>2, <2>3
<1>15. RowsOK(w)
  <2>1. \A x \in rows : /\ x.mail \in q.mails /\ x.version = c1
                        /\ \A a \in q.apps : <<x.mail, a>> \in q.blocked => x.score[a] = 0
    BY <1>1, <1>3, <1>5, <1>6, <1>9 DEF RowsOK, rows
  <2>2. c1 # None
    BY <1>3, <1>6
  <2>3. c1 = "static-default" => c2
    BY <1>1, <1>3, <1>6 DEF RowsOK
  <2>4. Cardinality(rows) = Cardinality(MailsOf(rows))
    BY <1>1, <1>14 DEF RowsOK
  <2>5. QED BY <1>8, <1>14, <2>1, <2>2, <2>3, <2>4 DEF RowsOK
<1>16. pc = "match" => MailsOf(rows) = q.mails
  <2>1. SUFFICES ASSUME Cardinality(q.rows) + 1 = Cardinality(q.mails) PROVE MailsOf(rows) = q.mails
    BY DEF pc
  <2>2. MailsOf(rows) \subseteq q.mails
    BY <1>9, <1>10, <1>11
  <2>3. Cardinality(MailsOf(rows)) = Cardinality(q.mails)
    BY <1>1, <1>14, <2>1 DEF RowsOK
  <2>4. QED BY <1>12, <2>2, <2>3, FS_Subset
<1>17. pc \in {"match", "score"}
  BY DEF pc
<1>18. RequestOK(w)
  BY <1>1, <1>8, <1>15, <1>16, <1>17 DEF RequestOK
<1>19. w.pc \in InProgress /\ w.pc \notin {"list", "blocked"} /\ q.pc # "done"
  BY <1>1, <1>8, <1>17 DEF InProgress
<1>20. QED BY <1>1, <1>4, <1>18, <1>19, GoesOn DEF q

\* What is kept of the pairing lies at the threshold or above, and a pair that
\* was rejected before the request began scores nothing.
LEMMA MatchKeeps ==
  ASSUME IInv, NEW r \in Requests, Match(r)
  PROVE  IInv'
<1> DEFINE q == req[r]
<1>1. RequestOK(q) /\ RowsOK(q) /\ q.pc = "match"
      /\ UNCHANGED <<active, matches, feedback, stream, answer>>
  BY DEF Match, IInv, RequestsOK, RequestOK, InProgress
<1>2. PICK P \in BestPairings(Score(r), q.mails, q.apps) :
        req' = [req EXCEPT ![r].pc = "persist", ![r].assigned = P,
                               ![r].pairs = Kept(Score(r), P)]
  BY DEF Match
<1> DEFINE kept == Kept(Score(r), P)
           w == [q EXCEPT !.pc = "persist", !.assigned = P, !.pairs = kept]
<1>3. Becomes(r, w)
  <2>1. req' = [req EXCEPT ![r] = w]
    BY <1>2 DEF IInv, FunctionsOK
  <2> HIDE DEF w
  <2>2. QED BY <2>1, Becoming DEF IInv
<1>4. P \subseteq q.mails \X q.apps
  <2>1. P \in Pairings(q.mails, q.apps)
    BY DEF BestPairings
  <2> HIDE DEF q
  <2>2. QED BY <2>1 DEF Pairings
<1>5. kept \subseteq q.mails \X q.apps
  BY <1>4 DEF Kept
<1>6. ASSUME NEW p \in kept PROVE p \notin q.rejected
  <2>1. p[1] \in q.mails /\ p[2] \in q.apps /\ p = <<p[1], p[2]>> /\ p \in q.mails \X q.apps
    BY <1>5
  <2>2. SUFFICES ASSUME p \in q.rejected PROVE FALSE
    OBVIOUS
  <2>3. p \in q.blocked
    BY <1>1, <2>1, <2>2 DEF RequestOK
  <2>4. \E x \in q.rows : x.mail = p[1]
    BY <1>1, <2>1 DEF RequestOK, MailsOf
  <2>5. PICK x : x = CHOOSE y \in q.rows : y.mail = p[1]
    OBVIOUS
  <2>6. x \in q.rows /\ x.mail = p[1]
    BY <2>4, <2>5
  <2>7. x.score[p[2]] = 0
    BY <1>1, <2>1, <2>3, <2>6 DEF RowsOK
  <2>8. Score(r)[p] = x.score[p[2]]
    BY <2>1, <2>5 DEF Score
  <2>9. Score(r)[p] >= MinScore
    BY DEF Kept
  <2>10. QED BY <2>7, <2>8, <2>9, ThresholdAssumption
<1> HIDE DEF q, kept
<1>7. /\ IsRequest(w) /\ w.pc = "persist" /\ w.config = q.config /\ w.aborted = q.aborted
      /\ w.rows = q.rows /\ w.mails = q.mails /\ w.apps = q.apps /\ w.blocked = q.blocked
      /\ w.rejected = q.rejected /\ w.pairs = kept
  BY <1>1 DEF RequestOK, IsRequest
<1> HIDE DEF w
<1>8. RowsOK(w)
  BY <1>1, <1>7 DEF RowsOK
<1>9. RequestOK(w)
  BY <1>1, <1>5, <1>6, <1>7, <1>8 DEF RequestOK
<1>10. w.pc \in InProgress /\ w.pc \notin {"list", "blocked"} /\ q.pc # "done"
  BY <1>1, <1>7 DEF InProgress
<1>11. QED BY <1>1, <1>3, <1>9, <1>10, GoesOn DEF q

\* The outcome is stored and answered, or lost and answered as an error.
LEMMA PersistKeeps ==
  ASSUME IInv, NEW r \in Requests, Persist(r)
  PROVE  IInv'
<1>1. req[r].pc = "persist" /\ req[r].pc \in InProgress /\ UNCHANGED <<active, feedback, stream>>
  BY DEF Persist, InProgress
<1>2. CASE ~req[r].aborted /\ matches' = matches \cup Stored(r) /\ Finish(r, req[r].pairs, "ok")
  BY <1>1, <1>2, Finished
<1>3. CASE /\ matches' \in {matches, matches \cup (IF req[r].aborted THEN {} ELSE Stored(r))}
           /\ Finish(r, {}, "error")
  <2>1. CASE matches' = matches
    BY <1>1, <1>3, <2>1, Finished
  <2>2. CASE matches' # matches
    <3>1. ~req[r].aborted /\ matches' = matches \cup Stored(r)
      BY <1>3, <2>2
    <3>2. QED BY <1>1, <1>3, <3>1, Finished
  <2>3. QED BY <2>1, <2>2
<1>4. QED BY <1>2, <1>3 DEF Persist

-------------------------------------------------------------------------------
(* Steps of the user, of the consumer of the feedback and of an operator *)

\* The requests and what they have stored stay; the rejections on record grow.
LEMMA AsideKeeps ==
  ASSUME IInv, UNCHANGED <<matches, req, answer>>, active' \in {"db-default", "v2"},
         feedback \subseteq feedback', RejectionsOK'
  PROVE  IInv'
<1>1. FunctionsOK'
  BY DEF IInv, FunctionsOK
<1>2. {<<f.mail, f.app>> : f \in feedback} \subseteq {<<f.mail, f.app>> : f \in feedback'}
  OBVIOUS
<1>3. RequestsOK'
  <2>1. ASSUME NEW r \in Requests
        PROVE  /\ req'[r].pc \in InProgress \cup {"idle", "done"}
               /\ req'[r].pc \in InProgress => RequestOK(req'[r])
               /\ req'[r].pc # "done" => answer'[r] = None /\ \A m \in matches' : m.batch # r
               /\ req'[r].pc \in {"list", "blocked"} =>
                    req'[r].rejected \subseteq {<<f.mail, f.app>> : f \in feedback'}
    BY <1>2 DEF IInv, RequestsOK
  <2>2. QED BY <2>1 DEF RequestsOK, RequestOK, IsRequest, RowsOK, MailsOf
<1>4. RejectedNotOffered' /\ UniformScoring'
  BY DEF IInv, RejectedNotOffered, UniformScoring
<1>5. AnsweredAsStored'
  BY DEF IInv, AnsweredAsStored, RejectionsOK
<1>6. QED BY <1>1, <1>3, <1>4, <1>5 DEF IInv

\* What the user rejects has been offered, so it has been stored.
LEMMA RejectKeeps ==
  ASSUME IInv, Reject
  PROVE  IInv'
<1>1. PICK p \in Offers : stream' = stream \cup {p}
  BY DEF Reject
<1>2. UNCHANGED <<matches, feedback, req, answer, active>>
  BY DEF Reject
<1>3. PICK r \in Requests : answer[r] # None /\ p \in answer[r].pairs
  BY DEF Offers
<1>4. PICK m \in matches : m.app # None /\ p = <<m.mail, m.app>>
  <2>1. {<<m.mail, m.app>> : m \in {m \in {m \in matches : m.batch = r} : m.app # None}} = answer[r].pairs
    BY <1>3 DEF IInv, AnsweredAsStored
  <2>2. QED BY <1>3, <2>1
<1>5. p[1] = m.mail /\ p[2] = m.app
  BY <1>4
<1>6. m \in ResolveMatch(p)
  BY <1>5 DEF ResolveMatch
<1>7. RejectionsOK'
  BY <1>1, <1>2, <1>6 DEF IInv, RejectionsOK, ResolveMatch
<1>8. active' \in {"db-default", "v2"}
  BY <1>2 DEF IInv, FunctionsOK
<1>9. QED BY <1>2, <1>7, <1>8, AsideKeeps

\* The row of a rejection is linked to the match, however often it is recorded.
LEMMA RecordKeeps ==
  ASSUME IInv, RecordFeedback
  PROVE  IInv'
<1>1. PICK p \in stream : /\ feedback' = feedback \cup {Feedback(p)}
                          /\ stream' \in {stream, stream \ {p}}
  BY DEF RecordFeedback
<1>2. UNCHANGED <<matches, req, answer, active>>
  BY DEF RecordFeedback
<1>3. ResolveMatch(p) # {}
  BY DEF IInv, RejectionsOK
<1>4. Feedback(p).linked
  <2>1. Feedback(p).linked = (ResolveMatch(p) # {})
    BY DEF Feedback
  <2>2. QED BY <1>3, <2>1, Zenon
<1>5. RejectionsOK'
  <2>1. \A f \in feedback' : f.linked
    <3> DEFINE F == Feedback(p)
    <3>1. feedback' = feedback \cup {F} /\ F.linked
      BY <1>1, <1>4
    <3>2. \A f \in feedback : f.linked
      BY DEF IInv, RejectionsOK
    <3> HIDE DEF F
    <3>3. QED BY <3>1, <3>2, Zenon
  <2>2. \A o \in stream' : ResolveMatch(o)' # {}
    BY <1>1, <1>2 DEF IInv, RejectionsOK, ResolveMatch
  <2>3. QED BY <2>1, <2>2 DEF RejectionsOK
<1>6. active' \in {"db-default", "v2"}
  BY <1>2 DEF IInv, FunctionsOK
<1>7. feedback \subseteq feedback'
  BY <1>1
<1>8. QED BY <1>2, <1>5, <1>6, <1>7, AsideKeeps

-------------------------------------------------------------------------------
(* The invariant *)

\* Before the first request nothing is stored, offered or rejected.
LEMMA InitInv == Init => IInv
<1> SUFFICES ASSUME Init PROVE IInv
  OBVIOUS
<1>1. FunctionsOK
  BY DEF Init, FunctionsOK
<1>2. \A r \in Requests : req[r] = Idle /\ answer[r] = None
  BY DEF Init
<1>3. Idle.pc = "idle"
  BY DEF Idle
<1>4. RequestsOK
  BY <1>2, <1>3 DEF Init, RequestsOK, InProgress
<1>5. QED BY <1>1, <1>2, <1>4
  DEF Init, IInv, RejectionsOK, RejectedNotOffered, AnsweredAsStored, UniformScoring

\* Every step of Next, and stuttering, keeps the inductive invariant.
LEMMA NextInv == IInv /\ [Next]_vars => IInv'
<1> SUFFICES ASSUME IInv, [Next]_vars PROVE IInv'
  OBVIOUS
<1>1. CASE \E r \in Requests : \/ Call(r) \/ ListApplications(r) \/ LoadBlocked(r)
                               \/ ScoreRow(r) \/ Match(r) \/ Persist(r)
  BY <1>1, CallKeeps, ListKeeps, BlockedKeeps, ScoreKeeps, MatchKeeps, PersistKeeps
<1>2. CASE Reject
  BY <1>2, RejectKeeps
<1>3. CASE RecordFeedback
  BY <1>3, RecordKeeps
<1>4. CASE Confirm \/ ActivateWeights \/ UNCHANGED vars
  <2>1. UNCHANGED <<matches, feedback, stream, req, answer>>
    BY <1>4 DEF Confirm, ActivateWeights, vars
  <2>2. active' \in {"db-default", "v2"}
    BY <1>4 DEF Confirm, ActivateWeights, vars, IInv, FunctionsOK
  <2>3. RejectionsOK'
    BY <2>1 DEF IInv, RejectionsOK, ResolveMatch
  <2>4. QED BY <2>1, <2>2, <2>3, AsideKeeps
<1>5. QED BY <1>1, <1>2, <1>3, <1>4 DEF Next

\* The inductive invariant holds in every reachable state: requests interleave
\* with each other, with rejections and with a change of the active weights.
THEOREM Invariance == Spec => []IInv
<1>1. QED BY InitInv, NextInv, PTL DEF Spec

\* A pair whose rejection is on record when a request begins is not among the
\* pairs the request answers with.
THEOREM RejectedStaysRejected == Spec => []RejectedNotOffered
<1>1. IInv => RejectedNotOffered
  BY DEF IInv
<1>2. QED BY Invariance, <1>1, PTL

\* An answer with pairs agrees with the rows of its batch, and every recorded
\* rejection is linked to the match it is about.
THEOREM AnswersAgree == Spec => []AnsweredAsStored
<1>1. IInv => AnsweredAsStored
  BY DEF IInv
<1>2. QED BY Invariance, <1>1, PTL

\* A batch is stored with one set of weights, and never with the built-in ones
\* a failing query falls back to.
THEOREM OneSetOfWeights == Spec => []UniformScoring
<1>1. IInv => UniformScoring
  BY DEF IInv
<1>2. QED BY Invariance, <1>1, PTL

-------------------------------------------------------------------------------
(* Induction, sums and products over finite sets *)

\* Sums and products over sets are both taken element by element.
Unit(kind) == IF kind = "sum" THEN 0 ELSE 1
Joined(kind, x, rest) == IF kind = "sum" THEN x + rest ELSE rest * x

First(s) == CHOOSE x \in s : TRUE
Folds(g, kind, w, S) ==
  g = [s \in SUBSET S |-> IF s = {} THEN Unit(kind) ELSE Joined(kind, w[First(s)], g[s \ {First(s)}])]
Fold(kind, w, S) == (CHOOSE g : Folds(g, kind, w, S))[S]

\* Elements may be joined in any order.
LEMMA Joining ==
  ASSUME NEW kind, NEW x \in Int, NEW y \in Int, NEW z \in Int
  PROVE  /\ Unit(kind) \in Int /\ Joined(kind, x, z) \in Int
         /\ Joined(kind, x, Joined(kind, y, z)) = Joined(kind, y, Joined(kind, x, z))
BY DEF Unit, Joined

\* Induction over the subsets of a finite set, by a least counterexample.
LEMMA SubsetsAll ==
  ASSUME NEW S, IsFiniteSet(S), NEW B, {} \in B,
         \A T \in SUBSET S : T # {} /\ (\A x \in T : T \ {x} \in B) => T \in B
  PROVE  S \in B
<1> SUFFICES ASSUME S \notin B PROVE FALSE
  OBVIOUS
<1> DEFINE C == (SUBSET S) \ B
<1>1. S \in C
  OBVIOUS
<1>2. C \subseteq FiniteSubsetsOf(S)
  BY FS_FiniteSubsetsOfFinite
<1>3. PICK T \in C : \A U \in C : <<U, T>> \notin StrictSubsetOrdering(S)
  <2> HIDE DEF C
  <2>1. IsWellFoundedOn(StrictSubsetOrdering(S), FiniteSubsetsOf(S))
    BY FS_StrictSubsetOrderingWellFounded
  <2>2. C # {}
    BY <1>1
  <2>3. QED BY <1>2, <2>1, <2>2, WFMin
<1>4. \A U \in C : ~(U \subseteq T /\ U # T)
  BY <1>2, <1>3 DEF StrictSubsetOrdering, FiniteSubsetsOf
<1>5. \A x \in T : T \ {x} \in B
  BY <1>4
<1>6. QED BY <1>5

\* Induction over the naturals, by a least counterexample.
LEMMA NumbersAll ==
  ASSUME NEW B, 0 \in B, \A n \in Nat : n \in B => n + 1 \in B
  PROVE  Nat \subseteq B
<1> SUFFICES ASSUME NEW k \in Nat, k \notin B PROVE FALSE
  OBVIOUS
<1>1. PICK m \in Nat \ B : \A x \in Nat \ B : <<x, m>> \notin OpToRel(<, Nat)
  BY NatLessThanWellFounded, WFMin
<1>2. \A x, y \in Nat : x < y => <<x, y>> \in OpToRel(<, Nat)
  BY DEF OpToRel
<1>3. \A x \in Nat \ B : ~(x < m)
  BY <1>1, <1>2, Zenon
<1>4. m # 0
  BY <1>1
<1>5. m - 1 \in Nat /\ m - 1 < m /\ (m - 1) + 1 = m
  BY <1>4
<1>6. m - 1 \in B
  BY <1>3, <1>5
<1>7. QED BY <1>5, <1>6

\* The recursion over the subsets of a finite set defines a function.
LEMMA FoldsExist ==
  ASSUME NEW kind, NEW S, IsFiniteSet(S), NEW w, \A z \in S : w[z] \in Int
  PROVE  \E g \in [SUBSET S -> Int] : Folds(g, kind, w, S)
<1> DEFINE Layer(n) == {T \in SUBSET S : Cardinality(T) <= n}
           Fills(g, n) == \A T \in Layer(n) : g[T] = IF T = {} THEN Unit(kind) ELSE Joined(kind, w[First(T)], g[T \ {First(T)}])
           B == {n \in Nat : \E g \in [Layer(n) -> Int] : Fills(g, n)}
<1>1. \A T \in SUBSET S : IsFiniteSet(T) /\ Cardinality(T) \in Nat /\ Cardinality(T) <= Cardinality(S)
  BY FS_Subset, FS_CardinalityType
<1>2. \A T \in SUBSET S : T # {} => First(T) \in T /\ Cardinality(T \ {First(T)}) = Cardinality(T) - 1 /\ Cardinality(T) # 0
  <2>1. \A T \in SUBSET S : T # {} => First(T) \in T
    BY DEF First
  <2>2. QED BY <1>1, <2>1, FS_RemoveElement, FS_EmptySet
<1>3. 0 \in B
  <2> DEFINE g == [T \in Layer(0) |-> Unit(kind)]
  <2>1. ASSUME NEW T \in Layer(0) PROVE T = {}
    <3>1. T \in SUBSET S /\ Cardinality(T) \in Nat /\ Cardinality(T) <= 0
      BY <1>1
    <3>2. Cardinality(T) = 0
      BY <3>1
    <3>3. QED BY <1>2, <3>1, <3>2
  <2>2. g \in [Layer(0) -> Int] /\ Fills(g, 0)
    BY <2>1 DEF Unit
  <2>3. QED BY <2>2
<1>4. ASSUME NEW n \in Nat, n \in B PROVE n + 1 \in B
  <2>1. PICK g \in [Layer(n) -> Int] : Fills(g, n)
    BY <1>4
  <2> DEFINE h == [T \in Layer(n + 1) |-> IF T = {} THEN Unit(kind) ELSE Joined(kind, w[First(T)], g[T \ {First(T)}])]
  <2>2. \A T \in Layer(n + 1) : T # {} => T \ {First(T)} \in Layer(n) /\ First(T) \in S
    BY <1>1, <1>2
  <2>3. h \in [Layer(n + 1) -> Int]
    BY <2>2, Joining
  <2>4. \A T \in Layer(n) : T \in Layer(n + 1) /\ h[T] = g[T]
    <3>1. \A T \in Layer(n) : T \in Layer(n + 1)
      BY <1>1
    <3>2. QED BY <2>1, <3>1
  <2>5. Fills(h, n + 1)
    BY <2>2, <2>4
  <2> HIDE DEF h, Fills, Layer
  <2>6. QED BY <2>3, <2>5
<1>5. Cardinality(S) \in B
  <2> HIDE DEF B
  <2>1. QED BY <1>1, <1>3, <1>4, NumbersAll
<1>6. Layer(Cardinality(S)) = SUBSET S
  BY <1>1
<1>7. PICK g \in [SUBSET S -> Int] : Fills(g, Cardinality(S))
  BY <1>5, <1>6
<1>8. Folds(g, kind, w, S)
  <2>1. \A T \in SUBSET S : g[T] = IF T = {} THEN Unit(kind) ELSE Joined(kind, w[First(T)], g[T \ {First(T)}])
    BY <1>6, <1>7
  <2>2. g = [T \in SUBSET S |-> g[T]]
    OBVIOUS
  <2>3. QED BY <2>1, <2>2 DEF Folds
<1>9. QED BY <1>8

\* It depends only on the values at the elements.
LEMMA FoldsAgree ==
  ASSUME NEW kind, NEW S, IsFiniteSet(S), NEW T \in SUBSET S, NEW w, NEW v,
         \A z \in T : w[z] = v[z],
         NEW g, NEW h, Folds(g, kind, w, S), Folds(h, kind, v, T)
  PROVE  g[T] = h[T]
<1> DEFINE B == {U \in SUBSET T : g[U] = h[U]}
<1>1. /\ \A U \in SUBSET T : g[U] = IF U = {} THEN Unit(kind) ELSE Joined(kind, w[First(U)], g[U \ {First(U)}])
      /\ \A U \in SUBSET T : h[U] = IF U = {} THEN Unit(kind) ELSE Joined(kind, v[First(U)], h[U \ {First(U)}])
  BY DEF Folds
<1>2. IsFiniteSet(T)
  BY FS_Subset
<1>3. {} \in B
  BY <1>1
<1>4. \A U \in SUBSET T : U # {} /\ (\A x \in U : U \ {x} \in B) => U \in B
  <2> SUFFICES ASSUME NEW U \in SUBSET T, U # {}, \A x \in U : U \ {x} \in B
               PROVE  g[U] = h[U]
    OBVIOUS
  <2> DEFINE x == First(U)
  <2>1. x \in U
    BY DEF First
  <2>2. g[U] = Joined(kind, w[x], g[U \ {x}]) /\ h[U] = Joined(kind, v[x], h[U \ {x}])
    BY <1>1
  <2> HIDE DEF x
  <2>3. g[U \ {x}] = h[U \ {x}] /\ w[x] = v[x]
    BY <2>1
  <2>4. QED BY <2>2, <2>3
<1> HIDE DEF B
<1>5. T \in B
  BY <1>2, <1>3, <1>4, SubsetsAll
<1>6. QED BY <1>5 DEF B

\* A fold takes off the element CHOOSE finds.
LEMMA FoldStep ==
  ASSUME NEW kind, NEW S, IsFiniteSet(S), NEW w, \A z \in S : w[z] \in Int
  PROVE  /\ Fold(kind, w, S) \in Int
         /\ S = {} => Fold(kind, w, S) = Unit(kind)
         /\ S # {} => /\ First(S) \in S
                      /\ Fold(kind, w, S) = Joined(kind, w[First(S)], Fold(kind, w, S \ {First(S)}))
<1> DEFINE g == CHOOSE k : Folds(k, kind, w, S)
<1>1. PICK f \in [SUBSET S -> Int] : Folds(f, kind, w, S)
  BY FoldsExist
<1>2. Folds(g, kind, w, S) /\ Fold(kind, w, S) = g[S]
  BY <1>1 DEF Fold
<1> HIDE DEF g
<1>3. g[S] \in Int
  <2>1. g[S] = f[S]
    BY <1>1, <1>2, FoldsAgree
  <2>2. QED BY <2>1
<1>4. S = {} => g[S] = Unit(kind)
  BY <1>2 DEF Folds
<1>5. ASSUME S # {}
      PROVE First(S) \in S /\ Fold(kind, w, S) = Joined(kind, w[First(S)], Fold(kind, w, S \ {First(S)}))
  <2> DEFINE R == S \ {First(S)}
             h == CHOOSE k : Folds(k, kind, w, R)
  <2>1. First(S) \in S
    BY <1>5 DEF First
  <2>2. g[S] = Joined(kind, w[First(S)], g[R])
    BY <1>2, <1>5 DEF Folds
  <2>3. IsFiniteSet(R) /\ R \in SUBSET S
    BY FS_Subset
  <2>4. Folds(h, kind, w, R) /\ Fold(kind, w, R) = h[R]
    <3>1. \E k : Folds(k, kind, w, R)
      BY <2>3, FoldsExist
    <3>2. QED BY <3>1 DEF Fold
  <2> HIDE DEF h, R
  <2>5. g[R] = h[R]
    BY <1>2, <2>3, <2>4, FoldsAgree
  <2>6. QED BY <1>2, <2>1, <2>2, <2>4, <2>5 DEF R
<1>6. QED BY <1>2, <1>3, <1>4, <1>5

\* It may as well take off any other.
LEMMA FoldRemove ==
  ASSUME NEW kind, NEW S, IsFiniteSet(S), NEW w, \A z \in S : w[z] \in Int, NEW y \in S
  PROVE  Fold(kind, w, S) = Joined(kind, w[y], Fold(kind, w, S \ {y})) /\ Fold(kind, w, S \ {y}) \in Int
<1> DEFINE B == {T \in SUBSET S : \A z \in T : Fold(kind, w, T) = Joined(kind, w[z], Fold(kind, w, T \ {z}))}
<1>1. \A T \in SUBSET S : /\ IsFiniteSet(T) /\ Fold(kind, w, T) \in Int
                          /\ T # {} => /\ First(T) \in T
                                       /\ Fold(kind, w, T) = Joined(kind, w[First(T)], Fold(kind, w, T \ {First(T)}))
  <2> TAKE T \in SUBSET S
  <2>1. IsFiniteSet(T) /\ \A z \in T : w[z] \in Int
    BY FS_Subset
  <2>2. QED BY <2>1, FoldStep
<1>2. ASSUME NEW T \in SUBSET S, T # {}, \A x \in T : T \ {x} \in B
      PROVE  T \in B
  <2>1. SUFFICES ASSUME NEW z \in T PROVE Fold(kind, w, T) = Joined(kind, w[z], Fold(kind, w, T \ {z}))
    OBVIOUS
  <2> DEFINE x == First(T)
  <2>2. x \in T /\ Fold(kind, w, T) = Joined(kind, w[x], Fold(kind, w, T \ {x}))
    BY <1>1, <1>2
  <2> HIDE DEF x
  <2>3. CASE z = x
    BY <2>2, <2>3
  <2>4. CASE z # x
    <3> DEFINE rest == Fold(kind, w, (T \ {z}) \ {x})
    <3>1. (T \ {x}) \ {z} = (T \ {z}) \ {x} /\ (T \ {z}) \ {x} \in SUBSET S
      OBVIOUS
    <3>2. Fold(kind, w, T \ {x}) = Joined(kind, w[z], rest)
      BY <1>2, <2>2, <2>4, <3>1
    <3>3. Fold(kind, w, T \ {z}) = Joined(kind, w[x], rest)
      BY <1>2, <2>2, <2>4
    <3>4. rest \in Int /\ w[x] \in Int /\ w[z] \in Int
      BY <1>1, <2>2, <3>1
    <3> HIDE DEF rest
    <3>5. QED BY <2>2, <3>2, <3>3, <3>4, Joining
  <2>5. QED BY <2>3, <2>4
<1>3. {} \in B
  OBVIOUS
<1> HIDE DEF B
<1>4. S \in B
  BY <1>2, <1>3, SubsetsAll
<1>5. QED BY <1>1, <1>4 DEF B

Total(w, S) == MapThenSumSet(LAMBDA z : w[z], S)

\* Sums of the community modules.
LEMMA SumRemove ==
  ASSUME NEW S, IsFiniteSet(S), NEW w, \A z \in S : w[z] \in Int
  PROVE  /\ Total(w, S) \in Int
         /\ S = {} => Total(w, S) = 0
         /\ \A y \in S : Total(w, S) = w[y] + Total(w, S \ {y})
<1>1. ASSUME NEW T \in SUBSET S PROVE Total(w, T) = Fold("sum", w, T)
  <2> DEFINE g == CHOOSE k : k = [s \in SUBSET T |-> IF s = {} THEN 0 ELSE w[First(s)] + k[s \ {First(s)}]]
  <2>1. \A k : k = [s \in SUBSET T |-> IF s = {} THEN 0 ELSE w[First(s)] + k[s \ {First(s)}]] <=> Folds(k, "sum", w, T)
    BY DEF Folds, Unit, Joined
  <2>2. IsFiniteSet(T) /\ \A z \in T : w[z] \in Int
    BY FS_Subset
  <2>3. Total(w, T) = g[T]
    BY DEF Total, MapThenSumSet, MapThenFoldSet, First
  <2>4. PICK k : Folds(k, "sum", w, T)
    BY <2>2, FoldsExist
  <2>5. Folds(g, "sum", w, T)
    BY <2>1, <2>4
  <2> DEFINE h == CHOOSE f : Folds(f, "sum", w, T)
  <2>6. Folds(h, "sum", w, T) /\ Fold("sum", w, T) = h[T]
    BY <2>4 DEF Fold
  <2> HIDE DEF g, h
  <2>7. g[T] = h[T]
    BY <2>2, <2>5, <2>6, FoldsAgree
  <2>8. QED BY <2>3, <2>6, <2>7
<1>2. Total(w, S) \in Int /\ (S = {} => Total(w, S) = 0)
  <2>1. Total(w, S) = Fold("sum", w, S)
    <3>1. S \in SUBSET S
      OBVIOUS
    <3>2. QED BY <1>1, <3>1
  <2>2. Fold("sum", w, S) \in Int /\ (S = {} => Fold("sum", w, S) = Unit("sum"))
    BY FoldStep
  <2>3. Unit("sum") = 0
    BY DEF Unit
  <2>4. QED BY <2>1, <2>2, <2>3
<1>3. ASSUME NEW y \in S PROVE Total(w, S) = w[y] + Total(w, S \ {y})
  <2>1. S \ {y} \in SUBSET S /\ S \in SUBSET S
    OBVIOUS
  <2>2. Fold("sum", w, S) = Joined("sum", w[y], Fold("sum", w, S \ {y}))
    BY FoldRemove
  <2>3. QED BY <1>1, <2>1, <2>2 DEF Joined
<1>4. QED BY <1>2, <1>3

\* A sum of costs that are not negative, and none above e, by their number.
Positive(w, T) == (\A z \in T : w[z] >= 0) => Total(w, T) >= 0
Limited(w, e, T) == (\A z \in T : w[z] <= e) => Total(w, T) <= Cardinality(T) * e

\* A sum of nothing negative is not negative, and one of small numbers is small.
LEMMA SumBounds ==
  ASSUME NEW kind, NEW S, IsFiniteSet(S), NEW w, \A z \in S : w[z] \in Int, NEW e \in Nat
  PROVE  Positive(w, S) /\ Limited(w, e, S)
<1> DEFINE B == {T \in SUBSET S : Positive(w, T) /\ Limited(w, e, T)}
<1>1. \A T \in SUBSET S : IsFiniteSet(T) /\ Total(w, T) \in Int /\ (T = {} => Total(w, T) = 0)
  <2> TAKE T \in SUBSET S
  <2>1. IsFiniteSet(T) /\ \A z \in T : w[z] \in Int
    BY FS_Subset
  <2>2. QED BY <2>1, SumRemove
<1>2. {} \in B
  <2>1. Cardinality({}) = 0 /\ 0 * e = 0 /\ Total(w, {}) = 0
    BY <1>1, FS_EmptySet
  <2>2. QED BY <2>1 DEF Positive, Limited
<1>3. ASSUME NEW T \in SUBSET S, T # {}, \A x \in T : T \ {x} \in B
      PROVE  T \in B
  <2>1. PICK x \in T : TRUE
    BY <1>3
  <2> DEFINE R == T \ {x}
             n == Cardinality(R)
  <2>2. Total(w, T) = w[x] + Total(w, R) /\ Total(w, R) \in Int /\ w[x] \in Int
    <3>1. IsFiniteSet(T) /\ \A z \in T : w[z] \in Int
      BY <1>1
    <3>2. Total(w, T) = w[x] + Total(w, R)
      BY <2>1, <3>1, SumRemove
    <3>3. QED BY <1>1, <3>2
  <2>3. Positive(w, R) /\ Limited(w, e, R)
    BY <1>3, <2>1
  <2>4. IsFiniteSet(T) /\ R = T \ {x}
    BY <1>1
  <2>5. Cardinality(T) = n + 1 /\ n \in Nat
    <3>1. IsFiniteSet(R) /\ n = Cardinality(T) - 1
      BY <2>1, <2>4, FS_RemoveElement
    <3>2. n \in Nat /\ Cardinality(T) \in Nat
      BY <2>4, <3>1, FS_CardinalityType
    <3>3. QED BY <3>1, <3>2
  <2> HIDE DEF R, n
  <2>6. (n + 1) * e = n * e + e /\ n * e \in Nat
    BY <2>5
  <2> DEFINE m == n * e
  <2>7. Cardinality(T) * e = m + e /\ m \in Nat /\ Cardinality(R) * e = m
    BY <2>5, <2>6 DEF n
  <2> HIDE DEF m
  <2>8. Positive(w, T)
    BY <2>1, <2>2, <2>3, <2>4 DEF Positive
  <2>9. Limited(w, e, T)
    BY <2>1, <2>2, <2>3, <2>4, <2>7 DEF Limited
  <2>10. QED BY <2>8, <2>9
<1> HIDE DEF B
<1>4. S \in B
  BY <1>2, <1>3, SubsetsAll
<1>5. QED BY <1>4 DEF B

-------------------------------------------------------------------------------
(* Who is left out of an assignment *)

\* The product of the likelihoods, pair by pair.
LEMMA ProductRemove ==
  ASSUME NEW S, IsFiniteSet(S), NEW score, \A z \in S : score[z] \in Nat
  PROVE  /\ Product(score, S) \in Int
         /\ S = {} => Product(score, S) = 1
         /\ \A y \in S : Product(score, S) = Product(score, S \ {y}) * Likelihood(score[y])
<1> DEFINE w == [z \in S |-> Likelihood(score[z])]
<1>1. \A z \in S : w[z] = Likelihood(score[z]) /\ w[z] \in Int
  BY DEF Likelihood
<1> HIDE DEF w
<1>2. ASSUME NEW T \in SUBSET S PROVE Product(score, T) = Fold("product", w, T)
  <2> DEFINE g == CHOOSE k : k = [s \in SUBSET T |-> IF s = {} THEN 1 ELSE k[s \ {First(s)}] * Likelihood(score[First(s)])]
             h == CHOOSE f : Folds(f, "product", w, T)
  <2>1. \A s \in SUBSET T : s # {} => w[First(s)] = Likelihood(score[First(s)])
    BY <1>1 DEF First
  <2>2. \A k : [s \in SUBSET T |-> IF s = {} THEN 1 ELSE k[s \ {First(s)}] * Likelihood(score[First(s)])]
             = [s \in SUBSET T |-> IF s = {} THEN Unit("product") ELSE Joined("product", w[First(s)], k[s \ {First(s)}])]
    BY <2>1 DEF Unit, Joined
  <2>3. \A k : k = [s \in SUBSET T |-> IF s = {} THEN 1 ELSE k[s \ {First(s)}] * Likelihood(score[First(s)])]
               <=> Folds(k, "product", w, T)
    BY <2>2 DEF Folds
  <2>4. IsFiniteSet(T) /\ \A z \in T : w[z] \in Int
    BY <1>1, FS_Subset
  <2>5. Product(score, T) = g[T]
    BY DEF Product, FoldSet, MapThenFoldSet, First
  <2>6. PICK k : Folds(k, "product", w, T)
    BY <2>4, FoldsExist
  <2>7. Folds(g, "product", w, T)
    BY <2>3, <2>6
  <2>8. Folds(h, "product", w, T) /\ Fold("product", w, T) = h[T]
    BY <2>6 DEF Fold
  <2> HIDE DEF g, h
  <2>9. g[T] = h[T]
    BY <2>4, <2>7, <2>8, FoldsAgree
  <2>10. QED BY <2>5, <2>8, <2>9
<1>3. Product(score, S) \in Int /\ (S = {} => Product(score, S) = 1)
  <2>1. Product(score, S) = Fold("product", w, S)
    BY <1>2
  <2>2. Fold("product", w, S) \in Int /\ (S = {} => Fold("product", w, S) = Unit("product"))
    BY <1>1, FoldStep
  <2>3. Unit("product") = 1
    BY DEF Unit
  <2>4. QED BY <2>1, <2>2, <2>3
<1>4. ASSUME NEW y \in S PROVE Product(score, S) = Product(score, S \ {y}) * Likelihood(score[y])
  <2>1. S \ {y} \in SUBSET S /\ S \in SUBSET S
    OBVIOUS
  <2>2. Fold("product", w, S) = Joined("product", w[y], Fold("product", w, S \ {y}))
    BY <1>1, FoldRemove
  <2>3. QED BY <1>1, <1>2, <2>1, <2>2 DEF Joined
<1>5. QED BY <1>3, <1>4

\* No likelihood is zero, so no product is.
LEMMA ProductPositive ==
  ASSUME NEW S, IsFiniteSet(S), NEW score, \A z \in S : score[z] \in Nat
  PROVE  Product(score, S) \in Nat \ {0}
<1> DEFINE B == {T \in SUBSET S : Product(score, T) \in Nat \ {0}}
<1>1. \A T \in SUBSET S : IsFiniteSet(T) /\ \A z \in T : score[z] \in Nat
  BY FS_Subset
<1>2. {} \in B
  <2>1. Product(score, {}) = 1
    BY <1>1, ProductRemove
  <2>2. QED BY <2>1
<1>3. ASSUME NEW T \in SUBSET S, T # {}, \A x \in T : T \ {x} \in B
      PROVE  T \in B
  <2>1. PICK x \in T : TRUE
    BY <1>3
  <2>2. Product(score, T) = Product(score, T \ {x}) * Likelihood(score[x])
    BY <1>1, <2>1, ProductRemove
  <2>3. Product(score, T \ {x}) \in Nat \ {0} /\ Likelihood(score[x]) \in Nat \ {0}
    BY <1>1, <1>3, <2>1 DEF Likelihood
  <2>4. \A m, n \in Nat \ {0} : m * n \in Nat \ {0}
    OBVIOUS
  <2>5. QED BY <2>2, <2>3, <2>4
<1> HIDE DEF B
<1>4. S \in B
  BY <1>2, <1>3, SubsetsAll
<1>5. QED BY <1>4 DEF B

\* Of two sets of pairs that differ in one pair the one with the higher score
\* there has the higher product.
LEMMA ProductGrows ==
  ASSUME NEW R, IsFiniteSet(R), NEW x, NEW y, x \notin R, y \notin R, NEW score,
         \A z \in R \cup {x, y} : score[z] \in Nat, score[x] < score[y]
  PROVE  Product(score, R \cup {x}) < Product(score, R \cup {y})
<1> DEFINE n == Product(score, R)
<1>1. n \in Nat \ {0}
  BY ProductPositive
<1>2. ASSUME NEW z \in {x, y} PROVE Product(score, R \cup {z}) = n * Likelihood(score[z])
  <2>1. IsFiniteSet(R \cup {z})
    BY FS_AddElement
  <2>2. (R \cup {z}) \ {z} = R
    OBVIOUS
  <2>3. \A u \in R \cup {z} : score[u] \in Nat
    OBVIOUS
  <2>4. Product(score, R \cup {z}) = Product(score, (R \cup {z}) \ {z}) * Likelihood(score[z])
    BY <2>1, <2>3, ProductRemove
  <2>5. QED BY <2>2, <2>4
<1>3. /\ Likelihood(score[x]) \in Nat /\ Likelihood(score[y]) \in Nat
      /\ Likelihood(score[x]) < Likelihood(score[y])
  BY DEF Likelihood
<1>4. \A k \in Nat \ {0} : \A i, j \in Nat : i < j => k * i < k * j
  OBVIOUS
<1> HIDE DEF n
<1>5. QED BY <1>1, <1>2, <1>3, <1>4

\* The pairs of an assignment are the graph of a one-to-one function.
LEMMA PairsApart ==
  ASSUME NEW E, NEW A, NEW P \in Pairings(E, A)
  PROVE  /\ P \subseteq E \X A
         /\ \A p1, p2 \in P : p1[1] = p2[1] <=> p1[2] = p2[2]
<1>1. CASE Cardinality(E) <= Cardinality(A)
  <2>1. PICK f \in [E -> A] : (\A x, y \in E : f[x] = f[y] => x = y) /\ P = {<<e, f[e]>> : e \in E}
    BY <1>1 DEF Pairings
  <2>2. QED BY <2>1
<1>2. CASE ~(Cardinality(E) <= Cardinality(A))
  <2>1. PICK f \in [A -> E] : (\A x, y \in A : f[x] = f[y] => x = y) /\ P = {<<f[a], a>> : a \in A}
    BY <1>2 DEF Pairings
  <2>2. QED BY <2>1
<1>3. QED BY <1>1, <1>2

\* A best assignment leaves a mail with a poor application only if the good
\* one went to another mail.
LEMMA BestIsContested ==
  ASSUME NEW E, IsFiniteSet(E), NEW A, NEW score, \A p \in E \X A : score[p] \in Nat,
         NEW P \in BestPairings(score, E, A), NEW e \in E, NEW a \in A,
         \A p \in P : p[2] # a,
         NEW p \in P, p[1] = e
  PROVE  score[<<e, a>>] <= score[p]
<1> SUFFICES ASSUME score[p] < score[<<e, a>>] PROVE FALSE
  <2>1. P \subseteq E \X A
    BY PairsApart DEF BestPairings
  <2>2. score[p] \in Nat /\ score[<<e, a>>] \in Nat
    BY <2>1
  <2>3. QED BY <2>2
<1>1. P \in Pairings(E, A) /\ \A Q \in Pairings(E, A) : Product(score, Q) <= Product(score, P)
  BY DEF BestPairings
<1>2. Cardinality(E) <= Cardinality(A)
  <2> SUFFICES ASSUME ~(Cardinality(E) <= Cardinality(A)) PROVE FALSE
    OBVIOUS
  <2>1. PICK f \in [A -> E] : P = {<<f[b], b>> : b \in A}
    BY <1>1 DEF Pairings
  <2>2. <<f[a], a>> \in P
    BY <2>1
  <2>3. QED BY <2>2
<1>3. PICK f \in [E -> A] : (\A x, y \in E : f[x] = f[y] => x = y) /\ P = {<<x, f[x]>> : x \in E}
  BY <1>1, <1>2 DEF Pairings
<1>4. p = <<e, f[e]>> /\ \A x \in E : f[x] # a
  <2>1. \A x \in E : <<x, f[x]>> \in P /\ <<x, f[x]>>[2] = f[x]
    BY <1>3
  <2>2. \A x \in E : f[x] # a
    BY <2>1
  <2>3. PICK x \in E : p = <<x, f[x]>>
    BY <1>3
  <2>4. QED BY <2>2, <2>3
<1> DEFINE g == [x \in E |-> IF x = e THEN a ELSE f[x]]
           Q == {<<x, g[x]>> : x \in E}
           R == {<<x, f[x]>> : x \in E \ {e}}
<1>5. Q \in Pairings(E, A)
  <2>1. g \in [E -> A] /\ \A x, y \in E : g[x] = g[y] => x = y
    BY <1>3, <1>4
  <2> HIDE DEF g
  <2>2. QED BY <1>2, <2>1 DEF Pairings
<1>6. /\ P = R \cup {p} /\ Q = R \cup {<<e, a>>} /\ p \notin R /\ <<e, a>> \notin R
      /\ R \subseteq E \X A /\ p \in E \X A /\ <<e, a>> \in E \X A
  BY <1>3, <1>4
<1>7. IsFiniteSet(R)
  <2> DEFINE h == [x \in E |-> <<x, f[x]>>]
  <2>1. h \in Surjection(E, P)
    BY <1>3 DEF Surjection
  <2>2. IsFiniteSet(P) /\ R \in SUBSET P
    BY <1>6, <2>1, FS_Surjection
  <2>3. QED BY <2>2, FS_Subset
<1> HIDE DEF g, Q, R
<1>8. Product(score, P) < Product(score, Q)
  <2>1. \A z \in R \cup {p, <<e, a>>} : score[z] \in Nat
    BY <1>6
  <2>2. QED BY <1>6, <1>7, <2>1, ProductGrows
<1>9. Product(score, P) \in Int /\ Product(score, Q) \in Int
      /\ Product(score, Q) <= Product(score, P)
  <2>1. IsFiniteSet(P) /\ IsFiniteSet(Q) /\ \A z \in P \cup Q : score[z] \in Nat
    BY <1>6, <1>7, FS_AddElement
  <2>2. Product(score, P) \in Nat \ {0} /\ Product(score, Q) \in Nat \ {0}
    BY <2>1, ProductPositive
  <2>3. QED BY <1>1, <1>5, <2>2
<1>10. QED BY <1>8, <1>9

\* A full assignment: whoever has no partner has lost it to somebody.
LEMMA Full ==
  ASSUME NEW E, IsFiniteSet(E), NEW A, NEW P \in Pairings(E, A), NEW e \in E, NEW a \in A,
         \A p \in P : p[2] # a
  PROVE  \E p \in P : p[1] = e
<1>1. CASE Cardinality(E) <= Cardinality(A)
  <2>1. PICK f \in [E -> A] : P = {<<x, f[x]>> : x \in E}
    BY <1>1 DEF Pairings
  <2>2. <<e, f[e]>> \in P
    BY <2>1
  <2>3. QED BY <2>2
<1>2. CASE ~(Cardinality(E) <= Cardinality(A))
  <2>1. PICK f \in [A -> E] : P = {<<f[b], b>> : b \in A}
    BY <1>2 DEF Pairings
  <2>2. <<f[a], a>> \in P
    BY <2>1
  <2>3. QED BY <2>2
<1>3. QED BY <1>1, <1>2

ScoreOf(q) == [p \in q.mails \X q.apps |-> (CHOOSE w \in q.rows : w.mail = p[1]).score[p[2]]]

Natural(q) == \A w \in q.rows : \A a \in q.apps : w.score[a] \in Nat

\* LeftOutOnlyIfContested of one request.
LeftOut(q) ==
  /\ \A p1, p2 \in q.pairs : p1[1] = p2[1] <=> p1[2] = p2[2]
  /\ \A e \in q.mails \ {p[1] : p \in q.pairs}, a \in q.apps :
       ScoreOf(q)[<<e, a>>] >= MinScore => \E f \in q.mails \ {e} : <<f, a>> \in q.assigned

\* Step by step: what a request with such scores is worth.
Fair(q) ==
  /\ q.pc \in {"score", "match"} => Natural(q)
  /\ q.pc = "persist" => LeftOut(q)

FairInv == \A r \in Requests : Fair(req[r])

\* A step of r as far as the other requests are concerned.
LEMMA FairStep ==
  ASSUME IInv, FairInv, NEW r \in Requests, NEW w, req' = [req EXCEPT ![r] = w], Fair(w)
  PROVE  FairInv'
<1>1. Becomes(r, w)
  BY Becoming DEF IInv
<1>2. QED BY <1>1 DEF Becomes, FairInv

\* Scoring a mail adds one row of natural scores.
LEMMA FairScore ==
  ASSUME IInv, FairInv, NEW r \in Requests, ScoreRow(r)
  PROVE  FairInv'
<1> DEFINE q == req[r]
<1>1. RequestOK(q) /\ q.pc = "score" /\ Natural(q)
  BY DEF ScoreRow, IInv, RequestsOK, InProgress, FairInv, Fair
<1>2. PICK e \in q.mails \ {x.mail : x \in q.rows}, c \in GetConfig(r) :
        LET raw == [a \in q.apps |-> Aggregate(c[1], q.label, e, a)]
            scored == [mail |-> e, version |-> c[1], raw |-> raw,
                    score |-> [a \in q.apps |-> IF <<e, a>> \in q.blocked THEN 0 ELSE raw[a]]]
        IN  req' = [req EXCEPT ![r].config = c[1], ![r].aborted = c[2],
                               ![r].rows = @ \cup {scored},
                               ![r].pc = IF Cardinality(q.rows) + 1 = Cardinality(q.mails)
                                         THEN "match" ELSE "score"]
  BY DEF ScoreRow
<1> DEFINE raw == [a \in q.apps |-> Aggregate(c[1], q.label, e, a)]
           scored == [mail |-> e, version |-> c[1], raw |-> raw,
                   score |-> [a \in q.apps |-> IF <<e, a>> \in q.blocked THEN 0 ELSE raw[a]]]
           rows == q.rows \cup {scored}
           pc == IF Cardinality(q.rows) + 1 = Cardinality(q.mails) THEN "match" ELSE "score"
           w == [q EXCEPT !.config = c[1], !.aborted = c[2], !.rows = rows, !.pc = pc]
<1>3. req' = [req EXCEPT ![r] = w]
  BY <1>2 DEF IInv, FunctionsOK
<1>4. \A a \in q.apps : scored.score[a] \in Nat
  <2>1. \A a \in q.apps : scored.score[a] \in {0, Aggregate(c[1], q.label, e, a)}
    OBVIOUS
  <2>2. \A a : Aggregate(c[1], q.label, e, a) \in Nat
    <3>1. \A v : LET k == Weights(v) IN k.similarity \in Nat /\ k.time \in Nat /\ k.sender \in Nat
      BY DEF Weights, DefaultWeights
    <3>2. \A a : Similarity(e, a) \in Nat /\ TimeGap(q.label, a) \in Nat /\ Sender(e, a) \in Nat
      BY DEF Similarity, TimeGap, Sender
    <3>3. \A i, j \in Nat : i * j \in Nat
      OBVIOUS
    <3>4. QED BY <3>1, <3>2, <3>3 DEF Aggregate
  <2> HIDE DEF scored
  <2>3. QED BY <2>1, <2>2
<1> HIDE DEF scored
<1>5. Fair(w)
  <2> HIDE DEF q
  <2>1. PICK c1, c2 : c1 = c[1] /\ c2 = c[2]
    OBVIOUS
  <2>2. w = [q EXCEPT !.config = c1, !.aborted = c2, !.rows = rows, !.pc = pc]
    BY <2>1
  <2> HIDE DEF w, rows
  <2>3. w.rows = rows /\ w.apps = q.apps /\ w.pc = pc
    BY <1>1, <2>2 DEF RequestOK, IsRequest
  <2>4. Natural(w)
    BY <1>1, <1>4, <2>3 DEF Natural, rows
  <2>5. QED BY <2>3, <2>4 DEF Fair
<1> HIDE DEF w
<1>6. QED BY <1>3, <1>5, FairStep

\* Of a best pairing, a mail that is left out wants only what another mail has.
LEMMA FairMatch ==
  ASSUME IInv, FairInv, NEW r \in Requests, Match(r)
  PROVE  FairInv'
<1> DEFINE q == req[r]
<1>1. RequestOK(q) /\ q.pc = "match" /\ Natural(q)
  BY DEF Match, IInv, RequestsOK, InProgress, FairInv, Fair
<1>2. PICK P \in BestPairings(Score(r), q.mails, q.apps) :
        req' = [req EXCEPT ![r].pc = "persist", ![r].assigned = P,
                               ![r].pairs = Kept(Score(r), P)]
  BY DEF Match
<1> DEFINE score == Score(r)
           kept == Kept(score, P)
           w == [q EXCEPT !.pc = "persist", !.assigned = P, !.pairs = kept]
<1>3. req' = [req EXCEPT ![r] = w]
  BY <1>2 DEF IInv, FunctionsOK
<1>4. /\ P \in BestPairings(score, q.mails, q.apps) /\ P \in Pairings(q.mails, q.apps)
      /\ score = ScoreOf(q) /\ kept = {p \in P : score[p] >= MinScore}
  BY DEF BestPairings, Score, ScoreOf, Kept
<1>5. IsFiniteSet(q.mails)
  BY <1>1, MappingAssumption, FS_Subset DEF RequestOK
<1>6. \A p \in q.mails \X q.apps : score[p] \in Nat
  <2> SUFFICES ASSUME NEW p \in q.mails \X q.apps PROVE score[p] \in Nat
    OBVIOUS
  <2>1. \E x \in q.rows : x.mail = p[1]
    BY <1>1 DEF RequestOK, MailsOf
  <2>2. PICK x : x = CHOOSE y \in q.rows : y.mail = p[1]
    OBVIOUS
  <2>3. x \in q.rows /\ score[p] = x.score[p[2]]
    BY <1>4, <2>1, <2>2 DEF ScoreOf
  <2>4. QED BY <1>1, <2>3 DEF Natural
<1> HIDE DEF q, score, kept
<1>7. /\ w.pc = "persist" /\ w.rows = q.rows /\ w.mails = q.mails /\ w.apps = q.apps
      /\ w.pairs = kept /\ w.assigned = P
  BY <1>1 DEF RequestOK, IsRequest
<1> HIDE DEF w
<1>8. /\ P \subseteq q.mails \X q.apps
      /\ \A p1, p2 \in P : p1[1] = p2[1] <=> p1[2] = p2[2]
  BY <1>4, PairsApart
<1>9. ASSUME NEW e \in q.mails \ {p[1] : p \in kept}, NEW a \in q.apps, score[<<e, a>>] >= MinScore
      PROVE  \E f \in q.mails \ {e} : <<f, a>> \in P
  <2>1. \A p \in P : p = <<p[1], p[2]>> /\ p[1] \in q.mails
    BY <1>8
  <2>2. <<e, a>> \notin P
    BY <1>4, <1>9
  <2>3. SUFFICES ASSUME \A p \in P : p[2] # a PROVE FALSE
    BY <2>1, <2>2
  <2>4. PICK p \in P : p[1] = e
    BY <1>4, <1>5, <2>3, Full
  <2>5. score[<<e, a>>] <= score[p]
    BY <1>4, <1>5, <1>6, <2>3, <2>4, BestIsContested
  <2>6. score[p] \in Nat /\ score[<<e, a>>] \in Nat /\ MinScore \in Nat
    BY <1>6, <1>8, ThresholdAssumption
  <2>7. p \in kept
    BY <1>4, <1>9, <2>5, <2>6
  <2>8. QED BY <1>9, <2>4, <2>7
<1>10. LeftOut(w)
  <2>1. ScoreOf(w) = score
    BY <1>4, <1>7 DEF ScoreOf
  <2>2. \A p1, p2 \in kept : p1[1] = p2[1] <=> p1[2] = p2[2]
    BY <1>4, <1>8
  <2>3. QED BY <1>7, <1>9, <2>1, <2>2 DEF LeftOut
<1>11. Fair(w)
  BY <1>7, <1>10 DEF Fair
<1>12. QED BY <1>3, <1>11, FairStep

\* The other steps of a request say nothing of its assignment.
LEMMA FairElse ==
  ASSUME IInv, FairInv, NEW r \in Requests,
         Call(r) \/ ListApplications(r) \/ LoadBlocked(r) \/ Persist(r)
  PROVE  FairInv'
<1> DEFINE q == req[r]
<1>1. ASSUME NEW pairs, NEW outcome, Finish(r, pairs, outcome) PROVE FairInv'
  <2> DEFINE w == [pc |-> "done", label |-> q.label, mails |-> q.mails, rejected |-> q.rejected]
  <2>1. req' = [req EXCEPT ![r] = w]
    BY <1>1 DEF Finish, IInv, FunctionsOK
  <2>2. Fair(w)
    BY DEF Fair
  <2> HIDE DEF w
  <2>3. QED BY <2>1, <2>2, FairStep
<1>2. CASE Call(r)
  <2>1. PICK label \in Labels, E \in SUBSET Mails \ {{}} :
          req' = [req EXCEPT ![r] = [pc |-> "list", label |-> label, mails |-> E,
                                     apps |-> {}, blocked |-> {}, config |-> None,
                                     aborted |-> FALSE, rows |-> {}, assigned |-> {}, pairs |-> {},
                                     rejected |-> {<<f.mail, f.app>> : f \in feedback}]]
    BY <1>2 DEF Call
  <2>2. PICK ff : ff = FALSE
    OBVIOUS
  <2> DEFINE w == [pc |-> "list", label |-> label, mails |-> E, apps |-> {}, blocked |-> {},
                   config |-> None, aborted |-> ff, rows |-> {}, assigned |-> {}, pairs |-> {},
                   rejected |-> {<<f.mail, f.app>> : f \in feedback}]
  <2>3. req' = [req EXCEPT ![r] = w] /\ w.pc = "list"
    BY <2>1, <2>2
  <2> HIDE DEF w
  <2>4. Fair(w)
    BY <2>3 DEF Fair
  <2>5. QED BY <2>3, <2>4, FairStep
<1>3. ASSUME NEW apps, req[r].pc = "list", req' = [req EXCEPT ![r].pc = "blocked", ![r].apps = apps] PROVE FairInv'
  <2> DEFINE w == [q EXCEPT !.pc = "blocked", !.apps = apps]
  <2>1. req' = [req EXCEPT ![r] = w]
    BY <1>3 DEF IInv, FunctionsOK
  <2>2. IsRequest(q)
    BY <1>3 DEF IInv, RequestsOK, RequestOK, InProgress
  <2> HIDE DEF q
  <2>3. w.pc = "blocked"
    BY <2>2 DEF IsRequest
  <2> HIDE DEF w
  <2>4. Fair(w)
    BY <2>3 DEF Fair
  <2>5. QED BY <2>1, <2>4, FairStep
<1>4. ASSUME req[r].pc = "blocked", NEW blocked, req' = [req EXCEPT ![r].pc = "score", ![r].blocked = blocked]
      PROVE  FairInv'
  <2> DEFINE w == [q EXCEPT !.pc = "score", !.blocked = blocked]
  <2>1. req' = [req EXCEPT ![r] = w]
    BY <1>4 DEF IInv, FunctionsOK
  <2>2. IsRequest(q) /\ q.rows = {}
    BY <1>4 DEF IInv, RequestsOK, RequestOK, InProgress
  <2> HIDE DEF q
  <2>3. w.pc = "score" /\ w.rows = {}
    BY <2>2 DEF IsRequest
  <2> HIDE DEF w
  <2>4. Fair(w)
    BY <2>3 DEF Fair, Natural
  <2>5. QED BY <2>1, <2>4, FairStep
<1>5. CASE ListApplications(r)
  BY <1>1, <1>3, <1>5 DEF ListApplications
<1>6. CASE LoadBlocked(r)
  BY <1>1, <1>4, <1>6 DEF LoadBlocked
<1>7. CASE Persist(r)
  BY <1>1, <1>7 DEF Persist
<1>8. QED BY <1>2, <1>5, <1>6, <1>7

\* A mail loses an application that scores well for it only to another mail of
\* its batch, and no application is offered for two (match_batch).
THEOREM ContestedOnly == Spec => []LeftOutOnlyIfContested
<1>1. Init => FairInv
  <2>1. Idle.pc = "idle"
    BY DEF Idle
  <2>2. QED BY <2>1 DEF Init, FairInv, Fair
<1>2. IInv /\ FairInv /\ [Next]_vars => FairInv'
  <2> SUFFICES ASSUME IInv, FairInv, [Next]_vars PROVE FairInv'
    OBVIOUS
  <2>1. CASE \E r \in Requests : \/ Call(r) \/ ListApplications(r) \/ LoadBlocked(r)
                                 \/ ScoreRow(r) \/ Match(r) \/ Persist(r)
    BY <2>1, FairScore, FairMatch, FairElse
  <2>2. CASE req' = req
    BY <2>2 DEF FairInv
  <2>3. QED BY <2>1, <2>2 DEF Next, vars, Reject, RecordFeedback, Confirm, ActivateWeights
<1>3. FairInv => LeftOutOnlyIfContested
  BY DEF FairInv, Fair, LeftOut, LeftOutOnlyIfContested, Score, ScoreOf
<1>4. QED BY <1>1, <1>2, <1>3, Invariance, PTL DEF Spec

-------------------------------------------------------------------------------
(* The solver that makes the assignment *)

\* No two cells of S share a row or a column.
Apart(S) == \A x, y \in S : x[1] = y[1] \/ x[2] = y[2] => x = y

OnPath == {path[i] : i \in 1 .. Len(path)}
LastOf(p) == p[Len(p)]

\* The variables have their types.
TypesOK ==
  /\ given \in [Cells -> Int] /\ cost \in [Cells -> Int]
  /\ stars \subseteq Cells /\ primes \subseteq Cells
  /\ rowCovered \subseteq Line /\ colCovered \subseteq Line
  /\ path \in Seq(Cells) /\ row \in Line /\ step \in Steps

\* Stars share no line, primes no row, and each step finds what it starts from.
MarksOK ==
  /\ stars \cap primes = {} /\ Apart(stars)
  /\ \A x, y \in primes : x[1] = y[1] => x = y
  /\ step \in {"reduce", "star", "cover", "assigned"} => primes = {} /\ rowCovered = {}
  /\ step = "reduce" => stars = {}
  /\ step = "star" => \A z \in stars : z[1] < row
  /\ step = "assigned" => \A c \in Line : StarsInColumn(c) # {}

\* While primes are sought, every star is covered once and every prime by its row.
CoversOK ==
  step \in {"prime", "adjust"} =>
    /\ \A z \in stars : z[1] \in rowCovered <=> z[2] \notin colCovered
    /\ \A z \in primes : z[1] \in rowCovered /\ z[2] \notin colCovered

\* Rows may be ranked so that from a prime to the star of its column, and on to
\* the prime of that row, ranks go down: step 5 never meets a row twice.
Rankings == {f \in [Line -> Nat] : \E n \in Nat : \A r \in Line : f[r] < n}

Ranked(rank) == \A p \in primes, s \in stars : p[2] = s[2] => rank[s[1]] < rank[p[1]]

\* The path: its last prime ranks lowest, and stars and primes alternate on it.
PathOK(rank) ==
  /\ Len(path) > 0 /\ LastOf(path) \in primes /\ OnPath \subseteq stars \cup primes
  /\ \A p \in OnPath \cap primes :
       /\ rank[LastOf(path)[1]] <= rank[p[1]]
       /\ \A s \in stars : s[1] = p[1] => s \in OnPath
       /\ p = LastOf(path) \/ \E s \in stars \cap OnPath : s[2] = p[2]
  /\ \A s \in OnPath \cap stars : \E p \in OnPath \cap primes : p[1] = s[1]
  /\ \A p, q \in OnPath \cap primes : p[2] = q[2] => p = q

PathLeads == \E rank \in Rankings : Ranked(rank) /\ (step = "augment" => PathOK(rank))

SolverInv == TypesOK /\ MarksOK /\ CoversOK /\ PathLeads /\ ReducedCostsSound

\* A cell by its row and column.
LEMMA CellsAre == \A z \in Cells : z[1] \in Line /\ z[2] \in Line /\ z = <<z[1], z[2]>>
BY DEF Cells

\* The solver starts from the matrix it was given, with nothing marked.
LEMMA SolverInitInv == SolverInit => SolverInv
<1> SUFFICES ASSUME SolverInit PROVE SolverInv
  OBVIOUS
<1>1. given \in [Cells -> Int]
  <2>1. PICK mn \in Cells : Padded(mn[1], mn[2])
    BY DEF SolverInit
  <2>2. PICK f \in [(1..mn[1]) \X (1..mn[2]) -> Costs] :
          given = [z \in Cells |-> IF z \in DOMAIN f THEN f[z] ELSE PadCost]
    BY <2>1 DEF Padded
  <2>3. \A z \in DOMAIN f : f[z] \in Int
    BY CostAssumption DEF CostAssumption
  <2>4. QED BY <2>2, <2>3, CostAssumption DEF CostAssumption
<1>2. TypesOK
  BY <1>1, SizeAssumption DEF SolverInit, TypesOK, Steps, Line, SizeAssumption
<1>3. MarksOK /\ CoversOK
  BY DEF SolverInit, MarksOK, CoversOK, Apart
<1>4. PathLeads
  <2> DEFINE rank == [r \in Line |-> 0]
  <2>1. rank \in Rankings
    <3>1. 1 \in Nat /\ \A r \in Line : rank[r] < 1
      OBVIOUS
    <3>2. QED BY <3>1 DEF Rankings
  <2>2. QED BY <2>1 DEF SolverInit, PathLeads, Ranked
<1>5. ReducedCostsSound
  BY <1>1 DEF SolverInit, ReducedCostsSound, Balanced
<1>6. QED BY <1>2, <1>3, <1>4, <1>5 DEF SolverInv

\* Sums over four corners do not see what a row or a column is shifted by.
LEMMA ShiftsBalance ==
  ASSUME TypesOK, \A x, y \in Cells : Balanced(x, y), given' = given,
         NEW inRow \in [Line -> Int], NEW inColumn \in [Line -> Int],
         cost' = [z \in Cells |-> cost[z] + inRow[z[1]] + inColumn[z[2]]]
  PROVE  \A x, y \in Cells : Balanced(x, y)'
<1> SUFFICES ASSUME NEW x \in Cells, NEW y \in Cells PROVE Balanced(x, y)'
  OBVIOUS
<1> DEFINE a == <<x[1], y[2]>>
           b == <<y[1], x[2]>>
<1>1. /\ a \in Cells /\ b \in Cells
      /\ a[1] = x[1] /\ a[2] = y[2] /\ b[1] = y[1] /\ b[2] = x[2]
      /\ x[1] \in Line /\ x[2] \in Line /\ y[1] \in Line /\ y[2] \in Line
  BY DEF Cells
<1>2. cost[x] + cost[y] - cost[a] - cost[b] = given[x] + given[y] - given[a] - given[b]
  BY DEF Balanced
<1> HIDE DEF a, b
<1>3. /\ cost'[x] = cost[x] + inRow[x[1]] + inColumn[x[2]]
      /\ cost'[y] = cost[y] + inRow[y[1]] + inColumn[y[2]]
      /\ cost'[a] = cost[a] + inRow[x[1]] + inColumn[y[2]]
      /\ cost'[b] = cost[b] + inRow[y[1]] + inColumn[x[2]]
  BY <1>1
<1>4. /\ cost[x] \in Int /\ cost[y] \in Int /\ cost[a] \in Int /\ cost[b] \in Int
      /\ inRow[x[1]] \in Int /\ inRow[y[1]] \in Int /\ inColumn[x[2]] \in Int
      /\ inColumn[y[2]] \in Int
      /\ given[x] \in Int /\ given[y] \in Int /\ given[a] \in Int /\ given[b] \in Int
  BY <1>1 DEF TypesOK
<1>5. cost'[x] + cost'[y] - cost'[a] - cost'[b] = given[x] + given[y] - given[a] - given[b]
  BY <1>2, <1>3, <1>4
<1>6. QED BY <1>5 DEF Balanced, a, b

\* Step 1 takes the same amount from every cost of a row, and none below zero.
LEMMA ReduceKeeps ==
  ASSUME SolverInv, ReduceRows
  PROVE  SolverInv'
<1>1. PICK least \in [Line -> Line] :
        /\ \A z \in Cells : cost[<<z[1], least[z[1]]>>] <= cost[z]
        /\ cost' = [z \in Cells |-> cost[z] - cost[<<z[1], least[z[1]]>>]]
  BY DEF ReduceRows
<1>2. /\ step = "reduce" /\ step' = "star" /\ stars = {} /\ primes = {}
      /\ UNCHANGED <<given, stars, primes, rowCovered, colCovered, path, row>>
  BY DEF ReduceRows, SolverInv, MarksOK
<1>3. \A r \in Line : cost[<<r, least[r]>>] \in Int
  BY DEF SolverInv, TypesOK, Cells
<1>4. \A z \in Cells : cost[z] \in Int /\ cost[<<z[1], least[z[1]]>>] \in Int
  BY <1>3, CellsAre DEF SolverInv, TypesOK
<1>5. TypesOK'
  BY <1>1, <1>2, <1>4 DEF SolverInv, TypesOK, Steps
<1>6. MarksOK' /\ CoversOK' /\ PathLeads'
  BY <1>2 DEF SolverInv, MarksOK, CoversOK, PathLeads, Apart, Ranked
<1>7. \A x, y \in Cells : Balanced(x, y)'
  <2> DEFINE inRow == [r \in Line |-> 0 - cost[<<r, least[r]>>]]
             inColumn == [c \in Line |-> 0]
  <2>1. inRow \in [Line -> Int] /\ inColumn \in [Line -> Int]
    BY <1>3
  <2>2. \A z \in Cells : cost[z] - cost[<<z[1], least[z[1]]>>] = cost[z] + inRow[z[1]] + inColumn[z[2]]
    BY <1>4, CellsAre
  <2>3. cost' = [z \in Cells |-> cost[z] + inRow[z[1]] + inColumn[z[2]]]
    BY <1>1, <2>2
  <2> HIDE DEF inRow, inColumn
  <2>4. QED BY <1>2, <2>1, <2>3, ShiftsBalance DEF SolverInv, ReducedCostsSound
<1>8. \A z \in Cells : cost'[z] >= 0
  BY <1>1, <1>4
<1>9. QED BY <1>2, <1>5, <1>6, <1>7, <1>8 DEF SolverInv, ReducedCostsSound

\* Step 2 stars a zero of the row in a column without star.
LEMMA StarKeeps ==
  ASSUME SolverInv, StarRow
  PROVE  SolverInv'
<1> DEFINE free == {c \in Line : IsZero(<<row, c>>) /\ StarsInColumn(c) = {}}
           new == {<<row, c>> : c \in Leftmost(free)}
<1>1. /\ step = "star" /\ stars' = stars \cup new /\ primes = {} /\ rowCovered = {}
      /\ row' = (IF row = Size THEN 1 ELSE row + 1)
      /\ step' = (IF row = Size THEN "cover" ELSE "star")
      /\ UNCHANGED <<given, cost, primes, rowCovered, colCovered, path>>
      /\ row \in 1 .. Size /\ Size \in Nat
  BY SizeAssumption DEF StarRow, SolverInv, MarksOK, SizeAssumption, TypesOK, Line
<1>2. \A c, d \in Leftmost(free) : c = d /\ c \in free
  BY DEF Leftmost, Line
<1>3. \A x \in new : /\ x \in Cells /\ x[1] = row /\ IsZero(x)
                     /\ \A y \in stars : y[2] # x[2]
                     /\ \A y \in new : x = y
  <2> SUFFICES ASSUME NEW x \in new
               PROVE  /\ x \in Cells /\ x[1] = row /\ IsZero(x)
                      /\ \A y \in stars : y[2] # x[2]
                      /\ \A y \in new : x = y
    OBVIOUS
  <2>1. PICK c \in Leftmost(free) : x = <<row, c>>
    OBVIOUS
  <2>2. c \in Line /\ IsZero(<<row, c>>) /\ StarsInColumn(c) = {}
    BY <1>2
  <2>3. \A y \in stars : y[2] # c
    BY <2>2, CellsAre DEF StarsInColumn, SolverInv, TypesOK
  <2>4. QED BY <1>1, <1>2, <2>1, <2>2, <2>3 DEF Cells, Line
<1> HIDE DEF new, free
<1>4. \A z \in stars : z[1] < row
  BY <1>1 DEF SolverInv, MarksOK
<1>5. TypesOK'
  BY <1>1, <1>3 DEF SolverInv, TypesOK, Steps, Line
<1>6. Apart(stars')
  BY <1>1, <1>3, <1>4 DEF SolverInv, MarksOK, Apart
<1>7. MarksOK'
  <2>1. \A z \in stars' : z[1] \in Int /\ z[1] <= row
    BY <1>1, <1>3, <1>4, CellsAre DEF SolverInv, TypesOK, Line
  <2>2. step' = "star" => \A z \in stars' : z[1] < row'
    BY <1>1, <2>1
  <2>3. QED BY <1>1, <1>6, <2>2 DEF MarksOK
<1>8. CoversOK' /\ PathLeads'
  BY <1>1 DEF SolverInv, CoversOK, PathLeads, Ranked
<1>9. \A z \in stars' : Negligible(z)'
  BY <1>1, <1>3 DEF SolverInv, ReducedCostsSound, Negligible, IsZero
<1>10. QED BY <1>1, <1>5, <1>7, <1>8, <1>9 DEF SolverInv, ReducedCostsSound, Balanced

\* Step 3 covers the starred columns; when that is all of them, every row has its star.
LEMMA CoverKeeps ==
  ASSUME SolverInv, CoverColumns
  PROVE  SolverInv'
<1>1. /\ step = "cover" /\ primes = {} /\ rowCovered = {}
      /\ colCovered' = {c \in Line : StarsInColumn(c) # {}}
      /\ step' = (IF colCovered' = Line THEN "assigned" ELSE "prime")
      /\ UNCHANGED <<given, cost, stars, primes, rowCovered, path, row>>
  BY DEF CoverColumns, SolverInv, MarksOK
<1>2. TypesOK'
  BY <1>1 DEF SolverInv, TypesOK, Steps
<1>3. MarksOK'
  <2>1. step' = "assigned" => \A c \in Line : StarsInColumn(c) # {}
    BY <1>1
  <2>2. QED BY <1>1, <2>1 DEF SolverInv, MarksOK, StarsInColumn
<1>4. \A z \in stars : z[2] \in colCovered'
  <2>1. \A z \in stars : z[1] \in StarsInColumn(z[2]) /\ z[2] \in Line
    BY CellsAre DEF StarsInColumn, SolverInv, TypesOK
  <2>2. QED BY <1>1, <2>1
<1>5. CoversOK' /\ PathLeads'
  BY <1>1, <1>4 DEF SolverInv, CoversOK, PathLeads, Ranked
<1>6. QED BY <1>1, <1>2, <1>3, <1>5 DEF SolverInv, ReducedCostsSound, Balanced, Negligible

\* Finding no zero changes nothing but the step.
LEMMA NoZeroKeeps ==
  ASSUME SolverInv, NoZeroLeft
  PROVE  SolverInv'
BY DEF NoZeroLeft, SolverInv, TypesOK, MarksOK, CoversOK, PathLeads, Ranked, Steps,
       ReducedCostsSound, Balanced, Negligible, StarsInColumn

\* Step 6 moves no marked cell away from zero: those are covered once.
LEMMA AdjustKeeps ==
  ASSUME SolverInv, AdjustCosts
  PROVE  SolverInv'
<1>1. PICK low \in SmallestUncovered :
        cost' = [z \in Cells |-> cost[z] + (IF z[1] \in rowCovered THEN low ELSE 0)
                                         - (IF z[2] \in colCovered THEN 0 ELSE low)]
  BY DEF AdjustCosts
<1>2. /\ step = "adjust" /\ step' = "prime"
      /\ UNCHANGED <<given, stars, primes, rowCovered, colCovered, path, row>>
      /\ cost \in [Cells -> Int] /\ \A z \in Cells : cost[z] >= 0
  BY DEF AdjustCosts, SolverInv, ReducedCostsSound, TypesOK
<1>3. low \in Int /\ low >= 0 /\ \A z \in Uncovered : low <= cost[z]
  BY <1>2 DEF SmallestUncovered, Uncovered
<1> DEFINE inRow == [r \in Line |-> IF r \in rowCovered THEN low ELSE 0]
           inColumn == [c \in Line |-> IF c \in colCovered THEN 0 ELSE 0 - low]
<1>4. inRow \in [Line -> Int] /\ inColumn \in [Line -> Int]
  BY <1>3
<1>5. cost' = [z \in Cells |-> cost[z] + inRow[z[1]] + inColumn[z[2]]]
  <2>1. \A z \in Cells : cost[z] + (IF z[1] \in rowCovered THEN low ELSE 0)
                                - (IF z[2] \in colCovered THEN 0 ELSE low)
                         = cost[z] + inRow[z[1]] + inColumn[z[2]]
    BY <1>2, <1>3, CellsAre
  <2> HIDE DEF inRow, inColumn
  <2>2. QED BY <1>1, <2>1
<1>6. \A x, y \in Cells : Balanced(x, y)'
  <2> HIDE DEF inRow, inColumn
  <2>1. QED BY <1>2, <1>4, <1>5, ShiftsBalance DEF SolverInv, ReducedCostsSound
<1>7. \A z \in Cells : cost'[z] \in Int /\ cost'[z] >= 0
  BY <1>1, <1>2, <1>3 DEF Uncovered
<1>8. \A z \in stars \cup primes : Negligible(z)'
  <2> SUFFICES ASSUME NEW z \in stars \cup primes PROVE cost'[z] <= Epsilon
    BY <1>2 DEF Negligible
  <2>1. z \in Cells /\ cost[z] <= Epsilon
    BY DEF SolverInv, ReducedCostsSound, Negligible, TypesOK
  <2>2. ~(z[1] \in rowCovered /\ z[2] \in colCovered)
    BY <1>2 DEF SolverInv, CoversOK
  <2>3. cost'[z] <= cost[z]
    BY <1>1, <1>2, <1>3, <2>1, <2>2
  <2>4. QED BY <1>2, <1>7, <2>1, <2>3, CostAssumption DEF CostAssumption
<1>9. TypesOK'
  <2>1. cost' \in [Cells -> Int]
    BY <1>1, <1>7
  <2>2. QED BY <1>2, <2>1 DEF SolverInv, TypesOK, Steps
<1>10. MarksOK' /\ CoversOK' /\ PathLeads'
  BY <1>2 DEF SolverInv, MarksOK, CoversOK, PathLeads, Ranked
<1>11. QED BY <1>2, <1>6, <1>7, <1>8, <1>9, <1>10 DEF SolverInv, ReducedCostsSound

\* A new prime lies in a column that is not covered, so no star of a covered row
\* leads back to it: its row may be ranked above all others.
LEMMA PrimeKeeps ==
  ASSUME SolverInv, NEW z \in FirstCell(UncoveredZeros), PrimeZero(z)
  PROVE  SolverInv'
<1> DEFINE starred == StarsInRow(z[1]) \ {z[2]}
<1>1. /\ step = "prime" /\ primes' = primes \cup {z} /\ stars' = stars \ {z}
      /\ UNCHANGED <<given, cost, row>>
  BY DEF PrimeZero
<1>2. z \in Cells /\ z[1] \in Line /\ z[2] \in Line /\ z = <<z[1], z[2]>>
      /\ z[1] \notin rowCovered /\ z[2] \notin colCovered /\ IsZero(z)
  BY CellsAre DEF FirstCell, UncoveredZeros, Uncovered
<1>3. /\ stars \subseteq Cells /\ primes \subseteq Cells /\ stars \cap primes = {} /\ Apart(stars)
      /\ \A s \in stars : s[1] \in rowCovered <=> s[2] \notin colCovered
      /\ \A p \in primes : p[1] \in rowCovered /\ p[2] \notin colCovered
  BY <1>1 DEF SolverInv, TypesOK, MarksOK, CoversOK
<1>4. z \notin stars /\ z \notin primes /\ stars' = stars
  BY <1>1, <1>2, <1>3
<1>5. /\ \A x, y \in primes' : x[1] = y[1] => x = y
      /\ stars' \cap primes' = {} /\ stars' \subseteq Cells /\ primes' \subseteq Cells
  BY <1>1, <1>2, <1>3, <1>4 DEF SolverInv, MarksOK
<1>6. ReducedCostsSound'
  BY <1>1, <1>2, <1>4 DEF SolverInv, ReducedCostsSound, Negligible, IsZero, Balanced
<1>7. PICK rank \in Rankings : Ranked(rank)
  BY DEF SolverInv, PathLeads
<1>8. PICK n \in Nat : \A r \in Line : rank[r] < n
  BY <1>7 DEF Rankings
<1> DEFINE ranked == [rank EXCEPT ![z[1]] = n]
<1>9. ranked \in Rankings /\ ranked[z[1]] = n /\ \A r \in Line : r # z[1] => ranked[r] = rank[r]
  <2>1. rank \in [Line -> Nat]
    BY <1>7 DEF Rankings
  <2>2. n + 1 \in Nat /\ \A r \in Line : ranked[r] < n + 1
    BY <1>2, <1>8, <2>1
  <2>3. QED BY <1>2, <2>1, <2>2 DEF Rankings
<1> HIDE DEF ranked
<1>10. Ranked(ranked)'
  <2> SUFFICES ASSUME NEW p \in primes', NEW s \in stars', p[2] = s[2] PROVE ranked[s[1]] < ranked[p[1]]
    BY DEF Ranked
  <2>1. s \in stars /\ s[1] \in Line /\ s[1] \in rowCovered /\ s[1] # z[1]
    BY <1>1, <1>2, <1>3, <1>4, CellsAre
  <2>2. ranked[s[1]] = rank[s[1]]
    BY <1>9, <2>1
  <2>3. CASE p = z
    BY <1>8, <1>9, <2>1, <2>2, <2>3
  <2>4. CASE p \in primes
    <3>1. p[1] \in Line /\ p[1] # z[1]
      BY <1>2, <1>3, <2>4, CellsAre
    <3>2. QED BY <1>7, <1>9, <2>1, <2>2, <2>4, <3>1 DEF Ranked
  <2>5. QED BY <1>1, <2>3, <2>4
<1>11. CASE starred = {}
  <2>1. path' = <<z>> /\ step' = "augment" /\ UNCHANGED <<rowCovered, colCovered>>
    BY <1>11 DEF PrimeZero
  <2>2. path' \in Seq(Cells) /\ Len(path') = 1 /\ path'[1] = z
    BY <1>2, <2>1
  <2>3. TypesOK'
    BY <1>1, <1>5, <2>1, <2>2 DEF SolverInv, TypesOK, Steps
  <2>4. \A s \in stars : s[1] # z[1]
    BY <1>2, <1>3, <1>4, <1>11, CellsAre DEF StarsInRow
  <2>5. OnPath' = {z} /\ LastOf(path)' = z
    BY <2>2 DEF OnPath, LastOf
  <2>6. ranked[z[1]] <= ranked[z[1]]
    BY <1>9
  <2>7. PathOK(ranked)'
    BY <1>1, <1>4, <2>2, <2>4, <2>5, <2>6 DEF PathOK
  <2>8. QED BY <1>4, <1>3, <1>5, <1>6, <1>9, <1>10, <2>1, <2>3, <2>7
               DEF SolverInv, MarksOK, CoversOK, PathLeads
<1>12. CASE starred # {}
  <2>1. /\ rowCovered' = rowCovered \cup {z[1]} /\ colCovered' = colCovered \ Leftmost(starred)
        /\ UNCHANGED <<path, step>>
    BY <1>12 DEF PrimeZero
  <2>2. PICK c \in Line : <<z[1], c>> \in stars
    BY <1>12 DEF StarsInRow
  <2>3. \A s \in stars : s[1] = z[1] <=> s[2] = c
    BY <1>3, <2>2, CellsAre DEF Apart
  <2>4. starred = {c}
    <3>1. \A d \in StarsInRow(z[1]) : d = c
      BY <2>3 DEF StarsInRow
    <3>2. QED BY <1>12, <3>1
  <2>5. Leftmost(starred) = {c}
    BY <2>4 DEF Leftmost, Line
  <2>6. colCovered' = colCovered \ {c}
    BY <2>1, <2>5
  <2>7. TypesOK'
    BY <1>1, <1>2, <1>5, <2>1, <2>6 DEF SolverInv, TypesOK
  <2>8. CoversOK'
    <3>1. \A s \in stars : s[1] \in rowCovered' <=> s[2] \notin colCovered'
      BY <1>2, <1>3, <2>1, <2>3, <2>6
    <3>2. \A p \in primes' : p[1] \in rowCovered' /\ p[2] \notin colCovered'
      BY <1>1, <1>2, <1>3, <2>1, <2>6
    <3>3. QED BY <1>4, <3>1, <3>2 DEF CoversOK
  <2>9. QED BY <1>1, <1>3, <1>4, <1>5, <1>6, <1>9, <1>10, <2>1, <2>7, <2>8
               DEF SolverInv, MarksOK, PathLeads
<1>13. QED BY <1>11, <1>12

\* The path goes on to a row of lower rank, hence never comes back.
LEMMA ExtendKeeps ==
  ASSUME SolverInv, ExtendPath
  PROVE  SolverInv'
<1> DEFINE last == LastOf(path)
           c == last[2]
<1>1. PICK r \in Leftmost(StarsInColumn(c)) : \E d \in Leftmost(PrimesInRow(r)) :
        path' = path \o <<<<r, c>>, <<r, d>>>>
  BY DEF ExtendPath, LastOf
<1>2. PICK d \in Leftmost(PrimesInRow(r)) : path' = path \o <<<<r, c>>, <<r, d>>>>
  BY <1>1
<1> DEFINE s == <<r, c>>
           p == <<r, d>>
<1>3. /\ step = "augment"
      /\ UNCHANGED <<given, cost, stars, primes, rowCovered, colCovered, row, step>>
  BY DEF ExtendPath
<1>4. s \in stars /\ p \in primes /\ r \in Line /\ d \in Line
  BY DEF Leftmost, StarsInColumn, PrimesInRow
<1>5. PICK rank \in Rankings : Ranked(rank) /\ PathOK(rank)
  BY <1>3 DEF SolverInv, PathLeads
<1>6. /\ path \in Seq(Cells) /\ stars \subseteq Cells /\ primes \subseteq Cells
      /\ stars \cap primes = {} /\ Apart(stars) /\ \A x, y \in primes : x[1] = y[1] => x = y
  BY DEF SolverInv, TypesOK, MarksOK
<1>7. /\ path' \in Seq(Cells) /\ Len(path') = Len(path) + 2 /\ LastOf(path') = p
      /\ {path'[i] : i \in 1 .. Len(path')} = OnPath \cup {s, p}
  <2>1. s \in Cells /\ p \in Cells
    BY <1>4, <1>6
  <2> HIDE DEF s, p
  <2>2. <<s, p>> \in Seq(Cells) /\ Len(<<s, p>>) = 2 /\ <<s, p>>[1] = s /\ <<s, p>>[2] = p
    BY <2>1
  <2>3. path' = path \o <<s, p>>
    BY <1>2 DEF s, p
  <2>4. /\ path' \in Seq(Cells) /\ Len(path') = Len(path) + 2
        /\ \A i \in 1 .. Len(path) + 2 : path'[i] = IF i <= Len(path) THEN path[i] ELSE <<s, p>>[i - Len(path)]
    BY <1>6, <2>2, <2>3, ConcatProperties
  <2>5. Len(path) \in Nat
    BY <1>6
  <2>6. /\ \A i \in 1 .. Len(path) : path'[i] = path[i]
        /\ path'[Len(path) + 1] = s /\ path'[Len(path) + 2] = p
    BY <2>2, <2>4, <2>5
  <2>7. \A i \in 1 .. Len(path) + 2 : i \in 1 .. Len(path) \/ i = Len(path) + 1 \/ i = Len(path) + 2
    BY <2>5
  <2>8. 1 .. Len(path) \subseteq 1 .. Len(path) + 2 /\ Len(path) + 1 \in 1 .. Len(path) + 2
        /\ Len(path) + 2 \in 1 .. Len(path) + 2
    BY <2>5
  <2>9. QED BY <2>4, <2>6, <2>7, <2>8 DEF OnPath, LastOf
<1>8. OnPath' = OnPath \cup {s, p} /\ LastOf(path)' = p /\ Len(path') > 0
  <2>1. OnPath' = {path'[i] : i \in 1 .. Len(path')} /\ LastOf(path)' = LastOf(path')
    BY DEF OnPath, LastOf
  <2>2. Len(path) \in Nat
    BY <1>6
  <2> HIDE DEF s, p
  <2>3. Len(path') > 0
    BY <1>7, <2>2
  <2>4. QED BY <1>7, <2>1, <2>3
<1>9. /\ last \in primes /\ last \in OnPath /\ OnPath \subseteq stars \cup primes /\ Len(path) > 0
      /\ \A q \in OnPath \cap primes :
           /\ rank[last[1]] <= rank[q[1]]
           /\ \A x \in stars : x[1] = q[1] => x \in OnPath
           /\ q = last \/ \E x \in stars \cap OnPath : x[2] = q[2]
      /\ \A x \in OnPath \cap stars : \E q \in OnPath \cap primes : q[1] = x[1]
      /\ \A x, y \in OnPath \cap primes : x[2] = y[2] => x = y
  BY <1>5, <1>6 DEF PathOK, OnPath, LastOf
<1>10. /\ s[1] = r /\ s[2] = c /\ p[1] = r /\ p[2] = d
       /\ last[1] \in Line /\ c \in Line /\ last = <<last[1], c>>
  BY <1>6, <1>9, CellsAre
<1> HIDE DEF s, p, last, c
<1>11. rank \in [Line -> Nat]
  BY <1>5 DEF Rankings
<1>12. rank[r] < rank[last[1]] /\ rank[r] \in Nat /\ rank[last[1]] \in Nat
  BY <1>4, <1>5, <1>9, <1>10, <1>11 DEF Ranked, c
<1>13. \A q \in OnPath \cap primes : q[1] \in Line /\ rank[q[1]] \in Nat /\ rank[r] < rank[q[1]]
  BY <1>6, <1>9, <1>11, <1>12, CellsAre
<1>14. \A q \in OnPath \cap primes : q[2] # d
  <2> SUFFICES ASSUME NEW q \in OnPath \cap primes, q[2] = d PROVE FALSE
    OBVIOUS
  <2>1. CASE q = last
    <3>1. s = p
      BY <1>10, <2>1 DEF c, s, p
    <3>2. QED BY <1>4, <1>6, <3>1
  <2>2. CASE q # last
    <3>1. PICK x \in stars \cap OnPath : x[2] = d
      BY <1>9, <2>2
    <3>2. PICK y \in OnPath \cap primes : y[1] = x[1]
      BY <1>9, <3>1
    <3>3. rank[x[1]] < rank[r]
      BY <1>4, <1>5, <1>10, <3>1 DEF Ranked
    <3>4. QED BY <1>12, <1>13, <3>2, <3>3
  <2>3. QED BY <2>1, <2>2
<1>15. PathOK(rank)'
  <2>1. OnPath' \cap primes' = (OnPath \cap primes) \cup {p}
        /\ OnPath' \cap stars' = (OnPath \cap stars) \cup {s}
    BY <1>3, <1>4, <1>6, <1>8
  <2>2. \A x \in stars : x[1] = r => x = s
    BY <1>4, <1>6, <1>10 DEF Apart
  <2>3. ASSUME NEW q \in OnPath' \cap primes'
        PROVE /\ rank[p[1]] <= rank[q[1]]
              /\ \A x \in stars' : x[1] = q[1] => x \in OnPath'
              /\ q = p \/ \E x \in stars' \cap OnPath' : x[2] = q[2]
    <3>1. CASE q = p
      BY <1>3, <1>8, <1>10, <1>12, <2>2, <3>1
    <3>2. CASE q \in OnPath \cap primes
      <4>1. rank[p[1]] <= rank[q[1]]
        BY <1>10, <1>12, <1>13, <3>2
      <4>2. \A x \in stars' : x[1] = q[1] => x \in OnPath'
        BY <1>3, <1>8, <1>9, <3>2
      <4>3. \E x \in stars' \cap OnPath' : x[2] = q[2]
        BY <1>3, <1>4, <1>8, <1>9, <1>10, <3>2 DEF c
      <4>4. QED BY <4>1, <4>2, <4>3
    <3>3. QED BY <2>1, <3>1, <3>2
  <2>4. \A x \in OnPath' \cap stars' : \E q \in OnPath' \cap primes' : q[1] = x[1]
    BY <1>9, <1>10, <2>1
  <2>5. \A x, y \in OnPath' \cap primes' : x[2] = y[2] => x = y
    BY <1>9, <1>10, <1>14, <2>1
  <2>6. OnPath' \subseteq stars' \cup primes' /\ p \in primes'
    BY <1>3, <1>4, <1>8, <1>9
  <2>7. QED BY <1>8, <2>3, <2>4, <2>5, <2>6 DEF PathOK
<1>16. TypesOK' /\ MarksOK' /\ CoversOK' /\ ReducedCostsSound'
  BY <1>3, <1>7
     DEF SolverInv, TypesOK, MarksOK, CoversOK, ReducedCostsSound, Negligible, Balanced
<1>17. Ranked(rank)'
  BY <1>3, <1>5 DEF Ranked
<1>18. QED BY <1>5, <1>15, <1>16, <1>17 DEF SolverInv, PathLeads

\* Exchanging the stars and primes of a complete path leaves the stars apart.
LEMMA AugmentKeeps ==
  ASSUME SolverInv, Augment
  PROVE  SolverInv'
<1>1. /\ step = "augment" /\ step' = "cover" /\ StarsInColumn(LastOf(path)[2]) = {}
      /\ stars' = (stars \ OnPath) \cup (OnPath \ stars)
      /\ primes' = {} /\ rowCovered' = {} /\ colCovered' = {} /\ path' = <<>>
      /\ UNCHANGED <<given, cost, row>>
  BY DEF Augment, OnPath, LastOf
<1>2. PICK rank \in Rankings : Ranked(rank) /\ PathOK(rank)
  BY <1>1 DEF SolverInv, PathLeads
<1>3. /\ stars \subseteq Cells /\ primes \subseteq Cells
      /\ stars \cap primes = {} /\ Apart(stars) /\ \A x, y \in primes : x[1] = y[1] => x = y
  BY DEF SolverInv, TypesOK, MarksOK
<1>4. OnPath \subseteq stars \cup primes
  BY <1>2 DEF PathOK
<1>5. stars' = (stars \ OnPath) \cup (OnPath \cap primes)
  BY <1>1, <1>3, <1>4
<1>6. TypesOK'
  BY <1>1, <1>3, <1>5 DEF SolverInv, TypesOK, Steps
<1>7. \A s \in stars \ OnPath, p \in OnPath \cap primes : s[1] # p[1] /\ s[2] # p[2]
  <2> SUFFICES ASSUME NEW s \in stars \ OnPath, NEW p \in OnPath \cap primes PROVE s[1] # p[1] /\ s[2] # p[2]
    OBVIOUS
  <2>1. s[1] # p[1]
    BY <1>2 DEF PathOK
  <2>2. CASE p = LastOf(path)
    <3>1. s[1] \in Line /\ s = <<s[1], s[2]>>
      BY <1>3, CellsAre
    <3>2. s[2] # p[2]
      BY <1>1, <2>2, <3>1 DEF StarsInColumn
    <3>3. QED BY <2>1, <3>2
  <2>3. CASE p # LastOf(path)
    <3>1. PICK x \in stars \cap OnPath : x[2] = p[2]
      BY <1>2, <2>3 DEF PathOK
    <3>2. s[2] # p[2]
      BY <1>3, <3>1 DEF Apart
    <3>3. QED BY <2>1, <3>2
  <2>4. QED BY <2>2, <2>3
<1>8. Apart(stars')
  <2>1. \A x, y \in OnPath \cap primes : x[1] = y[1] \/ x[2] = y[2] => x = y
    BY <1>2, <1>3 DEF PathOK
  <2>2. QED BY <1>3, <1>5, <1>7, <2>1 DEF Apart
<1>9. MarksOK' /\ CoversOK' /\ PathLeads'
  BY <1>1, <1>2, <1>8 DEF MarksOK, CoversOK, PathLeads, Ranked
<1>10. ReducedCostsSound'
  BY <1>1, <1>5 DEF SolverInv, ReducedCostsSound, Negligible, Balanced
<1>11. QED BY <1>6, <1>9, <1>10 DEF SolverInv

\* Every step keeps the invariant.
LEMMA SolverNextInv == SolverInv /\ [SolverNext]_solverVars => SolverInv'
<1> SUFFICES ASSUME SolverInv, [SolverNext]_solverVars PROVE SolverInv'
  OBVIOUS
<1>1. CASE UNCHANGED solverVars
  <2>1. UNCHANGED <<given, cost, stars, primes, rowCovered, colCovered, path, row, step>>
    BY <1>1 DEF solverVars
  <2>2. TypesOK' /\ MarksOK' /\ CoversOK'
    BY <2>1 DEF SolverInv, TypesOK, MarksOK, CoversOK, StarsInColumn
  <2>3. PathLeads'
    <3>1. PICK rank \in Rankings : Ranked(rank) /\ (step = "augment" => PathOK(rank))
      BY DEF SolverInv, PathLeads
    <3>2. Ranked(rank)' /\ (step' = "augment" => PathOK(rank)')
      BY <2>1, <3>1 DEF Ranked, PathOK, OnPath, LastOf
    <3>3. QED BY <3>1, <3>2 DEF PathLeads
  <2>4. ReducedCostsSound'
    BY <2>1 DEF SolverInv, ReducedCostsSound, Balanced, Negligible
  <2>5. QED BY <2>2, <2>3, <2>4 DEF SolverInv
<1>2. QED BY <1>1, ReduceKeeps, StarKeeps, CoverKeeps, PrimeKeeps, NoZeroKeeps,
             ExtendKeeps, AugmentKeeps, AdjustKeeps
          DEF SolverNext

\* The inductive invariant holds in every reachable state.
THEOREM SolverInvariance == SolverSpec => []SolverInv
BY SolverInitInv, SolverNextInv, PTL DEF SolverSpec

\* The reduced costs stay comparable to the given ones, and marked cells negligible.
THEOREM CostsStaySound == SolverSpec => []ReducedCostsSound
<1>1. SolverInv => ReducedCostsSound
  BY DEF SolverInv
<1>2. QED BY <1>1, SolverInvariance, PTL

\* Two sets of cells that meet the same rows and columns.
RowsOf(S) == {z[1] : z \in S}
ColumnsOf(S) == {z[2] : z \in S}
SameLines(S, T) == RowsOf(S) = RowsOf(T) /\ ColumnsOf(S) = ColumnsOf(T)

Shift(S) == Total(given, S) - Total(cost, S)

\* What the reductions have taken from a set of cells is a sum over its cells.
LEMMA ShiftStep ==
  ASSUME TypesOK, NEW S \in SUBSET Cells, IsFiniteSet(S)
  PROVE  /\ Shift(S) \in Int
         /\ \A z \in S : Shift(S) = given[z] - cost[z] + Shift(S \ {z})
<1>1. \A z \in S : given[z] \in Int /\ cost[z] \in Int
  BY DEF TypesOK
<1>2. Total(given, S) \in Int /\ Total(cost, S) \in Int
  BY <1>1, SumRemove
<1>3. ASSUME NEW z \in S PROVE Shift(S) = given[z] - cost[z] + Shift(S \ {z})
  <2> DEFINE R == S \ {z}
  <2>9. IsFiniteSet(R) /\ \A y \in R : given[y] \in Int /\ cost[y] \in Int
    BY <1>1, FS_Subset
  <2>1. Total(given, S) = given[z] + Total(given, R) /\ Total(given, R) \in Int
    BY <1>1, <1>3, <2>9, SumRemove
  <2>2. Total(cost, S) = cost[z] + Total(cost, R) /\ Total(cost, R) \in Int
    BY <1>1, <1>3, <2>9, SumRemove
  <2> HIDE DEF R
  <2>3. Shift(S) = given[z] - cost[z] + Shift(R)
    BY <1>1, <2>1, <2>2 DEF Shift
  <2>4. QED BY <2>3 DEF R
<1>4. QED BY <1>2, <1>3 DEF Shift

\* Sets of cells that meet the same rows and columns have been reduced by the same
\* amount: one is turned into the other by exchanging corners of rectangles.
LEMMA Exchange ==
  ASSUME TypesOK, \A x, y \in Cells : Balanced(x, y),
         NEW A \in SUBSET Cells, Apart(A), IsFiniteSet(A),
         NEW Q \in SUBSET Cells, Apart(Q), IsFiniteSet(Q), SameLines(A, Q)
  PROVE  Shift(A) = Shift(Q)
<1> DEFINE Others(T) == {S \in SUBSET Cells : IsFiniteSet(S) /\ Apart(S) /\ SameLines(T, S)}
           B == {T \in SUBSET A : \A S \in Others(T) : Shift(T) = Shift(S)}
<1>1. {} \in B
  <2>1. ASSUME NEW S \in Others({}) PROVE S = {}
    <3>1. RowsOf(S) = RowsOf({})
      BY DEF SameLines
    <3>2. \A z \in S : z[1] \in RowsOf(S)
      BY DEF RowsOf
    <3>3. RowsOf({}) = {}
      BY DEF RowsOf
    <3>4. QED BY <3>1, <3>2, <3>3
  <2>2. QED BY <2>1
<1>2. ASSUME NEW T \in SUBSET A, T # {}, \A z \in T : T \ {z} \in B
      PROVE  T \in B
  <2> SUFFICES ASSUME NEW S \in Others(T) PROVE Shift(T) = Shift(S)
    OBVIOUS
  <2>1. PICK a \in T : TRUE
    BY <1>2
  <2>2. /\ IsFiniteSet(T) /\ T \in SUBSET Cells /\ Apart(T)
        /\ S \in SUBSET Cells /\ IsFiniteSet(S) /\ Apart(S) /\ SameLines(T, S)
    BY FS_Subset DEF Apart
  <2>3. PICK b \in S : b[1] = a[1]
    BY <2>1, <2>2 DEF SameLines, RowsOf
  <2>4. PICK d \in S : d[2] = a[2]
    BY <2>1, <2>2 DEF SameLines, ColumnsOf
  <2>5. \A R \in Others(T \ {a}) : Shift(T \ {a}) = Shift(R)
    BY <1>2, <2>1
  <2> DEFINE e == <<d[1], b[2]>>
             rest == (S \ {b}) \ {d}
  <2>6. /\ a \in Cells /\ b \in Cells /\ d \in Cells /\ e \in Cells
        /\ e[1] = d[1] /\ e[2] = b[2]
        /\ a = <<a[1], a[2]>> /\ b = <<a[1], b[2]>> /\ d = <<d[1], a[2]>>
    BY <2>1, <2>2, <2>3, <2>4, CellsAre DEF Cells
  <2> HIDE DEF e, Others, B
  <2>7. CASE b = d
    <3>1. b = a
      BY <2>3, <2>4, <2>6, <2>7
    <3>2. S \ {a} \in Others(T \ {a})
      <4>1. IsFiniteSet(S \ {a}) /\ Apart(S \ {a}) /\ S \ {a} \in SUBSET Cells
        BY <2>2, FS_Subset DEF Apart
      <4>2. SameLines(T \ {a}, S \ {a})
        <5>1. RowsOf(T \ {a}) = RowsOf(T) \ {a[1]} /\ ColumnsOf(T \ {a}) = ColumnsOf(T) \ {a[2]}
          BY <2>1, <2>2 DEF RowsOf, ColumnsOf, Apart
        <5>2. RowsOf(S \ {a}) = RowsOf(S) \ {a[1]} /\ ColumnsOf(S \ {a}) = ColumnsOf(S) \ {a[2]}
          BY <2>2, <2>3, <3>1 DEF RowsOf, ColumnsOf, Apart
        <5>3. QED BY <2>2, <5>1, <5>2 DEF SameLines
      <4>3. QED BY <4>1, <4>2 DEF Others
    <3>3. Shift(T) = given[a] - cost[a] + Shift(T \ {a})
          /\ Shift(S) = given[a] - cost[a] + Shift(S \ {a})
      BY <2>1, <2>2, <2>3, <3>1, ShiftStep
    <3>4. QED BY <2>5, <3>2, <3>3
  <2>8. CASE b # d
    <3>1. rest \in SUBSET Cells /\ IsFiniteSet(rest) /\ rest \cup {e} \in SUBSET Cells
          /\ IsFiniteSet(rest \cup {e})
      <4>1. rest \in SUBSET S
        OBVIOUS
      <4>2. IsFiniteSet(rest)
        BY <2>2, <4>1, FS_Subset
      <4> HIDE DEF rest
      <4>3. QED BY <2>2, <2>6, <4>1, <4>2, FS_AddElement
    <3>2. \A z \in rest : z[1] # b[1] /\ z[1] # d[1] /\ z[2] # b[2] /\ z[2] # d[2]
      BY <2>2, <2>3, <2>4 DEF Apart
    <3>3. e \notin rest /\ (rest \cup {e}) \ {e} = rest
      BY <2>6, <3>2
    <3>4. Apart(rest \cup {e})
      BY <2>2, <2>6, <3>2 DEF Apart
    <3>5. SameLines(T \ {a}, rest \cup {e})
      <4>1. RowsOf(T \ {a}) = RowsOf(T) \ {a[1]} /\ ColumnsOf(T \ {a}) = ColumnsOf(T) \ {a[2]}
        BY <2>1, <2>2 DEF RowsOf, ColumnsOf, Apart
      <4>2. b[1] # d[1] /\ b[2] # d[2]
        BY <2>2, <2>3, <2>4, <2>8 DEF Apart
      <4>3. RowsOf(S) \ {b[1]} = RowsOf(rest \cup {e})
        BY <2>3, <2>4, <2>6, <3>2, <4>2 DEF RowsOf
      <4>4. ColumnsOf(S) \ {d[2]} = ColumnsOf(rest \cup {e})
        BY <2>3, <2>4, <2>6, <3>2, <4>2 DEF ColumnsOf
      <4>5. QED BY <2>2, <2>3, <2>4, <4>1, <4>3, <4>4 DEF SameLines
    <3>6. Shift(T \ {a}) = Shift(rest \cup {e})
      BY <2>5, <3>1, <3>4, <3>5 DEF Others
    <3>7. Shift(rest \cup {e}) = given[e] - cost[e] + Shift(rest)
      <4>1. e \in rest \cup {e}
        OBVIOUS
      <4>2. Shift(rest \cup {e}) = given[e] - cost[e] + Shift((rest \cup {e}) \ {e})
        BY <3>1, <4>1, ShiftStep
      <4>3. QED BY <3>3, <4>2
    <3>8. Shift(T) = given[a] - cost[a] + Shift(T \ {a})
      BY <2>1, <2>2, ShiftStep
    <3>9. Shift(S) = given[b] - cost[b] + Shift(S \ {b})
      BY <2>2, <2>3, ShiftStep
    <3>10. Shift(S \ {b}) = given[d] - cost[d] + Shift(rest)
      <4>1. S \ {b} \in SUBSET Cells /\ IsFiniteSet(S \ {b}) /\ d \in S \ {b}
        BY <2>2, <2>4, <2>8, FS_Subset
      <4>2. QED BY <4>1, ShiftStep
    <3>11. Shift(rest) \in Int
      BY <3>1, ShiftStep
    <3>12. cost[a] + cost[e] - cost[b] - cost[d] = given[a] + given[e] - given[b] - given[d]
      BY <2>6 DEF Balanced
    <3>13. /\ cost[a] \in Int /\ cost[b] \in Int /\ cost[d] \in Int /\ cost[e] \in Int
           /\ given[a] \in Int /\ given[b] \in Int /\ given[d] \in Int /\ given[e] \in Int
      BY <2>6 DEF TypesOK
    <3> HIDE DEF rest
    <3>14. QED BY <3>6, <3>7, <3>8, <3>9, <3>10, <3>11, <3>12, <3>13
  <2>9. QED BY <2>7, <2>8
<1> HIDE DEF B
<1>3. A \in B
  BY <1>1, <1>2, SubsetsAll
<1>4. Q \in Others(A)
  OBVIOUS
<1>5. QED BY <1>3, <1>4 DEF B

\* One-to-one functions on the lines reach every line.
LEMMA Onto ==
  ASSUME NEW f \in [Line -> Line], \A r, s \in Line : f[r] = f[s] => r = s
  PROVE  \A c \in Line : \E r \in Line : f[r] = c
<1>1. IsFiniteSet(Line) /\ Cardinality(Line) = Cardinality(Line)
  BY FS_Interval, SizeAssumption DEF Line, SizeAssumption
<1>2. f \in Injection(Line, Line)
  BY DEF Injection, IsInjective
<1>3. f \in Surjection(Line, Line)
  BY <1>1, <1>2, FS_Injection
<1>4. QED BY <1>3 DEF Surjection

GraphOf(q) == {<<r, q[r]>> : r \in Line}

\* The cells of a permutation: one in each row and in each column.
LEMMA GraphIs ==
  ASSUME NEW q \in Assignments
  PROVE  /\ GraphOf(q) \in SUBSET Cells /\ IsFiniteSet(GraphOf(q)) /\ Cardinality(GraphOf(q)) = Size
         /\ Apart(GraphOf(q)) /\ RowsOf(GraphOf(q)) = Line /\ ColumnsOf(GraphOf(q)) = Line
<1>1. q \in [Line -> Line] /\ \A r, s \in Line : q[r] = q[s] => r = s
  BY DEF Assignments
<1>2. GraphOf(q) \in SUBSET Cells /\ Apart(GraphOf(q))
  BY <1>1 DEF GraphOf, Cells, Apart
<1>3. \A r \in Line : /\ <<r, q[r]>> \in GraphOf(q) /\ <<r, q[r]>>[1] = r /\ <<r, q[r]>>[2] = q[r]
                      /\ r \in RowsOf(GraphOf(q)) /\ q[r] \in ColumnsOf(GraphOf(q))
  <2> TAKE r \in Line
  <2>1. <<r, q[r]>> \in GraphOf(q) /\ <<r, q[r]>>[1] = r /\ <<r, q[r]>>[2] = q[r]
    BY DEF GraphOf
  <2>2. r \in RowsOf(GraphOf(q)) /\ q[r] \in ColumnsOf(GraphOf(q))
    BY <2>1 DEF RowsOf, ColumnsOf
  <2>3. QED BY <2>1, <2>2
<1>4. RowsOf(GraphOf(q)) = Line /\ ColumnsOf(GraphOf(q)) = Line
  <2>1. RowsOf(GraphOf(q)) \subseteq Line /\ ColumnsOf(GraphOf(q)) \subseteq Line
    BY <1>2, CellsAre DEF RowsOf, ColumnsOf
  <2>2. \A c \in Line : \E r \in Line : q[r] = c
    BY <1>1, Onto
  <2>3. QED BY <1>3, <2>1, <2>2
<1>5. IsFiniteSet(GraphOf(q)) /\ Cardinality(GraphOf(q)) = Size
  <2> DEFINE f == [r \in Line |-> <<r, q[r]>>]
  <2>1. f \in Bijection(Line, GraphOf(q))
    BY DEF GraphOf, Bijection, Injection, Surjection, IsInjective
  <2>2. IsFiniteSet(Line) /\ Cardinality(Line) = Size
    BY FS_Interval, SizeAssumption DEF Line, SizeAssumption
  <2>3. ExistsBijection(Line, GraphOf(q))
    BY <2>1 DEF ExistsBijection
  <2>4. QED BY <2>2, <2>3, FS_Bijection
<1>6. QED BY <1>2, <1>4, <1>5

\* What the solver returns is a permutation.
LEMMA StarsAssign ==
  ASSUME SolverInv, step = "assigned"
  PROVE  \E p \in Assignments : stars = GraphOf(p)
<1> DEFINE f == [c \in Line |-> CHOOSE r \in Line : <<r, c>> \in stars]
           p == [r \in Line |-> CHOOSE c \in Line : <<r, c>> \in stars]
<1>1. \A c \in Line : \E r \in Line : <<r, c>> \in stars
  BY DEF SolverInv, MarksOK, StarsInColumn
<1>2. \A c \in Line : f[c] \in Line /\ <<f[c], c>> \in stars
  BY <1>1
<1>3. Apart(stars) /\ stars \subseteq Cells
  BY DEF SolverInv, MarksOK, TypesOK
<1> HIDE DEF f
<1>4. \A c, d \in Line : f[c] = f[d] => c = d
  BY <1>2, <1>3 DEF Apart
<1>5. \A r \in Line : \E c \in Line : <<r, c>> \in stars
  <2>1. f \in [Line -> Line]
    BY <1>2 DEF f
  <2>2. QED BY <1>2, <1>4, <2>1, Onto
<1>6. \A r \in Line : p[r] \in Line /\ <<r, p[r]>> \in stars
  BY <1>5
<1>7. p \in [Line -> Line]
  BY <1>6
<1> HIDE DEF p
<1>8. p \in Assignments
  BY <1>3, <1>6, <1>7 DEF Assignments, Apart
<1>9. stars = GraphOf(p)
  <2>1. \A z \in stars : z = <<z[1], p[z[1]]>> /\ z[1] \in Line
    BY <1>3, <1>6, CellsAre DEF Apart
  <2>2. QED BY <1>6, <2>1 DEF GraphOf
<1>10. QED BY <1>8, <1>9

\* What solve() returns undercuts every other assignment, but for the rounding
\* that _is_zero forgives at each of its cells.
THEOREM AssignsOptimally == SolverSpec => []AssignmentIsOptimal
<1>1. ASSUME SolverInv, step = "assigned", NEW p \in Assignments, stars = GraphOf(p), NEW q \in Assignments
      PROVE  CostOf(stars) <= CostOf(GraphOf(q)) + Size * Epsilon
  <2> DEFINE Q == GraphOf(q)
  <2>1. /\ stars \in SUBSET Cells /\ IsFiniteSet(stars) /\ Cardinality(stars) = Size /\ Apart(stars)
        /\ Q \in SUBSET Cells /\ IsFiniteSet(Q) /\ Apart(Q) /\ SameLines(stars, Q)
    BY <1>1, GraphIs DEF SameLines
  <2> HIDE DEF Q
  <2>2. TypesOK /\ ReducedCostsSound
    BY <1>1 DEF SolverInv
  <2>3. Shift(stars) = Shift(Q)
    BY <2>1, <2>2, Exchange DEF ReducedCostsSound
  <2>4. /\ \A z \in stars : cost[z] \in Int /\ given[z] \in Int /\ cost[z] <= Epsilon
        /\ \A z \in Q : cost[z] \in Int /\ given[z] \in Int /\ cost[z] >= 0
        /\ Epsilon \in Nat
    BY <1>1, <2>1, <2>2, CostAssumption
       DEF TypesOK, ReducedCostsSound, Negligible, CostAssumption
  <2>5. Limited(cost, Epsilon, stars) /\ Positive(cost, Q)
    BY <2>1, <2>4, SumBounds
  <2>6. Total(cost, stars) <= Size * Epsilon /\ Total(cost, Q) >= 0
    BY <2>1, <2>4, <2>5 DEF Limited, Positive
  <2>7. /\ Total(cost, stars) \in Int /\ Total(given, stars) \in Int
        /\ Total(cost, Q) \in Int /\ Total(given, Q) \in Int
    BY <2>1, <2>4, SumRemove
  <2> DEFINE slack == Size * Epsilon
  <2>8. slack \in Int
    BY <2>4, SizeAssumption DEF SizeAssumption
  <2>9. CostOf(stars) = Total(given, stars) /\ CostOf(Q) = Total(given, Q)
    BY DEF CostOf, Total
  <2> HIDE DEF slack
  <2>10. CostOf(stars) <= CostOf(Q) + slack
    <3>1. Total(cost, stars) <= slack
      BY <2>6 DEF slack
    <3>2. QED BY <2>3, <2>6, <2>7, <2>8, <2>9, <3>1 DEF Shift
  <2>11. QED BY <2>10 DEF slack, Q
<1>2. SolverInv => AssignmentIsOptimal
  BY <1>1, StarsAssign DEF AssignmentIsOptimal, GraphOf
<1>3. QED BY <1>2, SolverInvariance, PTL
===============================================================================
