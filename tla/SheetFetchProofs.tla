--------------------------- MODULE SheetFetchProofs ---------------------------
(***************************************************************************)
(* The sheet and its copy in the database, for every sheet length, every   *)
(* set of calls and every number of faults.                                *)
(*                                                                         *)
(* Of the import: that no row is passed over unaccounted for, that only    *)
(* complete rows are stored, and that requests follow commits.             *)
(*                                                                         *)
(* Of the differences that show up afterwards, module SheetDiff: that a    *)
(* notification is settled at most once, because a press that is not       *)
(* excused and has not deleted the payload yet excludes every other press  *)
(* and every earlier call (NoticesInv); and that a run reports a row at    *)
(* most once, because what it has done, has in hand and has still to come  *)
(* are ranges that descend without a gap (RunInv).                         *)
(***************************************************************************)
EXTENDS SheetFetch, SheetDiff, FiniteSetTheorems, SequenceTheorems, TLAPS

\* A finite, non-empty set of naturals has a greatest element, and Max is it.
\* (The element with the fewest others above it: a minimal set of those exists
\* because strict inclusion of finite sets is well-founded.)
LEMMA GreatestOfFinite ==
  ASSUME NEW S, S \subseteq Nat, S # {}, IsFiniteSet(S)
  PROVE  Max(S) \in S /\ \A s \in S : s <= Max(S)
<1> DEFINE Above(s) == {t \in S : t > s}
           Family == {Above(s) : s \in S}
<1>1. Family \subseteq FiniteSubsetsOf(S) /\ Family # {}
  <2>1. \A s \in S : Above(s) \in SUBSET S
    OBVIOUS
  <2>2. \A T \in SUBSET S : IsFiniteSet(T)
    BY FS_Subset
  <2> HIDE DEF Above
  <2>3. QED BY <2>1, <2>2 DEF FiniteSubsetsOf
<1>2. PICK least \in Family : \A other \in Family : <<other, least>> \notin StrictSubsetOrdering(S)
  BY <1>1, FS_StrictSubsetOrderingWellFounded, WFMin
<1>3. PICK m \in S : least = Above(m)
  BY <1>2
<1>4. \A s \in S : s <= m
  <2>1. SUFFICES ASSUME NEW s \in S, s > m PROVE FALSE
    OBVIOUS
  <2>2. s \in Nat /\ m \in Nat
    OBVIOUS
  <2>3. s \in Above(m) /\ s \notin Above(s)
    BY <2>1, <2>2
  <2>4. Above(s) \subseteq Above(m)
    <3>1. ASSUME NEW t \in Nat, t > s PROVE t > m
      BY <2>1, <2>2, <3>1
    <3>2. QED BY <3>1
  <2>5. <<Above(s), Above(m)>> \in StrictSubsetOrdering(S)
    BY <2>3, <2>4 DEF StrictSubsetOrdering
  <2>6. QED BY <1>2, <1>3, <2>5
<1>5. QED BY <1>3, <1>4 DEF Max

\* The greatest of a set of rows.
LEMMA GreatestRow ==
  ASSUME NEW S \in SUBSET (0 .. LastRow), S # {}
  PROVE  Max(S) \in S /\ \A s \in S : s <= Max(S)
<1>1. IsFiniteSet(0 .. LastRow)
  BY FetchAssumption, FS_Interval DEF FetchAssumption
<1>2. IsFiniteSet(S)
  BY <1>1, FS_Subset
<1>3. S \subseteq Nat
  BY FetchAssumption DEF FetchAssumption
<1>4. QED BY <1>2, <1>3, GreatestOfFinite

-------------------------------------------------------------------------------
(***************************************************************************)
(* The inductive invariant.  LeftBehindOnlyIf is about stored rows; storing*)
(* one keeps it because the same was true of the rows still to be stored   *)
(* (NothingPassedOver), and that becomes true when they are read because   *)
(* the row before the first one read had been stored (ReadsAboveStored).   *)
(***************************************************************************)
Accounted == db \cup skipped \cup dropped \cup InProgress

NothingPassedOver ==
  \A c \in Calls : \A later \in todo[c], r \in Rows : r < later => r \in Accounted

ReadsAboveStored == \A c \in Calls : from[c] = 1 \/ from[c] - 1 \in db

SpawnedStored == \A c \in Calls : spawned[c] \subseteq db

IInv ==
  /\ TypeOK
  /\ LeftBehindOnlyIf
  /\ NothingPassedOver
  /\ ReadsAboveStored
  /\ ImportedWhole
  /\ SpawnedStored
  /\ RequestsFollowCommits

\* Rows no step forgets: what is accounted for stays so, and so do the two
\* statements that only say so of more rows.
LEMMA AccountedKeeps ==
  ASSUME IInv, Accounted \subseteq Accounted',
         db' = db, \A c \in Calls : todo'[c] \subseteq todo[c]
  PROVE  LeftBehindOnlyIf' /\ NothingPassedOver'
<1>1. LeftBehindOnlyIf'
  BY DEF IInv, LeftBehindOnlyIf, Accounted
<1>2. NothingPassedOver'
  BY DEF IInv, NothingPassedOver
<1>3. QED BY <1>1, <1>2

\* The initial state satisfies the inductive invariant.
LEMMA InitInv == Init => IInv
<1> SUFFICES ASSUME Init PROVE IInv
  OBVIOUS
<1> USE FetchAssumption DEF Init, FetchAssumption, Rows, InProgress
<1>1. TypeOK
  BY DEF TypeOK, Contents
<1>2. LeftBehindOnlyIf /\ NothingPassedOver /\ ReadsAboveStored
  BY DEF LeftBehindOnlyIf, NothingPassedOver, ReadsAboveStored
<1>3. ImportedWhole /\ SpawnedStored /\ RequestsFollowCommits
  BY DEF ImportedWhole, SpawnedStored, RequestsFollowCommits
<1>4. QED BY <1>1, <1>2, <1>3 DEF IInv

\* Every step of Next, and stuttering, keeps the inductive invariant.
LEMMA NextInv == IInv /\ [Next]_vars => IInv'
<1> SUFFICES ASSUME IInv, [Next]_vars PROVE IInv'
  OBVIOUS
<1> USE FetchAssumption DEF FetchAssumption
<1>t. TypeOK
  BY DEF IInv
<1>f. Fault => faults' \in 0 .. MaxFaults
  BY <1>t DEF Fault, TypeOK
<1>1. ASSUME NEW r \in Rows, Edit(r) PROVE IInv'
  <2> USE <1>1, <1>t DEF Edit, call, history
  <2>1. TypeOK'
    BY DEF TypeOK, Contents
  <2>2. Accounted' = Accounted
    BY DEF Accounted, InProgress
  <2>3. LeftBehindOnlyIf' /\ NothingPassedOver'
    BY <2>2, AccountedKeeps
  <2>4. ImportedWhole'
    BY DEF IInv, ImportedWhole, InProgress, TypeOK
  <2>5. ReadsAboveStored' /\ SpawnedStored' /\ RequestsFollowCommits'
    BY DEF IInv, ReadsAboveStored, SpawnedStored, RequestsFollowCommits
  <2>6. QED BY <2>1, <2>3, <2>4, <2>5 DEF IInv
<1>2. ASSUME NEW c \in Calls, GetMaxRowID(c) PROVE IInv'
  <2> USE <1>2, <1>t DEF GetMaxRowID, history
  <2> DEFINE top == Max(db \cup {NoRow})
  <2>1. top \in db \cup {0} /\ top \in 0 .. LastRow
    <3>1. db \cup {NoRow} \in SUBSET (0 .. LastRow)
      BY DEF TypeOK, Rows, NoRow
    <3>2. top \in db \cup {NoRow}
      BY <3>1, GreatestRow
    <3>3. QED BY <3>1, <3>2 DEF NoRow
  <2>2. TypeOK'
    <3>1. top + 1 \in 1 .. LastRow + 1
      BY <2>1
    <3> HIDE DEF top
    <3>2. from' \in [Calls -> 1 .. LastRow + 1]
      BY <3>1 DEF TypeOK, top
    <3>3. pc' \in [Calls -> {"idle", "read", "save", "wait"}]
      BY DEF TypeOK
    <3>4. ctx' \in [Calls -> {"live", "group", "request"}]
      BY DEF TypeOK
    <3>5. \A other \in Calls : pc'[other] = "save" <=> todo'[other] # {}
      BY DEF TypeOK
    <3>6. QED BY <3>2, <3>3, <3>4, <3>5 DEF TypeOK
  <2>3. ReadsAboveStored'
    <3>1. top + 1 = 1 \/ (top + 1) - 1 \in db
      BY <2>1
    <3> HIDE DEF top
    <3>2. from'[c] = top + 1 /\ \A other \in Calls \ {c} : from'[other] = from[other]
      BY DEF TypeOK, top
    <3>3. QED BY <3>1, <3>2 DEF IInv, ReadsAboveStored
  <2>4. Accounted' = Accounted
    BY DEF Accounted, InProgress
  <2>5. LeftBehindOnlyIf' /\ NothingPassedOver'
    BY <2>4, AccountedKeeps
  <2>6. ImportedWhole' /\ SpawnedStored' /\ RequestsFollowCommits'
    BY DEF IInv, ImportedWhole, InProgress, SpawnedStored, RequestsFollowCommits
  <2>7. QED BY <2>2, <2>3, <2>5, <2>6 DEF IInv
<1>3. ASSUME NEW c \in Calls, ReadRows(c) PROVE IInv'
  <2> USE <1>3, <1>t DEF ReadRows
  <2>1. CASE Incomplete(c) \cup Unparsable(c) # {} \/ Readable(c) = {}
    <3>1. UNCHANGED <<sheet, db, from, todo, spawned, ctx, requested, skipped, dropped, unsent, faults>>
          /\ pc' = [pc EXCEPT ![c] = "idle"]
      BY <2>1
    <3>2. TypeOK'
      BY <3>1 DEF TypeOK
    <3>3. Accounted' = Accounted
      BY <3>1 DEF Accounted, InProgress
    <3>4. LeftBehindOnlyIf' /\ NothingPassedOver'
      BY <3>1, <3>3, AccountedKeeps
    <3>5. ReadsAboveStored' /\ ImportedWhole' /\ SpawnedStored' /\ RequestsFollowCommits'
      BY <3>1
         DEF IInv, ReadsAboveStored, ImportedWhole, InProgress, SpawnedStored,
             RequestsFollowCommits
    <3>6. QED BY <3>2, <3>4, <3>5 DEF IInv
  <2>2. CASE Incomplete(c) \cup Unparsable(c) = {} /\ Readable(c) # {}
    <3> DEFINE readPast == { r \in InRange(c) : sheet[r] = "blank" /\ r < Max(Readable(c)) }
    <3>1. /\ UNCHANGED <<sheet, db, from, spawned, ctx, requested, dropped, unsent, faults>>
          /\ pc' = [pc EXCEPT ![c] = "save"]
          /\ todo' = [todo EXCEPT ![c] = Readable(c)]
          /\ skipped' = skipped \cup readPast
          /\ pc[c] = "read"
      BY <2>2
    <3>2. Readable(c) \subseteq Used(c) /\ Used(c) \subseteq Rows /\ readPast \subseteq Rows
      BY DEF Readable, Used, InRange
    <3>3. todo[c] = {}
      BY <3>1 DEF TypeOK
    <3>4. TypeOK'
      BY <2>2, <3>1, <3>2 DEF TypeOK
    <3>5. Accounted \subseteq Accounted' /\ Readable(c) \cup readPast \subseteq Accounted'
      <4> HIDE DEF readPast
      <4>1. InProgress \cup Readable(c) \subseteq InProgress'
        BY <3>1, <3>3 DEF InProgress, TypeOK
      <4>2. QED BY <3>1, <4>1 DEF Accounted
    <3>6. LeftBehindOnlyIf'
      BY <3>1, <3>5 DEF IInv, LeftBehindOnlyIf, Accounted
    <3>7. ASSUME NEW later \in Readable(c), NEW r \in Rows, r < later PROVE r \in Accounted'
      <4>1. CASE from[c] <= r
        <5>1. later <= Max(Readable(c))
          BY <3>2, GreatestRow DEF Rows
        <5>2. later <= Max(Used(c))
          BY <3>2, GreatestRow DEF Rows
        <5>3. r < Max(Readable(c)) /\ r # Max(Used(c))
          <6>1. Max(Readable(c)) \in Nat /\ Max(Used(c)) \in Nat /\ later \in Nat /\ r \in Nat
            BY <3>2, GreatestRow DEF Rows
          <6>2. QED BY <3>7, <5>1, <5>2, <6>1
        <5>4. sheet[r] \in {"blank", "partial", "garbled", "complete"} /\ r \in InRange(c)
          BY <4>1 DEF TypeOK, Contents, InRange
        <5>5. sheet[r] \notin {"partial", "garbled"}
          BY <2>2, <5>3, <5>4 DEF Incomplete, Unparsable, Used
        <5>6. r \in readPast \/ r \in Readable(c)
          BY <5>3, <5>4, <5>5 DEF Readable, Used
        <5>7. QED BY <3>5, <5>6
      <4>2. CASE r < from[c]
        <5>1. from[c] - 1 \in db /\ r <= from[c] - 1
          BY <4>2 DEF IInv, ReadsAboveStored, TypeOK, Rows
        <5>2. r \in Accounted
          BY <5>1 DEF IInv, LeftBehindOnlyIf, Accounted, TypeOK, Rows
        <5>3. QED BY <3>5, <5>2
      <4>3. QED BY <4>1, <4>2 DEF TypeOK, Rows
    <3>8. NothingPassedOver'
      <4>1. todo'[c] = Readable(c) /\ \A other \in Calls \ {c} : todo'[other] = todo[other]
        BY <3>1 DEF TypeOK
      <4>2. QED BY <3>5, <3>7, <4>1 DEF IInv, NothingPassedOver
    <3>9. ImportedWhole'
      BY <3>1 DEF IInv, ImportedWhole, InProgress, Readable, TypeOK
    <3>10. ReadsAboveStored' /\ SpawnedStored' /\ RequestsFollowCommits'
      BY <3>1 DEF IInv, ReadsAboveStored, SpawnedStored, RequestsFollowCommits
    <3>11. QED BY <3>4, <3>6, <3>8, <3>9, <3>10 DEF IInv
  <2>3. QED BY <2>1, <2>2
<1>4. ASSUME NEW c \in Calls, ReadFails(c) \/ Return(c) \/ CallerGone(c) PROVE IInv'
  <2> USE <1>4, <1>t, <1>f DEF ReadFails, Return, CallerGone, history
  <2>1. /\ UNCHANGED <<sheet, db, from, todo, spawned, requested, skipped, dropped, unsent>>
        /\ \/ pc' = pc
           \/ pc[c] \in {"read", "wait"} /\ pc' = [pc EXCEPT ![c] = "idle"]
        /\ ctx' \in [Calls -> {"live", "group", "request"}]
        /\ faults' \in 0 .. MaxFaults
    <3>1. CASE ReadFails(c)
      BY <3>1 DEF TypeOK
    <3>2. CASE Return(c)
      BY <3>2 DEF TypeOK
    <3>3. CASE CallerGone(c)
      BY <3>3 DEF TypeOK
    <3>4. QED BY <3>1, <3>2, <3>3
  <2>2. TypeOK'
    BY <2>1 DEF TypeOK
  <2>3. Accounted' = Accounted
    BY <2>1 DEF Accounted, InProgress
  <2>4. LeftBehindOnlyIf' /\ NothingPassedOver'
    BY <2>1, <2>3, AccountedKeeps
  <2>5. ReadsAboveStored' /\ ImportedWhole' /\ SpawnedStored' /\ RequestsFollowCommits'
    BY <2>1
       DEF IInv, ReadsAboveStored, ImportedWhole, InProgress, SpawnedStored,
           RequestsFollowCommits
  <2>6. QED BY <2>2, <2>4, <2>5 DEF IInv
<1>5. ASSUME NEW c \in Calls, NEW r \in Rows, SaveRow(c, r) PROVE IInv'
  <2> USE <1>5, <1>t DEF SaveRow, history
  <2>1. /\ r \in todo[c] /\ todo'[c] = todo[c] \ {r} /\ spawned'[c] = spawned[c] \cup {r}
        /\ \A other \in Calls \ {c} : todo'[other] = todo[other] /\ spawned'[other] = spawned[other]
    BY DEF TypeOK
  <2>2. TypeOK'
    <3>1. todo' \in [Calls -> SUBSET Rows] /\ spawned' \in [Calls -> SUBSET Rows]
          /\ db' \in SUBSET Rows
      BY DEF TypeOK
    <3>2. pc' \in [Calls -> {"idle", "read", "save", "wait"}]
      BY DEF TypeOK
    <3>3. \A other \in Calls : pc'[other] = "save" <=> todo'[other] # {}
      BY <2>1 DEF TypeOK
    <3>4. QED BY <3>1, <3>2, <3>3 DEF TypeOK
  <2>3. InProgress' \cup {r} \subseteq InProgress \cup {r}
        /\ InProgress \subseteq InProgress' \cup {r}
    BY <2>1 DEF InProgress
  <2>4. Accounted \subseteq Accounted'
    BY <2>3 DEF Accounted
  <2>5. r \in InProgress
    BY <2>1 DEF InProgress
  <2>6. LeftBehindOnlyIf'
    <3>1. \A q \in Rows : q < r => q \in Accounted
      BY <2>1 DEF IInv, NothingPassedOver
    <3>2. \A q \in Rows, stored \in db : q < stored => q \in Accounted
      BY DEF IInv, LeftBehindOnlyIf, Accounted
    <3>3. QED BY <2>4, <3>1, <3>2 DEF LeftBehindOnlyIf, Accounted
  <2>7. NothingPassedOver'
    BY <2>1, <2>4 DEF IInv, NothingPassedOver
  <2>8. ImportedWhole'
    BY <2>3, <2>5 DEF IInv, ImportedWhole
  <2>9. ReadsAboveStored' /\ SpawnedStored'
    BY <2>1 DEF IInv, ReadsAboveStored, SpawnedStored
  <2>10. RequestsFollowCommits'
    BY <2>1 DEF IInv, RequestsFollowCommits
  <2>11. QED BY <2>2, <2>6, <2>7, <2>8, <2>9, <2>10 DEF IInv
<1>6. ASSUME NEW c \in Calls, NEW r \in Rows, SaveFails(c, r) PROVE IInv'
  <2> USE <1>6, <1>t, <1>f DEF SaveFails
  <2>1. todo'[c] = {} /\ \A other \in Calls \ {c} : todo'[other] = todo[other]
    BY DEF TypeOK
  <2>2. TypeOK'
    <3>1. faults' \in 0 .. MaxFaults
      BY DEF TypeOK
    <3>2. pc' \in [Calls -> {"idle", "read", "save", "wait"}]
          /\ ctx' \in [Calls -> {"live", "group", "request"}]
      BY DEF TypeOK
    <3>3. todo' \in [Calls -> SUBSET Rows] /\ dropped' \subseteq Rows
      BY DEF TypeOK
    <3>4. \A other \in Calls : pc'[other] = "save" <=> todo'[other] # {}
      BY <2>1 DEF TypeOK
    <3>5. QED BY <3>1, <3>2, <3>3, <3>4 DEF TypeOK
  <2>3. InProgress \subseteq InProgress' \cup todo[c] /\ InProgress' \subseteq InProgress
    BY <2>1 DEF InProgress
  <2>4. Accounted \subseteq Accounted'
    BY <2>3 DEF Accounted
  <2>5. LeftBehindOnlyIf' /\ NothingPassedOver'
    BY <2>1, <2>4, AccountedKeeps
  <2>6. ReadsAboveStored' /\ ImportedWhole' /\ SpawnedStored' /\ RequestsFollowCommits'
    BY <2>3 DEF IInv, ReadsAboveStored, ImportedWhole, SpawnedStored, RequestsFollowCommits
  <2>7. QED BY <2>2, <2>5, <2>6 DEF IInv
<1>7. ASSUME NEW c \in Calls, NEW r \in Rows, PublishRequest(c, r) \/ PublishFails(c, r) PROVE IInv'
  <2> USE <1>7, <1>t, <1>f DEF PublishRequest, PublishFails
  <2>1. /\ r \in spawned[c] /\ spawned'[c] = spawned[c] \ {r}
        /\ \A other \in Calls \ {c} : spawned'[other] = spawned[other]
        /\ UNCHANGED <<sheet, db, pc, from, todo, skipped, dropped>>
    BY DEF TypeOK
  <2>2. TypeOK'
    <3>1. faults' \in 0 .. MaxFaults /\ ctx' \in [Calls -> {"live", "group", "request"}]
      BY DEF TypeOK
    <3>2. spawned' \in [Calls -> SUBSET Rows] /\ requested' \subseteq Rows /\ unsent' \subseteq Rows
      BY DEF TypeOK
    <3>3. QED BY <2>1, <3>1, <3>2 DEF TypeOK
  <2>3. Accounted' = Accounted
    BY <2>1 DEF Accounted, InProgress
  <2>4. LeftBehindOnlyIf' /\ NothingPassedOver'
    BY <2>1, <2>3, AccountedKeeps
  <2>5. ReadsAboveStored' /\ ImportedWhole' /\ SpawnedStored'
    BY <2>1 DEF IInv, ReadsAboveStored, ImportedWhole, InProgress, SpawnedStored
  <2>6. RequestsFollowCommits'
    <3>1. requested' \cup unsent' = requested \cup unsent \cup {r}
      OBVIOUS
    <3>2. requested' \subseteq db
      BY <2>1 DEF IInv, RequestsFollowCommits, SpawnedStored
    <3>3. QED BY <2>1, <3>1, <3>2 DEF IInv, RequestsFollowCommits
  <2>7. QED BY <2>2, <2>4, <2>5, <2>6 DEF IInv
<1>8. CASE Crash
  <2> USE <1>8, <1>t, <1>f DEF Crash
  <2>1. TypeOK'
    BY DEF TypeOK
  <2>2. InProgress' = {} /\ Accounted \subseteq Accounted'
    BY DEF Accounted, InProgress
  <2>3. LeftBehindOnlyIf' /\ NothingPassedOver'
    BY <2>2, AccountedKeeps
  <2>4. ReadsAboveStored' /\ ImportedWhole' /\ SpawnedStored' /\ RequestsFollowCommits'
    BY <2>2 DEF IInv, ReadsAboveStored, ImportedWhole, SpawnedStored, RequestsFollowCommits
  <2>5. QED BY <2>1, <2>3, <2>4 DEF IInv
<1>9. CASE UNCHANGED vars
  BY <1>9 DEF vars, call, history, IInv, TypeOK, InProgress, Accounted, LeftBehindOnlyIf,
     NothingPassedOver, ReadsAboveStored, ImportedWhole, SpawnedStored, RequestsFollowCommits
<1>10. QED
  BY <1>1, <1>2, <1>3, <1>4, <1>5, <1>6, <1>7, <1>8, <1>9 DEF Next, Step

\* The import's invariants hold of every behaviour.
THEOREM Invariance == Spec => []IInv
<1>1. Init => IInv
  BY InitInv
<1>2. IInv /\ [Next]_vars => IInv'
  BY NextInv
<1>3. QED
  BY <1>1, <1>2, PTL DEF Spec

\* Fetch's variables keep their types, and a call is storing rows exactly
\* while it has rows to store (TypeOK).
THEOREM TypeCorrect == Spec => []TypeOK
BY Invariance, PTL DEF IInv

\* Fetch and GetMaxRowID leave no row behind but those read past while blank,
\* dropped by a failing call, or still in a call's hands.
THEOREM NothingLeftBehind == Spec => []LeftBehindOnlyIf
BY Invariance, PTL DEF IInv

\* Fetch stores no row whose mandatory cells are not filled.
THEOREM OnlyCompleteRows == Spec => []ImportedWhole
BY Invariance, PTL DEF IInv

\* Fetch's goroutines request embeddings of committed rows only, and of each
\* of them unless the request is lost.
THEOREM CommitsFirst == Spec => []RequestsFollowCommits
BY Invariance, PTL DEF IInv

-------------------------------------------------------------------------------
(* The buttons of a difference: one settlement per notification *)

\* A notification as the bot keeps it.
IsNotice(w) ==
  /\ w \in [row : {w.row}, cached : BOOLEAN, messages : Nat, open : {w.open}]
  /\ w.open # {} => w.messages > 0

\* A press being served, of a button of a notification that was sent.
IsPress(w) ==
  /\ w \in [pc : {"get", "call", "delete", "buttons"}, event : DOMAIN notices,
            message : {w.message}, action : {w.action}]
  /\ notices[w.event].messages > 0

\* The variables have the shape the actions take for granted.
ShapeOK ==
  /\ Len(notices) \in Nat /\ notices = [n \in 1 .. Len(notices) |-> notices[n]]
  /\ \A n \in DOMAIN notices : IsNotice(notices[n])
  /\ calls \in [1 .. Len(notices) -> Nat]
  /\ press = [p \in Presses |-> press[p]]
  /\ \A p \in Presses : press[p] = Idle \/ IsPress(press[p])
  /\ \A n \in DOMAIN notices : calls[n] > 0 => notices[n].messages > 0

\* The press p is about the notification n.
ServedFor(p, n) == press[p] # Idle /\ press[p].event = n

\* One press at a time, one call, and after it nothing that could call again.
SettledOnce(n) ==
  /\ \A p, q \in Presses : ServedFor(p, n) /\ ServedFor(q, n) => p = q
  /\ calls[n] <= 1
  /\ calls[n] = 1 =>
       \/ \E p \in Presses : ServedFor(p, n) /\ press[p].pc = "delete"
       \/ ~notices[n].cached /\ \A p \in Presses : ServedFor(p, n) => press[p].pc # "call"

NoticesInv ==
  /\ ShapeOK
  /\ \A n \in DOMAIN notices : n \in excused \/ SettledOnce(n)

\* Initially no notification exists.
LEMMA NoticesInitInv == DiffInit => NoticesInv
<1> SUFFICES ASSUME DiffInit PROVE NoticesInv
  OBVIOUS
<1>1. notices = <<>> /\ calls = <<>> /\ press = [p \in Presses |-> Idle]
  BY DEF DiffInit
<1>2. QED BY <1>1 DEF NoticesInv, ShapeOK, SettledOnce, ServedFor

\* A step that concerns no notification and no press.
ButtonsAlone == UNCHANGED <<notices, press, calls, excused>>

\* Steps that leave notifications, presses and calls alone keep the invariant.
LEMMA AloneKeeps ==
  ASSUME NoticesInv, ButtonsAlone
  PROVE  NoticesInv'
BY DEF NoticesInv, ButtonsAlone, ShapeOK, IsNotice, IsPress, SettledOnce, ServedFor

\* What Append makes of a sequence whose elements have no common type.
LEMMA Appending ==
  ASSUME NEW s, NEW e, Len(s) \in Nat, s = [n \in 1 .. Len(s) |-> s[n]]
  PROVE  Append(s, e) = [n \in 1 .. Len(s) + 1 |-> IF n = Len(s) + 1 THEN e ELSE s[n]]
<1> DEFINE T == {s[n] : n \in 1 .. Len(s)} \cup {e}
           k == Len(s)
           t == Append(s, e)
<1>1. k \in Nat /\ s = [n \in 1 .. k |-> s[n]]
  OBVIOUS
<1>2. e \in T /\ \A n \in 1 .. k : s[n] \in T
  OBVIOUS
<1> HIDE DEF T
<1>3. s \in Seq(T)
  <2> HIDE DEF k
  <2>1. s \in [1 .. k -> T]
    BY <1>1, <1>2
  <2>2. QED BY <1>1, <2>1
<1>4. /\ t \in Seq(T) /\ Len(t) = k + 1
      /\ \A n \in 1 .. k : t[n] = s[n]
      /\ t[k + 1] = e
  BY <1>1, <1>2, <1>3, AppendProperties
<1> HIDE DEF k, t
<1>5. t \in [1 .. (k + 1) -> T]
  <2>1. \A S, x : x \in Seq(S) => x \in [1 .. Len(x) -> S]
    OBVIOUS
  <2>2. QED BY <1>4, <2>1, Zenon
<1>6. t = [n \in 1 .. k + 1 |-> IF n = k + 1 THEN e ELSE s[n]]
  <2>1. \A n \in 1 .. (k + 1) : n \in 1 .. k \/ n = k + 1
    BY <1>1
  <2>2. \A n \in 1 .. (k + 1) : t[n] = IF n = k + 1 THEN e ELSE s[n]
    BY <1>1, <1>4, <2>1
  <2>3. QED BY <1>5, <2>2
<1>7. QED BY <1>6 DEF k, t

\* A new notification has not been sent, called for or served.
LEMMA RelayKeeps ==
  ASSUME NoticesInv, Relay
  PROVE  NoticesInv'
<1>1. PICK w : notices' = Append(notices, w) /\ IsNotice(w) /\ w.messages = 0
  <2>1. PICK i \in DOMAIN stream \ passed : notices' = Append(notices, [row |-> stream[i], cached |-> FALSE, messages |-> 0, open |-> {}])
    BY DEF Relay
  <2>2. IsNotice([row |-> stream[i], cached |-> FALSE, messages |-> 0, open |-> {}])
    BY DEF IsNotice
  <2>3. QED BY <2>1, <2>2
<1>2. calls' = Append(calls, 0) /\ UNCHANGED <<press, excused>>
  BY DEF Relay
<1> DEFINE k == Len(notices)
<1>3. k \in Nat /\ notices = [n \in 1 .. k |-> notices[n]] /\ calls \in [1 .. k -> Nat]
      /\ DOMAIN notices = 1 .. k
  BY DEF NoticesInv, ShapeOK
<1>4. Len(calls) = k /\ calls = [n \in 1 .. k |-> calls[n]]
  BY <1>3
<1> HIDE DEF k
<1>5. /\ notices' = [n \in 1 .. k + 1 |-> IF n = k + 1 THEN w ELSE notices[n]]
      /\ calls' = [n \in 1 .. k + 1 |-> IF n = k + 1 THEN 0 ELSE calls[n]]
  <2>1. Len(notices) = k
    BY DEF k
  <2>2. notices' = [n \in 1 .. k + 1 |-> IF n = k + 1 THEN w ELSE notices[n]]
    BY <1>1, <1>3, <2>1, Appending
  <2>3. calls' = [n \in 1 .. k + 1 |-> IF n = k + 1 THEN 0 ELSE calls[n]]
    BY <1>2, <1>3, <1>4, Appending
  <2>4. QED BY <2>2, <2>3
<1>6. Len(notices)' = k + 1 /\ DOMAIN notices' = 1 .. k + 1
  BY <1>3, <1>5
<1>7. /\ \A n \in 1 .. k : notices'[n] = notices[n] /\ calls'[n] = calls[n]
      /\ notices'[k + 1] = w /\ calls'[k + 1] = 0
  BY <1>3, <1>5
<1>8. \A p \in Presses : press[p] = Idle \/ (IsPress(press[p]) /\ press[p].event \in 1 .. k)
  BY <1>3 DEF NoticesInv, ShapeOK, IsPress
<1>9. ShapeOK'
  <2>1. calls' \in [1 .. k + 1 -> Nat]
    BY <1>3, <1>5
  <2>2. \A n \in 1 .. k + 1 : IsNotice(notices'[n])
    BY <1>1, <1>3, <1>7 DEF NoticesInv, ShapeOK
  <2>3. \A p \in Presses : press'[p] = Idle \/ IsPress(press[p])'
    BY <1>2, <1>3, <1>6, <1>7, <1>8 DEF IsPress
  <2>4. \A n \in 1 .. k + 1 : calls'[n] > 0 => notices'[n].messages > 0
    BY <1>3, <1>7 DEF NoticesInv, ShapeOK
  <2>5. press' = [p \in Presses |-> press'[p]]
    BY <1>2 DEF NoticesInv, ShapeOK
  <2>6. notices' = [n \in 1 .. k + 1 |-> notices'[n]]
    BY <1>3, <1>5
  <2>7. \A n \in DOMAIN notices' : IsNotice(notices[n])'
    BY <1>6, <2>2 DEF IsNotice
  <2>8. QED BY <1>3, <1>6, <2>1, <2>3, <2>4, <2>5, <2>6, <2>7 DEF ShapeOK
<1>10. ASSUME NEW n \in 1 .. k + 1 PROVE n \in excused' \/ SettledOnce(n)'
  <2>1. CASE n = k + 1
    BY <1>2, <1>3, <1>7, <1>8, <2>1 DEF SettledOnce, ServedFor
  <2>2. CASE n \in 1 .. k
    BY <1>2, <1>3, <1>7, <2>2 DEF NoticesInv, SettledOnce, ServedFor
  <2>3. QED BY <1>3, <2>1, <2>2
<1>11. QED BY <1>6, <1>9, <1>10 DEF NoticesInv

\* The notice n becomes w.
LEMMA NoticeBecomes ==
  ASSUME NoticesInv, NEW n \in DOMAIN notices, NEW w, notices' = [notices EXCEPT ![n] = w]
  PROVE  /\ DOMAIN notices' = DOMAIN notices /\ Len(notices)' = Len(notices)
         /\ notices' = [m \in 1 .. Len(notices)' |-> notices'[m]]
         /\ \A m \in DOMAIN notices : notices'[m] = IF m = n THEN w ELSE notices[m]
<1> DEFINE k == Len(notices)
<1>1. k \in Nat /\ notices = [m \in 1 .. k |-> notices[m]] /\ n \in 1 .. k
      /\ DOMAIN notices = 1 .. k
  BY DEF NoticesInv, ShapeOK
<1>2. Len(notices) = k
  OBVIOUS
<1> HIDE DEF k
<1>3. notices' = [m \in 1 .. k |-> IF m = n THEN w ELSE notices[m]]
  BY <1>1
<1>4. QED BY <1>1, <1>2, <1>3

\* The press p becomes w.
LEMMA PressBecomes ==
  ASSUME NoticesInv, NEW p \in Presses, NEW w, press' = [press EXCEPT ![p] = w]
  PROVE  /\ press' = [q \in Presses |-> press'[q]]
         /\ \A q \in Presses : press'[q] = IF q = p THEN w ELSE press[q]
BY DEF NoticesInv, ShapeOK

\* No notice but n is affected by what its buttons or its message do.
LEMMA ShowKeeps ==
  ASSUME NoticesInv, ShowNotice
  PROVE  NoticesInv'
<1>1. \E n \in DOMAIN notices \ seen : \E w :
        /\ notices' = [notices EXCEPT ![n] = w] /\ IsNotice(w) /\ w.messages >= notices[n].messages
        /\ excused' = IF notices[n].messages > 0 THEN excused \cup {n} ELSE excused
  <2>1. PICK n \in DOMAIN notices \ seen :
          LET kept == [notices[n] EXCEPT !.cached = TRUE]
              sent == [kept EXCEPT !.messages = @ + 1, !.open = @ \cup {notices[n].messages + 1}]
          IN  /\ notices' \in {[notices EXCEPT ![n] = kept], [notices EXCEPT ![n] = sent]}
              /\ excused' = IF notices[n].messages > 0 THEN excused \cup {n} ELSE excused
    BY DEF ShowNotice
  <2> DEFINE kept == [notices[n] EXCEPT !.cached = TRUE]
             sent == [kept EXCEPT !.messages = @ + 1, !.open = @ \cup {notices[n].messages + 1}]
  <2>2. IsNotice(notices[n])
    BY DEF NoticesInv, ShapeOK
  <2>3. IsNotice(kept) /\ kept.messages = notices[n].messages
    BY <2>2 DEF IsNotice
  <2>4. IsNotice(sent) /\ sent.messages = notices[n].messages + 1
    <3> DEFINE k == notices[n].messages
               S == notices[n].open \cup {k + 1}
    <3>1. k \in Nat /\ k + 1 \in Nat /\ k + 1 > 0
      BY <2>2 DEF IsNotice
    <3> DEFINE more == [kept EXCEPT !.messages = k + 1]
    <3>2. sent = [more EXCEPT !.open = S]
      BY <2>3 DEF IsNotice
    <3> HIDE DEF kept
    <3>3. more \in [row : {kept.row}, cached : BOOLEAN, messages : {k + 1}, open : {kept.open}]
      BY <2>3, <3>1 DEF IsNotice
    <3> HIDE DEF more, S
    <3>4. sent \in [row : {kept.row}, cached : BOOLEAN, messages : {k + 1}, open : {S}]
      BY <3>2, <3>3
    <3> HIDE DEF k, sent
    <3>5. sent.messages = k + 1 /\ IsNotice(sent)
      BY <3>1, <3>4 DEF IsNotice
    <3>6. QED BY <3>5 DEF k
  <2>5. notices[n].messages \in Nat
    BY <2>2 DEF IsNotice
  <2>6. notices' = [notices EXCEPT ![n] = kept] \/ notices' = [notices EXCEPT ![n] = sent]
    BY <2>1
  <2> HIDE DEF kept, sent
  <2>7. kept.messages >= notices[n].messages /\ sent.messages >= notices[n].messages
    BY <2>3, <2>4, <2>5
  <2>8. CASE notices' = [notices EXCEPT ![n] = kept]
    BY <2>1, <2>3, <2>7, <2>8
  <2>9. CASE notices' = [notices EXCEPT ![n] = sent]
    BY <2>1, <2>4, <2>7, <2>9
  <2>10. QED BY <2>6, <2>8, <2>9
<1>9. PICK n \in DOMAIN notices \ seen : \E w :
        /\ notices' = [notices EXCEPT ![n] = w] /\ IsNotice(w) /\ w.messages >= notices[n].messages
        /\ excused' = IF notices[n].messages > 0 THEN excused \cup {n} ELSE excused
  BY <1>1
<1>10. PICK w :
        /\ notices' = [notices EXCEPT ![n] = w] /\ IsNotice(w) /\ w.messages >= notices[n].messages
        /\ excused' = IF notices[n].messages > 0 THEN excused \cup {n} ELSE excused
  BY <1>9
<1>2. UNCHANGED <<press, calls>>
  BY DEF ShowNotice
<1>3. /\ DOMAIN notices' = DOMAIN notices /\ Len(notices)' = Len(notices)
      /\ notices' = [m \in 1 .. Len(notices)' |-> notices'[m]]
      /\ \A m \in DOMAIN notices : notices'[m] = IF m = n THEN w ELSE notices[m]
  BY <1>10, NoticeBecomes
<1>4. \A m \in DOMAIN notices : IsNotice(notices[m]) /\ notices'[m].messages >= notices[m].messages
  BY <1>10, <1>3 DEF NoticesInv, ShapeOK, IsNotice
<1>5. \A m \in DOMAIN notices : notices[m].messages > 0 => notices'[m].messages > 0
  BY <1>10, <1>3, <1>4 DEF IsNotice
<1>6. ShapeOK'
  <2>1. \A m \in DOMAIN notices' : IsNotice(notices[m])'
    BY <1>10, <1>3, <1>4 DEF IsNotice
  <2>2. \A p \in Presses : (press[p] = Idle \/ IsPress(press[p]))'
    BY <1>2, <1>3, <1>5 DEF NoticesInv, ShapeOK, IsPress
  <2>3. QED BY <1>2, <1>3, <1>5, <2>1, <2>2 DEF NoticesInv, ShapeOK
<1>7. ASSUME NEW m \in DOMAIN notices, m \notin excused' PROVE SettledOnce(m)'
  <2>1. SettledOnce(m)
    BY <1>10, <1>7 DEF NoticesInv
  <2>2. CASE m = n
    <3>1. ~(notices[n].messages > 0)
      BY <1>10, <1>7, <2>2
    <3>2. calls[n] = 0
      BY <3>1 DEF NoticesInv, ShapeOK
    <3>3. QED BY <1>2, <2>1, <2>2, <3>2 DEF SettledOnce, ServedFor
  <2>3. CASE m # n
    BY <1>2, <1>3, <2>1, <2>3 DEF SettledOnce, ServedFor
  <2>4. QED BY <2>2, <2>3
<1>8. QED BY <1>3, <1>6, <1>7 DEF NoticesInv

\* A notice whose payload is gone.
LEMMA Uncached ==
  ASSUME NoticesInv, NEW n \in DOMAIN notices, notices' = [notices EXCEPT ![n].cached = FALSE]
  PROVE  \E w : /\ notices' = [notices EXCEPT ![n] = w] /\ IsNotice(w)
                /\ ~w.cached /\ w.messages = notices[n].messages
<1> DEFINE w == [notices[n] EXCEPT !.cached = FALSE]
<1>1. notices' = [notices EXCEPT ![n] = w]
  BY DEF NoticesInv, ShapeOK
<1>2. IsNotice(notices[n])
  BY DEF NoticesInv, ShapeOK
<1>3. IsNotice(w) /\ w.messages = notices[n].messages /\ ~w.cached
  BY <1>2 DEF IsNotice
<1> HIDE DEF w
<1>4. QED BY <1>1, <1>3

\* A payload that expires only takes a chance to call away.
LEMMA ExpireKeeps ==
  ASSUME NoticesInv, NEW n \in DOMAIN notices, Expire(n)
  PROVE  NoticesInv'
<1>1. UNCHANGED <<press, calls, excused>>
  BY DEF Expire
<1>2. PICK w : notices' = [notices EXCEPT ![n] = w] /\ IsNotice(w) /\ ~w.cached /\ w.messages = notices[n].messages
  BY Uncached DEF Expire
<1>3. IsNotice(w) /\ w.messages = notices[n].messages /\ ~w.cached
  BY <1>2
<1>4. /\ DOMAIN notices' = DOMAIN notices /\ Len(notices)' = Len(notices)
      /\ notices' = [m \in 1 .. Len(notices)' |-> notices'[m]]
      /\ \A m \in DOMAIN notices : notices'[m] = IF m = n THEN w ELSE notices[m]
  BY <1>2, NoticeBecomes
<1>5. ShapeOK'
  <2>1. \A m \in DOMAIN notices' : IsNotice(notices[m])'
    BY <1>3, <1>4 DEF NoticesInv, ShapeOK, IsNotice
  <2>2. \A p \in Presses : (press[p] = Idle \/ IsPress(press[p]))'
    BY <1>1, <1>3, <1>4 DEF NoticesInv, ShapeOK, IsPress
  <2>3. \A m \in DOMAIN notices' : calls'[m] > 0 => notices'[m].messages > 0
    BY <1>1, <1>3, <1>4 DEF NoticesInv, ShapeOK
  <2>4. QED BY <1>1, <1>4, <2>1, <2>2, <2>3 DEF NoticesInv, ShapeOK
<1>6. \A m \in DOMAIN notices : SettledOnce(m) => SettledOnce(m)'
  BY <1>1, <1>3, <1>4 DEF SettledOnce, ServedFor
<1>7. QED BY <1>1, <1>4, <1>5, <1>6 DEF NoticesInv

\* A press is taken up.
LEMMA PressKeeps ==
  ASSUME NoticesInv, NEW p \in Presses, NEW n \in DOMAIN notices, NEW k \in {1, 2},
         NEW action \in {"sheet", "internal", "skip"}, Press(p, n, k, action)
  PROVE  NoticesInv'
<1> DEFINE w == [pc |-> IF action = "skip" THEN "delete" ELSE "get", event |-> n, message |-> k, action |-> action]
<1>1. /\ press' = [press EXCEPT ![p] = w] /\ UNCHANGED <<notices, calls>> /\ press[p] = Idle
      /\ notices[n].open # {}
      /\ excused' = IF \E q \in Presses \ {p} : press[q] # Idle /\ press[q].event = n
                    THEN excused \cup {n} ELSE excused
  BY DEF Press
<1>2. IsPress(w) /\ w.event = n /\ w.pc # "call"
  BY <1>1 DEF NoticesInv, ShapeOK, IsNotice, IsPress
<1> HIDE DEF w
<1>3. /\ press' = [q \in Presses |-> press'[q]]
      /\ \A q \in Presses : press'[q] = IF q = p THEN w ELSE press[q]
  BY <1>1, PressBecomes
<1>4. ShapeOK'
  <2>1. \A q \in Presses : (press[q] = Idle \/ IsPress(press[q]))'
    BY <1>1, <1>2, <1>3 DEF NoticesInv, ShapeOK, IsPress
  <2>2. QED BY <1>1, <1>3, <2>1 DEF NoticesInv, ShapeOK, IsNotice
<1>5. ASSUME NEW m \in DOMAIN notices, m \notin excused' PROVE SettledOnce(m)'
  <2>1. SettledOnce(m)
    BY <1>1, <1>5 DEF NoticesInv
  <2>2. m = n => \A q \in Presses \ {p} : ~ServedFor(q, n)
    BY <1>1, <1>5 DEF ServedFor
  <2>3. \A q \in Presses : ServedFor(q, m)' <=> IF q = p THEN m = n ELSE ServedFor(q, m)
    BY <1>2, <1>3 DEF ServedFor, IsPress, Idle
  <2>4. ~ServedFor(p, m)
    BY <1>1 DEF ServedFor
  <2>5. QED BY <1>1, <1>2, <1>3, <2>1, <2>2, <2>3, <2>4 DEF SettledOnce
<1>6. QED BY <1>1, <1>4, <1>5 DEF NoticesInv

\* A press is over.
LEMMA DoneKeeps ==
  ASSUME NoticesInv, NEW p \in Presses, Done(p), UNCHANGED <<notices, calls>>,
         excused \subseteq excused',
         press[p] # Idle => press[p].pc # "delete" \/ press[p].event \in excused'
  PROVE  NoticesInv'
<1>1. press' = [press EXCEPT ![p] = Idle]
  BY DEF Done
<1>2. /\ press' = [q \in Presses |-> press'[q]]
      /\ \A q \in Presses : press'[q] = IF q = p THEN Idle ELSE press[q]
  BY <1>1, PressBecomes
<1>3. ShapeOK'
  BY <1>2 DEF NoticesInv, ShapeOK, IsNotice, IsPress
<1>4. ASSUME NEW m \in DOMAIN notices, m \notin excused' PROVE SettledOnce(m)'
  <2>1. SettledOnce(m)
    BY <1>4 DEF NoticesInv
  <2>2. \A q \in Presses : ServedFor(q, m)' <=> q # p /\ ServedFor(q, m)
    BY <1>2 DEF ServedFor
  <2>3. ServedFor(p, m) => press[p].pc # "delete"
    BY <1>4 DEF ServedFor
  <2>4. QED BY <1>2, <2>1, <2>2, <2>3 DEF SettledOnce
<1>5. QED BY <1>3, <1>4 DEF NoticesInv

\* A press goes on to its next step.
LEMMA GoesOn ==
  ASSUME NoticesInv, NEW p \in Presses, press[p] # Idle,
         NEW place \in {"call", "delete", "buttons"},
         press' = [press EXCEPT ![p].pc = place]
  PROVE  /\ press' = [q \in Presses |-> press'[q]]
         /\ \A q \in Presses : q # p => press'[q] = press[q]
         /\ press'[p].pc = place /\ press'[p].event = press[p].event
         /\ IsPress(press'[p]) /\ press'[p] # Idle
         /\ \A q \in Presses : \A n : (press'[q] # Idle /\ press'[q].event = n) <=> ServedFor(q, n)
<1>1. press' = [press EXCEPT ![p] = [press[p] EXCEPT !.pc = place]]
  BY DEF NoticesInv, ShapeOK
<1>2. IsPress(press[p])
  BY DEF NoticesInv, ShapeOK
<1> DEFINE w == [press[p] EXCEPT !.pc = place]
<1>3. w.pc = place /\ w.event = press[p].event /\ IsPress(w) /\ w # Idle
  BY <1>2 DEF IsPress, Idle
<1> HIDE DEF w
<1>4. /\ press' = [q \in Presses |-> press'[q]]
      /\ \A q \in Presses : press'[q] = IF q = p THEN w ELSE press[q]
  BY <1>1, PressBecomes DEF w
<1>5. QED BY <1>3, <1>4 DEF ServedFor

\* A press that has found the payload is still alone with its notification.
LEMMA GetKeeps ==
  ASSUME NoticesInv, NEW p \in Presses, Get(p)
  PROVE  NoticesInv'
<1>1. press[p].pc = "get" /\ press[p] # Idle /\ UNCHANGED <<notices, calls, excused>>
  BY DEF Get, Idle
<1>2. CASE Done(p)
  BY <1>1, <1>2, DoneKeeps
<1>3. CASE notices[press[p].event].cached /\ press' = [press EXCEPT ![p].pc = "call"]
  <2>1. /\ press' = [q \in Presses |-> press'[q]]
        /\ \A q \in Presses : q # p => press'[q] = press[q]
        /\ press'[p].pc = "call" /\ press'[p].event = press[p].event
        /\ IsPress(press'[p]) /\ press'[p] # Idle
        /\ \A q \in Presses : \A n : (press'[q] # Idle /\ press'[q].event = n) <=> ServedFor(q, n)
    BY <1>1, <1>3, GoesOn
  <2>2. ShapeOK'
    BY <1>1, <2>1 DEF NoticesInv, ShapeOK, IsNotice, IsPress
  <2>3. ASSUME NEW m \in DOMAIN notices, SettledOnce(m) PROVE SettledOnce(m)'
    BY <1>1, <1>3, <2>1, <2>3 DEF SettledOnce, ServedFor
  <2>4. QED BY <1>1, <2>2, <2>3 DEF NoticesInv
<1>4. QED BY <1>2, <1>3 DEF Get

\* The one press on a notification makes the one call, or its event is excused.
LEMMA CallKeeps ==
  ASSUME NoticesInv, NEW p \in Presses, Call(p)
  PROVE  NoticesInv'
<1> DEFINE n == press[p].event
<1>1. press[p].pc = "call" /\ press[p] # Idle /\ UNCHANGED notices
  BY DEF Call, Idle
<1>2. IsPress(press[p]) /\ n \in DOMAIN notices
  BY <1>1 DEF NoticesInv, ShapeOK, IsPress
<1>3. CASE Done(p) /\ UNCHANGED <<calls, excused>>
  BY <1>1, <1>3, DoneKeeps
<1>4. n \in excused \/ (calls[n] = 0 /\ \A q \in Presses : ServedFor(q, n) => q = p)
  <2>1. ASSUME SettledOnce(n) PROVE calls[n] = 0 /\ \A q \in Presses : ServedFor(q, n) => q = p
    <3>1. ServedFor(p, n)
      BY <1>1 DEF ServedFor
    <3>2. calls[n] \in Nat
      BY <1>2 DEF NoticesInv, ShapeOK
    <3>3. QED BY <1>1, <2>1, <3>1, <3>2 DEF SettledOnce
  <2>2. QED BY <1>2, <2>1 DEF NoticesInv
<1>5. notices[n].messages > 0
  BY <1>2 DEF IsPress
<1>6. CASE calls' = [calls EXCEPT ![n] = @ + 1] /\ press' = [press EXCEPT ![p].pc = "delete"]
           /\ UNCHANGED excused
  <2>1. /\ press' = [q \in Presses |-> press'[q]]
        /\ \A q \in Presses : q # p => press'[q] = press[q]
        /\ press'[p].pc = "delete" /\ press'[p].event = press[p].event
        /\ IsPress(press'[p]) /\ press'[p] # Idle
        /\ \A q \in Presses : \A m : (press'[q] # Idle /\ press'[q].event = m) <=> ServedFor(q, m)
    BY <1>1, <1>6, GoesOn
  <2>2. ShapeOK'
    BY <1>1, <1>2, <1>5, <1>6, <2>1 DEF NoticesInv, ShapeOK, IsNotice, IsPress
  <2>3. ASSUME NEW m \in DOMAIN notices, SettledOnce(m), m \notin excused PROVE SettledOnce(m)'
    <3>1. CASE m = n
      <4>1. calls'[m] = 1
        BY <1>2, <1>4, <1>6, <2>3, <3>1 DEF NoticesInv, ShapeOK
      <4>2. QED BY <1>1, <2>1, <2>3, <3>1, <4>1 DEF SettledOnce, ServedFor
    <3>2. CASE m # n
      BY <1>1, <1>6, <2>1, <2>3, <3>2 DEF SettledOnce, ServedFor, NoticesInv, ShapeOK
    <3>3. QED BY <3>1, <3>2
  <2>4. QED BY <1>1, <1>6, <2>2, <2>3 DEF NoticesInv
<1>7. CASE calls' = [calls EXCEPT ![n] = @ + 1] /\ Done(p) /\ excused' = excused \cup {n}
  <2>1. press' = [press EXCEPT ![p] = Idle]
    BY <1>7 DEF Done
  <2>2. /\ press' = [q \in Presses |-> press'[q]]
        /\ \A q \in Presses : press'[q] = IF q = p THEN Idle ELSE press[q]
    BY <2>1, PressBecomes
  <2>3. ShapeOK'
    BY <1>1, <1>2, <1>5, <1>7, <2>2 DEF NoticesInv, ShapeOK, IsNotice, IsPress
  <2>4. ASSUME NEW m \in DOMAIN notices, m \notin excused' PROVE SettledOnce(m)'
    BY <1>1, <1>7, <2>2, <2>4 DEF SettledOnce, ServedFor, NoticesInv, ShapeOK
  <2>5. QED BY <1>1, <2>3, <2>4 DEF NoticesInv
<1>8. QED BY <1>3, <1>6, <1>7 DEF Call

\* After the deletion no later press finds a payload to call with.
LEMMA DeleteKeeps ==
  ASSUME NoticesInv, NEW p \in Presses, Delete(p)
  PROVE  NoticesInv'
<1> DEFINE n == press[p].event
<1>1. press[p].pc = "delete" /\ press[p] # Idle /\ UNCHANGED calls
  BY DEF Delete, Idle
<1>2. IsPress(press[p]) /\ n \in DOMAIN notices
  BY <1>1 DEF NoticesInv, ShapeOK, IsPress
<1>3. CASE Done(p) /\ excused' = excused \cup {n} /\ UNCHANGED notices
  BY <1>1, <1>3, DoneKeeps
<1>4. CASE notices' = [notices EXCEPT ![n].cached = FALSE]
           /\ press' = [press EXCEPT ![p].pc = "buttons"]
           /\ UNCHANGED excused
  <2>1. /\ press' = [q \in Presses |-> press'[q]]
        /\ \A q \in Presses : q # p => press'[q] = press[q]
        /\ press'[p].pc = "buttons" /\ press'[p].event = press[p].event
        /\ IsPress(press'[p]) /\ press'[p] # Idle
        /\ \A q \in Presses : \A m : (press'[q] # Idle /\ press'[q].event = m) <=> ServedFor(q, m)
    BY <1>1, <1>4, GoesOn
  <2>2. PICK w : notices' = [notices EXCEPT ![n] = w] /\ IsNotice(w) /\ ~w.cached /\ w.messages = notices[n].messages
    BY <1>2, <1>4, Uncached
  <2>3. /\ DOMAIN notices' = DOMAIN notices /\ Len(notices)' = Len(notices)
        /\ notices' = [m \in 1 .. Len(notices)' |-> notices'[m]]
        /\ \A m \in DOMAIN notices : notices'[m] = IF m = n THEN w ELSE notices[m]
    BY <1>2, <2>2, NoticeBecomes
  <2>4. ShapeOK'
    <3>1. \A m \in DOMAIN notices' : IsNotice(notices[m])'
      BY <2>2, <2>3 DEF NoticesInv, ShapeOK, IsNotice
    <3>2. \A q \in Presses : (press[q] = Idle \/ IsPress(press[q]))'
      BY <2>1, <2>2, <2>3 DEF NoticesInv, ShapeOK, IsPress
    <3>3. \A m \in DOMAIN notices' : calls'[m] > 0 => notices'[m].messages > 0
      BY <1>1, <2>2, <2>3 DEF NoticesInv, ShapeOK
    <3>4. QED BY <1>1, <2>1, <2>3, <3>1, <3>2, <3>3 DEF NoticesInv, ShapeOK
  <2>5. ASSUME NEW m \in DOMAIN notices, SettledOnce(m) PROVE SettledOnce(m)'
    <3>1. CASE m = n
      <4>1. \A q \in Presses : ServedFor(q, n) => q = p
        BY <1>1, <2>5, <3>1 DEF SettledOnce, ServedFor
      <4>2. QED BY <1>1, <2>1, <2>2, <2>3, <2>5, <3>1, <4>1 DEF SettledOnce, ServedFor
    <3>2. CASE m # n
      BY <1>1, <2>1, <2>3, <2>5, <3>2 DEF SettledOnce, ServedFor
    <3>3. QED BY <3>1, <3>2
  <2>6. QED BY <1>4, <2>3, <2>4, <2>5 DEF NoticesInv
<1>5. QED BY <1>3, <1>4 DEF Delete

\* Removing buttons ends a press whose payload is deleted already.
LEMMA RemoveKeeps ==
  ASSUME NoticesInv, NEW p \in Presses, RemoveButtons(p)
  PROVE  NoticesInv'
<1> DEFINE n == press[p].event
<1>1. press[p].pc = "buttons" /\ press[p] # Idle /\ Done(p) /\ UNCHANGED <<calls, excused>>
  BY DEF RemoveButtons, Idle
<1>2. IsPress(press[p]) /\ n \in DOMAIN notices
  BY <1>1 DEF NoticesInv, ShapeOK, IsPress
<1>3. CASE UNCHANGED notices
  BY <1>1, <1>3, DoneKeeps
<1>4. CASE notices' = [notices EXCEPT ![n].open = @ \ {press[p].message}]
  <2>1. press' = [press EXCEPT ![p] = Idle]
    BY <1>1 DEF Done
  <2>2. /\ press' = [q \in Presses |-> press'[q]]
        /\ \A q \in Presses : press'[q] = IF q = p THEN Idle ELSE press[q]
    BY <2>1, PressBecomes
  <2>3. PICK w : /\ notices' = [notices EXCEPT ![n] = w] /\ IsNotice(w)
                 /\ w.cached = notices[n].cached /\ w.messages = notices[n].messages
    <3> DEFINE S == notices[n].open \ {press[p].message}
               w == [notices[n] EXCEPT !.open = S]
    <3>1. notices' = [notices EXCEPT ![n] = w]
      BY <1>2, <1>4 DEF NoticesInv, ShapeOK
    <3>2. IsNotice(notices[n]) /\ S \subseteq notices[n].open
      BY <1>2 DEF NoticesInv, ShapeOK
    <3> HIDE DEF S
    <3>3. IsNotice(w) /\ w.cached = notices[n].cached /\ w.messages = notices[n].messages
      BY <3>2 DEF IsNotice
    <3> HIDE DEF w
    <3>4. QED BY <3>1, <3>3
  <2>4. /\ DOMAIN notices' = DOMAIN notices /\ Len(notices)' = Len(notices)
        /\ notices' = [m \in 1 .. Len(notices)' |-> notices'[m]]
        /\ \A m \in DOMAIN notices : notices'[m] = IF m = n THEN w ELSE notices[m]
    BY <1>2, <2>3, NoticeBecomes
  <2>5. ShapeOK'
    <3>1. \A m \in DOMAIN notices' : IsNotice(notices[m])'
      BY <2>3, <2>4 DEF NoticesInv, ShapeOK, IsNotice
    <3>2. \A q \in Presses : (press[q] = Idle \/ IsPress(press[q]))'
      BY <2>2, <2>3, <2>4 DEF NoticesInv, ShapeOK, IsPress
    <3>3. \A m \in DOMAIN notices' : calls'[m] > 0 => notices'[m].messages > 0
      BY <1>1, <2>3, <2>4 DEF NoticesInv, ShapeOK
    <3>4. QED BY <1>1, <2>2, <2>4, <3>1, <3>2, <3>3 DEF NoticesInv, ShapeOK
  <2>6. ASSUME NEW m \in DOMAIN notices, SettledOnce(m) PROVE SettledOnce(m)'
    <3>1. \A q \in Presses : ServedFor(q, m)' <=> q # p /\ ServedFor(q, m)
      BY <2>2 DEF ServedFor
    <3>2. notices'[m].cached = notices[m].cached
      BY <2>3, <2>4
    <3>3. QED BY <1>1, <2>2, <2>6, <3>1, <3>2 DEF SettledOnce
  <2>7. QED BY <1>1, <2>4, <2>5, <2>6 DEF NoticesInv
<1>5. QED BY <1>3, <1>4 DEF RemoveButtons

\* Every step keeps the invariant.
LEMMA NoticesNextInv == NoticesInv /\ [DiffNext]_diffVars => NoticesInv'
<1> SUFFICES ASSUME NoticesInv, [DiffNext]_diffVars PROVE NoticesInv'
  OBVIOUS
<1>1. CASE (\E r \in SheetRows : EditRow(r)) \/ Import \/ StartRun \/ Diff \/ Publish \/ NextRange \/ EndRun \/ UNCHANGED diffVars
  <2>1. ButtonsAlone
    BY <1>1
       DEF EditRow, Import, StartRun, Diff, Publish, NextRange, EndRun, diffVars,
           ButtonsAlone
  <2>2. QED BY <2>1, AloneKeeps
<1>2. CASE Relay
  BY <1>2, RelayKeeps
<1>3. CASE ShowNotice
  BY <1>3, ShowKeeps
<1>4. ASSUME NEW n \in DOMAIN notices, Expire(n) PROVE NoticesInv'
  BY <1>4, ExpireKeeps
<1>5. ASSUME NEW p \in Presses, Get(p) \/ Call(p) \/ Delete(p) \/ RemoveButtons(p) PROVE NoticesInv'
  BY <1>5, GetKeeps, CallKeeps, DeleteKeeps, RemoveKeeps
<1>6. ASSUME NEW p \in Presses, NEW n \in DOMAIN notices, NEW k \in {1, 2},
             NEW action \in {"sheet", "internal", "skip"}, Press(p, n, k, action)
      PROVE NoticesInv'
  BY <1>6, PressKeeps
<1>7. QED BY <1>1, <1>2, <1>3, <1>4, <1>5, <1>6 DEF DiffNext

\* The invariant of the notifications holds in every reachable state.
THEOREM NoticesInvariance == DiffSpec => []NoticesInv
BY NoticesInitInv, NoticesNextInv, PTL DEF DiffSpec

\* The buttons of one notification take a side over once, unless the event is
\* excused (handleApplicationDiffApplySheet, handleApplicationDiffApplyInternal).
THEOREM SettlesOnce == DiffSpec => []AppliedOnce
<1>1. NoticesInv => AppliedOnce
  BY DEF NoticesInv, ShapeOK, SettledOnce, AppliedOnce
<1>2. QED BY <1>1, NoticesInvariance, PTL

-------------------------------------------------------------------------------
(* A run of the job: what is still to come, in hand, reported or failed *)

\* Ranges that follow each other downwards from row top to the first row.
Chain(rs, top) ==
  /\ rs \in Seq(Int \X Int) /\ top \in Int
  /\ rs = <<>> => top < MinSheetRow
  /\ rs # <<>> => rs[1][2] = top /\ rs[Len(rs)][1] = MinSheetRow
  /\ \A i \in 1 .. Len(rs) : rs[i][1] <= rs[i][2]
  /\ \A i \in 1 .. Len(rs) - 1 : rs[i + 1][2] = rs[i][1] - 1

\* Without its first range a chain reaches to the row below that range.
LEMMA ChainTail ==
  ASSUME NEW rs, NEW top, Chain(rs, top), rs # <<>>
  PROVE  /\ Head(rs) = rs[1] /\ rs[1] \in Int \X Int /\ rs[1][2] = top /\ rs[1][1] <= top
         /\ Chain(Tail(rs), rs[1][1] - 1)
<1>1. rs \in Seq(Int \X Int) /\ Len(rs) \in Nat /\ Len(rs) > 0
  BY EmptySeq DEF Chain
<1>2. /\ Head(rs) = rs[1] /\ Tail(rs) \in Seq(Int \X Int) /\ Len(Tail(rs)) = Len(rs) - 1
      /\ \A i \in 1 .. Len(rs) - 1 : Tail(rs)[i] = rs[i + 1]
  BY <1>1, HeadTailProperties
<1>3. \A i \in 1 .. Len(rs) : rs[i] \in Int \X Int
  BY <1>1
<1>4. rs[1] \in Int \X Int /\ rs[1][1] \in Int /\ rs[1][2] = top /\ rs[1][1] <= top
  BY <1>1, <1>3 DEF Chain
<1>5. Tail(rs) = <<>> => rs[1][1] = MinSheetRow
  <2> DEFINE t == Tail(rs)
  <2>1. Len(t) = Len(rs) - 1
    BY <1>2
  <2> HIDE DEF t
  <2>2. t = <<>> => Len(t) = 0
    OBVIOUS
  <2>3. t = <<>> => Len(rs) = 1
    BY <1>1, <2>1, <2>2
  <2>4. t = <<>> => rs[1][1] = MinSheetRow
    BY <1>1, <2>3 DEF Chain
  <2>5. QED BY <2>4 DEF t
<1>6. Tail(rs) # <<>> => Len(rs) > 1
  BY <1>1, <1>2, EmptySeq
<1> DEFINE t == Tail(rs)
<1>7. /\ t # <<>> => Len(rs) > 1
      /\ t = <<>> => rs[1][1] = MinSheetRow
  BY <1>5, <1>6
<1>8. t \in Seq(Int \X Int) /\ Len(t) = Len(rs) - 1
  BY <1>2
<1>9. \A i \in 1 .. Len(rs) - 1 : t[i] = rs[i + 1]
  BY <1>2
<1> HIDE DEF t
<1>10. t # <<>> => t[1][2] = rs[1][1] - 1 /\ t[Len(t)][1] = MinSheetRow
  <2> SUFFICES ASSUME t # <<>> PROVE t[1][2] = rs[1][1] - 1 /\ t[Len(t)][1] = MinSheetRow
    OBVIOUS
  <2>1. /\ 1 \in 1 .. Len(rs) - 1 /\ Len(rs) - 1 \in 1 .. Len(rs) - 1
        /\ 1 + 1 = 2 /\ (Len(rs) - 1) + 1 = Len(rs)
    BY <1>1, <1>7
  <2>2. t[1] = rs[1 + 1] /\ t[Len(t)] = rs[(Len(rs) - 1) + 1]
    BY <1>8, <1>9, <2>1
  <2>3. rs[1 + 1][2] = rs[1][1] - 1 /\ rs[Len(rs)][1] = MinSheetRow
    BY <2>1 DEF Chain
  <2>4. QED BY <2>1, <2>2, <2>3
<1>11. \A i \in 1 .. Len(t) : t[i][1] <= t[i][2]
  <2> SUFFICES ASSUME NEW i \in 1 .. Len(t) PROVE t[i][1] <= t[i][2]
    OBVIOUS
  <2>1. i \in 1 .. Len(rs) - 1 /\ i + 1 \in 1 .. Len(rs)
    BY <1>1, <1>8
  <2>2. QED BY <1>9, <2>1 DEF Chain
<1>12. \A i \in 1 .. Len(t) - 1 : t[i + 1][2] = t[i][1] - 1
  <2> SUFFICES ASSUME NEW i \in 1 .. Len(t) - 1 PROVE t[i + 1][2] = t[i][1] - 1
    OBVIOUS
  <2>1. i \in 1 .. Len(rs) - 1 /\ i + 1 \in 1 .. Len(rs) - 1
    BY <1>1, <1>8
  <2>2. t[i] = rs[i + 1] /\ t[i + 1] = rs[(i + 1) + 1]
    BY <1>9, <2>1
  <2>3. rs[(i + 1) + 1][2] = rs[i + 1][1] - 1
    BY <2>1 DEF Chain
  <2>4. QED BY <2>2, <2>3
<1>13. Chain(t, rs[1][1] - 1)
  <2> DEFINE below == rs[1][1] - 1
  <2>1. below \in Int
    BY <1>4
  <2>2. t = <<>> => below < MinSheetRow
    BY <1>4, <1>7 DEF MinSheetRow
  <2>3. t # <<>> => t[1][2] = below /\ t[Len(t)][1] = MinSheetRow
    BY <1>10
  <2> HIDE DEF below
  <2>4. Chain(t, below)
    <3>1. t \in Seq(Int \X Int)
      BY <1>8
    <3>2. QED BY ONLY <3>1, <2>1, <2>2, <2>3, <1>11, <1>12, Zenon DEF Chain
  <2>5. QED BY <2>4 DEF below
<1>14. QED BY <1>2, <1>4, <1>13 DEF t

\* A range on top of a chain makes a longer chain.
LEMMA ChainCons ==
  ASSUME NEW rs, NEW a \in Int, NEW b \in Int, MinSheetRow <= a, a <= b, Chain(rs, a - 1)
  PROVE  Chain(<<<<a, b>>>> \o rs, b)
<1> DEFINE p == <<a, b>>
           t == <<p>> \o rs
<1>1. p \in Int \X Int /\ p[1] = a /\ p[2] = b
  OBVIOUS
<1> HIDE DEF p
<1>2. <<p>> \in Seq(Int \X Int) /\ Len(<<p>>) = 1 /\ <<p>>[1] = p
  BY <1>1
<1>3. rs \in Seq(Int \X Int) /\ Len(rs) \in Nat
  BY DEF Chain
<1>4. /\ t \in Seq(Int \X Int) /\ Len(t) = Len(rs) + 1
      /\ \A i \in 1 .. Len(rs) + 1 : t[i] = IF i <= 1 THEN <<p>>[i] ELSE rs[i - 1]
  BY <1>2, <1>3, ConcatProperties
<1> HIDE DEF t
<1>5. t[1] = p /\ \A i \in 1 .. Len(rs) : t[i + 1] = rs[i]
  <2>1. t[1] = p
    BY <1>2, <1>3, <1>4
  <2>2. ASSUME NEW i \in 1 .. Len(rs) PROVE t[i + 1] = rs[i]
    <3>1. i + 1 \in 1 .. Len(rs) + 1 /\ ~(i + 1 <= 1) /\ (i + 1) - 1 = i
      BY <1>3
    <3>2. QED BY <1>4, <3>1
  <2>3. QED BY <2>1, <2>2
<1>6. t # <<>>
  BY <1>3, <1>4
<1>7. t[Len(t)][1] = MinSheetRow
  <2>1. CASE rs = <<>>
    BY <1>1, <1>4, <1>5, <2>1 DEF Chain, MinSheetRow
  <2>2. CASE rs # <<>>
    <3>1. Len(rs) \in 1 .. Len(rs)
      BY <1>3, <2>2, EmptySeq
    <3>2. QED BY <1>4, <1>5, <2>2, <3>1 DEF Chain
  <2>3. QED BY <2>1, <2>2
<1>8. \A i \in 1 .. Len(t) : i = 1 \/ (i - 1 \in 1 .. Len(rs) /\ t[i] = rs[i - 1])
  BY <1>3, <1>4, <1>5
<1>9. \A i \in 1 .. Len(t) : t[i][1] <= t[i][2]
  BY <1>1, <1>5, <1>8 DEF Chain
<1>10. \A i \in 1 .. Len(t) - 1 : t[i + 1][2] = t[i][1] - 1
  <2>1. ASSUME NEW i \in 1 .. Len(rs) PROVE rs[i][2] = t[i][1] - 1
    <3>1. CASE i = 1
      <4>1. rs # <<>>
        BY <1>3, <2>1
      <4>2. QED BY <1>1, <1>5, <3>1, <4>1 DEF Chain
    <3>2. CASE i # 1
      <4>1. i - 1 \in 1 .. Len(rs) - 1 /\ i \in 1 .. Len(t) /\ (i - 1) + 1 = i
        BY <1>3, <1>4, <2>1, <3>2
      <4>2. t[i] = rs[i - 1] /\ rs[i][2] = rs[i - 1][1] - 1
        BY <1>8, <3>2, <4>1 DEF Chain
      <4>3. QED BY <4>2
    <3>3. QED BY <3>1, <3>2
  <2>2. \A i \in 1 .. Len(rs) : t[i + 1][2] = rs[i][2]
    BY <1>5
  <2>3. 1 .. Len(t) - 1 = 1 .. Len(rs)
    BY <1>3, <1>4
  <2>4. QED BY <2>1, <2>2, <2>3
<1>11. QED BY <1>1, <1>4, <1>5, <1>6, <1>7, <1>9, <1>10 DEF Chain, t, p

\* Every number has what zero has and each number passes on to the next one.
LEMMA NumbersAll ==
  ASSUME NEW B, 0 \in B, \A n \in Nat : n \in B => n + 1 \in B
  PROVE  Nat \subseteq B
<1> SUFFICES ASSUME NEW k \in Nat, k \notin B PROVE FALSE
  OBVIOUS
<1>1. PICK m \in Nat \ B : \A x \in Nat \ B : <<x, m>> \notin OpToRel(<, Nat)
  BY NatLessThanWellFounded, WFMin
<1>2. \A x, y \in Nat : x < y => <<x, y>> \in OpToRel(<, Nat)
  BY DEF OpToRel
<1>3. \A x \in Nat \ B : ~(x < m)
  BY <1>1, <1>2, Zenon
<1>4. m # 0
  BY <1>1
<1>5. m - 1 \in Nat /\ m - 1 < m /\ (m - 1) + 1 = m
  BY <1>4
<1>6. m - 1 \in B
  BY <1>3, <1>5
<1>7. QED BY <1>5, <1>6

\* Where a range begins that ends at a row.
StartOf(end) == Max({MinSheetRow, end - RowsPerIteration + 1})

\* A range begins neither above its end nor above the first row.
LEMMA StartIs ==
  ASSUME NEW end \in Int, end >= MinSheetRow
  PROVE  StartOf(end) \in Int /\ MinSheetRow <= StartOf(end) /\ StartOf(end) <= end
<1> DEFINE a == MinSheetRow
           b == end - RowsPerIteration + 1
<1>1. a \in Int /\ b \in Int /\ a <= end /\ b <= end
  BY DiffAssumption DEF DiffAssumption, MinSheetRow
<1> HIDE DEF a, b
<1>2. \E x \in {a, b} : \A y \in {a, b} : x >= y
  BY <1>1
<1>3. Max({a, b}) \in {a, b} /\ Max({a, b}) >= a
  BY <1>2 DEF Max
<1>4. QED BY <1>1, <1>3 DEF StartOf, a, b

\* One step of the recursion of RowRanges.
Unrolled(g, end) ==
  IF end < MinSheetRow THEN <<>> ELSE <<<<StartOf(end), end>>>> \o g[StartOf(end) - 1]

\* The recursion of _build_row_ranges is well-founded: it defines a function.
LEMMA RangesExist ==
  ASSUME NEW last \in Nat
  PROVE  \E g : g = [end \in 0 .. last |-> Unrolled(g, end)]
<1> DEFINE B == {n \in Nat : \E g : g = [end \in 0 .. n |-> Unrolled(g, end)]}
<1>1. 0 \in B
  <2> DEFINE g == [end \in 0 .. 0 |-> <<>>]
  <2>1. g = [end \in 0 .. 0 |-> Unrolled(g, end)]
    BY DEF Unrolled, MinSheetRow
  <2> HIDE DEF g
  <2>2. QED BY <2>1
<1>2. ASSUME NEW n \in Nat, n \in B PROVE n + 1 \in B
  <2>1. PICK g : g = [end \in 0 .. n |-> Unrolled(g, end)]
    BY <1>2
  <2> DEFINE h == [end \in 0 .. n + 1 |-> Unrolled(g, end)]
  <2>2. \A end \in 0 .. n : h[end] = g[end]
    BY <2>1
  <2>3. \A end \in 0 .. n + 1 : end >= MinSheetRow => StartOf(end) - 1 \in 0 .. n
    BY StartIs DEF MinSheetRow
  <2>4. \A end \in 0 .. n + 1 : Unrolled(g, end) = Unrolled(h, end)
    <3> HIDE DEF h
    <3>1. QED BY <2>2, <2>3 DEF Unrolled, MinSheetRow
  <2>5. h = [end \in 0 .. n + 1 |-> Unrolled(h, end)]
    BY <2>4
  <2> HIDE DEF h
  <2>6. QED BY <2>5
<1> HIDE DEF B
<1>3. last \in B
  BY <1>1, <1>2, NumbersAll
<1>4. QED BY <1>3 DEF B

\* The ranges of a run leave no row out and repeat none.
LEMMA RangesChain ==
  ASSUME NEW last \in Nat
  PROVE  Chain(RowRanges(last), last)
<1> DEFINE g == CHOOSE f : f = [end \in 0 .. last |-> Unrolled(f, end)]
<1>1. g = [end \in 0 .. last |-> Unrolled(g, end)]
  BY RangesExist
<1>2. RowRanges(last) = g[last]
  BY DEF RowRanges, Unrolled, StartOf
<1> HIDE DEF g
<1> DEFINE B == {n \in Nat : \A end \in 0 .. last : end <= n => Chain(g[end], end)}
<1>3. ASSUME NEW n \in Nat, \A end \in 0 .. last : end < n => Chain(g[end], end), n <= last
      PROVE  Chain(g[n], n)
  <2>1. g[n] = Unrolled(g, n)
    BY <1>1, <1>3
  <2>2. CASE n < MinSheetRow
    <3>1. g[n] = <<>>
      BY <2>1, <2>2 DEF Unrolled
    <3>2. <<>> \in Seq(Int \X Int) /\ Len(<<>>) = 0
      OBVIOUS
    <3>3. QED BY <2>2, <3>1, <3>2 DEF Chain
  <2>3. CASE ~(n < MinSheetRow)
    <3>1. StartOf(n) \in Int /\ MinSheetRow <= StartOf(n) /\ StartOf(n) <= n
      BY <2>3, StartIs DEF MinSheetRow
    <3>2. Chain(g[StartOf(n) - 1], StartOf(n) - 1)
      BY <1>3, <3>1 DEF MinSheetRow
    <3>3. g[n] = <<<<StartOf(n), n>>>> \o g[StartOf(n) - 1]
      BY <2>1, <2>3 DEF Unrolled
    <3>4. QED BY <3>1, <3>2, <3>3, ChainCons
  <2>4. QED BY <2>2, <2>3
<1>4. 0 \in B
  BY <1>3
<1>5. ASSUME NEW n \in Nat, n \in B PROVE n + 1 \in B
  <2>1. \A end \in 0 .. last : end < n + 1 => Chain(g[end], end)
    BY <1>5
  <2>2. n + 1 <= last => Chain(g[n + 1], n + 1)
    BY <1>3, <2>1
  <2>3. QED BY <2>1, <2>2
<1> HIDE DEF B
<1>6. last \in B
  BY <1>4, <1>5, NumbersAll
<1>7. QED BY <1>2, <1>6 DEF B

\* A run in progress whose remaining ranges reach from row top to the first one.
\* What differed all along is still to come, in hand, reported or failed.
JobOK(j, top) ==
  /\ j \in [pc : {"diff", "publish"}, ranges : {j.ranges}, entries : {j.entries}, steady : {j.steady},
            reported : Seq(Int), failed : {j.failed}]
  /\ Chain(j.ranges, top)
  /\ \A r \in j.entries : r \in Int /\ r > top
  /\ j.pc = "diff" => j.entries = {}
  /\ \A i, k \in 1 .. Len(j.reported) : j.reported[i] = j.reported[k] => i = k
  /\ \A i \in 1 .. Len(j.reported) : j.reported[i] > top /\ j.reported[i] \notin j.entries
  /\ \A r \in j.steady : \/ r <= top
                          \/ r \in j.entries \cup j.failed
                          \/ \E i \in 1 .. Len(j.reported) : j.reported[i] = r

\* A complete row of the sheet that holds something else than the database.
Differs(r) == inSheet[r] \in Values /\ inSheet[r] # inDb[r]

\* The rows that have differed since the run began still do.
SteadyOK(j) == \A r \in j.steady : r \in SheetRows /\ r <= imported /\ Differs(r)

\* The rows have their shape.
RowsOK ==
  /\ inSheet = [r \in SheetRows |-> inSheet[r]] /\ inDb = [r \in SheetRows |-> inDb[r]]
  /\ imported \in {LastSheetRow - 1, LastSheetRow}

RunInv ==
  /\ RowsOK
  /\ job = Idle \/ (SteadyOK(job) /\ \E top \in Int : JobOK(job, top))

\* Initially no run is under way.
LEMMA RunInitInv == DiffInit => RunInv
BY DEF DiffInit, RunInv, RowsOK

\* Rows may change while a run is under way: those that do leave its steady ones.
LEMMA RowsMove ==
  ASSUME RunInv, NEW X, RowsOK', imported' >= imported,
         job' = IF job = Idle THEN Idle ELSE [job EXCEPT !.steady = @ \ X],
         \A q \in SheetRows \ X : q <= imported => inSheet'[q] = inSheet[q] /\ inDb'[q] = inDb[q]
  PROVE  RunInv'
<1>1. CASE job = Idle
  BY <1>1 DEF RunInv
<1>2. CASE job # Idle
  <2>1. PICK top \in Int : JobOK(job, top)
    BY <1>2 DEF RunInv
  <2> DEFINE S == job.steady \ X
  <2>2. job' = [job EXCEPT !.steady = S]
    BY <1>2, <2>1 DEF JobOK
  <2>3. S \subseteq job.steady /\ S \cap X = {}
    OBVIOUS
  <2> HIDE DEF S
  <2>4. /\ job'.pc = job.pc /\ job'.ranges = job.ranges /\ job'.entries = job.entries
        /\ job'.steady = S /\ job'.reported = job.reported /\ job'.failed = job.failed
        /\ job' \in [pc : {"diff", "publish"}, ranges : {job.ranges}, entries : {job.entries}, steady : {S},
                     reported : Seq(Int), failed : {job.failed}]
    <3>1. job \in [pc : {"diff", "publish"}, ranges : {job.ranges}, entries : {job.entries},
                   steady : {job.steady}, reported : Seq(Int), failed : {job.failed}]
      BY <2>1 DEF JobOK
    <3>2. QED BY <3>1, <2>2
  <2>5. JobOK(job', top)
    <3>1. \A r \in S : \/ r <= top
                      \/ r \in job.entries \cup job.failed
                      \/ \E i \in 1 .. Len(job.reported) : job.reported[i] = r
      BY <2>1, <2>3 DEF JobOK
    <3>2. QED BY <2>1, <2>4, <3>1 DEF JobOK
  <2>6. SteadyOK(job)'
    <3>1. SteadyOK(job)
      BY <1>2 DEF RunInv
    <3>2. ASSUME NEW r \in S PROVE r \in SheetRows /\ r <= imported' /\ Differs(r)'
      <4>1. r \in SheetRows \ X /\ r <= imported /\ Differs(r)
        BY <2>3, <3>1 DEF SteadyOK
      <4>2. r \in Int /\ imported \in Int /\ imported' \in Int
        BY <4>1, DiffAssumption DEF RunInv, RowsOK, SheetRows, DiffAssumption
      <4>3. inSheet'[r] = inSheet[r] /\ inDb'[r] = inDb[r]
        BY <4>1
      <4>4. QED BY <4>1, <4>2, <4>3 DEF Differs
    <3>3. QED BY <2>4, <3>2 DEF SteadyOK
  <2>7. QED BY <2>5, <2>6 DEF RunInv
<1>3. QED BY <1>1, <1>2

\* An edit changes one row.
LEMMA EditMoves ==
  ASSUME RunInv, NEW r \in SheetRows, EditRow(r)
  PROVE  RunInv'
<1>1. UNCHANGED <<inDb, imported>> /\ Agree(r)
      /\ \E content \in RowContents : inSheet' = [inSheet EXCEPT ![r] = content]
  BY DEF EditRow
<1>2. RowsOK' /\ \A q \in SheetRows \ {r} : inSheet'[q] = inSheet[q] /\ inDb'[q] = inDb[q]
  BY <1>1 DEF RunInv, RowsOK
<1>3. imported' >= imported
  BY <1>1, DiffAssumption DEF RunInv, RowsOK, DiffAssumption
<1>4. QED BY <1>1, <1>2, <1>3, RowsMove DEF Agree

\* An import changes rows beyond the last processed one.
LEMMA ImportMoves ==
  ASSUME RunInv, Import
  PROVE  RunInv'
<1> DEFINE none == {}
<1>1. /\ imported < LastSheetRow /\ imported' = LastSheetRow /\ UNCHANGED <<inSheet, job>>
      /\ inDb' = [r \in SheetRows |-> IF r > imported THEN inSheet[r] ELSE inDb[r]]
  BY DEF Import
<1>2. imported \in Int /\ LastSheetRow \in Int
  BY DiffAssumption DEF RunInv, RowsOK, DiffAssumption
<1>3. RowsOK'
  BY <1>1 DEF RunInv, RowsOK
<1>4. ASSUME NEW q \in SheetRows \ none, q <= imported PROVE inSheet'[q] = inSheet[q] /\ inDb'[q] = inDb[q]
  <2>1. q \in Int
    BY <1>2 DEF SheetRows
  <2>2. QED BY <1>1, <1>2, <1>4, <2>1
<1>5. job' = IF job = Idle THEN Idle ELSE [job EXCEPT !.steady = @ \ none]
  <2>1. job # Idle => job = [job EXCEPT !.steady = job.steady]
    BY DEF RunInv, JobOK
  <2>2. job.steady \ none = job.steady
    OBVIOUS
  <2>3. job # Idle => [job EXCEPT !.steady = @ \ none] = [job EXCEPT !.steady = job.steady]
    BY <2>2 DEF RunInv, JobOK
  <2>4. QED BY <1>1, <2>1, <2>3
<1> HIDE DEF none
<1>6. imported' >= imported
  BY <1>1, <1>2
<1>7. QED BY <1>6, <1>3, <1>4, <1>5, RowsMove

\* A pressed button makes the two sides of one row equal.
LEMMA CallMoves ==
  ASSUME RunInv, NEW p \in Presses, Call(p)
  PROVE  RunInv'
<1> DEFINE r == notices[press[p].event].row
<1>1. UNCHANGED imported
  BY DEF Call
<1>2. CASE UNCHANGED <<inSheet, inDb, job>>
  BY <1>1, <1>2 DEF RunInv, RowsOK, SteadyOK, JobOK, Differs
<1>3. CASE TakeOver(press[p].action, r) /\ Agree(r)
  <2> HIDE DEF r
  <2>1. RowsOK' /\ \A q \in SheetRows \ {r} : inSheet'[q] = inSheet[q] /\ inDb'[q] = inDb[q]
    <3>1. \/ \E content : inSheet' = [inSheet EXCEPT ![r] = content] /\ inDb' = inDb
          \/ inDb' = [inDb EXCEPT ![r] = inSheet[r]] /\ inSheet' = inSheet
      BY <1>3 DEF TakeOver
    <3>2. QED BY <1>1, <3>1 DEF RunInv, RowsOK
  <2>2. imported' >= imported
    BY <1>1, DiffAssumption DEF RunInv, RowsOK, DiffAssumption
  <2>3. QED BY <1>3, <2>1, <2>2, RowsMove DEF Agree
<1>4. QED BY <1>2, <1>3 DEF Call

\* The rows stay and the run goes on.
LEMMA RunMoves ==
  ASSUME RunInv, UNCHANGED rows, SteadyOK(job'), NEW top \in Int, JobOK(job', top)
  PROVE  RunInv'
BY DEF RunInv, RowsOK, SteadyOK, Differs, rows

\* A run starts with ranges down from the last processed row.
LEMMA StartMoves ==
  ASSUME RunInv, StartRun
  PROVE  RunInv'
<1> DEFINE last == Max({MinSheetRow, imported})
           S == Differing(MinSheetRow, imported)
<1>1. /\ job' = [pc |-> "diff", ranges |-> RowRanges(last), entries |-> {}, steady |-> S, reported |-> <<>>, failed |-> {}]
      /\ UNCHANGED rows
  BY DEF StartRun
<1>2. imported \in Int /\ LastSheetRow \in Nat
  BY DiffAssumption DEF RunInv, RowsOK, DiffAssumption
<1>3. last \in Nat /\ last >= imported
  <2>1. \E x \in {MinSheetRow, imported} : \A y \in {MinSheetRow, imported} : x >= y
    BY <1>2 DEF MinSheetRow
  <2>2. last \in {MinSheetRow, imported} /\ last >= MinSheetRow /\ last >= imported
    BY <2>1 DEF Max
  <2>3. QED BY <1>2, <2>2 DEF MinSheetRow
<1>4. S \subseteq SheetRows /\ \A r \in S : r <= imported /\ Differs(r)
  BY <1>2, DiffAssumption DEF Differing, Differs, SheetRows, RunInv, RowsOK, MinSheetRow, DiffAssumption
<1>5. \A r \in S : r \in Int
  BY <1>2, <1>4 DEF SheetRows
<1>6. Chain(RowRanges(last), last)
  BY <1>3, RangesChain
<1> HIDE DEF last, S
<1>7. SteadyOK(job')
  BY <1>1, <1>4 DEF SteadyOK
<1>8. <<>> \in Seq(Int) /\ Len(<<>>) = 0
  OBVIOUS
<1>9. \A r \in S : r <= last
  BY <1>2, <1>3, <1>4, <1>5
<1>10. JobOK(job', last)
  BY <1>1, <1>3, <1>6, <1>8, <1>9 DEF JobOK
<1>11. last \in Int
  BY <1>3
<1>12. QED BY <1>1, <1>7, <1>10, <1>11, RunMoves

\* Comparing a range takes in hand, or gives up, what differs in it.
LEMMA DiffMoves ==
  ASSUME RunInv, Diff
  PROVE  RunInv'
<1> DEFINE range == Head(job.ranges)
<1>1. job.pc = "diff" /\ job.ranges # <<>> /\ job # Idle /\ UNCHANGED rows
  BY DEF Diff, Idle
<1>2. PICK top \in Int : JobOK(job, top)
  BY <1>1 DEF RunInv
<1>3. SteadyOK(job)
  BY <1>1 DEF RunInv
<1> DEFINE low == range[1]
           t == Tail(job.ranges)
<1>4. range[2] = top /\ low \in Int /\ low <= top /\ Chain(t, low - 1)
  BY <1>1, <1>2, ChainTail DEF JobOK
<1>5. \A r \in job.steady : r \in Int /\ MinSheetRow <= r /\ r <= imported /\ Differs(r)
  BY <1>3, DiffAssumption DEF SteadyOK, SheetRows, MinSheetRow, DiffAssumption
<1>6. \A i \in 1 .. Len(job.reported) : job.reported[i] \in Int /\ job.reported[i] > top
  BY <1>2 DEF JobOK
<1> DEFINE E == Differing(low, top)
           F == job.failed \cup (low .. top)
<1>7. \A r \in E : r \in Int /\ r > low - 1 /\ r <= top
  BY <1>4 DEF Differing
<1>8. \A r \in job.steady : r <= low - 1 \/ r \in E \/ r > top
  BY <1>4, <1>5 DEF Differing, Differs
<1>9. \A r \in job.steady : r <= low - 1 \/ r \in F \/ r > top
  BY <1>4, <1>5
<1>10. \A r \in job.steady : r > top => r \in job.failed \/ \E i \in 1 .. Len(job.reported) : job.reported[i] = r
  BY <1>1, <1>2, <1>5 DEF JobOK
<1>11. low - 1 \in Int /\ low - 1 < top
  BY <1>4
<1>12. CASE job' = [job EXCEPT !.pc = "publish", !.entries = Differing(range[1], range[2]), !.ranges = Tail(@)]
  <2>1. job' = [[[job EXCEPT !.pc = "publish"] EXCEPT !.entries = E] EXCEPT !.ranges = t]
    BY <1>2, <1>4, <1>12 DEF JobOK
  <2> HIDE DEF E, F, t, low, range
  <2>2. /\ job'.pc = "publish" /\ job'.ranges = t /\ job'.entries = E
        /\ job'.steady = job.steady /\ job'.reported = job.reported /\ job'.failed = job.failed
        /\ job' \in [pc : {"diff", "publish"}, ranges : {t}, entries : {E}, steady : {job.steady},
                     reported : Seq(Int), failed : {job.failed}]
    <3> DEFINE a == [job EXCEPT !.pc = "publish"]
               b == [a EXCEPT !.entries = E]
    <3>1. a \in [pc : {"publish"}, ranges : {job.ranges}, entries : {job.entries}, steady : {job.steady},
                 reported : {job.reported}, failed : {job.failed}]
      BY <1>2 DEF JobOK
    <3>2. job' = [b EXCEPT !.ranges = t]
      BY <2>1
    <3> HIDE DEF a
    <3>3. b \in [pc : {"publish"}, ranges : {job.ranges}, entries : {E}, steady : {job.steady},
                 reported : {job.reported}, failed : {job.failed}]
      BY <3>1
    <3> HIDE DEF b
    <3>4. job' \in [pc : {"publish"}, ranges : {t}, entries : {E}, steady : {job.steady},
                 reported : {job.reported}, failed : {job.failed}]
      BY <3>2, <3>3
    <3>5. job.reported \in Seq(Int)
      BY <1>2 DEF JobOK
    <3>6. QED BY <3>4, <3>5
  <2>3. \A i \in 1 .. Len(job.reported) : job.reported[i] > low - 1 /\ job.reported[i] \notin E
    BY <1>6, <1>7, <1>11
  <2>4. \A i, k \in 1 .. Len(job.reported) : job.reported[i] = job.reported[k] => i = k
    BY <1>2 DEF JobOK
  <2>5. JobOK(job', low - 1)
    BY <1>4, <1>7, <1>8, <1>10, <2>2, <2>3, <2>4 DEF JobOK
  <2>6. SteadyOK(job')
    BY <1>3, <2>2 DEF SteadyOK
  <2>7. QED BY <1>1, <1>11, <2>5, <2>6, RunMoves
<1>13. CASE job' = [job EXCEPT !.ranges = Tail(@), !.failed = @ \cup (range[1] .. range[2])]
  <2>1. job' = [[job EXCEPT !.ranges = t] EXCEPT !.failed = F]
    BY <1>2, <1>4, <1>13 DEF JobOK
  <2>2. job.failed \subseteq F
    OBVIOUS
  <2> HIDE DEF E, F, t, low, range
  <2>3. /\ job'.pc = job.pc /\ job'.ranges = t /\ job'.entries = job.entries
        /\ job'.steady = job.steady /\ job'.reported = job.reported /\ job'.failed = F
        /\ job' \in [pc : {"diff", "publish"}, ranges : {t}, entries : {job.entries}, steady : {job.steady},
                     reported : Seq(Int), failed : {F}]
    <3> DEFINE a == [job EXCEPT !.ranges = t]
    <3>1. a \in [pc : {job.pc}, ranges : {t}, entries : {job.entries}, steady : {job.steady},
                 reported : {job.reported}, failed : {job.failed}]
      BY <1>2 DEF JobOK
    <3> HIDE DEF a
    <3>2. job' = [a EXCEPT !.failed = F]
      BY <2>1 DEF a
    <3>3. job' \in [pc : {job.pc}, ranges : {t}, entries : {job.entries}, steady : {job.steady},
                 reported : {job.reported}, failed : {F}]
      BY <3>1, <3>2
    <3>4. job.reported \in Seq(Int) /\ job.pc \in {"diff", "publish"}
      BY <1>2 DEF JobOK
    <3>5. QED BY <3>3, <3>4
  <2>4. \A i \in 1 .. Len(job.reported) : job.reported[i] > low - 1
    BY <1>6, <1>11
  <2>5. job.entries = {}
    BY <1>1, <1>2 DEF JobOK
  <2>6. \A i, k \in 1 .. Len(job.reported) : job.reported[i] = job.reported[k] => i = k
    BY <1>2 DEF JobOK
  <2>7. JobOK(job', low - 1)
    BY <1>4, <1>9, <1>10, <2>2, <2>3, <2>4, <2>5, <2>6 DEF JobOK
  <2>8. SteadyOK(job')
    BY <1>3, <2>3 DEF SteadyOK
  <2>9. QED BY <1>1, <1>11, <2>7, <2>8, RunMoves
<1>14. QED BY <1>12, <1>13 DEF Diff

\* Publishing moves a row from the ones in hand to the reported or the failed.
LEMMA PublishMoves ==
  ASSUME RunInv, Publish
  PROVE  RunInv'
<1>1. job.pc = "publish" /\ job # Idle /\ UNCHANGED rows
  BY DEF Publish, Idle
<1>2. PICK top \in Int : JobOK(job, top)
  BY <1>1 DEF RunInv
<1>3. SteadyOK(job)
  BY <1>1 DEF RunInv
<1>4. PICK r \in job.entries :
        \/ job' = [job EXCEPT !.entries = @ \ {r}, !.reported = Append(@, r)]
        \/ job' = [job EXCEPT !.entries = @ \ {r}, !.failed = @ \cup {r}]
  BY DEF Publish
<1>5. r \in Int /\ r > top /\ job.reported \in Seq(Int)
  BY <1>2 DEF JobOK
<1> DEFINE E == job.entries \ {r}
           a == [job EXCEPT !.entries = E]
<1>6. a \in [pc : {"publish"}, ranges : {job.ranges}, entries : {E}, steady : {job.steady},
             reported : {job.reported}, failed : {job.failed}]
  BY <1>1, <1>2 DEF JobOK
<1>7. CASE job' = [job EXCEPT !.entries = @ \ {r}, !.reported = Append(@, r)]
  <2> DEFINE s == Append(job.reported, r)
             k == Len(job.reported)
  <2>1. job' = [a EXCEPT !.reported = s]
    BY <1>2, <1>7 DEF JobOK
  <2>2. /\ s \in Seq(Int) /\ k \in Nat /\ Len(s) = k + 1
        /\ \A i \in 1 .. k : s[i] = job.reported[i]
        /\ s[k + 1] = r
    BY <1>5, AppendProperties
  <2> HIDE DEF s, a
  <2>3. job' \in [pc : {"publish"}, ranges : {job.ranges}, entries : {E}, steady : {job.steady},
                 reported : {s}, failed : {job.failed}]
    BY <1>6, <2>1
  <2>4. /\ job'.pc = "publish" /\ job'.ranges = job.ranges /\ job'.entries = E
        /\ job'.steady = job.steady /\ job'.reported = s /\ job'.failed = job.failed
        /\ job' \in [pc : {"diff", "publish"}, ranges : {job.ranges}, entries : {E}, steady : {job.steady},
                     reported : Seq(Int), failed : {job.failed}]
    BY <2>2, <2>3
  <2>5. \A i \in 1 .. k : s[i] > top /\ s[i] \notin job.entries /\ s[i] # r
    BY <1>2, <2>2 DEF JobOK
  <2>6. \A i \in 1 .. k + 1 : i \in 1 .. k \/ i = k + 1
    BY <2>2
  <2>7. \A i \in 1 .. k + 1 : s[i] > top /\ s[i] \notin E
    BY <1>5, <2>2, <2>5, <2>6
  <2>8. \A i, m \in 1 .. k + 1 : s[i] = s[m] => i = m
    <3>1. \A i, m \in 1 .. k : s[i] = s[m] => i = m
      BY <1>2, <2>2 DEF JobOK
    <3>2. QED BY <2>2, <2>5, <2>6, <3>1
  <2>9. ASSUME NEW q \in job.steady, ~(q <= top), q \notin E \cup job.failed
        PROVE  \E i \in 1 .. k + 1 : s[i] = q
    <3>1. CASE q = r
      BY <2>2, <3>1
    <3>2. CASE q # r
      <4>1. \E i \in 1 .. k : job.reported[i] = q
        BY <1>2, <2>9, <3>2 DEF JobOK
      <4>2. \A i \in 1 .. k : i \in 1 .. k + 1
        BY <2>2
      <4>3. QED BY <2>2, <4>1, <4>2
    <3>3. QED BY <3>1, <3>2
  <2>10. Chain(job.ranges, top) /\ \A q \in E : q \in Int /\ q > top
    BY <1>2 DEF JobOK
  <2> HIDE DEF E, k
  <2>11. JobOK(job', top)
    BY <2>2, <2>4, <2>7, <2>8, <2>9, <2>10 DEF JobOK
  <2>12. SteadyOK(job')
    BY <1>3, <2>4 DEF SteadyOK
  <2>13. QED BY <1>1, <2>11, <2>12, RunMoves
<1>8. CASE job' = [job EXCEPT !.entries = @ \ {r}, !.failed = @ \cup {r}]
  <2> DEFINE F == job.failed \cup {r}
  <2>1. job' = [a EXCEPT !.failed = F]
    BY <1>2, <1>8 DEF JobOK
  <2> HIDE DEF a
  <2>2. job' \in [pc : {"publish"}, ranges : {job.ranges}, entries : {E}, steady : {job.steady},
                 reported : {job.reported}, failed : {F}]
    BY <1>6, <2>1
  <2>3. /\ job'.pc = "publish" /\ job'.ranges = job.ranges /\ job'.entries = E
        /\ job'.steady = job.steady /\ job'.reported = job.reported /\ job'.failed = F
        /\ job' \in [pc : {"diff", "publish"}, ranges : {job.ranges}, entries : {E}, steady : {job.steady},
                     reported : Seq(Int), failed : {F}]
    BY <1>5, <2>2
  <2>4. \A q : q \in job.entries \cup job.failed => q \in E \cup F
    OBVIOUS
  <2>5. E \subseteq job.entries
    OBVIOUS
  <2> HIDE DEF E, F
  <2>6. JobOK(job', top)
    BY <1>2, <2>3, <2>4, <2>5 DEF JobOK
  <2>7. SteadyOK(job')
    BY <1>3, <2>3 DEF SteadyOK
  <2>8. QED BY <1>1, <2>6, <2>7, RunMoves
<1>9. QED BY <1>4, <1>7, <1>8

\* The next range begins with nothing in hand.
LEMMA NextRangeMoves ==
  ASSUME RunInv, NextRange
  PROVE  RunInv'
<1>1. job.pc = "publish" /\ job.entries = {} /\ job # Idle /\ UNCHANGED rows
      /\ job' = [job EXCEPT !.pc = "diff"]
  BY DEF NextRange, Idle
<1>2. PICK top \in Int : JobOK(job, top)
  BY <1>1 DEF RunInv
<1>3. SteadyOK(job)
  BY <1>1 DEF RunInv
<1>4. /\ job'.pc = "diff" /\ job'.ranges = job.ranges /\ job'.entries = job.entries
      /\ job'.steady = job.steady /\ job'.reported = job.reported /\ job'.failed = job.failed
      /\ job' \in [pc : {"diff", "publish"}, ranges : {job.ranges}, entries : {job.entries}, steady : {job.steady},
                   reported : Seq(Int), failed : {job.failed}]
  <2>1. job \in [pc : {"diff", "publish"}, ranges : {job.ranges}, entries : {job.entries},
                 steady : {job.steady}, reported : Seq(Int), failed : {job.failed}]
    BY <1>2 DEF JobOK
  <2>2. QED BY <1>1, <2>1
<1>5. JobOK(job', top)
  <2>1. job' \in [pc : {"diff", "publish"}, ranges : {job'.ranges}, entries : {job'.entries},
                  steady : {job'.steady}, reported : Seq(Int), failed : {job'.failed}]
    BY <1>4
  <2>2. Chain(job'.ranges, top) /\ job'.entries = {}
    BY <1>1, <1>2, <1>4 DEF JobOK
  <2>3. /\ \A i, k \in 1 .. Len(job'.reported) : job'.reported[i] = job'.reported[k] => i = k
        /\ \A i \in 1 .. Len(job'.reported) : job'.reported[i] > top
    BY <1>2, <1>4 DEF JobOK
  <2>4. \A r \in job'.steady : \/ r <= top
                              \/ r \in job'.entries \cup job'.failed
                              \/ \E i \in 1 .. Len(job'.reported) : job'.reported[i] = r
    BY <1>2, <1>4 DEF JobOK
  <2>5. QED BY <2>1, <2>2, <2>3, <2>4 DEF JobOK
<1>6. SteadyOK(job')
  BY <1>3, <1>4 DEF SteadyOK
<1>7. QED BY <1>1, <1>5, <1>6, RunMoves

\* Every step keeps the invariant.
LEMMA RunNextInv == RunInv /\ [DiffNext]_diffVars => RunInv'
<1> SUFFICES ASSUME RunInv, [DiffNext]_diffVars PROVE RunInv'
  OBVIOUS
<1>1. ASSUME NEW r \in SheetRows, EditRow(r) PROVE RunInv'
  BY <1>1, EditMoves
<1>2. CASE Import \/ StartRun \/ Diff \/ Publish \/ NextRange
  BY <1>2, ImportMoves, StartMoves, DiffMoves, PublishMoves, NextRangeMoves
<1>3. CASE EndRun
  BY <1>3 DEF EndRun, RunInv, RowsOK, rows
<1>4. ASSUME NEW p \in Presses, Call(p) PROVE RunInv'
  BY <1>4, CallMoves
<1>5. CASE UNCHANGED <<rows, job>>
  BY <1>5 DEF RunInv, RowsOK, rows, SteadyOK, Differs, JobOK
<1>6. CASE Relay \/ ShowNotice \/ (\E n \in DOMAIN notices : Expire(n)) \/ UNCHANGED diffVars
  <2>1. UNCHANGED <<rows, job>>
    BY <1>6 DEF Relay, ShowNotice, Expire, diffVars
  <2>2. QED BY <1>5, <2>1
<1>7. ASSUME NEW p \in Presses,
             Get(p) \/ Delete(p) \/ RemoveButtons(p)
               \/ \E n \in DOMAIN notices, k \in {1, 2}, action \in {"sheet", "internal", "skip"} : Press(p, n, k, action)
      PROVE  RunInv'
  <2>1. UNCHANGED <<rows, job>>
    BY <1>7 DEF Get, Delete, RemoveButtons, Press
  <2>2. QED BY <1>5, <2>1
<1>8. QED BY <1>1, <1>2, <1>3, <1>4, <1>6, <1>7 DEF DiffNext

\* The invariant of the run holds in every reachable state.
LEMMA RunInvariance == DiffSpec => []RunInv
BY RunInitInv, RunNextInv, PTL DEF DiffSpec

\* What a sequence does not repeat it counts once at most.
LEMMA CountedOnce ==
  ASSUME NEW s, NEW r, \A i, k \in DOMAIN s : s[i] = s[k] => i = k
  PROVE  Count(s, r) <= 1
<1> DEFINE S == {i \in DOMAIN s : s[i] = r}
<1>1. CASE S = {}
  BY <1>1, FS_EmptySet DEF Count
<1>2. CASE S # {}
  <2>1. PICK i : S = {i}
    BY <1>2
  <2>2. Count(s, r) = 1
    BY <2>1, FS_Singleton DEF Count
  <2>3. QED BY <2>2
<1>3. QED BY <1>1, <1>2

\* A run that ends has no range left, so everything steady is reported or failed.
LEMMA EndReports ==
  ASSUME RunInv, EndRun
  PROVE  /\ \A r \in job.steady : r \in job.failed \/ r \in ToSet(job.reported)
         /\ \A r \in SheetRows : Count(job.reported, r) <= 1
<1>1. job.pc = "diff" /\ job.ranges = <<>> /\ job # Idle
  BY DEF EndRun, Idle
<1>2. PICK top \in Int : JobOK(job, top)
  BY <1>1 DEF RunInv
<1>3. SteadyOK(job) /\ top < MinSheetRow /\ job.entries = {}
  BY <1>1, <1>2 DEF RunInv, JobOK, Chain
<1>4. DOMAIN job.reported = 1 .. Len(job.reported)
  BY <1>2 DEF JobOK
<1>5. ASSUME NEW r \in job.steady PROVE r \in job.failed \/ r \in ToSet(job.reported)
  <2>1. r \in Int /\ MinSheetRow <= r
    BY <1>3, DiffAssumption DEF SteadyOK, SheetRows, MinSheetRow, DiffAssumption
  <2>2. ~(r <= top)
    BY <1>3, <2>1 DEF MinSheetRow
  <2>3. r \in job.failed \/ \E i \in 1 .. Len(job.reported) : job.reported[i] = r
    BY <1>2, <1>3, <2>2 DEF JobOK
  <2>4. QED BY <1>4, <2>3 DEF ToSet
<1>6. ASSUME NEW r \in SheetRows PROVE Count(job.reported, r) <= 1
  BY <1>2, <1>4, CountedOnce DEF JobOK
<1>7. QED BY <1>5, <1>6

\* A run reports every complete row that has differed since it began exactly
\* once, unless the request for its range or its own publication failed
\* (application_diff.run, GetApplicationsFromRows).
THEOREM ReportsOnce == DiffSpec => ReportedOnce
<1>1. RunInv /\ [DiffNext]_diffVars =>
        [EndRun => /\ \A r \in job.steady : r \in job.failed \/ r \in ToSet(job.reported)
                   /\ \A r \in SheetRows : Count(job.reported, r) <= 1]_diffVars
  BY EndReports
<1>2. QED BY <1>1, RunInvariance, PTL DEF DiffSpec, ReportedOnce
===============================================================================
