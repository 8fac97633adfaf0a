-------------------------- MODULE PickerImportProofs --------------------------
(***************************************************************************)
(* Proofs about PickerImport, for every number of users, sessions,         *)
(* requests and items.                                                     *)
(***************************************************************************)
EXTENDS PickerImport, FiniteSetTheorems, TLAPS

\* A request names a session from its accepted Start to its last action.
SidOK ==
    \A r \in Requests :
        /\ pc[r] # "idle" => sid[r] \in Sessions
        /\ pc[r] = "save" => item[r] \in Items

IInv == TypeOK /\ SidOK /\ OneImporterPerSession /\ RunningIffImporting

\* A step taken outside the picker's handlers and goroutines: nothing, or a photo
\* stored by a worker.
Outside ==
    /\ UNCHANGED <<session, tracker, import>>
    /\ \A i \in Items : photos[i] # NoUser => photos'[i] # NoUser

LEMMA InitIInv == Init => IInv
  BY PickerImportAssumption
     DEF Init, IInv, TypeOK, SidOK, OneImporterPerSession, RunningIffImporting,
         Importing, SessionStates, Statuses, StartStates, RunStates, Counts, Entries,
         NoCounts, Fresh, Absent

\* The records in the tracker and in the goroutines stay well typed.
LEMMA RecordsTyped ==
    ASSUME TypeOK, SidOK, NEW r \in Requests, StartStep(r) \/ RunStep(r)
    PROVE  /\ tracker' \in [Sessions -> Entries]
           /\ count' \in [Requests -> Counts]
<1> USE DEF TypeOK, SidOK, Return, Enter
<1>1. NoCounts \in Counts /\ count[r] \in Counts
      /\ \A c \in Counts : c.processed \in Nat /\ c.imported \in Nat /\ c.failed \in Nat
  BY DEF NoCounts, Counts
<1>2. CASE EnsureToken(r) \/ RefreshAndRetry(r)
  BY <1>2 DEF EnsureToken, RefreshAndRetry
<1>3. CASE CollectItems(r)
  <2>1. sid[r] \in Sessions /\ Picked[sid[r]] \cap Images \in SUBSET Picked[sid[r]]
        /\ todo'[r] = Picked[sid[r]] \cap Images
    BY <1>3 DEF CollectItems
  <2>2. Cardinality(todo'[r]) \in Nat
    BY <2>1, FS_Subset, FS_CardinalityType, PickerImportAssumption
  <2>3. [tracker[sid[r]] EXCEPT !.total = Cardinality(todo'[r])] \in Entries
    BY <2>1, <2>2 DEF Entries
  <2>. QED
    BY <1>3, <2>1, <2>3 DEF CollectItems
<1>4. CASE FailStart(r)
  <2>1. [tracker[sid[r]] EXCEPT !.status = "failed"] \in Entries
    BY <1>4 DEF FailStart, Entries, Statuses, StartStates
  <2>. QED
    BY <1>1, <1>4, <2>1 DEF FailStart
<1>5. CASE SkipItem(r) \/ DescribeItem(r) \/ GiveUpItem(r) \/ SaveItem(r)
           \/ SaveItemError(r)
  <2>1. UNCHANGED tracker
    BY <1>5 DEF SkipItem, DescribeItem, GiveUpItem, SaveItem, SaveItemError
  <2>2. \/ count' = count \/ Processed(r)
        \/ ProcessedAndImported(r) \/ ProcessedAndFailed(r)
    BY <1>5 DEF SkipItem, DescribeItem, GiveUpItem, SaveItem, SaveItemError
  <2>3. count[r].processed + 1 \in Nat /\ count[r].imported + 1 \in Nat
        /\ count[r].failed + 1 \in Nat
    BY <1>1
  <2>4. [count[r] EXCEPT !.processed = @ + 1] \in Counts
    BY <1>1, <2>3 DEF Counts
  <2>5. [count[r] EXCEPT !.processed = @ + 1, !.imported = @ + 1] \in Counts
    BY <1>1, <2>3 DEF Counts
  <2>6. [count[r] EXCEPT !.processed = @ + 1, !.failed = @ + 1] \in Counts
    BY <1>1, <2>3 DEF Counts
  <2>. QED
    BY <2>1, <2>2, <2>4, <2>5, <2>6 DEF Processed, ProcessedAndImported, ProcessedAndFailed
<1>6. CASE Report(r) \/ FinishImport(r)
  <2>1. PICK st \in {"running", "done"} : Update(sid[r], st, count[r])
    BY <1>6 DEF Report, FinishImport
  <2>2. [tracker[sid[r]] EXCEPT !.status = st, !.processed = count[r].processed,
             !.imported = count[r].imported, !.failed = count[r].failed] \in Entries
    <3>1. tracker[sid[r]] \in Entries /\ st \in Statuses
      BY <1>6 DEF Report, FinishImport, Statuses
    <3>. QED
      BY <1>1, <3>1 DEF Entries
  <2>. QED
    BY <1>6, <2>1, <2>2 DEF Report, FinishImport, Update
<1>7. CASE CloseSession(r)
  BY <1>1, <1>7 DEF CloseSession
<1>. QED
  BY <1>2, <1>3, <1>4, <1>5, <1>6, <1>7 DEF StartStep, RunStep

\* A run of a worker stores one photo.
LEMMA IndexWrites ==
    ASSUME TypeOK, NEW i \in Items \cap Images, NEW u \in Indexers, IndexPhoto(i, u)
    PROVE  /\ photos' \in [Items -> Users \cup {NoUser}]
           /\ Outside
<1>1. u \in Users /\ u # NoUser
  BY PickerImportAssumption, IndexersAreUsers
<1>2. /\ photos' = [photos EXCEPT ![i] = u] /\ photos[i] = NoUser
      /\ UNCHANGED <<session, tracker, import>>
  BY DEF IndexPhoto, SavePhoto, PhotoExistsByMediaID, TypeOK
<1>. QED
  BY <1>1, <1>2 DEF TypeOK, Outside

LEMMA NextIInv == IInv /\ [Next]_vars => IInv'
<1> SUFFICES ASSUME IInv, [Next]_vars PROVE IInv'
  OBVIOUS
<1> USE PickerImportAssumption
<1> USE DEF IInv, TypeOK, SidOK, OneImporterPerSession, RunningIffImporting, Importing,
            StartStates, RunStates, import, Enter, Return
<1>1. ASSUME NEW s \in Sessions,
             CreateSession(s) \/ PickItems(s) \/ DeleteSession(s)
      PROVE  IInv'
  <2>1. session' \in [Sessions -> SessionStates]
    BY <1>1 DEF CreateSession, PickItems, DeleteSession, SessionStates
  <2>2. UNCHANGED <<tracker, photos, pc, sid, todo, item, count>>
    BY <1>1 DEF CreateSession, PickItems, DeleteSession
  <2>3. TypeOK'
    BY <2>1, <2>2
  <2>4. SidOK' /\ OneImporterPerSession' /\ RunningIffImporting'
    BY <2>2
  <2>. QED
    BY <2>3, <2>4
<1>2. ASSUME NEW s \in Sessions, NEW r \in Requests, StartImport(r, s)
      PROVE  IInv'
  <2>1. Fresh \in Entries /\ Fresh.status = "running"
    BY DEF Fresh, Entries, Statuses
  <2>2. /\ pc' = [pc EXCEPT ![r] = "token"] /\ sid' = [sid EXCEPT ![r] = s]
        /\ tracker' = [tracker EXCEPT ![s] = Fresh]
        /\ UNCHANGED <<session, photos, todo, item, count>>
        /\ tracker[s].status # "running" /\ pc[r] = "idle"
    BY <1>2 DEF StartImport
  <2>3. TypeOK'
    BY <2>1, <2>2
  <2>4. SidOK'
    BY <2>2
  <2>5. \A q \in Requests : ~Importing(q, s)
    BY <2>2
  <2>6. OneImporterPerSession'
    BY <2>2, <2>5
  <2>7. RunningIffImporting'
    <3>1. tracker'[s].status = "running" /\ Importing(r, s)'
      BY <2>1, <2>2
    <3>2. ASSUME NEW t \in Sessions, t # s
          PROVE  /\ tracker'[t] = tracker[t]
                 /\ \A q \in Requests : Importing(q, t)' <=> Importing(q, t)
      BY <2>2, <3>2
    <3>. HIDE DEF Importing
    <3>. QED
      BY <3>1, <3>2
  <2>. QED
    BY <2>3, <2>4, <2>6, <2>7
<1>3. ASSUME NEW r \in Requests, StartStep(r) \/ RunStep(r)
      PROVE  IInv'
  <2>1. tracker' \in [Sessions -> Entries] /\ count' \in [Requests -> Counts]
    BY <1>3, RecordsTyped
  <2>2. CASE EnsureToken(r)
    BY <2>1, <2>2 DEF EnsureToken
  <2>3. CASE RefreshAndRetry(r)
    BY <2>1, <2>3 DEF RefreshAndRetry
  <2>4. CASE CollectItems(r)
    <3>1. \A s \in Sessions : tracker'[s].status = tracker[s].status
      BY <2>4 DEF CollectItems, Entries
    <3>2. todo' \in [Requests -> SUBSET Items]
      BY <2>4 DEF CollectItems
    <3>. QED
      BY <2>1, <2>4, <3>1, <3>2 DEF CollectItems
  <2>5. CASE FailStart(r)
    <3>1. \A s \in Sessions :
              tracker'[s].status = IF s = sid[r] THEN "failed" ELSE tracker[s].status
      BY <2>5 DEF FailStart, Entries
    <3>. QED
      BY <2>1, <2>5, <3>1 DEF FailStart
  <2>6. CASE SkipItem(r)
    BY <2>1, <2>6 DEF SkipItem
  <2>7. CASE DescribeItem(r)
    BY <2>1, <2>7 DEF DescribeItem
  <2>8. CASE GiveUpItem(r)
    BY <2>1, <2>8 DEF GiveUpItem
  <2>9. CASE SaveItem(r)
    <3>1. photos' \in [Items -> Users \cup {NoUser}]
      BY <2>9 DEF SaveItem, SavePhoto
    <3>. QED
      BY <2>1, <2>9, <3>1 DEF SaveItem
  <2>10. CASE SaveItemError(r)
    BY <2>1, <2>10 DEF SaveItemError
  <2>11. CASE Report(r)
    <3>1. \A s \in Sessions :
              tracker'[s].status = IF s = sid[r] THEN "running" ELSE tracker[s].status
      BY <2>11 DEF Report, Update, Entries
    <3>. QED
      BY <2>1, <2>11, <3>1 DEF Report
  <2>12. CASE FinishImport(r)
    <3>1. \A s \in Sessions :
              tracker'[s].status = IF s = sid[r] THEN "done" ELSE tracker[s].status
      BY <2>12 DEF FinishImport, Update, Entries
    <3>. QED
      BY <2>1, <2>12, <3>1 DEF FinishImport
  <2>13. CASE CloseSession(r)
    <3>1. session' \in [Sessions -> SessionStates]
      BY <2>13 DEF CloseSession, SessionStates
    <3>2. /\ pc[r] = "close" /\ pc' = [pc EXCEPT ![r] = "idle"]
          /\ sid' = [sid EXCEPT ![r] = NoSession]
          /\ todo' = [todo EXCEPT ![r] = {}] /\ item' = [item EXCEPT ![r] = NoItem]
          /\ UNCHANGED <<tracker, photos>>
      BY <2>13 DEF CloseSession
    <3>3. TypeOK'
      BY <2>1, <3>1, <3>2
    <3>4. SidOK'
      BY <3>2
    <3>5. \A q \in Requests, s \in Sessions : Importing(q, s)' <=> Importing(q, s)
      BY <3>2
    <3>6. OneImporterPerSession' /\ RunningIffImporting'
      <4>. HIDE DEF Importing
      <4>. QED
        BY <3>2, <3>5
    <3>. QED
      BY <3>3, <3>4, <3>6
  <2>. QED
    BY <1>3, <2>2, <2>3, <2>4, <2>5, <2>6, <2>7, <2>8, <2>9, <2>10, <2>11, <2>12,
       <2>13 DEF StartStep, RunStep
<1>4. CASE Crash
  BY <1>4 DEF Crash, Absent, Fresh, Entries, Statuses, NoCounts, Counts
<1>5. ASSUME NEW i \in Items \cap Images, NEW u \in Indexers, IndexPhoto(i, u)
      PROVE  IInv'
  <2>1. /\ photos' \in [Items -> Users \cup {NoUser}]
        /\ UNCHANGED <<session, tracker, import>>
    BY <1>5, IndexWrites DEF Outside
  <2>. QED
    BY <2>1
<1>6. CASE UNCHANGED vars
  BY <1>6 DEF vars
<1>. QED
  BY <1>1, <1>2, <1>3, <1>4, <1>5, <1>6 DEF Next

\* A step is one of the API, one of an import, the end of the process, or taken
\* elsewhere.
LEMMA StepCases ==
    ASSUME IInv, [Next]_vars
    PROVE  \/ \E s \in Sessions : \/ CreateSession(s) \/ PickItems(s) \/ DeleteSession(s)
                                  \/ \E r \in Requests : StartImport(r, s)
           \/ \E r \in Requests : StartStep(r) \/ RunStep(r)
           \/ Crash
           \/ Outside
<1>1. ASSUME NEW i \in Items \cap Images, NEW u \in Indexers, IndexPhoto(i, u)
      PROVE  Outside
  BY <1>1, IndexWrites DEF IInv
<1>2. CASE UNCHANGED vars
  BY <1>2 DEF vars, Outside
<1>. QED
  BY <1>1, <1>2 DEF Next

LEMMA Inductive == Spec => []IInv
  BY InitIInv, NextIInv, PTL DEF Spec

\* Sessions, tracker entries and goroutines keep their types.
THEOREM TypeCorrect == Spec => []TypeOK
  BY Inductive, PTL DEF IInv

\* One session is never imported by two requests or goroutines at a time.
THEOREM ImporterUnique == Spec => []OneImporterPerSession
  BY Inductive, PTL DEF IInv

\* A tracker entry says running exactly while somebody imports the session, so Start
\* refuses only imports that are under way.
THEOREM RunningIsHonest == Spec => []RunningIffImporting
  BY Inductive, PTL DEF IInv

-----------------------------------------------------------------------------
(* Only the importer of a session writes its entry. *)

LEMMA TrackerWrites ==
    ASSUME IInv, NEW r \in Requests, StartStep(r) \/ RunStep(r)
    PROVE  /\ \A s \in Sessions : s # sid[r] => tracker'[s] = tracker[s]
           /\ tracker' # tracker => tracker[sid[r]].status = "running"
           /\ \A q \in Requests \ {r} : /\ pc'[q] = pc[q] /\ sid'[q] = sid[q]
                                        /\ todo'[q] = todo[q]
                                        /\ count'[q] = count[q]
<1> USE DEF IInv, TypeOK, SidOK, RunningIffImporting, Importing, StartStates, RunStates,
            Enter, Return
<1>1. CASE EnsureToken(r) \/ RefreshAndRetry(r)
  BY <1>1 DEF EnsureToken, RefreshAndRetry
<1>2. CASE CollectItems(r)
  BY <1>2 DEF CollectItems
<1>3. CASE FailStart(r)
  BY <1>3 DEF FailStart
<1>4. CASE SkipItem(r) \/ GiveUpItem(r) \/ SaveItemError(r)
  BY <1>4 DEF SkipItem, GiveUpItem, SaveItemError, Processed, ProcessedAndFailed
<1>5. CASE DescribeItem(r) \/ SaveItem(r)
  BY <1>5 DEF DescribeItem, SaveItem, ProcessedAndImported, ProcessedAndFailed
<1>6. CASE Report(r)
  BY <1>6 DEF Report, Update
<1>7. CASE FinishImport(r)
  BY <1>7 DEF FinishImport, Update
<1>8. CASE CloseSession(r)
  BY <1>8 DEF CloseSession
<1>. QED
  BY <1>1, <1>2, <1>3, <1>4, <1>5, <1>6, <1>7, <1>8 DEF StartStep, RunStep

LEMMA EndedStep ==
    ASSUME IInv, [Next]_vars, NEW s \in Sessions,
           tracker[s].status \in {"done", "failed"}
    PROVE  tracker'[s] \in {tracker[s], Fresh, Absent}
<1>1. CASE \E t \in Sessions : CreateSession(t) \/ PickItems(t) \/ DeleteSession(t)
  BY <1>1 DEF CreateSession, PickItems, DeleteSession
<1>2. CASE \E t \in Sessions, r \in Requests : StartImport(r, t)
  BY <1>2 DEF StartImport, IInv, TypeOK
<1>3. CASE \E r \in Requests : StartStep(r) \/ RunStep(r)
  BY <1>3, TrackerWrites
<1>4. CASE Crash
  BY <1>4 DEF Crash
<1>5. CASE Outside
  BY <1>5 DEF Outside
<1>. QED
  BY <1>1, <1>2, <1>3, <1>4, <1>5, StepCases

\* What an ended import shows stays until a new import or the end of the process.
THEOREM EndedStays == Spec => EndedOnlyReplaced
<1>1. IInv /\ [Next]_vars =>
          [\A s \in Sessions :
              tracker[s].status \in {"done", "failed"} =>
                  tracker'[s] \in {tracker[s], Fresh, Absent}]_vars
  BY EndedStep
<1>. QED
  BY <1>1, Inductive, PTL DEF Spec, EndedOnlyReplaced

-----------------------------------------------------------------------------
(* The counters. *)

Chosen(s) == Picked[s] \cap Images

\* The goroutine's counters agree with what it has left to do and are never behind
\* what the tracker shows.
Counted(r) ==
    LET t == tracker[sid[r]]
        c == count[r]
    IN  /\ pc[r] = "idle" => c = NoCounts
        /\ pc[r] \in StartStates => t = Fresh /\ c = NoCounts
        /\ pc[r] \in RunStates =>
              /\ todo[r] \subseteq Chosen(sid[r])
              /\ t.total = Cardinality(Chosen(sid[r]))
              /\ c.processed + Cardinality(todo[r])
                     + (IF pc[r] = "save" THEN 1 ELSE 0) = t.total
              /\ c.imported + c.failed <= c.processed
              /\ t.processed <= c.processed
              /\ t.imported <= c.imported
              /\ t.failed <= c.failed

CountInv == CountsAddUp /\ \A r \in Requests : Counted(r)

LEMMA NamesSession ==
    ASSUME IInv, NEW r \in Requests, StartStep(r) \/ RunStep(r)
    PROVE  sid[r] \in Sessions
<1>1. pc[r] # "idle"
  BY DEF StartStep, RunStep, EnsureToken, RefreshAndRetry, CollectItems, FailStart,
         SkipItem, DescribeItem, GiveUpItem, SaveItem, SaveItemError, Report,
         FinishImport, CloseSession, StartStates
<1>. QED
  BY <1>1 DEF IInv, TypeOK, SidOK

LEMMA InitCountInv == Init => CountInv
  BY DEF Init, CountInv, CountsAddUp, Counted, StartStates, RunStates, Absent, Fresh

\* Taking an item off the list makes it one shorter.
LEMMA TakeItem ==
    ASSUME NEW s \in Sessions, NEW T \in SUBSET Chosen(s), NEW i \in T
    PROVE  /\ IsFiniteSet(T) /\ Cardinality(T) \in Nat
           /\ Cardinality(T \ {i}) \in Nat
           /\ Cardinality(T) = Cardinality(T \ {i}) + 1
<1>1. IsFiniteSet(T)
  BY FS_Subset, PickerImportAssumption DEF Chosen
<1>2. IsFiniteSet(T \ {i}) /\ Cardinality(T \ {i}) = Cardinality(T) - 1
  BY <1>1, FS_RemoveElement
<1>3. Cardinality(T) \in Nat /\ Cardinality(T \ {i}) \in Nat
  BY <1>1, <1>2, FS_CardinalityType
<1>. QED
  BY <1>1, <1>2, <1>3

EntryOK(t) == t.imported + t.failed <= t.processed /\ t.processed <= t.total

Forward(t, u) ==
    /\ u.total >= t.total
    /\ u.processed >= t.processed
    /\ u.imported >= t.imported
    /\ u.failed >= t.failed

\* One step of a request or its goroutine.
LEMMA CountStep ==
    ASSUME IInv, NEW r \in Requests, Counted(r), EntryOK(tracker[sid[r]]),
           StartStep(r) \/ RunStep(r)
    PROVE  /\ Counted(r)'
           /\ EntryOK(tracker'[sid[r]])
           /\ Forward(tracker[sid[r]], tracker'[sid[r]])
<1> DEFINE s == sid[r]
           t == tracker[s]
           c == count[r]
<1>1. /\ s \in Sessions /\ t \in Entries /\ c \in Counts
      /\ t.total \in Nat /\ t.processed \in Nat /\ t.imported \in Nat
      /\ t.failed \in Nat
      /\ c.processed \in Nat /\ c.imported \in Nat /\ c.failed \in Nat
  <2>1. s \in Sessions /\ t \in Entries /\ c \in Counts
    BY NamesSession DEF IInv, TypeOK
  <2>. QED
    BY <2>1 DEF Entries, Counts
<1>2. Forward(t, t)
  BY <1>1 DEF Forward
<1> USE DEF IInv, TypeOK, StartStates, RunStates, Enter, EntryOK
<1>3. CASE EnsureToken(r) \/ RefreshAndRetry(r)
  BY <1>2, <1>3 DEF EnsureToken, RefreshAndRetry, Counted
<1>4. CASE CollectItems(r)
  <2>1. t = Fresh /\ c = NoCounts
    BY <1>4 DEF CollectItems, Counted
  <2>2. Cardinality(Chosen(s)) \in Nat
    BY <1>1, FS_Subset, FS_CardinalityType, PickerImportAssumption DEF Chosen
  <2>3. /\ pc'[r] = "walk" /\ sid' = sid /\ count' = count
        /\ todo'[r] = Chosen(s)
        /\ tracker'[s] = [t EXCEPT !.total = Cardinality(Chosen(s))]
    BY <1>1, <1>4 DEF CollectItems, Chosen
  <2>4. tracker'[s] = [Fresh EXCEPT !.total = Cardinality(Chosen(s))]
    BY <2>1, <2>3
  <2>5. Counted(r)'
    BY <2>1, <2>2, <2>3, <2>4 DEF Counted, Fresh, NoCounts
  <2>. QED
    BY <2>1, <2>2, <2>4, <2>5 DEF Fresh, Forward
<1>5. CASE FailStart(r)
  <2>1. /\ tracker'[s] = [t EXCEPT !.status = "failed"]
        /\ pc'[r] = "idle" /\ count'[r] = NoCounts
    BY <1>1, <1>5 DEF FailStart, Return
  <2>. QED
    BY <1>1, <2>1 DEF Counted, Forward, Entries, StartStates, RunStates
<1>6. CASE SkipItem(r) \/ DescribeItem(r) \/ GiveUpItem(r)
  <2>1. PICK i \in todo[r] : todo' = [todo EXCEPT ![r] = @ \ {i}]
    BY <1>6 DEF SkipItem, DescribeItem, GiveUpItem
  <2>2. pc[r] = "walk" /\ UNCHANGED <<tracker, sid>>
    BY <1>6 DEF SkipItem, DescribeItem, GiveUpItem
  <2>3. /\ Cardinality(todo[r]) \in Nat /\ Cardinality(todo'[r]) \in Nat
        /\ Cardinality(todo[r]) = Cardinality(todo'[r]) + 1
        /\ todo'[r] \subseteq Chosen(s)
    BY <1>1, <2>1, <2>2, TakeItem DEF Counted
  <2>4. \/ pc'[r] = "save" /\ count'[r] = c
        \/ /\ pc'[r] = "report"
           /\ \/ count'[r] = [c EXCEPT !.processed = @ + 1]
              \/ count'[r] = [c EXCEPT !.processed = @ + 1, !.failed = @ + 1]
    BY <1>6 DEF SkipItem, DescribeItem, GiveUpItem, Processed, ProcessedAndFailed
  <2> HIDE DEF IInv, TypeOK, EntryOK
  <2>5. \/ pc'[r] = "save" /\ count'[r] = c
        \/ /\ pc'[r] = "report" /\ count'[r].processed = c.processed + 1
           /\ count'[r].imported = c.imported
           /\ count'[r].failed \in {c.failed, c.failed + 1}
    BY <1>1, <2>4 DEF Counts
  <2>6. /\ t.total = Cardinality(Chosen(s))
        /\ c.processed + Cardinality(todo[r]) = t.total
        /\ c.imported + c.failed <= c.processed
        /\ t.processed <= c.processed /\ t.imported <= c.imported
        /\ t.failed <= c.failed
    BY <1>1, <2>2, <2>3 DEF Counted
  <2>7. CASE pc'[r] = "save" /\ count'[r] = c
    <3>1. c.processed + Cardinality(todo'[r]) + 1 = t.total
      BY <1>1, <2>3, <2>6
    <3>. QED
      BY <1>2, <2>2, <2>3, <2>6, <2>7, <3>1 DEF Counted
  <2>8. CASE pc'[r] = "report" /\ count'[r].processed = c.processed + 1
             /\ count'[r].imported = c.imported
             /\ count'[r].failed \in {c.failed, c.failed + 1}
    <3>1. /\ count'[r].processed + Cardinality(todo'[r]) = t.total
          /\ count'[r].imported + count'[r].failed <= count'[r].processed
          /\ t.processed <= count'[r].processed /\ t.imported <= count'[r].imported
          /\ t.failed <= count'[r].failed
      BY <1>1, <2>3, <2>6, <2>8
    <3>2. count'[r].processed + Cardinality(todo'[r]) + 0 = t.total
      BY <1>1, <2>3, <2>8, <3>1
    <3>. QED
      BY <1>2, <2>2, <2>3, <2>6, <2>8, <3>1, <3>2 DEF Counted
  <2>. QED
    BY <2>5, <2>7, <2>8
<1>7. CASE SaveItem(r) \/ SaveItemError(r)
  <2>1. pc[r] = "save" /\ pc'[r] = "report" /\ UNCHANGED <<tracker, sid, todo>>
    BY <1>7 DEF SaveItem, SaveItemError
  <2>2. \/ count'[r] = [c EXCEPT !.processed = @ + 1, !.imported = @ + 1]
        \/ count'[r] = [c EXCEPT !.processed = @ + 1, !.failed = @ + 1]
    BY <1>7 DEF SaveItem, SaveItemError, ProcessedAndImported, ProcessedAndFailed
  <2>3. Cardinality(todo[r]) \in Nat
    BY <1>1, <2>1, FS_Subset, FS_CardinalityType, PickerImportAssumption
    DEF Counted, Chosen
  <2>4. /\ count'[r].processed = c.processed + 1
        /\ \/ count'[r].imported = c.imported + 1 /\ count'[r].failed = c.failed
           \/ count'[r].imported = c.imported /\ count'[r].failed = c.failed + 1
    BY <1>1, <2>2 DEF Counts
  <2>5. /\ todo[r] \subseteq Chosen(s) /\ t.total = Cardinality(Chosen(s))
        /\ c.processed + Cardinality(todo[r]) + 1 = t.total
        /\ c.imported + c.failed <= c.processed
        /\ t.processed <= c.processed /\ t.imported <= c.imported
        /\ t.failed <= c.failed
    BY <2>1 DEF Counted
  <2>6. /\ count'[r].processed + Cardinality(todo[r]) + 0 = t.total
        /\ count'[r].imported + count'[r].failed <= count'[r].processed
        /\ t.processed <= count'[r].processed /\ t.imported <= count'[r].imported
        /\ t.failed <= count'[r].failed
    BY <1>1, <2>3, <2>4, <2>5
  <2>7. Counted(r)'
    BY <2>1, <2>5, <2>6 DEF Counted
  <2>. QED
    BY <1>2, <2>1, <2>7
<1>8. CASE Report(r) \/ FinishImport(r)
  <2>1. PICK st \in {"running", "done"} :
            tracker'[s] = [t EXCEPT !.status = st, !.processed = c.processed,
                               !.imported = c.imported, !.failed = c.failed]
    BY <1>1, <1>8 DEF Report, FinishImport, Update
  <2>2. /\ pc[r] \in {"walk", "report"} /\ pc'[r] \in {"walk", "close"}
        /\ UNCHANGED <<sid, todo, count>>
    BY <1>8 DEF Report, FinishImport
  <2>3. Cardinality(todo[r]) \in Nat
    BY <1>1, <2>2, FS_Subset, FS_CardinalityType, PickerImportAssumption
    DEF Counted, Chosen
  <2>4. /\ tracker'[s].total = t.total /\ tracker'[s].processed = c.processed
        /\ tracker'[s].imported = c.imported /\ tracker'[s].failed = c.failed
    BY <1>1, <2>1 DEF Entries
  <2>5. Counted(r)'
    BY <1>1, <2>2, <2>3, <2>4 DEF Counted
  <2>6. EntryOK(tracker'[s]) /\ Forward(t, tracker'[s])
    BY <1>1, <2>2, <2>3, <2>4 DEF Counted, Forward
  <2>. QED
    BY <2>5, <2>6
<1>9. CASE CloseSession(r)
  BY <1>2, <1>9 DEF CloseSession, Return, Counted
<1>. QED
  BY <1>3, <1>4, <1>5, <1>6, <1>7, <1>8, <1>9 DEF StartStep, RunStep

\* The other requests' sessions are not touched by that step.
LEMMA CountOthers ==
    ASSUME IInv, CountInv, NEW r \in Requests, StartStep(r) \/ RunStep(r),
           NEW q \in Requests, q # r
    PROVE  Counted(q)'
<1>1. /\ pc'[q] = pc[q] /\ sid'[q] = sid[q] /\ todo'[q] = todo[q]
      /\ count'[q] = count[q]
  BY TrackerWrites
<1>2. CASE pc[q] \notin StartStates \cup RunStates
  BY <1>1, <1>2 DEF CountInv, Counted
<1>3. CASE pc[q] \in StartStates \cup RunStates
  <2>1. sid[q] \in Sessions
    BY <1>3 DEF IInv, SidOK, StartStates, RunStates
  <2>2. CASE sid[q] # sid[r]
    <3>1. tracker'[sid[q]] = tracker[sid[q]]
      BY <2>1, <2>2, TrackerWrites
    <3>. QED
      BY <1>1, <3>1 DEF CountInv, Counted
  <2>3. CASE sid[q] = sid[r]
    <3>1. pc[r] = "close"
      BY <1>3, <2>1, <2>3
      DEF IInv, OneImporterPerSession, Importing, StartStep, RunStep, EnsureToken,
          RefreshAndRetry, CollectItems, FailStart, SkipItem, DescribeItem, GiveUpItem,
          SaveItem, SaveItemError, Report, FinishImport, CloseSession, StartStates,
          RunStates
    <3>2. tracker' = tracker
      BY <3>1 DEF StartStep, RunStep, EnsureToken, RefreshAndRetry, CollectItems,
                  FailStart, SkipItem, DescribeItem, GiveUpItem, SaveItem,
                  SaveItemError, Report, FinishImport, CloseSession, StartStates
    <3>. QED
      BY <1>1, <3>2 DEF CountInv, Counted
  <2>. QED
    BY <2>2, <2>3
<1>. QED
  BY <1>2, <1>3

LEMMA NextCountInv == IInv /\ CountInv /\ [Next]_vars => CountInv'
<1> SUFFICES ASSUME IInv, CountInv, [Next]_vars PROVE CountInv'
  OBVIOUS
<1>1. ASSUME NEW s \in Sessions,
             CreateSession(s) \/ PickItems(s) \/ DeleteSession(s)
      PROVE  CountInv'
  BY <1>1 DEF CreateSession, PickItems, DeleteSession, import, CountInv, CountsAddUp,
              Counted
<1>2. ASSUME NEW s \in Sessions, NEW r \in Requests, StartImport(r, s)
      PROVE  CountInv'
  <2>1. \A q \in Requests : ~Importing(q, s)
    BY <1>2 DEF StartImport, IInv, RunningIffImporting
  <2>2. /\ pc' = [pc EXCEPT ![r] = "token"] /\ sid' = [sid EXCEPT ![r] = s]
        /\ tracker' = [tracker EXCEPT ![s] = Fresh] /\ UNCHANGED <<todo, count>>
    BY <1>2 DEF StartImport, Enter
  <2>3. CountsAddUp'
    BY <2>2 DEF CountInv, CountsAddUp, IInv, TypeOK, Fresh
  <2>4. Counted(r)'
    BY <1>2, <2>2 DEF StartImport, CountInv, Counted, StartStates, RunStates, IInv,
                      TypeOK
  <2>5. ASSUME NEW q \in Requests, q # r PROVE Counted(q)'
    <3>1. pc'[q] = pc[q] /\ sid'[q] = sid[q]
      BY <2>2, <2>5 DEF IInv, TypeOK
    <3>2. CASE pc[q] \in StartStates \cup RunStates
      <4>1. sid[q] # s
        BY <2>1, <2>5, <3>2 DEF Importing
      <4>2. tracker'[sid[q]] = tracker[sid[q]]
        BY <2>2, <4>1 DEF IInv, TypeOK
      <4>. QED
        BY <2>2, <2>5, <3>1, <4>2 DEF CountInv, Counted
    <3>3. CASE pc[q] \notin StartStates \cup RunStates
      BY <2>2, <3>1, <3>3 DEF CountInv, Counted
    <3>. QED
      BY <3>2, <3>3
  <2>. QED
    BY <2>3, <2>4, <2>5 DEF CountInv
<1>3. ASSUME NEW r \in Requests, StartStep(r) \/ RunStep(r)
      PROVE  CountInv'
  <2>1. sid[r] \in Sessions
    BY <1>3, NamesSession
  <2>2. Counted(r)' /\ EntryOK(tracker'[sid[r]])
    BY <1>3, <2>1, CountStep DEF CountInv, CountsAddUp, EntryOK
  <2>3. CountsAddUp'
    BY <1>3, <2>2, TrackerWrites DEF CountInv, CountsAddUp, EntryOK
  <2>4. \A q \in Requests : Counted(q)'
    BY <1>3, <2>2, CountOthers
  <2>. QED
    BY <2>3, <2>4 DEF CountInv
<1>4. CASE Crash
  BY <1>4 DEF Crash, CountInv, CountsAddUp, Counted, Absent, Fresh, StartStates,
              RunStates
<1>5. CASE Outside
  BY <1>5 DEF Outside, import, CountInv, CountsAddUp, Counted
<1>. QED
  BY <1>1, <1>2, <1>3, <1>4, <1>5, StepCases

LEMMA CountInductive == Spec => [](IInv /\ CountInv)
  BY InitIInv, InitCountInv, NextIInv, NextCountInv, PTL DEF Spec

\* The figures a poll of an import shows add up, whatever the imports do concurrently.
THEOREM CountsCorrect == Spec => []CountsAddUp
  BY CountInductive, PTL DEF CountInv

LEMMA ShownStep ==
    ASSUME IInv, CountInv, [Next]_vars, NEW s \in Sessions,
           tracker[s].status = "running", tracker'[s].status # "absent"
    PROVE  Forward(tracker[s], tracker'[s])
<1>1. Forward(tracker[s], tracker[s])
  BY DEF Forward, IInv, TypeOK, Entries
<1>2. CASE \E t \in Sessions : CreateSession(t) \/ PickItems(t) \/ DeleteSession(t)
  BY <1>1, <1>2 DEF CreateSession, PickItems, DeleteSession
<1>3. CASE \E t \in Sessions, r \in Requests : StartImport(r, t)
  BY <1>1, <1>3 DEF StartImport, IInv, TypeOK
<1>4. ASSUME NEW r \in Requests, StartStep(r) \/ RunStep(r)
      PROVE  Forward(tracker[s], tracker'[s])
  <2>1. CASE s = sid[r]
    BY <1>4, <2>1, CountStep DEF CountInv, CountsAddUp, EntryOK
  <2>2. CASE s # sid[r]
    BY <1>1, <1>4, <2>2, TrackerWrites
  <2>. QED
    BY <2>1, <2>2
<1>5. CASE Crash
  BY <1>5 DEF Crash, Absent, Fresh
<1>6. CASE Outside
  BY <1>1, <1>6 DEF Outside
<1>. QED
  BY <1>2, <1>3, <1>4, <1>5, <1>6, StepCases

\* What a poll shows of a running import never goes backwards.
THEOREM ShownForward == Spec => ShownMovesForward
<1>1. IInv /\ CountInv /\ [Next]_vars =>
          [\A s \in Sessions :
              tracker[s].status = "running" /\ tracker'[s].status # "absent" =>
                  /\ tracker'[s].total >= tracker[s].total
                  /\ tracker'[s].processed >= tracker[s].processed
                  /\ tracker'[s].imported >= tracker[s].imported
                  /\ tracker'[s].failed >= tracker[s].failed]_vars
  BY ShownStep DEF Forward
<1>. QED
  BY <1>1, CountInductive, PTL DEF Spec, ShownMovesForward

-----------------------------------------------------------------------------
(* Nothing that was picked gets lost. *)

Missing(s) == {i \in Chosen(s) : ~PhotoExistsByMediaID(i)}

\* The picked images that the goroutine is through with and that are not in the table.
Lost(r) == {i \in Missing(sid[r]) : i \notin todo[r] /\ ~(pc[r] = "save" /\ i = item[r])}

LostIsFailed(r) == pc[r] \in RunStates => Cardinality(Lost(r)) <= count[r].failed

LostInv == DoneLosesNothing /\ \A r \in Requests : LostIsFailed(r)

LEMMA InitLostInv == Init => LostInv
  BY DEF Init, LostInv, DoneLosesNothing, LostIsFailed, RunStates, Absent, Fresh

LEMMA NotMore ==
    ASSUME NEW s \in Sessions, NEW A \in SUBSET Chosen(s), NEW B \in SUBSET A
    PROVE  Cardinality(A) \in Nat /\ Cardinality(B) \in Nat
           /\ Cardinality(B) <= Cardinality(A)
<1>1. IsFiniteSet(A)
  BY FS_Subset, PickerImportAssumption DEF Chosen
<1>. QED
  BY <1>1, FS_Subset, FS_CardinalityType

LEMMA OneMore ==
    ASSUME NEW s \in Sessions, NEW A \in SUBSET Chosen(s), NEW x,
           NEW B \in SUBSET (A \cup {x})
    PROVE  Cardinality(A) \in Nat /\ Cardinality(B) \in Nat
           /\ Cardinality(B) <= Cardinality(A) + 1
<1>1. IsFiniteSet(A)
  BY FS_Subset, PickerImportAssumption DEF Chosen
<1>2. IsFiniteSet(A \cup {x}) /\ Cardinality(A) \in Nat
      /\ Cardinality(A \cup {x}) \in {Cardinality(A), Cardinality(A) + 1}
  BY <1>1, FS_AddElement, FS_CardinalityType
<1>3. Cardinality(B) \in Nat /\ Cardinality(B) <= Cardinality(A \cup {x})
  BY <1>2, FS_Subset, FS_CardinalityType
<1>. QED
  BY <1>2, <1>3

\* No step takes a photo out of the table.
LEMMA PhotosStay ==
    ASSUME IInv, [Next]_vars, NEW s \in Sessions
    PROVE  Missing(s)' \subseteq Missing(s)
<1>1. \A i \in Items : photos[i] # NoUser => photos'[i] # NoUser
  <2>1. CASE \E r \in Requests : StartStep(r) \/ RunStep(r)
    <3>1. PICK r \in Requests : StartStep(r) \/ RunStep(r)
      BY <2>1
    <3>2. CASE SaveItem(r)
      BY <3>2 DEF SaveItem, SavePhoto, IInv, TypeOK
    <3>3. CASE ~SaveItem(r)
      <4>1. photos' = photos
        BY <3>1, <3>3 DEF StartStep, RunStep, EnsureToken, RefreshAndRetry, CollectItems,
             FailStart, SkipItem, DescribeItem, GiveUpItem, SaveItemError, Report,
             FinishImport, CloseSession
      <4>. QED
        BY <4>1
    <3>. QED
      BY <3>2, <3>3
  <2>2. CASE \/ Outside \/ Crash
             \/ \E t \in Sessions : \/ CreateSession(t) \/ PickItems(t)
                                    \/ DeleteSession(t)
                                    \/ \E r \in Requests : StartImport(r, t)
    BY <2>2 DEF Outside, Crash, CreateSession, PickItems, DeleteSession, StartImport
  <2>. QED
    BY <2>1, <2>2, StepCases
<1>. QED
  BY <1>1, PickerImportAssumption DEF Missing, Chosen, PhotoExistsByMediaID

\* A step of r: what it gives up it counts as failed.
LEMMA LostStep ==
    ASSUME IInv, [Next]_vars, NEW r \in Requests, LostIsFailed(r),
           StartStep(r) \/ RunStep(r)
    PROVE  LostIsFailed(r)'
<1>0. PICK s \in Sessions : s = sid[r]
  BY NamesSession
<1>1. /\ s = sid[r] /\ s \in Sessions /\ count[r].failed \in Nat
      /\ Lost(r) \subseteq Chosen(s) /\ Missing(s)' \subseteq Missing(s)
      /\ Missing(s) \subseteq Chosen(s) /\ Missing(s) \subseteq Items
  <2>1. count[r].failed \in Nat
    BY DEF IInv, TypeOK, Counts
  <2>2. Missing(s)' \subseteq Missing(s)
    BY PhotosStay
  <2>3. Missing(s) \subseteq Chosen(s) /\ Chosen(s) \subseteq Items
    BY PickerImportAssumption DEF Missing, Chosen
  <2>. QED
    BY <1>0, <2>1, <2>2, <2>3 DEF Lost
<1>2. CASE EnsureToken(r) \/ RefreshAndRetry(r) \/ FailStart(r) \/ CloseSession(r)
  BY <1>2 DEF EnsureToken, RefreshAndRetry, FailStart, CloseSession, Return, Enter,
              LostIsFailed, RunStates, IInv, TypeOK
<1>3. CASE CollectItems(r)
  <2>1. Lost(r)' = {} /\ count' = count
    BY <1>1, <1>3 DEF CollectItems, Lost, Missing, Chosen, IInv, TypeOK
  <2>. QED
    BY <1>1, <2>1, FS_EmptySet DEF LostIsFailed
<1>4. CASE SkipItem(r) \/ DescribeItem(r) \/ SaveItem(r) \/ Report(r) \/ FinishImport(r)
  <2>1. Lost(r)' \subseteq Lost(r) /\ pc[r] \in RunStates
    <3>1. CASE SkipItem(r)
      BY <1>1, <3>1 DEF SkipItem, Lost, Missing, PhotoExistsByMediaID, Enter, IInv,
                        TypeOK, RunStates
    <3>2. CASE DescribeItem(r)
      BY <1>1, <3>2 DEF DescribeItem, Lost, Enter, IInv, TypeOK, RunStates
    <3>3. CASE SaveItem(r)
      <4>1. item[r] \in Items /\ OwnerOf[s] # NoUser
        BY <1>1, <3>3, PickerImportAssumption DEF SaveItem, IInv, SidOK
      <4>2. item[r] \notin Missing(s)'
        BY <1>1, <3>3, <4>1
        DEF SaveItem, SavePhoto, Missing, PhotoExistsByMediaID, IInv, TypeOK
      <4>. QED
        BY <1>1, <3>3, <4>2 DEF SaveItem, Lost, RunStates
    <3>4. CASE Report(r) \/ FinishImport(r)
      BY <1>1, <3>4 DEF Report, FinishImport, Lost, RunStates
    <3>. QED
      BY <1>4, <3>1, <3>2, <3>3, <3>4
  <2>2. count'[r].failed \in Nat /\ count'[r].failed >= count[r].failed
    <3>1. \/ count' = count \/ Processed(r)
          \/ ProcessedAndImported(r) \/ ProcessedAndFailed(r)
      BY <1>4 DEF SkipItem, DescribeItem, SaveItem, Report, FinishImport
    <3>2. count'[r].failed \in {count[r].failed, count[r].failed + 1}
      BY <1>1, <3>1
      DEF Processed, ProcessedAndImported, ProcessedAndFailed, IInv, TypeOK, Counts
    <3>. QED
      BY <1>1, <3>2
  <2>3. Cardinality(Lost(r)') <= Cardinality(Lost(r))
        /\ Cardinality(Lost(r)) \in Nat /\ Cardinality(Lost(r)') \in Nat
    BY <1>1, <2>1, NotMore
  <2>4. Cardinality(Lost(r)) <= count[r].failed
    BY <2>1 DEF LostIsFailed
  <2>5. Cardinality(Lost(r)') <= count'[r].failed
    BY <1>1, <2>2, <2>3, <2>4
  <2>. QED
    BY <2>5 DEF LostIsFailed
<1>5. CASE GiveUpItem(r) \/ SaveItemError(r)
  <2>1. PICK x : Lost(r)' \subseteq Lost(r) \cup {x}
    <3>1. CASE GiveUpItem(r)
      BY <1>1, <3>1 DEF GiveUpItem, Lost, Enter, IInv, TypeOK
    <3>2. CASE SaveItemError(r)
      BY <1>1, <3>2 DEF SaveItemError, Lost
    <3>. QED
      BY <1>5, <3>1, <3>2
  <2>2. pc[r] \in RunStates /\ count'[r].failed = count[r].failed + 1
    BY <1>5 DEF GiveUpItem, SaveItemError, ProcessedAndFailed, RunStates, IInv, TypeOK,
                Counts
  <2>3. Cardinality(Lost(r)') <= Cardinality(Lost(r)) + 1
        /\ Cardinality(Lost(r)) \in Nat /\ Cardinality(Lost(r)') \in Nat
    BY <1>1, <2>1, OneMore
  <2>4. Cardinality(Lost(r)) <= count[r].failed
    BY <2>2 DEF LostIsFailed
  <2>5. Cardinality(Lost(r)') <= count'[r].failed
    BY <1>1, <2>2, <2>3, <2>4
  <2>. QED
    BY <2>5 DEF LostIsFailed
<1>. QED
  BY <1>2, <1>3, <1>4, <1>5 DEF StartStep, RunStep

\* A step of anybody else does not add to what q has lost.
LEMMA LostOthers ==
    ASSUME IInv, [Next]_vars, NEW q \in Requests, LostIsFailed(q),
           pc'[q] = pc[q], sid'[q] = sid[q], todo'[q] = todo[q], item'[q] = item[q],
           count'[q] = count[q]
    PROVE  LostIsFailed(q)'
<1>1. CASE pc[q] \notin RunStates
  BY <1>1 DEF LostIsFailed
<1>2. CASE pc[q] \in RunStates
  <2>1. sid[q] \in Sessions /\ count[q].failed \in Nat /\ Lost(q) \subseteq Chosen(sid[q])
    BY <1>2 DEF IInv, TypeOK, SidOK, Counts, RunStates, Lost, Missing
  <2>2. Missing(sid[q])' \subseteq Missing(sid[q])
    BY <2>1, PhotosStay
  <2>3. Lost(q)' \subseteq Lost(q)
    BY <2>2 DEF Lost
  <2>4. Cardinality(Lost(q)') <= Cardinality(Lost(q))
        /\ Cardinality(Lost(q)) \in Nat /\ Cardinality(Lost(q)') \in Nat
    BY <2>1, <2>3, NotMore
  <2>. QED
    BY <1>2, <2>1, <2>4 DEF LostIsFailed
<1>. QED
  BY <1>1, <1>2

LEMMA UpdateSetsStatus ==
    ASSUME tracker \in [Sessions -> Entries], NEW s \in Sessions, NEW st, NEW c,
           Update(s, st, c)
    PROVE  tracker'[s].status = st
<1>1. tracker'[s] = [tracker[s] EXCEPT !.status = st, !.processed = c.processed,
                                       !.imported = c.imported, !.failed = c.failed]
  BY DEF Update
<1>2. tracker[s] \in Entries
  OBVIOUS
<1>. QED
  BY <1>1, <1>2 DEF Entries

\* An entry that says done was so before or was set by the one action that says it.
LEMMA DoneByFinish ==
    ASSUME IInv, [Next]_vars, NEW s \in Sessions, tracker'[s].status = "done",
           tracker'[s] # tracker[s]
    PROVE  \E r \in Requests : FinishImport(r) /\ sid[r] = s
<1>1. PICK r \in Requests : StartStep(r) \/ RunStep(r)
  BY StepCases DEF Outside, CreateSession, PickItems, DeleteSession, StartImport, Crash,
                   Fresh, Absent, IInv, TypeOK
<1>2. s = sid[r] /\ tracker[s].status = "running"
  BY <1>1, TrackerWrites
<1>3. FinishImport(r)
  <2>1. ~FailStart(r) /\ ~Report(r) /\ ~CollectItems(r)
    <3>1. tracker[s] \in Entries /\ tracker'[s].status # tracker[s].status
      BY <1>2 DEF IInv, TypeOK
    <3>2. ~CollectItems(r)
      BY <1>2, <3>1 DEF CollectItems, Entries, IInv, TypeOK
    <3>3. ~FailStart(r)
      BY <1>2, <3>1 DEF FailStart, Entries, IInv, TypeOK
    <3>4. ~Report(r)
      <4>1. tracker \in [Sessions -> Entries]
        BY DEF IInv, TypeOK
      <4>. QED
        BY <1>2, <3>1, <4>1, UpdateSetsStatus DEF Report
    <3>. QED
      BY <3>2, <3>3, <3>4
  <2>2. tracker' = tracker \/ FinishImport(r)
    BY <1>1, <2>1
    DEF StartStep, RunStep, EnsureToken, RefreshAndRetry, SkipItem, DescribeItem,
        GiveUpItem, SaveItem, SaveItemError, CloseSession
  <2>. QED
    BY <2>2
<1>. QED
  BY <1>2, <1>3

LEMMA NextLostInv == IInv /\ CountInv /\ LostInv /\ [Next]_vars => LostInv'
<1> SUFFICES ASSUME IInv, CountInv, LostInv, [Next]_vars PROVE LostInv'
  OBVIOUS
<1>1. DoneLosesNothing'
  <2>1. SUFFICES ASSUME NEW s \in Sessions, tracker'[s].status = "done"
                 PROVE  /\ tracker'[s].processed = Cardinality(Chosen(s))
                        /\ Cardinality(Missing(s)') <= tracker'[s].failed
    BY DEF DoneLosesNothing, Missing, Chosen
  <2>2. Missing(s)' \subseteq Missing(s) /\ Missing(s) \subseteq Chosen(s)
    BY PhotosStay DEF Missing
  <2>3. /\ Cardinality(Missing(s)) \in Nat /\ Cardinality(Missing(s)') \in Nat
        /\ Cardinality(Missing(s)') <= Cardinality(Missing(s))
    BY <2>2, NotMore
  <2>4. CASE tracker'[s] = tracker[s]
    <3>1. /\ tracker[s].processed = Cardinality(Chosen(s))
          /\ Cardinality(Missing(s)) <= tracker[s].failed /\ tracker[s].failed \in Nat
      BY <2>1, <2>4 DEF LostInv, DoneLosesNothing, Missing, Chosen, IInv, TypeOK, Entries
    <3>. QED
      BY <2>3, <2>4, <3>1
  <2>5. CASE tracker'[s] # tracker[s]
    <3>1. PICK r \in Requests : FinishImport(r) /\ sid[r] = s
      BY <2>1, <2>5, DoneByFinish
    <3>2. /\ pc[r] = "walk" /\ todo[r] = {} /\ count[r] \in Counts /\ tracker[s] \in Entries
      BY <3>1 DEF FinishImport, IInv, TypeOK
    <3>3. /\ tracker'[s].processed = count[r].processed
          /\ tracker'[s].failed = count[r].failed
      BY <3>1, <3>2 DEF FinishImport, Update, Entries, IInv, TypeOK
    <3>4. count[r].processed + 0 + 0 = Cardinality(Chosen(s))
      BY <3>1, <3>2, FS_EmptySet DEF CountInv, Counted, RunStates
    <3>5. Lost(r) = Missing(s)
      BY <3>1, <3>2 DEF Lost
    <3>6. Cardinality(Missing(s)) <= count[r].failed
      BY <3>2, <3>5 DEF LostInv, LostIsFailed, RunStates
    <3>7. count[r].processed \in Nat /\ count[r].failed \in Nat
      BY <3>2 DEF Counts
    <3>. QED
      BY <2>3, <3>3, <3>4, <3>6, <3>7
  <2>. QED
    BY <2>4, <2>5
<1>2. ASSUME NEW q \in Requests PROVE LostIsFailed(q)'
  <2>1. LostIsFailed(q)
    BY DEF LostInv
  <2>2. CASE StartStep(q) \/ RunStep(q)
    BY <2>1, <2>2, LostStep
  <2>3. CASE \E r \in Requests \ {q} : StartStep(r) \/ RunStep(r)
    <3>1. PICK r \in Requests \ {q} : StartStep(r) \/ RunStep(r)
      BY <2>3
    <3>2. item'[q] = item[q]
      BY <3>1 DEF IInv, TypeOK, StartStep, RunStep, EnsureToken, RefreshAndRetry,
           CollectItems, FailStart, SkipItem, DescribeItem, GiveUpItem, SaveItem,
           SaveItemError, Report, FinishImport, CloseSession, Return
    <3>. QED
      BY <2>1, <3>1, <3>2, TrackerWrites, LostOthers
  <2>4. CASE \E t \in Sessions, r \in Requests : StartImport(r, t)
    <3>1. PICK t \in Sessions, r \in Requests : StartImport(r, t)
      BY <2>4
    <3>2. CASE q = r
      BY <3>1, <3>2 DEF StartImport, Enter, LostIsFailed, RunStates, IInv, TypeOK
    <3>3. CASE q # r
      BY <2>1, <3>1, <3>3, LostOthers DEF StartImport, Enter, IInv, TypeOK
    <3>. QED
      BY <3>2, <3>3
  <2>5. CASE \/ Outside
             \/ \E t \in Sessions : CreateSession(t) \/ PickItems(t) \/ DeleteSession(t)
    <3>1. UNCHANGED import
      BY <2>5 DEF Outside, CreateSession, PickItems, DeleteSession
    <3>. QED
      BY <2>1, <3>1, LostOthers DEF import
  <2>6. CASE Crash
    BY <2>6 DEF Crash, LostIsFailed, RunStates
  <2>. QED
    BY <2>2, <2>3, <2>4, <2>5, <2>6, StepCases
<1>. QED
  BY <1>1, <1>2 DEF LostInv

LEMMA LostInductive == Spec => [](IInv /\ CountInv /\ LostInv)
  BY InitIInv, InitCountInv, InitLostInv, NextIInv, NextCountInv, NextLostInv, PTL
  DEF Spec

\* An import that says done has visited every picked image, and the images that did not
\* reach the photos table are among those it reports as failed.
THEOREM DoneIsComplete == Spec => []DoneLosesNothing
  BY LostInductive, PTL DEF LostInv

-----------------------------------------------------------------------------
(* PickerImport implements ImportService. *)

\* A session that is imported has been created.
SessionInv == \A r \in Requests : pc[r] # "idle" => session[sid[r]] # "none"

LEMMA NextSessionInv == IInv /\ SessionInv /\ [Next]_vars => SessionInv'
<1> SUFFICES ASSUME IInv, SessionInv, [Next]_vars PROVE SessionInv'
  OBVIOUS
<1> USE DEF IInv, TypeOK, SidOK, SessionInv
<1>1. ASSUME NEW s \in Sessions,
             CreateSession(s) \/ PickItems(s) \/ DeleteSession(s)
      PROVE  SessionInv'
  BY <1>1 DEF CreateSession, PickItems, DeleteSession, import
<1>2. ASSUME NEW s \in Sessions, NEW r \in Requests, StartImport(r, s)
      PROVE  SessionInv'
  BY <1>2 DEF StartImport, Enter
<1>3. ASSUME NEW r \in Requests, StartStep(r) \/ RunStep(r)
      PROVE  SessionInv'
  <2>1. pc[r] # "idle" /\ (pc'[r] = "idle" \/ sid'[r] = sid[r])
    BY <1>3 DEF StartStep, RunStep, EnsureToken, RefreshAndRetry, CollectItems, FailStart,
         SkipItem, DescribeItem, GiveUpItem, SaveItem, SaveItemError, Report,
         FinishImport, CloseSession, StartStates, Return, Enter
  <2>2. \A s \in Sessions : session'[s] = "none" => session[s] = "none"
    BY <1>3 DEF StartStep, RunStep, EnsureToken, RefreshAndRetry, CollectItems, FailStart,
         SkipItem, DescribeItem, GiveUpItem, SaveItem, SaveItemError, Report,
         FinishImport, CloseSession
  <2>3. \A q \in Requests \ {r} : pc'[q] = pc[q] /\ sid'[q] = sid[q]
    BY <1>3, TrackerWrites
  <2>. QED
    BY <2>1, <2>2, <2>3
<1>4. CASE Crash
  BY <1>4 DEF Crash
<1>5. CASE Outside
  BY <1>5 DEF Outside, import
<1>. QED
  BY <1>1, <1>2, <1>3, <1>4, <1>5, StepCases

LEMMA SessionInductive == Spec => [](IInv /\ SessionInv)
<1>1. Init => SessionInv
  BY DEF Init, SessionInv
<1>. QED
  BY <1>1, InitIInv, NextIInv, NextSessionInv, PTL DEF Spec

Starting(s) == \E r \in Requests : sid[r] = s /\ pc[r] \in StartStates

\* A request that starts or runs shows as such.
LEMMA StageOfImporter ==
    ASSUME IInv, NEW r \in Requests, NEW s \in Sessions, sid[r] = s
    PROVE  /\ pc[r] \in StartStates => Stage[s] = "starting"
           /\ pc[r] \in RunStates => Stage[s] = "going"
<1>1. pc[r] \in StartStates \cup RunStates => tracker[s].status = "running"
  BY DEF IInv, RunningIffImporting, Importing
<1>2. pc[r] \in RunStates => ~Starting(s)
  BY DEF IInv, OneImporterPerSession, Importing, Starting, StartStates, RunStates
<1>. QED
  BY <1>1, <1>2 DEF Stage, Starting

GoingShown ==
    \A q \in Requests, t \in Sessions :
        sid[q] = t /\ pc[q] \in RunStates => Stage[t] = "going"

LEMMA GoingIsShown == IInv => GoingShown
  BY StageOfImporter DEF GoingShown

\* The stage of a session whose entry and starting requests stay as they are.
LEMMA SameStage ==
    ASSUME NEW s \in Sessions, tracker'[s].status = tracker[s].status,
           Starting(s)' <=> Starting(s)
    PROVE  Stage'[s] = Stage[s]
  BY DEF Stage, Starting

LEMMA ServiceStep ==
    ASSUME IInv, SessionInv, [Next]_vars
    PROVE  [Service!Next]_(Service!vars)
<1> USE DEF Service!Next, Service!vars
<1>0. \A f : f = Stage \/ f = Stage' => f = [s \in Sessions |-> f[s]]
  BY DEF Stage
<1>1. ASSUME NEW s \in Sessions,
             CreateSession(s) \/ PickItems(s) \/ DeleteSession(s)
      PROVE  Service!Next
  <2>1. Stage' = Stage
    BY <1>1 DEF CreateSession, PickItems, DeleteSession, import, Stage
  <2>2. \/ Service!CreateSession(s) \/ Service!PickItems(s) \/ Service!DeleteSession(s)
    BY <1>1, <2>1
    DEF CreateSession, PickItems, DeleteSession, Service!CreateSession,
        Service!PickItems, Service!DeleteSession
  <2>. QED
    BY <2>2
<1>2. ASSUME NEW s \in Sessions, NEW r \in Requests, StartImport(r, s)
      PROVE  Service!Next
  <2>1. /\ pc' = [pc EXCEPT ![r] = "token"] /\ sid' = [sid EXCEPT ![r] = s]
        /\ tracker' = [tracker EXCEPT ![s] = Fresh] /\ session' = session
        /\ pc[r] = "idle" /\ session[s] # "none" /\ tracker[s].status # "running"
    BY <1>2 DEF StartImport, Enter
  <2>2. Stage[s] \in {"absent", "done", "failed"}
    BY <2>1 DEF Stage, IInv, TypeOK, Entries, Statuses
  <2>3. Stage'[s] = "starting"
    <3>1. tracker'[s].status = "running" /\ sid'[r] = s /\ pc'[r] \in StartStates
      BY <2>1 DEF IInv, TypeOK, Fresh, StartStates
    <3>. QED
      BY <3>1 DEF Stage
  <2>4. ASSUME NEW t \in Sessions, t # s PROVE Stage'[t] = Stage[t]
    <3>1. Starting(t)' <=> Starting(t)
      BY <2>1, <2>4 DEF Starting, StartStates, IInv, TypeOK
    <3>2. tracker'[t].status = tracker[t].status
      BY <2>1, <2>4 DEF IInv, TypeOK
    <3>. QED
      BY <3>1, <3>2, SameStage
  <2>5. Stage' = [Stage EXCEPT ![s] = "starting"]
    BY <1>0, <2>3, <2>4
  <2>6. Service!Start(s)
    BY <2>1, <2>2, <2>5 DEF Service!Start, Service!Move
  <2>. QED
    BY <2>6
<1>3. ASSUME NEW r \in Requests, StartStep(r) \/ RunStep(r)
      PROVE  [Service!Next]_(Service!vars)
  <2>1. PICK s \in Sessions : s = sid[r]
    BY <1>3, NamesSession
  <2>2. ASSUME NEW t \in Sessions, t # s PROVE Stage'[t] = Stage[t]
    <3>1. Starting(t)' <=> Starting(t)
      <4>1. \A q \in Requests \ {r} : pc'[q] = pc[q] /\ sid'[q] = sid[q]
        BY <1>3, TrackerWrites
      <4>2. sid'[r] = sid[r] \/ pc'[r] = "idle"
        BY <1>3 DEF StartStep, RunStep, EnsureToken, RefreshAndRetry, CollectItems,
             FailStart, SkipItem, DescribeItem, GiveUpItem, SaveItem, SaveItemError,
             Report, FinishImport, CloseSession, Return, Enter, IInv, TypeOK
      <4>. QED
        BY <2>1, <2>2, <4>1, <4>2 DEF Starting, StartStates
    <3>2. tracker'[t].status = tracker[t].status
      BY <1>3, <2>1, <2>2, TrackerWrites
    <3>. QED
      BY <3>1, <3>2, SameStage
  <2>3. ASSUME Stage'[s] = Stage[s] PROVE Stage' = Stage
    BY <1>0, <2>2, <2>3
  <2>4. ASSUME NEW x, Stage'[s] = x PROVE Stage' = [Stage EXCEPT ![s] = x]
    BY <1>0, <2>2, <2>4
  <2> USE DEF Enter, Return
  <2>5. ASSUME UNCHANGED tracker, sid'[r] = s, pc[r] \in StartStates, pc'[r] \in StartStates
        PROVE  Stage' = Stage
    <3>1. Starting(s) /\ Starting(s)'
      BY <2>1, <2>5 DEF Starting
    <3>. QED
      BY <2>3, <2>5, <3>1, SameStage
  <2>6. ASSUME tracker'[s].status = tracker[s].status, pc[r] \notin StartStates,
               pc'[r] \notin StartStates
        PROVE  Stage' = Stage
    <3>1. \A q \in Requests \ {r} : pc'[q] = pc[q] /\ sid'[q] = sid[q]
      BY <1>3, TrackerWrites
    <3>2. Starting(s)' <=> Starting(s)
      BY <2>6, <3>1 DEF Starting
    <3>. QED
      BY <2>3, <2>6, <3>2, SameStage
  <2>7. CASE EnsureToken(r) \/ RefreshAndRetry(r)
    BY <2>1, <2>5, <2>7 DEF EnsureToken, RefreshAndRetry, StartStates, IInv, TypeOK
  <2>8. CASE CollectItems(r)
    <3>1. pc[r] \in StartStates /\ pc'[r] \in RunStates /\ sid'[r] = s
          /\ session[s] = "picked" /\ session' = session
      BY <2>1, <2>8 DEF CollectItems, StartStates, RunStates, IInv, TypeOK
    <3>2. Stage[s] = "starting"
      BY <2>1, <3>1, StageOfImporter
    <3>3. Stage'[s] = "going"
      <4>1. (IInv => GoingShown)'
        BY GoingIsShown, PTL
      <4>2. IInv'
        BY NextIInv
      <4>. QED
        BY <2>1, <3>1, <4>1, <4>2 DEF GoingShown
    <3>4. Service!Accept(s)
      BY <2>4, <3>1, <3>2, <3>3 DEF Service!Accept, Service!Move
    <3>. QED
      BY <3>4
  <2>9. CASE FailStart(r)
    <3>1. Stage[s] = "starting"
      BY <2>1, <2>9, StageOfImporter DEF FailStart
    <3>2. Stage'[s] = "failed"
      <4>1. tracker'[s].status = "failed"
        BY <2>1, <2>9 DEF FailStart, IInv, TypeOK, Entries
      <4>. QED
        BY <4>1 DEF Stage
    <3>3. Service!Fail(s)
      BY <2>4, <2>9, <3>1, <3>2 DEF FailStart, Service!Fail, Service!Move
    <3>. QED
      BY <3>3
  <2>10. CASE \/ SkipItem(r) \/ DescribeItem(r) \/ GiveUpItem(r) \/ SaveItem(r)
              \/ SaveItemError(r)
    BY <2>6, <2>10
    DEF SkipItem, DescribeItem, GiveUpItem, SaveItem, SaveItemError, StartStates, IInv,
        TypeOK
  <2>11. CASE Report(r)
    <3>1. tracker[s].status = "running"
      BY <2>1, <2>11
      DEF Report, IInv, RunningIffImporting, Importing, RunStates
    <3>2. tracker'[s].status = "running"
      BY <2>1, <2>11 DEF Report, Update, IInv, TypeOK, Entries
    <3>. QED
      BY <2>6, <2>11, <3>1, <3>2 DEF Report, StartStates, IInv, TypeOK
  <2>12. CASE FinishImport(r)
    <3>1. Stage[s] = "going"
      BY <2>1, <2>12, StageOfImporter DEF FinishImport, RunStates
    <3>2. Stage'[s] = "done"
      <4>1. tracker'[s].status = "done"
        BY <2>1, <2>12 DEF FinishImport, Update, IInv, TypeOK, Entries
      <4>. QED
        BY <4>1 DEF Stage
    <3>3. Service!Finish(s)
      BY <2>4, <2>12, <3>1, <3>2 DEF FinishImport, Service!Finish, Service!Move
    <3>. QED
      BY <3>3
  <2>13. CASE CloseSession(r)
    <3>1. Stage' = Stage
      BY <2>6, <2>13 DEF CloseSession, StartStates, IInv, TypeOK
    <3>2. session' = session \/ Service!DeleteSession(s)
      BY <2>1, <2>13, <3>1 DEF CloseSession, Service!DeleteSession, SessionInv
    <3>. QED
      BY <3>1, <3>2
  <2>. QED
    BY <1>3, <2>7, <2>8, <2>9, <2>10, <2>11, <2>12, <2>13 DEF StartStep, RunStep
<1>4. CASE Crash
  <2>1. Stage' = [s \in Sessions |-> "absent"]
    BY <1>4 DEF Crash, Stage, Absent, Fresh
  <2>2. Service!Forget
    BY <1>4, <2>1 DEF Crash, Service!Forget
  <2>. QED
    BY <2>2
<1>5. CASE Outside
  BY <1>5 DEF Outside, import, Stage
<1>. QED
  BY <1>1, <1>2, <1>3, <1>4, <1>5, StepCases

\* The handlers, the tracker and the goroutines implement ImportService.
THEOREM ImplementsImportService == Spec => ServiceSpec
<1>1. Init => Service!Init
  BY DEF Init, Service!Init, Stage, Absent, Fresh
<1>2. IInv /\ SessionInv /\ [Next]_vars => [Service!Next]_(Service!vars)
  BY ServiceStep
<1>. QED
  BY <1>1, <1>2, SessionInductive, PTL DEF Spec, ServiceSpec, Service!Spec

-----------------------------------------------------------------------------
(* An import ends by itself. *)

\* What is left to do for a request: three for each image to visit, and a weight for
\* the step it is at.
StepsLeft(r) ==
    IF pc[r] \in StartStates
    THEN 3 * Cardinality(Chosen(sid[r])) +
             (IF pc[r] = "token" THEN 5 ELSE IF pc[r] = "collect" THEN 4 ELSE 3)
    ELSE IF pc[r] \in RunStates
    THEN 3 * Cardinality(todo[r]) +
             (IF pc[r] = "save" THEN 4 ELSE IF pc[r] = "report" THEN 3 ELSE 2)
    ELSE IF pc[r] = "close" THEN 1 ELSE 0

\* An import that was accepted takes at most 3 steps for each image picked and 5 more,
\* whatever other imports write, sessions are deleted and calls fail: each of its steps
\* leaves it less to do, and no step of anybody else gives it more.
ImportShrinks ==
    [][\A r \in Requests : pc[r] # "idle" =>
          UNCHANGED <<pc[r], sid[r], todo[r]>> \/ StepsLeft(r)' < StepsLeft(r)]_vars

\* The images of a session, and those of them that are left to an import.
LEMMA LeftNumbers ==
    ASSUME IInv, CountInv, NEW r \in Requests
    PROVE  /\ pc[r] \in StartStates => Cardinality(Chosen(sid[r])) \in Nat
           /\ pc[r] \in RunStates => /\ todo[r] \in SUBSET Chosen(sid[r])
                                     /\ sid[r] \in Sessions
                                     /\ Cardinality(todo[r]) \in Nat
<1>1. ASSUME NEW s \in Sessions, NEW T \in SUBSET Chosen(s)
      PROVE  Cardinality(T) \in Nat
  BY FS_Subset, FS_CardinalityType, PickerImportAssumption DEF Chosen
<1>2. pc[r] \in StartStates \cup RunStates => sid[r] \in Sessions
  BY DEF IInv, SidOK, StartStates, RunStates
<1>3. pc[r] \in RunStates => todo[r] \in SUBSET Chosen(sid[r])
  BY DEF CountInv, Counted
<1>. QED
  BY <1>1, <1>2, <1>3

\* A request that ends has nothing left to do.
LEMMA ReturnShrinks ==
    ASSUME IInv, CountInv, NEW r \in Requests, pc[r] # "idle", pc'[r] = "idle"
    PROVE  StepsLeft(r)' < StepsLeft(r)
<1>1. StepsLeft(r)' = 0
  BY DEF StepsLeft, StartStates, RunStates
<1>2. pc[r] \in StartStates \cup RunStates \cup {"close"}
  BY DEF IInv, TypeOK
<1>. QED
  BY <1>1, <1>2, LeftNumbers DEF StepsLeft

LEMMA ImportStepShrinks ==
    ASSUME IInv, CountInv, NEW r \in Requests, StartStep(r) \/ RunStep(r)
    PROVE  StepsLeft(r)' < StepsLeft(r)
<1> USE DEF Enter, Return
<1>0. /\ pc \in [Requests -> StartStates \cup RunStates \cup {"idle", "close"}]
      /\ todo \in [Requests -> SUBSET Items] /\ sid \in [Requests -> Sessions \cup {NoSession}]
  BY DEF IInv, TypeOK
<1>1. CASE EnsureToken(r) \/ RefreshAndRetry(r)
  <2>1. /\ pc[r] \in StartStates /\ sid'[r] = sid[r]
        /\ \/ pc[r] = "token" /\ pc'[r] = "collect"
           \/ pc[r] = "collect" /\ pc'[r] = "relist"
    BY <1>0, <1>1 DEF EnsureToken, RefreshAndRetry, StartStates
  <2>. QED
    BY <2>1, LeftNumbers DEF StepsLeft, StartStates
<1>2. CASE CollectItems(r)
  <2>1. /\ pc[r] \in StartStates /\ pc[r] # "token" /\ pc'[r] = "walk"
        /\ todo'[r] = Chosen(sid[r])
    BY <1>0, <1>2 DEF CollectItems, StartStates, Chosen
  <2>2. StepsLeft(r)' = 3 * Cardinality(Chosen(sid[r])) + 2
    BY <2>1 DEF StepsLeft, StartStates, RunStates
  <2>. QED
    BY <2>1, <2>2, LeftNumbers DEF StepsLeft
<1>3. ASSUME NEW i \in todo[r], pc[r] = "walk", todo'[r] = todo[r] \ {i},
             pc'[r] \in {"report", "save"}
      PROVE  StepsLeft(r)' < StepsLeft(r)
  <2>1. sid[r] \in Sessions /\ todo[r] \in SUBSET Chosen(sid[r])
    BY <1>3, LeftNumbers DEF RunStates
  <2>2. /\ Cardinality(todo[r] \ {i}) \in Nat
        /\ Cardinality(todo[r]) = Cardinality(todo[r] \ {i}) + 1
    BY <2>1, TakeItem
  <2>. QED
    BY <1>3, <2>2 DEF StepsLeft, StartStates, RunStates
<1>4. CASE SkipItem(r) \/ DescribeItem(r) \/ GiveUpItem(r)
  BY <1>0, <1>3, <1>4 DEF SkipItem, DescribeItem, GiveUpItem
<1>5. CASE SaveItem(r) \/ SaveItemError(r) \/ Report(r)
  <2>1. /\ todo'[r] = todo[r] /\ pc[r] \in RunStates
        /\ \/ pc[r] = "save" /\ pc'[r] = "report"
           \/ pc[r] = "report" /\ pc'[r] = "walk"
    BY <1>0, <1>5 DEF SaveItem, SaveItemError, Report, RunStates
  <2>. QED
    BY <2>1, LeftNumbers DEF StepsLeft, StartStates, RunStates
<1>6. CASE FinishImport(r)
  <2>1. pc[r] = "walk" /\ pc[r] \in RunStates /\ pc'[r] = "close"
    BY <1>0, <1>6 DEF FinishImport, RunStates
  <2>. QED
    BY <2>1, LeftNumbers DEF StepsLeft, StartStates, RunStates
<1>7. CASE FailStart(r) \/ CloseSession(r)
  <2>1. pc[r] # "idle" /\ pc'[r] = "idle"
    BY <1>0, <1>7 DEF FailStart, CloseSession, StartStates
  <2>. QED
    BY <2>1, ReturnShrinks
<1>. QED
  BY <1>1, <1>2, <1>4, <1>5, <1>6, <1>7 DEF StartStep, RunStep

\* Every accepted import comes to its end in a bounded number of its own steps;
\* ImportEnds adds that it takes them.
THEOREM ImportsEnd == Spec => ImportShrinks
<1>1. ASSUME IInv, CountInv, [Next]_vars, NEW r \in Requests, pc[r] # "idle"
      PROVE  UNCHANGED <<pc[r], sid[r], todo[r]>> \/ StepsLeft(r)' < StepsLeft(r)
  <2>1. CASE \E s \in Sessions :
                 \/ CreateSession(s) \/ PickItems(s) \/ DeleteSession(s)
                 \/ \E q \in Requests : StartImport(q, s)
    BY <1>1, <2>1 DEF CreateSession, PickItems, DeleteSession, StartImport, Enter,
                      import, IInv, TypeOK
  <2>2. ASSUME NEW q \in Requests, StartStep(q) \/ RunStep(q)
        PROVE  UNCHANGED <<pc[r], sid[r], todo[r]>> \/ StepsLeft(r)' < StepsLeft(r)
    BY <1>1, <2>2, TrackerWrites, ImportStepShrinks
  <2>3. CASE Crash
    <3>1. pc'[r] = "idle"
      BY <2>3 DEF Crash
    <3>. QED
      BY <1>1, <3>1, ReturnShrinks
  <2>4. CASE Outside
    BY <2>4 DEF Outside, import
  <2>. QED
    BY <1>1, <2>1, <2>2, <2>3, <2>4, StepCases
<1>2. IInv /\ CountInv /\ [Next]_vars =>
          [\A r \in Requests : pc[r] # "idle" =>
              UNCHANGED <<pc[r], sid[r], todo[r]>> \/ StepsLeft(r)' < StepsLeft(r)]_vars
  BY <1>1
<1>. QED
  BY <1>2, CountInductive, PTL DEF Spec, ImportShrinks

=============================================================================
