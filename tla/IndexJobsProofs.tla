--------------------------- MODULE IndexJobsProofs ---------------------------
(***************************************************************************)
(* Proofs about IndexJobs, for every number of users, handlers, workers,   *)
(* items, jobs and faults.                                                 *)
(***************************************************************************)
EXTENDS IndexJobs, FiniteSetTheorems, TLAPS

\* Each user has one request in flight at a time.
OneHandlerPerUser ==
    \A g, h \in Handlers : UserOf[g] = UserOf[h] => g = h

-----------------------------------------------------------------------------
(* The inductive invariants. *)

\* A worker holds a job exactly while it is in a transaction or in a run, and what
\* it holds is still in the state it found or left it in.
HeldOK ==
    \A w \in Workers :
        /\ wpc[w] \in {"poll", "down"} <=> held[w] = NoJob
        /\ wpc[w] = "tx" => status[held[w]] = "queued"
        /\ wpc[w] \in RunStates => status[held[w]] = "running"

\* A row about to be inserted is nobody else's and not in the table.
NewOK ==
    /\ \A h \in Handlers : hpc[h] = "insert" =>
          new[h] \in 1 .. created /\ status[new[h]] = "none"
    /\ \A g, h \in Handlers :
          hpc[g] = "insert" /\ hpc[h] = "insert" /\ g # h => new[g] # new[h]

RowsOK ==
    \A j \in Jobs : status[j] # "none" => j <= created /\ owner[j] \in Users

IInv == TypeOK /\ HeldOK /\ OneRunnerPerJob /\ NewOK /\ RowsOK

\* A handler past its check belongs to a user without an active job.
CheckOK ==
    \A h \in Handlers :
        hpc[h] \in {"create", "insert"} => ~HasActiveJob(UserOf[h])

UserInv == CheckOK /\ OneActivePerUser

\* The images of the library a worker has not dealt with are in its locals.
Cover(w) ==
    /\ wpc[w] \in {"list", "walk", "save", "progress", "finish"} =>
          \A i \in Library[owner[held[w]]] \cap Images :
              \/ i \in loc[w].unlisted \cup loc[w].page
              \/ wpc[w] = "save" /\ i = loc[w].item
              \/ PhotoExistsByMediaID(i)
    /\ wpc[w] \in {"list", "finish"} => loc[w].page = {}
    /\ wpc[w] = "finish" => loc[w].unlisted = {}
    /\ wpc[w] = "save" => loc[w].item \in Items

CoverOK == \A w \in Workers : Cover(w)

\* The photos table only grows.
PhotosGrow == \A i \in Items : photos[i] # NoUser => photos'[i] # NoUser

\* A step taken outside the API and the workers: nothing, or a photo imported.
Outside ==
    /\ UNCHANGED <<table, handler, worker, faults>>
    /\ PhotosGrow
    /\ \A i \in Items :
          \/ photos'[i] = photos[i]
          \/ /\ photos[i] = NoUser
             /\ i \in Images /\ photos'[i] \in Pickers

-----------------------------------------------------------------------------

LEMMA InitIInv == Init => IInv
  BY IndexJobsAssumption
     DEF Init, IInv, TypeOK, HeldOK, OneRunnerPerJob, NewOK, RowsOK, Jobs, NoJob,
         Statuses, HandlerStates, WorkerStates, RunStates, Locals, NoLocals

\* Indexer.Run keeps its local variables well typed.
LEMMA LocalsTyped ==
    ASSUME loc \in [Workers -> Locals], NEW w \in Workers,
           ListPage(w) \/ SkipItem(w) \/ DescribeItem(w) \/ SaveItem(w)
    PROVE  loc' \in [Workers -> Locals]
<1>1. CASE ListPage(w)
  <2>1. PICK batch \in SUBSET loc[w].unlisted :
            loc' = [loc EXCEPT ![w].page = batch, ![w].unlisted = @ \ batch]
    BY <1>1 DEF ListPage
  <2>2. [loc[w] EXCEPT !.page = batch, !.unlisted = @ \ batch] \in Locals
    BY DEF Locals
  <2>. QED
    BY <2>1, <2>2
<1>2. CASE SkipItem(w)
  <2>1. PICK i \in loc[w].page : loc' = [loc EXCEPT ![w].page = @ \ {i}]
    BY <1>2 DEF SkipItem
  <2>2. [loc[w] EXCEPT !.page = @ \ {i}] \in Locals
    BY DEF Locals
  <2>. QED
    BY <2>1, <2>2
<1>3. CASE DescribeItem(w)
  <2>1. PICK i \in loc[w].page \cap Images :
            loc' = [loc EXCEPT ![w].page = @ \ {i}, ![w].item = i]
    BY <1>3 DEF DescribeItem
  <2>2. i \in Items /\ loc[w] \in Locals
    BY DEF Locals
  <2>3. [loc[w] EXCEPT !.page = @ \ {i}, !.item = i] \in Locals
    BY <2>2 DEF Locals
  <2>. QED
    BY <2>1, <2>3
<1>4. CASE SaveItem(w)
  <2>1. loc[w] \in Locals /\ loc[w].processed + 1 \in Nat
    BY DEF Locals
  <2>2. [loc[w] EXCEPT !.item = NoItem, !.processed = @ + 1] \in Locals
    BY <2>1 DEF Locals
  <2>. QED
    BY <1>4, <2>2 DEF SaveItem
<1>. QED
  BY <1>1, <1>2, <1>3, <1>4

\* An import stores one photo, for a user who uses the picker.
LEMMA ImportWrites ==
    ASSUME TypeOK, NEW i \in Items \cap Images, NEW u \in Pickers, ImportPhoto(i, u)
    PROVE  /\ photos' \in [Items -> Users \cup {NoUser}]
           /\ Outside
<1>1. u \in Users /\ u # NoUser
  BY IndexJobsAssumption, PickersAreUsers
<1>2. /\ photos' = [photos EXCEPT ![i] = u] /\ photos[i] = NoUser
      /\ UNCHANGED <<table, handler, worker, faults>>
  BY DEF ImportPhoto, SavePhoto, PhotoExistsByMediaID, TypeOK
<1>. QED
  BY <1>1, <1>2 DEF TypeOK, Outside, PhotosGrow

LEMMA NextIInv == IInv /\ [Next]_vars => IInv'
<1> SUFFICES ASSUME IInv, [Next]_vars PROVE IInv'
  OBVIOUS
<1> USE IndexJobsAssumption
<1> USE DEF IInv, TypeOK, HeldOK, OneRunnerPerJob, NewOK, RowsOK, Jobs, NoJob,
            Statuses, HandlerStates, WorkerStates, RunStates, Locals, NoLocals,
            table, handler, worker, Enter, Leave, Fault
<1>1. ASSUME NEW h \in Handlers, CheckActive(h) PROVE IInv'
  BY <1>1 DEF CheckActive
<1>2. ASSUME NEW h \in Handlers, StampJob(h) PROVE IInv'
  BY <1>2 DEF StampJob
<1>3. ASSUME NEW h \in Handlers, InsertJob(h) PROVE IInv'
  BY <1>3 DEF InsertJob
<1>4. ASSUME NEW h \in Handlers, AbortRequest(h) PROVE IInv'
  BY <1>4 DEF AbortRequest
<1>5. ASSUME NEW w \in Workers, PollEmpty(w) PROVE IInv'
  BY <1>5 DEF PollEmpty, vars
<1>6. ASSUME NEW w \in Workers, LockJob(w) PROVE IInv'
  BY <1>6 DEF LockJob, NextQueued, Lockable
<1>7. ASSUME NEW w \in Workers, CommitJob(w) PROVE IInv'
  BY <1>7 DEF CommitJob
<1>8. ASSUME NEW w \in Workers, CommitJobLost(w) PROVE IInv'
  BY <1>8 DEF CommitJobLost
<1>9. ASSUME NEW w \in Workers, RollbackJob(w) PROVE IInv'
  BY <1>9 DEF RollbackJob
<1>10. ASSUME NEW w \in Workers, EnsureToken(w) PROVE IInv'
  BY <1>10 DEF EnsureToken
<1>11. ASSUME NEW w \in Workers, ListPage(w) PROVE IInv'
  <2>1. loc' \in [Workers -> Locals]
    BY <1>11, LocalsTyped
  <2>2. PICK p \in RunStates : wpc' = [wpc EXCEPT ![w] = p]
    BY <1>11 DEF ListPage, Resume
  <2>3. UNCHANGED <<table, photos, handler, held, faults>> /\ wpc[w] \in RunStates
    BY <1>11 DEF ListPage
  <2>. QED
    BY <2>1, <2>2, <2>3
<1>12. ASSUME NEW w \in Workers, SkipItem(w) PROVE IInv'
  <2>1. loc' \in [Workers -> Locals]
    BY <1>12, LocalsTyped
  <2>2. PICK p \in RunStates : wpc' = [wpc EXCEPT ![w] = p]
    BY <1>12 DEF SkipItem, Resume
  <2>3. UNCHANGED <<table, photos, handler, held, faults>> /\ wpc[w] \in RunStates
    BY <1>12 DEF SkipItem
  <2>. QED
    BY <2>1, <2>2, <2>3
<1>13. ASSUME NEW w \in Workers, DescribeItem(w) PROVE IInv'
  <2>1. loc' \in [Workers -> Locals]
    BY <1>13, LocalsTyped
  <2>2. PICK p \in RunStates : wpc' = [wpc EXCEPT ![w] = p]
    BY <1>13 DEF DescribeItem
  <2>3. UNCHANGED <<table, photos, handler, held, faults>> /\ wpc[w] \in RunStates
    BY <1>13 DEF DescribeItem
  <2>. QED
    BY <2>1, <2>2, <2>3
<1>14. ASSUME NEW w \in Workers, SaveItem(w) PROVE IInv'
  <2>1. loc' \in [Workers -> Locals]
    BY <1>14, LocalsTyped
  <2>2. owner[held[w]] \in Users
    BY <1>14 DEF SaveItem
  <2>3. photos' \in [Items -> Users \cup {NoUser}]
    BY <1>14, <2>2 DEF SaveItem, SavePhoto
  <2>4. PICK p \in RunStates : wpc' = [wpc EXCEPT ![w] = p]
    BY <1>14 DEF SaveItem
  <2>5. UNCHANGED <<table, handler, held, faults>> /\ wpc[w] \in RunStates
    BY <1>14 DEF SaveItem
  <2>. QED
    BY <2>1, <2>3, <2>4, <2>5
<1>15. ASSUME NEW w \in Workers, SaveProgress(w) PROVE IInv'
  BY <1>15 DEF SaveProgress, Resume, ShownProgress, UpdateJobProgress
<1>16. ASSUME NEW w \in Workers, RunError(w) PROVE IInv'
  BY <1>16 DEF RunError
<1>17. ASSUME NEW w \in Workers, MarkDone(w) PROVE IInv'
  BY <1>17 DEF MarkDone, UpdateJobStatus
<1>18. ASSUME NEW w \in Workers, MarkFailed(w) PROVE IInv'
  BY <1>18 DEF MarkFailed, UpdateJobStatus
<1>19. ASSUME NEW w \in Workers, MarkLost(w) PROVE IInv'
  BY <1>19 DEF MarkLost
<1>20. ASSUME NEW w \in Workers, Crash(w) PROVE IInv'
  BY <1>20 DEF Crash
<1>21. ASSUME NEW w \in Workers, Restart(w) PROVE IInv'
  BY <1>21 DEF Restart
<1>22. ASSUME NEW i \in Items \cap Images, NEW u \in Pickers, ImportPhoto(i, u)
       PROVE  IInv'
  <2>1. /\ photos' \in [Items -> Users \cup {NoUser}]
        /\ UNCHANGED <<table, handler, worker, faults>>
    BY <1>22, ImportWrites DEF Outside
  <2>. QED
    BY <2>1
<1>23. CASE UNCHANGED vars
  BY <1>23 DEF vars
<1>. QED
  BY <1>1, <1>2, <1>3, <1>4, <1>5, <1>6, <1>7, <1>8, <1>9, <1>10, <1>11, <1>12, <1>13, <1>14, <1>15, <1>16, <1>17, <1>18, <1>19, <1>20, <1>21, <1>22, <1>23
  DEF Next, HandlerStep, WorkerStep, RunStep, WorkerFault

LEMMA Inductive == Spec => []IInv
  BY InitIInv, NextIInv, PTL DEF Spec

\* Handlers, workers and the tables they share keep their types.
THEOREM TypeCorrect == Spec => []TypeOK
  BY Inductive, PTL DEF IInv

\* No two workers ever lock or run the same job.
THEOREM RunnerUnique == Spec => []OneRunnerPerJob
  BY Inductive, PTL DEF IInv

-----------------------------------------------------------------------------
(* What ends stays ended, and an orphan locks its user out. *)

\* A worker changes the status and the progress of the job it holds, if any, and
\* that job is queued or running.
LEMMA WorkerWrites ==
    ASSUME IInv, NEW w \in Workers,
           PollEmpty(w) \/ WorkerStep(w) \/ WorkerFault(w) \/ Restart(w)
    PROVE  /\ UNCHANGED <<owner, handler>>
           /\ \A j \in Jobs : j # held[w] => /\ status'[j] = status[j]
                                            /\ progress'[j] = progress[j]
           /\ held[w] \in Jobs => /\ Active(held[w])
                                  /\ status'[held[w]] # "none"
           /\ \A v \in Workers \ {w} : held'[v] = held[v]
           /\ held'[w] # held[w] /\ held'[w] \in Jobs => held'[w] \in Lockable
<1> USE DEF IInv, TypeOK, HeldOK, Jobs, NoJob, RunStates, table, handler, worker,
            Enter, Leave, Fault, Active
<1>1. CASE PollEmpty(w)
  BY <1>1 DEF PollEmpty, vars
<1>2. CASE LockJob(w)
  BY <1>2 DEF LockJob, NextQueued
<1>3. CASE CommitJob(w)
  BY <1>3 DEF CommitJob
<1>4. CASE EnsureToken(w)
  BY <1>4 DEF EnsureToken
<1>5. CASE ListPage(w)
  BY <1>5 DEF ListPage
<1>6. CASE SkipItem(w)
  BY <1>6 DEF SkipItem
<1>7. CASE DescribeItem(w)
  BY <1>7 DEF DescribeItem
<1>8. CASE SaveItem(w)
  BY <1>8 DEF SaveItem
<1>9. CASE SaveProgress(w)
  BY <1>9 DEF SaveProgress, UpdateJobProgress
<1>10. CASE RunError(w)
  BY <1>10 DEF RunError
<1>11. CASE MarkDone(w)
  BY <1>11 DEF MarkDone, UpdateJobStatus
<1>12. CASE MarkFailed(w)
  BY <1>12 DEF MarkFailed, UpdateJobStatus
<1>13. CASE CommitJobLost(w)
  BY <1>13 DEF CommitJobLost
<1>14. CASE RollbackJob(w)
  BY <1>14 DEF RollbackJob
<1>15. CASE MarkLost(w)
  BY <1>15 DEF MarkLost
<1>16. CASE Crash(w)
  BY <1>16 DEF Crash, WorkerStates
<1>17. CASE Restart(w)
  BY <1>17 DEF Restart
<1>. QED
  BY <1>1, <1>2, <1>3, <1>4, <1>5, <1>6, <1>7, <1>8, <1>9, <1>10, <1>11, <1>12,
     <1>13, <1>14, <1>15, <1>16, <1>17 DEF WorkerStep, RunStep, WorkerFault

\* A step is one of a handler, one of a worker, or taken elsewhere.
LEMMA StepCases ==
    ASSUME IInv, [Next]_vars
    PROVE  \/ \E h \in Handlers : \/ CheckActive(h) \/ StampJob(h)
                                  \/ InsertJob(h) \/ AbortRequest(h)
           \/ \E w \in Workers : PollEmpty(w) \/ WorkerStep(w)
                                   \/ WorkerFault(w) \/ Restart(w)
           \/ Outside
<1>1. ASSUME NEW i \in Items \cap Images, NEW u \in Pickers, ImportPhoto(i, u)
      PROVE  Outside
  BY <1>1, ImportWrites DEF IInv
<1>2. CASE UNCHANGED vars
  BY <1>2 DEF vars, Outside, PhotosGrow
<1>. QED
  BY <1>1, <1>2 DEF Next, HandlerStep

LEMMA EndedStep ==
    ASSUME IInv, [Next]_vars
    PROVE  \A j \in Jobs : Ended(j) => /\ status'[j] = status[j]
                                      /\ progress'[j] = progress[j]
<1>1. ASSUME NEW h \in Handlers,
             CheckActive(h) \/ StampJob(h) \/ InsertJob(h) \/ AbortRequest(h)
      PROVE  \A j \in Jobs : Ended(j) => /\ status'[j] = status[j]
                                        /\ progress'[j] = progress[j]
  BY <1>1 DEF CheckActive, StampJob, InsertJob, AbortRequest, table, IInv, TypeOK,
              NewOK, Ended
<1>2. ASSUME NEW w \in Workers,
             PollEmpty(w) \/ WorkerStep(w) \/ WorkerFault(w) \/ Restart(w)
      PROVE  \A j \in Jobs : Ended(j) => /\ status'[j] = status[j]
                                        /\ progress'[j] = progress[j]
  BY <1>2, WorkerWrites DEF Active, Ended
<1>3. CASE Outside
  BY <1>3 DEF Outside, table
<1>. QED
  BY <1>1, <1>2, <1>3, StepCases

\* A job that is done or failed is never written again.
THEOREM EndedStaysEnded == Spec => EndedIsFinal
<1>1. IInv /\ [Next]_vars =>
          [\A j \in Jobs : Ended(j) => /\ status'[j] = status[j]
                                      /\ progress'[j] = progress[j]]_vars
  BY EndedStep
<1>. QED
  BY <1>1, Inductive, PTL DEF Spec, EndedIsFinal

LEMMA LockedOutStep ==
    ASSUME IInv, [Next]_vars, NEW u \in Users, LockedOut(u)
    PROVE  LockedOut(u)'
<1>1. PICK j \in JobsOf(u) : Orphan(j)
  BY DEF LockedOut
<1>2. j \in Jobs /\ status[j] = "running" /\ owner[j] = u
  BY <1>1 DEF JobsOf, Orphan
<1>3. HasActiveJob(u)
  BY <1>1, <1>2 DEF HasActiveJob, Active
<1>4. ASSUME NEW h \in Handlers,
             CheckActive(h) \/ StampJob(h) \/ InsertJob(h) \/ AbortRequest(h)
      PROVE  LockedOut(u)'
  <2>1. UserOf[h] # u
    BY <1>3, <1>4 DEF LockedOut, CheckActive, StampJob, InsertJob, AbortRequest
  <2>2. \A g \in Handlers : UserOf[g] = u => hpc'[g] = "idle"
    BY <1>4, <2>1 DEF LockedOut, IInv, TypeOK, CheckActive, StampJob, InsertJob,
                      AbortRequest
  <2>3. status'[j] = "running" /\ owner'[j] = u /\ held' = held
    BY <1>2, <1>4 DEF CheckActive, StampJob, InsertJob, AbortRequest, table, worker,
                      IInv, TypeOK, NewOK
  <2>. QED
    BY <1>1, <1>2, <2>2, <2>3 DEF LockedOut, JobsOf, Orphan
<1>5. ASSUME NEW w \in Workers,
             PollEmpty(w) \/ WorkerStep(w) \/ WorkerFault(w) \/ Restart(w)
      PROVE  LockedOut(u)'
  <2>1. j # held[w]
    BY <1>1 DEF Orphan
  <2>2. status'[j] = "running" /\ owner'[j] = u /\ hpc' = hpc
    BY <1>2, <1>5, <2>1, WorkerWrites DEF handler
  <2>3. \A v \in Workers : held'[v] # j
    BY <1>1, <1>2, <1>5, WorkerWrites DEF Orphan, Lockable
  <2>. QED
    BY <1>2, <2>2, <2>3 DEF LockedOut, JobsOf, Orphan
<1>6. CASE Outside
  BY <1>6 DEF Outside, table, handler, worker, LockedOut, JobsOf, Orphan
<1>. QED
  BY <1>4, <1>5, <1>6, StepCases

\* Once a user's job is orphaned and none of the user's requests is past its check,
\* that user never gets another job accepted.
THEOREM LockedOutStays == Spec => LockedOutForever
<1>1. IInv /\ [Next]_vars =>
          [\A u \in Users : LockedOut(u) => LockedOut(u)']_vars
  BY LockedOutStep
<1>. QED
  BY <1>1, Inductive, PTL DEF Spec, LockedOutForever

-----------------------------------------------------------------------------
(* One active job per user, if a user's requests do not overlap. *)

LEMMA InitUserInv == Init => UserInv
  BY DEF Init, UserInv, CheckOK, OneActivePerUser, HasActiveJob, JobsOf, Active

LEMMA NextUserInv ==
    ASSUME OneHandlerPerUser, IInv, UserInv, [Next]_vars
    PROVE  UserInv'
<1> USE DEF UserInv, CheckOK, OneActivePerUser, HasActiveJob, JobsOf, Active
<1> USE DEF IInv, TypeOK
<1> USE IndexJobsAssumption
<1>1. ASSUME NEW h \in Handlers, CheckActive(h) PROVE UserInv'
  BY <1>1 DEF CheckActive, table
<1>2. ASSUME NEW h \in Handlers, StampJob(h) PROVE UserInv'
  BY <1>2 DEF StampJob, table, RowsOK, Jobs
<1>3. ASSUME NEW h \in Handlers, InsertJob(h) PROVE UserInv'
  <2> DEFINE n == new[h]
  <2>1. /\ n \in Jobs /\ status[n] = "none"
        /\ status' = [status EXCEPT ![n] = "queued"]
        /\ owner' = [owner EXCEPT ![n] = UserOf[h]]
        /\ hpc[h] = "insert" /\ hpc' = [hpc EXCEPT ![h] = "idle"]
        /\ \A g \in Handlers \ {h} : new'[g] = new[g]
    BY <1>3 DEF InsertJob, NewOK, Jobs
  <2>2. \A k \in JobsOf(UserOf[h]) : ~Active(k)
    BY <2>1
  <2>3. \A g \in Handlers : UserOf[g] = UserOf[h] => hpc'[g] = "idle"
    BY <2>1 DEF OneHandlerPerUser
  <2>4. CheckOK'
    BY <2>1, <2>3
  <2>5. OneActivePerUser'
    BY <2>1, <2>2
  <2>. QED
    BY <2>4, <2>5
<1>4. ASSUME NEW h \in Handlers, AbortRequest(h) PROVE UserInv'
  BY <1>4 DEF AbortRequest, table
<1>5. ASSUME NEW w \in Workers,
             PollEmpty(w) \/ WorkerStep(w) \/ WorkerFault(w) \/ Restart(w)
      PROVE  UserInv'
  <2>1. /\ UNCHANGED <<owner, hpc, new>>
        /\ \A j \in Jobs : /\ Active(j)' => Active(j)
                           /\ status'[j] # "none" <=> status[j] # "none"
    BY <1>5, WorkerWrites DEF handler
  <2>. QED
    BY <2>1
<1>6. CASE Outside
  BY <1>6 DEF Outside, table, handler
<1>. QED
  BY <1>1, <1>2, <1>3, <1>4, <1>5, <1>6, StepCases

LEMMA UserInductive == ASSUME OneHandlerPerUser PROVE Spec => []UserInv
<1>1. IInv /\ UserInv /\ [Next]_vars => UserInv'
  BY NextUserInv
<1>. QED
  BY <1>1, InitUserInv, Inductive, PTL DEF Spec

\* The 409 of POST /index/update does its work as long as no user has two requests
\* in flight: HasActiveJob and CreateJob need no transaction then.
THEOREM OneActive == ASSUME OneHandlerPerUser PROVE Spec => []OneActivePerUser
  BY UserInductive, PTL DEF UserInv

-----------------------------------------------------------------------------
(* A job that is done has indexed its user's library. *)

\* The running worker keeps track of what is left, one step at a time.
LEMMA RunCovers ==
    ASSUME IInv, NEW w \in Workers, Cover(w), RunStep(w)
    PROVE  /\ Cover(w)'
           /\ PhotosGrow
           /\ \A v \in Workers \ {w} : /\ wpc'[v] = wpc[v]
                                       /\ held'[v] = held[v]
                                       /\ loc'[v] = loc[v]
<1> USE IndexJobsAssumption
<1> USE DEF IInv, TypeOK, HeldOK, RowsOK, Cover, PhotosGrow, PhotoExistsByMediaID,
            Jobs, NoJob, RunStates, table, handler, worker, Enter, Leave, Locals,
            NoLocals
<1>1. CASE CommitJob(w)
  BY <1>1 DEF CommitJob
<1>2. CASE EnsureToken(w)
  BY <1>2 DEF EnsureToken
<1>3. CASE ListPage(w)
  BY <1>3 DEF ListPage, Resume
<1>4. CASE SkipItem(w)
  BY <1>4 DEF SkipItem, Resume
<1>5. CASE DescribeItem(w)
  BY <1>5 DEF DescribeItem
<1>6. CASE SaveItem(w)
  <2> HIDE DEF Locals, NoLocals
  <2>1. held[w] \in Jobs /\ status[held[w]] = "running"
    BY <1>6 DEF SaveItem
  <2>2. owner[held[w]] \in Users
    BY <2>1
  <2>3. loc[w].item \in Items
    BY <1>6 DEF SaveItem
  <2>4. photos' = [photos EXCEPT ![loc[w].item] =
                      IF @ = NoUser THEN owner[held[w]] ELSE @]
    BY <1>6 DEF SaveItem, SavePhoto
  <2>5. PhotosGrow /\ photos'[loc[w].item] # NoUser
    BY <2>2, <2>3, <2>4
  <2>6. loc'[w].page = loc[w].page /\ loc'[w].unlisted = loc[w].unlisted
    BY <1>6 DEF SaveItem, Locals
  <2>7. wpc'[w] \in {"progress", "fail"} /\ UNCHANGED <<held, owner>>
    BY <1>6 DEF SaveItem
  <2>8. \A i \in Library[owner[held[w]]] \cap Images :
            i \in loc[w].unlisted \cup loc[w].page \/ photos'[i] # NoUser
    BY <1>6, <2>2, <2>5 DEF SaveItem
  <2>9. Cover(w)'
    BY <2>6, <2>7, <2>8
  <2>. QED
    BY <1>6, <2>5, <2>9 DEF SaveItem
<1>7. CASE SaveProgress(w)
  BY <1>7 DEF SaveProgress, UpdateJobProgress, Resume
<1>8. CASE RunError(w)
  BY <1>8 DEF RunError
<1>9. CASE MarkDone(w) \/ MarkFailed(w)
  BY <1>9 DEF MarkDone, MarkFailed, UpdateJobStatus
<1>. QED
  BY <1>1, <1>2, <1>3, <1>4, <1>5, <1>6, <1>7, <1>8, <1>9 DEF RunStep

IndexedInv == CoverOK /\ DoneMeansIndexed

LEMMA InitIndexedInv == Init => IndexedInv
  BY DEF Init, IndexedInv, CoverOK, Cover, DoneMeansIndexed

LEMMA NextIndexedInv ==
    ASSUME IInv, IndexedInv, [Next]_vars
    PROVE  IndexedInv'
<1> USE DEF IndexedInv, CoverOK
<1>1. ASSUME NEW h \in Handlers,
             CheckActive(h) \/ StampJob(h) \/ InsertJob(h) \/ AbortRequest(h)
      PROVE  IndexedInv'
  <2>1. /\ UNCHANGED <<photos, wpc, held, loc>>
        /\ \A j \in Jobs : status[j] # "none" =>
              status'[j] = status[j] /\ owner'[j] = owner[j]
        /\ \A j \in Jobs : status[j] = "none" => status'[j] # "done"
    BY <1>1 DEF CheckActive, StampJob, InsertJob, AbortRequest, table, worker, IInv,
                TypeOK, NewOK
  <2>2. \A w \in Workers : wpc[w] \in RunStates =>
              held[w] \in Jobs /\ owner'[held[w]] = owner[held[w]]
    BY <2>1 DEF IInv, TypeOK, HeldOK, RunStates
  <2>3. CoverOK'
    BY <2>1, <2>2 DEF Cover, PhotoExistsByMediaID, RunStates
  <2>4. DoneMeansIndexed'
    BY <2>1 DEF DoneMeansIndexed, PhotoExistsByMediaID
  <2>. QED
    BY <2>3, <2>4
<1>2. ASSUME NEW w \in Workers,
             PollEmpty(w) \/ WorkerStep(w) \/ WorkerFault(w) \/ Restart(w)
      PROVE  IndexedInv'
  <2>1. /\ Cover(w)'
        /\ PhotosGrow
        /\ \A v \in Workers \ {w} : /\ wpc'[v] = wpc[v]
                                    /\ held'[v] = held[v]
                                    /\ loc'[v] = loc[v]
    <3>1. CASE RunStep(w)
      BY <3>1, RunCovers
    <3>2. CASE PollEmpty(w) \/ LockJob(w) \/ Restart(w)
      BY <3>2 DEF PollEmpty, LockJob, Restart, vars, worker, table, handler, Enter,
                  Cover, PhotosGrow, IInv, TypeOK, PhotoExistsByMediaID
    <3>3. CASE WorkerFault(w)
      BY <3>3 DEF WorkerFault, CommitJobLost, RollbackJob, MarkLost, Crash, Enter,
                  Leave, Cover, PhotosGrow, IInv, TypeOK
    <3>. QED
      BY <1>2, <3>1, <3>2, <3>3 DEF WorkerStep
  <2>2. owner' = owner
    BY <1>2, WorkerWrites
  <2>3. CoverOK'
    BY <2>1, <2>2, IndexJobsAssumption
    DEF Cover, PhotosGrow, PhotoExistsByMediaID, IInv, TypeOK, HeldOK, RowsOK,
        RunStates
  <2>4. ASSUME NEW j \in Jobs, status'[j] = "done",
               NEW i \in Library[owner[j]] \cap Images, i \in Items
        PROVE  PhotoExistsByMediaID(i)'
    <3>1. CASE status[j] = "done"
      BY <2>1, <2>4, <3>1 DEF DoneMeansIndexed, PhotosGrow, PhotoExistsByMediaID
    <3>2. CASE status[j] # "done"
      <4>1. j = held[w]
        BY <1>2, <2>4, <3>2, WorkerWrites
      <4>2. wpc[w] = "finish" /\ photos' = photos
        BY <1>2, <2>4, <3>2
        DEF WorkerStep, RunStep, WorkerFault, PollEmpty, LockJob, CommitJob,
            EnsureToken, ListPage, SkipItem, DescribeItem, SaveItem, SaveProgress,
            RunError, MarkDone, MarkFailed, CommitJobLost, RollbackJob, MarkLost,
            Crash, Restart, UpdateJobStatus, vars, table, IInv, TypeOK
      <4>. QED
        BY <2>4, <4>1, <4>2 DEF Cover, PhotoExistsByMediaID
    <3>. QED
      BY <3>1, <3>2
  <2>5. \A j \in Jobs : status'[j] = "done" => Library[owner[j]] \subseteq Items
    BY <1>2, WorkerWrites, IndexJobsAssumption DEF IInv, RowsOK, Active
  <2>6. DoneMeansIndexed'
    BY <2>2, <2>4, <2>5 DEF DoneMeansIndexed
  <2>. QED
    BY <2>3, <2>6
<1>3. CASE Outside
  <2>1. UNCHANGED <<status, owner, wpc, held, loc>> /\ PhotosGrow
    BY <1>3 DEF Outside, table, worker
  <2>2. \A u \in Users : Library[u] \subseteq Items
    BY IndexJobsAssumption
  <2>3. CoverOK'
    BY <2>1, <2>2 DEF Cover, PhotosGrow, PhotoExistsByMediaID, IInv, TypeOK, HeldOK,
                      RowsOK, RunStates
  <2>4. DoneMeansIndexed'
    BY <2>1, <2>2 DEF DoneMeansIndexed, PhotosGrow, PhotoExistsByMediaID, IInv, RowsOK
  <2>. QED
    BY <2>3, <2>4
<1>. QED
  BY <1>1, <1>2, <1>3, StepCases

\* A job that is done has left no image of its user's library out of the photos
\* table, for any libraries, any number of workers and any faults.
THEOREM DoneIndexed == Spec => []DoneMeansIndexed
<1>1. IInv /\ IndexedInv /\ [Next]_vars => IndexedInv'
  BY NextIndexedInv
<1>. QED
  BY <1>1, InitIndexedInv, Inductive, PTL DEF Spec, IndexedInv

-----------------------------------------------------------------------------
(* IndexJobs implements JobQueue. *)

\* Progress is 0 before a job starts, below full until it is done, and no more than
\* what its runner has written.
ProgressOK ==
    /\ \A j \in Jobs : status[j] \in {"none", "queued"} => progress[j] = 0
    /\ \A j \in Jobs : status[j] # "done" => progress[j] < FullProgress
    /\ \A w \in Workers : wpc[w] \in {"list", "walk", "save", "progress"} =>
          progress[held[w]] <= loc[w].processed
    /\ \A w \in Workers : wpc[w] = "token" => progress[held[w]] = 0

LEMMA InitProgressOK == Init => ProgressOK
  BY IndexJobsAssumption DEF Init, ProgressOK

\* The numbers a run works with.
LEMMA RunNumbers ==
    ASSUME TypeOK, NEW w \in Workers
    PROVE  /\ loc[w].processed \in Nat
           /\ ShownProgress(loc[w].processed) \in Nat
           /\ ShownProgress(loc[w].processed) < FullProgress
           /\ ShownProgress(loc[w].processed) <= loc[w].processed
           /\ \A p \in Nat : p <= loc[w].processed /\ p < FullProgress =>
                 p <= ShownProgress(loc[w].processed)
  BY IndexJobsAssumption DEF TypeOK, Locals, ShownProgress

LEMMA NextProgressOK ==
    ASSUME IInv, ProgressOK, [Next]_vars
    PROVE  ProgressOK'
<1> USE IndexJobsAssumption
<1>1. ASSUME NEW h \in Handlers,
             CheckActive(h) \/ StampJob(h) \/ InsertJob(h) \/ AbortRequest(h)
      PROVE  ProgressOK'
  <2>1. /\ UNCHANGED <<progress, wpc, held, loc>>
        /\ \A j \in Jobs : status[j] # "none" => status'[j] = status[j]
        /\ \A j \in Jobs : status[j] = "none" => status'[j] \in {"none", "queued"}
    BY <1>1 DEF CheckActive, StampJob, InsertJob, AbortRequest, table, worker, IInv,
                TypeOK, NewOK
  <2>. QED
    BY <2>1 DEF ProgressOK
<1>2. ASSUME NEW w \in Workers, RunStep(w)
      PROVE  ProgressOK'
  <2> USE DEF ProgressOK, IInv, TypeOK, HeldOK, OneRunnerPerJob, Jobs, NoJob, RunStates,
              table, handler, Enter, Leave
  <2>1. CASE CommitJob(w)
    BY <2>1 DEF CommitJob
  <2>2. CASE EnsureToken(w)
    BY <2>2 DEF EnsureToken, NoLocals
  <2>3. CASE ListPage(w)
    BY <2>3 DEF ListPage, Resume, Locals
  <2>4. CASE SkipItem(w)
    BY <2>4 DEF SkipItem, Resume, Locals
  <2>5. CASE DescribeItem(w)
    BY <2>5 DEF DescribeItem, Locals
  <2>6. CASE SaveItem(w)
    <3>1. loc[w].processed \in Nat /\ progress[held[w]] \in Nat
      BY <2>6, RunNumbers DEF SaveItem
    <3>2. \/ wpc'[w] = "progress" /\ loc'[w].processed = loc[w].processed + 1
          \/ wpc'[w] = "fail"
      BY <2>6 DEF SaveItem, Locals
    <3>3. /\ UNCHANGED <<status, progress, held>>
          /\ \A v \in Workers \ {w} : wpc'[v] = wpc[v] /\ loc'[v] = loc[v]
      BY <2>6 DEF SaveItem
    <3>4. wpc[w] = "save" /\ progress[held[w]] <= loc[w].processed
      BY <2>6 DEF SaveItem
    <3>5. wpc'[w] = "progress" => progress[held[w]] <= loc'[w].processed
      BY <3>1, <3>2, <3>4
    <3>. QED
      BY <3>2, <3>3, <3>5
  <2>7. CASE SaveProgress(w)
    BY <2>7, RunNumbers DEF SaveProgress, UpdateJobProgress, Resume
  <2>8. CASE RunError(w)
    BY <2>8 DEF RunError
  <2>9. CASE MarkDone(w)
    BY <2>9 DEF MarkDone, UpdateJobStatus
  <2>10. CASE MarkFailed(w)
    BY <2>10 DEF MarkFailed, UpdateJobStatus
  <2>. QED
    BY <1>2, <2>1, <2>2, <2>3, <2>4, <2>5, <2>6, <2>7, <2>8, <2>9, <2>10 DEF RunStep
<1>3. ASSUME NEW w \in Workers,
             PollEmpty(w) \/ LockJob(w) \/ WorkerFault(w) \/ Restart(w)
      PROVE  ProgressOK'
  <2> USE DEF ProgressOK, IInv, TypeOK, table, worker, Enter, Leave
  <2>1. CASE PollEmpty(w)
    BY <2>1 DEF PollEmpty, vars
  <2>2. CASE LockJob(w) \/ Restart(w)
    BY <2>2 DEF LockJob, Restart
  <2>3. CASE CommitJobLost(w)
    BY <2>3 DEF CommitJobLost, HeldOK
  <2>4. CASE RollbackJob(w) \/ MarkLost(w) \/ Crash(w)
    BY <2>4 DEF RollbackJob, MarkLost, Crash
  <2>. QED
    BY <1>3, <2>1, <2>2, <2>3, <2>4 DEF WorkerFault
<1>4. CASE Outside
  BY <1>4 DEF Outside, table, worker, ProgressOK
<1>. QED
  BY <1>1, <1>2, <1>3, <1>4, StepCases DEF WorkerStep

\* The runner of a job is the worker that holds it.
RunnerOK ==
    /\ Runner \in [Jobs -> Workers \cup {NoUser}]
    /\ \A j \in Jobs, w \in Workers :
          Runner[j] = w <=> status[j] = "running" /\ held[w] = j

LEMMA RunnerIs == IInv => RunnerOK
  BY IndexJobsAssumption DEF RunnerOK, Runner, IInv, OneRunnerPerJob, Jobs, NoJob

\* When no job gains or loses its runner, or only job j does.
LEMMA RunnerSame ==
    ASSUME RunnerOK, RunnerOK',
           \A j \in Jobs, w \in Workers :
               status'[j] = "running" /\ held'[w] = j <=>
               status[j] = "running" /\ held[w] = j
    PROVE  Runner' = Runner
<1>1. \A j \in Jobs : Runner'[j] = Runner[j]
  BY DEF RunnerOK
<1>. QED
  BY <1>1 DEF RunnerOK

LEMMA RunnerChange ==
    ASSUME RunnerOK, RunnerOK', NEW j \in Jobs,
           \A k \in Jobs \ {j}, w \in Workers :
               status'[k] = "running" /\ held'[w] = k <=>
               status[k] = "running" /\ held[w] = k
    PROVE  Runner' = [Runner EXCEPT ![j] = Runner'[j]]
<1>1. \A k \in Jobs \ {j} : Runner'[k] = Runner[k]
  BY DEF RunnerOK
<1>. QED
  BY <1>1 DEF RunnerOK

LEMMA InitQueue == Init => Queue!Init
  BY DEF Init, Queue!Init, Runner

\* The steps that leave the variables of JobQueue alone.
LEMMA StutterQueue ==
    ASSUME IInv, RunnerOK, RunnerOK',
           \/ \E h \in Handlers : CheckActive(h) \/ StampJob(h) \/ AbortRequest(h)
           \/ \E w \in Workers :
                 \/ PollEmpty(w) \/ LockJob(w) \/ RollbackJob(w) \/ EnsureToken(w)
                 \/ ListPage(w) \/ SkipItem(w) \/ DescribeItem(w) \/ SaveItem(w)
                 \/ RunError(w) \/ Restart(w)
           \/ Outside
    PROVE  UNCHANGED Queue!vars
<1> USE DEF table, handler, worker, Enter, Leave, Queue!vars
<1>1. ASSUME NEW h \in Handlers, CheckActive(h) \/ StampJob(h) \/ AbortRequest(h)
      PROVE  UNCHANGED Queue!vars
  BY <1>1, RunnerSame DEF CheckActive, StampJob, AbortRequest
<1>2. ASSUME NEW w \in Workers, LockJob(w) \/ RollbackJob(w)
      PROVE  UNCHANGED Queue!vars
  <2>1. UNCHANGED <<status, progress>>
    BY <1>2 DEF LockJob, RollbackJob
  <2>2. /\ \A v \in Workers \ {w} : held'[v] = held[v]
        /\ held[w] \in Jobs => status[held[w]] # "running"
        /\ held'[w] \in Jobs => status[held'[w]] # "running"
    BY <1>2 DEF LockJob, RollbackJob, NextQueued, Lockable, IInv, TypeOK, HeldOK,
                Jobs, NoJob
  <2>3. Runner' = Runner
    BY <2>1, <2>2, RunnerSame
  <2>. QED
    BY <2>1, <2>3
<1>3. ASSUME NEW w \in Workers,
             \/ PollEmpty(w) \/ EnsureToken(w) \/ ListPage(w) \/ SkipItem(w)
             \/ DescribeItem(w) \/ SaveItem(w) \/ RunError(w) \/ Restart(w)
      PROVE  UNCHANGED Queue!vars
  <2>1. UNCHANGED <<status, progress, held>>
    BY <1>3 DEF PollEmpty, EnsureToken, ListPage, SkipItem, DescribeItem, SaveItem,
                RunError, Restart, vars
  <2>. QED
    BY <2>1, RunnerSame
<1>4. CASE Outside
  BY <1>4, RunnerSame DEF Outside
<1>. QED
  BY <1>1, <1>2, <1>3, <1>4

\* The steps that JobQueue takes too.
LEMMA InsertSubmits ==
    ASSUME IInv, RunnerOK, RunnerOK', NEW h \in Handlers, InsertJob(h)
    PROVE  Queue!Next
<1>1. new[h] \in Jobs /\ status[new[h]] = "none"
  BY IndexJobsAssumption DEF InsertJob, IInv, TypeOK, NewOK, Jobs
<1>2. UNCHANGED <<progress, held>>
      /\ status' = [status EXCEPT ![new[h]] = "queued"]
  BY DEF InsertJob, worker
<1>3. Runner' = Runner
  BY <1>1, <1>2, RunnerSame DEF IInv, TypeOK
<1>4. Queue!Submit(new[h])
  BY <1>1, <1>2, <1>3 DEF Queue!Submit
<1>. QED
  BY <1>1, <1>4 DEF Queue!Next

LEMMA CommitStarts ==
    ASSUME IInv, RunnerOK, RunnerOK', NEW w \in Workers,
           CommitJob(w) \/ CommitJobLost(w)
    PROVE  Queue!Next
<1> DEFINE j == held[w]
<1>1. j \in Jobs /\ status[j] = "queued"
  BY DEF CommitJob, CommitJobLost, IInv, TypeOK, HeldOK, NoJob
<1>2. /\ status' = [status EXCEPT ![j] = "running"]
      /\ UNCHANGED progress
      /\ \A v \in Workers \ {w} : held'[v] = held[v]
      /\ held'[w] \in {j, NoJob}
  BY DEF CommitJob, CommitJobLost, Leave, IInv, TypeOK, table, handler
<1>3. Runner' = [Runner EXCEPT ![j] = Runner'[j]]
  <2>1. \A k \in Jobs \ {j} : /\ status'[k] = status[k]
                            /\ held[w] # k /\ held'[w] # k
    BY <1>1, <1>2 DEF IInv, TypeOK, Jobs, NoJob
  <2>. QED
    BY <1>1, <1>2, <2>1, RunnerChange
<1>4. Runner'[j] \in {w, NoUser}
  BY <1>1, <1>2 DEF RunnerOK, IInv, OneRunnerPerJob, NoJob, Jobs
<1>5. \A k \in Jobs : Runner[k] # w
  BY <1>1 DEF RunnerOK
<1>6. Queue!Start(j, Runner'[j])
  BY <1>1, <1>2, <1>3, <1>4, <1>5 DEF Queue!Start
<1>. QED
  BY <1>1, <1>4, <1>6 DEF Queue!Next

LEMMA RunAdvances ==
    ASSUME IInv, ProgressOK, RunnerOK, RunnerOK', NEW w \in Workers, SaveProgress(w)
    PROVE  Queue!Next
<1> DEFINE j == held[w]
           p == ShownProgress(loc[w].processed)
<1>1. j \in Jobs /\ status[j] = "running"
  BY DEF SaveProgress, IInv, TypeOK, HeldOK, NoJob, RunStates
<1>2. progress' = [progress EXCEPT ![j] = p] /\ UNCHANGED <<status, held>>
  BY DEF SaveProgress, UpdateJobProgress
<1>3. Runner' = Runner /\ Runner[j] = w /\ w # NoUser
  BY <1>1, <1>2, RunnerSame, IndexJobsAssumption DEF RunnerOK
<1>4. progress[j] \in Nat /\ progress[j] <= loc[w].processed
      /\ progress[j] < FullProgress
  BY <1>1 DEF SaveProgress, ProgressOK, IInv, TypeOK
<1>5. p \in progress[j] .. (FullProgress - 1)
  <2>1. p \in Nat /\ p < FullProgress /\ progress[j] <= p
    BY <1>4, RunNumbers DEF IInv
  <2>. QED
    BY <1>4, <2>1, IndexJobsAssumption
<1>6. Queue!Advance(j)
  BY <1>1, <1>2, <1>3, <1>5 DEF Queue!Advance
<1>. QED
  BY <1>1, <1>6 DEF Queue!Next

\* The worker gives its job up: done, failed, or lost.
LEMMA LeaveEnds ==
    ASSUME IInv, RunnerOK, RunnerOK', NEW w \in Workers,
           MarkDone(w) \/ MarkFailed(w) \/ MarkLost(w) \/ Crash(w)
    PROVE  Queue!Next \/ UNCHANGED Queue!vars
<1> DEFINE j == held[w]
<1>1. held' = [held EXCEPT ![w] = NoJob]
  BY DEF MarkDone, MarkFailed, MarkLost, Crash, Leave
<1>2. CASE j \in Jobs /\ status[j] = "running"
  <2>1. \A k \in Jobs \ {j} : status'[k] = status[k]
    BY <1>2 DEF MarkDone, MarkFailed, MarkLost, Crash, UpdateJobStatus, table, IInv,
                TypeOK
  <2>2. \A k \in Jobs \ {j}, v \in Workers : held'[v] = k <=> held[v] = k
    BY <1>1, <1>2 DEF IInv, TypeOK, Jobs, NoJob
  <2>3. \A v \in Workers : held'[v] # j
    BY <1>1, <1>2 DEF IInv, TypeOK, OneRunnerPerJob, Jobs, NoJob
  <2>4. Runner' = [Runner EXCEPT ![j] = NoUser]
    <3>1. Runner'[j] = NoUser
      BY <1>2, <2>3 DEF RunnerOK
    <3>. QED
      BY <1>2, <2>1, <2>2, <3>1, RunnerChange
  <2>5. Runner[j] = w /\ w # NoUser
    BY <1>2, IndexJobsAssumption DEF RunnerOK
  <2>6. \/ /\ status' = [status EXCEPT ![j] = "done"]
           /\ progress' = [progress EXCEPT ![j] = FullProgress]
        \/ /\ status' = [status EXCEPT ![j] = "failed"]
           /\ UNCHANGED progress
        \/ UNCHANGED <<status, progress>>
    BY IndexJobsAssumption
    DEF MarkDone, MarkFailed, MarkLost, Crash, UpdateJobStatus, table
  <2>7. Queue!Finish(j) \/ Queue!Fail(j) \/ Queue!Lose(j)
    BY <1>2, <2>4, <2>5, <2>6 DEF Queue!Finish, Queue!Fail, Queue!Lose
  <2>. QED
    BY <1>2, <2>7 DEF Queue!Next
<1>3. CASE ~(j \in Jobs /\ status[j] = "running")
  <2>1. wpc[w] \in {"poll", "tx"} /\ Crash(w)
    BY <1>3 DEF MarkDone, MarkFailed, MarkLost, Crash, IInv, TypeOK, HeldOK, NoJob,
                WorkerStates, RunStates
  <2>2. UNCHANGED <<status, progress>>
    BY <2>1 DEF Crash, table
  <2>3. \A k \in Jobs, v \in Workers :
            status[k] = "running" => (held'[v] = k <=> held[v] = k)
    BY <1>1, <1>3 DEF IInv, TypeOK, Jobs, NoJob
  <2>. QED
    BY <2>2, <2>3, RunnerSame DEF Queue!vars
<1>. QED
  BY <1>2, <1>3

LEMMA StepQueue ==
    ASSUME IInv, IInv', ProgressOK, [Next]_vars
    PROVE  [Queue!Next]_Queue!vars
<1>1. (IInv => RunnerOK)'
  BY RunnerIs, PTL
<1>2. RunnerOK /\ RunnerOK'
  BY <1>1, RunnerIs
<1>. QED
  BY <1>2, StepCases, StutterQueue, InsertSubmits, CommitStarts, RunAdvances, LeaveEnds
  DEF WorkerStep, RunStep, WorkerFault

\* Whatever handlers and workers do to the jobs table, and whatever faults they meet,
\* is what JobQueue promises.
THEOREM ImplementsJobQueue == Spec => QueueSpec
<1>1. IInv /\ ProgressOK /\ [Next]_vars => ProgressOK'
  BY NextProgressOK
<1>2. IInv /\ IInv' /\ ProgressOK /\ [Next]_vars => [Queue!Next]_Queue!vars
  BY StepQueue
<1>. QED
  BY <1>1, <1>2, InitProgressOK, InitQueue, Inductive, PTL
  DEF Spec, QueueSpec, Queue!Spec

-----------------------------------------------------------------------------
(* Only faults orphan jobs. *)

Orphans == {j \in Jobs : Orphan(j)}

\* A step of the code orphans nothing; a fault orphans at most the worker's job.
LEMMA OrphanStep ==
    ASSUME IInv, [Next]_vars
    PROVE  \/ Orphans' \subseteq Orphans /\ faults' \in {faults, faults + 1}
           \/ \E j \in Jobs : Orphans' \subseteq Orphans \cup {j} /\ faults' = faults + 1
<1> USE DEF Orphans, Orphan, IInv, TypeOK, table, handler, worker, Enter, Leave
<1>1. ASSUME NEW h \in Handlers,
             CheckActive(h) \/ StampJob(h) \/ InsertJob(h) \/ AbortRequest(h)
      PROVE  Orphans' \subseteq Orphans /\ faults' \in {faults, faults + 1}
  BY <1>1 DEF CheckActive, StampJob, InsertJob, AbortRequest, Fault
<1>2. ASSUME NEW w \in Workers, WorkerFault(w)
      PROVE  \/ Orphans' \subseteq Orphans /\ faults' = faults + 1
             \/ \E j \in Jobs : Orphans' \subseteq Orphans \cup {j}
                             /\ faults' = faults + 1
  <2>1. faults' = faults + 1 /\ \A v \in Workers \ {w} : held'[v] = held[v]
    BY <1>2 DEF WorkerFault, CommitJobLost, RollbackJob, MarkLost, Crash, Fault
  <2>2. \A j \in Jobs : j # held[w] => status'[j] = status[j]
    BY <1>2, WorkerWrites
  <2>3. Orphans' \subseteq Orphans \cup {held[w]}
    BY <2>1, <2>2
  <2>4. CASE held[w] \in Jobs
    BY <2>1, <2>3, <2>4
  <2>5. CASE held[w] \notin Jobs
    BY <2>1, <2>3, <2>5
  <2>. QED
    BY <2>4, <2>5
<1>3. ASSUME NEW w \in Workers, PollEmpty(w) \/ WorkerStep(w) \/ Restart(w)
      PROVE  Orphans' \subseteq Orphans /\ faults' = faults
  <2>1. faults' = faults
    BY <1>3 DEF PollEmpty, WorkerStep, RunStep, LockJob, CommitJob, EnsureToken,
                ListPage, SkipItem, DescribeItem, SaveItem, SaveProgress, RunError,
                MarkDone, MarkFailed, Restart, vars
  <2>2. \/ UNCHANGED <<status, held>>
        \/ held' = held /\ status' = [status EXCEPT ![held[w]] = "running"]
        \/ /\ UNCHANGED status /\ held[w] = NoJob
           /\ \A v \in Workers \ {w} : held'[v] = held[v]
        \/ /\ \E s \in {"done", "failed"} : status' = [status EXCEPT ![held[w]] = s]
           /\ \A v \in Workers \ {w} : held'[v] = held[v]
    BY <1>3 DEF PollEmpty, WorkerStep, RunStep, LockJob, CommitJob, EnsureToken,
                ListPage, SkipItem, DescribeItem, SaveItem, SaveProgress, RunError,
                MarkDone, MarkFailed, Restart, vars, UpdateJobStatus, HeldOK
  <2>3. ASSUME NEW j \in Jobs, Orphan(j)' PROVE Orphan(j)
    <3>1. j # NoJob
      BY DEF Jobs, NoJob
    <3>2. status'[j] = "running" /\ \A v \in Workers : held'[v] # j
      BY <2>3
    <3>3. status[j] = "running" /\ held[w] # j
      BY <2>2, <3>1, <3>2
    <3>4. \A v \in Workers : held[v] # j
      BY <2>2, <3>2, <3>3
    <3>. QED
      BY <3>3, <3>4
  <2>. QED
    BY <2>1, <2>3
<1>4. CASE Outside
  BY <1>4 DEF Outside
<1>. QED
  BY <1>1, <1>2, <1>3, <1>4, StepCases

\* Every job stuck in running is paid for with a crash or a database error: the loop of
\* the worker itself forgets none.
THEOREM FaultsOrphan == Spec => []OrphansComeFromFaults
<1>1. Init => OrphansComeFromFaults
  BY FS_EmptySet DEF Init, OrphansComeFromFaults, Orphan
<1>2. ASSUME IInv, OrphansComeFromFaults, [Next]_vars
      PROVE  OrphansComeFromFaults'
  <2>1. IsFiniteSet(Orphans)
    <3>1. IsFiniteSet(Jobs)
      <4>1. 1 \in Int /\ MaxJobs \in Int
        BY IndexJobsAssumption
      <4>. QED
        BY <4>1, FS_Interval DEF Jobs
    <3>2. Orphans \in SUBSET Jobs
      BY DEF Orphans
    <3>. QED
      BY <3>1, <3>2, FS_Subset
  <2>2. Cardinality(Orphans) \in Nat /\ faults \in Nat
        /\ Cardinality(Orphans) <= faults
    BY <1>2, <2>1, FS_CardinalityType
    DEF Orphans, OrphansComeFromFaults, IInv, TypeOK
  <2>3. CASE Orphans' \subseteq Orphans /\ faults' \in {faults, faults + 1}
    <3>1. Cardinality(Orphans') \in Nat /\ Cardinality(Orphans') <= Cardinality(Orphans)
      BY <2>1, <2>3, FS_Subset, FS_CardinalityType
    <3>. QED
      BY <2>2, <2>3, <3>1 DEF Orphans, OrphansComeFromFaults
  <2>4. CASE \E j \in Jobs : Orphans' \subseteq Orphans \cup {j} /\ faults' = faults + 1
    <3>1. PICK j \in Jobs : Orphans' \subseteq Orphans \cup {j} /\ faults' = faults + 1
      BY <2>4
    <3>2. IsFiniteSet(Orphans \cup {j})
          /\ Cardinality(Orphans \cup {j}) <= Cardinality(Orphans) + 1
      BY <2>1, <2>2, FS_AddElement
    <3>3. Cardinality(Orphans \cup {j}) \in Nat
      BY <3>2, FS_CardinalityType
    <3>4. Cardinality(Orphans') \in Nat
          /\ Cardinality(Orphans') <= Cardinality(Orphans \cup {j})
      BY <3>1, <3>2, FS_Subset, FS_CardinalityType
    <3>. QED
      BY <2>2, <3>1, <3>2, <3>3, <3>4 DEF Orphans, OrphansComeFromFaults
  <2>. QED
    BY <1>2, <2>3, <2>4, OrphanStep
<1>3. IInv /\ OrphansComeFromFaults /\ [Next]_vars => OrphansComeFromFaults'
  BY <1>2
<1>. QED
  BY <1>1, <1>3, Inductive, PTL DEF Spec

-----------------------------------------------------------------------------
(* Progress is honest. *)

\* Images a run is past and that are stored; images of a job's library stored.
Through(w) ==
    {i \in Library[owner[held[w]]] \cap Images :
        /\ PhotoExistsByMediaID(i)
        /\ i \notin loc[w].unlisted \cup loc[w].page
        /\ wpc[w] = "save" => i # loc[w].item}
Stored(j) == {i \in Library[owner[j]] \cap Images : PhotoExistsByMediaID(i)}

Counting == {"list", "walk", "save", "progress", "finish"}

\* What is still to be visited is of the library and visited once, and what has
\* been counted is stored and behind.
CountOf(w) ==
    wpc[w] \in Counting =>
        /\ loc[w].unlisted \cup loc[w].page \subseteq Library[owner[held[w]]]
        /\ loc[w].unlisted \cap loc[w].page = {}
        /\ wpc[w] = "save" =>
              /\ loc[w].item \in Library[owner[held[w]]] \cap Images
              /\ loc[w].item \notin loc[w].unlisted \cup loc[w].page
        /\ loc[w].processed <= Cardinality(Through(w))

\* The progress of a job that has not ended well is backed by stored images.
BackedOK ==
    \A j \in Jobs : status[j] \notin {"none", "done"} => progress[j] <= Cardinality(Stored(j))

DoneIsFull == \A j \in Jobs : status[j] = "done" => progress[j] = FullProgress

HonestInv == BackedOK /\ DoneIsFull /\ \A w \in Workers : CountOf(w)

LEMMA InitHonestInv == Init => HonestInv
  BY DEF Init, HonestInv, BackedOK, DoneIsFull, CountOf, Counting

LEMMA Larger ==
    ASSUME NEW L, IsFiniteSet(L), NEW S \in SUBSET L, NEW T \in SUBSET L,
           S \subseteq T, NEW n \in Nat, n <= Cardinality(S)
    PROVE  /\ n <= Cardinality(T)
           /\ \A i \in T \ S : n + 1 <= Cardinality(T)
<1>1. IsFiniteSet(S) /\ IsFiniteSet(T)
  BY FS_Subset
<1>2. Cardinality(S) \in Nat /\ Cardinality(T) \in Nat /\ Cardinality(S) <= Cardinality(T)
  BY <1>1, FS_Subset, FS_CardinalityType
<1>3. ASSUME NEW i \in T \ S
      PROVE  n + 1 <= Cardinality(T)
  <2>1. S # T
    BY <1>3
  <2>2. Cardinality(S) # Cardinality(T)
    BY <2>1, <1>1, FS_Subset
  <2>. QED
    BY <1>2, <2>2
<1>. QED
  BY <1>2, <1>3

LEMMA LibraryFinite ==
    ASSUME IInv, NEW j \in Jobs, status[j] # "none"
    PROVE  /\ owner[j] \in Users
           /\ Library[owner[j]] \subseteq Items
           /\ IsFiniteSet(Library[owner[j]])
           /\ Cardinality(Stored(j)) \in Nat
           /\ Stored(j) \subseteq Library[owner[j]]
<1>1. owner[j] \in Users
  BY DEF IInv, RowsOK
<1>2. Library[owner[j]] \subseteq Items /\ IsFiniteSet(Library[owner[j]])
  BY <1>1, IndexJobsAssumption, LibrariesFinite
<1>3. Stored(j) \subseteq Library[owner[j]]
  BY DEF Stored
<1>. QED
  BY <1>1, <1>2, <1>3, FS_Subset, FS_CardinalityType

\* A run in progress is about a library that is finite.
LEMMA RunLibrary ==
    ASSUME IInv, NEW w \in Workers, wpc[w] \in RunStates
    PROVE  /\ held[w] \in Jobs /\ status[held[w]] = "running"
           /\ owner[held[w]] \in Users
           /\ Library[owner[held[w]]] \subseteq Items
           /\ IsFiniteSet(Library[owner[held[w]]])
           /\ Through(w) \subseteq Stored(held[w])
           /\ Stored(held[w]) \subseteq Library[owner[held[w]]]
           /\ loc[w].processed \in Nat
           /\ progress[held[w]] \in Nat
<1>1. held[w] \in Jobs /\ status[held[w]] = "running"
  BY DEF IInv, TypeOK, HeldOK, RunStates
<1>2. Through(w) \subseteq Stored(held[w])
  BY DEF Through, Stored
<1>3. loc[w].processed \in Nat /\ progress[held[w]] \in Nat
  BY <1>1 DEF IInv, TypeOK, Locals
<1>. QED
  BY <1>1, <1>2, <1>3, LibraryFinite

\* The running worker keeps counting what is stored.
LEMMA RunCounts ==
    ASSUME IInv, NEW w \in Workers, Cover(w), CountOf(w), RunStep(w)
    PROVE  CountOf(w)'
<1> USE DEF Enter, Leave
<1>0. /\ wpc \in [Workers -> WorkerStates] /\ loc \in [Workers -> Locals]
      /\ held \in [Workers -> Jobs \cup {NoJob}]
      /\ photos \in [Items -> Users \cup {NoUser}]
  BY DEF IInv, TypeOK
<1>1. CASE CommitJob(w) \/ RunError(w) \/ MarkDone(w) \/ MarkFailed(w)
  BY <1>0, <1>1 DEF CommitJob, RunError, MarkDone, MarkFailed, CountOf, Counting
<1>2. CASE EnsureToken(w)
  <2>1. /\ wpc[w] \in RunStates /\ wpc'[w] = "list"
        /\ UNCHANGED <<owner, held, photos>>
        /\ loc'[w].unlisted = Library[owner[held[w]]] /\ loc'[w].page = {}
        /\ loc'[w].processed = 0
    BY <1>0, <1>2 DEF EnsureToken, NoLocals, table, RunStates
  <2>2. IsFiniteSet(Library[owner[held[w]]]) /\ Through(w)' \subseteq Library[owner[held[w]]]
    BY <2>1, RunLibrary DEF Through
  <2>3. Cardinality(Through(w)') \in Nat
    BY <2>2, FS_Subset, FS_CardinalityType
  <2>. QED
    BY <2>1, <2>3 DEF CountOf, Counting
<1>3. ASSUME wpc[w] \in Counting, UNCHANGED <<owner, held, photos>>,
             loc'[w].processed = loc[w].processed,
             Through(w) \subseteq Through(w)'
      PROVE  loc'[w].processed <= Cardinality(Through(w)')
  <2>1. wpc[w] \in RunStates
    BY <1>3 DEF Counting, RunStates
  <2>2. Through(w)' \subseteq Library[owner[held[w]]]
    BY <1>3 DEF Through
  <2>3. Through(w) \subseteq Library[owner[held[w]]]
    BY DEF Through
  <2>4. loc[w].processed <= Cardinality(Through(w))
    BY <1>3 DEF CountOf
  <2>. QED
    BY <1>3, <2>1, <2>2, <2>3, <2>4, RunLibrary, Larger
<1>4. CASE ListPage(w)
  <2>1. PICK batch \in SUBSET loc[w].unlisted :
            loc' = [loc EXCEPT ![w].page = batch, ![w].unlisted = @ \ batch]
    BY <1>4 DEF ListPage
  <2>2. /\ wpc[w] = "list" /\ wpc'[w] \in Counting \ {"save"}
        /\ UNCHANGED <<owner, held, photos>>
    BY <1>0, <1>4 DEF ListPage, Resume, Counting, table
  <2>3. /\ loc'[w].page = batch /\ loc'[w].unlisted = loc[w].unlisted \ batch
        /\ loc'[w].processed = loc[w].processed
    BY <1>0, <2>1 DEF Locals
  <2>4. loc[w].page = {}
    BY <2>2 DEF Cover
  <2>5. loc'[w].unlisted \cup loc'[w].page = loc[w].unlisted \cup loc[w].page
    BY <2>3, <2>4
  <2>6. Through(w) \subseteq Through(w)'
    BY <2>2, <2>5 DEF Through, PhotoExistsByMediaID
  <2>7. wpc[w] \in Counting
    BY <2>2 DEF Counting
  <2>8. loc'[w].processed <= Cardinality(Through(w)')
    BY <1>3, <2>2, <2>3, <2>6, <2>7
  <2>. QED
    BY <2>2, <2>3, <2>5, <2>7, <2>8 DEF CountOf
<1>5. CASE SkipItem(w)
  <2>1. PICK i \in loc[w].page : loc' = [loc EXCEPT ![w].page = @ \ {i}]
    BY <1>5 DEF SkipItem
  <2>2. /\ wpc[w] = "walk" /\ wpc'[w] \in Counting \ {"save"}
        /\ UNCHANGED <<owner, held, photos>>
    BY <1>0, <1>5 DEF SkipItem, Resume, Counting, table
  <2>3. /\ loc'[w].page = loc[w].page \ {i} /\ loc'[w].unlisted = loc[w].unlisted
        /\ loc'[w].processed = loc[w].processed
    BY <1>0, <2>1 DEF Locals
  <2>6. Through(w) \subseteq Through(w)'
    BY <2>2, <2>3 DEF Through, PhotoExistsByMediaID
  <2>7. wpc[w] \in Counting
    BY <2>2 DEF Counting
  <2>8. loc'[w].processed <= Cardinality(Through(w)')
    BY <1>3, <2>2, <2>3, <2>6, <2>7
  <2>. QED
    BY <2>2, <2>3, <2>7, <2>8 DEF CountOf
<1>6. CASE DescribeItem(w)
  <2>1. PICK i \in loc[w].page \cap Images :
            /\ ~PhotoExistsByMediaID(i)
            /\ loc' = [loc EXCEPT ![w].page = @ \ {i}, ![w].item = i]
    BY <1>6 DEF DescribeItem
  <2>2. /\ wpc[w] = "walk" /\ wpc'[w] = "save" /\ UNCHANGED <<owner, held, photos>>
    BY <1>0, <1>6 DEF DescribeItem, table
  <2>3. /\ loc'[w].page = loc[w].page \ {i} /\ loc'[w].unlisted = loc[w].unlisted
        /\ loc'[w].processed = loc[w].processed /\ loc'[w].item = i
    BY <1>0, <2>1 DEF Locals
  <2>6. Through(w) \subseteq Through(w)'
    BY <2>1, <2>2, <2>3 DEF Through, PhotoExistsByMediaID
  <2>7. wpc[w] \in Counting
    BY <2>2 DEF Counting
  <2>8. loc'[w].processed <= Cardinality(Through(w)')
    BY <1>3, <2>2, <2>3, <2>6, <2>7
  <2>. QED
    BY <2>1, <2>2, <2>3, <2>7, <2>8 DEF CountOf
<1>7. CASE SaveItem(w)
  <2>1. CASE wpc'[w] = "fail"
    BY <2>1 DEF CountOf, Counting
  <2>2. CASE wpc'[w] # "fail"
    <3>1. /\ wpc[w] = "save" /\ wpc'[w] = "progress" /\ UNCHANGED <<owner, held>>
          /\ loc'[w].page = loc[w].page /\ loc'[w].unlisted = loc[w].unlisted
          /\ loc'[w].processed = loc[w].processed + 1
      BY <1>0, <1>7, <2>2 DEF SaveItem, table, Locals
    <3>2. /\ wpc[w] \in Counting /\ wpc[w] \in RunStates
          /\ loc[w].item \in Library[owner[held[w]]] \cap Images
          /\ loc[w].item \notin loc[w].unlisted \cup loc[w].page
      BY <3>1 DEF CountOf, Counting, RunStates
    <3>3. photos' = [photos EXCEPT ![loc[w].item] =
                        IF @ = NoUser THEN owner[held[w]] ELSE @]
      BY <1>7 DEF SaveItem, SavePhoto
    <3>4. owner[held[w]] \in Users /\ loc[w].item \in Items /\ NoUser \notin Users
      BY <3>2, RunLibrary, IndexJobsAssumption
    <3>5. photos'[loc[w].item] # NoUser /\ PhotosGrow
      BY <1>0, <3>3, <3>4 DEF PhotosGrow
    <3>6. Through(w) \subseteq Through(w)'
      BY <3>1, <3>2, <3>5, RunLibrary DEF Through, PhotoExistsByMediaID, PhotosGrow
    <3>7. loc[w].item \in Through(w)' \ Through(w)
      BY <3>1, <3>2, <3>5 DEF Through, PhotoExistsByMediaID
    <3>8. /\ Through(w) \subseteq Library[owner[held[w]]]
          /\ Through(w)' \subseteq Library[owner[held[w]]]
      BY <3>1 DEF Through
    <3>9. loc[w].processed <= Cardinality(Through(w)) /\ loc[w].processed \in Nat
      BY <3>2, RunLibrary DEF CountOf
    <3>10. loc[w].processed + 1 <= Cardinality(Through(w)')
      BY <3>2, <3>6, <3>7, <3>8, <3>9, RunLibrary, Larger
    <3>. QED
      BY <3>1, <3>2, <3>10 DEF CountOf
  <2>. QED
    BY <2>1, <2>2
<1>8. CASE SaveProgress(w)
  <2>1. /\ wpc[w] = "progress" /\ wpc'[w] \in Counting \ {"save"}
        /\ UNCHANGED <<owner, held, photos, loc>>
    BY <1>0, <1>8 DEF SaveProgress, Resume, Counting
  <2>2. Through(w) \subseteq Through(w)'
    BY <2>1 DEF Through, PhotoExistsByMediaID
  <2>3. wpc[w] \in Counting
    BY <2>1 DEF Counting
  <2>4. loc'[w].processed <= Cardinality(Through(w)')
    BY <1>3, <2>1, <2>2, <2>3
  <2>. QED
    BY <2>1, <2>3, <2>4 DEF CountOf
<1>. QED
  BY <1>1, <1>2, <1>4, <1>5, <1>6, <1>7, <1>8 DEF RunStep

\* The other workers' counts stand.
LEMMA CountStands ==
    ASSUME IInv, NEW v \in Workers, CountOf(v), PhotosGrow,
           wpc'[v] = wpc[v], held'[v] = held[v], loc'[v] = loc[v],
           wpc[v] \in RunStates => owner'[held[v]] = owner[held[v]]
    PROVE  CountOf(v)'
<1> SUFFICES ASSUME wpc[v] \in Counting PROVE CountOf(v)'
  BY DEF CountOf
<1>1. wpc[v] \in RunStates
  BY DEF Counting, RunStates
<1>2. Through(v) \subseteq Through(v)'
  BY <1>1, RunLibrary DEF Through, PhotosGrow, PhotoExistsByMediaID
<1>3. /\ Through(v) \subseteq Library[owner[held[v]]]
      /\ Through(v)' \subseteq Library[owner[held[v]]]
  BY <1>1 DEF Through
<1>4. loc[v].processed <= Cardinality(Through(v)')
  BY <1>1, <1>2, <1>3, RunLibrary, Larger DEF CountOf
<1>. QED
  BY <1>1, <1>4 DEF CountOf

\* So does the progress of a job whose row does not change.
LEMMA BackedStands ==
    ASSUME IInv, BackedOK, PhotosGrow, NEW j \in Jobs,
           status[j] \notin {"none", "done"}, owner'[j] = owner[j], progress'[j] = progress[j]
    PROVE  progress'[j] <= Cardinality(Stored(j)')
<1>1. Stored(j) \subseteq Stored(j)'
  BY LibraryFinite DEF Stored, PhotosGrow, PhotoExistsByMediaID
<1>2. Stored(j)' \subseteq Library[owner[j]]
  BY DEF Stored
<1>3. progress[j] <= Cardinality(Stored(j)) /\ progress[j] \in Nat
  BY DEF BackedOK, IInv, TypeOK
<1>. QED
  BY <1>1, <1>2, <1>3, LibraryFinite, Larger

\* What a step of a worker does to rows and photos.
LEMMA WorkerPhotos ==
    ASSUME IInv, CoverOK, NEW w \in Workers,
           PollEmpty(w) \/ WorkerStep(w) \/ WorkerFault(w) \/ Restart(w)
    PROVE  /\ PhotosGrow
           /\ \A v \in Workers \ {w} : /\ wpc'[v] = wpc[v]
                                       /\ held'[v] = held[v]
                                       /\ loc'[v] = loc[v]
<1>1. CASE RunStep(w)
  BY <1>1, RunCovers DEF CoverOK
<1>2. CASE PollEmpty(w) \/ LockJob(w) \/ Restart(w)
  BY <1>2 DEF PollEmpty, LockJob, Restart, vars, worker, table, handler, Enter,
              PhotosGrow, IInv, TypeOK
<1>3. CASE WorkerFault(w)
  BY <1>3 DEF WorkerFault, CommitJobLost, RollbackJob, MarkLost, Crash, Enter,
              Leave, PhotosGrow, IInv, TypeOK
<1>. QED
  BY <1>1, <1>2, <1>3 DEF WorkerStep

\* The row a worker writes is backed by what it has counted.
LEMMA HeldBacked ==
    ASSUME IInv, HonestInv, ProgressOK, CoverOK, NEW w \in Workers,
           PollEmpty(w) \/ WorkerStep(w) \/ WorkerFault(w) \/ Restart(w),
           NEW j \in Jobs, j = held[w]
    PROVE  /\ status'[j] = "done" => progress'[j] = FullProgress
           /\ status'[j] # "done" => progress'[j] <= Cardinality(Stored(j)')
<1>1. /\ status[j] \notin {"none", "done"} /\ owner'[j] = owner[j]
      /\ progress[j] \in Nat /\ progress[j] < FullProgress
  BY WorkerWrites DEF Active, ProgressOK, IInv, TypeOK
<1>2. CASE SaveProgress(w)
  <2>1. /\ wpc[w] = "progress" /\ UNCHANGED <<status, photos>>
        /\ progress'[j] = ShownProgress(loc[w].processed)
    BY <1>2 DEF SaveProgress, UpdateJobProgress, IInv, TypeOK
  <2>2. wpc[w] \in RunStates /\ loc[w].processed <= Cardinality(Through(w))
    BY <2>1 DEF HonestInv, CountOf, Counting, RunStates
  <2>3. progress'[j] <= loc[w].processed /\ progress'[j] \in Nat
    BY <2>1, RunNumbers DEF IInv
  <2>4. IsFiniteSet(Stored(j)) /\ Through(w) \subseteq Stored(j)
    BY <2>2, RunLibrary, FS_Subset
  <2>5. Cardinality(Through(w)) <= Cardinality(Stored(j))
    BY <2>4, FS_Subset
  <2>6. Cardinality(Stored(j)) \in Nat /\ Cardinality(Through(w)) \in Nat
    BY <2>4, FS_Subset, FS_CardinalityType
  <2>7. Stored(j)' = Stored(j)
    BY <1>1, <2>1 DEF Stored, PhotoExistsByMediaID
  <2>. QED
    BY <1>1, <2>1, <2>2, <2>3, <2>5, <2>6, <2>7, RunLibrary
<1>3. CASE MarkDone(w)
  BY <1>1, <1>3, IndexJobsAssumption DEF MarkDone, UpdateJobStatus, IInv, TypeOK
<1>4. CASE ~SaveProgress(w) /\ ~MarkDone(w)
  <2>1. progress'[j] = progress[j] /\ status'[j] # "done"
    BY <1>1, <1>4
    DEF WorkerStep, RunStep, WorkerFault, PollEmpty, LockJob, CommitJob, EnsureToken,
        ListPage, SkipItem, DescribeItem, SaveItem, RunError, MarkFailed,
        CommitJobLost, RollbackJob, MarkLost, Crash, Restart, UpdateJobStatus, vars,
        table, IInv, TypeOK
  <2>2. progress'[j] <= Cardinality(Stored(j)')
    BY <1>1, <2>1, WorkerPhotos, BackedStands DEF HonestInv
  <2>. QED
    BY <2>1, <2>2
<1>. QED
  BY <1>2, <1>3, <1>4

LEMMA NextHonestInv ==
    ASSUME IInv, HonestInv, ProgressOK, CoverOK, [Next]_vars
    PROVE  HonestInv'
<1>1. ASSUME NEW h \in Handlers,
             CheckActive(h) \/ StampJob(h) \/ InsertJob(h) \/ AbortRequest(h)
      PROVE  HonestInv'
  <2>1. /\ UNCHANGED <<photos, progress, wpc, held, loc>>
        /\ \A j \in Jobs : status[j] # "none" =>
              status'[j] = status[j] /\ owner'[j] = owner[j]
        /\ \A j \in Jobs : status[j] = "none" =>
              \/ status'[j] = "none"
              \/ status'[j] = "queued" /\ owner'[j] \in Users
    BY <1>1, IndexJobsAssumption
    DEF CheckActive, StampJob, InsertJob, AbortRequest, table, worker, IInv, TypeOK, NewOK
  <2>2. PhotosGrow
    BY <2>1 DEF PhotosGrow
  <2>3. \A w \in Workers : wpc[w] \in RunStates => owner'[held[w]] = owner[held[w]]
    BY <2>1, RunLibrary
  <2>4. \A w \in Workers : CountOf(w)'
    BY <2>1, <2>2, <2>3, CountStands DEF HonestInv
  <2>5. ASSUME NEW j \in Jobs, status'[j] \notin {"none", "done"}
        PROVE  progress'[j] <= Cardinality(Stored(j)')
    <3>1. CASE status[j] = "none"
      <4>1. progress'[j] = 0 /\ owner'[j] \in Users
        BY <2>1, <2>5, <3>1 DEF ProgressOK
      <4>2. IsFiniteSet(Library[owner'[j]]) /\ Stored(j)' \subseteq Library[owner'[j]]
        BY <4>1, LibrariesFinite DEF Stored
      <4>3. Cardinality(Stored(j)') \in Nat
        BY <4>2, FS_Subset, FS_CardinalityType
      <4>. QED
        BY <4>1, <4>3
    <3>2. CASE status[j] # "none"
      BY <2>1, <2>2, <2>5, <3>2, BackedStands DEF HonestInv
    <3>. QED
      BY <3>1, <3>2
  <2>6. DoneIsFull'
    BY <2>1 DEF HonestInv, DoneIsFull
  <2>. QED
    BY <2>4, <2>5, <2>6 DEF HonestInv, BackedOK
<1>2. ASSUME NEW w \in Workers,
             PollEmpty(w) \/ WorkerStep(w) \/ WorkerFault(w) \/ Restart(w)
      PROVE  HonestInv'
  <2>1. /\ PhotosGrow
        /\ \A v \in Workers \ {w} : /\ wpc'[v] = wpc[v]
                                    /\ held'[v] = held[v]
                                    /\ loc'[v] = loc[v]
    BY <1>2, WorkerPhotos
  <2>2. /\ owner' = owner
        /\ \A j \in Jobs : j # held[w] => /\ status'[j] = status[j]
                                         /\ progress'[j] = progress[j]
    BY <1>2, WorkerWrites
  <2>3. CountOf(w)'
    <3>1. CASE RunStep(w)
      BY <3>1, RunCounts DEF HonestInv, CoverOK
    <3>2. CASE PollEmpty(w)
      BY <2>1, <2>2, <3>2, CountStands DEF PollEmpty, vars, worker, HonestInv
    <3>3. CASE LockJob(w) \/ Restart(w) \/ WorkerFault(w)
      <4>1. wpc'[w] \notin Counting
        BY <3>3 DEF LockJob, Restart, WorkerFault, CommitJobLost, RollbackJob, MarkLost,
                    Crash, Enter, Leave, IInv, TypeOK, Counting
      <4>. QED
        BY <4>1 DEF CountOf
    <3>. QED
      BY <1>2, <3>1, <3>2, <3>3 DEF WorkerStep
  <2>4. \A v \in Workers : CountOf(v)'
    BY <2>1, <2>2, <2>3, CountStands DEF HonestInv
  <2>5. ASSUME NEW j \in Jobs
        PROVE  /\ status'[j] = "done" => progress'[j] = FullProgress
               /\ status'[j] \notin {"none", "done"} =>
                     progress'[j] <= Cardinality(Stored(j)')
    <3>1. CASE j = held[w]
      BY <1>2, <3>1, HeldBacked
    <3>2. CASE j # held[w]
      BY <2>1, <2>2, <3>2, BackedStands DEF HonestInv, DoneIsFull
    <3>. QED
      BY <3>1, <3>2
  <2>. QED
    BY <2>4, <2>5 DEF HonestInv, BackedOK, DoneIsFull
<1>3. CASE Outside
  <2>1. UNCHANGED <<status, owner, progress, wpc, held, loc>> /\ PhotosGrow
    BY <1>3 DEF Outside, table, worker
  <2>2. \A w \in Workers : CountOf(w)'
    BY <2>1, CountStands DEF HonestInv
  <2>3. BackedOK'
    BY <2>1, BackedStands DEF HonestInv, BackedOK
  <2>. QED
    BY <2>1, <2>2, <2>3 DEF HonestInv, DoneIsFull
<1>. QED
  BY <1>1, <1>2, <1>3, StepCases

LEMMA HonestInductive == Spec => [](HonestInv /\ ProgressOK)
<1>1. IInv /\ HonestInv /\ ProgressOK /\ IndexedInv /\ [Next]_vars => HonestInv'
  BY NextHonestInv DEF IndexedInv
<1>2. IInv /\ ProgressOK /\ [Next]_vars => ProgressOK'
  BY NextProgressOK
<1>3. IInv /\ IndexedInv /\ [Next]_vars => IndexedInv'
  BY NextIndexedInv
<1>. QED
  BY <1>1, <1>2, <1>3, Inductive, InitHonestInv, InitProgressOK, InitIndexedInv,
     PTL DEF Spec

\* The progress of a job is full exactly when it is done, and until then at most
\* the number of its library's images that are stored.
THEOREM ProgressIsHonest == Spec => []ProgressHonest
<1>1. HonestInv /\ ProgressOK => ProgressHonest
  BY IndexJobsAssumption
  DEF HonestInv, BackedOK, DoneIsFull, ProgressOK, ProgressHonest, Stored
<1>. QED
  BY <1>1, HonestInductive, PTL

-----------------------------------------------------------------------------
(* Whose photos the runs store. *)

\* A stored photo is an image, and its row names a user whose library lists it or who
\* imports with the picker: no run stores a photo for a user who has not got it,
\* whichever runs and imports race.
PhotosOwn ==
    \A i \in Items : photos[i] # NoUser =>
        i \in Images /\ (i \in Library[photos[i]] \/ photos[i] \in Pickers)

\* A row of photos never changes hands and never goes.
PhotosKept == [][\A i \in Items : photos[i] # NoUser => photos'[i] = photos[i]]_vars

\* Photos are written where none is, by SaveItem or by an import.
LEMMA PhotoStep ==
    ASSUME IInv, HonestInv, [Next]_vars, NEW i \in Items
    PROVE  \/ photos'[i] = photos[i]
           \/ /\ photos[i] = NoUser /\ i \in Images
              /\ i \in Library[photos'[i]] \/ photos'[i] \in Pickers
<1>1. CASE photos' = photos
  BY <1>1
<1>2. ASSUME NEW w \in Workers, SaveItem(w)
      PROVE  \/ photos'[i] = photos[i]
             \/ /\ photos[i] = NoUser /\ i \in Images
                /\ i \in Library[photos'[i]]
  <2>1. wpc[w] = "save" /\ wpc[w] \in RunStates /\ wpc[w] \in Counting
    BY <1>2 DEF SaveItem, RunStates, Counting
  <2>2. loc[w].item \in Library[owner[held[w]]] \cap Images
    BY <2>1 DEF HonestInv, CountOf
  <2>3. owner[held[w]] \in Users
    BY <2>1, RunLibrary
  <2>4. photos' = [photos EXCEPT ![loc[w].item] =
                      IF @ = NoUser THEN owner[held[w]] ELSE @]
    BY <1>2 DEF SaveItem, SavePhoto
  <2>5. photos \in [Items -> Users \cup {NoUser}]
    BY DEF IInv, TypeOK
  <2>. QED
    BY <2>2, <2>3, <2>4, <2>5
<1>3. ASSUME NEW h \in Handlers,
             CheckActive(h) \/ StampJob(h) \/ InsertJob(h) \/ AbortRequest(h)
      PROVE  photos' = photos
  BY <1>3 DEF CheckActive, StampJob, InsertJob, AbortRequest
<1>4. ASSUME NEW w \in Workers,
             PollEmpty(w) \/ WorkerStep(w) \/ WorkerFault(w) \/ Restart(w), ~SaveItem(w)
      PROVE  photos' = photos
  BY <1>4 DEF WorkerStep, RunStep, WorkerFault, PollEmpty, LockJob, CommitJob,
              EnsureToken, ListPage, SkipItem, DescribeItem, SaveProgress, RunError,
              MarkDone, MarkFailed, CommitJobLost, RollbackJob, MarkLost, Crash,
              Restart, vars
<1>. QED
  BY <1>1, <1>2, <1>3, <1>4, StepCases DEF Outside

\* Every stored photo is an image of the library of the user it is stored for, unless
\* that user imports with the picker, and it stays that user's.
THEOREM PhotosAreOwn == Spec => []PhotosOwn /\ PhotosKept
<1>1. Init => PhotosOwn
  BY DEF Init, PhotosOwn
<1>2. ASSUME IInv, HonestInv, PhotosOwn, [Next]_vars PROVE PhotosOwn'
  BY <1>2, PhotoStep DEF PhotosOwn
<1>3. IInv /\ HonestInv /\ PhotosOwn /\ [Next]_vars => PhotosOwn'
  BY <1>2
<1>4. ASSUME IInv, HonestInv, [Next]_vars
      PROVE  \A i \in Items : photos[i] # NoUser => photos'[i] = photos[i]
  BY <1>4, PhotoStep
<1>5. IInv /\ HonestInv /\ [Next]_vars =>
          [\A i \in Items : photos[i] # NoUser => photos'[i] = photos[i]]_vars
  BY <1>4
<1>. QED
  BY <1>1, <1>3, <1>5, Inductive, HonestInductive, PTL DEF Spec, PhotosKept

-----------------------------------------------------------------------------
(* Overlapping requests: as many active jobs as requests, and no more. *)

ActiveOf(u)   == {j \in JobsOf(u) : Active(j)}
HandlersOf(u) == {h \in Handlers : UserOf[h] = u}

\* The requests of a user that are past their check.
Pending(u) == {h \in HandlersOf(u) : hpc[h] \in {"create", "insert"}}

\* A request that is past its check may still add a job: it counts as one.
BoundInv ==
    \A u \in Users : Cardinality(ActiveOf(u)) + Cardinality(Pending(u)) <=
                         Cardinality(HandlersOf(u))

LEMMA UserSetsFinite ==
    ASSUME IsFiniteSet(Handlers), NEW u \in Users
    PROVE  /\ IsFiniteSet(ActiveOf(u)) /\ Cardinality(ActiveOf(u)) \in Nat
           /\ IsFiniteSet(Pending(u)) /\ Cardinality(Pending(u)) \in Nat
           /\ IsFiniteSet(HandlersOf(u)) /\ Cardinality(HandlersOf(u)) \in Nat
<1>1. IsFiniteSet(Jobs)
  <2>1. 1 \in Int /\ MaxJobs \in Int
    BY IndexJobsAssumption
  <2>. QED
    BY <2>1, FS_Interval DEF Jobs
<1>2. /\ ActiveOf(u) \subseteq Jobs
      /\ Pending(u) \subseteq Handlers
      /\ HandlersOf(u) \subseteq Handlers
  BY DEF ActiveOf, JobsOf, Pending, HandlersOf
<1>3. IsFiniteSet(ActiveOf(u)) /\ IsFiniteSet(Pending(u)) /\ IsFiniteSet(HandlersOf(u))
  BY <1>1, <1>2, FS_Subset
<1>. QED
  BY <1>3, FS_CardinalityType

LEMMA InitBoundInv == ASSUME IsFiniteSet(Handlers) PROVE Init => BoundInv
<1> SUFFICES ASSUME Init, NEW u \in Users
             PROVE  Cardinality(ActiveOf(u)) + Cardinality(Pending(u)) <=
                        Cardinality(HandlersOf(u))
  BY DEF BoundInv
<1>1. ActiveOf(u) = {} /\ Pending(u) = {}
  BY DEF Init, ActiveOf, JobsOf, Active, Pending, HandlersOf
<1>. QED
  BY <1>1, FS_EmptySet, UserSetsFinite

\* Fewer active jobs and fewer pending requests keep the bound.
LEMMA FewerBound ==
    ASSUME IsFiniteSet(Handlers), BoundInv, NEW u \in Users,
           ActiveOf(u)' \subseteq ActiveOf(u), Pending(u)' \subseteq Pending(u)
    PROVE  Cardinality(ActiveOf(u)') + Cardinality(Pending(u)') <=
               Cardinality(HandlersOf(u))
<1>1. /\ IsFiniteSet(ActiveOf(u)) /\ Cardinality(ActiveOf(u)) \in Nat
      /\ IsFiniteSet(Pending(u)) /\ Cardinality(Pending(u)) \in Nat
      /\ Cardinality(HandlersOf(u)) \in Nat
  BY UserSetsFinite
<1>2. /\ Cardinality(ActiveOf(u)') \in Nat
      /\ Cardinality(ActiveOf(u)') <= Cardinality(ActiveOf(u))
  BY <1>1, FS_Subset, FS_CardinalityType
<1>3. /\ Cardinality(Pending(u)') \in Nat
      /\ Cardinality(Pending(u)') <= Cardinality(Pending(u))
  BY <1>1, FS_Subset, FS_CardinalityType
<1>4. Cardinality(ActiveOf(u)) + Cardinality(Pending(u)) <= Cardinality(HandlersOf(u))
  BY DEF BoundInv
<1>. QED
  BY <1>1, <1>2, <1>3, <1>4

LEMMA NextBoundInv ==
    ASSUME IsFiniteSet(Handlers), IInv, BoundInv, [Next]_vars
    PROVE  BoundInv'
<1> SUFFICES ASSUME NEW u \in Users
             PROVE  Cardinality(ActiveOf(u)') + Cardinality(Pending(u)') <=
                        Cardinality(HandlersOf(u))
  BY DEF BoundInv, HandlersOf
<1>0. hpc \in [Handlers -> HandlerStates] /\ status \in [Jobs -> Statuses]
      /\ owner \in [Jobs -> Users \cup {NoUser}] /\ UserOf \in [Handlers -> Users]
  BY IndexJobsAssumption DEF IInv, TypeOK
\* The check of h found no active job: all that counts are requests.
<1>1. ASSUME NEW h \in Handlers, CheckActive(h), UserOf[h] = u
      PROVE  Cardinality(ActiveOf(u)') + Cardinality(Pending(u)') <=
                 Cardinality(HandlersOf(u))
  <2>1. ActiveOf(u)' = {}
    BY <1>1 DEF CheckActive, HasActiveJob, ActiveOf, JobsOf, Active, table
  <2>2. Pending(u)' \subseteq HandlersOf(u)
    BY DEF Pending, HandlersOf
  <2>3. IsFiniteSet(HandlersOf(u)) /\ Cardinality(HandlersOf(u)) \in Nat
    BY UserSetsFinite
  <2>4. /\ Cardinality(Pending(u)') \in Nat
        /\ Cardinality(Pending(u)') <= Cardinality(HandlersOf(u))
    BY <2>2, <2>3, FS_Subset, FS_CardinalityType
  <2>5. Cardinality(ActiveOf(u)') = 0
    BY <2>1, FS_EmptySet
  <2>. QED
    BY <2>3, <2>4, <2>5
\* The INSERT of h trades the request for its job.
<1>2. ASSUME NEW h \in Handlers, InsertJob(h), UserOf[h] = u
      PROVE  Cardinality(ActiveOf(u)') + Cardinality(Pending(u)') <=
                 Cardinality(HandlersOf(u))
  <2>1. /\ new[h] \in Jobs /\ status[new[h]] = "none" /\ hpc[h] = "insert"
        /\ status' = [status EXCEPT ![new[h]] = "queued"]
        /\ owner' = [owner EXCEPT ![new[h]] = u]
        /\ hpc' = [hpc EXCEPT ![h] = "idle"]
    BY <1>2, IndexJobsAssumption DEF InsertJob, IInv, TypeOK, NewOK, Jobs, NoJob
  <2>2. ActiveOf(u)' \subseteq ActiveOf(u) \cup {new[h]}
    BY <1>0, <2>1 DEF ActiveOf, JobsOf, Active
  <2>3. h \in Pending(u) /\ Pending(u)' \subseteq Pending(u) \ {h}
    BY <1>0, <1>2, <2>1 DEF Pending, HandlersOf
  <2>4. /\ IsFiniteSet(ActiveOf(u)) /\ Cardinality(ActiveOf(u)) \in Nat
        /\ IsFiniteSet(Pending(u)) /\ Cardinality(Pending(u)) \in Nat
        /\ Cardinality(HandlersOf(u)) \in Nat
    BY UserSetsFinite
  <2>5. /\ IsFiniteSet(ActiveOf(u) \cup {new[h]})
        /\ Cardinality(ActiveOf(u) \cup {new[h]}) \in
               {Cardinality(ActiveOf(u)), Cardinality(ActiveOf(u)) + 1}
    BY <2>4, FS_AddElement
  <2>6. /\ Cardinality(ActiveOf(u) \cup {new[h]}) \in Nat
        /\ Cardinality(ActiveOf(u)') \in Nat
        /\ Cardinality(ActiveOf(u)') <= Cardinality(ActiveOf(u) \cup {new[h]})
    BY <2>2, <2>5, FS_Subset, FS_CardinalityType
  <2>7. /\ IsFiniteSet(Pending(u) \ {h})
        /\ Cardinality(Pending(u) \ {h}) = Cardinality(Pending(u)) - 1
    BY <2>3, <2>4, FS_RemoveElement
  <2>8. /\ Cardinality(Pending(u)') \in Nat
        /\ Cardinality(Pending(u)') <= Cardinality(Pending(u) \ {h})
    BY <2>3, <2>7, FS_Subset, FS_CardinalityType
  <2>9. Cardinality(ActiveOf(u)) + Cardinality(Pending(u)) <= Cardinality(HandlersOf(u))
    BY DEF BoundInv
  <2>. QED
    BY <2>4, <2>5, <2>6, <2>7, <2>8, <2>9
\* No other step adds an active job or a pending request of u.
<1>3. ASSUME NEW h \in Handlers,
             \/ UserOf[h] # u /\ (CheckActive(h) \/ InsertJob(h))
             \/ StampJob(h) \/ AbortRequest(h)
      PROVE  ActiveOf(u)' \subseteq ActiveOf(u) /\ Pending(u)' \subseteq Pending(u)
  <2>1. CASE UserOf[h] # u /\ InsertJob(h)
    BY <1>0, <2>1 DEF InsertJob, IInv, TypeOK, NewOK, ActiveOf, JobsOf, Active, Pending,
                      HandlersOf
  <2>2. CASE UserOf[h] # u /\ CheckActive(h)
    BY <1>0, <2>2 DEF CheckActive, ActiveOf, JobsOf, Active, Pending, HandlersOf, table
  <2>3. CASE StampJob(h) \/ AbortRequest(h)
    BY <1>0, <2>3 DEF StampJob, AbortRequest, ActiveOf, JobsOf, Active, Pending,
                      HandlersOf, table
  <2>. QED
    BY <1>3, <2>1, <2>2, <2>3
<1>4. ASSUME NEW w \in Workers,
             PollEmpty(w) \/ WorkerStep(w) \/ WorkerFault(w) \/ Restart(w)
      PROVE  ActiveOf(u)' \subseteq ActiveOf(u) /\ Pending(u)' \subseteq Pending(u)
  <2>1. /\ UNCHANGED <<owner, hpc>>
        /\ \A j \in Jobs : /\ Active(j)' => Active(j)
                           /\ status'[j] # "none" => status[j] # "none"
    BY <1>4, WorkerWrites DEF handler, Active
  <2>. QED
    BY <2>1 DEF ActiveOf, JobsOf, Pending, HandlersOf
<1>5. CASE Outside
  <2>1. ActiveOf(u)' \subseteq ActiveOf(u) /\ Pending(u)' \subseteq Pending(u)
    BY <1>5 DEF Outside, table, handler, ActiveOf, JobsOf, Active, Pending, HandlersOf
  <2>. QED
    BY <2>1, FewerBound
<1>. QED
  BY <1>1, <1>2, <1>3, <1>4, <1>5, FewerBound, StepCases

\* However requests overlap, a user has no more active jobs than requests that can be
\* in flight at a time: the 409 of POST /index/update leaves a race, and the race
\* leaves one job per racing request.  OneActive is the case of one request.
THEOREM ActiveAreBounded ==
    ASSUME IsFiniteSet(Handlers)
    PROVE  Spec => []ActiveBounded
<1>1. IInv /\ BoundInv /\ [Next]_vars => BoundInv'
  BY NextBoundInv
<1>2. BoundInv => ActiveBounded
  <2> SUFFICES ASSUME BoundInv, NEW u \in Users
               PROVE  Cardinality({j \in JobsOf(u) : Active(j)}) <=
                          Cardinality({h \in Handlers : UserOf[h] = u})
    BY DEF ActiveBounded
  <2>1. /\ Cardinality(ActiveOf(u)) \in Nat /\ Cardinality(Pending(u)) \in Nat
        /\ Cardinality(HandlersOf(u)) \in Nat
    BY UserSetsFinite
  <2>2. Cardinality(ActiveOf(u)) + Cardinality(Pending(u)) <= Cardinality(HandlersOf(u))
    BY DEF BoundInv
  <2>. QED
    BY <2>1, <2>2 DEF ActiveOf, HandlersOf
<1>. QED
  BY <1>1, <1>2, InitBoundInv, Inductive, PTL DEF Spec

-----------------------------------------------------------------------------
(* What GET /index/status can hide when requests overlap. *)

\* The rows the requests of a user have stamped and not inserted.
Inserting(u) == {h \in HandlersOf(u) : hpc[h] = "insert"}
Stamped(u)   == {new[h] : h \in Inserting(u)}

\* The jobs of a user that have not ended, those yet to be inserted included.
Undone(u) == ActiveOf(u) \cup Stamped(u)

\* Whatever row of a user may come to be shown, fewer unfinished jobs than requests
\* are older: the request that stamped the row was none of theirs.
HiddenInv ==
    \A u \in Users : \A k \in JobsOf(u) \cup Stamped(u) :
        Cardinality({j \in Undone(u) : j < k}) < Cardinality(HandlersOf(u))

LEMMA StampedJobs ==
    ASSUME IInv, NEW u \in Users
    PROVE  /\ Stamped(u) \subseteq 1 .. created
           /\ \A j \in JobsOf(u) : j \in 1 .. created
           /\ created \in Nat /\ 1 .. created \subseteq Jobs
<1>1. created \in Nat /\ 1 .. created \subseteq Jobs
  BY IndexJobsAssumption DEF IInv, TypeOK, Jobs
<1>2. Stamped(u) \subseteq 1 .. created
  BY DEF IInv, NewOK, Stamped, Inserting, HandlersOf
<1>3. ASSUME NEW j \in JobsOf(u) PROVE j \in 1 .. created
  <2>1. j \in Jobs /\ j <= created
    BY DEF JobsOf, IInv, RowsOK
  <2>. QED
    BY <1>1, <2>1 DEF Jobs
<1>. QED
  BY <1>1, <1>2, <1>3

LEMMA UndoneFinite ==
    ASSUME IInv, NEW u \in Users
    PROVE  IsFiniteSet(Undone(u)) /\ Undone(u) \subseteq 1 .. created
<1>1. Undone(u) \subseteq 1 .. created /\ created \in Nat
  BY StampedJobs DEF Undone, ActiveOf
<1>2. 1 \in Int /\ created \in Int
  BY <1>1
<1>3. IsFiniteSet(1 .. created)
  BY <1>2, FS_Interval
<1>. QED
  BY <1>1, <1>3, FS_Subset

LEMMA InitHiddenInv == Init => HiddenInv
<1> SUFFICES ASSUME Init, NEW u \in Users
             PROVE  JobsOf(u) \cup Stamped(u) = {}
  BY DEF HiddenInv
<1>. QED
  BY DEF Init, JobsOf, Stamped, Inserting, HandlersOf

\* Fewer rows and fewer unfinished jobs hide no more.
LEMMA FewerHidden ==
    ASSUME IsFiniteSet(Handlers), IInv, HiddenInv, NEW u \in Users,
           NEW rows, rows \subseteq JobsOf(u) \cup Stamped(u),
           NEW left, left \subseteq Undone(u)
    PROVE  \A k \in rows : Cardinality({j \in left : j < k}) <
                               Cardinality(HandlersOf(u))
<1> SUFFICES ASSUME NEW k \in rows
             PROVE  Cardinality({j \in left : j < k}) < Cardinality(HandlersOf(u))
  OBVIOUS
<1> DEFINE old == {j \in Undone(u) : j < k}
           now == {j \in left : j < k}
<1>1. IsFiniteSet(Undone(u)) /\ old \subseteq Undone(u) /\ now \subseteq old
  BY UndoneFinite
<1>2. IsFiniteSet(old)
  BY <1>1, FS_Subset
<1>3. /\ Cardinality(old) \in Nat /\ Cardinality(now) \in Nat
      /\ Cardinality(now) <= Cardinality(old)
  BY <1>1, <1>2, FS_Subset, FS_CardinalityType
<1>4. Cardinality(old) < Cardinality(HandlersOf(u)) /\ Cardinality(HandlersOf(u)) \in Nat
  BY UserSetsFinite DEF HiddenInv
<1> HIDE DEF old, now
<1>5. Cardinality(now) < Cardinality(HandlersOf(u))
  BY <1>3, <1>4
<1>. QED
  BY <1>5 DEF now

\* A request that is about to stamp its row counts for no unfinished job yet.
LEMMA UndoneFew ==
    ASSUME IsFiniteSet(Handlers), IInv, BoundInv,
           NEW h \in Handlers, hpc[h] = "create", NEW u \in Users, UserOf[h] = u
    PROVE  Cardinality(Undone(u)) < Cardinality(HandlersOf(u))
<1>1. /\ IsFiniteSet(ActiveOf(u)) /\ Cardinality(ActiveOf(u)) \in Nat
      /\ IsFiniteSet(Pending(u)) /\ Cardinality(Pending(u)) \in Nat
      /\ Cardinality(HandlersOf(u)) \in Nat
  BY UserSetsFinite
<1>2. h \in Pending(u) /\ Inserting(u) \subseteq Pending(u) \ {h}
  BY DEF Pending, Inserting, HandlersOf
<1>3. /\ IsFiniteSet(Pending(u) \ {h})
      /\ Cardinality(Pending(u) \ {h}) = Cardinality(Pending(u)) - 1
  BY <1>1, <1>2, FS_RemoveElement
<1>4. /\ IsFiniteSet(Inserting(u)) /\ Cardinality(Inserting(u)) \in Nat
      /\ Cardinality(Inserting(u)) <= Cardinality(Pending(u)) - 1
  BY <1>2, <1>3, FS_Subset, FS_CardinalityType
<1>5. [g \in Inserting(u) |-> new[g]] \in Surjection(Inserting(u), Stamped(u))
  BY DEF Surjection, Stamped
<1>6. /\ IsFiniteSet(Stamped(u))
      /\ Cardinality(Stamped(u)) <= Cardinality(Inserting(u))
  BY <1>4, <1>5, FS_Surjection
<1>7. /\ Cardinality(Stamped(u)) \in Nat
      /\ Cardinality(ActiveOf(u) \cap Stamped(u)) \in Nat
  <2>1. IsFiniteSet(ActiveOf(u) \cap Stamped(u))
    BY <1>1, FS_Subset
  <2>. QED
    BY <1>6, <2>1, FS_CardinalityType
<1>8. Cardinality(Undone(u)) = Cardinality(ActiveOf(u)) + Cardinality(Stamped(u))
                                  - Cardinality(ActiveOf(u) \cap Stamped(u))
  BY <1>1, <1>6, FS_Union DEF Undone
<1>9. Cardinality(ActiveOf(u)) + Cardinality(Pending(u)) <= Cardinality(HandlersOf(u))
  BY DEF BoundInv
<1>. QED
  BY <1>1, <1>4, <1>6, <1>7, <1>8, <1>9

LEMMA NextHiddenInv ==
    ASSUME IsFiniteSet(Handlers), IInv, BoundInv, HiddenInv, [Next]_vars
    PROVE  HiddenInv'
<1> SUFFICES ASSUME NEW u \in Users
             PROVE  \A k \in JobsOf(u)' \cup Stamped(u)' :
                        Cardinality({j \in Undone(u)' : j < k}) <
                            Cardinality(HandlersOf(u))
  BY DEF HiddenInv, HandlersOf
<1>0. hpc \in [Handlers -> HandlerStates] /\ status \in [Jobs -> Statuses]
      /\ owner \in [Jobs -> Users \cup {NoUser}] /\ UserOf \in [Handlers -> Users]
      /\ new \in [Handlers -> Jobs \cup {NoJob}]
  BY IndexJobsAssumption DEF IInv, TypeOK
\* The new row is younger than every other; it hides what is unfinished now.
<1>1. ASSUME NEW h \in Handlers, StampJob(h), UserOf[h] = u
      PROVE  \A k \in JobsOf(u)' \cup Stamped(u)' :
                 Cardinality({j \in Undone(u)' : j < k}) < Cardinality(HandlersOf(u))
  <2> DEFINE n == created + 1
  <2>1. /\ hpc[h] = "create" /\ hpc' = [hpc EXCEPT ![h] = "insert"]
        /\ new' = [new EXCEPT ![h] = n]
        /\ UNCHANGED table
    BY <1>1 DEF StampJob
  <2>2. JobsOf(u)' = JobsOf(u) /\ ActiveOf(u)' = ActiveOf(u)
    BY <2>1 DEF table, JobsOf, ActiveOf, Active
  <2>3. Stamped(u)' \subseteq Stamped(u) \cup {n}
    BY <1>0, <2>1 DEF Stamped, Inserting, HandlersOf
  <2>4. Undone(u)' \subseteq Undone(u) \cup {n}
    BY <2>2, <2>3 DEF Undone
  <2>5. /\ \A k \in JobsOf(u) \cup Stamped(u) : k \in 1 .. created
        /\ created \in Nat
    BY StampedJobs
  <2>6. IsFiniteSet(Undone(u)) /\ Undone(u) \subseteq 1 .. created
    BY UndoneFinite
  <2>7. ASSUME NEW k \in JobsOf(u) \cup Stamped(u)
        PROVE  Cardinality({j \in Undone(u)' : j < k}) < Cardinality(HandlersOf(u))
    <3> DEFINE left == {j \in Undone(u)' : j < k}
    <3>1. left \subseteq Undone(u) /\ {j \in left : j < k} = left
      BY <2>4, <2>5
    <3> HIDE DEF left
    <3>2. Cardinality({j \in left : j < k}) < Cardinality(HandlersOf(u))
      BY <2>7, <3>1, FewerHidden
    <3>3. Cardinality(left) < Cardinality(HandlersOf(u))
      BY <3>1, <3>2
    <3>. QED
      BY <3>3 DEF left
  <2>8. Cardinality({j \in Undone(u)' : j < n}) < Cardinality(HandlersOf(u))
    <3> DEFINE left == {j \in Undone(u)' : j < n}
    <3>1. left \subseteq Undone(u)
      BY <2>4, <2>5
    <3>2. Cardinality(Undone(u)) < Cardinality(HandlersOf(u))
      BY <1>1, <2>1, UndoneFew
    <3>3. Cardinality(HandlersOf(u)) \in Nat
      BY UserSetsFinite
    <3> HIDE DEF left
    <3>4. /\ Cardinality(left) \in Nat /\ Cardinality(Undone(u)) \in Nat
          /\ Cardinality(left) <= Cardinality(Undone(u))
      BY <2>6, <3>1, FS_Subset, FS_CardinalityType
    <3>5. Cardinality(left) < Cardinality(HandlersOf(u))
      BY <3>2, <3>3, <3>4
    <3>. QED
      BY <3>5 DEF left
  <2>. QED
    BY <2>2, <2>3, <2>7, <2>8
\* The INSERT of h moves its row from the stamped ones to the active ones.
<1>2. ASSUME NEW h \in Handlers, InsertJob(h), UserOf[h] = u
      PROVE  /\ JobsOf(u)' \cup Stamped(u)' \subseteq JobsOf(u) \cup Stamped(u)
             /\ Undone(u)' \subseteq Undone(u)
  <2>1. /\ new[h] \in Jobs /\ status[new[h]] = "none" /\ hpc[h] = "insert"
        /\ status' = [status EXCEPT ![new[h]] = "queued"]
        /\ owner' = [owner EXCEPT ![new[h]] = u]
        /\ hpc' = [hpc EXCEPT ![h] = "idle"]
        /\ new' = [new EXCEPT ![h] = NoJob]
    BY <1>2, IndexJobsAssumption DEF InsertJob, IInv, TypeOK, NewOK, Jobs, NoJob
  <2>2. new[h] \in Stamped(u)
    BY <1>2, <2>1 DEF Stamped, Inserting, HandlersOf
  <2>3. /\ JobsOf(u)' \subseteq JobsOf(u) \cup {new[h]}
        /\ ActiveOf(u)' \subseteq ActiveOf(u) \cup {new[h]}
    BY <1>0, <2>1 DEF ActiveOf, JobsOf, Active
  <2>4. Stamped(u)' \subseteq Stamped(u)
    BY <1>0, <2>1 DEF Stamped, Inserting, HandlersOf
  <2>. QED
    BY <2>2, <2>3, <2>4 DEF Undone
\* No other step adds a row or an unfinished job of u.
<1>3. ASSUME NEW h \in Handlers,
             \/ UserOf[h] # u /\ (StampJob(h) \/ InsertJob(h))
             \/ CheckActive(h) \/ AbortRequest(h)
      PROVE  /\ JobsOf(u)' \cup Stamped(u)' \subseteq JobsOf(u) \cup Stamped(u)
             /\ Undone(u)' \subseteq Undone(u)
  <2>1. JobsOf(u)' \subseteq JobsOf(u) /\ ActiveOf(u)' \subseteq ActiveOf(u)
    <3>1. CASE UserOf[h] # u /\ InsertJob(h)
      <4>1. /\ new[h] \in Jobs /\ status[new[h]] = "none"
            /\ status' = [status EXCEPT ![new[h]] = "queued"]
            /\ owner' = [owner EXCEPT ![new[h]] = UserOf[h]]
        BY <3>1, IndexJobsAssumption DEF InsertJob, IInv, TypeOK, NewOK, Jobs, NoJob
      <4>. QED
        BY <1>0, <3>1, <4>1 DEF ActiveOf, JobsOf, Active
    <3>2. CASE StampJob(h) \/ CheckActive(h) \/ AbortRequest(h)
      BY <3>2 DEF StampJob, CheckActive, AbortRequest, ActiveOf, JobsOf, Active, table
    <3>. QED
      BY <1>3, <3>1, <3>2
  <2>2. Stamped(u)' \subseteq Stamped(u)
    <3>1. CASE UserOf[h] # u /\ (StampJob(h) \/ InsertJob(h))
      BY <1>0, <3>1 DEF StampJob, InsertJob, Stamped, Inserting, HandlersOf
    <3>2. CASE CheckActive(h) \/ AbortRequest(h)
      BY <1>0, <3>2 DEF CheckActive, AbortRequest, Stamped, Inserting, HandlersOf
    <3>. QED
      BY <1>3, <3>1, <3>2
  <2>. QED
    BY <2>1, <2>2 DEF Undone
<1>4. ASSUME NEW w \in Workers,
             PollEmpty(w) \/ WorkerStep(w) \/ WorkerFault(w) \/ Restart(w)
      PROVE  /\ JobsOf(u)' \cup Stamped(u)' \subseteq JobsOf(u) \cup Stamped(u)
             /\ Undone(u)' \subseteq Undone(u)
  <2>1. /\ UNCHANGED <<owner, hpc, new>>
        /\ \A j \in Jobs : /\ Active(j)' => Active(j)
                           /\ status'[j] # "none" => status[j] # "none"
    BY <1>4, WorkerWrites DEF handler, Active
  <2>2. JobsOf(u)' \subseteq JobsOf(u) /\ ActiveOf(u)' \subseteq ActiveOf(u)
    BY <2>1 DEF ActiveOf, JobsOf
  <2>3. Stamped(u)' = Stamped(u)
    BY <2>1 DEF Stamped, Inserting, HandlersOf
  <2>. QED
    BY <2>2, <2>3 DEF Undone
<1>5. CASE Outside
  <2>1. /\ JobsOf(u)' = JobsOf(u) /\ ActiveOf(u)' = ActiveOf(u)
        /\ Stamped(u)' = Stamped(u)
    BY <1>5 DEF Outside, table, handler, ActiveOf, JobsOf, Active, Stamped, Inserting,
                HandlersOf
  <2>2. Undone(u)' = Undone(u)
    BY <2>1 DEF Undone
  <2>. QED
    BY <2>1, <2>2, FewerHidden
<1>. QED
  BY <1>1, <1>2, <1>3, <1>4, <1>5, FewerHidden, StepCases

\* A user with rows has a newest one.
LEMMA NewestExists ==
    ASSUME NEW u \in Users, JobsOf(u) # {}
    PROVE  /\ GetLatestJob(u) \in JobsOf(u)
           /\ \A k \in JobsOf(u) : k <= GetLatestJob(u)
<1> DEFINE ages == {MaxJobs - j : j \in JobsOf(u)}
<1>1. MaxJobs \in Nat /\ \A j \in JobsOf(u) : j \in Int /\ j <= MaxJobs
  BY IndexJobsAssumption DEF JobsOf, Jobs
<1>2. ages \subseteq Nat /\ ages # {}
  BY <1>1
<1>3. IsWellFoundedOn(OpToRel(<, Nat), Nat)
  BY NatLessThanWellFounded
<1> HIDE DEF ages
<1>4. PICK a \in ages : \A b \in ages : ~(<<b, a>> \in OpToRel(<, Nat))
  BY <1>2, <1>3, WFMin
<1>5. \A b \in ages : ~(b < a)
  BY <1>2, <1>4 DEF OpToRel
<1>6. PICK j \in JobsOf(u) : a = MaxJobs - j
  BY DEF ages
<1>7. ASSUME NEW k \in JobsOf(u) PROVE k <= j
  <2>1. ~(MaxJobs - k < MaxJobs - j)
    BY <1>5, <1>6 DEF ages
  <2>. QED
    BY <1>1, <2>1
<1>. QED
  BY <1>7 DEF GetLatestJob

\* Overlapping requests can hide unfinished jobs behind a newer one that has ended,
\* but always fewer than requests can be in flight: the status a user sees is wrong
\* only by the requests that raced.  With one request at a time it is right.
THEOREM StatusHides ==
    ASSUME IsFiniteSet(Handlers)
    PROVE  Spec => []StatusHidesFewer
<1>1. IInv /\ BoundInv /\ [Next]_vars => BoundInv'
  BY NextBoundInv
<1>2. IInv /\ BoundInv /\ HiddenInv /\ [Next]_vars => HiddenInv'
  BY NextHiddenInv
<1>3. IInv /\ HiddenInv => StatusHidesFewer
  <2> SUFFICES ASSUME IInv, HiddenInv, NEW u \in Users,
                      JobsOf(u) # {}, Ended(GetLatestJob(u))
               PROVE  Cardinality({j \in JobsOf(u) : Active(j)}) <
                          Cardinality({h \in Handlers : UserOf[h] = u})
    BY DEF StatusHidesFewer
  <2> DEFINE k == GetLatestJob(u)
             older == {j \in Undone(u) : j < k}
  <2>1. k \in JobsOf(u) /\ \A j \in JobsOf(u) : j <= k
    BY NewestExists
  <2>2. \A j \in JobsOf(u) : Active(j) => j # k
    BY DEF Active, Ended
  <2>3. \A j \in JobsOf(u) : j \in Int
    BY DEF JobsOf, Jobs
  <2>4. ActiveOf(u) \subseteq older
    <3> HIDE DEF k
    <3> SUFFICES ASSUME NEW j \in ActiveOf(u) PROVE j \in Undone(u) /\ j < k
      OBVIOUS
    <3>1. j \in JobsOf(u) /\ Active(j)
      BY DEF ActiveOf
    <3>. QED
      BY <2>1, <2>2, <2>3, <3>1 DEF Undone
  <2>5. Cardinality(older) < Cardinality(HandlersOf(u))
    BY <2>1 DEF HiddenInv
  <2>6. IsFiniteSet(older)
    BY UndoneFinite, FS_Subset
  <2> HIDE DEF older
  <2>7. /\ Cardinality(older) \in Nat /\ Cardinality(ActiveOf(u)) \in Nat
        /\ Cardinality(ActiveOf(u)) <= Cardinality(older)
    BY <2>4, <2>6, FS_Subset, FS_CardinalityType
  <2>8. Cardinality(HandlersOf(u)) \in Nat
    BY UserSetsFinite
  <2>. QED
    BY <2>5, <2>7, <2>8 DEF ActiveOf, HandlersOf
<1>. QED
  BY <1>1, <1>2, <1>3, InitBoundInv, InitHiddenInv, Inductive, PTL DEF Spec

-----------------------------------------------------------------------------
(* A run ends by itself: every step leaves less to do. *)

\* Google lists finitely many items, a worker that has yet to list any knows none, and
\* the next page is asked for when the last one is through.
Tidy(w) ==
    /\ wpc[w] \in {"poll", "down", "tx", "token"} => loc[w] = NoLocals
    /\ wpc[w] = "list" => loc[w].page = {}
    /\ IsFiniteSet(loc[w].unlisted)
    /\ IsFiniteSet(loc[w].page)

TidyOK == \A w \in Workers : Tidy(w)

LEMMA InitTidyOK == Init => TidyOK
<1> SUFFICES ASSUME Init, NEW w \in Workers PROVE Tidy(w)
  BY DEF TidyOK
<1>1. loc[w] = NoLocals
  BY DEF Init
<1>2. loc[w].unlisted = {} /\ loc[w].page = {} /\ IsFiniteSet({})
  BY <1>1, FS_EmptySet DEF NoLocals
<1>. QED
  BY <1>1, <1>2 DEF Tidy

\* SkipItem and DescribeItem take one item off the page.
LEMMA ItemTaken ==
    ASSUME IInv, NEW w \in Workers, SkipItem(w) \/ DescribeItem(w)
    PROVE  /\ wpc[w] = "walk" /\ wpc'[w] \in {"walk", "list", "finish", "save"}
           /\ loc'[w].unlisted = loc[w].unlisted
           /\ \E i \in loc[w].page : loc'[w].page = loc[w].page \ {i}
           /\ wpc'[w] = "list" => loc'[w].page = {}
<1>0. /\ wpc \in [Workers -> WorkerStates] /\ loc \in [Workers -> Locals]
  BY DEF IInv, TypeOK
<1>1. CASE SkipItem(w)
  <2>1. PICK i \in loc[w].page : loc' = [loc EXCEPT ![w].page = @ \ {i}]
    BY <1>1 DEF SkipItem
  <2>2. loc'[w].page = loc[w].page \ {i} /\ loc'[w].unlisted = loc[w].unlisted
    BY <1>0, <2>1 DEF Locals
  <2>. QED
    BY <1>0, <1>1, <2>2 DEF SkipItem, Resume, Enter
<1>2. CASE DescribeItem(w)
  <2>1. PICK i \in loc[w].page :
            loc' = [loc EXCEPT ![w].page = @ \ {i}, ![w].item = i]
    BY <1>2 DEF DescribeItem
  <2>2. loc'[w].page = loc[w].page \ {i} /\ loc'[w].unlisted = loc[w].unlisted
    BY <1>0, <2>1 DEF Locals
  <2>. QED
    BY <1>0, <1>2, <2>2 DEF DescribeItem, Enter
<1>. QED
  BY <1>1, <1>2

\* What each action of a worker does to the worker itself.
LEMMA RunTidy ==
    ASSUME IInv, NEW w \in Workers, Tidy(w), RunStep(w)
    PROVE  Tidy(w)'
<1> USE DEF Enter, Leave
<1>0. /\ wpc \in [Workers -> WorkerStates] /\ loc \in [Workers -> Locals]
      /\ loc[w].unlisted \in SUBSET Items /\ loc[w].page \in SUBSET Items
  BY DEF IInv, TypeOK, Locals
<1>1. CASE CommitJob(w)
  BY <1>0, <1>1 DEF CommitJob, Tidy
<1>2. CASE EnsureToken(w)
  <2>1. wpc[w] \in RunStates /\ wpc'[w] = "list"
    BY <1>0, <1>2 DEF EnsureToken, RunStates
  <2>2. loc'[w].unlisted = Library[owner[held[w]]] /\ loc'[w].page = {}
    BY <1>0, <1>2 DEF EnsureToken, NoLocals
  <2>3. IsFiniteSet(Library[owner[held[w]]])
    BY <2>1, RunLibrary
  <2>. QED
    BY <2>1, <2>2, <2>3, FS_EmptySet DEF Tidy
<1>3. CASE ListPage(w)
  <2>1. PICK batch \in SUBSET loc[w].unlisted :
            loc' = [loc EXCEPT ![w].page = batch, ![w].unlisted = @ \ batch]
    BY <1>3 DEF ListPage
  <2>2. loc'[w].page = batch /\ loc'[w].unlisted = loc[w].unlisted \ batch
    BY <1>0, <2>1 DEF Locals
  <2>3. wpc'[w] \in {"walk", "list", "finish"} /\ (wpc'[w] = "list" => loc'[w].page = {})
    BY <1>0, <1>3 DEF ListPage, Resume
  <2>4. IsFiniteSet(batch) /\ IsFiniteSet(loc[w].unlisted \ batch)
    BY FS_Subset DEF Tidy
  <2>. QED
    BY <2>2, <2>3, <2>4 DEF Tidy
<1>4. CASE SkipItem(w) \/ DescribeItem(w)
  <2>1. PICK i \in loc[w].page : loc'[w].page = loc[w].page \ {i}
    BY <1>4, ItemTaken
  <2>2. /\ wpc'[w] \in {"walk", "list", "finish", "save"}
        /\ loc'[w].unlisted = loc[w].unlisted
        /\ wpc'[w] = "list" => loc'[w].page = {}
    BY <1>4, ItemTaken
  <2>3. IsFiniteSet(loc[w].page \ {i})
    BY FS_Subset DEF Tidy
  <2>. QED
    BY <2>1, <2>2, <2>3 DEF Tidy
<1>5. CASE SaveItem(w)
  <2>1. loc'[w].page = loc[w].page /\ loc'[w].unlisted = loc[w].unlisted
    BY <1>0, <1>5 DEF SaveItem, Locals
  <2>2. wpc'[w] \in {"progress", "fail"}
    BY <1>0, <1>5 DEF SaveItem
  <2>. QED
    BY <2>1, <2>2 DEF Tidy
<1>6. CASE SaveProgress(w) \/ RunError(w)
  BY <1>0, <1>6 DEF SaveProgress, RunError, Resume, Tidy
<1>7. CASE MarkDone(w) \/ MarkFailed(w)
  <2>1. wpc'[w] = "poll" /\ loc'[w] = NoLocals
    BY <1>0, <1>7 DEF MarkDone, MarkFailed, Leave, Enter
  <2>2. loc'[w].unlisted = {} /\ loc'[w].page = {}
    BY <2>1 DEF NoLocals
  <2>. QED
    BY <2>1, <2>2, FS_EmptySet DEF Tidy
<1>. QED
  BY <1>1, <1>2, <1>3, <1>4, <1>5, <1>6, <1>7 DEF RunStep

LEMMA OtherTidy ==
    ASSUME IInv, NEW w \in Workers, Tidy(w),
           PollEmpty(w) \/ LockJob(w) \/ WorkerFault(w) \/ Restart(w)
    PROVE  Tidy(w)'
<1>1. wpc \in [Workers -> WorkerStates] /\ loc \in [Workers -> Locals]
  BY DEF IInv, TypeOK
<1>2. CASE PollEmpty(w) \/ LockJob(w) \/ Restart(w)
  BY <1>1, <1>2 DEF PollEmpty, LockJob, Restart, vars, worker, Enter, Tidy
<1>3. CASE WorkerFault(w)
  BY <1>1, <1>3, FS_EmptySet DEF WorkerFault, CommitJobLost, RollbackJob, MarkLost,
                                 Crash, Enter, Leave, Tidy, NoLocals
<1>. QED
  BY <1>2, <1>3

\* The locals, the state and the job of the workers that do not move stay.
LEMMA OthersStay ==
    ASSUME IInv, NEW w \in Workers,
           PollEmpty(w) \/ WorkerStep(w) \/ WorkerFault(w) \/ Restart(w)
    PROVE  \A v \in Workers \ {w} : /\ wpc'[v] = wpc[v]
                                    /\ held'[v] = held[v]
                                    /\ loc'[v] = loc[v]
<1> USE DEF IInv, TypeOK, Enter, Leave, worker
<1>1. CASE RunStep(w)
  BY <1>1 DEF RunStep, CommitJob, EnsureToken, ListPage, SkipItem, DescribeItem,
              SaveItem, SaveProgress, RunError, MarkDone, MarkFailed
<1>2. CASE PollEmpty(w) \/ LockJob(w) \/ Restart(w)
  BY <1>2 DEF PollEmpty, LockJob, Restart, vars
<1>3. CASE WorkerFault(w)
  BY <1>3 DEF WorkerFault, CommitJobLost, RollbackJob, MarkLost, Crash
<1>. QED
  BY <1>1, <1>2, <1>3 DEF WorkerStep

LEMMA NextTidyOK ==
    ASSUME IInv, TidyOK, [Next]_vars
    PROVE  TidyOK'
<1>1. ASSUME NEW h \in Handlers,
             CheckActive(h) \/ StampJob(h) \/ InsertJob(h) \/ AbortRequest(h)
      PROVE  TidyOK'
  BY <1>1 DEF CheckActive, StampJob, InsertJob, AbortRequest, worker, TidyOK, Tidy
<1>2. ASSUME NEW w \in Workers,
             PollEmpty(w) \/ WorkerStep(w) \/ WorkerFault(w) \/ Restart(w)
      PROVE  TidyOK'
  <2>1. Tidy(w)'
    BY <1>2, RunTidy, OtherTidy DEF TidyOK, WorkerStep
  <2>2. \A v \in Workers \ {w} : Tidy(v)'
    BY <1>2, OthersStay DEF TidyOK, Tidy
  <2>. QED
    BY <2>1, <2>2 DEF TidyOK
<1>3. CASE Outside
  BY <1>3 DEF Outside, worker, TidyOK, Tidy
<1>. QED
  BY <1>1, <1>2, <1>3, StepCases

LEMMA TidyInductive == Spec => []TidyOK
<1>1. IInv /\ TidyOK /\ [Next]_vars => TidyOK'
  BY NextTidyOK
<1>. QED
  BY <1>1, InitTidyOK, Inductive, PTL DEF Spec

\* The numbers StepsLeft adds up.
LEMMA LeftNumbers ==
    ASSUME IInv, NEW w \in Workers, Tidy(w), wpc[w] \in {"tx"} \cup RunStates
    PROVE  /\ held[w] \in Jobs /\ status[held[w]] # "none"
           /\ Cardinality(Library[owner[held[w]]]) \in Nat
           /\ Cardinality(loc[w].unlisted) \in Nat
           /\ Cardinality(loc[w].page) \in Nat
<1>1. held[w] \in Jobs /\ status[held[w]] # "none"
  BY DEF IInv, TypeOK, HeldOK, RunStates
<1>2. IsFiniteSet(Library[owner[held[w]]])
  BY <1>1, LibraryFinite
<1>. QED
  BY <1>1, <1>2, FS_CardinalityType DEF Tidy

\* What is left after a worker has dropped its job is nothing.
LEMMA DroppedLeft ==
    ASSUME NEW w \in Workers, wpc'[w] \in {"poll", "down"}, loc'[w] = NoLocals
    PROVE  StepsLeft(w)' = 0
<1>1. Cardinality(loc'[w].unlisted) = 0 /\ Cardinality(loc'[w].page) = 0
  BY FS_EmptySet DEF NoLocals
<1>. QED
  BY <1>1 DEF StepsLeft, ItemsLeft, Rank

LEMMA RunStepShrinks ==
    ASSUME IInv, NEW w \in Workers, Tidy(w), wpc[w] \in {"tx"} \cup RunStates,
           RunStep(w) \/ WorkerFault(w)
    PROVE  \/ StepsLeft(w)' < StepsLeft(w)
           \/ UNCHANGED <<wpc[w], held[w], loc[w]>> /\ StepsLeft(w)' = StepsLeft(w)
<1> DEFINE L == Cardinality(Library[owner[held[w]]])
           U == Cardinality(loc[w].unlisted)
           P == Cardinality(loc[w].page)
<1>0. /\ wpc \in [Workers -> WorkerStates] /\ loc \in [Workers -> Locals]
      /\ held \in [Workers -> Jobs \cup {NoJob}]
  BY DEF IInv, TypeOK
<1>1. L \in Nat /\ U \in Nat /\ P \in Nat
  BY LeftNumbers
<1>2. ItemsLeft(w) = IF wpc[w] \in {"tx", "token"} THEN 4 * L ELSE 4 * U + 3 * P
  BY DEF ItemsLeft
<1> HIDE DEF L, U, P
<1>3. CASE CommitJob(w)
  <2>1. /\ wpc[w] = "tx" /\ loc' = loc /\ owner' = owner /\ held' = held
        /\ wpc'[w] \in {"token", "fail"}
    BY <1>0, <1>3 DEF CommitJob, Enter
  <2>2. loc[w] = NoLocals
    BY <2>1 DEF Tidy
  <2>3. U = 0 /\ P = 0
    BY <2>2, FS_EmptySet DEF NoLocals, U, P
  <2>4. StepsLeft(w) = 4 + 4 * L
    BY <1>2, <2>1 DEF StepsLeft, Rank
  <2>5. StepsLeft(w)' = IF wpc'[w] = "token" THEN 3 + 4 * L ELSE 1 + (4 * U + 3 * P)
    BY <2>1 DEF StepsLeft, ItemsLeft, Rank, L, U, P
  <2>. QED
    BY <1>1, <2>3, <2>4, <2>5
<1>4. CASE EnsureToken(w)
  <2>1. wpc[w] = "token" /\ wpc'[w] = "list"
    BY <1>0, <1>4 DEF EnsureToken, Enter
  <2>2. loc'[w].unlisted = Library[owner[held[w]]] /\ loc'[w].page = {}
    BY <1>0, <1>4 DEF EnsureToken, NoLocals
  <2>3. StepsLeft(w) = 3 + 4 * L
    BY <1>2, <2>1 DEF StepsLeft, Rank
  <2>4. StepsLeft(w)' = 2 + (4 * L + 3 * 0)
    BY <2>1, <2>2, FS_EmptySet DEF StepsLeft, ItemsLeft, Rank, L
  <2>. QED
    BY <1>1, <2>3, <2>4
<1>5. CASE ListPage(w)
  <2>1. PICK batch \in SUBSET loc[w].unlisted :
            loc' = [loc EXCEPT ![w].page = batch, ![w].unlisted = @ \ batch]
    BY <1>5 DEF ListPage
  <2>2. loc'[w].page = batch /\ loc'[w].unlisted = loc[w].unlisted \ batch
    BY <1>0, <2>1 DEF Locals
  <2>3. /\ wpc[w] = "list" /\ loc[w].page = {} /\ held' = held
        /\ wpc'[w] \in {"walk", "list", "finish"}
        /\ batch = {} => wpc'[w] \in {"list", "finish"}
    BY <1>0, <1>5, <2>2 DEF ListPage, Enter, Resume, Tidy
  <2>4. StepsLeft(w) = 2 + (4 * U + 3 * P)
    BY <1>2, <2>3 DEF StepsLeft, Rank
  <2>5. StepsLeft(w)' = (IF wpc'[w] = "finish" THEN 1 ELSE 2)
                         + (4 * Cardinality(loc[w].unlisted \ batch) + 3 * Cardinality(batch))
    BY <2>2, <2>3 DEF StepsLeft, ItemsLeft, Rank
  <2>6. CASE batch = {}
    <3>1. /\ Cardinality(batch) = 0 /\ P = 0
          /\ Cardinality(loc[w].unlisted \ batch) = U
      <4>1. loc[w].unlisted \ batch = loc[w].unlisted
        BY <2>6
      <4>. QED
        BY <2>3, <2>6, <4>1, FS_EmptySet DEF P, U
    <3>2. CASE wpc'[w] = "finish"
      BY <1>1, <2>4, <2>5, <3>1, <3>2
    <3>3. CASE wpc'[w] = "list"
      <4>1. loc[w] = [loc[w] EXCEPT !.page = batch, !.unlisted = @ \ batch]
        BY <1>0, <2>3, <2>6 DEF Locals
      <4>2. loc'[w] = loc[w]
        BY <1>0, <2>1, <4>1
      <4>3. StepsLeft(w)' = StepsLeft(w)
        BY <1>1, <2>4, <2>5, <3>1, <3>3
      <4>. QED
        BY <2>3, <3>3, <4>2, <4>3
    <3>. QED
      BY <2>3, <2>6, <3>2, <3>3
  <2>7. CASE batch # {}
    <3>1. /\ IsFiniteSet(batch) /\ IsFiniteSet(loc[w].unlisted \ batch)
          /\ Cardinality(batch) \in Nat /\ Cardinality(loc[w].unlisted \ batch) \in Nat
      BY FS_Subset, FS_CardinalityType DEF Tidy
    <3>2. U = Cardinality(batch) + Cardinality(loc[w].unlisted \ batch)
      <4>1. loc[w].unlisted \cap batch = batch /\ IsFiniteSet(loc[w].unlisted)
        BY DEF Tidy
      <4>2. Cardinality(loc[w].unlisted \ batch) = U - Cardinality(batch)
        BY <4>1, FS_Difference DEF U
      <4>. QED
        BY <1>1, <3>1, <4>2
    <3>3. Cardinality(batch) > 0
      BY <2>7, <3>1, FS_EmptySet
    <3>. QED
      BY <1>1, <2>4, <2>5, <3>1, <3>2, <3>3
  <2>. QED
    BY <2>6, <2>7
<1>6. ASSUME NEW i \in loc[w].page, wpc[w] = "walk",
             loc'[w].page = loc[w].page \ {i}, loc'[w].unlisted = loc[w].unlisted,
             wpc'[w] \in {"walk", "list", "finish", "save"}
      PROVE  StepsLeft(w)' < StepsLeft(w)
  <2>1. Cardinality(loc[w].page \ {i}) = P - 1
    BY FS_RemoveElement DEF Tidy, P
  <2>2. StepsLeft(w) = 2 + (4 * U + 3 * P)
    BY <1>2, <1>6 DEF StepsLeft, Rank
  <2>3. StepsLeft(w)' = Rank(wpc'[w]) + (4 * U + 3 * (P - 1))
    BY <1>6, <2>1 DEF StepsLeft, ItemsLeft, U
  <2>4. Rank(wpc'[w]) \in 1 .. 4
    BY <1>6 DEF Rank
  <2>. QED
    BY <1>1, <2>2, <2>3, <2>4
<1>7. CASE SkipItem(w) \/ DescribeItem(w)
  <2>1. PICK i \in loc[w].page : loc'[w].page = loc[w].page \ {i}
    BY <1>7, ItemTaken
  <2>2. /\ wpc[w] = "walk" /\ wpc'[w] \in {"walk", "list", "finish", "save"}
        /\ loc'[w].unlisted = loc[w].unlisted
    BY <1>7, ItemTaken
  <2>. QED
    BY <1>6, <2>1, <2>2
<1>8. CASE SaveItem(w)
  <2>1. loc'[w].page = loc[w].page /\ loc'[w].unlisted = loc[w].unlisted
    BY <1>0, <1>8 DEF SaveItem, Locals
  <2>2. wpc[w] = "save" /\ wpc'[w] \in {"progress", "fail"}
    BY <1>0, <1>8 DEF SaveItem, Enter
  <2>3. StepsLeft(w) = 4 + (4 * U + 3 * P)
    BY <1>2, <2>2 DEF StepsLeft, Rank
  <2>4. StepsLeft(w)' = (IF wpc'[w] = "fail" THEN 1 ELSE 3) + (4 * U + 3 * P)
    BY <2>1, <2>2 DEF StepsLeft, ItemsLeft, Rank, U, P
  <2>. QED
    BY <1>1, <2>3, <2>4
<1>9. CASE SaveProgress(w)
  <2>1. wpc[w] = "progress" /\ wpc'[w] \in {"walk", "list", "finish"} /\ loc' = loc
    BY <1>0, <1>9 DEF SaveProgress, Resume, Enter
  <2>2. StepsLeft(w) = 3 + (4 * U + 3 * P)
    BY <1>2, <2>1 DEF StepsLeft, Rank
  <2>3. StepsLeft(w)' = (IF wpc'[w] = "finish" THEN 1 ELSE 2) + (4 * U + 3 * P)
    BY <2>1 DEF StepsLeft, ItemsLeft, Rank, U, P
  <2>. QED
    BY <1>1, <2>2, <2>3
<1>10. CASE RunError(w)
  <2>1. /\ wpc[w] \in {"token", "list", "walk", "save", "progress"}
        /\ wpc'[w] = "fail" /\ loc' = loc
    BY <1>0, <1>10 DEF RunError, Enter
  <2>2. StepsLeft(w)' = 1 + (4 * U + 3 * P)
    BY <2>1 DEF StepsLeft, ItemsLeft, Rank, U, P
  <2>3. CASE wpc[w] = "token"
    <3>1. U = 0 /\ P = 0
      BY <2>3, FS_EmptySet DEF Tidy, NoLocals, U, P
    <3>2. StepsLeft(w) = 3 + 4 * L
      BY <1>2, <2>3 DEF StepsLeft, Rank
    <3>. QED
      BY <1>1, <2>2, <3>1, <3>2
  <2>4. CASE wpc[w] # "token"
    <3>1. StepsLeft(w) = Rank(wpc[w]) + (4 * U + 3 * P) /\ Rank(wpc[w]) \in 2 .. 4
      BY <1>2, <2>1, <2>4 DEF StepsLeft, Rank
    <3>. QED
      BY <1>1, <2>2, <3>1
  <2>. QED
    BY <2>3, <2>4
<1>11. ASSUME wpc'[w] \in {"poll", "down"}, loc'[w] = NoLocals
       PROVE  StepsLeft(w)' < StepsLeft(w)
  <2>1. StepsLeft(w)' = 0
    BY <1>11, DroppedLeft
  <2>2. Rank(wpc[w]) \in 1 .. 4
    BY DEF Rank, RunStates
  <2>3. ItemsLeft(w) \in Nat
    BY <1>1, <1>2
  <2>. QED
    BY <2>1, <2>2, <2>3 DEF StepsLeft
<1>12. CASE MarkDone(w) \/ MarkFailed(w) \/ WorkerFault(w)
  BY <1>0, <1>11, <1>12 DEF MarkDone, MarkFailed, WorkerFault, CommitJobLost,
                            RollbackJob, MarkLost, Crash, Enter, Leave
<1>. QED
  BY <1>3, <1>4, <1>5, <1>7, <1>8, <1>9, <1>10, <1>12 DEF RunStep

\* What is left to a worker that does not move stays what it is, for the row of a job
\* that somebody holds keeps its owner.
LEMMA OthersLeft ==
    ASSUME IInv, NEW w \in Workers, wpc[w] \in {"tx"} \cup RunStates,
           wpc'[w] = wpc[w], held'[w] = held[w], loc'[w] = loc[w],
           \A j \in Jobs : status[j] # "none" => owner'[j] = owner[j]
    PROVE  UNCHANGED <<wpc[w], held[w], loc[w]>> /\ StepsLeft(w)' = StepsLeft(w)
<1>1. held[w] \in Jobs /\ status[held[w]] # "none"
  BY DEF IInv, TypeOK, HeldOK, RunStates
<1>2. owner'[held'[w]] = owner[held[w]]
  BY <1>1
<1>. QED
  BY <1>2 DEF StepsLeft, ItemsLeft

LEMMA StepShrinks ==
    ASSUME IInv, TidyOK, [Next]_vars, NEW w \in Workers,
           wpc[w] \in {"tx"} \cup RunStates
    PROVE  \/ StepsLeft(w)' < StepsLeft(w)
           \/ UNCHANGED <<wpc[w], held[w], loc[w]>> /\ StepsLeft(w)' = StepsLeft(w)
<1>1. ASSUME NEW h \in Handlers,
             CheckActive(h) \/ StampJob(h) \/ InsertJob(h) \/ AbortRequest(h)
      PROVE  UNCHANGED <<wpc[w], held[w], loc[w]>> /\ StepsLeft(w)' = StepsLeft(w)
  <2>1. wpc'[w] = wpc[w] /\ held'[w] = held[w] /\ loc'[w] = loc[w]
    BY <1>1 DEF CheckActive, StampJob, InsertJob, AbortRequest, worker
  <2>2. \A j \in Jobs : status[j] # "none" => owner'[j] = owner[j]
    BY <1>1 DEF CheckActive, StampJob, InsertJob, AbortRequest, table, IInv, TypeOK,
                NewOK
  <2>. QED
    BY <2>1, <2>2, OthersLeft
<1>2. ASSUME NEW v \in Workers \ {w},
             PollEmpty(v) \/ WorkerStep(v) \/ WorkerFault(v) \/ Restart(v)
      PROVE  UNCHANGED <<wpc[w], held[w], loc[w]>> /\ StepsLeft(w)' = StepsLeft(w)
  BY <1>2, OthersStay, WorkerWrites, OthersLeft
<1>3. CASE PollEmpty(w) \/ LockJob(w) \/ Restart(w)
  BY <1>3 DEF PollEmpty, LockJob, Restart, RunStates
<1>4. CASE RunStep(w) \/ WorkerFault(w)
  BY <1>4, RunStepShrinks DEF TidyOK
<1>5. CASE Outside
  BY <1>5, OthersLeft DEF Outside, table, worker
<1>. QED
  BY <1>1, <1>2, <1>3, <1>4, <1>5, StepCases DEF WorkerStep

\* Every step of a worker with a job brings the end of the run nearer, and nobody else
\* puts it off: a run takes no more than 4 steps for each item of its user's library and
\* 4 more.  What AcceptedEndsOrOrphaned adds is that the worker keeps taking steps.
THEOREM RunEnds == Spec => RunShrinks
<1>1. IInv /\ TidyOK /\ [Next]_vars =>
          [\A w \in Workers : wpc[w] \in {"tx"} \cup RunStates =>
              \/ StepsLeft(w)' < StepsLeft(w)
              \/ UNCHANGED <<wpc[w], held[w], loc[w]>>
                 /\ StepsLeft(w)' = StepsLeft(w)]_vars
  BY StepShrinks
<1>. QED
  BY <1>1, Inductive, TidyInductive, PTL DEF Spec, RunShrinks

=============================================================================
