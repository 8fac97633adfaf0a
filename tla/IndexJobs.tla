------------------------------ MODULE IndexJobs ------------------------------
(***************************************************************************)
(* The library-import path of ImageFinder: request handlers of the API     *)
(* (POST /index/update), worker processes (cmd/worker with                 *)
(* services.Indexer) and the Postgres tables they share.  The imports of   *)
(* PickerImport write photos meanwhile.                                    *)
(*                                                                         *)
(* One action is one database statement or transaction, together with the  *)
(* straight-line Go code up to the next one.  A job is named by the order  *)
(* in which CreateJob takes its uuid and created_at, so j < k says that j  *)
(* was created first.                                                      *)
(***************************************************************************)
EXTENDS Integers, FiniteSets

CONSTANTS
    Users, Handlers, Workers, Items,
    UserOf,         \* the signed-in user on whose behalf a handler runs
    Library,        \* the media items Google Photos lists for a user
    Images,         \* the items whose MimeType begins with "image/"
    Pickers,        \* the users who also import photos with the picker
    PickerWorkers,  \* workers started with GOOGLE_PHOTOS_MODE=picker
    FullProgress,   \* 100 in the code
    MaxJobs,        \* bound: calls of CreateJob
    MaxFaults,      \* bound: crashes and database errors
    NoUser, NoItem

ASSUME IndexJobsAssumption ==
    /\ UserOf \in [Handlers -> Users]
    /\ Library \in [Users -> SUBSET Items]
    /\ PickerWorkers \subseteq Workers
    /\ FullProgress \in Nat \ {0}
    /\ MaxJobs \in Nat
    /\ MaxFaults \in Nat
    /\ NoUser \notin Users \cup Workers
    /\ NoItem \notin Items

ASSUME PickersAreUsers == Pickers \subseteq Users

ASSUME LibrariesFinite == \A u \in Users : IsFiniteSet(Library[u])

VARIABLES
    status,    \* jobs.status; "none" is a row not inserted
    owner,     \* jobs.user_id
    progress,  \* jobs.progress
    photos,    \* photos: google_media_id -> user_id
    created,   \* the number of CreateJob calls so far
    hpc,       \* where a handler of POST /index/update is
    new,       \* the row a handler is about to insert
    wpc,       \* where a worker is
    held,      \* the job a worker has locked or runs
    loc,       \* the local variables of a worker's Indexer.Run
    faults     \* crashes and database errors so far

table   == <<status, owner, progress>>
handler == <<created, hpc, new>>
worker  == <<wpc, held, loc>>
vars    == <<table, photos, handler, worker, faults>>

Jobs  == 1 .. MaxJobs
NoJob == 0

Statuses      == {"none", "queued", "running", "done", "failed"}
HandlerStates == {"idle", "create", "insert"}
RunStates     == {"token", "list", "walk", "save", "progress", "finish", "fail"}
WorkerStates  == RunStates \cup {"poll", "tx", "down"}

\* unlisted: what ListMediaItems has yet to return; page: what is left of the
\* page in hand; item: the photo being written; processed: photos written.
Locals == [unlisted : SUBSET Items, page : SUBSET Items,
           item : Items \cup {NoItem}, processed : Nat]

NoLocals == [unlisted |-> {}, page |-> {}, item |-> NoItem, processed |-> 0]

TypeOK ==
    /\ status \in [Jobs -> Statuses]
    /\ owner \in [Jobs -> Users \cup {NoUser}]
    /\ progress \in [Jobs -> Nat]
    /\ photos \in [Items -> Users \cup {NoUser}]
    /\ created \in 0 .. MaxJobs
    /\ hpc \in [Handlers -> HandlerStates]
    /\ new \in [Handlers -> Jobs \cup {NoJob}]
    /\ wpc \in [Workers -> WorkerStates]
    /\ held \in [Workers -> Jobs \cup {NoJob}]
    /\ loc \in [Workers -> Locals]
    /\ faults \in 0 .. MaxFaults

Init ==
    /\ status = [j \in Jobs |-> "none"]
    /\ owner = [j \in Jobs |-> NoUser]
    /\ progress = [j \in Jobs |-> 0]
    /\ photos = [i \in Items |-> NoUser]
    /\ created = 0
    /\ hpc = [h \in Handlers |-> "idle"]
    /\ new = [h \in Handlers |-> NoJob]
    /\ wpc = [w \in Workers |-> "poll"]
    /\ held = [w \in Workers |-> NoJob]
    /\ loc = [w \in Workers |-> NoLocals]
    /\ faults = 0

Fault == faults < MaxFaults /\ faults' = faults + 1

-----------------------------------------------------------------------------
(* Queries and statements of internal/store. *)

Active(j) == status[j] \in {"queued", "running"}
Ended(j)  == status[j] \in {"done", "failed"}

JobsOf(u) == {j \in Jobs : status[j] # "none" /\ owner[j] = u}

\* Mutant: a running job is not counted as active.
HasActiveJob_QueuedOnly(u) == \E j \in JobsOf(u) : status[j] = "queued"

HasActiveJob(u) == \E j \in JobsOf(u) : Active(j)

\* Mutant: ORDER BY created_at without DESC.
GetLatestJob_Ascending(u) ==
    CHOOSE j \in JobsOf(u) : \A k \in JobsOf(u) : j <= k

\* The row GET /index/status shows: ORDER BY created_at DESC LIMIT 1.
GetLatestJob(u) == CHOOSE j \in JobsOf(u) : \A k \in JobsOf(u) : k <= j

\* Mutant: a plain SELECT, without FOR UPDATE SKIP LOCKED.
Lockable_NoRowLock == {j \in Jobs : status[j] = "queued"}

\* Rows the SELECT ... FOR UPDATE SKIP LOCKED of AcquireNextJob may return.
Lockable == {j \in Jobs : status[j] = "queued" /\ \A w \in Workers : held[w] # j}

\* ORDER BY created_at LIMIT 1.
NextQueued(j) == j \in Lockable /\ \A k \in Lockable : j <= k

PhotoExistsByMediaID(i) == photos[i] # NoUser

\* INSERT ... ON CONFLICT (google_media_id) DO UPDATE leaves user_id alone.
SavePhoto(i, u) ==
    photos' = [photos EXCEPT ![i] = IF @ = NoUser THEN u ELSE @]

\* Mutant: a failure starts the progress over.
UpdateJobStatus_Restart(j, s, pct) ==
    /\ status' = [status EXCEPT ![j] = s]
    /\ progress' = [progress EXCEPT ![j] = IF pct < 0 THEN 0 ELSE pct]

\* A negative pct keeps the progress.
UpdateJobStatus(j, s, pct) ==
    /\ status' = [status EXCEPT ![j] = s]
    /\ progress' = IF pct < 0 THEN progress ELSE [progress EXCEPT ![j] = pct]

UpdateJobProgress(j, pct) == progress' = [progress EXCEPT ![j] = pct]

-----------------------------------------------------------------------------
(* POST /index/update. *)

\* HasActiveJob answers no.  (A yes ends the request with a 409.)
CheckActive(h) ==
    /\ hpc[h] = "idle"
    /\ ~HasActiveJob(UserOf[h])
    /\ hpc' = [hpc EXCEPT ![h] = "create"]
    /\ UNCHANGED <<table, photos, created, new, worker, faults>>

\* CreateJob takes its uuid and created_at ...
StampJob(h) ==
    /\ hpc[h] = "create"
    /\ created < MaxJobs
    /\ created' = created + 1
    /\ new' = [new EXCEPT ![h] = created + 1]
    /\ hpc' = [hpc EXCEPT ![h] = "insert"]
    /\ UNCHANGED <<table, photos, worker, faults>>

\* ... and its INSERT commits.
InsertJob(h) ==
    /\ hpc[h] = "insert"
    /\ status' = [status EXCEPT ![new[h]] = "queued"]
    /\ owner' = [owner EXCEPT ![new[h]] = UserOf[h]]
    /\ hpc' = [hpc EXCEPT ![h] = "idle"]
    /\ new' = [new EXCEPT ![h] = NoJob]
    /\ UNCHANGED <<progress, photos, created, worker, faults>>

\* The request dies before its INSERT commits: a database error, a client that
\* goes away (the context is cancelled), an API process that stops.
AbortRequest(h) ==
    /\ hpc[h] \in {"create", "insert"}
    /\ Fault
    /\ hpc' = [hpc EXCEPT ![h] = "idle"]
    /\ new' = [new EXCEPT ![h] = NoJob]
    /\ UNCHANGED <<table, photos, created, worker>>

-----------------------------------------------------------------------------
(* AcquireNextJob: one transaction. *)

Enter(w, pc) == wpc' = [wpc EXCEPT ![w] = pc]

\* The worker drops its job and everything it knew about it.
Leave(w, pc) ==
    /\ Enter(w, pc)
    /\ held' = [held EXCEPT ![w] = NoJob]
    /\ loc' = [loc EXCEPT ![w] = NoLocals]

\* No row to lock: sleep for JobPollInterval.
PollEmpty(w) ==
    /\ wpc[w] = "poll"
    /\ Lockable = {}
    /\ UNCHANGED vars

\* The row is locked and updated; nobody else sees the update yet.
LockJob(w) ==
    /\ wpc[w] = "poll"
    /\ \E j \in Jobs :
          /\ NextQueued(j)
          /\ held' = [held EXCEPT ![w] = j]
    /\ Enter(w, "tx")
    /\ UNCHANGED <<table, photos, handler, loc, faults>>

\* A worker in picker mode, or one that does not know the job's type, refuses
\* the job; any other runs the indexer.
CommitJob(w) ==
    /\ wpc[w] = "tx"
    /\ status' = [status EXCEPT ![held[w]] = "running"]
    /\ Enter(w, IF w \in PickerWorkers THEN "fail" ELSE "token")
    /\ UNCHANGED <<owner, progress, photos, handler, held, loc, faults>>

\* The COMMIT takes effect and its answer is lost: the worker polls on.
CommitJobLost(w) ==
    /\ wpc[w] = "tx"
    /\ Fault
    /\ status' = [status EXCEPT ![held[w]] = "running"]
    /\ Leave(w, "poll")
    /\ UNCHANGED <<owner, progress, photos, handler>>

RollbackJob(w) ==
    /\ wpc[w] = "tx"
    /\ Fault
    /\ Leave(w, "poll")
    /\ UNCHANGED <<table, photos, handler>>

-----------------------------------------------------------------------------
(* Indexer.Run. *)

\* Mutant: the next page token is not followed.
Resume_OnePage(l) == IF l.page # {} THEN {"walk"} ELSE {"finish"}

\* Where the loops may continue: the rest of the page, the next page, the end.
\* A next page token may come although nothing is left to list.
Resume(l) == IF l.page # {} THEN {"walk"}
             ELSE IF l.unlisted # {} THEN {"list"} ELSE {"list", "finish"}

EnsureToken(w) ==
    /\ wpc[w] = "token"
    /\ loc' = [loc EXCEPT ![w] =
                 [NoLocals EXCEPT !.unlisted = Library[owner[held[w]]]]]
    /\ Enter(w, "list")
    /\ UNCHANGED <<table, photos, handler, held, faults>>

\* Mutant: the page token is not passed on, and the same page comes again.
ListPage_SamePage(w) ==
    /\ wpc[w] = "list"
    /\ \E batch \in SUBSET loc[w].unlisted :
          /\ loc' = [loc EXCEPT ![w].page = batch]
    /\ \E pc \in Resume(loc'[w]) : Enter(w, pc)
    /\ UNCHANGED <<table, photos, handler, held, faults>>

\* A page may be empty and still have a next one.
ListPage(w) ==
    /\ wpc[w] = "list"
    /\ \E batch \in SUBSET loc[w].unlisted :
          /\ loc' = [loc EXCEPT ![w].page = batch,
                                ![w].unlisted = @ \ batch]
    /\ \E pc \in Resume(loc'[w]) : Enter(w, pc)
    /\ UNCHANGED <<table, photos, handler, held, faults>>

SkipItem(w) ==
    /\ wpc[w] = "walk"
    /\ \E i \in loc[w].page :
          /\ i \in Images => PhotoExistsByMediaID(i)
          /\ loc' = [loc EXCEPT ![w].page = @ \ {i}]
    /\ \E pc \in Resume(loc'[w]) : Enter(w, pc)
    /\ UNCHANGED <<table, photos, handler, held, faults>>

\* The photo is not in the table; it is captioned and embedded.
DescribeItem(w) ==
    /\ wpc[w] = "walk"
    /\ \E i \in loc[w].page \cap Images :
          /\ ~PhotoExistsByMediaID(i)
          /\ loc' = [loc EXCEPT ![w].page = @ \ {i}, ![w].item = i]
    /\ Enter(w, "save")
    /\ UNCHANGED <<table, photos, handler, held, faults>>

\* The row is written; the call may still report an error.
SaveItem(w) ==
    /\ wpc[w] = "save"
    /\ SavePhoto(loc[w].item, owner[held[w]])
    /\ \/ /\ loc' = [loc EXCEPT ![w].item = NoItem, ![w].processed = @ + 1]
          /\ Enter(w, "progress")
       \/ /\ loc' = loc
          /\ Enter(w, "fail")
    /\ UNCHANGED <<table, handler, held, faults>>

\* Mutant: the cap is off by one.
ShownProgress_OffByOne(n) == IF n > FullProgress THEN FullProgress ELSE n

ShownProgress(n) == IF n > FullProgress - 1 THEN FullProgress - 1 ELSE n

SaveProgress(w) ==
    /\ wpc[w] = "progress"
    /\ UpdateJobProgress(held[w], ShownProgress(loc[w].processed))
    /\ \E pc \in Resume(loc[w]) : Enter(w, pc)
    /\ UNCHANGED <<status, owner, photos, handler, held, loc, faults>>

\* Any call of Indexer.Run fails and takes no effect: no token, Google, Gemini,
\* OpenAI or the database.
RunError(w) ==
    /\ wpc[w] \in {"token", "list", "walk", "save", "progress"}
    /\ Enter(w, "fail")
    /\ UNCHANGED <<table, photos, handler, held, loc, faults>>

-----------------------------------------------------------------------------
(* The end of a turn of the worker's loop, and the process itself. *)

MarkDone(w) ==
    /\ wpc[w] = "finish"
    /\ UpdateJobStatus(held[w], "done", FullProgress)
    /\ Leave(w, "poll")
    /\ UNCHANGED <<owner, photos, handler, faults>>

\* Mutant: the error is logged and the job not updated.
MarkFailed_LogOnly(w) ==
    /\ wpc[w] = "fail"
    /\ Leave(w, "poll")
    /\ UNCHANGED <<table, photos, handler, faults>>

\* Mutant: return where the loop should continue.
MarkFailed_Return(w) ==
    /\ wpc[w] = "fail"
    /\ UpdateJobStatus(held[w], "failed", -1)
    /\ Leave(w, "down")
    /\ UNCHANGED <<owner, photos, handler, faults>>

MarkFailed(w) ==
    /\ wpc[w] = "fail"
    /\ UpdateJobStatus(held[w], "failed", -1)
    /\ Leave(w, "poll")
    /\ UNCHANGED <<owner, photos, handler, faults>>

\* UpdateJobStatus fails: the error is logged and the loop goes on.
MarkLost(w) ==
    /\ wpc[w] \in {"finish", "fail"}
    /\ Fault
    /\ Leave(w, "poll")
    /\ UNCHANGED <<table, photos, handler>>

\* The process stops anywhere; an open transaction is rolled back.
Crash(w) ==
    /\ wpc[w] # "down"
    /\ Fault
    /\ Leave(w, "down")
    /\ UNCHANGED <<table, photos, handler>>

Restart(w) ==
    /\ wpc[w] = "down"
    /\ Enter(w, "poll")
    /\ UNCHANGED <<table, photos, handler, held, loc, faults>>

-----------------------------------------------------------------------------
(* The API serves POST /picker/import in either mode. *)

\* The goroutine of an import of u writes a photo.
ImportPhoto(i, u) ==
    /\ ~PhotoExistsByMediaID(i)
    /\ SavePhoto(i, u)
    /\ UNCHANGED <<table, handler, worker, faults>>

-----------------------------------------------------------------------------

HandlerStep(h) == StampJob(h) \/ InsertJob(h)

RunStep(w) ==
    \/ CommitJob(w) \/ EnsureToken(w) \/ ListPage(w) \/ SkipItem(w)
    \/ DescribeItem(w) \/ SaveItem(w) \/ SaveProgress(w) \/ RunError(w)
    \/ MarkDone(w) \/ MarkFailed(w)

WorkerStep(w) == LockJob(w) \/ RunStep(w)

WorkerFault(w) ==
    CommitJobLost(w) \/ RollbackJob(w) \/ MarkLost(w) \/ Crash(w)

Next ==
    \/ \E h \in Handlers : CheckActive(h) \/ HandlerStep(h) \/ AbortRequest(h)
    \/ \E w \in Workers :
          PollEmpty(w) \/ WorkerStep(w) \/ WorkerFault(w) \/ Restart(w)
    \/ \E i \in Items \cap Images, u \in Pickers : ImportPhoto(i, u)

Spec == Init /\ [][Next]_vars

\* A handler in flight and a worker process keep running, and Google does not
\* answer with empty pages for ever (such a page changes nothing here).  Nobody
\* has to submit a job, and nothing starts a stopped worker again (the services
\* of docker-compose.yml have no restart policy).
Fairness ==
    /\ \A h \in Handlers : WF_vars(HandlerStep(h))
    /\ \A w \in Workers : WF_vars(WorkerStep(w))

FairSpec == Spec /\ Fairness

-----------------------------------------------------------------------------
(* Properties. *)

\* A job marked running that no worker runs.
Orphan(j) == status[j] = "running" /\ \A w \in Workers : held[w] # j

\* No two workers ever lock or run the same job, whatever polls, commits,
\* rollbacks and crashes interleave: SKIP LOCKED and the status column together
\* hand a row to one worker.
OneRunnerPerJob ==
    \A v, w \in Workers : v # w /\ held[v] # NoJob => held[v] # held[w]

\* A user has at most one job queued or running: what the 409 of
\* POST /index/update is there for.  It holds when each user has one request
\* in flight, and fails when two requests of a user overlap.
OneActivePerUser ==
    \A j, k \in Jobs :
        Active(j) /\ Active(k) /\ owner[j] = owner[k] => j = k

\* However the requests of a user overlap, the user never has more jobs queued or
\* running than requests can be in flight: each request that slips past the 409 of
\* POST /index/update accounts for one job, and an active job stops all later ones.
ActiveBounded ==
    \A u \in Users :
        Cardinality({j \in JobsOf(u) : Active(j)}) <=
            Cardinality({h \in Handlers : UserOf[h] = u})

\* GET /index/status shows the newest row only, and rows need not be inserted in
\* the order of their created_at.  When requests of a user overlap, a job that is
\* still queued or running can be hidden behind a newer one that has ended; but
\* fewer are than requests can be in flight, so none is if they do not overlap.
StatusHidesFewer ==
    \A u \in Users : JobsOf(u) # {} /\ Ended(GetLatestJob(u)) =>
        Cardinality({j \in JobsOf(u) : Active(j)}) <
            Cardinality({h \in Handlers : UserOf[h] = u})

\* A job reported done has left no image of the user's library out of the photos
\* table, even when another worker or another user's job was writing the same
\* items and whatever errors single calls met.
DoneMeansIndexed ==
    \A j \in Jobs : status[j] = "done" =>
        \A i \in Library[owner[j]] \cap Images : PhotoExistsByMediaID(i)

\* The progress of a job never overstates it: full only when the job is done, and
\* otherwise no more than the images of the library that are in the table.
ProgressHonest ==
    \A j \in Jobs : status[j] # "none" =>
        /\ progress[j] = FullProgress <=> status[j] = "done"
        /\ progress[j] < FullProgress =>
              progress[j] <= Cardinality({i \in Library[owner[j]] \cap Images :
                                              PhotoExistsByMediaID(i)})

\* Every job stuck in running is the trace of a crash or of a database error:
\* no path of the worker's loop forgets a job.
OrphansComeFromFaults == Cardinality({j \in Jobs : Orphan(j)}) <= faults

\* No step changes a job that is done or failed, although UpdateJobStatus and
\* UpdateJobProgress write by id and never look at the status.
EndedIsFinal ==
    [][\A j \in Jobs : Ended(j) => /\ status'[j] = status[j]
                                  /\ progress'[j] = progress[j]]_vars

\* What is left to do before a run of worker w ends: a weight for the step it is at,
\* 4 for each item Google has yet to list and 3 for each left of the page in hand.
Rank(pc) ==
    IF pc \in {"tx", "save"} THEN 4
    ELSE IF pc \in {"token", "progress"} THEN 3
    ELSE IF pc \in {"list", "walk"} THEN 2
    ELSE IF pc \in {"finish", "fail"} THEN 1 ELSE 0

ItemsLeft(w) ==
    IF wpc[w] \in {"tx", "token"} THEN 4 * Cardinality(Library[owner[held[w]]])
    ELSE 4 * Cardinality(loc[w].unlisted) + 3 * Cardinality(loc[w].page)

StepsLeft(w) == Rank(wpc[w]) + ItemsLeft(w)

\* A worker that has taken a job gets nearer to the end of it with every step that
\* changes anything, and no step of another worker or a handler takes it back:
\* empty pages aside, a run makes at most 4 steps per item of the library and 4
\* more, whatever others write and wherever calls fail, and never walks a page twice.
RunShrinks ==
    [][\A w \in Workers : wpc[w] \in {"tx"} \cup RunStates =>
          \/ StepsLeft(w)' < StepsLeft(w)
          \/ UNCHANGED <<wpc[w], held[w], loc[w]>> /\ StepsLeft(w)' = StepsLeft(w)]_vars

\* A user with an orphaned job and no request past its check ...
LockedOut(u) ==
    /\ \E j \in JobsOf(u) : Orphan(j)
    /\ \A h \in Handlers : UserOf[h] = u => hpc[h] = "idle"

\* ... is locked out for good: nothing ever ends the orphan and every later
\* POST /index/update is refused.
LockedOutForever ==
    [][\A u \in Users : LockedOut(u) => LockedOut(u)']_vars

\* A job that was accepted ends, unless a fault orphaned it.
AcceptedEndsOrOrphaned ==
    \A j \in Jobs : status[j] = "queued" ~> (Ended(j) \/ Orphan(j))

\* The jobs table as JobQueue describes it: the runner of a running job is the
\* worker that holds it.
Runner == [j \in Jobs |->
              IF status[j] = "running" /\ \E w \in Workers : held[w] = j
              THEN CHOOSE w \in Workers : held[w] = j ELSE NoUser]

Queue == INSTANCE JobQueue WITH Runners <- Workers, NoRunner <- NoUser,
                                runner <- Runner

\* Every step of handlers and workers is a step of JobQueue or leaves its
\* variables alone.
QueueSpec == Queue!Spec

=============================================================================
