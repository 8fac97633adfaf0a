------------------------------ MODULE JobQueue ------------------------------
(***************************************************************************)
(* What the jobs table promises, with no handler, transaction or worker    *)
(* loop in it: a job is submitted once, started once by at most one        *)
(* runner, advanced only by that runner, and ended at most once.  A runner *)
(* may be lost, and then nobody ever takes the job up again.  IndexJobs is *)
(* shown to implement this specification.                                  *)
(***************************************************************************)
EXTENDS Naturals

CONSTANTS
    Jobs, Runners,
    NoRunner,      \* not a runner
    FullProgress   \* a positive number

VARIABLES status, progress, runner

vars == <<status, progress, runner>>

Init ==
    /\ status = [j \in Jobs |-> "none"]
    /\ progress = [j \in Jobs |-> 0]
    /\ runner = [j \in Jobs |-> NoRunner]

Submit(j) ==
    /\ status[j] = "none"
    /\ status' = [status EXCEPT ![j] = "queued"]
    /\ UNCHANGED <<progress, runner>>

\* The job starts under runner r, which runs nothing else; r = NoRunner is a
\* start whose runner never hears of it.
Start(j, r) ==
    /\ status[j] = "queued"
    /\ r # NoRunner => \A k \in Jobs : runner[k] # r
    /\ status' = [status EXCEPT ![j] = "running"]
    /\ runner' = [runner EXCEPT ![j] = r]
    /\ UNCHANGED progress

\* Progress moves forward and never reaches FullProgress before the end.
Advance(j) ==
    /\ status[j] = "running" /\ runner[j] # NoRunner
    /\ \E p \in progress[j] .. (FullProgress - 1) :
          progress' = [progress EXCEPT ![j] = p]
    /\ UNCHANGED <<status, runner>>

Finish(j) ==
    /\ status[j] = "running" /\ runner[j] # NoRunner
    /\ status' = [status EXCEPT ![j] = "done"]
    /\ progress' = [progress EXCEPT ![j] = FullProgress]
    /\ runner' = [runner EXCEPT ![j] = NoRunner]

Fail(j) ==
    /\ status[j] = "running" /\ runner[j] # NoRunner
    /\ status' = [status EXCEPT ![j] = "failed"]
    /\ runner' = [runner EXCEPT ![j] = NoRunner]
    /\ UNCHANGED progress

\* The runner goes away and leaves the job marked running.
Lose(j) ==
    /\ status[j] = "running" /\ runner[j] # NoRunner
    /\ runner' = [runner EXCEPT ![j] = NoRunner]
    /\ UNCHANGED <<status, progress>>

Next ==
    \E j \in Jobs :
        \/ Submit(j)
        \/ \E r \in Runners \cup {NoRunner} : Start(j, r)
        \/ Advance(j)
        \/ Finish(j)
        \/ Fail(j)
        \/ Lose(j)

Spec == Init /\ [][Next]_vars

=============================================================================
