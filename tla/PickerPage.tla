----------------------------- MODULE PickerPage -----------------------------
(***************************************************************************)
(* The picker half of the page (frontend/src/App.tsx): the button that     *)
(* creates a session, the effect that polls the session until the user has *)
(* picked, the import it then requests, and the effect that polls the      *)
(* import until it ends; with the API as ImportService describes it.       *)
(*                                                                         *)
(* A fetch is sent, served and delivered in three steps, and the timers do *)
(* not wait for it, so calls of one effect overlap and their answers may   *)
(* come in any order.  A slot holds one call: the members of Clicks        *)
(* sessions being created, those of Watchers polls of a session and the    *)
(* imports they lead to, those of Followers polls of an import.  An effect *)
(* that is cleaned up sends nothing more, but the answers to what it has   *)
(* sent are still acted upon, with the values its closure captured.        *)
(***************************************************************************)
EXTENDS Naturals

CONSTANTS
    Sessions,
    Clicks, Watchers, Followers,
    MaxFaults,  \* bound: calls that fail on the way and ends of the API process
    NoSession

ASSUME PickerPageAssumption ==
    /\ Clicks \cap (Watchers \cup Followers) = {}
    /\ Watchers \cap Followers = {}
    /\ MaxFaults \in Nat
    /\ NoSession \notin Sessions

VARIABLES
    session, stage,  \* as in ImportService
    pickerSession,   \* the session of the last answer to POST /picker/session
    stopped,         \* whether the effect of pickerSession has stopped polling;
                     \* TRUE while there is no such effect
    busy,            \* importing, as that effect's closure captured it
    importing,       \* importingPicker
    importId,        \* pickerImportId
    failure,         \* whether pickerStatus tells of a failure
    opened,          \* the sessions whose picker window has been opened
    call,            \* the calls in flight
    faults

page == <<pickerSession, stopped, busy, importing, importId, failure, opened>>
vars == <<session, stage, page, call, faults>>

Server == INSTANCE ImportService

Slots    == Clicks \cup Watchers \cup Followers
Kinds    == {"create", "watch", "import", "follow"}
Answers  == {"none", "starting", "ok", "picking", "picked", "running", "done", "error"}
NoCall   == [kind |-> "no", sid |-> NoSession, busy |-> FALSE, answer |-> "none"]
Calls    == [kind : Kinds \cup {"no"}, sid : Sessions \cup {NoSession},
             busy : BOOLEAN, answer : Answers]

TypeOK ==
    /\ pickerSession \in Sessions \cup {NoSession}
    /\ importId \in Sessions \cup {NoSession}
    /\ stopped \in BOOLEAN /\ busy \in BOOLEAN /\ importing \in BOOLEAN
    /\ failure \in BOOLEAN
    /\ opened \in SUBSET Sessions
    /\ call \in [Slots -> Calls]
    /\ faults \in 0 .. MaxFaults

Init ==
    /\ Server!Init
    /\ pickerSession = NoSession /\ importId = NoSession
    /\ stopped = TRUE /\ busy = FALSE /\ importing = FALSE /\ failure = FALSE
    /\ opened = {}
    /\ call = [c \in Slots |-> NoCall]
    /\ faults = 0

Send(c, k, s, b) ==
    call' = [call EXCEPT ![c] = [kind |-> k, sid |-> s, busy |-> b, answer |-> "none"]]

Answer(c, a) == call' = [call EXCEPT ![c].answer = a]

Sent(c, k) == call[c].kind = k /\ call[c].answer = "none"

Got(c, k, a) == call[c].kind = k /\ call[c].answer = a

EndCall(c) == call' = [call EXCEPT ![c] = NoCall]

-----------------------------------------------------------------------------
(* POST /picker/session: startPicker. *)

\* The button is enabled unless an import is shown as under way.
StartPicker(c) ==
    /\ c \in Clicks /\ call[c] = NoCall
    /\ ~importing
    /\ failure' = FALSE
    /\ Send(c, "create", NoSession, FALSE)
    /\ UNCHANGED <<session, stage, pickerSession, stopped, busy, importing, importId,
                   opened, faults>>

\* A new session, or none when all of Sessions are used.
ServeCreate(c) ==
    /\ Sent(c, "create")
    /\ \/ \E s \in Sessions :
             /\ Server!CreateSession(s)
             /\ call' = [call EXCEPT ![c].sid = s, ![c].answer = "ok"]
       \/ /\ \A s \in Sessions : session[s] # "none"
          /\ Answer(c, "error")
          /\ UNCHANGED <<session, stage>>
    /\ UNCHANGED <<page, faults>>

\* The window opens, the old effect is cleaned up and a new one starts.
SessionCreated(c) ==
    /\ Got(c, "create", "ok")
    /\ pickerSession' = call[c].sid
    /\ stopped' = FALSE
    /\ busy' = importing
    /\ opened' = opened \cup {call[c].sid}
    /\ failure' = FALSE
    /\ EndCall(c)
    /\ UNCHANGED <<session, stage, importing, importId, faults>>

CreateFailed(c) ==
    /\ Got(c, "create", "error")
    /\ failure' = TRUE
    /\ EndCall(c)
    /\ UNCHANGED <<session, stage, pickerSession, stopped, busy, importing, importId,
                   opened, faults>>

PickItems(s) ==
    /\ s \in opened
    /\ Server!PickItems(s)
    /\ UNCHANGED <<page, call, faults>>

\* Google expires the session, or the import deletes it.
DeleteSession(s) ==
    /\ session[s] # "deleted"
    /\ Server!DeleteSession(s)
    /\ UNCHANGED <<page, call, faults>>

-----------------------------------------------------------------------------
(* GET /picker/session/{id}: the effect on pickerSession. *)

PollSession(w) ==
    /\ w \in Watchers /\ call[w] = NoCall
    /\ ~stopped
    /\ Send(w, "watch", pickerSession, busy)
    /\ UNCHANGED <<session, stage, page, faults>>

ServeWatch(w) ==
    /\ Sent(w, "watch")
    /\ LET state == session[call[w].sid]
       IN Answer(w, IF state \in {"picking", "picked"} THEN state ELSE "error")
    /\ UNCHANGED <<session, stage, page, faults>>

\* Mutant: the effect stops whatever media_items_set says.
NotPicked_Stop(w) ==
    /\ Got(w, "watch", "picking")
    /\ stopped' = TRUE
    /\ EndCall(w)
    /\ UNCHANGED <<session, stage, pickerSession, busy, importing, importId, failure,
                   opened, faults>>

NotPicked(w) ==
    /\ Got(w, "watch", "picking")
    /\ EndCall(w)
    /\ UNCHANGED <<session, stage, page, faults>>

WatchFailed(w) ==
    /\ Got(w, "watch", "error")
    /\ failure' = TRUE
    /\ EndCall(w)
    /\ UNCHANGED <<session, stage, pickerSession, stopped, busy, importing, importId,
                   opened, faults>>

\* An effect that has been replaced can only stop itself.
Stop(s) == stopped' = (stopped \/ s = pickerSession)

\* importPickerSession returns at once: its closure says an import is under way.
IgnorePicked(w) ==
    /\ Got(w, "watch", "picked")
    /\ call[w].busy
    /\ Stop(call[w].sid)
    /\ EndCall(w)
    /\ UNCHANGED <<session, stage, pickerSession, busy, importing, importId, failure,
                   opened, faults>>

\* Mutant: the effect polls on.
ImportPicked_PollOn(w) ==
    /\ Got(w, "watch", "picked")
    /\ ~call[w].busy
    /\ importing' = TRUE
    /\ failure' = FALSE
    /\ Send(w, "import", call[w].sid, FALSE)
    /\ UNCHANGED <<session, stage, pickerSession, stopped, busy, importId, opened, faults>>

\* Neither stopped nor importingPicker is read again after the answer.
ImportPicked(w) ==
    /\ Got(w, "watch", "picked")
    /\ ~call[w].busy
    /\ Stop(call[w].sid)
    /\ importing' = TRUE
    /\ failure' = FALSE
    /\ Send(w, "import", call[w].sid, FALSE)
    /\ UNCHANGED <<session, stage, pickerSession, busy, importId, opened, faults>>

-----------------------------------------------------------------------------
(* POST /picker/import: importPickerSession. *)

ServeImport(w) ==
    /\ Sent(w, "import")
    /\ \/ Server!Start(call[w].sid) /\ Answer(w, "starting")
       \/ /\ Server!Running(call[w].sid)
          /\ Answer(w, "error")
          /\ UNCHANGED <<session, stage>>
    /\ UNCHANGED <<page, faults>>

\* The call that waits for the start of s, if it still does, has its answer.
Reply(s, a) ==
    call' = [c \in Slots |->
                IF call[c].answer = "starting" /\ call[c].sid = s
                THEN [call[c] EXCEPT !.answer = a] ELSE call[c]]

Accept(s) == Server!Accept(s) /\ Reply(s, "ok") /\ UNCHANGED <<page, faults>>
Fail(s)   == Server!Fail(s) /\ Reply(s, "error") /\ UNCHANGED <<page, faults>>
Finish(s) == Server!Finish(s) /\ UNCHANGED <<page, call, faults>>

ImportStarted(w) ==
    /\ Got(w, "import", "ok")
    /\ importId' = call[w].sid
    /\ EndCall(w)
    /\ UNCHANGED <<session, stage, pickerSession, stopped, busy, importing, failure,
                   opened, faults>>

\* Mutant: only the message is set.
ImportRefused_KeepBusy(w) ==
    /\ Got(w, "import", "error")
    /\ failure' = TRUE
    /\ EndCall(w)
    /\ UNCHANGED <<session, stage, pickerSession, stopped, busy, importing, importId,
                   opened, faults>>

ImportRefused(w) ==
    /\ Got(w, "import", "error")
    /\ importing' = FALSE
    /\ failure' = TRUE
    /\ EndCall(w)
    /\ UNCHANGED <<session, stage, pickerSession, stopped, busy, importId, opened, faults>>

-----------------------------------------------------------------------------
(* GET /picker/import/status/{id}: the effect on pickerImportId. *)

PollImport(f) ==
    /\ f \in Followers /\ call[f] = NoCall
    /\ importId # NoSession
    /\ Send(f, "follow", importId, FALSE)
    /\ UNCHANGED <<session, stage, page, faults>>

\* An entry that has failed and an entry that is not there mean the same to the page.
ServeFollow(f) ==
    /\ Sent(f, "follow")
    /\ LET s == call[f].sid
       IN Answer(f, IF Server!Running(s) THEN "running"
                    ELSE IF stage[s] = "done" THEN "done" ELSE "error")
    /\ UNCHANGED <<session, stage, page, faults>>

StillRunning(f) ==
    /\ Got(f, "follow", "running")
    /\ EndCall(f)
    /\ UNCHANGED <<session, stage, page, faults>>

\* Whichever import and whichever session the page is about by now.
ImportDone(f) ==
    /\ Got(f, "follow", "done")
    /\ pickerSession' = NoSession
    /\ stopped' = TRUE
    /\ importId' = NoSession
    /\ importing' = FALSE
    /\ failure' = FALSE
    /\ EndCall(f)
    /\ UNCHANGED <<session, stage, busy, opened, faults>>

\* Mutant: an error only sets the message, and the polling goes on.
ImportLost_PollOn(f) ==
    /\ Got(f, "follow", "error")
    /\ failure' = TRUE
    /\ EndCall(f)
    /\ UNCHANGED <<session, stage, pickerSession, stopped, busy, importing, importId,
                   opened, faults>>

ImportLost(f) ==
    /\ Got(f, "follow", "error")
    /\ importId' = NoSession
    /\ importing' = FALSE
    /\ failure' = TRUE
    /\ EndCall(f)
    /\ UNCHANGED <<session, stage, pickerSession, stopped, busy, opened, faults>>

-----------------------------------------------------------------------------

\* A call fails on its way, before or after the API has served it.
Drop(c) ==
    /\ call[c].kind # "no" /\ call[c].answer # "error"
    /\ faults < MaxFaults
    /\ faults' = faults + 1
    /\ Answer(c, "error")
    /\ UNCHANGED <<session, stage, page>>

\* The API process stops and restarts; what it has not answered fails.
Crash ==
    /\ faults < MaxFaults
    /\ faults' = faults + 1
    /\ Server!Forget
    /\ call' = [c \in Slots |->
                   IF call[c].kind # "no" /\ call[c].answer \in {"none", "starting"}
                   THEN [call[c] EXCEPT !.answer = "error"] ELSE call[c]]
    /\ UNCHANGED page

Serve(c) == ServeCreate(c) \/ ServeWatch(c) \/ ServeImport(c) \/ ServeFollow(c)

Deliver(c) ==
    \/ SessionCreated(c) \/ CreateFailed(c)
    \/ NotPicked(c) \/ WatchFailed(c) \/ IgnorePicked(c) \/ ImportPicked(c)
    \/ ImportStarted(c) \/ ImportRefused(c)
    \/ StillRunning(c) \/ ImportDone(c) \/ ImportLost(c)

Next ==
    \/ \E c \in Slots :
          \/ StartPicker(c) \/ PollSession(c) \/ PollImport(c)
          \/ Serve(c) \/ Deliver(c) \/ Drop(c)
    \/ \E s \in Sessions :
          \/ PickItems(s) \/ DeleteSession(s)
          \/ Accept(s) \/ Fail(s) \/ Finish(s)
    \/ Crash

Spec == Init /\ [][Next]_vars

\* Timers fire, answers or errors arrive and are handled, and the API ends what it
\* starts (ImportEnds of PickerImport).  Nothing is asked of the user or of Google.
FairSpec ==
    /\ Spec
    /\ WF_vars(\E w \in Watchers : PollSession(w))
    /\ WF_vars(\E f \in Followers : PollImport(f))
    /\ \A c \in Slots : WF_vars(Serve(c) \/ Deliver(c))
    /\ \A s \in Sessions : WF_vars(Accept(s) \/ Fail(s)) /\ WF_vars(Finish(s))

-----------------------------------------------------------------------------
(* Properties. *)

\* The page shows an import as under way only while it waits for an answer to one it
\* requested or has an id to poll, whichever of its overlapping calls ended first: the
\* button is never disabled with nothing left that could enable it.
BusyHasReason ==
    importing => \/ importId # NoSession
                 \/ \E w \in Slots : call[w].kind = "import"

\* As long as no call fails on its way, the button is disabled while any import runs.
BusyWhileRunning ==
    faults = 0 => \A s \in Sessions : Server!Running(s) => importing

\* An import shown as under way is not shown so for ever.
ButtonComesBack == importing ~> ~importing

\* What the user picks in the session the page watches is imported, or the page shows
\* a failure, or Google drops the session first.
SelectionHandled ==
    \A s \in Sessions :
        pickerSession = s /\ ~stopped /\ session[s] = "picked"
            ~> stage[s] # "absent" \/ failure \/ session[s] = "deleted"

=============================================================================
