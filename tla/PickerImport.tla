---------------------------- MODULE PickerImport ----------------------------
(***************************************************************************)
(* The picker-import path of ImageFinder, all inside one API process: the  *)
(* handlers of /picker/session and /picker/import, PickerService with its  *)
(* in-memory PickerImportTracker, and the goroutine runImport that each    *)
(* accepted import leaves behind.  The picker session itself lives at      *)
(* Google and is modelled from the calls the code makes.                   *)
(*                                                                         *)
(* A member of Requests is one call of StartImport followed by the         *)
(* goroutine it starts.  One action is one operation on shared state (the  *)
(* tracker under its mutex, the photos table, the picker session) with the *)
(* straight-line code around it.  A session id is known only to the user   *)
(* who created the session, so the requests that name it are that user's.  *)
(* The workers of IndexJobs write photos meanwhile.                        *)
(***************************************************************************)
EXTENDS Naturals, FiniteSets

CONSTANTS
    Users, Requests, Sessions, Items,
    OwnerOf,   \* the user who creates a session
    Picked,    \* the items that user selects in it
    Indexers,  \* the users whose libraries workers index
    Images,    \* the items whose MimeType begins with "image/"
    NoUser, NoSession, NoItem

ASSUME PickerImportAssumption ==
    /\ OwnerOf \in [Sessions -> Users]
    /\ Picked \in [Sessions -> SUBSET Items]
    /\ \A s \in Sessions : IsFiniteSet(Picked[s])
    /\ NoUser \notin Users
    /\ NoSession \notin Sessions
    /\ NoItem \notin Items

ASSUME IndexersAreUsers == Indexers \subseteq Users

VARIABLES
    session,  \* the picker session at Google
    tracker,  \* PickerImportTracker.status
    photos,   \* photos: google_media_id -> user_id
    pc,       \* where a request or its goroutine is
    sid,      \* the session it imports
    todo,     \* the items runImport has yet to visit
    item,     \* the photo it is about to write
    count     \* its processed, imported and failed

import == <<pc, sid, todo, item, count>>
vars   == <<session, tracker, photos, import>>

SessionStates == {"none", "picking", "picked", "deleted"}
Statuses      == {"absent", "running", "done", "failed"}
StartStates   == {"token", "collect", "relist"}
RunStates     == {"walk", "save", "report"}
Counts        == [processed : Nat, imported : Nat, failed : Nat]
Entries       == [status : Statuses, total : Nat, processed : Nat,
                  imported : Nat, failed : Nat]

NoCounts == [processed |-> 0, imported |-> 0, failed |-> 0]
Fresh    == [status |-> "running", total |-> 0,
             processed |-> 0, imported |-> 0, failed |-> 0]
Absent   == [Fresh EXCEPT !.status = "absent"]

TypeOK ==
    /\ session \in [Sessions -> SessionStates]
    /\ tracker \in [Sessions -> Entries]
    /\ photos \in [Items -> Users \cup {NoUser}]
    /\ pc \in [Requests -> StartStates \cup RunStates \cup {"idle", "close"}]
    /\ sid \in [Requests -> Sessions \cup {NoSession}]
    /\ todo \in [Requests -> SUBSET Items]
    /\ item \in [Requests -> Items \cup {NoItem}]
    /\ count \in [Requests -> Counts]

Init ==
    /\ session = [s \in Sessions |-> "none"]
    /\ tracker = [s \in Sessions |-> Absent]
    /\ photos = [i \in Items |-> NoUser]
    /\ pc = [r \in Requests |-> "idle"]
    /\ sid = [r \in Requests |-> NoSession]
    /\ todo = [r \in Requests |-> {}]
    /\ item = [r \in Requests |-> NoItem]
    /\ count = [r \in Requests |-> NoCounts]

PhotoExistsByMediaID(i) == photos[i] # NoUser

\* INSERT ... ON CONFLICT (google_media_id) DO UPDATE leaves user_id alone.
SavePhoto(i, u) ==
    photos' = [photos EXCEPT ![i] = IF @ = NoUser THEN u ELSE @]

Enter(r, p) == pc' = [pc EXCEPT ![r] = p]

\* The request or goroutine ends and its locals are gone.
Return(r) ==
    /\ Enter(r, "idle")
    /\ sid' = [sid EXCEPT ![r] = NoSession]
    /\ todo' = [todo EXCEPT ![r] = {}]
    /\ item' = [item EXCEPT ![r] = NoItem]
    /\ count' = [count EXCEPT ![r] = NoCounts]

-----------------------------------------------------------------------------
(* The session: POST and DELETE /picker/session, and the user at Google. *)

CreateSession(s) ==
    /\ session[s] = "none"
    /\ session' = [session EXCEPT ![s] = "picking"]
    /\ UNCHANGED <<tracker, photos, import>>

PickItems(s) ==
    /\ session[s] = "picking"
    /\ session' = [session EXCEPT ![s] = "picked"]
    /\ UNCHANGED <<tracker, photos, import>>

\* Nothing asks whether an import of the session is under way.
DeleteSession(s) ==
    /\ session[s] \in {"picking", "picked"}
    /\ session' = [session EXCEPT ![s] = "deleted"]
    /\ UNCHANGED <<tracker, photos, import>>

-----------------------------------------------------------------------------
(* POST /picker/import: StartImport. *)

\* Mutant: Start replaces a running entry too.
StartImport_NoRefusal(r, s) ==
    /\ pc[r] = "idle"
    /\ session[s] # "none"
    /\ tracker' = [tracker EXCEPT ![s] = Fresh]
    /\ sid' = [sid EXCEPT ![r] = s]
    /\ Enter(r, "token")
    /\ UNCHANGED <<session, photos, todo, item, count>>

\* PickerImportTracker.Start refuses a session whose entry is running and
\* replaces any other entry.
StartImport(r, s) ==
    /\ pc[r] = "idle"
    /\ session[s] # "none"
    /\ tracker[s].status # "running"
    /\ tracker' = [tracker EXCEPT ![s] = Fresh]
    /\ sid' = [sid EXCEPT ![r] = s]
    /\ Enter(r, "token")
    /\ UNCHANGED <<session, photos, todo, item, count>>

EnsureToken(r) ==
    /\ pc[r] = "token"
    /\ Enter(r, "collect")
    /\ UNCHANGED <<session, tracker, photos, sid, todo, item, count>>

\* The listing is refused with 401 or 403; the refreshed tokens are saved and
\* the listing is tried once more.
RefreshAndRetry(r) ==
    /\ pc[r] = "collect"
    /\ Enter(r, "relist")
    /\ UNCHANGED <<session, tracker, photos, sid, todo, item, count>>

\* Mutant: items that are no images are visited but not counted.
CollectItems_CountAll(r) ==
    /\ pc[r] \in {"collect", "relist"}
    /\ session[sid[r]] = "picked"
    /\ todo' = [todo EXCEPT ![r] = Picked[sid[r]]]
    /\ tracker' = [tracker EXCEPT ![sid[r]].total =
                      Cardinality(Picked[sid[r]] \cap Images)]
    /\ Enter(r, "walk")
    /\ UNCHANGED <<session, photos, sid, item, count>>

\* Every page is read before anything is kept of it; then the total is set and
\* the goroutine started.
CollectItems(r) ==
    /\ pc[r] \in {"collect", "relist"}
    /\ session[sid[r]] = "picked"
    /\ todo' = [todo EXCEPT ![r] = Picked[sid[r]] \cap Images]
    /\ tracker' = [tracker EXCEPT ![sid[r]].total = Cardinality(todo'[r])]
    /\ Enter(r, "walk")
    /\ UNCHANGED <<session, photos, sid, item, count>>

\* Mutant: a failed start does not touch the tracker.
FailStart_NoUpdate(r) ==
    /\ pc[r] \in StartStates
    /\ Return(r)
    /\ UNCHANGED <<session, tracker, photos>>

\* No token, no listing (the session may be gone), no refreshed token.
FailStart(r) ==
    /\ pc[r] \in StartStates
    /\ tracker' = [tracker EXCEPT ![sid[r]].status = "failed"]
    /\ Return(r)
    /\ UNCHANGED <<session, photos>>

-----------------------------------------------------------------------------
(* The goroutine: runImport. *)

Processed(r) == count' = [count EXCEPT ![r].processed = @ + 1]

ProcessedAndImported(r) ==
    count' = [count EXCEPT ![r].processed = @ + 1, ![r].imported = @ + 1]

\* Mutant: a failure is only kept as the last warning.
ProcessedAndFailed_WarnOnly(r) == count' = [count EXCEPT ![r].processed = @ + 1]

ProcessedAndFailed(r) ==
    count' = [count EXCEPT ![r].processed = @ + 1, ![r].failed = @ + 1]

SkipItem(r) ==
    /\ pc[r] = "walk"
    /\ \E i \in todo[r] :
          /\ PhotoExistsByMediaID(i)
          /\ todo' = [todo EXCEPT ![r] = @ \ {i}]
    /\ Processed(r)
    /\ Enter(r, "report")
    /\ UNCHANGED <<session, tracker, photos, sid, item>>

\* The photo is not in the table; it is captioned and embedded.
DescribeItem(r) ==
    /\ pc[r] = "walk"
    /\ \E i \in todo[r] :
          /\ ~PhotoExistsByMediaID(i)
          /\ todo' = [todo EXCEPT ![r] = @ \ {i}]
          /\ item' = [item EXCEPT ![r] = i]
    /\ Enter(r, "save")
    /\ UNCHANGED <<session, tracker, photos, sid, count>>

\* Mutant: the error of one item ends the import.
GiveUpItem_Abort(r) ==
    /\ pc[r] = "walk"
    /\ todo[r] # {}
    /\ tracker' = [tracker EXCEPT ![sid[r]].status = "failed"]
    /\ Return(r)
    /\ UNCHANGED <<session, photos>>

\* The look-up, Gemini or OpenAI fails: the item is given up.
GiveUpItem(r) ==
    /\ pc[r] = "walk"
    /\ \E i \in todo[r] : todo' = [todo EXCEPT ![r] = @ \ {i}]
    /\ ProcessedAndFailed(r)
    /\ Enter(r, "report")
    /\ UNCHANGED <<session, tracker, photos, sid, item>>

\* The row is written; the call may still report an error.
SaveItem(r) ==
    /\ pc[r] = "save"
    /\ SavePhoto(item[r], OwnerOf[sid[r]])
    /\ ProcessedAndImported(r) \/ ProcessedAndFailed(r)
    /\ item' = [item EXCEPT ![r] = NoItem]
    /\ Enter(r, "report")
    /\ UNCHANGED <<session, tracker, sid, todo>>

SaveItemError(r) ==
    /\ pc[r] = "save"
    /\ ProcessedAndFailed(r)
    /\ item' = [item EXCEPT ![r] = NoItem]
    /\ Enter(r, "report")
    /\ UNCHANGED <<session, tracker, photos, sid, todo>>

\* Mutant: an update starts the entry over.
Update_StatusOnly(s, st, c) ==
    tracker' = [tracker EXCEPT ![s] = [Fresh EXCEPT !.status = st]]

\* The entry of session s, whoever put it there, takes the goroutine's counters.
Update(s, st, c) ==
    tracker' = [tracker EXCEPT ![s] =
        [@ EXCEPT !.status = st, !.processed = c.processed,
                  !.imported = c.imported, !.failed = c.failed]]

\* updateProgress.
Report(r) ==
    /\ pc[r] = "report"
    /\ Update(sid[r], "running", count[r])
    /\ Enter(r, "walk")
    /\ UNCHANGED <<session, photos, sid, todo, item, count>>

\* The import is done for everyone to see before its session is deleted.
FinishImport(r) ==
    /\ pc[r] = "walk"
    /\ todo[r] = {}
    /\ Update(sid[r], "done", count[r])
    /\ Enter(r, "close")
    /\ UNCHANGED <<session, photos, sid, todo, item, count>>

\* Mutant: the deferred function reports the progress once more.
CloseSession_Report(r) ==
    /\ pc[r] = "close"
    /\ session' = [session EXCEPT ![sid[r]] = "deleted"]
    /\ Update(sid[r], "running", count[r])
    /\ Return(r)
    /\ UNCHANGED photos

\* The deferred DeleteSession; its error is dropped.
CloseSession(r) ==
    /\ pc[r] = "close"
    /\ \/ session' = [session EXCEPT ![sid[r]] = "deleted"]
       \/ session' = session
    /\ Return(r)
    /\ UNCHANGED <<tracker, photos>>

-----------------------------------------------------------------------------

\* The API process stops, or is shut down: main waits for handlers, not for
\* goroutines, and the tracker is only in memory.
Crash ==
    /\ tracker' = [s \in Sessions |-> Absent]
    /\ pc' = [r \in Requests |-> "idle"]
    /\ sid' = [r \in Requests |-> NoSession]
    /\ todo' = [r \in Requests |-> {}]
    /\ item' = [r \in Requests |-> NoItem]
    /\ count' = [r \in Requests |-> NoCounts]
    /\ UNCHANGED <<session, photos>>

\* A worker indexing the library of u writes a photo.
IndexPhoto(i, u) ==
    /\ ~PhotoExistsByMediaID(i)
    /\ SavePhoto(i, u)
    /\ UNCHANGED <<session, tracker, import>>

StartStep(r) ==
    \/ EnsureToken(r) \/ RefreshAndRetry(r) \/ CollectItems(r) \/ FailStart(r)

RunStep(r) ==
    \/ SkipItem(r) \/ DescribeItem(r) \/ GiveUpItem(r) \/ SaveItem(r)
    \/ SaveItemError(r) \/ Report(r) \/ FinishImport(r) \/ CloseSession(r)

Next ==
    \/ \E s \in Sessions :
          \/ CreateSession(s) \/ PickItems(s) \/ DeleteSession(s)
          \/ \E r \in Requests : StartImport(r, s)
    \/ \E r \in Requests : StartStep(r) \/ RunStep(r)
    \/ Crash
    \/ \E i \in Items \cap Images, u \in Indexers : IndexPhoto(i, u)

Spec == Init /\ [][Next]_vars

\* Every outgoing call has a timeout (http.Client in cmd/api), so a request and
\* its goroutine keep going while the process lives.
FairSpec == Spec /\ \A r \in Requests : WF_vars(StartStep(r) \/ RunStep(r))

-----------------------------------------------------------------------------
(* Properties. *)

\* r is between its accepted Start and its last Update of session s.
Importing(r, s) == sid[r] = s /\ pc[r] \in StartStates \cup RunStates

\* Two requests never import one session at the same time, although Start checks
\* only a status string that the goroutines themselves rewrite.
OneImporterPerSession ==
    \A s \in Sessions : \A q, r \in Requests :
        Importing(q, s) /\ Importing(r, s) => q = r

\* A session's entry says running exactly while somebody imports it, so no failure
\* path and no restart leaves an entry behind that would refuse every later import.
RunningIffImporting ==
    \A s \in Sessions :
        tracker[s].status = "running" <=> \E r \in Requests : Importing(r, s)

\* What GET /picker/import/status shows adds up at every moment: an item counts once,
\* and never more are processed than the total, so remaining is never cut off at 0.
CountsAddUp ==
    \A s \in Sessions :
        /\ tracker[s].imported + tracker[s].failed <= tracker[s].processed
        /\ tracker[s].processed <= tracker[s].total

\* An import shown as done has visited every image picked in its session, and at most
\* the number it reports as failed is missing from the photos table, even when other
\* imports write the same photos or the session is deleted under it.
DoneLosesNothing ==
    \A s \in Sessions : tracker[s].status = "done" =>
        /\ tracker[s].processed = Cardinality(Picked[s] \cap Images)
        /\ Cardinality({i \in Picked[s] \cap Images : ~PhotoExistsByMediaID(i)})
              <= tracker[s].failed

\* While a session's import runs, what a poll shows never goes backwards.
ShownMovesForward ==
    [][\A s \in Sessions :
          tracker[s].status = "running" /\ tracker'[s].status # "absent" =>
              /\ tracker'[s].total >= tracker[s].total
              /\ tracker'[s].processed >= tracker[s].processed
              /\ tracker'[s].imported >= tracker[s].imported
              /\ tracker'[s].failed >= tracker[s].failed]_vars

\* The entry of an ended import is final until the session is imported again or the
\* process stops: no late report of a goroutine brings it back to running.
EndedOnlyReplaced ==
    [][\A s \in Sessions :
          tracker[s].status \in {"done", "failed"} =>
              tracker'[s] \in {tracker[s], Fresh, Absent}]_vars

\* How far the import of a session is, as ImportService tells it.
Stage == [s \in Sessions |->
             IF tracker[s].status # "running" THEN tracker[s].status
             ELSE IF \E r \in Requests : sid[r] = s /\ pc[r] \in StartStates
                  THEN "starting" ELSE "going"]

Service == INSTANCE ImportService WITH stage <- Stage

\* Every step of handlers and goroutines is a step of ImportService or leaves its
\* variables alone: an import that goes never fails, and none skips its start.
ServiceSpec == Service!Spec

\* Every accepted import comes to an end that a poll can see (or the process stops).
ImportEnds ==
    \A s \in Sessions : tracker[s].status = "running" ~> tracker[s].status # "running"

=============================================================================
