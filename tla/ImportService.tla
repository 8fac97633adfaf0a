---------------------------- MODULE ImportService ----------------------------
(***************************************************************************)
(* What the API promises about picker sessions and their imports, with no  *)
(* token, item, counter or goroutine in it: a session is imported by one   *)
(* import at a time; an import either fails before it goes or goes on to   *)
(* be done, and only a picked session is ever gone on with; what has ended *)
(* stays ended until the session is imported again or the process forgets  *)
(* everything.  PickerImport is shown to implement this specification, and *)
(* PickerPage runs the frontend against it.                                *)
(***************************************************************************)
CONSTANT Sessions

VARIABLES
    session,  \* the picker session at Google
    stage     \* how far the session's import is; "starting" and "going" are
              \* both shown as running

vars == <<session, stage>>

Running(s) == stage[s] \in {"starting", "going"}

Init ==
    /\ session = [s \in Sessions |-> "none"]
    /\ stage = [s \in Sessions |-> "absent"]

CreateSession(s) ==
    /\ session[s] = "none"
    /\ session' = [session EXCEPT ![s] = "picking"]
    /\ UNCHANGED stage

PickItems(s) ==
    /\ session[s] = "picking"
    /\ session' = [session EXCEPT ![s] = "picked"]
    /\ UNCHANGED stage

\* By a user, by the import that has ended, or by Google.
DeleteSession(s) ==
    /\ session[s] # "none"
    /\ session' = [session EXCEPT ![s] = "deleted"]
    /\ UNCHANGED stage

Move(s, from, to) ==
    /\ stage[s] \in from
    /\ stage' = [stage EXCEPT ![s] = to]
    /\ UNCHANGED session

Start(s)  == session[s] # "none" /\ Move(s, {"absent", "done", "failed"}, "starting")
Accept(s) == session[s] = "picked" /\ Move(s, {"starting"}, "going")
Fail(s)   == Move(s, {"starting"}, "failed")
Finish(s) == Move(s, {"going"}, "done")

\* The API process stops.
Forget ==
    /\ stage' = [s \in Sessions |-> "absent"]
    /\ UNCHANGED session

Next ==
    \/ \E s \in Sessions :
          \/ CreateSession(s) \/ PickItems(s) \/ DeleteSession(s)
          \/ Start(s) \/ Accept(s) \/ Fail(s) \/ Finish(s)
    \/ Forget

Spec == Init /\ [][Next]_vars

=============================================================================
