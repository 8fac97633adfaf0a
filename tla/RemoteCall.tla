----------------------------- MODULE RemoteCall -----------------------------
(***************************************************************************)
(* What the callers of a provider may rely on, and what the other modules  *)
(* assume when they write a call of Google, OpenAI or Gemini as one step:  *)
(* a call that answers has been performed, by then, at least once; a call  *)
(* that fails may have been performed or may still be, any number of       *)
(* times; and every call answers or fails.                                 *)
(***************************************************************************)
EXTENDS Naturals

VARIABLES
    state,      \* the call, for its caller
    performed   \* how often the provider has performed it

vars == <<state, performed>>

Init == state = "idle" /\ performed = 0

Begin   == state = "idle" /\ state' = "pending" /\ UNCHANGED performed
Perform == state # "idle" /\ performed' = performed + 1 /\ UNCHANGED state
Answer  == state = "pending" /\ performed > 0 /\ state' = "ok" /\ UNCHANGED performed
Fail    == state = "pending" /\ state' = "failed" /\ UNCHANGED performed

Next == Begin \/ Perform \/ Answer \/ Fail

Spec == Init /\ [][Next]_vars /\ WF_vars(Answer \/ Fail)

=============================================================================
