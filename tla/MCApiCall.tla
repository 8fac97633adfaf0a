------------------------------ MODULE MCApiCall ------------------------------
(* Instance of ApiCall for TLC: a second is two ticks, durations wrap at 16. *)
EXTENDS ApiCall

MCRetryMaxes == {-1, 2}
MCBaseDelays == {0, 2}

\* 9 and 17 seconds are too long for the type: the products wrap around to a
\* negative and to a short positive duration.
MCHeaders ==
    {[form |-> "none", n |-> 0], [form |-> "date", n |-> -1],
     [form |-> "date", n |-> 20]}
    \cup {[form |-> "seconds", n |-> n] : n \in {0, 3, 9, 17}}

=============================================================================
