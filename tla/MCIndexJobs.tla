----------------------------- MODULE MCIndexJobs -----------------------------
(* Instances of IndexJobs for TLC: two users whose libraries share an item. *)
EXTENDS IndexJobs, TLC

CONSTANTS u1, u2, h1, h2, a, b, v

\* One handler per user: a user's requests do not overlap.
OwnHandler == h1 :> u1 @@ h2 :> u2

\* Two handlers of the same user: a double click, or two tabs.
SameUser == h1 :> u1 @@ h2 :> u1

SharedLibrary == u1 :> {a, b, v} @@ u2 :> {b}

OneLibrary == u1 :> {a}

=============================================================================
