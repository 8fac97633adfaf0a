---------------------------- MODULE MCSearchPage ----------------------------
(* Instance of SearchPage for TLC: one page, two photos and one text.  The   *)
(* first was taken at midnight; a run stores its time and place, an import   *)
(* neither, and their captions bring it before or behind the second.  The    *)
(* second was taken later that day, and another user's runs meet it, too.    *)
EXTENDS SearchPage, TLC

CONSTANTS u1, u2, p1, x, y, tokyo, beach

Version(created, at, distance) ==
    [created |-> created, at |-> at, distance |-> beach :> distance]

MCUserOf   == p1 :> u1
MCItems    == u1 :> {x, y} @@ u2 :> {y}
MCVersions == x :> {Version(2, {tokyo}, 0), Version(NoTime, {}, 2)}
                @@ y :> {Version(3, {tokyo}, 1)}
MCDays     == {1}

=============================================================================
