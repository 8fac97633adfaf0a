----------------------------- MODULE SearchPage -----------------------------
(***************************************************************************)
(* The search half of the page (frontend/src/App.tsx) on top of Search:    *)
(* runSearch, the results it shows, and the two effects that keep one      *)
(* object URL for the thumbnail of each result.  Whenever results or       *)
(* thumbnailUrls change, the page is rendered and the effects run again:   *)
(* the loads under way are aborted and those still missing start anew.     *)
(***************************************************************************)
EXTENDS Search

VARIABLES
    loading,  \* loadingSearch
    shown,    \* results
    thumbs,   \* thumbnailUrls
    loads,    \* the thumbnails being fetched by the last run of the effects
    broken,   \* the fetches of that run that have failed
    changed   \* what has been set since the effects ran: "no", "thumbs", "results"

page == <<loading, shown, thumbs, loads, broken, changed>>
vars == <<exact, photos, search, page>>

TypeOK ==
    /\ SearchTypeOK
    /\ loading \in [Pages -> BOOLEAN]
    /\ shown \in [Pages -> SUBSET Photos]
    /\ thumbs \in [Pages -> SUBSET Photos]
    /\ loads \in [Pages -> SUBSET Photos]
    /\ broken \in [Pages -> SUBSET Photos]
    /\ changed \in [Pages -> {"no", "thumbs", "results"}]

Init ==
    /\ SearchInit
    /\ loading = [p \in Pages |-> FALSE]
    /\ shown = [p \in Pages |-> {}]
    /\ thumbs = [p \in Pages |-> {}]
    /\ loads = [p \in Pages |-> {}]
    /\ broken = [p \in Pages |-> {}]
    /\ changed = [p \in Pages |-> "no"]

\* The page is done with its request.
CloseRequest(p) ==
    /\ pc' = [pc EXCEPT ![p] = "idle"]
    /\ asked' = [asked EXCEPT ![p] = NoAsk]
    /\ found' = [found EXCEPT ![p] = {}]
    /\ seen' = [seen EXCEPT ![p] = NoneSeen]
    /\ known' = [known EXCEPT ![p] = NoneKnown]
    /\ how' = [how EXCEPT ![p] = "none"]
    /\ loading' = [loading EXCEPT ![p] = FALSE]
    /\ UNCHANGED <<exact, photos>>

-----------------------------------------------------------------------------
(* runSearch; its button is disabled while it runs. *)

RunSearch(p, q) ==
    /\ ~loading[p]
    /\ loading' = [loading EXCEPT ![p] = TRUE]
    /\ Ask(p, q) \/ Refuse(p, q)
    /\ UNCHANGED <<shown, thumbs, loads, broken, changed>>

ShowResults(p) ==
    /\ loading[p]
    /\ pc[p] = "answered"
    /\ shown' = [shown EXCEPT ![p] = found[p]]
    /\ changed' = [changed EXCEPT ![p] = "results"]
    /\ CloseRequest(p)
    /\ UNCHANGED <<thumbs, loads, broken>>

\* Mutant: only an answer makes the button work again.
ShowError_StayBusy(p) ==
    /\ loading[p]
    /\ pc[p] = "failed"
    /\ pc' = [pc EXCEPT ![p] = "idle"]
    /\ UNCHANGED <<exact, photos, asked, found, seen, known, how, page>>

\* An error is answered, or no answer arrives: the old results stay.
ShowError(p) ==
    /\ loading[p]
    /\ pc[p] = "failed"
    /\ CloseRequest(p)
    /\ UNCHANGED <<shown, thumbs, loads, broken, changed>>

LoseAnswer(p) ==
    /\ loading[p]
    /\ pc[p] \in {"embed", "approx", "exact", "answered"}
    /\ CloseRequest(p)
    /\ UNCHANGED <<shown, thumbs, loads, broken, changed>>

-----------------------------------------------------------------------------
(* The effects on results and thumbnailUrls. *)

\* Mutant: only new results start loads; the aborted ones stay aborted.
RunEffects_StartOnce(p) ==
    /\ changed[p] # "no"
    /\ thumbs' = [thumbs EXCEPT ![p] = IF shown[p] = {} THEN @ ELSE @ \cap shown[p]]
    /\ loads' = [loads EXCEPT ![p] = IF changed[p] = "results" THEN shown[p] \ thumbs[p] ELSE {}]
    /\ broken' = [broken EXCEPT ![p] = {}]
    /\ changed' = [changed EXCEPT ![p] = "no"]
    /\ UNCHANGED <<exact, photos, search, loading, shown>>

\* Mutant: the loads of earlier results are not aborted.
RunEffects_NoAbort(p) ==
    /\ changed[p] # "no"
    /\ thumbs' = [thumbs EXCEPT ![p] = IF shown[p] = {} THEN @ ELSE @ \cap shown[p]]
    /\ loads' = [loads EXCEPT ![p] = (@ \cup shown[p]) \ thumbs[p]]
    /\ broken' = [broken EXCEPT ![p] = {}]
    /\ changed' = [changed EXCEPT ![p] = "no"]
    /\ UNCHANGED <<exact, photos, search, loading, shown>>

\* Mutant: the first effect depends on thumbnailUrls, too, and sets them each time.
RunEffects_SetEachTime(p) ==
    LET prune == shown[p] # {} IN
    /\ changed[p] # "no"
    /\ thumbs' = [thumbs EXCEPT ![p] = IF prune THEN @ \cap shown[p] ELSE @]
    /\ loads' = [loads EXCEPT ![p] = shown[p] \ thumbs[p]]
    /\ broken' = [broken EXCEPT ![p] = {}]
    /\ changed' = [changed EXCEPT ![p] = IF prune THEN "thumbs" ELSE "no"]
    /\ UNCHANGED <<exact, photos, search, loading, shown>>

\* The first effect runs on new results and drops the URLs of other photos,
\* which changes thumbnailUrls once more.  The second aborts what is loading
\* and loads what its closure finds missing.  Neither does that for no results.
RunEffects(p) ==
    LET prune == changed[p] = "results" /\ shown[p] # {} IN
    /\ changed[p] # "no"
    /\ thumbs' = [thumbs EXCEPT ![p] = IF prune THEN @ \cap shown[p] ELSE @]
    /\ loads' = [loads EXCEPT ![p] = shown[p] \ thumbs[p]]
    /\ broken' = [broken EXCEPT ![p] = {}]
    /\ changed' = [changed EXCEPT ![p] = IF prune THEN "thumbs" ELSE "no"]
    /\ UNCHANGED <<exact, photos, search, loading, shown>>

\* handlePhotoThumbnail answers with the image.
LoadThumbnail(p, i) ==
    /\ i \in loads[p]
    /\ GetPhotoByID(p, i)
    /\ loads' = [loads EXCEPT ![p] = @ \ {i}]
    /\ thumbs' = [thumbs EXCEPT ![p] = @ \cup {i}]
    /\ changed' = [changed EXCEPT ![p] = IF @ = "no" THEN "thumbs" ELSE @]
    /\ UNCHANGED <<exact, photos, search, loading, shown, broken>>

\* It answers with an error, or not at all: nothing is set, and nothing is
\* tried again until the effects run for another reason.
ThumbnailFails(p, i) ==
    /\ i \in loads[p]
    /\ loads' = [loads EXCEPT ![p] = @ \ {i}]
    /\ broken' = [broken EXCEPT ![p] = @ \cup {i}]
    /\ UNCHANGED <<exact, photos, search, loading, shown, thumbs, changed>>

Request(p) ==
    \/ Serve(p) /\ UNCHANGED page
    \/ ShowResults(p) \/ ShowError(p)

Fetch(p, i) == LoadThumbnail(p, i) \/ ThumbnailFails(p, i)

Next ==
    \/ \E p \in Pages : \/ \E q \in Asks : RunSearch(p, q)
                        \/ Request(p) \/ LoseAnswer(p) \/ RunEffects(p)
                        \/ \E i \in Photos : Fetch(p, i)
    \/ \E i \in Photos, u \in Users : SavePhoto(i, u) /\ UNCHANGED page

Spec == Init /\ [][Next]_vars

\* A request is served to its end and the answer shown, React runs the
\* effects of a render, and a fetch ends.
Fairness ==
    \A p \in Pages : /\ WF_vars(Request(p))
                     /\ WF_vars(RunEffects(p))
                     /\ \A i \in Photos : WF_vars(Fetch(p, i))

FairSpec == Spec /\ Fairness

-----------------------------------------------------------------------------
(* Properties. *)

\* Every photo the page shows, or is about to show, is one its user can open:
\* the rows behind an answer stay that user's whatever is stored later.
ShownCanBeOpened ==
    \A p \in Pages : \A i \in shown[p] \cup found[p] : GetPhotoByID(p, i)

\* Once the effects have run, the URLs kept are those of shown photos, also
\* when loads begun for earlier results end late; and every shown photo has
\* its thumbnail, is being loaded, or has failed to load in this run.
ThumbnailsOfShown ==
    \A p \in Pages : changed[p] = "no" /\ shown[p] # {} =>
       thumbs[p] \cup loads[p] \cup broken[p] = shown[p]

\* Each thumbnail that arrives aborts and restarts all other loads; even so
\* every shown photo gets its thumbnail unless loading it fails.
ThumbnailsSettle ==
    \A p \in Pages, i \in Photos :
       i \in shown[p] ~> i \in thumbs[p] \cup broken[p] \/ i \notin shown[p]

\* The thumbnails still missing, the renders to come for what has been set, and the
\* fetches under way: what the page has to do before it is at rest.
Missing(p) == Cardinality(shown[p] \ thumbs[p])
Renders(p) ==
    IF changed[p] = "results" THEN 2 ELSE IF changed[p] = "thumbs" THEN 1 ELSE 0
Fetches(p) == Cardinality(loads[p])

Settles(p) ==
    \/ Missing(p)' < Missing(p)
    \/ Missing(p)' = Missing(p) /\ Renders(p)' < Renders(p)
    \/ /\ Missing(p)' = Missing(p) /\ Renders(p)' = Renders(p)
       /\ Fetches(p)' < Fetches(p)

\* The effects set what they depend on and each thumbnail starts them again, but they
\* never go round in circles: until a search ends, every step that touches what the
\* page shows brings it nearer to rest.
RendersEnd ==
    [][\A p \in Pages :
          \/ UNCHANGED <<shown[p], thumbs[p], loads[p], broken[p], changed[p]>>
          \/ loading[p] /\ ~loading'[p]
          \/ Settles(p)]_vars

\* However a search ends, its button works again.
SearchEnds == \A p \in Pages : loading[p] ~> ~loading[p]

=============================================================================
