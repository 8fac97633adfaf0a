------------------------------- MODULE Search -------------------------------
(***************************************************************************)
(* POST /search: handleSearch, SearchService.Search and Store.SearchPhotos *)
(* over the photos table, which indexing and importing write meanwhile.    *)
(*                                                                         *)
(* A page asks one search at a time.  An instant is a natural number, a    *)
(* day is DayLength of them; of an embedding only its distance to that of  *)
(* each text counts.  The index on embeddings is approximate: what a query *)
(* that uses it visits is any part of the rows that match.                 *)
(***************************************************************************)
EXTENDS Integers, FiniteSets

CONSTANTS
    Users, Photos, Pages, Days, Places,
    UserOf,     \* the user logged in at a page
    Items,      \* the photos a user's runs and imports meet
    Texts,      \* what a page searches for
    Versions,   \* what may be written about a photo
    DayLength,
    Limits,     \* the limits asked for
    MaxLimit,   \* MAX_SEARCH_LIMIT
    NoUser, NoDay, NoPlace, NoTime, NoText, NoRow

\* The columns of a photo that a search reads: created_time, the places its
\* location contains, and the embedding of its caption.
Descriptions ==
    [created : Nat \cup {NoTime}, at : SUBSET Places, distance : [Texts -> Nat]]

ASSUME SearchAssumption ==
    /\ UserOf \in [Pages -> Users]
    /\ Items \in [Users -> SUBSET Photos]
    /\ NoUser \notin Users
    /\ IsFiniteSet(Photos)
    /\ NoTime \notin Nat
    /\ Versions \in [Photos -> SUBSET Descriptions]
    /\ NoRow \notin Descriptions
    /\ NoText \notin Texts
    /\ Days \subseteq Nat /\ NoDay \notin Days
    /\ NoPlace \notin Places
    /\ DayLength \in Nat \ {0}
    /\ Limits \subseteq Int /\ 0 \in Limits
    /\ MaxLimit \in Nat \ {0}

VARIABLES
    exact,   \* VECTOR_SEARCH_EXACT
    owner,   \* photos: id -> user_id
    row,     \* photos: id -> what else is stored
    pc,      \* where a page's request is
    asked,   \* its text, filters and limit
    found,   \* the items of its answer
    seen,    \* their rows as the query read them
    known,   \* the versions of the photos the user had when it was made, from
             \* then until it was answered (history)
    how      \* how the items were found (history)

photos == <<owner, row>>
search == <<pc, asked, found, seen, known, how>>

Asks == [text : Texts, from : Days \cup {NoDay}, to : Days \cup {NoDay},
         place : Places \cup {NoPlace}, limit : Limits]
NoAsk == [text |-> NoText, from |-> NoDay, to |-> NoDay, place |-> NoPlace, limit |-> 0]

NoneSeen == [i \in Photos |-> NoRow]
NoneKnown == [i \in Photos |-> {}]

SearchTypeOK ==
    /\ exact \in BOOLEAN
    /\ owner \in [Photos -> Users \cup {NoUser}]
    /\ row \in [Photos -> Descriptions \cup {NoRow}]
    /\ pc \in [Pages -> {"idle", "embed", "approx", "exact", "answered", "failed"}]
    /\ asked \in [Pages -> Asks \cup {NoAsk}]
    /\ found \in [Pages -> SUBSET Photos]
    /\ seen \in [Pages -> [Photos -> Descriptions \cup {NoRow}]]
    /\ known \in [Pages -> [Photos -> SUBSET Descriptions]]
    /\ how \in [Pages -> {"none", "all", "some", "lost"}]
    /\ \A p \in Pages : Cardinality(found[p]) <= MaxLimit

SearchInit ==
    /\ exact \in BOOLEAN
    /\ owner = [i \in Photos |-> NoUser]
    /\ row = [i \in Photos |-> NoRow]
    /\ pc = [p \in Pages |-> "idle"]
    /\ asked = [p \in Pages |-> NoAsk]
    /\ found = [p \in Pages |-> {}]
    /\ seen = [p \in Pages |-> NoneSeen]
    /\ known = [p \in Pages |-> NoneKnown]
    /\ how = [p \in Pages |-> "none"]

\* time.Parse of a date.
Midnight(d) == d * DayLength

\* The WHERE clause.  A photo without the column a filter is about is NULL
\* there and not found.
InPeriod(r, q) ==
    /\ q.from # NoDay => r.created # NoTime /\ r.created >= Midnight(q.from)
    /\ q.to # NoDay   => r.created # NoTime /\ r.created <= Midnight(q.to)
InPlace(r, q) == q.place # NoPlace => q.place \in r.at
Matches(r, q) == InPeriod(r, q) /\ InPlace(r, q)

Matching(p) == {i \in Photos : owner[i] = UserOf[p] /\ Matches(row[i], asked[p])}

Distance(r, q) == r.distance[q.text]

\* ORDER BY distance LIMIT n: ties may fall either way.
\* Mutant: the limit is taken before the order.
Nearest_AnyOf(S, q) ==
    {T \in SUBSET S :
        Cardinality(T) = IF Cardinality(S) < q.limit THEN Cardinality(S) ELSE q.limit}
Nearest(S, q) ==
    {T \in SUBSET S :
        /\ Cardinality(T) = IF Cardinality(S) < q.limit THEN Cardinality(S) ELSE q.limit
        /\ \A i \in T, j \in S \ T : Distance(row[i], q) <= Distance(row[j], q)}

\* The nearest of the rows that the index visits, which may be any.
SomeOf(S, n) == {T \in SUBSET S : Cardinality(T) <= n}

Accepted(q) == 1 <= q.limit /\ q.limit <= MaxLimit

\* The items of SearchOutput, with created_time, location and score as read.
Answer(p, items, means) ==
    /\ pc' = [pc EXCEPT ![p] = "answered"]
    /\ found' = [found EXCEPT ![p] = items]
    /\ seen' = [seen EXCEPT ![p] = [i \in Photos |-> IF i \in items THEN row[i] ELSE NoRow]]
    /\ how' = [how EXCEPT ![p] = means]

Step(p, at, next) == pc[p] = at /\ pc' = [pc EXCEPT ![p] = next]

-----------------------------------------------------------------------------

\* handleSearch, up to the embedding; a limit out of range is refused.
Ask(p, q) ==
    /\ Accepted(q)
    /\ Step(p, "idle", "embed")
    /\ asked' = [asked EXCEPT ![p] = q]
    /\ known' = [known EXCEPT ![p] =
                    [i \in Photos |-> IF owner[i] = UserOf[p] THEN {row[i]} ELSE {}]]
    /\ UNCHANGED <<exact, photos, found, seen, how>>

Refuse(p, q) ==
    /\ ~Accepted(q)
    /\ Step(p, "idle", "failed")
    /\ UNCHANGED <<exact, photos, asked, found, seen, known, how>>

EmbedText(p) ==
    /\ Step(p, "embed", IF exact THEN "exact" ELSE "approx")
    /\ UNCHANGED <<exact, photos, asked, found, seen, known, how>>

\* The query through the index; the exact search is tried only if it finds
\* nothing at all.
FetchApprox(p) ==
    /\ pc[p] = "approx"
    /\ \E T \in SomeOf(Matching(p), asked[p].limit) :
         \/ T # {} /\ Answer(p, T, "some")
         \/ T = {} /\ Step(p, "approx", "exact") /\ UNCHANGED <<found, seen, how>>
    /\ UNCHANGED <<exact, photos, asked, known>>

\* runExact: the same query with the indexes switched off.
FetchExact(p) ==
    /\ pc[p] = "exact"
    /\ \E T \in Nearest(Matching(p), asked[p]) : Answer(p, T, "all")
    /\ UNCHANGED <<exact, photos, asked, known>>

\* BeginTx or SET LOCAL fails: an empty answer, and no error.
StartExactFails(p) ==
    /\ pc[p] = "exact"
    /\ Answer(p, {}, "lost")
    /\ UNCHANGED <<exact, photos, asked, known>>

\* The embedding or a query fails.
FailSearch(p) ==
    /\ pc[p] \in {"embed", "approx", "exact"}
    /\ pc' = [pc EXCEPT ![p] = "failed"]
    /\ UNCHANGED <<exact, photos, asked, found, seen, known, how>>

Remember(i, r) ==
    known' = [p \in Pages |->
                 IF pc[p] \in {"embed", "approx", "exact"} /\ known[p][i] # {}
                 THEN [known[p] EXCEPT ![i] = @ \cup {r}] ELSE known[p]]

\* Mutant: the upsert sets user_id too.
SavePhoto_TakesOver(i, u) ==
    /\ i \in Items[u]
    /\ \E r \in Versions[i] : row' = [row EXCEPT ![i] = r] /\ Remember(i, r)
    /\ owner' = [owner EXCEPT ![i] = u]
    /\ UNCHANGED <<exact, pc, asked, found, seen, how>>

\* A run or an import of u stores an item.  What another one has stored of it
\* since PhotoExistsByMediaID answered is overwritten, but for its user: the
\* captioner may answer differently, and an import knows no location.
SavePhoto(i, u) ==
    /\ i \in Items[u]
    /\ \E r \in Versions[i] : row' = [row EXCEPT ![i] = r] /\ Remember(i, r)
    /\ owner' = [owner EXCEPT ![i] = IF @ = NoUser THEN u ELSE @]
    /\ UNCHANGED <<exact, pc, asked, found, seen, how>>

\* GetPhotoByID, behind /photos/{id}, its thumbnail and its view.
GetPhotoByID(p, i) == owner[i] = UserOf[p]

Serve(p) ==
    \/ EmbedText(p) \/ FetchApprox(p) \/ FetchExact(p)
    \/ StartExactFails(p) \/ FailSearch(p)

-----------------------------------------------------------------------------
(* Properties of an answer. *)

\* The photos of the user that were there when the request was made and that
\* every version of theirs since then makes an answer to it.
Steady(p) ==
    {i \in Photos : known[p][i] # {} /\ \A r \in known[p][i] : Matches(r, asked[p])}

\* Photos are stored, and overwritten with other times, places and captions,
\* while the request is under way.  Still, an exact answer leaves a photo that
\* matched throughout out only if it is full, and every item in it, as it was
\* read, is no farther than some version of that photo; and an approximate
\* answer is never empty if there is such a photo: when the index finds nothing,
\* the exact search decides.
NearestFoundBy(p) ==
    pc[p] = "answered" =>
       /\ how[p] = "all" =>
            \A i \in Steady(p) \ found[p] :
               /\ Cardinality(found[p]) = asked[p].limit
               /\ \A j \in found[p] : \E r \in known[p][i] :
                     Distance(seen[p][j], asked[p]) <= Distance(r, asked[p])
       /\ how[p] # "lost" /\ found[p] = {} => Steady(p) = {}

NearestFound == \A p \in Pages : NearestFoundBy(p)

\* The field App.tsx labels as the end date: a photo taken on that day belongs
\* to the period.
OnDay(r, d) == r.created # NoTime /\ Midnight(d) <= r.created /\ r.created < Midnight(d + 1)
EndDateIncluded ==
    \A p \in Pages :
       pc[p] = "answered" /\ how[p] = "all" /\ asked[p].to # NoDay =>
         \A i \in Photos :
            /\ asked[p].from = NoDay
            /\ known[p][i] # {}
            /\ \A r \in known[p][i] : InPlace(r, asked[p]) /\ OnDay(r, asked[p].to)
            /\ Cardinality(found[p]) < asked[p].limit
            => i \in found[p]

=============================================================================
