-------------------------- MODULE SearchPageProofs --------------------------
(* Theorems about SearchPage: for any users, pages, photos and filters, *)
(* whatever the index leaves out.                                       *)
EXTENDS SearchPage, FiniteSetTheorems, TLAPS

\* A photo that is somebody's has a row.
RowInv == \A i \in Photos : owner[i] \in Users => row[i] \in Descriptions

\* While a request is under way its limit is in range, what the user had when it
\* was made is still the user's, and the present row is one of those remembered.
RequestOf(p) ==
    /\ pc[p] \in {"embed", "approx", "exact", "answered"} =>
          asked[p] \in Asks /\ Accepted(asked[p])
    /\ pc[p] \in {"embed", "approx", "exact"} =>
          \A i \in Photos : known[p][i] # {} =>
             owner[i] = UserOf[p] /\ row[i] \in known[p][i]
RequestInv == \A p \in Pages : RequestOf(p)

\* Once the effects have run on the results, thumbnails and loads are theirs.
ThumbnailsInv ==
    \A p \in Pages : changed[p] # "results" /\ shown[p] # {} =>
       thumbs[p] \cup loads[p] \subseteq shown[p]

IInv ==
    /\ TypeOK
    /\ RowInv /\ RequestInv /\ NearestFound
    /\ ShownCanBeOpened
    /\ ThumbnailsInv /\ ThumbnailsOfShown

-----------------------------------------------------------------------------
(* What LIMIT picks. *)

LEMMA NearestPicked ==
    ASSUME NEW S \in SUBSET Photos, NEW q, q.limit \in Nat \ {0}, NEW T \in Nearest(S, q)
    PROVE  /\ T \subseteq S
           /\ Cardinality(T) <= q.limit
           /\ \A i \in S \ T : /\ Cardinality(T) = q.limit
                               /\ \A j \in T : Distance(row[j], q) <= Distance(row[i], q)
<1>1. IsFiniteSet(S) /\ IsFiniteSet(T) /\ T \subseteq S
  BY FS_Subset, SearchAssumption DEF SearchAssumption, Nearest
<1>2. Cardinality(S) \in Nat /\ Cardinality(T) \in Nat
  BY <1>1, FS_CardinalityType
<1>3. Cardinality(T) = Cardinality(S) \/ Cardinality(T) = q.limit
  BY DEF Nearest
<1>4. Cardinality(T) <= q.limit
  BY <1>2 DEF Nearest
<1>5. Cardinality(T) = Cardinality(S) => T = S
  BY <1>1, FS_Subset
<1>6. \A i \in S \ T : \A j \in T : Distance(row[j], q) <= Distance(row[i], q)
  BY DEF Nearest
<1>. QED
  BY <1>1, <1>3, <1>4, <1>5, <1>6

LEMMA SomePicked ==
    ASSUME NEW S \in SUBSET Photos, NEW n \in Nat, NEW T \in SomeOf(S, n)
    PROVE  T \subseteq S /\ Cardinality(T) <= n
  BY DEF SomeOf

LEMMA AskTyped ==
    ASSUME NEW q \in Asks
    PROVE  Accepted(q) => q.limit \in Nat \ {0} /\ q.limit <= MaxLimit
<1>1. q.limit \in Limits /\ Limits \subseteq Int /\ MaxLimit \in Nat
  BY SearchAssumption DEF SearchAssumption, Asks
<1>2. q.limit \in Int
  BY <1>1
<1>. QED
  BY <1>1, <1>2 DEF Accepted

-----------------------------------------------------------------------------
(* What a step does to the requests. *)

\* The request of one page moves and the others stay.
LEMMA OneRequestMoves ==
    ASSUME IInv, NEW p \in Pages, UNCHANGED photos,
           \A r \in Pages \ {p} :
              /\ pc'[r] = pc[r] /\ asked'[r] = asked[r] /\ known'[r] = known[r]
              /\ found'[r] = found[r] /\ seen'[r] = seen[r] /\ how'[r] = how[r],
           RequestOf(p)', NearestFoundBy(p)'
    PROVE  RowInv' /\ RequestInv' /\ NearestFound'
<1>1. ASSUME NEW r \in Pages PROVE RequestOf(r)' /\ NearestFoundBy(r)'
  <2>1. CASE r # p
    <3>1. RequestOf(r)'
      BY <2>1 DEF IInv, RequestInv, RequestOf, photos
    <3>2. Steady(r)' = Steady(r)
      BY <2>1 DEF Steady, Matches, InPeriod, InPlace
    <3>3. NearestFoundBy(r)'
      BY <2>1, <3>2 DEF IInv, NearestFound, NearestFoundBy, Distance
    <3>. QED
      BY <3>1, <3>3
  <2>2. CASE r = p
    BY <2>2
  <2>. QED
    BY <2>1, <2>2
<1>2. RowInv'
  BY DEF IInv, RowInv, photos
<1>. QED
  BY <1>1, <1>2 DEF RequestInv, NearestFound

LEMMA RequestsStay ==
    ASSUME IInv, UNCHANGED <<photos, search>>
    PROVE  RowInv' /\ RequestInv' /\ NearestFound'
  BY DEF IInv, photos, search, RowInv, RequestInv, RequestOf, NearestFound, NearestFoundBy,
         Steady, Matches, InPeriod, InPlace, Distance

\* A request is made.
LEMMA AskStep ==
    ASSUME IInv, NEW p \in Pages, NEW q \in Asks, Ask(p, q) \/ Refuse(p, q)
    PROVE  SearchTypeOK' /\ RowInv' /\ RequestInv' /\ NearestFound'
<1> USE DEF IInv, TypeOK, SearchTypeOK, Step
<1>1. \A i \in Photos : owner[i] = UserOf[p] => row[i] \in Descriptions
  BY SearchAssumption DEF SearchAssumption, RowInv
<1>2. SearchTypeOK'
  <2>1. CASE Ask(p, q)
    <3>1. [i \in Photos |-> IF owner[i] = UserOf[p] THEN {row[i]} ELSE {}]
              \in [Photos -> SUBSET Descriptions]
      BY <1>1
    <3>. QED
      BY <2>1, <3>1 DEF Ask, photos
  <2>2. CASE Refuse(p, q)
    BY <2>2 DEF Refuse, photos
  <2>. QED
    BY <2>1, <2>2
<1>3. pc'[p] \in {"embed", "failed"}
  BY DEF Ask, Refuse
<1>4. RequestOf(p)'
  <2>1. CASE Ask(p, q)
    BY <2>1 DEF Ask, RequestOf, Accepted, photos
  <2>2. CASE Refuse(p, q)
    BY <2>2 DEF Refuse, RequestOf
  <2>. QED
    BY <2>1, <2>2
<1>5. NearestFoundBy(p)'
  BY <1>3 DEF NearestFoundBy
<1>6. \A r \in Pages \ {p} :
         /\ pc'[r] = pc[r] /\ asked'[r] = asked[r] /\ known'[r] = known[r]
         /\ found'[r] = found[r] /\ seen'[r] = seen[r] /\ how'[r] = how[r]
  BY DEF Ask, Refuse
<1>7. UNCHANGED photos
  BY DEF Ask, Refuse
<1>. QED
  BY <1>2, <1>4, <1>5, <1>6, <1>7, OneRequestMoves

\* A request moves on before it is answered.
LEMMA StepOn ==
    ASSUME IInv, NEW p \in Pages, NEW at \in {"embed", "approx", "exact"},
           NEW next \in {"approx", "exact", "failed"}, Step(p, at, next),
           UNCHANGED <<exact, photos, asked, found, seen, known, how>>
    PROVE  SearchTypeOK' /\ RowInv' /\ RequestInv' /\ NearestFound'
<1>1. SearchTypeOK'
  BY DEF IInv, TypeOK, SearchTypeOK, Step, photos
<1>2. pc'[p] = next /\ \A r \in Pages \ {p} : pc'[r] = pc[r]
  BY DEF IInv, TypeOK, SearchTypeOK, Step
<1>3. RequestOf(p)'
  BY <1>2 DEF IInv, RequestInv, RequestOf, Accepted, Step, photos
<1>4. NearestFoundBy(p)'
  BY <1>2 DEF NearestFoundBy
<1>. QED
  BY <1>1, <1>2, <1>3, <1>4, OneRequestMoves

\* A photo that matched throughout matches when the query reads it.
LEMMA SteadyMatches ==
    ASSUME IInv, NEW p \in Pages, pc[p] \in {"embed", "approx", "exact"}
    PROVE  Steady(p) \subseteq Matching(p)
  BY DEF IInv, RequestInv, RequestOf, Steady, Matching

\* A request is answered with matching photos, the nearest ones if all were
\* looked at.
LEMMA AnswerStep ==
    ASSUME IInv, NEW p \in Pages, pc[p] \in {"approx", "exact"},
           NEW T \in SUBSET Matching(p), NEW means \in {"all", "some", "lost"},
           Answer(p, T, means), UNCHANGED <<exact, photos, asked, known>>,
           Cardinality(T) <= MaxLimit,
           means = "all" => \A i \in Matching(p) \ T :
              /\ Cardinality(T) = asked[p].limit
              /\ \A j \in T : Distance(row[j], asked[p]) <= Distance(row[i], asked[p]),
           means = "some" => T # {}
    PROVE  SearchTypeOK' /\ RowInv' /\ RequestInv' /\ NearestFound'
<1>1. /\ pc'[p] = "answered" /\ found'[p] = T /\ how'[p] = means
      /\ seen'[p] = [i \in Photos |-> IF i \in T THEN row[i] ELSE NoRow]
      /\ \A r \in Pages \ {p} :
            /\ pc'[r] = pc[r] /\ found'[r] = found[r] /\ seen'[r] = seen[r]
            /\ how'[r] = how[r]
  BY DEF IInv, TypeOK, SearchTypeOK, Answer
<1>2. T \subseteq Photos
  BY DEF Matching
<1>3. SearchTypeOK'
  <2>1. \A r \in Pages : Cardinality(found'[r]) <= MaxLimit
    BY <1>1 DEF IInv, TypeOK, SearchTypeOK
  <2>2. [i \in Photos |-> IF i \in T THEN row[i] ELSE NoRow]
            \in [Photos -> Descriptions \cup {NoRow}]
    BY DEF IInv, TypeOK, SearchTypeOK
  <2>. QED
    BY <1>2, <2>1, <2>2 DEF IInv, TypeOK, SearchTypeOK, Answer, photos
<1>4. RequestOf(p)'
  BY <1>1 DEF IInv, RequestInv, RequestOf, Accepted
<1>5. Steady(p)' = Steady(p)
  BY DEF Steady, Matches, InPeriod, InPlace
<1>6. NearestFoundBy(p)'
  <2>1. ASSUME means = "all", NEW i \in Steady(p) \ T
        PROVE  /\ Cardinality(T) = asked[p].limit
               /\ \A j \in T : \E r \in known[p][i] :
                     Distance(seen'[p][j], asked[p]) <= Distance(r, asked[p])
    <3>1. i \in Matching(p) \ T
      BY <2>1, SteadyMatches
    <3>2. i \in Photos /\ row[i] \in known[p][i]
      BY <2>1 DEF Steady, IInv, RequestInv, RequestOf
    <3>3. \A j \in T : seen'[p][j] = row[j]
      BY <1>1, <1>2
    <3>. QED
      BY <2>1, <3>1, <3>2, <3>3
  <2>2. means # "lost" /\ T = {} => Steady(p) = {}
    <3> SUFFICES ASSUME means = "all", T = {}, NEW i \in Steady(p) PROVE FALSE
      OBVIOUS
    <3>1. Cardinality({}) = asked[p].limit
      BY <2>1
    <3>2. asked[p].limit >= 1
      BY DEF IInv, RequestInv, RequestOf, Accepted
    <3>. QED
      BY <3>1, <3>2, FS_EmptySet
  <2>. QED
    BY <1>1, <1>5, <2>1, <2>2 DEF NearestFoundBy, Distance
<1>. QED
  BY <1>1, <1>3, <1>4, <1>6, OneRequestMoves

LEMMA ServeStep ==
    ASSUME IInv, NEW p \in Pages, Serve(p)
    PROVE  /\ SearchTypeOK' /\ RowInv' /\ RequestInv' /\ NearestFound' /\ owner' = owner
           /\ \A r \in Pages : found'[r] \subseteq found[r] \cup Matching(r)
<1> USE DEF IInv, TypeOK
<1>1. pc[p] \in {"embed", "approx", "exact"} => asked[p] \in Asks /\ Accepted(asked[p])
  BY DEF SearchTypeOK, RequestInv, RequestOf
<1>2. /\ pc[p] \in {"embed", "approx", "exact"} =>
            asked[p].limit \in Nat \ {0} /\ asked[p].limit <= MaxLimit
      /\ MaxLimit \in Nat
  BY <1>1, AskTyped, SearchAssumption DEF SearchAssumption
<1>3. Matching(p) \in SUBSET Photos
  BY DEF Matching
<1>4. owner' = owner
  BY DEF Serve, EmbedText, FetchApprox, FetchExact, StartExactFails, FailSearch, photos
<1>5. CASE EmbedText(p) \/ FailSearch(p)
  <2>1. CASE EmbedText(p)
    <3>1. Step(p, "embed", IF exact THEN "exact" ELSE "approx")
          /\ UNCHANGED <<exact, photos, asked, found, seen, known, how>>
      BY <2>1 DEF EmbedText
    <3>. QED
      BY <1>4, <3>1, StepOn
  <2>2. CASE FailSearch(p)
    <3>1. /\ pc[p] \in {"embed", "approx", "exact"} /\ Step(p, pc[p], "failed")
          /\ UNCHANGED <<exact, photos, asked, found, seen, known, how>>
      BY <2>2 DEF FailSearch, Step
    <3>. QED
      BY <1>4, <3>1, StepOn
  <2>. QED
    BY <1>5, <2>1, <2>2
<1>6. ASSUME NEW T \in SUBSET Matching(p), NEW means \in {"all", "some", "lost"},
             Answer(p, T, means)
      PROVE  \A r \in Pages : found'[r] \subseteq found[r] \cup Matching(r)
  BY <1>6 DEF Answer, SearchTypeOK
<1>7. CASE FetchApprox(p)
  <2>1. PICK T \in SomeOf(Matching(p), asked[p].limit) :
           \/ T # {} /\ Answer(p, T, "some")
           \/ T = {} /\ Step(p, "approx", "exact") /\ UNCHANGED <<found, seen, how>>
    BY <1>7 DEF FetchApprox
  <2>2. pc[p] = "approx" /\ UNCHANGED <<exact, photos, asked, known>>
    BY <1>7 DEF FetchApprox
  <2>3. T \subseteq Matching(p) /\ Cardinality(T) <= MaxLimit
    <3>1. IsFiniteSet(T) /\ T \subseteq Matching(p) /\ Cardinality(T) <= asked[p].limit
      BY <1>2, <1>3, <2>1, <2>2, SomePicked, FS_Subset, SearchAssumption
      DEF SearchAssumption
    <3>. QED
      BY <1>2, <2>2, <3>1, FS_CardinalityType
  <2>4. CASE T # {} /\ Answer(p, T, "some")
    BY <1>6, <1>4, <2>2, <2>3, <2>4, AnswerStep
  <2>5. CASE Step(p, "approx", "exact") /\ UNCHANGED <<found, seen, how>>
    BY <1>4, <2>2, <2>5, StepOn
  <2>. QED
    BY <2>1, <2>4, <2>5
<1>8. CASE FetchExact(p)
  <2>1. PICK T \in Nearest(Matching(p), asked[p]) : Answer(p, T, "all")
    BY <1>8 DEF FetchExact
  <2>2. pc[p] = "exact" /\ UNCHANGED <<exact, photos, asked, known>>
    BY <1>8 DEF FetchExact
  <2>3. /\ T \subseteq Matching(p)
        /\ Cardinality(T) <= asked[p].limit
        /\ \A i \in Matching(p) \ T :
              /\ Cardinality(T) = asked[p].limit
              /\ \A j \in T : Distance(row[j], asked[p]) <= Distance(row[i], asked[p])
    BY <1>2, <1>3, <2>1, <2>2, NearestPicked
  <2>4. Cardinality(T) <= MaxLimit
    <3>1. IsFiniteSet(T)
      BY <1>3, <2>3, FS_Subset, SearchAssumption DEF SearchAssumption
    <3>. QED
      BY <1>2, <2>2, <2>3, <3>1, FS_CardinalityType
  <2>. QED
    BY <1>6, <1>4, <2>1, <2>2, <2>3, <2>4, AnswerStep
<1>9. CASE StartExactFails(p)
  <2>1. Cardinality({}) <= MaxLimit
    BY <1>2, FS_EmptySet
  <2>2. {} \in SUBSET Matching(p)
    OBVIOUS
  <2>. QED
    BY <1>6, <1>9, <1>4, <2>1, <2>2, AnswerStep DEF StartExactFails
<1>. QED
  BY <1>5, <1>7, <1>8, <1>9 DEF Serve

LEMMA CloseStep ==
    ASSUME IInv, NEW p \in Pages, CloseRequest(p)
    PROVE  /\ SearchTypeOK' /\ RowInv' /\ RequestInv' /\ NearestFound' /\ owner' = owner
           /\ \A r \in Pages : found'[r] \subseteq found[r]
           /\ loading' \in [Pages -> BOOLEAN]
<1> USE DEF IInv, TypeOK, SearchTypeOK, CloseRequest
<1>1. /\ pc'[p] = "idle" /\ found'[p] = {}
      /\ \A r \in Pages \ {p} :
            /\ pc'[r] = pc[r] /\ asked'[r] = asked[r] /\ known'[r] = known[r]
            /\ found'[r] = found[r] /\ seen'[r] = seen[r] /\ how'[r] = how[r]
  OBVIOUS
<1>2. UNCHANGED photos /\ owner' = owner
  BY DEF photos
<1>3. SearchTypeOK'
  <2>1. \A r \in Pages : Cardinality(found'[r]) <= MaxLimit
    <3>1. Cardinality({}) = 0 /\ MaxLimit \in Nat
      BY FS_EmptySet, SearchAssumption DEF SearchAssumption
    <3>. QED
      BY <1>1, <3>1
  <2>2. /\ NoneSeen \in [Photos -> Descriptions \cup {NoRow}]
        /\ NoneKnown \in [Photos -> SUBSET Descriptions]
    BY DEF NoneSeen, NoneKnown
  <2>. QED
    BY <1>2, <2>1, <2>2 DEF photos
<1>4. RequestOf(p)' /\ NearestFoundBy(p)'
  BY <1>1 DEF RequestOf, NearestFoundBy
<1>5. RowInv' /\ RequestInv' /\ NearestFound'
  BY <1>1, <1>2, <1>4, OneRequestMoves
<1>. QED
  BY <1>1, <1>2, <1>3, <1>5

\* A row is written: whose it is stays, and the requests under way remember what
\* is written of the photos they know.
LEMMA SaveStep ==
    ASSUME IInv, NEW i \in Photos, NEW u \in Users, SavePhoto(i, u), UNCHANGED page
    PROVE  IInv'
<1> USE DEF IInv, TypeOK, SearchTypeOK
<1>1. PICK v \in Versions[i] : row' = [row EXCEPT ![i] = v] /\ Remember(i, v)
  BY DEF SavePhoto
<1>2. v \in Descriptions
  BY SearchAssumption DEF SearchAssumption
<1>3. /\ owner' = [owner EXCEPT ![i] = IF @ = NoUser THEN u ELSE @]
      /\ UNCHANGED <<exact, pc, asked, found, seen, how>> /\ UNCHANGED page
  BY DEF SavePhoto
<1>4. \A r \in Pages : UserOf[r] \in Users /\ UserOf[r] # NoUser
  BY SearchAssumption DEF SearchAssumption
<1>5. /\ owner' \in [Photos -> Users \cup {NoUser}]
      /\ \A k \in Photos : owner[k] # NoUser => owner'[k] = owner[k]
  BY <1>3
<1>6. /\ row' \in [Photos -> Descriptions \cup {NoRow}]
      /\ row'[i] = v /\ \A k \in Photos \ {i} : row'[k] = row[k]
  BY <1>1, <1>2
<1>7. RowInv'
  <2> SUFFICES ASSUME NEW k \in Photos, owner'[k] \in Users PROVE row'[k] \in Descriptions
    BY DEF RowInv
  <2>1. CASE k = i
    BY <1>2, <1>6, <2>1
  <2>2. CASE k # i
    BY <1>3, <1>6, <2>2 DEF RowInv
  <2>. QED
    BY <2>1, <2>2
<1>8. ASSUME NEW r \in Pages
      PROVE  /\ known'[r] \in [Photos -> SUBSET Descriptions]
             /\ pc[r] \notin {"embed", "approx", "exact"} => known'[r] = known[r]
             /\ \A k \in Photos :
                   /\ known'[r][k] = known[r][k] \/ known'[r][k] = known[r][k] \cup {v}
                   /\ known'[r][k] # {} => known[r][k] # {}
                   /\ pc[r] \in {"embed", "approx", "exact"} /\ k = i /\ known[r][k] # {}
                         => v \in known'[r][k]
  <2>1. known'[r] = IF pc[r] \in {"embed", "approx", "exact"} /\ known[r][i] # {}
                    THEN [known[r] EXCEPT ![i] = @ \cup {v}] ELSE known[r]
    BY <1>1 DEF Remember
  <2>2. known[r] \in [Photos -> SUBSET Descriptions]
    OBVIOUS
  <2>3. CASE pc[r] \in {"embed", "approx", "exact"} /\ known[r][i] # {}
    <3>1. known'[r] = [known[r] EXCEPT ![i] = @ \cup {v}]
      BY <2>1, <2>3
    <3>2. known[r][i] \cup {v} \in SUBSET Descriptions
      BY <1>2, <2>2
    <3>. QED
      BY <2>2, <2>3, <3>1, <3>2
  <2>4. CASE ~(pc[r] \in {"embed", "approx", "exact"} /\ known[r][i] # {})
    BY <2>1, <2>2, <2>4
  <2>. QED
    BY <2>3, <2>4
<1>9. known' \in [Pages -> [Photos -> SUBSET Descriptions]]
  BY <1>1, <1>8 DEF Remember
<1>10. RequestInv'
  <2> SUFFICES ASSUME NEW r \in Pages PROVE RequestOf(r)'
    BY DEF RequestInv
  <2>1. RequestOf(r)
    BY DEF RequestInv
  <2>2. ASSUME pc'[r] \in {"embed", "approx", "exact"}, NEW k \in Photos, known'[r][k] # {}
        PROVE  owner'[k] = UserOf[r] /\ row'[k] \in known'[r][k]
    <3>1. pc[r] \in {"embed", "approx", "exact"} /\ known[r][k] # {}
      BY <1>3, <1>8, <2>2
    <3>2. owner[k] = UserOf[r] /\ row[k] \in known[r][k]
      BY <2>1, <3>1 DEF RequestOf
    <3>3. owner'[k] = UserOf[r]
      BY <1>4, <1>5, <3>2
    <3>4. row'[k] \in known'[r][k]
      <4>1. CASE k = i
        BY <1>6, <1>8, <3>1, <4>1
      <4>2. CASE k # i
        <5>1. row'[k] = row[k]
          BY <1>6, <4>2
        <5>2. known'[r][k] = known[r][k] \/ known'[r][k] = known[r][k] \cup {v}
          BY <1>8
        <5>. QED
          BY <3>2, <5>1, <5>2
      <4>. QED
        BY <4>1, <4>2
    <3>. QED
      BY <3>3, <3>4
  <2>. QED
    BY <1>3, <2>1, <2>2 DEF RequestOf, Accepted
<1>11. NearestFound'
  <2> SUFFICES ASSUME NEW r \in Pages, pc[r] = "answered" PROVE NearestFoundBy(r)'
    BY <1>3 DEF NearestFound, NearestFoundBy
  <2>1. known'[r] = known[r]
    BY <1>8
  <2>2. Steady(r)' = Steady(r)
    BY <1>3, <2>1 DEF Steady, Matches, InPeriod, InPlace
  <2>. QED
    BY <1>3, <2>1, <2>2 DEF NearestFound, NearestFoundBy, Distance
<1>12. ShownCanBeOpened'
  BY <1>3, <1>4, <1>5 DEF ShownCanBeOpened, GetPhotoByID, page
<1>13. TypeOK'
  BY <1>3, <1>5, <1>6, <1>9 DEF page
<1>. QED
  BY <1>3, <1>7, <1>10, <1>11, <1>12, <1>13 DEF ThumbnailsInv, ThumbnailsOfShown, page

-----------------------------------------------------------------------------
(* The invariant. *)

LEMMA InitIInv == Init => IInv
<1> SUFFICES ASSUME Init PROVE IInv
  OBVIOUS
<1>1. SearchTypeOK
  <2>1. Cardinality({}) <= MaxLimit
    BY FS_EmptySet, SearchAssumption DEF SearchAssumption
  <2>. QED
    BY <2>1 DEF Init, SearchInit, SearchTypeOK, NoneSeen, NoneKnown
<1>2. RowInv
  BY SearchAssumption DEF Init, SearchInit, RowInv, SearchAssumption
<1>. QED
  BY <1>1, <1>2
  DEF Init, SearchInit, IInv, TypeOK, RequestInv, RequestOf, NearestFound, NearestFoundBy,
      ShownCanBeOpened, ThumbnailsInv, ThumbnailsOfShown

LEMMA RunSearchStep ==
    ASSUME IInv, NEW p \in Pages, NEW q \in Asks, RunSearch(p, q)
    PROVE  IInv'
<1>1. SearchTypeOK' /\ RowInv' /\ RequestInv' /\ NearestFound'
  BY AskStep DEF RunSearch
<1>2. owner' = owner /\ found' = found /\ UNCHANGED <<shown, thumbs, loads, broken, changed>>
  BY DEF RunSearch, Ask, Refuse, photos
<1>3. TypeOK'
  BY <1>1, <1>2 DEF IInv, TypeOK, RunSearch
<1>. QED
  BY <1>1, <1>2, <1>3
  DEF IInv, ShownCanBeOpened, GetPhotoByID, ThumbnailsInv, ThumbnailsOfShown

LEMMA RequestStep ==
    ASSUME IInv, NEW p \in Pages, Request(p) \/ LoseAnswer(p)
    PROVE  IInv'
<1>1. CASE Serve(p) /\ UNCHANGED page
  <2>1. /\ SearchTypeOK' /\ RowInv' /\ RequestInv' /\ NearestFound' /\ owner' = owner
        /\ \A r \in Pages : found'[r] \subseteq found[r] \cup Matching(r)
    BY <1>1, ServeStep
  <2>2. TypeOK'
    BY <1>1, <2>1 DEF IInv, TypeOK, page
  <2>3. ShownCanBeOpened'
    BY <1>1, <2>1 DEF IInv, ShownCanBeOpened, GetPhotoByID, Matching, page
  <2>. QED
    BY <1>1, <2>1, <2>2, <2>3 DEF IInv, ThumbnailsInv, ThumbnailsOfShown, page
<1>2. CASE ShowResults(p)
  <2> USE DEF ShowResults
  <2>1. /\ SearchTypeOK' /\ RowInv' /\ RequestInv' /\ NearestFound' /\ owner' = owner
        /\ \A r \in Pages : found'[r] \subseteq found[r]
        /\ loading' \in [Pages -> BOOLEAN]
    BY <1>2, CloseStep
  <2>2. /\ shown' \in [Pages -> SUBSET Photos] /\ shown'[p] = found[p]
        /\ changed' \in [Pages -> {"no", "thumbs", "results"}] /\ changed'[p] = "results"
        /\ \A r \in Pages \ {p} : shown'[r] = shown[r] /\ changed'[r] = changed[r]
    BY <1>2 DEF IInv, TypeOK, SearchTypeOK
  <2>3. TypeOK'
    BY <1>2, <2>1, <2>2 DEF IInv, TypeOK
  <2>4. ShownCanBeOpened'
    BY <2>1, <2>2 DEF IInv, ShownCanBeOpened, GetPhotoByID
  <2>. QED
    BY <1>2, <2>1, <2>2, <2>3, <2>4 DEF IInv, ThumbnailsInv, ThumbnailsOfShown
<1>3. CASE ShowError(p) \/ LoseAnswer(p)
  <2>1. CloseRequest(p) /\ UNCHANGED <<shown, thumbs, loads, broken, changed>>
    BY <1>3 DEF ShowError, LoseAnswer
  <2>2. /\ SearchTypeOK' /\ RowInv' /\ RequestInv' /\ NearestFound' /\ owner' = owner
        /\ \A r \in Pages : found'[r] \subseteq found[r]
        /\ loading' \in [Pages -> BOOLEAN]
    BY <2>1, CloseStep
  <2>3. TypeOK'
    BY <2>1, <2>2 DEF IInv, TypeOK
  <2>4. ShownCanBeOpened'
    BY <2>1, <2>2 DEF IInv, ShownCanBeOpened, GetPhotoByID
  <2>. QED
    BY <2>1, <2>2, <2>3, <2>4 DEF IInv, ThumbnailsInv, ThumbnailsOfShown
<1>. QED
  BY <1>1, <1>2, <1>3 DEF Request

\* The effects run, and a load of theirs ends.
LEMMA EffectStep ==
    ASSUME IInv, NEW p \in Pages, RunEffects(p) \/ \E i \in Photos : Fetch(p, i)
    PROVE  IInv'
<1>1. UNCHANGED <<exact, photos, search, loading, shown>>
  BY DEF RunEffects, Fetch, LoadThumbnail, ThumbnailFails
<1>2. SearchTypeOK'
  BY <1>1 DEF IInv, TypeOK, SearchTypeOK, search, photos
<1>3. RowInv' /\ RequestInv' /\ NearestFound'
  BY <1>1, RequestsStay
<1>4. ShownCanBeOpened'
  BY <1>1 DEF IInv, ShownCanBeOpened, GetPhotoByID, search, photos
<1>5. /\ thumbs' \in [Pages -> SUBSET Photos] /\ loads' \in [Pages -> SUBSET Photos]
      /\ broken' \in [Pages -> SUBSET Photos]
      /\ changed' \in [Pages -> {"no", "thumbs", "results"}]
  BY DEF IInv, TypeOK, RunEffects, Fetch, LoadThumbnail, ThumbnailFails
<1>6. TypeOK'
  BY <1>1, <1>2, <1>5 DEF IInv, TypeOK
<1>7. ThumbnailsInv' /\ ThumbnailsOfShown'
  <2> USE DEF IInv, TypeOK, ThumbnailsInv, ThumbnailsOfShown
  <2>1. CASE RunEffects(p)
    BY <1>1, <2>1 DEF RunEffects
  <2>2. ASSUME NEW i \in Photos, LoadThumbnail(p, i)
        PROVE  ThumbnailsInv' /\ ThumbnailsOfShown'
    BY <1>1, <2>2 DEF LoadThumbnail
  <2>3. ASSUME NEW i \in Photos, ThumbnailFails(p, i)
        PROVE  ThumbnailsInv' /\ ThumbnailsOfShown'
    BY <1>1, <2>3 DEF ThumbnailFails
  <2>. QED
    BY <2>1, <2>2, <2>3 DEF Fetch
<1>. QED
  BY <1>3, <1>4, <1>6, <1>7 DEF IInv

LEMMA NextIInv == IInv /\ [Next]_vars => IInv'
<1> SUFFICES ASSUME IInv, [Next]_vars PROVE IInv'
  OBVIOUS
<1>1. CASE UNCHANGED vars
  <2>1. RowInv' /\ RequestInv' /\ NearestFound'
    BY <1>1, RequestsStay DEF vars
  <2>2. TypeOK'
    BY <1>1 DEF IInv, TypeOK, SearchTypeOK, vars, search, page, photos
  <2>. QED
    BY <1>1, <2>1, <2>2
    DEF IInv, vars, search, page, photos, ShownCanBeOpened, GetPhotoByID, ThumbnailsInv,
        ThumbnailsOfShown
<1>2. CASE Next
  BY <1>2, RunSearchStep, RequestStep, EffectStep, SaveStep DEF Next
<1>. QED
  BY <1>1, <1>2

LEMMA Inductive == Spec => []IInv
  BY InitIInv, NextIInv, PTL DEF Spec

-----------------------------------------------------------------------------

\* The page and its requests keep their types; no answer is longer than
\* MAX_SEARCH_LIMIT.
THEOREM TypeCorrect == Spec => []TypeOK
<1>1. IInv => TypeOK
  BY DEF IInv
<1>. QED
  BY <1>1, Inductive, PTL

\* However rows are added and overwritten meanwhile, and whatever the index
\* visits: an exact answer leaves a photo that matched throughout out only when
\* full of items no farther than a version of it, and an approximate answer is
\* not empty if there is such a photo.
THEOREM NearestAreFound == Spec => []NearestFound
<1>1. IInv => NearestFound
  BY DEF IInv
<1>. QED
  BY <1>1, Inductive, PTL

\* What the page shows its user can open.
THEOREM ShownOpens == Spec => []ShownCanBeOpened
<1>1. IInv => ShownCanBeOpened
  BY DEF IInv
<1>. QED
  BY <1>1, Inductive, PTL

\* The thumbnails kept and loading are those of the results shown.
THEOREM ThumbnailsMatch == Spec => []ThumbnailsOfShown
<1>1. IInv => ThumbnailsOfShown
  BY DEF IInv
<1>. QED
  BY <1>1, Inductive, PTL

-----------------------------------------------------------------------------
(* The renders end. *)

\* The page looks as before.
Same(p) == UNCHANGED <<shown[p], thumbs[p], loads[p], broken[p], changed[p]>>

\* Unless a render is to come, what is loading is shown and missing.
LoadsMissing == \A p \in Pages : changed[p] = "no" => loads[p] \subseteq shown[p] \ thumbs[p]

\* A step leaves a page alone, ends its search, or is one of its effects and fetches.
LEMMA PageStep ==
    ASSUME IInv, [Next]_vars, NEW p \in Pages
    PROVE  \/ Same(p)
           \/ loading[p] /\ ~loading'[p] /\ loads'[p] = loads[p]
              /\ (changed'[p] = "results" \/ UNCHANGED <<shown[p], thumbs[p], changed[p]>>)
           \/ RunEffects(p)
           \/ \E i \in Photos : Fetch(p, i)
<1> USE DEF IInv, TypeOK, Same
<1>1. ASSUME NEW q \in Asks, NEW r \in Pages, RunSearch(r, q)
      PROVE  Same(p)
  BY <1>1 DEF RunSearch
<1>2. ASSUME NEW r \in Pages, Serve(r) /\ UNCHANGED page
      PROVE  Same(p)
  BY <1>2 DEF page
<1>3. ASSUME NEW r \in Pages, ShowResults(r) \/ ShowError(r) \/ LoseAnswer(r)
      PROVE  \/ Same(p)
             \/ loading[p] /\ ~loading'[p] /\ loads'[p] = loads[p]
                /\ (changed'[p] = "results" \/ UNCHANGED <<shown[p], thumbs[p], changed[p]>>)
  BY <1>3 DEF ShowResults, ShowError, LoseAnswer, CloseRequest
<1>4. ASSUME NEW r \in Pages \ {p}, RunEffects(r)
      PROVE  Same(p)
  BY <1>4 DEF RunEffects
<1>5. ASSUME NEW r \in Pages \ {p}, NEW i \in Photos, Fetch(r, i)
      PROVE  Same(p)
  BY <1>5 DEF Fetch, LoadThumbnail, ThumbnailFails
<1>6. ASSUME UNCHANGED page
      PROVE  Same(p)
  BY <1>6 DEF page
<1>. QED
  BY <1>1, <1>2, <1>3, <1>4, <1>5, <1>6 DEF Next, Request, vars

LEMMA NextLoadsMissing ==
    ASSUME IInv, LoadsMissing, [Next]_vars
    PROVE  LoadsMissing'
<1> SUFFICES ASSUME NEW p \in Pages, changed'[p] = "no"
             PROVE  loads'[p] \subseteq shown'[p] \ thumbs'[p]
  BY DEF LoadsMissing
<1>1. CASE Same(p)
  BY <1>1 DEF LoadsMissing, Same
<1>2. CASE loading[p] /\ ~loading'[p] /\ loads'[p] = loads[p]
           /\ (changed'[p] = "results" \/ UNCHANGED <<shown[p], thumbs[p], changed[p]>>)
  BY <1>2 DEF LoadsMissing
<1>3. CASE RunEffects(p)
  BY <1>3 DEF RunEffects, IInv, TypeOK
<1>4. ASSUME NEW i \in Photos, Fetch(p, i)
      PROVE  loads'[p] \subseteq shown'[p] \ thumbs'[p]
  BY <1>4 DEF Fetch, LoadThumbnail, ThumbnailFails, LoadsMissing, IInv, TypeOK
<1>. QED
  BY <1>1, <1>2, <1>3, <1>4, PageStep

LEMMA LoadsInductive == Spec => []LoadsMissing
<1>1. Init => LoadsMissing
  BY DEF Init, LoadsMissing
<1>2. IInv /\ LoadsMissing /\ [Next]_vars => LoadsMissing'
  BY NextLoadsMissing
<1>. QED
  BY <1>1, <1>2, Inductive, PTL DEF Spec

\* What a page has to do is counted.
LEMMA PageNumbers ==
    ASSUME TypeOK, NEW p \in Pages
    PROVE  /\ IsFiniteSet(shown[p] \ thumbs[p]) /\ Missing(p) \in Nat
           /\ IsFiniteSet(loads[p]) /\ Fetches(p) \in Nat
<1>1. IsFiniteSet(Photos)
  BY SearchAssumption DEF SearchAssumption
<1>2. shown[p] \ thumbs[p] \subseteq Photos /\ loads[p] \subseteq Photos
  BY DEF TypeOK
<1>3. IsFiniteSet(shown[p] \ thumbs[p]) /\ IsFiniteSet(loads[p])
  BY <1>1, <1>2, FS_Subset
<1>. QED
  BY <1>3, FS_CardinalityType DEF Missing, Fetches

\* A run of the effects is one render less, whatever loads it starts.
LEMMA EffectSettles ==
    ASSUME IInv, NEW p \in Pages, RunEffects(p)
    PROVE  Settles(p)
<1>1. /\ changed[p] \in {"thumbs", "results"} /\ shown'[p] = shown[p]
      /\ thumbs'[p] = thumbs[p] \/ thumbs'[p] = thumbs[p] \cap shown[p]
      /\ changed'[p] \in {"no", "thumbs"}
      /\ changed'[p] = "thumbs" => changed[p] = "results"
  BY DEF RunEffects, IInv, TypeOK
<1>2. shown'[p] \ thumbs'[p] = shown[p] \ thumbs[p]
  BY <1>1
<1>3. Missing(p)' = Missing(p)
  BY <1>2 DEF Missing
<1>4. Renders(p)' < Renders(p)
  BY <1>1 DEF Renders
<1>. QED
  BY <1>3, <1>4 DEF Settles

\* A thumbnail that arrives is one that was missing, or the loads are old and one less.
LEMMA LoadSettles ==
    ASSUME IInv, LoadsMissing, NEW p \in Pages, NEW i \in Photos, LoadThumbnail(p, i)
    PROVE  Settles(p)
<1>1. /\ i \in loads[p] /\ loads'[p] = loads[p] \ {i}
      /\ shown'[p] = shown[p] /\ thumbs'[p] = thumbs[p] \cup {i}
      /\ changed'[p] = IF changed[p] = "no" THEN "thumbs" ELSE changed[p]
  BY DEF LoadThumbnail, IInv, TypeOK
<1>2. /\ IsFiniteSet(shown[p] \ thumbs[p]) /\ Missing(p) \in Nat
      /\ IsFiniteSet(loads[p]) /\ Fetches(p) \in Nat
  BY PageNumbers DEF IInv
<1>3. shown'[p] \ thumbs'[p] = (shown[p] \ thumbs[p]) \ {i}
  BY <1>1
<1>4. /\ IsFiniteSet((shown[p] \ thumbs[p]) \ {i})
      /\ Cardinality((shown[p] \ thumbs[p]) \ {i}) =
            IF i \in shown[p] \ thumbs[p] THEN Missing(p) - 1 ELSE Missing(p)
  BY <1>2, FS_RemoveElement DEF Missing
<1>5. Missing(p)' = IF i \in shown[p] \ thumbs[p] THEN Missing(p) - 1 ELSE Missing(p)
  BY <1>3, <1>4 DEF Missing
<1>6. Fetches(p)' = Fetches(p) - 1
  BY <1>1, <1>2, FS_RemoveElement DEF Fetches
<1>7. CASE i \in shown[p] \ thumbs[p]
  BY <1>2, <1>5, <1>7 DEF Settles
<1>8. CASE i \notin shown[p] \ thumbs[p]
  <2>1. changed[p] # "no"
    BY <1>1, <1>8 DEF LoadsMissing
  <2>2. Missing(p)' = Missing(p) /\ Renders(p)' = Renders(p)
    BY <1>1, <1>5, <1>8, <2>1 DEF Renders
  <2>. QED
    BY <1>2, <1>6, <2>2 DEF Settles
<1>. QED
  BY <1>7, <1>8

LEMMA FailureSettles ==
    ASSUME IInv, NEW p \in Pages, NEW i \in Photos, ThumbnailFails(p, i)
    PROVE  Settles(p)
<1>1. /\ i \in loads[p] /\ loads'[p] = loads[p] \ {i}
      /\ UNCHANGED <<shown[p], thumbs[p], changed[p]>>
  BY DEF ThumbnailFails, IInv, TypeOK
<1>2. IsFiniteSet(loads[p]) /\ Fetches(p) \in Nat
  BY PageNumbers DEF IInv
<1>3. Fetches(p)' = Fetches(p) - 1
  BY <1>1, <1>2, FS_RemoveElement DEF Fetches
<1>4. Missing(p)' = Missing(p) /\ Renders(p)' = Renders(p)
  BY <1>1 DEF Missing, Renders
<1>. QED
  BY <1>2, <1>3, <1>4 DEF Settles

\* The effects and the loads they start come to an end after every search: missing
\* thumbnails, renders to come and fetches under way decrease, in this order.
\* ThumbnailsSettle adds that they are not given up half way.
THEOREM EffectsEnd == Spec => RendersEnd
<1>1. ASSUME IInv, LoadsMissing, [Next]_vars, NEW p \in Pages
      PROVE  \/ UNCHANGED <<shown[p], thumbs[p], loads[p], broken[p], changed[p]>>
             \/ loading[p] /\ ~loading'[p]
             \/ Settles(p)
  BY <1>1, PageStep, EffectSettles, LoadSettles, FailureSettles DEF Same, Fetch
<1>2. IInv /\ LoadsMissing /\ [Next]_vars =>
          [\A p \in Pages :
              \/ UNCHANGED <<shown[p], thumbs[p], loads[p], broken[p], changed[p]>>
              \/ loading[p] /\ ~loading'[p]
              \/ Settles(p)]_vars
  BY <1>1
<1>. QED
  BY <1>2, Inductive, LoadsInductive, PTL DEF Spec, RendersEnd

=============================================================================
