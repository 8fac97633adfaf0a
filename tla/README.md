# ImageFinder in TLA+

ImageFinder finds a user's Google Photos by natural language. This directory
holds TLA+ specifications of its jobs, imports, accounts, outgoing calls, search and
page, configurations that model-check them with TLC, and proofs of their safety
properties that TLAPS checks for every number of users, workers, sessions, logins,
calls, retries and photos.

## The system

| Component | State | Operations | Talks to |
|---|---|---|---|
| Index job API (`httpserver/server.go`) | none of its own | `POST /index/update`, `GET /index/status` | `jobs` table |
| Worker (`cmd/worker`, `services/indexer.go`) | the job in hand, the page of media items in hand, a counter | poll loop, `AcquireNextJob`, `Indexer.Run`, status updates | `jobs`, `photos`, Google Photos, Gemini, OpenAI |
| Store (`internal/store`, `internal/db`) | tables `users`, `oauth_tokens`, `jobs`, `photos` | one method per statement; one transaction (`AcquireNextJob`) | Postgres |
| Picker import (`services/picker.go`, its handlers) | `PickerImportTracker` in memory; one goroutine per import | create, poll, delete a session; start an import; status of an import | `photos`, Google Photos Picker, tokens |
| Tokens (`services/auth.go`) | row of `oauth_tokens` | `EnsureAccessToken`, refresh, save | Google OAuth |
| Login (`httpserver/server.go`, `security/session.go`) | two signed cookies in the browser | `/auth/google`, callback, logout, `me` | Google OAuth, `users`, tokens |
| Search, thumbnails, view | none | `POST /search`, `GET /photos/...` | `photos`, OpenAI, Google |
| Retry (`internal/retry`) | none | `Do` around every outgoing call | all providers |
| Providers, captions, encryption, configuration | none | clients, text, ciphers, environment | |
| Frontend (`frontend/src/App.tsx`) | the page's React state | polls of job, session and import | the API |

API and workers share nothing but Postgres. Handlers run concurrently, one
goroutine per request; several workers may run; `runImport` outlives the request
that started it and is lost with the process, as is the tracker. A worker that
stops leaves its job as it was. Nothing has a lease, heartbeat or sweep.

What is hard here: two-statement checks (`HasActiveJob` then `CreateJob`, look-up
then `SavePhoto`), updates that go by id and never look at the status they
replace, status strings that goroutines overwrite and other code decides on,
counters kept on six paths, errors that are only logged, processes that stop
between two statements, tokens that are read, spent and saved by calls that know
nothing of each other, requests that are repeated although the first may have been
performed, and a page whose effects restart each other. `PROJECT.json` lists each hazard at its line with
the properties that watch it.

## Modules

| Module | Contents |
|---|---|
| `JobQueue` | What the jobs table promises: a job is submitted once, started by at most one runner, advanced by that runner, ended at most once; a lost runner is never replaced. |
| `IndexJobs` | Request handlers, `AcquireNextJob`, `Indexer.Run` and the worker's loop over the tables `jobs` and `photos`. Implements `JobQueue`. |
| `IndexJobsProofs` | Theorems about `IndexJobs`. |
| `PickerImport` | Picker sessions, the tracker, `StartImport`, the goroutine `runImport`, the end of the API process. |
| `PickerImportProofs` | Theorems about `PickerImport`. |
| `ImportService` | What the API promises about sessions and imports: one import of a session at a time, which either fails before it goes or goes on to be done. `PickerImport` implements it. |
| `PickerPage` | The picker half of the page: session creation, both polling effects, the import request, with overlapping calls and stale closures, against `ImportService`. |
| `PickerPageProofs` | Theorems about `PickerPage`. |
| `Accounts` | Login, cookies, `UpsertUser`, the token rows, `EnsureAccessToken` and the picker's second refresh, against Google's grants. |
| `AccountsProofs`, `AccountsTokenProofs` | Theorems about `Accounts`: who is who, and which refresh tokens are good. |
| `RemoteCall` | What the other modules assume of a call of Google, OpenAI or Gemini that they write as one step. |
| `ApiCall` | `retry.Do` around one call of each client, with a provider that may be late, unheard, busy or incomprehensible. Implements `RemoteCall`. |
| `ApiCallProofs` | Theorems about `ApiCall`. |
| `Search` | `POST /search` over a `photos` table that runs and imports write meanwhile. |
| `SearchPage` | Extends `Search` by the search half of the page: the request, the results, and the two effects that keep their thumbnails. |
| `SearchPageProofs` | Theorems about both. |
| `MCIndexJobs`, `MCPickerImport`, `MCPickerPage`, `MCAccounts`, `MCApiCall`, `MCSearchPage` | Instances for TLC. |

Definitions named `X_Something` next to a definition `X`, under a comment
*Mutant*, are `X` with a plausible bug. Nothing uses them; replacing `X` by one
of them must break the property `PROJECT.json` pairs it with, which shows that
the property can fail.

### IndexJobs

`status`, `owner` and `progress` are columns of `jobs`, `photos` maps a media id
to the `user_id` of its row. A job is numbered in the order in which `CreateJob`
takes its `created_at`; its row appears later, in `InsertJob`, so two rows may
appear in another order than their numbers. `hpc` and `new` are a handler's
program counter and the row it is about to insert; `wpc`, `held` and `loc` are a
worker's program counter, the job it has locked or runs, and the locals of
`Indexer.Run`.

One action is one statement or transaction with the Go code up to the next.
`AcquireNextJob` is two actions, `LockJob` (the `SELECT ... FOR UPDATE SKIP
LOCKED`, under which `held` is the row lock) and `CommitJob` (the update becomes
visible), with `RollbackJob` and `CommitJobLost` for a transaction that fails,
or succeeds without the worker hearing of it. `ListPage`, `SkipItem`,
`DescribeItem`, `SaveItem`, `SaveProgress` are the loops of `Indexer.Run`;
`RunError` is any failing call in it. A page may be empty and still name a next one;
such a page changes nothing the model sees but the walk through it, and is a step that
stutters. `MarkDone`, `MarkFailed` and `MarkLost`
end a turn of the loop. `Crash` stops a worker anywhere and `Restart` brings one
back. `ImportPhoto` is the one thing the picker half does to these tables: a goroutine
of `PickerImport` stores a photo. `handlePickerImport`, unlike `handlePickerSession`,
does not look at `GOOGLE_PHOTOS_MODE`, so a session opened before the mode was changed
can be imported while workers index.

### PickerImport

`session` is the session at Google, `tracker` the map behind
`PickerImportTracker`'s mutex, `photos` the table. A request is one call of
`StartImport` followed by the goroutine it starts: `StartImport` (the tracker's
`Start`), `EnsureToken`, `RefreshAndRetry`, `CollectItems` or `FailStart`, then
`SkipItem`, `DescribeItem`, `GiveUpItem`, `SaveItem`, `SaveItemError`, each
followed by `Report` (`updateProgress`), then `FinishImport` and the deferred
`CloseSession`. Between `FinishImport` and `CloseSession` the session may be
imported again. `DeleteSession` may come from the user at any time. `Crash` ends
the API process: tracker, requests and goroutines are gone, photos and sessions
stay. `IndexPhoto` is what the workers of `IndexJobs` do to the table it shares with
them.

`Stage` maps this to `ImportService`: a session whose entry says running is
*starting* while a request of it is before `go p.runImport`, and *going* after.

### PickerPage

`pickerSession`, `importing`, `importId` are React state, `failure` says whether
the message shown tells of one. `stopped` and `busy` belong to the effect of
`pickerSession`: its own flag, and `importingPicker` as its closure captured it
when the effect started; a poll carries `busy` along, because the function it
calls after its `await` reads the closure and not the state. A slot of `call` is
one fetch, sent by the page (`StartPicker`, `PollSession`, `ImportPicked`,
`PollImport`), served by the API (`ServeCreate`, `ServeWatch`, `ServeImport`,
`ServeFollow`; an import waits until `Accept` or `Fail`), delivered to the page.
The steps of the API are those of `ImportService`, so what holds here holds with
`PickerImport` behind the page: `PageUsesService` and `ImplementsImportService`
are the two halves of that argument. `Drop` is a fetch that rejects or a 5xx,
before or after the API has acted on it; `Crash` is a restart of the API.

### Accounts

`users` and `tokens` are the tables, `stateCookie` and `session` the two cookies of
each browser, `flows` and `grant` what Google knows: a member of `Flows` is one
random `state` with the account that consented to it and its code, which Google
takes once; a member of `RefreshTokens` is live, used up by a rotation, or lost when
the answer with its successor never reached the table. `env` fixes, for a whole
behaviour, whether the server has OAuth keys (without them `DevLogin` is the only
login) and whether Google rotates refresh tokens, always or never. Cookies are signed, so they hold what the
server put there; `CreateStateCookie`, `VerifyState`, `CreateSessionCookie`,
`ClearSessionCookie` and `ParseUserID` are the methods of `SessionManager`, and a
cookie that runs out is a `Logout`.

`login` holds the callbacks under way: `Callback` (with `VerifyState`),
`ExchangeCode`, `LookUpUser` and `InsertUser` (the two statements of `UpsertUser`),
`SaveLogin`, `AnswerLogin`, and `FailLogin` anywhere. A callback may be opened
twice, and in any browser. `call` holds the requests and jobs that need an access
token: `StartCall` (`requireUserID`), `GetTokens`, `RefreshToken`, `SaveRefreshed`,
`Denied` (the 401 or 403 after which `collectMediaItemsWithRetry` refreshes again
with the token it holds), `EndCall`. `RefreshLost` and `SaveRefreshedFails` are the
two places at which a rotated token can be lost. A refresh token that Google no
longer takes, revoked or used up, is a refresh that fails: `EndCall`.

### ApiCall

One call of a client, from the client's code to the provider. `ListMediaItems`,
`DoJSON`, `DeleteSession`, `EmbedText`, `Caption`, `ExchangeCode`, `RefreshToken`,
`FetchUserInfo` are the clients, told apart by what matters to `retry.Do`: whether
an image is fetched first without a retry, whether `Retry-After` is read, whether a
body is decoded, whether an empty answer is an error. Attempts are numbered;
`flying` are those whose request the provider may still perform, `done` those it has
performed, `decoded` those whose body went into the variable that all attempts of
the call share. `AfterError` is the tail of the loop in `retry.Do`. Durations are ticks
and wrap at `Top` as the 64-bit `time.Duration` does, which `Retry-After` in seconds
can reach; a date cannot, since `time.Until` saturates. `CallState` maps the call to
`RemoteCall`.

### Search and SearchPage

`owner` is the `user_id` of each row of `photos` and `row` what else of it a search
reads: `created_time`, the places its `location` contains, and the distance of its
embedding to each text that may be searched for. `Versions` are the rows that may be
written of a photo: two callers of the captioner get different captions, and an import
knows no location. `SavePhoto` is the upsert by any run or import at any time: it
overwrites the row and leaves `user_id` alone. (Runs and imports look a photo up first, so
only those that race overwrite; the model lets any store do it.) `known` and `seen` are
history: the versions a photo of the user has had since the request was made, and the
rows the answer was read from.
`Ask` and `Refuse` are `handleSearch` up to the service, `EmbedText` the call of the
embedder, `FetchApprox` and `FetchExact` the two ways of `SearchPhotos`,
`StartExactFails` the error that `runExact` turns into an empty answer. The ivfflat index may visit any part of
the rows, and the filter is applied to what it visits.

The page renders after each change of `results` or `thumbnailUrls`; `changed` says
what has been set since the effects last ran. `RunEffects` is one run of both: the first drops the URLs of photos that are
no longer shown, which sets `thumbnailUrls` once more, the second aborts what is
loading and starts what its closure finds missing. `broken` are the loads of this run that failed; only another
run of the effects tries them again.

## Runs

| Run | Instance | Shows |
|---|---|---|
| `index_safety` | 2 users with one request in flight each, 2 workers, libraries {a, b, v} and {b} of which v is a video, 3 jobs, 1 fault, imports of the second user | `OneRunnerPerJob`, `OneActivePerUser`, `DoneMeansIndexed`, `ProgressHonest`, `OrphansComeFromFaults`, `EndedIsFinal`, `LockedOutForever`, `RunShrinks`, `QueueSpec` (refinement of `JobQueue`) |
| `index_liveness` | the same with both requests of one user and one of the workers in picker mode, under `FairSpec` | `ActiveBounded`, `StatusHidesFewer`, `AcceptedEndsOrOrphaned` |
| `index_overlap` | 1 user with two requests in flight, 2 workers, no fault | `OneActivePerUser` is violated (see below) |
| `picker_safety` | 2 sessions of 2 users that pick {a, b, v} and {b}, 2 requests for any session, runs of the second user, under `FairSpec` | `OneImporterPerSession`, `RunningIffImporting`, `CountsAddUp`, `DoneLosesNothing`, `ShownMovesForward`, `EndedOnlyReplaced`, `ImportEnds`, `ServiceSpec` (refinement of `ImportService`) |
| `page_safety` | 2 sessions, 1 creation, 1 session call and 2 status polls in flight, 1 fault, `FairSpec` | `BusyHasReason`, `ButtonComesBack` |
| `page_single` | 1 session, session polls that do not overlap, 2 status polls in flight, 2 faults, `FairSpec` | `BusyWhileRunning`, `SelectionHandled` |
| `page_overlap` | 1 session, 2 session polls in flight, no fault | `BusyWhileRunning` is violated (see below) |
| `page_two_sessions` | 2 sessions, no fault, `FairSpec` | `SelectionHandled` is violated (see below) |
| `accounts` | 2 accounts, 2 browsers, 2 flows, 2 callbacks and 2 calls under way, 2 user ids, 3 refresh tokens | `OneUserPerAccount`, `OwnTokens`, `RowRefreshable`, `RowUsable`, `SessionFromOwnFlow`, `SessionHasTokens` |
| `api_call` | 1 call of any client, 0 or 2 retries, base delays 0 and 2, headers from past to overflow, `FairSpec` | `BoundedEffects`, `OneAnswer`, `PauseLongEnough`, `RemoteSpec` (refinement of `RemoteCall`) |
| `search` | 1 page, 2 photos of which one has two versions and the other is met by two users, 1 text, 1 day, 1 place, limits below, at and over `MAX_SEARCH_LIMIT`, `FairSpec` | `NearestFound`, `ShownCanBeOpened`, `ThumbnailsOfShown`, `RendersEnd`, `ThumbnailsSettle`, `SearchEnds` |
| `search_end_date` | the same | `EndDateIncluded` is violated (see below) |

Bounds. `MaxJobs` limits `CreateJob` calls: three jobs let one user have an ended,
an orphaned and a refused one while the other's job runs, and lets the two requests
of one user in `index_liveness` exceed the bound of two active jobs, or hide two behind a third, if anything can. `MaxFaults` limits
crashes and database errors; one fault reaches every orphan, and the proofs
need no bound. `FullProgress` is 100 in the code; 2 makes the cap bite with two
images. Library pages are any subset of what is left, so every page
size and order is tried. One shared image makes two runs race to describe and
save the same row; the video is listed and skipped. One user of the two (`Pickers`,
`Indexers`) writes photos from the other half as well, at any time: who it is matters to
nothing but the owner of the row. In `PickerImport` nothing
needs a bound: a request that has ended may be made again, and crashes are free.
In `PickerPage` the slots bound the calls in flight, not the calls made; two of a
kind are what an overlap takes. `Sessions` bounds the sessions Google creates,
after which it refuses. `MaxFaults` bounds lost calls and restarts.
In `Accounts` nothing is counted: `Flows` and `RefreshTokens` bound the logins begun
and the tokens Google issues, slots bound what is under way at a time, calls and
time are free. Two flows are a login that another one replaces, in one browser or in
two; two callbacks are a race of `UpsertUser`; three refresh tokens are two logins and a
rotation, or a login and a chain of two rotations; sets without an order are
symmetric. In `ApiCall`, a second is two ticks and durations wrap at 16, so that the
headers 9 and 17 become a negative and a short positive pause; -1 retries is a
setting the code normalises. In `Search` one page suffices, since pages share only
the table, which other users' runs write in any case. One photo has two versions, one
with time and place before the other photo and one without them behind it, so that an
overwrite during a request changes what matches, what a limit of one returns and in which
order; that two photos match at once and a third does not takes no third photo.

The type invariant `TypeOK` of each module with theorems is proved and not listed in a run.

Deadlock is checked in every run but `api_call`, whose one call stops when it has
ended. Elsewhere a worker always polls, the API may always stop and a page may always
ask, so the check says little.

### Fairness

`IndexJobs!FairSpec` asks weak fairness of each handler past its check and of
each worker process: their code has no wait without a timeout (worker
`http.Client` 30 s, API 20 s). It asks nothing of users, faults or `Restart`:
`infra/docker-compose.yml` has no restart policy. It does ask, as a step that changes
nothing is not one, that Google does not answer with empty pages for ever. With one fault and two workers
one worker always survives; `AcceptedEndsOrOrphaned` would not hold with as many
faults as workers, and neither does the system serve jobs then.
`PickerImport!FairSpec` asks weak fairness of each request with its goroutine.
`PickerPage!FairSpec` asks it of the timers, of every call in flight (it is
answered or fails, and the page then runs its handler), and that the API ends
what it starts, which is `ImportEnds`. It asks nothing of the user or of Google.
`ApiCall!FairSpec` asks weak fairness of the call's own steps: code runs on, timers
fire, and the client's `Timeout` (20 s in `cmd/api/main.go`, 30 s in
`cmd/worker/main.go`) ends an attempt that gets no answer; nothing is asked of the
provider. `SearchPage!FairSpec` asks that a request is served to its end and its
answer shown, that React runs the effects of a render, and that each fetch of a
thumbnail ends, as an image or an error; the server's own call behind it has the
timeout above. `Accounts` states no liveness: a login or a call ends whenever it
fails.

## Proofs

The proof modules follow one plan: an inductive invariant `IInv` of named parts,
`Init => IInv`, `IInv /\ [Next]_vars => IInv'` with one step per action, and
theorems that follow by temporal logic. The assumptions are
the `ASSUME` of each module (the types of the constants; libraries, picked sets
and photos are finite; a slot is of one kind; `MAX_SEARCH_LIMIT` is positive).
`OneActive` also assumes `OneHandlerPerUser`, and `BusyForOne` assumes `OneSession`;
without them they are false, which is what the runs `index_overlap` and `page_overlap`
show. `ActiveAreBounded` and `StatusHides` assume finitely many handlers.

*IndexJobs.* `RunnerUnique` alone is not inductive: a commit hands over a row that
must still be queued and locked by nobody else, so the invariant ties each
worker's program counter to the status of the row it holds and says that no two
workers hold one row. From it follow `EndedStaysEnded` (only the holder writes
a row, and it holds no ended row), `DoneIndexed` (what a worker has neither
listed nor in hand is in the table, and rows are never deleted) and
`ImplementsJobQueue` (each action is a step of `JobQueue` or a stutter, with the
holder as runner). `FaultsOrphan` bounds the orphans by the faults step by step. `ProgressIsHonest`
counts the images a worker is past and that are in the table (`Through`): what
is unlisted, in the page or in hand is disjoint from them, so saving the item in
hand makes the set one larger, and they are among the stored images of the
job's library, whoever stored them and whatever other workers add.
`LockedOutStays` is the proof that a stuck job is never repaired.

`OneActive` assumes one request of a user at a time; `ActiveAreBounded` says what is
left without that: a user's active jobs never outnumber the requests of that user that
can be under way. Its invariant counts a request that has passed `HasActiveJob` as the
job it will insert: such requests and the active jobs together are no more than the
requests, because whoever passes the check sees none active. `StatusHides` says what the status
query may hide then: its invariant, `HiddenInv`, is that whatever row of a user may come
to be the newest, stamped or inserted, fewer unfinished jobs than requests are older. It
rests on the bound, since a request that stamps a row is at that moment one of the
requests counted there and accounts for no job. `PhotosAreOwn`
says whose rows these are, for good: an image of the library of the user in `user_id`,
or one that this user imported.

A step taken outside a module changes the table of photos only by adding to it
(`Outside`, in both proof modules); that is all the proofs need to know of the other
half, and every theorem about runs holds with imports of any users at any time, and the
other way round.

*PickerImport.* The core is that a session's entry says running exactly while one
request imports it (`ImporterUnique` with `RunningIsHonest`: neither is inductive
without the other). Hence the unconditional writes of a goroutine only ever reach
its own entry (`TrackerWrites`), which gives `EndedStays`. `CountsCorrect` and
`ShownForward` rest on `Counted`: processed items, items left to visit and the one
being saved make up the total, and the goroutine's counters are never behind the
tracker's. `DoneIsComplete` rests on `LostIsFailed`: the picked images that the
goroutine is through with and that are not in the table are at most those it
counted as failed, whatever other imports write meanwhile.

`ImplementsImportService` needs the invariant to know that an entry that says
running has a request behind it, and that no second request of the session is
still at its start when the first one goes.

*PickerPage.* `BusyReason` needs `SessionsNamed`: an import that is answered sets
an id only if every call that leads to it names a session, which in turn rests
on effects that poll only while there is a session. `PageUsesService` needs the
same part of the invariant. `BusyForOne` tells the one session's story in order: it is
created, then polled, then requested once, then followed, and each answer that enables
the button again can only arrive when the import does not run. `ImportedOnce` says which
part of it needs no fault-free calls and no single session: as long as polls of a session
do not overlap (`OnePoll`), its import is requested at most once, through lost answers,
restarts of the API and other sessions. Its invariant, `BroughtOnce`, is that one answer
brings a session, before any poll of it; a session whose import was requested (`Handled`)
has neither that answer nor a poll on the way any more.

*Accounts.* Who is who (`AccountsProofs`) follows from one invariant, `Identity`: every
row of tokens, every callback past its look-up and every call carries tokens granted
to the account of the user it is for. `OneUserPerAccount` is part of it, since with
two users of one account the look-up could pick either. `RowsUsable` needs a second
invariant, `Fresh` (`AccountsTokenProofs`): while Google rotates, the token that a
callback was granted and the one that a refresh has brought are live, and nobody
else's, until they are saved. So a save, of a login or of a call, in whatever order
they come, puts into the row a live token that nobody can spend before reading it there, and
one that is spent is spent by a call that is about to save its successor. `TokensUnshared`
draws from `OwnTokens` what it is for: no refresh token is in the rows of two users.

*ApiCall.* The invariant bounds what has been sent and performed by the number of
the attempt, says that a decoded answer ends the call, and that a pause was computed
from its error. `RetryAfterKeeps` and `WaitIsLonger` are the arithmetic: whatever a
header wraps around to, the maximum with the back-off is no shorter than the
back-off. `CallsRemotely` is the safety half of `RemoteSpec`.

*SearchPage.* The table may be rewritten between a request and the one or two queries
that serve it, so `NearestAreFound` cannot be about the rows as they are: a photo may match
before and after and not when the query runs, and an item may have been moved behind one
left out by the time of the answer. Its invariant is that what the user had when the
request was made still is the user's, and that its present row is among the versions
remembered; a photo all of whose versions match then matches when the rows are read, and
is left out only for items that are no farther than the row it had there. `ShownOpens` rests on the upsert that leaves `user_id` alone. `ThumbnailsMatch`
relates the loads of the last run of the effects to what has been set since.

*Ends.* That something ends has a half the prover can do: that it takes boundedly many
steps. `RunEnds`, `ImportsEnd`, `RequestsEnd` and `CallsEnd` give each run, import, login
or request for tokens, and call a number of steps it has left (four for each item of the library, three for each image picked, four
for each retry, at most seven for a login or a request, which refreshes its tokens at
most twice, and a few more), which every step of its own makes smaller and no
step of anybody else makes larger, whatever fails. `RunEnds` needs to know that a page
being walked was taken off what is unlisted (`TidyOK`). `EffectsEnd` does the same for the
two effects of the page, which set what they depend on: missing thumbnails,
then renders to come, then fetches under way decrease, because what is loading is
either missing or about to be thrown away by a render (`LoadsMissing`). What
remains of the liveness properties is fairness: that the next step is taken at all.

Only model-checked: the liveness properties (`AcceptedEndsOrOrphaned`, `ImportEnds`,
`ButtonComesBack`, `SelectionHandled`, `ThumbnailsSettle`, `SearchEnds`, and that a
call of `RemoteSpec` ends), which are beyond the prover. Every safety property of a
passing run is proved.

## Findings

`index_overlap`: `handleIndexUpdate` checks `HasActiveJob` (server.go:185) and
inserts the job (server.go:194) in separate statements, and `jobs` has no
constraint on active jobs. Two overlapping requests of one user, from a double
click or two tabs, both pass the check, and the user has two jobs queued, then
running in two workers, instead of the 409 "進行中のジョブがあります" (a job is in
progress) of server.go:191. The photos are still written once each, by the
unique index. `GET /index/status` shows the newer job only, and may so hide an active one:
both requests pass `HasActiveJob`; the row that is stamped second is inserted first and
run to its end; the row stamped first (store.go:93) is then inserted as queued, and until
it ends the status is the one of the ended job. `StatusHidesFewer` says how far this goes:
with two overlapping requests one job can be hidden and never two, and without overlap
none.

`page_overlap`: `poll` (App.tsx:341) looks at `stopped` before its fetch and not after,
and `importPickerSession` checks `importingPicker` (App.tsx:269) as captured when
the session was set. When an answer takes longer than the interval, two polls see
`media_items_set` and both request the import. The API refuses the second, and
its handler enables the button and shows a failure while the first import runs,
against App.tsx:478-480. `page_single` shows that without the overlap all is well.

`page_two_sessions`: the button creates another session while one is polled
(App.tsx:478 only looks at a running import), and the new session replaces the
polled one. What was picked in the earlier window since its last poll is never
imported and no message says so, against "Picker で写真を選び、そのままインデックスに追加します。"
(pick photos in the Picker and they are added to the index as they are,
App.tsx:472).

`search_end_date`: `handleSearch` turns the end date into the midnight with which
that day begins (server.go:447), and `SearchPhotos` asks for `created_time <=` that
instant (store.go:217). A photo taken later on that day is never found, against the
label "終了日" (end date) of App.tsx:520; a period of one day finds nothing else than
its first instant.

Not findings but worth knowing. An answer of `POST /search` is empty, and no error,
when the transaction of the exact search cannot start (store.go:250-264):
`NearestFound` leaves those answers out. `RowUsable` has to allow for a refresh whose
answer or save is lost: with rotating tokens the user must then log in again. A search that runs while a
photo is overwritten may leave it out although it matched before and matches after:
`NearestFound` is about photos every version of which matches. The Google clients never
read `Retry-After`, and those that do wait for as long as it says. `LockedOutForever` says that after a worker crash
the user of the job is refused every later index update, until someone edits the
database.

## Not modelled

Of the modelled parts, left out are input checks before the modelled call (lengths
of texts, formats of ids and dates), the contents of captions, embeddings and
answers, log lines and error texts, the time a poll sleeps, scopes, e-mail addresses
and the value of access tokens, `/photos/{id}` and its view beyond the owner check,
and the numbers the page shows of an import. `MAX_SEARCH_LIMIT` may be switched off by 0 in the
code; the model takes it to be positive, as its default is. Days are in UTC, in which
the code reads a date. `ApiCall` wraps the seconds of `Retry-After`, but not the back-off
`baseDelay * (attempt+1)` (retry.go:71), which overflows only for a base delay of decades,
and takes an attempt to be one request: Go's HTTP transport may itself repeat an idempotent
request whose connection was dropped, of which `BoundedEffects` says nothing.

Captions are pure text. Encryption of tokens is cryptography and a remote service:
what is saved is what is read back, and an error of it is an error of the statement.
Configuration is read once at start; what matters of it are constants. The job,
login and configuration effects of the page only replace what is shown. That base
URLs run out, and that an answer to a poll of the job may be older than the one shown,
are listed as hazards without a property.

## Plan

1. `PickerPage` composed with `PickerImport` itself, which the two refinement theorems
   make unnecessary for safety, to state the page's liveness against the goroutines.
2. `/auth/me` and the page's notion of being signed in, with a session that runs out
   while an import is polled.
