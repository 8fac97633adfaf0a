------------------------------- MODULE ApiCall -------------------------------
(***************************************************************************)
(* One call of a provider: retry.Do around the request that each client    *)
(* makes, with the context of the caller, the client's timeout and a       *)
(* provider that may perform a request late, perform it and not be heard,  *)
(* refuse it, be busy, or answer with a body that cannot be decoded.       *)
(*                                                                         *)
(* The attempts of the call are numbered 0, 1, ...; flying holds the       *)
(* attempts whose request the provider may still perform, done the ones it *)
(* has performed.  Durations are counted in ticks; a Duration wraps around *)
(* at Top as the 64-bit one does.                                          *)
(***************************************************************************)
EXTENDS Integers, FiniteSets

CONSTANTS
    RetryMaxes,   \* configured numbers of retries
    BaseDelays,   \* configured base delays
    Headers,      \* Retry-After headers a provider sends
    Second,       \* ticks of a second
    Top           \* the first duration too long for the type

ASSUME ApiCallAssumption ==
    /\ RetryMaxes \subseteq Int
    /\ BaseDelays \subseteq Int
    /\ Headers \subseteq [form : {"none", "seconds", "date"}, n : Int]
    /\ [form |-> "none", n |-> 0] \in Headers
    /\ \A h \in Headers : h.form = "none" => h.n = 0
    /\ Second \in Nat \ {0}
    /\ Top \in Nat \ {0}

VARIABLES
    client,      \* the client that makes the call
    maxRetries,  \* the parameters of retry.Do, once normalised
    baseDelay,
    ctx,         \* the caller's context
    pc,          \* where the call is
    attempt,     \* retry.Do's attempt
    pause,       \* its wait
    err,         \* its last error
    decoded,     \* attempts whose body was decoded into the result
    flying, done

control == <<pc, attempt, pause, err, decoded>>
vars == <<client, maxRetries, baseDelay, ctx, control, flying, done>>

-----------------------------------------------------------------------------
(* The clients.  fetches: an image is loaded first, without retry; heeds:  *)
(* Retry-After is read; decodes: the body is decoded; checks: an empty     *)
(* answer is an error.                                                     *)

Client(fetches, heeds, decodes, checks) ==
    [fetches |-> fetches, heeds |-> heeds, decodes |-> decodes, checks |-> checks]

ListMediaItems == Client(FALSE, FALSE, TRUE, FALSE)
DoJSON         == Client(FALSE, FALSE, TRUE, FALSE)
DeleteSession  == Client(FALSE, FALSE, FALSE, FALSE)
EmbedText      == Client(FALSE, TRUE, TRUE, TRUE)
Caption        == Client(TRUE, TRUE, TRUE, TRUE)
ExchangeCode   == Client(FALSE, FALSE, TRUE, FALSE)
RefreshToken   == Client(FALSE, FALSE, TRUE, FALSE)
FetchUserInfo  == Client(FALSE, FALSE, TRUE, FALSE)

Clients == {ListMediaItems, DoJSON, DeleteSession, EmbedText, Caption,
            ExchangeCode, RefreshToken, FetchUserInfo}

-----------------------------------------------------------------------------
(* Durations. *)

\* The product of two int64 Durations.
Wrap(x) == ((x + Top) % (2 * Top)) - Top

\* Seconds are multiplied and may wrap around; a date is a difference of
\* times, which saturates.
RetryAfter(h) ==
    IF h.form = "none" \/ h.n <= 0 THEN 0
    ELSE IF h.form = "seconds" THEN Wrap(h.n * Second)
    ELSE IF h.n * Second < Top THEN h.n * Second ELSE Top - 1

\* Mutant: what the provider asks for replaces the back-off.
Wait_Asked(backoff, asked) == IF asked # 0 THEN asked ELSE backoff
Wait(backoff, asked) == IF asked > backoff THEN asked ELSE backoff

\* How retry.Do normalises its parameters; 200 ms are one tick.
AtLeastZero(m) == IF m < 0 THEN 0 ELSE m
PositiveDelay(d) == IF d <= 0 THEN 1 ELSE d

NoHeader == [form |-> "none", n |-> 0]
NoError  == [kind |-> "none", header |-> NoHeader]
Failure(kind) == [kind |-> kind, header |-> NoHeader]
Busy(h)  == [kind |-> "busy", header |-> IF client.heeds THEN h ELSE NoHeader]

\* Mutant: a body that cannot be decoded is retried.
Retryable_Body(e) == e.kind \in {"network", "busy", "body"}
\* MarkRetryable is called for network errors, 429 and 5xx.
Retryable(e) == e.kind \in {"network", "busy"}

-----------------------------------------------------------------------------

Errors == [kind : {"none", "network", "busy", "denied", "refused", "body",
                   "empty", "image", "cancelled"},
           header : Headers]

TypeOK ==
    /\ client \in Clients
    /\ maxRetries \in Nat
    /\ baseDelay \in Nat \ {0}
    /\ ctx \in {"live", "done"}
    /\ pc \in {"idle", "fetch", "send", "await", "wait", "ok", "failed"}
    /\ attempt \in Nat
    /\ pause \in Int
    /\ err \in Errors
    /\ decoded \subseteq Nat
    /\ flying \subseteq Nat
    /\ done \subseteq Nat

Init ==
    /\ client \in Clients
    /\ \E m \in RetryMaxes : maxRetries = AtLeastZero(m)
    /\ \E d \in BaseDelays : baseDelay = PositiveDelay(d)
    /\ ctx = "live"
    /\ pc = "idle"
    /\ attempt = 0
    /\ pause = 0
    /\ err = NoError
    /\ decoded = {}
    /\ flying = {}
    /\ done = {}

\* Mutant: the attempts are counted up to one too many.
AfterError_OneMore(e) ==
    IF ~Retryable(e) \/ attempt > maxRetries
    THEN pc' = "failed" /\ err' = e /\ UNCHANGED pause
    ELSE /\ pc' = "wait"
         /\ err' = e
         /\ pause' = Wait(baseDelay * (attempt + 1), RetryAfter(e.header))

\* Mutant: when the attempts are used up the loop ends without an error.
AfterError_Nil(e) ==
    IF attempt = maxRetries
    THEN pc' = "ok" /\ err' = NoError /\ UNCHANGED pause
    ELSE /\ pc' = "wait"
         /\ err' = e
         /\ pause' = Wait(baseDelay * (attempt + 1), RetryAfter(e.header))

\* What retry.Do does with an error of fn: give up, or wait.  A context that
\* is done already ends the wait at once.
AfterError(e) ==
    \/ /\ ~Retryable(e) \/ attempt = maxRetries
       /\ pc' = "failed" /\ err' = e
       /\ UNCHANGED pause
    \/ /\ Retryable(e) /\ attempt < maxRetries
       /\ IF ctx = "done"
          THEN pc' = "failed" /\ err' = Failure("cancelled") /\ UNCHANGED pause
          ELSE /\ pc' = "wait" /\ err' = e
               /\ pause' = Wait(baseDelay * (attempt + 1), RetryAfter(e.header))

Begin ==
    /\ pc = "idle"
    /\ pc' = IF client.fetches THEN "fetch" ELSE "send"
    /\ UNCHANGED <<client, maxRetries, baseDelay, ctx, attempt, pause, err,
                   decoded, flying, done>>

\* fetchImage: one request, and no retry.
FetchImage ==
    /\ pc = "fetch"
    /\ \/ pc' = "send" /\ ctx = "live" /\ UNCHANGED err
       \/ pc' = "failed" /\ err' = Failure("image")
    /\ UNCHANGED <<client, maxRetries, baseDelay, ctx, attempt, pause, decoded,
                   flying, done>>

Send ==
    /\ pc = "send"
    /\ ctx = "live"
    /\ pc' = "await"
    /\ flying' = flying \cup {attempt}
    /\ UNCHANGED <<client, maxRetries, baseDelay, ctx, attempt, pause, err,
                   decoded, done>>

\* The connection fails, the client's timeout runs out, or the context is
\* done; a request that was sent may still be performed.
NoAnswer ==
    /\ pc = "await" \/ (pc = "send" /\ ctx = "done")
    /\ AfterError(Failure("network"))
    /\ UNCHANGED <<client, maxRetries, baseDelay, ctx, attempt, decoded, flying, done>>

\* 429 or 5xx, of a request performed or not.
AnswerBusy(h) ==
    /\ pc = "await"
    /\ flying' = flying \ {attempt}
    /\ AfterError(Busy(h))
    /\ UNCHANGED <<client, maxRetries, baseDelay, ctx, attempt, decoded, done>>

\* 401 or 403, or another status from 300 on: the request is not performed.
AnswerRefused ==
    /\ pc = "await"
    /\ attempt \in flying
    /\ flying' = flying \ {attempt}
    /\ \E kind \in {"denied", "refused"} : AfterError(Failure(kind))
    /\ UNCHANGED <<client, maxRetries, baseDelay, ctx, attempt, decoded, done>>

\* A body that cannot be decoded, or breaks off, after it has written part of
\* the result.
AnswerUndecodable ==
    /\ pc = "await"
    /\ client.decodes
    /\ attempt \in done
    /\ decoded' = decoded \cup {attempt}
    /\ AfterError(Failure("body"))
    /\ UNCHANGED <<client, maxRetries, baseDelay, ctx, attempt, flying, done>>

AnswerOK ==
    /\ pc = "await"
    /\ attempt \in done
    /\ decoded' = IF client.decodes THEN decoded \cup {attempt} ELSE decoded
    /\ \/ pc' = "ok" /\ err' = NoError
       \/ client.checks /\ pc' = "failed" /\ err' = Failure("empty")
    /\ UNCHANGED <<client, maxRetries, baseDelay, ctx, attempt, pause, flying, done>>

\* The timer fires.
Wake ==
    /\ pc = "wait"
    /\ attempt' = attempt + 1
    /\ pc' = "send"
    /\ UNCHANGED <<client, maxRetries, baseDelay, ctx, pause, err, decoded, flying, done>>

WaitCancelled ==
    /\ pc = "wait"
    /\ ctx = "done"
    /\ pc' = "failed"
    /\ err' = Failure("cancelled")
    /\ UNCHANGED <<client, maxRetries, baseDelay, ctx, attempt, pause, decoded,
                   flying, done>>

\* The provider performs a request, perhaps after its sender has given it up.
Perform(k) ==
    /\ k \in flying
    /\ flying' = flying \ {k}
    /\ done' = done \cup {k}
    /\ UNCHANGED <<client, maxRetries, baseDelay, ctx, control>>

\* The browser leaves, or the process is told to stop.
Cancel ==
    /\ pc \notin {"idle", "ok", "failed"}
    /\ ctx = "live"
    /\ ctx' = "done"
    /\ UNCHANGED <<client, maxRetries, baseDelay, control, flying, done>>

Call ==
    \/ Begin \/ FetchImage \/ Send \/ NoAnswer \/ AnswerRefused
    \/ AnswerUndecodable \/ AnswerOK \/ Wake \/ WaitCancelled
    \/ \E h \in Headers : AnswerBusy(h)

Next == Call \/ Cancel \/ \E k \in flying : Perform(k)

Spec == Init /\ [][Next]_vars

\* The code runs on, timers fire, and the client's timeout ends an attempt
\* that gets no answer: what is enabled for the call is taken in the end.
FairSpec == Spec /\ WF_vars(Call)

-----------------------------------------------------------------------------
(* Properties. *)

\* Whatever is lost, late or refused, the provider performs what was asked at
\* most once for each attempt retry.Do is configured to make; this bounds the
\* repetitions of a POST, which nothing makes idempotent.
BoundedEffects == Cardinality(done \cup flying) <= maxRetries + 1

\* The variable that fn decodes into is shared by all attempts of a call, but
\* no two answers are ever decoded into it: a result is one answer's, whole.
OneAnswer ==
    /\ Cardinality(decoded) <= 1
    /\ pc = "ok" /\ client.decodes => decoded = {attempt}

\* A pause is never shorter than the linear back-off, also when Retry-After is
\* zero, past, or so long that it wraps around; and never shorter than what
\* the provider asked for, to a client that heeds it, if that is a Duration.
PauseLongEnough ==
    pc = "wait" =>
       /\ pause >= baseDelay * (attempt + 1)
       /\ err.header.n * Second < Top => pause >= err.header.n * Second

CallState == IF pc \in {"idle", "ok", "failed"} THEN pc ELSE "pending"

Remote == INSTANCE RemoteCall WITH
    state <- CallState, performed <- Cardinality(done)

\* Retrying keeps what a caller assumes of a call: an answer means that the
\* provider has performed it, and every call ends.
RemoteSpec == Remote!Spec

=============================================================================
