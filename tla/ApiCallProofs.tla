--------------------------- MODULE ApiCallProofs ---------------------------
(* Theorems about ApiCall: whatever the configured retries and delays, the *)
(* headers a provider sends and the width of a Duration.                   *)
EXTENDS ApiCall, FiniteSetTheorems, TLAPS

\* The requests sent are those of the attempts made, each performed at most once.
Attempts ==
    /\ attempt <= maxRetries
    /\ flying \subseteq 0 .. attempt
    /\ done \subseteq 0 .. attempt
    /\ flying \cap done = {}
    /\ pc \in {"idle", "fetch", "send"} => attempt \notin flying \cup done
    /\ pc = "idle" => flying = {} /\ done = {}

\* Only the last answer is decoded.
Decoding ==
    /\ pc \notin {"ok", "failed"} => decoded = {}
    /\ decoded \subseteq {attempt}
    /\ pc = "ok" /\ client.decodes => decoded = {attempt}

\* A wait is followed by an attempt that is left, and was measured by its error.
Pauses ==
    pc = "wait" =>
       /\ attempt < maxRetries
       /\ pause = Wait(baseDelay * (attempt + 1), RetryAfter(err.header))

IInv == TypeOK /\ Attempts /\ Decoding /\ Pauses

-----------------------------------------------------------------------------
(* Durations. *)

\* A remainder below the divisor.
LEMMA SmallRemainder ==
    ASSUME NEW a \in Nat, NEW b \in Nat \ {0}, a < b
    PROVE  a % b = a
  OBVIOUS

\* A product that fits does not wrap around.
LEMMA WrapSmall ==
    ASSUME NEW x \in Nat, x < Top
    PROVE  Wrap(x) = x
<1>1. Top \in Nat \ {0}
  BY ApiCallAssumption DEF ApiCallAssumption
<1>2. x + Top \in Nat /\ 2 * Top \in Nat \ {0} /\ x + Top < 2 * Top
  BY <1>1
<1>3. (x + Top) % (2 * Top) = x + Top
  BY <1>2, SmallRemainder
<1>. QED
  BY <1>1, <1>3 DEF Wrap

\* Of what a header asks for RetryAfter keeps all that is a Duration, and what
\* it makes of the rest is an integer.
LEMMA RetryAfterKeeps ==
    ASSUME NEW h \in Headers
    PROVE  /\ RetryAfter(h) \in Int
           /\ h.n * Second < Top => RetryAfter(h) >= h.n * Second
<1>1. /\ Top \in Nat \ {0} /\ Second \in Nat \ {0}
      /\ h \in [form : {"none", "seconds", "date"}, n : Int]
      /\ h.form = "none" => h.n = 0
  BY ApiCallAssumption DEF ApiCallAssumption
<1>2. /\ h.n \in Int /\ h.n * Second \in Int
      /\ h.n > 0 => h.n * Second \in Nat
      /\ h.n <= 0 => h.n * Second <= 0
  BY <1>1
<1>3. CASE h.form = "seconds" /\ h.n > 0
  <2>1. RetryAfter(h) = Wrap(h.n * Second)
    BY <1>2, <1>3 DEF RetryAfter
  <2>2. Wrap(h.n * Second) \in Int
    <3>1. 2 * Top \in Nat \ {0} /\ h.n * Second + Top \in Int
      BY <1>1, <1>2
    <3>2. (h.n * Second + Top) % (2 * Top) \in Int
      BY <3>1
    <3>. QED
      BY <1>1, <3>2 DEF Wrap
  <2>3. h.n * Second < Top => Wrap(h.n * Second) = h.n * Second
    BY <1>2, <1>3, WrapSmall
  <2>. QED
    BY <1>2, <2>1, <2>2, <2>3
<1>4. CASE h.form = "date" /\ h.n > 0
  <2>1. RetryAfter(h) = IF h.n * Second < Top THEN h.n * Second ELSE Top - 1
    BY <1>2, <1>4 DEF RetryAfter
  <2>. QED
    BY <1>1, <1>2, <2>1
<1>5. CASE h.n <= 0 \/ h.form = "none"
  <2>1. RetryAfter(h) = 0 /\ h.n <= 0
    BY <1>1, <1>5 DEF RetryAfter
  <2>. QED
    BY <1>2, <2>1
<1>. QED
  BY <1>1, <1>2, <1>3, <1>4, <1>5

\* The longer of the two.
LEMMA WaitIsLonger ==
    ASSUME NEW b \in Int, NEW r \in Int
    PROVE  Wait(b, r) \in Int /\ Wait(b, r) >= b /\ Wait(b, r) >= r
  BY DEF Wait

-----------------------------------------------------------------------------
(* The invariant. *)

LEMMA InitIInv == Init => IInv
<1> SUFFICES ASSUME Init PROVE IInv
  OBVIOUS
<1>1. maxRetries \in Nat /\ baseDelay \in Nat \ {0}
  BY ApiCallAssumption DEF Init, ApiCallAssumption, AtLeastZero, PositiveDelay
<1>2. err \in Errors
  BY ApiCallAssumption DEF Init, ApiCallAssumption, NoError, NoHeader, Errors
<1>. QED
  BY <1>1, <1>2 DEF Init, IInv, TypeOK, Attempts, Decoding, Pauses, NoError

\* What retry.Do makes of an error it is given while the call is under way.
LEMMA ErrorHandled ==
    ASSUME IInv, NEW e \in Errors, AfterError(e), UNCHANGED <<maxRetries, baseDelay, attempt>>
    PROVE  /\ err' \in Errors
           /\ pause' \in Int
           /\ pc' \in {"wait", "failed"}
           /\ Pauses'
           /\ pc' = "wait" => Retryable(e)
<1>1. attempt \in Nat /\ maxRetries \in Nat /\ baseDelay \in Nat /\ pause \in Int
  BY DEF IInv, TypeOK
<1>2. attempt < maxRetries \/ attempt = maxRetries
  BY <1>1 DEF IInv, Attempts
<1>3. CASE pc' = "failed" /\ UNCHANGED pause /\ err' \in {e, Failure("cancelled")}
  <2>1. Failure("cancelled") \in Errors
    BY ApiCallAssumption DEF ApiCallAssumption, Failure, Errors, NoHeader
  <2>. QED
    BY <1>1, <1>3, <2>1 DEF Pauses
<1>4. CASE /\ Retryable(e) /\ attempt < maxRetries
           /\ pc' = "wait" /\ err' = e
           /\ pause' = Wait(baseDelay * (attempt + 1), RetryAfter(e.header))
  <2>1. e.header \in Headers
    BY DEF Errors
  <2>2. baseDelay * (attempt + 1) \in Int /\ RetryAfter(e.header) \in Int
    BY <1>1, <2>1, RetryAfterKeeps
  <2>3. pause' \in Int
    BY <1>4, <2>2, WaitIsLonger
  <2>4. Pauses'
    BY <1>4 DEF Pauses
  <2>. QED
    BY <1>4, <2>3, <2>4 DEF Retryable
<1>. QED
  BY <1>3, <1>4 DEF AfterError

LEMMA FailureTyped ==
    ASSUME NEW k \in {"network", "denied", "refused", "body", "empty", "image", "cancelled"}
    PROVE  Failure(k) \in Errors
  BY ApiCallAssumption DEF ApiCallAssumption, Failure, Errors, NoHeader

LEMMA BusyTyped ==
    ASSUME NEW h \in Headers
    PROVE  Busy(h) \in Errors
  BY ApiCallAssumption DEF ApiCallAssumption, Busy, Errors, NoHeader

-----------------------------------------------------------------------------

\* The steps before and after an attempt.
LEMMA ControlStep ==
    ASSUME IInv, Begin \/ FetchImage \/ Send \/ Wake \/ WaitCancelled
    PROVE  IInv'
<1> USE DEF IInv, Attempts, Decoding, Pauses
<1>1. CASE Begin
  BY <1>1 DEF Begin, TypeOK
<1>2. CASE FetchImage
  <2>1. err' \in Errors /\ err'.kind \in {err.kind, "image"}
    BY <1>2, FailureTyped DEF FetchImage, TypeOK, Failure
  <2>2. TypeOK'
    BY <1>2, <2>1 DEF FetchImage, TypeOK
  <2>. QED
    BY <1>2, <2>1, <2>2 DEF FetchImage
<1>3. CASE Send
  BY <1>3 DEF Send, TypeOK
<1>4. CASE Wake
  BY <1>4 DEF Wake, TypeOK
<1>5. CASE WaitCancelled
  <2>1. err' \in Errors /\ err'.kind = "cancelled"
    BY <1>5, FailureTyped DEF WaitCancelled, Failure
  <2>2. TypeOK'
    BY <1>5, <2>1 DEF WaitCancelled, TypeOK
  <2>. QED
    BY <1>5, <2>1, <2>2 DEF WaitCancelled
<1>. QED
  BY <1>1, <1>2, <1>3, <1>4, <1>5

\* An attempt fails.
LEMMA FailedStep ==
    ASSUME IInv,
           \/ NoAnswer \/ AnswerRefused \/ AnswerUndecodable
           \/ \E h \in Headers : AnswerBusy(h)
    PROVE  IInv'
<1>1. PICK e \in Errors :
         /\ AfterError(e)
         /\ pc \in {"await", "send"}
         /\ UNCHANGED <<client, maxRetries, baseDelay, ctx, attempt, done>>
         /\ flying' \subseteq flying
         /\ \/ UNCHANGED decoded
            \/ decoded' = decoded \cup {attempt} /\ ~Retryable(e)
  <2>1. CASE NoAnswer
    BY <2>1, FailureTyped DEF NoAnswer
  <2>2. CASE AnswerRefused
    BY <2>2, FailureTyped DEF AnswerRefused
  <2>3. CASE AnswerUndecodable
    BY <2>3, FailureTyped DEF AnswerUndecodable, Retryable, Failure
  <2>4. ASSUME NEW h \in Headers, AnswerBusy(h)
        PROVE  /\ Busy(h) \in Errors /\ AfterError(Busy(h)) /\ pc = "await"
               /\ UNCHANGED <<client, maxRetries, baseDelay, ctx, attempt, done, decoded>>
               /\ flying' \subseteq flying
    BY <2>4, BusyTyped DEF AnswerBusy
  <2>. QED
    BY <2>1, <2>2, <2>3, <2>4
<1>2. /\ err' \in Errors /\ pause' \in Int /\ pc' \in {"wait", "failed"}
      /\ Pauses' /\ (pc' = "wait" => Retryable(e))
  BY <1>1, ErrorHandled
<1>3. TypeOK'
  BY <1>1, <1>2 DEF IInv, TypeOK
<1>4. Attempts'
  BY <1>1, <1>2 DEF IInv, Attempts
<1>5. Decoding'
  BY <1>1, <1>2 DEF IInv, Decoding
<1>. QED
  BY <1>2, <1>3, <1>4, <1>5 DEF IInv

LEMMA AnswerOKStep == IInv /\ AnswerOK => IInv'
<1> SUFFICES ASSUME IInv, AnswerOK PROVE IInv'
  OBVIOUS
<1>1. err' \in Errors /\ err'.kind \in {"none", "empty"} /\ pc' \in {"ok", "failed"}
  BY FailureTyped, ApiCallAssumption
  DEF AnswerOK, Failure, NoError, NoHeader, Errors, ApiCallAssumption
<1>2. TypeOK'
  BY <1>1 DEF IInv, TypeOK, AnswerOK
<1>. QED
  BY <1>1, <1>2 DEF IInv, AnswerOK, Attempts, Decoding, Pauses

\* The provider and the context.
LEMMA WorldStep ==
    ASSUME IInv, Cancel \/ (\E k \in flying : Perform(k)) \/ UNCHANGED vars
    PROVE  IInv'
<1> USE DEF IInv, TypeOK, Attempts, Decoding, Pauses, control
<1>1. CASE Cancel
  BY <1>1 DEF Cancel
<1>2. ASSUME NEW k \in flying, Perform(k) PROVE IInv'
  BY <1>2 DEF Perform
<1>3. CASE UNCHANGED vars
  BY <1>3 DEF vars
<1>. QED
  BY <1>1, <1>2, <1>3

LEMMA NextIInv == IInv /\ [Next]_vars => IInv'
  BY ControlStep, FailedStep, AnswerOKStep, WorldStep DEF Next, Call

LEMMA Inductive == Spec => []IInv
  BY InitIInv, NextIInv, PTL DEF Spec

-----------------------------------------------------------------------------

\* The call's variables keep their types: no pause is without a value and no
\* number of retries or delay negative, whatever is configured.
THEOREM TypeCorrect == Spec => []TypeOK
<1>1. IInv => TypeOK
  BY DEF IInv
<1>. QED
  BY <1>1, Inductive, PTL

\* A request is performed at most once for each attempt that is configured.
THEOREM EffectsBounded == Spec => []BoundedEffects
<1>1. IInv => BoundedEffects
  <2> SUFFICES ASSUME IInv PROVE BoundedEffects
    OBVIOUS
  <2>1. maxRetries \in Nat /\ attempt \in Nat /\ done \cup flying \subseteq 0 .. maxRetries
    BY DEF IInv, TypeOK, Attempts
  <2>2. IsFiniteSet(0 .. maxRetries) /\ Cardinality(0 .. maxRetries) = maxRetries + 1
    BY <2>1, FS_Interval
  <2>3. Cardinality(done \cup flying) <= Cardinality(0 .. maxRetries)
    BY <2>1, <2>2, FS_Subset
  <2>. QED
    BY <2>2, <2>3 DEF BoundedEffects
<1>. QED
  BY <1>1, Inductive, PTL

\* A result is one answer's, whole.
THEOREM OneAnswerDecoded == Spec => []OneAnswer
<1>1. IInv => OneAnswer
  <2> SUFFICES ASSUME IInv PROVE OneAnswer
    OBVIOUS
  <2>1. decoded = {} \/ decoded = {attempt}
    BY DEF IInv, Decoding
  <2>2. Cardinality(decoded) <= 1
    <3>1. CASE decoded = {}
      <4>1. Cardinality(decoded) = 0
        BY <3>1, FS_EmptySet
      <4>. QED
        BY <4>1
    <3>2. CASE decoded = {attempt}
      <4>1. Cardinality(decoded) = 1
        BY <3>2, FS_Singleton
      <4>. QED
        BY <4>1
    <3>. QED
      BY <2>1, <3>1, <3>2
  <2>. QED
    BY <2>2 DEF IInv, Decoding, OneAnswer
<1>. QED
  BY <1>1, Inductive, PTL

\* No header, past, zero or too long for a Duration, shortens a pause.
THEOREM PausesLongEnough == Spec => []PauseLongEnough
<1>1. IInv => PauseLongEnough
  <2> SUFFICES ASSUME IInv, pc = "wait" PROVE PauseLongEnough
    BY DEF PauseLongEnough
  <2>1. err.header \in Headers /\ attempt \in Nat /\ baseDelay \in Nat
    BY DEF IInv, TypeOK, Errors
  <2>2. /\ RetryAfter(err.header) \in Int
        /\ err.header.n * Second < Top => RetryAfter(err.header) >= err.header.n * Second
    BY <2>1, RetryAfterKeeps
  <2>3. baseDelay * (attempt + 1) \in Int /\ err.header.n * Second \in Int
    BY <2>1, ApiCallAssumption DEF ApiCallAssumption
  <2>4. pause = Wait(baseDelay * (attempt + 1), RetryAfter(err.header))
    BY DEF IInv, Pauses
  <2>5. /\ pause \in Int
        /\ pause >= baseDelay * (attempt + 1)
        /\ pause >= RetryAfter(err.header)
    BY <2>2, <2>3, <2>4, WaitIsLonger
  <2>. QED
    BY <2>2, <2>3, <2>5 DEF PauseLongEnough
<1>. QED
  BY <1>1, Inductive, PTL

\* Every step of a call is one that RemoteCall allows, or changes nothing its
\* caller can tell: an answer means that the provider has performed the call.
THEOREM CallsRemotely == Spec => Remote!Init /\ [][Remote!Next]_(Remote!vars)
<1>1. Init => Remote!Init
  BY FS_EmptySet DEF Init, Remote!Init, CallState
<1>2. ASSUME IInv, [Next]_vars PROVE [Remote!Next]_(Remote!vars)
  <2> USE DEF CallState, Remote!vars, Remote!Next
  <2>1. IsFiniteSet(done) /\ Cardinality(done) \in Nat
    <3>1. IsFiniteSet(0 .. attempt) /\ done \subseteq 0 .. attempt
      BY <1>2, FS_Interval DEF IInv, TypeOK, Attempts
    <3>. QED
      BY <3>1, FS_Subset, FS_CardinalityType
  <2>2. CASE Begin
    BY <2>2 DEF Begin, Remote!Begin
  <2>3. CASE FetchImage \/ Send \/ Wake \/ WaitCancelled
    BY <2>3 DEF FetchImage, Send, Wake, WaitCancelled, Remote!Fail
  <2>4. CASE NoAnswer \/ AnswerRefused \/ AnswerUndecodable \/ \E h \in Headers : AnswerBusy(h)
    BY <2>4
    DEF NoAnswer, AnswerRefused, AnswerUndecodable, AnswerBusy, AfterError, Remote!Fail
  <2>5. CASE AnswerOK
    <3>1. Cardinality(done) # 0
      BY <2>1, <2>5, FS_EmptySet DEF AnswerOK
    <3>. QED
      BY <2>1, <2>5, <3>1 DEF AnswerOK, Remote!Answer, Remote!Fail
  <2>6. ASSUME NEW k \in flying, Perform(k)
        PROVE  Remote!Perform
    <3>1. k \notin done /\ pc # "idle"
      BY <1>2, <2>6 DEF IInv, Attempts
    <3>2. Cardinality(done \cup {k}) = Cardinality(done) + 1
      BY <2>1, <3>1, FS_AddElement
    <3>. QED
      BY <2>6, <3>1, <3>2 DEF Perform, control, Remote!Perform
  <2>7. CASE Cancel \/ UNCHANGED vars
    BY <2>7 DEF Cancel, vars, control
  <2>. QED
    BY <1>2, <2>2, <2>3, <2>4, <2>5, <2>6, <2>7 DEF Next, Call
<1>. QED
  BY <1>1, <1>2, Inductive, PTL DEF Spec

-----------------------------------------------------------------------------
(* A call ends by itself. *)

\* How many steps a call can still take: four for each attempt that is left, and those
\* of the attempt it is at.
StepsLeft ==
    4 * (maxRetries - attempt) +
        (IF pc = "idle" THEN 5 ELSE IF pc = "fetch" THEN 4 ELSE IF pc = "send" THEN 3
         ELSE IF pc = "await" THEN 2 ELSE IF pc = "wait" THEN 1 ELSE 0)

\* Whatever the provider answers, also if it is busy for ever, each step of a call
\* leaves fewer to take, and neither the provider nor a cancelled context adds one.
CallShrinks == [][UNCHANGED control \/ StepsLeft' < StepsLeft]_vars

\* A call takes at most 4 * maxRetries + 5 steps, for any provider and any headers: the
\* retries cannot go on for ever.  That it takes them is the liveness of RemoteSpec.
THEOREM CallsEnd ==
    Spec => [](StepsLeft \in 0 .. (4 * maxRetries + 5)) /\ CallShrinks
<1>1. IInv => StepsLeft \in 0 .. (4 * maxRetries + 5)
  BY DEF IInv, TypeOK, Attempts, Pauses, StepsLeft
<1>2. ASSUME IInv, [Next]_vars PROVE UNCHANGED control \/ StepsLeft' < StepsLeft
  <2>1. attempt \in Nat /\ maxRetries \in Nat
    BY <1>2 DEF IInv, TypeOK
  <2>2. CASE Begin \/ FetchImage \/ Send \/ WaitCancelled
    BY <2>1, <2>2 DEF Begin, FetchImage, Send, WaitCancelled, StepsLeft
  <2>3. CASE \/ NoAnswer \/ AnswerRefused \/ AnswerUndecodable \/ AnswerOK
             \/ \E h \in Headers : AnswerBusy(h)
    <3>1. /\ pc \in {"send", "await"} /\ pc' \in {"wait", "ok", "failed"}
          /\ UNCHANGED <<maxRetries, attempt>>
      BY <2>3 DEF NoAnswer, AnswerRefused, AnswerUndecodable, AnswerOK, AnswerBusy,
                  AfterError
    <3>. QED
      BY <2>1, <3>1 DEF StepsLeft
  <2>4. CASE Wake
    BY <2>1, <2>4 DEF Wake, StepsLeft
  <2>5. CASE Cancel \/ (\E k \in flying : Perform(k)) \/ UNCHANGED vars
    BY <2>5 DEF Cancel, Perform, vars
  <2>. QED
    BY <1>2, <2>2, <2>3, <2>4, <2>5 DEF Next, Call
<1>3. IInv /\ [Next]_vars => [UNCHANGED control \/ StepsLeft' < StepsLeft]_vars
  BY <1>2
<1>. QED
  BY <1>1, <1>3, Inductive, PTL DEF Spec, CallShrinks

=============================================================================
