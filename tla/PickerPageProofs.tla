--------------------------- MODULE PickerPageProofs ---------------------------
(* Theorems about PickerPage. *)
EXTENDS PickerPage, TLAPS

\* A poll or an import names a session, and so does the answer to a creation.
SessionsNamed ==
    /\ ~stopped => pickerSession \in Sessions
    /\ \A c \in Slots :
          \/ call[c].kind \in {"watch", "import"}
          \/ call[c].kind = "create" /\ call[c].answer = "ok"
          => call[c].sid \in Sessions

\* Only the request of an import waits while it is served.
OnlyImportsWait == \A c \in Slots : call[c].answer = "starting" => call[c].kind = "import"

IInv == TypeOK /\ SessionsNamed /\ OnlyImportsWait /\ BusyHasReason

-----------------------------------------------------------------------------
(* What one step does to the slots. *)

LEMMA SendTyped ==
    ASSUME TypeOK, NEW c \in Slots, NEW k \in Kinds, NEW s \in Sessions \cup {NoSession},
           NEW b \in BOOLEAN, Send(c, k, s, b)
    PROVE  /\ call' \in [Slots -> Calls]
           /\ call'[c] = [kind |-> k, sid |-> s, busy |-> b, answer |-> "none"]
           /\ \A d \in Slots \ {c} : call'[d] = call[d]
<1>1. [kind |-> k, sid |-> s, busy |-> b, answer |-> "none"] \in Calls
  BY DEF Calls, Answers
<1>. QED
  BY <1>1 DEF TypeOK, Send

LEMMA AnswerTyped ==
    ASSUME TypeOK, NEW c \in Slots, NEW a \in Answers, Answer(c, a)
    PROVE  /\ call' \in [Slots -> Calls]
           /\ call'[c].kind = call[c].kind /\ call'[c].sid = call[c].sid
           /\ call'[c].busy = call[c].busy /\ call'[c].answer = a
           /\ \A d \in Slots \ {c} : call'[d] = call[d]
<1>1. call[c] \in Calls
  BY DEF TypeOK
<1>2. [call[c] EXCEPT !.answer = a] \in Calls
  BY <1>1 DEF Calls
<1>. QED
  BY <1>1, <1>2 DEF TypeOK, Answer, Calls

LEMMA EndCallTyped ==
    ASSUME TypeOK, NEW c \in Slots, EndCall(c)
    PROVE  /\ call' \in [Slots -> Calls]
           /\ call'[c] = NoCall
           /\ \A d \in Slots \ {c} : call'[d] = call[d]
<1>1. NoCall \in Calls
  BY DEF NoCall, Calls, Answers
<1>. QED
  BY <1>1 DEF TypeOK, EndCall

LEMMA ReplyTyped ==
    ASSUME TypeOK, NEW s, NEW a \in {"ok", "error"}, Reply(s, a)
    PROVE  /\ call' \in [Slots -> Calls]
           /\ \A c \in Slots : call'[c].kind = call[c].kind /\ call'[c].sid = call[c].sid
           /\ \A c \in Slots : call'[c].answer # call[c].answer =>
                 call[c].answer = "starting" /\ call'[c].answer # "starting"
<1>1. ASSUME NEW c \in Slots
      PROVE  /\ call'[c] \in Calls
             /\ call'[c].kind = call[c].kind /\ call'[c].sid = call[c].sid
             /\ call'[c].answer # call[c].answer =>
                   call[c].answer = "starting" /\ call'[c].answer # "starting"
  <2>1. call[c] \in Calls
    BY DEF TypeOK
  <2>2. [call[c] EXCEPT !.answer = a] \in Calls
    BY <2>1 DEF Calls, Answers
  <2>. QED
    BY <2>1, <2>2 DEF Reply, Calls
<1>2. call' = [c \in Slots |-> call'[c]]
  BY DEF Reply
<1>. QED
  BY <1>1, <1>2

-----------------------------------------------------------------------------
(* The invariant. *)

LEMMA InitIInv == Init => IInv
<1> SUFFICES ASSUME Init PROVE IInv
  OBVIOUS
<1> USE DEF Init
<1>1. NoCall \in Calls /\ call = [c \in Slots |-> NoCall]
  BY DEF NoCall, Calls, Answers
<1>2. \A c \in Slots : call[c].kind = "no" /\ call[c].answer = "none"
  BY DEF NoCall
<1>3. TypeOK
  <2>1. faults \in 0 .. MaxFaults
    BY PickerPageAssumption DEF PickerPageAssumption
  <2>2. call \in [Slots -> Calls]
    BY <1>1
  <2>. QED
    BY <2>1, <2>2 DEF TypeOK
<1>4. SessionsNamed /\ OnlyImportsWait /\ BusyHasReason
  BY <1>2 DEF SessionsNamed, OnlyImportsWait, BusyHasReason
<1>. QED
  BY <1>3, <1>4 DEF IInv

\* Calls are sent.
LEMMA SendStep ==
    ASSUME IInv, NEW c \in Slots, StartPicker(c) \/ PollSession(c) \/ PollImport(c)
    PROVE  IInv'
<1> USE DEF IInv, SessionsNamed, OnlyImportsWait, BusyHasReason
<1>1. PICK k \in Kinds \ {"import"}, s \in Sessions \cup {NoSession}, b \in BOOLEAN :
         /\ Send(c, k, s, b) /\ call[c] = NoCall
         /\ k = "watch" => s \in Sessions
         /\ UNCHANGED <<pickerSession, stopped, busy, importing, importId, opened, faults>>
         /\ failure' \in BOOLEAN
  <2>1. CASE StartPicker(c)
    BY <2>1 DEF StartPicker, Kinds, TypeOK
  <2>2. CASE PollSession(c)
    BY <2>2 DEF PollSession, Kinds, TypeOK, page
  <2>3. CASE PollImport(c)
    BY <2>3 DEF PollImport, Kinds, TypeOK, page
  <2>. QED
    BY <2>1, <2>2, <2>3
<1>2. /\ call' \in [Slots -> Calls]
      /\ call'[c] = [kind |-> k, sid |-> s, busy |-> b, answer |-> "none"]
      /\ \A d \in Slots \ {c} : call'[d] = call[d]
  BY <1>1, SendTyped
<1>3. TypeOK'
  BY <1>1, <1>2 DEF TypeOK
<1>4. SessionsNamed' /\ OnlyImportsWait'
  BY <1>1, <1>2 DEF Kinds
<1>5. BusyHasReason'
  BY <1>1, <1>2 DEF NoCall
<1>. QED
  BY <1>3, <1>4, <1>5

\* What serving or losing a call does to the slots.
LEMMA ServedCall ==
    ASSUME IInv, NEW c \in Slots, Serve(c) \/ Drop(c)
    PROVE  /\ call' \in [Slots -> Calls]
           /\ call'[c].kind = call[c].kind
           /\ \A d \in Slots \ {c} : call'[d] = call[d]
           /\ call'[c].answer = "starting" => call[c].kind = "import"
           /\ call[c].kind \in {"watch", "import"} => call'[c].sid = call[c].sid
           /\ call'[c].kind = "create" /\ call'[c].answer = "ok" => call'[c].sid \in Sessions
<1> USE DEF IInv, SessionsNamed, OnlyImportsWait
<1>1. ASSUME NEW s \in Sessions, Sent(c, "create"),
             call' = [call EXCEPT ![c].sid = s, ![c].answer = "ok"]
      PROVE  /\ call' \in [Slots -> Calls]
             /\ call'[c].kind = call[c].kind
             /\ \A d \in Slots \ {c} : call'[d] = call[d]
             /\ call'[c].answer = "starting" => call[c].kind = "import"
             /\ call[c].kind \in {"watch", "import"} => call'[c].sid = call[c].sid
             /\ call'[c].kind = "create" /\ call'[c].answer = "ok" => call'[c].sid \in Sessions
  <2>1. call[c] \in Calls
    BY DEF TypeOK
  <2>2. [call[c] EXCEPT !.sid = s, !.answer = "ok"] \in Calls
    BY <2>1 DEF Calls, Answers
  <2>3. call' = [call EXCEPT ![c] = [call[c] EXCEPT !.sid = s, !.answer = "ok"]]
    BY <1>1
  <2>. QED
    BY <1>1, <2>1, <2>2, <2>3 DEF TypeOK, Sent, Calls
<1>2. ASSUME NEW a \in Answers, Answer(c, a), a # "ok",
             a = "starting" => call[c].kind = "import"
      PROVE  /\ call' \in [Slots -> Calls]
             /\ call'[c].kind = call[c].kind
             /\ \A d \in Slots \ {c} : call'[d] = call[d]
             /\ call'[c].answer = "starting" => call[c].kind = "import"
             /\ call[c].kind \in {"watch", "import"} => call'[c].sid = call[c].sid
             /\ call'[c].kind = "create" /\ call'[c].answer = "ok" => call'[c].sid \in Sessions
  BY <1>2, AnswerTyped
<1>3. CASE ServeCreate(c)
  <2>1. \/ Answer(c, "error")
        \/ \E s \in Sessions : /\ Sent(c, "create")
                               /\ call' = [call EXCEPT ![c].sid = s, ![c].answer = "ok"]
    BY <1>3 DEF ServeCreate
  <2>. QED
    BY <1>1, <1>2, <2>1 DEF Answers
<1>4. CASE ServeWatch(c)
  BY <1>2, <1>4 DEF ServeWatch, Answers
<1>5. CASE ServeImport(c)
  BY <1>2, <1>5 DEF ServeImport, Sent, Answers
<1>6. CASE ServeFollow(c)
  BY <1>2, <1>6 DEF ServeFollow, Answers
<1>7. CASE Drop(c)
  BY <1>2, <1>7 DEF Drop, Answers
<1>. QED
  BY <1>3, <1>4, <1>5, <1>6, <1>7 DEF Serve

\* Calls are answered, or fail.
LEMMA AnswerStep ==
    ASSUME IInv, NEW c \in Slots, Serve(c) \/ Drop(c)
    PROVE  IInv'
<1> USE DEF IInv, SessionsNamed, OnlyImportsWait, BusyHasReason
<1>1. /\ UNCHANGED page /\ faults' \in 0 .. MaxFaults
  BY PickerPageAssumption
  DEF Serve, ServeCreate, ServeWatch, ServeImport, ServeFollow, Drop, TypeOK
<1>2. /\ call' \in [Slots -> Calls]
      /\ call'[c].kind = call[c].kind
      /\ \A d \in Slots \ {c} : call'[d] = call[d]
      /\ call'[c].answer = "starting" => call[c].kind = "import"
      /\ call[c].kind \in {"watch", "import"} => call'[c].sid = call[c].sid
      /\ call'[c].kind = "create" /\ call'[c].answer = "ok" => call'[c].sid \in Sessions
  BY ServedCall
<1>3. TypeOK'
  BY <1>1, <1>2 DEF TypeOK, page
<1>4. SessionsNamed' /\ OnlyImportsWait'
  BY <1>1, <1>2 DEF page
<1>5. BusyHasReason'
  BY <1>1, <1>2 DEF page
<1>. QED
  BY <1>3, <1>4, <1>5

\* Answers are acted upon.
LEMMA DeliverStep ==
    ASSUME IInv, NEW c \in Slots, Deliver(c)
    PROVE  IInv'
<1> USE DEF IInv, SessionsNamed, OnlyImportsWait, BusyHasReason
<1>1. CASE ImportPicked(c)
  <2>1. Send(c, "import", call[c].sid, FALSE) /\ call[c].sid \in Sessions
    BY <1>1 DEF ImportPicked, Got
  <2>2. /\ call' \in [Slots -> Calls]
        /\ call'[c] = [kind |-> "import", sid |-> call[c].sid, busy |-> FALSE,
                       answer |-> "none"]
        /\ \A d \in Slots \ {c} : call'[d] = call[d]
    BY <2>1, SendTyped DEF Kinds
  <2>3. stopped' \in BOOLEAN /\ (~stopped' => ~stopped)
    BY <1>1 DEF ImportPicked, Stop, TypeOK
  <2>4. TypeOK'
    BY <1>1, <2>2, <2>3 DEF ImportPicked, TypeOK
  <2>5. SessionsNamed' /\ OnlyImportsWait'
    BY <1>1, <2>1, <2>2, <2>3 DEF ImportPicked
  <2>6. BusyHasReason'
    BY <2>2
  <2>. QED
    BY <2>4, <2>5, <2>6
<1>2. CASE SessionCreated(c)
  <2>1. EndCall(c) /\ call[c].kind = "create" /\ call[c].sid \in Sessions
    BY <1>2 DEF SessionCreated, Got
  <2>2. /\ call' \in [Slots -> Calls] /\ call'[c] = NoCall
        /\ \A d \in Slots \ {c} : call'[d] = call[d]
    BY <2>1, EndCallTyped
  <2>3. TypeOK'
    BY <1>2, <2>1, <2>2 DEF SessionCreated, TypeOK
  <2>4. SessionsNamed' /\ OnlyImportsWait'
    BY <1>2, <2>1, <2>2 DEF SessionCreated, NoCall
  <2>5. BusyHasReason'
    BY <1>2, <2>1, <2>2 DEF SessionCreated
  <2>. QED
    BY <2>3, <2>4, <2>5
<1>3. CASE \/ CreateFailed(c) \/ NotPicked(c) \/ WatchFailed(c) \/ IgnorePicked(c)
           \/ ImportStarted(c) \/ ImportRefused(c) \/ StillRunning(c)
           \/ ImportDone(c) \/ ImportLost(c)
  <2>1. /\ EndCall(c)
        /\ faults' = faults /\ opened' = opened /\ busy' = busy
        /\ importing' \in BOOLEAN /\ failure' \in BOOLEAN /\ stopped' \in BOOLEAN
        /\ pickerSession' \in Sessions \cup {NoSession}
        /\ ~stopped' => ~stopped /\ pickerSession' = pickerSession
    BY <1>3
    DEF CreateFailed, NotPicked, WatchFailed, IgnorePicked, ImportStarted, ImportRefused,
        StillRunning, ImportDone, ImportLost, Stop, TypeOK, page
  <2>2. /\ importId' \in Sessions \cup {NoSession}
        /\ importing' => \/ importing /\ importId' = importId /\ call[c].kind # "import"
                         \/ importId' # NoSession
    BY <1>3, PickerPageAssumption
    DEF CreateFailed, NotPicked, WatchFailed, IgnorePicked, ImportStarted, ImportRefused,
        StillRunning, ImportDone, ImportLost, Got, TypeOK, page
  <2>3. /\ call' \in [Slots -> Calls] /\ call'[c] = NoCall
        /\ \A d \in Slots \ {c} : call'[d] = call[d]
    BY <2>1, EndCallTyped
  <2>4. TypeOK'
    BY <2>1, <2>2, <2>3 DEF TypeOK
  <2>5. SessionsNamed' /\ OnlyImportsWait'
    BY <2>1, <2>3 DEF NoCall
  <2>6. BusyHasReason'
    BY <2>2, <2>3
  <2>. QED
    BY <2>4, <2>5, <2>6
<1>. QED
  BY <1>1, <1>2, <1>3 DEF Deliver

\* What the steps of the user, of Google and of the API do to the slots.
LEMMA ServerSideCalls ==
    ASSUME IInv,
           \/ \E s \in Sessions : \/ PickItems(s) \/ DeleteSession(s)
                                  \/ Accept(s) \/ Fail(s) \/ Finish(s)
           \/ Crash
           \/ UNCHANGED vars
    PROVE  /\ call' \in [Slots -> Calls]
           /\ \A c \in Slots : call'[c].kind = call[c].kind /\ call'[c].sid = call[c].sid
           /\ \A c \in Slots : call'[c].answer # call[c].answer =>
                 /\ call'[c].answer # "starting"
                 /\ call[c].answer = "starting" \/ call'[c].answer # "ok"
<1> USE DEF IInv, SessionsNamed, OnlyImportsWait
<1>1. CASE \E s \in Sessions : Accept(s) \/ Fail(s)
  <2>1. PICK s \in Sessions, a \in {"ok", "error"} : Reply(s, a)
    BY <1>1 DEF Accept, Fail
  <2>. QED
    BY <2>1, ReplyTyped
<1>2. CASE Crash
  <2>1. ASSUME NEW c \in Slots
        PROVE  /\ call'[c] \in Calls
               /\ call'[c].kind = call[c].kind /\ call'[c].sid = call[c].sid
               /\ call'[c].answer # call[c].answer => call'[c].answer = "error"
    <3>1. call[c] \in Calls
      BY DEF TypeOK
    <3>2. [call[c] EXCEPT !.answer = "error"] \in Calls
      BY <3>1 DEF Calls, Answers
    <3>. QED
      BY <1>2, <3>1, <3>2 DEF Crash, Calls
  <2>2. call' = [c \in Slots |-> call'[c]]
    BY <1>2 DEF Crash
  <2>. QED
    BY <2>1, <2>2
<1>3. CASE UNCHANGED call
  BY <1>3 DEF TypeOK
<1>. QED
  BY <1>1, <1>2, <1>3 DEF PickItems, DeleteSession, Finish, vars

\* The user, Google and the API take their steps.
LEMMA ServerSideStep ==
    ASSUME IInv,
           \/ \E s \in Sessions : \/ PickItems(s) \/ DeleteSession(s)
                                  \/ Accept(s) \/ Fail(s) \/ Finish(s)
           \/ Crash
           \/ UNCHANGED vars
    PROVE  IInv'
<1> USE DEF IInv, SessionsNamed, OnlyImportsWait, BusyHasReason
<1>1. UNCHANGED page /\ faults' \in 0 .. MaxFaults
  BY PickerPageAssumption
  DEF PickItems, DeleteSession, Accept, Fail, Finish, Crash, vars, TypeOK
<1>2. /\ call' \in [Slots -> Calls]
      /\ \A c \in Slots : call'[c].kind = call[c].kind /\ call'[c].sid = call[c].sid
      /\ \A c \in Slots : call'[c].answer # call[c].answer =>
            /\ call'[c].answer # "starting"
            /\ call[c].answer = "starting" \/ call'[c].answer # "ok"
  BY ServerSideCalls
<1>3. TypeOK'
  BY <1>1, <1>2 DEF TypeOK, page
<1>4. SessionsNamed' /\ OnlyImportsWait'
  BY <1>1, <1>2 DEF page
<1>5. BusyHasReason'
  BY <1>1, <1>2 DEF page
<1>. QED
  BY <1>3, <1>4, <1>5

LEMMA NextIInv == IInv /\ [Next]_vars => IInv'
  BY SendStep, AnswerStep, DeliverStep, ServerSideStep DEF Next

LEMMA Inductive == Spec => []IInv
  BY InitIInv, NextIInv, PTL DEF Spec

\* The page's state and its calls keep their types.
THEOREM TypeCorrect == Spec => []TypeOK
<1>1. IInv => TypeOK
  BY DEF IInv
<1>. QED
  BY <1>1, Inductive, PTL

\* The button is never disabled with nothing left that could enable it, however many
\* polls overlap and in whatever order their answers and failures arrive.
THEOREM BusyReason == Spec => []BusyHasReason
<1>1. IInv => BusyHasReason
  BY DEF IInv
<1>. QED
  BY <1>1, Inductive, PTL

\* Every step of the page's world is a step of the API or leaves it alone.
LEMMA ServerStep ==
    ASSUME IInv, [Next]_vars
    PROVE  [Server!Next]_(Server!vars)
<1> USE DEF Server!vars
<1>1. ASSUME NEW c \in Slots,
             \/ StartPicker(c) \/ PollSession(c) \/ PollImport(c)
             \/ Deliver(c) \/ Drop(c)
      PROVE  UNCHANGED Server!vars
  BY <1>1
  DEF StartPicker, PollSession, PollImport, Deliver, Drop, SessionCreated, CreateFailed,
      NotPicked, WatchFailed, IgnorePicked, ImportPicked, ImportStarted, ImportRefused,
      StillRunning, ImportDone, ImportLost
<1>2. ASSUME NEW c \in Slots, Serve(c)
      PROVE  [Server!Next]_(Server!vars)
  <2>1. CASE ServeCreate(c)
    BY <2>1 DEF ServeCreate, Server!Next
  <2>2. CASE ServeImport(c)
    <3>1. call[c].sid \in Sessions
      BY <2>2 DEF IInv, SessionsNamed, ServeImport, Sent
    <3>. QED
      BY <2>2, <3>1 DEF ServeImport, Server!Next
  <2>. QED
    BY <1>2, <2>1, <2>2 DEF Serve, ServeWatch, ServeFollow
<1>3. ASSUME NEW s \in Sessions,
             \/ PickItems(s) \/ DeleteSession(s) \/ Accept(s) \/ Fail(s) \/ Finish(s)
      PROVE  Server!Next
  BY <1>3 DEF PickItems, DeleteSession, Accept, Fail, Finish, Server!Next
<1>4. CASE Crash
  BY <1>4 DEF Crash, Server!Next
<1>5. CASE UNCHANGED vars
  BY <1>5 DEF vars
<1>. QED
  BY <1>1, <1>2, <1>3, <1>4, <1>5 DEF Next

\* With the page in front of it the API still behaves as ImportService says, which
\* PickerImport implements: the page model asks nothing of it that the API cannot do.
THEOREM PageUsesService == Spec => Server!Spec
<1> USE DEF Server!vars
<1>1. Init => Server!Init
  BY DEF Init
<1>2. IInv /\ [Next]_vars => [Server!Next]_(Server!vars)
  BY ServerStep
<1>. QED
  BY <1>1, <1>2, Inductive, PTL DEF Spec, Server!Spec

-----------------------------------------------------------------------------
(* One session, polled without overlaps, while no call fails on its way. *)

OneSession ==
    /\ \A s, t \in Sessions : s = t
    /\ \A v, w \in Watchers : v = w

ServerTyped ==
    /\ session \in [Sessions -> {"none", "picking", "picked", "deleted"}]
    /\ stage \in [Sessions -> {"absent", "starting", "going", "done", "failed"}]

WatchersOnly == \A c \in Slots : call[c].kind \in {"watch", "import"} => c \in Watchers

Created(c) == call[c].kind = "create" /\ call[c].answer = "ok"

\* The answer that creates s is the only one, and comes before all else about s.
CreatedFirst(s) ==
    \A c \in Slots : Created(c) =>
        /\ stopped /\ session[s] # "none" /\ stage[s] = "absent"
        /\ \A d \in Slots : call[d].kind \notin {"watch", "import"}
        /\ \A d \in Slots : Created(d) => d = c

\* The polls of s come before its import, ...
PolledBefore(s) ==
    /\ ~stopped => /\ session[s] # "none" /\ stage[s] = "absent"
                   /\ \A c \in Slots : call[c].kind # "import"
    /\ \A c \in Slots : call[c].kind = "watch" => ~stopped

\* ... which is requested once; a refusal says that it does not run, ...
RequestedOnce(s) ==
    /\ stage[s] # "absent" => session[s] # "none"
    /\ \A c \in Slots : call[c].kind = "import" =>
          /\ call[c].answer = "none" =>
                importing /\ session[s] # "none" /\ stage[s] = "absent"
          /\ call[c].answer # "none" => stage[s] # "absent"
          /\ call[c].answer = "error" => ~Server!Running(s)

\* ... and so does the end or the error that a poll of the import reports.
Followed(s) ==
    /\ importId # NoSession => stage[s] # "absent"
    /\ \A c \in Slots : call[c].kind = "follow" =>
          /\ call[c].sid = s /\ stage[s] # "absent"
          /\ call[c].answer \in {"done", "error"} => ~Server!Running(s)

Busy(s) == Server!Running(s) => importing

Single(s) ==
    /\ CreatedFirst(s) /\ PolledBefore(s) /\ RequestedOnce(s) /\ Followed(s)
    /\ Busy(s)

SingleInv == ServerTyped /\ WatchersOnly /\ (faults = 0 => \A s \in Sessions : Single(s))

LEMMA InitSingleInv == Init => SingleInv
<1> SUFFICES ASSUME Init PROVE SingleInv
  OBVIOUS
<1>1. \A c \in Slots : call[c].kind = "no"
  BY DEF Init, NoCall
<1>. QED
  BY <1>1
  DEF Init, Server!Init, SingleInv, ServerTyped, WatchersOnly, Single, CreatedFirst,
      PolledBefore, RequestedOnce, Followed, Busy, Created, Server!Running

LEMMA ServerTypedStep ==
    ASSUME ServerTyped, [Server!Next]_(Server!vars)
    PROVE  ServerTyped'
  BY DEF ServerTyped, Server!Next, Server!vars, Server!CreateSession, Server!PickItems,
         Server!DeleteSession, Server!Start, Server!Accept, Server!Fail, Server!Finish,
         Server!Move, Server!Forget

\* What a call that is sent says.
LEMMA SentCall ==
    ASSUME IInv, NEW c \in Slots, NEW k \in Kinds, NEW s \in Sessions \cup {NoSession},
           NEW b \in BOOLEAN, Send(c, k, s, b)
    PROVE  /\ call'[c].kind = k /\ call'[c].sid = s /\ call'[c].answer = "none"
           /\ \A d \in Slots \ {c} : call'[d] = call[d]
<1>1. /\ call' \in [Slots -> Calls]
      /\ call'[c] = [kind |-> k, sid |-> s, busy |-> b, answer |-> "none"]
      /\ \A d \in Slots \ {c} : call'[d] = call[d]
  BY SendTyped DEF IInv
<1>. QED
  BY <1>1

\* Polls and imports stay in the slots of the watchers.
LEMMA WatchersStep ==
    ASSUME IInv, WatchersOnly, [Next]_vars
    PROVE  WatchersOnly'
<1> USE DEF IInv, WatchersOnly
<1>1. ASSUME NEW c \in Slots, StartPicker(c) \/ PollSession(c) \/ PollImport(c)
      PROVE  WatchersOnly'
  <2>1. PICK k \in Kinds, s \in Sessions \cup {NoSession}, b \in BOOLEAN :
           Send(c, k, s, b) /\ (k \in {"watch", "import"} => c \in Watchers)
    <3>1. CASE StartPicker(c)
      BY <3>1 DEF StartPicker, Kinds
    <3>2. CASE PollSession(c)
      BY <3>2 DEF PollSession, Kinds, TypeOK
    <3>3. CASE PollImport(c)
      BY <3>3 DEF PollImport, Kinds, TypeOK
    <3>. QED
      BY <1>1, <3>1, <3>2, <3>3
  <2>2. /\ call'[c].kind = k /\ call'[c].sid = s /\ call'[c].answer = "none"
        /\ \A d \in Slots \ {c} : call'[d] = call[d]
    BY <2>1, SentCall
  <2>. QED
    BY <2>1, <2>2
<1>2. ASSUME NEW c \in Slots, Serve(c) \/ Drop(c)
      PROVE  WatchersOnly'
  <2>1. call'[c].kind = call[c].kind /\ \A d \in Slots \ {c} : call'[d] = call[d]
    BY <1>2, ServedCall
  <2>. QED
    BY <2>1
<1>3. ASSUME NEW c \in Slots, ImportPicked(c)
      PROVE  WatchersOnly'
  <2>1. Send(c, "import", call[c].sid, FALSE) /\ call[c].sid \in Sessions /\ c \in Watchers
    BY <1>3 DEF ImportPicked, Got, SessionsNamed
  <2>2. /\ call'[c].kind = "import" /\ call'[c].sid = call[c].sid /\ call'[c].answer = "none"
        /\ \A d \in Slots \ {c} : call'[d] = call[d]
    BY <2>1, SentCall DEF Kinds
  <2>. QED
    BY <2>1, <2>2
<1>4. ASSUME NEW c \in Slots, EndCall(c)
      PROVE  WatchersOnly'
  BY <1>4, EndCallTyped DEF NoCall
<1>5. ASSUME \A c \in Slots : call'[c].kind = call[c].kind
      PROVE  WatchersOnly'
  BY <1>5
<1>. QED
  BY <1>1, <1>2, <1>3, <1>4, <1>5, ServerSideCalls
  DEF Next, Deliver, SessionCreated, CreateFailed, NotPicked, WatchFailed, IgnorePicked,
      ImportStarted, ImportRefused, StillRunning, ImportDone, ImportLost

\* A step that loses no call keeps the one session's story straight.
LEMMA SendSingle ==
    ASSUME IInv, OneSession, NEW s \in Sessions, Single(s),
           NEW c \in Slots, StartPicker(c) \/ PollSession(c) \/ PollImport(c)
    PROVE  Single(s)'
<1> USE DEF Single, CreatedFirst, PolledBefore, RequestedOnce, Followed, Busy, Created,
            Server!Running
<1>1. CASE StartPicker(c)
  <2>1. Send(c, "create", NoSession, FALSE)
    BY <1>1 DEF StartPicker
  <2>2. /\ call'[c].kind = "create" /\ call'[c].sid = NoSession /\ call'[c].answer = "none"
        /\ \A d \in Slots \ {c} : call'[d] = call[d]
    BY <2>1, SentCall DEF Kinds
  <2>. QED
    BY <1>1, <2>2 DEF StartPicker
<1>2. CASE PollSession(c)
  <2>1. /\ Send(c, "watch", pickerSession, busy) /\ busy \in BOOLEAN
        /\ pickerSession \in Sessions \cup {NoSession}
    BY <1>2 DEF PollSession, IInv, TypeOK
  <2>2. /\ call'[c].kind = "watch" /\ call'[c].sid = pickerSession
        /\ call'[c].answer = "none" /\ \A d \in Slots \ {c} : call'[d] = call[d]
    BY <2>1, SentCall DEF Kinds
  <2>. QED
    BY <1>2, <2>2 DEF PollSession, page
<1>3. CASE PollImport(c)
  <2>1. Send(c, "follow", importId, FALSE) /\ importId \in Sessions
    BY <1>3 DEF PollImport, IInv, TypeOK
  <2>2. /\ call'[c].kind = "follow" /\ call'[c].sid = importId
        /\ call'[c].answer = "none" /\ \A d \in Slots \ {c} : call'[d] = call[d]
    BY <2>1, SentCall DEF Kinds
  <2>3. importId = s
    BY <2>1 DEF OneSession
  <2>. QED
    BY <1>3, <2>2, <2>3 DEF PollImport, page
<1>. QED
  BY <1>1, <1>2, <1>3

LEMMA ServeSingle ==
    ASSUME IInv, ServerTyped, WatchersOnly, OneSession, NEW s \in Sessions, Single(s),
           NEW c \in Slots, Serve(c)
    PROVE  Single(s)'
<1> USE DEF Single, CreatedFirst, PolledBefore, RequestedOnce, Followed, Busy, Created,
            Server!Running, IInv
<1>1. /\ call'[c].kind = call[c].kind
      /\ \A d \in Slots \ {c} : call'[d] = call[d]
      /\ call[c].kind \in {"watch", "import"} => call'[c].sid = call[c].sid
      /\ UNCHANGED page
  BY ServedCall DEF Serve, ServeCreate, ServeWatch, ServeImport, ServeFollow
<1>2. CASE ServeCreate(c)
  <2>1. CASE UNCHANGED <<session, stage>> /\ Answer(c, "error")
    <3>1. call'[c].answer = "error" /\ call[c].kind = "create"
      BY <1>2, <2>1, AnswerTyped DEF ServeCreate, Sent, Answers
    <3>. QED
      BY <1>1, <2>1, <3>1 DEF page
  <2>2. CASE \E t \in Sessions : Server!CreateSession(t)
    <3>1. /\ session[s] = "none" /\ session'[s] # "none" /\ stage' = stage
          /\ call[c].kind = "create"
      BY <1>2, <2>2 DEF OneSession, ServerTyped, Server!CreateSession, ServeCreate, Sent
    <3>2. /\ stage[s] = "absent" /\ stopped
          /\ \A d \in Slots : ~Created(d) /\ call[d].kind \notin {"watch", "import"}
      BY <3>1
    <3>3. \A d \in Slots : /\ call'[d].kind = call[d].kind
                           /\ d # c => call'[d] = call[d]
      BY <1>1
    <3>. QED
      BY <1>1, <3>1, <3>2, <3>3 DEF page
  <2>. QED
    BY <1>2, <2>1, <2>2 DEF ServeCreate
<1>3. CASE ServeWatch(c)
  BY <1>1, <1>3 DEF ServeWatch, Sent, page
<1>4. CASE ServeImport(c)
  <2>1. /\ call[c].kind = "import" /\ call[c].answer = "none" /\ call[c].sid = s
        /\ stage[s] = "absent" /\ importing /\ stopped /\ session[s] # "none"
    BY <1>4 DEF ServeImport, Sent, SessionsNamed, OneSession
  <2>2. Server!Start(s) /\ Answer(c, "starting")
    BY <1>4, <2>1 DEF ServeImport
  <2>3. /\ stage'[s] = "starting" /\ session' = session /\ call'[c].answer = "starting"
    BY <2>2, AnswerTyped DEF Server!Start, Server!Move, ServerTyped, Answers
  <2>4. \A d \in Slots \ {c} : /\ call'[d] = call[d]
                               /\ call[d].kind \notin {"watch", "import", "follow"}
                               /\ ~Created(d)
    BY <1>1, <2>1 DEF WatchersOnly, OneSession
  <2>5. importId = NoSession
    BY <2>1
  <2>. QED
    BY <1>1, <2>1, <2>3, <2>4, <2>5 DEF page
<1>5. CASE ServeFollow(c)
  <2>1. /\ call[c].kind = "follow" /\ call[c].sid = s /\ UNCHANGED <<session, stage>>
    BY <1>5 DEF ServeFollow, Sent
  <2>2. /\ call'[c].sid = s
        /\ call'[c].answer \in {"done", "error"} => ~Server!Running(s)
    BY <1>5, <2>1, AnswerTyped DEF ServeFollow, Answers
  <2>. QED
    BY <1>1, <2>1, <2>2 DEF page
<1>. QED
  BY <1>2, <1>3, <1>4, <1>5 DEF Serve

LEMMA DeliverSingle ==
    ASSUME IInv, WatchersOnly, OneSession, NEW s \in Sessions, Single(s),
           NEW c \in Slots, Deliver(c)
    PROVE  Single(s)'
<1> USE DEF Single, CreatedFirst, PolledBefore, RequestedOnce, Followed, Busy, Created,
            Server!Running, IInv
<1>1. UNCHANGED <<session, stage>>
  BY DEF Deliver, SessionCreated, CreateFailed, NotPicked, WatchFailed, IgnorePicked,
         ImportPicked, ImportStarted, ImportRefused, StillRunning, ImportDone, ImportLost
<1>2. CASE ImportPicked(c)
  <2>1. /\ call[c].kind = "watch" /\ call[c].sid = s /\ ~stopped
        /\ Send(c, "import", s, FALSE) /\ c \in Watchers
    BY <1>2 DEF ImportPicked, Got, SessionsNamed, OneSession, WatchersOnly
  <2>2. stopped' /\ importing' /\ importId' = importId
    BY <1>2, <2>1 DEF ImportPicked, Stop, SessionsNamed, OneSession
  <2>3. /\ call'[c].kind = "import" /\ call'[c].sid = s /\ call'[c].answer = "none"
        /\ \A d \in Slots \ {c} : call'[d] = call[d]
    BY <2>1, SentCall DEF Kinds
  <2>4. \A d \in Slots \ {c} : call[d].kind \notin {"watch", "import"} /\ ~Created(d)
    BY <2>1 DEF WatchersOnly, OneSession
  <2>. QED
    BY <1>1, <2>1, <2>2, <2>3, <2>4
<1>3. ASSUME EndCall(c)
      PROVE  call'[c].kind = "no" /\ \A d \in Slots \ {c} : call'[d] = call[d]
  BY <1>3, EndCallTyped DEF NoCall
<1>4. CASE SessionCreated(c)
  <2>1. /\ Created(c) /\ importing' = importing /\ importId' = importId
        /\ EndCall(c)
    BY <1>4 DEF SessionCreated, Got
  <2>. QED
    BY <1>1, <1>3, <2>1
<1>5. CASE CreateFailed(c) \/ NotPicked(c) \/ WatchFailed(c) \/ StillRunning(c)
  <2>1. EndCall(c) /\ UNCHANGED <<stopped, importing, importId>>
    BY <1>5 DEF CreateFailed, NotPicked, WatchFailed, StillRunning, page
  <2>. QED
    BY <1>1, <1>3, <2>1
<1>6. CASE IgnorePicked(c)
  <2>1. /\ call[c].kind = "watch" /\ c \in Watchers /\ EndCall(c)
        /\ importing' = importing /\ importId' = importId /\ (stopped => stopped')
    BY <1>6 DEF IgnorePicked, Got, Stop, WatchersOnly
  <2>2. \A d \in Slots \ {c} : call[d].kind \notin {"watch", "import"} /\ ~Created(d)
    BY <2>1 DEF WatchersOnly, OneSession
  <2>. QED
    BY <1>1, <1>3, <2>1, <2>2
<1>7. CASE ImportStarted(c)
  <2>1. /\ call[c].kind = "import" /\ call[c].answer = "ok" /\ EndCall(c)
        /\ importing' = importing /\ stopped' = stopped
    BY <1>7 DEF ImportStarted, Got
  <2>2. stage[s] # "absent"
    BY <2>1
  <2>. QED
    BY <1>1, <1>3, <2>1, <2>2
<1>8. CASE ImportRefused(c)
  <2>1. /\ call[c].kind = "import" /\ call[c].answer = "error" /\ EndCall(c)
        /\ ~Server!Running(s) /\ importId' = importId /\ stopped' = stopped
        /\ c \in Watchers
    BY <1>8 DEF ImportRefused, Got, WatchersOnly
  <2>2. \A d \in Slots \ {c} : call[d].kind # "import"
    BY <2>1 DEF WatchersOnly, OneSession
  <2>. QED
    BY <1>1, <1>3, <2>1, <2>2
<1>9. CASE ImportDone(c) \/ ImportLost(c)
  <2>1. /\ call[c].kind = "follow" /\ call[c].answer \in {"done", "error"} /\ EndCall(c)
        /\ importId' = NoSession /\ (stopped => stopped')
    BY <1>9 DEF ImportDone, ImportLost, Got
  <2>2. stage[s] # "absent" /\ ~Server!Running(s) /\ stopped
    BY <2>1
  <2>. QED
    BY <1>1, <1>3, <2>1, <2>2
<1>. QED
  BY <1>2, <1>4, <1>5, <1>6, <1>7, <1>8, <1>9 DEF Deliver

LEMMA ServerSideSingle ==
    ASSUME IInv, ServerTyped, OneSession, NEW s \in Sessions, Single(s),
           \/ \E t \in Sessions : \/ PickItems(t) \/ DeleteSession(t)
                                  \/ Accept(t) \/ Fail(t) \/ Finish(t)
           \/ UNCHANGED vars
    PROVE  Single(s)'
<1> USE DEF Single, CreatedFirst, PolledBefore, RequestedOnce, Followed, Busy, Created,
            Server!Running, IInv
<1>1. CASE PickItems(s) \/ DeleteSession(s) \/ Finish(s) \/ UNCHANGED vars
  <2>1. /\ UNCHANGED <<page, call>>
        /\ session[s] # "none" => session'[s] # "none"
        /\ \/ stage'[s] = stage[s]
           \/ stage[s] = "going" /\ stage'[s] = "done"
    BY <1>1
    DEF PickItems, DeleteSession, Finish, vars, Server!PickItems, Server!DeleteSession,
        Server!Finish, Server!Move, ServerTyped
  <2>. QED
    BY <2>1 DEF page
<1>2. CASE Accept(s) \/ Fail(s)
  <2>1. PICK a \in {"ok", "error"} :
           /\ Reply(s, a)
           /\ a = "ok" => stage'[s] = "going"
           /\ a = "error" => stage'[s] = "failed"
    BY <1>2 DEF Accept, Fail, Server!Accept, Server!Fail, Server!Move, ServerTyped
  <2>2. stage[s] = "starting" /\ UNCHANGED <<page, session>>
    BY <1>2 DEF Accept, Fail, Server!Accept, Server!Fail, Server!Move
  <2>3. \A c \in Slots :
           /\ call'[c].kind = call[c].kind /\ call'[c].sid = call[c].sid
           /\ call'[c].answer = call[c].answer
              \/ /\ call[c].kind = "import" /\ call[c].answer = "starting"
                 /\ call'[c].answer = a
    <3>1. ASSUME NEW c \in Slots
          PROVE  call'[c].answer = call[c].answer
                 \/ /\ call[c].kind = "import" /\ call[c].answer = "starting"
                    /\ call'[c].answer = a
      <4>1. call[c] \in Calls
        BY DEF TypeOK
      <4>. QED
        BY <2>1, <4>1 DEF Reply, Calls, OnlyImportsWait
    <3>. QED
      BY <2>1, <3>1, ReplyTyped
  <2>. QED
    BY <2>1, <2>2, <2>3 DEF page
<1>. QED
  BY <1>1, <1>2 DEF OneSession

LEMMA NextSingleInv ==
    ASSUME OneSession, IInv, SingleInv, [Next]_vars
    PROVE  SingleInv'
<1>1. ServerTyped'
  BY ServerStep, ServerTypedStep DEF SingleInv
<1>2. WatchersOnly'
  BY WatchersStep DEF SingleInv
<1>3. ASSUME faults' = 0, NEW s \in Sessions
      PROVE  Single(s)'
  <2>1. /\ \A c \in Slots : ~Drop(c)
        /\ ~Crash
    BY <1>3 DEF Drop, Crash, IInv, TypeOK
  <2>2. faults = 0
    <3>1. CASE UNCHANGED vars
      BY <1>3, <3>1 DEF vars
    <3>2. ASSUME NEW c \in Slots,
                 \/ StartPicker(c) \/ PollSession(c) \/ PollImport(c)
                 \/ Serve(c) \/ Deliver(c)
          PROVE  faults = 0
      BY <1>3, <3>2
      DEF StartPicker, PollSession, PollImport, Serve, ServeCreate, ServeWatch,
          ServeImport, ServeFollow, Deliver, SessionCreated, CreateFailed, NotPicked,
          WatchFailed, IgnorePicked, ImportPicked, ImportStarted, ImportRefused,
          StillRunning, ImportDone, ImportLost
    <3>3. ASSUME NEW t \in Sessions,
                 \/ PickItems(t) \/ DeleteSession(t)
                 \/ Accept(t) \/ Fail(t) \/ Finish(t)
          PROVE  faults = 0
      BY <1>3, <3>3 DEF PickItems, DeleteSession, Accept, Fail, Finish
    <3>. QED
      BY <2>1, <3>1, <3>2, <3>3 DEF Next
  <2>3. Single(s) /\ \A t \in Sessions : t = s
    BY <2>2 DEF SingleInv, OneSession
  <2>. QED
    BY <2>1, <2>3, SendSingle, ServeSingle, DeliverSingle, ServerSideSingle
    DEF Next, SingleInv
<1>. QED
  BY <1>1, <1>2, <1>3 DEF SingleInv

\* The button is disabled while an import runs: with one session, polled one call at a
\* time, any number of clicks and of polls of the import, and no call that fails on its
\* way.  It fails when polls of a session overlap.
THEOREM BusyForOne == ASSUME OneSession PROVE Spec => []BusyWhileRunning
<1>1. IInv /\ SingleInv /\ [Next]_vars => SingleInv'
  BY NextSingleInv
<1>2. SingleInv => BusyWhileRunning
  BY DEF SingleInv, Single, Busy, BusyWhileRunning
<1>. QED
  BY <1>1, <1>2, InitSingleInv, Inductive, PTL DEF Spec

-----------------------------------------------------------------------------
(* A session is imported once: any number of sessions, calls and faults, but the *)
(* polls of sessions do not overlap.                                             *)

OnePoll == \A v, w \in Watchers : v = w

Importing(s) == {c \in Slots : call[c].kind = "import" /\ call[c].sid = s}

\* The page is through with s: it has been created, is not polled, and no poll of it and
\* no answer that brings it is on the way.
Handled(s) ==
    /\ session[s] # "none"
    /\ pickerSession = s => stopped
    /\ \A c \in Slots : call[c].sid = s => ~Created(c) /\ call[c].kind # "watch"

\* A session is handled when its import is requested, stays so, and is then never
\* requested again: what the user picks is imported at most once, whatever fails.
RequestedAtMostOnce ==
    [][\A s \in Sessions :
          /\ Importing(s)' \subseteq Importing(s) \/ Handled(s)'
          /\ Handled(s) => Handled(s)' /\ Importing(s)' \subseteq Importing(s)]_vars

\* The answer that brings a session comes before all polls of it, and there is one.
BroughtOnce ==
    /\ \A s \in Sessions : pickerSession = s => session[s] # "none"
    /\ \A c \in Slots : call[c].kind = "watch" \/ Created(c) =>
          call[c].sid \in Sessions /\ session[call[c].sid] # "none"
    /\ \A c \in Slots : Created(c) =>
          /\ pickerSession # call[c].sid
          /\ \A d \in Slots \ {c} : call[d].sid = call[c].sid =>
                ~Created(d) /\ call[d].kind # "watch"

OnceInv == ServerTyped /\ WatchersOnly /\ BroughtOnce

\* What a step does to the calls and to what is polled, in six forms.
Others(c)  == \A d \in Slots \ {c} : call'[d] = call[d]
Quiet      == /\ UNCHANGED <<pickerSession, stopped>>
              /\ \A d \in Slots : /\ call'[d].kind = call[d].kind
                                  /\ call'[d].sid = call[d].sid
                                  /\ Created(d)' => Created(d)
Ends(c)    == /\ Others(c) /\ call'[c].kind = "no"
              /\ stopped => stopped'
              /\ pickerSession' = pickerSession \/ pickerSession' = NoSession
Sends(c)   == /\ Others(c) /\ UNCHANGED <<pickerSession, stopped>>
              /\ call'[c].answer = "none"
              /\ \/ call'[c].kind \in {"create", "follow"}
                 \/ /\ call'[c].kind = "watch" /\ call'[c].sid = pickerSession
                    /\ ~stopped
Creates(c) == /\ Others(c) /\ UNCHANGED <<pickerSession, stopped>>
              /\ call'[c].kind = "create" /\ call'[c].sid \in Sessions
              /\ session[call'[c].sid] = "none" /\ session'[call'[c].sid] # "none"
Opens(c)   == /\ Others(c) /\ call'[c].kind = "no"
              /\ Created(c) /\ pickerSession' = call[c].sid
Asks(c)    == /\ Others(c) /\ call[c].kind = "watch"
              /\ call'[c].kind = "import" /\ call'[c].sid = call[c].sid
              /\ UNCHANGED pickerSession /\ stopped' = (stopped \/ call[c].sid = pickerSession)

LEMMA StepForms ==
    ASSUME IInv, ServerTyped, [Next]_vars
    PROVE  \/ Quiet
           \/ \E c \in Slots : \/ Ends(c) \/ Sends(c) \/ Creates(c)
                               \/ Opens(c) \/ Asks(c)
<1>1. ASSUME NEW c \in Slots, StartPicker(c) \/ PollSession(c) \/ PollImport(c)
      PROVE  Sends(c)
  <2>1. PICK k \in Kinds, s \in Sessions \cup {NoSession}, b \in BOOLEAN :
           /\ Send(c, k, s, b) /\ UNCHANGED <<pickerSession, stopped>>
           /\ \/ k \in {"create", "follow"}
              \/ k = "watch" /\ s = pickerSession /\ ~stopped
    <3>1. CASE StartPicker(c)
      BY <3>1 DEF StartPicker, Kinds
    <3>2. CASE PollSession(c)
      BY <3>2 DEF PollSession, Kinds, IInv, TypeOK, page
    <3>3. CASE PollImport(c)
      BY <3>3 DEF PollImport, Kinds, IInv, TypeOK, page
    <3>. QED
      BY <1>1, <3>1, <3>2, <3>3
  <2>2. /\ call'[c].kind = k /\ call'[c].sid = s /\ call'[c].answer = "none"
        /\ \A d \in Slots \ {c} : call'[d] = call[d]
    BY <2>1, SentCall
  <2>. QED
    BY <2>1, <2>2 DEF Sends, Others
<1>2. ASSUME NEW c \in Slots, ServeCreate(c), ~Answer(c, "error")
      PROVE  Creates(c)
  <2>1. PICK s \in Sessions :
           /\ Server!CreateSession(s)
           /\ call' = [call EXCEPT ![c].sid = s, ![c].answer = "ok"]
    BY <1>2 DEF ServeCreate
  <2>2. call \in [Slots -> Calls] /\ call[c] \in Calls /\ call[c].kind = "create"
    BY <1>2 DEF IInv, TypeOK, ServeCreate, Sent
  <2>3. Others(c) /\ call'[c].kind = "create" /\ call'[c].sid = s
    BY <2>1, <2>2 DEF Others, Calls
  <2>4. session[s] = "none" /\ session'[s] # "none"
    BY <2>1 DEF Server!CreateSession, ServerTyped
  <2>. QED
    BY <1>2, <2>3, <2>4 DEF Creates, ServeCreate, page
<1>3. ASSUME NEW c \in Slots, Serve(c) \/ Drop(c), ~ServeCreate(c) \/ Answer(c, "error")
      PROVE  Quiet
  <2>1. PICK a \in Answers : Answer(c, a) /\ (Created(c) \/ a # "ok" \/ call[c].kind # "create")
    BY <1>3 DEF Serve, ServeCreate, ServeWatch, ServeImport, ServeFollow, Drop, Answers,
                Sent
  <2>2. /\ call'[c].kind = call[c].kind /\ call'[c].sid = call[c].sid
        /\ call'[c].answer = a /\ \A d \in Slots \ {c} : call'[d] = call[d]
    BY <2>1, AnswerTyped DEF IInv
  <2>3. UNCHANGED <<pickerSession, stopped>>
    BY <1>3 DEF Serve, ServeCreate, ServeWatch, ServeImport, ServeFollow, Drop, page
  <2>. QED
    BY <2>1, <2>2, <2>3 DEF Quiet, Created
<1>4. ASSUME NEW c \in Slots, SessionCreated(c)
      PROVE  Opens(c)
  BY <1>4, EndCallTyped DEF SessionCreated, Got, Opens, Others, Created, NoCall, IInv
<1>5. ASSUME NEW c \in Slots, ImportPicked(c)
      PROVE  Asks(c)
  <2>1. /\ call[c].kind = "watch" /\ call[c].sid \in Sessions
        /\ Send(c, "import", call[c].sid, FALSE)
    BY <1>5 DEF ImportPicked, Got, IInv, SessionsNamed
  <2>2. /\ call'[c].kind = "import" /\ call'[c].sid = call[c].sid
        /\ call'[c].answer = "none" /\ \A d \in Slots \ {c} : call'[d] = call[d]
    BY <2>1, SentCall DEF Kinds
  <2>. QED
    BY <1>5, <2>1, <2>2 DEF ImportPicked, Stop, Asks, Others
<1>6. ASSUME NEW c \in Slots, Deliver(c), ~SessionCreated(c), ~ImportPicked(c)
      PROVE  Ends(c)
  <2>0. stopped \in BOOLEAN
    BY DEF IInv, TypeOK
  <2>1. /\ EndCall(c) /\ (stopped => stopped')
        /\ pickerSession' = pickerSession \/ pickerSession' = NoSession
    BY <1>6, <2>0
    DEF Deliver, CreateFailed, NotPicked, WatchFailed, IgnorePicked, ImportStarted,
        ImportRefused, StillRunning, ImportDone, ImportLost, Stop, page
  <2>. QED
    BY <2>1, EndCallTyped DEF Ends, Others, NoCall, IInv
<1>7. ASSUME \/ \E s \in Sessions : \/ PickItems(s) \/ DeleteSession(s)
                                    \/ Accept(s) \/ Fail(s) \/ Finish(s)
             \/ Crash
             \/ UNCHANGED vars
      PROVE  Quiet
  <2>1. UNCHANGED <<pickerSession, stopped>>
    BY <1>7 DEF PickItems, DeleteSession, Accept, Fail, Finish, Crash, vars, page
  <2>2. /\ \A c \in Slots : call'[c].kind = call[c].kind /\ call'[c].sid = call[c].sid
        /\ \A c \in Slots : call'[c].answer # call[c].answer =>
              /\ call'[c].answer # "starting"
              /\ call[c].answer = "starting" \/ call'[c].answer # "ok"
    BY <1>7, ServerSideCalls
  <2>. QED
    BY <2>1, <2>2 DEF Quiet, Created, IInv, OnlyImportsWait
<1>. QED
  BY <1>1, <1>2, <1>3, <1>4, <1>5, <1>6, <1>7 DEF Next

\* A session that has been created stays so.
LEMMA SessionsKept ==
    ASSUME ServerTyped, [Server!Next]_(Server!vars), NEW s \in Sessions, session[s] # "none"
    PROVE  session'[s] # "none"
  BY DEF ServerTyped, Server!Next, Server!vars, Server!CreateSession, Server!PickItems,
         Server!DeleteSession, Server!Start, Server!Accept, Server!Fail, Server!Finish,
         Server!Move, Server!Forget

LEMMA NextOnceInv ==
    ASSUME IInv, OnceInv, [Next]_vars
    PROVE  OnceInv'
<1>1. ServerTyped' /\ WatchersOnly'
  BY ServerStep, ServerTypedStep, WatchersStep DEF OnceInv
<1>2. \A s \in Sessions : session[s] # "none" => session'[s] # "none"
  BY ServerStep, SessionsKept DEF OnceInv
<1>3. /\ NoSession \notin Sessions /\ pickerSession \in Sessions \cup {NoSession}
      /\ ~stopped => pickerSession \in Sessions
  BY PickerPageAssumption DEF PickerPageAssumption, IInv, TypeOK, SessionsNamed
<1> USE DEF BroughtOnce, Created
<1>4. ASSUME Quiet PROVE BroughtOnce'
  BY <1>2, <1>4 DEF Quiet, OnceInv
<1>5. ASSUME NEW c \in Slots, Ends(c) PROVE BroughtOnce'
  BY <1>2, <1>3, <1>5 DEF Ends, Others, OnceInv
<1>6. ASSUME NEW c \in Slots, Sends(c) PROVE BroughtOnce'
  BY <1>2, <1>3, <1>6 DEF Sends, Others, OnceInv
<1>7. ASSUME NEW c \in Slots, Creates(c) PROVE BroughtOnce'
  BY <1>2, <1>7 DEF Creates, Others, OnceInv
<1>8. ASSUME NEW c \in Slots, Opens(c) PROVE BroughtOnce'
  BY <1>2, <1>8 DEF Opens, Others, OnceInv
<1>9. ASSUME NEW c \in Slots, Asks(c) PROVE BroughtOnce'
  BY <1>2, <1>9 DEF Asks, Others, OnceInv
<1>10. BroughtOnce'
  BY <1>4, <1>5, <1>6, <1>7, <1>8, <1>9, StepForms DEF OnceInv
<1>. QED
  BY <1>1, <1>10 DEF OnceInv

\* The page asks for the import of a session once, if a poll is answered before the next
\* is sent: without OnePoll, two polls that both see the selection ask twice.
THEOREM ImportedOnce == ASSUME OnePoll PROVE Spec => RequestedAtMostOnce
<1>1. Init => OnceInv
  <2>1. ASSUME Init PROVE \A c \in Slots : call[c].kind = "no"
    BY <2>1 DEF Init, NoCall
  <2>. QED
    BY <2>1, PickerPageAssumption
    DEF Init, Server!Init, OnceInv, ServerTyped, WatchersOnly, BroughtOnce, Created,
        PickerPageAssumption
<1>2. IInv /\ OnceInv /\ [Next]_vars => OnceInv'
  BY NextOnceInv
<1>3. ASSUME IInv, OnceInv, [Next]_vars, NEW s \in Sessions
      PROVE  /\ Importing(s)' \subseteq Importing(s) \/ Handled(s)'
             /\ Handled(s) => Handled(s)' /\ Importing(s)' \subseteq Importing(s)
  <2>1. session[s] # "none" => session'[s] # "none"
    BY <1>3, ServerStep, SessionsKept DEF OnceInv
  <2> USE DEF Importing, Handled, Created
  <2>2. CASE Quiet
    BY <2>1, <2>2 DEF Quiet
  <2>3. ASSUME NEW c \in Slots, Ends(c) \/ Sends(c) \/ Creates(c) \/ Opens(c)
        PROVE  Importing(s)' \subseteq Importing(s)
    BY <2>3 DEF Ends, Sends, Creates, Opens, Others
  <2>4. ASSUME NEW c \in Slots, Ends(c) \/ Sends(c) \/ Creates(c) \/ Opens(c), Handled(s)
        PROVE  Handled(s)'
    <3>1. NoSession # s
      BY PickerPageAssumption DEF PickerPageAssumption
    <3>2. CASE Ends(c)
      BY <2>1, <2>4, <3>1, <3>2 DEF Ends, Others
    <3>3. CASE Sends(c)
      BY <2>1, <2>4, <3>3 DEF Sends, Others
    <3>4. CASE Creates(c)
      BY <2>1, <2>4, <3>4 DEF Creates, Others
    <3>5. CASE Opens(c)
      BY <2>1, <2>4, <3>5 DEF Opens, Others
    <3>. QED
      BY <2>4, <3>2, <3>3, <3>4, <3>5
  <2>5. ASSUME NEW c \in Slots, Asks(c)
        PROVE  /\ Importing(s)' \subseteq Importing(s) \/ Handled(s)'
               /\ Handled(s) => Handled(s)' /\ Importing(s)' \subseteq Importing(s)
    <3>1. CASE call[c].sid = s
      <4>1. \A d \in Slots \ {c} : call[d].kind # "watch"
        BY <1>3, <2>5 DEF OnceInv, WatchersOnly, OnePoll, Asks
      <4>2. session[s] # "none" /\ \A d \in Slots \ {c} : call[d].sid = s => ~Created(d)
        BY <1>3, <2>5, <3>1 DEF OnceInv, BroughtOnce, Asks
      <4>3. Handled(s)'
        BY <2>1, <2>5, <3>1, <4>1, <4>2 DEF Asks, Others
      <4>. QED
        BY <2>5, <3>1, <4>3 DEF Asks
    <3>2. CASE call[c].sid # s
      <4>1. Importing(s)' \subseteq Importing(s)
        BY <2>5, <3>2 DEF Asks, Others
      <4>2. Handled(s) => Handled(s)'
        BY <2>1, <2>5, <3>2 DEF Asks, Others
      <4>. QED
        BY <4>1, <4>2
    <3>. QED
      BY <3>1, <3>2
  <2>. QED
    BY <1>3, <2>2, <2>3, <2>4, <2>5, StepForms DEF OnceInv
<1>4. IInv /\ OnceInv /\ [Next]_vars =>
          [\A s \in Sessions :
              /\ Importing(s)' \subseteq Importing(s) \/ Handled(s)'
              /\ Handled(s) => Handled(s)' /\ Importing(s)' \subseteq Importing(s)]_vars
  BY <1>3
<1>. QED
  BY <1>1, <1>2, <1>4, Inductive, PTL DEF Spec, RequestedAtMostOnce

=============================================================================
