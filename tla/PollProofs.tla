------------------------------ MODULE PollProofs ------------------------------
(***************************************************************************)
(* Proofs about Poll, for any number of attempts of a query.                *)
(***************************************************************************)
EXTENDS Poll, Ranks, TLAPS

\* What is known of a wait: an answer under way, and the one a request under way
\* will get, is a state the portal has been in since the attempt began, a query
\* that goes on has stored nothing for its caller and has attempts left, and a
\* wait that goes on has no outcome.
Truthful ==
  /\ answer \in States => answer \in held
  /\ flying => state \in held
  /\ phase \in {"query", "ready", "asking", "backoff"} => result = None
  /\ phase \in {"query", "ready", "backoff"} => tries < Attempts
  /\ phase # "done" => outcome = None

IInv == TypeOK /\ Truthful /\ SettledIsCurrent

-----------------------------------------------------------------------------
(* The waits. *)

LEMMA PossibleStates == \A w \in Waits : Possible(w) \subseteq States
<1> SUFFICES ASSUME NEW w \in Waits PROVE Possible(w) \subseteq States
  OBVIOUS
<1>1. w.kind \in {"ssl", "website", "dns", "ipns"}
  BY DEF Waits, WaitForSSLStatusReady, WaitForWebsiteStatus, WaitForDNSValidation,
         WaitForIPNSResolution
<1> QED BY <1>1 DEF Possible, States

LEMMA SettledStates == \A w \in Waits : w.settled \subseteq States
  BY DEF Waits, States, WaitForSSLStatusReady, WaitForWebsiteStatus,
         WaitForDNSValidation, WaitForIPNSResolution

LEMMA NotAStatus == {None, "error", "refused"} \intersect States = {}
  BY DEF States, None

LEMMA InitIInv == Init => IInv
<1> SUFFICES ASSUME Init PROVE IInv
  OBVIOUS
<1>1. state \in States /\ held \subseteq States
  BY PossibleStates DEF Init
<1>2. TypeOK
  <2>1. tries \in 0..Attempts
    BY AttemptsAssumption DEF Init
  <2>2. wait \in Waits /\ delayed \in BOOLEAN /\ flying \in BOOLEAN
    BY DEF Init
  <2>3. cancelled \in BOOLEAN /\ expired \in BOOLEAN /\ ticked \in BOOLEAN
    BY DEF Init
  <2>4. phase = "call" /\ result = None /\ answer = None /\ outcome = None /\ value = None
    BY DEF Init
  <2> QED BY <1>1, <2>1, <2>2, <2>3, <2>4 DEF TypeOK
<1>3. Truthful /\ SettledIsCurrent
  BY NotAStatus DEF Init, Truthful, SettledIsCurrent, None
<1> QED BY <1>2, <1>3 DEF IInv

-----------------------------------------------------------------------------
(* What concludes a query keeps the invariant. *)

\* The part of the invariant about how a call stands.
Standing ==
  /\ phase \in {"call", "delay", "query", "ready", "asking", "backoff", "select", "done"}
  /\ outcome \in {None, "settled", "failed", "context", "delay"}
  /\ value \in States \union {None}
  /\ phase # "done" => outcome = None
  /\ SettledIsCurrent

LEMMA EndStands ==
  ASSUME NEW o \in {"failed", "context", "delay"}, End(o, None)
  PROVE  Standing' /\ phase' = "done"
  BY DEF End, Standing, SettledIsCurrent, None

\* A conclusion from a status that was true since the attempt began.
LEMMA ConcludeStands ==
  ASSUME Standing, phase # "done", wait \in Waits, UNCHANGED held,
         NEW v \in held, Conclude(v)
  PROVE  Standing' /\ phase' \in {"select", "done"}
<1>1. CASE End("failed", None)
  BY <1>1, EndStands
<1>2. CASE v \in wait.settled /\ End("settled", v)
  BY <1>2, SettledStates DEF End, Standing, SettledIsCurrent, None
<1>3. CASE phase' = "select" /\ UNCHANGED <<outcome, value>>
  BY <1>3 DEF Standing, SettledIsCurrent, None
<1> QED BY <1>1, <1>2, <1>3 DEF Conclude

LEMMA FailureStands ==
  ASSUME NEW o \in {"failed", "context"}, Standing, phase # "done", wait \in Waits,
         UNCHANGED held, result' # None => result' \in held, QueryFailed(o)
  PROVE  Standing' /\ phase' \in {"select", "done"}
<1>1. CASE End(o, None)
  BY <1>1, EndStands
<1>2. CASE result' # None /\ Conclude(result')
  <2>1. result' \in held
    BY <1>2
  <2>2. Conclude(result')
    BY <1>2
  <2> QED BY <2>1, <2>2, ConcludeStands
<1> QED BY <1>1, <1>2 DEF QueryFailed

LEMMA RetryStands ==
  ASSUME Standing, phase # "done", wait \in Waits, UNCHANGED held,
         result' = None, Retry
  PROVE  Standing' /\ phase' \in {"select", "done", "backoff"}
<1>1. CASE phase' = "backoff" /\ UNCHANGED <<outcome, value>>
  BY <1>1 DEF Standing, SettledIsCurrent, None
<1>2. CASE QueryFailed("failed")
  BY <1>2, FailureStands
<1> QED BY <1>1, <1>2 DEF Retry

-----------------------------------------------------------------------------
(* The steps. *)

\* What a step of the call leaves to show once its standing is settled.
Rest ==
  /\ tries \in 0..Attempts
  /\ result \in States \union {None}
  /\ flying \in BOOLEAN /\ answer \in States \union {None, "error", "refused"}
  /\ answer \in States => answer \in held
  /\ flying => state \in held
  /\ phase \in {"query", "ready", "asking", "backoff"} => result = None
  /\ phase \in {"query", "ready", "backoff"} => tries < Attempts
  /\ held \subseteq States

Others ==
  /\ wait \in Waits /\ delayed \in BOOLEAN
  /\ cancelled \in BOOLEAN /\ expired \in BOOLEAN /\ ticked \in BOOLEAN
  /\ state \in States

LEMMA Parts == IInv <=> Standing /\ Rest /\ Others
  BY DEF IInv, TypeOK, Truthful, Standing, Rest, Others

LEMMA PartsNext == IInv' <=> Standing' /\ Rest' /\ Others'
  BY DEF IInv, TypeOK, Truthful, Standing, Rest, Others, SettledIsCurrent

LEMMA CallKeeps ==
  ASSUME IInv, Call \/ InitialDelay \/ SelectDone \/ SelectTick
  PROVE  IInv'
<1> USE Parts
<1>1. Others'
  BY DEF Others, Call, InitialDelay, SelectDone, SelectTick, clockVars
<1>2. UNCHANGED <<flying, answer, held, state>>
  BY DEF Call, InitialDelay, SelectDone, SelectTick
<1>3. CASE BeginPoll /\ UNCHANGED <<outcome, value>> /\ phase # "done"
  <2>1. Standing'
    BY <1>2, <1>3 DEF BeginPoll, Standing, SettledIsCurrent
  <2>2. Rest'
    BY <1>2, <1>3, AttemptsAssumption DEF BeginPoll, Rest
  <2> QED BY <1>1, <2>1, <2>2, PartsNext
<1>4. CASE phase' = "delay" /\ UNCHANGED <<outcome, value, tries, result>> /\ phase # "done"
  BY <1>1, <1>2, <1>4, PartsNext DEF Standing, Rest, SettledIsCurrent
<1>5. CASE \E o \in {"context", "delay"} : End(o, None) /\ UNCHANGED <<tries, result>>
  BY <1>1, <1>2, <1>5, EndStands, PartsNext DEF Rest
<1> QED BY <1>3, <1>4, <1>5 DEF Call, InitialDelay, SelectDone, SelectTick

LEMMA QueryKeeps ==
  ASSUME IInv, Look \/ Attempt \/ Break \/ Wake
  PROVE  IInv'
<1> USE Parts
<1>1. Others'
  BY DEF Others, Look, Attempt, Break, Wake, clockVars
<1>2. CASE Look
  <2>1. result' = None /\ UNCHANGED <<held, state, flying, answer, tries>> /\ phase = "query"
    BY <1>2 DEF Look, Rest
  <2>2. CASE QueryFailed("context")
    <3>1. Standing' /\ phase' \in {"select", "done"}
      BY <2>1, <2>2, FailureStands DEF Others
    <3> QED BY <1>1, <2>1, <3>1, PartsNext DEF Rest
  <2>3. CASE phase' = "ready" /\ UNCHANGED <<outcome, value>>
    <3>1. Standing'
      BY <2>1, <2>3 DEF Standing, SettledIsCurrent
    <3>2. Rest'
      BY <2>1, <2>3 DEF Rest
    <3> QED BY <1>1, <3>1, <3>2, PartsNext
  <2> QED BY <1>2, <2>2, <2>3 DEF Look
<1>3. CASE Attempt
  <2>1. Standing'
    <3>1. outcome = None /\ UNCHANGED <<outcome, value>> /\ phase' = "asking"
      BY <1>3 DEF Attempt, Standing
    <3> QED BY <3>1 DEF Standing, SettledIsCurrent, None
  <2>2. Rest'
    <3>1. flying' \in BOOLEAN
      BY <1>3 DEF Attempt, QueryDone
    <3>2. tries' \in 0..Attempts
      BY <1>3, AttemptsAssumption DEF Attempt, Rest
    <3>3. held' \subseteq States /\ state' \in held' /\ answer' = None /\ phase' = "asking"
      BY <1>3 DEF Attempt, Others
    <3>4. result' = None
      BY <1>3 DEF Attempt, Rest
    <3> QED BY <3>1, <3>2, <3>3, <3>4, NotAStatus DEF Rest
  <2> QED BY <1>1, <2>1, <2>2, PartsNext
<1>4. CASE Break
  <2>1. result' = None /\ UNCHANGED <<held, tries>> /\ phase # "done"
    BY <1>4 DEF Break, Rest
  <2>2. Standing' /\ phase' \in {"select", "done", "backoff"}
    BY <1>4, <2>1, RetryStands DEF Break, Others
  <2>3. phase' = "backoff" => tries < Attempts
    BY <1>4, <2>1, FailureStands DEF Break, Retry, Others
  <2>4. flying' = FALSE /\ answer' = None
    BY <1>4 DEF Break
  <2> QED BY <1>1, <2>1, <2>2, <2>3, <2>4, NotAStatus, PartsNext DEF Rest
<1>5. CASE Wake
  <2>1. result' = None /\ UNCHANGED <<held, state, flying, answer, tries>> /\ phase = "backoff"
    BY <1>5 DEF Wake, Rest
  <2>2. CASE QueryFailed("context")
    <3>1. Standing' /\ phase' \in {"select", "done"}
      BY <2>1, <2>2, FailureStands DEF Others
    <3> QED BY <1>1, <2>1, <3>1, PartsNext DEF Rest
  <2>3. CASE phase' = "ready" /\ UNCHANGED <<outcome, value>>
    <3>1. Standing'
      BY <2>1, <2>3 DEF Standing, SettledIsCurrent
    <3>2. Rest'
      BY <2>1, <2>3 DEF Rest
    <3> QED BY <1>1, <3>1, <3>2, PartsNext
  <2> QED BY <1>5, <2>2, <2>3 DEF Wake
<1> QED BY <1>2, <1>3, <1>4, <1>5

LEMMA ReceiveKeeps == ASSUME IInv, Receive PROVE IInv'
<1> USE Parts
<1>1. Others'
  BY DEF Others, Receive, clockVars
<1>2. phase = "asking" /\ answer # None /\ answer' = None /\ result = None
      /\ UNCHANGED <<held, state, tries, flying>>
  BY DEF Receive, Rest
<1>3. CASE answer = "error"
  <2>1. result' = None /\ Retry
    BY <1>2, <1>3 DEF Receive
  <2>2. Standing' /\ phase' \in {"select", "done", "backoff"}
    BY <1>2, <2>1, RetryStands DEF Others
  <2>3. phase' = "backoff" => tries < Attempts
    BY <1>2, <2>1, FailureStands DEF Retry, Others
  <2> QED BY <1>1, <1>2, <2>1, <2>2, <2>3, NotAStatus, PartsNext DEF Rest
<1>4. CASE answer \in {"refused", "gone"}
  <2>1. QueryFailed("failed") /\ result' \in {None, "gone"} /\ (result' # None => result' \in held)
    BY <1>2, <1>4 DEF Receive, Rest, States, None
  <2>2. Standing' /\ phase' \in {"select", "done"}
    BY <1>2, <2>1, FailureStands DEF Others
  <2> QED BY <1>1, <1>2, <2>1, <2>2, NotAStatus, PartsNext DEF Rest, States
<1>5. CASE answer \notin {"error", "refused", "gone"}
  <2>1. Conclude(answer) /\ result' = answer /\ answer \in held /\ answer \in States
    BY <1>2, <1>5 DEF Receive, Rest
  <2>2. Standing' /\ phase' \in {"select", "done"}
    BY <1>2, <2>1, ConcludeStands DEF Others
  <2> QED BY <1>1, <1>2, <2>1, <2>2, NotAStatus, PartsNext DEF Rest
<1> QED BY <1>3, <1>4, <1>5

\* The portal answers with its state as it is, which is held since the attempt.
LEMMA WorldKeeps ==
  ASSUME IInv, Serve \/ Tick \/ Deadline \/ Cancel \/ Change
  PROVE  IInv'
<1> USE Parts
<1>1. CASE Serve
  <2>1. UNCHANGED <<phase, tries, result, outcome, value, state, held>> /\ flying' = FALSE
    BY <1>1 DEF Serve, callVars
  <2>2. answer' \in {"error", "refused"} \/ answer' = state
    BY <1>1 DEF Serve
  <2>3. answer' \in States => answer' \in held
    BY <1>1, <2>2, NotAStatus DEF Serve, Rest
  <2>4. Standing'
    BY <2>1 DEF Standing, SettledIsCurrent
  <2>5. Rest'
    BY <2>1, <2>2, <2>3 DEF Rest, Others
  <2>6. Others'
    BY <1>1 DEF Others, Serve, clockVars
  <2> QED BY <2>4, <2>5, <2>6, PartsNext
<1>2. CASE Tick \/ Deadline \/ Cancel
  <2>1. UNCHANGED <<callVars, flying, answer, state, held>>
    BY <1>2 DEF Tick, Deadline, Cancel
  <2>2. Standing'
    BY <2>1 DEF Standing, SettledIsCurrent, callVars
  <2>3. Rest'
    BY <2>1 DEF Rest, callVars
  <2>4. Others'
    BY <1>2 DEF Others, Tick, Deadline, Cancel
  <2> QED BY <2>2, <2>3, <2>4, PartsNext
<1>3. CASE Change
  <2>1. phase # "done" /\ UNCHANGED <<callVars, flying, answer>>
    BY <1>3 DEF Change
  <2>2. state' \in States /\ held' = held \union {state'}
    BY <1>3, PossibleStates DEF Change, Others
  <2>3. Standing'
    BY <2>1, <2>2 DEF Standing, SettledIsCurrent, callVars
  <2>4. Rest'
    BY <2>1, <2>2 DEF Rest, callVars
  <2>5. Others'
    BY <1>3, <2>2 DEF Others, Change, clockVars
  <2> QED BY <2>3, <2>4, <2>5, PartsNext
<1> QED BY <1>1, <1>2, <1>3

LEMMA StutterKeeps == ASSUME IInv, UNCHANGED vars PROVE IInv'
  BY DEF IInv, TypeOK, Truthful, SettledIsCurrent, vars, callVars, clockVars

LEMMA StepIInv == ASSUME IInv, [Next]_vars PROVE IInv'
  BY CallKeeps, QueryKeeps, ReceiveKeeps, WorldKeeps, StutterKeeps DEF Next

-----------------------------------------------------------------------------
(* The theorems. *)

\* What is known of a wait holds however many attempts its queries have.
THEOREM Invariance == Spec => []IInv
  BY InitIInv, StepIInv, PTL DEF Spec

\* The variables of a wait keep to their types; a query in particular makes no
\* attempt beyond those it is allowed.
THEOREM WaitTypes == Spec => []TypeOK
<1>1. IInv => TypeOK
  BY DEF IInv
<1> QED BY <1>1, Invariance, PTL

\* A wait ends in success only with a state the portal has been in since the
\* last attempt of its last query began.
THEOREM SettlesOnCurrent == Spec => []SettledIsCurrent
<1>1. IInv => SettledIsCurrent
  BY DEF IInv
<1> QED BY <1>1, Invariance, PTL

\* Only an attempt puts a request on its way, and not once the context of its
\* query has ended.
LEMMA OnlyAttemptSends ==
  ASSUME TypeOK, [Next]_vars, ~flying, flying'
  PROVE  ~cancelled /\ (wait.kind \in {"ipns", "dns"} => ~expired)
<1>1. flying' # flying
  OBVIOUS
<1>2. Attempt
  BY <1>1 DEF Next, vars, Call, InitialDelay, SelectDone, SelectTick, Look, Break, Wake,
              Receive, Serve, Tick, Deadline, Cancel, Change
<1>3. ~QueryDone
  BY <1>2 DEF Attempt, TypeOK
<1>4. wait.kind \in {"ipns", "dns"} => wait.context = "poll"
  BY DEF TypeOK, Waits, WaitForSSLStatusReady, WaitForWebsiteStatus, WaitForDNSValidation,
         WaitForIPNSResolution
<1> QED BY <1>3, <1>4 DEF QueryDone

\* No request is begun after the caller has cancelled, nor, in the waits whose
\* queries run under the wait's own context, after the deadline.
THEOREM WaitAsksInTime == Spec => NoLateRequest
<1>1. ASSUME TypeOK, [Next]_vars
      PROVE  [~flying /\ flying' => ~cancelled /\ (wait.kind \in {"ipns", "dns"} => ~expired)]_vars
  BY <1>1, OnlyAttemptSends
<1> QED BY <1>1, WaitTypes, PTL DEF Spec, NoLateRequest
-----------------------------------------------------------------------------
(* A query, and the way to it, take finitely many steps.                    *)

\* The steps of the wait but the one that begins another poll.
PollStep ==
  \/ Call \/ InitialDelay \/ SelectDone
  \/ Look \/ Attempt \/ Break \/ Wake \/ Receive

\* The wait has not asked anything yet.
Waiting == IF phase \in {"call", "delay"} THEN 1 ELSE 0

\* The place within an attempt.
Place ==
  CASE phase = "call"    -> 7
    [] phase = "delay"   -> 6
    [] phase = "query"   -> 5
    [] phase = "asking"  -> 4
    [] phase = "backoff" -> 3
    [] phase = "ready"   -> 2
    [] phase = "select"  -> 1
    [] OTHER             -> 0

Rank == <<Waiting, Attempts - tries, Place>>

\* Each step of the wait lowers the rank and the clock, the caller and the portal leave
\* it alone; only a tick that is taken raises it.
RankFalls == [][SelectTick \/ IF PollStep THEN Below(Rank', Rank, 3) ELSE Rank' = Rank]_vars

LEMMA RankTuple == ASSUME TypeOK PROVE Rank \in [1..3 -> Nat]
<1>1. Waiting \in Nat
  BY DEF Waiting
<1>2. Attempts - tries \in Nat
  BY AttemptsAssumption DEF TypeOK
<1>3. Place \in Nat
  BY DEF Place
<1> QED BY <1>1, <1>2, <1>3 DEF Rank

\* Where a query leads leaves the attempts as they are.
LEMMA ConcludeLeads == ASSUME NEW v, Conclude(v) PROVE phase' \in {"select", "done"}
  BY DEF Conclude, End

LEMMA FailureLeads == ASSUME NEW o, QueryFailed(o) PROVE phase' \in {"select", "done"}
  BY ConcludeLeads DEF QueryFailed, End

LEMMA RetryLeads == ASSUME Retry PROVE phase' \in {"backoff", "select", "done"}
  BY FailureLeads DEF Retry

LEMMA PlaceFalls ==
  ASSUME Waiting' = Waiting, tries' = tries, Place' < Place
  PROVE  Below(Rank', Rank, 3)
<1>1. Attempts - tries' = Attempts - tries
  OBVIOUS
<1> QED BY <1>1, BelowOfThree DEF Rank

LEMMA OpeningFalls ==
  ASSUME TypeOK, Call \/ InitialDelay
  PROVE  Below(Rank', Rank, 3)
<1>1. CASE phase = "call" /\ phase' = "delay" /\ UNCHANGED tries
  BY <1>1, PlaceFalls DEF Waiting, Place
<1>2. CASE phase \in {"call", "delay"} /\ phase' \in {"query", "done"}
  <2>1. Waiting' < Waiting
    BY <1>2 DEF Waiting
  <2> QED BY <2>1, BelowOfThree DEF Rank
<1> QED BY <1>1, <1>2 DEF Call, InitialDelay, BeginPoll, End

LEMMA AskingFalls ==
  ASSUME TypeOK, SelectDone \/ Look \/ Break \/ Wake \/ Receive
  PROVE  Below(Rank', Rank, 3)
<1>1. CASE SelectDone
  BY <1>1, PlaceFalls DEF SelectDone, End, Waiting, Place
<1>2. CASE Look
  <2>1. phase = "query" /\ phase' \in {"ready", "select", "done"} /\ tries' = tries
    BY <1>2, FailureLeads DEF Look
  <2> QED BY <2>1, PlaceFalls DEF Waiting, Place
<1>3. CASE Break \/ Receive
  <2>1. phase = "asking" /\ phase' \in {"backoff", "select", "done"} /\ tries' = tries
    BY <1>3, RetryLeads, FailureLeads, ConcludeLeads DEF Break, Receive
  <2> QED BY <2>1, PlaceFalls DEF Waiting, Place
<1>4. CASE Wake
  <2>1. phase = "backoff" /\ phase' \in {"ready", "select", "done"} /\ tries' = tries
    BY <1>4, FailureLeads DEF Wake
  <2> QED BY <2>1, PlaceFalls DEF Waiting, Place
<1> QED BY <1>1, <1>2, <1>3, <1>4

LEMMA AttemptFalls == ASSUME TypeOK, Attempt PROVE Below(Rank', Rank, 3)
<1>1. Waiting' = Waiting
  BY DEF Attempt, Waiting
<1>2. Attempts - tries' < Attempts - tries
  BY AttemptsAssumption DEF Attempt, TypeOK
<1> QED BY <1>1, <1>2, BelowOfThree DEF Rank

\* A wait takes finitely many steps between two ticks (PollUntil, RetryContext
\* under it): together with RanksEnd this is what WaitEnds needs besides the
\* deadline and the fairness of FairSpec.
THEOREM QueriesEnd == Spec => [](Rank \in [1..3 -> Nat]) /\ RankFalls
<1> DEFINE Falls == SelectTick \/ IF PollStep THEN Below(Rank', Rank, 3) ELSE Rank' = Rank
<1>1. TypeOK /\ [Next]_vars => [Falls]_vars
  <2> SUFFICES ASSUME TypeOK, Next, ~SelectTick PROVE Falls
    OBVIOUS
  <2>1. CASE PollStep
    BY <2>1, OpeningFalls, AskingFalls, AttemptFalls DEF PollStep
  <2>2. CASE ~PollStep
    <3>1. UNCHANGED <<phase, tries>>
      BY <2>2 DEF Next, PollStep, Serve, Tick, Deadline, Cancel, Change, callVars
    <3> QED BY <2>2, <3>1 DEF Rank, Waiting, Place
  <2> QED BY <2>1, <2>2
<1>2. TypeOK => Rank \in [1..3 -> Nat]
  BY RankTuple
<1> QED BY <1>1, <1>2, WaitTypes, PTL DEF Spec, RankFalls


=============================================================================
