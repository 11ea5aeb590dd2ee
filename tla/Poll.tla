---------------------------------- MODULE Poll ----------------------------------
(***************************************************************************)
(* One wait for a state of the portal: PollUntil (internal/http/poll.go)    *)
(* under WaitForSSLStatusReady, WaitForWebsiteStatus, WaitForDNSValidation  *)
(* and WaitForIPNSResolution, each poll of which is a status query under    *)
(* the retry loop.  The wait's deadline, its ticker, the caller's context   *)
(* and the portal move independently of it.                                 *)
(*                                                                         *)
(* The two waits that go through WaitForPolledState query with the caller's *)
(* context, the other two with the context that has the deadline            *)
(* (`context`).  How many polls there were and how long they took is left   *)
(* out; the interval is the ticker's, at any speed.                         *)
(***************************************************************************)
EXTENDS Integers

CONSTANT Attempts      \* RetryConfig.Attempts

ASSUME AttemptsAssumption == Attempts \in Nat \ {0}

VARIABLES
  wait,       \* which wait, and what it waits for
  delayed,    \* an initial delay is configured
  phase,      \* where the wait is
  tries,      \* attempts begun by the current query
  result,     \* what the query's closure has stored for its caller
  flying,     \* a request is on its way to the portal
  answer,     \* the portal's answer to it
  cancelled,  \* the caller's context is cancelled
  expired,    \* the deadline has passed
  ticked,     \* the ticker's channel, of capacity one, holds a tick
  outcome,    \* how the wait ended
  value,      \* the settled value it returned
  state,      \* what the portal holds
  held        \* history: what it held since the current attempt began

callVars  == <<phase, tries, result, outcome, value>>
clockVars == <<cancelled, expired, ticked>>
vars == <<wait, delayed, callVars, flying, answer, clockVars, state, held>>

None == "none"

\* "garbled" is a name's value that is no CID; "gone" a website that was
\* deleted, of which the portal's 410 still gives the status.
States == {"pending", "ready", "failed", "gone", "garbled"}

-----------------------------------------------------------------------------
(* The waits: what settles each and the context its queries run under. *)

WaitForSSLStatusReady == [kind |-> "ssl", settled |-> {"ready", "failed"}, context |-> "caller"]
WaitForWebsiteStatus(status) ==
  [kind |-> "website", settled |-> {status}, context |-> "caller"]
WaitForDNSValidation == [kind |-> "dns", settled |-> {"ready"}, context |-> "poll"]

\* Mutant: the closure's context shadowed by nothing, as in WaitForPolledState.
UnboundedResolution(cids) == [kind |-> "ipns", settled |-> cids, context |-> "caller"]

\* Without a CID the expected one does not decode.
WaitForIPNSResolution(cids) == [kind |-> "ipns", settled |-> cids, context |-> "poll"]

Waits ==
  {WaitForSSLStatusReady, WaitForWebsiteStatus("ready"), WaitForWebsiteStatus("gone"),
   WaitForDNSValidation, WaitForIPNSResolution({"ready"}), WaitForIPNSResolution({})}

\* The states the portal's item can be in.
Possible(w) ==
  CASE w.kind = "ssl"     -> {"pending", "ready", "failed", "gone"}
    [] w.kind = "website" -> {"pending", "ready", "gone"}
    [] w.kind = "dns"     -> {"pending", "ready", "gone"}
    [] w.kind = "ipns"    -> {"pending", "ready", "garbled", "gone"}

PollDone == cancelled \/ expired
QueryDone == cancelled \/ (wait.context = "poll" /\ expired)

Init ==
  /\ wait \in Waits /\ delayed \in BOOLEAN
  /\ phase = "call" /\ tries = 0 /\ result = None
  /\ flying = FALSE /\ answer = None
  /\ cancelled = FALSE /\ expired = FALSE /\ ticked = FALSE
  /\ outcome = None /\ value = None
  /\ state \in Possible(wait) /\ held = {state}

-----------------------------------------------------------------------------
(* How a query and the wait end. *)

End(o, v) == phase' = "done" /\ outcome' = o /\ value' = v

\* The query returned a status: ResolvedCid may not decode, and neither may the
\* expected one.
Conclude(v) ==
  IF wait.kind = "ipns" /\ (v = "garbled" \/ wait.settled = {})
    THEN End("failed", None)
  ELSE IF v \in wait.settled
    THEN End("settled", v)
  ELSE phase' = "select" /\ UNCHANGED <<outcome, value>>

\* The query returned an error, which ends the wait.  WaitForWebsiteStatus looks
\* at what Get returned beside it first.
QueryFailed(o) ==
  IF wait.kind = "website" /\ result' # None THEN Conclude(result') ELSE End(o, None)

\* Mutant: one attempt too many.
EagerRetry ==
  IF tries <= Attempts THEN phase' = "backoff" /\ UNCHANGED <<outcome, value>>
                       ELSE QueryFailed("failed")

Retry ==
  IF tries < Attempts THEN phase' = "backoff" /\ UNCHANGED <<outcome, value>>
                      ELSE QueryFailed("failed")

-----------------------------------------------------------------------------
(* PollUntil. *)

BeginPoll == phase' = "query" /\ tries' = 0 /\ result' = None

Call ==
  /\ phase = "call"
  /\ IF delayed THEN phase' = "delay" /\ UNCHANGED <<tries, result>> ELSE BeginPoll
  /\ UNCHANGED <<wait, delayed, outcome, value, flying, answer, clockVars, state, held>>

InitialDelay ==
  /\ phase = "delay"
  /\ \/ BeginPoll /\ UNCHANGED <<outcome, value>>
     \/ PollDone /\ End("delay", None) /\ UNCHANGED <<tries, result>>
  /\ UNCHANGED <<wait, delayed, flying, answer, clockVars, state, held>>

\* Mutant: the loop that looks at the caller's context only.
SelectCancelled ==
  /\ phase = "select" /\ cancelled
  /\ End("context", None)
  /\ UNCHANGED <<wait, delayed, tries, result, flying, answer, clockVars, state, held>>

\* The select of the loop: when both are ready it takes either.
SelectDone ==
  /\ phase = "select" /\ PollDone
  /\ End("context", None)
  /\ UNCHANGED <<wait, delayed, tries, result, flying, answer, clockVars, state, held>>

SelectTick ==
  /\ phase = "select" /\ ticked
  /\ ticked' = FALSE
  /\ BeginPoll
  /\ UNCHANGED <<wait, delayed, outcome, value, flying, answer, cancelled, expired, state,
                 held>>

-----------------------------------------------------------------------------
(* The status query: RetryContext around one request. *)

Look ==
  /\ phase = "query"
  /\ result' = result
  /\ IF QueryDone THEN QueryFailed("context")
                  ELSE phase' = "ready" /\ UNCHANGED <<outcome, value>>
  /\ UNCHANGED <<wait, delayed, tries, flying, answer, clockVars, state, held>>

\* Under a context that has ended the HTTP client sends nothing.
Attempt ==
  /\ phase = "ready"
  /\ phase' = "asking" /\ tries' = tries + 1
  /\ flying' = ~QueryDone /\ answer' = None
  /\ held' = {state}
  /\ UNCHANGED <<wait, delayed, result, outcome, value, clockVars, state>>

\* No answer: the connection broke, the client's timeout passed or the context
\* ended.
Break ==
  /\ phase = "asking"
  /\ flying' = FALSE /\ answer' = None /\ result' = result
  /\ Retry
  /\ UNCHANGED <<wait, delayed, tries, clockVars, state, held>>

Wake ==
  /\ phase = "backoff"
  /\ result' = result
  /\ \/ phase' = "ready" /\ UNCHANGED <<outcome, value>>
     \/ QueryDone /\ QueryFailed("context")
  /\ UNCHANGED <<wait, delayed, tries, flying, answer, clockVars, state, held>>

\* "error": a failure that is retried; "refused": one that is not, like the 404
\* of an item that is gone.  ValidateDNS answers whether the records are valid.
Serve ==
  /\ flying
  /\ flying' = FALSE
  /\ \/ answer' \in {"error", "refused"}
     \/ (state = "gone" => wait.kind = "website") /\ answer' = state
  /\ UNCHANGED <<wait, delayed, callVars, clockVars, state, held>>

\* Mutant: 410 retried like a server error.
ReceiveRetryingGone ==
  /\ phase = "asking" /\ answer # None
  /\ answer' = None
  /\ result' = IF answer \in {"error", "refused"} THEN result ELSE answer
  /\ CASE answer \in {"error", "gone"} -> Retry
       [] answer = "refused"           -> QueryFailed("failed")
       [] OTHER                        -> Conclude(answer)
  /\ UNCHANGED <<wait, delayed, tries, flying, clockVars, state, held>>

Receive ==
  /\ phase = "asking" /\ answer # None
  /\ answer' = None
  /\ result' = IF answer \in {"error", "refused"} THEN result ELSE answer
  /\ CASE answer = "error"               -> Retry
       [] answer \in {"refused", "gone"} -> QueryFailed("failed")
       [] OTHER                          -> Conclude(answer)
  /\ UNCHANGED <<wait, delayed, tries, flying, clockVars, state, held>>

-----------------------------------------------------------------------------
(* The clock, the caller and the portal. *)

Tick ==
  /\ phase \notin {"call", "delay", "done"} /\ ~ticked
  /\ ticked' = TRUE
  /\ UNCHANGED <<wait, delayed, callVars, flying, answer, cancelled, expired, state, held>>

Deadline ==
  /\ phase \notin {"call", "done"} /\ ~expired
  /\ expired' = TRUE
  /\ UNCHANGED <<wait, delayed, callVars, flying, answer, cancelled, ticked, state, held>>

Cancel ==
  /\ phase # "done" /\ ~cancelled
  /\ cancelled' = TRUE
  /\ UNCHANGED <<wait, delayed, callVars, flying, answer, expired, ticked, state, held>>

Change ==
  /\ phase # "done"
  /\ state' \in Possible(wait) \ {state}
  /\ held' = held \union {state'}
  /\ UNCHANGED <<wait, delayed, callVars, flying, answer, clockVars>>

Next ==
  \/ Call \/ InitialDelay \/ SelectDone \/ SelectTick
  \/ Look \/ Attempt \/ Break \/ Wake \/ Receive
  \/ Serve \/ Tick \/ Deadline \/ Cancel \/ Change

Spec == Init /\ [][Next]_vars

\* The client's steps are taken, timers fire, a request that is not answered is
\* given up.  The select picks at random among what is ready, so it does not
\* leave the end of the context aside for ever.
FairSpec ==
  /\ Spec
  /\ WF_vars(Call) /\ WF_vars(InitialDelay) /\ WF_vars(Look) /\ WF_vars(Attempt)
  /\ WF_vars(Break \/ Receive) /\ WF_vars(Wake) /\ WF_vars(Deadline)
  /\ SF_vars(SelectDone)

-----------------------------------------------------------------------------
(* Properties *)

TypeOK ==
  /\ wait \in Waits /\ delayed \in BOOLEAN
  /\ phase \in {"call", "delay", "query", "ready", "asking", "backoff", "select", "done"}
  /\ tries \in 0..Attempts
  /\ result \in States \union {None}
  /\ flying \in BOOLEAN /\ answer \in States \union {None, "error", "refused"}
  /\ cancelled \in BOOLEAN /\ expired \in BOOLEAN /\ ticked \in BOOLEAN
  /\ outcome \in {None, "settled", "failed", "context", "delay"}
  /\ value \in States \union {None}
  /\ state \in States /\ held \subseteq States

\* A wait ends in success only with a state the portal has been in since the
\* last attempt of the last query began: never with one an earlier attempt of the same query
\* left behind in the closure (Get stores the status of a 410, websites.go).
SettledIsCurrent == outcome = "settled" => value \in held

\* A wait that is over asks the portal nothing: no request is begun after the
\* caller has cancelled, nor, where the queries run under the wait's own
\* context (IPNS resolution, DNS validation), after the deadline, although the
\* loop may still take a tick then.
NoLateRequest ==
  [][~flying /\ flying' => ~cancelled /\ (wait.kind \in {"ipns", "dns"} => ~expired)]_vars

\* Every wait ends, also when the portal never settles and the loop is busy
\* with ticks when the deadline passes.
WaitEnds == <>(phase = "done")

=============================================================================
