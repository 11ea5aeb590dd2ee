------------------------------ MODULE ServiceCall ------------------------------
(***************************************************************************)
(* One call of a service operation: RetryContext (internal/http/http.go)    *)
(* around the operation's closure, against a portal that other clients use  *)
(* too, over a network that loses requests and answers and may deliver a    *)
(* request after the call has given it up.                                  *)
(*                                                                         *)
(* ConvertDomainToOnChain is the one operation with a second call inside    *)
(* its closure: an "already on-chain" refusal makes it list the domains,    *)
(* with a retry loop of its own, before it ends the attempt.  `path` says   *)
(* which of the two loops the call is in.                                   *)
(***************************************************************************)
EXTENDS ServiceOperations

CONSTANTS
  Attempts,     \* RetryConfig.Attempts
  Replays       \* bound: times net/http sends requests of a call again

ASSUME AttemptsAssumption == Attempts \in Nat \ {0}
ASSUME ReplaysAssumption == Replays \in Nat

VARIABLES
  op,         \* the operation called
  phase,      \* where the call is
  path,       \* "main", or "list" for the ListDomains inside a conversion
  tries,      \* attempts begun by the call's own loop
  inner,      \* attempts begun by the loop of ListDomains
  cancelled,  \* the caller's context is cancelled
  flying,     \* the request the call waits for has not reached the portal
  stray,      \* requests under way that the call has given up
  replays,    \* times the transport has sent a request again by itself
  answer,     \* the portal's answer to the request the call waits for
  outcome,    \* what the call returned
  item,       \* the portal's item
  applied,    \* history: requests of this call that changed the item
  met,        \* history: one of them found or made the item as asked
  late,       \* history: a request was served after it was given up
  refused,    \* history: the paths on which a listed code ended an attempt
  granted     \* the credential the call returned

loopVars   == <<path, tries, inner>>
netVars    == <<flying, stray, replays, answer>>
portalVars == <<item, applied, met, late>>
vars == <<op, phase, loopVars, cancelled, netVars, outcome, portalVars, refused,
          granted>>

None == [status |-> 0, body |-> "none", cred |-> 0]
\* A body that is no JSON, one that decodes, one that says it is JSON and does
\* not decode, and the refusal that says "already on-chain".
Bodies == {"none", "data", "garbled", "onchain"}
Statuses == {0, 200, 201, 202, 204, 401, 404, 409, 422, 429, 500}

\* What the request of the current path asks for.
Asked == IF path = "list" THEN ListDomains ELSE op
\* Mutant: rotation retried like any other operation.
PlainBudget == Attempts

Budget == IF op.once THEN 1 ELSE Attempts

Init ==
  /\ op \in Operations
  /\ phase = "call" /\ path = "main" /\ tries = 0 /\ inner = 0
  /\ cancelled = FALSE
  /\ flying = FALSE /\ stray = 0 /\ replays = 0 /\ answer = None
  /\ outcome = "none"
  /\ item \in [exists : BOOLEAN, onchain : BOOLEAN, cred : {0}]
  /\ applied = 0 /\ met = FALSE /\ late = FALSE
  /\ refused = {}
  /\ granted = 0

-----------------------------------------------------------------------------
(* The portal. *)

\* What the portal refuses because of the state the item is in.
Misfit(o) ==
  CASE o.effect \in {"list", "append"}                          -> 0
    [] o.effect = "create"                                      -> IF item.exists THEN 409 ELSE 0
    [] o.effect = "convert" /\ item.exists /\ item.onchain      -> 422
    [] OTHER                                                    -> IF item.exists THEN 0 ELSE 404

Effected(o) ==
  CASE o.effect \in {"create", "append"} -> [item EXCEPT !.exists = TRUE]
    [] o.effect = "delete"               -> [item EXCEPT !.exists = FALSE]
    [] o.effect = "convert"              -> [item EXCEPT !.onchain = TRUE]
    [] o.effect = "rotate"               -> [item EXCEPT !.cred = applied + 1]
    [] OTHER                             -> item

Changes(o) == o.effect \notin {"list", "read"}

\* The portal carries a request out; a proxy may still turn its success into
\* a 500, and a success may come without a body the client can parse.  The
\* statuses of success are those the operation or the parser knows.
Perform(o, a) ==
  /\ Misfit(o) = 0
  /\ item' = Effected(o)
  /\ applied' = applied + (IF Changes(o) THEN 1 ELSE 0)
  /\ met' = TRUE
  /\ a.status \in ((o.ok \union o.decodes) \ PinErrors) \union {500}
  /\ a.body \in (IF a.status = 500 THEN {"none"} ELSE {"none", "data", "garbled"})
  /\ a.cred = item'.cred

\* It refuses: for the item's state, for the caller's rights or arguments (401
\* stands for 400, 401, 403, 405 and 410), for its rate, or because it failed.
Refuse(o, a) ==
  /\ \/ a.status = Misfit(o) /\ a.status # 0
     \/ a.status \in {401, 429, 500}
     \/ o.effect = "convert" /\ ~item.onchain /\ a.status = 422
  /\ a.body \in IF o.effect = "convert" /\ a.status = Misfit(o) /\ a.status = 422
                  THEN {"onchain", "garbled"} ELSE {"none", "garbled"}
  /\ a.cred = 0
  /\ met' = \/ met
            \/ a.status = 404 /\ 404 \in o.ok /\ ~item.exists
            \/ a.body = "onchain"
  /\ UNCHANGED <<item, applied>>

Answers == [status : Statuses, body : Bodies, cred : 0..(Attempts + Replays)]

Serve ==
  /\ flying
  /\ flying' = FALSE
  /\ \E a \in Answers :
       /\ Perform(Asked, a) \/ Refuse(Asked, a)
       /\ path = "list" /\ a.body = "data" => item.exists
       /\ answer' = a
  /\ UNCHANGED <<op, phase, loopVars, cancelled, stray, replays, outcome, late, refused,
                 granted>>

\* Only the call's own requests are followed once given up: a late ListDomains
\* changes nothing and nobody hears its answer.
ServeStray ==
  /\ stray > 0
  /\ stray' = stray - 1
  /\ late' = TRUE
  /\ \E a \in Answers : Perform(op, a) \/ Refuse(op, a)
  /\ UNCHANGED <<op, phase, loopVars, cancelled, flying, replays, answer, outcome, refused,
                 granted>>

Lose ==
  /\ \/ flying /\ flying' = FALSE /\ UNCHANGED <<stray, answer>>
     \/ stray > 0 /\ stray' = stray - 1 /\ UNCHANGED <<flying, answer>>
     \/ answer # None /\ answer' = None /\ UNCHANGED <<flying, stray>>
  /\ UNCHANGED <<op, phase, loopVars, cancelled, replays, outcome, portalVars, refused,
                 granted>>

\* Another client creates, deletes or converts the item.
Elsewhere ==
  /\ \/ item' = [item EXCEPT !.exists = ~@]
     \/ item.exists /\ item' = [item EXCEPT !.onchain = TRUE]
  /\ UNCHANGED <<op, phase, loopVars, cancelled, netVars, outcome, applied, met, late,
                 refused, granted>>

-----------------------------------------------------------------------------
(* retry.Do: what follows an attempt. *)

Return(o) ==
  /\ phase' = "done" /\ outcome' = o
  /\ UNCHANGED loopVars

\* Mutant: one attempt too many.
EagerFailMain ==
  /\ path' = "main" /\ inner' = 0 /\ tries' = tries
  /\ IF tries <= Budget THEN phase' = "backoff" /\ outcome' = outcome
                        ELSE phase' = "done" /\ outcome' = "failed"

\* Mutant: the loops share their counter, so ListDomains resets it.
SharedFailMain ==
  /\ path' = "main" /\ inner' = 0
  /\ tries' = IF path = "list" THEN 0 ELSE tries
  /\ IF tries < Budget THEN phase' = "backoff" /\ outcome' = outcome
                       ELSE phase' = "done" /\ outcome' = "failed"

\* The closure returned an error that may be retried.
FailMain ==
  /\ path' = "main" /\ inner' = 0 /\ tries' = tries
  /\ IF tries < Budget THEN phase' = "backoff" /\ outcome' = outcome
                       ELSE phase' = "done" /\ outcome' = "failed"

\* LastErrorOnly: a loop returns its last error without the Unrecoverable
\* mark, so whatever ends ListDomains fails the conversion's attempt as an
\* error that may be retried.
Fail ==
  IF path = "list" /\ inner < Attempts
    THEN phase' = "backoff" /\ UNCHANGED <<outcome, loopVars>>
    ELSE FailMain

\* The closure returned an error marked Unrecoverable.
Stop == IF path = "list" THEN FailMain ELSE Return("refused")

\* Before its first request an operation may return (nothing to do, bad
\* argument), and RetryContext does when the context is already cancelled.
Begin ==
  /\ phase = "call"
  /\ \/ op.early /\ path = "main" /\ Return("early")
     \/ ~cancelled /\ phase' = "ready" /\ UNCHANGED <<outcome, loopVars>>
     \/ cancelled /\ path = "main" /\ Return("cancelled")
     \/ cancelled /\ path = "list" /\ FailMain
  /\ UNCHANGED <<op, cancelled, netVars, portalVars, refused, granted>>

\* The closure runs; under a cancelled context the HTTP client sends nothing.
Attempt ==
  /\ phase = "ready"
  /\ phase' = "wait"
  /\ IF path = "list" THEN inner' = inner + 1 /\ tries' = tries
                      ELSE tries' = tries + 1 /\ inner' = inner
  /\ flying' = ~cancelled
  /\ answer' = None
  /\ UNCHANGED <<op, path, cancelled, stray, replays, outcome, portalVars, refused, granted>>

\* net/http: when a pooled connection breaks before the answer, a GET is sent
\* again on another connection; neither the closure nor its loop is asked.
Replay ==
  /\ phase = "wait" /\ ~cancelled /\ Asked.method = "GET"
  /\ replays < Replays
  /\ replays' = replays + 1
  /\ stray' = stray + (IF flying /\ path = "main" THEN 1 ELSE 0)
  /\ flying' = TRUE /\ answer' = None
  /\ UNCHANGED <<op, phase, loopVars, cancelled, outcome, portalVars, refused, granted>>

\* The HTTP client gives the request up: the connection broke, the client's
\* timeout passed or the context was cancelled.
Break ==
  /\ phase = "wait"
  /\ flying' = FALSE /\ answer' = None
  /\ stray' = stray + (IF flying /\ path = "main" THEN 1 ELSE 0)
  /\ Fail
  /\ UNCHANGED <<op, cancelled, replays, portalVars, refused, granted>>

\* The timer of the back-off against the context; when both are ready select
\* takes either.
Wake ==
  /\ phase = "backoff"
  /\ \/ phase' = "ready" /\ UNCHANGED <<outcome, loopVars>>
     \/ cancelled /\ path = "main" /\ Return("cancelled")
     \/ cancelled /\ path = "list" /\ FailMain
  /\ UNCHANGED <<op, cancelled, netVars, portalVars, refused, granted>>

-----------------------------------------------------------------------------
(* The closure judges the answer. *)

\* Mutant: 409 missing from the unrecoverable codes.
AllButConflict(s) == s \notin {409, 429} /\ s >= 400 /\ s < 500

\* Mutant: the rate limit's exception forgotten.
AllClientErrors(s) == s >= 400 /\ s < 500

\* Mutant: server errors taken for refusals.
AllErrors(s) == s # 429 /\ s >= 400

IsUnrecoverable(s) == s # 429 /\ s >= 400 /\ s < 500

\* Mutant: an answer without a body to read is not looked at.
LaxSuccess(o, a) == o.reads = {} \/ (a.status \in o.reads /\ a.body = "data")

\* The body the closure goes on to read is the client's, or one it decodes
\* itself (handleCreateResponse).
Decoded(o, a) == a.status \in o.decodes \/ o.reparse

\* The generated client fails the call: the closure returns that error as it
\* is, whatever the status says.
Undecodable(o, a) == a.body = "garbled" /\ a.status \in o.decodes

\* handleResponse, then the check that the body was parsed.
Success(o, a) ==
  /\ a.status \in o.ok
  /\ o.reads = {} \/ (a.status \in o.reads /\ a.body = "data" /\ Decoded(o, a))

\* ListDomains needs no body, but without the domain in its list the
\* conversion's attempt fails.
Listed ==
  IF answer.body = "data" THEN Return("ok") ELSE FailMain

\* README.md lists the codes that are not retried (401 stands for those that
\* do not depend on the item); an "already on-chain" 422 is no refusal.
Final == {401, 404, 409, 422}
RefusesNow == /\ answer.status \in Final \ Asked.ok
              /\ answer.body # "onchain"
              /\ ~Undecodable(Asked, answer)

\* Mutant: "already on-chain" is an error like any other 422.
PlainJudge ==
  IF Undecodable(Asked, answer)
    THEN Fail
  ELSE IF Success(Asked, answer)
    THEN IF path = "list" THEN Listed ELSE Return("ok")
  ELSE IF answer.status \notin Asked.ok /\ IsUnrecoverable(answer.status)
    THEN Stop
  ELSE Fail

Judge ==
  IF Undecodable(Asked, answer)
    THEN Fail
  ELSE IF path = "main" /\ op.effect = "convert" /\ answer.body = "onchain"
    THEN phase' = "call" /\ path' = "list" /\ UNCHANGED <<outcome, tries, inner>>
  ELSE IF Success(Asked, answer)
    THEN IF path = "list" THEN Listed ELSE Return("ok")
  ELSE IF answer.status \notin Asked.ok /\ IsUnrecoverable(answer.status)
    THEN Stop
  ELSE Fail

Receive ==
  /\ phase = "wait" /\ answer # None
  /\ answer' = None
  /\ Judge
  /\ refused' = IF RefusesNow THEN refused \union {path} ELSE refused
  /\ granted' = IF outcome' = "ok" THEN answer.cred ELSE granted
  /\ UNCHANGED <<op, cancelled, flying, stray, replays, portalVars>>

Cancel ==
  /\ ~cancelled /\ phase # "done"
  /\ cancelled' = TRUE
  /\ UNCHANGED <<op, phase, loopVars, netVars, outcome, portalVars, refused, granted>>

Next == \/ Begin \/ Attempt \/ Replay \/ Break \/ Wake \/ Receive \/ Cancel
        \/ Serve \/ ServeStray \/ Lose \/ Elsewhere

Spec == Init /\ [][Next]_vars

\* The client's steps are taken, and a request that is not answered is given
\* up (the HTTP client has a timeout).  The portal and the network promise
\* nothing.
FairSpec == Spec /\ WF_vars(Begin) /\ WF_vars(Attempt) /\ WF_vars(Wake)
                 /\ WF_vars(Receive \/ Break)

-----------------------------------------------------------------------------
(* Properties *)

TypeOK ==
  /\ op \in Operations
  /\ phase \in {"call", "ready", "wait", "backoff", "done"}
  /\ path \in {"main", "list"}
  /\ tries \in 0..Attempts /\ inner \in 0..Attempts
  /\ cancelled \in BOOLEAN /\ flying \in BOOLEAN
  /\ stray \in 0..(Attempts + Replays) /\ replays \in 0..Replays
  /\ answer \in Answers
  /\ outcome \in {"none", "ok", "refused", "failed", "cancelled", "early"}
  /\ item \in [exists : BOOLEAN, onchain : BOOLEAN, cred : 0..(Attempts + Replays)]
  /\ applied \in 0..(Attempts + Replays) /\ met \in BOOLEAN /\ late \in BOOLEAN
  /\ refused \subseteq {"main", "list"}
  /\ granted \in 0..(Attempts + Replays)

\* A call that returns no error had its effect (the portal does not redirect it:
\* net/http would follow a 301, 302 or 303 with a GET), or found the item as it was to
\* be: never on the strength of an answer to something else, or of a refusal.
OkMeansDone == outcome = "ok" => met

\* Retrying multiplies what a call does to the portal at most by the attempts
\* it is allowed (one for an operation that must not be repeated) and the times
\* the transport sends a GET again, which only a rotation can feel.
DuplicatesBounded ==
  applied <= Budget + (IF op.method = "GET" THEN replays ELSE 0)

\* A rotation is carried out once at most (the comment of Access,
\* workspace.go: "Restrict rotate requests to a single attempt").
RotatedOnce == op.effect = "rotate" => applied <= 1

\* Access, rotating: the credential handed back is still the valid one, even
\* when the network is slow: no request of the same call rotates it again
\* (the comment of Access, workspace.go), unless the transport replays one.
CredentialStands ==
  op.effect = "rotate" /\ outcome = "ok" /\ replays = 0 => item.cred = granted

\* A success the generated client decoded is a success of the call: no
\* operation looks for its result at another status than the parser left it,
\* fails, and has its request carried out once more.
UnderstoodSucceeds ==
  [][Receive /\ answer.body = "data" /\ answer.status \in Asked.decodes \ PinErrors
       => outcome' = "ok"]_vars

\* After a code the README lists as not retried the call sends no further
\* request of its own.
RefusedStops == [][tries' > tries => "main" \notin refused]_vars

\* Short of a refusal a call does not end in an error with attempts left: a
\* rate limit in particular is always retried.
RetriesSpent ==
  [][outcome = "none" /\ outcome' \in {"refused", "failed"} /\ answer.status \notin Final
       => tries = Budget]_vars

\* A conversion the portal committed is not reported as ineligible: when the
\* retry of a lost answer meets 422 "already on-chain", the call goes on
\* (ConvertDomainToOnChain's comment), as long as requests arrive in order.
ConvertSettles ==
  [][op.effect = "convert" /\ outcome = "none" /\ outcome' = "refused"
       /\ answer.status = 422 => applied = 0 \/ late]_vars

\* Every call returns, whatever the portal and the network do.
CallReturns == <>(phase = "done")

=============================================================================
