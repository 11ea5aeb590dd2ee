----------------------------- MODULE DownloadEngine -----------------------------
(***************************************************************************)
(* Reads of the rate-limited blockstore (internal/download): the meta       *)
(* client's shortcut, the engine's retry loop with its limiter, and the     *)
(* worker pool that runs the requests.                                     *)
(*                                                                         *)
(* A call waits for its task or for its context, whichever comes first; a   *)
(* task it gave up stays in the pool and still writes the variable that the *)
(* call returns.  Task n of a call is the one its n-th attempt submitted.   *)
(***************************************************************************)
EXTENDS Integers, Sequences, FiniteSets

CONSTANTS Callers,    \* goroutines that read a block, one call each
          Sized,      \* a pool size was configured: the blockstore made the pool
          Workers,    \* size of the worker pool
          Attempts,   \* RetryConfig.Attempts (0 is replaced by the default)
          MaxTries    \* attempts of a call: bounds the portal's 429 answers

ASSUME PoolAssumption ==
  /\ Sized \in BOOLEAN
  /\ Workers \in Nat \ {0}
  /\ Attempts \in Nat \ {0}
  /\ MaxTries \in Nat /\ MaxTries >= Attempts

VARIABLES
  limited,    \* a rate limiter is configured
  pool,       \* "open"; after Stop "stopping" and "stopped", or "kept"
  queue,      \* the pool's waiting tasks, each a pair (call, attempt)
  task,       \* per call and attempt: where its task is
  pc,         \* per call: where it is
  tries,      \* per call: attempts begun
  fails,      \* per call: non429Failures
  cancelled,  \* calls whose context has ended
  value,      \* per call: the captured variable (blk, size or exists)
  outcome,    \* per call: what it returned
  got,        \* per call: the value it returned
  word,       \* history: the limiter's last answer to the call
  rated       \* history: the call's last attempt that was answered 429

poolVars == <<pool, queue, task, value>>
callVars == <<pc, tries, fails, outcome, got, word, rated>>
vars == <<limited, poolVars, callVars, cancelled>>

Tries == 1..MaxTries
Busy == {"running", "doomed"}
Results == {"ok", "429", "error"}

Running == {t \in Callers \X Tries : task[t[1]][t[2]] \in Busy}
Resting(c) == pc[c] \in {"idle", "returned"}

Init ==
  /\ limited \in BOOLEAN
  /\ pool = "open" /\ queue = <<>>
  /\ task = [c \in Callers |-> [n \in Tries |-> "none"]]
  /\ pc = [c \in Callers |-> "idle"]
  /\ tries = [c \in Callers |-> 0]
  /\ fails = [c \in Callers |-> 0]
  /\ cancelled = {}
  /\ value = [c \in Callers |-> "zero"]
  /\ outcome = [c \in Callers |-> "none"]
  /\ got = [c \in Callers |-> "zero"]
  /\ word = [c \in Callers |-> "none"]
  /\ rated = [c \in Callers |-> 0]

-----------------------------------------------------------------------------
(* The call *)

Goto(c, place) == pc' = [pc EXCEPT ![c] = place]
Return(c, o) == Goto(c, "returned") /\ outcome' = [outcome EXCEPT ![c] = o]

\* GetSize and Has return when the meta client answers, without limiter or
\* pool; Get takes only the size from it.  retry.Do looks at the context first.
Call(c) ==
  /\ pc[c] = "idle" /\ pool \in {"open", "kept"}
  /\ \/ Return(c, "meta")
     \/ c \notin cancelled /\ Goto(c, "allow") /\ UNCHANGED outcome
     \/ c \in cancelled /\ Return(c, "cancelled")
  /\ UNCHANGED <<limited, poolVars, cancelled, tries, fails, got, word, rated>>

\* Mutant: one failure more than the configuration allows.
LenientFailed(c) ==
  /\ fails' = [fails EXCEPT ![c] = @ + 1]
  /\ IF Attempts >= fails[c] + 1
     THEN Goto(c, "backoff") /\ UNCHANGED outcome
     ELSE Return(c, "failed")

\* RetryIf on any error but 429.
Failed(c) ==
  /\ fails' = [fails EXCEPT ![c] = @ + 1]
  /\ IF Attempts > fails[c] + 1
     THEN Goto(c, "backoff") /\ UNCHANGED outcome
     ELSE Return(c, "failed")

\* What AllowDownload may say: no, or an error, only if there is a limiter.
Words == IF limited THEN {"granted", "denied"} ELSE {"granted"}

\* pool.Submit
Submit(c, n) ==
  /\ task' = [task EXCEPT ![c][n] = "queued"]
  /\ queue' = Append(queue, <<c, n>>)

AllowAfter(c, words) ==
  LET n == tries[c] + 1 IN
  /\ pc[c] = "allow"
  /\ n <= MaxTries
  /\ tries' = [tries EXCEPT ![c] = n]
  /\ \E w \in words :
       /\ word' = [word EXCEPT ![c] = IF words = Words THEN w ELSE @]
       /\ IF w = "granted"
          THEN Submit(c, n) /\ Goto(c, "wait") /\ UNCHANGED <<fails, outcome>>
          ELSE Failed(c) /\ UNCHANGED <<task, queue>>
  /\ UNCHANGED <<limited, pool, value, cancelled, got, rated>>

\* Mutant: the answer the limiter gave after a 429 is not asked for again.
TrustingAllow(c) == AllowAfter(c, IF rated[c] = tries[c] /\ rated[c] > 0
                                  THEN {"granted"} ELSE Words)

\* An attempt asks the limiter; a denial is an error like others, and retried.
Allow(c) == AllowAfter(c, Words)

\* Mutant: one result channel for all attempts of a call.
SharedResult(c) == {n \in 1..tries[c] : task[c][n] \in Results}

\* submitAndWait makes a channel for each attempt.
OwnResult(c) == {n \in {tries[c]} : task[c][n] \in Results}

\* Mutant: a 429 leaves the count of the other failures alone.
CountingRateLimit(c) == UNCHANGED fails

\* A 429 starts the count of the other failures anew.
ForgiveFailures(c) == fails' = [fails EXCEPT ![c] = 0]

\* The task's result: success, a 429 (after which the limiter is asked and its
\* answer ignored), or another error.
Answered(c) ==
  /\ pc[c] = "wait"
  /\ \E n \in OwnResult(c) :
       /\ \/ /\ task[c][n] = "ok"
             /\ Goto(c, "read")
             /\ UNCHANGED <<fails, outcome, word, rated>>
          \/ /\ task[c][n] = "429"
             /\ ForgiveFailures(c)
             /\ rated' = [rated EXCEPT ![c] = tries[c]]
             /\ \E w \in Words : word' = [word EXCEPT ![c] = w]
             /\ Goto(c, "backoff") /\ UNCHANGED outcome
          \/ /\ task[c][n] = "error"
             /\ Failed(c) /\ UNCHANGED <<word, rated>>
       /\ task' = [task EXCEPT ![c][n] = "taken"]
  /\ UNCHANGED <<limited, pool, queue, value, cancelled, tries, got>>

ContextDoneIf(c, heard) ==
  /\ pc[c] = "wait" /\ c \in cancelled
  /\ heard
  /\ Failed(c)
  /\ UNCHANGED <<limited, poolVars, cancelled, tries, got, word, rated>>

\* Mutant: the context is looked at by the task only, once it runs.
PatientContextDone(c) == ContextDoneIf(c, task[c][tries[c]] \in Busy)

\* The context ends before the task: an error that counts and may be retried.
ContextDone(c) == ContextDoneIf(c, TRUE)

\* The back-off's timer against the context; select takes either.
Wake(c) ==
  /\ pc[c] = "backoff"
  /\ \/ Goto(c, "allow") /\ UNCHANGED outcome
     \/ c \in cancelled /\ Return(c, "cancelled")
  /\ UNCHANGED <<limited, poolVars, cancelled, tries, fails, got, word, rated>>

\* return blk, err
ReadValue(c) ==
  /\ pc[c] = "read"
  /\ Return(c, "ok")
  /\ got' = [got EXCEPT ![c] = value[c]]
  /\ UNCHANGED <<limited, poolVars, cancelled, tries, fails, word, rated>>

Cancel(c) ==
  /\ c \notin cancelled
  /\ cancelled' = cancelled \union {c}
  /\ UNCHANGED <<limited, poolVars, callVars>>

-----------------------------------------------------------------------------
(* The pool *)

\* A free worker takes the oldest task.  Under a context that has ended the
\* request is not sent: the task is doomed to fail.
StartTask ==
  /\ queue # <<>> /\ Cardinality(Running) < Workers
  /\ LET c == Head(queue)[1]
         n == Head(queue)[2] IN
       task' = [task EXCEPT ![c][n] = IF c \in cancelled THEN "doomed" ELSE "running"]
  /\ queue' = Tail(queue)
  /\ UNCHANGED <<limited, pool, value, callVars, cancelled>>

FinishIf(c, n, free) ==
  /\ task[c][n] \in Busy
  /\ free
  /\ \E r \in Results :
       /\ task[c][n] = "doomed" => r = "error"
       /\ r = "429" => n + Attempts <= MaxTries
       /\ task' = [task EXCEPT ![c][n] = r]
       /\ value' = [value EXCEPT ![c] = IF r = "ok" THEN "block" ELSE "nil"]
  /\ UNCHANGED <<limited, pool, queue, callVars, cancelled>>

\* Mutant: an unbuffered channel, so a send waits for a receiver.
UnbufferedFinish(c, n) == FinishIf(c, n, pc[c] = "wait" /\ tries[c] = n)

\* The task writes the captured variable, and its result into a channel with
\* room for one: it ends whether or not the call still waits.
Finish(c, n) == FinishIf(c, n, TRUE)

\* Stop, when no call is in progress: waiting tasks are abandoned.  Without a
\* configured size the pool is the engine's own, which Stop does not reach.
Stop ==
  /\ pool = "open" /\ \A c \in Callers : Resting(c)
  /\ IF Sized
     THEN /\ pool' = "stopping"
          /\ queue' = <<>>
          /\ task' = [c \in Callers |-> [n \in Tries |->
                        IF task[c][n] = "queued" THEN "dropped" ELSE task[c][n]]]
     ELSE pool' = "kept" /\ UNCHANGED <<queue, task>>
  /\ UNCHANGED <<limited, value, callVars, cancelled>>

\* It returns when no worker runs a task.
Stopped ==
  /\ pool = "stopping" /\ Running = {}
  /\ pool' = "stopped"
  /\ UNCHANGED <<limited, queue, task, value, callVars, cancelled>>

CallStep(c) == Allow(c) \/ Answered(c) \/ ContextDone(c) \/ Wake(c) \/ ReadValue(c)

Next ==
  \/ \E c \in Callers : Call(c) \/ CallStep(c) \/ Cancel(c)
  \/ \E c \in Callers, n \in Tries : Finish(c, n)
  \/ StartTask \/ Stop \/ Stopped

Spec == Init /\ [][Next]_vars

\* Goroutines run and the limiter answers.  A request ends once its context
\* has; before that a portal may keep it open for ever, for the download's HTTP
\* client has no timeout.
FairSpec ==
  /\ Spec
  /\ \A c \in Callers : WF_vars(CallStep(c))
  /\ WF_vars(\E c \in cancelled, n \in Tries : Finish(c, n))
  /\ WF_vars(StartTask)
  /\ WF_vars(Stopped)

-----------------------------------------------------------------------------
(* Properties *)

TypeOK ==
  /\ limited \in BOOLEAN
  /\ pool \in {"open", "stopping", "stopped", "kept"}
  /\ queue \in Seq(Callers \X Tries)
  /\ task \in [Callers -> [Tries -> {"none", "queued", "dropped", "taken"} \union Busy \union Results]]
  /\ pc \in [Callers -> {"idle", "allow", "wait", "backoff", "read", "returned"}]
  /\ tries \in [Callers -> 0..MaxTries]
  /\ fails \in [Callers -> 0..Attempts]
  /\ cancelled \subseteq Callers
  /\ value \in [Callers -> {"zero", "block", "nil"}]
  /\ outcome \in [Callers -> {"none", "meta", "ok", "failed", "cancelled"}]
  /\ got \in [Callers -> {"zero", "block", "nil"}]
  /\ word \in [Callers -> {"none", "granted", "denied"}]
  /\ rated \in [Callers -> 0..MaxTries]

\* A call that reports success hands back the block: no task of an attempt it
\* gave up has overwritten the captured variable in between.
SuccessHasBlock == \A c \in Callers : outcome[c] = "ok" => got[c] = "block"

\* A read looks to its caller as if it made its requests itself, one after the
\* other: what the pool, its queue and the tasks given up do is not seen in it.
Seen(place) == CASE place \in {"idle", "returned"} -> place
                 [] place \in {"allow", "backoff"} -> "between"
                 [] place \in {"wait", "read"} -> "fetching"

Reads == INSTANCE BlockReads WITH state <- [c \in Callers |-> Seen(pc[c])], misses <- fails

\* The engine and its pool implement such reads: each returns the block of its
\* last request, or fails after so many misses since the last 429, or stops when
\* its own context ends, whatever other calls and old tasks do.
ReadsSpec == Reads!Spec

\* An attempt's request enters the pool only on the limiter's last word, also
\* after a 429, when the limiter is asked an extra time.
Permitted == \A c \in Callers : pc[c] = "wait" => word[c] = "granted"

\* A call fails only after as many attempts as configured since the last 429.
FailuresSpent ==
  \A c \in Callers : outcome[c] = "failed" => tries[c] - rated[c] = Attempts

\* A call whose context ends returns, although the portal answers 429 without
\* end, or never, and other calls hold all the workers.
CancelReturns ==
  \A c \in Callers : (c \in cancelled /\ pc[c] # "idle") ~> pc[c] = "returned"

\* When all calls have returned, the tasks they gave up end and free the
\* workers.
TasksDrain ==
  (\A c \in Callers : pc[c] = "returned") ~> (queue = <<>> /\ Running = {})

\* After Stop the workers end and the pool is released, whatever tasks the
\* calls left behind ("prevent goroutine leaks").
StopEnds == pool # "open" ~> pool = "stopped"

=============================================================================
