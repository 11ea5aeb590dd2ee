-------------------------- MODULE DownloadEngineProofs --------------------------
(***************************************************************************)
(* Why a read that reports success hands back the block, and why a call     *)
(* fails only when its attempts are spent, for any number of calls, workers *)
(* and attempts.  The invariant says how the failures are counted (Budget), *)
(* that the pool's queue holds each waiting task once (Queued), that a task *)
(* nobody waits for belongs to a cancelled call (GivenUp), and that a newer *)
(* task of such a call can no longer succeed (Outdated, Written).          *)
(***************************************************************************)
EXTENDS DownloadEngine, SequenceTheorems, Ranks, TLAPS

Live == {"queued"} \union Busy
TaskStates == {"none", "queued", "dropped", "taken"} \union Busy \union Results

Budget ==
  \A c \in Callers :
    /\ pc[c] # "returned" => fails[c] < Attempts /\ outcome[c] = "none"
    /\ pc[c] \in {"idle", "allow", "backoff"} => tries[c] - rated[c] = fails[c]
    /\ pc[c] \in {"wait", "read"} => tries[c] - rated[c] = fails[c] + 1

Queued ==
  /\ \A i \in 1..Len(queue) : task[queue[i][1]][queue[i][2]] = "queued"
  /\ \A i, j \in 1..Len(queue) : queue[i] = queue[j] => i = j

GivenUp ==
  \A c \in Callers, n \in Tries :
    /\ n > tries[c] => task[c][n] = "none"
    /\ task[c][n] \in Live => (pc[c] = "wait" /\ n = tries[c]) \/ c \in cancelled

Outdated ==
  \A c \in Callers, m, n \in Tries :
    m < n /\ task[c][m] \in Live => task[c][n] \notin {"running", "ok"}

Written ==
  \A c \in Callers :
    /\ pc[c] = "wait" /\ tries[c] \in Tries /\ task[c][tries[c]] = "ok" => value[c] = "block"
    /\ pc[c] = "read" => value[c] = "block" /\ \A m \in Tries : task[c][m] \notin Live

Tasks == Queued /\ GivenUp /\ Outdated /\ Written

IInv == TypeOK /\ Budget /\ FailuresSpent /\ Permitted /\ Tasks /\ SuccessHasBlock

-----------------------------------------------------------------------------
(* Helpers *)

\* What an assignment to one task changes.
LEMMA TaskUpdate ==
  ASSUME TypeOK, NEW c \in Callers, NEW n \in Tries, NEW s \in TaskStates,
         task' = [task EXCEPT ![c][n] = s]
  PROVE  /\ task' \in [Callers -> [Tries -> TaskStates]]
         /\ \A d \in Callers, m \in Tries :
              task'[d][m] = IF d = c /\ m = n THEN s ELSE task[d][m]
<1>1. task \in [Callers -> [Tries -> TaskStates]]
  BY DEF TypeOK, TaskStates
<1> QED BY <1>1

\* What an assignment at one call changes.
LEMMA AtCall ==
  ASSUME NEW S, NEW f \in [Callers -> S], NEW c \in Callers, NEW x \in S
  PROVE  /\ [f EXCEPT ![c] = x] \in [Callers -> S]
         /\ [f EXCEPT ![c] = x][c] = x
         /\ \A d \in Callers \ {c} : [f EXCEPT ![c] = x][d] = f[d]
OBVIOUS

\* A failed attempt is counted: the call goes on while attempts are left, and
\* returns with the last of them.
LEMMA FailedEffect ==
  ASSUME TypeOK, Budget, NEW c \in Callers, pc[c] # "returned", Failed(c)
  PROVE  /\ fails' = [fails EXCEPT ![c] = fails[c] + 1]
         /\ fails' \in [Callers -> 0..Attempts]
         /\ \/ /\ fails[c] + 1 < Attempts
               /\ pc' = [pc EXCEPT ![c] = "backoff"]
               /\ outcome' = outcome
            \/ /\ fails[c] + 1 = Attempts
               /\ pc' = [pc EXCEPT ![c] = "returned"]
               /\ outcome' = [outcome EXCEPT ![c] = "failed"]
<1>1. fails \in [Callers -> 0..Attempts] /\ fails[c] \in 0..Attempts /\ Attempts \in Nat
  BY PoolAssumption DEF TypeOK
<1>2. fails[c] < Attempts
  BY DEF Budget
<1>3. fails' = [fails EXCEPT ![c] = fails[c] + 1]
  BY DEF Failed
<1>4. fails[c] + 1 \in 0..Attempts
  BY <1>1, <1>2
<1>5. fails' \in [Callers -> 0..Attempts]
  BY <1>1, <1>3, <1>4, AtCall
<1>6. CASE Attempts > fails[c] + 1
  BY <1>1, <1>3, <1>5, <1>6 DEF Failed, Goto
<1>7. CASE ~(Attempts > fails[c] + 1)
  BY <1>1, <1>2, <1>3, <1>5, <1>7 DEF Failed, Return, Goto
<1> QED BY <1>6, <1>7

-----------------------------------------------------------------------------
(* Types *)

\* The steps of a call keep the types.
LEMMA CallTypes ==
  ASSUME TypeOK, Budget, NEW c \in Callers, Call(c) \/ CallStep(c) \/ Cancel(c)
  PROVE  TypeOK'
<1> USE PoolAssumption DEF TypeOK
<1>1. CASE Call(c)
  BY <1>1 DEF Call, Return, Goto, poolVars
<1>2. CASE Allow(c)
  <2>1. tries[c] + 1 \in Tries /\ tries' \in [Callers -> 0..MaxTries]
    BY <1>2 DEF Allow, AllowAfter, Tries
  <2>2. PICK w \in Words :
          /\ word' = [word EXCEPT ![c] = w]
          /\ IF w = "granted"
             THEN Submit(c, tries[c] + 1) /\ Goto(c, "wait") /\ UNCHANGED <<fails, outcome>>
             ELSE Failed(c) /\ UNCHANGED <<task, queue>>
    BY <1>2 DEF Allow, AllowAfter
  <2>3. word' \in [Callers -> {"none", "granted", "denied"}]
    BY <2>2 DEF Words
  <2>4. CASE w = "granted"
    <3>1. task' \in [Callers -> [Tries -> TaskStates]]
      BY <2>1, <2>2, <2>4, TaskUpdate DEF Submit, TaskStates
    <3>2. queue' \in Seq(Callers \X Tries)
      <4>1. <<c, tries[c] + 1>> \in Callers \X Tries
        BY <2>1
      <4>2. queue \in Seq(Callers \X Tries) /\ queue' = Append(queue, <<c, tries[c] + 1>>)
        BY <2>2, <2>4 DEF Submit
      <4> QED BY <4>1, <4>2, AppendProperties
    <3>3. UNCHANGED <<limited, pool, value, cancelled, got, rated, fails, outcome>>
      BY <1>2, <2>2, <2>4 DEF Allow, AllowAfter
    <3>4. pc' = [pc EXCEPT ![c] = "wait"]
      BY <2>2, <2>4 DEF Goto
    <3> QED BY <2>1, <2>3, <3>1, <3>2, <3>3, <3>4 DEF TaskStates
  <2>5. CASE w # "granted"
    <3>1. Failed(c) /\ UNCHANGED <<limited, pool, value, cancelled, got, rated, task, queue>>
      BY <1>2, <2>2, <2>5 DEF Allow, AllowAfter
    <3>2. pc[c] = "allow"
      BY <1>2 DEF Allow, AllowAfter
    <3> QED BY <2>1, <2>3, <3>1, <3>2, FailedEffect
  <2> QED BY <2>4, <2>5
<1>3. CASE Answered(c)
  <2>1. PICK n \in Tries :
          /\ n = tries[c]
          /\ \/ Goto(c, "read") /\ UNCHANGED <<fails, outcome, word, rated>>
             \/ /\ ForgiveFailures(c)
                /\ rated' = [rated EXCEPT ![c] = tries[c]]
                /\ \E w \in Words : word' = [word EXCEPT ![c] = w]
                /\ Goto(c, "backoff") /\ UNCHANGED outcome
             \/ Failed(c) /\ UNCHANGED <<word, rated>>
          /\ task' = [task EXCEPT ![c][n] = "taken"]
    <3>1. PICK n \in OwnResult(c) : n = tries[c] /\ task[c][n] \in Results
      BY <1>3 DEF Answered, OwnResult
    <3>2. n \in Tries
      <4>1. tries[c] \in 0..MaxTries /\ rated[c] \in 0..MaxTries /\ fails[c] \in 0..Attempts
        OBVIOUS
      <4>2. tries[c] - rated[c] = fails[c] + 1
        BY <1>3 DEF Answered, Budget
      <4> QED BY <3>1, <4>1, <4>2 DEF Tries
    <3> QED BY <3>1, <3>2, <1>3 DEF Answered, OwnResult
  <2>2. task' \in [Callers -> [Tries -> TaskStates]]
    BY <2>1, TaskUpdate DEF TaskStates
  <2>3. UNCHANGED <<limited, pool, queue, value, cancelled, tries, got>>
    BY <1>3 DEF Answered
  <2>4. pc[c] = "wait"
    BY <1>3 DEF Answered
  <2>5. CASE Goto(c, "read") /\ UNCHANGED <<fails, outcome, word, rated>>
    BY <2>2, <2>3, <2>5 DEF Goto, TaskStates
  <2>6. CASE /\ ForgiveFailures(c)
             /\ rated' = [rated EXCEPT ![c] = tries[c]]
             /\ \E w \in Words : word' = [word EXCEPT ![c] = w]
             /\ Goto(c, "backoff") /\ UNCHANGED outcome
    BY <2>2, <2>3, <2>6 DEF Goto, TaskStates, ForgiveFailures, Words
  <2>7. CASE Failed(c) /\ UNCHANGED <<word, rated>>
    BY <2>2, <2>3, <2>4, <2>7, FailedEffect DEF TaskStates
  <2> QED BY <2>1, <2>5, <2>6, <2>7
<1>4. CASE ContextDone(c)
  BY <1>4, FailedEffect DEF ContextDone, ContextDoneIf, poolVars
<1>5. CASE Wake(c)
  BY <1>5 DEF Wake, Return, Goto, poolVars
<1>6. CASE ReadValue(c)
  BY <1>6 DEF ReadValue, Return, Goto, poolVars
<1>7. CASE Cancel(c)
  BY <1>7 DEF Cancel, poolVars, callVars
<1> QED BY <1>1, <1>2, <1>3, <1>4, <1>5, <1>6, <1>7 DEF CallStep

\* So do the steps of the pool.
LEMMA PoolTypes ==
  ASSUME TypeOK,
         \/ \E c \in Callers, n \in Tries : Finish(c, n)
         \/ StartTask \/ Stop \/ Stopped
  PROVE  TypeOK'
<1> USE DEF TypeOK, callVars
<1>1. ASSUME NEW c \in Callers, NEW n \in Tries, Finish(c, n) PROVE TypeOK'
  <2>1. PICK r \in Results : /\ task' = [task EXCEPT ![c][n] = r]
                             /\ value' = [value EXCEPT ![c] = IF r = "ok" THEN "block" ELSE "nil"]
    BY <1>1 DEF Finish, FinishIf
  <2>2. task' \in [Callers -> [Tries -> TaskStates]]
    BY <2>1, TaskUpdate DEF TaskStates
  <2> QED BY <1>1, <2>1, <2>2 DEF Finish, FinishIf, TaskStates
<1>2. CASE StartTask
  <2>1. /\ Head(queue) \in Callers \X Tries
        /\ Tail(queue) \in Seq(Callers \X Tries)
    BY <1>2, HeadTailProperties DEF StartTask
  <2>2. task' \in [Callers -> [Tries -> TaskStates]]
    <3> DEFINE c == Head(queue)[1]
               n == Head(queue)[2]
               s == IF c \in cancelled THEN "doomed" ELSE "running"
    <3>1. c \in Callers /\ n \in Tries /\ s \in TaskStates
      BY <2>1 DEF TaskStates, Busy
    <3>2. task' = [task EXCEPT ![c][n] = s]
      BY <1>2 DEF StartTask
    <3> HIDE DEF c, n, s
    <3> QED BY <3>1, <3>2, TaskUpdate
  <2> QED BY <1>2, <2>1, <2>2 DEF StartTask, TaskStates
<1>3. CASE Stop
  <2>1. CASE Sized
    <3>1. queue' = <<>> /\ queue' \in Seq(Callers \X Tries)
      BY <1>3, <2>1 DEF Stop
    <3>2. task' = [c \in Callers |-> [n \in Tries |->
                     IF task[c][n] = "queued" THEN "dropped" ELSE task[c][n]]]
      BY <1>3, <2>1 DEF Stop
    <3> QED BY <1>3, <2>1, <3>1, <3>2 DEF Stop
  <2>2. CASE ~Sized
    BY <1>3, <2>2 DEF Stop
  <2> QED BY <2>1, <2>2
<1>4. CASE Stopped
  BY <1>4 DEF Stopped
<1> QED BY <1>1, <1>2, <1>3, <1>4

-----------------------------------------------------------------------------
(* Attempts and permissions *)

Counts == Budget /\ FailuresSpent /\ Permitted

\* A call that fails an attempt of the places in which the failure is already
\* part of the difference keeps the count.
LEMMA FailedCounts ==
  ASSUME TypeOK, Counts, NEW c \in Callers, Failed(c), rated' = rated,
         pc[c] # "returned",
         tries'[c] - rated[c] = fails[c] + 1,
         \A d \in Callers \ {c} : tries'[d] = tries[d] /\ word'[d] = word[d]
  PROVE  Counts'
<1> USE DEF TypeOK, Counts
<1>1. /\ fails' = [fails EXCEPT ![c] = fails[c] + 1]
      /\ \/ /\ fails[c] + 1 < Attempts
            /\ pc' = [pc EXCEPT ![c] = "backoff"]
            /\ outcome' = outcome
         \/ /\ fails[c] + 1 = Attempts
            /\ pc' = [pc EXCEPT ![c] = "returned"]
            /\ outcome' = [outcome EXCEPT ![c] = "failed"]
  BY FailedEffect
<1>2. Budget'
  <2>1. /\ fails'[c] = fails[c] + 1
        /\ \/ pc'[c] = "backoff" /\ outcome'[c] = outcome[c] /\ fails[c] + 1 < Attempts
           \/ pc'[c] = "returned"
    BY <1>1
  <2>2. \A d \in Callers \ {c} : /\ fails'[d] = fails[d] /\ pc'[d] = pc[d]
                                 /\ outcome'[d] = outcome[d] /\ tries'[d] = tries[d]
    BY <1>1
  <2>3. outcome[c] = "none"
    BY DEF Budget
  <2>4. ASSUME NEW d \in Callers, d # c
        PROVE  /\ pc'[d] # "returned" => fails'[d] < Attempts /\ outcome'[d] = "none"
               /\ pc'[d] \in {"idle", "allow", "backoff"} => tries'[d] - rated'[d] = fails'[d]
               /\ pc'[d] \in {"wait", "read"} => tries'[d] - rated'[d] = fails'[d] + 1
    BY <2>2, <2>4 DEF Budget
  <2>5. /\ pc'[c] # "returned" => fails'[c] < Attempts /\ outcome'[c] = "none"
        /\ pc'[c] \in {"idle", "allow", "backoff"} => tries'[c] - rated'[c] = fails'[c]
        /\ pc'[c] \in {"wait", "read"} => tries'[c] - rated'[c] = fails'[c] + 1
    BY <2>1, <2>3
  <2> QED BY <2>4, <2>5 DEF Budget
<1>3. FailuresSpent'
  <2>1. \A d \in Callers \ {c} : outcome'[d] = outcome[d]
    BY <1>1
  <2>2. outcome'[c] = "failed" => tries'[c] - rated'[c] = Attempts
    BY <1>1 DEF Budget
  <2> QED BY <2>1, <2>2 DEF FailuresSpent
<1>4. Permitted'
  BY <1>1 DEF Permitted
<1> QED BY <1>2, <1>3, <1>4

\* Every step of a call keeps the count and asks the limiter in time.
LEMMA CallCounts ==
  ASSUME TypeOK, Counts, NEW c \in Callers, Call(c) \/ CallStep(c)
  PROVE  Counts'
<1> USE PoolAssumption DEF TypeOK
<1>1. CASE Call(c)
  <2>1. /\ pc[c] = "idle" /\ UNCHANGED <<tries, fails, word, rated>>
        /\ \/ /\ pc' = [pc EXCEPT ![c] = "returned"]
              /\ \E o \in {"meta", "cancelled"} : outcome' = [outcome EXCEPT ![c] = o]
           \/ pc' = [pc EXCEPT ![c] = "allow"] /\ outcome' = outcome
    BY <1>1 DEF Call, Return, Goto
  <2>2. Budget'
    BY <2>1 DEF Counts, Budget
  <2>3. FailuresSpent' /\ Permitted'
    BY <2>1 DEF Counts, FailuresSpent, Permitted
  <2> QED BY <2>2, <2>3 DEF Counts
<1>2. CASE Allow(c)
  <2>1. PICK w \in Words :
          /\ word' = [word EXCEPT ![c] = w]
          /\ IF w = "granted"
             THEN Submit(c, tries[c] + 1) /\ Goto(c, "wait") /\ UNCHANGED <<fails, outcome>>
             ELSE Failed(c) /\ UNCHANGED <<task, queue>>
    BY <1>2 DEF Allow, AllowAfter
  <2>2. /\ pc[c] = "allow" /\ rated' = rated
        /\ tries' = [tries EXCEPT ![c] = tries[c] + 1]
    BY <1>2 DEF Allow, AllowAfter
  <2>3. /\ tries[c] - rated[c] = fails[c]
        /\ tries[c] \in Nat /\ rated[c] \in Nat /\ fails[c] \in Nat
    BY <2>2 DEF Counts, Budget
  <2>4. tries'[c] - rated[c] = fails[c] + 1
    BY <2>2, <2>3
  <2>5. CASE w = "granted"
    <3>1. pc' = [pc EXCEPT ![c] = "wait"] /\ fails' = fails /\ outcome' = outcome
      BY <2>1, <2>5 DEF Goto
    <3>2. outcome[c] = "none"
      BY <2>2 DEF Counts, Budget
    <3>3. Budget'
      BY <2>2, <2>4, <3>1 DEF Counts, Budget
    <3>4. FailuresSpent'
      BY <2>2, <3>1, <3>2 DEF Counts, FailuresSpent
    <3>5. Permitted'
      BY <2>1, <2>5, <3>1 DEF Counts, Permitted
    <3> QED BY <3>3, <3>4, <3>5 DEF Counts
  <2>6. CASE w # "granted"
    <3>1. Failed(c)
      BY <2>1, <2>6
    <3>2. \A d \in Callers \ {c} : tries'[d] = tries[d] /\ word'[d] = word[d]
      BY <2>1, <2>2
    <3> QED BY <2>2, <2>4, <3>1, <3>2, FailedCounts
  <2> QED BY <2>5, <2>6
<1>3. CASE Answered(c)
  <2>1. \/ Goto(c, "read") /\ UNCHANGED <<fails, outcome, word, rated>>
        \/ /\ ForgiveFailures(c)
           /\ rated' = [rated EXCEPT ![c] = tries[c]]
           /\ \E w \in Words : word' = [word EXCEPT ![c] = w]
           /\ Goto(c, "backoff") /\ UNCHANGED outcome
        \/ Failed(c) /\ UNCHANGED <<word, rated>>
    BY <1>3 DEF Answered
  <2>2. pc[c] = "wait" /\ tries' = tries
    BY <1>3 DEF Answered
  <2>3. tries[c] - rated[c] = fails[c] + 1 /\ outcome[c] = "none"
    BY <2>2 DEF Counts, Budget
  <2>4. CASE Goto(c, "read") /\ UNCHANGED <<fails, outcome, word, rated>>
    BY <2>2, <2>3, <2>4 DEF Goto, Counts, Budget, FailuresSpent, Permitted
  <2>5. CASE /\ ForgiveFailures(c)
             /\ rated' = [rated EXCEPT ![c] = tries[c]]
             /\ \E w \in Words : word' = [word EXCEPT ![c] = w]
             /\ Goto(c, "backoff") /\ UNCHANGED outcome
    <3>1. /\ fails' = [fails EXCEPT ![c] = 0]
          /\ pc' = [pc EXCEPT ![c] = "backoff"]
          /\ rated'[c] = tries[c]
          /\ \A d \in Callers \ {c} : rated'[d] = rated[d] /\ word'[d] = word[d]
      BY <2>5 DEF ForgiveFailures, Goto
    <3>2. Budget'
      BY <2>2, <2>3, <2>5, <3>1 DEF Counts, Budget
    <3>3. FailuresSpent'
      BY <2>2, <2>3, <2>5, <3>1 DEF Counts, FailuresSpent
    <3>4. Permitted'
      BY <3>1 DEF Counts, Permitted
    <3> QED BY <3>2, <3>3, <3>4 DEF Counts
  <2>6. CASE Failed(c) /\ UNCHANGED <<word, rated>>
    BY <2>2, <2>3, <2>6, FailedCounts
  <2> QED BY <2>1, <2>4, <2>5, <2>6
<1>4. CASE ContextDone(c)
  <2>1. /\ pc[c] = "wait" /\ Failed(c)
        /\ UNCHANGED <<tries, word, rated>>
    BY <1>4 DEF ContextDone, ContextDoneIf
  <2>2. tries[c] - rated[c] = fails[c] + 1
    BY <2>1 DEF Counts, Budget
  <2> QED BY <2>1, <2>2, FailedCounts
<1>5. CASE Wake(c)
  BY <1>5 DEF Counts, Wake, Return, Goto, Budget, FailuresSpent, Permitted
<1>6. CASE ReadValue(c)
  BY <1>6 DEF Counts, ReadValue, Return, Goto, Budget, FailuresSpent, Permitted
<1> QED BY <1>1, <1>2, <1>3, <1>4, <1>5, <1>6 DEF CallStep

\* The pool, and a context that ends, do not touch what is counted.
LEMMA OtherCounts ==
  ASSUME Counts, UNCHANGED callVars
  PROVE  Counts'
BY DEF Counts, Budget, FailuresSpent, Permitted, callVars

-----------------------------------------------------------------------------
(* Tasks *)

\* A step that leaves the pool alone, starts no wait and gives up its own task
\* only if its context has ended keeps what is known of the tasks.
LEMMA QuietTasks ==
  ASSUME TypeOK, Tasks, NEW c \in Callers,
         UNCHANGED <<task, queue, value>>, cancelled \subseteq cancelled',
         tries' \in [Callers -> Nat], tries'[c] >= tries[c],
         \A d \in Callers \ {c} : pc'[d] = pc[d] /\ tries'[d] = tries[d],
         pc'[c] \notin {"wait", "read"},
         pc[c] = "wait" => c \in cancelled
  PROVE  Tasks'
<1> USE DEF TypeOK, Tasks
<1>1. Queued'
  BY DEF Queued
<1>2. GivenUp'
  <2> SUFFICES ASSUME NEW d \in Callers, NEW n \in Tries
               PROVE  /\ n > tries'[d] => task'[d][n] = "none"
                      /\ task'[d][n] \in Live
                           => (pc'[d] = "wait" /\ n = tries'[d]) \/ d \in cancelled'
    BY DEF GivenUp
  <2>1. /\ n > tries[d] => task[d][n] = "none"
        /\ task[d][n] \in Live => (pc[d] = "wait" /\ n = tries[d]) \/ d \in cancelled
    BY DEF GivenUp
  <2>2. CASE d = c
    <3>1. tries[c] \in Nat /\ tries'[c] \in Nat /\ n \in Nat
      BY PoolAssumption DEF Tries
    <3> QED BY <2>1, <2>2, <3>1
  <2>3. CASE d # c
    BY <2>1, <2>3
  <2> QED BY <2>2, <2>3
<1>3. Outdated'
  BY DEF Outdated
<1>4. Written'
  BY DEF Written
<1> QED BY <1>1, <1>2, <1>3, <1>4

\* A new task is the latest of its call, and waits once in the queue.
LEMMA SubmitTasks ==
  ASSUME TypeOK, Tasks, NEW c \in Callers, pc[c] = "allow", tries[c] + 1 \in Tries,
         Submit(c, tries[c] + 1), pc' = [pc EXCEPT ![c] = "wait"],
         tries' = [tries EXCEPT ![c] = tries[c] + 1], UNCHANGED <<value, cancelled>>
  PROVE  Tasks'
<1> DEFINE n == tries[c] + 1
<1>1. \A d \in Callers, m \in Tries :
        task'[d][m] = IF d = c /\ m = n THEN "queued" ELSE task[d][m]
  BY TaskUpdate DEF Submit, TaskStates
<1>2. tries[c] \in Nat /\ n > tries[c] /\ task[c][n] = "none"
  BY PoolAssumption DEF Tasks, GivenUp, TypeOK
<1>3. tries'[c] = n /\ pc'[c] = "wait" /\ \A d \in Callers \ {c} : tries'[d] = tries[d] /\ pc'[d] = pc[d]
  BY PoolAssumption DEF Tries, TypeOK
<1>4. /\ Len(queue') = Len(queue) + 1 /\ queue'[Len(queue) + 1] = <<c, n>>
      /\ \A i \in 1..Len(queue) : queue'[i] = queue[i]
      /\ Len(queue) \in Nat /\ \A i \in 1..Len(queue) : queue[i] \in Callers \X Tries
  <2>1. queue \in Seq(Callers \X Tries) /\ <<c, n>> \in Callers \X Tries
    BY DEF TypeOK
  <2>2. queue' = Append(queue, <<c, n>>)
    BY DEF Submit
  <2> HIDE DEF n
  <2> QED BY <2>1, <2>2, AppendProperties
<1>5. \A i \in 1..Len(queue) : queue[i] # <<c, n>>
  BY <1>2 DEF Tasks, Queued
<1> HIDE DEF n
<1>6. Queued'
  <2>1. \A i \in 1..Len(queue') : i \in 1..Len(queue) \/ i = Len(queue) + 1
    <3>1. \A l \in Nat : \A i \in 1..(l + 1) : i \in 1..l \/ i = l + 1
      OBVIOUS
    <3> QED BY <1>4, <3>1
  <2>2. \A i \in 1..Len(queue') : task'[queue'[i][1]][queue'[i][2]] = "queued"
    <3> SUFFICES ASSUME NEW i \in 1..Len(queue')
                 PROVE  task'[queue'[i][1]][queue'[i][2]] = "queued"
      OBVIOUS
    <3>1. CASE i = Len(queue) + 1
      <4>1. n \in Tries
        BY DEF n
      <4> QED BY <1>1, <1>4, <3>1, <4>1
    <3>2. CASE i \in 1..Len(queue)
      <4>1. queue'[i] = queue[i] /\ queue[i][1] \in Callers /\ queue[i][2] \in Tries
        BY <1>4, <3>2
      <4>2. task[queue[i][1]][queue[i][2]] = "queued"
        BY <3>2 DEF Tasks, Queued
      <4>3. task'[queue[i][1]][queue[i][2]] = "queued"
        BY <1>1, <4>1, <4>2
      <4> QED BY <4>1, <4>3
    <3> QED BY <2>1, <3>1, <3>2
  <2>3. \A i, j \in 1..Len(queue') : queue'[i] = queue'[j] => i = j
    BY <1>4, <1>5, <2>1 DEF Tasks, Queued
  <2> QED BY <2>2, <2>3 DEF Queued
<1>7. GivenUp'
  <2>1. \A m \in Tries : task[c][m] \in Live => c \in cancelled
    BY DEF Tasks, GivenUp
  <2>2. \A m \in Tries : m > n => task[c][m] = "none"
    BY <1>2 DEF Tasks, GivenUp, n, Tries
  <2>3. ASSUME NEW m \in Tries
        PROVE  /\ m > tries'[c] => task'[c][m] = "none"
               /\ task'[c][m] \in Live
                    => (pc'[c] = "wait" /\ m = tries'[c]) \/ c \in cancelled'
    <3>1. n \in Nat /\ m \in Nat
      BY <1>2 DEF n, Tries
    <3> QED BY <1>1, <1>3, <2>1, <2>2, <3>1
  <2>4. ASSUME NEW d \in Callers \ {c}, NEW m \in Tries
        PROVE  /\ m > tries'[d] => task'[d][m] = "none"
               /\ task'[d][m] \in Live
                    => (pc'[d] = "wait" /\ m = tries'[d]) \/ d \in cancelled'
    BY <1>1, <1>3 DEF Tasks, GivenUp
  <2> QED BY <2>3, <2>4 DEF GivenUp
<1>8. Outdated'
  <2> SUFFICES ASSUME NEW d \in Callers, NEW m \in Tries, NEW k \in Tries,
                      m < k, task'[d][m] \in Live
               PROVE  task'[d][k] \notin {"running", "ok"}
    BY DEF Outdated
  <2>1. CASE d = c /\ k = n
    BY <1>1, <2>1
  <2>2. CASE d = c /\ m = n
    <3>1. task[c][k] = "none" /\ k # n
      BY <1>2, <2>2 DEF Tasks, GivenUp, n, Tries
    <3> QED BY <1>1, <2>2, <3>1
  <2>3. CASE d # c \/ (k # n /\ m # n)
    BY <1>1, <2>3 DEF Tasks, Outdated
  <2> QED BY <2>1, <2>2, <2>3
<1>9. Written'
  <2>1. ASSUME NEW d \in Callers \ {c}
        PROVE  /\ pc'[d] = "wait" /\ tries'[d] \in Tries /\ task'[d][tries'[d]] = "ok"
                    => value'[d] = "block"
               /\ pc'[d] = "read"
                    => value'[d] = "block" /\ \A m \in Tries : task'[d][m] \notin Live
    BY <1>1, <1>3 DEF Tasks, Written
  <2>2. pc'[c] = "wait" /\ task'[c][tries'[c]] = "queued"
    <3>1. n \in Tries
      BY DEF n
    <3> QED BY <1>1, <1>3, <3>1
  <2> QED BY <2>1, <2>2 DEF Written
<1> QED BY <1>6, <1>7, <1>8, <1>9 DEF Tasks

\* Taking the result of its latest task, a call learns of a success only when
\* no older task of its own is left to overwrite the value.
LEMMA AnsweredTasks ==
  ASSUME TypeOK, Tasks, NEW c \in Callers, tries[c] \in Tries, Answered(c)
  PROVE  Tasks'
<1> DEFINE n == tries[c]
<1>1. /\ pc[c] = "wait" /\ task[c][n] \in Results
      /\ task' = [task EXCEPT ![c][n] = "taken"]
      /\ UNCHANGED <<queue, value, cancelled, tries>>
      /\ \/ pc' = [pc EXCEPT ![c] = "read"] /\ task[c][n] = "ok"
         \/ pc' = [pc EXCEPT ![c] = "backoff"]
         \/ pc' = [pc EXCEPT ![c] = "returned"]
  BY DEF Answered, OwnResult, Failed, Goto, Return
<1>2. \A d \in Callers, m \in Tries :
        task'[d][m] = IF d = c /\ m = n THEN "taken" ELSE task[d][m]
  BY <1>1, TaskUpdate DEF TaskStates
<1>3. \A d \in Callers \ {c} : pc'[d] = pc[d]
  BY <1>1 DEF TypeOK
<1>4. \A i \in 1..Len(queue) : queue[i][1] \in Callers /\ queue[i][2] \in Tries
  BY DEF TypeOK
<1> HIDE DEF n
<1>5. Queued'
  <2>1. \A i \in 1..Len(queue) : task'[queue[i][1]][queue[i][2]] = "queued"
    BY <1>1, <1>2, <1>4 DEF Tasks, Queued, Results
  <2> QED BY <1>1, <2>1 DEF Tasks, Queued
<1>6. GivenUp'
  <2>1. n = tries[c] /\ n \in Nat /\ n \in Tries
    BY DEF n, Tries
  <2>2. ASSUME NEW m \in Tries
        PROVE  /\ m > tries'[c] => task'[c][m] = "none"
               /\ task'[c][m] \in Live
                    => (pc'[c] = "wait" /\ m = tries'[c]) \/ c \in cancelled'
    <3>1. CASE m = n
      BY <1>1, <1>2, <2>1, <3>1 DEF Live, Busy
    <3>2. CASE m # n
      BY <1>1, <1>2, <2>1, <3>2 DEF Tasks, GivenUp
    <3> QED BY <3>1, <3>2
  <2>3. ASSUME NEW d \in Callers \ {c}, NEW m \in Tries
        PROVE  /\ m > tries'[d] => task'[d][m] = "none"
               /\ task'[d][m] \in Live
                    => (pc'[d] = "wait" /\ m = tries'[d]) \/ d \in cancelled'
    BY <1>1, <1>2, <1>3 DEF Tasks, GivenUp
  <2> QED BY <2>2, <2>3 DEF GivenUp
<1>7. Outdated'
  BY <1>1, <1>2 DEF Tasks, Outdated, Live, Busy
<1>8. Written'
  <2>1. \A d \in Callers \ {c} : \A m \in Tries : task'[d][m] = task[d][m]
    BY <1>2
  <2>2. ASSUME NEW d \in Callers \ {c}
        PROVE  /\ pc'[d] = "wait" /\ tries'[d] \in Tries /\ task'[d][tries'[d]] = "ok"
                    => value'[d] = "block"
               /\ pc'[d] = "read"
                    => value'[d] = "block" /\ \A m \in Tries : task'[d][m] \notin Live
    BY <1>1, <1>3, <2>1 DEF Tasks, Written
  <2>3. pc'[c] # "wait" /\ (pc'[c] = "read" => task[c][n] = "ok")
    BY <1>1 DEF TypeOK
  <2>4. ASSUME pc'[c] = "read"
        PROVE  value'[c] = "block" /\ \A m \in Tries : task'[c][m] \notin Live
    <3>1. value[c] = "block" /\ n \in Tries
      BY <1>1, <2>3, <2>4 DEF Tasks, Written, n
    <3>2. ASSUME NEW m \in Tries PROVE task'[c][m] \notin Live
      <4>1. CASE m = n
        BY <1>2, <4>1 DEF Live, Busy
      <4>2. CASE m < n
        <5>1. task[c][m] \notin Live
          BY <2>3, <2>4, <3>1, <4>2 DEF Tasks, Outdated
        <5>2. m # n
          BY <3>1, <4>2 DEF Tries
        <5> QED BY <1>2, <5>1, <5>2
      <4>3. CASE m > n
        <5>1. task[c][m] = "none"
          BY <4>3 DEF Tasks, GivenUp, n
        <5>2. m # n
          BY <3>1, <4>3 DEF Tries
        <5> QED BY <1>2, <5>1, <5>2 DEF Live, Busy
      <4>4. m = n \/ m < n \/ m > n
        BY <3>1 DEF Tries
      <4> QED BY <4>1, <4>2, <4>3, <4>4
    <3> QED BY <1>1, <3>1, <3>2
  <2> QED BY <2>2, <2>3, <2>4 DEF Written
<1> QED BY <1>5, <1>6, <1>7, <1>8 DEF Tasks

\* A worker that takes a task of a cancelled call sends no request, so an
\* outdated call's newer task cannot run.
LEMMA StartTaskTasks ==
  ASSUME TypeOK, Tasks, StartTask
  PROVE  Tasks'
<1> DEFINE c == Head(queue)[1]
           n == Head(queue)[2]
           s == IF c \in cancelled THEN "doomed" ELSE "running"
<1>1. /\ c \in Callers /\ n \in Tries /\ Head(queue) = <<c, n>>
      /\ Len(queue) \in Nat \ {0} /\ Head(queue) = queue[1]
      /\ Len(Tail(queue)) = Len(queue) - 1
      /\ \A i \in 1..Len(Tail(queue)) : Tail(queue)[i] = queue[i + 1]
      /\ \A i \in 1..Len(queue) : queue[i] \in Callers \X Tries
  BY HeadTailProperties DEF StartTask, TypeOK
<1>2. /\ task' = [task EXCEPT ![c][n] = s] /\ queue' = Tail(queue)
      /\ UNCHANGED <<value, pc, tries, cancelled>>
  BY DEF StartTask, callVars
<1>3. s \in TaskStates /\ s \in Busy /\ (s = "running" => c \notin cancelled)
  BY DEF TaskStates, Busy
<1> HIDE DEF c, n, s
<1>4. \A d \in Callers, m \in Tries :
        task'[d][m] = IF d = c /\ m = n THEN s ELSE task[d][m]
  <2>1. c \in Callers /\ n \in Tries /\ s \in TaskStates
    BY <1>1, <1>3
  <2>2. task' = [task EXCEPT ![c][n] = s]
    BY <1>2
  <2> QED BY <2>1, <2>2, TaskUpdate
<1>5. task[c][n] = "queued"
  <2>1. 1 \in 1..Len(queue) /\ queue[1][1] = c /\ queue[1][2] = n
    BY <1>1
  <2> QED BY <2>1 DEF Tasks, Queued
<1>6. Queued'
  <2>1. \A i \in 1..Len(queue') : /\ i + 1 \in 1..Len(queue) /\ i + 1 # 1
                                  /\ queue'[i] = queue[i + 1]
    BY <1>1, <1>2
  <2>2. ASSUME NEW i \in 1..Len(queue')
        PROVE  task'[queue'[i][1]][queue'[i][2]] = "queued"
    <3>1. /\ queue[i + 1] \in Callers \X Tries /\ queue[i + 1] # <<c, n>>
          /\ task[queue[i + 1][1]][queue[i + 1][2]] = "queued"
      <4>1. 1 \in 1..Len(queue)
        BY <1>1
      <4> QED BY <1>1, <2>1, <4>1 DEF Tasks, Queued
    <3>2. /\ queue[i + 1][1] \in Callers /\ queue[i + 1][2] \in Tries
          /\ ~(queue[i + 1][1] = c /\ queue[i + 1][2] = n)
      BY <3>1
    <3>3. task'[queue[i + 1][1]][queue[i + 1][2]] = "queued"
      BY <1>4, <3>1, <3>2
    <3> QED BY <2>1, <3>3
  <2>3. \A i, j \in 1..Len(queue') : queue'[i] = queue'[j] => i = j
    BY <2>1 DEF Tasks, Queued
  <2> QED BY <2>2, <2>3 DEF Queued
<1>7. GivenUp'
  BY <1>1, <1>2, <1>3, <1>4, <1>5 DEF Tasks, GivenUp, Live
<1>8. Outdated'
  <2> SUFFICES ASSUME NEW d \in Callers, NEW m \in Tries, NEW k \in Tries,
                      m < k, task'[d][m] \in Live
               PROVE  task'[d][k] \notin {"running", "ok"}
    BY DEF Outdated
  <2>1. task[d][m] \in Live
    BY <1>4, <1>5 DEF Live
  <2>2. CASE d = c /\ k = n
    <3>1. ~(m = tries[c])
      <4>1. tries[c] \in Nat /\ ~(n > tries[c])
        BY <1>1, <1>5, PoolAssumption DEF Tasks, GivenUp, TypeOK
      <4> QED BY <2>2, <4>1 DEF Tries
    <3>2. c \in cancelled
      BY <2>1, <2>2, <3>1 DEF Tasks, GivenUp
    <3> QED BY <1>3, <1>4, <2>2, <3>2 DEF Busy
  <2>3. CASE ~(d = c /\ k = n)
    BY <1>4, <2>1, <2>3 DEF Tasks, Outdated
  <2> QED BY <2>2, <2>3
<1>9. Written'
  <2>1. ASSUME NEW d \in Callers, pc'[d] = "wait", tries'[d] \in Tries,
               task'[d][tries'[d]] = "ok"
        PROVE  value'[d] = "block"
    BY <1>2, <1>3, <1>4, <2>1 DEF Tasks, Written, Busy
  <2>2. ASSUME NEW d \in Callers, pc'[d] = "read"
        PROVE  value'[d] = "block" /\ \A m \in Tries : task'[d][m] \notin Live
    <3>1. value[d] = "block" /\ \A m \in Tries : task[d][m] \notin Live
      BY <1>2, <2>2 DEF Tasks, Written
    <3>2. d # c
      BY <1>1, <1>5, <3>1 DEF Live
    <3> QED BY <1>2, <1>4, <3>1, <3>2
  <2> QED BY <2>1, <2>2 DEF Written
<1> QED BY <1>6, <1>7, <1>8, <1>9 DEF Tasks

\* A task that ends writes the value of its call: after a success was answered
\* no other task of that call is left to do so.
LEMMA FinishTasks ==
  ASSUME TypeOK, Tasks, NEW c \in Callers, NEW n \in Tries, Finish(c, n)
  PROVE  Tasks'
<1>1. PICK r \in Results :
        /\ task[c][n] \in Busy /\ (task[c][n] = "doomed" => r = "error")
        /\ task' = [task EXCEPT ![c][n] = r]
        /\ value' = [value EXCEPT ![c] = IF r = "ok" THEN "block" ELSE "nil"]
        /\ UNCHANGED <<queue, pc, tries, cancelled>>
  BY DEF Finish, FinishIf, callVars
<1>2. \A d \in Callers, m \in Tries :
        task'[d][m] = IF d = c /\ m = n THEN r ELSE task[d][m]
  BY <1>1, TaskUpdate DEF TaskStates
<1>3. /\ value'[c] = IF r = "ok" THEN "block" ELSE "nil"
      /\ \A d \in Callers \ {c} : value'[d] = value[d]
  BY <1>1 DEF TypeOK
<1>4. \A i \in 1..Len(queue) : queue[i][1] \in Callers /\ queue[i][2] \in Tries
  BY DEF TypeOK
<1>5. Queued'
  <2>1. \A i \in 1..Len(queue) : task'[queue[i][1]][queue[i][2]] = "queued"
    BY <1>1, <1>2, <1>4 DEF Tasks, Queued, Busy
  <2> QED BY <1>1, <2>1 DEF Tasks, Queued
<1>6. GivenUp'
  BY <1>1, <1>2 DEF Tasks, GivenUp, Live, Busy, Results
<1>7. Outdated'
  <2> SUFFICES ASSUME NEW d \in Callers, NEW m \in Tries, NEW k \in Tries,
                      m < k, task'[d][m] \in Live
               PROVE  task'[d][k] \notin {"running", "ok"}
    BY DEF Outdated
  <2>1. ~(d = c /\ m = n) /\ task[d][m] \in Live
    BY <1>2 DEF Live, Busy, Results
  <2>2. task[d][k] \notin {"running", "ok"}
    BY <2>1 DEF Tasks, Outdated
  <2> QED BY <1>1, <1>2, <2>2 DEF Busy
<1>8. Written'
  <2>1. ASSUME NEW d \in Callers, pc'[d] = "wait", tries'[d] \in Tries,
               task'[d][tries'[d]] = "ok"
        PROVE  value'[d] = "block"
    <3>1. CASE d # c
      BY <1>1, <1>2, <1>3, <2>1, <3>1 DEF Tasks, Written
    <3>2. CASE d = c /\ tries[c] = n
      BY <1>1, <1>2, <1>3, <2>1, <3>2
    <3>3. CASE d = c /\ tries[c] # n
      <4>1. tries[c] \in Tries /\ task[c][tries[c]] = "ok"
        BY <1>1, <1>2, <2>1, <3>3
      <4>2. ~(n > tries[c])
        BY <1>1 DEF Tasks, GivenUp, Busy
      <4>3. n < tries[c]
        BY <3>3, <4>1, <4>2 DEF Tries
      <4> QED BY <1>1, <4>1, <4>3 DEF Tasks, Outdated, Live
    <3> QED BY <3>1, <3>2, <3>3
  <2>2. ASSUME NEW d \in Callers, pc'[d] = "read"
        PROVE  value'[d] = "block" /\ \A m \in Tries : task'[d][m] \notin Live
    <3>1. value[d] = "block" /\ \A m \in Tries : task[d][m] \notin Live
      BY <1>1, <2>2 DEF Tasks, Written
    <3>2. d # c
      BY <1>1, <3>1 DEF Live
    <3> QED BY <1>2, <1>3, <3>1, <3>2
  <2> QED BY <2>1, <2>2 DEF Written
<1> QED BY <1>5, <1>6, <1>7, <1>8 DEF Tasks

\* Stop abandons what waits, when no call is in progress.
LEMMA StopTasks ==
  ASSUME TypeOK, Tasks, Stop
  PROVE  Tasks'
<1> SUFFICES ASSUME Sized PROVE Tasks'
  BY DEF Stop, Tasks, Queued, GivenUp, Outdated, Written, callVars
<1>1. /\ queue' = <<>> /\ UNCHANGED <<value, pc, tries, cancelled>>
      /\ \A d \in Callers, m \in Tries :
           task'[d][m] = IF task[d][m] = "queued" THEN "dropped" ELSE task[d][m]
      /\ \A d \in Callers : pc[d] \in {"idle", "returned"}
  BY DEF Stop, Resting, callVars
<1>2. Queued'
  BY <1>1 DEF Queued
<1>3. GivenUp'
  BY <1>1 DEF Tasks, GivenUp, Live, Busy
<1>4. Outdated'
  BY <1>1 DEF Tasks, Outdated, Live, Busy
<1>5. Written'
  BY <1>1 DEF Written
<1> QED BY <1>2, <1>3, <1>4, <1>5 DEF Tasks

-----------------------------------------------------------------------------
(* The invariant *)

\* Nothing is submitted and no call is in progress at first.
LEMMA InitIInv == Init => IInv
<1> SUFFICES ASSUME Init PROVE IInv
  OBVIOUS
<1>1. TypeOK
  BY PoolAssumption DEF Init, TypeOK
<1>2. Budget /\ FailuresSpent /\ Permitted /\ SuccessHasBlock
  BY PoolAssumption DEF Init, Budget, FailuresSpent, Permitted, SuccessHasBlock
<1>3. Tasks
  BY DEF Init, Tasks, Queued, GivenUp, Outdated, Written, Live, Busy
<1> QED BY <1>1, <1>2, <1>3 DEF IInv

\* Every step of a call keeps what is known of the tasks.
LEMMA CallTasks ==
  ASSUME IInv, NEW c \in Callers, Call(c) \/ CallStep(c)
  PROVE  Tasks'
<1> USE DEF IInv
<1>1. tries \in [Callers -> Nat] /\ pc \in [Callers -> {"idle", "allow", "wait", "backoff", "read", "returned"}]
  BY PoolAssumption DEF TypeOK
<1>2. CASE Call(c)
  BY <1>1, <1>2, QuietTasks DEF Call, Return, Goto, poolVars
<1>3. CASE Allow(c)
  <2>1. PICK w \in Words :
          IF w = "granted"
          THEN Submit(c, tries[c] + 1) /\ Goto(c, "wait") /\ UNCHANGED <<fails, outcome>>
          ELSE Failed(c) /\ UNCHANGED <<task, queue>>
    BY <1>3 DEF Allow, AllowAfter
  <2>2. /\ pc[c] = "allow" /\ tries[c] + 1 \in Tries
        /\ tries' = [tries EXCEPT ![c] = tries[c] + 1]
        /\ UNCHANGED <<value, cancelled>>
    BY <1>1, <1>3 DEF Allow, AllowAfter, Tries
  <2>3. CASE w = "granted"
    BY <2>1, <2>2, <2>3, SubmitTasks DEF Goto
  <2>4. CASE w # "granted"
    <3>1. Failed(c) /\ UNCHANGED <<task, queue>>
      BY <2>1, <2>4
    <3>2. /\ tries' \in [Callers -> Nat] /\ tries'[c] >= tries[c]
          /\ \A d \in Callers \ {c} : tries'[d] = tries[d]
      BY <1>1, <2>2
    <3>3. pc'[c] \notin {"wait", "read"} /\ \A d \in Callers \ {c} : pc'[d] = pc[d]
      BY <1>1, <3>1 DEF Failed, Goto, Return
    <3> QED BY <2>2, <3>1, <3>2, <3>3, QuietTasks
  <2> QED BY <2>3, <2>4
<1>4. CASE Answered(c)
  <2>1. tries[c] - rated[c] = fails[c] + 1
    BY <1>4 DEF Answered, Budget
  <2>2. tries[c] \in 0..MaxTries /\ rated[c] \in 0..MaxTries /\ fails[c] \in 0..Attempts
    BY DEF TypeOK
  <2>3. tries[c] \in Tries
    BY <2>1, <2>2, PoolAssumption DEF Tries
  <2> QED BY <1>4, <2>3, AnsweredTasks
<1>5. CASE ContextDone(c)
  <2>1. Failed(c) /\ c \in cancelled /\ UNCHANGED <<task, queue, value, cancelled, tries>>
    BY <1>5 DEF ContextDone, ContextDoneIf, poolVars
  <2>2. pc'[c] \notin {"wait", "read"} /\ \A d \in Callers \ {c} : pc'[d] = pc[d]
    BY <1>1, <2>1 DEF Failed, Goto, Return
  <2> QED BY <1>1, <2>1, <2>2, QuietTasks
<1>6. CASE Wake(c)
  BY <1>1, <1>6, QuietTasks DEF Wake, Return, Goto, poolVars
<1>7. CASE ReadValue(c)
  BY <1>1, <1>7, QuietTasks DEF ReadValue, Return, Goto, poolVars
<1> QED BY <1>2, <1>3, <1>4, <1>5, <1>6, <1>7 DEF CallStep

\* Only ReadValue reports success, with the value its last task wrote.
LEMMA CallSuccess ==
  ASSUME IInv, NEW c \in Callers, Call(c) \/ CallStep(c)
  PROVE  SuccessHasBlock'
<1> USE DEF IInv, SuccessHasBlock
<1>1. /\ outcome \in [Callers -> {"none", "meta", "ok", "failed", "cancelled"}]
      /\ got \in [Callers -> {"zero", "block", "nil"}]
  BY DEF TypeOK
<1>2. CASE ReadValue(c)
  <2>1. value[c] = "block"
    BY <1>2 DEF ReadValue, Tasks, Written
  <2> QED BY <1>1, <1>2, <2>1 DEF ReadValue, Return
<1>3. CASE ~ReadValue(c)
  <2>1. got' = got
    BY <1>3 DEF Call, CallStep, Allow, AllowAfter, Answered, ContextDone, ContextDoneIf, Wake
  <2>2. outcome' = outcome \/ \E o \in {"meta", "failed", "cancelled"} :
                                outcome' = [outcome EXCEPT ![c] = o]
    BY <1>3 DEF Call, CallStep, Allow, AllowAfter, Answered, ContextDone, ContextDoneIf, Wake,
                Failed, Return
  <2> QED BY <1>1, <2>1, <2>2
<1> QED BY <1>2, <1>3

\* The invariant is inductive.
LEMMA StepIInv == IInv /\ [Next]_vars => IInv'
<1> SUFFICES ASSUME IInv, [Next]_vars PROVE IInv'
  OBVIOUS
<1>1. ASSUME NEW c \in Callers, Call(c) \/ CallStep(c) PROVE IInv'
  BY <1>1, CallTypes, CallCounts, CallTasks, CallSuccess DEF IInv, Counts
<1>2. ASSUME NEW c \in Callers, Cancel(c) PROVE IInv'
  <2>1. UNCHANGED callVars /\ UNCHANGED poolVars /\ cancelled \subseteq cancelled'
    BY <1>2 DEF Cancel
  <2>2. Tasks'
    BY <2>1 DEF IInv, Tasks, Queued, GivenUp, Outdated, Written, callVars, poolVars
  <2>3. SuccessHasBlock'
    BY <2>1 DEF IInv, SuccessHasBlock, callVars
  <2> QED BY <1>2, <2>1, <2>2, <2>3, CallTypes, OtherCounts DEF IInv, Counts
<1>3. ASSUME \/ \E c \in Callers, n \in Tries : Finish(c, n)
             \/ StartTask \/ Stop \/ Stopped
      PROVE  IInv'
  <2>1. UNCHANGED callVars
    BY <1>3 DEF Finish, FinishIf, StartTask, Stop, Stopped
  <2>2. SuccessHasBlock'
    BY <2>1 DEF IInv, SuccessHasBlock, callVars
  <2>3. Tasks'
    <3>1. CASE Stopped
      BY <3>1 DEF IInv, Stopped, Tasks, Queued, GivenUp, Outdated, Written, callVars
    <3> QED BY <1>3, <3>1, FinishTasks, StartTaskTasks, StopTasks DEF IInv
  <2> QED BY <1>3, <2>1, <2>2, <2>3, PoolTypes, OtherCounts DEF IInv, Counts
<1>4. CASE UNCHANGED vars
  BY <1>4 DEF vars, callVars, poolVars, IInv, TypeOK, Budget, FailuresSpent, Permitted,
              SuccessHasBlock, Tasks, Queued, GivenUp, Outdated, Written
<1> QED BY <1>1, <1>2, <1>3, <1>4 DEF Next

\* The invariant holds in every reachable state.
THEOREM Invariance == Spec => []IInv
  BY InitIInv, StepIInv, PTL DEF Spec

\* Every variable keeps its type: a call begins no more tasks than MaxTries, the
\* queue holds tasks that exist (RateLimiterEngine, workerpool).
THEOREM TypesHold == Spec => []TypeOK
<1>1. IInv => TypeOK
  BY DEF IInv
<1> QED BY <1>1, Invariance, PTL

\* A read of the blockstore that reports success returns the block, although
\* tasks of attempts it gave up still write the variable it returns
\* (submitAndWait, RateLimitedBlockstore.Get).
THEOREM ReadsReturnBlocks == Spec => []SuccessHasBlock
<1>1. IInv => SuccessHasBlock
  BY DEF IInv
<1> QED BY <1>1, Invariance, PTL

\* No request is handed to the pool without the limiter's last word
\* (RateLimiterEngine.wait, also after the extra question of a 429).
THEOREM RequestsPermitted == Spec => []Permitted
<1>1. IInv => Permitted
  BY DEF IInv
<1> QED BY <1>1, Invariance, PTL

\* A call is given up after exactly the configured attempts since its last 429
\* (ExecuteWithRetry's RetryIf), whatever the order of failures, denials, 429s
\* and ends of contexts.
THEOREM AttemptsSpent == Spec => []FailuresSpent
<1>1. IInv => FailuresSpent
  BY DEF IInv
<1> QED BY <1>1, Invariance, PTL

-----------------------------------------------------------------------------
(* The refinement of BlockReads: each step of a call is a step of its read   *)
(* or none, and the pool is not seen at all.                                *)

\* What the move of one call from a place to another looks like.
LEMMA SeenMove ==
  ASSUME TypeOK, NEW c \in Callers, NEW p, pc' = [pc EXCEPT ![c] = p], NEW from,
         Seen(pc[c]) \in from
  PROVE  Reads!Move(c, from, Seen(p))
BY DEF TypeOK, Reads!Move

\* Steps that are not seen.
LEMMA Unseen ==
  ASSUME TypeOK, \A c \in Callers : Seen(pc'[c]) = Seen(pc[c]),
         UNCHANGED <<fails, cancelled, outcome, got>>
  PROVE  UNCHANGED Reads!vars
BY DEF Reads!vars

\* A failed attempt is a miss of the read.
LEMMA FailedImplements ==
  ASSUME TypeOK, Budget, NEW c \in Callers, pc[c] \in {"allow", "wait"}, Failed(c),
         UNCHANGED <<cancelled, got>>
  PROVE  Reads!Miss(c) \/ Reads!LastMiss(c)
<1>1. Seen(pc[c]) \in {"between", "fetching"}
  BY DEF Seen
<1>2. Seen("backoff") = "between" /\ Seen("returned") = "returned"
  BY DEF Seen
<1>3. fails' = [fails EXCEPT ![c] = fails[c] + 1]
  BY FailedEffect
<1>4. CASE /\ fails[c] + 1 < Attempts
           /\ pc' = [pc EXCEPT ![c] = "backoff"]
           /\ outcome' = outcome
  <2>1. Reads!Move(c, {"between", "fetching"}, "between")
    BY <1>1, <1>2, <1>4, SeenMove
  <2> QED BY <1>3, <1>4, <2>1 DEF Reads!Miss
<1>5. CASE /\ fails[c] + 1 = Attempts
           /\ pc' = [pc EXCEPT ![c] = "returned"]
           /\ outcome' = [outcome EXCEPT ![c] = "failed"]
  <2>1. Reads!Move(c, {"between", "fetching"}, "returned")
    BY <1>1, <1>2, <1>5, SeenMove
  <2> QED BY <1>3, <1>5, <2>1 DEF Reads!LastMiss, Reads!Report
<1> QED BY <1>4, <1>5, FailedEffect

\* A call is answered at once, turned away at once, or begins.
LEMMA CallImplements ==
  ASSUME TypeOK, NEW c \in Callers, Call(c)
  PROVE  Reads!Shortcut(c) \/ Reads!Begin(c) \/ Reads!Abort(c)
<1>1. Seen(pc[c]) = "idle" /\ Seen("allow") = "between" /\ Seen("returned") = "returned"
  BY DEF Call, Seen
<1>2. UNCHANGED <<fails, cancelled, got>>
  BY DEF Call
<1>3. CASE Return(c, "meta")
  <2>1. Reads!Move(c, {"idle"}, "returned")
    BY <1>1, <1>3, SeenMove DEF Return, Goto
  <2> QED BY <1>2, <1>3, <2>1 DEF Return, Reads!Shortcut, Reads!Report
<1>4. CASE Goto(c, "allow") /\ UNCHANGED outcome
  <2>1. Reads!Move(c, {"idle"}, "between")
    BY <1>1, <1>4, SeenMove DEF Goto
  <2> QED BY <1>2, <1>4, <2>1 DEF Reads!Begin
<1>5. CASE c \in cancelled /\ Return(c, "cancelled")
  <2>1. Reads!Move(c, {"idle", "between"}, "returned")
    BY <1>1, <1>5, SeenMove DEF Return, Goto
  <2> QED BY <1>2, <1>5, <2>1 DEF Return, Reads!Abort, Reads!Report
<1> QED BY <1>3, <1>4, <1>5 DEF Call

\* A granted attempt is a request, a denied one a miss.
LEMMA AllowImplements ==
  ASSUME IInv, NEW c \in Callers, Allow(c)
  PROVE  Reads!Request(c) \/ Reads!Miss(c) \/ Reads!LastMiss(c)
<1> USE DEF IInv
<1>1. pc[c] = "allow" /\ UNCHANGED <<cancelled, got>>
  BY DEF Allow, AllowAfter
<1>2. CASE Goto(c, "wait") /\ UNCHANGED <<fails, outcome>>
  <2>1. Seen(pc[c]) = "between" /\ Seen("wait") = "fetching"
    BY <1>1 DEF Seen
  <2>2. Reads!Move(c, {"between"}, "fetching")
    BY <1>2, <2>1, SeenMove DEF Goto
  <2> QED BY <1>1, <1>2, <2>2 DEF Reads!Request
<1>3. CASE Failed(c)
  BY <1>1, <1>3, FailedImplements
<1> QED BY <1>2, <1>3 DEF Allow, AllowAfter

\* A result that arrives is seen only if it is no success: the block is there
\* once the call has read the variable.
LEMMA AnsweredImplements ==
  ASSUME IInv, NEW c \in Callers, Answered(c)
  PROVE  Reads!SlowDown(c) \/ Reads!Miss(c) \/ Reads!LastMiss(c) \/ UNCHANGED Reads!vars
<1> USE DEF IInv
<1>1. pc[c] = "wait" /\ UNCHANGED <<cancelled, got>>
  BY DEF Answered
<1>2. Seen("wait") = "fetching" /\ Seen("read") = "fetching" /\ Seen("backoff") = "between"
  BY DEF Seen
<1>3. CASE Goto(c, "read") /\ UNCHANGED <<fails, outcome>>
  <2>1. \A d \in Callers : Seen(pc'[d]) = Seen(pc[d])
    BY <1>1, <1>2, <1>3 DEF Goto, TypeOK
  <2> QED BY <1>1, <1>3, <2>1, Unseen
<1>4. CASE ForgiveFailures(c) /\ Goto(c, "backoff") /\ UNCHANGED outcome
  <2>1. Reads!Move(c, {"fetching"}, "between")
    BY <1>1, <1>2, <1>4, SeenMove DEF Goto
  <2> QED BY <1>1, <1>4, <2>1 DEF ForgiveFailures, Reads!SlowDown
<1>5. CASE Failed(c)
  BY <1>1, <1>5, FailedImplements
<1> QED BY <1>3, <1>4, <1>5 DEF Answered

\* Back-off ends unseen, or with the call's context.
LEMMA WakeImplements ==
  ASSUME IInv, NEW c \in Callers, Wake(c)
  PROVE  Reads!Abort(c) \/ UNCHANGED Reads!vars
<1> USE DEF IInv
<1>1. pc[c] = "backoff" /\ UNCHANGED <<fails, cancelled, got>>
  BY DEF Wake
<1>2. Seen("backoff") = "between" /\ Seen("allow") = "between" /\ Seen("returned") = "returned"
  BY DEF Seen
<1>3. CASE Goto(c, "allow") /\ UNCHANGED outcome
  <2>1. \A d \in Callers : Seen(pc'[d]) = Seen(pc[d])
    BY <1>1, <1>2, <1>3 DEF Goto, TypeOK
  <2> QED BY <1>1, <1>3, <2>1, Unseen
<1>4. CASE c \in cancelled /\ Return(c, "cancelled")
  <2>1. Reads!Move(c, {"idle", "between"}, "returned")
    BY <1>1, <1>2, <1>4, SeenMove DEF Return, Goto
  <2> QED BY <1>1, <1>4, <2>1 DEF Return, Reads!Abort, Reads!Report
<1> QED BY <1>3, <1>4 DEF Wake

\* The variable that the call returns holds the block (Written).
LEMMA ReadValueImplements ==
  ASSUME IInv, NEW c \in Callers, ReadValue(c)
  PROVE  Reads!Receive(c)
<1> USE DEF IInv
<1>1. pc[c] = "read" /\ Return(c, "ok") /\ UNCHANGED <<fails, cancelled>>
  BY DEF ReadValue
<1>2. got' = [got EXCEPT ![c] = "block"]
  BY <1>1 DEF ReadValue, Tasks, Written
<1>3. Seen(pc[c]) = "fetching" /\ Seen("returned") = "returned"
  BY <1>1 DEF Seen
<1>4. Reads!Move(c, {"fetching"}, "returned")
  BY <1>1, <1>3, SeenMove DEF Return, Goto
<1> QED BY <1>1, <1>2, <1>4 DEF Return, Reads!Receive, Reads!Report

\* Every step of the engine is a step of one read, or is not seen.
LEMMA StepImplements == IInv /\ [Next]_vars => [Reads!Next]_(Reads!vars)
<1> SUFFICES ASSUME IInv, [Next]_vars PROVE [Reads!Next]_(Reads!vars)
  OBVIOUS
<1>1. TypeOK /\ Budget
  BY DEF IInv
<1>2. ASSUME NEW c \in Callers, Call(c) PROVE Reads!Next
  BY <1>1, <1>2, CallImplements DEF Reads!Next
<1>3. ASSUME NEW c \in Callers, CallStep(c) PROVE [Reads!Next]_(Reads!vars)
  <2>1. CASE ContextDone(c)
    BY <1>1, <2>1, FailedImplements DEF ContextDone, ContextDoneIf, Reads!Next
  <2> QED BY <1>3, <2>1, AllowImplements, AnsweredImplements, WakeImplements,
             ReadValueImplements DEF CallStep, Reads!Next
<1>4. ASSUME NEW c \in Callers, Cancel(c) PROVE Reads!Next
  BY <1>4 DEF Cancel, callVars, Reads!Next, Reads!Cancel
<1>5. CASE \/ \E c \in Callers, n \in Tries : Finish(c, n)
           \/ StartTask \/ Stop \/ Stopped \/ UNCHANGED vars
  <2>1. UNCHANGED callVars /\ UNCHANGED cancelled
    BY <1>5 DEF Finish, FinishIf, StartTask, Stop, Stopped, vars
  <2> QED BY <2>1 DEF callVars, Reads!vars
<1> QED BY <1>2, <1>3, <1>4, <1>5 DEF Next

\* To its callers the engine is a set of reads that make their requests
\* themselves (RateLimiterEngine, ExecuteWithRetry, the blockstore's Get,
\* GetSize and Has), for any number of calls, workers and attempts.
THEOREM ImplementsReads == Spec => ReadsSpec
<1>1. Init => Reads!Init
  BY DEF Init, Reads!Init, Seen
<1>2. IInv /\ [Next]_vars => [Reads!Next]_(Reads!vars)
  BY StepImplements
<1> QED BY <1>1, <1>2, Invariance, PTL DEF Spec, ReadsSpec, Reads!Spec

-----------------------------------------------------------------------------
(* A call whose context has ended takes finitely many steps.                *)

\* A 429, which makes up for earlier failures, can come to such a call once:
\* from a request that was sent before its context ended.
Pardon(c) == IF pc[c] = "wait" /\ task[c][tries[c]] \in {"running", "429"} THEN 1 ELSE 0

Place(c) == CASE pc[c] = "idle"     -> 5
              [] pc[c] = "backoff"  -> 4
              [] pc[c] = "allow"    -> 3
              [] pc[c] = "wait"     -> 2
              [] pc[c] = "read"     -> 1
              [] pc[c] = "returned" -> 0

Rank(c) == <<Pardon(c), Attempts - fails[c], Place(c)>>

\* Its own steps lower the rank, and nobody else's raise it: no other call, no
\* worker and no task it gave up.
RankFalls ==
  [][\A c \in cancelled :
       /\ Call(c) \/ CallStep(c) => Below(Rank(c)', Rank(c), 3)
       /\ Rank(c)' = Rank(c) \/ Below(Rank(c)', Rank(c), 3)]_vars


LEMMA RankTuple == IInv => \A c \in Callers : Rank(c) \in [1..3 -> Nat]
<1> SUFFICES ASSUME IInv, NEW c \in Callers PROVE Rank(c) \in [1..3 -> Nat]
  OBVIOUS
<1>1. Pardon(c) \in Nat /\ Place(c) \in Nat
  BY DEF IInv, TypeOK, Pardon, Place
<1>2. Attempts - fails[c] \in Nat
  BY PoolAssumption DEF IInv, TypeOK
<1> DEFINE p == Pardon(c)
           q == Place(c)
           r == Attempts - fails[c]
<1>3. p \in Nat /\ q \in Nat /\ r \in Nat
  BY <1>1, <1>2
<1> HIDE DEF p, q, r
<1>4. <<p, r, q>> \in [1..3 -> Nat]
  BY <1>3
<1> QED BY <1>4 DEF Rank, p, q, r

LEMMA PardonIs ==
  ASSUME NEW c \in Callers
  PROVE  /\ Pardon(c) \in {0, 1} /\ Pardon(c)' \in {0, 1}
         /\ pc'[c] # "wait" => Pardon(c)' = 0
BY DEF Pardon

\* Without a pardon to come a failure lowers the rank, and so does going on to a
\* later place.
LEMMA RankLower ==
  ASSUME NEW c \in Callers, Pardon(c)' = 0,
         \/ Pardon(c) = 1
         \/ fails'[c] = fails[c] + 1 /\ fails[c] \in Nat
         \/ fails'[c] = fails[c] /\ Place(c)' < Place(c)
  PROVE  Below(Rank(c)', Rank(c), 3)
<1>1. Rank(c)' = <<0, Attempts - fails'[c], Place(c)'>>
  BY DEF Rank
<1>2. Rank(c) = <<Pardon(c), Attempts - fails[c], Place(c)>>
  BY DEF Rank
<1>3. CASE Pardon(c) = 1
  <2>1. 0 < Pardon(c)
    BY <1>3
  <2> QED BY <1>1, <1>2, <2>1, BelowOfThree
<1>4. CASE Pardon(c) = 0 /\ fails'[c] = fails[c] + 1 /\ fails[c] \in Nat
  <2>1. Attempts - fails'[c] < Attempts - fails[c]
    BY <1>4, PoolAssumption
  <2> QED BY <1>1, <1>2, <1>4, <2>1, BelowOfThree
<1>5. CASE Pardon(c) = 0 /\ fails'[c] = fails[c] /\ Place(c)' < Place(c)
  BY <1>1, <1>2, <1>5, BelowOfThree
<1> QED BY <1>3, <1>4, <1>5, PardonIs

\* The steps of the call itself.
LEMMA OwnStepsFall ==
  ASSUME IInv, NEW c \in Callers, Call(c) \/ CallStep(c)
  PROVE  Below(Rank(c)', Rank(c), 3)
<1>1. TypeOK /\ Budget /\ fails[c] \in Nat
  BY PoolAssumption DEF IInv, TypeOK
<1>2. ASSUME Failed(c), pc[c] \in {"allow", "wait"} PROVE Below(Rank(c)', Rank(c), 3)
  <2>1. fails'[c] = fails[c] + 1 /\ pc'[c] # "wait"
    <3>1. fails \in [Callers -> 0..Attempts]
          /\ pc \in [Callers -> {"idle", "allow", "wait", "backoff", "read", "returned"}]
      BY <1>1 DEF TypeOK
    <3>2. /\ fails' = [fails EXCEPT ![c] = fails[c] + 1]
          /\ \/ pc' = [pc EXCEPT ![c] = "backoff"]
             \/ pc' = [pc EXCEPT ![c] = "returned"]
      BY <1>1, <1>2, FailedEffect
    <3> QED BY <3>1, <3>2
  <2> QED BY <1>1, <2>1, PardonIs, RankLower
<1>3. ASSUME fails'[c] = fails[c], pc'[c] # "wait", Place(c)' < Place(c)
      PROVE  Below(Rank(c)', Rank(c), 3)
  BY <1>3, PardonIs, RankLower
<1>4. CASE Call(c)
  <2>1. pc[c] = "idle" /\ pc'[c] \in {"allow", "returned"} /\ fails' = fails
    BY <1>1, <1>4 DEF Call, Return, Goto, TypeOK
  <2> QED BY <1>3, <2>1 DEF Place
<1>5. CASE Allow(c)
  <2>1. CASE Submit(c, tries[c] + 1) /\ Goto(c, "wait") /\ UNCHANGED fails
    <3>1. pc[c] = "allow" /\ pc'[c] = "wait" /\ tries'[c] = tries[c] + 1
          /\ tries[c] + 1 \in Tries
      BY <1>1, <1>5, <2>1 DEF Allow, AllowAfter, Goto, TypeOK, Tries
    <3>2. task'[c][tries[c] + 1] = "queued"
      <4>1. task' = [task EXCEPT ![c][tries[c] + 1] = "queued"] /\ "queued" \in TaskStates
        BY <2>1 DEF Submit, TaskStates
      <4> QED BY <1>1, <3>1, <4>1, TaskUpdate
    <3>3. Pardon(c)' = 0
      BY <3>1, <3>2 DEF Pardon
    <3>4. Place(c)' < Place(c)
      BY <3>1 DEF Place
    <3> QED BY <2>1, <3>3, <3>4, RankLower
  <2>2. CASE Failed(c)
    BY <1>2, <1>5, <2>2 DEF Allow, AllowAfter
  <2> QED BY <1>5, <2>1, <2>2 DEF Allow, AllowAfter
<1>6. CASE Answered(c)
  <2>1. pc[c] = "wait"
    BY <1>6 DEF Answered
  <2>2. CASE Goto(c, "read") /\ UNCHANGED fails
    <3>1. pc'[c] = "read"
      BY <1>1, <2>2 DEF Goto, TypeOK
    <3> QED BY <1>3, <2>1, <2>2, <3>1 DEF Place
  <2>3. CASE task[c][tries[c]] = "429" /\ Goto(c, "backoff")
    <3>1. Pardon(c) = 1
      BY <2>1, <2>3 DEF Pardon
    <3>2. pc'[c] = "backoff"
      BY <1>1, <2>3 DEF Goto, TypeOK
    <3> QED BY <3>1, <3>2, PardonIs, RankLower
  <2>4. CASE Failed(c)
    BY <1>2, <2>1, <2>4
  <2> QED BY <1>6, <2>2, <2>3, <2>4 DEF Answered, OwnResult
<1>7. CASE ContextDone(c)
  BY <1>2, <1>7 DEF ContextDone, ContextDoneIf
<1>8. CASE Wake(c)
  <2>1. pc[c] = "backoff" /\ pc'[c] \in {"allow", "returned"} /\ fails' = fails
    BY <1>1, <1>8 DEF Wake, Return, Goto, TypeOK
  <2> QED BY <1>3, <2>1 DEF Place
<1>9. CASE ReadValue(c)
  <2>1. pc[c] = "read" /\ pc'[c] = "returned" /\ fails' = fails
    BY <1>1, <1>9 DEF ReadValue, Return, Goto, TypeOK
  <2> QED BY <1>3, <2>1 DEF Place
<1> QED BY <1>4, <1>5, <1>6, <1>7, <1>8, <1>9 DEF CallStep

\* What others do to the call's task brings no new pardon.
LEMMA OthersKeepRank ==
  ASSUME NEW c \in Callers, pc'[c] = pc[c], fails'[c] = fails[c], tries'[c] = tries[c],
         pc[c] = "wait" /\ task'[c][tries[c]] \in {"running", "429"}
           => task[c][tries[c]] \in {"running", "429"}
  PROVE  Rank(c)' = Rank(c) \/ Below(Rank(c)', Rank(c), 3)
<1>1. Place(c)' = Place(c)
  BY DEF Place
<1>2. CASE Pardon(c)' = Pardon(c)
  BY <1>1, <1>2 DEF Rank
<1>3. CASE Pardon(c)' # Pardon(c)
  <2>1. Pardon(c)' = 0 /\ Pardon(c) = 1
    BY <1>3 DEF Pardon
  <2> QED BY <2>1, RankLower
<1> QED BY <1>2, <1>3

LEMMA OtherCallsKeepRank ==
  ASSUME IInv, NEW c \in Callers, NEW d \in Callers, d # c, Call(d) \/ CallStep(d)
  PROVE  Rank(c)' = Rank(c) \/ Below(Rank(c)', Rank(c), 3)
<1>1. TypeOK /\ Budget
  BY DEF IInv
<1>2. pc'[c] = pc[c] /\ fails'[c] = fails[c] /\ tries'[c] = tries[c]
  BY <1>1 DEF TypeOK, Call, CallStep, Allow, AllowAfter, Answered, ContextDone, ContextDoneIf,
              Wake, ReadValue, Failed, Goto, Return, ForgiveFailures
<1>3. task'[c] = task[c]
  BY <1>1 DEF TypeOK, Call, CallStep, Allow, AllowAfter, Answered, ContextDone, ContextDoneIf,
              Wake, ReadValue, Submit, poolVars
<1> QED BY <1>2, <1>3, OthersKeepRank

LEMMA PoolKeepsRank ==
  ASSUME IInv, NEW c \in cancelled,
         \/ \E d \in Callers, n \in Tries : Finish(d, n)
         \/ StartTask \/ Stop \/ Stopped
  PROVE  Rank(c)' = Rank(c) \/ Below(Rank(c)', Rank(c), 3)
<1>1. TypeOK /\ Tasks /\ c \in Callers
  BY DEF IInv, TypeOK
<1>2. pc'[c] = pc[c] /\ fails'[c] = fails[c] /\ tries'[c] = tries[c]
  BY DEF Finish, FinishIf, StartTask, Stop, Stopped, callVars
<1> SUFFICES ASSUME pc[c] = "wait", task'[c][tries[c]] \in {"running", "429"}
             PROVE  task[c][tries[c]] \in {"running", "429"}
  BY <1>1, <1>2, OthersKeepRank
<1>3. tries[c] \in Tries
  BY <1>1, PoolAssumption DEF IInv, Budget, TypeOK, Tries
<1>4. ASSUME NEW d \in Callers, NEW n \in Tries, Finish(d, n)
      PROVE  task[c][tries[c]] \in {"running", "429"}
  <2>1. PICK r \in Results : /\ task[d][n] \in Busy /\ (task[d][n] = "doomed" => r = "error")
                             /\ task' = [task EXCEPT ![d][n] = r]
    BY <1>4 DEF Finish, FinishIf
  <2>2. task'[c][tries[c]] = IF c = d /\ tries[c] = n THEN r ELSE task[c][tries[c]]
    BY <1>1, <1>3, <2>1, TaskUpdate DEF TaskStates
  <2> QED BY <2>1, <2>2 DEF Busy
<1>5. CASE StartTask
  <2> DEFINE d == Head(queue)[1]
             n == Head(queue)[2]
             s == IF d \in cancelled THEN "doomed" ELSE "running"
  <2>1. d \in Callers /\ n \in Tries /\ s \in TaskStates
    <3>1. Head(queue) \in Callers \X Tries
      BY <1>1, <1>5, HeadTailProperties DEF StartTask, TypeOK
    <3> QED BY <3>1 DEF TaskStates, Busy
  <2>2. task' = [task EXCEPT ![d][n] = s] /\ (d = c => s = "doomed")
    BY <1>5 DEF StartTask
  <2> HIDE DEF d, n, s
  <2>3. task'[c][tries[c]] = IF c = d /\ tries[c] = n THEN s ELSE task[c][tries[c]]
    BY <1>1, <1>3, <2>1, <2>2, TaskUpdate
  <2> QED BY <2>2, <2>3
<1>6. CASE Stop
  BY <1>1, <1>6 DEF Stop, Resting
<1>7. CASE Stopped
  BY <1>7 DEF Stopped
<1> QED BY <1>4, <1>5, <1>6, <1>7

\* A call whose context has ended returns after finitely many steps of its own,
\* whatever the portal answers and whoever holds the workers (ExecuteWithRetry,
\* submitAndWait): with RanksEnd this is what CancelReturns needs besides the
\* fairness of FairSpec.
THEOREM CancelledCallsEnd ==
  Spec => [](\A c \in Callers : Rank(c) \in [1..3 -> Nat]) /\ RankFalls
<1> DEFINE Falls == \A c \in cancelled :
                      /\ Call(c) \/ CallStep(c) => Below(Rank(c)', Rank(c), 3)
                      /\ Rank(c)' = Rank(c) \/ Below(Rank(c)', Rank(c), 3)
<1>1. IInv /\ [Next]_vars => [Falls]_vars
  <2> SUFFICES ASSUME IInv, Next, NEW c \in cancelled
               PROVE  /\ Call(c) \/ CallStep(c) => Below(Rank(c)', Rank(c), 3)
                      /\ Rank(c)' = Rank(c) \/ Below(Rank(c)', Rank(c), 3)
    OBVIOUS
  <2>1. c \in Callers
    BY DEF IInv, TypeOK
  <2>2. CASE Call(c) \/ CallStep(c)
    BY <2>1, <2>2, OwnStepsFall
  <2>3. CASE ~(Call(c) \/ CallStep(c))
    <3>1. ASSUME NEW d \in Callers, Call(d) \/ CallStep(d)
          PROVE  Rank(c)' = Rank(c) \/ Below(Rank(c)', Rank(c), 3)
      BY <2>1, <2>3, <3>1, OtherCallsKeepRank
    <3>2. ASSUME NEW d \in Callers, Cancel(d)
          PROVE  Rank(c)' = Rank(c) \/ Below(Rank(c)', Rank(c), 3)
      <4>1. UNCHANGED <<pc, fails, tries, task>>
        BY <3>2 DEF Cancel, callVars, poolVars
      <4> QED BY <2>1, <4>1, OthersKeepRank
    <3> QED BY <2>3, <3>1, <3>2, PoolKeepsRank DEF Next
  <2> QED BY <2>2, <2>3
<1>2. IInv => \A c \in Callers : Rank(c) \in [1..3 -> Nat]
  BY RankTuple
<1> QED BY <1>1, <1>2, Invariance, PTL DEF Spec, RankFalls
-----------------------------------------------------------------------------
(* Tasks pass through the pool once. *)

\* No task is forgotten: one that waits has its place in the queue.
Enqueued ==
  \A c \in Callers, n \in Tries :
    task[c][n] = "queued" => \E i \in 1..Len(queue) : queue[i] = <<c, n>>

\* How far a task is from its end.
Stage(s) == CASE s = "none" -> 4 [] s = "queued" -> 3 [] s \in Busy -> 2
              [] s \in Results -> 1 [] s \in {"taken", "dropped"} -> 0

\* A task only goes forward, the worker's steps take one forward, and one that was
\* never submitted is submitted by its call only.
TasksFall ==
  [][/\ \A c \in Callers, n \in Tries :
          \/ task'[c][n] = task[c][n]
          \/ Stage(task'[c][n]) < Stage(task[c][n])
     /\ StartTask => \E c \in Callers, n \in Tries :
                       task[c][n] = "queued" /\ task'[c][n] \in Busy
     /\ \A c \in Callers, n \in Tries :
          Finish(c, n) => task[c][n] \in Busy /\ task'[c][n] \in Results
     /\ \A c \in Callers, n \in Tries :
          task[c][n] = "none" /\ task'[c][n] # "none" => Allow(c)]_vars

LEMMA SubmitEffect ==
  ASSUME TypeOK, Tasks, NEW c \in Callers, tries[c] + 1 \in Tries, Submit(c, tries[c] + 1)
  PROVE  LET n == tries[c] + 1 IN
         /\ task[c][n] = "none"
         /\ \A d \in Callers, m \in Tries :
              task'[d][m] = IF d = c /\ m = n THEN "queued" ELSE task[d][m]
         /\ Len(queue) \in Nat /\ Len(queue') = Len(queue) + 1
         /\ queue'[Len(queue) + 1] = <<c, n>>
         /\ \A i \in 1..Len(queue) : queue'[i] = queue[i]
<1> DEFINE n == tries[c] + 1
<1>1. \A d \in Callers, m \in Tries :
        task'[d][m] = IF d = c /\ m = n THEN "queued" ELSE task[d][m]
  BY TaskUpdate DEF Submit, TaskStates
<1>2. task[c][n] = "none"
  <2>1. tries[c] \in Nat /\ n > tries[c]
    BY PoolAssumption DEF TypeOK
  <2> QED BY <2>1 DEF Tasks, GivenUp
<1>3. /\ queue \in Seq(Callers \X Tries) /\ <<c, n>> \in Callers \X Tries
      /\ queue' = Append(queue, <<c, n>>)
  BY DEF TypeOK, Submit
<1> HIDE DEF n
<1>4. /\ Len(queue) \in Nat /\ Len(queue') = Len(queue) + 1
      /\ queue'[Len(queue) + 1] = <<c, n>>
      /\ \A i \in 1..Len(queue) : queue'[i] = queue[i]
  BY <1>3, AppendProperties
<1> QED BY <1>1, <1>2, <1>4 DEF n

\* The worker's task is the oldest in the queue, and has its place there only.
LEMMA StartEffect ==
  ASSUME TypeOK, Tasks, StartTask
  PROVE  \E c \in Callers, n \in Tries, s \in Busy :
           /\ task[c][n] = "queued" /\ queue[1] = <<c, n>>
           /\ \A d \in Callers, m \in Tries :
                task'[d][m] = IF d = c /\ m = n THEN s ELSE task[d][m]
           /\ Len(queue) \in Nat \ {0} /\ Len(queue') = Len(queue) - 1
           /\ \A i \in 1..Len(queue') : queue'[i] = queue[i + 1]
<1> DEFINE c == Head(queue)[1]
           n == Head(queue)[2]
           s == IF c \in cancelled THEN "doomed" ELSE "running"
<1>1. /\ c \in Callers /\ n \in Tries /\ Head(queue) = <<c, n>>
      /\ Len(queue) \in Nat \ {0} /\ Head(queue) = queue[1]
      /\ Len(Tail(queue)) = Len(queue) - 1
      /\ \A i \in 1..Len(Tail(queue)) : Tail(queue)[i] = queue[i + 1]
  BY HeadTailProperties DEF StartTask, TypeOK
<1>2. task' = [task EXCEPT ![c][n] = s] /\ queue' = Tail(queue)
  BY DEF StartTask
<1>3. s \in TaskStates /\ s \in Busy
  BY DEF TaskStates, Busy
<1> HIDE DEF c, n, s
<1>4. \A d \in Callers, m \in Tries :
        task'[d][m] = IF d = c /\ m = n THEN s ELSE task[d][m]
  BY <1>1, <1>2, <1>3, TaskUpdate
<1>5. task[c][n] = "queued"
  <2>1. 1 \in 1..Len(queue) /\ queue[1][1] = c /\ queue[1][2] = n
    BY <1>1
  <2> QED BY <2>1 DEF Tasks, Queued
<1> QED BY <1>1, <1>2, <1>3, <1>4, <1>5

LEMMA FinishEffect ==
  ASSUME TypeOK, NEW c \in Callers, NEW n \in Tries, Finish(c, n)
  PROVE  /\ task[c][n] \in Busy /\ task'[c][n] \in Results /\ queue' = queue
         /\ \A d \in Callers, m \in Tries : (d = c /\ m = n) \/ task'[d][m] = task[d][m]
<1>1. PICK r \in Results : task[c][n] \in Busy /\ task' = [task EXCEPT ![c][n] = r]
                           /\ queue' = queue
  BY DEF Finish, FinishIf
<1>2. \A d \in Callers, m \in Tries :
        task'[d][m] = IF d = c /\ m = n THEN r ELSE task[d][m]
  BY <1>1, TaskUpdate DEF TaskStates
<1> QED BY <1>1, <1>2

\* What a call does to the tasks: it submits a new one or takes a result.
LEMMA CallEffect ==
  ASSUME IInv, NEW c \in Callers, Call(c) \/ CallStep(c) \/ Cancel(c)
  PROVE  \/ task' = task /\ queue' = queue
         \/ Allow(c) /\ tries[c] + 1 \in Tries /\ Submit(c, tries[c] + 1)
         \/ /\ queue' = queue
            /\ \E n \in Tries :
                 /\ task[c][n] \in Results
                 /\ \A d \in Callers, m \in Tries :
                      task'[d][m] = IF d = c /\ m = n THEN "taken" ELSE task[d][m]
<1>0. TypeOK /\ Budget
  BY DEF IInv
<1>1. CASE Allow(c)
  <2>1. tries[c] + 1 \in Tries
    BY <1>0, <1>1, PoolAssumption DEF Allow, AllowAfter, TypeOK, Tries
  <2> QED BY <1>1, <2>1 DEF Allow, AllowAfter
<1>2. CASE Answered(c)
  <2>1. /\ task[c][tries[c]] \in Results /\ queue' = queue
        /\ task' = [task EXCEPT ![c][tries[c]] = "taken"]
    BY <1>2 DEF Answered, OwnResult
  <2>2. tries[c] \in Tries
    <3>1. pc[c] = "wait"
      BY <1>2 DEF Answered
    <3> QED BY <1>0, <3>1, PoolAssumption DEF Budget, TypeOK, Tries
  <2>3. \A d \in Callers, m \in Tries :
          task'[d][m] = IF d = c /\ m = tries[c] THEN "taken" ELSE task[d][m]
    BY <1>0, <2>1, <2>2, TaskUpdate DEF TaskStates
  <2> QED BY <2>1, <2>2, <2>3
<1>3. CASE Call(c) \/ ContextDone(c) \/ Wake(c) \/ ReadValue(c) \/ Cancel(c)
  BY <1>3 DEF Call, ContextDone, ContextDoneIf, Wake, ReadValue, Cancel, poolVars
<1> QED BY <1>1, <1>2, <1>3 DEF CallStep

LEMMA StopEffect ==
  ASSUME TypeOK, Stop
  PROVE  \/ task' = task /\ queue' = queue
         \/ /\ queue' = <<>>
            /\ \A d \in Callers, m \in Tries :
                 task'[d][m] = IF task[d][m] = "queued" THEN "dropped" ELSE task[d][m]
  BY DEF Stop, TypeOK

LEMMA EnqueuedKeeps == IInv /\ Enqueued /\ [Next]_vars => Enqueued'
<1> SUFFICES ASSUME IInv, Enqueued, [Next]_vars PROVE Enqueued'
  OBVIOUS
<1>1. TypeOK /\ Tasks
  BY DEF IInv
<1>2. CASE task' = task /\ queue' = queue
  BY <1>2 DEF Enqueued
<1>3. ASSUME NEW c \in Callers, tries[c] + 1 \in Tries, Submit(c, tries[c] + 1)
      PROVE  Enqueued'
  <2> SUFFICES ASSUME NEW d \in Callers, NEW m \in Tries, task'[d][m] = "queued"
               PROVE  \E i \in 1..Len(queue') : queue'[i] = <<d, m>>
    BY DEF Enqueued
  <2>1. CASE d = c /\ m = tries[c] + 1
    <3>1. queue'[Len(queue) + 1] = <<d, m>> /\ Len(queue) + 1 \in 1..Len(queue')
      BY <1>1, <1>3, <2>1, SubmitEffect
    <3> QED BY <3>1
  <2>2. CASE ~(d = c /\ m = tries[c] + 1)
    <3>1. task[d][m] = "queued"
      BY <1>1, <1>3, <2>2, SubmitEffect
    <3>2. PICK i \in 1..Len(queue) : queue[i] = <<d, m>>
      BY <3>1 DEF Enqueued
    <3>3. i \in 1..Len(queue') /\ queue'[i] = <<d, m>>
      BY <1>1, <1>3, <3>2, SubmitEffect
    <3> QED BY <3>3
  <2> QED BY <2>1, <2>2
<1>4. CASE StartTask
  <2>1. PICK c \in Callers, n \in Tries, s \in Busy :
           /\ task[c][n] = "queued" /\ queue[1] = <<c, n>>
           /\ \A d \in Callers, m \in Tries :
                task'[d][m] = IF d = c /\ m = n THEN s ELSE task[d][m]
           /\ Len(queue) \in Nat \ {0} /\ Len(queue') = Len(queue) - 1
           /\ \A i \in 1..Len(queue') : queue'[i] = queue[i + 1]
    BY <1>1, <1>4, StartEffect
  <2> SUFFICES ASSUME NEW d \in Callers, NEW m \in Tries, task'[d][m] = "queued"
               PROVE  \E i \in 1..Len(queue') : queue'[i] = <<d, m>>
    BY DEF Enqueued
  <2>2. task[d][m] = "queued" /\ ~(d = c /\ m = n)
    BY <2>1 DEF Busy
  <2>3. PICK i \in 1..Len(queue) : queue[i] = <<d, m>>
    BY <2>2 DEF Enqueued
  <2>4. i # 1
    BY <2>1, <2>2, <2>3
  <2>5. i - 1 \in 1..Len(queue') /\ (i - 1) + 1 = i
    BY <2>1, <2>4
  <2>6. queue'[i - 1] = <<d, m>>
    BY <2>1, <2>3, <2>5
  <2> QED BY <2>5, <2>6
<1>5. ASSUME NEW c \in Callers, NEW n \in Tries, Finish(c, n)
      PROVE  Enqueued'
  <2>1. /\ task'[c][n] \in Results /\ queue' = queue
        /\ \A d \in Callers, m \in Tries : (d = c /\ m = n) \/ task'[d][m] = task[d][m]
    BY <1>1, <1>5, FinishEffect
  <2>2. task'[c][n] # "queued"
    BY <2>1 DEF Results
  <2> QED BY <2>1, <2>2 DEF Enqueued
<1>6. ASSUME NEW c \in Callers, Call(c) \/ CallStep(c) \/ Cancel(c)
      PROVE  Enqueued'
  <2>1. CASE /\ queue' = queue
             /\ \E n \in Tries :
                  /\ task[c][n] \in Results
                  /\ \A d \in Callers, m \in Tries :
                       task'[d][m] = IF d = c /\ m = n THEN "taken" ELSE task[d][m]
    BY <2>1 DEF Enqueued
  <2> QED BY <1>1, <1>2, <1>3, <1>6, <2>1, CallEffect
<1>7. CASE Stop
  <2>1. CASE /\ queue' = <<>>
             /\ \A d \in Callers, m \in Tries :
                  task'[d][m] = IF task[d][m] = "queued" THEN "dropped" ELSE task[d][m]
    BY <2>1 DEF Enqueued
  <2> QED BY <1>1, <1>2, <1>7, <2>1, StopEffect
<1>8. CASE Stopped \/ UNCHANGED vars
  BY <1>2, <1>8 DEF Stopped, vars, poolVars
<1> QED BY <1>4, <1>5, <1>6, <1>7, <1>8 DEF Next

\* One step takes the tasks it touches forward.
Forward == \A c \in Callers, n \in Tries :
             task'[c][n] = task[c][n] \/ Stage(task'[c][n]) < Stage(task[c][n])

Begins == \A c \in Callers, n \in Tries :
            task[c][n] = "none" /\ task'[c][n] # "none" => Allow(c)

LEMMA StepForward == ASSUME IInv, [Next]_vars PROVE Forward /\ Begins
<1> USE DEF Forward, Begins
<1>1. TypeOK /\ Tasks
  BY DEF IInv
<1>2. CASE task' = task
  BY <1>2
<1>3. ASSUME NEW c \in Callers, Allow(c), tries[c] + 1 \in Tries, Submit(c, tries[c] + 1)
      PROVE  Forward /\ Begins
  <2>1. task[c][tries[c] + 1] = "none"
        /\ \A d \in Callers, m \in Tries :
             task'[d][m] = IF d = c /\ m = tries[c] + 1 THEN "queued" ELSE task[d][m]
    BY <1>1, <1>3, SubmitEffect
  <2>2. Stage("queued") < Stage("none")
    BY DEF Stage, Busy, Results
  <2> QED BY <1>3, <2>1, <2>2
<1>4. CASE StartTask
  <2>1. PICK c \in Callers, n \in Tries, s \in Busy :
           /\ task[c][n] = "queued"
           /\ \A d \in Callers, m \in Tries :
                task'[d][m] = IF d = c /\ m = n THEN s ELSE task[d][m]
    BY <1>1, <1>4, StartEffect
  <2>2. Stage(s) < Stage("queued")
    BY DEF Stage, Busy, Results
  <2> QED BY <2>1, <2>2
<1>5. ASSUME NEW c \in Callers, NEW n \in Tries, Finish(c, n)
      PROVE  Forward /\ Begins
  <2>1. /\ task[c][n] \in Busy /\ task'[c][n] \in Results
        /\ \A d \in Callers, m \in Tries : (d = c /\ m = n) \/ task'[d][m] = task[d][m]
    BY <1>1, <1>5, FinishEffect
  <2>2. Stage(task'[c][n]) < Stage(task[c][n]) /\ task[c][n] # "none"
    BY <2>1 DEF Stage, Busy, Results
  <2> QED BY <2>1, <2>2
<1>6. ASSUME NEW c \in Callers, Call(c) \/ CallStep(c) \/ Cancel(c)
      PROVE  Forward /\ Begins
  <2>1. ASSUME NEW n \in Tries, task[c][n] \in Results,
               \A d \in Callers, m \in Tries :
                 task'[d][m] = IF d = c /\ m = n THEN "taken" ELSE task[d][m]
        PROVE  Forward /\ Begins
    <3>1. Stage("taken") < Stage(task[c][n]) /\ task[c][n] # "none"
      BY <2>1 DEF Stage, Busy, Results
    <3> QED BY <2>1, <3>1
  <2> QED BY <1>1, <1>2, <1>3, <1>6, <2>1, CallEffect
<1>7. CASE Stop
  <2>1. CASE \A d \in Callers, m \in Tries :
               task'[d][m] = IF task[d][m] = "queued" THEN "dropped" ELSE task[d][m]
    <3>1. Stage("dropped") < Stage("queued")
      BY DEF Stage, Busy, Results
    <3> QED BY <2>1, <3>1
  <2> QED BY <1>1, <1>2, <1>7, <2>1, StopEffect
<1>8. CASE Stopped \/ UNCHANGED vars
  BY <1>2, <1>8 DEF Stopped, vars, poolVars
<1> QED BY <1>4, <1>5, <1>6, <1>7, <1>8 DEF Next

\* A task of the pool is queued, run and answered once, and none is forgotten:
\* what TasksDrain and StopEnds need besides the fairness of FairSpec, for a
\* call that has returned submits nothing more (submitAndWait, workerpool).
THEOREM TasksEnd == Spec => []Enqueued /\ TasksFall
<1> DEFINE Falls ==
      /\ \A c \in Callers, n \in Tries :
           \/ task'[c][n] = task[c][n]
           \/ Stage(task'[c][n]) < Stage(task[c][n])
      /\ StartTask => \E c \in Callers, n \in Tries :
                        task[c][n] = "queued" /\ task'[c][n] \in Busy
      /\ \A c \in Callers, n \in Tries :
           Finish(c, n) => task[c][n] \in Busy /\ task'[c][n] \in Results
      /\ \A c \in Callers, n \in Tries :
           task[c][n] = "none" /\ task'[c][n] # "none" => Allow(c)
<1>1. IInv /\ [Next]_vars => [Falls]_vars
  <2> SUFFICES ASSUME IInv, Next PROVE Falls
    OBVIOUS
  <2>1. TypeOK /\ Tasks
    BY DEF IInv
  <2>2. StartTask => \E c \in Callers, n \in Tries :
                       task[c][n] = "queued" /\ task'[c][n] \in Busy
    <3> SUFFICES ASSUME StartTask
                 PROVE  \E c \in Callers, n \in Tries :
                          task[c][n] = "queued" /\ task'[c][n] \in Busy
      OBVIOUS
    <3>1. PICK c \in Callers, n \in Tries, s \in Busy :
             /\ task[c][n] = "queued"
             /\ \A d \in Callers, m \in Tries :
                  task'[d][m] = IF d = c /\ m = n THEN s ELSE task[d][m]
      BY <2>1, StartEffect
    <3> QED BY <3>1
  <2> QED BY <2>1, <2>2, StepForward, FinishEffect DEF Forward, Begins
<1>2. Init => Enqueued
  BY DEF Init, Enqueued
<1> QED BY <1>1, <1>2, EnqueuedKeeps, Invariance, PTL DEF Spec, TasksFall


=============================================================================
