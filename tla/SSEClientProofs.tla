---------------------------- MODULE SSEClientProofs ----------------------------
(***************************************************************************)
(* Why Stop of the SSE client leaves nothing behind, for any number of     *)
(* connections, stoppers and events.  The inductive invariant says which   *)
(* goroutine owns the current connection (Ownership), that an open stream  *)
(* nobody cancelled is always the published one (Published), what Stop has *)
(* achieved when it is past connMu (Closing), and what wg counts           *)
(* (Counting).                                                             *)
(***************************************************************************)
EXTENDS SSEClient, FiniteSetTheorems, SequenceTheorems, Ranks, TLAPS

Opening == {"publish", "dial", "unpublish", "dialfailed"}
Opened_ == {"opened", "report", "spawn"}
Reading == {"recv", "dispatch"}
PastCancel == {"state", "report", "wait", "stopped"}

\* The handler goroutines that have not run their wg.Done yet.
Running == {k \in Conns : pc[k] \notin {"idle", "ended"}}
Polling == IF poller \in {"read", "fire", "sleep"} THEN 1 ELSE 0

\* A step of goroutine g that takes over, gives up, opens or ends nothing.
PlainMove(g, from, to) ==
  /\ Go(g, from, to)
  /\ from \notin RestLabels
  /\ to # "idle"
  /\ to = "ended" => g = Starter
  /\ to \in Opening => from \in Opening
  /\ to \in Opened_ => from \in Opened_
  /\ from \in Opened_ => to \in Opened_ \/ done
  /\ from \in Reading => to \in Reading \/ done \/ reader[g] # "reading"
  /\ UNCHANGED <<done, wg, made, dial, reader, poller, stop>>

Ownership ==
  /\ pc[Starter] = "idle" => poller = "off" /\ \A k \in Conns : pc[k] = "idle"
  /\ \A k \in Conns : k > made => reader[k] = "none" /\ pc[k] = "idle"
  /\ \A g \in Goroutines :
       pc[g] \in OpenLabels => dial[g] \in Conns /\ dial[g] <= made /\ pc[dial[g]] = "idle"
  /\ \A g \in Goroutines : pc[g] \in Opening => reader[dial[g]] = "none"
  /\ OneStream

Published ==
  /\ \A k \in Conns : reader[k] = "reading" => conn = k \/ k \in cancelled
  /\ \A g \in Goroutines : pc[g] = "dial" => conn = dial[g] \/ dial[g] \in cancelled
  /\ \A k \in Conns :
       ~done /\ reader[k] = "reading"
         => \/ pc[k] \in Reading
            \/ \E g \in Goroutines : dial[g] = k /\ pc[g] \in Opened_

Closing ==
  \A s \in Stoppers :
    /\ stop[s] # "idle" => done
    /\ stop[s] \in PastCancel => conn = NoConn
    /\ stop[s] = "stopped" => Running = {}

Counting == wg = Cardinality(Running) + Polling

IInv == TypeOK /\ Ownership /\ Published /\ Closing /\ Counting

-------------------------------------------------------------------------------
(* Types *)

\* Every place a goroutine can be in is a label.
LEMMA LabelFacts ==
  /\ "publish" \in Labels /\ "dial" \in Labels /\ "unpublish" \in Labels /\ "dialfailed" \in Labels /\ "opened" \in Labels /\ "report" \in Labels /\ "spawn" \in Labels
  /\ "check" \in Labels /\ "connecting" \in Labels /\ "backoff" \in Labels /\ "giveup" \in Labels /\ "recv" \in Labels /\ "dispatch" \in Labels /\ "dropped" \in Labels
  /\ "reportdrop" \in Labels /\ "reconnecting" \in Labels /\ "idle" \in Labels /\ "exit" \in Labels /\ "ended" \in Labels
BY DEF Labels, OpenLabels, RetryLabels, StreamLabels, RestLabels

\* The places chosen after Connect are labels.
LEMMA TargetFacts ==
  ASSUME NEW g
  PROVE  Finish(g) \in Labels /\ OnClosed(g) \in Labels /\ OnFailure(g) \in Labels
BY LabelFacts DEF Finish, OnClosed, OnFailure

\* A move to a label keeps pc a function from goroutines to labels.
LEMMA GoType ==
  ASSUME pc \in [Goroutines -> Labels], NEW g \in Goroutines, NEW from, NEW to \in Labels,
         Go(g, from, to)
  PROVE  pc' \in [Goroutines -> Labels]
BY DEF Go

\* Goroutine 0 and the handlers are goroutines.
LEMMA GoroutineFacts == Starter \in Goroutines /\ Conns \subseteq Goroutines /\ Starter \notin Conns
BY BoundsAssumption, SMT DEF Starter, Goroutines, Conns

\* The steps of Connect and of the two retry loops keep the types.
LEMMA ConnectTypes ==
  ASSUME TypeOK, Ownership, NEW g \in Goroutines, ConnectStep(g), wg' \in Nat
  PROVE  TypeOK'
<1> USE LabelFacts DEF TypeOK, clientVars, connVars, pollVars, envVars, nonPc, States
<1>1. CASE Check(g)
  BY <1>1, SMT DEF Check, Jump, Go, OnClosed, Finish
<1>2. CASE Connecting(g)
  <2>1. made + 1 \in Conns /\ made + 1 \in 0..MaxConns
    BY <1>2, BoundsAssumption, SMT DEF Connecting, Conns
  <2>2. pc' \in [Goroutines -> Labels]
    BY <1>2, GoType DEF Connecting
  <2>3. /\ made' \in 0..MaxConns
        /\ dial' \in [Goroutines -> 0..MaxConns]
        /\ pos' \in [Conns -> 0..MaxEvents]
    BY <1>2, <2>1 DEF Connecting
  <2> QED
    BY <1>2, <2>2, <2>3 DEF Connecting
<1>3. CASE Publish(g)
  <2>1. Go(g, "publish", OnClosed(g)) \/ Go(g, "publish", "dial")
    BY <1>3 DEF Publish, PublishIf
  <2>2. pc' \in [Goroutines -> Labels]
    BY <2>1, TargetFacts, GoType
  <2>3. dial[g] \in Conns
    BY <1>3, SMT DEF Publish, PublishIf, Go, Ownership, OpenLabels
  <2>4. cancelled' \subseteq Conns
    BY <1>3, <2>3 DEF Publish, PublishIf
  <2>5. conn' \in 0..MaxConns
    BY <1>3 DEF Publish, PublishIf
  <2> QED
    BY <1>3, <2>2, <2>4, <2>5, SMT DEF Publish, PublishIf
<1>4. CASE DialOK(g)
  BY <1>4, BoundsAssumption, SMT DEF DialOK, Go, Ownership, OpenLabels
<1>5. CASE DialFail(g)
  BY <1>5, SMT DEF DialFail, Jump, Go
<1>6. CASE Unpublish(g)
  BY <1>6, BoundsAssumption, SMT DEF Unpublish, Go, NoConn
<1>7. CASE DialFailed(g)
  BY <1>7, SMT DEF DialFailed, Go, OnFailure
<1>8. CASE Opened(g)
  BY <1>8, SMT DEF Opened, SetState, Go
<1>9. CASE Report(g)
  BY <1>9, SMT DEF Report, FireConnected, Go
<1>10. CASE Spawn(g)
  <2>1. dial[g] \in Conns /\ dial[g] \in Goroutines
    BY <1>10, SMT DEF Spawn, SpawnThen, Go, Ownership, OpenLabels, Conns, Goroutines
  <2>2. \/ Go(g, "spawn", OnClosed(g))
        \/ pc' = [pc EXCEPT ![dial[g]] = "recv", ![g] = Finish(g)]
    BY <1>10 DEF Spawn, SpawnThen
  <2>3. pc' \in [Goroutines -> Labels]
    <3>1. CASE Go(g, "spawn", OnClosed(g))
      BY <3>1, TargetFacts, GoType
    <3>2. CASE pc' = [pc EXCEPT ![dial[g]] = "recv", ![g] = Finish(g)]
      <4>1. Finish(g) \in Labels
        BY TargetFacts
      <4> DEFINE spawned == [pc EXCEPT ![dial[g]] = "recv"]
      <4>2. spawned \in [Goroutines -> Labels]
        BY <2>1
      <4>3. pc' = [spawned EXCEPT ![g] = Finish(g)]
        BY <3>2
      <4> HIDE DEF spawned
      <4> QED
        BY <4>1, <4>2, <4>3
    <3> QED
      BY <2>2, <3>1, <3>2
  <2>4. cancelled' \subseteq Conns
    BY <1>10, <2>1, SMT DEF Spawn, SpawnThen
  <2> QED
    BY <1>10, <2>3, <2>4, SMT DEF Spawn, SpawnThen
<1>11. CASE Backoff(g)
  <2>1. CASE Jump(g, "backoff", "check")
    BY <2>1, SMT DEF Jump, Go
  <2>2. CASE Jump(g, "backoff", IF g = Starter THEN "giveup" ELSE "exit")
    BY <2>2, SMT DEF Jump, Go
  <2> QED BY <1>11, <2>1, <2>2 DEF Backoff
<1>12. CASE GiveUp(g)
  BY <1>12, SMT DEF GiveUp, SetState, Go, Finish
<1> QED
  BY <1>1, <1>2, <1>3, <1>4, <1>5, <1>6, <1>7, <1>8, <1>9, <1>10, <1>11, <1>12
     DEF ConnectStep

\* The steps of a handler goroutine and of a reader keep the types.
LEMMA HandlerTypes ==
  ASSUME TypeOK, NEW k \in Conns, HandlerStep(k) \/ ReaderStep(k), wg' \in Nat
  PROVE  TypeOK'
<1> USE LabelFacts DEF TypeOK, clientVars, connVars, goVars, pollVars, envVars, nonPc, States
<1>0. k \in Goroutines
  BY GoroutineFacts
<1>1. CASE Recv(k)
  <2>1. chan[k] \in Seq(0..MaxEvents) /\ chan[k] # <<>>
    BY <1>1 DEF Recv, RecvMoving
  <2>2. Head(chan[k]) \in 0..MaxEvents /\ Tail(chan[k]) \in Seq(0..MaxEvents)
    BY <2>1, HeadTailProperties
  <2>3. \/ Go(k, "recv", "recv")
        \/ Go(k, "recv", IF Head(chan[k]) \in Routed THEN "dispatch" ELSE "recv")
    BY <1>1 DEF Recv, RecvMoving
  <2>4. pc' \in [Goroutines -> Labels]
    BY <2>3, <1>0, GoType
  <2>5. lastEventID' \in {lastEventID, Head(chan[k])}
    BY <1>1 DEF Recv, RecvMoving
  <2>6. event' = event \/ event' = [event EXCEPT ![k] = Head(chan[k])]
    BY <1>1 DEF Recv, RecvMoving
  <2>7. event' \in [Conns -> 0..MaxEvents]
    BY <2>6, <2>2
  <2>8. lastEventID' \in 0..MaxEvents
    BY <2>5, <2>2
  <2>9. chan' \in [Conns -> Seq(0..MaxEvents)]
    BY <1>1, <2>2 DEF Recv, RecvMoving
  <2> QED
    BY <1>1, <2>4, <2>7, <2>8, <2>9 DEF Recv, RecvMoving
<1>2. CASE Dispatch(k)
  BY <1>0, <1>2, SMT DEF Dispatch, Go
<1>3. CASE RecvDone(k)
  BY <1>0, <1>3, SMT DEF RecvDone, Jump, Go
<1>4. CASE RecvClosed(k)
  BY <1>0, <1>4, SMT DEF RecvClosed, Jump, Go
<1>5. CASE Dropped(k)
  BY <1>0, <1>5, SMT DEF Dropped, SetState, Go
<1>6. CASE ReportDrop(k)
  <2>1. Go(k, "reportdrop", "reconnecting") \/ Go(k, "reportdrop", "exit")
    BY <1>6 DEF ReportDrop, FireConnected
  <2>2. pc' \in [Goroutines -> Labels]
    BY <1>0, <2>1, GoType
  <2>3. /\ reported' = FALSE
        /\ UNCHANGED <<options, done, state, conn, wg, lastEventID, connVars,
                       dial, tries, event, pollVars, stop, envVars>>
    BY <1>6 DEF ReportDrop, FireConnected
  <2> QED
    BY <2>2, <2>3
<1>7. CASE Reconnecting(k)
  BY <1>0, <1>7, SMT DEF Reconnecting, SetState, Go
<1>8. CASE Exit(k)
  BY <1>0, <1>8, SMT DEF Exit, ExitCounting, Go
<1>9. CASE ReadEvent(k)
  BY <1>9, BoundsAssumption, SMT DEF ReadEvent
<1>10. CASE ReadError(k)
  BY <1>10, BoundsAssumption, SMT DEF ReadError, ErrorFrame
<1>11. CASE ReadEnd(k)
  BY <1>11, SMT DEF ReadEnd
<1> QED
  BY <1>1, <1>2, <1>3, <1>4, <1>5, <1>6, <1>7, <1>8, <1>9, <1>10, <1>11
     DEF HandlerStep, ReaderStep

\* So do Start, the poller, Stop and the portal.
LEMMA OtherTypes ==
  ASSUME TypeOK, wg' \in Nat,
         \/ Start \/ PollStep \/ PortalPublish
         \/ \E s \in Stoppers : StopClose(s) \/ StopStep(s)
  PROVE  TypeOK'
<1> USE DEF TypeOK, clientVars, connVars, goVars, pollVars, envVars
<1>1. CASE Start
  <2>1. Go(Starter, "idle", "check") \/ Go(Starter, "idle", "giveup")
    BY <1>1 DEF Start
  <2>2. pc' \in [Goroutines -> Labels]
    BY <2>1, GoroutineFacts, LabelFacts, GoType
  <2> QED
    BY <1>1, <2>2, SMT DEF Start
<1>2. CASE PollStep
  <2>1. CASE PollRead
    BY <2>1 DEF PollRead
  <2>2. CASE PollFire
    BY <2>2 DEF PollFire
  <2>3. CASE PollTick
    BY <2>3 DEF PollTick
  <2>4. CASE PollExit
    BY <2>4 DEF PollExit
  <2> QED
    BY <1>2, <2>1, <2>2, <2>3, <2>4 DEF PollStep
<1>3. CASE PortalPublish
  BY <1>3, BoundsAssumption, SMT DEF PortalPublish
<1>4. ASSUME NEW s \in Stoppers, StopClose(s)
      PROVE  TypeOK'
  BY <1>4, SMT DEF StopClose, Advance
<1>5. ASSUME NEW s \in Stoppers, StopCancel(s)
      PROVE  TypeOK'
  <2>1. cancelled' \subseteq Conns
    BY <1>5, BoundsAssumption, SMT DEF StopCancel, CancelOnly, NoConn, Conns
  <2>2. conn' \in 0..MaxConns
    BY <1>5, BoundsAssumption, SMT DEF StopCancel, CancelOnly, NoConn
  <2> QED
    BY <1>5, <2>1, <2>2, SMT DEF StopCancel, CancelOnly, Advance
<1>6. ASSUME NEW s \in Stoppers, StopState(s)
      PROVE  TypeOK'
  BY <1>6 DEF StopState, Advance, States
<1>7. ASSUME NEW s \in Stoppers, StopReport(s)
      PROVE  TypeOK'
  BY <1>7 DEF StopReport, Advance
<1>8. ASSUME NEW s \in Stoppers, StopWait(s)
      PROVE  TypeOK'
  BY <1>8 DEF StopWait, Advance
<1> QED
  BY <1>1, <1>2, <1>3, <1>4, <1>5, <1>6, <1>7, <1>8 DEF StopStep
-------------------------------------------------------------------------------
(* Moves that keep the ownership of connections *)

\* Every step of a goroutine except the ones that create a connection, open a
\* stream, start a handler or end one is a plain move.
LEMMA ConnectMoves ==
  ASSUME TypeOK, NEW g \in Goroutines,
         \/ Check(g) \/ Publish(g) \/ DialFail(g) \/ Unpublish(g) \/ DialFailed(g)
         \/ Opened(g) \/ Report(g) \/ Backoff(g) \/ GiveUp(g) \/ (done /\ Spawn(g))
  PROVE  \E from, to \in Labels : PlainMove(g, from, to)
<1> USE LabelFacts DEF PlainMove, Opening, Opened_, Reading, RestLabels, clientVars, connVars,
        pollVars, nonPc
<1>0. /\ Finish(g) \in Labels /\ Finish(g) \in {"exit", "ended"}
      /\ Finish(g) = "ended" => g = Starter
      /\ OnClosed(g) \in Labels /\ OnClosed(g) \in {"giveup", "exit", "ended"}
      /\ OnClosed(g) = "ended" => g = Starter
      /\ OnFailure(g) \in Labels /\ OnFailure(g) \in {"giveup", "backoff"}
  BY TargetFacts DEF Finish, OnClosed, OnFailure
<1>1. CASE Check(g)
  <2>1. CASE done
    <3>1. PlainMove(g, "check", OnClosed(g))
      BY <1>0, <1>1, <2>1 DEF Check, Jump
    <3> QED BY <1>0, <3>1
  <2>2. CASE ~done
    <3>1. PlainMove(g, "check", "connecting")
      BY <1>1, <2>2 DEF Check, Jump
    <3> QED BY <3>1
  <2> QED BY <2>1, <2>2
<1>2. CASE Publish(g)
  <2>1. CASE done
    <3>1. PlainMove(g, "publish", OnClosed(g))
      BY <1>0, <1>2, <2>1 DEF Publish, PublishIf
    <3> QED BY <1>0, <3>1
  <2>2. CASE ~done
    <3>1. PlainMove(g, "publish", "dial")
      BY <1>2, <2>2 DEF Publish, PublishIf
    <3> QED BY <3>1
  <2> QED BY <2>1, <2>2
<1>3. CASE DialFail(g)
  <2>1. PlainMove(g, "dial", "unpublish")
    BY <1>3 DEF DialFail, Jump
  <2> QED BY <2>1
<1>4. CASE Unpublish(g)
  <2>1. PlainMove(g, "unpublish", "dialfailed")
    BY <1>4 DEF Unpublish
  <2> QED BY <2>1
<1>5. CASE DialFailed(g)
  <2>1. PlainMove(g, "dialfailed", OnFailure(g))
    BY <1>0, <1>5 DEF DialFailed
  <2> QED BY <1>0, <2>1
<1>6. CASE Opened(g)
  <2>1. PlainMove(g, "opened", "report")
    BY <1>6 DEF Opened, SetState
  <2> QED BY <2>1
<1>7. CASE Report(g)
  <2>1. PlainMove(g, "report", "spawn")
    BY <1>7 DEF Report, FireConnected
  <2> QED BY <2>1
<1>8. CASE Backoff(g)
  <2>1. CASE Jump(g, "backoff", "check")
    <3>1. PlainMove(g, "backoff", "check")
      BY <2>1 DEF Jump
    <3> QED BY <3>1
  <2>2. CASE Jump(g, "backoff", IF g = Starter THEN "giveup" ELSE "exit")
    <3>1. PlainMove(g, "backoff", IF g = Starter THEN "giveup" ELSE "exit")
      BY <2>2 DEF Jump
    <3> QED BY <3>1
  <2> QED BY <1>8, <2>1, <2>2 DEF Backoff
<1>9. CASE GiveUp(g)
  <2>1. PlainMove(g, "giveup", Finish(g))
    BY <1>0, <1>9 DEF GiveUp, SetState
  <2> QED BY <1>0, <2>1
<1>10. CASE done /\ Spawn(g)
  <2>1. PlainMove(g, "spawn", OnClosed(g))
    BY <1>0, <1>10 DEF Spawn, SpawnThen
  <2> QED BY <1>0, <2>1
<1> QED
  BY <1>1, <1>2, <1>3, <1>4, <1>5, <1>6, <1>7, <1>8, <1>9, <1>10

\* The steps of a handler from its wait to its drop are plain moves, and none
\* leads straight to an open request.
LEMMA HandlerMoves ==
  ASSUME TypeOK, NEW g \in Conns,
         \/ Recv(g) \/ Dispatch(g) \/ RecvDone(g) \/ RecvClosed(g) \/ Dropped(g)
         \/ ReportDrop(g) \/ Reconnecting(g)
  PROVE  \E from, to \in Labels : PlainMove(g, from, to) /\ to \notin OpenLabels
<1> USE LabelFacts DEF PlainMove, Opening, Opened_, Reading, OpenLabels, RestLabels, clientVars,
        connVars, pollVars, nonPc
<1>1. CASE Recv(g)
  <2>1. CASE Go(g, "recv", "recv")
    <3>1. PlainMove(g, "recv", "recv")
      BY <1>1, <2>1 DEF Recv, RecvMoving
    <3> QED BY <3>1
  <2>2. CASE Go(g, "recv", IF Head(chan[g]) \in Routed THEN "dispatch" ELSE "recv")
    <3>1. PlainMove(g, "recv", IF Head(chan[g]) \in Routed THEN "dispatch" ELSE "recv")
      BY <1>1, <2>2 DEF Recv, RecvMoving
    <3> QED BY <3>1
  <2> QED BY <1>1, <2>1, <2>2 DEF Recv, RecvMoving
<1>2. CASE Dispatch(g)
  <2>1. PlainMove(g, "dispatch", "recv")
    BY <1>2 DEF Dispatch
  <2> QED BY <2>1
<1>3. CASE RecvDone(g)
  <2>1. PlainMove(g, "recv", "exit")
    BY <1>3 DEF RecvDone, Jump
  <2> QED BY <2>1
<1>4. CASE RecvClosed(g)
  <2>1. PlainMove(g, "recv", "dropped")
    BY <1>4 DEF RecvClosed, Jump
  <2> QED BY <2>1
<1>5. CASE Dropped(g)
  <2>1. PlainMove(g, "dropped", "reportdrop")
    BY <1>5 DEF Dropped, SetState
  <2> QED BY <2>1
<1>6. CASE ReportDrop(g)
  <2>1. PlainMove(g, "reportdrop", IF options.reconnect THEN "reconnecting" ELSE "exit")
    BY <1>6 DEF ReportDrop, FireConnected
  <2> QED BY <2>1
<1>7. CASE Reconnecting(g)
  <2>1. PlainMove(g, "reconnecting", "backoff")
    BY <1>7 DEF Reconnecting, SetState
  <2> QED BY <2>1
<1> QED
  BY <1>1, <1>2, <1>3, <1>4, <1>5, <1>6, <1>7

\* A plain move keeps who owns what, the flags Stop has set and the count of wg.
LEMMA PlainMoveKeeps ==
  ASSUME TypeOK, NEW g \in Goroutines, NEW from \in Labels, NEW to \in Labels,
         PlainMove(g, from, to)
  PROVE  /\ Ownership => Ownership'
         /\ Counting => Counting'
         /\ Closing /\ conn' = conn => Closing'
<1> USE DEF PlainMove, Go, TypeOK
<1>1. Running' = Running
  BY GoroutineFacts DEF Running, RestLabels
<1>2. ASSUME Ownership PROVE Ownership'
  <2>1. pc'[Starter] = "idle" => poller' = "off" /\ \A k \in Conns : pc'[k] = "idle"
    BY <1>2, GoroutineFacts DEF Ownership, RestLabels
  <2>2. \A k \in Conns : k > made' => reader'[k] = "none" /\ pc'[k] = "idle"
    BY <1>2, GoroutineFacts DEF Ownership, RestLabels
  <2>3. \A h \in Goroutines : pc'[h] \in OpenLabels
          => dial'[h] \in Conns /\ dial'[h] <= made' /\ pc'[dial'[h]] = "idle"
    BY <1>2, GoroutineFacts DEF Ownership, RestLabels, OpenLabels, Opening, Opened_
  <2>4. \A h \in Goroutines : pc'[h] \in Opening => reader'[dial'[h]] = "none"
    BY <1>2 DEF Ownership
  <2>5. OneStream'
    BY <1>2 DEF Ownership, OneStream, Active
  <2> QED
    BY <2>1, <2>2, <2>3, <2>4, <2>5 DEF Ownership
<1>3. Counting => Counting'
  BY <1>1 DEF Counting, Polling
<1>4. Closing /\ conn' = conn => Closing'
  BY <1>1 DEF Closing
<1> QED
  BY <1>2, <1>3, <1>4

\* A plain move that neither starts a request nor touches conn keeps every open
\* stream published or cancelled.
LEMMA PlainMovePublished ==
  ASSUME TypeOK, NEW g \in Goroutines, NEW from \in Labels, NEW to \in Labels,
         PlainMove(g, from, to), to # "dial", conn' = conn, cancelled \subseteq cancelled',
         Published
  PROVE  Published'
<1> USE DEF PlainMove, Go, TypeOK
<1>1. \A k \in Conns : reader'[k] = "reading" => conn' = k \/ k \in cancelled'
  BY DEF Published
<1>2. \A h \in Goroutines : pc'[h] = "dial" => conn' = dial'[h] \/ dial'[h] \in cancelled'
  BY DEF Published
<1>3. ASSUME NEW k \in Conns, ~done', reader'[k] = "reading"
      PROVE  \/ pc'[k] \in Reading
             \/ \E h \in Goroutines : dial'[h] = k /\ pc'[h] \in Opened_
  <2>1. CASE pc[k] \in Reading
    BY <1>3, <2>1, GoroutineFacts
  <2>2. CASE \E h \in Goroutines : dial[h] = k /\ pc[h] \in Opened_
    BY <1>3, <2>2
  <2> QED BY <1>3, <2>1, <2>2 DEF Published
<1> QED
  BY <1>1, <1>2, <1>3 DEF Published

\* While a goroutine is on its way to a new stream and the client is open, no
\* other goroutine is active and no stream is being read.
LEMMA NobodyElse ==
  ASSUME TypeOK, Ownership, Published, NEW g \in Goroutines,
         Active(g), pc[g] \notin Opened_, pc[g] \notin Reading
  PROVE  /\ \A h \in Goroutines : h # g => pc[h] \in RestLabels
         /\ \A k \in Conns : reader[k] = "reading" => done
<1>1. \A h \in Goroutines : h # g => pc[h] \in RestLabels
  BY DEF Ownership, OneStream, Active
<1>2. ASSUME NEW k \in Conns, reader[k] = "reading", ~done
      PROVE  FALSE
  <2>1. CASE pc[k] \in Reading
    BY <1>1, <2>1, GoroutineFacts DEF Reading, RestLabels
  <2>2. ASSUME NEW h \in Goroutines, dial[h] = k, pc[h] \in Opened_
        PROVE  FALSE
    BY <1>1, <2>2 DEF Opened_, RestLabels
  <2> QED BY <1>2, <2>1, <2>2 DEF Published
<1> QED
  BY <1>1, <1>2

\* The two steps that write conn keep every open stream published.
LEMMA ConnWrites ==
  ASSUME TypeOK, Ownership, Published, NEW g \in Goroutines, Publish(g) \/ Unpublish(g)
  PROVE  Published'
<1> USE DEF Go, TypeOK
<1>1. pc[g] \in {"publish", "unpublish"} /\ dial[g] \in Conns /\ reader[dial[g]] = "none"
  BY DEF Publish, PublishIf, Unpublish, Ownership, OpenLabels, Opening
<1>2. /\ \A h \in Goroutines : h # g => pc[h] \in RestLabels
      /\ \A k \in Conns : reader[k] = "reading" => done
  BY <1>1, NobodyElse DEF Active, RestLabels, Opened_, Reading
<1>3. CASE Publish(g)
  <2>1. done' = done /\ reader' = reader /\ dial' = dial
    BY <1>3 DEF Publish, PublishIf, connVars
  <2>2. CASE done
    <3>1. conn' = conn /\ cancelled \subseteq cancelled' /\ Go(g, "publish", OnClosed(g))
      BY <1>3, <2>2 DEF Publish, PublishIf
    <3>2. \A h \in Goroutines : pc'[h] # "dial"
      BY <3>1, <1>2 DEF OnClosed, Finish, RestLabels
    <3> QED BY <2>1, <2>2, <3>1, <3>2 DEF Published
  <2>3. CASE ~done
    <3>1. conn' = dial[g] /\ cancelled' = cancelled /\ Go(g, "publish", "dial")
      BY <1>3, <2>3 DEF Publish, PublishIf
    <3>2. \A h \in Goroutines : pc'[h] = "dial" => h = g
      BY <3>1, <1>2 DEF RestLabels
    <3> QED BY <1>2, <2>1, <2>3, <3>1, <3>2 DEF Published
  <2> QED BY <2>2, <2>3
<1>4. CASE Unpublish(g)
  <2>1. /\ done' = done /\ reader' = reader /\ dial' = dial /\ cancelled' = cancelled
        /\ conn' = IF conn = dial[g] THEN NoConn ELSE conn
        /\ Go(g, "unpublish", "dialfailed")
    BY <1>4 DEF Unpublish, connVars
  <2>2. \A h \in Goroutines : pc'[h] # "dial"
    BY <2>1, <1>2 DEF RestLabels
  <2> QED BY <1>1, <1>2, <2>1, <2>2 DEF Published
<1> QED
  BY <1>3, <1>4
-------------------------------------------------------------------------------
(* The steps that create a connection, open its stream, or start or end a    *)
(* handler                                                                   *)

\* Connecting takes a connection nobody used and makes g its owner.
LEMMA ConnectingKeeps ==
  ASSUME TypeOK, Ownership, Published, Closing, Counting,
         NEW g \in Goroutines, Connecting(g)
  PROVE  Ownership' /\ Published' /\ Closing' /\ Counting'
<1> DEFINE k == made + 1
<1>1. k \in Conns /\ k \in Goroutines /\ k > made
  BY BoundsAssumption, SMT DEF Connecting, TypeOK, Conns, Goroutines
<1>2. /\ pc[g] = "connecting" /\ pc' = [pc EXCEPT ![g] = "publish"]
      /\ made' = k /\ dial' = [dial EXCEPT ![g] = k]
      /\ UNCHANGED <<done, wg, conn, cancelled, reader, poller, stop>>
  BY DEF Connecting, Go, pollVars
<1>3. reader[k] = "none" /\ pc[k] = "idle" /\ k # g
  BY <1>1, <1>2 DEF Ownership
<1>4. /\ \A h \in Goroutines : h # g => pc[h] \in RestLabels
      /\ \A j \in Conns : reader[j] = "reading" => done
  BY <1>2, NobodyElse DEF Active, RestLabels, Opened_, Reading
<1>5. k > made /\ \A j \in Conns : j > k => j > made
  BY <1>1, SMT DEF TypeOK, Conns
<1> HIDE DEF k
<1>6. Ownership'
  <2>1. pc'[Starter] = "idle" => poller' = "off" /\ \A j \in Conns : pc'[j] = "idle"
    BY <1>2, GoroutineFacts DEF Ownership, TypeOK
  <2>2. \A j \in Conns : j > made' => reader'[j] = "none" /\ pc'[j] = "idle"
    <3> SUFFICES ASSUME NEW j \in Conns, j > made'
                 PROVE  reader'[j] = "none" /\ pc'[j] = "idle"
      OBVIOUS
    <3>1. reader[j] = "none" /\ pc[j] = "idle"
      BY <1>2, <1>5 DEF Ownership
    <3> QED BY <1>2, <3>1, GoroutineFacts DEF TypeOK
  <2>3. pc'[g] = "publish" /\ dial'[g] = k /\ pc'[k] = "idle" /\ reader'[k] = "none"
    BY <1>1, <1>2, <1>3 DEF TypeOK
  <2>4. \A h \in Goroutines : h # g => pc'[h] \in RestLabels
    BY <1>2, <1>4 DEF TypeOK
  <2>5. k <= made'
    BY <1>1, <1>2, SMT DEF TypeOK, Conns
  <2>6. \A h \in Goroutines : pc'[h] \in OpenLabels
          => dial'[h] \in Conns /\ dial'[h] <= made' /\ pc'[dial'[h]] = "idle"
    BY <1>1, <2>3, <2>4, <2>5 DEF OpenLabels, RestLabels
  <2>7. \A h \in Goroutines : pc'[h] \in Opening => reader'[dial'[h]] = "none"
    BY <2>3, <2>4 DEF Opening, RestLabels
  <2>8. OneStream'
    BY <2>4 DEF OneStream, Active
  <2> QED
    BY <2>1, <2>2, <2>6, <2>7, <2>8 DEF Ownership
<1>7. Published'
  BY <1>2, <1>4 DEF Published, TypeOK, RestLabels
<1>8. Running' = Running
  BY <1>2, GoroutineFacts DEF Running, TypeOK
<1> QED
  BY <1>2, <1>6, <1>7, <1>8 DEF Closing, Counting, Polling

\* DialOK opens the stream of the published connection.
LEMMA DialOKKeeps ==
  ASSUME TypeOK, Ownership, Published, Closing, Counting,
         NEW g \in Goroutines, DialOK(g)
  PROVE  Ownership' /\ Published' /\ Closing' /\ Counting'
<1>2. /\ pc[g] = "dial" /\ pc' = [pc EXCEPT ![g] = "opened"]
      /\ reader' = [reader EXCEPT ![dial[g]] = "reading"]
      /\ dial[g] \notin cancelled
      /\ UNCHANGED <<done, wg, conn, cancelled, made, dial, poller, stop>>
  BY DEF DialOK, Go, clientVars, pollVars
<1>3. dial[g] \in Conns /\ dial[g] <= made /\ pc[dial[g]] = "idle"
  BY <1>2 DEF Ownership, OpenLabels
<1>4. /\ \A h \in Goroutines : h # g => pc[h] \in RestLabels
      /\ \A j \in Conns : reader[j] = "reading" => done
  BY <1>2, NobodyElse DEF Active, RestLabels, Opened_, Reading
<1>5. /\ \A h \in Goroutines : h # g => pc'[h] \in RestLabels
      /\ pc'[g] = "opened"
  BY <1>2, <1>4 DEF TypeOK
<1>6. Ownership'
  <2>1. pc'[Starter] = "idle" => poller' = "off" /\ \A j \in Conns : pc'[j] = "idle"
    BY <1>2, GoroutineFacts DEF Ownership, TypeOK
  <2>2. \A j \in Conns : j > made' => reader'[j] = "none" /\ pc'[j] = "idle"
    <3> SUFFICES ASSUME NEW j \in Conns, j > made
                 PROVE  reader'[j] = "none" /\ pc'[j] = "idle"
      BY <1>2
    <3>1. reader[j] = "none" /\ pc[j] = "idle"
      BY DEF Ownership
    <3>2. j # dial[g]
      BY <1>3, SMT DEF TypeOK, Conns
    <3> QED BY <1>2, <3>1, <3>2, GoroutineFacts DEF TypeOK
  <2>3. \A h \in Goroutines : pc'[h] \in OpenLabels
          => dial'[h] \in Conns /\ dial'[h] <= made' /\ pc'[dial'[h]] = "idle"
    BY <1>2, <1>3, <1>5, GoroutineFacts DEF OpenLabels, RestLabels, TypeOK
  <2>4. \A h \in Goroutines : pc'[h] \in Opening => reader'[dial'[h]] = "none"
    BY <1>5 DEF Opening, RestLabels
  <2>5. OneStream'
    BY <1>5 DEF OneStream, Active
  <2> QED
    BY <2>1, <2>2, <2>3, <2>4, <2>5 DEF Ownership
<1>7. Published'
  <2>1. \A j \in Conns : reader'[j] = "reading" => conn' = j \/ j \in cancelled'
    BY <1>2, <1>3 DEF Published, TypeOK
  <2>2. \A h \in Goroutines : pc'[h] # "dial"
    BY <1>5 DEF RestLabels
  <2>3. \A j \in Conns : reader'[j] = "reading" => done' \/ (dial'[g] = j /\ pc'[g] \in Opened_)
    BY <1>2, <1>3, <1>4, <1>5 DEF TypeOK, Opened_
  <2> QED BY <2>1, <2>2, <2>3 DEF Published
<1>8. Running' = Running
  BY <1>2, GoroutineFacts DEF Running, TypeOK
<1> QED
  BY <1>2, <1>6, <1>7, <1>8 DEF Closing, Counting, Polling

\* The handlers that are running are finitely many.
LEMMA RunningFinite == IsFiniteSet(Running)
<1>1. IsFiniteSet(Conns)
  BY BoundsAssumption, FS_Interval DEF Conns
<1> QED
  BY <1>1, FS_Subset DEF Running

\* A handler is spawned only while the client is open: wg and the running
\* handlers grow together.
LEMMA SpawnKeeps ==
  ASSUME TypeOK, Ownership, Published, Closing, Counting,
         NEW g \in Goroutines, Spawn(g), ~done
  PROVE  Ownership' /\ Published' /\ Closing' /\ Counting'
<1> DEFINE k == dial[g]
<1>1. /\ pc[g] = "spawn" /\ pc' = [pc EXCEPT ![k] = "recv", ![g] = Finish(g)]
      /\ wg' = wg + 1
      /\ UNCHANGED <<done, conn, cancelled, made, dial, reader, poller, stop>>
  BY DEF Spawn, SpawnThen, pollVars
<1>2. k \in Conns /\ k <= made /\ pc[k] = "idle" /\ k \in Goroutines
  BY <1>1, GoroutineFacts DEF Ownership, OpenLabels
<1>3. \A h \in Goroutines : h # g => pc[h] \in RestLabels
  BY <1>1 DEF Ownership, OneStream, Active, RestLabels
<1>4. k # g
  BY <1>1, <1>2
<1> HIDE DEF k
<1>5. /\ pc'[k] = "recv" /\ pc'[g] = Finish(g)
      /\ \A h \in Goroutines : h # k /\ h # g => pc'[h] = pc[h]
  <2> DEFINE spawned == [pc EXCEPT ![k] = "recv"]
  <2>1. /\ spawned \in [Goroutines -> Labels] /\ spawned[k] = "recv"
        /\ \A h \in Goroutines : h # k => spawned[h] = pc[h]
    BY <1>2, LabelFacts DEF TypeOK
  <2>2. pc' = [spawned EXCEPT ![g] = Finish(g)]
    BY <1>1
  <2> HIDE DEF spawned
  <2> QED BY <1>2, <1>4, <2>1, <2>2
<1>6. Finish(g) = IF g = Starter THEN "ended" ELSE "exit"
  BY DEF Finish
<1>7. \A h \in Goroutines : h # k => pc'[h] \in RestLabels
  BY <1>3, <1>5, <1>6 DEF RestLabels
<1>8. Ownership'
  <2>1. pc'[Starter] # "idle"
    <3>1. pc[Starter] # "idle"
      BY <1>1, GoroutineFacts DEF Ownership, Goroutines, Conns, TypeOK
    <3> QED BY <1>5, <1>6, <3>1, GoroutineFacts
  <2>2. \A j \in Conns : j > made' => reader'[j] = "none" /\ pc'[j] = "idle"
    <3> SUFFICES ASSUME NEW j \in Conns, j > made
                 PROVE  reader'[j] = "none" /\ pc'[j] = "idle"
      BY <1>1
    <3>1. reader[j] = "none" /\ pc[j] = "idle"
      BY DEF Ownership
    <3>2. j # k
      BY <1>2, SMT DEF TypeOK, Conns
    <3>3. j # g
      BY <1>1, <3>1
    <3> QED BY <1>1, <1>5, <3>1, <3>2, <3>3, GoroutineFacts
  <2>3. \A h \in Goroutines : pc'[h] \notin OpenLabels /\ pc'[h] \notin Opening
    BY <1>5, <1>7 DEF OpenLabels, Opening, RestLabels
  <2>4. OneStream'
    BY <1>7 DEF OneStream, Active
  <2> QED BY <2>1, <2>2, <2>3, <2>4 DEF Ownership
<1>9. Published'
  <2>1. \A h \in Goroutines : pc'[h] # "dial"
    BY <1>5, <1>7 DEF RestLabels
  <2>2. ASSUME NEW j \in Conns, reader[j] = "reading"
        PROVE  pc'[j] \in Reading
    <3>1. pc[j] \notin Reading
      BY <1>1, <1>3, GoroutineFacts DEF Reading, RestLabels
    <3>2. PICK h \in Goroutines : dial[h] = j /\ pc[h] \in Opened_
      BY <2>2, <3>1 DEF Published
    <3>3. h = g
      BY <1>3, <3>2 DEF Opened_, RestLabels
    <3>4. j = k
      BY <3>2, <3>3 DEF k
    <3> QED BY <1>5, <3>4 DEF Reading
  <2> QED BY <1>1, <2>1, <2>2 DEF Published
<1>10. Closing'
  BY <1>1 DEF Closing, PastCancel
<1>11. Counting'
  <2>1. Running' = Running \cup {k} /\ k \notin Running
    BY <1>1, <1>2, <1>5, <1>6, GoroutineFacts DEF Running
  <2>2. Cardinality(Running') = Cardinality(Running) + 1
    BY <2>1, RunningFinite, FS_AddElement
  <2>3. Cardinality(Running) \in Nat
    BY RunningFinite, FS_CardinalityType
  <2> QED BY <1>1, <2>2, <2>3, SMT DEF Counting, Polling
<1> QED
  BY <1>8, <1>9, <1>10, <1>11

\* A handler's wg.Done takes one from both sides of Counting.
LEMMA ExitKeeps ==
  ASSUME TypeOK, Ownership, Published, Closing, Counting,
         NEW k \in Conns, Exit(k)
  PROVE  Ownership' /\ Published' /\ Closing' /\ Counting'
<1>1. /\ pc[k] = "exit" /\ pc' = [pc EXCEPT ![k] = "ended"]
      /\ wg' = wg - 1
      /\ UNCHANGED <<done, conn, cancelled, made, dial, reader, poller, stop>>
  BY DEF Exit, ExitCounting, Go, connVars, pollVars
<1>2. /\ k \in Goroutines /\ pc'[k] = "ended"
      /\ \A h \in Goroutines : h # k => pc'[h] = pc[h]
  BY <1>1, GoroutineFacts DEF TypeOK
<1>3. Ownership'
  <2>1. pc'[Starter] = "idle" => poller' = "off" /\ \A j \in Conns : pc'[j] = "idle"
    BY <1>1, <1>2, GoroutineFacts DEF Ownership
  <2>2. \A j \in Conns : j > made' => reader'[j] = "none" /\ pc'[j] = "idle"
    BY <1>1, <1>2, GoroutineFacts DEF Ownership
  <2>3. \A h \in Goroutines : pc'[h] \in OpenLabels
          => dial'[h] \in Conns /\ dial'[h] <= made' /\ pc'[dial'[h]] = "idle"
    BY <1>1, <1>2, GoroutineFacts DEF Ownership, OpenLabels
  <2>4. \A h \in Goroutines : pc'[h] \in Opening => reader'[dial'[h]] = "none"
    BY <1>1, <1>2 DEF Ownership, Opening
  <2>5. OneStream'
    BY <1>1, <1>2 DEF Ownership, OneStream, Active, RestLabels
  <2> QED BY <2>1, <2>2, <2>3, <2>4, <2>5 DEF Ownership
<1>4. Published'
  BY <1>1, <1>2, GoroutineFacts DEF Published, Reading, Opened_
<1>5. Running' = Running \ {k} /\ k \in Running
  BY <1>1, <1>2, GoroutineFacts DEF Running
<1>6. Closing'
  BY <1>1, <1>5 DEF Closing, PastCancel
<1>7. Counting'
  <2>1. Cardinality(Running') = Cardinality(Running) - 1
    BY <1>5, RunningFinite, FS_RemoveElement
  <2>2. Cardinality(Running) \in Nat
    BY RunningFinite, FS_CardinalityType
  <2> QED BY <1>1, <2>1, <2>2, SMT DEF Counting, Polling
<1> QED
  BY <1>3, <1>4, <1>6, <1>7
-------------------------------------------------------------------------------
(* Readers, the poller, Stop, Start and the portal *)

\* A stream reader only ends streams: every part of the invariant stands.
LEMMA ReaderKeeps ==
  ASSUME TypeOK, Ownership, Published, Closing, Counting,
         NEW k \in Conns, ReaderStep(k)
  PROVE  Ownership' /\ Published' /\ Closing' /\ Counting'
<1>1. /\ reader[k] = "reading"
      /\ \/ reader' = reader \/ reader' = [reader EXCEPT ![k] = "ended"]
      /\ UNCHANGED <<pc, done, wg, conn, cancelled, made, dial, poller, stop>>
  <2>1. CASE ReadEvent(k)
    BY <2>1 DEF ReadEvent, clientVars, goVars, pollVars, TypeOK
  <2>2. CASE ReadError(k)
    BY <2>2 DEF ReadError, clientVars, goVars, pollVars
  <2>3. CASE ReadEnd(k)
    BY <2>3 DEF ReadEnd, clientVars, goVars, pollVars
  <2> QED BY <2>1, <2>2, <2>3 DEF ReaderStep
<1>2. /\ \A j \in Conns : reader'[j] = "reading" => reader[j] = "reading"
      /\ \A j \in Conns : reader[j] = "none" => reader'[j] = "none"
  BY <1>1 DEF TypeOK
<1>3. Ownership'
  BY <1>1, <1>2 DEF Ownership, OneStream, Active, Opening, OpenLabels
<1>4. Published'
  BY <1>1, <1>2 DEF Published
<1>5. Running' = Running
  BY <1>1 DEF Running
<1> QED
  BY <1>1, <1>3, <1>4, <1>5 DEF Closing, Counting, Polling

\* The poller holds one count of wg from its start to its wg.Done.
LEMMA PollKeeps ==
  ASSUME TypeOK, Ownership, Published, Closing, Counting, PollStep
  PROVE  Ownership' /\ Published' /\ Closing' /\ Counting'
<1>1. /\ poller # "off"
      /\ UNCHANGED <<pc, done, conn, cancelled, made, dial, reader, stop>>
      /\ wg' = IF Polling' = Polling THEN wg ELSE wg - 1
      /\ Polling' # Polling => Polling = 1 /\ Polling' = 0
  <2> USE DEF Polling, clientVars, connVars, goVars
  <2>1. CASE PollRead
    BY <2>1 DEF PollRead
  <2>2. CASE PollFire
    BY <2>2 DEF PollFire
  <2>3. CASE PollTick
    BY <2>3 DEF PollTick
  <2>4. CASE PollExit
    BY <2>4 DEF PollExit
  <2> QED BY <2>1, <2>2, <2>3, <2>4 DEF PollStep
<1>2. Ownership'
  BY <1>1 DEF Ownership, OneStream, Active
<1>3. Published'
  BY <1>1 DEF Published
<1>4. Running' = Running
  BY <1>1 DEF Running
<1>5. Closing'
  BY <1>1, <1>4 DEF Closing
<1>6. Counting'
  <2>1. Cardinality(Running) \in Nat
    BY RunningFinite, FS_CardinalityType
  <2>2. Polling \in Nat
    BY DEF Polling
  <2>3. Cardinality(Running') = Cardinality(Running)
    BY <1>4
  <2> HIDE DEF Polling
  <2> QED BY <1>1, <2>1, <2>2, <2>3, SMT DEF Counting
<1> QED
  BY <1>2, <1>3, <1>5, <1>6

\* Stop closes done before it touches conn, and its Wait returns only when no
\* handler is left.
LEMMA StopKeeps ==
  ASSUME TypeOK, Ownership, Published, Closing, Counting,
         NEW s \in Stoppers, StopClose(s) \/ StopStep(s)
  PROVE  Ownership' /\ Published' /\ Closing' /\ Counting'
<1> USE DEF Advance, clientVars, connVars, goVars, pollVars
<1>1. /\ UNCHANGED <<pc, wg, made, dial, reader, poller>>
      /\ done' = done \/ done' = TRUE
      /\ cancelled \subseteq cancelled'
  <2>1. CASE StopClose(s)
    BY <2>1 DEF StopClose
  <2>2. CASE StopCancel(s)
    BY <2>2 DEF StopCancel, CancelOnly
  <2>3. CASE StopState(s)
    BY <2>3 DEF StopState
  <2>4. CASE StopReport(s)
    BY <2>4 DEF StopReport
  <2>5. CASE StopWait(s)
    BY <2>5 DEF StopWait
  <2> QED BY <2>1, <2>2, <2>3, <2>4, <2>5 DEF StopStep
<1>2. Ownership'
  BY <1>1 DEF Ownership, OneStream, Active
<1>3. Running' = Running
  BY <1>1 DEF Running
<1>4. Counting'
  BY <1>1, <1>3 DEF Counting, Polling
<1>5. Published' /\ Closing'
  <2>1. CASE StopClose(s)
    <3>1. done' /\ conn' = conn /\ stop' = [stop EXCEPT ![s] = "cancel"]
      BY <2>1 DEF StopClose
    <3>2. cancelled' = cancelled
      BY <2>1 DEF StopClose
    <3>3. Published'
      BY <1>1, <3>1, <3>2 DEF Published
    <3>4. Closing'
      BY <1>3, <3>1 DEF Closing, PastCancel, TypeOK
    <3> QED BY <3>3, <3>4
  <2>2. CASE StopCancel(s)
    <3>1. /\ stop[s] = "cancel" /\ stop' = [stop EXCEPT ![s] = "state"]
          /\ conn' = NoConn /\ done' = done
          /\ cancelled' = cancelled \cup ({conn} \ {NoConn})
      BY <2>2 DEF StopCancel, CancelOnly
    <3>2. done
      BY <3>1 DEF Closing
    <3>3. NoConn \notin Conns
      BY SMT DEF NoConn, Conns
    <3>4. \A g \in Goroutines : pc[g] = "dial" => dial[g] \in Conns
      BY DEF Ownership, OpenLabels
    <3>5. Published'
      BY <1>1, <3>1, <3>2, <3>3, <3>4 DEF Published
    <3>6. Closing'
      BY <1>3, <3>1, <3>2 DEF Closing, PastCancel, TypeOK
    <3> QED BY <3>5, <3>6
  <2>3. CASE StopState(s) \/ StopReport(s)
    <3>1. /\ stop[s] \in {"state", "report"} /\ conn' = conn /\ done' = done
          /\ \/ stop' = [stop EXCEPT ![s] = "report"]
             \/ stop' = [stop EXCEPT ![s] = "wait"]
          /\ cancelled' = cancelled
      BY <2>3 DEF StopState, StopReport
    <3>2. Published'
      BY <1>1, <3>1 DEF Published
    <3>3. Closing'
      BY <1>3, <3>1 DEF Closing, PastCancel, TypeOK
    <3> QED BY <3>2, <3>3
  <2>4. CASE StopWait(s)
    <3>1. /\ stop[s] = "wait" /\ wg = 0 /\ conn' = conn /\ done' = done
          /\ stop' = [stop EXCEPT ![s] = "stopped"] /\ cancelled' = cancelled
      BY <2>4 DEF StopWait
    <3>2. Cardinality(Running) = 0
      <4>1. Cardinality(Running) \in Nat
        BY RunningFinite, FS_CardinalityType
      <4> QED BY <3>1, <4>1, SMT DEF Counting, Polling
    <3>3. Running = {}
      BY <3>2, RunningFinite, FS_EmptySet
    <3>4. Published'
      BY <1>1, <3>1 DEF Published
    <3>5. Closing'
      BY <1>3, <3>1, <3>3 DEF Closing, PastCancel, TypeOK
    <3> QED BY <3>4, <3>5
  <2> QED BY <2>1, <2>2, <2>3, <2>4 DEF StopStep
<1> QED
  BY <1>2, <1>4, <1>5

\* Start launches the poller only, with one wg.Add.
LEMMA StartKeeps ==
  ASSUME TypeOK, Ownership, Published, Closing, Counting, Start
  PROVE  Ownership' /\ Published' /\ Closing' /\ Counting'
<1>1. /\ pc[Starter] = "idle"
      /\ pc' = [pc EXCEPT ![Starter] = "check"] \/ pc' = [pc EXCEPT ![Starter] = "giveup"]
      /\ UNCHANGED <<done, conn, cancelled, made, dial, reader, stop>>
  BY DEF Start, Go, connVars
<1>2. poller = "off" /\ \A k \in Conns : pc[k] = "idle"
  BY <1>1 DEF Ownership
<1>3. /\ pc'[Starter] \in {"check", "giveup"}
      /\ \A k \in Conns : pc'[k] = "idle"
      /\ \A g \in Goroutines : g # Starter => pc'[g] = "idle"
  <2>1. \A g \in Goroutines : g # Starter => g \in Conns
    BY SMT DEF Goroutines, Conns, Starter
  <2>2. Starter \in Goroutines /\ Starter \notin Conns /\ Conns \subseteq Goroutines
    BY GoroutineFacts
  <2>3. pc'[Starter] \in {"check", "giveup"}
    BY <1>1, <2>2 DEF TypeOK
  <2>4. \A k \in Conns : pc'[k] = "idle"
    BY <1>1, <1>2, <2>2 DEF TypeOK
  <2> QED BY <2>1, <2>3, <2>4
<1>4. Ownership'
  <2>1. \A k \in Conns : k > made' => reader'[k] = "none" /\ pc'[k] = "idle"
    BY <1>1, <1>3 DEF Ownership
  <2>2. \A g \in Goroutines : pc'[g] \notin OpenLabels /\ pc'[g] \notin Opening
    BY <1>3 DEF OpenLabels, Opening
  <2>3. OneStream'
    BY <1>3 DEF OneStream, Active, RestLabels
  <2> QED BY <1>3, <2>1, <2>2 , <2>3 DEF Ownership
<1>5. Published'
  <2>1. \A k \in Conns : reader[k] = "reading" => done
    <3>1. \A k \in Conns : pc[k] \notin Reading
      BY <1>2 DEF Reading
    <3>2. \A g \in Goroutines : pc[g] \notin Opened_
      <4>1. \A g \in Goroutines : pc[g] = "idle"
        BY <1>1, <1>2, SMT DEF Goroutines, Conns, Starter
      <4> QED BY <4>1 DEF Opened_
    <3> QED BY <3>1, <3>2 DEF Published
  <2>2. \A g \in Goroutines : pc'[g] # "dial"
    BY <1>3
  <2> QED BY <1>1, <2>1, <2>2 DEF Published
<1>6. Running' = Running
  BY <1>2, <1>3 DEF Running
<1>7. wg' + Polling = wg + Polling'
  <2>1. CASE options.poll
    BY <1>2, <2>1, SMT DEF Start, Polling, TypeOK
  <2>2. CASE ~options.poll
    BY <2>2, SMT DEF Start, Polling, TypeOK
  <2> QED BY <2>1, <2>2
<1>8. Counting'
  <2>1. Cardinality(Running) \in Nat /\ Cardinality(Running') = Cardinality(Running)
    BY <1>6, RunningFinite, FS_CardinalityType
  <2>2. Polling \in Nat /\ Polling' \in Nat /\ wg \in Nat
    BY DEF Polling, TypeOK
  <2>3. wg' \in Int
    BY SMT DEF Start, TypeOK
  <2> HIDE DEF Polling
  <2> QED BY <1>7, <2>1, <2>2, <2>3, SMT DEF Counting
<1> QED
  BY <1>1, <1>4, <1>5, <1>6, <1>8 DEF Closing

-------------------------------------------------------------------------------
(* The inductive invariant *)

\* A client just made satisfies the invariant.
LEMMA InitIInv == Init => IInv
<1> SUFFICES ASSUME Init PROVE IInv
  OBVIOUS
<1>1. TypeOK
  <2>1. chan \in [Conns -> Seq(0..MaxEvents)]
    BY DEF Init
  <2>2. published \in 0..MaxEvents /\ lastEventID \in 0..MaxEvents /\ last \in 0..MaxEvents
    BY BoundsAssumption, SMT DEF Init
  <2>3. conn \in 0..MaxConns /\ made \in 0..MaxConns /\ 0 \in 0..MaxEvents
    BY BoundsAssumption, SMT DEF Init, NoConn
  <2> QED
    BY <2>1, <2>2, <2>3, LabelFacts DEF Init, TypeOK, States, NoConn
<1>2. Running = {}
  BY GoroutineFacts DEF Init, Running
<1>3. Ownership
  BY GoroutineFacts DEF Init, Ownership, OpenLabels, Opening, OneStream, Active, RestLabels
<1>4. Published
  BY DEF Init, Published
<1>5. Closing
  BY DEF Init, Closing, PastCancel
<1>6. Counting
  BY <1>2, FS_EmptySet, SMT DEF Init, Counting, Polling
<1> QED
  BY <1>1, <1>3, <1>4, <1>5, <1>6 DEF IInv

\* A step that keeps Counting keeps wg a natural number.
LEMMA CountingNat ==
  ASSUME Counting'
  PROVE  wg' \in Nat
<1>1. IsFiniteSet(Running')
  <2>1. IsFiniteSet(Conns)
    BY BoundsAssumption, FS_Interval DEF Conns
  <2> QED BY <2>1, FS_Subset DEF Running
<1>2. Cardinality(Running') \in Nat
  BY <1>1, FS_CardinalityType
<1> QED
  BY <1>2, SMT DEF Counting, Polling

\* Every step of Connect keeps the invariant.
LEMMA ConnectKeeps ==
  ASSUME IInv, NEW g \in Goroutines, ConnectStep(g)
  PROVE  Ownership' /\ Published' /\ Closing' /\ Counting'
<1> USE DEF IInv
<1>1. CASE Connecting(g)
  BY <1>1, ConnectingKeeps
<1>2. CASE DialOK(g)
  BY <1>2, DialOKKeeps
<1>3. CASE Spawn(g) /\ ~done
  BY <1>3, SpawnKeeps
<1>4. CASE \/ Check(g) \/ Publish(g) \/ DialFail(g) \/ Unpublish(g) \/ DialFailed(g)
           \/ Opened(g) \/ Report(g) \/ Backoff(g) \/ GiveUp(g) \/ (done /\ Spawn(g))
  <2>1. PICK from \in Labels, to \in Labels : PlainMove(g, from, to)
    BY <1>4, ConnectMoves
  <2>2. Ownership' /\ Counting'
    BY <2>1, PlainMoveKeeps
  <2>3. Closing'
    <3>1. CASE Publish(g) /\ ~done
      <4>1. Closing /\ ~done /\ done' = done /\ stop' = stop
        BY <3>1 DEF Publish, PublishIf
      <4> QED BY <4>1 DEF Closing, PastCancel
    <3>2. CASE Unpublish(g)
      <4>1. \A s \in Stoppers : stop[s] \in PastCancel => conn' = NoConn
        BY <3>2 DEF Unpublish, Closing
      <4>2. Running' = Running
        BY <2>1, GoroutineFacts DEF PlainMove, Go, Running, RestLabels, TypeOK
      <4> QED BY <2>1, <4>1, <4>2 DEF Closing, PlainMove
    <3>3. CASE ~(Publish(g) /\ ~done) /\ ~Unpublish(g)
      <4>1. conn' = conn
        BY <1>4, <3>3 DEF Check, Publish, PublishIf, DialFail, DialFailed, Opened, Report,
           Backoff, GiveUp, Spawn, SpawnThen, SetState, FireConnected, Jump, nonPc, clientVars
      <4> QED BY <2>1, <4>1, PlainMoveKeeps
    <3> QED BY <3>1, <3>2, <3>3
  <2>4. Published'
    <3>1. CASE Publish(g) \/ Unpublish(g)
      BY <3>1, ConnWrites
    <3>2. CASE ~Publish(g) /\ ~Unpublish(g)
      <4>1. conn' = conn
        BY <1>4, <3>2 DEF Check, DialFail, DialFailed, Opened, Report,
           Backoff, GiveUp, Spawn, SpawnThen, SetState, FireConnected, Jump, nonPc, clientVars
      <4>2. cancelled \subseteq cancelled'
        BY <1>4, <3>2 DEF Check, DialFail, DialFailed, Opened, Report,
           Backoff, GiveUp, Spawn, SpawnThen, SetState, FireConnected, Jump, nonPc, connVars
      <4>3. pc[g] # "publish"
        BY <1>4, <3>2 DEF Check, DialFail, DialFailed, Opened, Report,
           Backoff, GiveUp, Spawn, SpawnThen, SetState, FireConnected, Jump, Go
      <4>4. to # "dial"
        BY <1>4, <2>1, <3>2 DEF PlainMove, Check, DialFail, DialFailed, Opened, Report,
           Backoff, GiveUp, Spawn, SpawnThen, SetState, FireConnected, Jump, Go, TypeOK,
           OnClosed, OnFailure, Finish
      <4> QED BY <2>1, <4>1, <4>2, <4>4, PlainMovePublished
    <3> QED BY <3>1, <3>2
  <2> QED BY <2>2, <2>3, <2>4
<1> QED
  BY <1>1, <1>2, <1>3, <1>4 DEF ConnectStep

\* Every step of a handler goroutine keeps the invariant.
LEMMA HandlerKeeps ==
  ASSUME IInv, NEW k \in Conns, HandlerStep(k)
  PROVE  Ownership' /\ Published' /\ Closing' /\ Counting'
<1> USE DEF IInv
<1>1. CASE Exit(k)
  BY <1>1, ExitKeeps
<1>2. CASE \/ Recv(k) \/ Dispatch(k) \/ RecvDone(k) \/ RecvClosed(k) \/ Dropped(k)
           \/ ReportDrop(k) \/ Reconnecting(k)
  <2>1. k \in Goroutines
    BY GoroutineFacts
  <2>2. PICK from \in Labels, to \in Labels : PlainMove(k, from, to) /\ to \notin OpenLabels
    BY <1>2, HandlerMoves
  <2>3. conn' = conn /\ cancelled' = cancelled
    BY <1>2 DEF Recv, RecvMoving, Dispatch, RecvDone, RecvClosed, Dropped, ReportDrop,
       Reconnecting, SetState, FireConnected, Jump, nonPc, clientVars, connVars
  <2>4. to # "dial"
    BY <2>2 DEF OpenLabels
  <2>5. Ownership' /\ Counting' /\ Closing'
    BY <2>1, <2>2, <2>3, PlainMoveKeeps
  <2>6. Published'
    BY <2>1, <2>2, <2>3, <2>4, PlainMovePublished
  <2> QED BY <2>5, <2>6
<1> QED
  BY <1>1, <1>2 DEF HandlerStep

\* The invariant is inductive: no step of any goroutine or of the portal breaks it.
LEMMA StepIInv == IInv /\ [Next]_vars => IInv'
<1> SUFFICES ASSUME IInv, [Next]_vars PROVE IInv'
  OBVIOUS
<1> USE DEF IInv
<1>1. CASE Start
  <2>1. Ownership' /\ Published' /\ Closing' /\ Counting'
    BY <1>1, StartKeeps
  <2>2. wg' \in Nat
    BY <1>1 DEF Start, TypeOK
  <2> QED BY <1>1, <2>1, <2>2, OtherTypes
<1>2. ASSUME NEW g \in Goroutines, ConnectStep(g)
      PROVE  IInv'
  <2>1. Ownership' /\ Published' /\ Closing' /\ Counting'
    BY <1>2, ConnectKeeps
  <2>2. wg' \in Nat
    BY <2>1, CountingNat
  <2> QED BY <1>2, <2>1, <2>2, ConnectTypes
<1>3. ASSUME NEW k \in Conns, HandlerStep(k) \/ ReaderStep(k)
      PROVE  IInv'
  <2>1. Ownership' /\ Published' /\ Closing' /\ Counting'
    BY <1>3, HandlerKeeps, ReaderKeeps
  <2>2. wg' \in Nat
    BY <2>1, CountingNat
  <2> QED BY <1>3, <2>1, <2>2, HandlerTypes
<1>4. CASE PollStep
  <2>1. Ownership' /\ Published' /\ Closing' /\ Counting'
    BY <1>4, PollKeeps
  <2>2. wg' \in Nat
    BY <2>1, CountingNat
  <2> QED BY <1>4, <2>1, <2>2, OtherTypes
<1>5. ASSUME NEW s \in Stoppers, StopClose(s) \/ StopStep(s)
      PROVE  IInv'
  <2>1. Ownership' /\ Published' /\ Closing' /\ Counting'
    BY <1>5, StopKeeps
  <2>2. wg' \in Nat
    BY <2>1, CountingNat
  <2> QED BY <1>5, <2>1, <2>2, OtherTypes
<1>6. CASE PortalPublish
  <2>1. UNCHANGED <<clientVars, connVars, goVars, pollVars, stop>>
    BY <1>6 DEF PortalPublish
  <2>2. wg' \in Nat
    BY <2>1 DEF clientVars, TypeOK
  <2>3. TypeOK'
    BY <1>6, <2>2, OtherTypes
  <2>4. Running' = Running /\ Polling' = Polling
    BY <2>1 DEF Running, Polling, goVars, pollVars
  <2>5. Ownership' /\ Published'
    BY <2>1 DEF Ownership, Published, OneStream, Active, clientVars, connVars, goVars, pollVars
  <2>6. Closing' /\ Counting'
    BY <2>1, <2>4 DEF Closing, Counting, clientVars
  <2> QED BY <2>3, <2>5, <2>6
<1>7. CASE UNCHANGED vars
  <2>1. UNCHANGED <<clientVars, connVars, goVars, pollVars, stop, envVars>>
    BY <1>7 DEF vars
  <2>2. TypeOK'
    BY <2>1 DEF TypeOK, clientVars, connVars, goVars, pollVars, envVars
  <2>3. Running' = Running /\ Polling' = Polling
    BY <2>1 DEF Running, Polling, goVars, pollVars
  <2>4. Ownership' /\ Published'
    BY <2>1 DEF Ownership, Published, OneStream, Active, clientVars, connVars, goVars, pollVars
  <2>5. Closing' /\ Counting'
    BY <2>1, <2>3 DEF Closing, Counting, clientVars
  <2> QED BY <2>2, <2>4, <2>5
<1> QED
  BY <1>1, <1>2, <1>3, <1>4, <1>5, <1>6, <1>7 DEF Next

\* The inductive invariant holds in every reachable state.
THEOREM Invariance == Spec => []IInv
BY InitIInv, StepIInv, PTL DEF Spec

\* Every variable of the client stays of its type: in particular the counter of
\* the WaitGroup never becomes negative (sse.go wg.Add and wg.Done).
THEOREM TypesHold == Spec => []TypeOK
<1>1. IInv => TypeOK
  BY DEF IInv
<1> QED BY <1>1, Invariance, PTL

\* However Connect, drops and retries interleave with any number of Stops, no
\* two goroutines connect or dispatch at the same time.
THEOREM SingleStream == Spec => []OneStream
<1>1. IInv => OneStream
  BY DEF IInv, Ownership
<1> QED BY <1>1, Invariance, PTL

\* A stream that is still read once a Disconnect is past connMu is cancelled.
THEOREM StreamsCancelled == Spec => []NoOrphanStream
<1>1. IInv => NoOrphanStream
  <2> SUFFICES ASSUME IInv, NEW s \in Stoppers, NEW k \in Conns,
                      stop[s] \in PastCancel, reader[k] = "reading"
               PROVE  k \in cancelled
    BY DEF NoOrphanStream, PastCancel
  <2>1. conn = NoConn
    BY DEF IInv, Closing
  <2>2. k # NoConn
    BY SMT DEF Conns, NoConn
  <2> QED BY <2>1, <2>2 DEF IInv, Published
<1> QED BY <1>1, Invariance, PTL

\* When a Stop has returned no handler goroutine is left, nor ever spawned.
THEOREM StopDrains == Spec => []HandlersDrained
<1>1. IInv => HandlersDrained
  BY DEF IInv, Closing, HandlersDrained, Stopped, Running
<1> QED BY <1>1, Invariance, PTL
-------------------------------------------------------------------------------
(* What is left to do after a Disconnect. *)

\* A Disconnect is past connMu: done is closed and the connection cancelled.
Ending == \E s \in Stoppers : stop[s] \in PastCancel

\* The steps of a goroutine and of the reader of its connection.
GoroutineStep(g) ==
  \/ g = Starter /\ Start
  \/ ConnectStep(g)
  \/ g \in Conns /\ (HandlerStep(g) \/ ReaderStep(g))

\* The order in which a goroutine passes the places on its way out.
Place(label) ==
  CASE label = "idle"         -> 18
    [] label = "dispatch"     -> 17
    [] label = "recv"         -> 16
    [] label = "dropped"      -> 15
    [] label = "reportdrop"   -> 14
    [] label = "reconnecting" -> 13
    [] label = "connecting"   -> 12
    [] label = "publish"      -> 11
    [] label = "dial"         -> 10
    [] label = "unpublish"    -> 9
    [] label = "dialfailed"   -> 8
    [] label = "opened"       -> 7
    [] label = "report"       -> 6
    [] label = "spawn"        -> 5
    [] label = "backoff"      -> 4
    [] label = "check"        -> 3
    [] label = "giveup"       -> 2
    [] label = "exit"         -> 1
    [] label = "ended"        -> 0

Unread(g) == IF g \in Conns /\ reader[g] = "reading" THEN 1 ELSE 0
Buffered(g) == IF g \in Conns THEN Len(chan[g]) ELSE 0
Rank(g) == <<Unread(g), Buffered(g), Place(pc[g])>>

\* From then on each step of a goroutine lowers its rank and nobody else's:
\* no request is answered, no handler spawned, no retry begun.
RankFalls ==
  [][Ending => \A g \in Goroutines :
       IF GoroutineStep(g) THEN Below(Rank(g)', Rank(g), 3) ELSE Rank(g)' = Rank(g)]_vars

\* Wait is woken: wg is 0 as soon as the handlers and the telemetry have ended.
WaitFreed ==
  (\A k \in Conns : pc[k] \in {"idle", "ended"}) /\ poller \in {"off", "ended"} => wg = 0

LEMMA RankTuple == TypeOK => \A g \in Goroutines : Rank(g) \in [1..3 -> Nat]
<1> SUFFICES ASSUME TypeOK, NEW g \in Goroutines PROVE Rank(g) \in [1..3 -> Nat]
  OBVIOUS
<1> DEFINE u == Unread(g)
           b == Buffered(g)
           p == Place(pc[g])
<1>1. u \in Nat
  BY DEF Unread
<1>2. b \in Nat
  BY DEF TypeOK, Buffered
<1>3. p \in Nat
  <2>1. pc[g] \in Labels
    BY DEF TypeOK
  <2> QED BY <2>1 DEF Place, Labels, OpenLabels, RetryLabels, StreamLabels, RestLabels
<1> HIDE DEF u, b, p
<1>4. <<u, b, p>> \in [1..3 -> Nat]
  BY <1>1, <1>2, <1>3
<1> QED BY <1>4 DEF Rank, u, b, p

\* Whoever is asking the portal has been cancelled.
LEMMA EndingFacts ==
  ASSUME IInv, Ending
  PROVE  /\ done
         /\ \A g \in Goroutines : pc[g] = "dial" => dial[g] \in cancelled
         /\ \A k \in Conns : reader[k] = "reading" => k \in cancelled
<1>1. done /\ conn = NoConn
  BY DEF Ending, IInv, Closing, PastCancel
<1>2. \A g \in Goroutines : pc[g] = "dial" => dial[g] # NoConn
  BY DEF IInv, Ownership, OpenLabels, Conns, NoConn
<1>3. \A k \in Conns : k # NoConn
  BY DEF Conns, NoConn
<1> QED BY <1>1, <1>2, <1>3 DEF IInv, Published

\* A goroutine on its way out.
WayOut(g) ==
  /\ \E from, to \in Labels : Go(g, from, to) /\ Place(to) < Place(from)
  /\ UNCHANGED <<reader, chan>>

LEMMA ConnectWaysOut ==
  ASSUME IInv, Ending, NEW g \in Goroutines, ConnectStep(g)
  PROVE  WayOut(g)
<1> USE LabelFacts DEF WayOut, Place, connVars, nonPc
<1>0. /\ done
      /\ Finish(g) \in Labels /\ Finish(g) \in {"exit", "ended"}
      /\ OnClosed(g) \in Labels /\ OnClosed(g) \in {"giveup", "exit", "ended"}
      /\ OnFailure(g) \in Labels /\ OnFailure(g) \in {"giveup", "backoff"}
  BY EndingFacts, TargetFacts DEF Finish, OnClosed, OnFailure
<1>1. CASE Check(g)
  <2>1. Go(g, "check", OnClosed(g)) /\ UNCHANGED <<reader, chan>>
    BY <1>0, <1>1 DEF Check, Jump
  <2> QED BY <1>0, <2>1
<1>2. CASE Connecting(g)
  <2>1. Go(g, "connecting", "publish") /\ UNCHANGED <<reader, chan>>
    BY <1>2 DEF Connecting
  <2> QED BY <2>1
<1>3. CASE Publish(g)
  <2>1. Go(g, "publish", OnClosed(g)) /\ UNCHANGED <<reader, chan>>
    BY <1>0, <1>3 DEF Publish, PublishIf
  <2> QED BY <1>0, <2>1
<1>4. CASE DialOK(g)
  BY <1>4, EndingFacts DEF DialOK, Go
<1>5. CASE DialFail(g)
  <2>1. Go(g, "dial", "unpublish") /\ UNCHANGED <<reader, chan>>
    BY <1>5 DEF DialFail, Jump
  <2> QED BY <2>1
<1>6. CASE Unpublish(g)
  <2>1. Go(g, "unpublish", "dialfailed") /\ UNCHANGED <<reader, chan>>
    BY <1>6 DEF Unpublish
  <2> QED BY <2>1
<1>7. CASE DialFailed(g)
  <2>1. Go(g, "dialfailed", OnFailure(g)) /\ UNCHANGED <<reader, chan>>
    BY <1>7 DEF DialFailed
  <2> QED BY <1>0, <2>1
<1>8. CASE Opened(g)
  <2>1. Go(g, "opened", "report") /\ UNCHANGED <<reader, chan>>
    BY <1>8 DEF Opened, SetState
  <2> QED BY <2>1
<1>9. CASE Report(g)
  <2>1. Go(g, "report", "spawn") /\ UNCHANGED <<reader, chan>>
    BY <1>9 DEF Report, FireConnected
  <2> QED BY <2>1
<1>10. CASE Spawn(g)
  <2>1. Go(g, "spawn", OnClosed(g)) /\ UNCHANGED <<reader, chan>>
    BY <1>0, <1>10 DEF Spawn, SpawnThen
  <2> QED BY <1>0, <2>1
<1>11. CASE Backoff(g)
  <2>1. PICK to \in {"check", "giveup", "exit"} :
          Go(g, "backoff", to) /\ UNCHANGED <<reader, chan>>
    BY <1>11 DEF Backoff, Jump
  <2> QED BY <2>1
<1>12. CASE GiveUp(g)
  <2>1. Go(g, "giveup", Finish(g)) /\ UNCHANGED <<reader, chan>>
    BY <1>12 DEF GiveUp, SetState
  <2> QED BY <1>0, <2>1
<1> QED BY <1>1, <1>2, <1>3, <1>4, <1>5, <1>6, <1>7, <1>8, <1>9, <1>10, <1>11, <1>12
        DEF ConnectStep

\* A handler's steps but the receipt of a frame.
LEMMA HandlerWaysOut ==
  ASSUME IInv, Ending, NEW k \in Conns, HandlerStep(k), ~Recv(k)
  PROVE  WayOut(k)
<1> USE LabelFacts DEF WayOut, Place, connVars, nonPc
<1>1. CASE Dispatch(k)
  <2>1. Go(k, "dispatch", "recv") /\ UNCHANGED <<reader, chan>>
    BY <1>1 DEF Dispatch
  <2> QED BY <2>1
<1>2. CASE RecvDone(k) \/ RecvClosed(k)
  <2>1. PICK to \in {"exit", "dropped"} : Go(k, "recv", to) /\ UNCHANGED <<reader, chan>>
    BY <1>2 DEF RecvDone, RecvClosed, Jump
  <2> QED BY <2>1
<1>3. CASE Dropped(k)
  <2>1. Go(k, "dropped", "reportdrop") /\ UNCHANGED <<reader, chan>>
    BY <1>3 DEF Dropped, SetState
  <2> QED BY <2>1
<1>4. CASE ReportDrop(k)
  <2>1. PICK to \in {"reconnecting", "exit"} :
          Go(k, "reportdrop", to) /\ UNCHANGED <<reader, chan>>
    BY <1>4 DEF ReportDrop, FireConnected
  <2> QED BY <2>1
<1>5. CASE Reconnecting(k)
  <2>1. Go(k, "reconnecting", "backoff") /\ UNCHANGED <<reader, chan>>
    BY <1>5 DEF Reconnecting, SetState
  <2> QED BY <2>1
<1>6. CASE Exit(k)
  <2>1. Go(k, "exit", "ended") /\ UNCHANGED <<reader, chan>>
    BY <1>6 DEF Exit, ExitCounting
  <2> QED BY <2>1
<1> QED BY <1>1, <1>2, <1>3, <1>4, <1>5, <1>6 DEF HandlerStep

\* The way out lowers the rank of the one who takes it and leaves the others'.
LEMMA WayOutFalls ==
  ASSUME TypeOK, NEW g \in Goroutines, WayOut(g)
  PROVE  /\ Below(Rank(g)', Rank(g), 3)
         /\ \A h \in Goroutines \ {g} : Rank(h)' = Rank(h)
<1>1. PICK from, to \in Labels : Go(g, from, to) /\ Place(to) < Place(from)
  BY DEF WayOut
<1>2. pc[g] = from /\ pc'[g] = to /\ \A h \in Goroutines \ {g} : pc'[h] = pc[h]
  BY <1>1 DEF Go, TypeOK
<1>3. \A h \in Goroutines : Unread(h)' = Unread(h) /\ Buffered(h)' = Buffered(h)
  BY DEF WayOut, Unread, Buffered
<1>4. Below(Rank(g)', Rank(g), 3)
  <2>1. Place(pc'[g]) < Place(pc[g])
    BY <1>1, <1>2
  <2> QED BY <1>3, <2>1, BelowOfThree DEF Rank
<1>5. \A h \in Goroutines \ {g} : Rank(h)' = Rank(h)
  BY <1>2, <1>3 DEF Rank
<1> QED BY <1>4, <1>5

LEMMA RecvFalls ==
  ASSUME TypeOK, NEW k \in Conns, Recv(k)
  PROVE  /\ Below(Rank(k)', Rank(k), 3)
         /\ \A h \in Goroutines \ {k} : Rank(h)' = Rank(h)
<1>1. /\ chan[k] # <<>> /\ chan' = [chan EXCEPT ![k] = Tail(chan[k])]
      /\ reader' = reader
      /\ \E to : pc' = [pc EXCEPT ![k] = to]
  BY DEF Recv, RecvMoving, Go
<1>2. chan[k] \in Seq(0..MaxEvents) /\ chan'[k] = Tail(chan[k])
  BY <1>1 DEF TypeOK
<1>3. Len(Tail(chan[k])) < Len(chan[k])
  BY <1>1, <1>2, HeadTailProperties
<1>4. Unread(k)' = Unread(k) /\ Buffered(k)' < Buffered(k)
  BY <1>1, <1>2, <1>3 DEF Unread, Buffered
<1>5. \A h \in Goroutines \ {k} : pc'[h] = pc[h] /\ (h \in Conns => chan'[h] = chan[h])
  BY <1>1 DEF TypeOK
<1> QED BY <1>1, <1>4, <1>5, BelowOfThree DEF Rank, Unread, Buffered

\* A cancelled reader's step, whatever it still puts into the channel, is its last.
LEMMA ReaderFalls ==
  ASSUME IInv, Ending, NEW k \in Conns, ReaderStep(k)
  PROVE  /\ Below(Rank(k)', Rank(k), 3)
         /\ \A h \in Goroutines \ {k} : Rank(h)' = Rank(h)
<1>1. k \in cancelled /\ reader[k] = "reading"
  BY EndingFacts DEF ReaderStep, ReadEvent, ReadError, ReadEnd
<1>2. /\ reader' = [reader EXCEPT ![k] = "ended"] /\ pc' = pc
      /\ chan' = chan \/ \E c : chan' = [chan EXCEPT ![k] = c]
  BY <1>1 DEF ReaderStep, ReadEvent, ReadError, ReadEnd, goVars
<1>3. TypeOK
  BY DEF IInv
<1>4. Unread(k)' = 0 /\ Unread(k) = 1
  BY <1>1, <1>2, <1>3 DEF Unread, TypeOK
<1>5. \A h \in Goroutines \ {k} :
        h \in Conns => chan'[h] = chan[h] /\ reader'[h] = reader[h]
  BY <1>2, <1>3 DEF TypeOK
<1> QED BY <1>2, <1>4, <1>5, BelowOfThree DEF Rank, Unread, Buffered

LEMMA StartFalls ==
  ASSUME TypeOK, Start
  PROVE  WayOut(Starter)
<1> USE LabelFacts DEF WayOut, Place, connVars
<1>1. PICK to \in {"check", "giveup"} :
        Go(Starter, "idle", to) /\ UNCHANGED <<reader, chan>>
  BY DEF Start
<1> QED BY <1>1

LEMMA StepFalls ==
  ASSUME IInv, Ending, NEW g \in Goroutines, GoroutineStep(g)
  PROVE  /\ Below(Rank(g)', Rank(g), 3)
         /\ \A h \in Goroutines \ {g} : Rank(h)' = Rank(h)
<1>1. TypeOK
  BY DEF IInv
<1>2. CASE WayOut(g)
  BY <1>1, <1>2, WayOutFalls
<1>3. CASE g \in Conns /\ (Recv(g) \/ ReaderStep(g))
  BY <1>1, <1>3, RecvFalls, ReaderFalls
<1> QED BY <1>1, <1>2, <1>3, StartFalls, ConnectWaysOut, HandlerWaysOut DEF GoroutineStep

\* Once a Disconnect is past connMu every goroutine, wherever Connect, the retry
\* loops or the dispatch had got it, and every reader takes finitely many
\* steps: with RanksEnd this is what StopReturns and ReadersEnd need besides the
\* fairness of FairSpec and the exit of the telemetry.
THEOREM StoppingEnds ==
  Spec => [](\A g \in Goroutines : Rank(g) \in [1..3 -> Nat]) /\ RankFalls
<1> DEFINE Falls == Ending => \A g \in Goroutines :
              IF GoroutineStep(g) THEN Below(Rank(g)', Rank(g), 3) ELSE Rank(g)' = Rank(g)
<1>1. IInv /\ [Next]_vars => [Falls]_vars
  <2> SUFFICES ASSUME IInv, Next, Ending, NEW g \in Goroutines
               PROVE  IF GoroutineStep(g) THEN Below(Rank(g)', Rank(g), 3)
                                          ELSE Rank(g)' = Rank(g)
    OBVIOUS
  <2>1. CASE GoroutineStep(g)
    BY <2>1, StepFalls
  <2>2. CASE ~GoroutineStep(g)
    <3>1. ASSUME NEW h \in Goroutines, GoroutineStep(h)
          PROVE  Rank(g)' = Rank(g)
      <4>1. h # g
        BY <2>2, <3>1
      <4> QED BY <3>1, <4>1, StepFalls
    <3>2. CASE PollStep \/ PortalPublish \/ \E s \in Stoppers : StopClose(s) \/ StopStep(s)
      <4>1. UNCHANGED <<pc, reader, chan>>
        BY <3>2 DEF PollStep, PollRead, PollFire, PollTick, PollExit, PortalPublish, StopClose,
                    StopStep, StopCancel, CancelOnly, StopState, StopReport, StopWait,
                    connVars, goVars
      <4>2. Unread(g)' = Unread(g) /\ Buffered(g)' = Buffered(g) /\ pc'[g] = pc[g]
        BY <4>1 DEF Unread, Buffered
      <4> QED BY <2>2, <4>2 DEF Rank
    <3>3. \/ \E h \in Goroutines : GoroutineStep(h)
          \/ PollStep \/ PortalPublish \/ \E s \in Stoppers : StopClose(s) \/ StopStep(s)
      <4>1. ASSUME NEW k \in Conns, HandlerStep(k) \/ ReaderStep(k)
            PROVE  k \in Goroutines /\ GoroutineStep(k)
        BY <4>1, GoroutineFacts DEF GoroutineStep
      <4>2. ASSUME NEW h \in Goroutines, ConnectStep(h) PROVE GoroutineStep(h)
        BY <4>2 DEF GoroutineStep
      <4>3. Start => Starter \in Goroutines /\ GoroutineStep(Starter)
        BY GoroutineFacts DEF GoroutineStep
      <4> QED BY <4>1, <4>2, <4>3, Zenon DEF Next
    <3> QED BY <2>2, <3>1, <3>2, <3>3
  <2> QED BY <2>1, <2>2
<1>2. IInv => \A g \in Goroutines : Rank(g) \in [1..3 -> Nat]
  BY RankTuple DEF IInv
<1> QED BY <1>1, <1>2, Invariance, PTL DEF Spec, RankFalls

\* No lost wake-up: when the handlers and the telemetry have ended, wg.Wait has
\* nothing left to wait for.
THEOREM StopFreed == Spec => []WaitFreed
<1>1. IInv => WaitFreed
  <2> SUFFICES ASSUME IInv, \A k \in Conns : pc[k] \in {"idle", "ended"},
                      poller \in {"off", "ended"}
               PROVE  wg = 0
    BY DEF WaitFreed
  <2>1. Running = {} /\ Polling = 0
    BY DEF Running, Polling
  <2>2. Cardinality(Running) = 0
    BY <2>1, FS_EmptySet
  <2> QED BY <2>1, <2>2 DEF IInv, Counting
<1> QED BY <1>1, Invariance, PTL


=============================================================================
