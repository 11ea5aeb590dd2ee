--------------------------- MODULE SSEDeliveryProofs ---------------------------
(***************************************************************************)
(* What the SSE client delivers, for any number of connections, stoppers    *)
(* and events: Stop loses nothing from the cursor, and the client           *)
(* implements EventDelivery.  On top of SSEClientProofs, which says whose   *)
(* the current stream is, this invariant says what is in it.                *)
(***************************************************************************)
EXTENDS SSEClientProofs

-----------------------------------------------------------------------------
(* What a stream's channel holds. *)

\* The events b+1, ..., b+n.
Run(b, n) == [i \in 1..n |-> b + i]

LEMMA RunEmpty == \A b : Run(b, 0) = <<>>
  BY DEF Run

LEMMA RunAppend ==
  ASSUME NEW b \in Nat, NEW n \in Nat
  PROVE  Append(Run(b, n), b + n + 1) = Run(b, n + 1)
  BY DEF Run

LEMMA RunSeq ==
  ASSUME NEW b \in Nat, NEW n \in Nat
  PROVE  /\ Run(b, n) \in Seq(Nat) /\ Len(Run(b, n)) = n
         /\ \A i \in 1..n : Run(b, n)[i] = b + i
  BY DEF Run

LEMMA RunTail ==
  ASSUME NEW b \in Nat, NEW n \in Nat, n > 0
  PROVE  /\ Run(b, n) # <<>>
         /\ Head(Run(b, n)) = b + 1
         /\ Tail(Run(b, n)) = Run(b + 1, n - 1)
<1> DEFINE s == Run(b, n)
           t == Run(b + 1, n - 1)
<1>1. s \in Seq(Nat) /\ Len(s) = n /\ \A i \in 1..n : s[i] = b + i
  BY RunSeq
<1>2. b + 1 \in Nat /\ n - 1 \in Nat
  OBVIOUS
<1>3. t \in Seq(Nat) /\ Len(t) = n - 1 /\ \A i \in 1..n - 1 : t[i] = (b + 1) + i
  BY <1>2, RunSeq
<1> HIDE DEF s, t
<1>4. s # <<>> /\ Head(s) = s[1]
  BY <1>1
<1>5. s[1] = b + 1
  BY <1>1
<1>6. Tail(s) \in Seq(Nat) /\ Len(Tail(s)) = n - 1
      /\ \A i \in 1..n - 1 : Tail(s)[i] = s[i + 1]
  BY <1>1, <1>4, HeadTailProperties
<1>7. \A i \in 1..n - 1 : s[i + 1] = (b + 1) + i
  BY <1>1
<1>8. Tail(s) = t
  BY <1>3, <1>6, <1>7, SeqEqual
<1> QED BY <1>4, <1>5, <1>8 DEF s, t

LEMMA BrokenRunTail ==
  ASSUME NEW b \in Nat, NEW n \in Nat, n > 0
  PROVE  /\ Append(Run(b, n), ErrorFrame) # <<>>
         /\ Head(Append(Run(b, n), ErrorFrame)) = b + 1
         /\ Tail(Append(Run(b, n), ErrorFrame)) = Append(Run(b + 1, n - 1), ErrorFrame)
<1>1. Run(b, n) \in Seq(Nat) /\ ErrorFrame \in Nat
  BY RunSeq DEF ErrorFrame
<1> DEFINE s == Run(b, n)
<1>2. s \in Seq(Nat) /\ s # <<>> /\ Head(s) = b + 1 /\ Tail(s) = Run(b + 1, n - 1)
  BY <1>1, RunTail
<1> HIDE DEF s
<1>3. Append(s, ErrorFrame) # <<>>
  BY <1>1, <1>2, AppendProperties
<1>4. /\ Head(Append(s, ErrorFrame)) = Head(s)
      /\ Tail(Append(s, ErrorFrame)) = Append(Tail(s), ErrorFrame)
  BY <1>2, HeadTailAppend
<1> QED BY <1>2, <1>3, <1>4 DEF s

LEMMA BrokenEmpty ==
  /\ Head(Append(<<>>, ErrorFrame)) = ErrorFrame
  /\ Tail(Append(<<>>, ErrorFrame)) = <<>>
  OBVIOUS

-----------------------------------------------------------------------------
(* The invariant. *)

\* Goroutine g reads connection k, or has opened it and will.
Feeds(g, k) == (g = k /\ pc[g] \in Reading) \/ (dial[g] = k /\ pc[g] \in Opened_)

\* The channel of connection k holds what follows the cursor, as far as the
\* reader has got, and possibly a last error frame.
StreamFrom(k, b, n) ==
  /\ lastEventID # 0 => b = lastEventID
  /\ pos[k] = b + n
  /\ \/ chan[k] = Run(b, n)
     \/ reader[k] = "ended" /\ chan[k] = Append(Run(b, n), ErrorFrame)

Stream(k) == \E b, n \in Nat : StreamFrom(k, b, n)

\* Nothing is ahead of the portal's log, and the cursor is not behind the
\* application.
Logged ==
  /\ last <= lastEventID /\ lastEventID <= published
  /\ \A k \in Conns : pos[k] <= published

\* A connection is requested from the cursor; what is read follows it.
Streams ==
  /\ \A k \in Conns : reader[k] = "none" => chan[k] = <<>>
  /\ \A g \in Goroutines : pc[g] \in {"publish", "dial"} => pos[dial[g]] = lastEventID
  /\ \A g \in Goroutines, k \in Conns : Feeds(g, k) => Stream(k)

\* Of the events up to e the application has got all that are routed.
Given(e) == last # 0 => \A f \in Routed : f <= e => f <= last

\* The cursor is ahead of the application by the event in flight, if there is one.
InFlight ==
  \A g \in Conns : pc[g] = "dispatch" =>
    /\ event[g] = lastEventID /\ lastEventID \in Routed /\ last < lastEventID
    /\ Given(lastEventID - 1)

Settled ==
  (\A g \in Conns : pc[g] # "dispatch") =>
    /\ lastEventID \in Routed => last = lastEventID
    /\ Given(lastEventID)

Delivers == Logged /\ Streams /\ InFlight /\ Settled

\* What delivery is about, besides where the goroutines are.
flow == <<lastEventID, last, published, pos, chan, reader, event>>

LEMMA InitDelivers == Init => Delivers
<1> SUFFICES ASSUME Init PROVE Delivers
  OBVIOUS
<1>1. /\ lastEventID \in 0..published /\ published \in 0..MaxEvents /\ last = lastEventID
      /\ pos = [k \in Conns |-> 0] /\ chan = [k \in Conns |-> <<>>]
      /\ pc = [g \in Goroutines |-> "idle"]
  BY DEF Init
<1>2. published \in Nat /\ lastEventID \in Nat
  BY <1>1, BoundsAssumption
<1>3. Logged
  BY <1>1, <1>2 DEF Logged
<1>4. Streams
  BY <1>1 DEF Streams, Feeds, Reading, Opened_
<1>5. InFlight
  BY <1>1, GoroutineFacts DEF InFlight
<1>6. Given(lastEventID)
  BY <1>1 DEF Given
<1> QED BY <1>1, <1>3, <1>4, <1>5, <1>6 DEF Delivers, Settled

-----------------------------------------------------------------------------
(* Steps that leave delivery alone. *)

\* A step of goroutine g that creates no connection, opens no stream and
\* receives and hands over nothing.
StillMove(g, from, to) ==
  /\ Go(g, from, to)
  /\ to \in {"publish", "dial"} => from \in {"publish", "dial"}
  /\ to \in Opened_ => from \in Opened_
  /\ to \notin Reading /\ from # "dispatch"
  /\ UNCHANGED <<flow, dial>>

LEMMA FlowKeeps ==
  ASSUME Delivers, UNCHANGED flow,
         \A g \in Goroutines :
           pc'[g] \in {"publish", "dial"} => pc[g] \in {"publish", "dial"} /\ dial'[g] = dial[g],
         \A g \in Goroutines, k \in Conns :
           Feeds(g, k)' => \E h \in Goroutines : Feeds(h, k),
         \A k \in Conns : pc'[k] = "dispatch" <=> pc[k] = "dispatch"
  PROVE  Delivers'
<1>1. Logged'
  BY DEF Delivers, Logged, flow
<1>2. \A k \in Conns : Stream(k) => Stream(k)'
  BY DEF Stream, StreamFrom, flow
<1>3. Streams'
  BY <1>2 DEF Delivers, Streams, flow
<1>4. InFlight' /\ Settled'
  BY DEF Delivers, InFlight, Settled, Given, flow
<1> QED BY <1>1, <1>3, <1>4 DEF Delivers

LEMMA StillMoveKeeps ==
  ASSUME TypeOK, Delivers, NEW g \in Goroutines, NEW from, NEW to, StillMove(g, from, to)
  PROVE  Delivers'
<1>1. pc[g] = from /\ pc' = [pc EXCEPT ![g] = to] /\ pc \in [Goroutines -> Labels]
      /\ UNCHANGED <<flow, dial>>
  BY DEF StillMove, Go, TypeOK
<1>2. \A h \in Goroutines :
        pc'[h] \in {"publish", "dial"} => pc[h] \in {"publish", "dial"} /\ dial'[h] = dial[h]
  BY <1>1 DEF StillMove
<1>3. \A h \in Goroutines, k \in Conns : Feeds(h, k)' => Feeds(h, k)
  BY <1>1 DEF StillMove, Feeds
<1>4. \A k \in Conns : pc'[k] = "dispatch" <=> pc[k] = "dispatch"
  BY <1>1, GoroutineFacts DEF StillMove, Reading
<1> QED BY <1>1, <1>2, <1>3, <1>4, FlowKeeps

LEMMA ConnectStill ==
  ASSUME NEW g \in Goroutines,
         \/ Check(g) \/ Publish(g) \/ DialFail(g) \/ Unpublish(g) \/ DialFailed(g)
         \/ Opened(g) \/ Report(g) \/ Backoff(g) \/ GiveUp(g) \/ (done /\ Spawn(g))
  PROVE  \E from, to : StillMove(g, from, to)
<1> USE DEF StillMove, Opened_, Reading, clientVars, connVars, pollVars, envVars, nonPc, flow
<1>0. Finish(g) \in {"exit", "ended"} /\ OnClosed(g) \in {"giveup", "exit", "ended"}
      /\ OnFailure(g) \in {"giveup", "backoff"}
  BY DEF Finish, OnClosed, OnFailure
<1>1. CASE Check(g)
  <2>1. CASE done
    <3>1. StillMove(g, "check", OnClosed(g))
      BY <1>0, <1>1, <2>1 DEF Check, Jump
    <3> QED BY <3>1
  <2>2. CASE ~done
    <3>1. StillMove(g, "check", "connecting")
      BY <1>1, <2>2 DEF Check, Jump
    <3> QED BY <3>1
  <2> QED BY <2>1, <2>2
<1>2. CASE Publish(g)
  <2>1. StillMove(g, "publish", OnClosed(g)) \/ StillMove(g, "publish", "dial")
    BY <1>0, <1>2 DEF Publish, PublishIf
  <2> QED BY <2>1
<1>3. CASE DialFail(g)
  <2>1. StillMove(g, "dial", "unpublish")
    BY <1>3 DEF DialFail, Jump
  <2> QED BY <2>1
<1>4. CASE Unpublish(g)
  <2>1. StillMove(g, "unpublish", "dialfailed")
    BY <1>4 DEF Unpublish
  <2> QED BY <2>1
<1>5. CASE DialFailed(g)
  <2>1. StillMove(g, "dialfailed", OnFailure(g))
    BY <1>0, <1>5 DEF DialFailed
  <2> QED BY <2>1
<1>6. CASE Opened(g)
  <2>1. StillMove(g, "opened", "report")
    BY <1>6 DEF Opened, SetState
  <2> QED BY <2>1
<1>7. CASE Report(g)
  <2>1. StillMove(g, "report", "spawn")
    BY <1>7 DEF Report, FireConnected
  <2> QED BY <2>1
<1>8. CASE Backoff(g)
  <2>1. \E to \in {"check", "giveup", "exit"} : StillMove(g, "backoff", to)
    BY <1>8 DEF Backoff, Jump
  <2> QED BY <2>1
<1>9. CASE GiveUp(g)
  <2>1. StillMove(g, "giveup", Finish(g))
    BY <1>0, <1>9 DEF GiveUp, SetState
  <2> QED BY <2>1
<1>10. CASE done /\ Spawn(g)
  <2>1. StillMove(g, "spawn", OnClosed(g))
    BY <1>0, <1>10 DEF Spawn, SpawnThen
  <2> QED BY <2>1
<1> QED BY <1>1, <1>2, <1>3, <1>4, <1>5, <1>6, <1>7, <1>8, <1>9, <1>10

LEMMA HandlerStill ==
  ASSUME NEW k \in Conns,
         \/ RecvDone(k) \/ RecvClosed(k) \/ Dropped(k) \/ ReportDrop(k) \/ Reconnecting(k)
         \/ Exit(k)
  PROVE  \E from, to : StillMove(k, from, to)
<1> USE DEF StillMove, Opened_, Reading, clientVars, connVars, pollVars, envVars, nonPc, flow
<1>1. CASE RecvDone(k)
  <2>1. StillMove(k, "recv", "exit")
    BY <1>1 DEF RecvDone, Jump
  <2> QED BY <2>1
<1>2. CASE RecvClosed(k)
  <2>1. StillMove(k, "recv", "dropped")
    BY <1>2 DEF RecvClosed, Jump
  <2> QED BY <2>1
<1>3. CASE Dropped(k)
  <2>1. StillMove(k, "dropped", "reportdrop")
    BY <1>3 DEF Dropped, SetState
  <2> QED BY <2>1
<1>4. CASE ReportDrop(k)
  <2>1. \E to \in {"reconnecting", "exit"} : StillMove(k, "reportdrop", to)
    BY <1>4 DEF ReportDrop, FireConnected
  <2> QED BY <2>1
<1>5. CASE Reconnecting(k)
  <2>1. StillMove(k, "reconnecting", "backoff")
    BY <1>5 DEF Reconnecting, SetState
  <2> QED BY <2>1
<1>6. CASE Exit(k)
  <2>1. StillMove(k, "exit", "ended")
    BY <1>6 DEF Exit, ExitCounting
  <2> QED BY <2>1
<1> QED BY <1>1, <1>2, <1>3, <1>4, <1>5, <1>6

\* Start moves the first goroutine; the telemetry and Stop move none.
LEMMA OthersKeepDelivery ==
  ASSUME TypeOK, Delivers,
         \/ Start \/ PollStep \/ UNCHANGED vars
         \/ \E s \in Stoppers : StopClose(s) \/ StopStep(s)
  PROVE  Delivers'
<1> USE DEF flow, clientVars, connVars, goVars, pollVars, envVars
<1>1. CASE Start
  <2>1. \E to \in {"check", "giveup"} : StillMove(Starter, "idle", to)
    BY <1>1 DEF Start, StillMove, Opened_, Reading
  <2> QED BY <2>1, GoroutineFacts, StillMoveKeeps
<1>2. ASSUME UNCHANGED <<flow, pc, dial>> PROVE Delivers'
  BY <1>2, FlowKeeps DEF Feeds
<1>3. CASE PollStep
  BY <1>2, <1>3 DEF PollStep, PollRead, PollFire, PollTick, PollExit
<1>4. CASE UNCHANGED vars
  BY <1>2, <1>4 DEF vars
<1>5. CASE \E s \in Stoppers : StopClose(s) \/ StopStep(s)
  BY <1>2, <1>5 DEF StopClose, StopStep, StopCancel, CancelOnly, StopState, StopReport, StopWait
<1> QED BY <1>1, <1>3, <1>4, <1>5

-----------------------------------------------------------------------------
(* Steps that open a stream and hand it over. *)

\* No other goroutine is on its way to a stream or reads one.
LEMMA Alone ==
  ASSUME Ownership, NEW g \in Goroutines, Active(g)
  PROVE  \A h \in Goroutines :
           h # g => pc[h] \notin Opened_ \union Reading \union Opening
  BY DEF Ownership, OneStream, Active, RestLabels, Opened_, Reading, Opening

LEMMA ConnectingDelivers ==
  ASSUME TypeOK, Ownership, Delivers, NEW g \in Goroutines, Connecting(g)
  PROVE  Delivers'
<1>1. /\ pc[g] = "connecting" /\ pc' = [pc EXCEPT ![g] = "publish"] /\ made < MaxConns
      /\ dial' = [dial EXCEPT ![g] = made + 1]
      /\ pos' = [pos EXCEPT ![made + 1] = lastEventID]
      /\ UNCHANGED <<lastEventID, last, published, chan, reader, event>>
      /\ pc \in [Goroutines -> Labels] /\ dial \in [Goroutines -> 0..MaxConns]
      /\ pos \in [Conns -> 0..MaxEvents] /\ made \in 0..MaxConns
  BY DEF Connecting, Go, TypeOK, envVars
<1>2. made + 1 \in Conns /\ made + 1 > made
  BY <1>1, BoundsAssumption DEF Conns
<1>3. \A h \in Goroutines : h # g => pc[h] \notin Opened_ \union Reading \union Opening
  BY <1>1, Alone DEF Active, RestLabels
<1>4. Logged'
  BY <1>1, <1>2 DEF Delivers, Logged
<1>5. \A h \in Goroutines, k \in Conns : ~Feeds(h, k)'
  <2> SUFFICES ASSUME NEW h \in Goroutines, NEW k \in Conns PROVE ~Feeds(h, k)'
    OBVIOUS
  <2>1. pc'[h] \notin Opened_ \union Reading
    BY <1>1, <1>3 DEF Opened_, Reading
  <2> QED BY <2>1 DEF Feeds
<1>6. \A h \in Goroutines : pc'[h] \in {"publish", "dial"} => pos'[dial'[h]] = lastEventID'
  <2> SUFFICES ASSUME NEW h \in Goroutines, pc'[h] \in {"publish", "dial"}
               PROVE  pos'[dial'[h]] = lastEventID'
    OBVIOUS
  <2>1. h = g
    BY <1>1, <1>3 DEF Opening
  <2>2. dial'[g] = made + 1
    BY <1>1
  <2>3. pos'[made + 1] = lastEventID
    BY <1>1, <1>2
  <2> QED BY <1>1, <2>1, <2>2, <2>3
<1>7. Streams'
  BY <1>1, <1>5, <1>6 DEF Delivers, Streams
<1>8. \A k \in Conns : pc'[k] = "dispatch" <=> pc[k] = "dispatch"
  BY <1>1, GoroutineFacts
<1>9. InFlight' /\ Settled'
  BY <1>1, <1>8 DEF Delivers, InFlight, Settled, Given
<1> QED BY <1>4, <1>7, <1>9 DEF Delivers

\* An application without a cursor may be given the log from anywhere.
LEMMA DialOKDelivers ==
  ASSUME TypeOK, Ownership, Delivers, NEW g \in Goroutines, DialOK(g)
  PROVE  Delivers'
<1>0. PICK k \in Conns : k = dial[g]
  BY DEF DialOK, Go, Ownership, OpenLabels
<1>1. /\ pc[g] = "dial" /\ pc' = [pc EXCEPT ![g] = "opened"]
      /\ reader' = [reader EXCEPT ![k] = "reading"]
      /\ UNCHANGED <<lastEventID, last, published, chan, dial, event>>
      /\ pc \in [Goroutines -> Labels] /\ reader \in [Conns -> {"none", "reading", "ended"}]
      /\ pos \in [Conns -> 0..MaxEvents] /\ published \in 0..MaxEvents
      /\ lastEventID \in 0..MaxEvents
  BY <1>0 DEF DialOK, Go, TypeOK, clientVars, envVars
<1>2. PICK p \in IF pos[k] = 0 THEN 0..published ELSE {pos[k]} : pos' = [pos EXCEPT ![k] = p]
  BY <1>0 DEF DialOK
<1>3. k \in Conns /\ reader[k] = "none" /\ chan[k] = <<>> /\ pos[k] = lastEventID
  BY <1>0, <1>1 DEF Ownership, OpenLabels, Opening, Delivers, Streams
<1>4. p \in Nat /\ p <= published /\ (lastEventID # 0 => p = lastEventID)
  BY <1>1, <1>2, <1>3, BoundsAssumption DEF Delivers, Logged
<1>5. pos'[k] = p /\ reader'[k] = "reading" /\ chan'[k] = <<>>
  BY <1>1, <1>2, <1>3
<1>6. Logged'
  BY <1>1, <1>2, <1>3, <1>4 DEF Delivers, Logged
<1>7. \A h \in Goroutines : h # g => pc[h] \notin Opened_ \union Reading \union Opening
  BY <1>1, Alone DEF Active, RestLabels
<1>8. \A h \in Goroutines : h # g => pc'[h] \notin Opened_ \union Reading \union Opening
  BY <1>1, <1>7
<1>9. Stream(k)'
  <2>1. 0 \in Nat /\ p = p + 0 /\ Run(p, 0) = <<>>
    BY <1>4, RunEmpty
  <2>2. StreamFrom(k, p, 0)'
    BY <1>1, <1>4, <1>5, <2>1 DEF StreamFrom
  <2> QED BY <1>4, <2>1, <2>2 DEF Stream
<1>10. \A h \in Goroutines, j \in Conns : Feeds(h, j)' => j = k
  <2> SUFFICES ASSUME NEW h \in Goroutines, NEW j \in Conns, Feeds(h, j)' PROVE j = k
    OBVIOUS
  <2>1. h = g
    BY <1>8 DEF Feeds
  <2>2. pc'[g] = "opened"
    BY <1>1
  <2> QED BY <1>0, <1>1, <2>1, <2>2 DEF Feeds, Reading
<1>11. Streams'
  <2>1. \A h \in Goroutines : pc'[h] \notin {"publish", "dial"}
    BY <1>1, <1>8 DEF Opening
  <2>2. \A j \in Conns : reader'[j] = "none" => chan'[j] = <<>>
    BY <1>1, <1>3, <1>5 DEF Delivers, Streams
  <2> QED BY <1>9, <1>10, <2>1, <2>2 DEF Streams
<1>12. \A j \in Conns : pc'[j] = "dispatch" <=> pc[j] = "dispatch"
  BY <1>1, GoroutineFacts
<1>13. InFlight' /\ Settled'
  BY <1>1, <1>12 DEF Delivers, InFlight, Settled, Given
<1> QED BY <1>6, <1>11, <1>13 DEF Delivers

\* The new handler reads what the goroutine that opened the stream would have.
LEMMA SpawnDelivers ==
  ASSUME TypeOK, Ownership, Delivers, NEW g \in Goroutines, Spawn(g)
  PROVE  Delivers'
<1>1. CASE done
  BY <1>1, ConnectStill, StillMoveKeeps
<1>2. CASE ~done
  <2> DEFINE k == dial[g]
  <2>1. /\ pc[g] = "spawn" /\ pc' = [pc EXCEPT ![k] = "recv", ![g] = Finish(g)]
        /\ UNCHANGED <<flow, dial>>
        /\ pc \in [Goroutines -> Labels]
        /\ Finish(g) \in {"exit", "ended"}
    BY <1>2 DEF Spawn, SpawnThen, TypeOK, flow, envVars, Finish
  <2>2. k \in Conns /\ k \in Goroutines /\ pc[k] = "idle" /\ k # g
    BY <2>1, GoroutineFacts DEF Ownership, OpenLabels
  <2>3. Feeds(g, k)
    BY <2>1 DEF Feeds, Opened_
  <2> HIDE DEF k
  <2>4. /\ pc'[k] = "recv" /\ pc'[g] = Finish(g)
        /\ \A h \in Goroutines : h # k /\ h # g => pc'[h] = pc[h]
    BY <2>1, <2>2
  <2>5. \A h \in Goroutines :
          pc'[h] \in {"publish", "dial"} => pc[h] \in {"publish", "dial"} /\ dial'[h] = dial[h]
    <3> SUFFICES ASSUME NEW h \in Goroutines, pc'[h] \in {"publish", "dial"}
                 PROVE  pc[h] \in {"publish", "dial"} /\ dial'[h] = dial[h]
      OBVIOUS
    <3>1. h # k /\ h # g
      BY <2>1, <2>4
    <3> QED BY <2>1, <2>4, <3>1
  <2>6. \A h \in Goroutines, j \in Conns : Feeds(h, j)' => \E i \in Goroutines : Feeds(i, j)
    <3> SUFFICES ASSUME NEW h \in Goroutines, NEW j \in Conns, Feeds(h, j)'
                 PROVE  \E i \in Goroutines : Feeds(i, j)
      OBVIOUS
    <3>1. CASE h = k
      <4>1. j = k
        BY <2>4, <3>1 DEF Feeds, Opened_
      <4> QED BY <2>3, <4>1
    <3>2. CASE h = g
      <4>1. pc'[g] \notin Opened_ \union Reading
        BY <2>1, <2>4 DEF Opened_, Reading
      <4> QED BY <3>2, <4>1 DEF Feeds
    <3>3. CASE h # k /\ h # g
      <4>1. pc'[h] = pc[h] /\ dial'[h] = dial[h]
        BY <2>1, <2>4, <3>3
      <4>2. Feeds(h, j)
        BY <4>1 DEF Feeds
      <4> QED BY <4>2
    <3> QED BY <3>1, <3>2, <3>3
  <2>7. \A j \in Conns : pc'[j] = "dispatch" <=> pc[j] = "dispatch"
    <3> SUFFICES ASSUME NEW j \in Conns PROVE pc'[j] = "dispatch" <=> pc[j] = "dispatch"
      OBVIOUS
    <3>1. j \in Goroutines
      BY GoroutineFacts
    <3>2. pc'[k] # "dispatch" /\ pc[k] # "dispatch" /\ pc'[g] # "dispatch" /\ pc[g] # "dispatch"
      BY <2>1, <2>2, <2>4
    <3> QED BY <2>4, <3>1, <3>2
  <2> QED BY <2>1, <2>5, <2>6, <2>7, FlowKeeps
<1> QED BY <1>1, <1>2

-----------------------------------------------------------------------------
(* Steps that receive and hand over. *)

\* The frame at the head of a fed channel is the event after the cursor, or the
\* error frame with nothing behind it.
LEMMA HeadOfStream ==
  ASSUME NEW k \in Conns, NEW b \in Nat, NEW n \in Nat, StreamFrom(k, b, n), chan[k] # <<>>
  PROVE  \/ /\ n > 0 /\ Head(chan[k]) = b + 1
            /\ \/ Tail(chan[k]) = Run(b + 1, n - 1)
               \/ /\ reader[k] = "ended"
                  /\ Tail(chan[k]) = Append(Run(b + 1, n - 1), ErrorFrame)
         \/ Head(chan[k]) = ErrorFrame /\ Tail(chan[k]) = Run(b, 0) /\ n = 0
<1>1. CASE chan[k] = Run(b, n)
  <2>1. n # 0
    BY <1>1, RunEmpty
  <2>2. n > 0
    BY <2>1
  <2> QED BY <1>1, <2>2, RunTail
<1>2. CASE reader[k] = "ended" /\ chan[k] = Append(Run(b, n), ErrorFrame) /\ n > 0
  BY <1>2, BrokenRunTail
<1>3. CASE chan[k] = Append(Run(b, n), ErrorFrame) /\ n = 0
  BY <1>3, RunEmpty, BrokenEmpty
<1>4. n > 0 \/ n = 0
  OBVIOUS
<1>5. \/ chan[k] = Run(b, n)
      \/ reader[k] = "ended" /\ chan[k] = Append(Run(b, n), ErrorFrame)
  BY DEF StreamFrom
<1> QED BY <1>1, <1>2, <1>3, <1>4, <1>5

LEMMA RecvDelivers ==
  ASSUME TypeOK, Ownership, Delivers, NEW k \in Conns, Recv(k)
  PROVE  Delivers'
<1> DEFINE f == Head(chan[k])
<1>1. /\ pc[k] = "recv" /\ chan[k] # <<>> /\ chan' = [chan EXCEPT ![k] = Tail(@)]
      /\ UNCHANGED <<last, published, pos, reader, dial>>
      /\ \/ /\ f = ErrorFrame /\ Go(k, "recv", "recv") /\ UNCHANGED <<lastEventID, event>>
         \/ /\ f # ErrorFrame /\ Go(k, "recv", IF f \in Routed THEN "dispatch" ELSE "recv")
            /\ lastEventID' = f /\ event' = [event EXCEPT ![k] = f]
  BY DEF Recv, RecvMoving, envVars, Go
<1>2. /\ pc \in [Goroutines -> Labels] /\ chan \in [Conns -> Seq(0..MaxEvents)]
      /\ event \in [Conns -> 0..MaxEvents] /\ lastEventID \in Nat /\ last \in Nat
      /\ published \in Nat /\ pos \in [Conns -> 0..MaxEvents] /\ k \in Goroutines
      /\ \A e \in Routed : e \in Nat
  BY GoroutineFacts, BoundsAssumption DEF TypeOK
<1>3. chan'[k] = Tail(chan[k]) /\ \A j \in Conns : j # k => chan'[j] = chan[j]
  BY <1>1, <1>2
<1>4. \A h \in Goroutines : h # k => pc[h] \notin Opened_ \union Reading \union Opening
  BY <1>1, <1>2, Alone DEF Active, RestLabels
<1>5. \A h \in Goroutines : h # k => pc'[h] = pc[h]
  BY <1>1, <1>2 DEF Go
<1>6. Feeds(k, k)
  BY <1>1 DEF Feeds, Reading
<1>7. PICK b \in Nat, n \in Nat : StreamFrom(k, b, n)
  BY <1>2, <1>6 DEF Delivers, Streams, Stream
<1>8. \/ /\ n > 0 /\ f = b + 1
         /\ \/ chan'[k] = Run(b + 1, n - 1)
            \/ reader[k] = "ended" /\ chan'[k] = Append(Run(b + 1, n - 1), ErrorFrame)
      \/ f = ErrorFrame /\ chan'[k] = Run(b, 0) /\ n = 0
  BY <1>1, <1>3, <1>7, HeadOfStream
<1>9. b + n <= published /\ pos[k] = b + n /\ (lastEventID # 0 => b = lastEventID)
  BY <1>7 DEF StreamFrom, Delivers, Logged
<1>10. pc'[k] \in {"recv", "dispatch"}
  BY <1>1, <1>2 DEF Go
<1>11. Stream(k)' => Streams'
  <2> SUFFICES ASSUME Stream(k)' PROVE Streams'
    OBVIOUS
  <2>1. \A j \in Conns : reader'[j] = "none" => chan'[j] = <<>>
    <3>1. reader[k] # "none"
      BY <1>1 DEF Delivers, Streams
    <3> QED BY <1>1, <1>3, <3>1 DEF Delivers, Streams
  <2>2. \A h \in Goroutines : pc'[h] \notin {"publish", "dial"}
    BY <1>4, <1>5, <1>10 DEF Opening
  <2>3. \A h \in Goroutines, j \in Conns : Feeds(h, j)' => j = k
    BY <1>4, <1>5, <1>10 DEF Feeds, Opened_
  <2> QED BY <2>1, <2>2, <2>3 DEF Streams
<1>12. \A j \in Conns : j # k => pc'[j] # "dispatch" /\ pc[j] # "dispatch"
  BY <1>4, <1>5, GoroutineFacts DEF Reading
<1>13. Settled => (lastEventID \in Routed => last = lastEventID) /\ Given(lastEventID)
  BY <1>1, <1>12 DEF Settled
<1>14. last <= lastEventID /\ lastEventID <= published /\ \A j \in Conns : pos[j] <= published
  BY DEF Delivers, Logged
<1>15. CASE f = ErrorFrame
  <2>1. UNCHANGED lastEventID /\ pc'[k] = "recv" /\ n = 0 /\ chan'[k] = Run(b, 0)
    BY <1>1, <1>2, <1>8, <1>15 DEF Go, ErrorFrame
  <2>2. StreamFrom(k, b, 0)'
    BY <1>1, <1>9, <2>1 DEF StreamFrom
  <2>3. Stream(k)'
    BY <2>2 DEF Stream
  <2>4. Logged'
    BY <1>1, <1>14, <2>1 DEF Logged
  <2>5. InFlight'
    BY <1>12, <2>1 DEF InFlight
  <2>6. Settled'
    BY <1>1, <1>13, <2>1 DEF Delivers, Settled, Given
  <2> QED BY <1>11, <2>3, <2>4, <2>5, <2>6 DEF Delivers
<1>16. CASE f # ErrorFrame
  <2>1. /\ lastEventID' = b + 1 /\ n > 0 /\ f = b + 1
        /\ pc'[k] = IF f \in Routed THEN "dispatch" ELSE "recv"
        /\ event'[k] = b + 1
    BY <1>1, <1>2, <1>8, <1>16 DEF Go
  <2>2. b + 1 \in Nat /\ n - 1 \in Nat /\ b + n = (b + 1) + (n - 1) /\ b + 1 <= published
        /\ last <= b + 1 /\ last < b + 1
    BY <1>2, <1>9, <1>14, <2>1
  <2>3. StreamFrom(k, b + 1, n - 1)'
    BY <1>1, <1>8, <1>9, <1>16, <2>1, <2>2 DEF StreamFrom
  <2>4. Stream(k)'
    BY <2>2, <2>3 DEF Stream
  <2>5. Logged'
    BY <1>1, <1>14, <2>1, <2>2 DEF Logged
  <2>6. \A e \in Routed : last # 0 /\ e <= b => e <= last
    <3>1. last # 0 => b = lastEventID
      BY <1>2, <1>9, <1>14
    <3> QED BY <1>13, <3>1 DEF Delivers, Given
  <2>7. CASE f \in Routed
    <3>1. pc'[k] = "dispatch" /\ lastEventID' - 1 = b
      BY <2>1, <2>7
    <3>2. Given(lastEventID - 1)'
      BY <1>1, <2>6, <3>1 DEF Given
    <3>3. InFlight'
      BY <1>1, <1>12, <2>1, <2>2, <2>7, <3>2 DEF InFlight
    <3>4. Settled'
      BY <3>1 DEF Settled
    <3> QED BY <1>11, <2>4, <2>5, <3>3, <3>4 DEF Delivers
  <2>8. CASE f \notin Routed
    <3>1. pc'[k] = "recv"
      BY <2>1, <2>8
    <3>2. InFlight'
      BY <1>12, <3>1 DEF InFlight
    <3>3. \A e \in Routed : e <= b + 1 => e <= b
      BY <1>2, <2>1, <2>8
    <3>4. Given(lastEventID)'
      BY <1>1, <2>1, <2>6, <3>3 DEF Given
    <3>5. Settled'
      BY <2>1, <2>8, <3>4 DEF Settled
    <3> QED BY <1>11, <2>4, <2>5, <3>2, <3>5 DEF Delivers
  <2> QED BY <2>7, <2>8
<1> QED BY <1>15, <1>16

LEMMA DispatchDelivers ==
  ASSUME TypeOK, Ownership, Delivers, NEW k \in Conns, Dispatch(k)
  PROVE  Delivers'
<1>1. /\ pc[k] = "dispatch" /\ pc' = [pc EXCEPT ![k] = "recv"] /\ last' = event[k]
      /\ UNCHANGED <<lastEventID, published, pos, chan, reader, event, dial>>
      /\ pc \in [Goroutines -> Labels] /\ k \in Goroutines
      /\ lastEventID \in Nat
  BY GoroutineFacts, BoundsAssumption
     DEF Dispatch, Go, clientVars, connVars, TypeOK
<1>2. event[k] = lastEventID /\ lastEventID \in Routed
  BY <1>1 DEF Delivers, InFlight
<1>3. Logged'
  BY <1>1, <1>2 DEF Delivers, Logged
<1>4. \A h \in Goroutines : h # k => pc[h] \notin Opened_ \union Reading \union Opening
  BY <1>1, Alone DEF Active, RestLabels
<1>5. pc'[k] = "recv" /\ \A h \in Goroutines : h # k => pc'[h] = pc[h]
  BY <1>1
<1>6. Streams'
  <2>1. \A j \in Conns : Stream(j) => Stream(j)'
    BY <1>1 DEF Stream, StreamFrom
  <2>2. \A h \in Goroutines, j \in Conns : Feeds(h, j)' => Feeds(h, j)
    BY <1>1, <1>5 DEF Feeds, Reading, Opened_
  <2> QED BY <1>1, <1>5, <2>1, <2>2 DEF Delivers, Streams
<1>7. \A j \in Conns : pc'[j] # "dispatch"
  BY <1>4, <1>5, GoroutineFacts DEF Reading
<1>8. InFlight'
  BY <1>7 DEF InFlight
<1>9. Settled'
  BY <1>1, <1>2 DEF Settled, Given
<1> QED BY <1>3, <1>6, <1>8, <1>9 DEF Delivers

-----------------------------------------------------------------------------
(* The reader goroutine and the portal. *)

LEMMA ReaderDelivers ==
  ASSUME TypeOK, Ownership, Delivers, NEW k \in Conns, ReaderStep(k)
  PROVE  Delivers'
<1>1. /\ reader[k] = "reading" /\ UNCHANGED <<lastEventID, last, published, event, pc, dial>>
      /\ reader' \in {reader, [reader EXCEPT ![k] = "ended"]}
      /\ pos \in [Conns -> 0..MaxEvents] /\ chan \in [Conns -> Seq(0..MaxEvents)]
      /\ reader \in [Conns -> {"none", "reading", "ended"}] /\ published \in Nat
      /\ \/ /\ pos[k] < published
            /\ pos' = [pos EXCEPT ![k] = @ + 1]
            /\ chan' = [chan EXCEPT ![k] = Append(@, pos[k] + 1)]
         \/ /\ UNCHANGED pos
            /\ chan' = [chan EXCEPT ![k] = Append(@, ErrorFrame)]
            /\ reader' = [reader EXCEPT ![k] = "ended"]
         \/ UNCHANGED <<pos, chan>>
  BY BoundsAssumption
     DEF ReaderStep, ReadEvent, ReadError, ReadEnd, TypeOK, clientVars, goVars, envVars
<1>2. /\ \A j \in Conns : j # k => pos'[j] = pos[j] /\ chan'[j] = chan[j] /\ reader'[j] = reader[j]
      /\ reader'[k] # "none"
  BY <1>1
<1>3. pos'[k] <= published
  BY <1>1 DEF Delivers, Logged
<1>4. Logged'
  BY <1>1, <1>2, <1>3 DEF Delivers, Logged
<1>5. \A g \in Goroutines : pc[g] \in {"publish", "dial"} => dial[g] \in Conns /\ dial[g] # k
  BY <1>1 DEF Ownership, OpenLabels, Opening
<1>6. Stream(k) => Stream(k)'
  <2> SUFFICES ASSUME Stream(k) PROVE Stream(k)'
    OBVIOUS
  <2>1. PICK b \in Nat, n \in Nat : StreamFrom(k, b, n)
    BY DEF Stream
  <2>2. chan[k] = Run(b, n) /\ pos[k] = b + n /\ (lastEventID # 0 => b = lastEventID)
    BY <1>1, <2>1 DEF StreamFrom
  <2>3. CASE /\ pos' = [pos EXCEPT ![k] = @ + 1]
             /\ chan' = [chan EXCEPT ![k] = Append(@, pos[k] + 1)]
    <3>1. pos'[k] = b + n + 1 /\ chan'[k] = Append(Run(b, n), b + n + 1)
      BY <1>1, <2>2, <2>3
    <3>0. b + n + 1 = b + (n + 1) /\ n + 1 \in Nat
      OBVIOUS
    <3>2. chan'[k] = Run(b, n + 1) /\ pos'[k] = b + (n + 1) /\ n + 1 \in Nat
      BY <3>0, <3>1, RunAppend, Zenon
    <3>3. StreamFrom(k, b, n + 1)'
      BY <1>1, <2>2, <3>2 DEF StreamFrom
    <3> QED BY <3>2, <3>3 DEF Stream
  <2>4. CASE /\ UNCHANGED pos
             /\ chan' = [chan EXCEPT ![k] = Append(@, ErrorFrame)]
             /\ reader' = [reader EXCEPT ![k] = "ended"]
    <3>1. chan'[k] = Append(Run(b, n), ErrorFrame) /\ reader'[k] = "ended" /\ pos'[k] = b + n
      BY <1>1, <2>2, <2>4
    <3>2. StreamFrom(k, b, n)'
      BY <1>1, <2>2, <3>1 DEF StreamFrom
    <3> QED BY <3>2 DEF Stream
  <2>5. CASE UNCHANGED <<pos, chan>>
    <3>1. StreamFrom(k, b, n)'
      BY <1>1, <2>2, <2>5 DEF StreamFrom
    <3> QED BY <3>1 DEF Stream
  <2> QED BY <1>1, <2>3, <2>4, <2>5
<1>7. \A j \in Conns : j # k => (Stream(j) => Stream(j)')
  <2> SUFFICES ASSUME NEW j \in Conns, j # k, Stream(j) PROVE Stream(j)'
    OBVIOUS
  <2>1. PICK b \in Nat, n \in Nat : StreamFrom(j, b, n)
    BY DEF Stream
  <2>2. pos'[j] = pos[j] /\ chan'[j] = chan[j] /\ reader'[j] = reader[j]
        /\ lastEventID' = lastEventID
    BY <1>1, <1>2
  <2>3. StreamFrom(j, b, n)'
    BY <2>1, <2>2 DEF StreamFrom
  <2> QED BY <2>3 DEF Stream
<1>8. Streams'
  <2>1. \A j \in Conns : reader'[j] = "none" => chan'[j] = <<>>
    BY <1>2 DEF Delivers, Streams
  <2>2. \A g \in Goroutines : pc'[g] \in {"publish", "dial"} => pos'[dial'[g]] = lastEventID'
    BY <1>1, <1>2, <1>5 DEF Delivers, Streams
  <2>3. \A g \in Goroutines, j \in Conns : Feeds(g, j)' => Feeds(g, j)
    BY <1>1 DEF Feeds
  <2>4. \A j \in Conns : Stream(j) => Stream(j)'
    BY <1>6, <1>7
  <2> QED BY <2>1, <2>2, <2>3, <2>4 DEF Delivers, Streams
<1>9. InFlight' /\ Settled'
  BY <1>1 DEF Delivers, InFlight, Settled, Given
<1> QED BY <1>4, <1>8, <1>9 DEF Delivers

LEMMA PublishDelivers ==
  ASSUME TypeOK, Delivers, PortalPublish
  PROVE  Delivers'
<1>1. /\ published' = published + 1 /\ published \in Nat /\ lastEventID \in Nat
      /\ pos \in [Conns -> 0..MaxEvents]
      /\ UNCHANGED <<clientVars, connVars, goVars, last>>
  BY BoundsAssumption DEF PortalPublish, TypeOK
<1>2. Logged'
  <2>1. \A m \in Nat : m <= published => m <= published + 1
    BY <1>1
  <2> QED BY <1>1, <2>1, BoundsAssumption DEF Delivers, Logged, clientVars, connVars
<1>3. Streams'
  BY <1>1 DEF Delivers, Streams, Stream, StreamFrom, Feeds, clientVars, connVars, goVars
<1>4. InFlight' /\ Settled'
  BY <1>1 DEF Delivers, InFlight, Settled, Given, clientVars, connVars, goVars
<1> QED BY <1>2, <1>3, <1>4 DEF Delivers

LEMMA StepDelivers ==
  ASSUME TypeOK, Ownership, Delivers, [Next]_vars
  PROVE  Delivers'
<1>1. ASSUME NEW g \in Goroutines, ConnectStep(g) PROVE Delivers'
  BY <1>1, ConnectStill, StillMoveKeeps, ConnectingDelivers, DialOKDelivers, SpawnDelivers
     DEF ConnectStep
<1>2. ASSUME NEW k \in Conns, HandlerStep(k) \/ ReaderStep(k) PROVE Delivers'
  <2>1. k \in Goroutines
    BY GoroutineFacts
  <2> QED BY <1>2, <2>1, HandlerStill, StillMoveKeeps, RecvDelivers, DispatchDelivers,
             ReaderDelivers DEF HandlerStep
<1> QED BY <1>1, <1>2, OthersKeepDelivery, PublishDelivers DEF Next

-----------------------------------------------------------------------------
(* The theorems. *)

\* The invariant holds of every behaviour of the client: what a stream holds
\* follows the cursor, and the cursor is ahead of the application by at most the
\* event in flight.
THEOREM Delivering == Spec => [](IInv /\ Delivers)
<1>1. Init => Delivers
  BY InitDelivers
<1>2. IInv /\ Delivers /\ [Next]_vars => Delivers'
  BY StepDelivers DEF IInv
<1> QED BY <1>1, <1>2, Invariance, PTL DEF Spec

LEMMA NoneInFlight ==
  ASSUME IInv, Stopped
  PROVE  \A k \in Conns : pc[k] # "dispatch"
<1>1. Running = {}
  BY DEF IInv, Closing, Stopped
<1> QED BY <1>1 DEF Running

\* When Stop has returned, the cursor an application would persist and resume
\* from skips no event that was not dispatched, although it moves before the
\* handlers run.
THEOREM CursorSafe == Spec => []StopLosesNothing
<1>1. IInv /\ Delivers => StopLosesNothing
  <2> SUFFICES ASSUME IInv, Delivers, Stopped
               PROVE  /\ lastEventID \in Routed => last = lastEventID
                      /\ last # 0 => \A e \in Routed : e <= lastEventID => e <= last
    BY DEF StopLosesNothing
  <2>1. \A k \in Conns : pc[k] # "dispatch"
    BY NoneInFlight
  <2> QED BY <2>1 DEF Delivers, Settled, Given
<1> QED BY <1>1, Delivering, PTL

\* How the steps of the client look from outside: the application is given an
\* event, the portal publishes one, a Stop moves on, or nothing happens.
LEMMA OutsideSteps ==
  ASSUME [Next]_vars
  PROVE  \/ \E k \in Conns : Dispatch(k)
         \/ PortalPublish
         \/ \E s \in Stoppers : StopClose(s) \/ StopStep(s)
         \/ UNCHANGED <<last, published, stop>>
<1> USE DEF clientVars, connVars, goVars, pollVars, envVars, nonPc
<1>1. ASSUME NEW g \in Goroutines, ConnectStep(g) PROVE UNCHANGED <<last, published, stop>>
  <2>1. CASE Check(g) \/ Connecting(g) \/ Publish(g) \/ DialOK(g)
    BY <2>1 DEF Check, Jump, Connecting, Publish, PublishIf, DialOK
  <2>2. CASE DialFail(g) \/ Unpublish(g) \/ DialFailed(g) \/ Opened(g)
    BY <2>2 DEF DialFail, Jump, Unpublish, DialFailed, Opened, SetState
  <2>3. CASE Report(g) \/ Spawn(g) \/ Backoff(g) \/ GiveUp(g)
    BY <2>3 DEF Report, FireConnected, Spawn, SpawnThen, Backoff, Jump, GiveUp, SetState
  <2> QED BY <1>1, <2>1, <2>2, <2>3 DEF ConnectStep
<1>2. ASSUME NEW k \in Conns, HandlerStep(k) \/ ReaderStep(k), ~Dispatch(k)
      PROVE  UNCHANGED <<last, published, stop>>
  <2>1. CASE Recv(k) \/ RecvDone(k) \/ RecvClosed(k) \/ Dropped(k)
    BY <2>1 DEF Recv, RecvMoving, RecvDone, RecvClosed, Jump, Dropped, SetState
  <2>2. CASE ReportDrop(k) \/ Reconnecting(k) \/ Exit(k)
    BY <2>2 DEF ReportDrop, FireConnected, Reconnecting, SetState, Exit, ExitCounting
  <2>3. CASE ReaderStep(k)
    BY <2>3 DEF ReaderStep, ReadEvent, ReadError, ReadEnd
  <2> QED BY <1>2, <2>1, <2>2, <2>3 DEF HandlerStep
<1>3. Start \/ PollStep \/ UNCHANGED vars => UNCHANGED <<last, published, stop>>
  BY DEF Start, PollStep, PollRead, PollFire, PollTick, PollExit, vars
<1> QED BY <1>1, <1>2, <1>3 DEF Next

LEMMA StaysStopped ==
  ASSUME TypeOK, NEW s \in Stoppers, StopClose(s) \/ StopStep(s), Stopped
  PROVE  Stopped'
<1>1. PICK t \in Stoppers : stop[t] = "stopped"
  BY DEF Stopped
<1>2. \E from, to : Advance(s, from, to) /\ from # "stopped"
  BY DEF StopClose, StopStep, StopCancel, CancelOnly, StopState, StopReport, StopWait
<1>3. stop'[t] = "stopped"
  BY <1>1, <1>2 DEF Advance, TypeOK
<1> QED BY <1>3 DEF Stopped

LEMMA StepImplements ==
  ASSUME IInv, Delivers, [Next]_vars
  PROVE  [Delivery!Next]_(Delivery!vars)
<1>1. CASE \E k \in Conns : Dispatch(k)
  <2>1. PICK k \in Conns : Dispatch(k)
    BY <1>1
  <2>2. pc[k] = "dispatch" /\ last' = event[k] /\ UNCHANGED <<published, stop>>
    BY <2>1 DEF Dispatch, Go
  <2>3. ~Stopped
    BY <2>2, NoneInFlight
  <2>4. ~Stopped'
    BY <2>2, <2>3 DEF Stopped
  <2>5. /\ event[k] = lastEventID /\ lastEventID \in Routed /\ last < lastEventID
        /\ Given(lastEventID - 1) /\ lastEventID <= published
    BY <2>2 DEF Delivers, InFlight, Logged
  <2>6. lastEventID \in Delivery!Pending
    BY <2>5 DEF Delivery!Pending
  <2>7. \A f \in Routed : last # 0 /\ last < f => lastEventID <= f
    <3> SUFFICES ASSUME NEW f \in Routed, last # 0, last < f, ~(lastEventID <= f)
                 PROVE  FALSE
      OBVIOUS
    <3>1. f \in Nat /\ last \in Nat /\ lastEventID \in Nat
      BY BoundsAssumption DEF IInv, TypeOK
    <3>2. f <= lastEventID - 1
      BY <3>1
    <3>3. f <= last
      BY <2>5, <3>2 DEF Given
    <3> QED BY <3>1, <3>3
  <2>8. last # 0 => \A f \in Delivery!Pending : lastEventID <= f
    BY <2>7 DEF Delivery!Pending
  <2>9. last' = lastEventID
    BY <2>2, <2>5
  <2>10. \E e \in Delivery!Pending :
           /\ last # 0 => \A f \in Delivery!Pending : e <= f
           /\ last' = e
    BY <2>6, <2>8, <2>9
  <2>11. Stopped' = Stopped
    BY <2>2 DEF Stopped
  <2>12. Delivery!Deliver
    BY <2>2, <2>3, <2>10, <2>11 DEF Delivery!Deliver
  <2> QED BY <2>12 DEF Delivery!Next
<1>2. CASE PortalPublish
  <2>1. published < MaxEvents /\ published' = published + 1 /\ UNCHANGED <<last, stop>>
    BY <1>2 DEF PortalPublish
  <2>2. Stopped' = Stopped
    BY <2>1 DEF Stopped
  <2>3. Delivery!Publish
    BY <2>1, <2>2 DEF Delivery!Publish
  <2> QED BY <2>3 DEF Delivery!Next
<1>3. CASE \E s \in Stoppers : StopClose(s) \/ StopStep(s)
  <2>1. PICK s \in Stoppers : StopClose(s) \/ StopStep(s)
    BY <1>3
  <2>2. UNCHANGED <<last, published>>
    BY <2>1 DEF StopClose, StopStep, StopCancel, CancelOnly, StopState, StopReport, StopWait,
                envVars
  <2>3. Stopped => Stopped'
    BY <2>1, StaysStopped DEF IInv
  <2>4. CASE Stopped' /\ ~Stopped
    <3>1. Delivery!Close
      BY <2>2, <2>4 DEF Delivery!Close
    <3> QED BY <3>1 DEF Delivery!Next
  <2>5. CASE Stopped' <=> Stopped
    <3>1. Stopped' = Stopped
      BY <2>5 DEF Stopped
    <3> QED BY <2>2, <3>1 DEF Delivery!vars
  <2> QED BY <2>3, <2>4, <2>5
<1>4. CASE UNCHANGED <<last, published, stop>>
  <2>1. Stopped' = Stopped
    BY <1>4 DEF Stopped
  <2> QED BY <1>4, <2>1 DEF Delivery!vars
<1> QED BY <1>1, <1>2, <1>3, <1>4, OutsideSteps

\* The client implements EventDelivery: the routed events of the portal's log are
\* handed over in order and exactly once across reconnections, and none after
\* Stop has returned.
THEOREM ImplementsDelivery == Spec => DeliverySpec
<1>1. Init => Delivery!Init
  <2> SUFFICES ASSUME Init PROVE Delivery!Init
    OBVIOUS
  <2>1. /\ published \in 0..MaxEvents /\ lastEventID \in 0..published /\ last = lastEventID
        /\ stop = [s \in Stoppers |-> "idle"]
    BY DEF Init
  <2>2. Stopped = FALSE
    BY <2>1 DEF Stopped
  <2> QED BY <2>1, <2>2 DEF Delivery!Init
<1>2. IInv /\ Delivers /\ [Next]_vars => [Delivery!Next]_(Delivery!vars)
  BY StepImplements
<1> QED BY <1>1, <1>2, Delivering, PTL DEF Spec, DeliverySpec, Delivery!Spec

=============================================================================
