------------------------------- MODULE SSEClient -------------------------------
(***************************************************************************)
(* The reconnecting Server-Sent Events client of internal/sse/sse.go, as   *)
(* WebsiteEventsClient (websites_events.go) drives it.                     *)
(*                                                                         *)
(* Goroutine 0 is the one Start runs in; goroutine k > 0 is the handler    *)
(* that Connect spawned for connection k.  A goroutine that connects goes  *)
(* through the critical sections of Connect one at a time, so everything   *)
(* another goroutine may do between two of them is a behaviour here.       *)
(* Timers are steps that may happen at any time; the portal may refuse a   *)
(* request, break a stream or send a malformed frame.                      *)
(***************************************************************************)
EXTENDS Integers, Sequences, FiniteSets

CONSTANTS MaxConns,    \* connection attempts in a behaviour (a bound)
          MaxEvents,   \* length of the portal's event log (a bound)
          Routed,      \* log positions whose event type has a handler
          ChanCap,     \* capacity of a connection's event channel
          Stoppers,    \* goroutines that call Stop
          OptionSet    \* the Options values a client may be created with

ASSUME BoundsAssumption ==
  /\ MaxConns \in Nat \ {0}
  /\ MaxEvents \in Nat
  /\ ChanCap \in Nat \ {0}
  /\ Routed \subseteq 1..MaxEvents

ASSUME OptionsAssumption ==
  OptionSet \subseteq [reconnect : BOOLEAN, maxRetries : Nat, poll : BOOLEAN]

VARIABLES
  options,       \* Client.options, fixed at creation
  done,          \* Client.done is closed
  state,         \* Client.state
  conn,          \* Client.conn (0: nil)
  wg,            \* counter of Client.wg
  lastEventID,   \* Client.lastEventID (0: empty)
  reported,      \* last value given to Stats.Connected
  made,          \* connections created so far
  cancelled,     \* connections whose context is cancelled
  pos,           \* per connection: the server's replay position
  reader,        \* per connection: its readEvents goroutine
  chan,          \* per connection: its event channel
  pc,            \* per goroutine: where it is
  dial,          \* per goroutine: the connection it is opening
  tries,         \* per goroutine: failed attempts in its retry loop
  event,         \* per handler: the event it is dispatching
  poller,        \* where pollConnected is
  sample,        \* the value pollConnected read and has not reported
  stop,          \* per stopper: where it is
  published,     \* how much of the portal's log exists
  last           \* history: last event dispatched, or the initial cursor

clientVars == <<options, done, state, conn, wg, lastEventID, reported>>
connVars   == <<made, cancelled, pos, reader, chan>>
goVars     == <<pc, dial, tries, event>>
pollVars   == <<poller, sample>>
envVars    == <<published, last>>
vars == <<clientVars, connVars, goVars, pollVars, stop, envVars>>
nonPc == <<clientVars, connVars, dial, tries, event, pollVars, stop, envVars>>

Starter    == 0
Conns      == 1..MaxConns
Goroutines == 0..MaxConns
NoConn     == 0
ErrorFrame == 0    \* the frame readEvents sends for a parse error

States == {"Disconnected", "Connecting", "Connected", "Reconnecting"}

\* Where a goroutine inside Connect is, between its creation of a connection
\* and its return.
OpenLabels  == {"publish", "dial", "unpublish", "dialfailed", "opened",
                "report", "spawn"}
RetryLabels == {"check", "connecting", "backoff", "giveup"}
StreamLabels == {"recv", "dispatch", "dropped", "reportdrop", "reconnecting"}
RestLabels == {"idle", "exit", "ended"}
Labels == OpenLabels \cup RetryLabels \cup StreamLabels \cup RestLabels

Init ==
  /\ options \in OptionSet
  /\ done = FALSE
  /\ state = "Disconnected"
  /\ conn = NoConn
  /\ wg = 0
  /\ published \in 0..MaxEvents
  /\ lastEventID \in 0..published
  /\ reported = FALSE
  /\ made = 0
  /\ cancelled = {}
  /\ pos = [k \in Conns |-> 0]
  /\ reader = [k \in Conns |-> "none"]
  /\ chan = [k \in Conns |-> <<>>]
  /\ pc = [g \in Goroutines |-> "idle"]
  /\ dial = [g \in Goroutines |-> NoConn]
  /\ tries = [g \in Goroutines |-> 0]
  /\ event = [k \in Conns |-> 0]
  /\ poller = "off"
  /\ sample = FALSE
  /\ stop = [s \in Stoppers |-> "idle"]
  /\ last = lastEventID

\* Goroutine g moves from one place to another; Jump changes nothing else.
Go(g, from, to) == pc[g] = from /\ pc' = [pc EXCEPT ![g] = to]
Jump(g, from, to) == Go(g, from, to) /\ UNCHANGED nonPc

\* A call of setState, or of fireConnected, on the way.
SetState(g, from, st, to) ==
  /\ Go(g, from, to)
  /\ state' = st
  /\ UNCHANGED <<options, done, conn, wg, lastEventID, reported, connVars,
                 dial, tries, event, pollVars, stop, envVars>>

FireConnected(g, from, value, to) ==
  /\ Go(g, from, to)
  /\ reported' = value
  /\ UNCHANGED <<options, done, state, conn, wg, lastEventID, connVars,
                 dial, tries, event, pollVars, stop, envVars>>

\* Where a goroutine goes when it is finished: Start returns, a handler still
\* has its deferred wg.Done to run.
Finish(g) == IF g = Starter THEN "ended" ELSE "exit"

\* Where it goes when Connect returned ErrClientClosed.  With Attempts(0)
\* retry-go returns the Unrecoverable wrapper, which is not ErrClientClosed,
\* so Start takes its error path (giveup).
OnClosed(g) == IF g = Starter /\ options.maxRetries = 0 THEN "giveup" ELSE Finish(g)

\* Where it goes after a failed attempt: both loops stop at MaxRetries, 0 being
\* no limit.
OnFailure(g) ==
  IF options.maxRetries > 0 /\ tries[g] + 1 >= options.maxRetries
  THEN "giveup" ELSE "backoff"

-------------------------------------------------------------------------------
(* Start and Connect *)

\* WebsiteEventsClient.Start: once; Client.Start first adds the poller to wg.
\* If done is closed the retry context may be cancelled before the first try.
Start ==
  /\ \/ Go(Starter, "idle", "check")
     \/ done /\ Go(Starter, "idle", "giveup")
  /\ IF options.poll
     THEN wg' = wg + 1 /\ poller' = "read"
     ELSE UNCHANGED <<wg, poller>>
  /\ UNCHANGED <<options, done, state, conn, lastEventID, reported, sample,
                 dial, tries, event, connVars, stop, envVars>>

Check(g) == Jump(g, "check", IF done THEN OnClosed(g) ELSE "connecting")

\* setState(StateConnecting); the new connection carries the current cursor.
Connecting(g) ==
  /\ Go(g, "connecting", "publish")
  /\ made < MaxConns
  /\ state' = "Connecting"
  /\ made' = made + 1
  /\ dial' = [dial EXCEPT ![g] = made + 1]
  /\ pos' = [pos EXCEPT ![made + 1] = lastEventID]
  /\ UNCHANGED <<options, done, conn, wg, lastEventID, reported, cancelled,
                 reader, chan, tries, event, pollVars, stop, envVars>>

PublishIf(g, closed) ==
  /\ IF closed
     THEN /\ Go(g, "publish", OnClosed(g))
          /\ cancelled' = cancelled \cup {dial[g]}
          /\ UNCHANGED conn
     ELSE /\ Go(g, "publish", "dial")
          /\ conn' = dial[g]
          /\ UNCHANGED cancelled
  /\ UNCHANGED <<options, done, state, wg, lastEventID, reported, made, pos,
                 reader, chan, dial, tries, event, pollVars, stop, envVars>>

BlindPublish(g) == PublishIf(g, FALSE)

\* Under connMu: re-check done, then make the connection visible to Disconnect.
Publish(g) == PublishIf(g, done)

\* The portal answers with an event stream.  Without a Last-Event-ID the stream
\* starts anywhere in the log.
DialOK(g) ==
  LET k == dial[g] IN
  /\ Go(g, "dial", "opened")
  /\ k \notin cancelled
  /\ reader' = [reader EXCEPT ![k] = "reading"]
  /\ \E p \in IF pos[k] = 0 THEN 0..published ELSE {pos[k]} :
       pos' = [pos EXCEPT ![k] = p]
  /\ UNCHANGED <<clientVars, made, cancelled, chan, dial, tries, event, pollVars,
                 stop, envVars>>

\* The request fails or is cancelled.  The last connection of the bound is not
\* refused: the environment is eventually stable.
DialFail(g) ==
  /\ dial[g] < MaxConns \/ dial[g] \in cancelled
  /\ Jump(g, "dial", "unpublish")

Unpublish(g) ==
  /\ Go(g, "unpublish", "dialfailed")
  /\ conn' = IF conn = dial[g] THEN NoConn ELSE conn
  /\ UNCHANGED <<options, done, state, wg, lastEventID, reported, connVars,
                 dial, tries, event, pollVars, stop, envVars>>

DialFailed(g) ==
  /\ Go(g, "dialfailed", OnFailure(g))
  /\ state' = "Disconnected"
  /\ tries' = [tries EXCEPT ![g] = @ + 1]
  /\ UNCHANGED <<options, done, conn, wg, lastEventID, reported, connVars,
                 dial, event, pollVars, stop, envVars>>

Opened(g) == SetState(g, "opened", "Connected", "report")

Report(g) == FireConnected(g, "report", TRUE, "spawn")

\* The end of Connect, with what its re-check of done sees and where the
\* connecting goroutine goes on success.
SpawnThen(g, closed, after) ==
  /\ pc[g] = "spawn"
  /\ IF closed
     THEN /\ Go(g, "spawn", OnClosed(g))
          /\ cancelled' = cancelled \cup {dial[g]}
          /\ UNCHANGED wg
     ELSE /\ wg' = wg + 1
          /\ pc' = [pc EXCEPT ![dial[g]] = "recv", ![g] = after]
          /\ UNCHANGED cancelled
  /\ UNCHANGED <<options, done, state, conn, lastEventID, reported, made, pos,
                 reader, chan, dial, tries, event, pollVars, stop, envVars>>

UnguardedSpawn(g) == SpawnThen(g, FALSE, Finish(g))
StayingSpawn(g) == SpawnThen(g, done, "backoff")

\* Under spawnMu: re-check done, wg.Add, and the handler goroutine starts.
\* Connect returns, which ends Start or the goroutine that was reconnecting.
Spawn(g) == SpawnThen(g, done, Finish(g))

-------------------------------------------------------------------------------
(* The retry loops of Start and handleDisconnection *)

\* The delay between attempts ends, by its timer or by done.  Start's loop
\* returns the context's error, the handler's just returns.
Backoff(g) ==
  \/ Jump(g, "backoff", "check")
  \/ done /\ Jump(g, "backoff", IF g = Starter THEN "giveup" ELSE "exit")

GiveUp(g) == SetState(g, "giveup", "Disconnected", Finish(g))

-------------------------------------------------------------------------------
(* handleEvents, handleEvent and handleDisconnection *)

RecvMoving(g, cursor) ==
  /\ chan[g] # <<>>
  /\ chan' = [chan EXCEPT ![g] = Tail(@)]
  /\ LET f == Head(chan[g]) IN
     IF f = ErrorFrame
     THEN /\ Go(g, "recv", "recv")
          /\ UNCHANGED <<lastEventID, event>>
     ELSE /\ Go(g, "recv", IF f \in Routed THEN "dispatch" ELSE "recv")
          /\ lastEventID' = cursor
          /\ event' = [event EXCEPT ![g] = f]
  /\ UNCHANGED <<options, done, state, conn, wg, reported, made, cancelled, pos,
                 reader, dial, tries, pollVars, stop, envVars>>

ForgetfulRecv(g) == RecvMoving(g, lastEventID)

\* A frame is received: a durable one moves the cursor before its handlers run.
Recv(g) == RecvMoving(g, Head(chan[g]))

HastyDispatch(g) ==
  /\ Go(g, "dispatch", IF done THEN "exit" ELSE "recv")
  /\ last' = IF done THEN last ELSE event[g]
  /\ UNCHANGED <<clientVars, connVars, dial, tries, event, pollVars, stop, published>>

\* The registered handlers run; route hands the event to the application.
Dispatch(g) ==
  /\ Go(g, "dispatch", "recv")
  /\ last' = event[g]
  /\ UNCHANGED <<clientVars, connVars, dial, tries, event, pollVars, stop, published>>

DoubleRecvDone(g) ==
  /\ Go(g, "recv", "exit")
  /\ done
  /\ wg' = wg - 1
  /\ UNCHANGED <<options, done, state, conn, lastEventID, reported, connVars,
                 dial, tries, event, pollVars, stop, envVars>>

\* Between two frames the select may see done instead of the channel.
RecvDone(g) == done /\ Jump(g, "recv", "exit")

\* The channel is closed and drained.
RecvClosed(g) ==
  /\ chan[g] = <<>>
  /\ reader[g] = "ended"
  /\ Jump(g, "recv", "dropped")

Dropped(g) == SetState(g, "dropped", "Disconnected", "reportdrop")

ReportDrop(g) ==
  FireConnected(g, "reportdrop", FALSE,
                IF options.reconnect THEN "reconnecting" ELSE "exit")

Reconnecting(g) == SetState(g, "reconnecting", "Reconnecting", "backoff")

ExitCounting(g, n) ==
  /\ Go(g, "exit", "ended")
  /\ wg' = wg - n
  /\ UNCHANGED <<options, done, state, conn, lastEventID, reported, connVars,
                 dial, tries, event, pollVars, stop, envVars>>

LeakyExit(g) == ExitCounting(g, IF done THEN 0 ELSE 1)

\* The deferred wg.Done of the handler goroutine.
Exit(g) == ExitCounting(g, 1)

-------------------------------------------------------------------------------
(* readEvents: the goroutine that fills connection k's channel *)

DroppingReadEvent(k) ==
  /\ reader[k] = "reading"
  /\ pos[k] < published
  /\ pos' = [pos EXCEPT ![k] = @ + 1]
  /\ chan' = [chan EXCEPT ![k] = IF Len(@) < ChanCap THEN Append(@, pos[k] + 1) ELSE @]
  /\ UNCHANGED <<clientVars, made, cancelled, reader, goVars, pollVars, stop, envVars>>

\* The next frame of the stream.  A frame parsed when the context is cancelled
\* may still win the select; the loop ends before the next one.
ReadEvent(k) ==
  /\ reader[k] = "reading"
  /\ pos[k] < published
  /\ Len(chan[k]) < ChanCap
  /\ pos' = [pos EXCEPT ![k] = @ + 1]
  /\ chan' = [chan EXCEPT ![k] = Append(@, pos[k] + 1)]
  /\ reader' = [reader EXCEPT ![k] = IF k \in cancelled THEN "ended" ELSE @]
  /\ UNCHANGED <<clientVars, made, cancelled, goVars, pollVars, stop, envVars>>

\* The bound keeps the last connection whole, or the portal would never be
\* stable.
CanBreak(k) == k < MaxConns \/ ~options.reconnect

\* The stream breaks on a malformed frame, or reading fails because the context
\* is cancelled and the error frame still wins the select.
ReadError(k) ==
  /\ reader[k] = "reading"
  /\ CanBreak(k) \/ k \in cancelled
  /\ Len(chan[k]) < ChanCap
  /\ chan' = [chan EXCEPT ![k] = Append(@, ErrorFrame)]
  /\ reader' = [reader EXCEPT ![k] = "ended"]
  /\ UNCHANGED <<clientVars, made, cancelled, pos, goVars, pollVars, stop, envVars>>

\* The server ends the stream, or the context is cancelled: the channel closes.
ReadEnd(k) ==
  /\ reader[k] = "reading"
  /\ CanBreak(k) \/ k \in cancelled
  /\ reader' = [reader EXCEPT ![k] = "ended"]
  /\ UNCHANGED <<clientVars, made, cancelled, pos, chan, goVars, pollVars, stop, envVars>>

-------------------------------------------------------------------------------
(* pollConnected *)

PollRead ==
  /\ poller = "read"
  /\ poller' = "fire"
  /\ sample' = (state = "Connected")
  /\ UNCHANGED <<clientVars, connVars, goVars, stop, envVars>>

PollFire ==
  /\ poller = "fire"
  /\ poller' = "sleep"
  /\ reported' = sample
  /\ UNCHANGED <<options, done, state, conn, wg, lastEventID, sample, connVars,
                 goVars, stop, envVars>>

PollTick ==
  /\ poller = "sleep"
  /\ poller' = "read"
  /\ UNCHANGED <<clientVars, sample, connVars, goVars, stop, envVars>>

PollExit ==
  /\ poller = "sleep"
  /\ done
  /\ poller' = "ended"
  /\ wg' = wg - 1
  /\ UNCHANGED <<options, done, state, conn, lastEventID, reported, sample,
                 connVars, goVars, stop, envVars>>

-------------------------------------------------------------------------------
(* WebsiteEventsClient.Stop: Disconnect, then Wait *)

Advance(s, from, to) == stop[s] = from /\ stop' = [stop EXCEPT ![s] = to]

\* closeOnce under spawnMu: the first caller closes done.
StopClose(s) ==
  /\ Advance(s, "idle", "cancel")
  /\ done' = TRUE
  /\ UNCHANGED <<options, state, conn, wg, lastEventID, reported, connVars,
                 goVars, pollVars, envVars>>

CancelOnly(s, conns) ==
  /\ Advance(s, "cancel", "state")
  /\ cancelled' = cancelled \cup conns
  /\ conn' = NoConn
  /\ UNCHANGED <<options, done, state, wg, lastEventID, reported, made, pos,
                 reader, chan, goVars, pollVars, envVars>>

NilOnlyCancel(s) == CancelOnly(s, {})

\* Under connMu: close and forget the published connection.
StopCancel(s) == CancelOnly(s, {conn} \ {NoConn})

StopState(s) ==
  /\ Advance(s, "state", "report")
  /\ state' = "Disconnected"
  /\ UNCHANGED <<options, done, conn, wg, lastEventID, reported, connVars,
                 goVars, pollVars, envVars>>

StopReport(s) ==
  /\ Advance(s, "report", "wait")
  /\ reported' = FALSE
  /\ UNCHANGED <<options, done, state, conn, wg, lastEventID, connVars,
                 goVars, pollVars, envVars>>

StopWait(s) ==
  /\ Advance(s, "wait", "stopped")
  /\ wg = 0
  /\ UNCHANGED <<clientVars, connVars, goVars, pollVars, envVars>>

-------------------------------------------------------------------------------
\* The portal records one more lifecycle event (external).
PortalPublish ==
  /\ published < MaxEvents
  /\ published' = published + 1
  /\ UNCHANGED <<clientVars, connVars, goVars, pollVars, stop, last>>

ConnectStep(g) ==
  \/ Check(g) \/ Connecting(g) \/ Publish(g) \/ DialOK(g) \/ DialFail(g)
  \/ Unpublish(g) \/ DialFailed(g) \/ Opened(g) \/ Report(g) \/ Spawn(g)
  \/ Backoff(g) \/ GiveUp(g)

HandlerStep(k) ==
  \/ Recv(k) \/ Dispatch(k) \/ RecvDone(k) \/ RecvClosed(k) \/ Dropped(k)
  \/ ReportDrop(k) \/ Reconnecting(k) \/ Exit(k)

ReaderStep(k) == ReadEvent(k) \/ ReadError(k) \/ ReadEnd(k)

PollStep == PollRead \/ PollFire \/ PollTick \/ PollExit

StopStep(s) == StopCancel(s) \/ StopState(s) \/ StopReport(s) \/ StopWait(s)

Next ==
  \/ Start
  \/ \E g \in Goroutines : ConnectStep(g)
  \/ \E k \in Conns : HandlerStep(k) \/ ReaderStep(k)
  \/ PollStep
  \/ \E s \in Stoppers : StopClose(s) \/ StopStep(s)
  \/ PortalPublish

Spec == Init /\ [][Next]_vars

\* The Go scheduler runs every goroutine that can run, a request is answered
\* or fails (ResponseHeaderTimeout, the cancelled context), the application's
\* handler returns, an intact stream delivers, and a select whose done case
\* stays ready takes it eventually.  Nobody has to call Start or Stop.
Fairness ==
  /\ \A g \in Goroutines : WF_vars(ConnectStep(g))
  /\ \A k \in Conns : /\ WF_vars(HandlerStep(k))
                      /\ WF_vars(ReadEvent(k))
                      /\ WF_vars(k \in cancelled /\ ReadEnd(k))
  /\ WF_vars(PollStep)
  /\ SF_vars(PollExit)
  /\ \A s \in Stoppers : WF_vars(StopStep(s))

FairSpec == Spec /\ Fairness

-------------------------------------------------------------------------------
(* Properties *)

TypeOK ==
  /\ options \in OptionSet
  /\ done \in BOOLEAN
  /\ state \in States
  /\ conn \in 0..MaxConns
  /\ wg \in Nat
  /\ lastEventID \in 0..MaxEvents
  /\ reported \in BOOLEAN
  /\ made \in 0..MaxConns
  /\ cancelled \subseteq Conns
  /\ pos \in [Conns -> 0..MaxEvents]
  /\ reader \in [Conns -> {"none", "reading", "ended"}]
  /\ chan \in [Conns -> Seq(0..MaxEvents)]
  /\ pc \in [Goroutines -> Labels]
  /\ dial \in [Goroutines -> 0..MaxConns]
  /\ tries \in [Goroutines -> Nat]
  /\ event \in [Conns -> 0..MaxEvents]
  /\ poller \in {"off", "read", "fire", "sleep", "ended"}
  /\ sample \in BOOLEAN
  /\ stop \in [Stoppers -> {"idle", "cancel", "state", "report", "wait", "stopped"}]
  /\ published \in 0..MaxEvents
  /\ last \in 0..MaxEvents

Active(g) == pc[g] \notin RestLabels
Stopped == \E s \in Stoppers : stop[s] = "stopped"

\* However connects, drops and retries interleave, at most one goroutine is
\* connecting or dispatching: two streams never feed the application's handler
\* at the same time (Connect, handleEvents and handleDisconnection together).
OneStream == \A g, h \in Goroutines : Active(g) /\ Active(h) => g = h

\* Once a Disconnect is past its connMu section, every stream that is still
\* being read has a cancelled context: none can outlive the client, whichever
\* side of the re-checks of done in Connect it was opened on.
NoOrphanStream ==
  \A s \in Stoppers, k \in Conns :
    /\ stop[s] \in {"state", "report", "wait", "stopped"}
    /\ reader[k] = "reading"
    => k \in cancelled

\* When a Stop has returned no handler goroutine is left, and none is spawned
\* later: the promise spawnMu is there for (lines 223-225, 393-404, 584-590).
HandlersDrained ==
  Stopped => \A k \in Conns : pc[k] \in {"idle", "ended"}

\* The cursor moves before the handlers run, so it may be ahead of them; but
\* when Stop has returned, the cursor an application would persist and resume
\* from skips no event that was not dispatched.
StopLosesNothing ==
  Stopped => /\ lastEventID \in Routed => last = lastEventID
             /\ last # 0 => \A e \in Routed : e <= lastEventID => e <= last

\* The stream keeps the promise of EventDelivery: in order, exactly once,
\* across reconnections, and nothing after Stop returned.
Delivery == INSTANCE EventDelivery WITH closed <- Stopped
DeliverySpec == Delivery!Spec

\* Stop returns (provided it is not called from inside an event handler).
StopReturns == \A s \in Stoppers : stop[s] = "cancel" ~> stop[s] = "stopped"

\* After Stop every reader goroutine ends: none stays blocked on a full
\* channel nobody drains.
ReadersEnd == done ~> \A k \in Conns : reader[k] # "reading"

\* With a cursor to resume from and a portal that is eventually stable, every
\* routed event gets dispatched unless the client is stopped or has given up.
EventuallyDelivered ==
  \A e \in Routed :
    (pc[Starter] # "idle" /\ last # 0 /\ e <= published)
      ~> (last >= e \/ done \/ \A g \in Goroutines : ~Active(g))

\* Every goroutine the client ever had has ended, and every Stop has returned.
Quiet == /\ \A s \in Stoppers : stop[s] = "stopped"
         /\ \A g \in Goroutines : pc[g] \in {"idle", "ended"}
         /\ poller \in {"off", "ended"}

\* sse.go:609, "IsConnected reports whether a stream is currently open", and
\* sse.go:57, Connected "is called with the live connection state": after
\* Stop, when everything has ended, neither says connected.
ClosedReportsDisconnected == Quiet => state # "Connected" /\ ~reported

\* sse.go:603: "Wait blocks until the event-handling and telemetry goroutines
\* have drained".
TelemetryDrained == Stopped => poller \in {"off", "ended"}

==============================================================================
