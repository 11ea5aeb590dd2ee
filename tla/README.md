# A verification development of the LumeWeb IPFS SDK

This directory holds TLA+ specifications of the Go SDK in `../src`, the TLC
configurations that model-check them, and TLAPS proofs. Every definition is read
off the source; `PROJECT.json` maps it to its lines. Lines below are quoted as
`file:line`, relative to `src/`.

- [1. The system](#1-the-system): the inventory
- [2. The modules](#2-the-modules): what is modelled, and how it corresponds to the code
- [3. The runs](#3-the-runs): what TLC checks, bounds and fairness
- [4. The proofs](#4-the-proofs)
- [5. Where code and documentation disagree](#5-where-code-and-documentation-disagree)
- [6. What is not modelled](#6-what-is-not-modelled)
- [7. The plan](#7-the-plan)

## 1. The system

The SDK is a client library: one `Client` (`sdk.go`) per portal account owns
one service object per part of the portal's API. The services share a
configuration (base URL, token, HTTP client, retry settings) and the generated
API client; they call each other only in two places (`ConvertDomainToOnChain`
lists the domains, the CAR path of an upload builds blocks first). Everything
else goes to the portal over HTTP, and what the portal holds is changed by other
clients too. There is no persistence on the client's side: what survives a
restart of the application is what it kept itself, the cursor of the event
stream and the location of an interrupted upload.

| Component | Source | State it keeps | Operations |
|---|---|---|---|
| SSE client | `internal/sse/sse.go` | `done`, `conn`, `state`, `lastEventID`, `wg`, per connection a context, a reader goroutine and a channel of 100 events, one handler goroutine, one telemetry goroutine | `Connect`, `StartWithRetry`, `Disconnect`, `Wait`, `State`, `LastEventID`, the internal loops `handleEvents`, `handleDisconnection`, `readEvents`, `pollConnected` |
| Website events | `websites_events.go` | the SSE client, handlers per event type | `On...`, `Start`, `Stop`, `IsConnected`, `LastEventID` |
| Upload service | `upload.go` | none between calls; per call the reader, a pipe, a writer goroutine, the redirect count, a TUS stream | `Upload`, `UploadFromFS`, `UploadBytes`, `UploadFile`, `ResumeUpload`, `CancelUpload`, `GetUploadStatus`, `GetUploadResult` |
| DNS, IPNS, websites, workspaces, pinning, DAG, ping | `dns.go`, `ipns.go`, `websites.go`, `workspace.go`, `pinning.go`, `dag.go`, `ping.go` | none; each operation is one closure under the retry loop | some sixty, listed in `ServiceOperations` |
| Retry, errors | `internal/http/http.go`, `retry.go`, `errors.go` | the loop's attempt count | `RetryContext`, `IsUnrecoverable`, `handleResponse` |
| Polling | `internal/http/poll.go` | deadline, ticker, attempt count | `PollUntil`, `WaitForPolledState`, the `WaitFor...` operations |
| Download service and engine | `download.go`, `internal/download` | worker pool, limiter, count of failures that are not 429 | `Get...`, `ExecuteWithRetry`, `submitAndWait`, the rate-limited blockstore |
| Client, authentication | `sdk.go`, `auth.go`, `options.go` | token, base URL, HTTP client, generated clients, the round tripper's token under an `RWMutex` | `SetAuthToken`, `SetBearerToken`, `SetHTTPClient`, `SetBaseURL` |
| Generated clients | `internal/client`, `internal/pinning` | none | one request builder and one answer parser per operation of the portal's API |
| TUS store, file systems, DNS names | `internal/tusstore`, `fs`, `dnsname` | see section 6 | |

### What is hard, and what correctness means

**SSE client.** `Connect` takes three separate critical sections of `connMu` and
`spawnMu` and dials between them; `Disconnect` may run between any two. The
handler of one connection opens the next one itself and the new one's handler is
a new goroutine, so the hand-over has to leave exactly one. `Wait` must not race
the `wg.Add` of a handler being spawned. The cursor moves before the handlers
run. Correct means: one stream at a time; after `Stop` no stream open, no
goroutine left, no event dispatched and no event lost from the cursor; between,
every routed event exactly once and in the order of the portal's log, whatever
the portal breaks; and `Stop` returns.

**Upload.** A POST body is written by a goroutine into a pipe while the
transport reads it; a redirect, which may come at any point, needs the same body
again from its beginning; a call that returned must no longer use the caller's
reader. TUS sends the first chunk with the creation and the rest as PATCH
requests whose answers may be lost. A CAR is generated by a further goroutine
that blocks until it is read. Correct means: success only if the portal has
exactly the caller's bytes, at most one object per call, nothing left running,
and a resumed upload without gap or repetition.

**Services under retry.** A lost answer is indistinguishable from a lost
request, and the retry may meet what its predecessor did, with other clients
changing the portal's state in between. Correct means: success is never reported
on the strength of something else, an operation is repeated no more than it is
allowed to be, refusals end the call, rate limits do not, and the two
operations with a protocol of their own (rotating a credential, converting a
domain) keep their promises. Two layers below the loop take part: the generated
client, which fails a call whose body it cannot decode before anybody looks at the
status, and `net/http`, which sends a GET again by itself.

**Download engine.** A task handed to the pool outlives the call that waits for
it; 429 answers are retried without a limit and reset the other count.

**Polling.** A deadline races a tick, both against the caller's context, while a
query with a retry loop of its own is under way and the portal changes. Correct means:
what a wait returns was true while its last attempt ran, a wait that is over asks
nothing more, and it ends.

**Client.** An update of the token or of the base URL reaches the parts of the client
one by one, without a lock, while requests are in flight; the round tripper holds its
lock for the length of a request. Correct means: after an update has returned no
request carries what it replaced, and a busy client does not keep it from returning.

`PROJECT.json` lists each hazard at its line with the properties that catch it,
and says of the ones without a property why.

## 2. The modules

| Module | Models | Extends or instantiates |
|---|---|---|
| `EventDelivery` | what the event stream promises (abstract) | |
| `SSEClient` | `sse.go`, driven by `websites_events.go` | instantiates `EventDelivery` |
| `MCSSEClient` | values for TLC | `SSEClient` |
| `SSEClientProofs` | the theorems about connections and shutdown | `SSEClient`, `Ranks` |
| `SSEDeliveryProofs` | the theorems about what is delivered | `SSEClientProofs` |
| `UploadStore` | what an upload promises of the portal's store (abstract) | |
| `Upload` | `upload.go` | instantiates `UploadStore` |
| `UploadProofs` | the theorems | `Upload`, `Ranks` |
| `GeneratedClient` | method and decoded statuses of each generated operation | |
| `ServiceOperations` | one record per service operation | `GeneratedClient` |
| `ServiceCall` | `RetryContext` around one operation, the portal, the network | `ServiceOperations` |
| `ServiceCallProofs` | the theorems | `ServiceCall`, `Ranks` |
| `Poll` | `PollUntil` and the four `WaitFor...` operations over it | |
| `PollProofs` | the theorems | `Poll`, `Ranks` |
| `ClientToken` | the updates of `sdk.go`, the places a request takes its token from, the round tripper's lock | |
| `ClientTokenProofs` | the theorems | `ClientToken` |
| `BlockReads` | what a read of the blockstore is to its caller (abstract) | |
| `DownloadEngine` | the reads of the rate-limited blockstore, the engine's retry loop, the worker pool | instantiates `BlockReads` |
| `DownloadEngineProofs` | the theorems | `DownloadEngine`, `Ranks` |
| `Ranks` | tuples in lexicographic order, for the theorems about what ends | |

### SSEClient

Goroutine 0 is the one that called `Start`; goroutine `k` is the handler spawned
for connection `k`. `pc[g]` is its place, and the labels are the boundaries of
the code's critical sections, so an action is what runs between two points where
another goroutine may interfere:

| Label | Code |
|---|---|
| `check`, `connecting`, `publish` | `Connect` 338-375: the first look at `done`, `setState`, the section that publishes the connection or finds the client closed |
| `dial`, `unpublish`, `dialfailed` | the request and its failure (379-388) |
| `opened`, `report`, `spawn` | `setState(Connected)`, `fireConnected`, the section of `spawnMu` with `wg.Add` (390-404) |
| `backoff`, `giveup` | the retry loops of `StartWithRetry` and `handleDisconnection` |
| `recv`, `dispatch` | `handleEvents` 490-520: the select, the move of the cursor, then the handlers |
| `dropped`, `reportdrop`, `reconnecting` | `handleDisconnection` |

`stop[s]` follows a caller of `Stop` through `Disconnect`'s sections and `Wait`;
`poller` and `sample` follow `pollConnected`, whose read and report are two
steps. A select with several ready cases takes any of them. Event positions stand for event ids;
frames, payloads and delays are not represented, a malformed frame is the
value 0. The portal replays from the cursor of the request, breaks streams,
refuses requests. `published` and `last` are the portal's log and what the
application has been given. `EventDelivery` is stated over those two and `closed`;
the refinement maps `closed` to "some `Stop` has returned".

### Upload

One call, then possibly a resume. The source is a sequence of numbered units, so
a body that was cut, restarted in the middle or mixed is distinguishable from a
whole one. `writer`, `cursor`, `unit` and `werr` are the goroutine that writes the
multipart form, `pipe` the `io.Pipe` between it and the transport, `producer`
the goroutine of `StreamToPipe`; `stored` and `remote` are what the portal has.
`Jobs` are the sources a call may have: seekable or not, a CAR or not, failing at
their end or not, claimed longer or shorter than they are. A CAR's claimed
length is the computed one, hence exact unless its generation fails; the `Size` a CAR
reports is what its UnixFS content has, in the model any. A seekable reader may stand at
its second unit (`StartPositions`): POST sends the source from its first (`Form`), TUS what
follows the reader (`Data`). `PartialCreate` separates a question that has a run of its own
(`upload_partial`, section 5) from the rest.

`Answer` is what `Do` and `postUpload` make of a request. A 307 or 308 is handed to
`postUpload`, because `net/http` cannot send a pipe again (`redirect`). A 301, 302 or 303
`net/http` follows by itself with a GET, whose 200 is success to `postUpload` (`followed`) although
nothing was stored. Before it does so the transport is done with the form: a writer that has not ended finds
its pipe broken and fails the call, so `PostReturns` breaks it here as well.
`ResumeEnd` computes `Size` as line 824 does, after the stream has moved `RemoteOffset`.

`UploadStore` knows no goroutine or pipe: a form stores the whole source in one
step, once, or nothing, a TUS upload grows by the source's next units, success is reported of
a whole source only, and a call that has returned leaves the portal alone. Of redirects it
knows that a form may go astray (`astray`): then nothing is stored, by this form or a later one, and success may
be reported all the same. The refinement maps
the places of the call to `sending`, `resuming` and what was returned, and `astray` to a followed
redirect.

### GeneratedClient, ServiceOperations and ServiceCall

Every operation of seven services is one closure: send a request, classify the
status (`handleResponse`), read the parsed body if it needs one. The record of an
operation states exactly these: which statuses are success, which of them it
then needs a body for, what the request does to the item on the portal, whether
the operation may return before any request, whether it is limited to one
attempt. `GeneratedClient` adds what the operation's generated method contributes:
the HTTP method of its request, and the statuses at which the parser decodes a JSON
body. Operations whose records coincide behave alike, so TLC sees each
distinct record once while the map keeps a line for each operation.

`ServiceCall` runs one such operation: `Begin`, `Attempt`, `Receive` (the closure
judging the answer), `Break` (the HTTP client gives up), `Wake` (the back-off).
`path` says whether the call is in its own loop or in the one of the `ListDomains`
call inside `ConvertDomainToOnChain`. A request that was given up is `stray`: it
may still reach the portal, late, or never. `item` is what the call is about and
other clients create, delete and convert it at any time. 401 stands for the
refusals that do not depend on the item (400, 401, 403, 405, 410). A `garbled` body
says it is JSON and does not decode: where the parser decodes that status, the
generated client returns an error and the closure returns it unmarked
(`Undecodable`), so the call is retried whatever the status was. `Replay` is the
transport's own repetition of a GET when a pooled connection breaks: the request that
was under way is `stray` and a second one flies, unseen by closure and loop.

### Poll

One wait: `Call` and `InitialDelay`, the loop's select (`SelectDone`, `SelectTick`), and
between them a status query, which is `RetryContext` again but only as far as a wait
can tell: `Look` (the first look at the context), `Attempt`, `Serve` by the portal,
`Receive`, `Break`, `Wake`. `Waits` are the four operations with the states that settle
them and the context their queries run under: `WaitForPolledState` (SSL, website status)
hands its closure no context, so those queries run under the caller's and not under
the one with the deadline. `result` is the variable the closure stores for its caller;
a website's status arrives also with a 410, whose error `WaitForWebsiteStatus`
overrides. `Tick`, `Deadline`, `Cancel` and `Change` (of the portal's item) happen at any
time; the ticker's channel holds one tick. `held`, a history variable, is what the item
has been since the current attempt began.

### ClientToken

An update is the list of parts it changes, in the code's order, and each part is a
step (`todo`); a user (`pc[u]`) gets a service from the client, makes a request, passes
the round tripper, gets its answer, and may keep the service. Tokens are numbered in
the order they are set, and `config` counts base URLs and HTTP clients. `service[s]` is
the generated client under a service, `client[u]` the one under the service value a user
holds, which for recreated services stays the old one for ever. An update waits for
the requests in flight in the round tripper it changes (`SetTransport`), and requests
that come later wait for it (`Locking`): Go's `RWMutex` lets no new reader past a waiting
writer. `promise` collects what finished updates owe, `obtained` and `begun` what was owed
when a user got its service and when it made its request.

### DownloadEngine

Each caller makes one read (`Get`, `GetSize` or `Has` of
`rate_limited_blockstore.go`) of a pool they share. `pc[c]` is the place of the
call, and the actions are what runs between two points where the pool or the
context may interfere:

| Action | Code |
|---|---|
| `Call` | the shortcut through the meta client (85-95, 108-117, 131-140), then `retry.Do`'s first look at the context |
| `Allow` | an attempt: `wait` asks the limiter; granted, `submitAndWait` hands its task to the pool; denied, the attempt has failed |
| `Answered` | the select of `submitAndWait` takes the result; `RetryIf` classifies it: a 429 resets the count and asks the limiter again |
| `ContextDone` | the select takes the end of the context instead; the task stays in the pool |
| `Wake` | the back-off: its timer or the context |
| `ReadValue` | `return blk, err`: the captured variable is read after the last task wrote it |
| `StartTask`, `Finish` | a worker takes the oldest task; the task writes the variable and puts its result into its own channel of one |
| `Stop`, `Stopped` | `Stop` of the blockstore |

Task `n` of a call is the one its `n`-th attempt submitted; one that starts under
a context that has ended sends no request and is `doomed` to fail. The pool itself
(`workerpool`) is external and modelled as it is used: a FIFO queue, at most
`Workers` tasks at a time, a stop that abandons what waits. `BlockReads` has neither tasks nor
pool: each read is a loop of its own that makes a request, misses or gets the block, and returns
it; the refinement maps `pc[c]` to `idle`, `between` requests, `fetching` or `returned`. `Sized` tells whether a
pool size was configured, on which it depends whose pool it is. `word` and `rated` are history
variables for the properties.

## 3. The runs

| Run | Module, configuration | Question |
|---|---|---|
| `sse_safety` | `MCSSEClient`, `SSEClient.cfg` | invariants of the client and refinement of `EventDelivery` |
| `sse_live` | `MCSSEClient`, `SSEClientLive.cfg` | `Stop` returns, readers end, events arrive |
| `sse_closed` | `MCSSEClient`, `SSEClosed.cfg` | is a stopped client reported as disconnected? No (section 5) |
| `sse_telemetry` | `MCSSEClient`, `SSETelemetry.cfg` | does `Wait` drain the telemetry? No |
| `upload` | `Upload`, `Upload.cfg` | all properties of an upload, and refinement of `UploadStore` |
| `upload_partial` | `Upload`, `UploadPartial.cfg` | is success complete if the portal takes less than the first chunk? No |
| `service` | `ServiceCall`, `ServiceCall.cfg` | all properties of a service call |
| `service_rotate` | `ServiceCall`, `ServiceRotate.cfg` | does a single attempt rotate at most once? No |
| `download` | `DownloadEngine`, `DownloadEngine.cfg` | all properties of two reads that share a worker, and refinement of `BlockReads` |
| `poll` | `Poll`, `Poll.cfg` | all properties of a wait |
| `token` | `ClientToken`, `ClientToken.cfg` | do requests after an update carry what it set, and do updates return? |
| `token_held` | `ClientToken`, `ClientTokenHeld.cfg` | does `SetAuthToken` reach services the application already has? Not the recreated ones |

### Bounds

- `MaxConns = 3`: a first connection, a reconnection, and a reconnection of a
  reconnection; the hand-over between handlers happens twice, a connection's
  failure can be followed by another's. The last one does not
  fail or break unless it is cancelled (or the client does not reconnect), so
  the bound ends a behaviour like a stable portal does and not in the middle of
  a retry. Two callers of `Stop`, since the second finds
  `done` closed and overtakes the first. Three events of which one has no
  handler: the cursor moves past it, which `StopLosesNothing` has to allow for.
  `ChanCap = 2` (the code has 100): full, empty and between.
- The liveness run is smaller (two connections, one stopper, two events, a
  channel of one) and has unlimited as well as limited retries.
- `MaxSize = 4`, `Limit = 2`, `InitialChunk = 3`: sources up to, at and over the limit
  of POST; over it one source that fits in the initial chunk, exactly, and one that
  needs a PATCH. `MaxRedirectHops = 3` (the code has 5): a first, a middle and a
  last attempt, and the error after it. `StartPositions = {0, 1}`: readers at their
  beginning and past it; `upload_partial` needs the first only.
- `Attempts = 3`: the first, a middle and the last attempt; the nested loop can be
  exhausted in a middle attempt of the outer. `Replays = 1` bounds the transport's
  repetitions; one is enough to make a request overtake itself. The proofs have
  neither bound.
- `poll` has `Attempts = 2`, a first and a last attempt, and no other bound: nothing
  counts polls, so a behaviour may poll, tick and change for ever.
- `token`: two users, for one has to be in flight while the other waits behind an
  update; `MaxToken = 2`: a token that is replaced twice; `MaxConfig = 1`: the original
  base URL and another. Of the services on the generated client `Used` has `dag`, made
  last, and `meta`, replaced twice by `SetAuthToken`; the others are rewired between them
  by the same step.
- Two readers and one worker (the code has ten): while one task runs another waits,
  and a call that gave up its task can be held up by it. `Attempts = 2` and
  `MaxTries = 4`: `MaxTries` bounds the number of 429 answers, which the code does not, and
  four tries are the least in which a failure, a 429 and then a full series of failures
  fit. The proofs have neither bound on callers, workers and attempts. No call is in
  progress when `Stop` is called, and with a configured pool none is begun later: a
  submission to a stopped pool panics, by the contract of `workerpool`.

### Fairness

The safety runs assume none. `sse_live`: each goroutine that can run eventually
does (the Go scheduler); a dial ends since the HTTP client has a
`ResponseHeaderTimeout` and the context of the connection is cancelled by
`Disconnect`; the application's handler returns; an intact stream delivers what
the portal replays; a cancelled connection's reader ends. `PollExit` is strongly
fair: the select of `pollConnected` finds `done` closed each time it is reached
and Go's select picks among ready cases at random, so it does not avoid that
case for ever. Nobody has to call `Start` or `Stop`. `upload`: reads return, the
two goroutines run, a request ends in an answer, an error or the cancelled
context. `service`: the steps of the client are taken, and a request without an
answer is given up (the 30 s timeout of the default client, `sdk.go:72`); the
portal and the network promise nothing at all. `poll`: the same, and the deadline's
timer fires; taking the end of the context in the loop's select is strongly fair, for a
tick may be ready each time it is, and the select picks at random. `token`: an update
goes on and a request in flight ends; users promise nothing. `download`: the goroutines of calls
and pool run and the limiter answers; a request ends once its context has, and may
otherwise stay open for ever, for the HTTP client the
download service makes itself has no timeout (the one a `Client` hands it has 30 s;
assuming less covers both). So
`CancelReturns` and `TasksDrain` hold for the former and the latter has to hold
whoever waits: `TasksDrain` speaks of calls that have all returned, whose live tasks then belong to
ended contexts.

## 4. The proofs

`SSEClientProofs` proves, for any number of connections, events, stoppers and any
set of options:

| Theorem | Statement |
|---|---|
| `Invariance` | `Spec => []IInv` |
| `TypesHold` | the type invariant; in particular the `WaitGroup` never becomes negative |
| `SingleStream` | at most one goroutine connects or dispatches |
| `StreamsCancelled` | a stream still read once a `Disconnect` is past `connMu` is cancelled |
| `StopDrains` | when a `Stop` has returned, no handler is running or is ever spawned |
| `StoppingEnds`, `StopFreed` | see "What ends" |

Assumptions: `BoundsAssumption` and `OptionsAssumption`, which only give the
constants their types (TLC evaluates them on every run).

None of the three safety invariants is inductive by itself. `IInv` adds:

- **Ownership**: connections beyond `made` are unused; a goroutine on its way to a
  stream holds a connection that has no handler yet, and none that is read before
  its dial succeeded; and `OneStream`. Without it, `Spawn` could start a second
  handler for a running connection.
- **Published**: an open stream is `conn` or cancelled. This is the reason
  `Disconnect` need only cancel `conn`. It has to say the same of a connection being
  dialled, and needs that while the client is open each stream read belongs to
  exactly one goroutine: otherwise a second `Connect` could overwrite `conn` and
  orphan the first.
- **Closing**: what `Stop` has established by each of its places: `done`, then `conn`
  nil, then no running handlers.
- **Counting**: `wg` is the number of running handlers plus one for the telemetry.
  That handlers are finitely many is a lemma of its own.

Each action has its step; most actions neither take over, open nor end anything, and
`PlainMove` states that once (`ConnectMoves`, `HandlerMoves`, `PlainMoveKeeps`) so that only
the remaining ones need an argument: `ConnectingKeeps`, `ConnWrites`, `DialOKKeeps`,
`SpawnKeeps`, `ExitKeeps`, `StopKeeps`, `StartKeeps`, `PollKeeps`, `ReaderKeeps`.

`SSEDeliveryProofs` goes on from `IInv` under the same assumptions:

| Theorem | Statement |
|---|---|
| `Delivering` | `Spec => [](IInv /\ Delivers)` |
| `CursorSafe` | the cursor a stopped stream leaves skips no event that was not dispatched (`StopLosesNothing`) |
| `ImplementsDelivery` | the client implements `EventDelivery` (`DeliverySpec`) |

`SSEClientProofs` says whose a stream is; `Delivers` says what is in it:

- **Logged**: `last <= lastEventID <= published`, and no connection is read past the log.
- **Streams**: a connection being requested starts from the cursor. The channel of a connection
  that a goroutine reads, or has opened and will read, holds the run of events that follows
  the cursor, up to where its reader has got, and at most one error frame, the last.
- **InFlight**: the event at `dispatch` is the cursor, routed and not given yet, and everything
  routed before it has been given: the cursor moves before the handler runs, by one event.
- **Settled**: while no event is in flight, everything routed up to the cursor has been given.

`OneStream` is what makes this stable: a second reader could move the cursor under
the first. For the refinement only three kinds of step matter: `Dispatch` is `Deliver` (by
InFlight the event is the least pending one, and by `HandlersDrained` no `Stop` has returned),
`PortalPublish` is `Publish`, and a stopper's last step is `Close` the first time; every other
step leaves `published`, `last` and `Stopped` as they are (`OutsideSteps`).

`DownloadEngineProofs` proves, for any number of calls, workers and attempts:

| Theorem | Statement |
|---|---|
| `Invariance` | `Spec => []IInv`; `IInv` contains the type invariant |
| `ReadsReturnBlocks` | a read that succeeds returns the block (`SuccessHasBlock`) |
| `ImplementsReads` | the engine implements `BlockReads` (`ReadsSpec`) |
| `RequestsPermitted` | no request against the limiter's last word (`Permitted`) |
| `AttemptsSpent` | a call fails with its attempts spent, not before and not after (`FailuresSpent`) |
| `TypesHold` | the type invariant (`TypeOK`) |
| `CancelledCallsEnd`, `TasksEnd` | see "What ends" |

`Permitted` and `SuccessHasBlock` are stated in the proofs only; what the second says is part of
`ReadsSpec`, whose `Receive` takes the block of the last request.

Assumption: `PoolAssumption`, the types of the constants and `MaxTries >= Attempts`.

`FailuresSpent` needs **Budget**: between attempts, `tries - rated`, the attempts since
the last 429, is the count of failures; while an attempt is under way it is one
more. `SuccessHasBlock` needs an argument about tasks nobody waits for, since each of
them writes the variable the call is going to return. **Queued**: the queue
holds exactly tasks that wait, each once, so a task runs once. **GivenUp**: a live task is the one its
call waits for, or its call's context has ended (only `ContextDone` leaves a task
behind). **Outdated**: if an older task of a call is still live, no newer one runs a
request or has succeeded; for a newer one was started under an ended context.
**Written**: so when the latest task has succeeded, it was the last to write. The step that
could break it is `StartTask` (`StartTaskTasks`): a task starts `running` only if its context has
not ended, and then no older one is live.

For the refinement every step of the pool is a stutter; the steps of a call are those of its read
(`CallImplements` to `ReadValueImplements`). The abstract read returns the block it fetched, so
`ReadValue` needs **Written**; a miss that is the last needs **Budget**.

`ServiceCallProofs` proves, for any number of attempts and of replays and for all
sixty-two operations:

| Theorem | Statement |
|---|---|
| `Invariance`, `CallTypes` | `Spec => []IInv`, the type invariant |
| `SuccessMeans` | a call that returns no error had its effect (`OkMeansDone`) |
| `AppliedBounded` | a call changes the portal at most as often as its attempts and the replays of a GET allow (`DuplicatesBounded`) |
| `CredentialValid` | a credential handed back is valid unless the transport replayed (`CredentialStands`) |
| `RefusalsStop` | after a listed code no further request (`RefusedStops`) |
| `DecodedSucceeds` | a success the parser decoded is one of the call (`UnderstoodSucceeds`) |
| `AttemptsSpent` | short of a refusal no error with attempts left (`RetriesSpent`) |
| `ConversionSettles` | a committed conversion is not reported as ineligible (`ConvertSettles`) |

Assumptions: `AttemptsAssumption`, `ReplaysAssumption`. The proof first goes through the table
of operations: `Regular` collects what the argument needs of a record (the only refusal an
operation may take for success is 404, every success its parser decodes is one the
operation accepts and reads, a rotation has a single attempt, a conversion's 422 is decoded),
and one lemma per service shows it of each operation, expanding the
definitions of `GeneratedClient`. After that the operation is arbitrary. `IInv` adds to the
types **Counted** (every change was made by a request: what was applied and what is under way together do
not exceed attempts and replays), **Waiting** (what the call is doing in each phase),
**Honest** (an answer that will be taken for success has `met` behind it), **Valid** (without
replays the credential of a rotation's answer is the item's) and **Converted** (a conversion is never undone,
so a plain 422 was given before there was one, or out of order).

`PollProofs` proves, for any number of attempts: `Invariance`, `WaitTypes` (`TypeOK`), `SettlesOnCurrent`
(`SettledIsCurrent`) and `WaitAsksInTime` (`NoLateRequest`), from `AttemptsAssumption`. The invariant says
that while a query is under way its result is still empty, so what `WaitForWebsiteStatus`
finds beside an error was stored by the very answer that failed the query; and that an
answer under way was true since the attempt began.

`UploadProofs` proves, for sources of any length and any limit, chunk and number of
redirects, from `UploadAssumption`:

| Theorem | Statement |
|---|---|
| `Invariance`, `UploadTypes` | `Spec => []IInv`, the type invariant |
| `BodyFresh` | every request carries the source from its beginning (`FreshBody`) |
| `ReaderFree` | a call that returned has no writer left (`ReaderReleased`) |
| `StoresOnce` | one call stores at most one object (`StoredOnce`) |
| `PostComplete` | a POST that succeeds has sent the whole source and the portal has exactly that, or, if a redirect was followed, nothing (`PostWhole`) |
| `TusComplete`, `ResumeComplete` | if the portal takes the whole initial chunk: `TusWhole`, `ResumeWhole` |
| `ImplementsStoring` | under the same assumption the upload implements `UploadStore` (`StoringSpec`) |
| `UploadsEnd`, `NoDeadlock` | see "What ends" |

The further assumption is what finding 3 of section 5 says the code relies on. `PostComplete` is the
argument that a form which was closed properly is not always a whole one: the writer's error, joined on every
path, tells them apart, also when the 200 is the answer to another request. `IInv` relates the goroutines: **Carried** (the units the writer took are in the body, but for the one it
holds; a form that was closed properly holds the whole source or `werr` is set; a writer that
ended without closing it has met a broken pipe, and `werr` is set),
**Buffered** (a source that cannot seek is sent only if it was read to its end without failure),
**Stored** (what is stored is the last body, of a form closed properly, and then no redirect follows; nothing is stored of a request that
was redirected),
**Remote** and **Gapless** (the portal's offset against the reader's position), **Places** (the writer runs
only while the call waits). Two lemmas, `PostLeavesTus` and `TusLeavesPost`, let each action's proof speak of
its own path only.

`ClientTokenProofs` proves, for any number of users, tokens and configurations and any choice of
services used, from `BoundsAssumption`:

| Theorem | Statement |
|---|---|
| `Invariance`, `TokenTypes` | `Spec => []IInv`, the type invariant |
| `UpdatesReach` | a request carries what every update that returned before the service was got has set (`FreshAfterUpdate`) |

An update is a sequence of steps, and its order is the argument. `Ordered` says what may follow each
step and what must: `rebuildInternalGen` after the bearer token, every service after the generated
client, `downloadTransport` before the download service's own metadata clients, and the restoring
`meta` and `store` after those. Each update is put together from ordered pieces (`OrderedConcat`),
and `OrderedTail` keeps the order as steps are taken. `IInv` adds to the types **StepsLeft**, **Changed** (a part
that no step left will change has the update's token and configuration, so an update that has
returned has left nothing behind), **Bounded** (nothing is ahead of the update, so every step
makes its part newer), **Owned** (a metadata client of the download service's own goes through a round
tripper that is not behind it), **Kept** (what was promised is still there) and **Served** (a user's service and
request have what is due, or pass a round tripper that has it).

### What ends

Liveness under fairness is out of this prover's reach. What it can show is the half of it that the
code answers for: that there is nothing to go round in. Each theorem gives a call a rank, a
tuple of natural numbers that every step of its own lowers; `Ranks` has the lemma (`RanksEnd`, from the
library's well-founded orders) that ranks do not fall for ever.

| Theorem | What falls, and what may raise it | Liveness |
|---|---|---|
| `ServiceCallProofs!CallsEnd` | every step of a call, through both loops: attempts left, place, attempts of the inner loop left, turn, replays left; nothing raises it | `CallReturns` |
| `UploadProofs!UploadsEnd` | every step of call, writer, producer and portal: redirects left, place, units left; only the caller's resumption raises it | `Returns` |
| `UploadProofs!NoDeadlock` | while the call waits for its writer, a writer that is at the pipe finds it broken | `Returns` |
| `DownloadEngineProofs!CancelledCallsEnd` | every step of a call whose context has ended: a last 429, failures left, place; no other call, worker or old task raises it | `CancelReturns` |
| `DownloadEngineProofs!TasksEnd` | each task goes from submitted to answered once, and one that waits is in the queue | `TasksDrain`, `StopEnds` |
| `PollProofs!QueriesEnd` | every step of a wait but the taking of a tick; the clock, the caller and the portal leave it alone | `WaitEnds` |
| `SSEClientProofs!StoppingEnds` | once a `Disconnect` is past `connMu`, every step of each goroutine and reader: the reader's last frame, frames buffered, place | `StopReturns`, `ReadersEnd` |
| `SSEClientProofs!StopFreed` | `wg` is 0 as soon as handlers and telemetry have ended | `StopReturns` |
| `ClientTokenProofs!UpdatesEnd` | an update's steps left; while it waits for the round tripper's lock, the requests it waits for only become fewer | `UpdateReturns` |

The bounds of these arguments are the code's own (attempts, redirects, the source's length, the
steps of an update), with one exception: `replays` in `CallsEnd` is bounded by `Replays`, for
nothing in `net/http` bounds how often pooled connections break, but each repetition needs one that did.
They say where the guarantees come from. `CancelledCallsEnd` forgives one 429 only, since a task submitted
under an ended context is doomed to an error; an open context has no such theorem, because 429
answers are retried for ever. `StoppingEnds` starts at `connMu` and not at the close of
`done`: until the connection is cancelled frames may keep arriving, and the select may keep taking them.
It rests on **Published**: after `StopCancel` whoever is dialling has been cancelled. `UpdatesEnd`
has to leave out requests that arrive while the update waits, and they do wait behind it (`Locking`).

Every safety property of a passing run, and the three refinements, are so proved. Only model-checked
is liveness itself, the step from "its steps are finitely many" and fairness to "it ends":
`StopReturns`, `ReadersEnd`, `Returns`, `ProducerEnds`, `CallReturns`, `CancelReturns`, `TasksDrain`, `StopEnds`,
`WaitEnds` and `UpdateReturns`; and `EventuallyDelivered`, for which no rank is given: it
depends on a portal that becomes stable.

## 5. Where code and documentation disagree

Each is described in `PROJECT.json` under `findings`. Five are runs that TLC refutes:

1. `sse_closed`: a `Connect` that is past its dial when `Disconnect` runs sets
   `StateConnected` and reports `Connected(true)` after `Disconnect` has set and reported
   the opposite; it then finds `done` and leaves both as they are.
2. `sse_telemetry`: `Start` adds the telemetry to `wg` outside `spawnMu`.
3. `upload_partial`: success of a small TUS upload depends on the bytes read, not on
   the bytes the portal accepted.
4. `service_rotate`: the single attempt of a rotating `Access` does not keep `net/http` from
   sending the GET again when a pooled connection breaks.
5. `token_held`: `SetAuthToken` makes six services anew and cannot reach the ones the
   application already has.

The others are in the models, or in a default no model has, without a run of their own:

6. An answer that is refused with a body that does not decode is retried (`errors.go:553`).
7. POST takes a seekable source from its beginning, TUS from where the reader stands
   (`upload.go:577`).
8. A refusal of `ListDomains` inside `ConvertDomainToOnChain` loses its `Unrecoverable` mark,
   so the outer loop retries (`websites.go:1176`).
9. Without a configured size the pool belongs to the engine, and `Stop` of the blockstore
   does not reach it (`rate_limited_blockstore.go:68`).
10. `WaitForSSLStatusReady` and `WaitForWebsiteStatus` query past their timeout (`poll.go:168`).
11. The defaults `WaitForDNSValidation` documents are not those it uses (`websites.go:914`).
12. `SetHTTPClient` does not reach pinning, upload and download (`sdk.go:476`).
13. During `SetAuthToken` after a `SetBaseURL` metadata queries go to the old server (`sdk.go:531`).
14. A `Client`'s downloads do have the 30 s timeout the download service avoids (`download.go:181`).
15. Two `SetAuthToken` of the download service at a time may leave it on two tokens
    (`download.go:327`).
16. A form that is redirected with 301, 302 or 303 becomes a GET, whose 200 is taken for success
    though nothing was stored (`upload.go:679`).
17. `ResumeUpload` counts the resumed bytes twice in `Size` (`upload.go:824`).

Two smaller ones are modelled as the code has them, without a run: a denial by
the limiter is an error like others and retried, though `rate_limiter_engine.go:89` says
"don't retry if it denies access" (`rate_limiter.go:13` says "should wait/retry"); and
a 429 asks the limiter twice before the next request, and only the second answer
counts.

## 6. What is not modelled

- **Delays** of back-off, jitter and timeouts: a timer may fire at any time. So the
  two arithmetic slips in `sse.go` (the jitter truncates to 0 at line 658, the initial
  delay is not clamped at 540) are hazards without a property.
- **Contents**: names, filters, paging, payload decoding, CAR encoding, reason codes
  of errors.
- **`Attempts = 0`** in a retry configuration means no limit; `ServiceCall` assumes at
  least one, as the default configuration has.
- **`Stop` from inside an event handler** waits for its own goroutine and never
  returns; `StopReturns` is about stoppers that are other goroutines.
- **Redirects `net/http` follows by itself**, except those of a form (`Answer`). A service call
  whose request meets a 301, 302 or 303 continues as a GET (POST, PUT, PATCH and DELETE lose method and body),
  and an operation may take its 200 for its own: `OkMeansDone` assumes that the portal
  does not redirect the API. 307 and 308 send the same request to another address, which changes
  nothing the model has. The same is assumed of the requests of the TUS client and of the
  downloads. A `CheckRedirect` of a caller's own HTTP client, which the services keep
  (`upload.go:216`), can only turn a redirect into an error.
- **A portal that answers 200 before it has read the form**: it is taken at its word by the code, and
  the model's portal does not lie.
- **The CAR producer of a failing TUS upload**: when reading the initial chunk, creating the upload or a PATCH
  fails, `uploadViaTUS` returns without closing the pipe, and the goroutine of `StreamToPipe`
  (`upload.go:416`) stays blocked in its write for ever. The model has the leak (`Produced` is never enabled
  again); `ProducerEnds` is stated for successful calls and for the POST path.
- **`UploadBytes`, `UploadFile`** wrap `Upload`; **`GetUploadResult`** and the choices of the
  CAR builder keep no state.
- **Host override, gateway secret, `JWTProvider`** of the client: set once or never used.
- **The download service's paths**: resolution and directory traversal are boxo's, over the
  block reads `DownloadEngine` has. Writes to its blockstore are no-ops, and the engine's
  `Close` has no caller.
- **In-memory TUS store** (`internal/tusstore`): the store of a test server, used by the
  tests of `upload.go` only. Its `NewUpload` and `GetReader` touch the data without the lock
  the other methods take.
- **File systems, DNS names**: sequential adapters and two pure string functions.
- **Generated API clients**: of 17,000 lines produced from a swagger file, method and decoded
  statuses of the operations a service uses are modelled; paths, parameters, the types
  bodies decode into and the operations no service calls are not.

## 7. The plan

Done: everything the table of section 2 lists, each module with its runs; proofs for
`SSEClient` with its refinement of `EventDelivery`, `DownloadEngine`, `ServiceCall`, `Poll`,
`Upload` and `ClientToken`, with the refinements of `UploadStore` and `BlockReads` and the theorems
about what ends. In order of worth, what would come next:

1. The in-memory TUS store, as a module of its own, with the upload's portal refined to it.
2. Several operations at a time on one item, composed from `ServiceCall`.
3. An abstract operation on an item others change, which `ServiceCall` would implement.
