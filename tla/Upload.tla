--------------------------------- MODULE Upload ---------------------------------
(***************************************************************************)
(* One call of UploadService.Upload or UploadFromFS (upload.go): the        *)
(* choice between POST and TUS, the POST path with its writer goroutine,    *)
(* its pipe and its redirects, the TUS path, and a ResumeUpload after it.   *)
(*                                                                         *)
(* The source is a sequence of units, numbered 1, 2, ...; what the portal   *)
(* stores is a sequence of the units it received, so a body that was        *)
(* truncated, restarted in the middle or mixed up is told from a whole one. *)
(***************************************************************************)
EXTENDS Integers, Sequences

CONSTANTS MaxSize,          \* longest source (a bound)
          Limit,            \* uploadLimit: up to it POST, beyond it TUS
          InitialChunk,     \* units sent with the creation of a TUS upload
          MaxRedirectHops,  \* attempts of the POST path
          PartialCreate,    \* may the portal accept less than the initial chunk
          StartPositions    \* where a seekable reader may stand at the call

ASSUME UploadAssumption ==
  /\ MaxSize \in Nat /\ Limit \in Nat /\ InitialChunk \in Nat \ {0}
  /\ MaxRedirectHops \in Nat \ {0} /\ PartialCreate \in BOOLEAN
  /\ StartPositions \subseteq Nat

VARIABLES
  job,       \* the call: claimed size, start, end, faulty end, CAR, seekable
  pos,       \* units taken from the caller's reader (or the CAR pipe)
  producer,  \* the goroutine of StreamToPipe
  buf,       \* units in the buffer of a source that cannot seek
  pc,        \* where the call is
  hops,      \* redirects followed
  writer,    \* the goroutine that writes the multipart form
  cursor,    \* its position in the buffer
  unit,      \* the unit it has read and not written
  werr,      \* its resultErr is set
  pipe,      \* the io.Pipe of the current attempt
  body,      \* what the portal received of the current request
  answer,    \* how the request ended, as postUpload sees it
  stored,    \* the objects the portal stored from POST requests
  remote,    \* the TUS upload on the portal, NoUpload, or Deleted
  written,   \* units io.Copy gave to the TUS stream
  result,    \* what the call returned
  size       \* UploadResult.Size

sourceVars == <<job, pos, producer>>
writerVars == <<writer, cursor, unit, werr>>
tusVars    == <<remote, written>>
vars == <<sourceVars, buf, pc, hops, writerVars, pipe, body, answer, stored,
          tusVars, result, size>>

\* The first n units of what the caller's reader has to give; and the source from
\* its first unit, which is what a POST sends, wherever the reader stands.
Data(n) == [i \in 1..n |-> job.start + i]
Whole == Data(job.have - job.start)
Form == [i \in 1..job.have |-> i]
NoUpload == <<0>>
Deleted  == <<-1>>

\* A CAR has the length CalculateCARSize computed unless its generation fails;
\* nobody checks the length an Upload's caller claims.
Jobs ==
  {j \in [claimed : 0..MaxSize, start : StartPositions, have : 0..MaxSize,
          fault : BOOLEAN, car : BOOLEAN, seekable : BOOLEAN] :
     /\ j.start <= j.have
     /\ j.start > 0 => j.seekable
     /\ j.car => /\ ~j.seekable
                 /\ IF j.fault THEN j.have < j.claimed ELSE j.have = j.claimed}

Init ==
  /\ job \in Jobs
  /\ pos = job.start
  /\ producer = IF job.car THEN "running" ELSE "none"
  /\ buf = 0
  /\ pc = "route"
  /\ hops = 0
  /\ writer = "none" /\ cursor = 0 /\ unit = 0 /\ werr = FALSE
  /\ pipe = "open"
  /\ body = <<>>
  /\ answer = "none"
  /\ stored = <<>>
  /\ remote = NoUpload /\ written = 0
  /\ result = "none"
  /\ size = 0

\* The call returns an error, or a result with its Size: the units sent, or for a
\* CAR the UnixFS size of what is in it, which can be anything.
Fail == pc' = "returned" /\ result' = "failed" /\ UNCHANGED size
Succeed(n) == /\ pc' = "returned" /\ result' = "ok"
              /\ size' \in IF job.car THEN 0..MaxSize ELSE {n}
To(next) == pc' = next /\ UNCHANGED <<result, size>>

\* uploadTask.Execute
Route ==
  /\ pc = "route"
  /\ To(IF job.claimed <= Limit THEN "attempt" ELSE "initial")
  /\ UNCHANGED <<sourceVars, buf, hops, writerVars, pipe, body, answer, stored, tusVars>>

\* StreamToPipe: once everything it generated is read, its goroutine closes
\* the pipe; until then it blocks in a write.
Produced ==
  /\ producer = "running"
  /\ pos = job.have
  /\ producer' = "ended"
  /\ UNCHANGED <<job, pos, buf, pc, hops, writerVars, pipe, body, answer, stored,
                 tusVars, result, size>>

\* A reader reports its end, or its failure, only when its producer has ended.
AtEnd == pos = job.have /\ producer # "running"

-------------------------------------------------------------------------------
(* POST *)

UnbufferedFill ==
  /\ pc = "attempt" /\ hops < MaxRedirectHops
  /\ ~job.seekable /\ buf = 0
  /\ To("start") /\ buf' = job.have
  /\ UNCHANGED <<sourceVars, hops, writerVars, pipe, body, answer, stored, tusVars>>

\* bufReader on a source that cannot seek: while the buffer is empty, the
\* source is copied into it, to its end.
Fill ==
  /\ pc = "attempt" /\ hops < MaxRedirectHops
  /\ ~job.seekable /\ buf = 0
  /\ \/ /\ pos < job.have
        /\ pos' = job.have
        /\ UNCHANGED <<pc, buf, result, size>>
     \/ /\ AtEnd
        /\ UNCHANGED pos
        /\ IF job.fault
           THEN Fail /\ UNCHANGED buf
           ELSE To("start") /\ buf' = job.have
  /\ UNCHANGED <<job, producer, hops, writerVars, pipe, body, answer, stored, tusVars>>

StartAt(p, more) ==
  /\ \/ pc = "start"
     \/ pc = "attempt" /\ more /\ (job.seekable \/ buf > 0)
  /\ To("posting")
  /\ pos' = IF job.seekable THEN p ELSE pos
  /\ cursor' = 0
  /\ writer' = "reading" /\ unit' = 0 /\ werr' = FALSE
  /\ pipe' = "open" /\ body' = <<>> /\ answer' = "none"
  /\ UNCHANGED <<job, producer, buf, hops, stored, tusVars>>

StartWithoutSeek == StartAt(pos, hops < MaxRedirectHops)
UnboundedStart == StartAt(0, TRUE)

\* A fresh pipe and a fresh writer goroutine for a source at its beginning:
\* Seek(0, io.SeekStart), wherever the caller's reader stood.
Start == StartAt(0, hops < MaxRedirectHops)

TooManyHops ==
  /\ pc = "attempt" /\ hops = MaxRedirectHops
  /\ Fail
  /\ UNCHANGED <<sourceVars, buf, hops, writerVars, pipe, body, answer, stored, tusVars>>

\* io.Copy(part, r) reads from the caller's reader itself when it can seek.
WriterRead ==
  LET next == IF job.seekable THEN pos ELSE cursor IN
  /\ writer = "reading"
  /\ IF next < job.have
     THEN /\ unit' = next + 1
          /\ writer' = "writing"
          /\ IF job.seekable THEN pos' = pos + 1 /\ UNCHANGED cursor
                             ELSE cursor' = cursor + 1 /\ UNCHANGED pos
          /\ UNCHANGED werr
     ELSE /\ writer' = "closing"
          /\ werr' = (job.seekable /\ job.fault)
          /\ UNCHANGED <<pos, cursor, unit>>
  /\ UNCHANGED <<job, producer, buf, pc, hops, pipe, body, answer, stored, tusVars,
                 result, size>>

\* A write to the pipe waits for the transport to read it: after Do returned
\* nobody does, until the pipe is broken.
CanWrite == pipe = "open" /\ answer = "none"

WriterWrite ==
  /\ writer = "writing"
  /\ \/ CanWrite /\ body' = Append(body, unit) /\ writer' = "reading" /\ UNCHANGED werr
     \/ pipe = "broken" /\ werr' = TRUE /\ writer' = "closing" /\ UNCHANGED body
  /\ UNCHANGED <<sourceVars, buf, pc, hops, cursor, unit, pipe, answer, stored, tusVars,
                 result, size>>

\* The deferred closes: they end the form and the pipe properly even when
\* reading the source failed.
WriterClose ==
  /\ writer = "closing"
  /\ writer' = "ended"
  /\ \/ CanWrite /\ pipe' = "eof" /\ UNCHANGED werr
     \/ pipe = "broken" /\ werr' = TRUE /\ UNCHANGED pipe
  /\ UNCHANGED <<sourceVars, buf, pc, hops, cursor, unit, body, answer, stored, tusVars,
                 result, size>>

\* How Do and postUpload end.  The portal stores and answers when it has read
\* the whole form; a redirect, a refusal, a failure or the cancelled context may
\* come at any time, the last two also after it has stored the object.  A body
\* from a pipe cannot be sent again, so net/http hands 307 and 308 to postUpload
\* ("redirect"); 301, 302 and 303 it follows by itself with a GET that has no
\* body, and a 200 to that is success to postUpload ("followed"); any other
\* answer to the GET is an error.
Answer ==
  /\ pc = "posting" /\ answer = "none"
  /\ \/ /\ pipe = "eof"
        /\ stored' = Append(stored, body)
        /\ answer' \in {"ok", "error"}
     \/ /\ answer' \in {"redirect", "followed", "error"}
        /\ UNCHANGED stored
  /\ UNCHANGED <<sourceVars, buf, pc, hops, writerVars, pipe, body, tusVars, result, size>>

PostReturnsTo(p) ==
  /\ pc = "posting" /\ answer # "none"
  /\ pipe' = p
  /\ To("join")
  /\ UNCHANGED <<sourceVars, buf, hops, writerVars, body, answer, stored, tusVars>>

LeavingPostReturns ==
  PostReturnsTo(IF answer = "followed" /\ pipe = "open" THEN "broken" ELSE pipe)

\* postUpload returned: an error breaks the pipe under the writer.  So has
\* net/http, which closes the body of a request before it follows a redirect.
PostReturns == PostReturnsTo(IF answer # "ok" /\ pipe = "open" THEN "broken" ELSE pipe)

JoinWhen(ready, failed) ==
  /\ pc = "join"
  /\ ready
  /\ CASE answer = "redirect" -> hops' = hops + 1 /\ To("attempt")
       [] answer = "error"    -> Fail /\ UNCHANGED hops
       [] OTHER               -> /\ IF failed THEN Fail ELSE Succeed(job.claimed)
                                 /\ UNCHANGED hops
  /\ UNCHANGED <<sourceVars, buf, writerVars, pipe, body, answer, stored, tusVars>>

HastyJoin    == JoinWhen(writer = "ended" \/ answer # "ok", werr)
TrustingJoin == JoinWhen(writer = "ended", FALSE)

RetryingJoin ==
  \/ JoinWhen(writer = "ended" /\ answer # "error", werr)
  \/ /\ pc = "join" /\ answer = "error" /\ writer = "ended"
     /\ hops' = hops + 1 /\ To("attempt")
     /\ UNCHANGED <<sourceVars, buf, writerVars, pipe, body, answer, stored, tusVars>>

\* The result of the writer is awaited on every path, then the call follows the
\* redirect or returns.
Join == JoinWhen(writer = "ended", werr)

-------------------------------------------------------------------------------
(* TUS *)

First == IF job.claimed < InitialChunk THEN job.claimed ELSE InitialChunk

\* io.ReadFull of the initial chunk: a shorter or failing source is an error.
ReadInitial ==
  /\ pc = "initial"
  /\ IF pos + First <= job.have
     THEN pos' = pos + First /\ To("create")
     ELSE pos' = job.have /\ Fail
  /\ UNCHANGED <<job, producer, buf, hops, writerVars, pipe, body, answer, stored, tusVars>>

\* CreateUploadWithData.  The call returns at once when the initial chunk is
\* all it read.
Create ==
  /\ pc = "create"
  /\ \/ Fail /\ UNCHANGED remote
     \/ \E n \in IF PartialCreate THEN 0..First ELSE {First} :
          /\ remote' = Data(n)
          /\ \/ Fail
             \/ IF First = job.claimed THEN Succeed(n) ELSE To("stream")
  /\ UNCHANGED <<sourceVars, buf, hops, writerVars, pipe, body, answer, stored, written>>

Reachable == remote # NoUpload /\ remote # Deleted

StreamUnitThen(failing) ==
  /\ pc \in {"stream", "resume"}
  /\ pos < job.have
  /\ pos' = pos + 1
  /\ \/ /\ Reachable /\ Len(remote) < job.claimed
        /\ remote' = Append(remote, pos + 1)
        /\ \/ To(pc) /\ written' = written + 1
           \/ Fail /\ UNCHANGED written
     \/ failing /\ UNCHANGED tusVars
  /\ UNCHANGED <<job, producer, buf, hops, writerVars, pipe, body, answer, stored>>

SkippingStreamUnit == StreamUnitThen(To(pc))

\* io.Copy reads the next unit and PATCHes it at the portal's offset.  The portal
\* takes no more than the declared length; a failed request may have been applied.
StreamUnit == StreamUnitThen(Fail)

StreamEndIf(complete) ==
  /\ pc = "stream"
  /\ AtEnd
  /\ IF job.fault \/ ~complete THEN Fail ELSE Succeed(First + written)
  /\ UNCHANGED <<sourceVars, buf, hops, writerVars, pipe, body, answer, stored, tusVars>>

ShortStreamEnd == StreamEndIf(TRUE)

\* The source ended: what was read must be as long as the caller claimed.
StreamEnd == StreamEndIf(First + written = job.claimed)

-------------------------------------------------------------------------------
(* After the call *)

\* ResumeUpload by a caller that knows the location and passes a reader over
\* what the portal misses, according to GetUploadStatus.
Resume ==
  /\ pc = "returned" /\ result = "failed" /\ Reachable
  /\ ~job.car
  /\ pc' = "resume"
  /\ result' = "none"
  /\ pos' = job.start + Len(remote)
  /\ written' = 0
  /\ UNCHANGED <<job, producer, buf, hops, writerVars, pipe, body, answer, stored, remote,
                 size>>

\* No length is checked.  Size is the upload's RemoteOffset and what was written.
\* RemoteOffset is read after the stream, which shares the upload, has moved it to
\* where the source ended, so what this resumption wrote counts twice.
ResumeEnd ==
  /\ pc = "resume"
  /\ AtEnd
  /\ \/ job.fault /\ Fail
     \/ /\ ~job.fault
        /\ pc' = "resumed" /\ result' = "ok"
        /\ size' = (pos - job.start) + written
  /\ UNCHANGED <<sourceVars, buf, hops, writerVars, pipe, body, answer, stored, tusVars>>

\* CancelUpload by anyone who knows the location.
CancelUpload ==
  /\ Reachable
  /\ remote' = Deleted
  /\ UNCHANGED <<sourceVars, buf, pc, hops, writerVars, pipe, body, answer, stored, written,
                 result, size>>

CallStep == \/ Route \/ Fill \/ Start \/ TooManyHops \/ PostReturns \/ Join
            \/ ReadInitial \/ Create \/ StreamUnit \/ StreamEnd \/ ResumeEnd

WriterStep == WriterRead \/ WriterWrite \/ WriterClose

Next == CallStep \/ WriterStep \/ Produced \/ Answer \/ Resume \/ CancelUpload

Spec == Init /\ [][Next]_vars

\* Reads return, requests end (an answer, an error or the cancelled context) and
\* goroutines run.  Nobody has to resume or cancel.
FairSpec == Spec /\ WF_vars(CallStep) /\ WF_vars(WriterStep) /\ WF_vars(Produced)
                 /\ WF_vars(Answer)

-------------------------------------------------------------------------------
(* Properties *)

TypeOK ==
  /\ job \in Jobs
  /\ pos \in 0..MaxSize /\ buf \in 0..MaxSize /\ cursor \in 0..MaxSize
  /\ unit \in 0..MaxSize /\ written \in 0..MaxSize /\ size \in 0..2 * MaxSize
  /\ producer \in {"none", "running", "ended"}
  /\ pc \in {"route", "attempt", "start", "posting", "join", "initial", "create",
            "stream", "returned", "resume", "resumed"}
  /\ hops \in 0..MaxRedirectHops
  /\ writer \in {"none", "reading", "writing", "closing", "ended"}
  /\ werr \in BOOLEAN
  /\ pipe \in {"open", "eof", "broken"}
  /\ body \in Seq(1..MaxSize)
  /\ answer \in {"none", "ok", "redirect", "followed", "error"}
  /\ stored \in Seq(Seq(1..MaxSize))
  /\ remote \in Seq(-1..MaxSize)
  /\ result \in {"none", "ok", "failed"}

\* Every request of the POST path carries the source from its beginning, in
\* order, whatever the requests before it consumed of the shared reader.
FreshBody == body = [i \in 1..Len(body) |-> i]

\* When the call returns, its writer goroutine has ended: the reader is the
\* caller's again (the receive from resultChan on every path, line 621).
ReaderReleased == pc = "returned" => writer \in {"none", "ended"}

\* A POST that reports success has sent the whole source, although a form whose
\* source failed half way still ends with a proper boundary; and the portal has
\* stored it, unless net/http followed a redirect with a GET: then nothing is
\* stored, and the call does not know.
PostWhole ==
  pc = "returned" /\ result = "ok" /\ job.claimed <= Limit
    => /\ body = Form /\ ~job.fault
       /\ stored = IF answer = "followed" THEN <<>> ELSE <<Form>>

\* Redirects and lost answers included, one call stores at most one object.
StoredOnce == Len(stored) <= 1

\* A TUS upload that reports success is on the portal with the length the caller
\* declared, and the result says so (if it is no CAR), unless somebody has
\* cancelled it.
TusWhole ==
  pc = "returned" /\ result = "ok" /\ job.claimed > Limit /\ remote # Deleted
    => remote = Data(job.claimed) /\ (job.car \/ size = job.claimed)

\* However often it was interrupted and resumed, a resumed upload has no gap and
\* no unit twice on the portal.  (Its Size is another matter, see ResumeEnd.)
ResumeWhole == pc = "resumed" /\ remote # Deleted => remote = Whole

\* The call returns: breaking the pipe frees the writer it waits for.
Returns == pc = "route" ~> pc = "returned"

\* The goroutine that generates the CAR ends if the upload succeeds, and on the
\* POST path in any case (a failing TUS upload leaves it blocked in its pipe).
ProducerEnds ==
  (pc = "returned" /\ (result = "ok" \/ job.claimed <= Limit)) ~> producer # "running"

\* The call keeps the promise of UploadStore: a form is stored whole and once or
\* not at all, a TUS upload only ever grows by the source's next units, success
\* means all of it but for a request that went astray, and a call that has
\* returned leaves the portal alone.
Status == CASE pc = "returned" -> result
            [] pc = "resume"   -> "resuming"
            [] pc = "resumed"  -> "resumed"
            [] OTHER           -> "sending"

Astray == answer = "followed"

Storing == INSTANCE UploadStore WITH source <- job, Sources <- Jobs, status <- Status,
                                     astray <- Astray
StoringSpec == Storing!Spec

==============================================================================
