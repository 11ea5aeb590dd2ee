------------------------------ MODULE UploadProofs ------------------------------
(***************************************************************************)
(* Proofs about Upload, for sources of any length, any limit, chunk and     *)
(* number of redirects.                                                     *)
(***************************************************************************)
EXTENDS Upload, Ranks, TLAPS

-----------------------------------------------------------------------------
(* Sequences of units. *)

\* The units s+1, ..., s+n.
Units(s, n) == [i \in 1..n |-> s + i]

LEMMA UnitsLength ==
  ASSUME NEW s \in Nat, NEW n \in Nat
  PROVE  Units(s, n) \in Seq(Nat \ {0}) /\ Len(Units(s, n)) = n
  BY DEF Units

LEMMA UnitsAppend ==
  ASSUME NEW s \in Nat, NEW n \in Nat
  PROVE  Append(Units(s, n), s + n + 1) = Units(s, n + 1)
  BY DEF Units

LEMMA UnitsIn ==
  ASSUME NEW s \in Nat, NEW n \in Nat, NEW m \in Nat, s + n <= m
  PROVE  Units(s, n) \in Seq(1..m)
  BY DEF Units

LEMMA Markers ==
  /\ NoUpload \in Seq(-1..MaxSize) /\ Deleted \in Seq(-1..MaxSize)
  /\ NoUpload # Deleted
  /\ \A s \in Seq(Nat \ {0}) : s # NoUpload /\ s # Deleted
  BY UploadAssumption DEF NoUpload, Deleted

LEMMA DataIsUnits == \A n : Data(n) = Units(job.start, n)
  BY DEF Data, Units

LEMMA JobFacts ==
  ASSUME job \in Jobs
  PROVE  /\ job.claimed \in 0..MaxSize /\ job.have \in 0..MaxSize /\ job.start \in Nat
         /\ job.start \in StartPositions /\ job.start <= job.have
         /\ job.fault \in BOOLEAN /\ job.car \in BOOLEAN /\ job.seekable \in BOOLEAN
         /\ MaxSize \in Nat /\ Limit \in Nat /\ First \in Nat /\ First <= job.claimed
<1>1. job \in [claimed : 0..MaxSize, start : StartPositions, have : 0..MaxSize,
               fault : BOOLEAN, car : BOOLEAN, seekable : BOOLEAN] /\ job.start <= job.have
  BY DEF Jobs
<1>2. job.claimed \in 0..MaxSize /\ job.have \in 0..MaxSize /\ job.start \in StartPositions
  BY <1>1
<1>3. job.fault \in BOOLEAN /\ job.car \in BOOLEAN /\ job.seekable \in BOOLEAN
  BY <1>1
<1>4. First \in Nat /\ First <= job.claimed
  BY <1>2, UploadAssumption DEF First
<1> QED BY <1>1, <1>2, <1>3, <1>4, UploadAssumption

-----------------------------------------------------------------------------
(* The inductive invariant. *)

\* The units the writer has taken from the source.
Given == IF job.seekable THEN pos ELSE cursor

\* A call keeps to the path its claimed length chose, its writer goroutine runs
\* only while the call waits for it, and only the TUS path knows the upload.
Places ==
  /\ pc \in {"attempt", "start", "posting", "join"} => job.claimed <= Limit
  /\ pc \in {"initial", "create", "stream"} => job.claimed > Limit
  /\ writer \in {"reading", "writing", "closing"} => pc \in {"posting", "join"}
  /\ pc \in {"posting", "join"} => writer # "none"
  /\ pc \in {"route", "attempt", "start", "posting", "join", "initial", "create"}
       => remote = NoUpload
  /\ pc \in {"returned", "resumed"} <=> result # "none"
  /\ pc = "join" => answer # "none"
  /\ pc \in {"start", "posting", "join"} => hops < MaxRedirectHops

\* What the writer has taken it has written, but for the unit it holds; a form
\* that was closed properly holds the source as far as it goes, and its failure
\* is known; a writer that ended otherwise has found the pipe broken and says so.
Carried ==
  pc \in {"posting", "join"} =>
    /\ Given \in 0..job.have
    /\ writer = "reading" => Len(body) = Given
    /\ writer = "writing" => unit = Given /\ Len(body) + 1 = Given
    /\ writer \in {"closing", "ended"} /\ pipe # "broken" =>
         /\ Len(body) = job.have
         /\ job.seekable /\ job.fault => werr
    /\ pipe = "eof" => writer = "ended"
    /\ writer = "ended" => pipe = "eof" \/ (pipe = "broken" /\ werr)

\* A source that cannot seek reaches the request only once it was read to an
\* end without failure.
Buffered ==
  /\ ~job.seekable /\ (buf > 0 \/ pc \in {"start", "posting", "join"}) => ~job.fault
  /\ job.seekable => buf = 0

\* The portal stores at most what the last request carried, and a request that
\* was stored is never followed by another.
Stored ==
  /\ pc \notin {"posting", "join", "returned", "resume", "resumed"} => stored = <<>>
  /\ pc \in {"posting", "join"} /\ answer \in {"none", "redirect", "followed"}
       => stored = <<>>
  /\ pc \in {"route", "initial", "create", "stream"} => answer = "none"
  /\ pc \in {"attempt", "start"} => answer # "followed"
  /\ pc \in {"posting", "join"} /\ stored # <<>> => stored = <<body>> /\ pipe = "eof"
  /\ pc \in {"posting", "join"} /\ answer = "ok" => stored # <<>>
  /\ stored = <<>> \/ \E b \in Seq(1..MaxSize) : stored = <<b>>

\* On the TUS path the portal holds what was read from the caller's reader.
Remote ==
  /\ remote \in {NoUpload, Deleted} \/ remote \in Seq(1..MaxSize)
  /\ Reachable => job.start + Len(remote) <= job.have
  /\ pc \in {"stream", "resume"} =>
       /\ remote # NoUpload /\ job.start <= pos /\ pos <= job.have /\ written <= pos
       /\ Reachable => job.start + Len(remote) <= pos
  /\ pc \in {"route", "initial"} => pos = job.start
  /\ pc \in {"route", "initial", "create"} => written = 0
  /\ pc = "create" => pos = job.start + First /\ pos <= job.have
  /\ pc = "stream" => pos = job.start + First + written

\* If the portal takes the whole initial chunk there is no gap.
Gapless ==
  PartialCreate = FALSE =>
    /\ Reachable => remote = Units(job.start, Len(remote))
    /\ pc \in {"stream", "resume"} /\ Reachable => Len(remote) = pos - job.start

Complete ==
  /\ PostWhole
  /\ PartialCreate = FALSE => TusWhole /\ ResumeWhole

IInv == TypeOK /\ FreshBody /\ Places /\ Carried /\ Buffered /\ Stored /\ Remote
        /\ Gapless /\ Complete

-----------------------------------------------------------------------------
(* The type invariant by its parts. *)

CallTypes ==
  /\ job \in Jobs
  /\ pos \in 0..MaxSize
  /\ producer \in {"none", "running", "ended"}
  /\ pc \in {"route", "attempt", "start", "posting", "join", "initial", "create",
            "stream", "returned", "resume", "resumed"}
  /\ result \in {"none", "ok", "failed"}
  /\ size \in 0..2 * MaxSize

PostTypes ==
  /\ buf \in 0..MaxSize /\ cursor \in 0..MaxSize /\ unit \in 0..MaxSize
  /\ hops \in 0..MaxRedirectHops
  /\ writer \in {"none", "reading", "writing", "closing", "ended"}
  /\ werr \in BOOLEAN
  /\ pipe \in {"open", "eof", "broken"}
  /\ body \in Seq(1..MaxSize)
  /\ answer \in {"none", "ok", "redirect", "followed", "error"}
  /\ stored \in Seq(Seq(1..MaxSize))

TusTypes == written \in 0..MaxSize /\ remote \in Seq(-1..MaxSize)

LEMMA Typed == TypeOK <=> CallTypes /\ PostTypes /\ TusTypes
  BY DEF TypeOK, CallTypes, PostTypes, TusTypes

LEMMA TypedNext == TypeOK' <=> CallTypes' /\ PostTypes' /\ TusTypes'
  BY DEF TypeOK, CallTypes, PostTypes, TusTypes

\* The invariant by the path it is about.
Post == PostTypes /\ FreshBody /\ Carried /\ Buffered /\ Stored
Tus == TusTypes /\ Remote /\ Gapless

LEMMA Parts == IInv <=> CallTypes /\ Post /\ Tus /\ Places /\ Complete
  BY Typed DEF IInv, Post, Tus

LEMMA PartsNext == IInv' <=> CallTypes' /\ Post' /\ Tus' /\ Places' /\ Complete'
  BY TypedNext DEF IInv, Post, Tus

LEMMA InitIInv == Init => IInv
<1> SUFFICES ASSUME Init PROVE IInv
  OBVIOUS
<1>1. job \in Jobs /\ pc = "route" /\ result = "none" /\ pos = job.start /\ body = <<>>
      /\ stored = <<>> /\ remote = NoUpload /\ writer = "none" /\ buf = 0
  BY DEF Init
<1>2. CallTypes
  BY <1>1, JobFacts DEF Init, CallTypes
<1>3. PostTypes
  <2>1. MaxSize \in Nat /\ MaxRedirectHops \in Nat
    BY UploadAssumption
  <2>2. werr \in BOOLEAN
    BY DEF Init
  <2> QED BY <2>1, <2>2 DEF Init, PostTypes
<1>4. FreshBody
  BY <1>1 DEF FreshBody
<1>5. Carried /\ Buffered /\ Stored
  BY <1>1 DEF Init, Carried, Buffered, Stored
<1>6. ~Reachable
  BY <1>1 DEF Reachable
<1>7. TusTypes /\ Remote /\ Gapless
  BY <1>1, <1>6, Markers, UploadAssumption DEF Init, TusTypes, Remote, Gapless
<1>8. Places /\ Complete
  BY <1>1 DEF Places, Complete, PostWhole, TusWhole, ResumeWhole
<1> QED BY <1>2, <1>3, <1>4, <1>5, <1>7, <1>8, Parts DEF Post, Tus

-----------------------------------------------------------------------------
(* Each path leaves the other alone. *)

PostPlaces == {"attempt", "start", "posting", "join"}
TusPlaces == {"initial", "create", "stream", "returned", "resume", "resumed"}

LEMMA PostLeavesTus ==
  ASSUME IInv, pc \in PostPlaces, pc' \in PostPlaces \union {"returned"},
         UNCHANGED <<job, remote, written>>
  PROVE  Tus' /\ (PartialCreate = FALSE => TusWhole' /\ ResumeWhole')
<1>1. remote = NoUpload /\ job.claimed <= Limit /\ job.claimed \in Nat /\ Limit \in Nat
  BY Parts, JobFacts DEF Places, PostPlaces, CallTypes
<1>2. remote' = NoUpload /\ ~Reachable'
  BY <1>1 DEF Reachable
<1>3. TusTypes' /\ Remote' /\ Gapless'
  BY <1>2, Parts DEF Tus, TusTypes, Remote, Gapless, PostPlaces
<1>4. TusWhole' /\ ResumeWhole'
  BY <1>1 DEF TusWhole, ResumeWhole, PostPlaces
<1> QED BY <1>3, <1>4 DEF Tus

LEMMA TusLeavesPost ==
  ASSUME IInv, pc \in TusPlaces, pc' \in TusPlaces,
         pc' \in {"initial", "create", "stream"} => pc \in {"initial", "create", "stream"},
         UNCHANGED <<job, buf, hops, writerVars, pipe, body, answer, stored>>
  PROVE  Post'
<1>1. PostTypes /\ FreshBody /\ Stored /\ Buffered
  BY Parts DEF Post
<1>2. PostTypes'
  BY <1>1 DEF PostTypes, writerVars
<1>3. FreshBody'
  BY <1>1 DEF FreshBody
<1>4. Carried' /\ Buffered'
  BY <1>1 DEF Carried, Buffered, TusPlaces
<1>5. Stored'
  BY <1>1 DEF Stored, TusPlaces
<1> QED BY <1>2, <1>3, <1>4, <1>5 DEF Post

-----------------------------------------------------------------------------
(* POST. *)

LEMMA RouteKeeps == ASSUME IInv, Route PROVE IInv'
<1>1. CallTypes /\ Post /\ Tus /\ Places /\ Complete
  BY Parts
<1>2. /\ pc = "route" /\ pc' \in {"attempt", "initial"}
      /\ pc' = "attempt" <=> job.claimed <= Limit
      /\ UNCHANGED <<sourceVars, buf, hops, writerVars, pipe, body, answer, stored, tusVars,
                     result, size>>
  BY DEF Route, To
<1>3. CallTypes'
  BY <1>1, <1>2 DEF CallTypes, sourceVars
<1>4. Post'
  <2>1. PostTypes' /\ FreshBody'
    BY <1>1, <1>2 DEF Post, PostTypes, FreshBody, writerVars
  <2>2. Carried' /\ Buffered' /\ Stored'
    BY <1>1, <1>2 DEF Post, Carried, Buffered, Stored, sourceVars
  <2> QED BY <2>1, <2>2 DEF Post
<1>5. Tus'
  <2>1. remote = NoUpload /\ ~Reachable'
    BY <1>1, <1>2 DEF Places, Reachable, tusVars
  <2> QED BY <1>1, <1>2, <2>1 DEF Tus, TusTypes, Remote, Gapless, tusVars, sourceVars
<1>6. Places'
  <2>1. job.claimed \in Nat /\ Limit \in Nat
    BY <1>1, JobFacts DEF CallTypes
  <2> QED BY <1>1, <1>2, <2>1 DEF Places, sourceVars, writerVars, tusVars
<1>7. Complete'
  BY <1>1, <1>2 DEF Complete, PostWhole, TusWhole, ResumeWhole
<1> QED BY <1>3, <1>4, <1>5, <1>6, <1>7, PartsNext

LEMMA FillKeeps == ASSUME IInv, Fill PROVE IInv'
<1>1. CallTypes /\ Post /\ Tus /\ Places /\ Complete
  BY Parts
<1>2. /\ pc = "attempt" /\ ~job.seekable /\ hops < MaxRedirectHops
      /\ UNCHANGED <<job, producer, hops, writerVars, pipe, body, answer, stored, tusVars>>
  BY DEF Fill
<1>3. job.have \in 0..MaxSize /\ MaxSize \in Nat
  BY <1>1, JobFacts DEF CallTypes
<1>4. \/ pos' = job.have /\ UNCHANGED <<pc, buf, result, size>>
      \/ UNCHANGED pos /\ Fail /\ UNCHANGED buf
      \/ UNCHANGED pos /\ To("start") /\ buf' = job.have /\ ~job.fault
  BY DEF Fill
<1>5. CallTypes' /\ pc' \in {"attempt", "start", "returned"} /\ result' # "ok"
  BY <1>1, <1>2, <1>3, <1>4 DEF CallTypes, Fail, To, Places
<1>6. Post'
  <2>1. PostTypes' /\ FreshBody'
    BY <1>1, <1>2, <1>3, <1>4 DEF Post, PostTypes, FreshBody, writerVars
  <2>2. Carried'
    BY <1>5 DEF Carried
  <2>3. Buffered'
    BY <1>1, <1>2, <1>4 DEF Post, Buffered, Fail, To
  <2>4. Stored'
    BY <1>1, <1>2, <1>5 DEF Post, Stored
  <2> QED BY <2>1, <2>2, <2>3, <2>4 DEF Post
<1>7. Tus' /\ (PartialCreate = FALSE => TusWhole' /\ ResumeWhole')
  BY <1>2, <1>5, PostLeavesTus DEF PostPlaces, tusVars
<1>8. Places'
  BY <1>1, <1>2, <1>4 DEF Places, Fail, To, writerVars, tusVars, CallTypes
<1>9. Complete'
  BY <1>5, <1>7 DEF Complete, PostWhole
<1> QED BY <1>1, <1>5, <1>6, <1>7, <1>8, <1>9, PartsNext

LEMMA StartKeeps == ASSUME IInv, Start PROVE IInv'
<1>1. CallTypes /\ Post /\ Tus /\ Places /\ Complete
  BY Parts
<1>2. /\ pc \in {"attempt", "start"} /\ pc' = "posting"
      /\ pos' = IF job.seekable THEN 0 ELSE pos
      /\ cursor' = 0 /\ writer' = "reading" /\ unit' = 0 /\ werr' = FALSE
      /\ pipe' = "open" /\ body' = <<>> /\ answer' = "none"
      /\ UNCHANGED <<job, producer, buf, hops, stored, tusVars, result, size>>
  BY DEF Start, StartAt, To
<1>3. job.have \in 0..MaxSize /\ MaxSize \in Nat /\ job.seekable \in BOOLEAN
  BY <1>1, JobFacts DEF CallTypes
<1>4. CallTypes'
  BY <1>1, <1>2, <1>3 DEF CallTypes
<1>5. Post'
  <2>1. PostTypes'
    <3>1. buf' \in 0..MaxSize /\ hops' \in 0..MaxRedirectHops /\ stored' \in Seq(Seq(1..MaxSize))
      BY <1>1, <1>2 DEF Post, PostTypes
    <3>2. 0 \in 0..MaxSize
      BY <1>3
    <3>3. cursor' \in 0..MaxSize /\ unit' \in 0..MaxSize
      BY <1>2, <3>2
    <3>4. writer' = "reading" /\ pipe' = "open" /\ answer' = "none" /\ body' \in Seq(1..MaxSize)
      BY <1>2
    <3>5. werr' \in BOOLEAN
      BY <1>2
    <3> QED BY <3>1, <3>3, <3>4, <3>5 DEF PostTypes
  <2>2. FreshBody'
    BY <1>2 DEF FreshBody
  <2>3. Carried'
    <3>1. Given' = 0 /\ Len(body') = 0
      BY <1>2, <1>3 DEF Given
    <3> QED BY <1>2, <1>3, <3>1 DEF Carried
  <2>4. Buffered'
    BY <1>1, <1>2 DEF Post, Buffered, Start, StartAt
  <2>5. Stored'
    BY <1>1, <1>2 DEF Post, Stored
  <2> QED BY <2>1, <2>2, <2>3, <2>4, <2>5 DEF Post
<1>6. Tus' /\ (PartialCreate = FALSE => TusWhole' /\ ResumeWhole')
  BY <1>2, PostLeavesTus DEF PostPlaces, tusVars
<1>7. Places'
  BY <1>1, <1>2 DEF Places, Start, StartAt, tusVars
<1>8. Complete'
  BY <1>2, <1>6 DEF Complete, PostWhole
<1> QED BY <1>4, <1>5, <1>6, <1>7, <1>8, PartsNext

LEMMA TooManyHopsKeeps == ASSUME IInv, TooManyHops PROVE IInv'
<1>1. CallTypes /\ Post /\ Tus /\ Places /\ Complete
  BY Parts
<1>2. /\ pc = "attempt" /\ pc' = "returned" /\ result' = "failed"
      /\ UNCHANGED <<sourceVars, buf, hops, writerVars, pipe, body, answer, stored, tusVars,
                     size>>
  BY DEF TooManyHops, Fail
<1>3. CallTypes'
  BY <1>1, <1>2 DEF CallTypes, sourceVars
<1>4. Post'
  <2>1. PostTypes' /\ FreshBody'
    BY <1>1, <1>2 DEF Post, PostTypes, FreshBody, writerVars
  <2>2. Carried' /\ Buffered' /\ Stored'
    BY <1>1, <1>2 DEF Post, Carried, Buffered, Stored, sourceVars
  <2> QED BY <2>1, <2>2 DEF Post
<1>5. Tus' /\ (PartialCreate = FALSE => TusWhole' /\ ResumeWhole')
  BY <1>2, PostLeavesTus DEF PostPlaces, tusVars, sourceVars
<1>6. Places'
  BY <1>1, <1>2 DEF Places, writerVars, tusVars
<1>7. Complete'
  BY <1>2, <1>5 DEF Complete, PostWhole
<1> QED BY <1>3, <1>4, <1>5, <1>6, <1>7, PartsNext

\* The writer takes the next unit of the source, or finds its end.
LEMMA WriterReadKeeps == ASSUME IInv, WriterRead PROVE IInv'
<1>1. CallTypes /\ Post /\ Tus /\ Places /\ Complete
  BY Parts
<1>2. /\ writer = "reading" /\ pc \in {"posting", "join"}
      /\ UNCHANGED <<job, producer, buf, pc, hops, pipe, body, answer, stored, tusVars,
                     result, size>>
  BY <1>1 DEF WriterRead, Places
<1>3. /\ job.have \in 0..MaxSize /\ MaxSize \in Nat /\ job.seekable \in BOOLEAN
      /\ Given \in 0..job.have /\ Len(body) = Given /\ pipe # "eof"
      /\ pos \in 0..MaxSize /\ cursor \in 0..MaxSize
  BY <1>1, <1>2, JobFacts DEF CallTypes, Post, PostTypes, Carried
<1>4. ASSUME /\ Given < job.have
             /\ unit' = Given + 1 /\ writer' = "writing" /\ UNCHANGED werr
             /\ IF job.seekable THEN pos' = pos + 1 /\ UNCHANGED cursor
                                ELSE cursor' = cursor + 1 /\ UNCHANGED pos
      PROVE  CallTypes' /\ Post' /\ Places'
  <2>1. Given' = Given + 1 /\ Given + 1 \in 0..job.have /\ Given + 1 \in 0..MaxSize
        /\ Len(body) + 1 = Given + 1
    BY <1>2, <1>3, <1>4 DEF Given
  <2>2. pos' \in 0..MaxSize /\ cursor' \in 0..MaxSize /\ unit' \in 0..MaxSize
    BY <1>3, <1>4, <2>1 DEF Given
  <2>3. CallTypes'
    BY <1>1, <1>2, <2>2 DEF CallTypes
  <2>4. PostTypes' /\ FreshBody'
    BY <1>1, <1>2, <1>4, <2>2 DEF Post, PostTypes, FreshBody
  <2>5. Carried'
    BY <1>2, <1>3, <1>4, <2>1 DEF Carried
  <2>6. Buffered' /\ Stored'
    BY <1>1, <1>2 DEF Post, Buffered, Stored
  <2>7. Places'
    BY <1>1, <1>2, <1>4 DEF Places, tusVars
  <2> QED BY <2>3, <2>4, <2>5, <2>6, <2>7 DEF Post
<1>5. ASSUME /\ ~(Given < job.have)
             /\ writer' = "closing" /\ werr' = (job.seekable /\ job.fault)
             /\ UNCHANGED <<pos, cursor, unit>>
      PROVE  CallTypes' /\ Post' /\ Places'
  <2>1. Given' = Given /\ Len(body) = job.have
    BY <1>2, <1>3, <1>5 DEF Given
  <2>2. werr' \in BOOLEAN
    BY <1>5
  <2>3. CallTypes'
    BY <1>1, <1>2, <1>5 DEF CallTypes
  <2>4. PostTypes' /\ FreshBody'
    BY <1>1, <1>2, <1>5, <2>2 DEF Post, PostTypes, FreshBody
  <2>5. Carried'
    BY <1>2, <1>3, <1>5, <2>1 DEF Carried
  <2>6. Buffered' /\ Stored'
    BY <1>1, <1>2 DEF Post, Buffered, Stored
  <2>7. Places'
    BY <1>1, <1>2, <1>5 DEF Places, tusVars
  <2> QED BY <2>3, <2>4, <2>5, <2>6, <2>7 DEF Post
<1>6. CallTypes' /\ Post' /\ Places'
  BY <1>4, <1>5 DEF WriterRead, Given
<1>7. Tus' /\ (PartialCreate = FALSE => TusWhole' /\ ResumeWhole')
  BY <1>2, PostLeavesTus DEF PostPlaces, tusVars
<1>8. Complete'
  BY <1>2, <1>7 DEF Complete, PostWhole
<1> QED BY <1>6, <1>7, <1>8, PartsNext

\* It writes it, or finds the pipe broken; it closes the form and the pipe.
LEMMA WriterWriteKeeps == ASSUME IInv, WriterWrite \/ WriterClose PROVE IInv'
<1>1. CallTypes /\ Post /\ Tus /\ Places /\ Complete
  BY Parts
<1>2. /\ writer \in {"writing", "closing"} /\ pc \in {"posting", "join"}
      /\ UNCHANGED <<sourceVars, buf, pc, hops, cursor, unit, answer, stored, tusVars,
                     result, size>>
  BY <1>1 DEF WriterWrite, WriterClose, Places
<1>3. /\ job.have \in 0..MaxSize /\ MaxSize \in Nat
      /\ Given \in 0..job.have /\ pipe # "eof" /\ stored = <<>>
      /\ body \in Seq(1..MaxSize) /\ FreshBody
  BY <1>1, <1>2, JobFacts DEF CallTypes, Post, PostTypes, Carried, Stored
<1>4. Given' = Given
  BY <1>2 DEF Given, sourceVars
<1>5. CallTypes'
  BY <1>1, <1>2 DEF CallTypes, sourceVars
<1>6. Buffered' /\ Stored'
  BY <1>1, <1>2, <1>3 DEF Post, Buffered, Stored, sourceVars
<1>7. ASSUME /\ writer = "writing" /\ pipe = "open" /\ body' = Append(body, unit)
             /\ writer' = "reading" /\ UNCHANGED <<werr, pipe>>
      PROVE  Post' /\ Places'
  <2>1. unit = Len(body) + 1 /\ unit \in 1..MaxSize /\ unit = Given
    BY <1>1, <1>2, <1>3, <1>7 DEF Post, Carried
  <2>2. Len(body') = Given /\ body' \in Seq(1..MaxSize)
    BY <1>3, <1>7, <2>1
  <2>3. FreshBody'
    BY <1>3, <1>7, <2>1 DEF FreshBody
  <2>4. PostTypes'
    BY <1>1, <1>2, <1>7, <2>2 DEF Post, PostTypes
  <2>5. Carried'
    BY <1>2, <1>3, <1>4, <1>7, <2>2 DEF Carried, sourceVars
  <2>6. Places'
    BY <1>1, <1>2, <1>7 DEF Places, tusVars, sourceVars
  <2> QED BY <1>6, <2>3, <2>4, <2>5, <2>6 DEF Post
<1>8. ASSUME /\ pipe = "broken" /\ werr' = TRUE /\ writer' \in {"closing", "ended"}
             /\ UNCHANGED <<body, pipe>>
      PROVE  Post' /\ Places'
  <2>1. PostTypes' /\ FreshBody'
    BY <1>1, <1>2, <1>8 DEF Post, PostTypes, FreshBody
  <2>2. Carried'
    BY <1>2, <1>3, <1>4, <1>8 DEF Carried, sourceVars
  <2>3. Places'
    BY <1>1, <1>2, <1>8 DEF Places, tusVars, sourceVars
  <2> QED BY <1>6, <2>1, <2>2, <2>3 DEF Post
<1>9. ASSUME /\ writer = "closing" /\ pipe = "open" /\ pipe' = "eof" /\ writer' = "ended"
             /\ UNCHANGED <<body, werr>>
      PROVE  Post' /\ Places'
  <2>1. PostTypes' /\ FreshBody'
    BY <1>1, <1>2, <1>9 DEF Post, PostTypes, FreshBody
  <2>2. Carried'
    BY <1>1, <1>2, <1>3, <1>4, <1>9 DEF Post, Carried, sourceVars
  <2>3. Places'
    BY <1>1, <1>2, <1>9 DEF Places, tusVars, sourceVars
  <2> QED BY <1>6, <2>1, <2>2, <2>3 DEF Post
<1>10. Post' /\ Places'
  BY <1>7, <1>8, <1>9 DEF WriterWrite, WriterClose, CanWrite
<1>11. Tus' /\ (PartialCreate = FALSE => TusWhole' /\ ResumeWhole')
  BY <1>2, PostLeavesTus DEF PostPlaces, tusVars, sourceVars
<1>12. Complete'
  BY <1>2, <1>11 DEF Complete, PostWhole
<1> QED BY <1>5, <1>10, <1>11, <1>12, PartsNext

\* The portal or the network ends the request; what the portal stores is the
\* body of a form that was closed properly.
LEMMA AnswerKeeps == ASSUME IInv, Answer PROVE IInv'
<1>1. CallTypes /\ Post /\ Tus /\ Places /\ Complete
  BY Parts
<1>2. /\ pc = "posting" /\ answer = "none"
      /\ UNCHANGED <<sourceVars, buf, pc, hops, writerVars, pipe, body, tusVars, result, size>>
      /\ stored = <<>> /\ body \in Seq(1..MaxSize)
  BY <1>1 DEF Answer, Post, PostTypes, Stored
<1>3. \/ pipe = "eof" /\ stored' = <<body>> /\ answer' \in {"ok", "error"}
      \/ stored' = <<>> /\ answer' \in {"redirect", "followed", "error"}
  BY <1>2 DEF Answer
<1>4. CallTypes'
  BY <1>1, <1>2 DEF CallTypes, sourceVars
<1>5. Post'
  <2> DEFINE B == Seq(1..MaxSize)
  <2>0. body \in B /\ <<body>> \in Seq(B) /\ <<>> \in Seq(B)
    <3>1. body \in B
      BY <1>2
    <3> HIDE DEF B
    <3> QED BY <3>1
  <2>1. /\ stored' \in Seq(Seq(1..MaxSize))
        /\ answer' \in {"none", "ok", "redirect", "followed", "error"}
    BY <1>3, <2>0
  <2>2. PostTypes' /\ FreshBody'
    BY <1>1, <1>2, <2>1 DEF Post, PostTypes, FreshBody, writerVars
  <2>3. Given' = Given
    BY <1>2 DEF Given, sourceVars, writerVars
  <2>4. Carried' /\ Buffered'
    BY <1>1, <1>2, <2>3 DEF Post, Carried, Buffered, sourceVars, writerVars
  <2>5. Stored'
    <3>1. stored' = <<>> \/ \E b \in Seq(1..MaxSize) : stored' = <<b>>
      BY <1>2, <1>3
    <3>2. /\ answer' \in {"none", "redirect", "followed"} => stored' = <<>>
          /\ answer' = "ok" => stored' = <<body>>
          /\ stored' # <<>> => stored' = <<body'>> /\ pipe' = "eof"
      BY <1>2, <1>3
    <3>3. <<body>> # <<>> /\ pc' = "posting"
      BY <1>2
    <3> QED BY <3>1, <3>2, <3>3, Zenon DEF Stored
  <2> QED BY <2>2, <2>4, <2>5 DEF Post
<1>6. Tus' /\ (PartialCreate = FALSE => TusWhole' /\ ResumeWhole')
  BY <1>2, PostLeavesTus DEF PostPlaces, tusVars, sourceVars
<1>7. Places'
  BY <1>1, <1>2, <1>3 DEF Places, sourceVars, writerVars, tusVars
<1>8. Complete'
  BY <1>2, <1>6 DEF Complete, PostWhole
<1> QED BY <1>4, <1>5, <1>6, <1>7, <1>8, PartsNext

LEMMA PostReturnsKeeps == ASSUME IInv, PostReturns PROVE IInv'
<1>1. CallTypes /\ Post /\ Tus /\ Places /\ Complete
  BY Parts
<1>2. /\ pc = "posting" /\ pc' = "join" /\ answer # "none"
      /\ pipe' = IF answer # "ok" /\ pipe = "open" THEN "broken" ELSE pipe
      /\ UNCHANGED <<sourceVars, buf, hops, writerVars, body, answer, stored, tusVars,
                     result, size>>
  BY DEF PostReturns, PostReturnsTo, To
<1>3. CallTypes'
  BY <1>1, <1>2 DEF CallTypes, sourceVars
<1>4. Post'
  <2>1. PostTypes' /\ FreshBody'
    BY <1>1, <1>2 DEF Post, PostTypes, FreshBody, writerVars
  <2>2. Given' = Given
    BY <1>2 DEF Given, sourceVars, writerVars
  <2>3. Carried' /\ Buffered'
    BY <1>1, <1>2, <2>2 DEF Post, Carried, Buffered, sourceVars, writerVars
  <2>4. Stored'
    BY <1>1, <1>2 DEF Post, Stored
  <2> QED BY <2>1, <2>3, <2>4 DEF Post
<1>5. Tus' /\ (PartialCreate = FALSE => TusWhole' /\ ResumeWhole')
  BY <1>2, PostLeavesTus DEF PostPlaces, tusVars, sourceVars
<1>6. Places'
  BY <1>1, <1>2 DEF Places, sourceVars, writerVars, tusVars
<1>7. Complete'
  BY <1>2, <1>5 DEF Complete, PostWhole
<1> QED BY <1>3, <1>4, <1>5, <1>6, <1>7, PartsNext

\* The call ends well only when the writer's result says so: the one object
\* stored is then the source, whole.
LEMMA JoinKeeps == ASSUME IInv, Join PROVE IInv'
<1>1. CallTypes /\ Post /\ Tus /\ Places /\ Complete
  BY Parts
<1>2. /\ pc = "join" /\ writer = "ended" /\ answer \in {"ok", "redirect", "followed", "error"}
      /\ UNCHANGED <<sourceVars, buf, writerVars, pipe, body, answer, stored, tusVars>>
  BY <1>1 DEF Join, JoinWhen, Places, Post, PostTypes
<1>3. /\ job.have \in 0..MaxSize /\ job.claimed \in 0..MaxSize /\ MaxSize \in Nat
      /\ job.seekable \in BOOLEAN /\ job.fault \in BOOLEAN
      /\ size \in 0..2 * MaxSize
  BY <1>1, JobFacts DEF CallTypes
<1>4. ASSUME answer = "redirect"
      PROVE  /\ pc' = "attempt" /\ hops' = hops + 1 /\ UNCHANGED <<result, size>>
             /\ result' = "none" /\ stored = <<>>
  BY <1>1, <1>2, <1>4 DEF Join, JoinWhen, To, Places, Post, Stored
<1>5. ASSUME answer # "redirect"
      PROVE  /\ pc' = "returned" /\ UNCHANGED hops /\ result' \in {"ok", "failed"}
             /\ size' \in {size, job.claimed} \union 0..MaxSize
             /\ result' = "ok" => answer \in {"ok", "followed"} /\ ~werr
  BY <1>2, <1>5 DEF Join, JoinWhen, Fail, Succeed
<1>6. pc' \in {"attempt", "returned"} /\ hops' \in 0..MaxRedirectHops
  <2>1. hops \in 0..MaxRedirectHops /\ hops < MaxRedirectHops
    BY <1>1, <1>2 DEF Post, PostTypes, Places
  <2>2. hops + 1 \in 0..MaxRedirectHops
    BY <2>1, UploadAssumption
  <2> QED BY <1>4, <1>5, <2>1, <2>2
<1>7. CallTypes'
  BY <1>1, <1>2, <1>3, <1>4, <1>5 DEF CallTypes, sourceVars
<1>8. Post'
  <2>1. PostTypes' /\ FreshBody'
    BY <1>1, <1>2, <1>6 DEF Post, PostTypes, FreshBody, writerVars
  <2>2. Carried' /\ Buffered'
    BY <1>1, <1>2, <1>6 DEF Post, Carried, Buffered, sourceVars
  <2>3. Stored'
    BY <1>1, <1>2, <1>4, <1>5, <1>6 DEF Post, Stored
  <2> QED BY <2>1, <2>2, <2>3 DEF Post
<1>9. Tus' /\ (PartialCreate = FALSE => TusWhole' /\ ResumeWhole')
  BY <1>2, <1>6, PostLeavesTus DEF PostPlaces, tusVars, sourceVars
<1>10. Places'
  BY <1>1, <1>2, <1>4, <1>5 DEF Places, sourceVars, writerVars, tusVars
<1>11. PostWhole'
  <2> SUFFICES ASSUME result' = "ok", pc' = "returned"
               PROVE  /\ body' = Form' /\ ~job'.fault
                      /\ stored' = IF answer' = "followed" THEN <<>> ELSE <<Form'>>
    BY DEF PostWhole
  <2>1. answer \in {"ok", "followed"} /\ ~werr
    BY <1>1, <1>2, <1>4, <1>5 DEF Places
  <2>2. /\ pipe = "eof"
        /\ answer = "ok" => stored = <<body>>
        /\ answer = "followed" => stored = <<>>
    BY <1>1, <1>2, <2>1 DEF Post, Stored, Carried
  <2>3. Len(body) = job.have /\ ~job.fault
    BY <1>1, <1>2, <1>3, <2>1, <2>2 DEF Post, Carried, Buffered
  <2>4. body = Form
    BY <1>1, <1>3, <2>3 DEF Post, FreshBody, Form
  <2>5. Form' = Form
    BY <1>2 DEF Form, sourceVars
  <2> QED BY <1>2, <2>1, <2>2, <2>3, <2>4, <2>5 DEF sourceVars
<1> QED BY <1>7, <1>8, <1>9, <1>10, <1>11, PartsNext DEF Complete

-----------------------------------------------------------------------------
(* TUS, and after the call. *)

postSide == <<job, buf, hops, writerVars, pipe, body, answer, stored>>

\* What every step of the TUS path and after the call has in common: it may not
\* end a POST.
LEMMA TusStep ==
  ASSUME IInv, pc \in TusPlaces, pc' \in TusPlaces,
         pc' \in {"initial", "create", "stream"} => pc \in {"initial", "create", "stream"},
         UNCHANGED postSide,
         \/ result' # "ok"
         \/ pc = "stream" \/ pc = "create"
         \/ pc' # "returned"
         \/ UNCHANGED <<pc, result>>,
         CallTypes', Tus', PartialCreate = FALSE => TusWhole' /\ ResumeWhole',
         pc' \in {"returned", "resumed"} <=> result' # "none",
         pc' = "create" => remote' = NoUpload,
         pc' = "initial" => remote' = NoUpload
  PROVE  IInv'
<1>1. CallTypes /\ Post /\ Tus /\ Places /\ Complete
  BY Parts
<1>2. Post'
  BY TusLeavesPost DEF postSide
<1>3. Places'
  BY <1>1 DEF Places, postSide, writerVars, TusPlaces
<1>4. job.claimed \in Nat /\ Limit \in Nat
  BY <1>1, JobFacts DEF CallTypes
<1>5. PostWhole'
  <2>1. pc \in {"stream", "create"} => PostWhole'
    BY <1>1, <1>4 DEF Places, PostWhole, postSide
  <2>2. UNCHANGED <<pc, result>> => (PostWhole => PostWhole')
    BY DEF PostWhole, postSide, Form
  <2>3. result' # "ok" \/ pc' # "returned" => PostWhole'
    BY DEF PostWhole
  <2> QED BY <1>1, <2>1, <2>2, <2>3 DEF Complete
<1> QED BY <1>2, <1>3, <1>5, PartsNext DEF Complete

LEMMA ReadInitialKeeps == ASSUME IInv, ReadInitial PROVE IInv'
<1>1. CallTypes /\ Post /\ Tus /\ Places /\ Complete
  BY Parts
<1>2. /\ pc = "initial" /\ pos = job.start /\ remote = NoUpload /\ written = 0
      /\ UNCHANGED <<job, producer, buf, hops, writerVars, pipe, body, answer, stored,
                     tusVars>>
      /\ result = "none"
  BY <1>1 DEF ReadInitial, Tus, Remote, Places
<1>3. /\ job.have \in 0..MaxSize /\ MaxSize \in Nat /\ job.start \in Nat /\ First \in Nat
      /\ job.start <= job.have
  BY <1>1, JobFacts DEF CallTypes
<1>4. \/ pos + First <= job.have /\ pos' = pos + First /\ To("create")
      \/ pos' = job.have /\ Fail
  BY DEF ReadInitial
<1>5. pc' \in {"create", "returned"} /\ result' \in {"none", "failed"}
      /\ (pc' \in {"returned", "resumed"} <=> result' # "none") /\ UNCHANGED size
  BY <1>2, <1>4 DEF To, Fail
<1>6. CallTypes'
  <2>1. pos' \in 0..MaxSize
    BY <1>2, <1>3, <1>4
  <2> QED BY <1>1, <1>2, <1>5, <2>1 DEF CallTypes
<1>7. ~Reachable' /\ remote' = NoUpload
  BY <1>2 DEF Reachable, tusVars
<1>8. Tus'
  <2>1. TusTypes'
    BY <1>1, <1>2 DEF Tus, TusTypes, tusVars
  <2>2. pc' = "create" => pos' = job'.start + First' /\ pos' <= job'.have
    BY <1>2, <1>3, <1>4 DEF Fail, First
  <2>3. Remote'
    BY <1>2, <1>5, <1>7, <2>2 DEF Remote, tusVars
  <2>4. Gapless'
    BY <1>5, <1>7 DEF Gapless
  <2> QED BY <2>1, <2>3, <2>4 DEF Tus
<1>9. TusWhole' /\ ResumeWhole'
  BY <1>5 DEF TusWhole, ResumeWhole
<1> QED BY <1>2, <1>5, <1>6, <1>7, <1>8, <1>9, TusStep DEF TusPlaces, postSide

\* The portal may create the upload and take units of the initial chunk even if
\* the call fails.
LEMMA CreateKeeps == ASSUME IInv, Create PROVE IInv'
<1>1. CallTypes /\ Post /\ Tus /\ Places /\ Complete
  BY Parts
<1>2. /\ pc = "create" /\ pos = job.start + First /\ pos <= job.have /\ written = 0
      /\ remote = NoUpload /\ result = "none"
      /\ UNCHANGED <<job, pos, producer, buf, hops, writerVars, pipe, body, answer, stored,
                     written>>
  BY <1>1 DEF Create, Tus, Remote, Places, sourceVars
<1>3. /\ job.have \in 0..MaxSize /\ MaxSize \in Nat /\ job.start \in Nat /\ First \in Nat
      /\ First <= job.claimed /\ job.claimed \in 0..MaxSize
      /\ size \in 0..2 * MaxSize
  BY <1>1, JobFacts DEF CallTypes
<1>4. First' = First
  BY <1>2 DEF First
<1>5. ASSUME UNCHANGED remote, Fail PROVE IInv'
  <2>1. CallTypes'
    BY <1>1, <1>2, <1>5 DEF CallTypes, Fail
  <2>2. ~Reachable' /\ remote' = NoUpload
    BY <1>2, <1>5 DEF Reachable
  <2>3. Tus'
    BY <1>1, <1>2, <1>5, <2>2 DEF Tus, TusTypes, Remote, Gapless, Fail
  <2>4. TusWhole' /\ ResumeWhole'
    BY <1>5 DEF TusWhole, ResumeWhole, Fail
  <2> QED BY <1>2, <1>5, <2>1, <2>2, <2>3, <2>4, TusStep DEF TusPlaces, postSide, Fail
<1>6. ASSUME NEW n \in 0..First, PartialCreate = FALSE => n = First,
             remote' = Data(n),
             Fail \/ (First = job.claimed /\ Succeed(n)) \/ To("stream")
      PROVE  IInv'
  <2>1. n \in Nat /\ job.start + n <= job.have /\ n \in 0..MaxSize
    BY <1>2, <1>3
  <2>2. remote' = Units(job.start, n) /\ remote' \in Seq(Nat \ {0}) /\ Len(remote') = n
    BY <1>3, <1>6, <2>1, DataIsUnits, UnitsLength
  <2>3. remote' \in Seq(1..MaxSize)
    <3>1. job.start + n <= MaxSize
      BY <1>3, <2>1
    <3> QED BY <1>3, <2>1, <2>2, <3>1, UnitsIn
  <2>4. remote' # NoUpload /\ remote' # Deleted /\ Reachable'
    BY <2>2, Markers DEF Reachable, NoUpload, Deleted
  <2>5. pc' \in {"returned", "stream"} /\ size' \in {size, n} \union 0..MaxSize
        /\ result' \in {"none", "ok", "failed"}
        /\ (pc' \in {"returned", "resumed"} <=> result' # "none")
        /\ (result' = "ok" => First = job.claimed /\ (job.car \/ size' = n))
    BY <1>2, <1>6 DEF Fail, Succeed, To
  <2>6. CallTypes'
    <3>1. size' \in 0..2 * MaxSize
      BY <1>3, <2>1, <2>5
    <3> QED BY <1>1, <1>2, <2>5, <3>1 DEF CallTypes
  <2>7. TusTypes'
    <3>1. remote' \in Seq(-1..MaxSize)
      BY <1>3, <2>3
    <3> QED BY <1>1, <1>2, <3>1 DEF Tus, TusTypes
  <2>8. Remote'
    <3>1. job.start + Len(remote') <= pos /\ job.start <= pos
      BY <1>2, <1>3, <2>2
    <3>2. written <= pos /\ pos = job.start + First + written
      BY <1>2, <1>3
    <3> QED BY <1>2, <1>4, <2>1, <2>2, <2>3, <2>4, <2>5, <3>1, <3>2 DEF Remote
  <2>9. Gapless'
    <3> SUFFICES ASSUME PartialCreate = FALSE
                 PROVE  /\ remote' = Units(job'.start, Len(remote'))
                        /\ pc' = "stream" => Len(remote') = pos' - job'.start
      BY <2>5 DEF Gapless
    <3>1. n = First /\ pos - job.start = First
      BY <1>2, <1>3, <1>6
    <3> QED BY <1>2, <2>2, <3>1
  <2>10. PartialCreate = FALSE => TusWhole' /\ ResumeWhole'
    <3> SUFFICES ASSUME PartialCreate = FALSE PROVE TusWhole' /\ ResumeWhole'
      OBVIOUS
    <3>1. result' = "ok" => remote' = Data(job.claimed) /\ (job.car \/ size' = job.claimed)
      BY <1>6, <2>5
    <3>2. Data(job.claimed)' = Data(job.claimed)
      BY <1>2 DEF Data
    <3> QED BY <1>2, <2>5, <3>1, <3>2 DEF TusWhole, ResumeWhole
  <2>11. Tus'
    BY <2>7, <2>8, <2>9 DEF Tus
  <2> QED BY <1>2, <2>5, <2>6, <2>10, <2>11, TusStep DEF TusPlaces, postSide
<1>7. CASE \E n \in IF PartialCreate THEN 0..First ELSE {First} :
             /\ remote' = Data(n)
             /\ Fail \/ (First = job.claimed /\ Succeed(n)) \/ To("stream")
  <2>1. PICK n \in IF PartialCreate THEN 0..First ELSE {First} :
             /\ remote' = Data(n)
             /\ Fail \/ (First = job.claimed /\ Succeed(n)) \/ To("stream")
    BY <1>7
  <2>2. n \in 0..First /\ (PartialCreate = FALSE => n = First)
    BY <1>3, <2>1, UploadAssumption
  <2> QED BY <1>6, <2>1, <2>2
<1>8. (Fail /\ UNCHANGED remote)
      \/ \E n \in IF PartialCreate THEN 0..First ELSE {First} :
             /\ remote' = Data(n)
             /\ Fail \/ (First = job.claimed /\ Succeed(n)) \/ To("stream")
  <2>1. (Fail /\ UNCHANGED remote)
        \/ \E n \in IF PartialCreate THEN 0..First ELSE {First} :
             /\ remote' = Data(n)
             /\ Fail \/ IF First = job.claimed THEN Succeed(n) ELSE To("stream")
    BY DEF Create
  <2> QED BY <2>1
<1> QED BY <1>5, <1>7, <1>8

\* What the portal misses is what was read and not taken, so a unit that is taken
\* follows the one before it; a unit that is not taken ends the call.
LEMMA StreamUnitKeeps == ASSUME IInv, StreamUnit PROVE IInv'
<1>1. CallTypes /\ Post /\ Tus /\ Places /\ Complete
  BY Parts
<1>2. /\ pc \in {"stream", "resume"} /\ pos < job.have /\ pos' = pos + 1
      /\ UNCHANGED <<job, producer, buf, hops, writerVars, pipe, body, answer, stored>>
      /\ result = "none"
  BY <1>1 DEF StreamUnit, StreamUnitThen, Places
<1>3. /\ job.have \in 0..MaxSize /\ MaxSize \in Nat /\ job.start \in Nat /\ First \in Nat
      /\ pos \in 0..MaxSize /\ written \in 0..MaxSize /\ job.start <= pos /\ written <= pos
      /\ remote # NoUpload
      /\ pc = "stream" => pos = job.start + First + written
      /\ remote \in {NoUpload, Deleted} \/ remote \in Seq(1..MaxSize)
      /\ Reachable => job.start + Len(remote) <= pos
  BY <1>1, <1>2, JobFacts DEF CallTypes, Tus, TusTypes, Remote
<1>4. \/ /\ Reachable
         /\ remote' = Append(remote, pos + 1)
         /\ (To(pc) /\ written' = written + 1) \/ (Fail /\ UNCHANGED written)
      \/ Fail /\ UNCHANGED tusVars
  BY DEF StreamUnit, StreamUnitThen
<1>5. /\ pc' \in {pc, "returned"} /\ result' \in {"none", "failed"} /\ UNCHANGED size
      /\ (pc' \in {"returned", "resumed"} <=> result' # "none")
      /\ pc' # "returned" => pc' = pc
  BY <1>2, <1>4 DEF To, Fail
<1>6. pos + 1 \in 1..MaxSize /\ pos + 1 <= job.have /\ written + 1 \in 0..MaxSize
      /\ written + 1 <= pos + 1
  BY <1>2, <1>3
<1>7. CallTypes'
  BY <1>1, <1>2, <1>5, <1>6 DEF CallTypes
<1>8. First' = First
  BY <1>2 DEF First
<1>9. ASSUME Reachable, remote' = Append(remote, pos + 1),
             (To(pc) /\ written' = written + 1) \/ (Fail /\ UNCHANGED written)
      PROVE  Tus'
  <2>1. remote \in Seq(1..MaxSize)
    BY <1>3, <1>9 DEF Reachable
  <2>2. remote' \in Seq(1..MaxSize) /\ Len(remote') = Len(remote) + 1 /\ Len(remote) \in Nat
    BY <1>6, <1>9, <2>1
  <2>3. remote' \in Seq(Nat \ {0}) /\ remote' \in Seq(-1..MaxSize)
    BY <1>3, <2>2
  <2>4. Reachable' /\ remote' # NoUpload
    BY <2>3, Markers DEF Reachable, NoUpload, Deleted
  <2>5. job.start + Len(remote) <= pos /\ job.start + Len(remote) + 1 <= pos + 1
        /\ job.start + Len(remote') <= pos' /\ pos' <= job.have
    <3>1. job.start + Len(remote) <= pos
      BY <1>3, <1>9
    <3>2. job.start + (Len(remote) + 1) <= pos + 1
      BY <1>3, <2>2, <3>1
    <3> QED BY <1>2, <1>3, <1>6, <2>2, <3>1, <3>2
  <2>6. job.start + Len(remote') <= job.have
    BY <1>2, <1>3, <2>2, <2>5
  <2>7. TusTypes'
    BY <1>3, <1>6, <1>9, <2>3 DEF TusTypes
  <2>8. pc' \in {"stream", "resume"} =>
          /\ written' = written + 1
          /\ written' <= pos' /\ job.start <= pos' /\ pos' <= job.have
          /\ pc' = "stream" => pos' = job.start + First + written'
    <3>1. ASSUME pc' \in {"stream", "resume"} PROVE pc' = pc /\ written' = written + 1
      BY <1>2, <1>9, <3>1 DEF Fail, To
    <3>2. job.start <= pos + 1
      BY <1>3
    <3>3. pc = "stream" => pos + 1 = job.start + First + (written + 1)
      BY <1>3
    <3> QED BY <1>2, <1>6, <3>1, <3>2, <3>3
  <2>9. Remote'
    BY <1>2, <1>5, <1>8, <2>2, <2>4, <2>5, <2>6, <2>8 DEF Remote
  <2>10. Gapless'
    <3> SUFFICES ASSUME PartialCreate = FALSE
                 PROVE  /\ remote' = Units(job'.start, Len(remote'))
                        /\ pc' \in {"stream", "resume"} => Len(remote') = pos' - job'.start
      BY DEF Gapless
    <3>1. remote = Units(job.start, Len(remote)) /\ Len(remote) = pos - job.start
      BY <1>1, <1>2, <1>9 DEF Tus, Gapless
    <3>2. pos + 1 = job.start + Len(remote) + 1 /\ Len(remote) + 1 = (pos + 1) - job.start
      BY <1>3, <3>1
    <3>3. Append(remote, job.start + Len(remote) + 1) = Units(job.start, Len(remote) + 1)
      BY <1>3, <2>2, <3>1, UnitsAppend
    <3> QED BY <1>2, <1>9, <2>2, <3>2, <3>3
  <2> QED BY <2>7, <2>9, <2>10 DEF Tus
<1>10. ASSUME Fail, UNCHANGED tusVars PROVE Tus'
  <2>1. remote' = remote /\ written' = written /\ pc' = "returned"
    BY <1>10 DEF Fail, tusVars
  <2>2. Reachable' <=> Reachable
    BY <2>1 DEF Reachable
  <2> QED BY <1>1, <1>2, <2>1, <2>2 DEF Tus, TusTypes, Remote, Gapless
<1>11. Tus'
  BY <1>4, <1>9, <1>10
<1>12. TusWhole' /\ ResumeWhole'
  BY <1>2, <1>5 DEF TusWhole, ResumeWhole
<1> QED BY <1>2, <1>5, <1>7, <1>11, <1>12, TusStep DEF TusPlaces, postSide

\* The source ended: as long as the caller said, the portal has it.
LEMMA StreamEndKeeps == ASSUME IInv, StreamEnd PROVE IInv'
<1>1. CallTypes /\ Post /\ Tus /\ Places /\ Complete
  BY Parts
<1>2. /\ pc = "stream" /\ pos = job.have
      /\ UNCHANGED <<sourceVars, buf, hops, writerVars, pipe, body, answer, stored, tusVars>>
  BY DEF StreamEnd, StreamEndIf, AtEnd
<1>3. /\ job.have \in 0..MaxSize /\ MaxSize \in Nat /\ job.start \in Nat /\ First \in Nat
      /\ pos \in 0..MaxSize /\ written \in Nat /\ size \in 0..2 * MaxSize
      /\ pos = job.start + First + written /\ remote # NoUpload
      /\ job.claimed \in 0..MaxSize
  BY <1>1, <1>2, JobFacts DEF CallTypes, Tus, TusTypes, Remote
<1>4. /\ pc' = "returned" /\ result' \in {"ok", "failed"}
      /\ size' \in {size, First + written} \union 0..MaxSize
      /\ result' = "ok" => First + written = job.claimed /\ (job.car \/ size' = job.claimed)
  BY DEF StreamEnd, StreamEndIf, Fail, Succeed
<1>5. CallTypes'
  <2>1. First + written \in 0..MaxSize
    BY <1>3
  <2> QED BY <1>1, <1>2, <1>3, <1>4, <2>1 DEF CallTypes, sourceVars
<1>6. Tus'
  <2>1. remote' = remote /\ written' = written
    BY <1>2 DEF tusVars
  <2>2. Reachable' <=> Reachable
    BY <2>1 DEF Reachable
  <2> QED BY <1>1, <1>2, <1>4, <2>1, <2>2 DEF Tus, TusTypes, Remote, Gapless, sourceVars
<1>7. ASSUME PartialCreate = FALSE PROVE TusWhole' /\ ResumeWhole'
  <2> SUFFICES ASSUME result' = "ok", remote # Deleted
               PROVE  remote = Data(job.claimed) /\ (job.car \/ size' = job.claimed)
    <3>1. Data(job.claimed)' = Data(job.claimed)
      BY <1>2 DEF Data, sourceVars
    <3> QED BY <1>2, <1>4, <3>1 DEF TusWhole, ResumeWhole, sourceVars, tusVars
  <2>1. Reachable
    BY <1>3 DEF Reachable
  <2>2. remote = Units(job.start, Len(remote)) /\ Len(remote) = pos - job.start
    BY <1>1, <1>2, <1>7, <2>1 DEF Tus, Gapless
  <2>3. pos - job.start = job.claimed
    BY <1>3, <1>4
  <2> QED BY <1>4, <2>2, <2>3, DataIsUnits
<1> QED BY <1>2, <1>4, <1>5, <1>6, <1>7, TusStep DEF TusPlaces, postSide, sourceVars, tusVars

LEMMA ResumeKeeps == ASSUME IInv, Resume PROVE IInv'
<1>1. CallTypes /\ Post /\ Tus /\ Places /\ Complete
  BY Parts
<1>2. /\ pc = "returned" /\ Reachable /\ pc' = "resume" /\ result' = "none"
      /\ pos' = job.start + Len(remote) /\ written' = 0
      /\ UNCHANGED <<job, producer, buf, hops, writerVars, pipe, body, answer, stored, remote,
                     size>>
  BY DEF Resume
<1>3. /\ job.have \in 0..MaxSize /\ MaxSize \in Nat /\ job.start \in Nat
      /\ job.start + Len(remote) <= job.have /\ Len(remote) \in Nat /\ remote # NoUpload
      /\ remote \in Seq(1..MaxSize)
  BY <1>1, <1>2, JobFacts DEF CallTypes, Tus, Remote, Reachable
<1>4. job.start + Len(remote) \in 0..MaxSize /\ job.start <= job.start + Len(remote)
      /\ 0 <= job.start + Len(remote) /\ 0 \in 0..MaxSize
      /\ Len(remote) = (job.start + Len(remote)) - job.start
  BY <1>3
<1>5. CallTypes'
  BY <1>1, <1>2, <1>4 DEF CallTypes
<1>6. Tus'
  <2>1. Reachable'
    BY <1>2 DEF Reachable
  <2>2. TusTypes'
    BY <1>1, <1>2, <1>4 DEF Tus, TusTypes
  <2>3. Remote'
    BY <1>2, <1>3, <1>4, <2>1 DEF Remote
  <2>4. Gapless'
    BY <1>1, <1>2, <1>4, <2>1 DEF Tus, Gapless
  <2> QED BY <2>2, <2>3, <2>4 DEF Tus
<1>7. TusWhole' /\ ResumeWhole'
  BY <1>2 DEF TusWhole, ResumeWhole
<1> QED BY <1>2, <1>5, <1>6, <1>7, TusStep DEF TusPlaces, postSide

LEMMA ResumeEndKeeps == ASSUME IInv, ResumeEnd PROVE IInv'
<1>1. CallTypes /\ Post /\ Tus /\ Places /\ Complete
  BY Parts
<1>2. /\ pc = "resume" /\ pos = job.have
      /\ UNCHANGED <<sourceVars, buf, hops, writerVars, pipe, body, answer, stored, tusVars>>
      /\ \/ pc' = "returned" /\ result' = "failed" /\ UNCHANGED size
         \/ pc' = "resumed" /\ result' = "ok" /\ size' = (pos - job.start) + written
  BY DEF ResumeEnd, AtEnd, Fail
<1>3. /\ job.have \in 0..MaxSize /\ MaxSize \in Nat /\ job.start \in Nat
      /\ job.start <= job.have /\ remote # NoUpload /\ written \in 0..MaxSize
  BY <1>1, <1>2, JobFacts DEF CallTypes, Tus, TusTypes, Remote
<1>4. (job.have - job.start) + written \in 0..2 * MaxSize
  BY <1>3
<1>5. CallTypes'
  BY <1>1, <1>2, <1>4 DEF CallTypes, sourceVars
<1>6. Tus'
  <2>1. remote' = remote /\ written' = written
    BY <1>2 DEF tusVars
  <2>2. Reachable' <=> Reachable
    BY <2>1 DEF Reachable
  <2> QED BY <1>1, <1>2, <2>1, <2>2 DEF Tus, TusTypes, Remote, Gapless, sourceVars
<1>7. ASSUME PartialCreate = FALSE PROVE TusWhole' /\ ResumeWhole'
  <2>1. TusWhole'
    BY <1>2 DEF TusWhole
  <2>2. ASSUME pc' = "resumed", remote # Deleted PROVE remote = Whole
    <3>1. Reachable
      BY <1>3, <2>2 DEF Reachable
    <3>2. remote = Units(job.start, Len(remote)) /\ Len(remote) = job.have - job.start
      BY <1>1, <1>2, <1>7, <3>1 DEF Tus, Gapless
    <3>3. Whole = Units(job.start, job.have - job.start)
      BY DataIsUnits DEF Whole
    <3> QED BY <1>2, <2>2, <3>2, <3>3
  <2>3. Whole' = Whole /\ remote' = remote
    BY <1>2 DEF Whole, Data, sourceVars, tusVars
  <2> QED BY <2>1, <2>2, <2>3 DEF ResumeWhole
<1> QED BY <1>2, <1>5, <1>6, <1>7, TusStep DEF TusPlaces, postSide, sourceVars

LEMMA CancelUploadKeeps == ASSUME IInv, CancelUpload PROVE IInv'
<1>1. CallTypes /\ Post /\ Tus /\ Places /\ Complete
  BY Parts
<1>2. /\ Reachable /\ remote' = Deleted
      /\ UNCHANGED <<sourceVars, buf, pc, hops, writerVars, pipe, body, answer, stored, written,
                     result, size>>
  BY DEF CancelUpload
<1>3. pc \in {"stream", "returned", "resume", "resumed"} /\ ~Reachable' /\ remote' # NoUpload
  BY <1>1, <1>2, Markers DEF CallTypes, Places, Reachable
<1>4. CallTypes'
  BY <1>1, <1>2 DEF CallTypes, sourceVars
<1>5. Tus'
  <2>1. First' = First
    BY <1>2 DEF First, sourceVars
  <2> QED BY <1>1, <1>2, <1>3, <2>1, Markers DEF Tus, TusTypes, Remote, Gapless, sourceVars
<1>6. TusWhole' /\ ResumeWhole'
  BY <1>2 DEF TusWhole, ResumeWhole, Deleted
<1>7. pc' \in {"returned", "resumed"} <=> result' # "none"
  BY <1>1, <1>2 DEF Places
<1> QED BY <1>2, <1>3, <1>4, <1>5, <1>6, <1>7, TusStep DEF TusPlaces, postSide, sourceVars

LEMMA ProducedKeeps ==
  ASSUME IInv, Produced \/ UNCHANGED vars
  PROVE  IInv'
<1>1. CallTypes /\ Post /\ Tus /\ Places /\ Complete
  BY Parts
<1>2. /\ producer' \in {"none", "running", "ended"}
      /\ UNCHANGED <<job, pos, buf, pc, hops, writerVars, pipe, body, answer, stored,
                     tusVars, result, size>>
  BY <1>1 DEF Produced, vars, sourceVars, CallTypes
<1>3. CallTypes'
  BY <1>1, <1>2 DEF CallTypes
<1>4. Post'
  <2>1. PostTypes' /\ FreshBody'
    BY <1>1, <1>2 DEF Post, PostTypes, FreshBody, writerVars
  <2>2. Given' = Given
    BY <1>2 DEF Given, writerVars
  <2>3. Carried' /\ Buffered' /\ Stored'
    BY <1>1, <1>2, <2>2 DEF Post, Carried, Buffered, Stored, writerVars
  <2> QED BY <2>1, <2>3 DEF Post
<1>5. Tus'
  <2>1. remote' = remote /\ written' = written
    BY <1>2 DEF tusVars
  <2>2. (Reachable' <=> Reachable) /\ First' = First
    BY <1>2, <2>1 DEF Reachable, First
  <2> QED BY <1>1, <1>2, <2>1, <2>2 DEF Tus, TusTypes, Remote, Gapless
<1>6. Places'
  BY <1>1, <1>2 DEF Places, writerVars, tusVars
<1>7. Complete'
  <2>1. Whole' = Whole /\ Form' = Form /\ Data(job.claimed)' = Data(job.claimed)
    BY <1>2 DEF Whole, Form, Data
  <2> QED BY <1>1, <1>2, <2>1 DEF Complete, PostWhole, TusWhole, ResumeWhole, tusVars
<1> QED BY <1>3, <1>4, <1>5, <1>6, <1>7, PartsNext

LEMMA StepIInv == IInv /\ [Next]_vars => IInv'
<1> SUFFICES ASSUME IInv, [Next]_vars PROVE IInv'
  OBVIOUS
<1>1. CASE CallStep
  BY <1>1, RouteKeeps, FillKeeps, StartKeeps, TooManyHopsKeeps, PostReturnsKeeps, JoinKeeps,
     ReadInitialKeeps, CreateKeeps, StreamUnitKeeps, StreamEndKeeps, ResumeEndKeeps
     DEF CallStep
<1>2. CASE WriterStep
  BY <1>2, WriterReadKeeps, WriterWriteKeeps DEF WriterStep
<1>3. CASE Produced \/ UNCHANGED vars
  BY <1>3, ProducedKeeps
<1>4. CASE Answer \/ Resume \/ CancelUpload
  BY <1>4, AnswerKeeps, ResumeKeeps, CancelUploadKeeps
<1> QED BY <1>1, <1>2, <1>3, <1>4 DEF Next

-----------------------------------------------------------------------------
(* The theorems. *)

\* The inductive invariant holds of every upload.
THEOREM Invariance == Spec => []IInv
<1>1. Init => IInv
  BY InitIInv
<1>2. IInv /\ [Next]_vars => IInv'
  BY StepIInv
<1> QED BY <1>1, <1>2, PTL DEF Spec

\* Every variable of an upload keeps its type: nothing is counted past the source
\* or past MaxRedirectHops.
THEOREM UploadTypes == Spec => []TypeOK
<1>1. IInv => TypeOK
  BY DEF IInv
<1> QED BY <1>1, Invariance, PTL

\* Every request of the POST path carries the source from its beginning, in order,
\* whatever the requests before it consumed of the shared reader.
THEOREM BodyFresh == Spec => []FreshBody
<1>1. IInv => FreshBody
  BY DEF IInv
<1> QED BY <1>1, Invariance, PTL

\* A call returns only when its writer goroutine has ended: the reader is the
\* caller's again.
THEOREM ReaderFree == Spec => []ReaderReleased
<1>1. IInv => ReaderReleased
  BY DEF IInv, TypeOK, Places, ReaderReleased
<1> QED BY <1>1, Invariance, PTL

\* One call stores at most one object, redirects and lost answers included.
THEOREM StoresOnce == Spec => []StoredOnce
<1>1. IInv => StoredOnce
  <2> SUFFICES ASSUME IInv PROVE Len(stored) <= 1
    BY DEF StoredOnce
  <2>1. CASE stored = <<>>
    BY <2>1
  <2>2. ASSUME NEW b, stored = <<b>> PROVE Len(stored) <= 1
    <3>1. Len(stored) = 1
      BY <2>2
    <3> QED BY <3>1
  <2> QED BY <2>1, <2>2 DEF IInv, Stored
<1> QED BY <1>1, Invariance, PTL

\* A POST that reports success has sent the whole source, which did not fail, and
\* the portal has stored it, unless net/http followed a redirect with a GET.
THEOREM PostComplete == Spec => []PostWhole
<1>1. IInv => PostWhole
  BY DEF IInv, Complete
<1> QED BY <1>1, Invariance, PTL

\* If the portal takes the whole initial chunk, a TUS upload that reports success
\* is on the portal with the length the caller declared.
THEOREM TusComplete ==
  ASSUME PartialCreate = FALSE
  PROVE  Spec => []TusWhole
<1>1. IInv => TusWhole
  BY DEF IInv, Complete
<1> QED BY <1>1, Invariance, PTL

\* If it does, a resumed upload has no gap and no unit twice on the portal, however
\* often it was interrupted.
THEOREM ResumeComplete ==
  ASSUME PartialCreate = FALSE
  PROVE  Spec => []ResumeWhole
<1>1. IInv => ResumeWhole
  BY DEF IInv, Complete
<1> QED BY <1>1, Invariance, PTL

-----------------------------------------------------------------------------
(* The refinement of UploadStore. *)

LEMMA SourceUnits ==
  /\ \A n : Storing!Units(n) = Data(n)
  /\ Storing!Everything = Whole
  /\ Storing!Form = Form
  /\ Storing!Reachable <=> Reachable
  BY DEF Storing!Units, Storing!Everything, Storing!Form, Storing!Reachable, Data, Whole,
         Form, Reachable

LEMMA StatusOf ==
  /\ pc = "returned" => Status = result
  /\ pc = "resume" => Status = "resuming"
  /\ pc = "resumed" => Status = "resumed"
  /\ pc \notin {"returned", "resume", "resumed"} => Status = "sending"
  BY DEF Status

LEMMA StatusNext ==
  /\ pc' = "returned" => Status' = result'
  /\ pc' = "resume" => Status' = "resuming"
  /\ pc' = "resumed" => Status' = "resumed"
  /\ pc' \notin {"returned", "resume", "resumed"} => Status' = "sending"
  BY DEF Status

Sending == {"route", "attempt", "start", "posting", "join", "initial", "create", "stream"}

\* A step of the call that leaves the portal alone, goes on or fails.
LEMMA QuietSend ==
  ASSUME pc \in Sending, UNCHANGED <<job, stored, remote>>, Astray' = Astray,
         pc' \in Sending \/ (pc' = "returned" /\ result' = "failed")
  PROVE  Storing!Send
<1>1. Status = "sending" /\ Status' \in {"sending", "failed"}
  BY StatusOf, StatusNext DEF Sending
<1> QED BY <1>1 DEF Storing!Send, Storing!Idle

\* A step of the call, or of its writer goroutine, of which nothing is seen.
LEMMA Hidden ==
  ASSUME pc \in Sending, pc' \in Sending, UNCHANGED <<job, stored, remote, answer>>
  PROVE  UNCHANGED Storing!vars
<1>1. Status = "sending" /\ Status' = "sending"
  BY StatusOf, StatusNext DEF Sending
<1> QED BY <1>1 DEF Storing!vars, Astray

\* The steps of the POST path before its end, and the last failures.
LEMMA PostStepsImplement ==
  ASSUME IInv, Route \/ Fill \/ Start \/ TooManyHops \/ PostReturns \/ ReadInitial
  PROVE  Storing!Send
<1>1. pc \in Sending /\ UNCHANGED <<job, stored, remote>>
  BY DEF Route, Fill, Start, StartAt, TooManyHops, PostReturns, PostReturnsTo, ReadInitial,
         Sending, sourceVars, tusVars
<1>2. pc' \in Sending \/ (pc' = "returned" /\ result' = "failed")
  BY DEF Route, Fill, Start, StartAt, TooManyHops, PostReturns, PostReturnsTo, ReadInitial,
         To, Fail, Sending
<1>3. Astray' = Astray
  <2>1. CASE Start
    <3>1. answer # "followed" /\ answer' = "none"
      BY <2>1 DEF Start, StartAt, IInv, Stored
    <3> QED BY <3>1 DEF Astray
  <2>2. Route \/ Fill \/ TooManyHops \/ PostReturns \/ ReadInitial => UNCHANGED answer
    BY DEF Route, Fill, TooManyHops, PostReturns, PostReturnsTo, ReadInitial
  <2> QED BY <2>1, <2>2 DEF Astray
<1> QED BY <1>1, <1>2, <1>3, QuietSend

LEMMA WriterHidden ==
  ASSUME IInv, WriterStep
  PROVE  UNCHANGED Storing!vars
<1>1. UNCHANGED <<job, stored, remote, pc, answer>>
  BY DEF WriterStep, WriterRead, WriterWrite, WriterClose, sourceVars, tusVars
<1>2. writer \in {"reading", "writing", "closing"}
  BY DEF WriterStep, WriterRead, WriterWrite, WriterClose
<1>3. pc \in Sending
  BY <1>2 DEF IInv, Places, Sending
<1> QED BY <1>1, <1>3, Hidden

LEMMA ProducedHidden ==
  ASSUME Produced
  PROVE  UNCHANGED Storing!vars
  BY DEF Produced, Storing!vars, Status, Astray, tusVars

\* The form is stored whole: the writer ended it properly, with all of the source.
\* Or it goes astray.
LEMMA AnswerImplements ==
  ASSUME IInv, Answer
  PROVE  Storing!Send
<1>1. CallTypes /\ Post /\ Tus /\ Places
  BY Parts
<1>2. /\ pc = "posting" /\ answer = "none" /\ remote = NoUpload /\ stored = <<>>
      /\ UNCHANGED <<job, pc, remote>>
  BY <1>1 DEF Answer, Places, Post, Stored, sourceVars, tusVars
<1>3. Status = "sending" /\ Status' = "sending" /\ Storing!Untouched
  BY <1>2, StatusOf, StatusNext DEF Storing!Untouched, Astray
<1>4. CASE UNCHANGED stored /\ answer' # "followed"
  BY <1>2, <1>4, QuietSend DEF Sending, Astray
<1>5. CASE UNCHANGED stored /\ answer' = "followed"
  <2>1. Storing!Stray
    BY <1>2, <1>3, <1>5 DEF Storing!Stray, Astray
  <2> QED BY <1>2, <1>3, <2>1 DEF Storing!Send
<1>6. CASE pipe = "eof" /\ stored' = Append(stored, body) /\ answer' # "followed"
  <2>1. job.have \in Nat /\ writer = "ended"
    BY <1>1, <1>2, <1>6, JobFacts DEF CallTypes, Post, Carried
  <2>2. Len(body) = job.have
    BY <1>1, <1>2, <1>6, <2>1 DEF Post, Carried
  <2>3. body = Form
    BY <1>1, <2>1, <2>2 DEF Post, FreshBody, Form
  <2>4. stored' = <<Storing!Form>>
    BY <1>2, <1>6, <2>3, SourceUnits
  <2>5. Storing!Store
    BY <1>2, <1>3, <1>6, <2>4 DEF Storing!Store, Astray
  <2> QED BY <1>2, <1>3, <2>5 DEF Storing!Send
<1> QED BY <1>4, <1>5, <1>6 DEF Answer

\* Success of a POST is PostWhole of the state it ends in.
LEMMA JoinImplements ==
  ASSUME IInv, IInv', Join
  PROVE  Storing!Send
<1>1. /\ pc = "join" /\ job.claimed <= Limit
      /\ UNCHANGED <<job, stored, remote, answer>> /\ Astray' = Astray
  BY DEF Join, JoinWhen, IInv, Places, Astray, sourceVars, tusVars
<1>2. \/ pc' = "attempt"
      \/ pc' = "returned" /\ result' \in {"failed", "ok"}
  BY DEF Join, JoinWhen, Fail, Succeed, To
<1>3. CASE pc' = "attempt" \/ result' = "failed"
  BY <1>1, <1>2, <1>3, QuietSend DEF Sending
<1>4. CASE pc' = "returned" /\ result' = "ok"
  <2>1. PostWhole'
    BY DEF IInv, Complete
  <2>2. (stored' = <<Form'>> \/ Astray') /\ ~job'.fault
    BY <1>1, <1>4, <2>1 DEF PostWhole, Astray
  <2>3. Storing!Form' = Form'
    BY DEF Storing!Form, Form
  <2>4. Storing!Kept'
    BY <2>2, <2>3 DEF Storing!Kept
  <2>5. Status = "sending" /\ Status' = "ok"
    BY <1>1, <1>4, StatusOf, StatusNext
  <2> QED BY <1>1, <2>4, <2>5 DEF Storing!Send, Storing!Idle
<1> QED BY <1>2, <1>3, <1>4

\* Success of a TUS upload is TusWhole.
LEMMA TusKept ==
  ASSUME PartialCreate = FALSE, IInv', pc' = "returned", result' = "ok",
         job'.claimed > Limit, stored' = <<>>
  PROVE  Storing!Kept'
<1>1. TusWhole'
  BY DEF IInv, Complete
<1>2. remote' # Deleted => remote' = Data(job.claimed)'
  BY <1>1 DEF TusWhole
<1>3. Storing!Units(job.claimed)' = Data(job.claimed)'
  BY DEF Storing!Units, Data
<1> QED BY <1>2, <1>3 DEF Storing!Kept

LEMMA CreateImplements ==
  ASSUME PartialCreate = FALSE, IInv, IInv', Create
  PROVE  Storing!Send
<1>1. CallTypes /\ Post /\ Tus /\ Places
  BY Parts
<1>2. /\ pc = "create" /\ job.claimed > Limit /\ remote = NoUpload /\ stored = <<>>
      /\ UNCHANGED <<job, stored, answer>> /\ ~Astray /\ Astray' = Astray
      /\ First \in Nat /\ First <= job.claimed /\ job.claimed \in Nat
  BY <1>1, JobFacts DEF Create, Places, Post, Stored, CallTypes, Astray, sourceVars
<1>3. CASE Fail /\ UNCHANGED remote
  BY <1>2, <1>3, QuietSend DEF Sending, Fail
<1>4. CASE remote' = Data(First) /\ (Fail \/ IF First = job.claimed THEN Succeed(First)
                                                                    ELSE To("stream"))
  <2>1. remote' = Storing!Units(First) /\ First \in 0..job.claimed
    BY <1>2, <1>4, SourceUnits
  <2>2. Storing!Create
    BY <1>2, <2>1 DEF Storing!Create, Storing!Untouched
  <2>3. pc' = "stream" \/ (pc' = "returned" /\ result' \in {"failed", "ok"})
    <3>1. Fail \/ Succeed(First) \/ To("stream")
      BY <1>4, Zenon
    <3> QED BY <3>1 DEF Fail, Succeed, To
  <2>4. pc' = "returned" /\ result' = "ok" => Storing!Kept'
    BY <1>2, TusKept
  <2>5. Status = "sending"
        /\ (Status' \in {"sending", "failed"} \/ (Status' = "ok" /\ Storing!Kept'))
    BY <1>2, <2>3, <2>4, StatusOf, StatusNext
  <2> QED BY <1>2, <2>2, <2>5 DEF Storing!Send
<1> QED BY <1>3, <1>4 DEF Create

\* A unit the portal takes is the one that follows those it has.
LEMMA StreamUnitImplements ==
  ASSUME PartialCreate = FALSE, IInv, StreamUnit
  PROVE  Storing!Send \/ Storing!SendMore
<1>1. CallTypes /\ Post /\ Tus /\ Places
  BY Parts
<1>2. /\ pc \in {"stream", "resume"} /\ UNCHANGED <<job, stored>> /\ Astray' = Astray
      /\ pc = "stream" => stored = <<>>
  BY <1>1 DEF StreamUnit, StreamUnitThen, Post, Stored, Astray
<1>3. \/ /\ Reachable /\ Len(remote) < job.claimed
         /\ remote' = Append(remote, pos + 1)
         /\ To(pc) \/ Fail
      \/ Fail /\ UNCHANGED remote
  BY DEF StreamUnit, StreamUnitThen, tusVars
<1>4. pc' = pc \/ (pc' = "returned" /\ result' = "failed")
  BY <1>3 DEF To, Fail
<1>5. Storing!Extend \/ Storing!Idle
  <2>1. CASE UNCHANGED remote
    BY <1>2, <2>1 DEF Storing!Idle
  <2>2. CASE /\ Reachable /\ Len(remote) < job.claimed
             /\ remote' = Append(remote, pos + 1)
    <3> DEFINE n == Len(remote)
    <3>1. remote = Units(job.start, n) /\ n = pos - job.start
      BY <1>1, <1>2, <2>2 DEF Tus, Gapless
    <3>2. job.start \in Nat /\ pos \in Nat /\ job.claimed \in Nat /\ n \in Nat
      BY <1>1, <2>2, JobFacts DEF CallTypes, Tus, Remote, Reachable
    <3>3. pos + 1 = job.start + n + 1
      BY <3>1, <3>2
    <3>4. Append(Units(job.start, n), job.start + n + 1) = Units(job.start, n + 1)
      BY <3>2, UnitsAppend
    <3>5. remote' = Storing!Units(n + 1)
      <4>1. remote' = Units(job.start, n + 1)
        BY <2>2, <3>1, <3>3, <3>4
      <4> QED BY <4>1, DataIsUnits, SourceUnits
    <3>6. n + 1 \in (Len(remote) + 1)..job.claimed
      BY <2>2, <3>2
    <3> QED BY <1>2, <2>2, <3>5, <3>6, SourceUnits DEF Storing!Extend
  <2> QED BY <1>3, <2>1, <2>2
<1>6. CASE pc = "stream"
  <2>1. Status = "sending" /\ Status' \in {"sending", "failed"}
    BY <1>4, <1>6, StatusOf, StatusNext
  <2> QED BY <1>2, <1>5, <2>1 DEF Storing!Send
<1>7. CASE pc = "resume"
  <2>1. Status = "resuming" /\ Status' \in {"resuming", "failed"}
    BY <1>4, <1>7, StatusOf, StatusNext
  <2> QED BY <1>2, <1>5, <2>1 DEF Storing!SendMore
<1> QED BY <1>2, <1>6, <1>7

LEMMA StreamEndImplements ==
  ASSUME PartialCreate = FALSE, IInv, IInv', StreamEnd
  PROVE  Storing!Send
<1>1. /\ pc = "stream" /\ job.claimed > Limit /\ stored = <<>>
      /\ UNCHANGED <<job, stored, remote>> /\ Astray' = Astray
      /\ pc' = "returned" /\ result' \in {"failed", "ok"}
  BY DEF StreamEnd, StreamEndIf, Fail, Succeed, IInv, Places, Stored, Astray, sourceVars,
         tusVars
<1>2. result' = "ok" => Storing!Kept'
  BY <1>1, TusKept
<1>3. Status = "sending" /\ (Status' = "failed" \/ (Status' = "ok" /\ Storing!Kept'))
  BY <1>1, <1>2, StatusOf, StatusNext
<1> QED BY <1>1, <1>3 DEF Storing!Send, Storing!Idle

LEMMA ResumeImplements ==
  ASSUME Resume
  PROVE  Storing!Resume
<1>1. /\ pc = "returned" /\ result = "failed" /\ Reachable /\ pc' = "resume"
      /\ UNCHANGED <<job, stored, remote>> /\ Astray' = Astray
  BY DEF Resume, Astray
<1>2. Status = "failed" /\ Status' = "resuming"
  BY <1>1, StatusOf, StatusNext
<1> QED BY <1>1, <1>2, SourceUnits DEF Storing!Resume

\* Success of a resumption is ResumeWhole.
LEMMA ResumeEndImplements ==
  ASSUME PartialCreate = FALSE, IInv', ResumeEnd
  PROVE  Storing!SendMore
<1>1. /\ pc = "resume" /\ UNCHANGED <<job, stored, remote>> /\ Astray' = Astray
      /\ \/ pc' = "returned" /\ result' = "failed"
         \/ pc' = "resumed" /\ ~job.fault
  BY DEF ResumeEnd, Fail, Astray, sourceVars, tusVars
<1>2. pc' = "resumed" => Storing!Resumed'
  <2>1. ResumeWhole'
    BY DEF IInv, Complete
  <2>2. Storing!Everything' = Whole'
    BY DEF Storing!Everything, Storing!Units, Whole, Data
  <2> QED BY <1>1, <2>1, <2>2 DEF ResumeWhole, Storing!Resumed
<1>3. Status = "resuming"
      /\ (Status' = "failed" \/ (Status' = "resumed" /\ Storing!Resumed'))
  BY <1>1, <1>2, StatusOf, StatusNext
<1> QED BY <1>1, <1>3 DEF Storing!SendMore, Storing!Idle

LEMMA CancelImplements ==
  ASSUME CancelUpload
  PROVE  Storing!Cancel
<1>1. Status' = Status /\ Astray' = Astray
  BY DEF CancelUpload, Status, Astray
<1> QED BY <1>1, SourceUnits DEF CancelUpload, Storing!Cancel, sourceVars

LEMMA StepImplements ==
  ASSUME PartialCreate = FALSE, IInv, IInv', [Next]_vars
  PROVE  [Storing!Next]_(Storing!vars)
<1>1. CASE CallStep
  BY <1>1, PostStepsImplement, JoinImplements, CreateImplements, StreamUnitImplements,
     StreamEndImplements, ResumeEndImplements DEF CallStep, Storing!Next
<1>2. CASE WriterStep \/ Produced
  BY <1>2, WriterHidden, ProducedHidden
<1>3. CASE Answer
  BY <1>3, AnswerImplements DEF Storing!Next
<1>4. CASE Resume \/ CancelUpload
  BY <1>4, ResumeImplements, CancelImplements DEF Storing!Next
<1>5. CASE UNCHANGED vars
  BY <1>5 DEF vars, Storing!vars, Status, Astray, sourceVars, tusVars
<1> QED BY <1>1, <1>2, <1>3, <1>4, <1>5 DEF Next

\* An upload implements UploadStore, wherever the caller's reader stands, if the
\* portal takes the whole initial chunk.
THEOREM ImplementsStoring ==
  ASSUME PartialCreate = FALSE
  PROVE  Spec => StoringSpec
<1>1. Init => Storing!Init
  BY DEF Init, Storing!Init, Status, Astray
<1>2. IInv /\ IInv' /\ [Next]_vars => [Storing!Next]_(Storing!vars)
  BY StepImplements
<1> QED BY <1>1, <1>2, Invariance, PTL DEF Spec, StoringSpec, Storing!Spec

-----------------------------------------------------------------------------
(* A call returns: it and its goroutine take finitely many steps, and the   *)
(* one place where they wait for each other is no deadlock.                 *)

\* While the call waits for its writer, a writer that is at the pipe finds it
\* broken, although nobody reads from it any more.
WriterFreed == pc = "join" /\ writer \in {"writing", "closing"} => pipe = "broken"

Stage == CASE pc = "route"                 -> 9
           [] pc = "attempt"               -> 8
           [] pc = "start"                 -> 7
           [] pc = "posting"               -> 6
           [] pc = "join"                  -> 5
           [] pc = "initial"               -> 4
           [] pc = "create"                -> 3
           [] pc = "stream"                -> 2
           [] pc = "resume"                -> 1
           [] pc \in {"returned", "resumed"} -> 0

WriterTurn == CASE writer = "writing" -> 3
                [] writer = "reading" -> 2
                [] writer = "closing" -> 1
                [] writer \in {"none", "ended"} -> 0

Unread(p) == IF p < job.have THEN job.have - p ELSE 0
SourceLeft == Unread(pos)
BufferLeft == Unread(cursor)

AnswerDue   == IF answer = "none" THEN 1 ELSE 0
ProducerDue == IF producer = "running" THEN 1 ELSE 0
CancelDue   == IF Reachable THEN 1 ELSE 0

\* What may still happen before the call changes its place: units to read and
\* to write, the answer, the end of the CAR's producer, a cancellation.
Left == 2 * (SourceLeft + BufferLeft) + WriterTurn + AnswerDue + ProducerDue + CancelDue

Rank == <<MaxRedirectHops - hops, Stage, Left>>

\* Every step, whoever takes it, lowers the rank; only the caller who resumes a
\* failed upload begins anew.
RankFalls == [][Resume \/ Below(Rank', Rank, 3)]_vars


LEMMA UnreadNat ==
  ASSUME job \in Jobs, NEW p \in Nat
  PROVE  Unread(p) \in Nat
<1>1. job.have \in Nat
  BY JobFacts
<1> QED BY <1>1 DEF Unread

LEMMA LeftNumbers ==
  TypeOK => /\ SourceLeft \in Nat /\ BufferLeft \in Nat /\ WriterTurn \in 0..3
            /\ AnswerDue \in {0, 1} /\ ProducerDue \in {0, 1} /\ CancelDue \in {0, 1}
<1> SUFFICES ASSUME TypeOK
             PROVE  /\ SourceLeft \in Nat /\ BufferLeft \in Nat /\ WriterTurn \in 0..3
                    /\ AnswerDue \in {0, 1} /\ ProducerDue \in {0, 1} /\ CancelDue \in {0, 1}
  OBVIOUS
<1>1. job \in Jobs /\ pos \in Nat /\ cursor \in Nat
  BY DEF TypeOK
<1>2. SourceLeft \in Nat /\ BufferLeft \in Nat
  BY <1>1, UnreadNat DEF SourceLeft, BufferLeft
<1>3. WriterTurn \in 0..3
  BY DEF TypeOK, WriterTurn
<1>4. AnswerDue \in {0, 1} /\ ProducerDue \in {0, 1} /\ CancelDue \in {0, 1}
  BY DEF AnswerDue, ProducerDue, CancelDue
<1> QED BY <1>2, <1>3, <1>4

LEMMA LeftNumbersNext ==
  (TypeOK => /\ SourceLeft \in Nat /\ BufferLeft \in Nat /\ WriterTurn \in 0..3
             /\ AnswerDue \in {0, 1} /\ ProducerDue \in {0, 1} /\ CancelDue \in {0, 1})'
  BY LeftNumbers, PTL

LEMMA RankTuple ==
  ASSUME TypeOK
  PROVE  Rank \in [1..3 -> Nat]
<1>1. Left \in Nat
  BY LeftNumbers DEF Left
<1>2. Stage \in Nat
  BY DEF TypeOK, Stage
<1>3. MaxRedirectHops - hops \in Nat
  BY UploadAssumption DEF TypeOK
<1> DEFINE r == MaxRedirectHops - hops
<1> HIDE DEF r
<1>4. <<r, Stage, Left>> \in [1..3 -> Nat]
  BY <1>1, <1>2, <1>3 DEF r
<1> QED BY <1>4 DEF Rank, r

\* The call goes on to a later place.
LEMMA StageFalls ==
  ASSUME hops' = hops, Stage' < Stage
  PROVE  Below(Rank', Rank, 3)
BY BelowOfThree DEF Rank

\* It stays, and less is left.
LEMMA LeftFalls ==
  ASSUME hops' = hops, pc' = pc, Left' < Left
  PROVE  Below(Rank', Rank, 3)
<1>1. Stage' = Stage
  BY DEF Stage
<1> QED BY <1>1, BelowOfThree DEF Rank

\* Less is left when units were read, when the writer went on, or when one of
\* the other events has come.
LEMMA LessLeft ==
  ASSUME TypeOK, TypeOK', UNCHANGED <<hops, pc>>,
         SourceLeft' = SourceLeft \/ SourceLeft' < SourceLeft,
         BufferLeft' = BufferLeft \/ BufferLeft' < BufferLeft,
         AnswerDue' = AnswerDue \/ AnswerDue' < AnswerDue,
         ProducerDue' = ProducerDue \/ ProducerDue' < ProducerDue,
         CancelDue' = CancelDue \/ CancelDue' < CancelDue,
         \/ /\ SourceLeft' < SourceLeft \/ BufferLeft' < BufferLeft
            /\ WriterTurn' = WriterTurn \/ (WriterTurn = 2 /\ WriterTurn' = 3)
         \/ WriterTurn' < WriterTurn
         \/ /\ WriterTurn' = WriterTurn
            /\ \/ AnswerDue' < AnswerDue
               \/ ProducerDue' < ProducerDue
               \/ CancelDue' < CancelDue
  PROVE  Below(Rank', Rank, 3)
<1>1. PICK a \in Nat, b \in Nat, t \in Nat, e \in Nat, f \in Nat, g \in Nat :
        /\ a = SourceLeft /\ b = BufferLeft /\ t = WriterTurn
        /\ e = AnswerDue /\ f = ProducerDue /\ g = CancelDue
  BY LeftNumbers
<1>2. PICK a2 \in Nat, b2 \in Nat, t2 \in Nat, e2 \in Nat, f2 \in Nat, g2 \in Nat :
        /\ a2 = SourceLeft' /\ b2 = BufferLeft' /\ t2 = WriterTurn'
        /\ e2 = AnswerDue' /\ f2 = ProducerDue' /\ g2 = CancelDue'
  BY LeftNumbersNext
<1>3. Left = 2 * (a + b) + t + e + f + g
  BY <1>1 DEF Left
<1>4. Left' = 2 * (a2 + b2) + t2 + e2 + f2 + g2
  BY <1>2 DEF Left
<1>5. /\ a2 <= a /\ b2 <= b /\ e2 <= e /\ f2 <= f /\ g2 <= g
      /\ \/ (a2 < a \/ b2 < b) /\ t2 <= t + 1
         \/ t2 < t
         \/ t2 = t /\ (e2 < e \/ f2 < f \/ g2 < g)
  BY <1>1, <1>2
<1>6. Left' < Left
  BY <1>3, <1>4, <1>5
<1> QED BY <1>6, LeftFalls

LEMMA PlacesFall ==
  ASSUME TypeOK, Route \/ Start \/ TooManyHops \/ PostReturns \/ ReadInitial \/ Create
                 \/ StreamEnd \/ ResumeEnd
  PROVE  Below(Rank', Rank, 3)
<1>1. hops' = hops
  BY DEF Route, Start, StartAt, TooManyHops, PostReturns, PostReturnsTo, ReadInitial,
         Create, StreamEnd, StreamEndIf, ResumeEnd
<1>2. Stage' < Stage
  <2>1. CASE Route
    BY <2>1 DEF Route, To, Stage
  <2>2. CASE Start
    BY <2>2 DEF Start, StartAt, To, Stage
  <2>3. CASE TooManyHops
    BY <2>3 DEF TooManyHops, Fail, Stage
  <2>4. CASE PostReturns
    BY <2>4 DEF PostReturns, PostReturnsTo, To, Stage
  <2>5. CASE ReadInitial
    BY <2>5 DEF ReadInitial, To, Fail, Stage
  <2>6. CASE Create
    BY <2>6 DEF Create, To, Fail, Succeed, Stage
  <2>7. CASE StreamEnd
    BY <2>7 DEF StreamEnd, StreamEndIf, Fail, Succeed, Stage
  <2>8. CASE ResumeEnd
    BY <2>8 DEF ResumeEnd, Fail, Stage
  <2> QED BY <2>1, <2>2, <2>3, <2>4, <2>5, <2>6, <2>7, <2>8
<1> QED BY <1>1, <1>2, StageFalls

\* A redirect is followed while hops are left.
LEMMA JoinFalls ==
  ASSUME IInv, Join
  PROVE  Below(Rank', Rank, 3)
<1>1. pc = "join" /\ hops < MaxRedirectHops /\ hops \in Nat /\ MaxRedirectHops \in Nat
  BY UploadAssumption DEF IInv, TypeOK, Places, Join, JoinWhen
<1>2. CASE hops' = hops + 1
  <2>1. MaxRedirectHops - hops' < MaxRedirectHops - hops
    BY <1>1, <1>2
  <2> QED BY <2>1, BelowOfThree DEF Rank
<1>3. CASE hops' = hops /\ pc' = "returned"
  BY <1>1, <1>3, StageFalls DEF Stage
<1> QED BY <1>2, <1>3 DEF Join, JoinWhen, Fail, Succeed

\* Nothing read, or something.
LEMMA SameUnread ==
  ASSUME job' = job
  PROVE  /\ pos' = pos => SourceLeft' = SourceLeft
         /\ cursor' = cursor => BufferLeft' = BufferLeft
BY DEF SourceLeft, BufferLeft, Unread

LEMMA LessUnread ==
  ASSUME TypeOK, TypeOK', job' = job
  PROVE  /\ pos < job.have /\ pos < pos' => SourceLeft' < SourceLeft
         /\ cursor < job.have /\ cursor < cursor' => BufferLeft' < BufferLeft
<1>1. job \in Jobs /\ pos \in Nat /\ cursor \in Nat /\ pos' \in Nat /\ cursor' \in Nat
  BY DEF TypeOK
<1>2. job.have \in Nat
  BY <1>1, JobFacts
<1> QED BY <1>1, <1>2 DEF SourceLeft, BufferLeft, Unread

LEMMA FillFalls ==
  ASSUME TypeOK, TypeOK', Fill
  PROVE  Below(Rank', Rank, 3)
<1>1. /\ hops' = hops /\ pc = "attempt"
      /\ UNCHANGED <<job, cursor, writer, answer, producer, remote>>
  BY DEF Fill, writerVars, tusVars
<1>2. CASE pos < job.have /\ pos' = job.have /\ UNCHANGED pc
  <2>1. job \in Jobs /\ pos \in Nat /\ pos' \in Nat
    BY DEF TypeOK
  <2>2. SourceLeft' < SourceLeft /\ BufferLeft' = BufferLeft
    BY <1>1, <1>2, <2>1, LessUnread, SameUnread
  <2>3. WriterTurn' = WriterTurn /\ AnswerDue' = AnswerDue /\ ProducerDue' = ProducerDue
        /\ CancelDue' = CancelDue
    BY <1>1 DEF WriterTurn, AnswerDue, ProducerDue, CancelDue, Reachable
  <2> QED BY <1>1, <1>2, <2>2, <2>3, LessLeft
<1>3. CASE pc' \in {"start", "returned"}
  BY <1>1, <1>3, StageFalls DEF Stage
<1> QED BY <1>2, <1>3 DEF Fill, Fail, To

LEMMA WriterFalls ==
  ASSUME TypeOK, TypeOK', WriterStep
  PROVE  Below(Rank', Rank, 3)
<1>1. UNCHANGED <<hops, pc, job, answer, producer, remote>>
  BY DEF WriterStep, WriterRead, WriterWrite, WriterClose, sourceVars, tusVars
<1>2. AnswerDue' = AnswerDue
      /\ ProducerDue' = ProducerDue
      /\ CancelDue' = CancelDue
  BY <1>1 DEF AnswerDue, ProducerDue, CancelDue, Reachable
<1>3. CASE WriterRead /\ writer' = "writing"
  <2>1. pos \in Nat /\ cursor \in Nat /\ WriterTurn = 2 /\ WriterTurn' = 3
    BY <1>3 DEF TypeOK, WriterRead, WriterTurn
  <2>2. \/ pos < job.have /\ pos' = pos + 1 /\ cursor' = cursor
        \/ cursor < job.have /\ cursor' = cursor + 1 /\ pos' = pos
    BY <1>3 DEF WriterRead
  <2>3. CASE pos < job.have /\ pos' = pos + 1 /\ cursor' = cursor
    <3>1. SourceLeft' < SourceLeft /\ BufferLeft' = BufferLeft
      BY <1>1, <2>1, <2>3, LessUnread, SameUnread
    <3> QED BY <1>1, <1>2, <2>1, <3>1, LessLeft
  <2>4. CASE cursor < job.have /\ cursor' = cursor + 1 /\ pos' = pos
    <3>1. BufferLeft' < BufferLeft /\ SourceLeft' = SourceLeft
      BY <1>1, <2>1, <2>4, LessUnread, SameUnread
    <3> QED BY <1>1, <1>2, <2>1, <3>1, LessLeft
  <2> QED BY <2>2, <2>3, <2>4
<1>4. CASE UNCHANGED <<pos, cursor>> /\ WriterTurn' < WriterTurn
  <2>1. SourceLeft' = SourceLeft /\ BufferLeft' = BufferLeft
    BY <1>1, <1>4, SameUnread
  <2> QED BY <1>1, <1>2, <1>4, <2>1, LessLeft
<1>5. WriterRead /\ writer' # "writing" => UNCHANGED <<pos, cursor>> /\ WriterTurn' < WriterTurn
  BY DEF WriterRead, WriterTurn
<1>6. WriterWrite \/ WriterClose => UNCHANGED <<pos, cursor>> /\ WriterTurn' < WriterTurn
  BY DEF WriterWrite, WriterClose, WriterTurn, sourceVars
<1> QED BY <1>3, <1>4, <1>5, <1>6 DEF WriterStep

LEMMA StreamUnitFalls ==
  ASSUME TypeOK, TypeOK', StreamUnit
  PROVE  Below(Rank', Rank, 3)
<1>1. /\ pos < job.have /\ pos' = pos + 1 /\ pc \in {"stream", "resume"}
      /\ UNCHANGED <<hops, job, cursor, writer, answer, producer>>
  BY DEF StreamUnit, StreamUnitThen, writerVars
<1>2. CASE pc' = pc /\ Reachable
  <2>1. SourceLeft' < SourceLeft /\ BufferLeft' = BufferLeft
    <3>1. pos \in Nat
      BY DEF TypeOK
    <3> QED BY <1>1, <3>1, LessUnread, SameUnread
  <2>2. /\ WriterTurn' = WriterTurn /\ AnswerDue' = AnswerDue /\ ProducerDue' = ProducerDue
        /\ CancelDue' = CancelDue \/ CancelDue' < CancelDue
    BY <1>1, <1>2 DEF WriterTurn, AnswerDue, ProducerDue, CancelDue
  <2> QED BY <1>1, <1>2, <2>1, <2>2, LessLeft
<1>3. CASE pc' = "returned"
  BY <1>1, <1>3, StageFalls DEF Stage
<1> QED BY <1>2, <1>3 DEF StreamUnit, StreamUnitThen, Fail, To

\* The answer, the end of the producer and a cancellation come once.
LEMMA EventFalls ==
  ASSUME TypeOK, TypeOK', Answer \/ Produced \/ CancelUpload
  PROVE  Below(Rank', Rank, 3)
<1>1. UNCHANGED <<hops, pc, job, pos, cursor, writer>>
  BY DEF Answer, Produced, CancelUpload, sourceVars, writerVars
<1>2. SourceLeft' = SourceLeft /\ BufferLeft' = BufferLeft
      /\ WriterTurn' = WriterTurn
  BY <1>1, SameUnread DEF WriterTurn
<1>3. CASE Answer
  <2>1. AnswerDue' < AnswerDue /\ UNCHANGED <<producer, remote>>
    BY <1>3 DEF Answer, AnswerDue, sourceVars, tusVars
  <2>2. ProducerDue' = ProducerDue
        /\ CancelDue' = CancelDue
    BY <2>1 DEF AnswerDue, ProducerDue, CancelDue, Reachable
  <2> QED BY <1>1, <1>2, <2>1, <2>2, LessLeft
<1>4. CASE Produced
  <2>1. ProducerDue' < ProducerDue /\ UNCHANGED <<answer, remote>>
    BY <1>4 DEF Produced, ProducerDue, tusVars
  <2>2. AnswerDue' = AnswerDue /\ CancelDue' = CancelDue
    BY <2>1 DEF AnswerDue, ProducerDue, CancelDue, Reachable
  <2> QED BY <1>1, <1>2, <2>1, <2>2, LessLeft
<1>5. CASE CancelUpload
  <2>1. CancelDue' < CancelDue /\ UNCHANGED <<answer, producer>>
    BY <1>5 DEF CancelUpload, CancelDue, Reachable, sourceVars
  <2>2. AnswerDue' = AnswerDue
        /\ ProducerDue' = ProducerDue
    BY <2>1 DEF AnswerDue, ProducerDue
  <2> QED BY <1>1, <1>2, <2>1, <2>2, LessLeft
<1> QED BY <1>3, <1>4, <1>5

\* An upload, its goroutines and what the portal does to it, end after finitely
\* many steps (postUploadWithRedirects with its redirects, tusUpload): together
\* with RanksEnd and NoDeadlock this is what Returns needs besides the fairness
\* of FairSpec.
THEOREM UploadsEnd == Spec => [](Rank \in [1..3 -> Nat]) /\ RankFalls
<1>1. IInv /\ IInv' /\ [Next]_vars => [Resume \/ Below(Rank', Rank, 3)]_vars
  <2> SUFFICES ASSUME IInv, IInv', Next PROVE Resume \/ Below(Rank', Rank, 3)
    OBVIOUS
  <2>1. TypeOK /\ TypeOK'
    BY DEF IInv
  <2>2. CASE CallStep
    BY <2>1, <2>2, PlacesFall, FillFalls, JoinFalls, StreamUnitFalls DEF CallStep
  <2> QED BY <2>1, <2>2, WriterFalls, EventFalls DEF Next
<1>2. IInv => Rank \in [1..3 -> Nat]
  BY RankTuple DEF IInv
<1> QED BY <1>1, <1>2, Invariance, PTL DEF Spec, RankFalls

\* The pipe of a call that waits for its writer is no longer open.
LEMMA NotOpen ==
  ASSUME IInv, [Next]_vars, pc = "join" => pipe # "open"
  PROVE  (pc = "join" => pipe # "open")'
<1> SUFFICES ASSUME pc' = "join" PROVE pipe' # "open"
  OBVIOUS
<1>1. CASE PostReturns
  <2>1. /\ pc = "posting" /\ answer # "none"
        /\ pipe' = IF answer # "ok" /\ pipe = "open" THEN "broken" ELSE pipe
    BY <1>1 DEF PostReturns, PostReturnsTo
  <2>2. answer = "ok" => pipe = "eof"
    BY <2>1 DEF IInv, Stored
  <2> QED BY <2>1, <2>2
<1>2. CASE WriterStep
  BY <1>2 DEF WriterStep, WriterRead, WriterWrite, WriterClose
<1>3. CASE CallStep /\ ~PostReturns
  BY <1>3 DEF CallStep, Route, Fill, Start, StartAt, TooManyHops, Join, JoinWhen, ReadInitial,
              Create, StreamUnit, StreamUnitThen, StreamEnd, StreamEndIf, ResumeEnd,
              To, Fail, Succeed
<1>4. CASE Produced \/ Answer \/ Resume \/ CancelUpload \/ UNCHANGED vars
  BY <1>4 DEF Produced, Answer, Resume, CancelUpload, vars
<1> QED BY <1>1, <1>2, <1>3, <1>4 DEF Next

\* The call does not wait for a writer that waits for the call (the receive
\* from resultChan after postUpload, upload.go:618): an error has broken the
\* pipe, and a success was answered to a form that is at its end.
THEOREM NoDeadlock == Spec => []WriterFreed
<1>1. Init => (pc = "join" => pipe # "open")
  BY DEF Init
<1>2. IInv /\ [Next]_vars /\ (pc = "join" => pipe # "open") => (pc = "join" => pipe # "open")'
  BY NotOpen
<1>3. IInv /\ (pc = "join" => pipe # "open") => WriterFreed
  BY DEF IInv, TypeOK, Carried, WriterFreed
<1> QED BY <1>1, <1>2, <1>3, Invariance, PTL DEF Spec


=============================================================================
