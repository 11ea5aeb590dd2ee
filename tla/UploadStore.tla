------------------------------ MODULE UploadStore ------------------------------
(***************************************************************************)
(* What one upload, and its resumptions, may do to the portal and say of it *)
(* to the caller, whatever goroutines, pipes, redirects and lost answers    *)
(* are underneath.  A form stores the whole source in one step, once, or    *)
(* nothing.  A TUS upload grows by what comes next in the source.  Success  *)
(* is reported of a whole source only, and once the call has returned the   *)
(* portal is left alone.  One thing is not promised: a form may go astray,  *)
(* its request turned into another by a redirect, and then nothing is       *)
(* stored and the call may still report success.                            *)
(*                                                                         *)
(* Units are their positions in the source.                                 *)
(***************************************************************************)
EXTENDS Integers, Sequences

CONSTANTS Sources,    \* records: start, have, claimed, fault
          NoUpload,   \* no TUS upload was created
          Deleted     \* it was cancelled

VARIABLES source,     \* where the caller's reader stands, how far it goes,
                      \* how long the caller says it is, does it fail at its end
          stored,     \* the objects stored from forms
          remote,     \* the TUS upload
          astray,     \* a redirect has turned the form's request into another
          status      \* what the call is doing or has returned

vars == <<source, stored, remote, astray, status>>

\* The first n units of what the caller's reader has to give.
Units(n) == [i \in 1..n |-> source.start + i]
Everything == Units(source.have - source.start)

\* A form is the source from its first unit.
Form == [i \in 1..source.have |-> i]
Reachable == remote # NoUpload /\ remote # Deleted

Init == /\ source \in Sources
        /\ stored = <<>> /\ remote = NoUpload /\ ~astray
        /\ status = "sending"

\* What a request of the call does to the portal.
Untouched == stored = <<>> /\ remote = NoUpload /\ ~astray

Store == /\ Untouched
         /\ stored' = <<Form>>
         /\ UNCHANGED <<remote, astray>>

Stray == /\ Untouched
         /\ astray' = TRUE
         /\ UNCHANGED <<stored, remote>>

Create == /\ Untouched
          /\ \E n \in 0..source.claimed : remote' = Units(n)
          /\ UNCHANGED <<stored, astray>>

Extend == /\ Reachable
          /\ \E n \in (Len(remote) + 1)..source.claimed : remote' = Units(n)
          /\ UNCHANGED <<stored, astray>>

Idle == UNCHANGED <<stored, remote, astray>>

\* When the call may report success: a form by a source that did not fail, stored
\* or astray; a TUS upload that is as long as declared, or that somebody has
\* cancelled.
Kept == \/ (stored = <<Form>> \/ astray) /\ ~source.fault
        \/ stored = <<>> /\ remote \in {Deleted, Units(source.claimed)}

\* A resumption knows no length but that of the reader it is given.
Resumed == ~source.fault /\ remote \in {Deleted, Everything}

Send == /\ status = "sending"
        /\ Store \/ Stray \/ Create \/ Extend \/ Idle
        /\ \/ status' \in {"sending", "failed"}
           \/ status' = "ok" /\ Kept'
        /\ UNCHANGED source

Resume == /\ status = "failed" /\ Reachable
          /\ status' = "resuming"
          /\ UNCHANGED <<source, stored, remote, astray>>

SendMore == /\ status = "resuming"
            /\ Extend \/ Idle
            /\ \/ status' \in {"resuming", "failed"}
               \/ status' = "resumed" /\ Resumed'
            /\ UNCHANGED source

\* Anyone who knows the location cancels the TUS upload, at any time.
Cancel == /\ Reachable
          /\ remote' = Deleted
          /\ UNCHANGED <<source, stored, astray, status>>

Next == Send \/ Resume \/ SendMore \/ Cancel

Spec == Init /\ [][Next]_vars

==============================================================================
