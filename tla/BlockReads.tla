------------------------------ MODULE BlockReads ------------------------------
(***************************************************************************)
(* What reads of the rate-limited blockstore are to their callers: each one *)
(* a loop of its own, as if it made its requests itself, one after the      *)
(* other.  No worker, no queue and no request that was given up can be seen *)
(* in it: the block returned is the one of the last request, and only the   *)
(* end of its own context stops a read early.                              *)
(***************************************************************************)
EXTENDS Integers

CONSTANTS Callers,    \* reads, one per caller
          Attempts    \* misses after which a read is given up

VARIABLES state,      \* per read: where it is
          misses,     \* per read: failures since it was last told to slow down
          cancelled,  \* reads whose context has ended
          outcome,    \* per read: what it returned
          got         \* per read: the block it returned

vars == <<state, misses, cancelled, outcome, got>>

Init == /\ state = [c \in Callers |-> "idle"]
        /\ misses = [c \in Callers |-> 0]
        /\ cancelled = {}
        /\ outcome = [c \in Callers |-> "none"]
        /\ got = [c \in Callers |-> "zero"]

Move(c, from, to) == state[c] \in from /\ state' = [state EXCEPT ![c] = to]
Report(c, o) == outcome' = [outcome EXCEPT ![c] = o]

Begin(c) == /\ Move(c, {"idle"}, "between")
            /\ UNCHANGED <<misses, cancelled, outcome, got>>

\* Answered without a request.
Shortcut(c) == /\ Move(c, {"idle"}, "returned")
               /\ Report(c, "meta")
               /\ UNCHANGED <<misses, cancelled, got>>

\* A request is permitted and made.
Request(c) == /\ Move(c, {"between"}, "fetching")
              /\ UNCHANGED <<misses, cancelled, outcome, got>>

\* No permission, or no block.
Miss(c) == /\ misses[c] + 1 < Attempts
           /\ Move(c, {"between", "fetching"}, "between")
           /\ misses' = [misses EXCEPT ![c] = @ + 1]
           /\ UNCHANGED <<cancelled, outcome, got>>

LastMiss(c) == /\ misses[c] + 1 = Attempts
               /\ Move(c, {"between", "fetching"}, "returned")
               /\ Report(c, "failed")
               /\ misses' = [misses EXCEPT ![c] = @ + 1]
               /\ UNCHANGED <<cancelled, got>>

\* The portal says to slow down, which makes up for earlier misses.
SlowDown(c) == /\ Move(c, {"fetching"}, "between")
               /\ misses' = [misses EXCEPT ![c] = 0]
               /\ UNCHANGED <<cancelled, outcome, got>>

Receive(c) == /\ Move(c, {"fetching"}, "returned")
              /\ Report(c, "ok")
              /\ got' = [got EXCEPT ![c] = "block"]
              /\ UNCHANGED <<misses, cancelled>>

Abort(c) == /\ c \in cancelled
            /\ Move(c, {"idle", "between"}, "returned")
            /\ Report(c, "cancelled")
            /\ UNCHANGED <<misses, cancelled, got>>

Cancel(c) == /\ cancelled' = cancelled \union {c}
             /\ UNCHANGED <<state, misses, outcome, got>>

Next == \E c \in Callers :
          \/ Begin(c) \/ Shortcut(c) \/ Request(c) \/ Miss(c) \/ LastMiss(c)
          \/ SlowDown(c) \/ Receive(c) \/ Abort(c) \/ Cancel(c)

Spec == Init /\ [][Next]_vars

===============================================================================
