---------------------------- MODULE EventDelivery ----------------------------
(***************************************************************************)
(* What the website event stream promises its application, whatever the    *)
(* connection underneath does: the routed events of the portal's durable   *)
(* log are handed over one at a time, in log order, none skipped and none  *)
(* repeated after the cursor the application started from; and once a call *)
(* of Stop has returned nothing is handed over any more.                   *)
(*                                                                         *)
(* Events are their positions in the portal's log.  Position 0 stands for  *)
(* the empty Last-Event-ID: an application without a cursor may start      *)
(* anywhere in the log.                                                    *)
(***************************************************************************)
EXTENDS Naturals

CONSTANTS MaxEvents,   \* length of the portal's log (a bound of the model)
          Routed       \* the positions whose event type has a handler

VARIABLES published,   \* how much of the log exists
          last,        \* last event handed over, or the initial cursor
          closed       \* some call of Stop has returned

vars == <<published, last, closed>>

\* The routed events the application has not been given yet.
Pending == {e \in Routed : last < e /\ e <= published}

Init == /\ published \in 0..MaxEvents
        /\ last \in 0..published
        /\ closed = FALSE

Publish == /\ published < MaxEvents
           /\ published' = published + 1
           /\ UNCHANGED <<last, closed>>

Deliver == /\ ~closed
           /\ \E e \in Pending :
                /\ last # 0 => \A f \in Pending : e <= f
                /\ last' = e
           /\ UNCHANGED <<published, closed>>

Close == /\ ~closed
         /\ closed' = TRUE
         /\ UNCHANGED <<published, last>>

Next == Publish \/ Deliver \/ Close

Spec == Init /\ [][Next]_vars

==============================================================================
