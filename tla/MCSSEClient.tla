------------------------------ MODULE MCSSEClient ------------------------------
(* Values of SSEClient's constants for TLC. *)
EXTENDS SSEClient, TLC

\* Position 2 has a type without a handler; 1 and 3 are routed.
RoutedEvents == {1, 3}

\* Limited retries with reconnection on and off.
SafetyOptions ==
  {[reconnect |-> TRUE,  maxRetries |-> 2, poll |-> FALSE],
   [reconnect |-> FALSE, maxRetries |-> 1, poll |-> TRUE]}

\* Limited and unlimited retries, reconnection on and off, telemetry on.
LiveOptions ==
  {[reconnect |-> TRUE,  maxRetries |-> 0, poll |-> FALSE],
   [reconnect |-> TRUE,  maxRetries |-> 1, poll |-> FALSE],
   [reconnect |-> FALSE, maxRetries |-> 1, poll |-> TRUE]}

\* Telemetry on, for what Stop and the Connected callback leave behind.
TelemetryOptions == {[reconnect |-> TRUE, maxRetries |-> 1, poll |-> TRUE]}

\* The default options of a WebsiteEventsClient, with fewer retries.
DefaultOptions == {[reconnect |-> TRUE, maxRetries |-> 1, poll |-> FALSE]}

\* The callers of Stop are interchangeable (used without liveness only).
StopperSymmetry == Permutations(Stoppers)

==============================================================================
