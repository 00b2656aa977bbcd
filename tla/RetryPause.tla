----------------------------- MODULE RetryPause -----------------------------
(***************************************************************************)
(* The timer of AttemptTimer as a state machine: the steps that the        *)
(* connection processes take with it, and the end of a pause.              *)
(***************************************************************************)
EXTENDS AttemptTimer

VARIABLE timer

Init == timer = Begun

Begin == timer' = Begun

Retry == timer' = Retried(timer)

Reconfigure == timer' = Reconfigured(timer)

PauseEnds ==
  /\ ~timer.expired
  /\ timer' = [timer EXCEPT !.expired = TRUE]

Next == Begin \/ Retry \/ Reconfigure \/ PauseEnds

Spec == Init /\ [][Next]_timer
=============================================================================
