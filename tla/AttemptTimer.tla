---------------------------- MODULE AttemptTimer ----------------------------
(***************************************************************************)
(* What the connection processes see of a TimedAttempt: how many retries   *)
(* were counted since begin(), and whether the pause armed by the last     *)
(* reload() is over.  The arithmetic of the pause (shift, saturation, the  *)
(* wrap of millis()) is the subject of module TimedAttempt; here the pause *)
(* may end at any moment, which is every outcome that arithmetic has.      *)
(***************************************************************************)
EXTENDS Naturals

Attempts(most) == [count : 0..most, expired : BOOLEAN]

\* begin(): count, delay and tick are zeroed, so isExpired() holds at once
\* (millis() - 0 > 0 on any board that has been running for a millisecond).
Begun == [count |-> 0, expired |-> TRUE]

\* retry(): one more attempt, and a new pause starts.
Retried(a) == [count |-> a.count + 1, expired |-> FALSE]

\* reconfigure(): a new pause starts, the count stays.
Reconfigured(a) == [a EXCEPT !.expired = FALSE]

IsRetry(a) == a.count > 0
=============================================================================
