--------------------------- MODULE MCTimedAttempt ---------------------------
(***************************************************************************)
(* Instances of TimedAttempt for TLC.                                      *)
(***************************************************************************)
EXTENDS TimedAttempt

\* A small word: 3 * 2^3 is cut at the maximum, 3 * 2^4 wraps.
SmallDelays == {[min |-> 1, max |-> 6], [min |-> 3, max |-> 12]}

\* The reconnection delays, 1000 ms and 32000 ms, in units of 8 ms.  1000 is a
\* multiple of 8, so the product modulo 2^32 is 8 times the one modulo 2^29.
ReconnectionDelays == {[min |-> 125, max |-> 4000]}
=============================================================================
