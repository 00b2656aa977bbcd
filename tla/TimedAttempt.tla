---------------------------- MODULE TimedAttempt ----------------------------
(***************************************************************************)
(* TimedAttempt: a retry counter with an exponentially growing pause, kept *)
(* in the unsigned arithmetic of the board.  millis() is a counter that    *)
(* wraps; so does the shift that doubles the pause.                        *)
(***************************************************************************)
EXTENDS AttemptTimer, Integers

CONSTANTS Word,        \* unsigned long counts modulo Word
          Delays,      \* the [min, max] pairs the users of the class pass to it
          MaxRetries,  \* bound: retries between two begins
          MaxIdle      \* bound: ticks of the clock between two reloads

ASSUME WordAssumption == Word \in Nat \ {0}
ASSUME DelaysAssumption == Delays \subseteq [min : 0..(Word - 1), max : 0..(Word - 1)]
ASSUME MaxIdleAssumption == MaxIdle \in 0..(Word - 1)

VARIABLES
  now,         \* millis()
  retryCount,
  retryDelay,
  retryTick,
  delays,      \* _minDelay and _maxDelay
  armed,       \* history: reload() ran since begin()
  elapsed      \* history: ticks since then

attempt == <<retryCount, retryDelay, retryTick, delays>>
vars == <<now, retryCount, retryDelay, retryTick, delays, armed, elapsed>>

Words == 0..(Word - 1)

\* No pause is longer than the maximum at hand, whatever the shift wrapped to
\* and whichever delays came between (reload(), TimedAttempt.cpp:58-64).
TypeOK ==
  /\ now \in Words
  /\ retryCount \in Nat
  /\ retryDelay \in 0..delays.max
  /\ retryTick \in Words
  /\ delays \in Delays
  /\ armed \in BOOLEAN
  /\ elapsed \in 0..MaxIdle

-----------------------------------------------------------------------------
(* Unsigned arithmetic.                                                    *)

Shl1(x)  == (2 * x) % Word
Shl2(x)  == Shl1(Shl1(x))
Shl4(x)  == Shl2(Shl2(x))
Shl8(x)  == Shl4(Shl4(x))
Shl16(x) == Shl8(Shl8(x))

\* (1UL << shift) * x, for shift in 0..31, one binary digit of shift at a time.
Shifted(x, shift) ==
  LET a == IF shift % 2 = 1          THEN Shl1(x) ELSE x
      b == IF (shift \div 2) % 2 = 1 THEN Shl2(a) ELSE a
      c == IF (shift \div 4) % 2 = 1 THEN Shl4(b) ELSE b
      d == IF (shift \div 8) % 2 = 1 THEN Shl8(c) ELSE c
  IN  IF (shift \div 16) % 2 = 1 THEN Shl16(d) ELSE d

\* x - y of two words.
Minus(x, y) == IF x >= y THEN x - y ELSE x - y + Word

-----------------------------------------------------------------------------
\* Mutant: the end of the pause is computed first, and may wrap.
IsExpiredByDeadline == now > (retryTick + retryDelay) % Word

IsExpired == Minus(now, retryTick) > retryDelay

\* Mutant: the pause is not cut at the maximum.
UncutPauseFor(count, d) == Shifted(d.min, IF count > 31 THEN 31 ELSE count)

PauseFor(count, d) ==
  LET delay == Shifted(d.min, IF count > 31 THEN 31 ELSE count)
  IN  IF delay < d.max THEN delay ELSE d.max

Reload(count, d) ==
  /\ retryDelay' = PauseFor(count, d)
  /\ retryTick' = now
  /\ armed' = TRUE
  /\ elapsed' = 0
  /\ UNCHANGED now

Init ==
  /\ now = 0
  /\ retryCount = 0
  /\ retryDelay = 0
  /\ retryTick = 0
  /\ delays \in Delays
  /\ armed = FALSE
  /\ elapsed = 0

Begin(d) ==
  /\ retryCount' = 0
  /\ retryDelay' = 0
  /\ retryTick' = 0
  /\ delays' = d
  /\ armed' = FALSE
  /\ elapsed' = 0
  /\ UNCHANGED now

Reconfigure(d) ==
  /\ delays' = d
  /\ Reload(retryCount, d)
  /\ UNCHANGED retryCount

\* Mutant: the pause is not armed anew.
RetryWithoutReload ==
  /\ retryCount < MaxRetries
  /\ retryCount' = retryCount + 1
  /\ armed' = TRUE
  /\ UNCHANGED <<now, retryDelay, retryTick, delays, elapsed>>

Retry ==
  /\ retryCount < MaxRetries
  /\ retryCount' = retryCount + 1
  /\ Reload(retryCount + 1, delays)
  /\ UNCHANGED delays

\* The clock is the environment's.
Tick ==
  /\ armed => elapsed < MaxIdle
  /\ now' = IF now = Word - 1 THEN 0 ELSE now + 1
  /\ elapsed' = IF armed THEN elapsed + 1 ELSE 0
  /\ UNCHANGED <<attempt, armed>>

Next ==
  \/ \E d \in Delays : Begin(d) \/ Reconfigure(d)
  \/ Retry
  \/ Tick

Spec == Init /\ [][Next]_vars

-----------------------------------------------------------------------------
\* A pause is over exactly when more than the delay has passed since it was
\* armed, also when millis() wrapped in between (isExpired(),
\* TimedAttempt.cpp:74-76).
ExpiresOnTime == armed => (IsExpired <=> elapsed > retryDelay)

\* Each retry waits at least as long as the one before (reload(),
\* TimedAttempt.cpp:58-64), as long as the shifted minimum does not overflow
\* within MaxRetries retries.
PauseGrows == [][retryCount' = retryCount + 1 => retryDelay' >= retryDelay]_vars

\* "Wait: 2s -> 4s -> 8s -> 16s -> 32s -> 32s ..." (TCP.cpp:288; the test of
\* TimedAttempt requires 32 s for every count from 5 to 100000): from the fifth
\* retry on the pause is the maximum.
PauseStaysAtMaximum == retryCount >= 5 => retryDelay = delays.max

\* The state of RetryPause, as the class computes it.
PauseOver == ~armed \/ IsExpired

Pause ==
  INSTANCE RetryPause WITH timer <- [count |-> retryCount, expired |-> PauseOver]

\* The class is the timer that module CloudTCP runs its processes with: a retry
\* and a reconfiguration always start a pause, and a pause ends once, whatever
\* millis() and the shift wrap to (TimedAttempt.cpp:31-76).
ImplementsRetryPause == Pause!Spec
=============================================================================
