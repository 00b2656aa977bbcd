------------------------ MODULE TimedAttempt_proofs ------------------------
(***************************************************************************)
(* Proofs about TimedAttempt, for every word size, every pair of delays    *)
(* and every number of retries: overflow of the shift included.            *)
(***************************************************************************)
EXTENDS TimedAttempt, TLAPS

\* Doubling stays a word.
LEMMA Shl1Type == ASSUME NEW x \in Words PROVE Shl1(x) \in Words
BY WordAssumption DEF Words, Shl1

\* So do the longer shifts.
LEMMA Shl16Type ==
  ASSUME NEW x \in Words
  PROVE  /\ Shl2(x) \in Words
         /\ Shl4(x) \in Words
         /\ Shl8(x) \in Words
         /\ Shl16(x) \in Words
<1>1. \A y \in Words : Shl2(y) \in Words
  BY Shl1Type DEF Shl2
<1>2. \A y \in Words : Shl4(y) \in Words
  BY <1>1 DEF Shl4
<1>3. \A y \in Words : Shl8(y) \in Words
  BY <1>2 DEF Shl8
<1>4. \A y \in Words : Shl16(y) \in Words
  BY <1>3 DEF Shl16
<1> QED
  BY <1>1, <1>2, <1>3, <1>4

\* And the shift by any number of places.
LEMMA ShiftedType == ASSUME NEW x \in Words, NEW shift PROVE Shifted(x, shift) \in Words
<1>1. /\ \A y \in Words : Shl1(y) \in Words /\ Shl2(y) \in Words /\ Shl4(y) \in Words
      /\ \A y \in Words : Shl8(y) \in Words /\ Shl16(y) \in Words
  BY Shl1Type, Shl16Type
<1> QED
  BY <1>1, Zenon DEF Shifted

\* The pause is a word, and no longer than the maximum.
LEMMA PauseForType ==
  ASSUME NEW count, NEW d \in Delays
  PROVE  PauseFor(count, d) \in Words /\ PauseFor(count, d) <= d.max
<1>1. d.min \in Words /\ d.max \in Words
  BY DelaysAssumption DEF Words
<1>2. Shifted(d.min, IF count > 31 THEN 31 ELSE count) \in Words
  BY <1>1, ShiftedType
<1> QED
  BY <1>1, <1>2, WordAssumption DEF PauseFor, Words

-----------------------------------------------------------------------------
\* The inductive invariant: the clock is where the tick and the time that
\* passed put it, modulo Word.
ClockAgrees == armed => now = retryTick + elapsed \/ now = retryTick + elapsed - Word

Inv == TypeOK /\ ClockAgrees

\* The initial values are in range.
LEMMA Zeros ==
  /\ 0 \in Words /\ 0 \in 0..MaxIdle
  /\ \A d \in Delays : d.max \in Nat /\ 0 \in 0..d.max
BY WordAssumption, DelaysAssumption, MaxIdleAssumption DEF Words

\* The timer starts in the invariant.
LEMMA InitInv == Init => Inv
<1> SUFFICES ASSUME Init PROVE Inv
  OBVIOUS
<1>1. TypeOK
  BY Zeros DEF Init, TypeOK
<1>2. ~armed
  BY Zenon DEF Init
<1> QED
  BY <1>1, <1>2 DEF Inv, ClockAgrees

\* Arming a pause makes the tick the clock.
LEMMA ReloadKeeps ==
  ASSUME Inv, NEW count \in Nat, NEW d \in Delays, Reload(count, d),
         retryCount' = count, delays' = d
  PROVE  Inv'
<1>1. retryDelay' \in 0..delays.max'
  BY PauseForType, Zeros DEF Reload, Words
<1>2. /\ retryTick' = now /\ now' = now /\ now \in Words
      /\ armed' = TRUE /\ elapsed' = 0
  BY DEF Reload, Inv, TypeOK
<1>3. TypeOK'
  BY <1>1, <1>2, MaxIdleAssumption DEF TypeOK
<1>4. ClockAgrees'
  BY <1>2 DEF ClockAgrees, Words
<1> QED
  BY <1>3, <1>4 DEF Inv

\* Every step keeps the invariant.
LEMMA NextInv == Inv /\ [Next]_vars => Inv'
<1> SUFFICES ASSUME Inv, [Next]_vars PROVE Inv'
  OBVIOUS
<1>1. ASSUME NEW d \in Delays, Begin(d) PROVE Inv'
  <2>1. TypeOK'
    BY <1>1, Zeros DEF Begin, Inv, TypeOK
  <2>2. ~armed'
    BY <1>1, Zenon DEF Begin
  <2> QED
    BY <2>1, <2>2 DEF Inv, ClockAgrees
<1>2. ASSUME NEW d \in Delays, Reconfigure(d) PROVE Inv'
  BY <1>2, ReloadKeeps DEF Reconfigure, Inv, TypeOK
<1>3. CASE Retry
  BY <1>3, ReloadKeeps DEF Retry, Inv, TypeOK
<1>4. CASE Tick
  <2>1. now' = (IF now = Word - 1 THEN 0 ELSE now + 1) /\ now \in Words
        /\ UNCHANGED <<retryCount, retryDelay, retryTick, delays, armed>>
    BY <1>4 DEF Tick, attempt, Inv, TypeOK
  <2>2. now' \in Words
    BY <2>1, WordAssumption DEF Words
  <2>3. elapsed' \in 0..MaxIdle
    BY <1>4, MaxIdleAssumption DEF Tick, Inv, TypeOK
  <2>4. TypeOK'
    BY <2>1, <2>2, <2>3 DEF Inv, TypeOK
  <2>5. CASE armed
    <3>1. elapsed' = elapsed + 1 /\ elapsed \in Nat /\ retryTick \in Words
      BY <1>4, <2>5, MaxIdleAssumption DEF Tick, Inv, TypeOK
    <3>2. now = retryTick + elapsed \/ now = retryTick + elapsed - Word
      BY <2>5 DEF Inv, ClockAgrees
    <3>3. now' = retryTick' + elapsed' \/ now' = retryTick' + elapsed' - Word
      BY <2>1, <2>3, <3>1, <3>2, WordAssumption, MaxIdleAssumption DEF Words
    <3> QED
      BY <2>4, <3>3, Zenon DEF Inv, ClockAgrees
  <2>6. CASE ~armed
    <3>1. ~armed'
      BY <2>1, <2>6, Zenon
    <3> QED
      BY <2>4, <3>1, Zenon DEF Inv, ClockAgrees
  <2> QED
    BY <2>5, <2>6
<1>5. CASE UNCHANGED vars
  BY <1>5 DEF vars, Inv, TypeOK, ClockAgrees
<1> QED
  BY <1>1, <1>2, <1>3, <1>4, <1>5 DEF Next

\* The difference of the clock and the tick is the time that passed.
LEMMA InvExpires == Inv => ExpiresOnTime
BY WordAssumption, MaxIdleAssumption, Zeros
DEF Inv, TypeOK, ClockAgrees, ExpiresOnTime, IsExpired, Minus, Words

\* The same of the next state.
LEMMA InvExpiresNext == Inv' => ExpiresOnTime'
BY InvExpires, PTL

\* The induction.
THEOREM InvHolds == Spec => []Inv
BY InitInv, NextInv, PTL DEF Spec

\* The variables keep their types and no pause exceeds its maximum, whatever the
\* shift overflows to.
THEOREM TypeOKHolds == Spec => []TypeOK
BY InvHolds, PTL DEF Inv

\* A pause ends on time across a wrap of millis().
THEOREM ExpiresOnTimeHolds == Spec => []ExpiresOnTime
BY InvHolds, InvExpires, PTL

-----------------------------------------------------------------------------
(* Refinement of RetryPause.                                               *)

timerSeen == [count |-> retryCount, expired |-> PauseOver]

\* Replacing the second field of a timer.
LEMMA ExpiredReplaced ==
  ASSUME NEW c, NEW p, NEW q
  PROVE  [[count |-> c, expired |-> p] EXCEPT !.expired = q] = [count |-> c, expired |-> q]
<1> DEFINE f == [[count |-> c, expired |-> p] EXCEPT !.expired = q]
<1>1. f \in [count : {c}, expired : {p, q}]
  OBVIOUS
<1>2. f.count = c /\ f.expired = q
  OBVIOUS
<1> HIDE DEF f
<1>3. f = [count |-> c, expired |-> q]
  BY <1>1, <1>2
<1> QED
  BY <1>3 DEF f

\* Every step is a step of the abstract timer, or leaves it as it is.
LEMMA StepRefines ==
  ASSUME Inv, Inv', [Next]_vars
  PROVE  Pause!Next \/ UNCHANGED timerSeen
<1>1. ASSUME NEW d \in Delays, Begin(d)
      PROVE  Pause!Begin
  <2>1. ~armed'
    BY <1>1, Zenon DEF Begin
  <2>2. PauseOver' = TRUE
    BY <2>1, Zenon DEF PauseOver
  <2> QED
    BY <1>1, <2>2 DEF Begin, Pause!Begin, Pause!Begun
<1>2. ASSUME NEW count, NEW d, Reload(count, d)
      PROVE  PauseOver' = FALSE
  <2>1. armed' /\ retryTick' = now /\ now' = now /\ now \in Int /\ retryDelay' \in Nat
    BY <1>2, Zeros DEF Reload, Inv, TypeOK, Words
  <2>2. ~IsExpired'
    BY <2>1 DEF IsExpired, Minus
  <2> QED
    BY <2>1, <2>2, Zenon DEF PauseOver
<1>3. ASSUME NEW d \in Delays, Reconfigure(d)
      PROVE  Pause!Reconfigure
  <2>1. PauseOver' = FALSE /\ retryCount' = retryCount
    BY <1>2, <1>3 DEF Reconfigure
  <2> QED
    BY <2>1, ExpiredReplaced DEF Pause!Reconfigure, Pause!Reconfigured
<1>4. CASE Retry
  <2>1. PauseOver' = FALSE /\ retryCount' = retryCount + 1
    BY <1>2, <1>4 DEF Retry
  <2> QED
    BY <2>1 DEF Pause!Retry, Pause!Retried, Pause!Next
<1>5. CASE Tick
  <2>1. UNCHANGED <<retryCount, retryDelay, retryTick, armed>>
    BY <1>5 DEF Tick, attempt
  <2>2. armed /\ IsExpired => IsExpired'
    <3>1. armed => (IsExpired <=> elapsed > retryDelay)
      BY InvExpires DEF ExpiresOnTime
    <3>2. armed' => (IsExpired' <=> elapsed' > retryDelay')
      BY InvExpiresNext DEF ExpiresOnTime
    <3>3. armed => elapsed' = elapsed + 1
      BY <1>5 DEF Tick
    <3>4. elapsed \in Nat /\ retryDelay \in Nat
      BY Zeros DEF Inv, TypeOK, Words
    <3>5. elapsed > retryDelay => elapsed + 1 > retryDelay
      BY <3>4
    <3> HIDE DEF IsExpired
    <3>6. CASE armed
      BY <2>1, <3>1, <3>2, <3>3, <3>5, <3>6
    <3> QED
      BY <3>6
  <2>3. PauseOver => PauseOver'
    BY <2>1, <2>2, Zenon DEF PauseOver
  <2>4. CASE PauseOver' = PauseOver
    BY <2>1, <2>4 DEF timerSeen
  <2>5. CASE ~PauseOver /\ PauseOver' = TRUE
    <3>1. timerSeen' = [timerSeen EXCEPT !.expired = TRUE]
      BY <2>1, <2>5, ExpiredReplaced DEF timerSeen
    <3>2. ~timerSeen.expired
      BY <2>5 DEF timerSeen
    <3> QED
      BY <3>1, <3>2 DEF Pause!PauseEnds, Pause!Next, timerSeen
  <2>6. PauseOver \in BOOLEAN /\ PauseOver' \in BOOLEAN
    BY Zenon DEF PauseOver
  <2> QED
    BY <2>3, <2>4, <2>5, <2>6
<1>6. CASE UNCHANGED vars
  BY <1>6 DEF vars, timerSeen, PauseOver, IsExpired
<1> QED
  BY <1>1, <1>3, <1>4, <1>5, <1>6 DEF Next, Pause!Next

\* The class is the timer that the connection processes are modelled with.
THEOREM Refinement == Spec => ImplementsRetryPause
<1>1. Init => Pause!Init
  <2>1. Init => ~armed
    BY Zenon DEF Init
  <2>2. ~armed => PauseOver = TRUE
    BY Zenon DEF PauseOver
  <2> QED
    BY <2>1, <2>2 DEF Init, Pause!Init, Pause!Begun
<1>2. Inv /\ Inv' /\ [Next]_vars => [Pause!Next]_timerSeen
  BY StepRefines
<1> QED
  BY <1>1, <1>2, InvHolds, PTL DEF Spec, ImplementsRetryPause, Pause!Spec, timerSeen

-----------------------------------------------------------------------------
(* The pause grows as long as its doubling does not overflow.              *)

\* None of the first MaxRetries doublings of a minimum leaves the word.  Of
\* 1000 ms in 32 bits the first 22 do not.
NoOverflow ==
  \A d \in Delays : \A k \in 0..30 : k < MaxRetries => 2 * Shifted(d.min, k) < Word

\* A shift by one place more doubles once more, modulo the word.
LEMMA ShiftedNext ==
  ASSUME NEW x, NEW k \in 0..30
  PROVE  Shifted(x, k + 1) = Shl1(Shifted(x, k))
<1> DEFINE Bit(n, place) == (n \div place) % 2 = 1
           Same(place) == Bit(k + 1, place) <=> Bit(k, place)
<1>1. \A n : Shifted(x, n) =
               LET a == IF n % 2 = 1   THEN Shl1(x) ELSE x
                   b == IF Bit(n, 2)   THEN Shl2(a) ELSE a
                   c == IF Bit(n, 4)   THEN Shl4(b) ELSE b
                   d == IF Bit(n, 8)   THEN Shl8(c) ELSE c
               IN  IF Bit(n, 16) THEN Shl16(d) ELSE d
  BY Zenon DEF Shifted
<1>2. /\ \A y : Shl2(y) = Shl1(Shl1(y)) /\ Shl2(Shl1(y)) = Shl1(Shl2(y))
      /\ \A y : Shl4(y) = Shl2(Shl2(y)) /\ Shl4(Shl1(y)) = Shl1(Shl4(y))
      /\ \A y : Shl8(y) = Shl4(Shl4(y)) /\ Shl8(Shl1(y)) = Shl1(Shl8(y))
      /\ \A y : Shl16(y) = Shl8(Shl8(y)) /\ Shl16(Shl1(y)) = Shl1(Shl16(y))
  <2>1. \A y : Shl2(y) = Shl1(Shl1(y)) /\ Shl2(Shl1(y)) = Shl1(Shl2(y))
    BY Zenon DEF Shl2
  <2>2. \A y : Shl4(y) = Shl2(Shl2(y)) /\ Shl4(Shl1(y)) = Shl1(Shl4(y))
    BY <2>1 DEF Shl4
  <2>3. \A y : Shl8(y) = Shl4(Shl4(y)) /\ Shl8(Shl1(y)) = Shl1(Shl8(y))
    BY <2>2 DEF Shl8
  <2>4. \A y : Shl16(y) = Shl8(Shl8(y)) /\ Shl16(Shl1(y)) = Shl1(Shl16(y))
    BY <2>3 DEF Shl16
  <2> QED
    BY <2>1, <2>2, <2>3, <2>4
<1>3. CASE k % 2 = 0
  <2>1. (k + 1) % 2 = 1 /\ k % 2 # 1 /\ Same(2) /\ Same(4) /\ Same(8) /\ Same(16)
    BY <1>3
  <2> HIDE DEF Bit
  <2> QED
    BY <1>1, <1>2, <2>1
<1>4. CASE k % 2 = 1 /\ ~Bit(k, 2)
  <2>1. /\ (k + 1) % 2 # 1 /\ Bit(k + 1, 2)
        /\ Same(4) /\ Same(8) /\ Same(16)
    BY <1>4
  <2> HIDE DEF Bit
  <2> QED
    BY <1>1, <1>2, <1>4, <2>1
<1>5. CASE k % 2 = 1 /\ Bit(k, 2) /\ ~Bit(k, 4)
  <2>1. /\ (k + 1) % 2 # 1 /\ ~Bit(k + 1, 2) /\ Bit(k + 1, 4)
        /\ Same(8) /\ Same(16)
    BY <1>5
  <2> HIDE DEF Bit
  <2> QED
    BY <1>1, <1>2, <1>5, <2>1
<1>6. CASE k % 2 = 1 /\ Bit(k, 2) /\ Bit(k, 4) /\ ~Bit(k, 8)
  <2>1. /\ (k + 1) % 2 # 1 /\ ~Bit(k + 1, 2) /\ ~Bit(k + 1, 4) /\ Bit(k + 1, 8)
        /\ Same(16)
    BY <1>6
  <2> HIDE DEF Bit
  <2> QED
    BY <1>1, <1>2, <1>6, <2>1
<1>7. CASE k % 2 = 1 /\ Bit(k, 2) /\ Bit(k, 4) /\ Bit(k, 8)
  <2>1. /\ (k + 1) % 2 # 1 /\ ~Bit(k + 1, 2) /\ ~Bit(k + 1, 4) /\ ~Bit(k + 1, 8)
        /\ ~Bit(k, 16) /\ Bit(k + 1, 16)
    BY <1>7
  <2> HIDE DEF Bit
  <2> QED
    BY <1>1, <1>2, <1>7, <2>1
<1>8. k % 2 = 0 \/ k % 2 = 1
  OBVIOUS
<1> HIDE DEF Bit
<1> QED
  BY <1>3, <1>4, <1>5, <1>6, <1>7, <1>8

\* The pause of a count is at most that of the next.
LEMMA LongerPause ==
  ASSUME NoOverflow, NEW d \in Delays, NEW k \in Nat, k < MaxRetries
  PROVE  PauseFor(k, d) <= PauseFor(k + 1, d)
<1> DEFINE s == Shifted(d.min, k)
<1>1. /\ d.min \in Words /\ d.max \in Words /\ k \in Nat
      /\ Word \in Nat
  BY WordAssumption, DelaysAssumption DEF Words
<1>2. CASE k < 31
  <2>1. s \in Words
    BY <1>1, ShiftedType
  <2>2. k \in 0..30 /\ ~(k > 31) /\ ~(k + 1 > 31)
    BY <1>1, <1>2
  <2>3. 2 * s < Word
    BY <2>2 DEF NoOverflow
  <2>4. Shifted(d.min, k + 1) = Shl1(s)
    BY <2>2, ShiftedNext
  <2> HIDE DEF s
  <2>5. Shl1(s) = 2 * s /\ s \in Nat
    BY <1>1, <2>1, <2>3 DEF Shl1, Words
  <2>6. PauseFor(k, d) = IF s < d.max THEN s ELSE d.max
    BY <2>2, Zenon DEF PauseFor, s
  <2>7. PauseFor(k + 1, d) = IF 2 * s < d.max THEN 2 * s ELSE d.max
    BY <2>2, <2>4, <2>5, Zenon DEF PauseFor
  <2> QED
    BY <1>1, <2>5, <2>6, <2>7 DEF Words
<1>3. CASE ~(k < 31)
  <2>1. (IF k > 31 THEN 31 ELSE k) = 31 /\ (IF k + 1 > 31 THEN 31 ELSE k + 1) = 31
    BY <1>1, <1>3
  <2>2. PauseFor(k, d) = PauseFor(k + 1, d)
    BY <2>1, Zenon DEF PauseFor
  <2>3. PauseFor(k, d) \in Nat
    BY PauseForType DEF Words
  <2> QED
    BY <2>2, <2>3
<1> QED
  BY <1>2, <1>3

\* The pause is that of the count, or there is none.
PauseAgrees == retryDelay = 0 \/ retryDelay = PauseFor(retryCount, delays)

\* Begin clears the pause, and every reload takes that of the count.
LEMMA PauseAgreesNext == Inv /\ PauseAgrees /\ [Next]_vars => PauseAgrees'
<1> SUFFICES ASSUME Inv, PauseAgrees, [Next]_vars PROVE PauseAgrees'
  OBVIOUS
<1>1. ASSUME NEW d \in Delays, Begin(d) PROVE PauseAgrees'
  BY <1>1 DEF Begin, PauseAgrees
<1>2. ASSUME NEW d \in Delays, Reconfigure(d) PROVE PauseAgrees'
  BY <1>2, Zenon DEF Reconfigure, Reload, PauseAgrees
<1>3. CASE Retry
  BY <1>3, Zenon DEF Retry, Reload, PauseAgrees
<1>4. CASE Tick
  BY <1>4, Zenon DEF Tick, attempt, PauseAgrees
<1>5. CASE UNCHANGED vars
  BY <1>5, Zenon DEF vars, PauseAgrees
<1> QED
  BY <1>1, <1>2, <1>3, <1>4, <1>5 DEF Next

\* A retry waits at least as long as the one before.
LEMMA StepGrows ==
  ASSUME NoOverflow, Inv, PauseAgrees, [Next]_vars
  PROVE  [retryCount' = retryCount + 1 => retryDelay' >= retryDelay]_vars
<1> SUFFICES ASSUME retryCount' = retryCount + 1, Next PROVE retryDelay' >= retryDelay
  OBVIOUS
<1>1. retryCount \in Nat /\ delays \in Delays
  BY DEF Inv, TypeOK
<1>2. ASSUME NEW d \in Delays, Begin(d) PROVE FALSE
  BY <1>1, <1>2 DEF Begin
<1>3. ASSUME NEW d \in Delays, Reconfigure(d) PROVE FALSE
  BY <1>1, <1>3 DEF Reconfigure
<1>4. CASE Retry
  <2>1. retryDelay' = PauseFor(retryCount + 1, delays) /\ retryCount < MaxRetries
    BY <1>4, Zenon DEF Retry, Reload
  <2>2. PauseFor(retryCount + 1, delays) \in Nat
    BY <1>1, PauseForType DEF Words
  <2>3. CASE retryDelay = 0
    BY <2>1, <2>2, <2>3
  <2>4. CASE retryDelay = PauseFor(retryCount, delays)
    <3>1. PauseFor(retryCount, delays) <= PauseFor(retryCount + 1, delays)
      BY <1>1, <2>1, LongerPause
    <3>2. PauseFor(retryCount, delays) \in Nat
      BY <1>1, PauseForType DEF Words
    <3> QED
      BY <2>1, <2>2, <2>4, <3>1, <3>2
  <2> QED
    BY <2>3, <2>4 DEF PauseAgrees
<1>5. CASE Tick
  <2>1. retryCount' = retryCount
    BY <1>5, Zenon DEF Tick, attempt
  <2> QED
    BY <1>1, <2>1
<1> QED
  BY <1>2, <1>3, <1>4, <1>5 DEF Next

\* Unless the doubling overflows within MaxRetries, each retry waits at least
\* as long as the one before (reload(), TimedAttempt.cpp:58-64).
THEOREM PauseGrowsHolds == ASSUME NoOverflow PROVE Spec => PauseGrows
<1>1. Init => PauseAgrees
  BY DEF Init, PauseAgrees
<1>2. Spec => []PauseAgrees
  BY <1>1, PauseAgreesNext, InvHolds, PTL DEF Spec
<1>3. Inv /\ PauseAgrees /\ [Next]_vars
        => [retryCount' = retryCount + 1 => retryDelay' >= retryDelay]_vars
  BY NoOverflow, StepGrows
<1> QED
  BY <1>2, <1>3, InvHolds, PTL DEF Spec, PauseGrows
=============================================================================
