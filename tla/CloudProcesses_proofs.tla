----------------------- MODULE CloudProcesses_proofs -----------------------
(***************************************************************************)
(* What the calls of the device process and of the thing process keep, for *)
(* whatever connection drives them: CloudTCP_proofs and                    *)
(* CloudNotecard_proofs build on these lemmas.                             *)
(***************************************************************************)
EXTENDS CloudDevice, CloudThing, TLAPS

-----------------------------------------------------------------------------
(* The attempts of either process.                                         *)

\* What each operation on an attempt returns.
LEMMA AttemptsType ==
  ASSUME NEW most \in Nat, NEW a \in Attempts(most)
  PROVE  /\ a.count \in Nat
         /\ a.count <= most
         /\ Begun \in Attempts(most)
         /\ Begun.count = 0
         /\ a.count < most => Retried(a) \in Attempts(most)
         /\ Reconfigured(a) \in Attempts(most)
         /\ Reconfigured(a).count = a.count
<1>1. a.count \in Nat /\ a.count <= most
  BY DEF Attempts
<1>2. Begun \in Attempts(most) /\ Begun.count = 0
  BY DEF Begun, Attempts
<1>3. a.count < most => Retried(a) \in Attempts(most)
  BY <1>1 DEF Retried, Attempts
<1>4. Reconfigured(a) \in Attempts(most)
  BY DEF Reconfigured, Attempts
<1>5. Reconfigured(a).count = a.count
  BY DEF Reconfigured, Attempts
<1> QED
  BY <1>1, <1>2, <1>3, <1>4, <1>5

-----------------------------------------------------------------------------
(* The device process.                                                     *)

\* A request is only sent when a retry is left, which bounds the count.
DeviceOK(d) ==
  /\ d \in Devices
  /\ d.state = "SendCapabilities" => d.attempt.count <= MaxAttachRetry

\* What the state machine of the device process keeps: its step leaves Init,
\* and the flag it leaves tells whether the board was attached.
LEMMA DeviceRunKeeps ==
  ASSUME NEW d, DeviceOK(d)
  PROVE  /\ DeviceOK(DeviceRun(d))
         /\ DeviceRun(d).state # "Init"
         /\ DeviceRun(d).attached <=> IsAttached(d)
<1> DEFINE most == MaxAttachRetry + 1
<1>1. /\ d \in Devices
      /\ d.attempt \in Attempts(most)
      /\ d.state \in DeviceStates
      /\ MaxAttachRetry \in Nat
      /\ most \in Nat
  BY MaxAttachRetryAssumption DEF DeviceOK, Devices
<1>2. /\ d.attempt.count \in Nat
      /\ Begun \in Attempts(most)
      /\ Begun.count = 0
      /\ d.attempt.count < most => Retried(d.attempt) \in Attempts(most)
      /\ Reconfigured(d.attempt) \in Attempts(most)
      /\ Reconfigured(d.attempt).count = d.attempt.count
  BY <1>1, AttemptsType
<1>3. d.attempt.count < most <=> d.attempt.count <= MaxAttachRetry
  BY <1>1, <1>2
<1>4. Devices = [state : DeviceStates, attached : BOOLEAN, registered : BOOLEAN,
                 attempt : Attempts(most)]
  BY DEF Devices
<1> HIDE DEF most
<1>5. CASE d.state = "Init"
  <2>1. DeviceRun(d) = DeviceInit(d)
    BY <1>5 DEF DeviceRun
  <2> QED
    BY <1>1, <1>2, <1>4, <1>5, <2>1 DEF DeviceInit, DeviceOK, DeviceStates, IsAttached
<1>6. CASE d.state = "SendCapabilities"
  <2>1. DeviceRun(d) = DeviceSendCapabilities(d)
    BY <1>6 DEF DeviceRun
  <2> QED
    BY <1>1, <1>2, <1>3, <1>4, <1>6, <2>1
    DEF DeviceSendCapabilities, DeviceOK, DeviceStates, IsAttached
<1>7. CASE d.state = "Connected"
  <2>1. DeviceRun(d) = DeviceConnected(d)
    BY <1>7 DEF DeviceRun
  <2> DEFINE paused == IF d.registered THEN Reconfigured(d.attempt) ELSE d.attempt
  <2>2. paused \in Attempts(most) /\ paused.count = d.attempt.count
    BY <1>1, <1>2
  <2>3. DeviceConnected(d) =
          IF d.attempt.count > MaxAttachRetry
          THEN [d EXCEPT !.state = "Disconnected"]
          ELSE IF ~d.attached /\ d.attempt.expired
               THEN [d EXCEPT !.state = "SendCapabilities", !.attempt = paused]
               ELSE d
    BY DEF DeviceConnected
  <2> HIDE DEF paused
  <2>4. CASE d.attempt.count > MaxAttachRetry
    BY <1>1, <1>4, <1>7, <2>1, <2>3, <2>4 DEF DeviceOK, DeviceStates, IsAttached
  <2>5. CASE /\ ~(d.attempt.count > MaxAttachRetry)
             /\ ~d.attached /\ d.attempt.expired
    <3>1. DeviceRun(d) = [d EXCEPT !.state = "SendCapabilities", !.attempt = paused]
      BY <2>1, <2>3, <2>5
    <3>2. paused.count <= MaxAttachRetry
      BY <1>1, <1>2, <2>2, <2>5
    <3> QED
      BY <1>1, <1>4, <1>7, <2>2, <2>5, <3>1, <3>2 DEF DeviceOK, DeviceStates, IsAttached
  <2>6. CASE /\ ~(d.attempt.count > MaxAttachRetry)
             /\ ~(~d.attached /\ d.attempt.expired)
    BY <1>1, <1>7, <2>1, <2>3, <2>6 DEF DeviceOK, IsAttached
  <2> QED
    BY <2>4, <2>5, <2>6
<1>8. CASE d.state = "Disconnected"
  BY <1>8 DEF DeviceOK, DeviceRun, IsAttached
<1> QED
  BY <1>1, <1>5, <1>6, <1>7, <1>8 DEF DeviceStates

\* What each command does to the attachment.
LEMMA DeviceHandleKeeps ==
  ASSUME NEW d, DeviceOK(d), NEW command \in DeviceCommands
  PROVE  LET after == DeviceHandle(d, command)
         IN  /\ DeviceOK(after)
             /\ command = "DeviceAttached" => IsAttached(after)
             /\ command = "DeviceDetached" => ~after.attached /\ after.state = "Init"
             /\ command = "Reset" => after.state = "Init"
             /\ command = "Update" =>
                  /\ after.attached <=> IsAttached(d)
                  /\ IsAttached(after) <=> IsAttached(d)
             /\ command = "DeviceRegistered" => (IsAttached(after) <=> IsAttached(d))
<1> DEFINE run == DeviceRun(d)
<1>1. /\ DeviceOK(run)
      /\ run.state # "Init"
      /\ run.attached <=> IsAttached(d)
  BY DeviceRunKeeps
<1>2. DeviceHandle(d, command) = DeviceEvent(run, command)
  BY DEF DeviceHandle
<1> HIDE DEF run
<1> QED
  BY <1>1, <1>2 DEF DeviceOK, Devices, DeviceStates, DeviceCommands, DeviceEvent,
     IsAttached

-----------------------------------------------------------------------------
(* The thing process.                                                      *)

\* The zone the process starts with is one that TimeService does not take.
LEMMA ZoneBootType == ZoneBoot \in Zones /\ ~ValidZone(ZoneBoot)
BY OffsetsAssumption, ExpiriesAssumption DEF ZoneBoot, Zones, ValidZone

\* A step of the thing process keeps its type: a request is counted only below
\* the limit.
LEMMA ThingRunType ==
  ASSUME NEW t \in ThingProcesses, NEW late \in BOOLEAN
  PROVE  ThingRun(t, late) \in ThingProcesses
<1> DEFINE most == MaxSyncRetry + 1
<1>1. /\ t.attempt \in Attempts(most)
      /\ t.state \in ThingStates
      /\ MaxSyncRetry \in Nat
      /\ most \in Nat
  BY ThingAssumption DEF ThingProcesses
<1>2. /\ t.attempt.count \in Nat
      /\ Begun \in Attempts(most)
      /\ t.attempt.count < most => Retried(t.attempt) \in Attempts(most)
  BY <1>1, AttemptsType
<1>3. t.attempt.count < most <=> ~(t.attempt.count > MaxSyncRetry)
  BY <1>1, <1>2
<1>4. ThingProcesses = [state : ThingStates, attempt : Attempts(most),
                        localZone : Zones, cloudZone : Zones]
  BY DEF ThingProcesses
<1> HIDE DEF most
<1>5. CASE t.state = "Init"
  <2>1. ThingRun(t, late) = ThingInit(t)
    BY <1>5 DEF ThingRun
  <2> QED
    BY <1>2, <1>4, <2>1 DEF ThingInit, ThingStates
<1>6. CASE t.state = "RequestLastValues"
  <2>1. ThingRun(t, late) = ThingRequestLastValues(t)
    BY <1>6 DEF ThingRun
  <2> QED
    BY <1>2, <1>3, <1>4, <2>1 DEF ThingRequestLastValues, ThingStates
<1>7. CASE t.state = "Connected"
  <2>1. ThingRun(t, late) = ThingConnected(t, late)
    BY <1>7 DEF ThingRun
  <2> QED
    BY <1>4, <2>1 DEF ThingConnected, ThingStates
<1>8. CASE t.state = "Disconnect"
  BY <1>8 DEF ThingRun
<1> QED
  BY <1>1, <1>5, <1>6, <1>7, <1>8 DEF ThingStates

\* So does a call with any command.
LEMMA ThingHandleType ==
  ASSUME NEW t \in ThingProcesses, NEW late \in BOOLEAN, NEW command \in ThingCommands
  PROVE  ThingHandle(t, command, late) \in ThingProcesses
<1> DEFINE run == ThingRun(t, late)
<1>1. run \in ThingProcesses
  BY ThingRunType
<1>2. ThingHandle(t, command, late) = ThingEvent(t, run, command)
  BY DEF ThingHandle
<1> HIDE DEF run
<1> QED
  BY <1>1, <1>2 DEF ThingProcesses, ThingStates, ThingEvent

\* After any call a zone of the process that is valid is the one TimeService
\* holds, if it was before or if the call is the Timezone command that brings it.
LEMMA ZoneHandled ==
  ASSUME NEW t \in ThingProcesses, NEW late \in BOOLEAN, NEW command \in ThingCommands,
         NEW z \in AnyZone,
         command # "Timezone" => (ValidZone(t.localZone) => z = t.localZone)
  PROVE  LET after == ThingHandle(t, command, late)
             held  == ZoneAfter(t, command, late, z)
         IN  /\ held \in AnyZone
             /\ ValidZone(after.localZone) => held = after.localZone
<1> DEFINE run == ThingRun(t, late)
<1>1. run \in ThingProcesses
  BY ThingRunType
<1>2. run.localZone = IF t.state = "Connected" THEN t.cloudZone ELSE t.localZone
  BY DEF ThingProcesses, ThingStates, ThingRun, ThingInit, ThingRequestLastValues,
     ThingConnected
<1>3. ThingHandle(t, command, late).localZone = run.localZone
  BY <1>1 DEF ThingHandle, ThingEvent, ThingProcesses
<1> HIDE DEF run
<1>4. CASE command = "Timezone"
  <2>1. ZoneAfter(t, command, late, z) =
          SetTimeZoneData(IF t.state = "Connected" /\ t.localZone # t.cloudZone
                          THEN SetTimeZoneData(z, t.cloudZone) ELSE z, run.localZone)
    BY <1>4 DEF ZoneAfter, run
  <2> QED
    BY <1>1, <1>3, <2>1 DEF SetTimeZoneData, ThingProcesses, AnyZone
<1>5. CASE command # "Timezone"
  <2>1. ZoneAfter(t, command, late, z) =
          IF t.state = "Connected" /\ t.localZone # t.cloudZone
          THEN SetTimeZoneData(z, t.cloudZone) ELSE z
    BY <1>5 DEF ZoneAfter
  <2> QED
    BY <1>2, <1>3, <1>5, <2>1 DEF SetTimeZoneData, ThingProcesses, AnyZone
<1> QED
  BY <1>4, <1>5

\* A call makes the thing process Connected only as the answer it waits for.
LEMMA ConnectedByAnswer ==
  ASSUME NEW t \in ThingProcesses, NEW late \in BOOLEAN, NEW command \in ThingCommands,
         t.state # "Connected", ThingHandle(t, command, late).state = "Connected"
  PROVE  command = "LastValuesUpdate" /\ t.state = "RequestLastValues"
<1> DEFINE run == ThingRun(t, late)
<1>1. run \in ThingProcesses
  BY ThingRunType
<1>2. run.state # "Connected"
  BY DEF ThingProcesses, ThingStates, ThingRun, ThingInit, ThingRequestLastValues
<1>3. ThingHandle(t, command, late) = ThingEvent(t, run, command)
  BY DEF ThingHandle
<1> HIDE DEF run
<1> QED
  BY <1>1, <1>2, <1>3 DEF ThingEvent, ThingProcesses, ThingCommands
=============================================================================
