---------------------------- MODULE CloudDevice -----------------------------
(***************************************************************************)
(* ArduinoCloudDevice: the process that announces the board to the cloud   *)
(* and asks which thing it is attached to.  It is driven synchronously by  *)
(* its owner, so a call is a function of the process' state: the record d  *)
(* below.  Module CloudTCP calls it.                                       *)
(***************************************************************************)
EXTENDS AttemptTimer

CONSTANT MaxAttachRetry  \* AIOT_CONFIG_THING_ID_REQUEST_MAX_RETRY_CNT

ASSUME MaxAttachRetryAssumption == MaxAttachRetry \in Nat

DeviceStates == {"Disconnected", "Init", "SendCapabilities", "Connected"}

DeviceCommands ==
  {"Update", "DeviceAttached", "DeviceDetached", "DeviceRegistered", "Reset"}

Devices == [state      : DeviceStates,
            attached   : BOOLEAN,
            registered : BOOLEAN,
            attempt    : Attempts(MaxAttachRetry + 1)]

DeviceBoot == [state |-> "Init", attached |-> FALSE, registered |-> FALSE,
               attempt |-> Begun]

-----------------------------------------------------------------------------
(* The state machine: one operator per handler. *)

DeviceInit(d) ==
  [state |-> "SendCapabilities", attached |-> FALSE, registered |-> FALSE,
   attempt |-> Begun]

\* Delivers DeviceBegin and ThingBegin upstream, and arms the pause.
DeviceSendCapabilities(d) ==
  [d EXCEPT !.state = "Connected", !.attempt = Retried(@)]

\* Mutant: the spent retries are not looked at.
DeviceConnectedForever(d) ==
  IF ~d.attached /\ d.attempt.expired
  THEN [d EXCEPT !.state = "SendCapabilities",
                 !.attempt = IF d.registered THEN Reconfigured(@) ELSE @]
  ELSE d

\* Mutant: without a retry left the process stops asking, but keeps the session.
DeviceConnectedWaiting(d) ==
  IF ~d.attached /\ d.attempt.expired /\ d.attempt.count <= MaxAttachRetry
  THEN [d EXCEPT !.state = "SendCapabilities",
                 !.attempt = IF d.registered THEN Reconfigured(@) ELSE @]
  ELSE d

DeviceConnected(d) ==
  IF d.attempt.count > MaxAttachRetry
  THEN [d EXCEPT !.state = "Disconnected"]
  ELSE IF ~d.attached /\ d.attempt.expired
       THEN [d EXCEPT !.state = "SendCapabilities",
                      !.attempt = IF d.registered THEN Reconfigured(@) ELSE @]
       ELSE d

DeviceRun(d) ==
  CASE d.state = "Init"             -> DeviceInit(d)
    [] d.state = "SendCapabilities" -> DeviceSendCapabilities(d)
    [] d.state = "Connected"        -> DeviceConnected(d)
    [] d.state = "Disconnected"     -> d

-----------------------------------------------------------------------------
(* The event is applied after the state machine ran, and overrides the     *)
(* state it chose: a call with a command always takes one ordinary step    *)
(* first.                                                                  *)

DeviceEvent(d, command) ==
  CASE command = "DeviceAttached" ->
         [d EXCEPT !.attached = TRUE, !.registered = TRUE, !.state = "Connected"]
    [] command = "DeviceDetached" ->
         [d EXCEPT !.attached = FALSE, !.registered = FALSE, !.state = "Init"]
    [] command = "DeviceRegistered" ->
         [d EXCEPT !.registered = TRUE, !.state = "Connected"]
    [] command = "Reset"  -> [d EXCEPT !.state = "Init"]
    [] command = "Update" -> d

\* handleMessage(); update() is handleMessage(nullptr), the command "Update".
DeviceHandle(d, command) == DeviceEvent(DeviceRun(d), command)

\* The attachment the rest of the library may rely on: between a Reset and the
\* next update the flag still holds the previous session's value.
IsAttached(d) == d.attached /\ d.state # "Init"
=============================================================================
