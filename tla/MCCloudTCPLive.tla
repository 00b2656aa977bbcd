--------------------------- MODULE MCCloudTCPLive ---------------------------
(***************************************************************************)
(* CloudTCP under fairness.  The environment may misbehave MaxFaults times *)
(* (a lost connection, a command nobody asked for, a refused subscription, *)
(* a zone that is refused or runs out); otherwise the cloud only answers   *)
(* requests, with a zone that is valid.                                    *)
(* Connection attempts may fail any number of times.                       *)
(***************************************************************************)
EXTENDS CloudTCP

CONSTANT MaxFaults

VARIABLE faults

liveVars == <<vars, faults>>

\* The cloud's answers to the requests of handleSendCapabilities and of
\* handleRequestLastValues.
ThingAnswer ==
  /\ IsRetry(dev.attempt)
  /\ ~dev.attached
  /\ \E id \in Things : ThingAssigned(id, "ok", "ok")

ValuesAnswer ==
  /\ thing.state = "RequestLastValues"
  /\ IsRetry(thing.attempt)
  /\ \E new \in Zones : ValidZone(new) /\ LastValuesUpdate(new)

ZoneRunsOut ==
  /\ thing.state = "Connected"
  /\ thing.cloudZone.until \in ValidExpiries
  /\ thing'.state = "RequestLastValues"

Expected == (Update /\ ~ZoneRunsOut) \/ ThingAnswer \/ ValuesAnswer \/ PauseEnds

Fault == faults < MaxFaults /\ Next /\ faults' = faults + 1

LiveInit == Init /\ faults = 0
LiveNext == (Expected /\ UNCHANGED faults) \/ Fault

NoFault(A) == A /\ UNCHANGED faults

\* The board waits for the answer.  One that is handled when the retries are
\* spent still attaches the board, but handleConnected then disconnects it.
InTime == dev.state = "Connected" /\ dev.attempt.count <= MaxAttachRetry

\* loop() calls update() for ever and millis() advances: weak fairness.  Time
\* synchronisation, the broker and the cloud's answers are not under the board's
\* control: if tried again and again they succeed, and are in time, some time.
Fairness ==
  /\ WF_liveVars(NoFault(Update /\ ~ZoneRunsOut))
  /\ WF_liveVars(NoFault(ReconnectPauseEnds))
  /\ WF_liveVars(NoFault(AttachPauseEnds))
  /\ WF_liveVars(NoFault(SyncPauseEnds))
  /\ SF_liveVars(NoFault(SyncTime(TRUE)))
  /\ SF_liveVars(NoFault(BrokerAccepts(TRUE)))
  /\ SF_liveVars(NoFault(InTime /\ ThingAnswer))
  /\ SF_liveVars(NoFault(ValuesAnswer))

LiveSpec == LiveInit /\ [][LiveNext]_liveVars /\ Fairness

\* Whatever went wrong, the board ends up attached and synchronised for good
\* once the faults stop: no order of lost connections, spent retries, late or
\* unexpected commands leaves the three state machines waiting on each other
\* (TCP.cpp:297-356).
EventuallySynced ==
  <>[](IsAttached(dev) /\ thing.state = "Connected")

\* handle_ConnectMqttBroker ignores whether the subscription to the command
\* topic succeeded (TCP.cpp:282).  A session that cannot hear the cloud is given
\* up all the same: the retries of the device process run out.
DeafSessionEnds ==
  (state = "Connected" /\ linkUp /\ ~listening) ~> (state = "ConnectPhy")
=============================================================================
