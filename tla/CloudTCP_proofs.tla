--------------------------- MODULE CloudTCP_proofs ---------------------------
(***************************************************************************)
(* Proofs about CloudTCP, for every set of things and of zones and every   *)
(* retry limit.                                                            *)
(***************************************************************************)
EXTENDS CloudTCP, CloudProcesses_proofs

-----------------------------------------------------------------------------
(* The inductive invariant: the four state invariants hold each other up,  *)
(* and need three facts about where the processes can be.                  *)

RetryLeft == dev.state = "SendCapabilities" => dev.attempt.count <= MaxAttachRetry

PollsWhenConnected == polling => state = "Connected"

AttachedToThing == IsAttached(dev) => topic \in Things

Inv ==
  /\ TypeOK
  /\ RetryLeft
  /\ PollsWhenConnected
  /\ AttachedToThing
  /\ FreshSession
  /\ SubscriptionMatchesAttachment
  /\ SketchKnowsAttachment
  /\ ZoneConfigured

\* The program starts in the invariant.
LEMMA InitInv == Init => Inv
<1> SUFFICES ASSUME Init PROVE Inv
  OBVIOUS
<1>1. Begun \in Attempts(MaxAttachRetry + 1) /\ Begun \in Attempts(MaxSyncRetry + 1)
  BY MaxAttachRetryAssumption, ThingAssumption DEF Begun, Attempts
<1>2. TypeOK
  BY <1>1, ZoneBootType DEF Init, TypeOK, CloudStates, AnyThing, Devices,
     DeviceStates, DeviceBoot, ThingProcesses, ThingStates, ThingBoot, AnyZone
<1>3. ~IsAttached(dev) /\ RetryLeft /\ AttachedToThing
  BY DEF Init, DeviceBoot, IsAttached, RetryLeft, AttachedToThing
<1>4. PollsWhenConnected /\ FreshSession /\ ZoneConfigured
  BY ZoneBootType DEF Init, DeviceBoot, ThingBoot, PollsWhenConnected, FreshSession, ZoneConfigured
<1>5. SubscriptionMatchesAttachment /\ SketchKnowsAttachment
  BY <1>3 DEF Init, SubscriptionMatchesAttachment, SketchKnowsAttachment
<1> QED
  BY <1>2, <1>3, <1>4, <1>5 DEF Inv

-----------------------------------------------------------------------------
(* Steps that several actions share.                                       *)

\* A call of the thing process leaves a process and a zone that fit together.
LEMMA ThingCallKeeps ==
  ASSUME NEW t \in ThingProcesses, NEW late \in LateChoices(t),
         NEW command \in ThingCommands,
         zone \in AnyZone, ThingCall(t, command, late),
         command # "Timezone" => (ValidZone(t.localZone) => zone = t.localZone)
  PROVE  /\ thing' \in ThingProcesses
         /\ zone' \in AnyZone
         /\ ZoneConfigured'
         /\ command = "Reset" => thing'.state = "Init"
<1>1. late \in BOOLEAN
  BY DEF LateChoices
<1>2. thing' = ThingHandle(t, command, late) /\ zone' = ZoneAfter(t, command, late, zone)
  BY DEF ThingCall
<1>3. thing' \in ThingProcesses
  BY <1>1, <1>2, ThingHandleType
<1>4. zone' \in AnyZone /\ ZoneConfigured'
  BY <1>1, <1>2, ZoneHandled DEF ZoneConfigured
<1>5. command = "Reset" => thing'.state = "Init"
  BY <1>1, <1>2, ThingRunType DEF ThingHandle, ThingEvent, ThingProcesses
<1> QED
  BY <1>3, <1>4, <1>5

\* The invariant speaks of the processes, the session and the callbacks in two
\* groups; an action that leaves one of them alone leaves its part of it alone.
attachmentVars == <<linkUp, subs, topic, dev, event>>
thingVars == <<thing, zone>>

Attached ==
  /\ dev \in Devices
  /\ linkUp \in BOOLEAN
  /\ subs \subseteq Things
  /\ topic \in AnyThing
  /\ event \in {"none", "CONNECT", "DISCONNECT"}
  /\ RetryLeft
  /\ AttachedToThing
  /\ SubscriptionMatchesAttachment
  /\ SketchKnowsAttachment

Zoned ==
  /\ thing \in ThingProcesses
  /\ zone \in AnyZone
  /\ ZoneConfigured

Placed ==
  /\ state \in CloudStates
  /\ polling \in BOOLEAN
  /\ attempt \in [retry : BOOLEAN, expired : BOOLEAN]
  /\ listening \in BOOLEAN
  /\ thingId \in AnyThing
  /\ PollsWhenConnected
  /\ FreshSession

\* The invariant is the three parts.
LEMMA InvParts == Inv <=> Attached /\ Zoned /\ Placed
BY DEF Inv, TypeOK, Attached, Zoned, Placed

\* The same of the next state.
LEMMA InvPartsNext == Attached' /\ Zoned' /\ Placed' => Inv'
BY DEF Inv, TypeOK, Attached, Zoned, Placed

\* What leaves the session and the device process alone keeps their part.
LEMMA AttachedStutters == Attached /\ UNCHANGED attachmentVars => Attached'
BY DEF Attached, attachmentVars, RetryLeft, AttachedToThing,
   SubscriptionMatchesAttachment, SketchKnowsAttachment, IsAttached

\* What leaves the thing process and the zone alone keeps theirs.
LEMMA ZonedStutters == Zoned /\ UNCHANGED thingVars => Zoned'
BY DEF Zoned, thingVars, ZoneConfigured

-----------------------------------------------------------------------------
(* attachThing() and detachThing().                                        *)

\* attachThing() is called without an attachment, and with no subscription left.
\* It ends with both or with neither.
LEMMA AttachThingKeeps ==
  ASSUME Attached, linkUp, NEW id \in Things, NEW d, DeviceOK(d), ~IsAttached(d),
         NEW e \in {"none", "DISCONNECT"}, NEW reply \in Replies,
         AttachThing(id, d, {}, e, reply)
  PROVE  /\ Attached'
         /\ thingId' \in AnyThing
         /\ linkUp' => linkUp
         /\ reply = "ok" => linkUp' /\ IsAttached(dev') /\ event' = "CONNECT"
         /\ reply # "ok" => dev' = d /\ event' = e
<1>1. CASE reply = "ok"
  <2>1. /\ dev' = DeviceHandle(d, "DeviceAttached")
        /\ topic' = id /\ thingId' = id /\ event' = "CONNECT"
        /\ subs' = {id} /\ linkUp' = linkUp
    BY <1>1 DEF AttachThing, Session
  <2>2. DeviceOK(dev') /\ IsAttached(dev')
    BY <2>1, DeviceHandleKeeps DEF DeviceCommands
  <2> QED
    BY <1>1, <2>1, <2>2 DEF Attached, RetryLeft, AttachedToThing,
       SubscriptionMatchesAttachment, SketchKnowsAttachment, DeviceOK, AnyThing
<1>2. CASE reply # "ok"
  <2>1. /\ dev' = d
        /\ topic' = id /\ thingId' = NoThing /\ event' = e
        /\ subs' = {} /\ linkUp' \in BOOLEAN
    BY <1>2 DEF AttachThing, Session, Attached
  <2> QED
    BY <1>2, <2>1 DEF Attached, RetryLeft, AttachedToThing,
       SubscriptionMatchesAttachment, SketchKnowsAttachment, DeviceOK, AnyThing
<1> QED
  BY <1>1, <1>2

\* A failed detachThing() keeps the attachment and its subscription, or loses
\* the connection.
LEMMA DetachFailsKeeps ==
  ASSUME Attached, linkUp, NEW reply \in Replies, DetachFails(reply)
  PROVE  Attached'
<1>1. UNCHANGED <<topic, dev, event>>
  BY DEF DetachFails
<1>2. CASE reply = "closed"
  <2>1. linkUp' = FALSE /\ subs' = {}
    BY <1>2 DEF DetachFails, Session
  <2> QED
    BY <1>1, <2>1 DEF Attached, RetryLeft, AttachedToThing,
       SubscriptionMatchesAttachment, SketchKnowsAttachment, IsAttached
<1>3. CASE reply # "closed"
  <2>1. UNCHANGED attachmentVars
    BY <1>1, <1>3 DEF DetachFails, Session, attachmentVars
  <2> QED
    BY <2>1, AttachedStutters
<1> QED
  BY <1>2, <1>3

\* A successful one leaves neither an attachment nor a subscription.
LEMMA DetachedIsFree ==
  ASSUME Attached
  PROVE  /\ DeviceOK(Detached)
         /\ ~IsAttached(Detached)
         /\ ~Detached.attached
         /\ Remaining = {}
<1>1. DeviceOK(dev)
  BY DEF Attached, RetryLeft, DeviceOK
<1>2. DeviceOK(Detached) /\ ~Detached.attached
  BY <1>1, DeviceHandleKeeps DEF Detached, DeviceCommands
<1>3. Remaining = {}
  BY DEF Attached, SubscriptionMatchesAttachment, Remaining
<1> QED
  BY <1>2, <1>3 DEF IsAttached

-----------------------------------------------------------------------------
(* Every step keeps the invariant.                                         *)

\* Every message that poll() hands over.
LEMMA HandleMessageKeeps ==
  ASSUME Inv, HandleMessage
  PROVE  Inv'
<1> USE InvParts, InvPartsNext
<1>1. Attached /\ Zoned /\ Placed
  OBVIOUS
<1>2. polling /\ linkUp /\ state = "Connected" /\ UNCHANGED <<state, polling, attempt>>
  BY <1>1 DEF HandleMessage, NoThingAssigned, ThingAssigned, ThingDetach, Timezone,
     LastValuesUpdate, ZoneProperty, CommandArrives, Placed, PollsWhenConnected
\* FreshSession says nothing of a connected board.
<1>3. ASSUME thingId' \in AnyThing, listening' \in BOOLEAN
      PROVE  Placed'
  BY <1>1, <1>2, <1>3 DEF Placed, PollsWhenConnected, FreshSession
<1>4. DeviceOK(dev)
  BY <1>1 DEF Attached, RetryLeft, DeviceOK
<1>5. CASE NoThingAssigned
  <2>1. /\ thingId' = NoThing /\ UNCHANGED <<linkUp, listening, subs, topic, event>>
        /\ dev' = DeviceHandle(dev, "DeviceRegistered")
    BY <1>5 DEF NoThingAssigned, session
  <2>2. DeviceOK(dev') /\ (IsAttached(dev') <=> IsAttached(dev))
    BY <1>4, <2>1, DeviceHandleKeeps DEF DeviceCommands
  <2>3. Attached'
    BY <1>1, <2>1, <2>2 DEF Attached, RetryLeft, AttachedToThing,
       SubscriptionMatchesAttachment, SketchKnowsAttachment, DeviceOK
  <2>4. Zoned'
    BY <1>1, <1>5, ZonedStutters DEF NoThingAssigned, thingVars
  <2>5. Placed'
    BY <1>1, <1>3, <2>1 DEF Placed, AnyThing
  <2> QED
    BY <2>3, <2>4, <2>5
<1>6. ASSUME NEW id \in Things, NEW left \in Replies, NEW joined \in Replies,
             ThingAssigned(id, left, joined)
      PROVE  Inv'
  <2>1. Zoned'
    BY <1>1, <1>6, ZonedStutters DEF ThingAssigned, thingVars
  <2>2. CASE DetachFails(left)
    <3>1. Attached'
      BY <1>1, <1>2, <2>2, DetachFailsKeeps
    <3>2. thingId' = thingId /\ listening' \in BOOLEAN
      BY <1>1, <2>2 DEF DetachFails, Session, Placed
    <3> QED
      BY <1>1, <1>3, <2>1, <3>1, <3>2 DEF Placed
  <2>3. CASE AttachThing(id, Detached, Remaining, "DISCONNECT", joined)
    <3>1. AttachThing(id, Detached, {}, "DISCONNECT", joined)
      BY <1>1, <2>3, DetachedIsFree
    <3>2. Attached' /\ thingId' \in AnyThing
      BY <1>1, <1>2, <3>1, DetachedIsFree, AttachThingKeeps
    <3>3. listening' \in BOOLEAN
      BY <1>1, <3>1 DEF AttachThing, Session, Placed
    <3> QED
      BY <1>3, <2>1, <3>2, <3>3
  <2>4. CASE ~dev.attached /\ AttachThing(id, dev, subs, event, joined)
    <3>1. ~IsAttached(dev) /\ subs = {} /\ event \in {"none", "DISCONNECT"}
      BY <1>1, <2>4 DEF IsAttached, Attached, SubscriptionMatchesAttachment,
         SketchKnowsAttachment
    <3>2. Attached' /\ thingId' \in AnyThing
      BY <1>1, <1>2, <1>4, <2>4, <3>1, AttachThingKeeps
    <3>3. listening' \in BOOLEAN
      BY <1>1, <2>4 DEF AttachThing, Session, Placed
    <3> QED
      BY <1>3, <2>1, <3>2, <3>3
  <2> QED
    BY <1>6, <2>2, <2>3, <2>4 DEF ThingAssigned
<1>7. ASSUME NEW id \in Things, NEW left \in Replies, ThingDetach(id, left)
      PROVE  Inv'
  <2>1. Zoned'
    BY <1>1, <1>7, ZonedStutters DEF ThingDetach, thingVars
  <2>2. CASE DetachFails(left)
    <3>1. Attached'
      BY <1>1, <1>2, <2>2, DetachFailsKeeps
    <3>2. thingId' = thingId /\ listening' \in BOOLEAN
      BY <1>1, <2>2 DEF DetachFails, Session, Placed
    <3> QED
      BY <1>1, <1>3, <2>1, <3>1, <3>2 DEF Placed
  <2>3. CASE ~DetachFails(left)
    <3>1. /\ dev' = Detached /\ subs' = Remaining /\ thingId' = NoThing
          /\ event' = "DISCONNECT" /\ UNCHANGED <<linkUp, listening, topic>>
      BY <1>7, <2>3 DEF ThingDetach, DetachThing, Session
    <3>2. Attached'
      BY <1>1, <3>1, DetachedIsFree DEF Attached, RetryLeft, AttachedToThing,
         SubscriptionMatchesAttachment, SketchKnowsAttachment, DeviceOK
    <3> QED
      BY <1>1, <1>3, <2>1, <3>1, <3>2 DEF Placed, AnyThing
  <2> QED
    BY <2>2, <2>3
<1>8. ASSUME NEW new \in Zones, Timezone(new)
      PROVE  Inv'
  <2> DEFINE told == [thing EXCEPT !.localZone = new]
  <2>1. told \in ThingProcesses /\ zone \in AnyZone
    BY <1>1 DEF Zoned, ThingProcesses, AnyZone
  <2>2. PICK late \in LateChoices(told) : ThingCall(told, "Timezone", late)
    BY <1>8 DEF Timezone
  <2> HIDE DEF told
  <2>3. Zoned'
    BY <2>1, <2>2, ThingCallKeeps DEF Zoned, ThingCommands
  <2>4. Attached'
    BY <1>1, <1>8, AttachedStutters DEF Timezone, session, attachmentVars
  <2>5. Placed'
    BY <1>1, <1>3, <1>8 DEF Timezone, session, Placed
  <2> QED
    BY <2>3, <2>4, <2>5
<1>9. ASSUME NEW new \in Zones, LastValuesUpdate(new)
      PROVE  Inv'
  <2> DEFINE told == [thing EXCEPT !.cloudZone = new]
  <2>1. /\ told \in ThingProcesses /\ zone \in AnyZone
        /\ ValidZone(told.localZone) => zone = told.localZone
    BY <1>1 DEF Zoned, ZoneConfigured, ThingProcesses
  <2>2. PICK late \in LateChoices(told) : ThingCall(told, "LastValuesUpdate", late)
    BY <1>9 DEF LastValuesUpdate
  <2> HIDE DEF told
  <2>3. Zoned'
    BY <2>1, <2>2, ThingCallKeeps DEF Zoned, ThingCommands
  <2>4. Attached'
    BY <1>1, <1>9, AttachedStutters DEF LastValuesUpdate, session, attachmentVars
  <2>5. Placed'
    BY <1>1, <1>3, <1>9 DEF LastValuesUpdate, session, Placed
  <2> QED
    BY <2>3, <2>4, <2>5
<1>10. ASSUME NEW new \in Zones, ZoneProperty(new)
       PROVE  Inv'
  <2>1. Zoned'
    BY <1>1, <1>10 DEF ZoneProperty, Zoned, ZoneConfigured, ThingProcesses, AnyZone
  <2>2. Attached'
    BY <1>1, <1>10, AttachedStutters DEF ZoneProperty, session, attachmentVars
  <2>3. Placed'
    BY <1>1, <1>3, <1>10 DEF ZoneProperty, session, Placed
  <2> QED
    BY <2>1, <2>2, <2>3
<1> QED
  BY <1>5, <1>6, <1>7, <1>8, <1>9, <1>10 DEF HandleMessage

\* Every handler of update().
LEMMA UpdateKeeps ==
  ASSUME Inv, Update
  PROVE  Inv'
<1> USE InvParts, InvPartsNext
<1>1. Attached /\ Zoned /\ Placed
  OBVIOUS
<1>2. DeviceOK(dev)
  BY <1>1 DEF Attached, RetryLeft, DeviceOK
<1>3. ASSUME UNCHANGED <<attachmentVars, thingVars>>
      PROVE  Attached' /\ Zoned'
  BY <1>1, <1>3, AttachedStutters, ZonedStutters
<1>4. CASE ConnectPhy
  BY <1>1, <1>3, <1>4 DEF ConnectPhy, session, attachmentVars, thingVars, Placed,
     PollsWhenConnected, FreshSession, CloudStates
<1>5. ASSUME NEW synced \in BOOLEAN, SyncTime(synced)
      PROVE  Inv'
  BY <1>1, <1>3, <1>5 DEF SyncTime, session, attachmentVars, thingVars, Placed,
     PollsWhenConnected, FreshSession, CloudStates
<1>6. ASSUME NEW subscribed \in BOOLEAN, BrokerAccepts(subscribed)
      PROVE  Inv'
  <2>1. ~IsAttached(dev)
    BY <1>1, <1>6 DEF BrokerAccepts, Placed, FreshSession, IsAttached
  <2>2. Attached'
    BY <1>1, <1>6, <2>1 DEF BrokerAccepts, Attached, RetryLeft, AttachedToThing,
       SubscriptionMatchesAttachment, SketchKnowsAttachment
  <2>3. Zoned'
    BY <1>1, <1>6, ZonedStutters DEF BrokerAccepts, thingVars
  <2>4. Placed'
    BY <1>1, <1>6 DEF BrokerAccepts, Placed, PollsWhenConnected, FreshSession, CloudStates
  <2> QED
    BY <2>2, <2>3, <2>4
<1>7. CASE BrokerRefuses
  BY <1>1, <1>3, <1>7 DEF BrokerRefuses, session, attachmentVars, thingVars, Placed,
     PollsWhenConnected, FreshSession, CloudStates
<1>8. CASE LeaveConnected
  BY <1>1, <1>3, <1>8 DEF LeaveConnected, session, attachmentVars, thingVars, Placed,
     PollsWhenConnected, FreshSession, CloudStates
<1>9. CASE BeginPoll
  BY <1>1, <1>3, <1>9 DEF BeginPoll, session, attachmentVars, thingVars, Placed,
     PollsWhenConnected, FreshSession, CloudStates
<1>10. CASE EndPoll
  <2>1. dev' = DeviceHandle(dev, "Update") /\ UNCHANGED <<linkUp, subs, topic, event>>
    BY <1>10 DEF EndPoll, session
  <2>2. DeviceOK(dev') /\ (IsAttached(dev') <=> IsAttached(dev))
    BY <1>2, <2>1, DeviceHandleKeeps DEF DeviceCommands
  <2>3. Attached'
    BY <1>1, <2>1, <2>2 DEF Attached, RetryLeft, AttachedToThing,
       SubscriptionMatchesAttachment, SketchKnowsAttachment, DeviceOK
  <2>4. Zoned'
    <3>1. CASE \E late \in LateChoices(thing) : ThingCall(thing, "Update", late)
      BY <1>1, <3>1, ThingCallKeeps DEF Zoned, ZoneConfigured, ThingCommands
    <3>2. CASE UNCHANGED <<thing, zone>>
      BY <1>1, <3>2, ZonedStutters DEF thingVars
    <3> QED
      BY <1>10, <3>1, <3>2 DEF EndPoll
  <2>5. Placed'
    BY <1>1, <1>10 DEF EndPoll, session, Placed, PollsWhenConnected, FreshSession
  <2> QED
    BY <2>3, <2>4, <2>5
<1>11. CASE Disconnect
  <2>1. /\ dev' = DeviceHandle(dev, "Reset") /\ linkUp' = FALSE /\ subs' = {}
        /\ event' = "DISCONNECT" /\ topic' = topic
    BY <1>11 DEF Disconnect
  <2>2. DeviceOK(dev') /\ dev'.state = "Init"
    BY <1>2, <2>1, DeviceHandleKeeps DEF DeviceCommands
  <2>3. Attached'
    BY <1>1, <2>1, <2>2 DEF Attached, RetryLeft, AttachedToThing,
       SubscriptionMatchesAttachment, SketchKnowsAttachment, DeviceOK, IsAttached
  <2>4. Zoned' /\ thing'.state = "Init"
    BY <1>1, <1>11, ThingCallKeeps DEF Disconnect, Zoned, ZoneConfigured, ThingCommands
  <2>5. Placed'
    BY <1>1, <1>11, <2>1, <2>2, <2>4 DEF Disconnect, Placed, PollsWhenConnected,
       FreshSession, CloudStates
  <2> QED
    BY <2>3, <2>4, <2>5
<1> QED
  BY <1>4, <1>5, <1>6, <1>7, <1>8, <1>9, <1>10, <1>11 DEF Update

\* A lost connection and the end of a pause.
LEMMA EnvironmentKeeps ==
  ASSUME Inv, LinkLost \/ PauseEnds
  PROVE  Inv'
<1> USE InvParts, InvPartsNext
<1>1. Attached /\ Zoned /\ Placed
  OBVIOUS
<1>2. CASE LinkLost
  <2>1. Attached'
    BY <1>1, <1>2 DEF LinkLost, Attached, RetryLeft, AttachedToThing,
       SubscriptionMatchesAttachment, SketchKnowsAttachment, IsAttached
  <2>2. Zoned'
    BY <1>1, <1>2, ZonedStutters DEF LinkLost, thingVars
  <2>3. Placed'
    BY <1>1, <1>2 DEF LinkLost, Placed, PollsWhenConnected, FreshSession
  <2> QED
    BY <2>1, <2>2, <2>3
<1>3. CASE ReconnectPauseEnds
  <2>1. Attached' /\ Zoned'
    BY <1>1, <1>3, AttachedStutters, ZonedStutters
    DEF ReconnectPauseEnds, session, attachmentVars, thingVars
  <2>2. Placed'
    BY <1>1, <1>3 DEF ReconnectPauseEnds, session, Placed, PollsWhenConnected,
       FreshSession
  <2> QED
    BY <2>1, <2>2
<1>4. CASE AttachPauseEnds
  <2>1. /\ dev' \in Devices
        /\ dev'.state = dev.state
        /\ dev'.attached = dev.attached
        /\ dev'.attempt.count = dev.attempt.count
    BY <1>1, <1>4 DEF AttachPauseEnds, Attached, Devices, Attempts
  <2>2. Attached'
    BY <1>1, <1>4, <2>1 DEF AttachPauseEnds, session, Attached, RetryLeft,
       AttachedToThing, SubscriptionMatchesAttachment, SketchKnowsAttachment, IsAttached
  <2>3. Zoned'
    BY <1>1, <1>4, ZonedStutters DEF AttachPauseEnds, thingVars
  <2>4. Placed'
    BY <1>1, <1>4, <2>1 DEF AttachPauseEnds, session, Placed, PollsWhenConnected,
       FreshSession
  <2> QED
    BY <2>2, <2>3, <2>4
<1>5. CASE SyncPauseEnds
  <2>1. /\ thing' \in ThingProcesses
        /\ thing'.state = thing.state
        /\ thing'.localZone = thing.localZone
    BY <1>1, <1>5 DEF SyncPauseEnds, Zoned, ThingProcesses, Attempts
  <2>2. Attached'
    BY <1>1, <1>5, AttachedStutters DEF SyncPauseEnds, session, attachmentVars
  <2>3. Zoned'
    BY <1>1, <1>5, <2>1 DEF SyncPauseEnds, Zoned, ZoneConfigured
  <2>4. Placed'
    BY <1>1, <1>5, <2>1 DEF SyncPauseEnds, session, Placed, PollsWhenConnected,
       FreshSession
  <2> QED
    BY <2>2, <2>3, <2>4
<1> QED
  BY <1>2, <1>3, <1>4, <1>5 DEF PauseEnds

\* A step that changes nothing.
LEMMA StutterKeeps ==
  ASSUME Inv, UNCHANGED vars
  PROVE  Inv'
BY InvParts, InvPartsNext, AttachedStutters, ZonedStutters
DEF vars, session, attachmentVars, thingVars, Placed, PollsWhenConnected, FreshSession

\* The induction: what the invariants below follow from.
THEOREM InvHolds == Spec => []Inv
<1>1. Init => Inv
  BY InitInv
<1>2. Inv /\ [Next]_vars => Inv'
  BY HandleMessageKeeps, UpdateKeeps, EnvironmentKeeps, StutterKeeps DEF Next
<1> QED
  BY <1>1, <1>2, PTL DEF Spec

-----------------------------------------------------------------------------
(* The safety properties.                                                  *)

\* The variables keep their types: in particular neither process counts more
\* than one retry past its limit, whatever commands interrupt it.
THEOREM TypeOKHolds == Spec => []TypeOK
BY InvHolds, PTL DEF Inv

\* Every session starts from a closed connection and fresh processes.
THEOREM FreshSessionHolds == Spec => []FreshSession
BY InvHolds, PTL DEF Inv

\* The broker forwards the data of exactly the thing the board is attached to.
THEOREM SubscriptionHolds == Spec => []SubscriptionMatchesAttachment
BY InvHolds, PTL DEF Inv

\* The last callback tells the sketch whether the board is attached.
THEOREM SketchKnowsHolds == Spec => []SketchKnowsAttachment
BY InvHolds, PTL DEF Inv

\* TimeService holds the zone the thing process works with.
THEOREM ZoneHolds == Spec => []ZoneConfigured
BY InvHolds, PTL DEF Inv

\* Publishing starts with the answer to a request for the last values only.
THEOREM PublishAfterSyncHolds == Spec => PublishAfterSync
<1> DEFINE Starts == thing.state # "Connected" /\ thing'.state = "Connected"
           Answered == thing.state = "RequestLastValues" /\ polling /\ linkUp
<1>1. ASSUME Inv, Next, Starts PROVE Answered
  <2>1. thing \in ThingProcesses /\ zone \in AnyZone
    BY <1>1 DEF Inv, TypeOK
  <2>2. ASSUME NEW new \in Zones, LastValuesUpdate(new) PROVE Answered
    <3> DEFINE told == [thing EXCEPT !.cloudZone = new]
    <3>1. told \in ThingProcesses /\ told.state = thing.state
      BY <2>1 DEF ThingProcesses
    <3>2. PICK late \in LateChoices(told) : ThingCall(told, "LastValuesUpdate", late)
      BY <2>2 DEF LastValuesUpdate
    <3> HIDE DEF told
    <3>3. late \in BOOLEAN
      BY <3>2 DEF LateChoices
    <3>4. told.state = "RequestLastValues"
      BY <1>1, <3>1, <3>2, <3>3, ConnectedByAnswer DEF ThingCall, ThingCommands
    <3> QED
      BY <2>2, <3>1, <3>4 DEF LastValuesUpdate, CommandArrives
  <2>3. ASSUME NEW new \in Zones, Timezone(new) PROVE FALSE
    <3> DEFINE told == [thing EXCEPT !.localZone = new]
    <3>1. told \in ThingProcesses /\ told.state = thing.state
      BY <2>1 DEF ThingProcesses, AnyZone
    <3>2. PICK late \in LateChoices(told) : ThingCall(told, "Timezone", late)
      BY <2>3 DEF Timezone
    <3> HIDE DEF told
    <3>3. late \in BOOLEAN
      BY <3>2 DEF LateChoices
    <3> QED
      BY <1>1, <3>1, <3>2, <3>3, ConnectedByAnswer DEF ThingCall, ThingCommands
  <2>4. ASSUME NEW command \in {"Update", "Reset"}, NEW late \in LateChoices(thing),
               ThingCall(thing, command, late)
        PROVE  FALSE
    <3>1. late \in BOOLEAN
      BY DEF LateChoices
    <3> QED
      BY <1>1, <2>1, <2>4, <3>1, ConnectedByAnswer DEF ThingCall, ThingCommands
  <2>5. ~EndPoll /\ ~Disconnect
    BY <1>1, <2>4 DEF EndPoll, Disconnect
  <2>6. \A new \in Zones : ~ZoneProperty(new)
    BY <1>1, <2>1 DEF ZoneProperty, ThingProcesses
  <2>7. ~SyncPauseEnds
    BY <1>1, <2>1 DEF SyncPauseEnds, ThingProcesses
  <2>8. thing' # thing
    BY <1>1
  <2> QED
    BY <1>1, <2>2, <2>3, <2>5, <2>6, <2>7, <2>8
    DEF Next, Update, HandleMessage, PauseEnds, ConnectPhy, SyncTime, BrokerAccepts,
        BrokerRefuses, LeaveConnected, BeginPoll, NoThingAssigned, ThingAssigned,
        ThingDetach, LinkLost, ReconnectPauseEnds, AttachPauseEnds
<1>2. ASSUME Inv, [Next]_vars
      PROVE  [Starts => Answered]_vars
  BY <1>1, <1>2
<1> QED
  BY <1>2, InvHolds, PTL DEF Spec, PublishAfterSync

-----------------------------------------------------------------------------
(* Refinement.                                                             *)

SessionSeen ==
  IF state \in {"Connected", "Disconnect"}
  THEN IF linkUp THEN "open" ELSE "broken"
  ELSE "closed"

abstractVars == <<SessionSeen, AttachedTo, subs, event>>

\* attachThing() without an attachment attaches, or changes nothing the sketch
\* can see but perhaps the connection.
LEMMA AttachThingRefines ==
  ASSUME Inv, Inv', state = "Connected", state' = "Connected", linkUp,
         NEW id \in Things, NEW d, DeviceOK(d), ~IsAttached(d),
         NEW e \in {"none", "DISCONNECT"}, NEW reply \in Replies,
         AttachThing(id, d, {}, e, reply)
  PROVE  IF reply = "ok"
         THEN Attachment!Attach(id)
         ELSE /\ SessionSeen' \in {"open", "broken"} /\ AttachedTo' = NoThing
              /\ subs' = {} /\ event' = e
<1>1. Attached /\ Attached'
  BY InvParts DEF Inv, Attached, TypeOK
<1>2. /\ topic' = id
      /\ reply = "ok" => linkUp' /\ IsAttached(dev') /\ event' = "CONNECT"
      /\ reply # "ok" => dev' = d /\ event' = e
  BY <1>1, AttachThingKeeps DEF AttachThing, Session
<1>3. subs' = IF reply = "ok" THEN {id} ELSE {}
  BY DEF AttachThing, Session
<1> QED
  BY <1>1, <1>2, <1>3 DEF Attached, Attachment!Attach, AttachedTo, SessionSeen

\* A message is a step of ThingSession, or nothing the sketch can see.
LEMMA HandleMessageRefines ==
  ASSUME Inv, Inv', HandleMessage
  PROVE  Attachment!Next \/ UNCHANGED abstractVars
<1>1. Attached /\ Attached' /\ Placed
  BY InvParts DEF Inv, Attached, TypeOK
<1>2. /\ linkUp /\ state = "Connected" /\ state' = "Connected"
      /\ SessionSeen = "open"
  BY <1>1 DEF HandleMessage, NoThingAssigned, ThingAssigned, ThingDetach, Timezone,
     LastValuesUpdate, ZoneProperty, CommandArrives, Placed, PollsWhenConnected, SessionSeen
<1>3. DeviceOK(dev)
  BY <1>1 DEF Attached, RetryLeft, DeviceOK
<1>4. CASE NoThingAssigned
  <2>1. IsAttached(dev') <=> IsAttached(dev)
    BY <1>3, <1>4, DeviceHandleKeeps DEF NoThingAssigned, DeviceCommands
  <2> QED
    BY <1>2, <1>4, <2>1 DEF NoThingAssigned, session, abstractVars, SessionSeen, AttachedTo
<1>5. ASSUME NEW reply \in Replies, DetachFails(reply)
      PROVE  Attachment!Break \/ UNCHANGED abstractVars
  BY <1>2, <1>5 DEF DetachFails, Session, Attachment!Break, abstractVars, SessionSeen,
     AttachedTo
<1>6. ASSUME NEW id \in Things, NEW left \in Replies, NEW joined \in Replies,
             ThingAssigned(id, left, joined)
      PROVE  Attachment!Next \/ UNCHANGED abstractVars
  <2>1. CASE DetachFails(left)
    BY <1>5, <2>1 DEF Attachment!Next
  <2>2. CASE AttachThing(id, Detached, Remaining, "DISCONNECT", joined)
    <3>1. AttachThing(id, Detached, {}, "DISCONNECT", joined)
      BY <1>1, <2>2, DetachedIsFree
    <3>2. IF joined = "ok"
          THEN Attachment!Attach(id)
          ELSE /\ SessionSeen' \in {"open", "broken"} /\ AttachedTo' = NoThing
               /\ subs' = {} /\ event' = "DISCONNECT"
      BY <1>1, <1>2, <3>1, DetachedIsFree, AttachThingRefines
    <3> QED
      BY <1>2, <3>2 DEF Attachment!Next, Attachment!Leave, SessionSeen
  <2>3. CASE ~dev.attached /\ AttachThing(id, dev, subs, event, joined)
    <3>1. ~IsAttached(dev) /\ subs = {} /\ event \in {"none", "DISCONNECT"}
      BY <1>1, <2>3 DEF IsAttached, Attached, SubscriptionMatchesAttachment,
         SketchKnowsAttachment
    <3>2. IF joined = "ok"
          THEN Attachment!Attach(id)
          ELSE /\ SessionSeen' \in {"open", "broken"} /\ AttachedTo' = NoThing
               /\ subs' = {} /\ event' = event
      BY <1>2, <1>3, <2>3, <3>1, AttachThingRefines
    <3> QED
      BY <1>2, <3>1, <3>2
      DEF Attachment!Next, Attachment!Break, abstractVars, SessionSeen, AttachedTo
  <2> QED
    BY <1>6, <2>1, <2>2, <2>3 DEF ThingAssigned
<1>7. ASSUME NEW id \in Things, NEW left \in Replies, ThingDetach(id, left)
      PROVE  Attachment!Next \/ UNCHANGED abstractVars
  <2>1. CASE DetachFails(left)
    BY <1>5, <2>1 DEF Attachment!Next
  <2>2. CASE ~DetachFails(left)
    <3>1. /\ dev' = Detached /\ subs' = Remaining /\ event' = "DISCONNECT"
          /\ linkUp' = linkUp
      BY <1>7, <2>2 DEF ThingDetach, DetachThing, Session
    <3>2. AttachedTo' = NoThing /\ subs' = {} /\ SessionSeen' = "open"
      BY <1>1, <1>2, <3>1, DetachedIsFree DEF AttachedTo, SessionSeen
    <3> QED
      BY <1>2, <3>1, <3>2 DEF Attachment!Next, Attachment!Leave, SessionSeen
  <2> QED
    BY <2>1, <2>2
<1>8. ASSUME \/ \E new \in Zones : Timezone(new)
             \/ \E new \in Zones : LastValuesUpdate(new)
             \/ \E new \in Zones : ZoneProperty(new)
      PROVE  UNCHANGED abstractVars
  <2>1. UNCHANGED <<state, session, topic, dev, event>>
    <3>1. ASSUME NEW new \in Zones, Timezone(new)
          PROVE  UNCHANGED <<state, session, topic, dev, event>>
      BY <3>1 DEF Timezone
    <3>2. ASSUME NEW new \in Zones, LastValuesUpdate(new)
          PROVE  UNCHANGED <<state, session, topic, dev, event>>
      BY <3>2 DEF LastValuesUpdate
    <3>3. ASSUME NEW new \in Zones, ZoneProperty(new)
          PROVE  UNCHANGED <<state, session, topic, dev, event>>
      BY <3>3 DEF ZoneProperty
    <3> QED
      BY <1>8, <3>1, <3>2, <3>3
  <2> QED
    BY <2>1 DEF session, abstractVars, SessionSeen, AttachedTo
<1> QED
  BY <1>4, <1>6, <1>7, <1>8 DEF HandleMessage

\* So is every other step.
LEMMA OtherStepsRefine ==
  ASSUME Inv, Inv', Update \/ LinkLost \/ PauseEnds \/ UNCHANGED vars
  PROVE  Attachment!Next \/ UNCHANGED abstractVars
<1>1. Attached /\ Attached' /\ Placed
  BY InvParts DEF Inv, Attached, TypeOK
<1>2. DeviceOK(dev)
  BY <1>1 DEF Attached, RetryLeft, DeviceOK
<1>3. ASSUME NEW subscribed \in BOOLEAN, BrokerAccepts(subscribed)
      PROVE  Attachment!Open
  BY <1>1, <1>3 DEF BrokerAccepts, Attachment!Open, Attached, Placed, FreshSession,
     SubscriptionMatchesAttachment, AttachedTo
<1>4. CASE EndPoll
  <2>1. IsAttached(dev') <=> IsAttached(dev)
    BY <1>2, <1>4, DeviceHandleKeeps DEF EndPoll, DeviceCommands
  <2> QED
    BY <1>4, <2>1 DEF EndPoll, session, abstractVars, SessionSeen, AttachedTo
<1>5. CASE Disconnect
  <2>1. dev'.state = "Init"
    BY <1>2, <1>5, DeviceHandleKeeps DEF Disconnect, DeviceCommands
  <2> QED
    BY <1>5, <2>1 DEF Disconnect, Attachment!Next, Attachment!Close, AttachedTo, IsAttached
<1>6. CASE LinkLost
  <2>1. state \in {"Connected", "Disconnect"}
    BY <1>1, <1>6 DEF LinkLost, Placed, FreshSession, CloudStates
  <2> QED
    BY <1>6, <2>1 DEF LinkLost, Attachment!Next, Attachment!Break, AttachedTo
<1>7. CASE AttachPauseEnds
  <2>1. dev'.state = dev.state /\ dev'.attached = dev.attached
    BY <1>1, <1>7 DEF AttachPauseEnds, Attached, Devices
  <2> QED
    BY <1>7, <2>1 DEF AttachPauseEnds, session, abstractVars, SessionSeen, AttachedTo,
       IsAttached
<1>8. ASSUME NEW synced \in BOOLEAN, SyncTime(synced)
      PROVE  UNCHANGED abstractVars
  BY <1>8 DEF SyncTime, session, abstractVars, SessionSeen, AttachedTo
<1>9. CASE ConnectPhy \/ BrokerRefuses \/ LeaveConnected \/ BeginPoll
  BY <1>9 DEF ConnectPhy, BrokerRefuses, LeaveConnected, BeginPoll, session,
     abstractVars, SessionSeen, AttachedTo
<1>10. CASE ReconnectPauseEnds \/ SyncPauseEnds \/ UNCHANGED vars
  BY <1>10 DEF ReconnectPauseEnds, SyncPauseEnds, vars, session, abstractVars,
     SessionSeen, AttachedTo
<1> QED
  BY <1>3, <1>4, <1>5, <1>6, <1>7, <1>8, <1>9, <1>10 DEF Update, PauseEnds, Attachment!Next

\* The library keeps the promise of ThingSession: one attachment per session,
\* received and reported as long as it lasts, and closed before the next one.
THEOREM Refinement == Spec => ImplementsThingSession
<1>1. Init => Attachment!Init
  BY DEF Init, DeviceBoot, Attachment!Init, AttachedTo, IsAttached
<1>2. Inv /\ Inv' /\ [Next]_vars => [Attachment!Next]_(Attachment!vars)
  <2>1. Inv /\ Inv' /\ [Next]_vars => Attachment!Next \/ UNCHANGED abstractVars
    BY HandleMessageRefines, OtherStepsRefine DEF Next
  <2>2. UNCHANGED abstractVars => UNCHANGED Attachment!vars
    BY DEF abstractVars, Attachment!vars, SessionSeen
  <2> QED
    BY <2>1, <2>2
<1> QED
  BY <1>1, <1>2, InvHolds, PTL DEF Spec, ImplementsThingSession, Attachment!Spec
=============================================================================
