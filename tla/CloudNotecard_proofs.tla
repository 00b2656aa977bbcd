------------------------ MODULE CloudNotecard_proofs ------------------------
(***************************************************************************)
(* Proofs about CloudNotecard, for every set of things and of zones, every *)
(* retry limit and every number of notes.                                  *)
(***************************************************************************)
EXTENDS CloudNotecard, CloudProcesses_proofs

-----------------------------------------------------------------------------
(* The inductive invariant, in three parts that most actions keep apart:   *)
(* the device process with what the sketch was told, the thing process     *)
(* with its zone, and the place of the call.                               *)

RetryLeft == dev.state = "SendCapabilities" => dev.attempt.count <= MaxAttachRetry

CallsWhenConnected == step # "between" => state = "Connected"

Told ==
  /\ dev \in Devices
  /\ event \in {"none", "CONNECT", "DISCONNECT"}
  /\ RetryLeft
  /\ SketchKnowsAttachment

Zoned ==
  /\ thing \in ThingProcesses
  /\ zone \in AnyZone
  /\ ZoneConfigured

Mailed ==
  /\ flag \in BOOLEAN /\ due \in BOOLEAN
  /\ pin \in BOOLEAN /\ sample \in BOOLEAN
  /\ waiting \in 0..MaxNotes
  /\ tail \in BOOLEAN
  /\ inHand \in {"none", "note", "tail"}

Placed ==
  /\ state \in NotecardStates
  /\ step \in Steps
  /\ linkUp \in BOOLEAN /\ interrupts \in BOOLEAN
  /\ thingId \in AnyThing
  /\ CallsWhenConnected
  /\ FreshSession

Inv == Told /\ Zoned /\ Mailed /\ Placed

\* The invariant holds the types.
LEMMA InvTypes == Inv => TypeOK
BY DEF Inv, TypeOK, Told, Zoned, Mailed, Placed

\* What leaves a part alone keeps it.
LEMMA ToldStutters == Told /\ UNCHANGED <<dev, event>> => Told'
BY DEF Told, RetryLeft, SketchKnowsAttachment, IsAttached

\* The same of the thing process.
LEMMA ZonedStutters == Zoned /\ UNCHANGED <<thing, zone>> => Zoned'
BY DEF Zoned, ZoneConfigured

\* The same of the notes.
LEMMA MailedStutters == Mailed /\ UNCHANGED mail => Mailed'
BY DEF Mailed, mail

\* The program starts in the invariant.
LEMMA InitInv == Init => Inv
<1> SUFFICES ASSUME Init PROVE Inv
  OBVIOUS
<1>1. Begun \in Attempts(MaxAttachRetry + 1) /\ Begun \in Attempts(MaxSyncRetry + 1)
  BY MaxAttachRetryAssumption, ThingAssumption DEF Begun, Attempts
<1>2. Told
  BY <1>1 DEF Init, Told, Devices, DeviceStates, DeviceBoot, RetryLeft,
     SketchKnowsAttachment, IsAttached
<1>3. Zoned
  BY <1>1, ZoneBootType DEF Init, Zoned, ThingProcesses, ThingStates, ThingBoot,
     AnyZone, ZoneConfigured
<1>4. Mailed
  <2>1. waiting \in 0..MaxNotes
    BY NotecardAssumption DEF Init
  <2>2. due \in BOOLEAN
    BY Zenon DEF Init
  <2> QED
    BY <2>1, <2>2 DEF Init, Mailed
<1>5. Placed
  <2>1. CallsWhenConnected /\ FreshSession
    BY DEF Init, CallsWhenConnected, FreshSession, DeviceBoot, ThingBoot
  <2>2. interrupts \in BOOLEAN
    BY DEF Init
  <2> QED
    BY <2>1, <2>2 DEF Init, Placed, NotecardStates, Steps, AnyThing
<1> QED
  BY <1>2, <1>3, <1>4, <1>5 DEF Inv

-----------------------------------------------------------------------------
(* Steps that several actions share.                                       *)

\* A call of the thing process leaves a process and a zone that fit together.
LEMMA ThingCallKeeps ==
  ASSUME NEW t \in ThingProcesses, NEW late \in LateChoices(t),
         NEW command \in ThingCommands,
         zone \in AnyZone, ThingCall(t, command, late),
         command # "Timezone" => (ValidZone(t.localZone) => zone = t.localZone)
  PROVE  /\ Zoned'
         /\ command = "Reset" => thing'.state = "Init"
<1>1. late \in BOOLEAN
  BY DEF LateChoices
<1>2. thing' = ThingHandle(t, command, late) /\ zone' = ZoneAfter(t, command, late, zone)
  BY DEF ThingCall
<1>3. thing' \in ThingProcesses
  BY <1>1, <1>2, ThingHandleType
<1>4. zone' \in AnyZone /\ ZoneConfigured'
  BY <1>1, <1>2, ZoneHandled DEF ZoneConfigured
<1>5. command = "Reset" => thing'.state = "Init"
  BY <1>1, <1>2, ThingRunType DEF ThingHandle, ThingEvent, ThingProcesses
<1> QED
  BY <1>3, <1>4, <1>5 DEF Zoned

\* attachThing() always attaches, and tells.
LEMMA AttachThingKeeps ==
  ASSUME NEW id \in Things, NEW d, DeviceOK(d), AttachThing(id, d)
  PROVE  Told' /\ thingId' \in AnyThing
<1>1. dev' = DeviceHandle(d, "DeviceAttached") /\ thingId' = id /\ event' = "CONNECT"
  BY DEF AttachThing
<1>2. DeviceOK(dev') /\ IsAttached(dev')
  BY <1>1, DeviceHandleKeeps DEF DeviceCommands
<1> QED
  BY <1>1, <1>2 DEF Told, RetryLeft, SketchKnowsAttachment, DeviceOK, AnyThing

\* A device that is detached is neither attached nor about to say so.
LEMMA DetachedIsFree ==
  ASSUME DeviceOK(dev)
  PROVE  DeviceOK(Detached) /\ ~IsAttached(Detached)
<1>1. DeviceOK(Detached) /\ ~Detached.attached
  BY DeviceHandleKeeps DEF Detached, DeviceCommands
<1> QED
  BY <1>1 DEF IsAttached

-----------------------------------------------------------------------------
(* Every step keeps the invariant.                                         *)

\* Every note.
LEMMA HandleNoteKeeps ==
  ASSUME Inv, HandleNote
  PROVE  Inv'
<1>1. Told /\ Zoned /\ Mailed /\ Placed
  BY DEF Inv
<1>2. DeviceOK(dev)
  BY <1>1 DEF Told, RetryLeft, DeviceOK
<1>3. Handles /\ tail' \in BOOLEAN
  BY <1>1 DEF HandleNote, NoThingAssigned, ThingAssigned, ThingDetach, Timezone,
     LastValuesUpdate, ZoneProperty, OtherNote, NoteTooLong, Command, Mailed
<1>4. Mailed'
  BY <1>1, <1>3 DEF Handles, Mailed
\* FreshSession says nothing of a connected board.
<1>5. ASSUME thingId' \in AnyThing
      PROVE  Placed'
  BY <1>1, <1>3, <1>5 DEF Handles, Placed, CallsWhenConnected, FreshSession, Steps
<1>6. ASSUME UNCHANGED <<thingId, dev, event>>
      PROVE  Placed' /\ Told'
  BY <1>1, <1>5, <1>6, ToldStutters DEF Placed
<1>7. ASSUME NEW new \in Zones, thing' = [thing EXCEPT !.cloudZone = new],
             zone' = zone
      PROVE  Zoned'
  BY <1>1, <1>7 DEF Zoned, ZoneConfigured, ThingProcesses
<1>8. CASE NoThingAssigned
  <2>1. /\ thingId' = NoThing /\ event' = event
        /\ dev' = DeviceHandle(dev, "DeviceRegistered")
    BY <1>8 DEF NoThingAssigned
  <2>2. DeviceOK(dev') /\ (IsAttached(dev') <=> IsAttached(dev))
    BY <1>2, <2>1, DeviceHandleKeeps DEF DeviceCommands
  <2>3. Told'
    BY <1>1, <2>1, <2>2 DEF Told, RetryLeft, SketchKnowsAttachment, DeviceOK
  <2>4. Zoned'
    BY <1>1, <1>8, ZonedStutters DEF NoThingAssigned
  <2> QED
    BY <1>4, <1>5, <2>1, <2>3, <2>4 DEF Inv, AnyThing
<1>9. ASSUME NEW id \in Things, ThingAssigned(id)
      PROVE  Inv'
  <2>1. Zoned'
    BY <1>1, <1>9, ZonedStutters DEF ThingAssigned
  <2>2. CASE AttachThing(id, Detached) \/ AttachThing(id, dev)
    BY <1>2, <1>4, <1>5, <2>1, <2>2, AttachThingKeeps, DetachedIsFree DEF Inv
  <2>3. CASE UNCHANGED <<thingId, dev, event>>
    BY <1>4, <1>6, <2>1, <2>3 DEF Inv
  <2> QED
    BY <1>9, <2>2, <2>3 DEF ThingAssigned
<1>10. CASE ThingDetach
  <2>1. dev' = Detached /\ thingId' = NoThing /\ event' = "DISCONNECT"
    BY <1>10 DEF ThingDetach, DetachThing
  <2>2. Told'
    BY <1>2, <2>1, DetachedIsFree DEF Told, RetryLeft, SketchKnowsAttachment, DeviceOK
  <2>3. Zoned'
    BY <1>1, <1>10, ZonedStutters DEF ThingDetach
  <2> QED
    BY <1>4, <1>5, <2>1, <2>2, <2>3 DEF Inv, AnyThing
<1>11. ASSUME NEW new \in Zones, Timezone(new)
       PROVE  Inv'
  <2> DEFINE told == [thing EXCEPT !.localZone = new]
  <2>1. told \in ThingProcesses /\ zone \in AnyZone
    BY <1>1 DEF Zoned, ThingProcesses, AnyZone
  <2>2. PICK late \in LateChoices(told) : ThingCall(told, "Timezone", late)
    BY <1>11 DEF Timezone
  <2> HIDE DEF told
  <2>3. Zoned'
    BY <2>1, <2>2, ThingCallKeeps DEF ThingCommands
  <2> QED
    BY <1>4, <1>6, <1>11, <2>3 DEF Timezone, Inv
<1>12. ASSUME NEW new \in Zones, LastValuesUpdate(new)
       PROVE  Inv'
  <2> DEFINE told == [thing EXCEPT !.cloudZone = new]
  <2>1. /\ told \in ThingProcesses /\ zone \in AnyZone
        /\ ValidZone(told.localZone) => zone = told.localZone
    BY <1>1 DEF Zoned, ZoneConfigured, ThingProcesses
  <2>2. PICK late \in LateChoices(told) : ThingCall(told, "LastValuesUpdate", late)
    BY <1>12 DEF LastValuesUpdate
  <2> HIDE DEF told
  <2>3. Zoned'
    BY <2>1, <2>2, ThingCallKeeps DEF ThingCommands
  <2> QED
    BY <1>4, <1>6, <1>12, <2>3 DEF LastValuesUpdate, Inv
<1>13. ASSUME NEW new \in Zones, ZoneProperty(new)
       PROVE  Inv'
  BY <1>4, <1>6, <1>7, <1>13 DEF ZoneProperty, Inv, AnyZone
<1>14. CASE OtherNote
  BY <1>1, <1>4, <1>6, <1>14, ZonedStutters DEF OtherNote, cloud, Inv
<1>15. CASE NoteTooLong
  <2>1. Zoned'
    BY <1>7, <1>15 DEF NoteTooLong
  <2> QED
    BY <1>4, <1>6, <1>15, <2>1 DEF NoteTooLong, Inv
<1> QED
  BY <1>8, <1>9, <1>10, <1>11, <1>12, <1>13, <1>14, <1>15 DEF HandleNote

\* Every handler of update().
LEMMA UpdateKeeps ==
  ASSUME Inv, Update
  PROVE  Inv'
<1>1. Told /\ Zoned /\ Mailed /\ Placed
  BY DEF Inv
<1>2. DeviceOK(dev)
  BY <1>1 DEF Told, RetryLeft, DeviceOK
<1>3. ASSUME UNCHANGED cloud
      PROVE  Told' /\ Zoned'
  BY <1>1, <1>3, ToldStutters, ZonedStutters DEF cloud
<1>4. CASE ConnectPhy \/ LeaveConnected \/ SkipNotecard
           \/ \E valid \in BOOLEAN : SyncTime(valid)
  <2>1. UNCHANGED <<mail, cloud, linkUp, interrupts>>
    BY <1>4 DEF ConnectPhy, LeaveConnected, SkipNotecard, SyncTime
  <2>2. Told' /\ Zoned' /\ Mailed'
    BY <1>1, <1>3, <2>1, MailedStutters
  <2>3. Placed'
    BY <1>1, <1>4, <2>1
    DEF ConnectPhy, LeaveConnected, SkipNotecard, SyncTime, cloud, Placed,
        CallsWhenConnected, FreshSession, NotecardStates, Steps
  <2> QED
    BY <2>2, <2>3 DEF Inv
<1>5. CASE AskNotecard \/ SamplePin \/ StoreFlag
  <2>1. UNCHANGED <<state, linkUp, interrupts, cloud>> /\ state = "Connected"
        /\ step' \in Steps
    BY <1>1, <1>5
    DEF AskNotecard, SamplePin, StoreFlag, Placed, CallsWhenConnected, Steps
  <2>2. Placed'
    BY <1>1, <2>1 DEF cloud, Placed, CallsWhenConnected, FreshSession
  <2>3. CASE AskNotecard
    <3>1. waiting' \in 0..MaxNotes
      BY <1>1, <2>3, NotecardAssumption DEF AskNotecard, Mailed
    <3>2. pin' \in BOOLEAN
      BY <1>1, <2>3 DEF AskNotecard, Mailed
    <3>3. Mailed'
      BY <1>1, <2>3, <3>1, <3>2 DEF AskNotecard, Mailed
    <3> QED
      BY <1>3, <2>1, <2>2, <3>3 DEF Inv
  <2>4. CASE SamplePin
    BY <1>1, <1>3, <2>1, <2>2, <2>4 DEF SamplePin, Mailed, Inv
  <2>5. CASE StoreFlag
    BY <1>1, <1>3, <2>1, <2>2, <2>5 DEF StoreFlag, Mailed, Inv
  <2> QED
    BY <1>5, <2>3, <2>4, <2>5
<1>6. CASE EndUpdate
  <2>1. dev' = DeviceHandle(dev, "Update") /\ event' = event
    BY <1>6 DEF EndUpdate
  <2>2. DeviceOK(dev') /\ (IsAttached(dev') <=> IsAttached(dev))
    BY <1>2, <2>1, DeviceHandleKeeps DEF DeviceCommands
  <2>3. Told'
    BY <1>1, <2>1, <2>2 DEF Told, RetryLeft, SketchKnowsAttachment, DeviceOK
  <2>4. Zoned'
    <3>1. CASE \E late \in LateChoices(thing) : ThingCall(thing, "Update", late)
      BY <1>1, <3>1, ThingCallKeeps DEF Zoned, ZoneConfigured, ThingCommands
    <3>2. CASE UNCHANGED <<thing, zone>>
      BY <1>1, <3>2, ZonedStutters
    <3> QED
      BY <1>6, <3>1, <3>2 DEF EndUpdate
  <2>5. Mailed' /\ Placed'
    BY <1>1, <1>6, MailedStutters
    DEF EndUpdate, Placed, CallsWhenConnected, FreshSession, Steps
  <2> QED
    BY <2>3, <2>4, <2>5 DEF Inv
<1>7. CASE Disconnect
  <2>1. dev' = DeviceHandle(dev, "Reset") /\ event' = "DISCONNECT"
    BY <1>7 DEF Disconnect
  <2>2. DeviceOK(dev') /\ dev'.state = "Init"
    BY <1>2, <2>1, DeviceHandleKeeps DEF DeviceCommands
  <2>3. Told'
    BY <1>1, <2>1, <2>2 DEF Told, RetryLeft, SketchKnowsAttachment, DeviceOK, IsAttached
  <2>4. Zoned' /\ thing'.state = "Init"
    BY <1>1, <1>7, ThingCallKeeps DEF Disconnect, Zoned, ZoneConfigured, ThingCommands
  <2>5. Mailed'
    BY <1>1, <1>7, MailedStutters DEF Disconnect
  <2>6. Placed'
    BY <1>1, <1>7, <2>2, <2>4
    DEF Disconnect, Placed, CallsWhenConnected, FreshSession, NotecardStates, Steps
  <2> QED
    BY <2>3, <2>4, <2>5, <2>6 DEF Inv
<1> QED
  BY <1>4, <1>5, <1>6, <1>7 DEF Update

\* Connection, notes, and the ends of intervals and pauses.
LEMMA SurroundingsKeep ==
  ASSUME Inv, Surroundings
  PROVE  Inv'
<1>1. Told /\ Zoned /\ Mailed /\ Placed
  BY DEF Inv
<1>2. CASE LinkChanges
  <2>1. Told' /\ Zoned' /\ Mailed'
    BY <1>1, <1>2, ToldStutters, ZonedStutters, MailedStutters DEF LinkChanges, cloud
  <2>2. Placed'
    BY <1>1, <1>2 DEF LinkChanges, cloud, Placed, CallsWhenConnected, FreshSession
  <2> QED
    BY <2>1, <2>2 DEF Inv
<1>3. CASE NoteArrives \/ ReadIntervalEnds
  <2>1. Told' /\ Zoned'
    BY <1>1, <1>3, ToldStutters, ZonedStutters DEF NoteArrives, ReadIntervalEnds, cloud
  <2>2. Placed'
    BY <1>1, <1>3
    DEF NoteArrives, ReadIntervalEnds, cloud, Placed, CallsWhenConnected, FreshSession
  <2>3. CASE NoteArrives
    <3>1. waiting' \in 0..MaxNotes
      BY <1>1, <2>3, NotecardAssumption DEF NoteArrives, Mailed
    <3>2. pin' \in BOOLEAN /\ flag' \in BOOLEAN
      BY <1>1, <2>3 DEF NoteArrives, Mailed, Placed
    <3>3. Mailed'
      BY <1>1, <2>3, <3>1, <3>2 DEF NoteArrives, Mailed
    <3> QED
      BY <2>1, <2>2, <3>3 DEF Inv
  <2>4. CASE ReadIntervalEnds
    BY <1>1, <2>1, <2>2, <2>4 DEF ReadIntervalEnds, Mailed, Inv
  <2> QED
    BY <1>3, <2>3, <2>4
<1>4. CASE AttachPauseEnds
  <2>1. /\ dev' \in Devices
        /\ dev'.state = dev.state
        /\ dev'.attached = dev.attached
        /\ dev'.attempt.count = dev.attempt.count
    BY <1>1, <1>4 DEF AttachPauseEnds, Told, Devices, Attempts
  <2>2. Told'
    BY <1>1, <1>4, <2>1
    DEF AttachPauseEnds, Told, RetryLeft, SketchKnowsAttachment, IsAttached
  <2>3. Zoned' /\ Mailed'
    BY <1>1, <1>4, ZonedStutters, MailedStutters DEF AttachPauseEnds
  <2>4. Placed'
    BY <1>1, <1>4, <2>1 DEF AttachPauseEnds, Placed, CallsWhenConnected, FreshSession
  <2> QED
    BY <2>2, <2>3, <2>4 DEF Inv
<1>5. CASE SyncPauseEnds
  <2>1. /\ thing' \in ThingProcesses
        /\ thing'.state = thing.state
        /\ thing'.localZone = thing.localZone
    BY <1>1, <1>5 DEF SyncPauseEnds, Zoned, ThingProcesses, Attempts
  <2>2. Told' /\ Mailed'
    BY <1>1, <1>5, ToldStutters, MailedStutters DEF SyncPauseEnds
  <2>3. Zoned'
    BY <1>1, <1>5, <2>1 DEF SyncPauseEnds, Zoned, ZoneConfigured
  <2>4. Placed'
    BY <1>1, <1>5, <2>1 DEF SyncPauseEnds, Placed, CallsWhenConnected, FreshSession
  <2> QED
    BY <2>2, <2>3, <2>4 DEF Inv
<1> QED
  BY <1>2, <1>3, <1>4, <1>5 DEF Surroundings

\* A step that changes nothing.
LEMMA StutterKeeps ==
  ASSUME Inv, UNCHANGED vars
  PROVE  Inv'
BY ToldStutters, ZonedStutters, MailedStutters
DEF vars, cloud, Inv, Placed, CallsWhenConnected, FreshSession

\* The induction: what the invariants below follow from.
THEOREM InvHolds == Spec => []Inv
<1>1. Init => Inv
  BY InitInv
<1>2. Inv /\ [Next]_vars => Inv'
  BY HandleNoteKeeps, UpdateKeeps, SurroundingsKeep, StutterKeeps DEF Next
<1> QED
  BY <1>1, <1>2, PTL DEF Spec

-----------------------------------------------------------------------------
(* The safety properties.                                                  *)

\* The variables keep their types: in particular neither process counts more
\* than one retry past its limit, whatever note interrupts it.
THEOREM TypeOKHolds == Spec => []TypeOK
BY InvHolds, InvTypes, PTL

\* Every session starts from fresh processes and between two calls.
THEOREM FreshSessionHolds == Spec => []FreshSession
<1>1. Inv => FreshSession
  BY DEF Inv, Placed
<1> QED
  BY <1>1, InvHolds, PTL

\* The last callback tells the sketch whether the board is attached.
THEOREM SketchKnowsHolds == Spec => []SketchKnowsAttachment
<1>1. Inv => SketchKnowsAttachment
  BY DEF Inv, Told
<1> QED
  BY <1>1, InvHolds, PTL

\* TimeService holds the zone the thing process works with.
THEOREM ZoneHolds == Spec => []ZoneConfigured
<1>1. Inv => ZoneConfigured
  BY DEF Inv, Zoned
<1> QED
  BY <1>1, InvHolds, PTL

\* Publishing starts with a note that answers a request for the last values only.
THEOREM PublishAfterSyncHolds == Spec => PublishAfterSync
<1> DEFINE Starts == thing.state # "Connected" /\ thing'.state = "Connected"
           Answered == thing.state = "RequestLastValues" /\ step = "handling"
                         /\ inHand = "note" /\ state = "Connected"
<1>1. ASSUME Inv, Next, Starts PROVE Answered
  <2>1. thing \in ThingProcesses /\ zone \in AnyZone /\ CallsWhenConnected
    BY <1>1 DEF Inv, Zoned, Placed
  <2>2. ASSUME NEW new \in Zones, LastValuesUpdate(new) PROVE Answered
    <3> DEFINE told == [thing EXCEPT !.cloudZone = new]
    <3>1. told \in ThingProcesses /\ told.state = thing.state
      BY <2>1 DEF ThingProcesses
    <3>2. PICK late \in LateChoices(told) : ThingCall(told, "LastValuesUpdate", late)
      BY <2>2 DEF LastValuesUpdate
    <3> HIDE DEF told
    <3>3. late \in BOOLEAN
      BY <3>2 DEF LateChoices
    <3>4. told.state = "RequestLastValues"
      BY <1>1, <3>1, <3>2, <3>3, ConnectedByAnswer DEF ThingCall, ThingCommands
    <3> QED
      BY <2>1, <2>2, <3>1, <3>4 DEF LastValuesUpdate, Command, Handles,
         CallsWhenConnected
  <2>3. ASSUME NEW new \in Zones, Timezone(new) PROVE FALSE
    <3> DEFINE told == [thing EXCEPT !.localZone = new]
    <3>1. told \in ThingProcesses /\ told.state = thing.state
      BY <2>1 DEF ThingProcesses, AnyZone
    <3>2. PICK late \in LateChoices(told) : ThingCall(told, "Timezone", late)
      BY <2>3 DEF Timezone
    <3> HIDE DEF told
    <3>3. late \in BOOLEAN
      BY <3>2 DEF LateChoices
    <3> QED
      BY <1>1, <3>1, <3>2, <3>3, ConnectedByAnswer DEF ThingCall, ThingCommands
  <2>4. ASSUME NEW command \in {"Update", "Reset"}, NEW late \in LateChoices(thing),
               ThingCall(thing, command, late)
        PROVE  FALSE
    <3>1. late \in BOOLEAN
      BY DEF LateChoices
    <3> QED
      BY <1>1, <2>1, <2>4, <3>1, ConnectedByAnswer DEF ThingCall, ThingCommands
  <2>5. thing' # thing
    BY <1>1
  <2>6. ~EndUpdate /\ ~Disconnect
    BY <2>4, <2>5 DEF EndUpdate, Disconnect
  <2>7. \A new \in Zones : thing' # [thing EXCEPT !.cloudZone = new]
    BY <1>1, <2>1 DEF ThingProcesses
  <2>8. ~NoteTooLong /\ \A new \in Zones : ~ZoneProperty(new)
    BY <2>5, <2>7 DEF NoteTooLong, ZoneProperty
  <2>9. ~SyncPauseEnds
    BY <1>1, <2>1 DEF SyncPauseEnds, ThingProcesses
  <2> QED
    BY <1>1, <2>2, <2>3, <2>5, <2>6, <2>8, <2>9
    DEF Next, Update, HandleNote, Surroundings, ConnectPhy, SyncTime, LeaveConnected,
        SkipNotecard, AskNotecard, SamplePin, StoreFlag, NoThingAssigned,
        ThingAssigned, ThingDetach, OtherNote, LinkChanges, NoteArrives,
        ReadIntervalEnds, AttachPauseEnds, cloud
<1>2. ASSUME Inv, [Next]_vars
      PROVE  [Starts => Answered]_vars
  BY <1>1, <1>2
<1> QED
  BY <1>2, InvHolds, PTL DEF Spec, PublishAfterSync
=============================================================================
