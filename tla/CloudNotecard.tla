--------------------------- MODULE CloudNotecard ---------------------------
(***************************************************************************)
(* ArduinoIoTCloudNotecard: the board talks to the cloud through a         *)
(* Notecard, which queues the messages from the cloud as notes.  There is  *)
(* no broker to connect to and nothing to subscribe to; each update() in   *)
(* Connected reads one note at most, then runs the device process and,     *)
(* when a thing is attached, the thing process.                            *)
(*                                                                         *)
(* Notes are asked for at intervals, or when the Notecard raised its       *)
(* interrupt: update() is cut where the interrupt handler matters, into    *)
(* AskNotecard, SamplePin, StoreFlag, HandleNote and EndUpdate.  What a    *)
(* note says is chosen when it is handled: the cloud may have sent         *)
(* anything.                                                               *)
(***************************************************************************)
EXTENDS CloudDevice, CloudThing

CONSTANTS Things,    \* identifiers of things
          NoThing,   \* no thing: the initial and the "xxxxxxxx-..." id
          MaxNotes   \* bound on the notes that wait in the Notecard

ASSUME NotecardAssumption == NoThing \notin Things /\ MaxNotes \in Nat

VARIABLES
  state,      \* _state of the connection state machine
  step,       \* how far the running call of handle_Connected is
  linkUp,     \* connected(): the Notecard is connected to Notehub
  interrupts, \* _interrupt_pin >= 0: begin() was given a pin
  flag,       \* _data_available, also set by the interrupt handler
  due,        \* the time since _notecard_last_poll_ms exceeds the interval
  pin,        \* the level of the interrupt pin
  sample,     \* the level StoreFlag is about to store
  waiting,    \* number of notes in the Notecard
  tail,       \* the rest of a note that was too long waits to be read
  inHand,     \* what available() found: "none", "note" or "tail"
  thingId,    \* _thing_id
  dev,        \* _device
  thing,      \* _thing
  zone,       \* the time zone TimeService is configured with
  event       \* the last of the sketch's CONNECT and DISCONNECT callbacks run

mail == <<flag, due, pin, sample, waiting, tail, inHand>>
cloud == <<thingId, dev, thing, zone, event>>
vars == <<state, step, linkUp, interrupts, mail, cloud>>

-----------------------------------------------------------------------------
NotecardStates == {"ConnectPhy", "SyncTime", "Connected", "Disconnect"}

\* "between" two calls, then in the order of a call.
Steps == {"between", "asked", "sampled", "handling", "handled"}

AnyThing == Things \cup {NoThing}

TypeOK ==
  /\ state \in NotecardStates
  /\ step \in Steps
  /\ linkUp \in BOOLEAN
  /\ interrupts \in BOOLEAN
  /\ flag \in BOOLEAN
  /\ due \in BOOLEAN
  /\ pin \in BOOLEAN
  /\ sample \in BOOLEAN
  /\ waiting \in 0..MaxNotes
  /\ tail \in BOOLEAN
  /\ inHand \in {"none", "note", "tail"}
  /\ thingId \in AnyThing
  /\ dev \in Devices
  /\ thing \in ThingProcesses
  /\ zone \in AnyZone
  /\ event \in {"none", "CONNECT", "DISCONNECT"}

\* After begin().  _notecard_last_poll_ms is one interval before the boot, which
\* makes the first poll due without a pin.
Init ==
  /\ state = "ConnectPhy"
  /\ step = "between"
  /\ linkUp = FALSE
  /\ interrupts \in BOOLEAN
  /\ flag = FALSE
  /\ due = ~interrupts
  /\ pin = FALSE
  /\ sample = FALSE
  /\ waiting = 0
  /\ tail = FALSE
  /\ inHand = "none"
  /\ thingId = NoThing
  /\ dev = DeviceBoot
  /\ thing = ThingBoot
  /\ zone = NoZone
  /\ event = "none"

-----------------------------------------------------------------------------
(* Connecting and disconnecting.                                           *)

\* _connection_attempt is begun but never retried, so its pause is never in
\* force (isRetry() is false).
ConnectPhy ==
  /\ state = "ConnectPhy"
  /\ linkUp
  /\ state' = "SyncTime"
  /\ UNCHANGED <<step, linkUp, interrupts, mail, cloud>>

SyncTime(valid) ==
  /\ state = "SyncTime"
  /\ state' = IF valid THEN "Connected" ELSE "ConnectPhy"
  /\ UNCHANGED <<step, linkUp, interrupts, mail, cloud>>

Usable == linkUp /\ thing.state # "Disconnect" /\ dev.state # "Disconnected"

LeaveConnected ==
  /\ state = "Connected" /\ step = "between"
  /\ ~Usable
  /\ state' = "Disconnect"
  /\ UNCHANGED <<step, linkUp, interrupts, mail, cloud>>

\* The thing process takes one ordinary step on the call, whether or not the
\* board is attached.
ThingCall(t, command, late) ==
  /\ thing' = ThingHandle(t, command, late)
  /\ zone' = ZoneAfter(t, command, late, zone)

\* Mutant: the processes are not reset.
DisconnectKeepingProcesses ==
  /\ state = "Disconnect"
  /\ event' = "DISCONNECT"
  /\ state' = "ConnectPhy"
  /\ UNCHANGED <<step, linkUp, interrupts, mail, thingId, dev, thing, zone>>

\* Mutant: the sketch is not told.
DisconnectSilently ==
  /\ state = "Disconnect"
  /\ \E late \in LateChoices(thing) : ThingCall(thing, "Reset", late)
  /\ dev' = DeviceHandle(dev, "Reset")
  /\ state' = "ConnectPhy"
  /\ UNCHANGED <<step, linkUp, interrupts, mail, thingId, event>>

\* The notes that wait in the Notecard, and _thing_id, outlive the session.
Disconnect ==
  /\ state = "Disconnect"
  /\ \E late \in LateChoices(thing) : ThingCall(thing, "Reset", late)
  /\ dev' = DeviceHandle(dev, "Reset")
  /\ event' = "DISCONNECT"
  /\ state' = "ConnectPhy"
  /\ UNCHANGED <<step, linkUp, interrupts, mail, thingId>>

-----------------------------------------------------------------------------
(* Asking the Notecard for a note.                                         *)

\* Mutant: with a pin the Notecard is asked after an interrupt only.
ReadOnInterruptOnly == IF interrupts THEN flag ELSE due

\* due stands for the polling interval without a pin, and for the longer
\* failsafe interval with one.
ReadDue == due \/ (interrupts /\ flag)

SkipNotecard ==
  /\ state = "Connected" /\ step = "between"
  /\ Usable /\ ~ReadDue
  /\ step' = "handled"
  /\ UNCHANGED <<state, linkUp, interrupts, mail, cloud>>

\* _connection->available(): bytes left over come first, then the next note is
\* taken from the Notecard.  The pin stays up while notes wait; without any it
\* may drop.
AskNotecard ==
  /\ state = "Connected" /\ step = "between"
  /\ Usable /\ ReadDue
  /\ step' = "asked"
  /\ inHand' = IF tail THEN "tail" ELSE IF waiting > 0 THEN "note" ELSE "none"
  /\ waiting' = IF tail \/ waiting = 0 THEN waiting ELSE waiting - 1
  /\ tail' = FALSE
  /\ pin' \in IF waiting' > 0 THEN {pin} ELSE {pin, FALSE}
  /\ UNCHANGED <<state, linkUp, interrupts, flag, due, sample, cloud>>

SamplePin ==
  /\ step = "asked"
  /\ sample' = (interrupts /\ pin)
  /\ step' = "sampled"
  /\ UNCHANGED <<state, linkUp, interrupts, flag, due, pin, waiting, tail,
                 inHand, cloud>>

\* An interrupt since SamplePin is forgotten here.
StoreFlag ==
  /\ step = "sampled"
  /\ flag' = sample
  /\ sample' = FALSE
  /\ due' = FALSE
  /\ step' = IF inHand = "none" THEN "handled" ELSE "handling"
  /\ UNCHANGED <<state, linkUp, interrupts, pin, waiting, tail, inHand, cloud>>

-----------------------------------------------------------------------------
(* The note in hand.                                                       *)

\* The part of handling a note that all notes share.
Handles ==
  /\ step = "handling"
  /\ step' = "handled"
  /\ inHand' = "none"
  /\ UNCHANGED <<state, linkUp, interrupts, flag, due, pin, sample, waiting>>

Command == Handles /\ inHand = "note" /\ UNCHANGED tail

\* attachThing(id) with the device d; it cannot fail.
AttachThing(id, d) ==
  /\ thingId' = id
  /\ dev' = DeviceHandle(d, "DeviceAttached")
  /\ event' = "CONNECT"

Detached == DeviceHandle(dev, "DeviceDetached")

DetachThing ==
  /\ dev' = Detached
  /\ thingId' = NoThing
  /\ event' = "DISCONNECT"

\* The cloud knows the board but has no thing for it.  A board that is attached
\* stays so, under no identifier.
NoThingAssigned ==
  /\ Command
  /\ thingId' = NoThing
  /\ dev' = DeviceHandle(dev, "DeviceRegistered")
  /\ UNCHANGED <<thing, zone, event>>

\* The cloud names the thing: another one is left first.
ThingAssigned(id) ==
  /\ Command
  /\ \/ /\ dev.attached /\ thingId # id
        /\ AttachThing(id, Detached)
     \/ /\ dev.attached /\ thingId = id
        /\ UNCHANGED <<thingId, dev, event>>
     \/ /\ ~dev.attached
        /\ AttachThing(id, dev)
  /\ UNCHANGED <<thing, zone>>

\* Whatever thing it names: a rejection is logged, and the detach carried out.
ThingDetach ==
  /\ Command
  /\ DetachThing
  /\ UNCHANGED <<thing, zone>>

Timezone(new) ==
  LET told == [thing EXCEPT !.localZone = new]
  IN  /\ Command
      /\ \E late \in LateChoices(told) : ThingCall(told, "Timezone", late)
      /\ UNCHANGED <<thingId, dev, event>>

\* The last values are decoded into the properties first: new is the zone
\* that the cloud's copies then hold, old where the note left a property out.
LastValuesUpdate(new) ==
  LET told == [thing EXCEPT !.cloudZone = new]
  IN  /\ Command
      /\ \E late \in LateChoices(told) : ThingCall(told, "LastValuesUpdate", late)
      /\ UNCHANGED <<thingId, dev, event>>

\* Telemetry of whatever thing, attached or not: only the zone properties matter
\* here, new as before.
ZoneProperty(new) ==
  /\ Command
  /\ thing' = [thing EXCEPT !.cloudZone = new]
  /\ UNCHANGED <<thingId, dev, zone, event>>

\* Other telemetry, an unknown topic, or bytes that cannot be decoded: the rest
\* of a note is never the beginning of one.
OtherNote == Handles /\ UNCHANGED <<tail, cloud>>

\* A note longer than the buffer, and no longer than two: of its beginning no
\* command can be decoded, but telemetry as far as it goes; the rest is read like
\* another note.
NoteTooLong ==
  /\ Handles
  /\ inHand = "note"
  /\ tail' = TRUE
  /\ \E new \in Zones : thing' = [thing EXCEPT !.cloudZone = new]
  /\ UNCHANGED <<thingId, dev, zone, event>>

HandleNote ==
  \/ NoThingAssigned
  \/ \E id \in Things : ThingAssigned(id)
  \/ ThingDetach
  \/ \E new \in Zones : Timezone(new)
  \/ \E new \in Zones : LastValuesUpdate(new)
  \/ \E new \in Zones : ZoneProperty(new)
  \/ OtherNote
  \/ NoteTooLong

\* The rest of handle_Connected.
EndUpdate ==
  /\ step = "handled"
  /\ step' = "between"
  /\ dev' = DeviceHandle(dev, "Update")
  /\ IF DeviceHandle(dev, "Update").attached
     THEN \E late \in LateChoices(thing) : ThingCall(thing, "Update", late)
     ELSE UNCHANGED <<thing, zone>>
  /\ UNCHANGED <<state, linkUp, interrupts, mail, thingId, event>>

-----------------------------------------------------------------------------
(* The surroundings.                                                       *)

\* Seen at the next check(), so between two calls is when it matters.
LinkChanges ==
  /\ step = "between"
  /\ linkUp' = ~linkUp
  /\ UNCHANGED <<state, step, interrupts, mail, cloud>>

\* A note arrives; the rising edge of the pin runs ISR_dataAvailable.
NoteArrives ==
  /\ waiting < MaxNotes
  /\ waiting' = waiting + 1
  /\ pin' = interrupts
  /\ flag' = (flag \/ (interrupts /\ ~pin))
  /\ UNCHANGED <<state, step, linkUp, interrupts, due, sample, tail, inHand, cloud>>

ReadIntervalEnds ==
  /\ step = "between" /\ ~due
  /\ due' = TRUE
  /\ UNCHANGED <<state, step, linkUp, interrupts, flag, pin, sample, waiting,
                 tail, inHand, cloud>>

AttachPauseEnds ==
  /\ step = "between" /\ ~dev.attempt.expired
  /\ dev' = [dev EXCEPT !.attempt.expired = TRUE]
  /\ UNCHANGED <<state, step, linkUp, interrupts, mail, thingId, thing, zone, event>>

SyncPauseEnds ==
  /\ step = "between" /\ ~thing.attempt.expired
  /\ thing' = [thing EXCEPT !.attempt.expired = TRUE]
  /\ UNCHANGED <<state, step, linkUp, interrupts, mail, thingId, dev, zone, event>>

-----------------------------------------------------------------------------
Update ==
  \/ ConnectPhy
  \/ \E valid \in BOOLEAN : SyncTime(valid)
  \/ LeaveConnected
  \/ SkipNotecard
  \/ AskNotecard
  \/ SamplePin
  \/ StoreFlag
  \/ EndUpdate
  \/ Disconnect

Surroundings ==
  LinkChanges \/ NoteArrives \/ ReadIntervalEnds \/ AttachPauseEnds \/ SyncPauseEnds

Next == Update \/ HandleNote \/ Surroundings

Spec == Init /\ [][Next]_vars

-----------------------------------------------------------------------------
(* Safety.                                                                 *)

\* Between two sessions both processes are back in Init and no call is left
\* unfinished, whatever ended the session: the next one announces the board and
\* asks for the last values again (Notecard.cpp:206-225).
FreshSession ==
  state \in {"ConnectPhy", "SyncTime"} =>
    step = "between" /\ dev.state = "Init" /\ thing.state = "Init"

\* The last callback the sketch saw is CONNECT exactly while the device process
\* is attached, also when a note of an earlier session attaches, moves or detaches
\* the board in this one (Notecard.cpp:220, 241, 275).
SketchKnowsAttachment == event = "CONNECT" <=> IsAttached(dev)

\* The zone the thing process works with is the one TimeService is configured
\* with, unless TimeService had to refuse it, over every order of zone notes and
\* resets (Thing.cpp:97-100, 161-166, TimeService.cpp:203-213).
ZoneConfigured == ValidZone(thing.localZone) => zone = thing.localZone

\* The thing process starts publishing only on a last-values note that finds it
\* waiting for one, in a session (Thing.cpp:89-95, Notecard.cpp:362-367).
PublishAfterSync ==
  [][thing.state # "Connected" /\ thing'.state = "Connected" =>
       thing.state = "RequestLastValues" /\ step = "handling" /\ inHand = "note"
         /\ state = "Connected"]_vars
=============================================================================
