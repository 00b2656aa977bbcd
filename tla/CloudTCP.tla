------------------------------ MODULE CloudTCP ------------------------------
(***************************************************************************)
(* ArduinoIoTCloudTCP: the sketch calls update() over and over; each call  *)
(* runs one handler of the connection state machine.  The handler of the   *)
(* Connected state polls the MQTT client, which calls handleMessage() back *)
(* once per message that arrived, and then runs the device process and,    *)
(* when a thing is attached, the thing process.                            *)
(*                                                                         *)
(* One action per handler; handle_Connected is cut where the library calls *)
(* back, into BeginPoll, HandleMessage (any number) and EndPoll.  The      *)
(* broker, the cloud and the clock are the environment: the cloud may send *)
(* any command at any time, so a lost, late, repeated or reordered answer  *)
(* is an ordinary behaviour.                                               *)
(***************************************************************************)
EXTENDS CloudDevice, CloudThing

CONSTANTS Things,   \* identifiers of things
          NoThing   \* no thing: the initial and the "xxxxxxxx-..." id

ASSUME ThingsAssumption == NoThing \notin Things

VARIABLES
  state,      \* _state of the connection state machine
  polling,    \* inside the MQTT client's poll(), called by handle_Connected
  attempt,    \* _connection_attempt: is it a retry, is the pause over
  linkUp,     \* the MQTT client is connected to the broker
  listening,  \* the broker has the subscription to the command topic
  subs,       \* things whose data topic the broker has a subscription to
  thingId,    \* _thing_id
  topic,      \* the thing _dataTopicIn and _dataTopicOut were computed for
  dev,        \* _device
  thing,      \* _thing
  zone,       \* the time zone TimeService is configured with
  event       \* the last of the sketch's CONNECT and DISCONNECT callbacks run

session == <<linkUp, listening, subs>>
vars == <<state, polling, attempt, linkUp, listening, subs, thingId, topic,
          dev, thing, zone, event>>

-----------------------------------------------------------------------------
CloudStates ==
  {"ConnectPhy", "SyncTime", "ConnectMqttBroker", "Connected", "Disconnect"}

AnyThing == Things \cup {NoThing}

\* How a subscribe or unsubscribe call ends: acknowledged, refused or not sent,
\* or given up, which closes the connection.
Replies == {"ok", "refused", "closed"}

TypeOK ==
  /\ state \in CloudStates
  /\ polling \in BOOLEAN
  /\ attempt \in [retry : BOOLEAN, expired : BOOLEAN]
  /\ linkUp \in BOOLEAN
  /\ listening \in BOOLEAN
  /\ subs \subseteq Things
  /\ thingId \in AnyThing
  /\ topic \in AnyThing
  /\ dev \in Devices
  /\ thing \in ThingProcesses
  /\ zone \in AnyZone
  /\ event \in {"none", "CONNECT", "DISCONNECT"}

Init ==
  /\ state = "ConnectPhy"
  /\ polling = FALSE
  /\ attempt = [retry |-> FALSE, expired |-> TRUE]
  /\ linkUp = FALSE
  /\ listening = FALSE
  /\ subs = {}
  /\ thingId = NoThing
  /\ topic = NoThing
  /\ dev = DeviceBoot
  /\ thing = ThingBoot
  /\ zone = NoZone
  /\ event = "none"

-----------------------------------------------------------------------------
(* Connecting.                                                             *)

\* With the network down, or during the pause, the handler changes nothing.
ConnectPhy ==
  /\ state = "ConnectPhy"
  /\ ~attempt.retry \/ attempt.expired
  /\ state' = "SyncTime"
  /\ UNCHANGED <<polling, attempt, session, thingId, topic, dev, thing, zone, event>>

SyncTime(synced) ==
  /\ state = "SyncTime"
  /\ state' = IF synced THEN "ConnectMqttBroker" ELSE "ConnectPhy"
  /\ UNCHANGED <<polling, attempt, session, thingId, topic, dev, thing, zone, event>>

\* The broker accepts; whether it also accepts the subscription to the command
\* topic is not looked at.
BrokerAccepts(subscribed) ==
  /\ state = "ConnectMqttBroker"
  /\ linkUp' = TRUE
  /\ listening' = subscribed
  /\ subs' = {}
  /\ state' = "Connected"
  /\ UNCHANGED <<polling, attempt, thingId, topic, dev, thing, zone, event>>

BrokerRefuses ==
  /\ state = "ConnectMqttBroker"
  /\ attempt' = [retry |-> TRUE, expired |-> FALSE]
  /\ state' = "ConnectPhy"
  /\ UNCHANGED <<polling, session, thingId, topic, dev, thing, zone, event>>

-----------------------------------------------------------------------------
(* Messages from the cloud, handed over by poll().  A command needs the    *)
(* subscription to the command topic.                                      *)

CommandArrives == polling /\ linkUp /\ listening

\* The broker's side of one subscribe or unsubscribe call, which leaves it
\* with the data subscriptions s unless the connection is closed.
Session(reply, s) ==
  IF reply = "closed"
  THEN linkUp' = FALSE /\ listening' = FALSE /\ subs' = {}
  ELSE subs' = s /\ UNCHANGED <<linkUp, listening>>

\* Mutant: the sketch is told before the subscription is known to stand.
AttachThingTellingFirst(id, d, s, e, reply) ==
  /\ topic' = id
  /\ Session(reply, IF reply = "ok" THEN s \cup {id} ELSE s)
  /\ thingId' = IF reply = "ok" THEN id ELSE NoThing
  /\ dev' = IF reply = "ok" THEN DeviceHandle(d, "DeviceAttached") ELSE d
  /\ event' = "CONNECT"

\* attachThing(id), called with the device d, the data subscriptions s and the
\* last callback e.
AttachThing(id, d, s, e, reply) ==
  /\ topic' = id
  /\ Session(reply, IF reply = "ok" THEN s \cup {id} ELSE s)
  /\ thingId' = IF reply = "ok" THEN id ELSE NoThing
  /\ dev' = IF reply = "ok" THEN DeviceHandle(d, "DeviceAttached") ELSE d
  /\ event' = IF reply = "ok" THEN "CONNECT" ELSE e

\* detachThing(): nothing changes when the unsubscription fails.  Otherwise the
\* device is Detached and the broker keeps the Remaining subscriptions.
Detached == DeviceHandle(dev, "DeviceDetached")
Remaining == subs \ {topic}

DetachFails(reply) ==
  /\ reply # "ok"
  /\ Session(reply, subs)
  /\ UNCHANGED <<thingId, topic, dev, event>>

DetachThing(reply) ==
  \/ DetachFails(reply)
  \/ /\ reply = "ok"
     /\ Session(reply, Remaining)
     /\ dev' = Detached
     /\ thingId' = NoThing
     /\ event' = "DISCONNECT"
     /\ UNCHANGED topic

\* The cloud knows the board but has no thing for it.
NoThingAssigned ==
  /\ CommandArrives
  /\ thingId' = NoThing
  /\ dev' = DeviceHandle(dev, "DeviceRegistered")
  /\ UNCHANGED <<state, polling, attempt, session, topic, thing, zone, event>>

\* Mutant: the thing the board is attached to is not left.
ThingAssignedWithoutLeaving(id, left, joined) ==
  /\ CommandArrives
  /\ dev.attached => thingId # id
  /\ AttachThing(id, dev, subs, event, joined)
  /\ UNCHANGED <<state, polling, attempt, thing, zone>>

\* The cloud names the thing: leave another one first, then attach.  A board
\* that is attached to it already ignores the message.
ThingAssigned(id, left, joined) ==
  /\ CommandArrives
  /\ \/ /\ dev.attached
        /\ thingId # id
        /\ \/ DetachFails(left)
           \/ /\ left = "ok"
              /\ AttachThing(id, Detached, Remaining, "DISCONNECT", joined)
     \/ /\ ~dev.attached
        /\ AttachThing(id, dev, subs, event, joined)
  /\ UNCHANGED <<state, polling, attempt, thing, zone>>

\* A detach for another thing, or for a board that is not attached, is logged
\* as rejected and carried out all the same: id is read by the log only.
ThingDetach(id, left) ==
  /\ CommandArrives
  /\ DetachThing(left)
  /\ UNCHANGED <<state, polling, attempt, thing, zone>>

\* The thing process takes one ordinary step on the call, whether or not the
\* board is attached.
ThingCall(t, command, late) ==
  /\ thing' = ThingHandle(t, command, late)
  /\ zone' = ZoneAfter(t, command, late, zone)

Timezone(new) ==
  LET told == [thing EXCEPT !.localZone = new]
  IN  /\ CommandArrives
      /\ \E late \in LateChoices(told) : ThingCall(told, "Timezone", late)
      /\ UNCHANGED <<state, polling, attempt, session, thingId, topic, dev, event>>

\* The last values are decoded into the properties first: new is the zone
\* that the cloud's copies then hold, old where the message left a property out.
LastValuesUpdate(new) ==
  LET told == [thing EXCEPT !.cloudZone = new]
  IN  /\ CommandArrives
      /\ \E late \in LateChoices(told) : ThingCall(told, "LastValuesUpdate", late)
      /\ UNCHANGED <<state, polling, attempt, session, thingId, topic, dev, event>>

\* The data topic: only the zone properties matter here, new as before.
\* They are written on demand, so what is new stays with the cloud's copy for now.
ZoneProperty(new) ==
  /\ polling
  /\ linkUp
  /\ topic \in subs
  /\ thing' = [thing EXCEPT !.cloudZone = new]
  /\ UNCHANGED <<state, polling, attempt, session, thingId, topic, dev, zone, event>>

-----------------------------------------------------------------------------
(* The Connected and Disconnect handlers.                                  *)

Usable == linkUp /\ thing.state # "Disconnect" /\ dev.state # "Disconnected"

LeaveConnected ==
  /\ state = "Connected"
  /\ ~polling
  /\ ~Usable
  /\ state' = "Disconnect"
  /\ UNCHANGED <<polling, attempt, session, thingId, topic, dev, thing, zone, event>>

BeginPoll ==
  /\ state = "Connected"
  /\ ~polling
  /\ Usable
  /\ polling' = TRUE
  /\ UNCHANGED <<state, attempt, session, thingId, topic, dev, thing, zone, event>>

\* The rest of handle_Connected, after poll() returned.
EndPoll ==
  /\ polling
  /\ polling' = FALSE
  /\ dev' = DeviceHandle(dev, "Update")
  /\ IF DeviceHandle(dev, "Update").attached
     THEN \E late \in LateChoices(thing) : ThingCall(thing, "Update", late)
     ELSE UNCHANGED <<thing, zone>>
  /\ UNCHANGED <<state, attempt, session, thingId, topic, event>>

\* Mutant: the processes are not reset.
DisconnectKeepingProcesses ==
  /\ state = "Disconnect"
  /\ linkUp' = FALSE
  /\ listening' = FALSE
  /\ subs' = {}
  /\ event' = "DISCONNECT"
  /\ attempt' = [retry |-> FALSE, expired |-> TRUE]
  /\ state' = "ConnectPhy"
  /\ UNCHANGED <<polling, thingId, topic, dev, thing, zone>>

\* Mutant: the client is not stopped.
DisconnectKeepingClient ==
  /\ state = "Disconnect"
  /\ \E late \in LateChoices(thing) : ThingCall(thing, "Reset", late)
  /\ dev' = DeviceHandle(dev, "Reset")
  /\ event' = "DISCONNECT"
  /\ attempt' = [retry |-> FALSE, expired |-> TRUE]
  /\ state' = "ConnectPhy"
  /\ UNCHANGED <<polling, session, thingId, topic>>

\* Stops the client if it is still connected and resets both processes; _thing_id
\* and the topics keep the values of the session that ends.
Disconnect ==
  /\ state = "Disconnect"
  /\ linkUp' = FALSE
  /\ listening' = FALSE
  /\ subs' = {}
  /\ \E late \in LateChoices(thing) : ThingCall(thing, "Reset", late)
  /\ dev' = DeviceHandle(dev, "Reset")
  /\ event' = "DISCONNECT"
  /\ attempt' = [retry |-> FALSE, expired |-> TRUE]
  /\ state' = "ConnectPhy"
  /\ UNCHANGED <<polling, thingId, topic>>

-----------------------------------------------------------------------------
(* The environment: the connection drops (the session is clean, so the     *)
(* broker forgets the subscriptions), and pauses run out.                  *)

LinkLost ==
  /\ linkUp
  /\ linkUp' = FALSE
  /\ listening' = FALSE
  /\ subs' = {}
  /\ UNCHANGED <<state, polling, attempt, thingId, topic, dev, thing, zone, event>>

ReconnectPauseEnds ==
  /\ ~attempt.expired
  /\ attempt' = [attempt EXCEPT !.expired = TRUE]
  /\ UNCHANGED <<state, polling, session, thingId, topic, dev, thing, zone, event>>

AttachPauseEnds ==
  /\ ~dev.attempt.expired
  /\ dev' = [dev EXCEPT !.attempt.expired = TRUE]
  /\ UNCHANGED <<state, polling, attempt, session, thingId, topic, thing, zone, event>>

SyncPauseEnds ==
  /\ ~thing.attempt.expired
  /\ thing' = [thing EXCEPT !.attempt.expired = TRUE]
  /\ UNCHANGED <<state, polling, attempt, session, thingId, topic, dev, zone, event>>

-----------------------------------------------------------------------------
HandleMessage ==
  \/ NoThingAssigned
  \/ \E id \in Things, left, joined \in Replies : ThingAssigned(id, left, joined)
  \/ \E id \in Things, left \in Replies : ThingDetach(id, left)
  \/ \E new \in Zones : Timezone(new)
  \/ \E new \in Zones : LastValuesUpdate(new)
  \/ \E new \in Zones : ZoneProperty(new)

Update ==
  \/ ConnectPhy
  \/ \E synced \in BOOLEAN : SyncTime(synced)
  \/ \E subscribed \in BOOLEAN : BrokerAccepts(subscribed)
  \/ BrokerRefuses
  \/ LeaveConnected
  \/ BeginPoll
  \/ EndPoll
  \/ Disconnect

PauseEnds == ReconnectPauseEnds \/ AttachPauseEnds \/ SyncPauseEnds

Next == Update \/ HandleMessage \/ LinkLost \/ PauseEnds

Spec == Init /\ [][Next]_vars

-----------------------------------------------------------------------------
(* Safety.                                                                 *)

\* The thing the board is attached to in the session at hand, see IsAttached.
AttachedTo == IF IsAttached(dev) THEN topic ELSE NoThing

\* Between two sessions nothing of the last one is left: the MQTT client is
\* disconnected and both processes are back in Init, so that the next session
\* announces the board and asks for the last values again (handle_Disconnect is
\* the only way back, TCP.cpp:337-356).
FreshSession ==
  state \in {"ConnectPhy", "SyncTime", "ConnectMqttBroker"} =>
    /\ ~linkUp
    /\ dev.state = "Init"
    /\ thing.state = "Init"

\* While the connection stands, the broker forwards exactly the data of the
\* thing the device process says it is attached to: none when it is not
\* attached, never those of two things (attachThing and detachThing keep the
\* subscription and the _attached flag together, whatever fails in between,
\* TCP.cpp:507-543).
SubscriptionMatchesAttachment ==
  subs = IF linkUp /\ IsAttached(dev) THEN {topic} ELSE {}

\* The last callback the sketch saw is CONNECT exactly while it is attached:
\* no path attaches, detaches or resets without telling (TCP.cpp:351, 526, 542).
SketchKnowsAttachment == event = "CONNECT" <=> IsAttached(dev)

\* The zone the thing process works with is the one TimeService is configured
\* with, unless TimeService had to refuse it, over every order of Timezone
\* commands, last values and property updates, with offset and expiry together
\* or one at a time (Thing.cpp:97-100, 161-166, TimeService.cpp:203-213).
ZoneConfigured == ValidZone(thing.localZone) => zone = thing.localZone

\* The thing process starts publishing properties only when a LastValuesUpdate
\* finds it waiting for one: never straight from Init, never outside poll()
\* (Thing.cpp:89-95).
PublishAfterSync ==
  [][thing.state # "Connected" /\ thing'.state = "Connected" =>
       thing.state = "RequestLastValues" /\ polling /\ linkUp]_vars

\* The state of ThingSession, as CloudTCP computes it.
Attachment ==
  INSTANCE ThingSession WITH
    session <- IF state \in {"Connected", "Disconnect"}
               THEN IF linkUp THEN "open" ELSE "broken"
               ELSE "closed",
    attachedTo <- AttachedTo,
    receiving <- subs,
    told <- event

\* Every behaviour of the library is one of ThingSession: what the sketch is told
\* and what the broker forwards change together, one attachment at a time, over
\* every failure of a subscription, an unsubscription or the connection
\* (TCP.cpp:277-356, 389-420, 507-543).
ImplementsThingSession == Attachment!Spec
=============================================================================
