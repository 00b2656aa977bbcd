---------------------------- MODULE PropertySync ----------------------------
(***************************************************************************)
(* The properties of a thing, on the board and in the cloud.  The board's  *)
(* side is the loop of ArduinoIoTCloudTCP in an attached session: it polls *)
(* the MQTT client, decodes what arrived, and runs the thing process, which*)
(* asks for the last values and then, each time, encodes and sends the     *)
(* properties that changed.  A call runs to its end before the sketch runs *)
(* again; only millis() is read several times in a call.  What happens in  *)
(* the cloud or to the connection during a call has the effect it would    *)
(* have just before it.                                                    *)
(***************************************************************************)
EXTENDS CBOREncoder, CBORDecoder

CONSTANTS
  Keys,       \* the sets of time keys that maps of the cloud may have
  MaxData,    \* bound on the changes under way to the board
  MaxAnswers, \* bound on the last-values answers under way to the board
  MaxLost     \* bound on the properties whose last publication was lost

ASSUME SyncAssumption ==
  /\ Keys \subseteq SUBSET {"base", "time"}
  /\ MaxData \in Nat /\ MaxAnswers \in Nat \ {0} /\ MaxLost \in Nat

VARIABLES
  thing,      \* the state of ArduinoCloudThing, "RequestLastValues" or "Connected"
  remote,     \* what the cloud holds: value and time of the last change
  data,       \* changes under way on the data topic, in order
  answers,    \* last-values answers under way on the message topic, in order
  clock,      \* getTime()
  lost,       \* properties whose last publication was lost
  overtaken   \* properties set by last values older than what the cloud holds

cloudVars == <<remote, data, answers, clock, lost>>
vars == <<prop, enc, dec, thing, cloudVars, overtaken>>

Remotes == [Properties -> [value : Values, time : Times]]

\* A change, and an answer, which is all the cloud held when it was sent.  How
\* they are put into maps is seen, and chosen, when they arrive.
CloudData == [name : Properties, value : Values, time : Times]

TypeOK ==
  /\ prop \in [Properties -> Slots]
  /\ enc \in Encoders
  /\ dec \in Decoders
  /\ thing \in {"RequestLastValues", "Connected"}
  /\ remote \in Remotes
  /\ data \in Seq(CloudData)
  /\ answers \in Seq(Remotes)
  /\ clock \in Times
  /\ lost \subseteq Properties /\ overtaken \subseteq Properties

Init ==
  /\ prop = PropertiesBoot
  /\ enc = EncoderBoot
  /\ dec = DecoderBoot
  /\ thing = "RequestLastValues"
  /\ remote \in [Properties -> [value : Values, time : {0}]]
  /\ \A p \in Properties : remote[p].value \in Traits[p].values
  /\ data = <<>> /\ answers = <<>>
  /\ clock = 0
  /\ lost = {} /\ overtaken = {}

\* No call of the library is running.
Idle == enc.state = "Idle" /\ dec.state = "Idle"

-----------------------------------------------------------------------------
(* The sketch and its surroundings.                                        *)

SketchWrites(p, v) ==
  /\ Idle
  /\ v \in Traits[p].values
  /\ prop' = [prop EXCEPT ![p].value = v]
  /\ UNCHANGED <<enc, dec, thing, cloudVars, overtaken>>

\* push(): requestUpdateForAllProperties().
Push ==
  /\ Idle
  /\ prop' = [p \in Properties |-> RequestUpdate(p, prop[p])]
  /\ UNCHANGED <<enc, dec, thing, cloudVars, overtaken>>

\* millis() moves on, between two calls or before a message is packed (again):
\* the time between two updates of p is over.  It is not asked for before the
\* first one.
Elapse(p) ==
  /\ Idle \/ enc.state = "OpenCBORContainer"
  /\ Traits[p].update # "OnDemand" /\ prop[p].once /\ ~prop[p].due
  /\ prop' = [prop EXCEPT ![p].due = TRUE]
  /\ UNCHANGED <<enc, dec, thing, cloudVars, overtaken>>

Tick ==
  /\ Idle /\ clock < MaxClock
  /\ clock' = clock + 1
  /\ UNCHANGED <<prop, enc, dec, thing, remote, data, answers, lost,
                 overtaken>>

\* A user of the cloud changes a property; the change is sent to the board.
CloudChanges(p, v) ==
  /\ Idle
  /\ WriteableByCloud(p) /\ v \in Traits[p].values
  /\ Len(data) < MaxData
  /\ remote' = [remote EXCEPT ![p] = [value |-> v, time |-> clock]]
  /\ data' = Append(data, [name |-> p, value |-> v, time |-> clock])
  /\ UNCHANGED <<prop, enc, dec, thing, answers, clock, lost, overtaken>>

\* The connection is lost, with what is under way, and opened again
\* (handle_Disconnect resets the thing process).
Reconnect ==
  /\ Idle
  /\ thing' = "RequestLastValues"
  /\ data' = <<>> /\ answers' = <<>>
  /\ UNCHANGED <<prop, enc, dec, remote, clock, lost, overtaken>>

\* The board restarts: nothing of the properties is kept.
Restart ==
  /\ Idle
  /\ prop' = PropertiesBoot /\ enc' = EncoderBoot
  /\ thing' = "RequestLastValues"
  /\ data' = <<>> /\ answers' = <<>>
  /\ lost' = {} /\ overtaken' = {}
  /\ UNCHANGED <<dec, remote, clock>>

-----------------------------------------------------------------------------
(* The thing process.                                                      *)

\* handleRequestLastValues sends LastValuesBegin, again if no answer comes, and
\* the cloud answers with what it holds.
RequestLastValues ==
  /\ Idle
  /\ thing = "RequestLastValues"
  /\ Len(answers) < MaxAnswers
  /\ answers' = Append(answers, remote)
  /\ UNCHANGED <<prop, enc, dec, thing, remote, data, clock, lost,
                 overtaken>>

\* handleConnected: stamps local changes, starts a message, and asks for the
\* last values again when the time zone ran out (late).
HandleConnected(late) ==
  /\ prop' = [p \in Properties |-> StampLocalChange(p, prop[p], clock)]
  /\ enc' = [enc EXCEPT !.state = "InitPropertyEncoder"]
  /\ thing' = IF late THEN "RequestLastValues" ELSE "Connected"

Update(late) ==
  /\ Idle
  /\ thing = "Connected"
  /\ HandleConnected(late)
  /\ UNCHANGED <<dec, cloudVars, overtaken>>

EncodeMessage ==
  /\ EncodeStep
  /\ UNCHANGED <<dec, thing, cloudVars, overtaken>>

\* sendPropertyContainerToCloud after encode(): a message with properties is
\* written, and the result of write() is not looked at.
SendMessage(arrives) ==
  /\ enc.state = "SendMessage"
  /\ enc' = EncoderDone
  /\ IF arrives
     THEN /\ remote' = [p \in Properties |->
                          IF p \in enc.message
                          THEN [value |-> enc.payload[p], time |-> clock]
                          ELSE remote[p]]
          /\ lost' = lost \ enc.message
          /\ overtaken' = overtaken \ enc.message
     ELSE /\ Cardinality(lost \cup enc.message) <= MaxLost
          /\ lost' = lost \cup enc.message
          /\ UNCHANGED <<remote, overtaken>>
  /\ UNCHANGED <<prop, dec, thing, data, answers, clock>>

-----------------------------------------------------------------------------
(* Messages from the cloud.                                                *)

\* The time keys a map may have.
Stamps ==
  {s \in [base : OptionalTimes, time : OptionalTimes] :
     {key \in DOMAIN s : s[key] # NotSet} \in Keys}

Stamped(p, v, s) == [name |-> p, value |-> v, base |-> s.base, time |-> s.time]

\* b is the base time in force at map i: the last one named by then, or else the
\* one before the maps.
BaseIs(base, maps, i, b) ==
  \/ \E j \in 1 .. i : /\ maps[j].base = b /\ b # NotSet
                        /\ \A k \in j + 1 .. i : maps[k].base = NotSet
  \/ b = base /\ \A k \in 1 .. i : maps[k].base = NotSet

\* Where a map says when its property was changed, in the way of SenML, it was
\* changed then, at times[p].
Honest(maps, times) ==
  \A i \in DOMAIN maps, b \in Times :
    BaseIs(0, maps, i, b) =>
      \/ b + Given(maps[i].time, 0) = times[maps[i].name]
      \/ b = 0 /\ maps[i].base = NotSet /\ maps[i].time = NotSet

DataArrives ==
  /\ Idle /\ data # <<>>
  /\ \E s \in Stamps :
       LET change == Head(data)
           maps   == <<Stamped(change.name, change.value, s)>>
       IN  /\ Honest(maps, [p \in Properties |-> change.time])
           /\ dec' = Decode(maps, FALSE)
  /\ data' = Tail(data)
  /\ UNCHANGED <<prop, enc, thing, remote, answers, clock, lost, overtaken>>

LastValues(held, stamps) ==
  [p \in Properties |-> Stamped(p, held[p].value, stamps[p])]

LastValuesArrive ==
  /\ Idle /\ answers # <<>>
  /\ \E stamps \in [Properties -> Stamps] :
       LET held == Head(answers)
           maps == LastValues(held, stamps)
       IN  /\ Honest(maps, [p \in Properties |-> held[p].time])
           /\ dec' = Decode(maps, TRUE)
  /\ answers' = Tail(answers)
  /\ UNCHANGED <<prop, enc, thing, remote, data, clock, lost, overtaken>>

\* edits: the values a callback of the sketch may write.
DecodeMessage(edits) ==
  /\ LeaveMap(edits) \/ LeaveLastMap(edits)
  /\ lost' = lost \ UpdatedNow
  /\ overtaken' = (overtaken \ UpdatedNow) \cup
                  {p \in UpdatedNow :
                     dec.sync /\ prop'[p].cloud # remote[p].value}
  /\ UNCHANGED <<enc, thing, remote, data, answers, clock>>

\* The thing process is told that the last values arrived: it is synchronised,
\* or was so already and takes an ordinary step.
LastValuesDone(late) ==
  /\ dec.state = "Complete"
  /\ dec' = DecoderBoot
  /\ IF thing = "Connected"
     THEN HandleConnected(late)
     ELSE thing' = "Connected" /\ UNCHANGED <<prop, enc>>
  /\ UNCHANGED <<cloudVars, overtaken>>

-----------------------------------------------------------------------------
Surroundings ==
  \/ \E p \in Properties, v \in Values : SketchWrites(p, v)
  \/ Push
  \/ \E p \in Properties : Elapse(p)
  \/ Tick
  \/ \E p \in Properties, v \in Values : CloudChanges(p, v)
  \/ Reconnect
  \/ Restart

MessageArrives == DataArrives \/ LastValuesArrive

Turn == RequestLastValues \/ \E late \in BOOLEAN : Update(late)

WithinCall ==
  \/ EncodeMessage
  \/ \E arrives \in BOOLEAN : SendMessage(arrives)
  \/ DecodeMessage(Values)
  \/ \E late \in BOOLEAN : LastValuesDone(late)

Next == Surroundings \/ MessageArrives \/ Turn \/ WithinCall

Spec == Init /\ [][Next]_vars

-----------------------------------------------------------------------------
InFlight(p) ==
  \/ \E i \in 1 .. Len(data) : data[i].name = p
  \/ dec.state # "Idle" /\ ~dec.sync
       /\ \/ dec.name = p
          \/ \E i \in 1 .. Len(dec.rest) : dec.rest[i].name = p

\* p goes to the cloud with the next message that has room for it, or is in the
\* one about to be written.
ToBeSent(p) ==
  Forced(prop[p]) \/ (enc.state = "SendMessage" /\ p \in enc.message)

\* While the board is synchronised, a property whose copy is not what the cloud
\* holds is marked to be sent, or a change of it is on its way to the board;
\* else its last publication was lost, or last values came too late.
NoChangeForgotten ==
  thing = "Connected" =>
    \A p \in Properties :
      ReadableByCloud(p) /\ prop[p].cloud # remote[p].value
        => ToBeSent(p) \/ InFlight(p) \/ p \in lost \cup overtaken

\* The time the board gives to the cloud's change of a property decides whether
\* the change is taken over at a synchronisation.  When the cloud named the time
\* of the change, it is not later than that: neither the time of a property that
\* came before it in the message nor that of an earlier message gets in.  (When
\* the cloud named none, the time of the property before it does get in.)
EventTimesAreOwn ==
  [][dec.state = "LeaveMap" /\ dec' # dec =>
       \A p \in UpdatedNow :
         TimeNamed(p) => prop'[p].cloudTime <= remote[p].time]_vars

DeviceValues == [p \in Properties |-> prop[p].value]

CloudValues == [p \in Properties |-> remote[p].value]

Mirror == INSTANCE PropertyMirror WITH
  Readable   <- {p \in Properties : ReadableByCloud(p)},
  Writeable  <- {p \in Properties : WriteableByCloud(p)},
  device     <- DeviceValues,
  cloud      <- CloudValues,
  publishing <- enc.state = "SendMessage"

\* However often a message is packed before it is sent, what the cloud gets are
\* the values the board has at that moment, of properties it may read.
ImplementsMirror == Mirror!Spec
=============================================================================
