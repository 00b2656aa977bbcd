------------------------------ MODULE CloudLPWAN ------------------------------
(***************************************************************************)
(* ArduinoIoTCloudLPWAN: the properties of a thing over a radio network.   *)
(* There are no commands and no session: the board sends what changed and  *)
(* takes over what it is told; it does not ask for the last values.  Each  *)
(* turn stamps local changes, decodes a message that is there, and encodes *)
(* and sends one, again if the radio reports a failure.  The wait before a *)
(* retry is the only point of a turn where the surroundings are seen to    *)
(* act; elsewhere what they do has the effect it would have just before it.*)
(***************************************************************************)
EXTENDS CBOREncoder, CBORDecoder

CONSTANTS
  MaxRetry,  \* _maxNumRetry, or 0 where retrying is not enabled
  MaxData,   \* bound on the changes under way to the board
  MaxLost    \* bound on the properties whose last change was lost

ASSUME LPWANAssumption == {MaxRetry, MaxData, MaxLost} \subseteq Nat

VARIABLES
  state,    \* the state of ArduinoIoTCloudLPWAN
  link,     \* the connection handler is CONNECTED
  tries,    \* the retries of the message that is being sent
  arrived,  \* one of the tries before has reached the cloud
  remote,   \* the values the cloud holds
  data,     \* changes under way to the board, in order
  lost      \* properties whose last change, of either side, was lost

sendVars == <<tries, arrived>>
cloudVars == <<remote, data, lost>>
vars == <<prop, enc, dec, state, link, sendVars, cloudVars>>

\* Time stamps decide nothing without last values: one time stands for all.
Now == 0

TypeOK ==
  /\ prop \in [Properties -> Slots]
  /\ enc \in Encoders
  /\ dec \in Decoders
  /\ state \in {"ConnectPhy", "SyncTime", "Connected"}
  /\ link \in BOOLEAN
  /\ tries \in 0 .. MaxRetry /\ arrived \in BOOLEAN
  /\ remote \in [Properties -> Values]
  /\ data \in Seq(Maps)
  /\ lost \subseteq Properties

Init ==
  /\ prop = PropertiesBoot
  /\ enc = EncoderBoot
  /\ dec = DecoderBoot
  /\ state = "ConnectPhy" /\ link = FALSE
  /\ tries = 0 /\ arrived = FALSE
  /\ remote \in [Properties -> Values]
  /\ \A p \in Properties : remote[p] \in Traits[p].values
  /\ data = <<>>
  /\ lost = {}

\* update() waits to try again.
Waiting == enc.state = "SendMessage" /\ tries > 0

\* Mutant: the sketch goes on while a message waits for its retry.
IdleOrWaiting == (enc.state = "Idle" \/ Waiting) /\ dec.state = "Idle"

\* No call of the library is running.
Idle == enc.state = "Idle" /\ dec.state = "Idle"

-----------------------------------------------------------------------------
(* The sketch and its surroundings.                                        *)

SketchWrites(p, v) ==
  /\ Idle
  /\ v \in Traits[p].values
  /\ prop' = [prop EXCEPT ![p].value = v]
  /\ UNCHANGED <<enc, dec, state, link, sendVars, cloudVars>>

\* push(): requestUpdateForAllProperties().
Push ==
  /\ Idle
  /\ prop' = [p \in Properties |-> RequestUpdate(p, prop[p])]
  /\ UNCHANGED <<enc, dec, state, link, sendVars, cloudVars>>

\* The time between two updates of p is over, seen when a message is packed.
Elapse(p) ==
  /\ Idle \/ (enc.state = "OpenCBORContainer" /\ dec.state = "Idle")
  /\ Traits[p].update # "OnDemand" /\ prop[p].once /\ ~prop[p].due
  /\ prop' = [prop EXCEPT ![p].due = TRUE]
  /\ UNCHANGED <<enc, dec, state, link, sendVars, cloudVars>>

\* A user of the cloud changes a property, also while the board waits.
CloudChanges(p, v) ==
  /\ Idle \/ Waiting
  /\ WriteableByCloud(p) /\ v \in Traits[p].values
  /\ Len(data) < MaxData
  /\ remote' = [remote EXCEPT ![p] = v]
  /\ data' = Append(data, [name |-> p, value |-> v, base |-> NotSet, time |-> Now])
  /\ UNCHANGED <<prop, enc, dec, state, link, sendVars, lost>>

\* A change does not reach the board.
DataLost ==
  /\ Idle /\ data # <<>>
  /\ lost' = lost \cup {Head(data).name}
  /\ Cardinality(lost') <= MaxLost
  /\ data' = Tail(data)
  /\ UNCHANGED <<prop, enc, dec, state, link, sendVars, remote>>

LinkChanges ==
  /\ Idle
  /\ link' = ~link
  /\ UNCHANGED <<prop, enc, dec, state, sendVars, cloudVars>>

\* The board restarts: nothing of the properties is kept.
Restart ==
  /\ Idle
  /\ prop' = PropertiesBoot /\ enc' = EncoderBoot
  /\ state' = "ConnectPhy"
  /\ lost' = {}
  /\ UNCHANGED <<dec, link, sendVars, remote, data>>

-----------------------------------------------------------------------------
(* update().                                                               *)

\* handle_ConnectPhy and handle_SyncTime; nothing is reset.
Connect ==
  /\ Idle
  /\ \/ state = "ConnectPhy" /\ link /\ state' = "SyncTime"
     \/ state = "SyncTime" /\ state' = "Connected"
  /\ UNCHANGED <<prop, enc, dec, link, sendVars, cloudVars>>

LeaveConnected ==
  /\ Idle
  /\ state = "Connected" /\ ~link
  /\ state' = "ConnectPhy"
  /\ UNCHANGED <<prop, enc, dec, link, sendVars, cloudVars>>

\* handle_Connected: k changes are there to be decoded, in one message.
BeginTurn(k) ==
  /\ Idle
  /\ state = "Connected" /\ link
  /\ prop' = [p \in Properties |-> StampLocalChange(p, prop[p], Now)]
  /\ dec' = IF k = 0 THEN dec ELSE Decode(SubSeq(data, 1, k), FALSE)
  /\ data' = SubSeq(data, k + 1, Len(data))
  /\ enc' = [enc EXCEPT !.state = "InitPropertyEncoder"]
  /\ UNCHANGED <<state, link, sendVars, remote, lost>>

\* edits: the values a callback of the sketch may write.
DecodeMessage(edits) ==
  /\ LeaveMap(edits) \/ LeaveLastMap(edits)
  /\ lost' = lost \ UpdatedNow
  /\ UNCHANGED <<enc, state, link, sendVars, remote, data>>

EncodeMessage ==
  /\ dec.state = "Idle" /\ EncodeStep
  /\ UNCHANGED <<dec, state, link, sendVars, cloudVars>>

\* The message reaches the cloud, or not, whatever write() returns.
Transmit(reaches) ==
  remote' = IF reaches
            THEN [p \in Properties |->
                    IF p \in enc.message THEN enc.payload[p] ELSE remote[p]]
            ELSE remote

\* writeProperties: write() returned a failure, and it waits to try again, ...
WriteFails(reaches) ==
  /\ enc.state = "SendMessage" /\ enc.message # {}
  /\ tries < MaxRetry
  /\ Transmit(reaches)
  /\ tries' = tries + 1
  /\ arrived' = (arrived \/ reaches)
  /\ lost' = IF reaches THEN lost \ enc.message ELSE lost
  /\ UNCHANGED <<prop, enc, dec, state, link, data>>

\* ... or it was the last try, or write() returned the length: the outcome is
\* not looked at.  A message without properties is not written at all.
WriteEnds(reaches) ==
  /\ enc.state = "SendMessage"
  /\ Transmit(reaches)
  /\ tries' = 0 /\ arrived' = FALSE
  /\ enc' = EncoderDone
  /\ lost' = CASE reaches              -> lost \ enc.message
               [] ~reaches /\ arrived  -> lost
               [] ~reaches /\ ~arrived -> lost \cup enc.message
  /\ Cardinality(lost') <= MaxLost
  /\ UNCHANGED <<prop, dec, state, link, data>>

Turn == Connect \/ LeaveConnected \/ BeginTurn(0)

Receive == \E k \in 1 .. Len(data) : BeginTurn(k)

WithinTurn ==
  \/ DecodeMessage(Values)
  \/ EncodeMessage
  \/ \E reaches \in BOOLEAN : WriteFails(reaches) \/ WriteEnds(reaches)

Surroundings ==
  \/ \E p \in Properties, v \in Values :
       SketchWrites(p, v) \/ CloudChanges(p, v)
  \/ Push \/ DataLost \/ LinkChanges \/ Restart
  \/ \E p \in Properties : Elapse(p)

Next == Surroundings \/ Turn \/ Receive \/ WithinTurn

Spec == Init /\ [][Next]_vars

-----------------------------------------------------------------------------
InFlight(p) ==
  \/ \E i \in 1 .. Len(data) : data[i].name = p
  \/ /\ dec.state # "Idle"
     /\ dec.name = p \/ \E i \in 1 .. Len(dec.rest) : dec.rest[i].name = p

\* p goes to the cloud with the next message that has room for it, or is in the
\* one that is being sent.
ToBeSent(p) ==
  Forced(prop[p]) \/ (enc.state = "SendMessage" /\ p \in enc.message)

\* A property whose copy is not what the cloud holds is marked to be sent, or a
\* change of it is on its way; else the last change was lost on the air.  So it
\* is although a message that failed may have arrived, be sent again and set
\* back what a user changed meanwhile.
NoChangeForgotten ==
  \A p \in Properties :
    ReadableByCloud(p) /\ prop[p].cloud # remote[p]
      => ToBeSent(p) \/ InFlight(p) \/ p \in lost

Mirror == INSTANCE PropertyMirror WITH
  Readable   <- {p \in Properties : ReadableByCloud(p)},
  Writeable  <- {p \in Properties : WriteableByCloud(p)},
  device     <- [p \in Properties |-> prop[p].value],
  cloud      <- [p \in Properties |-> remote[p]],
  publishing <- enc.state = "SendMessage"

\* A retry sends what the board has at that moment: its values do not change
\* while it waits.
ImplementsMirror == Mirror!Spec
=============================================================================
