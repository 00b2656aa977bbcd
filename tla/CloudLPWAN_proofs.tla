-------------------------- MODULE CloudLPWAN_proofs --------------------------
(***************************************************************************)
(* Proofs about CloudLPWAN, for every container, every declaration of its  *)
(* properties, every size of the buffer and of the properties, every       *)
(* number of retries, and all bounds.                                      *)
(***************************************************************************)
EXTENDS CloudLPWAN, TLAPS

-----------------------------------------------------------------------------
(* The properties, the encoder and the decoder are those of PropertySync.  *)
(* What is proved there about their operations does not depend on the rest *)
(* of that system, so its lemmas are used here, with a cloud that stands   *)
(* still and sends nothing.                                                *)

StillCloud == [p \in Properties |-> [value |-> Traits[p].start, time |-> 0]]

S == INSTANCE PropertySync_proofs WITH
  Keys <- {{}}, MaxAnswers <- 1, thing <- "Connected", remote <- StillCloud, data <- <<>>,
  answers <- <<>>, clock <- 0, lost <- {}, overtaken <- {}

\* The sets both modules take from the components are the same, ...
LEMMA SameSets ==
  /\ S!Properties = Properties /\ S!Times = Times /\ S!NoName = NoName
  /\ S!Slots = Slots /\ S!Encoders = Encoders
  /\ S!Maps = Maps /\ S!Decoders = Decoders
  BY DEF S!Properties, Properties, S!Times, Times, S!ChangeTimes, ChangeTimes,
         S!NotSet, NotSet, S!OptionalTimes, OptionalTimes, S!NoName, NoName,
         S!Slots, Slots, S!EncoderStates, EncoderStates, S!Encoders, Encoders,
         S!Maps, Maps, S!Decoders, Decoders

\* ... and what is assumed of the constants, ...
LEMMA SameAssumptions ==
  S!PropertyAssumption /\ S!EncoderAssumption /\ S!SyncAssumption
  BY PropertyAssumption, EncoderAssumption, LPWANAssumption
  DEF S!PropertyAssumption, S!EncoderAssumption, S!SyncAssumption, S!Properties,
      Properties, S!TraitSet, TraitSet

\* ... what a property is, ...
LEMMA SameProperty ==
  /\ \A p : S!ReadableByCloud(p) <=> ReadableByCloud(p)
  /\ \A p : S!WriteableByCloud(p) <=> WriteableByCloud(p)
  /\ \A s : S!Forced(s) <=> Forced(s)
  BY DEF S!ReadableByCloud, ReadableByCloud, S!WriteableByCloud,
         WriteableByCloud, S!Forced, Forced

\* ... the operations of the surroundings on one, ...
LEMMA SameOperations ==
  /\ \A p, s : S!RequestUpdate(p, s) = RequestUpdate(p, s)
  /\ \A p, s, t : S!StampLocalChange(p, s, t) = StampLocalChange(p, s, t)
  BY DEF S!RequestUpdate, RequestUpdate, S!StampLocalChange, StampLocalChange,
         S!ReadableByCloud, ReadableByCloud

\* ... the states of the three at rest, ...
LEMMA SameRest ==
  /\ S!PropertiesBoot = PropertiesBoot
  /\ S!EncoderBoot = EncoderBoot /\ S!EncoderDone = EncoderDone
  /\ S!DecoderBoot = DecoderBoot
  /\ \A m, sync : S!Decode(m, sync) = Decode(m, sync)
  BY DEF S!PropertiesBoot, PropertiesBoot, S!Declared, Declared, S!Properties,
         Properties, S!EncoderBoot, EncoderBoot, S!EncoderDone, EncoderDone,
         S!DecoderBoot, DecoderBoot, S!Decode, Decode, S!NoName, NoName

\* ... the steps of the encoder, ...
LEMMA SameEncodeStep == EncodeStep <=> S!EncodeStep
<1> USE DEF Properties, S!Properties, EncoderBoot, S!EncoderBoot
<1>1. /\ InitPropertyEncoder <=> S!InitPropertyEncoder
      /\ OpenCBORContainer <=> S!OpenCBORContainer
  BY DEF InitPropertyEncoder, S!InitPropertyEncoder, OpenCBORContainer,
         S!OpenCBORContainer
<1>2. \A p : Wanted(p) <=> S!Wanted(p)
  BY DEF Wanted, S!Wanted, ShouldBeUpdated, S!ShouldBeUpdated, Forced, S!Forced,
         IsDifferentFromCloud, S!IsDifferentFromCloud, Distance, S!Distance,
         ReadableByCloud, S!ReadableByCloud
<1>3. Cursor = S!Cursor BY DEF Cursor, S!Cursor
<1>4. \A p : Fits(p) <=> S!Fits(p) BY DEF Fits, S!Fits
<1>5. TryAppendPass <=> S!TryAppendPass
  BY <1>2, <1>3 DEF TryAppendPass, S!TryAppendPass, AfterProperty, S!AfterProperty
<1>6. TryAppendFits <=> S!TryAppendFits
  BY <1>2, <1>3, <1>4
  DEF TryAppendFits, S!TryAppendFits, AfterProperty, S!AfterProperty, Extended,
      S!Extended, Append1, S!Append1
<1>7. /\ TryAppendFull <=> S!TryAppendFull
      /\ TryAppendEnd <=> S!TryAppendEnd
  BY <1>2, <1>3, <1>4
  DEF TryAppendFull, S!TryAppendFull, TryAppendEnd, S!TryAppendEnd
<1>8. /\ OutOfMemory <=> S!OutOfMemory
      /\ SkipProperty <=> S!SkipProperty
      /\ TrimAppend <=> S!TrimAppend
  BY DEF OutOfMemory, S!OutOfMemory, SkipProperty, S!SkipProperty, AdvancedIndex,
         S!AdvancedIndex, TrimAppend, S!TrimAppend, Limited, S!Limited
<1>9. /\ CloseCBORContainer <=> S!CloseCBORContainer
      /\ TrimClose <=> S!TrimClose
  BY DEF CloseCBORContainer, S!CloseCBORContainer, TrimClose, S!TrimClose,
         Limited, S!Limited
<1>10. /\ FinishAppend <=> S!FinishAppend
       /\ EncodeError <=> S!EncodeError
  BY DEF FinishAppend, S!FinishAppend, AppendCompleted, S!AppendCompleted,
         AdvancedIndex, S!AdvancedIndex, EncodeError, S!EncodeError,
         EncoderDone, S!EncoderDone
<1> QED
  BY <1>1, <1>5, <1>6, <1>7, <1>8, <1>9, <1>10 DEF EncodeStep, S!EncodeStep

\* ... and those of the decoder.
LEMMA SameDecodeStep ==
  /\ LeaveMap(Values) <=> S!LeaveMap(Values)
  /\ LeaveLastMap(Values) <=> S!LeaveLastMap(Values)
  /\ Collected = S!Collected
  /\ UpdatedNow = S!UpdatedNow
<1>1. NextProperty <=> S!NextProperty
  BY DEF NextProperty, S!NextProperty, NoName, S!NoName
<1>2. Collected = S!Collected
  BY <1>1 DEF Collected, S!Collected, LaterOf, S!LaterOf, Given, S!Given, NotSet,
              S!NotSet, NoName, S!NoName
<1>3. UpdatedNow = S!UpdatedNow
  BY <1>1 DEF UpdatedNow, S!UpdatedNow, WriteableByCloud, S!WriteableByCloud,
              Properties, S!Properties
<1>4. ASSUME NEW props, NEW p, NEW v, NEW t, NEW sync
      PROVE  UpdateProperty(props, p, v, t, sync, Values)
               = S!UpdateProperty(props, p, v, t, sync, Values)
  BY DEF UpdateProperty, S!UpdateProperty, Changes, S!Changes,
         ExecCallbackOnSync, S!ExecCallbackOnSync, ExecCallbackOnChange,
         S!ExecCallbackOnChange, FromCloudToLocal, S!FromCloudToLocal,
         WriteableByCloud, S!WriteableByCloud, IsDifferentFromCloud,
         S!IsDifferentFromCloud, Distance, S!Distance
<1>5. UpdatedBefore(Values) = S!UpdatedBefore(Values)
  BY <1>1, <1>4 DEF UpdatedBefore, S!UpdatedBefore
<1>6. LeaveMap(Values) <=> S!LeaveMap(Values)
  BY <1>2, <1>5 DEF LeaveMap, S!LeaveMap
<1>7. LeaveLastMap(Values) <=> S!LeaveLastMap(Values)
  BY <1>2, <1>4, <1>5, SameRest DEF LeaveLastMap, S!LeaveLastMap
<1> QED BY <1>2, <1>3, <1>6, <1>7

-----------------------------------------------------------------------------
(* The inductive invariant.                                                *)

\* What is in the message is what the board has, and what the loop of the
\* encoder passed over was not marked.
EncoderInv == S!EncoderInv

\* A turn decodes before it encodes, and changes only.
TurnInOrder ==
  /\ dec.state # "Idle" =>
       /\ enc.state = "InitPropertyEncoder" /\ enc.message = {}
       /\ dec.state = "LeaveMap" /\ dec.rest # <<>> /\ ~dec.sync

\* Changes are of properties a user of the cloud may set.
Permitted ==
  /\ \A i \in 1 .. Len(data) : WriteableByCloud(data[i].name)
  /\ \A i \in 1 .. Len(dec.rest) : WriteableByCloud(dec.rest[i].name)
  /\ dec.name # NoName => WriteableByCloud(dec.name)

\* Once a try of the message arrived, the cloud holds what is in it, or a user
\* changed that since and the change is under way: it cannot be decoded, nor be
\* lost, before the message is given up.
ArrivedIsKnown ==
  /\ tries > 0 \/ arrived => enc.state = "SendMessage"
  /\ arrived => \A p \in enc.message : remote[p] = enc.payload[p] \/ InFlight(p)

AccountedFor(p) ==
  prop[p].cloud = remote[p] \/ ToBeSent(p) \/ InFlight(p) \/ p \in lost

AllAccounted == \A p \in Properties : ReadableByCloud(p) => AccountedFor(p)

IndInv ==
  /\ TypeOK /\ EncoderInv /\ TurnInOrder
  /\ Permitted /\ ArrivedIsKnown /\ AllAccounted

\* The types of the components, as the lemmas of PropertySync ask for them.
LEMMA ComponentTypes ==
  ASSUME prop \in [Properties -> Slots], enc \in Encoders, dec \in Decoders
  PROVE  S!TypeOK
<1>1. StillCloud \in S!Remotes
  <2>1. 0 \in Times /\ \A p \in Properties : Traits[p].start \in Values
    BY PropertyAssumption DEF Times, TraitSet
  <2> QED BY <2>1, SameSets DEF StillCloud, S!Remotes
<1>2. /\ <<>> \in Seq(Maps) /\ <<>> \in Seq(Seq(Maps)) /\ 0 \in Times
  BY PropertyAssumption DEF Times
<1> QED BY <1>1, <1>2, SameSets DEF S!TypeOK

\* What a step of the encoder does: it marks what it copies, and unmarks nothing
\* readable but what is in the finished message.
LEMMA EncoderOutcome ==
  ASSUME TypeOK, EncoderInv, EncodeStep
  PROVE  /\ prop' \in [Properties -> Slots] /\ enc' \in Encoders /\ EncoderInv'
         /\ enc.state # "Idle" /\ enc.state # "SendMessage"
         /\ \A p \in Properties :
              /\ prop'[p].value = prop[p].value
              /\ prop'[p].cloud = prop[p].cloud \/ Forced(prop'[p])
              /\ ReadableByCloud(p) /\ ToBeSent(p) => ToBeSent(p)'
<1>1. S!EncoderOutcome /\ enc.state # "Idle" /\ enc.state # "SendMessage"
  BY ComponentTypes, SameAssumptions, SameEncodeStep, S!EncodeOutcome
  DEF TypeOK, EncoderInv, S!PropertyAssumption, S!EncoderAssumption,
      S!SyncAssumption
<1>2. /\ prop' \in [Properties -> Slots] /\ enc' \in Encoders /\ EncoderInv'
      /\ \A p \in Properties :
           /\ prop'[p].value = prop[p].value
           /\ prop'[p].cloud = prop[p].cloud \/ Forced(prop'[p])
           /\ ReadableByCloud(p) /\ Forced(prop[p])
                => \/ Forced(prop'[p])
                   \/ enc'.state = "SendMessage" /\ p \in enc'.message
  BY <1>1, SameSets, SameProperty DEF S!EncoderOutcome, EncoderInv
<1> QED BY <1>1, <1>2 DEF ToBeSent

\* What a step of the decoder does: it updates the properties of UpdatedNow, which
\* it marks, and no other.
LEMMA DecoderOutcome ==
  ASSUME TypeOK, TurnInOrder, LeaveMap(Values) \/ LeaveLastMap(Values)
  PROVE  /\ prop' \in [Properties -> Slots]
         /\ \A p \in Properties \ UpdatedNow : prop'[p] = prop[p]
         /\ \A p \in UpdatedNow : Forced(prop'[p])
         /\ Head(dec.rest) = dec.rest[1] /\ Head(dec.rest) \in Maps
         /\ Collected.name = Head(dec.rest).name
         /\ Collected.rest = Tail(dec.rest)
         /\ Collected.state = dec.state /\ Collected.sync = dec.sync
         /\ Collected \in Decoders
         /\ ~dec.sync
<1>1. S!TypeOK BY ComponentTypes DEF TypeOK
<1>2. dec.rest # <<>> /\ ~dec.sync
  BY DEF LeaveMap, LeaveLastMap, TurnInOrder
<1>3. Values \in SUBSET Values OBVIOUS
<1>4. /\ prop' \in [S!Properties -> S!Slots]
      /\ \A p \in S!Properties \ S!UpdatedNow : prop'[p] = prop[p]
      /\ \A p \in S!UpdatedNow : dec.sync \/ S!Forced(prop'[p])
  BY <1>1, <1>3, SameAssumptions, SameDecodeStep, S!UpdatedOutcome
  DEF S!PropertyAssumption, S!EncoderAssumption, S!SyncAssumption
<1>5. /\ Head(dec.rest) = dec.rest[1] /\ Head(dec.rest) \in S!Maps
      /\ S!Collected.name = Head(dec.rest).name
      /\ S!Collected.rest = Tail(dec.rest)
      /\ S!Collected.state = dec.state /\ S!Collected.sync = dec.sync
      /\ S!Collected \in S!Decoders
  BY <1>1, <1>2, SameAssumptions, S!CollectedOutcome
  DEF S!PropertyAssumption, S!EncoderAssumption, S!SyncAssumption
<1> QED BY <1>2, <1>4, <1>5, SameSets, SameProperty, SameDecodeStep

\* The components as the board boots.
LEMMA Boot ==
  /\ PropertiesBoot \in [Properties -> Slots]
  /\ \A p \in Properties : Forced(PropertiesBoot[p])
  /\ EncoderBoot \in Encoders /\ EncoderBoot.state = "Idle"
  /\ EncoderBoot.message = {}
  /\ DecoderBoot \in Decoders /\ DecoderBoot.state = "Idle"
  /\ DecoderBoot.rest = <<>> /\ DecoderBoot.name = NoName
<1>1. <<>> \in Seq(S!Maps) /\ FALSE \in BOOLEAN OBVIOUS
<1>2. S!DecoderBoot \in S!Decoders
  BY <1>1, SameAssumptions, S!DecodeBegins
  DEF S!PropertyAssumption, S!EncoderAssumption, S!SyncAssumption
<1>3. /\ S!PropertiesBoot \in [S!Properties -> S!Slots]
      /\ \A p \in S!Properties : S!Forced(S!PropertiesBoot[p])
      /\ S!EncoderBoot \in S!Encoders
  BY SameAssumptions, S!BootOutcome, S!EncoderAtRest
  DEF S!PropertyAssumption, S!EncoderAssumption, S!SyncAssumption
<1> QED
  BY <1>2, <1>3, SameSets, SameProperty, SameRest DEF EncoderBoot, DecoderBoot

\* An encoder at rest has nothing in the buffer.
LEMMA EncoderResting ==
  ASSUME enc'.state = "Idle", enc'.message = {}, enc'.encoded <= enc'.checked
  PROVE  EncoderInv'
  BY DEF EncoderInv, S!EncoderInv, S!EncoderCounts, S!MessageCurrent,
         S!PassedOver, S!Packing

\* Between two calls, what is to be sent is what is marked.
LEMMA AtRest ==
  ASSUME IndInv, enc.state = "Idle"
  PROVE  /\ enc.message = {} /\ tries = 0 /\ arrived = FALSE
         /\ \A p \in Properties : ToBeSent(p) <=> Forced(prop[p])
         /\ UNCHANGED enc => EncoderInv'
<1>1. enc.message = {} /\ ~arrived /\ ~(tries > 0)
  BY DEF IndInv, EncoderInv, S!EncoderInv, S!MessageCurrent, ArrivedIsKnown
<1>2. tries = 0 /\ arrived = FALSE
  BY <1>1, LPWANAssumption DEF IndInv, TypeOK
<1>3. UNCHANGED enc => EncoderInv'
  BY <1>1 DEF IndInv, EncoderInv, S!EncoderInv, S!EncoderCounts,
              S!MessageCurrent, S!PassedOver, S!Packing
<1> QED BY <1>1, <1>2, <1>3 DEF ToBeSent

-----------------------------------------------------------------------------
(* The steps of the sketch and of the surroundings.                        *)

\* Steps that leave the cloud, the changes under way and the decoder alone, and
\* keep what the properties say about the cloud.
LEMMA LocalStep ==
  ASSUME IndInv, prop' \in [Properties -> Slots], enc' \in Encoders, EncoderInv',
         state' \in {"ConnectPhy", "SyncTime", "Connected"}, link' \in BOOLEAN,
         \A p \in Properties :
           /\ prop'[p].cloud = prop[p].cloud \/ Forced(prop'[p])
           /\ ReadableByCloud(p) /\ ToBeSent(p) => ToBeSent(p)',
         dec.state # "Idle" => UNCHANGED enc,
         tries > 0 \/ arrived
           => enc'.state = "SendMessage" /\ enc'.message = enc.message
              /\ enc'.payload = enc.payload,
         UNCHANGED <<dec, sendVars, cloudVars>>
  PROVE  IndInv'
<1>0. /\ UNCHANGED <<dec, tries, arrived, remote, data, lost>>
      /\ TypeOK /\ arrived \in BOOLEAN
  BY DEF IndInv, TypeOK, sendVars, cloudVars
<1>1. TypeOK' BY <1>0 DEF TypeOK
<1>2. TurnInOrder' BY <1>0 DEF IndInv, TurnInOrder
<1>3. Permitted' BY <1>0 DEF IndInv, Permitted
<1>4. \A p : InFlight(p)' <=> InFlight(p) BY <1>0 DEF InFlight
<1>5. ArrivedIsKnown' BY <1>0, <1>4 DEF IndInv, ArrivedIsKnown
<1>6. AllAccounted'
  <2>1. SUFFICES ASSUME NEW p \in Properties, ReadableByCloud(p)
                 PROVE  AccountedFor(p)'
    BY DEF AllAccounted
  <2>2. AccountedFor(p) BY <2>1 DEF IndInv, AllAccounted
  <2>3. Forced(prop'[p]) => ToBeSent(p)' BY DEF ToBeSent
  <2> QED BY <1>0, <1>4, <2>1, <2>2, <2>3 DEF AccountedFor
<1> QED BY <1>1, <1>2, <1>3, <1>5, <1>6 DEF IndInv

\* Requesting an update and stamping do not touch what the cloud sees.
LEMMA OperationOutcome ==
  ASSUME NEW p \in Properties, NEW s \in Slots
  PROVE  /\ RequestUpdate(p, s) \in Slots
         /\ RequestUpdate(p, s).cloud = s.cloud
         /\ Forced(RequestUpdate(p, s)) <=> Forced(s)
         /\ StampLocalChange(p, s, Now) \in Slots
         /\ StampLocalChange(p, s, Now).cloud = s.cloud
         /\ Forced(StampLocalChange(p, s, Now)) <=> Forced(s)
<1>1. Now \in S!Times /\ p \in S!Properties /\ s \in S!Slots
  BY PropertyAssumption, SameSets DEF Now, Times
<1>2. /\ S!RequestUpdate(p, s) \in S!Slots
      /\ S!RequestUpdate(p, s).cloud = s.cloud
      /\ S!Forced(S!RequestUpdate(p, s)) <=> S!Forced(s)
  BY <1>1, SameAssumptions, S!RequestOutcome
  DEF S!PropertyAssumption, S!EncoderAssumption, S!SyncAssumption
<1>3. /\ S!StampLocalChange(p, s, Now) \in S!Slots
      /\ S!StampLocalChange(p, s, Now).cloud = s.cloud
      /\ S!Forced(S!StampLocalChange(p, s, Now)) <=> S!Forced(s)
  BY <1>1, SameAssumptions, S!StampOutcome
  DEF S!PropertyAssumption, S!EncoderAssumption, S!SyncAssumption
<1> QED BY <1>2, <1>3, SameSets, SameProperty, SameOperations

\* Between two calls, a step may change the properties but not what the cloud
\* sees of them, and the state of the connection.
LEMMA IdleStep ==
  ASSUME IndInv, Idle, prop' \in [Properties -> Slots],
         \A p \in Properties : /\ prop'[p].cloud = prop[p].cloud
                               /\ Forced(prop'[p]) <=> Forced(prop[p]),
         state' \in {"ConnectPhy", "SyncTime", "Connected"}, link' \in BOOLEAN,
         UNCHANGED <<enc, dec, sendVars, cloudVars>>
  PROVE  IndInv'
<1>1. enc.state = "Idle" /\ dec.state = "Idle" BY DEF Idle
<1>2. /\ EncoderInv' /\ ~(tries > 0 \/ arrived)
      /\ \A p \in Properties : ToBeSent(p) => ToBeSent(p)'
  BY <1>1, AtRest DEF ToBeSent
<1>3. enc' \in Encoders BY DEF IndInv, TypeOK
<1> QED BY <1>1, <1>2, <1>3, LocalStep

\* The sketch writes a variable.
LEMMA SketchStep ==
  ASSUME IndInv, NEW p \in Properties, NEW v \in Values, SketchWrites(p, v)
  PROVE  IndInv'
<1>0. prop \in [Properties -> Slots] /\ UNCHANGED <<state, link>> /\ TypeOK
  BY DEF IndInv, TypeOK, SketchWrites
<1>1. prop' = [prop EXCEPT ![p].value = v] BY DEF SketchWrites
<1>2. [prop[p] EXCEPT !.value = v] \in Slots BY <1>0 DEF Slots
<1>3. prop' \in [Properties -> Slots] BY <1>0, <1>1, <1>2
<1>4. \A q \in Properties : /\ prop'[q].cloud = prop[q].cloud
                            /\ Forced(prop'[q]) <=> Forced(prop[q])
  BY <1>0, <1>1 DEF Slots, Forced
<1> QED BY <1>0, <1>3, <1>4, IdleStep DEF SketchWrites, TypeOK

\* push().
LEMMA PushStep == ASSUME IndInv, Push PROVE IndInv'
<1>0. prop \in [Properties -> Slots] /\ UNCHANGED <<state, link>> /\ TypeOK
  BY DEF IndInv, TypeOK, Push
<1>1. prop' = [p \in Properties |-> RequestUpdate(p, prop[p])] BY DEF Push
<1>2. \A p \in Properties : /\ RequestUpdate(p, prop[p]) \in Slots
                            /\ prop'[p].cloud = prop[p].cloud
                            /\ Forced(prop'[p]) <=> Forced(prop[p])
  BY <1>0, <1>1, OperationOutcome
<1>3. prop' \in [Properties -> Slots] BY <1>1, <1>2
<1> QED BY <1>0, <1>2, <1>3, IdleStep DEF Push, TypeOK

\* The time between two updates is over, between two calls or while a message is
\* opened.
LEMMA ElapseStep ==
  ASSUME IndInv, NEW p \in Properties, Elapse(p)
  PROVE  IndInv'
<1>0. /\ prop \in [Properties -> Slots] /\ TypeOK
      /\ UNCHANGED <<enc, dec, state, link, sendVars, cloudVars>>
  BY DEF IndInv, TypeOK, Elapse
<1>1. prop' = [prop EXCEPT ![p].due = TRUE] BY DEF Elapse
<1>2. [prop[p] EXCEPT !.due = TRUE] \in Slots BY <1>0 DEF Slots
<1>3. prop' \in [Properties -> Slots] BY <1>0, <1>1, <1>2
<1>4. \A q \in Properties : /\ prop'[q].cloud = prop[q].cloud
                            /\ prop'[q].value = prop[q].value
                            /\ Forced(prop'[q]) <=> Forced(prop[q])
  BY <1>0, <1>1 DEF Slots, Forced
<1>5. EncoderInv'
  <2>1. \A q \in enc.message : q \in Properties BY <1>0 DEF TypeOK, Encoders
  <2> QED BY <1>0, <1>4, <2>1, SameSets, SameProperty
      DEF IndInv, EncoderInv, S!EncoderInv, S!EncoderCounts, S!MessageCurrent,
          S!PassedOver, S!Packing, S!Seen
<1>6. \A q \in Properties : ToBeSent(q) => ToBeSent(q)'
  BY <1>0, <1>4 DEF ToBeSent
<1>7. tries > 0 \/ arrived => enc.state = "SendMessage"
  BY DEF IndInv, ArrivedIsKnown
<1> QED BY <1>0, <1>3, <1>4, <1>5, <1>6, <1>7, LocalStep DEF TypeOK

\* The link, and the states before Connected.
LEMMA ConnectionStep ==
  ASSUME IndInv, LinkChanges \/ Connect \/ LeaveConnected
  PROVE  IndInv'
<1>1. /\ Idle /\ prop' = prop /\ UNCHANGED <<enc, dec, sendVars, cloudVars>>
      /\ TypeOK
  BY DEF IndInv, LinkChanges, Connect, LeaveConnected
<1>2. state' \in {"ConnectPhy", "SyncTime", "Connected"} /\ link' \in BOOLEAN
  BY <1>1 DEF LinkChanges, Connect, LeaveConnected, TypeOK
<1> QED BY <1>1, <1>2, IdleStep DEF TypeOK

\* A user's change is under way until it is decoded.
LEMMA CloudStep ==
  ASSUME IndInv, NEW q \in Properties, NEW v \in Values, CloudChanges(q, v)
  PROVE  IndInv'
<1> DEFINE m == [name |-> q, value |-> v, base |-> NotSet, time |-> Now]
<1>0. /\ TypeOK /\ remote \in [Properties -> Values] /\ data \in Seq(Maps)
      /\ enc \in Encoders /\ Now \in Times
  BY PropertyAssumption DEF IndInv, TypeOK, Now, Times
<1>1. /\ remote' = [remote EXCEPT ![q] = v]
      /\ data' = Append(data, m) /\ m \in Maps
      /\ WriteableByCloud(q)
      /\ UNCHANGED <<prop, enc, dec, state, link, tries, arrived, lost>>
  BY <1>0 DEF CloudChanges, Maps, OptionalTimes, sendVars
<1>2. /\ Len(data') = Len(data) + 1 /\ data'[Len(data')].name = q
      /\ \A i \in 1 .. Len(data) : data'[i] = data[i]
      /\ Len(data) \in Nat
  BY <1>0, <1>1
<1> HIDE DEF m
<1>3. TypeOK' BY <1>0, <1>1 DEF TypeOK
<1>4. EncoderInv'
  BY <1>1 DEF IndInv, EncoderInv, S!EncoderInv, S!EncoderCounts,
              S!MessageCurrent, S!PassedOver, S!Packing, S!Seen
<1>5. TurnInOrder' BY <1>1 DEF IndInv, TurnInOrder
<1>6. Permitted'
  <2>1. \A i \in 1 .. Len(data') : WriteableByCloud(data'[i].name)
    BY <1>1, <1>2 DEF IndInv, Permitted
  <2> QED BY <1>1, <2>1 DEF IndInv, Permitted
<1>7. InFlight(q)'
  <2>1. Len(data') \in 1 .. Len(data') BY <1>2
  <2> QED BY <1>2, <2>1 DEF InFlight
<1>8. \A p : InFlight(p) => InFlight(p)' BY <1>1, <1>2 DEF InFlight
<1>9. \A p \in Properties : p # q => remote'[p] = remote[p] BY <1>0, <1>1
<1>10. ArrivedIsKnown'
  <2>1. enc.message \subseteq Properties BY <1>0 DEF Encoders
  <2> QED BY <1>1, <1>7, <1>8, <1>9, <2>1 DEF IndInv, ArrivedIsKnown
<1>11. AllAccounted'
  BY <1>1, <1>7, <1>8, <1>9
  DEF IndInv, AllAccounted, AccountedFor, ToBeSent
<1> QED BY <1>3, <1>4, <1>5, <1>6, <1>10, <1>11 DEF IndInv

\* A change that is lost is counted.
LEMMA DataLostStep == ASSUME IndInv, DataLost PROVE IndInv'
<1>0. /\ TypeOK /\ data \in Seq(Maps) /\ data # <<>> BY DEF IndInv, TypeOK, DataLost
<1>1. /\ Idle /\ lost' = lost \cup {Head(data).name} /\ data' = Tail(data)
      /\ UNCHANGED <<prop, enc, dec, state, link, tries, arrived, remote>>
  BY DEF DataLost, sendVars
<1>2. /\ Head(data) = data[1] /\ Head(data) \in Maps /\ data' \in Seq(Maps)
      /\ Len(data') = Len(data) - 1 /\ Len(data) \in Nat
      /\ \A i \in 1 .. Len(data') : data'[i] = data[i + 1]
  BY <1>0, <1>1
<1>3. TypeOK' BY <1>0, <1>1, <1>2 DEF TypeOK, Maps
<1>4. EncoderInv' /\ ~(tries > 0 \/ arrived) BY <1>1, AtRest DEF Idle
<1>5. TurnInOrder' BY <1>1 DEF IndInv, TurnInOrder
<1>6. Permitted'
  <2>1. \A i \in 1 .. Len(data') : WriteableByCloud(data'[i].name)
    BY <1>2 DEF IndInv, Permitted
  <2> QED BY <1>1, <2>1 DEF IndInv, Permitted
<1>7. ArrivedIsKnown' BY <1>1, <1>4 DEF ArrivedIsKnown
<1>8. ASSUME NEW p \in Properties, InFlight(p)
      PROVE  InFlight(p)' \/ p = Head(data).name
  <2>1. PICK i \in 1 .. Len(data) : data[i].name = p
    BY <1>1, <1>8 DEF InFlight, Idle
  <2>2. CASE i = 1 BY <1>2, <2>1, <2>2
  <2>3. CASE i # 1
    <3>1. i - 1 \in 1 .. Len(data') /\ data'[i - 1] = data[i]
      BY <1>2, <2>1, <2>3
    <3> QED BY <2>1, <3>1 DEF InFlight
  <2> QED BY <2>2, <2>3
<1>9. AllAccounted'
  BY <1>1, <1>8 DEF IndInv, AllAccounted, AccountedFor, ToBeSent
<1> QED BY <1>3, <1>4, <1>5, <1>6, <1>7, <1>9 DEF IndInv

\* After a restart everything is to be sent.
LEMMA RestartStep == ASSUME IndInv, Restart PROVE IndInv'
<1>0. TypeOK BY DEF IndInv
<1>1. /\ Idle /\ prop' = PropertiesBoot /\ enc' = EncoderBoot
      /\ state' = "ConnectPhy" /\ lost' = {}
      /\ UNCHANGED <<dec, link, tries, arrived, remote, data>>
  BY DEF Restart, sendVars
<1>2. TypeOK' BY <1>0, <1>1, Boot DEF TypeOK
<1>3. EncoderInv'
  BY <1>1 DEF EncoderBoot, EncoderInv, S!EncoderInv, S!EncoderCounts,
              S!MessageCurrent, S!PassedOver, S!Packing
<1>4. TurnInOrder' /\ Permitted' /\ ArrivedIsKnown'
  BY <1>1, AtRest DEF Idle, IndInv, TurnInOrder, Permitted, ArrivedIsKnown
<1>5. AllAccounted'
  BY <1>1, Boot DEF AllAccounted, AccountedFor, ToBeSent
<1> QED BY <1>2, <1>3, <1>4, <1>5 DEF IndInv

-----------------------------------------------------------------------------
(* The steps of a turn.                                                    *)

\* A turn begins: the changes it decodes are in the decoder now.
LEMMA BeginTurnStep ==
  ASSUME IndInv, NEW k \in 0 .. Len(data), BeginTurn(k)
  PROVE  IndInv'
<1>0. /\ TypeOK /\ prop \in [Properties -> Slots] /\ enc \in Encoders
      /\ dec \in Decoders /\ data \in Seq(Maps)
  BY DEF IndInv, TypeOK
<1>1. /\ enc.state = "Idle" /\ dec.state = "Idle"
      /\ prop' = [p \in Properties |-> StampLocalChange(p, prop[p], Now)]
      /\ dec' = IF k = 0 THEN dec ELSE Decode(SubSeq(data, 1, k), FALSE)
      /\ data' = SubSeq(data, k + 1, Len(data))
      /\ enc' = [enc EXCEPT !.state = "InitPropertyEncoder"]
      /\ UNCHANGED <<state, link, tries, arrived, remote, lost>>
  BY DEF BeginTurn, Idle, sendVars
<1>2. \A p \in Properties : /\ prop'[p] \in Slots
                            /\ prop'[p].cloud = prop[p].cloud
                            /\ Forced(prop'[p]) <=> Forced(prop[p])
  BY <1>0, <1>1, OperationOutcome
<1>3. prop' \in [Properties -> Slots] BY <1>1, <1>2
<1>4. /\ enc' \in Encoders /\ enc'.state = "InitPropertyEncoder"
      /\ enc'.message = {}
      /\ enc'.encoded = enc.encoded /\ enc'.checked = enc.checked
  <2>1. "InitPropertyEncoder" \in EncoderStates BY DEF EncoderStates
  <2> QED BY <1>0, <1>1, <2>1, AtRest DEF Encoders
<1>5. EncoderInv'
  BY <1>4 DEF IndInv, EncoderInv, S!EncoderInv, S!EncoderCounts,
              S!MessageCurrent, S!PassedOver, S!Packing
<1>6. /\ data' \in Seq(Maps) /\ Len(data') = Len(data) - k
      /\ \A i \in 1 .. Len(data') : data'[i] = data[k + i]
  BY <1>0, <1>1
<1>7. CASE k = 0
  <2>1. /\ dec' = dec /\ Len(data') = Len(data)
        /\ \A i \in 1 .. Len(data') : data'[i] = data[i]
    BY <1>0, <1>1, <1>6, <1>7
  <2>2. TypeOK' BY <1>0, <1>1, <1>3, <1>4, <1>6, <2>1 DEF TypeOK
  <2>3. TurnInOrder' /\ Permitted'
    BY <1>1, <2>1 DEF IndInv, TurnInOrder, Permitted
  <2>4. \A p : InFlight(p) => InFlight(p)' BY <1>1, <2>1 DEF InFlight
  <2>5. ArrivedIsKnown' BY <1>1, AtRest DEF ArrivedIsKnown
  <2>6. AllAccounted'
    BY <1>1, <1>2, <2>4, AtRest DEF IndInv, AllAccounted, AccountedFor, ToBeSent
  <2> QED BY <1>5, <2>2, <2>3, <2>5, <2>6 DEF IndInv
<1>8. CASE k # 0
  <2> DEFINE m == SubSeq(data, 1, k)
  <2>1. /\ m \in Seq(Maps) /\ Len(m) = k /\ m # <<>>
        /\ \A i \in 1 .. k : m[i] = data[i]
    BY <1>0, <1>8
  <2>2. /\ dec' \in Decoders /\ dec'.state = "LeaveMap" /\ dec'.rest = m
        /\ ~dec'.sync /\ dec'.name = NoName
    <3>1. dec' = [DecoderBoot EXCEPT !.state = "LeaveMap", !.rest = m,
                                     !.sync = FALSE]
      BY <1>1, <1>8 DEF Decode
    <3> HIDE DEF m
    <3> QED BY <2>1, <3>1, Boot DEF Decoders
  <2> HIDE DEF m
  <2>3. TypeOK' BY <1>0, <1>1, <1>3, <1>4, <1>6, <2>2 DEF TypeOK
  <2>4. TurnInOrder' BY <1>4, <2>1, <2>2 DEF TurnInOrder
  <2>5. Permitted'
    <3>1. \A i \in 1 .. Len(data') : WriteableByCloud(data'[i].name)
      BY <1>6 DEF IndInv, Permitted
    <3>2. \A i \in 1 .. Len(m) : WriteableByCloud(m[i].name)
      BY <2>1 DEF IndInv, Permitted
    <3> QED BY <2>2, <3>1, <3>2 DEF Permitted
  <2>6. ASSUME NEW p \in Properties, InFlight(p)
        PROVE  InFlight(p)'
    <3>1. PICK i \in 1 .. Len(data) : data[i].name = p
      BY <1>1, <2>6 DEF InFlight
    <3>2. CASE i <= k
      <4>1. i \in 1 .. Len(m) /\ m[i].name = p BY <2>1, <3>1, <3>2
      <4> QED BY <2>2, <4>1 DEF InFlight
    <3>3. CASE i > k
      <4>1. i - k \in 1 .. Len(data') /\ data'[i - k] = data[i]
        BY <1>0, <1>6, <3>1, <3>3
      <4> QED BY <3>1, <4>1 DEF InFlight
    <3> QED BY <3>2, <3>3
  <2>7. ArrivedIsKnown' BY <1>1, AtRest DEF ArrivedIsKnown
  <2>8. AllAccounted'
    BY <1>1, <1>2, <2>6, AtRest DEF IndInv, AllAccounted, AccountedFor, ToBeSent
  <2> QED BY <1>5, <2>3, <2>4, <2>5, <2>7, <2>8 DEF IndInv
<1> QED BY <1>7, <1>8

\* Where the maps of the message are after a step of the decoder: the properties
\* it did not update are still under way.
LEMMA MapsLeft ==
  ASSUME IndInv, DecodeMessage(Values)
  PROVE  /\ dec' \in Decoders /\ TurnInOrder' /\ Permitted'
         /\ \A p \in Properties \ UpdatedNow : InFlight(p) => InFlight(p)'
<1>0. /\ TypeOK /\ TurnInOrder /\ Permitted
      /\ dec \in Decoders /\ dec.rest \in Seq(Maps)
      /\ LeaveMap(Values) \/ LeaveLastMap(Values)
      /\ UNCHANGED <<enc, data>> /\ NoName \notin Properties
  BY DEF IndInv, TypeOK, Decoders, DecodeMessage, NoName, Properties
<1>1. /\ Head(dec.rest) = dec.rest[1] /\ Head(dec.rest) \in Maps
      /\ Collected.name = Head(dec.rest).name
      /\ Collected.rest = Tail(dec.rest)
      /\ Collected.state = dec.state /\ Collected.sync = dec.sync
      /\ Collected \in Decoders /\ ~dec.sync
  BY <1>0, DecoderOutcome
<1>2. /\ dec.state = "LeaveMap" /\ enc.state = "InitPropertyEncoder"
      /\ dec.rest # <<>> /\ Head(dec.rest).name \in Properties
      /\ WriteableByCloud(Head(dec.rest).name)
  <2>1. dec.state = "LeaveMap" BY <1>0 DEF LeaveMap, LeaveLastMap
  <2>2. dec.rest # <<>> BY <1>0, <2>1 DEF TurnInOrder
  <2>3. 1 \in 1 .. Len(dec.rest) BY <1>0, <2>2
  <2> QED BY <1>0, <1>1, <2>1, <2>2, <2>3 DEF TurnInOrder, Permitted, Maps
<1>3. CASE LeaveMap(Values)
  <2> DEFINE n == Len(dec.rest)
  <2>1. dec' = Collected /\ n > 1 BY <1>3, Zenon DEF LeaveMap
  <2>2. /\ dec'.rest = Tail(dec.rest) /\ Len(dec'.rest) = n - 1 /\ n \in Nat
        /\ \A i \in 1 .. n - 1 : dec'.rest[i] = dec.rest[i + 1]
        /\ dec'.rest # <<>> /\ n # 1
    <3>1. /\ dec'.rest = Tail(dec.rest) /\ n \in Nat /\ n > 1
      BY <1>0, <1>1, <2>1
    <3>2. /\ Len(Tail(dec.rest)) = n - 1
          /\ \A i \in 1 .. n - 1 : Tail(dec.rest)[i] = dec.rest[i + 1]
      BY <1>0, <1>2
    <3> HIDE DEF n
    <3>3. n # 1 /\ n - 1 # 0 BY <3>1
    <3>4. dec'.rest # <<>> BY <3>1, <3>2, <3>3
    <3> QED BY <3>1, <3>2, <3>3, <3>4
  <2>3. dec'.name = Head(dec.rest).name /\ dec'.name # NoName
    BY <1>0, <1>1, <1>2, <2>1
  <2>4. TurnInOrder'
    BY <1>0, <1>1, <1>2, <2>1, <2>2, <2>3 DEF TurnInOrder
  <2>5. Permitted'
    BY <1>0, <1>2, <2>2, <2>3 DEF Permitted
  <2>6. ASSUME NEW p \in Properties, p \notin UpdatedNow, InFlight(p)
        PROVE  InFlight(p)'
    <3>1. CASE \E i \in 1 .. Len(data) : data[i].name = p
      BY <1>0, <3>1 DEF InFlight
    <3>2. CASE dec.name = p
      <4>1. WriteableByCloud(p) BY <1>0, <3>2 DEF Permitted
      <4>2. ~NextProperty BY <2>6, <3>2, <4>1 DEF UpdatedNow
      <4>3. dec'.name = p BY <1>0, <2>3, <3>2, <4>2 DEF NextProperty
      <4> QED BY <1>1, <1>2, <2>1, <4>3 DEF InFlight
    <3>3. CASE \E i \in 1 .. n : dec.rest[i].name = p
      <4>1. PICK i \in 1 .. n : dec.rest[i].name = p BY <3>3
      <4>2. CASE i = 1
        BY <1>1, <1>2, <2>1, <2>3, <4>1, <4>2 DEF InFlight
      <4>3. CASE i # 1
        <5>1. i - 1 \in 1 .. Len(dec'.rest) /\ dec'.rest[i - 1] = dec.rest[i]
          BY <2>2, <4>1, <4>3
        <5> QED BY <1>1, <1>2, <2>1, <4>1, <5>1 DEF InFlight
      <4> QED BY <4>2, <4>3
    <3> QED BY <2>6, <3>1, <3>2, <3>3 DEF InFlight
  <2> QED BY <1>1, <2>1, <2>4, <2>5, <2>6
<1>4. CASE LeaveLastMap(Values)
  <2>1. dec' = DecoderBoot /\ Len(dec.rest) = 1
    BY <1>1, <1>4 DEF LeaveLastMap
  <2>2. TurnInOrder' /\ dec' \in Decoders
    BY <2>1, Boot DEF TurnInOrder
  <2>3. Permitted' BY <1>0, <2>1, Boot DEF Permitted
  <2>4. ASSUME NEW p \in Properties, p \notin UpdatedNow, InFlight(p)
        PROVE  InFlight(p)'
    <3>1. CASE \E i \in 1 .. Len(data) : data[i].name = p
      BY <1>0, <3>1 DEF InFlight
    <3>2. CASE dec.name = p
      <4>1. WriteableByCloud(p) /\ dec.name # NoName
        BY <1>0, <3>2 DEF Permitted
      <4>2. NextProperty \/ p = Head(dec.rest).name BY <3>2, <4>1 DEF NextProperty
      <4> QED BY <2>1, <2>4, <3>2, <4>1, <4>2 DEF UpdatedNow
    <3>3. CASE \E i \in 1 .. Len(dec.rest) : dec.rest[i].name = p
      <4>1. p = Head(dec.rest).name BY <1>1, <2>1, <3>3
      <4> QED BY <1>2, <2>1, <2>4, <4>1 DEF UpdatedNow
    <3> QED BY <2>4, <3>1, <3>2, <3>3 DEF InFlight
  <2> QED BY <2>2, <2>3, <2>4
<1> QED BY <1>0, <1>3, <1>4

\* A step of the decoder.
LEMMA DecodeStep == ASSUME IndInv, DecodeMessage(Values) PROVE IndInv'
<1>0. /\ TypeOK /\ TurnInOrder
      /\ LeaveMap(Values) \/ LeaveLastMap(Values)
      /\ lost' = lost \ UpdatedNow
      /\ UNCHANGED <<enc, state, link, tries, arrived, remote, data>>
  BY DEF IndInv, DecodeMessage, sendVars
<1>1. /\ prop' \in [Properties -> Slots]
      /\ \A p \in Properties \ UpdatedNow : prop'[p] = prop[p]
      /\ \A p \in UpdatedNow : Forced(prop'[p])
  BY <1>0, DecoderOutcome
<1>2. /\ dec' \in Decoders /\ TurnInOrder' /\ Permitted'
      /\ \A p \in Properties \ UpdatedNow : InFlight(p) => InFlight(p)'
  BY MapsLeft
<1>3. enc.state = "InitPropertyEncoder" /\ ~arrived /\ ~(tries > 0)
  BY <1>0 DEF LeaveMap, LeaveLastMap, TurnInOrder, IndInv, ArrivedIsKnown
<1>4. TypeOK' BY <1>0, <1>1, <1>2 DEF TypeOK
<1>5. EncoderInv'
  <2>1. enc.message = {}
    BY <1>0 DEF LeaveMap, LeaveLastMap, TurnInOrder
  <2> QED BY <1>0, <1>3, <2>1 DEF IndInv, EncoderInv, S!EncoderInv,
        S!EncoderCounts, S!MessageCurrent, S!PassedOver, S!Packing
<1>6. ArrivedIsKnown' BY <1>0, <1>3 DEF ArrivedIsKnown
<1>7. AllAccounted'
  <2>1. SUFFICES ASSUME NEW p \in Properties, ReadableByCloud(p)
                 PROVE  AccountedFor(p)'
    BY DEF AllAccounted
  <2>2. CASE p \in UpdatedNow BY <1>1, <2>2 DEF AccountedFor, ToBeSent
  <2>3. CASE p \notin UpdatedNow
    <3>1. AccountedFor(p) BY <2>1 DEF IndInv, AllAccounted
    <3> QED BY <1>0, <1>1, <1>2, <2>3, <3>1 DEF AccountedFor, ToBeSent
  <2> QED BY <2>2, <2>3
<1> QED BY <1>2, <1>4, <1>5, <1>6, <1>7 DEF IndInv

\* A step of the encoder.
LEMMA EncodeMessageStep == ASSUME IndInv, EncodeMessage PROVE IndInv'
<1>0. /\ TypeOK /\ EncoderInv /\ EncodeStep /\ dec.state = "Idle"
      /\ UNCHANGED <<dec, state, link, sendVars, cloudVars>>
  BY DEF IndInv, EncodeMessage
<1>1. ~(tries > 0 \/ arrived)
  BY <1>0, EncoderOutcome DEF IndInv, ArrivedIsKnown
<1> QED BY <1>0, <1>1, EncoderOutcome, LocalStep DEF TypeOK

\* What the cloud holds after a try.
LEMMA TransmitOutcome ==
  ASSUME TypeOK, EncoderInv, NEW reaches \in BOOLEAN, Transmit(reaches)
  PROVE  /\ remote' \in [Properties -> Values]
         /\ enc.message \subseteq Properties
         /\ ~reaches => remote' = remote
         /\ \A p \in Properties \ enc.message : remote'[p] = remote[p]
         /\ reaches => \A p \in enc.message : remote'[p] = enc.payload[p]
         /\ \A p \in enc.message : /\ ReadableByCloud(p)
                                   /\ prop[p].cloud = prop[p].value
                                   /\ enc.payload[p] = prop[p].value
<1>1. /\ remote \in [Properties -> Values]
      /\ enc.payload \in [Properties -> Values]
      /\ enc.message \subseteq Properties
  BY DEF TypeOK, Encoders
<1>2. \A p \in enc.message : /\ ReadableByCloud(p)
                             /\ prop[p].cloud = prop[p].value
                             /\ enc.payload[p] = prop[p].value
  BY SameProperty DEF EncoderInv, S!EncoderInv, S!MessageCurrent
<1>3. CASE reaches BY <1>1, <1>2, <1>3 DEF Transmit
<1>4. CASE ~reaches BY <1>1, <1>2, <1>4 DEF Transmit
<1> QED BY <1>3, <1>4

\* A try that write() reports as failed, whether it arrived or not.
LEMMA WriteFailsStep ==
  ASSUME IndInv, NEW reaches \in BOOLEAN, WriteFails(reaches)
  PROVE  IndInv'
<1>0. /\ TypeOK /\ EncoderInv /\ Transmit(reaches) /\ enc.state = "SendMessage"
      /\ tries < MaxRetry /\ tries' = tries + 1
      /\ arrived' = (arrived \/ reaches)
      /\ lost' = IF reaches THEN lost \ enc.message ELSE lost
      /\ UNCHANGED <<prop, enc, dec, state, link, data>>
      /\ MaxRetry \in Nat /\ tries \in 0 .. MaxRetry /\ lost \subseteq Properties
  BY LPWANAssumption DEF IndInv, TypeOK, WriteFails
<1>1. /\ remote' \in [Properties -> Values]
      /\ ~reaches => remote' = remote
      /\ \A p \in Properties \ enc.message : remote'[p] = remote[p]
      /\ reaches => \A p \in enc.message : remote'[p] = enc.payload[p]
  BY <1>0, TransmitOutcome
<1>2. TypeOK'
  <2>1. tries' \in 0 .. MaxRetry BY <1>0
  <2>2. arrived' \in BOOLEAN /\ lost' \subseteq Properties BY <1>0
  <2> QED BY <1>0, <1>1, <2>1, <2>2 DEF TypeOK
<1>3. EncoderInv'
  BY <1>0 DEF EncoderInv, S!EncoderInv, S!EncoderCounts, S!MessageCurrent,
              S!PassedOver, S!Packing, S!Seen
<1>4. TurnInOrder' /\ Permitted'
  BY <1>0 DEF IndInv, TurnInOrder, Permitted
<1>5. \A p : (InFlight(p)' <=> InFlight(p)) /\ (ToBeSent(p)' <=> ToBeSent(p))
  BY <1>0 DEF InFlight, ToBeSent
<1>6. ArrivedIsKnown'
  BY <1>0, <1>1, <1>5 DEF IndInv, ArrivedIsKnown
<1>7. AllAccounted'
  <2>1. SUFFICES ASSUME NEW p \in Properties, ReadableByCloud(p)
                 PROVE  AccountedFor(p)'
    BY DEF AllAccounted
  <2>2. CASE p \in enc.message
    BY <1>0, <1>5, <2>2 DEF AccountedFor, ToBeSent
  <2>3. CASE p \notin enc.message
    <3>1. AccountedFor(p) BY <2>1 DEF IndInv, AllAccounted
    <3> QED BY <1>0, <1>1, <1>5, <2>3, <3>1 DEF AccountedFor
  <2> QED BY <2>2, <2>3
<1> QED BY <1>2, <1>3, <1>4, <1>6, <1>7 DEF IndInv

\* The last try of a message: what it carried is known to the cloud, or under
\* way, or lost.
LEMMA WriteEndsStep ==
  ASSUME IndInv, NEW reaches \in BOOLEAN, WriteEnds(reaches)
  PROVE  IndInv'
<1>0. /\ TypeOK /\ EncoderInv /\ Transmit(reaches) /\ enc.state = "SendMessage"
      /\ tries' = 0 /\ arrived' = FALSE /\ enc' = EncoderDone
      /\ lost' = CASE reaches              -> lost \ enc.message
                   [] ~reaches /\ arrived  -> lost
                   [] ~reaches /\ ~arrived -> lost \cup enc.message
      /\ UNCHANGED <<prop, dec, state, link, data>>
      /\ enc \in Encoders /\ arrived \in BOOLEAN
      /\ MaxRetry \in Nat /\ lost \subseteq Properties
  BY LPWANAssumption DEF IndInv, TypeOK, WriteEnds
<1>1. /\ remote' \in [Properties -> Values]
      /\ enc.message \subseteq Properties
      /\ ~reaches => remote' = remote
      /\ \A p \in Properties \ enc.message : remote'[p] = remote[p]
      /\ reaches => \A p \in enc.message : remote'[p] = enc.payload[p]
      /\ \A p \in enc.message : prop[p].cloud = enc.payload[p]
  BY <1>0, TransmitOutcome
<1>2. /\ enc' \in Encoders /\ enc'.state = "Idle" /\ enc'.message = {}
      /\ enc'.encoded = 0 /\ enc'.checked = 0
  BY <1>0, SameAssumptions, SameSets, SameRest, S!EncoderAtRest
  DEF S!PropertyAssumption, S!EncoderAssumption, S!SyncAssumption
<1>3. /\ lost' \subseteq Properties
      /\ lost \ enc.message \subseteq lost'
      /\ ~reaches /\ arrived => lost' = lost
      /\ ~reaches /\ ~arrived => lost' = lost \cup enc.message
  <2>1. CASE reaches BY <1>0, <2>1
  <2>2. CASE ~reaches /\ arrived BY <1>0, <2>2
  <2>3. CASE ~reaches /\ ~arrived BY <1>0, <1>1, <2>3
  <2> QED BY <2>1, <2>2, <2>3
<1>4. TypeOK'
  <2>1. 0 \in 0 .. MaxRetry BY LPWANAssumption
  <2> QED BY <1>0, <1>1, <1>2, <1>3, <2>1 DEF TypeOK
<1>5. EncoderInv' BY <1>2, EncoderResting
<1>6. dec.state = "Idle" BY <1>0 DEF IndInv, TurnInOrder
<1>7. TurnInOrder' /\ Permitted' /\ ArrivedIsKnown'
  BY <1>0, <1>6 DEF IndInv, TurnInOrder, Permitted, ArrivedIsKnown
<1>8. \A p : InFlight(p)' <=> InFlight(p) BY <1>0 DEF InFlight
<1>9. AllAccounted'
  <2>1. SUFFICES ASSUME NEW p \in Properties, ReadableByCloud(p)
                 PROVE  AccountedFor(p)'
    BY DEF AllAccounted
  <2>2. CASE p \notin enc.message
    <3>1. AccountedFor(p) BY <2>1 DEF IndInv, AllAccounted
    <3>2. ToBeSent(p) => ToBeSent(p)' BY <1>0, <2>2 DEF ToBeSent
    <3> QED BY <1>0, <1>1, <1>3, <1>8, <2>1, <2>2, <3>1, <3>2 DEF AccountedFor
  <2>3. CASE p \in enc.message
    <3>1. CASE reaches BY <1>0, <1>1, <2>3, <3>1 DEF AccountedFor
    <3>2. CASE ~reaches /\ arrived
      <4>1. remote[p] = enc.payload[p] \/ InFlight(p)
        BY <2>3, <3>2 DEF IndInv, ArrivedIsKnown
      <4> QED BY <1>0, <1>1, <1>8, <2>3, <3>2, <4>1 DEF AccountedFor
    <3>3. CASE ~reaches /\ ~arrived BY <1>3, <2>3, <3>3 DEF AccountedFor
    <3> QED BY <3>1, <3>2, <3>3
  <2> QED BY <2>2, <2>3
<1> QED BY <1>4, <1>5, <1>7, <1>9 DEF IndInv

-----------------------------------------------------------------------------
(* The theorems.                                                           *)

\* At the start every property is marked, and nothing is under way.
LEMMA InitHolds == Init => IndInv
<1> SUFFICES ASSUME Init PROVE IndInv OBVIOUS
<1>0. /\ prop = PropertiesBoot /\ enc = EncoderBoot /\ dec = DecoderBoot
      /\ state = "ConnectPhy" /\ link = FALSE /\ tries = 0 /\ arrived = FALSE
      /\ remote \in [Properties -> Values] /\ data = <<>> /\ lost = {}
  BY DEF Init
<1>1. <<>> \in Seq(Maps) /\ 0 \in 0 .. MaxRetry
  BY LPWANAssumption
<1>2. TypeOK BY <1>0, <1>1, Boot DEF TypeOK
<1>3. EncoderInv
  BY <1>0 DEF EncoderBoot, EncoderInv, S!EncoderInv, S!EncoderCounts,
              S!MessageCurrent, S!PassedOver, S!Packing
<1>4. TurnInOrder /\ Permitted /\ ArrivedIsKnown
  BY <1>0, Boot DEF TurnInOrder, Permitted, ArrivedIsKnown
<1>5. AllAccounted BY <1>0, Boot DEF AllAccounted, AccountedFor, ToBeSent
<1> QED BY <1>2, <1>3, <1>4, <1>5 DEF IndInv

\* Every step keeps the inductive invariant.
LEMMA NextKeeps == IndInv /\ [Next]_vars => IndInv'
<1> SUFFICES ASSUME IndInv, [Next]_vars PROVE IndInv' OBVIOUS
<1>1. CASE \E p \in Properties, v \in Values : SketchWrites(p, v)
  BY <1>1, SketchStep
<1>2. CASE \E p \in Properties, v \in Values : CloudChanges(p, v)
  BY <1>2, CloudStep
<1>3. CASE Push BY <1>3, PushStep
<1>4. CASE DataLost BY <1>4, DataLostStep
<1>5. CASE LinkChanges \/ Connect \/ LeaveConnected BY <1>5, ConnectionStep
<1>6. CASE Restart BY <1>6, RestartStep
<1>7. CASE \E p \in Properties : Elapse(p) BY <1>7, ElapseStep
<1>8. CASE BeginTurn(0) \/ Receive
  <2>1. Len(data) \in Nat BY DEF IndInv, TypeOK
  <2>2. PICK k \in 0 .. Len(data) : BeginTurn(k)
    <3>1. CASE BeginTurn(0) BY <2>1, <3>1
    <3>2. CASE Receive
      <4>1. PICK k \in 1 .. Len(data) : BeginTurn(k) BY <3>2 DEF Receive
      <4>2. k \in 0 .. Len(data) BY <2>1
      <4> QED BY <4>1, <4>2
    <3> QED BY <1>8, <3>1, <3>2
  <2> QED BY <2>2, BeginTurnStep
<1>9. CASE DecodeMessage(Values) BY <1>9, DecodeStep
<1>10. CASE EncodeMessage BY <1>10, EncodeMessageStep
<1>11. CASE \E reaches \in BOOLEAN : WriteFails(reaches) \/ WriteEnds(reaches)
  BY <1>11, WriteFailsStep, WriteEndsStep
<1>12. CASE UNCHANGED vars
  BY <1>12
  DEF vars, sendVars, cloudVars, IndInv, TypeOK, EncoderInv, S!EncoderInv,
      S!EncoderCounts, S!MessageCurrent, S!PassedOver, S!Packing, S!Seen,
      TurnInOrder, Permitted, ArrivedIsKnown, AllAccounted, AccountedFor,
      ToBeSent, InFlight
<1> QED
  BY <1>1, <1>2, <1>3, <1>4, <1>5, <1>6, <1>7, <1>8, <1>9, <1>10, <1>11, <1>12
  DEF Next, Surroundings, Turn, WithinTurn

\* The inductive invariant holds in every state.
LEMMA Inductive == Spec => []IndInv
  BY InitHolds, NextKeeps, PTL DEF Spec

\* Every variable has its type: the index of the encoder stays within the
\* container however messages are cut, and no message is tried more often than
\* the retries allow.
THEOREM TypeCorrect == Spec => []TypeOK
<1>1. IndInv => TypeOK BY DEF IndInv
<1> QED BY <1>1, Inductive, PTL

\* A property whose copy is not what the cloud holds is to be sent, or a change of
\* it is under way, or its last change was lost on the air: also if a try that
\* counted as failed arrived, was repeated, and set back what a user changed in
\* between.
THEOREM NothingForgotten == Spec => []NoChangeForgotten
<1>1. IndInv => NoChangeForgotten
  BY DEF IndInv, AllAccounted, AccountedFor, NoChangeForgotten
<1> QED BY <1>1, Inductive, PTL

-----------------------------------------------------------------------------
(* Publishing implements the mirror, retries included.                     *)

DeviceValues == [p \in Properties |-> prop[p].value]

CloudValues == [p \in Properties |-> remote[p]]

\* The two sides are over the same properties, and hold values.
LEMMA MirrorTypes ==
  /\ Mirror!Properties = Properties
  /\ TypeOK => /\ DeviceValues \in [Properties -> Values]
               /\ CloudValues \in [Properties -> Values]
<1>1. \A p \in Properties : ReadableByCloud(p) \/ WriteableByCloud(p)
  BY PropertyAssumption DEF ReadableByCloud, WriteableByCloud, TraitSet
<1>2. TypeOK => \A p \in Properties : prop[p].value \in Values
  BY DEF TypeOK, Slots
<1>3. TypeOK => \A p \in Properties : remote[p] \in Values BY DEF TypeOK
<1> QED BY <1>1, <1>2, <1>3 DEF Mirror!Properties, DeviceValues, CloudValues

\* A step that leaves the cloud alone is a change of the device.
LEMMA DeviceStep ==
  ASSUME TypeOK', UNCHANGED remote
  PROVE  Mirror!Next
<1>1. DeviceValues' \in [Mirror!Properties -> Values]
  <2>1. \A p \in Properties : prop'[p].value \in Values BY DEF TypeOK, Slots
  <2> QED BY <2>1, MirrorTypes DEF DeviceValues
<1>2. CloudValues' = CloudValues BY DEF CloudValues
<1>3. (enc.state = "SendMessage")' \in BOOLEAN OBVIOUS
<1> QED
  BY <1>1, <1>2, <1>3
  DEF Mirror!Next, Mirror!DeviceChanges, DeviceValues, CloudValues

\* A try that arrives publishes the message.
LEMMA PublishStep ==
  ASSUME TypeOK, EncoderInv, Transmit(TRUE), UNCHANGED prop,
         enc.state = "SendMessage"
  PROVE  Mirror!Next
<1>1. /\ enc.message \subseteq Properties
      /\ \A p \in Properties \ enc.message : remote'[p] = remote[p]
      /\ \A p \in enc.message : /\ remote'[p] = prop[p].value
                                /\ ReadableByCloud(p)
  BY TransmitOutcome
<1>2. enc.message \in SUBSET {p \in Properties : ReadableByCloud(p)}
  BY <1>1
<1>3. CloudValues' = [p \in Properties |->
                        IF p \in enc.message THEN DeviceValues[p]
                                             ELSE CloudValues[p]]
  BY <1>1 DEF CloudValues, DeviceValues
<1>4. DeviceValues' = DeviceValues BY DEF DeviceValues
<1>5. PICK m \in SUBSET {p \in Properties : ReadableByCloud(p)} : m = enc.message
  BY <1>2
<1>6. Mirror!Publish(m)
  BY <1>3, <1>4, <1>5, MirrorTypes
  DEF Mirror!Publish, DeviceValues, CloudValues
<1> QED BY <1>6 DEF Mirror!Next

\* Every step is a step of the mirror.
LEMMA MirrorStep ==
  ASSUME IndInv, IndInv', [Next]_vars
  PROVE  [Mirror!Next]_Mirror!vars
<1>0. TypeOK /\ TypeOK' /\ EncoderInv BY DEF IndInv
<1>1. CASE \E p \in Properties, v \in Values : CloudChanges(p, v)
  <2>1. PICK p \in Properties, v \in Values : CloudChanges(p, v) BY <1>1
  <2>2. /\ remote' = [remote EXCEPT ![p] = v]
        /\ WriteableByCloud(p) /\ prop' = prop /\ enc' = enc
    BY <2>1 DEF CloudChanges
  <2>3. CloudValues' = [CloudValues EXCEPT ![p] = v]
    BY <1>0, <2>2 DEF CloudValues, TypeOK
  <2>4. Mirror!CloudChanges(p, v)
    BY <2>2, <2>3 DEF Mirror!CloudChanges, CloudValues
  <2>5. p \in {q \in Properties : WriteableByCloud(q)} BY <2>2
  <2> QED BY <2>4, <2>5 DEF Mirror!Next
<1>2. CASE WriteFails(TRUE) \/ WriteEnds(TRUE)
  BY <1>0, <1>2, PublishStep DEF WriteFails, WriteEnds
<1>3. CASE UNCHANGED remote BY <1>0, <1>3, DeviceStep
<1>4. CASE WriteFails(FALSE) \/ WriteEnds(FALSE)
  BY <1>0, <1>4, DeviceStep DEF WriteFails, WriteEnds, Transmit
<1>5. CASE \/ \E p \in Properties, v \in Values : SketchWrites(p, v)
           \/ Push \/ DataLost \/ LinkChanges \/ Restart
           \/ \E p \in Properties : Elapse(p)
           \/ Turn \/ Receive \/ DecodeMessage(Values) \/ EncodeMessage
  <2>1. UNCHANGED remote
    BY <1>5
    DEF SketchWrites, Push, DataLost, LinkChanges, Restart, Elapse, Turn, Connect,
        LeaveConnected, BeginTurn, Receive, DecodeMessage, EncodeMessage, cloudVars
  <2> QED BY <2>1, <1>3
<1>6. CASE UNCHANGED vars BY <1>3, <1>6 DEF vars, cloudVars
<1> QED
  BY <1>1, <1>2, <1>4, <1>5, <1>6 DEF Next, Surroundings, WithinTurn

\* The cloud's values change only by its users, where that is permitted, and by
\* messages that take readable properties to the values they have on the board
\* at that moment: a retry never carries an old value.
THEOREM PublishesTheMirror == Spec => ImplementsMirror
<1>1. Init => Mirror!Init
  <2>1. Init => TypeOK BY InitHolds DEF IndInv
  <2>2. Init => enc.state = "Idle" BY DEF Init, EncoderBoot
  <2> QED BY <2>1, <2>2, MirrorTypes DEF Mirror!Init, DeviceValues, CloudValues
<1>2. IndInv /\ IndInv' /\ [Next]_vars => [Mirror!Next]_Mirror!vars
  BY MirrorStep
<1> QED BY <1>1, <1>2, Inductive, PTL
  DEF Spec, ImplementsMirror, Mirror!Spec
=============================================================================
