------------------------ MODULE PropertySync_proofs ------------------------
(***************************************************************************)
(* Proofs about PropertySync, for every container, every declaration of    *)
(* its properties, every size of the buffer and of the properties, and all *)
(* bounds.                                                                 *)
(***************************************************************************)
EXTENDS PropertySync, TLAPS

-----------------------------------------------------------------------------
(* What the operations on one property leave alone, and what they set.     *)

\* Every property is readable or writeable by the cloud.
LEMMA PermissionGiven ==
  ASSUME NEW p \in Properties
  PROVE  /\ Traits[p] \in TraitSet
         /\ ReadableByCloud(p) \/ WriteableByCloud(p)
  BY PropertyAssumption DEF ReadableByCloud, WriteableByCloud, TraitSet

\* A callback may change the value and mark the property, nothing else.
LEMMA CallbackOutcome ==
  ASSUME NEW p \in Properties, NEW s \in Slots, NEW edits \in SUBSET Values,
         NEW t \in ExecCallbackOnChange(p, s, edits)
  PROVE  /\ t \in Slots
         /\ t.cloud = s.cloud /\ t.cloudTime = s.cloudTime
<1>1. PICK v \in {s.value} \cup (edits \cap Traits[p].values) :
        t = [[s EXCEPT !.value = v] EXCEPT
               !.modified = s.modified
                 \/ IsDifferentFromCloud(p, [s EXCEPT !.value = v])]
  BY DEF ExecCallbackOnChange
<1>2. v \in Values BY DEF Slots
<1> DEFINE m == s.modified \/ IsDifferentFromCloud(p, [s EXCEPT !.value = v])
<1>3. m \in BOOLEAN BY DEF Slots, IsDifferentFromCloud
<1> HIDE DEF m
<1>4. t = [[s EXCEPT !.value = v] EXCEPT !.modified = m] BY <1>1 DEF m
<1> QED BY <1>2, <1>3, <1>4 DEF Slots

\* The value of the cloud taken over is a value.
LEMMA FromCloudType ==
  ASSUME NEW s \in Slots
  PROVE  /\ FromCloudToLocal(s) \in Slots
         /\ FromCloudToLocal(s).cloud = s.cloud
         /\ FromCloudToLocal(s).cloudTime = s.cloudTime
  BY DEF FromCloudToLocal, Slots

\* A change of the cloud is marked to be echoed.
LEMMA ChangesOutcome ==
  ASSUME NEW p \in Properties, NEW s \in Slots, NEW edits \in SUBSET Values,
         NEW t \in Changes(p, s, edits)
  PROVE  /\ t \in Slots
         /\ t.cloud = s.cloud /\ t.cloudTime = s.cloudTime /\ Forced(t)
<1> DEFINE u == IF Traits[p].write = "Auto" THEN FromCloudToLocal(s) ELSE s
<1>1. u \in Slots /\ u.cloud = s.cloud /\ u.cloudTime = s.cloudTime
  BY FromCloudType
<1>2. PICK w \in ExecCallbackOnChange(p, u, edits) : t = [w EXCEPT !.echo = TRUE]
  BY Zenon DEF Changes
<1> HIDE DEF u
<1>3. w \in Slots /\ w.cloud = u.cloud /\ w.cloudTime = u.cloudTime
  BY <1>1, <1>2, CallbackOutcome
<1> QED BY <1>1, <1>2, <1>3 DEF Slots, Forced

\* A synchronised property keeps the cloud's value and time.
LEMMA SyncOutcome ==
  ASSUME NEW p \in Properties, NEW s \in Slots, NEW edits \in SUBSET Values,
         NEW t \in ExecCallbackOnSync(p, s, edits)
  PROVE  t \in Slots /\ t.cloud = s.cloud /\ t.cloudTime = s.cloudTime
<1>1. CASE t \in ExecCallbackOnChange(p, FromCloudToLocal(s), edits)
  BY <1>1, FromCloudType, CallbackOutcome
<1>2. CASE t = s BY <1>2
<1> QED BY <1>1, <1>2 DEF ExecCallbackOnSync

\* updateProperty() sets the named property, if the cloud may, and no other.
LEMMA UpdateOutcome ==
  ASSUME NEW props \in [Properties -> Slots], NEW p \in Properties,
         NEW value \in Values, NEW time \in ChangeTimes, NEW sync \in BOOLEAN,
         NEW edits \in SUBSET Values,
         NEW r \in UpdateProperty(props, p, value, time, sync, edits)
  PROVE  /\ r \in [Properties -> Slots]
         /\ \A q \in Properties : q # p \/ ~WriteableByCloud(p) => r[q] = props[q]
         /\ WriteableByCloud(p) =>
              /\ r[p].cloud = value /\ r[p].cloudTime = time
              /\ sync \/ Forced(r[p])
<1>1. CASE ~WriteableByCloud(p) BY <1>1 DEF UpdateProperty
<1>2. CASE WriteableByCloud(p)
  <2> DEFINE s == [props[p] EXCEPT !.cloud = value, !.cloudTime = time]
  <2>1. s \in Slots /\ s.cloud = value /\ s.cloudTime = time BY DEF Slots
  <2>2. PICK t \in IF sync THEN ExecCallbackOnSync(p, s, edits)
                           ELSE Changes(p, s, edits) :
          r = [props EXCEPT ![p] = t]
    BY <1>2, Zenon DEF UpdateProperty
  <2> HIDE DEF s
  <2>3. /\ t \in Slots /\ t.cloud = value /\ t.cloudTime = time
        /\ sync \/ Forced(t)
    BY <2>1, <2>2, SyncOutcome, ChangesOutcome
  <2> QED BY <1>2, <2>2, <2>3
<1> QED BY <1>1, <1>2

\* Packing a property makes its copy its value and marks it.
LEMMA AppendOutcome ==
  ASSUME NEW s \in Slots
  PROVE  /\ Append1(s) \in Slots
         /\ Append1(s).cloud = s.value /\ Append1(s).value = s.value
         /\ Forced(Append1(s))
  BY DEF Append1, Slots, Forced

\* A finished message unmarks its properties, and changes nothing else.
LEMMA CompletedOutcome ==
  ASSUME NEW s \in Slots
  PROVE  /\ AppendCompleted(s) \in Slots
         /\ AppendCompleted(s).cloud = s.cloud
         /\ AppendCompleted(s).value = s.value
         /\ ~Forced(s) => ~Forced(AppendCompleted(s))
  BY DEF AppendCompleted, Slots, Forced

\* Stamping, requesting and waiting do not touch what the cloud sees.
LEMMA StampOutcome ==
  ASSUME NEW p \in Properties, NEW s \in Slots, NEW now \in Times
  PROVE  /\ StampLocalChange(p, s, now) \in Slots
         /\ StampLocalChange(p, s, now).cloud = s.cloud
         /\ StampLocalChange(p, s, now).value = s.value
         /\ Forced(StampLocalChange(p, s, now)) <=> Forced(s)
  BY DEF StampLocalChange, Slots, Forced

\* The same for the marks of push().
LEMMA RequestOutcome ==
  ASSUME NEW p, NEW s \in Slots
  PROVE  /\ RequestUpdate(p, s) \in Slots
         /\ RequestUpdate(p, s).cloud = s.cloud
         /\ RequestUpdate(p, s).value = s.value
         /\ Forced(RequestUpdate(p, s)) <=> Forced(s)
  BY DEF RequestUpdate, Slots, Forced

-----------------------------------------------------------------------------
(* The inductive invariant.                                                *)

\* A message is being packed: its properties are in the buffer.
Packing ==
  enc.state \in {"TryAppend", "OutOfMemory", "SkipProperty", "TrimAppend",
                 "CloseCBORContainer", "TrimClose", "FinishAppend"}

\* The loop has looked at p since the message was opened.
Seen(p) == enc.index < p /\ p <= enc.index + enc.checked

EncoderCounts ==
  /\ enc.encoded <= enc.checked
  /\ enc.state \in {"TryAppend", "OutOfMemory", "TrimAppend", "CloseCBORContainer"}
       => (enc.encoded = 0 => enc.used = 1)
  /\ enc.state = "TrimClose" => enc.encoded >= 1

\* What is in the message is what the board has.
MessageCurrent ==
  /\ enc.state = "Idle" => enc.message = {}
  /\ \A p \in enc.message : /\ ReadableByCloud(p)
                            /\ prop[p].cloud = prop[p].value
                            /\ enc.payload[p] = prop[p].value

\* A readable property that the loop passed over was not marked.
PassedOver ==
  Packing => \A p \in Properties :
    /\ p \in enc.message => Seen(p)
    /\ Seen(p) /\ ReadableByCloud(p) /\ p \notin enc.message
         => ~Forced(prop[p])

EncoderInv == EncoderCounts /\ MessageCurrent /\ PassedOver

-----------------------------------------------------------------------------
(* The encoder.                                                            *)

\* What a step of the encoder may do to the properties.
EncoderOutcome ==
  /\ prop' \in [Properties -> Slots]
  /\ enc' \in Encoders
  /\ \A p \in Properties :
       /\ prop'[p].value = prop[p].value
       /\ prop'[p].cloud = prop[p].cloud \/ Forced(prop'[p])
       /\ ReadableByCloud(p) /\ Forced(prop[p])
            => \/ Forced(prop'[p])
               \/ enc'.state = "SendMessage" /\ p \in enc'.message
  /\ EncoderInv'

\* The encoder at rest.
LEMMA EncoderAtRest ==
  /\ EncoderBoot \in Encoders
  /\ enc \in Encoders => /\ EncoderDone \in Encoders
                         /\ EncoderDone.index = enc.index
                         /\ EncoderDone.state = "Idle"
                         /\ EncoderDone.message = {}
                         /\ EncoderDone.encoded = 0 /\ EncoderDone.checked = 0
<1> USE PropertyAssumption DEF Properties
<1>1. EncoderBoot.payload \in [Properties -> Values]
  BY DEF EncoderBoot, TraitSet
<1>2. EncoderBoot \in Encoders
  BY <1>1 DEF EncoderBoot, Encoders, EncoderStates
<1> QED BY <1>2 DEF EncoderDone, EncoderBoot, Encoders

\* What is kept when the state moves on and the message stays as it is.
LEMMA MessageKept ==
  ASSUME TypeOK, EncoderInv, UNCHANGED prop,
         enc'.message = enc.message, enc'.payload = enc.payload,
         enc'.index = enc.index, enc'.checked = enc.checked,
         enc'.encoded = enc.encoded, enc.state # "Idle",
         Packing, enc'.state # "Idle"
  PROVE  MessageCurrent' /\ PassedOver'
BY DEF EncoderInv, MessageCurrent, PassedOver, Packing, Seen

\* A message is opened, or packed again.
LEMMA OpenOutcome ==
  ASSUME TypeOK, EncoderInv, OpenCBORContainer
  PROVE  enc' \in Encoders /\ EncoderInv'
<1>1. enc \in Encoders /\ EncoderBoot.payload \in [Properties -> Values]
  BY EncoderAtRest DEF TypeOK, Encoders
<1>2. /\ enc'.state = "TryAppend" /\ enc'.message = {}
      /\ enc'.encoded = 0 /\ enc'.checked = 0 /\ enc'.used = 1
      /\ enc'.index = enc.index
  BY <1>1 DEF OpenCBORContainer, Encoders
<1>3. enc' \in Encoders
  <2>1. "TryAppend" \in EncoderStates BY DEF EncoderStates
  <2>2. 0 \in 0 .. N BY PropertyAssumption
  <2> QED BY <1>1, <2>1, <2>2 DEF OpenCBORContainer, Encoders
<1> QED
  BY <1>2, <1>3 DEF EncoderInv, EncoderCounts, MessageCurrent, PassedOver, Seen,
                    Encoders, Properties

\* The loop passes over a property that is not marked or not readable.
LEMMA PassOutcome ==
  ASSUME TypeOK, EncoderInv, TryAppendPass
  PROVE  enc' \in Encoders /\ EncoderInv'
<1> USE PropertyAssumption DEF TypeOK, Properties
<1>1. /\ enc'.state \in {"TryAppend", "CloseCBORContainer"}
      /\ enc'.checked = enc.checked + 1 /\ enc'.checked \in 0 .. N
      /\ enc'.message = enc.message /\ enc'.payload = enc.payload
      /\ enc'.encoded = enc.encoded /\ enc'.used = enc.used
      /\ enc'.index = enc.index
  BY DEF TryAppendPass, AfterProperty, Cursor, Encoders
<1>2. enc' \in Encoders
  BY <1>1 DEF TryAppendPass, AfterProperty, Encoders, EncoderStates
<1>3. EncoderCounts'
  BY <1>1 DEF TryAppendPass, EncoderInv, EncoderCounts, Encoders
<1>4. MessageCurrent'
  BY <1>1 DEF TryAppendPass, EncoderInv, MessageCurrent
<1>5. ReadableByCloud(Cursor) => ~Forced(prop[Cursor])
  BY DEF TryAppendPass, Wanted, ShouldBeUpdated
<1>6. ASSUME NEW p \in Properties
      PROVE  Seen(p)' <=> Seen(p) \/ p = Cursor
  BY <1>1 DEF Seen, Cursor, Encoders
<1>7. Packing /\ UNCHANGED prop BY DEF TryAppendPass, Packing
<1>8. PassedOver'
  BY <1>1, <1>5, <1>6, <1>7 DEF EncoderInv, PassedOver
<1> QED BY <1>2, <1>3, <1>4, <1>8 DEF EncoderInv

\* A step that leaves the properties and the message alone.
LEMMA QuietStep ==
  ASSUME TypeOK, EncoderInv,
         \/ InitPropertyEncoder \/ TryAppendFull \/ TryAppendEnd
         \/ OutOfMemory \/ SkipProperty \/ TrimAppend \/ CloseCBORContainer
         \/ TrimClose \/ EncodeError
  PROVE  enc' \in Encoders /\ EncoderInv'
<1>0. enc \in Encoders /\ N \in Nat \ {0} /\ 0 \in 0 .. N
  BY PropertyAssumption DEF TypeOK
<1>1. CASE InitPropertyEncoder
  <2>1. /\ enc'.state = "OpenCBORContainer" /\ enc'.message = enc.message
        /\ enc'.payload = enc.payload /\ enc'.encoded = 0 /\ enc'.checked = 0
    BY <1>0, <1>1 DEF InitPropertyEncoder, Encoders
  <2>2. "OpenCBORContainer" \in EncoderStates BY DEF EncoderStates
  <2>3. enc' \in Encoders BY <1>0, <1>1, <2>2 DEF InitPropertyEncoder, Encoders
  <2> QED BY <1>1, <2>1, <2>3 DEF InitPropertyEncoder, EncoderInv, EncoderCounts,
                                  MessageCurrent, PassedOver, Packing
<1>2. CASE TryAppendFull \/ TryAppendEnd \/ OutOfMemory
  <2>1. PICK st \in {"TrimAppend", "OutOfMemory", "CloseCBORContainer",
                     "SkipProperty"} : enc' = [enc EXCEPT !.state = st]
    BY <1>2 DEF TryAppendFull, TryAppendEnd, OutOfMemory
  <2>2. /\ enc'.state = st /\ enc'.used = enc.used
        /\ enc'.message = enc.message /\ enc'.payload = enc.payload
        /\ enc'.encoded = enc.encoded /\ enc'.checked = enc.checked
        /\ enc'.index = enc.index
    BY <1>0, <2>1 DEF Encoders
  <2>3. st \in EncoderStates BY <2>1 DEF EncoderStates
  <2>4. enc' \in Encoders BY <1>0, <2>1, <2>3 DEF Encoders
  <2>5. enc.state \in {"TryAppend", "OutOfMemory"} /\ UNCHANGED prop
    BY <1>2 DEF TryAppendFull, TryAppendEnd, OutOfMemory
  <2>6. EncoderCounts' BY <2>2, <2>5 DEF EncoderInv, EncoderCounts
  <2>7. MessageCurrent' /\ PassedOver'
    BY <2>1, <2>2, <2>5, MessageKept DEF Packing
  <2> QED BY <2>4, <2>6, <2>7 DEF EncoderInv
<1>3. CASE CloseCBORContainer
  <2>1. PICK st \in EncoderStates, u \in Nat :
          /\ enc' = [enc EXCEPT !.state = st, !.used = u]
          /\ \/ st = "FinishAppend"
             \/ st = "TrimClose" /\ enc.used >= BufferSize
    <3>1. CASE enc.used < BufferSize
      <4>1. enc.used + 1 \in Nat BY <1>0 DEF Encoders
      <4>2. enc' = [enc EXCEPT !.state = "FinishAppend", !.used = enc.used + 1]
        BY <1>3, <3>1 DEF CloseCBORContainer
      <4>3. "FinishAppend" \in EncoderStates BY DEF EncoderStates
      <4> QED BY <4>1, <4>2, <4>3
    <3>2. CASE ~(enc.used < BufferSize)
      <4>1. enc.used \in Nat /\ enc.used >= BufferSize
        BY <1>0, <3>2, EncoderAssumption DEF Encoders
      <4>2. enc' = [enc EXCEPT !.state = "TrimClose", !.used = enc.used]
        BY <1>0, <1>3, <3>2 DEF CloseCBORContainer, Encoders
      <4>3. "TrimClose" \in EncoderStates BY DEF EncoderStates
      <4> QED BY <4>1, <4>2, <4>3
    <3> QED BY <3>1, <3>2
  <2>2. /\ enc'.state = st
        /\ enc'.message = enc.message /\ enc'.payload = enc.payload
        /\ enc'.encoded = enc.encoded /\ enc'.checked = enc.checked
        /\ enc'.index = enc.index
    BY <1>0, <2>1 DEF Encoders
  <2>3. enc' \in Encoders BY <1>0, <2>1 DEF Encoders
  <2>4. enc.state = "CloseCBORContainer" /\ UNCHANGED prop
    BY <1>3 DEF CloseCBORContainer
  <2>5. EncoderCounts'
    BY <1>0, <2>1, <2>2, <2>4, EncoderAssumption
    DEF EncoderInv, EncoderCounts, Encoders
  <2>6. MessageCurrent' /\ PassedOver'
    BY <2>1, <2>2, <2>4, MessageKept DEF Packing
  <2> QED BY <2>3, <2>5, <2>6 DEF EncoderInv
<1>4. CASE SkipProperty
  <2>1. /\ enc'.state = "Error" /\ enc'.message = enc.message
        /\ enc'.payload = enc.payload /\ enc'.encoded = enc.encoded
        /\ enc'.checked = enc.checked
    BY <1>0, <1>4 DEF SkipProperty, Encoders
  <2>2. AdvancedIndex(1) \in 0 .. N - 1
    BY <1>0 DEF AdvancedIndex, Encoders
  <2>3. "Error" \in EncoderStates BY DEF EncoderStates
  <2>4. enc' \in Encoders
    BY <1>0, <1>4, <2>2, <2>3 DEF SkipProperty, Encoders
  <2> QED BY <1>4, <2>1, <2>4 DEF SkipProperty, EncoderInv, EncoderCounts,
                                  MessageCurrent, PassedOver, Packing
<1>5. CASE TrimAppend \/ TrimClose
  <2>1. PICK n \in 0 .. N : enc' = Limited(n)
    BY <1>0, <1>5 DEF TrimAppend, TrimClose, EncoderInv, EncoderCounts, Encoders
  <2>2. PICK st \in {"OpenCBORContainer", "Error"} :
          enc' = [enc EXCEPT !.limit = n, !.limitActive = TRUE, !.state = st]
    BY <2>1 DEF Limited
  <2>3. /\ enc'.state = st
        /\ enc'.message = enc.message /\ enc'.payload = enc.payload
        /\ enc'.encoded = enc.encoded /\ enc'.checked = enc.checked
    BY <1>0, <2>2 DEF Encoders
  <2>4. st \in EncoderStates BY DEF EncoderStates
  <2>5. enc' \in Encoders BY <1>0, <2>2, <2>4 DEF Encoders
  <2> QED BY <1>5, <2>3, <2>5 DEF TrimAppend, TrimClose, EncoderInv,
                 EncoderCounts, MessageCurrent, PassedOver, Packing
<1>6. CASE EncodeError
  BY <1>0, <1>6, EncoderAtRest DEF EncodeError, EncoderInv, EncoderCounts,
                             MessageCurrent, PassedOver, Packing
<1> QED BY <1>1, <1>2, <1>3, <1>4, <1>5, <1>6

\* A property goes into the message.
LEMMA FitsOutcome ==
  ASSUME TypeOK, EncoderInv, TryAppendFits
  PROVE  EncoderOutcome
<1> DEFINE c == Cursor
<1>0. /\ enc \in Encoders /\ N \in Nat \ {0}
      /\ prop \in [Properties -> Slots]
  BY PropertyAssumption DEF TypeOK
<1>1. c \in Properties /\ c = enc.index + enc.checked + 1
  BY <1>0 DEF TryAppendFits, Cursor, Encoders, Properties
<1>2. /\ Append1(prop[c]) \in Slots
      /\ Append1(prop[c]).cloud = prop[c].value
      /\ Append1(prop[c]).value = prop[c].value
      /\ Forced(Append1(prop[c]))
  BY <1>0, <1>1, AppendOutcome
<1>3. prop' = [prop EXCEPT ![c] = Append1(prop[c])]
  BY DEF TryAppendFits
<1>4. /\ prop' \in [Properties -> Slots]
      /\ prop'[c] = Append1(prop[c])
      /\ \A p \in Properties : p # c => prop'[p] = prop[p]
  BY <1>0, <1>1, <1>2, <1>3
<1>5. /\ prop[c].value \in Values /\ Size[c][prop[c].value] \in Nat \ {0}
  BY <1>0, <1>1, EncoderAssumption DEF Slots
<1>6. PICK st \in {"TryAppend", "CloseCBORContainer"} :
        enc' = [Extended(c, prop[c].value) EXCEPT !.state = st]
  BY DEF TryAppendFits, AfterProperty
<1> DEFINE x == Extended(c, prop[c].value)
<1>7. /\ x \in Encoders
      /\ x.checked = enc.checked + 1 /\ x.encoded = enc.encoded + 1
      /\ x.index = enc.index
      /\ x.message = enc.message \cup {c}
      /\ x.payload = [enc.payload EXCEPT ![c] = prop[c].value]
  <2>1. /\ enc.checked + 1 \in 0 .. N /\ enc.encoded + 1 \in 0 .. N
        /\ enc.used + Size[c][prop[c].value] \in Nat
        /\ enc.message \cup {c} \in SUBSET Properties
        /\ [enc.payload EXCEPT ![c] = prop[c].value] \in [Properties -> Values]
    BY <1>0, <1>1, <1>5 DEF EncoderInv, EncoderCounts, Encoders, TryAppendFits,
                            Cursor
  <2> QED BY <1>0, <2>1 DEF Extended, Encoders
<1> HIDE DEF x
<1>8. /\ enc'.state = st
      /\ enc'.checked = enc.checked + 1 /\ enc'.encoded = enc.encoded + 1
      /\ enc'.index = enc.index
      /\ enc'.message = enc.message \cup {c}
      /\ enc'.payload = [enc.payload EXCEPT ![c] = prop[c].value]
  BY <1>6, <1>7 DEF x, Encoders
<1>9. enc' \in Encoders
  <2>1. st \in EncoderStates BY DEF EncoderStates
  <2> QED BY <1>6, <1>7, <2>1 DEF x, Encoders
<1>10. EncoderCounts'
  BY <1>0, <1>8 DEF EncoderInv, EncoderCounts, Encoders
<1>11. MessageCurrent'
  <2>1. ReadableByCloud(c) BY DEF TryAppendFits, Wanted
  <2>2. ASSUME NEW p \in enc'.message
        PROVE  /\ ReadableByCloud(p) /\ prop'[p].cloud = prop'[p].value
               /\ enc'.payload[p] = prop'[p].value
    <3>1. CASE p = c BY <1>0, <1>1, <1>2, <1>4, <1>8, <2>1, <3>1 DEF Encoders
    <3>2. CASE p # c
      <4>1. p \in enc.message /\ p \in Properties
        BY <1>0, <1>8, <2>2, <3>2 DEF Encoders
      <4>2. prop'[p] = prop[p] /\ enc'.payload[p] = enc.payload[p]
        BY <1>0, <1>4, <1>8, <3>2, <4>1 DEF Encoders
      <4> QED BY <4>1, <4>2 DEF EncoderInv, MessageCurrent
    <3> QED BY <3>1, <3>2
  <2> QED BY <1>8, <2>2 DEF MessageCurrent
<1>12. PassedOver'
  <2>1. Packing BY DEF TryAppendFits, Packing
  <2>2. ASSUME NEW p \in Properties
        PROVE  Seen(p)' <=> Seen(p) \/ p = c
    BY <1>0, <1>1, <1>8 DEF Seen, Encoders, Properties
  <2> QED BY <1>1, <1>4, <1>8, <2>1, <2>2 DEF EncoderInv, PassedOver
<1>13. \A p \in Properties :
         /\ prop'[p].value = prop[p].value
         /\ prop'[p].cloud = prop[p].cloud \/ Forced(prop'[p])
         /\ Forced(prop[p]) => Forced(prop'[p])
  BY <1>2, <1>4
<1> QED
  BY <1>4, <1>9, <1>10, <1>11, <1>12, <1>13 DEF EncoderOutcome, EncoderInv

\* A message is finished: its properties are unmarked.
LEMMA FinishOutcome ==
  ASSUME TypeOK, EncoderInv, FinishAppend
  PROVE  EncoderOutcome
<1>0. /\ enc \in Encoders /\ N \in Nat \ {0}
      /\ prop \in [Properties -> Slots]
  BY PropertyAssumption DEF TypeOK
<1>1. /\ enc'.state = "SendMessage" /\ enc'.message = enc.message
      /\ enc'.payload = enc.payload
      /\ enc'.checked = enc.checked /\ enc'.encoded = enc.encoded
  BY <1>0 DEF FinishAppend, Encoders
<1>2. enc' \in Encoders
  <2>1. AdvancedIndex(enc.checked) \in 0 .. N - 1
    BY <1>0 DEF AdvancedIndex, Encoders
  <2>2. "SendMessage" \in EncoderStates BY DEF EncoderStates
  <2> QED BY <1>0, <2>1, <2>2 DEF FinishAppend, Encoders
<1>3. prop' = [p \in Properties |->
                 IF Seen(p) THEN AppendCompleted(prop[p]) ELSE prop[p]]
  BY DEF FinishAppend, Seen
<1>4. ASSUME NEW p \in Properties
      PROVE  /\ prop'[p] \in Slots
             /\ prop'[p].value = prop[p].value
             /\ prop'[p].cloud = prop[p].cloud
  BY <1>0, <1>3, CompletedOutcome
<1>5. prop' \in [Properties -> Slots] BY <1>3, <1>4
<1>6. ASSUME NEW p \in Properties, ReadableByCloud(p), Forced(prop[p])
      PROVE  Forced(prop'[p]) \/ p \in enc'.message
  <2>1. Packing BY DEF FinishAppend, Packing
  <2>2. CASE Seen(p) BY <1>1, <1>6, <2>1, <2>2 DEF EncoderInv, PassedOver
  <2>3. CASE ~Seen(p) BY <1>3, <1>6, <2>3
  <2> QED BY <2>2, <2>3
<1>7. EncoderInv'
  <2>1. EncoderCounts' BY <1>1 DEF EncoderInv, EncoderCounts
  <2>2. enc.message \subseteq Properties BY <1>0 DEF Encoders
  <2>3. MessageCurrent'
    BY <1>1, <1>4, <2>2 DEF EncoderInv, MessageCurrent
  <2>4. PassedOver' BY <1>1 DEF PassedOver, Packing
  <2> QED BY <2>1, <2>3, <2>4 DEF EncoderInv
<1> QED BY <1>1, <1>2, <1>4, <1>5, <1>6, <1>7 DEF EncoderOutcome

\* Any step of the encoder.
LEMMA EncodeOutcome ==
  ASSUME TypeOK, EncoderInv, EncodeStep
  PROVE  EncoderOutcome /\ enc.state # "Idle" /\ enc.state # "SendMessage"
<1>1. enc.state # "Idle" /\ enc.state # "SendMessage"
  BY DEF EncodeStep, InitPropertyEncoder, OpenCBORContainer, TryAppendPass,
         TryAppendFits, TryAppendFull, TryAppendEnd, OutOfMemory, SkipProperty,
         TrimAppend, CloseCBORContainer, TrimClose, FinishAppend, EncodeError
<1>2. CASE TryAppendFits BY <1>1, <1>2, FitsOutcome
<1>3. CASE FinishAppend BY <1>1, <1>3, FinishOutcome
<1>4. CASE ~TryAppendFits /\ ~FinishAppend
  <2>1. UNCHANGED prop
    BY <1>4 DEF EncodeStep, InitPropertyEncoder, OpenCBORContainer,
         TryAppendPass, TryAppendFull, TryAppendEnd, OutOfMemory, SkipProperty,
         TrimAppend, CloseCBORContainer, TrimClose, EncodeError
  <2>2. enc' \in Encoders /\ EncoderInv'
    BY <1>4, OpenOutcome, PassOutcome, QuietStep DEF EncodeStep
  <2> QED BY <1>1, <2>1, <2>2 DEF EncoderOutcome, TypeOK
<1> QED BY <1>2, <1>3, <1>4

-----------------------------------------------------------------------------
(* The decoder.                                                            *)

\* The maps of last values come in the order of the container, one for each
\* property; those of a change are of a property the cloud may write.
MapsInOrder ==
  /\ dec.state = "LeaveMap" /\ dec.sync =>
       /\ Len(dec.rest) >= 1 /\ dec.name + Len(dec.rest) = N
       /\ \A i \in 1 .. Len(dec.rest) : dec.rest[i].name = dec.name + i
  /\ dec.state = "LeaveMap" /\ ~dec.sync =>
       /\ Len(dec.rest) = 1 /\ dec.name = NoName
       /\ WriteableByCloud(dec.rest[1].name)
  /\ dec.state = "Complete" => dec.rest = <<>> /\ dec.name = NoName
  /\ \A i \in 1 .. Len(data) : WriteableByCloud(data[i].name)

\* The sum of a base time and a time is a time of change.
LEMMA ChangeTime ==
  ASSUME NEW b \in Times, NEW t \in Times
  PROVE  b + t \in ChangeTimes
  BY PropertyAssumption DEF Times, ChangeTimes

\* What the decoder may have for a time.
LEMMA GivenTime ==
  ASSUME NEW k \in OptionalTimes, NEW t \in Times
  PROVE  Given(k, t) \in Times /\ (k # NotSet => Given(k, t) = k)
  BY DEF Given, OptionalTimes

\* The decoder takes in the map at the head of the rest.
LEMMA CollectedOutcome ==
  ASSUME TypeOK, dec.rest # <<>>
  PROVE  /\ Head(dec.rest) = dec.rest[1] /\ Head(dec.rest) \in Maps
         /\ Collected.name = Head(dec.rest).name
         /\ Collected.rest = Tail(dec.rest)
         /\ Collected.value \in Values
         /\ Collected.base = Given(Head(dec.rest).base, dec.base)
         /\ Collected.base \in Times /\ Collected.time \in Times
         /\ Collected.state = dec.state /\ Collected.sync = dec.sync
         /\ Collected \in Decoders
         /\ NextProperty \/ (dec.name = NoName /\ dec.time = 0) =>
              /\ Collected.told <=> Head(dec.rest).time # NotSet
              /\ Collected.told => Collected.time = Head(dec.rest).time
<1> DEFINE h  == Head(dec.rest)
           b  == Given(h.base, dec.base)
           mt == Given(h.time, dec.mapTime)
           t  == LaterOf(mt, IF NextProperty THEN 0 ELSE dec.time)
           td == IF NextProperty \/ dec.name = NoName THEN h.time # NotSet
                                                      ELSE dec.told
<1>0. dec \in Decoders /\ MaxClock \in Nat BY PropertyAssumption DEF TypeOK
<1>1. h \in Maps /\ h = dec.rest[1] /\ Tail(dec.rest) \in Seq(Maps)
  BY <1>0 DEF Decoders
<1>2. /\ h.name \in Properties /\ h.value \in Values
      /\ h.base \in OptionalTimes /\ h.time \in OptionalTimes
  BY <1>1 DEF Maps
<1>3. b \in Times /\ mt \in Times /\ (h.time # NotSet => mt = h.time)
  <2>1. dec.base \in Times /\ dec.mapTime \in Times BY <1>0 DEF Decoders
  <2> QED BY <1>2, <2>1, GivenTime
<1>4. t \in Times /\ td \in BOOLEAN
      /\ (NextProperty \/ dec.time = 0 => t = mt)
  <2> HIDE DEF h, mt
  <2>1. dec.time \in Times /\ dec.told \in BOOLEAN BY <1>0 DEF Decoders
  <2>2. td \in BOOLEAN
    <3>1. CASE NextProperty \/ dec.name = NoName BY <3>1
    <3>2. CASE ~(NextProperty \/ dec.name = NoName) BY <2>1, <3>2
    <3> QED BY <3>1, <3>2
  <2>3. LaterOf(mt, 0) = mt /\ LaterOf(mt, dec.time) \in Times
        /\ (dec.time = 0 => LaterOf(mt, dec.time) = mt)
    BY <1>0, <1>3, <2>1 DEF LaterOf, Times
  <2>4. CASE NextProperty BY <1>3, <2>2, <2>3, <2>4
  <2>5. CASE ~NextProperty BY <2>2, <2>3, <2>5
  <2> QED BY <2>4, <2>5
<1>5. Collected = [dec EXCEPT !.rest = Tail(@), !.name = h.name,
                              !.value = h.value, !.base = b, !.mapTime = mt,
                              !.time = t, !.told = td]
  BY DEF Collected
<1>6. NextProperty \/ dec.name = NoName => (td <=> h.time # NotSet) OBVIOUS
<1> HIDE DEF b, mt, t, td
<1>7. /\ Collected.name = h.name /\ Collected.rest = Tail(dec.rest)
      /\ Collected.value = h.value /\ Collected.base = b
      /\ Collected.time = t /\ Collected.told = td
      /\ Collected.state = dec.state /\ Collected.sync = dec.sync
      /\ Collected \in Decoders
  <2> HIDE DEF h
  <2> QED BY <1>0, <1>1, <1>2, <1>3, <1>4, <1>5 DEF Decoders, h
<1> QED BY <1>1, <1>2, <1>3, <1>4, <1>6, <1>7 DEF b

\* What taking in the maps before this one does to the properties.
LEMMA BeforeOutcome ==
  ASSUME TypeOK, NEW edits \in SUBSET Values, NEW r \in UpdatedBefore(edits)
  PROVE  /\ r \in [Properties -> Slots]
         /\ \A p \in Properties :
              ~(NextProperty /\ p = dec.name /\ WriteableByCloud(p))
                => r[p] = prop[p]
         /\ NextProperty /\ WriteableByCloud(dec.name) =>
              /\ r[dec.name].cloudTime = dec.base + dec.time
              /\ dec.sync \/ Forced(r[dec.name])
<1>0. dec \in Decoders /\ prop \in [Properties -> Slots] BY DEF TypeOK
<1>1. CASE NextProperty
  <2>1. /\ dec.name \in Properties /\ dec.value \in Values
        /\ dec.base \in Times /\ dec.time \in Times /\ dec.sync \in BOOLEAN
    BY <1>0, <1>1 DEF NextProperty, Decoders
  <2>2. r \in UpdateProperty(prop, dec.name, dec.value, dec.base + dec.time,
                             dec.sync, edits)
    BY <1>1 DEF UpdatedBefore
  <2>3. dec.base + dec.time \in ChangeTimes BY <2>1, ChangeTime
  <2> QED BY <1>0, <1>1, <2>1, <2>2, <2>3, UpdateOutcome
<1>2. CASE ~NextProperty BY <1>0, <1>2 DEF UpdatedBefore
<1> QED BY <1>1, <1>2

\* The time a step of the decoder gives to p.
EventTime(p) ==
  IF p = Head(dec.rest).name THEN Collected.base + Collected.time
                             ELSE dec.base + dec.time

\* A step of the decoder updates the properties of UpdatedNow, and only those.
LEMMA UpdatedOutcome ==
  ASSUME TypeOK, NEW edits \in SUBSET Values,
         LeaveMap(edits) \/ LeaveLastMap(edits)
  PROVE  /\ prop' \in [Properties -> Slots]
         /\ \A p \in Properties \ UpdatedNow : prop'[p] = prop[p]
         /\ \A p \in UpdatedNow : /\ prop'[p].cloudTime = EventTime(p)
                                  /\ dec.sync \/ Forced(prop'[p])
<1> DEFINE h == Head(dec.rest)
<1>0. dec \in Decoders /\ dec.rest \in Seq(Maps) BY DEF TypeOK, Decoders
<1>1. CASE LeaveMap(edits)
  <2>1. prop' \in UpdatedBefore(edits) /\ Len(dec.rest) # 1
    <3> DEFINE k == Len(dec.rest)
    <3>1. prop' \in UpdatedBefore(edits) BY <1>1, Zenon DEF LeaveMap
    <3>2. k \in Nat BY <1>0
    <3>3. k > 1 BY <1>1, Zenon DEF LeaveMap
    <3> HIDE DEF k
    <3>4. k # 1 BY <3>2, <3>3
    <3> QED BY <3>1, <3>4, Zenon DEF k
  <2>2. \A p \in Properties :
          p \in UpdatedNow <=> NextProperty /\ p = dec.name /\ WriteableByCloud(p)
    BY <2>1 DEF UpdatedNow
  <2>3. UpdatedNow \subseteq Properties BY DEF UpdatedNow
  <2>4. NextProperty => EventTime(dec.name) = dec.base + dec.time
    BY DEF NextProperty, EventTime
  <2> QED BY <2>1, <2>2, <2>3, <2>4, BeforeOutcome
<1>2. CASE LeaveLastMap(edits)
  <2>1. PICK r \in UpdatedBefore(edits) :
          prop' \in UpdateProperty(r, Collected.name, Collected.value,
                                   Collected.base + Collected.time, dec.sync,
                                   edits)
    BY <1>2 DEF LeaveLastMap
  <2>2. dec.rest # <<>> /\ Len(dec.rest) = 1
    <3>1. Len(dec.rest) = 1 BY <1>2, Zenon DEF LeaveLastMap
    <3> QED BY <3>1
  <2>3. /\ h \in Maps /\ Collected.name = h.name /\ h.name \in Properties
        /\ Collected.value \in Values
        /\ Collected.base + Collected.time \in ChangeTimes
        /\ dec.sync \in BOOLEAN
    BY <1>0, <2>2, CollectedOutcome, ChangeTime DEF Maps, Decoders
  <2>4. \A p \in Properties :
          p \in UpdatedNow <=>
            WriteableByCloud(p) /\ ((NextProperty /\ p = dec.name) \/ p = h.name)
    BY <2>2 DEF UpdatedNow
  <2>5. UpdatedNow \subseteq Properties BY DEF UpdatedNow
  <2>6. /\ r \in [Properties -> Slots]
        /\ \A p \in Properties :
              ~(NextProperty /\ p = dec.name /\ WriteableByCloud(p))
                => r[p] = prop[p]
        /\ NextProperty /\ WriteableByCloud(dec.name) =>
              /\ r[dec.name].cloudTime = dec.base + dec.time
              /\ dec.sync \/ Forced(r[dec.name])
    BY <2>1, BeforeOutcome
  <2>7. /\ prop' \in [Properties -> Slots]
        /\ \A q \in Properties :
             q # h.name \/ ~WriteableByCloud(h.name) => prop'[q] = r[q]
        /\ WriteableByCloud(h.name) =>
             /\ prop'[h.name].cloudTime = Collected.base + Collected.time
             /\ dec.sync \/ Forced(prop'[h.name])
    BY <2>1, <2>3, <2>6, UpdateOutcome
  <2>8. /\ EventTime(h.name) = Collected.base + Collected.time
        /\ NextProperty => EventTime(dec.name) = dec.base + dec.time
    BY DEF NextProperty, EventTime
  <2> HIDE DEF h
  <2>9. ASSUME NEW p \in Properties, p \notin UpdatedNow
        PROVE  prop'[p] = prop[p]
    BY <2>4, <2>6, <2>7, <2>9
  <2>10. ASSUME NEW p \in UpdatedNow
         PROVE  prop'[p].cloudTime = EventTime(p)
                /\ (dec.sync \/ Forced(prop'[p]))
    <3>1. CASE p = h.name BY <2>3, <2>4, <2>5, <2>7, <2>8, <3>1
    <3>2. CASE p # h.name
      <4>1. NextProperty /\ p = dec.name /\ WriteableByCloud(p) /\ p \in Properties
        BY <2>4, <2>5, <3>2
      <4> QED BY <2>6, <2>7, <2>8, <3>2, <4>1
    <3> QED BY <3>1, <3>2
  <2> QED BY <2>7, <2>9, <2>10
<1> QED BY <1>1, <1>2

-----------------------------------------------------------------------------
(* Nothing is forgotten, at every moment of a session.                     *)

\* The decoder and the encoder do not run at once.
OneCall == enc.state = "Idle" \/ dec.state = "Idle"

\* The board's copy of p was made in this session.
Synced(p) ==
  \/ thing = "Connected"
  \/ ~WriteableByCloud(p)
  \/ dec.state = "Complete"
  \/ dec.state = "LeaveMap" /\ dec.sync /\ p < dec.name

AccountedFor(p) ==
  \/ prop[p].cloud = remote[p].value
  \/ ToBeSent(p) \/ InFlight(p) \/ p \in lost \cup overtaken

AllAccounted ==
  \A p \in Properties : ReadableByCloud(p) /\ Synced(p) => AccountedFor(p)

IndInv ==
  /\ TypeOK /\ OneCall /\ EncoderInv
  /\ MapsInOrder /\ AllAccounted

\* Steps that leave the cloud, the messages under way and the decoder alone, and
\* keep what the properties say about the cloud.
LEMMA LocalStep ==
  ASSUME IndInv, prop' \in [Properties -> Slots], clock' \in Times,
         clock <= clock', OneCall', EncoderInv', enc' \in Encoders,
         thing' \in {"RequestLastValues", "Connected"},
         thing' = "Connected" => thing = "Connected",
         \A p \in Properties :
           /\ prop'[p].cloud = prop[p].cloud \/ Forced(prop'[p])
           /\ ReadableByCloud(p) /\ ToBeSent(p) => ToBeSent(p)',
         UNCHANGED <<remote, data, answers, dec, lost, overtaken>>
  PROVE  IndInv'
<1>0. TypeOK /\ TypeOK' BY DEF IndInv, TypeOK
<1>1. MapsInOrder' BY DEF IndInv, MapsInOrder
<1>3. AllAccounted'
  <2>1. SUFFICES ASSUME NEW p \in Properties, ReadableByCloud(p), Synced(p)'
                 PROVE  AccountedFor(p)'
    BY DEF AllAccounted
  <2>2. Synced(p) BY <2>1 DEF Synced
  <2>3. AccountedFor(p) BY <2>1, <2>2 DEF IndInv, AllAccounted
  <2>4. InFlight(p)' <=> InFlight(p) BY DEF InFlight
  <2>5. Forced(prop'[p]) => ToBeSent(p)' BY DEF ToBeSent
  <2> QED BY <2>1, <2>3, <2>4, <2>5 DEF AccountedFor
<1> QED BY <1>0, <1>1, <1>3 DEF IndInv

\* Between two calls, nothing is in the buffer.
LEMMA AtRest ==
  ASSUME IndInv, enc.state = "Idle", UNCHANGED enc
  PROVE  EncoderInv' /\ \A p \in Properties : ToBeSent(p) <=> Forced(prop[p])
BY DEF IndInv, EncoderInv, EncoderCounts, MessageCurrent, PassedOver, Packing,
       ToBeSent

-----------------------------------------------------------------------------
(* The steps of the surroundings.                                          *)

\* The sketch, push() and time change neither the copies nor the marks.
LEMMA SketchStep ==
  ASSUME IndInv,
         \/ \E p \in Properties, v \in Values : SketchWrites(p, v)
         \/ Push
         \/ \E p \in Properties : Elapse(p)
         \/ Tick
  PROVE  IndInv'
<1>0. /\ TypeOK /\ prop \in [Properties -> Slots] /\ enc \in Encoders
      /\ clock \in Times /\ MaxClock \in Nat
      /\ clock \in Nat /\ Values \subseteq Nat
  BY PropertyAssumption DEF IndInv, TypeOK, Times
<1>1. ASSUME prop' \in [Properties -> Slots],
             \A p \in Properties : /\ prop'[p].cloud = prop[p].cloud
                                   /\ Forced(prop'[p]) <=> Forced(prop[p]),
             Idle, clock' \in Times, clock <= clock',
             UNCHANGED <<enc, thing, remote, data, answers, dec, lost, overtaken>>
      PROVE  IndInv'
  <2>1. EncoderInv' BY <1>1, AtRest DEF Idle
  <2>2. OneCall' /\ thing \in {"RequestLastValues", "Connected"}
    BY <1>0, <1>1 DEF OneCall, Idle, TypeOK
  <2>3. \A p \in Properties : ToBeSent(p) => ToBeSent(p)'
    BY <1>1 DEF ToBeSent
  <2> QED BY <1>0, <1>1, <2>1, <2>2, <2>3, LocalStep
<1>2. CASE \E p \in Properties, v \in Values : SketchWrites(p, v)
  <2>1. PICK p \in Properties, v \in Values : SketchWrites(p, v) BY <1>2
  <2>2. prop' = [prop EXCEPT ![p].value = v] BY <2>1 DEF SketchWrites
  <2>3. [prop[p] EXCEPT !.value = v] \in Slots BY <1>0 DEF Slots
  <2>4. prop' \in [Properties -> Slots] BY <1>0, <2>2, <2>3
  <2>5. \A q \in Properties : /\ prop'[q].cloud = prop[q].cloud
                              /\ Forced(prop'[q]) <=> Forced(prop[q])
    BY <1>0, <2>2 DEF Slots, Forced
  <2> QED BY <1>0, <1>1, <2>1, <2>4, <2>5 DEF SketchWrites, cloudVars
<1>3. CASE Push
  <2>1. prop' = [p \in Properties |-> RequestUpdate(p, prop[p])] BY <1>3 DEF Push
  <2>2. \A p \in Properties : /\ RequestUpdate(p, prop[p]) \in Slots
                              /\ prop'[p].cloud = prop[p].cloud
                              /\ Forced(prop'[p]) <=> Forced(prop[p])
    BY <1>0, <2>1, RequestOutcome
  <2>3. prop' \in [Properties -> Slots] BY <2>1, <2>2
  <2> QED BY <1>0, <1>1, <1>3, <2>2, <2>3 DEF Push, cloudVars
<1>4. CASE \E p \in Properties : Elapse(p)
  <2>1. PICK p \in Properties : Elapse(p) BY <1>4
  <2>2. prop' = [prop EXCEPT ![p].due = TRUE] BY <2>1 DEF Elapse
  <2>3. [prop[p] EXCEPT !.due = TRUE] \in Slots BY <1>0 DEF Slots
  <2>4. prop' \in [Properties -> Slots] BY <1>0, <2>2, <2>3
  <2>5. \A q \in Properties : /\ prop'[q].cloud = prop[q].cloud
                              /\ prop'[q].value = prop[q].value
                              /\ Forced(prop'[q]) <=> Forced(prop[q])
    BY <1>0, <2>2 DEF Slots, Forced
  <2>6. UNCHANGED <<enc, thing, remote, data, answers, dec, lost, overtaken, clock>>
    BY <2>1 DEF Elapse, cloudVars
  <2>7. EncoderInv'
    <3>1. \A q \in enc.message : q \in Properties BY <1>0 DEF Encoders
    <3> QED BY <2>5, <2>6, <3>1
        DEF IndInv, EncoderInv, EncoderCounts, MessageCurrent, PassedOver,
            Packing, Seen
  <2>8. OneCall' /\ thing \in {"RequestLastValues", "Connected"}
    BY <1>0, <2>6 DEF IndInv, OneCall, TypeOK
  <2>9. \A q \in Properties : ToBeSent(q) => ToBeSent(q)'
    BY <2>5, <2>6 DEF ToBeSent
  <2> QED BY <1>0, <2>4, <2>5, <2>6, <2>7, <2>8, <2>9, LocalStep
<1>5. CASE Tick
  <2>1. clock' \in Times /\ clock <= clock'
    BY <1>0, <1>5 DEF Tick, Times
  <2> QED BY <1>0, <1>1, <1>5, <2>1 DEF Tick
<1> QED BY <1>2, <1>3, <1>4, <1>5

\* A user's change is under way until it is decoded.
LEMMA CloudStep ==
  ASSUME IndInv, NEW q \in Properties, NEW v \in Values, CloudChanges(q, v)
  PROVE  IndInv'
<1>0. /\ TypeOK /\ remote \in Remotes /\ data \in Seq(CloudData) /\ clock \in Times
      /\ dec \in Decoders /\ Times \subseteq Int
  BY DEF IndInv, TypeOK, Times
<1>1. /\ remote' = [remote EXCEPT ![q] = [value |-> v, time |-> clock]]
      /\ WriteableByCloud(q)
      /\ UNCHANGED <<prop, enc, dec, thing, answers, clock, lost, overtaken>>
      /\ Idle
  BY <1>0 DEF CloudChanges
<1>2. remote' \in Remotes BY <1>0, <1>1 DEF Remotes
<1>8. PICK m \in CloudData : data' = Append(data, m) /\ m.name = q
  <2>1. v \in Values BY <1>0, PropertyAssumption DEF CloudChanges, TraitSet
  <2> QED BY <1>0, <2>1 DEF CloudChanges, CloudData
<1>3. TypeOK'
  <2>1. data' \in Seq(CloudData) BY <1>0, <1>8
  <2> QED BY <1>0, <1>1, <1>2, <2>1 DEF TypeOK
<1>4. OneCall' BY <1>1 DEF IndInv, OneCall
<1>5. EncoderInv' BY <1>1, AtRest DEF Idle
<1>6. /\ Len(data') = Len(data) + 1 /\ data'[Len(data')] = m
      /\ \A i \in 1 .. Len(data) : data'[i] = data[i]
      /\ Len(data) \in Nat
  BY <1>0, <1>8
<1>7. MapsInOrder'
  <2>1. \A i \in 1 .. Len(data') : WriteableByCloud(data'[i].name)
    BY <1>1, <1>6, <1>8 DEF IndInv, MapsInOrder
  <2> QED BY <1>1, <2>1 DEF IndInv, MapsInOrder
<1>9. \A p \in Properties : p # q => remote'[p] = remote[p]
  BY <1>0, <1>1 DEF Remotes
<1>10. AllAccounted'
  <2>1. SUFFICES ASSUME NEW p \in Properties, ReadableByCloud(p), Synced(p)'
                 PROVE  AccountedFor(p)'
    BY DEF AllAccounted
  <2>2. CASE p = q
    <3>1. Len(data') \in 1 .. Len(data') /\ data'[Len(data')].name = p
      BY <1>6, <1>8, <2>2
    <3> QED BY <3>1 DEF AccountedFor, InFlight
  <2>3. CASE p # q
    <3>1. AccountedFor(p) BY <1>1, <2>1 DEF IndInv, AllAccounted, Synced
    <3>2. InFlight(p) => InFlight(p)' BY <1>1, <1>6 DEF InFlight
    <3>3. ToBeSent(p) => ToBeSent(p)' BY <1>1 DEF ToBeSent
    <3> QED BY <1>1, <1>9, <2>3, <3>1, <3>2, <3>3 DEF AccountedFor
  <2> QED BY <2>2, <2>3
<1> QED BY <1>3, <1>4, <1>5, <1>7, <1>10 DEF IndInv

\* A connection opened again begins with nothing under way.
LEMMA ReconnectStep ==
  ASSUME IndInv, Reconnect
  PROVE  IndInv'
<1>0. /\ TypeOK /\ remote \in Remotes /\ dec \in Decoders
  BY DEF IndInv, TypeOK
<1>1. /\ thing' = "RequestLastValues" /\ data' = <<>> /\ answers' = <<>> /\ Idle
      /\ UNCHANGED <<prop, enc, dec, remote, clock, lost, overtaken>>
  BY DEF Reconnect
<1>2. TypeOK' BY <1>0, <1>1 DEF TypeOK
<1>3. OneCall' BY <1>1 DEF IndInv, OneCall
<1>4. EncoderInv' BY <1>1, AtRest DEF Idle
<1>5. MapsInOrder' BY <1>1 DEF IndInv, MapsInOrder
<1>7. AllAccounted'
  <2>1. SUFFICES ASSUME NEW p \in Properties, ReadableByCloud(p), Synced(p)'
                 PROVE  AccountedFor(p)'
    BY DEF AllAccounted
  <2>2. ~WriteableByCloud(p) BY <1>1, <2>1 DEF Synced, Idle
  <2>3. AccountedFor(p) BY <2>1, <2>2 DEF IndInv, AllAccounted, Synced
  <2>4. ~InFlight(p)
    BY <1>1, <2>2 DEF InFlight, Idle, IndInv, MapsInOrder
  <2>5. ToBeSent(p) => ToBeSent(p)' BY <1>1 DEF ToBeSent
  <2> QED BY <1>1, <2>3, <2>4, <2>5 DEF AccountedFor
<1> QED BY <1>2, <1>3, <1>4, <1>5, <1>7 DEF IndInv

\* The properties as the sketch declared them.
LEMMA BootOutcome ==
  /\ PropertiesBoot \in [Properties -> Slots]
  /\ \A p \in Properties : Forced(PropertiesBoot[p])
<1>1. ASSUME NEW p \in Properties
      PROVE  Declared(p) \in Slots /\ Forced(Declared(p))
  <2>1. Traits[p].start \in Values /\ 0 \in Times /\ 0 \in ChangeTimes
    BY PropertyAssumption DEF TraitSet, Times, ChangeTimes
  <2> QED BY <2>1 DEF Declared, Slots, Forced
<1> QED BY <1>1 DEF PropertiesBoot

\* After a restart everything is to be sent.
LEMMA RestartStep ==
  ASSUME IndInv, Restart
  PROVE  IndInv'
<1>0. /\ TypeOK /\ remote \in Remotes /\ dec \in Decoders
  BY DEF IndInv, TypeOK
<1>1. /\ prop' = PropertiesBoot /\ enc' = EncoderBoot
      /\ thing' = "RequestLastValues" /\ data' = <<>> /\ answers' = <<>> /\ Idle
      /\ lost' = {} /\ overtaken' = {}
      /\ UNCHANGED <<dec, remote, clock>>
  BY DEF Restart
<1>2. TypeOK' BY <1>0, <1>1, EncoderAtRest, BootOutcome DEF TypeOK
<1>3. OneCall' BY <1>1 DEF IndInv, OneCall, Idle
<1>4. EncoderInv'
  BY <1>1 DEF EncoderBoot, EncoderInv, EncoderCounts, MessageCurrent, PassedOver,
              Packing
<1>5. MapsInOrder' BY <1>1 DEF IndInv, MapsInOrder
<1>7. AllAccounted'
  BY <1>1, BootOutcome DEF AllAccounted, AccountedFor, ToBeSent
<1> QED BY <1>2, <1>3, <1>4, <1>5, <1>7 DEF IndInv

-----------------------------------------------------------------------------
(* The steps of the thing process and of the encoder.                      *)

\* handleConnected starts a message.
LEMMA ConnectedOutcome ==
  ASSUME TypeOK, EncoderInv, enc.state = "Idle", NEW late \in BOOLEAN,
         HandleConnected(late)
  PROVE  /\ prop' \in [Properties -> Slots] /\ enc' \in Encoders
         /\ EncoderInv' /\ enc'.state # "Idle" /\ enc'.state # "SendMessage"
         /\ thing' \in {"RequestLastValues", "Connected"}
         /\ \A p \in Properties : /\ prop'[p].cloud = prop[p].cloud
                                  /\ prop'[p].value = prop[p].value
                                  /\ Forced(prop'[p]) <=> Forced(prop[p])
<1>0. enc \in Encoders /\ prop \in [Properties -> Slots] /\ clock \in Times
  BY DEF TypeOK
<1>1. prop' = [p \in Properties |-> StampLocalChange(p, prop[p], clock)]
  BY DEF HandleConnected
<1>2. \A p \in Properties : /\ prop'[p] \in Slots
                            /\ prop'[p].cloud = prop[p].cloud
                            /\ prop'[p].value = prop[p].value
                            /\ Forced(prop'[p]) <=> Forced(prop[p])
  BY <1>0, <1>1, StampOutcome
<1>3. prop' \in [Properties -> Slots] BY <1>1, <1>2
<1>4. /\ enc'.state = "InitPropertyEncoder" /\ enc'.message = enc.message
      /\ enc'.encoded = enc.encoded /\ enc'.checked = enc.checked
      /\ enc' = [enc EXCEPT !.state = "InitPropertyEncoder"]
  BY <1>0 DEF HandleConnected, Encoders
<1>5. "InitPropertyEncoder" \in EncoderStates BY DEF EncoderStates
<1>6. enc' \in Encoders BY <1>0, <1>4, <1>5 DEF Encoders
<1>7. EncoderInv'
  BY <1>4 DEF EncoderInv, EncoderCounts, MessageCurrent, PassedOver, Packing
<1>8. thing' \in {"RequestLastValues", "Connected"} BY DEF HandleConnected
<1> QED BY <1>2, <1>3, <1>4, <1>6, <1>7, <1>8

\* An ordinary turn of the thing process.
LEMMA UpdateStep ==
  ASSUME IndInv, NEW late \in BOOLEAN, Update(late)
  PROVE  IndInv'
<1>1. /\ TypeOK /\ EncoderInv /\ Idle /\ thing = "Connected"
      /\ HandleConnected(late)
      /\ UNCHANGED <<dec, remote, data, answers, clock, lost, overtaken>>
  BY DEF IndInv, Update, cloudVars
<1>2. /\ prop' \in [Properties -> Slots] /\ enc' \in Encoders
      /\ EncoderInv'
      /\ thing' \in {"RequestLastValues", "Connected"}
      /\ \A p \in Properties : /\ prop'[p].cloud = prop[p].cloud
                               /\ Forced(prop'[p]) <=> Forced(prop[p])
  BY <1>1, ConnectedOutcome DEF Idle
<1>3. OneCall' BY <1>1 DEF OneCall, Idle
<1>4. \A p \in Properties : ToBeSent(p) => ToBeSent(p)'
  BY <1>1, <1>2 DEF ToBeSent, Idle
<1>5. clock \in Times /\ clock <= clock
  BY <1>1, PropertyAssumption DEF TypeOK, Times
<1> QED BY <1>1, <1>2, <1>3, <1>4, <1>5, LocalStep

\* A step of the encoder.
LEMMA EncodeMessageStep ==
  ASSUME IndInv, EncodeMessage
  PROVE  IndInv'
<1>1. /\ TypeOK /\ EncoderInv /\ EncodeStep
      /\ UNCHANGED <<dec, thing, remote, data, answers, clock, lost, overtaken>>
  BY DEF IndInv, EncodeMessage, cloudVars
<1>2. EncoderOutcome /\ enc.state # "Idle" /\ enc.state # "SendMessage"
  BY <1>1, EncodeOutcome
<1>3. OneCall' BY <1>1, <1>2 DEF IndInv, OneCall
<1>4. \A p \in Properties : ReadableByCloud(p) /\ ToBeSent(p) => ToBeSent(p)'
  BY <1>2 DEF EncoderOutcome, ToBeSent
<1>5. clock \in Times /\ clock <= clock
  BY <1>1, PropertyAssumption DEF TypeOK, Times
<1>6. thing \in {"RequestLastValues", "Connected"} BY <1>1 DEF TypeOK
<1> QED BY <1>1, <1>2, <1>3, <1>4, <1>5, <1>6, LocalStep DEF EncoderOutcome

\* The message is written: the cloud holds what the board has, or it is lost.
LEMMA SendStep ==
  ASSUME IndInv, NEW arrives \in BOOLEAN, SendMessage(arrives)
  PROVE  IndInv'
<1>0. /\ TypeOK /\ enc \in Encoders /\ remote \in Remotes /\ clock \in Times
      /\ prop \in [Properties -> Slots] /\ Times \subseteq Int
  BY DEF IndInv, TypeOK, Times
<1>1. /\ enc' = EncoderDone /\ enc.state = "SendMessage"
      /\ UNCHANGED <<prop, dec, thing, data, answers, clock>>
  BY DEF SendMessage
<1>2. /\ enc' \in Encoders /\ enc'.state = "Idle" /\ enc'.message = {}
      /\ enc'.encoded = 0 /\ enc'.checked = 0
  BY <1>0, <1>1, EncoderAtRest
<1>3. EncoderInv' /\ OneCall'
  BY <1>2 DEF EncoderInv, EncoderCounts, MessageCurrent, PassedOver, Packing,
              OneCall
<1>4. enc.message \subseteq Properties /\ enc.payload \in [Properties -> Values]
  BY <1>0 DEF Encoders
<1>5. /\ remote' \in Remotes
      /\ lost' \subseteq Properties /\ overtaken' \subseteq Properties
      /\ \A p \in Properties \ enc.message :
           /\ remote'[p] = remote[p]
           /\ p \in lost => p \in lost'
           /\ p \in overtaken => p \in overtaken'
      /\ \A p \in enc.message :
           remote'[p].value = enc.payload[p] \/ p \in lost'
  <2>1. CASE arrives
    <3>1. /\ remote' = [p \in Properties |->
                          IF p \in enc.message
                          THEN [value |-> enc.payload[p], time |-> clock]
                          ELSE remote[p]]
          /\ lost' = lost \ enc.message /\ overtaken' = overtaken \ enc.message
      BY <2>1 DEF SendMessage
    <3>2. remote' \in Remotes
      <4>1. \A p \in Properties :
              [value |-> enc.payload[p], time |-> clock]
                \in [value : Values, time : Times]
        BY <1>0, <1>4
      <4> QED BY <1>0, <3>1, <4>1 DEF Remotes
    <3>4. lost' \subseteq Properties /\ overtaken' \subseteq Properties
      BY <1>0, <3>1 DEF TypeOK
    <3> QED BY <1>4, <3>1, <3>2, <3>4
  <2>2. CASE ~arrives
    <3>1. /\ lost' = lost \cup enc.message
          /\ remote' = remote /\ overtaken' = overtaken
      BY <2>2 DEF SendMessage
    <3> QED BY <1>0, <1>4, <3>1 DEF TypeOK
  <2> QED BY <2>1, <2>2
<1>6. TypeOK' BY <1>0, <1>1, <1>2, <1>5 DEF TypeOK
<1>7. MapsInOrder' BY <1>1 DEF IndInv, MapsInOrder
<1>9. AllAccounted'
  <2>1. SUFFICES ASSUME NEW p \in Properties, ReadableByCloud(p), Synced(p)'
                 PROVE  AccountedFor(p)'
    BY DEF AllAccounted
  <2>2. CASE p \in enc.message
    <3>1. prop[p].cloud = enc.payload[p]
      BY <2>2 DEF IndInv, EncoderInv, MessageCurrent
    <3> QED BY <1>1, <1>5, <2>2, <3>1 DEF AccountedFor
  <2>3. CASE p \notin enc.message
    <3>1. AccountedFor(p) BY <1>1, <2>1 DEF IndInv, AllAccounted, Synced
    <3>2. InFlight(p)' <=> InFlight(p) BY <1>1 DEF InFlight
    <3>3. ToBeSent(p) => ToBeSent(p)' BY <1>1, <2>3 DEF ToBeSent
    <3> QED BY <1>1, <1>5, <2>3, <3>1, <3>2, <3>3 DEF AccountedFor
  <2> QED BY <2>2, <2>3
<1> QED BY <1>3, <1>6, <1>7, <1>9 DEF IndInv

\* A request for the last values is answered with what the cloud holds.
LEMMA RequestStep ==
  ASSUME IndInv, RequestLastValues
  PROVE  IndInv'
<1>1. /\ Idle /\ answers' = Append(answers, remote)
      /\ UNCHANGED <<prop, enc, dec, thing, remote, data, clock, lost, overtaken>>
  BY DEF RequestLastValues
<1>2. TypeOK'
  <2>1. TypeOK /\ remote \in Remotes /\ answers \in Seq(Remotes)
    BY DEF IndInv, TypeOK
  <2>2. answers' \in Seq(Remotes) BY <1>1, <2>1
  <2> QED BY <1>1, <2>1, <2>2 DEF TypeOK
<1>3. OneCall' BY <1>1 DEF IndInv, OneCall
<1>4. EncoderInv' BY <1>1, AtRest DEF Idle
<1>5. MapsInOrder' BY <1>1 DEF IndInv, MapsInOrder
<1>6. AllAccounted'
  BY <1>1 DEF IndInv, AllAccounted, Synced, AccountedFor, ToBeSent, InFlight
<1> QED BY <1>2, <1>3, <1>4, <1>5, <1>6 DEF IndInv

-----------------------------------------------------------------------------
(* The steps of the decoder.                                               *)

\* What the cloud says of a property is a map.
LEMMA StampedMap ==
  ASSUME NEW p \in Properties, NEW v \in Values, NEW s \in Stamps
  PROVE  Stamped(p, v, s) \in Maps /\ Stamped(p, v, s).name = p
<1>1. s.base \in OptionalTimes /\ s.time \in OptionalTimes BY DEF Stamps
<1> QED BY <1>1 DEF Stamped, Maps

\* The message that brings a change.
LEMMA DataMessage ==
  ASSUME TypeOK, DataArrives
  PROVE  /\ Head(data) = data[1] /\ 1 \in 1 .. Len(data) /\ Head(data) \in CloudData
         /\ data' = Tail(data) /\ data' \in Seq(CloudData)
         /\ \E m \in Maps :
              /\ m.name = Head(data).name
              /\ Honest(<<m>>, [p \in Properties |-> Head(data).time])
              /\ dec' = Decode(<<m>>, FALSE)
<1>0. data \in Seq(CloudData) /\ data # <<>> BY DEF TypeOK, DataArrives
<1>1. /\ Head(data) = data[1] /\ 1 \in 1 .. Len(data) /\ Head(data) \in CloudData
      /\ Tail(data) \in Seq(CloudData)
  BY <1>0
<1>2. Head(data).name \in Properties /\ Head(data).value \in Values
  BY <1>1 DEF CloudData
<1>3. PICK s \in Stamps :
        LET maps == <<Stamped(Head(data).name, Head(data).value, s)>>
        IN  /\ Honest(maps, [p \in Properties |-> Head(data).time])
            /\ dec' = Decode(maps, FALSE)
  BY DEF DataArrives
<1> DEFINE m == Stamped(Head(data).name, Head(data).value, s)
<1>4. m \in Maps /\ m.name = Head(data).name BY <1>2, StampedMap
<1>5. /\ Honest(<<m>>, [p \in Properties |-> Head(data).time])
      /\ dec' = Decode(<<m>>, FALSE)
  BY <1>3
<1> HIDE DEF m
<1>6. data' = Tail(data) BY DEF DataArrives
<1> QED BY <1>1, <1>4, <1>5, <1>6

\* The message that brings the last values: a map for each property, in order.
LEMMA LastValuesMessage ==
  ASSUME TypeOK, LastValuesArrive
  PROVE  /\ Head(answers) = answers[1] /\ 1 \in 1 .. Len(answers)
         /\ Head(answers) \in Remotes
         /\ answers' = Tail(answers) /\ answers' \in Seq(Remotes)
         /\ \E m \in Seq(Maps) :
              /\ Len(m) = N /\ \A j \in 1 .. N : m[j].name = j
              /\ Honest(m, [p \in Properties |-> Head(answers)[p].time])
              /\ dec' = Decode(m, TRUE)
<1>0. answers \in Seq(Remotes) /\ answers # <<>> BY DEF TypeOK, LastValuesArrive
<1>1. /\ Head(answers) = answers[1] /\ 1 \in 1 .. Len(answers)
      /\ Head(answers) \in Remotes /\ Tail(answers) \in Seq(Remotes)
  BY <1>0
<1>2. PICK stamps \in [Properties -> Stamps] :
        LET maps == LastValues(Head(answers), stamps)
        IN  /\ Honest(maps, [p \in Properties |-> Head(answers)[p].time])
            /\ dec' = Decode(maps, TRUE)
  BY DEF LastValuesArrive
<1> DEFINE m == LastValues(Head(answers), stamps)
<1>3. \A p \in Properties :
        LET map == Stamped(p, Head(answers)[p].value, stamps[p])
        IN  map \in Maps /\ map.name = p
  <2>1. SUFFICES ASSUME NEW p \in Properties
                 PROVE  LET map == Stamped(p, Head(answers)[p].value, stamps[p])
                        IN  map \in Maps /\ map.name = p
    OBVIOUS
  <2>2. Head(answers)[p].value \in Values BY <1>1 DEF Remotes
  <2> QED BY <2>2, StampedMap
<1>4. m \in [1 .. N -> Maps] /\ \A j \in 1 .. N : m[j].name = j
  BY <1>3 DEF LastValues, Properties
<1>5. /\ Honest(m, [p \in Properties |-> Head(answers)[p].time])
      /\ dec' = Decode(m, TRUE)
  BY <1>2
<1> HIDE DEF m
<1>6. m \in Seq(Maps) /\ Len(m) = N BY <1>4, PropertyAssumption
<1>7. answers' = Tail(answers) BY DEF LastValuesArrive
<1> QED BY <1>1, <1>4, <1>5, <1>6, <1>7

\* A decoder that begins with a message, or rests.
LEMMA DecodeBegins ==
  ASSUME NEW m \in Seq(Maps), NEW sync \in BOOLEAN
  PROVE  /\ DecoderBoot \in Decoders
         /\ Decode(m, sync) \in Decoders
         /\ Decode(m, sync).state = "LeaveMap" /\ Decode(m, sync).rest = m
         /\ Decode(m, sync).sync = sync /\ Decode(m, sync).name = NoName
         /\ Decode(m, sync).base = 0 /\ Decode(m, sync).time = 0
<1>1. Traits[1].start \in Values /\ 0 \in Times /\ <<>> \in Seq(Maps)
  BY PropertyAssumption DEF TraitSet, Properties, Times
<1>2. DecoderBoot \in Decoders BY <1>1 DEF DecoderBoot, Decoders, NoName
<1> QED BY <1>1, <1>2 DEF Decode, DecoderBoot, Decoders

\* A change that arrives is no longer under way on its topic but in the decoder.
LEMMA DataArrivesStep ==
  ASSUME IndInv, DataArrives
  PROVE  IndInv'
<1>0. /\ TypeOK /\ data \in Seq(CloudData) /\ data # <<>> /\ N \in Nat \ {0}
      /\ Idle
  BY PropertyAssumption DEF IndInv, TypeOK, DataArrives
<1>9. PICK m \in Maps : m.name = Head(data).name /\ dec' = Decode(<<m>>, FALSE)
  BY <1>0, DataMessage
<1>1. /\ dec' = Decode(<<m>>, FALSE) /\ data' = Tail(data)
      /\ UNCHANGED <<prop, enc, thing, remote, answers, clock, lost, overtaken>>
  BY <1>9 DEF DataArrives
<1>2. /\ m \in Maps /\ <<m>> \in Seq(Maps) /\ m.name = data[1].name
      /\ 1 \in 1 .. Len(data) /\ data' \in Seq(CloudData)
      /\ \A i \in 1 .. Len(data') : /\ i + 1 \in 1 .. Len(data)
                                    /\ data'[i] = data[i + 1]
      /\ \A i \in 1 .. Len(data) : i = 1 \/ /\ i - 1 \in 1 .. Len(data')
                                            /\ data'[i - 1] = data[i]
  BY <1>0, <1>1, <1>9
<1>3. /\ dec' \in Decoders /\ dec'.state = "LeaveMap" /\ dec'.rest = <<m>>
      /\ dec'.sync = FALSE /\ dec'.name = NoName
  BY <1>1, <1>2, DecodeBegins
<1>4. TypeOK' BY <1>0, <1>1, <1>2, <1>3 DEF TypeOK
<1>5. OneCall' BY <1>0, <1>1 DEF OneCall, Idle
<1>6. EncoderInv' BY <1>0, <1>1, AtRest DEF Idle
<1>7. MapsInOrder'
  <2>1. \A i \in 1 .. Len(data) : WriteableByCloud(data[i].name)
    BY DEF IndInv, MapsInOrder
  <2>2. WriteableByCloud(m.name) BY <1>2, <2>1
  <2>3. \A i \in 1 .. Len(data') : WriteableByCloud(data'[i].name)
    BY <1>2, <2>1
  <2>4. Len(dec'.rest) = 1 /\ dec'.rest[1] = m BY <1>3
  <2> QED BY <1>1, <1>3, <2>2, <2>3, <2>4 DEF IndInv, MapsInOrder
<1>8. AllAccounted'
  <2>1. SUFFICES ASSUME NEW p \in Properties, ReadableByCloud(p), Synced(p)'
                 PROVE  AccountedFor(p)'
    BY DEF AllAccounted
  <2>2. Synced(p) BY <1>1, <1>3, <2>1 DEF Synced
  <2>3. AccountedFor(p) BY <2>1, <2>2 DEF IndInv, AllAccounted
  <2>4. InFlight(p) => InFlight(p)'
    <3>1. SUFFICES ASSUME NEW i \in 1 .. Len(data), data[i].name = p
                   PROVE  InFlight(p)'
      BY <1>0 DEF InFlight, Idle
    <3>2. CASE i = 1
      <4>1. 1 \in 1 .. Len(dec'.rest) /\ dec'.rest[1].name = p
        BY <1>2, <1>3, <3>1, <3>2
      <4> QED BY <1>3, <4>1 DEF InFlight
    <3>3. CASE i # 1 BY <1>2, <3>1, <3>3 DEF InFlight
    <3> QED BY <3>2, <3>3
  <2>5. ToBeSent(p) => ToBeSent(p)' BY <1>1 DEF ToBeSent
  <2> QED BY <1>1, <2>3, <2>4, <2>5 DEF AccountedFor
<1> QED BY <1>4, <1>5, <1>6, <1>7, <1>8 DEF IndInv

\* Last values that arrive are decoded from the first property on.
LEMMA LastValuesArriveStep ==
  ASSUME IndInv, LastValuesArrive
  PROVE  IndInv'
<1>0. TypeOK /\ N \in Nat \ {0} /\ Idle
  BY PropertyAssumption DEF IndInv, LastValuesArrive
<1>2. PICK m \in Seq(Maps) :
        /\ Len(m) = N /\ \A j \in 1 .. N : m[j].name = j
        /\ dec' = Decode(m, TRUE)
  BY <1>0, LastValuesMessage
<1>1. /\ dec' = Decode(m, TRUE) /\ answers' \in Seq(Remotes)
      /\ UNCHANGED <<prop, enc, thing, remote, data, clock, lost, overtaken>>
  BY <1>0, <1>2, LastValuesMessage DEF LastValuesArrive
<1>3. /\ dec' \in Decoders /\ dec'.state = "LeaveMap" /\ dec'.rest = m
      /\ dec'.sync = TRUE /\ dec'.name = NoName
  BY <1>1, <1>2, DecodeBegins
<1>4. TypeOK' BY <1>0, <1>1, <1>2, <1>3 DEF TypeOK
<1>5. OneCall' BY <1>0, <1>1 DEF OneCall, Idle
<1>6. EncoderInv' BY <1>0, <1>1, AtRest DEF Idle
<1>8. MapsInOrder'
  <2>1. Len(m) = N /\ \A j \in 1 .. N : m[j].name = j BY <1>2
  <2>2. /\ Len(m) >= 1 /\ NoName + Len(m) = N
        /\ \A i \in 1 .. Len(m) : m[i].name = NoName + i
    <3>1. \A i \in 1 .. N : NoName + i = i BY <1>0 DEF NoName
    <3>2. N >= 1 /\ NoName + N = N BY <1>0 DEF NoName
    <3> QED BY <2>1, <3>1, <3>2
  <2>4. /\ Len(dec'.rest) >= 1 /\ dec'.name + Len(dec'.rest) = N
        /\ \A i \in 1 .. Len(dec'.rest) : dec'.rest[i].name = dec'.name + i
    BY <1>3, <2>2
  <2> QED BY <1>1, <1>3, <2>4 DEF IndInv, MapsInOrder
<1>10. AllAccounted'
  <2>1. SUFFICES ASSUME NEW p \in Properties, ReadableByCloud(p), Synced(p)'
                 PROVE  AccountedFor(p)'
    BY DEF AllAccounted
  <2>2. ~(p < NoName) BY <1>0 DEF NoName, Properties
  <2>3. Synced(p) BY <1>1, <1>3, <2>1, <2>2 DEF Synced
  <2>4. AccountedFor(p) BY <2>1, <2>3 DEF IndInv, AllAccounted
  <2>5. InFlight(p) => InFlight(p)' BY <1>0, <1>1 DEF InFlight, Idle
  <2>6. ToBeSent(p) => ToBeSent(p)' BY <1>1 DEF ToBeSent
  <2> QED BY <1>1, <2>4, <2>5, <2>6 DEF AccountedFor
<1> QED BY <1>4, <1>5, <1>6, <1>8, <1>10 DEF IndInv

\* The thing process learns that the last values arrived.
LEMMA LastValuesDoneStep ==
  ASSUME IndInv, NEW late \in BOOLEAN, LastValuesDone(late)
  PROVE  IndInv'
<1>0. /\ TypeOK /\ EncoderInv /\ enc.state = "Idle" /\ dec.state = "Complete"
      /\ dec' = DecoderBoot /\ prop \in [Properties -> Slots] /\ enc \in Encoders
      /\ UNCHANGED <<remote, data, answers, clock, lost, overtaken>>
  BY DEF IndInv, TypeOK, OneCall, LastValuesDone, cloudVars
<1>1. /\ prop' \in [Properties -> Slots] /\ enc' \in Encoders /\ EncoderInv'
      /\ thing' \in {"RequestLastValues", "Connected"}
      /\ \A p \in Properties : /\ prop'[p].cloud = prop[p].cloud
                               /\ Forced(prop'[p]) <=> Forced(prop[p])
      /\ enc'.state # "SendMessage"
  <2>1. CASE thing = "Connected"
    <3>1. HandleConnected(late) BY <2>1 DEF LastValuesDone
    <3> QED BY <1>0, <3>1, ConnectedOutcome
  <2>2. CASE thing # "Connected"
    <3>1. thing' = "Connected" /\ UNCHANGED <<prop, enc>>
      BY <2>2 DEF LastValuesDone
    <3> QED BY <1>0, <3>1, AtRest
  <2> QED BY <2>1, <2>2
<1>2. /\ dec' \in Decoders /\ dec'.state = "Idle" /\ dec'.rest = <<>>
      /\ dec'.name = NoName
  <2>1. <<>> \in Seq(Maps) OBVIOUS
  <2>2. DecoderBoot \in Decoders BY <2>1, DecodeBegins
  <2> QED BY <1>0, <2>2 DEF DecoderBoot
<1>3. TypeOK' BY <1>0, <1>1, <1>2 DEF TypeOK
<1>4. OneCall' BY <1>2 DEF OneCall
<1>5. MapsInOrder' BY <1>0, <1>2 DEF IndInv, MapsInOrder
<1>7. AllAccounted'
  <2>1. SUFFICES ASSUME NEW p \in Properties, ReadableByCloud(p)
                 PROVE  AccountedFor(p)'
    BY DEF AllAccounted
  <2>2. AccountedFor(p) BY <1>0, <2>1 DEF IndInv, AllAccounted, Synced
  <2>3. InFlight(p) => InFlight(p)'
    <3>1. \A i \in 1 .. Len(data) : data'[i] = data[i] BY <1>0
    <3>2. SUFFICES ASSUME ~dec.sync,
                          \/ dec.name = p
                          \/ \E i \in 1 .. Len(dec.rest) : dec.rest[i].name = p
                   PROVE  FALSE
      BY <1>0 DEF InFlight
    <3>3. dec.rest = <<>> /\ dec.name = NoName
      BY <1>0 DEF IndInv, MapsInOrder
    <3>4. p # NoName BY DEF Properties, NoName
    <3> QED BY <3>2, <3>3, <3>4
  <2>4. ToBeSent(p) => ToBeSent(p)' BY <1>0, <1>1 DEF ToBeSent
  <2> QED BY <1>0, <1>1, <2>2, <2>3, <2>4 DEF AccountedFor
<1> QED BY <1>1, <1>3, <1>4, <1>5, <1>7 DEF IndInv

\* The decoder after a map that is not the last one: a map of last values.
LEMMA LeaveMapOutcome ==
  ASSUME IndInv, NEW edits \in SUBSET Values, LeaveMap(edits),
         UNCHANGED <<remote, data, answers>>
  PROVE  /\ dec' \in Decoders /\ dec.sync /\ dec'.sync
         /\ dec.state = "LeaveMap" /\ dec'.state = "LeaveMap"
         /\ dec'.name = dec.name + 1
         /\ Head(dec.rest).name = dec.name + 1
         /\ dec'.name # NoName /\ dec' = Collected /\ MapsInOrder'
<1> DEFINE k == Len(dec.rest)
<1>0. /\ TypeOK /\ dec \in Decoders /\ dec.rest \in Seq(Maps)
      /\ N \in Nat \ {0} /\ dec.name \in 0 .. N
  BY PropertyAssumption DEF IndInv, TypeOK, Decoders, Properties, NoName
<1>1. dec.state = "LeaveMap" /\ dec' = Collected /\ k > 1
  BY DEF LeaveMap
<1>2. k \in Nat BY <1>0
<1> HIDE DEF k
<1>3. k # 1 BY <1>1, <1>2
<1>4. dec.sync
  BY <1>0, <1>1, <1>3 DEF IndInv, MapsInOrder, k, Decoders
<1>5. /\ k >= 1 /\ dec.name + k = N
      /\ \A i \in 1 .. k : dec.rest[i].name = dec.name + i
  BY <1>1, <1>4 DEF IndInv, MapsInOrder, k
<1>6. /\ dec.rest # <<>> /\ Len(Tail(dec.rest)) = k - 1
      /\ \A i \in 1 .. k - 1 : Tail(dec.rest)[i] = dec.rest[i + 1]
      /\ Head(dec.rest) = dec.rest[1]
  <2>1. dec.rest # <<>>
    <3>1. SUFFICES ASSUME dec.rest = <<>> PROVE FALSE OBVIOUS
    <3>2. k = 0 BY <3>1 DEF k
    <3> QED BY <1>1, <3>2
  <2> QED BY <1>0, <2>1 DEF k
<1>7. /\ dec' \in Decoders /\ dec'.state = "LeaveMap" /\ dec'.sync = dec.sync
      /\ dec'.rest = Tail(dec.rest) /\ dec'.name = Head(dec.rest).name
  BY <1>0, <1>1, <1>6, CollectedOutcome
<1>8. Head(dec.rest).name = dec.name + 1
  BY <1>2, <1>5, <1>6
<1>9. dec'.name = dec.name + 1 /\ dec'.name # NoName
  BY <1>0, <1>7, <1>8 DEF NoName
<1>10. MapsInOrder'
  <2>1. /\ k - 1 >= 1 /\ dec'.name + (k - 1) = N
        /\ \A i \in 1 .. k - 1 : dec'.rest[i].name = dec'.name + i
    <3>1. k - 1 >= 1 BY <1>1, <1>2
    <3>2. dec'.name + (k - 1) = N BY <1>0, <1>2, <1>5, <1>9
    <3>3. ASSUME NEW i \in 1 .. k - 1
          PROVE  dec'.rest[i].name = dec'.name + i
      <4>1. i + 1 \in 1 .. k BY <1>2
      <4>2. dec'.rest[i].name = dec.name + (i + 1) BY <1>5, <1>6, <1>7, <4>1
      <4> QED BY <1>0, <1>9, <4>2
    <3> QED BY <3>1, <3>2, <3>3
  <2>2. Len(dec'.rest) = k - 1 BY <1>6, <1>7
  <2> QED BY <1>4, <1>7, <2>1, <2>2 DEF IndInv, MapsInOrder
<1> QED BY <1>1, <1>4, <1>7, <1>8, <1>9, <1>10

\* The decoder after the last map.
LEMMA LeaveLastMapOutcome ==
  ASSUME IndInv, NEW edits \in SUBSET Values, LeaveLastMap(edits),
         UNCHANGED <<remote, data, answers>>
  PROVE  /\ dec' \in Decoders
         /\ dec.state = "LeaveMap" /\ Len(dec.rest) = 1
         /\ Head(dec.rest) = dec.rest[1]
         /\ dec'.state \in {"Idle", "Complete"}
         /\ dec'.state = "Complete" => dec.sync
         /\ MapsInOrder'
         /\ dec'.rest = <<>> /\ dec'.name = NoName /\ dec'.time = 0
<1>0. dec.rest \in Seq(Maps) BY DEF IndInv, TypeOK, Decoders
<1>1. /\ dec.state = "LeaveMap" /\ Len(dec.rest) = 1
      /\ dec' = IF dec.sync THEN [DecoderBoot EXCEPT !.state = "Complete"]
                            ELSE DecoderBoot
  BY DEF LeaveLastMap
<1>2. DecoderBoot \in Decoders
  <2>1. <<>> \in Seq(Maps) OBVIOUS
  <2> QED BY <2>1, DecodeBegins
<1>3. /\ DecoderBoot.state = "Idle" /\ DecoderBoot.rest = <<>>
      /\ DecoderBoot.name = NoName /\ DecoderBoot.time = 0
  BY DEF DecoderBoot
<1>4. /\ dec' \in Decoders /\ dec'.state \in {"Idle", "Complete"}
      /\ dec'.state = "Complete" => dec.sync
      /\ dec'.rest = <<>> /\ dec'.name = NoName /\ dec'.time = 0
  <2>1. CASE dec.sync
    BY <1>1, <1>2, <1>3, <2>1 DEF Decoders
  <2>2. CASE ~dec.sync BY <1>1, <1>2, <1>3, <2>2
  <2> QED BY <2>1, <2>2
<1>5. MapsInOrder' BY <1>4 DEF IndInv, MapsInOrder
<1> QED BY <1>0, <1>1, <1>4, <1>5

\* A property that Synced() counts after the step and that it did not update
\* was counted before.
LEMMA SyncedBefore ==
  ASSUME IndInv, NEW edits \in SUBSET Values,
         LeaveMap(edits) \/ LeaveLastMap(edits),
         UNCHANGED <<thing, remote, data, answers>>,
         NEW p \in Properties, p \notin UpdatedNow, Synced(p)'
  PROVE  Synced(p)
<1>0. /\ N \in Nat \ {0} /\ dec.name \in 0 .. N /\ p \in 1 .. N
      /\ dec.rest \in Seq(Maps)
  BY PropertyAssumption DEF IndInv, TypeOK, Decoders, Properties, NoName
<1>1. CASE thing = "Connected" \/ ~WriteableByCloud(p) BY <1>1 DEF Synced
<1>2. CASE ~(thing = "Connected" \/ ~WriteableByCloud(p))
  <2>1. CASE LeaveMap(edits)
    <3>1. /\ dec.sync /\ dec.state = "LeaveMap" /\ dec'.state = "LeaveMap"
          /\ dec'.name = dec.name + 1 /\ Head(dec.rest).name = dec.name + 1
      BY <2>1, LeaveMapOutcome
    <3>2. p < dec.name + 1 BY <1>2, <3>1 DEF Synced
    <3>3. p # dec.name
      BY <1>0, <1>2, <3>1 DEF UpdatedNow, NextProperty, NoName
    <3>4. p < dec.name BY <1>0, <3>2, <3>3
    <3> QED BY <3>1, <3>4 DEF Synced
  <2>2. CASE LeaveLastMap(edits)
    <3>1. /\ dec.state = "LeaveMap" /\ Len(dec.rest) = 1
          /\ Head(dec.rest) = dec.rest[1]
          /\ dec'.state \in {"Idle", "Complete"}
          /\ dec'.state = "Complete" => dec.sync
      BY <2>2, LeaveLastMapOutcome
    <3>2. dec.sync BY <1>2, <3>1 DEF Synced
    <3>3. dec.name + 1 = N /\ Head(dec.rest).name = dec.name + 1
      BY <1>0, <3>1, <3>2 DEF IndInv, MapsInOrder
    <3>4. p # N BY <1>0, <1>2, <3>1, <3>3 DEF UpdatedNow
    <3>5. p # dec.name
      BY <1>0, <1>2, <3>3 DEF UpdatedNow, NextProperty, NoName
    <3>6. p < dec.name BY <1>0, <3>3, <3>4, <3>5
    <3> QED BY <3>1, <3>2, <3>6 DEF Synced
  <2> QED BY <2>1, <2>2
<1> QED BY <1>1, <1>2

\* A step of the decoder.
LEMMA DecodeStep ==
  ASSUME IndInv, NEW edits \in SUBSET Values, DecodeMessage(edits)
  PROVE  IndInv'
<1>0. /\ TypeOK /\ enc.state = "Idle" /\ Times \subseteq Int
      /\ LeaveMap(edits) \/ LeaveLastMap(edits)
      /\ UNCHANGED <<enc, thing, remote, data, answers, clock>>
      /\ lost' = lost \ UpdatedNow
      /\ overtaken' = (overtaken \ UpdatedNow) \cup
                      {p \in UpdatedNow :
                         dec.sync /\ prop'[p].cloud # remote[p].value}
  BY DEF IndInv, DecodeMessage, OneCall, LeaveMap, LeaveLastMap, Times
<1>1. /\ prop' \in [Properties -> Slots]
      /\ \A p \in Properties \ UpdatedNow : prop'[p] = prop[p]
      /\ \A p \in UpdatedNow : dec.sync \/ Forced(prop'[p])
  BY <1>0, UpdatedOutcome
<1>2. dec' \in Decoders /\ MapsInOrder'
  <2>1. CASE LeaveMap(edits) BY <1>0, <2>1, LeaveMapOutcome
  <2>2. CASE LeaveLastMap(edits)
    BY <1>0, <2>2, LeaveLastMapOutcome
  <2> QED BY <1>0, <2>1, <2>2
<1>3. UpdatedNow \subseteq Properties BY DEF UpdatedNow
<1>4. TypeOK' BY <1>0, <1>1, <1>2, <1>3 DEF TypeOK
<1>5. OneCall' BY <1>0 DEF OneCall
<1>6. EncoderInv' BY <1>0, AtRest
<1>8. AllAccounted'
  <2>1. SUFFICES ASSUME NEW p \in Properties, ReadableByCloud(p), Synced(p)'
                 PROVE  AccountedFor(p)'
    BY DEF AllAccounted
  <2>2. CASE p \in UpdatedNow
    BY <1>0, <1>1, <2>2 DEF AccountedFor, ToBeSent
  <2>3. CASE p \notin UpdatedNow
    <3>1. AccountedFor(p)
      BY <1>0, <2>1, <2>3, SyncedBefore DEF IndInv, AllAccounted
    <3>2. prop'[p] = prop[p] BY <1>1, <2>3
    <3>3. InFlight(p) => InFlight(p)'
      <4>1. CASE \E i \in 1 .. Len(data) : data[i].name = p
        BY <1>0, <4>1 DEF InFlight
      <4>2. CASE dec.state # "Idle" /\ ~dec.sync
                   /\ \/ dec.name = p
                      \/ \E i \in 1 .. Len(dec.rest) : dec.rest[i].name = p
        <5>1. dec.state = "LeaveMap" BY <1>0 DEF LeaveMap, LeaveLastMap
        <5>2. /\ Len(dec.rest) = 1 /\ dec.name = NoName
              /\ WriteableByCloud(dec.rest[1].name)
          BY <4>2, <5>1 DEF IndInv, MapsInOrder
        <5>3. p # NoName BY DEF Properties, NoName
        <5>4. dec.rest[1].name = p BY <4>2, <5>2, <5>3
        <5>5. Head(dec.rest) = dec.rest[1]
          BY <1>0 DEF TypeOK, Decoders
        <5> QED BY <2>3, <5>2, <5>4, <5>5 DEF UpdatedNow
      <4> QED BY <4>1, <4>2 DEF InFlight
    <3>4. ToBeSent(p) => ToBeSent(p)' BY <1>0, <3>2 DEF ToBeSent
    <3> QED BY <1>0, <2>3, <3>1, <3>2, <3>3, <3>4 DEF AccountedFor
  <2> QED BY <2>2, <2>3
<1> QED BY <1>2, <1>4, <1>5, <1>6, <1>8 DEF IndInv

-----------------------------------------------------------------------------
(* The theorems.                                                           *)

\* At the start every property is marked, and nothing is under way.
LEMMA InitHolds == Init => IndInv
<1> SUFFICES ASSUME Init PROVE IndInv OBVIOUS
<1>0. /\ prop = PropertiesBoot /\ enc = EncoderBoot /\ dec = DecoderBoot
      /\ thing = "RequestLastValues" /\ data = <<>> /\ answers = <<>>
      /\ clock = 0 /\ lost = {} /\ overtaken = {}
      /\ remote \in [Properties -> [value : Values, time : {0}]]
      /\ 0 \in Times /\ MaxClock \in Nat
  BY PropertyAssumption DEF Init, Times
<1>2. remote \in Remotes
  <2>1. [value : Values, time : {0}] \subseteq [value : Values, time : Times]
    BY <1>0
  <2> QED BY <1>0, <2>1 DEF Remotes
<1>3. /\ DecoderBoot \in Decoders /\ DecoderBoot.state = "Idle"
      /\ DecoderBoot.rest = <<>> /\ DecoderBoot.name = NoName
  <2>1. <<>> \in Seq(Maps) OBVIOUS
  <2> QED BY <2>1, DecodeBegins DEF DecoderBoot
<1>4. TypeOK
  <2>1. <<>> \in Seq(Maps) /\ <<>> \in Seq(Seq(Maps)) OBVIOUS
  <2> QED BY <1>0, <1>2, <1>3, <2>1, BootOutcome, EncoderAtRest DEF TypeOK
<1>5. OneCall BY <1>0, <1>3 DEF OneCall
<1>6. EncoderInv
  BY <1>0 DEF EncoderBoot, EncoderInv, EncoderCounts, MessageCurrent, PassedOver,
              Packing
<1>7. MapsInOrder BY <1>0, <1>3 DEF MapsInOrder
<1>9. AllAccounted
  BY <1>0, BootOutcome DEF AllAccounted, AccountedFor, ToBeSent
<1> QED BY <1>4, <1>5, <1>6, <1>7, <1>9 DEF IndInv

\* Every step keeps the inductive invariant.
LEMMA NextKeeps == IndInv /\ [Next]_vars => IndInv'
<1> SUFFICES ASSUME IndInv, [Next]_vars PROVE IndInv' OBVIOUS
<1>1. CASE \/ \E p \in Properties, v \in Values : SketchWrites(p, v)
           \/ Push
           \/ \E p \in Properties : Elapse(p)
           \/ Tick
  BY <1>1, SketchStep
<1>2. CASE \E p \in Properties, v \in Values : CloudChanges(p, v)
  BY <1>2, CloudStep
<1>3. CASE Reconnect BY <1>3, ReconnectStep
<1>4. CASE Restart BY <1>4, RestartStep
<1>5. CASE DataArrives BY <1>5, DataArrivesStep
<1>6. CASE LastValuesArrive BY <1>6, LastValuesArriveStep
<1>7. CASE RequestLastValues BY <1>7, RequestStep
<1>8. CASE \E late \in BOOLEAN : Update(late) BY <1>8, UpdateStep
<1>9. CASE EncodeMessage BY <1>9, EncodeMessageStep
<1>10. CASE \E arrives \in BOOLEAN : SendMessage(arrives) BY <1>10, SendStep
<1>11. CASE DecodeMessage(Values)
  <2>1. Values \in SUBSET Values OBVIOUS
  <2> QED BY <1>11, <2>1, DecodeStep
<1>12. CASE \E late \in BOOLEAN : LastValuesDone(late)
  BY <1>12, LastValuesDoneStep
<1>13. CASE UNCHANGED vars
  BY <1>13
  DEF vars, cloudVars, IndInv, TypeOK, OneCall, EncoderInv, EncoderCounts,
      MessageCurrent, PassedOver, Packing, Seen, MapsInOrder,
      AllAccounted, AccountedFor, Synced, ToBeSent, InFlight
<1> QED
  BY <1>1, <1>2, <1>3, <1>4, <1>5, <1>6, <1>7, <1>8, <1>9, <1>10, <1>11, <1>12,
     <1>13
  DEF Next, Surroundings, MessageArrives, Turn, WithinCall

\* The inductive invariant holds in every state.
LEMMA Inductive == Spec => []IndInv
  BY InitHolds, NextKeeps, PTL DEF Spec

\* Every variable has its type: the index of the encoder stays within the
\* container however messages are cut, and the limit of a message that is packed
\* again is never negative.
THEOREM TypeCorrect == Spec => []TypeOK
<1>1. IndInv => TypeOK BY DEF IndInv
<1> QED BY <1>1, Inductive, PTL

\* While the board is synchronised, a property whose copy is not what the cloud
\* holds is to be sent, or a change of it is under way; else its publication was
\* lost or last values came too late.
THEOREM NothingForgotten == Spec => []NoChangeForgotten
<1>1. IndInv => NoChangeForgotten
  <2>1. SUFFICES ASSUME IndInv, thing = "Connected", NEW p \in Properties,
                        ReadableByCloud(p), prop[p].cloud # remote[p].value
                 PROVE  ToBeSent(p) \/ InFlight(p) \/ p \in lost \cup overtaken
    BY DEF NoChangeForgotten
  <2> QED BY <2>1 DEF IndInv, AllAccounted, Synced, AccountedFor
<1> QED BY <1>1, Inductive, PTL

-----------------------------------------------------------------------------
(* The times the cloud names.                                              *)

\* No map of a message that is decoded from a base time on names a time after the
\* last change of its property in r.
NotLater(base, maps, r) ==
  \A i \in 1 .. Len(maps), b \in Times :
    BaseIs(base, maps, i, b) /\ maps[i].time # NotSet
      => b + maps[i].time <= r[maps[i].name].time

\* The same of all that is under way, and of what the decoder has collected.
TimesInOrder ==
  /\ \A p \in Properties : remote[p].time <= clock
  /\ \A i \in 1 .. Len(data) : data[i].time <= remote[data[i].name].time
  /\ \A i \in 1 .. Len(answers), p \in Properties :
       answers[i][p].time <= remote[p].time
  /\ NotLater(dec.base, dec.rest, remote)
  /\ dec.name = NoName => dec.time = 0
  /\ dec.name # NoName /\ dec.told
       => dec.base + dec.time <= remote[dec.name].time

\* The cloud does not date a change later than it was.
LEMMA HonestMessage ==
  ASSUME NEW maps \in Seq(Maps), NEW times \in [Properties -> Times],
         NEW r \in Remotes, Honest(maps, times),
         \A i \in 1 .. Len(maps) : times[maps[i].name] <= r[maps[i].name].time
  PROVE  NotLater(0, maps, r)
<1> SUFFICES ASSUME NEW i \in 1 .. Len(maps), NEW b \in Times,
                    BaseIs(0, maps, i, b), maps[i].time # NotSet
             PROVE  b + maps[i].time <= r[maps[i].name].time
  BY DEF NotLater
<1>1. i \in DOMAIN maps /\ maps[i] \in Maps OBVIOUS
<1>2. b + Given(maps[i].time, 0) = times[maps[i].name]
  BY <1>1 DEF Honest
<1>3. b + maps[i].time = times[maps[i].name] BY <1>2 DEF Given
<1> QED BY <1>3

\* What the cloud changes later is not dated earlier.
LEMMA LaterKept ==
  ASSUME NEW base, NEW maps \in Seq(Maps), NEW r \in Remotes, NEW q \in Remotes,
         \A p \in Properties : r[p].time <= q[p].time, NotLater(base, maps, r)
  PROVE  NotLater(base, maps, q)
<1> SUFFICES ASSUME NEW i \in 1 .. Len(maps), NEW b \in Times,
                    BaseIs(base, maps, i, b), maps[i].time # NotSet
             PROVE  b + maps[i].time <= q[maps[i].name].time
  BY DEF NotLater
<1>1. b + maps[i].time <= r[maps[i].name].time BY DEF NotLater
<1>2. maps[i] \in Maps OBVIOUS
<1>3. /\ maps[i].name \in Properties /\ maps[i].time \in Int /\ b \in Int
      /\ r[maps[i].name].time \in Int /\ q[maps[i].name].time \in Int
  BY <1>2 DEF Maps, OptionalTimes, NotSet, Times, Remotes
<1> QED BY <1>1, <1>3

\* The base time at the first map is the one the decoder has once it took it in.
LEMMA HeadBase ==
  ASSUME NEW base \in Times, NEW maps \in Seq(Maps), maps # <<>>
  PROVE  BaseIs(base, maps, 1, Given(maps[1].base, base))
<1>1. CASE maps[1].base = NotSet
  <2>1. \A k \in 1 .. 1 : maps[k].base = NotSet BY <1>1
  <2> QED BY <1>1, <2>1 DEF BaseIs, Given
<1>2. CASE maps[1].base # NotSet
  <2>1. 1 \in 1 .. 1 /\ \A k \in 2 .. 1 : maps[k].base = NotSet OBVIOUS
  <2>2. 1 + 1 = 2 OBVIOUS
  <2> QED BY <1>2, <2>1, <2>2 DEF BaseIs, Given
<1> QED BY <1>1, <1>2

\* The base times of the maps that are left are those they had in the message.
LEMMA BaseShifts ==
  ASSUME NEW base \in Times, NEW maps \in Seq(Maps), maps # <<>>,
         NEW i \in 1 .. Len(Tail(maps)), NEW b \in Times,
         BaseIs(Given(maps[1].base, base), Tail(maps), i, b)
  PROVE  BaseIs(base, maps, i + 1, b)
<1>1. /\ i \in Nat /\ Len(Tail(maps)) = Len(maps) - 1 /\ Len(maps) \in Nat
      /\ \A k \in 1 .. Len(Tail(maps)) : Tail(maps)[k] = maps[k + 1]
  OBVIOUS
<1>2. \A k \in 2 .. i + 1 : /\ k - 1 \in 1 .. i
                            /\ maps[k] = Tail(maps)[k - 1]
  <2> SUFFICES ASSUME NEW k \in 2 .. i + 1
               PROVE  k - 1 \in 1 .. i /\ maps[k] = Tail(maps)[k - 1]
    OBVIOUS
  <2>1. k - 1 \in 1 .. i /\ k - 1 \in 1 .. Len(Tail(maps)) /\ (k - 1) + 1 = k
    BY <1>1
  <2> QED BY <1>1, <2>1
<1>3. CASE \E j \in 1 .. i :
             /\ Tail(maps)[j].base = b /\ b # NotSet
             /\ \A k \in j + 1 .. i : Tail(maps)[k].base = NotSet
  <2>1. PICK j \in 1 .. i :
          /\ Tail(maps)[j].base = b /\ b # NotSet
          /\ \A k \in j + 1 .. i : Tail(maps)[k].base = NotSet
    BY <1>3
  <2>2. j + 1 \in 1 .. i + 1 /\ maps[j + 1].base = b
    <3>1. j + 1 \in 1 .. i + 1 /\ j \in 1 .. Len(Tail(maps)) BY <1>1
    <3> QED BY <1>1, <2>1, <3>1
  <2>3. ASSUME NEW k \in (j + 1) + 1 .. i + 1
        PROVE  maps[k].base = NotSet
    <3>1. k \in 2 .. i + 1 /\ k - 1 \in j + 1 .. i BY <1>1
    <3> QED BY <1>2, <2>1, <3>1
  <2> QED BY <2>1, <2>2, <2>3 DEF BaseIs
<1>4. CASE b = Given(maps[1].base, base)
             /\ \A k \in 1 .. i : Tail(maps)[k].base = NotSet
  <2>1. \A k \in 2 .. i + 1 : maps[k].base = NotSet BY <1>2, <1>4
  <2>2. CASE maps[1].base = NotSet
    <3>1. ASSUME NEW k \in 1 .. i + 1
          PROVE  maps[k].base = NotSet
      <4>1. k = 1 \/ k \in 2 .. i + 1 BY <1>1
      <4> QED BY <2>1, <2>2, <4>1
    <3>2. b = base BY <1>4, <2>2 DEF Given
    <3> QED BY <3>1, <3>2 DEF BaseIs
  <2>3. CASE maps[1].base # NotSet
    <3>1. maps[1].base = b /\ b # NotSet BY <1>4, <2>3 DEF Given
    <3>2. 1 \in 1 .. i + 1 /\ 1 + 1 = 2 BY <1>1
    <3> QED BY <2>1, <3>1, <3>2 DEF BaseIs
  <2> QED BY <2>2, <2>3
<1> QED BY <1>3, <1>4 DEF BaseIs

\* Taking in a map leaves the times of the others in order.
LEMMA TailLater ==
  ASSUME NEW base \in Times, NEW maps \in Seq(Maps), maps # <<>>, NEW r,
         NotLater(base, maps, r)
  PROVE  NotLater(Given(maps[1].base, base), Tail(maps), r)
<1> SUFFICES ASSUME NEW i \in 1 .. Len(Tail(maps)), NEW b \in Times,
                    BaseIs(Given(maps[1].base, base), Tail(maps), i, b),
                    Tail(maps)[i].time # NotSet
             PROVE  b + Tail(maps)[i].time <= r[Tail(maps)[i].name].time
  BY DEF NotLater
<1>1. i + 1 \in 1 .. Len(maps) /\ Tail(maps)[i] = maps[i + 1] OBVIOUS
<1>2. BaseIs(base, maps, i + 1, b) BY BaseShifts
<1> QED BY <1>1, <1>2 DEF NotLater

\* The time collected for a property whose map names it.
LEMMA CollectedTime ==
  ASSUME IndInv, TimesInOrder, dec.state = "LeaveMap"
  PROVE  /\ dec.rest # <<>> /\ dec.rest \in Seq(Maps)
         /\ NotLater(Collected.base, Tail(dec.rest), remote)
         /\ Collected.told =>
              Collected.base + Collected.time <= remote[Head(dec.rest).name].time
<1>0. TypeOK /\ dec \in Decoders /\ dec.rest \in Seq(Maps) /\ dec.base \in Times
  BY DEF IndInv, TypeOK, Decoders
<1>1. dec.rest # <<>> /\ Len(dec.rest) >= 1
  <2>1. Len(dec.rest) >= 1
    BY <1>0 DEF IndInv, MapsInOrder, Decoders
  <2> QED BY <1>0, <2>1
<1>2. NextProperty \/ (dec.name = NoName /\ dec.time = 0)
  <2>1. CASE dec.name = NoName BY <2>1 DEF TimesInOrder
  <2>2. CASE dec.name # NoName
    <3>1. dec.sync BY <1>0, <2>2 DEF IndInv, MapsInOrder, Decoders
    <3>2. 1 \in 1 .. Len(dec.rest) BY <1>0, <1>1
    <3>3. dec.rest[1].name = dec.name + 1 /\ Head(dec.rest) = dec.rest[1]
      BY <1>0, <1>1, <3>1, <3>2 DEF IndInv, MapsInOrder
    <3>4. dec.name \in Int BY <1>0, <2>2 DEF Decoders, Properties
    <3> QED BY <2>2, <3>3, <3>4 DEF NextProperty
  <2> QED BY <2>1, <2>2
<1>3. /\ Head(dec.rest) = dec.rest[1]
      /\ Collected.base = Given(dec.rest[1].base, dec.base)
      /\ Collected.base \in Times
      /\ Collected.told => dec.rest[1].time # NotSet
      /\ Collected.told => Collected.time = dec.rest[1].time
  BY <1>0, <1>1, <1>2, CollectedOutcome
<1>4. NotLater(Collected.base, Tail(dec.rest), remote)
  BY <1>0, <1>1, <1>3, TailLater DEF TimesInOrder
<1>5. ASSUME Collected.told
      PROVE  Collected.base + Collected.time <= remote[Head(dec.rest).name].time
  <2>1. BaseIs(dec.base, dec.rest, 1, Collected.base) BY <1>0, <1>1, <1>3, HeadBase
  <2>2. 1 \in 1 .. Len(dec.rest) BY <1>0, <1>1
  <2> QED BY <1>3, <1>5, <2>1, <2>2 DEF TimesInOrder, NotLater
<1> QED BY <1>0, <1>1, <1>4, <1>5

\* What a step of the decoder stamps on the properties.
LEMMA EventStep ==
  ASSUME IndInv, TimesInOrder, NEW edits \in SUBSET Values,
         LeaveMap(edits) \/ LeaveLastMap(edits), NEW p \in UpdatedNow, TimeNamed(p)
  PROVE  prop'[p].cloudTime <= remote[p].time
<1>1. dec.state = "LeaveMap" /\ TypeOK BY DEF LeaveMap, LeaveLastMap, IndInv
<1>2. prop'[p].cloudTime = EventTime(p) BY <1>1, UpdatedOutcome
<1>3. CASE p = Head(dec.rest).name
  BY <1>1, <1>2, <1>3, CollectedTime DEF EventTime, TimeNamed
<1>4. CASE p # Head(dec.rest).name
  <2>1. p = dec.name /\ p # NoName /\ dec.told
    BY <1>4 DEF UpdatedNow, NextProperty, TimeNamed
  <2> QED BY <1>2, <1>4, <2>1 DEF EventTime, TimesInOrder
<1> QED BY <1>3, <1>4

\* Times stay in order while the messages under way stay as they are.
LEMMA TimesKept ==
  ASSUME IndInv, TimesInOrder, remote' \in Remotes,
         \A p \in Properties : /\ remote[p].time <= remote'[p].time
                               /\ remote'[p].time <= clock',
         UNCHANGED dec,
         \A i \in 1 .. Len(data') : data'[i].time <= remote'[data'[i].name].time,
         \A i \in 1 .. Len(answers'), p \in Properties :
           answers'[i][p].time <= remote'[p].time
  PROVE  TimesInOrder'
<1>0. /\ remote \in Remotes /\ dec \in Decoders /\ dec.rest \in Seq(Maps)
  BY DEF IndInv, TypeOK, Decoders
<1>1. NotLater(dec.base, dec.rest, remote')
  BY <1>0, LaterKept DEF TimesInOrder
<1>2. ASSUME dec.name # NoName, dec.told
      PROVE  dec.base + dec.time <= remote'[dec.name].time
  <2>1. /\ dec.name \in Properties /\ dec.base \in Int /\ dec.time \in Int
        /\ remote[dec.name].time \in Int /\ remote'[dec.name].time \in Int
    BY <1>0, <1>2 DEF Decoders, Remotes, Times
  <2>2. dec.base + dec.time <= remote[dec.name].time
    BY <1>2 DEF TimesInOrder
  <2> QED BY <2>1, <2>2
<1> QED BY <1>1, <1>2 DEF TimesInOrder

\* The messages under way, as the cloud moves on.
LEMMA MessagesKept ==
  ASSUME IndInv, TimesInOrder, remote' \in Remotes,
         \A p \in Properties : remote[p].time <= remote'[p].time
  PROVE  /\ \A i \in 1 .. Len(data) : data[i].time <= remote'[data[i].name].time
         /\ \A i \in 1 .. Len(answers), p \in Properties :
              answers[i][p].time <= remote'[p].time
<1>0. /\ remote \in Remotes /\ data \in Seq(CloudData) /\ answers \in Seq(Remotes)
      /\ \A p \in Properties : remote[p].time \in Int /\ remote'[p].time \in Int
  BY DEF IndInv, TypeOK, Remotes, Times
<1>1. ASSUME NEW i \in 1 .. Len(data)
      PROVE  data[i].time <= remote'[data[i].name].time
  <2>1. data[i] \in CloudData BY <1>0
  <2>2. data[i].name \in Properties /\ data[i].time \in Int
    BY <2>1 DEF CloudData, Times
  <2>3. data[i].time <= remote[data[i].name].time BY DEF TimesInOrder
  <2> QED BY <1>0, <2>2, <2>3
<1>2. ASSUME NEW i \in 1 .. Len(answers), NEW p \in Properties
      PROVE  answers[i][p].time <= remote'[p].time
  <2>1. answers[i] \in Remotes BY <1>0
  <2>2. answers[i][p].time \in Int BY <2>1 DEF Remotes, Times
  <2>3. answers[i][p].time <= remote[p].time BY DEF TimesInOrder
  <2> QED BY <1>0, <2>2, <2>3
<1> QED BY <1>1, <1>2

\* A decoder at rest.
LEMMA RestingTimes ==
  ASSUME dec'.rest = <<>>, dec'.name = NoName, dec'.time = 0
  PROVE  /\ NotLater(dec.base, dec.rest, remote)'
         /\ (dec.name = NoName => dec.time = 0)'
         /\ (dec.name # NoName /\ dec.told
               => dec.base + dec.time <= remote[dec.name].time)'
  BY DEF NotLater

\* Every step keeps the times in order.
LEMMA TimesStep ==
  ASSUME IndInv, TypeOK', TimesInOrder, [Next]_vars
  PROVE  TimesInOrder'
<1>0. /\ remote \in Remotes /\ remote' \in Remotes /\ Times \subseteq Int
      /\ clock \in Int /\ clock' \in Int
      /\ data \in Seq(CloudData) /\ answers \in Seq(Remotes) /\ TypeOK
      /\ \A p \in Properties : remote[p].time \in Int /\ remote'[p].time \in Int
      /\ \A p \in Properties : remote[p].time <= clock
  BY DEF IndInv, TypeOK, Remotes, Times, TimesInOrder
<1>1. CASE UNCHANGED <<remote, data, answers, dec>> /\ clock <= clock'
  <2>1. \A p \in Properties : /\ remote[p].time <= remote'[p].time
                              /\ remote'[p].time <= clock'
    BY <1>0, <1>1
  <2> QED BY <1>0, <1>1, <2>1, TimesKept, MessagesKept
<1>2. CASE \E p \in Properties, v \in Values : CloudChanges(p, v)
  <2>1. PICK q \in Properties, v \in Values : CloudChanges(q, v) BY <1>2
  <2>2. /\ remote' = [remote EXCEPT ![q] = [value |-> v, time |-> clock]]
        /\ UNCHANGED <<dec, answers, clock>>
    BY <2>1 DEF CloudChanges
  <2> DEFINE m == [name |-> q, value |-> v, time |-> clock]
  <2>3. data' = Append(data, m) BY <2>1 DEF CloudChanges
  <2>4. \A p \in Properties : /\ remote[p].time <= remote'[p].time
                              /\ remote'[p].time <= clock'
    BY <1>0, <2>2 DEF Remotes
  <2>5. m.time <= remote'[m.name].time BY <1>0, <2>2 DEF Remotes
  <2> HIDE DEF m
  <2>6. ASSUME NEW i \in 1 .. Len(data')
        PROVE  data'[i].time <= remote'[data'[i].name].time
    <3>1. data'[i] = m \/ (i \in 1 .. Len(data) /\ data'[i] = data[i])
      BY <1>0, <2>3
    <3> QED BY <1>0, <2>4, <2>5, <3>1, MessagesKept
  <2> QED BY <1>0, <2>2, <2>4, <2>6, TimesKept, MessagesKept
<1>3. CASE Reconnect \/ Restart
  <2>1. data' = <<>> /\ answers' = <<>> /\ UNCHANGED <<dec, remote, clock>>
    BY <1>3 DEF Reconnect, Restart
  <2>2. \A p \in Properties : /\ remote[p].time <= remote'[p].time
                              /\ remote'[p].time <= clock'
    BY <1>0, <2>1
  <2> QED BY <1>0, <2>1, <2>2, TimesKept
<1>4. CASE DataArrives
  <2>1. PICK m \in Maps : /\ m.name = Head(data).name
                         /\ Honest(<<m>>, [p \in Properties |-> Head(data).time])
                         /\ dec' = Decode(<<m>>, FALSE)
    BY <1>0, <1>4, DataMessage
  <2>2. /\ Head(data) = data[1] /\ 1 \in 1 .. Len(data) /\ Head(data) \in CloudData
        /\ data' = Tail(data) /\ UNCHANGED <<remote, answers, clock>>
    BY <1>0, <1>4, DataMessage DEF DataArrives
  <2>3. \A i \in 1 .. Len(data') : /\ i + 1 \in 1 .. Len(data)
                                   /\ data'[i] = data[i + 1]
    BY <1>0, <2>2
  <2>4. NotLater(0, <<m>>, remote)
    <3> DEFINE times == [p \in Properties |-> Head(data).time]
    <3>1. times \in [Properties -> Times] BY <2>2 DEF CloudData
    <3>2. m.name \in Properties /\ times[m.name] = Head(data).time
      BY DEF Maps
    <3>3. times[m.name] <= remote[m.name].time
      BY <2>1, <2>2, <3>2 DEF TimesInOrder
    <3>4. Honest(<<m>>, times) BY <2>1
    <3> HIDE DEF times
    <3>5. /\ <<m>> \in Seq(Maps)
          /\ \A i \in 1 .. Len(<<m>>) : times[<<m>>[i].name] <= remote[<<m>>[i].name].time
      BY <3>3
    <3> QED BY <1>0, <3>1, <3>4, <3>5, HonestMessage
  <2>5. /\ dec'.rest = <<m>> /\ dec'.base = 0
        /\ dec'.name = NoName /\ dec'.time = 0
    <3>1. <<m>> \in Seq(Maps) OBVIOUS
    <3> QED BY <2>1, <3>1, DecodeBegins
  <2> QED BY <1>0, <2>2, <2>3, <2>4, <2>5 DEF TimesInOrder
<1>5. CASE LastValuesArrive
  <2>1. PICK m \in Seq(Maps) :
          /\ Len(m) = N /\ \A j \in 1 .. N : m[j].name = j
          /\ Honest(m, [p \in Properties |-> Head(answers)[p].time])
          /\ dec' = Decode(m, TRUE)
    BY <1>0, <1>5, LastValuesMessage
  <2>2. /\ Head(answers) = answers[1] /\ 1 \in 1 .. Len(answers)
        /\ Head(answers) \in Remotes
        /\ answers' = Tail(answers) /\ UNCHANGED <<remote, data, clock>>
    BY <1>0, <1>5, LastValuesMessage DEF LastValuesArrive
  <2>3. \A i \in 1 .. Len(answers') : /\ i + 1 \in 1 .. Len(answers)
                                      /\ answers'[i] = answers[i + 1]
    BY <1>0, <2>2
  <2>4. NotLater(0, m, remote)
    <3> DEFINE times == [p \in Properties |-> Head(answers)[p].time]
    <3>1. times \in [Properties -> Times] BY <2>2 DEF Remotes
    <3>2. \A p \in Properties : times[p] <= remote[p].time
      BY <2>2 DEF TimesInOrder
    <3>3. Honest(m, times) BY <2>1
    <3> HIDE DEF times
    <3>4. \A i \in 1 .. Len(m) : m[i].name \in Properties BY <2>1 DEF Properties
    <3> QED BY <1>0, <3>1, <3>2, <3>3, <3>4, HonestMessage
  <2>5. /\ dec'.rest = m /\ dec'.base = 0
        /\ dec'.name = NoName /\ dec'.time = 0
    BY <2>1, DecodeBegins
  <2> QED BY <1>0, <2>2, <2>3, <2>4, <2>5 DEF TimesInOrder
<1>6. CASE RequestLastValues
  <2>1. answers' = Append(answers, remote) /\ UNCHANGED <<dec, remote, data, clock>>
    BY <1>6 DEF RequestLastValues
  <2>2. ASSUME NEW i \in 1 .. Len(answers'), NEW p \in Properties
        PROVE  answers'[i][p].time <= remote'[p].time
    <3>1. \/ answers'[i] = remote
          \/ i \in 1 .. Len(answers) /\ answers'[i] = answers[i]
      BY <1>0, <2>1
    <3> QED BY <1>0, <2>1, <3>1 DEF TimesInOrder
  <2>3. \A p \in Properties : /\ remote[p].time <= remote'[p].time
                              /\ remote'[p].time <= clock'
    BY <1>0, <2>1
  <2> QED BY <1>0, <2>1, <2>2, <2>3, TimesKept, MessagesKept
<1>7. CASE \E arrives \in BOOLEAN : SendMessage(arrives)
  <2>1. PICK arrives \in BOOLEAN : SendMessage(arrives) BY <1>7
  <2>2. UNCHANGED <<dec, data, answers, clock>> BY <2>1 DEF SendMessage
  <2>3. ASSUME NEW p \in Properties
        PROVE  remote[p].time <= remote'[p].time /\ remote'[p].time <= clock'
    <3>1. remote'[p].time = clock \/ remote'[p].time = remote[p].time
      BY <2>1 DEF SendMessage
    <3> QED BY <1>0, <2>2, <3>1
  <2> QED BY <1>0, <2>2, <2>3, TimesKept, MessagesKept
<1>8. CASE DecodeMessage(Values)
  <2>1. /\ LeaveMap(Values) \/ LeaveLastMap(Values)
        /\ UNCHANGED <<remote, data, answers, clock>>
        /\ Values \in SUBSET Values
    BY <1>8 DEF DecodeMessage
  <2>2. CASE LeaveMap(Values)
    <3>1. /\ dec' = Collected /\ dec.state = "LeaveMap" /\ dec'.name # NoName
          /\ TypeOK
      BY <2>1, <2>2, LeaveMapOutcome DEF IndInv
    <3>2. /\ dec'.rest = Tail(dec.rest) /\ dec'.name = Head(dec.rest).name
      BY <3>1, CollectedTime, CollectedOutcome
    <3> QED BY <2>1, <3>1, <3>2, CollectedTime DEF TimesInOrder
  <2>3. CASE LeaveLastMap(Values)
    <3>1. dec'.rest = <<>> /\ dec'.name = NoName /\ dec'.time = 0
      BY <2>1, <2>3, LeaveLastMapOutcome
    <3> QED BY <2>1, <3>1, RestingTimes DEF TimesInOrder
  <2> QED BY <2>1, <2>2, <2>3
<1>9. CASE \E late \in BOOLEAN : LastValuesDone(late)
  <2>1. dec' = DecoderBoot /\ UNCHANGED <<remote, data, answers, clock>>
    BY <1>9 DEF LastValuesDone, cloudVars
  <2>2. dec'.rest = <<>> /\ dec'.name = NoName /\ dec'.time = 0
    BY <2>1 DEF DecoderBoot
  <2> QED BY <2>1, <2>2, RestingTimes DEF TimesInOrder
<1>10. CASE Tick BY <1>0, <1>1, <1>10 DEF Tick
<1>11. CASE \/ \E p \in Properties, v \in Values : SketchWrites(p, v)
            \/ Push
            \/ \E p \in Properties : Elapse(p)
            \/ \E late \in BOOLEAN : Update(late)
            \/ EncodeMessage
            \/ UNCHANGED vars
  BY <1>0, <1>1, <1>11
  DEF SketchWrites, Push, Elapse, Update, EncodeMessage, vars, cloudVars
<1> QED
  BY <1>2, <1>3, <1>4, <1>5, <1>6, <1>7, <1>8, <1>9, <1>10, <1>11
  DEF Next, Surroundings, MessageArrives, Turn, WithinCall

\* A time that the cloud names for a change of a property is not read as later
\* than the change, whatever else is in the message and in the messages before.
THEOREM EventTimes == Spec => EventTimesAreOwn
<1>1. Init => TimesInOrder
  <2>1. SUFFICES ASSUME Init PROVE TimesInOrder OBVIOUS
  <2>2. /\ \A p \in Properties : remote[p].time = 0
        /\ clock = 0 /\ data = <<>> /\ answers = <<>> /\ dec = DecoderBoot
    BY <2>1 DEF Init
  <2>3. dec.rest = <<>> /\ dec.name = NoName /\ dec.time = 0
    BY <2>2 DEF DecoderBoot
  <2> QED BY <2>2, <2>3 DEF TimesInOrder, NotLater
<1>2. IndInv /\ TimesInOrder /\ [Next]_vars => TimesInOrder'
  <2>1. IndInv /\ [Next]_vars => TypeOK' BY NextKeeps DEF IndInv
  <2> QED BY <2>1, TimesStep
<1>3. IndInv /\ TimesInOrder /\ [Next]_vars =>
        [dec.state = "LeaveMap" /\ dec' # dec =>
           \A p \in UpdatedNow :
             TimeNamed(p) => prop'[p].cloudTime <= remote[p].time]_vars
  <2>1. SUFFICES ASSUME IndInv, TimesInOrder, Next, dec.state = "LeaveMap",
                        dec' # dec, NEW p \in UpdatedNow, TimeNamed(p)
                 PROVE  prop'[p].cloudTime <= remote[p].time
    OBVIOUS
  <2>2. DecodeMessage(Values)
    BY <2>1 DEF Next, Surroundings, MessageArrives, Turn, WithinCall,
        SketchWrites, Push, Elapse, Tick, CloudChanges, Reconnect, Restart,
        DataArrives, LastValuesArrive, RequestLastValues, Update, EncodeMessage,
        SendMessage, LastValuesDone, Idle, cloudVars
  <2>3. LeaveMap(Values) \/ LeaveLastMap(Values) BY <2>2 DEF DecodeMessage
  <2>4. Values \in SUBSET Values OBVIOUS
  <2> QED BY <2>1, <2>3, <2>4, EventStep
<1> QED BY <1>1, <1>2, <1>3, Inductive, PTL DEF Spec, EventTimesAreOwn

-----------------------------------------------------------------------------
(* Publishing implements the mirror.                                       *)

\* Both sides hold values.
LEMMA MirrorTypes ==
  ASSUME TypeOK
  PROVE  /\ DeviceValues \in [Mirror!Properties -> Values]
         /\ CloudValues \in [Mirror!Properties -> Values]
<1>1. Mirror!Properties = Properties BY PermissionGiven DEF Mirror!Properties
<1>2. \A p \in Properties : prop[p].value \in Values /\ remote[p].value \in Values
  BY DEF TypeOK, Slots, Remotes
<1> QED BY <1>1, <1>2 DEF DeviceValues, CloudValues

\* A step that leaves the cloud alone is a change of the device.
LEMMA DeviceStep ==
  ASSUME TypeOK, TypeOK', UNCHANGED remote
  PROVE  Mirror!Next
<1>1. DeviceValues' \in [Mirror!Properties -> Values]
  <2>1. Mirror!Properties = Properties BY PermissionGiven DEF Mirror!Properties
  <2>2. \A p \in Properties : prop'[p].value \in Values
    BY DEF TypeOK, Slots
  <2> QED BY <2>1, <2>2 DEF DeviceValues
<1>2. CloudValues' = CloudValues BY DEF CloudValues
<1>3. (enc.state = "SendMessage")' \in BOOLEAN OBVIOUS
<1>4. Mirror!DeviceChanges BY <1>1, <1>2, <1>3 DEF Mirror!DeviceChanges
<1> QED BY <1>4 DEF Mirror!Next

\* Every step is a step of the mirror.
LEMMA MirrorStep ==
  ASSUME IndInv, IndInv', [Next]_vars
  PROVE  [Mirror!Next]_Mirror!vars
<1>0. TypeOK /\ TypeOK' BY DEF IndInv
<1>1. CASE \E p \in Properties, v \in Values : CloudChanges(p, v)
  <2>1. PICK p \in Properties, v \in Values : CloudChanges(p, v) BY <1>1
  <2>2. /\ remote' = [remote EXCEPT ![p] = [value |-> v, time |-> clock]]
        /\ WriteableByCloud(p) /\ prop' = prop
        /\ enc.state = "Idle" /\ enc' = enc
    BY <2>1 DEF CloudChanges, Idle
  <2>3. DeviceValues' = DeviceValues BY <2>2 DEF DeviceValues
  <2>4. CloudValues' = [CloudValues EXCEPT ![p] = v]
    BY <1>0, <2>2 DEF CloudValues, TypeOK, Remotes
  <2>5. Mirror!CloudChanges(p, v) BY <2>2, <2>3, <2>4 DEF Mirror!CloudChanges
  <2> QED BY <2>2, <2>5 DEF Mirror!Next
<1>2. CASE SendMessage(TRUE)
  <2>1. /\ remote' = [p \in Properties |->
                        IF p \in enc.message
                        THEN [value |-> enc.payload[p], time |-> clock]
                        ELSE remote[p]]
        /\ prop' = prop
    BY <1>2 DEF SendMessage
  <2>2. DeviceValues' = DeviceValues BY <2>1 DEF DeviceValues
  <2>3. enc.message \in SUBSET Properties BY <1>0 DEF TypeOK, Encoders
  <2>4. \A p \in enc.message : /\ ReadableByCloud(p)
                               /\ enc.payload[p] = prop[p].value
    BY DEF IndInv, EncoderInv, MessageCurrent
  <2>5. enc.message \in SUBSET {p \in Properties : ReadableByCloud(p)}
    BY <2>3, <2>4
  <2>6. Mirror!Properties = Properties BY PermissionGiven DEF Mirror!Properties
  <2>7. \A p \in Properties :
          CloudValues'[p] = IF p \in enc.message THEN DeviceValues[p]
                                                 ELSE CloudValues[p]
    BY <2>1, <2>4 DEF CloudValues, DeviceValues
  <2>8. Mirror!Publish(enc.message)
    <3>1. CloudValues' = [p \in Properties |->
                            IF p \in enc.message THEN DeviceValues[p]
                                                 ELSE CloudValues[p]]
      BY <2>7 DEF CloudValues
    <3>2. enc.state = "SendMessage" /\ enc'.state = "Idle"
      BY <1>2 DEF SendMessage, EncoderDone, EncoderBoot
    <3> QED BY <2>2, <2>6, <3>1, <3>2 DEF Mirror!Publish
  <2> QED BY <2>5, <2>8 DEF Mirror!Next
<1>3. CASE UNCHANGED remote
  BY <1>0, <1>3, DeviceStep
<1>4. CASE ~UNCHANGED remote /\ ~SendMessage(TRUE)
             /\ ~\E p \in Properties, v \in Values : CloudChanges(p, v)
  <2>1. Next BY <1>4 DEF vars, cloudVars
  <2>2. CASE \E arrives \in BOOLEAN : SendMessage(arrives)
    BY <1>4, <2>2 DEF SendMessage
  <2>3. CASE ~\E arrives \in BOOLEAN : SendMessage(arrives)
    BY <1>4, <2>1, <2>3
    DEF Next, Surroundings, MessageArrives, Turn, WithinCall, SketchWrites, Push,
        Elapse, Tick, Reconnect, Restart, DataArrives, LastValuesArrive,
        RequestLastValues, Update, EncodeMessage, DecodeMessage,
        LastValuesDone, cloudVars
  <2> QED BY <2>2, <2>3
<1> QED BY <1>1, <1>2, <1>3, <1>4

\* The cloud's values change only by its users, where that is permitted, and by
\* messages that take readable properties to the values they have on the board
\* at that moment: a message packed again never carries an old value.
THEOREM PublishesTheMirror == Spec => ImplementsMirror
<1>1. Init => Mirror!Init
  <2>1. Init => TypeOK BY InitHolds DEF IndInv
  <2>2. Init => enc.state = "Idle" BY DEF Init, EncoderBoot
  <2> QED BY <2>1, <2>2, MirrorTypes DEF Mirror!Init
<1>2. IndInv /\ IndInv' /\ [Next]_vars => [Mirror!Next]_Mirror!vars
  BY MirrorStep
<1> QED BY <1>1, <1>2, Inductive, PTL
  DEF Spec, ImplementsMirror, Mirror!Spec
=============================================================================
