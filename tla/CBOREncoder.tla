----------------------------- MODULE CBOREncoder -----------------------------
(***************************************************************************)
(* CBOREncoder::encode: packs the properties that have to be sent into one *)
(* message of bounded size, starting where the last message ended.  One    *)
(* action per handler of its state machine.  A property that does not fit  *)
(* ends the message; one whose attributes would be split, and one that     *)
(* leaves no room for the closing byte, are left out by packing the        *)
(* message again with a limit on the number of properties.                 *)
(***************************************************************************)
EXTENDS Property, FiniteSets

CONSTANTS
  BufferSize,  \* MQTT_TRANSMIT_BUFFER_SIZE
  Size,        \* Size[p][v]: the bytes of p's attributes when its value is v
  Split        \* the properties with several attributes

ASSUME EncoderAssumption ==
  /\ BufferSize \in Nat /\ BufferSize >= 2
  /\ Size \in [Properties -> [Values -> Nat \ {0}]]
  /\ Split \subseteq Properties

VARIABLE enc

EncoderStates ==
  {"Idle", "InitPropertyEncoder", "OpenCBORContainer", "TryAppend",
   "OutOfMemory", "SkipProperty", "TrimAppend", "CloseCBORContainer",
   "TrimClose", "FinishAppend", "SendMessage", "Error"}

Encoders == [state       : EncoderStates,
             index       : 0 .. N - 1,  \* current_property_index, kept by the thing
             encoded     : 0 .. N,      \* encoded_property_count
             checked     : 0 .. N,      \* checked_property_count
             limit       : 0 .. N,      \* encoded_property_limit
             limitActive : BOOLEAN,     \* property_limit_active
             used        : Nat,         \* bytes written
             message     : SUBSET Properties,  \* the properties among them
             payload     : [Properties -> Values]]  \* and their values

EncoderBoot ==
  [state |-> "Idle", index |-> 0, encoded |-> 0, checked |-> 0, limit |-> 0,
   limitActive |-> FALSE, used |-> 0, message |-> {},
   payload |-> [p \in Properties |-> Traits[p].start]]

\* The property TryAppend looks at: its loop starts at the index and counts
\* every property it passes.
Cursor == enc.index + enc.checked + 1

\* Mutant: the index is wrapped one property too late.
WrappedLate(n) == IF enc.index + n > N THEN 0 ELSE enc.index + n

\* current_property_index, advanced by n and wrapped at the end of the container.
AdvancedIndex(n) == IF enc.index + n >= N THEN 0 ELSE enc.index + n

-----------------------------------------------------------------------------
InitPropertyEncoder ==
  /\ enc.state = "InitPropertyEncoder"
  /\ enc' = [enc EXCEPT !.state = "OpenCBORContainer", !.encoded = 0,
                        !.checked = 0, !.limit = 0, !.limitActive = FALSE]
  /\ UNCHANGED prop

\* The first byte opens an array of indefinite length.
OpenCBORContainer ==
  /\ enc.state = "OpenCBORContainer"
  /\ enc' = [enc EXCEPT !.state = "TryAppend", !.encoded = 0, !.checked = 0,
                        !.used = 1, !.message = {},
                        !.payload = EncoderBoot.payload]
  /\ UNCHANGED prop

\* The end of the loop body: the limit ends the loop.
AfterProperty(e) ==
  [e EXCEPT !.state = IF e.limitActive /\ e.encoded >= e.limit
                      THEN "CloseCBORContainer" ELSE "TryAppend"]

Wanted(p) == ShouldBeUpdated(p, prop[p]) /\ ReadableByCloud(p)

Fits(p) == enc.used + Size[p][prop[p].value] <= BufferSize

\* The message with p added, encoded as v.
Extended(p, v) ==
  [enc EXCEPT !.checked = @ + 1, !.encoded = @ + 1,
              !.used = @ + Size[p][prop[p].value],
              !.message = @ \cup {p}, !.payload[p] = v]

\* One pass through the loop of handle_TryAppend, for a property passed over, ...
TryAppendPass ==
  /\ enc.state = "TryAppend" /\ Cursor <= N
  /\ ~Wanted(Cursor)
  /\ enc' = AfterProperty([enc EXCEPT !.checked = @ + 1])
  /\ UNCHANGED prop

\* Mutant: the library's copy is encoded, not the variable of the sketch.
AppendsCopy ==
  /\ enc.state = "TryAppend" /\ Cursor <= N
  /\ Wanted(Cursor) /\ Fits(Cursor)
  /\ enc' = AfterProperty(Extended(Cursor, prop[Cursor].cloud))
  /\ prop' = [prop EXCEPT ![Cursor] = Append1(@)]

\* ... for one that goes into the message, ...
TryAppendFits ==
  /\ enc.state = "TryAppend" /\ Cursor <= N
  /\ Wanted(Cursor) /\ Fits(Cursor)
  /\ enc' = AfterProperty(Extended(Cursor, prop[Cursor].value))
  /\ prop' = [prop EXCEPT ![Cursor] = Append1(@)]

\* ... and for one that does not fit, which ends the loop.
TryAppendFull ==
  /\ enc.state = "TryAppend" /\ Cursor <= N
  /\ Wanted(Cursor) /\ ~Fits(Cursor)
  /\ enc' = [enc EXCEPT !.state = IF Cursor \in Split THEN "TrimAppend"
                                                      ELSE "OutOfMemory"]
  /\ UNCHANGED prop

TryAppendEnd ==
  /\ enc.state = "TryAppend" /\ Cursor > N
  /\ enc' = [enc EXCEPT !.state = "CloseCBORContainer"]
  /\ UNCHANGED prop

OutOfMemory ==
  /\ enc.state = "OutOfMemory"
  /\ enc' = [enc EXCEPT !.state = IF enc.encoded > 0 THEN "CloseCBORContainer"
                                                     ELSE "SkipProperty"]
  /\ UNCHANGED prop

\* Mutant: the property that cannot be sent is tried again.
SkipNothing ==
  /\ enc.state = "SkipProperty"
  /\ enc' = [enc EXCEPT !.state = "Error"]
  /\ UNCHANGED prop

SkipProperty ==
  /\ enc.state = "SkipProperty"
  /\ enc' = [enc EXCEPT !.state = "Error", !.index = AdvancedIndex(1)]
  /\ UNCHANGED prop

\* The message is packed again with n properties, or given up.
Limited(n) ==
  [enc EXCEPT !.limit = n, !.limitActive = TRUE,
              !.state = IF n > 0 THEN "OpenCBORContainer" ELSE "Error"]

TrimAppend ==
  /\ enc.state = "TrimAppend"
  /\ enc' = Limited(enc.encoded)
  /\ UNCHANGED prop

\* The last byte closes the array, after the whole attributes.
CloseCBORContainer ==
  /\ enc.state = "CloseCBORContainer"
  /\ enc' = IF enc.used < BufferSize
            THEN [enc EXCEPT !.state = "FinishAppend", !.used = @ + 1]
            ELSE [enc EXCEPT !.state = "TrimClose"]
  /\ UNCHANGED prop

TrimClose ==
  /\ enc.state = "TrimClose"
  /\ enc' = Limited(enc.encoded - 1)
  /\ UNCHANGED prop

\* Mutant: every property counts as sent, those after the last one too.
FinishAll ==
  /\ enc.state = "FinishAppend"
  /\ prop' = [p \in Properties |->
                IF p > enc.index THEN AppendCompleted(prop[p]) ELSE prop[p]]
  /\ enc' = [enc EXCEPT !.state = "SendMessage", !.limitActive = FALSE,
                        !.index = AdvancedIndex(enc.checked)]

FinishAppend ==
  /\ enc.state = "FinishAppend"
  /\ prop' = [p \in Properties |->
                IF p > enc.index /\ p <= enc.index + enc.checked
                THEN AppendCompleted(prop[p]) ELSE prop[p]]
  /\ enc' = [enc EXCEPT !.state = "SendMessage", !.limitActive = FALSE,
                        !.index = AdvancedIndex(enc.checked)]

\* What is left of an encoder when encode() returns.
EncoderDone == [EncoderBoot EXCEPT !.index = enc.index]

\* encode() returns CborErrorInternalError: nothing is sent.
EncodeError ==
  /\ enc.state = "Error"
  /\ enc' = EncoderDone
  /\ UNCHANGED prop

EncodeStep ==
  \/ InitPropertyEncoder \/ OpenCBORContainer
  \/ TryAppendPass \/ TryAppendFits \/ TryAppendFull \/ TryAppendEnd
  \/ OutOfMemory \/ SkipProperty \/ TrimAppend
  \/ CloseCBORContainer \/ TrimClose \/ FinishAppend \/ EncodeError
=============================================================================
