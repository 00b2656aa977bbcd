# ArduinoIoTCloud in TLA+

A verification project for the ArduinoIoTCloud library: TLA+ modules translated
from its C++ source, TLC configurations that check them on small instances, and
theorems that the TLA+ proof system (TLAPS) checks for every value of the
constants. `PROJECT.json` maps each definition to the lines it stands for and
lists the runs, mutants, findings, hazards and theorems.

- Check a run: `tlc -workers 2 -config CloudTCP_safety.cfg MCCloudTCP.tla`
- Check a proof: `tlapm CloudTCP_proofs.tla`

Paths below are relative to `src/` of the repository; `TCP`, `Device` and
`Thing` abbreviate `ArduinoIoTCloudTCP.cpp`, `ArduinoIoTCloudDevice.cpp` and
`ArduinoIoTCloudThing.cpp`; `Notecard` and `LPWAN` stand for
`ArduinoIoTCloudNotecard.cpp` and `ArduinoIoTCloudLPWAN.cpp`, `OTA` and `OTADefault` for
`ota/interface/OTAInterface.cpp` and `ota/interface/OTAInterfaceDefault.cpp`,
`Encoder` and `Decoder` for `cbor/CBOREncoder.cpp` and `cbor/CBORDecoder.cpp`,
`Container` for `property/PropertyContainer.cpp`, `LZSS` for `utility/lzss/lzss.cpp`.

## 1. The system

A sketch declares properties (cloud variables), calls `ArduinoCloud.begin()`
once and `ArduinoCloud.update()` in its `loop()`. Everything happens inside
`update()`: there are no threads. Concurrency comes from the outside (the
broker, the cloud, the clock, the network), from callbacks (the MQTT library
calls `handleMessage` from inside `poll()`; processes call `deliver` on a message
stream; the sketch is called back on CONNECT, SYNC, DISCONNECT and property
changes), from the Notecard's interrupt, and from three state machines that
drive and watch each other. On boards with a Notecard `ArduinoIoTCloudNotecard`
takes the place of `ArduinoIoTCloudTCP` in the picture, and polls for notes; on
LoRa boards `ArduinoIoTCloudLPWAN` does, without the two processes.

    sketch -- update() --> ArduinoIoTCloudTCP -- update()/handleMessage() --> ArduinoCloudDevice
       ^                       |   ^    |                                        |  TimedAttempt
       | CONNECT, DISCONNECT   |   |    +----- update()/handleMessage() --> ArduinoCloudThing
       +-----------------------+   |                                             |  TimedAttempt
                                   |                            PropertyContainer, TimeService
                       MQTT client: poll() -> handleMessage()
                                   |
                                 broker, cloud

| component | state it keeps | operations | what makes it correct |
|---|---|---|---|
| `ArduinoIoTCloudTCP` | connection state, thing id, topics, retry timer, MQTT session | five state handlers, `handleMessage` with one case per command, `attachThing`, `detachThing`, `sendMessage` | subscriptions, attachment and the callbacks agree after every failure; every session starts fresh; it always comes back |
| `ArduinoCloudDevice` | `_state`, `_attached`, `_registered`, timer | `update`, `handleMessage` | bounded requests; an answer to any of them attaches |
| `ArduinoCloudThing` | `_state`, timer, time zone pair, properties | `update`, `handleMessage` | no publishing before the last values arrived; the zone configured is the local one, if it is valid |
| `TimedAttempt` | count, delay, tick | `begin`, `retry`, `reconfigure`, `isExpired` | growing bounded pause; exact over the wrap of `millis()` |
| `Property`, `PropertyContainer` | local and cloud copy, time stamps, update policy flags | update, echo, append, merge of last values | the right side wins; every change is sent once |
| `CBOREncoder` | index of the next property | resumable encoding into bounded messages | no property is starved, an oversized one blocks nobody |
| `CBORDecoder` | map entry under construction | grouping of entries into properties | fields never leak from one property to the next |
| OTA process | state, download context, policy flags | update offer, approval, chunked download, report, reset | one report per failure, back to Idle, memory released, approval used once |
| `TimeService` | time zone, last sync | `getTime`, `sync`, `setTimeZoneData` | resynchronises, rejects invalid times |
| LZSS decoder | token state, bits left over, window | resumable `decompress` | the result does not depend on how the input is cut; no file leads it out of its buffers |
| `CloudSchedule` | start, end, duration, mask | `isActive` | agrees with the calendar |
| `ArduinoIoTCloudNotecard` | connection state, thing id, interrupt flag, poll time | four state handlers, one note per `update()`, `handleMessage` | as `ArduinoIoTCloudTCP`, although notes outlive a session; every note is read |
| `ArduinoIoTCloudLPWAN` | connection state, retry settings | one turn of decode, encode, write with retries | a repeated or lost message never leaves the two sides apart for good |

Hard behaviours: a connection that drops at any point of `update()`, also inside
a subscribe call; answers that are late, repeated, out of order or unasked for; a
command that takes an ordinary step of a state machine before it is applied;
flags and topics that survive from one session into the next; retries that are
spent while the answer is on its way; clock wrap and shift overflow; local and
cloud changes of a property that cross; a message that is packed again after its
properties were already marked; a file that is cut anywhere while it is decoded.
`PROJECT.json` lists each as a hazard at its line.

## 2. What is modelled

| module | models | role |
|---|---|---|
| `AttemptTimer` | what the processes use of `TimedAttempt` | record `[count, expired]`, operators `Begun`, `Retried`, `Reconfigured` |
| `CloudDevice` | `ArduinoCloudDevice` | operators on the process' record, one per handler |
| `CloudThing` | `ArduinoCloudThing` | the same, with the time zone pair |
| `CloudTCP` | `ArduinoIoTCloudTCP`, composing the two | state machine: one action per handler and per command |
| `ThingSession` | what a sketch is promised about attachment | abstract specification, implemented by `CloudTCP` |
| `CloudNotecard` | `ArduinoIoTCloudNotecard`, composing the same two | state machine, with the interrupt |
| `TimedAttempt` | `TimedAttempt` in unsigned arithmetic | state machine with the clock |
| `RetryPause` | the timer that `AttemptTimer` describes | abstract specification, implemented by `TimedAttempt` |
| `Property` | `Property`, `PropertyContainer`, the wrappers, the sync callbacks | operators on the record of a property |
| `CBOREncoder` | `CBOREncoder` | actions on the encoder, one per handler, and on the properties |
| `CBORDecoder` | the grouping of maps in `CBORDecoder` | actions on the decoder and on the properties |
| `PropertySync` | the properties in an attached session, sketch and cloud | state machine, composing the three |
| `CloudLPWAN` | `ArduinoIoTCloudLPWAN` | state machine, composing the same three |
| `PropertyMirror` | what publishing promises | abstract specification, implemented by `PropertySync` and `CloudLPWAN` |
| `OTAProcess` | `OTACloudProcessInterface`, what all boards have in common | state machine without the boards' handlers |
| `OTADefault` | `OTADefaultCloudProcessInterface`, the server, and the OTA calls of `ArduinoIoTCloudTCP` | extends `OTAProcess` to a whole |
| `LZSSEncoder` | the compressor, `extras/tools/lzss.c` | operators: the tokens of a text and the words of a file |
| `LZSSDecoder` | `LZSSDecoder` | state machine, reading what `LZSSEncoder` wrote, or anything |
| `MCCloudTCP`, `MCCloudTCPLive`, `MCTimedAttempt`, `MCPropertySync`, `MCPropertyLive`, `MCNotecard`, `MCLPWAN`, `MCLZSS` | constants, symmetry, fairness and history for TLC | |
| `CloudProcesses_proofs` | lemmas on `CloudDevice` and `CloudThing` | shared by the two modules after it |
| `CloudTCP_proofs`, `CloudNotecard_proofs`, `TimedAttempt_proofs`, `PropertySync_proofs`, `CloudLPWAN_proofs`, `OTADefault_proofs`, `LZSSDecoder_proofs` | theorems | |

### Sessions: `CloudTCP`

The device and thing processes are only ever called synchronously by their owner,
so they are operators on records, not state machines of their own: `DeviceHandle`
and `ThingHandle` are `handleMessage`, and `update()` is `handleMessage(nullptr)`,
the command `"Update"`. As in the code, a command first takes one ordinary step
of the state machine (`DeviceRun`, `ThingRun`) and then overrides the state
(`DeviceEvent`, `ThingEvent`).

How `CloudTCP` corresponds to the code:

| variable | code |
|---|---|
| `state` | `_state` |
| `polling` | inside `_mqttClient.poll()`, called by `handle_Connected` (TCP:305) |
| `attempt` | `_connection_attempt`; the count only sets the length of the pause, so whether it is 0 is enough |
| `linkUp`, `listening`, `subs` | the MQTT connection, and the broker's subscriptions to the command topic and to data topics |
| `thingId` | `_thing_id` |
| `topic` | the thing `_dataTopicIn` was computed for |
| `dev`, `thing` | `_device`, `_thing` |
| `zone` | what `TimeService` was configured with |
| `event` | the last CONNECT or DISCONNECT callback |

Actions: `ConnectPhy`, `SyncTime`, `BrokerAccepts` / `BrokerRefuses`
(`handle_ConnectMqttBroker`), `LeaveConnected`, `BeginPoll` and `EndPoll`
(`handle_Connected`), `Disconnect`. `handle_Connected` is cut in two where the
library calls back: between `BeginPoll` and `EndPoll` any number of messages is
handled, each one a whole `handleMessage` call, `NoThingAssigned`,
`ThingAssigned`, `ThingDetach`, `Timezone`, `LastValuesUpdate`, `ZoneProperty`. The
nested calls (`detachThing` and then `attachThing` of a move to another thing, each of
which may fail) are part of one action. The environment: `LinkLost` and the three
`...PauseEnds`.

Abstractions and assumptions:

- *Attaching and detaching* are one step each. Should the library's subscribe and
  unsubscribe calls poll and so call `handleMessage` back before they return, that
  command is not seen to come between them and what follows in `attachThing`.
- *MQTT client* (external). A subscribe or unsubscribe call is acknowledged
  (`"ok"`), has no effect (`"refused"`), or closes the connection (`"closed"`).
  Sessions are clean: a broken connection has no subscriptions. The result of the
  subscription to the command topic is ignored by the code (TCP:282), so
  `BrokerAccepts(FALSE)` is a session that hears no command.
- *Cloud* (external). In the safety runs and the proofs it may send any command,
  for any thing, at any time while the command topic is subscribed; so lost,
  late, repeated and reordered answers are ordinary behaviours. Sending a message
  has no effect on the board (QoS 0, result ignored), and is left out.
- *Time*. A pause ends at any time after it began. `TimedAttempt`, where the clock
  is explicit, is shown to implement that. Whether the local time zone has expired
  when `handleConnected` looks is a choice (`LateChoices`), except with an expiry that
  is not valid, which is always past.
- *Zones*. A zone is an offset and an expiry (`Zones`, every one of either with every
  one of the other): they are two properties, and a message that holds one of them
  leaves it with an older value of the other. They are write-on-demand, so a message
  sets the cloud's copy and `handleConnected` takes it over. `setTimeZoneData` ignores
  a pair of which either half is out of range (`ValidZone`: not between -12 and +14
  hours, not after the time of compilation), the initial pair 0, 0 among them.
  `ZoneConfigured` therefore says that `TimeService` has the local zone *whenever
  `TimeService` accepts it*; after a pair that it does not, it stays on the zone before,
  and after half of a pair it has the mix, as the code does.
- *Attachment*. After a Reset, `_attached` keeps the old session's value until the
  next step in Init clears it. `IsAttached` is the flag outside Init: what is
  true of the current session. `dev.attached` stays in the model, since
  `handleMessage` reads the flag itself.

### The retry timer: `TimedAttempt`

`TimedAttempt` has `Word` for 2^32, so that wrap-around of the clock and overflow of
the shift happen in small instances. `armed` and `elapsed` are history.

### Sessions over a Notecard: `CloudNotecard`

`dev`, `thing`, `zone`, `thingId` and `event` are those of `CloudTCP`. The others:

| variable | code |
|---|---|
| `state` | `_state` |
| `step` | how far the running call of `handle_Connected` is |
| `linkUp` | `connected()` |
| `interrupts`, `flag` | `_interrupt_pin` was given; `_data_available` |
| `due` | the polling interval, or with a pin the failsafe interval, is over |
| `pin`, `sample` | the level of the pin, and what was read of it but not stored yet |
| `waiting`, `tail`, `inHand` | notes in the Notecard; the rest of a long one; what `available()` found |

A call of `handle_Connected` is cut where the interrupt handler can matter:
`AskNotecard` (`available()`), `SamplePin` and `StoreFlag` (the two halves of
`_data_available = digitalRead(...)`, Notecard:258), the handling of the note, one
action for each command, and `EndUpdate` (the steps of the processes). `NoteArrives`
may come between any two of them, and with it the interrupt. Without anything to
read `SkipNotecard` goes on to `EndUpdate`.

- *Notes* (external). What a note says is chosen when it is handled, so the cloud
  may have sent anything, in any order, in this session or an earlier one. The pin
  stays up while notes wait and may drop when none is left.
- *Long notes.* A note longer than the buffer, and at most twice as long, is read in
  two parts: no command can be decoded from the first, but telemetry as far as it
  goes; the second is no message.
- `_connection_attempt` is begun but never retried (Notecard:155, 223), so its pause
  is never in force and `ConnectPhy` has none.
- Attaching cannot fail: there is nothing to subscribe to. Otherwise the commands do
  what they do in `CloudTCP`. `CloudNotecard` is not shown to implement `ThingSession`,
  which is about subscriptions: the answer "no thing" leaves an attached board
  attached under no identifier.
- The OTA calls (those of `CloudTCP`, in `OTADefault`) and the encoding of outgoing
  messages are left out.

### Properties: `Property`, `CBOREncoder`, `CBORDecoder`, `PropertySync`

| variable | code |
|---|---|
| `prop` | the properties: the variable of the sketch, the wrapper's `_cloud_value`, and the flags and time stamps of `Property` |
| `enc` | state and counters of `CBOREncoder`; `index` is `current_property_index`, which the thing keeps from one message to the next; `message` and `payload` are the content of the buffer |
| `dec` | the maps of a message not used yet, and what was collected for a property |
| `thing` | the two states of `ArduinoCloudThing` that matter here, RequestLastValues and Connected |
| `remote` | what the cloud holds: values, and the times of their last changes |
| `data`, `answers` | messages under way: changes, and answers to LastValuesBegin, each of which is all the cloud held |
| `clock` | `getTime()` |
| `lost`, `overtaken` | history, see below |

Each handler of the encoder's state machine is an action; `TryAppend` is a pass of the
loop, in four (passed over, appended, does not fit, end). `LeaveMap` and
`LeaveLastMap` are `handle_LeaveMap`, where a property is complete and
`updateProperty` is called. `Update` is `handleConnected` of the thing process up to
`encode()`, `SendMessage` is `write()`; `LastValuesDone` tells the process that the
last values arrived, `DataArrives` and `LastValuesArrive` hand a message to the
decoder.

- *Calls.* The sketch, the cloud and the network act between two calls of the
  library (`Idle`). What happens in the cloud during a call has the effect it would
  have just before it, as the board looks at its input once. Callbacks of the sketch
  run within a call and may write any value (`edits`).
- *Time.* `due` says that the time between two updates of a property is over.
  `millis()` is read again when a message is packed again, so `Elapse` may come there too.
- *Sizes.* `Size[p][v]` are the bytes of the attributes of `p`; properties with several
  attributes (`Split`) report CborErrorSplitItems instead of CborErrorOutOfMemory.
  The light payload and the identifiers change the sizes only.
- *Attributes* of a property are one value: they are written and read together.
- `requested` is set for properties published on demand only: nobody reads it of
  others. So `Push` changes nothing in `property_sync`, which has no such property;
  `property_live` and `lpwan` have one each, and check that what was pushed is published. `minDelta` is there for numbers; other types have 0.
- *Messages* of the cloud have one map per property for changes, and all properties
  for last values, each with its name and its value under the key that the property
  reads. Malformed messages and maps without a name are left out, as are properties
  with their attributes in several maps and values that a map leaves as the one
  before set them; the states that read one key or one value are abstracted to the
  map they fill.
- *Times* of changes. A map may have a base time, a time, both or neither (`Keys`).
  `map_data` is one variable for the whole message (Decoder:38) and is never reset, so
  `dec.base` and `dec.mapTime` go on from map to map; the time of a property is their
  sum. What the cloud says is not wrong (`Honest`): where a map names a time, or is
  under a base time, as SenML defines it, the sum is when its property changed. Where
  it says nothing, the board gives the change whatever the map before left behind. So
  `EventTimesAreOwn` is about the changes whose map names a time (`dec.told` is
  history); of the others it would be false (section 4). How a message is put into maps
  is chosen when it arrives: nobody looks at it before.
- *`lost`*: properties in a message that was written and did not arrive. The code
  cannot know (QoS 0, result ignored), and they are published again when something
  else asks for it. *`overtaken`*: properties that last values, sent before the
  board's publication arrived, set to something older than what the cloud holds by
  now. Both are cleared when the property is next published or received. The
  properties excuse these two and nothing else.

`PropertyMirror` has the values on both sides and whether a message is ready to be
published. A publication takes some of the readable properties to the values the
board has *at that moment*, whatever was packed, trimmed and packed again before.

### Properties over a radio network: `CloudLPWAN`

`prop`, `enc` and `dec` as above; `remote` holds values only, since without last
values no time stamp decides anything (`Now`). `state` and `link` are the connection;
`tries` are the retries `writeProperties` has made, `arrived` whether one of the tries
reached the cloud. `BeginTurn(k)` is `handle_Connected` with `k` changes to be decoded,
in one message; the encoder's actions follow; `WriteFails` is a `write()` that reports a
failure, `WriteEnds` one that does not, or the last. Each of them may have reached the
cloud or not. The wait before a retry is the only point within a turn where the
surroundings are seen to act. `lost` also holds properties whose change by the cloud
was lost on the way (`DataLost`).

### Updates over the air: `OTAProcess`, `OTADefault`

How `OTADefault` corresponds to the code:

| variable | code |
|---|---|
| `state`, `previous` | `state`, `previous_state` of `OTACloudProcessInterface` |
| `job` | `context` of the base class: the update going on |
| `mustApprove`, `approved` | the two flags of `policies` |
| `download` | `context` of the derived class: state, bytes of the header, of the file, in the checksum, stored |
| `http` | `http_client` exists |
| `server` | the connection: bytes that arrived, bytes to come, `contentLength()`, and what the file is worth |
| `consent`, `entered`, `reported`, `fault` | history |

Actions: one per state handler and outcome (`Resume`, `OtaBegin`, `IdleAlone`,
`IdleOffered`, `OtaAvailable`, four of `startOTA`, four of `fetch`, `FlashOTA`,
`Reboot`, `FailAndReset`). `Call` is the rest of `handleMessage`: it reports the state
if that is news, and changes it. `update()` (in `handle_Connected`, after asking for
the approval) and an offer (in `poll()`, without asking) both are a call of
`handleMessage`, so an offer outside Idle takes an ordinary step and is lost. The
sketch may set or remove its approval callback at any time. The server sends any
number of bytes at a time or closes.

- *Loop of `fetch()`*. A call runs its loop for up to two seconds. An action is one pass
  of it; a call of several passes changes the state as that many calls of one pass
  do, since only the first of them has anything to report.
- *Bytes* are counted. A file is good, damaged (its checksum fails) or foreign (the
  magic number fails). The checksum is right if it was computed over the whole good
  file. The LZSS decoder (a model of its own) is the assumption that a byte of input is
  stored or is not.
- *Header*. `parseOta` copies as many bytes as a header has from each block until the
  count is exact. If it overshoots, other fields of the context are overwritten: the
  phase `"Corrupt"`, after which `fetch()` may return anything.
- *`FirstBurst`*: bytes that are there, at least, when the first arrive. Above
  `HeaderSize` it says that the header never comes alone or split; the code relies
  on that, see section 4.
- *Server* (external). It may send one byte too many. Bytes that were not read when
  the connection closes are lost, and count as a fault.
- *Boards*. `STM32H7` supplies `flashOTA`, `reboot` and the storage; the other boards'
  classes differ in the flash driver and in which failure code they return, and one
  code stands for each place. The SAMD and UNO R4 boards, where the network module
  downloads the file, are not modelled. Progress reports (every ten seconds inside
  `parseOta`) and time stamps of reports are left out: `reported` counts the reports
  of states.

### The LZSS decoder: `LZSSEncoder`, `LZSSDecoder`

A file is what the compressor writes for a text (`GoodFile`), or any sequence of words
(`BadFile`): it is decoded while it arrives, before its checksum is known.

| variable | code |
|---|---|
| `text`, `tokens`, `intact` | the text, what the compressor made of it, and whether the file is that |
| `input`, `available`, `running` | words that did not arrive yet, words of the block not read yet, `decompress()` runs |
| `state` | `FSM_STATES`; `"Copy"` is the loop of FSM_3 |
| `buf`, `size` | `buf`, `buf_size`: bits read and not used |
| `i`, `left`, `r`, `window` | the match, how much of it is to be copied, the place of the next character, `buffer` |
| `out` | what was given to `put_char_cbk` |

Actions: `Decompress(n)` a call with `n` words, `GetWord` and `BufferEmpty` the two
outcomes of `getbit` that finds too few bits, `Flag`, `PutLiteral`, `Position`, `Length`
and `Copy` the states. The compressor is an operator: history, longest and nearest
match, bits, words. A word has `W` bits (8), a position `EI` (11), a length `EJ` (4).
Powers of two are a table (`Pow2`): the exponent operator is of no use in proofs.

- `buf` is not initialised by the constructor (`lzss.h`:87): 0 or not 0.
- The last `F` places of the window are not initialised either: `Junk`.
- Reading through a callback, which the library does not use, is left out.

## 3. Runs

| run | checks | instance |
|---|---|---|
| `cloud_safety` | `TypeOK`, `FreshSession`, `SubscriptionMatchesAttachment`, `SketchKnowsAttachment`, `ZoneConfigured`, `PublishAfterSync`, `ImplementsThingSession` | 2 things, 2 offsets, one of them out of range, with 3 expiries, one of them not valid, 2 device and 1 sync retries; 1,060,089 states |
| `cloud_live` | `EventuallySynced`, `DeafSessionEnds` | 2 things, 1 offset, 2 expiries, one of them not valid, 1 retry each, 2 faults; 71,541 states |
| `notecard` | `TypeOK`, `FreshSession`, `SketchKnowsAttachment`, `ZoneConfigured`, `PublishAfterSync`, `NotesAreRead` | 2 things, 1 offset, 2 expiries as in `cloud_live`, 1 device and no sync retry, 2 notes waiting; 736,519 states |
| `timed_attempt` | `TypeOK`, `ExpiresOnTime`, `PauseGrows`, `ImplementsRetryPause` | clock of 5 bits, 4 retries, delays that reach their maximum; 10,304 states |
| `property_sync` | `TypeOK`, `NoChangeForgotten`, `EventTimesAreOwn`, `ImplementsMirror` | a number the cloud sets and a switch, buffer for one property and a bit, 2 answers, 1 loss, maps with and without a time; 2,413,450 states |
| `property_live` | `NoChangeForgotten`, `Converges`, `NotStarved` | 3 properties, one published on demand, one too long for any message; 80,932 states |
| `lpwan` | `TypeOK`, `NoChangeForgotten`, `ImplementsMirror`, `Converges` | a switch and a measurement on demand, a message for each, 2 retries, 1 loss; 120,776 states |
| `ota_download` | `TypeOK`, `ReportedOnce`, `HoldsWhatItUses`, `FlashOnlyVerified`, `FailureHasCause`, `ApprovedEachTime`, `UpdateEnds` | 2 updates, header of 2, buffer of 3, files of 5 and 7 bytes; 3,280 states |
| `lzss` | `TypeOK`, `DecodesText`, `NothingWithheld` | words of 2 bits, window of 8, matches up to 3, all texts up to 5 letters of 3 or 10 of 2, all bad files up to 5 words; 353,383 states |
| `ota_header_alone`, `encoder_blocked`, `pause_overflow` | one property each, violated | see section 4 |

What they show: `cloud_*` and `notecard`, that subscriptions, attachment, zones and the
sketch's view of them agree over every order of commands, failures and reconnections,
and that the board comes back; `property_*` and `lpwan`, that no difference between
board and cloud is forgotten, that only present values are published, and that both
sides come to agree once nothing changes any more; `ota_download` and `lzss`, that a
file is decoded and flashed only as what it was, however the network cuts it.

*Bounds.* Two things are the fewest with a move from one to another, a detach for
the wrong one and a stale topic of another. Two valid zones (two expiries) are the
fewest with a local value, a cloud copy and a configured zone that disagree; the
offset out of range and the expiry that is not valid make pairs that `TimeService`
ignores for either half, or both. The code allows 10
retries of either kind; what matters is the step from the last retry that is left to
none, and (for the device) a retry that is neither first nor last. The run of
`cloud_safety` uses symmetry over things and over valid expiries, which no action or
property tells apart; `cloud_live` uses none. The proofs need none of these bounds.
`timed_attempt` bounds the ticks between two arming calls by `MaxIdle < Word`: if
nobody looked at an armed timer for 2^32 ms, `isExpired` would become false again.
Only the timer of an attached board is idle that long, and nobody reads it.

In `ota_download` a file takes two or three blocks, full or not, so a block can hold
the header and a first part, a part only, or the end with a byte too many; two
updates make one that follows another. Any number of updates is tried one after the
other. The reports need no bound: their counts start again with each update, which
goes through five states at most.

In `property_sync` a message has room for the switch alone, or is filled to its last
byte by the larger value, so every way a message is trimmed happens; two answers are
the fewest with a late or repeated one, one change and one loss are enough for every
pair of crossing changes. `property_live` has the two kinds of property that do not fit
and one after them that must not wait for ever. The clock has two values in
`property_sync`, which is enough for a time before and one after, and one in the
others, which have no properties that depend on it. Maps without a time are in
`property_sync` only. Base times are in no run, which would be several times as large:
the proof of `EventTimesAreOwn` has them, and so had a check of two properties, times 0
to 2, and maps with every set of time keys, before it was proved. In `lpwan` two retries make one
that is neither first nor last. In `notecard` two notes are the fewest with one that
arrives while another is read; no sync retry is enough, as the count of the thing
process is the subject of `cloud_safety`. In `lzss` the texts go past the end of the window of 8; matches
overlap what they write (a run of one letter), cross its end, and reach their longest;
a token ends at any bit of a word. Deadlock is not checked there: a file ends.

*Fairness* (`property_live`, `lpwan`). `loop()` goes on: the steps within a call are
weakly fair. A turn, the arrival of what is under way, the passing of time and (for
LPWAN) the return of the link are strongly fair: each of them is possible between two calls only and is
not for ever put off there, but no one of them is continuously possible. The
surroundings may leave off for good (`calm`): then the sketch, its callbacks, users and
losses change nothing any more, and the two sides have to come to agree. Nothing
obliges them to leave off.

*Fairness* (`notecard`). Weak fairness of `update()` and of the handling of a note, and
strong fairness of the failsafe interval, which ends between two calls. Nothing is asked of
the Notecard: that a note is read although its interrupt was forgotten is what
`NotesAreRead` says.

*Fairness* (`ota_download`). Weak fairness of `update()`, as the board is connected
often enough, and of the server: `fetch()` has no timeout, so a connection that
stays open and silent would stall the update for ever.

*Fairness* (`cloud_live`). `loop()` calls `update()` for ever and `millis()`
advances: weak fairness of the handlers and of the pauses' ends. Time
synchronisation, the broker and the cloud's answers are outside the board's
control: strong fairness, that is, tried again and again they succeed some time
(`SyncTime(TRUE)`, `BrokerAccepts(TRUE)`, `ThingAnswer`, `ValuesAnswer`). `ThingAnswer` is
only assumed to come *in time*: the code attaches a board whose last answer
arrives when all retries are spent, and disconnects it in the next `update()`
(Device:125), so if every answer were that late the board would never stay
attached. Without faults the cloud only answers requests. A fault is a lost
connection, a command nobody asked for, a refused subscription or a zone that runs
out, and there are at most `MaxFaults` of them, at any point; failures to connect
are unlimited. The limit is needed since a cloud that detaches the board for ever
keeps it detached.

## 4. Where the code and its comments or tests disagree

- `ota_header_alone`: "whene the download is correctly finished we set the mcu to use
  the newly downloaded binary" (`ota/interface/OTAInterface.h`:122); if the first
  read returns the header and nothing else, its bytes are never added to
  `downloadedSize` (OTADefault:168-183, 196), which then never equals
  `contentLength` (206): a good, complete file is not flashed.
- `encoder_blocked`: "Better to skip this property otherwise we will stay blocked here.
  This happens only with a message property that doesn't fit into the CBOR buffer"
  (Encoder:140-142); a property of *several* attributes that is too long for an empty message
  takes the way of `TrimAppend`, which ends in Error with the index unchanged
  (149-157): every later message begins with the same property, and no property is
  published any more.
- `pause_overflow`: "2s -> 4s -> 8s -> 16s -> 32s -> 32s ..." (TCP:288, and the test
  of `TimedAttempt` up to 100,000 retries); with a 32-bit `unsigned long` the
  doubled pause is 0 from the 29th retry on. The run counts in units of 8 ms, so that
  2^32 ms fit TLC's integers: 1000 ms are 125 units, `Word` is 2^29.

Seen in the models, against a comment or a log message, without a run of their own:

- a `ThingDetach` for another thing, or for a board that is not attached, is logged
  as "thing detach rejected" and then carried out: the `if` has no return or else
  (TCP:413, and the same in `CloudNotecard`);
- a `Timezone` command that arrives while the process is in Connected is overwritten
  by the cloud's older copy, in the ordinary step that runs first (Thing:161-165),
  before "We have received a timezone update" (97-99);
- "If no data is received within a certain number of retry-requests it's a better
  strategy to disconnect" (Thing:126-129): answered requests count too, as the count
  is not reset between two expiries of the zone;
- "Do not increase counter, but recompute delay" (Device:131-132): the counter is
  increased by the next handler (117);
- "Reset current property data" (Decoder:308), before the next property is collected:
  the two times are set to 0, but set again a few lines later (314-319) from `map_data`,
  which is declared once for the message (38). A property whose map has no time is given
  the time of the property before it, and its value in an answer to LastValuesBegin may
  count as newer than a later change by the sketch, while "the most recent value between
  the local one and the cloud one" is meant to win (`test_callback.cpp`:133). The
  repository's tests have maps without a time (`test_callback.cpp`:222), after another of
  the same property;
- the first flag of an LZSS file is read together with what an uninitialised `buf`
  held (`lzss.h`:87, LZSS:135-140): a file that began with a match would be decoded as a
  literal. The compressor writes such a file only for a text that begins with two
  blanks (`CleanStart`).

Behaviours that the model shows and nothing in the repository promises otherwise
(hazards with a note): the thing process is not reset by a detach or a move, so it
does not ask for the last values of the new thing; `Timezone` and `LastValuesUpdate`
drive it while no thing is attached; a repeated `LastValuesUpdate` is taken as the
answer to the next request, and may set back what was published since (`overtaken`);
an unsubscription that fails drops the new assignment; the answer "no thing" to an
attached board clears `_thing_id` but leaves it attached; `handle_Disconnect` runs an
ordinary step of both processes on a dead connection, and what it publishes counts
as sent; the flag that would retransmit the last message is never set (TCP:310); an
offer outside Idle is dropped without a report (OTA:148); a change by the sketch is
stamped at every turn as long as the value differs from the declared one, so it wins
over a change the cloud made while the board was away (Container:106).

## 5. Proofs

`CloudTCP_proofs`, for all sets of things, offsets and expiries, whichever of them are
valid, and all retry limits:

- `InvHolds`: `Spec => []Inv`. From it `TypeOKHolds`, `FreshSessionHolds`,
  `SubscriptionHolds`, `SketchKnowsHolds`, `ZoneHolds`.
- `PublishAfterSyncHolds`, an action property, from the same invariant.
- `Refinement`: `Spec => ImplementsThingSession`.

Assumptions: `NoThing` is no thing, `NoZone` is no zone, the offset 0 is valid and the
expiry 0 is not, the limits are naturals.

The invariant `Inv`, and why each part is there:

- `TypeOK`, which bounds the retry counts at limit + 1, is only inductive with
  `RetryLeft`: the device process is in SendCapabilities only while the count is
  within the limit, so the increment there keeps it in bounds.
- `PollsWhenConnected`: messages are handled in state Connected only; the
  handlers of the connecting states find no poll in progress.
- `AttachedToThing`: the topic of an attached board is that of a thing, not
  the initial one; without it `{topic}` would not be a set of things.
- `FreshSession`: needed by the others, as a new session clears the subscriptions
  and starts with `dev.state = "Init"`, where the stale flag does not count.
- `SubscriptionMatchesAttachment`, `SketchKnowsAttachment`, `ZoneConfigured`.

The lemmas on `DeviceRun`, `DeviceHandle` and `ThingHandle`, in `CloudProcesses_proofs`, say what one call leaves:
its ordinary step leaves Init, and its flag then tells what `IsAttached` told before.
One step lemma per action follows. `Inv` was checked by TLC, as an invariant and
without symmetry, before it was proved. For the refinement, `session` is computed
from `state` and `linkUp`: opening, breaking and closing map to `BrokerAccepts`,
`LinkLost` (or a call that closes the connection) and `Disconnect`; attaching, moving
and leaving to `ThingAssigned` and `ThingDetach`; all the rest stutters.

`TimedAttempt_proofs`, for every word size, all delays and bounds:

- `TypeOKHolds`, which bounds the pause by the maximum, overflow or not;
  `ExpiresOnTimeHolds`, from the invariant that an armed timer's
  `Minus(now, retryTick)` *is* the number of ticks since it was armed.
- `Refinement`: `Spec => ImplementsRetryPause`: the two abstractions of time used by
  `CloudTCP` (a pause begins unexpired, ends once) are what the class does, also when
  the shift overflows. A timer that was never armed maps to one whose pause is over:
  `isExpired()` of such a timer is false only in the millisecond in which `millis()`
  is 0, which `CloudTCP` does not tell apart.
- `PauseGrowsHolds`, under the hypothesis `NoOverflow`: none of the first `MaxRetries`
  doublings of a minimum leaves the word. The attachment and the synchronisation,
  which give up after 11 retries from at most 200 s (a registered Notecard), satisfy it
  in 32 bits; the reconnection does for 22 retries from 1000 ms, and it
  never gives up. The lemma `ShiftedNext` is the heart of it: a shift by one place
  more is one doubling more, modulo the word. The hypothesis is sufficient, not
  necessary: of the two pairs of the run, 1 and 6 satisfies it; 3 and 12 does not, but
  the overflowed product is still above the maximum.

`OTADefault_proofs`, for every size of header, buffer, files and first burst:

- `InvHolds`: `Spec => []Inv`, and from it `TypeOKHolds`, `ReportedOnceHolds`,
  `HoldsWhatItUsesHolds` and, for the step into StartOTA, `ApprovedEachTimeHolds`.
  `Inv` adds one part to the properties, `NothingApproved`: an approval never
  outlives the call it was given for, so `otaAvailable` cannot find an old one.
- `FlashOnlyVerifiedHolds` and `FailureHasCauseHolds`, both under the hypothesis
  `FirstBurst > HeaderSize` (without it the run `ota_header_alone` refutes the
  second). The invariant is `Sound`: the two properties, and `Progress` while a file
  is fetched. `Progress` keeps the books: what was counted, what waits to be read and
  what is still to come add up to what the server sends; what was counted equals
  what the checksum covers, and header plus stored bytes; and a connection that is
  gone, or a file that is not the announced one, is a fault. `BlockParsed` shows of
  `parseOta` that one block moves these counts together; the lemmas after it take
  one action each.

Assumptions: the header is not empty, the buffer is larger than the header, and so
is every file.

`CloudNotecard_proofs`, for all sets of things, offsets and expiries, whichever of them are valid, all retry limits and any
number of notes: `InvHolds`, and from it `TypeOKHolds`, `FreshSessionHolds`,
`SketchKnowsHolds`, `ZoneHolds`, `PublishAfterSyncHolds`. `Inv` has four parts, and most
actions touch one or two, which is what the proof is built on: `Told` (the device
process, the callback, `RetryLeft`), `Zoned` (the thing process and its zone), `Mailed`
(notes and interrupt) and `Placed` (state and step, with `CallsWhenConnected`: a call is
unfinished in Connected only, which makes `FreshSession` inductive).

`PropertySync_proofs`, for any properties, values, sizes, message lengths and bounds:

- `NothingForgotten`: `Spec => []NoChangeForgotten`, with `TypeCorrect`, from the
  invariant `IndInv`;
- `EventTimes`: `Spec => EventTimesAreOwn`, from `IndInv` and `TimesInOrder`;
- `PublishesTheMirror`: `Spec => ImplementsMirror`.

`TimesInOrder` says that no message under way, no map of the one the decoder works on, and
nothing the decoder has collected has a time later than the cloud's last change of its
property. It has the base time that is in force at each map, and the lemma `TailLater` is the step of it: what is in force once
the decoder took in a map is what is in force at the first of the rest.

The parts of `IndInv`: `EncoderCounts` keeps the counters in their ranges (a message
that is trimmed on closing holds a property, so that the limit is not negative);
`MessageCurrent` says that the message holds what board *and* copy have now, without
which publishing it could not bring the cloud's value and the copy together;
`PassedOver`, that a readable property the loop looked at and left out of the message
was not marked, without which `FinishAppend` might unmark one that is not sent;
`OneCall`, that decoder and encoder never run at once; `MapsInOrder`, what messages
look like: last values name every property in turn, a change one the cloud may write;
and `AllAccounted`, which extends `NoChangeForgotten` to the properties that
the decoder has passed while it still works on the last values. Each action of the encoder has a lemma
(`EncoderOutcome`): a copy changes only of a property that is marked, and a mark is
removed only from one that is in the message.

`CloudLPWAN_proofs`, for any properties, values, sizes, message lengths, retries and
bounds:

- `NothingForgotten`: `Spec => []NoChangeForgotten`, with `TypeCorrect`, from the
  invariant `IndInv`;
- `PublishesTheMirror`: `Spec => ImplementsMirror`.

Properties, encoder and decoder are those of `PropertySync`, and so are the lemmas about
them: the module takes them through an INSTANCE of `PropertySync_proofs` whose cloud
stands still. The lemmas `Same...` show that both modules mean the same definitions and
that the assumptions of the instance hold. What is about the radio is in the other parts
of `IndInv`: `TurnInOrder`, that the decoder runs before the encoder, with an empty
message; `Permitted`, that changes under way are of properties the cloud may write
(another would be decoded without effect); and `ArrivedIsKnown`, the reason why a
message that arrived once and is given up later needs no excuse: what it carried is in the cloud, or a
user's change of it, made while the board waited, is still under way. `IndInv` was
checked by TLC, with two changes under way, before it was proved.

`LZSSDecoder_proofs`, for every size of words and tokens, every text, every file and
every way to cut it:

- `TypeOKHolds`: the decoder never leaves its window, its bit buffer has always room for
  a word, and what it puts out are characters. `Inv` adds `Copying` (a match is copied
  from a place and for a length that fit) and `BlockUsed` (a call returns only with its
  block used up). The lemmas before it are arithmetic: the first bits of a number below
  2^size are below 2^n, the rest is below 2^(size - n).
- `DecodesTextHolds` and `NothingWithheldHolds`: of a file that the compressor wrote, what
  was put out is the text so far, and between two calls exactly the tokens that are whole
  in the words that came. Decoder and compressor are inverse to each other, that is,
  across any cut of the file.

The invariant of the latter two, `InStep`, says where the decoder is in a file it knows
only a part of: the words to come are the rest of the file (`InputLeft`); the `size` bits
in `buf` are those of the file that come next (`BufferLeft`); for some `k` the bits
taken and the characters put out are those of the first `k` tokens and of so much of the
next as `state` says (`Decoded`); the window holds the last N - F characters (`WindowIsText`);
what `buf` held at first is gone once a character was put out (`NoJunk`). After the last
token `k` is the number of tokens, and what fills up the last word is read as the
beginning of a match, never as a whole one: this is where `W <= EI + EJ` is needed.
`NoJunk` is where `CleanStart` is needed. A match may overlap what it puts out; each pass of
the copy re-establishes the window one place further, and two positions less than N
apart have different places in it (`OtherPlace`).

Most of the module is about the compressor: that the recursive cut of a text (`Tokens`)
puts each token where the one before ends and stands for the characters there
(`TokensInPlace`), that its bits lie one token after the other (`BitsInPlace`) and word by word
(`WordsInPlace`), and that bits and numbers determine each other (`SameBits`, `AnyBits`). The
provers cannot instantiate an induction rule with a formula; the inductions are made on
sets instead: a set of naturals that has 0 and with each number the next one has them all
(`EveryNumber`, from the well-foundedness of `<` and the theorem `WFMin` of the library). In
the same way a recursive function is shown to satisfy its equation (`SumsAre`, `Flattened`,
`TokensFrom`): the functions that satisfy it up to n exist for every n.

Assumptions: the table is one of powers of two, `n + W - 1` bits fit the bit buffer for
each of the three kinds of read, a word is no longer than a match, the longest match is
shorter than the window, and texts are sequences of words. `DecodingInv` was checked by TLC
on the instance of `lzss` before it was proved.

`CloudProcesses_proofs` holds the lemmas that `CloudTCP_proofs` and
`CloudNotecard_proofs` share.

Only model-checked: the liveness properties (fairness and ENABLED are outside the
proof system's reach), `NotesAreRead` among them; and the violations.

## 6. What is not modelled, and what is left

Not modelled, and not planned: board drivers, TLS (most of the repository's lines are
its vendored BearSSL, tinycbor and cryptography), the watchdog, setters of the base
class; the byte layout of single command messages, which is straight-line
serialisation; debug output.

Left, in the order in which it would be worth doing:

1. `CloudSchedule::isActive` against a calendar, and the resynchronisation in
   `getTime`.
2. The OTA handlers of the boards whose network module downloads the file (SAMD,
   UNO R4), as a second extension of `OTAProcess`.
3. CBOR messages that are not well formed, in `CBORDecoder`.
4. `CloudTCP` with the properties: the move from one thing to another, where the thing
   process is not reset.
