----------------------------- MODULE CBORDecoder -----------------------------
(***************************************************************************)
(* CBORDecoder::decode: applies a message of the cloud to the properties.  *)
(* A message is a sequence of maps, each with the name and a value of one  *)
(* attribute, and a base time and a time where it has these keys.  The     *)
(* maps of one property are collected; it is updated when a map of another *)
(* property, or the end of the message, is met.  What the handlers of the  *)
(* keys read is the map at the head of rest, and what they leave in        *)
(* map_data, which is one for the whole message, are base and mapTime; the *)
(* action is handle_LeaveMap, where the map is used.                       *)
(***************************************************************************)
EXTENDS Property

NoName == 0  \* current_property_name is empty

NotSet == -1  \* a map without this key

OptionalTimes == Times \cup {NotSet}

Maps == [name : Properties, value : Values,
         base : OptionalTimes, time : OptionalTimes]

VARIABLE dec

Decoders == [state : {"Idle", "LeaveMap", "Complete"},
             rest  : Seq(Maps),                \* the maps not used yet
             sync  : BOOLEAN,                  \* isSyncMessage
             name  : Properties \cup {NoName}, \* current_property_name
             value : Values,                   \* map_data_list, its last value
             base  : Times,      \* map_data.base_time, current_property_base_time
             time  : Times,      \* current_property_time
             mapTime : Times,    \* map_data.time, 0 before it is set
             told  : BOOLEAN]    \* history: the map of the current property
                                 \* named its time

DecoderBoot ==
  [state |-> "Idle", rest |-> <<>>, sync |-> FALSE, name |-> NoName,
   value |-> Traits[1].start, base |-> 0, time |-> 0, mapTime |-> 0,
   told |-> FALSE]

Decode(message, sync) ==
  [DecoderBoot EXCEPT !.state = "LeaveMap", !.rest = message, !.sync = sync]

-----------------------------------------------------------------------------
\* The map just left belongs to another property than the maps before it.
NextProperty == dec.name # NoName /\ Head(dec.rest).name # dec.name

LaterOf(a, b) == IF a > b THEN a ELSE b

Given(key, before) == IF key = NotSet THEN before ELSE key

\* Mutant: the time collected for a property is not reset for the next one.
CollectedKeepsTime ==
  LET map     == Head(dec.rest)
      mapTime == Given(map.time, dec.mapTime)
  IN  [dec EXCEPT !.rest = Tail(@), !.name = map.name, !.value = map.value,
                  !.base = Given(map.base, @), !.mapTime = mapTime,
                  !.time = LaterOf(mapTime, @), !.told = map.time # NotSet]

\* The decoder after it took in the map.  The time of a property is the latest
\* that map_data had at one of its maps, and map_data is not reset: where a map
\* has no time, it is that of the map before, whichever property that belongs to.
Collected ==
  LET map     == Head(dec.rest)
      mapTime == Given(map.time, dec.mapTime)
  IN  [dec EXCEPT !.rest = Tail(@), !.name = map.name, !.value = map.value,
                  !.base = Given(map.base, @), !.mapTime = mapTime,
                  !.time = LaterOf(mapTime, IF NextProperty THEN 0 ELSE @),
                  !.told = IF NextProperty \/ dec.name = NoName
                           THEN map.time # NotSet
                           ELSE @]

\* The properties after those collected before this map were updated.
UpdatedBefore(edits) ==
  IF NextProperty
  THEN UpdateProperty(prop, dec.name, dec.value, dec.base + dec.time, dec.sync,
                      edits)
  ELSE {prop}

LeaveMap(edits) ==
  /\ dec.state = "LeaveMap" /\ Len(dec.rest) > 1
  /\ prop' \in UpdatedBefore(edits)
  /\ dec' = Collected

\* The last map of the message updates its own property too.
LeaveLastMap(edits) ==
  /\ dec.state = "LeaveMap" /\ Len(dec.rest) = 1
  /\ \E props \in UpdatedBefore(edits) :
       prop' \in UpdateProperty(props, Collected.name, Collected.value,
                                Collected.base + Collected.time, dec.sync,
                                edits)
  /\ dec' = IF dec.sync THEN [DecoderBoot EXCEPT !.state = "Complete"]
                         ELSE DecoderBoot

\* The properties that leaving the map at the head of rest updates.
UpdatedNow ==
  {p \in Properties :
     /\ WriteableByCloud(p)
     /\ \/ NextProperty /\ p = dec.name
        \/ Len(dec.rest) = 1 /\ p = Head(dec.rest).name}

\* p, which leaving the map updates, was given a time by a map of its own.
TimeNamed(p) ==
  IF p = Head(dec.rest).name THEN Collected.told ELSE dec.told
=============================================================================
