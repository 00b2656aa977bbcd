------------------------------ MODULE Property ------------------------------
(***************************************************************************)
(* Property and PropertyContainer: a variable of the sketch with the       *)
(* library's copy of what the cloud holds, and the flags that decide when  *)
(* it is sent.  Properties are numbered by their place in the container.   *)
(* Every operation is called synchronously, so it is an operator on the    *)
(* record s of one property; modules CBOREncoder and CBORDecoder call them.*)
(***************************************************************************)
EXTENDS Integers, Sequences

CONSTANTS
  N,         \* the number of properties in the container
  Values,    \* the values a property may take
  Traits,    \* how the sketch declared each property
  MaxClock   \* bound on the time that passes (getTime())

Properties == 1 .. N

Times == 0 .. MaxClock

\* The time of a change of the cloud is the sum of a base time and a time.
ChangeTimes == 0 .. 2 * MaxClock

TraitSet ==
  [permission : {"Read", "Write", "ReadWrite"},
   update     : {"OnChange", "TimeInterval", "OnDemand"},
   write      : {"Auto", "Manual"},
   sync       : {"none", "auto", "cloud", "device"},   \* the onSync callback
   primitive  : BOOLEAN,                               \* a CloudWrapper* class
   minDelta   : Nat,
   values     : SUBSET Values,                         \* what its type holds
   start      : Values]

ASSUME PropertyAssumption ==
  /\ N \in Nat \ {0}
  /\ MaxClock \in Nat
  /\ Values \subseteq Nat
  /\ Traits \in [Properties -> TraitSet]
  /\ \A p \in Properties : Traits[p].start \in Traits[p].values

VARIABLE prop  \* the properties

Slots == [value     : Values,   \* the sketch's variable
          cloud     : Values,   \* _cloud_value: the copy of the cloud's value
          once      : BOOLEAN,  \* _has_been_updated_once
          modified  : BOOLEAN,  \* _has_been_modified_in_callback
          appended  : BOOLEAN,  \* _has_been_appended_but_not_sended
          requested : BOOLEAN,  \* _update_requested
          echo      : BOOLEAN,  \* _echo_requested
          due       : BOOLEAN,  \* the time between updates is over
          localTime : Times,    \* _last_local_change_timestamp
          cloudTime : ChangeTimes]  \* _last_cloud_change_timestamp

Declared(p) ==
  [value |-> Traits[p].start, cloud |-> Traits[p].start,
   once |-> FALSE, modified |-> FALSE, appended |-> FALSE,
   requested |-> FALSE, echo |-> FALSE, due |-> FALSE,
   localTime |-> 0, cloudTime |-> 0]

PropertiesBoot == [p \in Properties |-> Declared(p)]

-----------------------------------------------------------------------------
(* What a property is and whether it has to be sent.                       *)

ReadableByCloud(p) == Traits[p].permission \in {"Read", "ReadWrite"}

WriteableByCloud(p) == Traits[p].permission \in {"Write", "ReadWrite"}

Distance(a, b) == IF a < b THEN b - a ELSE a - b

IsDifferentFromCloud(p, s) ==
  s.value # s.cloud /\ Distance(s.value, s.cloud) >= Traits[p].minDelta

\* Flags that force an update, whatever the policy.
Forced(s) == ~s.once \/ s.appended \/ s.modified \/ s.echo

ShouldBeUpdated(p, s) ==
  \/ Forced(s)
  \/ Traits[p].update = "OnChange" /\ s.due /\ IsDifferentFromCloud(p, s)
  \/ Traits[p].update = "TimeInterval" /\ s.due
  \/ Traits[p].update = "OnDemand" /\ s.requested

\* requestUpdate(); the flag is only read, so only kept, for a property that is
\* published on demand.
RequestUpdate(p, s) == [s EXCEPT !.requested = Traits[p].update = "OnDemand"]

-----------------------------------------------------------------------------
(* Towards the cloud.                                                      *)

\* append(), once the attributes fitted into the message.
Append1(s) ==
  [s EXCEPT !.cloud = s.value, !.once = TRUE, !.modified = FALSE,
            !.requested = FALSE, !.echo = FALSE, !.due = FALSE,
            !.appended = TRUE]

AppendCompleted(s) == [s EXCEPT !.appended = FALSE]

\* updateTimestampOnLocallyChangedProperties() on one property: the value is
\* compared with the one the wrapper was constructed with.
StampLocalChange(p, s, now) ==
  IF Traits[p].primitive /\ s.value # Traits[p].start /\ ReadableByCloud(p)
  THEN [s EXCEPT !.localTime = now]
  ELSE s

-----------------------------------------------------------------------------
(* From the cloud.  The sketch's callback may write the variable: edits is *)
(* the set of values it may choose, and each operator returns the set of   *)
(* outcomes.                                                               *)

FromCloudToLocal(s) == [s EXCEPT !.value = s.cloud]

ExecCallbackOnChange(p, s, edits) ==
  {LET t == [s EXCEPT !.value = v]
   IN  [t EXCEPT !.modified = s.modified \/ IsDifferentFromCloud(p, t)] :
     v \in {s.value} \cup (edits \cap Traits[p].values)}

\* The onSync callback: onAutoSync, onForceCloudSync, onForceDeviceSync or none.
ExecCallbackOnSync(p, s, edits) ==
  IF \/ Traits[p].sync = "auto" /\ s.cloudTime > s.localTime
     \/ Traits[p].sync = "cloud" /\ IsDifferentFromCloud(p, s)
  THEN ExecCallbackOnChange(p, FromCloudToLocal(s), edits)
  ELSE {s}

\* Mutant: a change made by the cloud is not confirmed.
ChangesNoEcho(p, s, edits) ==
  ExecCallbackOnChange(
    p, IF Traits[p].write = "Auto" THEN FromCloudToLocal(s) ELSE s, edits)

\* A change made by the cloud: take it over, run the callback, and echo it.
Changes(p, s, edits) ==
  {[t EXCEPT !.echo = TRUE] :
     t \in ExecCallbackOnChange(
             p, IF Traits[p].write = "Auto" THEN FromCloudToLocal(s) ELSE s,
             edits)}

\* updateProperty() on the container props: the possible results.
UpdateProperty(props, p, value, time, sync, edits) ==
  IF ~WriteableByCloud(p)
  THEN {props}
  ELSE LET s == [props[p] EXCEPT !.cloud = value, !.cloudTime = time]
       IN  {[props EXCEPT ![p] = t] :
              t \in IF sync THEN ExecCallbackOnSync(p, s, edits)
                            ELSE Changes(p, s, edits)}
=============================================================================
