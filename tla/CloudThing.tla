----------------------------- MODULE CloudThing -----------------------------
(***************************************************************************)
(* ArduinoCloudThing: the process that asks the cloud for the last values  *)
(* of the thing's properties and then keeps the properties synchronised.   *)
(* Like the device process it is driven synchronously: t below is its      *)
(* state.  The properties are modelled elsewhere, except tz_offset and     *)
(* tz_dst_until, which steer the process: together they are a zone, kept   *)
(* as the local value and as the value last known to the cloud.  They are  *)
(* two properties, and a message may hold one of them without the other.   *)
(***************************************************************************)
EXTENDS AttemptTimer

CONSTANTS MaxSyncRetry,  \* AIOT_CONFIG_LASTVALUES_SYNC_MAX_RETRY_CNT
          Offsets,       \* values of tz_offset
          ValidOffsets,  \* those that isTimeZoneOffsetValid() accepts
          UtcOffset,     \* 0, the first of them
          Expiries,      \* values of tz_dst_until
          ValidExpiries, \* those that isTimeValid() accepts
          NoExpiry,      \* 0, which it does not
          NoZone         \* TimeService has no zone yet

ASSUME ThingAssumption == MaxSyncRetry \in Nat
ASSUME OffsetsAssumption == ValidOffsets \subseteq Offsets /\ UtcOffset \in ValidOffsets
ASSUME ExpiriesAssumption ==
  ValidExpiries \subseteq Expiries /\ NoExpiry \in Expiries \ ValidExpiries

ThingStates == {"Disconnect", "Init", "RequestLastValues", "Connected"}

ThingCommands == {"Update", "LastValuesUpdate", "Timezone", "Reset"}

\* Every offset comes with every expiry: a message that holds one of the two
\* leaves it with an older value of the other.
Zones == [offset : Offsets, until : Expiries]

ASSUME NoZoneAssumption == NoZone \notin Zones

\* Of the zones, those that TimeService takes.
ValidZone(z) == z.offset \in ValidOffsets /\ z.until \in ValidExpiries

\* What TimeService may be configured with.
AnyZone == Zones \cup {NoZone}

ThingProcesses == [state     : ThingStates,
                   attempt   : Attempts(MaxSyncRetry + 1),
                   localZone : Zones,
                   cloudZone : Zones]

ZoneBoot == [offset |-> UtcOffset, until |-> NoExpiry]

ThingBoot == [state |-> "Init", attempt |-> Begun,
              localZone |-> ZoneBoot, cloudZone |-> ZoneBoot]

-----------------------------------------------------------------------------
(* The state machine.  late says that getTime() is past the expiry of the  *)
(* local zone when handleConnected looks at it.                            *)

ThingInit(t) == [t EXCEPT !.state = "RequestLastValues", !.attempt = Begun]

\* A new LastValuesBegin is due: the first one, or the pause is over.
RequestDue(t) == ~IsRetry(t.attempt) \/ t.attempt.expired

ThingRequestLastValues(t) ==
  IF ~RequestDue(t)
  THEN t
  ELSE IF t.attempt.count > MaxSyncRetry
       THEN [t EXCEPT !.state = "Disconnect"]
       ELSE [t EXCEPT !.attempt = Retried(@)]   \* delivers LastValuesBegin

\* Takes over the cloud's zone, delivers PropertiesUpdate, and asks again when
\* the zone ran out.
ThingConnected(t, late) ==
  [t EXCEPT !.localZone = t.cloudZone,
            !.state = IF late THEN "RequestLastValues" ELSE "Connected"]

ThingRun(t, late) ==
  CASE t.state = "Init"              -> ThingInit(t)
    [] t.state = "RequestLastValues" -> ThingRequestLastValues(t)
    [] t.state = "Connected"         -> ThingConnected(t, late)
    [] t.state = "Disconnect"        -> t

\* late is an input of the Connected state only.  getTime() is always a time that
\* isTimeValid() accepts, so it is past every expiry that it does not accept.
LateChoices(t) ==
  IF t.state # "Connected" THEN {FALSE}
  ELSE IF t.cloudZone.until \notin ValidExpiries THEN {TRUE} ELSE BOOLEAN

-----------------------------------------------------------------------------
(* The event looks at the state the call found, and overrides the state    *)
(* the state machine chose.                                                *)

\* Mutant: last values are accepted in every state.
ThingEventAnyState(found, t, command) ==
  CASE command = "LastValuesUpdate" -> [t EXCEPT !.state = "Connected"]
    [] command = "Reset"            -> [t EXCEPT !.state = "Init"]
    [] OTHER                        -> t

ThingEvent(found, t, command) ==
  CASE command = "LastValuesUpdate" ->
         IF found.state = "RequestLastValues"
         THEN [t EXCEPT !.state = "Connected"]
         ELSE t
    [] command = "Reset" -> [t EXCEPT !.state = "Init"]
    [] OTHER             -> t

\* handleMessage(); update() is handleMessage(nullptr), the command "Update".
ThingHandle(t, command, late) == ThingEvent(t, ThingRun(t, late), command)

\* TimeService::setTimeZoneData(): an offset or an expiry out of range has the
\* whole pair ignored.
SetTimeZoneData(zone, new) == IF ValidZone(new) THEN new ELSE zone

\* Mutant: the zones are compared after the local one was overwritten.
ZoneAfterOverwriting(t, command, late, zone) ==
  IF command = "Timezone"
  THEN SetTimeZoneData(zone, ThingRun(t, late).localZone)
  ELSE zone

\* The zone TimeService holds after the call: handleConnected configures it
\* when a zone property differs from the cloud's, a Timezone event afterwards
\* with whatever the local zone has become.
ZoneAfter(t, command, late, zone) ==
  LET configured == IF t.state = "Connected" /\ t.localZone # t.cloudZone
                    THEN SetTimeZoneData(zone, t.cloudZone)
                    ELSE zone
  IN  IF command = "Timezone"
      THEN SetTimeZoneData(configured, ThingRun(t, late).localZone)
      ELSE configured
=============================================================================
