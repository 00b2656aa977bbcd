--------------------------- MODULE MCPropertyLive ---------------------------
(***************************************************************************)
(* PropertySync with surroundings that may leave off: once calm, the       *)
(* sketch, its callbacks, the users of the cloud and the network do not    *)
(* change anything any more, and the time zone lasts.                      *)
(***************************************************************************)
EXTENDS MCPropertySync

VARIABLE calm

liveVars == <<vars, calm>>

LiveInit == Init /\ calm = FALSE

CalmDown == Idle /\ ~calm /\ calm' = TRUE /\ UNCHANGED vars

Disturb ==
  /\ ~calm
  /\ \/ \E p \in Properties, v \in Values : SketchWrites(p, v)
     \/ \E p \in Properties, v \in Values : CloudChanges(p, v)
     \/ Push
     \/ Reconnect
     \/ Restart
  /\ UNCHANGED calm

LivePass(p) == Elapse(p) /\ UNCHANGED calm

LiveArrives == MessageArrives /\ UNCHANGED calm

LiveTurn ==
  /\ RequestLastValues \/ \E late \in {FALSE, ~calm} : Update(late)
  /\ UNCHANGED calm

LiveWithin ==
  /\ \/ EncodeMessage
     \/ \E arrives \in {TRUE, calm} : SendMessage(arrives)
     \/ DecodeMessage(IF calm THEN {} ELSE Values)
     \/ \E late \in {FALSE, ~calm} : LastValuesDone(late)
  /\ UNCHANGED calm

LiveNext ==
  \/ Disturb
  \/ CalmDown
  \/ \E p \in Properties : LivePass(p)
  \/ LiveArrives
  \/ LiveTurn
  \/ LiveWithin

\* The loop of the sketch goes on: a call runs to its end, every turn polls the
\* MQTT client, which hands over what has arrived, and runs the thing process.
\* Time passes.
Fairness ==
  /\ WF_liveVars(LiveWithin)
  /\ SF_liveVars(LiveArrives)
  /\ SF_liveVars(LiveTurn)
  /\ \A p \in Properties : SF_liveVars(LivePass(p))

LiveSpec == LiveInit /\ [][LiveNext]_liveVars /\ Fairness

-----------------------------------------------------------------------------
\* A message with nothing but p has room for it.
CanBeSent(p) ==
  ReadableByCloud(p) /\ 1 + Size[p][prop[p].value] + 1 <= BufferSize

\* The board and the cloud agree on p, up to its threshold.
Settled(p) ==
  Distance(prop[p].value, remote[p].value) < Traits[p].minDelta
    \/ prop[p].value = remote[p].value

\* When the sketch, the users and the network leave off, what was pushed is
\* published, and the board and the cloud come to agree on every property that is
\* published on change, however their last changes crossed; if a message has room
\* for it, and unless its last publication was lost or last values came too late.
Converges ==
  \A p \in Properties :
    /\ Traits[p].update = "OnDemand" =>
         (<>[]calm => <>[](CanBeSent(p) => ~prop[p].requested))
    /\ Traits[p].update = "OnChange" =>
         (<>[]calm => <>[](CanBeSent(p) => Settled(p) \/ p \in lost \cup overtaken))

\* A property marked to be sent is sent while the session lasts, whatever the
\* other properties do.
NotStarved ==
  \A p \in Properties :
    thing = "Connected" /\ Forced(prop[p])
      ~> ~Forced(prop[p]) \/ ~CanBeSent(p) \/ thing # "Connected"

\* "Better to skip this property otherwise we will stay blocked here. This
\* happens only with a message property that doesn't fit into the CBOR buffer"
\* (CBOREncoder.cpp:140-142): a message that was to begin with such a property is
\* followed by one that begins elsewhere.
TooLongIsSkipped ==
  \A p \in Properties :
    ReadableByCloud(p) /\ ~CanBeSent(p) /\ enc.index = p - 1
        /\ thing = "Connected"
      ~> CanBeSent(p) \/ enc.index # p - 1 \/ thing # "Connected"
=============================================================================
