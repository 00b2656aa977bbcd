------------------------------- MODULE MCLPWAN -------------------------------
(***************************************************************************)
(* CloudLPWAN with surroundings that may leave off: once calm, the sketch, *)
(* its callbacks and the users of the cloud change nothing any more, and   *)
(* the radio network works.                                                *)
(***************************************************************************)
EXTENDS CloudLPWAN, TLC

Trait(permission, update, sync) ==
  [permission |-> permission, update |-> update, write |-> "Auto",
   sync |-> sync, primitive |-> TRUE, minDelta |-> 0, values |-> {0, 1},
   start |-> 0]

\* A switch, and a measurement that is published on demand.  A message has room
\* for one of them.
RadioTraits ==
  <<Trait("ReadWrite", "OnChange", "none"), Trait("Read", "OnDemand", "none")>>

RadioSizes == <<0 :> 2 @@ 1 :> 3, 0 :> 2 @@ 1 :> 3>>

VARIABLE calm

liveVars == <<vars, calm>>

LiveInit == Init /\ calm = FALSE

CalmDown == Idle /\ ~calm /\ calm' = TRUE /\ UNCHANGED vars

Disturb ==
  /\ ~calm
  /\ \/ \E p \in Properties, v \in Values :
          SketchWrites(p, v) \/ CloudChanges(p, v)
     \/ Push \/ DataLost \/ Restart
  /\ UNCHANGED calm

LiveLink == (~calm \/ ~link) /\ LinkChanges /\ UNCHANGED calm

LivePass(p) == Elapse(p) /\ UNCHANGED calm

LiveTurn == Turn /\ UNCHANGED calm

LiveReceive == Receive /\ UNCHANGED calm

LiveWithin ==
  /\ \/ EncodeMessage
     \/ DecodeMessage(IF calm THEN {} ELSE Values)
     \/ \E reaches \in {TRUE, calm} : ~calm /\ WriteFails(reaches)
     \/ \E reaches \in {TRUE, calm} : WriteEnds(reaches)
  /\ UNCHANGED calm

LiveNext ==
  \/ Disturb
  \/ CalmDown
  \/ LiveLink
  \/ \E p \in Properties : LivePass(p)
  \/ LiveTurn
  \/ LiveReceive
  \/ LiveWithin

\* The loop of the sketch goes on, and a turn runs to its end.  Time passes.  The
\* network comes back and hands over what is under way.
Fairness ==
  /\ WF_liveVars(LiveWithin)
  /\ SF_liveVars(LiveTurn)
  /\ SF_liveVars(LiveReceive)
  /\ SF_liveVars(LiveLink)
  /\ \A p \in Properties : SF_liveVars(LivePass(p))

LiveSpec == LiveInit /\ [][LiveNext]_liveVars /\ Fairness

-----------------------------------------------------------------------------
\* When everything else leaves off, what was pushed is published, and the board
\* and the cloud come to agree on every property that is published on change,
\* also if a retry set back what a user changed; unless its last change was lost
\* on the air.
Converges ==
  \A p \in Properties :
    /\ Traits[p].update = "OnDemand" => (<>[]calm => <>[]~prop[p].requested)
    /\ Traits[p].update = "OnChange" =>
         (<>[]calm => <>[](prop[p].value = remote[p] \/ p \in lost))
=============================================================================
