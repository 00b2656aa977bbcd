---------------------------- MODULE ThingSession ----------------------------
(***************************************************************************)
(* What ArduinoIoTCloudTCP promises a sketch about attachment.  In a       *)
(* session with the broker the board is attached to one thing or to none;  *)
(* it receives the data of that thing, and of no other, for as long as the *)
(* connection stands; the CONNECT and DISCONNECT callbacks tell which.  A  *)
(* broken session has to be closed, which ends the attachment, before the  *)
(* next one is opened.                                                     *)
(***************************************************************************)
CONSTANTS Things, NoThing

VARIABLES
  session,    \* "closed", "open", or "broken": open, but the connection is lost
  attachedTo, \* the thing the board is attached to
  receiving,  \* the things whose data reach the board
  told        \* the last callback run: "none", "CONNECT" or "DISCONNECT"

vars == <<session, attachedTo, receiving, told>>

Init ==
  /\ session = "closed"
  /\ attachedTo = NoThing
  /\ receiving = {}
  /\ told = "none"

Open ==
  /\ session = "closed"
  /\ session' = "open"
  /\ UNCHANGED <<attachedTo, receiving, told>>

\* From no thing, or straight from another one.
Attach(t) ==
  /\ session = "open"
  /\ attachedTo' = t
  /\ receiving' = {t}
  /\ told' = "CONNECT"
  /\ UNCHANGED session

\* The connection may break while another thing is being joined.
Leave ==
  /\ session = "open"
  /\ session' \in {"open", "broken"}
  /\ attachedTo' = NoThing
  /\ receiving' = {}
  /\ told' = "DISCONNECT"

Break ==
  /\ session = "open"
  /\ session' = "broken"
  /\ receiving' = {}
  /\ UNCHANGED <<attachedTo, told>>

Close ==
  /\ session # "closed"
  /\ session' = "closed"
  /\ attachedTo' = NoThing
  /\ receiving' = {}
  /\ told' = "DISCONNECT"

Next == Open \/ (\E t \in Things : Attach(t)) \/ Leave \/ Break \/ Close

Spec == Init /\ [][Next]_vars
=============================================================================
