--------------------------- MODULE PropertyMirror ---------------------------
(***************************************************************************)
(* What publishing promises.  Each property has a value on the board and   *)
(* one in the cloud.  The cloud's value changes in two ways only: a user   *)
(* of the cloud sets it, where that is permitted, or a message of the      *)
(* board is published, which takes some of the properties the cloud may    *)
(* read, all at once, to the values they have on the board at that moment. *)
(***************************************************************************)
CONSTANTS Readable,   \* the properties the cloud may read
          Writeable,  \* the properties the cloud may write
          Values

VARIABLES
  device,     \* the values on the board
  cloud,      \* the values in the cloud
  publishing  \* a message is ready to be published

vars == <<device, cloud, publishing>>

Properties == Readable \cup Writeable

Init ==
  /\ device \in [Properties -> Values]
  /\ cloud \in [Properties -> Values]
  /\ ~publishing

\* The device is written by the sketch, or takes over a change of the cloud; a
\* message is made ready, or lost.
DeviceChanges ==
  /\ device' \in [Properties -> Values]
  /\ publishing' \in BOOLEAN
  /\ UNCHANGED cloud

CloudChanges(p, v) ==
  /\ cloud' = [cloud EXCEPT ![p] = v]
  /\ UNCHANGED <<device, publishing>>

\* The message may be published more than once.
Publish(S) ==
  /\ publishing /\ publishing' \in BOOLEAN
  /\ cloud' = [p \in Properties |-> IF p \in S THEN device[p] ELSE cloud[p]]
  /\ UNCHANGED device

Next ==
  \/ DeviceChanges
  \/ \E p \in Writeable, v \in Values : CloudChanges(p, v)
  \/ \E S \in SUBSET Readable : Publish(S)

Spec == Init /\ [][Next]_vars
=============================================================================
