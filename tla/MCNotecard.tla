----------------------------- MODULE MCNotecard -----------------------------
(***************************************************************************)
(* CloudNotecard under the fairness of the loop that calls it.             *)
(***************************************************************************)
EXTENDS CloudNotecard

\* loop() calls update() for ever and a call runs to its end: weak fairness.
\* millis() advances; the model lets an interval end between two calls only,
\* hence strong fairness.  Nothing is asked of Notehub, the cloud or the pauses
\* of the processes.
Fairness ==
  /\ WF_vars(Update)
  /\ WF_vars(HandleNote)
  /\ SF_vars(ReadIntervalEnds)

FairSpec == Spec /\ Fairness

\* A note that waits is read, or the session ends: if its interrupt is forgotten
\* because it came between the reading of the pin and the assignment of
\* _data_available, no other edge comes while the pin stays up, and the failsafe
\* interval has to find it (Notecard.cpp:244-265).
NotesAreRead ==
  waiting > 0 /\ state = "Connected" ~> inHand = "note" \/ state # "Connected"
=============================================================================
