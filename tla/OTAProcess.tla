----------------------------- MODULE OTAProcess -----------------------------
(***************************************************************************)
(* OTACloudProcessInterface: the over-the-air update of the firmware, as   *)
(* far as it is common to all boards.  handle_Connected calls update() and *)
(* an offer of the cloud calls handleMessage(); either way the process     *)
(* takes one step, and reports the state it is in when that is news.       *)
(*                                                                         *)
(* What is left to the boards (startOTA, fetch, flashOTA, reset) appears   *)
(* here as an outcome; module OTADefault supplies it.                      *)
(***************************************************************************)
EXTENDS Naturals

CONSTANTS Updates,  \* updates the cloud may offer
          NoUpdate  \* no update is going on: a null context

ASSUME UpdatesAssumption == NoUpdate \notin Updates

VARIABLES
  state,
  previous,      \* previous_state
  job,           \* context: the update going on
  mustApprove,   \* the ApprovalRequired policy: the sketch set a callback
  approved,      \* the Approved policy
  consent,       \* history: the callback agreed to the update going on
  entered,       \* history: states this update, or the last one, went through
  reported       \* history: reports that were delivered on it

policies == <<mustApprove, approved>>
otaVars == <<state, previous, job, policies, consent, entered, reported>>

-----------------------------------------------------------------------------
\* The States below 0.
Failures ==
  {"OtaStorageInitFail", "UrlParseErrorFail", "ServerConnectErrorFail",
   "OtaHeaderTimeoutFail", "OtaDownloadFail", "HttpResponseFail",
   "HttpHeaderErrorFail", "ErrorWriteUpdateFileFail", "OtaHeaderCrcFail",
   "OtaHeaderMagicNumberFail", "OtaStorageEndFail"}

QuietStates == {"Resume", "OtaBegin", "Idle", "OTAUnavailable"}
JobStates == {"OtaAvailable", "StartOTA", "Fetch", "FlashOTA", "Reboot"} \cup Failures
States == QuietStates \cup JobStates

OTATypeOK ==
  /\ state \in States
  /\ previous \in States
  /\ job \in Updates \cup {NoUpdate}
  /\ mustApprove \in BOOLEAN
  /\ approved \in BOOLEAN
  /\ consent \in BOOLEAN
  /\ entered \in Nat
  /\ reported \in Nat

OTAInit ==
  /\ state = "Resume"
  /\ previous = "Resume"
  /\ job = NoUpdate
  /\ mustApprove = FALSE
  /\ approved = FALSE
  /\ consent = FALSE
  /\ entered = 0
  /\ reported = 0

-----------------------------------------------------------------------------
(* handleMessage(): one step of the state machine.                         *)

\* Mutant: the state is reported by every call.
ReportAlways == state \in JobStates /\ job # NoUpdate

\* handleMessage() asks for the report; reportStatus() delivers it to the cloud if
\* an update is going on.
ReportDue == state \in JobStates /\ previous # state /\ job # NoUpdate

\* The call whose handler returns next, after the report.
Call(next) ==
  /\ state' = next
  /\ previous' = state
  /\ reported' = reported + (IF ReportDue THEN 1 ELSE 0)
  /\ entered' = entered + (IF next \in JobStates /\ next # state THEN 1 ELSE 0)

Resume ==
  /\ state = "Resume"
  /\ Call("OtaBegin")
  /\ UNCHANGED <<job, policies, consent>>

OtaBegin(capable) ==
  /\ state = "OtaBegin"
  /\ Call(IF capable THEN "Idle" ELSE "OTAUnavailable")
  /\ UNCHANGED <<job, policies, consent>>

IdleAlone ==
  /\ state \in {"Idle", "OTAUnavailable"}
  /\ Call(state)
  /\ UNCHANGED <<job, policies, consent>>

\* An offer is taken in Idle only; in any other state the call is an ordinary
\* step and the offer is lost.
IdleOffered(update) ==
  /\ state = "Idle"
  /\ state' = "OtaAvailable"
  /\ previous' = state
  /\ job' = update
  /\ consent' = FALSE
  /\ entered' = 1
  /\ reported' = 0
  /\ UNCHANGED policies

\* Mutant: an approval is not used up.
OtaAvailableKeepingApproval(agreed) ==
  /\ state = "OtaAvailable"
  /\ approved' = (approved \/ (agreed /\ mustApprove))
  /\ Call(IF mustApprove /\ ~approved' THEN "OtaAvailable" ELSE "StartOTA")
  /\ consent' = (consent \/ (agreed /\ mustApprove))
  /\ UNCHANGED <<job, mustApprove>>

\* handle_Connected asks the sketch, if it set a callback, right before update();
\* agreed is what it answers.
OtaAvailable(agreed) ==
  /\ state = "OtaAvailable"
  /\ Call(IF mustApprove /\ ~approved /\ ~agreed THEN "OtaAvailable" ELSE "StartOTA")
  /\ approved' = FALSE
  /\ consent' = (consent \/ (agreed /\ mustApprove))
  /\ UNCHANGED <<job, mustApprove>>

\* A handler of the board, with its outcome.
BoardStep(current, outcome) ==
  /\ state = current
  /\ Call(outcome)
  /\ UNCHANGED <<job, policies, consent>>

\* fail(): clean() and, in the board, reset().
Fail ==
  /\ state \in Failures
  /\ Call("Idle")
  /\ job' = NoUpdate
  /\ UNCHANGED <<policies, consent>>

\* onOTARequestCb(): the sketch sets or removes its callback.
OnOTARequestCb ==
  /\ mustApprove' \in BOOLEAN
  /\ approved' = FALSE
  /\ UNCHANGED <<state, previous, job, consent, entered, reported>>

-----------------------------------------------------------------------------
\* The cloud hears of each state of an update exactly once, at the beginning of
\* the call that handles it, the failure that ends the update included
\* (handleMessage and updateState, OTAInterface.cpp:78-99).
ReportedOnce ==
  reported + (IF job # NoUpdate /\ previous # state THEN 1 ELSE 0) = entered

\* No update starts without an approval that was given to it: neither one that
\* was left from an update that failed nor one that the sketch took back
\* (otaAvailable, OTAInterface.cpp:167-176).
ApprovedEachTime ==
  [][state = "OtaAvailable" /\ state' = "StartOTA" /\ mustApprove => consent']_otaVars
=============================================================================
