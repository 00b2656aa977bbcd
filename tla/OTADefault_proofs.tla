-------------------------- MODULE OTADefault_proofs --------------------------
(***************************************************************************)
(* Proofs about OTADefault, for every size of header, buffer and file.     *)
(***************************************************************************)
EXTENDS OTADefault, TLAPS

-----------------------------------------------------------------------------
(* The steps.                                                              *)

Still == UNCHANGED <<download, http, server, fault>>

BadServerFailures ==
  {"ServerConnectErrorFail", "OtaHeaderTimeoutFail", "OtaDownloadFail",
   "HttpResponseFail", "HttpHeaderErrorFail"}

\* The actions, one by one.
LEMMA Steps ==
  ASSUME Next
  PROVE  \/ Resume /\ Still
         \/ \E capable \in BOOLEAN : OtaBegin(capable) /\ Still
         \/ IdleAlone /\ Still
         \/ \E update \in Updates : IdleOffered(update) /\ Still
         \/ \E agreed \in BOOLEAN : OtaAvailable(agreed) /\ Still
         \/ StartWithoutStorage
         \/ StartWithBadUrl
         \/ StartWithBadServer
         \/ StartDownload
         \/ FetchDisconnected
         \/ FetchNothing
         \/ FetchReadError
         \/ FetchBlock
         \/ FlashOTA
         \/ Reboot
         \/ FailAndReset
         \/ OnOTARequestCb /\ Still
         \/ ServerSends
         \/ ServerCloses
<1>1. HandleMessage =>
        \/ Resume /\ Still
        \/ \E capable \in BOOLEAN : OtaBegin(capable) /\ Still
        \/ IdleAlone /\ Still
        \/ StartWithoutStorage \/ StartWithBadUrl \/ StartWithBadServer \/ StartDownload
        \/ FetchDisconnected \/ FetchNothing \/ FetchReadError \/ FetchBlock
        \/ FlashOTA \/ Reboot \/ FailAndReset
  BY DEF HandleMessage, Common, StartOTA, Fetch, Still
<1>2. \A agreed \in BOOLEAN : Available(agreed) => OtaAvailable(agreed) /\ Still
  BY DEF Available, Still
<1>3. \A update \in Updates : Offered(update) => IdleOffered(update) /\ Still
  BY DEF Offered, Still
<1>4. Sketch => OnOTARequestCb /\ Still
  BY DEF Sketch, Still
<1>5. Available(FALSE) => \E agreed \in BOOLEAN : OtaAvailable(agreed) /\ Still
  BY <1>2
<1>6. Update \/ OtaUpdateCmd \/ Sketch \/ ServerSends \/ ServerCloses
  BY DEF Next
<1>7. CASE HandleMessage
  BY <1>1, <1>7
<1>8. CASE \E agreed \in BOOLEAN : Available(agreed)
  BY <1>2, <1>8
<1>9. CASE \E update \in Updates : Offered(update)
  BY <1>3, <1>9
<1>10. CASE Available(FALSE)
  BY <1>5, <1>10
<1> QED
  BY <1>4, <1>6, <1>7, <1>8, <1>9, <1>10 DEF Update, OtaUpdateCmd

-----------------------------------------------------------------------------
(* Types.                                                                  *)

\* What parseOta leaves is a context again.
LEMMA ParseOtaType ==
  ASSUME NEW d \in Downloads, NEW n \in Nat, NEW stores \in BOOLEAN, server \in Servers
  PROVE  ParseOta(d, n, stores) \in Downloads
<1> USE DownloadAssumption DEF DownloadAssumption
<1>1. ASSUME NEW e \in Downloads, NEW rest \in Nat
      PROVE  AddToFile(e, n, rest, stores) \in Downloads
  <2> DEFINE size == e.size + n
             phase == CASE size = server.length -> "Completed"
                        [] size > server.length -> "Error"
                        [] OTHER                -> "File"
  <2>1. phase \in Phases
    BY DEF Phases
  <2>2. /\ size \in Nat
        /\ e.fed + rest \in Nat
        /\ (IF stores THEN e.stored + rest ELSE e.stored) \in Nat
    BY <1>1 DEF Downloads
  <2>3. (e.writeError \/ ~stores) \in BOOLEAN
    OBVIOUS
  <2> HIDE DEF phase, size
  <2>4. [e EXCEPT !.size = size,
                  !.fed = @ + rest,
                  !.stored = IF stores THEN @ + rest ELSE @,
                  !.writeError = @ \/ ~stores,
                  !.phase = phase] \in Downloads
    BY <1>1, <2>1, <2>2, <2>3 DEF Downloads
  <2> QED
    BY <1>1, <2>4 DEF AddToFile, size, phase
<1>2. AddToHeader(d, n, stores) \in Downloads
  <2> DEFINE copied == IF n < HeaderSize THEN n ELSE HeaderSize
             filled == d.headerCopied + copied
             full == [d EXCEPT !.headerCopied = filled, !.fed = filled]
  <2>1. copied \in Nat /\ copied <= n /\ n - copied \in Nat /\ filled \in Nat
    BY DEF Downloads
  <2>2. CASE filled < HeaderSize
    <3>1. filled \in 0..HeaderSize
      BY <2>1, <2>2
    <3>2. AddToHeader(d, n, stores) = [d EXCEPT !.headerCopied = filled]
      BY <2>1, <2>2 DEF AddToHeader
    <3> QED
      BY <3>1, <3>2 DEF Downloads
  <2>3. CASE filled > HeaderSize
    <3>1. AddToHeader(d, n, stores) = [d EXCEPT !.phase = "Corrupt"]
      BY <2>1, <2>3 DEF AddToHeader
    <3> QED
      BY <3>1 DEF Downloads, Phases
  <2>4. CASE filled = HeaderSize
    <3>1. full \in Downloads
      <4>1. filled \in Nat /\ filled \in 0..HeaderSize
        BY <2>1, <2>4
      <4> HIDE DEF filled
      <4>2. [d EXCEPT !.headerCopied = filled] \in Downloads
        BY <4>1 DEF Downloads
      <4> QED
        BY <4>1, <4>2 DEF Downloads
    <3>2. [full EXCEPT !.phase = "File"] \in Downloads
      BY <3>1 DEF Downloads, Phases
    <3>3. [full EXCEPT !.phase = "MagicNumberMismatch"] \in Downloads
      BY <3>1 DEF Downloads, Phases
    <3>4. AddToFile([full EXCEPT !.phase = "File"], n, n - copied, stores) \in Downloads
      BY <1>1, <2>1, <3>2
    <3>5. AddToHeader(d, n, stores) =
            IF server.file = "foreign"
            THEN [full EXCEPT !.phase = "MagicNumberMismatch"]
            ELSE AddToFile([full EXCEPT !.phase = "File"], n, n - copied, stores)
      BY <2>1, <2>4 DEF AddToHeader
    <3> QED
      BY <3>3, <3>4, <3>5
  <2> QED
    BY <2>1, <2>2, <2>3, <2>4
<1> QED
  BY <1>1, <1>2 DEF ParseOta

-----------------------------------------------------------------------------
(* Where an update is, what it holds and what was reported of it.          *)

\* No approval outlives the step that is made on it.
NothingApproved == approved = FALSE

Inv == TypeOK /\ HoldsWhatItUses /\ ReportedOnce /\ NothingApproved

\* The states with an update and those without.
LEMMA StatesApart ==
  /\ States = QuietStates \cup JobStates
  /\ QuietStates \cap JobStates = {}
  /\ Failures \subseteq JobStates
  /\ {"OtaAvailable", "StartOTA", "Fetch", "FlashOTA", "Reboot"} \subseteq JobStates
  /\ {"OtaAvailable", "StartOTA", "Fetch", "FlashOTA", "Reboot"} \cap Failures = {}
  /\ {"Resume", "OtaBegin", "Idle", "OTAUnavailable"} = QuietStates
BY DEF States, QuietStates, JobStates, Failures

\* One call brings the reports up to date with the state it found.
LEMMA CallReports ==
  ASSUME Inv, NEW next \in States, Call(next), job' \in {job, NoUpdate},
         next \in QuietStates <=> job' = NoUpdate
  PROVE  /\ state' \in States
         /\ previous' \in States
         /\ entered' \in Nat
         /\ reported' \in Nat
         /\ ReportedOnce'
<1>1. /\ state' = next
      /\ previous' = state
      /\ reported' = reported + (IF ReportDue THEN 1 ELSE 0)
      /\ entered' = entered + (IF next \in JobStates /\ next # state THEN 1 ELSE 0)
  BY DEF Call
<1>2. /\ state \in States
      /\ entered \in Nat
      /\ reported \in Nat
      /\ state \in QuietStates <=> job = NoUpdate
      /\ reported + (IF job # NoUpdate /\ previous # state THEN 1 ELSE 0) = entered
  BY DEF Inv, TypeOK, OTATypeOK, HoldsWhatItUses, ReportedOnce
<1>3. ReportDue <=> job # NoUpdate /\ previous # state
  BY <1>2, StatesApart DEF ReportDue
<1>4. reported' = entered /\ reported' \in Nat
  BY <1>1, <1>2, <1>3
<1>5. next \in JobStates <=> job' # NoUpdate
  BY StatesApart
<1>6. ReportedOnce'
  BY <1>1, <1>2, <1>4, <1>5 DEF ReportedOnce
<1> QED
  BY <1>1, <1>2, <1>4, <1>6

\* A step of the process inside an update, or outside of one.
LEMMA CallKeeps ==
  ASSUME Inv, NEW next \in States, Call(next),
         job' = job, UNCHANGED <<mustApprove, consent>>, approved' = FALSE,
         next \in QuietStates <=> state \in QuietStates
  PROVE  OTATypeOK' /\ ReportedOnce' /\ NothingApproved'
                    /\ (state' \in QuietStates <=> job' = NoUpdate)
<1>1. state \in QuietStates <=> job = NoUpdate
  BY DEF Inv, HoldsWhatItUses
<1>2. /\ state' \in States
      /\ previous' \in States
      /\ entered' \in Nat
      /\ reported' \in Nat
      /\ ReportedOnce'
  BY <1>1, CallReports
<1>3. state' = next
  BY DEF Call
<1>4. job \in Updates \cup {NoUpdate} /\ mustApprove \in BOOLEAN /\ consent \in BOOLEAN
  BY DEF Inv, TypeOK, OTATypeOK
<1> QED
  BY <1>1, <1>2, <1>3, <1>4 DEF OTATypeOK, NothingApproved

\* The same of a handler of the board.
LEMMA BoardStepKeeps ==
  ASSUME Inv, NEW current \in JobStates, NEW outcome \in JobStates,
         BoardStep(current, outcome)
  PROVE  /\ OTATypeOK' /\ ReportedOnce' /\ NothingApproved'
         /\ state = current /\ state' = outcome
         /\ state' \in QuietStates <=> job' = NoUpdate
<1>1. state = current /\ Call(outcome) /\ UNCHANGED <<job, policies, consent>>
  BY DEF BoardStep
<1>2. outcome \in States /\ outcome \notin QuietStates /\ current \notin QuietStates
  BY StatesApart
<1>3. state' = outcome
  BY <1>1 DEF Call
<1>4. approved' = FALSE
  BY <1>1 DEF Inv, NothingApproved, policies
<1>5. OTATypeOK' /\ ReportedOnce' /\ NothingApproved' /\ (state' \in QuietStates <=> job' = NoUpdate)
  BY <1>1, <1>2, <1>4, CallKeeps DEF policies
<1> QED
  BY <1>1, <1>3, <1>5

\* The initial state, after power-up and after the restart.
LEMMA InvInit == Init => Inv
<1> SUFFICES ASSUME Init PROVE Inv
  OBVIOUS
<1>1. TypeOK
  BY DEF Init, OTAInit, TypeOK, OTATypeOK, States, QuietStates, Servers, NoServer
<1>2. HoldsWhatItUses /\ ReportedOnce /\ NothingApproved
  BY DEF Init, OTAInit, HoldsWhatItUses, ReportedOnce, NothingApproved, QuietStates
<1> QED
  BY <1>1, <1>2 DEF Inv

\* The part of Inv that remains to be shown of a step, once the reports and the
\* process' own variables are dealt with.
DownloadHeld ==
  /\ download \in Downloads \cup {NoDownload}
  /\ http \in BOOLEAN
  /\ server \in Servers
  /\ fault \in BOOLEAN
  /\ state = "Fetch" => http /\ download # NoDownload
  /\ state \in QuietStates \cup {"OtaAvailable", "StartOTA"} => ~http /\ download = NoDownload

ProcessKept ==
  /\ OTATypeOK
  /\ ReportedOnce
  /\ NothingApproved
  /\ state \in QuietStates <=> job = NoUpdate

\* Nothing else is in Inv.
LEMMA InvParts == Inv <=> ProcessKept /\ DownloadHeld
BY DEF Inv, TypeOK, HoldsWhatItUses, ProcessKept, DownloadHeld

\* The same after a step.
LEMMA InvPartsNext == Inv' <=> ProcessKept' /\ DownloadHeld'
BY DEF Inv, TypeOK, HoldsWhatItUses, ProcessKept, DownloadHeld

\* A step that leaves the download alone, and neither starts nor ends one.
LEMMA HeldStill ==
  ASSUME DownloadHeld, Still, state' \in States,
         state' = "Fetch" => state = "Fetch",
         state' \in QuietStates \cup {"OtaAvailable", "StartOTA"} =>
           state \in QuietStates \cup {"OtaAvailable", "StartOTA"}
  PROVE  DownloadHeld'
<1>1. /\ download' = download
      /\ http' = http
      /\ server' = server
      /\ fault' = fault
  BY DEF Still
<1> QED
  BY <1>1, Zenon DEF DownloadHeld

\* A record of the download is not the absent one.
LEMMA DownloadsDiffer ==
  /\ NewDownload \in Downloads
  /\ NoServer \in Servers
  /\ NoDownload \notin Downloads
<1>1. NewDownload \in Downloads /\ NoServer \in Servers
  BY DownloadAssumption DEF NewDownload, Downloads, Phases, NoServer, Servers, DownloadAssumption
<1>2. NoDownload \notin Downloads
  <2>1. NoDownload.phase = "None" /\ "None" \notin Phases
    BY DEF NoDownload, Phases
  <2>2. \A d \in Downloads : d.phase \in Phases
    BY DEF Downloads
  <2> QED
    BY <2>1, <2>2
<1> QED
  BY <1>1, <1>2

\* The steps that are common to all boards.
LEMMA CommonSteps ==
  ASSUME Inv, Still,
         \/ Resume
         \/ \E capable \in BOOLEAN : OtaBegin(capable)
         \/ IdleAlone
         \/ \E update \in Updates : IdleOffered(update)
         \/ \E agreed \in BOOLEAN : OtaAvailable(agreed)
         \/ OnOTARequestCb
  PROVE  Inv'
<1> USE StatesApart
<1>1. DownloadHeld /\ ProcessKept
  BY InvParts
<1>2. approved = FALSE
  BY <1>1 DEF ProcessKept, NothingApproved
<1>3. CASE Resume
  <2>1. Call("OtaBegin") /\ state = "Resume" /\ job' = job
        /\ UNCHANGED <<mustApprove, consent>> /\ approved' = FALSE
    BY <1>2, <1>3 DEF Resume, policies
  <2>2. ProcessKept' /\ state' = "OtaBegin"
    BY <2>1, CallKeeps DEF ProcessKept, Call
  <2> QED
    <3>1. DownloadHeld'
      BY <1>1, <2>1, <2>2, HeldStill DEF ProcessKept, OTATypeOK
    <3> QED
      BY <2>2, <3>1, InvPartsNext
<1>4. CASE \E capable \in BOOLEAN : OtaBegin(capable)
  <2>1. PICK next \in {"Idle", "OTAUnavailable"} :
          Call(next) /\ state = "OtaBegin" /\ job' = job
          /\ UNCHANGED <<mustApprove, consent>> /\ approved' = FALSE
    BY <1>2, <1>4 DEF OtaBegin, policies
  <2>2. ProcessKept' /\ state' = next
    BY <2>1, CallKeeps DEF ProcessKept, Call
  <2> QED
    <3>1. DownloadHeld'
      BY <1>1, <2>1, <2>2, HeldStill DEF ProcessKept, OTATypeOK
    <3> QED
      BY <2>2, <3>1, InvPartsNext
<1>5. CASE IdleAlone
  <2>1. Call(state) /\ state \in QuietStates /\ job' = job
        /\ UNCHANGED <<mustApprove, consent>> /\ approved' = FALSE
    BY <1>2, <1>5 DEF IdleAlone, policies
  <2>2. ProcessKept' /\ state' = state
    BY <2>1, CallKeeps DEF ProcessKept, Call
  <2> QED
    <3>1. DownloadHeld'
      BY <1>1, <2>1, <2>2, HeldStill DEF ProcessKept, OTATypeOK
    <3> QED
      BY <2>2, <3>1, InvPartsNext
<1>6. CASE \E update \in Updates : IdleOffered(update)
  <2>1. PICK update \in Updates : IdleOffered(update)
    BY <1>6
  <2>2. ProcessKept' /\ state' = "OtaAvailable" /\ state = "Idle"
    <3>1. /\ state = "Idle" /\ state' = "OtaAvailable" /\ previous' = "Idle"
          /\ job' = update /\ job' # NoUpdate /\ consent' = FALSE
          /\ entered' = 1 /\ reported' = 0
          /\ mustApprove' = mustApprove /\ approved' = approved
      BY <2>1, UpdatesAssumption DEF IdleOffered, policies, UpdatesAssumption
    <3>2. OTATypeOK' /\ NothingApproved'
      BY <1>1, <1>2, <3>1 DEF ProcessKept, OTATypeOK, NothingApproved
    <3>3. ReportedOnce' /\ (state' \in QuietStates <=> job' = NoUpdate)
      BY <3>1 DEF ReportedOnce
    <3> QED
      BY <3>1, <3>2, <3>3 DEF ProcessKept
  <2> QED
    <3>1. DownloadHeld'
      BY <1>1, <2>2, HeldStill DEF ProcessKept, OTATypeOK
    <3> QED
      BY <2>2, <3>1, InvPartsNext
<1>7. CASE \E agreed \in BOOLEAN : OtaAvailable(agreed)
  <2>1. PICK agreed \in BOOLEAN : OtaAvailable(agreed)
    BY <1>7
  <2>2. PICK next \in {"OtaAvailable", "StartOTA"} : Call(next)
    BY <2>1 DEF OtaAvailable
  <2>3. state = "OtaAvailable" /\ job' = job /\ state' = next
    BY <2>1, <2>2 DEF OtaAvailable, Call
  <2>4. state \notin QuietStates /\ next \notin QuietStates /\ next \in States /\ job # NoUpdate
    BY <1>1, <2>2, <2>3 DEF ProcessKept
  <2>5. /\ state' \in States
        /\ previous' \in States
        /\ entered' \in Nat
        /\ reported' \in Nat
        /\ ReportedOnce'
    BY <2>2, <2>3, <2>4, CallReports
  <2>6. approved' = FALSE /\ mustApprove' = mustApprove /\ consent' \in BOOLEAN
    BY <2>1 DEF OtaAvailable
  <2>7. job \in Updates \cup {NoUpdate} /\ mustApprove \in BOOLEAN
    BY <1>1 DEF ProcessKept, OTATypeOK
  <2>8. ProcessKept'
    BY <2>3, <2>4, <2>5, <2>6, <2>7 DEF ProcessKept, OTATypeOK, NothingApproved
  <2> QED
    <3>1. DownloadHeld'
      BY <1>1, <2>2, <2>3, <2>4, <2>5, HeldStill
    <3> QED
      BY <2>8, <3>1, InvPartsNext
<1>8. CASE OnOTARequestCb
  <2>1. ProcessKept' /\ state' = state
    BY <1>1, <1>8
    DEF OnOTARequestCb, ProcessKept, OTATypeOK, ReportedOnce, NothingApproved
  <2> QED
    <3>1. DownloadHeld'
      BY <1>1, <2>1, HeldStill DEF ProcessKept, OTATypeOK
    <3> QED
      BY <2>1, <3>1, InvPartsNext
<1> QED
  BY <1>3, <1>4, <1>5, <1>6, <1>7, <1>8

\* A handler of the board leaves the process in a state of the update.
LEMMA BoardKept ==
  ASSUME Inv, NEW current \in JobStates, NEW outcome \in JobStates,
         BoardStep(current, outcome)
  PROVE  ProcessKept' /\ state = current /\ state' = outcome
BY BoardStepKeeps DEF ProcessKept

\* What is left to show of the step of a handler that returns outcome.
LEMMA HeldByOutcome ==
  ASSUME download' \in Downloads \cup {NoDownload}, http' \in BOOLEAN,
         server' \in Servers, fault' \in BOOLEAN, NEW outcome \in JobStates,
         state' = outcome, outcome \notin {"OtaAvailable", "StartOTA"},
         outcome = "Fetch" => http' /\ download' # NoDownload
  PROVE  DownloadHeld'
<1>1. state' \notin QuietStates \cup {"OtaAvailable", "StartOTA"}
  BY StatesApart
<1> QED
  BY <1>1 DEF DownloadHeld

\* The end of fetch() leaves a server and a client.
LEMMA LeaveKeeps ==
  ASSUME NEW outcome, NEW afterwards \in Servers, Leave(outcome, afterwards)
  PROVE  http' \in BOOLEAN /\ server' \in Servers /\ (outcome = "Fetch" => http')
<1>1. http' = (outcome = "Fetch")
  BY DEF Leave
<1>2. [afterwards EXCEPT !.connected = FALSE, !.available = 0, !.left = 0] \in Servers
  BY DEF Servers
<1>3. server' \in Servers
  BY <1>2 DEF Leave
<1>4. http' \in BOOLEAN /\ (outcome = "Fetch" => http')
  BY <1>1
<1> QED
  BY <1>3, <1>4

\* What fetch() returns is a state of the update, and none of the first two.
LEMMA OutcomesType ==
  ASSUME NEW d, NEW outcome \in Outcomes(d)
  PROVE  outcome \in {"Fetch", "FlashOTA"} \cup Failures
BY DEF Outcomes, Failures

\* The steps of the board: startOTA(), fetch() and flashOTA().
LEMMA BoardSteps ==
  ASSUME Inv,
         \/ StartWithoutStorage \/ StartWithBadUrl \/ StartWithBadServer \/ StartDownload
         \/ FetchDisconnected \/ FetchNothing \/ FetchReadError \/ FetchBlock
         \/ FlashOTA
  PROVE  Inv'
<1> USE StatesApart
<1>1. /\ download \in Downloads \cup {NoDownload}
      /\ http \in BOOLEAN
      /\ server \in Servers
      /\ fault \in BOOLEAN
      /\ state = "Fetch" => http /\ download # NoDownload
  BY InvParts DEF DownloadHeld
<1>2. {"OtaStorageInitFail", "UrlParseErrorFail", "OtaDownloadFail", "OtaStorageEndFail"}
        \cup BadServerFailures \subseteq Failures
  BY DEF Failures, BadServerFailures
<1>3. SUFFICES ProcessKept' /\ DownloadHeld'
  BY InvPartsNext
<1>4. CASE StartWithoutStorage
  <2>1. BoardStep("StartOTA", "OtaStorageInitFail") /\ fault' = TRUE
        /\ download' = download /\ http' = http /\ server' = server
    BY <1>4 DEF StartWithoutStorage
  <2>2. ProcessKept' /\ state' = "OtaStorageInitFail"
    BY <1>2, <2>1, BoardKept
  <2> QED
    BY <1>1, <1>2, <2>1, <2>2, HeldByOutcome
<1>5. CASE StartWithBadUrl
  <2>1. BoardStep("StartOTA", "UrlParseErrorFail") /\ fault' = TRUE
        /\ download' = NewDownload /\ http' = http /\ server' = server
    BY <1>5 DEF StartWithBadUrl
  <2>2. ProcessKept' /\ state' = "UrlParseErrorFail"
    BY <1>2, <2>1, BoardKept
  <2> QED
    BY <1>1, <1>2, <2>1, <2>2, HeldByOutcome, DownloadsDiffer
<1>6. CASE StartWithBadServer
  <2>1. PICK failure \in BadServerFailures :
          BoardStep("StartOTA", failure) /\ fault' = TRUE
          /\ download' = NewDownload /\ http' = TRUE /\ server' = server
    BY <1>6 DEF StartWithBadServer, BadServerFailures
  <2>2. ProcessKept' /\ state' = failure
    BY <1>2, <2>1, BoardKept
  <2> QED
    BY <1>1, <1>2, <2>1, <2>2, HeldByOutcome, DownloadsDiffer
<1>7. CASE StartDownload
  <2>1. BoardStep("StartOTA", "Fetch") /\ download' = NewDownload /\ http' = TRUE
    BY <1>7 DEF StartDownload
  <2>2. PICK length \in Lengths, file \in {"good", "damaged", "foreign"}, more \in {0, 1} :
          /\ server' = [connected |-> TRUE, available |-> 0, left |-> length + more,
                        total |-> length + more, length |-> length, file |-> file]
          /\ fault' = (file # "good" \/ more # 0)
    BY <1>7 DEF StartDownload
  <2>3. length \in Nat /\ length + more \in Nat
    BY DownloadAssumption DEF DownloadAssumption
  <2>4. server' \in Servers /\ fault' \in BOOLEAN
    BY <2>2, <2>3 DEF Servers
  <2>5. ProcessKept' /\ state' = "Fetch"
    BY <2>1, BoardKept
  <2> QED
    BY <2>1, <2>4, <2>5, HeldByOutcome, DownloadsDiffer
<1>8. CASE FetchDisconnected
  <2>1. BoardStep("Fetch", "OtaDownloadFail") /\ Leave("OtaDownloadFail", server)
        /\ download' = download /\ fault' = fault
    BY <1>8 DEF FetchDisconnected
  <2>2. ProcessKept' /\ state' = "OtaDownloadFail"
    BY <1>2, <2>1, BoardKept
  <2>3. http' \in BOOLEAN /\ server' \in Servers
    BY <1>1, <2>1, LeaveKeeps
  <2> QED
    BY <1>1, <1>2, <2>1, <2>2, <2>3, HeldByOutcome
<1>9. CASE FetchNothing
  <2>1. BoardStep("Fetch", "Fetch")
        /\ download' = download /\ http' = http /\ server' = server /\ fault' = fault
    BY <1>9 DEF FetchNothing
  <2>2. ProcessKept' /\ state = "Fetch" /\ state' = "Fetch"
    BY <2>1, BoardKept
  <2>3. http' \in BOOLEAN /\ http' /\ fault' \in BOOLEAN
    BY <1>1, <2>1, <2>2, Zenon
  <2> QED
    BY <1>1, <2>1, <2>2, <2>3, HeldByOutcome
<1>10. CASE FetchReadError
  <2>1. BoardStep("Fetch", "OtaDownloadFail") /\ Leave("OtaDownloadFail", server)
        /\ download' = download /\ fault' = TRUE
    BY <1>10 DEF FetchReadError
  <2>2. ProcessKept' /\ state' = "OtaDownloadFail"
    BY <1>2, <2>1, BoardKept
  <2>3. http' \in BOOLEAN /\ server' \in Servers
    BY <1>1, <2>1, LeaveKeeps
  <2> QED
    BY <1>1, <1>2, <2>1, <2>2, <2>3, HeldByOutcome
<1>11. CASE FetchBlock
  <2>1. server.available > 0
    BY <1>11 DEF FetchBlock
  <2>2. PICK stores \in BOOLEAN :
          \E outcome \in Outcomes(ParseOta(download, BlockSize, stores)) :
            /\ BoardStep("Fetch", outcome)
            /\ download' = ParseOta(download, BlockSize, stores)
            /\ Leave(outcome, [server EXCEPT !.available = @ - BlockSize])
            /\ fault' = (fault \/ ~stores)
    BY <1>11 DEF FetchBlock
  <2>3. PICK outcome \in Outcomes(ParseOta(download, BlockSize, stores)) :
          /\ BoardStep("Fetch", outcome)
          /\ download' = ParseOta(download, BlockSize, stores)
          /\ Leave(outcome, [server EXCEPT !.available = @ - BlockSize])
          /\ fault' = (fault \/ ~stores)
    BY <2>2
  <2>4. outcome \in {"Fetch", "FlashOTA"} \cup Failures
    BY <2>3, OutcomesType
  <2>5. ProcessKept' /\ state = "Fetch" /\ state' = outcome
    BY <2>3, <2>4, BoardKept
  <2>6. download \in Downloads
    BY <1>1, <2>5
  <2>7. BlockSize \in Nat /\ server.available - BlockSize \in Nat
    BY <1>1, DownloadAssumption DEF BlockSize, DownloadAssumption, Servers
  <2>8. download' \in Downloads
    BY <1>1, <2>3, <2>6, <2>7, ParseOtaType
  <2>9. [server EXCEPT !.available = @ - BlockSize] \in Servers
    BY <1>1, <2>7 DEF Servers
  <2>10. http' \in BOOLEAN /\ server' \in Servers /\ (outcome = "Fetch" => http')
    BY <2>3, <2>9, LeaveKeeps
  <2>11. fault' \in BOOLEAN
    BY <2>3
  <2> QED
    BY <2>4, <2>5, <2>8, <2>10, <2>11, HeldByOutcome, DownloadsDiffer
<1>12. CASE FlashOTA
  <2>1. PICK outcome \in {"Reboot", "OtaStorageEndFail"} :
          BoardStep("FlashOTA", outcome) /\ fault' \in {fault, TRUE}
          /\ download' = download /\ http' = http /\ server' = server
    BY <1>12 DEF FlashOTA
  <2>2. ProcessKept' /\ state' = outcome
    BY <1>2, <2>1, BoardKept
  <2>3. fault' \in BOOLEAN
    BY <1>1, <2>1
  <2> QED
    BY <1>1, <1>2, <2>1, <2>2, <2>3, HeldByOutcome
<1> QED
  BY <1>4, <1>5, <1>6, <1>7, <1>8, <1>9, <1>10, <1>11, <1>12
\* The end of an update, by failure or by restart.
LEMMA EndSteps ==
  ASSUME Inv, FailAndReset \/ Reboot
  PROVE  Inv'
<1>1. CASE FailAndReset
  <2>1. /\ state \in Failures /\ Call("Idle") /\ job' = NoUpdate
        /\ mustApprove' = mustApprove /\ approved' = approved /\ consent' = consent
        /\ download' = NoDownload /\ http' = FALSE /\ server' = NoServer /\ fault' = FALSE
    BY <1>1 DEF FailAndReset, Fail, policies
  <2>2. ProcessKept
    BY InvParts
  <2>3. /\ state' \in States /\ previous' \in States
        /\ entered' \in Nat /\ reported' \in Nat /\ ReportedOnce'
    BY <2>1, CallReports, StatesApart
  <2>4. state' = "Idle"
    BY <2>1 DEF Call
  <2>5. OTATypeOK' /\ NothingApproved'
    BY <2>1, <2>2, <2>3 DEF ProcessKept, OTATypeOK, NothingApproved
  <2>6. ProcessKept'
    BY <2>1, <2>3, <2>4, <2>5, StatesApart DEF ProcessKept
  <2>7. DownloadHeld'
    BY <2>1, <2>4, DownloadsDiffer DEF DownloadHeld
  <2> QED
    BY <2>6, <2>7, InvPartsNext
<1>2. CASE Reboot
  <2>1. OTATypeOK' /\ NothingApproved'
    BY <1>2, StatesApart DEF Reboot, OTATypeOK, NothingApproved
  <2>2. ReportedOnce' /\ (state' \in QuietStates <=> job' = NoUpdate)
    BY <1>2, StatesApart DEF Reboot, ReportedOnce
  <2>3. ProcessKept'
    BY <2>1, <2>2 DEF ProcessKept
  <2>4. DownloadHeld'
    BY <1>2, DownloadsDiffer DEF Reboot, DownloadHeld
  <2> QED
    BY <2>3, <2>4, InvPartsNext
<1> QED
  BY <1>1, <1>2

\* The server's steps leave the process alone.
LEMMA ServerSteps ==
  ASSUME Inv, ServerSends \/ ServerCloses
  PROVE  Inv'
<1>1. ProcessKept /\ DownloadHeld
  BY InvParts
<1>2. UNCHANGED <<otaVars, download, http>>
  BY DEF ServerSends, ServerCloses
<1>3. /\ UNCHANGED <<state, previous, job, mustApprove, approved, consent, entered, reported>>
      /\ download' = download /\ http' = http
  BY <1>2 DEF otaVars, policies
<1>4. ProcessKept'
  BY <1>1, <1>3 DEF ProcessKept, OTATypeOK, ReportedOnce, NothingApproved
<1>5. server \in Servers
  BY <1>1 DEF DownloadHeld
<1>6. CASE ServerSends
  <2>1. PICK n \in 1..server.left :
          server' = [server EXCEPT !.available = @ + n, !.left = @ - n]
    BY <1>6 DEF ServerSends
  <2>2. n \in Nat /\ server.available + n \in Nat /\ server.left - n \in Nat
    BY <1>5, <2>1 DEF Servers
  <2>3. server' \in Servers
    BY <1>5, <2>1, <2>2 DEF Servers
  <2>4. fault' = fault
    BY <1>6 DEF ServerSends
  <2>5. DownloadHeld'
    BY <1>1, <1>3, <2>3, <2>4, Zenon DEF DownloadHeld
  <2> QED
    BY <1>4, <2>5, InvPartsNext
<1>7. CASE ServerCloses
  <2>1. server' = [server EXCEPT !.connected = FALSE, !.available = 0, !.left = 0]
    BY <1>7 DEF ServerCloses
  <2>2. server' \in Servers
    BY <1>5, <2>1 DEF Servers
  <2>3. fault' \in BOOLEAN
    BY <1>7 DEF ServerCloses
  <2>4. DownloadHeld'
    BY <1>1, <1>3, <2>2, <2>3, Zenon DEF DownloadHeld
  <2> QED
    BY <1>4, <2>4, InvPartsNext
<1> QED
  BY <1>6, <1>7

\* Inv is inductive.
LEMMA InvNext ==
  ASSUME Inv, [Next]_vars
  PROVE  Inv'
<1>1. CASE Next
  BY <1>1, Steps, CommonSteps, BoardSteps, EndSteps, ServerSteps
<1>2. CASE UNCHANGED vars
  <2>1. UNCHANGED <<state, previous, job, mustApprove, approved, consent, entered, reported>>
        /\ Still
    BY <1>2 DEF vars, otaVars, policies, Still
  <2>2. ProcessKept /\ DownloadHeld
    BY InvParts
  <2>3. ProcessKept'
    BY <2>1, <2>2 DEF ProcessKept, OTATypeOK, ReportedOnce, NothingApproved
  <2>4. DownloadHeld'
    BY <2>1, <2>2, HeldStill DEF ProcessKept, OTATypeOK
  <2> QED
    BY <2>3, <2>4, InvPartsNext
<1> QED
  BY <1>1, <1>2

\* The inductive invariant holds (OTADefault, all steps).
THEOREM InvHolds == Spec => []Inv
<1>1. Init => Inv
  BY InvInit
<1>2. Inv /\ [Next]_vars => Inv'
  BY InvNext
<1> QED
  BY <1>1, <1>2, PTL DEF Spec

\* Every variable keeps its type.
THEOREM TypeOKHolds == Spec => []TypeOK
<1>1. Inv => TypeOK
  BY DEF Inv
<1> QED
  BY <1>1, InvHolds, PTL

\* The cloud hears of each state of an update once (OTAInterface.cpp:78-99).
THEOREM ReportedOnceHolds == Spec => []ReportedOnce
<1>1. Inv => ReportedOnce
  BY DEF Inv
<1> QED
  BY <1>1, InvHolds, PTL

\* Nothing is held by an update that is over, and nothing used that is not held
\* (OTAInterfaceDefault.cpp:225-241).
THEOREM HoldsWhatItUsesHolds == Spec => []HoldsWhatItUses
<1>1. Inv => HoldsWhatItUses
  BY DEF Inv
<1> QED
  BY <1>1, InvHolds, PTL

\* The step into StartOTA.
LEMMA StartNeedsConsent ==
  ASSUME Inv, [Next]_vars, state = "OtaAvailable", state' = "StartOTA", mustApprove
  PROVE  consent'
<1>1. Next
  BY DEF vars, otaVars
<1>2. approved = FALSE
  BY DEF Inv, NothingApproved
<1>3. "OtaAvailable" \notin QuietStates \cup Failures
  BY StatesApart
<1>4. ~(OnOTARequestCb /\ Still) /\ ~ServerSends /\ ~ServerCloses
  BY DEF OnOTARequestCb, ServerSends, ServerCloses, otaVars
<1>5. PICK agreed \in BOOLEAN : OtaAvailable(agreed)
  BY <1>1, <1>3, <1>4, Steps
  DEF Resume, OtaBegin, IdleAlone, IdleOffered, StartWithoutStorage, StartWithBadUrl,
      StartWithBadServer, StartDownload, FetchDisconnected, FetchNothing, FetchReadError,
      FetchBlock, FlashOTA, Reboot, FailAndReset, Fail, BoardStep
<1>6. agreed
  BY <1>2, <1>5 DEF OtaAvailable, Call
<1> QED
  BY <1>5, <1>6 DEF OtaAvailable

\* No update starts without an approval of its own (OTAInterface.cpp:167-176).
THEOREM ApprovedEachTimeHolds == Spec => ApprovedEachTime
<1>1. Inv /\ [Next]_vars =>
        [state = "OtaAvailable" /\ state' = "StartOTA" /\ mustApprove => consent']_otaVars
  BY StartNeedsConsent
<1> QED
  BY <1>1, InvHolds, PTL DEF Spec, ApprovedEachTime
-----------------------------------------------------------------------------
(* How far the download has come.                                          *)

\* While a file is fetched: how far the download has come, and where the bytes
\* are.  Holds if the first bytes to arrive are more than the header.
Progress ==
  /\ download.phase \in {"Header", "File"}
  /\ ~download.writeError
  /\ download.phase = "Header" =>
       /\ download.headerCopied = 0
       /\ download.size = 0
       /\ download.stored = 0
       /\ server.available = 0 \/ server.available > HeaderSize
  /\ download.phase = "File" =>
       /\ download.fed = download.size
       /\ HeaderSize + download.stored = download.size
       /\ download.size < server.length
  /\ server.length \in Lengths
  /\ server.length <= server.total
  /\ server.connected =>
       download.size + server.available + server.left = server.total
  /\ ~server.connected => fault
  /\ ~fault => server.file = "good" /\ server.total = server.length

FetchProgress == state = "Fetch" => Progress

Sound == FetchProgress /\ FlashOnlyVerified /\ FailureHasCause

\* What parseOta does to a download that makes progress: the header is complete
\* with the first block, and all counts agree.
LEMMA BlockParsed ==
  ASSUME Progress, download \in Downloads, server \in Servers, NEW stores \in BOOLEAN,
         server.available > 0,
         NEW e, e = ParseOta(download, BlockSize, stores)
  PROVE  /\ BlockSize \in Nat /\ BlockSize <= server.available
         /\ \/ e.phase = "MagicNumberMismatch" /\ server.file = "foreign" /\ ~e.writeError
            \/ /\ e.size = download.size + BlockSize
               /\ e.fed = e.size
               /\ e.writeError <=> ~stores
               /\ stores => HeaderSize + e.stored = e.size
               /\ e.phase = CASE e.size = server.length -> "Completed"
                              [] e.size > server.length -> "Error"
                              [] OTHER                  -> "File"
<1> USE DownloadAssumption DEF DownloadAssumption
<1> DEFINE n == BlockSize
<1>1. /\ server.available \in Nat /\ server.length \in Nat
      /\ download.size \in Nat /\ download.fed \in Nat /\ download.stored \in Nat
      /\ ~download.writeError
  BY DEF Servers, Downloads, Progress
<1>2. n \in Nat /\ n > 0 /\ n <= server.available
  BY <1>1 DEF BlockSize
<1> HIDE DEF n
<1>3. ASSUME NEW d \in Downloads, NEW rest \in Nat \ {0}, d.size + n = d.fed + rest,
             HeaderSize + d.stored + rest = d.size + n, ~d.writeError,
             e = AddToFile(d, n, rest, stores)
      PROVE  /\ e.size = d.size + n
             /\ e.fed = e.size
             /\ e.writeError <=> ~stores
             /\ stores => HeaderSize + e.stored = e.size
             /\ e.phase = CASE e.size = server.length -> "Completed"
                            [] e.size > server.length -> "Error"
                            [] OTHER                  -> "File"
  <2> DEFINE size == d.size + n
             phase == CASE size = server.length -> "Completed"
                        [] size > server.length -> "Error"
                        [] OTHER                -> "File"
  <2>1. d.size \in Nat /\ d.fed \in Nat /\ d.stored \in Nat
    BY DEF Downloads
  <2>2. e = [d EXCEPT !.size = size,
                      !.fed = @ + rest,
                      !.stored = IF stores THEN @ + rest ELSE @,
                      !.writeError = @ \/ ~stores,
                      !.phase = phase]
    BY <1>3 DEF AddToFile
  <2> HIDE DEF size, phase
  <2>3. /\ e.size = size
        /\ e.fed = d.fed + rest
        /\ stores => e.stored = d.stored + rest
        /\ e.phase = phase
    BY <2>2 DEF Downloads
  <2>4. e.writeError = (d.writeError \/ ~stores)
    BY <2>2 DEF Downloads
  <2>5. e.writeError <=> ~stores
    BY <1>3, <2>4
  <2>6. e.size = d.size + n /\ e.fed = e.size /\ (stores => HeaderSize + e.stored = e.size)
    BY <1>2, <1>3, <2>1, <2>3 DEF size
  <2> QED
    BY <2>3, <2>5, <2>6 DEF phase, size
<1>4. CASE download.phase = "File"
  <2>1. e = AddToFile(download, n, n, stores)
    BY <1>4 DEF ParseOta, n
  <2>2. download.size + n = download.fed + n
        /\ HeaderSize + download.stored + n = download.size + n
    BY <1>1, <1>2, <1>4 DEF Progress
  <2> QED
    BY <1>1, <1>2, <1>3, <2>1, <2>2 DEF n
<1>5. CASE download.phase = "Header"
  <2>1. download.headerCopied = 0 /\ download.size = 0 /\ download.stored = 0
        /\ server.available > HeaderSize
    BY <1>1, <1>5 DEF Progress
  <2>2. n > HeaderSize /\ n - HeaderSize \in Nat \ {0}
    BY <1>1, <1>2, <2>1 DEF n, BlockSize
  <2> DEFINE full == [download EXCEPT !.headerCopied = HeaderSize, !.fed = HeaderSize]
             d == [full EXCEPT !.phase = "File"]
  <2>3. e = AddToHeader(download, n, stores)
    BY <1>5 DEF ParseOta, n
  <2>4. e = IF server.file = "foreign"
            THEN [full EXCEPT !.phase = "MagicNumberMismatch"]
            ELSE AddToFile(d, n, n - HeaderSize, stores)
    <3> DEFINE copied == IF n < HeaderSize THEN n ELSE HeaderSize
               filled == download.headerCopied + copied
    <3>1. copied = HeaderSize
      BY <1>2, <2>2
    <3> HIDE DEF copied
    <3>2. filled = HeaderSize
      BY <2>1, <3>1
    <3> HIDE DEF filled
    <3>3. ~(filled < HeaderSize) /\ ~(filled > HeaderSize)
      BY <3>2
    <3>4. AddToHeader(download, n, stores) =
            CASE filled < HeaderSize -> [download EXCEPT !.headerCopied = filled]
              [] filled > HeaderSize -> [download EXCEPT !.phase = "Corrupt"]
              [] filled = HeaderSize ->
                   IF server.file = "foreign"
                   THEN [[download EXCEPT !.headerCopied = filled, !.fed = filled]
                           EXCEPT !.phase = "MagicNumberMismatch"]
                   ELSE AddToFile([[download EXCEPT !.headerCopied = filled, !.fed = filled]
                                     EXCEPT !.phase = "File"], n, n - copied, stores)
      BY DEF AddToHeader, copied, filled
    <3> QED
      BY <2>3, <3>1, <3>2, <3>3, <3>4
  <2>5. full \in Downloads /\ full.fed = HeaderSize /\ full.size = 0 /\ full.stored = 0
    <3>1. HeaderSize \in Nat /\ HeaderSize \in 0..HeaderSize
      OBVIOUS
    <3>2. [download EXCEPT !.headerCopied = HeaderSize] \in Downloads
      BY <3>1 DEF Downloads
    <3>3. full \in Downloads
      BY <3>1, <3>2 DEF Downloads
    <3>4. full.fed = HeaderSize /\ full.size = download.size /\ full.stored = download.stored
      BY DEF Downloads
    <3> QED
      BY <2>1, <3>3, <3>4
  <2>6. full.writeError = download.writeError
    BY DEF Downloads
  <2>7. ~full.writeError
    BY <1>1, <2>6
  <2> HIDE DEF full
  <2>8. d \in Downloads /\ d.fed = HeaderSize /\ d.size = 0 /\ d.stored = 0
    BY <2>5 DEF Downloads, Phases
  <2>9. d.writeError = full.writeError
    BY <2>5 DEF Downloads
  <2>10. CASE server.file = "foreign"
    <3>1. e = [full EXCEPT !.phase = "MagicNumberMismatch"]
      BY <2>4, <2>10
    <3>2. e.phase = "MagicNumberMismatch"
      BY <2>5, <3>1 DEF Downloads
    <3>3. e.writeError = full.writeError
      BY <2>5, <3>1 DEF Downloads
    <3> QED
      BY <1>2, <2>7, <2>10, <3>2, <3>3 DEF n
  <2>11. CASE server.file # "foreign"
    <3>1. e = AddToFile(d, n, n - HeaderSize, stores)
      BY <2>4, <2>11
    <3>2. ~d.writeError
      BY <2>7, <2>9
    <3> HIDE DEF d
    <3>3. d.size + n = d.fed + (n - HeaderSize)
          /\ HeaderSize + d.stored + (n - HeaderSize) = d.size + n
      BY <1>2, <2>8
    <3> QED
      BY <1>2, <1>3, <2>1, <2>2, <2>8, <3>1, <3>2, <3>3 DEF n
  <2> QED
    BY <2>10, <2>11
<1> QED
  BY <1>4, <1>5 DEF Progress
\* Most steps lead to a state that Sound says nothing of, or to a failure that
\* has its cause.
LEMMA SoundElsewhere ==
  ASSUME \/ state' \notin {"Fetch", "FlashOTA", "Reboot"} \cup Failures
         \/ state' \in Failures /\ fault'
  PROVE  Sound'
<1>1. {"Fetch", "FlashOTA", "Reboot"} \cap Failures = {}
  BY StatesApart
<1> QED
  BY <1>1 DEF Sound, FetchProgress, FlashOnlyVerified, FailureHasCause

\* Progress is kept by a step that leaves download, server and fault alone.
LEMMA SoundStill ==
  ASSUME Sound, download' = download, server' = server, fault' = fault,
         state' = state \/ (state = "FlashOTA" /\ state' = "Reboot")
  PROVE  Sound'
<1>1. "Reboot" \notin {"Fetch"} \cup Failures
  BY StatesApart
<1>2. FlashOnlyVerified'
  BY DEF Sound, FlashOnlyVerified
<1>3. CASE state' = state
  <2>1. Progress => Progress'
    BY Zenon DEF Progress
  <2>2. FetchProgress' /\ FailureHasCause'
    BY <1>3, <2>1, Zenon DEF Sound, FetchProgress, FailureHasCause
  <2> QED
    BY <1>2, <2>2 DEF Sound
<1>4. CASE state = "FlashOTA" /\ state' = "Reboot"
  BY <1>1, <1>2, <1>4 DEF Sound, FetchProgress, FailureHasCause
<1> QED
  BY <1>3, <1>4

\* A download that was just started.
LEMMA SoundStart ==
  ASSUME Inv, StartDownload
  PROVE  Sound'
<1>1. BoardStep("StartOTA", "Fetch") /\ download' = NewDownload
  BY DEF StartDownload
<1>2. PICK length \in Lengths, file \in {"good", "damaged", "foreign"}, more \in {0, 1} :
        /\ server' = [connected |-> TRUE, available |-> 0, left |-> length + more,
                      total |-> length + more, length |-> length, file |-> file]
        /\ fault' = (file # "good" \/ more # 0)
  BY DEF StartDownload
<1>3. length \in Nat
  BY DownloadAssumption DEF DownloadAssumption
<1>4. state' = "Fetch"
  BY <1>1 DEF BoardStep, Call
<1>5. /\ server'.connected /\ server'.available = 0 /\ server'.left = length + more
      /\ server'.total = length + more /\ server'.length = length /\ server'.file = file
  BY <1>2
<1>6. /\ download'.phase = "Header" /\ download'.headerCopied = 0 /\ download'.size = 0
      /\ download'.stored = 0 /\ ~download'.writeError
  BY <1>1 DEF NewDownload
<1>7. ~fault' => file = "good" /\ more = 0
  BY <1>2
<1>8. Progress'
  BY <1>3, <1>5, <1>6, <1>7 DEF Progress
<1>9. "Fetch" \notin {"FlashOTA", "Reboot"} \cup Failures
  BY StatesApart
<1> QED
  BY <1>4, <1>8, <1>9 DEF Sound, FetchProgress, FlashOnlyVerified, FailureHasCause

\* A block leads on, to a verified file, or to a failure that has its cause.
LEMMA SoundBlock ==
  ASSUME Inv, Sound, FetchBlock
  PROVE  Sound'
<1> USE DownloadAssumption DEF DownloadAssumption
<1>1. PICK stores \in BOOLEAN :
        \E outcome \in Outcomes(ParseOta(download, BlockSize, stores)) :
          /\ BoardStep("Fetch", outcome)
          /\ download' = ParseOta(download, BlockSize, stores)
          /\ Leave(outcome, [server EXCEPT !.available = @ - BlockSize])
          /\ fault' = (fault \/ ~stores)
  BY DEF FetchBlock
<1>2. PICK outcome \in Outcomes(download') :
        /\ BoardStep("Fetch", outcome)
        /\ Leave(outcome, [server EXCEPT !.available = @ - BlockSize])
  BY <1>1
<1>3. server.connected /\ server.available > 0
  BY DEF FetchBlock
<1>4. state = "Fetch" /\ state' = outcome
  BY <1>2 DEF BoardStep, Call
<1>5. Progress /\ download \in Downloads /\ server \in Servers
  BY <1>4, InvParts DEF Sound, FetchProgress, DownloadHeld
<1>6. download' = ParseOta(download, BlockSize, stores) /\ fault' = (fault \/ ~stores)
  BY <1>1
<1> DEFINE e == download'
<1>7. /\ BlockSize \in Nat /\ BlockSize <= server.available
      /\ \/ e.phase = "MagicNumberMismatch" /\ server.file = "foreign" /\ ~e.writeError
         \/ /\ e.size = download.size + BlockSize
            /\ e.fed = e.size
            /\ e.writeError <=> ~stores
            /\ stores => HeaderSize + e.stored = e.size
            /\ e.phase = CASE e.size = server.length -> "Completed"
                           [] e.size > server.length -> "Error"
                           [] OTHER                  -> "File"
  BY <1>3, <1>5, <1>6, BlockParsed
<1>8. /\ server.available \in Nat /\ server.left \in Nat /\ server.total \in Nat
      /\ server.length \in Nat /\ download.size \in Nat
      /\ download.size + server.available + server.left = server.total
  BY <1>3, <1>5 DEF Servers, Downloads, Progress
<1>9. fault \/ (server.file = "good" /\ server.total = server.length)
  BY <1>5 DEF Progress
<1>10. {"Fetch", "FlashOTA", "Reboot"} \cap Failures = {}
  BY StatesApart
<1>11. server'.file = server.file /\ server'.length = server.length
  BY <1>2, <1>5 DEF Leave, Servers
<1>12. CASE e.phase = "MagicNumberMismatch" /\ server.file = "foreign" /\ ~e.writeError
  <2>1. outcome = "OtaHeaderMagicNumberFail"
    BY <1>2, <1>12 DEF Outcomes
  <2>2. outcome \in Failures
    BY <2>1 DEF Failures
  <2>3. fault'
    BY <1>6, <1>9, <1>12
  <2> QED
    BY <1>4, <2>2, <2>3, SoundElsewhere
<1>13. CASE ~(e.phase = "MagicNumberMismatch" /\ server.file = "foreign" /\ ~e.writeError)
  <2>1. /\ e.size = download.size + BlockSize
        /\ e.fed = e.size
        /\ e.writeError <=> ~stores
        /\ stores => HeaderSize + e.stored = e.size
        /\ e.phase = CASE e.size = server.length -> "Completed"
                       [] e.size > server.length -> "Error"
                       [] OTHER                  -> "File"
    BY <1>7, <1>13
  <2>2. e.size \in Nat /\ e.size <= server.total
    BY <1>7, <1>8, <2>1
  <2>3. CASE ~stores
    <3> HIDE DEF e
    <3>1. e.phase # "Corrupt"
      <4>1. e.phase \in {"Completed", "Error", "File"}
        BY <2>1, <1>8, <2>2
      <4> QED
        BY <4>1
    <3>2. outcome = "ErrorWriteUpdateFileFail"
      <4>1. e.writeError
        BY <2>1, <2>3, Zenon
      <4>2. Outcomes(e) = {"ErrorWriteUpdateFileFail"}
        BY <3>1, <4>1, Zenon DEF Outcomes
      <4> QED
        BY <1>2, <4>2 DEF e
    <3>3. outcome \in Failures
      BY <3>2 DEF Failures
    <3>4. fault'
      BY <1>6, <2>3
    <3> QED
      BY <1>4, <3>3, <3>4, SoundElsewhere
  <2>4. CASE stores /\ e.size = server.length
    <3>1. e.phase = "Completed" /\ ~e.writeError
      <4> HIDE DEF e
      <4>1. e.phase = "Completed"
        BY <1>8, <2>1, <2>2, <2>4
      <4>2. ~e.writeError
        BY <2>1, <2>4, Zenon
      <4> QED
        BY <4>1, <4>2
    <3>2. outcome = IF server'.file = "good" /\ e.fed = server'.length
                    THEN "FlashOTA" ELSE "OtaHeaderCrcFail"
      <4>1. outcome = IF CrcMatches(e) THEN "FlashOTA" ELSE "OtaHeaderCrcFail"
        BY <1>2, <3>1 DEF Outcomes
      <4> QED
        BY <1>11, <4>1 DEF CrcMatches
    <3>3. CASE server.file = "good"
      <4>1. outcome = "FlashOTA"
        BY <1>11, <2>1, <2>4, <3>2, <3>3
      <4>2. server'.file = "good" /\ download'.size = server'.length
            /\ HeaderSize + download'.stored = server'.length
        BY <1>11, <2>1, <2>4, <3>3
      <4> QED
        BY <1>4, <1>10, <4>1, <4>2
        DEF Sound, FetchProgress, FlashOnlyVerified, FailureHasCause
    <3>4. CASE server.file # "good"
      <4>1. outcome = "OtaHeaderCrcFail"
        BY <1>11, <3>2, <3>4
      <4>2. outcome \in Failures
        BY <4>1 DEF Failures
      <4>3. fault'
        BY <1>6, <1>9, <3>4
      <4> QED
        BY <1>4, <4>2, <4>3, SoundElsewhere
    <3> QED
      BY <3>3, <3>4
  <2>5. CASE stores /\ e.size > server.length
    <3>1. e.phase = "Error" /\ ~e.writeError
      BY <1>8, <2>1, <2>2, <2>5
    <3>2. outcome = "OtaDownloadFail"
      BY <1>2, <3>1 DEF Outcomes
    <3>3. outcome \in Failures
      BY <3>2 DEF Failures
    <3>4. server.total # server.length
      BY <1>8, <2>2, <2>5
    <3>5. fault'
      BY <1>6, <1>9, <3>4
    <3> QED
      BY <1>4, <3>3, <3>5, SoundElsewhere
  <2>6. CASE stores /\ e.size < server.length
    <3>1. e.phase = "File" /\ ~e.writeError
      BY <1>8, <2>1, <2>2, <2>6
    <3>2. outcome = "Fetch"
      BY <1>2, <3>1 DEF Outcomes
    <3>3. server' = [server EXCEPT !.available = @ - BlockSize]
      BY <1>2, <3>2 DEF Leave
    <3>4. /\ server'.available = server.available - BlockSize
          /\ server'.left = server.left /\ server'.total = server.total
      BY <1>5, <3>3 DEF Servers
    <3>5. server'.connected = server.connected
      BY <1>5, <3>3 DEF Servers
    <3>6. server'.connected
      BY <1>3, <3>5
    <3>7. /\ server'.length \in Lengths
          /\ server'.length <= server'.total
          /\ download'.size + server'.available + server'.left = server'.total
      BY <1>5, <1>7, <1>8, <1>11, <2>1, <3>4 DEF Progress
    <3>8. ~fault' => server'.file = "good" /\ server'.total = server'.length
      BY <1>6, <1>9, <1>11, <3>4
    <3>9. Progress'
      BY <1>11, <2>1, <2>6, <3>1, <3>6, <3>7, <3>8 DEF Progress
    <3> QED
      BY <1>4, <1>10, <3>2, <3>9 DEF Sound, FetchProgress, FlashOnlyVerified, FailureHasCause
  <2> QED
    BY <1>8, <2>2, <2>3, <2>4, <2>5, <2>6
<1> QED
  BY <1>12, <1>13

\* What the server sends first is more than the header.
LEMMA SoundSends ==
  ASSUME FirstBurst > HeaderSize, Inv, Sound, ServerSends
  PROVE  Sound'
<1> USE DownloadAssumption DEF DownloadAssumption
<1>1. PICK n \in 1..server.left :
        /\ server.left = server.total => n >= FirstBurst \/ n = server.left
        /\ server' = [server EXCEPT !.available = @ + n, !.left = @ - n]
  BY DEF ServerSends
<1>2. server.connected /\ state' = state /\ download' = download /\ fault' = fault
  BY DEF ServerSends, otaVars
<1>3. server \in Servers
  BY InvParts DEF DownloadHeld
<1>4. /\ server'.available = server.available + n /\ server'.left = server.left - n
      /\ server'.total = server.total /\ server'.length = server.length
      /\ server'.file = server.file
  BY <1>1, <1>3 DEF Servers
<1>5. server'.connected = server.connected
  BY <1>1, <1>3 DEF Servers
<1>6. FlashOnlyVerified' /\ FailureHasCause'
  BY <1>2, <1>4 DEF Sound, FlashOnlyVerified, FailureHasCause
<1>7. ASSUME state = "Fetch"
      PROVE  Progress'
  <2>1. Progress /\ download \in Downloads
    BY <1>7, InvParts DEF Sound, FetchProgress, DownloadHeld
  <2>2. /\ server.available \in Nat /\ server.left \in Nat /\ server.total \in Nat
        /\ server.length \in Nat /\ download.size \in Nat /\ n \in Nat
    BY <1>3, <2>1 DEF Servers, Downloads
  <2>3. download.size + server.available + server.left = server.total
    BY <1>2, <2>1 DEF Progress
  <2>4. download'.size + server'.available + server'.left = server'.total
    BY <1>2, <1>4, <2>2, <2>3
  <2>5. ASSUME download.phase = "Header"
        PROVE  server'.available > HeaderSize
    <3>1. /\ download.size = 0
          /\ server.available = 0 \/ server.available > HeaderSize
          /\ server.length \in Lengths /\ server.length <= server.total
      BY <2>1, <2>5 DEF Progress
    <3>2. CASE server.available = 0
      <4>1. server.left = server.total
        BY <2>2, <2>3, <3>1, <3>2
      <4>2. server.length > HeaderSize
        BY <3>1
      <4>3. n > HeaderSize
        BY <1>1, <2>2, <3>1, <4>1, <4>2
      <4> QED
        BY <1>4, <2>2, <4>3
    <3>3. CASE server.available > HeaderSize
      BY <1>4, <2>2, <3>3
    <3> QED
      BY <3>1, <3>2, <3>3
  <2>6. server'.connected
    BY <1>2, <1>5
  <2> QED
    BY <1>2, <1>4, <2>1, <2>4, <2>5, <2>6 DEF Progress
<1> QED
  BY <1>2, <1>6, <1>7 DEF Sound, FetchProgress

\* A connection that ends during the download ends too early.
LEMMA SoundCloses ==
  ASSUME Inv, Sound, ServerCloses
  PROVE  Sound'
<1> USE DownloadAssumption DEF DownloadAssumption
<1>1. /\ server.connected
      /\ server' = [server EXCEPT !.connected = FALSE, !.available = 0, !.left = 0]
      /\ fault' = (fault \/ server.left > 0 \/ server.available > 0)
      /\ state' = state /\ download' = download
  BY DEF ServerCloses, otaVars
<1>2. server \in Servers
  BY InvParts DEF DownloadHeld
<1>3. /\ server'.available = 0 /\ server'.total = server.total
      /\ server'.length = server.length /\ server'.file = server.file
  BY <1>1, <1>2 DEF Servers
<1>4. ~server'.connected
  BY <1>1, <1>2 DEF Servers
<1>5. FlashOnlyVerified' /\ FailureHasCause'
  BY <1>1, <1>3 DEF Sound, FlashOnlyVerified, FailureHasCause
<1>6. ASSUME state = "Fetch"
      PROVE  Progress'
  <2>1. Progress /\ download \in Downloads
    BY <1>6, InvParts DEF Sound, FetchProgress, DownloadHeld
  <2>2. /\ server.available \in Nat /\ server.left \in Nat /\ server.total \in Nat
        /\ server.length \in Nat /\ download.size \in Nat
    BY <1>2, <2>1 DEF Servers, Downloads
  <2>3. download.size + server.available + server.left = server.total
    BY <1>1, <2>1 DEF Progress
  <2>4. server.length <= server.total /\ server.length > 0
    BY <2>1, <2>2 DEF Progress
  <2>5. download.size < server.length
    BY <2>1, <2>4 DEF Progress
  <2>6. server.left > 0 \/ server.available > 0
    BY <2>2, <2>3, <2>4, <2>5
  <2>7. fault'
    BY <1>1, <2>6
  <2> QED
    BY <1>1, <1>3, <1>4, <2>1, <2>7 DEF Progress
<1> QED
  BY <1>1, <1>5, <1>6 DEF Sound, FetchProgress

\* Every step keeps Sound, if the header never arrives alone.
LEMMA SoundNext ==
  ASSUME FirstBurst > HeaderSize, Inv, Sound, [Next]_vars
  PROVE  Sound'
<1> USE StatesApart
<1>1. CASE Next
  <2>1. CASE /\ Still
             /\ \/ Resume
                \/ \E capable \in BOOLEAN : OtaBegin(capable)
                \/ IdleAlone
                \/ \E update \in Updates : IdleOffered(update)
                \/ \E agreed \in BOOLEAN : OtaAvailable(agreed)
    <3>1. state' \in QuietStates \cup {"OtaAvailable", "StartOTA"}
      BY <2>1 DEF Resume, OtaBegin, IdleAlone, IdleOffered, OtaAvailable, Call
    <3>2. state' \notin {"Fetch", "FlashOTA", "Reboot"} \cup Failures
      BY <3>1
    <3> QED
      BY <3>2, SoundElsewhere
  <2>2. CASE StartWithoutStorage \/ StartWithBadUrl \/ StartWithBadServer
    <3>1. fault' /\ state' \in Failures
      BY <2>2 DEF StartWithoutStorage, StartWithBadUrl, StartWithBadServer,
                  BoardStep, Call, Failures
    <3> QED
      BY <3>1, SoundElsewhere
  <2>3. CASE StartDownload
    BY <2>3, SoundStart
  <2>4. CASE FetchDisconnected
    <3>1. /\ state = "Fetch" /\ state' = "OtaDownloadFail" /\ fault' = fault
          /\ ~server.connected
      BY <2>4 DEF FetchDisconnected, BoardStep, Call
    <3>2. fault
      BY <3>1 DEF Sound, FetchProgress, Progress
    <3>3. state' \in Failures
      BY <3>1 DEF Failures
    <3> QED
      BY <3>1, <3>2, <3>3, SoundElsewhere
  <2>5. CASE FetchNothing
    BY <2>5, SoundStill DEF FetchNothing, BoardStep, Call
  <2>6. CASE FetchReadError
    <3>1. fault' /\ state' \in Failures
      BY <2>6 DEF FetchReadError, BoardStep, Call, Failures
    <3> QED
      BY <3>1, SoundElsewhere
  <2>7. CASE FetchBlock
    BY <2>7, SoundBlock
  <2>8. CASE FlashOTA
    <3>1. CASE BoardStep("FlashOTA", "Reboot") /\ UNCHANGED <<download, http, server, fault>>
      BY <3>1, SoundStill DEF BoardStep, Call
    <3>2. CASE BoardStep("FlashOTA", "OtaStorageEndFail") /\ fault' = TRUE
      <4>1. fault' /\ state' \in Failures
        BY <3>2 DEF BoardStep, Call, Failures
      <4> QED
        BY <4>1, SoundElsewhere
    <3> QED
      BY <2>8, <3>1, <3>2 DEF FlashOTA
  <2>9. CASE Reboot \/ FailAndReset
    <3>1. state' \in QuietStates
      BY <2>9 DEF Reboot, FailAndReset, Fail, Call
    <3>2. state' \notin {"Fetch", "FlashOTA", "Reboot"} \cup Failures
      BY <3>1
    <3> QED
      BY <3>2, SoundElsewhere
  <2>10. CASE OnOTARequestCb /\ Still
    BY <2>10, SoundStill DEF OnOTARequestCb, Still
  <2>11. CASE ServerSends
    BY <2>11, SoundSends
  <2>12. CASE ServerCloses
    BY <2>12, SoundCloses
  <2> QED
    BY <1>1, <2>1, <2>2, <2>3, <2>4, <2>5, <2>6, <2>7, <2>8, <2>9, <2>10, <2>11, <2>12, Steps
<1>2. CASE UNCHANGED vars
  BY <1>2, SoundStill DEF vars, otaVars
<1> QED
  BY <1>1, <1>2

\* The inductive invariant of the download.
LEMMA SoundHolds ==
  ASSUME FirstBurst > HeaderSize
  PROVE  Spec => []Sound
<1>1. Init => Sound
  BY StatesApart DEF Init, OTAInit, Sound, FetchProgress, FlashOnlyVerified, FailureHasCause
<1>2. Inv /\ Sound /\ [Next]_vars => Sound'
  BY SoundNext
<1> QED
  BY <1>1, <1>2, InvHolds, PTL DEF Spec

\* If the header never arrives alone, the board restarts only into a file that
\* was received, verified and stored as a whole (OTAInterfaceDefault.cpp:90-154).
THEOREM FlashOnlyVerifiedHolds ==
  ASSUME FirstBurst > HeaderSize
  PROVE  Spec => []FlashOnlyVerified
<1>1. Sound => FlashOnlyVerified
  BY DEF Sound
<1> QED
  BY <1>1, SoundHolds, PTL

\* If the header never arrives alone, an update fails only because the server,
\* the network or the flash did (OTAInterfaceDefault.cpp:90-223).
THEOREM FailureHasCauseHolds ==
  ASSUME FirstBurst > HeaderSize
  PROVE  Spec => []FailureHasCause
<1>1. Sound => FailureHasCause
  BY DEF Sound
<1> QED
  BY <1>1, SoundHolds, PTL
=============================================================================
