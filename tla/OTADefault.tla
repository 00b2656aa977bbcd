----------------------------- MODULE OTADefault -----------------------------
(***************************************************************************)
(* OTADefaultCloudProcessInterface: boards that download the update        *)
(* themselves.  startOTA() asks an HTTP server for the file; fetch() reads *)
(* what has arrived, block by block, and feeds it to the header, the       *)
(* checksum, the decoder and the flash.                                    *)
(*                                                                         *)
(* Bytes are counted, not represented.  A call of fetch() is one pass of   *)
(* its loop: a call of several passes changes the state as that many calls *)
(* of one pass do.                                                         *)
(***************************************************************************)
EXTENDS OTAProcess

CONSTANTS HeaderSize,  \* sizeof(OTAHeader)
          BufLen,      \* size of the read buffer
          Lengths,     \* lengths of the files the server may have
          FirstBurst   \* bytes that are there, at least, when the first arrive

ASSUME DownloadAssumption ==
  /\ HeaderSize \in Nat \ {0}
  /\ BufLen \in Nat
  /\ BufLen > HeaderSize
  /\ Lengths \subseteq Nat
  /\ \A len \in Lengths : len > HeaderSize
  /\ FirstBurst \in Nat \ {0}

VARIABLES
  download,   \* context of the download
  http,       \* the HttpClient exists
  server,     \* the server's side: the connection, and the file
  fault       \* history: server, network or flash misbehaved in this update

vars == <<otaVars, download, http, server, fault>>

-----------------------------------------------------------------------------
Phases == {"Header", "File", "Completed", "MagicNumberMismatch", "Error", "Corrupt"}

\* fed: bytes in calculatedCrc32, where the header counts as a whole; stored: bytes
\* decoded into the flash (history).
Downloads == [phase : Phases, headerCopied : 0..HeaderSize, size : Nat,
              fed : Nat, stored : Nat, writeError : BOOLEAN]

NoDownload == [phase |-> "None"]

NewDownload == [phase |-> "Header", headerCopied |-> 0, size |-> 0,
                fed |-> 0, stored |-> 0, writeError |-> FALSE]

\* length is contentLength(), total what the server is going to send.
Servers == [connected : BOOLEAN, available : Nat, left : Nat, total : Nat,
            length : Nat, file : {"good", "damaged", "foreign"}]

NoServer == [connected |-> FALSE, available |-> 0, left |-> 0, total |-> 0,
             length |-> 0, file |-> "good"]

TypeOK ==
  /\ OTATypeOK
  /\ download \in Downloads \cup {NoDownload}
  /\ http \in BOOLEAN
  /\ server \in Servers
  /\ fault \in BOOLEAN

Init ==
  /\ OTAInit
  /\ download = NoDownload
  /\ http = FALSE
  /\ server = NoServer
  /\ fault = FALSE

-----------------------------------------------------------------------------
(* parseOta(): one block of n bytes.                                       *)

\* Mutant: the header is not counted.
AddToFileUncounted(d, n, rest, stores) ==
  IF rest = 0
  THEN d
  ELSE LET size == d.size + rest
       IN  [d EXCEPT !.size = size,
                     !.fed = @ + rest,
                     !.stored = IF stores THEN @ + rest ELSE @,
                     !.writeError = @ \/ ~stores,
                     !.phase = CASE size = server.length -> "Completed"
                                 [] size > server.length -> "Error"
                                 [] OTHER                -> "File"]

\* The last rest bytes of the block belong to the file.  The whole block is added
\* to downloadedSize.  stores: the flash takes the decoded bytes.
AddToFile(d, n, rest, stores) ==
  IF rest = 0
  THEN d
  ELSE LET size == d.size + n
       IN  [d EXCEPT !.size = size,
                     !.fed = @ + rest,
                     !.stored = IF stores THEN @ + rest ELSE @,
                     !.writeError = @ \/ ~stores,
                     !.phase = CASE size = server.length -> "Completed"
                                 [] size > server.length -> "Error"
                                 [] OTHER                -> "File"]

\* As many bytes are taken for the header as the header has, also if some of
\* them are there already: then other fields are overwritten.
AddToHeader(d, n, stores) ==
  LET copied == IF n < HeaderSize THEN n ELSE HeaderSize
      filled == d.headerCopied + copied
  IN  CASE filled < HeaderSize -> [d EXCEPT !.headerCopied = filled]
        [] filled > HeaderSize -> [d EXCEPT !.phase = "Corrupt"]
        [] filled = HeaderSize ->
             LET full == [d EXCEPT !.headerCopied = filled, !.fed = filled]
             IN  IF server.file = "foreign"
                 THEN [full EXCEPT !.phase = "MagicNumberMismatch"]
                 ELSE AddToFile([full EXCEPT !.phase = "File"], n, n - copied, stores)

ParseOta(d, n, stores) ==
  CASE d.phase = "Header" -> AddToHeader(d, n, stores)
    [] d.phase = "File"   -> AddToFile(d, n, n, stores)
    [] OTHER              -> d

\* The checksum is right when it was computed over the file and nothing else.
CrcMatches(d) == server.file = "good" /\ d.fed = server.length

\* Mutant: bytes that could not be stored are not noticed.
OutcomesIgnoringWrites(d) ==
  CASE d.phase = "Corrupt"             -> {"Fetch", "FlashOTA"} \cup Failures
    [] d.phase = "Completed"           -> {IF CrcMatches(d) THEN "FlashOTA"
                                                            ELSE "OtaHeaderCrcFail"}
    [] d.phase = "Error"               -> {"OtaDownloadFail"}
    [] d.phase = "MagicNumberMismatch" -> {"OtaHeaderMagicNumberFail"}
    [] OTHER                           -> {"Fetch"}

\* What fetch() returns after a block; anything once the context is corrupt.
Outcomes(d) ==
  IF d.phase = "Corrupt" THEN {"Fetch", "FlashOTA"} \cup Failures
  ELSE IF d.writeError   THEN {"ErrorWriteUpdateFileFail"}
  ELSE CASE d.phase = "Completed"           -> {IF CrcMatches(d) THEN "FlashOTA"
                                                                 ELSE "OtaHeaderCrcFail"}
         [] d.phase = "Error"               -> {"OtaDownloadFail"}
         [] d.phase = "MagicNumberMismatch" -> {"OtaHeaderMagicNumberFail"}
         [] OTHER                           -> {"Fetch"}

-----------------------------------------------------------------------------
(* startOTA(), of the board and of this class.                             *)

\* The board's storage is not ready; one failure stands for those of all boards.
StartWithoutStorage ==
  /\ BoardStep("StartOTA", "OtaStorageInitFail")
  /\ fault' = TRUE
  /\ UNCHANGED <<download, http, server>>

StartWithBadUrl ==
  /\ BoardStep("StartOTA", "UrlParseErrorFail")
  /\ download' = NewDownload
  /\ fault' = TRUE
  /\ UNCHANGED <<http, server>>

StartWithBadServer ==
  /\ \E failure \in {"ServerConnectErrorFail", "OtaHeaderTimeoutFail", "OtaDownloadFail",
                     "HttpResponseFail", "HttpHeaderErrorFail"} :
       BoardStep("StartOTA", failure)
  /\ download' = NewDownload
  /\ http' = TRUE
  /\ fault' = TRUE
  /\ UNCHANGED server

\* The server may send a byte too many.
StartDownload ==
  /\ BoardStep("StartOTA", "Fetch")
  /\ download' = NewDownload
  /\ http' = TRUE
  /\ \E length \in Lengths, file \in {"good", "damaged", "foreign"}, more \in {0, 1} :
       /\ server' = [connected |-> TRUE, available |-> 0, left |-> length + more,
                     total |-> length + more, length |-> length, file |-> file]
       /\ fault' = (file # "good" \/ more # 0)

-----------------------------------------------------------------------------
(* fetch().                                                                *)

\* The end of fetch(): the client is stopped when the download is over.
Leave(outcome, afterwards) ==
  /\ http' = (outcome = "Fetch")
  /\ server' = IF outcome = "Fetch"
               THEN afterwards
               ELSE [afterwards EXCEPT !.connected = FALSE, !.available = 0, !.left = 0]

\* Mutant: the end of the connection is not noticed.
FetchFromNobody ==
  /\ ~server.connected
  /\ BoardStep("Fetch", "Fetch")
  /\ UNCHANGED <<download, http, server, fault>>

FetchDisconnected ==
  /\ ~server.connected
  /\ BoardStep("Fetch", "OtaDownloadFail")
  /\ Leave("OtaDownloadFail", server)
  /\ UNCHANGED <<download, fault>>

FetchNothing ==
  /\ server.connected
  /\ server.available = 0
  /\ BoardStep("Fetch", "Fetch")
  /\ UNCHANGED <<download, http, server, fault>>

FetchReadError ==
  /\ server.connected
  /\ server.available > 0
  /\ BoardStep("Fetch", "OtaDownloadFail")
  /\ Leave("OtaDownloadFail", server)
  /\ fault' = TRUE
  /\ UNCHANGED download

\* Mutant: the block is taken to be full.
FullBlockSize == BufLen

\* What read() returns.
BlockSize == IF server.available < BufLen THEN server.available ELSE BufLen

FetchBlock ==
  /\ server.connected
  /\ server.available > 0
  /\ LET n == BlockSize
     IN  \E stores \in BOOLEAN :
           LET parsed == ParseOta(download, n, stores)
           IN  \E outcome \in Outcomes(parsed) :
                 /\ BoardStep("Fetch", outcome)
                 /\ download' = parsed
                 /\ Leave(outcome, [server EXCEPT !.available = @ - n])
                 /\ fault' = (fault \/ ~stores)

-----------------------------------------------------------------------------
\* flashOTA() of the board; one failure stands for those of all boards.
FlashOTA ==
  \/ BoardStep("FlashOTA", "Reboot") /\ UNCHANGED <<download, http, server, fault>>
  \/ /\ BoardStep("FlashOTA", "OtaStorageEndFail")
     /\ fault' = TRUE
     /\ UNCHANGED <<download, http, server>>

\* The board restarts.
Reboot ==
  /\ state = "Reboot"
  /\ state' = "Resume"
  /\ previous' = "Resume"
  /\ job' = NoUpdate
  /\ mustApprove' = FALSE
  /\ approved' = FALSE
  /\ consent' = FALSE
  /\ entered' = 0
  /\ reported' = 0
  /\ download' = NoDownload
  /\ http' = FALSE
  /\ server' = NoServer
  /\ fault' = FALSE

\* Mutant: the failed download is not released.
FailKeepingDownload ==
  /\ Fail
  /\ fault' = FALSE
  /\ UNCHANGED <<download, http, server>>

FailAndReset ==
  /\ Fail
  /\ download' = NoDownload
  /\ http' = FALSE
  /\ server' = NoServer
  /\ fault' = FALSE

-----------------------------------------------------------------------------
(* The server.                                                             *)

ServerSends ==
  /\ server.connected
  /\ \E n \in 1..server.left :
       /\ server.left = server.total => n >= FirstBurst \/ n = server.left
       /\ server' = [server EXCEPT !.available = @ + n, !.left = @ - n]
  /\ UNCHANGED <<otaVars, download, http, fault>>

\* Bytes that were not read are lost with the connection.
ServerCloses ==
  /\ server.connected
  /\ server' = [server EXCEPT !.connected = FALSE, !.available = 0, !.left = 0]
  /\ fault' = (fault \/ server.left > 0 \/ server.available > 0)
  /\ UNCHANGED <<otaVars, download, http>>

-----------------------------------------------------------------------------
Common ==
  /\ Resume \/ (\E capable \in BOOLEAN : OtaBegin(capable)) \/ IdleAlone
  /\ UNCHANGED <<download, http, server, fault>>

StartOTA ==
  StartWithoutStorage \/ StartWithBadUrl \/ StartWithBadServer \/ StartDownload

Fetch == FetchDisconnected \/ FetchNothing \/ FetchReadError \/ FetchBlock

Offered(update) ==
  IdleOffered(update) /\ UNCHANGED <<download, http, server, fault>>

\* handle_Connected asks for the approval, and then calls update().
Available(agreed) ==
  OtaAvailable(agreed) /\ UNCHANGED <<download, http, server, fault>>

\* The steps that update() and an offer that comes too late have in common.
HandleMessage == Common \/ StartOTA \/ Fetch \/ FlashOTA \/ Reboot \/ FailAndReset

Update == HandleMessage \/ \E agreed \in BOOLEAN : Available(agreed)

\* handleMessage() with an offer, from poll(): nobody asks for the approval.
OtaUpdateCmd ==
  \/ \E update \in Updates : Offered(update)
  \/ state # "Idle" /\ (HandleMessage \/ Available(FALSE))

Sketch == OnOTARequestCb /\ UNCHANGED <<download, http, server, fault>>

Next == Update \/ OtaUpdateCmd \/ Sketch \/ ServerSends \/ ServerCloses

Spec == Init /\ [][Next]_vars

\* loop() calls update() for ever.  A server that neither sends nor closes stalls
\* the download for ever, as fetch() has no timeout; so the server acts.
FairSpec == Spec /\ WF_vars(Update) /\ WF_vars(ServerSends \/ ServerCloses)

-----------------------------------------------------------------------------
\* A download has its context and client while fetch() uses them, and an update
\* that is over, or not started, holds neither: the assertions of idle() and
\* startOTA() never fail, however many updates were tried
\* (OTAInterface.cpp:150, OTAInterfaceDefault.cpp:31-33, 225-241).
HoldsWhatItUses ==
  /\ state \in QuietStates <=> job = NoUpdate
  /\ state = "Fetch" => http /\ download # NoDownload
  /\ state \in QuietStates \cup {"OtaAvailable", "StartOTA"} => ~http /\ download = NoDownload

\* The board restarts into a file only when it was received as a whole, its
\* checksum was right and every byte of it reached the flash
\* (fetch, OTAInterfaceDefault.cpp:90-154).
FlashOnlyVerified ==
  state \in {"FlashOTA", "Reboot"} =>
    /\ server.file = "good"
    /\ download.size = server.length
    /\ HeaderSize + download.stored = server.length

\* An update fails only if something went wrong: a good file that a server sends
\* as a whole is installed, "when the download is correctly finished we set the
\* mcu to use the newly downloaded binary" (OTAInterface.h:122).
FailureHasCause == state \in Failures => fault

\* Every update that was started comes to an end, and the process is ready for
\* the next one (fetch and fail, OTAInterface.cpp:178-183).
UpdateEnds == state = "StartOTA" ~> state \in {"Idle", "Resume"}
=============================================================================
