--------------------------- MODULE AuthController ---------------------------
(***************************************************************************)
(* The authentication (AuthController) and the self-authentication         *)
(* (SelfAuthController): fetch the TC token, talk PAOS with the eID        *)
(* server, let the user approve the access rights, open the PACE channel   *)
(* (CompositeStatePace), pass the server's commands to the card, release   *)
(* the card and send the caller on.                                        *)
(*                                                                         *)
(* The eID server and the network are external. The server conforms to the *)
(* protocol: it only praises a card that has proven its chip, and once a   *)
(* response has told it of an error it asks for nothing more than the end. *)
(* Every request is answered or times out (NetworkReplyTimeout); being     *)
(* redirected once more leaves a waiting state as it is.                   *)
(***************************************************************************)
EXTENDS CompositeStatePace

VARIABLES
  kind,           \* "auth" or "selfauth"
  tcToken,        \* AuthContext: mTcToken is "none", "invalid" or "valid"
  tcTokenNotFound,\* mTcTokenNotFound
  refreshUrl,     \* mRefreshUrl is known
  errorReported,  \* mErrorReportedToServer
  verdict,        \* result in mStartPaosResponse: "none", "ok", "error"
  token,          \* mDIDAuthenticateResponseEAC2 holds the chip's authentication token
  server,         \* the eID server (the world): "running", "authentic", "failed"
  chan,           \* [Readers -> how far the chip behind the open handle is] (the world)
  answer,         \* history: what the caller was sent
  history         \* an entry was added to the history of authentications

webVars  == <<kind, tcToken, tcTokenNotFound, refreshUrl, answer, history>>
paosVars == <<errorReported, verdict, token, server>>
authVars == <<webVars, paosVars, chan>>
allVars  == <<cardVars, paceVars, authVars>>

SendStates ==
  { "SendStartPaos", "SendInitializeFrameworkResponse", "SendDIDListResponse",
    "SendDIDAuthenticateResponseEAC1", "SendDIDAuthenticateResponseEACAdditionalInput",
    "SendDIDAuthenticateResponseEAC2", "SendTransmitResponse", "SendDisconnectResponse" }
CardStates == {"DidAuthenticateEac1", "DidAuthenticateEac2", "Transmit"}
AuthStates ==
  SendStates \cup CardStates \cup
  { "Processing", "ParseTcTokenUrl", "LoadTcTokenUrl", "GetTcToken", "StartPaos",
    "InitializeFramework", "DidList", "ExtractCvcsFromEac1InputType", "PreVerification",
    "CertificateDescriptionCheck", "CheckCertificates", "EditAccessRights",
    "ClearPacePasswords", "EACAdditionalInputType", "ProcessCertificatesFromEac2",
    "StartPaosResponse", "UpdateRetryCounterFinal", "CleanUpReaderManager", "CheckError",
    "CheckRefreshAddress", "ActivateStoreFeedbackDialog", "WriteHistory",
    "GetSelfAuthenticationData", "ShowSelfInfo", "SendWhitelistSurvey", "RedirectBrowser",
    "FinalState", "Stopped" }

(* The ranges of all variables; in particular the workflow only records    *)
(* statuses that the conversion of a return code can yield.                *)
TypeOK ==
  /\ CardTypeOK
  /\ ContextTypeOK
  /\ st \in PaceStates \cup PaceSignals \cup AuthStates
  /\ kind \in {"auth", "selfauth"}
  /\ tcToken \in {"none", "invalid", "valid"} /\ tcTokenNotFound \in BOOLEAN
  /\ refreshUrl \in BOOLEAN /\ errorReported \in BOOLEAN /\ history \in BOOLEAN
  /\ verdict \in {"none", "ok", "error"}
  /\ token \in BOOLEAN
  /\ server \in {"running", "authentic", "failed"}
  /\ chan \in [Readers -> {"closed", "pace", "eac1", "eac2"}]
  /\ answer \in {"none", "success", "failure", "notFound"}

Init ==
  /\ CardInit /\ ContextInit
  /\ kind \in {"auth", "selfauth"}
  /\ st = IF kind = "auth" THEN "Processing" ELSE "LoadTcTokenUrl"
  /\ tcToken = "none" /\ tcTokenNotFound = TRUE
  /\ refreshUrl = FALSE /\ errorReported = FALSE /\ history = FALSE
  /\ verdict = "none" /\ token = FALSE
  /\ server = "running"
  /\ chan = [r \in Readers |-> "closed"]
  /\ answer = "none"

-----------------------------------------------------------------------------
(* Shapes of steps. *)

UnchangedWeb  == UNCHANGED webVars
UnchangedPaos == UNCHANGED <<paosVars, chan>>

(* A check that lets the workflow go on or ends it with an error. *)
Checks(s, onContinue, onAbort) ==
  /\ Runs(s)
  /\ \/ Goto(onContinue) /\ status' = status
     \/ Goto(onAbort) /\ UpdateStatus("Error")
  /\ UNCHANGED <<pw, idType, readerName, expReader, expRc, lastPace, vanished>>
  /\ UnchangedReader /\ UnchangedControl

(* A network request: its reply is an event of the main thread. *)
Requests(s) ==
  /\ Runs(s) /\ Wait
  /\ UnchangedReader /\ UnchangedControl /\ UNCHANGED contextVars

Replies(s, next) ==
  /\ AtRest /\ Waits(s) /\ Goto(next) /\ status' = status
  /\ UNCHANGED <<pw, idType, readerName, expReader, expRc, lastPace, vanished>>
  /\ UnchangedReader /\ UnchangedControl

Fails(s, next) ==
  /\ AtRest /\ Waits(s) /\ Goto(next) /\ UpdateStatus("Error")
  /\ UNCHANGED <<pw, idType, readerName, expReader, expRc, lastPace, vanished>>
  /\ UnchangedReader /\ UnchangedControl

-----------------------------------------------------------------------------
(* From the activation to the TC token. *)

RunProcessing      == Checks("Processing", "ParseTcTokenUrl", "CleanUpReaderManager")
RunParseTcTokenUrl == Checks("ParseTcTokenUrl", "GetTcToken", "CleanUpReaderManager")
RunLoadTcTokenUrl  == Leads("LoadTcTokenUrl", "GetTcToken")
RunGetTcToken      == Requests("GetTcToken")
RunStartPaos       == Leads("StartPaos", "SendStartPaos")

Start ==
  /\ RunProcessing \/ RunParseTcTokenUrl \/ RunLoadTcTokenUrl \/ RunGetTcToken \/ RunStartPaos
  /\ UnchangedWeb /\ UnchangedPaos

(* StateGetTcToken::onNetworkReply and parseTcToken; a URL that is not     *)
(* https does not count as a missing token, one that does not conform to   *)
(* the schema does.                                                        *)
ReceiveTcToken ==
  /\ \/ /\ Replies("GetTcToken", "StartPaos")
        /\ tcToken' = "valid" /\ tcTokenNotFound' = FALSE
     \/ /\ Fails("GetTcToken", "CleanUpReaderManager")
        /\ \/ tcToken' \in {"none", "invalid"} /\ tcTokenNotFound' \in BOOLEAN
  /\ UNCHANGED <<kind, refreshUrl, answer, history>> /\ UnchangedPaos

-----------------------------------------------------------------------------
(* The dialogue with the eID server. *)

(* The message types a state accepts (the constructors in                  *)
(* StateGenericSendReceive.h) and the transitions they take.               *)
Accepts ==
  [ SendStartPaos |->
      [INITIALIZE_FRAMEWORK |-> "InitializeFramework", DID_LIST |-> "DidList",
       EAC1 |-> "ExtractCvcsFromEac1InputType", STARTPAOS_RESPONSE |-> "StartPaosResponse"],
    SendInitializeFrameworkResponse |->
      [DID_LIST |-> "DidList", EAC1 |-> "ExtractCvcsFromEac1InputType",
       STARTPAOS_RESPONSE |-> "StartPaosResponse"],
    SendDIDListResponse |->
      [EAC1 |-> "ExtractCvcsFromEac1InputType", DISCONNECT |-> "SendDisconnectResponse",
       STARTPAOS_RESPONSE |-> "StartPaosResponse"],
    SendDIDAuthenticateResponseEAC1 |->
      [EAC2 |-> "EACAdditionalInputType", DISCONNECT |-> "SendDisconnectResponse",
       STARTPAOS_RESPONSE |-> "StartPaosResponse"],
    SendDIDAuthenticateResponseEACAdditionalInput |->
      [EAC_ADDITIONAL |-> "ProcessCertificatesFromEac2",
       STARTPAOS_RESPONSE |-> "StartPaosResponse"],
    SendDIDAuthenticateResponseEAC2 |->
      [TRANSMIT |-> "Transmit", DISCONNECT |-> "SendDisconnectResponse",
       STARTPAOS_RESPONSE |-> "StartPaosResponse"],
    SendTransmitResponse |->
      [TRANSMIT |-> "Transmit", DISCONNECT |-> "SendDisconnectResponse",
       STARTPAOS_RESPONSE |-> "StartPaosResponse"],
    SendDisconnectResponse |-> [STARTPAOS_RESPONSE |-> "StartPaosResponse"] ]

(* Mutant: the first response after an error does not carry it. *)
ReportsErrorMutant(s) == FALSE

(* StateGenericSendReceive::run: the first response after an error carries *)
(* it; StartPaos is no response.                                           *)
ReportsError(s) == s # "SendStartPaos" /\ ~errorReported /\ status # "NoError"

(* What the server makes of a response. *)
ServerLearns(s) ==
  IF ReportsError(s) THEN "failed"
  ELSE IF s = "SendDIDAuthenticateResponseEAC2" /\ server = "running"
  THEN IF token THEN "authentic" ELSE "failed"
  ELSE server

SendMessage(s) ==
  /\ Requests(s)
  /\ errorReported' = (errorReported \/ ReportsError(s))
  /\ server' = ServerLearns(s)
  /\ UNCHANGED <<verdict, token, chan>> /\ UnchangedWeb

(* The messages the server may send next. *)
MaySend(type) ==
  CASE type \in {"STARTPAOS_RESPONSE", "DISCONNECT"} -> TRUE
    [] type = "TRANSMIT" -> server = "authentic"
    [] OTHER -> server = "running"

(* StateGenericSendReceive::onReplyFinished and setReceivedMessage *)
ReceiveMessage(s) ==
  /\ \/ \E type \in DOMAIN Accepts[s] :
          /\ MaySend(type)
          /\ Replies(s, Accepts[s][type])
          /\ IF type = "STARTPAOS_RESPONSE"
             THEN verdict' \in {"error"} \cup (IF server = "authentic" THEN {"ok"} ELSE {})
             ELSE verdict' = verdict
     \/ Fails(s, IF s \in {"SendStartPaos", "SendInitializeFrameworkResponse",
                           "SendDIDListResponse"}
                 THEN "CleanUpReaderManager" ELSE "UpdateRetryCounterFinal")
        /\ verdict' = verdict
  /\ UNCHANGED <<errorReported, token, server, chan>> /\ UnchangedWeb

Talk == \E s \in SendStates : SendMessage(s)

(* StateStartPaosResponse::run, AbstractState::updateStartPaosResult *)
RunStartPaosResponse ==
  /\ Runs("StartPaosResponse")
  /\ Goto("UpdateRetryCounterFinal")
  /\ IF verdict = "ok" THEN status' = status ELSE UpdateStatus("Error")
  /\ UNCHANGED <<pw, idType, readerName, expReader, expRc, lastPace, vanished>>
  /\ UnchangedReader /\ UnchangedControl /\ UnchangedWeb /\ UnchangedPaos

-----------------------------------------------------------------------------
(* The states between two messages. *)

RunInitializeFramework == Leads("InitializeFramework", "SendInitializeFrameworkResponse")
RunDidList             == Leads("DidList", "SendDIDListResponse")

(* The request of the server has one certificate of each kind, their chain *)
(* is trusted, the description fits, so do the TLS certificates seen so    *)
(* far.                                                                    *)
RunExtractCvcsFromEac1InputType ==
  Checks("ExtractCvcsFromEac1InputType", "PreVerification", "SendDIDAuthenticateResponseEAC1")
RunPreVerification ==
  Checks("PreVerification", "CertificateDescriptionCheck", "SendDIDAuthenticateResponseEAC1")
RunCertificateDescriptionCheck ==
  Checks("CertificateDescriptionCheck", "CheckCertificates", "SendDIDAuthenticateResponseEAC1")
RunCheckCertificates ==
  Checks("CheckCertificates", "EditAccessRights", "SendDIDAuthenticateResponseEAC1")

(* The signature of the server may come with the certificates or later.    *)
RunEACAdditionalInputType ==
  \/ Leads("EACAdditionalInputType", "ProcessCertificatesFromEac2")
  \/ Leads("EACAdditionalInputType", "SendDIDAuthenticateResponseEACAdditionalInput")
RunProcessCertificatesFromEac2 ==
  Checks("ProcessCertificatesFromEac2", "DidAuthenticateEac2", "SendDIDAuthenticateResponseEAC2")

Prepare ==
  /\ \/ RunInitializeFramework
     \/ RunDidList
     \/ RunExtractCvcsFromEac1InputType
     \/ RunPreVerification
     \/ RunCertificateDescriptionCheck
     \/ RunCheckCertificates
     \/ RunEACAdditionalInputType
     \/ RunProcessCertificatesFromEac2
  /\ UnchangedWeb /\ UnchangedPaos

(* The user approves the access rights (StateEditAccessRights). *)
ApproveAccessRights ==
  Leads("EditAccessRights", "MaintainCardConnection") /\ UnchangedWeb /\ UnchangedPaos

(* Mutant: the passwords are kept for later. *)
LeavePaceWithPasswords ==
  /\ \/ Leads("PaceChannelEstablished", "DidAuthenticateEac1")
     \/ Leads("PacePukEstablished", "MaintainCardConnection")
     \/ Leads("PaceAbort", "SendDIDAuthenticateResponseEAC1")
  /\ UnchangedWeb /\ UnchangedPaos

(* Mutant: a PACE that was given up is tried again. *)
LeavePaceAgain ==
  /\ \/ Leads("PaceChannelEstablished", "ClearPacePasswords")
     \/ Leads("PacePukEstablished", "MaintainCardConnection")
     \/ Leads("PaceAbort", "MaintainCardConnection")
  /\ UnchangedWeb /\ UnchangedPaos

(* The transitions on the signals of CompositeStatePace: after the PIN was *)
(* unblocked with the PUK it starts over.                                  *)
LeavePace ==
  /\ \/ Leads("PaceChannelEstablished", "ClearPacePasswords")
     \/ Leads("PacePukEstablished", "MaintainCardConnection")
     \/ Leads("PaceAbort", "SendDIDAuthenticateResponseEAC1")
  /\ UnchangedWeb /\ UnchangedPaos

(* StateClearPacePasswords::run *)
RunClearPacePasswords ==
  /\ Runs("ClearPacePasswords")
  /\ ResetPacePasswords
  /\ Goto("DidAuthenticateEac1")
  /\ UNCHANGED <<idType, readerName, expReader, expRc, lastPace, status, vanished>>
  /\ UnchangedReader /\ UnchangedControl /\ UnchangedWeb /\ UnchangedPaos

-----------------------------------------------------------------------------
(* The commands for the card. *)

OpOf == [DidAuthenticateEac1 |-> "EAC1", DidAuthenticateEac2 |-> "EAC2",
         Transmit |-> "TRANSMIT"]
ResponseState ==
  [DidAuthenticateEac1 |-> "SendDIDAuthenticateResponseEAC1",
   DidAuthenticateEac2 |-> "SendDIDAuthenticateResponseEAC2",
   Transmit |-> "SendTransmitResponse"]

(* run() of StateDidAuthenticateEac1, StateDidAuthenticateEac2, StateTransmit *)
CallCard(s) ==
  /\ Runs(s)
  /\ conn # NoConn
  /\ Post(OpOf[s], "UNKNOWN", NoPassword)
  /\ Wait
  /\ UNCHANGED contextVars /\ UnchangedControl /\ UnchangedWeb /\ UnchangedPaos

(* Mutant: the return code is recorded as it is. *)
StatusOfCommandMutant(s, code) == IF code = "OK" THEN "NoError" ELSE code

StatusOfCommand(s, code) ==
  IF code = "OK" \/ s # "DidAuthenticateEac2" THEN StatusOf(code)
  ELSE IF code = "COMMAND_FAILED" THEN "CardRemoved" ELSE "NoPermission"

(* onCardCommandDone of the three states. Both signals of each lead to the *)
(* response. The token of a failing EAC2 command is empty.                 *)
CardAnswers(s) ==
  /\ Delivers(s, OpOf[s])
  /\ LET code == Head(msgs).code
     IN /\ IF StatusOfCommand(s, code) = "NoError" THEN status' = status
           ELSE UpdateStatus(StatusOfCommand(s, code))
        /\ token' = IF s = "DidAuthenticateEac2" THEN code = "OK" ELSE token
  /\ Goto(ResponseState[s])
  /\ msgs' = Tail(msgs)
  /\ UNCHANGED <<worldVars, chipVars, rd, failures, cmds, conn>>
  /\ UNCHANGED <<pw, idType, readerName, expReader, expRc, lastPace, vanished>>
  /\ UNCHANGED <<errorReported, verdict, server, chan>>
  /\ UnchangedControl /\ UnchangedWeb

(* The reader thread: DidAuthenticateEAC1Command, DidAuthenticateEAC2Command *)
(* and TransmitCommand::internalExecute. Terminal and chip authentication    *)
(* need the state the steps before have left the chip in.                    *)
ExecuteEac(op, needs, becomes, refusal) ==
  /\ Executes(op)
  /\ LET r == Head(cmds).reader
     IN \/ ~rd[r].obj /\ Finish("CARD_NOT_FOUND") /\ chan' = chan
        \/ rd[r].obj /\ ~Reach(r) /\ Finish("COMMAND_FAILED") /\ chan' = chan
        \/ /\ Reach(r) /\ chan[r] = needs
           /\ Finish("OK") /\ chan' = [chan EXCEPT ![r] = becomes]
        \/ Reach(r) /\ Finish(refusal) /\ chan' = chan
  /\ UnchangedByCommand

ExecuteDidAuthenticateEAC1 == ExecuteEac("EAC1", "pace", "eac1", "OK")
ExecuteDidAuthenticateEAC2 == ExecuteEac("EAC2", "eac1", "eac2", "PROTOCOL_ERROR")
ExecuteTransmit == ExecuteEac("TRANSMIT", "eac2", "eac2", "UNEXPECTED_TRANSMIT_STATUS")

(* What the commands of CardReader do to the channel on the chip: it is    *)
(* open for the authentication once the PIN is verified (or the CAN, where *)
(* it is accepted instead).                                                *)
ChannelAfter ==
  LET c == Head(cmds)
      opened == /\ c.op = "PACE" /\ msgs'[Len(msgs')].code = "OK"
                /\ c.id = "PIN" \/ (c.id = "CAN" /\ CanAllowedMode)
  IN IF c.op \in {"CREATE", "PACE", "UNBLOCK", "DESTROY"}
     THEN [chan EXCEPT ![c.reader] = IF opened THEN "pace" ELSE "closed"]
     ELSE chan

ExecuteOther == Execute /\ chan' = ChannelAfter

-----------------------------------------------------------------------------
(* AbstractState::onCardRemoved: the states that use the card give up when *)
(* their reader loses it.                                                  *)

ConnectedOnCardRemoved == CardStates \cup
  (SendStates \ {"SendStartPaos", "SendInitializeFrameworkResponse", "SendDIDListResponse"})

GivesUp(m) == m.kind = "removed" /\ m.reader = readerName /\ st \in ConnectedOnCardRemoved

(* Where fireAbort of a waiting state leads. *)
AbortTarget(s) ==
  CASE s \in {"GetTcToken", "SendStartPaos", "SendInitializeFrameworkResponse",
              "SendDIDListResponse", "UpdateRetryCounterFinal"} -> "CleanUpReaderManager"
    [] s = "EditAccessRights" -> "SendDIDAuthenticateResponseEAC1"
    [] s \in CardStates -> ResponseState[s]
    [] s \in SendStates -> "UpdateRetryCounterFinal"
    [] s = "CheckRefreshAddress" -> IF kind = "auth" THEN "RedirectBrowser" ELSE "FinalState"
    [] s = "GetSelfAuthenticationData" -> "FinalState"
    [] OTHER -> PaceAbortTarget(s)

DeliverCardRemoved ==
  /\ AtRest /\ msgs # <<>> /\ GivesUp(Head(msgs))
  /\ UpdateStatus("CardRemoved")
  /\ Goto(AbortTarget(st))
  /\ conn' = IF Head(msgs).conn /\ conn # NoConn THEN [conn EXCEPT !.rc = Head(msgs).rc] ELSE conn
  /\ cmds' = Disown(cmds) /\ msgs' = Disown(Tail(msgs))
  /\ UNCHANGED <<worldVars, chipVars, rd, failures>>
  /\ UNCHANGED <<pw, idType, readerName, expReader, expRc, lastPace, vanished>>
  /\ UnchangedControl /\ UnchangedWeb /\ UnchangedPaos

-----------------------------------------------------------------------------
(* The end: the card is released, the caller sent on. *)

RunUpdateRetryCounterFinal ==
  RunUpdate("UpdateRetryCounterFinal", "CleanUpReaderManager") /\ UnchangedWeb /\ UnchangedPaos

DeliverUpdateRetryCounterFinal ==
  /\ DeliverUpdate("UpdateRetryCounterFinal", "CleanUpReaderManager", "CleanUpReaderManager")
  /\ UnchangedWeb /\ UnchangedPaos

(* Mutant: the connection to the card is kept. *)
RunCleanUpReaderManagerMutant ==
  /\ Leads("CleanUpReaderManager", IF kind = "auth" THEN "CheckRefreshAddress" ELSE "CheckError")
  /\ UnchangedWeb /\ UnchangedPaos

RunCleanUpReaderManager ==
  /\ CleanUpReaderManager(IF kind = "auth" THEN "CheckRefreshAddress" ELSE "CheckError")
  /\ UnchangedWeb /\ UnchangedPaos

(* StateCheckError::run *)
RunCheckError ==
  /\ Leads("CheckError", IF status = "NoError" THEN "CheckRefreshAddress" ELSE "FinalState")
  /\ UnchangedWeb /\ UnchangedPaos

(* StateCheckRefreshAddress::run: without a token or with an unusable      *)
(* address the workflow goes on without a refresh URL.                     *)
RunCheckRefreshAddress ==
  /\ \/ Leads("CheckRefreshAddress", "ActivateStoreFeedbackDialog")
     \/ tcToken # "none" /\ Requests("CheckRefreshAddress")
  /\ UnchangedWeb /\ UnchangedPaos

(* ... and its replies, up to doneSuccess *)
ReceiveRefreshAddress ==
  /\ \/ Replies("CheckRefreshAddress", "ActivateStoreFeedbackDialog") /\ refreshUrl' = TRUE
     \/ Fails("CheckRefreshAddress", AbortTarget("CheckRefreshAddress")) /\ refreshUrl' = refreshUrl
  /\ UNCHANGED <<kind, tcToken, tcTokenNotFound, answer, history>> /\ UnchangedPaos

RunActivateStoreFeedbackDialog ==
  Leads("ActivateStoreFeedbackDialog", "WriteHistory") /\ UnchangedWeb /\ UnchangedPaos

(* Mutant: failed authentications are recorded, too. *)
RunWriteHistoryMutant ==
  /\ Leads("WriteHistory",
           IF kind = "auth" THEN "SendWhitelistSurvey" ELSE "GetSelfAuthenticationData")
  /\ history' = TRUE
  /\ UNCHANGED <<kind, tcToken, tcTokenNotFound, refreshUrl, answer>> /\ UnchangedPaos

(* StateWriteHistory::run. It gives up without the message EAC1 or without *)
(* effective rights, unless the history is disabled; and it writes nothing *)
(* after an error or without the names in the certificate.                 *)
RunWriteHistory ==
  /\ \/ /\ Leads("WriteHistory",
                 IF kind = "auth" THEN "SendWhitelistSurvey" ELSE "GetSelfAuthenticationData")
        /\ history' \in {history} \cup (IF status = "NoError" THEN {TRUE} ELSE {})
     \/ /\ Leads("WriteHistory",
                 IF kind = "auth" THEN "RedirectBrowser" ELSE "GetSelfAuthenticationData")
        /\ history' = history
  /\ UNCHANGED <<kind, tcToken, tcTokenNotFound, refreshUrl, answer>> /\ UnchangedPaos

RunGetSelfAuthenticationData == Requests("GetSelfAuthenticationData")
RunShowSelfInfo              == Leads("ShowSelfInfo", "SendWhitelistSurvey")
RunSendWhitelistSurvey ==
  Leads("SendWhitelistSurvey", IF kind = "auth" THEN "RedirectBrowser" ELSE "FinalState")

RunSelfAuthenticationEnd ==
  /\ RunGetSelfAuthenticationData \/ RunShowSelfInfo \/ RunSendWhitelistSurvey
  /\ UnchangedWeb /\ UnchangedPaos

(* StateGetSelfAuthenticationData::onNetworkReply *)
ReceiveSelfAuthenticationData ==
  /\ \/ refreshUrl /\ Replies("GetSelfAuthenticationData", "ShowSelfInfo")
     \/ Fails("GetSelfAuthenticationData", "FinalState")
  /\ UnchangedWeb /\ UnchangedPaos

(* StateRedirectBrowser::run *)
AnswerToCaller ==
  IF tcTokenNotFound THEN "notFound"
  ELSE IF ~refreshUrl THEN "failure"
  ELSE IF verdict = "error" \/ status # "NoError" THEN "failure" ELSE "success"

(* ... which may fail to reach the caller *)
RunRedirectBrowser ==
  /\ Runs("RedirectBrowser") /\ Goto("FinalState")
  /\ \/ answer' = AnswerToCaller /\ status' = status
     \/ answer' = answer /\ UpdateStatus("Error")
  /\ UNCHANGED <<pw, idType, readerName, expReader, expRc, lastPace, vanished>>
  /\ UnchangedReader /\ UnchangedControl
  /\ UNCHANGED <<kind, tcToken, tcTokenNotFound, refreshUrl, history>> /\ UnchangedPaos

-----------------------------------------------------------------------------
CancellableStates ==
  SendStates \cup CardStates \cup
  { "SelectReader", "ConnectCard", "UpdateRetryCounter", "EnterPacePassword",
    "EstablishPaceChannel", "DestroyPaceAfterPuk", "GetTcToken", "EditAccessRights",
    "UpdateRetryCounterFinal", "CheckRefreshAddress", "GetSelfAuthenticationData" }

Cancel == UserCancels(CancellableStates, AbortTarget) /\ UNCHANGED authVars
CancelKilled == KillCancels(CancellableStates, AbortTarget) /\ UNCHANGED authVars

(* The steps of the composite state; its receivers of card events step     *)
(* back where onCardRemoved applies.                                       *)
Pace ==
  /\ RunPace \/ DeliverToPace
  /\ ~(AtRest /\ msgs # <<>> /\ GivesUp(Head(msgs)))
  /\ UNCHANGED authVars

RunAuth ==
  \/ Start
  \/ Talk
  \/ RunStartPaosResponse
  \/ Prepare
  \/ LeavePace
  \/ RunClearPacePasswords
  \/ \E s \in CardStates : CallCard(s)
  \/ RunUpdateRetryCounterFinal
  \/ RunCleanUpReaderManager
  \/ RunCheckError
  \/ RunCheckRefreshAddress
  \/ RunActivateStoreFeedbackDialog
  \/ RunWriteHistory
  \/ RunSelfAuthenticationEnd
  \/ RunRedirectBrowser
  \/ CancelKilled

DeliverToAuth ==
  \/ \E s \in CardStates : CardAnswers(s)
  \/ DeliverCardRemoved
  \/ DeliverUpdateRetryCounterFinal

MainThread == Pace \/ RunAuth \/ DeliverToAuth

Network ==
  \/ ReceiveTcToken
  \/ \E s \in SendStates : ReceiveMessage(s)
  \/ ReceiveRefreshAddress
  \/ ReceiveSelfAuthenticationData

User ==
  \/ ApproveAccessRights
  \/ Cancel
  \/ (EnterPacePassword \/ RunFinalState \/ RetryCardSelection \/ Kill) /\ UNCHANGED authVars

Executing ==
  /\ \/ ExecuteDidAuthenticateEAC1
     \/ ExecuteDidAuthenticateEAC2
     \/ ExecuteTransmit
     \/ ExecuteOther
  /\ UNCHANGED <<paceVars, webVars, paosVars>>

Environment ==
  /\ World \/ \E r \in Readers : Update(r)
  /\ UNCHANGED <<paceVars, authVars>>

Terminated == st = "Stopped" /\ cmds = <<>> /\ msgs = <<>> /\ UNCHANGED allVars

Next == MainThread \/ Network \/ User \/ Executing \/ Environment \/ Terminated

ApprovedByKill ==
  /\ killed
  /\ ApproveAccessRights \/ ((EnterPacePassword \/ RunFinalState) /\ UNCHANGED authVars)

(* As in ChangePinController; every request is answered or times out.      *)
Fairness ==
  /\ WF_allVars(MainThread)
  /\ WF_allVars(ApprovedByKill)
  /\ WF_allVars(Executing)
  /\ WF_allVars(Network)

Spec == Init /\ [][Next]_allVars /\ Fairness

-----------------------------------------------------------------------------
(* Passwords are cleared as soon as possible: none is in memory while the  *)
(* client talks to the server or starts the authentication with the card   *)
(* (asserted in StateGenericSendReceive::run, StateDidAuthenticateEac1::run). *)
PasswordsCleared == st \in SendStates \cup {"DidAuthenticateEac1"} => pw = NoPasswords

(* The card behind the open handle is the one whose password was verified, *)
(* and the commands come in their order (a chip that denies its challenge  *)
(* is only noticed by the terminal authentication that follows).           *)
EacInOrder ==
  [][ (cmds # <<>> /\ cmds' = Tail(cmds) /\ Reach(Head(cmds).reader)) =>
        LET c == Head(cmds)
        IN /\ c.op = "EAC1" => chan[c.reader] = "pace"
           /\ c.op = "EAC2" => chan[c.reader] \in {"pace", "eac1"}
           /\ c.op = "TRANSMIT" => chan[c.reader] = "eac2" ]_allVars

(* What the caller is told, what the user sees and what the history says   *)
(* agree with what the server has decided on a card that proved its chip.  *)
SuccessIsReal ==
  (answer = "success" \/ history \/ (st = "FinalState" /\ status = "NoError")) =>
    verdict = "ok" /\ token /\ server = "authentic"

(* Once an error is on record the card gets no further password and no     *)
(* command of the authentication.                                          *)
SilentAfterError ==
  [][ (status # "NoError" /\ ~cancelPending) =>
        \A i \in DOMAIN cmds' :
          cmds'[i].op \in {"PACE", "UNBLOCK", "EAC1", "EAC2", "TRANSMIT"} =>
            \E j \in DOMAIN cmds : cmds[j].op = cmds'[i].op ]_allVars

(* The quit request ends the workflow without the user.                    *)
KilledStops == killed ~> st = "Stopped"

(* Every card is released in the end: no handle stays open.                *)
CardsReleased == st = "Stopped" ~> \A r \in Readers : rd[r].handle = "closed"
=============================================================================
